-------------------------- MODULE ScanAdmissionProofs --------------------------
(***************************************************************************)
(* Theorems about ScanAdmission, for any number of tenants and requests    *)
(* and any limits.  The argument: every step leaves the holders of quota   *)
(* slots alone, or adds one request that held none, or removes one (the    *)
(* shape QuotaStep), and moves the governor's books accordingly; the same  *)
(* for the network guard (NetStep).  The counting lemmas turn the shapes   *)
(* into the balance of the books and into steps of TenantPool.             *)
(***************************************************************************)
EXTENDS ScanAdmission, FiniteSetTheorems, TLAPS

-----------------------------------------------------------------------------
(* Counting *)

\* All the holders of a pool.
AllOf(H) == UNION {H[t] : t \in Tenants}

Disjoint(H) ==
  /\ H \in [Tenants -> SUBSET Requests]
  /\ \A t, u \in Tenants : t # u => H[t] \cap H[u] = {}

\* H with one slot more, and with one slot less.
Taken(H, t, c) == [H EXCEPT ![t] = @ \cup {c}]
Given(H, t, c) == [H EXCEPT ![t] = @ \ {c}]

LEMMA Finite == \A S \in SUBSET Requests : IsFiniteSet(S) /\ Cardinality(S) \in Nat
  BY ConstantsOK, FS_Subset, FS_CardinalityType

LEMMA FinitePool ==
  ASSUME NEW H, Disjoint(H)
  PROVE  AllOf(H) \in SUBSET Requests /\ \A t \in Tenants : H[t] \in SUBSET Requests
  BY DEF Disjoint, AllOf

\* Taking one slot.
LEMMA TakeCounts ==
  ASSUME NEW H, Disjoint(H), NEW t \in Tenants, NEW c \in Requests, c \notin AllOf(H)
  PROVE  /\ Disjoint(Taken(H, t, c))
         /\ \A u \in Tenants :
              Cardinality(Taken(H, t, c)[u]) = IF u = t THEN Cardinality(H[u]) + 1 ELSE Cardinality(H[u])
         /\ Cardinality(AllOf(Taken(H, t, c))) = Cardinality(AllOf(H)) + 1
<1> DEFINE G == Taken(H, t, c)
<1>1. G = [u \in Tenants |-> IF u = t THEN H[u] \cup {c} ELSE H[u]]
  BY DEF Disjoint, Taken
<1> HIDE DEF G
<1>2. \A u \in Tenants : c \notin H[u]
  BY DEF AllOf
<1>3. Disjoint(G)
  BY <1>1, <1>2 DEF Disjoint
<1>4. AllOf(G) = AllOf(H) \cup {c}
  BY <1>1 DEF AllOf
<1>5. \A u \in Tenants :
        Cardinality(G[u]) = IF u = t THEN Cardinality(H[u]) + 1 ELSE Cardinality(H[u])
  <2>1. Cardinality(H[t] \cup {c}) = Cardinality(H[t]) + 1
    BY <1>2, Finite, FinitePool, FS_AddElement
  <2>2. QED
    BY <1>1, <2>1
<1>6. Cardinality(AllOf(G)) = Cardinality(AllOf(H)) + 1
  BY <1>4, Finite, FinitePool, FS_AddElement
<1>7. QED
  BY <1>3, <1>5, <1>6 DEF G

\* Giving one slot back.
LEMMA GiveCounts ==
  ASSUME NEW H, Disjoint(H), NEW t \in Tenants, NEW c \in H[t]
  PROVE  /\ Disjoint(Given(H, t, c))
         /\ \A u \in Tenants :
              Cardinality(Given(H, t, c)[u]) = IF u = t THEN Cardinality(H[u]) - 1 ELSE Cardinality(H[u])
         /\ Cardinality(AllOf(Given(H, t, c))) = Cardinality(AllOf(H)) - 1
<1> DEFINE G == Given(H, t, c)
<1>1. G = [u \in Tenants |-> IF u = t THEN H[u] \ {c} ELSE H[u]]
  BY DEF Disjoint, Given
<1> HIDE DEF G
<1>2. \A u \in Tenants : u # t => c \notin H[u]
  BY DEF Disjoint
<1>3. Disjoint(G)
  BY <1>1 DEF Disjoint
<1>4. AllOf(G) = AllOf(H) \ {c} /\ c \in AllOf(H)
  BY <1>1, <1>2 DEF AllOf
<1>5. \A u \in Tenants :
        Cardinality(G[u]) = IF u = t THEN Cardinality(H[u]) - 1 ELSE Cardinality(H[u])
  <2>1. Cardinality(H[t] \ {c}) = Cardinality(H[t]) - 1
    BY Finite, FinitePool, FS_RemoveElement
  <2>2. QED
    BY <1>1, <2>1
<1>6. Cardinality(AllOf(G)) = Cardinality(AllOf(H)) - 1
  BY <1>4, Finite, FinitePool, FS_RemoveElement
<1>7. QED
  BY <1>3, <1>5, <1>6 DEF G

\* A tenant with a holder has a positive count, and so has the pool.
LEMMA HeldCounts ==
  ASSUME NEW H, Disjoint(H), NEW t \in Tenants, NEW c \in H[t]
  PROVE  Cardinality(H[t]) \in Nat \ {0} /\ Cardinality(AllOf(H)) \in Nat \ {0}
<1>1. H[t] # {} /\ AllOf(H) # {}
  BY DEF AllOf
<1>2. QED
  BY <1>1, Finite, FinitePool, FS_EmptySet

LEMMA EmptyPool ==
  ASSUME NEW H, H = [t \in Tenants |-> {}]
  PROVE  /\ Disjoint(H) /\ AllOf(H) = {} /\ Cardinality(AllOf(H)) = 0
         /\ \A t \in Tenants : Cardinality(H[t]) = 0
  BY FS_EmptySet DEF Disjoint, AllOf

-----------------------------------------------------------------------------
(* Types *)

LEMMA TypeOKInit == Init => TypeOK
  BY DEF Init, TypeOK, Phases, ScanIds, AllKinds

LEMMA TypeOKNext == TypeOK /\ [Next]_vars => TypeOK'
<1> SUFFICES ASSUME TypeOK, [Next]_vars PROVE TypeOK'
  OBVIOUS
<1>1. ASSUME NEW n \in Nat PROVE Decrement(n) \in Nat
  BY DEF Decrement
<1>2. ASSUME NEW r \in Requests, NEW phase \in Phases, Goto(r, phase)
      PROVE  pc' \in [Requests -> Phases]
  BY <1>2 DEF Goto, TypeOK
<1>3. ASSUME NEW r \in Requests, NEW t \in Tenants, NEW id \in ScanIds, Acquire(r, t, id)
      PROVE  /\ activeScans' \in [Tenants -> SUBSET ScanIds] /\ totalActive' \in Nat
             /\ scanId' \in [Requests -> ScanIds] /\ holding' \in [Requests -> BOOLEAN]
  BY <1>3 DEF Acquire, TypeOK
<1>4. ASSUME NEW r \in Requests, Release(r)
      PROVE  /\ activeScans' \in [Tenants -> SUBSET ScanIds] /\ totalActive' \in Nat
             /\ holding' \in [Requests -> BOOLEAN]
  BY <1>1, <1>4 DEF Release, TypeOK
<1>5. ASSUME NEW t, ReleaseNet(t) \/ AcquireNet(t)
      PROVE  activeTenantScans' \in [Tenants -> Nat] /\ globalActiveScans' \in Nat
  BY <1>1, <1>5 DEF ReleaseNet, AcquireNet, TypeOK
<1>6. ASSUME NEW r \in Requests, NEW t \in Tenants, NEW k \in Kinds, Enter(r, t, k)
      PROVE  /\ activeScans' \in [Tenants -> SUBSET ScanIds] /\ totalActive' \in Nat
             /\ kind' \in [Requests -> AllKinds \cup {"none"}]
             /\ tenant' \in [Requests -> Tenants \cup {NoTenant}]
             /\ scanId' \in [Requests -> ScanIds]
             /\ holding' \in [Requests -> BOOLEAN]
             /\ response' \in [Requests -> {"none", "open", "sent", "finished", "closed"}]
  BY <1>3, <1>6, ConstantsOK DEF Enter, TypeOK, ScanIds
<1>7. ASSUME NEW r \in Requests, NEW t \in Tenants, NEW k \in Kinds, Submit(r, t, k)
      PROVE  TypeOK'
  <2>1. pc' \in [Requests -> Phases]
    BY <1>2, <1>7 DEF Submit, Phases
  <2>2. QED
    BY <1>6, <1>7, <2>1 DEF Submit, guard, TypeOK
<1>8. ASSUME NEW r \in Requests, NEW t \in Tenants, "network" \in Kinds, SubmitNetwork(r, t)
      PROVE  TypeOK'
  <2>1. pc' \in [Requests -> Phases]
    BY <1>2, <1>8 DEF SubmitNetwork, Phases
  <2>2. activeTenantScans' \in [Tenants -> Nat] /\ globalActiveScans' \in Nat
    BY <1>5, <1>8 DEF SubmitNetwork, guard, TypeOK
  <2>3. QED
    BY <1>6, <1>8, <2>1, <2>2 DEF SubmitNetwork, TypeOK
<1>9. ASSUME NEW r \in Requests, NEW t \in Tenants, NEW id \in {r} \cup SharedIds,
             StartGoverned(r, t, id)
      PROVE  TypeOK'
  <2>1. id \in ScanIds
    BY DEF ScanIds
  <2>2. pc' \in [Requests -> Phases]
    BY <1>2, <1>9 DEF StartGoverned, Phases
  <2>3. QED
    BY <1>3, <1>9, <2>1, <2>2 DEF StartGoverned, guard, TypeOK, AllKinds
<1>10. ASSUME NEW r \in Requests, Handle(r)
       PROVE  TypeOK'
  <2>1. pc' \in [Requests -> Phases]
    BY <1>2, <1>10 DEF Handle, Resolve, StartProbe, Prepare, ScannerExits, Ingested, Answer,
                       Afterwards, Phases
  <2>2. activeTenantScans' \in [Tenants -> Nat] /\ globalActiveScans' \in Nat
    BY <1>5, <1>10 DEF Handle, Resolve, StartProbe, Prepare, ScannerExits, Ingested, Answer,
                       guard, TypeOK
  <2>3. response' \in [Requests -> {"none", "open", "sent", "finished", "closed"}]
    BY <1>10 DEF Handle, Resolve, StartProbe, Prepare, ScannerExits, Ingested, Answer, TypeOK
  <2>4. UNCHANGED <<quota, kind, tenant, scanId, holding>>
    BY <1>10 DEF Handle, Resolve, StartProbe, Prepare, ScannerExits, Ingested, Answer
  <2>5. QED
    BY <2>1, <2>2, <2>3, <2>4 DEF TypeOK, quota
<1>11. ASSUME NEW r \in Requests, Finish(r) \/ Close(r)
       PROVE  TypeOK'
  BY <1>4, <1>11 DEF Finish, Close, guard, TypeOK
<1>12. ASSUME NEW r \in Requests, EndGoverned(r) \/ TimeOutGoverned(r)
       PROVE  TypeOK'
  <2>1. pc' \in [Requests -> Phases]
    BY <1>2, <1>12 DEF EndGoverned, TimeOutGoverned, Phases
  <2>2. QED
    BY <1>4, <1>12, <2>1 DEF EndGoverned, TimeOutGoverned, guard, TypeOK
<1>13. ASSUME NEW r \in Requests, SettleLate(r) \/ Forget(r)
       PROVE  TypeOK'
  <2>1. pc' \in [Requests -> Phases]
    BY <1>2, <1>13 DEF SettleLate, Forget, Phases
  <2>2. QED
    BY <1>13, <2>1 DEF SettleLate, Forget, quota, guard, TypeOK, ScanIds
<1>14. CASE UNCHANGED vars
  BY <1>14 DEF vars, quota, guard, TypeOK
<1>15. QED
  BY <1>7, <1>8, <1>9, <1>10, <1>11, <1>12, <1>13, <1>14 DEF Next, Arrive

\* Every variable keeps its type, for all values of the constants: the counters
\* of both governors never go below zero.
THEOREM AdmissionTypeCorrect == Spec => []TypeOK
  BY TypeOKInit, TypeOKNext, PTL DEF Spec

-----------------------------------------------------------------------------
(* The life of a request *)

\* A request that has not been made holds nothing; one that holds a quota slot
\* has still to be answered, or is governed work; only a network scan is
\* resolved and audited.
CallInv ==
  \A r \in Requests :
    /\ pc[r] = "idle" => ~holding[r] /\ response[r] = "none"
    /\ pc[r] # "idle" => tenant[r] \in Tenants
    /\ pc[r] \in {"resolving", "auditing"} => kind[r] = "network"
    /\ holding[r] => pc[r] = "governed" \/ response[r] \in {"open", "sent"}
    /\ SharedIds = {} => scanId[r] = r

LEMMA CallInvInit == Init => CallInv
  BY DEF Init, CallInv

LEMMA CallInvNext == TypeOK /\ CallInv /\ [Next]_vars => CallInv'
<1> SUFFICES ASSUME TypeOK, CallInv, [Next]_vars PROVE CallInv'
  OBVIOUS
<1>1. ASSUME NEW r \in Requests, NEW t \in Tenants, Arrive(r, t)
      PROVE  CallInv'
  BY <1>1 DEF Arrive, Submit, SubmitNetwork, StartGoverned, Enter, Acquire, Goto, CallInv, TypeOK
<1>2. ASSUME NEW r \in Requests, Handle(r)
      PROVE  CallInv'
  BY <1>2 DEF Handle, Resolve, StartProbe, Prepare, ScannerExits, Ingested, Answer, Afterwards,
              Goto, CallInv, TypeOK
<1>3. ASSUME NEW r \in Requests, Finish(r) \/ Close(r) \/ EndGoverned(r) \/ TimeOutGoverned(r)
      PROVE  CallInv'
  BY <1>3 DEF Finish, Close, EndGoverned, TimeOutGoverned, Release, Goto, CallInv, TypeOK
<1>4. ASSUME NEW r \in Requests, SettleLate(r) \/ Forget(r)
      PROVE  CallInv'
  BY <1>4 DEF SettleLate, Forget, Goto, CallInv, TypeOK
<1>5. CASE UNCHANGED vars
  BY <1>5 DEF vars, CallInv
<1>6. QED
  BY <1>1, <1>2, <1>3, <1>4, <1>5 DEF Next

LEMMA AlwaysCallInv == Spec => [](TypeOK /\ CallInv)
  BY TypeOKInit, TypeOKNext, CallInvInit, CallInvNext, PTL DEF Spec

-----------------------------------------------------------------------------
(* Steps of the quota *)

\* Who holds a quota slot, by tenant.
QuotaOf == [t \in Tenants |-> QuotaHolders(t)]

TakesQuota(r, t) ==
  /\ ~holding[r] /\ HasQuota(t)
  /\ QuotaOf' = Taken(QuotaOf, t, r)
  /\ activeScans' = [activeScans EXCEPT ![t] = @ \cup {scanId'[r]}]
  /\ totalActive' = totalActive + 1

GivesQuota(r, t) ==
  /\ r \in QuotaOf[t]
  /\ QuotaOf' = Given(QuotaOf, t, r)
  /\ activeScans' = [activeScans EXCEPT ![t] = @ \ {scanId[r]}]
  /\ totalActive' = IF scanId[r] \in activeScans[t] THEN Decrement(totalActive) ELSE totalActive

QuotaStep ==
  \/ QuotaOf' = QuotaOf /\ UNCHANGED quota
  \/ \E r \in Requests, t \in Tenants : TakesQuota(r, t) \/ GivesQuota(r, t)

LEMMA AcquireTakes ==
  ASSUME TypeOK, NEW r \in Requests, NEW t \in Tenants, NEW id, ~holding[r],
         Acquire(r, t, id), tenant' = [tenant EXCEPT ![r] = t]
  PROVE  TakesQuota(r, t)
<1>1. \A u \in Tenants :
        QuotaHolders(u)' = IF u = t THEN QuotaHolders(u) \cup {r} ELSE QuotaHolders(u)
  BY DEF QuotaHolders, Acquire, TypeOK
<1>2. QuotaOf' = Taken(QuotaOf, t, r)
  BY <1>1 DEF QuotaOf, Taken
<1>3. scanId'[r] = id
  BY DEF Acquire, TypeOK
<1>4. QED
  BY <1>2, <1>3 DEF TakesQuota, Acquire

LEMMA ReleaseGives ==
  ASSUME TypeOK, CallInv, NEW r \in Requests, Release(r), UNCHANGED tenant
  PROVE  QuotaStep
<1>1. CASE ~holding[r]
  <2>1. UNCHANGED quota /\ UNCHANGED holding
    BY <1>1 DEF Release, quota, TypeOK
  <2>2. QED
    BY <2>1 DEF QuotaStep, QuotaOf, QuotaHolders
<1>2. CASE holding[r]
  <2>1. tenant[r] \in Tenants
    BY <1>2 DEF CallInv
  <2>2. \A u \in Tenants :
          QuotaHolders(u)' = IF u = tenant[r] THEN QuotaHolders(u) \ {r} ELSE QuotaHolders(u)
    BY DEF QuotaHolders, Release, TypeOK
  <2>3. QuotaOf' = Given(QuotaOf, tenant[r], r)
    BY <2>1, <2>2 DEF QuotaOf, Given
  <2>4. r \in QuotaOf[tenant[r]]
    BY <1>2, <2>1 DEF QuotaOf, QuotaHolders
  <2>5. GivesQuota(r, tenant[r])
    BY <1>2, <2>3, <2>4 DEF GivesQuota, Release
  <2>6. QED
    BY <2>1, <2>5 DEF QuotaStep
<1>3. QED
  BY <1>1, <1>2 DEF TypeOK

LEMMA QuotaShape == TypeOK /\ CallInv /\ [Next]_vars => QuotaStep
<1> SUFFICES ASSUME TypeOK, CallInv, [Next]_vars PROVE QuotaStep
  OBVIOUS
<1>1. ASSUME NEW r \in Requests, NEW t \in Tenants, Arrive(r, t)
      PROVE  QuotaStep
  <2>1. ~holding[r]
    BY <1>1 DEF Arrive, Submit, SubmitNetwork, StartGoverned, Enter, CallInv
  <2>2. PICK id : Acquire(r, t, id)
    BY <1>1 DEF Arrive, Submit, SubmitNetwork, StartGoverned, Enter
  <2>3. tenant' = [tenant EXCEPT ![r] = t]
    BY <1>1 DEF Arrive, Submit, SubmitNetwork, StartGoverned, Enter
  <2>4. QED
    BY <2>1, <2>2, <2>3, AcquireTakes DEF QuotaStep
<1>2. ASSUME NEW r \in Requests, Handle(r) \/ SettleLate(r)
      PROVE  QuotaStep
  <2>1. UNCHANGED <<quota, holding, tenant>>
    BY <1>2 DEF Handle, Resolve, StartProbe, Prepare, ScannerExits, Ingested, Answer, SettleLate
  <2>2. QED
    BY <2>1 DEF QuotaStep, QuotaOf, QuotaHolders
<1>3. ASSUME NEW r \in Requests, Finish(r) \/ Close(r) \/ EndGoverned(r) \/ TimeOutGoverned(r)
      PROVE  QuotaStep
  <2>1. Release(r) /\ UNCHANGED tenant
    BY <1>3 DEF Finish, Close, EndGoverned, TimeOutGoverned
  <2>2. QED
    BY <2>1, ReleaseGives
<1>4. ASSUME NEW r \in Requests, Forget(r)
      PROVE  QuotaStep
  <2>1. ~holding[r] /\ UNCHANGED <<quota, holding>> /\ tenant' = [tenant EXCEPT ![r] = NoTenant]
    BY <1>4 DEF Forget, CallInv, TypeOK
  <2>2. \A u \in Tenants : QuotaHolders(u)' = QuotaHolders(u)
    BY <2>1 DEF QuotaHolders, TypeOK
  <2>3. QED
    BY <2>1, <2>2 DEF QuotaStep, QuotaOf
<1>5. CASE UNCHANGED vars
  BY <1>5 DEF vars, QuotaStep, QuotaOf, QuotaHolders
<1>6. QED
  BY <1>1, <1>2, <1>3, <1>4, <1>5 DEF Next

-----------------------------------------------------------------------------
(* The quota's books *)

QuotaInv ==
  /\ Disjoint(QuotaOf)
  /\ SharedIds = {} => activeScans = QuotaOf /\ totalActive = Cardinality(AllOf(QuotaOf))

LEMMA QuotaInvInit == Init => QuotaInv
<1> SUFFICES ASSUME Init PROVE QuotaInv
  OBVIOUS
<1>1. QuotaOf = [t \in Tenants |-> {}]
  BY DEF Init, QuotaOf, QuotaHolders
<1>2. QED
  BY <1>1, EmptyPool DEF QuotaInv, Init

LEMMA QuotaInvNext == TypeOK /\ CallInv /\ QuotaInv /\ [Next]_vars => QuotaInv'
<1> SUFFICES ASSUME TypeOK, CallInv, CallInv', QuotaInv, QuotaStep PROVE QuotaInv'
  BY QuotaShape, CallInvNext
<1>1. CASE QuotaOf' = QuotaOf /\ UNCHANGED quota
  BY <1>1 DEF QuotaInv, quota, Disjoint, AllOf
<1>2. ASSUME NEW r \in Requests, NEW t \in Tenants, TakesQuota(r, t)
      PROVE  QuotaInv'
  <2>1. r \notin AllOf(QuotaOf)
    BY <1>2 DEF TakesQuota, AllOf, QuotaOf, QuotaHolders
  <2>2. Disjoint(QuotaOf') /\ Cardinality(AllOf(QuotaOf')) = Cardinality(AllOf(QuotaOf)) + 1
    BY <1>2, <2>1, TakeCounts DEF TakesQuota, QuotaInv
  <2>3. SharedIds = {} => scanId'[r] = r
    BY DEF CallInv
  <2>4. SharedIds = {} => activeScans' = QuotaOf' /\ totalActive' = totalActive + 1
    BY <1>2, <2>3 DEF TakesQuota, QuotaInv, Taken
  <2>5. QED
    BY <2>2, <2>4 DEF QuotaInv, Disjoint, AllOf
<1>3. ASSUME NEW r \in Requests, NEW t \in Tenants, GivesQuota(r, t)
      PROVE  QuotaInv'
  <2>1. r \in QuotaOf[t]
    BY <1>3 DEF GivesQuota
  <2>2. Disjoint(QuotaOf') /\ Cardinality(AllOf(QuotaOf')) = Cardinality(AllOf(QuotaOf)) - 1
    BY <1>3, <2>1, GiveCounts DEF GivesQuota, QuotaInv
  <2>3. Cardinality(AllOf(QuotaOf)) \in Nat \ {0}
    BY <2>1, HeldCounts DEF QuotaInv
  <2>4. SharedIds = {} => scanId[r] = r
    BY DEF CallInv
  <2>5. SharedIds = {} => activeScans' = QuotaOf' /\ totalActive' = totalActive - 1
    BY <1>3, <2>1, <2>3, <2>4 DEF GivesQuota, QuotaInv, Decrement, Given
  <2>6. QED
    BY <2>2, <2>3, <2>5 DEF QuotaInv, Disjoint, AllOf
<1>4. QED
  BY <1>1, <1>2, <1>3 DEF QuotaStep

LEMMA AlwaysQuotaInv == Spec => [](TypeOK /\ CallInv /\ QuotaInv)
  BY AlwaysCallInv, QuotaInvInit, QuotaInvNext, PTL DEF Spec

\* The quota's sets and total describe exactly the requests that hold a slot,
\* when governed scans do not share ids.
THEOREM QuotaBooksCorrect == Spec => []QuotaBooksBalance
<1>1. TypeOK /\ CallInv /\ QuotaInv => QuotaBooksBalance
  <2> SUFFICES ASSUME TypeOK, CallInv, QuotaInv, SharedIds = {} PROVE QuotaBooksBalance
    BY DEF QuotaBooksBalance
  <2>1. AllOf(QuotaOf) = {r \in Requests : holding[r]}
    BY DEF AllOf, QuotaOf, QuotaHolders, CallInv
  <2>2. \A t \in Tenants : activeScans[t] = {scanId[r] : r \in QuotaHolders(t)}
    BY DEF QuotaInv, QuotaOf, QuotaHolders, CallInv
  <2>3. QED
    BY <2>1, <2>2 DEF QuotaInv, QuotaBooksBalance
<1>2. QED
  BY <1>1, AlwaysQuotaInv, PTL

\* The pools' own copy of FiniteSets counts as ours does.
LEMMA SameCardinality ==
  \A S : QuotaPool!Cardinality(S) = Cardinality(S) /\ NetPool!Cardinality(S) = Cardinality(S)
  BY DEF Cardinality, QuotaPool!Cardinality, NetPool!Cardinality

\* The quota implements a pool with its two limits.
THEOREM QuotaPoolCorrect ==
  ASSUME SharedIds = {}
  PROVE  Spec => QuotaPoolSpec
<1>1. Init => QuotaPool!Init
  BY DEF Init, QuotaPool!Init, QuotaHolders
<1>2. TypeOK /\ CallInv /\ QuotaInv /\ [Next]_vars => [QuotaPool!Next]_QuotaOf
  <2> SUFFICES ASSUME TypeOK, CallInv, QuotaInv, QuotaStep PROVE [QuotaPool!Next]_QuotaOf
    BY QuotaShape
  <2>1. QuotaPool!AllHolders = AllOf(QuotaOf)
    BY DEF QuotaPool!AllHolders, AllOf, QuotaOf
  <2>2. ASSUME NEW r \in Requests, NEW t \in Tenants, TakesQuota(r, t)
        PROVE  QuotaPool!Take(t, r)
    <3>1. r \notin AllOf(QuotaOf)
      BY <2>2 DEF TakesQuota, AllOf, QuotaOf, QuotaHolders
    <3>2. Cardinality(QuotaOf[t]) < MaxPerTenant /\ Cardinality(AllOf(QuotaOf)) < MaxSystem
      BY <2>2 DEF TakesQuota, HasQuota, QuotaInv
    <3>3. QED
      BY <2>1, <2>2, <3>1, <3>2, SameCardinality DEF TakesQuota, QuotaPool!Take, QuotaOf, Taken
  <2>3. ASSUME NEW r \in Requests, NEW t \in Tenants, GivesQuota(r, t)
        PROVE  QuotaPool!Give(t, r)
    BY <2>3 DEF GivesQuota, QuotaPool!Give, QuotaOf, Given
  <2>4. QED
    BY <2>2, <2>3 DEF QuotaStep, QuotaPool!Next
<1>3. QED
  BY <1>1, <1>2, AlwaysQuotaInv, PTL DEF Spec, QuotaPoolSpec, QuotaPool!Spec, QuotaOf

-----------------------------------------------------------------------------
(* Steps of the network guard *)

\* Who holds a slot of the guard, by tenant.
NetOf == [t \in Tenants |-> NetHolders(t)]

InNet(r) == kind[r] = "network" /\ pc[r] \in {"resolving", "auditing", "scanning"}

TakesNet(r, t) ==
  /\ ~InNet(r) /\ HasNetSlot(t) /\ AcquireNet(t)
  /\ NetOf' = Taken(NetOf, t, r)

\* A slot comes back, or, when the directory cannot be created, its holder
\* leaves without giving it back.
GivesNet(r, t) ==
  /\ r \in NetOf[t]
  /\ ReleaseNet(t) \/ (StorageFails /\ UNCHANGED guard)
  /\ NetOf' = Given(NetOf, t, r)

NetStep ==
  \/ NetOf' = NetOf /\ UNCHANGED guard
  \/ \E r \in Requests, t \in Tenants : TakesNet(r, t) \/ GivesNet(r, t)

\* A step that changes no tenant's holders.
LEMMA NetUntouched ==
  ASSUME TypeOK, TypeOK', UNCHANGED guard,
         \A q \in Requests : (InNet(q)' <=> InNet(q)) /\ (InNet(q) => tenant'[q] = tenant[q])
  PROVE  NetStep
<1>1. \A u \in Tenants : NetHolders(u)' = NetHolders(u)
  BY DEF NetHolders, InNet
<1>2. QED
  BY <1>1 DEF NetStep, NetOf

\* A step that takes its request r out of the guard.
LEMMA NetLeft ==
  ASSUME TypeOK, TypeOK', CallInv, UNCHANGED tenant, NEW r \in Requests, InNet(r),
         ReleaseNet(tenant[r]) \/ (StorageFails /\ UNCHANGED guard),
         \A q \in Requests : InNet(q)' <=> (InNet(q) /\ q # r)
  PROVE  NetStep
<1>1. tenant[r] \in Tenants
  BY DEF CallInv, InNet
<1>2. \A u \in Tenants :
        NetHolders(u)' = IF u = tenant[r] THEN NetHolders(u) \ {r} ELSE NetHolders(u)
  BY DEF NetHolders, InNet
<1>3. NetOf' = Given(NetOf, tenant[r], r)
  BY <1>1, <1>2 DEF NetOf, Given
<1>4. r \in NetOf[tenant[r]]
  BY <1>1 DEF NetOf, NetHolders, InNet
<1>5. GivesNet(r, tenant[r])
  BY <1>3, <1>4 DEF GivesNet
<1>6. QED
  BY <1>1, <1>5 DEF NetStep

LEMMA NetShape == TypeOK /\ CallInv /\ [Next]_vars => NetStep
<1> SUFFICES ASSUME TypeOK, CallInv, [Next]_vars PROVE NetStep
  OBVIOUS
<1>1. TypeOK'
  BY TypeOKNext
<1>2. ASSUME NEW r \in Requests, NEW t \in Tenants, SubmitNetwork(r, t)
      PROVE  NetStep
  <2>1. /\ pc[r] = "idle"
        /\ kind' = [kind EXCEPT ![r] = "network"] /\ tenant' = [tenant EXCEPT ![r] = t]
    BY <1>2 DEF SubmitNetwork, Enter
  <2>2. CASE Goto(r, "answering") /\ UNCHANGED guard
    BY <1>1, <2>1, <2>2, NetUntouched DEF Goto, InNet, TypeOK
  <2>3. CASE HasNetSlot(t) /\ AcquireNet(t) /\ Goto(r, "resolving")
    <3>1. \A u \in Tenants :
            NetHolders(u)' = IF u = t THEN NetHolders(u) \cup {r} ELSE NetHolders(u)
      BY <2>1, <2>3 DEF Goto, NetHolders, TypeOK
    <3>2. NetOf' = Taken(NetOf, t, r)
      BY <3>1 DEF NetOf, Taken
    <3>3. QED
      BY <2>1, <2>3, <3>2 DEF TakesNet, NetStep, InNet
  <2>4. QED
    BY <1>2, <2>2, <2>3 DEF SubmitNetwork
<1>3. ASSUME NEW r \in Requests, NEW t \in Tenants, NEW k \in Kinds, Submit(r, t, k)
      PROVE  NetStep
  BY <1>1, <1>3, NetUntouched DEF Submit, Enter, Goto, InNet, TypeOK
<1>4. ASSUME NEW r \in Requests, NEW t \in Tenants, NEW id, StartGoverned(r, t, id)
      PROVE  NetStep
  BY <1>1, <1>4, NetUntouched DEF StartGoverned, Goto, InNet, TypeOK
<1>5. ASSUME NEW r \in Requests, Resolve(r)
      PROVE  NetStep
  <2>1. kind[r] = "network" /\ pc[r] = "resolving" /\ UNCHANGED kind /\ UNCHANGED tenant
    BY <1>5 DEF Resolve, CallInv
  <2>2. CASE ReleaseNet(tenant[r]) /\ Goto(r, "answering")
    <3>1. InNet(r) /\ \A q \in Requests : InNet(q)' <=> (InNet(q) /\ q # r)
      BY <1>1, <2>1, <2>2 DEF Goto, InNet, TypeOK
    <3>2. QED
      BY <1>1, <2>1, <2>2, <3>1, NetLeft DEF InNet
  <2>3. CASE Goto(r, "auditing") /\ UNCHANGED guard
    BY <1>1, <2>1, <2>3, NetUntouched DEF Goto, InNet, TypeOK
  <2>4. QED
    BY <1>5, <2>2, <2>3 DEF Resolve
<1>6. ASSUME NEW r \in Requests, StartProbe(r)
      PROVE  NetStep
  <2>1. kind[r] = "network" /\ pc[r] = "auditing" /\ UNCHANGED <<kind, tenant, guard>>
    BY <1>6 DEF StartProbe, CallInv
  <2>2. CASE Goto(r, "scanning")
    BY <1>1, <2>1, <2>2, NetUntouched DEF Goto, InNet, TypeOK
  <2>3. CASE StorageFails /\ Goto(r, "answering")
    BY <1>1, <2>1, <2>3, NetLeft DEF Goto, InNet, TypeOK
  <2>4. QED
    BY <1>6, <2>2, <2>3 DEF StartProbe
<1>7. ASSUME NEW r \in Requests, ScannerExits(r)
      PROVE  NetStep
  <2>1. /\ pc[r] = "scanning" /\ UNCHANGED kind /\ UNCHANGED tenant
        /\ \E phase \in {"ingesting", "answering", "done"} : Goto(r, phase)
    BY <1>7 DEF ScannerExits, Afterwards
  <2>2. CASE kind[r] = "network"
    <3>1. ReleaseNet(tenant[r])
      BY <1>7, <2>2 DEF ScannerExits
    <3>2. InNet(r) /\ \A q \in Requests : InNet(q)' <=> (InNet(q) /\ q # r)
      BY <1>1, <2>1, <2>2 DEF Goto, InNet, TypeOK
    <3>3. QED
      BY <1>1, <2>1, <3>1, <3>2, NetLeft DEF InNet
  <2>3. CASE kind[r] # "network"
    <3>1. UNCHANGED guard
      BY <1>7, <2>3 DEF ScannerExits
    <3>2. QED
      BY <1>1, <2>1, <2>3, <3>1, NetUntouched DEF Goto, InNet, TypeOK
  <2>4. QED
    BY <2>2, <2>3
<1>8. ASSUME NEW r \in Requests, Prepare(r)
      PROVE  NetStep
  BY <1>1, <1>8, NetUntouched DEF Prepare, Goto, InNet, TypeOK
<1>9. ASSUME NEW r \in Requests,
             Ingested(r) \/ Answer(r) \/ SettleLate(r) \/ EndGoverned(r) \/ TimeOutGoverned(r)
      PROVE  NetStep
  <2>1. /\ UNCHANGED <<guard, kind, tenant>>
        /\ pc[r] \in {"ingesting", "answering", "orphaned", "governed"}
        /\ \E phase \in {"answering", "orphaned", "done"} : Goto(r, phase)
    BY <1>9 DEF Ingested, Answer, SettleLate, EndGoverned, TimeOutGoverned, Afterwards
  <2>2. QED
    BY <1>1, <2>1, NetUntouched DEF Goto, InNet, TypeOK
<1>10. ASSUME NEW r \in Requests, Forget(r)
       PROVE  NetStep
  BY <1>1, <1>10, NetUntouched DEF Forget, Goto, InNet, TypeOK
<1>11. ASSUME UNCHANGED <<guard, pc, kind, tenant>>
       PROVE  NetStep
  BY <1>1, <1>11, NetUntouched DEF InNet
<1>12. QED
  BY <1>2, <1>3, <1>4, <1>5, <1>6, <1>7, <1>8, <1>9, <1>10, <1>11
  DEF Next, Arrive, Handle, Finish, Close, vars

-----------------------------------------------------------------------------
(* The guard's books *)

NetInv ==
  /\ Disjoint(NetOf)
  /\ \A t \in Tenants : activeTenantScans[t] >= Cardinality(NetOf[t])
  /\ globalActiveScans >= Cardinality(AllOf(NetOf))
  /\ ~StorageFails => /\ \A t \in Tenants : activeTenantScans[t] = Cardinality(NetOf[t])
                      /\ globalActiveScans = Cardinality(AllOf(NetOf))

LEMMA NetInvInit == Init => NetInv
<1> SUFFICES ASSUME Init PROVE NetInv
  OBVIOUS
<1>1. NetOf = [t \in Tenants |-> {}]
  BY DEF Init, NetOf, NetHolders
<1>2. /\ Disjoint(NetOf) /\ Cardinality(AllOf(NetOf)) = 0
      /\ \A t \in Tenants : Cardinality(NetOf[t]) = 0
  BY <1>1, EmptyPool
<1>3. globalActiveScans = 0 /\ \A t \in Tenants : activeTenantScans[t] = 0
  BY DEF Init
<1>4. QED
  BY <1>2, <1>3 DEF NetInv

LEMMA NetInvNext == TypeOK /\ CallInv /\ NetInv /\ [Next]_vars => NetInv'
<1> SUFFICES ASSUME TypeOK, NetInv, NetStep PROVE NetInv'
  BY NetShape
<1>c. /\ \A t \in Tenants : activeTenantScans[t] \in Nat /\ Cardinality(NetOf[t]) \in Nat
      /\ globalActiveScans \in Nat /\ Cardinality(AllOf(NetOf)) \in Nat
  BY Finite, FinitePool DEF TypeOK, NetInv
<1>1. CASE NetOf' = NetOf /\ UNCHANGED guard
  BY <1>1 DEF NetInv, guard, Disjoint, AllOf
<1>2. ASSUME NEW r \in Requests, NEW t \in Tenants, TakesNet(r, t)
      PROVE  NetInv'
  <2>1. r \notin AllOf(NetOf)
    BY <1>2 DEF TakesNet, AllOf, NetOf, NetHolders, InNet
  <2>2. /\ Disjoint(NetOf')
        /\ \A u \in Tenants : Cardinality(NetOf'[u]) =
              IF u = t THEN Cardinality(NetOf[u]) + 1 ELSE Cardinality(NetOf[u])
        /\ Cardinality(AllOf(NetOf')) = Cardinality(AllOf(NetOf)) + 1
    BY <1>2, <2>1, TakeCounts DEF TakesNet, NetInv
  <2>3. /\ \A u \in Tenants : activeTenantScans'[u] =
              IF u = t THEN activeTenantScans[u] + 1 ELSE activeTenantScans[u]
        /\ globalActiveScans' = globalActiveScans + 1
    BY <1>2 DEF TakesNet, AcquireNet, TypeOK
  <2>4. /\ \A u \in Tenants : activeTenantScans'[u] >= Cardinality(NetOf'[u])
        /\ globalActiveScans' >= Cardinality(AllOf(NetOf'))
    BY <1>c, <2>2, <2>3 DEF NetInv
  <2>5. ~StorageFails => /\ \A u \in Tenants : activeTenantScans'[u] = Cardinality(NetOf'[u])
                         /\ globalActiveScans' = Cardinality(AllOf(NetOf'))
    BY <1>c, <2>2, <2>3 DEF NetInv
  <2>6. QED
    BY <2>2, <2>4, <2>5 DEF NetInv, Disjoint, AllOf
<1>3. ASSUME NEW r \in Requests, NEW t \in Tenants, GivesNet(r, t)
      PROVE  NetInv'
  <2>1. r \in NetOf[t]
    BY <1>3 DEF GivesNet
  <2>2. /\ Disjoint(NetOf')
        /\ \A u \in Tenants : Cardinality(NetOf'[u]) =
              IF u = t THEN Cardinality(NetOf[u]) - 1 ELSE Cardinality(NetOf[u])
        /\ Cardinality(AllOf(NetOf')) = Cardinality(AllOf(NetOf)) - 1
    BY <1>3, <2>1, GiveCounts DEF GivesNet, NetInv
  <2>3. Cardinality(NetOf[t]) \in Nat \ {0} /\ Cardinality(AllOf(NetOf)) \in Nat \ {0}
    BY <2>1, HeldCounts DEF NetInv
  <2>4. activeTenantScans[t] # 0 /\ globalActiveScans # 0
    BY <1>c, <2>3 DEF NetInv
  <2>5. CASE ReleaseNet(t)
    <3>1. /\ \A u \in Tenants : activeTenantScans'[u] =
                IF u = t THEN activeTenantScans[u] - 1 ELSE activeTenantScans[u]
          /\ globalActiveScans' = globalActiveScans - 1
      BY <2>4, <2>5 DEF ReleaseNet, Decrement, TypeOK
    <3>2. /\ \A u \in Tenants : activeTenantScans'[u] >= Cardinality(NetOf'[u])
          /\ globalActiveScans' >= Cardinality(AllOf(NetOf'))
      BY <1>c, <2>2, <3>1 DEF NetInv
    <3>3. ~StorageFails => /\ \A u \in Tenants : activeTenantScans'[u] = Cardinality(NetOf'[u])
                           /\ globalActiveScans' = Cardinality(AllOf(NetOf'))
      BY <1>c, <2>2, <3>1 DEF NetInv
    <3>4. QED
      BY <2>2, <3>2, <3>3 DEF NetInv, Disjoint, AllOf
  <2>6. CASE StorageFails /\ UNCHANGED guard
    <3>1. /\ \A u \in Tenants : activeTenantScans'[u] >= Cardinality(NetOf'[u])
          /\ globalActiveScans' >= Cardinality(AllOf(NetOf'))
      BY <1>c, <2>2, <2>6 DEF NetInv, guard
    <3>2. QED
      BY <2>2, <2>6, <3>1 DEF NetInv, Disjoint, AllOf
  <2>7. QED
    BY <1>3, <2>5, <2>6 DEF GivesNet
<1>4. QED
  BY <1>1, <1>2, <1>3 DEF NetStep

LEMMA AlwaysNetInv == Spec => [](TypeOK /\ CallInv /\ NetInv)
  BY AlwaysCallInv, NetInvInit, NetInvNext, PTL DEF Spec

\* The guard's counters never miss a network scan in progress, and count nothing
\* else if the output directory can always be created.
THEOREM NetBooksCorrect == Spec => []NetBooksBalance
<1>1. NetInv => NetBooksBalance
  BY DEF NetInv, NetBooksBalance, NetOf, AllOf
<1>2. QED
  BY <1>1, AlwaysNetInv, PTL

\* The guard implements a pool with its two limits, leaks included: a tenant
\* never has more network scans in progress than its limit.
THEOREM NetPoolCorrect == Spec => NetPoolSpec
<1>1. Init => NetPool!Init
  BY DEF Init, NetPool!Init, NetHolders
<1>2. TypeOK /\ CallInv /\ NetInv /\ [Next]_vars => [NetPool!Next]_NetOf
  <2> SUFFICES ASSUME TypeOK, CallInv, NetInv, NetStep PROVE [NetPool!Next]_NetOf
    BY NetShape
  <2>1. NetPool!AllHolders = AllOf(NetOf)
    BY DEF NetPool!AllHolders, AllOf, NetOf
  <2>2. ASSUME NEW r \in Requests, NEW t \in Tenants, TakesNet(r, t)
        PROVE  NetPool!Take(t, r)
    <3>1. r \notin AllOf(NetOf)
      BY <2>2 DEF TakesNet, AllOf, NetOf, NetHolders, InNet
    <3>2. Cardinality(NetOf[t]) \in Nat /\ Cardinality(AllOf(NetOf)) \in Nat
      BY Finite, FinitePool DEF NetInv
    <3>3. Cardinality(NetOf[t]) < NetPerTenant /\ Cardinality(AllOf(NetOf)) < NetGlobal
      BY <2>2, <3>2, ConstantsOK DEF TakesNet, HasNetSlot, NetInv, TypeOK
    <3>4. QED
      BY <2>1, <2>2, <3>1, <3>3, SameCardinality DEF TakesNet, NetPool!Take, NetOf, Taken
  <2>3. ASSUME NEW r \in Requests, NEW t \in Tenants, GivesNet(r, t)
        PROVE  NetPool!Give(t, r)
    BY <2>3 DEF GivesNet, NetPool!Give, NetOf, Given
  <2>4. QED
    BY <2>2, <2>3 DEF NetStep, NetPool!Next
<1>3. QED
  BY <1>1, <1>2, AlwaysNetInv, PTL DEF Spec, NetPoolSpec, NetPool!Spec, NetOf

\* Both governors count what holds their slots, for any tenants, requests and limits.
THEOREM BooksCorrect == Spec => []BooksBalance
  BY QuotaBooksCorrect, NetBooksCorrect, PTL DEF BooksBalance

\* Both governors implement the pool, for any tenants, requests and limits.
THEOREM PoolsCorrect ==
  ASSUME SharedIds = {}
  PROVE  Spec => PoolsHold
  BY QuotaPoolCorrect, NetPoolCorrect DEF PoolsHold

===============================================================================
