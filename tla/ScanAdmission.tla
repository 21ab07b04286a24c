---------------------------- MODULE ScanAdmission ----------------------------
(***************************************************************************)
(* Admission of scans: the quota of security/resource_governance.js, the   *)
(* limits of security/network_scan_guard.js, and the life of the requests  *)
(* that hold their slots (routes/scanner_pipeline.js, routes/cbom.js).     *)
(*                                                                         *)
(* A request takes a quota slot in concurrencyQuotaMiddleware and gives it *)
(* back when its response finishes or its connection closes, whichever     *)
(* comes first, whatever its handler is doing at that time.  A network     *)
(* scan also takes a slot of the network guard, which its handler gives    *)
(* back.  executeGovernedScan wraps any work in a quota slot and a         *)
(* timeout.  A step is what a handler does between two awaits.             *)
(*                                                                         *)
(* A request the quota refuses (429) changes no state and is not a step.   *)
(* Limiters, authorisation and validation of a request are a choice.       *)
(***************************************************************************)
EXTENDS Naturals, FiniteSets

CONSTANTS
  Tenants, Requests,
  NoTenant,       \* the tenant of a request not yet made
  Kinds,          \* what is asked of the server, a subset of AllKinds
  SharedIds,      \* default ids of executeGovernedScan, one per millisecond:
                  \* calls in the same millisecond get the same one
  MaxPerTenant, MaxSystem,   \* limits of ConcurrencyGovernor
  NetPerTenant, NetGlobal,   \* limits of NetworkScanGuard
  StorageFails    \* may creating the artifacts directory throw?

AllKinds == {"static", "binary", "cbom", "network", "governed"}

ASSUME ConstantsOK ==
  /\ IsFiniteSet(Requests) /\ NoTenant \notin Tenants
  /\ Kinds \subseteq AllKinds
  /\ SharedIds \cap Requests = {}
  /\ MaxPerTenant \in Nat /\ MaxSystem \in Nat
  /\ NetPerTenant \in Nat /\ NetGlobal \in Nat
  /\ StorageFails \in BOOLEAN

VARIABLES
  activeScans,        \* ConcurrencyGovernor: tenant -> set of scan ids
  totalActive,        \* ConcurrencyGovernor: slots taken in all
  activeTenantScans,  \* NetworkScanGuard: tenant -> slots taken
  globalActiveScans,  \* NetworkScanGuard: slots taken in all
  pc,                 \* pc[r]: where the handler of request r is
  kind, tenant,       \* kind[r], tenant[r]: what r asks, and for whom
  scanId,             \* scanId[r]: the id of r's quota slot
  holding,            \* holding[r]: r has still to release its quota slot
  response            \* response[r]: none, open, sent, finished, closed

quota == <<activeScans, totalActive>>
guard == <<activeTenantScans, globalActiveScans>>
vars == <<quota, guard, pc, kind, tenant, scanId, holding, response>>

ScanIds == Requests \cup SharedIds
Phases == {"idle", "preparing", "resolving", "auditing", "scanning", "ingesting",
           "answering", "governed", "orphaned", "done"}

\* Math.max(0, n - 1)
Decrement(n) == IF n = 0 THEN 0 ELSE n - 1

Init ==
  /\ activeScans = [t \in Tenants |-> {}] /\ totalActive = 0
  /\ activeTenantScans = [t \in Tenants |-> 0] /\ globalActiveScans = 0
  /\ pc = [r \in Requests |-> "idle"]
  /\ kind = [r \in Requests |-> "none"]
  /\ tenant = [r \in Requests |-> NoTenant]
  /\ scanId = [r \in Requests |-> r]
  /\ holding = [r \in Requests |-> FALSE]
  /\ response = [r \in Requests |-> "none"]

-----------------------------------------------------------------------------
(* ConcurrencyGovernor *)

HasQuota(t) ==
  /\ totalActive < MaxSystem
  /\ Cardinality(activeScans[t]) < MaxPerTenant

Acquire(r, t, id) ==
  /\ HasQuota(t)
  /\ activeScans' = [activeScans EXCEPT ![t] = @ \cup {id}]
  /\ totalActive' = totalActive + 1
  /\ scanId' = [scanId EXCEPT ![r] = id]
  /\ holding' = [holding EXCEPT ![r] = TRUE]

\* governor.release, which ignores an id it does not know.
Release(r) ==
  /\ activeScans' = IF holding[r]
                    THEN [activeScans EXCEPT ![tenant[r]] = @ \ {scanId[r]}]
                    ELSE activeScans
  /\ totalActive' = IF holding[r] /\ scanId[r] \in activeScans[tenant[r]]
                    THEN Decrement(totalActive)
                    ELSE totalActive
  /\ holding' = [holding EXCEPT ![r] = FALSE]

-----------------------------------------------------------------------------
(* NetworkScanGuard *)

\* Slip: the limit over all tenants is forgotten.
HasNetSlot_TenantOnly(t) == activeTenantScans[t] < NetPerTenant

HasNetSlot(t) ==
  /\ activeTenantScans[t] < NetPerTenant
  /\ globalActiveScans < NetGlobal

AcquireNet(t) ==
  /\ activeTenantScans' = [activeTenantScans EXCEPT ![t] = @ + 1]
  /\ globalActiveScans' = globalActiveScans + 1

ReleaseNet(t) ==
  /\ activeTenantScans' = [activeTenantScans EXCEPT ![t] = Decrement(@)]
  /\ globalActiveScans' = Decrement(globalActiveScans)

-----------------------------------------------------------------------------
(* Requests *)

Goto(r, phase) == pc' = [pc EXCEPT ![r] = phase]

\* concurrencyQuotaMiddleware lets request r in, under an id of its own.
Enter(r, t, k) ==
  /\ pc[r] = "idle" /\ k \in Kinds
  /\ Acquire(r, t, r)
  /\ kind' = [kind EXCEPT ![r] = k]
  /\ tenant' = [tenant EXCEPT ![r] = t]
  /\ response' = [response EXCEPT ![r] = "open"]

\* A static or binary scan, or a CBOM upload: a limiter refuses it, or the
\* upload is received.
Submit(r, t, k) ==
  /\ k \in {"static", "binary", "cbom"}
  /\ Enter(r, t, k)
  /\ Goto(r, "preparing") \/ Goto(r, "answering")
  /\ UNCHANGED guard

\* A network scan: validateAndAuthorizeScan up to the DNS lookup.  A limiter,
\* an authorisation check or the guard's limits refuse it, or it takes a slot.
SubmitNetwork(r, t) ==
  /\ Enter(r, t, "network")
  /\ \/ Goto(r, "answering") /\ UNCHANGED guard
     \/ HasNetSlot(t) /\ AcquireNet(t) /\ Goto(r, "resolving")

\* Slip: the slot is given back as soon as the target is validated.
Resolve_ReleasesTooSoon(r) ==
  /\ pc[r] = "resolving"
  /\ ReleaseNet(tenant[r])
  /\ Goto(r, "answering") \/ Goto(r, "auditing")
  /\ UNCHANGED <<quota, kind, tenant, scanId, holding, response>>

Resolve(r) ==
  /\ pc[r] = "resolving"
  /\ \/ ReleaseNet(tenant[r]) /\ Goto(r, "answering")   \* rejected target
     \/ Goto(r, "auditing") /\ UNCHANGED guard
  /\ UNCHANGED <<quota, kind, tenant, scanId, holding, response>>

\* The authorised-scan audit record is written; the route prepares the output
\* directory, outside the try whose finally releases the slot, and spawns the
\* scanner.
StartProbe(r) ==
  /\ pc[r] = "auditing"
  /\ \/ Goto(r, "scanning")
     \/ StorageFails /\ Goto(r, "answering")
  /\ UNCHANGED <<quota, guard, kind, tenant, scanId, holding, response>>

\* The upload is unpacked or cloned, or refused.  A static scan answers 202 here
\* and scans in the background.
Prepare(r) ==
  /\ pc[r] = "preparing"
  /\ \/ Goto(r, "answering") /\ UNCHANGED response
     \/ /\ kind[r] = "static" /\ Goto(r, "scanning")
        /\ response' = [response EXCEPT ![r] = IF @ = "open" THEN "sent" ELSE @]
     \/ kind[r] = "binary" /\ Goto(r, "scanning") /\ UNCHANGED response
     \/ kind[r] = "cbom" /\ Goto(r, "ingesting") /\ UNCHANGED response
  /\ UNCHANGED <<quota, guard, kind, tenant, scanId, holding>>

\* What a handler without a result does next: a static scan has answered.
Afterwards(r) == IF kind[r] = "static" THEN "done" ELSE "answering"

\* Slip: the slot is released after a successful scan, not in a finally.
ScannerExits_LeaksOnFailure(r) ==
  /\ pc[r] = "scanning"
  /\ \/ /\ Goto(r, "ingesting")
        /\ IF kind[r] = "network" THEN ReleaseNet(tenant[r]) ELSE UNCHANGED guard
     \/ Goto(r, Afterwards(r)) /\ UNCHANGED guard
  /\ UNCHANGED <<quota, kind, tenant, scanId, holding, response>>

\* The scanner process exits, fails, or is killed by its timeout.
ScannerExits(r) ==
  /\ pc[r] = "scanning"
  /\ Goto(r, "ingesting") \/ Goto(r, Afterwards(r))
  /\ IF kind[r] = "network" THEN ReleaseNet(tenant[r]) ELSE UNCHANGED guard
  /\ UNCHANGED <<quota, kind, tenant, scanId, holding, response>>

Ingested(r) ==
  /\ pc[r] = "ingesting"
  /\ Goto(r, Afterwards(r))
  /\ UNCHANGED <<quota, guard, kind, tenant, scanId, holding, response>>

Answer(r) ==
  /\ pc[r] = "answering"
  /\ Goto(r, "done")
  /\ response' = [response EXCEPT ![r] = IF @ = "open" THEN "sent" ELSE @]
  /\ UNCHANGED <<quota, guard, kind, tenant, scanId, holding>>

\* The response's "finish" event, and its "close" event: after finish, or at any
\* time because the client went away.  releaseOnce listens to both.
Finish(r) ==
  /\ response[r] = "sent"
  /\ response' = [response EXCEPT ![r] = "finished"]
  /\ Release(r)
  /\ UNCHANGED <<guard, pc, kind, tenant, scanId>>

Close(r) ==
  /\ response[r] \in {"open", "sent", "finished"}
  /\ response' = [response EXCEPT ![r] = "closed"]
  /\ Release(r)
  /\ UNCHANGED <<guard, pc, kind, tenant, scanId>>

-----------------------------------------------------------------------------
(* executeGovernedScan *)

StartGoverned(r, t, id) ==
  /\ pc[r] = "idle" /\ "governed" \in Kinds
  /\ Acquire(r, t, id)
  /\ kind' = [kind EXCEPT ![r] = "governed"]
  /\ tenant' = [tenant EXCEPT ![r] = t]
  /\ Goto(r, "governed")
  /\ UNCHANGED <<guard, response>>

\* executeFn settles first, or the memory check throws.
EndGoverned(r) ==
  /\ pc[r] = "governed"
  /\ Release(r)
  /\ Goto(r, "done")
  /\ UNCHANGED <<guard, kind, tenant, scanId, response>>

\* The timeout wins the race; executeFn is not told.
TimeOutGoverned(r) ==
  /\ pc[r] = "governed"
  /\ Release(r)
  /\ Goto(r, "orphaned")
  /\ UNCHANGED <<guard, kind, tenant, scanId, response>>

SettleLate(r) ==
  /\ pc[r] = "orphaned"
  /\ Goto(r, "done")
  /\ UNCHANGED <<quota, guard, kind, tenant, scanId, holding, response>>

\* A request that is over leaves nothing behind but the governors' state.
Forget(r) ==
  /\ pc[r] = "done" /\ response[r] \in {"none", "closed"}
  /\ Goto(r, "idle")
  /\ kind' = [kind EXCEPT ![r] = "none"]
  /\ tenant' = [tenant EXCEPT ![r] = NoTenant]
  /\ scanId' = [scanId EXCEPT ![r] = r]
  /\ response' = [response EXCEPT ![r] = "none"]
  /\ UNCHANGED <<quota, guard, holding>>

-----------------------------------------------------------------------------
Handle(r) ==
  \/ Resolve(r) \/ StartProbe(r) \/ Prepare(r) \/ ScannerExits(r) \/ Ingested(r)
  \/ Answer(r)

Arrive(r, t) ==
  \/ \E k \in Kinds : Submit(r, t, k)
  \/ "network" \in Kinds /\ SubmitNetwork(r, t)
  \/ \E id \in {r} \cup SharedIds : StartGoverned(r, t, id)

Next ==
  \E r \in Requests :
    \/ \E t \in Tenants : Arrive(r, t)
    \/ Handle(r) \/ Finish(r) \/ Close(r)
    \/ EndGoverned(r) \/ TimeOutGoverned(r) \/ SettleLate(r)
    \/ Forget(r)

Spec == Init /\ [][Next]_vars

\* Every await of a handler settles (DNS, database, and the scanner, which its
\* timeout kills), a response that was sent finishes and closes, and governed
\* work ends or times out; work that timed out may run for ever.
FairSpec ==
  /\ Spec
  /\ \A r \in Requests :
       /\ WF_vars(Handle(r))
       /\ WF_vars(EndGoverned(r) \/ TimeOutGoverned(r))
       /\ WF_vars(Finish(r))
       /\ WF_vars(response[r] = "finished" /\ Close(r))

-----------------------------------------------------------------------------
(* Properties *)

TypeOK ==
  /\ activeScans \in [Tenants -> SUBSET ScanIds] /\ totalActive \in Nat
  /\ activeTenantScans \in [Tenants -> Nat] /\ globalActiveScans \in Nat
  /\ pc \in [Requests -> Phases]
  /\ kind \in [Requests -> AllKinds \cup {"none"}]
  /\ tenant \in [Requests -> Tenants \cup {NoTenant}]
  /\ scanId \in [Requests -> ScanIds]
  /\ holding \in [Requests -> BOOLEAN]
  /\ response \in [Requests -> {"none", "open", "sent", "finished", "closed"}]

\* The requests of tenant t that hold a quota slot.
QuotaHolders(t) == {r \in Requests : holding[r] /\ tenant[r] = t}

\* The network scans of tenant t between their admission by the guard and the
\* exit of their scanner.
NetHolders(t) ==
  {r \in Requests : /\ kind[r] = "network" /\ tenant[r] = t
                    /\ pc[r] \in {"resolving", "auditing", "scanning"}}

\* The governor's books are right, as long as ids are not shared: a tenant's set
\* names exactly the requests that hold a slot, and the total counts them,
\* however finish, close and timeouts interleave with the handlers.
QuotaBooksBalance ==
  SharedIds = {} =>
  /\ \A t \in Tenants : activeScans[t] = {scanId[r] : r \in QuotaHolders(t)}
  /\ totalActive = Cardinality({r \in Requests : holding[r]})

\* The guard's counters never miss a network scan in progress, and count nothing
\* else unless a directory could not be created: a 429 "limit reached" is given
\* only while that many scans are in progress.
NetBooksBalance ==
  LET holders == [t \in Tenants |-> NetHolders(t)]
      all == UNION {holders[t] : t \in Tenants}
  IN  /\ \A t \in Tenants : activeTenantScans[t] >= Cardinality(holders[t])
      /\ globalActiveScans >= Cardinality(all)
      /\ ~StorageFails => /\ \A t \in Tenants : activeTenantScans[t] = Cardinality(holders[t])
                          /\ globalActiveScans = Cardinality(all)

\* Slots are taken and given back one at a time within the limits: each of the
\* two governors implements a pool.
QuotaPool == INSTANCE TenantPool
  WITH Clients <- Requests, PerTenant <- MaxPerTenant, Global <- MaxSystem,
       holders <- [t \in Tenants |-> QuotaHolders(t)]
NetPool == INSTANCE TenantPool
  WITH Clients <- Requests, PerTenant <- NetPerTenant, Global <- NetGlobal,
       holders <- [t \in Tenants |-> NetHolders(t)]
QuotaPoolSpec == QuotaPool!Spec
NetPoolSpec == NetPool!Spec

\* Both governors keep exact books, whatever ends, fails, times out or disconnects.
BooksBalance == QuotaBooksBalance /\ NetBooksBalance

\* Both governors implement a pool that never exceeds its two limits.
PoolsHold == QuotaPoolSpec /\ NetPoolSpec

\* The scanner processes and governed work running for tenant t.
Running(t) ==
  {r \in Requests : tenant[r] = t /\ pc[r] \in {"scanning", "governed", "orphaned"}}

\* No tenant has more scans running than its quota (SECURITY.md's "max
\* concurrent scans per tenant").
ScansWithinQuota == \A t \in Tenants : Cardinality(Running(t)) <= MaxPerTenant

\* Slots that are taken come back: a tenant that a governor turns away is not
\* turned away for ever, whatever happens to the requests that hold the slots.
RoomAgain ==
  \A t \in Tenants :
    /\ ~HasQuota(t) ~> HasQuota(t)
    /\ ~HasNetSlot(t) ~> HasNetSlot(t)

\* Tenants and requests are interchangeable.
Permuted(S) == {f : f \in {g \in [S -> S] : \A x, y \in S : g[x] = g[y] => x = y}}
Interchangeable == Permuted(Tenants) \cup Permuted(Requests)

===============================================================================
