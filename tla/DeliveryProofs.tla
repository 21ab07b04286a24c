--------------------------- MODULE DeliveryProofs -----------------------------
(***************************************************************************)
(* Theorems about the way from policy to release, for any versions, people *)
(* and documents, any source tree and configuration, any keys and files:   *)
(*   - the three books about policy versions agree, a policy called safe   *)
(*     is safe, and a policy hardens with time (PolicyGovernance);         *)
(*   - the verdict of a CI run is earned (CIScan);                         *)
(*   - severe findings that pass a gate are accounted for, what the stages *)
(*     of a release vouch for holds, and a scan that succeeds names every  *)
(*     affected package (ReleasePipeline);                                 *)
(*   - a static scan stores what it found, once (StaticScan).              *)
(***************************************************************************)
EXTENDS PolicyGovernance, CIScan, ReleasePipeline, StaticScan, FoldTheorems

-----------------------------------------------------------------------------
(* The versions, the active version and the ledger. *)

StatusOrAbsent == Statuses \cup {"ABSENT"}
People == Admins \cup {NoOne}
ValidDocument == {d \in Documents : ValidPolicy(d)}

Version == [status: {"ABSENT"}, author: People, approver: People]
           \cup [status: Statuses, author: People, approver: People, document: ValidDocument]

VersionsShape ==
  /\ versions \in [Versions -> Version]
  /\ active \in Versions \cup {NoVersion}
  /\ active # NoVersion => Exists(active)
  /\ clock \in 1 .. MaxClock
  /\ report.at \in 0 .. clock

BooksInv == VersionsShape /\ OneActive /\ LedgerTellsStatus

\* What each entry tells a reader who knows the statuses st and the active version a.
Tells(state, st, a, v) ==
  LET after(s) == [status |-> [st EXCEPT ![v] = s], active |-> a]
  IN  /\ Told(state, "POLICY_DRAFT_CREATED", v) = after("DRAFT")
      /\ Told(state, "POLICY_SUBMITTED_FOR_APPROVAL", v) = after("PENDING_APPROVAL")
      /\ Told(state, "POLICY_APPROVED", v) = after("APPROVED")
      /\ Told(state, "POLICY_REJECTED", v) = after("REJECTED")
      /\ Told(state, "POLICY_SUPERSEDED", v) = after("SUPERSEDED")
      /\ Told(state, "POLICY_ACTIVATED", v) =
           [status |-> [st EXCEPT ![v] = "ACTIVE"], active |-> v]
      /\ Told(state, "POLICY_ROLLED_BACK", v) =
           [status |-> [w \in Versions |-> IF w = v THEN "ACTIVE"
                                           ELSE IF w = a THEN "ROLLED_BACK" ELSE st[w]],
            active |-> v]

LEMMA ToldIs ==
  ASSUME NEW st \in [Versions -> StatusOrAbsent], NEW a, NEW v \in Versions
  PROVE  Tells([status |-> st, active |-> a], st, a, v)
<1> DEFINE state == [status |-> st, active |-> a]
<1>1. \A s : [state EXCEPT !.status[v] = s] = [status |-> [st EXCEPT ![v] = s], active |-> a]
  OBVIOUS
<1>2. [[state EXCEPT !.status[v] = "ACTIVE"] EXCEPT !.active = v]
      = [status |-> [st EXCEPT ![v] = "ACTIVE"], active |-> v]
  <2> DEFINE f == [st EXCEPT ![v] = "ACTIVE"]
             once == [status |-> f, active |-> a]
  <2>1. [state EXCEPT !.status[v] = "ACTIVE"] = once
    BY <1>1
  <2> HIDE DEF f
  <2>2. [once EXCEPT !.active = v] = [status |-> f, active |-> v]
    OBVIOUS
  <2>3. QED
    BY <2>1, <2>2 DEF f
<1>3. state.status = st /\ state.active = a
  OBVIOUS
<1> HIDE DEF state
<1>4. QED
  BY <1>1, <1>2, <1>3 DEF Told, state, Tells

\* A version that gets a new status, by itself.
LEMMA OneStatus ==
  ASSUME BooksInv, NEW v \in Versions, NEW s \in Statuses \ {"ACTIVE", "APPROVED"}, NEW new \in Version,
         new.status = s, versions' = [versions EXCEPT ![v] = new],
         ledger' = [status |-> [ledger.status EXCEPT ![v] = s], active |-> active],
         UNCHANGED <<active, clock, report>>
  PROVE  BooksInv'
<1>1. VersionsShape'
  BY DEF BooksInv, VersionsShape, Exists, Statuses
<1>2. OneActive'
  BY DEF BooksInv, VersionsShape, OneActive
<1>3. LedgerTellsStatus'
  BY DEF BooksInv, VersionsShape, LedgerTellsStatus
<1>4. QED
  BY <1>1, <1>2, <1>3 DEF BooksInv

\* The ledger is the three books' own account; what it tells next is said by ToldIs.
LEMMA LedgerIs ==
  ASSUME BooksInv
  PROVE  /\ ledger.status \in [Versions -> StatusOrAbsent]
         /\ ledger = [status |-> ledger.status, active |-> active]
         /\ \A v \in Versions : ledger.status[v] = versions[v].status
  BY DEF BooksInv, VersionsShape, LedgerTellsStatus, Version, StatusOrAbsent

LEMMA LedgerGoesOn ==
  ASSUME BooksInv, NEW v \in Versions PROVE Tells(ledger, ledger.status, active, v)
  BY LedgerIs, ToldIs

LEMMA CreateDraftKeeps ==
  ASSUME BooksInv, NEW v \in Versions, NEW a \in Admins, NEW d \in Documents, CreateDraft(v, a, d)
  PROVE  BooksInv'
<1> DEFINE new == [status |-> "DRAFT", author |-> a, approver |-> NoOne, document |-> d]
<1>1. new \in Version /\ new.status = "DRAFT" /\ versions' = [versions EXCEPT ![v] = new]
  BY DEF CreateDraft, Version, Statuses, ValidDocument, People
<1>2. ledger' = [status |-> [ledger.status EXCEPT ![v] = "DRAFT"], active |-> active]
  BY LedgerGoesOn DEF Tells, CreateDraft, Record
<1>3. QED
  BY <1>1, <1>2, OneStatus DEF CreateDraft, Statuses

LEMMA SubmitKeeps ==
  ASSUME BooksInv, NEW v \in Versions, NEW a \in Admins, SubmitForApproval(v, a)
  PROVE  BooksInv'
<1> DEFINE new == [versions[v] EXCEPT !.status = "PENDING_APPROVAL"]
<1>1. new \in Version /\ new.status = "PENDING_APPROVAL" /\ versions' = [versions EXCEPT ![v] = new]
  BY DEF SubmitForApproval, SetStatus, BooksInv, VersionsShape, Version, Statuses
<1>2. ledger' = [status |-> [ledger.status EXCEPT ![v] = "PENDING_APPROVAL"], active |-> active]
  BY LedgerGoesOn DEF Tells, SubmitForApproval, Record
<1>3. QED
  BY <1>1, <1>2, OneStatus DEF SubmitForApproval, Statuses

LEMMA RejectKeeps ==
  ASSUME BooksInv, NEW v \in Versions, NEW a \in Admins, RejectPolicy(v, a)
  PROVE  BooksInv'
<1> DEFINE new == [versions[v] EXCEPT !.status = "REJECTED"]
<1>1. new \in Version /\ new.status = "REJECTED" /\ versions' = [versions EXCEPT ![v] = new]
  BY DEF RejectPolicy, SetStatus, Exists, BooksInv, VersionsShape, Version, Statuses
<1>2. ledger' = [status |-> [ledger.status EXCEPT ![v] = "REJECTED"], active |-> active]
  BY LedgerGoesOn DEF Tells, RejectPolicy, Record
<1>3. QED
  BY <1>1, <1>2, OneStatus DEF RejectPolicy, Statuses

LEMMA ApproveKeeps ==
  ASSUME BooksInv, NEW v \in Versions, NEW a \in Admins, ApprovePolicy(v, a)
  PROVE  BooksInv'
<1> DEFINE new == [versions[v] EXCEPT !.status = "APPROVED", !.approver = a]
<1>1. /\ new \in Version /\ new.status = "APPROVED" /\ new.approver = a /\ new.author = versions[v].author
      /\ versions' = [versions EXCEPT ![v] = new] /\ a # versions[v].author
  BY DEF ApprovePolicy, BooksInv, VersionsShape, Version, Statuses, People
<1>2. ledger' = [status |-> [ledger.status EXCEPT ![v] = "APPROVED"], active |-> active]
  BY LedgerGoesOn DEF Tells, ApprovePolicy, Record
<1>3. UNCHANGED <<active, clock, report>>
  BY DEF ApprovePolicy
<1> HIDE DEF new
<1>4. VersionsShape'
  BY <1>1, <1>3 DEF BooksInv, VersionsShape, Exists
<1>5. OneActive'
  BY <1>1, <1>3 DEF BooksInv, VersionsShape, OneActive
<1>6. LedgerTellsStatus'
  BY <1>1, <1>2, <1>3 DEF BooksInv, VersionsShape, LedgerTellsStatus
<1>7. QED
  BY <1>4, <1>5, <1>6 DEF BooksInv

\* A version that becomes the active one, after the status of the one it replaces was written.
LEMMA NewActive ==
  ASSUME BooksInv, NEW v \in Versions, NEW s \in {"SUPERSEDED", "ROLLED_BACK"},
         versions[v].status # "ABSENT",
         active' = v, UNCHANGED <<clock, report>>,
         versions' = [IF active = NoVersion THEN versions ELSE SetStatus(active, s)
                        EXCEPT ![v].status = "ACTIVE"],
         ledger' = [status |-> [w \in Versions |-> IF w = v THEN "ACTIVE"
                                                   ELSE IF w = active THEN s
                                                   ELSE ledger.status[w]],
                    active |-> v]
  PROVE  BooksInv'
<1> DEFINE left == IF active = NoVersion THEN versions ELSE SetStatus(active, s)
<1>1. active # NoVersion => active \in Versions /\ versions[active].status # "ABSENT"
  BY DEF BooksInv, VersionsShape, Exists
<1>2. /\ left \in [Versions -> Version]
      /\ \A w \in Versions : /\ left[w].status = IF w = active THEN s ELSE versions[w].status
                             /\ left[w].author = versions[w].author
                             /\ left[w].approver = versions[w].approver
  BY <1>1, VersionsAssumption DEF SetStatus, BooksInv, VersionsShape, Version, Statuses
<1> HIDE DEF left
<1>3. /\ versions' \in [Versions -> Version]
      /\ \A w \in Versions : /\ versions'[w].status = IF w = v THEN "ACTIVE" ELSE left[w].status
                             /\ versions'[w].author = versions[w].author
                             /\ versions'[w].approver = versions[w].approver
  BY <1>2 DEF Version, Statuses, left
<1>4. VersionsShape'
  BY <1>3 DEF BooksInv, VersionsShape, Exists
<1>5. OneActive'
  BY <1>2, <1>3 DEF BooksInv, OneActive
<1>6. LedgerTellsStatus'
  BY <1>2, <1>3, LedgerIs DEF LedgerTellsStatus
<1>7. QED
  BY <1>4, <1>5, <1>6 DEF BooksInv

LEMMA ActivateKeeps ==
  ASSUME BooksInv, NEW v \in Versions, NEW a \in Admins, ActivatePolicy(v, a)
  PROVE  BooksInv'
<1> DEFINE told == IF active = NoVersion THEN ledger ELSE Told(ledger, "POLICY_SUPERSEDED", active)
           st == [w \in Versions |-> IF w = active THEN "SUPERSEDED" ELSE ledger.status[w]]
<1>1. st \in [Versions -> StatusOrAbsent] /\ told = [status |-> st, active |-> active]
  <2>1. ledger.status \in [Versions -> StatusOrAbsent] /\ ledger = [status |-> ledger.status, active |-> active]
    BY LedgerIs
  <2>2. CASE active = NoVersion
    <3>1. st = ledger.status
      BY <2>1, <2>2, VersionsAssumption
    <3>2. QED
      BY <2>1, <2>2, <3>1
  <2>3. CASE active \in Versions
    <3>1. Told(ledger, "POLICY_SUPERSEDED", active)
          = [status |-> [ledger.status EXCEPT ![active] = "SUPERSEDED"], active |-> active]
      BY <2>3, LedgerGoesOn DEF Tells
    <3>2. st = [ledger.status EXCEPT ![active] = "SUPERSEDED"]
      BY <2>1, <2>3
    <3>3. st \in [Versions -> StatusOrAbsent]
      BY <2>1 DEF StatusOrAbsent, Statuses
    <3>4. QED
      BY <2>3, <3>1, <3>2, <3>3, VersionsAssumption
  <2>4. QED
    BY <2>2, <2>3 DEF BooksInv, VersionsShape
<1>2. ledger' = Told(told, "POLICY_ACTIVATED", v)
  BY DEF ActivatePolicy
<1> HIDE DEF told, st
<1>3. ledger' = [status |-> [st EXCEPT ![v] = "ACTIVE"], active |-> v]
  <2>1. Tells(told, st, active, v)
    BY <1>1, ToldIs
  <2>2. QED
    BY <1>2, <2>1 DEF Tells
<1>4. [st EXCEPT ![v] = "ACTIVE"]
      = [w \in Versions |-> IF w = v THEN "ACTIVE" ELSE IF w = active THEN "SUPERSEDED" ELSE ledger.status[w]]
  BY <1>1 DEF st
<1>5. QED
  BY <1>3, <1>4, NewActive DEF ActivatePolicy

LEMMA RollbackKeeps ==
  ASSUME BooksInv, NEW v \in Versions, NEW a \in Admins, RollbackToVersion(v, a)
  PROVE  BooksInv'
<1>1. ledger' = [status |-> [w \in Versions |-> IF w = v THEN "ACTIVE"
                                                ELSE IF w = active THEN "ROLLED_BACK"
                                                ELSE ledger.status[w]],
                 active |-> v]
  BY LedgerGoesOn DEF Tells, RollbackToVersion, Record
<1>2. QED
  BY <1>1, NewActive DEF RollbackToVersion

LEMMA BooksInvHolds == GovernanceSpec => []BooksInv
<1>1. GovernanceInit => BooksInv
  BY VersionsAssumption DEF GovernanceInit, BooksInv, VersionsShape, OneActive, LedgerTellsStatus, NothingTold,
     NoReport, Absent, Version, People, Statuses
<1>2. BooksInv /\ [GovernanceNext]_governanceVars => BooksInv'
  <2> SUFFICES ASSUME BooksInv, [GovernanceNext]_governanceVars PROVE BooksInv'
    OBVIOUS
  <2>1. ASSUME NEW v \in Versions, TestPolicy(v) PROVE BooksInv'
    BY <2>1, VersionsAssumption DEF TestPolicy, BooksInv, VersionsShape, OneActive, LedgerTellsStatus, Exists
  <2>2. CASE Tick
    BY <2>2, VersionsAssumption DEF Tick, BooksInv, VersionsShape, OneActive, LedgerTellsStatus, Exists
  <2>3. CASE UNCHANGED governanceVars
    BY <2>3 DEF governanceVars, BooksInv, VersionsShape, OneActive, LedgerTellsStatus, Exists
  <2>4. QED
    BY <2>1, <2>2, <2>3, CreateDraftKeeps, SubmitKeeps, ApproveKeeps, RejectKeeps, ActivateKeeps,
       RollbackKeeps DEF GovernanceNext
<1>3. QED
  BY <1>1, <1>2, PTL DEF GovernanceSpec

\* Statuses, approvals, the active version and the ledger agree, whatever two administrators
\* do in whatever order (policy_security.py).
THEOREM BooksAlwaysAgree == GovernanceSpec => []BooksAgree
<1>1. BooksInv => BooksAgree
  BY LedgerIs DEF BooksInv, VersionsShape, BooksAgree, GovernanceTypeOK, Version, StatusOrAbsent, People
<1>2. QED
  BY <1>1, BooksInvHolds, PTL

-----------------------------------------------------------------------------
(* What the engine answers. *)

Actions == {"BLOCK", "WARN", "EXCEPTION", "ALLOW"}

LEMMA RankIs ==
  /\ Rank["ALLOW"] = 1 /\ Rank["EXCEPTION"] = 2 /\ Rank["WARN"] = 3 /\ Rank["BLOCK"] = 4
  /\ \A a \in Actions : Rank[a] \in 1 .. 4
BY DEF Rank, Actions

\* The worst of some actions is one of them, or ALLOW, and none is stricter.
LEMMA WorstIs ==
  ASSUME NEW A, A \subseteq Actions
  PROVE  /\ Worst(A) \in Actions
         /\ Worst(A) \in A \/ Worst(A) = "ALLOW"
         /\ \A a \in A : Rank[a] <= Rank[Worst(A)]
<1> DEFINE P(v) == (v \in A \/ v = "ALLOW") /\ \A a \in A : Rank[a] <= Rank[v]
<1>1. \E v \in Actions : P(v)
  <2>1. CASE "BLOCK" \in A
    <3>1. P("BLOCK")
      BY <2>1, RankIs DEF Actions
    <3>2. QED
      BY <3>1 DEF Actions
  <2>2. CASE "BLOCK" \notin A /\ "WARN" \in A
    <3>1. P("WARN")
      BY <2>2, RankIs DEF Actions
    <3>2. QED
      BY <3>1 DEF Actions
  <2>3. CASE "BLOCK" \notin A /\ "WARN" \notin A /\ "EXCEPTION" \in A
    <3>1. P("EXCEPTION")
      BY <2>3, RankIs DEF Actions
    <3>2. QED
      BY <3>1 DEF Actions
  <2>4. CASE "BLOCK" \notin A /\ "WARN" \notin A /\ "EXCEPTION" \notin A
    <3>1. P("ALLOW")
      BY <2>4, RankIs DEF Actions
    <3>2. QED
      BY <3>1 DEF Actions
  <2>5. QED
    BY <2>1, <2>2, <2>3, <2>4
<1>2. Worst(A) = CHOOSE v \in Actions : P(v)
  BY Zenon DEF Worst, Actions
<1> HIDE DEF P
<1>3. Worst(A) \in Actions /\ P(Worst(A))
  BY <1>1, <1>2
<1>4. QED
  BY <1>3 DEF P

\* Actions that are each matched by one at least as strict have no stricter worst.
LEMMA WorstIsMonotone ==
  ASSUME NEW A, A \subseteq Actions, NEW B, B \subseteq Actions,
         \A a \in A : \E b \in B : Rank[a] <= Rank[b]
  PROVE  Rank[Worst(A)] <= Rank[Worst(B)]
<1>1. \A a \in Actions : Rank[a] \in Nat /\ Rank["ALLOW"] <= Rank[a]
  BY DEF Actions, Rank
<1> HIDE DEF Rank
<1>2. CASE Worst(A) \in A
  <2>1. PICK b \in B : Rank[Worst(A)] <= Rank[b]
    BY <1>2
  <2>2. Rank[b] <= Rank[Worst(B)]
    BY WorstIs
  <2>3. QED
    BY <1>1, <2>1, <2>2, WorstIs
<1>3. CASE Worst(A) = "ALLOW"
  BY <1>1, <1>3, WorstIs
<1>4. QED
  BY <1>2, <1>3, WorstIs

\* A rule and an exception of a valid document.
IsRule(r) == /\ r.action \in {"ALLOW", "WARN", "BLOCK"}
             /\ r.deprecation \in Nat /\ r.enforcement \in Nat

LEMMA RulesOfValid ==
  ASSUME NEW d \in ValidDocument
  PROVE  /\ \A r \in d.rules : IsRule(r)
         /\ \A e \in d.exceptions : e.from \in Nat /\ e.until \in Nat
  BY DocumentsAssumption DEF ValidDocument, IsRule

LEMMA FinalIsAction ==
  ASSUME NEW d, NEW r, IsRule(r), NEW asset, NEW t \in Nat
  PROVE  FinalAction(r, asset, d, t) \in Actions /\ RawAction(r, t) \in Actions
  BY DEF FinalAction, RawAction, IsRule, Actions

\* What a rule does only hardens, unless it allows.
LEMMA RawHardens ==
  ASSUME NEW r, IsRule(r), r.action # "ALLOW", NEW t \in Nat
  PROVE  /\ RawAction(r, t) \in {"WARN", "BLOCK"} /\ RawAction(r, t + 1) \in {"WARN", "BLOCK"}
         /\ Rank[RawAction(r, t)] <= Rank[RawAction(r, t + 1)]
  BY DEF RawAction, IsRule, Rank, NoDate

\* An exception that has started only lapses.
LEMMA ExceptionsLapse ==
  ASSUME NEW e, e.from \in Nat, e.until \in Nat, NEW t \in Nat, e.from <= t, InForce(e, t + 1)
  PROVE  InForce(e, t)
  BY DEF InForce, NoDate

LEMMA FinalHardens ==
  ASSUME NEW d \in ValidDocument, NEW r \in d.rules, r.action # "ALLOW", NEW asset, NEW t \in Nat,
         \A e \in d.exceptions : e.from <= t
  PROVE  Rank[FinalAction(r, asset, d, t)] <= Rank[FinalAction(r, asset, d, t + 1)]
<1>1. /\ RawAction(r, t) \in {"WARN", "BLOCK"} /\ RawAction(r, t + 1) \in {"WARN", "BLOCK"}
      /\ Rank[RawAction(r, t)] <= Rank[RawAction(r, t + 1)]
  BY RulesOfValid, RawHardens
<1>2. FindMatchingException(r, asset, d.exceptions, t + 1)
      \subseteq FindMatchingException(r, asset, d.exceptions, t)
  BY RulesOfValid, ExceptionsLapse DEF FindMatchingException, Deciding
<1>3. QED
  BY <1>1, <1>2 DEF FinalAction, Rank

\* What the rules that hit an asset do to it.
Finals(asset, d, t) == {FinalAction(r, asset, d, t) : r \in {s \in d.rules : RuleHits(s, asset)}}

LEMMA FinalsAreActions ==
  ASSUME NEW d \in ValidDocument, NEW asset, NEW t \in Nat
  PROVE  /\ Finals(asset, d, t) \subseteq Actions
         /\ AssetVerdict(asset, d, t) = Worst(Finals(asset, d, t))
         /\ AssetVerdict(asset, d, t) \in Actions
<1>1. Finals(asset, d, t) \subseteq Actions
  BY RulesOfValid, FinalIsAction DEF Finals
<1>2. AssetVerdict(asset, d, t) = Worst(Finals(asset, d, t))
  BY Zenon DEF AssetVerdict, Finals
<1>3. QED
  BY <1>1, <1>2, WorstIs

LEMMA AssetHardens ==
  ASSUME NEW d \in ValidDocument, \A r \in d.rules : r.action # "ALLOW", NEW asset, NEW t \in Nat,
         \A e \in d.exceptions : e.from <= t
  PROVE  Rank[AssetVerdict(asset, d, t)] <= Rank[AssetVerdict(asset, d, t + 1)]
<1> DEFINE A == Finals(asset, d, t)
           B == Finals(asset, d, t + 1)
<1>1. A \subseteq Actions /\ AssetVerdict(asset, d, t) = Worst(A)
  BY FinalsAreActions
<1>2. B \subseteq Actions /\ AssetVerdict(asset, d, t + 1) = Worst(B)
  BY FinalsAreActions
<1>3. ASSUME NEW a \in A PROVE \E b \in B : Rank[a] <= Rank[b]
  <2>1. PICK r \in d.rules : RuleHits(r, asset) /\ a = FinalAction(r, asset, d, t)
    BY DEF Finals
  <2>2. FinalAction(r, asset, d, t + 1) \in B
    BY <2>1 DEF Finals
  <2>3. Rank[a] <= Rank[FinalAction(r, asset, d, t + 1)]
    BY <2>1, FinalHardens
  <2>4. QED
    BY <2>2, <2>3
<1> HIDE DEF A, B
<1>4. QED
  BY <1>1, <1>2, <1>3, WorstIsMonotone

Given == {NormalizeAsset(raw, NoName) : raw \in Assets}
Judged(d, t) == {AssetVerdict(a, d, t) : a \in Given}

LEMMA EvaluateIs ==
  ASSUME NEW d, NEW t
  PROVE  /\ Evaluate(d, Assets, NoName, t, FALSE).verdict = Worst(Judged(d, t))
         /\ DOMAIN Evaluate(d, Assets, NoName, t, FALSE).verdicts = Given
         /\ \A a \in Given :
              Evaluate(d, Assets, NoName, t, FALSE).verdicts[a] = AssetVerdict(a, d, t)
<1> DEFINE outcome == Evaluate(d, Assets, NoName, t, FALSE)
           verdicts == [a \in Given |-> AssetVerdict(a, d, t)]
<1>1. outcome.verdicts = verdicts /\ outcome.verdict = Worst({verdicts[a] : a \in Given})
  BY DEF Evaluate, Given
<1>2. {verdicts[a] : a \in Given} = Judged(d, t)
  BY DEF Judged
<1>3. QED
  BY <1>1, <1>2

LEMMA VerdictHardens ==
  ASSUME NEW d \in ValidDocument, \A r \in d.rules : r.action # "ALLOW", NEW t \in Nat,
         \A e \in d.exceptions : e.from <= t
  PROVE  Rank[Worst(Judged(d, t))] <= Rank[Worst(Judged(d, t + 1))]
<1>1. Judged(d, t) \subseteq Actions /\ Judged(d, t + 1) \subseteq Actions
  BY FinalsAreActions DEF Judged
<1>2. \A a \in Judged(d, t) : \E b \in Judged(d, t + 1) : Rank[a] <= Rank[b]
  BY AssetHardens DEF Judged
<1>3. QED
  BY <1>1, <1>2, WorstIsMonotone

\* As time passes a policy never judges the same assets more mildly, unless an exception of
\* its starts: deadlines only harden and exceptions only lapse (evaluate of policy_engine.py).
THEOREM PoliciesHarden == GovernanceSpec => HardensWithTime
<1> DEFINE Hardens(v) ==
      clock' > clock /\ Exists(v)
      /\ (\A e \in versions[v].document.exceptions : e.from <= clock)
      /\ (\A r \in versions[v].document.rules : r.action # "ALLOW")
      => Rank[Verdict(v, clock')] >= Rank[Verdict(v, clock)]
<1>1. BooksInv /\ [GovernanceNext]_governanceVars => \A v \in Versions : Hardens(v)
  <2> SUFFICES ASSUME BooksInv, [GovernanceNext]_governanceVars, NEW v \in Versions,
                      clock' > clock, Exists(v),
                      \A e \in versions[v].document.exceptions : e.from <= clock,
                      \A r \in versions[v].document.rules : r.action # "ALLOW"
               PROVE  Rank[Verdict(v, clock')] >= Rank[Verdict(v, clock)]
    OBVIOUS
  <2> DEFINE d == versions[v].document
  <2>1. clock' = clock + 1 /\ clock \in Nat
    <3>1. clock \in Nat
      BY VersionsAssumption DEF BooksInv, VersionsShape
    <3>2. clock' = clock \/ Tick
      BY Zenon DEF GovernanceNext, governanceVars, CreateDraft, SubmitForApproval, ApprovePolicy,
         RejectPolicy, ActivatePolicy, RollbackToVersion, TestPolicy
    <3>3. QED
      BY <3>1, <3>2 DEF Tick
  <2>2. d \in ValidDocument
    BY DEF BooksInv, VersionsShape, Exists, Version
  <2>3. Verdict(v, clock) = Worst(Judged(d, clock)) /\ Verdict(v, clock') = Worst(Judged(d, clock'))
    BY EvaluateIs DEF Verdict
  <2>4. Rank[Worst(Judged(d, clock))] <= Rank[Worst(Judged(d, clock + 1))]
    BY <2>1, <2>2, VerdictHardens
  <2>5. QED
    BY <2>1, <2>3, <2>4
<1>2. QED
  BY <1>1, BooksInvHolds, PTL DEF GovernanceSpec, HardensWithTime

-----------------------------------------------------------------------------
(* What a dry run vouches for. *)

\* A version that is called safe at time t blocks nothing that an exception in force does not cover.
LEMMA SafeIsCovered ==
  ASSUME NEW d \in ValidDocument, NEW t \in Nat, \A a \in Given : AssetVerdict(a, d, t) # "BLOCK",
         NEW r \in d.rules, NEW asset \in Given, RuleHits(r, asset), RawAction(r, t) = "BLOCK"
  PROVE  \E e \in d.exceptions : /\ Applies(e, r, asset) /\ e.status = "APPROVED"
                                 /\ e.from <= t
                                 /\ e.until = NoDate \/ t <= e.until
<1>1. FinalAction(r, asset, d, t) \in Finals(asset, d, t)
  BY DEF Finals
<1>2. FinalAction(r, asset, d, t) # "BLOCK"
  <2>1. Rank["BLOCK"] = 4 /\ \A a \in Actions : Rank[a] >= 4 => a = "BLOCK"
    BY DEF Rank, Actions
  <2>2. SUFFICES ASSUME FinalAction(r, asset, d, t) = "BLOCK" PROVE FALSE
    OBVIOUS
  <2>3. Rank["BLOCK"] <= Rank[AssetVerdict(asset, d, t)] /\ AssetVerdict(asset, d, t) \in Actions
    BY <1>1, <2>2, FinalsAreActions, WorstIs
  <2> HIDE DEF Rank
  <2>4. \A a \in Actions : Rank[a] \in Nat
    BY DEF Rank, Actions
  <2>5. QED
    BY <2>1, <2>3, <2>4
<1>3. PICK e \in FindMatchingException(r, asset, d.exceptions, t) : TRUE
  BY <1>2 DEF FinalAction
<1>4. e \in d.exceptions /\ Applies(e, r, asset) /\ InForce(e, t)
  BY DEF FindMatchingException, Deciding
<1>5. e.from \in Nat /\ e.until \in Nat
  BY <1>4, RulesOfValid
<1>6. QED
  BY <1>4, <1>5 DEF InForce, NoDate

\* A dry run calls a policy safe for production only if every rule that would block an asset
\* then is covered by an exception that applies, is approved, has started and has not run
\* out (test_policy of policy_security.py).
THEOREM SafeIsAlwaysCovered == GovernanceSpec => []SafeMeansCovered
<1>1. GovernanceInit => SafeMeansCovered
  BY DEF GovernanceInit, NoReport, SafeMeansCovered
<1>2. BooksInv /\ SafeMeansCovered /\ [GovernanceNext]_governanceVars => SafeMeansCovered'
  <2> SUFFICES ASSUME BooksInv, SafeMeansCovered, [GovernanceNext]_governanceVars
               PROVE  SafeMeansCovered'
    OBVIOUS
  <2>1. ASSUME NEW v \in Versions, TestPolicy(v) PROVE SafeMeansCovered'
    <3> DEFINE d == versions[v].document
    <3>1. clock \in Nat /\ d \in ValidDocument
      BY <2>1, VersionsAssumption DEF BooksInv, VersionsShape, TestPolicy, Exists, Version
    <3>2. /\ report'.safe => \A a \in Given : AssetVerdict(a, d, clock) # "BLOCK"
          /\ report'.at = clock /\ report'.document = d
      <4> DEFINE vs == Evaluate(d, Assets, NoName, clock, FALSE).verdicts
                 safe == \A a \in DOMAIN vs : vs[a] # "BLOCK"
      <4>1. report' = [safe |-> safe, at |-> clock, document |-> d]
        BY <2>1 DEF TestPolicy
      <4>2. DOMAIN vs = Given /\ \A a \in Given : vs[a] = AssetVerdict(a, d, clock)
        BY EvaluateIs
      <4> HIDE DEF vs
      <4>3. safe <=> \A a \in Given : AssetVerdict(a, d, clock) # "BLOCK"
        BY <4>2
      <4> HIDE DEF safe
      <4>4. report'.safe = safe /\ report'.at = clock /\ report'.document = d
        BY <4>1
      <4>5. QED
        BY <4>3, <4>4
    <3> HIDE DEF d
    <3>3. SUFFICES ASSUME report'.safe, NEW r \in d.rules, NEW raw \in Assets,
                          RuleHits(r, NormalizeAsset(raw, NoName)), RawAction(r, clock) = "BLOCK"
                   PROVE  \E e \in d.exceptions :
                            /\ Applies(e, r, NormalizeAsset(raw, NoName)) /\ e.status = "APPROVED"
                            /\ e.from <= clock
                            /\ e.until = NoDate \/ clock <= e.until
      BY <3>2 DEF SafeMeansCovered
    <3>4. NormalizeAsset(raw, NoName) \in Given
      BY DEF Given
    <3>5. QED
      <4>1. \A a \in Given : AssetVerdict(a, d, clock) # "BLOCK"
        BY <3>2, <3>3
      <4>2. QED
        BY <3>1, <3>3, <3>4, <4>1, SafeIsCovered
  <2>2. CASE report' = report
    BY <2>2 DEF SafeMeansCovered
  <2>3. report' = report \/ \E v \in Versions : TestPolicy(v)
    BY Zenon DEF GovernanceNext, governanceVars, CreateDraft, SubmitForApproval, ApprovePolicy,
       RejectPolicy, ActivatePolicy, RollbackToVersion, Tick
  <2>4. QED
    BY <2>1, <2>2, <2>3
<1>3. QED
  BY <1>1, <1>2, BooksInvHolds, PTL DEF GovernanceSpec

-----------------------------------------------------------------------------
(* What the release gates let pass.  Of several entries under one name the *)
(* last is found, and a set of places in a list has a last.                *)

-----------------------------------------------------------------------------
(* What the release gates accept. *)

\* The entry found under a name is one that has the name.
LEMMA EntryIsRegistered ==
  ASSUME NEW entries, NEW n \in Nat, DOMAIN entries = 1 .. n, NEW key, Entry(entries, key) # NoRecord
  PROVE  \E i \in DOMAIN entries :
           key \in {entries[i].finding, entries[i].package} /\ Entry(entries, key) = entries[i]
<1> DEFINE named == {i \in DOMAIN entries : key \in {entries[i].finding, entries[i].package}}
           last == CHOOSE i \in named : \A j \in named : j <= i
<1>1. named # {} /\ Entry(entries, key) = entries[last]
  BY DEF Entry
<1>2. last \in named
  <2>1. named \subseteq 0 .. n
    OBVIOUS
  <2> HIDE DEF named
  <2>2. \E i \in named : \A j \in named : j <= i
    BY <1>1, <2>1, GreatestOfSome
  <2>3. QED
    BY <2>2
<1>3. QED
  BY <1>1, <1>2

LEMMA EntryForIsRegistered ==
  ASSUME NEW entries, NEW n \in Nat, DOMAIN entries = 1 .. n, NEW f, EntryFor(entries, f) # NoRecord
  PROVE  \E i \in DOMAIN entries :
           /\ {entries[i].finding, entries[i].package} \cap {f.advisory, Last(f.package)} # {}
           /\ EntryFor(entries, f) = entries[i]
<1>1. PICK key \in {f.advisory, Last(f.package)} :
        Entry(entries, key) # NoRecord /\ EntryFor(entries, f) = Entry(entries, key)
  <2>1. CASE Entry(entries, f.advisory) # NoRecord
    BY <2>1 DEF EntryFor
  <2>2. CASE Entry(entries, f.advisory) = NoRecord
    BY <2>2 DEF EntryFor
  <2>3. QED
    BY <2>1, <2>2
<1>2. PICK i \in DOMAIN entries :
        key \in {entries[i].finding, entries[i].package} /\ Entry(entries, key) = entries[i]
  BY <1>1, EntryIsRegistered
<1>3. QED
  BY <1>1, <1>2

\* What the scanner says of a finding claims no base severity, so that a finding the gate
\* lets pass has a valid override, or is not severe, or is accepted.
LEMMA PassedIsNotSevere ==
  ASSUME NEW rules, NEW t, NEW g, g.base = NoLabel, ~Blocks(rules, t, g)
  PROVE  \/ Overrides(rules, t, g).valid
         \/ /\ g.severity # "CRITICAL"
            /\ g.severity = "HIGH" => Accepted(rules, t, g)
<1> DEFINE o == Overrides(rules, t, g)
<1>1. ~Tampered(g, o) /\ Effective(g, o) # "CRITICAL"
      /\ (Effective(g, o) = "HIGH" => Accepted(rules, t, g))
  BY Zenon DEF Blocks
<1> HIDE DEF o
<1>2. CASE ~o.valid
  <2>1. ~o.exists
    BY <1>1, <1>2, Zenon DEF Tampered
  <2>2. Effective(g, o) = Canonical(g.severity)
    BY <1>1, <1>2, <2>1, Zenon DEF Effective
  <2>3. /\ g.severity = "CRITICAL" => Canonical(g.severity) = "CRITICAL"
        /\ g.severity = "HIGH" => Canonical(g.severity) = "HIGH"
    BY DEF Canonical
  <2>4. QED
    BY <1>1, <2>2, <2>3
<1>3. QED
  BY <1>2 DEF o

\* The override or the acceptance of a finding that is let pass is in the register.
LEMMA PassedIsAccountedFor ==
  ASSUME source \in Sources, NEW reported, EvaluateGate(reported, source.rules, now).passed
  PROVE  SevereAreAccountedFor(reported)
<1> DEFINE rules == source.rules
           InForce1(o) == /\ o.until > now /\ o.document \in DOMAIN rules.evidence
                          /\ rules.evidence[o.document] = o.digest
<1> SUFFICES ASSUME NEW f \in reported
             PROVE  LET overridden == OverrideInForce(rules.overrides, f, InForce1)
                        accepted == OverrideInForce(rules.acceptances, f, LAMBDA x : x.until > now)
                    IN  /\ f.severity = "CRITICAL" => overridden
                        /\ f.severity = "HIGH" => overridden \/ accepted
  BY DEF SevereAreAccountedFor
<1> DEFINE g == AsGateFinding(f)
<1>1. /\ g.base = NoLabel /\ g.severity = f.severity /\ g.advisory = f.advisory
      /\ g.package = f.package
  BY DEF AsGateFinding
<1>2. ~Blocks(rules, now, g)
  BY DEF EvaluateGate
<1> HIDE DEF g
<1>3. Overrides(rules, now, g).valid => OverrideInForce(rules.overrides, f, InForce1)
  <2> SUFFICES ASSUME Overrides(rules, now, g).valid
               PROVE  OverrideInForce(rules.overrides, f, InForce1)
    OBVIOUS
  <2>1. EntryFor(rules.overrides, g) # NoRecord /\ Validate(EntryFor(rules.overrides, g), now, rules.evidence)
    BY DEF Overrides
  <2>2. PICK i \in DOMAIN rules.overrides :
          /\ {rules.overrides[i].finding, rules.overrides[i].package} \cap {g.advisory, Last(g.package)} # {}
          /\ EntryFor(rules.overrides, g) = rules.overrides[i]
    BY <2>1, EntryForIsRegistered, RegistersAssumption
  <2>3. QED
    BY <1>1, <2>1, <2>2 DEF OverrideInForce, Validate
<1>4. Accepted(rules, now, g) => OverrideInForce(rules.acceptances, f, LAMBDA x : x.until > now)
  <2> SUFFICES ASSUME Accepted(rules, now, g)
               PROVE  OverrideInForce(rules.acceptances, f, LAMBDA x : x.until > now)
    OBVIOUS
  <2>1. EntryFor(rules.acceptances, g) # NoRecord /\ EntryFor(rules.acceptances, g).until > now
    BY DEF Accepted, CheckActive
  <2>2. PICK i \in DOMAIN rules.acceptances :
          /\ {rules.acceptances[i].finding, rules.acceptances[i].package} \cap {g.advisory, Last(g.package)} # {}
          /\ EntryFor(rules.acceptances, g) = rules.acceptances[i]
    BY <2>1, EntryForIsRegistered, RegistersAssumption
  <2>3. QED
    BY <1>1, <2>1, <2>2 DEF OverrideInForce
<1>5. QED
  BY <1>1, <1>2, <1>3, <1>4, PassedIsNotSevere

\* The gates are records throughout a run, which is about one tree.
GatesInv ==
  /\ source \in Sources
  /\ gate = [failed |-> gate.failed, verdict |-> gate.verdict]
  /\ final = [failed |-> final.failed, verdict |-> final.verdict]

LEMMA CheckKeepsGates ==
  ASSUME GatesInv, NEW passes, NEW next, Check(passes, next)
  PROVE  GatesInv' /\ (~gate'.failed => passes)
  BY DEF Check, GatesInv, givens

LEMMA FinalCheckKeepsGates ==
  ASSUME GatesInv, NEW passes, NEW next, FinalCheck(passes, next)
  PROVE  GatesInv' /\ (~final'.failed => passes)
  BY DEF FinalCheck, GatesInv, givens

LEMMA GatesStay ==
  ASSUME GatesInv, [ReleaseNext]_releaseVars PROVE GatesInv'
<1> USE DEF GatesInv, givens
<1>1. CASE GenerateSbom \/ GenerateSpdx \/ ScanVulnerabilities \/ GenerateProvenance
  BY <1>1 DEF GenerateSbom, GenerateSpdx, ScanVulnerabilities, GenerateProvenance
<1>2. CASE WriteManifest \/ SignManifest \/ Verify \/ Cosign
  BY <1>2 DEF WriteManifest, SignManifest, Verify, Cosign
<1>3. CASE CheckVulnerabilityGate
  BY <1>3, CheckKeepsGates DEF CheckVulnerabilityGate
<1>4. CASE CheckSecretsGate \/ CheckSecurityTestsGate
  BY <1>4, CheckKeepsGates DEF CheckSecretsGate, CheckSecurityTestsGate
<1>5. CASE CheckArtifactIntegrityGate \/ CheckSilentScannerCrashGate \/ CheckRequiredSbomGate
  BY <1>5, CheckKeepsGates DEF CheckArtifactIntegrityGate, CheckSilentScannerCrashGate, CheckRequiredSbomGate
<1>6. CASE GenerateReport
  BY <1>6 DEF GenerateReport
<1>7. CASE RunSuites \/ RunMoreSuites \/ CheckSecretScan
  BY <1>7, FinalCheckKeepsGates DEF RunSuites, RunMoreSuites, CheckSecretScan
<1>8. CASE CheckDependencyScan
  BY <1>8, FinalCheckKeepsGates DEF CheckDependencyScan
<1>9. CASE CheckSbomGeneration
  BY <1>9, FinalCheckKeepsGates DEF CheckSbomGeneration
<1>10. CASE Attest \/ Catalogue
  BY <1>10 DEF Attest, Catalogue
<1>11. CASE CheckProvenance
  BY <1>11, FinalCheckKeepsGates DEF CheckProvenance
<1>12. CASE RunQualification
  BY <1>12 DEF RunQualification
<1>13. CASE Cancel \/ Publish \/ ReleaseTick \/ Announce
  BY <1>13 DEF Cancel, Publish, ReleaseTick, Announce
<1>14. CASE \E n \in Collected \cup {"sums", "signature"} : Damage(n)
  BY <1>14 DEF Damage
<1>15. CASE UNCHANGED releaseVars
  BY <1>15 DEF releaseVars
<1>16. QED
  BY <1>1, <1>2, <1>3, <1>4, <1>5, <1>6, <1>7, <1>8, <1>9, <1>10, <1>11, <1>12, <1>13, <1>14, <1>15
  DEF ReleaseNext

\* The two checks that let a report pass are the only steps from their stages to the next.
LEMMA GateSteps ==
  ASSUME [ReleaseNext]_releaseVars
  PROVE  /\ stage = "vulnerabilities" /\ stage' = "secrets" => CheckVulnerabilityGate
         /\ stage = "dependencies" /\ stage' = "final secrets" => CheckDependencyScan
<1> USE DEF Proceed, Stop
<1>1. CASE stage \notin {"vulnerabilities", "dependencies"}
  BY <1>1
<1>2. CASE Cancel \/ Publish
  BY <1>2 DEF Cancel, Publish
<1>3. CASE stage' = stage
  BY <1>3
<1>4. CASE CheckVulnerabilityGate \/ CheckDependencyScan
  BY <1>4 DEF CheckVulnerabilityGate, CheckDependencyScan
<1>5. \/ stage \notin {"vulnerabilities", "dependencies"}
      \/ Cancel \/ Publish
      \/ stage' = stage
      \/ CheckVulnerabilityGate \/ CheckDependencyScan
  BY DEF ReleaseNext, releaseVars, ReleaseTick, Announce, Damage,
     GenerateSbom, GenerateSpdx, ScanVulnerabilities, GenerateProvenance, WriteManifest, SignManifest,
     Verify, Cosign, CheckSecretsGate, CheckSecurityTestsGate, CheckArtifactIntegrityGate,
     CheckSilentScannerCrashGate, CheckRequiredSbomGate, GenerateReport, RunSuites, RunMoreSuites,
     CheckSecretScan, CheckSbomGeneration, Attest, Catalogue, CheckProvenance, RunQualification
<1>6. QED
  BY <1>1, <1>2, <1>3, <1>4, <1>5

\* When a gate lets a report pass, each CRITICAL finding in it has an override in force at
\* that moment, with the evidence it names, and each HIGH one has that or a risk acceptance
\* in force (release_gate.py and final_quality_gate.py over vulnerability_release_gate.py).
THEOREM SevereAreAccounted == ReleaseSpec => SevereFindingsAreAccountedFor
<1>1. ReleaseInit => GatesInv
  BY DEF ReleaseInit, GatesInv
<1>2. GatesInv /\ [ReleaseNext]_releaseVars => GatesInv'
  BY GatesStay
<1>3. GatesInv /\ [ReleaseNext]_releaseVars =>
        /\ stage = "vulnerabilities" /\ stage' = "secrets" /\ ~gate'.failed =>
             SevereAreAccountedFor(ReportedFindings(artifacts))
        /\ stage = "dependencies" /\ stage' = "final secrets" /\ ~final'.failed =>
             SevereAreAccountedFor(ReportedFindings(artifacts'))
  <2> SUFFICES ASSUME GatesInv, [ReleaseNext]_releaseVars
               PROVE  /\ stage = "vulnerabilities" /\ stage' = "secrets" /\ ~gate'.failed =>
                           SevereAreAccountedFor(ReportedFindings(artifacts))
                      /\ stage = "dependencies" /\ stage' = "final secrets" /\ ~final'.failed =>
                           SevereAreAccountedFor(ReportedFindings(artifacts'))
    OBVIOUS
  <2>1. source \in Sources
    BY DEF GatesInv
  <2>2. ASSUME CheckVulnerabilityGate, stage' = "secrets", ~gate'.failed
        PROVE  SevereAreAccountedFor(ReportedFindings(artifacts))
    <3>1. EvaluateGate(ReportedFindings(artifacts), source.rules, now).passed
      BY <2>2, CheckKeepsGates DEF CheckVulnerabilityGate, Proceed, Stop
    <3>2. QED
      BY <2>1, <3>1, PassedIsAccountedFor
  <2>3. ASSUME CheckDependencyScan, stage' = "final secrets", ~final'.failed
        PROVE  SevereAreAccountedFor(ReportedFindings(artifacts'))
    <3>1. EvaluateGate(ReportedFindings(artifacts'), source.rules, now).passed
      <4> DEFINE pass == EvaluateGate(ReportedFindings(artifacts'), source.rules, now).passed
      <4>1. FinalCheck(pass, "final secrets")
        BY <2>3 DEF CheckDependencyScan, Proceed, Stop
      <4> HIDE DEF pass
      <4>2. pass
        BY <2>3, <4>1 DEF FinalCheck, GatesInv
      <4>3. QED
        BY <4>2 DEF pass
    <3>2. QED
      BY <2>1, <3>1, PassedIsAccountedFor
  <2>4. QED
    BY <2>2, <2>3, GateSteps
<1>4. QED
  BY <1>1, <1>2, <1>3, PTL DEF ReleaseSpec, SevereFindingsAreAccountedFor

-----------------------------------------------------------------------------
(* What the stages of a release vouch for. *)

IsFile(a) ==
  \/ a = NotThere
  \/ /\ a = [exists |-> TRUE, stamp |-> a.stamp, parses |-> a.parses, body |-> a.body]
     /\ a.stamp \in Nat \ {0} /\ a.parses \in BOOLEAN

AreFiles(files) ==
  files = [n \in Artifacts |-> files[n]] /\ \A n \in Artifacts : IsFile(files[n])

RunShape ==
  /\ source \in Sources /\ keyring \in Keyrings
  /\ now \in 0 .. MaxNow /\ known \subseteq Advisories /\ damaged \subseteq Artifacts

GatesShape ==
  /\ gate = [failed |-> gate.failed, verdict |-> gate.verdict]
  /\ final = [failed |-> final.failed, verdict |-> final.verdict]
  /\ gate.failed \in BOOLEAN /\ gate.verdict \in Verdicts
  /\ final.failed \in BOOLEAN /\ final.verdict \in {"none", "RELEASE_BLOCKED", "QUALIFIED"}

ReleaseShape == RunShape /\ AreFiles(artifacts) /\ GatesShape

\* A manifest lists what is signed, and no report of a gate.
ManifestsList == Present("sums") => DOMAIN artifacts["sums"].body \subseteq Collected

\* From its fourth check on, a release gate that has not failed has seen the signature.
PastIntegrity ==
  \/ stage \in {"crash", "sbom gate", "gate report"} /\ ~gate.failed
  \/ gate.verdict = "APPROVED"

SignatureWasSeen ==
  PastIntegrity =>
    /\ Present("signature")
    /\ Stamp("signature") = 1 => artifacts["signature"].body.by = ReleaseKey

Attested == DOMAIN artifacts["provenance"].body \ (damaged \cup {"sums"})

\* Provenance that has just been written has the digests of the files there are.
ProvenanceIsFresh ==
  stage = "catalogue" =>
    /\ Present("provenance")
    /\ \A n \in Attested : n \in CollectTargetArtifacts /\ artifacts["provenance"].body[n] = Stamp(n)

ProvenanceAgrees == \A n \in Attested : artifacts["provenance"].body[n] = artifacts["sums"].body[n]

FinalGateHolds ==
  /\ stage = "provenance check" /\ SigningKey(NoKey) # NoKey => ProvenanceAgrees
  /\ stage = "documentation" /\ ~final.failed => Verifies(artifacts) /\ ProvenanceAgrees
  /\ final.verdict = "QUALIFIED" =>
       stage \in {"publish", "published"} /\ Verifies(artifacts) /\ ProvenanceAgrees

VouchInv == ReleaseShape /\ ManifestsList /\ SignatureWasSeen /\ ProvenanceIsFresh /\ FinalGateHolds

\* One file is replaced, and the others stay.
Updates(new, old, name, file) ==
  /\ AreFiles(new)
  /\ new[name] = file
  /\ \A n \in Artifacts \ {name} : new[n] = old[n]

LEMMA UpdatedIs ==
  ASSUME NEW files, AreFiles(files), NEW name \in Artifacts, NEW file, IsFile(file)
  PROVE  Updates([files EXCEPT ![name] = file], files, name, file)
<1> DEFINE new == [files EXCEPT ![name] = file]
<1>1. new = [n \in Artifacts |-> IF n = name THEN file ELSE files[n]]
  BY DEF AreFiles
<1> HIDE DEF new
<1>2. /\ new = [n \in Artifacts |-> new[n]] /\ new[name] = file
      /\ \A n \in Artifacts \ {name} : new[n] = files[n]
  BY <1>1
<1>3. AreFiles(new)
  BY <1>2 DEF AreFiles
<1>4. QED
  BY <1>2, <1>3 DEF Updates, new

LEMMA FileIs ==
  ASSUME AreFiles(artifacts), NEW name \in Artifacts, NEW body
  PROVE  /\ IsFile(File(name, body))
         /\ File(name, body).exists /\ File(name, body).body = body
         /\ Present(name) => File(name, body).stamp # 1
<1>1. Stamp(name) \in Nat /\ (Present(name) => Stamp(name) # 0)
  BY DEF AreFiles, IsFile, Stamp, Present, NotThere
<1>2. QED
  BY <1>1 DEF File, IsFile

LEMMA TornIs ==
  ASSUME AreFiles(artifacts), NEW name \in Artifacts, NEW body
  PROVE  /\ IsFile(Torn(name, body))
         /\ Torn(name, body).exists /\ Torn(name, body).body = body
         /\ Present(name) => Torn(name, body).stamp # 1
<1> DEFINE torn == Torn(name, body)
<1>1. Stamp(name) \in Nat /\ (Present(name) => Stamp(name) # 0)
  BY DEF AreFiles, IsFile, Stamp, Present, NotThere
<1>2. /\ torn.exists = TRUE /\ torn.stamp = Stamp(name) + 1
      /\ torn.parses = FALSE /\ torn.body = body
  BY DEF Torn
<1>3. torn = [exists |-> TRUE, stamp |-> torn.stamp, parses |-> torn.parses, body |-> torn.body]
  BY <1>2, Zenon DEF Torn
<1> HIDE DEF torn
<1>4. torn.stamp \in Nat \ {0} /\ torn.parses \in BOOLEAN
  <2>1. Stamp(name) + 1 \in Nat \ {0}
    BY <1>1
  <2>2. QED
    BY <1>2, <2>1, Zenon
<1>5. IsFile(torn)
  BY <1>3, <1>4, Zenon DEF IsFile
<1>6. Present(name) => torn.stamp # 1
  <2>1. Present(name) => Stamp(name) + 1 # 1
    BY <1>1
  <2>2. QED
    BY <1>2, <2>1, Zenon
<1>7. QED
  BY <1>2, <1>5, <1>6, Zenon DEF torn

LEMMA WrittenIs ==
  ASSUME AreFiles(artifacts), NEW name \in Artifacts, NEW body
  PROVE  Updates(Written(name, body), artifacts, name, File(name, body))
BY FileIs, UpdatedIs DEF Written

LEMMA VerifiesIs ==
  ASSUME NEW files, Verifies(files)
  PROVE  files["signature"].exists /\ files["signature"].body.by = ReleaseKey
<1>1. files["signature"].exists /\ files["signature"].body = Signature(ReleaseKey, files["sums"])
  BY DEF Verifies
<1>2. Signature(ReleaseKey, files["sums"]).by = ReleaseKey
  BY DEF Signature
<1>3. QED
  BY <1>1, <1>2

\* A signature stays, or a new one is written over it.
LEMMA SignatureStays ==
  ASSUME SignatureWasSeen,
         \/ artifacts'["signature"] = artifacts["signature"]
         \/ Present("signature") => Present("signature")' /\ Stamp("signature")' # 1,
         PastIntegrity' => PastIntegrity \/ Verifies(artifacts)
  PROVE  SignatureWasSeen'
<1> SUFFICES ASSUME PastIntegrity'
             PROVE  Present("signature")' /\ (Stamp("signature")' = 1 => artifacts'["signature"].body.by = ReleaseKey)
  BY DEF SignatureWasSeen
<1>1. Present("signature") /\ (Stamp("signature") = 1 => artifacts["signature"].body.by = ReleaseKey)
  <2>1. CASE Verifies(artifacts)
    BY <2>1, VerifiesIs DEF Present
  <2>2. CASE ~Verifies(artifacts)
    BY <2>2 DEF SignatureWasSeen
  <2>3. QED
    BY <2>1, <2>2
<1>2. QED
  BY <1>1 DEF Present, Stamp

\* A step before the final gate's last checks that leaves the signature as it is, or writes a
\* new one over it, and any manifest a manifest.
LEMMA EarlyStep ==
  ASSUME VouchInv, ReleaseShape', ManifestsList',
         stage \notin {"publish", "published"},
         stage' \notin {"catalogue", "provenance check", "documentation"},
         final'.verdict = final.verdict,
         \/ artifacts'["signature"] = artifacts["signature"]
         \/ Present("signature") => Present("signature")' /\ Stamp("signature")' # 1,
         PastIntegrity' => PastIntegrity \/ Verifies(artifacts)
  PROVE  VouchInv'
<1>1. SignatureWasSeen'
  BY SignatureStays DEF VouchInv
<1>2. ProvenanceIsFresh' /\ FinalGateHolds'
  BY DEF VouchInv, FinalGateHolds, ProvenanceIsFresh
<1>3. QED
  BY <1>1, <1>2 DEF VouchInv

LEMMA EarlyStay ==
  ASSUME VouchInv, RunShape', GatesShape', artifacts' = artifacts,
         stage \notin {"publish", "published"},
         stage' \notin {"catalogue", "provenance check", "documentation"},
         final'.verdict = final.verdict,
         PastIntegrity' => PastIntegrity \/ Verifies(artifacts)
  PROVE  VouchInv'
<1>1. ReleaseShape' /\ ManifestsList'
  BY DEF VouchInv, ReleaseShape, ManifestsList, Present
<1>2. QED
  BY <1>1, EarlyStep

LEMMA EarlyUpdate ==
  ASSUME VouchInv, RunShape', GatesShape', NEW name \in Artifacts, NEW file,
         Updates(artifacts', artifacts, name, file),
         name = "signature" => (Present("signature") => file.exists /\ file.stamp # 1),
         name = "sums" => DOMAIN file.body \subseteq Collected,
         stage \notin {"publish", "published"},
         stage' \notin {"catalogue", "provenance check", "documentation"},
         final'.verdict = final.verdict,
         PastIntegrity' => PastIntegrity \/ Verifies(artifacts)
  PROVE  VouchInv'
<1>1. ReleaseShape'
  BY DEF ReleaseShape, Updates
<1>2. ManifestsList'
  BY DEF VouchInv, ManifestsList, Present, Updates, Artifacts
<1>3. \/ artifacts'["signature"] = artifacts["signature"]
      \/ Present("signature") => Present("signature")' /\ Stamp("signature")' # 1
  BY DEF Updates, Artifacts, Present, Stamp
<1>4. QED
  BY <1>1, <1>2, <1>3, EarlyStep

LEMMA EarlyWrite ==
  ASSUME VouchInv, RunShape', GatesShape', NEW name \in Artifacts, NEW body,
         artifacts' = Written(name, body),
         name = "sums" => DOMAIN body \subseteq Collected,
         stage \notin {"publish", "published"},
         stage' \notin {"catalogue", "provenance check", "documentation"},
         final'.verdict = final.verdict,
         PastIntegrity' => PastIntegrity
  PROVE  VouchInv'
<1>1. AreFiles(artifacts)
  BY DEF VouchInv, ReleaseShape
<1>2. QED
  BY <1>1, WrittenIs, FileIs, EarlyUpdate

\* What a step leaves alone.
LEMMA GivensStay ==
  ASSUME VouchInv, UNCHANGED <<givens, damaged>> PROVE RunShape'
BY DEF VouchInv, ReleaseShape, RunShape, givens

LEMMA GatesUnchanged ==
  ASSUME VouchInv, UNCHANGED <<gate, final>> PROVE GatesShape'
BY DEF VouchInv, ReleaseShape, GatesShape

LEMMA CheckKeeps ==
  ASSUME VouchInv, NEW passes, NEW next, Check(passes, next),
         stage \notin {"publish", "published"},
         next \notin {"catalogue", "provenance check", "documentation"},
         next \in {"crash", "sbom gate", "gate report"} /\ ~gate.failed /\ passes =>
           PastIntegrity \/ Verifies(artifacts)
  PROVE  VouchInv'
<1>1. UNCHANGED <<givens, artifacts, final, damaged>> /\ stage' = next
  BY DEF Check, Proceed
<1>2. /\ gate' = [failed |-> gate.failed \/ ~passes, verdict |-> gate.verdict]
  BY DEF Check, VouchInv, ReleaseShape, GatesShape
<1>3. gate'.failed = (gate.failed \/ ~passes) /\ gate'.verdict = gate.verdict
  BY <1>2
<1>4. GatesShape'
  BY <1>1, <1>2, <1>3 DEF VouchInv, ReleaseShape, GatesShape
<1>5. PastIntegrity' => PastIntegrity \/ Verifies(artifacts)
  BY <1>1, <1>3 DEF PastIntegrity
<1>6. RunShape'
  BY <1>1, GivensStay
<1>7. QED
  BY <1>1, <1>4, <1>5, <1>6, EarlyStay

LEMMA BuildKeeps ==
  ASSUME VouchInv, \/ GenerateSbom \/ GenerateSpdx \/ ScanVulnerabilities \/ GenerateProvenance
                   \/ WriteManifest \/ SignManifest \/ Cosign
  PROVE  VouchInv'
<1> USE DEF Proceed, Stop
<1>1. UNCHANGED <<givens, gate, final, damaged>>
  BY DEF GenerateSbom, GenerateSpdx, ScanVulnerabilities, GenerateProvenance, WriteManifest, SignManifest, Cosign
<1>2. RunShape' /\ GatesShape'
  BY <1>1, GivensStay, GatesUnchanged
<1>3. /\ stage \notin {"publish", "published", "crash", "sbom gate", "gate report"}
      /\ stage' \notin {"catalogue", "provenance check", "documentation", "crash", "sbom gate", "gate report"}
  BY DEF GenerateSbom, GenerateSpdx, ScanVulnerabilities, GenerateProvenance, WriteManifest, SignManifest, Cosign
<1>4. PastIntegrity' => PastIntegrity
  BY <1>1, <1>3 DEF PastIntegrity
<1>5. \/ artifacts' = artifacts
      \/ \E name \in Artifacts \ {"sums"} : \E body : artifacts' = Written(name, body)
      \/ artifacts' = Written("sums", Manifest)
  <2>1. CASE GenerateSbom \/ GenerateSpdx
    <3>1. "cdx" \in Artifacts \ {"sums"} /\ "spdx" \in Artifacts \ {"sums"}
      BY DEF Artifacts, Collected, GateReports
    <3>2. QED
      BY <2>1, <3>1, Zenon DEF GenerateSbom, GenerateSpdx
  <2>2. CASE ScanVulnerabilities \/ GenerateProvenance
    <3>1. "report" \in Artifacts \ {"sums"} /\ "provenance" \in Artifacts \ {"sums"}
      BY DEF Artifacts, Collected, GateReports
    <3>2. QED
      BY <2>2, <3>1, Zenon DEF ScanVulnerabilities, GenerateProvenance
  <2>3. CASE WriteManifest
    BY <2>3, Zenon DEF WriteManifest
  <2>4. CASE SignManifest \/ Cosign
    <3>1. "signature" \in Artifacts \ {"sums"} /\ "certificate" \in Artifacts \ {"sums"}
      BY DEF Artifacts, Collected, GateReports
    <3>2. Cosign => artifacts' = artifacts \/ artifacts' = Written("certificate", "cosign")
      BY DEF Cosign
    <3>3. QED
      BY <2>4, <3>1, <3>2, Zenon DEF SignManifest
  <2>5. QED
    BY <2>1, <2>2, <2>3, <2>4
<1>6. CASE artifacts' = artifacts
  BY <1>1, <1>2, <1>3, <1>4, <1>6, EarlyStay
<1>7. ASSUME NEW name \in Artifacts \ {"sums"}, NEW body, artifacts' = Written(name, body)
      PROVE  VouchInv'
  BY <1>1, <1>2, <1>3, <1>4, <1>7, EarlyWrite
<1>8. CASE artifacts' = Written("sums", Manifest)
  <2>1. "sums" \in Artifacts /\ DOMAIN Manifest \subseteq Collected
    BY DEF Artifacts, Manifest, CollectTargetArtifacts
  <2>2. QED
    BY <1>1, <1>2, <1>3, <1>4, <1>8, <2>1, EarlyWrite
<1>9. QED
  BY <1>5, <1>6, <1>7, <1>8

LEMMA VerifyKeeps ==
  ASSUME VouchInv, Verify \/ Cancel PROVE VouchInv'
<1>1. /\ UNCHANGED <<givens, artifacts, gate, final, damaged>>
      /\ stage \notin {"publish", "published"} /\ stage' \in {"cosign", "publish"}
  BY DEF Verify, Cancel, Proceed, Stop
<1>2. RunShape' /\ GatesShape'
  BY <1>1, GivensStay, GatesUnchanged
<1>3. PastIntegrity' => PastIntegrity
  BY <1>1 DEF PastIntegrity
<1>4. QED
  BY <1>1, <1>2, <1>3, EarlyStay

LEMMA ReleaseGateKeeps ==
  ASSUME VouchInv, \/ CheckVulnerabilityGate \/ CheckSecretsGate \/ CheckSecurityTestsGate
                   \/ CheckArtifactIntegrityGate \/ CheckSilentScannerCrashGate \/ CheckRequiredSbomGate
  PROVE  VouchInv'
<1>1. CASE CheckVulnerabilityGate
  <2>1. CASE ~LoadsRules(source.rules)
    <3>1. UNCHANGED <<givens, artifacts, gate, final, damaged>> /\ stage = "vulnerabilities" /\ stage' = "publish"
      BY <1>1, <2>1 DEF CheckVulnerabilityGate, Stop, Proceed
    <3>2. RunShape' /\ GatesShape' /\ (PastIntegrity' => PastIntegrity)
      BY <3>1, GivensStay, GatesUnchanged DEF PastIntegrity
    <3>3. QED
      BY <3>1, <3>2, EarlyStay
  <2>2. CASE LoadsRules(source.rules)
    <3>1. \E passes : Check(passes, "secrets") /\ stage = "vulnerabilities"
      BY <1>1, <2>2, Zenon DEF CheckVulnerabilityGate
    <3>2. QED
      BY <3>1, CheckKeeps
  <2>3. QED
    BY <2>1, <2>2
<1>2. CASE CheckSecretsGate
  BY <1>2, CheckKeeps DEF CheckSecretsGate
<1>3. CASE CheckSecurityTestsGate
  BY <1>3, CheckKeeps DEF CheckSecurityTestsGate
<1>4. CASE CheckArtifactIntegrityGate
  BY <1>4, CheckKeeps DEF CheckArtifactIntegrityGate
<1>5. CASE CheckSilentScannerCrashGate
  BY <1>5, CheckKeeps DEF CheckSilentScannerCrashGate, PastIntegrity
<1>6. CASE CheckRequiredSbomGate
  <2>1. stage = "sbom gate" /\ \E passes : Check(passes, "gate report")
    BY <1>6, Zenon DEF CheckRequiredSbomGate
  <2>2. QED
    BY <2>1, CheckKeeps DEF PastIntegrity
<1>7. QED
  BY <1>1, <1>2, <1>3, <1>4, <1>5, <1>6

LEMMA GenerateReportKeeps ==
  ASSUME VouchInv, GenerateReport PROVE VouchInv'
<1>1. /\ stage = "gate report" /\ stage' \in {"publish", "suites"}
      /\ artifacts' = Written("gateReport", "report") /\ UNCHANGED <<givens, final, damaged>>
  BY DEF GenerateReport, Stop, Proceed
<1>2. gate' = [failed |-> gate.failed, verdict |-> IF gate.failed THEN "REJECTED" ELSE "APPROVED"]
  BY DEF GenerateReport, VouchInv, ReleaseShape, GatesShape
<1>3. gate'.failed = gate.failed /\ gate'.verdict = IF gate.failed THEN "REJECTED" ELSE "APPROVED"
  BY <1>2
<1>4. GatesShape' /\ RunShape'
  BY <1>1, <1>2, <1>3, GivensStay DEF VouchInv, ReleaseShape, GatesShape, Verdicts
<1>5. PastIntegrity' => PastIntegrity
  BY <1>1, <1>3 DEF PastIntegrity
<1>6. "gateReport" \in Artifacts
  BY DEF Artifacts, GateReports
<1>7. QED
  BY <1>1, <1>4, <1>5, <1>6, EarlyWrite

LEMMA FinalCheckIs ==
  ASSUME VouchInv, NEW passes, NEW next, FinalCheck(passes, next)
  PROVE  /\ UNCHANGED <<givens, gate>> /\ stage' = next /\ GatesShape'
         /\ final'.verdict = final.verdict /\ (final'.failed <=> (final.failed \/ ~passes))
<1>1. UNCHANGED <<givens, gate>> /\ stage' = next
  BY DEF FinalCheck, Proceed
<1>2. final' = [failed |-> final.failed \/ ~passes, verdict |-> final.verdict]
  BY DEF FinalCheck, VouchInv, ReleaseShape, GatesShape
<1>3. final'.failed = (final.failed \/ ~passes) /\ final'.verdict = final.verdict
  BY <1>2
<1>4. GatesShape'
  BY <1>1, <1>2, <1>3 DEF VouchInv, ReleaseShape, GatesShape
<1>5. QED
  BY <1>1, <1>3, <1>4

\* A check of the final gate, before it attests again.
LEMMA FinalEarly ==
  ASSUME VouchInv, NEW passes, NEW next, FinalCheck(passes, next), UNCHANGED damaged,
         stage \in {"suites", "dependencies", "final secrets", "more suites", "regenerate"},
         next \in {"dependencies", "final secrets", "more suites", "regenerate", "attest"}
  PROVE  /\ RunShape' /\ GatesShape' /\ final'.verdict = final.verdict
         /\ stage \notin {"publish", "published"}
         /\ stage' \notin {"catalogue", "provenance check", "documentation"}
         /\ PastIntegrity' => PastIntegrity
BY FinalCheckIs, GivensStay DEF PastIntegrity

LEMMA SuitesKeep ==
  ASSUME VouchInv, RunSuites \/ RunMoreSuites \/ CheckSecretScan PROVE VouchInv'
<1>1. CASE RunSuites
  <2>1. PICK pass : FinalCheck(pass, "dependencies")
    BY <1>1, Zenon DEF RunSuites
  <2>2. stage = "suites" /\ UNCHANGED <<artifacts, damaged>>
    BY <1>1 DEF RunSuites
  <2>3. QED
    BY <2>1, <2>2, FinalEarly, EarlyStay
<1>2. CASE RunMoreSuites
  <2>1. PICK pass : FinalCheck(pass, "regenerate")
    BY <1>2, Zenon DEF RunMoreSuites
  <2>2. stage = "more suites" /\ UNCHANGED <<artifacts, damaged>>
    BY <1>2 DEF RunMoreSuites
  <2>3. QED
    BY <2>1, <2>2, FinalEarly, EarlyStay
<1>3. CASE CheckSecretScan
  BY <1>3, FinalEarly, EarlyStay DEF CheckSecretScan
<1>4. QED
  BY <1>1, <1>2, <1>3

LEMMA DependencyScanKeeps ==
  ASSUME VouchInv, CheckDependencyScan PROVE VouchInv'
<1>1. stage = "dependencies" /\ UNCHANGED damaged /\ AreFiles(artifacts) /\ "report" \in Artifacts \ {"sums", "signature"}
  BY DEF CheckDependencyScan, VouchInv, ReleaseShape, Artifacts, Collected
<1>2. ASSUME artifacts' = artifacts \/ \E r : artifacts' = Written("report", r),
             \/ stage' = "publish" /\ UNCHANGED <<givens, gate, final>>
             \/ \E passes : FinalCheck(passes, "final secrets")
      PROVE  VouchInv'
  <2>1. /\ RunShape' /\ GatesShape' /\ final'.verdict = final.verdict
        /\ stage \notin {"publish", "published"}
        /\ stage' \notin {"catalogue", "provenance check", "documentation"}
        /\ PastIntegrity' => PastIntegrity
    <3>1. CASE stage' = "publish" /\ UNCHANGED <<givens, gate, final>>
      BY <1>1, <3>1, GivensStay, GatesUnchanged DEF PastIntegrity
    <3>2. CASE \E passes : FinalCheck(passes, "final secrets")
      BY <1>1, <3>2, FinalEarly
    <3>3. QED
      BY <1>2, <3>1, <3>2
  <2>2. CASE artifacts' = artifacts
    BY <2>1, <2>2, EarlyStay
  <2>3. CASE \E r : artifacts' = Written("report", r)
    BY <1>1, <2>1, <2>3, EarlyWrite
  <2>4. QED
    BY <1>2, <2>2, <2>3
<1>3. ASSUME artifacts' = [artifacts EXCEPT !["report"] = Torn("report", "half written")],
             stage' = "publish", UNCHANGED <<givens, gate, final>>
      PROVE  VouchInv'
  <2>1. IsFile(Torn("report", "half written"))
    BY <1>1, TornIs
  <2>2. Updates(artifacts', artifacts, "report", Torn("report", "half written"))
    BY <1>1, <1>3, <2>1, UpdatedIs
  <2>3. RunShape' /\ GatesShape' /\ (PastIntegrity' => PastIntegrity)
    BY <1>1, <1>3, GivensStay, GatesUnchanged DEF PastIntegrity
  <2>4. QED
    BY <1>1, <1>3, <2>2, <2>3, EarlyUpdate
<1>4. \/ /\ artifacts' = artifacts \/ \E r : artifacts' = Written("report", r)
         /\ \/ stage' = "publish" /\ UNCHANGED <<givens, gate, final>>
            \/ \E passes : FinalCheck(passes, "final secrets")
      \/ /\ artifacts' = [artifacts EXCEPT !["report"] = Torn("report", "half written")]
         /\ stage' = "publish" /\ UNCHANGED <<givens, gate, final>>
  BY Zenon DEF CheckDependencyScan, Stop, Proceed
<1>5. QED
  BY <1>2, <1>3, <1>4

LEMMA SbomGenerationKeeps ==
  ASSUME VouchInv, CheckSbomGeneration PROVE VouchInv'
<1>1. stage = "regenerate" /\ UNCHANGED damaged /\ \E passes : FinalCheck(passes, "attest")
  BY Zenon DEF CheckSbomGeneration
<1>2. /\ RunShape' /\ GatesShape' /\ final'.verdict = final.verdict
      /\ stage \notin {"publish", "published"}
      /\ stage' \notin {"catalogue", "provenance check", "documentation"}
      /\ PastIntegrity' => PastIntegrity
  BY <1>1, FinalEarly
<1>3. CASE artifacts' = artifacts
  BY <1>2, <1>3, EarlyStay
<1>4. ASSUME NEW cdx, NEW spdx, artifacts' = GenerateSboms(cdx, spdx) PROVE VouchInv'
  <2> DEFINE once == [artifacts EXCEPT !["cdx"] = File("cdx", cdx)]
  <2>1. AreFiles(artifacts) /\ {"cdx", "spdx"} \subseteq Artifacts \ {"sums", "signature"}
    BY DEF VouchInv, ReleaseShape, Artifacts, Collected
  <2>2. Updates(once, artifacts, "cdx", File("cdx", cdx))
    BY <2>1, FileIs, UpdatedIs
  <2>3. artifacts' = [once EXCEPT !["spdx"] = File("spdx", spdx)]
    BY <1>4 DEF GenerateSboms
  <2> HIDE DEF once
  <2>4. Updates(artifacts', once, "spdx", File("spdx", spdx))
    <3>1. AreFiles(once)
      BY <2>2 DEF Updates
    <3>2. QED
      BY <2>1, <2>3, <3>1, FileIs, UpdatedIs
  <2>5. ReleaseShape' /\ artifacts'["sums"] = artifacts["sums"] /\ artifacts'["signature"] = artifacts["signature"]
    BY <1>2, <2>1, <2>2, <2>4 DEF ReleaseShape, Updates, Artifacts
  <2>6. ManifestsList'
    BY <2>5 DEF VouchInv, ManifestsList, Present
  <2>7. QED
    BY <1>2, <2>5, <2>6, EarlyStep
<1>5. artifacts' = artifacts \/ \E cdx, spdx : artifacts' = GenerateSboms(cdx, spdx)
  BY Zenon DEF CheckSbomGeneration
<1>6. QED
  BY <1>3, <1>4, <1>5

LEMMA AttestKeeps ==
  ASSUME VouchInv, Attest PROVE VouchInv'
<1>1. /\ stage = "attest" /\ stage' = "catalogue" /\ artifacts' = Written("provenance", Subjects)
      /\ UNCHANGED <<givens, gate, final, damaged>>
  BY DEF Attest, Proceed
<1>2. AreFiles(artifacts) /\ "provenance" \in Artifacts
  BY DEF VouchInv, ReleaseShape, Artifacts, Collected
<1>3. Updates(artifacts', artifacts, "provenance", File("provenance", Subjects))
  BY <1>1, <1>2, WrittenIs
<1>4. ReleaseShape'
  BY <1>1, <1>3, GivensStay, GatesUnchanged DEF ReleaseShape, Updates
<1>5. \A n \in Artifacts \ {"provenance"} : artifacts'[n] = artifacts[n]
  BY <1>3 DEF Updates
<1>6. ManifestsList' /\ SignatureWasSeen'
  <2>1. {"sums", "signature"} \subseteq Artifacts \ {"provenance"}
    BY DEF Artifacts
  <2>2. ManifestsList'
    BY <1>5, <2>1 DEF VouchInv, ManifestsList, Present
  <2>3. PastIntegrity' => PastIntegrity
    BY <1>1 DEF PastIntegrity
  <2>4. QED
    BY <1>5, <2>1, <2>2, <2>3, SignatureStays DEF VouchInv
<1>7. ProvenanceIsFresh'
  <2>1. artifacts'["provenance"].exists /\ artifacts'["provenance"].body = Subjects
    BY <1>2, <1>3, FileIs DEF Updates
  <2>2. ASSUME NEW n \in DOMAIN Subjects, n # "sums"
        PROVE  n \in Collected /\ n \in Artifacts \ {"provenance"} /\ Present(n) /\ Subjects[n] = Stamp(n)
    BY <2>2 DEF Subjects, Collected, Artifacts
  <2>3. ASSUME NEW n \in Attested' PROVE n \in CollectTargetArtifacts' /\ Subjects[n] = Stamp(n)'
    <3>1. n \in DOMAIN Subjects /\ n # "sums"
      BY <2>1, <2>3 DEF Attested
    <3>2. artifacts'[n] = artifacts[n] /\ n \in Collected /\ Present(n) /\ Subjects[n] = Stamp(n)
      BY <1>5, <2>2, <3>1
    <3>3. QED
      BY <3>2 DEF CollectTargetArtifacts, Present, Stamp
  <2>4. QED
    BY <2>1, <2>3 DEF ProvenanceIsFresh, Present
<1>8. FinalGateHolds'
  BY <1>1 DEF VouchInv, FinalGateHolds
<1>9. QED
  BY <1>4, <1>6, <1>7, <1>8 DEF VouchInv

LEMMA CatalogueKeeps ==
  ASSUME VouchInv, Catalogue PROVE VouchInv'
<1>1. stage = "catalogue" /\ stage' = "provenance check" /\ UNCHANGED <<givens, gate, final, damaged>>
  BY DEF Catalogue, Proceed
<1>2. RunShape' /\ GatesShape'
  BY <1>1, GivensStay, GatesUnchanged
<1>3. SigningKey(NoKey)' = SigningKey(NoKey)
  BY <1>1 DEF SigningKey, givens
<1>4. ProvenanceIsFresh' /\ (PastIntegrity' => PastIntegrity)
  BY <1>1 DEF ProvenanceIsFresh, PastIntegrity
<1>5. CASE SigningKey(NoKey) = NoKey
  <2>1. artifacts' = artifacts
    BY <1>5 DEF Catalogue
  <2>2. ReleaseShape' /\ ManifestsList' /\ SignatureWasSeen'
    BY <1>2, <1>4, <2>1, SignatureStays DEF VouchInv, ReleaseShape, ManifestsList, Present
  <2>3. FinalGateHolds'
    BY <1>1, <1>3, <1>5 DEF VouchInv, FinalGateHolds
  <2>4. QED
    BY <1>4, <2>2, <2>3 DEF VouchInv
<1>6. CASE SigningKey(NoKey) # NoKey
  <2> DEFINE sums == File("sums", Manifest)
             signed == Signature(SigningKey(NoKey), sums)
             once == [artifacts EXCEPT !["sums"] = sums]
  <2>1. artifacts' = [once EXCEPT !["signature"] = File("signature", signed)]
    BY <1>6 DEF Catalogue
  <2>2. AreFiles(artifacts) /\ {"sums", "signature", "provenance"} \subseteq Artifacts
    BY DEF VouchInv, ReleaseShape, Artifacts, Collected
  <2>3. sums.exists /\ sums.body = Manifest
    BY <2>2, FileIs
  <2>4. /\ File("signature", signed).exists
        /\ Present("signature") => File("signature", signed).stamp # 1
    BY <2>2, FileIs
  <2>5. Updates(once, artifacts, "sums", sums)
    BY <2>2, FileIs, UpdatedIs
  <2>6. AreFiles(once)
    BY <2>5 DEF Updates
  <2> HIDE DEF sums, signed, once
  <2>7. Updates(artifacts', once, "signature", File("signature", signed))
    BY <2>1, <2>2, <2>6, FileIs, UpdatedIs
  <2>8. /\ AreFiles(artifacts')
        /\ artifacts'["sums"] = sums /\ artifacts'["signature"] = File("signature", signed)
        /\ artifacts'["provenance"] = artifacts["provenance"]
    BY <2>2, <2>5, <2>7 DEF Updates
  <2>9. ReleaseShape' /\ SignatureWasSeen'
    <3>1. Present("signature") => Present("signature")' /\ Stamp("signature")' # 1
      BY <2>4, <2>8 DEF Present, Stamp
    <3>2. QED
      BY <1>2, <1>4, <2>8, <3>1, SignatureStays DEF VouchInv, ReleaseShape
  <2>10. ManifestsList'
    BY <2>3, <2>8 DEF ManifestsList, Manifest, CollectTargetArtifacts
  <2>11. ProvenanceAgrees'
    <3>1. Attested' = Attested
      BY <1>1, <2>8 DEF Attested
    <3>2. ASSUME NEW n \in Attested PROVE artifacts["provenance"].body[n] = sums.body[n]
      <4>1. n \in CollectTargetArtifacts /\ artifacts["provenance"].body[n] = Stamp(n)
        BY <1>1 DEF VouchInv, ProvenanceIsFresh
      <4>2. Manifest[n] = Stamp(n)
        BY <4>1 DEF Manifest
      <4>3. QED
        BY <2>3, <4>1, <4>2
    <3>3. QED
      BY <2>8, <3>1, <3>2 DEF ProvenanceAgrees
  <2>12. FinalGateHolds'
    BY <1>1, <2>11 DEF VouchInv, FinalGateHolds
  <2>13. QED
    BY <1>4, <2>9, <2>10, <2>12 DEF VouchInv
<1>7. QED
  BY <1>5, <1>6

LEMMA ProvenanceCheckKeeps ==
  ASSUME VouchInv, CheckProvenance PROVE VouchInv'
<1> DEFINE passes == SigningKey(NoKey) # NoKey /\ Verifies(artifacts)
<1>1. stage = "provenance check" /\ FinalCheck(passes, "documentation") /\ UNCHANGED <<artifacts, damaged>>
  BY DEF CheckProvenance
<1>2. /\ UNCHANGED <<givens, gate>> /\ stage' = "documentation" /\ GatesShape'
      /\ final'.verdict = final.verdict /\ (final'.failed <=> (final.failed \/ ~passes))
  <2>1. PICK pass \in BOOLEAN : (pass <=> passes) /\ FinalCheck(pass, "documentation")
    BY <1>1
  <2> HIDE DEF passes
  <2>2. QED
    BY <2>1, FinalCheckIs
<1>3. ReleaseShape' /\ ManifestsList'
  BY <1>1, <1>2, GivensStay DEF VouchInv, ReleaseShape, ManifestsList, Present
<1>4. SignatureWasSeen'
  <2>1. PastIntegrity' => PastIntegrity
    BY <1>2 DEF PastIntegrity
  <2>2. QED
    BY <1>1, <2>1, SignatureStays DEF VouchInv
<1>5. ProvenanceIsFresh'
  BY <1>2 DEF ProvenanceIsFresh
<1>6. Verifies(artifacts)' = Verifies(artifacts)
  BY <1>1
<1>7. ProvenanceAgrees' = ProvenanceAgrees
  BY <1>1 DEF ProvenanceAgrees, Attested
<1>8. FinalGateHolds'
  <2>1. passes => ProvenanceAgrees /\ Verifies(artifacts)
    BY <1>1 DEF VouchInv, FinalGateHolds
  <2> HIDE DEF passes
  <2>2. final.verdict # "QUALIFIED"
    BY <1>1 DEF VouchInv, FinalGateHolds
  <2>3. QED
    BY <1>2, <1>6, <1>7, <2>1, <2>2 DEF FinalGateHolds
<1>9. QED
  BY <1>3, <1>4, <1>5, <1>8 DEF VouchInv

\* Files outside the manifest change nothing of what the manifest and the signature say.
LEMMA StillVerifies ==
  ASSUME ManifestsList, Verifies(artifacts), NEW files,
         \A n \in Collected \cup {"sums", "signature"} : files[n] = artifacts[n]
  PROVE  Verifies(files)
<1>1. files["sums"] = artifacts["sums"] /\ files["signature"] = artifacts["signature"]
  OBVIOUS
<1>2. DOMAIN artifacts["sums"].body \subseteq Collected
  BY DEF ManifestsList, Present, Verifies
<1>3. VerifyChecksums(files)
  BY <1>1, <1>2 DEF Verifies, VerifyChecksums
<1>4. QED
  BY <1>1, <1>3 DEF Verifies

LEMMA QualificationKeeps ==
  ASSUME VouchInv, RunQualification PROVE VouchInv'
<1>1. /\ stage = "documentation" /\ stage' = "publish" /\ artifacts' = Written("finalReport", "report")
      /\ UNCHANGED <<givens, gate, damaged>>
  BY DEF RunQualification, Stop, Proceed
<1>2. PICK failed \in BOOLEAN : /\ failed = (final.failed \/ ~source.documented)
                                /\ final' = [failed |-> failed, verdict |-> IF failed THEN "RELEASE_BLOCKED" ELSE "QUALIFIED"]
  BY DEF RunQualification
<1>3. GatesShape' /\ final'.failed = failed /\ final'.verdict = IF failed THEN "RELEASE_BLOCKED" ELSE "QUALIFIED"
  BY <1>1, <1>2 DEF VouchInv, ReleaseShape, GatesShape
<1>4. AreFiles(artifacts) /\ "finalReport" \in Artifacts
  BY DEF VouchInv, ReleaseShape, Artifacts, GateReports
<1>5. Updates(artifacts', artifacts, "finalReport", File("finalReport", "report"))
  BY <1>1, <1>4, WrittenIs
<1>6. \A n \in Collected \cup {"sums", "signature"} : artifacts'[n] = artifacts[n]
  BY <1>5 DEF Updates, Artifacts, Collected
<1>7. artifacts'["sums"] = artifacts["sums"] /\ artifacts'["signature"] = artifacts["signature"]
      /\ artifacts'["provenance"] = artifacts["provenance"]
  BY <1>6 DEF Collected
<1>8. ReleaseShape'
  BY <1>1, <1>3, <1>5, GivensStay DEF ReleaseShape, Updates
<1>9. ManifestsList' /\ SignatureWasSeen' /\ ProvenanceIsFresh'
  <2>1. PastIntegrity' => PastIntegrity
    BY <1>1 DEF PastIntegrity
  <2>2. SignatureWasSeen'
    BY <1>7, <2>1, SignatureStays DEF VouchInv
  <2>3. QED
    BY <1>1, <1>7, <2>2 DEF VouchInv, ManifestsList, ProvenanceIsFresh, Present
<1>10. FinalGateHolds'
  <2>1. ProvenanceAgrees' = ProvenanceAgrees
    BY <1>1, <1>7 DEF ProvenanceAgrees, Attested
  <2>2. CASE failed
    BY <1>1, <1>3, <2>2 DEF FinalGateHolds
  <2>3. CASE ~failed
    <3>1. Verifies(artifacts) /\ ProvenanceAgrees
      BY <1>1, <1>2, <2>3 DEF VouchInv, FinalGateHolds
    <3>2. Verifies(artifacts')
      BY <1>6, <3>1, StillVerifies DEF VouchInv
    <3>3. QED
      BY <1>1, <2>1, <3>1, <3>2 DEF FinalGateHolds
  <2>4. QED
    BY <2>2, <2>3
<1>11. QED
  BY <1>8, <1>9, <1>10 DEF VouchInv

LEMMA DamageKeeps ==
  ASSUME VouchInv, NEW name \in Collected \cup {"sums", "signature"}, Damage(name) PROVE VouchInv'
<1> DEFINE torn == Torn(name, artifacts[name].body)
<1>1. /\ stage \notin {"documentation", "publish", "published"} /\ Present(name)
      /\ artifacts' = [artifacts EXCEPT ![name] = torn]
      /\ damaged' = damaged \cup {name} /\ UNCHANGED <<givens, stage, gate, final>>
  BY DEF Damage
<1>2. AreFiles(artifacts) /\ name \in Artifacts
  BY DEF VouchInv, ReleaseShape, Artifacts
<1>3. IsFile(torn) /\ torn.exists /\ torn.body = artifacts[name].body /\ torn.stamp # 1
  BY <1>1, <1>2, TornIs
<1> HIDE DEF torn
<1>4. Updates(artifacts', artifacts, name, torn)
  BY <1>1, <1>2, <1>3, UpdatedIs
<1>5. ReleaseShape'
  BY <1>1, <1>2, <1>4, GatesUnchanged DEF VouchInv, ReleaseShape, RunShape, givens, Updates
<1>6. {"sums", "signature", "provenance"} \subseteq Artifacts /\ Collected \subseteq Artifacts
  BY DEF Artifacts, Collected
<1>7. \A n \in Artifacts : Present(n) => Present(n)' /\ artifacts'[n].body = artifacts[n].body
  BY <1>3, <1>4 DEF Updates, Present
<1>8. \A n \in Artifacts : Present(n)' => Present(n)
  BY <1>1, <1>3, <1>4 DEF Updates, Present
<1>9. ManifestsList'
  BY <1>6, <1>7, <1>8 DEF VouchInv, ManifestsList
<1>10. SignatureWasSeen'
  <2>1. PastIntegrity' => PastIntegrity
    BY <1>1 DEF PastIntegrity
  <2>2. \/ artifacts'["signature"] = artifacts["signature"]
        \/ Present("signature") => Present("signature")' /\ Stamp("signature")' # 1
    BY <1>3, <1>4, <1>6 DEF Updates, Present, Stamp
  <2>3. QED
    BY <2>1, <2>2, SignatureStays DEF VouchInv
<1>11. artifacts'["provenance"].body = artifacts["provenance"].body
       /\ artifacts'["sums"].body = artifacts["sums"].body
  BY <1>1, <1>3, <1>4, <1>6 DEF Updates
<1>12. Attested' \subseteq Attested /\ name \notin Attested'
  BY <1>1, <1>11 DEF Attested
<1>13. ProvenanceIsFresh'
  <2> SUFFICES ASSUME stage = "catalogue"
               PROVE  /\ Present("provenance")'
                      /\ \A n \in Attested' : n \in CollectTargetArtifacts'
                                              /\ artifacts'["provenance"].body[n] = Stamp(n)'
    BY <1>1 DEF ProvenanceIsFresh
  <2>1. /\ Present("provenance")
        /\ \A n \in Attested : n \in CollectTargetArtifacts /\ artifacts["provenance"].body[n] = Stamp(n)
    BY DEF VouchInv, ProvenanceIsFresh
  <2>2. ASSUME NEW n \in Attested'
        PROVE  n \in CollectTargetArtifacts' /\ artifacts'["provenance"].body[n] = Stamp(n)'
    <3>1. /\ n \in CollectTargetArtifacts /\ artifacts["provenance"].body[n] = Stamp(n)
          /\ n \in Collected /\ n # name
      BY <1>12, <2>1 DEF CollectTargetArtifacts
    <3>2. artifacts'[n] = artifacts[n]
      BY <1>4, <1>6, <3>1 DEF Updates
    <3>3. QED
      BY <1>11, <3>1, <3>2 DEF CollectTargetArtifacts, Present, Stamp
  <2>3. QED
    BY <1>6, <1>7, <2>1, <2>2
<1>14. FinalGateHolds'
  <2>1. ProvenanceAgrees => ProvenanceAgrees'
    BY <1>11, <1>12 DEF ProvenanceAgrees
  <2>2. SigningKey(NoKey)' = SigningKey(NoKey)
    BY <1>1 DEF SigningKey, givens
  <2>3. QED
    BY <1>1, <2>1, <2>2 DEF VouchInv, FinalGateHolds
<1>15. QED
  BY <1>5, <1>9, <1>10, <1>13, <1>14 DEF VouchInv

\* The clock, the advisories and the end of a run touch no file.
LEMMA AroundKeeps ==
  ASSUME VouchInv, ReleaseTick \/ Announce \/ Publish \/ UNCHANGED releaseVars PROVE VouchInv'
<1>1. /\ UNCHANGED <<source, keyring, artifacts, gate, final, damaged>>
      /\ stage' = stage \/ (stage = "publish" /\ stage' = "published")
  BY DEF ReleaseTick, Announce, Publish, givens, releaseVars, Proceed
<1>2. RunShape'
  BY ReleaseBoundsAssumption DEF VouchInv, ReleaseShape, RunShape, ReleaseTick, Announce, Publish, givens, releaseVars
<1>3. GatesShape'
  BY <1>1, GatesUnchanged
<1>4. ReleaseShape' /\ ManifestsList'
  BY <1>1, <1>2, <1>3 DEF VouchInv, ReleaseShape, ManifestsList, Present
<1>5. SignatureWasSeen' /\ ProvenanceIsFresh'
  BY <1>1 DEF VouchInv, SignatureWasSeen, PastIntegrity, ProvenanceIsFresh, Attested, CollectTargetArtifacts,
     Present, Stamp
<1>6. FinalGateHolds'
  <2>1. /\ ProvenanceAgrees' = ProvenanceAgrees /\ Verifies(artifacts)' = Verifies(artifacts)
        /\ SigningKey(NoKey)' = SigningKey(NoKey)
    BY <1>1 DEF ProvenanceAgrees, Attested, SigningKey
  <2>2. QED
    BY <1>1, <2>1 DEF VouchInv, FinalGateHolds
<1>7. QED
  BY <1>4, <1>5, <1>6 DEF VouchInv

LEMMA VouchInvHolds == ReleaseSpec => []VouchInv
<1>1. ReleaseInit => VouchInv
  <2> SUFFICES ASSUME ReleaseInit PROVE VouchInv
    OBVIOUS
  <2>1. AreFiles(artifacts) /\ \A n \in Artifacts : ~Present(n)
    BY DEF ReleaseInit, AreFiles, IsFile, Present, NotThere
  <2>2. RunShape /\ GatesShape
    BY ReleaseBoundsAssumption DEF ReleaseInit, RunShape, GatesShape, Verdicts
  <2>3. ManifestsList
    BY <2>1 DEF ManifestsList, Artifacts
  <2>4. SignatureWasSeen /\ ProvenanceIsFresh /\ FinalGateHolds
    BY DEF ReleaseInit, SignatureWasSeen, PastIntegrity, ProvenanceIsFresh, FinalGateHolds
  <2>5. QED
    BY <2>1, <2>2, <2>3, <2>4 DEF VouchInv, ReleaseShape
<1>2. VouchInv /\ [ReleaseNext]_releaseVars => VouchInv'
  BY BuildKeeps, VerifyKeeps, ReleaseGateKeeps, GenerateReportKeeps, SuitesKeep, DependencyScanKeeps,
     SbomGenerationKeeps, AttestKeeps, CatalogueKeeps, ProvenanceCheckKeeps, QualificationKeeps,
     DamageKeeps, AroundKeeps DEF ReleaseNext
<1>3. QED
  BY <1>1, <1>2, PTL DEF ReleaseSpec

\* What the release gate approves was signed with the release key, and what the final gate
\* qualifies still verifies when it is published, with provenance that names what was
\* signed, however a run is cancelled and whatever is damaged in it (release_gate.py,
\* final_quality_gate.py, sign_artifacts.py, generate_provenance.py).
THEOREM StagesVouch == ReleaseSpec => []ReleaseVouches
<1>1. VouchInv => ReleaseVouches
  <2> SUFFICES ASSUME VouchInv PROVE ReleaseVouches
    OBVIOUS
  <2>1. ReleaseTypeOK
    <3>1. DOMAIN artifacts = Artifacts
      BY DEF VouchInv, ReleaseShape, AreFiles
    <3>2. \A n \in Artifacts : Present(n) => artifacts[n].stamp \in Nat \ {0} /\ artifacts[n].parses \in BOOLEAN
      BY DEF VouchInv, ReleaseShape, AreFiles, IsFile, Present, NotThere
    <3>3. QED
      BY <3>1, <3>2 DEF VouchInv, ReleaseShape, RunShape, GatesShape, ReleaseTypeOK
  <2>2. ApprovedReleaseIsSigned
    BY DEF VouchInv, SignatureWasSeen, PastIntegrity, ApprovedReleaseIsSigned
  <2>3. QualifiedReleaseIsConsistent
    BY DEF VouchInv, FinalGateHolds, ProvenanceAgrees, Attested, QualifiedReleaseIsConsistent
  <2>4. QED
    BY <2>1, <2>2, <2>3 DEF ReleaseVouches
<1>2. QED
  BY <1>1, VouchInvHolds, PTL

-----------------------------------------------------------------------------
(* What a vulnerability scan reports. *)

\* The findings OSV has for one query, in the order they are listed.
Hits(q, asked) == {VulnFinding(q, a, ExtractSeverity(a)) : a \in Affected(q, asked)}

Ask(q, listed, asked) == listed \o SetToSeq(Hits(q, asked))

LEMMA OsvSteps ==
  ASSUME NEW seq, NEW n \in Nat, DOMAIN seq = 1..n, NEW asked,
         \A i \in 1..n : IsFiniteSet(Hits(seq[i], asked))
  PROVE  \E h : /\ h[0] = <<>> /\ OsvFindings(seq, asked) = h[n]
                /\ \A i \in 1..n : h[i] = Ask(seq[i], h[i - 1], asked)
<1> DEFINE Eq(g) == g = [s \in SUBSET (1..n) |->
                           IF s = {} THEN <<>> ELSE Ask(seq[Max(s)], g[s \ {Max(s)}], asked)]
           iter == CHOOSE g : Eq(g)
           T == Seq(UNION {Hits(seq[i], asked) : i \in 1..n})
           step == [p \in (1..n) \X T |-> Ask(seq[p[1]], p[2], asked)]
<1>1. OsvFindings(seq, asked) = iter[1..n]
  BY DEF OsvFindings, FoldLeft, MapThenFoldSet, Ask, Hits
<1>2. \E g : Eq(g)
  <2>1. step \in [(1..n) \X T -> T] /\ <<>> \in T
    <3>1. ASSUME NEW i \in 1..n, NEW t \in T PROVE Ask(seq[i], t, asked) \in T
      <4>1. SetToSeq(Hits(seq[i], asked)) \in Seq(Hits(seq[i], asked))
        BY ListOf
      <4>2. SetToSeq(Hits(seq[i], asked)) \in T
        BY <4>1, SeqMonotonic
      <4>3. QED
        BY <4>2, ConcatProperties DEF Ask
    <3>2. <<>> \in T
      BY EmptySeq
    <3> HIDE DEF T
    <3>3. QED
      BY <3>1, <3>2
  <2>2. \A i \in 1..n, t \in T : step[<<i, t>>] = Ask(seq[i], t, asked)
    OBVIOUS
  <2> HIDE DEF step, T
  <2>3. PICK g \in [SUBSET (1..n) -> T] : Folds(g, n, <<>>, step)
    BY <2>1, FoldAlwaysExists DEF FoldExists
  <2>4. ASSUME NEW s \in SUBSET (1..n)
        PROVE  g[s] = IF s = {} THEN <<>> ELSE Ask(seq[Max(s)], g[s \ {Max(s)}], asked)
    <3>1. CASE s # {}
      <4>1. Max(s) \in 1..n /\ g[s \ {Max(s)}] \in T
        BY <3>1, MaxInside
      <4>2. QED
        BY <2>2, <2>3, <3>1, <4>1 DEF Folds
    <3>2. QED
      BY <2>3, <3>1 DEF Folds
  <2>5. Eq(g)
    BY <2>3, <2>4
  <2>6. QED
    BY <2>5
<1>3. Eq(iter)
  <2> HIDE DEF Eq
  <2>1. QED
    BY <1>2
<1> HIDE DEF iter
<1> DEFINE h == [i \in 0..n |-> iter[1..i]]
<1>4. h[0] = <<>> /\ h[n] = iter[1..n]
  <2>1. iter[1..0] = <<>>
    <3>1. \A s \in SUBSET (1..n) : s = {} => iter[s] = <<>>
      BY <1>3
    <3> HIDE DEF Eq
    <3>2. 1..0 \in SUBSET (1..n) /\ 1..0 = {}
      OBVIOUS
    <3>3. QED
      BY <3>1, <3>2
  <2> HIDE DEF Eq
  <2>2. QED
    BY <2>1
<1>5. ASSUME NEW i \in 1..n PROVE h[i] = Ask(seq[i], h[i - 1], asked)
  <2>1. \A s \in SUBSET (1..n) :
          iter[s] = IF s = {} THEN <<>> ELSE Ask(seq[Max(s)], iter[s \ {Max(s)}], asked)
    BY <1>3
  <2>2. iter[1..i] = Ask(seq[i], iter[1..(i - 1)], asked)
    BY <2>1, PrefixSteps
  <2>3. i \in 0..n /\ i - 1 \in 0..n
    OBVIOUS
  <2>4. QED
    BY <2>2, <2>3
<1> HIDE DEF h
<1>6. QED
  BY <1>1, <1>4, <1>5


\* A finding is kept unless its package and advisory are.
Keep(f, kept) ==
  IF \E i \in DOMAIN kept : kept[i].package = f.package /\ kept[i].advisory = f.advisory
  THEN kept ELSE Append(kept, f)

LEMMA UniqueSteps ==
  ASSUME NEW seq, NEW n \in Nat, DOMAIN seq = 1..n
  PROVE  \E h : /\ h[0] = <<>> /\ Unique(seq) = h[n]
                /\ \A i \in 1..n : h[i] = Keep(seq[i], h[i - 1])
<1> DEFINE Eq(g) == g = [s \in SUBSET (1..n) |->
                           IF s = {} THEN <<>> ELSE Keep(seq[Max(s)], g[s \ {Max(s)}])]
           iter == CHOOSE g : Eq(g)
           T == Seq({seq[i] : i \in 1..n})
           step == [p \in (1..n) \X T |-> Keep(seq[p[1]], p[2])]
<1>1. Unique(seq) = iter[1..n]
  BY DEF Unique, FoldLeft, MapThenFoldSet, Keep
<1>2. \E g : Eq(g)
  <2>1. step \in [(1..n) \X T -> T] /\ <<>> \in T
    <3>1. ASSUME NEW i \in 1..n, NEW t \in T PROVE Keep(seq[i], t) \in T
      BY DEF Keep
    <3>2. <<>> \in T
      OBVIOUS
    <3> HIDE DEF T
    <3>3. QED
      BY <3>1, <3>2
  <2>2. \A i \in 1..n, t \in T : step[<<i, t>>] = Keep(seq[i], t)
    OBVIOUS
  <2> HIDE DEF step, T
  <2>3. PICK g \in [SUBSET (1..n) -> T] : Folds(g, n, <<>>, step)
    BY <2>1, FoldAlwaysExists DEF FoldExists
  <2>4. ASSUME NEW s \in SUBSET (1..n)
        PROVE  g[s] = IF s = {} THEN <<>> ELSE Keep(seq[Max(s)], g[s \ {Max(s)}])
    <3>1. CASE s # {}
      <4>1. Max(s) \in 1..n /\ g[s \ {Max(s)}] \in T
        BY <3>1, MaxInside
      <4>2. QED
        BY <2>2, <2>3, <3>1, <4>1 DEF Folds
    <3>2. QED
      BY <2>3, <3>1 DEF Folds
  <2>5. Eq(g)
    BY <2>3, <2>4
  <2>6. QED
    BY <2>5
<1>3. Eq(iter)
  <2> HIDE DEF Eq
  <2>1. QED
    BY <1>2
<1> HIDE DEF iter
<1> DEFINE h == [i \in 0..n |-> iter[1..i]]
<1>4. h[0] = <<>> /\ h[n] = iter[1..n]
  BY <1>3, SMTT(30)
<1>5. ASSUME NEW i \in 1..n PROVE h[i] = Keep(seq[i], h[i - 1])
  <2>1. \A s \in SUBSET (1..n) :
          iter[s] = IF s = {} THEN <<>> ELSE Keep(seq[Max(s)], iter[s \ {Max(s)}])
    BY <1>3
  <2>2. iter[1..i] = Keep(seq[i], iter[1..(i - 1)])
    BY <2>1, PrefixSteps
  <2>3. i \in 0..n /\ i - 1 \in 0..n
    OBVIOUS
  <2>4. QED
    BY <2>2, <2>3
<1> HIDE DEF h
<1>6. QED
  BY <1>1, <1>4, <1>5


\* OSV names every advisory of every package it is asked about.
LEMMA OsvFindsAll ==
  ASSUME NEW seq, NEW n \in Nat, DOMAIN seq = 1..n, NEW asked,
         \A i \in 1..n : IsFiniteSet(Hits(seq[i], asked))
  PROVE  /\ OsvFindings(seq, asked) \in Seq(UNION {Hits(seq[i], asked) : i \in 1..n})
         /\ \A i \in 1..n : Hits(seq[i], asked) \subseteq ToSet(OsvFindings(seq, asked))
<1> DEFINE V == UNION {Hits(seq[i], asked) : i \in 1..n}
<1>1. PICK h : /\ h[0] = <<>> /\ OsvFindings(seq, asked) = h[n]
               /\ \A i \in 1..n : h[i] = Ask(seq[i], h[i - 1], asked)
  BY OsvSteps
<1> DEFINE good == {k \in 0..n : /\ h[k] \in Seq(V)
                                 /\ \A i \in 1..k : Hits(seq[i], asked) \subseteq ToSet(h[k])}
<1>2. 0 \in good
  <2>1. h[0] \in Seq(V)
    BY <1>1, EmptySeq
  <2> HIDE DEF V
  <2>2. 0 \in 0..n /\ \A i \in 1..0 : FALSE
    OBVIOUS
  <2>3. QED
    BY <2>1, <2>2
<1>3. ASSUME NEW k \in 1..n, k - 1 \in good PROVE k \in good
  <2>1. h[k - 1] \in Seq(V) /\ \A i \in 1..(k - 1) : Hits(seq[i], asked) \subseteq ToSet(h[k - 1])
    BY <1>3
  <2>2. h[k] = h[k - 1] \o SetToSeq(Hits(seq[k], asked))
    BY <1>1 DEF Ask
  <2>3. SetToSeq(Hits(seq[k], asked)) \in Seq(V) /\ ToSet(SetToSeq(Hits(seq[k], asked))) = Hits(seq[k], asked)
    BY ListOf, SeqMonotonic
  <2> HIDE DEF V
  <2>4. h[k] \in Seq(V) /\ ToSet(h[k]) = ToSet(h[k - 1]) \cup Hits(seq[k], asked)
    BY <2>1, <2>2, <2>3, JoinedHas
  <2>5. \A i \in 1..k : i = k \/ i \in 1..(k - 1)
    OBVIOUS
  <2>6. QED
    BY <2>1, <2>4, <2>5
<1>4. n \in good
  <2> HIDE DEF good
  <2>1. QED
    BY <1>2, <1>3, CountUp
<1>5. QED
  BY <1>1, <1>4

PackageIn(f, kept) == \E j \in DOMAIN kept : kept[j].package = f.package

\* Each package that was found is in the report.
LEMMA UniqueNamesAll ==
  ASSUME NEW V, NEW seq \in Seq(V)
  PROVE  \A f \in ToSet(seq) : \E k \in ToSet(Unique(seq)) : k.package = f.package
<1> DEFINE n == Len(seq)
<1>1. n \in Nat /\ DOMAIN seq = 1..n
  BY LenProperties
<1> HIDE DEF n
<1>2. PICK h : /\ h[0] = <<>> /\ Unique(seq) = h[n]
               /\ \A i \in 1..n : h[i] = Keep(seq[i], h[i - 1])
  BY <1>1, UniqueSteps
<1> DEFINE W == {seq[i] : i \in 1..n}
           good == {k \in 0..n : h[k] \in Seq(W) /\ \A i \in 1..k : PackageIn(seq[i], h[k])}
<1>3. 0 \in good
  <2>1. h[0] \in Seq(W)
    BY <1>2, EmptySeq
  <2> HIDE DEF W
  <2>2. 0 \in 0..n /\ \A i \in 1..0 : FALSE
    BY <1>1
  <2>3. QED
    BY <2>1, <2>2
<1>4. ASSUME NEW k \in 1..n, k - 1 \in good PROVE k \in good
  <2>1. h[k - 1] \in Seq(W) /\ \A i \in 1..(k - 1) : PackageIn(seq[i], h[k - 1])
    BY <1>4
  <2>2. h[k] = Keep(seq[k], h[k - 1]) /\ seq[k] \in W
    BY <1>2
  <2>3. \A i \in 1..k : i = k \/ i \in 1..(k - 1)
    OBVIOUS
  <2>4. CASE \E j \in DOMAIN h[k - 1] :
               h[k - 1][j].package = seq[k].package /\ h[k - 1][j].advisory = seq[k].advisory
    <3>1. h[k] = h[k - 1]
      BY <2>2, <2>4 DEF Keep
    <3>2. PackageIn(seq[k], h[k])
      BY <2>4, <3>1 DEF PackageIn
    <3> HIDE DEF W
    <3>3. QED
      BY <2>1, <2>3, <3>1, <3>2
  <2>5. CASE ~\E j \in DOMAIN h[k - 1] :
               h[k - 1][j].package = seq[k].package /\ h[k - 1][j].advisory = seq[k].advisory
    <3>1. h[k] = Append(h[k - 1], seq[k])
      BY <2>2, <2>5 DEF Keep
    <3> DEFINE m == Len(h[k - 1])
    <3>2. m \in Nat /\ DOMAIN h[k - 1] = 1..m
      BY <2>1, LenProperties
    <3>3. /\ h[k] \in Seq(W) /\ DOMAIN h[k] = 1..(m + 1) /\ h[k][m + 1] = seq[k]
          /\ \A j \in 1..m : h[k][j] = h[k - 1][j]
      <4> HIDE DEF W
      <4>1. QED
        BY <2>1, <2>2, <3>1, AppendProperties
    <3> HIDE DEF m
    <3> HIDE DEF W
    <3>4. PackageIn(seq[k], h[k])
      BY <3>2, <3>3 DEF PackageIn
    <3>5. \A i \in 1..(k - 1) : PackageIn(seq[i], h[k])
      <4> SUFFICES ASSUME NEW i \in 1..(k - 1) PROVE PackageIn(seq[i], h[k])
        OBVIOUS
      <4>1. PICK j \in 1..m : h[k - 1][j].package = seq[i].package
        BY <2>1, <3>2 DEF PackageIn
      <4>2. j \in 1..(m + 1) /\ h[k][j] = h[k - 1][j]
        BY <3>2, <3>3
      <4>3. QED
        BY <3>3, <4>1, <4>2 DEF PackageIn
    <3>6. QED
      BY <2>3, <3>3, <3>4, <3>5
  <2>6. QED
    BY <2>4, <2>5
<1>5. n \in good
  <2> HIDE DEF good
  <2>1. QED
    BY <1>1, <1>3, <1>4, CountUp
<1>6. QED
  BY <1>1, <1>2, <1>5 DEF ToSet, PackageIn

\* The components of a tree, and what its lock files install, are finite.
NpmInstalled(lock) == {[name |-> <<Last(x.path)>>, eco |-> "npm", version |-> x.version] : x \in lock.paths}

LEMMA PythonIsFinite ==
  ASSUME NEW src \in Sources PROVE IsFiniteSet(PythonComponents(src.python))
<1> DEFINE python == src.python
           S == PythonClosure(python)
           f == [x \in S |-> [name |-> <<x>>, eco |-> "pypi",
                    version |-> IF x \in DOMAIN python.installed THEN python.installed[x] ELSE "1.0.0"]]
<1>1. IsFiniteSet(DOMAIN python.requires)
  BY SourcesAssumption
<1>2. S \subseteq DOMAIN python.requires
  BY DEF PythonClosure
<1>3. IsFiniteSet(S)
  BY <1>1, <1>2, FS_Subset
<1>4. PythonComponents(python) = {f[x] : x \in S}
  BY DEF PythonComponents
<1> HIDE DEF S
<1>5. DOMAIN f = S
  OBVIOUS
<1> HIDE DEF f
<1>6. QED
  BY <1>3, <1>4, <1>5, FiniteImage

LEMMA LockIsFinite ==
  ASSUME NEW src \in Sources, NEW lock \in {src.backend, src.frontend}
  PROVE  IsFiniteSet(NpmComponents(lock)) /\ (lock.exists => IsFiniteSet(NpmInstalled(lock)))
<1>1. CASE lock.exists
  <2> DEFINE S == lock.paths
             f == [x \in S |-> [name |-> x.path, eco |-> "npm", version |-> x.version]]
             g == [x \in S |-> [name |-> <<Last(x.path)>>, eco |-> "npm", version |-> x.version]]
  <2>1. IsFiniteSet(S)
    BY <1>1, SourcesAssumption
  <2>2. NpmComponents(lock) = {f[x] : x \in S} /\ DOMAIN f = S
    BY <1>1 DEF NpmComponents
  <2>3. NpmInstalled(lock) = {g[x] : x \in S} /\ DOMAIN g = S
    BY DEF NpmInstalled
  <2> HIDE DEF S, f, g
  <2>4. QED
    BY <2>1, <2>2, <2>3, FiniteImage
<1>2. CASE ~lock.exists
  BY <1>2, FS_EmptySet DEF NpmComponents
<1>3. QED
  BY <1>1, <1>2

LEMMA TreeIsFinite ==
  ASSUME NEW src \in Sources PROVE IsFiniteSet(BuildCyclonedx(src))
<1> DEFINE names == {"ecdat-scanners", "ecdat-backend", "ecdat-frontend"}
           f == [n \in names |-> [name |-> <<n>>, eco |-> "generic", version |-> "1.0.0"]]
<1>1. IsFiniteSet(names)
  <2>1. IsFiniteSet({"ecdat-scanners"}) /\ IsFiniteSet({"ecdat-backend"}) /\ IsFiniteSet({"ecdat-frontend"})
    BY FS_Singleton
  <2>2. IsFiniteSet({"ecdat-scanners"} \cup {"ecdat-backend"})
    BY <2>1, FS_Union
  <2>3. IsFiniteSet(({"ecdat-scanners"} \cup {"ecdat-backend"}) \cup {"ecdat-frontend"})
    BY <2>1, <2>2, FS_Union
  <2>4. names = ({"ecdat-scanners"} \cup {"ecdat-backend"}) \cup {"ecdat-frontend"}
    OBVIOUS
  <2>5. QED
    BY <2>3, <2>4
<1>2. Assemblies = {f[n] : n \in names} /\ DOMAIN f = names
  BY DEF Assemblies
<1> HIDE DEF names, f
<1>3. IsFiniteSet(Assemblies)
  BY <1>1, <1>2, FiniteImage
<1>4. /\ IsFiniteSet(PythonComponents(src.python))
      /\ IsFiniteSet(NpmComponents(src.backend)) /\ IsFiniteSet(NpmComponents(src.frontend))
  BY PythonIsFinite, LockIsFinite
<1>5. QED
  BY <1>3, <1>4, FS_Union DEF BuildCyclonedx

LEMMA HitsAreFinite ==
  ASSUME NEW asked \in SUBSET Advisories, NEW q PROVE IsFiniteSet(Hits(q, asked))
<1> DEFINE S == Affected(q, asked)
           f == [a \in S |-> VulnFinding(q, a, ExtractSeverity(a))]
<1>1. IsFiniteSet(S)
  BY SourcesAssumption, FS_Subset DEF Affected
<1>2. Hits(q, asked) = {f[a] : a \in S} /\ DOMAIN f = S
  BY DEF Hits
<1> HIDE DEF S, f
<1>3. QED
  BY <1>1, <1>2, FiniteImage

\* A successful query went through in all its chunks, and a successful audit found its lock file.
LEMMA BatchWentThrough ==
  ASSUME NEW queries, NEW osv \in [Chunks(queries) -> OsvAnswers], NEW asked, Len(queries) \in Nat,
         QueryOsvBatch(queries, osv, asked).problem \notin {"unavailable", "error"}
  PROVE  QueryOsvBatch(queries, osv, asked) = Answered(OsvFindings(queries, asked))
<1> DEFINE failed == {i \in Chunks(queries) : osv[i] # "ok"}
<1>1. failed = {}
  <2> SUFFICES ASSUME NEW i \in failed PROVE FALSE
    OBVIOUS
  <2>1. Chunks(queries) \subseteq Nat
    BY ChunkSizeAssumption DEF Chunks
  <2>2. failed \subseteq Nat
    BY <2>1
  <2> DEFINE first == CHOOSE k \in failed : \A j \in failed : k <= j
  <2>3. first \in failed
    <3> HIDE DEF failed
    <3>1. \E k \in failed : \A j \in failed : k <= j
      BY <2>2, LeastOfSome
    <3>2. QED
      BY <3>1
  <2>4. osv[first] \in {"unavailable", "error"}
    <3> HIDE DEF first
    <3>1. QED
      BY <2>3 DEF OsvAnswers
  <2>5. failed # {} /\ QueryOsvBatch(queries, osv, asked) = Failed(osv[first])
    <3>1. failed # {}
      OBVIOUS
    <3>2. QED
      BY <3>1, Zenon DEF QueryOsvBatch
  <2> HIDE DEF first, failed
  <2>6. QueryOsvBatch(queries, osv, asked).problem = osv[first]
    BY <2>5 DEF Failed
  <2>7. QED
    BY <2>4, <2>6
<1>2. QED
  BY <1>1, Zenon DEF QueryOsvBatch

Audited(lock, asked) == {AuditEntry(c, Affected(c, asked)) :
                           c \in {c \in NpmInstalled(lock) : Affected(c, asked) # {}}}

LEMMA AuditWentThrough ==
  ASSUME NEW lock, NEW npm, NEW asked,
         RunNpmAudit(lock, npm, asked).problem \notin {"invalid", "unavailable", "error"}
  PROVE  lock.exists /\ RunNpmAudit(lock, npm, asked) = Answered(SetToSeq(Audited(lock, asked)))
<1>1. Failed("invalid").problem = "invalid" /\ Failed("unavailable").problem = "unavailable"
      /\ Failed("error").problem = "error"
  BY DEF Failed
<1>2. lock.exists /\ lock.parses
  BY <1>1, Zenon DEF RunNpmAudit
<1>3. npm \notin NpmUnavailable
  BY <1>1, <1>2, Zenon DEF RunNpmAudit
<1>4. npm = "ok"
  BY <1>1, <1>2, <1>3, Zenon DEF RunNpmAudit
<1>5. QED
  BY <1>2, <1>3, <1>4, Zenon DEF RunNpmAudit, Audited, NpmInstalled

\* A list is a list of what it has.
LEMMA ListsTheirOwn ==
  ASSUME NEW V, NEW s \in Seq(V) PROVE s \in Seq(ToSet(s))
<1>1. Len(s) \in Nat /\ s \in [1..Len(s) -> V] /\ DOMAIN s = 1..Len(s)
  BY LenProperties
<1>2. s \in [1..Len(s) -> ToSet(s)]
  BY <1>1 DEF ToSet
<1>3. QED
  BY <1>1, <1>2

InstalledIn(src) ==
  {c \in PythonComponents(src.python) : Last(c.name) \in DOMAIN src.python.installed} \cup
  UNION {NpmInstalled(l) : l \in {l \in {src.backend, src.frontend} : l.exists}}

NamedIn(c, listed) == \E f \in ToSet(listed) : f.package = c.name

\* The scan asks OSV about every package of Python that is installed.
LEMMA InstalledIsAsked ==
  ASSUME NEW src \in Sources,
         NEW c \in PythonComponents(src.python), Last(c.name) \in DOMAIN src.python.installed
  PROVE  c \in BuildCyclonedx(src) /\ Resolvable(c)
<1>1. PICK x \in PythonClosure(src.python) :
        c = [name |-> <<x>>, eco |-> "pypi",
             version |-> IF x \in DOMAIN src.python.installed THEN src.python.installed[x] ELSE "1.0.0"]
  BY DEF PythonComponents
<1>2. c.name = <<x>> /\ c.eco = "pypi"
  BY <1>1
<1>3. Last(c.name) = x
  BY <1>2 DEF Last
<1>4. c.version = src.python.installed[x] /\ c.version # Unversioned
  BY <1>1, <1>3, SourcesAssumption
<1>5. QED
  BY <1>2, <1>4 DEF Resolvable, BuildCyclonedx

LEMMA PythonIsNamed ==
  ASSUME NEW src \in Sources, NEW asked \in SUBSET Advisories, NEW sbom, sbom.exists,
         sbom.parses => sbom.components = BuildCyclonedx(src),
         NEW osv \in [Chunks(Queries(sbom.components)) -> OsvAnswers],
         ScanPython(sbom, src, osv, asked).problem \notin {"invalid", "unavailable", "error"}
  PROVE  LET listed == ScanPython(sbom, src, osv, asked).findings
         IN  /\ listed \in Seq(ToSet(listed))
             /\ \A c \in PythonComponents(src.python) :
                  Last(c.name) \in DOMAIN src.python.installed /\ Affected(c, asked) # {} => NamedIn(c, listed)
<1> DEFINE queries == Queries(sbom.components)
           asking == {c \in BuildCyclonedx(src) : Resolvable(c)}
           scan == ScanPython(sbom, src, osv, asked)
<1>1. Failed("invalid").problem = "invalid"
  BY DEF Failed
<1>2. sbom.parses /\ scan = QueryOsvBatch(queries, osv, asked)
  BY <1>1, Zenon DEF ScanPython, ScanSbomFile
<1>3. queries \in Seq(asking) /\ ToSet(queries) = asking
  <2>1. queries = SetToSeq(asking)
    BY <1>2, Zenon DEF Queries
  <2>2. IsFiniteSet(asking)
    BY TreeIsFinite, FS_Subset
  <2>3. QED
    BY <2>1, <2>2, ListOf
<1>4. Len(queries) \in Nat /\ DOMAIN queries = 1..Len(queries)
  BY <1>3, LenProperties
<1>5. scan = Answered(OsvFindings(queries, asked))
  BY <1>2, <1>4, BatchWentThrough
<1>6. scan.findings = OsvFindings(queries, asked)
  BY <1>5 DEF Answered
<1> HIDE DEF queries, asking, scan
<1> DEFINE listed == OsvFindings(queries, asked)
<1>7. /\ listed \in Seq(UNION {Hits(queries[i], asked) : i \in 1..Len(queries)})
      /\ \A i \in 1..Len(queries) : Hits(queries[i], asked) \subseteq ToSet(listed)
  BY <1>4, HitsAreFinite, OsvFindsAll
<1> HIDE DEF listed
<1>8. listed \in Seq(ToSet(listed))
  BY <1>7, ListsTheirOwn
<1>9. ASSUME NEW c \in PythonComponents(src.python), Last(c.name) \in DOMAIN src.python.installed,
             Affected(c, asked) # {}
      PROVE  NamedIn(c, listed)
  <2>1. c \in asking
    BY <1>9, InstalledIsAsked DEF asking
  <2>2. PICK i \in 1..Len(queries) : queries[i] = c
    BY <1>3, <1>4, <2>1 DEF ToSet
  <2>3. PICK a \in Affected(c, asked) : TRUE
    BY <1>9
  <2> DEFINE f == VulnFinding(c, a, ExtractSeverity(a))
  <2>4. f \in Hits(c, asked) /\ f.package = c.name
    BY DEF Hits, VulnFinding
  <2> HIDE DEF f
  <2>5. QED
    BY <1>7, <2>2, <2>4 DEF NamedIn
<1>10. QED
  BY <1>6, <1>8, <1>9 DEF scan, listed

LEMMA LockIsNamed ==
  ASSUME NEW src \in Sources, NEW lock \in {src.backend, src.frontend}, NEW npm, NEW asked,
         RunNpmAudit(lock, npm, asked).problem \notin {"invalid", "unavailable", "error"}
  PROVE  LET listed == RunNpmAudit(lock, npm, asked).findings
         IN  /\ listed \in Seq(ToSet(listed))
             /\ \A c \in NpmInstalled(lock) : Affected(c, asked) # {} => NamedIn(c, listed)
<1> DEFINE hit == {c \in NpmInstalled(lock) : Affected(c, asked) # {}}
           f == [c \in hit |-> AuditEntry(c, Affected(c, asked))]
           listed == SetToSeq(Audited(lock, asked))
<1>1. lock.exists /\ RunNpmAudit(lock, npm, asked).findings = listed
  BY AuditWentThrough DEF Answered
<1>2. IsFiniteSet(Audited(lock, asked))
  <2>1. IsFiniteSet(hit)
    BY <1>1, LockIsFinite, FS_Subset
  <2>2. Audited(lock, asked) = {f[c] : c \in hit} /\ DOMAIN f = hit
    BY DEF Audited
  <2> HIDE DEF hit, f
  <2>3. QED
    BY <2>1, <2>2, FiniteImage
<1>3. listed \in Seq(Audited(lock, asked)) /\ ToSet(listed) = Audited(lock, asked)
  BY <1>2, ListOf
<1> HIDE DEF listed
<1>4. ASSUME NEW c \in NpmInstalled(lock), Affected(c, asked) # {} PROVE NamedIn(c, listed)
  <2>1. AuditEntry(c, Affected(c, asked)) \in ToSet(listed)
    BY <1>3, <1>4 DEF Audited
  <2>2. AuditEntry(c, Affected(c, asked)).package = c.name
    BY DEF AuditEntry, VulnFinding
  <2>3. QED
    BY <2>1, <2>2 DEF NamedIn
<1>5. QED
  BY <1>1, <1>3, <1>4

\* A successful scan names every installed package it knew an advisory for.
LEMMA ScanNamesAll ==
  ASSUME NEW src \in Sources, NEW asked \in SUBSET Advisories, NEW sbom, sbom.exists,
         sbom.parses => sbom.components = BuildCyclonedx(src),
         NEW osv \in [Chunks(Queries(sbom.components)) -> OsvAnswers], NEW audits,
         Successful(Scan(sbom, src, osv, audits, asked)),
         NEW c \in InstalledIn(src), Affected(c, asked) # {}
  PROVE  \E f \in Scan(sbom, src, osv, audits, asked).findings : f.package = c.name
<1> DEFINE p == ScanPython(sbom, src, osv, asked)
           b == RunNpmAudit(src.backend, audits["backend"], asked)
           e == RunNpmAudit(src.frontend, audits["frontend"], asked)
           problems == {p.problem, b.problem, e.problem}
           all == p.findings \o b.findings \o e.findings
<1>1. Scan(sbom, src, osv, audits, asked) = Report(p, b, e)
  BY DEF Scan
<1>2. Report(p, b, e) = [status |-> ScanStatus(problems, Unique(all)), findings |-> ToSet(Unique(all))]
  BY DEF Report
<1> HIDE DEF p, b, e, problems, all
<1>3. /\ Scan(sbom, src, osv, audits, asked).status = ScanStatus(problems, Unique(all))
      /\ Scan(sbom, src, osv, audits, asked).findings = ToSet(Unique(all))
  BY <1>1, <1>2
<1>4. \A x \in {p.problem, b.problem, e.problem} : x \notin {"invalid", "unavailable", "error"}
  <2>1. ScanStatus(problems, Unique(all)) \in {"CLEAN", "VULNERABLE"}
    BY <1>3 DEF Successful
  <2>2. "invalid" \notin problems /\ "unavailable" \notin problems /\ "error" \notin problems
    BY <2>1 DEF ScanStatus
  <2>3. QED
    BY <2>2 DEF problems
<1>5. /\ p.findings \in Seq(ToSet(p.findings))
      /\ \A x \in PythonComponents(src.python) :
           Last(x.name) \in DOMAIN src.python.installed /\ Affected(x, asked) # {} => NamedIn(x, p.findings)
  BY <1>4, PythonIsNamed DEF p
<1>6. /\ b.findings \in Seq(ToSet(b.findings)) /\ e.findings \in Seq(ToSet(e.findings))
      /\ \A x \in NpmInstalled(src.backend) : Affected(x, asked) # {} => NamedIn(x, b.findings)
      /\ \A x \in NpmInstalled(src.frontend) : Affected(x, asked) # {} => NamedIn(x, e.findings)
  BY <1>4, LockIsNamed DEF b, e
<1> DEFINE V == ToSet(p.findings) \cup ToSet(b.findings) \cup ToSet(e.findings)
<1>7. /\ all \in Seq(V)
      /\ ToSet(all) = V
  <2>1. p.findings \in Seq(V) /\ b.findings \in Seq(V) /\ e.findings \in Seq(V)
    BY <1>5, <1>6, SeqMonotonic
  <2> HIDE DEF V
  <2> DEFINE both == p.findings \o b.findings
  <2>2. both \in Seq(V) /\ ToSet(both) = ToSet(p.findings) \cup ToSet(b.findings)
    BY <2>1, JoinedHas
  <2>3. all = both \o e.findings
    BY DEF all
  <2> HIDE DEF both
  <2>4. all \in Seq(V) /\ ToSet(all) = ToSet(both) \cup ToSet(e.findings)
    BY <2>1, <2>2, <2>3, JoinedHas
  <2>5. QED
    BY <2>2, <2>4 DEF V
<1>8. NamedIn(c, p.findings) \/ NamedIn(c, b.findings) \/ NamedIn(c, e.findings)
  <2>1. \/ c \in PythonComponents(src.python) /\ Last(c.name) \in DOMAIN src.python.installed
        \/ c \in NpmInstalled(src.backend) \/ c \in NpmInstalled(src.frontend)
    BY DEF InstalledIn
  <2>2. QED
    BY <1>5, <1>6, <2>1
<1>9. \E f \in ToSet(all) : f.package = c.name
  BY <1>7, <1>8 DEF NamedIn
<1> HIDE DEF V
<1>10. QED
  BY <1>3, <1>7, <1>9, UniqueNamesAll

\* From its second step to the end of a run the SBOM is there, and as long as it parses it is
\* the one of the tree that was checked out.
SbomIsFresh ==
  /\ stage \notin {"sbom", "publish", "published"} => Present("cdx")
  /\ Present("cdx") /\ artifacts["cdx"].parses => artifacts["cdx"].body = BuildCyclonedx(source)

ReportInv == SbomIsFresh /\ AffectedPackageIsReported

LEMMA ReportStays ==
  ASSUME AffectedPackageIsReported, source' = source, artifacts'["report"] = artifacts["report"]
  PROVE  AffectedPackageIsReported'
<1>1. Installed' = Installed
  BY DEF Installed
<1>2. Present("report")' = Present("report")
  BY DEF Present
<1>3. QED
  BY <1>1, <1>2 DEF AffectedPackageIsReported

LEMMA SbomStays ==
  ASSUME SbomIsFresh, source' = source, artifacts'["cdx"] = artifacts["cdx"],
         stage \in {"sbom", "publish", "published"} => stage' \in {"sbom", "publish", "published"}
  PROVE  SbomIsFresh'
BY DEF SbomIsFresh, Present

\* A step that leaves the SBOM and the report as they are.
LEMMA OthersStay ==
  ASSUME VouchInv, ReportInv, source' = source,
         \/ artifacts' = artifacts
         \/ \E name \in Artifacts \ {"cdx", "report"} : \E body : artifacts' = Written(name, body),
         stage \in {"sbom", "publish", "published"} => stage' \in {"sbom", "publish", "published"}
  PROVE  ReportInv'
<1>1. {"cdx", "report"} \subseteq Artifacts /\ AreFiles(artifacts)
  BY DEF Artifacts, Collected, VouchInv, ReleaseShape
<1>2. artifacts'["cdx"] = artifacts["cdx"] /\ artifacts'["report"] = artifacts["report"]
  <2>1. CASE artifacts' = artifacts
    BY <2>1
  <2>2. CASE \E name \in Artifacts \ {"cdx", "report"} : \E body : artifacts' = Written(name, body)
    <3>1. PICK name \in Artifacts \ {"cdx", "report"} : \E body : artifacts' = Written(name, body)
      BY <2>2
    <3>2. PICK body : artifacts' = Written(name, body)
      BY <3>1
    <3>3. Updates(artifacts', artifacts, name, File(name, body))
      BY <1>1, <3>2, WrittenIs
    <3>4. QED
      BY <1>1, <3>3 DEF Updates
  <2>3. QED
    BY <2>1, <2>2
<1>3. QED
  BY <1>2, ReportStays, SbomStays DEF ReportInv

\* A report just written is one of a scan of the SBOM there is.
LEMMA ReportIsWritten ==
  ASSUME VouchInv, ReportInv, source' = source, stage \notin {"sbom", "publish", "published"},
         NEW made \in ScanReports(Sbom), artifacts' = Written("report", made)
  PROVE  ReportInv'
<1>1. {"cdx", "report"} \subseteq Artifacts /\ AreFiles(artifacts) /\ source \in Sources /\ known \in SUBSET Advisories
  BY DEF Artifacts, Collected, VouchInv, ReleaseShape, RunShape
<1>2. Updates(artifacts', artifacts, "report", File("report", made))
  BY <1>1, WrittenIs
<1>3. artifacts'["report"].body = made /\ artifacts'["cdx"] = artifacts["cdx"]
  BY <1>1, <1>2, FileIs DEF Updates
<1>4. SbomIsFresh'
  BY <1>3, SbomStays DEF ReportInv
<1>5. PICK osv \in [Chunks(Queries(Sbom.components)) -> OsvAnswers], audits \in NpmAudits :
        made = [result |-> Scan(Sbom, source, osv, audits, known), asked |-> known]
  BY DEF ScanReports
<1>6. made.result = Scan(Sbom, source, osv, audits, known) /\ made.asked = known
  BY <1>5
<1>7. Sbom.exists /\ (Sbom.parses => Sbom.components = BuildCyclonedx(source))
  <2>1. Present("cdx") /\ (artifacts["cdx"].parses => artifacts["cdx"].body = BuildCyclonedx(source))
    BY DEF ReportInv, SbomIsFresh
  <2>2. /\ Sbom.exists = Present("cdx")
        /\ Sbom.parses = (Present("cdx") /\ artifacts["cdx"].parses)
        /\ Sbom.components = IF Present("cdx") /\ artifacts["cdx"].parses THEN artifacts["cdx"].body ELSE {}
    BY Zenon DEF Sbom
  <2>3. QED
    BY <2>1, <2>2, Zenon
<1>8. Installed' = InstalledIn(source)
  BY DEF Installed, InstalledIn, NpmInstalled
<1>9. ASSUME Successful(made.result), NEW c \in InstalledIn(source), Affected(c, made.asked) # {}
      PROVE  \E f \in made.result.findings : f.package = c.name
  BY <1>1, <1>5, <1>6, <1>7, <1>9, ScanNamesAll
<1>10. AffectedPackageIsReported'
  BY <1>3, <1>8, <1>9 DEF AffectedPackageIsReported
<1>11. QED
  BY <1>4, <1>10 DEF ReportInv

LEMMA TornParses == \A name, body : Torn(name, body).exists = TRUE /\ Torn(name, body).parses = FALSE
BY DEF Torn

LEMMA ReportInvHolds == ReleaseSpec => []ReportInv
<1> USE DEF Proceed, Stop
<1>1. ReleaseInit => ReportInv
  <2>1. ReleaseInit => ~Present("cdx") /\ ~Present("report") /\ stage = "sbom"
    BY DEF ReleaseInit, Present, NotThere, Artifacts, Collected
  <2>2. QED
    BY <2>1 DEF ReportInv, SbomIsFresh, AffectedPackageIsReported
<1>2. VouchInv /\ ReportInv /\ [ReleaseNext]_releaseVars => ReportInv'
  <2> SUFFICES ASSUME VouchInv, ReportInv, [ReleaseNext]_releaseVars PROVE ReportInv'
    OBVIOUS
  <2>1. source' = source
    BY DEF ReleaseNext, releaseVars, givens, GenerateSbom, GenerateSpdx, ScanVulnerabilities, GenerateProvenance,
       WriteManifest, SignManifest, Verify, Cosign, CheckVulnerabilityGate, CheckSecretsGate,
       CheckSecurityTestsGate, CheckArtifactIntegrityGate, CheckSilentScannerCrashGate, CheckRequiredSbomGate,
       GenerateReport, RunSuites, RunMoreSuites, CheckDependencyScan, CheckSecretScan, CheckSbomGeneration,
       Attest, Catalogue, CheckProvenance, RunQualification, Cancel, Publish, ReleaseTick, Announce, Damage,
       Check, FinalCheck
  <2>2. {"cdx", "report", "spdx", "provenance", "certificate", "sums", "signature", "gateReport", "finalReport"}
          \subseteq Artifacts /\ AreFiles(artifacts)
    BY DEF Artifacts, Collected, GateReports, VouchInv, ReleaseShape
  <2>3. CASE GenerateSbom
    <3>1. stage = "sbom"
      BY <2>3 DEF GenerateSbom
    <3>2. CASE SbomFails
      BY <2>1, <2>3, <3>2, OthersStay DEF GenerateSbom
    <3>3. CASE ~SbomFails
      <4>1. artifacts' = Written("cdx", BuildCyclonedx(source))
        BY <2>3, <3>3 DEF GenerateSbom
      <4>2. Updates(artifacts', artifacts, "cdx", File("cdx", BuildCyclonedx(source)))
        BY <2>2, <4>1, WrittenIs
      <4>3. /\ artifacts'["cdx"].exists /\ artifacts'["cdx"].body = BuildCyclonedx(source)
            /\ artifacts'["report"] = artifacts["report"]
        BY <2>2, <4>2, FileIs DEF Updates
      <4>4. BuildCyclonedx(source)' = BuildCyclonedx(source)
        BY <2>1
      <4>5. SbomIsFresh'
        BY <2>1, <4>3, <4>4 DEF SbomIsFresh, Present
      <4>6. QED
        BY <2>1, <4>3, <4>5, ReportStays DEF ReportInv
    <3>4. QED
      BY <3>2, <3>3
  <2>4. CASE ScanVulnerabilities
    BY <2>1, <2>4, ReportIsWritten DEF ScanVulnerabilities
  <2>5. CASE CheckDependencyScan
    <3>1. stage = "dependencies"
      BY <2>5 DEF CheckDependencyScan
    <3>2. CASE \E r \in ScanReports(Sbom) : artifacts' = Written("report", r)
      BY <2>1, <3>1, <3>2, ReportIsWritten
    <3>3. CASE artifacts' = artifacts
      BY <2>1, <3>1, <3>3, OthersStay
    <3>4. CASE artifacts' = [artifacts EXCEPT !["report"] = Torn("report", "half written")]
      <4>1. Updates(artifacts', artifacts, "report", Torn("report", "half written"))
        BY <2>2, <3>4, TornIs, UpdatedIs
      <4>2. artifacts'["report"].parses = FALSE /\ artifacts'["cdx"] = artifacts["cdx"]
        BY <2>2, <4>1, TornParses DEF Updates
      <4>3. SbomIsFresh' /\ AffectedPackageIsReported'
        BY <2>1, <3>1, <4>2, SbomStays DEF ReportInv, AffectedPackageIsReported
      <4>4. QED
        BY <4>3 DEF ReportInv
    <3>5. QED
      BY <2>5, <3>2, <3>3, <3>4, Zenon DEF CheckDependencyScan
  <2>6. CASE CheckSbomGeneration
    <3>1. stage = "regenerate"
      BY <2>6 DEF CheckSbomGeneration
    <3>2. CASE artifacts' = artifacts
      BY <2>1, <3>1, <3>2, OthersStay
    <3>3. CASE artifacts' = GenerateSboms(BuildCyclonedx(source), BuildSpdx(source))
      <4> DEFINE once == [artifacts EXCEPT !["cdx"] = File("cdx", BuildCyclonedx(source))]
      <4>1. Updates(once, artifacts, "cdx", File("cdx", BuildCyclonedx(source)))
        BY <2>2, FileIs, UpdatedIs
      <4>2. artifacts' = [once EXCEPT !["spdx"] = File("spdx", BuildSpdx(source))]
        BY <3>3 DEF GenerateSboms
      <4> HIDE DEF once
      <4>3. AreFiles(once) /\ IsFile(File("spdx", BuildSpdx(source)))
        BY <2>2, <4>1, FileIs DEF Updates
      <4>4. Updates(artifacts', once, "spdx", File("spdx", BuildSpdx(source)))
        BY <2>2, <4>2, <4>3, UpdatedIs
      <4>5. /\ artifacts'["cdx"] = File("cdx", BuildCyclonedx(source))
            /\ artifacts'["report"] = artifacts["report"]
        BY <2>2, <4>1, <4>4 DEF Updates
      <4>6. artifacts'["cdx"].exists /\ artifacts'["cdx"].body = BuildCyclonedx(source)
        BY <2>2, <4>5, FileIs
      <4>7. BuildCyclonedx(source)' = BuildCyclonedx(source)
        BY <2>1
      <4>8. SbomIsFresh'
        BY <4>6, <4>7 DEF SbomIsFresh, Present
      <4>9. QED
        BY <2>1, <4>5, <4>8, ReportStays DEF ReportInv
    <3>4. QED
      BY <2>6, <3>2, <3>3, Zenon DEF CheckSbomGeneration
  <2>7. CASE Catalogue
    <3>1. stage = "catalogue" /\ stage' = "provenance check"
      BY <2>7 DEF Catalogue
    <3>2. artifacts'["cdx"] = artifacts["cdx"] /\ artifacts'["report"] = artifacts["report"]
      BY <2>2, <2>7 DEF Catalogue, AreFiles
    <3>3. QED
      BY <2>1, <3>1, <3>2, ReportStays, SbomStays DEF ReportInv
  <2>8. CASE \E n \in Collected \cup {"sums", "signature"} : Damage(n)
    <3>1. PICK n \in Collected \cup {"sums", "signature"} : Damage(n)
      BY <2>8
    <3>2. n \in Artifacts /\ Present(n) /\ stage' = stage
      BY <3>1 DEF Damage, Artifacts
    <3>3. Updates(artifacts', artifacts, n, Torn(n, artifacts[n].body))
      <4>1. artifacts' = [artifacts EXCEPT ![n] = Torn(n, artifacts[n].body)]
        BY <3>1 DEF Damage
      <4>2. QED
        BY <2>2, <3>2, <4>1, TornIs, UpdatedIs
    <3>4. artifacts'[n].exists = TRUE /\ artifacts'[n].parses = FALSE
      BY <3>3, TornParses, TornIs, <2>2, <3>2 DEF Updates
    <3>5. ASSUME NEW m \in Artifacts
          PROVE  \/ artifacts'[m] = artifacts[m]
                 \/ artifacts'[m].exists /\ ~artifacts'[m].parses
      <4>1. CASE m = n
        BY <3>4, <4>1, Zenon
      <4>2. CASE m # n
        BY <3>3, <4>2 DEF Updates
      <4>3. QED
        BY <4>1, <4>2
    <3>6. SbomIsFresh'
      <4>1. CASE artifacts'["cdx"] = artifacts["cdx"]
        BY <2>1, <3>2, <4>1, SbomStays DEF ReportInv
      <4>2. CASE artifacts'["cdx"].exists /\ ~artifacts'["cdx"].parses
        BY <4>2 DEF SbomIsFresh, Present
      <4>3. QED
        BY <2>2, <3>5, <4>1, <4>2
    <3>7. AffectedPackageIsReported'
      <4>1. CASE artifacts'["report"] = artifacts["report"]
        BY <2>1, <4>1, ReportStays DEF ReportInv
      <4>2. CASE ~artifacts'["report"].parses
        BY <4>2 DEF AffectedPackageIsReported
      <4>3. QED
        BY <2>2, <3>5, <4>1, <4>2
    <3>8. QED
      BY <3>6, <3>7 DEF ReportInv
  <2>9. CASE \/ GenerateSpdx \/ GenerateProvenance \/ WriteManifest \/ SignManifest \/ Cosign
             \/ GenerateReport \/ Attest \/ RunQualification
    <3>1. stage \notin {"sbom", "publish", "published"}
      BY <2>9 DEF GenerateSpdx, GenerateProvenance, WriteManifest, SignManifest, Cosign, GenerateReport, Attest,
         RunQualification
    <3>2. \/ artifacts' = artifacts
          \/ \E name \in Artifacts \ {"cdx", "report"} : \E body : artifacts' = Written(name, body)
      BY <2>2, <2>9 DEF GenerateSpdx, GenerateProvenance, WriteManifest, SignManifest, Cosign, GenerateReport,
         Attest, RunQualification
    <3>3. QED
      BY <2>1, <3>1, <3>2, OthersStay
  <2>10. CASE \/ Verify \/ CheckVulnerabilityGate \/ CheckSecretsGate \/ CheckSecurityTestsGate
              \/ CheckArtifactIntegrityGate \/ CheckSilentScannerCrashGate \/ CheckRequiredSbomGate
              \/ RunSuites \/ RunMoreSuites \/ CheckSecretScan \/ CheckProvenance
    <3>1. stage \notin {"sbom", "publish", "published"} /\ artifacts' = artifacts
      BY <2>10 DEF Verify, CheckVulnerabilityGate, CheckSecretsGate, CheckSecurityTestsGate,
         CheckArtifactIntegrityGate, CheckSilentScannerCrashGate, CheckRequiredSbomGate, RunSuites,
         RunMoreSuites, CheckSecretScan, CheckProvenance, Check
    <3>2. QED
      BY <2>1, <3>1, OthersStay
  <2>11. CASE Cancel \/ Publish \/ ReleaseTick \/ Announce \/ UNCHANGED releaseVars
    <3>1. artifacts' = artifacts /\ (stage' = stage \/ stage' \in {"publish", "published"})
      BY <2>11 DEF Cancel, Publish, ReleaseTick, Announce, releaseVars
    <3>2. QED
      BY <2>1, <3>1, OthersStay
  <2>12. QED
    BY <2>3, <2>4, <2>5, <2>6, <2>7, <2>8, <2>9, <2>10, <2>11, Zenon DEF ReleaseNext
<1>3. QED
  BY <1>1, <1>2, VouchInvHolds, PTL DEF ReleaseSpec

\* A scan that calls itself successful names every installed package for which an advisory
\* was known when it asked, however deep the package is nested, in however many requests
\* OSV was asked, and whichever of two findings of a package and an advisory stands for
\* both; and a report on disk is of such a scan until it is damaged (scan_vulnerabilities.py:
\* scan, query_osv_batch, run_npm_audit; final_quality_gate.py).
THEOREM AffectedAreReported == ReleaseSpec => []AffectedPackageIsReported
<1>1. ReportInv => AffectedPackageIsReported
  BY DEF ReportInv
<1>2. QED
  BY <1>1, ReportInvHolds, PTL

-----------------------------------------------------------------------------
(* The verdict of a CI run. *)

IsFinding(g) ==
  /\ g = [path |-> g.path, line |-> g.line, rule |-> g.rule, algorithm |-> g.algorithm,
          type |-> g.type, severity |-> g.severity, source |-> g.source, suppressed |-> g.suppressed]
  /\ g.suppressed \in BOOLEAN /\ g.severity \in Severities

CiShape ==
  /\ tree \in Trees
  /\ CiTypeOK
  /\ \A g \in findings : IsFinding(g)

\* Each match of a file is reported, or another one for it.
Looked(f) ==
  \A i \in AstFindings(f, Adapted) \cup RegexFindings(f) :
    \E j \in DOMAIN f.marks : SameKey(f.marks[i], f.marks[j]) /\ Reported(f, f.marks[j])

StillToLook == IF phase = "static" THEN todo ELSE {}

LookedSoFar == ~errors => \A f \in targets \ StillToLook : Looked(f)

\* What is silenced is silenced by a comment in its file.
SilencedByComment ==
  \A g \in findings : g.suppressed =>
    \E f \in tree.files : f.path = g.path /\ CheckInlineSuppression(f.comments, g)

Decided == result.exit \in {PASS, POLICY_SECURITY_FAILURE} /\ result.verdict # "exception"

CbomTells ==
  config.cbom => cbom.written /\ \A f \in findings : <<f.path, f.line, f.algorithm>> \in cbom.components

SarifTells ==
  config.sarif => /\ sarif.written
                  /\ \A f \in findings : \E r \in sarif.results :
                       r.path = f.path /\ r.line = f.line /\ r.rule = f.rule

ReportsTell ==
  /\ Decided => ~errors
  /\ phase \in {"sarif", "gate"} \/ Decided => errors \/ CbomTells
  /\ phase = "gate" \/ Decided => errors \/ SarifTells

\* A result of the report stands for a finding as it is.
SarifIsFounded ==
  sarif.written =>
    /\ phase \in {"gate", "done"}
    /\ \A r \in sarif.results :
         \E g \in findings : r.level = Level(g.severity) /\ (g.suppressed => r.suppressed)

PassedThreshold ==
  result.exit = PASS => /\ ~errors
                        /\ config.failOn \in {"critical", "high"} => \A g \in findings : ~Violating(g)

EarnedInv ==
  CiShape /\ LookedSoFar /\ SilencedByComment /\ ReportsTell /\ SarifIsFounded /\ PassedThreshold

LEMMA BeforeTheVerdict ==
  ASSUME CiShape, phase # "done"
  PROVE  result = NoResult /\ result.exit = -1 /\ ~Decided
<1>1. result = NoResult
  BY DEF CiShape, CiTypeOK
<1>2. result.exit = -1
  BY <1>1 DEF NoResult
<1>3. QED
  BY <1>1, <1>2 DEF Decided, PASS, POLICY_SECURITY_FAILURE

\* A finding as a detector made it, and with its silence settled.
Made(g, path, m, type) ==
  /\ IsFinding(g) /\ ~g.suppressed
  /\ [g EXCEPT !.suppressed = FALSE] = g
  /\ g.path = path /\ g.line = m.line /\ g.rule = m.rule /\ g.algorithm = m.algorithm
  /\ g.type = type /\ g.severity = m.severity

Settled(g, f, s) ==
  /\ IsFinding(g) /\ g.suppressed = s
  /\ [g EXCEPT !.suppressed = FALSE] = [f EXCEPT !.suppressed = FALSE]
  /\ g.path = f.path /\ g.line = f.line /\ g.rule = f.rule /\ g.algorithm = f.algorithm
  /\ g.type = f.type /\ g.severity = f.severity

LEMMA FindingIs ==
  ASSUME NEW path, NEW m, NEW type, m.severity \in Severities
  PROVE  Made(Finding(path, m, type), path, m, type)
<1> DEFINE g == Finding(path, m, type)
<1>1. /\ g.suppressed = FALSE /\ g.path = path /\ g.line = m.line /\ g.rule = m.rule
      /\ g.algorithm = m.algorithm /\ g.type = type /\ g.severity = m.severity /\ g.source = m.detector
  BY DEF Finding
<1>2. g = [path |-> g.path, line |-> g.line, rule |-> g.rule, algorithm |-> g.algorithm,
           type |-> g.type, severity |-> g.severity, source |-> g.source, suppressed |-> g.suppressed]
  BY <1>1, Zenon DEF Finding
<1> HIDE DEF g
<1>3. [g EXCEPT !.suppressed = g.suppressed] = g
  BY <1>2
<1>4. [g EXCEPT !.suppressed = FALSE] = g
  BY <1>1, <1>3, Zenon
<1>5. IsFinding(g)
  BY <1>1, <1>2, Zenon DEF IsFinding
<1>6. QED
  BY <1>1, <1>4, <1>5, Zenon DEF g, Made

LEMMA SettledIs ==
  ASSUME NEW f, IsFinding(f), NEW s \in BOOLEAN
  PROVE  Settled([f EXCEPT !.suppressed = s], f, s)
<1> DEFINE g == [f EXCEPT !.suppressed = s]
           no == FALSE
<1>1. f = [path |-> f.path, line |-> f.line, rule |-> f.rule, algorithm |-> f.algorithm,
           type |-> f.type, severity |-> f.severity, source |-> f.source, suppressed |-> f.suppressed]
  BY DEF IsFinding
<1>2. g = [path |-> f.path, line |-> f.line, rule |-> f.rule, algorithm |-> f.algorithm,
           type |-> f.type, severity |-> f.severity, source |-> f.source, suppressed |-> s]
  BY <1>1
<1> HIDE DEF g
<1>3. /\ g.suppressed = s /\ g.path = f.path /\ g.line = f.line /\ g.rule = f.rule
      /\ g.algorithm = f.algorithm /\ g.type = f.type /\ g.severity = f.severity /\ g.source = f.source
  BY <1>2
<1>4. IsFinding(g)
  BY <1>2, <1>3 DEF IsFinding
<1> HIDE DEF no
<1>5. [g EXCEPT !.suppressed = no] = [f EXCEPT !.suppressed = no]
  BY <1>1, <1>2
<1>6. QED
  BY <1>3, <1>4, <1>5, Zenon DEF g, no, Settled

\* Whether a comment silences a finding is a matter of its line and its names.
LEMMA SameComment ==
  ASSUME NEW c, NEW g, NEW h, g.line = h.line, g.rule = h.rule, g.algorithm = h.algorithm, g.type = h.type,
         CheckInlineSuppression(c, g)
  PROVE  CheckInlineSuppression(c, h)
BY DEF CheckInlineSuppression, Names

\* The merge keeps a match for each line and algorithm that was matched.
LEMMA MergedCovers ==
  ASSUME NEW marks, NEW n \in Nat, NEW asts, asts \subseteq 0 .. n, NEW regexes, regexes \subseteq 0 .. n,
         NEW i \in asts \cup regexes
  PROVE  \E j \in Merged(marks, asts, regexes) : SameKey(marks[i], marks[j])
<1> DEFINE same == {k \in asts : SameKey(marks[i], marks[k])}
           alike == {k \in regexes : SameKey(marks[i], marks[k])}
<1>1. CASE same # {}
  <2>1. PICK j \in same : \A k \in same : k <= j
    <3>1. same \subseteq 0 .. n
      OBVIOUS
    <3> HIDE DEF same
    <3>2. QED
      BY <1>1, <3>1, GreatestOfSome
  <2>2. ASSUME NEW k \in asts, SameKey(marks[j], marks[k]) PROVE ~(k > j)
    <3>1. k \in same
      BY <2>2 DEF SameKey
    <3>2. QED
      BY <2>1, <3>1
  <2>3. j \in Merged(marks, asts, regexes)
    BY <2>2 DEF Merged
  <2>4. QED
    BY <2>3
<1>2. CASE same = {}
  <2>1. PICK j \in alike : \A k \in alike : j <= k
    <3>1. alike \subseteq Nat /\ alike # {}
      <4>1. SameKey(marks[i], marks[i])
        BY DEF SameKey
      <4>2. i \in regexes
        BY <1>2, <4>1
      <4>3. i \in alike
        BY <4>1, <4>2
      <4>4. \A k \in regexes : k \in Nat
        OBVIOUS
      <4>5. QED
        BY <4>3, <4>4
    <3> HIDE DEF alike
    <3>2. QED
      BY <3>1, LeastOfSome
  <2>2. \A k \in asts : ~SameKey(marks[j], marks[k])
    BY <1>2 DEF SameKey
  <2>3. ASSUME NEW k \in regexes, SameKey(marks[j], marks[k]) PROVE ~(k < j)
    <3>1. k \in alike
      BY <2>3 DEF SameKey
    <3>2. QED
      BY <2>1, <3>1
  <2>4. j \in Merged(marks, asts, regexes)
    BY <2>2, <2>3 DEF Merged
  <2>5. QED
    BY <2>4
<1>3. QED
  BY <1>1, <1>2

\* What was found of a file stays found.
LEMMA LookedStays ==
  ASSUME NEW f, Looked(f), findings \subseteq findings'
  PROVE  Looked(f)'
<1>1. \A m : Reported(f, m) => Reported(f, m)'
  BY DEF Reported
<1>2. QED
  BY <1>1 DEF Looked

\* A step that finds more and decides nothing.
LEMMA MoreFindings ==
  ASSUME EarnedInv, NEW new, \A g \in new : IsFinding(g) /\ ~g.suppressed,
         findings' = findings \cup new,
         UNCHANGED <<config, tree, targets, cbom, sarif, result>>,
         phase \in {"static", "secrets", "container"},
         phase' \in {"static", "secrets", "container", "enrich"},
         todo' \subseteq targets, errors' \in BOOLEAN, errors => errors',
         ~errors' => \A f \in targets \ StillToLook' : f \in targets \ StillToLook \/ Looked(f)'
  PROVE  EarnedInv'
<1>1. result = NoResult /\ result.exit = -1 /\ ~Decided
  BY BeforeTheVerdict DEF EarnedInv
<1>2. CiShape'
  BY <1>1 DEF EarnedInv, CiShape, CiTypeOK, IsFinding
<1>3. LookedSoFar'
  BY LookedStays DEF EarnedInv, LookedSoFar
<1>4. SilencedByComment'
  BY DEF EarnedInv, SilencedByComment
<1>5. ReportsTell' /\ SarifIsFounded' /\ PassedThreshold'
  BY <1>1 DEF EarnedInv, ReportsTell, Decided, SarifIsFounded, PassedThreshold, PASS, POLICY_SECURITY_FAILURE
<1>6. QED
  BY <1>2, <1>3, <1>4, <1>5 DEF EarnedInv

LEMMA ScanFileKeeps ==
  ASSUME EarnedInv, NEW f \in todo, ScanFile(f) PROVE EarnedInv'
<1>1. /\ phase = "static" /\ todo' = todo \ {f}
      /\ UNCHANGED <<config, tree, phase, targets, cbom, sarif, result>>
  BY DEF ScanFile
<1>2. f \in tree.files /\ tree \in Trees /\ todo \subseteq targets
  BY DEF EarnedInv, CiShape, CiTypeOK
<1>3. /\ Len(f.marks) \in Nat /\ DOMAIN f.marks = 1 .. Len(f.marks)
      /\ \A i \in DOMAIN f.marks : f.marks[i].severity \in Severities
  BY <1>2, TreesAssumption
<1>4. PICK outcome, asts, regexes :
        /\ asts = IF outcome \in {"unreadable", "adapter raises"} THEN {} ELSE AstFindings(f, Adapted)
        /\ regexes = IF outcome \in {"unreadable", "regex raises"} THEN {} ELSE RegexFindings(f)
        /\ findings' = findings \cup {Finding(f.path, f.marks[i], "weak_crypto") :
                                        i \in Merged(f.marks, asts, regexes)}
        /\ errors' = (errors \/ outcome # "ok")
  BY Zenon DEF ScanFile
<1>5. asts \subseteq DOMAIN f.marks /\ regexes \subseteq DOMAIN f.marks
  BY <1>4 DEF AstFindings, RegexFindings, Matches
<1>6. Merged(f.marks, asts, regexes) \subseteq DOMAIN f.marks
  BY <1>5 DEF Merged
<1> DEFINE new == {Finding(f.path, f.marks[i], "weak_crypto") : i \in Merged(f.marks, asts, regexes)}
<1>7. \A g \in new : IsFinding(g) /\ ~g.suppressed
  BY <1>3, <1>6, FindingIs DEF Made
<1>8. ~errors' => Looked(f)'
  <2> SUFFICES ASSUME ~errors', NEW i \in AstFindings(f, Adapted) \cup RegexFindings(f)
               PROVE  \E j \in DOMAIN f.marks : SameKey(f.marks[i], f.marks[j]) /\ Reported(f, f.marks[j])'
    BY DEF Looked
  <2>1. asts = AstFindings(f, Adapted) /\ regexes = RegexFindings(f)
    BY <1>4
  <2>2. asts \subseteq 0 .. Len(f.marks) /\ regexes \subseteq 0 .. Len(f.marks)
    BY <1>3, <1>5
  <2>3. PICK j \in Merged(f.marks, asts, regexes) : SameKey(f.marks[i], f.marks[j])
    BY <1>3, <2>1, <2>2, MergedCovers
  <2> DEFINE g == Finding(f.path, f.marks[j], "weak_crypto")
  <2>4. g \in findings'
    BY <1>4, <2>3
  <2>5. [g EXCEPT !.suppressed = FALSE] = g
    <3>1. f.marks[j].severity \in Severities
      BY <1>3, <1>6, <2>3
    <3>2. Made(g, f.path, f.marks[j], "weak_crypto")
      BY <3>1, FindingIs
    <3>3. QED
      BY <3>2, Zenon DEF Made
  <2>6. Reported(f, f.marks[j])'
    BY <2>4, <2>5, Zenon DEF Reported
  <2>7. QED
    BY <1>6, <2>3, <2>6
<1>9. ~errors' => \A h \in targets \ StillToLook' : h \in targets \ StillToLook \/ Looked(h)'
  BY <1>1, <1>8 DEF StillToLook
<1>10. errors' \in BOOLEAN /\ (errors => errors')
  BY <1>4
<1>11. findings' = findings \cup new
  BY <1>4
<1> HIDE DEF new
<1>12. QED
  BY <1>1, <1>2, <1>7, <1>9, <1>10, <1>11, MoreFindings

LEMMA StaticDoneKeeps ==
  ASSUME EarnedInv, StaticDone PROVE EarnedInv'
<1>1. /\ phase = "static" /\ phase' = "secrets" /\ todo = {} /\ todo' \subseteq targets
      /\ UNCHANGED <<config, tree, targets, findings, errors, cbom, sarif, result>>
  BY DEF StaticDone, GoTo
<1>2. findings' = findings \cup {} /\ errors' \in BOOLEAN
  BY <1>1 DEF EarnedInv, CiShape, CiTypeOK
<1>3. \A h \in targets \ StillToLook' : h \in targets \ StillToLook
  BY <1>1 DEF StillToLook
<1>4. QED
  BY <1>1, <1>2, <1>3, MoreFindings

LEMMA ScanSecretsKeeps ==
  ASSUME EarnedInv, NEW f \in todo, ScanSecrets(f) PROVE EarnedInv'
<1>1. /\ phase = "secrets" /\ todo' = todo \ {f}
      /\ UNCHANGED <<config, tree, phase, targets, errors, cbom, sarif, result>>
  BY DEF ScanSecrets
<1>2. /\ todo' \subseteq targets /\ errors' \in BOOLEAN
      /\ \A h \in targets \ StillToLook' : h \in targets \ StillToLook
  BY <1>1 DEF EarnedInv, CiShape, CiTypeOK, StillToLook
<1> DEFINE new == {Finding(f.path, m, "hardcoded_key") : m \in SecretCandidates(f)}
<1>3. \A g \in new : IsFinding(g) /\ ~g.suppressed
  <2>1. \A m \in SecretCandidates(f) : m.severity \in Severities
    BY DEF SecretCandidates, SecretSeverity, Severities
  <2>2. QED
    BY <2>1, FindingIs DEF Made
<1>4. findings' = findings \cup new \/ findings' = findings \cup {}
  BY DEF ScanSecrets
<1> HIDE DEF new
<1> DEFINE more == IF findings' = findings \cup new THEN new ELSE {}
<1>5. findings' = findings \cup more /\ \A g \in more : IsFinding(g) /\ ~g.suppressed
  BY <1>3, <1>4
<1> HIDE DEF more
<1>6. QED
  BY <1>1, <1>2, <1>5, MoreFindings

LEMMA InspectKeeps ==
  ASSUME EarnedInv, ScanDependencies \/ ScanContainerTarget PROVE EarnedInv'
<1>1. /\ phase \in {"secrets", "container"} /\ phase' \in {"container", "enrich"}
      /\ UNCHANGED <<config, tree, todo, targets, errors, cbom, sarif, result>>
  BY DEF ScanDependencies, ScanContainerTarget, GoTo
<1>2. /\ todo' \subseteq targets /\ errors' \in BOOLEAN
      /\ \A h \in targets \ StillToLook' : h \in targets \ StillToLook
  BY <1>1 DEF EarnedInv, CiShape, CiTypeOK, StillToLook
<1>3. PICK file \in {tree.manifest, tree.dockerfile} : \E wanted, type : Inspect(wanted, file, type)
  BY Zenon DEF ScanDependencies, ScanContainerTarget
<1>4. \A m \in file.marks : m.severity \in Severities
  BY TreesAssumption DEF EarnedInv, CiShape
<1>5. PICK wanted, type : Inspect(wanted, file, type)
  BY <1>3
<1> DEFINE new == {Finding(file.path, m, type) : m \in file.marks}
<1>6. \A g \in new : IsFinding(g) /\ ~g.suppressed
  BY <1>4, FindingIs DEF Made
<1>7. findings' = findings \cup new \/ findings' = findings \cup {}
  BY <1>5 DEF Inspect
<1> HIDE DEF new
<1> DEFINE more == IF findings' = findings \cup new THEN new ELSE {}
<1>8. findings' = findings \cup more /\ \A g \in more : IsFinding(g) /\ ~g.suppressed
  BY <1>6, <1>7
<1> HIDE DEF more
<1>9. QED
  BY <1>1, <1>2, <1>8, MoreFindings

\* A run that ends before anything was looked at has no verdict of the gate.
LEMMA EndsEarly ==
  ASSUME EarnedInv, phase \in {"start", "select"}, NEW exit, NEW verdict, Finish(exit, verdict),
         \/ exit \in {SCANNER_ERROR, INVALID_CONFIG}
         \/ exit = POLICY_SECURITY_FAILURE /\ verdict = "exception",
         UNCHANGED <<config, tree, todo, targets, findings, errors, cbom, sarif>>
  PROVE  EarnedInv'
<1> USE DEF PASS, POLICY_SECURITY_FAILURE, SCANNER_ERROR, INVALID_CONFIG
<1>1. phase' = "done" /\ result' = [exit |-> exit, verdict |-> verdict]
  BY DEF Finish
<1>2. result'.exit = exit /\ result'.verdict = verdict
  BY <1>1
<1>3. exit \in {1, 2, 3} /\ ~Decided'
  BY <1>2 DEF Decided
<1>4. result' # NoResult
  BY <1>2, <1>3 DEF NoResult
<1>5. CiShape'
  BY <1>1, <1>2, <1>3, <1>4 DEF EarnedInv, CiShape, CiTypeOK, IsFinding
<1>6. LookedSoFar'
  BY <1>1 DEF EarnedInv, LookedSoFar, StillToLook, Looked, Reported
<1>7. SilencedByComment'
  BY DEF EarnedInv, SilencedByComment
<1>8. ReportsTell'
  BY <1>1, <1>3 DEF ReportsTell
<1>9. SarifIsFounded' /\ PassedThreshold'
  BY <1>1, <1>2, <1>3 DEF EarnedInv, SarifIsFounded, PassedThreshold
<1>10. QED
  BY <1>5, <1>6, <1>7, <1>8, <1>9 DEF EarnedInv

LEMMA ValidateConfigKeeps ==
  ASSUME EarnedInv, ValidateConfig PROVE EarnedInv'
<1>1. phase = "start" /\ UNCHANGED <<config, tree, todo, targets, findings, errors, cbom, sarif>>
  BY DEF ValidateConfig
<1>2. CASE ~ValidConfig
  <2>1. Finish(INVALID_CONFIG, "INVALID_CONFIG")
    BY <1>2 DEF ValidateConfig
  <2>2. QED
    BY <1>1, <2>1, EndsEarly
<1>3. CASE ValidConfig
  <2>1. phase' = "select" /\ result' = result
    BY <1>3 DEF ValidateConfig, GoTo
  <2>2. result = NoResult /\ result.exit = -1 /\ ~Decided
    BY <1>1, BeforeTheVerdict DEF EarnedInv
  <2>3. CiShape'
    BY <1>1, <2>1, <2>2 DEF EarnedInv, CiShape, CiTypeOK, IsFinding
  <2>4. LookedSoFar' /\ SilencedByComment'
    BY <1>1, <2>1 DEF EarnedInv, LookedSoFar, StillToLook, Looked, Reported, SilencedByComment
  <2>5. ReportsTell' /\ SarifIsFounded' /\ PassedThreshold'
    BY <1>1, <2>1, <2>2 DEF EarnedInv, ReportsTell, Decided, SarifIsFounded, PassedThreshold, PASS
  <2>6. QED
    BY <2>3, <2>4, <2>5 DEF EarnedInv
<1>4. QED
  BY <1>2, <1>3

LEMMA SelectionsAreFiles ==
  ASSUME NEW S \in Selections PROVE S \subseteq tree.files
<1>1. CASE config.mode = "full"
  <2> DEFINE fit == {f \in tree.files : Entered(f) /\ Fits(f, config.includeExt, config.maxSize)}
  <2>1. S \in kSubset(IF Cardinality(fit) <= config.maxFiles THEN Cardinality(fit) ELSE config.maxFiles, fit)
    BY <1>1, Zenon DEF Selections, Discoveries
  <2>2. S \subseteq fit
    BY <2>1, Zenon DEF kSubset
  <2>3. QED
    BY <2>2
<1>2. CASE config.mode # "full"
  BY <1>2 DEF Selections, Named
<1>3. QED
  BY <1>1, <1>2

LEMMA SelectTargetsKeeps ==
  ASSUME EarnedInv, SelectTargets PROVE EarnedInv'
<1>1. phase = "select" /\ UNCHANGED <<config, tree, findings, errors, cbom, sarif>>
  BY DEF SelectTargets
<1>2. CASE GitFails \/ LeadsOutside
  <2>1. PICK exit, verdict :
          /\ Finish(exit, verdict) /\ UNCHANGED <<targets, todo>>
          /\ \/ exit \in {SCANNER_ERROR, INVALID_CONFIG}
             \/ exit = POLICY_SECURITY_FAILURE /\ verdict = "exception"
    <3>1. CASE GitFails
      <4> DEFINE exit == IF config.git \in {"not a repository", "diff failed"} THEN INVALID_CONFIG ELSE SCANNER_ERROR
      <4>1. Finish(exit, "ERROR") /\ UNCHANGED <<targets, todo>>
        BY <3>1 DEF SelectTargets
      <4>2. exit \in {SCANNER_ERROR, INVALID_CONFIG}
        OBVIOUS
      <4> HIDE DEF exit
      <4>3. QED
        BY <4>1, <4>2
    <3>2. CASE ~GitFails
      <4>1. Finish(1, "exception") /\ UNCHANGED <<targets, todo>> /\ POLICY_SECURITY_FAILURE = 1
        BY <1>2, <3>2 DEF SelectTargets, POLICY_SECURITY_FAILURE
      <4>2. QED
        BY <4>1
    <3>3. QED
      BY <3>1, <3>2
  <2>2. QED
    BY <1>1, <2>1, EndsEarly
<1>3. CASE ~GitFails /\ ~LeadsOutside
  <2>1. targets' \in Selections /\ todo' = targets' /\ phase' = "static" /\ result' = result
    BY <1>3 DEF SelectTargets, GoTo
  <2>2. result = NoResult /\ result.exit = -1 /\ ~Decided
    BY <1>1, BeforeTheVerdict DEF EarnedInv
  <2>3. targets' \subseteq tree.files
    BY <2>1, SelectionsAreFiles
  <2>4. CiShape'
    BY <1>1, <2>1, <2>2, <2>3 DEF EarnedInv, CiShape, CiTypeOK, IsFinding
  <2>5. LookedSoFar' /\ SilencedByComment'
    BY <1>1, <2>1 DEF EarnedInv, LookedSoFar, StillToLook, SilencedByComment
  <2>6. ReportsTell' /\ SarifIsFounded' /\ PassedThreshold'
    BY <1>1, <2>1, <2>2 DEF EarnedInv, ReportsTell, Decided, SarifIsFounded, PassedThreshold, PASS
  <2>7. QED
    BY <2>4, <2>5, <2>6 DEF EarnedInv
<1>4. QED
  BY <1>2, <1>3

LEMMA EnrichKeeps ==
  ASSUME EarnedInv, Enrich PROVE EarnedInv'
<1>1. /\ phase = "enrich" /\ phase' = "cbom"
      /\ UNCHANGED <<config, tree, todo, targets, errors, cbom, sarif, result>>
  BY DEF Enrich, GoTo
<1>2. PICK lost : findings' = {[f EXCEPT !.suppressed = Silenced(f, lost)] : f \in findings}
  BY DEF Enrich
<1>3. result = NoResult /\ result.exit = -1 /\ ~Decided
  BY <1>1, BeforeTheVerdict DEF EarnedInv
<1>4. \A f \in findings : IsFinding(f)
  BY DEF EarnedInv, CiShape
<1>5. ASSUME NEW f \in findings
      PROVE  Settled([f EXCEPT !.suppressed = Silenced(f, lost)], f, Silenced(f, lost))
  <2>1. Silenced(f, lost) \in BOOLEAN
    BY DEF Silenced
  <2>2. QED
    BY <1>4, <2>1, SettledIs
<1>6. \A g \in findings' : \E f \in findings : Settled(g, f, Silenced(f, lost))
  BY <1>2, <1>5
<1>7. \A f \in findings : \E g \in findings' : Settled(g, f, Silenced(f, lost))
  BY <1>2, <1>5
<1>8. CiShape'
  <2>1. \A g \in findings' : IsFinding(g)
    BY <1>6 DEF Settled
  <2>2. QED
    BY <1>1, <1>3, <2>1 DEF EarnedInv, CiShape, CiTypeOK, IsFinding
<1>9. LookedSoFar'
  <2>1. ASSUME NEW f, NEW m, Reported(f, m) PROVE Reported(f, m)'
    <3>1. PICK g \in findings : [g EXCEPT !.suppressed = FALSE] = Finding(f.path, m, "weak_crypto")
      BY <2>1 DEF Reported
    <3>2. PICK h \in findings' : Settled(h, g, Silenced(g, lost))
      BY <1>7
    <3>3. [h EXCEPT !.suppressed = FALSE] = Finding(f.path, m, "weak_crypto")
      BY <3>1, <3>2, Zenon DEF Settled
    <3>4. QED
      BY <3>3, Zenon DEF Reported
  <2>2. \A f : Looked(f) => Looked(f)'
    BY <2>1 DEF Looked
  <2>3. QED
    BY <1>1, <2>2 DEF EarnedInv, LookedSoFar, StillToLook
<1>10. SilencedByComment'
  <2> SUFFICES ASSUME NEW g \in findings', g.suppressed
               PROVE  \E f \in tree.files : f.path = g.path /\ CheckInlineSuppression(f.comments, g)
    BY <1>1 DEF SilencedByComment
  <2>1. PICK h \in findings : Settled(g, h, Silenced(h, lost))
    BY <1>6
  <2>2. Silenced(h, lost) /\ g.path = h.path /\ g.line = h.line /\ g.rule = h.rule
        /\ g.algorithm = h.algorithm /\ g.type = h.type
    BY <2>1, Zenon DEF Settled
  <2>3. PICK f \in tree.files : f.path = h.path /\ CheckInlineSuppression(f.comments, h)
    BY <2>2 DEF Silenced
  <2>4. CheckInlineSuppression(f.comments, g)
    BY <2>2, <2>3, SameComment
  <2>5. QED
    BY <2>2, <2>3, <2>4
<1>11. ReportsTell' /\ SarifIsFounded' /\ PassedThreshold'
  BY <1>1, <1>3 DEF EarnedInv, ReportsTell, Decided, SarifIsFounded, PassedThreshold, PASS
<1>12. QED
  BY <1>8, <1>9, <1>10, <1>11 DEF EarnedInv

\* The reports take the findings as they are.
LEMMA WritersKeep ==
  ASSUME EarnedInv, UNCHANGED <<config, tree, todo, targets, findings, result>>,
         phase \in {"cbom", "sarif"}, phase' \in {"sarif", "gate"}, errors' \in BOOLEAN, errors => errors'
  PROVE  CiShape' /\ LookedSoFar' /\ SilencedByComment' /\ PassedThreshold' /\ ~Decided'
<1>1. result = NoResult /\ result.exit = -1 /\ ~Decided
  BY BeforeTheVerdict DEF EarnedInv
<1>2. CiShape'
  BY <1>1 DEF EarnedInv, CiShape, CiTypeOK, IsFinding
<1>3. LookedSoFar'
  BY LookedStays DEF EarnedInv, LookedSoFar, StillToLook
<1>4. SilencedByComment' /\ PassedThreshold' /\ ~Decided'
  BY <1>1 DEF EarnedInv, SilencedByComment, PassedThreshold, Decided, PASS
<1>5. QED
  BY <1>2, <1>3, <1>4

LEMMA WriteCbomKeeps ==
  ASSUME EarnedInv, WriteCbom PROVE EarnedInv'
<1>1. /\ phase = "cbom" /\ phase' = "sarif"
      /\ UNCHANGED <<config, tree, todo, targets, findings, sarif, result>>
  BY DEF WriteCbom, GoTo
<1>2. errors' \in BOOLEAN /\ (errors => errors')
  <2>1. errors' = errors \/ errors' = TRUE
    BY DEF WriteCbom
  <2>2. QED
    BY <2>1 DEF EarnedInv, CiShape, CiTypeOK
<1>3. CiShape' /\ LookedSoFar' /\ SilencedByComment' /\ PassedThreshold' /\ ~Decided'
  BY <1>1, <1>2, WritersKeep
<1>4. errors' \/ CbomTells'
  <2>1. CASE errors' = TRUE
    BY <2>1
  <2>2. CASE cbom' = IF config.cbom
                     THEN [written |-> TRUE,
                           components |-> {<<f.path, f.line, f.algorithm>> : f \in findings}]
                     ELSE NoFile
    BY <1>1, <2>2 DEF CbomTells
  <2>3. QED
    BY <2>1, <2>2 DEF WriteCbom
<1>5. ReportsTell'
  BY <1>1, <1>3, <1>4 DEF ReportsTell
<1>6. SarifIsFounded'
  BY <1>1 DEF EarnedInv, SarifIsFounded
<1>7. QED
  BY <1>3, <1>5, <1>6 DEF EarnedInv

LEMMA WriteSarifKeeps ==
  ASSUME EarnedInv, WriteSarif PROVE EarnedInv'
<1>1. /\ phase = "sarif" /\ phase' = "gate"
      /\ UNCHANGED <<config, tree, todo, targets, findings, cbom, result>>
  BY DEF WriteSarif, GoTo
<1>2. \/ UNCHANGED <<errors, sarif>> /\ ~config.sarif
      \/ errors' = TRUE /\ UNCHANGED sarif
      \/ \E silenced : /\ sarif' = [written |-> TRUE, results |-> Generate(findings, silenced).results]
                       /\ UNCHANGED errors
  BY Zenon DEF WriteSarif
<1>3. errors' \in BOOLEAN /\ (errors => errors')
  BY <1>2 DEF EarnedInv, CiShape, CiTypeOK
<1>4. CiShape' /\ LookedSoFar' /\ SilencedByComment' /\ PassedThreshold' /\ ~Decided'
  BY <1>1, <1>3, WritersKeep
<1>5. ~sarif.written
  BY <1>1 DEF EarnedInv, SarifIsFounded
<1>6. ASSUME NEW silenced,
             sarif' = [written |-> TRUE, results |-> Generate(findings, silenced).results]
      PROVE  SarifTells' /\ SarifIsFounded'
  <2>1. sarif'.written /\ sarif'.results = {Result(g, g \in silenced) : g \in findings}
    BY <1>6 DEF Generate
  <2>2. \A g \in findings : LET r == Result(g, g \in silenced)
                            IN  /\ r.path = g.path /\ r.line = g.line /\ r.rule = g.rule
                                /\ r.level = Level(g.severity) /\ (g.suppressed => r.suppressed)
    BY DEF Result
  <2>3. SarifTells'
    BY <1>1, <2>1, <2>2 DEF SarifTells
  <2>4. SarifIsFounded'
    BY <1>1, <2>1, <2>2 DEF SarifIsFounded
  <2>5. QED
    BY <2>3, <2>4
<1>7. errors' \/ SarifTells'
  BY <1>1, <1>2, <1>6 DEF SarifTells
<1>8. SarifIsFounded'
  BY <1>2, <1>5, <1>6 DEF SarifIsFounded
<1>9. errors' \/ CbomTells'
  BY <1>1, <1>3 DEF EarnedInv, ReportsTell, CbomTells
<1>10. ReportsTell'
  BY <1>1, <1>4, <1>7, <1>9 DEF ReportsTell
<1>11. QED
  BY <1>4, <1>8, <1>10 DEF EarnedInv

LEMMA GateKeeps ==
  ASSUME EarnedInv, Gate PROVE EarnedInv'
<1> USE DEF PASS, POLICY_SECURITY_FAILURE, SCANNER_ERROR
<1>1. phase = "gate" /\ UNCHANGED <<config, tree, todo, targets, findings, errors, cbom, sarif>>
  BY DEF Gate
<1>2. PICK exit, verdict :
        /\ exit \in {PASS, POLICY_SECURITY_FAILURE, SCANNER_ERROR}
        /\ Finish(exit, verdict)
        /\ errors => exit = SCANNER_ERROR
        /\ exit = PASS /\ config.failOn \in {"critical", "high"} => \A g \in findings : ~Violating(g)
  <2> DEFINE verdict == IF PolicyWanted THEN PolicyVerdict ELSE "ALLOW"
             blocked == verdict = "BLOCK" \/ (verdict = "WARN" /\ config.failOnWarn)
             severe  == config.failOn \in {"critical", "high"} /\ \E g \in findings : Violating(g)
  <2>1. CASE errors \/ (PolicyWanted /\ ~ValidPolicy(PolicyUsed))
    <3>1. \E v : Finish(SCANNER_ERROR, v)
      BY <2>1, Zenon DEF Gate
    <3>2. QED
      BY <3>1
  <2>2. CASE ~errors /\ ~(PolicyWanted /\ ~ValidPolicy(PolicyUsed))
    <3>1. IF blocked THEN Finish(POLICY_SECURITY_FAILURE, verdict)
          ELSE IF severe THEN Finish(POLICY_SECURITY_FAILURE, "BLOCK")
          ELSE Finish(PASS, verdict)
      BY <2>2, Zenon DEF Gate
    <3>2. CASE blocked \/ severe
      <4>1. \E v : Finish(POLICY_SECURITY_FAILURE, v)
        BY <3>1, <3>2, Zenon
      <4>2. QED
        BY <2>2, <4>1
    <3>3. CASE ~blocked /\ ~severe
      <4>1. Finish(PASS, verdict)
        BY <3>1, <3>3, Zenon
      <4>2. config.failOn \in {"critical", "high"} => \A g \in findings : ~Violating(g)
        BY <3>3
      <4> HIDE DEF verdict, blocked, severe
      <4>3. QED
        BY <2>2, <4>1, <4>2
    <3>4. QED
      BY <3>2, <3>3
  <2>3. QED
    BY <2>1, <2>2
<1>3. phase' = "done" /\ result'.exit = exit /\ result'.verdict = verdict
  BY <1>2 DEF Finish
<1>4. result' # NoResult
  BY <1>2, <1>3 DEF NoResult
<1>5. CiShape'
  BY <1>1, <1>2, <1>3, <1>4 DEF EarnedInv, CiShape, CiTypeOK, IsFinding
<1>6. LookedSoFar' /\ SilencedByComment'
  BY <1>1, <1>3 DEF EarnedInv, LookedSoFar, StillToLook, Looked, Reported, SilencedByComment
<1>7. ReportsTell'
  BY <1>1, <1>2, <1>3 DEF EarnedInv, ReportsTell, Decided, CbomTells, SarifTells
<1>8. SarifIsFounded'
  BY <1>1, <1>3 DEF EarnedInv, SarifIsFounded
<1>9. PassedThreshold'
  BY <1>1, <1>2, <1>3 DEF PassedThreshold, Violating, Threshold
<1>10. QED
  BY <1>5, <1>6, <1>7, <1>8, <1>9 DEF EarnedInv

LEMMA EarnedInvHolds == CiSpec => []EarnedInv
<1>1. CiInit => EarnedInv
  <2> SUFFICES ASSUME CiInit PROVE EarnedInv
    OBVIOUS
  <2>1. result.exit = -1 /\ ~Decided
    BY DEF CiInit, NoResult, Decided, PASS, POLICY_SECURITY_FAILURE
  <2>2. CiShape
    BY <2>1 DEF CiInit, CiShape, CiTypeOK
  <2>3. LookedSoFar /\ SilencedByComment /\ ReportsTell
    BY <2>1 DEF CiInit, LookedSoFar, SilencedByComment, ReportsTell
  <2>4. SarifIsFounded /\ PassedThreshold
    BY <2>1 DEF CiInit, SarifIsFounded, PassedThreshold, NoFile, PASS
  <2>5. QED
    BY <2>2, <2>3, <2>4 DEF EarnedInv
<1>2. EarnedInv /\ [CiNext]_ciVars => EarnedInv'
  <2>1. EarnedInv /\ UNCHANGED ciVars => EarnedInv'
    BY DEF ciVars, EarnedInv, CiShape, CiTypeOK, LookedSoFar, StillToLook, Looked, Reported, SilencedByComment,
       ReportsTell, Decided, CbomTells, SarifTells, SarifIsFounded, PassedThreshold, Violating, Threshold, IsFinding
  <2>2. QED
    BY <2>1, ValidateConfigKeeps, SelectTargetsKeeps, ScanFileKeeps, ScanSecretsKeeps, StaticDoneKeeps,
       InspectKeeps, EnrichKeeps, WriteCbomKeeps, WriteSarifKeeps, GateKeeps DEF CiNext
<1>3. QED
  BY <1>1, <1>2, PTL DEF CiSpec

\* A run that passes has looked: each match at or above the threshold was reported, and is
\* silenced by a comment in its file or stands behind another match of its line.
LEMMA PassedRunsLooked ==
  ASSUME EarnedInv PROVE CleanMeansLooked
<1> SUFFICES ASSUME result.exit = PASS, config.failOn \in {"critical", "high"}, NEW f \in targets,
                    NEW i \in AstFindings(f, Adapted) \cup RegexFindings(f)
             PROVE  \/ SeverityRank(f.marks[i].severity) < Threshold
                    \/ CheckInlineSuppression(f.comments, Finding(f.path, f.marks[i], "weak_crypto"))
                    \/ \E j \in DOMAIN f.marks \ {i} :
                         SameKey(f.marks[i], f.marks[j]) /\ Reported(f, f.marks[j])
  BY DEF CleanMeansLooked
<1>1. ~errors /\ \A g \in findings : ~Violating(g)
  BY DEF EarnedInv, PassedThreshold
<1>2. phase = "done"
  BY BeforeTheVerdict DEF EarnedInv, PASS
<1>3. PICK j \in DOMAIN f.marks : SameKey(f.marks[i], f.marks[j]) /\ Reported(f, f.marks[j])
  BY <1>1, <1>2 DEF EarnedInv, LookedSoFar, StillToLook, Looked
<1>4. CASE i # j
  BY <1>3, <1>4
<1>5. CASE i = j
  <2>1. f \in tree.files /\ tree \in Trees
    BY DEF EarnedInv, CiShape, CiTypeOK
  <2>2. f.marks[i].severity \in Severities
    BY <1>5, <2>1, TreesAssumption
  <2> DEFINE made == Finding(f.path, f.marks[i], "weak_crypto")
  <2>3. Made(made, f.path, f.marks[i], "weak_crypto")
    BY <2>2, FindingIs
  <2>4. PICK g \in findings : [g EXCEPT !.suppressed = FALSE] = made
    BY <1>3, <1>5 DEF Reported
  <2> HIDE DEF made
  <2>5. Settled(made, g, FALSE)
    BY <2>4, SettledIs DEF EarnedInv, CiShape
  <2>6. /\ g.path = f.path /\ made.line = g.line /\ made.rule = g.rule /\ made.algorithm = g.algorithm
        /\ made.type = g.type /\ g.severity = f.marks[i].severity
    BY <2>3, <2>5, Zenon DEF Made, Settled
  <2>7. CASE g.suppressed
    <3>1. PICK h \in tree.files : h.path = g.path /\ CheckInlineSuppression(h.comments, g)
      BY <2>7 DEF EarnedInv, SilencedByComment
    <3>2. h = f
      BY <2>1, <2>6, <3>1, TreesAssumption
    <3>3. CheckInlineSuppression(f.comments, made)
      BY <2>6, <3>1, <3>2, SameComment
    <3>4. QED
      BY <3>3 DEF made
  <2>8. CASE ~g.suppressed
    <3>1. ~(SeverityRank(g.severity) >= Threshold)
      BY <1>1, <2>8 DEF Violating
    <3>2. SeverityRank(g.severity) \in Int /\ Threshold \in Int
      BY DEF SeverityRank, Threshold
    <3>3. QED
      BY <2>6, <3>1, <3>2
  <2>9. QED
    BY <2>7, <2>8
<1>6. QED
  BY <1>4, <1>5

-----------------------------------------------------------------------------
(* Secrets: the claims on a text, match by match. *)

Claim(m, claimed) == IF Taken(m, claimed) THEN claimed \cup {m} ELSE claimed

LEMMA ClaimedSteps ==
  ASSUME NEW seq, NEW n \in Nat, DOMAIN seq = 1..n
  PROVE  \E h : /\ h[0] = {} /\ Claimed(seq) = h[n]
                /\ \A i \in 1..n : h[i] = Claim(seq[i], h[i - 1])
<1> DEFINE Eq(g) == g = [s \in SUBSET (1..n) |->
                           IF s = {} THEN {} ELSE Claim(seq[Max(s)], g[s \ {Max(s)}])]
           iter == CHOOSE g : Eq(g)
           T == SUBSET {seq[i] : i \in 1..n}
           step == [p \in (1..n) \X T |-> Claim(seq[p[1]], p[2])]
<1>1. Claimed(seq) = iter[1..n]
  BY DEF Claimed, FoldLeft, MapThenFoldSet, Claim
<1>2. \E g : Eq(g)
  <2>1. step \in [(1..n) \X T -> T] /\ {} \in T
    BY DEF Claim
  <2>2. \A i \in 1..n, t \in T : step[<<i, t>>] = Claim(seq[i], t)
    OBVIOUS
  <2> HIDE DEF step, T
  <2>3. PICK g \in [SUBSET (1..n) -> T] : Folds(g, n, {}, step)
    BY <2>1, FoldAlwaysExists DEF FoldExists
  <2>4. ASSUME NEW s \in SUBSET (1..n)
        PROVE  g[s] = IF s = {} THEN {} ELSE Claim(seq[Max(s)], g[s \ {Max(s)}])
    <3>1. CASE s # {}
      <4>1. Max(s) \in 1..n /\ g[s \ {Max(s)}] \in T
        BY <3>1, MaxInside
      <4>2. QED
        BY <2>2, <2>3, <3>1, <4>1 DEF Folds
    <3>2. QED
      BY <2>3, <3>1 DEF Folds
  <2>5. Eq(g)
    BY <2>3, <2>4
  <2>6. QED
    BY <2>5
<1>3. Eq(iter)
  BY <1>2
<1> HIDE DEF iter
<1> DEFINE h == [i \in 0..n |-> iter[1..i]]
<1>4. h[0] = {} /\ h[n] = iter[1..n]
  BY <1>3
<1>5. ASSUME NEW i \in 1..n PROVE h[i] = Claim(seq[i], h[i - 1])
  <2>1. \A s \in SUBSET (1..n) :
          iter[s] = IF s = {} THEN {} ELSE Claim(seq[Max(s)], iter[s \ {Max(s)}])
    BY <1>3
  <2>2. iter[1..i] = Claim(seq[i], iter[1..(i - 1)])
    BY <2>1, PrefixSteps
  <2>3. i \in 0..n /\ i - 1 \in 0..n
    OBVIOUS
  <2>4. QED
    BY <2>2, <2>3
<1> HIDE DEF h
<1>6. QED
  BY <1>1, <1>4, <1>5

\* What holds of the claims after the first k matches.
ClaimsHold(seq, claimed, k) ==
  /\ claimed \subseteq {seq[i] : i \in 1..k}
  /\ \A m, n \in claimed : m = n \/ ~Overlap(m, n)
  /\ \A i \in 1..k : ~seq[i].ignorable => \E n \in claimed : seq[i] = n \/ Overlap(seq[i], n)

LEMMA ClaimHolds ==
  ASSUME NEW seq, NEW k \in Nat \ {0}, NEW claimed, ClaimsHold(seq, claimed, k - 1)
  PROVE  ClaimsHold(seq, Claim(seq[k], claimed), k)
<1>1. 1..k = (1..(k - 1)) \cup {k}
  OBVIOUS
<1>2. \A m, n : Overlap(m, n) => Overlap(n, m)
  BY DEF Overlap
<1>3. CASE Taken(seq[k], claimed)
  <2>1. Claim(seq[k], claimed) = claimed \cup {seq[k]}
    BY <1>3 DEF Claim
  <2>2. \A n \in claimed : ~Overlap(seq[k], n)
    BY <1>3 DEF Taken
  <2>3. QED
    BY <1>1, <1>2, <2>1, <2>2 DEF ClaimsHold
<1>4. CASE ~Taken(seq[k], claimed)
  <2>1. Claim(seq[k], claimed) = claimed
    BY <1>4 DEF Claim
  <2>2. ~seq[k].ignorable => \E n \in claimed : Overlap(seq[k], n)
    BY <1>4 DEF Taken
  <2>3. QED
    BY <1>1, <2>1, <2>2 DEF ClaimsHold
<1>5. QED
  BY <1>3, <1>4

LEMMA ClaimedHolds ==
  ASSUME NEW seq, NEW n \in Nat, DOMAIN seq = 1..n
  PROVE  ClaimsHold(seq, Claimed(seq), n)
<1>1. PICK h : /\ h[0] = {} /\ Claimed(seq) = h[n]
               /\ \A i \in 1..n : h[i] = Claim(seq[i], h[i - 1])
  BY ClaimedSteps
<1> DEFINE bad == {k \in 0..n : ~ClaimsHold(seq, h[k], k)}
<1>2. bad = {}
  <2> SUFFICES ASSUME bad # {} PROVE FALSE
    OBVIOUS
  <2>1. bad \subseteq Nat
    OBVIOUS
  <2>2. PICK k \in bad : \A x \in bad : k <= x
    <3> HIDE DEF bad
    <3>1. QED
      BY <2>1, LeastOfSome
  <2>3. k # 0
    BY <1>1, <2>2 DEF ClaimsHold
  <2>4. k \in 1..n /\ k - 1 \in 0..n /\ k - 1 \notin bad /\ k \in Nat \ {0}
    BY <2>2, <2>3
  <2>5. ClaimsHold(seq, h[k - 1], k - 1)
    BY <2>4
  <2>6. ClaimsHold(seq, h[k], k)
    BY <1>1, <2>4, <2>5, ClaimHolds
  <2>7. QED
    BY <2>2, <2>6
<1>3. QED
  BY <1>1, <1>2

\* Two stretches that overlap share the later of their beginnings.
LEMMA OverlapsMeet ==
  ASSUME NEW a \in Nat, NEW b \in Nat, NEW c \in Nat, NEW d \in Nat,
         a <= b, c <= d, a <= d, c <= b
  PROVE  (a .. b) \cap (c .. d) # {}
<1>1. CASE a <= c
  <2>1. c \in a .. b /\ c \in c .. d
    BY <1>1
  <2>2. QED
    BY <2>1
<1>2. CASE c <= a
  <2>1. a \in a .. b /\ a \in c .. d
    BY <1>2
  <2>2. QED
    BY <2>1
<1>3. QED
  BY <1>1, <1>2

LEMMA SecretsAreOut == tree \in Trees => SecretsAreTakenOut
<1> SUFFICES ASSUME tree \in Trees, NEW f \in tree.files
             PROVE  /\ \A m, n \in Claimed(f.secrets) : m = n \/ ~Overlap(m, n)
                    /\ f.secretive =>
                         \A m \in ToSet(f.secrets) : ~m.ignorable =>
                           (m.first .. m.last) \cap Redacted(f) # {}
  BY DEF SecretsAreTakenOut
<1> DEFINE seq == f.secrets
           count == Len(seq)
<1>1. /\ seq \in Seq(ToSet(seq))
      /\ \A m \in ToSet(seq) : m.first \in Nat /\ m.last \in Nat /\ m.first <= m.last
  BY TreesAssumption
<1> HIDE DEF seq
<1>2. count \in Nat /\ DOMAIN seq = 1..count
  BY <1>1
<1>3. ToSet(seq) = {seq[i] : i \in 1..count}
  BY <1>2 DEF ToSet
<1> HIDE DEF count
<1>4. ClaimsHold(seq, Claimed(seq), count)
  BY <1>2, ClaimedHolds
<1>5. ASSUME f.secretive, NEW m \in ToSet(seq), ~m.ignorable
      PROVE  (m.first .. m.last) \cap Redacted(f) # {}
  <2>1. PICK n \in Claimed(seq) : m = n \/ Overlap(m, n)
    BY <1>3, <1>4, <1>5 DEF ClaimsHold
  <2>2. n \in ToSet(seq)
    BY <1>3, <1>4 DEF ClaimsHold
  <2>3. (m.first .. m.last) \cap (n.first .. n.last) # {}
    <3>1. m.first <= n.last /\ n.first <= m.last
      BY <1>1, <2>1, <2>2 DEF Overlap
    <3>2. QED
      BY <1>1, <2>2, <3>1, OverlapsMeet
  <2>4. n.first .. n.last \subseteq Redacted(f)
    BY <1>5, <2>1 DEF Redacted, seq
  <2>5. QED
    BY <2>3, <2>4
<1>6. QED
  BY <1>4, <1>5 DEF ClaimsHold, seq

-----------------------------------------------------------------------------
(* The verdict. *)

\* A verdict is earned: a run that passes looked at all it selected, the reports asked for
\* are there and name every finding, and none of them is louder than the exit code, whatever
\* reads, parses and writes failed (ci_scanner.py, sarif_engine.py, developer_feedback.py).
THEOREM VerdictsAreEarned == CiSpec => []VerdictIsEarned
<1>1. EarnedInv => VerdictIsEarned
  <2> SUFFICES ASSUME EarnedInv PROVE VerdictIsEarned
    OBVIOUS
  <2>1. VerdictHasItsReports
    BY DEF EarnedInv, ReportsTell, Decided, CbomTells, SarifTells, VerdictHasItsReports
  <2>2. NothingLoudPasses
    <3> SUFFICES ASSUME result.exit = PASS, config.failOn = "high", sarif.written,
                        NEW r \in sarif.results, r.level = "error"
                 PROVE  r.suppressed
      BY DEF NothingLoudPasses
    <3>1. PICK g \in findings : r.level = Level(g.severity) /\ (g.suppressed => r.suppressed)
      BY DEF EarnedInv, SarifIsFounded
    <3>2. ~Violating(g) /\ g.severity \in Severities
      BY DEF EarnedInv, PassedThreshold, CiShape, IsFinding
    <3>3. g.severity \in {"critical", "high"}
      BY <3>1, <3>2 DEF Level, Severities
    <3>4. SeverityRank(g.severity) \in {1, 2} /\ Threshold = 1
      BY <3>3 DEF SeverityRank, Threshold
    <3>5. g.suppressed
      BY <3>2, <3>4 DEF Violating
    <3>6. QED
      BY <3>1, <3>5
  <2>3. CleanMeansLooked /\ CiTypeOK
    BY PassedRunsLooked DEF EarnedInv, CiShape
  <2>4. SecretsAreTakenOut
    BY SecretsAreOut DEF EarnedInv, CiShape
  <2>5. QED
    BY <2>1, <2>2, <2>3, <2>4 DEF VerdictIsEarned
<1>2. QED
  BY <1>1, EarnedInvHolds, PTL

-----------------------------------------------------------------------------
(* Static scans, for any number of sessions and processes.  None of the    *)
(* invariants is inductive by itself: what an upload holds, what was found *)
(* and what was stored have to be known for every phase of a session.      *)
(* SessionInv says it; together with the books of the registry it is       *)
(* inductive.                                                              *)


\* What is known of a session in each phase of its life.
Idle(s) == pc[s] = "idle" =>
  /\ home[s] = NoInstance /\ asyncJobs[s] = "none" /\ upload[s] = "none"
  /\ abortedIn[s] = "never" /\ received[s] = {}
Early(s) == pc[s] \in {"idle", "preparing", "scanning", "refused"} =>
  found[s] = "none" /\ stored[s] = "none"
JobStatus(s) ==
  /\ pc[s] \in {"preparing", "refused", "lost"} => asyncJobs[s] = "none"
  /\ pc[s] \in {"scanning", "ingesting", "committed", "unacknowledged"} =>
       asyncJobs[s] = "processing"
  /\ pc[s] = "done" => asyncJobs[s] \in {"completed", "failed"}
  /\ pc[s] = "disowned" => asyncJobs[s] = "failed"
Home(s) == pc[s] # "idle" => home[s] \in Instances
Input(s) == pc[s] = "scanning" =>
  mode[s] = "directory" \/ upload[s] = "whole" \/ abortedIn[s] \in {"preparing", "scanning"}
Hit(s) == pc[s] = "preparing" => abortedIn[s] \in {"never", "preparing"}
NoUpload(s) ==
  /\ pc[s] \in {"ingesting", "committed", "unacknowledged", "done", "disowned"} =>
       upload[s] = "none"
  /\ pc[s] = "refused" /\ upload[s] # "none" => abortedIn[s] = "never"
Row(s) ==
  /\ stored[s] # "none" => stored[s] = found[s]
  /\ pc[s] = "ingesting" => stored[s] = "none" /\ found[s] \in {"all", "some"}
  /\ pc[s] = "done" /\ stored[s] # "none" => asyncJobs[s] = "completed"
Left(s) ==
  /\ "archive" \in received[s] => pc[s] \in {"preparing", "refused", "lost"}
  /\ "others" \in received[s] => mode[s] \in {"git", "zip"} \/ pc[s] \in {"refused", "lost"}
Partial(s) == found[s] = "some" => abortedIn[s] \in {"preparing", "scanning"}

SessionInv(s) ==
  /\ Idle(s) /\ Early(s) /\ JobStatus(s) /\ Home(s) /\ Input(s)
  /\ Hit(s) /\ NoUpload(s) /\ Row(s) /\ Left(s) /\ Partial(s)

IInv == TypeOK /\ RegistryTracksSessions /\ \A s \in Sessions : SessionInv(s)

LEMMA InitIInv == Init => IInv
  BY ConstantsOK DEF Init, IInv, TypeOK, RegistryTracksSessions, SessionInv, Idle, Early,
     JobStatus, Home, Input, Hit, NoUpload, Row, Left, Partial, Phases, Working

\* A step of one session leaves the facts about every other session alone.
Untouched(s) ==
  /\ home'[s] = home[s] /\ mode'[s] = mode[s] /\ pc'[s] = pc[s]
  /\ asyncJobs'[s] = asyncJobs[s] /\ upload'[s] = upload[s] /\ found'[s] = found[s]
  /\ received'[s] = received[s]
  /\ stored'[s] = stored[s] /\ abortedIn'[s] = abortedIn[s]

LEMMA UntouchedKeeps ==
  ASSUME NEW s \in Sessions, SessionInv(s), Untouched(s) PROVE SessionInv(s)'
  BY DEF Untouched, SessionInv, Idle, Early, JobStatus, Home, Input, Hit, NoUpload, Row, Left, Partial

LEMMA StaticSubmitKeeps ==
  ASSUME IInv, NEW s \in Sessions, NEW i \in Instances, NEW m \in Modes, Submit(s, i, m)
  PROVE  IInv'
<1> USE ConstantsOK DEF Submit, registerScan, Goto, SetUpload, StartJob, Receive
<1>0. PICK parts \in SUBSET Parts :
        /\ received' = [received EXCEPT ![s] = parts]
        /\ "archive" \in parts => pc'[s] \in {"preparing", "refused"}
        /\ "others" \in parts => m \in {"git", "zip"} \/ pc'[s] = "refused"
  <2>1. ASSUME NEW p \in Kept(m)
        PROVE  /\ p \subseteq Parts
               /\ "archive" \in p => m = "zip"
               /\ "others" \in p => m \in {"git", "zip"}
    BY DEF Kept, Parts
  <2>2. \A p \in Abandoned(m) : p \subseteq Parts
    BY DEF Abandoned, Parts
  <2>3. QED
    BY <2>1, <2>2 DEF IInv, TypeOK
<1>1. TypeOK'
  BY <1>0 DEF IInv, TypeOK, Phases, Working
<1>2. pc[s] = "idle" /\ pc'[s] \in {"preparing", "scanning", "refused"} /\ home'[s] = i
  BY DEF IInv, TypeOK
<1>3. \A u \in Sessions \ {s} : Untouched(u)
  BY DEF IInv, TypeOK, Untouched
<1>4. RegistryTracksSessions'
  <2>1. abortedIn'[s] = "never" /\ home[s] \notin Instances
    BY <1>2 DEF IInv, SessionInv, Idle
  <2>2. QED
    BY <1>2, <1>3, <2>1 DEF IInv, TypeOK, RegistryTracksSessions, Untouched, Working
<1>5. SessionInv(s)'
  BY <1>0, <1>1, <1>2 DEF IInv, TypeOK, SessionInv, Idle, Early, JobStatus, Home, Input, Hit, NoUpload,
     Row, Left, Partial
<1>6. QED
  BY <1>1, <1>3, <1>4, <1>5, UntouchedKeeps DEF IInv

LEMMA PreparedKeeps ==
  ASSUME IInv, NEW s \in Sessions, Prepared(s) PROVE IInv'
<1> USE DEF Prepared, Goto, SetUpload, StartJob, Receive
<1>1. TypeOK'
  BY DEF IInv, TypeOK, Phases, Working
<1>2. \A u \in Sessions \ {s} : Untouched(u)
  BY DEF IInv, TypeOK, Untouched
<1>3. RegistryTracksSessions'
  BY DEF IInv, TypeOK, RegistryTracksSessions, Working
<1>4. SessionInv(s)'
  BY <1>1 DEF IInv, TypeOK, SessionInv, Idle, Early, JobStatus, Home, Input, Hit, NoUpload,
     Row, Left, Partial
<1>5. QED
  BY <1>1, <1>2, <1>3, <1>4, UntouchedKeeps DEF IInv

LEMMA ScannerKeeps ==
  ASSUME IInv, NEW s \in Sessions, ScannerExits(s) PROVE IInv'
<1> USE DEF ScannerExits, FinishJob, updateJob, deregisterScan, Goto, SetUpload
<1>0. home[s] \in Instances /\ pc[s] = "scanning" /\ asyncJobs[s] = "processing"
  BY DEF IInv, SessionInv, Home, JobStatus
<1>1. TypeOK'
  BY <1>0 DEF IInv, TypeOK, Phases, Working, Seen
<1>2. \A u \in Sessions \ {s} : Untouched(u)
  BY DEF IInv, TypeOK, Untouched
<1>3. pc'[s] \in {"done", "ingesting"} /\ home' = home /\ abortedIn' = abortedIn
      /\ received' = received /\ mode' = mode
  BY DEF IInv, TypeOK
<1>4. RegistryTracksSessions'
  <2>1. CASE pc'[s] = "done"
    <3>1. activeScanSessions' = [activeScanSessions EXCEPT ![home[s]] = @ \ {s}]
      BY <2>1 DEF IInv, TypeOK
    <3>2. QED
      BY <1>0, <1>2, <1>3, <2>1, <3>1 DEF IInv, TypeOK, RegistryTracksSessions, Untouched, Working
  <2>2. CASE pc'[s] = "ingesting"
    <3>1. activeScanSessions' = activeScanSessions
      BY <2>2 DEF IInv, TypeOK
    <3>2. QED
      BY <1>0, <1>2, <1>3, <2>2, <3>1 DEF IInv, TypeOK, RegistryTracksSessions, Untouched, Working
  <2>3. QED
    BY <1>3, <2>1, <2>2
<1>5. SessionInv(s)'
  <2>1. found'[s] = "some" => abortedIn[s] \in {"preparing", "scanning"}
    BY <1>0 DEF IInv, TypeOK, SessionInv, Early, Input, Seen
  <2>2. found'[s] \in {"none", "nothing", "all", "some"} /\ stored'[s] = "none"
        /\ upload'[s] = "none"
    BY <1>0, <1>1 DEF IInv, TypeOK, SessionInv, Early
  <2>3. \/ pc'[s] = "done" /\ asyncJobs'[s] \in {"completed", "failed"}
        \/ /\ pc'[s] = "ingesting" /\ asyncJobs'[s] = "processing"
           /\ found'[s] \in {"all", "some"}
    BY <1>0 DEF IInv, TypeOK, Seen
  <2>4. "archive" \notin received[s] /\ ("others" \in received[s] => mode[s] \in {"git", "zip"})
    BY <1>0 DEF IInv, SessionInv, Left
  <2>5. QED
    BY <1>0, <1>3, <2>1, <2>2, <2>3, <2>4 DEF SessionInv, Idle, Early, JobStatus, Home, Input, Hit,
       NoUpload, Row, Left, Partial
<1>6. QED
  BY <1>1, <1>2, <1>4, <1>5, UntouchedKeeps DEF IInv

LEMMA CommitsKeeps ==
  ASSUME IInv, NEW s \in Sessions, Commits(s) PROVE IInv'
<1> USE DEF Commits, Goto
<1>1. TypeOK'
  BY DEF IInv, TypeOK, Phases, Working, SessionInv, Row
<1>2. \A u \in Sessions \ {s} : Untouched(u)
  BY DEF IInv, TypeOK, Untouched
<1>3. RegistryTracksSessions'
  BY DEF IInv, TypeOK, RegistryTracksSessions, Working
<1>4. SessionInv(s)'
  BY DEF IInv, TypeOK, SessionInv, Idle, Early, JobStatus, Home, Input, Hit, NoUpload,
     Row, Left, Partial
<1>5. QED
  BY <1>1, <1>2, <1>3, <1>4, UntouchedKeeps DEF IInv

LEMMA IngestKeeps ==
  ASSUME IInv, NEW s \in Sessions, IngestEnds(s) PROVE IInv'
<1> USE DEF IngestEnds, FinishJob, updateJob, deregisterScan, Goto
<1>0. /\ home[s] \in Instances /\ pc[s] \in {"ingesting", "committed", "unacknowledged"}
      /\ asyncJobs[s] = "processing"
  BY DEF IInv, SessionInv, Home, JobStatus
<1>1. TypeOK'
  BY <1>0 DEF IInv, TypeOK, Phases, Working
<1>2. \A u \in Sessions \ {s} : Untouched(u)
  BY DEF IInv, TypeOK, Untouched
<1>3. RegistryTracksSessions'
  BY <1>0 DEF IInv, TypeOK, RegistryTracksSessions, Working
<1>4. SessionInv(s)'
  BY <1>0 DEF IInv, TypeOK, SessionInv, Idle, Early, JobStatus, Home, Input, Hit, NoUpload,
     Row, Left, Partial
<1>5. QED
  BY <1>1, <1>2, <1>3, <1>4, UntouchedKeeps DEF IInv

\* An abort may hit several sessions: those it hits change in upload and
\* abortedIn only.
LEMMA AbortKeeps ==
  ASSUME IInv, NEW i \in Instances, NEW id, Abort(i, id) PROVE IInv'
<1> DEFINE T == Targets(i, id)
<1>1. T \subseteq activeScanSessions[i] /\ T \subseteq Sessions
  BY DEF Targets, IInv, TypeOK
<1>2. \A s \in T : home[s] = i /\ abortedIn[s] = "never" /\ pc[s] \in Working \cup {"refused"}
  BY <1>1 DEF IInv, RegistryTracksSessions
<1>3. /\ upload' = [s \in Sessions |-> IF s \in T THEN "none" ELSE upload[s]]
      /\ abortedIn' = [s \in Sessions |-> IF s \in T THEN pc[s] ELSE abortedIn[s]]
      /\ activeScanSessions' = [activeScanSessions EXCEPT ![i] = @ \ T]
      /\ UNCHANGED <<asyncJobs, home, mode, pc, received, found, stored>>
  BY DEF Abort
<1> HIDE DEF T
<1>4. TypeOK'
  BY <1>1, <1>3 DEF IInv, TypeOK, Phases, Working
<1>5. RegistryTracksSessions'
  BY <1>1, <1>2, <1>3 DEF IInv, TypeOK, RegistryTracksSessions, Working
<1>6. ASSUME NEW s \in Sessions PROVE SessionInv(s)'
  <2>1. CASE s \notin T
    BY <1>3, <2>1, UntouchedKeeps DEF IInv, Untouched
  <2>2. CASE s \in T
    BY <1>2, <1>3, <2>2 DEF IInv, SessionInv, Idle, Early, JobStatus, Home, Input, Hit,
       NoUpload, Row, Left, Partial, Working
  <2>3. QED
    BY <2>1, <2>2
<1>7. QED
  BY <1>4, <1>5, <1>6 DEF IInv

LEMMA RestartKeeps ==
  ASSUME IInv, NEW i \in Instances, Restart(i) PROVE IInv'
<1> USE DEF Restart
<1>1. TypeOK'
  BY DEF IInv, TypeOK, Phases, Working
<1>2. RegistryTracksSessions'
  BY DEF IInv, TypeOK, RegistryTracksSessions, Working
<1>3. ASSUME NEW s \in Sessions PROVE SessionInv(s)'
  <2>1. CASE home[s] # i
    BY <2>1, UntouchedKeeps DEF IInv, Untouched
  <2>2. CASE home[s] = i
    BY <2>2 DEF IInv, SessionInv, Idle, Early, JobStatus, Home, Input, Hit, NoUpload, Row,
       Left, Partial
  <2>3. QED
    BY <2>1, <2>2
<1>4. QED
  BY <1>1, <1>2, <1>3 DEF IInv

LEMMA StutterKeeps == IInv /\ UNCHANGED vars => IInv'
  BY DEF vars, IInv, TypeOK, RegistryTracksSessions, SessionInv, Idle, Early, JobStatus, Home,
     Input, Hit, NoUpload, Row, Left, Partial

LEMMA NextKeeps == IInv /\ [Next]_vars => IInv'
<1> SUFFICES ASSUME IInv, [Next]_vars PROVE IInv'
  OBVIOUS
<1>1. CASE UNCHANGED vars
  BY <1>1, StutterKeeps
<1>2. CASE \E s \in Sessions, i \in Instances, m \in Modes : Submit(s, i, m)
  BY <1>2, StaticSubmitKeeps
<1>3. CASE \E s \in Sessions : Progress(s)
  BY <1>3, PreparedKeeps, ScannerKeeps, CommitsKeeps, IngestKeeps DEF Progress
<1>4. CASE \E i \in Instances, id \in Sessions \cup {NoSession} : Abort(i, id)
  BY <1>4, AbortKeeps
<1>5. CASE \E i \in Instances : Restart(i)
  BY <1>5, RestartKeeps
<1>6. QED
  BY <1>1, <1>2, <1>3, <1>4, <1>5 DEF Next

\* The inductive invariant holds throughout: the books of the registry and, of
\* every session, what its upload, job, CBOM and scan row are in each phase.
THEOREM Inductive == Spec => []IInv
  BY InitIInv, NextKeeps, PTL DEF Spec

-----------------------------------------------------------------------------
(* The properties *)

\* Every variable keeps its type.
THEOREM StaticTypeCorrect == Spec => []TypeOK
<1>1. IInv => TypeOK
  BY DEF IInv
<1>2. QED
  BY <1>1, Inductive, PTL

\* The registry holds exactly the sessions an abort should find, in every
\* process of a cluster of any size: deregisterScan in the finally block is enough.
THEOREM RegistryCorrect == Spec => []RegistryTracksSessions
<1>1. IInv => RegistryTracksSessions
  BY DEF IInv
<1>2. QED
  BY <1>1, Inductive, PTL

\* No upload directory is left that neither the registry nor a running scan
\* will remove; of what was received, only what was refused, or sent beside an
\* archive or a repository, is left (the handler of POST /scan/static).
THEOREM UploadsCorrect == Spec => []UploadsAreAccountedFor
<1>1. IInv => UploadsAreAccountedFor
  <2>1. SUFFICES ASSUME IInv, NEW s \in Sessions
                 PROVE  upload[s] # "none" =>
                          \/ pc[s] \in {"preparing", "scanning", "lost"}
                          \/ pc[s] = "refused" /\ s \in activeScanSessions[home[s]]
    BY <2>1 DEF UploadsAreAccountedFor, IInv, SessionInv, Left
  <2>2. upload[s] # "none" => pc[s] \in {"preparing", "scanning", "refused", "lost"}
    BY <2>1 DEF IInv, TypeOK, Phases, Working, SessionInv, Idle, NoUpload
  <2>3. CASE pc[s] = "refused"
    BY <2>1, <2>3 DEF IInv, RegistryTracksSessions, SessionInv, NoUpload, Home
  <2>4. QED
    BY <2>2, <2>3
<1>2. QED
  BY <1>1, Inductive, PTL

\* Only a scan an abort interfered with can have a partial inventory.
THEOREM PartialCorrect == Spec => []PartialOnlyIfAborted
<1>1. IInv => PartialOnlyIfAborted
  BY DEF IInv, PartialOnlyIfAborted, SessionInv, Partial, Row
<1>2. QED
  BY <1>1, Inductive, PTL

\* A stored scan is what its scanner found, and its job is or will be completed,
\* unless nobody acknowledged its COMMIT (persistScanToPostgres, ingestCbom).
THEOREM StoredScansCorrect == Spec => []StoredScansComplete
<1>1. IInv => StoredScansComplete
  BY DEF IInv, TypeOK, StoredScansComplete, SessionInv, Early, JobStatus, Row, Phases, Working
<1>2. QED
  BY <1>1, Inductive, PTL

\* A job settles once.
THEOREM JobsSettleOnceCorrect == Spec => JobsSettleOnce
<1> DEFINE Stays(s) == asyncJobs[s] \in {"completed", "failed"} /\ pc'[s] # "lost" =>
                asyncJobs'[s] = asyncJobs[s] /\ found'[s] = found[s] /\ stored'[s] = stored[s]
<1>1. ASSUME IInv, [Next]_vars, NEW s \in Sessions,
             asyncJobs[s] \in {"completed", "failed"}, pc'[s] # "lost"
      PROVE  asyncJobs'[s] = asyncJobs[s] /\ found'[s] = found[s] /\ stored'[s] = stored[s]
  <2> USE <1>1
  <2>1. pc[s] \in {"done", "disowned"}
    BY DEF IInv, TypeOK, SessionInv, JobStatus, Idle, Phases, Working
  <2>2. CASE UNCHANGED vars
    BY <2>2 DEF vars
  <2>3. ASSUME NEW u \in Sessions, NEW i \in Instances, NEW m \in Modes, Submit(u, i, m)
        PROVE  u # s /\ UNCHANGED <<found, stored>> /\ asyncJobs'[s] = asyncJobs[s]
    BY <2>1, <2>3 DEF IInv, TypeOK, Submit, StartJob
  <2>4. ASSUME NEW u \in Sessions, Progress(u) PROVE Untouched(s)
    BY <2>1, <2>4 DEF IInv, TypeOK, Untouched, Progress, Prepared, ScannerExits, Commits,
       IngestEnds, FinishJob, updateJob, Goto, SetUpload, StartJob, Receive
  <2>5. CASE \E i \in Instances, id \in Sessions \cup {NoSession} : Abort(i, id)
    BY <2>5 DEF Abort
  <2>6. CASE \E i \in Instances : Restart(i)
    BY <2>6 DEF IInv, TypeOK, Restart
  <2>7. QED
    BY <2>2, <2>3, <2>4, <2>5, <2>6 DEF Next, Untouched
<1>2. IInv /\ [Next]_vars => [\A s \in Sessions : Stays(s)]_vars
  BY <1>1
<1>3. QED
  BY <1>2, Inductive, PTL DEF Spec, JobsSettleOnce

=============================================================================
