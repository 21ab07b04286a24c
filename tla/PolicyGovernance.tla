--------------------------- MODULE PolicyGovernance ---------------------------
(***************************************************************************)
(* The life of a policy version (backend/scanners/policy_security.py):     *)
(* draft, submission, approval by a second administrator, activation,      *)
(* replacement, rejection and rollback, the ledger that records them, and  *)
(* the dry run of a version on assets, which is an evaluation by           *)
(* PolicyEngine at the current time.                                       *)
(*                                                                         *)
(* Of the ledger only its meaning is kept: what somebody who reads all its *)
(* entries in order, and nothing else, takes each version's status to be.  *)
(* (Its hash chain is the subject of AuditTrail, which has the same form.) *)
(*                                                                         *)
(* One controller object serves all callers; a call is one step.  A call   *)
(* that raises changes nothing and is not a step.                          *)
(***************************************************************************)
EXTENDS PolicyEngine

CONSTANTS
  Versions,     \* the versions policies carry
  Admins,       \* the actors whose role is admin
  NoOne,        \* no author, no approver
  NoVersion,    \* no active version
  Documents,    \* the policy documents that callers submit
  Assets,       \* the assets of a dry run
  MaxClock      \* bound on the clock

ASSUME VersionsAssumption == NoVersion \notin Versions /\ MaxClock \in Nat \ {0}

\* What the schema asks of a document (rules/schemas/policy_as_code.schema.json): a rule's
\* action is one of three, and a date is a date.
ASSUME DocumentsAssumption ==
  \A d \in {e \in Documents : ValidPolicy(e)} :
    /\ \A r \in d.rules : /\ r.action \in {"ALLOW", "WARN", "BLOCK"}
                          /\ r.deprecation \in Nat /\ r.enforcement \in Nat
    /\ \A e \in d.exceptions : e.from \in Nat /\ e.until \in Nat

VARIABLES
  versions,     \* versions: status, author, approver and document of each
  active,       \* active_version
  ledger,       \* audit_log, by what its entries tell
  clock,        \* the time at which a dry run evaluates
  report        \* the last dry run

governanceVars == <<versions, active, ledger, clock, report>>

Statuses == {"DRAFT", "PENDING_APPROVAL", "APPROVED", "REJECTED", "ACTIVE",
             "SUPERSEDED", "ROLLED_BACK"}

Absent   == [status |-> "ABSENT", author |-> NoOne, approver |-> NoOne]
NoReport == [safe |-> FALSE, at |-> 0]

-----------------------------------------------------------------------------
(* The ledger *)

NothingTold == [status |-> [v \in Versions |-> "ABSENT"], active |-> NoVersion]

\* What a reader knows after one more entry, by its action and its version.  A
\* rollback is one entry; the version it leaves is the one active until then.
Told(state, action, v) ==
  LET known(status) == [state EXCEPT !.status[v] = status]
  IN  CASE action = "POLICY_DRAFT_CREATED" -> known("DRAFT")
        [] action = "POLICY_SUBMITTED_FOR_APPROVAL" -> known("PENDING_APPROVAL")
        [] action = "POLICY_APPROVED" -> known("APPROVED")
        [] action = "POLICY_REJECTED" -> known("REJECTED")
        [] action = "POLICY_SUPERSEDED" -> known("SUPERSEDED")
        [] action = "POLICY_ACTIVATED" ->
             [known("ACTIVE") EXCEPT !.active = v]
        [] action = "POLICY_ROLLED_BACK" ->
             [active |-> v,
              status |-> [w \in Versions |-> IF w = v THEN "ACTIVE"
                                            ELSE IF w = state.active THEN "ROLLED_BACK"
                                            ELSE state.status[w]]]
        [] OTHER -> state

\* _append_audit_entry
Record(action, v) == ledger' = Told(ledger, action, v)

-----------------------------------------------------------------------------
(* The operations *)

Exists(v) == versions[v].status # "ABSENT"

SetStatus(v, status) == [versions EXCEPT ![v].status = status]

\* create_draft: a version is immutable once approved, active or superseded.
CreateDraft(v, author, document) ==
  /\ author \in Admins
  /\ ValidPolicy(document)
  /\ versions[v].status \notin {"ACTIVE", "APPROVED", "SUPERSEDED"}
  /\ versions' = [versions EXCEPT ![v] = [status |-> "DRAFT", author |-> author,
                                          approver |-> NoOne, document |-> document]]
  /\ Record("POLICY_DRAFT_CREATED", v)
  /\ UNCHANGED <<active, clock, report>>

SubmitForApproval(v, submitter) ==
  /\ submitter \in Admins
  /\ versions[v].status = "DRAFT"
  /\ versions' = SetStatus(v, "PENDING_APPROVAL")
  /\ Record("POLICY_SUBMITTED_FOR_APPROVAL", v)
  /\ UNCHANGED <<active, clock, report>>

ApprovePolicy(v, approver) ==
  /\ approver \in Admins
  /\ versions[v].status = "PENDING_APPROVAL"
  /\ approver # versions[v].author
  /\ versions' = [versions EXCEPT ![v].status = "APPROVED", ![v].approver = approver]
  /\ Record("POLICY_APPROVED", v)
  /\ UNCHANGED <<active, clock, report>>

\* reject_policy looks at no status: the active version can be rejected, and
\* stays the active version.
RejectPolicy(v, reviewer) ==
  /\ reviewer \in Admins
  /\ Exists(v)
  /\ versions' = SetStatus(v, "REJECTED")
  /\ Record("POLICY_REJECTED", v)
  /\ UNCHANGED <<active, clock, report>>

\* Mutant: the supersession of the active version is not recorded.
ActivatePolicy_Silent(v, admin) ==
  /\ admin \in Admins
  /\ versions[v].status = "APPROVED"
  /\ versions' = [IF active = NoVersion THEN versions ELSE SetStatus(active, "SUPERSEDED")
                   EXCEPT ![v].status = "ACTIVE"]
  /\ Record("POLICY_ACTIVATED", v)
  /\ active' = v
  /\ UNCHANGED <<clock, report>>

\* activate_policy: the active version is superseded whatever its status.
ActivatePolicy(v, admin) ==
  /\ admin \in Admins
  /\ versions[v].status = "APPROVED"
  /\ LET superseded == IF active = NoVersion THEN versions ELSE SetStatus(active, "SUPERSEDED")
         told == IF active = NoVersion THEN ledger
                 ELSE Told(ledger, "POLICY_SUPERSEDED", active)
     IN  /\ versions' = [superseded EXCEPT ![v].status = "ACTIVE"]
         /\ ledger' = Told(told, "POLICY_ACTIVATED", v)
  /\ active' = v
  /\ UNCHANGED <<clock, report>>

\* rollback_to_version
RollbackToVersion(target, admin) ==
  /\ admin \in Admins
  /\ versions[target].status \in {"SUPERSEDED", "APPROVED", "ACTIVE"}
  /\ LET left == IF active = NoVersion THEN versions ELSE SetStatus(active, "ROLLED_BACK")
     IN  versions' = [left EXCEPT ![target].status = "ACTIVE"]
  /\ active' = target
  /\ Record("POLICY_ROLLED_BACK", target)
  /\ UNCHANGED <<clock, report>>

\* test_policy on a stored version: nothing but the report.
TestPolicy(v) ==
  /\ Exists(v)
  /\ LET result == Evaluate(versions[v].document, Assets, NoName, clock, FALSE)
     IN  report' = [safe     |-> \A a \in DOMAIN result.verdicts : result.verdicts[a] # "BLOCK",
                    at       |-> clock,
                    document |-> versions[v].document]
  /\ UNCHANGED <<versions, active, ledger, clock>>

Tick ==
  /\ clock < MaxClock
  /\ clock' = clock + 1
  /\ UNCHANGED <<versions, active, ledger, report>>

-----------------------------------------------------------------------------
GovernanceInit ==
  /\ versions = [v \in Versions |-> Absent]
  /\ active = NoVersion
  /\ ledger = NothingTold
  /\ clock = 1
  /\ report = NoReport

GovernanceNext ==
  \/ \E v \in Versions :
       \/ \E a \in Admins :
            \/ \E d \in Documents : CreateDraft(v, a, d)
            \/ SubmitForApproval(v, a)
            \/ ApprovePolicy(v, a)
            \/ RejectPolicy(v, a)
            \/ ActivatePolicy(v, a)
            \/ RollbackToVersion(v, a)
       \/ TestPolicy(v)
  \/ Tick

GovernanceSpec == GovernanceInit /\ [][GovernanceNext]_governanceVars

-----------------------------------------------------------------------------
(* Properties *)

GovernanceTypeOK ==
  /\ \A v \in Versions :
       /\ versions[v].status \in Statuses \cup {"ABSENT"}
       /\ versions[v].author \in Admins \cup {NoOne}
       /\ versions[v].approver \in Admins \cup {NoOne}
  /\ active \in Versions \cup {NoVersion}
  /\ ledger.status \in [Versions -> Statuses \cup {"ABSENT"}]
  /\ clock \in 1 .. MaxClock
  /\ report.at \in 0 .. clock

\* No version but the active one has the status ACTIVE, and an approved
\* version was approved by another than its author, whatever was rejected,
\* drafted again or rolled back before.
OneActive ==
  \A v \in Versions :
    /\ versions[v].status = "ACTIVE" => v = active
    /\ versions[v].status = "APPROVED" =>
         versions[v].approver \in Admins \ {versions[v].author}

\* Reading the ledger gives the status of every version and the active
\* version: no operation changes more, or in another order, than it records.
LedgerTellsStatus ==
  ledger = [status |-> [v \in Versions |-> versions[v].status], active |-> active]

\* A dry run calls a policy safe for production only if every rule that would
\* block an asset at that time is covered by an exception that applies to the
\* asset, is approved, has started and has not run out.
SafeMeansCovered ==
  report.safe =>
    \A rule \in report.document.rules, raw \in Assets :
      LET asset == NormalizeAsset(raw, NoName)
      IN  RuleHits(rule, asset) /\ RawAction(rule, report.at) = "BLOCK" =>
            \E e \in report.document.exceptions :
              /\ Applies(e, rule, asset)
              /\ e.status = "APPROVED"
              /\ e.from <= report.at
              /\ e.until = NoDate \/ report.at <= e.until

Verdict(v, now) == Evaluate(versions[v].document, Assets, NoName, now, FALSE).verdict

\* As time passes a policy never judges the same assets more mildly, unless an
\* exception of its starts: deadlines only harden and exceptions only lapse.
\* (A rule that allows what it first warns about is meant to relax.)
HardensWithTime ==
  [][\A v \in Versions :
       clock' > clock /\ Exists(v)
       /\ (\A e \in versions[v].document.exceptions : e.from <= clock)
       /\ (\A r \in versions[v].document.rules : r.action # "ALLOW")
       => Rank[Verdict(v, clock')] >= Rank[Verdict(v, clock)]]_governanceVars

\* Doc claim of the module (Four-eyes approval workflow, author # approver):
\* whatever is active was approved by another than its author.
ActiveWasApproved ==
  \A v \in Versions : versions[v].status = "ACTIVE" =>
    versions[v].approver \in Admins \ {versions[v].author}

\* Statuses, approvals, the active version and the ledger agree, whatever two
\* administrators do in whatever order.
BooksAgree == GovernanceTypeOK /\ OneActive /\ LedgerTellsStatus

===============================================================================
