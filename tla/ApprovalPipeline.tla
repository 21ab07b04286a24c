--------------------------- MODULE ApprovalPipeline ---------------------------
(***************************************************************************)
(* What the remediation approval engine promises its callers, with every  *)
(* operation taken as one indivisible step on the approval record: the     *)
(* governance pipeline PROPOSED -> REVIEWED -> APPROVED -> APPLIED ->      *)
(* VERIFIED with its side exits ROLLED_BACK and FAILED.  It keeps only the *)
(* lifecycle state, who proposed, who signed (reviewed or approved), and   *)
(* whether the change needs an explicit approval.  RemediationApproval,    *)
(* where an operation is a database read and a later database write, is    *)
(* checked against it.                                                     *)
(***************************************************************************)

CONSTANTS
  Users,      \* the actors of the workflow
  NoUser      \* the absence of an actor

VARIABLES
  state,      \* lifecycle state of the approval record, "ABSENT" when none
  proposer,   \* who proposed it
  signers,    \* who reviewed or approved it
  explicit    \* requires_explicit_approval

vars == <<state, proposer, signers, explicit>>

States == {"PROPOSED", "REVIEWED", "APPROVED", "APPLIED", "VERIFIED",
           "ROLLED_BACK", "FAILED"}

Init ==
  /\ state = "ABSENT"
  /\ proposer = NoUser
  /\ signers = {}
  /\ explicit = FALSE

Move(from, to) ==
  /\ state \in from
  /\ state' = to
  /\ UNCHANGED <<proposer, signers, explicit>>

\* Somebody who is not the proposer signs the record on.
Sign(from, to) ==
  /\ state = from
  /\ state' = to
  /\ \E u \in Users \ {proposer} : signers' = signers \cup {u}
  /\ UNCHANGED <<proposer, explicit>>

Propose ==
  /\ state = "ABSENT"
  /\ state' = "PROPOSED"
  /\ proposer' \in Users
  /\ explicit' \in BOOLEAN
  /\ UNCHANGED signers

Review  == Sign("PROPOSED", "REVIEWED")
Approve == Sign("REVIEWED", "APPROVED")

\* An explicit change is applied from APPROVED only.
Apply ==
  \/ Move({"APPROVED"}, "APPLIED")
  \/ ~explicit /\ Move({"PROPOSED", "REVIEWED"}, "APPLIED")

Verify   == Move({"APPLIED"}, "VERIFIED")
Rollback == Move({"REVIEWED", "APPROVED", "APPLIED"}, "ROLLED_BACK")
Fail     == Move(States, "FAILED")

Delete ==
  /\ state # "ABSENT"
  /\ state' = "ABSENT"
  /\ proposer' = NoUser
  /\ signers' = {}
  /\ explicit' = FALSE

Next == Propose \/ Review \/ Approve \/ Apply \/ Verify \/ Rollback \/ Fail \/ Delete

Spec == Init /\ [][Next]_vars

=============================================================================
