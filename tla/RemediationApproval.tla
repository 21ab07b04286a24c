-------------------------- MODULE RemediationApproval --------------------------
(***************************************************************************)
(* The remediation approval engine (remediation/approval_workflow.js) as   *)
(* the routes of routes/remediation.js drive it.                           *)
(*                                                                         *)
(* One approval id of the table `remediations` is modelled: every          *)
(* statement of the engine touches the row of one id.  An operation reads  *)
(* the row (await), decides on that snapshot, and writes state, history    *)
(* and metadata back (await) with an UPDATE guarded by the id alone, so    *)
(* the requests of several workers interleave between the two awaits.      *)
(* POST /apply-patch also writes the patched file, between a first read    *)
(* of its own and the engine's.                                            *)
(*                                                                         *)
(* Data is abstracted: users are lower-cased names, a patch is the number  *)
(* of the proposal that carried it, an HMAC of (previous hash, transition) *)
(* is the sequence of the transitions hashed so far (no collisions).       *)
(***************************************************************************)
EXTENDS Naturals, Sequences

CONSTANTS
  Users,          \* the actors of the workflow
  NoUser,         \* the absence of an actor
  Workers,        \* requests the server handles at the same time
  MayDo,          \* [Operations -> SUBSET Users]: who passes the role lists
  Reasons,        \* the free-text reasons callers give, by what they quote
  MaxHistory,     \* bound: length of an audit history
  MaxProposals,   \* bound: proposals made under this id (2: the id is re-used)
  MaxFileWrites   \* bound: patched-file writes

VARIABLES
  row,        \* the row of this id in the table `remediations`
  pc,         \* pc[w]: where worker w's request is
  snap,       \* snap[w]: the record worker w read, with the changes it made
  by,         \* by[w]: the actor of worker w's request
  proposals,  \* proposals inserted so far
  fileLog     \* the patches written to the target file, in order

vars == <<row, pc, snap, by, proposals, fileLog>>

-----------------------------------------------------------------------------
(* The record *)

States == {"PROPOSED", "REVIEWED", "APPROVED", "APPLIED", "VERIFIED",
           "ROLLED_BACK", "FAILED"}

Operations == {"propose", "review", "approve", "apply", "verify", "rollback",
               "fail", "delete", "apply_patch"}

\* What a client sends as verification evidence: finding_resolved true, false,
\* or verification_results without that field.
Evidence == {"resolved", "unresolved", "absent"}

\* A reason by the engine's own phrases it quotes.
ReasonKinds == {"plain", "quotes_rollback", "quotes_failure"}

Notes == {"none", "garbled"} \cup Evidence \cup ReasonKinds

ASSUME ConstantsOK ==
  /\ NoUser \notin Users
  /\ MayDo \in [Operations -> SUBSET Users]
  /\ Reasons \subseteq ReasonKinds
  /\ MaxHistory \in Nat /\ MaxProposals \in Nat /\ MaxFileWrites \in Nat

Transition == [from : States \cup {"ABSENT"}, to : States, actor : Users, note : Notes]

Event == [step : Transition, hash : Seq(Transition)]

Row == [state    : States \cup {"ABSENT"},
        proposer : Users \cup {NoUser},
        approver : Users \cup {NoUser},
        patch    : Nat,
        explicit : BOOLEAN,
        history  : Seq(Event),
        hash     : Seq(Transition)]

\* The value of row and snap when there is no record.
NoRow == [state |-> "ABSENT", proposer |-> NoUser, approver |-> NoUser, patch |-> 0,
          explicit |-> FALSE, history |-> <<>>, hash |-> <<>>]

Exists == row.state # "ABSENT"

\* _computeTransitionHash
TransitionHash(prevHash, step) == Append(prevHash, step)

\* The change-control rule over normalised categories: the six sensitive ones,
\* and any other category that mentions CONFIG, in production.
Categories == {"sensitive", "config", "other"}
Environments == {"production", "staging"}
RequiresExplicitApproval(category, environment) ==
  \/ category = "sensitive"
  \/ environment = "production" /\ category = "config"

\* The audit event of a transition from record r: what happened, and its hash.
NewEvent(r, actor, to, note) ==
  LET step == [from |-> r.state, to |-> to, actor |-> actor, note |-> note]
  IN  [step |-> step, hash |-> TransitionHash(r.hash, step)]

\* The record with that event: the new state, the longer audit_history, and
\* metadata.current_state_hash.
Extend(r, actor, to, note) ==
  LET event == NewEvent(r, actor, to, note)
  IN  [r EXCEPT !.state = to,
                !.history = Append(r.history, event),
                !.hash = event.hash]

Init ==
  /\ row = NoRow
  /\ pc = [w \in Workers |-> "idle"]
  /\ snap = [w \in Workers |-> NoRow]
  /\ by = [w \in Workers |-> NoUser]
  /\ proposals = 0
  /\ fileLog = <<>>

-----------------------------------------------------------------------------
(* Operations that are one database statement *)

Propose(w, u, category, environment) ==
  LET fresh == [NoRow EXCEPT !.proposer = u,
                             !.patch = proposals + 1,
                             !.explicit = RequiresExplicitApproval(category, environment)]
  IN  /\ pc[w] = "idle"
      /\ u \in MayDo["propose"]
      /\ ~Exists
      /\ proposals < MaxProposals
      /\ row' = Extend(fresh, u, "PROPOSED", "none")
      /\ proposals' = proposals + 1
      /\ UNCHANGED <<pc, snap, by, fileLog>>

Delete(w, u) ==
  /\ pc[w] = "idle"
  /\ u \in MayDo["delete"]
  /\ Exists
  /\ row' = NoRow
  /\ UNCHANGED <<pc, snap, by, proposals, fileLog>>

-----------------------------------------------------------------------------
(* Operations that read the row and write it back *)

\* getApproval resolves for worker w and the operation decides to move on: what
\* it will write is fixed now, from the snapshot.
Decide(w, u, to, note) ==
  /\ Exists
  /\ Len(row.history) < MaxHistory
  /\ snap' = [snap EXCEPT ![w] = Extend(row, u, to, note)]
  /\ pc' = [pc EXCEPT ![w] = "updating"]
  /\ by' = [by EXCEPT ![w] = u]
  /\ UNCHANGED <<row, proposals, fileLog>>

ReviewRemediation(w, u) ==
  /\ pc[w] = "idle"
  /\ row.state = "PROPOSED"
  /\ row.proposer # u
  /\ u \in MayDo["review"]
  /\ Decide(w, u, "REVIEWED", "none")

ApproveRemediation_OwnProposal(w, u) ==
  /\ pc[w] = "idle"
  /\ row.state = "REVIEWED"
  /\ u \in MayDo["approve"]
  /\ Decide(w, u, "APPROVED", "none")

ApproveRemediation(w, u) ==
  /\ pc[w] = "idle"
  /\ row.state = "REVIEWED"
  /\ row.proposer # u
  /\ u \in MayDo["approve"]
  /\ Decide(w, u, "APPROVED", "none")

MayApply_IgnoresExplicit == row.state \in {"APPROVED", "REVIEWED", "PROPOSED"}

MayApply ==
  /\ row.explicit => row.state = "APPROVED"
  /\ row.state \in {"APPROVED", "REVIEWED", "PROPOSED"}

ApplyRemediation(w, u) ==
  /\ pc[w] = "idle"
  /\ u \in MayDo["apply"]
  /\ MayApply
  /\ Decide(w, u, "APPLIED", "none")

\* No proposal sets metadata.patch_target_path, so the evidence is the
\* client's: `finding_resolved ?? true`, and neither value is a failure.
VerifyRemediation(w, u, evidence) ==
  /\ pc[w] = "idle"
  /\ u \in MayDo["verify"]
  /\ row.state = "APPLIED"
  /\ Decide(w, u, "VERIFIED", evidence)

RollbackRemediation_AnyState(w, u, reason) ==
  /\ pc[w] = "idle"
  /\ u \in MayDo["rollback"]
  /\ Decide(w, u, "ROLLED_BACK", reason)

RollbackRemediation(w, u, reason) ==
  /\ pc[w] = "idle"
  /\ u \in MayDo["rollback"]
  /\ row.state \in {"APPLIED", "APPROVED", "REVIEWED"}
  /\ Decide(w, u, "ROLLED_BACK", reason)

\* Rejection asks for no particular state.
FailRemediation(w, u, reason) ==
  /\ pc[w] = "idle"
  /\ u \in MayDo["fail"]
  /\ Decide(w, u, "FAILED", reason)

Update_KeepsHash(w) ==
  /\ pc[w] = "updating"
  /\ row' = IF Exists
              THEN [row EXCEPT !.state = snap[w].state,
                               !.explicit = snap[w].explicit,
                               !.history = snap[w].history,
                               !.approver = IF snap[w].state = "APPROVED" THEN by[w] ELSE @]
              ELSE row
  /\ pc' = [pc EXCEPT ![w] = "idle"]
  /\ snap' = [snap EXCEPT ![w] = NoRow]
  /\ by' = [by EXCEPT ![w] = NoUser]
  /\ UNCHANGED <<proposals, fileLog>>

\* db("remediations").where({ id }).update(...): the columns written come from
\* the snapshot, proposer and patch_content stay; a deleted row matches nothing.
Update(w) ==
  /\ pc[w] = "updating"
  /\ row' = IF Exists
              THEN [row EXCEPT !.state = snap[w].state,
                               !.explicit = snap[w].explicit,
                               !.history = snap[w].history,
                               !.hash = snap[w].hash,
                               !.approver = IF snap[w].state = "APPROVED" THEN by[w] ELSE @]
              ELSE row
  /\ pc' = [pc EXCEPT ![w] = "idle"]
  /\ snap' = [snap EXCEPT ![w] = NoRow]
  /\ by' = [by EXCEPT ![w] = NoUser]
  /\ UNCHANGED <<proposals, fileLog>>

-----------------------------------------------------------------------------
(* POST /apply-patch with an approval id *)

WasApplied(history) == \E i \in DOMAIN history : history[i].step.to = "APPLIED"

\* The route's own getApproval and its checks.
PatchRead(w, u) ==
  /\ pc[w] = "idle"
  /\ u \in MayDo["apply_patch"]
  /\ row.state = "APPROVED"
  /\ ~WasApplied(row.history)
  /\ snap' = [snap EXCEPT ![w] = row]
  /\ pc' = [pc EXCEPT ![w] = "patching"]
  /\ by' = [by EXCEPT ![w] = u]
  /\ UNCHANGED <<row, proposals, fileLog>>

\* The safety lifecycle rejects the patch: the request ends, nothing changes.
PatchRejected(w) ==
  /\ pc[w] = "patching"
  /\ pc' = [pc EXCEPT ![w] = "idle"]
  /\ snap' = [snap EXCEPT ![w] = NoRow]
  /\ by' = [by EXCEPT ![w] = NoUser]
  /\ UNCHANGED <<row, proposals, fileLog>>

\* fs.writeFileSync, before the engine is told.
PatchFile(w) ==
  /\ pc[w] = "patching"
  /\ Len(fileLog) < MaxFileWrites
  /\ fileLog' = Append(fileLog, snap[w].patch)
  /\ pc' = [pc EXCEPT ![w] = "applying"]
  /\ snap' = [snap EXCEPT ![w] = NoRow]
  /\ UNCHANGED <<row, by, proposals>>

\* engine.applyRemediation reads the row a second time (as a deployer).
PatchApply(w) ==
  /\ pc[w] = "applying"
  /\ MayApply
  /\ Decide(w, by[w], "APPLIED", "none")

\* ... and throws when the row is gone or no longer in a state to apply.
PatchApplyFails(w) ==
  /\ pc[w] = "applying"
  /\ ~MayApply
  /\ pc' = [pc EXCEPT ![w] = "idle"]
  /\ by' = [by EXCEPT ![w] = NoUser]
  /\ UNCHANGED <<row, snap, proposals, fileLog>>

\* The process dies: requests in flight are lost, the table and the file stay.
Restart ==
  /\ \E w \in Workers : pc[w] # "idle"
  /\ pc' = [w \in Workers |-> "idle"]
  /\ snap' = [w \in Workers |-> NoRow]
  /\ by' = [w \in Workers |-> NoUser]
  /\ UNCHANGED <<row, proposals, fileLog>>

-----------------------------------------------------------------------------

Request(w) ==
  \/ \E u \in Users, category \in Categories, environment \in Environments :
       Propose(w, u, category, environment)
  \/ \E u \in Users :
       \/ Delete(w, u)
       \/ ReviewRemediation(w, u)
       \/ ApproveRemediation(w, u)
       \/ ApplyRemediation(w, u)
       \/ \E evidence \in Evidence : VerifyRemediation(w, u, evidence)
       \/ \E reason \in Reasons : RollbackRemediation(w, u, reason)
       \/ \E reason \in Reasons : FailRemediation(w, u, reason)
       \/ PatchRead(w, u)
  \/ Update(w)
  \/ PatchRejected(w)
  \/ PatchFile(w)
  \/ PatchApply(w)
  \/ PatchApplyFails(w)

Next ==
  \/ \E w \in Workers : Request(w)
  \/ Restart

Spec == Init /\ [][Next]_vars

-----------------------------------------------------------------------------
(* Properties *)

\* Every variable holds what the code could have stored in it.
TypeOK ==
  /\ row \in Row
  /\ pc \in [Workers -> {"idle", "updating", "patching", "applying"}]
  /\ snap \in [Workers -> Row]
  /\ by \in [Workers -> Users \cup {NoUser}]
  /\ \A w \in Workers : pc[w] # "idle" => by[w] \in Users
  /\ proposals \in Nat
  /\ fileLog \in Seq(Nat)

\* verifyStateChain's reading of the reason out of the stored comment: both
\* engine phrases are stripped, so a reason that quotes the other operation's
\* phrase does not come back.
ExtractReason(to, reason) ==
  IF \/ to = "ROLLED_BACK" /\ reason = "quotes_failure"
     \/ to = "FAILED" /\ reason = "quotes_rollback"
  THEN "garbled"
  ELSE reason

\* The transition an event is verified against.
Recomputed(event) ==
  [event.step EXCEPT !.note = ExtractReason(event.step.to, event.step.note)]

PrevHash(r, i) == IF i = 1 THEN <<>> ELSE r.history[i - 1].hash

\* verifyStateChain: every event's hash recomputed from its predecessor's, and
\* the terminal hash compared with metadata.current_state_hash.
VerifyStateChain(r) ==
  /\ \A i \in DOMAIN r.history :
       r.history[i].hash = TransitionHash(PrevHash(r, i), Recomputed(r.history[i]))
  /\ r.hash = PrevHash(r, Len(r.history) + 1)

\* The state column is where the history ends.
StateIsHistoryEnd(r) ==
  r.state = IF r.history = <<>> THEN "ABSENT" ELSE r.history[Len(r.history)].step.to

\* A reason in the history quotes one of the engine's phrases.
QuotesEngine(r) ==
  \E i \in DOMAIN r.history : r.history[i].step.note \in {"quotes_rollback", "quotes_failure"}

\* Whatever the interleaving of requests, restarts and deletions, the record in
\* the table passes the engine's own verification of its history
\* (verifyStateChain), unless a reason quotes the engine's phrases, and the
\* state column is where that history ends.
StateChainValid ==
  /\ ~QuotesEngine(row) => VerifyStateChain(row)
  /\ StateIsHistoryEnd(row)

\* The moves the workflow allows, explicit approval taken into account.
LegalMove(from, to, explicit) ==
  \/ from = "PROPOSED" /\ to = "REVIEWED"
  \/ from = "REVIEWED" /\ to = "APPROVED"
  \/ from = "APPROVED" /\ to = "APPLIED"
  \/ ~explicit /\ from \in {"PROPOSED", "REVIEWED"} /\ to = "APPLIED"
  \/ from = "APPLIED" /\ to = "VERIFIED"
  \/ from \in {"REVIEWED", "APPROVED", "APPLIED"} /\ to = "ROLLED_BACK"
  \/ to = "FAILED"

\* Event i of r starts where the event before it ended, and moves legally.
LegalEvent(r, i) ==
  LET step == r.history[i].step
  IN  IF i = 1
        THEN step.from = "ABSENT" /\ step.to = "PROPOSED"
        ELSE /\ step.from = r.history[i - 1].step.to
             /\ LegalMove(step.from, step.to, r.explicit)

IsWorkflowPath(r) == \A i \in DOMAIN r.history : LegalEvent(r, i)

\* The stored history is a path of the workflow: it starts with the proposal,
\* each event starts where the one before ended, and a change that requires
\* explicit approval has an APPLIED event only right after an APPROVED one,
\* even when requests decided on rows that had changed by the time they wrote.
HistoryIsWorkflowPath == IsWorkflowPath(row)

\* Four eyes, as long as the approval id is not used again for another
\* proposal: nobody who proposed a change reviewed or approved it, by the
\* record's history and by its proposer and approver columns.  (An approve in
\* flight over a deletion and a new proposal under the same id lands on the new
\* record, whose proposer may be the approver.)
FourEyes ==
  proposals <= 1 /\ Exists =>
    /\ row.approver # row.proposer
    /\ \A i \in DOMAIN row.history :
         row.history[i].step.to \in {"REVIEWED", "APPROVED"}
           => row.history[i].step.actor \notin {row.proposer, row.history[1].step.actor}

\* An approval is used once: the route answers "has already been applied.
\* One-time use only." to a second application of its patch.
OneTimeUse == \A i, j \in DOMAIN fileLog : fileLog[i] = fileLog[j] => i = j

\* Who reviewed or approved, by the history.
Signers == {row.history[i].step.actor : i \in
              {j \in DOMAIN row.history : row.history[j].step.to \in {"REVIEWED", "APPROVED"}}}

\* The record abstracted to the pipeline.
Pipeline == INSTANCE ApprovalPipeline
              WITH state <- row.state, proposer <- row.proposer,
                   signers <- Signers, explicit <- row.explicit

\* The engine implements the pipeline.
PipelineSpec == Pipeline!Spec

=============================================================================
