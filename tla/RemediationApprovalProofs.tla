----------------------- MODULE RemediationApprovalProofs -----------------------
(***************************************************************************)
(* Theorems about RemediationApproval, for any number of users, workers,   *)
(* proposals and transitions.  The argument: a record read from the table  *)
(* is good when its history is a hash-linked path of the workflow that     *)
(* ends in its state; extending a good record by a legal move gives a good *)
(* record; every worker holds a good record; and an UPDATE replaces all of *)
(* the fields goodness speaks of at once, so whatever row it lands on is   *)
(* good afterwards.                                                        *)
(***************************************************************************)
EXTENDS RemediationApproval, TLAPS

-----------------------------------------------------------------------------
(* Type correctness *)

LEMMA NoRowType == NoRow \in Row
  BY ConstantsOK DEF NoRow, Row, States

LEMMA NewEventFields ==
  ASSUME NEW r \in Row, NEW actor \in Users, NEW to \in States, NEW note \in Notes
  PROVE  LET e == NewEvent(r, actor, to, note)
         IN  /\ e \in Event
             /\ e.step \in Transition
             /\ e.step.from = r.state /\ e.step.to = to
             /\ e.step.actor = actor /\ e.step.note = note
             /\ e.hash = Append(r.hash, e.step)
<1> DEFINE step == [from |-> r.state, to |-> to, actor |-> actor, note |-> note]
<1>1. step \in Transition
  BY DEF Transition, Row
<1>2. Append(r.hash, step) \in Seq(Transition)
  BY <1>1 DEF Row
<1>3. NewEvent(r, actor, to, note) = [step |-> step, hash |-> Append(r.hash, step)]
  BY DEF NewEvent, TransitionHash
<1>4. step.from = r.state /\ step.to = to /\ step.actor = actor /\ step.note = note
  OBVIOUS
<1> HIDE DEF step
<1>5. QED
  BY <1>1, <1>2, <1>3, <1>4 DEF Event

\* What Extend does to each field.
LEMMA ExtendFields ==
  ASSUME NEW r \in Row, NEW actor \in Users, NEW to \in States, NEW note \in Notes
  PROVE  LET x == Extend(r, actor, to, note)
             e == NewEvent(r, actor, to, note)
         IN  /\ x \in Row
             /\ x.state = to
             /\ x.history = Append(r.history, e)
             /\ x.hash = e.hash
             /\ x.explicit = r.explicit /\ x.proposer = r.proposer
             /\ x.approver = r.approver /\ x.patch = r.patch
<1> DEFINE e == NewEvent(r, actor, to, note)
<1>1. e \in Event /\ e.hash \in Seq(Transition)
  BY NewEventFields DEF Event
<1>2. Extend(r, actor, to, note) =
        [r EXCEPT !.state = to, !.history = Append(r.history, e), !.hash = e.hash]
  BY DEF Extend
<1> HIDE DEF e
<1>3. Append(r.history, e) \in Seq(Event)
  BY <1>1 DEF Row
<1>4. QED
  BY <1>1, <1>2, <1>3 DEF Row, e

\* The record before its proposal event.
Fresh(u, patch, explicit) ==
  [NoRow EXCEPT !.proposer = u, !.patch = patch, !.explicit = explicit]

\* A record as it is inserted, and as an UPDATE from snapshot x leaves row r.
Inserted(u, patch, explicit) ==
  Extend(Fresh(u, patch, explicit), u, "PROPOSED", "none")

Overwritten(r, x, approver) ==
  [r EXCEPT !.state = x.state, !.explicit = x.explicit, !.history = x.history,
            !.hash = x.hash, !.approver = approver]

LEMMA OverwrittenFields ==
  ASSUME NEW r \in Row, NEW x \in Row, NEW a \in Users \cup {NoUser}
  PROVE  LET o == Overwritten(r, x, a)
         IN  /\ o \in Row
             /\ o.state = x.state /\ o.explicit = x.explicit
             /\ o.history = x.history /\ o.hash = x.hash
             /\ o.approver = a /\ o.proposer = r.proposer /\ o.patch = r.patch
  BY DEF Overwritten, Row

LEMMA FreshFields ==
  ASSUME NEW u \in Users, NEW patch \in Nat, NEW explicit \in BOOLEAN
  PROVE  LET f == Fresh(u, patch, explicit)
         IN  /\ f \in Row
             /\ f.state = "ABSENT" /\ f.proposer = u /\ f.approver = NoUser
             /\ f.hash = <<>> /\ f.history = <<>>
  BY NoRowType DEF Fresh, NoRow, Row

LEMMA ProposalTypes == "PROPOSED" \in States /\ "none" \in Notes
  BY DEF States, Notes

LEMMA InsertedFields ==
  ASSUME NEW u \in Users, NEW patch \in Nat, NEW explicit \in BOOLEAN
  PROVE  LET i == Inserted(u, patch, explicit)
             e == NewEvent(Fresh(u, patch, explicit), u, "PROPOSED", "none")
         IN  /\ i \in Row
             /\ i.state = "PROPOSED" /\ i.proposer = u /\ i.approver = NoUser
             /\ i.history = <<e>> /\ i.hash = e.hash
             /\ e \in Event
             /\ e.step.from = "ABSENT" /\ e.step.to = "PROPOSED"
             /\ e.step.actor = u /\ e.step.note = "none"
             /\ e.hash = Append(<<>>, e.step)
<1> DEFINE f == Fresh(u, patch, explicit)
           e == NewEvent(f, u, "PROPOSED", "none")
<1>1. /\ f \in Row
      /\ f.state = "ABSENT" /\ f.proposer = u /\ f.approver = NoUser
      /\ f.hash = <<>> /\ f.history = <<>>
  BY FreshFields
<1> HIDE DEF f
<1>2. /\ e \in Event
      /\ e.step.from = "ABSENT" /\ e.step.to = "PROPOSED"
      /\ e.step.actor = u /\ e.step.note = "none"
      /\ e.hash = Append(<<>>, e.step)
  BY <1>1, ProposalTypes, NewEventFields
<1>3. LET x == Extend(f, u, "PROPOSED", "none")
      IN  /\ x \in Row
          /\ x.state = "PROPOSED"
          /\ x.history = Append(<<>>, e) /\ x.hash = e.hash
          /\ x.proposer = u /\ x.approver = NoUser
  BY <1>1, ProposalTypes, ExtendFields
<1> HIDE DEF e
<1>4. Append(<<>>, e) = <<e>>
  OBVIOUS
<1>5. QED
  BY <1>1, <1>2, <1>3, <1>4 DEF Inserted, f, e

-----------------------------------------------------------------------------
(* The shapes a step can give the row and a snapshot *)

RowStep ==
  \/ row' = row
  \/ row' = NoRow
  \/ /\ row.state = "ABSENT"
     /\ proposals < MaxProposals
     /\ proposals' = proposals + 1
     /\ snap' = snap
     /\ \E u \in Users, patch \in Nat, explicit \in BOOLEAN :
          row' = Inserted(u, patch, explicit)
  \/ /\ row.state # "ABSENT"
     /\ \E w \in Workers, a \in Users \cup {NoUser} :
          /\ pc[w] = "updating"
          /\ row' = Overwritten(row, snap[w], a)
          /\ a = IF snap[w].state = "APPROVED" THEN by[w] ELSE row.approver

\* Worker w moved its request on: the note it gave, and that nobody signs what
\* they proposed.
SnapExtended(w, u, to, note) ==
  /\ row.state # "ABSENT"
  /\ LegalMove(row.state, to, row.explicit)
  /\ to \in {"REVIEWED", "APPROVED"} => u # row.proposer
  /\ snap'[w] = Extend(row, u, to, note)
  /\ by'[w] = u
  /\ row' = row

SnapStep(w) ==
  \/ snap'[w] = snap[w] /\ (pc'[w] = "updating" => pc[w] = "updating" /\ by'[w] = by[w])
  \/ snap'[w] = NoRow /\ pc'[w] # "updating"
  \/ snap'[w] = row /\ row' = row /\ pc'[w] # "updating"
  \/ \E u \in Users, to \in States, note \in {"none"} \cup Evidence \cup Reasons :
       SnapExtended(w, u, to, note)

LEMMA RequiresExplicitApprovalType ==
  ASSUME NEW category \in Categories, NEW environment \in Environments
  PROVE  RequiresExplicitApproval(category, environment) \in BOOLEAN
  BY DEF RequiresExplicitApproval

LEMMA DecideShape ==
  ASSUME TypeOK, NEW w \in Workers, NEW u \in Users, NEW to \in States,
         NEW note \in {"none"} \cup Evidence \cup Reasons,
         Decide(w, u, to, note),
         LegalMove(row.state, to, row.explicit),
         to \in {"REVIEWED", "APPROVED"} => u # row.proposer
  PROVE  TypeOK' /\ RowStep /\ \A v \in Workers : SnapStep(v)
<1>1. note \in Notes
  BY ConstantsOK DEF Notes
<1>2. Extend(row, u, to, note) \in Row
  BY <1>1, ExtendFields DEF TypeOK
<1>3. TypeOK'
  BY <1>2 DEF TypeOK, Decide
<1>4. RowStep
  BY DEF RowStep, Decide
<1>5. SnapExtended(w, u, to, note)
  BY DEF SnapExtended, Decide, TypeOK, Exists
<1>6. ASSUME NEW v \in Workers PROVE SnapStep(v)
  BY <1>5 DEF SnapStep, Decide, TypeOK
<1>7. QED
  BY <1>3, <1>4, <1>6

LEMMA IdleShape ==
  ASSUME TypeOK, NEW w \in Workers,
         pc' = [pc EXCEPT ![w] = "idle"],
         snap' = snap \/ snap' = [snap EXCEPT ![w] = NoRow],
         by' = [by EXCEPT ![w] = NoUser]
  PROVE  \A v \in Workers : SnapStep(v)
  BY DEF SnapStep, TypeOK

\* Every step keeps the types and has one of the shapes.
LEMMA NextShape ==
  ASSUME TypeOK, [Next]_vars
  PROVE  TypeOK' /\ RowStep /\ \A v \in Workers : SnapStep(v)
<1> USE ConstantsOK
<1>1. ASSUME NEW w \in Workers, NEW u \in Users,
             NEW category \in Categories, NEW environment \in Environments,
             Propose(w, u, category, environment)
      PROVE  TypeOK' /\ RowStep /\ \A v \in Workers : SnapStep(v)
  <2> DEFINE explicit == RequiresExplicitApproval(category, environment)
  <2>1. row' = Inserted(u, proposals + 1, explicit)
    BY <1>1 DEF Propose, Inserted, Fresh
  <2>2. explicit \in BOOLEAN /\ proposals + 1 \in Nat
    BY RequiresExplicitApprovalType DEF TypeOK
  <2>3. Inserted(u, proposals + 1, explicit) \in Row
    BY <2>2, InsertedFields
  <2>4. TypeOK'
    BY <1>1, <2>1, <2>2, <2>3 DEF TypeOK, Propose
  <2>5. RowStep
    BY <1>1, <2>1, <2>2 DEF RowStep, Propose, Exists
  <2>6. QED
    BY <1>1, <2>4, <2>5 DEF SnapStep, Propose
<1>2. ASSUME NEW w \in Workers, NEW u \in Users, Delete(w, u)
      PROVE  TypeOK' /\ RowStep /\ \A v \in Workers : SnapStep(v)
  BY <1>2, NoRowType DEF Delete, TypeOK, RowStep, SnapStep
<1>3. ASSUME NEW w \in Workers, NEW u \in Users, ReviewRemediation(w, u)
      PROVE  TypeOK' /\ RowStep /\ \A v \in Workers : SnapStep(v)
  BY <1>3, DecideShape DEF ReviewRemediation, LegalMove, States
<1>4. ASSUME NEW w \in Workers, NEW u \in Users, ApproveRemediation(w, u)
      PROVE  TypeOK' /\ RowStep /\ \A v \in Workers : SnapStep(v)
  BY <1>4, DecideShape DEF ApproveRemediation, LegalMove, States
<1>5. MayApply => LegalMove(row.state, "APPLIED", row.explicit) /\ Exists
  BY DEF MayApply, LegalMove, Exists
<1>6. ASSUME NEW w \in Workers, NEW u \in Users, ApplyRemediation(w, u)
      PROVE  TypeOK' /\ RowStep /\ \A v \in Workers : SnapStep(v)
  BY <1>5, <1>6, DecideShape DEF ApplyRemediation, States
<1>7. ASSUME NEW w \in Workers, NEW u \in Users, NEW e \in Evidence, VerifyRemediation(w, u, e)
      PROVE  TypeOK' /\ RowStep /\ \A v \in Workers : SnapStep(v)
  BY <1>7, DecideShape DEF VerifyRemediation, LegalMove, States
<1>8. ASSUME NEW w \in Workers, NEW u \in Users, NEW r \in Reasons, RollbackRemediation(w, u, r)
      PROVE  TypeOK' /\ RowStep /\ \A v \in Workers : SnapStep(v)
  BY <1>8, DecideShape DEF RollbackRemediation, LegalMove, States
<1>9. ASSUME NEW w \in Workers, NEW u \in Users, NEW r \in Reasons, FailRemediation(w, u, r)
      PROVE  TypeOK' /\ RowStep /\ \A v \in Workers : SnapStep(v)
  BY <1>9, DecideShape DEF FailRemediation, LegalMove, States
<1>10. ASSUME NEW w \in Workers, NEW u \in Users, PatchRead(w, u)
       PROVE  TypeOK' /\ RowStep /\ \A v \in Workers : SnapStep(v)
  BY <1>10 DEF PatchRead, TypeOK, RowStep, SnapStep
<1>11. ASSUME NEW w \in Workers, Update(w)
       PROVE  TypeOK' /\ RowStep /\ \A v \in Workers : SnapStep(v)
  <2> DEFINE a == IF snap[w].state = "APPROVED" THEN by[w] ELSE row.approver
  <2>1. a \in Users \cup {NoUser} /\ snap[w] \in Row /\ row \in Row
    BY DEF TypeOK, Row
  <2>2. row' = IF Exists THEN Overwritten(row, snap[w], a) ELSE row
    BY <1>11, <2>1 DEF Update, Overwritten, Row
  <2>3. Overwritten(row, snap[w], a) \in Row
    BY <2>1, OverwrittenFields
  <2>4. TypeOK'
    BY <1>11, <2>2, <2>3, NoRowType DEF Update, TypeOK
  <2>5. RowStep
    BY <1>11, <2>1, <2>2 DEF RowStep, Update, Exists
  <2>6. QED
    BY <1>11, <2>4, <2>5, IdleShape DEF Update
<1>12. ASSUME NEW w \in Workers, PatchRejected(w)
       PROVE  TypeOK' /\ RowStep /\ \A v \in Workers : SnapStep(v)
  BY <1>12, NoRowType, IdleShape DEF PatchRejected, TypeOK, RowStep
<1>13. ASSUME NEW w \in Workers, PatchFile(w)
       PROVE  TypeOK' /\ RowStep /\ \A v \in Workers : SnapStep(v)
  <2>1. snap[w].patch \in Nat
    BY DEF TypeOK, Row
  <2>2. TypeOK'
    BY <1>13, <2>1, NoRowType DEF PatchFile, TypeOK
  <2>3. QED
    BY <1>13, <2>2 DEF PatchFile, TypeOK, RowStep, SnapStep
<1>14. ASSUME NEW w \in Workers, PatchApply(w)
       PROVE  TypeOK' /\ RowStep /\ \A v \in Workers : SnapStep(v)
  <2>1. by[w] \in Users
    BY <1>14 DEF PatchApply, TypeOK
  <2>2. QED
    BY <1>5, <1>14, <2>1, DecideShape DEF PatchApply, States
<1>15. ASSUME NEW w \in Workers, PatchApplyFails(w)
       PROVE  TypeOK' /\ RowStep /\ \A v \in Workers : SnapStep(v)
  BY <1>15, IdleShape DEF PatchApplyFails, TypeOK, RowStep
<1>16. ASSUME Restart
       PROVE  TypeOK' /\ RowStep /\ \A v \in Workers : SnapStep(v)
  BY <1>16, NoRowType DEF Restart, TypeOK, RowStep, SnapStep
<1>17. ASSUME UNCHANGED vars
       PROVE  TypeOK' /\ RowStep /\ \A v \in Workers : SnapStep(v)
  BY <1>17 DEF vars, TypeOK, RowStep, SnapStep
<1>18. QED
  BY <1>1, <1>2, <1>3, <1>4, <1>6, <1>7, <1>8, <1>9, <1>10, <1>11, <1>12, <1>13, <1>14, <1>15,
     <1>16, <1>17 DEF Next, Request

THEOREM TypeCorrect == Spec => []TypeOK
<1>1. Init => TypeOK
  BY NoRowType DEF Init, TypeOK
<1>2. TypeOK /\ [Next]_vars => TypeOK'
  BY NextShape
<1>3. QED
  BY <1>1, <1>2, PTL DEF Spec

-----------------------------------------------------------------------------
(* The stored history is a workflow path *)

PathGood(r) == StateIsHistoryEnd(r) /\ IsWorkflowPath(r)

LEMMA NoRowPath == PathGood(NoRow)
  BY DEF NoRow, PathGood, StateIsHistoryEnd, IsWorkflowPath

LEMMA ExtendPath ==
  ASSUME NEW r \in Row, NEW u \in Users, NEW to \in States, NEW note \in Notes,
         PathGood(r),
         \/ r.state = "ABSENT" /\ to = "PROPOSED"
         \/ r.state # "ABSENT" /\ LegalMove(r.state, to, r.explicit)
  PROVE  PathGood(Extend(r, u, to, note))
<1> DEFINE x == Extend(r, u, to, note)
           e == NewEvent(r, u, to, note)
           n == Len(r.history)
<1>a. r.history \in Seq(Event)
  BY DEF Row
<1>b. x.state = to /\ x.explicit = r.explicit /\ x.history = Append(r.history, e)
  BY ExtendFields
<1>c. e.step.from = r.state /\ e.step.to = to
  BY NewEventFields
<1> HIDE DEF x, e
<1>1. /\ x.state = to /\ x.explicit = r.explicit
      /\ r.history \in Seq(Event)
      /\ x.history = Append(r.history, e)
      /\ e.step.from = r.state /\ e.step.to = to
  BY <1>a, <1>b, <1>c
<1>2. n \in Nat /\ Len(x.history) = n + 1
  BY <1>1
<1>3. x.history[n + 1] = e /\ \A i \in 1..n : x.history[i] = r.history[i]
  BY <1>1, <1>2
<1>4. StateIsHistoryEnd(x)
  BY <1>1, <1>2, <1>3 DEF StateIsHistoryEnd
<1>5. ASSUME NEW i \in 1..n PROVE LegalEvent(x, i)
  <2>1. LegalEvent(r, i)
    BY <1>1, <1>2 DEF PathGood, IsWorkflowPath
  <2>2. QED
    BY <1>1, <1>2, <1>3, <2>1 DEF LegalEvent
<1>6. LegalEvent(x, n + 1)
  <2>1. CASE n = 0
    <3>1. r.state = "ABSENT"
      BY <1>1, <2>1 DEF PathGood, StateIsHistoryEnd
    <3>2. QED
      BY <1>1, <1>3, <2>1, <3>1 DEF LegalEvent
  <2>2. CASE n # 0
    <3>1. r.state = r.history[n].step.to
      BY <1>1, <2>2 DEF PathGood, StateIsHistoryEnd
    <3>2. r.state # "ABSENT"
      <4>1. r.history[n] \in Event
        BY <1>1, <1>2, <2>2
      <4>2. QED
        BY <3>1, <4>1 DEF Event, Transition, States
    <3>3. QED
      BY <1>1, <1>2, <1>3, <2>2, <3>1, <3>2 DEF LegalEvent
  <2>3. QED
    BY <2>1, <2>2
<1>7. DOMAIN x.history = 1..(n + 1)
  BY <1>1, <1>2
<1>8. \A i \in DOMAIN x.history : LegalEvent(x, i)
  BY <1>2, <1>5, <1>6, <1>7
<1>9. QED
  BY <1>4, <1>8 DEF PathGood, IsWorkflowPath, x

LEMMA InsertedPath ==
  ASSUME NEW u \in Users, NEW patch \in Nat, NEW explicit \in BOOLEAN
  PROVE  PathGood(Inserted(u, patch, explicit))
<1> DEFINE x == Inserted(u, patch, explicit)
           e == NewEvent(Fresh(u, patch, explicit), u, "PROPOSED", "none")
<1>1. x.state = "PROPOSED" /\ x.history = <<e>> /\ e.step.from = "ABSENT" /\ e.step.to = "PROPOSED"
  BY InsertedFields, SMTT(30)
<1> HIDE DEF x, e
<1>2. Len(x.history) = 1 /\ DOMAIN x.history = 1..1 /\ x.history[1] = e /\ x.history # <<>>
  BY <1>1
<1>3. QED
  BY <1>1, <1>2 DEF PathGood, StateIsHistoryEnd, IsWorkflowPath, LegalEvent, x

LEMMA OverwrittenPath ==
  ASSUME NEW r \in Row, NEW x \in Row, NEW a \in Users \cup {NoUser}, PathGood(x)
  PROVE  PathGood(Overwritten(r, x, a))
<1> DEFINE o == Overwritten(r, x, a)
<1>1. o.state = x.state /\ o.explicit = x.explicit /\ o.history = x.history
  BY OverwrittenFields
<1> HIDE DEF o
<1>2. StateIsHistoryEnd(o)
  BY <1>1 DEF PathGood, StateIsHistoryEnd
<1>3. ASSUME NEW i \in DOMAIN o.history PROVE LegalEvent(o, i)
  BY <1>1 DEF PathGood, IsWorkflowPath, LegalEvent
<1>4. QED
  BY <1>2, <1>3 DEF PathGood, IsWorkflowPath, o

PathInv == PathGood(row) /\ \A w \in Workers : PathGood(snap[w])

LEMMA PathInvInit == Init => PathInv
  BY NoRowPath DEF Init, PathInv

LEMMA PathInvNext == TypeOK /\ PathInv /\ [Next]_vars => PathInv'
<1> SUFFICES ASSUME TypeOK, PathInv, [Next]_vars PROVE PathInv'
  OBVIOUS
<1>1. RowStep /\ \A w \in Workers : SnapStep(w)
  BY NextShape
<1>2. PathGood(row')
  BY <1>1, NoRowPath, InsertedPath, OverwrittenPath DEF RowStep, PathInv, TypeOK
<1>3. ASSUME NEW w \in Workers PROVE PathGood(snap'[w])
  <2>1. ASSUME NEW u \in Users, NEW to \in States,
               NEW note \in {"none"} \cup Evidence \cup Reasons, SnapExtended(w, u, to, note)
        PROVE  PathGood(snap'[w])
    <3>1. note \in Notes
      BY ConstantsOK DEF Notes
    <3>2. QED
      BY <2>1, <3>1, ExtendPath DEF SnapExtended, PathInv, TypeOK
  <2>2. QED
    BY <1>1, <2>1, NoRowPath DEF SnapStep, PathInv
<1>4. QED
  BY <1>2, <1>3 DEF PathInv, PathGood, StateIsHistoryEnd, IsWorkflowPath, LegalEvent

\* However requests interleave, the history in the table is a path of the
\* workflow; in particular a change that requires explicit approval is applied
\* only right after its approval.
THEOREM HistoryPathCorrect == Spec => []HistoryIsWorkflowPath
<1>1. Spec => []PathInv
  BY PathInvInit, PathInvNext, TypeCorrect, PTL DEF Spec
<1>2. PathInv => HistoryIsWorkflowPath
  BY DEF PathInv, PathGood, HistoryIsWorkflowPath
<1>3. QED
  BY <1>1, <1>2, PTL

-----------------------------------------------------------------------------
(* The stored history passes verifyStateChain *)

LEMMA ExtendChain ==
  ASSUME NEW r \in Row, NEW u \in Users, NEW to \in States, NEW note \in Notes,
         VerifyStateChain(r), note \notin {"quotes_rollback", "quotes_failure"}
  PROVE  VerifyStateChain(Extend(r, u, to, note))
<1> DEFINE x == Extend(r, u, to, note)
           e == NewEvent(r, u, to, note)
           n == Len(r.history)
<1>1. r.history \in Seq(Event)
  BY DEF Row
<1>2. x.history = Append(r.history, e) /\ x.hash = e.hash
  BY ExtendFields
<1>3. /\ e \in Event /\ e.step \in Transition /\ e.hash = Append(r.hash, e.step)
      /\ e.step.note = note
  BY NewEventFields
<1> HIDE DEF x, e
<1>4. n \in Nat /\ Len(x.history) = n + 1 /\ DOMAIN x.history = 1..(n + 1)
  BY <1>1, <1>2, <1>3
<1>5. x.history[n + 1] = e /\ \A i \in 1..n : x.history[i] = r.history[i]
  BY <1>1, <1>2, <1>3
<1>6. \A i \in 1..(n + 1) : PrevHash(x, i) = PrevHash(r, i)
  BY <1>4, <1>5, SMTT(30) DEF PrevHash
<1>7. Recomputed(e) = e.step
  <2>1. ExtractReason(e.step.to, e.step.note) = e.step.note
    BY <1>3 DEF ExtractReason
  <2>2. QED
    BY <1>3, <2>1 DEF Recomputed, Transition
<1>8. r.hash = PrevHash(r, n + 1)
  BY DEF VerifyStateChain
<1>9. ASSUME NEW i \in DOMAIN x.history
      PROVE  x.history[i].hash = TransitionHash(PrevHash(x, i), Recomputed(x.history[i]))
  <2>1. CASE i \in 1..n
    <3>1. r.history[i].hash = TransitionHash(PrevHash(r, i), Recomputed(r.history[i]))
      BY <1>1, <2>1 DEF VerifyStateChain
    <3>2. QED
      BY <1>4, <1>5, <1>6, <2>1, <3>1
  <2>2. CASE i = n + 1
    BY <1>3, <1>4, <1>5, <1>6, <1>7, <1>8, <2>2 DEF TransitionHash
  <2>3. QED
    BY <1>4, <2>1, <2>2
<1>10. x.hash = PrevHash(x, Len(x.history) + 1)
  BY <1>2, <1>4, <1>5 DEF PrevHash
<1>11. QED
  BY <1>9, <1>10 DEF VerifyStateChain, x

LEMMA FreshChain ==
  ASSUME NEW u \in Users, NEW patch \in Nat, NEW explicit \in BOOLEAN
  PROVE  VerifyStateChain(Fresh(u, patch, explicit))
<1> DEFINE f == Fresh(u, patch, explicit)
<1>1. f.hash = <<>> /\ f.history = <<>>
  BY FreshFields
<1> HIDE DEF f
<1>2. QED
  BY <1>1 DEF VerifyStateChain, PrevHash, f

LEMMA NoRowChain == VerifyStateChain(NoRow)
  BY DEF NoRow, VerifyStateChain, PrevHash

LEMMA InsertedChain ==
  ASSUME NEW u \in Users, NEW patch \in Nat, NEW explicit \in BOOLEAN
  PROVE  VerifyStateChain(Inserted(u, patch, explicit))
  BY FreshFields, FreshChain, ProposalTypes, ExtendChain DEF Inserted

LEMMA OverwrittenChain ==
  ASSUME NEW r \in Row, NEW x \in Row, NEW a \in Users \cup {NoUser}, VerifyStateChain(x)
  PROVE  VerifyStateChain(Overwritten(r, x, a))
<1> DEFINE o == Overwritten(r, x, a)
<1>1. o.history = x.history /\ o.hash = x.hash
  BY OverwrittenFields
<1> HIDE DEF o
<1>2. \A i \in DOMAIN o.history :
        o.history[i].hash = TransitionHash(PrevHash(o, i), Recomputed(o.history[i]))
  BY <1>1 DEF VerifyStateChain, PrevHash
<1>3. o.hash = PrevHash(o, Len(o.history) + 1)
  BY <1>1 DEF VerifyStateChain, PrevHash
<1>4. QED
  BY <1>2, <1>3 DEF VerifyStateChain, o

\* The part of StateChainValid about hashes, for any record.
Chained(r) == ~QuotesEngine(r) => VerifyStateChain(r)

LEMMA ExtendChained ==
  ASSUME NEW r \in Row, NEW u \in Users, NEW to \in States, NEW note \in Notes, Chained(r)
  PROVE  Chained(Extend(r, u, to, note))
<1> DEFINE x == Extend(r, u, to, note)
           e == NewEvent(r, u, to, note)
           n == Len(r.history)
<1>1. r.history \in Seq(Event)
  BY DEF Row
<1>2. x.history = Append(r.history, e)
  BY ExtendFields
<1>3. e \in Event /\ e.step.note = note
  BY NewEventFields
<1> HIDE DEF x, e
<1>4. n \in Nat /\ DOMAIN x.history = 1..(n + 1) /\ DOMAIN r.history = 1..n
  BY <1>1, <1>2, <1>3
<1>5. x.history[n + 1] = e /\ \A i \in 1..n : x.history[i] = r.history[i]
  BY <1>1, <1>2, <1>3
<1>6. ASSUME ~QuotesEngine(x)
      PROVE  note \notin {"quotes_rollback", "quotes_failure"} /\ ~QuotesEngine(r)
  <2>1. \A i \in 1..(n + 1) : x.history[i].step.note \notin {"quotes_rollback", "quotes_failure"}
    BY <1>4, <1>6 DEF QuotesEngine
  <2>2. note \notin {"quotes_rollback", "quotes_failure"}
    BY <1>3, <1>4, <1>5, <2>1
  <2>3. QED
    BY <1>4, <1>5, <2>1, <2>2 DEF QuotesEngine
<1>7. QED
  BY <1>6, ExtendChain DEF Chained, x

LEMMA OverwrittenChained ==
  ASSUME NEW r \in Row, NEW x \in Row, NEW a \in Users \cup {NoUser}, Chained(x)
  PROVE  Chained(Overwritten(r, x, a))
<1>1. Overwritten(r, x, a).history = x.history
  BY OverwrittenFields
<1>2. QED
  BY <1>1, OverwrittenChain DEF Chained, QuotesEngine

ChainInv == Chained(row) /\ \A w \in Workers : Chained(snap[w])

LEMMA ChainInvNext == TypeOK /\ ChainInv /\ [Next]_vars => ChainInv'
<1> SUFFICES ASSUME TypeOK, ChainInv, [Next]_vars PROVE ChainInv'
  OBVIOUS
<1>1. RowStep /\ \A w \in Workers : SnapStep(w)
  BY NextShape
<1>2. Chained(NoRow) /\ Chained(row) /\ \A w \in Workers : Chained(snap[w])
  BY NoRowChain DEF ChainInv, Chained
<1>3. \A u \in Users, patch \in Nat, explicit \in BOOLEAN : Chained(Inserted(u, patch, explicit))
  BY InsertedChain DEF Chained
<1>4. Chained(row')
  BY <1>1, <1>2, <1>3, OverwrittenChained DEF RowStep, TypeOK
<1>5. ASSUME NEW w \in Workers PROVE Chained(snap'[w])
  <2>1. ASSUME NEW u \in Users, NEW to \in States,
               NEW note \in {"none"} \cup Evidence \cup Reasons, SnapExtended(w, u, to, note)
        PROVE  Chained(snap'[w])
    <3>1. note \in Notes
      BY ConstantsOK DEF Notes
    <3>2. QED
      BY <1>2, <2>1, <3>1, ExtendChained DEF SnapExtended, TypeOK
  <2>2. QED
    BY <1>1, <1>2, <2>1 DEF SnapStep
<1>6. QED
  BY <1>4, <1>5 DEF ChainInv, Chained, QuotesEngine, VerifyStateChain, PrevHash,
                    Recomputed, ExtractReason, TransitionHash

\* The record in the table always passes the engine's verification of its hash
\* chain, unless a reason quotes the engine's own phrases, and its state is
\* where its history ends.
THEOREM StateChainCorrect == Spec => []StateChainValid
<1>1. Init => ChainInv
  BY NoRowChain DEF Init, ChainInv, Chained
<1>2. TypeOK /\ ChainInv /\ [Next]_vars => ChainInv'
  BY ChainInvNext
<1>3. Spec => []ChainInv
  BY <1>1, <1>2, TypeCorrect, PTL DEF Spec
<1>4. Spec => []PathInv
  BY PathInvInit, PathInvNext, TypeCorrect, PTL DEF Spec
<1>5. ChainInv /\ PathInv => StateChainValid
  BY DEF ChainInv, Chained, PathInv, PathGood, StateChainValid
<1>6. QED
  BY <1>3, <1>4, <1>5, PTL

-----------------------------------------------------------------------------
(* Four eyes, as long as the approval id is proposed at most once *)

\* The history starts with the proposer, who signs nothing afterwards.
SignedByOthers(r) ==
  r.state # "ABSENT" =>
    /\ r.history # <<>>
    /\ r.history[1].step.actor = r.proposer
    /\ \A i \in DOMAIN r.history :
         r.history[i].step.to \in {"REVIEWED", "APPROVED"}
           => r.history[i].step.actor # r.proposer

LEMMA ExtendSigned ==
  ASSUME NEW r \in Row, NEW u \in Users, NEW to \in States, NEW note \in Notes,
         r.state # "ABSENT", SignedByOthers(r),
         to \in {"REVIEWED", "APPROVED"} => u # r.proposer
  PROVE  SignedByOthers(Extend(r, u, to, note))
<1> DEFINE x == Extend(r, u, to, note)
           e == NewEvent(r, u, to, note)
           n == Len(r.history)
<1>1. r.history \in Seq(Event)
  BY DEF Row
<1>2. x.history = Append(r.history, e) /\ x.proposer = r.proposer
  BY ExtendFields
<1>3. e \in Event /\ e.step.to = to /\ e.step.actor = u
  BY NewEventFields
<1> HIDE DEF x, e
<1>4. n \in Nat /\ Len(x.history) = n + 1 /\ DOMAIN x.history = 1..(n + 1) /\ x.history # <<>>
  BY <1>1, <1>2, <1>3
<1>5. x.history[n + 1] = e /\ \A i \in 1..n : x.history[i] = r.history[i]
  BY <1>1, <1>2, <1>3
<1>6. n >= 1
  BY <1>1, <1>4 DEF SignedByOthers
<1>7. x.history[1].step.actor = x.proposer
  BY <1>2, <1>4, <1>5, <1>6 DEF SignedByOthers
<1>8. ASSUME NEW i \in DOMAIN x.history, x.history[i].step.to \in {"REVIEWED", "APPROVED"}
      PROVE  x.history[i].step.actor # x.proposer
  <2>1. CASE i \in 1..n
    BY <1>1, <1>2, <1>5, <1>8, <2>1 DEF SignedByOthers
  <2>2. CASE i = n + 1
    BY <1>2, <1>3, <1>5, <1>8, <2>2
  <2>3. QED
    BY <1>4, <2>1, <2>2
<1>9. QED
  BY <1>4, <1>7, <1>8 DEF SignedByOthers, x

LEMMA InsertedSigned ==
  ASSUME NEW u \in Users, NEW patch \in Nat, NEW explicit \in BOOLEAN
  PROVE  SignedByOthers(Inserted(u, patch, explicit))
<1> DEFINE x == Inserted(u, patch, explicit)
           e == NewEvent(Fresh(u, patch, explicit), u, "PROPOSED", "none")
<1>1. /\ x.proposer = u /\ x.history = <<e>>
      /\ e.step.to = "PROPOSED" /\ e.step.actor = u
  BY InsertedFields
<1> HIDE DEF x, e
<1>2. DOMAIN x.history = 1..1 /\ x.history[1] = e /\ x.history # <<>>
  BY <1>1
<1>3. QED
  BY <1>1, <1>2 DEF SignedByOthers, x

LEMMA OverwrittenSigned ==
  ASSUME NEW r \in Row, NEW x \in Row, NEW a \in Users \cup {NoUser},
         SignedByOthers(x), x.state # "ABSENT" => x.proposer = r.proposer
  PROVE  SignedByOthers(Overwritten(r, x, a))
<1> DEFINE o == Overwritten(r, x, a)
<1>1. o.history = x.history /\ o.state = x.state /\ o.proposer = r.proposer
  BY OverwrittenFields
<1> HIDE DEF o
<1>2. QED
  BY <1>1 DEF SignedByOthers, o

LEMMA NoRowSigned == SignedByOthers(NoRow)
  BY DEF NoRow, SignedByOthers

FourEyesInv ==
  /\ SignedByOthers(row)
  /\ row.state # "ABSENT" => row.approver # row.proposer
  /\ proposals = 0 => row.state = "ABSENT"
  /\ \A w \in Workers :
       /\ SignedByOthers(snap[w])
       /\ proposals = 0 => snap[w].state = "ABSENT"
       /\ row.state # "ABSENT" /\ snap[w].state # "ABSENT" => snap[w].proposer = row.proposer
       /\ pc[w] = "updating" /\ snap[w].state = "APPROVED" => by[w] # snap[w].proposer

LEMMA FourEyesInvInit == Init => FourEyesInv
<1>1. NoRow.state = "ABSENT"
  BY DEF NoRow
<1>2. QED
  BY <1>1, NoRowSigned DEF Init, FourEyesInv

LEMMA ProposalsGrow == TypeOK /\ [Next]_vars => proposals' \in {proposals, proposals + 1}
<1> SUFFICES ASSUME [Next]_vars PROVE proposals' \in {proposals, proposals + 1}
  OBVIOUS
<1>1. ASSUME NEW w \in Workers, NEW u \in Users, NEW category \in Categories,
             NEW environment \in Environments, Propose(w, u, category, environment)
      PROVE  proposals' = proposals + 1
  BY <1>1 DEF Propose
<1>2. ASSUME NEW w \in Workers, NEW u \in Users,
             \/ Delete(w, u) \/ ReviewRemediation(w, u) \/ ApproveRemediation(w, u)
             \/ ApplyRemediation(w, u) \/ PatchRead(w, u)
             \/ \E evidence \in Evidence : VerifyRemediation(w, u, evidence)
             \/ \E reason \in Reasons : RollbackRemediation(w, u, reason)
             \/ \E reason \in Reasons : FailRemediation(w, u, reason)
      PROVE  proposals' = proposals
  <2>1. ASSUME Delete(w, u) PROVE proposals' = proposals
    BY <2>1 DEF Delete
  <2>2. ASSUME ReviewRemediation(w, u) PROVE proposals' = proposals
    BY <2>2 DEF ReviewRemediation, Decide
  <2>3. ASSUME ApproveRemediation(w, u) PROVE proposals' = proposals
    BY <2>3 DEF ApproveRemediation, Decide
  <2>4. ASSUME ApplyRemediation(w, u) PROVE proposals' = proposals
    BY <2>4 DEF ApplyRemediation, Decide
  <2>5. ASSUME PatchRead(w, u) PROVE proposals' = proposals
    BY <2>5 DEF PatchRead
  <2>6. ASSUME NEW e \in Evidence, VerifyRemediation(w, u, e) PROVE proposals' = proposals
    BY <2>6 DEF VerifyRemediation, Decide
  <2>7. ASSUME NEW r \in Reasons, RollbackRemediation(w, u, r) PROVE proposals' = proposals
    BY <2>7 DEF RollbackRemediation, Decide
  <2>8. ASSUME NEW r \in Reasons, FailRemediation(w, u, r) PROVE proposals' = proposals
    BY <2>8 DEF FailRemediation, Decide
  <2>9. QED
    BY <1>2, <2>1, <2>2, <2>3, <2>4, <2>5, <2>6, <2>7, <2>8
<1>3. ASSUME NEW w \in Workers,
             Update(w) \/ PatchRejected(w) \/ PatchFile(w) \/ PatchApply(w) \/ PatchApplyFails(w)
      PROVE  proposals' = proposals
  <2>1. ASSUME Update(w) PROVE proposals' = proposals
    BY <2>1 DEF Update
  <2>2. ASSUME PatchRejected(w) PROVE proposals' = proposals
    BY <2>2 DEF PatchRejected
  <2>3. ASSUME PatchFile(w) PROVE proposals' = proposals
    BY <2>3 DEF PatchFile
  <2>4. ASSUME PatchApply(w) PROVE proposals' = proposals
    BY <2>4 DEF PatchApply, Decide
  <2>5. ASSUME PatchApplyFails(w) PROVE proposals' = proposals
    BY <2>5 DEF PatchApplyFails
  <2>6. QED
    BY <1>3, <2>1, <2>2, <2>3, <2>4, <2>5
<1>4. ASSUME Restart \/ UNCHANGED vars PROVE proposals' = proposals
  BY <1>4 DEF Restart, vars
<1>5. QED
  BY <1>1, <1>2, <1>3, <1>4 DEF Next, Request

LEMMA FourEyesInvNext ==
  TypeOK /\ FourEyesInv /\ [Next]_vars /\ proposals' <= 1 => FourEyesInv'
<1> SUFFICES ASSUME TypeOK, FourEyesInv, [Next]_vars, proposals' <= 1 PROVE FourEyesInv'
  OBVIOUS
<1>1. TypeOK' /\ RowStep /\ (\A w \in Workers : SnapStep(w))
  BY NextShape
<1>2. proposals' = 0 => proposals = 0
  BY ProposalsGrow DEF TypeOK
<1>3. NoRow.state = "ABSENT"
  BY DEF NoRow
\* What happens to a snapshot, whatever happens to the row.
<1>4. ASSUME NEW w \in Workers
      PROVE  /\ SignedByOthers(snap'[w])
             /\ pc'[w] = "updating" /\ snap'[w].state = "APPROVED" => by'[w] # snap'[w].proposer
             /\ \/ snap'[w] = snap[w]
                \/ snap'[w].state = "ABSENT"
                \/ row' = row /\ row.state # "ABSENT" /\ snap'[w].proposer = row.proposer
  <2>1. ASSUME NEW u \in Users, NEW to \in States,
               NEW note \in {"none"} \cup Evidence \cup Reasons, SnapExtended(w, u, to, note)
        PROVE  /\ SignedByOthers(snap'[w])
               /\ snap'[w].state = "APPROVED" => by'[w] # snap'[w].proposer
               /\ row' = row /\ row.state # "ABSENT" /\ snap'[w].proposer = row.proposer
    <3>1. note \in Notes
      BY ConstantsOK DEF Notes
    <3>2. LET x == Extend(row, u, to, note) IN x.state = to /\ x.proposer = row.proposer
      BY <3>1, ExtendFields DEF TypeOK
    <3>3. SignedByOthers(Extend(row, u, to, note))
      BY <2>1, <3>1, ExtendSigned DEF SnapExtended, FourEyesInv, TypeOK
    <3>4. QED
      BY <2>1, <3>2, <3>3 DEF SnapExtended
  <2>2. QED
    BY <1>1, <1>3, <2>1, NoRowSigned DEF SnapStep, FourEyesInv
\* The row was left alone or removed.
<1>5. CASE row' = row \/ row' = NoRow
  BY <1>2, <1>3, <1>4, <1>5, NoRowSigned DEF FourEyesInv, SignedByOthers
<1>6. ASSUME proposals' = proposals + 1, snap' = snap,
             NEW u \in Users, NEW patch \in Nat, NEW explicit \in BOOLEAN,
             row' = Inserted(u, patch, explicit)
      PROVE  FourEyesInv'
  <2>1. proposals = 0 /\ proposals' # 0
    BY <1>6 DEF TypeOK
  <2>2. row'.approver = NoUser /\ row'.proposer = u /\ SignedByOthers(row')
    BY <1>6, InsertedFields, InsertedSigned
  <2>3. \A w \in Workers : snap'[w].state = "ABSENT"
    BY <1>6, <2>1 DEF FourEyesInv
  <2>4. QED
    BY <1>4, <2>1, <2>2, <2>3, ConstantsOK DEF FourEyesInv, SignedByOthers
<1>7. ASSUME row.state # "ABSENT",
             NEW v \in Workers, NEW a \in Users \cup {NoUser}, pc[v] = "updating",
             row' = Overwritten(row, snap[v], a),
             a = IF snap[v].state = "APPROVED" THEN by[v] ELSE row.approver
      PROVE  FourEyesInv'
  <2>a. row \in Row /\ snap[v] \in Row
    BY DEF TypeOK
  <2>b. LET o == Overwritten(row, snap[v], a)
        IN  o.proposer = row.proposer /\ o.approver = a /\ o.state = snap[v].state
    BY <2>a, OverwrittenFields
  <2>1. /\ row'.proposer = row.proposer /\ row'.approver = a
        /\ row'.state = snap[v].state
    BY <1>7, <2>b
  <2>2. SignedByOthers(row')
    BY <1>7, OverwrittenSigned DEF FourEyesInv, TypeOK
  <2>3. row'.state # "ABSENT" => row'.approver # row'.proposer
    BY <1>7, <2>1 DEF FourEyesInv
  <2>4. proposals # 0
    BY <1>7 DEF FourEyesInv
  <2>5. \A w \in Workers :
          row'.state # "ABSENT" /\ snap'[w].state # "ABSENT" => snap'[w].proposer = row'.proposer
    BY <1>4, <1>7, <2>1 DEF FourEyesInv
  <2>6. QED
    BY <1>2, <1>4, <2>2, <2>3, <2>4, <2>5 DEF FourEyesInv, SignedByOthers
<1>8. QED
  BY <1>1, <1>5, <1>6, <1>7 DEF RowStep

\* As long as an approval id is proposed once (the server draws ids at random
\* unless the client names one), the proposer of a change never reviewed or
\* approved it.
THEOREM FourEyesCorrect == Spec => []FourEyes
<1> DEFINE Inv == proposals <= 1 => FourEyesInv
<1>1. Init => Inv
  BY FourEyesInvInit
<1>2. TypeOK /\ Inv /\ [Next]_vars => Inv'
  BY FourEyesInvNext, ProposalsGrow DEF TypeOK
<1>3. Inv => FourEyes
  BY DEF FourEyesInv, FourEyes, SignedByOthers, Exists
<1>4. QED
  BY <1>1, <1>2, <1>3, TypeCorrect, PTL DEF Spec

-----------------------------------------------------------------------------
(* The engine implements the pipeline, one request at a time *)

OneWorker == \A v, w \in Workers : v = w

\* The update that worker w is about to write.
PlannedUpdate(w, to, note) ==
  /\ LegalMove(row.state, to, row.explicit)
  /\ to \in {"REVIEWED", "APPROVED"} => by[w] # row.proposer
  /\ snap[w] = Extend(row, by[w], to, note)

PipelineInv ==
  /\ ~Exists => row = NoRow
  /\ \A w \in Workers : pc[w] = "updating" =>
       /\ Exists
       /\ by[w] \in Users
       /\ \E to \in States, note \in Notes : PlannedUpdate(w, to, note)

\* The only request in flight is either left alone by a step or ended by it.
LEMMA InFlightStays ==
  ASSUME TypeOK, OneWorker, [Next]_vars, NEW w \in Workers, pc[w] = "updating"
  PROVE  UNCHANGED <<row, pc, snap, by>> \/ pc'[w] = "idle"
<1>1. ASSUME NEW v \in Workers, Request(v)
      PROVE  Update(w)
  <2>1. v = w
    BY DEF OneWorker
  <2>2. QED
    BY <1>1, <2>1 DEF Request, Propose, Delete, ReviewRemediation, ApproveRemediation,
       ApplyRemediation, VerifyRemediation, RollbackRemediation, FailRemediation, PatchRead,
       PatchRejected, PatchFile, PatchApply, PatchApplyFails
<1>2. Update(w) => pc'[w] = "idle"
  BY DEF Update, TypeOK
<1>3. Restart => pc'[w] = "idle"
  BY DEF Restart
<1>4. QED
  BY <1>1, <1>2, <1>3 DEF Next, vars

\* An UPDATE from a snapshot taken of the row as it still is appends one event.
LEMMA PlannedFields ==
  ASSUME TypeOK, NEW w \in Workers, NEW to \in States, NEW note \in Notes,
         PlannedUpdate(w, to, note), by[w] \in Users,
         NEW a \in Users \cup {NoUser}, row' = Overwritten(row, snap[w], a)
  PROVE  /\ row'.state = to /\ row'.proposer = row.proposer /\ row'.explicit = row.explicit
         /\ \E e \in Event : /\ row'.history = Append(row.history, e)
                             /\ e.step.to = to /\ e.step.actor = by[w]
<1> DEFINE e == NewEvent(row, by[w], to, note)
<1>1. e \in Event /\ e.step.to = to /\ e.step.actor = by[w]
  BY NewEventFields DEF TypeOK
<1>2. /\ snap[w] \in Row
      /\ snap[w].state = to
      /\ snap[w].history = Append(row.history, e)
      /\ snap[w].explicit = row.explicit
  BY ExtendFields DEF TypeOK, PlannedUpdate
<1> HIDE DEF e
<1>3. /\ row'.state = snap[w].state /\ row'.explicit = snap[w].explicit
      /\ row'.history = snap[w].history /\ row'.proposer = row.proposer
  BY <1>2, OverwrittenFields DEF TypeOK
<1>4. QED
  BY <1>1, <1>2, <1>3

LEMMA PipelineInvInit == Init => PipelineInv
  BY DEF Init, PipelineInv, Exists, NoRow

LEMMA PipelineInvNext == TypeOK /\ OneWorker /\ PipelineInv /\ [Next]_vars => PipelineInv'
<1> SUFFICES ASSUME TypeOK, OneWorker, PipelineInv, [Next]_vars PROVE PipelineInv'
  OBVIOUS
<1>1. TypeOK' /\ RowStep /\ \A v \in Workers : SnapStep(v)
  BY NextShape
<1>2. (~Exists => row = NoRow)'
  <2>1. CASE row' = row \/ row' = NoRow
    BY <2>1 DEF PipelineInv, Exists
  <2>2. ASSUME NEW u \in Users, NEW patch \in Nat, NEW explicit \in BOOLEAN,
               row' = Inserted(u, patch, explicit)
        PROVE  Exists'
    BY <2>2, InsertedFields DEF Exists
  <2>3. ASSUME NEW w \in Workers, NEW a \in Users \cup {NoUser}, pc[w] = "updating",
               row' = Overwritten(row, snap[w], a)
        PROVE  Exists'
    <3>1. PICK to \in States, note \in Notes : PlannedUpdate(w, to, note)
      BY <2>3 DEF PipelineInv
    <3>2. row'.state = to
      BY <2>3, <3>1, PlannedFields DEF PipelineInv
    <3>3. QED
      BY <3>2 DEF Exists, States
  <2>4. QED
    BY <1>1, <2>1, <2>2, <2>3 DEF RowStep
<1>3. ASSUME NEW w \in Workers, pc'[w] = "updating"
      PROVE  /\ Exists'
             /\ by'[w] \in Users
             /\ \E to \in States, note \in Notes : PlannedUpdate(w, to, note)'
  <2>1. by'[w] \in Users
    BY <1>1, <1>3 DEF TypeOK
  <2>2. CASE snap'[w] = snap[w] /\ pc[w] = "updating" /\ by'[w] = by[w]
    <3>1. row' = row
      BY <1>3, <2>2, InFlightStays
    <3>2. QED
      BY <2>1, <2>2, <3>1 DEF PipelineInv, PlannedUpdate, Exists
  <2>3. ASSUME NEW u \in Users, NEW to \in States, NEW note \in {"none"} \cup Evidence \cup Reasons,
               SnapExtended(w, u, to, note)
        PROVE  Exists' /\ PlannedUpdate(w, to, note)' /\ note \in Notes
    BY <2>3, ConstantsOK DEF SnapExtended, PlannedUpdate, Exists, Notes
  <2>4. SnapStep(w)
    BY <1>1
  <2>5. QED
    BY <1>3, <2>1, <2>2, <2>3, <2>4 DEF SnapStep
<1>4. QED
  BY <1>2, <1>3 DEF PipelineInv

\* A history that grows by one event gains that event's actor as a signer when
\* the event is a review or an approval.
LEMMA SignersGrow ==
  ASSUME TypeOK, NEW e \in Event, row'.history = Append(row.history, e)
  PROVE  Signers' = IF e.step.to \in {"REVIEWED", "APPROVED"}
                      THEN Signers \cup {e.step.actor} ELSE Signers
<1> DEFINE n == Len(row.history)
<1>1. row.history \in Seq(Event)
  BY DEF TypeOK, Row
<1>2. /\ DOMAIN row.history = 1..n /\ DOMAIN row'.history = 1..(n + 1)
      /\ n \in Nat
      /\ \A i \in 1..n : row'.history[i] = row.history[i]
      /\ row'.history[n + 1] = e
  BY <1>1
<1> DEFINE Signs(x) == x.step.to \in {"REVIEWED", "APPROVED"}
           old == {row.history[i].step.actor : i \in {j \in 1..n : Signs(row.history[j])}}
           new == {row'.history[i].step.actor : i \in {j \in 1..(n + 1) : Signs(row'.history[j])}}
<1>3. Signers = old /\ Signers' = new
  BY <1>2 DEF Signers
<1>4. 1..(n + 1) = (1..n) \cup {n + 1}
  BY <1>2
<1> HIDE DEF n
<1>5. new = IF Signs(e) THEN old \cup {e.step.actor} ELSE old
  BY <1>2, <1>4
<1>6. QED
  BY <1>3, <1>5

\* One worker's step, seen through the mapping, is a step of the pipeline.
LEMMA PipelineStep ==
  TypeOK /\ OneWorker /\ PipelineInv /\ [Next]_vars
    => [Pipeline!Next]_<<row.state, row.proposer, Signers, row.explicit>>
<1> SUFFICES ASSUME TypeOK, OneWorker, PipelineInv, [Next]_vars
             PROVE  [Pipeline!Next]_<<row.state, row.proposer, Signers, row.explicit>>
  OBVIOUS
<1>1. TypeOK' /\ RowStep
  BY NextShape
<1>2. CASE row' = row
  BY <1>2 DEF Signers
<1>3. CASE row' = NoRow
  <2>1. /\ row'.state = "ABSENT" /\ row'.proposer = NoUser
        /\ row'.explicit = FALSE /\ Signers' = {}
    BY <1>3 DEF NoRow, Signers
  <2>2. CASE Exists
    BY <2>1, <2>2 DEF Exists, Pipeline!Delete, Pipeline!Next
  <2>3. CASE ~Exists
    BY <1>2, <1>3, <2>3 DEF PipelineInv
  <2>4. QED
    BY <2>2, <2>3
<1>4. ASSUME row.state = "ABSENT", NEW u \in Users, NEW patch \in Nat, NEW explicit \in BOOLEAN,
             row' = Inserted(u, patch, explicit)
      PROVE  Pipeline!Propose
  <2> DEFINE e == NewEvent(Fresh(u, patch, explicit), u, "PROPOSED", "none")
  <2>1. /\ row'.state = "PROPOSED" /\ row'.proposer = u
        /\ row'.history = <<e>> /\ e \in Event /\ e.step.to = "PROPOSED"
    BY <1>4, InsertedFields
  <2>2. row = NoRow
    BY <1>4 DEF PipelineInv, Exists
  <2>3. row'.history = Append(row.history, e)
    BY <2>1, <2>2 DEF NoRow
  <2> HIDE DEF e
  <2>4. Signers' = Signers
    BY <2>1, <2>3, SignersGrow
  <2>5. row'.explicit \in BOOLEAN
    BY <1>1 DEF TypeOK, Row
  <2>6. QED
    BY <1>4, <2>1, <2>4, <2>5 DEF Pipeline!Propose
<1>5. ASSUME NEW w \in Workers, NEW a \in Users \cup {NoUser}, pc[w] = "updating",
             row' = Overwritten(row, snap[w], a)
      PROVE  Pipeline!Next
  <2>1. Exists /\ by[w] \in Users
    BY <1>5 DEF PipelineInv
  <2>2. PICK to \in States, note \in Notes : PlannedUpdate(w, to, note)
    BY <1>5 DEF PipelineInv
  <2>3. /\ LegalMove(row.state, to, row.explicit)
        /\ to \in {"REVIEWED", "APPROVED"} => by[w] # row.proposer
    BY <2>2 DEF PlannedUpdate
  <2>4. /\ row'.state = to /\ row'.proposer = row.proposer /\ row'.explicit = row.explicit
        /\ \E e \in Event : /\ row'.history = Append(row.history, e)
                            /\ e.step.to = to /\ e.step.actor = by[w]
    BY <1>5, <2>1, <2>2, PlannedFields
  <2>5. Signers' = IF to \in {"REVIEWED", "APPROVED"} THEN Signers \cup {by[w]} ELSE Signers
    BY <2>4, SignersGrow
  <2>6. row.state \in States
    BY <2>1 DEF TypeOK, Row, Exists
  <2>7. CASE to \in {"REVIEWED", "APPROVED"}
    BY <2>1, <2>3, <2>4, <2>5, <2>7
       DEF LegalMove, Pipeline!Next, Pipeline!Review, Pipeline!Approve, Pipeline!Sign
  <2>8. CASE to \notin {"REVIEWED", "APPROVED"}
    BY <2>3, <2>4, <2>5, <2>6, <2>8
       DEF LegalMove, States, Pipeline!States, Pipeline!Next, Pipeline!Apply, Pipeline!Verify,
           Pipeline!Rollback, Pipeline!Fail, Pipeline!Move
  <2>9. QED
    BY <2>7, <2>8
<1>6. QED
  BY <1>1, <1>2, <1>3, <1>4, <1>5 DEF RowStep, Pipeline!Next

\* The engine implements the pipeline when its server handles one request at a
\* time: every UPDATE is then one move of the pipeline from the row it was
\* decided on, and reads, restarts and the patched file are invisible.
THEOREM PipelineCorrect ==
  ASSUME OneWorker
  PROVE  Spec => PipelineSpec
<1>1. Init => Pipeline!Init
  BY DEF Init, NoRow, Signers, Pipeline!Init
<1>2. TypeOK /\ PipelineInv /\ [Next]_vars
        => [Pipeline!Next]_<<row.state, row.proposer, Signers, row.explicit>>
  BY PipelineStep
<1>3. TypeOK /\ PipelineInv /\ [Next]_vars => PipelineInv'
  BY PipelineInvNext
<1>4. QED
  BY <1>1, <1>2, <1>3, PipelineInvInit, TypeCorrect, PTL
     DEF Spec, PipelineSpec, Pipeline!Spec, Pipeline!vars

=============================================================================
