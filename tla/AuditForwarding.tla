---------------------------- MODULE AuditForwarding ----------------------------
(***************************************************************************)
(* The audit service with the SIEM dispatcher as its listener              *)
(* (siem/index.js): one call of logEvent appends to the trail and hands    *)
(* the event to the dispatcher, which may refuse it (schema validation)    *)
(* and may start a flush.                                                  *)
(***************************************************************************)
EXTENDS AuditTrail, SiemDispatcher, FiniteSets

vars == <<auditVars, siemVars>>

Init == AuditInit /\ SiemInit

Log(c, f) == logEvent(c) /\ (ingestEvent(f) \/ UNCHANGED siemVars)

Next ==
  \/ \E c \in Categories, f \in Flushes : Log(c, f)
  \/ SiemNext /\ UNCHANGED auditVars

Spec == Init /\ [][Next]_vars

\* The timer ticks.  Endpoints need not answer, nobody has to log anything.
FairSpec ==
  /\ Spec
  /\ WF_vars((\E f \in Flushes : FlushQueue(f)) /\ UNCHANGED auditVars)

TypeOK == AuditTypeOK /\ SiemTypeOK

\* For TLC: no endpoint, one, two and so on, in some order.
GrowingConfigs ==
  LET order == CHOOSE s \in [1 .. Cardinality(Endpoints) -> Endpoints] : \A i, j \in DOMAIN s : s[i] = s[j] => i = j
  IN  {SubSeq(order, 1, n) : n \in 0 .. Cardinality(Endpoints)}

===============================================================================
