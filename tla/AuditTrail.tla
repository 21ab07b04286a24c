------------------------------ MODULE AuditTrail ------------------------------
(***************************************************************************)
(* The audit service: audit/audit_service.js and audit/tamper_chain.js.    *)
(*                                                                         *)
(* logEvent chains each event to the one before and keeps the newest       *)
(* events in memory; no caller passes it a database.  It runs without an   *)
(* await up to the listeners, so it is one step.                           *)
(*                                                                         *)
(* A hash is the sequence of everything it was computed over, directly or  *)
(* through the hash before it (no collisions): lastHash is the whole log.  *)
(* What an event says is its category.                                     *)
(***************************************************************************)
EXTENDS Naturals, Sequences

CONSTANTS
  Categories,
  MaxInMemory,  \* events kept in memory (2000)
  MaxEvents     \* bound: events logged

ASSUME AuditConstantsOK == MaxInMemory \in Nat \ {0} /\ MaxEvents \in Nat

VARIABLES
  events,           \* the newest events, oldest first
  sequenceCounter,
  lastHash

auditVars == <<events, sequenceCounter, lastHash>>

Payload == [sequenceNumber : Nat, category : Categories]
Record == [sequenceNumber : Nat, category : Categories,
           prevHash : Seq(Payload), hash : Seq(Payload)]

GenesisHash == <<>>

AuditInit ==
  /\ events = <<>>
  /\ sequenceCounter = 0
  /\ lastHash = GenesisHash

\* computeEventHash
EventHash(r, prevHash) ==
  Append(prevHash, [sequenceNumber |-> r.sequenceNumber, category |-> r.category])

\* The next event, chained to the one before.
Chained(c) ==
  LET n == [sequenceNumber |-> sequenceCounter + 1, category |-> c]
  IN  [sequenceNumber |-> n.sequenceNumber, category |-> c,
       prevHash |-> lastHash, hash |-> EventHash(n, lastHash)]

\* events.push, and shift when there are too many.
Push(s, r) == IF Len(s) < MaxInMemory THEN Append(s, r) ELSE Tail(Append(s, r))

logEvent(c) ==
  /\ sequenceCounter < MaxEvents
  /\ events' = Push(events, Chained(c))
  /\ sequenceCounter' = sequenceCounter + 1
  /\ lastHash' = Chained(c).hash

-----------------------------------------------------------------------------
(* Verification *)

\* Slip: the link of a record to the one before is not checked.
verifyAuditChain_Unlinked(trail) ==
  \A i \in DOMAIN trail :
    /\ trail[i].sequenceNumber = trail[1].sequenceNumber + i - 1
    /\ trail[i].hash = EventHash(trail[i], trail[i].prevHash)

\* What is valid: consecutive numbers from that of the first record on, every
\* record linked to the one before it and the first to the genesis hash,
\* whatever its number, and every hash recomputed.
verifyAuditChain(trail) ==
  \A i \in DOMAIN trail :
    /\ trail[i].sequenceNumber = trail[1].sequenceNumber + i - 1
    /\ trail[i].prevHash = IF i = 1 THEN GenesisHash ELSE trail[i - 1].hash
    /\ trail[i].hash = EventHash(trail[i], trail[i].prevHash)

InMemory == {events[i] : i \in DOMAIN events}

\* What getEvents can hand to an export, whatever the filter, the order of the
\* timestamps and the limit (more than that: repetitions too).
Selections == UNION {[1 .. n -> InMemory] : n \in 0 .. Len(events)}

-----------------------------------------------------------------------------
AuditTypeOK ==
  /\ events \in Seq(Record) /\ Len(events) <= MaxInMemory
  /\ sequenceCounter \in Nat
  /\ lastHash \in Seq(Payload)

\* A trail that passes verification leaves nothing out: whatever was filtered,
\* reordered, cut off or dropped from memory, a verified export of n records is
\* the first n events of the log.
VerifiedTrailsAreWhole ==
  \A trail \in Selections : verifyAuditChain(trail) =>
    /\ Len(trail) <= Len(lastHash)
    /\ \A i \in DOMAIN trail : /\ trail[i].sequenceNumber = i
                               /\ trail[i].hash = SubSeq(lastHash, 1, i)

\* audit_logging.test.js:117: "Hash chain must be completely valid".  Nobody but
\* logEvent writes the events here, so GET /audit/verify should find no tampering.
UntouchedTrailVerifies == verifyAuditChain(events)

===============================================================================
