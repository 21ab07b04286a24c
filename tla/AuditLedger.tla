------------------------------- MODULE AuditLedger -------------------------------
(***************************************************************************)
(* The two audit ledgers the scanners keep in memory:                      *)
(* common/audit_logger.py, which numbers, chains, signs and bounds its     *)
(* events, and identity/auth_audit.py, which only chains them.             *)
(*                                                                         *)
(* A call of log_event counts its event, reads the count as its number,    *)
(* scrubs what it was handed, reads the last hash, computes its own,       *)
(* publishes that as the last one and appends its record.  Nothing locks   *)
(* these statements, so those of two threads mix; one statement is one     *)
(* step.  A hash is the content it was computed from; a signature is good  *)
(* for the hash it was made of.                                            *)
(***************************************************************************)
EXTENDS Integers, Sequences, FiniteSets, SequencesExt

CONSTANTS
    Loggers,        \* threads that log
    Details,        \* what an event may carry: a sequence of fields
    MaxRecords,     \* events a ledger keeps
    MaxLogged       \* bound on the events of a behaviour

ASSUME LedgersAssumption == IsFiniteSet(Loggers) /\ MaxRecords \in Nat \ {0} /\ MaxLogged \in Nat

VARIABLES
    kind,           \* which of the two ledgers is used
    events,         \* the records kept, oldest first
    counter,        \* events counted so far
    lastHash,
    call,           \* call[t]: the record thread t is at, and how far
    past            \* what happened to the ledger: who raced, what was evicted or touched
                    \* (shared: two calls stood between counting and taking a number)

ledgerVars == <<kind, events, counter, lastHash, call, past>>

Genesis == <<>>
Idle == [at |-> "idle"]
Untouched == [raced |-> FALSE, shared |-> FALSE, evicted |-> FALSE, touched |-> "no"]

LedgerInit ==
    /\ kind \in {"ledger", "auth"}
    /\ events = <<>>
    /\ counter = 0
    /\ lastHash = Genesis
    /\ call = [t \in Loggers |-> Idle]
    /\ past = Untouched

(***************************************************************************)
(* Scrubbing.  A field has a key, which names a secret or not, and either  *)
(* a text or a node, a container ("dict", or a "list" of them) with fields *)
(* of its own.  A text may hold a private key, an inline secret, or        *)
(* something that only its key gives away.                                 *)
(***************************************************************************)
\* scrub_string, unless the key's name gives the text away already.
ScrubTexts(fields, within) ==
    [i \in DOMAIN fields |->
        [key |-> fields[i].key, within |-> within,
         text |-> IF fields[i].key = "secret" \/ fields[i].text \in {"pem", "inline"} THEN "redacted"
                  ELSE fields[i].text]]

Redacted == <<[key |-> "secret", within |-> "dict", text |-> "redacted"]>>

\* The nodes that a traversal met before it comes to field i.
Met(details, i) == {details[j].node : j \in {k \in 1 .. i - 1 : details[k].key # "secret"}} \ {"none"}

\* scrub_secrets: a node that was met before is called circular, whether it is or not.
ScrubSecrets(details) ==
    [i \in DOMAIN details |->
        LET f == details[i] IN
        IF f.node = "none" THEN ScrubTexts(<<f>>, "dict")
        ELSE IF f.key = "secret" THEN Redacted
        ELSE IF f.node \in Met(details, i) THEN <<[key |-> f.key, within |-> "dict", text |-> "circular"]>>
        ELSE ScrubTexts(f.inner, f.container)]

\* sanitize_metadata of the authentication ledger looks at keys alone, and into no list.
SanitizeMetadata(details) ==
    [i \in DOMAIN details |->
        LET f == details[i] IN
        IF f.key = "secret" THEN Redacted
        ELSE IF f.node = "none" THEN <<[key |-> f.key, within |-> "dict", text |-> f.text]>>
        ELSE [j \in DOMAIN f.inner |->
                [key |-> f.inner[j].key, within |-> f.container,
                 text |-> IF f.container = "dict" /\ f.inner[j].key = "secret" THEN "redacted"
                          ELSE f.inner[j].text]]]

(***************************************************************************)
(* Hashes, signatures, records.                                            *)
(***************************************************************************)
ComputeEventHash(r, prev) == <<r.seq, r.details, prev>>

SignHash(hash) == <<"hmac", hash>>

Unsigned == <<>>

VerifySignature(hash, signature) == signature = SignHash(hash)

Sealed(r, prev) ==
    LET hash == ComputeEventHash(r, prev) IN
    [seq |-> r.seq, details |-> r.details, prev |-> prev, hash |-> hash,
     signature |-> IF kind = "ledger" THEN SignHash(hash) ELSE Unsigned]

Busy(t) == call[t].at # "idle"

\* log_event begins: self.sequence_counter += 1.
CountEvent(t, details) ==
    /\ kind = "ledger" /\ ~Busy(t)
    /\ counter < MaxLogged
    /\ counter' = counter + 1
    /\ call' = [call EXCEPT ![t] = [at |-> "counted", details |-> details]]
    /\ past' = [past EXCEPT !.raced = @ \/ \E u \in Loggers : Busy(u),
                            !.shared = @ \/ \E u \in Loggers : call[u].at = "counted"]
    /\ UNCHANGED <<kind, events, lastHash>>

\* sequence_number = self.sequence_counter: whatever was counted by now; then it scrubs.
TakeNumber(t) ==
    /\ call[t].at = "counted"
    /\ call' = [call EXCEPT ![t] =
         [at |-> "numbered", seq |-> counter, details |-> ScrubSecrets(@.details)]]
    /\ UNCHANGED <<kind, events, counter, lastHash, past>>

\* The authentication ledger has no counter: an event has a random id, here the next number.
NameEvent(t, details) ==
    /\ kind = "auth" /\ ~Busy(t)
    /\ counter < MaxLogged
    /\ counter' = counter + 1
    /\ call' = [call EXCEPT ![t] =
         [at |-> "numbered", seq |-> counter + 1, details |-> SanitizeMetadata(details)]]
    /\ past' = [past EXCEPT !.raced = @ \/ \E u \in Loggers : Busy(u)]
    /\ UNCHANGED <<kind, events, lastHash>>

\* The last hash is read and the record is made from it.
Link(t) ==
    /\ call[t].at = "numbered"
    /\ call' = [call EXCEPT ![t] = [at |-> "linked", record |-> Sealed(@, lastHash)]]
    /\ UNCHANGED <<kind, events, counter, lastHash, past>>

\* Mutation: the chain goes on from the hash before.
PublishHashLate(t) ==
    /\ call[t].at = "linked"
    /\ lastHash' = call[t].record.prev
    /\ call' = [call EXCEPT ![t].at = "published"]
    /\ UNCHANGED <<kind, events, counter, past>>

PublishHash(t) ==
    /\ call[t].at = "linked"
    /\ lastHash' = call[t].record.hash
    /\ call' = [call EXCEPT ![t].at = "published"]
    /\ UNCHANGED <<kind, events, counter, past>>

\* The record is appended; the bounded ledger drops its oldest one.
AppendRecord(t) ==
    /\ call[t].at = "published"
    /\ LET grown == Append(events, call[t].record)
           full == kind = "ledger" /\ Len(grown) > MaxRecords IN
       /\ events' = IF full THEN Tail(grown) ELSE grown
       /\ past' = [past EXCEPT !.evicted = @ \/ full]
    /\ call' = [call EXCEPT ![t] = Idle]
    /\ UNCHANGED <<kind, counter, lastHash>>

(***************************************************************************)
(* Verification.                                                           *)
(***************************************************************************)
\* verify_audit_chain starts from the first record's number, but from the genesis hash
\* whatever that number is; the other ledger lets the first record link to anything.
LinkHolds(i) ==
    IF i > 1 THEN events[i].prev = events[i - 1].hash
    ELSE kind = "ledger" => events[i].prev = Genesis

HashHolds(i) == events[i].hash = ComputeEventHash(events[i], events[i].prev)

NumberHolds(i) == kind = "ledger" => events[i].seq = events[1].seq + i - 1

\* An event without a signature passes.
SignatureHolds(i) ==
    kind = "ledger" /\ events[i].signature # Unsigned => VerifySignature(events[i].hash, events[i].signature)

VerifyIntegrity == \A i \in DOMAIN events : NumberHolds(i) /\ LinkHolds(i) /\ HashHolds(i) /\ SignatureHolds(i)

\* An event with other content, hashed again; the key of the signature is not at hand.
Forged(r) ==
    [r EXCEPT !.details = <<>>, !.hash = ComputeEventHash([r EXCEPT !.details = <<>>], r.prev),
              !.signature = Unsigned]

\* The kept events are edited or forged, or one goes missing or changes its place.
Touch ==
    /\ past.touched = "no"
    /\ VerifyIntegrity
    /\ \E i \in DOMAIN events :
        \/ /\ events[i].details # <<>>
           /\ events' = [events EXCEPT ![i].details = <<>>]
           /\ past' = [past EXCEPT !.touched = "edited"]
        \/ /\ events[i].details # <<>>
           /\ events' = [events EXCEPT ![i] = Forged(@)]
           /\ past' = [past EXCEPT !.touched = IF i = Len(events) THEN "newest forged" ELSE "forged"]
        \/ /\ events' = RemoveAt(events, i)
           /\ past' = [past EXCEPT !.touched =
                 IF i = Len(events) THEN "newest lost" ELSE IF i = 1 THEN "oldest lost" ELSE "lost"]
        \/ /\ i + 1 \in DOMAIN events
           /\ events' = [events EXCEPT ![i] = events[i + 1], ![i + 1] = events[i]]
           /\ past' = [past EXCEPT !.touched = "swapped"]
    /\ UNCHANGED <<kind, counter, lastHash, call>>

Reset ==
    /\ kind = "ledger"
    /\ \A t \in Loggers : ~Busy(t)
    /\ counter = MaxLogged
    /\ events' = <<>>
    /\ counter' = 0
    /\ lastHash' = Genesis
    /\ past' = Untouched
    /\ UNCHANGED <<kind, call>>

LedgerNext ==
    \/ \E t \in Loggers :
        \/ \E d \in Details : CountEvent(t, d) \/ NameEvent(t, d)
        \/ TakeNumber(t) \/ Link(t) \/ PublishHash(t) \/ AppendRecord(t)
    \/ Touch
    \/ Reset

LedgerSpec == LedgerInit /\ [][LedgerNext]_ledgerVars

-------------------------------------------------------------------------------
\* A ledger that one call at a time wrote verifies while it dropped nothing and nobody
\* touched it; once an event was edited, one other than the newest forged or lost, or two
\* put out of order, it does not, whatever is logged or dropped afterwards, except that the
\* authentication ledger does not miss its oldest events.
LedgerTells ==
    /\ (~past.raced /\ ~past.evicted /\ past.touched = "no") => VerifyIntegrity
    /\ (~past.raced /\ past.touched \in {"edited", "forged", "lost", "swapped"}) => ~VerifyIntegrity
    /\ (~past.raced /\ past.touched = "oldest lost" /\ kind = "ledger") => ~VerifyIntegrity

\* However the calls of threads mix, no event is lost: while it dropped none the ledger
\* holds as many as were counted.  Each has a number of its own for as long as no two
\* calls stood between the statement that counts and the one that takes the number.
EveryEventIsNumberedOnce ==
    LET underway == {t \in Loggers : Busy(t)} IN
    past.touched = "no" =>
        /\ ~past.evicted => Len(events) + Cardinality(underway) = counter
        /\ ~past.shared => \A i, j \in DOMAIN events : events[i].seq = events[j].seq => i = j

\* Neither a text under a secret's name nor a text that shows what it is reaches the
\* ledger, however deep it sits; the authentication ledger keeps texts that show what they
\* are, and whatever a list holds.
SecretsAreScrubbed ==
    \A i \in DOMAIN events : \A k \in DOMAIN events[i].details :
        \A m \in DOMAIN events[i].details[k] :
            LET f == events[i].details[k][m] IN
            /\ f.key = "secret" /\ (kind = "ledger" \/ f.within = "dict") => f.text = "redacted"
            /\ kind = "ledger" => f.text \notin {"pem", "inline"}

\* "Verifies the complete cryptographic chain integrity" of a "thread-safe" ledger:
\* nobody touched it, so it verifies.
UntouchedLedgerVerifies == past.touched = "no" => VerifyIntegrity

\* "Contiguous sequence numbers" of a "thread-safe" ledger: none is given twice.
NumbersAreContiguous ==
    past.touched = "no" /\ kind = "ledger" => \A i, j \in DOMAIN events : events[i].seq = events[j].seq => i = j

\* A ledger tells what was done to it, misses nothing, and keeps no secret.
LedgerHolds == LedgerTells /\ EveryEventIsNumberedOnce /\ SecretsAreScrubbed

===============================================================================
