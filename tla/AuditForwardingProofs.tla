------------------------ MODULE AuditForwardingProofs ------------------------
(***************************************************************************)
(* Theorems about AuditForwarding, for any endpoints, configurations,      *)
(* batch sizes, flushes in flight and size of the trail in memory.         *)
(*                                                                         *)
(* The trail: a record's place in the chain is the length of the hash it   *)
(* was linked to, so that the only record linked to the genesis hash is    *)
(* the first event.  The dispatcher: the queue holds the newest events, in *)
(* order, and everything sent or being sent is older than all of it.       *)
(***************************************************************************)
EXTENDS AuditForwarding, SequenceTheorems, TLAPS

-----------------------------------------------------------------------------
(* The trail *)

\* A record in memory is where its number says in the log of all events.
Placed(r, log) ==
  /\ r.sequenceNumber \in 1 .. Len(log)
  /\ Len(r.prevHash) = r.sequenceNumber - 1
  /\ r.hash = SubSeq(log, 1, r.sequenceNumber)

Chain ==
  /\ AuditTypeOK
  /\ Len(lastHash) = sequenceCounter
  /\ \A i \in DOMAIN events : Placed(events[i], lastHash)

\* Appending to a sequence keeps its prefixes.
LEMMA PrefixKept ==
  ASSUME NEW S, NEW s \in Seq(S), NEW x \in S, NEW k \in 1 .. Len(s)
  PROVE  SubSeq(Append(s, x), 1, k) = SubSeq(s, 1, k)
  OBVIOUS

LEMMA PrefixWhole ==
  ASSUME NEW S, NEW s \in Seq(S)
  PROVE  SubSeq(s, 1, Len(s)) = s
  OBVIOUS

\* Two intervals that meet have nothing in common.
LEMMA Adjacent ==
  \A a, b \in Int : (1 .. a) \cap ((a + 1) .. b) = {}
  OBVIOUS

\* Pushing keeps a bounded sequence that holds nothing new but the record.
LEMMA PushFacts ==
  ASSUME NEW S, NEW s \in Seq(S), NEW r \in S, Len(s) <= MaxInMemory
  PROVE  /\ Push(s, r) \in Seq(S)
         /\ Len(Push(s, r)) <= MaxInMemory
         /\ \A i \in DOMAIN Push(s, r) :
              Push(s, r)[i] = r \/ \E j \in DOMAIN s : Push(s, r)[i] = s[j]
<1>1. CASE Len(s) < MaxInMemory
  BY <1>1, AuditConstantsOK DEF Push
<1>2. CASE ~(Len(s) < MaxInMemory)
  <2>1. /\ Append(s, r) \in Seq(S) /\ Len(Append(s, r)) = Len(s) + 1
        /\ \A i \in 1 .. Len(s) : Append(s, r)[i] = s[i]
        /\ Append(s, r)[Len(s) + 1] = r
    OBVIOUS
  <2>2. /\ Tail(Append(s, r)) \in Seq(S) /\ Len(Tail(Append(s, r))) = Len(s)
        /\ \A i \in 1 .. Len(s) : Tail(Append(s, r))[i] = Append(s, r)[i + 1]
    BY <2>1
  <2>3. DOMAIN Tail(Append(s, r)) = 1 .. Len(s) /\ DOMAIN s = 1 .. Len(s) /\ Len(s) \in Nat
    BY <2>2
  <2>4. \A n \in Nat : \A i \in 1 .. n : i = n \/ i + 1 \in 1 .. n
    OBVIOUS
  <2>5. QED
    BY <1>2, <2>1, <2>2, <2>3, <2>4 DEF Push
<1>3. QED
  BY <1>1, <1>2

LEMMA ChainInit == AuditInit => Chain
  BY AuditConstantsOK DEF AuditInit, Chain, AuditTypeOK, GenesisHash, Placed

LEMMA ChainLog ==
  ASSUME Chain, NEW c \in Categories, logEvent(c) PROVE Chain'
<1> DEFINE p == [sequenceNumber |-> sequenceCounter + 1, category |-> c]
           h == Append(lastHash, p)
           r == Chained(c)
<1>0. /\ r = [sequenceNumber |-> sequenceCounter + 1, category |-> c, prevHash |-> lastHash,
              hash |-> h]
      /\ lastHash' = h /\ sequenceCounter' = sequenceCounter + 1 /\ events' = Push(events, r)
  BY DEF logEvent, Chained, EventHash
<1>1. /\ sequenceCounter \in Nat /\ lastHash \in Seq(Payload) /\ Len(lastHash) = sequenceCounter
      /\ events \in Seq(Record) /\ Len(events) <= MaxInMemory
  BY DEF Chain, AuditTypeOK
<1>2. p \in Payload /\ h \in Seq(Payload) /\ Len(h) = sequenceCounter + 1
  BY <1>1 DEF Payload
<1>3. r \in Record
  BY <1>0, <1>1, <1>2 DEF Record
<1>4. AuditTypeOK'
  BY <1>0, <1>1, <1>2, <1>3, PushFacts DEF AuditTypeOK
<1>5. Placed(r, h)
  <2>1. SubSeq(h, 1, sequenceCounter + 1) = h
    BY <1>2, PrefixWhole
  <2>2. QED
    BY <1>0, <1>1, <1>2, <2>1 DEF Placed
<1>6. ASSUME NEW j \in DOMAIN events PROVE Placed(events[j], h)
  <2> DEFINE o == events[j]
  <2>1. Placed(o, lastHash)
    BY DEF Chain
  <2>2. SubSeq(h, 1, o.sequenceNumber) = SubSeq(lastHash, 1, o.sequenceNumber)
    BY <1>1, <1>2, <2>1, PrefixKept DEF Placed
  <2>3. QED
    BY <1>0, <1>1, <1>2, <2>1, <2>2 DEF Placed
<1>7. \A i \in DOMAIN events' : Placed(events'[i], h)
  <2>1. \A i \in DOMAIN Push(events, r) :
          Push(events, r)[i] = r \/ \E j \in DOMAIN events : Push(events, r)[i] = events[j]
    BY <1>1, <1>3, PushFacts
  <2>2. QED
    BY <1>0, <1>5, <1>6, <2>1
<1>8. QED
  BY <1>0, <1>2, <1>4, <1>7 DEF Chain

\* In a verified trail the numbers are 1, 2, 3, ...: its first record is linked
\* to the genesis hash, which only the first event is.
LEMMA ChainVerifies == Chain => VerifiedTrailsAreWhole
<1> SUFFICES ASSUME Chain, NEW n \in 0 .. Len(events), NEW trail \in [1 .. n -> InMemory],
                    verifyAuditChain(trail)
             PROVE  /\ Len(trail) <= Len(lastHash)
                    /\ \A i \in DOMAIN trail : /\ trail[i].sequenceNumber = i
                                               /\ trail[i].hash = SubSeq(lastHash, 1, i)
  BY DEF VerifiedTrailsAreWhole, Selections
<1>1. events \in Seq(Record) /\ Len(events) \in Nat /\ sequenceCounter \in Nat
      /\ Len(lastHash) = sequenceCounter
  BY DEF Chain, AuditTypeOK
<1>2. n \in Nat /\ DOMAIN trail = 1 .. n /\ trail \in Seq(InMemory) /\ Len(trail) = n
  BY <1>1
<1>3. \A i \in 1 .. n : Placed(trail[i], lastHash)
  BY DEF Chain, InMemory
<1>4. \A i \in 1 .. n : trail[i].sequenceNumber = i
  <2> SUFFICES ASSUME NEW i \in 1 .. n PROVE trail[i].sequenceNumber = i
    OBVIOUS
  <2>1. 1 \in 1 .. n
    BY <1>2
  <2>2. trail[1].prevHash = <<>>
    BY <1>2, <2>1 DEF verifyAuditChain, GenesisHash
  <2>3. trail[1].sequenceNumber = 1
    BY <1>3, <2>1, <2>2 DEF Placed
  <2>4. QED
    BY <1>2, <2>3 DEF verifyAuditChain
<1>5. \A i \in 1 .. n : trail[i].hash = SubSeq(lastHash, 1, i)
  BY <1>3, <1>4 DEF Placed
<1>6. n <= sequenceCounter
  <2>1. CASE n = 0
    BY <1>1, <2>1
  <2>2. CASE n \in 1 .. n
    <3>1. trail[n].sequenceNumber \in 1 .. Len(lastHash) /\ trail[n].sequenceNumber = n
      BY <1>3, <1>4, <2>2 DEF Placed
    <3>2. QED
      BY <1>1, <3>1
  <2>3. QED
    BY <1>2, <2>1, <2>2
<1>7. QED
  BY <1>1, <1>2, <1>4, <1>5, <1>6

-----------------------------------------------------------------------------
(* The dispatcher *)

\* The newest events of a log of t of them, in order.
Newest(q, t) ==
  /\ q \in Seq(Nat) /\ t \in Nat /\ Len(q) <= t
  /\ \A i \in 1 .. Len(q) : q[i] = t - Len(q) + i

\* The events that were taken off the queue are 1 .. Sent.
Sent == totalIngested - Len(queue)

\* What is being sent, and what was tried anywhere, was taken off the queue.
Batches ==
  \A f \in Flushes : Active(f) => Elements(batch[f]) \subseteq 1 .. Sent

Books == \A e \in Endpoints : received[e] \cup failed[e] \subseteq 1 .. Sent

\* A flush visits no endpoint twice.
Visits ==
  /\ \A i, j \in DOMAIN endpoints : endpoints[i] = endpoints[j] => i = j
  /\ \A f \in Flushes : \A i, j \in DOMAIN todo[f] : todo[f][i] = todo[f][j] => i = j

Sending ==
  /\ SiemTypeOK /\ Newest(queue, totalIngested)
  /\ Batches /\ Books /\ Visits /\ NothingTwice

\* A sequence cut in two.
LEMMA CutFacts ==
  ASSUME NEW S, NEW q \in Seq(S), NEW k \in 0 .. Len(q)
  PROVE  /\ SubSeq(q, 1, k) \in Seq(S) /\ Len(SubSeq(q, 1, k)) = k
         /\ \A i \in 1 .. k : SubSeq(q, 1, k)[i] = q[i]
         /\ SubSeq(q, k + 1, Len(q)) \in Seq(S)
         /\ Len(SubSeq(q, k + 1, Len(q))) = Len(q) - k
         /\ \A i \in 1 .. (Len(q) - k) : SubSeq(q, k + 1, Len(q))[i] = q[k + i]
<1>1. Len(q) \in Nat /\ k \in Nat /\ k <= Len(q) /\ \A i \in 1 .. Len(q) : q[i] \in S
  OBVIOUS
<1>2. \A i \in 1 .. k : i \in 1 .. Len(q)
  BY <1>1
<1>3. /\ SubSeq(q, 1, k) \in Seq(S) /\ Len(SubSeq(q, 1, k)) = IF 1 <= k THEN k - 1 + 1 ELSE 0
      /\ \A i \in 1 .. (k - 1 + 1) : SubSeq(q, 1, k)[i] = q[1 + i - 1]
  BY <1>1, <1>2, SubSeqProperties
<1>4. \A i \in (k + 1) .. Len(q) : i \in 1 .. Len(q)
  BY <1>1
<1>5. k + 1 \in Int /\ Len(q) \in Int
  BY <1>1
<1> DEFINE m == k + 1
<1> HIDE DEF m
<1>6. /\ SubSeq(q, m, Len(q)) \in Seq(S)
      /\ Len(SubSeq(q, m, Len(q))) = IF m <= Len(q) THEN Len(q) - m + 1 ELSE 0
      /\ \A i \in 1 .. (Len(q) - m + 1) : SubSeq(q, m, Len(q))[i] = q[m + i - 1]
  <2>1. m \in Int /\ \A i \in m .. Len(q) : q[i] \in S
    BY <1>1, <1>4, <1>5 DEF m
  <2>2. QED
    BY <1>5, <2>1, SubSeqProperties
<1>7. Len(q) - m + 1 = Len(q) - k /\ (m <= Len(q) \/ Len(q) - k = 0)
  BY <1>1 DEF m
<1>8. \A i \in 1 .. (Len(q) - k) : m + i - 1 = k + i
  BY <1>1 DEF m
<1>9. /\ SubSeq(q, m, Len(q)) \in Seq(S) /\ Len(SubSeq(q, m, Len(q))) = Len(q) - k
      /\ \A i \in 1 .. (Len(q) - k) : SubSeq(q, m, Len(q))[i] = q[k + i]
  BY <1>6, <1>7, <1>8
<1>10. /\ Len(SubSeq(q, 1, k)) = k
       /\ \A i \in 1 .. k : SubSeq(q, 1, k)[i] = q[i]
  BY <1>1, <1>3
<1>11. QED
  BY <1>3, <1>9, <1>10 DEF m

LEMMA NewestElements ==
  ASSUME NEW q, NEW t, Newest(q, t)
  PROVE  Elements(q) = (t - Len(q) + 1) .. t
<1>1. /\ DOMAIN q = 1 .. Len(q) /\ t \in Nat /\ Len(q) \in Nat /\ Len(q) <= t
      /\ \A i \in 1 .. Len(q) : q[i] = t - Len(q) + i
  BY DEF Newest
<1>2. \A i \in 1 .. Len(q) : t - Len(q) + i \in (t - Len(q) + 1) .. t
  BY <1>1
<1>3. \A i \in 1 .. Len(q) : q[i] \in (t - Len(q) + 1) .. t
  BY <1>1, <1>2
<1>4. \A n \in (t - Len(q) + 1) .. t :
        n - (t - Len(q)) \in 1 .. Len(q) /\ t - Len(q) + (n - (t - Len(q))) = n
  BY <1>1
<1>5. \A n \in (t - Len(q) + 1) .. t : \E i \in 1 .. Len(q) : q[i] = n
  BY <1>1, <1>4
<1>6. QED
  BY <1>1, <1>3, <1>5 DEF Elements

\* A flush splits a queue: older events are taken, the newest are left.
LEMMA FlushSplits ==
  ASSUME NEW q, NEW t, Newest(q, t), batchSize \in Nat \ {0}
  PROVE  /\ Newest(Rest(q), t) /\ Len(Rest(q)) <= Len(q)
         /\ Taken(q) \in Seq(Nat)
         /\ Elements(Taken(q)) \subseteq (t - Len(q) + 1) .. (t - Len(Rest(q)))
         /\ Elements(q) \subseteq Elements(Taken(q)) \cup Elements(Rest(q))
         /\ Elements(q) = (t - Len(q) + 1) .. t
<1> DEFINE k == Size(q)
<1>1. q \in Seq(Nat) /\ t \in Nat /\ Len(q) \in Nat /\ Len(q) <= t
      /\ \A i \in 1 .. Len(q) : q[i] = t - Len(q) + i
  BY DEF Newest
<1>2. k \in 0 .. Len(q)
  BY <1>1 DEF Size
<1> HIDE DEF k
<1>3. /\ Taken(q) \in Seq(Nat) /\ Len(Taken(q)) = k
      /\ \A i \in 1 .. k : Taken(q)[i] = q[i]
  BY <1>1, <1>2, CutFacts, SMTT(30) DEF Taken, k
<1>4. /\ Rest(q) \in Seq(Nat) /\ Len(Rest(q)) = Len(q) - k
      /\ \A i \in 1 .. (Len(q) - k) : Rest(q)[i] = q[k + i]
  BY <1>1, <1>2, CutFacts, ZenonT(60) DEF Rest, k
<1>5. DOMAIN q = 1 .. Len(q) /\ DOMAIN Taken(q) = 1 .. k /\ DOMAIN Rest(q) = 1 .. (Len(q) - k)
  BY <1>1, <1>3, <1>4
<1>6. /\ \A i \in 1 .. (Len(q) - k) : k + i \in 1 .. Len(q)
      /\ \A i \in 1 .. k : i \in 1 .. Len(q)
  BY <1>1, <1>2
<1>7. Newest(Rest(q), t) /\ Len(Rest(q)) <= Len(q)
  BY <1>1, <1>2, <1>4, <1>6, SMTT(30) DEF Newest
<1>8. Elements(Taken(q)) = (t - Len(q) + 1) .. (t - Len(Rest(q)))
  <2>1. \A i \in 1 .. k : Taken(q)[i] = t - Len(q) + i
    BY <1>1, <1>3, <1>6
  <2>2. \A n \in (t - Len(q) + 1) .. (t - Len(q) + k) :
          n - (t - Len(q)) \in 1 .. k /\ t - Len(q) + (n - (t - Len(q))) = n
    BY <1>1, <1>2
  <2>3. \A i \in 1 .. k : t - Len(q) + i \in (t - Len(q) + 1) .. (t - Len(q) + k)
    BY <1>1, <1>2
  <2>4. t - Len(Rest(q)) = t - Len(q) + k
    BY <1>1, <1>2, <1>4
  <2>5. \A i \in 1 .. k : Taken(q)[i] \in (t - Len(q) + 1) .. (t - Len(Rest(q)))
    BY <2>1, <2>3, <2>4
  <2>6. \A n \in (t - Len(q) + 1) .. (t - Len(Rest(q))) : \E i \in 1 .. k : Taken(q)[i] = n
    BY <2>1, <2>2, <2>4
  <2>7. QED
    BY <1>5, <2>5, <2>6 DEF Elements
<1>9. Elements(q) = (t - Len(q) + 1) .. t
  BY NewestElements
<1>10. Elements(q) \subseteq Elements(Taken(q)) \cup Elements(Rest(q))
  <2>1. \A i \in 1 .. Len(q) : i \in 1 .. k \/ (i - k \in 1 .. (Len(q) - k) /\ k + (i - k) = i)
    BY <1>1, <1>2
  <2>2. QED
    <3>1. ASSUME NEW i \in 1 .. Len(q)
          PROVE  q[i] \in Elements(Taken(q)) \cup Elements(Rest(q))
      <4>1. CASE i \in 1 .. k
        BY <1>3, <1>5, <4>1 DEF Elements
      <4>2. CASE i - k \in 1 .. (Len(q) - k) /\ k + (i - k) = i
        <5>1. Rest(q)[i - k] = q[i]
          BY <1>4, <4>2
        <5>2. QED
          BY <1>5, <4>2, <5>1 DEF Elements
      <4>3. QED
        BY <2>1, <4>1, <4>2
    <3>2. QED
      BY <1>5, <3>1 DEF Elements
<1>11. QED
  BY <1>3, <1>7, <1>8, <1>9, <1>10

\* The queue with one more event.
LEMMA LongerNewest ==
  ASSUME Sending
  PROVE  /\ Newest(Longer, totalIngested + 1) /\ Len(Longer) = Len(queue) + 1
         /\ Elements(queue) \subseteq Elements(Longer) /\ Longer # <<>>
<1>1. queue \in Seq(Nat) /\ totalIngested \in Nat /\ Len(queue) \in Nat
      /\ Len(queue) <= totalIngested
      /\ \A i \in 1 .. Len(queue) : queue[i] = totalIngested - Len(queue) + i
  BY DEF Sending, Newest
<1>2. /\ Longer \in Seq(Nat) /\ Len(Longer) = Len(queue) + 1
      /\ \A i \in 1 .. Len(queue) : Longer[i] = queue[i]
      /\ Longer[Len(queue) + 1] = totalIngested + 1
  BY <1>1 DEF Longer
<1>3. \A i \in 1 .. (Len(queue) + 1) : i \in 1 .. Len(queue) \/ i = Len(queue) + 1
  BY <1>1
<1>4. Newest(Longer, totalIngested + 1)
  <2>1. \A i \in 1 .. Len(queue) : Longer[i] = totalIngested + 1 - (Len(queue) + 1) + i
    BY <1>1, <1>2
  <2>2. Longer[Len(queue) + 1] = totalIngested + 1 - (Len(queue) + 1) + (Len(queue) + 1)
    BY <1>1, <1>2
  <2>3. QED
    BY <1>1, <1>2, <1>3, <2>1, <2>2, SMTT(30) DEF Newest
<1>5. Elements(queue) \subseteq Elements(Longer)
  <2>1. DOMAIN queue = 1 .. Len(queue) /\ DOMAIN Longer = 1 .. (Len(queue) + 1)
    BY <1>1, <1>2
  <2>2. \A i \in 1 .. Len(queue) : i \in 1 .. (Len(queue) + 1)
    BY <1>1
  <2>3. QED
    BY <1>2, <2>1, <2>2 DEF Elements
<1>6. QED
  BY <1>1, <1>2, <1>4, <1>5

\* The steps that take events off the queue: what a flush gets is newer than all
\* that was sent, older than what is left, and no other flush gets it.
Launch(f) == todo'[f] # todo[f] \/ batch'[f] # batch[f]

LEMMA LaunchKeeps ==
  ASSUME Sending, UNCHANGED <<config, books>>,
         Newest(queue', totalIngested'), Sent <= Sent',
         batch' \in [Flushes -> Seq(Nat)], todo' \in [Flushes -> Seq(Endpoints)],
         \A f \in Flushes : Launch(f) =>
           todo'[f] = endpoints /\ Elements(batch'[f]) \subseteq (Sent + 1) .. Sent',
         \A f, g \in Flushes : f # g /\ Launch(f) /\ Launch(g) =>
           Elements(batch'[f]) \cap Elements(batch'[g]) = {}
  PROVE  Sending'
<1>1. Sent \in Nat /\ Sent' \in Nat
  BY DEF Sending, Newest, Sent
<1>2. SiemTypeOK'
  BY DEF Sending, SiemTypeOK, Newest, config, books
<1>3. \A f \in Flushes : todo'[f] # <<>> =>
        \/ Active(f) /\ todo'[f] = todo[f] /\ batch'[f] = batch[f]
           /\ Elements(batch'[f]) \subseteq 1 .. Sent
        \/ Launch(f) /\ Elements(batch'[f]) \subseteq (Sent + 1) .. Sent'
  BY DEF Launch, Active, Sending, Batches
<1>4. Batches'
  BY <1>1, <1>3 DEF Batches, Active
<1>5. Books'
  BY <1>1 DEF Sending, Books, books
<1>6. Visits'
  BY DEF Sending, Visits, config, Launch
<1>7. NothingTwice'
  <2>1. Elements(queue') = (Sent' + 1) .. totalIngested'
    BY NewestElements DEF Sent
  <2>2. ASSUME NEW f \in Flushes, todo'[f] # <<>>
        PROVE  Elements(batch'[f]) \cap Elements(queue') = {}
    <3>1. Elements(batch'[f]) \subseteq 1 .. Sent'
      BY <1>4, <2>2 DEF Batches, Active, Sent
    <3>2. Sent' \in Int /\ totalIngested' \in Int
      BY <1>1 DEF Newest
    <3>3. (1 .. Sent') \cap ((Sent' + 1) .. totalIngested') = {}
      BY ONLY <3>2, Adjacent
    <3>4. QED
      BY <2>1, <3>1, <3>3
  <2>3. ASSUME NEW f \in Flushes, NEW g \in Flushes \ {f}, todo'[f] # <<>>, todo'[g] # <<>>
        PROVE  Elements(batch'[f]) \cap Elements(batch'[g]) = {}
    <3>1. CASE Launch(f) /\ Launch(g)
      BY <3>1
    <3>2. CASE ~Launch(f) /\ ~Launch(g)
      BY <1>3, <2>3, <3>2 DEF Sending, NothingTwice
    <3>3. CASE ~(Launch(f) <=> Launch(g))
      BY <1>1, <1>3, <2>3, <3>3
    <3>4. QED
      BY <3>1, <3>2, <3>3
  <2>4. ASSUME NEW f \in Flushes, todo'[f] # <<>>, NEW e \in Elements(todo'[f])
        PROVE  Elements(batch'[f]) \cap (received'[e] \cup failed'[e]) = {}
    <3>1. received' = received /\ failed' = failed
      BY DEF books
    <3>2. CASE Launch(f)
      <4>1. e \in Endpoints
        BY DEF Elements
      <4>2. QED
        BY <1>1, <1>3, <2>4, <3>1, <3>2, <4>1 DEF Sending, Books
    <3>3. CASE ~Launch(f)
      BY <1>3, <2>4, <3>1, <3>3 DEF Sending, NothingTwice, Launch
    <3>4. QED
      BY <3>2, <3>3
  <2>5. QED
    BY <2>2, <2>3, <2>4 DEF NothingTwice, Active, Elements
<1>8. QED
  BY <1>2, <1>4, <1>5, <1>6, <1>7 DEF Sending

-----------------------------------------------------------------------------
(* The steps of the dispatcher *)

LEMMA SendingInit == SiemInit => Sending
<1> SUFFICES ASSUME SiemInit PROVE Sending
  OBVIOUS
<1>1. SiemTypeOK
  BY SiemConstantsOK DEF SiemInit, SiemTypeOK
<1>2. Newest(queue, totalIngested)
  BY DEF SiemInit, Newest
<1>3. Batches /\ Books /\ Visits /\ NothingTwice
  BY DEF SiemInit, Batches, Books, Visits, NothingTwice, Active
<1>4. QED
  BY <1>1, <1>2, <1>3 DEF Sending

LEMMA SendingType ==
  ASSUME Sending
  PROVE  /\ totalIngested \in Nat /\ queue \in Seq(Nat) /\ Len(queue) \in Nat
         /\ batchSize \in Nat \ {0} /\ endpoints \in Seq(Endpoints)
         /\ batch \in [Flushes -> Seq(Nat)] /\ todo \in [Flushes -> Seq(Endpoints)]
         /\ Sent \in Nat /\ Sent = totalIngested - Len(queue)
<1>1. batchSize \in Nat \ {0} /\ endpoints \in Seq(Endpoints)
  <2>1. /\ batchSize \in BatchSizes /\ endpoints \in Configs \cup {<<>>}
        /\ Configs \subseteq Seq(Endpoints) /\ BatchSizes \subseteq Nat \ {0}
    BY SiemConstantsOK DEF Sending, SiemTypeOK
  <2>2. <<>> \in Seq(Endpoints)
    OBVIOUS
  <2>3. QED
    BY <2>1, <2>2
<1>2. /\ totalIngested \in Nat /\ queue \in Seq(Nat) /\ Len(queue) \in Nat
      /\ Len(queue) <= totalIngested
  BY DEF Sending, Newest
<1>3. batch \in [Flushes -> Seq(Nat)] /\ todo \in [Flushes -> Seq(Endpoints)]
  BY DEF Sending, SiemTypeOK
<1>4. QED
  BY <1>1, <1>2, <1>3 DEF Sent

\* Calls of flushQueue on a queue q that continues the log from where sending is.
LEMMA FlushKeeps ==
  ASSUME Sending, NEW f \in Flushes, NEW q, Newest(q, totalIngested'),
         totalIngested' - Len(q) = Sent, Elements(queue) \subseteq Elements(q),
         Flush(f, q), UNCHANGED <<config, books>>
  PROVE  Sending' /\ Tried
<1>1. /\ Newest(Rest(q), totalIngested') /\ Len(Rest(q)) <= Len(q)
      /\ Taken(q) \in Seq(Nat)
      /\ Elements(Taken(q)) \subseteq (totalIngested' - Len(q) + 1) ..
                                      (totalIngested' - Len(Rest(q)))
      /\ Elements(q) \subseteq Elements(Taken(q)) \cup Elements(Rest(q))
  BY SendingType, FlushSplits
<1>2. queue' = Rest(q)
  BY DEF Flush
<1>3. totalIngested' \in Nat /\ Len(q) \in Nat /\ Len(Rest(q)) \in Nat
  BY <1>1 DEF Newest
<1>4. Sent <= Sent' /\ Elements(Taken(q)) \subseteq (Sent + 1) .. Sent'
  BY <1>1, <1>2, <1>3, SendingType, SMTT(30) DEF Sent
<1>5. /\ batch' \in [Flushes -> Seq(Nat)] /\ todo' \in [Flushes -> Seq(Endpoints)]
      /\ \A g \in Flushes : Launch(g) =>
           g = f /\ Launches(q) /\ todo'[g] = endpoints /\ batch'[g] = Taken(q)
      /\ Launches(q) => todo[f] = <<>> /\ todo'[f] = endpoints /\ batch'[f] = Taken(q)
  BY <1>1, SendingType DEF Flush, Launch, Free
<1>6. Sending'
  BY <1>1, <1>2, <1>4, <1>5, LaunchKeeps
<1>7. ASSUME NEW n \in Elements(queue), n \notin Elements(queue')
      PROVE  endpoints = <<>> \/ (n \in Elements(batch'[f]) /\ todo'[f] = endpoints)
  <2>1. n \in Elements(Taken(q)) /\ q # <<>>
    <3>1. n \in Elements(q)
      OBVIOUS
    <3>2. q # <<>>
      BY <3>1 DEF Elements
    <3>3. QED
      BY <1>1, <1>2, <1>7, <3>1, <3>2
  <2>2. QED
    BY <1>5, <2>1 DEF Launches
<1>8. ASSUME NEW g \in Flushes PROVE Elements(todo[g]) \subseteq Elements(todo'[g])
  <2>1. todo'[g] = todo[g] \/ todo[g] = <<>>
    BY <1>5 DEF Launch
  <2>2. Elements(<<>>) = {}
    BY DEF Elements
  <2>3. QED
    BY <2>1, <2>2
<1>9. QED
  BY <1>6, <1>7, <1>8 DEF Tried

LEMMA IngestKeeps ==
  ASSUME Sending, NEW f \in Flushes, ingestEvent(f) PROVE Sending' /\ Tried
<1>1. /\ totalIngested' = totalIngested + 1 /\ UNCHANGED <<config, books>>
  BY DEF ingestEvent
<1>2. /\ Newest(Longer, totalIngested') /\ Len(Longer) = Len(queue) + 1
      /\ Elements(queue) \subseteq Elements(Longer)
  BY <1>1, LongerNewest
<1>3. totalIngested' - Len(Longer) = Sent
  BY <1>1, <1>2, SendingType
<1>4. CASE Flush(f, Longer)
  BY <1>1, <1>2, <1>3, <1>4, FlushKeeps
<1>5. CASE queue' = Longer /\ UNCHANGED <<batch, todo>>
  <2>1. Sent' = Sent
    BY <1>3, <1>5 DEF Sent
  <2>2. \A g \in Flushes : ~Launch(g)
    BY <1>5 DEF Launch
  <2>3. Sending'
    BY <1>1, <1>2, <1>5, <2>1, <2>2, SendingType, LaunchKeeps
  <2>4. QED
    BY <1>2, <1>5, <2>3 DEF Tried
<1>6. QED
  BY <1>4, <1>5 DEF ingestEvent

LEMMA FlushQueueKeeps ==
  ASSUME Sending, NEW f \in Flushes, FlushQueue(f) PROVE Sending' /\ Tried
<1>1. Newest(queue, totalIngested') /\ totalIngested' - Len(queue) = Sent
  BY SendingType DEF FlushQueue, Sending
<1>2. QED
  BY <1>1, FlushKeeps DEF FlushQueue

\* POST /forward: two flushes one after the other, of which the second takes
\* from what the first left.
LEMMA ForwardKeeps ==
  ASSUME Sending, NEW f \in Flushes, NEW g \in Flushes, Forward(f, g)
  PROVE  Sending' /\ Tried
<1> DEFINE left == Rest(Longer)
<1>1. /\ totalIngested' = totalIngested + 1 /\ UNCHANGED <<config, books>>
  BY DEF Forward
<1>2. /\ Newest(Longer, totalIngested') /\ Len(Longer) = Len(queue) + 1
      /\ Elements(queue) \subseteq Elements(Longer) /\ Longer # <<>>
  BY <1>1, LongerNewest
<1>3. totalIngested' - Len(Longer) = Sent
  BY <1>1, <1>2, SendingType
<1>4. CASE Flush(f, Longer)
  BY <1>1, <1>2, <1>3, <1>4, FlushKeeps
<1>5. CASE /\ f # g
           /\ queue' = Rest(left)
           /\ Launches(Longer) => Free(f)
           /\ Launches(left) => Free(g)
           /\ batch' = [h \in Flushes |-> IF h = f /\ Launches(Longer) THEN Taken(Longer)
                                          ELSE IF h = g /\ Launches(left) THEN Taken(left)
                                          ELSE batch[h]]
           /\ todo' = [h \in Flushes |-> IF \/ h = f /\ Launches(Longer)
                                            \/ h = g /\ Launches(left)
                                         THEN endpoints ELSE todo[h]]
  <2> DEFINE mid == totalIngested' - Len(left)
  <2>1. /\ Newest(left, totalIngested') /\ Len(left) <= Len(Longer)
        /\ Taken(Longer) \in Seq(Nat)
        /\ Elements(Taken(Longer)) \subseteq (totalIngested' - Len(Longer) + 1) .. mid
        /\ Elements(Longer) \subseteq Elements(Taken(Longer)) \cup Elements(left)
    BY <1>2, SendingType, FlushSplits
  <2>2. /\ Newest(Rest(left), totalIngested') /\ Len(Rest(left)) <= Len(left)
        /\ Taken(left) \in Seq(Nat)
        /\ Elements(Taken(left)) \subseteq (mid + 1) .. (totalIngested' - Len(Rest(left)))
        /\ Elements(left) \subseteq Elements(Taken(left)) \cup Elements(Rest(left))
    BY <2>1, SendingType, FlushSplits
  <2>3. totalIngested' \in Nat /\ Len(left) \in Nat /\ Len(Longer) \in Nat
        /\ Len(Rest(left)) \in Nat
    BY <1>2, <2>1, <2>2 DEF Newest
  <2>4. /\ mid \in Int /\ Sent <= mid /\ mid <= Sent'
        /\ Elements(Taken(Longer)) \subseteq (Sent + 1) .. mid
        /\ Elements(Taken(left)) \subseteq (mid + 1) .. Sent'
        /\ Sent' \in Int
    <3>1. Sent' = totalIngested' - Len(Rest(left))
      BY <1>5 DEF Sent
    <3>2. Sent = totalIngested' - Len(Longer) /\ mid = totalIngested' - Len(left)
      BY <1>3
    <3> HIDE DEF mid, left
    <3>3. /\ mid \in Int /\ Sent <= mid /\ mid <= Sent' /\ Sent' \in Int
      BY <2>1, <2>2, <2>3, <3>1, <3>2, SMTT(30)
    <3>4. Elements(Taken(Longer)) \subseteq (Sent + 1) .. mid
      BY <2>1, <3>2
    <3>5. Elements(Taken(left)) \subseteq (mid + 1) .. Sent'
      BY <2>2, <3>1
    <3>6. QED
      BY <3>3, <3>4, <3>5
  <2> HIDE DEF mid, left
  <2>5. /\ Elements(Taken(Longer)) \subseteq (Sent + 1) .. Sent'
        /\ Elements(Taken(left)) \subseteq (Sent + 1) .. Sent'
        /\ Elements(Taken(Longer)) \cap Elements(Taken(left)) = {}
        /\ Sent <= Sent'
    BY <2>4, SendingType, SMTT(30)
  <2>6. /\ batch' \in [Flushes -> Seq(Nat)] /\ todo' \in [Flushes -> Seq(Endpoints)]
    BY <1>5, <2>1, <2>2, SendingType
  <2>7. \A h \in Flushes : Launch(h) =>
          /\ todo'[h] = endpoints
          /\ \/ h = f /\ Launches(Longer) /\ batch'[h] = Taken(Longer)
             \/ h = g /\ Launches(left) /\ batch'[h] = Taken(left)
    BY <1>5, SendingType DEF Launch
  <2>8. Sending'
    <3>1. \A h \in Flushes : Launch(h) =>
            todo'[h] = endpoints /\ Elements(batch'[h]) \subseteq (Sent + 1) .. Sent'
      BY <2>5, <2>7
    <3>2. \A h, k \in Flushes : h # k /\ Launch(h) /\ Launch(k) =>
            Elements(batch'[h]) \cap Elements(batch'[k]) = {}
      BY <2>5, <2>7
    <3>3. Newest(queue', totalIngested')
      BY <1>5, <2>2
    <3>4. QED
      BY <1>1, <2>5, <2>6, <3>1, <3>2, <3>3, LaunchKeeps
  <2>9. ASSUME NEW n \in Elements(queue), n \notin Elements(queue')
        PROVE  endpoints = <<>> \/ \E h \in Flushes : n \in Elements(batch'[h])
                                                      /\ todo'[h] = endpoints
    <3>1. n \in Elements(Taken(Longer)) \/ (n \in Elements(Taken(left)) /\ left # <<>>)
      <4>1. n \in Elements(Taken(Longer)) \/ n \in Elements(left)
        BY <1>2, <2>1
      <4>2. n \in Elements(left) => left # <<>> /\ n \in Elements(Taken(left))
        BY <1>5, <2>2, <2>9, SMTT(30) DEF Elements
      <4>3. QED
        BY <4>1, <4>2
    <3>2. CASE endpoints # <<>> /\ n \in Elements(Taken(Longer))
      BY <1>2, <1>5, <3>2 DEF Launches
    <3>3. CASE endpoints # <<>> /\ n \in Elements(Taken(left)) /\ left # <<>>
      BY <1>5, <3>3 DEF Launches
    <3>4. QED
      BY <3>1, <3>2, <3>3
  <2>10. ASSUME NEW h \in Flushes PROVE Elements(todo[h]) \subseteq Elements(todo'[h])
    <3>1. todo'[h] = todo[h] \/ todo[h] = <<>>
      BY <1>5, SendingType DEF Free
    <3>2. Elements(<<>>) = {}
      BY DEF Elements
    <3>3. QED
      BY <3>1, <3>2
  <2>11. QED
    BY <2>8, <2>9, <2>10 DEF Tried
<1>6. QED
  BY <1>4, <1>5 DEF Forward

\* The head of a sequence without repetition is not in its tail.
LEMMA HeadGone ==
  ASSUME NEW S, NEW s \in Seq(S), s # <<>>,
         \A i, j \in DOMAIN s : s[i] = s[j] => i = j
  PROVE  /\ Head(s) \in Elements(s) /\ Head(s) \in S /\ Tail(s) \in Seq(S)
         /\ Elements(Tail(s)) = Elements(s) \ {Head(s)}
         /\ \A i, j \in DOMAIN Tail(s) : Tail(s)[i] = Tail(s)[j] => i = j
<1>1. /\ Head(s) = s[1] /\ Head(s) \in S /\ Tail(s) \in Seq(S)
      /\ Len(s) \in Nat \ {0} /\ Len(Tail(s)) = Len(s) - 1
      /\ \A i \in 1 .. (Len(s) - 1) : Tail(s)[i] = s[i + 1]
  BY HeadTailProperties
<1>2. DOMAIN s = 1 .. Len(s) /\ DOMAIN Tail(s) = 1 .. (Len(s) - 1)
  BY <1>1
<1>3. /\ \A i \in 1 .. (Len(s) - 1) : i + 1 \in 1 .. Len(s) /\ i + 1 # 1
      /\ \A i \in 1 .. Len(s) : i = 1 \/ (i - 1 \in 1 .. (Len(s) - 1) /\ (i - 1) + 1 = i)
      /\ 1 \in 1 .. Len(s)
      /\ \A i, j \in 1 .. (Len(s) - 1) : i + 1 = j + 1 => i = j
  BY <1>1
<1>4. \A i \in 1 .. (Len(s) - 1) : Tail(s)[i] \in Elements(s) \ {Head(s)}
  BY <1>1, <1>2, <1>3 DEF Elements
<1>5. \A i \in 1 .. Len(s) : s[i] = Head(s) \/ s[i] \in Elements(Tail(s))
  <2> SUFFICES ASSUME NEW i \in 1 .. Len(s), i - 1 \in 1 .. (Len(s) - 1), (i - 1) + 1 = i
               PROVE  s[i] \in Elements(Tail(s))
    BY <1>1, <1>3
  <2>1. Tail(s)[i - 1] = s[i]
    BY <1>1
  <2>2. QED
    BY <1>2, <2>1 DEF Elements
<1>6. Elements(Tail(s)) = Elements(s) \ {Head(s)}
  BY <1>2, <1>4, <1>5 DEF Elements
<1>7. \A i, j \in DOMAIN Tail(s) : Tail(s)[i] = Tail(s)[j] => i = j
  BY <1>1, <1>2, <1>3
<1>8. Head(s) \in Elements(s)
  BY <1>1, <1>2, <1>3 DEF Elements
<1>9. QED
  BY <1>1, <1>6, <1>7, <1>8

LEMMA SettleKeeps ==
  ASSUME Sending, NEW f \in Flushes, Settle(f) PROVE Sending' /\ Tried
<1> DEFINE e == Head(todo[f])
           b == Elements(batch[f])
<1>1. /\ todo[f] \in Seq(Endpoints) /\ todo[f] # <<>>
      /\ \A i, j \in DOMAIN todo[f] : todo[f][i] = todo[f][j] => i = j
  BY SendingType DEF Settle, Sending, Visits
<1>2. /\ e \in Elements(todo[f]) /\ e \in Endpoints /\ Tail(todo[f]) \in Seq(Endpoints)
      /\ Elements(Tail(todo[f])) = Elements(todo[f]) \ {e}
      /\ \A i, j \in DOMAIN Tail(todo[f]) : Tail(todo[f])[i] = Tail(todo[f])[j] => i = j
  BY <1>1, HeadGone
<1>3. /\ todo' = [todo EXCEPT ![f] = Tail(@)]
      /\ UNCHANGED <<totalIngested, queue, batchSize, endpoints, batch>>
  BY DEF Settle, config
<1>4. /\ received \in [Endpoints -> SUBSET Nat] /\ failed \in [Endpoints -> SUBSET Nat]
      /\ batch[f] \in Seq(Nat) /\ b \subseteq Nat
  BY SendingType, SMTT(30) DEF Sending, SiemTypeOK, Elements
<1>5. /\ received' \in [Endpoints -> SUBSET Nat] /\ failed' \in [Endpoints -> SUBSET Nat]
      /\ received'[e] \cup failed'[e] = received[e] \cup failed[e] \cup b
      /\ \A d \in Endpoints \ {e} : received'[d] = received[d] /\ failed'[d] = failed[d]
  <2>1. Add(received, e, f) = [received EXCEPT ![e] = @ \cup b]
        /\ Add(failed, e, f) = [failed EXCEPT ![e] = @ \cup b]
    BY DEF Add, Elements
  <2>2. CASE received' = Add(received, e, f) /\ UNCHANGED failed
    BY <1>2, <1>4, <2>1, <2>2
  <2>3. CASE failed' = Add(failed, e, f) /\ received' \in {received, Add(received, e, f)}
    BY <1>2, <1>4, <2>1, <2>3, ZenonT(60)
  <2>4. QED
    BY <2>2, <2>3 DEF Settle
<1>6. /\ todo' \in [Flushes -> Seq(Endpoints)] /\ todo'[f] = Tail(todo[f])
      /\ \A g \in Flushes \ {f} : todo'[g] = todo[g]
  BY <1>2, <1>3, SendingType
<1>7. \A g \in Flushes : todo'[g] # <<>> => Active(g)
  BY <1>1, <1>6 DEF Active
<1>8. Sent' = Sent /\ b \subseteq 1 .. Sent
  BY <1>1, <1>3 DEF Sent, Sending, Batches, Active
<1> HIDE DEF e, b
<1>9. SiemTypeOK'
  BY <1>3, <1>5, <1>6 DEF Sending, SiemTypeOK
<1>10. Newest(queue', totalIngested') /\ Batches' /\ Visits'
  BY <1>2, <1>3, <1>6, <1>7, <1>8 DEF Sending, Newest, Batches, Visits, Active
<1>11. Books'
  BY <1>2, <1>5, <1>8 DEF Sending, Books
<1>12. NothingTwice'
  <2>1. ASSUME NEW g \in Flushes, todo'[g] # <<>>, NEW d \in Elements(todo'[g])
        PROVE  Elements(batch[g]) \cap (received'[d] \cup failed'[d]) = {}
    <3>1. Active(g) /\ d \in Elements(todo[g]) /\ d \in Endpoints
      <4>1. d \in Elements(todo[g])
        BY <1>2, <1>6
      <4>2. QED
        BY <1>6, <1>7, <2>1, <4>1 DEF Elements
    <3>2. Elements(batch[g]) \cap (received[d] \cup failed[d]) = {}
      BY <3>1 DEF Sending, NothingTwice
    <3>3. CASE d # e
      BY <1>5, <3>1, <3>2, <3>3
    <3>4. CASE d = e
      <4>1. g # f
        BY <1>2, <1>6, <3>4
      <4>2. Elements(batch[g]) \cap b = {}
        BY <1>1, <3>1, <4>1 DEF Sending, NothingTwice, Active, b
      <4>3. QED
        BY <1>5, <3>2, <3>4, <4>2
    <3>5. QED
      BY <3>3, <3>4
  <2>2. ASSUME NEW g \in Flushes, todo'[g] # <<>>
        PROVE  /\ Elements(batch[g]) \cap Elements(queue) = {}
               /\ \A h \in Flushes \ {g} : todo'[h] # <<>> =>
                    Elements(batch[g]) \cap Elements(batch[h]) = {}
    BY <1>7, <2>2 DEF Sending, NothingTwice
  <2>3. QED
    BY <1>3, <2>1, <2>2 DEF NothingTwice, Active
<1>13. Tried
  BY <1>2, <1>3, <1>5, <1>6 DEF Tried, b
<1>14. QED
  BY <1>9, <1>10, <1>11, <1>12, <1>13 DEF Sending

LEMMA ConfigureKeeps ==
  ASSUME Sending, NEW c \in Configs \cup {endpoints}, NEW n \in BatchSizes, Configure(c, n)
  PROVE  Sending' /\ Tried
<1>1. /\ c \in Configs \cup {<<>>}
      /\ \A i, j \in DOMAIN c : c[i] = c[j] => i = j
  BY SiemConstantsOK DEF Sending, SiemTypeOK, Visits
<1>2. UNCHANGED <<totalIngested, queue, batch, todo, received, failed>>
      /\ endpoints' = c /\ batchSize' = n
  BY DEF Configure, books
<1>3. SiemTypeOK'
  BY <1>1, <1>2 DEF Sending, SiemTypeOK
<1>4. Newest(queue', totalIngested') /\ Batches' /\ Books' /\ Visits' /\ NothingTwice'
  BY <1>1, <1>2 DEF Sending, Batches, Books, Visits, NothingTwice, Active, Sent
<1>5. QED
  BY <1>2, <1>3, <1>4 DEF Sending, Tried

-----------------------------------------------------------------------------
(* The theorems *)

IInv == Chain /\ Sending

LEMMA StillKeeps ==
  ASSUME Sending, UNCHANGED siemVars PROVE Sending' /\ Tried
<1>1. UNCHANGED <<totalIngested, queue, batchSize, endpoints, batch, todo, received, failed>>
  BY DEF siemVars, config, books
<1>2. QED
  BY <1>1 DEF Sending, SiemTypeOK, Newest, Batches, Books, Visits, NothingTwice, Active, Sent,
     Tried

LEMMA NextKeeps ==
  ASSUME IInv, [Next]_vars PROVE IInv' /\ [Tried]_siemVars
<1>1. ASSUME NEW c \in Categories, NEW f \in Flushes, Log(c, f)
      PROVE  Chain' /\ Sending' /\ Tried
  BY <1>1, ChainLog, IngestKeeps, StillKeeps DEF Log, IInv
<1>2. ASSUME UNCHANGED auditVars PROVE Chain'
  BY <1>2 DEF IInv, Chain, AuditTypeOK, auditVars
<1>3. ASSUME SiemNext PROVE Sending' /\ Tried
  <2>1. ASSUME NEW f \in Flushes, NEW g \in Flushes, Forward(f, g) PROVE Sending' /\ Tried
    BY <2>1, ForwardKeeps DEF IInv
  <2>2. ASSUME NEW f \in Flushes, FlushQueue(f) PROVE Sending' /\ Tried
    BY <2>2, FlushQueueKeeps DEF IInv
  <2>3. ASSUME NEW f \in Flushes, Settle(f) PROVE Sending' /\ Tried
    BY <2>3, SettleKeeps DEF IInv
  <2>4. ASSUME NEW c \in Configs \cup {endpoints}, NEW n \in BatchSizes, Configure(c, n)
        PROVE  Sending' /\ Tried
    BY <2>4, ConfigureKeeps DEF IInv
  <2>5. QED
    BY <1>3, <2>1, <2>2, <2>3, <2>4 DEF SiemNext
<1>4. ASSUME UNCHANGED vars PROVE Chain' /\ Sending' /\ Tried
  BY <1>2, <1>4, StillKeeps DEF vars, IInv
<1>5. QED
  BY <1>1, <1>2, <1>3, <1>4 DEF Next, IInv

\* Whatever logEvent, the flushes and PUT /config do in any order, the records in
\* memory stay in their places of the log and the queue holds its newest events.
THEOREM Inductive == Spec => []IInv
<1>1. Init => IInv
  BY ChainInit, SendingInit DEF Init, IInv
<1>2. IInv /\ [Next]_vars => IInv'
  BY NextKeeps
<1>3. QED
  BY <1>1, <1>2, PTL DEF Spec

\* The variables of logEvent, ingestEvent and flushQueue keep their types.
THEOREM AuditTypeCorrect == Spec => []TypeOK
<1>1. IInv => TypeOK
  BY DEF IInv, Chain, Sending, TypeOK
<1>2. QED
  BY <1>1, Inductive, PTL

\* What exportAuditTrail calls verified is a beginning of the log, with nothing
\* left out, for any size of the ledger in memory.
THEOREM VerifiedTrailsAreWholeCorrect == Spec => []VerifiedTrailsAreWhole
<1>1. IInv => VerifiedTrailsAreWhole
  BY ChainVerifies DEF IInv
<1>2. QED
  BY <1>1, Inductive, PTL

\* However many calls of flushQueue are in flight, none sends to an endpoint
\* what was tried there or what another one sends.
THEOREM NothingTwiceCorrect == Spec => []NothingTwice
<1>1. IInv => NothingTwice
  BY DEF IInv, Sending
<1>2. QED
  BY <1>1, Inductive, PTL

\* An event leaves the queue of flushQueue for all the endpoints configured, and
\* leaves a flush only after it was tried.
THEOREM EveryEndpointTriedCorrect == Spec => EveryEndpointTried
<1>1. IInv /\ [Next]_vars => [Tried]_siemVars
  BY NextKeeps
<1>2. QED
  BY <1>1, Inductive, PTL DEF Spec, EveryEndpointTried

===============================================================================
