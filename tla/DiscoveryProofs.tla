--------------------------- MODULE DiscoveryProofs ----------------------------
(***************************************************************************)
(* Theorems about the parts that find, for any probes and queue, any       *)
(* evidence and tenant, any captures and limits:                           *)
(*   - every event that arrives is accounted for once (RuntimeProbe);      *)
(*   - the entities of the graph are of one thing each, and different      *)
(*     ones of different things (EvidenceGraph);                           *)
(*   - no handshake of a capture is left out silently (PcapCapture);       *)
(*   - what a scan takes from the shared cache is what it would find, what *)
(*     it lost is told, and callers stay within their limit (ScanJobs);    *)
(*   - a connection goes to an address that was judged (NetworkScan).      *)
(***************************************************************************)
EXTENDS RuntimeProbe, EvidenceGraph, PcapCapture, ScanJobs, NetworkScan, FoldTheorems

-----------------------------------------------------------------------------
(* Watching at run time: what the books of a collector and an agent hold.     *)

KeyFree == Kinds \ {"secret"}

CollectorRecord ==
  [queue : Seq(KeyFree), tripped : BOOLEAN, healthy : BOOLEAN, rate : Nat, pressed : BOOLEAN,
   declared : SUBSET Probes, attached : SUBSET Probes, received : Nat, enqueued : Nat, processed : Nat,
   queueDrops : Nat, rateDrops : Nat, invalid : Nat, late : Nat]

AgentRecord ==
  [buffer : Seq(KeyFree), tripped : BOOLEAN, healthy : BOOLEAN, rate : Nat, probes : SUBSET Probes,
   enqueued : Nat, dropped : Nat, popped : Nat, arrived : Nat, overRate : Nat, refused : Nat, late : Nat]

CollectorBalances(c) ==
  /\ c \in CollectorRecord
  /\ c.received = c.enqueued + c.queueDrops + c.rateDrops + c.invalid
  /\ c.enqueued = c.processed + Len(c.queue)
  /\ Len(c.queue) <= MaxQueue
  /\ c.late > 0 => c.tripped

\* What arrives at the agent.
Arrivals(a) ==
  /\ a.arrived = a.enqueued + a.overRate + a.refused + a.late
  /\ a.refused <= 1
  /\ a.refused + a.late > 0 => a.tripped

AgentBalances(a) ==
  /\ a \in AgentRecord
  /\ a.enqueued = a.popped + a.dropped + Len(a.buffer)
  /\ Len(a.buffer) <= MaxQueue
  /\ a.tripped => a.probes = {}
  /\ Arrivals(a)

ProbeInv == CollectorBalances(collector) /\ AgentBalances(agent)

LEMMA RateIsNat ==
  ASSUME NEW rate \in Nat, NEW fresh \in BOOLEAN PROVE RateNow(rate, fresh) \in Nat
  BY DEF RateNow

LEMMA TrippedBalances ==
  ASSUME NEW c, CollectorBalances(c) PROVE CollectorBalances(Tripped(c))
  BY DEF Tripped, CollectorBalances, CollectorRecord

\* Every field but those of a change is as it was.
LEMMA CountedIs ==
  ASSUME NEW c \in CollectorRecord, NEW fresh \in BOOLEAN
  PROVE  /\ Counted(c, fresh) \in CollectorRecord
         /\ Counted(c, fresh).received = c.received + 1
         /\ Counted(c, fresh).enqueued = c.enqueued
         /\ Counted(c, fresh).queueDrops = c.queueDrops
         /\ Counted(c, fresh).rateDrops = c.rateDrops
         /\ Counted(c, fresh).invalid = c.invalid
         /\ Counted(c, fresh).processed = c.processed
         /\ Counted(c, fresh).queue = c.queue
         /\ Counted(c, fresh).late = c.late /\ Counted(c, fresh).tripped = c.tripped
<1> DEFINE n == c.received + 1
           rate == RateNow(c.rate, fresh)
           d == [c EXCEPT !.received = n, !.rate = rate]
<1>1. n \in Nat
  BY DEF CollectorRecord
<1>2. rate \in Nat
  BY RateIsNat DEF CollectorRecord
<1>3. Counted(c, fresh) = d
  BY DEF Counted
<1> HIDE DEF n, rate
<1>4. /\ d \in CollectorRecord
      /\ d.received = n /\ d.enqueued = c.enqueued /\ d.queueDrops = c.queueDrops
      /\ d.rateDrops = c.rateDrops /\ d.invalid = c.invalid /\ d.processed = c.processed /\ d.queue = c.queue
      /\ d.late = c.late /\ d.tripped = c.tripped
  BY <1>1, <1>2 DEF CollectorRecord
<1> HIDE DEF d
<1>5. QED
  BY <1>3, <1>4 DEF n

LEMMA CollectorHas ==
  ASSUME NEW c \in CollectorRecord
  PROVE  /\ c.queue \in Seq(KeyFree) /\ Len(c.queue) \in Nat /\ c.tripped \in BOOLEAN
         /\ c.received \in Nat /\ c.enqueued \in Nat /\ c.processed \in Nat
         /\ c.queueDrops \in Nat /\ c.rateDrops \in Nat /\ c.invalid \in Nat
         /\ c.late \in Nat
<1>1. c.queue \in Seq(KeyFree)
  BY DEF CollectorRecord
<1>2. Len(c.queue) \in Nat
  BY <1>1, LenProperties
<1>3. QED
  BY <1>1, <1>2 DEF CollectorRecord

LEMMA OneMore ==
  ASSUME NEW n, NEW e \in Nat, NEW q \in Nat, NEW r \in Nat, NEW i \in Nat, n = e + q + r + i
  PROVE  /\ n + 1 = (e + 1) + q + r + i /\ n + 1 = e + 1 + q + r + i /\ n + 1 = e + (q + 1) + r + i
         /\ n + 1 = e + q + (r + 1) + i /\ n + 1 = e + q + r + (i + 1)
  OBVIOUS

LEMMA BalancesIf ==
  ASSUME NEW c \in CollectorRecord, NEW len, Len(c.queue) = len, len <= MaxQueue,
         c.received = c.enqueued + c.queueDrops + c.rateDrops + c.invalid,
         c.enqueued = c.processed + len, c.late > 0 => c.tripped
  PROVE  CollectorBalances(c)
  BY DEF CollectorBalances

LEMMA IngestedBalances ==
  ASSUME NEW c, CollectorBalances(c), NEW kind \in Kinds, NEW fresh \in BOOLEAN
  PROVE  CollectorBalances(Ingested(c, kind, fresh))
<1> DEFINE seen == Counted(c, fresh)
<1>1. c \in CollectorRecord
  BY DEF CollectorBalances
<1>2. /\ seen \in CollectorRecord
      /\ seen.received = c.received + 1
      /\ seen.enqueued = c.enqueued /\ seen.queueDrops = c.queueDrops
      /\ seen.rateDrops = c.rateDrops /\ seen.invalid = c.invalid
      /\ seen.processed = c.processed /\ seen.queue = c.queue
      /\ seen.late = c.late /\ seen.tripped = c.tripped
  BY <1>1, CountedIs
<1>3. CollectorBalances(c) /\ MaxQueue \in Nat
  BY ProbesAssumption
<1> DEFINE before == Len(c.queue)
<1>c. /\ c.received \in Nat /\ c.enqueued \in Nat /\ c.processed \in Nat /\ before \in Nat
      /\ c.queueDrops \in Nat /\ c.rateDrops \in Nat /\ c.invalid \in Nat
      /\ c.received = c.enqueued + c.queueDrops + c.rateDrops + c.invalid
      /\ c.enqueued = c.processed + before
      /\ before <= MaxQueue
      /\ c.late > 0 => c.tripped
  BY <1>1, CollectorHas DEF CollectorBalances
<1> HIDE DEF before
<1> HIDE DEF seen
<1> DEFINE refused == seen.rateDrops + 1
           invalid == seen.invalid + 1
           drops == seen.queueDrops + 1
<1>4. refused \in Nat /\ invalid \in Nat /\ drops \in Nat
  BY <1>2, CollectorHas
<1>5. CollectorBalances([seen EXCEPT !.rateDrops = refused])
  <2> HIDE DEF refused
  <2>1. refused = c.rateDrops + 1
    BY <1>2 DEF refused
  <2> DEFINE new == [seen EXCEPT !.rateDrops = refused]
  <2>2. /\ new \in CollectorRecord /\ new.received = seen.received /\ new.enqueued = seen.enqueued
        /\ new.queueDrops = seen.queueDrops /\ new.rateDrops = refused /\ new.invalid = seen.invalid
        /\ new.processed = seen.processed /\ new.queue = seen.queue
        /\ new.late = c.late /\ new.tripped = c.tripped
    BY <1>2, <1>4 DEF CollectorRecord
  <2> HIDE DEF new
  <2>3. /\ new.received = c.received + 1 /\ new.enqueued = c.enqueued /\ new.queueDrops = c.queueDrops
        /\ new.rateDrops = c.rateDrops + 1 /\ new.invalid = c.invalid
        /\ new.processed = c.processed /\ new.queue = c.queue
    BY <1>2, <2>1, <2>2
  <2>4. /\ new.received = new.enqueued + new.queueDrops + new.rateDrops + new.invalid
        /\ new.enqueued = new.processed + before
    BY <1>c, <2>3
  <2>5. before = Len(new.queue)
    BY <2>3 DEF before
  <2>6. QED
    BY <1>c, <2>2, <2>4, <2>5, BalancesIf DEF new
<1>6. CollectorBalances([seen EXCEPT !.invalid = invalid])
  <2> HIDE DEF invalid
  <2>1. invalid = c.invalid + 1
    BY <1>2 DEF invalid
  <2> DEFINE new == [seen EXCEPT !.invalid = invalid]
  <2>2. /\ new \in CollectorRecord /\ new.received = seen.received /\ new.enqueued = seen.enqueued
        /\ new.queueDrops = seen.queueDrops /\ new.rateDrops = seen.rateDrops /\ new.invalid = invalid
        /\ new.processed = seen.processed /\ new.queue = seen.queue
        /\ new.late = c.late /\ new.tripped = c.tripped
    BY <1>2, <1>4 DEF CollectorRecord
  <2> HIDE DEF new
  <2>3. /\ new.received = c.received + 1 /\ new.enqueued = c.enqueued /\ new.queueDrops = c.queueDrops
        /\ new.rateDrops = c.rateDrops /\ new.invalid = c.invalid + 1
        /\ new.processed = c.processed /\ new.queue = c.queue
    BY <1>2, <2>1, <2>2
  <2>4. /\ new.received = new.enqueued + new.queueDrops + new.rateDrops + new.invalid
        /\ new.enqueued = new.processed + before
    <3>1. c.received + 1 = c.enqueued + c.queueDrops + c.rateDrops + (c.invalid + 1)
      BY <1>c, OneMore
    <3>2. QED
      BY <1>c, <2>3, <3>1
  <2>5. before = Len(new.queue)
    BY <2>3 DEF before
  <2>6. QED
    BY <1>c, <2>2, <2>4, <2>5, BalancesIf DEF new
<1>7. ASSUME kind \in KeyFree PROVE CollectorBalances(Enqueued(seen, kind))
  <2>1. CASE Len(seen.queue) < MaxQueue
    <3> DEFINE queue == Append(seen.queue, kind)
               pressed == 10 * (Len(seen.queue) + 1) >= 8 * MaxQueue
               n == seen.enqueued + 1
               new == [seen EXCEPT !.queue = queue, !.enqueued = n, !.pressed = pressed]
    <3>1. queue \in Seq(KeyFree) /\ Len(queue) = Len(c.queue) + 1
      BY <1>1, <1>2, <1>7, CollectorHas, AppendProperties
    <3>2. pressed \in BOOLEAN
      BY <1>2, <1>3, CollectorHas
    <3>3. n \in Nat /\ n = c.enqueued + 1
      BY <1>1, <1>2, CollectorHas
    <3>4. Enqueued(seen, kind) = new
      BY <2>1 DEF Enqueued
    <3>5. Len(c.queue) + 1 <= MaxQueue
      BY <1>1, <1>2, <1>3, <2>1, CollectorHas
    <3> HIDE DEF queue, pressed, n
    <3>6. /\ new \in CollectorRecord /\ new.received = seen.received /\ new.enqueued = n
          /\ new.queueDrops = seen.queueDrops /\ new.rateDrops = seen.rateDrops /\ new.invalid = seen.invalid
          /\ new.processed = seen.processed /\ new.queue = queue
          /\ new.late = c.late /\ new.tripped = c.tripped
      BY <1>2, <3>1, <3>2, <3>3 DEF CollectorRecord
    <3> HIDE DEF new
    <3> DEFINE len == Len(queue)
    <3>7. /\ new.received = c.received + 1 /\ new.enqueued = c.enqueued + 1 /\ new.queueDrops = c.queueDrops
          /\ new.rateDrops = c.rateDrops /\ new.invalid = c.invalid
          /\ new.processed = c.processed /\ Len(new.queue) = len
      BY <1>2, <3>3, <3>6
    <3>8. len = before + 1 /\ len <= MaxQueue
      BY <1>c, <3>1, <3>5 DEF before
    <3> HIDE DEF len
    <3>t. /\ new.received = new.enqueued + new.queueDrops + new.rateDrops + new.invalid
          /\ new.enqueued = new.processed + len
      <4>1. c.received + 1 = (c.enqueued + 1) + c.queueDrops + c.rateDrops + c.invalid
        BY <1>c, OneMore
      <4>2. c.enqueued + 1 = c.processed + (before + 1)
        <5> DEFINE p == c.processed
        <5>1. p \in Nat /\ c.enqueued = p + before
          BY <1>c
        <5> HIDE DEF p
        <5>2. c.enqueued + 1 = p + (before + 1)
          BY <1>c, <5>1
        <5>3. QED
          BY <5>2 DEF p
      <4>3. QED
        BY <3>7, <3>8, <4>1, <4>2
    <3>9. CollectorBalances(new)
      BY <1>c, <3>6, <3>7, <3>8, <3>t, BalancesIf
    <3>10. QED
      BY <3>4, <3>9
  <2>2. CASE ~(Len(seen.queue) < MaxQueue)
    <3>1. Enqueued(seen, kind) = [seen EXCEPT !.queueDrops = drops, !.pressed = TRUE]
      BY <2>2 DEF Enqueued
    <3> HIDE DEF drops
    <3>2. drops = c.queueDrops + 1
      BY <1>2 DEF drops
    <3> DEFINE new == [seen EXCEPT !.queueDrops = drops, !.pressed = TRUE]
    <3>3. /\ new \in CollectorRecord /\ new.received = seen.received /\ new.enqueued = seen.enqueued
          /\ new.queueDrops = drops /\ new.rateDrops = seen.rateDrops /\ new.invalid = seen.invalid
          /\ new.processed = seen.processed /\ new.queue = seen.queue
        /\ new.late = c.late /\ new.tripped = c.tripped
      BY <1>2, <1>4 DEF CollectorRecord
    <3> HIDE DEF new
    <3>4. CollectorBalances(new)
      <4>1. c.received + 1 = c.enqueued + (c.queueDrops + 1) + c.rateDrops + c.invalid
        BY <1>c, OneMore
      <4>2. new.received = new.enqueued + new.queueDrops + new.rateDrops + new.invalid
        BY <1>2, <3>2, <3>3, <4>1
      <4>3. new.enqueued = new.processed + before /\ Len(new.queue) = before
        BY <1>2, <1>c, <3>3 DEF before
      <4>4. QED
        BY <1>c, <3>3, <4>2, <4>3, BalancesIf
    <3>5. QED
      BY <3>1, <3>4 DEF new
  <2>3. QED
    BY <2>1, <2>2
<1>8. ASSUME c.tripped PROVE CollectorBalances([c EXCEPT !.late = @ + 1])
  <2>1. c.late + 1 \in Nat
    BY <1>1, CollectorHas
  <2>2. QED
    BY <1>3, <1>8, <2>1 DEF CollectorBalances, CollectorRecord
<1>9. CASE c.tripped
  BY <1>8, <1>9 DEF Ingested
<1>10. CASE ~c.tripped
  <2>1. Ingested(c, kind, fresh) \in
          {[seen EXCEPT !.rateDrops = refused], [seen EXCEPT !.invalid = invalid],
           Tripped([seen EXCEPT !.invalid = invalid])}
        \/ (kind \in KeyFree /\ Ingested(c, kind, fresh) = Enqueued(seen, kind))
    BY <1>10 DEF Ingested, seen, Metadata, KeyFree
  <2> HIDE DEF refused, invalid
  <2>2. QED
    BY <1>3, <1>5, <1>6, <1>7, <2>1, TrippedBalances
<1>11. QED
  BY <1>9, <1>10

LEMMA ProcessedBalances ==
  ASSUME NEW c, CollectorBalances(c), NEW n \in 0 .. Len(c.queue), NEW raises \in BOOLEAN
  PROVE  CollectorBalances(Processed(c, n, raises))
<1> DEFINE queue == SubSeq(c.queue, n + 1, Len(c.queue))
           m == c.processed + n
           rest == [c EXCEPT !.queue = queue, !.processed = m]
<1>1. c \in CollectorRecord /\ CollectorBalances(c) /\ MaxQueue \in Nat
  BY ProbesAssumption DEF CollectorBalances
<1> DEFINE before == Len(c.queue)
<1>c. /\ c.received \in Nat /\ c.enqueued \in Nat /\ c.processed \in Nat /\ before \in Nat
      /\ c.queueDrops \in Nat /\ c.rateDrops \in Nat /\ c.invalid \in Nat
      /\ c.received = c.enqueued + c.queueDrops + c.rateDrops + c.invalid
      /\ c.enqueued = c.processed + before
      /\ before <= MaxQueue
      /\ c.late > 0 => c.tripped
  BY <1>1, CollectorHas DEF CollectorBalances
<1> HIDE DEF before
<1>2. n \in Nat /\ n <= Len(c.queue)
  BY <1>1, CollectorHas
<1>3. queue \in Seq(KeyFree) /\ Len(queue) = Len(c.queue) - n
  <2>1. n + 1 \in 1 .. Len(c.queue) + 1
    BY <1>1, <1>2, CollectorHas
  <2>2. QED
    BY <1>1, <1>2, <2>1, CollectorHas, SubSeqProperties
<1>4. m \in Nat
  BY <1>1, <1>2, CollectorHas
<1>5. Processed(c, n, raises) \in {rest, [rest EXCEPT !.pressed = FALSE]}
  BY DEF Processed
<1>6. CollectorBalances(rest)
  <2> HIDE DEF queue, m
  <2>1. m = c.processed + n
    BY DEF m
  <2>2. /\ rest \in CollectorRecord /\ rest.received = c.received /\ rest.enqueued = c.enqueued
        /\ rest.queueDrops = c.queueDrops /\ rest.rateDrops = c.rateDrops /\ rest.invalid = c.invalid
        /\ rest.processed = m /\ rest.queue = queue
        /\ rest.late = c.late /\ rest.tripped = c.tripped
    BY <1>1, <1>3, <1>4 DEF CollectorRecord
  <2> HIDE DEF rest
  <2> DEFINE len == Len(queue)
  <2>3. len = before - n /\ n \in Nat /\ n <= before /\ Len(rest.queue) = len
    BY <1>2, <1>3, <2>2 DEF before
  <2> HIDE DEF len, queue
  <2>4. rest.enqueued = rest.processed + len /\ len <= MaxQueue
    <3>1. rest.enqueued = c.enqueued /\ rest.processed = c.processed + n
      BY <2>1, <2>2
    <3>2. QED
      <4> DEFINE p == c.processed
      <4>p. p \in Nat /\ c.enqueued = p + before
        BY <1>c
      <4> HIDE DEF p
      <4>1. c.enqueued = p + n + len /\ len <= MaxQueue
        BY <1>1, <1>c, <2>3, <4>p
      <4>2. QED
        BY <3>1, <4>1 DEF p
  <2>5. rest.received = rest.enqueued + rest.queueDrops + rest.rateDrops + rest.invalid
    BY <1>c, <2>2
  <2>6. QED
    BY <1>c, <2>2, <2>3, <2>4, <2>5, BalancesIf
<1> HIDE DEF rest
<1>7. CollectorBalances([rest EXCEPT !.pressed = FALSE])
  BY <1>6 DEF CollectorBalances, CollectorRecord
<1>8. QED
  BY <1>5, <1>6, <1>7

LEMMA AgentHas ==
  ASSUME NEW a \in AgentRecord
  PROVE  /\ a.buffer \in Seq(KeyFree) /\ Len(a.buffer) \in Nat /\ a.tripped \in BOOLEAN /\ a.rate \in Nat
         /\ a.enqueued \in Nat /\ a.dropped \in Nat /\ a.popped \in Nat /\ a.probes \in SUBSET Probes
<1>1. a.buffer \in Seq(KeyFree)
  BY DEF AgentRecord
<1>2. Len(a.buffer) \in Nat
  BY <1>1, LenProperties
<1>3. QED
  BY <1>1, <1>2 DEF AgentRecord

\* An event on its way into the buffer is the one that arrived and is not yet enqueued.
LEMMA PushedBalances ==
  ASSUME NEW seen \in AgentRecord, NEW kind \in KeyFree,
         seen.enqueued = seen.popped + seen.dropped + Len(seen.buffer),
         Len(seen.buffer) <= MaxQueue, ~seen.tripped, seen.refused <= 1, ~(seen.refused + seen.late > 0),
         seen.arrived = seen.enqueued + 1 + seen.overRate + seen.refused + seen.late
  PROVE  AgentBalances(Pushed(seen, kind))
<1> DEFINE full == Len(seen.buffer) >= MaxQueue
           kept == IF full THEN Tail(seen.buffer) ELSE seen.buffer
           buffer == Append(kept, kind)
           n == seen.enqueued + 1
           dropped == IF full THEN seen.dropped + 1 ELSE seen.dropped
           new == [seen EXCEPT !.buffer = buffer, !.enqueued = n, !.dropped = dropped]
<1>1. /\ seen \in AgentRecord /\ seen.enqueued = seen.popped + seen.dropped + Len(seen.buffer)
      /\ MaxQueue \in Nat /\ MaxQueue > 0
      /\ Len(seen.buffer) <= MaxQueue
  BY ProbesAssumption
<1>2. full => Tail(seen.buffer) \in Seq(KeyFree) /\ Len(Tail(seen.buffer)) = Len(seen.buffer) - 1
  <2> SUFFICES ASSUME full PROVE Tail(seen.buffer) \in Seq(KeyFree) /\ Len(Tail(seen.buffer)) = Len(seen.buffer) - 1
    OBVIOUS
  <2>1. seen.buffer \in Seq(KeyFree) /\ Len(seen.buffer) > 0
    BY <1>1, AgentHas
  <2>2. seen.buffer # <<>>
    BY <2>1, EmptySeq
  <2>3. QED
    BY <2>1, <2>2, HeadTailProperties
<1>3. kept \in Seq(KeyFree) /\ Len(kept) = IF full THEN Len(seen.buffer) - 1 ELSE Len(seen.buffer)
  BY <1>1, <1>2, AgentHas
<1> HIDE DEF kept
<1>4. buffer \in Seq(KeyFree) /\ Len(buffer) = Len(kept) + 1
  BY <1>3, AppendProperties
<1>5. n \in Nat /\ dropped \in Nat /\ Len(buffer) <= MaxQueue
      /\ n = seen.popped + dropped + Len(buffer)
  <2>1. /\ seen.enqueued \in Nat /\ seen.popped \in Nat /\ seen.dropped \in Nat /\ Len(seen.buffer) \in Nat
        /\ seen.enqueued = seen.popped + seen.dropped + Len(seen.buffer)
    BY <1>1, AgentHas
  <2> DEFINE len == Len(buffer)
             before == Len(seen.buffer)
  <2>l. /\ full => len = before
        /\ ~full => len = before + 1
        /\ before \in Nat /\ before <= MaxQueue /\ (full <=> before >= MaxQueue)
        /\ seen.enqueued = seen.popped + seen.dropped + before
    BY <1>1, <1>3, <1>4, <2>1
  <2> HIDE DEF full, len, before, buffer
  <2>2. CASE full
    BY <1>1, <2>1, <2>l, <2>2, SMTT(30) DEF len
  <2>3. CASE ~full
    BY <1>1, <2>1, <2>l, <2>3, SMTT(30) DEF len
  <2>4. QED
    BY <2>2, <2>3
<1>6. Pushed(seen, kind) = new
  BY DEF Pushed, kept
<1> HIDE DEF buffer, n, dropped
<1>7. /\ new \in AgentRecord /\ new.buffer = buffer /\ new.enqueued = n /\ new.dropped = dropped
      /\ new.popped = seen.popped /\ new.tripped = seen.tripped /\ new.probes = seen.probes
      /\ new.arrived = seen.arrived /\ new.overRate = seen.overRate
      /\ new.refused = seen.refused /\ new.late = seen.late
  BY <1>1, <1>4, <1>5 DEF AgentRecord
<1> HIDE DEF new
<1>8. Arrivals(new)
  <2>1. n = seen.enqueued + 1
    BY DEF n
  <2>2. QED
    BY <1>1, <1>7, <2>1 DEF Arrivals, AgentRecord
<1>9. AgentBalances(new)
  BY <1>1, <1>5, <1>7, <1>8 DEF AgentBalances
<1>10. QED
  BY <1>6, <1>9

LEMMA RawEventBalances ==
  ASSUME NEW a, AgentBalances(a), NEW kind \in Kinds, NEW fresh \in BOOLEAN
  PROVE  AgentBalances(RawEvent(a, kind, fresh))
<1> DEFINE rate == RateNow(a.rate, fresh)
           n == a.arrived + 1
           seen == [a EXCEPT !.arrived = n, !.rate = rate]
<1>0. /\ a \in AgentRecord /\ a.arrived \in Nat /\ a.overRate \in Nat /\ a.refused \in Nat
      /\ a.late \in Nat /\ a.enqueued \in Nat /\ a.rate \in Nat
  BY DEF AgentBalances, AgentRecord
<1> DEFINE over == a.overRate + 1
           refused == a.refused + 1
           late == a.late + 1
<1>n. n \in Nat /\ rate \in Nat /\ over \in Nat /\ refused \in Nat /\ late \in Nat
  BY <1>0, RateIsNat
<1>s. /\ n = a.enqueued + 1 + a.overRate + a.refused + a.late
      /\ n = a.enqueued + over + a.refused + a.late
      /\ n = a.enqueued + a.overRate + refused + a.late
      /\ n = a.enqueued + a.overRate + a.refused + late
  <2>1. a.arrived = a.enqueued + a.overRate + a.refused + a.late
    BY DEF AgentBalances, Arrivals
  <2>2. QED
    BY <1>0, <2>1, OneMore
<1>t. a.refused <= 1 /\ (~a.tripped => a.refused = 0 /\ a.late = 0)
  <2>1. a.refused <= 1 /\ (a.refused + a.late > 0 => a.tripped)
    BY DEF AgentBalances, Arrivals
  <2>2. QED
    BY <1>0, <2>1
<1>1. /\ seen \in AgentRecord
      /\ \A new : /\ new \in AgentRecord /\ new.buffer = a.buffer /\ new.enqueued = a.enqueued
                  /\ new.dropped = a.dropped /\ new.popped = a.popped
                  /\ new.tripped => new.probes = {}
                  /\ Arrivals(new)
                  => AgentBalances(new)
  <2> HIDE DEF rate, n
  <2>1. QED
    BY <1>0, <1>n DEF AgentBalances, AgentRecord
<1>2. CASE a.tripped
  <2> DEFINE new == [a EXCEPT !.arrived = n, !.late = late]
  <2>1. RawEvent(a, kind, fresh) = new
    BY <1>2 DEF RawEvent
  <2> HIDE DEF n, late
  <2>2. /\ new \in AgentRecord /\ new.buffer = a.buffer /\ new.enqueued = a.enqueued
        /\ new.dropped = a.dropped /\ new.popped = a.popped
        /\ new.tripped = a.tripped /\ new.probes = a.probes /\ new.arrived = n /\ new.late = late
        /\ new.overRate = a.overRate /\ new.refused = a.refused
    BY <1>0, <1>n DEF AgentRecord
  <2> HIDE DEF new
  <2>3. Arrivals(new)
    BY <1>s, <1>t, <1>2, <2>2 DEF Arrivals
  <2>4. QED
    BY <1>1, <2>1, <2>2, <2>3 DEF AgentBalances
<1>3. CASE ~a.tripped /\ rate > MaxRate
  <2> DEFINE new == [a EXCEPT !.arrived = n, !.rate = rate, !.overRate = over]
  <2>1. RawEvent(a, kind, fresh) = new
    BY <1>3 DEF RawEvent
  <2> HIDE DEF rate, n, over
  <2>2. /\ new \in AgentRecord /\ new.buffer = a.buffer /\ new.enqueued = a.enqueued
        /\ new.dropped = a.dropped /\ new.popped = a.popped
        /\ new.tripped = a.tripped /\ new.probes = a.probes /\ new.arrived = n /\ new.late = a.late
        /\ new.overRate = over /\ new.refused = a.refused
    BY <1>0, <1>n DEF AgentRecord
  <2> HIDE DEF new
  <2>3. Arrivals(new)
    BY <1>s, <1>t, <1>3, <2>2 DEF Arrivals
  <2>4. QED
    BY <1>1, <2>1, <2>2, <2>3 DEF AgentBalances
<1>4. CASE ~a.tripped /\ ~(rate > MaxRate) /\ ~Metadata(kind)
  <2> DEFINE new == [a EXCEPT !.arrived = n, !.rate = rate, !.refused = refused, !.tripped = TRUE, !.probes = {}]
  <2>1. RawEvent(a, kind, fresh) = new
    BY <1>4 DEF RawEvent, AgentTripped
  <2> HIDE DEF rate, n, refused
  <2>2. /\ new \in AgentRecord /\ new.buffer = a.buffer /\ new.enqueued = a.enqueued
        /\ new.dropped = a.dropped /\ new.popped = a.popped
        /\ new.tripped /\ new.probes = {} /\ new.arrived = n /\ new.late = a.late
        /\ new.overRate = a.overRate /\ new.refused = refused
    BY <1>0, <1>n DEF AgentRecord
  <2> HIDE DEF new
  <2>3. refused = 1
    BY <1>t, <1>4 DEF refused
  <2>4. Arrivals(new)
    BY <1>s, <1>n, <2>2, <2>3 DEF Arrivals
  <2>5. QED
    BY <1>1, <2>1, <2>2, <2>4
<1>5. CASE ~a.tripped /\ ~(rate > MaxRate) /\ Metadata(kind)
  <2>1. RawEvent(a, kind, fresh) = Pushed(seen, kind) /\ kind \in KeyFree
    BY <1>5 DEF RawEvent, Metadata, KeyFree
  <2>2. /\ seen.buffer = a.buffer /\ seen.enqueued = a.enqueued /\ seen.dropped = a.dropped /\ seen.popped = a.popped
        /\ seen.tripped = a.tripped /\ seen.probes = a.probes /\ seen.arrived = n /\ seen.late = a.late
        /\ seen.overRate = a.overRate /\ seen.refused = a.refused
    <3> HIDE DEF rate, n
    <3>1. QED
      BY <1>0, <1>n DEF AgentRecord
  <2> HIDE DEF seen
  <2>3. seen.arrived = seen.enqueued + 1 + seen.overRate + seen.refused + seen.late
    BY <1>s, <2>2
  <2>4. /\ seen.enqueued = seen.popped + seen.dropped + Len(seen.buffer)
        /\ Len(seen.buffer) <= MaxQueue /\ ~seen.tripped
        /\ seen.refused <= 1 /\ ~(seen.refused + seen.late > 0)
    BY <1>5, <1>t, <1>0, <2>2 DEF AgentBalances
  <2>5. AgentBalances(Pushed(seen, kind))
    BY <1>1, <2>1, <2>3, <2>4, PushedBalances
  <2>6. QED
    BY <2>1, <2>5
<1>6. QED
  BY <1>2, <1>3, <1>4, <1>5

LEMMA PoppedBalances ==
  ASSUME NEW a, AgentBalances(a), NEW n \in 1 .. Len(a.buffer)
  PROVE  AgentBalances([a EXCEPT !.buffer = SubSeq(@, n + 1, Len(@)), !.popped = @ + n])
<1> DEFINE buffer == SubSeq(a.buffer, n + 1, Len(a.buffer))
           m == a.popped + n
<1>1. a \in AgentRecord /\ AgentBalances(a) /\ MaxQueue \in Nat
  BY ProbesAssumption DEF AgentBalances
<1>2. n \in Nat /\ n <= Len(a.buffer)
  BY <1>1, AgentHas
<1>3. buffer \in Seq(KeyFree) /\ Len(buffer) = Len(a.buffer) - n
  <2>1. n + 1 \in 1 .. Len(a.buffer) + 1
    BY <1>1, <1>2, AgentHas
  <2>2. QED
    BY <1>1, <1>2, <2>1, AgentHas, SubSeqProperties
<1>4. m \in Nat
  BY <1>1, <1>2, AgentHas
<1>5. [a EXCEPT !.buffer = SubSeq(@, n + 1, Len(@)), !.popped = @ + n] = [a EXCEPT !.buffer = buffer, !.popped = m]
  OBVIOUS
<1>6. AgentBalances([a EXCEPT !.buffer = buffer, !.popped = m])
  <2> HIDE DEF buffer, m
  <2>1. m = a.popped + n
    BY DEF m
  <2> DEFINE new == [a EXCEPT !.buffer = buffer, !.popped = m]
  <2>2. /\ new \in AgentRecord /\ new.buffer = buffer /\ new.enqueued = a.enqueued /\ new.dropped = a.dropped
        /\ new.popped = m /\ new.tripped = a.tripped /\ new.probes = a.probes
        /\ new.arrived = a.arrived /\ new.overRate = a.overRate /\ new.refused = a.refused /\ new.late = a.late
    BY <1>1, <1>3, <1>4 DEF AgentRecord
  <2> HIDE DEF new
  <2>3. AgentBalances(new)
    <3>1. Arrivals(new)
      BY <1>1, <2>2 DEF AgentBalances, Arrivals
    <3>2. QED
      BY <1>1, <1>2, <1>3, <1>4, <2>1, <2>2, <3>1, AgentHas, SMTT(30) DEF AgentBalances
  <2>4. QED
    BY <2>3 DEF new
<1>7. QED
  BY <1>5, <1>6

LEMMA ProbesBegin == ProbeInit => ProbeInv
<1>1. <<>> \in Seq(KeyFree) /\ Len(<<>>) = 0
  BY EmptySeq
<1>2. CollectorBalances(NewCollector)
  BY <1>1, ProbesAssumption DEF CollectorBalances, CollectorRecord, NewCollector
<1>3. AgentBalances(NewAgent)
  BY <1>1, ProbesAssumption DEF AgentBalances, AgentRecord, NewAgent, Arrivals
<1>4. QED
  BY <1>2, <1>3 DEF ProbeInit, ProbeInv

LEMMA CollectorKeeps == ProbeInv /\ CollectorNext => ProbeInv'
<1> SUFFICES ASSUME ProbeInv, CollectorNext PROVE ProbeInv'
  OBVIOUS
<1>1. CollectorBalances(collector) /\ AgentBalances(agent)
  BY DEF ProbeInv
<1>2. Len(collector.queue) \in Nat
  BY <1>1, CollectorHas DEF CollectorBalances
<1>3. ASSUME UNCHANGED agent, CollectorBalances(collector') PROVE ProbeInv'
  BY <1>1, <1>3 DEF ProbeInv, AgentBalances, AgentRecord
<1>4. CASE IngestRawKernelEvent
  BY <1>1, <1>3, <1>4, IngestedBalances DEF IngestRawKernelEvent
<1>5. CASE ProcessQueuedEvents
  <2>1. PICK n \in 1 .. Len(collector.queue), raises \in BOOLEAN : collector' = Processed(collector, n, raises)
    BY <1>5 DEF ProcessQueuedEvents
  <2>2. n \in 0 .. Len(collector.queue)
    BY <1>2
  <2>3. QED
    BY <1>1, <1>3, <1>5, <2>1, <2>2, ProcessedBalances DEF ProcessQueuedEvents
<1>6. CASE AttachKernelProbe
  <2>1. PICK p \in Probes : collector' = [collector EXCEPT !.declared = @ \cup {p}]
    BY <1>6 DEF AttachKernelProbe
  <2>2. CollectorBalances(collector')
    BY <1>1, <2>1 DEF CollectorBalances, CollectorRecord
  <2>3. QED
    BY <1>3, <1>6, <2>2 DEF AttachKernelProbe
<1>7. CASE CollectorStalls
  <2> DEFINE t == Tripped(collector)
  <2>1. CollectorBalances(t)
    BY <1>1, TrippedBalances
  <2>2. collector' = [t EXCEPT !.healthy = FALSE]
    BY <1>7 DEF CollectorStalls
  <2> HIDE DEF t
  <2>3. CollectorBalances(collector')
    BY <2>1, <2>2 DEF CollectorBalances, CollectorRecord
  <2>4. QED
    BY <1>3, <1>7, <2>3 DEF CollectorStalls
<1>8. CASE LoaderStarts
  <2>1. CASE UNCHANGED collector
    BY <1>1, <1>3, <1>8, <2>1 DEF LoaderStarts
  <2>2. CASE \E p \in Probes : collector' = [NewCollector EXCEPT !.declared = {p}, !.attached = {p}]
    <3>1. PICK p \in Probes : collector' = [collector EXCEPT !.declared = {p}, !.attached = {p}]
      BY <1>8, <2>2 DEF LoaderStarts
    <3>2. CollectorBalances(collector')
      BY <1>1, <3>1 DEF CollectorBalances, CollectorRecord
    <3>3. QED
      BY <1>3, <1>8, <3>2 DEF LoaderStarts
  <2>3. QED
    BY <1>8, <2>1, <2>2 DEF LoaderStarts
<1>9. CASE RingbufCallback
  <2>1. PICK kind \in Kinds, fresh \in BOOLEAN :
            collector' = IF Metadata(kind)
                         THEN Processed(Ingested(collector, kind, fresh), Len(Ingested(collector, kind, fresh).queue), FALSE)
                         ELSE Ingested(collector, kind, fresh)
    BY <1>9 DEF RingbufCallback
  <2> DEFINE taken == Ingested(collector, kind, fresh)
  <2>2. CollectorBalances(taken)
    BY <1>1, IngestedBalances
  <2>3. collector' \in {Processed(taken, Len(taken.queue), FALSE), taken}
    BY <2>1
  <2> HIDE DEF taken
  <2>4. Len(taken.queue) \in 0 .. Len(taken.queue)
    BY <2>2, CollectorHas DEF CollectorBalances
  <2>5. CollectorBalances(Processed(taken, Len(taken.queue), FALSE))
    BY <2>2, <2>4, ProcessedBalances
  <2>6. QED
    BY <1>3, <1>9, <2>2, <2>3, <2>5 DEF RingbufCallback
<1>10. CASE LoaderReports
  BY <1>1, <1>3, <1>10 DEF LoaderReports
<1>11. QED
  BY <1>4, <1>5, <1>6, <1>7, <1>8, <1>9, <1>10 DEF CollectorNext

LEMMA AgentKeeps == ProbeInv /\ AgentNext => ProbeInv'
<1> SUFFICES ASSUME ProbeInv, AgentNext PROVE ProbeInv'
  OBVIOUS
<1>1. CollectorBalances(collector) /\ AgentBalances(agent)
  BY DEF ProbeInv
<1>2. ASSUME UNCHANGED collector, AgentBalances(agent') PROVE ProbeInv'
  BY <1>1, <1>2 DEF ProbeInv, CollectorBalances, CollectorRecord
<1>3. CASE RegisterObservationProbe
  <2>1. PICK p \in Probes : agent' = [agent EXCEPT !.probes = @ \cup {p}]
    BY <1>3 DEF RegisterObservationProbe
  <2>2. AgentBalances(agent')
    BY <1>1, <1>3, <2>1 DEF AgentBalances, AgentRecord, Arrivals, RegisterObservationProbe
  <2>3. QED
    BY <1>2, <1>3, <2>2 DEF RegisterObservationProbe
<1>4. CASE DetachProbe
  <2>1. PICK p \in agent.probes : agent' = [agent EXCEPT !.probes = @ \ {p}]
    BY <1>4 DEF DetachProbe
  <2>2. AgentBalances(agent')
    BY <1>1, <2>1 DEF AgentBalances, AgentRecord, Arrivals
  <2>3. QED
    BY <1>2, <1>4, <2>2 DEF DetachProbe
<1>5. CASE IngestRawEvent
  BY <1>1, <1>2, <1>5, RawEventBalances DEF IngestRawEvent
<1>6. CASE PopBatch
  BY <1>1, <1>2, <1>6, PoppedBalances DEF PopBatch
<1>7. CASE AgentStalls
  <2>1. AgentBalances(agent')
    BY <1>1, <1>7 DEF AgentStalls, AgentTripped, AgentBalances, AgentRecord, Arrivals
  <2>2. QED
    BY <1>2, <1>7, <2>1 DEF AgentStalls
<1>8. QED
  BY <1>3, <1>4, <1>5, <1>6, <1>7 DEF AgentNext

\* What arrives at the collector before it trips, and what reaches the agent's buffer, is
\* counted exactly once, whatever the rate, the queue and the probes; what the agent
\* leaves uncounted exceeded the rate, came after a trip or tripped it; and neither queue
\* holds key material or outgrows its bound (ebpf_collector.ingest_raw_kernel_event, process_queued_events,
\* security_boundary.ingest_raw_event, BoundedEventBuffer).
THEOREM EventsAddUp == ProbeSpec => []EventsAreAccountedFor
<1>1. ProbeInv /\ UNCHANGED probeVars => ProbeInv'
  BY DEF ProbeInv, probeVars, CollectorBalances, AgentBalances, CollectorRecord, AgentRecord, Arrivals
<1>2. ProbeInv => EventsAreAccountedFor
  <2> SUFFICES ASSUME ProbeInv PROVE EventsAreAccountedFor
    OBVIOUS
  <2>1. collector.queue \in Seq(KeyFree) /\ agent.buffer \in Seq(KeyFree)
    BY CollectorHas, AgentHas DEF ProbeInv, CollectorBalances, AgentBalances
  <2>2. \A s \in Seq(KeyFree) : \A i \in DOMAIN s : s[i] \in KeyFree
    BY ElementOfSeq, LenProperties
  <2>3. "secret" \notin ToSet(collector.queue) \cup ToSet(agent.buffer)
    BY <2>1, <2>2 DEF ToSet, KeyFree
  <2>4. QED
    BY <2>3 DEF ProbeInv, CollectorBalances, AgentBalances, Arrivals, EventsAreAccountedFor
<1>3. QED
  BY <1>1, <1>2, ProbesBegin, CollectorKeeps, AgentKeeps, PTL DEF ProbeSpec

-----------------------------------------------------------------------------
(* The evidence graph.                                                       *)

ShapeOf(g) ==
  /\ g = [entities |-> g.entities, byLocator |-> g.byLocator, byFingerprint |-> g.byFingerprint,
          relationships |-> g.relationships]
  /\ \A id \in DOMAIN g.entities :
        g.entities[id] = [made |-> g.entities[id].made, backing |-> g.entities[id].backing]

\* An entity's id is that of what it was made of; the indexes lead to entities, that of
\* fingerprints to the only one that has it.
IndexesLead(g) ==
  /\ \A id \in DOMAIN g.entities : AssetId(g.entities[id].made) = id
  /\ \A l \in DOMAIN g.byLocator :
        g.byLocator[l] \in DOMAIN g.entities /\ g.entities[g.byLocator[l]].made.locator = l
  /\ \A f \in DOMAIN g.byFingerprint : g.byFingerprint[f] \in DOMAIN g.entities
  /\ \A id \in DOMAIN g.entities :
        g.entities[id].made.fingerprint # "none" =>
          /\ g.entities[id].made.fingerprint \in DOMAIN g.byFingerprint
          /\ g.byFingerprint[g.entities[id].made.fingerprint] = id

RelationsLead(g) ==
  \A r \in g.relationships : IF r.kind = "uses" THEN r.to \in DOMAIN g.entities ELSE r.from \in DOMAIN g.entities

GraphInv == ShapeOf(graph) /\ IndexesLead(graph) /\ RelationsLead(graph) /\ EntitiesAreDistinct

\* h is g with one more piece of evidence behind an entity.
Backed(g, h, id, b, more) ==
  /\ ShapeOf(h)
  /\ DOMAIN h.entities = DOMAIN g.entities
  /\ \A i \in DOMAIN g.entities : h.entities[i].made = g.entities[i].made
  /\ \A i \in DOMAIN g.entities : i # id => h.entities[i].backing = g.entities[i].backing
  /\ h.entities[id].backing = g.entities[id].backing \cup {b}
  /\ h.byLocator = g.byLocator /\ h.byFingerprint = g.byFingerprint
  /\ h.relationships = g.relationships \cup more

\* h is g with an entity made of e, in place of one of the same identity.
Entered(g, h, e, more) ==
  /\ ShapeOf(h)
  /\ DOMAIN h.entities = DOMAIN g.entities \cup {AssetId(e)}
  /\ h.entities[AssetId(e)] = [made |-> e, backing |-> {}]
  /\ \A i \in DOMAIN g.entities : i # AssetId(e) => h.entities[i] = g.entities[i]
  /\ h.byLocator = Indexed(g.byLocator, e.locator, AssetId(e))
  /\ h.byFingerprint = Indexed(g.byFingerprint, e.fingerprint, AssetId(e))
  /\ h.relationships = g.relationships \cup more

LEMMA BackingIs ==
  ASSUME NEW g, ShapeOf(g), NEW x, NEW y
  PROVE  [g EXCEPT !.entities = x, !.relationships = y]
         = [entities |-> x, byLocator |-> g.byLocator, byFingerprint |-> g.byFingerprint, relationships |-> y]
<1> DEFINE fields == {"entities", "byLocator", "byFingerprint", "relationships"}
           u == [g EXCEPT !.entities = x, !.relationships = y]
           v == [entities |-> x, byLocator |-> g.byLocator, byFingerprint |-> g.byFingerprint, relationships |-> y]
<1>1. DOMAIN g = fields
  BY DEF ShapeOf
<1>2. u = [f \in fields |-> u[f]] /\ v = [f \in fields |-> v[f]]
  BY <1>1
<1>3. /\ u["entities"] = v["entities"]
      /\ u["byLocator"] = v["byLocator"]
      /\ u["byFingerprint"] = v["byFingerprint"]
      /\ u["relationships"] = v["relationships"]
  BY <1>1
<1> HIDE DEF u, v
<1>4. u = v
  BY <1>2, <1>3
<1>5. QED
  BY <1>4 DEF u, v

LEMMA EntryIs ==
  ASSUME NEW g, ShapeOf(g), NEW x, NEW y, NEW z
  PROVE  [g EXCEPT !.entities = x, !.byLocator = y, !.byFingerprint = z]
         = [entities |-> x, byLocator |-> y, byFingerprint |-> z, relationships |-> g.relationships]
<1> DEFINE fields == {"entities", "byLocator", "byFingerprint", "relationships"}
           u == [g EXCEPT !.entities = x, !.byLocator = y, !.byFingerprint = z]
           v == [entities |-> x, byLocator |-> y, byFingerprint |-> z, relationships |-> g.relationships]
<1>1. DOMAIN g = fields
  BY DEF ShapeOf
<1>2. u = [f \in fields |-> u[f]] /\ v = [f \in fields |-> v[f]]
  BY <1>1
<1>3. /\ u["entities"] = v["entities"]
      /\ u["byLocator"] = v["byLocator"]
      /\ u["byFingerprint"] = v["byFingerprint"]
      /\ u["relationships"] = v["relationships"]
  BY <1>1
<1> HIDE DEF u, v
<1>4. u = v
  BY <1>2, <1>3
<1>5. QED
  BY <1>4 DEF u, v

LEMMA CorrelatedIs ==
  ASSUME NEW g, ShapeOf(g), NEW e, NEW id \in DOMAIN g.entities, NEW why
  PROVE  Backed(g, Correlated(g, e, id, why), id, [evidence |-> e, why |-> why],
                InferredRelationships(e, id, g.entities[id].made.type))
<1> DEFINE b == [evidence |-> e, why |-> why]
           more == InferredRelationships(e, id, g.entities[id].made.type)
           backing == g.entities[id].backing \cup {b}
           entity == [g.entities[id] EXCEPT !.backing = backing]
           entities == [g.entities EXCEPT ![id] = entity]
           all == g.relationships \cup more
           h == [g EXCEPT !.entities = entities, !.relationships = all]
<1>1. entity = [made |-> g.entities[id].made, backing |-> backing]
  <2> HIDE DEF backing
  <2>1. QED
    BY DEF ShapeOf
<1>2. Correlated(g, e, id, why) = h
  BY DEF Correlated
<1> HIDE DEF entity, all
<1>3. /\ DOMAIN entities = DOMAIN g.entities
      /\ entities[id] = entity
      /\ \A i \in DOMAIN g.entities : i # id => entities[i] = g.entities[i]
  OBVIOUS
<1> HIDE DEF entities
<1>4. h = [entities |-> entities, byLocator |-> g.byLocator, byFingerprint |-> g.byFingerprint, relationships |-> all]
  BY BackingIs
<1> HIDE DEF h
<1>5. h.entities = entities /\ h.byLocator = g.byLocator /\ h.byFingerprint = g.byFingerprint /\ h.relationships = all
  BY <1>4
<1> HIDE DEF backing
<1>6. entity.made = g.entities[id].made /\ entity.backing = backing
  BY <1>1
<1>7. ShapeOf(h)
  <2>1. h = [entities |-> h.entities, byLocator |-> h.byLocator, byFingerprint |-> h.byFingerprint, relationships |-> h.relationships]
    BY <1>4, <1>5
  <2>2. \A i \in DOMAIN entities : entities[i] = [made |-> entities[i].made, backing |-> entities[i].backing]
    BY <1>1, <1>3, <1>6 DEF ShapeOf
  <2>3. QED
    BY <1>5, <2>1, <2>2 DEF ShapeOf
<1> HIDE DEF more, b
<1>8. Backed(g, h, id, b, more)
  BY <1>3, <1>5, <1>6, <1>7 DEF Backed, backing, all
<1>9. QED
  BY <1>2, <1>8 DEF b, more

LEMMA IngestedIs ==
  ASSUME NEW g, ShapeOf(g), NEW e, NEW more
  PROVE  Entered(g, [IngestEntity(g, e) EXCEPT !.relationships = @ \cup more], e, more)
<1> DEFINE id == AssetId(e)
           entity == [made |-> e, backing |-> {}]
           entities == [i \in DOMAIN g.entities \cup {id} |-> IF i = id THEN entity ELSE g.entities[i]]
           locators == Indexed(g.byLocator, e.locator, id)
           prints == Indexed(g.byFingerprint, e.fingerprint, id)
           all == g.relationships \cup more
           once == [g EXCEPT !.entities = entities, !.byLocator = locators, !.byFingerprint = prints]
           h == [once EXCEPT !.relationships = @ \cup more]
<1>1. IngestEntity(g, e) = once
  BY DEF IngestEntity
<1>2. entity.made = e /\ entity.backing = {}
  OBVIOUS
<1> HIDE DEF entity, locators, prints, id
<1>3. /\ DOMAIN entities = DOMAIN g.entities \cup {id}
      /\ entities[id] = entity
      /\ \A i \in DOMAIN g.entities : i # id => entities[i] = g.entities[i]
  OBVIOUS
<1> HIDE DEF entities
<1>4. once = [entities |-> entities, byLocator |-> locators, byFingerprint |-> prints, relationships |-> g.relationships]
  <2>1. \A x, y, z : [g EXCEPT !.entities = x, !.byLocator = y, !.byFingerprint = z]
                      = [entities |-> x, byLocator |-> y, byFingerprint |-> z, relationships |-> g.relationships]
    BY EntryIs
  <2>2. QED
    BY <2>1, Zenon
<1> HIDE DEF once
<1>5. h = [entities |-> entities, byLocator |-> locators, byFingerprint |-> prints, relationships |-> all]
  BY <1>4
<1> HIDE DEF h, all
<1>6. h.entities = entities /\ h.byLocator = locators /\ h.byFingerprint = prints /\ h.relationships = all
  BY <1>5
<1>7. ShapeOf(h)
  <2>1. h = [entities |-> h.entities, byLocator |-> h.byLocator, byFingerprint |-> h.byFingerprint, relationships |-> h.relationships]
    BY <1>5, <1>6
  <2>2. entity = [made |-> entity.made, backing |-> entity.backing]
    BY <1>2 DEF entity
  <2>3. \A i \in DOMAIN entities : entities[i] = [made |-> entities[i].made, backing |-> entities[i].backing]
    BY <1>3, <2>2 DEF ShapeOf
  <2>4. QED
    BY <1>6, <2>1, <2>3 DEF ShapeOf
<1>8. Entered(g, h, e, more)
  BY <1>3, <1>6, <1>7 DEF Entered, id, entity, locators, prints, all
<1>9. QED
  BY <1>1, <1>8 DEF h

\* What is inferred tells of an entity of the right type, and of nothing else.
LEMMA InferredIs ==
  ASSUME NEW e, NEW id, NEW type, NEW r \in InferredRelationships(e, id, type)
  PROVE  IF r.kind = "uses" THEN r.to = id /\ type = "algorithm" ELSE r.from = id /\ type = "certificate"
  BY DEF InferredRelationships

LEMMA ScoreIsNat == ASSUME NEW c, NEW d PROVE Score(c, d) \in 0 .. 100
  BY DEF Score

\* Which of two is new makes no difference to what they have in common.
LEMMA ScoreIsMutual ==
  ASSUME NEW c, NEW d PROVE Score(c, d) = Score(d, c) /\ (Contradicts(c, d) <=> Contradicts(d, c))
<1>1. {c.locator, d.locator} = {d.locator, c.locator}
  OBVIOUS
<1>2. QED
  BY <1>1 DEF Score, Contradicts

\* Of any candidates one scores best.
LEMMA BestOfSome ==
  ASSUME NEW e, Candidates(e) # {} PROVE ContextualMatch(e) # {}
<1> DEFINE of(id) == Score(e, graph.entities[id].made)
           short == {100 - of(id) : id \in Candidates(e)}
<1>1. \A id \in Candidates(e) : of(id) \in 0 .. 100 /\ 100 - of(id) \in Nat
  BY ScoreIsNat
<1>2. short \in SUBSET Nat /\ short # {}
  BY <1>1
<1>3. PICK least \in short : \A s \in short : least <= s
  BY <1>2, LeastOfSome
<1>4. PICK best \in Candidates(e) : least = 100 - of(best)
  BY <1>3
<1>5. \A id \in Candidates(e) : of(id) <= of(best)
  <2> TAKE id \in Candidates(e)
  <2>1. 100 - of(best) <= 100 - of(id)
    BY <1>3, <1>4
  <2>2. of(id) \in 0 .. 100 /\ of(best) \in 0 .. 100
    BY <1>1
  <2> HIDE DEF of
  <2>3. QED
    BY <2>1, <2>2
<1>6. best \in ContextualMatch(e)
  BY <1>4, <1>5 DEF ContextualMatch
<1>7. QED
  BY <1>6

\* The evidence b may stand behind an entity made of c.
Fits(b, c) ==
  /\ b.why # "fingerprint" => b.evidence.type = c.type
  /\ b.why = "locator" => b.evidence.locator = c.locator
  /\ b.why = "context" => b.evidence.name = c.name /\ ~Contradicts(b.evidence, c)

\* The evidence of c and d would not be merged by what is known in common.
Apart(c, d) ==
  /\ c # d
  /\ c.fingerprint # "none" => c.fingerprint # d.fingerprint
  /\ c.name = d.name /\ c.type = d.type /\ ~Contradicts(c, d) => Score(c, d) < 65

LEMMA MergesAre ==
  MergesAreJustified <=>
    /\ \A id \in DOMAIN graph.entities : \A b \in graph.entities[id].backing : Fits(b, graph.entities[id].made)
    /\ \A r \in graph.relationships :
          IF r.kind = "uses" THEN graph.entities[r.to].made.type = "algorithm"
          ELSE graph.entities[r.from].made.type = "certificate"
  BY DEF MergesAreJustified, Fits

LEMMA NothingIs ==
  NothingIsTwice <=>
    \A id, other \in DOMAIN graph.entities :
      id # other => Apart(graph.entities[id].made, graph.entities[other].made)
  BY DEF NothingIsTwice, Apart

LEMMA BackedKeeps ==
  ASSUME GraphInv, NEW id \in DOMAIN graph.entities, NEW b, Fits(b, graph.entities[id].made), NEW more,
         \A r \in more : IF r.kind = "uses" THEN r.to = id /\ graph.entities[id].made.type = "algorithm"
                         ELSE r.from = id /\ graph.entities[id].made.type = "certificate",
         Backed(graph, graph', id, b, more)
  PROVE  GraphInv'
<1>1. /\ DOMAIN graph'.entities = DOMAIN graph.entities
      /\ \A i \in DOMAIN graph.entities : graph'.entities[i].made = graph.entities[i].made
      /\ graph'.byLocator = graph.byLocator /\ graph'.byFingerprint = graph.byFingerprint
      /\ graph'.relationships = graph.relationships \cup more
  BY DEF Backed
<1>2. \A i \in DOMAIN graph.entities :
         \A c \in graph'.entities[i].backing : c \in graph.entities[i].backing \/ (i = id /\ c = b)
  BY DEF Backed
<1>3. ShapeOf(graph)'
  BY DEF Backed, ShapeOf
<1>4. IndexesLead(graph)'
  BY <1>1 DEF IndexesLead, GraphInv
<1>5. RelationsLead(graph)'
  BY <1>1 DEF RelationsLead, GraphInv
<1>6. MergesAreJustified'
  <2>1. /\ \A i \in DOMAIN graph.entities : \A c \in graph.entities[i].backing : Fits(c, graph.entities[i].made)
        /\ \A r \in graph.relationships :
              IF r.kind = "uses" THEN graph.entities[r.to].made.type = "algorithm"
              ELSE graph.entities[r.from].made.type = "certificate"
    BY MergesAre DEF GraphInv, EntitiesAreDistinct
  <2>2. \A i \in DOMAIN graph'.entities : \A c \in graph'.entities[i].backing : Fits(c, graph'.entities[i].made)
    BY <1>1, <1>2, <2>1
  <2>3. \A r \in graph'.relationships :
           IF r.kind = "uses" THEN graph'.entities[r.to].made.type = "algorithm"
           ELSE graph'.entities[r.from].made.type = "certificate"
    BY <1>1, <2>1 DEF GraphInv, RelationsLead
  <2>4. QED
    BY <2>2, <2>3 DEF MergesAreJustified, Fits
<1>7. NothingIsTwice'
  <2>1. \A i, other \in DOMAIN graph'.entities :
           i # other => Apart(graph'.entities[i].made, graph'.entities[other].made)
    BY <1>1, NothingIs DEF GraphInv, EntitiesAreDistinct
  <2>2. QED
    BY <2>1 DEF NothingIsTwice, Apart
<1>8. QED
  BY <1>3, <1>4, <1>5, <1>6, <1>7 DEF GraphInv, EntitiesAreDistinct

LEMMA IndexedIs ==
  ASSUME NEW index, NEW key, NEW id, NEW new, new = Indexed(index, key, id)
  PROVE  /\ \A k \in DOMAIN new : (k = key /\ k # "none") \/ k \in DOMAIN index
         /\ \A k \in DOMAIN index : k \in DOMAIN new
         /\ key # "none" => key \in DOMAIN new /\ new[key] = id
         /\ \A k \in DOMAIN index : k # key \/ k = "none" => new[k] = index[k]
<1>1. CASE key = "none"
  BY <1>1 DEF Indexed
<1>2. CASE key # "none"
  BY <1>2 DEF Indexed
<1>3. QED
  BY <1>1, <1>2

\* Evidence that matches no entity has nothing in common with any but one of its own
\* identity, which it replaces.
LEMMA StrangerIsApart ==
  ASSUME GraphInv, NEW e,
         FingerprintMatch(e) = {}, ContextualMatch(e) = {},
         NEW id \in DOMAIN graph.entities, id # AssetId(e)
  PROVE  Apart(e, graph.entities[id].made) /\ Apart(graph.entities[id].made, e)
<1> DEFINE c == graph.entities[id].made
<1>1. AssetId(c) = id
  BY DEF GraphInv, IndexesLead
<1>2. c # e
  BY <1>1
<1>3. e.fingerprint \notin DOMAIN graph.byFingerprint
  BY DEF FingerprintMatch
<1>4. c.fingerprint # "none" => c.fingerprint # e.fingerprint
  BY <1>3 DEF GraphInv, IndexesLead
<1>5. id \notin Candidates(e)
  BY BestOfSome
<1>6. c.name = e.name /\ c.type = e.type /\ ~Contradicts(e, c) => ~(Score(e, c) >= 65)
  BY <1>5 DEF Candidates
<1>7. Score(e, c) \in Nat /\ Score(e, c) = Score(c, e) /\ (Contradicts(e, c) <=> Contradicts(c, e))
  BY ScoreIsNat, ScoreIsMutual
<1> HIDE DEF c
<1>8. ~(Score(e, c) >= 65) => Score(e, c) < 65 /\ Score(c, e) < 65
  BY <1>7
<1>9. Apart(e, c) /\ Apart(c, e)
  BY <1>2, <1>4, <1>6, <1>7, <1>8 DEF Apart
<1>10. QED
  BY <1>9 DEF c

LEMMA EnteredKeeps ==
  ASSUME GraphInv, NEW e, FingerprintMatch(e) = {}, ContextualMatch(e) = {},
         Entered(graph, graph', e, InferredRelationships(e, AssetId(e), e.type))
  PROVE  GraphInv'
<1> DEFINE new == AssetId(e)
           more == InferredRelationships(e, new, e.type)
<1>1. /\ DOMAIN graph'.entities = DOMAIN graph.entities \cup {new}
      /\ graph'.entities[new].made = e /\ graph'.entities[new].backing = {}
      /\ \A i \in DOMAIN graph.entities : i # new => graph'.entities[i] = graph.entities[i]
      /\ graph'.byLocator = Indexed(graph.byLocator, e.locator, new)
      /\ graph'.byFingerprint = Indexed(graph.byFingerprint, e.fingerprint, new)
      /\ graph'.relationships = graph.relationships \cup more
  BY DEF Entered
<1>2. \A i \in DOMAIN graph.entities : AssetId(graph.entities[i].made) = i
  BY DEF GraphInv, IndexesLead
<1>3. \A c : AssetId(c) = new => c.type = e.type /\ c.locator = e.locator
  BY DEF AssetId, GenerateAssetId
<1>4. ShapeOf(graph)'
  BY DEF Entered, ShapeOf
<1> HIDE DEF new
<1>5. \A i \in DOMAIN graph.entities :
         graph'.entities[i].made.type = graph.entities[i].made.type
         /\ graph'.entities[i].made.locator = graph.entities[i].made.locator
  BY <1>1, <1>2, <1>3
<1>6. e.fingerprint \notin DOMAIN graph.byFingerprint
  BY DEF FingerprintMatch
<1>l. /\ \A k \in DOMAIN graph'.byLocator : (k = e.locator /\ k # "none") \/ k \in DOMAIN graph.byLocator
      /\ e.locator # "none" => graph'.byLocator[e.locator] = new
      /\ \A k \in DOMAIN graph.byLocator : k # e.locator \/ k = "none" => graph'.byLocator[k] = graph.byLocator[k]
  BY <1>1, IndexedIs
<1>f. /\ \A k \in DOMAIN graph'.byFingerprint :
            (k = e.fingerprint /\ k # "none") \/ k \in DOMAIN graph.byFingerprint
      /\ \A k \in DOMAIN graph.byFingerprint : k \in DOMAIN graph'.byFingerprint
      /\ e.fingerprint # "none" =>
            e.fingerprint \in DOMAIN graph'.byFingerprint /\ graph'.byFingerprint[e.fingerprint] = new
      /\ \A k \in DOMAIN graph.byFingerprint :
            k # e.fingerprint \/ k = "none" => graph'.byFingerprint[k] = graph.byFingerprint[k]
  BY <1>1, IndexedIs
<1>7. IndexesLead(graph)'
  <2>1. \A id \in DOMAIN graph'.entities : AssetId(graph'.entities[id].made) = id
    BY <1>1, <1>2 DEF new
  <2>2. \A l \in DOMAIN graph'.byLocator :
           graph'.byLocator[l] \in DOMAIN graph'.entities /\ graph'.entities[graph'.byLocator[l]].made.locator = l
    <3> SUFFICES ASSUME NEW l \in DOMAIN graph'.byLocator
                 PROVE  graph'.byLocator[l] \in DOMAIN graph'.entities
                        /\ graph'.entities[graph'.byLocator[l]].made.locator = l
      OBVIOUS
    <3>1. CASE l = e.locator /\ l # "none"
      <4>1. graph'.byLocator[l] = new
        BY <1>1, <3>1, <1>l
      <4>2. QED
        BY <1>1, <3>1, <4>1
    <3>2. CASE ~(l = e.locator /\ l # "none")
      <4>1. l \in DOMAIN graph.byLocator /\ graph'.byLocator[l] = graph.byLocator[l]
        BY <1>1, <3>2, <1>l
      <4>2. graph.byLocator[l] \in DOMAIN graph.entities /\ graph.entities[graph.byLocator[l]].made.locator = l
        BY <4>1 DEF GraphInv, IndexesLead
      <4>3. QED
        BY <1>1, <1>5, <4>1, <4>2
    <3>3. QED
      BY <3>1, <3>2
  <2>3. \A f \in DOMAIN graph'.byFingerprint : graph'.byFingerprint[f] \in DOMAIN graph'.entities
    <3> SUFFICES ASSUME NEW f \in DOMAIN graph'.byFingerprint
                 PROVE  graph'.byFingerprint[f] \in DOMAIN graph'.entities
      OBVIOUS
    <3>1. CASE f = e.fingerprint /\ f # "none"
      BY <1>1, <3>1, <1>f
    <3>2. CASE ~(f = e.fingerprint /\ f # "none")
      <4>1. f \in DOMAIN graph.byFingerprint /\ graph'.byFingerprint[f] = graph.byFingerprint[f]
        BY <1>1, <3>2, <1>f
      <4>2. QED
        BY <1>1, <4>1 DEF GraphInv, IndexesLead
    <3>3. QED
      BY <3>1, <3>2
  <2>4. \A id \in DOMAIN graph'.entities :
           graph'.entities[id].made.fingerprint # "none" =>
             /\ graph'.entities[id].made.fingerprint \in DOMAIN graph'.byFingerprint
             /\ graph'.byFingerprint[graph'.entities[id].made.fingerprint] = id
    <3> SUFFICES ASSUME NEW id \in DOMAIN graph'.entities, graph'.entities[id].made.fingerprint # "none"
                 PROVE  /\ graph'.entities[id].made.fingerprint \in DOMAIN graph'.byFingerprint
                        /\ graph'.byFingerprint[graph'.entities[id].made.fingerprint] = id
      OBVIOUS
    <3>1. CASE id = new
      BY <1>1, <3>1, <1>f
    <3>2. CASE id # new
      <4> DEFINE f == graph.entities[id].made.fingerprint
      <4>1. id \in DOMAIN graph.entities /\ graph'.entities[id].made.fingerprint = f
        BY <1>1, <3>2
      <4>2. f \in DOMAIN graph.byFingerprint /\ graph.byFingerprint[f] = id
        BY <4>1 DEF GraphInv, IndexesLead
      <4>3. f # e.fingerprint
        BY <1>6, <4>2
      <4> HIDE DEF f
      <4>4. f \in DOMAIN graph'.byFingerprint /\ graph'.byFingerprint[f] = graph.byFingerprint[f]
        BY <1>1, <4>2, <4>3, <1>f
      <4>5. QED
        BY <4>1, <4>2, <4>4
    <3>3. QED
      BY <3>1, <3>2
  <2>5. QED
    BY <2>1, <2>2, <2>3, <2>4 DEF IndexesLead
<1>8. \A r \in more : IF r.kind = "uses" THEN r.to = new /\ e.type = "algorithm"
                      ELSE r.from = new /\ e.type = "certificate"
  BY InferredIs
<1> HIDE DEF more
<1>9. RelationsLead(graph)'
  BY <1>1, <1>8 DEF RelationsLead, GraphInv
<1>10. MergesAreJustified'
  <2>1. /\ \A i \in DOMAIN graph.entities : \A c \in graph.entities[i].backing : Fits(c, graph.entities[i].made)
        /\ \A r \in graph.relationships :
              IF r.kind = "uses" THEN graph.entities[r.to].made.type = "algorithm"
              ELSE graph.entities[r.from].made.type = "certificate"
    BY MergesAre DEF GraphInv, EntitiesAreDistinct
  <2>2. \A i \in DOMAIN graph'.entities : \A c \in graph'.entities[i].backing : Fits(c, graph'.entities[i].made)
    BY <1>1, <2>1
  <2>3. \A r \in graph'.relationships :
           IF r.kind = "uses" THEN graph'.entities[r.to].made.type = "algorithm"
           ELSE graph'.entities[r.from].made.type = "certificate"
    BY <1>1, <1>5, <1>8, <2>1 DEF GraphInv, RelationsLead
  <2>4. QED
    BY <2>2, <2>3 DEF MergesAreJustified, Fits
<1>11. NothingIsTwice'
  <2>1. \A i, other \in DOMAIN graph.entities :
           i # other => Apart(graph.entities[i].made, graph.entities[other].made)
    BY NothingIs DEF GraphInv, EntitiesAreDistinct
  <2>2. \A i \in DOMAIN graph.entities :
           i # new => Apart(e, graph.entities[i].made) /\ Apart(graph.entities[i].made, e)
    BY StrangerIsApart DEF new
  <2>3. \A i, other \in DOMAIN graph'.entities :
           i # other => Apart(graph'.entities[i].made, graph'.entities[other].made)
    BY <1>1, <2>1, <2>2
  <2>4. QED
    BY <2>3 DEF NothingIsTwice, Apart
<1>12. QED
  BY <1>4, <1>7, <1>9, <1>10, <1>11 DEF GraphInv, EntitiesAreDistinct

LEMMA CorrelateKeeps == GraphInv /\ CorrelateEvidence => GraphInv'
<1> SUFFICES ASSUME GraphInv, CorrelateEvidence PROVE GraphInv'
  OBVIOUS
<1>1. ShapeOf(graph)
  BY DEF GraphInv
<1>2. ASSUME NEW e, NEW id \in DOMAIN graph.entities, NEW why, graph' = Correlated(graph, e, id, why),
             Fits([evidence |-> e, why |-> why], graph.entities[id].made)
      PROVE  GraphInv'
  <2> DEFINE b == [evidence |-> e, why |-> why]
             more == InferredRelationships(e, id, graph.entities[id].made.type)
  <2>1. Backed(graph, graph', id, b, more)
    BY <1>1, <1>2, CorrelatedIs
  <2>2. \A r \in more : IF r.kind = "uses" THEN r.to = id /\ graph.entities[id].made.type = "algorithm"
                        ELSE r.from = id /\ graph.entities[id].made.type = "certificate"
    BY InferredIs
  <2>3. Fits(b, graph.entities[id].made)
    BY <1>2
  <2> HIDE DEF b, more
  <2>4. QED
    BY <2>1, <2>2, <2>3, BackedKeeps
<1>3. PICK e \in Evidence :
        \/ \E id \in FingerprintMatch(e) : graph' = Correlated(graph, e, id, "fingerprint")
        \/ \E id \in LocatorMatch(e) : graph' = Correlated(graph, e, id, "locator")
        \/ \E id \in ContextualMatch(e) : graph' = Correlated(graph, e, id, "context")
        \/ /\ FingerprintMatch(e) = {} /\ ContextualMatch(e) = {}
           /\ graph' = [IngestEntity(graph, e) EXCEPT !.relationships = @ \cup InferredRelationships(e, AssetId(e), e.type)]
  BY DEF CorrelateEvidence
<1>4. ASSUME NEW id \in FingerprintMatch(e), graph' = Correlated(graph, e, id, "fingerprint") PROVE GraphInv'
  <2>1. id \in DOMAIN graph.entities
    BY <1>4 DEF FingerprintMatch, GraphInv, IndexesLead
  <2>2. Fits([evidence |-> e, why |-> "fingerprint"], graph.entities[id].made)
    BY DEF Fits
  <2>3. QED
    BY <1>2, <1>4, <2>1, <2>2
<1>5. ASSUME NEW id \in LocatorMatch(e), graph' = Correlated(graph, e, id, "locator") PROVE GraphInv'
  <2>1. id \in DOMAIN graph.entities /\ graph.entities[id].made.type = e.type /\ graph.entities[id].made.locator = e.locator
    BY <1>5 DEF LocatorMatch, GraphInv, IndexesLead
  <2>2. Fits([evidence |-> e, why |-> "locator"], graph.entities[id].made)
    BY <2>1 DEF Fits
  <2>3. QED
    BY <1>2, <1>5, <2>1, <2>2
<1>6. ASSUME NEW id \in ContextualMatch(e), graph' = Correlated(graph, e, id, "context") PROVE GraphInv'
  <2>1. /\ id \in DOMAIN graph.entities /\ graph.entities[id].made.type = e.type
        /\ graph.entities[id].made.name = e.name /\ ~Contradicts(e, graph.entities[id].made)
    BY <1>6 DEF ContextualMatch, Candidates
  <2>2. Fits([evidence |-> e, why |-> "context"], graph.entities[id].made)
    BY <2>1 DEF Fits
  <2>3. QED
    BY <1>2, <1>6, <2>1, <2>2
<1>7. ASSUME FingerprintMatch(e) = {}, ContextualMatch(e) = {},
             graph' = [IngestEntity(graph, e) EXCEPT !.relationships = @ \cup InferredRelationships(e, AssetId(e), e.type)]
      PROVE  GraphInv'
  <2>1. Entered(graph, graph', e, InferredRelationships(e, AssetId(e), e.type))
    BY <1>1, <1>7, IngestedIs
  <2>2. QED
    BY <1>7, <2>1, EnteredKeeps
<1>8. QED
  BY <1>3, <1>4, <1>5, <1>6, <1>7

\* In whatever order evidence arrives, again and again: no two entities are alike enough
\* for the engine to merge them, and what is behind one was merged by a rule it meets; of
\* one locator that rule asks for the type alone (CorrelationEngine.correlate_evidence,
\* ingest_entity, identity.generate_asset_id).
THEOREM EntitiesStayDistinct == GraphSpec => []EntitiesAreDistinct
<1>1. GraphInit => GraphInv
  <2> SUFFICES ASSUME GraphInit PROVE GraphInv
    OBVIOUS
  <2>1. /\ DOMAIN graph.entities = {} /\ DOMAIN graph.byLocator = {} /\ DOMAIN graph.byFingerprint = {}
        /\ graph.relationships = {}
    BY DEF GraphInit
  <2>2. ShapeOf(graph)
    BY DEF GraphInit, ShapeOf
  <2>3. QED
    BY <2>1, <2>2 DEF GraphInv, IndexesLead, RelationsLead, EntitiesAreDistinct, MergesAreJustified, NothingIsTwice
<1>2. GraphInv /\ UNCHANGED graph => GraphInv'
  BY DEF GraphInv, ShapeOf, IndexesLead, RelationsLead, EntitiesAreDistinct, MergesAreJustified, NothingIsTwice
<1>3. GraphInv /\ [CorrelateEvidence \/ ExecuteAuthorizedQuery]_graphVars => GraphInv'
  BY <1>2, CorrelateKeeps DEF ExecuteAuthorizedQuery, graphVars
<1>4. GraphInv => EntitiesAreDistinct
  BY DEF GraphInv
<1>5. QED
  BY <1>1, <1>3, <1>4, PTL DEF GraphSpec

-----------------------------------------------------------------------------
(* Packet captures.                                                          *)

\* What the records of all captures hold, and a finding of it.
Found == UNION {UNION {ToSet(ParseTransportLayer(c.records[i])) : i \in DOMAIN c.records} : c \in Captures}

Finding == [index : Nat, found : Found]

Words == {"INVALID_MAGIC", "TRUNCATED_PACKET", "RECURSION_LIMIT", "TIMEOUT"}

Grounds == {"INVALID_MAGIC", "TRUNCATED_PACKET"}

PcapShape ==
  /\ capture \in Captures \cup {NoCapture}
  /\ position \in Nat /\ position <= Len(capture.records)
  /\ counted \in Nat /\ counted <= MaxPackets
  /\ diagnostics \in Seq(Words)
  /\ handshakes \in Seq(Finding)
  /\ outcome.is = "idle" =>
        capture = NoCapture /\ position = 0 /\ counted = 0 /\ diagnostics = <<>> /\ handshakes = <<>>

\* What is found was read, and was found once.
FoundIsRead ==
  /\ Len(handshakes) <= counted
  /\ \A k \in DOMAIN handshakes : handshakes[k].index \in 1 .. position
  /\ \A k, l \in DOMAIN handshakes : handshakes[k].index = handshakes[l].index => k = l

\* What is read and complete was found, or lies too deep.
ReadIsFound ==
  capture.format = "pcap" =>
    \A i \in 1 .. position :
      Complete(capture.records[i]) /\ NetworkOf(capture.records[i], capture.link) # "none" =>
        \/ \E h \in ToSet(handshakes) : h.index = i
        \/ Depth(capture.records[i]) > MaxRecursion /\ "RECURSION_LIMIT" \in ToSet(diagnostics)

\* A pcap file is read to its end, or a limit or a diagnostic tells why not.
EndIsTold ==
  outcome.is = "done" /\ capture.format = "pcap" =>
    position = Len(capture.records) \/ outcome.limit \/ ToSet(diagnostics) \cap Grounds # {}

PcapInv == PcapShape /\ FoundIsRead /\ ReadIsFound /\ EndIsTold

LEMMA CaptureHas ==
  ASSUME PcapShape
  PROVE  Len(capture.records) \in Nat /\ DOMAIN capture.records = 1 .. Len(capture.records)
<1>1. CASE capture \in Captures
  BY <1>1, CapturesAssumption
<1>2. CASE capture = NoCapture
  <2>1. capture.records = <<>>
    BY <1>2 DEF NoCapture
  <2>2. QED
    BY <2>1, EmptySeq
<1>3. QED
  BY <1>1, <1>2 DEF PcapShape

LEMMA OneWord ==
  ASSUME NEW w \in Words PROVE <<w>> \in Seq(Words) /\ w \in ToSet(<<w>>)
<1>1. <<w>> \in Seq(Words)
  OBVIOUS
<1>2. w = <<w>>[1] /\ 1 \in DOMAIN <<w>>
  OBVIOUS
<1>3. w \in ToSet(<<w>>)
  BY <1>2 DEF ToSet
<1>4. QED
  BY <1>1, <1>3

LEMMA ToldStays ==
  ASSUME NEW d \in Seq(Words), NEW t \in Seq(Words)
  PROVE  d \o t \in Seq(Words) /\ ToSet(d) \subseteq ToSet(d \o t) /\ ToSet(t) \subseteq ToSet(d \o t)
<1>1. d \o t \in Seq(Words) /\ Len(d \o t) = Len(d) + Len(t)
      /\ \A i \in 1 .. Len(d) + Len(t) : (d \o t)[i] = IF i <= Len(d) THEN d[i] ELSE t[i - Len(d)]
  BY ConcatProperties
<1>2. Len(d) \in Nat /\ Len(t) \in Nat /\ DOMAIN d = 1 .. Len(d) /\ DOMAIN t = 1 .. Len(t)
      /\ DOMAIN (d \o t) = 1 .. Len(d \o t)
  BY <1>1, LenProperties
<1>3. ToSet(d) \subseteq ToSet(d \o t)
  <2> SUFFICES ASSUME NEW i \in DOMAIN d PROVE d[i] \in ToSet(d \o t)
    BY DEF ToSet
  <2>1. i \in 1 .. Len(d) + Len(t) /\ i <= Len(d)
    BY <1>2
  <2>2. (d \o t)[i] = d[i] /\ i \in DOMAIN (d \o t)
    BY <1>1, <1>2, <2>1
  <2>3. QED
    BY <2>2 DEF ToSet
<1>4. ToSet(t) \subseteq ToSet(d \o t)
  <2> SUFFICES ASSUME NEW i \in DOMAIN t PROVE t[i] \in ToSet(d \o t)
    BY DEF ToSet
  <2> DEFINE j == i + Len(d)
  <2>1. j \in 1 .. Len(d) + Len(t) /\ ~(j <= Len(d)) /\ j - Len(d) = i
    BY <1>2
  <2> HIDE DEF j
  <2>2. (d \o t)[j] = t[i] /\ j \in DOMAIN (d \o t)
    BY <1>1, <1>2, <2>1
  <2>3. QED
    BY <2>2 DEF ToSet
<1>5. QED
  BY <1>1, <1>3, <1>4

\* A record holds one handshake at most, and a complete one does.
LEMMA OneIsHeld ==
  ASSUME NEW r
  PROVE  /\ ParseTransportLayer(r) = <<>> \/ \E x : ParseTransportLayer(r) = <<x>>
         /\ Complete(r) /\ r.app.is \in {"client_hello", "server_hello", "banner", "other"}
              => ParseTransportLayer(r) # <<>>
<1> DEFINE tls == ParseTlsRecord(r.app)
           ssh == ParseSshBanner(r.app)
<1>1. /\ tls = <<>> \/ \E x : tls = <<x>>
      /\ ssh = <<>> \/ \E x : ssh = <<x>>
      /\ tls = <<>> \/ ssh = <<>>
  BY DEF ParseTlsRecord, ParseSshBanner
<1>2. r.app.is \in {"client_hello", "server_hello", "banner"} => tls # <<>> \/ ssh # <<>>
  BY DEF ParseTlsRecord, ParseSshBanner
<1>3. ParseTransportLayer(r) \in {tls \o ssh, <<>>}
  BY DEF ParseTransportLayer
<1>4. Complete(r) => ParseTransportLayer(r) = tls \o ssh
  BY DEF ParseTransportLayer, Complete
<1> HIDE DEF tls, ssh
<1>5. \A x : <<x>> \o <<>> = <<x>> /\ <<>> \o <<x>> = <<x>>
  OBVIOUS
<1>6. <<>> \o <<>> = <<>> /\ \A x : <<x>> # <<>>
  OBVIOUS
<1>7. tls \o ssh = <<>> \/ \E x : tls \o ssh = <<x>>
  BY <1>1, <1>5, <1>6
<1>8. tls # <<>> \/ ssh # <<>> => tls \o ssh # <<>>
  BY <1>1, <1>5, <1>6
<1>9. QED
  BY <1>2, <1>3, <1>4, <1>7, <1>8 DEF Complete

LEMMA OpenKeeps ==
  ASSUME PcapInv, NEW c \in Captures, Open(c) PROVE PcapInv'
<1>1. outcome.is = "idle" /\ position = 0 /\ counted = 0 /\ handshakes = <<>> /\ diagnostics = <<>>
  BY DEF PcapInv, PcapShape, Open
<1>2. Len(<<>>) = 0 /\ DOMAIN <<>> = {} /\ \A S : <<>> \in Seq(S)
  BY EmptySeq
<1>3. Len(c.records) \in Nat
  BY CapturesAssumption
<1>4. /\ capture' = c /\ position' = 0 /\ counted' = 0 /\ handshakes' = <<>>
      /\ diagnostics' = <<>> \/ diagnostics' = <<"INVALID_MAGIC">>
  BY <1>1 DEF Open
<1>5. /\ outcome'.is # "idle"
      /\ outcome'.is = "done" => diagnostics' = <<"INVALID_MAGIC">>
  BY DEF Open, Is
<1>6. <<"INVALID_MAGIC">> \in Seq(Words) /\ "INVALID_MAGIC" \in ToSet(<<"INVALID_MAGIC">>)
  BY OneWord DEF Words
<1>7. diagnostics' \in Seq(Words)
  BY <1>2, <1>4, <1>6
<1>8. PcapShape'
  BY <1>2, <1>3, <1>4, <1>5, <1>7, CapturesAssumption DEF PcapShape
<1>9. FoundIsRead' /\ ReadIsFound'
  BY <1>2, <1>4 DEF FoundIsRead, ReadIsFound
<1>10. EndIsTold'
  BY <1>5, <1>6 DEF EndIsTold, Grounds
<1>11. QED
  BY <1>8, <1>9, <1>10 DEF PcapInv

\* Nothing more is read: the diagnostics may have grown, and the end, if it is one, is told.
LEMMA EndedKeeps ==
  ASSUME PcapInv, Reading \/ outcome.is = "reading",
         UNCHANGED <<capture, position, handshakes>>,
         NEW told \in Seq(Words), diagnostics' = diagnostics \o told,
         counted' \in {counted, counted + 1}, counted' <= MaxPackets,
         outcome'.is = "done",
         position = Len(capture.records) \/ outcome'.limit \/ ToSet(told) \cap Grounds # {}
           \/ capture.format # "pcap"
  PROVE  PcapInv'
<1>1. diagnostics' \in Seq(Words) /\ ToSet(diagnostics) \subseteq ToSet(diagnostics') /\ ToSet(told) \subseteq ToSet(diagnostics')
  BY ToldStays DEF PcapInv, PcapShape
<1>2. counted' \in Nat /\ counted <= counted'
  BY DEF PcapInv, PcapShape
<1>3. PcapShape'
  BY <1>1, <1>2 DEF PcapInv, PcapShape
<1>4. Len(handshakes) \in Nat /\ counted \in Nat
  BY LenProperties DEF PcapInv, PcapShape
<1>5. FoundIsRead'
  BY <1>2, <1>4 DEF PcapInv, FoundIsRead
<1>6. ReadIsFound'
  BY <1>1 DEF PcapInv, ReadIsFound
<1>7. EndIsTold'
  BY <1>1 DEF EndIsTold
<1>8. QED
  BY <1>3, <1>5, <1>6, <1>7 DEF PcapInv

\* A record is read that holds no handshake.
LEMMA NothingHeldKeeps ==
  ASSUME PcapInv, Reading,
         UNCHANGED <<capture, outcome, handshakes>>, position' = position + 1,
         NEW told \in Seq(Words), diagnostics' = diagnostics \o told,
         counted' \in {counted, counted + 1}, counted' <= MaxPackets,
         LET r == capture.records[position + 1] IN
           Complete(r) /\ NetworkOf(r, capture.link) # "none" /\ capture.format = "pcap" =>
             Depth(r) > MaxRecursion /\ "RECURSION_LIMIT" \in ToSet(told)
  PROVE  PcapInv'
<1>1. diagnostics' \in Seq(Words) /\ ToSet(diagnostics) \subseteq ToSet(diagnostics') /\ ToSet(told) \subseteq ToSet(diagnostics')
  BY ToldStays DEF PcapInv, PcapShape
<1>2. counted' \in Nat /\ counted <= counted' /\ counted \in Nat /\ Len(handshakes) \in Nat
  BY LenProperties DEF PcapInv, PcapShape
<1>3. outcome.is = "reading" /\ position < Len(capture.records) /\ position \in Nat /\ Len(capture.records) \in Nat
  BY CaptureHas DEF PcapInv, PcapShape, Reading
<1>4. PcapShape'
  BY <1>1, <1>2, <1>3 DEF PcapInv, PcapShape
<1>5. FoundIsRead'
  BY <1>2, <1>3 DEF PcapInv, PcapShape, FoundIsRead
<1>6. ReadIsFound'
  <2>1. \A i \in 1 .. position + 1 : i \in 1 .. position \/ i = position + 1
    BY <1>3
  <2>2. QED
    BY <1>1, <2>1 DEF PcapInv, ReadIsFound
<1>7. EndIsTold'
  BY <1>3 DEF EndIsTold
<1>8. QED
  BY <1>4, <1>5, <1>6, <1>7 DEF PcapInv

\* A record is read that holds one.
LEMMA OneHeldKeeps ==
  ASSUME PcapInv, Reading,
         UNCHANGED <<capture, outcome, diagnostics>>, position' = position + 1,
         counted' = counted + 1, counted < MaxPackets,
         NEW x \in Found, handshakes' = Append(handshakes, [index |-> position + 1, found |-> x])
  PROVE  PcapInv'
<1> DEFINE h == [index |-> position + 1, found |-> x]
           n == Len(handshakes)
<1>1. outcome.is = "reading" /\ position < Len(capture.records) /\ position \in Nat /\ Len(capture.records) \in Nat
  BY CaptureHas DEF PcapInv, PcapShape, Reading
<1>2. h \in Finding /\ h.index = position + 1
  BY <1>1 DEF Finding
<1> HIDE DEF h
<1>3. /\ handshakes' \in Seq(Finding) /\ Len(handshakes') = n + 1 /\ n \in Nat
      /\ DOMAIN handshakes = 1 .. n /\ DOMAIN handshakes' = 1 .. n + 1
      /\ handshakes'[n + 1] = h /\ \A k \in 1 .. n : handshakes'[k] = handshakes[k]
  <2>1. handshakes \in Seq(Finding) /\ handshakes' = Append(handshakes, h)
    BY DEF PcapInv, PcapShape, h
  <2>2. QED
    BY <1>2, <2>1, AppendProperties, LenProperties
<1> HIDE DEF n
<1>4. \A k \in DOMAIN handshakes' : k \in DOMAIN handshakes \/ k = n + 1
  BY <1>3
<1>5. counted \in Nat /\ MaxPackets \in Nat
  BY CapturesAssumption DEF PcapInv, PcapShape
<1>6. PcapShape'
  BY <1>1, <1>3, <1>5 DEF PcapInv, PcapShape
<1>7. FoundIsRead'
  <2>1. \A k \in DOMAIN handshakes : handshakes'[k].index \in 1 .. position
    BY <1>3 DEF PcapInv, FoundIsRead
  <2>2. handshakes'[n + 1].index = position + 1
    BY <1>2, <1>3
  <2>3. \A k \in DOMAIN handshakes' : handshakes'[k].index \in 1 .. position + 1
    BY <1>1, <1>4, <2>1, <2>2
  <2>4. \A k, l \in DOMAIN handshakes' : handshakes'[k].index = handshakes'[l].index => k = l
    <3> SUFFICES ASSUME NEW k \in DOMAIN handshakes', NEW l \in DOMAIN handshakes',
                        handshakes'[k].index = handshakes'[l].index
                 PROVE  k = l
      OBVIOUS
    <3>1. position + 1 \notin 1 .. position
      BY <1>1
    <3>2. CASE k \in DOMAIN handshakes /\ l \in DOMAIN handshakes
      BY <1>3, <3>2 DEF PcapInv, FoundIsRead
    <3>3. CASE ~(k \in DOMAIN handshakes /\ l \in DOMAIN handshakes)
      BY <1>4, <2>1, <2>2, <3>1, <3>3
    <3>4. QED
      BY <3>2, <3>3
  <2>5. n <= counted
    BY DEF PcapInv, FoundIsRead, n
  <2>6. Len(handshakes') <= counted'
    BY <1>3, <1>5, <2>5
  <2>7. QED
    BY <2>3, <2>4, <2>6 DEF FoundIsRead
<1>8. ReadIsFound'
  <2>1. \A i \in 1 .. position + 1 : i \in 1 .. position \/ i = position + 1
    BY <1>1
  <2>2. h \in ToSet(handshakes') /\ ToSet(handshakes) \subseteq ToSet(handshakes')
    BY <1>3 DEF ToSet
  <2>3. QED
    BY <1>2, <2>1, <2>2 DEF PcapInv, ReadIsFound
<1>9. EndIsTold'
  BY <1>1 DEF EndIsTold
<1>10. QED
  BY <1>6, <1>7, <1>8, <1>9 DEF PcapInv

LEMMA ParseKeeps == PcapInv /\ ParsePacket => PcapInv'
<1> SUFFICES ASSUME PcapInv, ParsePacket PROVE PcapInv'
  OBVIOUS
<1> DEFINE r == capture.records[position + 1]
           link == IF capture.format = "pcap" THEN capture.link ELSE "ethernet"
<1>1. /\ Reading /\ counted < MaxPackets /\ position' = position + 1 /\ UNCHANGED <<capture, outcome>>
      /\ counted \in Nat /\ MaxPackets \in Nat /\ handshakes \in Seq(Finding) /\ diagnostics \in Seq(Words)
  BY CapturesAssumption DEF PcapInv, PcapShape, ParsePacket
<1>2. position + 1 \in DOMAIN capture.records /\ capture \in Captures
  <2>1. position < Len(capture.records) /\ position \in Nat
    BY <1>1 DEF Reading, PcapInv, PcapShape
  <2>2. position + 1 \in DOMAIN capture.records
    BY <2>1, CaptureHas DEF PcapInv
  <2>3. capture # NoCapture
    BY <2>2, EmptySeq DEF NoCapture
  <2>4. QED
    BY <2>2, <2>3 DEF PcapInv, PcapShape
<1>3. r.app.is \in {"client_hello", "server_hello", "banner", "other"}
  BY <1>2, CapturesAssumption
<1>4. counted + 1 <= MaxPackets /\ counted <= MaxPackets
  BY <1>1
<1>5. CASE r.claims = "no packet"
  <2>1. UNCHANGED <<counted, diagnostics, handshakes>> /\ ~Complete(r)
    BY <1>5 DEF ParsePacket, Record, Complete
  <2>2. <<>> \in Seq(Words) /\ diagnostics \o <<>> = diagnostics
    BY <1>1, EmptySeq, ConcatEmptySeq
  <2> HIDE DEF r
  <2>3. QED
    BY <1>1, <1>4, <2>1, <2>2, NothingHeldKeeps DEF r
<1>6. CASE r.claims # "no packet"
  <2> DEFINE parsed == ParseLinkLayer(r, link)
  <2>1. /\ counted' = counted + 1
        /\ diagnostics' = diagnostics \o parsed.told
        /\ handshakes' = handshakes \o [i \in DOMAIN parsed.found |-> [index |-> position + 1, found |-> parsed.found[i]]]
    BY <1>6 DEF ParsePacket, Record
  <2>2. CASE parsed.found = <<>>
    <3>1. handshakes' = handshakes
      <4>1. [i \in DOMAIN parsed.found |-> [index |-> position + 1, found |-> parsed.found[i]]] = <<>>
        BY <2>2
      <4>2. QED
        BY <1>1, <2>1, <4>1, ConcatEmptySeq
    <3>2. parsed.told \in Seq(Words)
      <4>1. <<"RECURSION_LIMIT">> \in Seq(Words) /\ <<>> \in Seq(Words)
        BY OneWord, EmptySeq DEF Words
      <4>2. parsed.told \in {<<>>, <<"RECURSION_LIMIT">>}
        BY DEF ParseLinkLayer
      <4>3. QED
        BY <4>1, <4>2
    <3>3. Complete(r) /\ NetworkOf(r, capture.link) # "none" /\ capture.format = "pcap" =>
            Depth(r) > MaxRecursion /\ parsed.told = <<"RECURSION_LIMIT">>
      BY <1>3, <2>2, OneIsHeld DEF ParseLinkLayer
    <3>4. "RECURSION_LIMIT" \in ToSet(<<"RECURSION_LIMIT">>)
      BY DEF ToSet
    <3>5. counted' \in {counted, counted + 1} /\ counted' <= MaxPackets
      BY <1>4, <2>1
    <3> DEFINE told == parsed.told
    <3>6. diagnostics' = diagnostics \o told
      BY <2>1
    <3>7. Complete(r) /\ NetworkOf(r, capture.link) # "none" /\ capture.format = "pcap" =>
            Depth(r) > MaxRecursion /\ "RECURSION_LIMIT" \in ToSet(told)
      BY <3>3, <3>4
    <3> HIDE DEF told
    <3>8. told \in Seq(Words)
      BY <3>2 DEF told
    <3> HIDE DEF parsed
    <3>9. QED
      BY <1>1, <3>1, <3>5, <3>6, <3>7, <3>8, NothingHeldKeeps
  <2>3. CASE parsed.found # <<>>
    <3>1. parsed.told = <<>> /\ parsed.found = ParseTransportLayer(r)
      BY <2>3 DEF ParseLinkLayer
    <3>2. PICK x : parsed.found = <<x>>
      BY <2>3, <3>1, OneIsHeld
    <3>3. x \in Found
      <4>1. x \in ToSet(ParseTransportLayer(r))
        BY <3>1, <3>2 DEF ToSet
      <4>2. QED
        BY <1>2, <4>1 DEF Found
    <3>4. [i \in DOMAIN parsed.found |-> [index |-> position + 1, found |-> parsed.found[i]]]
            = <<[index |-> position + 1, found |-> x]>>
      BY <3>2
    <3>5. handshakes' = Append(handshakes, [index |-> position + 1, found |-> x])
      <4> DEFINE one == [index |-> position + 1, found |-> x]
      <4>1. handshakes' = handshakes \o <<one>>
        BY <2>1, <3>4
      <4>2. one \in Finding
        BY <1>1, <3>3 DEF Finding, PcapInv, PcapShape
      <4> HIDE DEF one
      <4>3. handshakes' = Append(handshakes, one)
        BY <1>1, <4>1, <4>2, AppendIsConcat
      <4>4. QED
        BY <4>3 DEF one
    <3>6. diagnostics' = diagnostics
      BY <1>1, <2>1, <3>1, ConcatEmptySeq
    <3>7. QED
      BY <1>1, <2>1, <3>3, <3>5, <3>6, OneHeldKeeps
  <2>4. QED
    BY <2>2, <2>3
<1>7. QED
  BY <1>5, <1>6

LEMMA StopKeeps == PcapInv /\ (TimeIsUp \/ EnoughPackets \/ TruncatedPacket \/ TruncatedBlock \/ EndOfFile) => PcapInv'
<1> SUFFICES ASSUME PcapInv, TimeIsUp \/ EnoughPackets \/ TruncatedPacket \/ TruncatedBlock \/ EndOfFile PROVE PcapInv'
  OBVIOUS
<1>1. /\ counted \in Nat /\ MaxPackets \in Nat /\ counted <= MaxPackets /\ diagnostics \in Seq(Words)
  BY CapturesAssumption DEF PcapInv, PcapShape
<1>2. <<>> \in Seq(Words) /\ diagnostics \o <<>> = diagnostics
  BY <1>1, EmptySeq, ConcatEmptySeq
<1>3. ASSUME NEW told \in Seq(Words), UNCHANGED <<capture, position, counted, handshakes>>,
             Reading \/ outcome.is = "reading", diagnostics' = diagnostics \o told, outcome'.is = "done",
             position = Len(capture.records) \/ outcome'.limit \/ capture.format # "pcap"
      PROVE  PcapInv'
  BY <1>1, <1>3, EndedKeeps
<1>4. CASE TimeIsUp
  <2>1. <<"TIMEOUT">> \in Seq(Words)
    BY OneWord DEF Words
  <2> DEFINE told == IF capture.format = "pcap" THEN <<"TIMEOUT">> ELSE <<>>
  <2>2. told \in Seq(Words)
    BY <1>2, <2>1
  <2>3. /\ Reading /\ UNCHANGED <<capture, position, counted, handshakes>>
        /\ diagnostics' = diagnostics \o told /\ outcome' = Is("done", TRUE)
    BY <1>4 DEF TimeIsUp, Stop
  <2>4. outcome'.is = "done" /\ outcome'.limit
    BY <2>3 DEF Is
  <2> HIDE DEF told
  <2>5. QED
    BY <1>3, <2>2, <2>3, <2>4
<1>5. CASE EnoughPackets
  BY <1>2, <1>3, <1>5 DEF EnoughPackets, Stop, Is
<1>6. CASE TruncatedBlock
  BY <1>2, <1>3, <1>6 DEF TruncatedBlock, Stop, Is
<1>7. CASE EndOfFile
  BY <1>2, <1>3, <1>7 DEF EndOfFile, Is
<1>8. CASE TruncatedPacket
  <2> DEFINE told == <<"TRUNCATED_PACKET">>
  <2>1. told \in Seq(Words) /\ ToSet(told) \cap Grounds # {}
    BY OneWord DEF Words, Grounds
  <2>2. /\ Reading /\ UNCHANGED <<capture, position, handshakes>> /\ counted' = counted + 1 /\ counted < MaxPackets
        /\ outcome'.is = "done" /\ diagnostics' = diagnostics \o told
    <3>1. diagnostics' = Append(diagnostics, "TRUNCATED_PACKET")
      BY <1>8 DEF TruncatedPacket
    <3>2. diagnostics' = diagnostics \o told
      BY <1>1, <3>1, AppendIsConcat DEF Words
    <3>3. QED
      BY <1>8, <3>2 DEF TruncatedPacket, Is
  <2> HIDE DEF told
  <2>3. counted' \in {counted, counted + 1} /\ counted' <= MaxPackets
    BY <1>1, <2>2
  <2>4. QED
    BY <2>1, <2>2, <2>3, EndedKeeps
<1>9. QED
  BY <1>4, <1>5, <1>6, <1>7, <1>8

\* What the parser noted is in its report, or the report counts more than it lists.
LEMMA NotedIsReported ==
  ASSUME PcapShape, NEW words, ToSet(diagnostics) \cap words # {} PROVE Mentions(words)
<1>1. Len(diagnostics) \in Nat /\ MaxTold \in Nat /\ DOMAIN diagnostics = 1 .. Len(diagnostics)
  BY CapturesAssumption, LenProperties DEF PcapShape
<1>2. CASE Len(diagnostics) <= MaxTold
  BY <1>2 DEF Mentions, DiagnosticsReport
<1>3. CASE ~(Len(diagnostics) <= MaxTold)
  <2> DEFINE listed == SubSeq(diagnostics, 1, MaxTold)
  <2>1. \A i \in 1 .. MaxTold : diagnostics[i] \in Words
    BY <1>1, <1>3, ElementOfSeq DEF PcapShape
  <2>2. Len(listed) = IF 1 <= MaxTold THEN MaxTold - 1 + 1 ELSE 0
    BY <1>1, <2>1, SubSeqProperties
  <2>3. DiagnosticsReport.listed = listed /\ DiagnosticsReport.count = Len(diagnostics)
    BY <1>3 DEF DiagnosticsReport
  <2> HIDE DEF listed
  <2>4. Len(diagnostics) > Len(listed)
    BY <1>1, <1>3, <2>2
  <2>5. QED
    BY <2>3, <2>4 DEF Mentions
<1>4. QED
  BY <1>2, <1>3

\* The report on any pcap file, whatever its records and the limits, leaves no handshake
\* of a known link with one tag at most out without telling of a limit or a diagnostic
\* (SafePcapParser.parse_bytes, _parse_pcap_buffer, _parse_link_layer,
\* _parse_transport_layer).
THEOREM HandshakesAreToldOf == PcapSpec => []NoHandshakeIsDroppedSilently
<1>1. PcapInit => PcapInv
  <2> SUFFICES ASSUME PcapInit PROVE PcapInv
    OBVIOUS
  <2>1. Len(<<>>) = 0 /\ DOMAIN <<>> = {} /\ \A S : <<>> \in Seq(S)
    BY EmptySeq
  <2>2. QED
    BY <2>1, CapturesAssumption DEF PcapInit, NoCapture, PcapInv, PcapShape, FoundIsRead, ReadIsFound, EndIsTold
<1>2. PcapInv /\ PcapNext => PcapInv'
  BY OpenKeeps, ParseKeeps, StopKeeps DEF PcapNext
<1>3. PcapInv /\ UNCHANGED pcapVars => PcapInv'
  BY DEF pcapVars, PcapInv, PcapShape, FoundIsRead, ReadIsFound, EndIsTold
<1>4. PcapInv => NoHandshakeIsDroppedSilently
  <2> SUFFICES ASSUME PcapInv PROVE NoHandshakeIsDroppedSilently
    OBVIOUS
  <2>1. DOMAIN capture.records = 1 .. Len(capture.records) /\ position \in Nat
    BY CaptureHas DEF PcapInv, PcapShape
  <2>2. \A i \in DOMAIN capture.records : i > position => position # Len(capture.records)
    BY <2>1
  <2>3. \A i \in DOMAIN capture.records : i > position \/ i \in 1 .. position
    BY <2>1
  <2>4. /\ "RECURSION_LIMIT" \in ToSet(diagnostics) => Mentions({"RECURSION_LIMIT"})
        /\ ToSet(diagnostics) \cap Grounds # {} => Mentions(Grounds)
    BY NotedIsReported DEF PcapInv
  <2> HIDE DEF Mentions
  <2>5. QED
    BY <2>2, <2>3, <2>4 DEF PcapInv, PcapShape, FoundIsRead, ReadIsFound, EndIsTold, Grounds, NoHandshakeIsDroppedSilently
<1>5. QED
  BY <1>1, <1>2, <1>3, <1>4, PTL DEF PcapSpec

-----------------------------------------------------------------------------
(* The two front ends.  Whatever a detector's finding replaces, confirms   *)
(* or adds to, the places of the entries grow by that of the finding.      *)

Detectors == {"ast", "regex", "secret_detector", "command"}

\* The entries that findings of F can become.
Made(F) == [line : {f.line : f \in F}, algorithm : {f.algorithm : f \in F}, symbol : {f.symbol : f \in F},
            key : {f.symbol : f \in F} \cup {f.rule : f \in F}, sources : SUBSET Detectors]

\* r is s with one more finding's place.
Grown(r, s, f, F) ==
  r \in Seq(Made(F)) /\ Places(ToSet(r)) = Places(ToSet(s)) \cup {<<f.line, f.algorithm>>}

LEMMA EntryIsMade ==
  ASSUME NEW F, NEW f \in F, NEW key \in {f.symbol, f.rule}, NEW source \in Detectors
  PROVE  LET e == Entry(f, key, source) IN
         e \in Made(F) /\ e.line = f.line /\ e.algorithm = f.algorithm
<1>1. {source} \in SUBSET Detectors
  OBVIOUS
<1>2. /\ f.line \in {g.line : g \in F} /\ f.algorithm \in {g.algorithm : g \in F}
      /\ f.symbol \in {g.symbol : g \in F} /\ key \in {g.symbol : g \in F} \cup {g.rule : g \in F}
  OBVIOUS
<1> HIDE DEF Detectors
<1>3. QED
  BY <1>1, <1>2 DEF Entry, Made

LEMMA AppendedGrows ==
  ASSUME NEW F, NEW f, NEW s \in Seq(Made(F)), NEW e \in Made(F), e.line = f.line, e.algorithm = f.algorithm
  PROVE  Grown(Append(s, e), s, f, F)
<1> DEFINE V == Made(F)
<1> HIDE DEF V
<1>1. Append(s, e) \in Seq(V) /\ DOMAIN Append(s, e) = 1..(Len(s) + 1) /\ Len(s) \in Nat /\ DOMAIN s = 1..Len(s)
  <2>1. s \in Seq(V) /\ e \in V
    BY DEF V
  <2>2. QED
    BY <2>1, AppendProperties
<1>2. /\ \A k \in 1..Len(s) : Append(s, e)[k] = s[k]
      /\ Append(s, e)[Len(s) + 1] = e
  <2>1. s \in Seq(V) /\ e \in V
    BY DEF V
  <2>2. QED
    BY <2>1, AppendProperties
<1>3. ToSet(Append(s, e)) = ToSet(s) \cup {e}
  <2> PICK a : a = Append(s, e)
    OBVIOUS
  <2> PICK n \in Nat : n = Len(s)
    BY <1>1
  <2>1. DOMAIN a = 1..(n + 1) /\ DOMAIN s = 1..n /\ a[n + 1] = e /\ \A k \in 1..n : a[k] = s[k]
    BY <1>1, <1>2
  <2>2. \A k \in 1..(n + 1) : k = n + 1 \/ k \in 1..n
    OBVIOUS
  <2>3. 1..n \subseteq 1..(n + 1) /\ n + 1 \in 1..(n + 1)
    OBVIOUS
  <2>4. QED
    BY <2>1, <2>2, <2>3 DEF ToSet
<1>4. Places(ToSet(s) \cup {e}) = Places(ToSet(s)) \cup {<<f.line, f.algorithm>>}
  BY DEF Places
<1>5. QED
  BY <1>1, <1>3, <1>4 DEF Grown, V

LEMMA PlaceIsHeld ==
  ASSUME NEW s, NEW f, NEW k \in DOMAIN s, SamePlace(s[k], f)
  PROVE  <<f.line, f.algorithm>> \in Places(ToSet(s))
<1>1. s[k] \in ToSet(s)
  BY DEF ToSet
<1>2. QED
  BY <1>1 DEF Places, SamePlace

\* What is at the place of f already may be rewritten there.
LEMMA RewrittenGrows ==
  ASSUME NEW F, NEW f, NEW s \in Seq(Made(F)), NEW r, r = [k \in DOMAIN s |-> r[k]],
         \A k \in DOMAIN s : r[k] \in Made(F) /\ r[k].line = s[k].line /\ r[k].algorithm = s[k].algorithm,
         \E k \in DOMAIN s : SamePlace(s[k], f)
  PROVE  Grown(r, s, f, F)
<1>1. Places(ToSet(r)) = Places(ToSet(s))
  BY DEF Places, ToSet
<1>2. r \in Seq(Made(F))
  <2> DEFINE V == Made(F)
  <2>1. s \in Seq(V) /\ \A k \in DOMAIN s : r[k] \in V
    OBVIOUS
  <2> HIDE DEF V
  <2>2. DOMAIN s = 1..Len(s) /\ Len(s) \in Nat
    BY <2>1, LenProperties
  <2>3. r \in [1..Len(s) -> V]
    BY <2>1, <2>2
  <2>4. r \in Seq(V)
    BY <2>2, <2>3
  <2>5. QED
    BY <2>4 DEF V
<1>3. <<f.line, f.algorithm>> \in Places(ToSet(s))
  BY PlaceIsHeld
<1>4. QED
  BY <1>1, <1>2, <1>3 DEF Grown

LEMMA AstGrows ==
  ASSUME NEW F, NEW f \in F, NEW s \in Seq(Made(F))
  PROVE  Grown(AddAst(s, f), s, f, F)
<1> PICK key : key = Or(f.symbol, f.rule)
  OBVIOUS
<1> PICK new : new = Entry(f, key, "ast")
  OBVIOUS
<1>1. key \in {f.symbol, f.rule} /\ "ast" \in Detectors
  BY DEF Or, Detectors
<1>2. new \in Made(F) /\ new.line = f.line /\ new.algorithm = f.algorithm
  BY <1>1, EntryIsMade
<1>3. CASE At(s, f, key) = {}
  <2>1. AddAst(s, f) = Append(s, new)
    BY <1>3 DEF AddAst
  <2>2. QED
    BY <1>2, <2>1, AppendedGrows
<1>4. CASE At(s, f, key) # {}
  <2> PICK same : same = At(s, f, key)
    OBVIOUS
  <2> PICK r : r = [k \in DOMAIN s |-> IF k \in same THEN new ELSE s[k]]
    OBVIOUS
  <2>1. AddAst(s, f) = r
    BY <1>4 DEF AddAst
  <2>2. \A k \in same : k \in DOMAIN s /\ SamePlace(s[k], f)
    BY DEF At
  <2>3. \A k \in DOMAIN s : s[k] \in Made(F)
    BY ElementOfSeq, LenProperties
  <2>4. \A k \in DOMAIN s : r[k] \in Made(F) /\ r[k].line = s[k].line /\ r[k].algorithm = s[k].algorithm
    BY <1>2, <2>2, <2>3 DEF SamePlace
  <2>5. r = [k \in DOMAIN s |-> r[k]] /\ \E k \in DOMAIN s : SamePlace(s[k], f)
    BY <1>4, <2>2
  <2>6. QED
    BY <2>1, <2>4, <2>5, RewrittenGrows
<1>5. QED
  BY <1>3, <1>4

LEMMA NewGrows ==
  ASSUME NEW F, NEW f \in F, NEW s \in Seq(Made(F)), NEW key \in {f.symbol, f.rule}, NEW source \in Detectors
  PROVE  Grown(AddNew(s, f, key, source), s, f, F)
<1> PICK new : new = Entry(f, key, source)
  OBVIOUS
<1>1. new \in Made(F) /\ new.line = f.line /\ new.algorithm = f.algorithm
  BY EntryIsMade
<1>2. CASE At(s, f, key) = {}
  <2>1. AddNew(s, f, key, source) = Append(s, new)
    BY <1>2 DEF AddNew
  <2>2. QED
    BY <1>1, <2>1, AppendedGrows
<1>3. CASE At(s, f, key) # {}
  <2>1. AddNew(s, f, key, source) = s
    BY <1>3 DEF AddNew
  <2>2. \E k \in DOMAIN s : SamePlace(s[k], f)
    BY <1>3 DEF At
  <2>3. <<f.line, f.algorithm>> \in Places(ToSet(s))
    BY <2>2, PlaceIsHeld
  <2>4. QED
    BY <2>1, <2>3 DEF Grown
<1>4. QED
  BY <1>2, <1>3

LEMMA RegexGrows ==
  ASSUME NEW F, NEW f \in F, NEW s \in Seq(Made(F))
  PROVE  Grown(AddRegex(s, f), s, f, F)
<1> PICK c : c = Confirmed(s, f)
  OBVIOUS
<1>1. CASE c # {}
  <2> PICK r : r = [k \in DOMAIN s |->
                      IF k \in c THEN [s[k] EXCEPT !.sources = @ \union {"regex"}] ELSE s[k]]
    OBVIOUS
  <2>1. AddRegex(s, f) = r
    BY <1>1 DEF AddRegex
  <2>2. \A k \in c : k \in DOMAIN s /\ SamePlace(s[k], f)
    BY DEF Confirmed, At
  <2>3. \A k \in DOMAIN s : s[k] \in Made(F)
    BY ElementOfSeq, LenProperties
  <2>4. ASSUME NEW e \in Made(F)
        PROVE  LET x == [e EXCEPT !.sources = @ \union {"regex"}] IN
               x \in Made(F) /\ x.line = e.line /\ x.algorithm = e.algorithm
    <3>1. e.sources \union {"regex"} \in SUBSET Detectors
      BY DEF Made, Detectors
    <3>2. QED
      BY <3>1 DEF Made
  <2>5. \A k \in DOMAIN s : r[k] \in Made(F) /\ r[k].line = s[k].line /\ r[k].algorithm = s[k].algorithm
    <3> SUFFICES ASSUME NEW k \in DOMAIN s
                 PROVE  r[k] \in Made(F) /\ r[k].line = s[k].line /\ r[k].algorithm = s[k].algorithm
      OBVIOUS
    <3>1. CASE k \in c
      <4>1. r[k] = [s[k] EXCEPT !.sources = @ \union {"regex"}]
        BY <3>1
      <4>2. QED
        BY <2>3, <2>4, <4>1
    <3>2. CASE k \notin c
      BY <2>3, <3>2
    <3>3. QED
      BY <3>1, <3>2
  <2>6. r = [k \in DOMAIN s |-> r[k]] /\ \E k \in DOMAIN s : SamePlace(s[k], f)
    BY <1>1, <2>2
  <2>7. QED
    BY <2>1, <2>5, <2>6, RewrittenGrows
<1>2. CASE c = {}
  <2>1. AddRegex(s, f) = AddNew(s, f, Or(f.symbol, f.rule), "regex")
    BY <1>2 DEF AddRegex
  <2>2. Or(f.symbol, f.rule) \in {f.symbol, f.rule} /\ "regex" \in Detectors
    BY DEF Or, Detectors
  <2>3. QED
    BY <2>1, <2>2, NewGrows
<1>3. QED
  BY <1>1, <1>2

LEMMA AddGrows ==
  ASSUME NEW F, NEW f \in F, NEW s \in Seq(Made(F)), NEW detector \in Detectors
  PROVE  Grown(Add(s, f, detector), s, f, F)
<1>1. CASE detector = "ast"
  <2>1. Add(s, f, detector) = AddAst(s, f)
    BY <1>1 DEF Add
  <2>2. QED
    BY <2>1, AstGrows
<1>2. CASE detector = "regex"
  <2>1. Add(s, f, detector) = AddRegex(s, f)
    BY <1>2 DEF Add
  <2>2. QED
    BY <2>1, RegexGrows
<1>3. CASE detector = "secret_detector"
  <2>1. Add(s, f, detector) = AddNew(s, f, f.rule, detector)
    BY <1>3 DEF Add
  <2>2. QED
    BY <2>1, NewGrows
<1>4. CASE detector = "command"
  <2>1. Add(s, f, detector) = AddNew(s, f, f.symbol, detector)
    BY <1>4 DEF Add
  <2>2. QED
    BY <2>1, NewGrows
<1>5. QED
  BY <1>1, <1>2, <1>3, <1>4 DEF Detectors

LEMMA AddAllSteps ==
  ASSUME NEW seq, NEW n \in Nat, DOMAIN seq = 1..n, NEW F, \A i \in 1..n : seq[i] \in F,
         NEW base \in Seq(Made(F)), NEW detector \in Detectors
  PROVE  \E h : /\ h[0] = base /\ AddAll(base, seq, detector) = h[n]
                /\ \A i \in 1..n : h[i] = Add(h[i - 1], seq[i], detector)
<1> DEFINE Eq(g) == g = [s \in SUBSET (1..n) |->
                           IF s = {} THEN base ELSE Add(g[s \ {Max(s)}], seq[Max(s)], detector)]
           iter == CHOOSE g : Eq(g)
           T == Seq(Made(F))
           step == [p \in (1..n) \X T |-> Add(p[2], seq[p[1]], detector)]
<1>1. AddAll(base, seq, detector) = iter[1..n]
  BY DEF AddAll, FoldLeft, MapThenFoldSet
<1>2. \E g : Eq(g)
  <2>1. step \in [(1..n) \X T -> T] /\ base \in T
    <3>1. ASSUME NEW i \in 1..n, NEW t \in T PROVE Add(t, seq[i], detector) \in T
      BY AddGrows DEF Grown
    <3>2. base \in T
      OBVIOUS
    <3> HIDE DEF T
    <3>3. QED
      BY <3>1, <3>2
  <2>2. \A i \in 1..n, t \in T : step[<<i, t>>] = Add(t, seq[i], detector)
    OBVIOUS
  <2> HIDE DEF step, T
  <2>3. PICK g \in [SUBSET (1..n) -> T] : Folds(g, n, base, step)
    BY <2>1, FoldAlwaysExists DEF FoldExists
  <2>4. ASSUME NEW s \in SUBSET (1..n)
        PROVE  g[s] = IF s = {} THEN base ELSE Add(g[s \ {Max(s)}], seq[Max(s)], detector)
    <3>1. CASE s # {}
      <4>1. Max(s) \in 1..n /\ g[s \ {Max(s)}] \in T
        BY <3>1, MaxInside
      <4>2. QED
        BY <2>2, <2>3, <3>1, <4>1 DEF Folds
    <3>2. QED
      BY <2>3, <3>1 DEF Folds
  <2>5. Eq(g)
    BY <2>3, <2>4
  <2>6. QED
    BY <2>5
<1>3. Eq(iter)
  <2> HIDE DEF Eq
  <2>1. QED
    BY <1>2
<1> HIDE DEF iter
<1> DEFINE h == [i \in 0..n |-> iter[1..i]]
<1>4. h[0] = base /\ h[n] = iter[1..n]
  <2>1. iter[1..0] = base
    <3>1. \A s \in SUBSET (1..n) : s = {} => iter[s] = base
      BY <1>3
    <3> HIDE DEF Eq
    <3>2. 1..0 \in SUBSET (1..n) /\ 1..0 = {}
      OBVIOUS
    <3>3. QED
      BY <3>1, <3>2
  <2> HIDE DEF Eq
  <2>2. QED
    BY <2>1
<1>5. ASSUME NEW i \in 1..n PROVE h[i] = Add(h[i - 1], seq[i], detector)
  <2>1. \A s \in SUBSET (1..n) :
          iter[s] = IF s = {} THEN base ELSE Add(iter[s \ {Max(s)}], seq[Max(s)], detector)
    BY <1>3
  <2>2. iter[1..i] = Add(iter[1..(i - 1)], seq[i], detector)
    BY <2>1, PrefixSteps
  <2>3. i \in 0..n /\ i - 1 \in 0..n
    OBVIOUS
  <2>4. QED
    BY <2>2, <2>3
<1> HIDE DEF h
<1>6. QED
  BY <1>1, <1>4, <1>5

\* All findings are added: the places are those of the entries there were and of the findings.
LEMMA AllAreAdded ==
  ASSUME NEW F, NEW seq \in Seq(F), NEW base \in Seq(Made(F)), NEW detector \in Detectors
  PROVE  /\ AddAll(base, seq, detector) \in Seq(Made(F))
         /\ Places(ToSet(AddAll(base, seq, detector))) = Places(ToSet(base)) \cup Places(ToSet(seq))
<1> PICK n \in Nat : n = Len(seq)
  BY LenProperties
<1>1. DOMAIN seq = 1..n /\ \A i \in 1..n : seq[i] \in F
  BY LenProperties, ElementOfSeq
<1>2. PICK h : /\ h[0] = base /\ AddAll(base, seq, detector) = h[n]
               /\ \A i \in 1..n : h[i] = Add(h[i - 1], seq[i], detector)
  BY <1>1, AddAllSteps, SMTT(30)
<1> DEFINE P(k) == {<<seq[i].line, seq[i].algorithm>> : i \in 1..k}
           good == {k \in 0..n : h[k] \in Seq(Made(F)) /\ Places(ToSet(h[k])) = Places(ToSet(base)) \cup P(k)}
<1>3. 0 \in good
  <2>1. P(0) = {}
    OBVIOUS
  <2> HIDE DEF P
  <2>2. QED
    BY <1>2, <2>1
<1>4. ASSUME NEW k \in 1..n, k - 1 \in good PROVE k \in good
  <2>1. h[k - 1] \in Seq(Made(F)) /\ Places(ToSet(h[k - 1])) = Places(ToSet(base)) \cup P(k - 1)
    BY <1>4
  <2>2. seq[k] \in F
    BY <1>1
  <2>3. Grown(h[k], h[k - 1], seq[k], F)
    BY <1>2, <2>1, <2>2, AddGrows
  <2>4. P(k) = P(k - 1) \cup {<<seq[k].line, seq[k].algorithm>>}
    <3>1. 1..k = (1..(k - 1)) \cup {k}
      OBVIOUS
    <3>2. QED
      BY <3>1
  <2> HIDE DEF P
  <2>5. QED
    BY <2>1, <2>3, <2>4 DEF Grown
<1> HIDE DEF good
<1>5. n \in good
  <2>1. \A k \in 0..n : k \in good
    BY <1>3, <1>4, CountUp
  <2>2. QED
    BY <2>1
<1>6. P(n) = Places(ToSet(seq))
  BY <1>1 DEF Places, ToSet
<1> HIDE DEF P
<1>7. QED
  BY <1>2, <1>5, <1>6 DEF good

LEMMA IsListOf ==
  ASSUME NEW s, s \in Seq(ToSet(s)), NEW F, ToSet(s) \subseteq F
  PROVE  s \in Seq(F)
<1> DEFINE V == ToSet(s)
<1> HIDE DEF V
<1>1. s \in Seq(V) /\ V \subseteq F
  BY DEF V
<1>2. QED
  BY <1>1, SeqMonotonic

\* The command and the scanner find at the same places of a file that can be read, by regex
\* rules that do not raise.
LEMMA FrontEndsMeet ==
  ASSUME NEW c, \A found \in {c.ast, c.regex, c.secrets} : found \in Seq(ToSet(found)),
         c.readable, ~c.regexRaises
  PROVE  Places(ScanSingleFile(c).findings) = Places(ProcessFile(c).findings)
<1> DEFINE F == ToSet(c.ast) \cup ToSet(c.regex) \cup ToSet(c.secrets)
           a == AstFindings(c)
           secrets == SecretFindings(c)
           P(q) == Places(ToSet(q))
           one == AddAll(<<>>, a, "ast")
           two == AddAll(one, c.regex, "regex")
           three == AddAll(two, secrets, "secret_detector")
           both == a \o c.regex
           all == both \o secrets
<1>1. c.ast \in Seq(F) /\ c.regex \in Seq(F) /\ c.secrets \in Seq(F)
  <2>1. ToSet(c.ast) \subseteq F /\ ToSet(c.regex) \subseteq F /\ ToSet(c.secrets) \subseteq F
    OBVIOUS
  <2> HIDE DEF F
  <2>2. QED
    BY <2>1, IsListOf
<1> HIDE DEF F
<1>2. a \in Seq(F) /\ secrets \in Seq(F)
  <2>1. <<>> \in Seq(F)
    BY EmptySeq
  <2>2. QED
    BY <1>1, <2>1 DEF AstFindings, SecretFindings
<1> HIDE DEF a
<1>3. <<>> \in Seq(Made(F)) /\ Places(ToSet(<<>>)) = {}
  <2>1. <<>> \in Seq(Made(F))
    BY EmptySeq
  <2>2. ToSet(<<>>) = {}
    BY DEF ToSet
  <2>3. QED
    BY <2>1, <2>2 DEF Places
<1>4. "ast" \in Detectors /\ "regex" \in Detectors /\ "secret_detector" \in Detectors /\ "command" \in Detectors
  BY DEF Detectors
<1>5. one \in Seq(Made(F)) /\ P(one) = P(a)
  <2>1. /\ AddAll(<<>>, a, "ast") \in Seq(Made(F))
        /\ Places(ToSet(AddAll(<<>>, a, "ast"))) = Places(ToSet(<<>>)) \cup Places(ToSet(a))
    BY <1>2, <1>3, <1>4, AllAreAdded
  <2>2. QED
    BY <1>3, <2>1
<1> HIDE DEF one
<1>6. two \in Seq(Made(F)) /\ P(two) = P(one) \cup P(c.regex)
  <2>1. /\ AddAll(one, c.regex, "regex") \in Seq(Made(F))
        /\ Places(ToSet(AddAll(one, c.regex, "regex"))) = Places(ToSet(one)) \cup Places(ToSet(c.regex))
    <3> DEFINE regex == c.regex
    <3>1. regex \in Seq(F) /\ one \in Seq(Made(F)) /\ "regex" \in Detectors
      BY <1>1, <1>4, <1>5
    <3> HIDE DEF regex
    <3>2. /\ AddAll(one, regex, "regex") \in Seq(Made(F))
          /\ Places(ToSet(AddAll(one, regex, "regex"))) = Places(ToSet(one)) \cup Places(ToSet(regex))
      BY <3>1, AllAreAdded
    <3>3. QED
      BY <3>2 DEF regex
  <2>2. QED
    BY <1>3, <2>1
<1> HIDE DEF two
<1>7. P(three) = P(two) \cup P(secrets)
  BY <1>2, <1>4, <1>6, AllAreAdded, ZenonT(30)
<1>8. ScanSingleFile(c).findings = ToSet(three)
  <2>1. Merged(c) = three
    <3>1. RegexFindings(c) = c.regex
      BY DEF RegexFindings
    <3>2. QED
      BY <3>1 DEF Merged, a, one, two
  <2> HIDE DEF three
  <2>2. QED
    BY <2>1 DEF ScanSingleFile
<1> HIDE DEF three
<1>9. both \in Seq(F) /\ ToSet(both) = ToSet(a) \cup ToSet(c.regex)
  BY <1>1, <1>2, JoinedHas
<1> HIDE DEF both
<1>10. all \in Seq(F) /\ ToSet(all) = ToSet(both) \cup ToSet(secrets)
  BY <1>2, <1>9, JoinedHas
<1>11. P(all) = P(a) \cup P(c.regex) \cup P(secrets)
  <2>1. \A S, T : Places(S \cup T) = Places(S) \cup Places(T)
    BY DEF Places
  <2>2. Places(ToSet(all)) = Places(ToSet(both)) \cup Places(ToSet(secrets))
    BY <1>10, <2>1
  <2>3. Places(ToSet(both)) = Places(ToSet(a)) \cup Places(ToSet(c.regex))
    BY <1>9, <2>1
  <2>4. QED
    BY <2>2, <2>3
<1>12. ProcessFile(c).findings = ToSet(AddAll(<<>>, all, "command"))
  BY DEF ProcessFile, all, both, a
<1> HIDE DEF all
<1>13. Places(ToSet(AddAll(<<>>, all, "command"))) = P(all)
  <2>1. /\ AddAll(<<>>, all, "command") \in Seq(Made(F))
        /\ Places(ToSet(AddAll(<<>>, all, "command"))) = Places(ToSet(<<>>)) \cup Places(ToSet(all))
    BY <1>3, <1>4, <1>10, AllAreAdded
  <2>2. QED
    BY <1>3, <2>1
<1>14. QED
  BY <1>5, <1>6, <1>7, <1>8, <1>11, <1>12, <1>13

-----------------------------------------------------------------------------
(* Archives.  What an extraction leaves is the sum of what it wrote of each *)
(* member: of a ZIP no more than the headers announce together, of a TAR   *)
(* the total it has kept on its way.                                       *)

SumOf(sizes) == FoldLeft(LAMBDA n, s : n + s, 0, sizes)

LEMMA SumSteps ==
  ASSUME NEW seq, NEW n \in Nat, DOMAIN seq = 1..n, \A i \in 1..n : seq[i] \in Int
  PROVE  \E h : /\ h[0] = 0 /\ SumOf(seq) = h[n]
                /\ \A i \in 1..n : h[i] = h[i - 1] + seq[i]
<1> DEFINE Eq(g) == g = [s \in SUBSET (1..n) |->
                           IF s = {} THEN 0 ELSE g[s \ {Max(s)}] + seq[Max(s)]]
           iter == CHOOSE g : Eq(g)
           T == Int
           step == [p \in (1..n) \X T |-> p[2] + seq[p[1]]]
<1>1. SumOf(seq) = iter[1..n]
  BY DEF SumOf, FoldLeft, MapThenFoldSet
<1>2. \E g : Eq(g)
  <2>1. step \in [(1..n) \X T -> T] /\ 0 \in T
    <3>1. ASSUME NEW i \in 1..n, NEW t \in T PROVE t + seq[i] \in T
      OBVIOUS
    <3>2. 0 \in T
      OBVIOUS
    <3> HIDE DEF T
    <3>3. QED
      BY <3>1, <3>2
  <2>2. \A i \in 1..n, t \in T : step[<<i, t>>] = t + seq[i]
    OBVIOUS
  <2> HIDE DEF step, T
  <2>3. PICK g \in [SUBSET (1..n) -> T] : Folds(g, n, 0, step)
    BY <2>1, FoldAlwaysExists DEF FoldExists
  <2>4. ASSUME NEW s \in SUBSET (1..n)
        PROVE  g[s] = IF s = {} THEN 0 ELSE g[s \ {Max(s)}] + seq[Max(s)]
    <3>1. CASE s # {}
      <4>1. Max(s) \in 1..n /\ g[s \ {Max(s)}] \in T
        BY <3>1, MaxInside
      <4>2. QED
        BY <2>2, <2>3, <3>1, <4>1 DEF Folds
    <3>2. QED
      BY <2>3, <3>1 DEF Folds
  <2>5. Eq(g)
    BY <2>3, <2>4
  <2>6. QED
    BY <2>5
<1>3. Eq(iter)
  <2> HIDE DEF Eq
  <2>1. QED
    BY <1>2
<1> HIDE DEF iter
<1> DEFINE h == [i \in 0..n |-> iter[1..i]]
<1>4. h[0] = 0 /\ h[n] = iter[1..n]
  <2>1. iter[1..0] = 0
    <3>1. \A s \in SUBSET (1..n) : s = {} => iter[s] = 0
      BY <1>3
    <3> HIDE DEF Eq
    <3>2. 1..0 \in SUBSET (1..n) /\ 1..0 = {}
      OBVIOUS
    <3>3. QED
      BY <3>1, <3>2
  <2> HIDE DEF Eq
  <2>2. QED
    BY <2>1
<1>5. ASSUME NEW i \in 1..n PROVE h[i] = h[i - 1] + seq[i]
  <2>1. \A s \in SUBSET (1..n) :
          iter[s] = IF s = {} THEN 0 ELSE iter[s \ {Max(s)}] + seq[Max(s)]
    BY <1>3
  <2>2. iter[1..i] = iter[1..(i - 1)] + seq[i]
    BY <2>1, PrefixSteps
  <2>3. i \in 0..n /\ i - 1 \in 0..n
    OBVIOUS
  <2>4. QED
    BY <2>2, <2>3
<1> HIDE DEF h
<1>6. QED
  BY <1>1, <1>4, <1>5

LEMMA TotalSteps ==
  ASSUME NEW seq, NEW n \in Nat, DOMAIN seq = 1..n, \A i \in 1..n : seq[i].size \in Int
  PROVE  \E h : /\ h[0] = 0 /\ TotalSize(seq) = h[n]
                /\ \A i \in 1..n : h[i] = h[i - 1] + seq[i].size
<1> DEFINE Eq(g) == g = [s \in SUBSET (1..n) |->
                           IF s = {} THEN 0 ELSE g[s \ {Max(s)}] + seq[Max(s)].size]
           iter == CHOOSE g : Eq(g)
           T == Int
           step == [p \in (1..n) \X T |-> p[2] + seq[p[1]].size]
<1>1. TotalSize(seq) = iter[1..n]
  BY DEF TotalSize, FoldLeft, MapThenFoldSet
<1>2. \E g : Eq(g)
  <2>1. step \in [(1..n) \X T -> T] /\ 0 \in T
    <3>1. ASSUME NEW i \in 1..n, NEW t \in T PROVE t + seq[i].size \in T
      OBVIOUS
    <3>2. 0 \in T
      OBVIOUS
    <3> HIDE DEF T
    <3>3. QED
      BY <3>1, <3>2
  <2>2. \A i \in 1..n, t \in T : step[<<i, t>>] = t + seq[i].size
    OBVIOUS
  <2> HIDE DEF step, T
  <2>3. PICK g \in [SUBSET (1..n) -> T] : Folds(g, n, 0, step)
    BY <2>1, FoldAlwaysExists DEF FoldExists
  <2>4. ASSUME NEW s \in SUBSET (1..n)
        PROVE  g[s] = IF s = {} THEN 0 ELSE g[s \ {Max(s)}] + seq[Max(s)].size
    <3>1. CASE s # {}
      <4>1. Max(s) \in 1..n /\ g[s \ {Max(s)}] \in T
        BY <3>1, MaxInside
      <4>2. QED
        BY <2>2, <2>3, <3>1, <4>1 DEF Folds
    <3>2. QED
      BY <2>3, <3>1 DEF Folds
  <2>5. Eq(g)
    BY <2>3, <2>4
  <2>6. QED
    BY <2>5
<1>3. Eq(iter)
  <2> HIDE DEF Eq
  <2>1. QED
    BY <1>2
<1> HIDE DEF iter
<1> DEFINE h == [i \in 0..n |-> iter[1..i]]
<1>4. h[0] = 0 /\ h[n] = iter[1..n]
  <2>1. iter[1..0] = 0
    <3>1. \A s \in SUBSET (1..n) : s = {} => iter[s] = 0
      BY <1>3
    <3> HIDE DEF Eq
    <3>2. 1..0 \in SUBSET (1..n) /\ 1..0 = {}
      OBVIOUS
    <3>3. QED
      BY <3>1, <3>2
  <2> HIDE DEF Eq
  <2>2. QED
    BY <2>1
<1>5. ASSUME NEW i \in 1..n PROVE h[i] = h[i - 1] + seq[i].size
  <2>1. \A s \in SUBSET (1..n) :
          iter[s] = IF s = {} THEN 0 ELSE iter[s \ {Max(s)}] + seq[Max(s)].size
    BY <1>3
  <2>2. iter[1..i] = iter[1..(i - 1)] + seq[i].size
    BY <2>1, PrefixSteps
  <2>3. i \in 0..n /\ i - 1 \in 0..n
    OBVIOUS
  <2>4. QED
    BY <2>2, <2>3
<1> HIDE DEF h
<1>6. QED
  BY <1>1, <1>4, <1>5

\* Lists of numbers that are not larger have no larger sum.
LEMMA SumIsWithin ==
  ASSUME NEW s, NEW n \in Nat, DOMAIN s = 1..n, NEW m, DOMAIN m = 1..n,
         \A i \in 1..n : s[i] \in Int /\ m[i].size \in Int /\ s[i] <= m[i].size
  PROVE  SumOf(s) \in Int /\ TotalSize(m) \in Int /\ SumOf(s) <= TotalSize(m)
<1>1. PICK h : /\ h[0] = 0 /\ SumOf(s) = h[n]
               /\ \A i \in 1..n : h[i] = h[i - 1] + s[i]
  BY SumSteps
<1>2. PICK g : /\ g[0] = 0 /\ TotalSize(m) = g[n]
               /\ \A i \in 1..n : g[i] = g[i - 1] + m[i].size
  BY TotalSteps
<1> DEFINE good == {k \in 0..n : h[k] \in Int /\ g[k] \in Int /\ h[k] <= g[k]}
<1>3. 0 \in good
  BY <1>1, <1>2
<1>4. ASSUME NEW k \in 1..n, k - 1 \in good PROVE k \in good
  <2> PICK sk \in Int, mk \in Int : sk = s[k] /\ mk = m[k].size
    OBVIOUS
  <2> PICK hk \in Int, gk \in Int : hk = h[k - 1] /\ gk = g[k - 1]
    BY <1>4
  <2>1. h[k] = hk + sk /\ g[k] = gk + mk /\ sk <= mk /\ hk <= gk
    BY <1>1, <1>2, <1>4
  <2>2. hk + sk \in Int /\ gk + mk \in Int /\ hk + sk <= gk + mk
    BY <2>1, SMTT(30)
  <2>3. QED
    BY <2>1, <2>2, SMTT(30)
<1> HIDE DEF good
<1>5. \A k \in 0..n : k \in good
  BY <1>3, <1>4, CountUp
<1>6. n \in good
  BY <1>5
<1>7. QED
  BY <1>1, <1>2, <1>6 DEF good

\* t is s but for place k, where s has none.
Gains(s, t, k, n) ==
  /\ DOMAIN s = 1..n /\ DOMAIN t = 1..n /\ k \in 1..n /\ s[k] = 0
  /\ \A i \in 1..n : s[i] \in Int /\ t[i] \in Int
  /\ \A i \in 1..n : i # k => t[i] = s[i]

\* What one place gains, the sum does.
LEMMA SumGains ==
  ASSUME NEW n \in Nat, NEW s, NEW t, NEW k, Gains(s, t, k, n)
  PROVE  SumOf(s) \in Int /\ SumOf(t) = SumOf(s) + t[k]
<1> USE DEF Gains
<1>1. PICK h : /\ h[0] = 0 /\ SumOf(s) = h[n]
               /\ \A i \in 1..n : h[i] = h[i - 1] + s[i]
  BY SumSteps
<1> PICK v \in Int : v = t[k]
  OBVIOUS
<1>3. PICK g : /\ g[0] = 0 /\ SumOf(t) = g[n]
               /\ \A i \in 1..n : g[i] = g[i - 1] + t[i]
  BY SumSteps
<1> DEFINE good == {i \in 0..n : h[i] \in Int /\ g[i] = IF i < k THEN h[i] ELSE h[i] + v}
<1>4. 0 \in good
  BY <1>1, <1>3
<1>5. ASSUME NEW i \in 1..n, i - 1 \in good PROVE i \in good
  <2>1. h[i - 1] \in Int /\ h[i] = h[i - 1] + s[i] /\ g[i] = g[i - 1] + t[i] /\ s[i] \in Int
    BY <1>1, <1>3, <1>5
  <2>2. g[i - 1] = IF i - 1 < k THEN h[i - 1] ELSE h[i - 1] + v
    BY <1>5
  <2>3. CASE i < k
    <3>1. t[i] = s[i] /\ i - 1 < k
      BY <2>3
    <3>2. QED
      BY <2>1, <2>2, <2>3, <3>1
  <2>4. CASE i = k
    <3>1. t[i] = v /\ s[i] = 0 /\ i - 1 < k /\ ~(i < k)
      BY <2>4
    <3>2. QED
      BY <2>1, <2>2, <3>1
  <2>5. CASE i > k
    <3>1. t[i] = s[i] /\ ~(i - 1 < k) /\ ~(i < k)
      BY <2>5
    <3>2. QED
      BY <2>1, <2>2, <3>1, SMTT(30)
  <2>6. QED
    BY <2>3, <2>4, <2>5
<1> HIDE DEF good
<1>6. \A i \in 0..n : i \in good
  BY <1>4, <1>5, CountUp
<1>7. n \in good /\ ~(n < k)
  BY <1>6
<1>8. QED
  BY <1>1, <1>3, <1>7 DEF good

\* n bytes of an archive of a compressed size keep the limits.
KeepsLimits(n, compressed) == n \in Int /\ n <= MaxTotal /\ ~RatioExceeded(n, compressed)

LEMMA LimitsAreNat == MaxTotal \in Nat /\ MaxRatio \in Nat /\ MaxFree \in Nat
BY UploadsAssumption

LEMMA NothingKeepsLimits == ASSUME NEW c \in Nat PROVE KeepsLimits(0, c)
<1>1. \A x \in Nat : x * c \in Nat
  OBVIOUS
<1>2. MaxRatio * c \in Nat
  BY <1>1, LimitsAreNat
<1>3. \A x \in Nat : ~(0 > x)
  OBVIOUS
<1>4. QED
  BY <1>2, <1>3, LimitsAreNat DEF KeepsLimits, RatioExceeded

LEMMA LessKeepsLimits ==
  ASSUME NEW c \in Nat, NEW n \in Int, NEW m \in Int, n <= m, m <= MaxTotal, ~RatioExceeded(m, c)
  PROVE  KeepsLimits(n, c)
<1>1. \A x \in Nat : x * c \in Nat
  OBVIOUS
<1>2. PICK r \in Nat : r = MaxRatio * c
  BY <1>1, LimitsAreNat
<1>3. \A x \in Nat : (n > x => m > x) /\ (n >= x => m >= x)
  OBVIOUS
<1>4. ~RatioExceeded(n, c)
  BY <1>2, <1>3, LimitsAreNat DEF RatioExceeded
<1>5. QED
  BY <1>4, LimitsAreNat DEF KeepsLimits

IsMember(m) == m.size \in Int /\ m.corrupt \in BOOLEAN

\* An archive whose list of members has n of them.
IsArchive(a, n) ==
  /\ a.compressed \in Nat /\ DOMAIN a.members = 1..n
  /\ \A k \in 1..n : IsMember(a.members[k])

LEMMA NothingSumsToNone ==
  ASSUME NEW a, NEW n \in Nat, IsArchive(a, n)
  PROVE  SumOf(Nothing(a)) = 0
<1> PICK s : s = Nothing(a)
  OBVIOUS
<1>1. DOMAIN s = 1..n /\ \A i \in 1..n : s[i] = 0
  BY DEF Nothing, IsArchive
<1>2. PICK h : /\ h[0] = 0 /\ SumOf(s) = h[n]
               /\ \A i \in 1..n : h[i] = h[i - 1] + s[i]
  <2>1. \A i \in 1..n : s[i] \in Int
    BY <1>1
  <2>2. QED
    BY <1>1, <2>1, SumSteps
<1> DEFINE good == {i \in 0..n : h[i] = 0}
<1>3. 0 \in good
  BY <1>2
<1>4. ASSUME NEW i \in 1..n, i - 1 \in good PROVE i \in good
  <2>1. h[i] = h[i - 1] + s[i] /\ h[i - 1] = 0 /\ s[i] = 0
    BY <1>1, <1>2, <1>4
  <2>2. QED
    BY <2>1
<1> HIDE DEF good
<1>5. \A i \in 0..n : i \in good
  BY <1>3, <1>4, CountUp
<1>6. n \in good
  BY <1>5
<1>7. QED
  BY <1>2, <1>6 DEF good

LEMMA WrittenOf ==
  ASSUME NEW m, m.size \in Nat
  PROVE  ExtractMember(m) = -1 \/ (ExtractMember(m) \in Nat /\ ExtractMember(m) <= m.size)
<1>1. ExtractMember(m) \in {m.size, 0, -1}
  BY Zenon DEF ExtractMember
<1>2. QED
  BY <1>1

LEMMA ZipKeepsLimits ==
  ASSUME NEW a, NEW n \in Nat, IsArchive(a, n), NEW x, x = ExtractZip(a)
  PROVE  KeepsLimits(SumOf(x.size), a.compressed)
<1>1. a.compressed \in Nat /\ DOMAIN a.members = 1..n
  BY DEF IsArchive
<1>2. CASE a.compressed = 0 \/ ~ZipPrecheck(a)
  <2>1. x = Extraction(FALSE, Nothing(a))
    BY <1>2 DEF ExtractZip
  <2>2. x.size = Nothing(a)
    BY <2>1 DEF Extraction
  <2>3. QED
    BY <1>1, <2>2, NothingSumsToNone, NothingKeepsLimits
<1>3. CASE ~(a.compressed = 0 \/ ~ZipPrecheck(a))
  <2> DEFINE written == [k \in DOMAIN a.members |-> ExtractMember(a.members[k])]
             sizes == [k \in DOMAIN written |-> IF written[k] = -1 THEN 0 ELSE written[k]]
  <2>1. x.size = sizes
    BY <1>3 DEF ExtractZip, Extraction
  <2>2. /\ \A k \in 1..n : a.members[k].size \in Nat
        /\ TotalSize(a.members) <= MaxTotal /\ ~RatioExceeded(TotalSize(a.members), a.compressed)
    <3>1. \A k \in 1..n : a.members[k].size \in 0 .. MaxEntry /\ a.members[k].size \in Int
      BY <1>1, <1>3 DEF ZipPrecheck, IsArchive, IsMember
    <3>2. \A k \in 1..n : a.members[k].size \in Nat
      BY <3>1
    <3>3. QED
      BY <1>3, <3>2 DEF ZipPrecheck
  <2>3. ASSUME NEW k \in 1..n
        PROVE  sizes[k] \in Int /\ sizes[k] <= a.members[k].size
    <3> PICK w, z : w = ExtractMember(a.members[k]) /\ z = a.members[k].size
      OBVIOUS
    <3>1. z \in Nat /\ (w = -1 \/ (w \in Nat /\ w <= z))
      BY <2>2, WrittenOf
    <3>2. sizes[k] = IF w = -1 THEN 0 ELSE w
      BY <1>1
    <3>3. QED
      BY <3>1, <3>2
  <2>4. DOMAIN sizes = 1..n
    BY <1>1
  <2> HIDE DEF sizes
  <2>5. /\ SumOf(sizes) \in Int /\ TotalSize(a.members) \in Int
        /\ SumOf(sizes) <= TotalSize(a.members)
    <3>1. \A k \in 1..n : sizes[k] \in Int /\ a.members[k].size \in Int /\ sizes[k] <= a.members[k].size
      BY <2>2, <2>3
    <3>2. QED
      BY <1>1, <2>4, <3>1, SumIsWithin
  <2>6. QED
    BY <1>1, <2>1, <2>2, <2>5, LessKeepsLimits
<1>4. QED
  BY <1>2, <1>3

\* What the extraction of a TAR has come to.
TarRecord(n) == [size : [1..n -> Int], total : Int, failed : BOOLEAN]

TarRefused(acc) == [acc EXCEPT !.failed = TRUE]

TarWrote(acc, k, m) ==
  [acc EXCEPT !.total = acc.total + m.size, !.size[k] = m.size, !.failed = m.corrupt]

\* A member is refused, skipped, or written within the limits.
WroteWithin(a, acc, k, t) ==
  /\ t = TarWrote(acc, k, a.members[k])
  /\ ~(acc.total + a.members[k].size > MaxTotal)
  /\ ~RatioExceeded(acc.total + a.members[k].size, a.compressed)

LEMMA TarMemberIs ==
  ASSUME NEW a, NEW acc, NEW k, NEW t, t = TarMember(a, acc, k)
  PROVE  t = acc \/ t = TarRefused(acc) \/ WroteWithin(a, acc, k, t)
BY Zenon DEF TarMember, TarWrote, TarRefused, WroteWithin

LEMMA WrittenIs ==
  ASSUME NEW n \in Nat, NEW acc \in TarRecord(n), NEW k \in 1..n, NEW m,
         IsMember(m), NEW t, t = TarWrote(acc, k, m)
  PROVE  /\ t \in TarRecord(n) /\ t.total = acc.total + m.size
         /\ t.size = [acc.size EXCEPT ![k] = m.size]
<1> PICK v \in Int, bad \in BOOLEAN : v = m.size /\ bad = m.corrupt
  BY DEF IsMember
<1>1. acc.total \in Int
  BY DEF TarRecord
<1> PICK total \in Int : total = acc.total + v
  BY <1>1
<1>2. t = [acc EXCEPT !.total = total, !.size[k] = v, !.failed = bad]
  BY DEF TarWrote
<1>3. PICK size \in [1..n -> Int] : size = [acc.size EXCEPT ![k] = v]
  BY DEF TarRecord
<1>4. t = [size |-> size, total |-> total, failed |-> bad]
  BY <1>2, <1>3 DEF TarRecord
<1>5. t \in TarRecord(n) /\ t.total = total /\ t.size = size
  BY <1>4 DEF TarRecord
<1>6. QED
  BY <1>3, <1>5

LEMMA RefusedIs ==
  ASSUME NEW n \in Nat, NEW acc \in TarRecord(n)
  PROVE  TarRefused(acc) \in TarRecord(n) /\ TarRefused(acc).total = acc.total /\ TarRefused(acc).size = acc.size
BY DEF TarRecord, TarRefused

\* Of the members up to k the total was kept, and of those after it nothing is written.
Kept(a, n, acc, k) ==
  /\ acc \in TarRecord(n) /\ SumOf(acc.size) = acc.total
  /\ KeepsLimits(acc.total, a.compressed)
  /\ \A i \in 1..n : i > k => acc.size[i] = 0

LEMMA TarMemberKeeps ==
  ASSUME NEW a, NEW n \in Nat, IsArchive(a, n), NEW acc, NEW k \in 1..n, Kept(a, n, acc, k - 1)
  PROVE  Kept(a, n, TarMember(a, acc, k), k)
<1> PICK t : t = TarMember(a, acc, k)
  OBVIOUS
<1> PICK m : m = a.members[k]
  OBVIOUS
<1>1. m.size \in Int /\ IsMember(m) /\ acc \in TarRecord(n)
  BY DEF IsArchive, IsMember, Kept
<1>2. SumOf(acc.size) = acc.total /\ KeepsLimits(acc.total, a.compressed)
  BY DEF Kept
<1>3. \A i \in 1..n : i >= k => acc.size[i] = 0
  <2>1. \A i \in 1..n : i >= k => i > k - 1
    OBVIOUS
  <2>2. QED
    BY <2>1 DEF Kept
<1>4. acc.total \in Int /\ acc.size \in [1..n -> Int]
  BY <1>1 DEF TarRecord
<1>5. CASE t = acc \/ t = TarRefused(acc)
  <2>1. t \in TarRecord(n) /\ t.total = acc.total /\ t.size = acc.size
    BY <1>1, <1>5, RefusedIs
  <2>2. \A i \in 1..n : i > k => acc.size[i] = 0
    BY <1>3
  <2>3. QED
    BY <1>2, <2>1, <2>2 DEF Kept
<1>6. CASE WroteWithin(a, acc, k, t)
  <2> PICK sum \in Int : sum = acc.total + m.size
    BY <1>1, <1>4
  <2>1. t \in TarRecord(n) /\ t.total = sum /\ t.size = [acc.size EXCEPT ![k] = m.size]
    <3>1. t = TarWrote(acc, k, m)
      BY <1>6 DEF WroteWithin
    <3>2. QED
      BY <1>1, <3>1, WrittenIs
  <2>2. KeepsLimits(sum, a.compressed)
    BY <1>6, LimitsAreNat DEF KeepsLimits, WroteWithin
  <2>3. SumOf(t.size) = sum
    <3>1. t.size \in [1..n -> Int] /\ t.size[k] = m.size /\ \A i \in 1..n : i # k => t.size[i] = acc.size[i]
      BY <1>1, <1>4, <2>1
    <3>2. acc.size[k] = 0
      BY <1>3
    <3>3. SumOf(t.size) = SumOf(acc.size) + m.size
      <4> PICK p, q : p = acc.size /\ q = t.size
        OBVIOUS
      <4>1. Gains(p, q, k, n) /\ q[k] = m.size
        BY <1>4, <3>1, <3>2 DEF Gains
      <4>2. SumOf(q) = SumOf(p) + q[k]
        BY <4>1, SumGains
      <4>3. QED
        BY <4>1, <4>2
    <3>4. QED
      BY <1>2, <3>3
  <2>4. \A i \in 1..n : i > k => t.size[i] = 0
    <3>1. \A i \in 1..n : i > k => i # k /\ i >= k
      OBVIOUS
    <3>2. QED
      BY <1>3, <1>4, <2>1, <3>1
  <2>5. QED
    BY <2>1, <2>2, <2>3, <2>4 DEF Kept
<1>7. t = acc \/ t = TarRefused(acc) \/ WroteWithin(a, acc, k, t)
  BY TarMemberIs
<1>8. QED
  BY <1>5, <1>6, <1>7

TarStart(a) == [size |-> Nothing(a), total |-> 0, failed |-> FALSE]

LEMMA TarBegins ==
  ASSUME NEW a, NEW n \in Nat, IsArchive(a, n)
  PROVE  Kept(a, n, TarStart(a), 0)
<1> PICK acc : acc = TarStart(a)
  OBVIOUS
<1>1. acc.size = Nothing(a) /\ acc.total = 0 /\ acc \in TarRecord(n)
  <2>1. Nothing(a) \in [1..n -> Int]
    BY DEF Nothing, IsArchive
  <2>2. QED
    BY <2>1 DEF TarStart, TarRecord
<1>2. \A i \in 1..n : acc.size[i] = 0
  BY <1>1 DEF Nothing, IsArchive
<1>3. a.compressed \in Nat
  BY DEF IsArchive
<1>4. QED
  BY <1>1, <1>2, <1>3, NothingSumsToNone, NothingKeepsLimits DEF Kept

LEMMA TarMemberHolds ==
  ASSUME NEW n \in Nat, NEW a, IsArchive(a, n), NEW t \in TarRecord(n), NEW i \in 1..n
  PROVE  TarMember(a, t, i) \in TarRecord(n)
<1> PICK u : u = TarMember(a, t, i)
  OBVIOUS
<1> PICK m : m = a.members[i]
  OBVIOUS
<1>1. IsMember(m)
  BY DEF IsArchive
<1>2. CASE WroteWithin(a, t, i, u)
  <2>1. u = TarWrote(t, i, m)
    BY <1>2 DEF WroteWithin
  <2>2. /\ u \in TarRecord(n) /\ u.total = t.total + m.size
        /\ u.size = [t.size EXCEPT ![i] = m.size]
    BY <1>1, <2>1, WrittenIs
  <2>3. QED
    BY <2>2
<1>3. CASE u = t \/ u = TarRefused(t)
  BY <1>3, RefusedIs
<1>4. QED
  BY <1>2, <1>3, TarMemberIs

LEMMA TarSteps ==
  ASSUME NEW n \in Nat, NEW a, IsArchive(a, n), DOMAIN Numbers(a) = 1..n, \A i \in 1..n : Numbers(a)[i] = i
  PROVE  \E h : /\ h[0] = TarStart(a) /\ TarMembers(a) = h[n]
                /\ \A i \in 1..n : h[i] = TarMember(a, h[i - 1], Numbers(a)[i])
<1> DEFINE Eq(g) == g = [s \in SUBSET (1..n) |->
                           IF s = {} THEN TarStart(a) ELSE TarMember(a, g[s \ {Max(s)}], Numbers(a)[Max(s)])]
           iter == CHOOSE g : Eq(g)
           T == TarRecord(n)
           step == [p \in (1..n) \X T |-> TarMember(a, p[2], Numbers(a)[p[1]])]
<1>1. TarMembers(a) = iter[1..n]
  BY DEF TarMembers, TarStart, FoldLeft, MapThenFoldSet
<1>2. \E g : Eq(g)
  <2>1. step \in [(1..n) \X T -> T] /\ TarStart(a) \in T
    <3>1. ASSUME NEW i \in 1..n, NEW t \in T PROVE TarMember(a, t, Numbers(a)[i]) \in T
      <4>1. TarMember(a, t, i) \in T
        BY TarMemberHolds
      <4> HIDE DEF T
      <4>2. Numbers(a)[i] = i
        OBVIOUS
      <4>3. QED
        BY <4>1, <4>2
    <3>2. TarStart(a) \in T
      BY TarBegins DEF Kept
    <3> HIDE DEF T
    <3>3. QED
      BY <3>1, <3>2
  <2>2. \A i \in 1..n, t \in T : step[<<i, t>>] = TarMember(a, t, Numbers(a)[i])
    OBVIOUS
  <2> HIDE DEF step, T
  <2>3. PICK g \in [SUBSET (1..n) -> T] : Folds(g, n, TarStart(a), step)
    BY <2>1, FoldAlwaysExists DEF FoldExists
  <2>4. ASSUME NEW s \in SUBSET (1..n)
        PROVE  g[s] = IF s = {} THEN TarStart(a) ELSE TarMember(a, g[s \ {Max(s)}], Numbers(a)[Max(s)])
    <3>1. CASE s # {}
      <4>1. Max(s) \in 1..n /\ g[s \ {Max(s)}] \in T
        BY <3>1, MaxInside
      <4>2. QED
        BY <2>2, <2>3, <3>1, <4>1 DEF Folds
    <3>2. QED
      BY <2>3, <3>1 DEF Folds
  <2>5. Eq(g)
    BY <2>3, <2>4
  <2>6. QED
    BY <2>5
<1>3. Eq(iter)
  <2> HIDE DEF Eq
  <2>1. QED
    BY <1>2
<1> HIDE DEF iter
<1> DEFINE h == [i \in 0..n |-> iter[1..i]]
<1>4. h[0] = TarStart(a) /\ h[n] = iter[1..n]
  <2>1. iter[1..0] = TarStart(a)
    <3>1. \A s \in SUBSET (1..n) : s = {} => iter[s] = TarStart(a)
      BY <1>3
    <3> HIDE DEF Eq
    <3>2. 1..0 \in SUBSET (1..n) /\ 1..0 = {}
      OBVIOUS
    <3>3. QED
      BY <3>1, <3>2
  <2> HIDE DEF Eq
  <2>2. QED
    BY <2>1
<1>5. ASSUME NEW i \in 1..n PROVE h[i] = TarMember(a, h[i - 1], Numbers(a)[i])
  <2>1. \A s \in SUBSET (1..n) :
          iter[s] = IF s = {} THEN TarStart(a) ELSE TarMember(a, iter[s \ {Max(s)}], Numbers(a)[Max(s)])
    BY <1>3
  <2>2. iter[1..i] = TarMember(a, iter[1..(i - 1)], Numbers(a)[i])
    BY <2>1, PrefixSteps
  <2>3. i \in 0..n /\ i - 1 \in 0..n
    OBVIOUS
  <2>4. QED
    BY <2>2, <2>3
<1> HIDE DEF h
<1>6. QED
  BY <1>1, <1>4, <1>5

LEMMA TarKeepsLimits ==
  ASSUME NEW a, NEW n \in Nat, IsArchive(a, n), NEW x, x = ExtractTar(a)
  PROVE  KeepsLimits(SumOf(x.size), a.compressed)
<1>1. DOMAIN Numbers(a) = 1..n /\ (\A i \in 1..n : Numbers(a)[i] = i) /\ a.compressed \in Nat
  BY DEF IsArchive, Numbers
<1>3. PICK h : /\ h[0] = TarStart(a)
               /\ TarMembers(a) = h[n]
               /\ \A i \in 1..n : h[i] = TarMember(a, h[i - 1], Numbers(a)[i])
  BY <1>1, TarSteps
<1> DEFINE good == {k \in 0..n : Kept(a, n, h[k], k)}
<1>4. 0 \in good
  <2>1. Kept(a, n, h[0], 0)
    BY <1>3, TarBegins
  <2>2. QED
    BY <2>1
<1>5. ASSUME NEW k \in 1..n, k - 1 \in good PROVE k \in good
  <2>1. Kept(a, n, h[k - 1], k - 1) /\ h[k] = TarMember(a, h[k - 1], k)
    BY <1>1, <1>3, <1>5
  <2>2. Kept(a, n, h[k], k)
    BY <2>1, TarMemberKeeps
  <2>3. QED
    BY <2>2
<1> HIDE DEF good
<1>6. \A k \in 0..n : k \in good
  BY <1>4, <1>5, CountUp
<1>7. n \in good
  BY <1>6
<1>8. Kept(a, n, TarMembers(a), n)
  BY <1>3, <1>7 DEF good
<1>9. CASE a.compressed = 0
  <2>1. x = Extraction(FALSE, Nothing(a))
    BY <1>9 DEF ExtractTar
  <2>2. x.size = Nothing(a)
    BY <2>1 DEF Extraction
  <2>3. QED
    BY <1>1, <2>2, NothingSumsToNone, NothingKeepsLimits
<1>10. CASE a.compressed # 0
  <2>1. x = Extraction(~TarMembers(a).failed, TarMembers(a).size)
    BY <1>10 DEF ExtractTar
  <2>2. x.size = TarMembers(a).size
    BY <2>1 DEF Extraction
  <2>3. QED
    BY <1>8, <2>2 DEF Kept
<1>11. QED
  BY <1>9, <1>10

InBudget(n) ==
  /\ n <= MaxTotal
  /\ \E k \in DOMAIN Archives : ~RatioExceeded(n, Archives[k].compressed)

\* Whatever archive is uploaded, what its extraction leaves is within the limits.
LEMMA ExtractedFits ==
  ASSUME NEW k \in DOMAIN Archives
  PROVE  InBudget(OnDisk(Extract(Archives[k])))
<1> PICK a : a = Archives[k]
  OBVIOUS
<1> PICK x : x = Extract(a)
  OBVIOUS
<1> DEFINE V == ToSet(a.members)
<1>1. a.members \in Seq(V) /\ a.compressed \in Nat
  BY UploadsAssumption
<1>2. \A m \in V : m.size \in Int /\ m.corrupt \in BOOLEAN
  BY UploadsAssumption
<1> HIDE DEF V
<1> PICK n \in Nat : n = Len(a.members)
  BY <1>1, LenProperties
<1>3. DOMAIN a.members = 1..n /\ \A i \in 1..n : a.members[i] \in V
  BY <1>1, LenProperties, ElementOfSeq
<1>4. IsArchive(a, n)
  BY <1>1, <1>2, <1>3 DEF IsArchive, IsMember
<1>5. OnDisk(x) = SumOf(x.size)
  BY DEF OnDisk, SumOf
<1>6. KeepsLimits(SumOf(x.size), a.compressed)
  <2>1. CASE x = Extraction(FALSE, Nothing(a))
    <3>1. x.size = Nothing(a)
      BY <2>1 DEF Extraction
    <3>2. QED
      BY <1>1, <1>4, <3>1, NothingSumsToNone, NothingKeepsLimits
  <2>2. CASE x = ExtractZip(a)
    BY <1>4, <2>2, ZipKeepsLimits
  <2>3. CASE x = ExtractTar(a)
    BY <1>4, <2>3, TarKeepsLimits
  <2>4. QED
    BY <2>1, <2>2, <2>3, Zenon DEF Extract
<1>7. QED
  BY <1>5, <1>6 DEF KeepsLimits, InBudget

LEMMA NothingIsInBudget == InBudget(0)
<1>1. PICK k \in DOMAIN Archives : Archives[k].compressed \in Nat
  BY UploadsAssumption
<1>2. KeepsLimits(0, Archives[k].compressed)
  BY <1>1, NothingKeepsLimits
<1>3. QED
  BY <1>2 DEF KeepsLimits, InBudget

-----------------------------------------------------------------------------
(* Scan jobs.  An entry of the cache, in memory or on disk, holds what its     *)
(* own detectors make of its own bytes, whatever is in force now; so a thread  *)
(* that keeps the fingerprints it started with takes only what is current.     *)

GoodEntry(e) == e.whole => e.findings = Analyse(e.key.hash, e.key.environment).findings

GoodMemory(memory) == \A e \in memory : e.whole /\ GoodEntry(e)

GoodDisk(d) ==
  /\ DOMAIN d = {"manifest", "entries"}
  /\ DOMAIN d.manifest = {"state", "fingerprints", "entries", "writers", "mixed"}
  /\ d.manifest.state \in {"absent", "valid", "broken"}
  /\ \A e \in d.entries : GoodEntry(e)
  /\ GoodMemory(d.manifest.entries)

SeenFile(r, fps) ==
  /\ DOMAIN r = {"state", "bytes", "findings", "error"}
  /\ r.state \in {"put", "done", "cached"}
  /\ r.bytes \in DOMAIN Contents
  /\ r.findings = Analyse(r.bytes, fps).findings
  /\ r.state = "cached" => Contents[r.bytes].readable /\ r.error = "none"
  /\ r.state # "cached" => r.error = Analyse(r.bytes, fps).error

\* A file that is not handed on, or not yet looked at.
Skipped == [Unread EXCEPT !.state = "skipped"]

AllDone(t) == \A f \in Files : t.files[f].state \in {"done", "cached", "skipped"}

GoodReport(t) ==
  \/ t.report.status = "FAILED" /\ t.report.findings = {}
  \/ t.upload.ok /\ AllDone(t) /\ t.report = RunJob("static", ScanResult(t.files))

GoodThread(t) ==
  /\ DOMAIN t = {"pc", "upload", "fingerprints", "memory", "files", "report"}
  /\ t.pc \in {"none", "extract", "start", "scan", "save", "ended"}
  /\ DOMAIN t.files = Files
  /\ \A f \in Files : t.files[f] \in {Unread, Skipped} \/ SeenFile(t.files[f], t.fingerprints)
  /\ GoodMemory(t.memory)
  /\ InBudget(t.upload.bytes)
  /\ t.pc \in {"none", "extract", "start"} => \A f \in Files : t.files[f] = Unread
  /\ t.pc \in {"start", "scan", "save"} => t.upload.ok
  /\ t.pc = "save" => AllDone(t)
  /\ t.pc = "ended" => GoodReport(t)

Threads == DOMAIN thread = Jobs /\ \A j \in Jobs : GoodThread(thread[j])

Waiting == {j \in Jobs : caller[j] = "waiting"}

Tenanted == {TenantOf[j] : j \in Jobs}

\* n callers that wait fit a count of them.
CountFits(n, count) == count \in 0 .. MaxSystem /\ n <= count

\* Every caller that waits is counted; one who asked twice with an id may be counted still
\* when both are done.
Slots ==
  /\ DOMAIN caller = Jobs
  /\ \A j \in Jobs : caller[j] \in {"none", "waiting", "refused", "timed out", "returned"}
  /\ DOMAIN governor.active = Tenanted
  /\ \A t \in Tenanted : governor.active[t] \subseteq {IdOf[j] : j \in Jobs}
  /\ CountFits(Cardinality(Waiting), governor.count)

Texts == content \in [Files -> DOMAIN Contents]

JobInv == Texts /\ GoodDisk(disk) /\ Threads /\ Slots

-----------------------------------------------------------------------------
(* The cache.                                                                  *)

LEMMA ReplacedIsGood ==
  ASSUME NEW entries, NEW entry, GoodEntry(entry), \A e \in entries : GoodEntry(e)
  PROVE  \A e \in Replace(entries, entry) : GoodEntry(e)
BY DEF Replace

LEMMA PutIsGood ==
  ASSUME NEW memory, GoodMemory(memory), NEW f, NEW bytes, NEW fps
  PROVE  GoodMemory(PutMemory(memory, Key(f, bytes, fps), Analyse(bytes, fps).findings))
<1> PICK found : found = Analyse(bytes, fps).findings
  OBVIOUS
<1> PICK key : key = Key(f, bytes, fps)
  OBVIOUS
<1>1. key.hash = bytes /\ key.environment = fps
  BY DEF Key
<1> PICK new : new = [key |-> key, findings |-> found, whole |-> TRUE]
  OBVIOUS
<1>2. new.whole /\ GoodEntry(new)
  BY <1>1 DEF GoodEntry
<1>3. PutMemory(memory, key, found) = Replace(memory, new)
  BY DEF PutMemory
<1>4. QED
  BY <1>2, <1>3 DEF GoodMemory, Replace

LEMMA OpenedIsGood ==
  ASSUME NEW d, GoodDisk(d), NEW key
  PROVE  GoodDisk(PutOpen(d, key))
<1> PICK new : new = [key |-> key, findings |-> {}, whole |-> FALSE]
  OBVIOUS
<1>1. GoodEntry(new)
  BY DEF GoodEntry
<1>2. PutOpen(d, key) = [d EXCEPT !.entries = Replace(@, new)]
  BY DEF PutOpen
<1>3. \A e \in Replace(d.entries, new) : GoodEntry(e)
  BY <1>1, ReplacedIsGood DEF GoodDisk
<1>4. QED
  BY <1>2, <1>3 DEF GoodDisk

LEMMA WrittenIsGood ==
  ASSUME NEW d, GoodDisk(d), NEW f, NEW bytes, NEW fps
  PROVE  GoodDisk(PutWrite(d, Key(f, bytes, fps), Analyse(bytes, fps).findings))
<1> PICK found : found = Analyse(bytes, fps).findings
  OBVIOUS
<1> PICK key : key = Key(f, bytes, fps)
  OBVIOUS
<1>1. key.hash = bytes /\ key.environment = fps
  BY DEF Key
<1> PICK new : new = [key |-> key, findings |-> found, whole |-> TRUE]
  OBVIOUS
<1>2. GoodEntry(new)
  BY <1>1 DEF GoodEntry
<1>3. PutWrite(d, key, found) = d \/ PutWrite(d, key, found) = [d EXCEPT !.entries = Replace(@, new)]
  BY DEF PutWrite
<1>4. \A e \in Replace(d.entries, new) : GoodEntry(e)
  BY <1>2, ReplacedIsGood DEF GoodDisk
<1>5. QED
  BY <1>3, <1>4 DEF GoodDisk

LEMMA MadeIsGood ==
  ASSUME NEW fps, NEW entries, GoodMemory(entries)
  PROVE  LET m == ValidManifest(fps, entries) IN
         /\ DOMAIN m = {"state", "fingerprints", "entries", "writers", "mixed"}
         /\ m.state = "valid" /\ m.entries = entries
BY DEF ValidManifest

LEMMA InitializedIsGood ==
  ASSUME NEW d, GoodDisk(d), NEW fps
  PROVE  GoodDisk(Initialize(d, fps).disk) /\ GoodMemory(Initialize(d, fps).memory)
<1> PICK m : m = ValidManifest(fps, {})
  OBVIOUS
<1>1. GoodMemory({})
  BY DEF GoodMemory
<1>2. DOMAIN m = {"state", "fingerprints", "entries", "writers", "mixed"} /\ m.state = "valid" /\ m.entries = {}
  BY <1>1, MadeIsGood
<1> PICK kept : kept = [d EXCEPT !.manifest = m]
  OBVIOUS
<1> PICK cleared : cleared = [manifest |-> m, entries |-> {}]
  OBVIOUS
<1>3. GoodDisk(kept) /\ GoodDisk(cleared)
  BY <1>1, <1>2 DEF GoodDisk
<1>4. \/ Initialize(d, fps).memory = {} /\ Initialize(d, fps).disk = kept
      \/ Initialize(d, fps).memory = {} /\ Initialize(d, fps).disk = cleared
      \/ Initialize(d, fps).memory = d.manifest.entries /\ Initialize(d, fps).disk = d
  BY DEF Initialize, Clear
<1>5. QED
  BY <1>1, <1>3, <1>4 DEF GoodDisk

LEMMA SaveOpenedIsGood ==
  ASSUME NEW d, GoodDisk(d), NEW j
  PROVE  GoodDisk(SaveOpen(d, j))
BY DEF GoodDisk, SaveOpen

LEMMA SavedIsGood ==
  ASSUME NEW d, GoodDisk(d), NEW j, NEW fps, NEW memory, GoodMemory(memory), NEW x \in SaveWrite(d, j, fps, memory)
  PROVE  GoodDisk(x)
<1> PICK rest : rest = d.manifest.writers \ {j}
  OBVIOUS
<1> PICK m : m = ValidManifest(fps, memory)
  OBVIOUS
<1> PICK n : n = [m EXCEPT !.writers = rest, !.mixed = rest # {}]
  OBVIOUS
<1>1. DOMAIN n = {"state", "fingerprints", "entries", "writers", "mixed"} /\ n.state = "valid" /\ n.entries = memory
  BY MadeIsGood
<1>2. x = d \/ x = [d EXCEPT !.manifest.writers = rest] \/ x = [d EXCEPT !.manifest = n]
  BY DEF SaveWrite
<1>3. GoodDisk([d EXCEPT !.manifest.writers = rest])
  BY DEF GoodDisk
<1>4. GoodDisk([d EXCEPT !.manifest = n])
  BY <1>1 DEF GoodDisk
<1>5. QED
  BY <1>2, <1>3, <1>4

LEMMA CrashedIsGood ==
  ASSUME NEW d, GoodDisk(d)
  PROVE  GoodDisk(Crash(d))
BY DEF GoodDisk, Crash

\* What is found in the cache is what the detectors make of the bytes.
LEMMA HitIsGood ==
  ASSUME NEW d, GoodDisk(d), NEW memory, GoodMemory(memory), NEW f, NEW bytes, NEW fps,
         NEW e \in Lookup(memory, d, Key(f, bytes, fps))
  PROVE  e.whole /\ GoodEntry(e) /\ e.findings = Analyse(bytes, fps).findings
<1> PICK key : key = Key(f, bytes, fps)
  OBVIOUS
<1>1. key.hash = bytes /\ key.environment = fps
  BY DEF Key
<1>2. e.key = key /\ (e \in memory \/ (e \in d.entries /\ e.whole))
  BY DEF Lookup
<1>3. e.whole /\ GoodEntry(e)
  BY <1>2 DEF GoodDisk, GoodMemory
<1>4. QED
  BY <1>1, <1>2, <1>3 DEF GoodEntry

-----------------------------------------------------------------------------
(* One step of a job.                                                          *)

\* Only thread j moves, and on to a good state.
Moves(j, t) == GoodThread(t) /\ thread' = [thread EXCEPT ![j] = t]

LEMMA MovingKeeps ==
  ASSUME Threads, NEW j \in Jobs, NEW t, Moves(j, t)
  PROVE  Threads'
BY DEF Threads, Moves

LEMMA NoThreadIsGood == GoodThread(NoThread)
<1>1. DOMAIN NoThread.files = Files /\ \A f \in Files : NoThread.files[f] = Unread
  BY DEF NoThread
<1>2. /\ DOMAIN NoThread = {"pc", "upload", "fingerprints", "memory", "files", "report"}
      /\ NoThread.pc = "none" /\ NoThread.memory = {} /\ NoThread.upload.bytes = 0
  BY DEF NoThread
<1>3. InBudget(NoThread.upload.bytes)
  BY <1>2, NothingIsInBudget
<1>4. QED
  BY <1>1, <1>2, <1>3 DEF GoodThread, GoodMemory

LEMMA CrashedReport ==
  ASSUME NEW result, result.shape \in {"typed", "dict"}, result.findings = {}, result.errors = "fatal"
  PROVE  LET r == RunJob("static", result) IN r.status = "FAILED" /\ r.findings = {}
<1> PICK r : r = RunJob("static", result)
  OBVIOUS
<1>1. CASE result.shape = "typed"
  <2>1. r = EngineReport("static", "FAILED", {}, "fatal")
    BY <1>1 DEF RunJob
  <2>2. QED
    BY <2>1 DEF EngineReport
<1>2. CASE result.shape = "dict"
  <2>1. Status(result.findings, result.errors, result.scanned, result.failed) = "FAILED"
    BY DEF Status
  <2>2. r = EngineReport("static", "FAILED", {}, "fatal")
    BY <1>2, <2>1 DEF RunJob
  <2>3. QED
    BY <2>2 DEF EngineReport
<1>3. QED
  BY <1>1, <1>2

LEMMA EndIs ==
  ASSUME NEW t, GoodThread(t), NEW result
  PROVE  LET e == End(t, result) IN
         /\ DOMAIN e = DOMAIN t /\ e.pc = "ended" /\ e.memory = {} /\ e.files = t.files
         /\ e.fingerprints = t.fingerprints /\ e.upload = t.upload /\ e.report = RunJob("static", result)
BY DEF End, GoodThread

LEMMA EndsWell ==
  ASSUME NEW t, GoodThread(t), NEW result,
         \/ result.shape \in {"typed", "dict"} /\ result.findings = {} /\ result.errors = "fatal"
         \/ t.pc = "save" /\ result = ScanResult(t.files)
  PROVE  GoodThread(End(t, result))
<1> PICK e : e = End(t, result)
  OBVIOUS
<1>1. /\ DOMAIN e = DOMAIN t /\ e.pc = "ended" /\ e.memory = {} /\ e.files = t.files
      /\ e.fingerprints = t.fingerprints /\ e.upload = t.upload /\ e.report = RunJob("static", result)
  BY EndIs
<1>2. GoodReport(e)
  <2>1. CASE result.shape \in {"typed", "dict"} /\ result.findings = {} /\ result.errors = "fatal"
    BY <1>1, <2>1, CrashedReport DEF GoodReport
  <2>2. CASE t.pc = "save" /\ result = ScanResult(t.files)
    BY <1>1, <2>2 DEF GoodReport, GoodThread, AllDone
  <2>3. QED
    BY <2>1, <2>2
<1>3. QED
  BY <1>1, <1>2 DEF GoodThread, GoodMemory

\* File f of a thread that scans is seen.
Seen(t, f, r, memory) == [t EXCEPT !.files = [t.files EXCEPT ![f] = r], !.memory = memory]

LEMMA SeenIsGood ==
  ASSUME NEW t, GoodThread(t), t.pc = "scan", NEW f \in Files, NEW r, SeenFile(r, t.fingerprints),
         NEW memory, GoodMemory(memory), NEW u,
         u = Seen(t, f, r, memory)
  PROVE  GoodThread(u)
<1>1. /\ DOMAIN u = DOMAIN t /\ u.pc = "scan" /\ u.upload = t.upload /\ u.fingerprints = t.fingerprints
      /\ u.memory = memory /\ DOMAIN u.files = Files
      /\ u.files[f] = r /\ \A g \in Files : g # f => u.files[g] = t.files[g]
  BY DEF GoodThread, Seen
<1>2. QED
  BY <1>1 DEF GoodThread

LEMMA ExtractKeeps ==
  ASSUME Threads, NEW j \in Jobs, ExtractUpload(j)
  PROVE  Threads'
<1> PICK t : t = thread[j]
  OBVIOUS
<1>1. PICK k \in DOMAIN Archives :
        LET x == Extract(Archives[k])
            u == [t EXCEPT !.upload = [ok |-> x.ok, bytes |-> OnDisk(x)]]
        IN thread' = [thread EXCEPT ![j] = IF x.ok THEN [u EXCEPT !.pc = "start"] ELSE End(u, Crashed)]
  BY DEF ExtractUpload
<1> PICK x : x = Extract(Archives[k])
  OBVIOUS
<1> PICK load : load = [ok |-> x.ok, bytes |-> OnDisk(x)]
  OBVIOUS
<1> PICK u : u = [t EXCEPT !.upload = load]
  OBVIOUS
<1>2. GoodThread(t) /\ t.pc = "extract"
  BY DEF Threads, ExtractUpload
<1>3. GoodThread(u) /\ u.upload.ok = x.ok
  <2>1. InBudget(u.upload.bytes)
    <3>1. u.upload = load
      BY <1>2 DEF GoodThread
    <3>2. QED
      BY <3>1, ExtractedFits
  <2>2. QED
    BY <1>2, <2>1 DEF GoodThread
<1>4. CASE x.ok
  <2> PICK v : v = [u EXCEPT !.pc = "start"]
    OBVIOUS
  <2>1. GoodThread(v)
    BY <1>2, <1>3, <1>4 DEF GoodThread
  <2>2. Moves(j, v)
    BY <1>1, <1>4, <2>1 DEF Moves
  <2>3. QED
    BY <2>2, MovingKeeps
<1>5. CASE ~x.ok
  <2>1. GoodThread(End(u, Crashed))
    <3>1. Crashed.shape = "typed" /\ Crashed.findings = {} /\ Crashed.errors = "fatal"
      BY DEF Crashed
    <3>2. QED
      BY <1>3, <3>1, EndsWell
  <2>2. Moves(j, End(u, Crashed))
    BY <1>1, <1>5, <2>1 DEF Moves
  <2>3. QED
    BY <2>2, MovingKeeps
<1>6. QED
  BY <1>4, <1>5

LEMMA StartKeeps ==
  ASSUME Threads, GoodDisk(disk), NEW j \in Jobs, Start(j)
  PROVE  Threads' /\ GoodDisk(disk)'
<1> PICK fps : fps = Fingerprints(world, ConfigOf[j])
  OBVIOUS
<1> PICK opened : opened = Initialize(disk, fps)
  OBVIOUS
<1> PICK t : t = thread[j]
  OBVIOUS
<1> PICK u : u = [t EXCEPT !.pc = "scan", !.fingerprints = fps, !.memory = opened.memory]
  OBVIOUS
<1> DEFINE handed(left) == [u EXCEPT !.files = LeaveOut(u.files, left)]
<1> PICK gone : gone = [Crashed EXCEPT !.shape = "dict", !.failed = 0]
  OBVIOUS
<1>1. GoodThread(t) /\ t.pc = "start" /\ GoodDisk(opened.disk) /\ GoodMemory(opened.memory)
  BY InitializedIsGood DEF Threads, Start
<1>2. /\ disk' = opened.disk
      /\ \/ \E left \in LeftOut : thread' = [thread EXCEPT ![j] = handed(left)]
         \/ thread' = [thread EXCEPT ![j] = End(u, gone)]
  BY DEF Start
<1>3. GoodThread(u)
  BY <1>1 DEF GoodThread
<1>4. GoodThread(End(u, gone))
  <2>1. gone.shape = "dict" /\ gone.findings = {} /\ gone.errors = "fatal"
    BY DEF Crashed
  <2>2. QED
    BY <1>3, <2>1, EndsWell
<1>5. ASSUME NEW left
      PROVE  GoodThread(handed(left))
  <2> PICK files : files = LeaveOut(u.files, left)
    OBVIOUS
  <2> PICK v : v = [u EXCEPT !.files = files]
    OBVIOUS
  <2>1. DOMAIN files = Files /\ \A f \in Files : files[f] \in {Unread, Skipped}
    <3>1. \A f \in Files : u.files[f] = Unread
      BY <1>1 DEF GoodThread
    <3>2. QED
      BY <3>1 DEF LeaveOut, Skipped
  <2>2. u.pc = "scan" /\ u.upload.ok
    BY <1>1 DEF GoodThread
  <2>3. /\ DOMAIN v = DOMAIN u /\ v.pc = u.pc /\ v.upload = u.upload /\ v.fingerprints = u.fingerprints
        /\ v.memory = u.memory /\ v.files = files
    BY <1>3 DEF GoodThread
  <2>4. GoodThread(v)
    BY <1>3, <2>1, <2>2, <2>3 DEF GoodThread
  <2>5. QED
    BY <2>4
<1> HIDE DEF handed
<1>6. Threads'
  BY <1>2, <1>4, <1>5, MovingKeeps DEF Moves
<1>7. GoodDisk(disk')
  BY <1>1, <1>2
<1>8. QED
  BY <1>6, <1>7 DEF GoodDisk

LEMMA ScanKeeps ==
  ASSUME Texts, Threads, GoodDisk(disk), NEW j \in Jobs, NEW f \in Files, ScanFile(j, f)
  PROVE  Threads' /\ GoodDisk(disk')
<1> PICK t : t = thread[j]
  OBVIOUS
<1> PICK bytes : bytes = content[f]
  OBVIOUS
<1> PICK fps : fps = t.fingerprints
  OBVIOUS
<1> PICK key : key = Key(f, bytes, fps)
  OBVIOUS
<1> PICK hit : hit = Lookup(t.memory, disk, key)
  OBVIOUS
<1> PICK new : new = Analyse(bytes, fps)
  OBVIOUS
<1> DEFINE result(state, findings, error) ==
             [state |-> state, bytes |-> bytes, findings |-> findings, error |-> error]
<1>1. GoodThread(t) /\ t.pc = "scan" /\ bytes \in DOMAIN Contents /\ GoodMemory(t.memory)
  BY DEF Threads, ScanFile, Texts, GoodThread
<1>2. /\ \A state \in {"put", "done"} : SeenFile(result(state, new.findings, new.error), fps)
      /\ Contents[bytes].readable => SeenFile(result("cached", new.findings, "none"), fps)
  BY <1>1 DEF SeenFile
<1> HIDE DEF result
<1>3. \/ /\ ~Contents[bytes].readable /\ disk' = disk
         /\ thread' = [thread EXCEPT ![j].files[f] = result("done", {}, "failure")]
      \/ /\ Contents[bytes].readable /\ hit # {} /\ disk' = disk
         /\ thread' = [thread EXCEPT ![j].files[f] = result("cached", (CHOOSE e \in hit : TRUE).findings, "none"),
                                     ![j].memory = @ \union hit]
      \/ /\ Contents[bytes].readable /\ disk' = PutOpen(disk, key)
         /\ thread' = [thread EXCEPT ![j].files[f] = result("put", new.findings, new.error),
                                     ![j].memory = PutMemory(@, key, new.findings)]
  BY DEF ScanFile, result
<1>4. ASSUME NEW r, SeenFile(r, fps), NEW memory, GoodMemory(memory),
             thread'[j] = Seen(t, f, r, memory),
             DOMAIN thread' = DOMAIN thread, \A i \in Jobs : i # j => thread'[i] = thread[i]
      PROVE  Threads'
  <2> PICK u : u = thread'[j]
    OBVIOUS
  <2>1. GoodThread(u)
    BY <1>1, <1>4, SeenIsGood, Zenon
  <2>2. QED
    BY <1>4, <2>1 DEF Threads
<1>5. CASE /\ ~Contents[bytes].readable /\ disk' = disk
           /\ thread' = [thread EXCEPT ![j].files[f] = result("done", {}, "failure")]
  <2> PICK r : r = result("done", {}, "failure")
    OBVIOUS
  <2>1. new.findings = {} /\ new.error = "failure"
    BY <1>5 DEF Analyse, ScanSingleFile
  <2>2. SeenFile(r, fps)
    BY <1>2, <2>1
  <2>3. thread'[j] = Seen(t, f, r, t.memory)
    BY <1>1, <1>5 DEF Threads, GoodThread, Seen
  <2>4. DOMAIN thread' = DOMAIN thread /\ \A i \in Jobs : i # j => thread'[i] = thread[i]
    BY <1>5 DEF Threads
  <2>5. QED
    BY <1>1, <1>4, <1>5, <2>2, <2>3, <2>4
<1>6. CASE /\ Contents[bytes].readable /\ hit # {} /\ disk' = disk
           /\ thread' = [thread EXCEPT ![j].files[f] = result("cached", (CHOOSE e \in hit : TRUE).findings, "none"),
                                       ![j].memory = @ \union hit]
  <2> PICK e : e = CHOOSE x \in hit : TRUE
    OBVIOUS
  <2> PICK r : r = result("cached", e.findings, "none")
    OBVIOUS
  <2>1. e \in hit
    BY <1>6
  <2>2. \A x \in hit : x.whole /\ GoodEntry(x) /\ x.findings = new.findings
    BY <1>1, HitIsGood
  <2>3. SeenFile(r, fps)
    BY <1>2, <1>6, <2>1, <2>2
  <2>4. GoodMemory(t.memory \union hit)
    BY <1>1, <2>2 DEF GoodMemory
  <2>5. thread'[j] = Seen(t, f, r, t.memory \union hit)
    BY <1>1, <1>6 DEF Threads, GoodThread, Seen
  <2>6. DOMAIN thread' = DOMAIN thread /\ \A i \in Jobs : i # j => thread'[i] = thread[i]
    BY <1>6 DEF Threads
  <2>7. QED
    BY <1>4, <1>6, <2>3, <2>4, <2>5, <2>6
<1>7. CASE /\ Contents[bytes].readable /\ disk' = PutOpen(disk, key)
           /\ thread' = [thread EXCEPT ![j].files[f] = result("put", new.findings, new.error),
                                       ![j].memory = PutMemory(@, key, new.findings)]
  <2> PICK r : r = result("put", new.findings, new.error)
    OBVIOUS
  <2> PICK memory : memory = PutMemory(t.memory, key, new.findings)
    OBVIOUS
  <2>1. SeenFile(r, fps)
    BY <1>2, <1>7
  <2>2. GoodMemory(memory)
    BY <1>1, PutIsGood
  <2>3. thread'[j] = Seen(t, f, r, memory)
    BY <1>1, <1>7 DEF Threads, GoodThread, Seen
  <2>4. DOMAIN thread' = DOMAIN thread /\ \A i \in Jobs : i # j => thread'[i] = thread[i]
    BY <1>7 DEF Threads
  <2>5. GoodDisk(disk')
    BY <1>7, OpenedIsGood
  <2>6. QED
    BY <1>4, <2>1, <2>2, <2>3, <2>4, <2>5
<1>8. QED
  BY <1>3, <1>5, <1>6, <1>7

LEMMA WriteKeeps ==
  ASSUME Threads, GoodDisk(disk), NEW j \in Jobs, NEW f \in Files, WriteEntry(j, f)
  PROVE  Threads' /\ GoodDisk(disk')
<1> PICK t : t = thread[j]
  OBVIOUS
<1> PICK old : old = t.files[f]
  OBVIOUS
<1> PICK r : r = [old EXCEPT !.state = "done"]
  OBVIOUS
<1>1. GoodThread(t) /\ t.pc = "scan" /\ old.state = "put"
  BY DEF Threads, WriteEntry
<1>2. SeenFile(old, t.fingerprints)
  <2>1. Unread.state = "todo" /\ Skipped.state = "skipped"
    BY DEF Unread, Skipped
  <2>2. old \notin {Unread, Skipped}
    BY <1>1, <2>1
  <2>3. QED
    BY <1>1, <2>2 DEF GoodThread
<1>3. SeenFile(r, t.fingerprints)
  BY <1>1, <1>2 DEF SeenFile
<1>4. thread' = [thread EXCEPT ![j].files[f].state = "done"]
  BY DEF WriteEntry
<1>5. thread'[j] = Seen(t, f, r, t.memory)
  BY <1>1, <1>4 DEF Threads, GoodThread, Seen
<1>6. GoodThread(thread'[j])
  <2>1. GoodMemory(t.memory)
    BY <1>1 DEF GoodThread
  <2> PICK u : u = thread'[j]
    OBVIOUS
  <2>2. GoodThread(u)
    BY <1>1, <1>3, <1>5, <2>1, SeenIsGood, Zenon
  <2>3. QED
    BY <2>2
<1>7. Threads'
  BY <1>4, <1>6 DEF Threads
<1>8. disk' = PutWrite(disk, Key(f, old.bytes, t.fingerprints), Analyse(old.bytes, t.fingerprints).findings)
  BY <1>2 DEF WriteEntry, SeenFile
<1>9. GoodDisk(disk')
  BY <1>8, WrittenIsGood
<1>10. QED
  BY <1>7, <1>9

LEMMA OpenManifestKeeps ==
  ASSUME Threads, GoodDisk(disk), NEW j \in Jobs, OpenManifest(j)
  PROVE  Threads' /\ GoodDisk(disk')
<1> PICK t : t = thread[j]
  OBVIOUS
<1> PICK u : u = [t EXCEPT !.pc = "save"]
  OBVIOUS
<1>1. GoodThread(t) /\ t.pc = "scan" /\ AllDone(t)
  BY DEF Threads, OpenManifest, AllDone
<1>2. GoodThread(u)
  BY <1>1 DEF GoodThread, AllDone
<1>3. thread' = [thread EXCEPT ![j] = u]
  BY <1>1 DEF OpenManifest, Threads, GoodThread
<1>4. Threads'
  BY <1>2, <1>3, MovingKeeps DEF Moves
<1>5. GoodDisk(disk')
  BY SaveOpenedIsGood DEF OpenManifest
<1>6. QED
  BY <1>4, <1>5

LEMMA ReplaceManifestKeeps ==
  ASSUME Threads, GoodDisk(disk), NEW j \in Jobs, ReplaceManifest(j)
  PROVE  Threads' /\ GoodDisk(disk')
<1> PICK t : t = thread[j]
  OBVIOUS
<1>1. GoodThread(t) /\ t.pc = "save" /\ GoodMemory(t.memory)
  BY DEF Threads, ReplaceManifest, GoodThread
<1>2. disk' \in SaveWrite(disk, j, t.fingerprints, t.memory) /\ thread' = [thread EXCEPT ![j] = End(t, ScanResult(t.files))]
  BY DEF ReplaceManifest
<1>3. GoodDisk(disk')
  BY <1>1, <1>2, SavedIsGood
<1>4. GoodThread(End(t, ScanResult(t.files)))
  BY <1>1, EndsWell
<1>5. Threads'
  BY <1>2, <1>4, MovingKeeps DEF Moves
<1>6. QED
  BY <1>3, <1>5

-----------------------------------------------------------------------------
(* The governor.                                                               *)

LEMMA WaitingIsFinite == IsFiniteSet(Waiting) /\ Cardinality(Waiting) \in Nat
<1>1. IsFiniteSet(Waiting)
  BY JobsAssumption, FS_Subset DEF Waiting
<1>2. QED
  BY <1>1, FS_CardinalityType

LEMMA LimitIsNat == MaxSystem \in Nat
BY JobsAssumption, Zenon

LEMMA FitsIsNat ==
  ASSUME NEW n, NEW count, CountFits(n, count)
  PROVE  count \in Nat /\ count \in 0 .. MaxSystem
BY LimitIsNat DEF CountFits

LEMMA FitsWithin ==
  ASSUME NEW n \in Nat, NEW count, CountFits(n, count)
  PROVE  n <= MaxSystem
BY LimitIsNat DEF CountFits

LEMMA SomeOrNone == \A count \in Nat : count = 0 \/ count > 0
OBVIOUS

LEMMA FitsNone == CountFits(0, 0)
BY LimitIsNat DEF CountFits

LEMMA FitsOneMore ==
  ASSUME NEW n \in Nat, NEW count, CountFits(n, count), count < MaxSystem
  PROVE  CountFits(n + 1, count + 1)
BY LimitIsNat DEF CountFits

LEMMA FitsOneLess ==
  ASSUME NEW n \in Nat, NEW count, CountFits(n, count), NEW d, d = count \/ (count > 0 /\ d = count - 1)
  PROVE  CountFits(n - 1, d)
BY LimitIsNat DEF CountFits

\* The count goes up by one with a caller that waits, stays, or goes down by at most one
\* with a caller that waits no more.
LEMMA SlotsKeep ==
  ASSUME Slots, NEW j \in Jobs,
         NEW answer \in {"none", "waiting", "refused", "timed out", "returned"},
         caller' = [caller EXCEPT ![j] = answer],
         DOMAIN governor'.active = Tenanted,
         \A t \in Tenanted : governor'.active[t] \subseteq {IdOf[i] : i \in Jobs},
         \/ /\ caller[j] # "waiting" /\ answer = "waiting"
            /\ governor.count < MaxSystem /\ governor'.count = governor.count + 1
         \/ caller[j] # "waiting" /\ answer # "waiting" /\ governor'.count = governor.count
         \/ /\ caller[j] = "waiting" /\ answer # "waiting"
            /\ governor'.count = governor.count \/ (governor.count > 0 /\ governor'.count = governor.count - 1)
  PROVE  Slots'
<1> PICK n : n = Cardinality(Waiting)
  OBVIOUS
<1> PICK count : count = governor.count
  OBVIOUS
<1>1. IsFiniteSet(Waiting) /\ n \in Nat /\ CountFits(n, count)
  BY WaitingIsFinite DEF Slots
<1>2. /\ DOMAIN caller' = Jobs /\ caller'[j] = answer /\ \A i \in Jobs : i # j => caller'[i] = caller[i]
  BY DEF Slots
<1>3. CASE caller[j] # "waiting" /\ answer = "waiting"
  <2>1. Waiting' = Waiting \cup {j} /\ j \notin Waiting
    BY <1>2, <1>3 DEF Waiting
  <2>2. Cardinality(Waiting') = n + 1
    BY <1>1, <2>1, FS_AddElement
  <2>3. governor'.count = count + 1 /\ count < MaxSystem
    BY <1>3
  <2>4. CountFits(n + 1, count + 1)
    BY <1>1, <2>3, FitsOneMore, Zenon
  <2>5. QED
    BY <1>2, <2>2, <2>3, <2>4, Zenon DEF Slots, Tenanted
<1>4. CASE caller[j] # "waiting" /\ answer # "waiting"
  <2>1. Waiting' = Waiting
    BY <1>2, <1>4 DEF Waiting
  <2>2. governor'.count = count
    BY <1>4
  <2>3. QED
    BY <1>1, <1>2, <2>1, <2>2 DEF Slots, Tenanted
<1>5. CASE caller[j] = "waiting" /\ answer # "waiting"
  <2>1. Waiting' = Waiting \ {j} /\ j \in Waiting
    BY <1>2, <1>5 DEF Waiting
  <2>2. Cardinality(Waiting') = n - 1
    BY <1>1, <2>1, FS_RemoveElement
  <2>3. governor'.count = count \/ (count > 0 /\ governor'.count = count - 1)
    BY <1>5
  <2>4. CountFits(n - 1, governor'.count)
    BY <1>1, <2>3, FitsOneLess, Zenon
  <2>5. QED
    BY <1>2, <2>2, <2>4, Zenon DEF Slots, Tenanted
<1>6. QED
  BY <1>3, <1>4, <1>5

LEMMA RequestKeeps ==
  ASSUME Slots, Threads, NEW j \in Jobs, Request(j)
  PROVE  Slots' /\ Threads'
<1> PICK g : g = governor
  OBVIOUS
<1> PICK t : t = TenantOf[j]
  OBVIOUS
<1>1. caller[j] # "waiting" /\ thread[j].pc = "none" /\ t \in Tenanted
  BY DEF Request, Resting, Tenanted
<1>2. CASE CanAcquire(g, t)
  <2>1. governor' = [active |-> [g.active EXCEPT ![t] = @ \union {IdOf[j]}], count |-> g.count + 1]
    BY <1>2 DEF Request, Acquire
  <2>2. /\ caller' = [caller EXCEPT ![j] = "waiting"] /\ thread' = [thread EXCEPT ![j].pc = "extract"]
        /\ g.count < MaxSystem
    BY <1>2 DEF Request, CanAcquire
  <2>3. /\ DOMAIN governor'.active = Tenanted /\ governor'.count = g.count + 1
        /\ \A u \in Tenanted : governor'.active[u] \subseteq {IdOf[i] : i \in Jobs}
    BY <1>1, <2>1 DEF Slots
  <2>4. Slots'
    BY <1>1, <2>2, <2>3, SlotsKeep
  <2> PICK old : old = thread[j]
    OBVIOUS
  <2> PICK new : new = [old EXCEPT !.pc = "extract"]
    OBVIOUS
  <2>5. GoodThread(new)
    BY <1>1 DEF Threads, GoodThread
  <2>6. thread' = [thread EXCEPT ![j] = new]
    BY <2>2 DEF Threads, GoodThread
  <2>7. QED
    BY <2>4, <2>5, <2>6, MovingKeeps DEF Moves
<1>3. CASE ~CanAcquire(g, t)
  <2>1. caller' = [caller EXCEPT ![j] = "refused"] /\ governor' = governor /\ thread' = thread
    BY <1>3 DEF Request
  <2>2. /\ DOMAIN governor'.active = Tenanted /\ governor'.count = governor.count
        /\ \A u \in Tenanted : governor'.active[u] \subseteq {IdOf[i] : i \in Jobs}
    BY <2>1 DEF Slots
  <2>3. Slots'
    BY <1>1, <2>1, <2>2, SlotsKeep
  <2>4. QED
    BY <2>1, <2>3 DEF Threads
<1>4. QED
  BY <1>2, <1>3

LEMMA DoneKeeps ==
  ASSUME Slots, NEW j \in Jobs, caller[j] = "waiting", NEW answer \in {"timed out", "returned"}, Done(j, answer)
  PROVE  Slots'
<1> PICK g : g = governor
  OBVIOUS
<1> PICK t : t = TenantOf[j]
  OBVIOUS
<1>0. t \in Tenanted
  BY DEF Tenanted
<1>1. caller' = [caller EXCEPT ![j] = answer] /\ governor' = Release(g, t, IdOf[j])
  BY DEF Done
<1>2. g.count \in Nat
  BY FitsIsNat DEF Slots
<1>3. /\ DOMAIN governor'.active = Tenanted
      /\ \A u \in Tenanted : governor'.active[u] \subseteq {IdOf[i] : i \in Jobs}
      /\ governor'.count = g.count \/ (g.count > 0 /\ governor'.count = g.count - 1)
  <2>1. CASE IdOf[j] \in g.active[t]
    <3>1. governor' = [active |-> [g.active EXCEPT ![t] = @ \ {IdOf[j]}], count |-> IF g.count > 0 THEN g.count - 1 ELSE 0]
      BY <1>1, <2>1 DEF Release
    <3>2. governor'.active = [g.active EXCEPT ![t] = @ \ {IdOf[j]}]
          /\ governor'.count = IF g.count > 0 THEN g.count - 1 ELSE 0
      BY <3>1, Zenon
    <3>3. g.count = 0 \/ g.count > 0
      BY <1>2, SomeOrNone, Zenon
    <3>4. governor'.count = g.count \/ (g.count > 0 /\ governor'.count = g.count - 1)
      BY <3>2, <3>3
    <3>5. DOMAIN g.active = Tenanted /\ \A u \in Tenanted : g.active[u] \subseteq {IdOf[i] : i \in Jobs}
      BY DEF Slots
    <3>6. QED
      BY <1>0, <3>2, <3>4, <3>5, ZenonT(60)
  <2>2. CASE IdOf[j] \notin g.active[t]
    BY <1>1, <2>2 DEF Release, Slots
  <2>3. QED
    BY <2>1, <2>2
<1>4. QED
  BY <1>1, <1>3, SlotsKeep

LEMMA ForgetKeeps ==
  ASSUME Slots, Threads, NEW j \in Jobs, Forget(j)
  PROVE  Slots' /\ Threads'
<1>1. /\ caller[j] # "waiting" /\ caller' = [caller EXCEPT ![j] = "none"] /\ governor' = governor
      /\ thread' = [thread EXCEPT ![j] = NoThread]
  BY DEF Forget
<1>2. /\ DOMAIN governor'.active = Tenanted /\ governor'.count = governor.count
      /\ \A u \in Tenanted : governor'.active[u] \subseteq {IdOf[i] : i \in Jobs}
  BY <1>1 DEF Slots
<1>3. Slots'
  BY <1>1, <1>2, SlotsKeep
<1>4. QED
  BY <1>1, <1>3, NoThreadIsGood, MovingKeeps DEF Moves

LEMMA StillKeeps == Slots /\ UNCHANGED <<caller, governor>> => Slots'
BY DEF Slots, Waiting, Tenanted

-----------------------------------------------------------------------------
(* All jobs.                                                                   *)

LEMMA JobsBegin == JobInit => JobInv
<1> SUFFICES ASSUME JobInit
             PROVE  JobInv
  OBVIOUS
<1>1. /\ content \in [Files -> DOMAIN Contents] /\ disk = [manifest |-> NoManifest, entries |-> {}]
      /\ thread = [j \in Jobs |-> NoThread] /\ caller = [j \in Jobs |-> "none"]
      /\ governor = [active |-> [t \in Tenanted |-> {}], count |-> 0]
  BY DEF JobInit, Tenanted
<1>2. GoodDisk(disk)
  BY <1>1 DEF GoodDisk, GoodMemory, NoManifest
<1>3. Threads
  BY <1>1, NoThreadIsGood DEF Threads
<1>4. Slots
  <2>1. Waiting = {}
    BY <1>1 DEF Waiting
  <2>2. Cardinality(Waiting) = 0
    BY <2>1, FS_EmptySet
  <2>3. QED
    BY <1>1, <2>2, FitsNone DEF Slots
<1>5. QED
  BY <1>1, <1>2, <1>3, <1>4 DEF JobInv, Texts

LEMMA RestartKeeps == JobInv /\ Restart => JobInv'
<1> SUFFICES ASSUME JobInv, Restart
             PROVE  JobInv'
  OBVIOUS
<1>1. /\ disk' = Crash(disk) /\ thread' = [j \in Jobs |-> NoThread] /\ caller' = [j \in Jobs |-> "none"]
      /\ governor' = [active |-> [t \in Tenanted |-> {}], count |-> 0] /\ content' = content
  BY DEF Restart, JobInv, Slots
<1>2. GoodDisk(disk')
  BY <1>1, CrashedIsGood DEF JobInv
<1>3. Threads'
  BY <1>1, NoThreadIsGood DEF Threads
<1>4. Slots'
  <2>1. Waiting' = {}
    BY <1>1 DEF Waiting
  <2>2. Cardinality(Waiting') = 0
    BY <2>1, FS_EmptySet
  <2>3. QED
    BY <1>1, <2>2, FitsNone DEF Slots, Tenanted
<1>5. QED
  BY <1>1, <1>2, <1>3, <1>4 DEF JobInv, Texts, GoodDisk

LEMMA JobKeeps ==
  ASSUME JobInv, NEW j \in Jobs, Job(j)
  PROVE  JobInv'
<1>1. Texts /\ GoodDisk(disk) /\ Threads /\ Slots
  BY DEF JobInv
<1>2. content' = content => Texts'
  BY <1>1 DEF Texts
<1>3. disk' = disk => GoodDisk(disk')
  BY <1>1
<1>4. thread' = thread => Threads'
  BY <1>1 DEF Threads
<1>5. caller' = caller /\ governor' = governor => Slots'
  BY <1>1, StillKeeps
<1>6. content' = content
  BY DEF Job, Request, Timeout, Return, Forget, ExtractUpload, Start, ScanFile, WriteEntry, OpenManifest, ReplaceManifest
<1>7. CASE Request(j)
  <2>1. disk' = disk
    BY <1>7 DEF Request
  <2>2. Slots' /\ Threads'
    BY <1>1, <1>7, RequestKeeps
  <2>3. QED
    BY <1>2, <1>3, <1>6, <2>1, <2>2 DEF JobInv, GoodDisk
<1>8. CASE Timeout(j) \/ Return(j)
  <2>1. disk' = disk /\ thread' = thread /\ caller[j] = "waiting" /\ (Done(j, "timed out") \/ Done(j, "returned"))
    BY <1>8 DEF Timeout, Return
  <2>2. Slots'
    BY <1>1, <2>1, DoneKeeps
  <2>3. QED
    BY <1>2, <1>3, <1>4, <1>6, <2>1, <2>2 DEF JobInv, GoodDisk
<1>9. CASE Forget(j)
  <2>1. disk' = disk
    BY <1>9 DEF Forget
  <2>2. Slots' /\ Threads'
    BY <1>1, <1>9, ForgetKeeps
  <2>3. QED
    BY <1>2, <1>3, <1>6, <2>1, <2>2 DEF JobInv, GoodDisk
<1>10. CASE ExtractUpload(j)
  <2>1. disk' = disk /\ caller' = caller /\ governor' = governor
    BY <1>10 DEF ExtractUpload
  <2>2. Threads'
    BY <1>1, <1>10, ExtractKeeps
  <2>3. QED
    BY <1>2, <1>3, <1>5, <1>6, <2>1, <2>2 DEF JobInv, GoodDisk
<1>11. CASE Start(j)
  <2>1. caller' = caller /\ governor' = governor
    BY <1>11 DEF Start
  <2>2. Threads' /\ GoodDisk(disk')
    BY <1>1, <1>11, StartKeeps DEF GoodDisk
  <2>3. QED
    BY <1>2, <1>5, <1>6, <2>1, <2>2 DEF JobInv, GoodDisk
<1>12. CASE \E f \in Files : ScanFile(j, f) \/ WriteEntry(j, f)
  <2>1. caller' = caller /\ governor' = governor
    BY <1>12 DEF ScanFile, WriteEntry
  <2>2. Threads' /\ GoodDisk(disk')
    BY <1>1, <1>12, ScanKeeps, WriteKeeps
  <2>3. QED
    BY <1>2, <1>5, <1>6, <2>1, <2>2 DEF JobInv, GoodDisk
<1>13. CASE OpenManifest(j) \/ ReplaceManifest(j)
  <2>1. caller' = caller /\ governor' = governor
    BY <1>13 DEF OpenManifest, ReplaceManifest
  <2>2. Threads' /\ GoodDisk(disk')
    BY <1>1, <1>13, OpenManifestKeeps, ReplaceManifestKeeps
  <2>3. QED
    BY <1>2, <1>5, <1>6, <2>1, <2>2 DEF JobInv, GoodDisk
<1>14. QED
  BY <1>7, <1>8, <1>9, <1>10, <1>11, <1>12, <1>13 DEF Job

LEMMA JobStep == JobInv /\ [JobNext]_jobVars => JobInv'
<1> SUFFICES ASSUME JobInv, [JobNext]_jobVars
             PROVE  JobInv'
  OBVIOUS
<1>1. ASSUME NEW j \in Jobs, Job(j)
      PROVE  JobInv'
  BY <1>1, JobKeeps
<1>2. CASE /\ disk' = disk /\ thread' = thread /\ caller' = caller /\ governor' = governor
           /\ content' = content \/ \E f \in Files, c \in DOMAIN Contents : content' = [content EXCEPT ![f] = c]
  <2>1. Texts'
    BY <1>2 DEF JobInv, Texts
  <2>2. Slots'
    BY <1>2, StillKeeps DEF JobInv
  <2>3. QED
    BY <1>2, <2>1, <2>2 DEF JobInv, GoodDisk, Threads
<1>3. CASE \E f \in Files, c \in EditedInto : Edit(f, c)
  BY <1>2, <1>3, JobsAssumption DEF Edit
<1>4. CASE Upgrade
  BY <1>2, <1>4 DEF Upgrade
<1>5. CASE Restart
  BY <1>5, RestartKeeps
<1>6. CASE UNCHANGED jobVars
  BY <1>2, <1>6 DEF jobVars
<1>7. QED
  BY <1>1, <1>3, <1>4, <1>5, <1>6 DEF JobNext

\* What a scan reports of a file's content is that of the detectors it started with,
\* through any number of scanners that share a cache directory, any mix of their reads
\* and writes, edits of the files, upgrades and crashes (ScannerCache, scan_single_file);
\* and for any content it lies where the command finds something, whose merge is another
\* (process_file).
THEOREM FindingsStayRight == JobSpec => []FindingsAreRight
<1>1. JobInv => CachedFindingsAreCurrent
  <2>1. Unread.state = "todo" /\ Skipped.state = "skipped"
    BY DEF Unread, Skipped
  <2>2. QED
    BY <2>1 DEF JobInv, Threads, GoodThread, SeenFile, CachedFindingsAreCurrent
<1>2. JobInv /\ CachedFindingsAreCurrent => FrontEndsAgree
  <2> SUFFICES ASSUME JobInv, CachedFindingsAreCurrent, NEW j \in Jobs, NEW f \in Files,
                      thread[j].files[f].state \notin {"todo", "skipped"},
                      Contents[thread[j].files[f].bytes].readable,
                      ~Contents[thread[j].files[f].bytes].regexRaises
               PROVE  LET r == thread[j].files[f] IN
                      Places({x[1] : x \in r.findings}) = Places(ProcessFile(Contents[r.bytes]).findings)
    BY DEF FrontEndsAgree
  <2> PICK r : r = thread[j].files[f]
    OBVIOUS
  <2> PICK c : c = Contents[r.bytes]
    OBVIOUS
  <2>1. r.bytes \in DOMAIN Contents
    <3>1. Unread.state = "todo" /\ Skipped.state = "skipped"
      BY DEF Unread, Skipped
    <3>2. QED
      BY <3>1 DEF JobInv, Threads, GoodThread, SeenFile
  <2>2. r.findings = Analyse(r.bytes, thread[j].fingerprints).findings
    BY DEF CachedFindingsAreCurrent
  <2>3. {x[1] : x \in r.findings} = ScanSingleFile(c).findings
    <3>1. r.findings = {<<e, thread[j].fingerprints.engine>> : e \in ScanSingleFile(c).findings}
      BY <2>2 DEF Analyse
    <3> DEFINE S == ScanSingleFile(c).findings
               e == thread[j].fingerprints.engine
               T == {<<y, e>> : y \in S}
    <3>2. r.findings = T
      BY <3>1
    <3> HIDE DEF S, e
    <3>3. \A y \in S : <<y, e>> \in T /\ <<y, e>>[1] = y
      OBVIOUS
    <3>4. \A x \in T : x[1] \in S
      OBVIOUS
    <3> HIDE DEF T
    <3>5. {x[1] : x \in r.findings} = S
      BY <3>2, <3>3, <3>4
    <3>6. QED
      BY <3>5 DEF S
  <2>4. \A found \in {c.ast, c.regex, c.secrets} : found \in Seq(ToSet(found))
    BY <2>1, UploadsAssumption
  <2>5. Places(ScanSingleFile(c).findings) = Places(ProcessFile(c).findings)
    BY <2>4, FrontEndsMeet
  <2>6. QED
    BY <2>3, <2>5
<1>3. QED
  BY <1>1, <1>2, JobsBegin, JobStep, PTL DEF JobSpec, FindingsAreRight

\* However callers ask, time out and return, and however often an id is asked with, no
\* more of them wait than the governor's limit (ResourceQuotaGovernor); and whatever is
\* uploaded, what is left on disk of it is within the limits (archive_guard).
THEOREM JobsStayLimited == JobSpec => []JobsStayInLimits
<1>1. JobInv => JobsStayInLimits
  <2> SUFFICES ASSUME JobInv
               PROVE  JobsStayInLimits
    OBVIOUS
  <2>1. \A j \in Jobs : \A f \in Files : thread[j].files[f].state \in {"todo", "put", "done", "cached", "skipped"}
    <3>1. Unread.state = "todo" /\ Skipped.state = "skipped"
      BY DEF Unread, Skipped
    <3>2. QED
      BY <3>1 DEF JobInv, Threads, GoodThread, SeenFile
  <2>2. JobTypeOK
    BY <2>1, FitsIsNat DEF JobInv, Texts, GoodDisk, Threads, GoodThread, Slots, Tenanted, JobTypeOK
  <2>3. CallersAreBounded
    BY WaitingIsFinite, FitsWithin DEF JobInv, Slots, Waiting, CallersAreBounded
  <2>4. ExtractionStaysInBudget
    BY DEF JobInv, Threads, GoodThread, InBudget, ExtractionStaysInBudget
  <2>5. QED
    BY <2>2, <2>3, <2>4 DEF JobsStayInLimits
<1>2. QED
  BY <1>1, JobsBegin, JobStep, PTL DEF JobSpec

-----------------------------------------------------------------------------
(* What a scan lost is told.                                                   *)

\* File record r is of a file that was read and, unless its findings come from the cache,
\* parsed and matched.
SeenWhole(r) ==
  /\ r.state \in {"done", "cached"}
  /\ Contents[r.bytes].readable
  /\ r.state = "done" => ~Contents[r.bytes].astRaises /\ ~Contents[r.bytes].regexRaises

LEMMA NoErrorIsWhole ==
  ASSUME NEW r, NEW fps, SeenFile(r, fps), r.state \in {"done", "cached"}, r.error = "none"
  PROVE  SeenWhole(r)
<1> PICK c : c = Contents[r.bytes]
  OBVIOUS
<1>1. CASE r.state = "cached"
  BY <1>1 DEF SeenFile, SeenWhole
<1>2. CASE r.state = "done"
  <2>1. ScanSingleFile(c).error = "none"
    BY <1>2 DEF SeenFile, Analyse
  <2>2. c.readable /\ ~(c.astRaises \/ c.regexRaises)
    BY <2>1 DEF ScanSingleFile
  <2>3. QED
    BY <1>2, <2>2 DEF SeenWhole
<1>3. QED
  BY <1>1, <1>2

\* A scan whose report is not of failure has its findings in it; one of success has seen
\* all files it was handed.
LEMMA ReportTells ==
  ASSUME NEW t, GoodThread(t), t.pc = "ended"
  PROVE  /\ t.report.status \in {"SUCCESS", "PARTIAL", "FAILED"}
         /\ t.report.status # "FAILED" =>
              \A f \in Files : \A x \in t.files[f].findings : <<f, x>> \in t.report.findings
         /\ t.report.status = "SUCCESS" =>
              t.upload.ok /\ \A f \in HandedOn(t.files) : SeenWhole(t.files[f])
<1>1. CASE t.report.status = "FAILED" /\ t.report.findings = {}
  BY <1>1
<1>2. CASE t.upload.ok /\ AllDone(t) /\ t.report = RunJob("static", ScanResult(t.files))
  <2> PICK failed : failed = {f \in HandedOn(t.files) : t.files[f].error # "none"}
    OBVIOUS
  <2> PICK found : found = UNION {{<<f, x>> : x \in t.files[f].findings} : f \in Files}
    OBVIOUS
  <2> PICK r : r = ScanResult(t.files)
    OBVIOUS
  <2>1. /\ r.shape \in {"dict", "crash"} /\ r.findings = found
        /\ r.errors = IF failed = {} THEN "none" ELSE "some"
    BY DEF ScanResult
  <2> PICK status : status = Status(r.findings, r.errors, r.scanned, r.failed)
    OBVIOUS
  <2>2. status \in {"SUCCESS", "PARTIAL", "FAILED"} /\ (status = "SUCCESS" => failed = {})
    BY <2>1 DEF Status
  <2>3. CASE r.shape = "crash"
    <3>1. t.report = EngineReport("static", "FAILED", {}, "fatal")
      BY <1>2, <2>3 DEF RunJob
    <3>2. QED
      BY <3>1 DEF EngineReport
  <2>4. CASE r.shape = "dict"
    <3>1. t.report = EngineReport("static", status, found, r.errors)
      BY <1>2, <2>1, <2>4 DEF RunJob
    <3>2. t.report.status = status /\ t.report.findings = found
      BY <3>1 DEF EngineReport
    <3>3. ASSUME NEW f \in HandedOn(t.files), failed = {}
          PROVE  SeenWhole(t.files[f])
      <4>1. f \in Files /\ t.files[f].state \in {"done", "cached"} /\ t.files[f].error = "none"
        BY <1>2, <3>3 DEF HandedOn, AllDone
      <4>2. Unread.state = "todo" /\ Skipped.state = "skipped"
        BY DEF Unread, Skipped
      <4>3. SeenFile(t.files[f], t.fingerprints)
        BY <4>1, <4>2 DEF GoodThread
      <4>4. QED
        BY <4>1, <4>3, NoErrorIsWhole
    <3>4. QED
      BY <1>2, <2>2, <3>2, <3>3
  <2>5. QED
    BY <2>1, <2>3, <2>4
<1>3. QED
  BY <1>1, <1>2 DEF GoodThread, GoodReport

\* A file that could not be opened makes the verdict on all of them an error.
LEMMA UnreadTells ==
  ASSUME NEW j \in Jobs, GoodThread(thread[j]), NEW f \in HandedOn(thread[j].files), thread[j].files[f].bytes # "",
         ~Contents[thread[j].files[f].bytes].readable
  PROVE  RunnerVerdict(Records(j)) = "SCAN_ERROR"
<1> PICK records : records = Records(j)
  OBVIOUS
<1> PICK handed : handed = HandedOn(thread[j].files)
  OBVIOUS
<1>0. f \in handed /\ handed \subseteq Files
  BY DEF HandedOn
<1>1. thread[j].files[f].error # "none"
  <2> PICK r : r = thread[j].files[f]
    OBVIOUS
  <2>1. Unread.bytes = "" /\ Skipped.bytes = ""
    BY DEF Unread, Skipped
  <2>2. SeenFile(r, thread[j].fingerprints)
    BY <1>0, <2>1 DEF GoodThread
  <2>3. ScanSingleFile(Contents[r.bytes]).error = "failure"
    BY DEF ScanSingleFile
  <2>4. QED
    BY <2>2, <2>3 DEF SeenFile, Analyse
<1>2. DOMAIN records = handed /\ records[f].state = "SCAN_ERROR"
  BY <1>1 DEF Records, JobRecord
<1> PICK bad : bad = {k \in handed : records[k].state \in {"SCAN_ERROR"}}
  OBVIOUS
<1>3. f \in bad
  BY <1>0, <1>2
<1>4. Cardinality(bad) > 0
  <2>1. IsFiniteSet(bad)
    BY <1>0, JobsAssumption, FS_Subset
  <2>2. Cardinality(bad) \in Nat /\ Cardinality(bad) # 0
    BY <1>3, <2>1, FS_CardinalityType, FS_EmptySet
  <2>3. QED
    BY <2>2, SomeOrNone, Zenon
<1>5. Count(records, {"SCAN_ERROR"}) > 0
  BY <1>2, <1>4 DEF Count
<1>6. QED
  BY <1>5 DEF RunnerVerdict

\* What is lost of an upload and of the files that discovery handed on, a file that cannot
\* be read and one that is not parsed or matched when its findings do not come from the
\* cache, is told by the report, the composite report and the verdict on the records; not
\* what discovery left out, what the secret detector missed when it raised, or an error
\* of an earlier scan whose findings are in the cache (ScalableScanner.scan,
\* IsolatedJobRunner.run_job, aggregate, get_summary).
THEOREM LossesAreTold == JobSpec => []LossesAreReported
<1>1. JobInv => LossesAreReported
  <2> SUFFICES ASSUME JobInv
               PROVE  LossesAreReported
    OBVIOUS
  <2> PICK reports : reports = Reports
    OBVIOUS
  <2> PICK composite : composite = Aggregate(reports)
    OBVIOUS
  <2> DEFINE seen(j) == /\ thread[j].upload.ok
                        /\ \A f \in HandedOn(thread[j].files) : SeenWhole(thread[j].files[f])
  <2>1. /\ DOMAIN reports = {j \in Jobs : thread[j].pc = "ended"}
        /\ \A j \in DOMAIN reports : reports[j] = thread[j].report
    BY DEF Reports
  <2>2. \A j \in DOMAIN reports :
          /\ reports[j].status \in {"SUCCESS", "PARTIAL", "FAILED"}
          /\ reports[j].status # "FAILED" =>
               \A f \in Files : \A x \in thread[j].files[f].findings : <<f, x>> \in reports[j].findings
          /\ reports[j].status = "SUCCESS" => seen(j)
    BY <2>1, ReportTells DEF JobInv, Threads
  <2> HIDE DEF seen
  <2>3. /\ composite.findings = UNION {reports[k].findings : k \in DOMAIN reports}
        /\ composite.status = CompositeStatus(reports)
    BY DEF Aggregate
  <2>4. ASSUME composite.status = "SUCCESS", NEW j \in DOMAIN reports
        PROVE  reports[j].status = "SUCCESS"
    <3> PICK statuses : statuses = {reports[k].status : k \in DOMAIN reports}
      OBVIOUS
    <3>1. statuses \intersect {"FAILED", "PARTIAL"} = {}
      BY <2>3, <2>4 DEF CompositeStatus
    <3>2. reports[j].status \in statuses
      OBVIOUS
    <3>3. QED
      BY <2>2, <3>1, <3>2
  <2>5. ASSUME NEW j \in DOMAIN reports, NEW f \in HandedOn(thread[j].files)
        PROVE  CanRecord(Records(j)[f])
    <3>1. Records(j)[f].state \in {"SCAN_ERROR", "FOUND", "NOT_SCANNED", "NOT_FOUND"}
          /\ (Records(j)[f].state = "FOUND" => Records(j)[f].findings # {})
      BY DEF Records, JobRecord
    <3>2. QED
      BY <3>1 DEF CanRecord, ResultStates
  <2>6. ASSUME NEW j \in DOMAIN reports, NEW f \in HandedOn(thread[j].files), thread[j].files[f].bytes # "",
               ~Contents[thread[j].files[f].bytes].readable
        PROVE  ~IllegalCollapse(RunnerVerdict(Records(j)), "PERMISSION_DENIED")
    <3>1. RunnerVerdict(Records(j)) = "SCAN_ERROR"
      BY <2>1, <2>6, UnreadTells DEF JobInv, Threads
    <3>2. QED
      BY <3>1 DEF IllegalCollapse
  <2>7. \A j \in DOMAIN reports : \A x \in reports[j].findings : x \in composite.findings
    BY <2>3
  <2>8. QED
    BY <2>2, <2>4, <2>5, <2>6, <2>7 DEF LossesAreReported, seen, SeenWhole
<1>2. QED
  BY <1>1, JobsBegin, JobStep, PTL DEF JobSpec

-----------------------------------------------------------------------------
(* The network scanner.  What is asked was judged with the address it is asked *)
(* at, and what is connected to was asked.                                     *)

Addresses == DOMAIN IpKind \ {NoIp}

\* An address that may be connected to.
Fit(ip, args) == IpKind[ip] # "restricted" /\ (IpKind[ip] # "global" => args.allowPrivate)

\* A request was judged with its address.
Judged(r, audit, args) == AuditRecord(r, r.ip, TRUE) \in audit /\ Fit(r.ip, args)

NetFields == {"phase", "args", "scope", "next", "audit", "failed", "requests", "waiting", "probes",
              "found", "arrived", "inventory", "report"}

GoodScan(s) ==
  /\ DOMAIN s = NetFields
  /\ s.args \in Invocations
  /\ s.next \in Nat \ {0}
  /\ s.requests \in Seq(ToSet(s.requests))
  /\ \A i \in DOMAIN s.requests : Judged(s.requests[i], s.audit, s.args)
  /\ s.waiting \subseteq DOMAIN s.requests
  /\ s.probes \subseteq s.audit
  /\ \A p \in s.probes : Fit(p.ip, s.args)

Answers == DOMAIN dns = DOMAIN Resolves /\ \A h \in DOMAIN Resolves : dns[h] \in Resolves[h]

NetInv == Answers /\ (net.phase = "idle" \/ GoodScan(net))

LEMMA PinnedIsFit ==
  ASSUME Answers, NEW host \in DOMAIN Resolves, NEW args, NEW ip, ip = ResolveAndPin(host, args.allowPrivate), ip # NoIp
  PROVE  Fit(ip, args)
<1> PICK answer : answer = dns[host]
  OBVIOUS
<1>1. answer \in Seq(Addresses)
  BY ResolutionAssumption DEF Answers, Addresses
<1>2. /\ answer # <<>> /\ ip = Head(answer)
      /\ \A a \in ToSet(answer) : ValidateIpAddress(a, args.allowPrivate)
  BY DEF ResolveAndPin
<1>3. ip \in ToSet(answer)
  <2>1. 1 \in DOMAIN answer /\ Head(answer) = answer[1]
    BY <1>1, <1>2, EmptySeq, LenProperties, HeadTailProperties
  <2>2. QED
    BY <1>2, <2>1 DEF ToSet
<1>4. QED
  BY <1>2, <1>3 DEF ValidateIpAddress, Fit

\* One more request at the end, all judged.
IsMore(new, old, r) ==
  /\ new \in Seq(ToSet(new)) /\ DOMAIN old \subseteq DOMAIN new
  /\ \A i \in DOMAIN new : (i \in DOMAIN old /\ new[i] = old[i]) \/ new[i] = r

LEMMA OneMoreRequest ==
  ASSUME NEW old, old \in Seq(ToSet(old)), NEW r, NEW new, new = Append(old, r)
  PROVE  IsMore(new, old, r)
<1> PICK S : S = ToSet(old) \cup {r}
  OBVIOUS
<1>1. old \in Seq(S) /\ r \in S
  BY SeqMonotonic
<1>2. new \in Seq(S) /\ Len(new) = Len(old) + 1 /\ new[Len(old) + 1] = r /\ \A i \in 1 .. Len(old) : new[i] = old[i]
  BY <1>1, AppendProperties
<1>3. DOMAIN new = 1 .. Len(old) + 1 /\ DOMAIN old = 1 .. Len(old) /\ Len(old) \in Nat
  BY <1>1, <1>2, LenProperties
<1>4. \A i \in DOMAIN new : new[i] \in ToSet(new)
  BY DEF ToSet
<1>5. new \in Seq(ToSet(new))
  BY <1>2, <1>3, <1>4, SeqDef
<1>6. \A i \in DOMAIN new : (i \in DOMAIN old /\ new[i] = old[i]) \/ new[i] = r
  BY <1>2, <1>3
<1>7. QED
  BY <1>3, <1>5, <1>6 DEF IsMore

LEMMA RefusedIsGood ==
  ASSUME NEW s, GoodScan(s), NEW t, NEW records
  PROVE  GoodScan(Refused(s, t, records))
<1> PICK u : u = Refused(s, t, records)
  OBVIOUS
<1>1. /\ DOMAIN u = NetFields /\ u.args = s.args /\ u.next = s.next + 1 /\ u.requests = s.requests
      /\ u.waiting = s.waiting /\ u.probes = s.probes /\ u.audit = s.audit \cup records
  BY DEF Refused, GoodScan, NetFields
<1>2. \A q : Judged(q, s.audit, s.args) => Judged(q, u.audit, u.args)
  BY <1>1 DEF Judged
<1>3. u.next \in Nat \ {0}
  BY <1>1 DEF GoodScan
<1>4. u.probes \subseteq u.audit
  BY <1>1 DEF GoodScan
<1>5. u.requests \in Seq(ToSet(u.requests))
  BY <1>1 DEF GoodScan
<1>6. QED
  BY <1>1, <1>2, <1>3, <1>4, <1>5, Zenon DEF GoodScan

LEMMA PinnedIsGood ==
  ASSUME NEW s, GoodScan(s), NEW t, NEW ip, Fit(ip, s.args)
  PROVE  GoodScan(Pinned(s, t, ip))
<1> PICK u : u = Pinned(s, t, ip)
  OBVIOUS
<1> PICK r : r = [host |-> t.host, port |-> t.port, ip |-> ip]
  OBVIOUS
<1> PICK a : a = AuditRecord(t, ip, TRUE)
  OBVIOUS
<1>1. /\ DOMAIN u = NetFields /\ u.args = s.args /\ u.next = s.next + 1 /\ u.requests = Append(s.requests, r)
      /\ u.waiting = s.waiting /\ u.probes = s.probes /\ u.audit = s.audit \cup {a}
  BY DEF Pinned, GoodScan, NetFields
<1>2. Judged(r, u.audit, u.args)
  BY <1>1 DEF Judged, AuditRecord
<1>3. /\ u.requests \in Seq(ToSet(u.requests)) /\ DOMAIN s.requests \subseteq DOMAIN u.requests
      /\ \A i \in DOMAIN u.requests : (i \in DOMAIN s.requests /\ u.requests[i] = s.requests[i]) \/ u.requests[i] = r
  <2> PICK old : old = s.requests
    OBVIOUS
  <2> PICK new : new = u.requests
    OBVIOUS
  <2>1. old \in Seq(ToSet(old)) /\ new = Append(old, r)
    BY <1>1, Zenon DEF GoodScan
  <2>2. IsMore(new, old, r)
    BY <2>1, OneMoreRequest
  <2>3. QED
    BY <2>2, Zenon DEF IsMore
<1>4. \A q : Judged(q, s.audit, s.args) => Judged(q, u.audit, u.args)
  BY <1>1 DEF Judged
<1>5. u.next \in Nat \ {0}
  BY <1>1 DEF GoodScan
<1>6. QED
  BY <1>1, <1>2, <1>3, <1>4, <1>5 DEF GoodScan

LEMMA PrepareKeeps == NetInv /\ PrepareTarget => NetInv'
<1> SUFFICES ASSUME NetInv, PrepareTarget
             PROVE  NetInv'
  OBVIOUS
<1> PICK s : s = net
  OBVIOUS
<1> PICK t : t = s.args.targets[s.next]
  OBVIOUS
<1>1. GoodScan(s) /\ s.next <= Len(s.args.targets) /\ net' = Prepared(s, t) /\ dns' = dns
  BY DEF NetInv, PrepareTarget
<1>2. t.host \in DOMAIN Resolves
  <2>1. s.next \in DOMAIN s.args.targets
    <3> PICK targets : targets = s.args.targets
      OBVIOUS
    <3> PICK n : n = s.next
      OBVIOUS
    <3>1. targets \in Seq(ToSet(targets)) /\ n \in Nat \ {0} /\ n <= Len(targets)
      BY <1>1, ResolutionAssumption DEF GoodScan
    <3>2. n \in DOMAIN targets
      BY <3>1, LenProperties
    <3>3. QED
      BY <3>2
  <2>2. QED
    BY <1>1, <2>1, ResolutionAssumption DEF GoodScan
<1> PICK ip : ip = ResolveAndPin(t.host, s.args.allowPrivate)
  OBVIOUS
<1>3. \/ \E records : net' = Refused(s, t, records)
      \/ ip # NoIp /\ net' = Pinned(s, t, ip)
  BY <1>1 DEF Prepared
<1>4. GoodScan(net')
  <2>1. CASE \E records : net' = Refused(s, t, records)
    BY <1>1, <2>1, RefusedIsGood
  <2>2. CASE ip # NoIp /\ net' = Pinned(s, t, ip)
    <3>1. Fit(ip, s.args)
      BY <1>2, <2>2, PinnedIsFit DEF NetInv
    <3>2. QED
      BY <1>1, <2>2, <3>1, PinnedIsGood
  <2>3. QED
    BY <1>3, <2>1, <2>2
<1>5. QED
  BY <1>1, <1>4 DEF NetInv, GoodScan, Answers

\* Request i is answered, or the answer crashes the scan: it was probed as a says.
IsHeard(s, u, i, a) ==
  \/ u = [s EXCEPT !.phase = "crashed", !.probes = @ \cup {a}]
  \/ \E found, arrived : u = [s EXCEPT !.waiting = @ \ {i}, !.arrived = arrived, !.probes = @ \cup {a}, !.found = found]

LEMMA ResultKeeps == NetInv /\ Result => NetInv'
<1> SUFFICES ASSUME NetInv, Result
             PROVE  NetInv'
  OBVIOUS
<1> PICK s : s = net
  OBVIOUS
<1>1. GoodScan(s) /\ dns' = dns
  BY DEF NetInv, Result
<1>2. PICK i \in s.waiting :
        IsHeard(s, net', i, AuditRecord(s.requests[i], s.requests[i].ip, TRUE))
  BY ZenonT(60) DEF Result, Answer, Connect, IsHeard
<1> PICK r : r = s.requests[i]
  OBVIOUS
<1> PICK a : a = AuditRecord(r, r.ip, TRUE)
  OBVIOUS
<1>3. a \in s.audit /\ a.ip = r.ip /\ Fit(r.ip, s.args)
  BY <1>1 DEF GoodScan, Judged, AuditRecord
<1> PICK u : u = net'
  OBVIOUS
<1>4. /\ DOMAIN u = NetFields /\ u.args = s.args /\ u.next = s.next /\ u.requests = s.requests
      /\ u.waiting \subseteq s.waiting /\ u.probes = s.probes \cup {a} /\ u.audit = s.audit
  <2>1. DOMAIN s = NetFields
    BY <1>1 DEF GoodScan
  <2>2. CASE u = [s EXCEPT !.phase = "crashed", !.probes = @ \cup {a}]
    BY <2>1, <2>2 DEF NetFields
  <2>3. ASSUME NEW found, NEW arrived, u = [s EXCEPT !.waiting = @ \ {i}, !.arrived = arrived, !.probes = @ \cup {a}, !.found = found]
        PROVE  /\ DOMAIN u = NetFields /\ u.args = s.args /\ u.next = s.next /\ u.requests = s.requests
               /\ u.waiting \subseteq s.waiting /\ u.probes = s.probes \cup {a} /\ u.audit = s.audit
    BY <2>1, <2>3 DEF NetFields
  <2>4. \/ u = [s EXCEPT !.phase = "crashed", !.probes = @ \cup {a}]
        \/ \E found, arrived : u = [s EXCEPT !.waiting = @ \ {i}, !.arrived = arrived, !.probes = @ \cup {a}, !.found = found]
    BY <1>2, ZenonT(60) DEF IsHeard
  <2>5. CASE \E found, arrived : u = [s EXCEPT !.waiting = @ \ {i}, !.arrived = arrived, !.probes = @ \cup {a}, !.found = found]
    <3>1. PICK found, arrived : u = [s EXCEPT !.waiting = @ \ {i}, !.arrived = arrived, !.probes = @ \cup {a}, !.found = found]
      BY <2>5
    <3>2. QED
      BY <3>1, <2>3
  <2>6. QED
    BY <2>2, <2>4, <2>5
<1>5. GoodScan(u)
  BY <1>1, <1>3, <1>4 DEF GoodScan
<1>6. QED
  BY <1>1, <1>5 DEF NetInv, GoodScan, Answers

LEMMA NetBegins == NetInit => NetInv
<1> SUFFICES ASSUME NetInit
             PROVE  NetInv
  OBVIOUS
<1>1. net.phase = "idle" /\ dns = [h \in DOMAIN Resolves |-> CHOOSE answer \in Resolves[h] : TRUE]
  BY DEF NetInit
<1>2. \A h \in DOMAIN Resolves : Resolves[h] # {}
  BY ResolutionAssumption
<1>3. Answers
  BY <1>1, <1>2 DEF Answers
<1>4. QED
  BY <1>1, <1>3 DEF NetInv

LEMMA NetStep == NetInv /\ [NetNext]_netVars => NetInv'
<1> SUFFICES ASSUME NetInv, [NetNext]_netVars
             PROVE  NetInv'
  OBVIOUS
<1> PICK s : s = net
  OBVIOUS
<1> PICK u : u = net'
  OBVIOUS
<1>1. ASSUME dns' = dns, GoodScan(u)
      PROVE  NetInv'
  BY <1>1 DEF NetInv, GoodScan, Answers
<1>2. ASSUME s.phase # "idle", DOMAIN u = NetFields, u.args = s.args, u.next = s.next, u.requests = s.requests,
             u.waiting \subseteq DOMAIN s.requests, u.probes = s.probes, u.audit = s.audit
      PROVE  GoodScan(u)
  BY <1>2 DEF NetInv, GoodScan
<1>3. CASE StartMain
  <2>1. /\ DOMAIN u = NetFields /\ u.args \in Invocations /\ u.next = 1 /\ u.requests = <<>> /\ u.waiting = {}
        /\ u.probes = {} /\ u.audit = {} /\ dns' = dns
    BY <1>3 DEF StartMain, NetFields
  <2>2. <<>> \in Seq(ToSet(<<>>)) /\ DOMAIN <<>> = {}
    BY EmptySeq
  <2>3. GoodScan(u)
    BY <2>1, <2>2 DEF GoodScan
  <2>4. QED
    BY <1>1, <2>1, <2>3
<1>4. CASE PrepareTarget \/ Result
  BY <1>4, PrepareKeeps, ResultKeeps
<1>5. CASE ScopeExpires \/ StartProbing \/ Finish
  <2>1. s.phase # "idle" /\ dns' = dns
    BY <1>5 DEF ScopeExpires, StartProbing, Finish
  <2>2. GoodScan(s)
    BY <2>1 DEF NetInv
  <2>3. /\ DOMAIN u = NetFields /\ u.args = s.args /\ u.next = s.next /\ u.requests = s.requests
        /\ u.waiting \subseteq DOMAIN s.requests /\ u.probes = s.probes /\ u.audit = s.audit
    <3>1. CASE ScopeExpires
      BY <2>2, <3>1 DEF ScopeExpires, GoodScan, NetFields
    <3>2. CASE StartProbing
      BY <2>2, <3>2 DEF StartProbing, GoodScan, NetFields
    <3>3. CASE Finish
      BY <2>2, <3>3 DEF Finish, GoodScan, NetFields
    <3>4. QED
      BY <1>5, <3>1, <3>2, <3>3
  <2>4. QED
    BY <1>1, <1>2, <2>1, <2>3
<1>6. CASE DnsChanges
  <2>1. net' = net /\ \E h \in DOMAIN Resolves : \E answer \in Resolves[h] : dns' = [dns EXCEPT ![h] = answer]
    BY <1>6 DEF DnsChanges
  <2>2. Answers'
    BY <2>1 DEF NetInv, Answers
  <2>3. QED
    BY <2>1, <2>2 DEF NetInv, GoodScan
<1>7. CASE UNCHANGED netVars
  BY <1>7 DEF netVars, NetInv, GoodScan, Answers
<1>8. QED
  BY <1>3, <1>4, <1>5, <1>6, <1>7 DEF NetNext

\* Whatever names resolve to while a scan runs, whatever invocation and scope, a
\* connection is made to an address that was judged for its host and port, to none that
\* is restricted, and to a private one only where that is allowed
\* (network/main.py, authorization.py, security.py).
THEOREM ProbesAreAuthorized == NetSpec => []OnlyAuthorizedProbes
<1>1. NetInit => NetInv
  BY NetBegins
<1>2. NetInv => OnlyAuthorizedProbes
  BY DEF NetInv, GoodScan, Fit, OnlyAuthorizedProbes
<1>3. QED
  BY <1>1, <1>2, NetStep, PTL DEF NetSpec

-----------------------------------------------------------------------------
(* What a scan of a network says at its end.  Until a target is reached it *)
(* waits in the list; then it is refused or has a request; then it has an  *)
(* answer.                                                                 *)

KeysOf(requests) == {FindingKey(requests[i]) : i \in DOMAIN requests}

Told(s) ==
  \A i \in DOMAIN s.args.targets :
     i < s.next => FindingKey(s.args.targets[i]) \in s.failed \cup KeysOf(s.requests)

FindingFields == {"status", "chain", "versions", "suites", "weak", "trust", "quantum"}

WeakOf(chain) == {c \in ToSet(chain) : Cert[c].sig = "weak"}

\* Certificates are only received over TLS, and their weakness is noted.
GoodFinding(f, tls) ==
  /\ DOMAIN f = FindingFields
  /\ f.chain \in Seq(DOMAIN Cert)
  /\ WeakOf(f.chain) \subseteq f.weak
  /\ ~tls => f.chain = <<>>

Probed(s) ==
  /\ \A i \in DOMAIN s.args.targets : i < s.next
  /\ DOMAIN s.found = KeysOf(s.requests)
  /\ s.arrived \in Seq(KeysOf(s.requests))
  /\ \A i \in DOMAIN s.requests : i \in s.waiting \/ FindingKey(s.requests[i]) \in ToSet(s.arrived)
  /\ \A k \in DOMAIN s.found : GoodFinding(s.found[k], s.args.protocol = "tls")
  /\ \A k \in DOMAIN s.found : Heard(s.found[k]) => k \in ToSet(s.arrived)

NothingReported(s) == s.arrived = <<>> /\ s.inventory = <<>> /\ s.report = {}

Accounted(s) ==
  /\ Told(s)
  /\ s.phase = "preparing" => NothingReported(s)
  /\ s.phase = "probing" => Probed(s) /\ s.inventory = <<>> /\ s.report = {}

AccountInv == NetInv /\ (net.phase = "idle" \/ Accounted(net))

LEMMA RefusedIsTold ==
  ASSUME NEW s, GoodScan(s), Accounted(s), s.phase = "preparing", NEW t, t = s.args.targets[s.next], NEW records
  PROVE  Accounted(Refused(s, t, records))
<1> PICK u : u = Refused(s, t, records)
  OBVIOUS
<1>1. /\ u.args = s.args /\ u.next = s.next + 1 /\ u.requests = s.requests /\ u.failed = s.failed \cup {FindingKey(t)}
      /\ u.phase = s.phase /\ u.arrived = s.arrived /\ u.inventory = s.inventory /\ u.report = s.report
  BY DEF Refused, GoodScan, NetFields
<1>2. Told(u)
  <2> SUFFICES ASSUME NEW i \in DOMAIN s.args.targets, i < s.next + 1
               PROVE  FindingKey(s.args.targets[i]) \in u.failed \cup KeysOf(s.requests)
    BY <1>1 DEF Told
  <2>1. i < s.next \/ i = s.next
    <3> PICK targets : targets = s.args.targets
      OBVIOUS
    <3>1. targets \in Seq(ToSet(targets)) /\ s.next \in Nat
      BY ResolutionAssumption DEF GoodScan
    <3>2. i \in Nat
      BY <3>1, LenProperties
    <3>3. QED
      BY <3>1, <3>2
  <2>2. QED
    BY <1>1, <2>1 DEF Accounted, Told
<1>3. QED
  BY <1>1, <1>2 DEF Accounted, NothingReported

LEMMA PinnedIsTold ==
  ASSUME NEW s, GoodScan(s), Accounted(s), s.phase = "preparing", NEW t, t = s.args.targets[s.next], NEW ip
  PROVE  Accounted(Pinned(s, t, ip))
<1> PICK u : u = Pinned(s, t, ip)
  OBVIOUS
<1> PICK r : r = [host |-> t.host, port |-> t.port, ip |-> ip]
  OBVIOUS
<1>1. /\ u.args = s.args /\ u.next = s.next + 1 /\ u.requests = Append(s.requests, r) /\ u.failed = s.failed
      /\ u.phase = s.phase /\ u.arrived = s.arrived /\ u.inventory = s.inventory /\ u.report = s.report
  BY DEF Pinned, GoodScan, NetFields
<1>2. KeysOf(s.requests) \cup {FindingKey(t)} \subseteq KeysOf(u.requests)
  <2> PICK old : old = s.requests
    OBVIOUS
  <2> PICK new : new = u.requests
    OBVIOUS
  <2>1. old \in Seq(ToSet(old)) /\ new = Append(old, r)
    BY <1>1, Zenon DEF GoodScan
  <2>2. old \in Seq(ToSet(old) \cup {r}) /\ r \in ToSet(old) \cup {r}
    BY <2>1, SeqMonotonic
  <2>3. Len(new) = Len(old) + 1 /\ new[Len(old) + 1] = r /\ (\A i \in 1 .. Len(old) : new[i] = old[i])
        /\ new \in Seq(ToSet(old) \cup {r})
    BY <2>1, <2>2, AppendProperties, SMTT(30)
  <2>4. DOMAIN new = 1 .. Len(old) + 1 /\ DOMAIN old = 1 .. Len(old) /\ Len(old) \in Nat
    BY <2>2, <2>3, LenProperties
  <2>5. \A i \in DOMAIN old : i \in DOMAIN new /\ new[i] = old[i]
    BY <2>3, <2>4, SMTT(30)
  <2>6. Len(old) + 1 \in DOMAIN new /\ FindingKey(r) = FindingKey(t)
    BY <2>4 DEF FindingKey
  <2>7. QED
    BY <2>3, <2>5, <2>6, ZenonT(30) DEF KeysOf
<1>3. Told(u)
  <2> SUFFICES ASSUME NEW i \in DOMAIN s.args.targets, i < s.next + 1
               PROVE  FindingKey(s.args.targets[i]) \in s.failed \cup KeysOf(u.requests)
    BY <1>1 DEF Told
  <2>1. i < s.next \/ i = s.next
    <3> PICK targets : targets = s.args.targets
      OBVIOUS
    <3>1. targets \in Seq(ToSet(targets)) /\ s.next \in Nat
      BY ResolutionAssumption DEF GoodScan
    <3>2. i \in Nat
      BY <3>1, LenProperties
    <3>3. QED
      BY <3>1, <3>2
  <2>2. QED
    BY <1>2, <2>1 DEF Accounted, Told
<1>4. QED
  BY <1>1, <1>3 DEF Accounted, NothingReported

LEMMA PrepareAccounts == AccountInv /\ PrepareTarget => Accounted(net')
<1> SUFFICES ASSUME AccountInv, PrepareTarget
             PROVE  Accounted(net')
  OBVIOUS
<1> PICK s : s = net
  OBVIOUS
<1> PICK t : t = s.args.targets[s.next]
  OBVIOUS
<1>1. GoodScan(s) /\ Accounted(s) /\ s.phase = "preparing" /\ net' = Prepared(s, t)
  BY DEF AccountInv, NetInv, PrepareTarget
<1>2. (\E records : net' = Refused(s, t, records)) \/ \E ip : net' = Pinned(s, t, ip)
  BY <1>1 DEF Prepared
<1>3. QED
  BY <1>1, <1>2, RefusedIsTold, PinnedIsTold

\* What an answer adds to a finding.
LEMMA FindingFails ==
  ASSUME NEW f, NEW tls, GoodFinding(f, tls)
  PROVE  GoodFinding([f EXCEPT !.status = "failed"], tls) /\ ~Heard([f EXCEPT !.status = "failed"])
BY DEF GoodFinding, FindingFields, Heard

LEMMA SshFindingIsGood ==
  ASSUME NEW f, GoodFinding(f, FALSE), NEW server, NEW received
  PROVE  GoodFinding(SshFinding(f, server, received), FALSE)
<1> PICK u : u = SshFinding(f, server, received)
  OBVIOUS
<1>1. DOMAIN u = FindingFields /\ u.chain = f.chain /\ f.chain = <<>>
  BY DEF SshFinding, GoodFinding, FindingFields
<1>2. WeakOf(<<>>) = {} /\ <<>> \in Seq(DOMAIN Cert)
  <2>1. DOMAIN <<>> = {}
    OBVIOUS
  <2>2. QED
    BY <2>1, EmptySeq DEF WeakOf, ToSet
<1>3. QED
  BY <1>1, <1>2 DEF GoodFinding

LEMMA TlsFindingIsGood ==
  ASSUME NEW f, GoodFinding(f, TRUE), NEW server, server.chain \in Seq(DOMAIN Cert), NEW received, NEW reachable
  PROVE  GoodFinding(TlsFinding(f, server, received, reachable), TRUE)
<1> PICK spoken : spoken = [f EXCEPT !.versions = @ \cup server.versions, !.suites = @ \cup server.suites,
                               !.chain = IF received THEN @ \o server.chain ELSE @,
                               !.status = IF received THEN "success" ELSE "partial"]
  OBVIOUS
<1> PICK probed : probed = LegacyProbed(spoken, server)
  OBVIOUS
<1> PICK u : u = Enriched(probed, reachable)
  OBVIOUS
<1>1. u = TlsFinding(f, server, received, reachable)
  BY Zenon DEF TlsFinding
<1>2. DOMAIN spoken = FindingFields /\ spoken.chain \in Seq(DOMAIN Cert)
  <2>1. DOMAIN spoken = FindingFields /\ spoken.chain = IF received THEN f.chain \o server.chain ELSE f.chain
    BY DEF GoodFinding, FindingFields
  <2>2. f.chain \o server.chain \in Seq(DOMAIN Cert)
    BY ConcatProperties DEF GoodFinding
  <2>3. QED
    BY <2>1, <2>2 DEF GoodFinding
<1>3. DOMAIN probed = FindingFields /\ probed.chain \in Seq(DOMAIN Cert)
  <2>1. DOMAIN probed = FindingFields
    BY <1>2 DEF LegacyProbed, FindingFields
  <2>2. \/ probed.chain = spoken.chain
        \/ server.chain # <<>> /\ probed.chain = <<Head(server.chain)>>
    BY <1>2 DEF LegacyProbed, FindingFields
  <2>3. server.chain # <<>> => Head(server.chain) \in DOMAIN Cert
    BY HeadTailProperties
  <2>4. \A c \in DOMAIN Cert : <<c>> \in Seq(DOMAIN Cert)
    BY OneIsList
  <2>5. probed.chain \in Seq(DOMAIN Cert)
    <3>1. CASE probed.chain = spoken.chain
      BY <1>2, <3>1
    <3>2. CASE server.chain # <<>> /\ probed.chain = <<Head(server.chain)>>
      BY <2>3, <2>4, <3>2
    <3>3. QED
      BY <2>2, <3>1, <3>2
  <2>6. QED
    BY <2>1, <2>5
<1>4. /\ DOMAIN u = FindingFields /\ u.chain = probed.chain
      /\ u.weak = probed.weak \cup ClassifyWeakAlgorithms(probed.versions, probed.suites, probed.chain)
  BY <1>3 DEF Enriched, FindingFields
<1>5. WeakOf(probed.chain) \subseteq u.weak
  <2> PICK chain : chain = probed.chain
    OBVIOUS
  <2>1. \A c \in ToSet(chain) :
          Cert[c].sig = "weak" => c \in {d \in ToSet(chain) : Cert[d].sig = "weak" \/ (WeakKey(d) /\ Cert[d].algo # "DSA")}
    OBVIOUS
  <2>2. {d \in ToSet(chain) : Cert[d].sig = "weak" \/ (WeakKey(d) /\ Cert[d].algo # "DSA")}
          \subseteq ClassifyWeakAlgorithms(probed.versions, probed.suites, chain)
    <3> PICK known : known = (probed.versions \cap OldVersions) \cup (UNION {Suite[x].flaws : x \in probed.suites})
      OBVIOUS
    <3> PICK own : own = {d \in ToSet(chain) : Cert[d].sig = "weak" \/ (WeakKey(d) /\ Cert[d].algo # "DSA")}
      OBVIOUS
    <3>1. ClassifyWeakAlgorithms(probed.versions, probed.suites, chain) = known \cup own
      BY DEF ClassifyWeakAlgorithms
    <3>2. QED
      BY <3>1
  <2>3. WeakOf(chain) \subseteq ClassifyWeakAlgorithms(probed.versions, probed.suites, chain)
    BY <2>1, <2>2 DEF WeakOf
  <2>4. QED
    BY <1>4, <2>3
<1>6. QED
  BY <1>1, <1>3, <1>4, <1>5 DEF GoodFinding

\* An answer to request i makes finding f of what was found before; what it adds is good.
IsAnswered(s, u, i, f) ==
  u = [s EXCEPT !.waiting = @ \ {i}, !.arrived = Append(@, FindingKey(s.requests[i])),
                !.probes = @ \cup {AuditRecord(s.requests[i], s.requests[i].ip, TRUE)},
                !.found[FindingKey(s.requests[i])] = f]

LEMMA ResultIs ==
  ASSUME Result, GoodScan(net)
  PROVE  \/ net'.phase = "crashed" /\ \E a : net' = [net EXCEPT !.phase = "crashed", !.probes = @ \cup {a}]
         \/ \E i \in net.waiting : \E f :
              /\ IsAnswered(net, net', i, f)
              /\ GoodFinding(net.found[FindingKey(net.requests[i])], net.args.protocol = "tls")
                   => GoodFinding(f, net.args.protocol = "tls")
<1> PICK s : s = net
  OBVIOUS
<1>1. PICK i \in net.waiting, up \in BOOLEAN, received \in BOOLEAN, reachable \in BOOLEAN :
        net' = Answer(net, i, up, received, reachable)
  BY DEF Result
<1> PICK r : r = s.requests[i]
  OBVIOUS
<1> PICK server : server = Server(r.ip, r.port)
  OBVIOUS
<1> PICK old : old = s.found[FindingKey(r)]
  OBVIOUS
<1> PICK f : f = IF ~(up /\ server # NoServer) THEN [old EXCEPT !.status = "failed"]
                 ELSE IF s.args.protocol = "tls" THEN TlsFinding(old, server, received, reachable)
                 ELSE SshFinding(old, server, received)
  OBVIOUS
<1>2. \/ net' = [s EXCEPT !.phase = "crashed", !.probes = @ \cup {AuditRecord(r, r.ip, TRUE)}]
      \/ IsAnswered(s, net', i, f)
  BY <1>1, Zenon DEF IsAnswered, Answer, Connect
<1>3. GoodFinding(old, s.args.protocol = "tls") => GoodFinding(f, s.args.protocol = "tls")
  <2> SUFFICES ASSUME GoodFinding(old, s.args.protocol = "tls")
               PROVE  GoodFinding(f, s.args.protocol = "tls")
    OBVIOUS
  <2> PICK tls \in BOOLEAN : tls = (s.args.protocol = "tls")
    OBVIOUS
  <2>1. GoodFinding(old, tls)
    OBVIOUS
  <2>2. CASE ~(up /\ server # NoServer)
    BY <2>1, <2>2, FindingFails
  <2>3. CASE up /\ server # NoServer /\ tls = TRUE
    <3>1. server.chain \in Seq(DOMAIN Cert)
      BY <2>3, ServesAssumption DEF Server
    <3>2. f = TlsFinding(old, server, received, reachable)
      BY <2>3
    <3>3. GoodFinding(old, TRUE)
      BY <2>1, <2>3
    <3>4. GoodFinding(TlsFinding(old, server, received, reachable), TRUE)
      BY <3>1, <3>3, TlsFindingIsGood
    <3>5. QED
      BY <2>3, <3>2, <3>4
  <2>4. CASE up /\ server # NoServer /\ tls = FALSE
    <3>1. f = SshFinding(old, server, received)
      BY <2>4
    <3>2. GoodFinding(old, FALSE)
      BY <2>1, <2>4
    <3>3. GoodFinding(SshFinding(old, server, received), FALSE)
      BY <3>2, SshFindingIsGood
    <3>4. QED
      BY <2>4, <3>1, <3>3
  <2>5. QED
    BY <2>2, <2>3, <2>4
<1>4. CASE net' = [s EXCEPT !.phase = "crashed", !.probes = @ \cup {AuditRecord(r, r.ip, TRUE)}]
  <2> PICK a : a = AuditRecord(r, r.ip, TRUE)
    OBVIOUS
  <2>1. "phase" \in DOMAIN s /\ net' = [s EXCEPT !.phase = "crashed", !.probes = @ \cup {a}]
    BY <1>4 DEF GoodScan, NetFields
  <2>2. net'.phase = "crashed"
    BY <2>1
  <2>3. QED
    BY <2>1, <2>2
<1>5. CASE IsAnswered(s, net', i, f)
  BY <1>3, <1>5
<1>6. QED
  BY <1>2, <1>4, <1>5

\* A list with one more element has that one too.
LEMMA OneMoreHas ==
  ASSUME NEW V, NEW old \in Seq(V), NEW x \in V
  PROVE  Append(old, x) \in Seq(V) /\ ToSet(Append(old, x)) = ToSet(old) \cup {x}
<1> PICK new : new = Append(old, x)
  OBVIOUS
<1>1. /\ new \in Seq(V) /\ Len(new) = Len(old) + 1 /\ new[Len(old) + 1] = x
      /\ \A i \in 1 .. Len(old) : new[i] = old[i]
  BY AppendProperties
<1>2. DOMAIN new = 1 .. Len(old) + 1 /\ DOMAIN old = 1 .. Len(old) /\ Len(old) \in Nat
  BY <1>1, LenProperties
<1>3. \A i \in 1 .. Len(old) + 1 : i \in 1 .. Len(old) \/ i = Len(old) + 1
  BY <1>2
<1>4. \A i \in 1 .. Len(old) : i \in 1 .. Len(old) + 1
  BY <1>2
<1>5. Len(old) + 1 \in 1 .. Len(old) + 1
  BY <1>2
<1> PICK n : n = Len(old)
  OBVIOUS
<1>6. ToSet(new) = ToSet(old) \cup {x}
  BY <1>1, <1>2, <1>3, <1>4, <1>5 DEF ToSet
<1>7. QED
  BY <1>1, <1>6

LEMMA ResultAccounts == AccountInv /\ Result => Accounted(net')
<1> SUFFICES ASSUME AccountInv, Result
             PROVE  Accounted(net')
  OBVIOUS
<1> PICK s : s = net
  OBVIOUS
<1> PICK u : u = net'
  OBVIOUS
<1>1. GoodScan(s) /\ Accounted(s) /\ s.phase = "probing"
  BY DEF AccountInv, NetInv, Result
<1>2. Told(s) /\ Probed(s) /\ s.inventory = <<>> /\ s.report = {} /\ DOMAIN s = NetFields
  BY <1>1 DEF Accounted, GoodScan
<1>3. \/ u.phase = "crashed" /\ \E a : u = [s EXCEPT !.phase = "crashed", !.probes = @ \cup {a}]
      \/ \E i \in s.waiting : \E f :
           /\ IsAnswered(s, u, i, f)
           /\ GoodFinding(s.found[FindingKey(s.requests[i])], s.args.protocol = "tls")
                => GoodFinding(f, s.args.protocol = "tls")
  BY <1>1, ResultIs
<1>4. CASE u.phase = "crashed" /\ \E a : u = [s EXCEPT !.phase = "crashed", !.probes = @ \cup {a}]
  <2>1. u.args = s.args /\ u.next = s.next /\ u.failed = s.failed /\ u.requests = s.requests
    BY <1>2, <1>4 DEF NetFields
  <2>2. Told(u)
    BY <1>2, <2>1 DEF Told
  <2>3. QED
    BY <1>4, <2>2 DEF Accounted
<1>5. CASE \E i \in s.waiting : \E f :
             /\ IsAnswered(s, u, i, f)
             /\ GoodFinding(s.found[FindingKey(s.requests[i])], s.args.protocol = "tls")
                  => GoodFinding(f, s.args.protocol = "tls")
  <2> PICK i \in s.waiting : \E f :
          /\ IsAnswered(s, u, i, f)
          /\ GoodFinding(s.found[FindingKey(s.requests[i])], s.args.protocol = "tls")
               => GoodFinding(f, s.args.protocol = "tls")
    BY <1>5
  <2>1. PICK f :
          /\ IsAnswered(s, u, i, f)
          /\ GoodFinding(s.found[FindingKey(s.requests[i])], s.args.protocol = "tls")
               => GoodFinding(f, s.args.protocol = "tls")
    OBVIOUS
  <2> PICK key : key = FindingKey(s.requests[i])
    OBVIOUS
  <2> PICK tls \in BOOLEAN : tls = (s.args.protocol = "tls")
    OBVIOUS
  <2>2. key \in KeysOf(s.requests)
    BY <1>1 DEF GoodScan, KeysOf
  <2>3. GoodFinding(f, tls)
    <3>1. GoodFinding(s.found[key], tls)
      BY <1>2, <2>2 DEF Probed
    <3>2. QED
      BY <2>1, <3>1
  <2>4. /\ u.args = s.args /\ u.next = s.next /\ u.failed = s.failed /\ u.requests = s.requests
        /\ u.waiting = s.waiting \ {i} /\ u.arrived = Append(s.arrived, key)
        /\ u.found = [s.found EXCEPT ![key] = f]
        /\ u.inventory = s.inventory /\ u.report = s.report /\ u.phase = s.phase
    <3> PICK a : a = AuditRecord(s.requests[i], s.requests[i].ip, TRUE)
      OBVIOUS
    <3> PICK arrived : arrived = Append(s.arrived, key)
      OBVIOUS
    <3> PICK found : found = [s.found EXCEPT ![key] = f]
      OBVIOUS
    <3>1. u = [s EXCEPT !.waiting = @ \ {i}, !.arrived = arrived, !.probes = @ \cup {a}, !.found = found]
      BY <2>1 DEF IsAnswered
    <3>2. QED
      BY <1>2, <3>1 DEF NetFields
  <2>5. Told(u)
    BY <1>2, <2>4 DEF Told
  <2>6. u.arrived \in Seq(KeysOf(s.requests)) /\ ToSet(u.arrived) = ToSet(s.arrived) \cup {key}
    <3> PICK V : V = KeysOf(s.requests)
      OBVIOUS
    <3>1. s.arrived \in Seq(V) /\ key \in V
      BY <1>2, <2>2 DEF Probed
    <3>2. QED
      BY <2>4, <3>1, OneMoreHas
  <2>7. DOMAIN u.found = DOMAIN s.found /\ \A k \in DOMAIN s.found : u.found[k] = IF k = key THEN f ELSE s.found[k]
    BY <2>4
  <2>8. \A k \in DOMAIN u.found : GoodFinding(u.found[k], u.args.protocol = "tls")
    <3>1. \A k \in DOMAIN s.found : GoodFinding(s.found[k], tls)
      BY <1>2 DEF Probed
    <3>2. \A k \in DOMAIN u.found : GoodFinding(u.found[k], tls)
      BY <2>3, <2>7, <3>1
    <3>3. QED
      BY <2>4, <3>2
  <2>9. \A k \in DOMAIN u.found : Heard(u.found[k]) => k \in ToSet(u.arrived)
    <3>1. \A k \in DOMAIN s.found : Heard(s.found[k]) => k \in ToSet(s.arrived)
      BY <1>2 DEF Probed
    <3>2. QED
      BY <2>6, <2>7, <3>1
  <2>10. \A j \in DOMAIN u.requests : j \in u.waiting \/ FindingKey(u.requests[j]) \in ToSet(u.arrived)
    <3>1. \A j \in DOMAIN s.requests : j \in s.waiting \/ FindingKey(s.requests[j]) \in ToSet(s.arrived)
      BY <1>2 DEF Probed
    <3>2. QED
      BY <2>4, <2>6, <3>1
  <2>11. DOMAIN u.found = KeysOf(u.requests) /\ \A j \in DOMAIN u.args.targets : j < u.next
    BY <1>2, <2>4, <2>7 DEF Probed
  <2>12. Probed(u)
    BY <2>4, <2>6, <2>8, <2>9, <2>10, <2>11 DEF Probed
  <2>13. QED
    BY <1>1, <1>2, <2>4, <2>5, <2>12 DEF Accounted
<1>6. QED
  BY <1>3, <1>4, <1>5

LEMMA ProbingAccounts == AccountInv /\ StartProbing => Accounted(net')
<1> SUFFICES ASSUME AccountInv, StartProbing
             PROVE  Accounted(net')
  OBVIOUS
<1> PICK s : s = net
  OBVIOUS
<1> PICK u : u = net'
  OBVIOUS
<1>1. GoodScan(s) /\ Accounted(s) /\ s.phase = "preparing" /\ s.next > Len(s.args.targets)
  BY DEF AccountInv, NetInv, StartProbing
<1>2. Told(s) /\ NothingReported(s) /\ DOMAIN s = NetFields
  BY <1>1 DEF Accounted, GoodScan
<1>3. /\ u.phase = "probing" /\ u.args = s.args /\ u.next = s.next /\ u.failed = s.failed /\ u.requests = s.requests
      /\ u.waiting = DOMAIN s.requests /\ u.arrived = s.arrived /\ u.inventory = s.inventory /\ u.report = s.report
      /\ u.found = [k \in {FindingKey(r) : r \in ToSet(s.requests)} |-> NewFinding]
  <2> PICK found : found = [k \in {FindingKey(r) : r \in ToSet(s.requests)} |-> NewFinding]
    OBVIOUS
  <2>1. u = [s EXCEPT !.phase = "probing", !.waiting = DOMAIN s.requests, !.found = found]
    BY DEF StartProbing
  <2>2. QED
    BY <1>2, <2>1 DEF NetFields
<1>4. {FindingKey(r) : r \in ToSet(s.requests)} = KeysOf(s.requests)
  BY DEF ToSet, KeysOf
<1>5. \A tls : GoodFinding(NewFinding, tls) /\ ~Heard(NewFinding)
  <2>1. DOMAIN <<>> = {} /\ <<>> \in Seq(DOMAIN Cert)
    BY EmptySeq
  <2>2. WeakOf(<<>>) = {}
    BY <2>1 DEF WeakOf, ToSet
  <2>3. DOMAIN NewFinding = FindingFields /\ NewFinding.chain = <<>> /\ NewFinding.weak = {} /\ NewFinding.status = "failed"
    BY DEF NewFinding, FindingFields
  <2>4. QED
    BY <2>1, <2>2, <2>3 DEF GoodFinding, Heard
<1>6. \A i \in DOMAIN s.args.targets : i < s.next
  <2> PICK targets : targets = s.args.targets
    OBVIOUS
  <2> PICK n : n = s.next
    OBVIOUS
  <2>1. targets \in Seq(ToSet(targets)) /\ n \in Nat /\ n > Len(targets)
    BY <1>1, ResolutionAssumption DEF GoodScan
  <2>2. DOMAIN targets = 1 .. Len(targets) /\ Len(targets) \in Nat
    BY <2>1, LenProperties
  <2>3. \A i \in DOMAIN targets : i < n
    BY <2>1, <2>2
  <2>4. QED
    BY <2>3
<1>7. u.arrived \in Seq(KeysOf(u.requests))
  BY <1>2, <1>3, EmptySeq DEF NothingReported
<1>8. DOMAIN u.found = KeysOf(u.requests) /\ \A k \in DOMAIN u.found : u.found[k] = NewFinding
  BY <1>3, <1>4
<1>9. Probed(u)
  BY <1>3, <1>5, <1>6, <1>7, <1>8 DEF Probed
<1>10. Told(u)
  BY <1>2, <1>3 DEF Told
<1>11. QED
  BY <1>2, <1>3, <1>9, <1>10 DEF Accounted, NothingReported

LEMMA AccountStep == AccountInv /\ [NetNext]_netVars => AccountInv'
<1> SUFFICES ASSUME AccountInv, [NetNext]_netVars
             PROVE  AccountInv'
  OBVIOUS
<1> SUFFICES net'.phase = "idle" \/ Accounted(net')
  <2>1. NetInv'
    BY NetStep DEF AccountInv
  <2>2. (net.phase = "idle" \/ Accounted(net))' <=> (net'.phase = "idle" \/ Accounted(net'))
    BY DEF Accounted, Told, KeysOf, NothingReported, Probed
  <2>3. QED
    BY <2>1, <2>2 DEF AccountInv
<1> PICK s : s = net
  OBVIOUS
<1> PICK u : u = net'
  OBVIOUS
<1>1. CASE StartMain
  <2>1. /\ u.phase = "preparing" /\ u.args \in Invocations /\ u.next = 1
        /\ u.arrived = <<>> /\ u.inventory = <<>> /\ u.report = {}
    BY <1>1 DEF StartMain
  <2>2. Told(u)
    <3> PICK targets : targets = u.args.targets
      OBVIOUS
    <3>1. targets \in Seq(ToSet(targets))
      BY <2>1, ResolutionAssumption
    <3>2. \A i \in DOMAIN targets : i \in Nat \ {0}
      BY <3>1, LenProperties
    <3>3. \A i \in DOMAIN targets : ~(i < 1)
      BY <3>2
    <3>4. QED
      BY <2>1, <3>3 DEF Told
  <2>3. QED
    BY <2>1, <2>2 DEF Accounted, NothingReported
<1>2. CASE PrepareTarget \/ StartProbing \/ Result
  BY <1>2, PrepareAccounts, ProbingAccounts, ResultAccounts
<1>3. CASE ScopeExpires
  <2>1. GoodScan(s) /\ Accounted(s) /\ s.phase = "preparing"
    BY <1>3 DEF AccountInv, NetInv, ScopeExpires
  <2>2. /\ u.phase = s.phase /\ u.args = s.args /\ u.next = s.next /\ u.failed = s.failed /\ u.requests = s.requests
        /\ u.arrived = s.arrived /\ u.inventory = s.inventory /\ u.report = s.report
    BY <1>3, <2>1 DEF ScopeExpires, GoodScan, NetFields
  <2>3. QED
    BY <2>1, <2>2 DEF Accounted, Told, NothingReported
<1>4. CASE Finish
  <2>1. GoodScan(s) /\ Accounted(s)
    BY <1>4 DEF AccountInv, NetInv, Finish
  <2>2. u.phase = "done" /\ u.args = s.args /\ u.next = s.next /\ u.failed = s.failed /\ u.requests = s.requests
    BY <1>4, <2>1 DEF Finish, GoodScan, NetFields
  <2>3. QED
    BY <2>1, <2>2 DEF Accounted, Told
<1>5. CASE DnsChanges \/ UNCHANGED netVars
  <2>1. net' = net
    BY <1>5 DEF DnsChanges, netVars
  <2>2. QED
    BY <2>1 DEF AccountInv
<1>6. QED
  BY <1>1, <1>2, <1>3, <1>4, <1>5 DEF NetNext

-----------------------------------------------------------------------------
(* The report of a scan of a network.  Findings are taken one after the     *)
(* other; the inventory is right after each of them, in whatever order.     *)

\* A row of reported states, each got from the one before and one answer.
ReportRow(g, state, n) ==
  g = [s \in SUBSET (1..n) |->
         IF s = {} THEN state ELSE ReportOne(g[s \ {Max(s)}], state.arrived[Max(s)])]

LEMMA ReportRowGrows ==
  ASSUME NEW state, NEW m \in Nat, NEW g, ReportRow(g, state, m)
  PROVE  \E f : ReportRow(f, state, m + 1)
<1> DEFINE f == [s \in SUBSET (1..(m + 1)) |->
                   IF s \in SUBSET (1..m) THEN g[s] ELSE ReportOne(g[s \ {m + 1}], state.arrived[m + 1])]
<1>1. ASSUME NEW s \in SUBSET (1..(m + 1)), s \notin SUBSET (1..m)
      PROVE  m + 1 \in s /\ s \ {m + 1} \in SUBSET (1..m) /\ Max(s) = m + 1
  <2>1. m + 1 \in s /\ s \ {m + 1} \in SUBSET (1..m)
    BY <1>1
  <2>2. QED
    BY <2>1, MaxOfInitial
<1>2. ASSUME NEW s \in SUBSET (1..(m + 1))
      PROVE  f[s] = IF s = {} THEN state ELSE ReportOne(f[s \ {Max(s)}], state.arrived[Max(s)])
  <2>1. CASE s \in SUBSET (1..m)
    <3>1. g[s] = IF s = {} THEN state ELSE ReportOne(g[s \ {Max(s)}], state.arrived[Max(s)])
      BY <2>1 DEF ReportRow
    <3>2. s \ {Max(s)} \in SUBSET (1..m) /\ s \ {Max(s)} \in SUBSET (1..(m + 1))
      BY <2>1
    <3>3. f[s] = g[s] /\ f[s \ {Max(s)}] = g[s \ {Max(s)}]
      BY <2>1, <3>2
    <3>4. QED
      BY <3>1, <3>3
  <2>2. CASE s \notin SUBSET (1..m)
    <3>1. m + 1 \in s /\ s \ {m + 1} \in SUBSET (1..m) /\ Max(s) = m + 1 /\ s \ {m + 1} \in SUBSET (1..(m + 1))
      BY <1>1, <2>2
    <3>2. f[s] = ReportOne(g[s \ {m + 1}], state.arrived[m + 1]) /\ f[s \ {m + 1}] = g[s \ {m + 1}]
      BY <2>2, <3>1
    <3>3. QED
      BY <3>1, <3>2
  <2>3. QED
    BY <2>1, <2>2
<1>3. f = [s \in SUBSET (1..(m + 1)) |-> f[s]]
  OBVIOUS
<1> HIDE DEF f
<1>4. ReportRow(f, state, m + 1)
  BY <1>2, <1>3 DEF ReportRow
<1>5. QED
  BY <1>4

LEMMA ReportSteps ==
  ASSUME NEW state, NEW n \in Nat, DOMAIN state.arrived = 1..n
  PROVE  \E h : /\ h[0] = state /\ Report(state) = h[n]
                /\ \A i \in 1..n : h[i] = ReportOne(h[i - 1], state.arrived[i])
<1> DEFINE iter == CHOOSE g : ReportRow(g, state, n)
<1>1. Report(state) = iter[1..n]
  BY DEF Report, FoldLeft, MapThenFoldSet, ReportRow
<1>2. \E g : ReportRow(g, state, n)
  <2> DEFINE good == {m \in 0..n : \E g : ReportRow(g, state, m)}
  <2>1. 0 \in good
    <3> DEFINE g == [s \in SUBSET (1..0) |-> state]
    <3>1. \A s \in SUBSET (1..0) : s = {}
      OBVIOUS
    <3>2. ReportRow(g, state, 0)
      BY <3>1 DEF ReportRow
    <3> HIDE DEF g
    <3>3. \E f : ReportRow(f, state, 0)
      BY <3>2
    <3>4. QED
      BY <3>3
  <2>2. ASSUME NEW i \in 1..n, i - 1 \in good PROVE i \in good
    <3>1. i - 1 \in Nat /\ (i - 1) + 1 = i
      OBVIOUS
    <3>2. PICK g : ReportRow(g, state, i - 1)
      BY <2>2
    <3>3. \E f : ReportRow(f, state, (i - 1) + 1)
      BY <3>1, <3>2, ReportRowGrows
    <3>4. \E f : ReportRow(f, state, i)
      BY <3>1, <3>3
    <3>5. QED
      BY <3>4
  <2> HIDE DEF good
  <2>3. \A i \in 0..n : i \in good
    BY <2>1, <2>2, CountUp
  <2>4. n \in good
    BY <2>3
  <2>5. QED
    BY <2>4 DEF good
<1>3. ReportRow(iter, state, n)
  BY <1>2
<1> HIDE DEF iter
<1> DEFINE h == [i \in 0..n |-> iter[1..i]]
<1>4. \A s \in SUBSET (1..n) :
        iter[s] = IF s = {} THEN state ELSE ReportOne(iter[s \ {Max(s)}], state.arrived[Max(s)])
  BY <1>3 DEF ReportRow
<1>5. h[0] = state /\ h[n] = iter[1..n]
  <2>1. 1..0 \in SUBSET (1..n) /\ 1..0 = {}
    OBVIOUS
  <2>2. iter[1..0] = state
    BY <1>4, <2>1
  <2>3. QED
    BY <2>2
<1>6. ASSUME NEW i \in 1..n PROVE h[i] = ReportOne(h[i - 1], state.arrived[i])
  <2>1. iter[1..i] = ReportOne(iter[1..(i - 1)], state.arrived[i])
    BY <1>4, PrefixSteps
  <2>2. i \in 0..n /\ i - 1 \in 0..n
    OBVIOUS
  <2>3. QED
    BY <2>1, <2>2
<1> HIDE DEF h
<1>7. QED
  BY <1>1, <1>5, <1>6

ItemFields == {"chain", "trust", "endpoints", "renewal", "anomalies"}

Served(S, hd, f) == {k \in S : hd[k] = f}

OnHost(item, h) == \E e \in item.endpoints : e.host = h

\* Another certificate than f is on host h too.
Contested(inv, f, h) == OnHost(inv[f], h) /\ \E g \in DOMAIN inv \ {f} : OnHost(inv[g], h)

Replaced(inv, f) ==
  \E g \in DOMAIN inv \ {f} : Cert[g].subject = Cert[f].subject /\ RenewalState(g) \in {"OK", "EXPIRING_SOON"}

Renewal(inv, f) == IF RenewalState(f) = "EXPIRED" /\ Replaced(inv, f) THEN "RENEWED" ELSE RenewalState(f)

\* The inventory once the endpoints S with the certificates hd were entered; weak is
\* what was noted of each.
ItemsAre(inv, S, hd) ==
  /\ DOMAIN inv = {hd[k] : k \in S} /\ IsFiniteSet(DOMAIN inv)
  /\ \A f \in DOMAIN inv : DOMAIN inv[f] = ItemFields /\ inv[f].endpoints = Served(S, hd, f)

HostsAre(inv) == \A f \in DOMAIN inv : \A h : <<"several", h>> \in inv[f].anomalies <=> Contested(inv, f, h)

RenewalsAre(inv) == \A f \in DOMAIN inv : inv[f].renewal = Renewal(inv, f)

ChainsAre(inv, weak) ==
  \A f \in DOMAIN inv : \A c \in WeakOf(inv[f].chain) : \E k \in inv[f].endpoints : c \in weak[k]

GoodInventory(inv, S, hd, weak) ==
  ItemsAre(inv, S, hd) /\ HostsAre(inv) /\ RenewalsAre(inv) /\ ChainsAre(inv, weak)

LEMMA NothingIsGood ==
  ASSUME NEW hd, NEW weak
  PROVE  GoodInventory(<<>>, {}, hd, weak)
<1>1. DOMAIN <<>> = {} /\ {hd[k] : k \in {}} = {} /\ IsFiniteSet({})
  BY FS_EmptySet
<1>2. QED
  BY <1>1 DEF GoodInventory, ItemsAre, HostsAre, RenewalsAre, ChainsAre

\* What AddOrUpdate enters is the item of one certificate.
IsAdded(mid, inv, S, hd, chain, fp) ==
  /\ ItemsAre(mid, S, hd)
  /\ fp \in DOMAIN mid /\ DOMAIN mid = DOMAIN inv \cup {fp}
  /\ mid[fp].chain = chain
  /\ mid[fp].renewal = RenewalState(fp)
  /\ \A h : <<"several", h>> \notin mid[fp].anomalies
  /\ \A f \in DOMAIN inv : f # fp => mid[f] = inv[f]

LEMMA AddedIs ==
  ASSUME NEW inv, NEW S, NEW hd, ItemsAre(inv, S, hd), NEW chain, NEW k, hd[k] = Head(chain),
         NEW mid, mid = AddOrUpdate(inv, chain, k), NEW fp, fp = Head(chain)
  PROVE  IsAdded(mid, inv, S \cup {k}, hd, chain, fp)
<1> PICK before : before = IF fp \in DOMAIN inv THEN inv[fp].endpoints ELSE {}
  OBVIOUS
<1> PICK anomalies : anomalies = DetectItemAnomalies(chain)
  OBVIOUS
<1> PICK item : item = [chain |-> chain, trust |-> TrustStatus(chain), endpoints |-> before \cup {k},
                        renewal |-> RenewalState(fp), anomalies |-> anomalies]
  OBVIOUS
<1>1. mid = [f \in DOMAIN inv \cup {fp} |-> IF f = fp THEN item ELSE inv[f]]
  BY Zenon DEF AddOrUpdate
<1>2. DOMAIN mid = DOMAIN inv \cup {fp} /\ mid[fp] = item /\ \A f \in DOMAIN inv : f # fp => mid[f] = inv[f]
  BY <1>1
<1>3. before = Served(S, hd, fp)
  <2>1. CASE fp \in DOMAIN inv
    BY <2>1 DEF ItemsAre
  <2>2. CASE fp \notin DOMAIN inv
    BY <2>2 DEF ItemsAre, Served
  <2>3. QED
    BY <2>1, <2>2
<1>4. ItemsAre(mid, S \cup {k}, hd)
  <2>1. DOMAIN mid = {hd[j] : j \in S \cup {k}}
    BY <1>2 DEF ItemsAre
  <2>2. IsFiniteSet(DOMAIN mid)
    BY <1>2, FS_AddElement DEF ItemsAre
  <2>3. DOMAIN item = ItemFields /\ item.endpoints = Served(S \cup {k}, hd, fp)
    BY <1>3 DEF ItemFields, Served
  <2>4. \A f \in DOMAIN inv : f # fp => DOMAIN mid[f] = ItemFields /\ mid[f].endpoints = Served(S \cup {k}, hd, f)
    BY <1>2 DEF ItemsAre, Served
  <2>5. QED
    BY <1>2, <2>1, <2>2, <2>3, <2>4 DEF ItemsAre
<1>5. \A h : <<"several", h>> \notin anomalies
  <2> PICK T : T = {a \in {"expired", "expiring", "weak_keys", "deprecated_signatures", "invalid_chains"} :
            \/ a = "expired" /\ Cert[fp].days < 0
            \/ a = "expiring" /\ RenewalState(fp) \in {"EXPIRING_SOON", "CRITICAL_EXPIRING"}
            \/ a = "weak_keys" /\ WeakKey(fp)
            \/ a = "deprecated_signatures" /\ Cert[fp].sig = "weak"
            \/ a = "invalid_chains" /\ InvalidChain(chain)}
    OBVIOUS
  <2>1. anomalies = {<<a, "itself">> : a \in T}
    BY DEF DetectItemAnomalies
  <2>2. "several" \notin T
    OBVIOUS
  <2>3. QED
    BY <2>1, <2>2
<1>6. QED
  BY <1>2, <1>4, <1>5 DEF IsAdded

\* More than one certificate is on a host: another one than f is.
LEMMA SeveralOnHost ==
  ASSUME NEW inv, IsFiniteSet(DOMAIN inv), NEW f \in DOMAIN inv, NEW h, OnHost(inv[f], h)
  PROVE  Cardinality(CertsOfHost(inv, h)) > 1 <=> Contested(inv, f, h)
<1> PICK C : C = CertsOfHost(inv, h)
  OBVIOUS
<1>1. C = {g \in DOMAIN inv : OnHost(inv[g], h)}
  BY DEF CertsOfHost, OnHost
<1>2. f \in C /\ C \subseteq DOMAIN inv /\ IsFiniteSet(C)
  BY <1>1, FS_Subset
<1>3. IsFiniteSet(C \ {f}) /\ Cardinality(C \ {f}) = Cardinality(C) - 1 /\ Cardinality(C) \in Nat
  BY <1>2, FS_RemoveElement, FS_CardinalityType
<1>4. Cardinality(C \ {f}) \in Nat /\ (Cardinality(C \ {f}) = 0 <=> C \ {f} = {})
  BY <1>3, FS_EmptySet, FS_CardinalityType
<1>5. Cardinality(C) > 1 <=> C \ {f} # {}
  <2> PICK a : a = Cardinality(C)
    OBVIOUS
  <2> PICK b : b = Cardinality(C \ {f})
    OBVIOUS
  <2>1. a \in Nat /\ b \in Nat /\ b = a - 1
    BY <1>3, <1>4
  <2>2. a > 1 <=> b # 0
    BY <2>1
  <2>3. QED
    BY <1>4, <2>2
<1>6. C \ {f} # {} <=> \E g \in DOMAIN inv \ {f} : OnHost(inv[g], h)
  BY <1>1
<1>7. QED
  BY <1>5, <1>6 DEF Contested

LEMMA DeploymentTells ==
  ASSUME NEW inv, IsFiniteSet(DOMAIN inv), NEW f \in DOMAIN inv, NEW production, NEW h
  PROVE  <<"several", h>> \in DeploymentAnomalies(inv, f, production) <=> Contested(inv, f, h)
<1> PICK hosts : hosts = {e.host : e \in inv[f].endpoints}
  OBVIOUS
<1> PICK own : own = IF production /\ SelfSigned(f) THEN {<<"production", "itself">>} ELSE {}
  OBVIOUS
<1> PICK crowded : crowded = {x \in hosts : Cardinality(CertsOfHost(inv, x)) > 1}
  OBVIOUS
<1>1. DeploymentAnomalies(inv, f, production) =
        {<<"several", x>> : x \in crowded} \cup {<<"mismatch", x>> : x \in hosts \ Cert[f].names} \cup own
  BY DEF DeploymentAnomalies
<1>2. <<"several", h>> \notin own
  OBVIOUS
<1>3. <<"several", h>> \notin {<<"mismatch", x>> : x \in hosts \ Cert[f].names}
  OBVIOUS
<1>4. <<"several", h>> \in {<<"several", x>> : x \in crowded} <=> h \in crowded
  OBVIOUS
<1>5. h \in hosts <=> OnHost(inv[f], h)
  BY DEF OnHost
<1>6. h \in crowded <=> h \in hosts /\ Cardinality(CertsOfHost(inv, h)) > 1
  OBVIOUS
<1>7. h \in crowded <=> Contested(inv, f, h)
  <2>1. CASE OnHost(inv[f], h)
    BY <1>5, <1>6, <2>1, SeveralOnHost
  <2>2. CASE ~OnHost(inv[f], h)
    BY <1>5, <1>6, <2>2 DEF Contested
  <2>3. QED
    BY <2>1, <2>2
<1>8. QED
  BY <1>1, <1>2, <1>3, <1>4, <1>7

LEMMA DetectedIs ==
  ASSUME NEW inv, \A f \in DOMAIN inv : DOMAIN inv[f] = ItemFields, NEW production,
         NEW u, u = DetectInconsistentDeployments(inv, production)
  PROVE  /\ DOMAIN u = DOMAIN inv
         /\ \A f \in DOMAIN inv :
               /\ DOMAIN u[f] = ItemFields /\ u[f].chain = inv[f].chain /\ u[f].endpoints = inv[f].endpoints
               /\ u[f].anomalies = inv[f].anomalies \cup DeploymentAnomalies(inv, f, production)
               /\ u[f].renewal = IF inv[f].renewal = "EXPIRED" /\ Successor(inv, f) THEN "RENEWED" ELSE inv[f].renewal
<1>1. u = [f \in DOMAIN inv |->
             [inv[f] EXCEPT
                !.anomalies = @ \cup DeploymentAnomalies(inv, f, production),
                !.renewal = IF @ = "EXPIRED" /\ Successor(inv, f) THEN "RENEWED" ELSE @]]
  BY DEF DetectInconsistentDeployments
<1>2. ASSUME NEW f \in DOMAIN inv
      PROVE  /\ DOMAIN u[f] = ItemFields /\ u[f].chain = inv[f].chain /\ u[f].endpoints = inv[f].endpoints
             /\ u[f].anomalies = inv[f].anomalies \cup DeploymentAnomalies(inv, f, production)
             /\ u[f].renewal = IF inv[f].renewal = "EXPIRED" /\ Successor(inv, f) THEN "RENEWED" ELSE inv[f].renewal
  <2> PICK item : item = inv[f]
    OBVIOUS
  <2> PICK more : more = DeploymentAnomalies(inv, f, production)
    OBVIOUS
  <2> PICK renewal : renewal = IF item.renewal = "EXPIRED" /\ Successor(inv, f) THEN "RENEWED" ELSE item.renewal
    OBVIOUS
  <2>1. u[f] = [item EXCEPT !.anomalies = @ \cup more, !.renewal = renewal]
    BY <1>1
  <2>2. DOMAIN item = ItemFields
    OBVIOUS
  <2>3. QED
    BY <2>1, <2>2 DEF ItemFields
<1>3. DOMAIN u = DOMAIN inv
  BY <1>1
<1>4. QED
  BY <1>2, <1>3

\* One more endpoint leaves the inventory as right as it was.
LEMMA IngestKeeps ==
  ASSUME NEW inv, NEW S, NEW hd, NEW weak, GoodInventory(inv, S, hd, weak),
         NEW chain, NEW k, hd[k] = Head(chain), WeakOf(chain) \subseteq weak[k], NEW production
  PROVE  GoodInventory(IngestFromNetworkFinding(inv, chain, k, production), S \cup {k}, hd, weak)
<1> PICK fp : fp = Head(chain)
  OBVIOUS
<1> PICK mid : mid = AddOrUpdate(inv, chain, k)
  OBVIOUS
<1> PICK u : u = DetectInconsistentDeployments(mid, production)
  OBVIOUS
<1>1. u = IngestFromNetworkFinding(inv, chain, k, production)
  BY DEF IngestFromNetworkFinding
<1>2. /\ ItemsAre(mid, S \cup {k}, hd)
      /\ fp \in DOMAIN mid /\ DOMAIN mid = DOMAIN inv \cup {fp}
      /\ mid[fp].chain = chain
      /\ mid[fp].renewal = RenewalState(fp)
      /\ \A h : <<"several", h>> \notin mid[fp].anomalies
      /\ \A f \in DOMAIN inv : f # fp => mid[f] = inv[f]
  <2>1. ItemsAre(inv, S, hd) /\ mid = AddOrUpdate(inv, chain, k)
    BY DEF GoodInventory
  <2>2. IsAdded(mid, inv, S \cup {k}, hd, chain, fp)
    BY <2>1, AddedIs
  <2>3. QED
    BY <2>2 DEF IsAdded
<1>3. IsFiniteSet(DOMAIN mid) /\ \A f \in DOMAIN mid : DOMAIN mid[f] = ItemFields
  BY <1>2 DEF ItemsAre
<1>4. /\ DOMAIN u = DOMAIN mid
      /\ \A f \in DOMAIN mid :
            /\ DOMAIN u[f] = ItemFields /\ u[f].chain = mid[f].chain /\ u[f].endpoints = mid[f].endpoints
            /\ u[f].anomalies = mid[f].anomalies \cup DeploymentAnomalies(mid, f, production)
            /\ u[f].renewal = IF mid[f].renewal = "EXPIRED" /\ Successor(mid, f) THEN "RENEWED" ELSE mid[f].renewal
  BY <1>3, DetectedIs
<1>5. ItemsAre(u, S \cup {k}, hd)
  <2>1. DOMAIN u = {hd[j] : j \in S \cup {k}} /\ IsFiniteSet(DOMAIN u)
    BY <1>2, <1>4 DEF ItemsAre
  <2>2. \A f \in DOMAIN u : DOMAIN u[f] = ItemFields /\ u[f].endpoints = Served(S \cup {k}, hd, f)
    <3>1. \A f \in DOMAIN mid : mid[f].endpoints = Served(S \cup {k}, hd, f)
      BY <1>2 DEF ItemsAre
    <3>2. QED
      BY <1>4, <3>1
  <2>3. QED
    BY <2>1, <2>2, Zenon DEF ItemsAre
<1>6. \A f \in DOMAIN inv : inv[f].endpoints \subseteq mid[f].endpoints
  BY <1>2 DEF ItemsAre, GoodInventory, Served
<1>7. \A f, h : f \in DOMAIN u => (Contested(u, f, h) <=> Contested(mid, f, h))
  BY <1>4 DEF Contested, OnHost
<1>8. \A f, h : f \in DOMAIN inv /\ Contested(inv, f, h) => Contested(mid, f, h)
  BY <1>2, <1>6 DEF Contested, OnHost
<1>9. HostsAre(u)
  <2> SUFFICES ASSUME NEW f \in DOMAIN u, NEW h
               PROVE  <<"several", h>> \in u[f].anomalies <=> Contested(u, f, h)
    BY DEF HostsAre
  <2>1. <<"several", h>> \in DeploymentAnomalies(mid, f, production) <=> Contested(mid, f, h)
    BY <1>3, <1>4, DeploymentTells
  <2>2. <<"several", h>> \in mid[f].anomalies => Contested(mid, f, h)
    <3>1. CASE f = fp
      BY <1>2, <3>1
    <3>2. CASE f # fp
      BY <1>2, <1>4, <1>8, <3>2 DEF GoodInventory, HostsAre
    <3>3. QED
      BY <3>1, <3>2
  <2>3. QED
    BY <1>4, <1>7, <2>1, <2>2
<1>10. \A f \in DOMAIN mid : mid[f].renewal \in {RenewalState(f), "RENEWED"}
       /\ (mid[f].renewal = "RENEWED" => RenewalState(f) = "EXPIRED" /\ Replaced(mid, f))
  <2> SUFFICES ASSUME NEW f \in DOMAIN mid
               PROVE  /\ mid[f].renewal \in {RenewalState(f), "RENEWED"}
                      /\ (mid[f].renewal = "RENEWED" => RenewalState(f) = "EXPIRED" /\ Replaced(mid, f))
    OBVIOUS
  <2>1. RenewalState(f) # "RENEWED"
    BY DEF RenewalState
  <2>2. CASE f = fp
    BY <1>2, <2>1, <2>2
  <2>3. CASE f # fp
    <3>1. f \in DOMAIN inv /\ mid[f] = inv[f]
      BY <1>2, <2>3
    <3>2. Replaced(inv, f) => Replaced(mid, f)
      BY <1>2 DEF Replaced
    <3>3. inv[f].renewal = Renewal(inv, f)
      BY <3>1 DEF GoodInventory, RenewalsAre
    <3>4. QED
      BY <2>1, <3>1, <3>2, <3>3 DEF Renewal
  <2>4. QED
    BY <2>2, <2>3
<1>11. RenewalsAre(u)
  <2> SUFFICES ASSUME NEW f \in DOMAIN mid
               PROVE  u[f].renewal = Renewal(u, f)
    BY <1>4 DEF RenewalsAre
  <2>1. Successor(mid, f) <=> Replaced(mid, f)
    <3>1. ASSUME NEW g \in DOMAIN mid
          PROVE  mid[g].renewal \in {"OK", "EXPIRING_SOON"} <=> RenewalState(g) \in {"OK", "EXPIRING_SOON"}
      BY <1>10
    <3>2. QED
      BY <3>1 DEF Successor, Replaced
  <2>2. Replaced(u, f) <=> Replaced(mid, f)
    BY <1>4 DEF Replaced
  <2>3. QED
    BY <1>4, <1>10, <2>1, <2>2 DEF Renewal
<1>12. ChainsAre(u, weak)
  <2> SUFFICES ASSUME NEW f \in DOMAIN mid, NEW c \in WeakOf(mid[f].chain)
               PROVE  \E e \in mid[f].endpoints : c \in weak[e]
    BY <1>4 DEF ChainsAre
  <2>1. CASE f = fp
    <3>1. k \in mid[fp].endpoints
      BY <1>2 DEF ItemsAre, Served
    <3>2. QED
      BY <1>2, <2>1, <3>1
  <2>2. CASE f # fp
    <3>1. f \in DOMAIN inv /\ mid[f] = inv[f]
      BY <1>2, <2>2
    <3>2. QED
      BY <3>1 DEF GoodInventory, ChainsAre
  <2>3. QED
    BY <2>1, <2>2
<1>13. QED
  BY <1>1, <1>5, <1>9, <1>11, <1>12 DEF GoodInventory

\* Cutting a chain to its first certificate changes nothing that is asked of it.
LikeBefore(f, f0) ==
  /\ DOMAIN f = FindingFields /\ f.status = f0.status /\ f.weak = f0.weak
  /\ f.chain \in Seq(DOMAIN Cert) /\ WeakOf(f.chain) \subseteq f0.weak
  /\ f.chain = <<>> <=> f0.chain = <<>>
  /\ f.chain # <<>> => Head(f.chain) = Head(f0.chain)

Serving(found, D) == {k \in D : Heard(found[k]) /\ found[k].chain # <<>>}

HeadsOf(found) == [k \in DOMAIN found |-> Head(found[k].chain)]

NotedOf(found) == [k \in DOMAIN found |-> found[k].weak]

\* What was reported of scan s once the answers of endpoints D were taken.
ReportedSoFar(acc, s, D) ==
  /\ DOMAIN acc = NetFields /\ acc.args = s.args
  /\ DOMAIN acc.found = DOMAIN s.found /\ \A k \in DOMAIN s.found : LikeBefore(acc.found[k], s.found[k])
  /\ acc.report = {k \in D : Heard(s.found[k])}
  /\ GoodInventory(acc.inventory, Serving(s.found, D), HeadsOf(s.found), NotedOf(s.found))

LEMMA CutIsLike ==
  ASSUME NEW f, NEW f0, LikeBefore(f, f0), NEW whole
  PROVE  LikeBefore([f EXCEPT !.chain = IF whole \/ f.chain = <<>> THEN @ ELSE <<Head(f.chain)>>], f0)
<1> PICK chain : chain = IF whole \/ f.chain = <<>> THEN f.chain ELSE <<Head(f.chain)>>
  OBVIOUS
<1> PICK u : u = [f EXCEPT !.chain = chain]
  OBVIOUS
<1>1. u = [f EXCEPT !.chain = IF whole \/ f.chain = <<>> THEN @ ELSE <<Head(f.chain)>>]
  OBVIOUS
<1>2. DOMAIN u = FindingFields /\ u.status = f.status /\ u.weak = f.weak /\ u.chain = chain
  BY DEF LikeBefore, FindingFields
<1>3. CASE chain = f.chain
  BY <1>1, <1>2, <1>3 DEF LikeBefore
<1>4. CASE f.chain # <<>> /\ chain = <<Head(f.chain)>>
  <2>1. f.chain \in Seq(DOMAIN Cert)
    BY DEF LikeBefore
  <2> PICK x : x = Head(f.chain)
    OBVIOUS
  <2>2. x \in DOMAIN Cert /\ x \in ToSet(f.chain)
    <3>1. x \in DOMAIN Cert /\ 1 \in DOMAIN f.chain /\ x = f.chain[1]
      BY <1>4, <2>1, EmptySeq, LenProperties, HeadTailProperties
    <3>2. QED
      BY <3>1 DEF ToSet
  <2>3. chain = <<x>> /\ chain # <<>> /\ Head(chain) = x /\ chain \in Seq(DOMAIN Cert)
    <3>1. \A c : <<c>> # <<>> /\ Head(<<c>>) = c
      OBVIOUS
    <3>2. \A c \in DOMAIN Cert : <<c>> \in Seq(DOMAIN Cert)
      BY OneIsList
    <3>3. chain = <<x>>
      BY <1>4
    <3>4. QED
      BY <2>2, <3>1, <3>2, <3>3
  <2>4. WeakOf(chain) \subseteq WeakOf(f.chain)
    <3>1. ToSet(<<x>>) = {x}
      BY DEF ToSet
    <3>2. QED
      BY <2>2, <2>3, <3>1 DEF WeakOf
  <2>5. QED
    BY <1>1, <1>2, <1>4, <2>3, <2>4 DEF LikeBefore
<1>5. QED
  BY <1>3, <1>4

LEMMA ReportOneIs ==
  ASSUME NEW acc, DOMAIN acc = NetFields, NEW k, NEW u, u = ReportOne(acc, k), Heard(acc.found[k]),
         NEW chain, chain = acc.found[k].chain,
         NEW cut, cut = [acc.found[k] EXCEPT !.chain = IF acc.args.includeChain \/ chain = <<>> THEN @ ELSE <<Head(chain)>>],
         DOMAIN acc.found[k] = FindingFields
  PROVE  /\ DOMAIN u = NetFields /\ u.args = acc.args /\ u.report = acc.report \cup {k}
         /\ u.inventory = IF chain = <<>> THEN acc.inventory
                          ELSE IngestFromNetworkFinding(acc.inventory, chain, k, acc.args.production)
         /\ u.found = [acc.found EXCEPT ![k] = cut]
<1> PICK inventory : inventory = IF chain = <<>> THEN acc.inventory
                                 ELSE IngestFromNetworkFinding(acc.inventory, chain, k, acc.args.production)
  OBVIOUS
<1> PICK found : found = [acc.found EXCEPT ![k] = cut]
  OBVIOUS
<1> PICK reported : reported = acc.report \cup {k}
  OBVIOUS
<1>1. u = [acc EXCEPT !.inventory = inventory, !.found = found, !.report = reported]
  <2> PICK first : first = IF acc.args.includeChain \/ chain = <<>> THEN acc.found[k].chain ELSE <<Head(chain)>>
    OBVIOUS
  <2>1. u = [acc EXCEPT !.inventory = inventory, !.found[k].chain = first, !.report = reported]
    BY Zenon DEF ReportOne
  <2>2. found = [acc.found EXCEPT ![k].chain = first]
    OBVIOUS
  <2>3. QED
    BY <2>1, <2>2
<1>2. QED
  BY <1>1 DEF NetFields

LEMMA ReportOneKeeps ==
  ASSUME NEW s, NEW D, D \subseteq DOMAIN s.found, NEW acc, ReportedSoFar(acc, s, D), NEW k \in DOMAIN s.found
  PROVE  ReportedSoFar(ReportOne(acc, k), s, D \cup {k})
<1> PICK u : u = ReportOne(acc, k)
  OBVIOUS
<1> PICK f : f = acc.found[k]
  OBVIOUS
<1> PICK chain : chain = f.chain
  OBVIOUS
<1>1. DOMAIN acc = NetFields /\ DOMAIN acc.found = DOMAIN s.found /\ LikeBefore(f, s.found[k])
  BY DEF ReportedSoFar
<1>2. Heard(f) <=> Heard(s.found[k])
  BY <1>1 DEF LikeBefore, Heard
<1>3. CASE ~Heard(f)
  <2>1. u = acc
    BY <1>3 DEF ReportOne
  <2>2. Serving(s.found, D \cup {k}) = Serving(s.found, D)
    BY <1>2, <1>3 DEF Serving
  <2>3. {j \in D \cup {k} : Heard(s.found[j])} = {j \in D : Heard(s.found[j])}
    BY <1>2, <1>3
  <2>4. QED
    BY <2>1, <2>2, <2>3 DEF ReportedSoFar
<1>4. CASE Heard(f)
  <2> PICK cut : cut = [f EXCEPT !.chain = IF acc.args.includeChain \/ chain = <<>> THEN @ ELSE <<Head(chain)>>]
    OBVIOUS
  <2>1. /\ DOMAIN u = NetFields /\ u.args = acc.args /\ u.report = acc.report \cup {k}
        /\ u.inventory = IF chain = <<>> THEN acc.inventory
                         ELSE IngestFromNetworkFinding(acc.inventory, chain, k, acc.args.production)
        /\ u.found = [acc.found EXCEPT ![k] = cut]
    <3>1. DOMAIN f = FindingFields
      BY <1>1 DEF LikeBefore
    <3>2. QED
      BY <1>1, <1>4, <3>1, ReportOneIs, SMTT(30)
  <2>2. LikeBefore(cut, s.found[k])
    <3> PICK whole : whole = acc.args.includeChain
      OBVIOUS
    <3>1. cut = [f EXCEPT !.chain = IF whole \/ f.chain = <<>> THEN @ ELSE <<Head(f.chain)>>]
      OBVIOUS
    <3>2. QED
      BY <1>1, <3>1, CutIsLike
  <2>3. DOMAIN u.found = DOMAIN s.found /\ \A j \in DOMAIN s.found : LikeBefore(u.found[j], s.found[j])
    BY <1>1, <2>1, <2>2 DEF ReportedSoFar
  <2>4. u.report = {j \in D \cup {k} : Heard(s.found[j])}
    BY <1>2, <1>4, <2>1 DEF ReportedSoFar
  <2>5. GoodInventory(acc.inventory, Serving(s.found, D), HeadsOf(s.found), NotedOf(s.found))
    BY DEF ReportedSoFar
  <2>6. GoodInventory(u.inventory, Serving(s.found, D \cup {k}), HeadsOf(s.found), NotedOf(s.found))
    <3>1. CASE chain = <<>>
      <4>1. Serving(s.found, D \cup {k}) = Serving(s.found, D)
        BY <1>1, <3>1 DEF Serving, LikeBefore
      <4>2. QED
        BY <2>1, <2>5, <3>1, <4>1
    <3>2. CASE chain # <<>>
      <4>1. Serving(s.found, D \cup {k}) = Serving(s.found, D) \cup {k}
        BY <1>1, <1>2, <1>4, <3>2 DEF Serving, LikeBefore
      <4>2. HeadsOf(s.found)[k] = Head(chain)
        BY <1>1, <3>2 DEF HeadsOf, LikeBefore
      <4>3. WeakOf(chain) \subseteq NotedOf(s.found)[k]
        BY <1>1 DEF NotedOf, LikeBefore
      <4>4. GoodInventory(IngestFromNetworkFinding(acc.inventory, chain, k, acc.args.production),
                          Serving(s.found, D) \cup {k}, HeadsOf(s.found), NotedOf(s.found))
        BY <2>5, <4>2, <4>3, IngestKeeps
      <4>5. QED
        BY <2>1, <3>2, <4>1, <4>4
    <3>3. QED
      BY <3>1, <3>2
  <2>7. u.args = s.args
    BY <2>1 DEF ReportedSoFar
  <2>8. QED
    BY <2>1, <2>3, <2>4, <2>6, <2>7 DEF ReportedSoFar
<1>5. QED
  BY <1>3, <1>4

\* Once every answer was taken, what was reported is what was found.
LEMMA AllIsReported ==
  ASSUME NEW s, DOMAIN s = NetFields, NEW V, s.arrived \in Seq(V), V = DOMAIN s.found,
         s.inventory = <<>>, s.report = {}, NEW tls, \A k \in DOMAIN s.found : GoodFinding(s.found[k], tls)
  PROVE  ReportedSoFar(Report(s), s, ToSet(s.arrived))
<1> PICK seq : seq = s.arrived
  OBVIOUS
<1> PICK n : n = Len(seq)
  OBVIOUS
<1>1. n \in Nat /\ DOMAIN seq = 1..n /\ \A i \in 1..n : seq[i] \in V
  BY LenProperties, ElementOfSeq
<1>2. PICK h : h[0] = s /\ Report(s) = h[n] /\ \A i \in 1..n : h[i] = ReportOne(h[i - 1], seq[i])
  BY <1>1, ReportSteps
<1> DEFINE First(i) == {seq[j] : j \in 1..i}
           good == {i \in 0..n : ReportedSoFar(h[i], s, First(i))}
<1>3. 0 \in good
  <2>1. First(0) = {}
    OBVIOUS
  <2> HIDE DEF First
  <2>2. \A k \in DOMAIN s.found : LikeBefore(s.found[k], s.found[k])
    BY DEF GoodFinding, LikeBefore
  <2>3. GoodInventory(s.inventory, {}, HeadsOf(s.found), NotedOf(s.found))
    BY NothingIsGood
  <2>4. Serving(s.found, {}) = {} /\ {k \in {} : Heard(s.found[k])} = {}
    BY DEF Serving
  <2>5. ReportedSoFar(s, s, {})
    BY <2>2, <2>3, <2>4 DEF ReportedSoFar
  <2>6. 0 \in 0..n /\ ReportedSoFar(h[0], s, First(0))
    <3>1. h[0] = s
      BY <1>2
    <3>2. ReportedSoFar(h[0], s, First(0))
      BY <2>1, <2>5, <3>1
    <3>3. QED
      BY <1>1, <3>2
  <2>7. QED
    BY <2>6
<1>4. ASSUME NEW i \in 1..n, i - 1 \in good PROVE i \in good
  <2> PICK k : k = seq[i]
    OBVIOUS
  <2>1. First(i) = First(i - 1) \cup {k}
    <3>1. \A j \in 1..i : j \in 1..(i - 1) \/ j = i
      BY <1>1
    <3>2. 1..(i - 1) \subseteq 1..i /\ i \in 1..i
      BY <1>1
    <3>3. QED
      BY <3>1, <3>2
  <2>2. First(i - 1) \subseteq DOMAIN s.found /\ k \in DOMAIN s.found
    <3>1. 1..(i - 1) \subseteq 1..n
      BY <1>1
    <3>2. QED
      BY <1>1, <3>1
  <2>3. ReportedSoFar(h[i - 1], s, First(i - 1))
    BY <1>4
  <2>4. h[i] = ReportOne(h[i - 1], k)
    BY <1>2
  <2> HIDE DEF First
  <2>5. ReportedSoFar(ReportOne(h[i - 1], k), s, First(i - 1) \cup {k})
    BY <2>2, <2>3, ReportOneKeeps
  <2>6. i \in 0..n
    BY <1>1
  <2>7. QED
    BY <2>1, <2>4, <2>5, <2>6
<1> HIDE DEF good
<1>5. \A i \in 0..n : i \in good
  BY <1>1, <1>3, <1>4, CountUp
<1>6. n \in good
  BY <1>1, <1>5
<1>7. ReportedSoFar(h[n], s, First(n))
  BY <1>6 DEF good
<1>8. First(n) = ToSet(seq)
  BY <1>1 DEF ToSet
<1>9. QED
  BY <1>2, <1>7, <1>8

LEMMA FinishTells == AccountInv /\ Finish => ReportIsComplete'
<1> SUFFICES ASSUME AccountInv, Finish
             PROVE  ReportIsComplete'
  OBVIOUS
<1> PICK s : s = net
  OBVIOUS
<1> PICK u : u = net'
  OBVIOUS
<1> PICK acc : acc = Report(s)
  OBVIOUS
<1>1. GoodScan(s) /\ Accounted(s) /\ s.phase = "probing" /\ s.waiting = {}
  BY DEF AccountInv, NetInv, Finish
<1>2. /\ Told(s) /\ Probed(s) /\ s.inventory = <<>> /\ s.report = {} /\ DOMAIN s = NetFields
  BY <1>1 DEF Accounted, GoodScan
<1>3. /\ u.args = s.args /\ u.failed = s.failed /\ u.arrived = s.arrived
      /\ u.inventory = acc.inventory /\ u.found = acc.found /\ u.report = acc.report
  <2>1. u = [s EXCEPT !.phase = "done", !.inventory = acc.inventory, !.found = acc.found, !.report = acc.report]
    BY DEF Finish
  <2>2. QED
    BY <1>2, <2>1 DEF NetFields
<1>4. ReportedSoFar(acc, s, ToSet(s.arrived))
  <2> PICK V : V = DOMAIN s.found
    OBVIOUS
  <2> PICK tls : tls = (s.args.protocol = "tls")
    OBVIOUS
  <2>1. s.arrived \in Seq(V) /\ \A k \in DOMAIN s.found : GoodFinding(s.found[k], tls)
    BY <1>2 DEF Probed
  <2>2. QED
    BY <1>2, <2>1, AllIsReported
<1> PICK S : S = Serving(s.found, ToSet(s.arrived))
  OBVIOUS
<1>5. /\ DOMAIN u.found = DOMAIN s.found /\ \A k \in DOMAIN s.found : LikeBefore(u.found[k], s.found[k])
      /\ u.report = {k \in ToSet(s.arrived) : Heard(s.found[k])}
      /\ GoodInventory(u.inventory, S, HeadsOf(s.found), NotedOf(s.found))
  BY <1>3, <1>4 DEF ReportedSoFar
<1>6. ToSet(s.arrived) \subseteq DOMAIN s.found
  <2> PICK V : V = DOMAIN s.found
    OBVIOUS
  <2> PICK seq : seq = s.arrived
    OBVIOUS
  <2>1. seq \in Seq(V)
    BY <1>2 DEF Probed
  <2>2. \A i \in DOMAIN seq : seq[i] \in V
    BY <2>1, LenProperties, ElementOfSeq
  <2>3. QED
    BY <2>2 DEF ToSet
<1>7. \A k \in DOMAIN s.found : Heard(u.found[k]) <=> Heard(s.found[k])
  BY <1>5 DEF LikeBefore, Heard
<1>8. \A t \in ToSet(u.args.targets) : FindingKey(t) \in u.failed \cup ToSet(u.arrived)
  <2> SUFFICES ASSUME NEW i \in DOMAIN s.args.targets
               PROVE  FindingKey(s.args.targets[i]) \in s.failed \cup ToSet(s.arrived)
    BY <1>3 DEF ToSet
  <2>1. FindingKey(s.args.targets[i]) \in s.failed \cup KeysOf(s.requests)
    BY <1>2 DEF Told, Probed
  <2>2. \A j \in DOMAIN s.requests : FindingKey(s.requests[j]) \in ToSet(s.arrived)
    BY <1>1, <1>2 DEF Probed
  <2>3. QED
    BY <2>1, <2>2 DEF KeysOf
<1>9. u.report = {k \in DOMAIN u.found : Heard(u.found[k])}
  <2>1. \A k \in DOMAIN s.found : Heard(s.found[k]) => k \in ToSet(s.arrived)
    BY <1>2 DEF Probed
  <2>2. QED
    BY <1>5, <1>6, <1>7, <2>1
<1>10. ASSUME NEW f \in DOMAIN u.inventory
       PROVE  {c \in ToSet(u.inventory[f].chain) : Cert[c].sig = "weak"} \subseteq
                 UNION {u.found[j].weak : j \in u.inventory[f].endpoints}
  <2>1. /\ \A c \in WeakOf(u.inventory[f].chain) : \E k \in u.inventory[f].endpoints : c \in NotedOf(s.found)[k]
        /\ u.inventory[f].endpoints \subseteq S
    BY <1>5, <1>10 DEF GoodInventory, ChainsAre, ItemsAre, Served
  <2>2. \A k \in S : k \in DOMAIN s.found /\ NotedOf(s.found)[k] = u.found[k].weak
    BY <1>5, <1>6 DEF Serving, NotedOf, LikeBefore
  <2>3. \A c \in WeakOf(u.inventory[f].chain) : \E k \in u.inventory[f].endpoints : c \in u.found[k].weak
    BY <2>1, <2>2
  <2>4. QED
    BY <2>3 DEF WeakOf
<1>11. ASSUME NEW f \in DOMAIN u.inventory
       PROVE  /\ u.inventory[f].endpoints = {k \in u.report : u.found[k].chain # <<>> /\ Head(u.found[k].chain) = f}
              /\ \A e \in u.inventory[f].endpoints :
                    <<"several", e.host>> \in u.inventory[f].anomalies
                        <=> \E g \in DOMAIN u.inventory \ {f} : \E d \in u.inventory[g].endpoints : d.host = e.host
              /\ u.inventory[f].renewal = "RENEWED"
                    <=> /\ RenewalState(f) = "EXPIRED"
                        /\ \E g \in DOMAIN u.inventory \ {f} :
                              /\ Cert[g].subject = Cert[f].subject
                              /\ RenewalState(g) \in {"OK", "EXPIRING_SOON"}
  <2>1. u.inventory[f].endpoints = Served(S, HeadsOf(s.found), f)
    BY <1>5, <1>11 DEF GoodInventory, ItemsAre
  <2>2. \A k \in ToSet(s.arrived) : (u.found[k].chain = <<>> <=> s.found[k].chain = <<>>)
          /\ (u.found[k].chain # <<>> => Head(u.found[k].chain) = HeadsOf(s.found)[k])
    BY <1>5, <1>6 DEF LikeBefore, HeadsOf
  <2>3. S = {k \in u.report : u.found[k].chain # <<>>}
    BY <1>5, <2>2 DEF Serving
  <2>4. u.inventory[f].endpoints = {k \in u.report : u.found[k].chain # <<>> /\ Head(u.found[k].chain) = f}
    BY <1>5, <2>1, <2>2, <2>3 DEF Served
  <2>5. \A e \in u.inventory[f].endpoints :
           <<"several", e.host>> \in u.inventory[f].anomalies
               <=> \E g \in DOMAIN u.inventory \ {f} : \E d \in u.inventory[g].endpoints : d.host = e.host
    <3>1. \A h : <<"several", h>> \in u.inventory[f].anomalies <=> Contested(u.inventory, f, h)
      BY <1>5, <1>11 DEF GoodInventory, HostsAre
    <3>2. QED
      BY <3>1 DEF Contested, OnHost
  <2>6. u.inventory[f].renewal = Renewal(u.inventory, f) /\ RenewalState(f) # "RENEWED"
    BY <1>5, <1>11 DEF GoodInventory, RenewalsAre, RenewalState
  <2>7. QED
    BY <2>4, <2>5, <2>6 DEF Renewal, Replaced
<1>12. EveryTargetIsReported'
  BY <1>8, <1>9, <1>10 DEF EveryTargetIsReported, Heard
<1>13. InventoryIgnoresOrder'
  BY <1>11 DEF InventoryIgnoresOrder
<1>14. QED
  BY <1>12, <1>13 DEF ReportIsComplete

\* Of any scan of any targets, however names resolve and in whatever order servers
\* answer, the report at the end names each target and every weak certificate that was
\* received, and the inventory is that of the endpoints alone
\* (network/main.py, plugins/tls.py, cert_inventory.py).
THEOREM ReportsAreComplete == NetSpec => []ReportIsComplete
<1>1. NetInit => AccountInv /\ ReportIsComplete
  <2> SUFFICES ASSUME NetInit
               PROVE  AccountInv /\ ReportIsComplete
    OBVIOUS
  <2>1. net.phase = "idle"
    BY DEF NetInit
  <2>2. NetInv
    BY NetBegins
  <2>3. QED
    BY <2>1, <2>2 DEF AccountInv, ReportIsComplete, EveryTargetIsReported, InventoryIgnoresOrder
<1>2. AccountInv /\ ReportIsComplete /\ [NetNext]_netVars => ReportIsComplete'
  <2> SUFFICES ASSUME AccountInv, ReportIsComplete, [NetNext]_netVars
               PROVE  ReportIsComplete'
    OBVIOUS
  <2>1. CASE Finish
    BY <2>1, FinishTells
  <2>2. CASE UNCHANGED net
    BY <2>2 DEF ReportIsComplete, EveryTargetIsReported, InventoryIgnoresOrder, Heard
  <2>3. CASE StartMain \/ PrepareTarget \/ ScopeExpires \/ StartProbing \/ Result
    <3>1. net'.phase # "done"
      <4>1. CASE StartMain
        BY <4>1 DEF StartMain
      <4>2. CASE PrepareTarget
        <5>1. Accounted(net') /\ net.phase = "preparing" /\ GoodScan(net)
          BY <4>2, PrepareAccounts DEF PrepareTarget, AccountInv, NetInv
        <5>2. (\E t, records : net' = Refused(net, t, records)) \/ \E t, ip : net' = Pinned(net, t, ip)
          BY <4>2 DEF PrepareTarget, Prepared
        <5>3. net'.phase = "preparing"
          BY <5>1, <5>2 DEF Refused, Pinned, GoodScan, NetFields
        <5>4. QED
          BY <5>3
      <4>3. CASE ScopeExpires
        BY <4>3 DEF ScopeExpires, AccountInv, NetInv, GoodScan, NetFields
      <4>4. CASE StartProbing
        BY <4>4 DEF StartProbing, AccountInv, NetInv, GoodScan, NetFields
      <4>5. CASE Result
        <5>1. GoodScan(net) /\ net.phase = "probing"
          BY <4>5 DEF Result, AccountInv, NetInv
        <5>2. ASSUME NEW i, NEW f, IsAnswered(net, net', i, f)
              PROVE  net'.phase = "probing"
          BY <5>1, <5>2 DEF IsAnswered, GoodScan, NetFields
        <5>3. QED
          BY <4>5, <5>1, <5>2, ResultIs
      <4>6. QED
        BY <2>3, <4>1, <4>2, <4>3, <4>4, <4>5
    <3>2. QED
      BY <3>1 DEF ReportIsComplete, EveryTargetIsReported, InventoryIgnoresOrder
  <2>4. QED
    BY <2>1, <2>2, <2>3 DEF NetNext, DnsChanges, netVars
<1>3. QED
  BY <1>1, <1>2, AccountStep, PTL DEF NetSpec

=============================================================================
