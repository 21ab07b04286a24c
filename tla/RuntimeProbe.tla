----------------------------- MODULE RuntimeProbe -----------------------------
(***************************************************************************)
(* Watching cryptography at run time (runtime/ebpf_collector.py,           *)
(* runtime/security_boundary.py, runtime/engine.py, scripts/ebpf_loader.py).*)
(*                                                                         *)
(* A collector takes raw kernel events, bounded by a rate, a queue and a   *)
(* circuit breaker; an agent does the same for parsed events, with a       *)
(* buffer that drops its oldest; a loader attaches the kernel probe and    *)
(* drives a collector of its own, event by event.                          *)
(***************************************************************************)
EXTENDS Integers, Sequences, SequencesExt

CONSTANTS
    MaxRate,        \* max_events_per_second
    MaxQueue,       \* max_buffer_entries
    Probes,         \* the catalog's probes
    Unlisted,       \* probes that are asked for and not in the catalog
    MaxEvents       \* bound on the events of a behaviour

\* A queue made for no entry at all would have no bound.
ASSUME ProbesAssumption == MaxRate \in Nat /\ MaxQueue \in Nat \ {0}

VARIABLES
    collector,      \* LinuxEbpfProbeCollector
    agent,          \* RuntimeSecurityAgent
    loader          \* a run of ebpf_loader.py

probeVars == <<collector, agent, loader>>

\* An event is what the gates look at: too short for its structure, one whose
\* text spells key material, or sound.
Kinds == {"sound", "short", "secret"}

\* The last fields of both are kept by no counter of the code: what arrives after the
\* breaker opened and, at the agent, whatever arrives, exceeds the rate or is refused.
NewCollector ==
    [queue |-> <<>>, tripped |-> FALSE, healthy |-> TRUE, rate |-> 0, pressed |-> FALSE,
     declared |-> {}, attached |-> {}, received |-> 0, enqueued |-> 0, processed |-> 0,
     queueDrops |-> 0, rateDrops |-> 0, invalid |-> 0, late |-> 0]

NewAgent ==
    [buffer |-> <<>>, tripped |-> FALSE, healthy |-> TRUE, rate |-> 0, probes |-> {},
     enqueued |-> 0, dropped |-> 0, popped |-> 0, arrived |-> 0, overRate |-> 0, refused |-> 0, late |-> 0]

NewLoader == [phase |-> "idle", captured |-> <<>>, report |-> [status |-> "none", exit |-> 0]]

ProbeInit ==
    /\ collector = NewCollector
    /\ agent = NewAgent
    /\ loader = NewLoader

Metadata(kind) == kind # "secret"

(***************************************************************************)
(* The collector.  Tripping detaches every probe and is never undone.      *)
(***************************************************************************)
Tripped(c) == [c EXCEPT !.tripped = TRUE, !.declared = {}, !.attached = {}]

\* The rate window starts anew when a second has passed; how far the rate is exceeded
\* does not matter.
RateNow(rate, fresh) == IF fresh THEN 1 ELSE IF rate > MaxRate THEN rate ELSE rate + 1

Counted(c, fresh) == [c EXCEPT !.received = @ + 1, !.rate = RateNow(@, fresh)]

Enqueued(c, kind) ==
    IF Len(c.queue) < MaxQueue
      THEN [c EXCEPT !.queue = Append(@, kind), !.enqueued = @ + 1,
                     !.pressed = 10 * (Len(c.queue) + 1) >= 8 * MaxQueue]
      ELSE [c EXCEPT !.queueDrops = @ + 1, !.pressed = TRUE]

\* Mutation: an event over the rate is dropped without being counted.
IngestedUncounted(c, kind, fresh) ==
    LET seen == Counted(c, fresh) IN
    IF c.tripped THEN [c EXCEPT !.late = @ + 1]
    ELSE IF seen.rate > MaxRate THEN seen
    ELSE IF kind = "short" THEN [seen EXCEPT !.invalid = @ + 1]
    ELSE IF ~Metadata(kind) THEN Tripped([seen EXCEPT !.invalid = @ + 1])
    ELSE Enqueued(seen, kind)

Ingested(c, kind, fresh) ==
    LET seen == Counted(c, fresh) IN
    IF c.tripped THEN [c EXCEPT !.late = @ + 1]
    ELSE IF seen.rate > MaxRate THEN [seen EXCEPT !.rateDrops = @ + 1]
    ELSE IF kind = "short" THEN [seen EXCEPT !.invalid = @ + 1]
    ELSE IF ~Metadata(kind) THEN Tripped([seen EXCEPT !.invalid = @ + 1])
    ELSE Enqueued(seen, kind)

\* n events are handed to the callback.  One that raises ends the batch: it counts
\* as processed, and the pressure is not looked at.
Processed(c, n, raises) ==
    LET rest == [c EXCEPT !.queue = SubSeq(@, n + 1, Len(@)), !.processed = @ + n]
    IN  IF ~raises /\ 2 * Len(rest.queue) < MaxQueue THEN [rest EXCEPT !.pressed = FALSE] ELSE rest

IngestRawKernelEvent ==
    /\ loader.phase = "idle"
    /\ collector.received + collector.late < MaxEvents
    /\ \E kind \in Kinds, fresh \in BOOLEAN : collector' = Ingested(collector, kind, fresh)
    /\ UNCHANGED <<agent, loader>>

ProcessQueuedEvents ==
    /\ loader.phase = "idle"
    /\ collector.queue # <<>>
    /\ \E n \in 1 .. Len(collector.queue), raises \in BOOLEAN :
          /\ raises \/ n = Len(collector.queue)
          /\ collector' = Processed(collector, n, raises)
    /\ UNCHANGED <<agent, loader>>

\* Attaching is not implemented in the collector: a probe is noted, tripped or not.
AttachKernelProbe ==
    /\ loader.phase = "idle"
    /\ \E p \in Probes \ collector.declared : collector' = [collector EXCEPT !.declared = @ \cup {p}]
    /\ UNCHANGED <<agent, loader>>

\* The watchdog finds that no event has come for longer than its timeout.
CollectorStalls ==
    /\ loader.phase = "idle"
    /\ collector.healthy
    /\ collector' = [Tripped(collector) EXCEPT !.healthy = FALSE]
    /\ UNCHANGED <<agent, loader>>

(***************************************************************************)
(* The agent.                                                              *)
(***************************************************************************)
AgentTripped(a) == [a EXCEPT !.tripped = TRUE, !.probes = {}]

\* A full buffer drops its oldest event, and counts it.
Pushed(a, kind) ==
    LET full == Len(a.buffer) >= MaxQueue IN
    [a EXCEPT !.buffer = Append(IF full THEN Tail(@) ELSE @, kind),
              !.enqueued = @ + 1, !.dropped = IF full THEN @ + 1 ELSE @]

\* What never gets as far as the buffer is logged at most.
RawEvent(a, kind, fresh) ==
    LET here == [a EXCEPT !.arrived = @ + 1]
        seen == [here EXCEPT !.rate = RateNow(@, fresh)]
    IN  IF a.tripped THEN [here EXCEPT !.late = @ + 1]
        ELSE IF seen.rate > MaxRate THEN [seen EXCEPT !.overRate = @ + 1]
        ELSE IF ~Metadata(kind) THEN AgentTripped([seen EXCEPT !.refused = @ + 1])
        ELSE Pushed(seen, kind)

RegisterObservationProbe ==
    /\ ~agent.tripped
    /\ \E p \in Probes \cup Unlisted :
          /\ p \in Probes
          /\ p \notin agent.probes
          /\ agent' = [agent EXCEPT !.probes = @ \cup {p}]
    /\ UNCHANGED <<collector, loader>>

DetachProbe ==
    /\ \E p \in agent.probes : agent' = [agent EXCEPT !.probes = @ \ {p}]
    /\ UNCHANGED <<collector, loader>>

IngestRawEvent ==
    /\ agent.arrived < MaxEvents
    /\ \E kind \in Kinds \ {"short"}, fresh \in BOOLEAN : agent' = RawEvent(agent, kind, fresh)
    /\ UNCHANGED <<collector, loader>>

PopBatch ==
    /\ \E n \in 1 .. Len(agent.buffer) :
          agent' = [agent EXCEPT !.buffer = SubSeq(@, n + 1, Len(@)), !.popped = @ + n]
    /\ UNCHANGED <<collector, loader>>

AgentStalls ==
    /\ agent.healthy
    /\ agent' = [AgentTripped(agent) EXCEPT !.healthy = FALSE]
    /\ UNCHANGED <<collector, loader>>

(***************************************************************************)
(* The loader.  Kernel, capabilities, compiler and symbol may each refuse; *)
(* then every event of the ring buffer is captured, offered to the         *)
(* collector and processed at once.  What the collector refuses, even with *)
(* an exception, stays captured; and the kernel keeps sending after the    *)
(* collector noted that it has detached.                                   *)
(***************************************************************************)
VerificationStatus(c) ==
    IF c.attached # {} THEN "KERNEL_ATTACHED_ALGORITHMS_UNVERIFIED" ELSE "NOT IMPLEMENTED"

LoaderStarts ==
    /\ loader.phase = "idle"
    /\ collector = NewCollector
    /\ \E p \in Probes :
        \/ /\ loader' = [loader EXCEPT !.phase = "polling"]
           /\ collector' = [NewCollector EXCEPT !.declared = {p}, !.attached = {p}]
        \/ /\ loader' = [loader EXCEPT !.phase = "done", !.report.exit = 1]
           /\ UNCHANGED collector
    /\ UNCHANGED agent

RingbufCallback ==
    /\ loader.phase = "polling"
    /\ collector.received + collector.late < MaxEvents
    /\ Len(loader.captured) < MaxEvents
    /\ \E kind \in Kinds \ {"short"}, fresh \in BOOLEAN :
          LET taken == Ingested(collector, kind, fresh) IN
          /\ collector' = IF Metadata(kind) THEN Processed(taken, Len(taken.queue), FALSE) ELSE taken
          /\ loader' = [loader EXCEPT !.captured = Append(@, kind)]
    /\ UNCHANGED agent

\* Enough events, or the time is over.
LoaderReports ==
    /\ loader.phase = "polling"
    /\ loader' = [loader EXCEPT !.phase = "done",
                    !.report = [status |-> VerificationStatus(collector),
                                exit |-> IF loader.captured # <<>> THEN 0 ELSE 2]]
    /\ UNCHANGED <<collector, agent>>

CollectorNext ==
    \/ IngestRawKernelEvent \/ ProcessQueuedEvents \/ AttachKernelProbe \/ CollectorStalls
    \/ LoaderStarts \/ RingbufCallback \/ LoaderReports

AgentNext == RegisterObservationProbe \/ DetachProbe \/ IngestRawEvent \/ PopBatch \/ AgentStalls

ProbeSpec == ProbeInit /\ [][CollectorNext \/ AgentNext]_probeVars

-------------------------------------------------------------------------------
\* Whatever mix of bursts, full queues, refused events, failing callbacks and trips:
\* the collector's counters account for every event that arrived before it tripped,
\* exactly once, as dropped for a reason, as still queued or as processed; the agent's
\* for every one that reached its buffer, and none fails to reach it but over the rate,
\* after a trip, or the one with key material that trips it.  None with key material is
\* queued, neither queue outgrows its bound, and an agent that tripped holds no probe.
EventsAreAccountedFor ==
    /\ collector.received = collector.enqueued + collector.queueDrops + collector.rateDrops + collector.invalid
    /\ collector.enqueued = collector.processed + Len(collector.queue)
    /\ collector.late > 0 => collector.tripped
    /\ agent.enqueued = agent.popped + agent.dropped + Len(agent.buffer)
    /\ agent.arrived = agent.enqueued + agent.overRate + agent.refused + agent.late
    /\ agent.refused <= 1
    /\ agent.refused + agent.late > 0 => agent.tripped
    /\ "secret" \notin ToSet(collector.queue) \cup ToSet(agent.buffer)
    /\ Len(collector.queue) <= MaxQueue /\ Len(agent.buffer) <= MaxQueue
    /\ agent.tripped => agent.probes = {}

\* Accurately counts all dropped events (the words of runtime/ebpf_collector.py:19): no
\* event is dropped by the collector, or by the agent beside it, without a counter.
EveryDropIsCounted ==
    /\ collector.late = 0
    /\ agent.arrived = agent.enqueued

===============================================================================
