---------------------------- MODULE SiemDispatcher ----------------------------
(***************************************************************************)
(* The SIEM dispatcher: siem/dispatcher.js and the routes of               *)
(* routes/siem.js.                                                         *)
(*                                                                         *)
(* Events are queued; a flush cuts a batch off the queue and sends it to   *)
(* one endpoint after the other, awaiting each.  Flushes are started by a  *)
(* full queue, a timer and POST /forward, and do not wait for each other.  *)
(*                                                                         *)
(* An event is its number, in the order of ingestion.  The buffer of       *)
(* events that GET /events reads, formats, signatures and the counters of  *)
(* dispatched and failed events are left out (the endpoints' books stand   *)
(* for the latter); so are disabled endpoints, which a flush passes over.  *)
(***************************************************************************)
EXTENDS Naturals, Sequences

CONSTANTS
  Endpoints,
  Configs,       \* lists of endpoints that PUT /config can set
  BatchSizes,    \* batch sizes it can set
  Flushes,       \* bound: calls of flushQueue in flight
  MaxIngested    \* bound: events ingested

\* No endpoint is configured twice.
ASSUME SiemConstantsOK ==
  /\ Configs \subseteq Seq(Endpoints)
  /\ \A c \in Configs : \A i, j \in DOMAIN c : c[i] = c[j] => i = j
  /\ BatchSizes \subseteq Nat \ {0} /\ BatchSizes # {}
  /\ MaxIngested \in Nat

VARIABLES
  totalIngested,
  queue,
  batchSize, endpoints,
  batch, todo,       \* flush -> its batch, the endpoints it has still to send it to
  received, failed   \* endpoint -> the events it got, and those that failed there

config == <<batchSize, endpoints>>
books == <<received, failed>>
siemVars == <<totalIngested, queue, config, batch, todo, books>>

SiemInit ==
  /\ totalIngested = 0
  /\ queue = <<>>
  /\ batchSize \in BatchSizes /\ endpoints = <<>>
  /\ batch = [f \in Flushes |-> <<>>]
  /\ todo = [f \in Flushes |-> <<>>]
  /\ received = [e \in Endpoints |-> {}]
  /\ failed = [e \in Endpoints |-> {}]

-----------------------------------------------------------------------------
\* queue.splice(0, batchSize): what is taken, and what is left of q.
Size(q) == IF Len(q) < batchSize THEN Len(q) ELSE batchSize
Taken(q) == SubSeq(q, 1, Size(q))

\* Slip: slice for splice, the batch is copied and stays in the queue.
Rest_KeepsBatch(q) == q

Rest(q) == SubSeq(q, Size(q) + 1, Len(q))

\* flushQueue on queue q, up to its first await.  Without endpoints the batch is
\* taken as processed; with endpoints the call needs a place f.
Launches(q) == q # <<>> /\ endpoints # <<>>
Free(f) == todo[f] = <<>>

Flush(f, q) ==
  /\ queue' = Rest(q)
  /\ IF Launches(q)
       THEN /\ Free(f)
            /\ batch' = [batch EXCEPT ![f] = Taken(q)]
            /\ todo' = [todo EXCEPT ![f] = endpoints]
       ELSE UNCHANGED <<batch, todo>>

\* The queue once the next event was pushed, which flushes when it is full.
Longer == Append(queue, totalIngested + 1)
Full == Len(Longer) >= batchSize

ingestEvent(f) ==
  /\ totalIngested < MaxIngested
  /\ totalIngested' = totalIngested + 1
  /\ IF Full THEN Flush(f, Longer) ELSE queue' = Longer /\ UNCHANGED <<batch, todo>>
  /\ UNCHANGED <<config, books>>

\* POST /forward with an event of its own: ingested, which may flush, and then
\* flushed again.
Forward(f, g) ==
  LET left == Rest(Longer)
  IN  /\ totalIngested < MaxIngested
      /\ totalIngested' = totalIngested + 1
      /\ \/ ~Full /\ Flush(f, Longer)
         \/ /\ Full /\ f # g
            /\ queue' = Rest(left)
            /\ Launches(Longer) => Free(f)
            /\ Launches(left) => Free(g)
            /\ batch' = [h \in Flushes |-> IF h = f /\ Launches(Longer) THEN Taken(Longer)
                                           ELSE IF h = g /\ Launches(left) THEN Taken(left)
                                           ELSE batch[h]]
            /\ todo' = [h \in Flushes |-> IF \/ h = f /\ Launches(Longer)
                                             \/ h = g /\ Launches(left)
                                          THEN endpoints ELSE todo[h]]
      /\ UNCHANGED <<config, books>>

\* Slip: the timer waits for a full batch.
FlushQueue_WhenFull(f) ==
  /\ Len(queue) >= batchSize
  /\ Flush(f, queue)
  /\ UNCHANGED <<totalIngested, config, books>>

\* The timer, or POST /forward without an event.
FlushQueue(f) ==
  /\ queue # <<>>
  /\ Flush(f, queue)
  /\ UNCHANGED <<totalIngested, config, books>>

Add(book, e, f) == [book EXCEPT ![e] = @ \cup {batch[f][i] : i \in DOMAIN batch[f]}]

\* Slip: a failure ends the loop over the endpoints.
Settle_StopsAtFailure(f) ==
  LET e == Head(todo[f])
  IN  /\ todo[f] # <<>>
      /\ \/ received' = Add(received, e, f) /\ UNCHANGED failed
            /\ todo' = [todo EXCEPT ![f] = Tail(@)]
         \/ /\ failed' = Add(failed, e, f)
            /\ todo' = [todo EXCEPT ![f] = <<>>]
            /\ received' \in {received, Add(received, e, f)}
      /\ UNCHANGED <<totalIngested, queue, config, batch>>

\* The request to the next endpoint settles: answered, or failed, in which case
\* the endpoint may have got it all the same.  The loop goes on either way.
Settle(f) ==
  LET e == Head(todo[f])
  IN  /\ todo[f] # <<>>
      /\ todo' = [todo EXCEPT ![f] = Tail(@)]
      /\ \/ received' = Add(received, e, f) /\ UNCHANGED failed
         \/ /\ failed' = Add(failed, e, f)
            /\ received' \in {received, Add(received, e, f)}
      /\ UNCHANGED <<totalIngested, queue, config, batch>>

\* PUT /config, which may leave either as it is.
Configure(c, n) ==
  /\ endpoints' = c /\ batchSize' = n
  /\ UNCHANGED <<totalIngested, queue, batch, todo, books>>

SiemNext ==
  \/ \E f, g \in Flushes : Forward(f, g)
  \/ \E f \in Flushes : FlushQueue(f) \/ Settle(f)
  \/ \E c \in Configs \cup {endpoints}, n \in BatchSizes : Configure(c, n)

-----------------------------------------------------------------------------
SiemTypeOK ==
  /\ totalIngested \in Nat
  /\ queue \in Seq(Nat)
  /\ batchSize \in BatchSizes /\ endpoints \in Configs \cup {<<>>}
  /\ batch \in [Flushes -> Seq(Nat)]
  /\ todo \in [Flushes -> Seq(Endpoints)]
  /\ received \in [Endpoints -> SUBSET Nat]
  /\ failed \in [Endpoints -> SUBSET Nat]

Elements(s) == {s[i] : i \in DOMAIN s}

\* A flush that still has somewhere to send its batch.
Active(f) == todo[f] # <<>>

\* No event is sent to an endpoint twice, however many flushes are in flight:
\* what one of them still has to send is in no other batch, not in the queue, and
\* has not been tried at the endpoints it is to be sent to.
NothingTwice ==
  \A f \in Flushes : Active(f) =>
    /\ Elements(batch[f]) \cap Elements(queue) = {}
    /\ \A g \in Flushes \ {f} : Active(g) => Elements(batch[f]) \cap Elements(batch[g]) = {}
    /\ \A e \in Elements(todo[f]) : Elements(batch[f]) \cap (received[e] \cup failed[e]) = {}

\* What one step may do: an event leaves the queue with a flush to all the
\* endpoints configured then, and an endpoint leaves that flush only when the
\* batch was tried there, whatever happened at the endpoints before it.
Tried ==
  /\ \A n \in Elements(queue) \ Elements(queue') :
       endpoints = <<>> \/ \E f \in Flushes : n \in Elements(batch'[f]) /\ todo'[f] = endpoints
  /\ \A f \in Flushes : \A e \in Elements(todo[f]) \ Elements(todo'[f]) :
       Elements(batch[f]) \subseteq received'[e] \cup failed'[e]

\* No endpoint is passed over by flushQueue.
EveryEndpointTried == [][Tried]_siemVars

\* No event waits in the queue for ever: the timer takes also what is less than
\* a batch.  (As many calls in flight as the model allows excuse it.)
QueueDrains ==
  \A n \in 1 .. MaxIngested :
    n \in Elements(queue) ~> n \notin Elements(queue) \/ \A f \in Flushes : Active(f)

===============================================================================
