---------------------------- MODULE EventPipeline ----------------------------
(***************************************************************************)
(* AsyncSink (pkg/orchestrator/events.go): the bounded queue between the   *)
(* goroutines that emit lifecycle events and the one worker that hands     *)
(* them to a webhook or a syslog receiver, and Close, which stops it.      *)
(*                                                                         *)
(* eventDispatcher.emit passes context.Background(), so the select of      *)
(* Handle has two arms: there is room in the queue, or there is not.       *)
(***************************************************************************)
EXTENDS Integers, Sequences

CONSTANTS
  Emitters,    \* goroutines that emit: one per device, and main
  Closers,     \* goroutines that call Close; closeOnce lets one of them in
  QueueSize,   \* queue_size; 0 asks for the default
  MaxEvents    \* bound: events an emitter emits

ASSUME SizesAssumption == QueueSize \in Nat /\ MaxEvents \in Nat

Capacity == IF QueueSize = 0 THEN 256 ELSE QueueSize

Events == Emitters \X (1..MaxEvents)

VARIABLES
  emitter,    \* where each emitter is in Handle; "idle" outside
  emitted,    \* events each emitter has tried to hand over
  mutex,      \* s.mu: "free", "pending" (a writer waits) or "locked"
  readers,    \* emitters that hold s.mu for reading
  closed,     \* s.closed
  open,       \* the queue's channel is not closed
  queue,      \* the events in the channel
  worker,     \* "receive", "deliver" an event, or "done" (s.done is closed)
  inHand,     \* the events the worker delivers: at most one
  closer,     \* where each closer is in Close; "idle" before
  once,       \* closeOnce: "fresh", "running" or "over"
  sinkOpen,   \* the wrapped sink has not been closed
  accepted,   \* history: events for which Handle returned nil, in that order
  delivered,  \* history: events the wrapped sink's Handle has returned from
  panicked    \* history: somebody sent on the closed channel

emitterVars == <<emitter, emitted, readers>>
queueVars   == <<open, queue, accepted, panicked>>
workerVars  == <<worker, inHand, delivered>>
closerVars  == <<mutex, closed, closer, once, sinkOpen>>
vars == <<emitterVars, queueVars, workerVars, closerVars>>

Init ==
  /\ emitter = [e \in Emitters |-> "idle"] /\ emitted = [e \in Emitters |-> 0]
  /\ mutex = "free" /\ readers = {}
  /\ closed = FALSE /\ open = TRUE /\ queue = <<>>
  /\ worker = "receive" /\ inHand = <<>>
  /\ closer = [c \in Closers |-> "idle"] /\ once = "fresh" /\ sinkOpen = TRUE
  /\ accepted = <<>> /\ delivered = <<>> /\ panicked = FALSE

-----------------------------------------------------------------------------
(* Handle *)

At(e, l)   == emitter[e] = l
Goto(e, l) == emitter' = [emitter EXCEPT ![e] = l]

Emit(e) ==
  /\ At(e, "idle") /\ emitted[e] < MaxEvents
  /\ Goto(e, "lock")
  /\ emitted' = [emitted EXCEPT ![e] = @ + 1]
  /\ UNCHANGED <<readers, queueVars, workerVars, closerVars>>

\* A writer that waits keeps new readers out.
RLock(e) ==
  /\ At(e, "lock") /\ mutex = "free"
  /\ readers' = readers \cup {e}
  /\ Goto(e, "check")
  /\ UNCHANGED <<emitted, queueVars, workerVars, closerVars>>

CheckClosed(e) ==
  /\ At(e, "check")
  /\ Goto(e, IF closed THEN "unlock" ELSE "send")
  /\ UNCHANGED <<emitted, readers, queueVars, workerVars, closerVars>>

Event(e) == <<e, emitted[e]>>

\* What Handle does with the event: sent if there is room, else refused.  A send
\* on a closed channel panics.
Put(e, room, rest) ==
  /\ queue' = (IF room THEN Append(rest, Event(e)) ELSE queue)
  /\ accepted' = (IF room THEN Append(accepted, Event(e)) ELSE accepted)
  /\ panicked' = (panicked \/ ~open)

\* select { case s.queue <- event: ... default: ... }
Offer(e) == Put(e, open /\ Len(queue) < Capacity, queue)

Send(e) ==
  /\ At(e, "send")
  /\ Offer(e)
  /\ Goto(e, "unlock")
  /\ UNCHANGED <<emitted, readers, open, workerVars, closerVars>>

RUnlock(e) ==
  /\ At(e, "unlock")
  /\ readers' = readers \ {e}
  /\ Goto(e, "idle")
  /\ UNCHANGED <<emitted, queueVars, workerVars, closerVars>>

-----------------------------------------------------------------------------
(* The worker: for event := range s.queue *)

Take ==
  /\ worker = "receive" /\ queue # <<>>
  /\ inHand' = <<Head(queue)>> /\ queue' = Tail(queue)
  /\ worker' = "deliver"
  /\ UNCHANGED <<emitterVars, open, accepted, panicked, delivered, closerVars>>

\* The sink's Handle returns; an error is passed to onError and that is all.
Deliver ==
  /\ worker = "deliver"
  /\ delivered' = delivered \o inHand /\ inHand' = <<>>
  /\ worker' = "receive"
  /\ UNCHANGED <<emitterVars, queueVars, closerVars>>

\* Fault: the worker leaves as soon as the sink is closed.
LeaveAtOnce ==
  /\ worker = "receive" /\ ~open
  /\ worker' = "done"
  /\ UNCHANGED <<emitterVars, queueVars, inHand, delivered, closerVars>>

\* The channel is closed and empty; defer close(s.done).
Leave ==
  /\ worker = "receive" /\ ~open /\ queue = <<>>
  /\ worker' = "done"
  /\ UNCHANGED <<emitterVars, queueVars, inHand, delivered, closerVars>>

-----------------------------------------------------------------------------
(* Close *)

Advance(c, from, to) == closer[c] = from /\ closer' = [closer EXCEPT ![c] = to]

CallClose(c) ==
  /\ Advance(c, "idle", "once")
  /\ UNCHANGED <<emitterVars, queueVars, workerVars, mutex, closed, once, sinkOpen>>

EnterOnce(c) ==
  /\ once = "fresh" /\ Advance(c, "once", "lock")
  /\ once' = "running"
  /\ UNCHANGED <<emitterVars, queueVars, workerVars, mutex, closed, sinkOpen>>

\* sync.Once: the others wait for the one inside, then read closeErr.
PassOnce(c) ==
  /\ once = "over" /\ Advance(c, "once", "returned")
  /\ UNCHANGED <<emitterVars, queueVars, workerVars, mutex, closed, once, sinkOpen>>

RequestLock(c) ==
  /\ Advance(c, "lock", "wait")
  /\ mutex' = "pending"
  /\ UNCHANGED <<emitterVars, queueVars, workerVars, closed, once, sinkOpen>>

\* Fault: the emitters that are inside are not waited for.
LockRegardless(c) ==
  /\ Advance(c, "wait", "mark")
  /\ mutex' = "locked"
  /\ UNCHANGED <<emitterVars, queueVars, workerVars, closed, once, sinkOpen>>

Lock(c) ==
  /\ readers = {} /\ Advance(c, "wait", "mark")
  /\ mutex' = "locked"
  /\ UNCHANGED <<emitterVars, queueVars, workerVars, closed, once, sinkOpen>>

MarkClosed(c) ==
  /\ Advance(c, "mark", "close")
  /\ closed' = TRUE
  /\ UNCHANGED <<emitterVars, queueVars, workerVars, mutex, once, sinkOpen>>

\* Fault: closed is set, and the channel forgotten.
CloseNothing(c) ==
  /\ Advance(c, "close", "unlock")
  /\ UNCHANGED <<emitterVars, queueVars, workerVars, mutex, closed, once, sinkOpen>>

CloseQueue(c) ==
  /\ Advance(c, "close", "unlock")
  /\ open' = FALSE
  /\ UNCHANGED <<emitterVars, queue, accepted, panicked, workerVars, mutex, closed, once, sinkOpen>>

Unlock(c) ==
  /\ Advance(c, "unlock", "drain")
  /\ mutex' = "free"
  /\ UNCHANGED <<emitterVars, queueVars, workerVars, closed, once, sinkOpen>>

AwaitWorker(c) ==
  /\ worker = "done" /\ Advance(c, "drain", "sink")
  /\ UNCHANGED <<emitterVars, queueVars, workerVars, mutex, closed, once, sinkOpen>>

CloseSink(c) ==
  /\ Advance(c, "sink", "returned")
  /\ sinkOpen' = FALSE /\ once' = "over"
  /\ UNCHANGED <<emitterVars, queueVars, workerVars, mutex, closed>>

-----------------------------------------------------------------------------
HandleStep(e) == RLock(e) \/ CheckClosed(e) \/ Send(e) \/ RUnlock(e)

WorkerStep == Take \/ Deliver \/ Leave

CloseStep(c) ==
  \/ EnterOnce(c) \/ PassOnce(c) \/ RequestLock(c) \/ Lock(c) \/ MarkClosed(c)
  \/ CloseQueue(c) \/ Unlock(c) \/ AwaitWorker(c) \/ CloseSink(c)

\* Everybody is where nothing obliges them to go on.
Rest ==
  /\ \A e \in Emitters : At(e, "idle") /\ emitted[e] = MaxEvents
  /\ \A c \in Closers : closer[c] = "returned"
  /\ UNCHANGED vars

Next ==
  \/ \E e \in Emitters : Emit(e) \/ HandleStep(e)
  \/ WorkerStep
  \/ \E c \in Closers : CallClose(c) \/ CloseStep(c)
  \/ Rest

\* The runtime runs the callers.  The worker is not promised anything here: its
\* receiver may be slow.
Fairness ==
  /\ \A e \in Emitters : WF_vars(HandleStep(e))
  /\ \A c \in Closers : WF_vars(CloseStep(c))

Spec     == Init /\ [][Next]_vars
FairSpec == Spec /\ Fairness

-----------------------------------------------------------------------------
(* Properties *)

TypeOK ==
  /\ emitter \in [Emitters -> {"idle", "lock", "check", "send", "unlock"}]
  /\ emitted \in [Emitters -> 0..MaxEvents]
  /\ mutex \in {"free", "pending", "locked"} /\ readers \subseteq Emitters
  /\ closed \in BOOLEAN /\ open \in BOOLEAN /\ sinkOpen \in BOOLEAN /\ panicked \in BOOLEAN
  /\ queue \in Seq(Events) /\ Len(queue) <= Capacity
  /\ inHand \in Seq(Events) /\ accepted \in Seq(Events) /\ delivered \in Seq(Events)
  /\ worker \in {"receive", "deliver", "done"}
  /\ closer \in [Closers -> {"idle", "once", "lock", "wait", "mark", "close", "unlock",
                             "drain", "sink", "returned"}]
  /\ once \in {"fresh", "running", "over"}

\* An emitter that overlaps with Close is refused; it never sends on the closed
\* channel, which would panic and take the run with it.
SendsAreSafe == ~panicked

\* No accepted event is lost, repeated or overtaken: what was delivered, what the
\* worker holds and what is queued are together what was accepted, in order.
NothingIsLost == accepted = delivered \o inHand \o queue

\* When Close returns, every event that was accepted, run.completed among them,
\* has been delivered, and the receiver was not closed under the worker.
CloseDeliversEverything ==
  (~sinkOpen \/ \E c \in Closers : closer[c] = "returned")
    => worker = "done" /\ delivered = accepted

\* Close returns to every caller if every delivery has an end (each sink has a
\* timeout), whoever else is in Close or in Handle.
CloseReturns ==
  WF_vars(WorkerStep) => \A c \in Closers : closer[c] # "idle" ~> closer[c] = "returned"
=============================================================================
