------------------------------ MODULE Telemetry ------------------------------
(***************************************************************************)
(* The audit event dispatcher (TelemetryManager, telemetry.py).            *)
(*                                                                         *)
(* Emitting threads put events into a bounded queue; one worker takes them *)
(* out in batches and hands each batch to every sink; an emitter that      *)
(* finds the queue full sends its event to the sinks itself.  flush waits  *)
(* for the queue's task counter and shutdown stops the worker with a None. *)
(*                                                                         *)
(* A sink is what FileSink and MemorySink are: it appends in the order it  *)
(* is called, and a call may fail after it wrote a part of its batch.      *)
(* Real-time subscribers, which see an event before any of this, are left  *)
(* out, and so are the duplicates of HttpSink's retries.                   *)
(***************************************************************************)
EXTENDS Naturals, Sequences, SequencesExt, FiniteSets

CONSTANTS
  Emitter,     \* threads that call emit or emit_sync
  Sink,        \* sinks that may be registered
  FirstSinks,  \* the sinks __init__ registers, in order
  Memory,      \* the ring buffer, which clear_sinks keeps
  Nobody,      \* no holder of a lock
  MaxQueue,    \* maxsize of the queue: 10000 in the code
  MaxBatch,    \* most events of a batch: 50 in the code
  MaxEvents,   \* bound: events emitted
  MaxChanges,  \* bound: calls of add_sink, remove_sink and clear_sinks
  MaxFailures  \* bound: calls of a sink that fail

ASSUME TelemetryAssumption ==
  /\ Nobody \notin Emitter
  /\ Memory \in Sink /\ IsFiniteSet(Sink)
  /\ FirstSinks \in Seq(Sink)
  /\ \A i, j \in DOMAIN FirstSinks : FirstSinks[i] = FirstSinks[j] => i = j
  /\ MaxQueue \in Nat \ {0} /\ MaxBatch \in Nat \ {0}
  /\ MaxEvents \in Nat /\ MaxChanges \in Nat /\ MaxFailures \in Nat

Event == 1 .. MaxEvents
None == 0  \* the item shutdown puts into the queue

VARIABLES
  queue,       \* the queue's items
  unfinished,  \* the queue's count of items put and not reported done
  sinks,       \* the registered sinks, in order
  sinkLock,    \* _sink_lock: the emitter that holds it
  changes,     \* changes of the sinks so far
  events,      \* events emitted so far
  at,          \* where each emitter is in emit or emit_sync
  sending,     \* the event each emitter sends itself
  toSend,      \* the sinks it still has to call
  worker,      \* where the worker is in its loop
  batch,       \* the worker's batch
  toCall,      \* the sinks it still has to call
  running,     \* _running
  stop,        \* where shutdown is
  flusher,     \* where a flush is
  failures,    \* calls of a sink that failed so far
  log,         \* log[k]: the events sink k holds
  missed,      \* history: missed[k]: the events sink k was given and failed to write
  queued,      \* history: the events put into the queue
  settled,     \* history: the events whose dispatch is over
  lasting,     \* history: the sinks registered from the start
  barrier,     \* history: the events queued before the flush began
  pending,     \* history: the events queued before shutdown began
  timedOut     \* history: whether shutdown gave up waiting for the worker

queueVars == <<queue, unfinished>>
sinkVars == <<sinks, changes, lasting>>
emitVars == <<at, sending, toSend>>
workVars == <<worker, batch, toCall>>
stopVars == <<running, stop, pending, timedOut>>
flushVars == <<flusher, barrier>>
trailVars == <<log, missed, failures>>
vars == <<queueVars, sinkVars, sinkLock, events, emitVars, workVars, stopVars, flushVars,
          trailVars, queued, settled>>

\* What no step of the worker, no step of an emitter, and no step of the threads that
\* configure, flush or stop the dispatcher changes.
workerFrame == <<sinkVars, sinkLock, events, emitVars, stopVars, flushVars, queued>>
emitFrame == <<sinkVars, workVars, stopVars, flushVars>>
shareFrame == <<queueVars, events, emitVars, workVars, trailVars, queued, settled>>

Elements(s) == {s[i] : i \in DOMAIN s}

Init ==
  /\ queue = <<>> /\ unfinished = 0
  /\ sinks = FirstSinks /\ sinkLock = Nobody /\ changes = 0
  /\ lasting = Elements(FirstSinks)
  /\ events = 0
  /\ at = [e \in Emitter |-> "idle"]
  /\ sending = [e \in Emitter |-> None]
  /\ toSend = [e \in Emitter |-> <<>>]
  /\ worker = "loop" /\ batch = <<>> /\ toCall = <<>>
  /\ running = TRUE /\ stop = "up" /\ pending = {} /\ timedOut = FALSE
  /\ flusher = "idle" /\ barrier = {}
  /\ failures = 0
  /\ log = [k \in Sink |-> <<>>]
  /\ missed = [k \in Sink |-> {}]
  /\ queued = {} /\ settled = {}

----------------------------------------------------------------------------
\* Mutant of Put: the queue has no maxsize.
PutAnyway(e) ==
  /\ at[e] = "idle" /\ events < MaxEvents
  /\ events' = events + 1
  /\ queue' = Append(queue, events + 1)
  /\ unfinished' = unfinished + 1
  /\ queued' = queued \cup {events + 1}
  /\ UNCHANGED <<emitFrame, sinkLock, at, sending, toSend, trailVars, settled>>

\* emit: the event fits into the queue.
Put(e) ==
  /\ at[e] = "idle" /\ events < MaxEvents
  /\ Len(queue) < MaxQueue
  /\ events' = events + 1
  /\ queue' = Append(queue, events + 1)
  /\ unfinished' = unfinished + 1
  /\ queued' = queued \cup {events + 1}
  /\ UNCHANGED <<emitFrame, sinkLock, emitVars, trailVars, settled>>

\* emit_sync at any time, or emit when it finds the queue full: the thread is to send
\* the event itself.
SendItself(e) ==
  /\ at[e] = "idle" /\ events < MaxEvents
  /\ events' = events + 1
  /\ at' = [at EXCEPT ![e] = "waiting"]
  /\ sending' = [sending EXCEPT ![e] = events + 1]
  /\ UNCHANGED <<emitFrame, queueVars, sinkLock, toSend, trailVars, queued, settled>>

TakeSinkLock(e) ==
  /\ at[e] = "waiting" /\ sinkLock = Nobody
  /\ sinkLock' = e
  /\ at' = [at EXCEPT ![e] = "sending"]
  /\ toSend' = [toSend EXCEPT ![e] = sinks]
  /\ UNCHANGED <<emitFrame, queueVars, events, sending, trailVars, queued, settled>>

\* A sink is called with the events es, and writes the first n of them.
Deliver(k, es, n) ==
  /\ log' = [log EXCEPT ![k] = @ \o SubSeq(es, 1, n)]
  /\ missed' = [missed EXCEPT ![k] = @ \cup Elements(SubSeq(es, n + 1, Len(es)))]
  /\ failures' = IF n < Len(es) THEN failures + 1 ELSE failures
  /\ failures' <= MaxFailures

Send(e, n) ==
  /\ at[e] = "sending" /\ toSend[e] # <<>>
  /\ n \in {0, 1}
  /\ Deliver(Head(toSend[e]), <<sending[e]>>, n)
  /\ toSend' = [toSend EXCEPT ![e] = Tail(@)]
  /\ UNCHANGED <<emitFrame, queueVars, sinkLock, events, at, sending, queued, settled>>

Sent(e) ==
  /\ at[e] = "sending" /\ toSend[e] = <<>>
  /\ sinkLock' = Nobody
  /\ at' = [at EXCEPT ![e] = "idle"]
  /\ sending' = [sending EXCEPT ![e] = None]
  /\ settled' = settled \cup {sending[e]}
  /\ UNCHANGED <<emitFrame, queueVars, events, toSend, trailVars, queued>>

----------------------------------------------------------------------------
\* add_sink, remove_sink and clear_sinks.  No sink is registered twice, so that
\* remove_sink takes it out by taking out its first occurrence.
ChangeSinks(new) ==
  /\ changes < MaxChanges /\ sinkLock = Nobody
  /\ changes' = changes + 1
  /\ sinks' = new
  /\ lasting' = lasting \cap Elements(new)
  /\ UNCHANGED <<shareFrame, sinkLock, stopVars, flushVars>>

Configure ==
  \/ \E k \in Sink \ Elements(sinks) : ChangeSinks(Append(sinks, k))
  \/ \E i \in DOMAIN sinks : ChangeSinks(RemoveAt(sinks, i))
  \/ ChangeSinks(<<Memory>>)

----------------------------------------------------------------------------
Worker(here, there) == worker = here /\ worker' = there

\* Mutant of Loop: the worker runs while there is something in the queue.
LoopWhileBusy ==
  /\ Worker("loop", IF running /\ queue # <<>> THEN "get" ELSE "ended")
  /\ UNCHANGED <<workerFrame, queueVars, batch, toCall, trailVars, settled>>

\* Mutant of Loop: only the None ends the worker.
LoopForever ==
  /\ Worker("loop", "get")
  /\ UNCHANGED <<workerFrame, queueVars, batch, toCall, trailVars, settled>>

\* while self._running
Loop ==
  /\ Worker("loop", IF running THEN "get" ELSE "ended")
  /\ UNCHANGED <<workerFrame, queueVars, batch, toCall, trailVars, settled>>

\* Mutant of Get: the queue is a LifoQueue.
GetLatest ==
  LET item == queue[Len(queue)]
  IN  /\ queue # <<>>
      /\ Worker("get", IF item = None THEN "ended" ELSE "gather")
      /\ queue' = SubSeq(queue, 1, Len(queue) - 1)
      /\ IF item = None
           THEN unfinished' = unfinished - 1 /\ UNCHANGED batch
           ELSE batch' = <<item>> /\ UNCHANGED unfinished
      /\ UNCHANGED <<workerFrame, toCall, trailVars, settled>>

\* queue.get waits for the first item; a None ends the worker.
Get ==
  /\ queue # <<>>
  /\ Worker("get", IF Head(queue) = None THEN "ended" ELSE "gather")
  /\ queue' = Tail(queue)
  /\ IF Head(queue) = None
       THEN unfinished' = unfinished - 1 /\ UNCHANGED batch
       ELSE batch' = <<Head(queue)>> /\ UNCHANGED unfinished
  /\ UNCHANGED <<workerFrame, toCall, trailVars, settled>>

\* Nothing came for 0.2 s: queue.Empty.
GetTimesOut ==
  /\ queue = <<>>
  /\ Worker("get", "loop")
  /\ UNCHANGED <<workerFrame, queueVars, batch, toCall, trailVars, settled>>

\* Mutant of Gather: the item that no longer fits the batch is taken, and lost.
GatherTooMuch ==
  /\ queue # <<>>
  /\ Worker("gather", IF Head(queue) = None THEN "ready" ELSE "gather")
  /\ queue' = Tail(queue)
  /\ IF Head(queue) = None
       THEN unfinished' = unfinished - 1 /\ UNCHANGED batch
       ELSE /\ batch' = IF Len(batch) < MaxBatch THEN Append(batch, Head(queue)) ELSE batch
            /\ UNCHANGED unfinished
  /\ UNCHANGED <<workerFrame, toCall, trailVars, settled>>

\* The batch is filled with what is there; a None closes it.
Gather ==
  /\ Len(batch) < MaxBatch /\ queue # <<>>
  /\ Worker("gather", IF Head(queue) = None THEN "ready" ELSE "gather")
  /\ queue' = Tail(queue)
  /\ IF Head(queue) = None
       THEN unfinished' = unfinished - 1 /\ UNCHANGED batch
       ELSE batch' = Append(batch, Head(queue)) /\ UNCHANGED unfinished
  /\ UNCHANGED <<workerFrame, toCall, trailVars, settled>>

Gathered ==
  /\ Len(batch) = MaxBatch \/ queue = <<>>
  /\ Worker("gather", "ready")
  /\ UNCHANGED <<workerFrame, queueVars, batch, toCall, trailVars, settled>>

\* Mutant of CopySinks: the items are reported done before they are dispatched.
DoneBeforeDispatch ==
  /\ sinkLock = Nobody
  /\ Worker("ready", "dispatch")
  /\ toCall' = sinks
  /\ unfinished' = unfinished - Len(batch)
  /\ UNCHANGED <<workerFrame, queue, batch, trailVars, settled>>

\* The sinks are copied under the lock and called without it.
CopySinks ==
  /\ sinkLock = Nobody
  /\ Worker("ready", "dispatch")
  /\ toCall' = sinks
  /\ UNCHANGED <<workerFrame, queueVars, batch, trailVars, settled>>

Dispatch(n) ==
  /\ worker = "dispatch" /\ toCall # <<>>
  /\ n \in 0 .. Len(batch)
  /\ Deliver(Head(toCall), batch, n)
  /\ toCall' = Tail(toCall)
  /\ UNCHANGED <<workerFrame, queueVars, worker, batch, settled>>

\* task_done for every event of the batch.
BatchDone ==
  /\ toCall = <<>>
  /\ Worker("dispatch", "loop")
  /\ unfinished' = unfinished - Len(batch)
  /\ settled' = settled \cup Elements(batch)
  /\ batch' = <<>>
  /\ UNCHANGED <<workerFrame, queue, toCall, trailVars>>

Work ==
  \/ Loop \/ Get \/ GetTimesOut \/ Gather \/ Gathered \/ CopySinks
  \/ \E n \in 0 .. MaxBatch : Dispatch(n)
  \/ BatchDone


----------------------------------------------------------------------------
\* flush: queue.join waits until no item is unfinished, with no timeout; then the
\* sinks are flushed.
BeginFlush ==
  /\ flusher = "idle" /\ flusher' = "joining"
  /\ barrier' = queued
  /\ UNCHANGED <<queueVars, sinkVars, sinkLock, events, emitVars, workVars, stopVars,
                 trailVars, queued, settled>>

Joined ==
  /\ flusher = "joining" /\ flusher' = "joined"
  /\ unfinished = 0
  /\ UNCHANGED <<queueVars, sinkVars, sinkLock, events, emitVars, workVars, stopVars,
                 trailVars, queued, settled, barrier>>

Flushed ==
  /\ flusher = "joined" /\ flusher' = "idle"
  /\ sinkLock = Nobody
  /\ barrier' = {}
  /\ UNCHANGED <<queueVars, sinkVars, sinkLock, events, emitVars, workVars, stopVars,
                 trailVars, queued, settled>>

Flush == BeginFlush \/ Joined \/ Flushed

----------------------------------------------------------------------------
\* shutdown, called once, by atexit or by the program.
BeginShutdown ==
  /\ stop = "up" /\ stop' = "stopping"
  /\ running' = FALSE
  /\ pending' = queued
  /\ UNCHANGED <<shareFrame, sinkVars, sinkLock, flushVars, timedOut>>

\* put_nowait(None): queue.Full is swallowed.
PutNone ==
  /\ stop = "stopping" /\ stop' = "joining"
  /\ IF Len(queue) < MaxQueue
       THEN queue' = Append(queue, None) /\ unfinished' = unfinished + 1
       ELSE UNCHANGED queueVars
  /\ UNCHANGED <<sinkVars, sinkLock, events, emitVars, workVars, trailVars, queued, settled,
                 flushVars, running, pending, timedOut>>

\* join returns, because the worker has ended or 2 s have passed.
JoinWorker ==
  /\ stop = "joining" /\ stop' = "closing"
  /\ timedOut' = (worker # "ended")
  /\ UNCHANGED <<shareFrame, sinkVars, sinkLock, flushVars, running, pending>>

CloseSinks ==
  /\ stop = "closing" /\ stop' = "down"
  /\ sinkLock = Nobody
  /\ UNCHANGED <<shareFrame, sinkVars, sinkLock, flushVars, running, pending, timedOut>>

Shutdown == BeginShutdown \/ PutNone \/ JoinWorker \/ CloseSinks

Emit(e) ==
  \/ Put(e) \/ SendItself(e) \/ TakeSinkLock(e)
  \/ \E n \in {0, 1} : Send(e, n)
  \/ Sent(e)

Next == (\E e \in Emitter : Emit(e)) \/ Configure \/ Work \/ Flush \/ Shutdown

\* The threads are scheduled: the worker goes on, and so does an emitter that has
\* begun to send its event, and with it whoever waits for the lock it holds.
Fairness ==
  /\ WF_vars(Work)
  /\ \A e \in Emitter : WF_vars(at[e] # "idle" /\ Emit(e))

Spec == Init /\ [][Next]_vars /\ Fairness

----------------------------------------------------------------------------
TypeOK ==
  /\ queue \in Seq(Event \cup {None}) /\ Len(queue) <= MaxQueue
  /\ unfinished \in 0 .. MaxQueue + MaxBatch
  /\ sinks \in Seq(Sink) /\ Len(sinks) <= Cardinality(Sink)
  /\ sinkLock \in Emitter \cup {Nobody} /\ changes \in 0 .. MaxChanges
  /\ events \in 0 .. MaxEvents
  /\ at \in [Emitter -> {"idle", "waiting", "sending"}]
  /\ sending \in [Emitter -> Event \cup {None}]
  /\ \A e \in Emitter : toSend[e] \in Seq(Sink)
  /\ worker \in {"loop", "get", "gather", "ready", "dispatch", "ended"}
  /\ batch \in Seq(Event) /\ Len(batch) <= MaxBatch
  /\ toCall \in Seq(Sink)
  /\ running \in BOOLEAN /\ timedOut \in BOOLEAN
  /\ stop \in {"up", "stopping", "joining", "closing", "down"}
  /\ flusher \in {"idle", "joining", "joined"}
  /\ failures \in 0 .. MaxFailures
  /\ \A k \in Sink : log[k] \in Seq(Event) /\ missed[k] \subseteq Event
  /\ lasting \subseteq Sink
  /\ queued \cup settled \cup barrier \cup pending \subseteq Event

\* No event is lost between the threads, and none is logged twice: an event that was
\* emitted is in the queue, in the worker's batch or in the hands of its emitter, or
\* its dispatch is over, and then every sink that was registered all along has
\* written it once, or has failed to ("prevent audit trail loss", telemetry.py:617).
TrailIsComplete ==
  /\ 1 .. events = (Elements(queue) \cup Elements(batch) \cup settled
                      \cup {sending[e] : e \in Emitter}) \ {None}
  /\ \A k \in lasting : settled \subseteq Elements(log[k]) \cup missed[k]
  /\ \A k \in Sink :
       /\ Cardinality(Elements(log[k])) = Len(log[k])
       /\ Elements(log[k]) \cap missed[k] = {}

\* The audit trail keeps the order of the events that went through the queue, in
\* every sink and through every failure (telemetry.py's worker loop).  An event
\* that its emitter sent itself may overtake them.
QueuedInOrder ==
  \A k \in Sink : \A i, j \in DOMAIN log[k] :
    i < j /\ {log[k][i], log[k][j]} \subseteq queued => log[k][i] < log[k][j]

\* When flush gets past queue.join, every event queued before the call has been
\* dispatched ("Wait for pending queued telemetry events to be drained",
\* telemetry.py:669), whatever was emitted, taken or shut down meanwhile.
FlushIsABarrier == flusher = "joined" => barrier \subseteq settled

\* Every event is dispatched in the end, unless shutdown begins.
EventuallySettled == \A n \in Event : (n <= events) ~> (n \in settled \/ ~running)

\* shutdown stops the worker, even when its None found the queue full.
WorkerStops == ~running ~> worker = "ended"

\* A shutdown that did not time out has drained the queue: what was queued before
\* it began has been dispatched ("Gracefully drain and close the telemetry engine",
\* telemetry.py:688).
ShutdownDrains == stop = "down" /\ ~timedOut => pending \subseteq settled

==============================================================================
