-------------------------- MODULE TelemetryProofs --------------------------
(***************************************************************************)
(* What the dispatcher promises, for any number of emitters and sinks, any *)
(* size of the queue and of a batch, and any failures.  First the flush:   *)
(* when it gets past the queue's join, what was queued before the call has *)
(* been dispatched.  Then the audit trail: no event is lost between the    *)
(* threads, none comes to a sink twice, and those that went through the    *)
(* queue keep their order.                                                 *)
(***************************************************************************)
EXTENDS Telemetry, SequenceTheorems, FunctionTheorems, FiniteSetTheorems, TLAPS

LEMMA ElementsOfAppend ==
    ASSUME NEW S, NEW s \in Seq(S), NEW x \in S
    PROVE  /\ Append(s, x) \in Seq(S) /\ Len(Append(s, x)) = Len(s) + 1
           /\ Elements(Append(s, x)) = Elements(s) \cup {x}
<1>1. /\ Append(s, x) \in Seq(S) /\ Len(Append(s, x)) = Len(s) + 1
      /\ DOMAIN Append(s, x) = 1 .. Len(s) + 1
      /\ \A i \in 1 .. Len(s) : Append(s, x)[i] = s[i]
      /\ Append(s, x)[Len(s) + 1] = x
    OBVIOUS
<1>2. DOMAIN s = 1 .. Len(s) /\ Len(s) \in Nat
    OBVIOUS
<1>3. Elements(Append(s, x)) \subseteq Elements(s) \cup {x}
    BY <1>1, <1>2 DEF Elements
<1>4. Elements(s) \subseteq Elements(Append(s, x))
    BY <1>1, <1>2 DEF Elements
<1>5. x \in Elements(Append(s, x))
    BY <1>1, <1>2 DEF Elements
<1> QED
    BY <1>1, <1>3, <1>4, <1>5

LEMMA ElementsOfTail ==
    ASSUME NEW S, NEW s \in Seq(S), s # <<>>
    PROVE  /\ Head(s) \in S /\ Tail(s) \in Seq(S) /\ Len(s) = Len(Tail(s)) + 1
           /\ Elements(s) = {Head(s)} \cup Elements(Tail(s))
<1>1. /\ Len(s) \in Nat /\ Len(s) >= 1 /\ DOMAIN s = 1 .. Len(s)
      /\ Tail(s) \in Seq(S) /\ Len(Tail(s)) = Len(s) - 1
      /\ DOMAIN Tail(s) = 1 .. Len(s) - 1
      /\ \A i \in 1 .. Len(s) - 1 : Tail(s)[i] = s[i + 1]
      /\ Head(s) = s[1] /\ s[1] \in S
    OBVIOUS
<1>2. ASSUME NEW i \in DOMAIN s PROVE s[i] \in {Head(s)} \cup Elements(Tail(s))
    <2>1. CASE i = 1
        BY <1>1, <2>1
    <2>2. CASE i # 1
        <3>1. i - 1 \in DOMAIN Tail(s) /\ Tail(s)[i - 1] = s[i]
            BY <1>1, <1>2, <2>2
        <3> QED
            BY <3>1 DEF Elements
    <2> QED
        BY <2>1, <2>2
<1>3. ASSUME NEW i \in DOMAIN Tail(s) PROVE Tail(s)[i] \in Elements(s)
    <2>1. i + 1 \in DOMAIN s /\ s[i + 1] = Tail(s)[i]
        BY <1>1, <1>3
    <2> QED
        BY <2>1 DEF Elements
<1>4. Head(s) \in Elements(s)
    BY <1>1 DEF Elements
<1>5. Elements(s) = {Head(s)} \cup Elements(Tail(s))
    BY <1>2, <1>3, <1>4 DEF Elements
<1> QED
    BY <1>1, <1>5

LEMMA ElementsOfNone == Elements(<<>>) = {} /\ Len(<<>>) = 0
    BY DEF Elements

-----------------------------------------------------------------------------
(***************************************************************************)
(* The queue's counter is the items in the queue and the events in the     *)
(* worker's hands, and an event that was queued is in one of the two or    *)
(* dispatched.  So when the counter is 0, all that was queued is           *)
(* dispatched, and it stays so.                                            *)
(***************************************************************************)
QueueTypeOK ==
    /\ queue \in Seq(Event \cup {None}) /\ batch \in Seq(Event)
    /\ events \in 0 .. MaxEvents
    /\ queued \subseteq Event

Counted == unfinished = Len(queue) + Len(batch)

EmptyHanded == worker \in {"loop", "get"} => batch = <<>>

NoneForgotten == queued \subseteq Elements(queue) \cup Elements(batch) \cup settled

Barred == barrier \subseteq queued /\ FlushIsABarrier

IInv == QueueTypeOK /\ Counted /\ EmptyHanded /\ NoneForgotten /\ Barred

LEMMA Initially == Init => IInv
    BY TelemetryAssumption, ElementsOfNone
    DEF Init, IInv, QueueTypeOK, Counted, EmptyHanded, NoneForgotten, Barred, FlushIsABarrier, None

(* A step that leaves the queue, the batch and the flush alone. *)
LEMMA OtherStep ==
    ASSUME IInv, UNCHANGED <<queueVars, batch, queued, flushVars>>,
           events' \in 0 .. MaxEvents, settled \subseteq settled',
           worker' \in {"loop", "get"} => worker \in {"loop", "get"}
    PROVE  IInv'
    BY DEF IInv, QueueTypeOK, Counted, EmptyHanded, NoneForgotten, Barred, FlushIsABarrier,
           queueVars, flushVars

LEMMA PutStep ==
    ASSUME IInv, NEW e \in Emitter, Put(e)
    PROVE  IInv'
<1> USE DEF IInv
<1>1. /\ events' = events + 1 /\ queue' = Append(queue, events + 1)
      /\ unfinished' = unfinished + 1 /\ queued' = queued \cup {events + 1}
      /\ UNCHANGED <<worker, batch, flusher, barrier, settled>>
      /\ events < MaxEvents
    BY DEF Put, emitFrame, workVars, flushVars
<1>2. events + 1 \in Event /\ events' \in 0 .. MaxEvents
    BY <1>1, TelemetryAssumption DEF QueueTypeOK, Event
<1>3. /\ queue' \in Seq(Event \cup {None}) /\ Len(queue') = Len(queue) + 1
      /\ Elements(queue') = Elements(queue) \cup {events + 1}
    BY <1>1, <1>2, ElementsOfAppend DEF QueueTypeOK
<1>4. QueueTypeOK'
    BY <1>1, <1>2, <1>3 DEF QueueTypeOK
<1>5. Counted'
    BY <1>1, <1>3 DEF Counted, QueueTypeOK
<1>6. NoneForgotten'
    BY <1>1, <1>3 DEF NoneForgotten
<1> QED
    BY <1>1, <1>4, <1>5, <1>6 DEF EmptyHanded, Barred, FlushIsABarrier

LEMMA PutNoneStep ==
    ASSUME IInv, PutNone
    PROVE  IInv'
<1> USE DEF IInv
<1>1. UNCHANGED <<worker, batch, flusher, barrier, settled, events, queued>>
    BY DEF PutNone, workVars, flushVars
<1>2. CASE queue' = Append(queue, None) /\ unfinished' = unfinished + 1
    <2>1. /\ queue' \in Seq(Event \cup {None}) /\ Len(queue') = Len(queue) + 1
          /\ Elements(queue') = Elements(queue) \cup {None}
        BY <1>2, ElementsOfAppend DEF QueueTypeOK
    <2>2. Counted'
        BY <1>1, <1>2, <2>1 DEF Counted, QueueTypeOK
    <2> QED
        BY <1>1, <2>1, <2>2
        DEF QueueTypeOK, EmptyHanded, NoneForgotten, Barred, FlushIsABarrier
<1>3. CASE UNCHANGED queueVars
    BY <1>1, <1>3, OtherStep DEF flushVars, QueueTypeOK
<1> QED
    BY <1>2, <1>3 DEF PutNone

(* Taking an item: a None is dropped and counted off, an event joins the batch. *)
LEMMA TakeStep ==
    ASSUME IInv, Get \/ Gather
    PROVE  IInv'
<1> USE DEF IInv
<1>1. /\ queue # <<>> /\ queue' = Tail(queue)
      /\ worker' \notin {"loop", "get"}
      /\ UNCHANGED <<events, queued, settled, flusher, barrier>>
    BY DEF Get, Gather, Worker, workerFrame, flushVars
<1>2. /\ Head(queue) \in Event \cup {None} /\ Tail(queue) \in Seq(Event \cup {None})
      /\ Len(queue) = Len(queue') + 1 /\ Len(queue') \in Nat
      /\ Elements(queue) = {Head(queue)} \cup Elements(queue')
    BY <1>1, ElementsOfTail DEF QueueTypeOK
<1>3. CASE Head(queue) = None
    <2>1. unfinished' = unfinished - 1 /\ UNCHANGED batch
        BY <1>3 DEF Get, Gather
    <2>2. None \notin queued
        BY DEF QueueTypeOK, Event, None
    <2>3. Counted'
        BY <1>2, <2>1 DEF Counted, QueueTypeOK
    <2>4. NoneForgotten'
        BY <1>1, <1>2, <1>3, <2>1, <2>2 DEF NoneForgotten
    <2> QED
        BY <1>1, <1>2, <2>1, <2>3, <2>4 DEF QueueTypeOK, EmptyHanded, Barred, FlushIsABarrier
<1>4. CASE Head(queue) # None
    <2>1. UNCHANGED unfinished /\ batch' = Append(batch, Head(queue))
        <3>1. CASE Get
            <4>1. batch = <<>> /\ batch' = <<Head(queue)>> /\ UNCHANGED unfinished
                BY <1>4, <3>1 DEF Get, Worker, EmptyHanded
            <4> QED
                BY <4>1
        <3>2. CASE Gather
            BY <1>4, <3>2 DEF Gather
        <3> QED
            BY <3>1, <3>2
    <2>2. /\ batch' \in Seq(Event) /\ Len(batch') = Len(batch) + 1 /\ Len(batch) \in Nat
          /\ Elements(batch') = Elements(batch) \cup {Head(queue)}
        BY <1>2, <1>4, <2>1, ElementsOfAppend DEF QueueTypeOK
    <2>3. Counted'
        <3>1. unfinished = Len(queue') + 1 + Len(batch)
            BY <1>2 DEF Counted
        <3>2. Len(batch') = Len(batch) + 1 /\ Len(batch) \in Nat /\ Len(queue') \in Nat
            BY <1>2, <2>2
        <3> QED
            BY <2>1, <3>1, <3>2 DEF Counted
    <2>4. NoneForgotten'
        BY <1>1, <1>2, <2>2 DEF NoneForgotten
    <2> QED
        BY <1>1, <1>2, <2>2, <2>3, <2>4 DEF QueueTypeOK, EmptyHanded, Barred, FlushIsABarrier
<1> QED
    BY <1>3, <1>4

LEMMA BatchDoneStep ==
    ASSUME IInv, BatchDone
    PROVE  IInv'
<1> USE DEF IInv
<1>1. /\ unfinished' = unfinished - Len(batch) /\ batch' = <<>>
      /\ settled' = settled \cup Elements(batch)
      /\ UNCHANGED <<queue, events, queued, flusher, barrier>>
    BY DEF BatchDone, workerFrame, flushVars
<1>2. Counted'
    BY <1>1, ElementsOfNone DEF Counted, QueueTypeOK
<1>3. NoneForgotten'
    BY <1>1, ElementsOfNone DEF NoneForgotten
<1>4. QueueTypeOK'
    BY <1>1 DEF QueueTypeOK
<1> QED
    BY <1>1, <1>2, <1>3, <1>4 DEF EmptyHanded, Barred, FlushIsABarrier

LEMMA FlushStep ==
    ASSUME IInv, Flush
    PROVE  IInv'
<1> USE DEF IInv
<1>1. UNCHANGED <<queue, unfinished, batch, worker, events, queued, settled>>
    BY DEF Flush, BeginFlush, Joined, Flushed, queueVars, workVars
<1>2. Barred'
    <2>1. CASE BeginFlush
        BY <1>1, <2>1 DEF BeginFlush, Barred, FlushIsABarrier
    <2>2. CASE Joined
        <3>1. unfinished = 0 /\ barrier' = barrier
            BY <2>2 DEF Joined
        <3>2. queue = <<>> /\ batch = <<>>
            BY <3>1, EmptySeq DEF Counted, QueueTypeOK
        <3>3. queued \subseteq settled
            BY <3>2, ElementsOfNone DEF NoneForgotten
        <3> QED
            BY <1>1, <3>1, <3>3 DEF Barred, FlushIsABarrier
    <2>3. CASE Flushed
        BY <1>1, <2>3 DEF Flushed, Barred, FlushIsABarrier
    <2> QED
        BY <2>1, <2>2, <2>3 DEF Flush
<1> QED
    BY <1>1, <1>2 DEF QueueTypeOK, Counted, EmptyHanded, NoneForgotten

LEMMA Step == IInv /\ [Next]_vars => IInv'
<1> SUFFICES ASSUME IInv, [Next]_vars PROVE IInv'
    OBVIOUS
<1>0. events \in 0 .. MaxEvents /\ (events < MaxEvents => events + 1 \in 0 .. MaxEvents)
    BY TelemetryAssumption DEF IInv, QueueTypeOK
<1>1. ASSUME NEW e \in Emitter, Put(e) PROVE IInv'
    BY <1>1, PutStep
<1>2. ASSUME NEW e \in Emitter, SendItself(e) PROVE IInv'
    BY <1>0, <1>2, OtherStep DEF SendItself, emitFrame, workVars
<1>3. ASSUME NEW e \in Emitter, TakeSinkLock(e) \/ (\E n \in {0, 1} : Send(e, n)) \/ Sent(e)
      PROVE  IInv'
    BY <1>0, <1>3, OtherStep DEF TakeSinkLock, Send, Sent, emitFrame, workVars
<1>4. ASSUME NEW new, ChangeSinks(new) PROVE IInv'
    BY <1>0, <1>4, OtherStep DEF ChangeSinks, shareFrame, workVars
<1>5. CASE Loop \/ GetTimesOut \/ Gathered \/ CopySinks
    BY <1>0, <1>5, OtherStep
    DEF Loop, GetTimesOut, Gathered, CopySinks, Worker, workerFrame
<1>6. CASE \E n \in 0 .. MaxBatch : Dispatch(n)
    BY <1>0, <1>6, OtherStep DEF Dispatch, workerFrame
<1>7. CASE Get \/ Gather
    BY <1>7, TakeStep
<1>8. CASE BatchDone
    BY <1>8, BatchDoneStep
<1>9. CASE Flush
    BY <1>9, FlushStep
<1>10. CASE BeginShutdown \/ JoinWorker \/ CloseSinks
    BY <1>0, <1>10, OtherStep DEF BeginShutdown, JoinWorker, CloseSinks, shareFrame, workVars
<1>11. CASE PutNone
    BY <1>11, PutNoneStep
<1>12. CASE UNCHANGED vars
    BY <1>0, <1>12, OtherStep DEF vars, workVars
<1> QED
    BY <1>1, <1>2, <1>3, <1>4, <1>5, <1>6, <1>7, <1>8, <1>9, <1>10, <1>11, <1>12
    DEF Next, Emit, Configure, Work, Shutdown

(***************************************************************************)
(* Every event queued before a flush began has been dispatched when the    *)
(* flush gets past the join, whatever was emitted, configured, failed or   *)
(* shut down meanwhile.                                                    *)
(***************************************************************************)
THEOREM FlushWaits == Spec => []FlushIsABarrier
<1>1. IInv => FlushIsABarrier
    BY DEF IInv, Barred
<1> QED
    BY <1>1, Initially, Step, PTL DEF Spec

-----------------------------------------------------------------------------
(***************************************************************************)
(* The audit trail.  An event comes to a sink once: it is in one place on  *)
(* its way there, and a sink that still has to be called has not seen it.  *)
(* What goes through the queue stays in the order of its numbers, up to    *)
(* each sink.                                                              *)
(***************************************************************************)
Distinct(s) == \A i, j \in DOMAIN s : s[i] = s[j] => i = j
Ascending(s) == \A i, j \in DOMAIN s : i < j => s[i] < s[j]
InLine(s) == \A i, j \in DOMAIN s : i < j /\ s[i] # None /\ s[j] # None => s[i] < s[j]
OrderedWithin(l, Q) == \A i, j \in DOMAIN l : i < j /\ l[i] \in Q /\ l[j] \in Q => l[i] < l[j]

(* What a sink has been given. *)
Given(k) == Elements(log[k]) \cup missed[k]

(* The worker is to call sink k with the batch it has; the emitter e is to *)
(* call it with its event.                                                 *)
Calls(w, s, k) == w # "dispatch" \/ k \in Elements(s)
Sends(a, s, k) == a = "waiting" \/ (a = "sending" /\ k \in Elements(s))
WillCall(k) == Calls(worker, toCall, k)
WillSend(e, k) == Sends(at[e], toSend[e], k)

Sizes ==
    /\ Len(queue) <= MaxQueue /\ Len(batch) <= MaxBatch
    /\ sinks \in Seq(Sink) /\ Distinct(sinks) /\ lasting \subseteq Elements(sinks)
    /\ sinkLock \in Emitter \cup {Nobody} /\ changes \in 0 .. MaxChanges
    /\ toCall \in Seq(Sink) /\ Distinct(toCall)
    /\ worker \in {"loop", "get", "gather", "ready", "dispatch", "ended"}
    /\ running \in BOOLEAN /\ timedOut \in BOOLEAN
    /\ stop \in {"up", "stopping", "joining", "closing", "down"}
    /\ flusher \in {"idle", "joining", "joined"}
    /\ barrier \subseteq Event /\ pending \subseteq Event

Hands ==
    /\ at \in [Emitter -> {"idle", "waiting", "sending"}]
    /\ sending \in [Emitter -> Event \cup {None}]
    /\ toSend = [e \in Emitter |-> toSend[e]]
    /\ \A e \in Emitter :
         /\ toSend[e] \in Seq(Sink) /\ Distinct(toSend[e])
         /\ (sending[e] = None) <=> (at[e] = "idle")
         /\ sending[e] <= events /\ sending[e] \notin queued
         /\ \A f \in Emitter : sending[f] = sending[e] /\ sending[e] # None => f = e

Pipe ==
    /\ \A x \in queued : x <= events
    /\ Elements(batch) \subseteq queued /\ Elements(queue) \subseteq queued \cup {None}
    /\ Ascending(batch) /\ InLine(queue)
    /\ \A x \in Elements(batch), y \in Elements(queue) : y # None => x < y

TrailOf(k) ==
    /\ log[k] \in Seq(Event) /\ missed[k] \subseteq Event
    /\ Distinct(log[k]) /\ Elements(log[k]) \cap missed[k] = {}
    /\ OrderedWithin(log[k], queued)
    /\ \A x \in Given(k) : x <= events
    /\ \A x \in Given(k) \cap queued :
         /\ \A y \in Elements(queue) : y # None => x < y
         /\ WillCall(k) => \A y \in Elements(batch) : x < y
    /\ \A e \in Emitter : WillSend(e, k) => sending[e] \notin Given(k)

Trails ==
    /\ log = [k \in Sink |-> log[k]] /\ missed = [k \in Sink |-> missed[k]]
    /\ failures \in 0 .. MaxFailures
    /\ \A k \in Sink : TrailOf(k)

(* A sink that has been there all along has been given what is settled,    *)
(* and what is being dispatched unless it is still to be called.           *)
Served ==
    \A k \in lasting :
        /\ settled \subseteq Given(k)
        /\ WillCall(k) \/ Elements(batch) \subseteq Given(k)
        /\ \A e \in Emitter : at[e] = "sending" /\ ~WillSend(e, k) => sending[e] \in Given(k)

Located ==
    /\ settled \subseteq Event
    /\ 1 .. events = (Elements(queue) \cup Elements(batch) \cup settled
                        \cup {sending[e] : e \in Emitter}) \ {None}

Full == IInv /\ Sizes /\ Hands /\ Pipe /\ Trails /\ Served /\ Located

-----------------------------------------------------------------------------
(***************************************************************************)
(* Sequences whose elements are distinct or ascend.                        *)
(***************************************************************************)
LEMMA DistinctTail ==
    ASSUME NEW S, NEW s \in Seq(S), s # <<>>, Distinct(s)
    PROVE  Distinct(Tail(s)) /\ Head(s) \notin Elements(Tail(s))
<1>1. /\ Len(s) \in Nat /\ Len(s) >= 1 /\ DOMAIN s = 1 .. Len(s)
      /\ DOMAIN Tail(s) = 1 .. Len(s) - 1 /\ Head(s) = s[1]
      /\ \A i \in 1 .. Len(s) - 1 : Tail(s)[i] = s[i + 1]
    OBVIOUS
<1>2. \A i \in DOMAIN Tail(s) : i \in Nat /\ i + 1 \in DOMAIN s /\ i + 1 # 1 /\ 1 \in DOMAIN s
    BY <1>1
<1>3. Distinct(Tail(s))
    BY <1>1, <1>2 DEF Distinct
<1>4. Head(s) \notin Elements(Tail(s))
    BY <1>1, <1>2 DEF Distinct, Elements
<1> QED
    BY <1>3, <1>4

LEMMA AppendAt ==
    ASSUME NEW S, NEW s \in Seq(S), NEW x \in S
    PROVE  /\ Len(s) \in Nat /\ DOMAIN s = 1 .. Len(s) /\ DOMAIN Append(s, x) = 1 .. Len(s) + 1
           /\ \A i \in DOMAIN Append(s, x) :
                \/ i \in DOMAIN s /\ Append(s, x)[i] = s[i]
                \/ i = Len(s) + 1 /\ Append(s, x)[i] = x
<1>1. /\ DOMAIN s = 1 .. Len(s) /\ Len(s) \in Nat
      /\ DOMAIN Append(s, x) = 1 .. Len(s) + 1
      /\ \A i \in 1 .. Len(s) : Append(s, x)[i] = s[i]
      /\ Append(s, x)[Len(s) + 1] = x
    OBVIOUS
<1> QED
    BY <1>1

LEMMA DistinctAppend ==
    ASSUME NEW S, NEW s \in Seq(S), NEW x \in S, Distinct(s), x \notin Elements(s)
    PROVE  Distinct(Append(s, x))
    BY AppendAt DEF Distinct, Elements

LEMMA AscendingAppend ==
    ASSUME NEW s \in Seq(Event \cup {None}), NEW x \in Event \cup {None}
    PROVE  /\ Ascending(s) /\ (\A y \in Elements(s) : y < x) => Ascending(Append(s, x))
           /\ InLine(s) /\ (\A y \in Elements(s) : y # None /\ x # None => y < x)
                => InLine(Append(s, x))
<1>1. /\ Len(s) \in Nat /\ DOMAIN s = 1 .. Len(s)
      /\ \A i \in DOMAIN Append(s, x) :
           \/ i \in DOMAIN s /\ Append(s, x)[i] = s[i]
           \/ i = Len(s) + 1 /\ Append(s, x)[i] = x
    BY AppendAt
<1>2. ASSUME NEW i \in DOMAIN Append(s, x), NEW j \in DOMAIN Append(s, x), i < j
      PROVE  /\ i \in DOMAIN s /\ Append(s, x)[i] = s[i]
             /\ \/ j \in DOMAIN s /\ Append(s, x)[j] = s[j]
                \/ Append(s, x)[j] = x
    BY <1>1, <1>2
<1>3. \A i \in DOMAIN s : s[i] \in Elements(s)
    BY DEF Elements
<1> QED
    BY <1>2, <1>3 DEF Ascending, InLine

LEMMA InLineTail ==
    ASSUME NEW s \in Seq(Event \cup {None}), s # <<>>, InLine(s)
    PROVE  /\ InLine(Tail(s))
           /\ \A y \in Elements(Tail(s)) : Head(s) # None /\ y # None => Head(s) < y
<1>1. /\ Len(s) \in Nat /\ Len(s) >= 1 /\ DOMAIN s = 1 .. Len(s)
      /\ DOMAIN Tail(s) = 1 .. Len(s) - 1 /\ Head(s) = s[1]
      /\ \A i \in 1 .. Len(s) - 1 : Tail(s)[i] = s[i + 1]
    OBVIOUS
<1>2. \A i \in DOMAIN Tail(s) : i \in Nat /\ i + 1 \in DOMAIN s /\ 1 < i + 1 /\ 1 \in DOMAIN s
    BY <1>1
<1>3. InLine(Tail(s))
    BY <1>1, <1>2 DEF InLine
<1>4. ASSUME NEW i \in DOMAIN Tail(s), Head(s) # None, Tail(s)[i] # None
      PROVE  Head(s) < Tail(s)[i]
    BY <1>1, <1>2, <1>4 DEF InLine
<1> QED
    BY <1>3, <1>4 DEF Elements

LEMMA AscendingIsDistinct ==
    ASSUME NEW s \in Seq(Event), Ascending(s)
    PROVE  Distinct(s) /\ \A Q : OrderedWithin(s, Q)
<1>0. DOMAIN s = 1 .. Len(s) /\ \A i \in DOMAIN s : s[i] \in Event
    OBVIOUS
<1>1. \A i \in DOMAIN s : i \in Nat /\ s[i] \in Nat
    BY <1>0, TelemetryAssumption DEF Event
<1>2. ASSUME NEW i \in DOMAIN s, NEW j \in DOMAIN s, s[i] = s[j] PROVE i = j
    BY <1>1, <1>2, i < j \/ j < i \/ i = j DEF Ascending
<1> QED
    BY <1>2 DEF Distinct, Ascending, OrderedWithin

LEMMA DistinctLength ==
    ASSUME NEW S, NEW s \in Seq(S), Distinct(s)
    PROVE  IsFiniteSet(Elements(s)) /\ Cardinality(Elements(s)) = Len(s)
<1>1. DOMAIN s = 1 .. Len(s) /\ Len(s) \in Nat /\ s = [i \in 1 .. Len(s) |-> s[i]]
    OBVIOUS
<1>2. IsFiniteSet(1 .. Len(s)) /\ Cardinality(1 .. Len(s)) = Len(s)
    <2>1. 1 \in Int /\ Len(s) \in Int
        BY <1>1
    <2>2. /\ IsFiniteSet(1 .. Len(s))
          /\ Cardinality(1 .. Len(s)) = IF 1 > Len(s) THEN 0 ELSE Len(s) - 1 + 1
        BY <2>1, FS_Interval
    <2> QED
        BY <1>1, <2>2
<1>3. s \in [1 .. Len(s) -> Elements(s)]
    BY <1>1 DEF Elements
<1>4. s \in Bijection(1 .. Len(s), Elements(s))
    BY <1>1, <1>3, Fun_IsBij DEF Distinct, Elements
<1>5. ExistsBijection(1 .. Len(s), Elements(s))
    BY <1>4 DEF ExistsBijection
<1> QED
    BY <1>2, <1>5, FS_Bijection

(* Taking out one element, as remove_sink does. *)
LEMMA RemoveAtIs ==
    ASSUME NEW S, NEW s \in Seq(S), NEW i \in DOMAIN s, Distinct(s)
    PROVE  /\ RemoveAt(s, i) \in Seq(S) /\ Distinct(RemoveAt(s, i))
           /\ Elements(RemoveAt(s, i)) \subseteq Elements(s)
<1>1. Len(s) \in Nat /\ DOMAIN s = 1 .. Len(s) /\ i \in 1 .. Len(s)
    OBVIOUS
<1> DEFINE a == SubSeq(s, 1, i - 1)
           b == SubSeq(s, i + 1, Len(s))
<1>2. /\ a \in Seq(S) /\ Len(a) = i - 1 /\ \A j \in 1 .. i - 1 : a[j] = s[j]
    BY <1>1, SubSeqProperties
<1>3. /\ b \in Seq(S) /\ Len(b) = Len(s) - i /\ \A j \in 1 .. Len(s) - i : b[j] = s[i + j]
    BY <1>1, SubSeqProperties
<1>4. /\ RemoveAt(s, i) \in Seq(S) /\ Len(RemoveAt(s, i)) = Len(s) - 1
      /\ \A j \in 1 .. Len(s) - 1 : RemoveAt(s, i)[j] = IF j < i THEN s[j] ELSE s[j + 1]
    <2>1. /\ a \o b \in Seq(S) /\ Len(a \o b) = Len(s) - 1
          /\ \A j \in 1 .. Len(s) - 1 :
               (a \o b)[j] = IF j <= i - 1 THEN a[j] ELSE b[j - (i - 1)]
        <3>1. /\ a \o b \in Seq(S) /\ Len(a \o b) = Len(a) + Len(b)
              /\ \A j \in 1 .. Len(a) + Len(b) :
                   (a \o b)[j] = IF j <= Len(a) THEN a[j] ELSE b[j - Len(a)]
            BY <1>2, <1>3, ConcatProperties
        <3>2. Len(a) + Len(b) = Len(s) - 1
            BY <1>1, <1>2, <1>3
        <3> QED
            BY <1>2, <3>1, <3>2
    <2>2. ASSUME NEW j \in 1 .. Len(s) - 1
          PROVE  (a \o b)[j] = IF j < i THEN s[j] ELSE s[j + 1]
        <3>1. CASE j < i
            BY <1>1, <1>2, <2>1, <3>1
        <3>2. CASE ~(j < i)
            <4>1. j - (i - 1) \in 1 .. Len(s) - i /\ i + (j - (i - 1)) = j + 1
                BY <1>1, <3>2
            <4> QED
                <5>1. (a \o b)[j] = b[j - (i - 1)]
                    <6>1. ~(j <= i - 1)
                        BY <1>1, <3>2
                    <6>2. (a \o b)[j] = IF j <= i - 1 THEN a[j] ELSE b[j - (i - 1)]
                        BY <2>1
                    <6> QED
                        BY <6>1, <6>2, Zenon
                <5>2. b[j - (i - 1)] = s[i + (j - (i - 1))]
                    BY <1>3, <4>1
                <5> QED
                    BY <3>2, <4>1, <5>1, <5>2
        <3> QED
            BY <3>1, <3>2
    <2> QED
        BY <2>1, <2>2 DEF RemoveAt
<1>5. \A j \in 1 .. Len(s) - 1 : (IF j < i THEN j ELSE j + 1) \in 1 .. Len(s)
    BY <1>1
<1>6. DOMAIN RemoveAt(s, i) = 1 .. Len(s) - 1
    BY <1>4
<1>7. Distinct(RemoveAt(s, i))
    <2> SUFFICES ASSUME NEW j \in 1 .. Len(s) - 1, NEW k \in 1 .. Len(s) - 1,
                        RemoveAt(s, i)[j] = RemoveAt(s, i)[k]
                 PROVE  j = k
        BY <1>6 DEF Distinct
    <2>1. s[IF j < i THEN j ELSE j + 1] = s[IF k < i THEN k ELSE k + 1]
        BY <1>4
    <2>2. (IF j < i THEN j ELSE j + 1) = (IF k < i THEN k ELSE k + 1)
        BY <1>1, <1>5, <2>1 DEF Distinct
    <2> QED
        BY <1>1, <2>2
<1>8. Elements(RemoveAt(s, i)) \subseteq Elements(s)
    <2>1. ASSUME NEW j \in 1 .. Len(s) - 1 PROVE RemoveAt(s, i)[j] \in Elements(s)
        BY <1>1, <1>4, <1>5 DEF Elements
    <2> QED
        BY <1>6, <2>1 DEF Elements
<1> QED
    BY <1>4, <1>7, <1>8

(* A sink writes the first n of the events it is given, behind its log. *)
LEMMA DeliveredIs ==
    ASSUME NEW l \in Seq(Event), NEW es \in Seq(Event), NEW n \in 0 .. Len(es),
           NEW m, Distinct(l), Distinct(es), Elements(l) \cap m = {},
           Elements(es) \cap (Elements(l) \cup m) = {}
    PROVE  LET new  == l \o SubSeq(es, 1, n)
               rest == Elements(SubSeq(es, n + 1, Len(es)))
           IN  /\ new \in Seq(Event) /\ rest \subseteq Event
               /\ Elements(new) \cup (m \cup rest) = (Elements(l) \cup m) \cup Elements(es)
               /\ Distinct(new) /\ Elements(new) \cap (m \cup rest) = {}
               /\ \A Q : /\ OrderedWithin(l, Q) /\ OrderedWithin(es, Q)
                         /\ \A x \in Elements(l) \cap Q, y \in Elements(es) \cap Q : x < y
                         => OrderedWithin(new, Q)
<1> DEFINE a == SubSeq(es, 1, n)
           b == SubSeq(es, n + 1, Len(es))
           new == l \o a
<1>1. /\ Len(es) \in Nat /\ DOMAIN es = 1 .. Len(es) /\ n \in Nat /\ n <= Len(es)
      /\ Len(l) \in Nat /\ DOMAIN l = 1 .. Len(l)
    OBVIOUS
<1>2. a \in Seq(Event) /\ Len(a) = n /\ \A i \in 1 .. n : a[i] = es[i]
    BY <1>1, SubSeqProperties
<1>3. /\ b \in Seq(Event) /\ DOMAIN b = 1 .. Len(es) - n
      /\ \A i \in 1 .. Len(es) - n : b[i] = es[n + i]
    BY <1>1, SubSeqProperties
<1>4. new \in Seq(Event) /\ DOMAIN new = 1 .. Len(l) + n
    BY <1>1, <1>2, ConcatProperties
<1>5. ASSUME NEW i \in DOMAIN new
      PROVE  \/ i \in DOMAIN l /\ new[i] = l[i]
             \/ i - Len(l) \in 1 .. n /\ i - Len(l) \in DOMAIN es /\ new[i] = es[i - Len(l)]
    <2>1. new[i] = IF i <= Len(l) THEN l[i] ELSE a[i - Len(l)]
        BY <1>1, <1>2, <1>4, ConcatProperties
    <2> QED
        BY <1>1, <1>2, <1>4, <2>1
<1>6. ASSUME NEW i \in DOMAIN l PROVE l[i] \in Elements(new)
    <2>1. i \in DOMAIN new /\ new[i] = l[i]
        BY <1>1, <1>2, <1>4, ConcatProperties
    <2> QED
        BY <2>1 DEF Elements
<1>7. ASSUME NEW i \in 1 .. n PROVE es[i] \in Elements(new)
    <2>1. Len(l) + i \in DOMAIN new /\ ~(Len(l) + i <= Len(l)) /\ (Len(l) + i) - Len(l) = i
        BY <1>1, <1>4
    <2>2. new[Len(l) + i] = a[i]
        BY <1>1, <1>2, <1>4, <2>1, ConcatProperties
    <2> QED
        BY <1>2, <2>1, <2>2 DEF Elements
<1>8. ASSUME NEW i \in DOMAIN b
      PROVE  n + i \in DOMAIN es /\ n + i \notin 1 .. n /\ b[i] = es[n + i]
    BY <1>1, <1>3
<1>9. ASSUME NEW i \in DOMAIN es, i \notin 1 .. n PROVE es[i] \in Elements(b)
    <2>1. i - n \in 1 .. Len(es) - n /\ n + (i - n) = i
        BY <1>1, <1>9
    <2>2. i - n \in DOMAIN b /\ b[i - n] = es[i]
        BY <1>3, <2>1
    <2> QED
        BY <2>2 DEF Elements
<1>10. Elements(new) \cup (m \cup Elements(b)) = (Elements(l) \cup m) \cup Elements(es)
    <2>1. Elements(new) \subseteq Elements(l) \cup Elements(es)
        BY <1>5 DEF Elements
    <2>2. Elements(b) \subseteq Elements(es)
        BY <1>8 DEF Elements
    <2>3. Elements(l) \subseteq Elements(new)
        BY <1>6 DEF Elements
    <2>4. Elements(es) \subseteq Elements(new) \cup Elements(b)
        BY <1>7, <1>9 DEF Elements
    <2> QED
        BY <2>1, <2>2, <2>3, <2>4
<1>11. /\ \A i \in DOMAIN l : l[i] \in Elements(l)
       /\ \A i \in DOMAIN es : es[i] \in Elements(es)
    BY DEF Elements
<1>12. Distinct(new)
    <2> SUFFICES ASSUME NEW i \in DOMAIN new, NEW j \in DOMAIN new, new[i] = new[j]
                 PROVE  i = j
        BY DEF Distinct
    <2>1. CASE i \in DOMAIN l /\ j \in DOMAIN l /\ new[i] = l[i] /\ new[j] = l[j]
        BY <2>1 DEF Distinct
    <2>2. CASE /\ i - Len(l) \in DOMAIN es /\ new[i] = es[i - Len(l)]
               /\ j - Len(l) \in DOMAIN es /\ new[j] = es[j - Len(l)]
        <3>1. i - Len(l) = j - Len(l)
            BY <2>2 DEF Distinct
        <3> QED
            BY <1>1, <1>4, <3>1
    <2> QED
        BY <1>5, <1>11, <2>1, <2>2
<1>13. Elements(new) \cap (m \cup Elements(b)) = {}
    <2> SUFFICES ASSUME NEW i \in DOMAIN new, new[i] \in m \cup Elements(b) PROVE FALSE
        BY DEF Elements
    <2>1. CASE i \in DOMAIN l /\ new[i] = l[i]
        <3>1. Elements(b) \subseteq Elements(es)
            BY <1>8 DEF Elements
        <3> QED
            BY <1>11, <2>1, <3>1
    <2>2. CASE i - Len(l) \in 1 .. n /\ i - Len(l) \in DOMAIN es /\ new[i] = es[i - Len(l)]
        <3>1. new[i] \in Elements(b)
            BY <1>11, <2>2
        <3>2. PICK j \in DOMAIN b : new[i] = b[j]
            BY <3>1 DEF Elements
        <3>3. n + j = i - Len(l)
            BY <1>8, <2>2, <3>2 DEF Distinct
        <3> QED
            BY <1>8, <2>2, <3>3
    <2> QED
        BY <1>5, <2>1, <2>2
<1>14. ASSUME NEW Q, OrderedWithin(l, Q), OrderedWithin(es, Q),
              \A x \in Elements(l) \cap Q, y \in Elements(es) \cap Q : x < y
       PROVE  OrderedWithin(new, Q)
    <2> SUFFICES ASSUME NEW i \in DOMAIN new, NEW j \in DOMAIN new, i < j,
                        new[i] \in Q, new[j] \in Q
                 PROVE  new[i] < new[j]
        BY DEF OrderedWithin
    <2>1. CASE j \in DOMAIN l /\ new[j] = l[j]
        <3>1. i \in DOMAIN l /\ new[i] = l[i]
            BY <1>1, <1>4, <1>5, <2>1
        <3> QED
            BY <1>14, <2>1, <3>1 DEF OrderedWithin
    <2>2. CASE j - Len(l) \in DOMAIN es /\ new[j] = es[j - Len(l)]
        <3>1. CASE i \in DOMAIN l /\ new[i] = l[i]
            BY <1>11, <1>14, <2>2, <3>1
        <3>2. CASE i - Len(l) \in DOMAIN es /\ new[i] = es[i - Len(l)]
            <4>1. i - Len(l) < j - Len(l)
                BY <1>1, <1>4
            <4> QED
                BY <1>14, <2>2, <3>2, <4>1 DEF OrderedWithin
        <3> QED
            BY <1>5, <3>1, <3>2
    <2> QED
        BY <1>5, <2>1, <2>2
<1>15. Elements(b) \subseteq Event
    BY <1>3 DEF Elements
<1> QED
    BY <1>4, <1>10, <1>12, <1>13, <1>14, <1>15

-----------------------------------------------------------------------------
LEMMA Basics ==
    ASSUME Full
    PROVE  /\ events \in Nat /\ None = 0
           /\ queue \in Seq(Event \cup {None}) /\ batch \in Seq(Event)
           /\ Elements(queue) \subseteq Event \cup {None} /\ Elements(batch) \subseteq Event
           /\ queued \subseteq Event
           /\ \A x \in Event : x \in Nat /\ x # 0 /\ x # None
           /\ \A k \in Sink : Given(k) \subseteq Event
           /\ MaxBatch \in Nat /\ MaxQueue \in Nat /\ MaxBatch >= 1
<1>1. /\ queue \in Seq(Event \cup {None}) /\ batch \in Seq(Event) /\ events \in 0 .. MaxEvents
      /\ queued \subseteq Event
    BY DEF Full, IInv, QueueTypeOK
<1>2. \A k \in Sink : log[k] \in Seq(Event) /\ missed[k] \subseteq Event
    BY DEF Full, Trails, TrailOf
<1>3. \A S : \A s \in Seq(S) : Elements(s) \subseteq S
    BY DEF Elements
<1> QED
    BY <1>1, <1>2, <1>3, TelemetryAssumption DEF Event, None, Given

LEMMA SizesStep == Full /\ [Next]_vars => Sizes'
<1> SUFFICES ASSUME Full, [Next]_vars PROVE Sizes'
    OBVIOUS
<1>0. /\ Sizes /\ Len(queue) \in Nat /\ Len(batch) \in Nat /\ EmptyHanded
      /\ queued \subseteq Event /\ MaxBatch \in Nat /\ MaxBatch >= 1
      /\ queue \in Seq(Event \cup {None}) /\ batch \in Seq(Event)
      /\ Memory \in Sink /\ MaxChanges \in Nat /\ MaxQueue \in Nat
    BY Basics, TelemetryAssumption DEF Full, IInv
<1>1. ASSUME NEW e \in Emitter, Put(e) PROVE Sizes'
    <2>1. Len(queue') = Len(queue) + 1 /\ Len(queue) < MaxQueue
        BY <1>1 DEF Put
    <2> QED
        BY <1>0, <1>1, <2>1, TelemetryAssumption
        DEF Put, emitFrame, sinkVars, workVars, stopVars, flushVars, Sizes
<1>2. ASSUME NEW e \in Emitter,
             SendItself(e) \/ TakeSinkLock(e) \/ (\E n \in {0, 1} : Send(e, n)) \/ Sent(e)
      PROVE  Sizes'
    BY <1>0, <1>2
    DEF SendItself, TakeSinkLock, Send, Sent, emitFrame, queueVars, sinkVars, workVars,
        stopVars, flushVars, Sizes
<1>3. CASE Configure
    <2>1. PICK new : /\ ChangeSinks(new)
                     /\ \/ \E k \in Sink \ Elements(sinks) : new = Append(sinks, k)
                        \/ \E i \in DOMAIN sinks : new = RemoveAt(sinks, i)
                        \/ new = <<Memory>>
        BY <1>3 DEF Configure
    <2>2. new \in Seq(Sink) /\ Distinct(new)
        <3>1. ASSUME NEW k \in Sink \ Elements(sinks), new = Append(sinks, k)
              PROVE  new \in Seq(Sink) /\ Distinct(new)
            BY <1>0, <3>1, DistinctAppend DEF Sizes
        <3>2. ASSUME NEW i \in DOMAIN sinks, new = RemoveAt(sinks, i)
              PROVE  new \in Seq(Sink) /\ Distinct(new)
            BY <1>0, <3>2, RemoveAtIs DEF Sizes
        <3>3. CASE new = <<Memory>>
            BY <1>0, <3>3 DEF Distinct
        <3> QED
            BY <2>1, <3>1, <3>2, <3>3
    <2>3. /\ sinks' = new /\ lasting' \subseteq Elements(new)
          /\ changes < MaxChanges /\ changes' = changes + 1
          /\ UNCHANGED <<queue, batch, toCall, worker, sinkLock, running, stop, pending,
                         timedOut, flusher, barrier>>
        BY <2>1 DEF ChangeSinks, shareFrame, queueVars, workVars, stopVars, flushVars
    <2> QED
        BY <1>0, <2>2, <2>3 DEF Sizes
<1>4. CASE Loop \/ GetTimesOut \/ Gathered \/ CopySinks
    BY <1>0, <1>4
    DEF Loop, GetTimesOut, Gathered, CopySinks, Worker, workerFrame, queueVars, sinkVars,
        stopVars, flushVars, Sizes
<1>5. CASE Get \/ Gather
    <2>1. queue # <<>> /\ queue' = Tail(queue) /\ worker' \in {"gather", "ready", "ended"}
        BY <1>5 DEF Get, Gather, Worker
    <2>2. Len(queue') = Len(queue) - 1
        BY <1>0, <2>1
    <2>3. Len(batch') <= MaxBatch
        <3>1. CASE Get
            <4>1. batch = <<>> /\ (batch' = batch \/ batch' = <<Head(queue)>>)
                BY <1>0, <3>1 DEF Get, Worker, EmptyHanded
            <4> QED
                BY <1>0, <4>1 DEF Sizes
        <3>2. CASE Gather
            <4>1. /\ Len(batch) < MaxBatch
                  /\ batch' = batch \/ (batch' = Append(batch, Head(queue)) /\ Head(queue) # None)
                BY <3>2 DEF Gather
            <4>2. Head(queue) # None => Head(queue) \in Event
                BY <1>0, <2>1, ElementsOfTail
            <4> QED
                BY <1>0, <4>1, <4>2
        <3> QED
            BY <1>5, <3>1, <3>2
    <2> QED
        BY <1>0, <1>5, <2>1, <2>2, <2>3
        DEF Get, Gather, workerFrame, sinkVars, stopVars, flushVars, Sizes
<1>6. ASSUME NEW n, Dispatch(n) PROVE Sizes'
    <2>1. toCall # <<>> /\ toCall' = Tail(toCall)
        BY <1>6 DEF Dispatch
    <2>2. toCall' \in Seq(Sink) /\ Distinct(toCall')
        BY <1>0, <2>1, DistinctTail DEF Sizes
    <2> QED
        BY <1>0, <1>6, <2>2
        DEF Dispatch, workerFrame, queueVars, sinkVars, stopVars, flushVars, Sizes
<1>7. CASE BatchDone
    BY <1>0, <1>7, ElementsOfNone
    DEF BatchDone, Worker, workerFrame, sinkVars, stopVars, flushVars, Sizes
<1>8. CASE Flush
    BY <1>0, <1>8
    DEF Flush, BeginFlush, Joined, Flushed, queueVars, sinkVars, workVars, stopVars, Sizes
<1>9. CASE BeginShutdown \/ JoinWorker \/ CloseSinks
    BY <1>0, <1>9
    DEF BeginShutdown, JoinWorker, CloseSinks, shareFrame, queueVars, sinkVars, workVars,
        flushVars, Sizes
<1>10. CASE PutNone
    <2>1. \/ Len(queue) < MaxQueue /\ Len(queue') = Len(queue) + 1
          \/ queue' = queue
        BY <1>0, <1>10 DEF PutNone, queueVars
    <2>2. Len(queue') <= MaxQueue
        BY <1>0, <2>1, TelemetryAssumption DEF Sizes
    <2> QED
        BY <1>0, <1>10, <2>2 DEF PutNone, sinkVars, workVars, flushVars, Sizes
<1>11. CASE UNCHANGED vars
    BY <1>0, <1>11 DEF vars, queueVars, sinkVars, workVars, stopVars, flushVars, Sizes
<1> QED
    BY <1>1, <1>2, <1>3, <1>4, <1>5, <1>6, <1>7, <1>8, <1>9, <1>10, <1>11
    DEF Next, Emit, Work, Shutdown

LEMMA HandsStep == Full /\ [Next]_vars => Hands'
<1> SUFFICES ASSUME Full, [Next]_vars PROVE Hands'
    OBVIOUS
<1>0. /\ Hands /\ events \in Nat /\ None = 0 /\ \A x \in Event : x \in Nat /\ x # None
      /\ sinks \in Seq(Sink) /\ Distinct(sinks) /\ queued \subseteq Event
      /\ \A e \in Emitter : sending[e] \in Nat
      /\ \A x \in queued : x <= events
    BY Basics DEF Full, Sizes, Hands, Pipe
<1>1. ASSUME NEW e \in Emitter, Put(e) PROVE Hands'
    <2>1. /\ events' = events + 1 /\ queued' = queued \cup {events + 1}
          /\ UNCHANGED <<at, sending, toSend>>
        BY <1>1 DEF Put, emitVars
    <2>2. \A f \in Emitter : sending[f] <= events + 1 /\ sending[f] # events + 1
        BY <1>0 DEF Hands
    <2> QED
        BY <1>0, <2>1, <2>2 DEF Hands
<1>2. ASSUME NEW e \in Emitter, SendItself(e) PROVE Hands'
    <2>1. /\ at[e] = "idle" /\ events < MaxEvents /\ events' = events + 1
          /\ at' = [at EXCEPT ![e] = "waiting"] /\ sending' = [sending EXCEPT ![e] = events + 1]
          /\ UNCHANGED <<toSend, queued>>
        BY <1>2 DEF SendItself
    <2>2. events + 1 \in Event /\ events + 1 \notin queued /\ events + 1 # None
        BY <1>0, <2>1, TelemetryAssumption DEF Event
    <2>3. \A f \in Emitter : sending[f] <= events + 1 /\ sending[f] # events + 1
        BY <1>0 DEF Hands
    <2>4. /\ at' \in [Emitter -> {"idle", "waiting", "sending"}]
          /\ sending' \in [Emitter -> Event \cup {None}]
        BY <1>0, <2>1, <2>2 DEF Hands
    <2>5. \A f \in Emitter : \/ f = e /\ at'[f] = "waiting" /\ sending'[f] = events + 1
                             \/ f # e /\ at'[f] = at[f] /\ sending'[f] = sending[f]
        BY <1>0, <2>1 DEF Hands
    <2> QED
        BY <1>0, <2>1, <2>2, <2>3, <2>4, <2>5 DEF Hands
<1>3. ASSUME NEW e \in Emitter, TakeSinkLock(e) PROVE Hands'
    BY <1>0, <1>3 DEF TakeSinkLock, Hands
<1>4. ASSUME NEW e \in Emitter, NEW n \in {0, 1}, Send(e, n) PROVE Hands'
    <2>1. /\ toSend[e] # <<>> /\ toSend' = [toSend EXCEPT ![e] = Tail(toSend[e])]
          /\ UNCHANGED <<events, at, sending, queued>>
        BY <1>4 DEF Send
    <2>2. Tail(toSend[e]) \in Seq(Sink) /\ Distinct(Tail(toSend[e]))
        BY <1>0, <2>1, DistinctTail DEF Hands
    <2> QED
        BY <1>0, <2>1, <2>2 DEF Hands
<1>5. ASSUME NEW e \in Emitter, Sent(e) PROVE Hands'
    <2>1. /\ at' = [at EXCEPT ![e] = "idle"] /\ sending' = [sending EXCEPT ![e] = None]
          /\ UNCHANGED <<events, toSend, queued>>
        BY <1>5 DEF Sent
    <2>2. None \notin queued
        BY <1>0
    <2>3. /\ at' \in [Emitter -> {"idle", "waiting", "sending"}]
          /\ sending' \in [Emitter -> Event \cup {None}]
        BY <1>0, <2>1 DEF Hands
    <2>4. \A f \in Emitter : \/ f = e /\ at'[f] = "idle" /\ sending'[f] = None
                             \/ f # e /\ at'[f] = at[f] /\ sending'[f] = sending[f]
        BY <1>0, <2>1 DEF Hands
    <2> QED
        BY <1>0, <2>1, <2>2, <2>3, <2>4 DEF Hands
<1>6. CASE Configure
    BY <1>0, <1>6 DEF Configure, ChangeSinks, shareFrame, emitVars, Hands
<1>7. CASE Work
    BY <1>0, <1>7
    DEF Work, Loop, Get, GetTimesOut, Gather, Gathered, CopySinks, Dispatch, BatchDone,
        workerFrame, emitVars, Hands
<1>8. CASE Flush
    BY <1>0, <1>8 DEF Flush, BeginFlush, Joined, Flushed, emitVars, Hands
<1>9. CASE Shutdown
    BY <1>0, <1>9
    DEF Shutdown, BeginShutdown, PutNone, JoinWorker, CloseSinks, shareFrame, emitVars, Hands
<1>10. CASE UNCHANGED vars
    BY <1>0, <1>10 DEF vars, emitVars, Hands
<1> QED
    BY <1>1, <1>2, <1>3, <1>4, <1>5, <1>6, <1>7, <1>8, <1>9, <1>10 DEF Next, Emit

LEMMA PipeStep == Full /\ [Next]_vars => Pipe'
<1> SUFFICES ASSUME Full, [Next]_vars PROVE Pipe'
    OBVIOUS
<1>0. /\ Pipe /\ events \in Nat /\ EmptyHanded /\ None = 0
      /\ queue \in Seq(Event \cup {None}) /\ batch \in Seq(Event)
      /\ Elements(queue) \subseteq Event \cup {None} /\ Elements(batch) \subseteq Event
      /\ queued \subseteq Event /\ \A x \in Event : x \in Nat /\ x # None
    BY Basics DEF Full, IInv
<1>1. ASSUME UNCHANGED <<queue, batch, queued>>, events' \in Nat, events <= events'
      PROVE  Pipe'
    BY <1>0, <1>1 DEF Pipe
<1>2. ASSUME NEW e \in Emitter, Put(e) PROVE Pipe'
    <2>1. /\ events' = events + 1 /\ queue' = Append(queue, events + 1)
          /\ queued' = queued \cup {events + 1} /\ events < MaxEvents /\ UNCHANGED batch
        BY <1>2 DEF Put, emitFrame, workVars
    <2>2. events + 1 \in Event
        BY <1>0, <2>1, TelemetryAssumption DEF Event
    <2>3. Elements(queue') = Elements(queue) \cup {events + 1}
        BY <1>0, <2>1, <2>2, ElementsOfAppend
    <2>4. \A x \in queued : x < events + 1
        BY <1>0 DEF Pipe
    <2>5. InLine(queue')
        <3>1. \A y \in Elements(queue) : y # None => y < events + 1
            BY <1>0, <2>4 DEF Pipe
        <3> QED
            BY <1>0, <2>1, <2>2, <3>1, AscendingAppend DEF Pipe
    <2> QED
        BY <1>0, <2>1, <2>2, <2>3, <2>4, <2>5 DEF Pipe
<1>3. CASE PutNone
    <2>1. UNCHANGED <<batch, queued, events>>
        BY <1>3 DEF PutNone, workVars
    <2>2. CASE queue' = Append(queue, None)
        <3>1. Elements(queue') = Elements(queue) \cup {None}
            BY <1>0, <2>2, ElementsOfAppend
        <3>2. InLine(queue')
            BY <1>0, <2>2, AscendingAppend DEF Pipe
        <3> QED
            BY <1>0, <2>1, <3>1, <3>2 DEF Pipe
    <2>3. CASE queue' = queue
        BY <1>0, <1>1, <2>1, <2>3
    <2> QED
        BY <1>3, <2>2, <2>3 DEF PutNone, queueVars
<1>4. CASE Get \/ Gather
    <2>1. /\ queue # <<>> /\ queue' = Tail(queue) /\ UNCHANGED <<events, queued>>
          /\ \/ Head(queue) = None /\ UNCHANGED batch
             \/ Head(queue) # None /\ batch' = Append(batch, Head(queue))
        <3>1. CASE Get
            <4>1. batch = <<>> /\ (Head(queue) # None => batch' = <<Head(queue)>>)
                BY <1>0, <3>1 DEF Get, Worker, EmptyHanded
            <4>2. Head(queue) # None => batch' = Append(batch, Head(queue))
                BY <4>1
            <4> QED
                BY <3>1, <4>2 DEF Get, workerFrame
        <3>2. CASE Gather
            BY <3>2 DEF Gather, workerFrame
        <3> QED
            BY <1>4, <3>1, <3>2
    <2>2. /\ Elements(queue) = {Head(queue)} \cup Elements(queue') /\ InLine(queue')
          /\ \A y \in Elements(queue') : Head(queue) # None /\ y # None => Head(queue) < y
        BY <1>0, <2>1, ElementsOfTail, InLineTail DEF Pipe
    <2>3. CASE Head(queue) = None
        BY <1>0, <2>1, <2>2, <2>3 DEF Pipe
    <2>4. CASE Head(queue) # None
        <3>1. Head(queue) \in Event /\ Head(queue) \in queued
            BY <1>0, <2>2, <2>4 DEF Pipe
        <3>2. Elements(batch') = Elements(batch) \cup {Head(queue)}
            <4>1. batch' = Append(batch, Head(queue))
                BY <2>1, <2>4
            <4> QED
                BY <1>0, <3>1, <4>1, ElementsOfAppend
        <3>3. \A y \in Elements(batch) : y < Head(queue)
            BY <1>0, <2>2, <2>4 DEF Pipe
        <3>4. Ascending(batch')
            <4>1. batch \in Seq(Event \cup {None})
                BY <1>0
            <4> QED
                BY <1>0, <2>1, <2>4, <3>1, <3>3, <4>1, AscendingAppend DEF Pipe
        <3> QED
            BY <1>0, <2>1, <2>2, <2>4, <3>1, <3>2, <3>4 DEF Pipe
    <2> QED
        BY <2>3, <2>4
<1>5. CASE BatchDone
    <2>1. batch' = <<>> /\ UNCHANGED <<queue, queued, events>>
        BY <1>5 DEF BatchDone, workerFrame
    <2> QED
        BY <1>0, <2>1, ElementsOfNone DEF Pipe, Ascending
<1>6. ASSUME NEW e \in Emitter, SendItself(e) PROVE Pipe'
    BY <1>0, <1>1, <1>6 DEF SendItself, emitFrame, queueVars, workVars
<1>7. ASSUME NEW e \in Emitter, TakeSinkLock(e) \/ (\E n \in {0, 1} : Send(e, n)) \/ Sent(e)
      PROVE  Pipe'
    BY <1>0, <1>1, <1>7 DEF TakeSinkLock, Send, Sent, emitFrame, queueVars, workVars
<1>8. CASE Configure
    BY <1>0, <1>1, <1>8 DEF Configure, ChangeSinks, shareFrame, queueVars, workVars
<1>9. CASE Loop \/ GetTimesOut \/ Gathered \/ CopySinks \/ \E n : Dispatch(n)
    BY <1>0, <1>1, <1>9
    DEF Loop, GetTimesOut, Gathered, CopySinks, Dispatch, workerFrame, queueVars
<1>10. CASE Flush
    BY <1>0, <1>1, <1>10 DEF Flush, BeginFlush, Joined, Flushed, queueVars, workVars
<1>11. CASE BeginShutdown \/ JoinWorker \/ CloseSinks
    BY <1>0, <1>1, <1>11
    DEF BeginShutdown, JoinWorker, CloseSinks, shareFrame, queueVars, workVars
<1>12. CASE UNCHANGED vars
    BY <1>0, <1>1, <1>12 DEF vars, queueVars, workVars
<1> QED
    BY <1>2, <1>3, <1>4, <1>5, <1>6, <1>7, <1>8, <1>9, <1>10, <1>11, <1>12
    DEF Next, Emit, Work, Shutdown

(* A call of a sink: the events are new to it, and behind those it has.    *)
LEMMA DeliverIs ==
    ASSUME Full, NEW k \in Sink, NEW es \in Seq(Event), NEW n \in 0 .. Len(es),
           Deliver(k, es, n), Distinct(es), Elements(es) \cap Given(k) = {},
           OrderedWithin(es, queued),
           \A x \in Given(k) \cap queued, y \in Elements(es) \cap queued : x < y
    PROVE  /\ log' = [j \in Sink |-> log'[j]] /\ missed' = [j \in Sink |-> missed'[j]]
           /\ failures' \in 0 .. MaxFailures
           /\ \A j \in Sink : j # k => log'[j] = log[j] /\ missed'[j] = missed[j]
           /\ log'[k] \in Seq(Event) /\ missed'[k] \subseteq Event
           /\ Elements(log'[k]) \cup missed'[k] = Given(k) \cup Elements(es)
           /\ Distinct(log'[k]) /\ Elements(log'[k]) \cap missed'[k] = {}
           /\ OrderedWithin(log'[k], queued)
<1>1. /\ log = [j \in Sink |-> log[j]] /\ missed = [j \in Sink |-> missed[j]]
      /\ failures \in Nat /\ MaxFailures \in Nat /\ TrailOf(k)
    BY TelemetryAssumption DEF Full, Trails
<1> DEFINE new == log[k] \o SubSeq(es, 1, n)
           rest == Elements(SubSeq(es, n + 1, Len(es)))
<1>2. /\ log' = [log EXCEPT ![k] = new]
      /\ missed' = [missed EXCEPT ![k] = missed[k] \cup rest]
      /\ failures' \in {failures, failures + 1} /\ failures' <= MaxFailures
    BY DEF Deliver
<1>3. log'[k] = new /\ missed'[k] = missed[k] \cup rest
    BY <1>1, <1>2
<1>4. /\ log[k] \in Seq(Event) /\ missed[k] \subseteq Event /\ Distinct(log[k])
      /\ Elements(log[k]) \cap missed[k] = {} /\ OrderedWithin(log[k], queued)
    BY <1>1 DEF TrailOf
<1>5. /\ new \in Seq(Event) /\ rest \subseteq Event
      /\ Elements(new) \cup (missed[k] \cup rest) = Given(k) \cup Elements(es)
      /\ Distinct(new) /\ Elements(new) \cap (missed[k] \cup rest) = {}
      /\ OrderedWithin(new, queued)
    <2>1. Elements(es) \cap (Elements(log[k]) \cup missed[k]) = {}
        BY DEF Given
    <2>2. \A x \in Elements(log[k]) \cap queued, y \in Elements(es) \cap queued : x < y
        BY DEF Given
    <2>3. /\ new \in Seq(Event) /\ rest \subseteq Event
          /\ Elements(new) \cup (missed[k] \cup rest)
                = (Elements(log[k]) \cup missed[k]) \cup Elements(es)
          /\ Distinct(new) /\ Elements(new) \cap (missed[k] \cup rest) = {}
          /\ \A Q : /\ OrderedWithin(log[k], Q) /\ OrderedWithin(es, Q)
                    /\ \A x \in Elements(log[k]) \cap Q, y \in Elements(es) \cap Q : x < y
                    => OrderedWithin(new, Q)
        BY <1>4, <2>1, DeliveredIs
    <2> HIDE DEF new, rest
    <2> QED
        BY <1>4, <2>2, <2>3 DEF Given
<1>6. failures' \in 0 .. MaxFailures
    BY <1>1, <1>2
<1> HIDE DEF new, rest
<1> QED
    BY <1>1, <1>2, <1>3, <1>4, <1>5, <1>6

(* What a call of the worker needs. *)
LEMMA DispatchIs ==
    ASSUME Full, NEW n, Dispatch(n)
    PROVE  /\ worker = "dispatch" /\ toCall # <<>> /\ Head(toCall) \in Sink
           /\ toCall' = Tail(toCall) /\ Elements(toCall) = {Head(toCall)} \cup Elements(toCall')
           /\ Head(toCall) \notin Elements(toCall')
           /\ n \in 0 .. Len(batch) /\ Deliver(Head(toCall), batch, n)
           /\ batch \in Seq(Event) /\ Distinct(batch) /\ Elements(batch) \subseteq queued
           /\ Elements(batch) \cap Given(Head(toCall)) = {}
           /\ OrderedWithin(batch, queued)
           /\ \A x \in Given(Head(toCall)) \cap queued, y \in Elements(batch) : x < y
           /\ UNCHANGED <<queue, batch, worker, events, at, sending, toSend, queued, settled,
                          lasting>>
<1>1. /\ worker = "dispatch" /\ toCall # <<>> /\ toCall' = Tail(toCall)
      /\ n \in 0 .. Len(batch) /\ Deliver(Head(toCall), batch, n)
      /\ UNCHANGED <<queue, batch, worker, events, at, sending, toSend, queued, settled, lasting>>
    BY DEF Dispatch, workerFrame, queueVars, emitVars, sinkVars
<1>2. toCall \in Seq(Sink) /\ Distinct(toCall)
    BY DEF Full, Sizes
<1>3. /\ Head(toCall) \in Sink /\ Elements(toCall) = {Head(toCall)} \cup Elements(toCall')
      /\ Head(toCall) \notin Elements(toCall')
    BY <1>1, <1>2, ElementsOfTail, DistinctTail
<1>4. batch \in Seq(Event) /\ Ascending(batch) /\ Elements(batch) \subseteq queued
    BY Basics DEF Full, Pipe
<1>5. Distinct(batch) /\ OrderedWithin(batch, queued)
    BY <1>4, AscendingIsDistinct
<1>6. TrailOf(Head(toCall)) /\ WillCall(Head(toCall))
    BY <1>3 DEF Full, Trails, WillCall, Calls
<1>7. \A x \in Given(Head(toCall)) \cap queued, y \in Elements(batch) : x < y
    BY <1>6 DEF TrailOf
<1>8. Elements(batch) \cap Given(Head(toCall)) = {}
    <2>1. \A x \in queued : x \in Nat
        BY Basics
    <2>2. \A x \in Elements(batch) \cap Given(Head(toCall)) : x < x /\ x \in Nat
        BY <1>4, <1>7, <2>1
    <2> QED
        BY <2>2
<1> QED
    BY <1>1, <1>3, <1>4, <1>5, <1>7, <1>8

(* What a call of an emitter needs. *)
LEMMA SendIs ==
    ASSUME Full, NEW e \in Emitter, NEW n \in {0, 1}, Send(e, n)
    PROVE  /\ at[e] = "sending" /\ toSend[e] # <<>> /\ Head(toSend[e]) \in Sink
           /\ toSend' = [toSend EXCEPT ![e] = Tail(toSend[e])]
           /\ Elements(toSend[e]) = {Head(toSend[e])} \cup Elements(toSend'[e])
           /\ Head(toSend[e]) \notin Elements(toSend'[e])
           /\ \A f \in Emitter : f # e => toSend'[f] = toSend[f]
           /\ n \in 0 .. Len(<<sending[e]>>) /\ Deliver(Head(toSend[e]), <<sending[e]>>, n)
           /\ sending[e] \in Event /\ <<sending[e]>> \in Seq(Event)
           /\ Elements(<<sending[e]>>) = {sending[e]} /\ Distinct(<<sending[e]>>)
           /\ sending[e] \notin queued /\ sending[e] <= events
           /\ sending[e] \notin Given(Head(toSend[e]))
           /\ OrderedWithin(<<sending[e]>>, queued)
           /\ UNCHANGED <<queue, batch, worker, toCall, events, at, sending, queued, settled,
                          lasting>>
<1>1. /\ at[e] = "sending" /\ toSend[e] # <<>>
      /\ toSend' = [toSend EXCEPT ![e] = Tail(toSend[e])]
      /\ Deliver(Head(toSend[e]), <<sending[e]>>, n)
      /\ UNCHANGED <<queue, batch, worker, toCall, events, at, sending, queued, settled, lasting>>
    BY DEF Send, emitFrame, queueVars, sinkVars, workVars
<1>2. /\ toSend = [f \in Emitter |-> toSend[f]] /\ toSend[e] \in Seq(Sink)
      /\ Distinct(toSend[e]) /\ sending[e] \in Event \cup {None} /\ sending[e] # None
      /\ sending[e] \notin queued /\ sending[e] <= events
    BY <1>1 DEF Full, Hands
<1>3. toSend'[e] = Tail(toSend[e]) /\ \A f \in Emitter : f # e => toSend'[f] = toSend[f]
    BY <1>1, <1>2
<1>4. /\ Head(toSend[e]) \in Sink
      /\ Elements(toSend[e]) = {Head(toSend[e])} \cup Elements(toSend'[e])
      /\ Head(toSend[e]) \notin Elements(toSend'[e])
    BY <1>1, <1>2, <1>3, ElementsOfTail, DistinctTail
<1>5. /\ sending[e] \in Event /\ <<sending[e]>> \in Seq(Event) /\ Len(<<sending[e]>>) = 1
      /\ DOMAIN <<sending[e]>> = {1} /\ <<sending[e]>>[1] = sending[e]
    BY <1>2
<1>6. /\ Elements(<<sending[e]>>) = {sending[e]} /\ Distinct(<<sending[e]>>)
      /\ OrderedWithin(<<sending[e]>>, queued)
    BY <1>2, <1>5 DEF Elements, Distinct, OrderedWithin
<1>7. sending[e] \notin Given(Head(toSend[e]))
    <2>1. TrailOf(Head(toSend[e])) /\ WillSend(e, Head(toSend[e]))
        BY <1>1, <1>4 DEF Full, Trails, WillSend, Sends
    <2> QED
        BY <2>1 DEF TrailOf
<1> QED
    BY <1>1, <1>2, <1>3, <1>4, <1>5, <1>6, <1>7

LEMMA SinksAre ==
    ASSUME Full
    PROVE  sinks \in Seq(Sink) /\ Elements(sinks) \subseteq Sink /\ lasting \subseteq Sink
<1>1. sinks \in Seq(Sink) /\ lasting \subseteq Elements(sinks)
    BY DEF Full, Sizes
<1>2. Elements(sinks) \subseteq Sink
    BY <1>1 DEF Elements
<1> QED
    BY <1>1, <1>2

(* What the call of an emitter does to the trails. *)
LEMMA SendAdds ==
    ASSUME Full, NEW e \in Emitter, NEW n \in {0, 1}, Send(e, n)
    PROVE  /\ log' = [j \in Sink |-> log'[j]] /\ missed' = [j \in Sink |-> missed'[j]]
           /\ failures' \in 0 .. MaxFailures
           /\ \A j \in Sink : j # Head(toSend[e]) => log'[j] = log[j] /\ missed'[j] = missed[j]
           /\ log'[Head(toSend[e])] \in Seq(Event) /\ missed'[Head(toSend[e])] \subseteq Event
           /\ Elements(log'[Head(toSend[e])]) \cup missed'[Head(toSend[e])]
                 = Given(Head(toSend[e])) \cup {sending[e]}
           /\ Distinct(log'[Head(toSend[e])])
           /\ Elements(log'[Head(toSend[e])]) \cap missed'[Head(toSend[e])] = {}
           /\ OrderedWithin(log'[Head(toSend[e])], queued)
<1> PICK c : c = Head(toSend[e])
    OBVIOUS
<1> PICK x : x = sending[e]
    OBVIOUS
<1>1. /\ <<x>> \in Seq(Event) /\ n \in 0 .. Len(<<x>>) /\ Deliver(c, <<x>>, n)
      /\ Distinct(<<x>>) /\ Elements(<<x>>) = {x} /\ OrderedWithin(<<x>>, queued)
      /\ x \notin Given(c) /\ c \in Sink /\ x \notin queued
    BY SendIs
<1>2. /\ Elements(<<x>>) \cap Given(c) = {}
      /\ \A a \in Given(c) \cap queued, y \in Elements(<<x>>) \cap queued : a < y
    BY <1>1
<1>3. Elements(log'[c]) \cup missed'[c] = Given(c) \cup Elements(<<x>>)
    BY <1>1, <1>2, DeliverIs
<1> QED
    BY <1>1, <1>2, <1>3, DeliverIs

(* Steps that call no sink.  What they add to the queue is a new event, to *)
(* the batch something from the queue, to an emitter's hands a new event;  *)
(* and they make no sink one to be called that was not.                    *)
LEMMA TrailsKept ==
    ASSUME Full, UNCHANGED <<log, missed, failures>>, events' \in Nat, events <= events',
           queued \subseteq queued', \A x \in queued' : x \in queued \/ (x \in Nat /\ events < x),
           \A y \in Elements(queue') :
               y # None => y \in Elements(queue) \/ (y \in Nat /\ events < y),
           \A y \in Elements(batch'), k \in Sink :
               Calls(worker', toCall', k) => \/ WillCall(k) /\ y \in Elements(batch)
                                             \/ y \in Elements(queue) /\ y # None,
           \A e \in Emitter, k \in Sink :
               Sends(at'[e], toSend'[e], k) =>
                   \/ WillSend(e, k) /\ sending'[e] = sending[e]
                   \/ sending'[e] \in Nat /\ events < sending'[e]
    PROVE  Trails'
<1>0. events \in Nat /\ Trails /\ \A k \in Sink : Given(k) \subseteq Nat
    BY Basics DEF Full
<1>1. ASSUME NEW k \in Sink PROVE TrailOf(k)'
    <2>1. TrailOf(k)
        BY <1>0 DEF Trails
    <2>2. /\ Given(k)' = Given(k)
          /\ \A x \in Given(k) : x \in Nat /\ x <= events /\ ~(events < x) /\ x <= events'
        BY <1>0, <2>1 DEF TrailOf, Given
    <2>3. \A x \in Given(k) : x \in queued' => x \in queued
        BY <2>2
    <2>4. OrderedWithin(log'[k], queued')
        <3>1. \A i \in DOMAIN log[k] : log[k][i] \in queued' => log[k][i] \in queued
            BY <2>3 DEF Given, Elements
        <3> QED
            BY <2>1, <3>1 DEF TrailOf, OrderedWithin
    <2>5. \A y : y \in Nat /\ events < y => \A x \in Given(k) : x < y
        <3> SUFFICES ASSUME NEW y \in Nat, events < y, NEW x \in Given(k) PROVE x < y
            OBVIOUS
        <3>1. x \in Nat /\ x <= events
            BY <2>2
        <3> QED
            BY <1>0, <3>1
    <2>6. \A x \in Given(k) \cap queued : \A y \in Elements(queue') : y # None => x < y
        BY <2>1, <2>5 DEF TrailOf
    <2>7. \A x \in Given(k) \cap queued :
              Calls(worker', toCall', k) => \A y \in Elements(batch') : x < y
        BY <2>1 DEF TrailOf
    <2>8. \A e \in Emitter : Sends(at'[e], toSend'[e], k) => sending'[e] \notin Given(k)
        BY <2>1, <2>2 DEF TrailOf
    <2> QED
        BY <2>1, <2>2, <2>3, <2>4, <2>6, <2>7, <2>8 DEF TrailOf, WillCall, WillSend
<1> QED
    BY <1>0, <1>1 DEF Trails

LEMMA DispatchTrails ==
    ASSUME Full, NEW n, Dispatch(n)
    PROVE  Trails'
<1> PICK c : c = Head(toCall)
    OBVIOUS
<1>1. /\ worker = "dispatch" /\ c \in Sink /\ Elements(toCall) = {c} \cup Elements(toCall')
      /\ c \notin Elements(toCall') /\ Elements(batch) \subseteq queued
      /\ \A x \in Given(c) \cap queued, y \in Elements(batch) : x < y
      /\ UNCHANGED <<queue, batch, worker, events, at, sending, toSend, queued>>
    BY DispatchIs
<1>2. /\ log' = [j \in Sink |-> log'[j]] /\ missed' = [j \in Sink |-> missed'[j]]
      /\ failures' \in 0 .. MaxFailures
      /\ \A j \in Sink : j # c => log'[j] = log[j] /\ missed'[j] = missed[j]
      /\ log'[c] \in Seq(Event) /\ missed'[c] \subseteq Event
      /\ Elements(log'[c]) \cup missed'[c] = Given(c) \cup Elements(batch)
      /\ Distinct(log'[c]) /\ Elements(log'[c]) \cap missed'[c] = {}
      /\ OrderedWithin(log'[c], queued)
    BY DispatchIs, DeliverIs
<1>3. Trails /\ Pipe /\ Hands
    BY DEF Full
<1>4. ASSUME NEW k \in Sink, k # c PROVE TrailOf(k)'
    <2>1. TrailOf(k) /\ log'[k] = log[k] /\ missed'[k] = missed[k]
        BY <1>2, <1>3, <1>4 DEF Trails
    <2>2. Calls(worker', toCall', k) => Calls(worker, toCall, k)
        BY <1>1 DEF Calls
    <2> QED
        BY <1>1, <2>1, <2>2 DEF TrailOf, Given, WillCall, WillSend
<1>5. TrailOf(c)'
    <2>1. /\ Given(c)' = Given(c) \cup Elements(batch) /\ TrailOf(c)
          /\ ~Calls(worker', toCall', c)
        BY <1>1, <1>2, <1>3 DEF Given, Calls, Trails
    <2>2. \A x \in Given(c)' : x <= events
        BY <1>1, <1>3, <2>1 DEF TrailOf, Pipe
    <2>3. \A x \in Given(c)' \cap queued, y \in Elements(queue) : y # None => x < y
        BY <1>1, <1>3, <2>1 DEF TrailOf, Pipe
    <2>4. \A e \in Emitter : WillSend(e, c) => sending[e] \notin Given(c)'
        BY <1>1, <1>3, <2>1 DEF TrailOf, Hands
    <2> QED
        BY <1>1, <1>2, <2>1, <2>2, <2>3, <2>4 DEF TrailOf, WillCall, WillSend
<1> QED
    BY <1>2, <1>4, <1>5 DEF Trails

LEMMA SendTrails ==
    ASSUME Full, NEW e \in Emitter, NEW n \in {0, 1}, Send(e, n)
    PROVE  Trails'
<1> PICK c : c = Head(toSend[e])
    OBVIOUS
<1> PICK x : x = sending[e]
    OBVIOUS
<1>1. /\ at[e] = "sending" /\ c \in Sink
      /\ Elements(toSend[e]) = {c} \cup Elements(toSend'[e]) /\ c \notin Elements(toSend'[e])
      /\ \A f \in Emitter : f # e => toSend'[f] = toSend[f]
      /\ x \notin queued /\ x <= events /\ x \in Event
      /\ UNCHANGED <<queue, batch, worker, toCall, events, at, sending, queued>>
    BY SendIs
<1>2. /\ log' = [j \in Sink |-> log'[j]] /\ missed' = [j \in Sink |-> missed'[j]]
      /\ failures' \in 0 .. MaxFailures
      /\ \A j \in Sink : j # c => log'[j] = log[j] /\ missed'[j] = missed[j]
      /\ log'[c] \in Seq(Event) /\ missed'[c] \subseteq Event
      /\ Elements(log'[c]) \cup missed'[c] = Given(c) \cup {x}
      /\ Distinct(log'[c]) /\ Elements(log'[c]) \cap missed'[c] = {}
      /\ OrderedWithin(log'[c], queued)
    BY SendAdds
<1>3. Trails /\ Pipe /\ Hands /\ x # None /\ x = sending[e]
    BY <1>1, Basics DEF Full
<1>4. \A f \in Emitter, k \in Sink : Sends(at'[f], toSend'[f], k) => WillSend(f, k)
    BY <1>1 DEF WillSend, Sends
<1>5. ASSUME NEW k \in Sink, k # c PROVE TrailOf(k)'
    <2>1. TrailOf(k) /\ log'[k] = log[k] /\ missed'[k] = missed[k]
        BY <1>2, <1>3, <1>5 DEF Trails
    <2> QED
        BY <1>1, <1>4, <2>1 DEF TrailOf, Given, WillCall, WillSend
<1>6. TrailOf(c)'
    <2>1. Given(c)' = Given(c) \cup {x} /\ TrailOf(c)
        BY <1>1, <1>2, <1>3 DEF Given, Trails
    <2>2. \A y \in Given(c)' : y <= events
        BY <1>1, <2>1 DEF TrailOf
    <2>3. Given(c)' \cap queued = Given(c) \cap queued
        BY <1>1, <2>1
    <2>4. \A f \in Emitter : Sends(at'[f], toSend'[f], c) => sending[f] \notin Given(c)'
        <3> SUFFICES ASSUME NEW f \in Emitter, Sends(at'[f], toSend'[f], c)
                     PROVE  sending[f] \notin Given(c)'
            OBVIOUS
        <3>1. WillSend(f, c) /\ f # e
            BY <1>1, <1>4 DEF Sends
        <3>2. sending[f] # x
            BY <1>3, <3>1 DEF Hands
        <3> QED
            BY <1>1, <2>1, <3>1, <3>2 DEF TrailOf
    <2> QED
        BY <1>1, <1>2, <2>1, <2>2, <2>3, <2>4 DEF TrailOf, WillCall, WillSend
<1> QED
    BY <1>2, <1>5, <1>6 DEF Trails

LEMMA TrailsStep == Full /\ [Next]_vars => Trails'
<1> SUFFICES ASSUME Full, [Next]_vars PROVE Trails'
    OBVIOUS
<1>0. /\ events \in Nat /\ events <= events /\ Hands /\ EmptyHanded
      /\ queue \in Seq(Event \cup {None}) /\ batch \in Seq(Event)
      /\ \A x \in Event : x # None
      /\ \A k \in Sink : Calls(worker, toCall, k) <=> WillCall(k)
      /\ \A e \in Emitter, k \in Sink : Sends(at[e], toSend[e], k) <=> WillSend(e, k)
    BY Basics DEF Full, IInv, WillCall, WillSend
<1>a. ASSUME UNCHANGED <<log, missed, failures, events, queued, queue, batch, at, sending,
                         toSend>>,
             \A k \in Sink : Calls(worker', toCall', k) => WillCall(k)
      PROVE  Trails'
    BY <1>0, <1>a, TrailsKept
<1>1. ASSUME NEW e \in Emitter, Put(e) PROVE Trails'
    <2>1. /\ events' = events + 1 /\ queue' = Append(queue, events + 1) /\ events < MaxEvents
          /\ queued' = queued \cup {events + 1}
          /\ UNCHANGED <<batch, worker, toCall, at, sending, toSend, log, missed, failures>>
        BY <1>1 DEF Put, emitFrame, workVars, emitVars, trailVars
    <2>2. /\ events + 1 \in Event /\ events + 1 \in Nat /\ events < events + 1
          /\ events <= events + 1
        BY <1>0, <2>1, TelemetryAssumption DEF Event
    <2>3. Elements(queue') = Elements(queue) \cup {events + 1}
        BY <1>0, <2>1, <2>2, ElementsOfAppend
    <2>4. /\ queued \subseteq queued'
          /\ \A x \in queued' : x \in queued \/ (x \in Nat /\ events < x)
          /\ \A y \in Elements(queue') :
                 y # None => y \in Elements(queue) \/ (y \in Nat /\ events < y)
          /\ events' \in Nat /\ events <= events'
        BY <2>1, <2>2, <2>3
    <2> QED
        BY <1>0, <2>1, <2>4, TrailsKept
<1>2. ASSUME NEW e \in Emitter, SendItself(e) PROVE Trails'
    <2>1. /\ at' = [at EXCEPT ![e] = "waiting"] /\ sending' = [sending EXCEPT ![e] = events + 1]
          /\ events' = events + 1
          /\ UNCHANGED <<queue, queued, batch, worker, toCall, toSend, log, missed, failures>>
        BY <1>2 DEF SendItself, emitFrame, queueVars, workVars, trailVars
    <2>2. /\ sending'[e] \in Nat /\ events < sending'[e] /\ events' \in Nat /\ events <= events'
          /\ \A f \in Emitter : f # e => sending'[f] = sending[f] /\ at'[f] = at[f]
        BY <1>0, <2>1 DEF Hands
    <2> QED
        BY <1>0, <2>1, <2>2, TrailsKept
<1>3. ASSUME NEW e \in Emitter, TakeSinkLock(e) PROVE Trails'
    <2>1. /\ at[e] = "waiting" /\ at' = [at EXCEPT ![e] = "sending"]
          /\ toSend' = [toSend EXCEPT ![e] = sinks]
          /\ UNCHANGED <<queue, queued, batch, worker, toCall, events, sending, log, missed,
                         failures>>
        BY <1>3 DEF TakeSinkLock, emitFrame, queueVars, workVars, trailVars
    <2>2. /\ \A k \in Sink : WillSend(e, k)
          /\ \A f \in Emitter : f # e => toSend'[f] = toSend[f] /\ at'[f] = at[f]
        BY <1>0, <2>1 DEF Hands, WillSend, Sends
    <2>3. \A f \in Emitter, k \in Sink : Sends(at'[f], toSend'[f], k) => WillSend(f, k)
        BY <1>0, <2>2
    <2> QED
        BY <1>0, <2>1, <2>3, TrailsKept
<1>4. ASSUME NEW e \in Emitter, NEW n \in {0, 1}, Send(e, n) PROVE Trails'
    BY <1>4, SendTrails
<1>5. ASSUME NEW e \in Emitter, Sent(e) PROVE Trails'
    <2>1. /\ at' = [at EXCEPT ![e] = "idle"] /\ sending' = [sending EXCEPT ![e] = None]
          /\ UNCHANGED <<queue, queued, batch, worker, toCall, events, toSend, log, missed,
                         failures>>
        BY <1>5 DEF Sent, emitFrame, queueVars, workVars, trailVars
    <2>2. /\ \A k \in Sink : ~Sends(at'[e], toSend'[e], k)
          /\ \A f \in Emitter : f # e => sending'[f] = sending[f] /\ at'[f] = at[f]
        BY <1>0, <2>1 DEF Hands, Sends
    <2>3. \A f \in Emitter, k \in Sink :
              Sends(at'[f], toSend'[f], k) => WillSend(f, k) /\ sending'[f] = sending[f]
        BY <1>0, <2>1, <2>2
    <2> QED
        BY <1>0, <2>1, <2>3, TrailsKept
<1>6. CASE Configure
    BY <1>0, <1>a, <1>6
    DEF Configure, ChangeSinks, shareFrame, queueVars, emitVars, workVars, trailVars
<1>7. CASE Loop \/ GetTimesOut \/ Gathered \/ CopySinks
    <2>1. \A k \in Sink : Calls(worker', toCall', k) => WillCall(k)
        BY <1>7 DEF Loop, GetTimesOut, Gathered, CopySinks, Worker, WillCall, Calls
    <2> QED
        BY <1>a, <1>7, <2>1
        DEF Loop, GetTimesOut, Gathered, CopySinks, workerFrame, queueVars, emitVars, trailVars
<1>8. CASE Get \/ Gather
    <2>1. /\ queue # <<>> /\ queue' = Tail(queue) /\ worker # "dispatch"
          /\ batch' = batch \/ (Head(queue) # None /\ batch' = Append(batch, Head(queue)))
          /\ UNCHANGED <<events, queued, at, sending, toSend, log, missed, failures>>
        <3>1. CASE Get
            <4>1. batch = <<>> /\ (Head(queue) # None => batch' = <<Head(queue)>>)
                BY <1>0, <3>1 DEF Get, Worker, EmptyHanded
            <4>2. Head(queue) # None => batch' = Append(batch, Head(queue))
                BY <4>1
            <4> QED
                BY <3>1, <4>2 DEF Get, Worker, workerFrame, emitVars, trailVars
        <3>2. CASE Gather
            BY <3>2 DEF Gather, Worker, workerFrame, emitVars, trailVars
        <3> QED
            BY <1>8, <3>1, <3>2
    <2>2. Elements(queue) = {Head(queue)} \cup Elements(queue')
        BY <1>0, <2>1, ElementsOfTail
    <2>3. ASSUME NEW y \in Elements(batch'), NEW k \in Sink
          PROVE  \/ WillCall(k) /\ y \in Elements(batch)
                 \/ y \in Elements(queue) /\ y # None
        <3>0. WillCall(k)
            BY <2>1 DEF WillCall, Calls
        <3>1. CASE batch' = batch
            BY <3>0, <3>1
        <3>2. CASE Head(queue) # None /\ batch' = Append(batch, Head(queue))
            <4>1. Head(queue) \in Event
                BY <1>0, <2>1, <3>2, ElementsOfTail
            <4>2. Elements(batch') = Elements(batch) \cup {Head(queue)}
                BY <1>0, <3>2, <4>1, ElementsOfAppend
            <4> QED
                BY <2>2, <3>0, <3>2, <4>2
        <3> QED
            BY <2>1, <3>1, <3>2
    <2> QED
        BY <1>0, <2>1, <2>2, <2>3, TrailsKept
<1>9. ASSUME NEW n, Dispatch(n) PROVE Trails'
    BY <1>9, DispatchTrails
<1>10. CASE BatchDone
    <2>1. /\ batch' = <<>>
          /\ UNCHANGED <<queue, events, queued, at, sending, toSend, log, missed, failures>>
        BY <1>10 DEF BatchDone, workerFrame, emitVars, trailVars
    <2> QED
        BY <1>0, <2>1, ElementsOfNone, TrailsKept
<1>11. CASE Flush
    BY <1>0, <1>a, <1>11
    DEF Flush, BeginFlush, Joined, Flushed, queueVars, emitVars, workVars, trailVars
<1>12. CASE BeginShutdown \/ JoinWorker \/ CloseSinks
    BY <1>0, <1>a, <1>12
    DEF BeginShutdown, JoinWorker, CloseSinks, shareFrame, queueVars, emitVars, workVars,
        trailVars
<1>13. CASE PutNone
    <2>1. /\ queue' = queue \/ queue' = Append(queue, None)
          /\ UNCHANGED <<events, queued, batch, worker, toCall, at, sending, toSend, log, missed,
                         failures>>
        BY <1>13 DEF PutNone, queueVars, emitVars, workVars, trailVars
    <2>2. Elements(queue') \subseteq Elements(queue) \cup {None}
        <3>1. CASE queue' = queue
            BY <3>1
        <3>2. CASE queue' = Append(queue, None)
            BY <1>0, <3>2, ElementsOfAppend
        <3> QED
            BY <2>1, <3>1, <3>2
    <2> QED
        BY <1>0, <2>1, <2>2, TrailsKept
<1>14. CASE UNCHANGED vars
    BY <1>0, <1>a, <1>14 DEF vars, queueVars, emitVars, workVars, trailVars
<1> QED
    BY <1>1, <1>2, <1>3, <1>4, <1>5, <1>6, <1>7, <1>8, <1>9, <1>10, <1>11, <1>12, <1>13, <1>14
    DEF Next, Emit, Work, Shutdown

(* Steps that call no sink and settle nothing. *)
LEMMA ServedKept ==
    ASSUME Full, UNCHANGED <<log, missed, settled>>, lasting' \subseteq lasting,
           \A k \in lasting' :
               Calls(worker', toCall', k) \/ (~WillCall(k) /\ batch' = batch),
           \A e \in Emitter, k \in lasting' :
               at'[e] = "sending" /\ ~Sends(at'[e], toSend'[e], k) =>
                   at[e] = "sending" /\ ~WillSend(e, k) /\ sending'[e] = sending[e]
    PROVE  Served'
<1>1. Served
    BY DEF Full
<1>2. ASSUME NEW k \in lasting' PROVE Given(k)' = Given(k) /\ k \in lasting
    BY DEF Given
<1>3. \A k \in lasting' : settled' \subseteq Given(k)'
    BY <1>1, <1>2 DEF Served
<1>4. \A k \in lasting' : Calls(worker', toCall', k) \/ Elements(batch') \subseteq Given(k)'
    BY <1>1, <1>2 DEF Served
<1>5. \A k \in lasting', e \in Emitter :
          at'[e] = "sending" /\ ~Sends(at'[e], toSend'[e], k) => sending'[e] \in Given(k)'
    BY <1>1, <1>2 DEF Served
<1> QED
    BY <1>3, <1>4, <1>5 DEF Served, WillCall, WillSend

LEMMA DispatchServed ==
    ASSUME Full, NEW n, Dispatch(n)
    PROVE  Served'
<1> PICK c : c = Head(toCall)
    OBVIOUS
<1>1. /\ worker = "dispatch" /\ c \in Sink /\ Elements(toCall) = {c} \cup Elements(toCall')
      /\ UNCHANGED <<batch, worker, at, sending, toSend, settled, lasting>>
    BY DispatchIs
<1>2. /\ \A j \in Sink : j # c => log'[j] = log[j] /\ missed'[j] = missed[j]
      /\ Elements(log'[c]) \cup missed'[c] = Given(c) \cup Elements(batch)
    BY DispatchIs, DeliverIs
<1>3. Served /\ lasting \subseteq Sink
    BY SinksAre DEF Full
<1>4. ASSUME NEW k \in lasting
      PROVE  /\ settled' \subseteq Given(k)'
             /\ Calls(worker', toCall', k) \/ Elements(batch') \subseteq Given(k)'
             /\ \A e \in Emitter :
                    at'[e] = "sending" /\ ~WillSend(e, k) => sending'[e] \in Given(k)'
    <2>1. /\ settled \subseteq Given(k)
          /\ Calls(worker, toCall, k) \/ Elements(batch) \subseteq Given(k)
          /\ \A e \in Emitter : at[e] = "sending" /\ ~WillSend(e, k) => sending[e] \in Given(k)
        BY <1>3 DEF Served, WillCall
    <2>2. Given(k) \subseteq Given(k)' /\ (k = c => Elements(batch) \subseteq Given(k)')
        BY <1>2, <1>3 DEF Given
    <2>3. k # c => Calls(worker', toCall', k) = Calls(worker, toCall, k)
        BY <1>1 DEF Calls
    <2> QED
        BY <1>1, <2>1, <2>2, <2>3
<1> QED
    BY <1>1, <1>4 DEF Served, WillCall, WillSend

LEMMA SendServed ==
    ASSUME Full, NEW e \in Emitter, NEW n \in {0, 1}, Send(e, n)
    PROVE  Served'
<1> PICK c : c = Head(toSend[e])
    OBVIOUS
<1> PICK x : x = sending[e]
    OBVIOUS
<1>1. /\ at[e] = "sending" /\ c \in Sink
      /\ Elements(toSend[e]) = {c} \cup Elements(toSend'[e])
      /\ \A f \in Emitter : f # e => toSend'[f] = toSend[f]
      /\ UNCHANGED <<batch, worker, toCall, at, sending, settled, lasting>>
    BY SendIs
<1>2. /\ \A j \in Sink : j # c => log'[j] = log[j] /\ missed'[j] = missed[j]
      /\ Elements(log'[c]) \cup missed'[c] = Given(c) \cup {x}
    BY SendIs, SendAdds
<1>3. Served /\ lasting \subseteq Sink
    BY SinksAre DEF Full
<1>4. ASSUME NEW k \in lasting
      PROVE  /\ settled' \subseteq Given(k)'
             /\ WillCall(k) \/ Elements(batch') \subseteq Given(k)'
             /\ \A f \in Emitter : at'[f] = "sending" /\ ~Sends(at'[f], toSend'[f], k)
                                      => sending'[f] \in Given(k)'
    <2>1. /\ settled \subseteq Given(k)
          /\ WillCall(k) \/ Elements(batch) \subseteq Given(k)
          /\ \A f \in Emitter : at[f] = "sending" /\ ~WillSend(f, k) => sending[f] \in Given(k)
        BY <1>3 DEF Served
    <2>2. Given(k) \subseteq Given(k)' /\ (k = c => x \in Given(k)')
        BY <1>2, <1>3 DEF Given
    <2>3. \A f \in Emitter : k # c \/ f # e => Sends(at'[f], toSend'[f], k) = WillSend(f, k)
        BY <1>1 DEF Sends, WillSend
    <2> QED
        BY <1>1, <2>1, <2>2, <2>3
<1> QED
    BY <1>1, <1>4 DEF Served, WillCall, WillSend

LEMMA ServedStep == Full /\ [Next]_vars => Served'
<1> SUFFICES ASSUME Full, [Next]_vars PROVE Served'
    OBVIOUS
<1>0. /\ Hands /\ Served /\ lasting \subseteq Elements(sinks)
      /\ \A k \in Sink : Calls(worker, toCall, k) <=> WillCall(k)
      /\ \A e \in Emitter : \A k : Sends(at[e], toSend[e], k) <=> WillSend(e, k)
      /\ \A k : Calls(worker, toCall, k) <=> WillCall(k)
    BY DEF Full, Sizes, WillCall, WillSend
<1>a. ASSUME UNCHANGED <<log, missed, settled, at, sending, toSend>>, lasting' \subseteq lasting,
             \/ UNCHANGED <<worker, toCall, batch>>
             \/ worker' # "dispatch"
             \/ worker' = "dispatch" /\ toCall' = sinks
      PROVE  Served'
    <2>1. \A k \in lasting' : Calls(worker', toCall', k) \/ (~WillCall(k) /\ batch' = batch)
        BY <1>0, <1>a DEF Calls, WillCall
    <2> QED
        BY <1>0, <1>a, <2>1, ServedKept
<1>1. ASSUME NEW e \in Emitter, Put(e) PROVE Served'
    BY <1>a, <1>1 DEF Put, emitFrame, workVars, emitVars, trailVars, sinkVars
<1>2. ASSUME NEW e \in Emitter, SendItself(e) \/ TakeSinkLock(e) PROVE Served'
    <2>1. /\ UNCHANGED <<log, missed, settled, lasting, worker, toCall, batch>>
          /\ \A f \in Emitter : f # e =>
                at'[f] = at[f] /\ toSend'[f] = toSend[f] /\ sending'[f] = sending[f]
          /\ at'[e] = "waiting" \/ (at'[e] = "sending" /\ toSend'[e] = sinks)
        BY <1>0, <1>2
        DEF SendItself, TakeSinkLock, emitFrame, workVars, trailVars, sinkVars, Hands
    <2>2. \A k \in lasting' : Sends(at'[e], toSend'[e], k)
        BY <1>0, <2>1 DEF Sends
    <2> QED
        BY <1>0, <2>1, <2>2, ServedKept
<1>3. ASSUME NEW e \in Emitter, NEW n \in {0, 1}, Send(e, n) PROVE Served'
    BY <1>3, SendServed
<1>4. ASSUME NEW e \in Emitter, Sent(e) PROVE Served'
    <2>1. /\ UNCHANGED <<log, missed, lasting, worker, toCall, batch, toSend>>
          /\ at[e] = "sending" /\ toSend[e] = <<>> /\ settled' = settled \cup {sending[e]}
          /\ at'[e] # "sending"
          /\ \A f \in Emitter : f # e => at'[f] = at[f] /\ sending'[f] = sending[f]
        BY <1>0, <1>4 DEF Sent, emitFrame, workVars, trailVars, sinkVars, Hands
    <2>2. \A k \in lasting : ~WillSend(e, k) /\ sending[e] \in Given(k)
        BY <1>0, <2>1, ElementsOfNone DEF Served, WillSend, Sends
    <2>3. \A k \in lasting : Given(k)' = Given(k)
        BY <2>1 DEF Given
    <2>4. \A k \in lasting' :
             /\ settled' \subseteq Given(k)'
             /\ WillCall(k) \/ Elements(batch') \subseteq Given(k)'
             /\ \A f \in Emitter : at'[f] = "sending" /\ ~Sends(at'[f], toSend'[f], k)
                                      => sending'[f] \in Given(k)'
        BY <1>0, <2>1, <2>2, <2>3 DEF Served
    <2> QED
        BY <2>1, <2>4 DEF Served, WillCall, WillSend
<1>5. CASE Configure
    BY <1>a, <1>5 DEF Configure, ChangeSinks, shareFrame, emitVars, workVars, trailVars
<1>6. CASE Loop \/ Get \/ GetTimesOut \/ Gather \/ Gathered \/ CopySinks
    BY <1>a, <1>6
    DEF Loop, Get, GetTimesOut, Gather, Gathered, CopySinks, Worker, workerFrame, emitVars,
        trailVars, sinkVars
<1>7. ASSUME NEW n, Dispatch(n) PROVE Served'
    BY <1>7, DispatchServed
<1>8. CASE BatchDone
    <2>1. /\ UNCHANGED <<log, missed, lasting, at, sending, toSend>>
          /\ worker = "dispatch" /\ worker' = "loop" /\ toCall = <<>>
          /\ settled' = settled \cup Elements(batch)
        BY <1>8 DEF BatchDone, Worker, workerFrame, emitVars, trailVars, sinkVars
    <2>2. \A k \in lasting : Elements(batch) \subseteq Given(k)
        BY <1>0, <2>1, ElementsOfNone DEF Served, WillCall, Calls
    <2>3. \A k \in lasting : Given(k)' = Given(k)
        BY <2>1 DEF Given
    <2>4. \A k \in lasting' :
             /\ settled' \subseteq Given(k)'
             /\ Calls(worker', toCall', k)
             /\ \A f \in Emitter : at'[f] = "sending" /\ ~Sends(at'[f], toSend'[f], k)
                                      => sending'[f] \in Given(k)'
        BY <1>0, <2>1, <2>2, <2>3 DEF Served, Calls
    <2> QED
        BY <2>1, <2>4 DEF Served, WillCall, WillSend
<1>9. CASE Flush
    BY <1>a, <1>9
    DEF Flush, BeginFlush, Joined, Flushed, emitVars, workVars, trailVars, sinkVars
<1>10. CASE Shutdown
    BY <1>a, <1>10
    DEF Shutdown, BeginShutdown, PutNone, JoinWorker, CloseSinks, shareFrame, emitVars, workVars,
        trailVars, sinkVars
<1>11. CASE UNCHANGED vars
    BY <1>a, <1>11 DEF vars, emitVars, workVars, trailVars, sinkVars
<1> QED
    BY <1>1, <1>2, <1>3, <1>4, <1>5, <1>6, <1>7, <1>8, <1>9, <1>10, <1>11
    DEF Next, Emit, Work

LEMMA LocatedStep == Full /\ [Next]_vars => Located'
<1> SUFFICES ASSUME Full, [Next]_vars PROVE Located'
    OBVIOUS
<1> DEFINE In(q, b, s, h) == (Elements(q) \cup Elements(b) \cup s
                                \cup {h[e] : e \in Emitter}) \ {None}
<1>0. /\ Hands /\ settled \subseteq Event /\ events \in Nat /\ EmptyHanded
      /\ 1 .. events = In(queue, batch, settled, sending)
      /\ queue \in Seq(Event \cup {None}) /\ batch \in Seq(Event)
      /\ \A x \in Event : x # None /\ x \in Nat
      /\ Elements(batch) \subseteq Event /\ None = 0
    BY Basics DEF Full, IInv, Located
<1>1. 1 .. events + 1 = (1 .. events) \cup {events + 1} /\ events + 1 # None
    BY <1>0
<1>a. ASSUME UNCHANGED <<queue, batch, settled, events, sending>> PROVE Located'
    BY <1>0, <1>a DEF Located
<1>2. ASSUME NEW e \in Emitter, Put(e) PROVE Located'
    <2>1. /\ events' = events + 1 /\ queue' = Append(queue, events + 1) /\ events < MaxEvents
          /\ UNCHANGED <<batch, settled, sending>>
        BY <1>2 DEF Put, emitFrame, workVars, emitVars
    <2>2. events + 1 \in Event
        BY <1>0, <2>1, TelemetryAssumption DEF Event
    <2>3. Elements(queue') = Elements(queue) \cup {events + 1}
        <3>1. events + 1 \in Event \cup {None}
            BY <2>2
        <3> QED
            BY <1>0, <2>1, <3>1, ElementsOfAppend
    <2>4. 1 .. events' = In(queue', batch', settled', sending')
        BY <1>0, <1>1, <2>1, <2>3
    <2> QED
        BY <1>0, <2>1, <2>4 DEF Located
<1>3. ASSUME NEW e \in Emitter, SendItself(e) PROVE Located'
    <2>1. /\ events' = events + 1 /\ sending[e] = None /\ sending'[e] = events + 1
          /\ \A f \in Emitter : f # e => sending'[f] = sending[f]
          /\ UNCHANGED <<batch, settled, queue>>
        BY <1>0, <1>3 DEF SendItself, emitFrame, workVars, queueVars, Hands
    <2>2. {sending'[f] : f \in Emitter} \ {None}
            = ({sending[f] : f \in Emitter} \ {None}) \cup {events + 1}
        BY <1>1, <2>1
    <2>3. 1 .. events' = In(queue', batch', settled', sending')
        BY <1>0, <1>1, <2>1, <2>2
    <2> QED
        BY <1>0, <2>1, <2>3 DEF Located
<1>4. ASSUME NEW e \in Emitter, TakeSinkLock(e) \/ \E n \in {0, 1} : Send(e, n) PROVE Located'
    BY <1>a, <1>4 DEF TakeSinkLock, Send, emitFrame, workVars, queueVars
<1>5. ASSUME NEW e \in Emitter, Sent(e) PROVE Located'
    <2>1. /\ settled' = settled \cup {sending[e]} /\ at[e] = "sending" /\ sending'[e] = None
          /\ \A f \in Emitter : f # e => sending'[f] = sending[f]
          /\ UNCHANGED <<batch, queue, events>>
        BY <1>0, <1>5 DEF Sent, emitFrame, workVars, queueVars, Hands
    <2>2. sending[e] \in Event
        BY <1>0, <2>1 DEF Hands
    <2>3. {sending[f] : f \in Emitter} \ {None}
            = ({sending'[f] : f \in Emitter} \ {None}) \cup {sending[e]}
        BY <1>0, <2>1, <2>2
    <2>4. 1 .. events' = In(queue', batch', settled', sending')
        BY <1>0, <2>1, <2>3
    <2> QED
        BY <1>0, <2>1, <2>2, <2>4 DEF Located
<1>6. CASE Configure
    BY <1>a, <1>6 DEF Configure, ChangeSinks, shareFrame, emitVars, workVars, queueVars
<1>7. CASE Loop \/ GetTimesOut \/ Gathered \/ CopySinks \/ \E n \in 0 .. MaxBatch : Dispatch(n)
    BY <1>a, <1>7
    DEF Loop, GetTimesOut, Gathered, CopySinks, Dispatch, workerFrame, emitVars, queueVars
<1>8. CASE Get \/ Gather
    <2>1. /\ queue # <<>> /\ queue' = Tail(queue)
          /\ \/ Head(queue) = None /\ batch' = batch
             \/ Head(queue) # None /\ batch' = Append(batch, Head(queue))
          /\ UNCHANGED <<events, settled, sending>>
        <3>1. CASE Get
            <4>1. batch = <<>> /\ (Head(queue) # None => batch' = <<Head(queue)>>)
                BY <1>0, <3>1 DEF Get, Worker, EmptyHanded
            <4>2. Head(queue) # None => batch' = Append(batch, Head(queue))
                BY <4>1
            <4> QED
                BY <3>1, <4>2 DEF Get, Worker, workerFrame, emitVars
        <3>2. CASE Gather
            BY <3>2 DEF Gather, Worker, workerFrame, emitVars
        <3> QED
            BY <1>8, <3>1, <3>2
    <2>2. /\ Elements(queue) = {Head(queue)} \cup Elements(queue')
          /\ Head(queue) \in Event \cup {None}
        BY <1>0, <2>1, ElementsOfTail
    <2>3. (Elements(queue) \cup Elements(batch)) \ {None}
            = (Elements(queue') \cup Elements(batch')) \ {None}
        <3>1. CASE Head(queue) = None /\ batch' = batch
            BY <2>2, <3>1
        <3>2. CASE Head(queue) # None /\ batch' = Append(batch, Head(queue))
            <4>1. Elements(batch') = Elements(batch) \cup {Head(queue)}
                BY <1>0, <2>2, <3>2, ElementsOfAppend
            <4> QED
                BY <2>2, <4>1
        <3> QED
            BY <2>1, <3>1, <3>2
    <2>4. 1 .. events' = In(queue', batch', settled', sending')
        BY <1>0, <2>1, <2>3
    <2> QED
        BY <1>0, <2>1, <2>4 DEF Located
<1>9. CASE BatchDone
    <2>1. /\ batch' = <<>> /\ settled' = settled \cup Elements(batch)
          /\ UNCHANGED <<events, queue, sending>>
        BY <1>9 DEF BatchDone, workerFrame, emitVars
    <2>2. 1 .. events' = In(queue', batch', settled', sending')
        BY <1>0, <2>1, ElementsOfNone
    <2> QED
        BY <1>0, <2>1, <2>2 DEF Located
<1>10. CASE Flush
    BY <1>a, <1>10 DEF Flush, BeginFlush, Joined, Flushed, emitVars, workVars, queueVars
<1>11. CASE BeginShutdown \/ JoinWorker \/ CloseSinks
    BY <1>a, <1>11
    DEF BeginShutdown, JoinWorker, CloseSinks, shareFrame, emitVars, workVars, queueVars
<1>12. CASE PutNone
    <2>1. /\ queue' = queue \/ queue' = Append(queue, None)
          /\ UNCHANGED <<events, settled, batch, sending>>
        BY <1>12 DEF PutNone, queueVars, emitVars, workVars
    <2>2. Elements(queue') \ {None} = Elements(queue) \ {None}
        <3>1. CASE queue' = queue
            BY <3>1
        <3>2. CASE queue' = Append(queue, None)
            <4>1. Elements(queue') = Elements(queue) \cup {None}
                BY <1>0, <3>2, ElementsOfAppend
            <4> QED
                BY <4>1
        <3> QED
            BY <2>1, <3>1, <3>2
    <2>3. 1 .. events' = In(queue', batch', settled', sending')
        BY <1>0, <2>1, <2>2
    <2> QED
        BY <1>0, <2>1, <2>3 DEF Located
<1>13. CASE UNCHANGED vars
    BY <1>a, <1>13 DEF vars, emitVars, workVars, queueVars
<1> QED
    BY <1>2, <1>3, <1>4, <1>5, <1>6, <1>7, <1>8, <1>9, <1>10, <1>11, <1>12, <1>13
    DEF Next, Emit, Work, Shutdown

-----------------------------------------------------------------------------
LEMMA InitFull == Init => Full
<1> SUFFICES ASSUME Init PROVE Full
    OBVIOUS
<1> USE DEF Init
<1>1. IInv
    BY Initially
<1>2. /\ Elements(<<>>) = {} /\ Len(<<>>) = 0 /\ None = 0 /\ 0 \in Nat
      /\ <<>> \in Seq(Event) /\ <<>> \in Seq(Sink)
      /\ Distinct(<<>>) /\ Ascending(<<>>) /\ InLine(<<>>)
      /\ \A Q : OrderedWithin(<<>>, Q)
    BY ElementsOfNone DEF None, Distinct, Ascending, InLine, OrderedWithin
<1>3. Sizes
    <2>1. sinks \in Seq(Sink) /\ Distinct(sinks) /\ lasting \subseteq Elements(sinks)
        BY TelemetryAssumption DEF Distinct
    <2>2. /\ Len(queue) <= MaxQueue /\ Len(batch) <= MaxBatch /\ changes \in 0 .. MaxChanges
          /\ toCall \in Seq(Sink) /\ Distinct(toCall)
        BY <1>2, TelemetryAssumption
    <2> QED
        BY <2>1, <2>2 DEF Sizes
<1>4. Hands
    BY <1>2 DEF Hands
<1>5. Pipe
    BY <1>2 DEF Pipe
<1>6. \A k \in Sink : log[k] = <<>> /\ missed[k] = {} /\ Given(k) = {}
    BY <1>2 DEF Given
<1>7. Trails
    <2>1. \A k \in Sink : TrailOf(k)
        BY <1>2, <1>6 DEF TrailOf
    <2> QED
        BY <2>1, TelemetryAssumption DEF Trails
<1>8. Served
    BY <1>2 DEF Served, WillCall, Calls
<1>9. Located
    <2>1. 1 .. 0 = {}
        OBVIOUS
    <2> QED
        BY <1>2, <2>1 DEF Located
<1> QED
    BY <1>1, <1>3, <1>4, <1>5, <1>7, <1>8, <1>9 DEF Full

LEMMA FullStep == Full /\ [Next]_vars => Full'
    BY Step, SizesStep, HandsStep, PipeStep, TrailsStep, ServedStep, LocatedStep DEF Full

LEMMA FullIsInvariant == Spec => []Full
    BY InitFull, FullStep, PTL DEF Spec

(***************************************************************************)
(* The dispatcher's variables have the types TypeOK gives them: the queue  *)
(* never holds more than its maxsize, a batch never more than its maximum, *)
(* and no sink is registered twice, so that there are at most as many      *)
(* entries as sinks.                                                       *)
(***************************************************************************)
THEOREM DispatcherTyped == Spec => []TypeOK
<1>1. Full => TypeOK
    <2> SUFFICES ASSUME Full PROVE TypeOK
        OBVIOUS
    <2>1. /\ queue \in Seq(Event \cup {None}) /\ batch \in Seq(Event)
          /\ Len(queue) \in Nat /\ Len(batch) \in Nat /\ events \in 0 .. MaxEvents
          /\ queued \subseteq Event /\ unfinished = Len(queue) + Len(batch)
        BY DEF Full, IInv, QueueTypeOK, Counted
    <2>2. unfinished \in 0 .. MaxQueue + MaxBatch
        BY <2>1, TelemetryAssumption DEF Full, Sizes
    <2>3. Len(sinks) <= Cardinality(Sink)
        <3>1. sinks \in Seq(Sink) /\ Distinct(sinks) /\ Elements(sinks) \subseteq Sink
            BY SinksAre DEF Full, Sizes
        <3> QED
            BY <3>1, DistinctLength, FS_Subset, TelemetryAssumption
    <2>4. \A k \in Sink : log[k] \in Seq(Event) /\ missed[k] \subseteq Event
        BY DEF Full, Trails, TrailOf
    <2>5. lasting \subseteq Sink
        BY SinksAre
    <2>6. failures \in 0 .. MaxFailures /\ settled \subseteq Event
        BY DEF Full, Trails, Located
    <2> QED
        BY <2>1, <2>2, <2>3, <2>4, <2>5, <2>6 DEF TypeOK, Full, Sizes, Hands
<1> QED
    BY <1>1, FullIsInvariant, PTL

(***************************************************************************)
(* No emitted event is lost between the threads and none reaches a sink    *)
(* twice, whatever fails, is configured, flushed or shut down meanwhile.   *)
(***************************************************************************)
THEOREM NothingIsLost == Spec => []TrailIsComplete
<1>1. Full => TrailIsComplete
    <2> SUFFICES ASSUME Full PROVE TrailIsComplete
        OBVIOUS
    <2>1. \A k \in lasting : settled \subseteq Elements(log[k]) \cup missed[k]
        BY DEF Full, Served, Given
    <2>2. \A k \in Sink : Cardinality(Elements(log[k])) = Len(log[k])
        BY DistinctLength DEF Full, Trails, TrailOf
    <2>3. \A k \in Sink : Elements(log[k]) \cap missed[k] = {}
        BY DEF Full, Trails, TrailOf
    <2> QED
        BY <2>1, <2>2, <2>3 DEF TrailIsComplete, Full, Located
<1> QED
    BY <1>1, FullIsInvariant, PTL

(***************************************************************************)
(* What went through the queue is in every sink in the order it was put.   *)
(***************************************************************************)
THEOREM OrderIsKept == Spec => []QueuedInOrder
<1>1. Full => QueuedInOrder
    BY DEF Full, Trails, TrailOf, OrderedWithin, QueuedInOrder
<1> QED
    BY <1>1, FullIsInvariant, PTL
=============================================================================
