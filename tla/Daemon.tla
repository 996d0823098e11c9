------------------------------- MODULE Daemon -------------------------------
(***************************************************************************)
(* ContinuousMonitoringDaemon (daemon.py): a thread that collects at       *)
(* intervals, callers that start and stop it, and callers that run a cycle *)
(* of their own.  A step is what a thread does between two points where    *)
(* another may come in.                                                    *)
(***************************************************************************)
EXTENDS Integers, Sequences, FiniteSets

CONSTANTS
    Stoppers,       \* callers of start and stop
    Runners,        \* callers of run_once_now
    MaxStarts,      \* how many loops there may be
    MaxCycles       \* how many cycles may begin

VARIABLES
    running, stopEvent, thread,     \* _running, _stop_event, _thread
    totalRuns,                      \* _total_runs; the rest of the status is left out
    pc,                             \* where each loop, runner and stopper is
    cycle, number,                  \* the cycle a loop or a runner is in, the run_number it has read
    cycles,                         \* how many cycles began
    trail, emitted,                 \* <<cycle, run_number>> of the audit events in their order, of the telemetry events
    counted,                        \* history: the cycles in the order they were counted
    overlap, late, mixed            \* history: stops that overlapped, a join that timed out, cycles that overlapped

vars == <<running, stopEvent, thread, totalRuns, pc, cycle, number, cycles, trail, emitted,
          counted, overlap, late, mixed>>

Loops == 1..MaxStarts
Workers == Loops \cup Runners
Counting == {"cycle", "collect", "record"}
Reporting == {"report", "append", "notify", "emit"}
InCycle == Counting \cup Reporting

daemon == <<running, stopEvent, thread>>
history == <<overlap, late>>
events == <<trail, emitted>>
tally == <<totalRuns, counted>>

Init ==
    /\ running = FALSE /\ stopEvent = FALSE /\ thread = 0
    /\ totalRuns = 0
    /\ pc = [p \in Workers \cup Stoppers |-> IF p \in Loops THEN "new" ELSE "idle"]
    /\ cycle = [w \in Workers |-> 0] /\ number = [w \in Workers |-> 0] /\ cycles = 0
    /\ trail = << >> /\ emitted = {} /\ counted = << >>
    /\ overlap = FALSE /\ late = FALSE /\ mixed = FALSE

Alive(l) == pc[l] \notin {"new", "ended"}
Live == {l \in Loops : Alive(l)}
Stopping == {s \in Stoppers : pc[s] # "idle"}
Move(p, to) == pc' = [pc EXCEPT ![p] = to]

-----------------------------------------------------------------------------
(* Mutant of StartsAnew: a daemon that runs is started again. *)
StartsAlways == TRUE

StartsAnew == ~running

(* start, all of it under the lock. *)
Start(s) ==
    /\ pc[s] = "idle" /\ thread < MaxStarts
    /\ StartsAnew
    /\ stopEvent' = FALSE /\ running' = TRUE
    /\ thread' = thread + 1
    /\ Move(thread + 1, "check")
    /\ UNCHANGED <<tally, cycle, number, cycles, events, history, mixed>>

(* Mutant of Signal: the loop is not told. *)
NoSignal == stopEvent' = stopEvent

Signal == stopEvent' = TRUE

(* stop: the event under the lock, the thread waited for without it. *)
Stop(s) ==
    /\ pc[s] = "idle" /\ running
    /\ Signal
    /\ Move(s, "join")
    /\ overlap' = (overlap \/ Stopping # {})
    /\ UNCHANGED <<running, thread, tally, cycle, number, cycles, events, late, mixed>>

(* The thread ended, or it did not within the five seconds. *)
Join(s) ==
    /\ pc[s] = "join"
    /\ \/ ~Alive(thread) /\ UNCHANGED late
       \/ Alive(thread) /\ late' = TRUE
    /\ Move(s, "clear")
    /\ UNCHANGED <<daemon, tally, cycle, number, cycles, events, overlap, mixed>>

Clear(s) ==
    /\ pc[s] = "clear"
    /\ running' = FALSE
    /\ Move(s, "idle")
    /\ UNCHANGED <<stopEvent, thread, tally, cycle, number, cycles, events, history, mixed>>

-----------------------------------------------------------------------------
Room == cycles + Cardinality({w \in Workers : pc[w] = "cycle"}) < MaxCycles

(* _run_loop: the condition of the while, with the next run's time. *)
Check(l) ==
    /\ pc[l] = "check"
    /\ \/ stopEvent /\ Move(l, "ended")
       \/ ~stopEvent /\ Room /\ Move(l, "cycle")
    /\ UNCHANGED <<daemon, tally, cycle, number, cycles, events, history, mixed>>

(* The interval passed, or the event was set meanwhile. *)
Wake(l) ==
    /\ pc[l] = "wait"
    /\ \/ stopEvent /\ Move(l, "ended")
       \/ ~stopEvent /\ Room /\ Move(l, "check")
    /\ UNCHANGED <<daemon, tally, cycle, number, cycles, events, history, mixed>>

RunOnceNow(r) ==
    /\ pc[r] = "idle" /\ Room
    /\ Move(r, "cycle")
    /\ UNCHANGED <<daemon, tally, cycle, number, cycles, events, history, mixed>>

-----------------------------------------------------------------------------
(* The end of a cycle: a loop waits for its interval, a caller returns. *)
Finish(w) ==
    /\ Move(w, IF w \in Loops THEN "wait" ELSE "idle")
    /\ cycle' = [cycle EXCEPT ![w] = 0] /\ number' = [number EXCEPT ![w] = 0]

(* _execute_cycle: the provider. *)
Begin(w) ==
    /\ pc[w] = "cycle"
    /\ cycles' = cycles + 1
    /\ cycle' = [cycle EXCEPT ![w] = cycles + 1]
    /\ mixed' = (mixed \/ \E v \in Workers \ {w} : pc[v] \in InCycle \ {"cycle"})
    /\ Move(w, "collect")
    /\ UNCHANGED <<daemon, tally, number, events, history>>

(* The provider is not to be had: the error is written down, and no run counted. *)
ProviderFails(w) ==
    /\ pc[w] = "collect"
    /\ Finish(w)
    /\ UNCHANGED <<daemon, tally, cycles, events, history, mixed>>

(* The collectors and the drift report, whose errors end neither. *)
Collect(w) ==
    /\ pc[w] = "collect"
    /\ Move(w, "record")
    /\ UNCHANGED <<daemon, tally, cycle, number, cycles, events, history, mixed>>

(* Mutant of Counted: the run is not counted yet when it is reported. *)
NotYetCounted == totalRuns

Counted == totalRuns + 1

Record(w) ==
    /\ pc[w] = "record"
    /\ totalRuns' = Counted
    /\ counted' = Append(counted, cycle[w])
    /\ Move(w, "report")
    /\ UNCHANGED <<daemon, cycle, number, cycles, events, history, mixed>>

(***************************************************************************)
(* The two events.  The lock was given back, so the number is read as it   *)
(* is by now, once for each event, and other cycles may be counted and     *)
(* reported between a reading and the event that it goes into.             *)
(***************************************************************************)
ReadNumber(w, at, to) ==
    /\ pc[w] = at
    /\ number' = [number EXCEPT ![w] = totalRuns]
    /\ Move(w, to)
    /\ UNCHANGED <<daemon, tally, cycle, cycles, events, history, mixed>>

AppendEvent(w) ==
    /\ pc[w] = "append"
    /\ trail' = Append(trail, <<cycle[w], number[w]>>)
    /\ Move(w, "notify")
    /\ UNCHANGED <<daemon, tally, cycle, number, cycles, emitted, history, mixed>>

(* The audit log cannot be written: the error is swallowed, and neither event comes. *)
AppendFails(w) ==
    /\ pc[w] = "append"
    /\ Finish(w)
    /\ UNCHANGED <<daemon, tally, cycles, events, history, mixed>>

Emit(w) ==
    /\ pc[w] = "emit"
    /\ emitted' = emitted \cup {<<cycle[w], number[w]>>}
    /\ Finish(w)
    /\ UNCHANGED <<daemon, tally, cycles, trail, history, mixed>>

Report(w) ==
    \/ ReadNumber(w, "report", "append") \/ AppendEvent(w) \/ AppendFails(w)
    \/ ReadNumber(w, "notify", "emit") \/ Emit(w)

Work(w) == Begin(w) \/ ProviderFails(w) \/ Collect(w) \/ Record(w) \/ Report(w)

Next ==
    \/ \E s \in Stoppers : Start(s) \/ Stop(s) \/ Join(s) \/ Clear(s)
    \/ \E l \in Loops : Check(l) \/ Wake(l)
    \/ \E r \in Runners : RunOnceNow(r)
    \/ \E w \in Workers : Work(w)

(* A thread that can go on does: the calls it makes have timeouts. *)
Fairness ==
    /\ \A l \in Loops : WF_vars(Check(l) \/ Wake(l) \/ Work(l))
    /\ \A s \in Stoppers : WF_vars(Join(s) \/ Clear(s))

Spec == Init /\ [][Next]_vars /\ Fairness

-----------------------------------------------------------------------------
(***************************************************************************)
(* Two collection loops run at a time only after a stop gave up waiting    *)
(* for the first, or stops overlapped; and what says it is stopped is.     *)
(***************************************************************************)
OneLoop ==
    ~late /\ ~overlap =>
        /\ Cardinality(Live) <= 1
        /\ ~running => Live = {}

(***************************************************************************)
(* The run number of an event is that of a run that was counted, and its   *)
(* own cycle is counted by then: with n come n runs, this one among them.  *)
(* A telemetry event follows an audit event of the same cycle, with a      *)
(* number that is no smaller.  Cycles that overlap may report one number   *)
(* twice, or a greater one first; while none do, an event has the number   *)
(* of its own run, both events have the same one, and the audit events are *)
(* in the order the cycles began.                                          *)
(***************************************************************************)
IsOfRun(e) == e[2] \in DOMAIN counted /\ \E k \in 1..e[2] : counted[k] = e[1]
Follows(e) == \E i \in DOMAIN trail : trail[i][1] = e[1] /\ trail[i][2] <= e[2]

NumbersInOrder ==
    /\ \A i \in DOMAIN trail : IsOfRun(trail[i])
    /\ \A e \in emitted : IsOfRun(e) /\ Follows(e)
    /\ ~mixed =>
          /\ \A i \in DOMAIN trail : counted[trail[i][2]] = trail[i][1]
          /\ \A i, j \in DOMAIN trail : i < j => trail[i][1] < trail[j][1] /\ trail[i][2] < trail[j][2]
          /\ \A e \in emitted : \E i \in DOMAIN trail : trail[i] = e

(***************************************************************************)
(* A daemon that was stopped for good, without stops that overlapped, has  *)
(* no loop left in the end.                                                *)
(***************************************************************************)
LoopsEnd ==
    (<>[](~running /\ ~overlap)) => <>[](Live = {})
=============================================================================
