-------------------------- MODULE MonitoringProofs --------------------------
(***************************************************************************)
(* Proofs about Daemon, for any number of callers that start, stop and run *)
(* cycles, and however many loops and cycles there may be; then about      *)
(* Posture, for any collectors, days and commands.                         *)
(***************************************************************************)
EXTENDS Daemon, Posture, FiniteSetTheorems, TLAPS

(* Callers are no loops and have one part each; there are finitely many. *)
Parameters ==
    /\ MaxStarts \in Nat
    /\ IsFiniteSet(Runners)
    /\ Runners \cap Loops = {} /\ Stoppers \cap Loops = {} /\ Stoppers \cap Runners = {}

-----------------------------------------------------------------------------
LoopStates == InCycle \cup {"new", "check", "wait", "ended"}
RunnerStates == InCycle \cup {"idle"}
StopperStates == {"idle", "join", "clear"}

TypeOK ==
    /\ running \in BOOLEAN /\ stopEvent \in BOOLEAN /\ thread \in 0..MaxStarts
    /\ overlap \in BOOLEAN /\ late \in BOOLEAN /\ mixed \in BOOLEAN
    /\ totalRuns \in Nat /\ cycles \in Nat
    /\ pc \in [Workers \cup Stoppers -> LoopStates \cup RunnerStates \cup StopperStates]
    /\ \A l \in Loops : pc[l] \in LoopStates
    /\ \A r \in Runners : pc[r] \in RunnerStates
    /\ \A s \in Stoppers : pc[s] \in StopperStates
    /\ cycle \in [Workers -> Nat] /\ number \in [Workers -> Nat]
    /\ trail \in Seq(Nat \X Nat) /\ emitted \subseteq Nat \X Nat /\ counted \in Seq(Nat)

(* A step in which one actor moves leaves the others where they are. *)
LEMMA Moved ==
    ASSUME TypeOK, NEW p \in Workers \cup Stoppers, NEW to, Move(p, to)
    PROVE  /\ pc'[p] = to
           /\ \A q \in (Workers \cup Stoppers) \ {p} : pc'[q] = pc[q]
           /\ DOMAIN pc' = Workers \cup Stoppers
    BY DEF TypeOK, Move

LEMMA Typed == ASSUME Parameters PROVE Init => TypeOK
<1> SUFFICES ASSUME Init PROVE TypeOK
    OBVIOUS
<1>1. pc = [p \in Workers \cup Stoppers |-> IF p \in Loops THEN "new" ELSE "idle"]
    BY DEF Init
<1>2. /\ \A l \in Loops : pc[l] = "new"
      /\ \A r \in Runners : pc[r] = "idle"
      /\ \A s \in Stoppers : pc[s] = "idle"
    BY <1>1 DEF Parameters, Workers
<1>3. pc \in [Workers \cup Stoppers -> LoopStates \cup RunnerStates \cup StopperStates]
    BY <1>1 DEF LoopStates, StopperStates
<1>4. /\ \A l \in Loops : pc[l] \in LoopStates
      /\ \A r \in Runners : pc[r] \in RunnerStates
      /\ \A s \in Stoppers : pc[s] \in StopperStates
    BY <1>2 DEF LoopStates, RunnerStates, StopperStates
<1>5. /\ cycle \in [Workers -> Nat] /\ number \in [Workers -> Nat]
      /\ trail \in Seq(Nat \X Nat) /\ emitted \subseteq Nat \X Nat /\ counted \in Seq(Nat)
    BY DEF Init
<1>6. thread \in 0..MaxStarts
    BY DEF Init, Parameters
<1> QED
    BY <1>3, <1>4, <1>5, <1>6 DEF Init, TypeOK

(* The shape of pc after a move to a state that is the mover's own. *)
LEMMA MovedType ==
    ASSUME Parameters, TypeOK, NEW p \in Workers \cup Stoppers, NEW to, Move(p, to),
           p \in Loops => to \in LoopStates, p \in Runners => to \in RunnerStates,
           p \in Stoppers => to \in StopperStates
    PROVE  /\ pc' \in [Workers \cup Stoppers -> LoopStates \cup RunnerStates \cup StopperStates]
           /\ \A l \in Loops : pc'[l] \in LoopStates
           /\ \A r \in Runners : pc'[r] \in RunnerStates
           /\ \A s \in Stoppers : pc'[s] \in StopperStates
<1>1. to \in LoopStates \cup RunnerStates \cup StopperStates
    BY DEF Workers
<1> QED
    BY <1>1, Moved DEF Move, TypeOK, Workers

LEMMA TypeStep == ASSUME Parameters PROVE TypeOK /\ [Next]_vars => TypeOK'
<1> SUFFICES ASSUME TypeOK, [Next]_vars PROVE TypeOK'
    OBVIOUS
<1> USE DEF Parameters
<1>1. ASSUME NEW s \in Stoppers, Start(s) PROVE TypeOK'
    <2>1. thread + 1 \in Loops /\ thread' \in 0..MaxStarts
        BY <1>1 DEF Start, Loops, TypeOK
    <2> QED
        BY <1>1, <2>1, MovedType
        DEF Start, TypeOK, Workers, LoopStates, history, events, tally
<1>2. ASSUME NEW s \in Stoppers, Stop(s) \/ Join(s) \/ Clear(s) PROVE TypeOK'
    BY <1>2, MovedType DEF Stop, Signal, Join, Clear, TypeOK, Workers, StopperStates, history, daemon, events, tally
<1>3. ASSUME NEW l \in Loops, Check(l) \/ Wake(l) PROVE TypeOK'
    BY <1>3, MovedType DEF Check, Wake, TypeOK, Workers, LoopStates, InCycle, Counting, Reporting, history, daemon, events, tally
<1>4. ASSUME NEW r \in Runners, RunOnceNow(r) PROVE TypeOK'
    BY <1>4, MovedType DEF RunOnceNow, TypeOK, Workers, RunnerStates, InCycle, Counting, Reporting, history, daemon, events, tally
<1>5. ASSUME NEW w \in Workers, Begin(w) PROVE TypeOK'
    <2>1. cycle' \in [Workers -> Nat] /\ cycles' \in Nat /\ mixed' \in BOOLEAN
        BY <1>5 DEF Begin, TypeOK
    <2> QED
        BY <1>5, <2>1, MovedType
        DEF Begin, TypeOK, Workers, LoopStates, RunnerStates, InCycle, Counting, Reporting, history, daemon, events, tally
<1>6. ASSUME NEW w \in Workers, ProviderFails(w) \/ Collect(w) \/ AppendFails(w) PROVE TypeOK'
    <2>1. Finish(w) => cycle' \in [Workers -> Nat] /\ number' \in [Workers -> Nat]
        BY DEF Finish, TypeOK
    <2> QED
        BY <1>6, <2>1, MovedType
        DEF ProviderFails, Collect, AppendFails, Finish, TypeOK, Workers, LoopStates, RunnerStates,
            InCycle, Counting, Reporting, history, daemon, events, tally
<1>7. ASSUME NEW w \in Workers, Record(w) PROVE TypeOK'
    <2>1. totalRuns' \in Nat /\ counted' \in Seq(Nat)
        BY <1>7 DEF Record, Counted, TypeOK
    <2> QED
        BY <1>7, <2>1, MovedType
        DEF Record, TypeOK, Workers, LoopStates, RunnerStates, InCycle, Counting, Reporting, history, daemon, events
<1>8. ASSUME NEW w \in Workers, NEW at, NEW to \in Reporting, ReadNumber(w, at, to) PROVE TypeOK'
    <2>1. number' \in [Workers -> Nat]
        BY <1>8 DEF ReadNumber, TypeOK
    <2> QED
        BY <1>8, <2>1, MovedType
        DEF ReadNumber, TypeOK, Workers, LoopStates, RunnerStates, InCycle, history, daemon, events, tally
<1>9. ASSUME NEW w \in Workers, AppendEvent(w) PROVE TypeOK'
    <2>1. trail' \in Seq(Nat \X Nat)
        BY <1>9 DEF AppendEvent, TypeOK
    <2> QED
        BY <1>9, <2>1, MovedType
        DEF AppendEvent, TypeOK, Workers, LoopStates, RunnerStates, InCycle, Reporting, history, daemon, tally
<1>10. ASSUME NEW w \in Workers, Emit(w) PROVE TypeOK'
    <2>1. emitted' \subseteq Nat \X Nat /\ cycle' \in [Workers -> Nat] /\ number' \in [Workers -> Nat]
        BY <1>10 DEF Emit, Finish, TypeOK
    <2> QED
        BY <1>10, <2>1, MovedType
        DEF Emit, Finish, TypeOK, Workers, LoopStates, RunnerStates, InCycle, history, daemon, tally
<1>11. ASSUME NEW w \in Workers, Report(w) PROVE TypeOK'
    BY <1>6, <1>8, <1>9, <1>10, <1>11 DEF Report, Reporting
<1>12. CASE UNCHANGED vars
    BY <1>12 DEF vars, TypeOK
<1> QED
    BY <1>1, <1>2, <1>3, <1>4, <1>5, <1>6, <1>7, <1>11, <1>12 DEF Next, Work

-----------------------------------------------------------------------------
(***************************************************************************)
(* One loop.  While no stop gave up and none overlapped, only the newest   *)
(* loop is alive, what is not running has none, one caller at most is      *)
(* stopping a daemon that still counts as running, and whoever is about to *)
(* clear running has seen the thread end.                                  *)
(***************************************************************************)
Orderly ==
    ~late /\ ~overlap =>
        /\ \A l \in Loops : Alive(l) => l = thread /\ running
        /\ \A s \in Stoppers, u \in Stopping : s \in Stopping => s = u
        /\ Stopping # {} => running
        /\ \A s \in Stoppers : pc[s] = "clear" => \A l \in Loops : ~Alive(l)

LEMMA OrderlyIsOneLoop == ASSUME TypeOK, Orderly PROVE OneLoop
<1> SUFFICES ASSUME ~late, ~overlap
             PROVE  Cardinality(Live) <= 1 /\ (~running => Live = {})
    BY DEF OneLoop
<1>1. Live \subseteq {thread} /\ (~running => Live = {})
    BY DEF Orderly, Live
<1>2. IsFiniteSet({thread}) /\ Cardinality({thread}) = 1
    BY FS_Singleton
<1>3. Cardinality(Live) <= 1
    BY <1>1, <1>2, FS_Subset
<1> QED
    BY <1>1, <1>3

(* A step that leaves stoppers alone and brings no loop to life. *)
LEMMA WorkIsOrderly ==
    ASSUME Parameters, TypeOK, Orderly, UNCHANGED <<running, thread, late, overlap>>,
           \A s \in Stoppers : pc'[s] = pc[s], \A l \in Loops : Alive(l)' => Alive(l)
    PROVE  Orderly'
    BY DEF Orderly, Stopping

LEMMA OrderlyStep == ASSUME Parameters PROVE TypeOK /\ Orderly /\ [Next]_vars => Orderly'
<1> SUFFICES ASSUME TypeOK, Orderly, [Next]_vars PROVE Orderly'
    OBVIOUS
<1>0. /\ \A s \in Stoppers : s \notin Loops /\ s \notin Runners
      /\ \A w \in Workers : w \notin Stoppers
    BY DEF Parameters, Workers
<1>1. ASSUME NEW s \in Stoppers, Start(s) PROVE Orderly'
    <2>1. /\ ~running /\ running' /\ thread' = thread + 1 /\ thread' \in Loops
          /\ UNCHANGED <<late, overlap>>
          /\ Move(thread', "check")
        BY <1>1 DEF Start, StartsAnew, history, TypeOK, Loops, Parameters
    <2>2. \A p \in (Workers \cup Stoppers) \ {thread'} : pc'[p] = pc[p]
        BY <2>1, Moved DEF Workers
    <2>3. \A u \in Stoppers : pc'[u] = pc[u]
        BY <1>0, <2>1, <2>2
    <2>4. \A l \in Loops \ {thread'} : pc'[l] = pc[l]
        BY <2>2 DEF Workers
    <2>5. SUFFICES ASSUME ~late, ~overlap PROVE Orderly'
        BY <2>1 DEF Orderly
    <2>6. Stopping = {} /\ \A l \in Loops : ~Alive(l)
        BY <2>1, <2>5 DEF Orderly
    <2>7. Stopping' = {}
        BY <2>3, <2>6 DEF Stopping
    <2>8. \A l \in Loops : Alive(l)' => l = thread'
        BY <2>4, <2>6 DEF Alive
    <2> QED
        BY <2>1, <2>7, <2>8 DEF Orderly, Stopping
<1>2. ASSUME NEW s \in Stoppers, Stop(s) \/ Join(s) \/ Clear(s) PROVE Orderly'
    <2>1. \A u \in Stoppers \ {s} : pc'[u] = pc[u]
        BY <1>2, Moved DEF Stop, Join, Clear
    <2>2. \A l \in Loops : pc'[l] = pc[l]
        BY <1>0, <1>2, Moved DEF Stop, Join, Clear, Workers
    <2>3. \A l \in Loops : Alive(l)' = Alive(l)
        BY <2>2 DEF Alive
    <2>4. UNCHANGED thread
        BY <1>2 DEF Stop, Join, Clear, daemon
    <2>5. CASE Stop(s)
        <3>1. /\ running /\ UNCHANGED <<running, late>> /\ pc'[s] = "join"
              /\ overlap' = (overlap \/ Stopping # {})
            BY <2>5, Moved DEF Stop
        <3>2. ~overlap' => Stopping' = {s}
            BY <2>1, <3>1 DEF Stopping
        <3> QED
            BY <2>1, <2>3, <2>4, <3>1, <3>2 DEF Orderly, Stopping
    <2>6. CASE Join(s)
        <3>1. /\ UNCHANGED <<running, overlap>> /\ pc[s] = "join" /\ pc'[s] = "clear"
              /\ ~late' => ~late /\ ~Alive(thread)
            BY <2>6, Moved DEF Join, daemon, TypeOK
        <3>2. Stopping' = Stopping
            BY <2>1, <3>1 DEF Stopping
        <3> QED
            BY <2>1, <2>3, <2>4, <3>1, <3>2 DEF Orderly
    <2>7. CASE Clear(s)
        <3>1. /\ UNCHANGED <<late, overlap>> /\ pc[s] = "clear" /\ pc'[s] = "idle"
            BY <2>7, Moved DEF Clear, history
        <3>2. ~late /\ ~overlap => Stopping' = {} /\ \A l \in Loops : ~Alive(l)'
            BY <2>1, <2>3, <3>1 DEF Orderly, Stopping
        <3> QED
            BY <3>1, <3>2 DEF Orderly, Stopping
    <2> QED
        BY <1>2, <2>5, <2>6, <2>7
<1>3. ASSUME NEW l \in Loops, Check(l) \/ Wake(l) PROVE Orderly'
    <2>1. Alive(l) /\ UNCHANGED <<running, thread, late, overlap>>
        BY <1>3 DEF Check, Wake, Alive, daemon, history
    <2>2. \A p \in (Workers \cup Stoppers) \ {l} : pc'[p] = pc[p]
        BY <1>3, Moved DEF Check, Wake, Workers
    <2>3. \A k \in Loops : Alive(k)' => Alive(k)
        BY <2>1, <2>2 DEF Alive, Workers
    <2> QED
        BY <1>0, <2>1, <2>2, <2>3, WorkIsOrderly DEF Workers
<1>4. ASSUME NEW r \in Runners, RunOnceNow(r) PROVE Orderly'
    <2>1. UNCHANGED <<running, thread, late, overlap>>
        BY <1>4 DEF RunOnceNow, daemon, history
    <2>2. \A p \in (Workers \cup Stoppers) \ {r} : pc'[p] = pc[p]
        BY <1>4, Moved DEF RunOnceNow, Workers
    <2>3. r \notin Loops /\ r \notin Stoppers
        BY DEF Parameters
    <2>4. \A k \in Loops : Alive(k)' => Alive(k)
        BY <2>2, <2>3 DEF Alive, Workers
    <2> QED
        BY <2>1, <2>2, <2>3, <2>4, WorkIsOrderly
<1>5. ASSUME NEW w \in Workers, Work(w) PROVE Orderly'
    <2>1. UNCHANGED <<running, thread, late, overlap>> /\ pc[w] \in InCycle
        BY <1>5 DEF Work, Begin, ProviderFails, Collect, Record, Report, ReadNumber, AppendEvent, AppendFails, Emit, daemon, history,
               InCycle, Counting, Reporting
    <2>2. \A p \in (Workers \cup Stoppers) \ {w} : pc'[p] = pc[p]
        BY <1>5, Moved DEF Work, Begin, ProviderFails, Collect, Record, Report, ReadNumber, AppendEvent,
                          AppendFails, Emit, Finish
    <2>3. \A k \in Loops : Alive(k)' => Alive(k)
        BY <2>1, <2>2 DEF Alive, Workers, InCycle, Counting, Reporting
    <2> QED
        BY <1>0, <2>1, <2>2, <2>3, WorkIsOrderly
<1>6. CASE UNCHANGED vars
    BY <1>6 DEF vars, Orderly, Stopping, Alive
<1> QED
    BY <1>1, <1>2, <1>3, <1>4, <1>5, <1>6 DEF Next

(***************************************************************************)
(* While every stop waited for its thread and none overlapped another, one *)
(* loop at most collects, and a daemon that says it is stopped is.         *)
(***************************************************************************)
THEOREM AtMostOneLoop == ASSUME Parameters PROVE Spec => []OneLoop
<1>1. Init => TypeOK /\ Orderly
    <2>1. Init => \A l \in Loops : ~Alive(l)
        BY DEF Init, Alive, Workers
    <2>2. Init => Stopping = {}
        BY DEF Parameters, Init, Stopping
    <2> QED
        BY <2>1, <2>2, Typed DEF Orderly, Stopping
<1>2. TypeOK /\ Orderly /\ [Next]_vars => (TypeOK /\ Orderly)'
    BY TypeStep, OrderlyStep
<1>3. TypeOK /\ Orderly => OneLoop
    BY OrderlyIsOneLoop
<1> QED
    BY <1>1, <1>2, <1>3, PTL DEF Spec

(* Loops begin one after the other. *)
InTurn == \A l \in Loops : l > thread => pc[l] = "new"

LEMMA InTurnStep == ASSUME Parameters PROVE TypeOK /\ InTurn /\ [Next]_vars => InTurn'
<1> SUFFICES ASSUME TypeOK, InTurn, [Next]_vars, NEW l \in Loops, l > thread'
             PROVE  pc'[l] = "new"
    BY DEF InTurn
<1>1. thread' >= thread /\ thread \in Nat /\ thread' \in Nat /\ l \in Int
    <2>1. thread' = thread \/ thread' = thread + 1
        BY DEF Next, vars, Start, Stop, Join, Clear, Check, Wake, RunOnceNow, Work, Begin, ProviderFails,
               Collect, Record, Report, ReadNumber, AppendEvent, AppendFails, Emit, daemon
    <2> QED
        BY <2>1 DEF TypeOK, Loops, Parameters
<1>2. pc[l] = "new"
    BY <1>1 DEF InTurn
<1>3. ASSUME NEW p \in Workers \cup Stoppers, NEW to, Move(p, to), p # l
      PROVE  pc'[l] = "new"
    BY <1>2, <1>3, Moved DEF Workers
<1>4. ASSUME NEW s \in Stoppers, Start(s) PROVE pc'[l] = "new"
    <2>1. thread + 1 \in Workers /\ thread + 1 # l /\ Move(thread + 1, "check")
        BY <1>1, <1>4 DEF Start, Workers, Loops, TypeOK, Parameters
    <2> QED
        BY <1>3, <2>1
<1>5. ASSUME NEW s \in Stoppers, Stop(s) \/ Join(s) \/ Clear(s) PROVE pc'[l] = "new"
    BY <1>3, <1>5 DEF Stop, Join, Clear, Parameters
<1>6. ASSUME NEW k \in Loops, Check(k) \/ Wake(k) PROVE pc'[l] = "new"
    BY <1>2, <1>3, <1>6 DEF Check, Wake, Workers
<1>7. ASSUME NEW r \in Runners, RunOnceNow(r) PROVE pc'[l] = "new"
    BY <1>3, <1>7 DEF RunOnceNow, Parameters, Workers
<1>8. ASSUME NEW w \in Workers, Work(w) PROVE pc'[l] = "new"
    BY <1>2, <1>3, <1>8 DEF Work, Begin, ProviderFails, Collect, Record, Report, ReadNumber, AppendEvent,
                          AppendFails, Emit, Finish
<1>9. CASE UNCHANGED vars
    BY <1>2, <1>9 DEF vars
<1> QED
    BY <1>4, <1>5, <1>6, <1>7, <1>8, <1>9 DEF Next

-----------------------------------------------------------------------------
(***************************************************************************)
(* Run numbers.  Whoever is about to report has been counted, so whatever  *)
(* it reads covers its own cycle; and who is about to notify has its audit *)
(* event in the trail.  While no cycles overlapped, one at most is under   *)
(* way: the last that began and the last that was counted, later than all  *)
(* that were reported before.                                              *)
(***************************************************************************)
UnderWay == InCycle \ {"cycle"}
Busy == {w \in Workers : pc[w] \in UnderWay}
Written == {"notify", "emit"}

AtReport(w) ==
    /\ pc[w] \in Reporting => IsOfRun(<<cycle[w], totalRuns>>)
    /\ pc[w] \in {"append", "emit"} => IsOfRun(<<cycle[w], number[w]>>)
    /\ pc[w] = "notify" => Follows(<<cycle[w], totalRuns>>)
    /\ pc[w] = "emit" => Follows(<<cycle[w], number[w]>>)

Counts ==
    /\ totalRuns = Len(counted)
    /\ \A i \in DOMAIN trail : IsOfRun(trail[i])
    /\ \A e \in emitted : IsOfRun(e) /\ Follows(e)
    /\ \A w \in Workers : AtReport(w)

Ascending == \A i, j \in DOMAIN trail : i < j => trail[i][1] < trail[j][1] /\ trail[i][2] < trail[j][2]
Own == \A i \in DOMAIN trail :
           trail[i][1] <= cycles /\ trail[i][2] <= totalRuns /\ counted[trail[i][2]] = trail[i][1]

(* The one cycle under way. *)
Last(w) ==
    /\ cycle[w] = cycles
    /\ pc[w] \in Reporting => counted[totalRuns] = cycles
    /\ pc[w] \in {"append", "emit"} => number[w] = totalRuns
    /\ pc[w] \notin Written => \A i \in DOMAIN trail : trail[i][1] < cycles
    /\ pc[w] \in {"report", "append"} => \A i \in DOMAIN trail : trail[i][2] < totalRuns
    /\ pc[w] \in Written => \E i \in DOMAIN trail : trail[i] = <<cycles, totalRuns>>

InOrder ==
    ~mixed =>
        /\ \A v, w \in Busy : v = w
        /\ \A w \in Busy : Last(w)
        /\ Own /\ Ascending
        /\ \A e \in emitted : \E i \in DOMAIN trail : trail[i] = e

LEMMA States ==
    /\ UnderWay = {"collect", "record"} \cup Reporting
    /\ Reporting = {"report", "append", "notify", "emit"}
    BY DEF UnderWay, InCycle, Counting, Reporting

(* What was counted stays counted, and what was written stays written. *)
LEMMA StaysOfRun ==
    ASSUME TypeOK, NEW c \in Nat, counted' = Append(counted, c) \/ counted' = counted, NEW e, IsOfRun(e)
    PROVE  IsOfRun(e)'
<1>1. \A k \in DOMAIN counted : k \in DOMAIN counted' /\ counted'[k] = counted[k]
    <2>1. counted \in Seq(Nat)
        BY DEF TypeOK
    <2>2. CASE counted' = Append(counted, c)
        BY <2>1, <2>2
    <2>3. CASE counted' = counted
        BY <2>3
    <2> QED
        BY <2>2, <2>3
<1>2. e[2] \in Nat /\ \A k \in 1..e[2] : k \in DOMAIN counted
    BY DEF IsOfRun, TypeOK
<1> QED
    BY <1>1, <1>2 DEF IsOfRun

LEMMA StaysWritten ==
    ASSUME TypeOK, NEW x \in Nat \X Nat, trail' = Append(trail, x) \/ trail' = trail, NEW e, Follows(e)
    PROVE  Follows(e)'
<1>1. \A k \in DOMAIN trail : k \in DOMAIN trail' /\ trail'[k] = trail[k]
    <2>1. trail \in Seq(Nat \X Nat)
        BY DEF TypeOK
    <2>2. CASE trail' = Append(trail, x)
        BY <2>1, <2>2
    <2>3. CASE trail' = trail
        BY <2>3
    <2> QED
        BY <2>2, <2>3
<1> QED
    BY <1>1 DEF Follows

(* A step of which the numbers do not tell, but for the cycle of one worker. *)
LEMMA SameCounts ==
    ASSUME Counts, UNCHANGED <<totalRuns, counted, trail, emitted>>, NEW w,
           \A v \in Workers \ {w} : pc'[v] = pc[v] /\ cycle'[v] = cycle[v] /\ number'[v] = number[v],
           w \in Workers => pc'[w] \notin Reporting
    PROVE  Counts'
<1>1. \A e : IsOfRun(e)' = IsOfRun(e) /\ Follows(e)' = Follows(e)
    BY DEF IsOfRun, Follows
<1>2. \A v \in Workers : AtReport(v)'
    BY <1>1 DEF Counts, AtReport, Reporting
<1> QED
    BY <1>1, <1>2 DEF Counts

(* A move between two states that are not of a cycle under way. *)
LEMMA OtherMove ==
    ASSUME TypeOK, Counts, InOrder, UNCHANGED <<totalRuns, counted, cycle, number, cycles, trail, emitted, mixed>>,
           NEW p \in Workers \cup Stoppers, NEW to, Move(p, to),
           p \in Workers => pc[p] \notin UnderWay /\ to \notin UnderWay
    PROVE  Counts' /\ InOrder'
<1>1. \A w \in Workers \ {p} : pc'[w] = pc[w]
    BY Moved
<1>2. p \in Workers => pc'[p] \notin UnderWay
    BY Moved
<1>3. Busy' = Busy /\ p \notin Busy
    BY <1>1, <1>2 DEF Busy
<1>4. \A w \in Busy : pc'[w] = pc[w] /\ cycle'[w] = cycle[w] /\ number'[w] = number[w]
    BY <1>1, <1>3 DEF Busy
<1>5. Counts'
    BY <1>1, <1>2, SameCounts, States
<1>6. \A w \in Busy : Last(w)' = Last(w)
    BY <1>4 DEF Last
<1>7. InOrder'
    BY <1>3, <1>6 DEF InOrder, Own, Ascending
<1> QED
    BY <1>5, <1>7

LEMMA BeginNumbers ==
    ASSUME Parameters, TypeOK, Counts, InOrder, NEW w \in Workers, Begin(w)
    PROVE  Counts' /\ InOrder'
<1>1. /\ pc[w] = "cycle" /\ pc'[w] = "collect"
      /\ \A v \in Workers \ {w} : pc'[v] = pc[v] /\ cycle'[v] = cycle[v] /\ number'[v] = number[v]
      /\ cycles' = cycles + 1 /\ cycle'[w] = cycles + 1
      /\ mixed' = (mixed \/ \E v \in Workers \ {w} : pc[v] \in UnderWay)
      /\ UNCHANGED <<totalRuns, counted, trail, emitted>>
    BY Moved DEF Begin, TypeOK, UnderWay, events, tally
<1>2. Counts'
    BY <1>1, SameCounts, States
<1>3. InOrder'
    <2> SUFFICES ASSUME ~mixed' PROVE InOrder'
        BY DEF InOrder
    <2>1. ~mixed /\ Busy' = {w}
        BY <1>1, States DEF Busy
    <2>2. \A i \in DOMAIN trail : trail[i][1] \in Nat /\ trail[i][1] < cycles'
        BY <1>1, <2>1 DEF InOrder, Own, TypeOK
    <2>3. Last(w)'
        BY <1>1, <2>2 DEF Last, Reporting, Written
    <2>4. Own'
        BY <1>1, <2>1, <2>2 DEF InOrder, Own, TypeOK
    <2> QED
        BY <1>1, <2>1, <2>3, <2>4 DEF InOrder, Ascending
<1> QED
    BY <1>2, <1>3

(* A cycle ends, at the provider or at the log, and leaves nothing. *)
LEMMA LeaveNumbers ==
    ASSUME Parameters, TypeOK, Counts, InOrder, NEW w \in Workers, Finish(w), pc[w] \in UnderWay,
           UNCHANGED <<totalRuns, counted, cycles, trail, emitted, mixed>>
    PROVE  Counts' /\ InOrder'
<1>1. /\ pc'[w] \notin UnderWay
      /\ \A v \in Workers \ {w} : pc'[v] = pc[v] /\ cycle'[v] = cycle[v] /\ number'[v] = number[v]
    BY Moved, States DEF Finish, TypeOK, Reporting
<1>2. Counts'
    BY <1>1, SameCounts, States
<1>3. ~mixed => Busy' = {}
    BY <1>1 DEF InOrder, Busy
<1>4. InOrder'
    BY <1>3 DEF InOrder, Own, Ascending
<1> QED
    BY <1>2, <1>4

LEMMA CollectNumbers ==
    ASSUME Parameters, TypeOK, Counts, InOrder, NEW w \in Workers, Collect(w)
    PROVE  Counts' /\ InOrder'
<1>1. /\ pc[w] = "collect" /\ pc'[w] = "record"
      /\ \A v \in Workers \ {w} : pc'[v] = pc[v]
      /\ UNCHANGED <<totalRuns, counted, cycle, number, cycles, trail, emitted, mixed>>
    BY Moved DEF Collect, events, tally
<1>2. Counts'
    BY <1>1, SameCounts, States
<1>3. Busy' = Busy
    BY <1>1, States DEF Busy
<1>4. \A v \in Busy : Last(v) => Last(v)'
    BY <1>1 DEF Last, Reporting, Written, Busy
<1>5. InOrder'
    BY <1>1, <1>3, <1>4 DEF InOrder, Own, Ascending
<1> QED
    BY <1>2, <1>5

LEMMA RecordNumbers ==
    ASSUME Parameters, TypeOK, Counts, InOrder, NEW w \in Workers, Record(w)
    PROVE  Counts' /\ InOrder'
<1>1. /\ pc[w] = "record" /\ pc'[w] = "report" /\ totalRuns' = totalRuns + 1
      /\ counted' = Append(counted, cycle[w])
      /\ \A v \in Workers \ {w} : pc'[v] = pc[v]
      /\ UNCHANGED <<cycle, number, cycles, trail, emitted, mixed>>
    BY Moved DEF Record, Counted, events
<1>2. /\ totalRuns \in Nat /\ totalRuns' = Len(counted') /\ DOMAIN counted' = 1..totalRuns'
      /\ \A k \in 1..totalRuns : counted'[k] = counted[k]
      /\ counted'[totalRuns'] = cycle[w]
    BY <1>1 DEF Counts, TypeOK
<1>3. ASSUME NEW e, IsOfRun(e) PROVE IsOfRun(e)' /\ e[2] <= totalRuns /\ e[2] \in Nat
    <2>1. IsOfRun(e)'
        BY <1>1, <1>3, StaysOfRun DEF TypeOK
    <2> QED
        BY <1>3, <2>1 DEF IsOfRun, Counts, TypeOK
<1>4. ASSUME NEW c, IsOfRun(<<c, totalRuns>>) PROVE IsOfRun(<<c, totalRuns>>)'
    <2>1. PICK k \in 1..totalRuns : counted[k] = c
        BY <1>4 DEF IsOfRun
    <2>2. k \in 1..totalRuns' /\ counted'[k] = c
        BY <1>1, <1>2, <2>1
    <2> QED
        BY <1>2, <2>2 DEF IsOfRun
<1>5. IsOfRun(<<cycle[w], totalRuns>>)'
    BY <1>2, <1>1 DEF IsOfRun
<1>6. ASSUME NEW e PROVE Follows(e)' = Follows(e)
    BY <1>1 DEF Follows
<1>7. ASSUME NEW c, Follows(<<c, totalRuns>>) PROVE Follows(<<c, totalRuns>>)'
    <2>1. PICK i \in DOMAIN trail : trail[i][1] = c /\ trail[i][2] <= totalRuns
        BY <1>7 DEF Follows
    <2>2. trail[i][2] \in Nat
        BY DEF TypeOK
    <2>3. trail[i][2] <= totalRuns'
        BY <1>1, <1>2, <2>1, <2>2
    <2> QED
        BY <1>1, <2>1, <2>3 DEF Follows
<1>8. ASSUME NEW v \in Workers PROVE AtReport(v)'
    <2>1. CASE v = w
        BY <1>1, <1>5, <2>1 DEF AtReport
    <2>2. CASE v # w
        <3>1. pc'[v] = pc[v] /\ cycle'[v] = cycle[v] /\ number'[v] = number[v] /\ AtReport(v)
            BY <1>1, <2>2 DEF Counts
        <3> QED
            BY <3>1, <1>3, <1>4, <1>6, <1>7 DEF AtReport
    <2> QED
        BY <2>1, <2>2
<1>9. Counts'
    BY <1>1, <1>2, <1>3, <1>6, <1>8 DEF Counts
<1>10. InOrder'
    <2> SUFFICES ASSUME ~mixed PROVE InOrder'
        BY <1>1 DEF InOrder
    <2>1. Busy' = Busy /\ Busy = {w}
        BY <1>1, States DEF InOrder, Busy
    <2>2. Last(w) /\ Own /\ Ascending
        BY <2>1 DEF InOrder
    <2>3. \A i \in DOMAIN trail : trail[i][2] \in 1..totalRuns
        BY <1>3 DEF Counts, IsOfRun, TypeOK
    <2>4. Own' /\ Ascending'
        BY <1>1, <1>2, <2>2, <2>3 DEF Own, Ascending
    <2>5. Last(w)'
        BY <1>1, <1>2, <2>2, <2>3 DEF Last, Written
    <2> QED
        BY <1>1, <2>1, <2>4, <2>5 DEF InOrder
<1> QED
    BY <1>9, <1>10

LEMMA ReadNumbers ==
    ASSUME Parameters, TypeOK, Counts, InOrder, NEW w \in Workers,
           ReadNumber(w, "report", "append") \/ ReadNumber(w, "notify", "emit")
    PROVE  Counts' /\ InOrder'
<1>1. /\ \/ pc[w] = "report" /\ pc'[w] = "append"
         \/ pc[w] = "notify" /\ pc'[w] = "emit"
      /\ number'[w] = totalRuns
      /\ \A v \in Workers \ {w} : pc'[v] = pc[v] /\ number'[v] = number[v]
      /\ UNCHANGED <<totalRuns, counted, cycle, cycles, trail, emitted, mixed>>
    BY Moved DEF ReadNumber, TypeOK, events, tally
<1>2. \A e : IsOfRun(e)' = IsOfRun(e) /\ Follows(e)' = Follows(e)
    BY <1>1 DEF IsOfRun, Follows
<1>3. \A v \in Workers : AtReport(v)'
    BY <1>1, <1>2 DEF Counts, AtReport, Reporting
<1>4. Counts'
    BY <1>1, <1>2, <1>3 DEF Counts
<1>5. InOrder'
    <2> SUFFICES ASSUME ~mixed PROVE InOrder'
        BY <1>1 DEF InOrder
    <2>1. Busy' = Busy /\ Busy = {w}
        BY <1>1, States DEF InOrder, Busy
    <2>2. Last(w)'
        BY <1>1, <2>1 DEF InOrder, Last, Reporting, Written
    <2> QED
        BY <1>1, <2>1, <2>2 DEF InOrder, Own, Ascending
<1> QED
    BY <1>4, <1>5

LEMMA AppendNumbers ==
    ASSUME Parameters, TypeOK, Counts, InOrder, NEW w \in Workers, AppendEvent(w)
    PROVE  Counts' /\ InOrder'
<1> DEFINE e == <<cycle[w], number[w]>>
           m == Len(trail)
<1>1. /\ pc[w] = "append" /\ pc'[w] = "notify" /\ trail' = Append(trail, e)
      /\ \A v \in Workers \ {w} : pc'[v] = pc[v]
      /\ UNCHANGED <<totalRuns, counted, cycle, number, cycles, emitted, mixed>>
    BY Moved DEF AppendEvent, tally
<1>2. IsOfRun(e)
    BY <1>1 DEF Counts, AtReport
<1>3. /\ m \in Nat /\ DOMAIN trail = 1..m /\ DOMAIN trail' = 1..(m + 1)
      /\ \A i \in 1..m : trail'[i] = trail[i]
      /\ trail'[m + 1] = e /\ e[1] = cycle[w] /\ e[2] = number[w]
    BY <1>1 DEF TypeOK
<1>4. \A x : IsOfRun(x)' = IsOfRun(x)
    BY <1>1 DEF IsOfRun
<1>0. e \in Nat \X Nat
    BY DEF TypeOK
<1>5. ASSUME NEW x, Follows(x) PROVE Follows(x)'
    BY <1>0, <1>1, <1>5, StaysWritten
<1>6. totalRuns \in Nat /\ number[w] \in Nat /\ number[w] <= totalRuns
    BY <1>2, <1>3 DEF IsOfRun, Counts, TypeOK
<1>7. Follows(<<cycle[w], totalRuns>>)'
    <2>1. m + 1 \in DOMAIN trail' /\ trail'[m + 1][1] = cycle'[w] /\ trail'[m + 1][2] <= totalRuns'
        BY <1>1, <1>3, <1>6
    <2> QED
        BY <2>1 DEF Follows
<1> HIDE DEF e
<1>8. ASSUME NEW v \in Workers PROVE AtReport(v)'
    <2>1. AtReport(v)
        BY DEF Counts
    <2>2. CASE v = w
        BY <1>1, <1>4, <1>7, <2>1, <2>2 DEF AtReport, Reporting
    <2>3. CASE v # w
        BY <1>1, <1>4, <1>5, <2>1, <2>3 DEF AtReport
    <2> QED
        BY <2>2, <2>3
<1>9. Counts'
    <2>1. \A i \in DOMAIN trail' : IsOfRun(trail'[i])
        BY <1>2, <1>3 DEF Counts
    <2> QED
        BY <1>1, <1>4, <1>5, <1>8, <2>1 DEF Counts
<1>10. InOrder'
    <2> SUFFICES ASSUME ~mixed PROVE InOrder'
        BY <1>1 DEF InOrder
    <2>1. Busy' = Busy /\ Busy = {w}
        BY <1>1, States DEF InOrder, Busy
    <2>2. Last(w) /\ Own /\ Ascending
        BY <2>1 DEF InOrder
    <2>3. /\ e = <<cycles, totalRuns>> /\ e[1] = cycles /\ e[2] = totalRuns /\ counted[totalRuns] = cycles
          /\ \A i \in 1..m : trail[i][1] < cycles /\ trail[i][2] < totalRuns
        BY <1>1, <1>3, <2>2 DEF Last, Reporting, Written, e
    <2>4. Own'
        BY <1>1, <1>3, <1>6, <2>2, <2>3 DEF Own, TypeOK
    <2>5. Ascending'
        BY <1>3, <2>2, <2>3 DEF Ascending
    <2>6. Last(w)'
        BY <1>1, <1>3, <2>2, <2>3 DEF Last, Reporting, Written
    <2>7. \A x \in emitted : \E i \in DOMAIN trail' : trail'[i] = x
        BY <1>3 DEF InOrder
    <2> QED
        BY <1>1, <2>1, <2>4, <2>5, <2>6, <2>7 DEF InOrder
<1> QED
    BY <1>9, <1>10

LEMMA EmitNumbers ==
    ASSUME Parameters, TypeOK, Counts, InOrder, NEW w \in Workers, Emit(w)
    PROVE  Counts' /\ InOrder'
<1> DEFINE e == <<cycle[w], number[w]>>
<1>1. /\ pc[w] = "emit" /\ pc'[w] \notin UnderWay /\ emitted' = emitted \cup {e}
      /\ \A v \in Workers \ {w} : pc'[v] = pc[v] /\ cycle'[v] = cycle[v] /\ number'[v] = number[v]
      /\ UNCHANGED <<totalRuns, counted, cycles, trail, mixed>>
    BY Moved, States DEF Emit, Finish, TypeOK, tally, Reporting
<1>2. IsOfRun(e) /\ Follows(e)
    BY <1>1 DEF Counts, AtReport
<1>3. ~mixed => \E i \in DOMAIN trail : trail[i] = e
    <2> SUFFICES ASSUME ~mixed PROVE \E i \in DOMAIN trail : trail[i] = e
        OBVIOUS
    <2>1. w \in Busy
        BY <1>1, States DEF Busy
    <2>2. Last(w)
        BY <2>1 DEF InOrder
    <2> QED
        BY <1>1, <2>2 DEF Last, Written
<1> HIDE DEF e
<1>4. \A x : IsOfRun(x)' = IsOfRun(x) /\ Follows(x)' = Follows(x)
    BY <1>1 DEF IsOfRun, Follows
<1>5. \A v \in Workers : AtReport(v)'
    BY <1>1, <1>4, States DEF Counts, AtReport
<1>6. Counts'
    BY <1>1, <1>2, <1>4, <1>5 DEF Counts
<1>7. ~mixed => Busy' = {}
    BY <1>1, States DEF InOrder, Busy
<1>8. InOrder'
    BY <1>1, <1>3, <1>7 DEF InOrder, Own, Ascending
<1> QED
    BY <1>6, <1>8

LEMMA NumbersStep ==
    ASSUME Parameters
    PROVE  TypeOK /\ InTurn /\ Counts /\ InOrder /\ [Next]_vars => (Counts /\ InOrder)'
<1> SUFFICES ASSUME TypeOK, InTurn, Counts, InOrder, [Next]_vars PROVE (Counts /\ InOrder)'
    OBVIOUS
<1>1. ASSUME NEW s \in Stoppers, Start(s) PROVE (Counts /\ InOrder)'
    <2>1. thread + 1 \in Loops /\ pc[thread + 1] = "new"
        BY <1>1 DEF Start, Loops, TypeOK, InTurn, Parameters
    <2> QED
        BY <1>1, <2>1, OtherMove, States DEF Start, Workers, Reporting, events, tally
<1>2. ASSUME NEW s \in Stoppers, Stop(s) \/ Join(s) \/ Clear(s) PROVE (Counts /\ InOrder)'
    BY <1>2, OtherMove DEF Stop, Join, Clear, Parameters, Workers, events, tally
<1>3. ASSUME NEW l \in Loops, Check(l) \/ Wake(l) PROVE (Counts /\ InOrder)'
    BY <1>3, OtherMove, States DEF Check, Wake, Workers, Reporting, events, tally
<1>4. ASSUME NEW r \in Runners, RunOnceNow(r) PROVE (Counts /\ InOrder)'
    BY <1>4, OtherMove, States DEF RunOnceNow, Workers, Reporting, events, tally
<1>5. ASSUME NEW w \in Workers, ProviderFails(w) \/ AppendFails(w) PROVE (Counts /\ InOrder)'
    BY <1>5, LeaveNumbers, States DEF ProviderFails, AppendFails, Reporting, events, tally
<1>6. ASSUME NEW w \in Workers, Work(w) PROVE (Counts /\ InOrder)'
    BY <1>5, <1>6, BeginNumbers, CollectNumbers, RecordNumbers, ReadNumbers, AppendNumbers, EmitNumbers
    DEF Work, Report
<1>7. CASE UNCHANGED vars
    <2>1. \A e : IsOfRun(e)' = IsOfRun(e) /\ Follows(e)' = Follows(e)
        BY <1>7 DEF vars, IsOfRun, Follows
    <2>2. \A w \in Workers : AtReport(w)' = AtReport(w) /\ Last(w)' = Last(w)
        BY <1>7, <2>1 DEF vars, AtReport, Last
    <2> QED
        BY <1>7, <2>1, <2>2 DEF vars, Counts, InOrder, Busy, Own, Ascending
<1> QED
    BY <1>1, <1>2, <1>3, <1>4, <1>6, <1>7 DEF Next

(***************************************************************************)
(* The run number of an event is that of a run that was counted, with its  *)
(* own cycle counted by then, and telemetry follows the audit log with no  *)
(* smaller a number; as long as no cycles overlap, an event has the number *)
(* of its own run, and events come in the order the cycles began           *)
(* (daemon.py:154-183).                                                    *)
(***************************************************************************)
THEOREM NumbersAreInOrder == ASSUME Parameters PROVE Spec => []NumbersInOrder
<1>1. Init => TypeOK /\ InTurn /\ Counts /\ InOrder
    <2> SUFFICES ASSUME Init PROVE TypeOK /\ InTurn /\ Counts /\ InOrder
        OBVIOUS
    <2>1. \A w \in Workers : pc[w] \notin UnderWay
        BY States DEF Init, Reporting
    <2>2. Busy = {} /\ \A w \in Workers : AtReport(w)
        BY <2>1, States DEF Busy, AtReport
    <2>3. /\ trail = <<>> /\ DOMAIN trail = {} /\ emitted = {} /\ totalRuns = 0
          /\ counted = <<>> /\ Len(counted) = 0
        BY DEF Init
    <2>4. Counts
        BY <2>2, <2>3 DEF Counts
    <2>5. InTurn
        BY DEF Init, InTurn, Workers
    <2> QED
        BY <2>2, <2>3, <2>4, <2>5, Typed DEF InOrder, Own, Ascending
<1>2. TypeOK /\ InTurn /\ Counts /\ InOrder /\ [Next]_vars => (TypeOK /\ InTurn /\ Counts /\ InOrder)'
    BY TypeStep, InTurnStep, NumbersStep
<1>3. Counts /\ InOrder => NumbersInOrder
    BY DEF Counts, InOrder, Own, Ascending, NumbersInOrder
<1> QED
    BY <1>1, <1>2, <1>3, PTL DEF Spec

-----------------------------------------------------------------------------
(***************************************************************************)
(* The commands.  OnRecord is SuccessIsComplete for one event; Underway is *)
(* what makes it true of the event that a run-all will put on record.      *)
(***************************************************************************)
Accounted(t, ls, n, d, c) ==
    \/ c \in There(t, d)
    \/ \E x \in ls : x.directory = Days[d] /\ x.collector = c /\ x.by > n

OnRecord(t, ls, e) ==
    e.command = "run-all" /\ e.outcome = "success" =>
        \A c \in Collectors : \E d \in e.since..e.until : Accounted(t, ls, e.by, d, c)

(* No event is of a run-all that has a number from n on. *)
Before(e, n) == e.command = "run-all" => e.by \in Nat /\ e.by < n

Underway(t, ls, r, today) ==
    /\ r = [at |-> r.at, keep |-> r.keep, ok |-> r.ok, errors |-> r.errors, since |-> r.since,
            by |-> r.by]
    /\ r.at \in Nat /\ r.since \in Nat /\ r.since <= today /\ r.by \in Nat
    /\ r.errors = {} => \A i \in 1..r.at - 1 : i \in DOMAIN Mapping =>
                            \E d \in r.since..today : Accounted(t, ls, r.by, d, Mapping[i])

Recorded ==
    /\ \E X : log \in Seq(X)
    /\ day \in Nat /\ runs \in Nat /\ run.by <= runs
    /\ Underway(tree, losses, run, day)
    /\ \A i \in DOMAIN log :
          /\ OnRecord(tree, losses, log[i]) /\ Before(log[i], runs + 1)
          /\ run.at > 0 => Before(log[i], run.by)

(***************************************************************************)
(* What becomes of the evidence keeps every account that is older than the *)
(* number by which it is done.                                             *)
(***************************************************************************)
Keeps(t, ls, u, ms, by) ==
    \A n, d, c : n \in Nat /\ n < by /\ Accounted(t, ls, n, d, c) => Accounted(u, ms, n, d, c)

LEMMA UntouchedKeeps == ASSUME Untouched PROVE \A by : Keeps(tree, losses, tree', losses', by)
    BY DEF Untouched, Keeps, Accounted, There

LEMMA PutKeeps ==
    ASSUME NEW t, NEW ls, NEW d, NEW new
    PROVE  /\ \A n, e, c : Accounted(t, ls, n, e, c) => Accounted(Put(t, d, new), ls, n, e, c)
           /\ \A n, e, c : Days[e] = d /\ c \in new => Accounted(Put(t, d, new), ls, n, e, c)
    BY DEF Accounted, There, Put

LEMMA StoredKeeps ==
    ASSUME NEW collector, Stored(collector)
    PROVE  /\ \A n, d, c : Accounted(tree, losses, n, d, c) => Accounted(tree', losses', n, d, c)
           /\ \A by : Keeps(tree, losses, tree', losses', by)
           /\ \A n : Accounted(tree', losses', n, day, collector)
    BY PutKeeps DEF Stored, Keeps, Today

LEMMA EmptiedKeeps ==
    ASSUME NEW collector, NEW by \in Nat, Emptied(collector, by)
    PROVE  Keeps(tree, losses, tree', losses', by)
<1> SUFFICES ASSUME NEW n \in Nat, n < by, NEW d, NEW c, Accounted(tree, losses, n, d, c)
             PROVE  Accounted(tree', losses', n, d, c)
    BY DEF Keeps
<1> DEFINE had == {collector} \cap (IF Today \in DOMAIN tree THEN tree[Today] ELSE {})
           lost(x) == [directory |-> Today, collector |-> x, by |-> by]
<1>1. tree' = Without(tree, Today, collector) /\ losses' = losses \cup {lost(x) : x \in had}
    BY DEF Emptied
<1>2. CASE \E x \in losses : x.directory = Days[d] /\ x.collector = c /\ x.by > n
    BY <1>1, <1>2 DEF Accounted
<1>3. CASE c \in There(tree, d) /\ ~(c = collector /\ Days[d] = Today)
    BY <1>1, <1>3 DEF Accounted, There, Without
<1>4. CASE c \in There(tree, d) /\ c = collector /\ Days[d] = Today
    <2>1. c \in had
        BY <1>4 DEF There
    <2>2. lost(c) \in losses'
        BY <1>1, <2>1
    <2>3. lost(c).directory = Days[d] /\ lost(c).collector = c /\ lost(c).by > n
        BY <1>4
    <2> QED
        BY <2>2, <2>3 DEF Accounted
<1> QED
    BY <1>2, <1>3, <1>4 DEF Accounted

LEMMA BrokenOffKeeps ==
    ASSUME NEW collector, NEW by \in Nat, BrokenOff(collector, by)
    PROVE  Keeps(tree, losses, tree', losses', by)
    BY UntouchedKeeps, StoredKeeps, EmptiedKeeps DEF BrokenOff

(* An event stays on record under what keeps the accounts. *)
LEMMA RecordStays ==
    ASSUME NEW t, NEW ls, NEW u, NEW ms, NEW by \in Nat, Keeps(t, ls, u, ms, by),
           NEW e, OnRecord(t, ls, e), Before(e, by)
    PROVE  OnRecord(u, ms, e)
    BY DEF OnRecord, Keeps, Before

LEMMA RunStays ==
    ASSUME NEW t, NEW ls, NEW u, NEW ms, NEW by \in Nat, Keeps(t, ls, u, ms, by),
           NEW r, NEW today, Underway(t, ls, r, today), r.by < by
    PROVE  Underway(u, ms, r, today)
    BY DEF Underway, Keeps

(* One more event on the log. *)
LEMMA OneMoreEvent ==
    ASSUME NEW X, log \in Seq(X), NEW e, log' = Append(log, e)
    PROVE  /\ \E Y : log' \in Seq(Y)
           /\ \A i \in DOMAIN log' : (i \in DOMAIN log /\ log'[i] = log[i]) \/ log'[i] = e
<1>1. log \in Seq(X \cup {e}) /\ e \in X \cup {e}
    OBVIOUS
<1>2. log' \in Seq(X \cup {e})
    BY <1>1
<1>3. /\ DOMAIN log' = 1..Len(log) + 1 /\ DOMAIN log = 1..Len(log) /\ Len(log) \in Nat
      /\ log'[Len(log) + 1] = e
      /\ \A i \in 1..Len(log) : log'[i] = log[i]
    BY <1>1
<1> QED
    BY <1>2, <1>3

(* No event that is not of a run-all disturbs the record. *)
Unlogged(event) == event.command # "run-all"

LEMMA LogStep ==
    ASSUME Recorded, NEW by \in Nat, Keeps(tree, losses, tree', losses', by),
           \A i \in DOMAIN log : Before(log[i], by),
           UNCHANGED log \/ \E e : Unlogged(e) /\ log' = Append(log, e)
    PROVE  /\ \E Y : log' \in Seq(Y)
           /\ \A i \in DOMAIN log' : OnRecord(tree', losses', log'[i])
           /\ \A n : (\A i \in DOMAIN log : Before(log[i], n)) => \A i \in DOMAIN log' : Before(log'[i], n)
<1>1. \A i \in DOMAIN log : OnRecord(tree', losses', log[i])
    BY RecordStays DEF Recorded
<1>2. CASE UNCHANGED log
    BY <1>1, <1>2 DEF Recorded
<1>3. CASE \E e : Unlogged(e) /\ log' = Append(log, e)
    <2>1. PICK e : Unlogged(e) /\ log' = Append(log, e)
        BY <1>3
    <2>2. OnRecord(tree', losses', e) /\ \A n : Before(e, n)
        BY <2>1 DEF Unlogged, OnRecord, Before
    <2>3. PICK X : log \in Seq(X)
        BY DEF Recorded
    <2> QED
        BY <1>1, <2>1, <2>2, <2>3, OneMoreEvent
<1> QED
    BY <1>2, <1>3

LEMMA BeforeLater ==
    ASSUME NEW e, NEW n \in Nat, NEW m \in Nat, n <= m, Before(e, n) PROVE Before(e, m)
    BY DEF Before

LEMMA RunAtWork ==
    ASSUME Recorded, Running
    PROVE  /\ run.at \in 1..Len(Mapping) /\ Len(Mapping) \in Nat /\ run.at > 0
           /\ Collector = Mapping[run.at]
<1>1. DOMAIN Mapping = 1..Len(Mapping) /\ Len(Mapping) \in Nat
    BY PostureAssumption
<1> QED
    BY <1>1 DEF Running, Collector

LEMMA OutOfOrder ==
    ASSUME Recorded, Running
    PROVE  (\A t, ls : Underway(t, ls, OnError, day)) /\ OnError.by = run.by
<1>1. PICK to : to = (IF run.keep THEN run.at + 1 ELSE Len(Mapping) + 1)
    OBVIOUS
<1>2. to \in Nat
    BY <1>1, RunAtWork
<1>3. OnError = [at |-> to, keep |-> run.keep, ok |-> run.ok,
                 errors |-> run.errors \cup {Collector}, since |-> run.since, by |-> run.by]
    <2>1. run = [at |-> run.at, keep |-> run.keep, ok |-> run.ok, errors |-> run.errors,
                 since |-> run.since, by |-> run.by]
        BY DEF Recorded, Underway
    <2>2. OnError = [run EXCEPT !.at = to, !.errors = run.errors \cup {Collector}]
        BY <1>1, <2>1 DEF OnError
    <2> QED
        BY <2>1, <2>2
<1> QED
    BY <1>2, <1>3 DEF Recorded, Underway

LEMMA IdleUnderway == ASSUME NEW t, NEW ls, NEW today \in Nat PROVE Underway(t, ls, Idle, today)
    BY DEF Underway, Idle

LEMMA RecordedInit == CommandInit => Recorded
<1> SUFFICES ASSUME CommandInit PROVE Recorded
    OBVIOUS
<1>1. << >> \in Seq({}) /\ DOMAIN << >> = {}
    OBVIOUS
<1>2. Underway(tree, losses, run, day) /\ run.by = 0
    BY IdleUnderway DEF CommandInit, Idle
<1> QED
    BY <1>1, <1>2 DEF CommandInit, Recorded

LEMMA RecordedStep == Recorded /\ [Command]_commands => Recorded'
<1> SUFFICES ASSUME Recorded, [Command]_commands PROVE Recorded'
    OBVIOUS
<1>0. /\ runs \in Nat /\ runs + 1 \in Nat /\ run.by \in Nat /\ run.by <= runs /\ day \in Nat
      /\ \A i \in DOMAIN log : Before(log[i], runs + 1) /\ (run.at > 0 => Before(log[i], run.by))
    BY DEF Recorded, Underway
<1>1. CASE Midnight
    <2>1. /\ day' \in Nat /\ \A d : d \in run.since..day => d \in run.since..day'
          /\ UNCHANGED <<tree, log, run, runs, losses>>
        BY <1>0, <1>1 DEF Midnight, Recorded, Underway
    <2>2. Underway(tree, losses, run, day')
        BY <1>0, <1>1, <2>1 DEF Midnight, Recorded, Underway
    <2> QED
        BY <2>1, <2>2 DEF Recorded
<1>2. CASE StartRunAll
    <2>1. /\ \E k : run' = [at |-> 1, keep |-> k, ok |-> {}, errors |-> {}, since |-> day, by |-> runs + 1]
          /\ runs' = runs + 1 /\ UNCHANGED <<tree, log, day, losses>>
        BY <1>2 DEF StartRunAll
    <2>2. Underway(tree, losses, run', day) /\ run'.by = runs + 1
        BY <1>0, <2>1 DEF Underway
    <2>3. \A i \in DOMAIN log : Before(log[i], runs + 1) /\ Before(log[i], (runs + 1) + 1)
        BY <1>0, BeforeLater
    <2> QED
        BY <1>0, <2>1, <2>2, <2>3 DEF Recorded
<1>3. CASE CollectorWrites
    <2>1. /\ Stored(Collector) /\ log' = Append(log, Event("run", "success"))
          /\ run' = [run EXCEPT !.at = @ + 1, !.ok = @ \cup {Collector}] /\ UNCHANGED <<day, runs>>
        BY <1>3 DEF CollectorWrites, Audited
    <2>2. Unlogged(Event("run", "success"))
        BY DEF Unlogged, Event
    <2>3. /\ Keeps(tree, losses, tree', losses', runs + 1)
          /\ \A n, d, c : Accounted(tree, losses, n, d, c) => Accounted(tree', losses', n, d, c)
          /\ \A n : Accounted(tree', losses', n, day, Collector)
        BY <2>1, StoredKeeps
    <2>4. /\ \E Y : log' \in Seq(Y)
          /\ \A i \in DOMAIN log' : OnRecord(tree', losses', log'[i])
          /\ \A n : (\A i \in DOMAIN log : Before(log[i], n)) => \A i \in DOMAIN log' : Before(log'[i], n)
        BY <1>0, <2>1, <2>2, <2>3, LogStep
    <2>5. run.at > 0 /\ run.at \in Nat /\ Collector = Mapping[run.at]
        BY <1>3, RunAtWork DEF CollectorWrites
    <2>6. run' = [at |-> run.at + 1, keep |-> run.keep, ok |-> run.ok \cup {Collector},
                  errors |-> run.errors, since |-> run.since, by |-> run.by]
        BY <2>1 DEF Recorded, Underway
    <2>7. /\ run'.at = run.at + 1 /\ run'.errors = run.errors /\ run'.since = run.since
          /\ run'.by = run.by
          /\ run' = [at |-> run'.at, keep |-> run'.keep, ok |-> run'.ok, errors |-> run'.errors,
                     since |-> run'.since, by |-> run'.by]
        BY <2>6
    <2>8. Underway(tree', losses', run', day')
        <3>1. run.since \in Nat /\ run.since <= day
            BY DEF Recorded, Underway
        <3>2. ASSUME run.errors = {}, NEW i \in 1..run.at, i \in DOMAIN Mapping
              PROVE  \E d \in run.since..day : Accounted(tree', losses', run.by, d, Mapping[i])
            <4>1. CASE i = run.at
                BY <1>0, <2>3, <2>5, <3>1, <4>1
            <4>2. CASE i # run.at
                <5>1. i \in 1..run.at - 1
                    BY <2>5, <4>2
                <5> QED
                    BY <2>3, <3>2, <5>1 DEF Recorded, Underway
            <4> QED
                BY <4>1, <4>2
        <3>3. run'.at \in Nat /\ run'.at - 1 = run.at /\ day' = day
            BY <2>1, <2>5, <2>7
        <3> QED
            BY <1>0, <2>7, <3>1, <3>2, <3>3 DEF Underway
    <2>9. \A i \in DOMAIN log' : Before(log'[i], runs + 1) /\ Before(log'[i], run.by)
        BY <1>0, <2>4, <2>5
    <2> QED
        BY <1>0, <2>1, <2>4, <2>7, <2>8, <2>9 DEF Recorded
<1>4. CASE NoProvider
    <2>1. UNCHANGED <<tree, log, day, runs, losses>> /\ run' = OnError /\ run.at > 0
        BY <1>4, RunAtWork DEF NoProvider
    <2>2. Underway(tree, losses, OnError, day) /\ OnError.by = run.by
        BY <1>4, OutOfOrder DEF NoProvider
    <2> QED
        BY <1>0, <2>1, <2>2 DEF Recorded
<1>5. CASE CollectorFails
    <2>1. /\ BrokenOff(Collector, run.by) /\ log' = Append(log, Event("run", "error"))
          /\ run' = OnError /\ UNCHANGED <<day, runs>> /\ run.at > 0
        BY <1>5, RunAtWork DEF CollectorFails, Audited
    <2>2. Unlogged(Event("run", "error"))
        BY DEF Unlogged, Event
    <2>3. Keeps(tree, losses, tree', losses', run.by)
        BY <1>0, <2>1, BrokenOffKeeps
    <2>4. /\ \E Y : log' \in Seq(Y)
          /\ \A i \in DOMAIN log' : OnRecord(tree', losses', log'[i])
          /\ \A n : (\A i \in DOMAIN log : Before(log[i], n)) => \A i \in DOMAIN log' : Before(log'[i], n)
        BY <1>0, <2>1, <2>2, <2>3, LogStep
    <2>5. Underway(tree', losses', OnError, day) /\ OnError.by = run.by
        BY <1>5, OutOfOrder DEF CollectorFails
    <2>6. \A i \in DOMAIN log' : Before(log'[i], runs + 1) /\ Before(log'[i], run.by)
        BY <1>0, <2>1, <2>4
    <2> QED
        BY <1>0, <2>1, <2>4, <2>5, <2>6 DEF Recorded
<1>6. CASE RunAllBreaksOff
    <2>1. /\ run.at > 0 /\ run' = Idle /\ UNCHANGED <<log, day, runs>>
          /\ BrokenOff(Collector, run.by) \/ Untouched
        BY <1>6 DEF RunAllBreaksOff
    <2>2. Keeps(tree, losses, tree', losses', run.by)
        BY <1>0, <2>1, BrokenOffKeeps, UntouchedKeeps
    <2>3. (\E Y : log' \in Seq(Y)) /\ \A i \in DOMAIN log' : OnRecord(tree', losses', log'[i])
        BY <1>0, <2>1, <2>2, LogStep
    <2>4. Underway(tree', losses', Idle, day) /\ Idle.by = 0 /\ Idle.at = 0
        BY <1>0, IdleUnderway DEF Idle
    <2> QED
        BY <1>0, <2>1, <2>3, <2>4 DEF Recorded
<1>7. CASE CollectElsewhere
    <2>1. PICK i \in DOMAIN Mapping :
             \/ Stored(Mapping[i]) /\ (UNCHANGED log \/ Audited("run", "success"))
             \/ Emptied(Mapping[i], runs + 1) /\ (UNCHANGED log \/ Audited("run", "success"))
             \/ BrokenOff(Mapping[i], runs + 1) /\ Audited("run", "error")
        BY <1>7 DEF CollectElsewhere
    <2>2. runs' = runs + 1 /\ UNCHANGED <<day, run>>
        BY <1>7 DEF CollectElsewhere
    <2>3. Unlogged(Event("run", "success")) /\ Unlogged(Event("run", "error"))
        BY DEF Unlogged, Event
    <2>4. Keeps(tree, losses, tree', losses', runs + 1)
        BY <1>0, <2>1, StoredKeeps, EmptiedKeeps, BrokenOffKeeps
    <2>5. UNCHANGED log \/ \E e : Unlogged(e) /\ log' = Append(log, e)
        BY <2>1, <2>3 DEF Audited
    <2>6. /\ \E Y : log' \in Seq(Y)
          /\ \A j \in DOMAIN log' : OnRecord(tree', losses', log'[j])
          /\ \A n : (\A j \in DOMAIN log : Before(log[j], n)) => \A j \in DOMAIN log' : Before(log'[j], n)
        BY <1>0, <2>4, <2>5, LogStep
    <2>7. Underway(tree', losses', run, day)
        BY <1>0, <2>4, RunStays DEF Recorded
    <2>8. \A j \in DOMAIN log' : Before(log'[j], runs + 1) /\ (run.at > 0 => Before(log'[j], run.by))
        BY <1>0, <2>6
    <2>9. \A j \in DOMAIN log' : Before(log'[j], (runs + 1) + 1)
        BY <1>0, <2>8, BeforeLater
    <2> QED
        BY <1>0, <2>2, <2>6, <2>7, <2>8, <2>9 DEF Recorded
<1>8. CASE FinishRunAll
    <2> DEFINE e == [command |-> "run-all", outcome |-> RunAllOutcome(run),
                     since |-> run.since, until |-> day, by |-> run.by]
    <2>1. /\ run.at > Len(Mapping) /\ log' = Append(log, e) /\ run' = Idle
          /\ UNCHANGED <<tree, day, runs, losses>>
        BY <1>8 DEF FinishRunAll
    <2>2. ASSUME e.outcome = "success", NEW c \in Collectors
          PROVE  \E d \in e.since..e.until : Accounted(tree, losses, e.by, d, c)
        <3>1. run.errors = {}
            BY <2>2 DEF RunAllOutcome
        <3>2. PICK i \in DOMAIN Mapping : c = Mapping[i]
            BY DEF Collectors
        <3>3. i \in 1..run.at - 1
            <4>1. DOMAIN Mapping = 1..Len(Mapping) /\ Len(Mapping) \in Nat
                BY PostureAssumption
            <4> QED
                BY <2>1, <4>1 DEF Recorded, Underway
        <3> QED
            BY <3>1, <3>2, <3>3 DEF Recorded, Underway
    <2>3. OnRecord(tree, losses, e)
        BY <2>2 DEF OnRecord
    <2>4. Before(e, runs + 1)
        BY <1>0 DEF Before
    <2> HIDE DEF e
    <2>5. PICK X : log \in Seq(X)
        BY DEF Recorded
    <2>6. /\ \E Y : log' \in Seq(Y)
          /\ \A i \in DOMAIN log' : (i \in DOMAIN log /\ log'[i] = log[i]) \/ log'[i] = e
        BY <2>1, <2>5, OneMoreEvent
    <2>7. \A i \in DOMAIN log' : OnRecord(tree, losses, log'[i]) /\ Before(log'[i], runs + 1)
        BY <1>0, <2>3, <2>4, <2>6 DEF Recorded
    <2>8. Underway(tree, losses, Idle, day) /\ Idle.by = 0 /\ Idle.at = 0
        BY <1>0, IdleUnderway DEF Idle
    <2> QED
        BY <1>0, <2>1, <2>6, <2>7, <2>8 DEF Recorded
<1>9. CASE WriteSelfAssessment
    <2>1. tree' = Put(tree, Reports, {}) /\ UNCHANGED <<log, day, run, runs, losses>>
        BY <1>9 DEF WriteSelfAssessment
    <2>2. Keeps(tree, losses, tree', losses', runs + 1)
        BY <2>1, PutKeeps DEF Keeps
    <2>3. \A i \in DOMAIN log : OnRecord(tree', losses', log[i])
        BY <1>0, <2>2, RecordStays DEF Recorded
    <2>4. Underway(tree', losses', run, day)
        BY <1>0, <2>2, RunStays DEF Recorded
    <2> QED
        BY <1>0, <2>1, <2>3, <2>4 DEF Recorded
<1>10. CASE DetectDrift
    <2>1. UNCHANGED <<tree, day, run, runs, losses>>
        BY <1>10 DEF DetectDrift
    <2>2. Unlogged(Event("drift", "drift_detected"))
        BY DEF Unlogged, Event
    <2>3. UNCHANGED log \/ \E e : Unlogged(e) /\ log' = Append(log, e)
        BY <1>10, <2>2 DEF DetectDrift, Audited
    <2>4. Keeps(tree, losses, tree', losses', runs + 1)
        BY <2>1, UntouchedKeeps DEF Untouched
    <2>5. /\ \E Y : log' \in Seq(Y)
          /\ \A i \in DOMAIN log' : OnRecord(tree', losses', log'[i])
          /\ \A n : (\A i \in DOMAIN log : Before(log[i], n)) => \A i \in DOMAIN log' : Before(log'[i], n)
        BY <1>0, <2>3, <2>4, LogStep
    <2>6. \A i \in DOMAIN log' : Before(log'[i], runs + 1) /\ (run.at > 0 => Before(log'[i], run.by))
        BY <1>0, <2>5
    <2> QED
        BY <1>0, <2>1, <2>5, <2>6 DEF Recorded
<1>11. CASE ShowScorecard \/ (\E target \in DOMAIN Limit : Forward(target)) \/ UNCHANGED commands
    <2>1. UNCHANGED <<tree, log, day, run, runs, losses>>
        BY <1>11 DEF ShowScorecard, Forward, commands
    <2> QED
        BY <2>1 DEF Recorded
<1> QED
    BY <1>1, <1>2, <1>3, <1>4, <1>5, <1>6, <1>7, <1>8, <1>9, <1>10, <1>11 DEF Command, Collecting

(***************************************************************************)
(* A run-all that is on record as a success left evidence of every         *)
(* collector; what is no longer there was removed since by another that    *)
(* collected on that date: cli.py:1335-1365 and output.py:116, whatever    *)
(* the collectors, the days, the midnights and what else collects.         *)
(***************************************************************************)
THEOREM SuccessesAreComplete == CommandSpec => []SuccessIsComplete
<1>1. Recorded => SuccessIsComplete
    BY DEF Recorded, OnRecord, Accounted, LostSince, SuccessIsComplete
<1> QED
    BY <1>1, RecordedInit, RecordedStep, PTL DEF CommandSpec
=============================================================================
