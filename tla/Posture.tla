------------------------------- MODULE Posture -------------------------------
(***************************************************************************)
(* What is done with the evidence of an installation by its commands       *)
(* (cli.py): run-all collects it over the days, scorecard and drift read   *)
(* the latest of it, self-assessment writes its report beside it, and siem *)
(* forwards the audit log (audit.py, siem.py).                             *)
(***************************************************************************)
EXTENDS Integers, Sequences, FiniteSets

CONSTANTS
    Mapping,            \* RUN_ALL_MAPPING: the collectors in their order
    ContinueOnError,    \* the values run_all.continue_on_error may have
    Days,               \* the dates of the days to come, as directories are named by them
    MaxRuns             \* a bound on the commands and cycles that collect

(* Collectors and dates are names. *)
ASSUME PostureAssumption == Mapping \in Seq(STRING) /\ Days \in Seq(STRING)

VARIABLES
    tree,       \* directory of the evidence root |-> collectors with evidence in it
    log,        \* .sentinel-audit.jsonl
    day,
    run,        \* the run-all in progress
    runs,       \* how many run-alls began and others collected: they are numbered so
    losses,     \* the evidence that was removed again: where, whose, and by which of them
    seen,       \* what the last scorecard or drift command read
    shipped     \* what the last siem command did

commands == <<tree, log, day, run, runs, losses, seen, shipped>>

Reports == "reports"
NoneYet == "none"
Today == Days[day]

(* Directories by their names: a digit sorts before a letter. *)
Order == Days \o <<Reports>>
Latest(t) ==
    IF DOMAIN t = {} THEN NoneYet
    ELSE Order[CHOOSE i \in DOMAIN Order :
                  Order[i] \in DOMAIN t /\ \A j \in DOMAIN Order : Order[j] \in DOMAIN t => j <= i]

Idle == [at |-> 0, keep |-> FALSE, ok |-> {}, errors |-> {}, since |-> 0, by |-> 0]
Event(command, outcome) == [command |-> command, outcome |-> outcome]
Audited(command, outcome) == log' = Append(log, Event(command, outcome))
Put(t, d, collectors) ==
    [x \in DOMAIN t \cup {d} |-> (IF x \in DOMAIN t THEN t[x] ELSE {}) \cup (IF x = d THEN collectors ELSE {})]
Without(t, d, collector) ==
    [x \in DOMAIN t \cup {d} |->
        (IF x \in DOMAIN t THEN t[x] ELSE {}) \ (IF x = d THEN {collector} ELSE {})]

CommandInit ==
    /\ tree = [d \in {} |-> {}] /\ log = << >> /\ day = 1 /\ run = Idle /\ runs = 0 /\ losses = {}
    /\ seen = [what |-> NoneYet, directory |-> NoneYet, newest |-> NoneYet]
    /\ shipped = [target |-> NoneYet, ok |-> TRUE, count |-> 0, logged |-> 0]

-----------------------------------------------------------------------------
Midnight ==
    /\ day < Len(Days)
    /\ day' = day + 1
    /\ UNCHANGED <<tree, log, run, runs, losses, seen, shipped>>

StartRunAll ==
    /\ run.at = 0 /\ runs < MaxRuns
    /\ \E keep \in ContinueOnError :
          run' = [at |-> 1, keep |-> keep, ok |-> {}, errors |-> {}, since |-> day, by |-> runs + 1]
    /\ runs' = runs + 1
    /\ UNCHANGED <<tree, log, day, losses, seen, shipped>>

Running == run.at \in DOMAIN Mapping
Collector == Mapping[run.at]
OnError == [run EXCEPT !.at = IF run.keep THEN @ + 1 ELSE Len(Mapping) + 1,
                       !.errors = @ \cup {Collector}]

(***************************************************************************)
(* write_evidence in the directory of a collector's control.  It empties   *)
(* it before it checks and writes the evidence (output.py:116): one that   *)
(* does not get to the end leaves it as it was, empty, or written.         *)
(***************************************************************************)
Untouched == UNCHANGED <<tree, losses>>
Stored(collector) == tree' = Put(tree, Today, {collector}) /\ UNCHANGED losses
Emptied(collector, by) ==
    /\ tree' = Without(tree, Today, collector)
    /\ losses' = losses \cup {[directory |-> Today, collector |-> c, by |-> by] :
                                 c \in {collector} \cap (IF Today \in DOMAIN tree THEN tree[Today] ELSE {})}
BrokenOff(collector, by) == Untouched \/ Emptied(collector, by) \/ Stored(collector)

(***************************************************************************)
(* _run_collector.  A collector whose snapshot fails writes that down as   *)
(* its evidence and returns like one that succeeded.                       *)
(***************************************************************************)
CollectorWrites ==
    /\ Running
    /\ Stored(Collector)
    /\ run' = [run EXCEPT !.at = @ + 1, !.ok = @ \cup {Collector}]
    /\ Audited("run", "success")
    /\ UNCHANGED <<day, runs, seen, shipped>>

(* The provider cannot be had: it was asked for before the run is audited. *)
NoProvider ==
    /\ Running
    /\ run' = OnError
    /\ UNCHANGED <<tree, log, day, runs, losses, seen, shipped>>

(* A SentinelError: the evidence is refused. *)
CollectorFails ==
    /\ Running
    /\ BrokenOff(Collector, run.by)
    /\ run' = OnError
    /\ Audited("run", "error")
    /\ UNCHANGED <<day, runs, seen, shipped>>

(* Any other exception, a disk that is full say, and an interrupt end run-all. *)
RunAllBreaksOff ==
    /\ run.at > 0
    /\ IF Running THEN BrokenOff(Collector, run.by) ELSE Untouched
    /\ run' = Idle
    /\ UNCHANGED <<log, day, runs, seen, shipped>>

(***************************************************************************)
(* The run command, a collector of another run-all, or one of a cycle of   *)
(* the daemon, which audits the cycle (see Daemon) and not its collectors. *)
(* With --control-id a run can put its evidence where another collector's  *)
(* was.                                                                    *)
(***************************************************************************)
CollectElsewhere ==
    /\ runs < MaxRuns
    /\ runs' = runs + 1
    /\ \E i \in DOMAIN Mapping :
          \/ Stored(Mapping[i]) /\ (UNCHANGED log \/ Audited("run", "success"))
          \/ Emptied(Mapping[i], runs') /\ (UNCHANGED log \/ Audited("run", "success"))
          \/ BrokenOff(Mapping[i], runs') /\ Audited("run", "error")
    /\ UNCHANGED <<day, run, seen, shipped>>

(* Mutant of RunAllOutcome: some evidence is enough. *)
OutcomeOfAny(r) == IF r.ok # {} THEN "success" ELSE "error"

RunAllOutcome(r) ==
    IF r.errors = {} THEN "success" ELSE IF r.ok # {} THEN "partial" ELSE "error"

(* The event, and the exit code 1 where there were errors. *)
FinishRunAll ==
    /\ run.at > Len(Mapping)
    /\ log' = Append(log, [command |-> "run-all", outcome |-> RunAllOutcome(run),
                           since |-> run.since, until |-> day, by |-> run.by])
    /\ run' = Idle
    /\ UNCHANGED <<tree, day, runs, losses, seen, shipped>>

-----------------------------------------------------------------------------
(* generate_self_assessment_report, in the directory the program collects in. *)
WriteSelfAssessment ==
    /\ tree' = Put(tree, Reports, {})
    /\ UNCHANGED <<log, day, run, runs, losses, seen, shipped>>

Newest == LET t == [d \in DOMAIN tree \ {Reports} |-> tree[d]] IN Latest(t)

(* compute_compliance_scorecard without a date. *)
ShowScorecard ==
    /\ seen' = [what |-> "scorecard", directory |-> Latest(tree), newest |-> Newest]
    /\ UNCHANGED <<tree, log, day, run, runs, losses, shipped>>

(* detect_configuration_drift without dates; what it finds, it audits. *)
DetectDrift ==
    /\ seen' = [what |-> "drift", directory |-> Latest(tree), newest |-> Newest]
    /\ \/ UNCHANGED log
       \/ /\ Latest(tree) # NoneYet /\ tree[Latest(tree)] # {}
          /\ Cardinality({i \in DOMAIN log : log[i].command = "drift"}) < MaxRuns
          /\ Audited("drift", "drift_detected")
    /\ UNCHANGED <<tree, day, run, runs, losses, shipped>>

-----------------------------------------------------------------------------
(***************************************************************************)
(* SIEMExporter reads sentinel_audit.jsonl in the base directory, which    *)
(* nothing writes; nothing remembers what was read.                        *)
(***************************************************************************)
SiemLog == << >>
Limit == [ndjson |-> 1000, splunk |-> 100, datadog |-> 100, webhook |-> 50]

ReadUnforwardedEvents(limit) == IF Len(SiemLog) <= limit THEN SiemLog ELSE SubSeq(SiemLog, 1, limit)

(* No events are forwarded successfully, without asking the endpoint. *)
Delivered(target, answers) ==
    LET events == ReadUnforwardedEvents(Limit[target])
    IN  IF events = << >> \/ target = "ndjson" \/ answers
        THEN [ok |-> TRUE, count |-> Len(events)] ELSE [ok |-> FALSE, count |-> 0]

Forward(target) ==
    /\ \E answers \in BOOLEAN :
          LET sent == Delivered(target, answers)
          IN  shipped' = [target |-> target, logged |-> Len(log), ok |-> sent.ok, count |-> sent.count]
    /\ UNCHANGED <<tree, log, day, run, runs, losses, seen>>

Collecting ==
    \/ Midnight \/ StartRunAll \/ CollectorWrites \/ NoProvider \/ CollectorFails
    \/ RunAllBreaksOff \/ CollectElsewhere \/ FinishRunAll

Command ==
    \/ Collecting \/ WriteSelfAssessment \/ ShowScorecard \/ DetectDrift
    \/ \E target \in DOMAIN Limit : Forward(target)

CommandSpec == CommandInit /\ [][Command]_commands

-----------------------------------------------------------------------------
Collectors == {Mapping[i] : i \in DOMAIN Mapping}

There(t, d) == IF Days[d] \in DOMAIN t THEN t[Days[d]] ELSE {}
LostSince(n, d, collector) ==
    \E x \in losses : x.directory = Days[d] /\ x.collector = collector /\ x.by > n

(***************************************************************************)
(* A run-all that is on record as a success left evidence of every         *)
(* collector under a date of its run; what is no longer there was removed  *)
(* since the run-all began, by another that collected on that date         *)
(* (cli.py:1335-1365, output.py:116).                                      *)
(***************************************************************************)
SuccessIsComplete ==
    \A i \in DOMAIN log :
        log[i].command = "run-all" /\ log[i].outcome = "success" =>
            \A c \in Collectors : \E d \in log[i].since..log[i].until :
                c \in There(tree, d) \/ LostSince(log[i].by, d, c)

(***************************************************************************)
(* The scorecard and the drift report read the latest evidence             *)
(* (scoring.py:72, drift.py:295).                                          *)
(***************************************************************************)
LatestIsRead == seen.newest # NoneYet => seen.directory = seen.newest

(***************************************************************************)
(* What is forwarded to the SIEM with success is what the audit log holds  *)
(* (siem.py:80).                                                           *)
(***************************************************************************)
ForwardedIsLogged ==
    shipped.target # NoneYet /\ shipped.ok =>
        \/ shipped.count >= Limit[shipped.target]
        \/ shipped.count = shipped.logged
=============================================================================
