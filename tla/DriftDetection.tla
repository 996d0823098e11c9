--------------------------- MODULE DriftDetection ---------------------------
(***************************************************************************)
(* The comparison of two runs (drift.py).  A run is a function from the    *)
(* names of collectors to evidence; a tree is one from the names of its    *)
(* directories to runs, and order lists those names as strings compare.    *)
(***************************************************************************)
EXTENDS Collectors

(* A metric by its two names, what an absent one counts for, and which way is worse. *)
Rises(field, other) == [field |-> field, other |-> other, absent |-> 0, worse |-> "more"]
Falls(field, other, absent) == [field |-> field, other |-> other, absent |-> absent, worse |-> "less"]
Full == 100 * Unit

Watched ==
    [iam_access_review |->
        {Rises("orphaned_accounts", "orphaned_accounts"),
         Falls("mfa_enforced_percentage", "mfa_enforcement_percent", Full),
         Rises("privileged_users", "privileged_count")},
     config_drift |->
        {Rises("open_security_groups", "open_http_listeners"),
         Rises("unapproved_changes_detected", "unapproved_changes")},
     encryption_status |->
        {Rises("unencrypted_data_stores", "unencrypted_cui_count"),
         Falls("encrypted_at_rest_percentage", "encrypted_at_rest_percentage", Full)},
     log_aggregator |->
        {Falls("critical_events_logged_percentage", "log_coverage_percent", Full)},
     resilience_testing |->
        {Falls("successful_backups_24h", "backup_jobs_success_30d", 0)}]

(* The checks made of a run that has nothing to be compared with. *)
Initially == {"open_security_groups", "unencrypted_data_stores", "orphaned_accounts"}

ValueOf(m, metric) ==
    CASE metric.field \in DOMAIN m -> m[metric.field]
      [] metric.field \notin DOMAIN m /\ metric.other \in DOMAIN m -> m[metric.other]
      [] OTHER -> metric.absent

(* Mutant of IsWorse: what stayed the same is drift too. *)
IsNoBetter(metric, old, new) == IF metric.worse = "more" THEN new >= old ELSE new <= old

IsWorse(metric, old, new) == IF metric.worse = "more" THEN new > old ELSE new < old

(***************************************************************************)
(* _compare_collector_metrics: the fields that are worse.  A null does not *)
(* compare with a number: the error leaves detect_configuration_drift.     *)
(***************************************************************************)
CompareCollectorMetrics(collector, base, cur) ==
    LET metrics == IF collector \in DOMAIN Watched THEN Watched[collector] ELSE {}
    IN  [items |-> {<<collector, w.field>> : w \in {x \in metrics :
                        IsWorse(x, ValueOf(base, x), ValueOf(cur, x))}},
         raises |-> \E x \in metrics : ~Measured(ValueOf(base, x)) \/ ~Measured(ValueOf(cur, x))]

InitialViolations(collector, m) ==
    [items |-> {<<collector, f>> : f \in {x \in Initially : Get(m, x) > 0}},
     raises |-> \E f \in Initially \cap DOMAIN m : ~Measured(m[f])]

-----------------------------------------------------------------------------
(***************************************************************************)
(* detect_configuration_drift: the directory asked for, or the last; the   *)
(* one asked for, or the last but it.                                      *)
(***************************************************************************)
NoDirectory == "none"

Last(order, names) ==
    LET S == {i \in DOMAIN order : order[i] \in names}
    IN  IF S = {} THEN NoDirectory ELSE order[Max(S)]

CurrentDirectory(dirs, order, current) ==
    IF current \in dirs THEN current ELSE Last(order, dirs)

(* A baseline asked for that is not there is the last but one of all. *)
BaselineDirectory(dirs, order, current, baseline) ==
    CASE baseline \in dirs -> baseline
      [] baseline \notin dirs /\ baseline # NoDirectory ->
            Last(order, dirs \ {Last(order, dirs)})
      [] OTHER -> Last(order, dirs \ {CurrentDirectory(dirs, order, current)})

NoDrift == [current |-> NoDirectory, baseline |-> NoDirectory, items |-> {}, raises |-> FALSE]

(* An empty baseline is as good as none; a collector that is new is passed over. *)
DetectConfigurationDrift(tree, order, current, baseline) ==
    LET dirs == DOMAIN tree \ {"manifests"}
        cur  == CurrentDirectory(dirs, order, current)
        old  == BaselineDirectory(dirs, order, current, baseline)
        run  == tree[cur]
        base == IF old = NoDirectory THEN << >> ELSE tree[old]
        found == IF DOMAIN base # {}
                 THEN {CompareCollectorMetrics(c, base[c].metrics, run[c].metrics) :
                          c \in DOMAIN run \cap DOMAIN base}
                 ELSE {InitialViolations(c, run[c].metrics) : c \in DOMAIN run}
    IN  IF dirs = {} THEN NoDrift
        ELSE [current |-> cur, baseline |-> old,
              items |-> UNION {f.items : f \in found},
              raises |-> \E f \in found : f.raises]
=============================================================================
