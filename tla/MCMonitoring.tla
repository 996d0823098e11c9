---------------------------- MODULE MCMonitoring ----------------------------
(***************************************************************************)
(* The monitoring daemon, the commands that read what it collects, and the *)
(* verdicts on it.  They share no state: each is explored on its own,      *)
(* chosen by focus.                                                        *)
(***************************************************************************)
EXTENDS Daemon, Posture, Assessment, TLC

CONSTANTS
    Focuses,
    ReadRuns            \* a bound on what collects where the readers are at work too

MCMapping == <<"iam_access_review", "log_aggregator">>
MCDays == <<"2026-01-01", "2026-01-02">>

None == -1
Unknown == {None}

(* What the snapshots of the three providers may hold; most of it no provider measures. *)
MCData ==
    ("CC6.1" :> [orphaned_accounts : {None, 0, 2, 3, 7, 8}, days_since_last_review : Unknown,
                 total_identities : {8}])
    @@ ("CC6.2" :> [mfa_enforcement_percent : Unknown, weak_auth_methods : {0, 1},
                    open_http_listeners : 0..2, unapproved_changes : 0..2,
                    changes_missing_rollback_test : Unknown,
                    config_noncompliant_resources : 0..1, issues : {0}, warnings : {0}])
    @@ ("CC7.1" :> [active_trails : 0..2, log_coverage_percent : {None, 50000, 89900, 90000, 95000, 100000},
                    max_gap_hours : {None, 24000, 25000}, critical_control_failures_30d : {0, 1},
                    cui_retention_days : Unknown])
    @@ ("C1.2" :> {d \in [total_confidential_resources : 0..2, encrypted_at_rest : 0..2,
                          unencrypted_cui_count : 0..2, fips_compliant_keys : 0..1,
                          keys_pending_rotation : 0..1, tls_endpoints_checked : 0..1,
                          weak_cipher_endpoints : 0..1] :
                     d.encrypted_at_rest + d.unencrypted_cui_count = d.total_confidential_resources})
    @@ ("C1.4" :> {d \in [repositories_checked : 0..3, repositories_missing_lifecycle : 0..3,
                          objects_past_retention : Unknown] :
                     d.repositories_missing_lifecycle <= d.repositories_checked})
    @@ ("A1.2" :> [last_backup_hours_ago : {None, 24000, 24001}, last_restore_test_days_ago : {None, 90, 91},
                   failover_test_passed : {"yes", "no", "unknown"}, backup_jobs_failed_30d : {0, 1, 6}])
    @@ ("ZT-1" :> [iam_review_days_ago : Unknown, encryption_status : {"green", "yellow", "red"},
                   orphaned_accounts : {None, 0, 7, 8}, mfa_enforcement_percent : Unknown,
                   session_timeout_compliant : {"unknown"}])

Users == {"u"}
Keyed == [Users -> [key : {TRUE}, unused : BOOLEAN]]
Clean == [users |-> [u \in Users |-> [key |-> TRUE, unused |-> FALSE]],
          buckets |-> [b \in {"b", "c"} |-> TRUE], dbs |-> [d \in {"d"} |-> TRUE],
          keys |-> [k \in {"k"} |-> [rotates |-> TRUE, fips |-> TRUE]],
          certs |-> {"cert"}, balancers |-> [l \in {"lb"} |-> "tls"],
          trails |-> [t \in {"t", "s"} |-> [logging |-> TRUE, gap |-> 1000]],
          mfa |-> [u \in Users |-> TRUE], http |-> 0, listeners |-> [l \in {"lb"} |-> FALSE],
          rules |-> [r \in {"r"} |-> 0], noncompliant |-> 0,
          lifecycle |-> [b \in {"b", "c"} |-> "expires"],
          backup |-> [hours |-> 1000, failed |-> 0], restore |-> 1, dump |-> 1000]

MCAccounts ==
    ("CC6.1" :> {[Clean EXCEPT !.users = k] : k \in Keyed})
    @@ ("CC6.2" :> {Clean})
    @@ ("CC7.1" :> {Clean})
    @@ ("C1.2" :> {Clean, [Clean EXCEPT !.balancers["lb"] = "plain"]})
    @@ ("C1.4" :> {Clean, [Clean EXCEPT !.lifecycle["b"] = "keeps"]})
    @@ ("A1.2" :> {Clean, [Clean EXCEPT !.backup.hours = None]})
    @@ ("ZT-1" :> {Clean})

Trails ==
    {[t \in {} |-> {}]}
    \cup [{"t"} -> [logging : BOOLEAN, gap : {1000}]]
    \cup {[t \in {"t", "s"} |-> [logging |-> t = "t", gap |-> 1000]]}

MCInstallations ==
    {[Clean EXCEPT !.users = [u \in {"u", "v"} |-> [key |-> TRUE, unused |-> u \in unused]],
                   !.buckets["b"] = encrypted, !.dbs["d"] = stored, !.http = http,
                   !.rules["r"] = changes, !.trails = trails] :
        unused \in SUBSET {"u", "v"}, encrypted, stored \in BOOLEAN, http \in 0..1, changes \in 0..2,
        trails \in Trails}

MCScores == {0, 70000, 85000, 100000}

(* The metrics the default rules name, measured or not. *)
Number(n) == [kind |-> "number", n |-> n]
Null == [kind |-> "none", n |-> 0]
Values(good, bad) == {Null, Number(good), Number(bad)}
Metrics(f) == UNION {[X -> UNION {f[x] : x \in X}] : X \in SUBSET DOMAIN f}
Fitting(f) == {m \in Metrics(f) : \A x \in DOMAIN m : m[x] \in f[x]}

PerTarget ==
    [iam_access_review |->
        Fitting([mfa_enforced_percentage |-> Values(100, 99), orphaned_accounts |-> Values(0, 1),
                 review_days |-> Values(90, 91)]),
     log_aggregator |->
        Fitting([log_streams |-> Values(1, 0), completeness |-> Values(95, 94),
                 retention_days |-> Values(365, 364)]),
     config_drift |-> Fitting([open_sgs |-> Values(0, 1)]),
     encryption_status |->
        Fitting([unencrypted_stores |-> Values(0, 1), at_rest_pct |-> Values(100, 99),
                 transit_pct |-> Values(100, 99)]),
     github_vcs |->
        Fitting([branch_protection_enforced |-> Values(1, 0), required_approvals |-> Values(1, 0),
                 critical_vulnerabilities |-> Values(0, 1)]),
     resilience_testing |-> Fitting([success_24h |-> Values(1, 0), restore_tested_90d |-> Values(1, 0)])]

MCPayloads ==
    {[c \in {} |-> {}]}
    \cup UNION {{(name :> [control_id |-> "X", metrics |-> m]) :
                    m \in PerTarget[t], name \in {t, "other"}} : t \in DOMAIN PerTarget}
    \cup UNION {{("other" :> [control_id |-> t, metrics |-> m]) : m \in PerTarget[t]} :
                    t \in DOMAIN PerTarget}

(***************************************************************************)
(* Rules from files: one made stricter, those that add or divide before    *)
(* they compare, one that is disabled, two that a null passes (by !=, and  *)
(* divided by a metric that is zero), one that does not parse and one that *)
(* calls; and a file that breaks off.                                      *)
(***************************************************************************)
Rule(target, condition, enabled) ==
    [target |-> target, severity |-> "LOW", enabled |-> enabled, condition |-> condition]

NotOne == P!Cmp("open_sgs", "!=", 1)
Sum == <<P!Name("completeness"), P!Name("retention_days"), [op |-> "add", args |-> <<1, 2>>],
         P!Const(460), [op |-> "==", args |-> <<3, 4>>]>>
Half == <<P!Name("completeness"), P!Const(2), [op |-> "div", args |-> <<1, 2>>],
          P!Const(47), [op |-> ">=", args |-> <<3, 4>>]>>
Ratio == <<P!Name("success_24h"), P!Name("restore_tested_90d"), [op |-> "div", args |-> <<1, 2>>],
           P!Const(0), [op |-> "==", args |-> <<3, 4>>]>>
Called == <<P!Name("open_sgs"), [op |-> "call", args |-> <<1>>]>>

Stricter == <<"IAM2", Rule("iam_access_review", P!Cmp("orphaned_accounts", "<", 0), TRUE)>>
Own == <<"OWN1", Rule("config_drift", P!Cmp("open_sgs", "<", 1), FALSE)>>
Adding == <<"OWN2", Rule("log_aggregator", Sum, TRUE)>>
Halving == <<"OWN5", Rule("log_aggregator", Half, TRUE)>>
Dividing == <<"OWN6", Rule("resilience_testing", Ratio, TRUE)>>
Lenient == <<"OWN3", Rule("config_drift", NotOne, TRUE)>>
Garbled == <<"OWN4", Rule("config_drift", << >>, TRUE)>>
Calling == <<"OWN4", Rule("config_drift", Called, TRUE)>>
MCRuleFiles ==
    {<< >>, <<Stricter, Own, Adding, Lenient, Halving, Dividing>>, <<Own, <<"broken">>, Stricter>>,
     <<Garbled>>, <<Garbled, Calling>>}

MCQuestionnaires ==
    UNION {[X -> {"Met", "Not Applicable", "Managed", "Initial"}] : X \in SUBSET {"AC", "AU", "IA"}}

MCEnvironments ==
    SUBSET {"AWS_ACCESS_KEY_ID", "AWS_SECRET_ACCESS_KEY", "AWS_PROFILE",
            "GOOGLE_APPLICATION_CREDENTIALS", "AZURE_CLIENT_ID", "AZURE_CLIENT_SECRET",
            "AZURE_TENANT_ID", "AZURE_SUBSCRIPTION_ID"}

MCRepositories ==
    [protected : BOOLEAN, approvals : 0..1, dismissStale : BOOLEAN, forcePush : BOOLEAN,
     deletions : BOOLEAN, secretScanning : BOOLEAN, pushProtection : {TRUE},
     alerts : {{}, {<<"critical", 7>>, <<"high", 30>>}, {<<"critical", 8>>}, {<<"high", 31>>}},
     secrets : 0..1]

MCHomes ==
    [configs : {{}, {"clean"}, {"clean", "leak"}}, evidence : {"no directory", "empty", "runs"},
     crypto : BOOLEAN, auditLog : {"none"}, vault : {"broken", "empty", "sealed"},
     lockfile : {"none", "pins", "hashes"}, vendors : {"none", "gaps", "compliant"}]

-----------------------------------------------------------------------------
VARIABLE focus

Opening ==
    /\ focus \in Focuses
    /\ Init /\ CommandInit
    /\ IF focus = "verdicts" THEN Unjudged
       ELSE subject = "none" /\ input = Nothing /\ verdict = Nothing

Step ==
    /\ UNCHANGED focus
    /\ \/ focus = "daemon" /\ Next /\ UNCHANGED <<commands, verdicts>>
       \/ focus = "collecting" /\ Collecting /\ UNCHANGED <<vars, verdicts>>
       \/ focus = "commands" /\ Command /\ runs' <= ReadRuns /\ UNCHANGED <<vars, verdicts>>
       \/ focus = "verdicts" /\ Judging /\ UNCHANGED <<vars, commands>>

Explored == Opening /\ [][Step]_<<focus, vars, commands, verdicts>> /\ Fairness
=============================================================================
