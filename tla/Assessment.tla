----------------------------- MODULE Assessment -----------------------------
(***************************************************************************)
(* The verdicts of the program put together: from an account to its        *)
(* snapshots, from those to evidence, and from evidence to the light, the  *)
(* score, the drift and the readiness that are shown.  A behaviour takes   *)
(* one input, of the kind its subject says, and judges it.                 *)
(***************************************************************************)
EXTENDS Integers, Sequences, FiniteSets

CONSTANTS
    Data,           \* control |-> the data a snapshot may hold for it
    Accounts,       \* control |-> AWS accounts as its snapshot looks at them
    MaxRefused,     \* how many calls of a snapshot are refused, unless all are
    Installations,  \* AWS accounts as the drift report looks at them
    Scores,         \* the scores a control may have
    Repositories, Homes,
    Questionnaires, \* practice |-> its status, as self-assessments have them
    Environments,   \* what may be set where the program is started
    Payloads,       \* the evidence that policies may find, collector |-> payload
    RuleFiles       \* what a file of rules may hold

VARIABLES subject, input, verdict

verdicts == <<subject, input, verdict>>

C == INSTANCE Collectors
A == INSTANCE AwsSnapshots
S == INSTANCE Scoring
D == INSTANCE DriftDetection
T == INSTANCE Attestations
P == INSTANCE PolicyEngine

Subjects ==
    {"evidence", "account", "history", "scorecard", "repository", "home",
     "questionnaire", "environment", "policy"}
Nothing == [kind |-> "nothing"]

Unjudged == subject \in Subjects /\ input = Nothing /\ verdict = Nothing

Asks(kind) == subject = kind /\ input = Nothing
Judge(in, out) == input' = in /\ verdict' = out /\ UNCHANGED subject

(***************************************************************************)
(* The data of a snapshot, by the control it is for: numbers, or null      *)
(* where nothing was measured.  No provider measures how long what is      *)
(* under retention is kept.                                                *)
(***************************************************************************)
Metric == Nat \cup {C!None}

SnapshotData(control) ==
    CASE control = "CC6.1" ->
            [orphaned_accounts : Metric, days_since_last_review : Metric, total_identities : Metric]
      [] control = "CC6.2" ->
            [mfa_enforcement_percent : Metric, weak_auth_methods : Metric,
             open_http_listeners : Metric, unapproved_changes : Metric,
             changes_missing_rollback_test : Metric, config_noncompliant_resources : Metric,
             issues : Metric, warnings : Metric]
      [] control = "CC7.1" ->
            [active_trails : Metric, log_coverage_percent : Metric, max_gap_hours : Metric,
             critical_control_failures_30d : Metric, cui_retention_days : {C!None}]
      [] control = "C1.2" ->
            [total_confidential_resources : Metric, encrypted_at_rest : Metric,
             unencrypted_cui_count : Metric, fips_compliant_keys : Metric,
             keys_pending_rotation : Metric, tls_endpoints_checked : Metric,
             weak_cipher_endpoints : Metric]
      [] control = "C1.4" ->
            [repositories_checked : Metric, repositories_missing_lifecycle : Metric,
             objects_past_retention : Metric]
      [] control = "A1.2" ->
            [last_backup_hours_ago : Metric, last_restore_test_days_ago : Metric,
             failover_test_passed : {"yes", "no", "unknown"}, backup_jobs_failed_30d : Metric]
      [] control = "ZT-1" ->
            [iam_review_days_ago : Metric, encryption_status : {"green", "yellow", "red"},
             orphaned_accounts : Metric, mfa_enforcement_percent : Metric,
             session_timeout_compliant : {"yes", "no", "unknown"}]

Controls == {"CC6.1", "CC6.2", "CC7.1", "C1.2", "C1.4", "A1.2", "ZT-1"}

ASSUME DataAssumption ==
    DOMAIN Data = Controls /\ \A c \in Controls : Data[c] \subseteq SnapshotData(c)

(* What an account holds is finite, and what is counted or timed in it are numbers. *)
IsAccount(account) ==
    /\ \A names \in {DOMAIN account.users, DOMAIN account.buckets, DOMAIN account.dbs,
                     DOMAIN account.keys, DOMAIN account.balancers, DOMAIN account.trails,
                     DOMAIN account.mfa, DOMAIN account.listeners, DOMAIN account.rules,
                     DOMAIN account.lifecycle, account.certs} : IsFiniteSet(names)
    /\ \A t \in DOMAIN account.trails : account.trails[t].gap \in Metric
    /\ \A r \in DOMAIN account.rules : account.rules[r] \in Nat
    /\ account.http \in Nat /\ account.noncompliant \in Nat
    /\ account.backup.hours \in Metric /\ account.backup.failed \in Nat
    /\ account.restore \in Metric /\ account.dump \in Metric

ASSUME AccountsAssumption ==
    DOMAIN Accounts = Controls /\ \A c \in Controls : \A account \in Accounts[c] : IsAccount(account)

ASSUME ScoresAssumption == Scores \subseteq Nat /\ \A s \in Scores : s <= 100000

ASSUME RepositoriesAssumption ==
    Repositories \subseteq
        [protected : BOOLEAN, approvals : Nat, dismissStale : BOOLEAN, forcePush : BOOLEAN,
         deletions : BOOLEAN, secretScanning : BOOLEAN, pushProtection : BOOLEAN,
         alerts : SUBSET ({"critical", "high", "medium", "low"} \X Nat), secrets : Nat]

ASSUME HomesAssumption ==
    Homes \subseteq
        [configs : SUBSET {"clean", "leak"}, evidence : {"no directory", "empty", "runs"},
         crypto : BOOLEAN, auditLog : {"none", "malformed", "blank", "events"},
         vault : {"broken", "empty", "sealed"}, lockfile : {"none", "pins", "hashes"},
         vendors : {"none", "gaps", "compliant"}]

ASSUME InstallationsAssumption == \A account \in Installations : IsAccount(account)

(* A file holds finitely many rules. *)
ASSUME RuleFilesAssumption ==
    \A file \in RuleFiles : Len(file) \in Nat /\ DOMAIN file = 1..Len(file)

-----------------------------------------------------------------------------
(* A collector's evidence of a snapshot, by the control it is run for. *)
EvidenceOf(control, snap) ==
    CASE control = "CC6.1" -> C!CollectIamAccessReview(control, snap)
      [] control = "CC6.2" -> C!CollectConfigDrift(control, snap)
      [] control = "CC7.1" -> C!CollectLogAggregator(control, snap)
      [] control = "C1.2" -> C!CollectEncryptionStatus(control, snap)
      [] control = "C1.4" -> C!CollectRetentionCheck(control, snap)
      [] control = "A1.2" -> C!CollectResilienceTesting(control, snap)
      [] control = "ZT-1" -> C!CollectZtContinuousVerification(control, snap)

(* AwsProvider's snapshots, and the calls each of them makes. *)
Snapshot(control, account, refused) ==
    CASE control = "CC6.1" -> A!IamAccessSnapshot(account, refused)
      [] control = "CC6.2" -> A!ConfigAndAuthSnapshot(account, refused)
      [] control = "CC7.1" -> A!LogMonitoringSnapshot(account, refused)
      [] control = "C1.2" -> A!EncryptionSnapshot(account, refused)
      [] control = "C1.4" -> A!RetentionSnapshot(account, refused)
      [] control = "A1.2" -> A!ResilienceSnapshot(account, refused)
      [] control = "ZT-1" -> A!ZtVerificationSnapshot(account, refused)

CallsMade(control, account, refused) ==
    CASE control = "CC6.1" -> A!IamCalls(account, refused)
      [] control = "CC6.2" -> A!ConfigCalls(account, refused)
      [] control = "CC7.1" -> A!LoggingCalls(account, refused)
      [] control = "C1.2" -> A!EncryptionCalls(account, refused)
      [] control = "C1.4" -> A!RetentionCalls(account, refused)
      [] control = "A1.2" -> A!ResilienceCalls(account, refused)
      [] control = "ZT-1" -> A!IamCalls(account, refused) \cup A!EncryptionCalls(account, refused)
                             \cup A!ConfigCalls(account, refused)

Calls(control, account) == CallsMade(control, account, {})

(***************************************************************************)
(* What comes of a snapshot: the light of the evidence, and the control as *)
(* the scorecard reads and scores it.                                      *)
(***************************************************************************)
Outcome(control, snap) ==
    LET evidence == EvidenceOf(control, snap)
        read     == S!ReadEvidenceDir([today |-> [c \in {control} |-> evidence]], <<"today">>, "")
    IN  [light |-> evidence.status, control |-> S!Eval(control, read[control])]

Snap(data, quality) ==
    IF quality = "failed" THEN C!Raised ELSE [data |-> data, quality |-> quality, errors |-> 0]

JudgeEvidence ==
    /\ Asks("evidence")
    /\ \E c \in DOMAIN Data, q \in {"complete", "partial", "failed"} : \E d \in Data[c] :
        Judge([control |-> c, data |-> d, quality |-> q], Outcome(c, Snap(d, q)))

(***************************************************************************)
(* The attempts at the calls that go wrong, and at the others.  A call     *)
(* that is made and fails for another reason than a refusal raises for the *)
(* snapshot.                                                               *)
(***************************************************************************)
Failures ==
    {<<"denied", "ok", "ok">>, <<"throttled", "throttled", "throttled">>,
     <<"throttled", "unreachable", "unreachable">>}
Successes == {<<"ok", "ok", "ok">>, <<"throttled", "unreachable", "ok">>}

End(call, outcomes) ==
    IF call[1] \in A!Unretried THEN C!CallOnce(outcomes) ELSE C!Call(outcomes)

Answer(control, account, failing, failure, success) ==
    LET end(x) == End(x, IF x \in failing THEN failure ELSE success)
        refused == {x \in Calls(control, account) : end(x) = "refused"}
    IN  IF \E x \in CallsMade(control, account, refused) : end(x) = "raised" THEN C!Raised
        ELSE Snapshot(control, account, refused)

FailingCalls(control, account) ==
    LET calls == Calls(control, account)
    IN  {some \in SUBSET calls : Cardinality(some) <= MaxRefused} \cup {calls}

JudgeAccount ==
    /\ Asks("account")
    /\ \E c \in DOMAIN Accounts : \E account \in Accounts[c] :
       \E failing \in FailingCalls(c, account), failure \in Failures, success \in Successes :
        Judge([control |-> c, account |-> account, failing |-> failing],
              Outcome(c, Answer(c, account, failing, failure, success)))

(* Two runs, the first a day before the second, with every call answered. *)
Watching ==
    [iam_access_review |-> "CC6.1", config_drift |-> "CC6.2", encryption_status |-> "C1.2",
     log_aggregator |-> "CC7.1"]

RunOf(account) ==
    [c \in DOMAIN Watching |-> EvidenceOf(Watching[c], Snapshot(Watching[c], account, {}))]

JudgeHistory ==
    /\ Asks("history")
    /\ \E before, after \in Installations :
        Judge([before |-> before, after |-> after],
              D!DetectConfigurationDrift([yesterday |-> RunOf(before), today |-> RunOf(after)],
                                         <<"yesterday", "today">>, D!NoDirectory, D!NoDirectory))

JudgeScorecard ==
    /\ Asks("scorecard")
    /\ \E scores \in [DOMAIN Data -> Scores] :
        LET card == S!Scorecard(scores)
        IN  Judge(scores, [card |-> card, profile |-> S!Profile(card)])

JudgeRepository ==
    /\ Asks("repository")
    /\ \E repo \in Repositories, token \in BOOLEAN, unread \in SUBSET T!Requests :
        Judge([repo |-> repo, token |-> token, unread |-> unread],
              T!Audit(repo, token, unread))

JudgeHome ==
    /\ Asks("home")
    /\ \E home \in Homes : Judge(home, T!RunAssessment(home))

JudgeQuestionnaire ==
    /\ Asks("questionnaire")
    /\ \E mode \in {"cmmc", "zt"}, rows \in Questionnaires :
        Judge([mode |-> mode, rows |-> rows], T!SelfAssessment(mode, rows))

JudgeEnvironment ==
    /\ Asks("environment")
    /\ \E environ \in Environments, valid \in BOOLEAN :
        Judge([environ |-> environ, valid |-> valid],
              [aws |-> T!DiagnoseAws(environ, valid), gcp |-> T!DiagnoseGcp(environ, valid),
               azure |-> T!DiagnoseAzure(environ, valid)])

JudgePolicy ==
    /\ Asks("policy")
    /\ \E data \in Payloads, file \in RuleFiles :
        LET rules  == P!LoadRulesFromFile(P!DefaultEnterpriseRules, file).rules
            report == P!EvaluateRules(rules, data)
        IN  Judge(data, [rules |-> rules, report |-> report, exit |-> P!PolicyExit(report)])

Judging ==
    JudgeEvidence \/ JudgeAccount \/ JudgeHistory \/ JudgeScorecard \/ JudgeRepository
    \/ JudgeHome \/ JudgeQuestionnaire \/ JudgeEnvironment \/ JudgePolicy

JudgingSpec == Unjudged /\ [][Judging]_verdicts

Judged(kind) == subject = kind /\ input # Nothing

-----------------------------------------------------------------------------
(***************************************************************************)
(* A control passes on complete evidence only, with everything measured    *)
(* that its score asks for, and never beside a red light; but for A1.2,    *)
(* whose light asks for a failover test and the score does not.            *)
(***************************************************************************)
Asked(control) ==
    CASE control = "CC6.1" -> {"mfa_enforcement_percent"}
      [] control = "CC6.2" -> {"resources_evaluated"}
      [] control = "CC7.1" -> {"log_coverage_percent", "cui_retention_days"}
      [] control = "A1.2" -> {"last_backup_hours_ago", "last_restore_test_days_ago"}
      [] control = "ZT-1" -> {"iam_review_days_ago", "mfa_enforcement_percent", "orphaned_accounts"}
      [] OTHER -> {}

PassIsEarned ==
    Judged("evidence") /\ verdict.control.status = "PASS" =>
        /\ input.quality = "complete"
        /\ \A f \in Asked(input.control) : C!Measured(C!Get(input.data, f))
        /\ verdict.light = "red" => input.control = "A1.2"

(***************************************************************************)
(* Where a snapshot is worse in what it measures, or of lesser quality, no *)
(* control scores higher.  (A gap that is not measured scores as none.)    *)
(***************************************************************************)
Rising ==
    {"orphaned_accounts", "unencrypted_cui_count", "weak_cipher_endpoints", "max_gap_hours",
     "open_http_listeners", "unapproved_changes", "config_noncompliant_resources",
     "repositories_missing_lifecycle", "backup_jobs_failed_30d", "last_backup_hours_ago",
     "last_restore_test_days_ago"}
Falling == {"encrypted_at_rest", "fips_compliant_keys", "active_trails", "log_coverage_percent"}

Worse(a, b) ==
    \A f \in DOMAIN a :
        \/ a[f] = b[f]
        \/ f \in Rising /\ C!Measured(a[f]) /\ C!Measured(b[f]) /\ a[f] > b[f]
        \/ f \in Falling /\ C!Measured(a[f]) /\ a[f] < b[f]

WorseNeverScoresHigher ==
    Judged("evidence") =>
        /\ \A d \in Data[input.control] :
              Worse(d, input.data) =>
                  Outcome(input.control, Snap(d, input.quality)).control.score
                      <= verdict.control.score
        /\ input.quality # "complete" =>
              verdict.control.score
                  <= Outcome(input.control, Snap(input.data, "complete")).control.score

(***************************************************************************)
(* A snapshot of which a call failed, after as many attempts as it is      *)
(* given, shows it: its light is not green and its control does not pass.  *)
(***************************************************************************)
DenialIsVisible ==
    Judged("account") /\ input.failing # {} =>
        verdict.light # "green" /\ verdict.control.status # "PASS"

(***************************************************************************)
(* The drift report of two complete runs names what got worse in the       *)
(* account, and nothing else; it fails where there was no trail to measure *)
(* the coverage of, and only there.  The coverage is compared to a tenth   *)
(* of a percent: a fall by that much is always named, and no other change  *)
(* than a fall ever is.                                                    *)
(***************************************************************************)
Unused(account) == {u \in DOMAIN account.users : account.users[u].key /\ account.users[u].unused}
Logging(account) == {t \in DOMAIN account.trails : account.trails[t].logging}
UnencryptedStores(account) ==
    Cardinality({b \in DOMAIN account.buckets : ~account.buckets[b]})
    + Cardinality({d \in DOMAIN account.dbs : ~account.dbs[d]})
UnapprovedChanges(account) == C!Total(account.rules, DOMAIN account.rules)

Named(where, what, holds) == IF holds THEN {<<where, what>>} ELSE {}

DriftFollowsAccount ==
    Judged("history") =>
        LET old == input.before
            new == input.after
            trails(account) == Cardinality(DOMAIN account.trails)
            logging(account) == Cardinality(Logging(account))
            fall == logging(old) * trails(new) - logging(new) * trails(old)
            coverage == <<"log_aggregator", "critical_events_logged_percentage">>
            trailless == {} \in {DOMAIN old.trails, DOMAIN new.trails}
        IN  /\ verdict.raises <=> trailless
            /\ ~trailless =>
                  /\ verdict.items \ {coverage} =
                        Named("iam_access_review", "orphaned_accounts",
                              Cardinality(Unused(new)) > Cardinality(Unused(old)))
                        \cup Named("encryption_status", "unencrypted_data_stores",
                                   UnencryptedStores(new) > UnencryptedStores(old))
                        \cup Named("config_drift", "open_security_groups", new.http > old.http)
                        \cup Named("config_drift", "unapproved_changes_detected",
                                   UnapprovedChanges(new) > UnapprovedChanges(old))
                  /\ coverage \in verdict.items => fall > 0
                  /\ 1000 * fall >= trails(old) * trails(new) => coverage \in verdict.items

(***************************************************************************)
(* A framework that is audit ready has no pillar at zero.                  *)
(***************************************************************************)
ReadyHasNoDeadPillar ==
    Judged("scorecard") =>
        \A f \in DOMAIN verdict.card.frameworks :
            LET summary == verdict.card.frameworks[f] IN
            summary.readiness = "Audit Ready" =>
                \A p \in DOMAIN summary.pillars : summary.pillars[p] > 0

(***************************************************************************)
(* A repository is compliant only where its branch protection was read and *)
(* is what a review needs, and nothing that was read says otherwise.       *)
(***************************************************************************)
CompliantRepoIsReviewed ==
    Judged("repository") /\ verdict.compliant =>
        LET repo == input.repo IN
        /\ input.token /\ "protection" \notin input.unread
        /\ repo.protected /\ repo.approvals >= 1 /\ ~repo.forcePush /\ ~repo.deletions
        /\ repo.dismissStale => T!IsCompliantForSoc2(repo)
        /\ "secrets" \notin input.unread => repo.secrets = 0
        /\ "dependabot" \notin input.unread => T!Breaches(repo.alerts, "critical", 7) = {}

(***************************************************************************)
(* The installation calls itself compliant only without a failed check and *)
(* with most of its checks passed.                                         *)
(***************************************************************************)
CompliantHomeHasNoFailure ==
    Judged("home") /\ verdict.status = "COMPLIANT" =>
        LET checks == T!Checks(input)
            with(s) == {c \in DOMAIN checks : checks[c].status = s}
        IN  with("FAIL") = {} /\ Cardinality(with("PASS")) >= 4

(***************************************************************************)
(* A condition that asks for all it names: comparisons of terms, joined by *)
(* and.  An equation has a number on one side, since null equals null, and *)
(* a divisor is a constant other than zero, since null divided by a metric *)
(* that is zero is zero.                                                   *)
(***************************************************************************)
Tests == {"and", "==", "<", "<=", ">", ">="}
Computations == {"add", "sub", "mul", "div", "mod"}
Terms == {"name", "const", "neg"} \cup Computations

NonZero(node) == node.op = "const" /\ node.n # 0

Demanding(condition) ==
    LET n == Len(condition)
        ops(i) == {condition[condition[i].args[k]].op : k \in DOMAIN condition[i].args}
    IN  /\ n \in Nat \ {0} /\ DOMAIN condition = 1..n /\ condition[n].op \in Tests
        /\ \A i \in 1..n :
            LET node == condition[i] IN
            /\ \A k \in DOMAIN node.args : node.args[k] \in 1..(i - 1)
            /\ i < n => \E j \in (i + 1)..n : \E k \in DOMAIN condition[j].args : condition[j].args[k] = i
            /\ \/ node.op \in {"name", "const"} /\ node.args = << >>
               \/ node.op = "neg" /\ DOMAIN node.args = {1} /\ ops(i) \subseteq Terms
               \/ /\ node.op \in Computations /\ DOMAIN node.args = {1, 2} /\ ops(i) \subseteq Terms
                  /\ node.op \in {"div", "mod"} => NonZero(condition[node.args[2]])
               \/ node.op = "and" /\ ops(i) \subseteq Tests
               \/ /\ node.op \in Tests \ {"and"} /\ DOMAIN node.args = {1, 2} /\ ops(i) \subseteq Terms
                  /\ node.op = "==" => ops(i) # {"name"}

Defaults == {P!DefaultEnterpriseRules[id] : id \in DOMAIN P!DefaultEnterpriseRules}

(***************************************************************************)
(* A rule, a default one or another that asks for all it names, passes on  *)
(* metrics that were measured, every one it names; and where the exit code *)
(* is 0, what did not pass was skipped for want of a collector.            *)
(***************************************************************************)
MissingNeverPasses ==
    Judged("policy") =>
        LET metrics == P!MetricsByTarget(input)
            rules   == verdict.rules
            results == verdict.report.results
        IN  \A id \in DOMAIN results :
               /\ results[id] = "PASS" /\ (rules[id] \in Defaults \/ Demanding(rules[id].condition)) =>
                     \A n \in P!Names(rules[id].condition) :
                         /\ n \in DOMAIN metrics[rules[id].target]
                         /\ metrics[rules[id].target][n] # P!Nothing
               /\ verdict.exit = 0 /\ results[id] # "PASS" =>
                     rules[id].target \notin DOMAIN metrics
=============================================================================
