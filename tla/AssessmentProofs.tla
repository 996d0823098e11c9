-------------------------- MODULE AssessmentProofs --------------------------
(***************************************************************************)
(* The verdicts of Assessment, for any snapshots, accounts, scores,        *)
(* repositories, installations and rules: what a control, a framework, a   *)
(* repository, an installation and a rule must be to pass, what a failed   *)
(* call does to a snapshot, and what of an account a drift report names.   *)
(* Verdicts is the invariant: a verdict is the one of its input.  The rest *)
(* says what those verdicts are.                                           *)
(***************************************************************************)
EXTENDS Assessment, Sums, FiniteSetTheorems, WellFoundedInduction, TLAPS

-----------------------------------------------------------------------------
(***************************************************************************)
(* From a snapshot to the control's score.  Graded is what Scoring makes   *)
(* of evidence by its quality and its raw score; the collector and the     *)
(* score together come down to the points below, one formula per control.  *)
(***************************************************************************)
Graded(c, quality, raw) ==
    LET score == S!Clamp(IF quality = "partial" THEN S!Least(70 * S!Unit, raw) ELSE raw) IN
    CASE quality = "none" -> S!Control(c, "NOT_ASSESSED", 0, "none")
      [] quality = "failed" -> S!Control(c, "FAIL", 0, "failed")
      [] OTHER -> S!Control(c, S!StatusOf(score), score, quality)

LEMMA CollectorOf ==
    ASSUME NEW snap
    PROVE  /\ EvidenceOf("CC6.1", snap) = C!CollectIamAccessReview("CC6.1", snap)
           /\ EvidenceOf("CC6.2", snap) = C!CollectConfigDrift("CC6.2", snap)
           /\ EvidenceOf("CC7.1", snap) = C!CollectLogAggregator("CC7.1", snap)
           /\ EvidenceOf("C1.2", snap) = C!CollectEncryptionStatus("C1.2", snap)
           /\ EvidenceOf("C1.4", snap) = C!CollectRetentionCheck("C1.4", snap)
           /\ EvidenceOf("A1.2", snap) = C!CollectResilienceTesting("A1.2", snap)
           /\ EvidenceOf("ZT-1", snap) = C!CollectZtContinuousVerification("ZT-1", snap)
    BY DEF EvidenceOf

LEMMA Eval1 ==
    ASSUME NEW e
    PROVE  /\ S!Eval("CC6.1", e) = S!EvalIam(e)
           /\ S!Eval("CC7.1", e) = S!EvalLogging(e)
           /\ S!Eval("CC6.2", e) = S!EvalConfigDrift(e)
           /\ S!Eval("C1.2", e) = S!EvalEncryption(e)
           /\ S!Eval("C1.4", e) = S!EvalRetention(e)
           /\ S!Eval("A1.2", e) = S!EvalResilience(e)
           /\ S!Eval("ZT-1", e) = S!EvalZeroTrust(e)
    BY DEF S!Eval

LEMMA Eval2 ==
    ASSUME NEW e
    PROVE  /\ S!EvalIam(e) = Graded("CC6.1", e.quality, S!IamScore(e.metrics))
           /\ S!EvalLogging(e) = Graded("CC7.1", e.quality, S!LoggingScore(e.metrics))
           /\ S!EvalConfigDrift(e) = Graded("CC6.2", e.quality, S!ConfigScore(e.metrics))
           /\ S!EvalEncryption(e) = Graded("C1.2", e.quality, S!EncryptionScore(e.metrics))
           /\ S!EvalRetention(e) = Graded("C1.4", e.quality, S!RetentionScore(e.metrics))
           /\ S!EvalResilience(e) = Graded("A1.2", e.quality, S!ResilienceScore(e.metrics))
           /\ S!EvalZeroTrust(e) = Graded("ZT-1", e.quality, S!ZeroTrustScore(e.metrics))
<1>1. S!EvalIam(e) = Graded("CC6.1", e.quality, S!IamScore(e.metrics))
    BY Zenon DEF S!EvalIam, S!Evaluate, Graded
<1>2. S!EvalLogging(e) = Graded("CC7.1", e.quality, S!LoggingScore(e.metrics))
    BY Zenon DEF S!EvalLogging, S!Evaluate, Graded
<1>3. S!EvalConfigDrift(e) = Graded("CC6.2", e.quality, S!ConfigScore(e.metrics))
    BY Zenon DEF S!EvalConfigDrift, S!Evaluate, Graded
<1>4. S!EvalEncryption(e) = Graded("C1.2", e.quality, S!EncryptionScore(e.metrics))
    BY Zenon DEF S!EvalEncryption, S!Evaluate, Graded
<1>5. S!EvalRetention(e) = Graded("C1.4", e.quality, S!RetentionScore(e.metrics))
    BY Zenon DEF S!EvalRetention, S!Evaluate, Graded
<1>6. S!EvalResilience(e) = Graded("A1.2", e.quality, S!ResilienceScore(e.metrics))
    BY Zenon DEF S!EvalResilience, S!Evaluate, Graded
<1>7. S!EvalZeroTrust(e) = Graded("ZT-1", e.quality, S!ZeroTrustScore(e.metrics))
    BY Zenon DEF S!EvalZeroTrust, S!Evaluate, Graded
<1> QED
    BY <1>1, <1>2, <1>3, <1>4, <1>5, <1>6, <1>7

LEMMA PayloadIs ==
    ASSUME NEW c, NEW snap, NEW light, NEW metrics
    PROVE  /\ snap = C!Raised => C!Payload(c, snap, light, metrics).quality = "failed"
                                 /\ C!Payload(c, snap, light, metrics).status = "red"
           /\ snap # C!Raised => /\ C!Payload(c, snap, light, metrics).quality = snap.quality
                                 /\ C!Payload(c, snap, light, metrics).status = C!WithQuality(light, snap.quality)
                                 /\ C!Payload(c, snap, light, metrics).metrics = metrics
    BY DEF C!Payload, C!FailurePayload

LEMMA SnapIs ==
    ASSUME NEW d
    PROVE  /\ Snap(d, "failed") = C!Raised
           /\ \A q \in {"complete", "partial"} :
                 Snap(d, q) # C!Raised /\ Snap(d, q).data = d /\ Snap(d, q).quality = q
    BY DEF Snap, C!Raised

-----------------------------------------------------------------------------
IamPoints(d) ==
    60000 - S!Least(30000, 5000 * S!Number(d.orphaned_accounts))
          - S!Rule(d.days_since_last_review > 90, 20)

ConfigPoints(d) ==
    50000 - S!Least(40000, 20000 * S!Number(d.open_http_listeners))
          - S!Least(30000, 15000 * S!Number(d.unapproved_changes))

Short(share, of) == IF share < of THEN of - share ELSE 0

LoggingPoints(d) ==
    80000 - S!Rule(S!Number(d.active_trails) = 0, 50)
          - S!Least(40000, (15 * Short(S!Number(d.log_coverage_percent), 95000)) \div 10)
          - S!Rule(d.max_gap_hours > 24000, 20)

AtRest(d) ==
    IF S!Number(d.total_confidential_resources) > 0
    THEN (100000 * S!Number(d.encrypted_at_rest)) \div S!Number(d.total_confidential_resources)
    ELSE 0
InTransit(d) ==
    IF S!Number(d.weak_cipher_endpoints) = 0 /\ S!Number(d.total_confidential_resources) > 0
    THEN 100000 ELSE 0

EncryptionPoints(d) ==
    100000 - S!Rule(S!Number(d.total_confidential_resources) = 0, 40)
           - S!Least(50000, 25000 * S!Number(d.unencrypted_cui_count))
           - (4 * Short(AtRest(d), 100000)) \div 10
           - (4 * Short(InTransit(d), 100000)) \div 10
           - S!Rule(~(d.fips_compliant_keys > 0), 10)

Fitting(d) ==
    IF S!Number(d.repositories_missing_lifecycle) <= S!Number(d.repositories_checked)
    THEN S!Number(d.repositories_checked) - S!Number(d.repositories_missing_lifecycle) ELSE 0
FittingShare(d) ==
    IF S!Number(d.repositories_checked) > 0
    THEN (100000 * Fitting(d)) \div S!Number(d.repositories_checked) ELSE 100000

RetentionPoints(d) ==
    100000 - S!Rule(S!Number(d.repositories_checked) = 0, 40)
           - S!Least(40000, 10000 * S!Number(d.objects_past_retention))
           - (7 * Short(FittingShare(d), 100000)) \div 10
           - S!Rule(~(S!Number(d.repositories_checked) > 0 /\ S!Number(d.objects_past_retention) = 0), 20)

ResiliencePoints(d) ==
    100000 - S!Rule(~(S!Measured(d.last_backup_hours_ago) /\ d.last_backup_hours_ago <= 24000), 40)
           - S!Least(25000, 5000 * S!Number(d.backup_jobs_failed_30d))
           - S!Rule(~(S!Measured(d.last_restore_test_days_ago) /\ d.last_restore_test_days_ago <= 90), 30)

Failing(d) == {x \in DOMAIN C!ZtChecks(d) : ~C!ZtChecks(d)[x]}
ZeroTrustPoints(d) == (100000 * (5 - C!Cardinality(Failing(d)))) \div 5

LEMMA IamKept ==
    ASSUME NEW d \in SnapshotData("CC6.1"), NEW snap, snap.data = d
    PROVE  S!IamScore(C!Keep(snap, C!IamMetrics)) = IamPoints(d)
<1>1. /\ DOMAIN d = {"orphaned_accounts", "days_since_last_review", "total_identities"}
      /\ d.orphaned_accounts \in Metric /\ d.days_since_last_review \in Metric
    BY DEF SnapshotData
<1> DEFINE m == C!Keep(snap, C!IamMetrics)
<1>2. /\ DOMAIN m = C!IamMetrics
      /\ m.orphaned_accounts = d.orphaned_accounts /\ m.days_since_last_review = d.days_since_last_review
    BY <1>1 DEF C!Keep, C!IamMetrics, C!Get
<1> HIDE DEF m
<1>3. /\ S!Get(m, "orphaned_accounts") = d.orphaned_accounts
      /\ S!Get(m, "days_since_last_review") = d.days_since_last_review
      /\ S!Number(S!Either(m, "mfa_enforced_percentage", "mfa_enforcement_percent")) = 0
    BY <1>2 DEF C!IamMetrics, S!Get, S!Either, S!Number, S!None
<1> QED
    BY <1>1, <1>3 DEF m, S!IamScore, S!Full, S!Unit, S!Least, IamPoints, S!Number,
        S!None, C!None, Metric

LEMMA ConfigKept ==
    ASSUME NEW d \in SnapshotData("CC6.2"), NEW snap, snap.data = d
    PROVE  S!ConfigScore(C!Keep(snap, C!ConfigMetrics)) = ConfigPoints(d)
<1>1. /\ DOMAIN d = C!ConfigMetrics
      /\ d.open_http_listeners \in Metric /\ d.unapproved_changes \in Metric
      /\ d.config_noncompliant_resources \in Metric
    BY DEF SnapshotData, C!ConfigMetrics
<1> DEFINE m == C!Keep(snap, C!ConfigMetrics)
<1>2. /\ DOMAIN m = C!ConfigMetrics
      /\ m.open_http_listeners = d.open_http_listeners /\ m.unapproved_changes = d.unapproved_changes
    BY <1>1 DEF C!Keep, C!ConfigMetrics, C!Get
<1> HIDE DEF m
<1>3. /\ S!Either(m, "open_security_groups", "open_http_listeners") = d.open_http_listeners
      /\ S!Either(m, "unapproved_changes_detected", "unapproved_changes") = d.unapproved_changes
      /\ S!Number(S!Get(m, "resources_evaluated")) = 0
    BY <1>2 DEF C!ConfigMetrics, S!Get, S!Either, S!Number, S!None
<1>4. S!Rule(S!Number(S!Get(m, "resources_evaluated")) = 0, 50) = 50000
    BY <1>3 DEF S!Rule, S!Unit
<1> QED
    BY <1>1, <1>3, <1>4 DEF m, S!ConfigScore, S!Full, S!Unit, S!Least, ConfigPoints, S!Number, S!None, C!None, Metric

LEMMA LoggingKept ==
    ASSUME NEW d \in SnapshotData("CC7.1"), NEW snap, snap.data = d
    PROVE  S!LoggingScore(C!Keep(snap, C!LogMetrics)) = LoggingPoints(d)
<1>1. /\ DOMAIN d = C!LogMetrics
      /\ d.active_trails \in Metric /\ d.log_coverage_percent \in Metric
      /\ d.max_gap_hours \in Metric /\ d.cui_retention_days = -1
    BY DEF SnapshotData, C!LogMetrics, C!None
<1> DEFINE m == C!Keep(snap, C!LogMetrics)
<1>2. /\ DOMAIN m = C!LogMetrics
      /\ m.active_trails = d.active_trails /\ m.log_coverage_percent = d.log_coverage_percent
      /\ m.max_gap_hours = d.max_gap_hours /\ m.cui_retention_days = -1
    BY <1>1 DEF C!Keep, C!LogMetrics, C!Get
<1> HIDE DEF m
<1>3. /\ S!Either(m, "critical_events_logged_percentage", "log_coverage_percent") = d.log_coverage_percent
      /\ S!Either(m, "log_streams_active", "active_trails") = d.active_trails
      /\ S!Either(m, "longest_gap_hours", "max_gap_hours") = d.max_gap_hours
      /\ S!Number(S!Either(m, "retention_days", "cui_retention_days")) = 0
    BY <1>2 DEF C!LogMetrics, S!Get, S!Either, S!Number, S!None
<1>4. S!Rule(S!Number(S!Either(m, "retention_days", "cui_retention_days")) < 365, 20) = 20000
    BY <1>3 DEF S!Rule, S!Unit
<1> DEFINE x == S!Number(d.log_coverage_percent)
<1>5. x \in Nat
    BY <1>1 DEF S!Number, S!None, C!None, Metric
<1> DEFINE short == IF x < 95 * S!Unit THEN S!Least(40 * S!Unit, (15 * (95 * S!Unit - x)) \div 10) ELSE 0
<1>6. short = S!Least(40000, (15 * Short(x, 95000)) \div 10) /\ short \in Int
    BY <1>5 DEF S!Least, S!Unit, Short
<1> DEFINE idle == S!Rule(S!Number(d.active_trails) = 0, 50)
           gap == S!Rule(d.max_gap_hours > 24000, 20)
<1>7. idle \in Int /\ gap \in Int /\ gap = S!Rule(d.max_gap_hours > 24 * S!Unit, 20)
    BY DEF S!Rule, S!Unit
<1>8. S!LoggingScore(m) = S!Full - idle - short - 20000 - gap
    BY <1>3, <1>4, <1>5, <1>7 DEF S!LoggingScore
<1> QED
    <2>1. LoggingPoints(d) = 80000 - idle - short - gap
        BY <1>5, <1>6 DEF LoggingPoints
    <2> HIDE DEF short, idle, gap
    <2> QED
        BY <2>1, <1>6, <1>7, <1>8 DEF S!Full, S!Unit, m

LEMMA EncryptionKept ==
    ASSUME NEW d \in SnapshotData("C1.2"), NEW snap, snap.data = d
    PROVE  S!EncryptionScore(C!Keep(snap, C!EncryptionMetrics)) = EncryptionPoints(d)
<1>1. /\ DOMAIN d = C!EncryptionMetrics
      /\ d.total_confidential_resources \in Metric /\ d.encrypted_at_rest \in Metric
      /\ d.unencrypted_cui_count \in Metric /\ d.weak_cipher_endpoints \in Metric
      /\ d.fips_compliant_keys \in Metric
    BY DEF SnapshotData, C!EncryptionMetrics
<1> DEFINE m == C!Keep(snap, C!EncryptionMetrics)
<1>2. /\ DOMAIN m = C!EncryptionMetrics
      /\ m.total_confidential_resources = d.total_confidential_resources
      /\ m.encrypted_at_rest = d.encrypted_at_rest
      /\ m.unencrypted_cui_count = d.unencrypted_cui_count
      /\ m.weak_cipher_endpoints = d.weak_cipher_endpoints
      /\ m.fips_compliant_keys = d.fips_compliant_keys
    BY <1>1 DEF C!Keep, C!EncryptionMetrics, C!Get
<1> HIDE DEF m
<1>3. /\ S!Get(m, "total_confidential_resources") = d.total_confidential_resources
      /\ S!Get(m, "encrypted_at_rest") = d.encrypted_at_rest
      /\ S!Either(m, "unencrypted_data_stores", "unencrypted_cui_count") = d.unencrypted_cui_count
      /\ S!Get(m, "weak_cipher_endpoints") = d.weak_cipher_endpoints
      /\ S!Get(m, "fips_compliant_keys") = d.fips_compliant_keys
      /\ "encrypted_at_rest_percentage" \notin DOMAIN m
      /\ ~S!Measured(S!Get(m, "tls_enforced_percentage"))
      /\ ~S!Measured(S!Get(m, "fips_compliant_algorithms"))
    BY <1>2 DEF C!EncryptionMetrics, S!Get, S!Either, S!Measured
<1> DEFINE total == S!Number(d.total_confidential_resources)
           sealed == S!Number(d.encrypted_at_rest)
           bare == S!Number(d.unencrypted_cui_count)
           weak == S!Number(d.weak_cipher_endpoints)
           rest == IF total > 0 THEN (S!Full * sealed) \div total ELSE 0
           transit == IF weak = 0 /\ total > 0 THEN S!Full ELSE 0
           none == S!Rule(total = 0, 40)
           unsealed == IF rest < S!Full THEN (4 * (S!Full - rest)) \div 10 ELSE 0
           exposed == IF transit < S!Full THEN (4 * (S!Full - transit)) \div 10 ELSE 0
           weakKeys == S!Rule(~(d.fips_compliant_keys > 0), 10)
           stores == S!Least(50 * S!Unit, 25 * S!Unit * bare)
<1>4. total \in Nat /\ sealed \in Nat /\ bare \in Nat /\ weak \in Nat
    BY <1>1 DEF S!Number, S!None, C!None, Metric
<1>5. rest = AtRest(d) /\ transit = InTransit(d) /\ rest \in Int /\ transit \in Int
    BY <1>4 DEF AtRest, InTransit, S!Full, S!Unit
<1>6. /\ unsealed = (4 * Short(AtRest(d), 100000)) \div 10 /\ unsealed \in Int
      /\ exposed = (4 * Short(InTransit(d), 100000)) \div 10 /\ exposed \in Int
    <2> HIDE DEF rest, transit, total, sealed, weak, bare
    <2> QED
        BY <1>5 DEF Short, S!Full, S!Unit
<1>7. none \in Int /\ weakKeys \in Int
    BY DEF S!Rule, S!Unit
<1>8. stores = S!Least(50000, 25000 * bare) /\ stores \in Int
    BY <1>4 DEF S!Least, S!Unit
<1>9. none = S!Rule(total = 0 /\ ~("encrypted_at_rest_percentage" \in DOMAIN m), 40)
    BY <1>3 DEF S!Rule
<1>10. S!EncryptionScore(m) = S!Full - none - stores - unsealed - exposed - weakKeys
    <2> HIDE DEF none, stores, unsealed, exposed, weakKeys
    <2>1. S!EncryptionScore(m) =
            S!Full - S!Rule(total = 0 /\ ~("encrypted_at_rest_percentage" \in DOMAIN m), 40)
                   - S!Least(50 * S!Unit, 25 * S!Unit * bare)
                   - (IF rest < S!Full THEN (4 * (S!Full - rest)) \div 10 ELSE 0)
                   - (IF transit < S!Full THEN (4 * (S!Full - transit)) \div 10 ELSE 0)
                   - S!Rule(~(d.fips_compliant_keys > 0), 10)
        BY ZenonT(40), <1>3 DEF S!EncryptionScore
    <2> QED
        BY Zenon, <1>9, <2>1 DEF stores, unsealed, exposed, weakKeys
<1>11. EncryptionPoints(d) = 100000 - none - stores - unsealed - exposed - weakKeys
    BY <1>6, <1>8 DEF EncryptionPoints
<1> HIDE DEF none, stores, unsealed, exposed, weakKeys
<1> QED
    BY <1>10, <1>11 DEF m, S!Full, S!Unit

LEMMA RetentionKept ==
    ASSUME NEW d \in SnapshotData("C1.4"),
           NEW m, m = [repositories_checked |-> C!Get(d, "repositories_checked"),
               repositories_missing_lifecycle |-> C!Get(d, "repositories_missing_lifecycle"),
               buckets_missing_lifecycle |-> C!Get(d, "repositories_missing_lifecycle"),
               objects_past_retention |-> C!Get(d, "objects_past_retention")]
    PROVE  S!RetentionScore(m) = RetentionPoints(d)
<1>1. /\ DOMAIN d = {"repositories_checked", "repositories_missing_lifecycle", "objects_past_retention"}
      /\ d.repositories_checked \in Metric /\ d.repositories_missing_lifecycle \in Metric
      /\ d.objects_past_retention \in Metric
    BY DEF SnapshotData
<1>2. /\ "compliant_repositories" \notin DOMAIN m /\ "deletion_certificates_valid" \notin DOMAIN m
      /\ S!Get(m, "repositories_checked") = d.repositories_checked
      /\ S!Get(m, "repositories_missing_lifecycle") = d.repositories_missing_lifecycle
      /\ S!Get(m, "objects_past_retention") = d.objects_past_retention
    BY <1>1 DEF C!Get, S!Get
<1> DEFINE repos == S!Number(d.repositories_checked)
           missing == S!Number(d.repositories_missing_lifecycle)
           overdue == S!Number(d.objects_past_retention)
           fit == S!Max({0, repos - missing})
           none == S!Rule(repos = 0, 40)
           late == S!Least(40 * S!Unit, 10 * S!Unit * overdue)
           unfit == IF repos > 0 /\ fit < repos
                    THEN (7 * (S!Full - (S!Full * fit) \div repos)) \div 10 ELSE 0
           kept == S!Rule(~(repos > 0 /\ overdue = 0), 20)
<1>3. repos \in Nat /\ missing \in Nat /\ overdue \in Nat
    BY <1>1 DEF S!Number, S!None, C!None, Metric
<1>4. fit = Fitting(d) /\ fit \in Nat /\ fit <= repos
    <2>1. CASE missing <= repos
        <3> DEFINE r == repos - missing
        <3>1. r \in Nat /\ r <= repos
            BY <1>3, <2>1
        <3> HIDE DEF r
        <3>2. S!Max({0, r}) = r
            BY <3>1 DEF S!Max
        <3> QED
            BY <2>1, <3>1, <3>2 DEF Fitting, r
    <2>2. CASE ~(missing <= repos)
        <3> DEFINE r == repos - missing
        <3>1. r \in Int /\ r < 0
            BY <1>3, <2>2
        <3> HIDE DEF r
        <3>2. S!Max({0, r}) = 0
            BY <3>1 DEF S!Max
        <3> QED
            BY <1>3, <2>2, <3>1, <3>2 DEF Fitting, r
    <2> QED
        BY <2>1, <2>2
<1>5. none \in Int /\ kept \in Int
    BY DEF S!Rule, S!Unit
<1>6. late = S!Least(40000, 10000 * overdue) /\ late \in Int
    BY <1>3 DEF S!Least, S!Unit
<1>7. unfit = (7 * Short(FittingShare(d), 100000)) \div 10 /\ unfit \in Int
    <2> HIDE DEF repos, missing, overdue, fit
    <2>1. CASE repos > 0 /\ fit < repos
        <3> DEFINE share == (100000 * fit) \div repos
        <3>1. share \in Int /\ share < 100000
            BY <1>3, <1>4, <2>1
        <3>2. FittingShare(d) = share /\ unfit = (7 * (100000 - share)) \div 10
            BY <1>4, <2>1 DEF FittingShare, repos, S!Full, S!Unit
        <3> HIDE DEF share, unfit
        <3> QED
            BY <3>1, <3>2 DEF Short
    <2>2. CASE repos > 0 /\ fit = repos
        <3>1. (100000 * fit) \div repos = 100000
            BY <1>3, <2>2
        <3>2. FittingShare(d) = 100000 /\ unfit = 0
            BY <1>3, <1>4, <2>2, <3>1 DEF FittingShare, repos
        <3> HIDE DEF unfit
        <3> QED
            BY <3>2 DEF Short
    <2>3. CASE repos = 0
        <3>1. FittingShare(d) = 100000 /\ unfit = 0
            BY <2>3 DEF FittingShare, repos
        <3> HIDE DEF unfit
        <3> QED
            BY <3>1 DEF Short
    <2> QED
        BY <1>3, <1>4, <2>1, <2>2, <2>3
<1>8. S!RetentionScore(m) = S!Full - none - late - unfit - kept
    BY ZenonT(40), <1>2 DEF S!RetentionScore
<1>9. RetentionPoints(d) = 100000 - none - late - unfit - kept
    BY <1>6, <1>7 DEF RetentionPoints
<1> HIDE DEF none, late, unfit, kept
<1> QED
    BY <1>8, <1>9 DEF S!Full, S!Unit

LEMMA ResilienceKept ==
    ASSUME NEW d \in SnapshotData("A1.2"),
           NEW m, NEW n, m = [issues |-> n,
              failover_test_passed |-> d.failover_test_passed,
              last_backup_hours_ago |-> C!Get(d, "last_backup_hours_ago"),
              last_restore_test_days_ago |-> C!Get(d, "last_restore_test_days_ago"),
              backup_jobs_failed_30d |-> C!Get(d, "backup_jobs_failed_30d")]
    PROVE  S!ResilienceScore(m) = ResiliencePoints(d)
<1>1. /\ DOMAIN d = {"last_backup_hours_ago", "last_restore_test_days_ago",
                     "failover_test_passed", "backup_jobs_failed_30d"}
      /\ d.last_backup_hours_ago \in Metric /\ d.last_restore_test_days_ago \in Metric
      /\ d.backup_jobs_failed_30d \in Metric
    BY DEF SnapshotData
<1>2. /\ "successful_backups_24h" \notin DOMAIN m /\ "restore_tested_90d" \notin DOMAIN m
      /\ S!Get(m, "last_backup_hours_ago") = d.last_backup_hours_ago
      /\ S!Get(m, "last_restore_test_days_ago") = d.last_restore_test_days_ago
      /\ S!Get(m, "backup_jobs_failed_30d") = d.backup_jobs_failed_30d
      /\ S!Get(m, "rto_target_met") = -1 /\ S!Get(m, "rpo_target_met") = -1
    BY <1>1 DEF C!Get, S!Get, S!None
<1> DEFINE hours == d.last_backup_hours_ago
           restore == d.last_restore_test_days_ago
           success == S!One(S!Measured(hours) /\ hours <= 24 * S!Unit)
           jobs == S!One(S!Measured(hours))
           late == S!Rule(jobs = 0 \/ success = 0, 40)
           some == S!Rule(success # 0 /\ success < jobs, 20)
           failed == S!Least(25 * S!Unit, 5 * S!Unit * S!Number(d.backup_jobs_failed_30d))
           untested == S!Rule(~(S!Measured(restore) /\ restore <= 90), 30)
           rto == S!Rule(S!Get(m, "rto_target_met") = 0, 15)
           rpo == S!Rule(S!Get(m, "rpo_target_met") = 0, 15)
<1>3. S!ResilienceScore(m) = S!Full - late - some - failed - untested - rto - rpo
    BY ZenonT(40), <1>2 DEF S!ResilienceScore
<1>4. rto = 0 /\ rpo = 0
    BY <1>2 DEF S!Rule
<1>5. /\ late = S!Rule(~(S!Measured(hours) /\ hours <= 24000), 40) /\ late \in Int /\ some = 0
      /\ untested \in Int
    BY DEF S!Rule, S!One, S!Unit
<1>6. failed = S!Least(25000, 5000 * S!Number(d.backup_jobs_failed_30d)) /\ failed \in Int
    <2>1. S!Number(d.backup_jobs_failed_30d) \in Nat
        BY <1>1 DEF S!Number, S!None, C!None, Metric
    <2> QED
        BY <2>1 DEF S!Least, S!Unit
<1>7. ResiliencePoints(d) = 100000 - late - failed - untested
    BY <1>5, <1>6 DEF ResiliencePoints
<1> HIDE DEF late, some, failed, untested, rto, rpo
<1> QED
    BY <1>3, <1>4, <1>5, <1>6, <1>7 DEF S!Full, S!Unit

LEMMA ZeroTrustKept ==
    ASSUME NEW d, NEW m, NEW n, m = [checks_passed |-> 5 - n, checks_total |-> 5, issues |-> n], n \in 0..5
    PROVE  S!ZeroTrustScore(m) = (100000 * (5 - n)) \div 5
<1>1. S!Get(m, "checks_total") = 5 /\ S!Get(m, "checks_passed") = 5 - n
    BY DEF S!Get
<1>2. S!Number(S!Get(m, "checks_total")) = 5 /\ S!Number(S!Get(m, "checks_passed")) = 5 - n
    BY <1>1 DEF S!Number, S!None
<1>3. S!Number(S!Get(m, "checks_total")) > 0 /\ S!Number(S!Get(m, "checks_total")) # 0
    BY <1>2
<1>4. S!ZeroTrustScore(m) = (S!Full * S!Number(S!Get(m, "checks_passed"))) \div S!Number(S!Get(m, "checks_total"))
    BY ZenonT(40), <1>3 DEF S!ZeroTrustScore
<1> QED
    BY <1>2, <1>4 DEF S!Full, S!Unit

-----------------------------------------------------------------------------
(* The scorecard reads the evidence of the one day there is. *)
LEMMA OutcomeIs ==
    ASSUME NEW c \in Controls, NEW snap
    PROVE  Outcome(c, snap) = [light |-> EvidenceOf(c, snap).status,
                               control |-> S!Eval(c, EvidenceOf(c, snap))]
<1> DEFINE e == EvidenceOf(c, snap)
           dated == [today |-> [x \in {c} |-> e]]
<1>1. /\ DOMAIN dated = {"today"} /\ DOMAIN dated \ {"manifests"} = {"today"}
      /\ dated["today"] = [x \in {c} |-> e]
    OBVIOUS
<1>2. <<"today">>[1] = "today"
    OBVIOUS
<1>3. S!Max({i \in DOMAIN <<"today">> : <<"today">>[i] \in {"today"}}) = 1
    <2>1. {i \in DOMAIN <<"today">> : <<"today">>[i] \in {"today"}} = {1}
        OBVIOUS
    <2>2. S!Max({1}) = 1
        BY DEF S!Max
    <2> QED
        BY <2>1, <2>2
<1>4. {S!Scored[i] : i \in DOMAIN S!Scored} = Controls
    BY DEF S!Scored, Controls
<1> HIDE DEF dated, e
<1>5. S!ReadEvidenceDir(dated, <<"today">>, "")[c] = e
    BY <1>1, <1>2, <1>3, <1>4 DEF S!ReadEvidenceDir
<1> QED
    BY <1>5 DEF Outcome, e, dated

Points(c, d) ==
    CASE c = "CC6.1" -> IamPoints(d)
      [] c = "CC6.2" -> ConfigPoints(d)
      [] c = "CC7.1" -> LoggingPoints(d)
      [] c = "C1.2" -> EncryptionPoints(d)
      [] c = "C1.4" -> RetentionPoints(d)
      [] c = "A1.2" -> ResiliencePoints(d)
      [] c = "ZT-1" -> ZeroTrustPoints(d)

(* A failed collection is graded without a look at its metrics. *)
LEMMA FailedIs ==
    ASSUME NEW c, NEW raw
    PROVE  Graded(c, "failed", raw) = S!Control(c, "FAIL", 0, "failed")
    BY DEF Graded

LEMMA FailingIs ==
    ASSUME NEW d
    PROVE  /\ C!Cardinality(Failing(d)) \in 0..5
           /\ C!Cardinality(Failing(d)) = 0 <=> Failing(d) = {}
           /\ IsFiniteSet(Failing(d))
<1>1. DOMAIN C!ZtChecks(d) = {"iam_review_current", "encryption_green", "mfa_enforced",
                              "orphaned_within_threshold", "session_timeout_compliant"}
    BY DEF C!ZtChecks
<1> DEFINE five == DOMAIN C!ZtChecks(d)
<1>2. IsFiniteSet(five) /\ Cardinality(five) = 5
    <2> DEFINE one == {"iam_review_current"}
               two == one \cup {"encryption_green"}
               three == two \cup {"mfa_enforced"}
               four == three \cup {"orphaned_within_threshold"}
    <2>1. IsFiniteSet(one) /\ Cardinality(one) = 1
        BY FS_Singleton
    <2>2. IsFiniteSet(two) /\ Cardinality(two) = 2
        BY <2>1, FS_AddElement
    <2>3. IsFiniteSet(three) /\ Cardinality(three) = 3
        BY <2>2, FS_AddElement
    <2>4. IsFiniteSet(four) /\ Cardinality(four) = 4
        BY <2>3, FS_AddElement
    <2>5. five = four \cup {"session_timeout_compliant"}
        BY <1>1
    <2> QED
        BY <2>4, <2>5, FS_AddElement
<1> HIDE DEF five
<1>3. Failing(d) \in SUBSET five
    BY DEF Failing, five
<1>4. /\ IsFiniteSet(Failing(d)) /\ Cardinality(Failing(d)) <= 5
      /\ Cardinality(Failing(d)) \in Nat
    BY <1>2, <1>3, FS_Subset, FS_CardinalityType
<1>5. Cardinality(Failing(d)) = 0 <=> Failing(d) = {}
    BY <1>4, FS_EmptySet
<1>6. C!Cardinality(Failing(d)) = Cardinality(Failing(d))
    BY DEF C!Cardinality, Cardinality
<1> QED
    BY <1>4, <1>5, <1>6

(* What a snapshot of data, of quality q, scores. *)
LEMMA OutcomeOfSnap ==
    ASSUME NEW c \in Controls, NEW d \in SnapshotData(c), NEW q \in {"complete", "partial", "failed"},
           NEW snap, IF snap = C!Raised THEN q = "failed" ELSE snap.data = d /\ snap.quality = q
    PROVE  Outcome(c, snap).control = Graded(c, q, Points(c, d))
<1> DEFINE e == EvidenceOf(c, snap)
<1>1. Outcome(c, snap).control = S!Eval(c, e)
    BY OutcomeIs
<1>2. snap = C!Raised \/ (snap # C!Raised /\ snap.data = d)
    OBVIOUS
<1>3. IF snap = C!Raised THEN q = "failed" ELSE snap.quality = q
    OBVIOUS
<1> HIDE DEF e
<1>4. CASE c = "CC6.1"
    <2> DEFINE m == C!Keep(snap, C!IamMetrics)
    <2>1. e = C!Payload("CC6.1", snap, C!ResolveStatus("CC6.1", m), m)
        BY <1>4, CollectorOf DEF e, C!CollectIamAccessReview
    <2>2. S!Eval(c, e) = Graded("CC6.1", e.quality, S!IamScore(e.metrics))
        BY <1>4, Eval1, Eval2
    <2>3. snap # C!Raised => S!IamScore(m) = Points(c, d)
        BY <1>2, <1>4, IamKept DEF Points
    <2> HIDE DEF m
    <2> QED
        BY <1>1, <1>3, <1>4, <2>1, <2>2, <2>3, PayloadIs, FailedIs
<1>5. CASE c = "CC6.2"
    <2> DEFINE m == C!Keep(snap, C!ConfigMetrics)
    <2>1. e = C!Payload("CC6.2", snap, C!WorstStatus({C!StatusConfigMfa(m), C!StatusChangeManagement(m)}), m)
        BY <1>5, CollectorOf DEF e, C!CollectConfigDrift
    <2>2. S!Eval(c, e) = Graded("CC6.2", e.quality, S!ConfigScore(e.metrics))
        BY <1>5, Eval1, Eval2
    <2>3. snap # C!Raised => S!ConfigScore(m) = Points(c, d)
        BY <1>2, <1>5, ConfigKept DEF Points
    <2> HIDE DEF m
    <2> QED
        BY <1>1, <1>3, <1>5, <2>1, <2>2, <2>3, PayloadIs, FailedIs
<1>6. CASE c = "CC7.1"
    <2> DEFINE m == C!Keep(snap, C!LogMetrics)
    <2>1. e = C!Payload("CC7.1", snap, C!ResolveStatus("CC7.1", m), m)
        BY <1>6, CollectorOf DEF e, C!CollectLogAggregator
    <2>2. S!Eval(c, e) = Graded("CC7.1", e.quality, S!LoggingScore(e.metrics))
        BY <1>6, Eval1, Eval2
    <2>3. snap # C!Raised => S!LoggingScore(m) = Points(c, d)
        BY <1>2, <1>6, LoggingKept DEF Points
    <2> HIDE DEF m
    <2> QED
        BY <1>1, <1>3, <1>6, <2>1, <2>2, <2>3, PayloadIs, FailedIs
<1>7. CASE c = "C1.2"
    <2> DEFINE m == C!Keep(snap, C!EncryptionMetrics)
    <2>1. e = C!Payload("C1.2", snap, C!ResolveStatus("C1.2", m), m)
        BY <1>7, CollectorOf DEF e, C!CollectEncryptionStatus
    <2>2. S!Eval(c, e) = Graded("C1.2", e.quality, S!EncryptionScore(e.metrics))
        BY <1>7, Eval1, Eval2
    <2>3. snap # C!Raised => S!EncryptionScore(m) = Points(c, d)
        BY <1>2, <1>7, EncryptionKept DEF Points
    <2> HIDE DEF m
    <2> QED
        BY <1>1, <1>3, <1>7, <2>1, <2>2, <2>3, PayloadIs, FailedIs
<1>8. CASE c = "C1.4"
    <2> DEFINE m == [repositories_checked |-> C!Get(snap.data, "repositories_checked"),
               repositories_missing_lifecycle |-> C!Get(snap.data, "repositories_missing_lifecycle"),
               buckets_missing_lifecycle |-> C!Get(snap.data, "repositories_missing_lifecycle"),
               objects_past_retention |-> C!Get(snap.data, "objects_past_retention")]
    <2>1. e = C!Payload("C1.4", snap, C!ResolveStatus("C1.4", m), m)
        BY <1>8, CollectorOf DEF e, C!CollectRetentionCheck
    <2>2. S!Eval(c, e) = Graded("C1.4", e.quality, S!RetentionScore(e.metrics))
        BY <1>8, Eval1, Eval2
    <2>3. snap # C!Raised => S!RetentionScore(m) = Points(c, d)
        BY <1>2, <1>8, RetentionKept DEF Points
    <2> HIDE DEF m
    <2> QED
        BY <1>1, <1>3, <1>8, <2>1, <2>2, <2>3, PayloadIs, FailedIs
<1>9. CASE c = "A1.2"
    <2> DEFINE m == [issues |-> C!ResilienceIssues(snap.data),
              failover_test_passed |-> snap.data.failover_test_passed,
              last_backup_hours_ago |-> C!Get(snap.data, "last_backup_hours_ago"),
              last_restore_test_days_ago |-> C!Get(snap.data, "last_restore_test_days_ago"),
              backup_jobs_failed_30d |-> C!Get(snap.data, "backup_jobs_failed_30d")]
    <2>1. e = C!Payload("A1.2", snap, C!StatusGenericPass(m), m)
        BY <1>9, CollectorOf DEF e, C!CollectResilienceTesting
    <2>2. S!Eval(c, e) = Graded("A1.2", e.quality, S!ResilienceScore(e.metrics))
        BY <1>9, Eval1, Eval2
    <2>3. snap # C!Raised => S!ResilienceScore(m) = Points(c, d)
        BY <1>2, <1>9, ResilienceKept DEF Points
    <2> HIDE DEF m
    <2> QED
        BY <1>1, <1>3, <1>9, <2>1, <2>2, <2>3, PayloadIs, FailedIs
<1>10. CASE c = "ZT-1"
    <2> DEFINE n == C!Cardinality(Failing(snap.data))
               m == [checks_passed |-> 5 - n, checks_total |-> 5, issues |-> n]
    <2>1. e = C!Payload("ZT-1", snap, C!Light(n > 2, Failing(snap.data) # {}), m)
        BY <1>10, CollectorOf DEF e, C!CollectZtContinuousVerification, Failing
    <2>2. S!Eval(c, e) = Graded("ZT-1", e.quality, S!ZeroTrustScore(e.metrics))
        BY <1>10, Eval1, Eval2
    <2>3. snap # C!Raised => S!ZeroTrustScore(m) = Points(c, d)
        BY <1>2, <1>10, FailingIs, ZeroTrustKept DEF Points, ZeroTrustPoints
    <2> HIDE DEF m
    <2> QED
        BY <1>1, <1>3, <1>10, <2>1, <2>2, <2>3, PayloadIs, FailedIs
<1> QED
    BY <1>4, <1>5, <1>6, <1>7, <1>8, <1>9, <1>10 DEF Controls

LEMMA OutcomeOfData ==
    ASSUME NEW c \in Controls, NEW d \in SnapshotData(c), NEW q \in {"complete", "partial", "failed"}
    PROVE  Outcome(c, Snap(d, q)).control = Graded(c, q, Points(c, d))
    BY SnapIs, OutcomeOfSnap

-----------------------------------------------------------------------------
LEMMA ClampIs ==
    ASSUME NEW x \in Int
    PROVE  /\ x < 0 => S!Clamp(x) = 0
           /\ x >= 0 /\ x <= 100000 => S!Clamp(x) = x
           /\ x > 100000 => S!Clamp(x) = 100000
<1> DEFINE y == S!Least(S!Full, x)
<1>1. y \in Int /\ (x > 100000 => y = 100000) /\ (x <= 100000 => y = x)
    BY DEF S!Least, S!Full, S!Unit
<1> HIDE DEF y
<1>2. y >= 0 => S!Max({0, y}) = y
    BY <1>1 DEF S!Max
<1>3. y < 0 => S!Max({0, y}) = 0
    BY <1>1 DEF S!Max
<1>4. S!Clamp(x) = S!Max({0, y})
    BY DEF S!Clamp, y
<1> QED
    BY <1>1, <1>2, <1>3, <1>4

Capped(quality, raw) ==
    CASE quality = "complete" -> S!Clamp(raw)
      [] quality = "partial" -> S!Clamp(S!Least(70 * S!Unit, raw))
      [] quality = "failed" -> 0

(* Only complete evidence passes, and it takes 85 points. *)
LEMMA GradedIs ==
    ASSUME NEW c, NEW quality \in {"failed", "partial", "complete"}, NEW raw \in Int
    PROVE  /\ Graded(c, quality, raw).score = Capped(quality, raw)
           /\ Graded(c, quality, raw).status = "PASS" => quality = "complete" /\ raw >= 85000
<1> DEFINE capped == IF quality = "partial" THEN S!Least(70 * S!Unit, raw) ELSE raw
           score == S!Clamp(capped)
<1>1. capped \in Int /\ (quality = "partial" => capped <= 70000)
    BY DEF S!Least, S!Unit
<1>2. CASE quality = "failed"
    BY <1>2 DEF Graded, S!Control, Capped
<1>3. CASE quality # "failed"
    <2>1. Graded(c, quality, raw) = S!Control(c, S!StatusOf(score), score, quality)
        BY <1>3 DEF Graded
    <2>2. /\ Graded(c, quality, raw).score = score
          /\ Graded(c, quality, raw).status = S!StatusOf(score)
        BY <2>1 DEF S!Control
    <2>3. score = Capped(quality, raw)
        BY <1>3 DEF Capped
    <2>4. quality # "complete" => quality = "partial"
        BY <1>3
    <2>5. quality = "complete" => capped = raw
        OBVIOUS
    <2> HIDE DEF capped
    <2>6. score >= 85000 => capped >= 85000
        BY <1>1, ClampIs
    <2>7. score \in Int
        BY <1>1, ClampIs
    <2> HIDE DEF score
    <2>8. S!StatusOf(score) = "PASS" => score >= 85000
        BY <2>7 DEF S!StatusOf, S!Unit
    <2>9. S!StatusOf(score) = "PASS" => quality = "complete" /\ raw >= 85000
        <3>1. S!StatusOf(score) = "PASS" => capped >= 85000 /\ ~(capped <= 70000)
            BY <1>1, <2>6, <2>8
        <3> QED
            BY <3>1, <1>1, <2>4, <2>5
    <2> QED
        BY <2>2, <2>3, <2>9
<1> QED
    BY <1>2, <1>3

LEMMA Least0 ==
    ASSUME NEW a \in Nat, NEW b \in Nat
    PROVE  S!Least(a, b) \in Nat /\ S!Least(a, b) <= a /\ S!Least(a, b) <= b /\ S!Least(a, b) \in {a, b}
    BY DEF S!Least

LEMMA Number0 ==
    ASSUME NEW x \in Metric
    PROVE  S!Number(x) \in Nat /\ x \in Int /\ (S!Measured(x) => S!Number(x) = x) /\ (~S!Measured(x) => S!Number(x) = 0)
           /\ (S!Measured(x) <=> x >= 0) /\ (S!Measured(x) <=> C!Measured(x))
    BY DEF S!Number, S!Measured, C!Measured, S!None, C!None, Metric

LEMMA Short0 ==
    ASSUME NEW a \in Int, NEW b \in Nat
    PROVE  Short(a, b) \in Nat /\ (a >= b => Short(a, b) = 0) /\ (a < b => Short(a, b) = b - a)
    BY DEF Short

LEMMA IamPasses ==
    ASSUME NEW d \in SnapshotData("CC6.1")
    PROVE  IamPoints(d) \in Int /\ IamPoints(d) <= 60000
<1>1. d.orphaned_accounts \in Metric /\ d.days_since_last_review \in Metric
    BY DEF SnapshotData
<1>2. 5000 * S!Number(d.orphaned_accounts) \in Nat
    BY <1>1, Number0
<1>3. S!Least(30000, 5000 * S!Number(d.orphaned_accounts)) \in Nat
    BY <1>2 DEF S!Least
<1>4. S!Rule(d.days_since_last_review > 90, 20) \in Nat
    BY DEF S!Rule, S!Unit
<1> QED
    BY <1>3, <1>4 DEF IamPoints

LEMMA ConfigPasses ==
    ASSUME NEW d \in SnapshotData("CC6.2")
    PROVE  ConfigPoints(d) \in Int /\ ConfigPoints(d) <= 50000
<1>1. d.open_http_listeners \in Metric /\ d.unapproved_changes \in Metric
    BY DEF SnapshotData
<1>2. 20000 * S!Number(d.open_http_listeners) \in Nat /\ 15000 * S!Number(d.unapproved_changes) \in Nat
    BY <1>1, Number0
<1>3. /\ S!Least(40000, 20000 * S!Number(d.open_http_listeners)) \in Nat
      /\ S!Least(30000, 15000 * S!Number(d.unapproved_changes)) \in Nat
    BY <1>2 DEF S!Least
<1> QED
    BY <1>3 DEF ConfigPoints

LEMMA LoggingPasses ==
    ASSUME NEW d \in SnapshotData("CC7.1")
    PROVE  LoggingPoints(d) \in Int /\ LoggingPoints(d) <= 80000
<1>1. d.active_trails \in Metric /\ d.log_coverage_percent \in Metric /\ d.max_gap_hours \in Metric
    BY DEF SnapshotData
<1>2. S!Number(d.active_trails) \in Nat /\ S!Number(d.log_coverage_percent) \in Nat
    BY <1>1, Number0
<1>3. Short(S!Number(d.log_coverage_percent), 95000) \in Nat
    BY <1>2 DEF Short
<1>4. (15 * Short(S!Number(d.log_coverage_percent), 95000)) \div 10 \in Nat
    BY <1>3
<1>5. S!Least(40000, (15 * Short(S!Number(d.log_coverage_percent), 95000)) \div 10) \in Nat
    BY <1>4 DEF S!Least
<1>6. S!Rule(S!Number(d.active_trails) = 0, 50) \in Nat /\ S!Rule(d.max_gap_hours > 24000, 20) \in Nat
    BY DEF S!Rule, S!Unit
<1> QED
    BY <1>5, <1>6 DEF LoggingPoints

LEMMA EncryptionPasses ==
    ASSUME NEW d \in SnapshotData("C1.2")
    PROVE  /\ EncryptionPoints(d) \in Int
           /\ EncryptionPoints(d) >= 85000 => ~(d.unencrypted_cui_count > 0) /\ ~(d.weak_cipher_endpoints > 0)
           /\ AtRest(d) \in Nat /\ InTransit(d) \in Nat
<1>1. /\ d.total_confidential_resources \in Metric /\ d.encrypted_at_rest \in Metric
      /\ d.unencrypted_cui_count \in Metric /\ d.weak_cipher_endpoints \in Metric
      /\ d.fips_compliant_keys \in Metric
    BY DEF SnapshotData
<1> DEFINE total == S!Number(d.total_confidential_resources)
           bare == S!Number(d.unencrypted_cui_count)
           weak == S!Number(d.weak_cipher_endpoints)
<1>2. /\ total \in Nat /\ S!Number(d.encrypted_at_rest) \in Nat /\ bare \in Nat /\ weak \in Nat
      /\ d.unencrypted_cui_count > 0 => bare > 0
      /\ d.weak_cipher_endpoints > 0 => weak > 0
    BY <1>1, Number0
<1> HIDE DEF total, bare, weak
<1>3. AtRest(d) \in Nat /\ InTransit(d) \in Nat /\ (weak > 0 => InTransit(d) = 0)
    BY <1>2 DEF AtRest, InTransit, total, weak
<1> DEFINE unsealed == (4 * Short(AtRest(d), 100000)) \div 10
           exposed == (4 * Short(InTransit(d), 100000)) \div 10
<1>4. unsealed \in Nat /\ exposed \in Nat /\ (weak > 0 => exposed = 40000)
    BY <1>3 DEF Short
<1> DEFINE stores == S!Least(50000, 25000 * bare)
<1>5. stores \in Nat /\ (bare > 0 => stores >= 25000)
    BY <1>2 DEF S!Least
<1>6. S!Rule(total = 0, 40) \in Nat /\ S!Rule(~(d.fips_compliant_keys > 0), 10) \in Nat
    BY DEF S!Rule, S!Unit
<1>7. EncryptionPoints(d) = 100000 - S!Rule(total = 0, 40) - stores - unsealed - exposed
                                   - S!Rule(~(d.fips_compliant_keys > 0), 10)
    BY DEF EncryptionPoints, total, bare
<1> HIDE DEF unsealed, exposed, stores
<1> QED
    BY <1>2, <1>3, <1>4, <1>5, <1>6, <1>7

LEMMA RetentionPasses ==
    ASSUME NEW d \in SnapshotData("C1.4")
    PROVE  /\ RetentionPoints(d) \in Int
           /\ RetentionPoints(d) >= 85000 => ~(d.objects_past_retention > 0)
           /\ FittingShare(d) \in Nat /\ Fitting(d) \in Nat
<1>1. /\ d.repositories_checked \in Metric /\ d.repositories_missing_lifecycle \in Metric
      /\ d.objects_past_retention \in Metric
    BY DEF SnapshotData
<1> DEFINE repos == S!Number(d.repositories_checked)
           missing == S!Number(d.repositories_missing_lifecycle)
           overdue == S!Number(d.objects_past_retention)
<1>2. /\ repos \in Nat /\ missing \in Nat /\ overdue \in Nat
      /\ d.objects_past_retention > 0 => overdue > 0
    BY <1>1, Number0
<1> HIDE DEF repos, missing, overdue
<1>3. Fitting(d) \in Nat
    BY <1>2 DEF Fitting, repos, missing
<1>4. FittingShare(d) \in Nat
    BY <1>2, <1>3 DEF FittingShare, repos
<1> DEFINE unfit == (7 * Short(FittingShare(d), 100000)) \div 10
           late == S!Least(40000, 10000 * overdue)
           kept == S!Rule(~(repos > 0 /\ overdue = 0), 20)
<1>5. unfit \in Nat
    BY <1>4 DEF Short
<1>6. late \in Nat /\ (overdue > 0 => late >= 10000)
    BY <1>2 DEF S!Least
<1>7. kept \in Nat /\ (overdue > 0 => kept = 20000) /\ S!Rule(repos = 0, 40) \in Nat
    BY <1>2 DEF S!Rule, S!Unit
<1>8. RetentionPoints(d) = 100000 - S!Rule(repos = 0, 40) - late - unfit - kept
    BY DEF RetentionPoints, repos, overdue
<1> HIDE DEF unfit, late, kept
<1> QED
    BY <1>2, <1>3, <1>4, <1>5, <1>6, <1>7, <1>8

LEMMA ResiliencePasses ==
    ASSUME NEW d \in SnapshotData("A1.2")
    PROVE  /\ ResiliencePoints(d) \in Int
           /\ ResiliencePoints(d) >= 85000 => /\ S!Measured(d.last_backup_hours_ago)
                                              /\ S!Measured(d.last_restore_test_days_ago)
<1>1. /\ d.last_backup_hours_ago \in Metric /\ d.last_restore_test_days_ago \in Metric
      /\ d.backup_jobs_failed_30d \in Metric
    BY DEF SnapshotData
<1>2. S!Number(d.backup_jobs_failed_30d) \in Nat
    BY <1>1, Number0
<1>3. S!Least(25000, 5000 * S!Number(d.backup_jobs_failed_30d)) \in Nat
    BY <1>2 DEF S!Least
<1> DEFINE late == S!Rule(~(S!Measured(d.last_backup_hours_ago) /\ d.last_backup_hours_ago <= 24000), 40)
           untested == S!Rule(~(S!Measured(d.last_restore_test_days_ago) /\ d.last_restore_test_days_ago <= 90), 30)
<1>4. late \in Nat /\ (~S!Measured(d.last_backup_hours_ago) => late = 40000)
    BY DEF S!Rule, S!Unit
<1>5. untested \in Nat /\ (~S!Measured(d.last_restore_test_days_ago) => untested = 30000)
    BY DEF S!Rule, S!Unit
<1>6. ResiliencePoints(d) = 100000 - late - S!Least(25000, 5000 * S!Number(d.backup_jobs_failed_30d)) - untested
    BY DEF ResiliencePoints
<1> HIDE DEF late, untested
<1> QED
    BY <1>3, <1>4, <1>5, <1>6

LEMMA ZeroTrustPasses ==
    ASSUME NEW d \in SnapshotData("ZT-1")
    PROVE  /\ ZeroTrustPoints(d) \in Int
           /\ ZeroTrustPoints(d) >= 85000 => /\ C!Cardinality(Failing(d)) = 0
                                             /\ C!Measured(d.iam_review_days_ago)
                                             /\ C!Measured(d.orphaned_accounts)
                                             /\ C!Measured(d.mfa_enforcement_percent)
<1> DEFINE n == C!Cardinality(Failing(d))
<1>1. n \in 0..5 /\ (n = 0 <=> Failing(d) = {})
    BY FailingIs
<1> HIDE DEF n
<1>2. ZeroTrustPoints(d) = (100000 * (5 - n)) \div 5
    BY DEF ZeroTrustPoints, n
<1>3. ZeroTrustPoints(d) \in Int /\ (ZeroTrustPoints(d) >= 85000 => n = 0)
    BY <1>1, <1>2
<1>4. Failing(d) = {} => /\ C!Measured(d.iam_review_days_ago) /\ C!Measured(d.orphaned_accounts)
                         /\ d.mfa_enforcement_percent >= 100000
    <2> DEFINE checks == C!ZtChecks(d)
    <2>1. /\ {"iam_review_current", "orphaned_within_threshold", "mfa_enforced"} \subseteq DOMAIN checks
          /\ checks["iam_review_current"] => C!Measured(d.iam_review_days_ago)
          /\ checks["orphaned_within_threshold"] => C!Measured(d.orphaned_accounts)
          /\ checks["mfa_enforced"] => d.mfa_enforcement_percent >= 100 * C!Unit
        BY Zenon DEF C!ZtChecks
    <2>2. Failing(d) = {} => \A x \in DOMAIN checks : checks[x]
        BY DEF Failing
    <2>3. 100 * C!Unit = 100000
        BY DEF C!Unit
    <2> HIDE DEF checks
    <2> QED
        BY <2>1, <2>2, <2>3
<1>5. d.mfa_enforcement_percent >= 100000 => C!Measured(d.mfa_enforcement_percent)
    <2>1. d.mfa_enforcement_percent \in Metric
        BY DEF SnapshotData
    <2> QED
        BY <2>1 DEF Metric, C!Measured, C!None
<1> QED
    BY <1>1, <1>3, <1>4, <1>5 DEF n

LEMMA PointsTyped ==
    ASSUME NEW c \in Controls, NEW d \in SnapshotData(c)
    PROVE  Points(c, d) \in Int
    BY IamPasses, ConfigPasses, LoggingPasses, EncryptionPasses, RetentionPasses, ResiliencePasses,
       ZeroTrustPasses DEF Points, Controls

-----------------------------------------------------------------------------
(* The light of complete evidence, where it may be red and the control pass. *)
LEMMA RedFails ==
    ASSUME NEW c \in {"C1.2", "C1.4", "ZT-1"}, NEW d \in SnapshotData(c),
           Outcome(c, Snap(d, "complete")).light = "red"
    PROVE  ~(Points(c, d) >= 85000)
<1> DEFINE snap == Snap(d, "complete")
           e == EvidenceOf(c, snap)
<1>1. e.status = "red"
    BY OutcomeIs DEF Controls
<1>2. snap # C!Raised /\ snap.data = d /\ snap.quality = "complete"
    BY SnapIs
<1> HIDE DEF snap, e
<1>3. \A light : C!WithQuality(light, "complete") = light
    BY DEF C!WithQuality
<1>4. CASE c = "C1.2"
    <2> DEFINE m == C!Keep(snap, C!EncryptionMetrics)
    <2>1. e = C!Payload("C1.2", snap, C!ResolveStatus("C1.2", m), m)
        BY <1>4, CollectorOf DEF e, C!CollectEncryptionStatus
    <2>2. C!ResolveStatus("C1.2", m) = C!StatusEncryption(m)
        BY DEF C!ResolveStatus
    <2>3. C!StatusEncryption(m) = "red"
        BY <1>1, <1>2, <1>3, <2>1, <2>2, PayloadIs
    <2>4. DOMAIN d = C!EncryptionMetrics
        BY <1>4 DEF SnapshotData, C!EncryptionMetrics
    <2>5. /\ C!Get(m, "unencrypted_cui_count") = d.unencrypted_cui_count
          /\ C!Get(m, "weak_cipher_endpoints") = d.weak_cipher_endpoints
        BY <1>2, <2>4 DEF C!Get, C!Keep, C!EncryptionMetrics
    <2>6. d.unencrypted_cui_count > 0 \/ d.weak_cipher_endpoints > 0
        BY <2>3, <2>5 DEF C!StatusEncryption, C!Light
    <2> QED
        BY <1>4, <2>6, EncryptionPasses DEF Points
<1>5. CASE c = "C1.4"
    <2> DEFINE m == [repositories_checked |-> C!Get(snap.data, "repositories_checked"),
               repositories_missing_lifecycle |-> C!Get(snap.data, "repositories_missing_lifecycle"),
               buckets_missing_lifecycle |-> C!Get(snap.data, "repositories_missing_lifecycle"),
               objects_past_retention |-> C!Get(snap.data, "objects_past_retention")]
    <2>1. e = C!Payload("C1.4", snap, C!ResolveStatus("C1.4", m), m)
        BY <1>5, CollectorOf DEF e, C!CollectRetentionCheck
    <2>2. C!ResolveStatus("C1.4", m) = C!StatusRetention(m)
        BY DEF C!ResolveStatus
    <2>3. C!StatusRetention(m) = "red"
        BY <1>1, <1>2, <1>3, <2>1, <2>2, PayloadIs
    <2>4. "objects_past_retention" \in DOMAIN d
        BY <1>5 DEF SnapshotData
    <2>5. C!Get(m, "objects_past_retention") = d.objects_past_retention
        BY <1>2, <2>4 DEF C!Get
    <2>6. d.objects_past_retention > 0
        BY <2>3, <2>5 DEF C!StatusRetention, C!Light
    <2> QED
        BY <1>5, <2>6, RetentionPasses DEF Points
<1>6. CASE c = "ZT-1"
    <2> DEFINE n == C!Cardinality(Failing(d))
               m == [checks_passed |-> 5 - n, checks_total |-> 5, issues |-> n]
    <2>1. e = C!Payload("ZT-1", snap, C!Light(n > 2, Failing(d) # {}), m)
        <3> DEFINE l == C!Cardinality(Failing(snap.data))
        <3>1. e = C!Payload("ZT-1", snap, C!Light(l > 2, Failing(snap.data) # {}),
                            [checks_passed |-> 5 - l, checks_total |-> 5, issues |-> l])
            BY <1>6, CollectorOf DEF e, C!CollectZtContinuousVerification, Failing
        <3> QED
            BY <1>2, <3>1
    <2> HIDE DEF m
    <2>2. C!Light(n > 2, Failing(d) # {}) = "red"
        BY <1>1, <1>2, <1>3, <2>1, PayloadIs
    <2>3. n > 2
        BY <2>2 DEF C!Light
    <2> QED
        BY <1>6, <2>3, ZeroTrustPasses DEF Points
<1> QED
    BY <1>4, <1>5, <1>6

(***************************************************************************)
(* A verdict is that on its input.                                         *)
(***************************************************************************)
Grades ==
    Judged("evidence") =>
        \E c \in DOMAIN Data, q \in {"complete", "partial", "failed"} : \E d \in Data[c] :
            input = [control |-> c, data |-> d, quality |-> q] /\ verdict = Outcome(c, Snap(d, q))

Audits ==
    Judged("repository") =>
        \E repo \in Repositories, token \in BOOLEAN, unread \in SUBSET T!Requests :
            /\ input = [repo |-> repo, token |-> token, unread |-> unread]
            /\ verdict = T!Audit(repo, token, unread)

Inspections == Judged("home") => input \in Homes /\ verdict = T!RunAssessment(input)

Cards ==
    Judged("scorecard") => input \in [DOMAIN Data -> Scores] /\ verdict.card = S!Scorecard(input)

Answers ==
    Judged("account") =>
        \E c \in DOMAIN Accounts : \E account \in Accounts[c] :
        \E failing \in FailingCalls(c, account), failure \in Failures, success \in Successes :
            /\ input = [control |-> c, account |-> account, failing |-> failing]
            /\ verdict = Outcome(c, Answer(c, account, failing, failure, success))

Comparisons ==
    Judged("history") =>
        \E before, after \in Installations :
            /\ input = [before |-> before, after |-> after]
            /\ verdict = D!DetectConfigurationDrift([yesterday |-> RunOf(before), today |-> RunOf(after)],
                                                    <<"yesterday", "today">>, D!NoDirectory, D!NoDirectory)

Policies ==
    Judged("policy") =>
        \E file \in RuleFiles :
            LET rules  == P!LoadRulesFromFile(P!DefaultEnterpriseRules, file).rules
                report == P!EvaluateRules(rules, input)
            IN  verdict = [rules |-> rules, report |-> report, exit |-> P!PolicyExit(report)]

Verdicts == Grades /\ Answers /\ Comparisons /\ Audits /\ Inspections /\ Cards /\ Policies

LEMMA VerdictsStep ==
    ASSUME Verdicts, [Judging]_verdicts
    PROVE  Verdicts'
<1> USE DEF Verdicts, Judged
<1>1. CASE UNCHANGED verdicts
    BY <1>1 DEF verdicts, Grades, Answers, Comparisons, Audits, Inspections, Cards, Policies
<1>2. CASE JudgeEvidence
    <2>1. PICK c \in DOMAIN Data, q \in {"complete", "partial", "failed"} : \E d \in Data[c] :
              input' = [control |-> c, data |-> d, quality |-> q] /\ verdict' = Outcome(c, Snap(d, q))
        BY <1>2 DEF JudgeEvidence, Judge
    <2>2. subject' = "evidence"
        BY <1>2 DEF JudgeEvidence, Judge, Asks
    <2> QED
        BY <2>1, <2>2 DEF Grades, Answers, Comparisons, Audits, Inspections, Cards, Policies
<1>3. CASE JudgeRepository
    <2>1. PICK repo \in Repositories, token \in BOOLEAN, unread \in SUBSET T!Requests :
            /\ input' = [repo |-> repo, token |-> token, unread |-> unread]
            /\ verdict' = T!Audit(repo, token, unread)
        BY <1>3 DEF JudgeRepository, Judge
    <2>2. subject' = "repository"
        BY <1>3 DEF JudgeRepository, Judge, Asks
    <2> QED
        BY <2>1, <2>2 DEF Grades, Answers, Comparisons, Audits, Inspections, Cards, Policies
<1>4. CASE JudgeHome
    <2>1. input' \in Homes /\ verdict' = T!RunAssessment(input') /\ subject' = "home"
        BY <1>4 DEF JudgeHome, Judge, Asks
    <2> QED
        BY <2>1 DEF Grades, Answers, Comparisons, Audits, Inspections, Cards, Policies
<1>5. CASE JudgeScorecard
    <2>1. PICK scores \in [DOMAIN Data -> Scores] :
              input' = scores /\ verdict' = [card |-> S!Scorecard(scores), profile |-> S!Profile(S!Scorecard(scores))]
        BY <1>5 DEF JudgeScorecard, Judge
    <2>2. subject' = "scorecard"
        BY <1>5 DEF JudgeScorecard, Judge, Asks
    <2> QED
        BY <2>1, <2>2 DEF Grades, Answers, Comparisons, Audits, Inspections, Cards, Policies
<1>6. CASE JudgeAccount
    <2>1. Answers'
        BY <1>6 DEF JudgeAccount, Judge, Asks, Answers
    <2>2. subject' = "account"
        BY <1>6 DEF JudgeAccount, Judge, Asks
    <2> QED
        BY <2>1, <2>2 DEF Grades, Comparisons, Audits, Inspections, Cards, Policies
<1>7. CASE JudgeHistory
    <2>1. Comparisons'
        BY <1>7 DEF JudgeHistory, Judge, Asks, Comparisons
    <2>2. subject' = "history"
        BY <1>7 DEF JudgeHistory, Judge, Asks
    <2> QED
        BY <2>1, <2>2 DEF Grades, Answers, Audits, Inspections, Cards, Policies
<1>8. CASE JudgePolicy
    <2>1. PICK data \in Payloads, file \in RuleFiles :
            LET rules  == P!LoadRulesFromFile(P!DefaultEnterpriseRules, file).rules
                report == P!EvaluateRules(rules, data)
            IN  input' = data /\ verdict' = [rules |-> rules, report |-> report, exit |-> P!PolicyExit(report)]
        BY <1>8 DEF JudgePolicy, Judge
    <2>2. subject' = "policy"
        BY <1>8 DEF JudgePolicy, Judge, Asks
    <2>3. Policies'
        BY <2>1 DEF Policies
    <2> QED
        BY <2>2, <2>3 DEF Grades, Answers, Comparisons, Audits, Inspections, Cards
<1>9. CASE JudgeQuestionnaire \/ JudgeEnvironment
    <2>1. subject' \in {"questionnaire", "environment"}
        BY <1>9 DEF JudgeQuestionnaire, JudgeEnvironment, Judge, Asks
    <2> QED
        BY <2>1 DEF Grades, Answers, Comparisons, Audits, Inspections, Cards, Policies
<1> QED
    BY <1>1, <1>2, <1>3, <1>4, <1>5, <1>6, <1>7, <1>8, <1>9 DEF Judging

(***************************************************************************)
(* Every verdict that is shown is the one that the code computes from the  *)
(* input judged: nothing else moves it afterwards.                         *)
(***************************************************************************)
THEOREM VerdictsHold == JudgingSpec => []Verdicts
<1>1. Unjudged => Verdicts
    BY DEF Unjudged, Verdicts, Grades, Answers, Comparisons, Audits, Inspections, Cards, Policies, Judged
<1> QED
    BY <1>1, VerdictsStep, PTL DEF JudgingSpec

-----------------------------------------------------------------------------
LEMMA EarnedByGrades == ASSUME Grades PROVE PassIsEarned
<1> SUFFICES ASSUME Judged("evidence"), verdict.control.status = "PASS"
             PROVE  /\ input.quality = "complete"
                    /\ \A f \in Asked(input.control) : C!Measured(C!Get(input.data, f))
                    /\ verdict.light = "red" => input.control = "A1.2"
    BY DEF PassIsEarned
<1>1. PICK c \in DOMAIN Data, q \in {"complete", "partial", "failed"} : \E d \in Data[c] :
            input = [control |-> c, data |-> d, quality |-> q] /\ verdict = Outcome(c, Snap(d, q))
    BY DEF Grades
<1>2. PICK d \in Data[c] :
            input = [control |-> c, data |-> d, quality |-> q] /\ verdict = Outcome(c, Snap(d, q))
    BY <1>1
<1>3. c \in Controls /\ d \in SnapshotData(c)
    BY DataAssumption
<1>4. input.control = c /\ input.data = d /\ input.quality = q
    BY <1>2
<1>5. q = "complete" /\ Points(c, d) >= 85000
    BY <1>2, <1>3, OutcomeOfData, PointsTyped, GradedIs
<1>6. Outcome(c, Snap(d, q)).light = "red" => c \notin {"C1.2", "C1.4", "ZT-1"}
    BY <1>3, <1>5, RedFails
<1>7. c \notin {"CC6.1", "CC6.2", "CC7.1"}
    <2>1. c = "CC6.1" => Points(c, d) <= 60000 /\ Points(c, d) \in Int
        BY <1>3, IamPasses DEF Points
    <2>2. c = "CC6.2" => Points(c, d) <= 50000 /\ Points(c, d) \in Int
        BY <1>3, ConfigPasses DEF Points
    <2>3. c = "CC7.1" => Points(c, d) <= 80000 /\ Points(c, d) \in Int
        BY <1>3, LoggingPasses DEF Points
    <2> QED
        BY <1>5, <2>1, <2>2, <2>3
<1>8. \A f \in Asked(c) : C!Measured(C!Get(d, f))
    <2>1. CASE c \in {"C1.2", "C1.4"}
        BY <2>1 DEF Asked
    <2>2. CASE c = "A1.2"
        <3>1. /\ S!Measured(d.last_backup_hours_ago) /\ S!Measured(d.last_restore_test_days_ago)
              /\ {"last_backup_hours_ago", "last_restore_test_days_ago"} \subseteq DOMAIN d
            BY <1>3, <1>5, <2>2, ResiliencePasses DEF Points, SnapshotData
        <3>2. /\ C!Get(d, "last_backup_hours_ago") = d.last_backup_hours_ago
              /\ C!Get(d, "last_restore_test_days_ago") = d.last_restore_test_days_ago
            BY <3>1 DEF C!Get
        <3>3. Asked(c) = {"last_backup_hours_ago", "last_restore_test_days_ago"}
            BY <2>2 DEF Asked
        <3> QED
            BY <3>1, <3>2, <3>3 DEF S!Measured, C!Measured, S!None, C!None
    <2>3. CASE c = "ZT-1"
        <3>1. /\ C!Measured(d.iam_review_days_ago) /\ C!Measured(d.mfa_enforcement_percent)
              /\ C!Measured(d.orphaned_accounts)
              /\ {"iam_review_days_ago", "mfa_enforcement_percent", "orphaned_accounts"} \subseteq DOMAIN d
            BY <1>3, <1>5, <2>3, ZeroTrustPasses DEF Points, SnapshotData
        <3>2. /\ C!Get(d, "iam_review_days_ago") = d.iam_review_days_ago
              /\ C!Get(d, "mfa_enforcement_percent") = d.mfa_enforcement_percent
              /\ C!Get(d, "orphaned_accounts") = d.orphaned_accounts
            BY <3>1 DEF C!Get
        <3>3. Asked(c) = {"iam_review_days_ago", "mfa_enforcement_percent", "orphaned_accounts"}
            BY <2>3 DEF Asked
        <3> QED
            BY <3>1, <3>2, <3>3
    <2> QED
        BY <1>3, <1>7, <2>1, <2>2, <2>3 DEF Controls
<1>9. c = "A1.2" \/ c \in {"C1.2", "C1.4", "ZT-1"}
    BY <1>3, <1>7 DEF Controls
<1> QED
    BY <1>2, <1>4, <1>5, <1>6, <1>8, <1>9

(***************************************************************************)
(* A control passes only on complete evidence with all measured that its   *)
(* score asks for, and not beside a red light but for A1.2: the seven      *)
(* collectors (collectors/), their lights (status.py) and their scores     *)
(* (scoring.py), for any data a provider may return.                       *)
(***************************************************************************)
THEOREM PassesAreEarned == JudgingSpec => []PassIsEarned
<1>1. Verdicts => PassIsEarned
    BY EarnedByGrades DEF Verdicts
<1> QED
    BY <1>1, VerdictsHold, PTL

-----------------------------------------------------------------------------
(* Induction, for a set of numbers. *)
LEMMA AllNumbers ==
    ASSUME NEW N, 0 \in N, \A n \in Nat : n \in N => n + 1 \in N
    PROVE  Nat \subseteq N
<1> SUFFICES ASSUME Nat \ N # {} PROVE FALSE
    OBVIOUS
<1> DEFINE rest == OpToRel(<, Nat)
           part == Nat \ N
<1>1. IsWellFoundedOn(rest, Nat)
    BY NatLessThanWellFounded
<1>2. \A x, y \in Nat : <<y, x>> \in rest <=> y < x
    BY DEF OpToRel
<1>3. part \subseteq Nat /\ part # {}
    OBVIOUS
<1> HIDE DEF rest, part
<1>4. PICK x \in part : \A y \in part : ~ (<<y, x>> \in rest)
    BY <1>1, <1>3, WFMin
<1>5. x \in Nat /\ x \notin N /\ x # 0
    BY <1>4 DEF part
<1>6. x - 1 \in Nat /\ x - 1 < x
    BY <1>5
<1>7. x - 1 \in N
    BY <1>2, <1>3, <1>4, <1>6 DEF part
<1> QED
    BY <1>5, <1>6, <1>7

Pick(s) == CHOOSE x \in s : TRUE
Adds(f, dom, g) ==
    g = [s \in SUBSET dom |-> IF s = {} THEN 0 ELSE g[s \ {Pick(s)}] + f[Pick(s)]]

LEMMA TotalIs ==
    ASSUME NEW f, NEW dom
    PROVE  Total(f, dom) = (CHOOSE g : Adds(f, dom, g))[dom]
    BY DEF Total, FoldSet, MapThenFoldSet, Adds, Pick

LEMMA PickIs ==
    ASSUME NEW s, IsFiniteSet(s), s # {}
    PROVE  /\ Cardinality(s) \in Nat /\ Pick(s) \in s
           /\ Cardinality(s \ {Pick(s)}) = Cardinality(s) - 1
<1>1. Cardinality(s) \in Nat
    BY FS_CardinalityType
<1>2. Pick(s) \in s
    BY DEF Pick
<1> QED
    BY <1>1, <1>2, FS_RemoveElement

(* For a finite dom there is such a g: one for the sets of at most n members, and so for n + 1. *)
LEMMA AddsExists ==
    ASSUME NEW f, NEW dom, IsFiniteSet(dom)
    PROVE  \E g : Adds(f, dom, g)
<1> DEFINE At(g, s) == IF s = {} THEN 0 ELSE g[s \ {Pick(s)}] + f[Pick(s)]
           Upto(n, g) == \A s \in SUBSET dom : Cardinality(s) <= n => g[s] = At(g, s)
           N == {n \in Nat : \E g : Upto(n, g)}
<1>1. \A s \in SUBSET dom : /\ Cardinality(s) \in Nat
                          /\ s # {} => /\ Pick(s) \in s /\ s \ {Pick(s)} \in SUBSET dom
                                       /\ Cardinality(s \ {Pick(s)}) = Cardinality(s) - 1
    <2> SUFFICES ASSUME NEW s \in SUBSET dom
                 PROVE  /\ Cardinality(s) \in Nat
                        /\ s # {} => /\ Pick(s) \in s /\ s \ {Pick(s)} \in SUBSET dom
                                     /\ Cardinality(s \ {Pick(s)}) = Cardinality(s) - 1
        OBVIOUS
    <2>1. IsFiniteSet(s)
        BY FS_Subset
    <2>2. Cardinality(s) \in Nat
        BY <2>1, FS_CardinalityType
    <2>3. s # {} => Pick(s) \in s
        BY DEF Pick
    <2> QED
        BY <2>1, <2>2, <2>3, FS_RemoveElement
<1>2. \A s \in SUBSET dom : Cardinality(s) <= 0 => s = {}
    <2> SUFFICES ASSUME NEW s \in SUBSET dom, Cardinality(s) <= 0 PROVE s = {}
        OBVIOUS
    <2>1. IsFiniteSet(s)
        BY FS_Subset
    <2>2. Cardinality(s) \in Nat
        BY <2>1, FS_CardinalityType
    <2>3. Cardinality(s) = 0
        BY <2>2
    <2> QED
        BY <2>1, <2>3, FS_EmptySet
<1>3. 0 \in N
    <2> DEFINE g == [s \in SUBSET dom |-> 0]
    <2>1. \A s \in SUBSET dom : Cardinality(s) <= 0 => g[s] = At(g, s)
        BY <1>2
    <2> QED
        BY <2>1
<1>4. ASSUME NEW n \in Nat, n \in N PROVE n + 1 \in N
    <2>1. PICK g : Upto(n, g)
        BY <1>4
    <2> DEFINE h == [s \in SUBSET dom |-> IF Cardinality(s) <= n THEN g[s] ELSE At(g, s)]
    <2>2. ASSUME NEW s \in SUBSET dom, Cardinality(s) <= n + 1 PROVE h[s] = At(h, s)
        <3>1. h[s] = At(g, s)
            BY <2>1
        <3>2. CASE s = {}
            BY <3>1, <3>2
        <3>3. CASE s # {}
            <4>1. Pick(s) \in s /\ s \ {Pick(s)} \in SUBSET dom /\ Cardinality(s \ {Pick(s)}) <= n
                <5>1. /\ Cardinality(s) \in Nat /\ Pick(s) \in s /\ s \ {Pick(s)} \in SUBSET dom
                      /\ Cardinality(s \ {Pick(s)}) = Cardinality(s) - 1
                    <6>1. IsFiniteSet(s) /\ s \ {Pick(s)} \in SUBSET dom
                        BY FS_Subset
                    <6> QED
                        BY <3>3, <6>1, PickIs
                <5>2. Cardinality(s) - 1 <= n
                    BY <2>2, <5>1
                <5> QED
                    BY <5>1, <5>2
            <4>2. h[s \ {Pick(s)}] = g[s \ {Pick(s)}]
                BY <4>1
            <4> HIDE DEF h
            <4> QED
                BY <3>1, <3>3, <4>2
        <3> QED
            BY <3>2, <3>3
    <2> HIDE DEF h
    <2>3. Upto(n + 1, h)
        BY <2>2
    <2> HIDE DEF Upto
    <2>4. \E z : Upto(n + 1, z)
        BY <2>3
    <2> QED
        BY <2>4
<1> HIDE DEF N
<1>5. Cardinality(dom) \in N
    BY <1>3, <1>4, AllNumbers, FS_CardinalityType
<1>6. PICK g : Upto(Cardinality(dom), g)
    BY <1>5 DEF N
<1>7. \A s \in SUBSET dom : g[s] = At(g, s)
    BY <1>6, FS_Subset
<1> DEFINE h == [s \in SUBSET dom |-> g[s]]
<1>8. h = [s \in SUBSET dom |-> At(h, s)]
    <2>1. \A s \in SUBSET dom : At(g, s) = At(h, s)
        BY <1>1
    <2>2. h = [s \in SUBSET dom |-> At(g, s)]
        BY <1>7
    <2> QED
        BY <2>1, <2>2
<1> QED
    BY <1>8 DEF Adds

(* Two of them agree where both are defined. *)
LEMMA AddsAgree ==
    ASSUME NEW f, NEW dom, IsFiniteSet(dom), NEW part \in SUBSET dom, NEW g, NEW h,
           Adds(f, dom, g), Adds(f, part, h)
    PROVE  g[part] = h[part]
<1> DEFINE Same(n) == \A s \in SUBSET part : Cardinality(s) <= n => g[s] = h[s]
           N == {n \in Nat : Same(n)}
<1>0. \A s \in SUBSET part : /\ s \in SUBSET dom /\ IsFiniteSet(s) /\ Cardinality(s) \in Nat
    BY FS_Subset, FS_CardinalityType
<1>1. ASSUME NEW s \in SUBSET part, s # {}
      PROVE  /\ s \ {Pick(s)} \in SUBSET part
             /\ Cardinality(s \ {Pick(s)}) = Cardinality(s) - 1
             /\ g[s] = g[s \ {Pick(s)}] + f[Pick(s)] /\ h[s] = h[s \ {Pick(s)}] + f[Pick(s)]
    <2>1. Pick(s) \in s
        BY <1>1 DEF Pick
    <2>2. Cardinality(s \ {Pick(s)}) = Cardinality(s) - 1
        BY <1>0, <2>1, FS_RemoveElement
    <2> QED
        BY <1>0, <1>1, <2>2 DEF Adds
<1>2. g[{}] = 0 /\ h[{}] = 0
    BY DEF Adds
<1>3. 0 \in N
    <2>1. ASSUME NEW s \in SUBSET part, Cardinality(s) <= 0 PROVE g[s] = h[s]
        <3>1. Cardinality(s) = 0
            <4>1. Cardinality(s) \in Nat
                BY <1>0
            <4> QED
                BY <2>1, <4>1
        <3>2. s = {}
            BY <1>0, <3>1, FS_EmptySet
        <3> QED
            BY <1>2, <3>2
    <2> QED
        BY <2>1
<1>4. ASSUME NEW n \in Nat, n \in N PROVE n + 1 \in N
    <2>1. ASSUME NEW s \in SUBSET part, Cardinality(s) <= n + 1 PROVE g[s] = h[s]
        <3>1. CASE s = {}
            BY <1>2, <3>1
        <3>2. CASE s # {}
            <4>1. s \ {Pick(s)} \in SUBSET part /\ Cardinality(s \ {Pick(s)}) = Cardinality(s) - 1
                BY <1>1, <3>2
            <4>2. Cardinality(s) \in Nat
                BY <1>0
            <4>3. Cardinality(s \ {Pick(s)}) <= n
                BY <2>1, <4>1, <4>2
            <4>4. g[s \ {Pick(s)}] = h[s \ {Pick(s)}]
                BY <1>4, <4>1, <4>3
            <4> QED
                BY <1>1, <3>2, <4>4
        <3> QED
            BY <3>1, <3>2
    <2> QED
        BY <2>1
<1> HIDE DEF N
<1>5. Cardinality(part) \in N
    BY <1>0, <1>3, <1>4, AllNumbers
<1>6. Same(Cardinality(part))
    BY <1>5 DEF N
<1>7. Cardinality(part) <= Cardinality(part)
    BY <1>0
<1> QED
    BY <1>6, <1>7

(* How a sum is added up. *)
LEMMA TotalPicks ==
    ASSUME NEW f, NEW part, IsFiniteSet(part)
    PROVE  /\ Total(f, {}) = 0
           /\ part # {} => /\ Pick(part) \in part
                        /\ Total(f, part) = Total(f, part \ {Pick(part)}) + f[Pick(part)]
<1>1. ASSUME NEW dom, IsFiniteSet(dom) PROVE \E g : Adds(f, dom, g) /\ Total(f, dom) = g[dom]
    <2>1. \E g : Adds(f, dom, g)
        BY <1>1, AddsExists
    <2> DEFINE g == CHOOSE z : Adds(f, dom, z)
    <2>2. Adds(f, dom, g)
        BY <2>1
    <2> QED
        BY <2>2, TotalIs
<1>2. Total(f, {}) = 0
    <2>1. PICK g : Adds(f, {}, g) /\ Total(f, {}) = g[{}]
        BY <1>1, FS_EmptySet
    <2> QED
        BY <2>1 DEF Adds
<1>3. ASSUME part # {} PROVE Pick(part) \in part /\ Total(f, part) = Total(f, part \ {Pick(part)}) + f[Pick(part)]
    <2> DEFINE rest == part \ {Pick(part)}
    <2>1. PICK g : Adds(f, part, g) /\ Total(f, part) = g[part]
        BY <1>1
    <2>2. IsFiniteSet(rest)
        BY FS_Subset
    <2>3. PICK h : Adds(f, rest, h) /\ Total(f, rest) = h[rest]
        BY <1>1, <2>2
    <2>4. g[rest] = h[rest]
        BY <2>1, <2>3, AddsAgree
    <2>5. g[part] = g[rest] + f[Pick(part)]
        BY <1>3, <2>1 DEF Adds
    <2>6. Pick(part) \in part
        BY <1>3 DEF Pick
    <2> QED
        BY <2>1, <2>3, <2>4, <2>5, <2>6
<1> QED
    BY <1>2, <1>3

(* A member more adds its value. *)
LEMMA TotalAdds ==
    ASSUME NEW f, NEW part, IsFiniteSet(part), NEW x, x \notin part, \A y \in part \cup {x} : f[y] \in Int
    PROVE  Total(f, part) \in Int /\ Total(f, part \cup {x}) = Total(f, part) + f[x]
<1> DEFINE Good(s) == /\ Total(f, s) \in Int
                      /\ \A y \in part \cup {x} : y \notin s => Total(f, s \cup {y}) = Total(f, s) + f[y]
           Fits(n) == \A s \in SUBSET (part \cup {x}) : Cardinality(s) = n => Good(s)
           N == {n \in Nat : Fits(n)}
<1>0. IsFiniteSet(part \cup {x})
    BY FS_AddElement
<1>1. \A s \in SUBSET (part \cup {x}) : IsFiniteSet(s) /\ Cardinality(s) \in Nat
    BY <1>0, FS_Subset, FS_CardinalityType
<1>2. 0 \in N
    <2>1. ASSUME NEW s \in SUBSET (part \cup {x}), Cardinality(s) = 0 PROVE Good(s)
        <3>1. s = {}
            BY <1>1, <2>1, FS_EmptySet
        <3>2. Total(f, {}) = 0
            BY <1>0, TotalPicks
        <3>3. ASSUME NEW y \in part \cup {x} PROVE Total(f, {y}) = 0 + f[y]
            <4>1. IsFiniteSet({y}) /\ {y} # {} /\ {y} \ {y} = {}
                BY FS_Singleton
            <4>2. Pick({y}) = y
                BY <4>1, TotalPicks
            <4> QED
                BY <3>2, <4>1, <4>2, TotalPicks
        <3>4. ASSUME NEW y \in part \cup {x} PROVE Total(f, {} \cup {y}) = Total(f, {}) + f[y]
            <4>1. {} \cup {y} = {y}
                OBVIOUS
            <4> QED
                BY <3>2, <3>3, <4>1
        <3>5. Total(f, {}) \in Int
            BY <3>2
        <3> QED
            BY <3>1, <3>4, <3>5, Zenon
    <2> QED
        BY <2>1
<1>3. ASSUME NEW n \in Nat, n \in N PROVE n + 1 \in N
    <2>1. ASSUME NEW s \in SUBSET (part \cup {x}), Cardinality(s) = n + 1 PROVE Good(s)
        <3> DEFINE p == Pick(s)
                   r == s \ {p}
        <3>1. s # {}
            BY <2>1, FS_EmptySet
        <3>2. p \in s /\ Total(f, s) = Total(f, r) + f[p]
            BY <1>1, <3>1, TotalPicks
        <3>3. r \in SUBSET (part \cup {x}) /\ Cardinality(r) = n
            BY <1>1, <2>1, <3>2, FS_RemoveElement
        <3>4. Good(r)
            BY <1>3, <3>3
        <3>5. Total(f, s) \in Int
            BY <3>2, <3>4
        <3>6. ASSUME NEW y \in part \cup {x}, y \notin s
              PROVE  Total(f, s \cup {y}) = Total(f, s) + f[y]
            <4> DEFINE u == s \cup {y}
                       z == Pick(u)
            <4>1. IsFiniteSet(u) /\ u # {}
                BY <1>1, FS_AddElement
            <4>2. z \in u /\ Total(f, u) = Total(f, u \ {z}) + f[z]
                BY <4>1, TotalPicks
            <4>3. CASE z = y
                <5>1. u \ {z} = s
                    BY <3>6, <4>3
                <5> QED
                    BY <4>2, <4>3, <5>1
            <4>4. CASE z # y
                <5> DEFINE v == s \ {z}
                <5>1. z \in s /\ u \ {z} = v \cup {y} /\ v \cup {z} = s /\ y \notin v /\ z \notin v
                    BY <3>6, <4>2, <4>4
                <5>2. v \in SUBSET (part \cup {x}) /\ Cardinality(v) = n
                    <6>1. Cardinality(v) = Cardinality(s) - 1
                        BY <1>1, <5>1, FS_RemoveElement
                    <6> QED
                        BY <2>1, <6>1
                <5>3. Good(v) /\ z \in part \cup {x}
                    BY <1>3, <5>1, <5>2
                <5>4. Total(f, v \cup {y}) = Total(f, v) + f[y] /\ Total(f, s) = Total(f, v) + f[z]
                    BY <5>1, <5>3
                <5>5. Total(f, v) \in Int /\ f[y] \in Int /\ f[z] \in Int
                    BY <5>3
                <5>6. s \cup {y} = u
                    OBVIOUS
                <5> HIDE DEF u, z, v
                <5>7. Total(f, u) = (Total(f, v) + f[y]) + f[z]
                    BY <4>2, <5>1, <5>4
                <5>8. Total(f, u) = Total(f, s) + f[y]
                    BY <5>4, <5>5, <5>7
                <5> QED
                    BY <5>6, <5>8
            <4> QED
                BY <4>3, <4>4
        <3> QED
            BY <3>5, <3>6
    <2> QED
        BY <2>1
<1> HIDE DEF N
<1>4. Cardinality(part) \in N
    BY <1>1, <1>2, <1>3, AllNumbers
<1>5. Fits(Cardinality(part))
    BY <1>4 DEF N
<1>6. Good(part)
    BY <1>5
<1> QED
    BY <1>6

-----------------------------------------------------------------------------
LEMMA OneSum ==
    ASSUME NEW f
    PROVE  S!Total(f, {}) = 0 /\ \A z : S!Total(f, z) = Total(f, z) /\ T!Total(f, z) = Total(f, z)
<1>1. \A z : S!Total(f, z) = Total(f, z)
    BY DEF S!Total, S!FoldSet, S!MapThenFoldSet, Total, FoldSet, MapThenFoldSet
<1>2. \A z : T!Total(f, z) = Total(f, z)
    BY DEF T!Total, T!FoldSet, T!MapThenFoldSet, Total, FoldSet, MapThenFoldSet
<1>3. Total(f, {}) = 0
    BY TotalPicks, FS_EmptySet
<1> QED
    BY <1>1, <1>2, <1>3

(* The members of part are n, and their numbers add up to v. *)
SumIs(f, part, n, v) ==
    /\ IsFiniteSet(part) /\ Cardinality(part) = n /\ n \in Nat
    /\ \A y \in part : f[y] \in Int
    /\ S!Total(f, part) = v /\ v \in Int

LEMMA SumOfOne ==
    ASSUME NEW f, NEW x, f[x] \in Int
    PROVE  SumIs(f, {x}, 1, f[x])
<1>1. {} \cup {x} = {x} /\ x \notin {} /\ \A y \in {} \cup {x} : f[y] \in Int
    OBVIOUS
<1>2. Total(f, {} \cup {x}) = Total(f, {}) + f[x]
    BY <1>1, TotalAdds, FS_EmptySet
<1>3. Total(f, {}) = 0
    BY TotalPicks, FS_EmptySet
<1>4. Total(f, {x}) = f[x]
    BY <1>1, <1>2, <1>3
<1>5. S!Total(f, {x}) = Total(f, {x})
    BY OneSum
<1>6. IsFiniteSet({x}) /\ Cardinality({x}) = 1
    BY FS_Singleton
<1> QED
    BY <1>4, <1>5, <1>6 DEF SumIs

LEMMA SumGrows ==
    ASSUME NEW f, NEW part, NEW n, NEW v, SumIs(f, part, n, v), NEW x, x \notin part, f[x] \in Int
    PROVE  SumIs(f, part \cup {x}, n + 1, v + f[x])
<1>1. IsFiniteSet(part) /\ Cardinality(part) = n /\ n \in Nat /\ v \in Int /\ S!Total(f, part) = v
    BY DEF SumIs
<1>2. \A y \in part \cup {x} : f[y] \in Int
    BY DEF SumIs
<1>3. IsFiniteSet(part \cup {x}) /\ Cardinality(part \cup {x}) = Cardinality(part) + 1
    BY <1>1, FS_AddElement
<1>4. Total(f, part \cup {x}) = Total(f, part) + f[x]
    BY <1>1, <1>2, TotalAdds
<1>5. S!Total(f, part) = Total(f, part) /\ S!Total(f, part \cup {x}) = Total(f, part \cup {x})
    BY OneSum
<1>6. S!Total(f, part \cup {x}) = v + f[x]
    BY <1>1, <1>4, <1>5
<1> QED
    BY <1>1, <1>2, <1>3, <1>6 DEF SumIs

LEMMA Sum2 ==
    ASSUME NEW f, NEW a, NEW b,
           a # b,
           \A y \in {a, b} : f[y] \in Int
    PROVE  SumIs(f, {a, b}, 2, f[a] + f[b])
<1>1. SumIs(f, {a}, 1, f[a])
    BY SumOfOne
<1>2. f[b] \in Int /\ b \notin {a}
    OBVIOUS
<1>3. SumIs(f, {a} \cup {b}, 1 + 1, f[a] + f[b])
    BY <1>1, <1>2, SumGrows, Zenon
<1>4. {a} \cup {b} = {a, b} /\ 1 + 1 = 2
    OBVIOUS
<1> QED
    BY <1>3, <1>4, Zenon

LEMMA Sum3 ==
    ASSUME NEW f, NEW a, NEW b, NEW c,
           a # b, c \notin {a, b},
           \A y \in {a, b, c} : f[y] \in Int
    PROVE  SumIs(f, {a, b, c}, 3, f[a] + f[b] + f[c])
<1>1. SumIs(f, {a, b}, 2, f[a] + f[b])
    BY Sum2
<1>2. f[c] \in Int /\ c \notin {a, b}
    OBVIOUS
<1>3. SumIs(f, {a, b} \cup {c}, 2 + 1, f[a] + f[b] + f[c])
    BY <1>1, <1>2, SumGrows, Zenon
<1>4. {a, b} \cup {c} = {a, b, c} /\ 2 + 1 = 3
    OBVIOUS
<1> QED
    BY <1>3, <1>4, Zenon

LEMMA Sum4 ==
    ASSUME NEW f, NEW a, NEW b, NEW c, NEW d,
           a # b, c \notin {a, b}, d \notin {a, b, c},
           \A y \in {a, b, c, d} : f[y] \in Int
    PROVE  SumIs(f, {a, b, c, d}, 4, f[a] + f[b] + f[c] + f[d])
<1>1. SumIs(f, {a, b, c}, 3, f[a] + f[b] + f[c])
    BY Sum3
<1>2. f[d] \in Int /\ d \notin {a, b, c}
    OBVIOUS
<1>3. SumIs(f, {a, b, c} \cup {d}, 3 + 1, f[a] + f[b] + f[c] + f[d])
    BY <1>1, <1>2, SumGrows, Zenon
<1>4. {a, b, c} \cup {d} = {a, b, c, d} /\ 3 + 1 = 4
    OBVIOUS
<1> QED
    BY <1>3, <1>4, Zenon

LEMMA Sum5 ==
    ASSUME NEW f, NEW a, NEW b, NEW c, NEW d, NEW e,
           a # b, c \notin {a, b}, d \notin {a, b, c}, e \notin {a, b, c, d},
           \A y \in {a, b, c, d, e} : f[y] \in Int
    PROVE  SumIs(f, {a, b, c, d, e}, 5, f[a] + f[b] + f[c] + f[d] + f[e])
<1>1. SumIs(f, {a, b, c, d}, 4, f[a] + f[b] + f[c] + f[d])
    BY Sum4
<1>2. f[e] \in Int /\ e \notin {a, b, c, d}
    OBVIOUS
<1>3. SumIs(f, {a, b, c, d} \cup {e}, 4 + 1, f[a] + f[b] + f[c] + f[d] + f[e])
    BY <1>1, <1>2, SumGrows, Zenon
<1>4. {a, b, c, d} \cup {e} = {a, b, c, d, e} /\ 4 + 1 = 5
    OBVIOUS
<1> QED
    BY <1>3, <1>4, Zenon

LEMMA Sum6 ==
    ASSUME NEW f, NEW a, NEW b, NEW c, NEW d, NEW e, NEW g,
           a # b, c \notin {a, b}, d \notin {a, b, c}, e \notin {a, b, c, d}, g \notin {a, b, c, d, e},
           \A y \in {a, b, c, d, e, g} : f[y] \in Int
    PROVE  SumIs(f, {a, b, c, d, e, g}, 6, f[a] + f[b] + f[c] + f[d] + f[e] + f[g])
<1>1. SumIs(f, {a, b, c, d, e}, 5, f[a] + f[b] + f[c] + f[d] + f[e])
    BY Sum5
<1>2. f[g] \in Int /\ g \notin {a, b, c, d, e}
    OBVIOUS
<1>3. SumIs(f, {a, b, c, d, e} \cup {g}, 5 + 1, f[a] + f[b] + f[c] + f[d] + f[e] + f[g])
    BY <1>1, <1>2, SumGrows, Zenon
<1>4. {a, b, c, d, e} \cup {g} = {a, b, c, d, e, g} /\ 5 + 1 = 6
    OBVIOUS
<1> QED
    BY <1>3, <1>4, Zenon

LEMMA Sum7 ==
    ASSUME NEW f, NEW a, NEW b, NEW c, NEW d, NEW e, NEW g, NEW h,
           a # b, c \notin {a, b}, d \notin {a, b, c}, e \notin {a, b, c, d}, g \notin {a, b, c, d, e}, h \notin {a, b, c, d, e, g},
           \A y \in {a, b, c, d, e, g, h} : f[y] \in Int
    PROVE  SumIs(f, {a, b, c, d, e, g, h}, 7, f[a] + f[b] + f[c] + f[d] + f[e] + f[g] + f[h])
<1>1. SumIs(f, {a, b, c, d, e, g}, 6, f[a] + f[b] + f[c] + f[d] + f[e] + f[g])
    BY Sum6
<1>2. f[h] \in Int /\ h \notin {a, b, c, d, e, g}
    OBVIOUS
<1>3. SumIs(f, {a, b, c, d, e, g} \cup {h}, 6 + 1, f[a] + f[b] + f[c] + f[d] + f[e] + f[g] + f[h])
    BY <1>1, <1>2, SumGrows, Zenon
<1>4. {a, b, c, d, e, g} \cup {h} = {a, b, c, d, e, g, h} /\ 6 + 1 = 7
    OBVIOUS
<1> QED
    BY <1>3, <1>4, Zenon

-----------------------------------------------------------------------------
(* What a compliant repository has, by the findings it has not. *)
LEMMA CompliantByAudits == ASSUME Audits PROVE CompliantRepoIsReviewed
<1> SUFFICES ASSUME Judged("repository"), verdict.compliant
             PROVE  LET repo == input.repo IN
                    /\ input.token /\ "protection" \notin input.unread
                    /\ repo.protected /\ repo.approvals >= 1 /\ ~repo.forcePush /\ ~repo.deletions
                    /\ repo.dismissStale => T!IsCompliantForSoc2(repo)
                    /\ "secrets" \notin input.unread => repo.secrets = 0
                    /\ "dependabot" \notin input.unread => T!Breaches(repo.alerts, "critical", 7) = {}
    BY DEF CompliantRepoIsReviewed
<1>1. PICK repo \in Repositories, token \in BOOLEAN, unread \in SUBSET T!Requests :
            /\ input = [repo |-> repo, token |-> token, unread |-> unread]
            /\ verdict = T!Audit(repo, token, unread)
    BY DEF Audits
<1>2. repo.approvals \in Nat /\ repo.secrets \in Nat
    BY RepositoriesAssumption
<1> DEFINE reads(e) == T!MakeRequest(repo, token, unread, e) = "data"
           findings == verdict.findings
<1>3. verdict.compliant = \A f \in findings : f[1] \notin {"CRITICAL", "HIGH"}
    BY <1>1 DEF T!Audit
<1>4. \A f \in findings : f[1] # "CRITICAL" /\ f[1] # "HIGH"
    BY <1>3
<1>5. /\ T!If(~token, <<"CRITICAL", "no token">>) \subseteq findings
      /\ ~reads("protection") => <<"CRITICAL", "branch protection">> \in findings
      /\ reads("protection") => T!BranchFindings(repo) \subseteq findings
      /\ T!If(reads("dependabot") /\ T!Breaches(repo.alerts, "critical", 7) # {},
                    <<"CRITICAL", "dependabot">>) \subseteq findings
      /\ T!If(reads("secrets") /\ repo.secrets > 0, <<"CRITICAL", "secrets">>) \subseteq findings
    BY <1>1 DEF T!Audit
<1> HIDE DEF findings
<1>6. token
    BY <1>4, <1>5 DEF T!If
<1>7. reads("protection")
    BY <1>4, <1>5
<1>8. repo.protected /\ "protection" \notin unread
    BY <1>7 DEF T!MakeRequest
<1>9. /\ T!If(repo.approvals < 1, <<"HIGH", "no reviews">>) \subseteq findings
      /\ T!If(repo.forcePush, <<"HIGH", "force pushes">>) \subseteq findings
      /\ T!If(repo.deletions, <<"HIGH", "deletions">>) \subseteq findings
    BY <1>5, <1>7 DEF T!BranchFindings
<1>10. ~(repo.approvals < 1) /\ ~repo.forcePush /\ ~repo.deletions
    BY <1>4, <1>9 DEF T!If
<1>11. "secrets" \notin unread => ~(repo.secrets > 0)
    <2>1. "secrets" \notin unread => reads("secrets")
        BY <1>6 DEF T!MakeRequest
    <2> QED
        BY <1>4, <1>5, <2>1 DEF T!If
<1>12. "dependabot" \notin unread => T!Breaches(repo.alerts, "critical", 7) = {}
    <2>1. "dependabot" \notin unread => reads("dependabot")
        BY <1>6 DEF T!MakeRequest
    <2> QED
        BY <1>4, <1>5, <2>1 DEF T!If
<1>13. input.repo = repo /\ input.token = token /\ input.unread = unread
    BY <1>1
<1>14. repo.approvals >= 1 /\ ("secrets" \notin unread => repo.secrets = 0)
    BY <1>2, <1>10, <1>11
<1>15. repo.dismissStale => T!IsCompliantForSoc2(repo)
    BY <1>8, <1>10, <1>14 DEF T!IsCompliantForSoc2
<1> QED
    BY <1>6, <1>8, <1>10, <1>12, <1>13, <1>14, <1>15

(***************************************************************************)
(* connectors/github.py calls a repository compliant only where it read a  *)
(* branch protection that asks for reviews, and found nothing against it.  *)
(***************************************************************************)
THEOREM CompliantReposAreReviewed == JudgingSpec => []CompliantRepoIsReviewed
<1>1. Verdicts => CompliantRepoIsReviewed
    BY CompliantByAudits DEF Verdicts
<1> QED
    BY <1>1, VerdictsHold, PTL

(* Fives only add up to five times as many as there are. *)
LEMMA FivesAddUp ==
    ASSUME NEW f, NEW dom, IsFiniteSet(dom), \A y \in dom : f[y] \in {0, 5}
    PROVE  Total(f, dom) = 5 * Cardinality({y \in dom : f[y] = 5})
<1> DEFINE Fives(s) == {y \in s : f[y] = 5}
           Good(s) == Total(f, s) = 5 * Cardinality(Fives(s))
           N == {n \in Nat : \A s \in SUBSET dom : Cardinality(s) = n => Good(s)}
<1>1. \A s \in SUBSET dom : IsFiniteSet(s) /\ Cardinality(s) \in Nat
    BY FS_Subset, FS_CardinalityType
<1>2. 0 \in N
    <2>1. ASSUME NEW s \in SUBSET dom, Cardinality(s) = 0 PROVE Good(s)
        <3>1. s = {}
            BY <1>1, <2>1, FS_EmptySet
        <3>2. Fives(s) = {}
            BY <3>1
        <3>3. Total(f, s) = 0 /\ Cardinality(Fives(s)) = 0
            BY <3>1, <3>2, TotalPicks, FS_EmptySet
        <3> QED
            BY <3>3
    <2> QED
        BY <2>1
<1>3. ASSUME NEW n \in Nat, n \in N PROVE n + 1 \in N
    <2>1. ASSUME NEW s \in SUBSET dom, Cardinality(s) = n + 1 PROVE Good(s)
        <3> DEFINE x == Pick(s)
                   r == s \ {x}
        <3>1. IsFiniteSet(s) /\ s # {}
            BY <1>1, <2>1, FS_EmptySet
        <3>2. x \in s /\ Cardinality(r) = Cardinality(s) - 1 /\ r \in SUBSET dom
            BY <3>1, PickIs
        <3>3. Total(f, s) = Total(f, r) + f[x]
            BY <3>1, TotalPicks
        <3>4. Good(r)
            BY <1>3, <2>1, <3>2
        <3>5. IsFiniteSet(Fives(r)) /\ x \notin Fives(r)
            BY <1>1, <3>2, FS_Subset
        <3>6. Cardinality(Fives(r)) \in Nat
            BY <3>5, FS_CardinalityType
        <3>7. f[x] \in {0, 5}
            BY <3>2
        <3>8. CASE f[x] = 5
            <4>1. Fives(s) = Fives(r) \cup {x}
                BY <3>2, <3>8
            <4>2. Cardinality(Fives(s)) = Cardinality(Fives(r)) + 1
                BY <3>5, <4>1, FS_AddElement
            <4> HIDE DEF Fives
            <4> QED
                BY <3>3, <3>4, <3>6, <3>8, <4>2
        <3>9. CASE f[x] = 0
            <4>1. Fives(s) = Fives(r)
                BY <3>2, <3>9
            <4> HIDE DEF Fives
            <4> QED
                BY <3>3, <3>4, <3>6, <3>9, <4>1
        <3> QED
            BY <3>7, <3>8, <3>9
    <2> QED
        BY <2>1
<1> HIDE DEF N
<1>4. Cardinality(dom) \in N
    BY <1>1, <1>2, <1>3, AllNumbers
<1> QED
    BY <1>4 DEF N

(* The seven checks of the installation. *)
LEMMA ChecksAre ==
    ASSUME NEW home \in Homes
    PROVE  /\ IsFiniteSet(DOMAIN T!Checks(home)) /\ Cardinality(DOMAIN T!Checks(home)) = 7
           /\ \A c \in DOMAIN T!Checks(home) : T!Checks(home)[c].status \in {"FAIL", "WARN", "PASS"}
<1> DEFINE f == [y \in {"secrets", "storage", "crypto", "audit", "vault", "dependencies", "vendors"} |-> 0]
<1>1. DOMAIN T!Checks(home) = {"secrets", "storage", "crypto", "audit", "vault", "dependencies", "vendors"}
    BY DEF T!Checks
<1>2. SumIs(f, {"secrets", "storage", "crypto", "audit", "vault", "dependencies", "vendors"}, 7,
            f["secrets"] + f["storage"] + f["crypto"] + f["audit"] + f["vault"] + f["dependencies"] + f["vendors"])
    <2>1. \A y \in {"secrets", "storage", "crypto", "audit", "vault", "dependencies", "vendors"} : f[y] \in Int
        OBVIOUS
    <2> HIDE DEF f
    <2> QED
        BY <2>1, Sum7
<1>3. /\ home.evidence \in {"no directory", "empty", "runs"}
      /\ home.auditLog \in {"none", "malformed", "blank", "events"}
      /\ home.vault \in {"broken", "empty", "sealed"} /\ home.vendors \in {"none", "gaps", "compliant"}
    BY HomesAssumption
<1>4. \A status, severity : T!Check(status, severity).status = status
    BY DEF T!Check
<1> DEFINE three == {"FAIL", "WARN", "PASS"}
<1>5. T!CheckSecretsHygiene(home).status \in three
    BY <1>4 DEF T!CheckSecretsHygiene
<1>6. T!CheckFilesystemIsolation(home).status \in three
    BY <1>3, <1>4 DEF T!CheckFilesystemIsolation
<1>7. T!CheckCryptographicControls(home).status \in three
    BY <1>4 DEF T!CheckCryptographicControls
<1>8. T!CheckAuditLogging(home).status \in three
    BY <1>3, <1>4 DEF T!CheckAuditLogging
<1>9. T!CheckVaultIntegrity(home).status \in three
    BY <1>3, <1>4 DEF T!CheckVaultIntegrity
<1>10. T!CheckDependencyPinning(home).status \in three
    BY <1>4 DEF T!CheckDependencyPinning
<1>11. T!CheckVendorRiskCompliance(home).status \in three
    BY <1>3, <1>4 DEF T!CheckVendorRiskCompliance
<1>12. \A c \in DOMAIN T!Checks(home) : T!Checks(home)[c].status \in three
    BY <1>5, <1>6, <1>7, <1>8, <1>9, <1>10, <1>11 DEF T!Checks
<1> QED
    BY <1>1, <1>2, <1>12 DEF SumIs

(* With no check failed, points are lost for warnings only, and three of them may be had at most. *)
LEMMA CompliantByInspections == ASSUME Inspections PROVE CompliantHomeHasNoFailure
<1> SUFFICES ASSUME Judged("home"), verdict.status = "COMPLIANT"
             PROVE  LET checks == T!Checks(input)
                        with(s) == {c \in DOMAIN checks : checks[c].status = s}
                    IN  with("FAIL") = {} /\ Cardinality(with("PASS")) >= 4
    BY DEF CompliantHomeHasNoFailure
<1> DEFINE checks == T!Checks(input)
           dom == DOMAIN checks
           with(s) == {c \in dom : checks[c].status = s}
           f == [c \in dom |-> T!Penalty(checks[c])]
<1>1. input \in Homes /\ verdict = T!Assess(checks)
    BY DEF Inspections, T!RunAssessment
<1>2. /\ IsFiniteSet(dom) /\ Cardinality(dom) = 7
      /\ \A c \in dom : checks[c].status \in {"FAIL", "WARN", "PASS"}
    BY <1>1, ChecksAre
<1>3. with("FAIL") = {} /\ T!ScoreOf(checks) >= 85
    BY <1>1 DEF T!Assess
<1>4. T!ScoreOf(checks) = T!Max({0, 100 - Total(f, dom)})
    BY OneSum DEF T!ScoreOf
<1> HIDE DEF checks
<1>5. \A c \in dom : f[c] = IF checks[c].status = "WARN" THEN 5 ELSE 0
    BY <1>2, <1>3 DEF T!Penalty
<1>6. Total(f, dom) = 5 * Cardinality({c \in dom : f[c] = 5})
    <2>1. \A c \in dom : f[c] \in {0, 5}
        BY <1>5
    <2> HIDE DEF f
    <2> QED
        BY <1>2, <2>1, FivesAddUp
<1>7. {c \in dom : f[c] = 5} = with("WARN")
    BY <1>5
<1> HIDE DEF f, dom
<1>8. /\ IsFiniteSet(with("WARN")) /\ IsFiniteSet(with("PASS"))
      /\ Cardinality(with("WARN")) \in Nat /\ Cardinality(with("PASS")) \in Nat
    BY <1>2, FS_Subset, FS_CardinalityType
<1>9. Cardinality(with("WARN")) <= 3
    <2> DEFINE lost == 5 * Cardinality(with("WARN"))
    <2>1. lost \in Nat /\ T!Max({0, 100 - lost}) >= 85
        <3>1. Total(f, dom) = lost
            BY <1>6, <1>7
        <3>2. T!Max({0, 100 - lost}) >= 85
            BY <1>3, <1>4, <3>1
        <3> QED
            BY <1>8, <3>2
    <2>2. lost <= 100 => T!Max({0, 100 - lost}) = 100 - lost
        BY <2>1 DEF T!Max
    <2>3. lost > 100 => T!Max({0, 100 - lost}) = 0
        BY <2>1 DEF T!Max
    <2>4. lost <= 15
        <3> HIDE DEF lost
        <3> QED
            BY <2>1, <2>2, <2>3
    <2> QED
        BY <1>8, <2>4
<1>10. Cardinality(with("WARN")) + Cardinality(with("PASS")) = 7
    <2>1. with("WARN") \cup with("PASS") = dom /\ with("WARN") \cap with("PASS") = {}
        BY <1>2, <1>3
    <2>2. Cardinality(dom) = Cardinality(with("WARN")) + Cardinality(with("PASS")) - Cardinality({})
        BY <1>8, <2>1, FS_Union
    <2>3. Cardinality({}) = 0
        BY FS_EmptySet
    <2> QED
        BY <1>2, <1>8, <2>2, <2>3
<1>11. Cardinality(with("PASS")) >= 4
    BY <1>8, <1>9, <1>10
<1> QED
    BY <1>3, <1>11 DEF dom, checks

(***************************************************************************)
(* dogfood.py calls the installation compliant only with no check failed   *)
(* and at least four of its seven passed.                                  *)
(***************************************************************************)
THEOREM CompliantHomesHaveNoFailure == JudgingSpec => []CompliantHomeHasNoFailure
<1>1. Verdicts => CompliantHomeHasNoFailure
    BY CompliantByInspections DEF Verdicts
<1> QED
    BY <1>1, VerdictsHold, PTL

-----------------------------------------------------------------------------
LEMMA Quotient ==
    ASSUME NEW x \in Int, NEW n \in Nat, n > 0
    PROVE  x \div n \in Int /\ n * (x \div n) <= x /\ x < n * (x \div n) + n
    OBVIOUS

IsScore(v) == v \in Nat /\ v <= 100000

LEMMA RoundIs ==
    ASSUME NEW x, IsScore(x)
    PROVE  /\ IsScore(S!RoundToTenth(x))
           /\ S!RoundToTenth(x) <= x + 50 /\ x <= S!RoundToTenth(x) + 49
<1> DEFINE z == (x + 50) \div 100
<1>1. z \in Int /\ 100 * z <= x + 50 /\ x + 50 < 100 * z + 100
    <2>1. x + 50 \in Int
        BY DEF IsScore
    <2> QED
        BY <2>1, Quotient
<1>2. S!RoundToTenth(x) = z * 100
    BY DEF S!RoundToTenth
<1> HIDE DEF z
<1> QED
    BY <1>1, <1>2 DEF IsScore

(* The mean of n numbers that make v. *)
LEMMA MeanIs ==
    ASSUME NEW f, NEW part, NEW n, NEW v, SumIs(f, part, n, v), n > 0
    PROVE  S!Mean(f, part) \in Int /\ n * S!Mean(f, part) <= v /\ v < n * S!Mean(f, part) + n
<1>1. S!Mean(f, part) = v \div n
    <2>1. S!Cardinality(part) = Cardinality(part)
        BY DEF S!Cardinality, Cardinality
    <2> QED
        BY <2>1 DEF S!Mean, SumIs
<1> QED
    BY <1>1, Quotient DEF SumIs

(* The pillars there are: of one control, of two, of four. *)
LEMMA PillarOf1 ==
    ASSUME NEW f, NEW a, IsScore(f[a])
    PROVE  LET p == S!RoundToTenth(S!Mean(f, {a})) IN
           IsScore(p) /\ p <= f[a] + 50 /\ f[a] <= p + 50
<1> DEFINE m == S!Mean(f, {a})
           p == S!RoundToTenth(m)
<1>1. SumIs(f, {a}, 1, f[a])
    BY SumOfOne DEF IsScore
<1>2. IsScore(m) /\ m = f[a]
    <2>1. m \in Int /\ 1 * m <= f[a] /\ f[a] < 1 * m + 1
        BY <1>1, MeanIs
    <2> HIDE DEF m
    <2> QED
        BY <2>1 DEF IsScore
<1> HIDE DEF m
<1>3. IsScore(p) /\ p <= m + 50 /\ m <= p + 49
    BY <1>2, RoundIs
<1> HIDE DEF p
<1>4. IsScore(p) /\ p <= f[a] + 50 /\ f[a] <= p + 50
    BY <1>2, <1>3 DEF IsScore
<1> QED
    BY <1>4 DEF m, p

LEMMA PillarOf2 ==
    ASSUME NEW f, NEW a, NEW b, a # b, IsScore(f[a]), IsScore(f[b])
    PROVE  LET p == S!RoundToTenth(S!Mean(f, {a, b})) IN
           IsScore(p) /\ 2 * p <= f[a] + f[b] + 100 /\ f[a] + f[b] <= 2 * p + 100
<1> DEFINE m == S!Mean(f, {a, b})
           p == S!RoundToTenth(m)
<1>1. SumIs(f, {a, b}, 2, f[a] + f[b])
    <2>1. \A y \in {a, b} : f[y] \in Int
        BY DEF IsScore
    <2> QED
        BY <2>1, Sum2
<1>2. IsScore(m) /\ 2 * m <= f[a] + f[b] /\ f[a] + f[b] <= 2 * m + 1
    <2>1. m \in Int /\ 2 * m <= f[a] + f[b] /\ f[a] + f[b] < 2 * m + 2
        BY <1>1, MeanIs
    <2> HIDE DEF m
    <2> QED
        BY <2>1 DEF IsScore
<1> HIDE DEF m
<1>3. IsScore(p) /\ p <= m + 50 /\ m <= p + 49
    BY <1>2, RoundIs
<1> HIDE DEF p
<1>4. IsScore(p) /\ 2 * p <= f[a] + f[b] + 100 /\ f[a] + f[b] <= 2 * p + 100
    BY <1>2, <1>3 DEF IsScore
<1> QED
    BY <1>4 DEF m, p

LEMMA PillarOf4 ==
    ASSUME NEW f, NEW a, NEW b, NEW c, NEW d, a # b, c \notin {a, b}, d \notin {a, b, c},
           IsScore(f[a]), IsScore(f[b]), IsScore(f[c]), IsScore(f[d])
    PROVE  IsScore(S!RoundToTenth(S!Mean(f, {a, b, c, d})))
<1> DEFINE m == S!Mean(f, {a, b, c, d})
           v == f[a] + f[b] + f[c] + f[d]
<1>1. SumIs(f, {a, b, c, d}, 4, v)
    <2>1. \A y \in {a, b, c, d} : f[y] \in Int
        BY DEF IsScore
    <2> QED
        BY <2>1, Sum4
<1>2. m \in Int /\ 4 * m <= v /\ v < 4 * m + 4
    BY <1>1, MeanIs
<1> HIDE DEF m
<1>3. IsScore(m)
    BY <1>2 DEF IsScore
<1>4. IsScore(S!RoundToTenth(m))
    BY <1>3, RoundIs
<1> QED
    BY <1>4 DEF m

(* A framework's summary, by the scores of its pillars. *)
Ready(pillar) == S!Mean(pillar, DOMAIN pillar) >= 85000

IsReady(readiness) == readiness = "Audit Ready"

LEMMA ReadinessIs ==
    ASSUME NEW f, IsReady(S!Readiness(S!Mean(f, DOMAIN f)))
    PROVE  Ready(f)
BY DEF IsReady, Ready, S!Readiness, S!Unit

LEMMA SummaryIs ==
    ASSUME NEW scores, NEW pillars, NEW f, f = S!PillarScores(scores, pillars)
    PROVE  /\ S!FrameworkSummary(scores, pillars).pillars = f
           /\ IsReady(S!FrameworkSummary(scores, pillars).readiness) => Ready(f)
<1>1. S!FrameworkSummary(scores, pillars)
          = [overall |-> S!RoundToTenth(S!Mean(f, DOMAIN f)),
             readiness |-> S!Readiness(S!Mean(f, DOMAIN f)), pillars |-> f]
    BY Zenon DEF S!FrameworkSummary
<1>2. S!FrameworkSummary(scores, pillars).readiness = S!Readiness(S!Mean(f, DOMAIN f))
    BY <1>1
<1>3. S!FrameworkSummary(scores, pillars).pillars = f
    BY <1>1
<1> QED
    BY <1>2, <1>3, ReadinessIs

LEMMA ReadyOf3 ==
    ASSUME NEW f, NEW a, NEW b, NEW c, a # b, c \notin {a, b}, DOMAIN f = {a, b, c},
           IsScore(f[a]), IsScore(f[b]), IsScore(f[c]), Ready(f)
    PROVE  \A p \in DOMAIN f : f[p] > 0
<1> DEFINE m == S!Mean(f, {a, b, c})
           v == f[a] + f[b] + f[c]
<1>1. SumIs(f, {a, b, c}, 3, v)
    <2>1. \A y \in {a, b, c} : f[y] \in Int
        BY DEF IsScore
    <2> QED
        BY <2>1, Sum3
<1>2. m \in Int /\ 3 * m <= v
    BY <1>1, MeanIs
<1>3. m >= 85000
    BY DEF Ready
<1> HIDE DEF m
<1>4. f[a] > 0 /\ f[b] > 0 /\ f[c] > 0
    BY <1>2, <1>3 DEF IsScore
<1> QED
    BY <1>4 DEF IsScore

Domain6(f, a, b, c, d, e, g) ==
    /\ a # b /\ c \notin {a, b} /\ d \notin {a, b, c} /\ e \notin {a, b, c, d}
    /\ g \notin {a, b, c, d, e} /\ DOMAIN f = {a, b, c, d, e, g}

LEMMA ReadyOf6 ==
    ASSUME NEW f, NEW a, NEW b, NEW c, NEW d, NEW e, NEW g, Domain6(f, a, b, c, d, e, g),
           IsScore(f[a]), IsScore(f[b]), IsScore(f[c]),
           IsScore(f[d]), IsScore(f[e]), IsScore(f[g]), Ready(f)
    PROVE  \A p \in DOMAIN f : f[p] > 0
<1> DEFINE m == S!Mean(f, {a, b, c, d, e, g})
           v == f[a] + f[b] + f[c] + f[d] + f[e] + f[g]
<1>1. SumIs(f, {a, b, c, d, e, g}, 6, v)
    <2>1. \A y \in {a, b, c, d, e, g} : f[y] \in Int
        BY DEF IsScore
    <2> QED
        BY <2>1, Sum6 DEF Domain6
<1>2. m \in Int /\ 6 * m <= v
    BY <1>1, MeanIs
<1>3. m >= 85000
    BY DEF Ready, Domain6
<1> HIDE DEF m
<1>4. f[a] > 0 /\ f[b] > 0 /\ f[c] > 0 /\ f[d] > 0 /\ f[e] > 0 /\ f[g] > 0
    BY <1>2, <1>3 DEF IsScore
<1> QED
    BY <1>4 DEF Domain6

Domain7(f, a, b, c, d, e, g, h) ==
    /\ a # b /\ c \notin {a, b} /\ d \notin {a, b, c} /\ e \notin {a, b, c, d}
    /\ g \notin {a, b, c, d, e} /\ h \notin {a, b, c, d, e, g}
    /\ DOMAIN f = {a, b, c, d, e, g, h}

SevenAreReady(sum) == 595000 <= sum

LEMMA MeanOf7 ==
    ASSUME NEW f, NEW a, NEW b, NEW c, NEW d, NEW e, NEW g, NEW h, Domain7(f, a, b, c, d, e, g, h),
           \A y \in DOMAIN f : f[y] \in Int, Ready(f)
    PROVE  SevenAreReady(f[a] + f[b] + f[c] + f[d] + f[e] + f[g] + f[h])
<1> DEFINE m == S!Mean(f, {a, b, c, d, e, g, h})
           v == f[a] + f[b] + f[c] + f[d] + f[e] + f[g] + f[h]
<1>1. SumIs(f, {a, b, c, d, e, g, h}, 7, v)
    BY Sum7 DEF Domain7
<1>2. m \in Int /\ 7 * m <= v /\ v \in Int
    BY <1>1, MeanIs DEF SumIs
<1>3. m >= 85000
    BY DEF Ready, Domain7
<1> HIDE DEF m, v
<1>4. 595000 <= v
    BY <1>2, <1>3 DEF IsScore
<1> QED
    BY <1>4 DEF v, SevenAreReady

ScoresOf(f) == \A c \in Controls : IsScore(f[c])

LEMMA PillarsAre ==
    ASSUME NEW scores, NEW pillars, NEW f, f = S!PillarScores(scores, pillars)
    PROVE  /\ DOMAIN f = DOMAIN pillars
           /\ \A p \in DOMAIN f : f[p] = S!RoundToTenth(S!Mean(scores, pillars[p]))
BY DEF S!PillarScores

LEMMA Soc2Is ==
    /\ DOMAIN S!Soc2 = {"Security", "Confidentiality", "Availability"}
    /\ S!Soc2["Security"] = {"CC6.1", "CC6.2", "CC7.1", "ZT-1"}
    /\ S!Soc2["Confidentiality"] = {"C1.2", "C1.4"}
    /\ S!Soc2["Availability"] = {"A1.2"}
BY DEF S!Soc2

LEMMA NistIs ==
    /\ DOMAIN S!Nist = {"AC", "AU", "CM", "SC", "MP", "CP"}
    /\ S!Nist["AC"] = {"CC6.1", "ZT-1"} /\ S!Nist["AU"] = {"CC7.1"} /\ S!Nist["CM"] = {"CC6.2"}
    /\ S!Nist["SC"] = {"C1.2"} /\ S!Nist["MP"] = {"C1.4"} /\ S!Nist["CP"] = {"A1.2"}
BY DEF S!Nist

LEMMA SocAlive ==
    ASSUME NEW scores, ScoresOf(scores), NEW f, f = S!PillarScores(scores, S!Soc2), Ready(f)
    PROVE  \A p \in DOMAIN f : f[p] > 0
<1>1. /\ f["Security"] = S!RoundToTenth(S!Mean(scores, {"CC6.1", "CC6.2", "CC7.1", "ZT-1"}))
      /\ f["Confidentiality"] = S!RoundToTenth(S!Mean(scores, {"C1.2", "C1.4"}))
      /\ f["Availability"] = S!RoundToTenth(S!Mean(scores, {"A1.2"}))
      /\ DOMAIN f = {"Security", "Confidentiality", "Availability"}
    BY Soc2Is, PillarsAre
<1>2. IsScore(f["Security"])
    BY <1>1, PillarOf4 DEF ScoresOf, Controls
<1>3. IsScore(f["Confidentiality"])
    BY <1>1, PillarOf2 DEF ScoresOf, Controls
<1>4. IsScore(f["Availability"])
    BY <1>1, PillarOf1 DEF ScoresOf, Controls
<1> QED
    BY <1>1, <1>2, <1>3, <1>4, ReadyOf3

LEMMA CmmcIs ==
    /\ DOMAIN S!Cmmc =
          {"AccessControl", "Identification", "Audit", "SystemIntegrity", "DataProtection", "Recovery"}
    /\ S!Cmmc["AccessControl"] = {"CC6.1", "ZT-1"} /\ S!Cmmc["Identification"] = {"CC6.1", "CC6.2"}
    /\ S!Cmmc["Audit"] = {"CC7.1"} /\ S!Cmmc["SystemIntegrity"] = {"CC6.2", "CC7.1"}
    /\ S!Cmmc["DataProtection"] = {"C1.2", "C1.4"} /\ S!Cmmc["Recovery"] = {"A1.2"}
BY DEF S!Cmmc

LEMMA ZeroTrustIs ==
    /\ DOMAIN S!ZeroTrust =
          {"Identity", "Device", "Network", "Application", "Data", "Visibility", "Automation"}
    /\ S!ZeroTrust["Identity"] = {"CC6.1", "ZT-1"} /\ S!ZeroTrust["Device"] = {"CC6.2", "ZT-1"}
    /\ S!ZeroTrust["Network"] = {"CC6.2", "C1.2"} /\ S!ZeroTrust["Application"] = {"CC6.2", "CC7.1"}
    /\ S!ZeroTrust["Data"] = {"C1.2", "C1.4"} /\ S!ZeroTrust["Visibility"] = {"CC7.1"}
    /\ S!ZeroTrust["Automation"] = {"A1.2", "ZT-1"}
BY DEF S!ZeroTrust

LEMMA NistAlive ==
    ASSUME NEW scores, ScoresOf(scores), NEW f, f = S!PillarScores(scores, S!Nist), Ready(f)
    PROVE  \A p \in DOMAIN f : f[p] > 0
<1>1. /\ f["AC"] = S!RoundToTenth(S!Mean(scores, {"CC6.1", "ZT-1"}))
      /\ f["AU"] = S!RoundToTenth(S!Mean(scores, {"CC7.1"}))
      /\ f["CM"] = S!RoundToTenth(S!Mean(scores, {"CC6.2"}))
      /\ f["SC"] = S!RoundToTenth(S!Mean(scores, {"C1.2"}))
      /\ f["MP"] = S!RoundToTenth(S!Mean(scores, {"C1.4"}))
      /\ f["CP"] = S!RoundToTenth(S!Mean(scores, {"A1.2"}))
      /\ DOMAIN f = {"AC", "AU", "CM", "SC", "MP", "CP"}
    <2>1. DOMAIN f = DOMAIN S!Nist
          /\ \A p \in DOMAIN f : f[p] = S!RoundToTenth(S!Mean(scores, S!Nist[p]))
        BY PillarsAre
    <2> QED
        BY <2>1, NistIs
<1>2. IsScore(f["AC"])
    BY <1>1, PillarOf2 DEF ScoresOf, Controls
<1>3. \A c \in Controls : IsScore(S!RoundToTenth(S!Mean(scores, {c})))
    <2>1. ASSUME NEW c \in Controls PROVE IsScore(S!RoundToTenth(S!Mean(scores, {c})))
        <3>1. IsScore(scores[c])
            BY DEF ScoresOf
        <3> QED
            BY <3>1, PillarOf1
    <2> QED
        BY <2>1
<1>4. /\ IsScore(f["AU"]) /\ IsScore(f["CM"]) /\ IsScore(f["SC"])
      /\ IsScore(f["MP"]) /\ IsScore(f["CP"])
    BY <1>1, <1>3 DEF Controls
<1> QED
    <2>1. Domain6(f, "AC", "AU", "CM", "SC", "MP", "CP")
        BY <1>1 DEF Domain6
    <2> QED
        BY <1>2, <1>4, <2>1, ReadyOf6

LEMMA CmmcAlive ==
    ASSUME NEW scores, ScoresOf(scores), NEW f, f = S!PillarScores(scores, S!Cmmc), Ready(f)
    PROVE  \A p \in DOMAIN f : f[p] > 0
<1>1. /\ f["AccessControl"] = S!RoundToTenth(S!Mean(scores, {"CC6.1", "ZT-1"}))
      /\ f["Identification"] = S!RoundToTenth(S!Mean(scores, {"CC6.1", "CC6.2"}))
      /\ f["Audit"] = S!RoundToTenth(S!Mean(scores, {"CC7.1"}))
      /\ f["SystemIntegrity"] = S!RoundToTenth(S!Mean(scores, {"CC6.2", "CC7.1"}))
      /\ f["DataProtection"] = S!RoundToTenth(S!Mean(scores, {"C1.2", "C1.4"}))
      /\ f["Recovery"] = S!RoundToTenth(S!Mean(scores, {"A1.2"}))
      /\ DOMAIN f = {"AccessControl", "Identification", "Audit", "SystemIntegrity",
                     "DataProtection", "Recovery"}
    <2>1. DOMAIN f = DOMAIN S!Cmmc
          /\ \A p \in DOMAIN f : f[p] = S!RoundToTenth(S!Mean(scores, S!Cmmc[p]))
        BY PillarsAre
    <2> QED
        BY <2>1, CmmcIs
<1>2. \A a, b \in Controls : a # b => IsScore(S!RoundToTenth(S!Mean(scores, {a, b})))
    BY PillarOf2 DEF ScoresOf
<1>3. \A c \in Controls : IsScore(S!RoundToTenth(S!Mean(scores, {c})))
    <2>1. ASSUME NEW c \in Controls PROVE IsScore(S!RoundToTenth(S!Mean(scores, {c})))
        <3>1. IsScore(scores[c])
            BY DEF ScoresOf
        <3> QED
            BY <3>1, PillarOf1
    <2> QED
        BY <2>1
<1>4. /\ IsScore(f["AccessControl"]) /\ IsScore(f["Identification"])
      /\ IsScore(f["Audit"]) /\ IsScore(f["SystemIntegrity"])
      /\ IsScore(f["DataProtection"]) /\ IsScore(f["Recovery"])
    BY <1>1, <1>2, <1>3 DEF Controls
<1> QED
    <2>1. Domain6(f, "AccessControl", "Identification", "Audit", "SystemIntegrity",
                     "DataProtection", "Recovery")
        BY <1>1 DEF Domain6
    <2> QED
        BY <1>4, <2>1, ReadyOf6

(* Of seven pillars one might be at zero, but for the controls they have in common. *)
Of1(v, a) == IsScore(v) /\ v <= a + 50 /\ a <= v + 50
Of2(v, a, b) == IsScore(v) /\ 2 * v <= a + b + 100 /\ a + b <= 2 * v + 100

SevenPillars(identity, device, network, application, protection, visibility, automation,
             a, b, c, d, e, g, h) ==
    /\ IsScore(a) /\ IsScore(b) /\ IsScore(c) /\ IsScore(d) /\ IsScore(e) /\ IsScore(g) /\ IsScore(h)
    /\ Of2(identity, a, h) /\ Of2(device, b, h) /\ Of2(network, b, d) /\ Of2(application, b, c)
    /\ Of2(protection, d, e) /\ Of1(visibility, c) /\ Of2(automation, g, h)
    /\ SevenAreReady(identity + device + network + application + protection + visibility + automation)

LEMMA NoneOfSevenIsDead ==
    ASSUME NEW identity, NEW device, NEW network, NEW application,
           NEW protection, NEW visibility, NEW automation,
           NEW a, NEW b, NEW c, NEW d, NEW e, NEW g, NEW h,
           SevenPillars(identity, device, network, application, protection, visibility, automation,
                        a, b, c, d, e, g, h)
    PROVE  /\ identity > 0 /\ device > 0 /\ network > 0 /\ application > 0
           /\ protection > 0 /\ visibility > 0 /\ automation > 0
BY DEF SevenPillars, Of1, Of2, SevenAreReady, IsScore

LEMMA ZeroTrustAlive ==
    ASSUME NEW scores, ScoresOf(scores), NEW f, f = S!PillarScores(scores, S!ZeroTrust), Ready(f)
    PROVE  \A p \in DOMAIN f : f[p] > 0
<1>1. /\ f["Identity"] = S!RoundToTenth(S!Mean(scores, {"CC6.1", "ZT-1"}))
      /\ f["Device"] = S!RoundToTenth(S!Mean(scores, {"CC6.2", "ZT-1"}))
      /\ f["Network"] = S!RoundToTenth(S!Mean(scores, {"CC6.2", "C1.2"}))
      /\ f["Application"] = S!RoundToTenth(S!Mean(scores, {"CC6.2", "CC7.1"}))
      /\ f["Data"] = S!RoundToTenth(S!Mean(scores, {"C1.2", "C1.4"}))
      /\ f["Visibility"] = S!RoundToTenth(S!Mean(scores, {"CC7.1"}))
      /\ f["Automation"] = S!RoundToTenth(S!Mean(scores, {"A1.2", "ZT-1"}))
      /\ DOMAIN f = {"Identity", "Device", "Network", "Application", "Data", "Visibility", "Automation"}
    <2>1. DOMAIN f = DOMAIN S!ZeroTrust
          /\ \A p \in DOMAIN f : f[p] = S!RoundToTenth(S!Mean(scores, S!ZeroTrust[p]))
        BY PillarsAre
    <2> QED
        BY <2>1, ZeroTrustIs
<1>2. \A a, b \in Controls :
          a # b => Of2(S!RoundToTenth(S!Mean(scores, {a, b})), scores[a], scores[b])
    BY PillarOf2 DEF ScoresOf, Of2
<1>3. Of1(f["Visibility"], scores["CC7.1"])
    BY <1>1, PillarOf1 DEF ScoresOf, Controls, Of1
<1>4. /\ Of2(f["Identity"], scores["CC6.1"], scores["ZT-1"])
      /\ Of2(f["Device"], scores["CC6.2"], scores["ZT-1"])
      /\ Of2(f["Network"], scores["CC6.2"], scores["C1.2"])
      /\ Of2(f["Application"], scores["CC6.2"], scores["CC7.1"])
      /\ Of2(f["Data"], scores["C1.2"], scores["C1.4"])
      /\ Of2(f["Automation"], scores["A1.2"], scores["ZT-1"])
    BY <1>1, <1>2 DEF Controls
<1>5. \A y \in DOMAIN f : f[y] \in Int
    BY <1>1, <1>3, <1>4 DEF IsScore, Of1, Of2
<1>6. SevenAreReady(f["Identity"] + f["Device"] + f["Network"] + f["Application"] + f["Data"]
                    + f["Visibility"] + f["Automation"])
    <2>1. Domain7(f, "Identity", "Device", "Network", "Application", "Data", "Visibility",
                  "Automation")
        BY <1>1 DEF Domain7
    <2> QED
        BY <1>5, <2>1, MeanOf7
<1>7. /\ IsScore(scores["CC6.1"]) /\ IsScore(scores["CC6.2"]) /\ IsScore(scores["CC7.1"])
      /\ IsScore(scores["C1.2"]) /\ IsScore(scores["C1.4"]) /\ IsScore(scores["A1.2"])
      /\ IsScore(scores["ZT-1"])
    BY DEF ScoresOf, Controls
<1>8. /\ f["Identity"] > 0 /\ f["Device"] > 0 /\ f["Network"] > 0 /\ f["Application"] > 0
      /\ f["Data"] > 0 /\ f["Visibility"] > 0 /\ f["Automation"] > 0
    <2>1. SevenPillars(f["Identity"], f["Device"], f["Network"], f["Application"], f["Data"],
                       f["Visibility"], f["Automation"], scores["CC6.1"], scores["CC6.2"],
                       scores["CC7.1"], scores["C1.2"], scores["C1.4"], scores["A1.2"],
                       scores["ZT-1"])
        BY <1>3, <1>4, <1>6, <1>7 DEF SevenPillars
    <2> QED
        BY <2>1, NoneOfSevenIsDead
<1> QED
    BY <1>1, <1>8

LEMMA FrameworksAre ==
    /\ DOMAIN S!Frameworks = {"soc2", "nist", "cmmc", "zt"}
    /\ S!Frameworks["soc2"] = S!Soc2 /\ S!Frameworks["nist"] = S!Nist
    /\ S!Frameworks["cmmc"] = S!Cmmc /\ S!Frameworks["zt"] = S!ZeroTrust
BY DEF S!Frameworks

LEMMA AllAlive ==
    ASSUME NEW scores, ScoresOf(scores), NEW g \in DOMAIN S!Frameworks,
           NEW f, f = S!PillarScores(scores, S!Frameworks[g]), Ready(f)
    PROVE  \A p \in DOMAIN f : f[p] > 0
<1>1. f \in {S!PillarScores(scores, S!Soc2), S!PillarScores(scores, S!Nist),
             S!PillarScores(scores, S!Cmmc), S!PillarScores(scores, S!ZeroTrust)}
    BY FrameworksAre
<1> QED
    BY <1>1, SocAlive, NistAlive, CmmcAlive, ZeroTrustAlive

LEMMA AliveByCards == ASSUME Cards PROVE ReadyHasNoDeadPillar
<1> SUFFICES ASSUME Judged("scorecard"), NEW g \in DOMAIN verdict.card.frameworks,
                    IsReady(verdict.card.frameworks[g].readiness)
             PROVE  \A p \in DOMAIN verdict.card.frameworks[g].pillars :
                        verdict.card.frameworks[g].pillars[p] > 0
    BY Zenon DEF ReadyHasNoDeadPillar, IsReady
<1>1. input \in [Controls -> Scores] /\ verdict.card = S!Scorecard(input)
    BY DataAssumption DEF Cards
<1>2. ScoresOf(input)
    <2>1. \A v \in Scores : IsScore(v)
        BY ScoresAssumption DEF IsScore
    <2>2. \A c \in Controls : input[c] \in Scores
        BY <1>1
    <2> QED
        BY <2>1, <2>2 DEF ScoresOf
<1>3. verdict.card.frameworks = [h \in DOMAIN S!Frameworks |-> S!FrameworkSummary(input, S!Frameworks[h])]
    BY <1>1 DEF S!Scorecard
<1> DEFINE f == S!PillarScores(input, S!Frameworks[g])
<1>4. /\ g \in DOMAIN S!Frameworks
      /\ verdict.card.frameworks[g] = S!FrameworkSummary(input, S!Frameworks[g])
    BY <1>3
<1>5. verdict.card.frameworks[g].pillars = f /\ Ready(f)
    <2>1. /\ S!FrameworkSummary(input, S!Frameworks[g]).pillars = f
          /\ IsReady(S!FrameworkSummary(input, S!Frameworks[g]).readiness) => Ready(f)
        BY SummaryIs
    <2> QED
        BY <1>4, <2>1
<1>6. \A p \in DOMAIN f : f[p] > 0
    BY <1>2, <1>4, <1>5, AllAlive
<1> QED
    BY <1>5, <1>6

(***************************************************************************)
(* compute_compliance_scorecard calls a framework audit ready only if each *)
(* of its pillars scores above zero, whatever the controls' scores.        *)
(***************************************************************************)
THEOREM ReadyIsAlive == JudgingSpec => []ReadyHasNoDeadPillar
<1>1. Verdicts => ReadyHasNoDeadPillar
    BY AliveByCards DEF Verdicts
<1> QED
    BY <1>1, VerdictsHold, PTL

-----------------------------------------------------------------------------
Grows(x, y) == x = y \/ (C!Measured(x) /\ C!Measured(y) /\ x > y)
Shrinks(x, y) == x = y \/ (C!Measured(x) /\ x < y)

LEMMA WorseIs ==
    ASSUME NEW w, NEW d, Worse(w, d), NEW f \in DOMAIN w
    PROVE  /\ f \in Rising => Grows(w[f], d[f])
           /\ f \in Falling => Shrinks(w[f], d[f])
           /\ f \notin Rising /\ f \notin Falling => w[f] = d[f]
<1>1. f \in Rising => f \notin Falling
    BY DEF Rising, Falling
<1>2. \/ w[f] = d[f]
      \/ f \in Rising /\ C!Measured(w[f]) /\ C!Measured(d[f]) /\ w[f] > d[f]
      \/ f \in Falling /\ C!Measured(w[f]) /\ w[f] < d[f]
    BY DEF Worse
<1> QED
    BY <1>1, <1>2 DEF Grows, Shrinks

LEMMA GrownNumber ==
    ASSUME NEW x \in Metric, NEW y \in Metric, Grows(x, y)
    PROVE  /\ S!Number(x) \in Nat /\ S!Number(y) \in Nat /\ S!Number(y) <= S!Number(x)
           /\ x \in Int /\ y \in Int /\ y <= x /\ (S!Measured(x) <=> S!Measured(y))
    BY Number0 DEF Grows

LEMMA ShrunkNumber ==
    ASSUME NEW x \in Metric, NEW y \in Metric, Shrinks(x, y)
    PROVE  /\ S!Number(x) \in Nat /\ S!Number(y) \in Nat /\ S!Number(x) <= S!Number(y)
           /\ x \in Int /\ y \in Int /\ x <= y
    BY Number0 DEF Shrinks

LEMMA LeastGrows ==
    ASSUME NEW top \in Nat, NEW x \in Nat, NEW y \in Nat, x <= y
    PROVE  S!Least(top, x) \in Nat /\ S!Least(top, y) \in Nat /\ S!Least(top, x) <= S!Least(top, y)
    BY DEF S!Least

LEMMA ShortGrows ==
    ASSUME NEW x \in Nat, NEW y \in Nat, x <= y, NEW top \in Nat
    PROVE  Short(x, top) \in Nat /\ Short(y, top) \in Nat /\ Short(y, top) <= Short(x, top)
    BY DEF Short

LEMMA IamFalls ==
    ASSUME NEW w \in SnapshotData("CC6.1"), NEW d \in SnapshotData("CC6.1"), Worse(w, d)
    PROVE  IamPoints(w) <= IamPoints(d)
<1>1. /\ w.orphaned_accounts \in Metric /\ d.orphaned_accounts \in Metric
      /\ DOMAIN w = {"orphaned_accounts", "days_since_last_review", "total_identities"}
    BY DEF SnapshotData
<1>2. Grows(w.orphaned_accounts, d.orphaned_accounts)
    BY <1>1, WorseIs DEF Rising
<1>3. w.days_since_last_review = d.days_since_last_review
    BY <1>1, WorseIs DEF Rising, Falling
<1> DEFINE x == S!Number(w.orphaned_accounts)
           y == S!Number(d.orphaned_accounts)
           p == S!Least(30000, 5000 * x)
           q == S!Least(30000, 5000 * y)
           r == S!Rule(d.days_since_last_review > 90, 20)
<1>4. x \in Nat /\ y \in Nat /\ y <= x
    BY <1>1, <1>2, GrownNumber
<1> HIDE DEF x, y
<1>5. p \in Nat /\ q \in Nat /\ q <= p
    BY <1>4, LeastGrows
<1>6. r \in Nat
    BY DEF S!Rule, S!Unit
<1>7. IamPoints(w) = 60000 - p - r /\ IamPoints(d) = 60000 - q - r
    BY <1>3 DEF IamPoints, x, y
<1> HIDE DEF p, q, r
<1> QED
    BY <1>5, <1>6, <1>7

LEMMA ConfigFalls ==
    ASSUME NEW w \in SnapshotData("CC6.2"), NEW d \in SnapshotData("CC6.2"), Worse(w, d)
    PROVE  ConfigPoints(w) <= ConfigPoints(d)
<1>1. /\ w.open_http_listeners \in Metric /\ d.open_http_listeners \in Metric
      /\ w.unapproved_changes \in Metric /\ d.unapproved_changes \in Metric
      /\ {"open_http_listeners", "unapproved_changes"} \subseteq DOMAIN w
    BY DEF SnapshotData
<1>2. /\ Grows(w.open_http_listeners, d.open_http_listeners)
      /\ Grows(w.unapproved_changes, d.unapproved_changes)
    BY <1>1, WorseIs DEF Rising
<1> DEFINE x1 == S!Number(w.open_http_listeners)
           y1 == S!Number(d.open_http_listeners)
           x2 == S!Number(w.unapproved_changes)
           y2 == S!Number(d.unapproved_changes)
           p1 == S!Least(40000, 20000 * x1)
           q1 == S!Least(40000, 20000 * y1)
           p2 == S!Least(30000, 15000 * x2)
           q2 == S!Least(30000, 15000 * y2)
<1>3. /\ x1 \in Nat /\ y1 \in Nat /\ y1 <= x1
      /\ x2 \in Nat /\ y2 \in Nat /\ y2 <= x2
    BY <1>1, <1>2, GrownNumber
<1> HIDE DEF x1, y1, x2, y2
<1>4. p1 \in Nat /\ q1 \in Nat /\ q1 <= p1
    BY <1>3, LeastGrows
<1>5. p2 \in Nat /\ q2 \in Nat /\ q2 <= p2
    BY <1>3, LeastGrows
<1>6. ConfigPoints(w) = 50000 - p1 - p2 /\ ConfigPoints(d) = 50000 - q1 - q2
    BY DEF ConfigPoints, x1, y1, x2, y2
<1> HIDE DEF p1, p2, q1, q2
<1> QED
    BY <1>4, <1>5, <1>6

LEMMA LoggingFalls ==
    ASSUME NEW w \in SnapshotData("CC7.1"), NEW d \in SnapshotData("CC7.1"), Worse(w, d)
    PROVE  LoggingPoints(w) <= LoggingPoints(d)
<1>1. /\ w.active_trails \in Metric /\ d.active_trails \in Metric
      /\ w.log_coverage_percent \in Metric /\ d.log_coverage_percent \in Metric
      /\ w.max_gap_hours \in Metric /\ d.max_gap_hours \in Metric
      /\ {"active_trails", "log_coverage_percent", "max_gap_hours"} \subseteq DOMAIN w
    BY DEF SnapshotData
<1>2. /\ Shrinks(w.active_trails, d.active_trails)
      /\ Shrinks(w.log_coverage_percent, d.log_coverage_percent)
    BY <1>1, WorseIs DEF Falling
<1>3. Grows(w.max_gap_hours, d.max_gap_hours)
    BY <1>1, WorseIs DEF Rising
<1> DEFINE x == S!Number(w.log_coverage_percent)
           y == S!Number(d.log_coverage_percent)
           p1 == S!Rule(S!Number(w.active_trails) = 0, 50)
           q1 == S!Rule(S!Number(d.active_trails) = 0, 50)
           p2 == S!Least(40000, (15 * Short(x, 95000)) \div 10)
           q2 == S!Least(40000, (15 * Short(y, 95000)) \div 10)
           p3 == S!Rule(w.max_gap_hours > 24000, 20)
           q3 == S!Rule(d.max_gap_hours > 24000, 20)
<1>4. p1 \in Nat /\ q1 \in Nat /\ q1 <= p1
    <2>1. S!Number(w.active_trails) <= S!Number(d.active_trails)
          /\ S!Number(w.active_trails) \in Nat /\ S!Number(d.active_trails) \in Nat
        BY <1>1, <1>2, ShrunkNumber
    <2> QED
        BY <2>1 DEF S!Rule, S!Unit
<1>5. x \in Nat /\ y \in Nat /\ x <= y
    BY <1>1, <1>2, ShrunkNumber
<1> HIDE DEF x, y
<1>6. Short(x, 95000) \in Nat /\ Short(y, 95000) \in Nat /\ Short(y, 95000) <= Short(x, 95000)
    BY <1>5, ShortGrows
<1>7. p2 \in Nat /\ q2 \in Nat /\ q2 <= p2
    <2> DEFINE a == (15 * Short(x, 95000)) \div 10
               b == (15 * Short(y, 95000)) \div 10
    <2>1. a \in Nat /\ b \in Nat /\ b <= a
        BY <1>6
    <2> HIDE DEF a, b
    <2>2. S!Least(40000, a) \in Nat /\ S!Least(40000, b) \in Nat /\ S!Least(40000, b) <= S!Least(40000, a)
        BY <2>1, LeastGrows
    <2> QED
        BY <2>2 DEF a, b
<1>8. p3 \in Nat /\ q3 \in Nat /\ q3 <= p3
    <2>1. w.max_gap_hours \in Int /\ d.max_gap_hours \in Int /\ d.max_gap_hours <= w.max_gap_hours
        BY <1>1, <1>3, GrownNumber
    <2> QED
        BY <2>1 DEF S!Rule, S!Unit
<1>9. LoggingPoints(w) = 80000 - p1 - p2 - p3 /\ LoggingPoints(d) = 80000 - q1 - q2 - q3
    BY DEF LoggingPoints, x, y
<1> HIDE DEF p1, p2, p3, q1, q2, q3
<1> QED
    BY <1>4, <1>7, <1>8, <1>9

LEMMA ShareGrows ==
    ASSUME NEW x \in Nat, NEW y \in Nat, x <= y, NEW n \in Nat, n > 0
    PROVE  (100000 * x) \div n <= (100000 * y) \div n
<1> DEFINE a == 100000 * x
           b == 100000 * y
<1>1. a \in Nat /\ b \in Nat /\ a <= b
    OBVIOUS
<1> HIDE DEF a, b
<1>2. a \div n <= b \div n
    BY <1>1
<1> QED
    BY <1>2 DEF a, b

LEMMA ShortOfAllGrows ==
    ASSUME NEW x \in Nat, NEW y \in Nat, x <= y
    PROVE  /\ Short(x, 100000) \in Nat /\ Short(y, 100000) \in Nat
           /\ Short(y, 100000) <= Short(x, 100000)
    BY DEF Short

LEMMA TenthsGrow ==
    ASSUME NEW x \in Nat, NEW y \in Nat, x <= y
    PROVE  /\ (4 * x) \div 10 \in Nat /\ (4 * y) \div 10 \in Nat /\ (4 * x) \div 10 <= (4 * y) \div 10
           /\ (7 * x) \div 10 \in Nat /\ (7 * y) \div 10 \in Nat /\ (7 * x) \div 10 <= (7 * y) \div 10
<1>1. /\ (4 * x) \div 10 \in Nat /\ (4 * y) \div 10 \in Nat
      /\ (7 * x) \div 10 \in Nat /\ (7 * y) \div 10 \in Nat
    OBVIOUS
<1>2. (4 * x) \div 10 <= (4 * y) \div 10
    OBVIOUS
<1>3. (7 * x) \div 10 <= (7 * y) \div 10
    OBVIOUS
<1> QED
    BY <1>1, <1>2, <1>3

LEMMA EncryptionFalls ==
    ASSUME NEW w \in SnapshotData("C1.2"), NEW d \in SnapshotData("C1.2"), Worse(w, d)
    PROVE  EncryptionPoints(w) <= EncryptionPoints(d)
<1>1. /\ w.total_confidential_resources \in Metric /\ d.total_confidential_resources \in Metric
      /\ w.encrypted_at_rest \in Metric /\ d.encrypted_at_rest \in Metric
      /\ w.unencrypted_cui_count \in Metric /\ d.unencrypted_cui_count \in Metric
      /\ w.weak_cipher_endpoints \in Metric /\ d.weak_cipher_endpoints \in Metric
      /\ w.fips_compliant_keys \in Metric /\ d.fips_compliant_keys \in Metric
      /\ {"total_confidential_resources", "encrypted_at_rest", "unencrypted_cui_count",
          "weak_cipher_endpoints", "fips_compliant_keys"} \subseteq DOMAIN w
    BY DEF SnapshotData
<1>2. /\ Shrinks(w.encrypted_at_rest, d.encrypted_at_rest)
      /\ Shrinks(w.fips_compliant_keys, d.fips_compliant_keys)
    BY <1>1, WorseIs DEF Falling
<1>3. /\ Grows(w.unencrypted_cui_count, d.unencrypted_cui_count)
      /\ Grows(w.weak_cipher_endpoints, d.weak_cipher_endpoints)
    BY <1>1, WorseIs DEF Rising
<1>4. w.total_confidential_resources = d.total_confidential_resources
    BY <1>1, WorseIs DEF Rising, Falling
<1> DEFINE total == S!Number(d.total_confidential_resources)
           none == S!Rule(total = 0, 40)
           p1 == S!Least(50000, 25000 * S!Number(w.unencrypted_cui_count))
           q1 == S!Least(50000, 25000 * S!Number(d.unencrypted_cui_count))
           p2 == (4 * Short(AtRest(w), 100000)) \div 10
           q2 == (4 * Short(AtRest(d), 100000)) \div 10
           p3 == (4 * Short(InTransit(w), 100000)) \div 10
           q3 == (4 * Short(InTransit(d), 100000)) \div 10
           p4 == S!Rule(~(w.fips_compliant_keys > 0), 10)
           q4 == S!Rule(~(d.fips_compliant_keys > 0), 10)
<1>5. none \in Nat
    BY DEF S!Rule, S!Unit
<1>6. p1 \in Nat /\ q1 \in Nat /\ q1 <= p1
    <2> DEFINE x == S!Number(w.unencrypted_cui_count)
               y == S!Number(d.unencrypted_cui_count)
    <2>1. x \in Nat /\ y \in Nat /\ y <= x
        BY <1>1, <1>3, GrownNumber
    <2> HIDE DEF x, y
    <2>2. S!Least(50000, 25000 * x) \in Nat /\ S!Least(50000, 25000 * y) \in Nat
          /\ S!Least(50000, 25000 * y) <= S!Least(50000, 25000 * x)
        BY <2>1, LeastGrows
    <2> QED
        BY <2>2 DEF x, y
<1>7. total \in Nat
    BY <1>1, Number0
<1>8. AtRest(w) \in Nat /\ AtRest(d) \in Nat /\ InTransit(w) \in Nat /\ InTransit(d) \in Nat
    BY EncryptionPasses
<1>9. AtRest(w) <= AtRest(d)
    <2> DEFINE x == S!Number(w.encrypted_at_rest)
               y == S!Number(d.encrypted_at_rest)
    <2>1. x \in Nat /\ y \in Nat /\ x <= y
        BY <1>1, <1>2, ShrunkNumber
    <2>2. AtRest(w) = (IF total > 0 THEN (100000 * x) \div total ELSE 0)
          /\ AtRest(d) = (IF total > 0 THEN (100000 * y) \div total ELSE 0)
        BY <1>4 DEF AtRest
    <2> HIDE DEF x, y, total
    <2> QED
        BY <1>7, <2>1, <2>2, ShareGrows
<1>10. InTransit(w) <= InTransit(d)
    <2>1. /\ S!Number(w.weak_cipher_endpoints) \in Nat /\ S!Number(d.weak_cipher_endpoints) \in Nat
          /\ S!Number(d.weak_cipher_endpoints) <= S!Number(w.weak_cipher_endpoints)
        BY <1>1, <1>3, GrownNumber
    <2> QED
        BY <1>4, <2>1 DEF InTransit
<1>11. p2 \in Nat /\ q2 \in Nat /\ q2 <= p2 /\ p3 \in Nat /\ q3 \in Nat /\ q3 <= p3
    <2> DEFINE a == Short(AtRest(w), 100000)
               b == Short(AtRest(d), 100000)
               u == Short(InTransit(w), 100000)
               v == Short(InTransit(d), 100000)
    <2>1. a \in Nat /\ b \in Nat /\ b <= a
        BY <1>8, <1>9, ShortOfAllGrows
    <2>2. u \in Nat /\ v \in Nat /\ v <= u
        BY <1>8, <1>10, ShortOfAllGrows
    <2>3. p2 = (4 * a) \div 10 /\ q2 = (4 * b) \div 10 /\ p3 = (4 * u) \div 10 /\ q3 = (4 * v) \div 10
        OBVIOUS
    <2> HIDE DEF a, b, u, v, p2, q2, p3, q3
    <2>4. p2 \in Nat /\ q2 \in Nat /\ q2 <= p2
        BY <2>1, <2>3, TenthsGrow
    <2>5. p3 \in Nat /\ q3 \in Nat /\ q3 <= p3
        BY <2>2, <2>3, TenthsGrow
    <2> QED
        BY <2>4, <2>5
<1>12. p4 \in Nat /\ q4 \in Nat /\ q4 <= p4
    <2>1. /\ w.fips_compliant_keys \in Int /\ d.fips_compliant_keys \in Int
          /\ w.fips_compliant_keys <= d.fips_compliant_keys
        BY <1>1, <1>2, ShrunkNumber
    <2> QED
        BY <2>1 DEF S!Rule, S!Unit
<1>13. /\ EncryptionPoints(w) = 100000 - none - p1 - p2 - p3 - p4
       /\ EncryptionPoints(d) = 100000 - none - q1 - q2 - q3 - q4
    BY <1>4 DEF EncryptionPoints
<1> HIDE DEF none, p1, p2, p3, p4, q1, q2, q3, q4
<1> QED
    BY <1>5, <1>6, <1>11, <1>12, <1>13

LEMMA RetentionFalls ==
    ASSUME NEW w \in SnapshotData("C1.4"), NEW d \in SnapshotData("C1.4"), Worse(w, d)
    PROVE  RetentionPoints(w) <= RetentionPoints(d)
<1>1. /\ w.repositories_checked \in Metric /\ d.repositories_checked \in Metric
      /\ w.repositories_missing_lifecycle \in Metric /\ d.repositories_missing_lifecycle \in Metric
      /\ w.objects_past_retention \in Metric /\ d.objects_past_retention \in Metric
      /\ DOMAIN w = {"repositories_checked", "repositories_missing_lifecycle", "objects_past_retention"}
    BY DEF SnapshotData
<1>2. Grows(w.repositories_missing_lifecycle, d.repositories_missing_lifecycle)
    BY <1>1, WorseIs DEF Rising
<1>3. /\ w.repositories_checked = d.repositories_checked
      /\ w.objects_past_retention = d.objects_past_retention
    BY <1>1, WorseIs DEF Rising, Falling
<1> DEFINE repos == S!Number(d.repositories_checked)
           overdue == S!Number(d.objects_past_retention)
           x == S!Number(w.repositories_missing_lifecycle)
           y == S!Number(d.repositories_missing_lifecycle)
<1>4. repos \in Nat /\ overdue \in Nat
    BY <1>1, Number0
<1>5. x \in Nat /\ y \in Nat /\ y <= x
    BY <1>1, <1>2, GrownNumber
<1>6. Fitting(w) \in Nat /\ Fitting(d) \in Nat /\ FittingShare(w) \in Nat /\ FittingShare(d) \in Nat
    BY RetentionPasses
<1>7. Fitting(w) <= Fitting(d)
    <2>1. /\ Fitting(w) = (IF x <= repos THEN repos - x ELSE 0)
          /\ Fitting(d) = (IF y <= repos THEN repos - y ELSE 0)
        BY <1>3 DEF Fitting
    <2> HIDE DEF x, y, repos
    <2> QED
        BY <1>4, <1>5, <2>1
<1>8. FittingShare(w) <= FittingShare(d)
    <2>1. /\ FittingShare(w) = (IF repos > 0 THEN (100000 * Fitting(w)) \div repos ELSE 100000)
          /\ FittingShare(d) = (IF repos > 0 THEN (100000 * Fitting(d)) \div repos ELSE 100000)
        BY <1>3 DEF FittingShare
    <2> HIDE DEF repos
    <2> QED
        BY <1>4, <1>6, <1>7, <2>1, ShareGrows
<1> DEFINE p == (7 * Short(FittingShare(w), 100000)) \div 10
           q == (7 * Short(FittingShare(d), 100000)) \div 10
           rest == 100000 - S!Rule(repos = 0, 40) - S!Least(40000, 10000 * overdue)
           kept == S!Rule(~(repos > 0 /\ overdue = 0), 20)
<1>9. p \in Nat /\ q \in Nat /\ q <= p
    <2> DEFINE a == Short(FittingShare(w), 100000)
               b == Short(FittingShare(d), 100000)
    <2>1. a \in Nat /\ b \in Nat /\ b <= a
        BY <1>6, <1>8, ShortOfAllGrows
    <2>2. p = (7 * a) \div 10 /\ q = (7 * b) \div 10
        OBVIOUS
    <2> HIDE DEF a, b, p, q
    <2> QED
        BY <2>1, <2>2, TenthsGrow
<1>10. RetentionPoints(w) = rest - p - kept /\ RetentionPoints(d) = rest - q - kept
    BY <1>3 DEF RetentionPoints
<1>11. rest \in Int /\ kept \in Int
    <2> HIDE DEF repos, overdue
    <2>1. S!Rule(repos = 0, 40) \in Nat /\ kept \in Nat
        BY DEF S!Rule, S!Unit
    <2>2. S!Least(40000, 10000 * overdue) \in Nat
        BY <1>4 DEF S!Least
    <2> QED
        BY <2>1, <2>2
<1> HIDE DEF p, q, rest, kept
<1> QED
    BY <1>9, <1>10, <1>11

LEMMA ResilienceFalls ==
    ASSUME NEW w \in SnapshotData("A1.2"), NEW d \in SnapshotData("A1.2"), Worse(w, d)
    PROVE  ResiliencePoints(w) <= ResiliencePoints(d)
<1>1. /\ w.last_backup_hours_ago \in Metric /\ d.last_backup_hours_ago \in Metric
      /\ w.last_restore_test_days_ago \in Metric /\ d.last_restore_test_days_ago \in Metric
      /\ w.backup_jobs_failed_30d \in Metric /\ d.backup_jobs_failed_30d \in Metric
      /\ {"last_backup_hours_ago", "last_restore_test_days_ago", "backup_jobs_failed_30d"}
            \subseteq DOMAIN w
    BY DEF SnapshotData
<1>2. /\ Grows(w.last_backup_hours_ago, d.last_backup_hours_ago)
      /\ Grows(w.last_restore_test_days_ago, d.last_restore_test_days_ago)
      /\ Grows(w.backup_jobs_failed_30d, d.backup_jobs_failed_30d)
    BY <1>1, WorseIs DEF Rising
<1> DEFINE recent(hours) == S!Measured(hours) /\ hours <= 24000
           tested(days) == S!Measured(days) /\ days <= 90
           p1 == S!Rule(~recent(w.last_backup_hours_ago), 40)
           q1 == S!Rule(~recent(d.last_backup_hours_ago), 40)
           p2 == S!Least(25000, 5000 * S!Number(w.backup_jobs_failed_30d))
           q2 == S!Least(25000, 5000 * S!Number(d.backup_jobs_failed_30d))
           p3 == S!Rule(~tested(w.last_restore_test_days_ago), 30)
           q3 == S!Rule(~tested(d.last_restore_test_days_ago), 30)
<1>3. /\ p1 \in Nat /\ q1 \in Nat /\ p3 \in Nat /\ q3 \in Nat
    BY DEF S!Rule, S!Unit
<1>4. q1 <= p1
    <2>1. recent(w.last_backup_hours_ago) => recent(d.last_backup_hours_ago)
        BY <1>1, <1>2, GrownNumber
    <2> QED
        BY <2>1 DEF S!Rule, S!Unit
<1>5. q3 <= p3
    <2>1. tested(w.last_restore_test_days_ago) => tested(d.last_restore_test_days_ago)
        BY <1>1, <1>2, GrownNumber
    <2> QED
        BY <2>1 DEF S!Rule, S!Unit
<1>6. p2 \in Nat /\ q2 \in Nat /\ q2 <= p2
    <2> DEFINE x == S!Number(w.backup_jobs_failed_30d)
               y == S!Number(d.backup_jobs_failed_30d)
    <2>1. x \in Nat /\ y \in Nat /\ y <= x
        BY <1>1, <1>2, GrownNumber
    <2> HIDE DEF x, y
    <2>2. S!Least(25000, 5000 * x) \in Nat /\ S!Least(25000, 5000 * y) \in Nat
          /\ S!Least(25000, 5000 * y) <= S!Least(25000, 5000 * x)
        BY <2>1, LeastGrows
    <2> QED
        BY <2>2 DEF x, y
<1>7. ResiliencePoints(w) = 100000 - p1 - p2 - p3 /\ ResiliencePoints(d) = 100000 - q1 - q2 - q3
    BY DEF ResiliencePoints
<1> HIDE DEF p1, p2, p3, q1, q2, q3
<1> QED
    BY <1>3, <1>4, <1>5, <1>6, <1>7

ZtNames == {"iam_review_current", "encryption_green", "mfa_enforced",
            "orphaned_within_threshold", "session_timeout_compliant"}

LEMMA ZeroTrustFalls ==
    ASSUME NEW w \in SnapshotData("ZT-1"), NEW d \in SnapshotData("ZT-1"), Worse(w, d)
    PROVE  ZeroTrustPoints(w) <= ZeroTrustPoints(d)
<1>1. /\ w.orphaned_accounts \in Metric /\ d.orphaned_accounts \in Metric
      /\ DOMAIN w = {"iam_review_days_ago", "encryption_status", "orphaned_accounts",
                     "mfa_enforcement_percent", "session_timeout_compliant"}
    BY DEF SnapshotData
<1>2. Grows(w.orphaned_accounts, d.orphaned_accounts)
    BY <1>1, WorseIs DEF Rising
<1>3. /\ w.iam_review_days_ago = d.iam_review_days_ago
      /\ w.encryption_status = d.encryption_status
      /\ w.mfa_enforcement_percent = d.mfa_enforcement_percent
      /\ w.session_timeout_compliant = d.session_timeout_compliant
    BY <1>1, WorseIs DEF Rising, Falling
<1>4. /\ DOMAIN C!ZtChecks(w) = DOMAIN C!ZtChecks(d)
      /\ \A x \in DOMAIN C!ZtChecks(w) : C!ZtChecks(w)[x] => C!ZtChecks(d)[x]
    <2>1. /\ w.orphaned_accounts \in Int /\ d.orphaned_accounts \in Int
          /\ d.orphaned_accounts <= w.orphaned_accounts
          /\ C!Measured(w.orphaned_accounts) => C!Measured(d.orphaned_accounts)
        BY <1>1, <1>2, GrownNumber, Number0
    <2>2. /\ DOMAIN C!ZtChecks(w) = ZtNames /\ DOMAIN C!ZtChecks(d) = ZtNames
        BY DEF C!ZtChecks, ZtNames
    <2>3. /\ C!ZtChecks(w).iam_review_current = C!ZtChecks(d).iam_review_current
          /\ C!ZtChecks(w).encryption_green = C!ZtChecks(d).encryption_green
          /\ C!ZtChecks(w).mfa_enforced = C!ZtChecks(d).mfa_enforced
          /\ C!ZtChecks(w).session_timeout_compliant = C!ZtChecks(d).session_timeout_compliant
        BY <1>3, Zenon DEF C!ZtChecks
    <2>4. /\ C!ZtChecks(w).orphaned_within_threshold
                <=> C!Measured(w.orphaned_accounts) /\ w.orphaned_accounts <= 7
          /\ C!ZtChecks(d).orphaned_within_threshold
                <=> C!Measured(d.orphaned_accounts) /\ d.orphaned_accounts <= 7
        BY Zenon DEF C!ZtChecks
    <2>5. C!ZtChecks(w).orphaned_within_threshold => C!ZtChecks(d).orphaned_within_threshold
        BY <2>1, <2>4
    <2> QED
        BY <2>2, <2>3, <2>5 DEF ZtNames
<1>5. Failing(d) \subseteq Failing(w)
    BY <1>4 DEF Failing
<1>6. C!Cardinality(Failing(d)) <= C!Cardinality(Failing(w))
    <2>1. IsFiniteSet(Failing(w))
        BY FailingIs
    <2>2. Cardinality(Failing(d)) <= Cardinality(Failing(w))
        BY <1>5, <2>1, FS_Subset
    <2> QED
        BY <2>2 DEF C!Cardinality, Cardinality
<1> DEFINE x == C!Cardinality(Failing(w))
           y == C!Cardinality(Failing(d))
<1>7. x \in 0..5 /\ y \in 0..5
    BY FailingIs
<1>8. ZeroTrustPoints(w) = (100000 * (5 - x)) \div 5 /\ ZeroTrustPoints(d) = (100000 * (5 - y)) \div 5
    BY DEF ZeroTrustPoints
<1> HIDE DEF x, y
<1>9. 5 - x \in Nat /\ 5 - y \in Nat /\ 5 - x <= 5 - y
    BY <1>6, <1>7 DEF x, y
<1> QED
    BY <1>8, <1>9, ShareGrows

LEMMA PointsFall ==
    ASSUME NEW c \in Controls, NEW w \in SnapshotData(c), NEW d \in SnapshotData(c), Worse(w, d)
    PROVE  Points(c, w) <= Points(c, d)
    BY IamFalls, ConfigFalls, LoggingFalls, EncryptionFalls, RetentionFalls, ResilienceFalls,
       ZeroTrustFalls DEF Points, Controls

(* Clamp keeps the order of two scores. *)
LEMMA ClampKeepsOrder ==
    ASSUME NEW x \in Int, NEW y \in Int, x <= y
    PROVE  S!Clamp(x) <= S!Clamp(y)
<1>1. /\ x < 0 => S!Clamp(x) = 0
      /\ x >= 0 /\ x <= 100000 => S!Clamp(x) = x
      /\ x > 100000 => S!Clamp(x) = 100000
    BY ClampIs
<1>2. /\ y < 0 => S!Clamp(y) = 0
      /\ y >= 0 /\ y <= 100000 => S!Clamp(y) = y
      /\ y > 100000 => S!Clamp(y) = 100000
    BY ClampIs
<1> QED
    BY <1>1, <1>2

LEMMA CappedKeepsOrder ==
    ASSUME NEW q \in {"complete", "partial", "failed"}, NEW x \in Int, NEW y \in Int, x <= y
    PROVE  Capped(q, x) <= Capped(q, y) /\ Capped(q, x) <= Capped("complete", x)
<1> DEFINE a == S!Least(70 * S!Unit, x)
           b == S!Least(70 * S!Unit, y)
<1>1. a \in Int /\ b \in Int /\ a <= b /\ a <= x
    BY DEF S!Least, S!Unit
<1>2. Capped("complete", x) = S!Clamp(x) /\ Capped("complete", y) = S!Clamp(y)
    BY DEF Capped
<1>3. Capped("partial", x) = S!Clamp(a) /\ Capped("partial", y) = S!Clamp(b)
    BY DEF Capped
<1>4. Capped("failed", x) = 0 /\ Capped("failed", y) = 0
    BY DEF Capped
<1> HIDE DEF a, b
<1>5. S!Clamp(x) <= S!Clamp(y) /\ S!Clamp(a) <= S!Clamp(b) /\ S!Clamp(a) <= S!Clamp(x)
    BY <1>1, ClampKeepsOrder
<1>6. S!Clamp(x) \in Int /\ 0 <= S!Clamp(x)
    BY ClampIs
<1> QED
    BY <1>2, <1>3, <1>4, <1>5, <1>6

LEMMA ScoreIs ==
    ASSUME NEW c \in Controls, NEW d \in SnapshotData(c), NEW q \in {"complete", "partial", "failed"}
    PROVE  Outcome(c, Snap(d, q)).control.score = Capped(q, Points(c, d))
    BY OutcomeOfData, PointsTyped, GradedIs

LEMMA WorseByGrades == ASSUME Grades PROVE WorseNeverScoresHigher
<1> SUFFICES ASSUME Judged("evidence")
             PROVE  /\ \A d \in Data[input.control] :
                          Worse(d, input.data) =>
                              Outcome(input.control, Snap(d, input.quality)).control.score
                                  <= verdict.control.score
                    /\ input.quality # "complete" =>
                          verdict.control.score
                              <= Outcome(input.control, Snap(input.data, "complete")).control.score
    BY DEF WorseNeverScoresHigher
<1>1. PICK c \in DOMAIN Data, q \in {"complete", "partial", "failed"} : \E d \in Data[c] :
          input = [control |-> c, data |-> d, quality |-> q] /\ verdict = Outcome(c, Snap(d, q))
    BY DEF Grades
<1>2. PICK d \in Data[c] :
          input = [control |-> c, data |-> d, quality |-> q] /\ verdict = Outcome(c, Snap(d, q))
    BY <1>1
<1>3. c \in Controls /\ Data[c] \subseteq SnapshotData(c)
    BY DataAssumption
<1>4. input.control = c /\ input.data = d /\ input.quality = q
    BY <1>2
<1>5. verdict.control.score = Capped(q, Points(c, d))
    BY <1>2, <1>3, ScoreIs
<1>6. ASSUME NEW w \in Data[c], Worse(w, d)
      PROVE  Outcome(c, Snap(w, q)).control.score <= verdict.control.score
    <2>1. Outcome(c, Snap(w, q)).control.score = Capped(q, Points(c, w))
        BY <1>3, ScoreIs
    <2>2. Points(c, w) <= Points(c, d) /\ Points(c, w) \in Int /\ Points(c, d) \in Int
        BY <1>3, <1>6, PointsFall, PointsTyped
    <2> QED
        BY <1>5, <2>1, <2>2, CappedKeepsOrder
<1>7. verdict.control.score <= Outcome(c, Snap(d, "complete")).control.score
    <2>1. Outcome(c, Snap(d, "complete")).control.score = Capped("complete", Points(c, d))
        BY <1>3, ScoreIs
    <2>2. Points(c, d) \in Int /\ Points(c, d) <= Points(c, d)
        BY <1>3, PointsTyped
    <2> QED
        BY <1>5, <2>1, <2>2, CappedKeepsOrder
<1> QED
    BY <1>4, <1>6, <1>7

(***************************************************************************)
(* The scores of scoring.py fall, or stay, where what was measured gets    *)
(* worse or the snapshot is less complete, for any two snapshots.          *)
(***************************************************************************)
THEOREM WorseIsNotHigher == JudgingSpec => []WorseNeverScoresHigher
<1>1. Verdicts => WorseNeverScoresHigher
    BY WorseByGrades DEF Verdicts
<1> QED
    BY <1>1, VerdictsHold, PTL

-----------------------------------------------------------------------------
(* Whatever a collector makes of a snapshot, it puts it into a payload. *)
LEMMA PayloadOf ==
    ASSUME NEW c \in Controls, NEW snap
    PROVE  \E light, metrics : EvidenceOf(c, snap) = C!Payload(c, snap, light, metrics)
<1> DEFINE e == EvidenceOf(c, snap)
<1>1. CASE c = "CC6.1"
    BY <1>1, CollectorOf DEF C!CollectIamAccessReview
<1>2. CASE c = "CC6.2"
    BY <1>2, CollectorOf DEF C!CollectConfigDrift
<1>3. CASE c = "CC7.1"
    BY <1>3, CollectorOf DEF C!CollectLogAggregator
<1>4. CASE c = "C1.2"
    BY <1>4, CollectorOf DEF C!CollectEncryptionStatus
<1>5. CASE c = "C1.4"
    BY <1>5, CollectorOf DEF C!CollectRetentionCheck
<1>6. CASE c = "A1.2"
    BY <1>6, CollectorOf DEF C!CollectResilienceTesting
<1>7. CASE c = "ZT-1"
    BY <1>7, CollectorOf DEF C!CollectZtContinuousVerification
<1> QED
    BY <1>1, <1>2, <1>3, <1>4, <1>5, <1>6, <1>7 DEF Controls

LEMMA PoorIsNotGreen ==
    ASSUME NEW c \in Controls, NEW snap,
           snap # C!Raised => snap.quality \in {"partial", "failed"}
    PROVE  Outcome(c, snap).light # "green"
<1>1. PICK light, metrics : EvidenceOf(c, snap) = C!Payload(c, snap, light, metrics)
    BY PayloadOf
<1>2. Outcome(c, snap).light = C!Payload(c, snap, light, metrics).status
    BY <1>1, OutcomeIs
<1>3. C!WithQuality(light, "partial") # "green" /\ C!WithQuality(light, "failed") # "green"
    BY DEF C!WithQuality
<1> QED
    BY <1>2, <1>3, PayloadIs

LEMMA RaisedFails ==
    ASSUME NEW c \in Controls
    PROVE  Outcome(c, C!Raised).control.status = "FAIL"
<1> DEFINE e == EvidenceOf(c, C!Raised)
<1>1. Outcome(c, C!Raised).control = S!Eval(c, e)
    BY OutcomeIs
<1>2. e.quality = "failed"
    BY PayloadOf, PayloadIs
<1> HIDE DEF e
<1>3. \E raw : S!Eval(c, e) = Graded(c, e.quality, raw)
    BY Eval1, Eval2 DEF Controls
<1> QED
    BY <1>1, <1>2, <1>3, FailedIs DEF S!Control

-----------------------------------------------------------------------------
(* How the attempts at a call end. *)
LEMMA LeastIs ==
    ASSUME NEW part \in SUBSET Nat, NEW x \in part, \A y \in part : x <= y
    PROVE  C!Min(part) = x
<1>1. C!Min(part) = CHOOSE z \in part : \A y \in part : z <= y
    BY DEF C!Min
<1>2. \A z \in part : (\A y \in part : z <= y) => z = x
    OBVIOUS
<1> QED
    BY <1>1, <1>2

LEMMA FailureEnds ==
    ASSUME NEW failure \in Failures
    PROVE  C!Call(failure) \in {"refused", "raised"} /\ C!CallOnce(failure) \in {"refused", "raised"}
<1>0. C!CallOnce(failure) \in {"refused", "raised"}
    BY DEF C!CallOnce, Failures
<1>1. CASE failure = <<"denied", "ok", "ok">>
    <2> DEFINE part == {i \in DOMAIN failure : ~C!IsRetryableError(failure[i]) \/ i = Len(failure)}
    <2>1. part = {1, 2, 3}
        BY <1>1 DEF C!IsRetryableError
    <2>2. C!Min(part) = 1
        BY <2>1, LeastIs
    <2>3. C!CallWithRetry(failure) = "denied"
        BY <1>1, <2>2 DEF C!CallWithRetry, C!LastAttempt
    <2> QED
        BY <1>0, <2>3 DEF C!Call
<1>2. ASSUME failure \in Failures \ {<<"denied", "ok", "ok">>}
      PROVE  C!Call(failure) \in {"refused", "raised"}
    <2> DEFINE part == {i \in DOMAIN failure : ~C!IsRetryableError(failure[i]) \/ i = Len(failure)}
    <2>1. /\ failure \in {<<"throttled", "throttled", "throttled">>,
                          <<"throttled", "unreachable", "unreachable">>}
        BY <1>2 DEF Failures
    <2>2. part = {3}
        <3>1. CASE failure = <<"throttled", "throttled", "throttled">>
            BY <3>1 DEF C!IsRetryableError
        <3>2. CASE failure = <<"throttled", "unreachable", "unreachable">>
            BY <3>2 DEF C!IsRetryableError
        <3> QED
            BY <2>1, <3>1, <3>2
    <2>3. C!Min(part) = 3
        BY <2>2, LeastIs
    <2>4. C!CallWithRetry(failure) \in {"throttled", "unreachable"}
        BY <2>1, <2>3 DEF C!CallWithRetry, C!LastAttempt
    <2> QED
        BY <1>0, <2>4 DEF C!Call
<1> QED
    BY <1>0, <1>1, <1>2

LEMMA SuccessEnds ==
    ASSUME NEW success \in Successes
    PROVE  C!Call(success) = "answered" /\ C!CallOnce(success) \in {"answered", "raised"}
<1> DEFINE part == {i \in DOMAIN success : ~C!IsRetryableError(success[i]) \/ i = Len(success)}
<1>0. C!CallOnce(success) \in {"answered", "raised"}
    BY DEF C!CallOnce, Successes
<1>1. CASE success = <<"ok", "ok", "ok">>
    <2>1. part = {1, 2, 3}
        BY <1>1 DEF C!IsRetryableError
    <2>2. C!Min(part) = 1
        BY <2>1, LeastIs
    <2>3. C!CallWithRetry(success) = "ok"
        BY <1>1, <2>2 DEF C!CallWithRetry, C!LastAttempt
    <2> QED
        BY <1>0, <2>3 DEF C!Call
<1>2. CASE success = <<"throttled", "unreachable", "ok">>
    <2>1. part = {3}
        BY <1>2 DEF C!IsRetryableError
    <2>2. C!Min(part) = 3
        BY <2>1, LeastIs
    <2>3. C!CallWithRetry(success) = "ok"
        BY <1>2, <2>2 DEF C!CallWithRetry, C!LastAttempt
    <2> QED
        BY <1>0, <2>3 DEF C!Call
<1> QED
    BY <1>0, <1>1, <1>2 DEF Successes

(* Calls fail: then the snapshot raises, or is refused some of its calls. *)
LEMMA AnswerIs ==
    ASSUME NEW c, NEW account, NEW failing \in SUBSET Calls(c, account), failing # {},
           NEW failure \in Failures, NEW success \in Successes
    PROVE  \/ Answer(c, account, failing, failure, success) = C!Raised
           \/ \E some \in SUBSET Calls(c, account) :
                 some # {} /\ Answer(c, account, failing, failure, success) = Snapshot(c, account, some)
<1> DEFINE calls == Calls(c, account)
           end(x) == End(x, IF x \in failing THEN failure ELSE success)
           refused == {x \in calls : end(x) = "refused"}
<1>1. \A x \in failing : end(x) \in {"refused", "raised"}
    BY FailureEnds DEF End
<1>2. Answer(c, account, failing, failure, success) =
          IF \E x \in CallsMade(c, account, refused) : end(x) = "raised" THEN C!Raised
          ELSE Snapshot(c, account, refused)
    BY DEF Answer
<1>3. CallsMade(c, account, {}) = calls
    BY DEF Calls
<1> HIDE DEF end
<1>4. CASE refused = {}
    <2>1. PICK x \in failing : TRUE
        OBVIOUS
    <2>2. x \in CallsMade(c, account, refused)
        BY <1>3, <1>4
    <2>3. end(x) = "raised"
        BY <1>1, <1>4
    <2> QED
        BY <1>2, <2>2, <2>3
<1>5. CASE refused # {}
    BY <1>2, <1>5
<1> QED
    BY <1>4, <1>5

-----------------------------------------------------------------------------
LEMMA ManyIs ==
    ASSUME NEW part, IsFiniteSet(part)
    PROVE  A!Many(part) \in Nat /\ A!Many(part) = Cardinality(part) /\ (A!Many(part) = 0 <=> part = {})
<1>1. A!Many(part) = Cardinality(part)
    BY DEF A!Many, A!Cardinality, Cardinality
<1> QED
    BY <1>1, FS_CardinalityType, FS_EmptySet

LEMMA EachIsFinite ==
    ASSUME NEW operation, NEW resources, IsFiniteSet(resources)
    PROVE  IsFiniteSet(A!Each(operation, resources))
<1> DEFINE f == [r \in resources |-> <<operation, r>>]
<1>1. f \in Surjection(resources, A!Each(operation, resources))
    BY DEF Surjection, A!Each
<1> QED
    BY <1>1, FS_Surjection

(* A snapshot of which a call was refused is not complete. *)
Poor(snap, data) ==
    /\ snap # C!Raised /\ snap.data = data
    /\ snap.quality \in {"partial", "failed"} /\ snap.errors \in Nat /\ snap.errors > 0

LEMMA FinalizedIs ==
    ASSUME NEW data, NEW errors \in Nat, errors > 0, NEW attempted \in Nat, NEW succeeded \in Nat
    PROVE  Poor(A!FinalizeSnapshot(data, errors, attempted, succeeded), data)
<1>1. A!CollectionQuality(errors, attempted, succeeded) \in {"partial", "failed"}
    BY DEF A!CollectionQuality
<1> DEFINE snap == A!FinalizeSnapshot(data, errors, attempted, succeeded)
<1>2. /\ snap.data = data /\ snap.errors = errors
      /\ snap.quality = A!CollectionQuality(errors, attempted, succeeded)
    BY DEF A!FinalizeSnapshot
<1>3. C!Raised.quality = "raised"
    BY DEF C!Raised
<1> HIDE DEF snap
<1>4. snap.quality \in {"partial", "failed"}
    BY <1>1, <1>2
<1>5. snap # C!Raised
    BY <1>3, <1>4
<1> QED
    BY <1>2, <1>4, <1>5 DEF Poor, snap

LEMMA ClosedIs ==
    ASSUME NEW data, NEW made, IsFiniteSet(made), NEW refused, made \cap refused # {}, NEW extra \in Nat
    PROVE  Poor(A!Closed(data, made, refused, extra), data)
<1>1. IsFiniteSet(made \cap refused) /\ IsFiniteSet(made \ refused)
    BY FS_Subset
<1>2. /\ A!Many(made \cap refused) \in Nat /\ A!Many(made \cap refused) > 0
      /\ A!Many(made) \in Nat /\ A!Many(made \ refused) \in Nat
    BY <1>1, ManyIs
<1> QED
    BY <1>2, FinalizedIs DEF A!Closed

-----------------------------------------------------------------------------
(***************************************************************************)
(* Of the calls that are refused, one at least is made: a call that is not *)
(* made any more was to come after another one that was refused.           *)
(***************************************************************************)
LEMMA ListedIs ==
    ASSUME NEW operation, NEW resources, NEW refused
    PROVE  /\ A!Listed(operation, resources, {}) = resources
           /\ A!List(operation) \notin refused => A!Listed(operation, resources, refused) = resources
           /\ A!Listed(operation, resources, refused) \subseteq resources
    BY DEF A!Listed

LEMMA ReadableIs ==
    ASSUME NEW operation, NEW resources, NEW refused
    PROVE  /\ A!Readable(operation, resources, {}) = resources
           /\ A!Readable(operation, resources, refused) \subseteq resources
           /\ \A r \in resources : r \in A!Readable(operation, resources, refused) \/ <<operation, r>> \in refused
    BY DEF A!Readable

LEMMA IamMade ==
    ASSUME NEW account, NEW refused, A!IamCalls(account, {}) \cap refused # {}
    PROVE  A!IamCalls(account, refused) \cap refused # {}
<1> DEFINE users == A!Listed("list_users", DOMAIN account.users, refused)
           keyed == {u \in A!Readable("list_access_keys", users, refused) : account.users[u].key}
           made  == A!IamCalls(account, refused)
<1>1. made = {A!List("list_users"), A!List("credential_report")}
             \cup A!Each("list_access_keys", users) \cup A!Each("access_key_last_used", keyed)
             \cup A!Each("attached_policies", users)
    BY DEF A!IamCalls
<1>2. CASE A!List("list_users") \in refused
    BY <1>1, <1>2
<1>3. CASE A!List("list_users") \notin refused
    <2>1. users = DOMAIN account.users
        BY <1>3, ListedIs
    <2> DEFINE all == {u \in DOMAIN account.users : account.users[u].key}
    <2>2. A!IamCalls(account, {}) = {A!List("list_users"), A!List("credential_report")}
             \cup A!Each("list_access_keys", users) \cup A!Each("access_key_last_used", all)
             \cup A!Each("attached_policies", users)
        BY <2>1, ListedIs, ReadableIs DEF A!IamCalls
    <2>3. PICK x \in A!IamCalls(account, {}) : x \in refused
        OBVIOUS
    <2>4. CASE x \in A!Each("access_key_last_used", all)
        <3>1. PICK u \in all : x = <<"access_key_last_used", u>>
            BY <2>4 DEF A!Each
        <3>2. u \in users /\ (u \in keyed \/ <<"list_access_keys", u>> \in refused)
            BY <2>1, <3>1, ReadableIs
        <3>3. <<"list_access_keys", u>> \in A!Each("list_access_keys", users)
            BY <3>2 DEF A!Each
        <3>4. u \in keyed => x \in A!Each("access_key_last_used", keyed)
            BY <3>1 DEF A!Each
        <3> HIDE DEF users, keyed, made
        <3> QED
            BY <1>1, <2>3, <3>2, <3>3, <3>4 DEF made
    <2> HIDE DEF users, keyed, made, all
    <2> QED
        BY <1>1, <2>2, <2>3, <2>4 DEF made
<1> QED
    BY <1>2, <1>3

LEMMA EncryptionMade ==
    ASSUME NEW account, NEW refused, A!EncryptionCalls(account, {}) \cap refused # {}
    PROVE  A!EncryptionCalls(account, refused) \cap refused # {}
<1> DEFINE keys == A!Listed("list_keys", DOMAIN account.keys, refused)
           known == A!Readable("describe_key", keys, refused)
           buckets == A!Listed("list_buckets", DOMAIN account.buckets, refused)
           certs == A!Listed("list_certificates", account.certs, refused)
           balancers == A!Listed("describe_balancers", DOMAIN account.balancers, refused)
           lists == {A!List("list_buckets"), A!List("describe_db"), A!List("list_keys"),
                     A!List("list_certificates"), A!List("describe_balancers")}
           made == A!EncryptionCalls(account, refused)
<1>1. made = lists \cup A!Each("bucket_encryption", buckets) \cup A!Each("describe_certificate", certs)
             \cup A!Each("describe_key", keys) \cup A!Each("key_rotation", known)
             \cup A!Each("listeners", balancers)
    BY DEF A!EncryptionCalls
<1>2. CASE lists \cap refused # {}
    <2> HIDE DEF lists, keys, known, buckets, certs, balancers, made
    <2> QED
        BY <1>1, <1>2 DEF made
<1>3. CASE lists \cap refused = {}
    <2>1. /\ keys = DOMAIN account.keys /\ buckets = DOMAIN account.buckets
          /\ certs = account.certs /\ balancers = DOMAIN account.balancers
        BY <1>3, ListedIs
    <2>2. A!EncryptionCalls(account, {}) =
             lists \cup A!Each("bucket_encryption", buckets) \cup A!Each("describe_certificate", certs)
             \cup A!Each("describe_key", keys) \cup A!Each("key_rotation", keys)
             \cup A!Each("listeners", balancers)
        BY <2>1, ListedIs, ReadableIs DEF A!EncryptionCalls
    <2>3. PICK x \in A!EncryptionCalls(account, {}) : x \in refused
        OBVIOUS
    <2>4. CASE x \in A!Each("key_rotation", keys)
        <3>1. PICK k \in keys : x = <<"key_rotation", k>>
            BY <2>4 DEF A!Each
        <3>2. k \in known \/ <<"describe_key", k>> \in refused
            BY <3>1, ReadableIs
        <3>3. <<"describe_key", k>> \in A!Each("describe_key", keys)
            BY <3>1 DEF A!Each
        <3>4. k \in known => x \in A!Each("key_rotation", known)
            BY <3>1 DEF A!Each
        <3> HIDE DEF lists, keys, known, buckets, certs, balancers, made
        <3> QED
            BY <1>1, <2>3, <3>2, <3>3, <3>4 DEF made
    <2> HIDE DEF lists, keys, known, buckets, certs, balancers, made
    <2> QED
        BY <1>1, <2>2, <2>3, <2>4 DEF made
<1> QED
    BY <1>2, <1>3

LEMMA LoggingMade ==
    ASSUME NEW account, NEW refused, A!LoggingCalls(account, {}) \cap refused # {}
    PROVE  A!LoggingCalls(account, refused) \cap refused # {}
<1>1. CASE A!List("describe_trails") \in refused
    BY <1>1 DEF A!LoggingCalls
<1>2. CASE A!List("describe_trails") \notin refused
    <2>1. A!LoggingCalls(account, refused) = A!LoggingCalls(account, {})
        BY <1>2, ListedIs DEF A!LoggingCalls
    <2> QED
        BY <2>1
<1> QED
    BY <1>1, <1>2

LEMMA ConfigMade ==
    ASSUME NEW account, NEW refused, A!ConfigCalls(account, {}) \cap refused # {}
    PROVE  A!ConfigCalls(account, refused) \cap refused # {}
<1> DEFINE lists == {A!List("list_users"), A!List("describe_balancers"), A!List("config_rules")}
<1>1. CASE lists \cap refused # {}
    BY <1>1 DEF A!ConfigCalls
<1>2. CASE lists \cap refused = {}
    <2>1. A!ConfigCalls(account, refused) = A!ConfigCalls(account, {})
        BY <1>2, ListedIs DEF A!ConfigCalls
    <2> QED
        BY <2>1
<1> QED
    BY <1>1, <1>2

LEMMA RetentionMade ==
    ASSUME NEW account, NEW refused, A!RetentionCalls(account, {}) \cap refused # {}
    PROVE  A!RetentionCalls(account, refused) \cap refused # {}
<1>1. CASE A!List("list_buckets") \in refused
    BY <1>1 DEF A!RetentionCalls
<1>2. CASE A!List("list_buckets") \notin refused
    <2>1. A!RetentionCalls(account, refused) = A!RetentionCalls(account, {})
        BY <1>2, ListedIs DEF A!RetentionCalls
    <2> QED
        BY <2>1
<1> QED
    BY <1>1, <1>2

LEMMA ResilienceMade ==
    ASSUME NEW account, NEW refused, A!ResilienceCalls(account, {}) \cap refused # {}
    PROVE  A!ResilienceCalls(account, refused) \cap refused # {}
<1>1. CASE A!List("list_backup_jobs") \in refused
    BY <1>1 DEF A!ResilienceCalls
<1>2. CASE A!List("list_backup_jobs") \notin refused
    <2>1. A!BackupHours(account, refused) = A!BackupHours(account, {})
        BY <1>2 DEF A!BackupHours
    <2>2. A!ResilienceCalls(account, refused) = A!ResilienceCalls(account, {})
        BY <2>1 DEF A!ResilienceCalls
    <2> QED
        BY <2>2
<1> QED
    BY <1>1, <1>2

-----------------------------------------------------------------------------
(* What may be added up, and what is the greatest, in a finite set of numbers. *)
LEMMA SumIsNat ==
    ASSUME NEW f, NEW dom, IsFiniteSet(dom), \A y \in dom : f[y] \in Nat
    PROVE  A!Total(f, dom) \in Nat
<1> DEFINE N == {n \in Nat : \A s \in SUBSET dom : Cardinality(s) = n => Total(f, s) \in Nat}
<1>1. \A s \in SUBSET dom : IsFiniteSet(s) /\ Cardinality(s) \in Nat
    BY FS_Subset, FS_CardinalityType
<1>2. 0 \in N
    <2>1. \A s \in SUBSET dom : Cardinality(s) = 0 => s = {}
        BY <1>1, FS_EmptySet
    <2>2. Total(f, {}) = 0
        BY TotalPicks, FS_EmptySet
    <2> QED
        BY <2>1, <2>2
<1>3. ASSUME NEW n \in Nat, n \in N PROVE n + 1 \in N
    <2>1. ASSUME NEW s \in SUBSET dom, Cardinality(s) = n + 1 PROVE Total(f, s) \in Nat
        <3> DEFINE x == Pick(s)
                   r == s \ {x}
        <3>1. IsFiniteSet(s) /\ s # {}
            BY <1>1, <2>1, FS_EmptySet
        <3>2. x \in s /\ Cardinality(r) = Cardinality(s) - 1 /\ r \in SUBSET dom
            BY <3>1, PickIs
        <3>3. Total(f, s) = Total(f, r) + f[x]
            BY <3>1, TotalPicks
        <3>4. Total(f, r) \in Nat
            BY <1>3, <2>1, <3>2
        <3> QED
            BY <3>2, <3>3, <3>4
    <2> QED
        BY <2>1
<1> HIDE DEF N
<1>4. Cardinality(dom) \in N
    BY <1>1, <1>2, <1>3, AllNumbers
<1>5. A!Total(f, dom) = Total(f, dom)
    BY DEF A!Total, A!FoldSet, A!MapThenFoldSet, Total, FoldSet, MapThenFoldSet
<1> QED
    BY <1>4, <1>5 DEF N

LEMMA GreatestIs ==
    ASSUME NEW part \in SUBSET Nat, IsFiniteSet(part), part # {}
    PROVE  A!Max(part) \in Nat
<1> DEFINE Tops(s) == \E x \in s : \A y \in s : x >= y
           N == {n \in Nat : \A s \in SUBSET part : s # {} /\ Cardinality(s) = n => Tops(s)}
<1>1. \A s \in SUBSET part : IsFiniteSet(s) /\ Cardinality(s) \in Nat
    BY FS_Subset, FS_CardinalityType
<1>2. 0 \in N
    BY <1>1, FS_EmptySet
<1>3. ASSUME NEW n \in Nat, n \in N PROVE n + 1 \in N
    <2>1. ASSUME NEW s \in SUBSET part, s # {}, Cardinality(s) = n + 1 PROVE Tops(s)
        <3> DEFINE x == Pick(s)
                   r == s \ {x}
        <3>1. x \in s /\ Cardinality(r) = Cardinality(s) - 1 /\ r \in SUBSET part
            BY <1>1, <2>1, PickIs
        <3> HIDE DEF x
        <3>2. CASE r = {}
            BY <3>1, <3>2
        <3>3. CASE r # {}
            <4>1. PICK z \in r : \A y \in r : z >= y
                BY <1>3, <2>1, <3>1, <3>3
            <4>2. x \in Nat /\ z \in Nat /\ z \in s /\ \A y \in s : y = x \/ y \in r
                BY <3>1
            <4>3. CASE z >= x
                BY <4>1, <4>2, <4>3
            <4>4. CASE ~(z >= x)
                <5>1. \A y \in s : x >= y
                    BY <4>1, <4>2, <4>4
                <5> QED
                    BY <3>1, <5>1
            <4> QED
                BY <4>3, <4>4
        <3> QED
            BY <3>2, <3>3
    <2> QED
        BY <2>1
<1> HIDE DEF N
<1>4. Cardinality(part) \in N
    BY <1>1, <1>2, <1>3, AllNumbers
<1>5. \E x \in part : \A y \in part : x >= y
    BY <1>4 DEF N
<1>6. A!Max(part) = CHOOSE x \in part : \A y \in part : x >= y
    BY DEF A!Max
<1> QED
    BY <1>5, <1>6

-----------------------------------------------------------------------------
(* The calls of a snapshot are finitely many, and its data are what they may be. *)
LEMMA AccountIs ==
    ASSUME NEW account, IsAccount(account)
    PROVE  /\ IsFiniteSet(DOMAIN account.users) /\ IsFiniteSet(DOMAIN account.buckets)
           /\ IsFiniteSet(DOMAIN account.dbs) /\ IsFiniteSet(DOMAIN account.keys)
           /\ IsFiniteSet(DOMAIN account.balancers) /\ IsFiniteSet(DOMAIN account.trails)
           /\ IsFiniteSet(DOMAIN account.mfa) /\ IsFiniteSet(DOMAIN account.listeners)
           /\ IsFiniteSet(DOMAIN account.rules) /\ IsFiniteSet(DOMAIN account.lifecycle)
           /\ IsFiniteSet(account.certs)
    BY DEF IsAccount

LEMMA FewCalls ==
    ASSUME NEW operation, NEW resources, NEW part \in SUBSET resources, IsFiniteSet(resources)
    PROVE  IsFiniteSet(part) /\ IsFiniteSet(A!Each(operation, part))
    BY FS_Subset, EachIsFinite

LEMMA Few4 ==
    ASSUME NEW p, NEW q, NEW r, NEW s, IsFiniteSet(p), IsFiniteSet(q), IsFiniteSet(r), IsFiniteSet(s)
    PROVE  IsFiniteSet(p \cup q \cup r \cup s)
<1>1. IsFiniteSet(p \cup q)
    BY FS_Union
<1>2. IsFiniteSet(p \cup q \cup r)
    BY <1>1, FS_Union
<1> QED
    BY <1>2, FS_Union

LEMMA ListsAreFinite ==
    ASSUME NEW a, NEW b, NEW c, NEW d, NEW e
    PROVE  /\ IsFiniteSet({a}) /\ IsFiniteSet({a, b}) /\ IsFiniteSet({a, b, c})
           /\ IsFiniteSet({a, b, c, d}) /\ IsFiniteSet({a, b, c, d, e})
<1>1. IsFiniteSet({a})
    BY FS_Singleton
<1>2. IsFiniteSet({a} \cup {b})
    BY <1>1, FS_AddElement
<1>3. IsFiniteSet({a} \cup {b} \cup {c})
    BY <1>2, FS_AddElement
<1>4. IsFiniteSet({a} \cup {b} \cup {c} \cup {d})
    BY <1>3, FS_AddElement
<1>5. IsFiniteSet({a} \cup {b} \cup {c} \cup {d} \cup {e})
    BY <1>4, FS_AddElement
<1>6. /\ {a} \cup {b} = {a, b} /\ {a} \cup {b} \cup {c} = {a, b, c}
      /\ {a} \cup {b} \cup {c} \cup {d} = {a, b, c, d}
      /\ {a} \cup {b} \cup {c} \cup {d} \cup {e} = {a, b, c, d, e}
    OBVIOUS
<1> QED
    BY <1>1, <1>2, <1>3, <1>4, <1>5, <1>6, Zenon

(* How a snapshot of control is made, of data and calls that are what they may be. *)
MadeOf(control, snap, calls, refused) ==
    /\ IsFiniteSet(calls)
    /\ \E data \in SnapshotData(control), extra \in Nat : snap = A!Closed(data, calls, refused, extra)

LEMMA IamMadeOf ==
    ASSUME NEW account, IsAccount(account), NEW refused
    PROVE  MadeOf("CC6.1", A!IamAccessSnapshot(account, refused), A!IamCalls(account, refused), refused)
<1> DEFINE made == A!IamCalls(account, refused)
           users == A!Listed("list_users", DOMAIN account.users, refused)
           keyed == {u \in A!Readable("list_access_keys", users, refused) : account.users[u].key}
           orphaned == {u \in users : /\ <<"access_key_last_used", u>> \in made \ refused
                                      /\ account.users[u].unused}
           data == [orphaned_accounts |-> A!Many(orphaned), days_since_last_review |-> A!None,
                    total_identities |-> A!Many(users)]
           lists == {A!List("list_users"), A!List("credential_report")}
<1>1. users \in SUBSET DOMAIN account.users /\ IsFiniteSet(DOMAIN account.users)
    BY ListedIs, AccountIs
<1>2. keyed \in SUBSET DOMAIN account.users /\ orphaned \in SUBSET DOMAIN account.users
    BY <1>1, ReadableIs
<1>3. made = lists \cup A!Each("list_access_keys", users) \cup A!Each("access_key_last_used", keyed)
             \cup A!Each("attached_policies", users)
    BY DEF A!IamCalls
<1>4. A!IamAccessSnapshot(account, refused) = A!Closed(data, made, refused, 0)
    BY DEF A!IamAccessSnapshot
<1> HIDE DEF made, users, keyed, orphaned, lists
<1>5. IsFiniteSet(lists)
    BY ListsAreFinite DEF lists
<1>6. IsFiniteSet(made)
    <2>1. /\ IsFiniteSet(A!Each("list_access_keys", users)) /\ IsFiniteSet(A!Each("attached_policies", users))
          /\ IsFiniteSet(A!Each("access_key_last_used", keyed))
        BY <1>1, <1>2, FewCalls
    <2> QED
        BY <1>3, <1>5, <2>1, Few4
<1>7. A!Many(orphaned) \in Nat /\ A!Many(users) \in Nat
    BY <1>1, <1>2, FewCalls, ManyIs
<1>8. data \in SnapshotData("CC6.1")
    BY <1>7 DEF SnapshotData, Metric, A!None, C!None
<1> HIDE DEF data
<1> QED
    BY <1>4, <1>6, <1>8 DEF MadeOf, made

LEMMA EncryptionMadeOf ==
    ASSUME NEW account, IsAccount(account), NEW refused
    PROVE  MadeOf("C1.2", A!EncryptionSnapshot(account, refused), A!EncryptionCalls(account, refused), refused)
<1> DEFINE made == A!EncryptionCalls(account, refused)
           buckets == A!Listed("list_buckets", DOMAIN account.buckets, refused)
           dbs == A!Listed("describe_db", DOMAIN account.dbs, refused)
           known == A!Readable("bucket_encryption", buckets, refused)
           open == {b \in buckets : b \notin known \/ ~account.buckets[b]}
           plain == {d \in dbs : ~account.dbs[d]}
           bare == A!Many(open) + A!Many(plain)
           total == A!Many(buckets) + A!Many(dbs)
           keys == {k \in DOMAIN account.keys : <<"key_rotation", k>> \in made}
           rotating == {k \in A!Readable("key_rotation", keys, refused) : account.keys[k].rotates}
           fips == {k \in rotating : account.keys[k].fips}
           seen == {b \in DOMAIN account.balancers : <<"listeners", b>> \in made \ refused}
           tls == {b \in seen : account.balancers[b] # "plain"}
           weak == {b \in seen : account.balancers[b] = "weak"}
           data == [total_confidential_resources |-> total,
                    encrypted_at_rest |-> total - bare,
                    unencrypted_cui_count |-> bare,
                    fips_compliant_keys |-> A!Many(fips),
                    keys_pending_rotation |-> A!Many(keys \ rotating),
                    tls_endpoints_checked |-> A!Many(tls),
                    weak_cipher_endpoints |-> A!Many(weak)]
           lists == {A!List("list_buckets"), A!List("describe_db"), A!List("list_keys"),
                     A!List("list_certificates"), A!List("describe_balancers")}
           listedKeys == A!Listed("list_keys", DOMAIN account.keys, refused)
           describedKeys == A!Readable("describe_key", listedKeys, refused)
           certs == A!Listed("list_certificates", account.certs, refused)
           balancers == A!Listed("describe_balancers", DOMAIN account.balancers, refused)
<1>1. /\ IsFiniteSet(DOMAIN account.keys) /\ IsFiniteSet(DOMAIN account.balancers)
      /\ IsFiniteSet(DOMAIN account.buckets) /\ IsFiniteSet(DOMAIN account.dbs) /\ IsFiniteSet(account.certs)
    BY AccountIs
<1>2. /\ buckets \in SUBSET DOMAIN account.buckets /\ dbs \in SUBSET DOMAIN account.dbs
      /\ listedKeys \in SUBSET DOMAIN account.keys /\ describedKeys \in SUBSET DOMAIN account.keys
      /\ certs \in SUBSET account.certs /\ balancers \in SUBSET DOMAIN account.balancers
    BY ListedIs, ReadableIs
<1>3. /\ keys \ rotating \in SUBSET DOMAIN account.keys /\ fips \in SUBSET DOMAIN account.keys
      /\ tls \in SUBSET DOMAIN account.balancers /\ weak \in SUBSET DOMAIN account.balancers
      /\ open \in SUBSET buckets /\ plain \in SUBSET dbs
    BY ReadableIs
<1>4. made = lists \cup A!Each("bucket_encryption", buckets) \cup A!Each("describe_certificate", certs)
             \cup A!Each("describe_key", listedKeys) \cup A!Each("key_rotation", describedKeys)
             \cup A!Each("listeners", balancers)
    BY DEF A!EncryptionCalls
<1>5. A!EncryptionSnapshot(account, refused) = A!Closed(data, made, refused, 0)
    BY DEF A!EncryptionSnapshot
<1> HIDE DEF made, buckets, dbs, known, open, plain, keys, rotating, fips, seen, tls, weak, lists,
             listedKeys, describedKeys, certs, balancers
<1>6. IsFiniteSet(lists)
    BY ListsAreFinite DEF lists
<1>7. IsFiniteSet(made)
    <2>1. /\ IsFiniteSet(A!Each("bucket_encryption", buckets)) /\ IsFiniteSet(A!Each("describe_certificate", certs))
          /\ IsFiniteSet(A!Each("describe_key", listedKeys)) /\ IsFiniteSet(A!Each("key_rotation", describedKeys))
          /\ IsFiniteSet(A!Each("listeners", balancers))
        BY <1>1, <1>2, FewCalls
    <2>2. IsFiniteSet(lists \cup A!Each("bucket_encryption", buckets) \cup A!Each("describe_certificate", certs)
                      \cup A!Each("describe_key", listedKeys))
        BY <1>6, <2>1, Few4
    <2>3. IsFiniteSet(lists \cup A!Each("bucket_encryption", buckets) \cup A!Each("describe_certificate", certs)
                      \cup A!Each("describe_key", listedKeys) \cup A!Each("key_rotation", describedKeys))
        BY <2>1, <2>2, FS_Union
    <2> QED
        BY <1>4, <2>1, <2>3, FS_Union
<1>8. /\ A!Many(fips) \in Nat /\ A!Many(keys \ rotating) \in Nat /\ A!Many(tls) \in Nat /\ A!Many(weak) \in Nat
    BY <1>1, <1>3, FewCalls, ManyIs
<1>9. IsFiniteSet(buckets) /\ IsFiniteSet(dbs)
    BY <1>1, <1>2, FS_Subset
<1>10. /\ A!Many(open) \in Nat /\ A!Many(plain) \in Nat /\ A!Many(buckets) \in Nat /\ A!Many(dbs) \in Nat
       /\ A!Many(open) <= A!Many(buckets) /\ A!Many(plain) <= A!Many(dbs)
    <2>1. /\ IsFiniteSet(open) /\ Cardinality(open) <= Cardinality(buckets)
          /\ IsFiniteSet(plain) /\ Cardinality(plain) <= Cardinality(dbs)
        BY <1>3, <1>9, FS_Subset
    <2> QED
        BY <1>9, <2>1, ManyIs
<1>11. total \in Nat /\ bare \in Nat /\ total - bare \in Nat
    BY <1>10
<1> HIDE DEF total, bare
<1>12. data \in SnapshotData("C1.2")
    BY <1>8, <1>11 DEF SnapshotData, Metric
<1> HIDE DEF data
<1> QED
    BY <1>5, <1>7, <1>12 DEF MadeOf, made

LEMMA ShareIsNat ==
    ASSUME NEW part \in Nat, NEW whole \in Nat, whole > 0
    PROVE  A!RoundTenth(A!Percent(part, whole)) \in Nat
<1> DEFINE x == 100 * 1000 * part
           y == x \div whole
           z == (y + 50) \div 100
<1>1. x \in Int /\ x >= 0
    OBVIOUS
<1>2. A!Percent(part, whole) = y
    BY DEF A!Percent, A!Unit
<1> HIDE DEF x
<1>3. y \in Int /\ x < whole * y + whole
    BY <1>1, Quotient
<1> HIDE DEF y
<1>4. y >= 0
    <2>1. CASE y >= 0
        BY <2>1
    <2>2. CASE y < 0
        <3>1. y <= -1
            BY <1>3, <2>2
        <3>2. whole * (y + 1) <= 0
            BY <1>3, <3>1
        <3>3. whole * (y + 1) = whole * y + whole
            BY <1>3
        <3> QED
            BY <1>1, <1>3, <3>2, <3>3
    <2> QED
        BY <1>3, <2>1, <2>2
<1>5. z \in Nat
    BY <1>3, <1>4
<1>6. A!RoundTenth(y) = z * 100
    BY DEF A!RoundTenth
<1> HIDE DEF z
<1> QED
    BY <1>2, <1>5, <1>6

LEMMA LoggingMadeOf ==
    ASSUME NEW account, IsAccount(account), NEW refused
    PROVE  MadeOf("CC7.1", A!LogMonitoringSnapshot(account, refused), A!LoggingCalls(account, refused), refused)
<1> DEFINE made == A!LoggingCalls(account, refused)
           trails == A!Listed("describe_trails", DOMAIN account.trails, refused)
           known == A!Readable("trail_status", trails, refused)
           active == {t \in known : account.trails[t].logging}
           gaps == {account.trails[t].gap : t \in active} \ {A!None}
           share == IF trails = {} THEN A!None ELSE A!RoundTenth(A!Percent(A!Many(active), A!Many(trails)))
           gap == IF gaps = {} THEN A!None ELSE A!Max(gaps)
           extra == IF trails = {} THEN 1 ELSE 0
           data == [active_trails |-> A!Many(active), log_coverage_percent |-> share, max_gap_hours |-> gap,
                    critical_control_failures_30d |-> A!Many(known \ active), cui_retention_days |-> A!None]
           lists == {A!List("describe_trails"), A!List("config_recorders"), A!List("describe_log_groups"),
                     A!List("lookup_events")}
<1>1. trails \in SUBSET DOMAIN account.trails /\ IsFiniteSet(DOMAIN account.trails)
    BY ListedIs, AccountIs
<1>2. known \in SUBSET DOMAIN account.trails /\ active \in SUBSET DOMAIN account.trails
      /\ known \ active \in SUBSET DOMAIN account.trails
    BY <1>1, ReadableIs
<1>3. made = lists \cup A!Each("trail_status", trails)
    BY DEF A!LoggingCalls
<1>4. A!LogMonitoringSnapshot(account, refused) = A!Closed(data, made, refused, extra)
    BY DEF A!LogMonitoringSnapshot
<1>5. A!None = -1 /\ C!None = -1
    BY DEF A!None, C!None
<1>6. gap \in Metric
    <2>1. gaps \subseteq Nat
        <3>1. \A t \in DOMAIN account.trails : account.trails[t].gap \in Metric
            BY DEF IsAccount
        <3> QED
            BY <1>2, <1>5, <3>1 DEF Metric
    <2>2. IsFiniteSet(gaps)
        <3> DEFINE f == [t \in active |-> account.trails[t].gap]
                   all == {account.trails[t].gap : t \in active}
        <3>1. f \in Surjection(active, all)
            BY DEF Surjection
        <3>2. IsFiniteSet(active)
            BY <1>1, <1>2, FS_Subset
        <3>3. IsFiniteSet(all)
            BY <3>1, <3>2, FS_Surjection
        <3> QED
            BY <3>3, FS_Subset
    <2> HIDE DEF gaps
    <2> QED
        BY <1>5, <2>1, <2>2, GreatestIs DEF Metric
<1> HIDE DEF made, trails, known, active, gaps, lists
<1>7. IsFiniteSet(made)
    <2>1. IsFiniteSet(lists) /\ IsFiniteSet(A!Each("trail_status", trails))
        BY <1>1, ListsAreFinite, FewCalls DEF lists
    <2> QED
        BY <1>3, <2>1, FS_Union
<1>8. /\ A!Many(active) \in Nat /\ A!Many(known \ active) \in Nat /\ A!Many(trails) \in Nat
      /\ (trails # {} => A!Many(trails) > 0)
    BY <1>1, <1>2, FewCalls, ManyIs
<1>9. share \in Metric
    BY <1>5, <1>8, ShareIsNat DEF Metric
<1>10. extra \in Nat
    OBVIOUS
<1> HIDE DEF share, gap, extra
<1>11. data \in SnapshotData("CC7.1")
    BY <1>5, <1>6, <1>8, <1>9 DEF SnapshotData, Metric
<1> HIDE DEF data
<1> QED
    BY <1>4, <1>7, <1>10, <1>11 DEF MadeOf, made

LEMMA ConfigMadeOf ==
    ASSUME NEW account, IsAccount(account), NEW refused
    PROVE  MadeOf("CC6.2", A!ConfigAndAuthSnapshot(account, refused), A!ConfigCalls(account, refused), refused)
<1> DEFINE made == A!ConfigCalls(account, refused)
           users == A!Listed("list_users", DOMAIN account.mfa, refused)
           safe == {u \in A!Readable("mfa_devices", users, refused) : account.mfa[u]}
           rules == {r \in DOMAIN account.rules : <<"compliance", r>> \in made \ refused}
           weak == {b \in DOMAIN account.listeners :
                       <<"listeners", b>> \in made \ refused /\ account.listeners[b]}
           http == IF A!List("security_groups") \in refused THEN 0 ELSE account.http
           unapproved == A!Total(account.rules, rules)
           other == IF A!List("compliance_summary") \in refused THEN 0 ELSE account.noncompliant
           warnings == IF users # {} /\ safe = users THEN 0 ELSE 1
           data == [mfa_enforcement_percent |-> A!None,
                    weak_auth_methods |-> A!Many(users \ safe),
                    open_http_listeners |-> http,
                    unapproved_changes |-> unapproved,
                    changes_missing_rollback_test |-> A!None,
                    config_noncompliant_resources |-> other,
                    issues |-> http + A!Many(weak) + unapproved,
                    warnings |-> warnings]
           lists == {A!List("list_users"), A!List("security_groups"), A!List("describe_balancers"),
                     A!List("config_rules"), A!List("compliance_summary")}
           balancers == A!Listed("describe_balancers", DOMAIN account.listeners, refused)
           listedRules == A!Listed("config_rules", DOMAIN account.rules, refused)
<1>1. /\ IsFiniteSet(DOMAIN account.mfa) /\ IsFiniteSet(DOMAIN account.listeners)
      /\ IsFiniteSet(DOMAIN account.rules)
    BY AccountIs
<1>2. /\ users \in SUBSET DOMAIN account.mfa /\ balancers \in SUBSET DOMAIN account.listeners
      /\ listedRules \in SUBSET DOMAIN account.rules
    BY ListedIs
<1>3. /\ users \ safe \in SUBSET DOMAIN account.mfa /\ weak \in SUBSET DOMAIN account.listeners
      /\ rules \in SUBSET DOMAIN account.rules
    BY <1>2
<1>4. made = lists \cup A!Each("mfa_devices", users) \cup A!Each("listeners", balancers)
             \cup A!Each("compliance", listedRules)
    BY DEF A!ConfigCalls
<1>5. A!ConfigAndAuthSnapshot(account, refused) = A!Closed(data, made, refused, 0)
    BY DEF A!ConfigAndAuthSnapshot
<1>6. http \in Nat /\ other \in Nat /\ warnings \in Nat
    BY DEF IsAccount
<1>7. \A r \in DOMAIN account.rules : account.rules[r] \in Nat
    BY DEF IsAccount
<1> HIDE DEF made, users, safe, rules, weak, lists, balancers, listedRules
<1>8. IsFiniteSet(made)
    <2>1. /\ IsFiniteSet(lists) /\ IsFiniteSet(A!Each("mfa_devices", users))
          /\ IsFiniteSet(A!Each("listeners", balancers)) /\ IsFiniteSet(A!Each("compliance", listedRules))
        BY <1>1, <1>2, ListsAreFinite, FewCalls DEF lists
    <2> QED
        BY <1>4, <2>1, Few4
<1>9. A!Many(users \ safe) \in Nat /\ A!Many(weak) \in Nat
    BY <1>1, <1>3, FewCalls, ManyIs
<1>10. unapproved \in Nat
    <2>1. IsFiniteSet(rules) /\ \A r \in rules : account.rules[r] \in Nat
        BY <1>1, <1>3, <1>7, FS_Subset
    <2> QED
        BY <2>1, SumIsNat
<1>11. A!None \in Metric
    BY DEF Metric, A!None, C!None
<1> HIDE DEF http, other, warnings, unapproved
<1>12. data \in SnapshotData("CC6.2")
    <2>1. http + A!Many(weak) + unapproved \in Nat
        BY <1>6, <1>9, <1>10
    <2> QED
        BY <1>6, <1>9, <1>10, <1>11, <2>1 DEF SnapshotData, Metric
<1> HIDE DEF data
<1> QED
    BY <1>5, <1>8, <1>12 DEF MadeOf, made

LEMMA RetentionMadeOf ==
    ASSUME NEW account, IsAccount(account), NEW refused
    PROVE  MadeOf("C1.4", A!RetentionSnapshot(account, refused), A!RetentionCalls(account, refused), refused)
<1> DEFINE made == A!RetentionCalls(account, refused)
           buckets == A!Listed("list_buckets", DOMAIN account.lifecycle, refused)
           known == A!Readable("bucket_lifecycle", buckets, refused)
           keeping == {b \in known : account.lifecycle[b] = "keeps"}
           data == [repositories_checked |-> A!Many(buckets),
                    repositories_missing_lifecycle |-> A!Many(keeping),
                    objects_past_retention |-> A!None]
<1>1. buckets \in SUBSET DOMAIN account.lifecycle /\ IsFiniteSet(DOMAIN account.lifecycle)
    BY ListedIs, AccountIs
<1>2. keeping \in SUBSET DOMAIN account.lifecycle
    BY <1>1, ReadableIs
<1>3. made = {A!List("list_buckets")} \cup A!Each("bucket_lifecycle", buckets)
    BY DEF A!RetentionCalls
<1>4. A!RetentionSnapshot(account, refused) = A!Closed(data, made, refused, 0)
    BY DEF A!RetentionSnapshot
<1> HIDE DEF made, buckets, known, keeping
<1>5. IsFiniteSet(made)
    <2>1. IsFiniteSet({A!List("list_buckets")}) /\ IsFiniteSet(A!Each("bucket_lifecycle", buckets))
        BY <1>1, FS_Singleton, FewCalls
    <2> QED
        BY <1>3, <2>1, FS_Union
<1>6. A!Many(buckets) \in Nat /\ A!Many(keeping) \in Nat
    BY <1>1, <1>2, FewCalls, ManyIs
<1>7. data \in SnapshotData("C1.4")
    BY <1>6 DEF SnapshotData, Metric, A!None, C!None
<1> HIDE DEF data
<1> QED
    BY <1>4, <1>5, <1>7 DEF MadeOf, made

LEMMA ResilienceMadeOf ==
    ASSUME NEW account, IsAccount(account), NEW refused
    PROVE  MadeOf("A1.2", A!ResilienceSnapshot(account, refused), A!ResilienceCalls(account, refused), refused)
<1> DEFINE made == A!ResilienceCalls(account, refused)
           hours == A!BackupHours(account, refused)
           restore == IF A!List("list_restore_jobs") \in refused THEN A!None ELSE account.restore
           last == IF A!Measured(hours) \/ A!List("db_snapshots") \in refused THEN hours ELSE account.dump
           jobsFailed == IF A!List("list_backup_jobs") \notin refused THEN account.backup.failed ELSE 0
           extra == A!One(~A!Measured(last)) + A!One(~A!Measured(restore))
           data == [last_backup_hours_ago |-> last, last_restore_test_days_ago |-> restore,
                    failover_test_passed |-> "unknown", backup_jobs_failed_30d |-> jobsFailed]
           lists == {A!List("list_backup_jobs"), A!List("list_restore_jobs")}
           more == IF A!Measured(hours) THEN {} ELSE {A!List("db_snapshots")}
<1>1. /\ account.backup.hours \in Metric /\ account.backup.failed \in Nat
      /\ account.restore \in Metric /\ account.dump \in Metric
    BY DEF IsAccount
<1>2. A!None \in Metric
    BY DEF A!None, C!None, Metric
<1>3. hours \in Metric
    BY <1>1, <1>2 DEF A!BackupHours
<1>4. made = lists \cup more
    BY DEF A!ResilienceCalls
<1>5. A!ResilienceSnapshot(account, refused) = A!Closed(data, made, refused, extra)
    BY DEF A!ResilienceSnapshot
<1> HIDE DEF hours
<1>6. restore \in Metric /\ last \in Metric /\ jobsFailed \in Nat
    BY <1>1, <1>2, <1>3
<1>7. extra \in Nat
    BY DEF A!One
<1>8. IsFiniteSet(made)
    <2>1. IsFiniteSet(lists) /\ IsFiniteSet(more)
        BY ListsAreFinite, FS_EmptySet
    <2> HIDE DEF made, lists, more
    <2> QED
        BY <1>4, <2>1, FS_Union
<1> HIDE DEF made, restore, last, jobsFailed, extra
<1>9. data \in SnapshotData("A1.2")
    BY <1>6 DEF SnapshotData, Metric
<1> HIDE DEF data
<1> QED
    BY <1>5, <1>7, <1>8, <1>9 DEF MadeOf, made

LEMMA MadeIsPoor ==
    ASSUME NEW control, NEW snap, NEW calls, NEW refused, MadeOf(control, snap, calls, refused)
    PROVE  /\ snap.errors \in Nat /\ snap.data \in SnapshotData(control)
           /\ calls \cap refused # {} => Poor(snap, snap.data)
<1>1. PICK data \in SnapshotData(control), extra \in Nat : snap = A!Closed(data, calls, refused, extra)
    BY DEF MadeOf
<1>2. IsFiniteSet(calls \cap refused) /\ IsFiniteSet(calls)
    BY FS_Subset DEF MadeOf
<1>3. A!Many(calls \cap refused) \in Nat
    BY <1>2, ManyIs
<1>4. snap.data = data /\ snap.errors = A!Many(calls \cap refused) + extra
    BY <1>1 DEF A!Closed, A!FinalizeSnapshot
<1>5. calls \cap refused # {} => Poor(snap, data)
    BY <1>1, <1>2, ClosedIs
<1> QED
    BY <1>3, <1>4, <1>5

LEMMA ZeroTrustIsPoor ==
    ASSUME NEW account, IsAccount(account), NEW refused,
           A!IamCalls(account, refused) \cap refused # {} \/ A!EncryptionCalls(account, refused) \cap refused # {}
           \/ A!ConfigCalls(account, refused) \cap refused # {}
    PROVE  \E data \in SnapshotData("ZT-1") : Poor(A!ZtVerificationSnapshot(account, refused), data)
<1> DEFINE iam == A!IamAccessSnapshot(account, refused)
           enc == A!EncryptionSnapshot(account, refused)
           cfg == A!ConfigAndAuthSnapshot(account, refused)
           snaps == <<iam, enc, cfg>>
           errors == [i \in DOMAIN snaps |-> snaps[i].errors]
           good == {i \in DOMAIN snaps : snaps[i].quality # "failed"}
           light == A!Light(enc.data.unencrypted_cui_count > 0, enc.data.total_confidential_resources = 0)
           data == [iam_review_days_ago |-> iam.data.days_since_last_review, encryption_status |-> light,
                    orphaned_accounts |-> iam.data.orphaned_accounts,
                    mfa_enforcement_percent |-> cfg.data.mfa_enforcement_percent,
                    session_timeout_compliant |-> "unknown"]
           sum == A!Total(errors, DOMAIN snaps)
<1>1. /\ iam.errors \in Nat /\ iam.data \in SnapshotData("CC6.1")
      /\ A!IamCalls(account, refused) \cap refused # {} => Poor(iam, iam.data)
    BY IamMadeOf, MadeIsPoor
<1>2. /\ enc.errors \in Nat
      /\ A!EncryptionCalls(account, refused) \cap refused # {} => Poor(enc, enc.data)
    BY EncryptionMadeOf, MadeIsPoor
<1>3. /\ cfg.errors \in Nat /\ cfg.data \in SnapshotData("CC6.2")
      /\ A!ConfigCalls(account, refused) \cap refused # {} => Poor(cfg, cfg.data)
    BY ConfigMadeOf, MadeIsPoor
<1>4. iam.errors > 0 \/ enc.errors > 0 \/ cfg.errors > 0
    BY <1>1, <1>2, <1>3, Zenon DEF Poor
<1>5. A!ZtVerificationSnapshot(account, refused) =
          A!FinalizeSnapshot(data, sum, Len(snaps), A!Cardinality(good))
    BY DEF A!ZtVerificationSnapshot, A!MergeResults, A!Quantify
<1> HIDE DEF iam, enc, cfg
<1>6. /\ DOMAIN snaps = {1, 2, 3} /\ Len(snaps) = 3
      /\ snaps[1] = iam /\ snaps[2] = enc /\ snaps[3] = cfg
    OBVIOUS
<1> HIDE DEF snaps
<1>7. errors[1] = iam.errors /\ errors[2] = enc.errors /\ errors[3] = cfg.errors
    BY <1>6
<1> HIDE DEF errors
<1>8. SumIs(errors, {1, 2, 3}, 3, iam.errors + enc.errors + cfg.errors)
    <2>1. \A y \in {1, 2, 3} : errors[y] \in Int
        BY <1>1, <1>2, <1>3, <1>7
    <2>2. 1 # 2 /\ 3 \notin {1, 2}
        OBVIOUS
    <2>3. SumIs(errors, {1, 2, 3}, 3, errors[1] + errors[2] + errors[3])
        BY <2>1, <2>2, Sum3
    <2> QED
        BY <1>7, <2>3
<1>9. sum = iam.errors + enc.errors + cfg.errors
    <2>1. A!Total(errors, {1, 2, 3}) = Total(errors, {1, 2, 3})
        BY DEF A!Total, A!FoldSet, A!MapThenFoldSet, Total, FoldSet, MapThenFoldSet
    <2>2. S!Total(errors, {1, 2, 3}) = Total(errors, {1, 2, 3})
        BY OneSum
    <2> QED
        BY <1>6, <1>8, <2>1, <2>2 DEF SumIs
<1> HIDE DEF sum
<1>10. sum \in Nat /\ sum > 0
    BY <1>1, <1>2, <1>3, <1>4, <1>9
<1>11. A!Cardinality(good) \in Nat
    <2>1. IsFiniteSet({1, 2, 3})
        BY ListsAreFinite
    <2>2. good \in SUBSET {1, 2, 3}
        BY <1>6
    <2>3. IsFiniteSet(good)
        BY <2>1, <2>2, FS_Subset
    <2>4. A!Cardinality(good) = Cardinality(good)
        BY DEF A!Cardinality, Cardinality
    <2> QED
        BY <2>3, <2>4, FS_CardinalityType
<1>12. data \in SnapshotData("ZT-1")
    <2>1. iam.data.days_since_last_review \in Metric /\ iam.data.orphaned_accounts \in Metric
        BY <1>1 DEF SnapshotData
    <2>2. cfg.data.mfa_enforcement_percent \in Metric
        BY <1>3 DEF SnapshotData
    <2>3. light \in {"green", "yellow", "red"}
        BY DEF A!Light
    <2> HIDE DEF light
    <2> QED
        BY <2>1, <2>2, <2>3 DEF SnapshotData
<1> HIDE DEF data, good
<1>13. Poor(A!FinalizeSnapshot(data, sum, 3, A!Cardinality(good)), data)
    BY <1>10, <1>11, FinalizedIs
<1> QED
    BY <1>5, <1>6, <1>12, <1>13

(* A call of a snapshot that is refused leaves it poor, whatever it is for. *)
LEMMA RefusalIsPoor ==
    ASSUME NEW c \in Controls, NEW account, IsAccount(account),
           NEW refused \in SUBSET Calls(c, account), refused # {}
    PROVE  \E data \in SnapshotData(c) : Poor(Snapshot(c, account, refused), data)
<1>0. Calls(c, account) \cap refused # {}
    OBVIOUS
<1>1. CASE c = "CC6.1"
    <2>1. Calls("CC6.1", account) = A!IamCalls(account, {}) /\ Snapshot("CC6.1", account, refused) = A!IamAccessSnapshot(account, refused)
        BY DEF Calls, CallsMade, Snapshot
    <2> QED
        BY <1>0, <1>1, <2>1, IamMade, IamMadeOf, MadeIsPoor
<1>2. CASE c = "CC6.2"
    <2>1. Calls("CC6.2", account) = A!ConfigCalls(account, {}) /\ Snapshot("CC6.2", account, refused) = A!ConfigAndAuthSnapshot(account, refused)
        BY DEF Calls, CallsMade, Snapshot
    <2> QED
        BY <1>0, <1>2, <2>1, ConfigMade, ConfigMadeOf, MadeIsPoor
<1>3. CASE c = "CC7.1"
    <2>1. Calls("CC7.1", account) = A!LoggingCalls(account, {}) /\ Snapshot("CC7.1", account, refused) = A!LogMonitoringSnapshot(account, refused)
        BY DEF Calls, CallsMade, Snapshot
    <2> QED
        BY <1>0, <1>3, <2>1, LoggingMade, LoggingMadeOf, MadeIsPoor
<1>4. CASE c = "C1.2"
    <2>1. Calls("C1.2", account) = A!EncryptionCalls(account, {}) /\ Snapshot("C1.2", account, refused) = A!EncryptionSnapshot(account, refused)
        BY DEF Calls, CallsMade, Snapshot
    <2> QED
        BY <1>0, <1>4, <2>1, EncryptionMade, EncryptionMadeOf, MadeIsPoor
<1>5. CASE c = "C1.4"
    <2>1. Calls("C1.4", account) = A!RetentionCalls(account, {}) /\ Snapshot("C1.4", account, refused) = A!RetentionSnapshot(account, refused)
        BY DEF Calls, CallsMade, Snapshot
    <2> QED
        BY <1>0, <1>5, <2>1, RetentionMade, RetentionMadeOf, MadeIsPoor
<1>6. CASE c = "A1.2"
    <2>1. Calls("A1.2", account) = A!ResilienceCalls(account, {}) /\ Snapshot("A1.2", account, refused) = A!ResilienceSnapshot(account, refused)
        BY DEF Calls, CallsMade, Snapshot
    <2> QED
        BY <1>0, <1>6, <2>1, ResilienceMade, ResilienceMadeOf, MadeIsPoor
<1>7. CASE c = "ZT-1"
    <2>1. /\ Calls("ZT-1", account) = A!IamCalls(account, {}) \cup A!EncryptionCalls(account, {}) \cup A!ConfigCalls(account, {})
          /\ Snapshot("ZT-1", account, refused) = A!ZtVerificationSnapshot(account, refused)
        BY DEF Calls, CallsMade, Snapshot
    <2>2. \/ A!IamCalls(account, {}) \cap refused # {} \/ A!EncryptionCalls(account, {}) \cap refused # {}
          \/ A!ConfigCalls(account, {}) \cap refused # {}
        BY <1>0, <1>7, <2>1
    <2>3. \/ A!IamCalls(account, refused) \cap refused # {} \/ A!EncryptionCalls(account, refused) \cap refused # {}
          \/ A!ConfigCalls(account, refused) \cap refused # {}
        BY <2>2, IamMade, EncryptionMade, ConfigMade
    <2> QED
        BY <1>7, <2>1, <2>3, ZeroTrustIsPoor
<1> QED
    BY <1>1, <1>2, <1>3, <1>4, <1>5, <1>6, <1>7 DEF Controls

LEMMA VisibleByAnswers == ASSUME Answers PROVE DenialIsVisible
<1> SUFFICES ASSUME Judged("account"), input.failing # {}
             PROVE  verdict.light # "green" /\ verdict.control.status # "PASS"
    BY DEF DenialIsVisible
<1>1. PICK c \in DOMAIN Accounts : \E account \in Accounts[c] :
        \E failing \in FailingCalls(c, account), failure \in Failures, success \in Successes :
            /\ input = [control |-> c, account |-> account, failing |-> failing]
            /\ verdict = Outcome(c, Answer(c, account, failing, failure, success))
    BY DEF Answers
<1>2. PICK account \in Accounts[c] :
        \E failing \in FailingCalls(c, account), failure \in Failures, success \in Successes :
            /\ input = [control |-> c, account |-> account, failing |-> failing]
            /\ verdict = Outcome(c, Answer(c, account, failing, failure, success))
    BY <1>1
<1>3. PICK failing \in FailingCalls(c, account), failure \in Failures, success \in Successes :
            /\ input = [control |-> c, account |-> account, failing |-> failing]
            /\ verdict = Outcome(c, Answer(c, account, failing, failure, success))
    BY <1>2
<1>4. failing # {} /\ failing \in SUBSET Calls(c, account)
    BY <1>3 DEF FailingCalls
<1>5. c \in Controls /\ IsAccount(account)
    BY AccountsAssumption
<1> DEFINE snap == Answer(c, account, failing, failure, success)
<1>6. \/ snap = C!Raised
      \/ \E some \in SUBSET Calls(c, account) : some # {} /\ snap = Snapshot(c, account, some)
    BY <1>4, AnswerIs
<1>7. verdict = Outcome(c, snap)
    BY <1>3
<1> HIDE DEF snap
<1>8. CASE snap = C!Raised
    BY <1>5, <1>7, <1>8, PoorIsNotGreen, RaisedFails
<1>9. CASE \E some \in SUBSET Calls(c, account) : some # {} /\ snap = Snapshot(c, account, some)
    <2>1. PICK data \in SnapshotData(c) : Poor(snap, data)
        BY <1>5, <1>9, RefusalIsPoor
    <2>2. snap # C!Raised /\ snap.data = data /\ snap.quality \in {"partial", "failed"}
        BY <2>1 DEF Poor
    <2>3. verdict.control = Graded(c, snap.quality, Points(c, data))
        BY <1>5, <1>7, <2>2, OutcomeOfSnap
    <2>4. verdict.control.status # "PASS"
        BY <1>5, <2>2, <2>3, PointsTyped, GradedIs
    <2> QED
        BY <1>5, <1>7, <2>2, <2>4, PoorIsNotGreen
<1> QED
    BY <1>6, <1>8, <1>9

(***************************************************************************)
(* A snapshot of which a call failed, after its attempts (cloud.py), never *)
(* comes out green or passed: what the client writes down                  *)
(* (aws/_client.py) reaches the quality (_snapshot.py), the light          *)
(* (status.py) and the score (scoring.py), for any AWS account, any calls  *)
(* failing and any of the seven snapshots.                                 *)
(***************************************************************************)
THEOREM DenialsAreVisible == JudgingSpec => []DenialIsVisible
<1>1. Verdicts => DenialIsVisible
    BY VisibleByAnswers DEF Verdicts
<1> QED
    BY <1>1, VerdictsHold, PTL

-----------------------------------------------------------------------------
(***************************************************************************)
(* The shares of two accounts, p of q and p2 of q2, to a tenth of a        *)
(* percent: a share that is shown to fall fell, and one that falls by a    *)
(* tenth is shown to.                                                      *)
(***************************************************************************)
Share(part, whole) == A!RoundTenth(A!Percent(part, whole))

(* y thousandths of a percent, rounded down, for part of whole. *)
Rounds(part, whole, y) ==
    /\ whole * y <= 100000 * part /\ 100000 * part < whole * y + whole
    /\ Share(part, whole) = ((y + 50) \div 100) * 100

LEMMA ShareRounds ==
    ASSUME NEW part \in Nat, NEW whole \in Nat, whole > 0
    PROVE  \E y \in Int : Rounds(part, whole, y)
<1> DEFINE x == 100000 * part
           y == x \div whole
<1>1. x \in Int
    OBVIOUS
<1>2. A!Percent(part, whole) = y
    BY DEF A!Percent, A!Unit
<1>3. Share(part, whole) = ((y + 50) \div 100) * 100
    BY <1>2 DEF Share, A!RoundTenth
<1> HIDE DEF x
<1>4. y \in Int /\ whole * y <= x /\ x < whole * y + whole
    BY <1>1, Quotient
<1> HIDE DEF y
<1> QED
    BY <1>3, <1>4 DEF x, Rounds

LEMMA RoundsInOrder ==
    ASSUME NEW y \in Int, NEW z \in Int
    PROVE  /\ y <= z => ((y + 50) \div 100) * 100 <= ((z + 50) \div 100) * 100
           /\ y + 100 <= z => ((y + 50) \div 100) * 100 < ((z + 50) \div 100) * 100
<1> DEFINE u == (y + 50) \div 100
           v == (z + 50) \div 100
<1>1. /\ u \in Int /\ 100 * u <= y + 50 /\ y + 50 < 100 * u + 100
      /\ v \in Int /\ 100 * v <= z + 50 /\ z + 50 < 100 * v + 100
    <2>1. y + 50 \in Int /\ z + 50 \in Int
        OBVIOUS
    <2> QED
        BY <2>1, Quotient
<1> HIDE DEF u, v
<1>2. y <= z => u * 100 <= v * 100
    BY <1>1
<1>3. y + 100 <= z => u * 100 < v * 100
    BY <1>1
<1> QED
    BY <1>2, <1>3 DEF u, v

LEMMA TimesKeeps ==
    ASSUME NEW k \in Nat, NEW x \in Int, NEW y \in Int
    PROVE  /\ x <= y => k * x <= k * y
           /\ x < y /\ k > 0 => k * x < k * y
<1>1. x <= y => k * x <= k * y
    OBVIOUS
<1>2. x < y /\ k > 0 => k * x < k * y
    <2> SUFFICES ASSUME x < y, k > 0 PROVE k * x < k * y
        OBVIOUS
    <2>1. x + 1 <= y
        OBVIOUS
    <2>2. k * (x + 1) <= k * y
        BY <2>1
    <2>3. k * (x + 1) = k * x + k
        OBVIOUS
    <2>4. k * x \in Int /\ k * y \in Int
        OBVIOUS
    <2> QED
        BY <2>2, <2>3, <2>4
<1> QED
    BY <1>1, <1>2

LEMMA SharesFall ==
    ASSUME NEW p \in Nat, NEW q \in Nat, q > 0, NEW p2 \in Nat, NEW q2 \in Nat, q2 > 0
    PROVE  /\ Share(p2, q2) < Share(p, q) => p * q2 - p2 * q > 0
           /\ 1000 * (p * q2 - p2 * q) >= q * q2 => Share(p2, q2) < Share(p, q)
<1>1. PICK y \in Int : Rounds(p, q, y)
    BY ShareRounds
<1>2. PICK z \in Int : Rounds(p2, q2, z)
    BY ShareRounds
<1>3. /\ q * y <= 100000 * p /\ 100000 * p < q * y + q
      /\ Share(p, q) = ((y + 50) \div 100) * 100
    BY <1>1 DEF Rounds
<1>4. /\ q2 * z <= 100000 * p2 /\ 100000 * p2 < q2 * z + q2
      /\ Share(p2, q2) = ((z + 50) \div 100) * 100
    BY <1>2 DEF Rounds
<1> DEFINE s == p * q2
           t == p2 * q
           w == q * q2
           wy == w * y
           wz == w * z
<1>5. s \in Nat /\ t \in Nat /\ w \in Nat /\ w > 0 /\ wy \in Int /\ wz \in Int
    <2>1. w >= 1
        BY TimesKeeps
    <2> QED
        BY <2>1
<1>6. wy <= 100000 * s /\ 100000 * s < wy + w
    <2>1. q * y \in Int /\ 100000 * p \in Int /\ q * y + q \in Int
        OBVIOUS
    <2>2. q2 * (q * y) <= q2 * (100000 * p) /\ q2 * (100000 * p) < q2 * (q * y + q)
        BY <1>3, <2>1, TimesKeeps
    <2>3. q2 * (q * y) = wy /\ q2 * (100000 * p) = 100000 * s /\ q2 * (q * y + q) = wy + w
        OBVIOUS
    <2> QED
        BY <2>2, <2>3
<1>7. wz <= 100000 * t /\ 100000 * t < wz + w
    <2>1. q2 * z \in Int /\ 100000 * p2 \in Int /\ q2 * z + q2 \in Int
        OBVIOUS
    <2>2. q * (q2 * z) <= q * (100000 * p2) /\ q * (100000 * p2) < q * (q2 * z + q2)
        BY <1>4, <2>1, TimesKeeps
    <2>3. q * (q2 * z) = wz /\ q * (100000 * p2) = 100000 * t /\ q * (q2 * z + q2) = wz + w
        OBVIOUS
    <2> QED
        BY <2>2, <2>3
<1>8. ASSUME s <= t PROVE y <= z
    <2> SUFFICES ASSUME z + 1 <= y PROVE FALSE
        OBVIOUS
    <2>1. w * (z + 1) <= wy
        BY <1>5, TimesKeeps
    <2>2. w * (z + 1) = wz + w
        BY <1>5
    <2> HIDE DEF s, t, w, wy, wz
    <2> QED
        BY <1>5, <1>6, <1>7, <1>8, <2>1, <2>2
<1>9. ASSUME 1000 * (s - t) >= w PROVE z + 100 <= y
    <2> SUFFICES ASSUME y + 1 <= z + 100 PROVE FALSE
        OBVIOUS
    <2>1. w * (y + 1) <= w * (z + 100)
        BY <1>5, TimesKeeps
    <2>2. w * (y + 1) = wy + w /\ w * (z + 100) = wz + 100 * w
        BY <1>5
    <2> HIDE DEF s, t, w, wy, wz
    <2> QED
        BY <1>5, <1>6, <1>7, <1>9, <2>1, <2>2
<1> HIDE DEF s, t, w, wy, wz
<1>10. Share(p2, q2) < Share(p, q) => s - t > 0
    <2> SUFFICES ASSUME s <= t PROVE ~(Share(p2, q2) < Share(p, q))
        BY <1>5
    <2>1. ((y + 50) \div 100) * 100 <= ((z + 50) \div 100) * 100
        BY <1>8, RoundsInOrder
    <2> QED
        BY <1>3, <1>4, <2>1
<1>11. 1000 * (s - t) >= w => Share(p2, q2) < Share(p, q)
    BY <1>3, <1>4, <1>9, RoundsInOrder
<1> QED
    BY <1>10, <1>11 DEF s, t, w

-----------------------------------------------------------------------------
(* What a collector keeps of the snapshot of an account, every call of it answered. *)
LEMMA ClosedKeeps ==
    ASSUME NEW data, NEW made, NEW refused, NEW extra
    PROVE  A!Closed(data, made, refused, extra) # C!Raised /\ A!Closed(data, made, refused, extra).data = data
<1> DEFINE errors == A!Many(made \cap refused) + extra
           quality == A!CollectionQuality(errors, A!Many(made), A!Many(made \ refused))
           snap == A!Closed(data, made, refused, extra)
<1>1. snap.data = data /\ snap.quality = quality
    BY DEF A!Closed, A!FinalizeSnapshot
<1>2. quality # "raised"
    BY DEF A!CollectionQuality
<1>3. C!Raised.quality = "raised"
    BY DEF C!Raised
<1> HIDE DEF quality, snap
<1> QED
    BY <1>1, <1>2, <1>3 DEF snap

IamSeen(account, m) ==
    /\ DOMAIN m = C!IamMetrics /\ m.orphaned_accounts \in Nat
    /\ m.orphaned_accounts = Cardinality(Unused(account))
ConfigSeen(account, m) ==
    /\ DOMAIN m = C!ConfigMetrics /\ m.open_http_listeners \in Nat /\ m.unapproved_changes \in Nat
    /\ m.open_http_listeners = account.http /\ m.unapproved_changes = UnapprovedChanges(account)
EncryptionSeen(account, m) ==
    /\ DOMAIN m = C!EncryptionMetrics /\ m.unencrypted_cui_count \in Nat
    /\ m.unencrypted_cui_count = UnencryptedStores(account)
LoggingSeen(account, m) ==
    /\ DOMAIN m = C!LogMetrics
    /\ m.log_coverage_percent =
          IF DOMAIN account.trails = {} THEN C!None
          ELSE Share(Cardinality(Logging(account)), Cardinality(DOMAIN account.trails))

LEMMA IamIsSeen ==
    ASSUME NEW account, IsAccount(account)
    PROVE  IamSeen(account, EvidenceOf("CC6.1", Snapshot("CC6.1", account, {})).metrics)
<1> DEFINE made == A!IamCalls(account, {})
           users == A!Listed("list_users", DOMAIN account.users, {})
           keyed == {u \in A!Readable("list_access_keys", users, {}) : account.users[u].key}
           orphaned == {u \in users : <<"access_key_last_used", u>> \in made \ {} /\ account.users[u].unused}
           data == [orphaned_accounts |-> A!Many(orphaned), days_since_last_review |-> A!None,
                    total_identities |-> A!Many(users)]
           snap == A!Closed(data, made, {}, 0)
           m == C!Keep(snap, C!IamMetrics)
<1>1. Snapshot("CC6.1", account, {}) = snap
    BY DEF Snapshot, A!IamAccessSnapshot
<1>2. users = DOMAIN account.users /\ keyed = {u \in users : account.users[u].key}
    BY ListedIs, ReadableIs
<1>3. \A u \in users : <<"access_key_last_used", u>> \in made <=> u \in keyed
    <2>1. made = {A!List("list_users"), A!List("credential_report")}
                 \cup A!Each("list_access_keys", users) \cup A!Each("access_key_last_used", keyed)
                 \cup A!Each("attached_policies", users)
        BY DEF A!IamCalls
    <2> HIDE DEF made, users, keyed
    <2> QED
        BY <2>1 DEF A!List, A!Each
<1> HIDE DEF made, users, keyed
<1>4. orphaned = Unused(account)
    BY <1>2, <1>3 DEF Unused
<1>5. A!Many(orphaned) \in Nat /\ A!Many(orphaned) = Cardinality(orphaned)
    <2>1. IsFiniteSet(orphaned)
        BY <1>2, AccountIs, FS_Subset
    <2> QED
        BY <2>1, ManyIs
<1> HIDE DEF orphaned
<1>6. DOMAIN data = {"orphaned_accounts", "days_since_last_review", "total_identities"}
      /\ data.orphaned_accounts = A!Many(orphaned)
    OBVIOUS
<1> HIDE DEF data
<1>7. snap # C!Raised /\ snap.data = data
    BY ClosedKeeps
<1> HIDE DEF snap
<1>8. EvidenceOf("CC6.1", snap).metrics = m
    BY <1>7, CollectorOf, PayloadIs DEF C!CollectIamAccessReview
<1>9. DOMAIN m = C!IamMetrics /\ m.orphaned_accounts = A!Many(orphaned)
    BY <1>6, <1>7 DEF C!Keep, C!Get, C!IamMetrics
<1> HIDE DEF m
<1> QED
    BY <1>1, <1>4, <1>5, <1>8, <1>9 DEF IamSeen

LEMMA ConfigIsSeen ==
    ASSUME NEW account, IsAccount(account)
    PROVE  ConfigSeen(account, EvidenceOf("CC6.2", Snapshot("CC6.2", account, {})).metrics)
<1> DEFINE made == A!ConfigCalls(account, {})
           users == A!Listed("list_users", DOMAIN account.mfa, {})
           safe == {u \in A!Readable("mfa_devices", users, {}) : account.mfa[u]}
           rules == {r \in DOMAIN account.rules : <<"compliance", r>> \in made \ {}}
           weak == {b \in DOMAIN account.listeners : <<"listeners", b>> \in made \ {} /\ account.listeners[b]}
           http == IF A!List("security_groups") \in {} THEN 0 ELSE account.http
           unapproved == A!Total(account.rules, rules)
           data == [mfa_enforcement_percent |-> A!None,
                    weak_auth_methods |-> A!Many(users \ safe),
                    open_http_listeners |-> http,
                    unapproved_changes |-> unapproved,
                    changes_missing_rollback_test |-> A!None,
                    config_noncompliant_resources |->
                        IF A!List("compliance_summary") \in {} THEN 0 ELSE account.noncompliant,
                    issues |-> http + A!Many(weak) + unapproved,
                    warnings |-> IF users # {} /\ safe = users THEN 0 ELSE 1]
           snap == A!Closed(data, made, {}, 0)
           m == C!Keep(snap, C!ConfigMetrics)
<1>1. Snapshot("CC6.2", account, {}) = snap
    BY DEF Snapshot, A!ConfigAndAuthSnapshot
<1>2. http = account.http /\ account.http \in Nat
    BY DEF IsAccount
<1>3. rules = DOMAIN account.rules
    <2>1. A!Each("compliance", A!Listed("config_rules", DOMAIN account.rules, {})) \subseteq made
        BY DEF A!ConfigCalls
    <2>2. \A r \in DOMAIN account.rules : <<"compliance", r>> \in made
        BY <2>1, ListedIs DEF A!Each
    <2> HIDE DEF made
    <2> QED
        BY <2>2
<1>4. unapproved = UnapprovedChanges(account) /\ unapproved \in Nat
    <2>1. unapproved = A!Total(account.rules, DOMAIN account.rules)
        BY <1>3
    <2>2. \A f, dom : A!Total(f, dom) = C!Total(f, dom)
        BY DEF A!Total, A!FoldSet, A!MapThenFoldSet, C!Total, C!FoldSet, C!MapThenFoldSet
    <2>3. \A r \in DOMAIN account.rules : account.rules[r] \in Nat
        BY DEF IsAccount
    <2>4. A!Total(account.rules, DOMAIN account.rules) \in Nat
        BY <2>3, AccountIs, SumIsNat
    <2> HIDE DEF unapproved
    <2> QED
        BY <2>1, <2>2, <2>4 DEF UnapprovedChanges
<1> HIDE DEF made, users, safe, rules, weak, http, unapproved
<1>5. DOMAIN data = C!ConfigMetrics /\ data.open_http_listeners = http /\ data.unapproved_changes = unapproved
    BY DEF C!ConfigMetrics
<1> HIDE DEF data
<1>6. snap # C!Raised /\ snap.data = data
    BY ClosedKeeps
<1> HIDE DEF snap
<1>7. EvidenceOf("CC6.2", snap).metrics = m
    <2> DEFINE light == C!WorstStatus({C!StatusConfigMfa(m), C!StatusChangeManagement(m)})
    <2>1. EvidenceOf("CC6.2", snap) = C!Payload("CC6.2", snap, light, m)
        BY CollectorOf DEF C!CollectConfigDrift
    <2> HIDE DEF light, m
    <2> QED
        BY <1>6, <2>1, PayloadIs
<1>8. DOMAIN m = C!ConfigMetrics /\ m.open_http_listeners = http /\ m.unapproved_changes = unapproved
    BY <1>5, <1>6 DEF C!Keep, C!Get, C!ConfigMetrics
<1> HIDE DEF m
<1> QED
    BY <1>1, <1>2, <1>4, <1>7, <1>8 DEF ConfigSeen

LEMMA EncryptionIsSeen ==
    ASSUME NEW account, IsAccount(account)
    PROVE  EncryptionSeen(account, EvidenceOf("C1.2", Snapshot("C1.2", account, {})).metrics)
<1> DEFINE made == A!EncryptionCalls(account, {})
           buckets == A!Listed("list_buckets", DOMAIN account.buckets, {})
           dbs == A!Listed("describe_db", DOMAIN account.dbs, {})
           known == A!Readable("bucket_encryption", buckets, {})
           open == {b \in buckets : b \notin known \/ ~account.buckets[b]}
           plain == {d \in dbs : ~account.dbs[d]}
           bare == A!Many(open) + A!Many(plain)
           total == A!Many(buckets) + A!Many(dbs)
           keys == {k \in DOMAIN account.keys : <<"key_rotation", k>> \in made}
           rotating == {k \in A!Readable("key_rotation", keys, {}) : account.keys[k].rotates}
           seen == {b \in DOMAIN account.balancers : <<"listeners", b>> \in made \ {}}
           data == [total_confidential_resources |-> total,
                    encrypted_at_rest |-> total - bare,
                    unencrypted_cui_count |-> bare,
                    fips_compliant_keys |-> A!Many({k \in rotating : account.keys[k].fips}),
                    keys_pending_rotation |-> A!Many(keys \ rotating),
                    tls_endpoints_checked |-> A!Many({b \in seen : account.balancers[b] # "plain"}),
                    weak_cipher_endpoints |-> A!Many({b \in seen : account.balancers[b] = "weak"})]
           snap == A!Closed(data, made, {}, 0)
           m == C!Keep(snap, C!EncryptionMetrics)
<1>1. Snapshot("C1.2", account, {}) = snap
    BY DEF Snapshot, A!EncryptionSnapshot
<1>2. buckets = DOMAIN account.buckets /\ dbs = DOMAIN account.dbs /\ known = buckets
    BY ListedIs, ReadableIs
<1> HIDE DEF made, buckets, dbs, known, keys, rotating, seen
<1>3. bare = UnencryptedStores(account) /\ bare \in Nat
    <2>1. /\ open = {b \in DOMAIN account.buckets : ~account.buckets[b]}
          /\ plain = {d \in DOMAIN account.dbs : ~account.dbs[d]}
        BY <1>2
    <2> HIDE DEF open, plain
    <2>2. IsFiniteSet(open) /\ IsFiniteSet(plain)
        BY <2>1, AccountIs, FS_Subset
    <2>3. /\ A!Many(open) \in Nat /\ A!Many(open) = Cardinality(open)
          /\ A!Many(plain) \in Nat /\ A!Many(plain) = Cardinality(plain)
        BY <2>2, ManyIs
    <2> QED
        BY <2>1, <2>3 DEF UnencryptedStores
<1> HIDE DEF bare, total
<1>4. DOMAIN data = C!EncryptionMetrics /\ data.unencrypted_cui_count = bare
    BY DEF C!EncryptionMetrics
<1> HIDE DEF data
<1>5. snap # C!Raised /\ snap.data = data
    BY ClosedKeeps
<1> HIDE DEF snap
<1>6. EvidenceOf("C1.2", snap).metrics = m
    BY <1>5, CollectorOf, PayloadIs DEF C!CollectEncryptionStatus
<1>7. DOMAIN m = C!EncryptionMetrics /\ m.unencrypted_cui_count = bare
    BY <1>4, <1>5 DEF C!Keep, C!Get, C!EncryptionMetrics
<1> HIDE DEF m
<1> QED
    BY <1>1, <1>3, <1>6, <1>7 DEF EncryptionSeen

LEMMA LoggingIsSeen ==
    ASSUME NEW account, IsAccount(account)
    PROVE  LoggingSeen(account, EvidenceOf("CC7.1", Snapshot("CC7.1", account, {})).metrics)
<1> DEFINE made == A!LoggingCalls(account, {})
           trails == A!Listed("describe_trails", DOMAIN account.trails, {})
           known == A!Readable("trail_status", trails, {})
           active == {t \in known : account.trails[t].logging}
           gaps == {account.trails[t].gap : t \in active} \ {A!None}
           share == IF trails = {} THEN A!None ELSE A!RoundTenth(A!Percent(A!Many(active), A!Many(trails)))
           data == [active_trails |-> A!Many(active), log_coverage_percent |-> share,
                    max_gap_hours |-> IF gaps = {} THEN A!None ELSE A!Max(gaps),
                    critical_control_failures_30d |-> A!Many(known \ active), cui_retention_days |-> A!None]
           snap == A!Closed(data, made, {}, IF trails = {} THEN 1 ELSE 0)
           m == C!Keep(snap, C!LogMetrics)
<1>1. Snapshot("CC7.1", account, {}) = snap
    BY DEF Snapshot, A!LogMonitoringSnapshot
<1>2. trails = DOMAIN account.trails /\ known = trails
    BY ListedIs, ReadableIs
<1>3. active = Logging(account)
    BY <1>2 DEF Logging
<1> HIDE DEF made, trails, known, active, gaps
<1>4. share = IF DOMAIN account.trails = {} THEN C!None
              ELSE Share(Cardinality(Logging(account)), Cardinality(DOMAIN account.trails))
    <2>1. IsFiniteSet(trails) /\ IsFiniteSet(active)
        BY <1>2, <1>3, AccountIs, FS_Subset DEF Logging
    <2>2. A!Many(active) = Cardinality(active) /\ A!Many(trails) = Cardinality(trails)
        BY <2>1, ManyIs
    <2> QED
        BY <1>2, <1>3, <2>2 DEF Share, A!None, C!None
<1> HIDE DEF share
<1>5. DOMAIN data = C!LogMetrics /\ data.log_coverage_percent = share
    BY DEF C!LogMetrics
<1> HIDE DEF data
<1>6. snap # C!Raised /\ snap.data = data
    BY ClosedKeeps
<1> HIDE DEF snap
<1>7. EvidenceOf("CC7.1", snap).metrics = m
    BY <1>6, CollectorOf, PayloadIs DEF C!CollectLogAggregator
<1>8. DOMAIN m = C!LogMetrics /\ m.log_coverage_percent = share
    BY <1>5, <1>6 DEF C!Keep, C!Get, C!LogMetrics
<1> HIDE DEF m
<1> QED
    BY <1>1, <1>4, <1>7, <1>8 DEF LoggingSeen

-----------------------------------------------------------------------------
(* The comparison of what was seen, collector by collector. *)
LEMMA RisesIs ==
    ASSUME NEW field, NEW other
    PROVE  /\ D!Rises(field, other).field = field /\ D!Rises(field, other).other = other
           /\ D!Rises(field, other).absent = 0 /\ D!Rises(field, other).worse = "more"
    BY DEF D!Rises

LEMMA FallsIs ==
    ASSUME NEW field, NEW other, NEW absent
    PROVE  /\ D!Falls(field, other, absent).field = field /\ D!Falls(field, other, absent).other = other
           /\ D!Falls(field, other, absent).absent = absent /\ D!Falls(field, other, absent).worse = "less"
    BY DEF D!Falls

(* A metric that both runs lack, or have alike, is no drift. *)
LEMMA WorseOf ==
    ASSUME NEW metric, NEW x \in Int, NEW y \in Int
    PROVE  /\ metric.worse = "more" => (D!IsWorse(metric, x, y) <=> y > x)
           /\ metric.worse = "less" => (D!IsWorse(metric, x, y) <=> y < x)
    BY DEF D!IsWorse

LEMMA ComparesTo ==
    ASSUME NEW c \in DOMAIN D!Watched, NEW base, NEW cur
    PROVE  /\ D!CompareCollectorMetrics(c, base, cur).items =
                  {<<c, w.field>> : w \in {x \in D!Watched[c] :
                      D!IsWorse(x, D!ValueOf(base, x), D!ValueOf(cur, x))}}
           /\ D!CompareCollectorMetrics(c, base, cur).raises <=>
                  \E x \in D!Watched[c] : ~D!Measured(D!ValueOf(base, x)) \/ ~D!Measured(D!ValueOf(cur, x))
    BY DEF D!CompareCollectorMetrics

LEMMA NumbersAreMeasured == \A x \in Nat : D!Measured(x)
    BY DEF D!Measured, D!None

LEMMA IamCompares ==
    ASSUME NEW old, NEW new, NEW base, NEW cur, IamSeen(old, base), IamSeen(new, cur)
    PROVE  LET found == D!CompareCollectorMetrics("iam_access_review", base, cur)
           IN  /\ ~found.raises
               /\ found.items = Named("iam_access_review", "orphaned_accounts",
                                      Cardinality(Unused(new)) > Cardinality(Unused(old)))
<1> DEFINE w1 == D!Rises("orphaned_accounts", "orphaned_accounts")
           w2 == D!Falls("mfa_enforced_percentage", "mfa_enforcement_percent", D!Full)
           w3 == D!Rises("privileged_users", "privileged_count")
           found == D!CompareCollectorMetrics("iam_access_review", base, cur)
           x == Cardinality(Unused(old))
           y == Cardinality(Unused(new))
<1>1. "iam_access_review" \in DOMAIN D!Watched /\ D!Watched["iam_access_review"] = {w1, w2, w3}
    BY DEF D!Watched
<1>2. /\ w1.field = "orphaned_accounts" /\ w1.other = "orphaned_accounts" /\ w1.worse = "more"
      /\ w2.field = "mfa_enforced_percentage" /\ w2.other = "mfa_enforcement_percent"
      /\ w2.absent = 100000 /\ w2.worse = "less"
      /\ w3.field = "privileged_users" /\ w3.other = "privileged_count" /\ w3.absent = 0 /\ w3.worse = "more"
    BY RisesIs, FallsIs DEF D!Full, D!Unit
<1> HIDE DEF w1, w2, w3
<1>3. /\ x \in Nat /\ DOMAIN base = C!IamMetrics /\ base.orphaned_accounts = x
      /\ y \in Nat /\ DOMAIN cur = C!IamMetrics /\ cur.orphaned_accounts = y
    BY DEF IamSeen
<1> HIDE DEF x, y
<1>4. /\ D!ValueOf(base, w1) = x /\ D!ValueOf(base, w2) = 100000 /\ D!ValueOf(base, w3) = 0
      /\ D!ValueOf(cur, w1) = y /\ D!ValueOf(cur, w2) = 100000 /\ D!ValueOf(cur, w3) = 0
    BY <1>2, <1>3 DEF D!ValueOf, C!IamMetrics
<1>5. /\ D!IsWorse(w1, x, y) <=> y > x
      /\ ~D!IsWorse(w2, 100000, 100000) /\ ~D!IsWorse(w3, 0, 0)
    BY <1>2, <1>3, WorseOf
<1>6. ~found.raises
    BY <1>1, <1>3, <1>4, ComparesTo, NumbersAreMeasured
<1>7. {w \in {w1, w2, w3} : D!IsWorse(w, D!ValueOf(base, w), D!ValueOf(cur, w))} = IF y > x THEN {w1} ELSE {}
    BY <1>4, <1>5
<1>8. found.items = {<<"iam_access_review", w.field>> : w \in IF y > x THEN {w1} ELSE {}}
    BY <1>1, <1>7, ComparesTo
<1> HIDE DEF found
<1>9. found.items = Named("iam_access_review", "orphaned_accounts", y > x)
    BY <1>2, <1>8 DEF Named
<1> QED
    BY <1>6, <1>9 DEF found, x, y

LEMMA EncryptionCompares ==
    ASSUME NEW old, NEW new, NEW base, NEW cur, EncryptionSeen(old, base), EncryptionSeen(new, cur)
    PROVE  LET found == D!CompareCollectorMetrics("encryption_status", base, cur)
           IN  /\ ~found.raises
               /\ found.items = Named("encryption_status", "unencrypted_data_stores",
                                      UnencryptedStores(new) > UnencryptedStores(old))
<1> DEFINE w1 == D!Rises("unencrypted_data_stores", "unencrypted_cui_count")
           w2 == D!Falls("encrypted_at_rest_percentage", "encrypted_at_rest_percentage", D!Full)
           found == D!CompareCollectorMetrics("encryption_status", base, cur)
           x == UnencryptedStores(old)
           y == UnencryptedStores(new)
<1>1. "encryption_status" \in DOMAIN D!Watched /\ D!Watched["encryption_status"] = {w1, w2}
    BY DEF D!Watched
<1>2. /\ w1.field = "unencrypted_data_stores" /\ w1.other = "unencrypted_cui_count" /\ w1.worse = "more"
      /\ w2.field = "encrypted_at_rest_percentage" /\ w2.other = "encrypted_at_rest_percentage"
      /\ w2.absent = 100000 /\ w2.worse = "less"
    BY RisesIs, FallsIs DEF D!Full, D!Unit
<1> HIDE DEF w1, w2
<1>3. /\ x \in Nat /\ DOMAIN base = C!EncryptionMetrics /\ base.unencrypted_cui_count = x
      /\ y \in Nat /\ DOMAIN cur = C!EncryptionMetrics /\ cur.unencrypted_cui_count = y
    BY DEF EncryptionSeen
<1> HIDE DEF x, y
<1>4. /\ D!ValueOf(base, w1) = x /\ D!ValueOf(base, w2) = 100000
      /\ D!ValueOf(cur, w1) = y /\ D!ValueOf(cur, w2) = 100000
    BY <1>2, <1>3 DEF D!ValueOf, C!EncryptionMetrics
<1>5. (D!IsWorse(w1, x, y) <=> y > x) /\ ~D!IsWorse(w2, 100000, 100000)
    BY <1>2, <1>3, WorseOf
<1>6. ~found.raises
    BY <1>1, <1>3, <1>4, ComparesTo, NumbersAreMeasured
<1>7. {w \in {w1, w2} : D!IsWorse(w, D!ValueOf(base, w), D!ValueOf(cur, w))} = IF y > x THEN {w1} ELSE {}
    BY <1>4, <1>5
<1>8. found.items = {<<"encryption_status", w.field>> : w \in IF y > x THEN {w1} ELSE {}}
    BY <1>1, <1>7, ComparesTo
<1> HIDE DEF found
<1>9. found.items = Named("encryption_status", "unencrypted_data_stores", y > x)
    BY <1>2, <1>8 DEF Named
<1> QED
    BY <1>6, <1>9 DEF found, x, y

LEMMA ConfigCompares ==
    ASSUME NEW old, NEW new, NEW base, NEW cur, ConfigSeen(old, base), ConfigSeen(new, cur)
    PROVE  LET found == D!CompareCollectorMetrics("config_drift", base, cur)
           IN  /\ ~found.raises
               /\ found.items = Named("config_drift", "open_security_groups", new.http > old.http)
                                \cup Named("config_drift", "unapproved_changes_detected",
                                           UnapprovedChanges(new) > UnapprovedChanges(old))
<1> DEFINE w1 == D!Rises("open_security_groups", "open_http_listeners")
           w2 == D!Rises("unapproved_changes_detected", "unapproved_changes")
           found == D!CompareCollectorMetrics("config_drift", base, cur)
           x1 == old.http
           y1 == new.http
           x2 == UnapprovedChanges(old)
           y2 == UnapprovedChanges(new)
<1>1. "config_drift" \in DOMAIN D!Watched /\ D!Watched["config_drift"] = {w1, w2}
    BY DEF D!Watched
<1>2. /\ w1.field = "open_security_groups" /\ w1.other = "open_http_listeners" /\ w1.worse = "more"
      /\ w2.field = "unapproved_changes_detected" /\ w2.other = "unapproved_changes" /\ w2.worse = "more"
    BY RisesIs
<1> HIDE DEF w1, w2
<1>3. /\ x1 \in Nat /\ x2 \in Nat /\ DOMAIN base = C!ConfigMetrics
      /\ base.open_http_listeners = x1 /\ base.unapproved_changes = x2
      /\ y1 \in Nat /\ y2 \in Nat /\ DOMAIN cur = C!ConfigMetrics
      /\ cur.open_http_listeners = y1 /\ cur.unapproved_changes = y2
    BY DEF ConfigSeen
<1> HIDE DEF x1, x2, y1, y2
<1>4. /\ D!ValueOf(base, w1) = x1 /\ D!ValueOf(base, w2) = x2
      /\ D!ValueOf(cur, w1) = y1 /\ D!ValueOf(cur, w2) = y2
    BY <1>2, <1>3 DEF D!ValueOf, C!ConfigMetrics
<1>5. (D!IsWorse(w1, x1, y1) <=> y1 > x1) /\ (D!IsWorse(w2, x2, y2) <=> y2 > x2)
    BY <1>2, <1>3, WorseOf
<1>6. ~found.raises
    BY <1>1, <1>3, <1>4, ComparesTo, NumbersAreMeasured
<1>7. {w \in {w1, w2} : D!IsWorse(w, D!ValueOf(base, w), D!ValueOf(cur, w))} =
          (IF y1 > x1 THEN {w1} ELSE {}) \cup (IF y2 > x2 THEN {w2} ELSE {})
    BY <1>4, <1>5
<1>8. found.items = {<<"config_drift", w.field>> : w \in (IF y1 > x1 THEN {w1} ELSE {})
                                                      \cup (IF y2 > x2 THEN {w2} ELSE {})}
    BY <1>1, <1>7, ComparesTo
<1> HIDE DEF found
<1>9. found.items = Named("config_drift", "open_security_groups", y1 > x1)
                    \cup Named("config_drift", "unapproved_changes_detected", y2 > x2)
    BY <1>2, <1>8 DEF Named
<1> QED
    BY <1>6, <1>9 DEF found, x1, x2, y1, y2

ShareOf(account) == Share(Cardinality(Logging(account)), Cardinality(DOMAIN account.trails))

LEMMA LoggingCompares ==
    ASSUME NEW old, NEW new, NEW base, NEW cur, LoggingSeen(old, base), LoggingSeen(new, cur),
           DOMAIN old.trails # {} => ShareOf(old) \in Nat, DOMAIN new.trails # {} => ShareOf(new) \in Nat
    PROVE  LET found == D!CompareCollectorMetrics("log_aggregator", base, cur)
               trailless == {} \in {DOMAIN old.trails, DOMAIN new.trails}
           IN  /\ found.raises <=> trailless
               /\ ~trailless => found.items = Named("log_aggregator", "critical_events_logged_percentage",
                                                    ShareOf(new) < ShareOf(old))
<1> DEFINE w1 == D!Falls("critical_events_logged_percentage", "log_coverage_percent", D!Full)
           found == D!CompareCollectorMetrics("log_aggregator", base, cur)
           x == base.log_coverage_percent
           y == cur.log_coverage_percent
<1>1. "log_aggregator" \in DOMAIN D!Watched /\ D!Watched["log_aggregator"] = {w1}
    BY DEF D!Watched
<1>2. /\ w1.field = "critical_events_logged_percentage" /\ w1.other = "log_coverage_percent"
      /\ w1.worse = "less"
    BY FallsIs
<1> HIDE DEF w1
<1>3. /\ DOMAIN base = C!LogMetrics /\ DOMAIN cur = C!LogMetrics
      /\ x = IF DOMAIN old.trails = {} THEN C!None ELSE ShareOf(old)
      /\ y = IF DOMAIN new.trails = {} THEN C!None ELSE ShareOf(new)
    BY DEF LoggingSeen, ShareOf
<1> HIDE DEF x, y
<1>4. D!ValueOf(base, w1) = x /\ D!ValueOf(cur, w1) = y
    BY <1>2, <1>3 DEF D!ValueOf, C!LogMetrics, x, y
<1>5. found.raises <=> ~D!Measured(x) \/ ~D!Measured(y)
    BY <1>1, <1>4, ComparesTo
<1>6. ~D!Measured(C!None)
    BY DEF D!Measured, D!None, C!None
<1>7. ASSUME {} \notin {DOMAIN old.trails, DOMAIN new.trails}
      PROVE  found.items = Named("log_aggregator", "critical_events_logged_percentage", ShareOf(new) < ShareOf(old))
    <2>1. x \in Nat /\ y \in Nat /\ x = ShareOf(old) /\ y = ShareOf(new)
        BY <1>3, <1>7
    <2>2. D!IsWorse(w1, x, y) <=> y < x
        BY <1>2, <2>1, WorseOf
    <2>3. {w \in {w1} : D!IsWorse(w, D!ValueOf(base, w), D!ValueOf(cur, w))} = IF y < x THEN {w1} ELSE {}
        BY <1>4, <2>2
    <2>4. found.items = {<<"log_aggregator", w.field>> : w \in IF y < x THEN {w1} ELSE {}}
        BY <1>1, <2>3, ComparesTo
    <2> HIDE DEF found
    <2>5. found.items = Named("log_aggregator", "critical_events_logged_percentage", y < x)
        BY <1>2, <2>4 DEF Named
    <2> QED
        BY <2>1, <2>5
<1> HIDE DEF found
<1>8. found.raises <=> {} \in {DOMAIN old.trails, DOMAIN new.trails}
    BY <1>3, <1>5, <1>6, NumbersAreMeasured
<1> QED
    BY <1>7, <1>8 DEF found

-----------------------------------------------------------------------------
(* The two runs that are compared: today's with yesterday's. *)
LEMMA LastIs ==
    LET order == <<"yesterday", "today">>
    IN  /\ D!Last(order, {"yesterday", "today"}) = "today"
        /\ D!Last(order, {"yesterday"}) = "yesterday"
<1> DEFINE order == <<"yesterday", "today">>
           places(names) == {i \in DOMAIN order : order[i] \in names}
<1>1. DOMAIN order = {1, 2} /\ order[1] = "yesterday" /\ order[2] = "today"
    OBVIOUS
<1>2. D!Max({1, 2}) = 2 /\ D!Max({1}) = 1
    <2>1. D!Max({1, 2}) = CHOOSE x \in {1, 2} : \A y \in {1, 2} : x >= y
        BY DEF D!Max
    <2>2. D!Max({1}) = CHOOSE x \in {1} : \A y \in {1} : x >= y
        BY DEF D!Max
    <2> QED
        BY <2>1, <2>2
<1> HIDE DEF order
<1>3. places({"yesterday", "today"}) = {1, 2} /\ places({"yesterday"}) = {1}
    BY <1>1
<1>4. \A names : D!Last(order, names) =
          IF places(names) = {} THEN D!NoDirectory ELSE order[D!Max(places(names))]
    BY DEF D!Last
<1> HIDE DEF places
<1>5. D!Last(order, {"yesterday", "today"}) = "today" /\ D!Last(order, {"yesterday"}) = "yesterday"
    BY <1>1, <1>2, <1>3, <1>4
<1> QED
    BY <1>5 DEF order

LEMMA DetectIs ==
    ASSUME NEW base, NEW cur, DOMAIN base = DOMAIN Watching, DOMAIN cur = DOMAIN Watching
    PROVE  LET found(c) == D!CompareCollectorMetrics(c, base[c].metrics, cur[c].metrics)
               report == D!DetectConfigurationDrift([yesterday |-> base, today |-> cur],
                             <<"yesterday", "today">>, D!NoDirectory, D!NoDirectory)
           IN  /\ report.items = UNION {found(c).items : c \in DOMAIN Watching}
               /\ report.raises <=> \E c \in DOMAIN Watching : found(c).raises
<1> DEFINE tree == [yesterday |-> base, today |-> cur]
           order == <<"yesterday", "today">>
           dirs == DOMAIN tree \ {"manifests"}
           one(c) == D!CompareCollectorMetrics(c, base[c].metrics, cur[c].metrics)
           found == {one(c) : c \in DOMAIN Watching}
           report == D!DetectConfigurationDrift(tree, order, D!NoDirectory, D!NoDirectory)
<1>1. dirs = {"yesterday", "today"} /\ tree["today"] = cur /\ tree["yesterday"] = base
    OBVIOUS
<1>2. D!NoDirectory \notin dirs /\ D!NoDirectory # "yesterday"
    BY DEF D!NoDirectory
<1>3. D!Last(order, {"yesterday", "today"}) = "today" /\ D!Last(order, {"yesterday"}) = "yesterday"
    BY LastIs
<1>4. {"yesterday", "today"} \ {"today"} = {"yesterday"}
    OBVIOUS
<1> DEFINE r == D!CurrentDirectory(dirs, order, D!NoDirectory)
           b == D!BaselineDirectory(dirs, order, D!NoDirectory, D!NoDirectory)
<1> HIDE DEF tree, order, dirs
<1>5. r = "today"
    BY <1>1, <1>2, <1>3 DEF D!CurrentDirectory
<1>6. b = "yesterday"
    BY <1>1, <1>2, <1>3, <1>4, <1>5 DEF D!BaselineDirectory
<1>7. DOMAIN base # {} /\ DOMAIN cur \cap DOMAIN base = DOMAIN Watching
    BY DEF Watching
<1>8. dirs # {} /\ b # D!NoDirectory
    BY <1>1, <1>2, <1>6
<1> HIDE DEF r, b
<1> DEFINE kept == IF b = D!NoDirectory THEN << >> ELSE tree[b]
           seen == IF DOMAIN kept # {}
                   THEN {D!CompareCollectorMetrics(c, kept[c].metrics, tree[r][c].metrics) :
                            c \in DOMAIN tree[r] \cap DOMAIN kept}
                   ELSE {D!InitialViolations(c, tree[r][c].metrics) : c \in DOMAIN tree[r]}
<1>9. report = IF dirs = {} THEN D!NoDrift
               ELSE [current |-> r, baseline |-> b, items |-> UNION {f.items : f \in seen},
                     raises |-> \E f \in seen : f.raises]
    BY DEF D!DetectConfigurationDrift, r, b, dirs
<1>10. kept = base
    BY <1>1, <1>6, <1>8
<1> HIDE DEF kept
<1>11. seen = found
    BY <1>1, <1>5, <1>7, <1>10
<1> HIDE DEF report, seen, found
<1>12. report.items = UNION {f.items : f \in found} /\ (report.raises <=> \E f \in found : f.raises)
    BY <1>8, <1>9, <1>11
<1>13. /\ UNION {f.items : f \in found} = UNION {one(c).items : c \in DOMAIN Watching}
       /\ (\E f \in found : f.raises) <=> \E c \in DOMAIN Watching : one(c).raises
    BY DEF found
<1> QED
    BY <1>12, <1>13 DEF report, tree, order

LEMMA RunIs ==
    ASSUME NEW account, IsAccount(account)
    PROVE  /\ DOMAIN RunOf(account) = DOMAIN Watching
           /\ IamSeen(account, RunOf(account)["iam_access_review"].metrics)
           /\ ConfigSeen(account, RunOf(account)["config_drift"].metrics)
           /\ EncryptionSeen(account, RunOf(account)["encryption_status"].metrics)
           /\ LoggingSeen(account, RunOf(account)["log_aggregator"].metrics)
<1>1. /\ DOMAIN RunOf(account) = DOMAIN Watching
      /\ RunOf(account)["iam_access_review"] = EvidenceOf("CC6.1", Snapshot("CC6.1", account, {}))
      /\ RunOf(account)["config_drift"] = EvidenceOf("CC6.2", Snapshot("CC6.2", account, {}))
      /\ RunOf(account)["encryption_status"] = EvidenceOf("C1.2", Snapshot("C1.2", account, {}))
      /\ RunOf(account)["log_aggregator"] = EvidenceOf("CC7.1", Snapshot("CC7.1", account, {}))
    BY DEF RunOf, Watching
<1> QED
    BY <1>1, IamIsSeen, ConfigIsSeen, EncryptionIsSeen, LoggingIsSeen

LEMMA TrailsAre ==
    ASSUME NEW account, IsAccount(account), DOMAIN account.trails # {}
    PROVE  /\ Cardinality(DOMAIN account.trails) \in Nat /\ Cardinality(DOMAIN account.trails) > 0
           /\ Cardinality(Logging(account)) \in Nat /\ ShareOf(account) \in Nat
<1>1. IsFiniteSet(DOMAIN account.trails) /\ IsFiniteSet(Logging(account))
    BY AccountIs, FS_Subset DEF Logging
<1>2. /\ Cardinality(DOMAIN account.trails) \in Nat /\ Cardinality(DOMAIN account.trails) > 0
      /\ Cardinality(Logging(account)) \in Nat
    BY <1>1, FS_CardinalityType, FS_EmptySet
<1> QED
    BY <1>2, ShareIsNat DEF ShareOf, Share

LEMMA FollowedByComparisons == ASSUME Comparisons PROVE DriftFollowsAccount
<1> SUFFICES ASSUME Judged("history") PROVE DriftFollowsAccount
    BY DEF DriftFollowsAccount
<1>1. PICK old \in Installations, new \in Installations :
          /\ input = [before |-> old, after |-> new]
          /\ verdict = D!DetectConfigurationDrift([yesterday |-> RunOf(old), today |-> RunOf(new)],
                                                  <<"yesterday", "today">>, D!NoDirectory, D!NoDirectory)
    BY DEF Comparisons
<1> DEFINE base == RunOf(old)
           cur == RunOf(new)
           found(c) == D!CompareCollectorMetrics(c, base[c].metrics, cur[c].metrics)
           trailless == {} \in {DOMAIN old.trails, DOMAIN new.trails}
           lo == Cardinality(Logging(old))
           to == Cardinality(DOMAIN old.trails)
           ln == Cardinality(Logging(new))
           tn == Cardinality(DOMAIN new.trails)
           fall == lo * tn - ln * to
           coverage == <<"log_aggregator", "critical_events_logged_percentage">>
           iam == Named("iam_access_review", "orphaned_accounts",
                        Cardinality(Unused(new)) > Cardinality(Unused(old)))
           enc == Named("encryption_status", "unencrypted_data_stores",
                        UnencryptedStores(new) > UnencryptedStores(old))
           http == Named("config_drift", "open_security_groups", new.http > old.http)
           rules == Named("config_drift", "unapproved_changes_detected",
                          UnapprovedChanges(new) > UnapprovedChanges(old))
           log == Named("log_aggregator", "critical_events_logged_percentage", ShareOf(new) < ShareOf(old))
<1>2. IsAccount(old) /\ IsAccount(new)
    BY InstallationsAssumption
<1>3. /\ DOMAIN base = DOMAIN Watching /\ DOMAIN cur = DOMAIN Watching
      /\ IamSeen(old, base["iam_access_review"].metrics) /\ IamSeen(new, cur["iam_access_review"].metrics)
      /\ ConfigSeen(old, base["config_drift"].metrics) /\ ConfigSeen(new, cur["config_drift"].metrics)
      /\ EncryptionSeen(old, base["encryption_status"].metrics)
      /\ EncryptionSeen(new, cur["encryption_status"].metrics)
      /\ LoggingSeen(old, base["log_aggregator"].metrics) /\ LoggingSeen(new, cur["log_aggregator"].metrics)
    BY <1>2, RunIs
<1> HIDE DEF base, cur
<1>4. /\ verdict.items = UNION {found(c).items : c \in DOMAIN Watching}
      /\ verdict.raises <=> \E c \in DOMAIN Watching : found(c).raises
    BY <1>1, <1>3, DetectIs DEF base, cur
<1>5. DOMAIN Watching = {"iam_access_review", "config_drift", "encryption_status", "log_aggregator"}
    BY DEF Watching
<1>6. ~found("iam_access_review").raises /\ found("iam_access_review").items = iam
    BY <1>3, IamCompares
<1>7. ~found("config_drift").raises /\ found("config_drift").items = http \cup rules
    BY <1>3, ConfigCompares
<1>8. ~found("encryption_status").raises /\ found("encryption_status").items = enc
    BY <1>3, EncryptionCompares
<1>9. /\ found("log_aggregator").raises <=> trailless
      /\ ~trailless => found("log_aggregator").items = log
    BY <1>2, <1>3, TrailsAre, LoggingCompares
<1>10. coverage \notin iam \cup enc \cup http \cup rules
    BY DEF Named
<1>11. log = IF ShareOf(new) < ShareOf(old) THEN {coverage} ELSE {}
    BY DEF Named
<1>12. ~trailless => /\ ShareOf(new) < ShareOf(old) => fall > 0
                     /\ 1000 * fall >= to * tn => ShareOf(new) < ShareOf(old)
    BY <1>2, TrailsAre, SharesFall DEF ShareOf
<1> HIDE DEF found, iam, enc, http, rules, log, fall, lo, to, ln, tn, coverage, trailless
<1>13. verdict.raises <=> trailless
    BY <1>4, <1>5, <1>6, <1>7, <1>8, <1>9
<1>14. ~trailless => verdict.items = iam \cup http \cup rules \cup enc \cup log
    BY <1>4, <1>5, <1>6, <1>7, <1>8, <1>9
<1>15. ~trailless => /\ verdict.items \ {coverage} = iam \cup enc \cup http \cup rules
                     /\ coverage \in verdict.items => fall > 0
                     /\ 1000 * fall >= to * tn => coverage \in verdict.items
    BY <1>10, <1>11, <1>12, <1>14
<1>16. input.before = old /\ input.after = new
    BY <1>1
<1> QED
    BY <1>13, <1>15, <1>16 DEF DriftFollowsAccount, trailless, coverage, fall, lo, to, ln, tn, iam, enc, http, rules

(***************************************************************************)
(* The drift report of two runs in which every call was answered follows   *)
(* the account: each of the counts it compares is named where it rose and  *)
(* nowhere else, the coverage of the logs where it fell by a tenth of a    *)
(* percent and never where it did not fall, and it fails where a run had   *)
(* no trail to measure that coverage of (drift.py, of the metrics that the *)
(* collectors keep of AwsProvider's snapshots).                            *)
(***************************************************************************)
THEOREM DriftIsFollowed == JudgingSpec => []DriftFollowsAccount
<1>1. Verdicts => DriftFollowsAccount
    BY FollowedByComparisons DEF Verdicts
<1> QED
    BY <1>1, VerdictsHold, PTL

-----------------------------------------------------------------------------
(***************************************************************************)
(* Where a condition that asks for all it names is true, all of it was     *)
(* measured: what is true at the root is true at every test, and a number  *)
(* at every term.                                                          *)
(***************************************************************************)
Operands(condition, i, g) == [k \in DOMAIN condition[i].args |-> g[condition[i].args[k]]]

LEMMA ValuesAre ==
    ASSUME NEW condition, NEW context, NEW n \in Nat, DOMAIN condition = 1..n,
           \A i \in 1..n : \A k \in DOMAIN condition[i].args : condition[i].args[k] \in 1..(i - 1)
    PROVE  \A i \in 1..n :
               P!Values(condition, context)[i] =
                   P!EvalNode(condition[i], Operands(condition, i, P!Values(condition, context)), context)
<1> DEFINE At(g, i) == P!EvalNode(condition[i], Operands(condition, i, g), context)
           Upto(m, g) == \A i \in 1..n : i <= m => g[i] = At(g, i)
           N == {m \in Nat : \E g : Upto(m, g)}
           Is(g) == g = [i \in DOMAIN condition |->
                            P!EvalNode(condition[i], [k \in DOMAIN condition[i].args |-> g[condition[i].args[k]]], context)]
<1>1. ASSUME NEW i \in 1..n, NEW g, NEW h, \A j \in 1..(i - 1) : g[j] = h[j]
      PROVE  At(g, i) = At(h, i)
    <2>1. Operands(condition, i, g) = Operands(condition, i, h)
        BY <1>1 DEF Operands
    <2> QED
        BY <2>1
<1> HIDE DEF At
<1>2. 0 \in N
    OBVIOUS
<1>3. ASSUME NEW m \in Nat, m \in N PROVE m + 1 \in N
    <2>1. PICK g : Upto(m, g)
        BY <1>3
    <2> DEFINE h == [i \in 1..n |-> IF i <= m THEN g[i] ELSE At(g, i)]
    <2>2. \A j \in 1..n : j <= m => h[j] = g[j]
        OBVIOUS
    <2>3. \A i \in 1..n : h[i] = At(g, i)
        BY <2>1
    <2> HIDE DEF h
    <2>4. ASSUME NEW i \in 1..n, i <= m + 1 PROVE h[i] = At(h, i)
        <3>1. \A j \in 1..(i - 1) : g[j] = h[j]
            BY <2>2, <2>4
        <3>2. At(g, i) = At(h, i)
            BY <3>1, <1>1
        <3> QED
            BY <2>3, <3>2
    <2>5. Upto(m + 1, h)
        BY <2>4
    <2> HIDE DEF Upto
    <2>6. \E z : Upto(m + 1, z)
        BY <2>5
    <2> QED
        BY <2>6
<1> HIDE DEF N
<1>4. n \in N
    BY <1>2, <1>3, AllNumbers
<1>5. PICK g : Upto(n, g)
    BY <1>4 DEF N
<1> DEFINE h == [i \in 1..n |-> g[i]]
<1>6. \A i \in 1..n : h[i] = At(h, i)
    <2> SUFFICES ASSUME NEW i \in 1..n PROVE h[i] = At(h, i)
        OBVIOUS
    <2>1. \A j \in 1..(i - 1) : g[j] = h[j]
        OBVIOUS
    <2>2. h[i] = At(g, i)
        BY <1>5
    <2> HIDE DEF h
    <2>3. At(g, i) = At(h, i)
        BY <1>1, <2>1
    <2> QED
        BY <2>2, <2>3
<1>7. h = [i \in 1..n |-> h[i]]
    OBVIOUS
<1> HIDE DEF h
<1>8. Is(h)
    BY <1>6, <1>7 DEF At, Operands
<1> DEFINE w == P!Values(condition, context)
<1>9. w = CHOOSE z : Is(z)
    BY DEF P!Values
<1> HIDE DEF Is
<1>10. Is(w)
    BY <1>8, <1>9
<1> HIDE DEF w
<1>11. \A i \in 1..n : w[i] = P!EvalNode(condition[i], Operands(condition, i, w), context)
    BY <1>10 DEF Is, Operands
<1> QED
    BY <1>11 DEF w

LEMMA TruthIs ==
    ASSUME NEW holds \in BOOLEAN
    PROVE  /\ P!IsTrue(P!Truth(holds)) <=> holds
           /\ P!IsNumber(P!Truth(holds)) /\ P!Truth(holds) # P!Raises
           /\ ~P!IsNumber(P!Raises) /\ ~P!IsTrue(P!Raises)
    BY DEF P!Truth, P!IsTrue, P!IsNumber, P!Number, P!Raises

(* What is true at a test. *)
LEMMA AndIs ==
    ASSUME NEW node, NEW args, NEW context, node.op = "and", P!IsTrue(P!EvalNode(node, args, context))
    PROVE  \A k \in DOMAIN args : P!IsTrue(args[k])
<1> DEFINE stops == {i \in DOMAIN args : args[i] = P!Raises \/ P!IsTrue(args[i]) = FALSE}
           first == CHOOSE i \in stops : \A j \in stops : i <= j
<1>1. P!EvalNode(node, args, context) = P!Settled(args, FALSE)
    BY DEF P!EvalNode
<1>2. P!Settled(args, FALSE) =
          IF stops = {} THEN P!Truth(~FALSE)
          ELSE IF args[first] = P!Raises THEN P!Raises ELSE P!Truth(FALSE)
    BY DEF P!Settled
<1>3. ~P!IsTrue(P!Raises) /\ ~P!IsTrue(P!Truth(FALSE))
    BY TruthIs
<1> HIDE DEF first
<1>4. stops = {}
    BY <1>1, <1>2, <1>3
<1>5. \A k \in DOMAIN args : P!IsTrue(args[k]) # FALSE
    BY <1>4
<1> QED
    BY <1>5 DEF P!IsTrue

LEMMA ComparisonIs ==
    ASSUME NEW node, NEW args, NEW context, DOMAIN args = {1, 2},
           node.op \in {"==", "<", "<=", ">", ">="}, P!IsTrue(P!EvalNode(node, args, context))
    PROVE  /\ args[1] # P!Raises /\ args[2] # P!Raises
           /\ node.op = "==" => args[1] = args[2]
           /\ node.op # "==" => P!IsNumber(args[1]) /\ P!IsNumber(args[2])
<1> DEFINE v == P!EvalNode(node, args, context)
           a == args[1]
           b == args[2]
<1>1. {args[i] : i \in DOMAIN args} = {a, b}
    OBVIOUS
<1>2. CASE P!Raises \in {a, b}
    <2>1. v = P!Raises
        BY <1>1, <1>2 DEF P!EvalNode
    <2> HIDE DEF v
    <2> QED
        BY <2>1, TruthIs DEF v
<1>3. CASE P!Raises \notin {a, b}
    <2>1. v = P!Truth(P!Compare(node.op, a, b))
        BY <1>1, <1>3 DEF P!EvalNode
    <2>2. P!Compare(node.op, a, b) \in BOOLEAN
        BY DEF P!Compare
    <2> HIDE DEF v
    <2>3. P!Compare(node.op, a, b)
        BY <2>1, <2>2, TruthIs DEF v
    <2>4. node.op = "==" => a = b
        BY <2>3 DEF P!Compare
    <2>5. node.op # "==" => P!IsNumber(a) /\ P!IsNumber(b)
        BY <2>3 DEF P!Compare
    <2> QED
        BY <1>3, <2>4, <2>5
<1> QED
    BY <1>2, <1>3

(* A term is a number, raises, or is what its name stands for; a number only of numbers. *)
LEMMA TermIs ==
    ASSUME NEW node, NEW args, NEW context, node.op \in Terms,
           node.op = "neg" => DOMAIN args = {1}, node.op \in Computations => DOMAIN args = {1, 2},
           node.op \in {"div", "mod"} => args[2] # P!Number(0)
    PROVE  /\ node.op # "name" =>
                 P!EvalNode(node, args, context) = P!Raises \/ P!IsNumber(P!EvalNode(node, args, context))
           /\ node.op \in {"neg"} \cup Computations /\ P!IsNumber(P!EvalNode(node, args, context)) =>
                 \A k \in DOMAIN args : P!IsNumber(args[k])
<1> DEFINE v == P!EvalNode(node, args, context)
           a == args[1]
           b == args[2]
<1>0. ~(node.op \in {"div", "mod"} /\ b = P!Number(0))
    OBVIOUS
<1>1. CASE node.op = "name"
    BY <1>1 DEF Computations
<1>2. CASE node.op = "const"
    <2>1. v = P!Number(node.n)
        BY <1>2 DEF P!EvalNode
    <2> QED
        BY <1>2, <2>1 DEF Computations, P!IsNumber, P!Number
<1>3. CASE node.op = "neg"
    <2>1. {args[i] : i \in DOMAIN args} = {a}
        BY <1>3
    <2>2. CASE a = P!Raises
        <3>1. v = P!Raises
            BY <1>3, <2>1, <2>2 DEF P!EvalNode
        <3> QED
            BY <3>1, TruthIs
    <2>3. CASE a # P!Raises
        <3>1. v = IF P!IsNumber(a) THEN P!Number(-a.n) ELSE P!Raises
            BY <1>3, <2>1, <2>3 DEF P!EvalNode
        <3>2. P!IsNumber(P!Number(-a.n))
            BY DEF P!IsNumber, P!Number
        <3> HIDE DEF v
        <3>3. v = P!Raises \/ P!IsNumber(v)
            BY <3>1, <3>2
        <3>4. P!IsNumber(v) => P!IsNumber(a)
            BY <3>1, TruthIs
        <3> QED
            BY <1>3, <3>3, <3>4 DEF v
    <2> QED
        BY <2>2, <2>3
<1>4. CASE node.op \in Computations
    <2>1. {args[i] : i \in DOMAIN args} = {a, b} /\ DOMAIN args = {1, 2}
        BY <1>4
    <2>2. CASE P!Raises \in {a, b}
        <3>1. v = P!Raises
            BY <1>4, <2>1, <2>2 DEF P!EvalNode, Computations
        <3> QED
            BY <3>1, TruthIs
    <2>3. CASE P!Raises \notin {a, b}
        <3>1. v = P!Arithmetic(node.op, a, b)
            BY <1>4, <2>1, <2>3 DEF P!EvalNode, Computations
        <3> DEFINE r == CASE node.op = "add" -> a.n + b.n
                          [] node.op = "sub" -> a.n - b.n
                          [] node.op = "mul" -> a.n * b.n
                          [] node.op = "div" -> a.n \div b.n
                          [] node.op = "mod" -> a.n % b.n
        <3>2. v = IF ~P!IsNumber(a) \/ ~P!IsNumber(b) THEN P!Raises ELSE P!Number(r)
            BY <1>0, <3>1, Zenon DEF P!Arithmetic
        <3> HIDE DEF r, v
        <3>3. P!IsNumber(P!Number(r))
            BY DEF P!IsNumber, P!Number
        <3>4. v = P!Raises \/ P!IsNumber(v)
            BY <3>2, <3>3
        <3>5. P!IsNumber(v) => P!IsNumber(a) /\ P!IsNumber(b)
            BY <3>2, TruthIs
        <3> QED
            BY <1>4, <2>1, <3>4, <3>5 DEF v
    <2> QED
        BY <2>2, <2>3
<1> QED
    BY <1>1, <1>2, <1>3, <1>4 DEF Terms

(* From the root down: the node at i has one above it, which was shown before. *)
LEMMA AllHold ==
    ASSUME NEW condition, NEW context, Demanding(condition), NEW n, n = Len(condition),
           P!IsTrue(P!Values(condition, context)[n])
    PROVE  \A i \in 1..n : /\ condition[i].op \in Tests => P!IsTrue(P!Values(condition, context)[i])
                           /\ condition[i].op \in Terms => P!IsNumber(P!Values(condition, context)[i])
<1> DEFINE w == P!Values(condition, context)
           args(i) == Operands(condition, i, w)
           Holds(i) == /\ condition[i].op \in Tests => P!IsTrue(w[i])
                       /\ condition[i].op \in Terms => P!IsNumber(w[i])
           N == {m \in Nat : \A i \in 1..n : n - i <= m => Holds(i)}
           ops(i) == {condition[condition[i].args[k]].op : k \in DOMAIN condition[i].args}
           Shape(i) ==
               \/ condition[i].op \in {"name", "const"} /\ condition[i].args = << >>
               \/ condition[i].op = "neg" /\ DOMAIN condition[i].args = {1} /\ ops(i) \subseteq Terms
               \/ /\ condition[i].op \in Computations /\ DOMAIN condition[i].args = {1, 2} /\ ops(i) \subseteq Terms
                  /\ condition[i].op \in {"div", "mod"} => NonZero(condition[condition[i].args[2]])
               \/ condition[i].op = "and" /\ ops(i) \subseteq Tests
               \/ /\ condition[i].op \in Tests \ {"and"} /\ DOMAIN condition[i].args = {1, 2} /\ ops(i) \subseteq Terms
                  /\ condition[i].op = "==" => ops(i) # {"name"}
<1>1. /\ n \in Nat \ {0} /\ DOMAIN condition = 1..n /\ condition[n].op \in Tests
      /\ \A i \in 1..n : \A k \in DOMAIN condition[i].args : condition[i].args[k] \in 1..(i - 1)
      /\ \A i \in 1..n : i < n =>
            \E j \in (i + 1)..n : \E k \in DOMAIN condition[j].args : condition[j].args[k] = i
      /\ \A i \in 1..n : Shape(i)
    BY DEF Demanding
<1>2. Tests \cap Terms = {}
    BY DEF Tests, Terms, Computations
<1>3. \A i \in 1..n : w[i] = P!EvalNode(condition[i], args(i), context)
    BY <1>1, ValuesAre
<1>4. \A i \in 1..n : /\ DOMAIN args(i) = DOMAIN condition[i].args
                      /\ \A k \in DOMAIN args(i) : args(i)[k] = w[condition[i].args[k]]
    BY DEF Operands
<1>5. \A i \in 1..n : \A k \in DOMAIN condition[i].args : condition[condition[i].args[k]].op \in ops(i)
    OBVIOUS
<1>6. \A i \in 1..n : \A k \in DOMAIN condition[i].args :
          condition[condition[i].args[k]].op = "name" \/ ops(i) # {"name"}
    OBVIOUS
<1>7. \A i \in 1..n : condition[i].op = "==" => \E k \in {1, 2} : condition[condition[i].args[k]].op # "name"
    <2> SUFFICES ASSUME NEW i \in 1..n, condition[i].op = "=="
                 PROVE  \E k \in {1, 2} : condition[condition[i].args[k]].op # "name"
        OBVIOUS
    <2> HIDE DEF ops
    <2>1. Shape(i)
        BY <1>1
    <2>2. DOMAIN condition[i].args = {1, 2} /\ ops(i) # {"name"}
        BY <2>1 DEF Tests, Computations
    <2>3. ops(i) = {condition[condition[i].args[1]].op, condition[condition[i].args[2]].op}
        BY <2>2 DEF ops
    <2> QED
        BY <2>2, <2>3
<1>8. P!IsTrue(w[n])
    OBVIOUS
<1> HIDE DEF w, args, ops
<1>15. \A i \in 1..n : /\ condition[i].op = "neg" => DOMAIN args(i) = {1}
                       /\ condition[i].op \in Computations => DOMAIN args(i) = {1, 2}
                       /\ condition[i].op \in {"div", "mod"} => args(i)[2] # P!Number(0)
    <2> SUFFICES ASSUME NEW i \in 1..n
                 PROVE  /\ condition[i].op = "neg" => DOMAIN args(i) = {1}
                        /\ condition[i].op \in Computations => DOMAIN args(i) = {1, 2}
                        /\ condition[i].op \in {"div", "mod"} => args(i)[2] # P!Number(0)
        OBVIOUS
    <2>1. /\ condition[i].op = "neg" => DOMAIN args(i) = {1}
          /\ condition[i].op \in Computations => DOMAIN args(i) = {1, 2}
        BY <1>1, <1>4 DEF Terms, Tests, Computations
    <2>2. ASSUME condition[i].op \in {"div", "mod"} PROVE args(i)[2] # P!Number(0)
        <3> DEFINE j == condition[i].args[2]
        <3>1. 2 \in DOMAIN condition[i].args /\ NonZero(condition[j])
            BY <1>1, <2>2 DEF Tests, Computations
        <3>2. j \in 1..n /\ args(i)[2] = w[j]
            BY <1>1, <1>4, <3>1
        <3>3. w[j] = P!Number(condition[j].n) /\ condition[j].n # 0
            BY <1>3, <3>1, <3>2 DEF NonZero, P!EvalNode
        <3> QED
            BY <3>2, <3>3 DEF P!Number
    <2> QED
        BY <2>1, <2>2
<1>9. \A i \in 1..n : condition[i].op \in Terms \ {"name"} => w[i] = P!Raises \/ P!IsNumber(w[i])
    <2> SUFFICES ASSUME NEW i \in 1..n, condition[i].op \in Terms \ {"name"}
                 PROVE  w[i] = P!Raises \/ P!IsNumber(w[i])
        OBVIOUS
    <2> QED
        BY <1>3, <1>15, TermIs
<1>10. ASSUME NEW i \in 1..n, Holds(i), NEW k \in DOMAIN condition[i].args
       PROVE  Holds(condition[i].args[k])
    <2> DEFINE j == condition[i].args[k]
               node == condition[i]
    <2>1. j \in 1..n /\ condition[j].op \in ops(i) /\ args(i)[k] = w[j] /\ k \in DOMAIN args(i)
        BY <1>1, <1>4, <1>5
    <2>2. CASE node.op = "and"
        <3>1. P!IsTrue(P!EvalNode(node, args(i), context))
            BY <1>3, <1>10, <2>2 DEF Tests
        <3>2. P!IsTrue(w[j])
            BY <2>1, <2>2, <3>1, AndIs
        <3>3. condition[j].op \in Tests
            BY <1>1, <2>1, <2>2 DEF Tests, Computations
        <3> QED
            BY <1>2, <3>2, <3>3
    <2>3. CASE node.op \in {"neg"} \cup Computations
        <3>1. P!IsNumber(P!EvalNode(node, args(i), context))
            BY <1>3, <1>10, <2>3 DEF Terms
        <3>2. /\ node.op = "neg" => DOMAIN args(i) = {1}
              /\ node.op \in Computations => DOMAIN args(i) = {1, 2}
              /\ node.op \in {"div", "mod"} => args(i)[2] # P!Number(0)
            BY <1>15
        <3>3. node.op \in Terms
            BY <2>3 DEF Terms
        <3>4. P!IsNumber(args(i)[k])
            BY <2>1, <2>3, <3>1, <3>2, <3>3, TermIs
        <3>5. condition[j].op \in Terms
            BY <1>1, <2>1, <2>3 DEF Tests, Computations
        <3> QED
            BY <1>2, <2>1, <3>4, <3>5
    <2>4. CASE node.op \in Tests \ {"and"}
        <3>1. P!IsTrue(P!EvalNode(node, args(i), context))
            BY <1>3, <1>10, <2>4
        <3>2. DOMAIN condition[i].args = {1, 2} /\ ops(i) \subseteq Terms
            BY <1>1, <2>4 DEF Tests, Computations
        <3>3. DOMAIN args(i) = {1, 2}
            BY <1>4, <3>2
        <3>4. node.op \in {"==", "<", "<=", ">", ">="}
            BY <2>4 DEF Tests
        <3>5. /\ args(i)[1] # P!Raises /\ args(i)[2] # P!Raises
              /\ node.op = "==" => args(i)[1] = args(i)[2]
              /\ node.op # "==" => P!IsNumber(args(i)[1]) /\ P!IsNumber(args(i)[2])
            BY <3>1, <3>3, <3>4, ComparisonIs
        <3>6. condition[j].op \in Terms
            BY <2>1, <3>2
        <3>7. CASE node.op # "=="
            BY <1>2, <2>1, <3>2, <3>5, <3>6, <3>7
        <3>8. CASE node.op = "=="
            <4>1. PICK l \in {1, 2} : condition[condition[i].args[l]].op # "name"
                BY <1>7, <3>8
            <4>2. condition[i].args[l] \in 1..n /\ condition[condition[i].args[l]].op \in Terms
                BY <1>1, <1>5, <3>2
            <4>3. args(i)[l] = w[condition[i].args[l]]
                BY <1>4, <3>3
            <4>4. args(i)[l] = P!Raises \/ P!IsNumber(args(i)[l])
                BY <1>9, <4>1, <4>2, <4>3
            <4>5. args(i)[k] = args(i)[l] /\ args(i)[l] # P!Raises
                BY <3>2, <3>5, <3>8
            <4> QED
                BY <1>2, <2>1, <3>6, <4>4, <4>5
        <3> QED
            BY <3>7, <3>8
    <2>5. CASE node.op \in {"name", "const"}
        <3>1. node.args = << >>
            BY <1>1, <2>5 DEF Tests, Computations
        <3> QED
            BY <3>1, <1>10
    <2> QED
        BY <1>1, <2>2, <2>3, <2>4, <2>5
<1>16. \A i \in 1..n : i # n =>
           \E j \in (i + 1)..n : \E k \in DOMAIN condition[j].args : condition[j].args[k] = i
    <2> HIDE DEF Shape
    <2> QED
        BY <1>1
<1>11. 0 \in N
    <2>1. \A i \in 1..n : n - i <= 0 => i = n
        BY <1>1
    <2>2. Holds(n)
        BY <1>1, <1>2, <1>8
    <2> QED
        BY <2>1, <2>2
<1>12. ASSUME NEW m \in Nat, m \in N PROVE m + 1 \in N
    <2> SUFFICES ASSUME NEW i \in 1..n, n - i <= m + 1 PROVE Holds(i)
        OBVIOUS
    <2>1. CASE i = n
        BY <1>1, <1>2, <1>8, <2>1
    <2>2. CASE i # n
        <3>1. PICK j \in (i + 1)..n : \E k \in DOMAIN condition[j].args : condition[j].args[k] = i
            BY <1>16, <2>2
        <3>2. j \in 1..n /\ n - j <= m
            BY <1>1
        <3> HIDE DEF Holds
        <3>3. Holds(j)
            BY <1>12, <3>2
        <3> QED
            BY <1>10, <3>1, <3>2, <3>3
    <2> QED
        BY <2>1, <2>2
<1> HIDE DEF N
<1>13. \A m \in Nat : m \in N
    BY <1>11, <1>12, AllNumbers
<1>14. \A i \in 1..n : Holds(i)
    <2> SUFFICES ASSUME NEW i \in 1..n PROVE Holds(i)
        OBVIOUS
    <2>1. n - i \in Nat /\ n - i <= n - i
        BY <1>1
    <2> QED
        BY <1>13, <2>1 DEF N
<1> QED
    BY <1>14 DEF w

LEMMA AllMeasured ==
    ASSUME NEW condition, NEW context, Demanding(condition),
           P!IsTrue(P!EvaluateExpression(condition, context)), NEW id \in P!Names(condition)
    PROVE  id \in DOMAIN context /\ context[id] # P!Nothing
<1> DEFINE n == Len(condition)
           w == P!Values(condition, context)
<1>1. /\ n \in Nat \ {0} /\ DOMAIN condition = 1..n
      /\ \A i \in 1..n : \A k \in DOMAIN condition[i].args : condition[i].args[k] \in 1..(i - 1)
    BY DEF Demanding
<1>2. P!IsTrue(w[n])
    BY TruthIs DEF P!EvaluateExpression
<1> HIDE DEF w, n
<1>3. PICK i \in 1..n : condition[i].op = "name" /\ condition[i].id = id
    BY <1>1 DEF P!Names
<1>4. P!IsNumber(w[i])
    BY <1>2, <1>3, AllHold DEF Terms, n, w
<1>5. w[i] = P!EvalNode(condition[i], Operands(condition, i, w), context)
    BY <1>1, ValuesAre DEF w
<1>6. w[i] = P!Lookup(context, id)
    BY <1>3, <1>5 DEF P!EvalNode
<1>7. ~P!IsNumber(P!Nothing)
    BY DEF P!IsNumber, P!Nothing
<1> QED
    BY <1>4, <1>6, <1>7 DEF P!Lookup

LEMMA CmpDemands ==
    ASSUME NEW id, NEW op \in {"==", "<=", ">="}, NEW k
    PROVE  Demanding(P!Cmp(id, op, k))
<1> DEFINE c == P!Cmp(id, op, k)
<1>1. /\ Len(c) = 3 /\ DOMAIN c = 1..3
      /\ c[1].op = "name" /\ c[1].args = << >>
      /\ c[2].op = "const" /\ c[2].args = << >>
      /\ c[3].op = op /\ c[3].args = <<1, 2>>
    BY DEF P!Cmp, P!Name, P!Const
<1> HIDE DEF c
<1>2. \A i \in 1..3 : i = 1 \/ i = 2 \/ i = 3
    OBVIOUS
<1>3. DOMAIN c[1].args = {} /\ DOMAIN c[2].args = {} /\ DOMAIN c[3].args = {1, 2}
    BY <1>1
<1>4. {c[c[3].args[j]].op : j \in DOMAIN c[3].args} = {"name", "const"}
    BY <1>1, <1>3
<1>5. \A i \in 1..3 : \A j \in DOMAIN c[i].args : c[i].args[j] \in 1..(i - 1)
    BY <1>1, <1>2, <1>3
<1>6. \A i \in 1..3 : i < 3 => \E j \in (i + 1)..3 : \E l \in DOMAIN c[j].args : c[j].args[l] = i
    BY <1>1, <1>2, <1>3
<1> QED
    BY <1>1, <1>2, <1>3, <1>4, <1>5, <1>6 DEF Demanding, Tests, Terms, Computations, c

LEMMA BothDemand ==
    ASSUME NEW id, NEW op \in {"==", "<=", ">="}, NEW k,
           NEW other, NEW op2 \in {"==", "<=", ">="}, NEW k2
    PROVE  Demanding(P!Both(id, op, k, other, op2, k2))
<1> DEFINE c == P!Both(id, op, k, other, op2, k2)
<1>1. /\ Len(c) = 7 /\ DOMAIN c = 1..7
      /\ c[1].op = "name" /\ c[1].args = << >>
      /\ c[2].op = "const" /\ c[2].args = << >>
      /\ c[3].op = op /\ c[3].args = <<1, 2>>
      /\ c[4].op = "name" /\ c[4].args = << >>
      /\ c[5].op = "const" /\ c[5].args = << >>
      /\ c[6].op = op2 /\ c[6].args = <<4, 5>>
      /\ c[7].op = "and" /\ c[7].args = <<3, 6>>
    BY DEF P!Both, P!Name, P!Const
<1> HIDE DEF c
<1>2. \A i \in 1..7 : i = 1 \/ i = 2 \/ i = 3 \/ i = 4 \/ i = 5 \/ i = 6 \/ i = 7
    OBVIOUS
<1>3. /\ DOMAIN c[1].args = {} /\ DOMAIN c[2].args = {} /\ DOMAIN c[3].args = {1, 2}
      /\ DOMAIN c[4].args = {} /\ DOMAIN c[5].args = {} /\ DOMAIN c[6].args = {1, 2}
      /\ DOMAIN c[7].args = {1, 2}
    BY <1>1
<1>4. /\ {c[c[3].args[j]].op : j \in DOMAIN c[3].args} = {"name", "const"}
      /\ {c[c[6].args[j]].op : j \in DOMAIN c[6].args} = {"name", "const"}
      /\ {c[c[7].args[j]].op : j \in DOMAIN c[7].args} = {op, op2}
    BY <1>1, <1>3
<1>5. \A i \in 1..7 : \A j \in DOMAIN c[i].args : c[i].args[j] \in 1..(i - 1)
    BY <1>1, <1>2, <1>3
<1>6. \A i \in 1..7 : i < 7 => \E j \in (i + 1)..7 : \E l \in DOMAIN c[j].args : c[j].args[l] = i
    <2>1. c[3].args[1] = 1 /\ c[3].args[2] = 2 /\ c[7].args[1] = 3
        BY <1>1
    <2>2. c[6].args[1] = 4 /\ c[6].args[2] = 5 /\ c[7].args[2] = 6
        BY <1>1
    <2> SUFFICES ASSUME NEW i \in 1..7, i < 7
                 PROVE \E j \in (i + 1)..7 : \E l \in DOMAIN c[j].args : c[j].args[l] = i
        OBVIOUS
    <2>3. CASE i = 1 \/ i = 2
        BY <2>1, <2>3, <1>3
    <2>4. CASE i = 4 \/ i = 5
        BY <2>2, <2>4, <1>3
    <2>5. CASE i = 3 \/ i = 6
        BY <2>1, <2>2, <2>5, <1>3
    <2> QED
        BY <1>2, <2>3, <2>4, <2>5
<1> DEFINE ops(i) == {c[c[i].args[j]].op : j \in DOMAIN c[i].args}
           Shape(i) ==
               \/ c[i].op \in {"name", "const"} /\ c[i].args = << >>
               \/ c[i].op = "neg" /\ DOMAIN c[i].args = {1} /\ ops(i) \subseteq Terms
               \/ /\ c[i].op \in Computations /\ DOMAIN c[i].args = {1, 2} /\ ops(i) \subseteq Terms
                  /\ c[i].op \in {"div", "mod"} => NonZero(c[c[i].args[2]])
               \/ c[i].op = "and" /\ ops(i) \subseteq Tests
               \/ /\ c[i].op \in Tests \ {"and"} /\ DOMAIN c[i].args = {1, 2} /\ ops(i) \subseteq Terms
                  /\ c[i].op = "==" => ops(i) # {"name"}
<1>7. Shape(1) /\ Shape(2) /\ Shape(4) /\ Shape(5)
    BY <1>1
<1>8. Shape(3) /\ Shape(6) /\ Shape(7)
    <2>1. {op, op2} \subseteq Tests \ {"and"} /\ {"name", "const"} \subseteq Terms /\ {"name", "const"} # {"name"}
        BY DEF Tests, Terms
    <2>2. ops(3) = {"name", "const"} /\ ops(6) = {"name", "const"} /\ ops(7) = {op, op2}
        BY <1>4
    <2> HIDE DEF ops
    <2> QED
        BY <1>1, <1>3, <2>1, <2>2
<1> HIDE DEF Shape
<1>9. \A i \in 1..7 : Shape(i)
    BY <1>2, <1>7, <1>8
<1>10. c[7].op \in Tests
    BY <1>1 DEF Tests
<1> DEFINE Upto(n) ==
               /\ n \in Nat \ {0} /\ DOMAIN c = 1..n /\ c[n].op \in Tests
               /\ \A i \in 1..n :
                    /\ \A j \in DOMAIN c[i].args : c[i].args[j] \in 1..(i - 1)
                    /\ i < n => \E j \in (i + 1)..n : \E l \in DOMAIN c[j].args : c[j].args[l] = i
                    /\ Shape(i)
<1>11. Upto(7)
    BY <1>1, <1>5, <1>6, <1>9, <1>10
<1>12. Demanding(c) <=> Upto(Len(c))
    BY Zenon DEF Demanding, Shape, ops
<1> HIDE DEF Upto
<1>13. Demanding(c)
    BY <1>1, <1>11, <1>12
<1> QED
    BY <1>13 DEF c

LEMMA DefaultsDemand ==
    /\ IsFiniteSet(DOMAIN P!DefaultEnterpriseRules)
    /\ \A rule \in Defaults : Demanding(rule.condition)
<1> DEFINE d == P!DefaultEnterpriseRules
           ids == {"IAM1", "IAM2", "IAM3", "LOG1"} \cup {"LOG2", "NET1", "CRY1", "CRY2"}
                  \cup {"VCS1", "VCS2", "RES1", "RES2"}
<1>1. DOMAIN d = ids
    BY DEF P!DefaultEnterpriseRules
<1>2. ASSUME NEW target, NEW severity, NEW condition
      PROVE  P!PolicyRule(target, severity, condition).condition = condition
    BY DEF P!PolicyRule
<1>3. /\ d["IAM1"].condition = P!Cmp("mfa_enforced_percentage", ">=", 100)
      /\ d["IAM2"].condition = P!Cmp("orphaned_accounts", "==", 0)
      /\ d["IAM3"].condition = P!Cmp("review_days", "<=", 90)
      /\ d["LOG1"].condition = P!Both("log_streams", ">=", 1, "completeness", ">=", 95)
      /\ d["LOG2"].condition = P!Cmp("retention_days", ">=", 365)
      /\ d["NET1"].condition = P!Cmp("open_sgs", "==", 0)
    BY <1>2 DEF P!DefaultEnterpriseRules
<1>4. /\ d["CRY1"].condition = P!Both("unencrypted_stores", "==", 0, "at_rest_pct", ">=", 100)
      /\ d["CRY2"].condition = P!Cmp("transit_pct", ">=", 100)
      /\ d["VCS1"].condition = P!Both("branch_protection_enforced", "==", 1, "required_approvals", ">=", 1)
      /\ d["VCS2"].condition = P!Cmp("critical_vulnerabilities", "==", 0)
      /\ d["RES1"].condition = P!Cmp("success_24h", ">=", 1)
      /\ d["RES2"].condition = P!Cmp("restore_tested_90d", "==", 1)
    BY <1>2 DEF P!DefaultEnterpriseRules
<1> HIDE DEF d
<1>5. /\ Demanding(d["IAM1"].condition) /\ Demanding(d["IAM2"].condition) /\ Demanding(d["IAM3"].condition)
      /\ Demanding(d["LOG2"].condition) /\ Demanding(d["NET1"].condition)
    BY <1>3, CmpDemands
<1>6. /\ Demanding(d["CRY2"].condition) /\ Demanding(d["VCS2"].condition)
      /\ Demanding(d["RES1"].condition) /\ Demanding(d["RES2"].condition)
    BY <1>4, CmpDemands
<1>7. Demanding(d["LOG1"].condition)
    BY <1>3, BothDemand
<1>8. Demanding(d["CRY1"].condition) /\ Demanding(d["VCS1"].condition)
    BY <1>4, BothDemand
<1>9. \A rule \in Defaults : Demanding(rule.condition)
    BY <1>1, <1>5, <1>6, <1>7, <1>8 DEF Defaults, d
<1>10. IsFiniteSet(ids)
    <2>1. /\ IsFiniteSet({"IAM1", "IAM2", "IAM3", "LOG1"}) /\ IsFiniteSet({"LOG2", "NET1", "CRY1", "CRY2"})
          /\ IsFiniteSet({"VCS1", "VCS2", "RES1", "RES2"})
        BY ListsAreFinite
    <2>2. IsFiniteSet({"IAM1", "IAM2", "IAM3", "LOG1"} \cup {"LOG2", "NET1", "CRY1", "CRY2"})
        BY <2>1, FS_Union
    <2> QED
        BY <2>1, <2>2, FS_Union
<1> QED
    BY <1>1, <1>9, <1>10 DEF d

(* Some set of numbers has a least one. *)
LEMMA LeastExists ==
    ASSUME NEW part \in SUBSET Nat, part # {}
    PROVE  \E x \in part : \A y \in part : x <= y
<1> DEFINE rest == OpToRel(<, Nat)
<1>1. IsWellFoundedOn(rest, Nat)
    BY NatLessThanWellFounded
<1>2. \A x, y \in Nat : <<y, x>> \in rest <=> y < x
    BY DEF OpToRel
<1> HIDE DEF rest
<1>3. PICK x \in part : \A y \in part : ~ (<<y, x>> \in rest)
    BY <1>1, WFMin
<1>4. \A y \in part : x <= y
    <2> SUFFICES ASSUME NEW y \in part PROVE x <= y
        OBVIOUS
    <2>1. x \in Nat /\ y \in Nat /\ ~(y < x)
        BY <1>2, <1>3
    <2> QED
        BY <2>1
<1> QED
    BY <1>4

LEMMA RulesAreFinite ==
    ASSUME NEW file \in RuleFiles
    PROVE  IsFiniteSet(DOMAIN P!LoadRulesFromFile(P!DefaultEnterpriseRules, file).rules)
<1> DEFINE bad == {i \in DOMAIN file : file[i][1] = "broken"}
           first == CHOOSE i \in bad : \A j \in bad : i <= j
           upto == IF bad = {} THEN Len(file) ELSE first - 1
           loaded == {file[i][1] : i \in 1..upto}
<1>1. Len(file) \in Nat /\ bad \in SUBSET Nat
    BY RuleFilesAssumption
<1> HIDE DEF bad
<1>2. bad # {} => first \in bad
    <2> SUFFICES ASSUME bad # {} PROVE first \in bad
        OBVIOUS
    <2>1. \E i \in bad : \A j \in bad : i <= j
        BY <1>1, LeastExists
    <2> QED
        BY <2>1
<1> HIDE DEF bad, first
<1>3. upto \in Int
    <2>1. Len(file) \in Int
        BY <1>1
    <2>2. bad # {} => first \in Nat
        BY <1>1, <1>2
    <2>3. bad # {} => first - 1 \in Int
        BY <2>2
    <2> QED
        BY <2>1, <2>3
<1>4. DOMAIN P!LoadRulesFromFile(P!DefaultEnterpriseRules, file).rules
          = loaded \cup DOMAIN P!DefaultEnterpriseRules
    BY DEF P!LoadRulesFromFile, bad, first
<1> HIDE DEF upto
<1>5. IsFiniteSet(1..upto)
    BY <1>3, FS_Interval
<1> DEFINE f == [i \in 1..upto |-> file[i][1]]
<1>6. f \in Surjection(1..upto, loaded)
    BY DEF Surjection
<1>7. IsFiniteSet(loaded)
    BY <1>5, <1>6, FS_Surjection
<1> HIDE DEF loaded
<1> QED
    BY <1>4, <1>7, DefaultsDemand, FS_Union

LEMMA StatusIs ==
    ASSUME NEW rule, NEW metrics
    PROVE  /\ P!RuleStatus(rule, metrics) \in {"SKIPPED", "ERROR", "PASS", "FAIL"}
           /\ P!RuleStatus(rule, metrics) = "SKIPPED" => rule.target \notin DOMAIN metrics
           /\ P!RuleStatus(rule, metrics) = "PASS" =>
                 /\ rule.target \in DOMAIN metrics
                 /\ P!IsTrue(P!EvaluateExpression(rule.condition, metrics[rule.target]))
    BY DEF P!RuleStatus

(* A report of finitely many rules: exit code 0 leaves none that failed. *)
LEMMA ReportIs ==
    ASSUME NEW rules, IsFiniteSet(DOMAIN rules), NEW data
    PROVE  LET report  == P!EvaluateRules(rules, data)
               metrics == P!MetricsByTarget(data)
           IN  /\ DOMAIN report.results \subseteq DOMAIN rules
               /\ \A id \in DOMAIN report.results : report.results[id] = P!RuleStatus(rules[id], metrics)
               /\ P!PolicyExit(report) = 0 =>
                     \A id \in DOMAIN report.results : report.results[id] \notin {"FAIL", "ERROR"}
<1> DEFINE report == P!EvaluateRules(rules, data)
           metrics == P!MetricsByTarget(data)
           results == [id \in {r \in DOMAIN rules : rules[r].enabled} |-> P!RuleStatus(rules[id], metrics)]
           failed == {id \in DOMAIN results : results[id] \in {"FAIL", "ERROR"}}
<1>1. report.results = results /\ report.passed = (P!Cardinality(failed) = 0)
    BY DEF P!EvaluateRules
<1>2. P!Cardinality(failed) = Cardinality(failed)
    BY DEF P!Cardinality, Cardinality
<1>3. IsFiniteSet(failed)
    BY FS_Subset
<1>4. P!PolicyExit(report) = 0 => report.passed
    BY DEF P!PolicyExit
<1>5. DOMAIN results \subseteq DOMAIN rules /\ \A id \in DOMAIN results : results[id] = P!RuleStatus(rules[id], metrics)
    OBVIOUS
<1> HIDE DEF report, metrics, results
<1>6. P!PolicyExit(report) = 0 => failed = {}
    BY <1>1, <1>2, <1>3, <1>4, FS_EmptySet
<1>7. P!PolicyExit(report) = 0 => \A id \in DOMAIN results : results[id] \notin {"FAIL", "ERROR"}
    BY <1>6
<1> QED
    BY <1>1, <1>5, <1>7 DEF report, metrics

LEMMA MeasuredByPolicies == ASSUME Policies PROVE MissingNeverPasses
<1> SUFFICES ASSUME Judged("policy") PROVE MissingNeverPasses
    BY DEF MissingNeverPasses
<1>1. PICK file \in RuleFiles :
          LET rules  == P!LoadRulesFromFile(P!DefaultEnterpriseRules, file).rules
              report == P!EvaluateRules(rules, input)
          IN  verdict = [rules |-> rules, report |-> report, exit |-> P!PolicyExit(report)]
    BY DEF Policies
<1> DEFINE rules == P!LoadRulesFromFile(P!DefaultEnterpriseRules, file).rules
           report == P!EvaluateRules(rules, input)
           metrics == P!MetricsByTarget(input)
<1>2. verdict.rules = rules /\ verdict.report = report /\ verdict.exit = P!PolicyExit(report)
    BY <1>1
<1>3. IsFiniteSet(DOMAIN rules)
    BY RulesAreFinite
<1> HIDE DEF rules
<1>4. /\ DOMAIN report.results \subseteq DOMAIN rules
      /\ \A id \in DOMAIN report.results : report.results[id] = P!RuleStatus(rules[id], metrics)
      /\ P!PolicyExit(report) = 0 =>
            \A id \in DOMAIN report.results : report.results[id] \notin {"FAIL", "ERROR"}
    BY <1>3, ReportIs
<1> HIDE DEF report, metrics
<1>5. ASSUME NEW id \in DOMAIN report.results, report.results[id] = "PASS",
             rules[id] \in Defaults \/ Demanding(rules[id].condition),
             NEW n \in P!Names(rules[id].condition)
      PROVE  n \in DOMAIN metrics[rules[id].target] /\ metrics[rules[id].target][n] # P!Nothing
    <2>1. Demanding(rules[id].condition)
        BY <1>5, DefaultsDemand
    <2>2. P!IsTrue(P!EvaluateExpression(rules[id].condition, metrics[rules[id].target]))
        BY <1>4, <1>5, StatusIs
    <2> QED
        BY <2>1, <2>2, AllMeasured
<1>6. ASSUME NEW id \in DOMAIN report.results, P!PolicyExit(report) = 0, report.results[id] # "PASS"
      PROVE  rules[id].target \notin DOMAIN metrics
    BY <1>4, <1>6, StatusIs
<1> QED
    BY <1>2, <1>5, <1>6 DEF MissingNeverPasses, metrics

(***************************************************************************)
(* A default rule that passes, or one that asks for all it names, read     *)
(* metrics that were measured, every one of its condition, and exit code 0 *)
(* leaves no rule with metrics to read that did not pass                   *)
(* (policy/engine.py, and policy evaluate of cli.py).                      *)
(***************************************************************************)
THEOREM MissingIsNoPass == JudgingSpec => []MissingNeverPasses
<1>1. Verdicts => MissingNeverPasses
    BY MeasuredByPolicies DEF Verdicts
<1> QED
    BY <1>1, VerdictsHold, PTL
=============================================================================
