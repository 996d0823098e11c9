------------------------------- MODULE Scoring -------------------------------
(***************************************************************************)
(* The scorecard (scoring.py): seven controls are scored from the metrics  *)
(* of their evidence, the controls make pillars, the pillars frameworks,   *)
(* and the frameworks one posture score (trust_center.py shows it).        *)
(*                                                                         *)
(* Scores are integers, in thousandths of a point; a share that does not   *)
(* come out even is rounded down to a thousandth.                          *)
(***************************************************************************)
EXTENDS Collectors

Full == 100 * Unit

(* Mutant of StatusOf: a score in the middle passes. *)
StatusAt70(score) == IF score >= 70 * Unit THEN "PASS" ELSE "PARTIAL"

StatusOf(score) ==
    CASE score >= 85 * Unit -> "PASS"
      [] score >= 50 * Unit /\ score < 85 * Unit -> "PARTIAL"
      [] OTHER -> "FAIL"

Least(a, b) == IF a <= b THEN a ELSE b
Clamp(score) == Max({0, Least(Full, score)})
Rule(broken, points) == IF broken THEN points * Unit ELSE 0

Control(id, status, score, quality) ==
    [id |-> id, status |-> status, score |-> score, quality |-> quality]

NoEvidence == [quality |-> "none"]

(***************************************************************************)
(* The frame of every _eval function: no evidence is not assessed, a       *)
(* failed collection fails, partial evidence caps the score at 70.         *)
(***************************************************************************)
Evaluate(id, evidence, Score(_)) ==
    LET raw    == Score(evidence.metrics)
        score  == Clamp(IF evidence.quality = "partial" THEN Least(70 * Unit, raw) ELSE raw)
    IN  CASE evidence.quality = "none" -> Control(id, "NOT_ASSESSED", 0, "none")
          [] evidence.quality = "failed" -> Control(id, "FAIL", 0, "failed")
          [] OTHER -> Control(id, StatusOf(score), score, evidence.quality)

-----------------------------------------------------------------------------
IamScore(m) ==
    LET mfa == Number(Either(m, "mfa_enforced_percentage", "mfa_enforcement_percent")) IN
    Full
    - Least(30 * Unit, 5 * Unit * Number(Get(m, "orphaned_accounts")))
    - (IF mfa < Full THEN Least(40 * Unit, (8 * (Full - mfa)) \div 10) ELSE 0)
    - Rule(Get(m, "days_since_last_review") > 90, 20)

LoggingScore(m) ==
    LET complete  == Number(Either(m, "critical_events_logged_percentage", "log_coverage_percent"))
        retention == Number(Either(m, "retention_days", "cui_retention_days"))
    IN  Full
        - Rule(Number(Either(m, "log_streams_active", "active_trails")) = 0, 50)
        - (IF complete < 95 * Unit
           THEN Least(40 * Unit, (15 * (95 * Unit - complete)) \div 10) ELSE 0)
        - Rule(retention < 365, 20)
        - Rule(Either(m, "longest_gap_hours", "max_gap_hours") > 24 * Unit, 20)

(* The share of drifted resources counts only where resources were counted. *)
ConfigScore(m) ==
    LET evaluated == Number(Get(m, "resources_evaluated"))
        drifted   == Number(Either(m, "drifted_resources", "config_noncompliant_resources"))
    IN  Full
        - Rule(evaluated = 0, 50)
        - Least(40 * Unit, 20 * Unit * Number(Either(m, "open_security_groups", "open_http_listeners")))
        - Least(30 * Unit, 15 * Unit * Number(Either(m, "unapproved_changes_detected", "unapproved_changes")))
        - (IF evaluated > 0 THEN Least(30 * Unit, (50 * Unit * drifted) \div evaluated) ELSE 0)

EncryptionScore(m) ==
    LET total   == Number(Get(m, "total_confidential_resources"))
        stated  == "encrypted_at_rest_percentage" \in DOMAIN m
        atRest  == IF stated THEN Number(m.encrypted_at_rest_percentage)
                   ELSE IF total > 0 THEN (Full * Number(Get(m, "encrypted_at_rest"))) \div total
                   ELSE 0
        tls     == Get(m, "tls_enforced_percentage")
        transit == IF Measured(tls) THEN tls
                   ELSE IF Number(Get(m, "weak_cipher_endpoints")) = 0 /\ total > 0 THEN Full
                   ELSE 0
        fips    == IF Measured(Get(m, "fips_compliant_algorithms"))
                   THEN m.fips_compliant_algorithms > 0
                   ELSE Get(m, "fips_compliant_keys") > 0
        stores  == Number(Either(m, "unencrypted_data_stores", "unencrypted_cui_count"))
    IN  Full
        - Rule(total = 0 /\ ~stated, 40)
        - Least(50 * Unit, 25 * Unit * stores)
        - (IF atRest < Full THEN (4 * (Full - atRest)) \div 10 ELSE 0)
        - (IF transit < Full THEN (4 * (Full - transit)) \div 10 ELSE 0)
        - Rule(~fips, 10)

(* Mutant of RetentionScore: the share is that of the repositories that comply. *)
RetentionScoreSwapped(m) ==
    LET repos == Number(Get(m, "repositories_checked"))
        fit   == Max({0, repos - Number(Get(m, "repositories_missing_lifecycle"))})
    IN  Full - (IF repos > 0 /\ fit < repos THEN (7 * ((Full * fit) \div repos)) \div 10 ELSE 0)

(* repositories_checked stands for the names it goes by in older evidence. *)
RetentionScore(m) ==
    LET overdue == Number(Get(m, "objects_past_retention"))
        repos   == Number(Get(m, "repositories_checked"))
        missing == Number(Get(m, "repositories_missing_lifecycle"))
        fit     == IF "compliant_repositories" \in DOMAIN m
                   THEN Number(m.compliant_repositories) ELSE Max({0, repos - missing})
        deleted == IF "deletion_certificates_valid" \in DOMAIN m
                   THEN m.deletion_certificates_valid > 0 ELSE repos > 0 /\ overdue = 0
    IN  Full
        - Rule(repos = 0, 40)
        - Least(40 * Unit, 10 * Unit * overdue)
        - (IF repos > 0 /\ fit < repos
           THEN (7 * (Full - (Full * fit) \div repos)) \div 10 ELSE 0)
        - Rule(~deleted, 20)

ResilienceScore(m) ==
    LET hours    == Get(m, "last_backup_hours_ago")
        success  == IF "successful_backups_24h" \in DOMAIN m THEN Number(m.successful_backups_24h)
                    ELSE One(Measured(hours) /\ hours <= 24 * Unit)
        jobs     == IF "successful_backups_24h" \in DOMAIN m
                    THEN IF Measured(Get(m, "backup_jobs_evaluated"))
                         THEN m.backup_jobs_evaluated ELSE success
                    ELSE One(Measured(hours))
        restore  == Get(m, "last_restore_test_days_ago")
        restored == IF "restore_tested_90d" \in DOMAIN m THEN m.restore_tested_90d > 0
                    ELSE Measured(restore) /\ restore <= 90
    IN  Full
        - Rule(jobs = 0 \/ success = 0, 40)
        - Rule(success # 0 /\ success < jobs, 20)
        - Least(25 * Unit, 5 * Unit * Number(Get(m, "backup_jobs_failed_30d")))
        - Rule(~restored, 30)
        - Rule(Get(m, "rto_target_met") = 0, 15)
        - Rule(Get(m, "rpo_target_met") = 0, 15)

(* Evidence without counted checks is scored by the four flags it has, or its maturity. *)
ZtFlags == {"identity_verified", "device_health_checked", "least_privilege_enforced",
            "continuous_monitoring_active"}

ZeroTrustScore(m) ==
    LET total == Number(Get(m, "checks_total"))
        flags == Quantify(ZtFlags, LAMBDA f : Get(m, f) > 0)
    IN  CASE total > 0 -> (Full * Number(Get(m, "checks_passed"))) \div total
          [] total = 0 /\ flags > 0 -> 25 * Unit * flags
          [] OTHER -> 25 * Number(Get(m, "zt_maturity_score"))

EvalIam(e) == Evaluate("CC6.1", e, IamScore)
EvalLogging(e) == Evaluate("CC7.1", e, LoggingScore)
EvalConfigDrift(e) == Evaluate("CC6.2", e, ConfigScore)
EvalEncryption(e) == Evaluate("C1.2", e, EncryptionScore)
EvalRetention(e) == Evaluate("C1.4", e, RetentionScore)
EvalResilience(e) == Evaluate("A1.2", e, ResilienceScore)
EvalZeroTrust(e) == Evaluate("ZT-1", e, ZeroTrustScore)

Scored == <<"CC6.1", "CC7.1", "CC6.2", "C1.2", "C1.4", "A1.2", "ZT-1">>

Eval(control, e) ==
    CASE control = "CC6.1" -> EvalIam(e)
      [] control = "CC7.1" -> EvalLogging(e)
      [] control = "CC6.2" -> EvalConfigDrift(e)
      [] control = "C1.2" -> EvalEncryption(e)
      [] control = "C1.4" -> EvalRetention(e)
      [] control = "A1.2" -> EvalResilience(e)
      [] control = "ZT-1" -> EvalZeroTrust(e)

-----------------------------------------------------------------------------
(***************************************************************************)
(* _read_evidence_dir, for a tree date |-> (control |-> evidence): the     *)
(* directory asked for, or the one whose name is the greatest.  Order lists*)
(* the names; "" stands for no date.                                       *)
(***************************************************************************)
ReadEvidenceDir(tree, order, date) ==
    LET there  == DOMAIN tree \ {"manifests"}
        latest == order[Max({i \in DOMAIN order : order[i] \in there})]
        chosen == IF date = "" THEN latest ELSE date
    IN  IF chosen \in DOMAIN tree /\ there # {}
        THEN [c \in {Scored[i] : i \in DOMAIN Scored} |->
                 IF c \in DOMAIN tree[chosen] THEN tree[chosen][c] ELSE NoEvidence]
        ELSE [c \in {Scored[i] : i \in DOMAIN Scored} |-> NoEvidence]

(***************************************************************************)
(* _compute_framework_summary, of the scores of the controls.              *)
(***************************************************************************)
RoundToTenth(score) == ((score + 50) \div 100) * 100
Mean(f, S) == Total(f, S) \div Cardinality(S)

(* Mutant of Readiness: its first threshold is that of substantial compliance. *)
ReadyAt80(overall) == IF overall >= 80 * Unit THEN "Audit Ready" ELSE "Remediation Required"

Readiness(overall) ==
    CASE overall >= 85 * Unit -> "Audit Ready"
      [] overall >= 70 * Unit /\ overall < 85 * Unit -> "Substantial Compliance"
      [] overall >= 50 * Unit /\ overall < 70 * Unit -> "Remediation Required"
      [] OTHER -> "Critical Gaps"

PillarScores(scores, pillars) ==
    [p \in DOMAIN pillars |-> RoundToTenth(Mean(scores, pillars[p]))]

FrameworkSummary(scores, pillars) ==
    LET pillar  == PillarScores(scores, pillars)
        overall == Mean(pillar, DOMAIN pillar)
    IN  [overall |-> RoundToTenth(overall), readiness |-> Readiness(overall), pillars |-> pillar]

Soc2 == [Security |-> {"CC6.1", "CC6.2", "CC7.1", "ZT-1"},
         Confidentiality |-> {"C1.2", "C1.4"}, Availability |-> {"A1.2"}]

Nist == [AC |-> {"CC6.1", "ZT-1"}, AU |-> {"CC7.1"}, CM |-> {"CC6.2"},
         SC |-> {"C1.2"}, MP |-> {"C1.4"}, CP |-> {"A1.2"}]

Cmmc == [AccessControl |-> {"CC6.1", "ZT-1"}, Identification |-> {"CC6.1", "CC6.2"},
         Audit |-> {"CC7.1"}, SystemIntegrity |-> {"CC6.2", "CC7.1"},
         DataProtection |-> {"C1.2", "C1.4"}, Recovery |-> {"A1.2"}]

ZeroTrust == [Identity |-> {"CC6.1", "ZT-1"}, Device |-> {"CC6.2", "ZT-1"},
              Network |-> {"CC6.2", "C1.2"}, Application |-> {"CC6.2", "CC7.1"},
              Data |-> {"C1.2", "C1.4"}, Visibility |-> {"CC7.1"},
              Automation |-> {"A1.2", "ZT-1"}]

Frameworks == [soc2 |-> Soc2, nist |-> Nist, cmmc |-> Cmmc, zt |-> ZeroTrust]

(* compute_compliance_scorecard, of the scores of the seven controls. *)
Scorecard(scores) ==
    LET summary == [f \in DOMAIN Frameworks |-> FrameworkSummary(scores, Frameworks[f])]
        percent == [soc2 |-> 35, nist |-> 25, cmmc |-> 25, zt |-> 15]
        weighted == [f \in DOMAIN summary |-> percent[f] * summary[f].overall]
    IN  [frameworks |-> summary,
         posture |-> RoundToTenth(Total(weighted, DOMAIN weighted) \div 100)]

(***************************************************************************)
(* The public profile of the trust center: the badges go by the rounded    *)
(* scores.                                                                 *)
(***************************************************************************)
Profile(card) ==
    [status |-> IF card.posture >= 85 * Unit THEN "ACTIVE_MONITORING" ELSE "REMEDIATION_REQUIRED",
     badges |-> {f \in DOMAIN Frameworks : card.frameworks[f].overall >= 85 * Unit}]
=============================================================================
