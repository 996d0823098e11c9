----------------------------- MODULE Collectors -----------------------------
(***************************************************************************)
(* What a collector makes of a provider's snapshot: the evidence of one    *)
(* control, with its metrics, its traffic light and its quality            *)
(* (collectors/, status.py, cloud.py, providers/_snapshot.py).             *)
(*                                                                         *)
(* A metric is a natural number; a percentage or a number of hours counts  *)
(* in thousandths.  None is the JSON null of something not measured, and   *)
(* what a missing field reads as.  Truth that may be unknown is "yes",     *)
(* "no" or "unknown".                                                      *)
(***************************************************************************)
EXTENDS Integers, Sequences, FiniteSets, FiniteSetsExt, Sums

None == -1
Unit == 1000
Measured(x) == x # None

(* dict.get *)
Get(m, field) == IF field \in DOMAIN m THEN m[field] ELSE None
Either(m, field, other) == IF field \in DOMAIN m THEN m[field] ELSE Get(m, other)

(* _to_int, _to_float, _safe_int and _safe_float *)
Number(x) == IF x = None THEN 0 ELSE x

-----------------------------------------------------------------------------
(***************************************************************************)
(* call_with_retry: outcomes[i] is how the i-th attempt would end, and     *)
(* there are as many as max_attempts.                                      *)
(***************************************************************************)
IsRetryableError(outcome) == outcome \in {"throttled", "unreachable"}

LastAttempt(outcomes) ==
    Min({i \in DOMAIN outcomes : ~IsRetryableError(outcomes[i]) \/ i = Len(outcomes)})

CallWithRetry(outcomes) == outcomes[LastAttempt(outcomes)]

(***************************************************************************)
(* AwsClients.call: a ClientError is written down and answered with        *)
(* nothing; any other error ends the whole snapshot (fetch_snapshot makes  *)
(* it a ProviderError when it is not one yet).                             *)
(***************************************************************************)
Call(outcomes) ==
    CASE CallWithRetry(outcomes) = "ok" -> "answered"
      [] CallWithRetry(outcomes) \in {"denied", "throttled"} -> "refused"
      [] OTHER -> "raised"

(* A call made without either: a ClientError other than an access denial raises, too. *)
CallOnce(outcomes) ==
    CASE outcomes[1] = "ok" -> "answered"
      [] outcomes[1] = "denied" -> "refused"
      [] OTHER -> "raised"

(* Mutant of CollectionQuality: one success is taken for a complete collection. *)
QualityIfAny(errors, attempted, succeeded) ==
    CASE attempted = 0 \/ succeeded = 0 -> "failed" [] OTHER -> "complete"

CollectionQuality(errors, attempted, succeeded) ==
    CASE attempted = 0 \/ (errors > 0 /\ succeeded = 0) -> "failed"
      [] attempted > 0 /\ errors > 0 /\ succeeded > 0 -> "partial"
      [] OTHER -> "complete"

FinalizeSnapshot(data, errors, attempted, succeeded) ==
    [data |-> data, errors |-> errors,
     quality |-> CollectionQuality(errors, attempted, succeeded)]

(***************************************************************************)
(* merge_results of snapshots that have no key in common but the numbers   *)
(* named in the data of each: the caller overwrites what it uses.          *)
(***************************************************************************)
MergeResults(snapshots, data) ==
    FinalizeSnapshot(data,
        Total([i \in DOMAIN snapshots |-> snapshots[i].errors], DOMAIN snapshots),
        Len(snapshots),
        Quantify(DOMAIN snapshots, LAMBDA i : snapshots[i].quality # "failed"))

(* A snapshot that raised. *)
Raised == [quality |-> "raised"]

-----------------------------------------------------------------------------
(* The traffic lights of status.py. *)
Light(red, yellow) == IF red THEN "red" ELSE IF yellow THEN "yellow" ELSE "green"

StatusIamAccessReview(m) ==
    LET orphaned == Get(m, "orphaned_accounts")
        days     == Get(m, "days_since_last_review")
    IN  Light(days > 90 \/ orphaned > 7,
              orphaned >= 3 \/ ~Measured(orphaned) \/ ~Measured(days))

StatusEncryption(m) ==
    Light(Get(m, "unencrypted_cui_count") > 0 \/ Get(m, "weak_cipher_endpoints") > 0,
          \/ Number(Get(m, "total_confidential_resources")) = 0
          \/ Number(Get(m, "tls_endpoints_checked")) = 0
          \/ Get(m, "keys_pending_rotation") > 0)

StatusLogging(m) ==
    LET coverage == Get(m, "log_coverage_percent")
        gap      == Get(m, "max_gap_hours")
    IN  Light(\/ Get(m, "critical_control_failures_30d") > 0
              \/ Measured(coverage) /\ coverage < 90 * Unit
              \/ gap > 24 * Unit,
              ~Measured(coverage) \/ ~Measured(gap) \/ coverage < 95 * Unit)

StatusConfigMfa(m) ==
    LET mfa == Get(m, "mfa_enforcement_percent") IN
    Light(Get(m, "weak_auth_methods") > 0 \/ (Measured(mfa) /\ mfa < 100 * Unit),
          ~Measured(mfa))

StatusChangeManagement(m) ==
    LET unapproved == Get(m, "unapproved_changes")
        pending    == Get(m, "changes_missing_rollback_test")
    IN  Light(unapproved > 0,
              pending > 0 \/ ~Measured(unapproved) \/ ~Measured(pending))

StatusRetention(m) ==
    LET overdue == Get(m, "objects_past_retention")
        missing == Get(m, "buckets_missing_lifecycle")
    IN  Light(overdue > 0, missing > 0 \/ (~Measured(overdue) /\ ~Measured(missing)))

StatusGenericPass(m) == Light(Get(m, "issues") > 0, Get(m, "warnings") > 0)

(***************************************************************************)
(* A control that another family of metrics belongs to is judged by the    *)
(* wrong function, and an unknown one is judged by issues and warnings.    *)
(***************************************************************************)
ResolveStatus(control, m) ==
    CASE control \in {"CC6.1", "CC6.3"} -> StatusIamAccessReview(m)
      [] control \in {"C1.1", "C1.2"} -> StatusEncryption(m)
      [] control = "CC6.2" -> StatusConfigMfa(m)
      [] control \in {"CC7.1", "CC7.2"} -> StatusLogging(m)
      [] control = "CC8.1" -> StatusChangeManagement(m)
      [] control = "C1.4" -> StatusRetention(m)
      [] OTHER -> StatusGenericPass(m)

WorstStatus(lights) == Light("red" \in lights, "yellow" \in lights)

-----------------------------------------------------------------------------
(* apply_collection_metadata *)
WithQuality(light, quality) ==
    CASE quality = "failed" -> "red"
      [] quality = "partial" /\ light = "green" -> "yellow"
      [] OTHER -> light

FailurePayload(control) ==
    [control |-> control, quality |-> "failed", status |-> "red",
     metrics |-> [collection_failed |-> TRUE]]

(* What each collector does with the snapshot it was given. *)
Payload(control, snap, light, metrics) ==
    IF snap = Raised THEN FailurePayload(control)
    ELSE [control |-> control, quality |-> snap.quality,
          status |-> WithQuality(light, snap.quality), metrics |-> metrics]

(* The metrics that go from the snapshot into the evidence as they are. *)
Keep(snap, fields) == [f \in fields |-> Get(snap.data, f)]

IamMetrics == {"orphaned_accounts", "days_since_last_review", "session_timeout_compliant"}

CollectIamAccessReview(control, snap) ==
    LET m == Keep(snap, IamMetrics)
    IN  Payload(control, snap, ResolveStatus(control, m), m)

ConfigMetrics ==
    {"mfa_enforcement_percent", "weak_auth_methods", "open_http_listeners", "unapproved_changes",
     "changes_missing_rollback_test", "config_noncompliant_resources", "issues", "warnings"}

CollectConfigDrift(control, snap) ==
    LET m == Keep(snap, ConfigMetrics)
    IN  Payload(control, snap, WorstStatus({StatusConfigMfa(m), StatusChangeManagement(m)}), m)

EncryptionMetrics ==
    {"total_confidential_resources", "encrypted_at_rest", "unencrypted_cui_count",
     "fips_compliant_keys", "keys_pending_rotation", "tls_endpoints_checked",
     "weak_cipher_endpoints"}

CollectEncryptionStatus(control, snap) ==
    LET m == Keep(snap, EncryptionMetrics)
    IN  Payload(control, snap, ResolveStatus(control, m), m)

LogMetrics ==
    {"active_trails", "log_coverage_percent", "max_gap_hours",
     "critical_control_failures_30d", "cui_retention_days"}

CollectLogAggregator(control, snap) ==
    LET m == Keep(snap, LogMetrics)
    IN  Payload(control, snap, ResolveStatus(control, m), m)

(* A snapshot's issues: a late restore test, no failover test, failed backups. *)
One(issue) == IF issue THEN 1 ELSE 0

ResilienceIssues(d) ==
    One(~Measured(d.last_restore_test_days_ago) \/ d.last_restore_test_days_ago > 90)
    + One(d.failover_test_passed # "yes")
    + One(d.backup_jobs_failed_30d > 0)

CollectResilienceTesting(control, snap) ==
    LET d == snap.data
        m == [issues |-> ResilienceIssues(d),
              failover_test_passed |-> d.failover_test_passed,
              last_backup_hours_ago |-> Get(d, "last_backup_hours_ago"),
              last_restore_test_days_ago |-> Get(d, "last_restore_test_days_ago"),
              backup_jobs_failed_30d |-> Get(d, "backup_jobs_failed_30d")]
    IN  Payload(control, snap, StatusGenericPass(m), m)

(* Every provider reports buckets or repositories: both are what was checked. *)
CollectRetentionCheck(control, snap) ==
    LET d == snap.data
        m == [repositories_checked |-> Get(d, "repositories_checked"),
              repositories_missing_lifecycle |-> Get(d, "repositories_missing_lifecycle"),
              buckets_missing_lifecycle |-> Get(d, "repositories_missing_lifecycle"),
              objects_past_retention |-> Get(d, "objects_past_retention")]
    IN  Payload(control, snap, ResolveStatus(control, m), m)

(***************************************************************************)
(* The Zero Trust gate: what was not measured fails its check.             *)
(***************************************************************************)
ZtChecks(d) ==
    [iam_review_current |-> Measured(d.iam_review_days_ago) /\ d.iam_review_days_ago <= 90,
     encryption_green |-> d.encryption_status = "green",
     mfa_enforced |-> d.mfa_enforcement_percent >= 100 * Unit,
     orphaned_within_threshold |-> Measured(d.orphaned_accounts) /\ d.orphaned_accounts <= 7,
     session_timeout_compliant |-> d.session_timeout_compliant = "yes"]

CollectZtContinuousVerification(control, snap) ==
    LET checks == ZtChecks(snap.data)
        failed == {c \in DOMAIN checks : ~checks[c]}
        m == [checks_passed |-> 5 - Cardinality(failed), checks_total |-> 5,
              issues |-> Cardinality(failed)]
    IN  Payload(control, snap, Light(Cardinality(failed) > 2, failed # {}), m)
=============================================================================
