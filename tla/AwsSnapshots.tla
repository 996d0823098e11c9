---------------------------- MODULE AwsSnapshots ----------------------------
(***************************************************************************)
(* The snapshots of an AWS account (providers/aws/), each with the calls   *)
(* it makes.  A call is <<operation, resource>>; refused is the set of     *)
(* calls that end with an error that is written down (an access denial, or *)
(* throttling to the last attempt of a call that is retried).  A call that *)
(* fails in another way ends the snapshot: the caller passes Raised on     *)
(* instead.                                                                *)
(*                                                                         *)
(* An account is a record of functions and numbers, one field for each     *)
(* thing a snapshot looks at; the resources are the functions' domains.    *)
(***************************************************************************)
EXTENDS Collectors

Many(S) == Cardinality(S)

(* A share in thousandths of a percent, to a tenth of a percent. *)
RoundTenth(x) == ((x + 50) \div 100) * 100
Percent(part, whole) == (100 * Unit * part) \div whole

(* The snapshot made of data, when calls were made and extra errors noted. *)
Closed(data, made, refused, extra) ==
    FinalizeSnapshot(data, Many(made \cap refused) + extra, Many(made), Many(made \ refused))

(* The operations called without call_with_retry. *)
Unretried == {"credential_report", "bucket_encryption", "bucket_lifecycle"}

Each(operation, resources) == {<<operation, r>> : r \in resources}
List(operation) == <<operation, "all">>
(* The resources a listing shows. *)
Listed(operation, resources, refused) ==
    IF List(operation) \in refused THEN {} ELSE resources
Readable(operation, resources, refused) ==
    {r \in resources : <<operation, r>> \notin refused}

-----------------------------------------------------------------------------
(***************************************************************************)
(* iam_access_snapshot.  account.users: whether a user has an active key,  *)
(* and whether it was last used more than 90 days ago.  The date of the    *)
(* last access review is not in AWS.                                       *)
(***************************************************************************)
IamCalls(account, refused) ==
    LET users == Listed("list_users", DOMAIN account.users, refused)
        keyed == {u \in Readable("list_access_keys", users, refused) : account.users[u].key}
    IN  {List("list_users"), List("credential_report")}
        \cup Each("list_access_keys", users)
        \cup Each("access_key_last_used", keyed)
        \cup Each("attached_policies", users)

IamAccessSnapshot(account, refused) ==
    LET made     == IamCalls(account, refused)
        users    == Listed("list_users", DOMAIN account.users, refused)
        orphaned == {u \in users : /\ <<"access_key_last_used", u>> \in made \ refused
                                   /\ account.users[u].unused}
    IN  Closed([orphaned_accounts |-> Many(orphaned), days_since_last_review |-> None,
                total_identities |-> Many(users)],
               made, refused, 0)

(***************************************************************************)
(* encryption_snapshot.  account.buckets and account.dbs: encrypted or     *)
(* not; account.keys: the customer's enabled keys, whether they rotate and *)
(* have a FIPS key specification; account.certs: the certificates, which   *)
(* are looked at and count for nothing; account.balancers: "weak", "tls"   *)
(* or "plain", for the listener of each.  A bucket whose encryption may    *)
(* not be read counts as unencrypted, a key whose rotation may not be read *)
(* as one that does not rotate.                                            *)
(***************************************************************************)
EncryptionCalls(account, refused) ==
    LET keys == Listed("list_keys", DOMAIN account.keys, refused) IN
    {List("list_buckets"), List("describe_db"), List("list_keys"),
     List("list_certificates"), List("describe_balancers")}
    \cup Each("bucket_encryption", Listed("list_buckets", DOMAIN account.buckets, refused))
    \cup Each("describe_certificate", Listed("list_certificates", account.certs, refused))
    \cup Each("describe_key", keys)
    \cup Each("key_rotation", Readable("describe_key", keys, refused))
    \cup Each("listeners", Listed("describe_balancers", DOMAIN account.balancers, refused))

EncryptionSnapshot(account, refused) ==
    LET made    == EncryptionCalls(account, refused)
        buckets == Listed("list_buckets", DOMAIN account.buckets, refused)
        dbs     == Listed("describe_db", DOMAIN account.dbs, refused)
        known   == Readable("bucket_encryption", buckets, refused)
        bare    == Many({b \in buckets : b \notin known \/ ~account.buckets[b]})
                   + Many({d \in dbs : ~account.dbs[d]})
        total   == Many(buckets) + Many(dbs)
        keys    == {k \in DOMAIN account.keys : <<"key_rotation", k>> \in made}
        rotating == {k \in Readable("key_rotation", keys, refused) : account.keys[k].rotates}
        seen    == {b \in DOMAIN account.balancers : <<"listeners", b>> \in made \ refused}
    IN  Closed([total_confidential_resources |-> total,
                encrypted_at_rest |-> total - bare,
                unencrypted_cui_count |-> bare,
                fips_compliant_keys |-> Many({k \in rotating : account.keys[k].fips}),
                keys_pending_rotation |-> Many(keys \ rotating),
                tls_endpoints_checked |-> Many({b \in seen : account.balancers[b] # "plain"}),
                weak_cipher_endpoints |-> Many({b \in seen : account.balancers[b] = "weak"})],
               made, refused, 0)

(***************************************************************************)
(* log_monitoring_snapshot.  account.trails: whether a trail is logging    *)
(* and the hours since its last delivery, None without one.                *)
(***************************************************************************)
LoggingCalls(account, refused) ==
    {List("describe_trails"), List("config_recorders"), List("describe_log_groups"),
     List("lookup_events")}
    \cup Each("trail_status", Listed("describe_trails", DOMAIN account.trails, refused))

LogMonitoringSnapshot(account, refused) ==
    LET made   == LoggingCalls(account, refused)
        trails == Listed("describe_trails", DOMAIN account.trails, refused)
        known  == Readable("trail_status", trails, refused)
        active == {t \in known : account.trails[t].logging}
        gaps   == {account.trails[t].gap : t \in active} \ {None}
    IN  Closed([active_trails |-> Many(active),
                log_coverage_percent |->
                    IF trails = {} THEN None ELSE RoundTenth(Percent(Many(active), Many(trails))),
                max_gap_hours |-> IF gaps = {} THEN None ELSE Max(gaps),
                critical_control_failures_30d |-> Many(known \ active),
                cui_retention_days |-> None],
               made, refused, IF trails = {} THEN 1 ELSE 0)

(***************************************************************************)
(* config_and_auth_snapshot.  account.mfa: whether a user has an MFA       *)
(* device; account.http: open HTTP ports; account.listeners: whether a     *)
(* balancer's policy is weak; account.rules: what the rules on changes     *)
(* find non-compliant; account.noncompliant: the summary's count.  A user  *)
(* whose devices may not be read counts as one without.  That MFA is       *)
(* enforced, AWS does not say.                                             *)
(***************************************************************************)
ConfigCalls(account, refused) ==
    {List("list_users"), List("security_groups"), List("describe_balancers"),
     List("config_rules"), List("compliance_summary")}
    \cup Each("mfa_devices", Listed("list_users", DOMAIN account.mfa, refused))
    \cup Each("listeners", Listed("describe_balancers", DOMAIN account.listeners, refused))
    \cup Each("compliance", Listed("config_rules", DOMAIN account.rules, refused))

ConfigAndAuthSnapshot(account, refused) ==
    LET made  == ConfigCalls(account, refused)
        users == Listed("list_users", DOMAIN account.mfa, refused)
        safe  == {u \in Readable("mfa_devices", users, refused) : account.mfa[u]}
        rules == {r \in DOMAIN account.rules : <<"compliance", r>> \in made \ refused}
        weak  == {b \in DOMAIN account.listeners :
                     <<"listeners", b>> \in made \ refused /\ account.listeners[b]}
        http  == IF List("security_groups") \in refused THEN 0 ELSE account.http
        unapproved == Total(account.rules, rules)
    IN  Closed([mfa_enforcement_percent |-> None,
                weak_auth_methods |-> Many(users \ safe),
                open_http_listeners |-> http,
                unapproved_changes |-> unapproved,
                changes_missing_rollback_test |-> None,
                config_noncompliant_resources |->
                    IF List("compliance_summary") \in refused THEN 0 ELSE account.noncompliant,
                issues |-> http + Many(weak) + unapproved,
                warnings |-> IF users # {} /\ safe = users THEN 0 ELSE 1],
               made, refused, 0)

(***************************************************************************)
(* retention_snapshot.  account.lifecycle: "expires", or "keeps" for a     *)
(* bucket whose rules do not expire anything or that has none.  A bucket   *)
(* whose rules may not be read does not count as missing them.             *)
(***************************************************************************)
RetentionCalls(account, refused) ==
    {List("list_buckets")}
    \cup Each("bucket_lifecycle", Listed("list_buckets", DOMAIN account.lifecycle, refused))

RetentionSnapshot(account, refused) ==
    LET buckets == Listed("list_buckets", DOMAIN account.lifecycle, refused)
        known   == Readable("bucket_lifecycle", buckets, refused)
    IN  Closed([repositories_checked |-> Many(buckets),
                repositories_missing_lifecycle |->
                    Many({b \in known : account.lifecycle[b] = "keeps"}),
                objects_past_retention |-> None],
               RetentionCalls(account, refused), refused, 0)

(***************************************************************************)
(* resilience_snapshot.  account.backup: the hours since the last backup   *)
(* job, None without one, and how many failed; account.restore: the days   *)
(* since the last restore job; account.dump: the hours since the last RDS  *)
(* snapshot, looked for only when no backup job was seen.                  *)
(***************************************************************************)
BackupHours(account, refused) ==
    IF List("list_backup_jobs") \in refused THEN None ELSE account.backup.hours

ResilienceCalls(account, refused) ==
    {List("list_backup_jobs"), List("list_restore_jobs")}
    \cup (IF Measured(BackupHours(account, refused)) THEN {} ELSE {List("db_snapshots")})

ResilienceSnapshot(account, refused) ==
    LET jobs    == List("list_backup_jobs") \notin refused
        hours   == BackupHours(account, refused)
        restore == IF List("list_restore_jobs") \in refused THEN None ELSE account.restore
        made    == ResilienceCalls(account, refused)
        last    == IF Measured(hours) \/ List("db_snapshots") \in refused
                   THEN hours ELSE account.dump
    IN  Closed([last_backup_hours_ago |-> last,
                last_restore_test_days_ago |-> restore,
                failover_test_passed |-> "unknown",
                backup_jobs_failed_30d |-> IF jobs THEN account.backup.failed ELSE 0],
               made, refused, One(~Measured(last)) + One(~Measured(restore)))

(***************************************************************************)
(* zt_verification_snapshot puts three snapshots together.                 *)
(***************************************************************************)
ZtVerificationSnapshot(account, refused) ==
    LET iam == IamAccessSnapshot(account, refused)
        enc == EncryptionSnapshot(account, refused)
        cfg == ConfigAndAuthSnapshot(account, refused)
        total == enc.data.total_confidential_resources
        bare  == enc.data.unencrypted_cui_count
    IN  MergeResults(<<iam, enc, cfg>>,
            [iam_review_days_ago |-> iam.data.days_since_last_review,
             encryption_status |-> Light(bare > 0, total = 0),
             orphaned_accounts |-> iam.data.orphaned_accounts,
             mfa_enforcement_percent |-> cfg.data.mfa_enforcement_percent,
             session_timeout_compliant |-> "unknown"])
=============================================================================
