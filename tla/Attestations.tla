---------------------------- MODULE Attestations ----------------------------
(***************************************************************************)
(* Verdicts the program reaches by itself: on a GitHub repository          *)
(* (connectors/github.py), on its own installation (dogfood.py), on a      *)
(* questionnaire (collectors/self_assessment_report.py) and on the         *)
(* credentials of a provider (onboarding.py, providers/__init__.py).       *)
(***************************************************************************)
EXTENDS Integers, FiniteSets, FiniteSetsExt, Sums

If(p, x) == IF p THEN {x} ELSE {}
Count(f, values) == Quantify(DOMAIN f, LAMBDA x : f[x] \in values)

-----------------------------------------------------------------------------
(***************************************************************************)
(* GitHub.  repo: its branch protection, security features and alerts, as  *)
(* they are; unread: the requests that fail.  Every failure of a request,  *)
(* and a missing token, is the answer "nothing".                           *)
(***************************************************************************)
Requests == {"protection", "repo", "dependabot", "secrets"}

MakeRequest(repo, token, unread, endpoint) ==
    IF ~token \/ endpoint \in unread \/ (endpoint = "protection" /\ ~repo.protected)
    THEN "nothing" ELSE "data"

IsCompliantForSoc2(branch) ==
    branch.protected /\ branch.approvals >= 1 /\ branch.dismissStale
    /\ ~branch.forcePush /\ ~branch.deletions

BranchFindings(branch) ==
    If(branch.approvals < 1, <<"HIGH", "no reviews">>)
    \cup If(~branch.dismissStale, <<"MEDIUM", "stale approvals">>)
    \cup If(branch.forcePush, <<"HIGH", "force pushes">>)
    \cup If(branch.deletions, <<"HIGH", "deletions">>)

(* An alert is <<severity, days open>>. *)
Breaches(alerts, severity, days) == {a \in alerts : a[1] = severity /\ a[2] > days}

(* Mutant of Audit: a branch whose protection cannot be read is passed over. *)
AuditTrusting(repo, token, unread) ==
    LET reads(e) == MakeRequest(repo, token, unread, e) = "data"
    IN  [findings |-> IF reads("protection") THEN BranchFindings(repo) ELSE {}, compliant |-> TRUE]

Audit(repo, token, unread) ==
    LET reads(e) == MakeRequest(repo, token, unread, e) = "data"
        findings ==
            If(~token, <<"CRITICAL", "no token">>)
            \cup (IF reads("protection") THEN BranchFindings(repo)
                  ELSE {<<"CRITICAL", "branch protection">>})
            \cup If(reads("repo") /\ ~repo.secretScanning, <<"HIGH", "secret scanning">>)
            \cup If(reads("repo") /\ ~repo.pushProtection, <<"MEDIUM", "push protection">>)
            \cup If(reads("dependabot") /\ Breaches(repo.alerts, "critical", 7) # {},
                    <<"CRITICAL", "dependabot">>)
            \cup If(reads("dependabot") /\ Breaches(repo.alerts, "high", 30) # {},
                    <<"HIGH", "dependabot">>)
            \cup If(reads("secrets") /\ repo.secrets > 0, <<"CRITICAL", "secrets">>)
    IN  [findings |-> findings,
         compliant |-> \A f \in findings : f[1] \notin {"CRITICAL", "HIGH"}]

-----------------------------------------------------------------------------
(***************************************************************************)
(* The installation's check of itself.  home says what each check finds.   *)
(***************************************************************************)
Check(status, severity) == [status |-> status, severity |-> severity]

(* A file that cannot be read counts as scanned; one placeholder excuses the file. *)
CheckSecretsHygiene(home) ==
    CASE "leak" \in home.configs -> Check("FAIL", "CRITICAL")
      [] home.configs = {} -> Check("WARN", "LOW")
      [] OTHER -> Check("PASS", "CRITICAL")

CheckFilesystemIsolation(home) ==
    CASE home.evidence = "no directory" -> Check("WARN", "MEDIUM")
      [] home.evidence = "empty" -> Check("WARN", "LOW")
      [] home.evidence = "runs" -> Check("PASS", "HIGH")

CheckCryptographicControls(home) ==
    IF home.crypto THEN Check("PASS", "HIGH") ELSE Check("FAIL", "CRITICAL")

(* Under the base directory, where nothing of the program writes it. *)
CheckAuditLogging(home) ==
    CASE home.auditLog = "none" -> Check("WARN", "HIGH")
      [] home.auditLog = "malformed" -> Check("FAIL", "HIGH")
      [] home.auditLog = "blank" -> Check("WARN", "MEDIUM")
      [] home.auditLog = "events" -> Check("PASS", "HIGH")

CheckVaultIntegrity(home) ==
    CASE home.vault = "broken" -> Check("FAIL", "CRITICAL")
      [] home.vault = "empty" -> Check("WARN", "MEDIUM")
      [] home.vault = "sealed" -> Check("PASS", "CRITICAL")

CheckDependencyPinning(home) ==
    IF home.lockfile = "hashes" THEN Check("PASS", "MEDIUM") ELSE Check("WARN", "MEDIUM")

CheckVendorRiskCompliance(home) ==
    CASE home.vendors = "none" -> Check("WARN", "MEDIUM")
      [] home.vendors = "gaps" -> Check("WARN", "HIGH")
      [] home.vendors = "compliant" -> Check("PASS", "HIGH")

Checks(home) ==
    [secrets |-> CheckSecretsHygiene(home), storage |-> CheckFilesystemIsolation(home),
     crypto |-> CheckCryptographicControls(home), audit |-> CheckAuditLogging(home),
     vault |-> CheckVaultIntegrity(home), dependencies |-> CheckDependencyPinning(home),
     vendors |-> CheckVendorRiskCompliance(home)]

Penalty(check) ==
    CASE check.status = "FAIL" -> IF check.severity = "CRITICAL" THEN 25 ELSE 15
      [] check.status = "WARN" -> 5
      [] OTHER -> 0

ScoreOf(checks) ==
    Max({0, 100 - Total([c \in DOMAIN checks |-> Penalty(checks[c])], DOMAIN checks)})

(* Mutant of Assess: a failed check costs points and no more. *)
AssessByScore(checks) ==
    LET score == ScoreOf(checks)
    IN  [score |-> score, status |-> IF score >= 75 THEN "COMPLIANT" ELSE "NON_COMPLIANT"]

Assess(checks) ==
    LET score == ScoreOf(checks)
        failed == {c \in DOMAIN checks : checks[c].status = "FAIL"}
    IN  [score |-> score,
         grade |-> CASE score >= 95 -> "A+" [] score >= 90 /\ score < 95 -> "A"
                     [] score >= 80 /\ score < 90 -> "B"
                     [] score >= 70 /\ score < 80 -> "C" [] OTHER -> "F",
         status |-> IF failed = {} /\ score >= 85 THEN "COMPLIANT" ELSE "NON_COMPLIANT"]

RunAssessment(home) == Assess(Checks(home))

-----------------------------------------------------------------------------
(***************************************************************************)
(* The self-assessment of a questionnaire: practice |-> its status, and    *)
(* what does not apply does not count.  "Zero Trust" has its own words.    *)
(***************************************************************************)
SelfAssessment(mode, rows) ==
    LET met     == Count(rows, IF mode = "zt" THEN {"Optimized", "Managed"} ELSE {"Met"})
        applies == IF mode = "zt" THEN Cardinality(DOMAIN rows)
                   ELSE Cardinality(DOMAIN rows) - Count(rows, {"Not Applicable"})
    IN  IF DOMAIN rows = {} THEN [ready |-> FALSE, reply |-> "refused"]
        ELSE [ready |-> applies > 0 /\ 100 * met > 85 * applies, reply |-> "written"]

-----------------------------------------------------------------------------
(***************************************************************************)
(* The providers.  environ: what is set; valid: the credentials work.      *)
(* get_provider checks them, and raises where they do not.                 *)
(***************************************************************************)
GetProvider(name, valid) ==
    IF name \in {"aws", "gcp", "azure"} /\ valid THEN "connected" ELSE "raised"

Diagnose(name, detected, valid) ==
    IF ~detected THEN "CREDENTIALS_MISSING"
    ELSE IF GetProvider(name, valid) = "connected" THEN "READY" ELSE "PERMISSION_DENIED"

DiagnoseAws(environ, valid) ==
    Diagnose("aws", {"AWS_ACCESS_KEY_ID", "AWS_SECRET_ACCESS_KEY"} \subseteq environ
                    \/ environ \cap {"AWS_PROFILE", "~/.aws/credentials"} # {}, valid)

DiagnoseGcp(environ, valid) ==
    Diagnose("gcp", environ \cap {"GOOGLE_APPLICATION_CREDENTIALS", "~/.config/gcloud"} # {}, valid)

DiagnoseAzure(environ, valid) ==
    Diagnose("azure", {"AZURE_CLIENT_ID", "AZURE_CLIENT_SECRET", "AZURE_TENANT_ID"} \subseteq environ
                      \/ "AZURE_SUBSCRIPTION_ID" \in environ, valid)
=============================================================================
