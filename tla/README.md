# SOC2 Sentinel: TLA+ models and proofs

Models of SOC2 Sentinel (`src/sentinel/`): the parts that keep evidence, where threads,
processes, crashes and unlocked files meet, and the parts that turn evidence into verdicts. TLC
checks them on small instances; TLAPS proves
the central results for every value of the constants. Paths below are under `src/sentinel/`.

Contents: [the system](#the-system) · [modules](#modules) · [runs](#runs) ·
[bounds](#bounds) · [fairness](#fairness) · [proofs](#proofs) · [findings](#findings) ·
[not modelled](#not-modelled) · [plan](#plan)

## The system

SOC2 Sentinel collects compliance evidence from cloud providers. A collector takes a
provider's snapshot, computes metrics, and publishes a report in
`evidence/<date>/<control_id>/`. The other parts read that tree, or keep a file of their own.
The same code is called from a command line, from the threads of a dashboard
(`ThreadingHTTPServer`, one thread per request) and from a monitoring daemon's thread, so the
files below are shared by threads and by processes.

| Component | State | Operations | What is hard | What makes it correct |
|---|---|---|---|---|
| Evidence writer (`output.py`, `integrity.py`) | control directory, `manifest.json`, its backup, `.lock` | `write_evidence` | it empties the directory before it writes; any step may raise or be the process's last; unlink errors are swallowed | a directory that verifies is one validated run; the newest manifest is never lost |
| Verification (`integrity.py`) | none | `verify_manifest`, `verify_and_decrypt_artifact`, `verify_evidence_tree` | reads file by file, without the lock | the verdict is exact at rest, and not fooled by a race |
| Vault (`vault.py`) | `evidence_chain.jsonl` | `seal_run`, `read_chain`, `verify_chain` | read, compute and append without a lock; torn lines | a continuous chain certifies its history; no false alarms |
| Telemetry (`telemetry.py`) | queue, worker, sinks | `emit`, `emit_sync`, `flush`, `shutdown`, `add_sink`... | full queue, worker against emitters, shutdown | no event lost or doubled, queue order kept, flush is a barrier |
| Access reviews (`access_review.py`) | a JSON file per campaign | create, decide, sign off | read-modify-write by concurrent requests; decisions after the sign-off | a decision stands while calls are serial; nothing undecided is signed |
| Audit rooms (`audit_room.py`) | a JSON file per room | create, revoke, `validate_access`, export | an access check writes back what it read; an export reads the evidence several times | a revoked room stays revoked; granted visits are logged; a package is consistent at rest |
| Vendor registry (`vendor_risk.py`) | one JSON list | `save_vendor`, `list_vendors`, CC9.2 report | an unreadable list is taken for an empty one | saving one vendor keeps the others; a compliant report overlooks no saved gap |
| Daemon (`daemon.py`) | thread, stop event, counters | start, stop, run once | stop gives up after 5 s, and start clears the event | one collection loop at a time; a stopped loop ends |
| Providers (`providers/`, `cloud.py`) | none | snapshots, retries | errors in part of a snapshot | a refused call shows in the evidence |
| Collectors (`collectors/`, `status.py`) | none | snapshot to evidence | what was not measured | lights and quality |
| Scoring, drift, policy (`scoring.py`, `drift.py`, `policy/`) | rules | pure functions | boundaries, missing and partial evidence | a pass is earned; worse never scores higher; drift follows the account |
| Commands (`cli.py`, `audit.py`, `siem.py`) | evidence tree, audit log | run-all, scorecard, drift, siem | failing collectors, midnight, which directory is the latest | a success on record is complete; the latest run is read; the log is forwarded |
| Auth, tenancy, dashboard (`auth.py`, `tenancy.py`, `dashboard/server.py`) | signing secret, tokens, tenant directories | a request's context, some forty routes | one thread per request, header against token, restarts, the CLI's processes | readers govern nothing; tenants are apart; tokens are honoured |
| Attestations (`connectors/github.py`, `dogfood.py`, `onboarding.py`, `trust_center.py`, self-assessment) | none | verdicts on a repository, the installation, credentials, a questionnaire | requests that fail look like nothing found | compliant means read and in order |
| Notifications, reports, page assets | none | rendering, one HTTP call | text | (not modelled) |

How they interact: collectors call the writer; the dashboard, the CLI and the audit rooms call
the verification; `seal_run` and `verify_chain` read the reports the writer replaces; an audit
room copies block hashes from the ledger; every component emits telemetry; the daemon and `run-all`
call the collectors, and scorecard, drift and the trust center read what those left. None of them holds the directory lock of the writer when it reads.

## Modules

### EvidenceDirectory
What a control directory promises, in two variables: the run it shows (`published`) and the
newest run that completed (`newest`). A run completes while nothing is shown; evidence is
withdrawn; the newest run's evidence may be uncovered when a stray file beside it goes.
It never shows an older run, and never goes from one run to another directly.

### EvidenceStore
`write_evidence`, for one control directory and any number of writers.

- `disk[f]` is the run whose bytes file `f` holds; a file is a name and the suffix it is stored
  under (`.enc` when the writer's environment sets `SENTINEL_EVIDENCE_KEY`, `.tmp` for the
  temporary of `_atomic_write_text`). `manifest` and `backup` are `manifest.json` and
  `manifests/<control_id>.json`: absent, torn (truncated, not yet written), or whole with what
  they list. `lock` is the `portalocker` lock; `pc`, `run`, `todo`, `target` and `written` are
  the locals of the call.
- One action per step between two file operations, in the order of the code: `Acquire`,
  `BackupFirst` and `CopyFirst` (`shutil.copy2` truncates its target and then copies),
  `List`, `Unlink` or `UnlinkFails`, `Cleaned`, `WriteExtra` and `SwapExtra`, `Validate`,
  `WriteReport` and `SwapReport`, `WriteStub`, `StartManifest` and `WriteManifest`,
  `BackupAgain` and `CopyAgain`. `Stop` ends the call at any of them: an exception or a killed
  process, with the lock released by the context manager or by the operating system.
- Content is abstracted to the number of the run that wrote it. A report carries its collection
  time, so a hash tells two runs apart exactly when their numbers differ.
- `planned`, `valid`, `last` and `cutShort` are history variables: what each run has to
  publish, which payloads passed `validate_evidence`, the last run that wrote its manifest, and
  whether a writer has stopped inside `write_manifest` since.
- `Published` maps the directory to EvidenceDirectory: the run of a manifest that verifies.

Assumed: `portalocker` is installed (`pyproject.toml` requires it; the fallback of
`_control_dir_lock` without it takes no lock), `manifest_backup` has its default, true, and no
collector names an extra artifact like the report or the manifest.

### EvidenceVerification
Extends EvidenceStore with an auditor. `ReadManifest`, `Hash(f)`, `Conclude` are
`verify_manifest`; `Recheck` and `ReadBytes` are the rest of `verify_and_decrypt_artifact`. A
collector's step (`Collect`) may come between any two of them. `still` notes whether one changed
the directory since the auditor began.

### EvidenceVault
The ledger of one tenant. `chain` holds the blocks on readable lines and `tail` how the file
ends; `Write` says what an append does to a file that ends in a torn line, given that
`read_chain` skips lines that do not parse. Sealers and the auditor share the scan of a date's
reports (`ReadReport`, `LookAgain`): one report per step, in the order of the directory names.
A root stands for the set of its leaves and a block hash for its block, that is, SHA-256 is
taken to be free of collisions; nobody edits the file by hand, so the recomputed block hash
always agrees and that check is left out. `basis`, in a block, is a history field: what its sealer had
read. Reports are the unencrypted `report.json` that `_compute_evidence_merkle_root` looks for.

### Telemetry
`TelemetryManager`. Items of the queue are events or the `None` of `shutdown`; `unfinished` is
the counter of `queue.Queue` on which `join` waits. `Put` and `SendItself` are the two ways of
an event (`SendItself` is both `emit_sync` and `emit` on a full queue), the worker's loop has an
action per turn (`Loop`, `Get`, `GetTimesOut`, `Gather`, `Gathered`, `CopySinks`, `Dispatch`,
`BatchDone`), and `Flush`, `Shutdown` and `Configure` are what the other threads do. Sinks
append, and may fail after a part of a batch.

### JsonRegister, and the three registers
A record kept in one JSON file by threads and processes that take no lock (`save_room`,
`save_campaign`, `save_vendor` and their readers). `file` is absent, torn or whole; a call is
`Call`, `Read` (the file is read and the request worked out on it), `Truncate` and `Write`, since
`open(path, "w")` empties the file before the content arrives, or `Stop` in between. Two overlapping
writes may leave one content or a torn file. What a request does is the constant `Serve`.
`quiet` is history: no save overlapped another or was cut off.

- VendorRegistry (`ServeVendor`; the assessment is VendorRisk), AccessReviews (`ServeReview`) and
  AuditRooms (`ServeRoom`) instantiate it. A token is known by the call that created it; the
  digest of a sign-off stands for what it was computed from.
- With overlapping calls the code loses updates; no doc or comment says that the registers may be shared, so
  the properties say what serial calls guarantee (`quiet => ...`) and what holds anyway
  (`NothingSignedUnreviewed`, `ComplianceIsBacked`, the first part of `OnlyGrantsAreLogged`). Two promises the docs do make
  are not kept even by serial calls: a sign-off is not final, and refused attempts to enter a room are not logged; see
  [Findings](#findings).

### AuditPackage
`export_audit_package_zip`: three crosswalks (`Examine` verifies a place and reads its quality, `Hash` opens the
file again, `Built` closes a table) and the packing (`Pack`, `Finish`), with a collector's
`Collect` between any two steps. `still` is history: nothing changed since the export began.

### Dashboard
A request's phases: `Receive`, the signing secret (`FindSecret`, `DrawSecret`: the lazy
`_EPHEMERAL_SECRET` is tested and set without a lock), `ExtractContext`, and `Handle` or `CreateTenant` or
`CreateToken`. The routes are records from a route to the permission it asks for, one record per
part of the handlers. `OpensFirst` are the routes that open the tenant's directory, and so create
it, before they check. `CommandLineToken` is another process with another runtime secret;
`Restart` ends the server's. `answer` is history: the answer this step gave.

What the model shows of the code and a reader should know: without `SENTINEL_AUTH_SECRET` no
token is ever honoured, since only a verified user may have the server issue one, and those of the
command line are signed with a secret that ends with its process; the trust center,
room and SIEM routes create a tenant's directory for anyone; a SUPER_ADMIN may issue
tokens for other tenants.

### Registries
The dashboard's parts in one specification, `Served`: VendorRegistry, AccessReviews, AuditRooms (with the threads of
the dashboard for callers), AuditPackage and Dashboard. They share no state, so a behaviour is one part's, which the
initial state chooses (`focus`), and the others stand still. Its properties are those of the parts for their behaviours.

### Collectors, AwsSnapshots
Operators. AwsSnapshots makes the data of each of the seven AWS snapshots from an account and a set
of refused calls, with the calls it really makes (a refused listing hides the calls for its
members). Collectors has the retries, the quality rule, the metrics each collector keeps and the
traffic lights. Metrics are natural numbers, percentages and hours in thousandths; -1 is the JSON null.

### Scoring, DriftDetection, PolicyEngine, Attestations
Operators. Scoring has the seven control scores, the frame they share (not assessed, failed, capped at 70
when partial), pillars, frameworks and the posture, in thousandths of a point; a share that does not come
out even is rounded down. DriftDetection chooses the two runs as the code does and compares the metrics it watches; a
null metric raises out of the report. PolicyEngine evaluates syntax trees over metrics, with Python's `None`
and truth values, and has the twelve default rules. A tree is the sequence of its nodes, operands before what they are
operands of and the root at the end, so that its value is a recursive function on the places of the sequence (`Values`). Attestations has the verdicts on a GitHub repository, on the
installation, on a questionnaire and on credentials.

### Assessment
The operators put together, as one action per verdict: `JudgeAccount` goes from an account and the attempts at its
calls through snapshot, collector and score; `JudgeHistory` from two accounts to a drift report;
the others from their input to the verdict. A behaviour judges one input; TLC goes
through all of them.

Its constants carry assumptions that say what the code may hand it (`DataAssumption`: the fields and the values of the
seven snapshots; `AccountsAssumption` and `InstallationsAssumption`: accounts are finite; `RuleFilesAssumption`: so are files
of rules), since the theorems about it are for every value they allow. Sums has the one sum that Collectors, AwsSnapshots,
Scoring and Attestations share.

Two of its properties say exactly where the code's promise ends. `DriftFollowsAccount`: every count is compared exactly, but the
coverage of the logs is a percentage with one decimal, so a fall by less than a tenth of a percent (one trail of several
hundred) may or may not be named. `MissingNeverPasses`: a condition may well be true of what was not measured (`not x`,
`x != 0`, `x == y`, where null equals null), so the property is about the twelve default rules and about every other condition that asks
for all it names (`Demanding`: comparisons of terms other than `!=`, joined by `and`, with a number on one side of an equation,
and every divisor a constant other than zero, since `None / 0` and `None % 0` are 0 in the code: a rule such as
`failed / total == 0` passes where nothing was measured).

Three operations are called without `call_with_retry` (`Unretried`: the credential report, a bucket's encryption and its
lifecycle): an access denial is written down as for the others, and anything else, throttling included, ends the snapshot.

### Posture
The commands over days: `run-all` collector by collector (each may write, fail, or find no provider, and any exception but a
`SentinelError` ends `run-all` without an event), what else collects in the same tree (`CollectElsewhere`: the `run`
command, another `run-all`, a daemon's cycle), the audit log, the self-assessment's report directory, scorecard and drift choosing the
latest directory, and the SIEM exporter.

`write_evidence` empties the control's directory before it validates and writes (`output.py:116`), so who fails there leaves
the directory as it was, empty or written (`BrokenOff`), and evidence of the same day may be gone. `losses` is history: what was
emptied, and by which run; runs are numbered as they begin (`run.by`), and what collects elsewhere when it
collects. `SuccessIsComplete` says exactly how far a success on record can be relied on: what it claims was left
there, and what is missing was removed by a run with a later number that collected on that date.

### Daemon
Threads of `ContinuousMonitoringDaemon`: `Start`, `Stop`, `Join` (the thread ended, or five seconds passed),
`Clear`, the loop (`Check`, `Wake`), `RunOnceNow`, and the steps of a cycle. A run is counted under the lock (`Record`); its
number is read without it, once for the audit event and again for the telemetry event (`ReadNumber`), and the events follow later
(`AppendEvent`, `Emit`), or neither does, since the error of an append is swallowed (`AppendFails`). `counted`, `overlap`,
`late` and `mixed` are history: the cycles as they were counted, stops that overlapped, a join that gave up, cycles that overlapped.

`NumbersInOrder` promises no order of the numbers while cycles overlap: with two of them the log may read 2, 1, or 2, 2. Every
number is one that was counted, with the event's own cycle among the runs up to it, and telemetry never shows a smaller number than the
audit event before it.

### MonitoringProofs
The theorems about Daemon and Posture, see [Proofs](#proofs).

### AssessmentProofs
The theorems about Assessment, see [Proofs](#proofs).

### EvidenceVaultProofs
The theorems about EvidenceVault, see [Proofs](#proofs).

### TelemetryProofs
The theorems about Telemetry, see [Proofs](#proofs).

### DashboardProofs
The theorems about Dashboard, see [Proofs](#proofs).

### EvidenceProofs
The theorems about EvidenceStore and EvidenceVerification, see [Proofs](#proofs).

### JsonRegisterProofs, RegistriesProofs
JsonRegisterProofs has the lemmas about any record kept in one JSON file; its constant `Good` is what a register says of its
content. RegistriesProofs instantiates it for each register, and has the theorems about Registries,
see [Proofs](#proofs).

MC modules give the constants their values. An operator whose comment starts with "Mutant of" is a
deliberately wrong variant of the definition below it; it is used by no specification, and it
documents that the property named in `PROJECT.json` fails when the code is wrong in that way.

## Runs

| Run | Module and cfg | Shows |
|---|---|---|
| evidence | MCEvidence, MCEvidence.cfg | `TypeOK`; `VerifiedIsOneRun`: a directory that verifies holds exactly what one validated run had to publish; `ManifestSurvives`: the newest complete manifest is in place or backed up, unless a writer stopped inside `write_manifest`; `ImplementsDirectory`: refinement of EvidenceDirectory; `AuditTypeOK`; `VerdictIsExact`: when nothing moved, the piecewise verdict is that of the directory; `AcceptedIsOneRun`: what is accepted in a race is still one validated run's manifest |
| decrypt | MCEvidence, MCDecrypt.cfg | violated: `DecryptedWasVerified` |
| vault | MCVault, MCVault.cfg | `SerialWhenLinked`: in a chain whose links hold each readable block was sealed by a call that had read exactly the readable blocks before it (a block lost in a torn line is in neither); `VerdictIsExact` for `verify_chain`; `NoFalseAlarm`: no error without overlapping seals, cut appends or re-collected dates; `OneLossPerCut`: a returned block is lost only to a cut append, one each |
| fork | MCVault, MCFork.cfg | violated: `LedgerIsLinked` |
| telemetry | MCTelemetry, MCTelemetry.cfg | `TrailIsComplete`, `QueuedInOrder`, `FlushIsABarrier` |
| delivery | MCTelemetry, MCDelivery.cfg | `EventuallySettled`, `WorkerStops` under fairness |
| shutdown | MCTelemetry, MCShutdown.cfg | violated: `ShutdownDrains` |
| dashboard | MCRegistries, MCRegistries.cfg | the registers: `NoVendorLost`, `ComplianceIsBacked`, `DecisionsStand`, `NothingSignedUnreviewed`, `RevocationHolds`, `OnlyGrantsAreLogged`; the export: `ExactAtRest`; access: `ReadersGovernNothing`, `TenantsApart`, `TokensAreHonoured` (no step takes a token for less or more than it is) |
| signoff | MCRegistries, MCSignOff.cfg | violated: `SignOffIsFinal` |
| monitoring | MCMonitoring, MCMonitoring.cfg | the daemon: `OneLoop`, `NumbersInOrder`, `LoopsEnd`; the commands: `SuccessIsComplete`; the verdicts: `PassIsEarned`, `WorseNeverScoresHigher`, `DenialIsVisible`, `DriftFollowsAccount`, `ReadyHasNoDeadPillar`, `MissingNeverPasses`, `CompliantRepoIsReviewed`, `CompliantHomeHasNoFailure` |
| forwarding | MCMonitoring, MCForwarding.cfg | violated: `ForwardedIsLogged` |
| latest | MCMonitoring, MCLatest.cfg | violated: `LatestIsRead` |

MCRegistries gives the constants of Registries their values. MCEvidence has EvidenceVerification with its auditor, and with
collectors alone, who then may make one run more. MCMonitoring extends Daemon, Posture and
Assessment; here too the parts share no state, and `focus` chooses the one a behaviour is about.

Deadlock is checked in decrypt, vault, fork and shutdown. It is not checked in evidence
(the bound on runs leaves every writer idle), in telemetry and delivery (the dispatcher
really stops after shutdown), and in dashboard, signoff, monitoring, forwarding and latest (a verdict, a package and a
stopped daemon are the end of their behaviours).

## Bounds

- evidence: two writers, one that encrypts and is unsigned and one that signs and does not encrypt,
  one extra artifact, three runs. Three runs let a run meet the remains of two others, which is
  what a stale file beside a restored manifest takes; the two writers produce files with
  different names for the same artifact. With the auditor there are two runs (`AuditedRuns`): his own steps multiply the states,
  and a race takes the run that was read and the one that replaced it.
- vault: two sealers, two dates of two controls, two reports, three seals. A fork takes two seals,
  and an append that joins a torn line takes a third to see what follows. Sealers and dates are
  symmetric; the properties of that run are invariants.
- telemetry: two emitters, a queue of two, batches of two, three events, two sinks, one failing
  call, one change of the sinks: a full queue, a full batch and a batch closed by `None` all occur.
- delivery: a third sink that may be added, two events and a queue of one, since liveness is checked on
  the whole graph; the queue is full whenever it holds anything, so the `None` is dropped in some behaviours.

- dashboard: two callers and three calls on a register (four on a review, whose sign-off needs two decisions
  and a creation), two vendors and two entitlements, two times; one date, two collectors, three controls (with
  one, both and no collector) and three changes for the export; two threads, two tenants, two roles (one that
  governs, and a name that is no role and so reads), two tokens, two runtime secrets for access; the server
  may restart at any time. Routes: one of each kind, public or not, with and without a directory. Callers,
  vendors and entitlements are symmetric; no property of the run is about liveness.
- monitoring, daemon: two loops, two stoppers, a runner, two cycles: a stop that gives up and a second loop,
  stops that overlap, and a runner's cycle beside a loop's, whose numbers and events may come in any order. Commands: two
  collectors and two days. Collecting is explored alone with three runs: two run-alls and one more that empties what the first put on
  record, or one run-all with two others within it. The commands that read are explored with one run (`ReadRuns`), since they disturb no evidence. Verdicts: metrics on both sides of every threshold of the code, one
  or two resources of a kind, any two calls of a snapshot failing or all of them, every subset of
  missing metrics for the rules. Drift: accounts with two users, a bucket and a database, no, one or two trails, and up to
  two unapproved changes. Rule files: empty, with a stricter default and rules of their own (some add or divide before they compare, two are
  true of a null, one of these divided by a metric that is zero), one that breaks off, one that does not parse, one that calls. Fields that AWS never measures are null
  throughout.

`MaxRuns`, `MaxVersions`, `MaxSeals`, `MaxEvents`, `MaxChanges`, `MaxFailures`, `MaxCalls`, `MaxTime`, `MaxTokens`,
`MaxClock`, `MaxKeys`, `MaxStarts`, `MaxCycles`, `AuditedRuns`, `ReadRuns`, `Days` and `MaxRefused` are bounds of
the models, not of the code. `MaxQueue` and `MaxBatch` are 10000 and 50 in the code.

## Fairness

Telemetry and Daemon state fairness. Telemetry: the worker is a running thread: weak fairness of its steps. An
emitter that has begun to send an event itself goes on: weak fairness of its steps, which also
releases `_sink_lock`. Nobody has to emit, flush, configure or shut down. A worker that waits for
`_sink_lock` while emitters keep taking it would need a fair lock, which Python does not promise;
with finitely many events it gets its turn. EvidenceStore, EvidenceVerification and EvidenceVault
state none: their writers may stop anywhere, so nothing in them has to happen. Daemon: a loop's thread goes
on with its cycle, whose calls have timeouts, and `Event.wait` returns when the interval is over or the event is set:
weak fairness of its steps; `stop` returns from a join that has a timeout: weak fairness of `Join` and `Clear`. Nobody
has to start, stop or run a cycle. The registers, the export, the dashboard and the verdicts state none.

## Proofs

`EvidenceProofs` proves of EvidenceStore, for every set of writers and artifacts, every assignment of keys
and every number of runs, from `StoreAssumption` (an encrypting writer is a writer, `Nobody` is not one,
an extra artifact is not called like the report or its stub, and `MaxRuns` is a natural number):

| Theorem | Statement |
|---|---|
| `TypeCorrect` | `Spec => []TypeOK` |
| `OneRun` | `Spec => []VerifiedIsOneRun` |
| `NewestManifestSurvives` | `Spec => []ManifestSurvives` |
| `DirectoryImplemented` | `Spec => ImplementsDirectory` |

The argument, from the bottom:

1. `TypeCorrect`: one step per action. The lemmas on names come first (a temporary is never
   a final name, a stored name is never a temporary), since every later step on `disk` needs them.
2. `Safe` is the inductive invariant of `OneRun`. `VerifiedIsOneRun` alone is not inductive: it says nothing of
   a directory that is being written. `Safe` adds mutual exclusion (a writer inside
   the call holds the lock), that a whole manifest is truthful (it lists what its run planned,
   with that run's number, and the run was validated), and, for each place of the active writer,
   which files it has already written (`Active`): the manifest is truthful because
   `written` is exactly what was planned, and each of those files still holds this run's bytes.
   `SafeStep` shows that each action preserves it, one lemma per group of actions.
3. `Kept` is what survives of the newest manifest. From the first backup on the copy in `manifests/`
   is the one that counts (`Exposed`), from the new manifest on the one in place; a torn
   manifest means a writer inside `write_manifest`, or `cutShort`.
4. `DirectoryImplemented`: with `Safe` and `Kept`, a verifying directory is the newest run's, so every
   step maps to `Complete` (when the manifest is written), `Withdraw`, `Uncover` or a stutter.

`DashboardProofs` proves the access properties of Dashboard for any number of threads, any tenants, roles, headers
and bounds, from `Parameters` (the routes asked for exist, and no lifetime is negative), which every theorem
states as its hypothesis:

| Theorem | Statement |
|---|---|
| `Apart` | `Spec => []TenantsApart` |
| `Governed` | `Spec => []ReadersGovernNothing` |
| `Honoured` | `Spec => TokensAreHonoured` |

Neither invariant is inductive: an answer says nothing of how the user got into the request. `IInv` adds what a request
in service knows. `KnownUser`: who is served is anonymous, or came with an issued token for the tenant served, and the
latter only under a fixed secret. `FoundSecret`: the secret a token is about to be verified with is the one of the
environment, or a runtime secret with which no token was signed (`Barren`), since the server issues
tokens only to holders of one and the command line draws a secret of its own. Each action has a lemma; `AnswerIsBacked`
is the one all answers share. It needs `RoutesGuarded`, a fact about the forty routes themselves: those that ask for no
permission show nothing of a tenant but its trust centre, and those that govern ask for what no reading role has.

`MonitoringProofs` proves the safety of Daemon for any number of callers, loops and cycles, from `Parameters` (callers are
no loops and have one part each, and finitely many run cycles), the hypothesis of these two theorems:

| Theorem | Statement |
|---|---|
| `AtMostOneLoop` | `Spec => []OneLoop` |
| `NumbersAreInOrder` | `Spec => []NumbersInOrder` |

1. `Orderly` makes `OneLoop` inductive: without a stop that gave up or overlapped, the only loop alive is the newest and
   the daemon counts as running, at most one caller is stopping it, and who is about to clear `_running`
   has seen the thread end. `start` tests `_running`, so it finds neither a loop nor a caller that is stopping.
2. `NumbersInOrder` needs what a cycle knows between the counting and its events. `Counts`: `_total_runs` is the number of cycles
   counted. `AtReport`: what a cycle past the counting reads, or has read, covers the cycle itself, and who is about to
   notify has its audit event in the log; since both only grow, that stays so however late the event comes. While no cycles overlapped, one at most is under
   way: the last that began and was counted (`Last`), and every number in the log is that of its own run (`Own`), so the events are in order
   (`Ascending`, `InOrder`). `InTurn` (a loop that was not started is new) is what keeps `start` from disturbing them.

`EvidenceProofs` proves the auditor's conclusions, too, from `StoreAssumption`, for any collectors, artifacts, keys
and runs:

| Theorem | Statement |
|---|---|
| `AuditTyped` | `AuditSpec => []AuditTypeOK` |
| `AcceptedRuns` | `AuditSpec => []AcceptedIsOneRun` |
| `VerdictsAreExact` | `AuditSpec => []VerdictIsExact` |

`AInv` adds to `Safe` what the auditor knows in between. `SeenIsTruthful`: the manifest it has parsed was truthful when it
was read, and stays so, since no collector changes what an earlier run planned or that it was validated (`PastIsFixed`).
`SeenIsInPlace` and `HashedSoFar`: as long as nothing moved, that manifest is the one in the directory, and there is an
issue exactly if one of the files hashed so far differs from its entry; with all files hashed, that is the verdict.

`TelemetryProofs` proves the safety of the dispatcher for any emitters, sinks and bounds, from `TelemetryAssumption`:

| Theorem | Statement |
|---|---|
| `DispatcherTyped` | `Spec => []TypeOK` |
| `FlushWaits` | `Spec => []FlushIsABarrier` |
| `NothingIsLost` | `Spec => []TrailIsComplete` |
| `OrderIsKept` | `Spec => []QueuedInOrder` |

1. `FlushIsABarrier` alone is not inductive, because the flush reads nothing but a counter. `Counted` says that it is the
   items in the queue and the events in the worker's hands, and `NoneForgotten` that every queued event is in one of
   these or dispatched; so a counter of 0 leaves no event but the dispatched ones. `EmptyHanded` (the
   worker begins a batch with empty hands) is what keeps `Counted` when it takes the first item.
2. `Full` adds to that where every event is. `Located`: an event that was emitted is in the queue, in the batch, in an
   emitter's hands or settled, and nowhere else. `Pipe`: the batch is ascending and before the queue, whose
   events ascend around the `None`. `Served`: a sink that has been there all along has in its trail, or missed by a failing call, what
   is settled, and what is being dispatched unless it is still to be called; that is `TrailIsComplete` when nothing is in progress.
   `Trails`: what is in a trail is there once, and of what went through the queue, in its order.
   `Hands`: no two emitters hold the same event, and none holds a queued one, so that what an emitter sends itself
   neither repeats nor reorders what the worker dispatches. Each part has its step lemma (`SizesStep` to
   `LocatedStep`), which may use all of `Full`.

`EvidenceVaultProofs` proves, for any sealers, dates, reports and cut appends, from `VaultAssumption`:

| Theorem | Statement |
|---|---|
| `VaultTyped` | `Spec => []TypeOK` |
| `SealedInSeries` | `Spec => []SerialWhenLinked` |
| `LossesAreCuts` | `Spec => []OneLossPerCut` |
| `VerdictsAreExact` | `Spec => []VerdictIsExact` |
| `NoAlarmIsFalse` | `Spec => []NoFalseAlarm` |

1. The links of a block are only its index and the hash before it; that its sealer had read the whole chain up to there
   follows from two facts about all that was ever read. `NewIsUnseen`: the number of a call that has not
   appended yet is in no block, no block's `basis` and no sealer's view. `Agrees`: who has read the hash that the chain
   shows in its n-th place has read all of the chain up to there. An append can only lose the last block
   (`Shortens`), and a lost one never comes back, so `Agrees` survives; `GrowStep` and `BeginSealStep` are the two steps
   that need `NewIsUnseen`. With the places and kinds of everything (`Counts`, `Kinds`, `Chains`,
   `Placed`) this is `Types`, which the other theorems assume of a step.
2. `Losses` balances `OneLossPerCut`: the returned blocks that are gone, and one more while the file ends in a torn line, are at
   most the cut appends. A cut opens the tail, and the append that joins it closes it at the price of one block.
3. `Exact`: while nothing moves, the auditor's copy is the chain, what it has scanned of a date is what is there, and it has
   found a fault exactly if one of the blocks it has passed does not hold.
4. `Calm`: without overlapping seals, cuts or re-collected dates the chain is in order with the reports, the one sealer at
   work has read all of it, and the auditor, who may be overtaken by seals, has a beginning of it and no fault.

`RegistriesProofs` proves the properties of the registers and of the export, for any threads, vendors, entitlements, tokens,
periods, controls and bounds, from `RegistriesAssumption` (the evidence lists finitely many entitlements):

| Theorem | Statement |
|---|---|
| `SavesStand` | `Served => []NoVendorLost` |
| `ReportsAreBacked` | `Served => []ComplianceIsBacked` |
| `ReviewsStand` | `Served => []DecisionsStand` |
| `SignaturesAreEarned` | `Served => []NothingSignedUnreviewed` |
| `RevocationStands` | `Served => []RevocationHolds` |
| `GrantsAreLogged` | `Served => []OnlyGrantsAreLogged` |
| `ExportIsExact` | `Served => []ExactAtRest` |

1. The registers share one argument, `JsonRegisterProofs`. A register gives a relation `Good` between a content and the
   calls that have returned, and two facts about its requests: a save makes a content that is `Good` with the call
   itself (`SavesKeepGood`), and a call that saves nothing leaves it so (`ReadsKeepGood`). `Serial` is the inductive invariant: what a
   call has computed on a file that was not touched since is the answer to that file (`Current`), and, while no call
   overtook another or was cut off, one call writes at a time, over a content that was `Good`, and at rest the file is `Good` (`Alone`).
   `Good` is a statement about the last call of a kind in the trail: each register has a
   lemma on how appending a call changes that (`SavesGrow`, `DoneGrows`, `VisitsGrow`, `DecisionsGrow`).
2. `NothingSignedUnreviewed` holds whatever the interleaving, so `Serial` is no help where calls overlap. `Throughout` says that
   every content a call has read, computed or begun to write is `SignedStands` with the trail of its moment; that it stays so while
   other calls return is `SettlesGood`. `SignedStands` is more than the property: what is signed is decided, and differs from
   what is shown only after a later decision (`Outdated`).
3. `ExactAtRest`: the tables are built place by place, in any order. `Reached` is what a table has when some places are
   still to be looked at, and `Walk` the crosswalk that the evidence determines; `PackExact` says that all three tables
   are `Walk`, and what is packed is what they name, as long as nothing moved.

`MonitoringProofs` also proves `CommandSpec => []SuccessIsComplete` (theorem `SuccessesAreComplete`) for any collectors and days
(`PostureAssumption`: both are sequences of names). `Recorded` is the invariant: every event in the log is backed by the evidence or by
later losses (`OnRecord`), and a run-all in progress has, while it has no errors, left evidence of all the collectors before its
place, on a day between its start and today, or lost it to a later run (`Underway`). Evidence is removed, so the argument is not
that the tree grows: `Keeps` says of a step that whatever disappears is on the losses under the number of who did it, and
`UntouchedKeeps`, `StoredKeeps`, `EmptiedKeeps` and `BrokenOffKeeps` that every step that collects is such a one. A run-all that
empties a directory itself has an error from then on, and so no success to account for; whoever collects meanwhile has a
later number (`RunStays`), and an account on record is older than either (`RecordStays`).

`AssessmentProofs` proves the verdicts, for any constants that the assumptions of Assessment allow (`DataAssumption`, `AccountsAssumption`,
`InstallationsAssumption`, `ScoresAssumption`, `RepositoriesAssumption`, `HomesAssumption`, `RuleFilesAssumption`: the fields of a
snapshot, a repository and an installation, accounts of finitely many resources with any numbers in them, scores between 0 and
100, and files of finitely many rules; nothing is assumed of the rules themselves or of the evidence they are evaluated on):

| Theorem | Statement |
|---|---|
| `VerdictsHold` | `JudgingSpec => []Verdicts` |
| `PassesAreEarned` | `JudgingSpec => []PassIsEarned` |
| `DenialsAreVisible` | `JudgingSpec => []DenialIsVisible` |
| `WorseIsNotHigher` | `JudgingSpec => []WorseNeverScoresHigher` |
| `ReadyIsAlive` | `JudgingSpec => []ReadyHasNoDeadPillar` |
| `CompliantReposAreReviewed` | `JudgingSpec => []CompliantRepoIsReviewed` |
| `CompliantHomesHaveNoFailure` | `JudgingSpec => []CompliantHomeHasNoFailure` |
| `DriftIsFollowed` | `JudgingSpec => []DriftFollowsAccount` |
| `MissingIsNoPass` | `JudgingSpec => []MissingNeverPasses` |

1. The behaviours are short: `Verdicts` says that a verdict is the one of its input. The work is in what the operators compute.
   `OutcomeOfSnap` is the centre: collector and score together come down to one formula per control (`IamPoints` to
   `ZeroTrustPoints`), capped by the quality (`Graded`).
2. `PassIsEarned`: a lemma per control bounds its points by what is not measured (`IamPasses` to `ZeroTrustPasses`), and
   `RedFails` keeps red lights below 85. It shows more than the property asks: with the fields that the three providers
   fill, CC6.1, CC6.2 and CC7.1 never reach 85 points, so they never pass.
3. `WorseNeverScoresHigher`: each formula falls with what is worse in the data (`IamFalls` to `ZeroTrustFalls`): quotients
   and tenths keep the order (`ShareGrows`, `TenthsGrow`), and so do the cap and the clamp (`CappedKeepsOrder`).
4. `ReadyHasNoDeadPillar` needs the sums. `TotalPicks` and `TotalAdds` are what a fold over a finite set computes, one member more
   at a time (by well-founded induction on a set of numbers, `AllNumbers`), and `Sum2` to `Sum7` the sums of that many members. A pillar is within a rounding
   of the mean of its controls (`PillarOf1`, `PillarOf2`, `PillarOf4`); pillars share controls, so what one dead pillar takes from
   the others keeps the mean of its framework below 85 (`SocAlive`, `NistAlive`, `CmmcAlive`, `ZeroTrustAlive`).
5. `CompliantHomeHasNoFailure`: without a failed check only warnings cost, five points each, so at 85 there are three at most of seven
   (`FivesAddUp`, `ChecksAre`).
6. `DenialIsVisible`: the attempts at a failing call end in a refusal, or the snapshot raises (`FailureEnds`, `AnswerIs`), as it does
   when a call that is not retried is throttled. Of the calls to be refused one at least is made: a call that is not made any more comes after one that was refused, such as the rotation of a
   key after its description (`IamMade` to `ResilienceMade`). So there are errors, the snapshot is partial or failed (`ClosedIs`), its
   data are still what they may be (`IamMadeOf` to `ResilienceMadeOf`), and neither the light nor the score passes such a quality
   (`PoorIsNotGreen`, `GradedIs`). For ZT-1 the errors of three snapshots are added up (`ZeroTrustIsPoor`).
7. `DriftFollowsAccount`: with every call answered, the collectors' metrics are the counts of the account (`IamIsSeen` to
   `LoggingIsSeen`), the two runs compared are today's and yesterday's (`DetectIs`), and of the metrics watched the others are absent from
   both and so compare as equal (`IamCompares` to `LoggingCompares`). `SharesFall` is the arithmetic of the coverage: through a
   quotient and a rounding, a fall that shows is a fall, and a fall by a tenth of a percent shows.
8. `MissingNeverPasses`: `ValuesAre` shows that the recursive function gives each node the value made of its operands'
   (it exists, by induction on the places). `AllHold` goes down from the root: a true `and` has true operands (`AndIs`), a true comparison
   has numbers on both sides (`ComparisonIs`), and a number is computed of numbers only (`TermIs`; here the divisor has to be a constant
   other than zero), so every name stands for a number
   that was measured (`AllMeasured`). `DefaultsDemand` applies it to the default rules. For the exit code, the rules are finitely many
   (`RulesAreFinite`), so none that failed are none (`ReportIs`).

Only model-checked: liveness (`EventuallySettled`, `WorkerStops`, `LoopsEnd`), which is out of the prover's reach. Every safety
property that a passing run checks is a theorem. The runs that expect a violation have their counterexamples from TLC.

## Findings

- **decrypt.** `verify_and_decrypt_artifact` verifies, reads the manifest again, and opens the
  file again. A collector between these steps makes it return bytes of another run, or of none.
- **fork.** Two overlapping calls of `seal_run` append blocks with the same index and
  `previous_hash`; nothing repairs the ledger afterwards, since it is only appended to.
- **shutdown.** `shutdown` clears `_running` before it puts its `None`. The worker tests
  `_running` between batches, so events beyond the current batch stay in the queue.
- **signoff.** `record_decision` does not look at the campaign's status: a decision after the sign-off is saved, and the
  digest no longer describes the campaign, where `access_review.py:118` says "Finalize campaign and compute cryptographic
  tamper-evident sign-off digest" and `DIRECTIONS.md:119` "Close and finalize". No race is needed.
- **dashboard.** `validate_access` logs granted visits only, where `audit_room.py:350` says "Validate an auditor's token and
  log access attempt" and the repository's README promises "full access auditing". `OnlyGrantsAreLogged` states what the code does.
- **forwarding.** `SIEMExporter` reads `sentinel_audit.jsonl` in the base directory; the program logs to
  `.sentinel-audit.jsonl` in the evidence root. Every forwarding finds nothing and succeeds.
- **latest.** `evidence/reports`, which a self-assessment makes, sorts after every date, so the scorecard and the drift
  report take it for the latest run.

## Not modelled

- The Azure and GCP snapshots: they follow the AWS ones over other APIs, and end in the same quality rule, collectors
  and scores, which are modelled.
- Renderings: HTML and CSS of the dashboard, reports, CSV and HTML of rooms, event formats, the generators under
  `scripts/`. Notifications: one message, posted once, on which nothing depends.
- Argument parsing, the Windows launcher and `watch` of the command line; the dashboard's event stream.
- Checks of syntax (`validation.py`, `schema.py`, `paths.py`), configuration files and the library calls of `security.py`.
- Of telemetry: subscribers, rotation of the log file, the ring buffer's overflow, syslog sockets, and the
  retries of `HttpSink`, whose duplicates depend on the endpoint.
- Encrypted reports in the vault: `_compute_evidence_merkle_root` does not see them.
- Of the policy language: containers, subscripts, `in`, `is` and chained comparisons, which no default rule uses.

## Plan

Done: EvidenceStore with EvidenceDirectory; EvidenceVerification; EvidenceVault; Telemetry; the registers, the export and
Dashboard, composed in Registries; Daemon; Posture; the verdicts from accounts to scores; all of these with the proofs of
their safety properties.

Left: the Azure and GCP snapshots, if their quality ever differs from that of AWS.
