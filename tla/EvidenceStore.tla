--------------------------- MODULE EvidenceStore ---------------------------
(***************************************************************************)
(* One control directory evidence/<date>/<control_id>/ and the collectors  *)
(* that publish a run's evidence in it with write_evidence (output.py).    *)
(*                                                                         *)
(* A writer takes the directory's portalocker lock, backs the manifest up, *)
(* empties the directory, writes its artifacts one by one through a        *)
(* temporary file, validates the payload, writes the report, and finally   *)
(* writes manifest.json, the list of what the run wrote with a hash of     *)
(* each file.  Any step may be the last one of its writer: the process may *)
(* be killed, or the step may raise (a full disk, a payload the schema     *)
(* rejects), and the lock is released either way.                          *)
(*                                                                         *)
(* Content is abstracted to the run that wrote it.  A report carries its   *)
(* collection time, so two runs never write the same report, and a hash    *)
(* tells runs apart exactly when their numbers differ.                     *)
(***************************************************************************)
EXTENDS Naturals

CONSTANTS
  Writer,      \* processes and threads that may run a collector for the control
  Encrypting,  \* the writers whose environment sets SENTINEL_EVIDENCE_KEY
  Extra,       \* names of the artifacts a collector may write beside its report
  MacOf,       \* MacOf[w]: the SENTINEL_HMAC_KEY of writer w, or NoKey
  NoKey,       \* the absence of a key
  Nobody,      \* the lock's holder when it is free
  MaxRuns      \* bound: collector runs started in the directory

Report == "report"
Stub == "report.meta"

ASSUME StoreAssumption ==
  /\ Encrypting \subseteq Writer
  /\ Nobody \notin Writer
  /\ {Report, Stub} \cap Extra = {}
  /\ MaxRuns \in Nat

\* A file of the directory: an artifact's name and the suffix it is stored under.
Form == {"plain", "enc", "plain.tmp", "enc.tmp"}
File == (Extra \cup {Report, Stub}) \X Form
Run == 1 .. MaxRuns

Empty == [f \in File |-> 0]
Absent == [kind |-> "absent", run |-> 0, mac |-> NoKey, listed |-> Empty]
Torn == [Absent EXCEPT !.kind = "torn"]

VARIABLES
  disk,      \* disk[f]: the run whose bytes file f holds, 0 when f does not exist
  manifest,  \* manifest.json: absent, torn (truncated, not yet rewritten) or whole
  backup,    \* manifests/<control_id>.json, the manifest's backup copy
  lock,      \* holder of .lock
  pc,        \* where each writer is in write_evidence
  run,       \* the run each writer is performing
  todo,      \* names still to unlink, then extra artifacts still to write
  target,    \* the file whose temporary is being swapped into place
  written,   \* written_files of the call
  runs,      \* runs started so far
  planned,   \* history: the files each run has to publish
  valid,     \* history: the runs whose payload passed validate_evidence
  last,      \* history: the last run that wrote its whole manifest
  cutShort   \* history: since that run, a writer stopped inside write_manifest

dirVars == <<disk, manifest, backup>>
callVars == <<run, todo, target, written>>
histVars == <<runs, planned, valid, last, cutShort>>
vars == <<dirVars, lock, pc, callVars, histVars>>

ManifestName == <<"manifest", "plain">>
TmpOf(f) == <<f[1], IF f[2] = "enc" THEN "enc.tmp" ELSE "plain.tmp">>

\* The name _atomic_write_text gives a file: ".enc" is added when the run encrypts.
Stored(w, name) == <<name, IF w \in Encrypting THEN "enc" ELSE "plain">>
StubFile == <<Stub, "plain">>

\* What a run of writer w with the non-blank extra artifacts xs has to publish.
Outputs(w, xs) ==
  {Stored(w, name) : name \in xs \cup {Report}}
    \cup (IF w \in Encrypting THEN {StubFile} ELSE {})

Present(d) == {f \in File : d[f] # 0}

Goto(w, here, there) == pc[w] = here /\ pc' = [pc EXCEPT ![w] = there]

Holding == {"backup", "copying", "list", "clean", "extras", "swap", "validate", "report",
            "swapReport", "stub", "manifest", "writing", "rebackup", "recopying"}

Init ==
  /\ disk = Empty /\ manifest = Absent /\ backup = Absent
  /\ lock = Nobody
  /\ pc = [w \in Writer |-> "idle"]
  /\ run = [w \in Writer |-> 0]
  /\ todo = [w \in Writer |-> {}]
  /\ target = [w \in Writer |-> StubFile]
  /\ written = [w \in Writer |-> {}]
  /\ runs = 0
  /\ planned = [r \in Run |-> {}]
  /\ valid = {}
  /\ last = 0
  /\ cutShort = FALSE

----------------------------------------------------------------------------
\* Mutant of Acquire: the lock is not waited for.
AcquireUnlocked(w, xs) ==
  /\ runs < MaxRuns
  /\ Goto(w, "idle", "backup")
  /\ lock' = w
  /\ runs' = runs + 1
  /\ run' = [run EXCEPT ![w] = runs + 1]
  /\ planned' = [planned EXCEPT ![runs + 1] = Outputs(w, xs)]
  /\ UNCHANGED <<dirVars, todo, target, written, valid, last, cutShort>>

\* write_evidence gets the directory's lock, for a run with the extra artifacts
\* xs (those that are not blank).  A call that waits for the lock, or that gives
\* up after portalocker's 120 s, has changed nothing.
Acquire(w, xs) ==
  /\ runs < MaxRuns
  /\ lock = Nobody
  /\ Goto(w, "idle", "backup")
  /\ lock' = w
  /\ runs' = runs + 1
  /\ run' = [run EXCEPT ![w] = runs + 1]
  /\ planned' = [planned EXCEPT ![runs + 1] = Outputs(w, xs)]
  /\ UNCHANGED <<dirVars, todo, target, written, valid, last, cutShort>>

\* Mutant of BackupFirst: only the backup that follows the manifest is taken.
SkipFirstBackup(w) ==
  /\ Goto(w, "backup", "list")
  /\ UNCHANGED <<dirVars, lock, callVars, histVars>>

\* A directory without a manifest is not backed up.  Otherwise shutil.copy2 opens
\* the backup for writing, which truncates it, and then copies the manifest,
\* whatever state that is in.
BackupFirst(w) ==
  /\ Goto(w, "backup", IF manifest = Absent THEN "list" ELSE "copying")
  /\ backup' = IF manifest = Absent THEN backup ELSE Torn
  /\ UNCHANGED <<disk, manifest, lock, callVars, histVars>>

CopyFirst(w) ==
  /\ Goto(w, "copying", "list")
  /\ backup' = manifest
  /\ UNCHANGED <<disk, manifest, lock, callVars, histVars>>

\* Mutant of List: the listing has the lock file in it.
ListWithLock(w) ==
  /\ Goto(w, "list", "clean")
  /\ todo' = [todo EXCEPT ![w] = Present(disk) \cup {ManifestName, <<".lock", "plain">>}]
  /\ UNCHANGED <<dirVars, lock, run, target, written, histVars>>

\* The cleaning loop iterates over a listing of every regular file but .lock.
List(w) ==
  /\ Goto(w, "list", "clean")
  /\ todo' = [todo EXCEPT ![w] =
       Present(disk) \cup (IF manifest = Absent THEN {} ELSE {ManifestName})]
  /\ UNCHANGED <<dirVars, lock, run, target, written, histVars>>

\* The loop unlinks one file, or swallows the OSError and leaves it there.
Unlink(w, f) ==
  /\ pc[w] = "clean" /\ f \in todo[w]
  /\ todo' = [todo EXCEPT ![w] = @ \ {f}]
  /\ IF f = ManifestName
       THEN manifest' = Absent /\ UNCHANGED disk
       ELSE disk' = [disk EXCEPT ![f] = 0] /\ UNCHANGED manifest
  /\ UNCHANGED <<backup, lock, pc, run, target, written, histVars>>

UnlinkFails(w, f) ==
  /\ pc[w] = "clean" /\ f \in todo[w]
  /\ todo' = [todo EXCEPT ![w] = @ \ {f}]
  /\ UNCHANGED <<dirVars, lock, pc, run, target, written, histVars>>

Cleaned(w) ==
  /\ todo[w] = {}
  /\ Goto(w, "clean", "extras")
  /\ todo' = [todo EXCEPT ![w] = planned[run[w]] \ {Stored(w, Report), StubFile}]
  /\ UNCHANGED <<dirVars, lock, run, target, written, histVars>>

\* _atomic_write_text, first half: the bytes go to a temporary file ...
WriteTmp(w, f) ==
  /\ disk' = [disk EXCEPT ![TmpOf(f)] = run[w]]
  /\ target' = [target EXCEPT ![w] = f]

\* ... second half: os.replace moves it over the final name.
Replace(w) ==
  /\ disk' = [disk EXCEPT ![target[w]] = disk[TmpOf(target[w])],
                          ![TmpOf(target[w])] = 0]
  /\ written' = [written EXCEPT ![w] = @ \cup {target[w]}]

WriteExtra(w, f) ==
  /\ f \in todo[w]
  /\ Goto(w, "extras", "swap")
  /\ WriteTmp(w, f)
  /\ todo' = [todo EXCEPT ![w] = @ \ {f}]
  /\ UNCHANGED <<manifest, backup, lock, run, written, histVars>>

SwapExtra(w) ==
  /\ Goto(w, "swap", "extras")
  /\ Replace(w)
  /\ UNCHANGED <<manifest, backup, lock, run, todo, target, histVars>>

\* validate_evidence accepts the payload.  When it raises, the call ends like
\* any other that Stops, with the directory already emptied.
Validate(w) ==
  /\ todo[w] = {}
  /\ Goto(w, "extras", "report")
  /\ valid' = valid \cup {run[w]}
  /\ UNCHANGED <<dirVars, lock, callVars, runs, planned, last, cutShort>>

WriteReport(w) ==
  /\ Goto(w, "report", "swapReport")
  /\ WriteTmp(w, Stored(w, Report))
  /\ UNCHANGED <<manifest, backup, lock, run, todo, written, histVars>>

SwapReport(w) ==
  /\ Goto(w, "swapReport", "stub")
  /\ Replace(w)
  /\ UNCHANGED <<manifest, backup, lock, run, todo, target, histVars>>

\* _verify_artifacts_exist, then the plain-text stub of an encrypted report.
WriteStub(w) ==
  /\ written[w] \subseteq Present(disk)
  /\ Goto(w, "stub", "manifest")
  /\ IF w \in Encrypting
       THEN /\ disk' = [disk EXCEPT ![StubFile] = run[w]]
            /\ written' = [written EXCEPT ![w] = @ \cup {StubFile}]
       ELSE UNCHANGED <<disk, written>>
  /\ UNCHANGED <<manifest, backup, lock, run, todo, target, histVars>>

\* build_manifest hashes the files the call wrote that exist; write_manifest
\* opens manifest.json, which truncates it, and then writes the text.
StartManifest(w) ==
  /\ Goto(w, "manifest", "writing")
  /\ manifest' = Torn
  /\ UNCHANGED <<disk, backup, lock, callVars, histVars>>

\* Mutant of WriteManifest: it lists what is in the directory, not what the call wrote.
ListDirectory(w) ==
  /\ Goto(w, "writing", "rebackup")
  /\ manifest' = [kind |-> "whole", run |-> run[w], mac |-> MacOf[w], listed |-> disk]
  /\ last' = run[w]
  /\ cutShort' = FALSE
  /\ UNCHANGED <<disk, backup, lock, callVars, runs, planned, valid>>

WriteManifest(w) ==
  /\ Goto(w, "writing", "rebackup")
  /\ manifest' = [kind |-> "whole", run |-> run[w], mac |-> MacOf[w],
                  listed |-> [f \in File |-> IF f \in written[w] THEN disk[f] ELSE 0]]
  /\ last' = run[w]
  /\ cutShort' = FALSE
  /\ UNCHANGED <<disk, backup, lock, callVars, runs, planned, valid>>

BackupAgain(w) ==
  /\ Goto(w, "rebackup", "recopying")
  /\ backup' = Torn
  /\ UNCHANGED <<disk, manifest, lock, callVars, histVars>>

\* The call is over: its locals are gone and the lock is free.
Leave(w) ==
  /\ pc' = [pc EXCEPT ![w] = "idle"]
  /\ lock' = IF lock = w THEN Nobody ELSE lock
  /\ run' = [run EXCEPT ![w] = 0]
  /\ todo' = [todo EXCEPT ![w] = {}]
  /\ target' = [target EXCEPT ![w] = StubFile]
  /\ written' = [written EXCEPT ![w] = {}]

CopyAgain(w) ==
  /\ pc[w] = "recopying"
  /\ backup' = manifest
  /\ Leave(w)
  /\ UNCHANGED <<disk, manifest, histVars>>

\* The call raises or its process dies.
Stop(w) ==
  /\ pc[w] # "idle"
  /\ Leave(w)
  /\ cutShort' = (cutShort \/ pc[w] = "writing")
  /\ UNCHANGED <<dirVars, runs, planned, valid, last>>

Next ==
  \E w \in Writer :
    \/ \E xs \in SUBSET Extra : Acquire(w, xs)
    \/ BackupFirst(w)
    \/ CopyFirst(w)
    \/ List(w)
    \/ \E f \in File \cup {ManifestName} : Unlink(w, f) \/ UnlinkFails(w, f)
    \/ Cleaned(w)
    \/ \E f \in File : WriteExtra(w, f)
    \/ SwapExtra(w)
    \/ Validate(w)
    \/ WriteReport(w)
    \/ SwapReport(w)
    \/ WriteStub(w)
    \/ StartManifest(w)
    \/ WriteManifest(w)
    \/ BackupAgain(w)
    \/ CopyAgain(w)
    \/ Stop(w)

Spec == Init /\ [][Next]_vars
----------------------------------------------------------------------------
\* What verify_manifest concludes from a directory that holds still, for a
\* process whose SENTINEL_HMAC_KEY is key: the manifest is whole, every listed
\* file exists with the listed hash, no other file is there, and the manifest is
\* signed with that key (or unsigned, and there is no key).
Verifies(key) ==
  /\ manifest.kind = "whole"
  /\ \A f \in File : disk[f] = manifest.listed[f]
  /\ manifest.mac = key

\* The directory as its readers know it: the run whose evidence it shows, if any.
Published == IF \E key \in {NoKey} \cup {MacOf[w] : w \in Writer} : Verifies(key)
               THEN manifest.run ELSE 0

Manifest == [kind : {"absent", "torn", "whole"}, run : 0 .. MaxRuns,
             mac : {NoKey} \cup {MacOf[w] : w \in Writer}, listed : [File -> 0 .. MaxRuns]]

TypeOK ==
  /\ disk \in [File -> 0 .. MaxRuns]
  /\ manifest \in Manifest /\ backup \in Manifest
  /\ lock \in Writer \cup {Nobody}
  /\ pc \in [Writer -> Holding \cup {"idle"}]
  /\ run \in [Writer -> 0 .. MaxRuns]
  /\ todo \in [Writer -> SUBSET (File \cup {ManifestName})]
  /\ target \in [Writer -> File]
  /\ written \in [Writer -> SUBSET File]
  /\ runs \in 0 .. MaxRuns
  /\ planned \in [Run -> SUBSET File]
  /\ valid \subseteq Run
  /\ last \in 0 .. MaxRuns
  /\ cutShort \in BOOLEAN

\* A directory that verifies shows one whole run: every file in it comes from
\* the run that wrote the manifest, nothing that run had to publish is missing,
\* nothing else is there, and the run's payload passed validation.  Neither a
\* writer that stopped anywhere, nor one that could not unlink an old file, nor
\* two collectors at once make a directory verify that mixes runs
\* (docs/SECURITY.md: "Concurrent runs corrupt evidence").
VerifiedIsOneRun ==
  Published # 0 =>
    /\ Published \in valid
    /\ Present(disk) = planned[Published]
    /\ \A f \in Present(disk) : disk[f] = Published

\* The manifest of the last run that completed is never lost, in whatever state
\* a later run left the directory: it is in place or in manifests/.  The exception
\* is a writer that stopped between truncating manifest.json and writing it, for
\* the next one copies the truncated manifest over the good backup
\* (docs/SECURITY.md, on the loss of a manifest: "Backup copy under
\* `evidence/<date>/manifests/`").
ManifestSurvives ==
  last # 0 /\ ~cutShort =>
    \E m \in {manifest, backup} : m.kind = "whole" /\ m.run = last

\* The directory is an EvidenceDirectory: it shows the newest completed run or
\* none, and changes from one to another only by showing none in between.
Directory == INSTANCE EvidenceDirectory WITH published <- Published, newest <- last
ImplementsDirectory == Directory!Spec

============================================================================
