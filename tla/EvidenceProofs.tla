--------------------------- MODULE EvidenceProofs ---------------------------
(***************************************************************************)
(* What a control directory keeps to, and what an auditor who takes no     *)
(* lock may conclude from it, for any number of collectors that run and    *)
(* stop anywhere, and any artifacts and keys: EvidenceStore first, then    *)
(* EvidenceVerification.                                                   *)
(***************************************************************************)
EXTENDS EvidenceVerification, TLAPS

----------------------------------------------------------------------------
\* File names.

\* A name a file keeps, as opposed to a temporary one.
Final(f) == f \in File /\ f[2] \in {"plain", "enc"}

LEMMA StubIsFinal == StubFile \in File /\ Final(StubFile)
BY DEF StubFile, File, Form, Final

LEMMA StoredIsFinal ==
  ASSUME NEW w \in Writer, NEW name \in Extra \cup {Report}
  PROVE  Stored(w, name) \in File /\ Final(Stored(w, name)) /\ Stored(w, name) # StubFile
<1>1. Stored(w, name) = <<name, "enc">> \/ Stored(w, name) = <<name, "plain">>
  BY DEF Stored
<1>2. name # Stub
  BY StoreAssumption DEF Report, Stub
<1> QED
  BY <1>1, <1>2 DEF File, Form, Final, StubFile

LEMMA TmpIsFile ==
  ASSUME NEW f \in File
  PROVE  TmpOf(f) \in File /\ ~Final(TmpOf(f))
<1>1. TmpOf(f) = <<f[1], "enc.tmp">> \/ TmpOf(f) = <<f[1], "plain.tmp">>
  BY DEF TmpOf
<1>2. f[1] \in Extra \cup {Report, Stub}
  BY DEF File
<1> QED
  BY <1>1, <1>2 DEF File, Form, Final

\* A run publishes files with final names, its report among them, and a stub
\* exactly when it encrypts.
LEMMA OutputsAreFinal ==
  ASSUME NEW w \in Writer, NEW xs \in SUBSET Extra
  PROVE  /\ Outputs(w, xs) \in SUBSET File
         /\ \A f \in Outputs(w, xs) : Final(f)
         /\ Stored(w, Report) \in Outputs(w, xs)
         /\ StubFile \in Outputs(w, xs) <=> w \in Encrypting
<1>1. \A f \in Outputs(w, xs) : f = StubFile \/ \E name \in xs \cup {Report} : f = Stored(w, name)
  BY DEF Outputs
<1>2. \A f \in Outputs(w, xs) : Final(f)
  BY <1>1, StubIsFinal, StoredIsFinal
<1>3. Stored(w, Report) \in Outputs(w, xs)
  BY DEF Outputs
<1>4. StubFile \in Outputs(w, xs) <=> w \in Encrypting
  <2>1. \A name \in xs \cup {Report} : Stored(w, name) # StubFile
    BY StoredIsFinal
  <2> QED
    BY <2>1 DEF Outputs
<1> QED
  BY <1>2, <1>3, <1>4 DEF Final

----------------------------------------------------------------------------
\* Type correctness.

LEMMA ManifestTypes == Absent \in Manifest /\ Torn \in Manifest /\ Torn # Absent
                       /\ Torn.kind = "torn" /\ Absent.kind = "absent"
BY StoreAssumption DEF Manifest, Absent, Torn, Empty

\* A call in progress performs one of the runs started.
Active == \A w \in Writer : pc[w] # "idle" => run[w] \in Run /\ run[w] <= runs

LEMMA TypeStep == TypeOK /\ Active /\ [Next]_vars => TypeOK'
<1> USE StoreAssumption, StubIsFinal
<1> SUFFICES ASSUME TypeOK, Active, [Next]_vars PROVE TypeOK'
  OBVIOUS
<1> USE DEF TypeOK, callVars, histVars, dirVars, Goto, Holding
<1>1. ASSUME NEW w \in Writer, NEW xs \in SUBSET Extra, Acquire(w, xs) PROVE TypeOK'
  BY <1>1, OutputsAreFinal DEF Acquire, Run, Active
<1>2. ASSUME NEW w \in Writer, BackupFirst(w) PROVE TypeOK'
  BY <1>2, ManifestTypes DEF BackupFirst
<1>3. ASSUME NEW w \in Writer, CopyFirst(w) PROVE TypeOK'
  BY <1>3 DEF CopyFirst
<1>4. ASSUME NEW w \in Writer, List(w) PROVE TypeOK'
  BY <1>4 DEF List, Present
<1>5. ASSUME NEW w \in Writer, NEW f \in File \cup {ManifestName}, Unlink(w, f) PROVE TypeOK'
  BY <1>5, ManifestTypes DEF Unlink
<1>6. ASSUME NEW w \in Writer, NEW f \in File \cup {ManifestName}, UnlinkFails(w, f) PROVE TypeOK'
  BY <1>6 DEF UnlinkFails
<1>7. ASSUME NEW w \in Writer, Cleaned(w) PROVE TypeOK'
  BY <1>7 DEF Cleaned, Active
<1>8. ASSUME NEW w \in Writer, NEW f \in File, WriteExtra(w, f) PROVE TypeOK'
  BY <1>8, TmpIsFile DEF WriteExtra, WriteTmp
<1>9. ASSUME NEW w \in Writer, SwapExtra(w) \/ SwapReport(w) PROVE TypeOK'
  BY <1>9, TmpIsFile DEF SwapExtra, SwapReport, Replace
<1>10. ASSUME NEW w \in Writer, Validate(w) PROVE TypeOK'
  BY <1>10 DEF Validate, Active
<1>11. ASSUME NEW w \in Writer, WriteReport(w) PROVE TypeOK'
  BY <1>11, TmpIsFile, StoredIsFinal DEF WriteReport, WriteTmp
<1>12. ASSUME NEW w \in Writer, WriteStub(w) PROVE TypeOK'
  BY <1>12 DEF WriteStub
<1>13. ASSUME NEW w \in Writer, StartManifest(w) PROVE TypeOK'
  BY <1>13, ManifestTypes DEF StartManifest
<1>14. ASSUME NEW w \in Writer, WriteManifest(w) PROVE TypeOK'
  <2>1. run[w] \in 0 .. MaxRuns /\ run[w] \in Run
    BY <1>14 DEF WriteManifest, Active, Run
  <2>2. [f \in File |-> IF f \in written[w] THEN disk[f] ELSE 0] \in [File -> 0 .. MaxRuns]
    OBVIOUS
  <2>3. manifest' \in Manifest
    BY <1>14, <2>1, <2>2 DEF WriteManifest, Manifest
  <2> QED
    BY <1>14, <2>1, <2>3 DEF WriteManifest
<1>15. ASSUME NEW w \in Writer, BackupAgain(w) PROVE TypeOK'
  BY <1>15, ManifestTypes DEF BackupAgain
<1>16. ASSUME NEW w \in Writer, CopyAgain(w) PROVE TypeOK'
  BY <1>16 DEF CopyAgain, Leave
<1>17. ASSUME NEW w \in Writer, Stop(w) PROVE TypeOK'
  BY <1>17 DEF Stop, Leave
<1>18. CASE UNCHANGED vars
  BY <1>18 DEF vars
<1> QED
  BY <1>1, <1>2, <1>3, <1>4, <1>5, <1>6, <1>7, <1>8, <1>9, <1>10, <1>11, <1>12,
     <1>13, <1>14, <1>15, <1>16, <1>17, <1>18 DEF Next

LEMMA ActiveStep == TypeOK /\ Active /\ [Next]_vars => Active'
<1> USE StoreAssumption
<1> SUFFICES ASSUME TypeOK, Active, [Next]_vars PROVE Active'
  OBVIOUS
<1>1. ASSUME NEW w \in Writer, NEW xs \in SUBSET Extra, Acquire(w, xs) PROVE Active'
  BY <1>1 DEF Acquire, Goto, Active, TypeOK, Run
<1>2. ASSUME NEW w \in Writer, CopyAgain(w) \/ Stop(w) PROVE Active'
  BY <1>2 DEF CopyAgain, Stop, Leave, Active, TypeOK, histVars
<1>3. ASSUME UNCHANGED <<run, runs>>,
             \A v \in Writer : pc[v] = "idle" => pc'[v] = "idle"
      PROVE  Active'
  BY <1>3 DEF Active
<1>4. ASSUME NEW w \in Writer, NEW f,
             \/ BackupFirst(w) \/ CopyFirst(w) \/ List(w) \/ Unlink(w, f) \/ UnlinkFails(w, f)
             \/ Cleaned(w) \/ WriteExtra(w, f) \/ SwapExtra(w)
      PROVE  Active'
  <2>1. UNCHANGED <<run, runs>>
    BY <1>4 DEF BackupFirst, CopyFirst, List, Unlink, UnlinkFails, Cleaned, WriteExtra,
                SwapExtra, callVars, histVars, Replace, WriteTmp
  <2>2. \A v \in Writer : pc[v] = "idle" => pc'[v] = "idle"
    BY <1>4 DEF BackupFirst, CopyFirst, List, Unlink, UnlinkFails, Cleaned, WriteExtra,
                SwapExtra, Goto, TypeOK
  <2> QED
    BY <1>3, <2>1, <2>2
<1>5. ASSUME NEW w \in Writer,
             \/ Validate(w) \/ WriteReport(w) \/ SwapReport(w) \/ WriteStub(w)
             \/ StartManifest(w) \/ WriteManifest(w) \/ BackupAgain(w)
      PROVE  Active'
  <2>1. UNCHANGED <<run, runs>>
    BY <1>5 DEF Validate, WriteReport, SwapReport, WriteStub, StartManifest,
                WriteManifest, BackupAgain, callVars, histVars, Replace, WriteTmp
  <2>2. \A v \in Writer : pc[v] = "idle" => pc'[v] = "idle"
    BY <1>5 DEF Validate, WriteReport, SwapReport, WriteStub, StartManifest,
                WriteManifest, BackupAgain, Goto, TypeOK
  <2> QED
    BY <1>3, <2>1, <2>2
<1>6. CASE UNCHANGED vars
  BY <1>6 DEF vars, callVars, histVars, Active
<1> QED
  BY <1>1, <1>2, <1>4, <1>5, <1>6 DEF Next

LEMMA InitTyped == Init => TypeOK /\ Active
<1> SUFFICES ASSUME Init PROVE TypeOK /\ Active
  OBVIOUS
<1>1. Empty \in [File -> 0 .. MaxRuns]
  BY StoreAssumption DEF Empty
<1>2. [r \in Run |-> {}] \in [Run -> SUBSET File]
  OBVIOUS
<1>3. pc \in [Writer -> Holding \cup {"idle"}]
  BY DEF Init
<1>4. Active
  BY DEF Init, Active
<1>5. 0 \in 0 .. MaxRuns
  BY StoreAssumption
<1>6. run \in [Writer -> 0 .. MaxRuns] /\ todo \in [Writer -> SUBSET (File \cup {ManifestName})]
  BY <1>5 DEF Init
<1>7. target \in [Writer -> File] /\ written \in [Writer -> SUBSET File]
  BY StubIsFinal DEF Init
<1>8. disk \in [File -> 0 .. MaxRuns] /\ planned \in [Run -> SUBSET File]
  BY <1>1, <1>2 DEF Init
<1> QED
  BY <1>3, <1>4, <1>5, <1>6, <1>7, <1>8, ManifestTypes DEF Init, TypeOK

\* Every variable keeps its type.
THEOREM TypeCorrect == Spec => []TypeOK
<1>1. TypeOK /\ Active /\ [Next]_vars => (TypeOK /\ Active)'
  BY TypeStep, ActiveStep
<1> QED
  BY <1>1, InitTyped, PTL DEF Spec

----------------------------------------------------------------------------
\* The inductive invariant.

\* At most one call is in progress: it holds the lock and performs the newest run.
Exclusive ==
  \A w \in Writer : pc[w] # "idle" => lock = w /\ run[w] = runs

ReportOf(w) == Stored(w, Report)

\* What a call in progress has to publish, and what it has published so far.
Progress(w) ==
  pc[w] # "idle" =>
    /\ \A f \in planned[run[w]] : Final(f)
    /\ ReportOf(w) \in planned[run[w]]
    /\ StubFile \in planned[run[w]] <=> w \in Encrypting
    /\ \A f \in written[w] : Final(f) /\ disk[f] = run[w]
    /\ pc[w] \in {"backup", "copying", "list", "clean"} => written[w] = {}
    /\ pc[w] = "extras" =>
         written[w] \cup todo[w] = planned[run[w]] \ {ReportOf(w), StubFile}
    /\ pc[w] = "swap" =>
         written[w] \cup todo[w] \cup {target[w]} = planned[run[w]] \ {ReportOf(w), StubFile}
    /\ pc[w] \in {"report", "swapReport"} =>
         written[w] = planned[run[w]] \ {ReportOf(w), StubFile}
    /\ pc[w] = "swapReport" => target[w] = ReportOf(w)
    /\ pc[w] \in {"swap", "swapReport"} => disk[TmpOf(target[w])] = run[w]
    /\ pc[w] = "stub" => written[w] = planned[run[w]] \ {StubFile}
    /\ pc[w] \in {"manifest", "writing"} => written[w] = planned[run[w]]
    /\ pc[w] \in {"report", "swapReport", "stub", "manifest", "writing"} => run[w] \in valid

\* Outside a call nothing is half done.
AtRest == \A w \in Writer : pc[w] = "idle" => written[w] = {}

\* A whole manifest lists what its run published, and is the last one written.
Truthful ==
  manifest.kind = "whole" =>
    /\ manifest.run = last
    /\ manifest.run \in valid /\ manifest.run <= runs
    /\ \A f \in File : manifest.listed[f] =
                        IF f \in planned[manifest.run] THEN manifest.run ELSE 0

Safe ==
  /\ TypeOK /\ Active /\ Exclusive /\ AtRest
  /\ \A w \in Writer : Progress(w)
  /\ Truthful

LEMMA InitSafe == Init => Safe
<1> SUFFICES ASSUME Init PROVE Safe
  OBVIOUS
<1>1. \A w \in Writer : pc[w] = "idle" /\ written[w] = {}
  BY DEF Init
<1>2. Truthful
  BY ManifestTypes DEF Init, Truthful
<1> QED
  BY InitTyped, <1>1, <1>2 DEF Safe, Active, Exclusive, AtRest, Progress

LEMMA Alone ==
  ASSUME Safe, NEW w \in Writer, pc[w] # "idle" \/ lock = Nobody,
         NEW v \in Writer, v # w
  PROVE  pc[v] = "idle" /\ written[v] = {}
BY StoreAssumption DEF Safe, Exclusive, AtRest

\* When w alone takes a step, only w's progress has to be looked at.
LEMMA OnlyMine ==
  ASSUME Safe, NEW w \in Writer, pc[w] # "idle" \/ lock = Nobody, NEW there,
         pc' = [pc EXCEPT ![w] = there],
         \A v \in Writer : v # w => written'[v] = written[v],
         Progress(w)'
  PROVE  \A v \in Writer : Progress(v)'
<1> SUFFICES ASSUME NEW v \in Writer, v # w PROVE Progress(v)'
  OBVIOUS
<1>1. pc'[v] = "idle"
  BY Alone DEF Safe, TypeOK
<1> QED
  BY <1>1 DEF Progress

LEMMA AcquireSafe ==
  ASSUME Safe, NEW w \in Writer, NEW xs \in SUBSET Extra, Acquire(w, xs)
  PROVE  Exclusive' /\ AtRest' /\ (\A v \in Writer : Progress(v))' /\ Truthful'
<1> USE StoreAssumption
<1>1. /\ TypeOK /\ lock = Nobody /\ pc[w] = "idle" /\ written[w] = {}
      /\ pc' = [pc EXCEPT ![w] = "backup"] /\ written' = written /\ lock' = w
      /\ runs' = runs + 1 /\ run' = [run EXCEPT ![w] = runs + 1]
      /\ runs + 1 \in Run /\ runs \in Nat
      /\ planned' = [planned EXCEPT ![runs + 1] = Outputs(w, xs)]
      /\ UNCHANGED <<disk, manifest, valid, last>>
  BY DEF Safe, TypeOK, Acquire, Goto, AtRest, dirVars, Run
<1>2. Exclusive' /\ AtRest'
  BY <1>1, Alone DEF Exclusive, AtRest, TypeOK, Safe
<1>3. Progress(w)'
  BY <1>1, OutputsAreFinal DEF Progress, ReportOf, Stored, TypeOK
<1>4. \A v \in Writer : Progress(v)'
  BY <1>1, <1>3, OnlyMine
<1>5. Truthful'
  <2> SUFFICES ASSUME manifest.kind = "whole" PROVE Truthful'
    BY <1>1 DEF Truthful
  <2>1. manifest.run \in valid /\ valid \subseteq Run /\ manifest.run <= runs
    BY <1>1 DEF Safe, Truthful, TypeOK
  <2>2. manifest.run \in Run /\ manifest.run # runs + 1 /\ manifest.run <= runs + 1
    <3>1. manifest.run \in Run
      BY <2>1
    <3>2. manifest.run \in Nat
      BY <3>1 DEF Run
    <3> QED
      BY <1>1, <2>1, <3>1, <3>2
  <2>3. planned'[manifest.run] = planned[manifest.run]
    BY <1>1, <2>2 DEF TypeOK
  <2> QED
    BY <1>1, <2>1, <2>2, <2>3 DEF Truthful, Safe
<1> QED
  BY <1>2, <1>4, <1>5

\* A step of a call in progress that neither ends it nor touches the manifest or
\* what runs have to publish.
LEMMA InnerSafe ==
  ASSUME Safe, NEW w \in Writer, pc[w] # "idle", NEW there, there # "idle",
         pc' = [pc EXCEPT ![w] = there],
         UNCHANGED <<lock, run, runs>>,
         \A v \in Writer : v # w => written'[v] = written[v]
  PROVE  Exclusive' /\ AtRest'
BY Alone DEF Safe, Exclusive, AtRest, TypeOK

\* Backing up, listing and unlinking leave what the manifest says alone.
LEMMA CleaningSafe ==
  ASSUME Safe, NEW w \in Writer, NEW f \in File \cup {ManifestName},
         BackupFirst(w) \/ CopyFirst(w) \/ List(w) \/ Unlink(w, f) \/ UnlinkFails(w, f)
  PROVE  Exclusive' /\ AtRest' /\ (\A v \in Writer : Progress(v))' /\ Truthful'
<1>1. PICK there \in {"copying", "list", "clean"} : pc' = [pc EXCEPT ![w] = there]
  <2>1. pc = [pc EXCEPT ![w] = pc[w]]
    BY DEF Safe, TypeOK
  <2> QED
    BY <2>1 DEF BackupFirst, CopyFirst, List, Unlink, UnlinkFails, Goto
<1>2. /\ pc[w] \in {"backup", "copying", "list", "clean"}
      /\ UNCHANGED <<lock, run, runs, written, valid, planned, last>>
      /\ manifest' = manifest \/ manifest' = Absent
  BY DEF BackupFirst, CopyFirst, List, Unlink, UnlinkFails, Goto, callVars, histVars, dirVars
<1>3. Exclusive' /\ AtRest'
  BY <1>1, <1>2, InnerSafe
<1>4. Progress(w)'
  BY SMTT(30), <1>1, <1>2 DEF Safe, Progress, TypeOK, ReportOf, Stored
<1>5. \A v \in Writer : Progress(v)'
  BY <1>1, <1>2, <1>4, OnlyMine
<1>6. Truthful'
  BY <1>2, ManifestTypes DEF Safe, Truthful
<1> QED
  BY <1>3, <1>5, <1>6

LEMMA CleanedSafe ==
  ASSUME Safe, NEW w \in Writer, Cleaned(w)
  PROVE  Exclusive' /\ AtRest' /\ (\A v \in Writer : Progress(v))' /\ Truthful'
<1>1. /\ TypeOK /\ pc[w] = "clean" /\ pc' = [pc EXCEPT ![w] = "extras"]
      /\ todo' = [todo EXCEPT ![w] = planned[run[w]] \ {ReportOf(w), StubFile}]
      /\ UNCHANGED <<lock, run, runs, written, valid, planned, last, disk, manifest>>
  BY DEF Safe, Cleaned, Goto, histVars, dirVars, ReportOf
<1>2. Exclusive' /\ AtRest'
  BY <1>1, InnerSafe
<1>3. Progress(w)'
  <2>1. Progress(w) /\ written[w] = {} /\ pc'[w] = "extras"
    BY <1>1 DEF Safe, Progress, TypeOK
  <2>2. todo'[w] = planned[run[w]] \ {ReportOf(w), StubFile}
    BY <1>1 DEF TypeOK
  <2> QED
    BY <1>1, <2>1, <2>2 DEF Progress, ReportOf, Stored
<1>4. \A v \in Writer : Progress(v)'
  BY <1>1, <1>3, OnlyMine
<1>5. Truthful'
  BY <1>1 DEF Safe, Truthful
<1> QED
  BY <1>2, <1>4, <1>5

\* A write to a temporary name disturbs no published file.
LEMMA WriteTmpSafe ==
  ASSUME Safe, NEW w \in Writer,
         (\E f \in File : WriteExtra(w, f)) \/ WriteReport(w)
  PROVE  Exclusive' /\ AtRest' /\ (\A v \in Writer : Progress(v))' /\ Truthful'
<1>1. PICK f \in File, there \in {"swap", "swapReport"} :
        /\ pc' = [pc EXCEPT ![w] = there]
        /\ disk' = [disk EXCEPT ![TmpOf(f)] = run[w]]
        /\ target' = [target EXCEPT ![w] = f]
        /\ there = "swap" => /\ pc[w] = "extras" /\ f \in todo[w]
                             /\ todo' = [todo EXCEPT ![w] = @ \ {f}]
        /\ there = "swapReport" => pc[w] = "report" /\ f = ReportOf(w) /\ todo' = todo
  <2>1. ReportOf(w) \in File
    BY StoredIsFinal DEF ReportOf
  <2> QED
    BY <2>1 DEF WriteExtra, WriteReport, Goto, WriteTmp, ReportOf
<1>2. /\ TypeOK /\ pc[w] \in {"extras", "report"}
      /\ UNCHANGED <<lock, run, runs, written, valid, planned, last, manifest>>
  BY DEF Safe, WriteExtra, WriteReport, Goto, histVars
<1>3. Exclusive' /\ AtRest'
  BY <1>1, <1>2, InnerSafe
<1>4. TmpOf(f) \in File /\ \A g \in written[w] : g # TmpOf(f)
  BY <1>2, TmpIsFile DEF Safe, Progress
<1>5. \A g \in written[w] : disk'[g] = disk[g]
  BY <1>1, <1>2, <1>4 DEF TypeOK
<1>6. disk'[TmpOf(target'[w])] = run'[w] /\ target'[w] = f
  BY <1>1, <1>2, <1>4 DEF TypeOK
<1>7. Progress(w)'
  <2>1. Progress(w) /\ pc'[w] = there
    BY <1>1, <1>2 DEF Safe, TypeOK
  <2>2. CASE there = "swap"
    <3>1. todo'[w] = todo[w] \ {f} /\ f \in todo[w] /\ pc[w] = "extras"
      BY <1>1, <1>2, <2>2 DEF TypeOK
    <3>2. written'[w] \cup todo'[w] \cup {target'[w]} = planned[run[w]] \ {ReportOf(w), StubFile}
      BY <1>2, <1>6, <2>1, <3>1 DEF Progress
    <3> QED
      BY <1>2, <1>5, <1>6, <2>1, <2>2, <3>1, <3>2 DEF Progress, ReportOf, Stored
  <2>3. CASE there = "swapReport"
    BY <1>1, <1>2, <1>5, <1>6, <2>1, <2>3 DEF Progress, ReportOf, Stored
  <2> QED
    BY <2>2, <2>3
<1>8. \A v \in Writer : Progress(v)'
  BY <1>1, <1>2, <1>7, OnlyMine
<1>9. Truthful'
  BY <1>2 DEF Safe, Truthful
<1> QED
  BY <1>3, <1>8, <1>9

\* Moving a temporary file over its final name publishes one file of the run.
LEMMA ReplaceSafe ==
  ASSUME Safe, NEW w \in Writer, SwapExtra(w) \/ SwapReport(w)
  PROVE  Exclusive' /\ AtRest' /\ (\A v \in Writer : Progress(v))' /\ Truthful'
<1>1. PICK there \in {"extras", "stub"} :
        /\ pc' = [pc EXCEPT ![w] = there]
        /\ there = "extras" => pc[w] = "swap"
        /\ there = "stub" => pc[w] = "swapReport"
  BY DEF SwapExtra, SwapReport, Goto
<1>2. /\ TypeOK /\ pc[w] \in {"swap", "swapReport"}
      /\ disk' = [disk EXCEPT ![target[w]] = disk[TmpOf(target[w])],
                              ![TmpOf(target[w])] = 0]
      /\ written' = [written EXCEPT ![w] = @ \cup {target[w]}]
      /\ UNCHANGED <<lock, run, runs, todo, target, valid, planned, last, manifest>>
  BY DEF Safe, SwapExtra, SwapReport, Goto, Replace, histVars
<1>3. Progress(w) /\ pc'[w] = there
  BY <1>1, <1>2 DEF Safe, TypeOK
<1>4. written'[w] = written[w] \cup {target[w]}
      /\ \A v \in Writer : v # w => written'[v] = written[v]
  BY <1>2 DEF TypeOK
<1>5. Exclusive' /\ AtRest'
  BY <1>1, <1>2, <1>4, InnerSafe
<1>6. target[w] \in planned[run[w]] /\ Final(target[w])
  BY <1>2, <1>3 DEF Progress
<1>7. disk[TmpOf(target[w])] = run[w] /\ target[w] # TmpOf(target[w])
      /\ \A f \in written[w] : f \in File /\ f # TmpOf(target[w])
  BY <1>2, <1>3, <1>6, TmpIsFile DEF Progress, Final
<1>8. \A f \in written'[w] : Final(f) /\ disk'[f] = run[w]
  <2>1. disk'[target[w]] = run[w]
    BY <1>2, <1>6, <1>7 DEF TypeOK, Final
  <2>2. \A f \in written[w] : disk'[f] = disk[f] \/ f = target[w]
    BY <1>2, <1>7 DEF TypeOK
  <2> QED
    BY <1>2, <1>3, <1>4, <1>6, <2>1, <2>2 DEF Progress
<1>9. Progress(w)'
  <2>1. CASE there = "extras"
    BY <1>1, <1>2, <1>3, <1>4, <1>8, <2>1 DEF Progress, ReportOf, Stored
  <2>2. CASE there = "stub"
    <3>1. ReportOf(w) # StubFile
      BY StoredIsFinal DEF ReportOf
    <3>2. written'[w] = planned[run[w]] \ {StubFile}
      BY <1>1, <1>3, <1>4, <2>2, <3>1 DEF Progress
    <3>3. run[w] \in valid
      BY <1>1, <1>3, <2>2 DEF Progress
    <3> QED
      BY <1>1, <1>2, <1>3, <1>8, <2>2, <3>2, <3>3 DEF Progress, ReportOf, Stored
  <2> QED
    BY <2>1, <2>2
<1>10. \A v \in Writer : Progress(v)'
  BY <1>1, <1>2, <1>4, <1>9, OnlyMine
<1>11. Truthful'
  BY <1>2 DEF Safe, Truthful
<1> QED
  BY <1>5, <1>10, <1>11

LEMMA ValidateSafe ==
  ASSUME Safe, NEW w \in Writer, Validate(w)
  PROVE  Exclusive' /\ AtRest' /\ (\A v \in Writer : Progress(v))' /\ Truthful'
<1>1. /\ TypeOK /\ pc[w] = "extras" /\ pc' = [pc EXCEPT ![w] = "report"] /\ todo[w] = {}
      /\ valid' = valid \cup {run[w]}
      /\ UNCHANGED <<lock, run, runs, written, todo, target, planned, last, disk, manifest>>
  BY DEF Safe, Validate, Goto, callVars, dirVars
<1>2. Exclusive' /\ AtRest'
  BY <1>1, InnerSafe
<1>3. Progress(w) /\ pc'[w] = "report"
  BY <1>1 DEF Safe, TypeOK
<1>4. Progress(w)'
  BY <1>1, <1>3 DEF Progress, ReportOf, Stored
<1>5. \A v \in Writer : Progress(v)'
  BY <1>1, <1>4, OnlyMine
<1>6. Truthful'
  BY <1>1 DEF Safe, Truthful
<1> QED
  BY <1>2, <1>5, <1>6

LEMMA StubSafe ==
  ASSUME Safe, NEW w \in Writer, WriteStub(w)
  PROVE  Exclusive' /\ AtRest' /\ (\A v \in Writer : Progress(v))' /\ Truthful'
<1>1. /\ TypeOK /\ pc[w] = "stub" /\ pc' = [pc EXCEPT ![w] = "manifest"]
      /\ UNCHANGED <<lock, run, runs, todo, target, valid, planned, last, manifest>>
      /\ w \in Encrypting =>
           /\ disk' = [disk EXCEPT ![StubFile] = run[w]]
           /\ written' = [written EXCEPT ![w] = @ \cup {StubFile}]
      /\ w \notin Encrypting => disk' = disk /\ written' = written
  BY DEF Safe, WriteStub, Goto, histVars
<1>2. Progress(w) /\ pc'[w] = "manifest"
  BY <1>1 DEF Safe, TypeOK
<1>3. /\ written'[w] = planned[run[w]]
      /\ \A f \in written'[w] : Final(f) /\ disk'[f] = run[w]
      /\ \A v \in Writer : v # w => written'[v] = written[v]
  <2>1. CASE w \in Encrypting
    <3>1. disk'[StubFile] = run[w] /\ \A f \in written[w] : disk'[f] = run[w]
      BY <1>1, <1>2, <2>1, StubIsFinal DEF Progress, TypeOK
    <3>2. written'[w] = written[w] \cup {StubFile}
      BY <1>1, <2>1 DEF TypeOK
    <3>3. written'[w] = planned[run[w]]
      BY <1>1, <1>2, <2>1, <3>2 DEF Progress
    <3>4. \A v \in Writer : v # w => written'[v] = written[v]
      BY <1>1, <2>1 DEF TypeOK
    <3> QED
      BY <1>1, <1>2, <3>1, <3>2, <3>3, <3>4, StubIsFinal DEF Progress
  <2>2. CASE w \notin Encrypting
    BY <1>1, <1>2, <2>2 DEF Progress
  <2> QED
    BY <2>1, <2>2
<1>4. Exclusive' /\ AtRest'
  BY <1>1, <1>3, InnerSafe
<1>5. Progress(w)'
  BY <1>1, <1>2, <1>3 DEF Progress, ReportOf, Stored
<1>6. \A v \in Writer : Progress(v)'
  BY <1>1, <1>3, <1>5, OnlyMine
<1>7. Truthful'
  BY <1>1 DEF Safe, Truthful
<1> QED
  BY <1>4, <1>6, <1>7

\* The manifest is written once everything the run has to publish is in place.
LEMMA ManifestSafe ==
  ASSUME Safe, NEW w \in Writer, StartManifest(w) \/ WriteManifest(w) \/ BackupAgain(w)
  PROVE  Exclusive' /\ AtRest' /\ (\A v \in Writer : Progress(v))' /\ Truthful'
<1>1. PICK there \in {"writing", "rebackup", "recopying"} :
        /\ pc' = [pc EXCEPT ![w] = there]
        /\ there = "writing" => pc[w] = "manifest" /\ manifest' = Torn /\ last' = last
        /\ there = "rebackup" => pc[w] = "writing" /\ WriteManifest(w)
        /\ there = "recopying" => pc[w] = "rebackup" /\ UNCHANGED <<manifest, last>>
  BY DEF StartManifest, WriteManifest, BackupAgain, Goto, histVars
<1>2. /\ TypeOK /\ pc[w] \in {"manifest", "writing", "rebackup"}
      /\ UNCHANGED <<disk, lock, run, runs, todo, target, written, valid, planned>>
  BY DEF Safe, StartManifest, WriteManifest, BackupAgain, Goto, callVars, histVars
<1>3. Exclusive' /\ AtRest'
  BY <1>1, <1>2, InnerSafe
<1>4. Progress(w) /\ pc'[w] = there
  BY <1>1, <1>2 DEF Safe, TypeOK
<1>5. Progress(w)'
  BY <1>1, <1>2, <1>4 DEF Progress, ReportOf, Stored
<1>6. \A v \in Writer : Progress(v)'
  BY <1>1, <1>2, <1>5, OnlyMine
<1>7. Truthful'
  <2>1. CASE there = "writing"
    BY <1>1, <2>1, ManifestTypes DEF Truthful
  <2>2. CASE there = "rebackup"
    <3>1. /\ manifest'.kind = "whole" /\ manifest'.run = run[w] /\ last' = run[w]
          /\ manifest'.listed = [f \in File |-> IF f \in written[w] THEN disk[f] ELSE 0]
      BY <1>1, <2>2 DEF WriteManifest
    <3>2. /\ written[w] = planned[run[w]] /\ run[w] \in valid
          /\ \A f \in written[w] : disk[f] = run[w]
      BY <1>1, <1>4, <2>2 DEF Progress
    <3>3. run[w] <= runs
      BY <1>2 DEF Safe, Active
    <3> QED
      BY <1>2, <3>1, <3>2, <3>3 DEF Truthful
  <2>3. CASE there = "recopying"
    BY <1>1, <1>2, <2>3 DEF Safe, Truthful
  <2> QED
    BY <2>1, <2>2, <2>3
<1> QED
  BY <1>3, <1>6, <1>7

LEMMA LeaveSafe ==
  ASSUME Safe, NEW w \in Writer, CopyAgain(w) \/ Stop(w)
  PROVE  Exclusive' /\ AtRest' /\ (\A v \in Writer : Progress(v))' /\ Truthful'
<1>1. /\ TypeOK /\ pc[w] # "idle" /\ Leave(w)
      /\ UNCHANGED <<disk, manifest, runs, planned, valid, last>>
  BY DEF Safe, CopyAgain, Stop, histVars, dirVars
<1>2. \A v \in Writer : pc'[v] = "idle"
  BY <1>1, Alone DEF Leave, TypeOK
<1>3. \A v \in Writer : written'[v] = {}
  BY <1>1, Alone DEF Leave, TypeOK
<1> QED
  BY <1>1, <1>2, <1>3 DEF Exclusive, AtRest, Progress, Safe, Truthful

LEMMA SafeStep == Safe /\ [Next]_vars => Safe'
<1> SUFFICES ASSUME Safe, [Next]_vars
             PROVE  Exclusive' /\ AtRest' /\ (\A v \in Writer : Progress(v))' /\ Truthful'
  BY TypeStep, ActiveStep DEF Safe
<1>1. CASE UNCHANGED vars
  BY <1>1 DEF vars, dirVars, callVars, histVars, Safe, Exclusive, AtRest, Progress, Truthful,
              ReportOf, Stored
<1> QED
  BY <1>1, AcquireSafe, CleaningSafe, CleanedSafe, WriteTmpSafe, ReplaceSafe, ValidateSafe,
     StubSafe, ManifestSafe, LeaveSafe DEF Next

LEMMA AlwaysSafe == Spec => []Safe
BY InitSafe, SafeStep, PTL DEF Spec

----------------------------------------------------------------------------
\* A directory that verifies shows exactly what one validated run published.
THEOREM OneRun == Spec => []VerifiedIsOneRun
<1>1. Safe => VerifiedIsOneRun
  <2> SUFFICES ASSUME Safe, Published # 0 PROVE VerifiedIsOneRun
    BY DEF VerifiedIsOneRun
  <2>1. /\ Published = manifest.run /\ manifest.kind = "whole"
        /\ \A f \in File : disk[f] = manifest.listed[f]
    BY DEF Published, Verifies
  <2>2. /\ Published \in valid
        /\ \A f \in File : disk[f] = IF f \in planned[Published] THEN Published ELSE 0
    BY <2>1 DEF Safe, Truthful
  <2>3. planned[Published] \subseteq File
    BY <2>2 DEF Safe, TypeOK
  <2> QED
    BY <2>2, <2>3 DEF VerifiedIsOneRun, Present
<1> QED
  BY <1>1, AlwaysSafe, PTL

----------------------------------------------------------------------------
\* The newest manifest survives.

Newest(m) == m.kind = "whole" /\ m.run = last

\* The stages of a call between its backup and the end of write_manifest.
Exposed == {"list", "clean", "extras", "swap", "report", "swapReport", "stub", "manifest",
            "writing"}

\* Where the newest manifest is, at each stage of a call.
Keeping(w) ==
  /\ pc[w] \in Exposed \cup {"backup", "copying"} => last < run[w]
  /\ pc[w] = "writing" => manifest.kind = "torn"
  /\ pc[w] \in {"rebackup", "recopying"} => Newest(manifest)
  /\ last # 0 /\ ~cutShort =>
       /\ pc[w] = "copying" => Newest(manifest)
       /\ pc[w] \in Exposed => Newest(backup)

\* A manifest is truncated only while it is being written, or after a writer
\* stopped there.
TornOnlyInside ==
  /\ manifest.kind = "absent" => manifest = Absent
  /\ manifest.kind = "torn" /\ ~cutShort => \E w \in Writer : pc[w] = "writing"

Kept ==
  /\ last <= runs
  /\ \A w \in Writer : Keeping(w)
  /\ TornOnlyInside
  /\ ManifestSurvives

LEMMA InitKept == Init => Kept
BY ManifestTypes DEF Init, Kept, Keeping, Exposed, TornOnlyInside, ManifestSurvives

\* Only the writer that takes the step has a stage to look at.
LEMMA OnlyMyStage ==
  ASSUME Safe, NEW w \in Writer, pc[w] # "idle" \/ lock = Nobody, NEW there,
         pc' = [pc EXCEPT ![w] = there], Keeping(w)'
  PROVE  \A v \in Writer : Keeping(v)'
<1> SUFFICES ASSUME NEW v \in Writer, v # w PROVE Keeping(v)'
  OBVIOUS
<1>1. pc'[v] = "idle"
  BY Alone DEF Safe, TypeOK
<1> QED
  BY <1>1 DEF Keeping, Exposed

LEMMA AcquireKept ==
  ASSUME Safe, Kept, NEW w \in Writer, NEW xs \in SUBSET Extra, Acquire(w, xs)
  PROVE  Kept'
<1>1. /\ TypeOK /\ lock = Nobody /\ pc[w] = "idle" /\ pc' = [pc EXCEPT ![w] = "backup"]
      /\ runs' = runs + 1 /\ run' = [run EXCEPT ![w] = runs + 1]
      /\ UNCHANGED <<manifest, backup, last, cutShort>>
  BY DEF Safe, Acquire, Goto, dirVars
<1>2. last \in Nat /\ runs \in Nat /\ last < runs + 1
  BY <1>1, StoreAssumption DEF TypeOK, Kept
<1>3. pc'[w] = "backup" /\ run'[w] = runs + 1
  BY <1>1 DEF TypeOK
<1>4. Keeping(w)'
  BY <1>1, <1>2, <1>3 DEF Keeping, Exposed
<1>5. \A v \in Writer : Keeping(v)'
  BY <1>1, <1>4, OnlyMyStage
<1>6. TornOnlyInside'
  <2>1. \A v \in Writer : pc[v] = "writing" => pc'[v] = "writing"
    BY <1>1 DEF TypeOK
  <2> QED
    BY <1>1, <2>1 DEF Kept, TornOnlyInside
<1> QED
  BY <1>1, <1>2, <1>5, <1>6 DEF Kept, ManifestSurvives

LEMMA BackupFirstKept ==
  ASSUME Safe, Kept, NEW w \in Writer, BackupFirst(w)
  PROVE  Kept'
<1>1. /\ TypeOK /\ pc[w] = "backup"
      /\ pc' = [pc EXCEPT ![w] = IF manifest = Absent THEN "list" ELSE "copying"]
      /\ backup' = IF manifest = Absent THEN backup ELSE Torn
      /\ UNCHANGED <<manifest, run, runs, last, cutShort>>
  BY DEF Safe, BackupFirst, Goto, callVars, histVars
<1>2. ~\E v \in Writer : pc[v] = "writing"
  BY <1>1, Alone DEF Safe
<1>3. ASSUME last # 0, ~cutShort, manifest # Absent PROVE Newest(manifest)
  <2>1. manifest.kind \in {"absent", "torn", "whole"}
    BY <1>1 DEF TypeOK, Manifest
  <2> QED
    BY <1>2, <1>3, <2>1 DEF Kept, TornOnlyInside, Safe, Truthful, Newest
<1>4. ASSUME last # 0, ~cutShort, manifest = Absent PROVE Newest(backup)
  BY <1>4, ManifestTypes DEF Kept, ManifestSurvives, Newest
<1>5. /\ manifest = Absent => pc'[w] = "list" /\ backup' = backup
      /\ manifest # Absent => pc'[w] = "copying"
  BY <1>1 DEF TypeOK
<1>6. Keeping(w)'
  BY <1>1, <1>3, <1>4, <1>5 DEF Kept, Keeping, Exposed, Newest
<1>7. \A v \in Writer : Keeping(v)'
  BY <1>1, <1>6, OnlyMyStage
<1>8. TornOnlyInside'
  BY <1>1, <1>2 DEF Kept, TornOnlyInside
<1> QED
  BY <1>1, <1>3, <1>4, <1>7, <1>8 DEF Kept, ManifestSurvives, Newest

\* From the first backup to the manifest, the backup is what survives.
LEMMA ExposedKept ==
  ASSUME Safe, Kept, NEW w \in Writer, NEW f \in File \cup {ManifestName},
         \/ CopyFirst(w) \/ List(w) \/ Unlink(w, f) \/ UnlinkFails(w, f) \/ Cleaned(w)
         \/ WriteExtra(w, f) \/ SwapExtra(w) \/ Validate(w) \/ WriteReport(w)
         \/ SwapReport(w) \/ WriteStub(w) \/ StartManifest(w)
  PROVE  Kept'
<1>1. /\ TypeOK /\ pc[w] \in (Exposed \cup {"copying"}) \ {"writing"}
      /\ UNCHANGED <<run, runs, last, cutShort>>
      /\ backup' = IF pc[w] = "copying" THEN manifest ELSE backup
      /\ \/ manifest' \in {manifest, Absent} /\ pc' = pc /\ pc[w] # "copying"
         \/ /\ manifest' = manifest
            /\ \E there \in Exposed \ {"writing"} : pc' = [pc EXCEPT ![w] = there]
         \/ /\ manifest' = Torn /\ pc[w] # "copying"
            /\ pc' = [pc EXCEPT ![w] = "writing"]
  BY DEF Safe, CopyFirst, List, Unlink, UnlinkFails, Cleaned, WriteExtra, SwapExtra, Validate,
         WriteReport, SwapReport, WriteStub, StartManifest, Goto, callVars, histVars, dirVars,
         Exposed, Replace, WriteTmp
<1>2. ASSUME last # 0, ~cutShort PROVE Newest(backup)'
  BY <1>1, <1>2 DEF Kept, Keeping, Newest
<1>3. PICK there \in Exposed :
        /\ pc' = [pc EXCEPT ![w] = there]
        /\ (there = "writing") => (manifest' = Torn)
        /\ (there # "writing") => (manifest' \in {manifest, Absent})
  <2>1. CASE pc' = pc /\ manifest' \in {manifest, Absent} /\ pc[w] # "copying"
    <3>1. pc[w] \in Exposed /\ pc[w] # "writing" /\ pc = [pc EXCEPT ![w] = pc[w]]
      BY <1>1, <2>1 DEF TypeOK
    <3> QED
      BY <2>1, <3>1
  <2>2. CASE /\ manifest' = manifest
             /\ \E there \in Exposed \ {"writing"} : pc' = [pc EXCEPT ![w] = there]
    BY <2>2
  <2>3. CASE manifest' = Torn /\ pc' = [pc EXCEPT ![w] = "writing"]
    BY <2>3 DEF Exposed
  <2> QED
    BY <1>1, <2>1, <2>2, <2>3
<1>4. pc'[w] = there /\ pc' = [pc EXCEPT ![w] = there]
  <2>1. pc \in [Writer -> Holding \cup {"idle"}]
    BY <1>1 DEF TypeOK
  <2> QED
    BY <1>3, <2>1
<1>5. Keeping(w)'
  <2>1. pc'[w] \notin {"copying", "rebackup", "recopying"}
    BY <1>3, <1>4 DEF Exposed
  <2>2. last' < run'[w]
    BY <1>1 DEF Kept, Keeping
  <2>3. pc'[w] = "writing" => manifest'.kind = "torn"
    BY <1>3, <1>4, ManifestTypes
  <2>4. last' # 0 /\ ~cutShort' => Newest(backup)'
    BY <1>1, <1>2
  <2> QED
    BY <2>1, <2>2, <2>3, <2>4 DEF Keeping
<1>6. pc[w] # "idle"
  BY <1>1 DEF Exposed
<1>7. \A v \in Writer : Keeping(v)'
  BY <1>4, <1>5, <1>6, OnlyMyStage
<1>8. ~\E v \in Writer : pc[v] = "writing"
  BY <1>1, <1>6, Alone DEF Safe
<1>9. TornOnlyInside'
  <2>1. manifest.kind = "torn" => cutShort
    BY <1>8 DEF Kept, TornOnlyInside
  <2>2. manifest.kind = "absent" => manifest = Absent
    BY DEF Kept, TornOnlyInside
  <2>3. CASE there = "writing"
    BY <1>3, <1>4, <2>3, ManifestTypes DEF TornOnlyInside
  <2>4. CASE there # "writing"
    BY <1>1, <1>3, <2>1, <2>2, <2>4, ManifestTypes DEF TornOnlyInside
  <2> QED
    BY <2>3, <2>4
<1> QED
  BY <1>1, <1>2, <1>7, <1>9 DEF Kept, ManifestSurvives, Newest

LEMMA ManifestKept ==
  ASSUME Safe, Kept, NEW w \in Writer, WriteManifest(w) \/ BackupAgain(w)
  PROVE  Kept'
<1>1. CASE WriteManifest(w)
  <2>1. /\ TypeOK /\ pc[w] = "writing" /\ pc' = [pc EXCEPT ![w] = "rebackup"]
        /\ manifest'.kind = "whole" /\ manifest'.run = run[w] /\ last' = run[w]
        /\ UNCHANGED <<run, runs>>
    BY <1>1 DEF Safe, WriteManifest, Goto, callVars
  <2>2. Newest(manifest)' /\ pc'[w] = "rebackup"
    BY <2>1 DEF Newest, TypeOK
  <2>3. Keeping(w)'
    BY <2>2 DEF Keeping, Exposed
  <2>4. \A v \in Writer : Keeping(v)'
    BY <2>1, <2>3, OnlyMyStage
  <2>5. last' <= runs'
    BY <2>1 DEF Safe, Active
  <2> QED
    BY <2>1, <2>2, <2>4, <2>5 DEF Kept, TornOnlyInside, ManifestSurvives, Newest
<1>2. CASE BackupAgain(w)
  <2>1. /\ TypeOK /\ pc[w] = "rebackup" /\ pc' = [pc EXCEPT ![w] = "recopying"]
        /\ UNCHANGED <<manifest, run, runs, last, cutShort>>
    BY <1>2 DEF Safe, BackupAgain, Goto, callVars, histVars
  <2>2. Newest(manifest)' /\ pc'[w] = "recopying"
    BY <2>1 DEF Newest, TypeOK, Kept, Keeping
  <2>3. Keeping(w)'
    BY <2>2 DEF Keeping, Exposed
  <2>4. \A v \in Writer : Keeping(v)'
    BY <2>1, <2>3, OnlyMyStage
  <2> QED
    BY <2>1, <2>2, <2>4 DEF Kept, TornOnlyInside, ManifestSurvives, Newest
<1> QED
  BY <1>1, <1>2

LEMMA LeaveKept ==
  ASSUME Safe, Kept, NEW w \in Writer, CopyAgain(w) \/ Stop(w)
  PROVE  Kept'
<1>1. /\ TypeOK /\ pc[w] # "idle" /\ pc' = [pc EXCEPT ![w] = "idle"]
      /\ UNCHANGED <<manifest, runs, last>>
      /\ \/ backup' = manifest /\ pc[w] = "recopying" /\ cutShort' = cutShort
         \/ backup' = backup /\ cutShort' = (cutShort \/ pc[w] = "writing")
  BY DEF Safe, CopyAgain, Stop, Leave, histVars, dirVars
<1>2. pc'[w] = "idle"
  BY <1>1 DEF TypeOK
<1>3. Keeping(w)'
  BY <1>2 DEF Keeping, Exposed
<1>4. \A v \in Writer : Keeping(v)'
  BY <1>1, <1>3, OnlyMyStage
<1>5. \A v \in Writer : pc[v] = "writing" => v = w
  BY <1>1, Alone
<1>6. TornOnlyInside'
  <2>1. CASE pc[w] = "writing"
    BY <1>1, <2>1 DEF Kept, TornOnlyInside
  <2>2. CASE pc[w] # "writing"
    <3>1. cutShort' = cutShort
      BY <1>1, <2>2 DEF TypeOK
    <3>2. ~\E v \in Writer : pc[v] = "writing"
      BY <1>5, <2>2
    <3> QED
      BY <1>1, <3>1, <3>2 DEF Kept, TornOnlyInside
  <2> QED
    BY <2>1, <2>2
<1>7. ManifestSurvives'
  BY <1>1 DEF Kept, Keeping, ManifestSurvives, Newest
<1> QED
  BY <1>1, <1>4, <1>6, <1>7 DEF Kept

LEMMA KeptStep == Safe /\ Kept /\ [Next]_vars => Kept'
<1> SUFFICES ASSUME Safe, Kept, [Next]_vars PROVE Kept'
  OBVIOUS
<1>1. CASE UNCHANGED vars
  BY <1>1 DEF vars, dirVars, callVars, histVars, Kept, Keeping, TornOnlyInside,
              ManifestSurvives, Newest
<1> QED
  BY <1>1, AcquireKept, BackupFirstKept, ExposedKept, ManifestKept, LeaveKept DEF Next

LEMMA AlwaysKept == Spec => [](Safe /\ Kept)
<1>1. Safe /\ Kept /\ [Next]_vars => (Safe /\ Kept)'
  BY SafeStep, KeptStep
<1> QED
  BY <1>1, InitSafe, InitKept, PTL DEF Spec

\* The newest complete manifest is in place or backed up, unless a writer stopped
\* inside write_manifest.
THEOREM NewestManifestSurvives == Spec => []ManifestSurvives
<1>1. Kept => ManifestSurvives
  BY DEF Kept
<1> QED
  BY <1>1, AlwaysKept, PTL

----------------------------------------------------------------------------
\* The directory implements EvidenceDirectory.
THEOREM DirectoryImplemented == Spec => ImplementsDirectory
<1>1. Init => Directory!Init
  BY ManifestTypes DEF Init, Directory!Init, Published, Verifies
<1>2. (Safe => Published \in {0, last}) /\ (Safe' => Published' \in {0, last'})
  BY DEF Safe, Truthful, Published, Verifies
<1>3. ASSUME Safe, Kept, Safe', Kept', [Next]_vars
      PROVE  [Directory!Next]_<<Published, last>>
  <2>1. CASE \E w \in Writer : WriteManifest(w)
    <3>1. PICK w \in Writer : WriteManifest(w)
      BY <2>1
    <3>2. pc[w] = "writing" /\ last' = run[w]
      BY <3>1 DEF WriteManifest, Goto
    <3>3. manifest.kind = "torn" /\ last < run[w]
      BY <1>3, <3>2 DEF Kept, Keeping, Exposed
    <3>4. Published = 0
      BY <3>3 DEF Published, Verifies
    <3>5. Published' \in {0, last'} /\ last' \in Nat
      BY <1>2, <1>3, StoreAssumption DEF Safe, TypeOK
    <3> QED
      BY <3>2, <3>3, <3>4, <3>5 DEF Directory!Next, Directory!Complete
  <2>2. CASE ~\E w \in Writer : WriteManifest(w)
    <3>1. last' = last
      BY <1>3, <2>2 DEF Next, Acquire, BackupFirst, CopyFirst, List, Unlink, UnlinkFails, Cleaned,
         WriteExtra, SwapExtra, Validate, WriteReport, SwapReport, WriteStub, StartManifest,
         BackupAgain, CopyAgain, Stop, vars, histVars
    <3>2. Published' \in {0, last}
      BY <1>2, <1>3, <3>1
    <3> QED
      BY <1>2, <1>3, <3>1, <3>2 DEF Directory!Next, Directory!Withdraw, Directory!Uncover
  <2> QED
    BY <2>1, <2>2
<1> QED
  BY <1>1, <1>3, AlwaysKept, PTL DEF Spec, ImplementsDirectory, Directory!Spec

-----------------------------------------------------------------------------
(***************************************************************************)
(* A whole manifest the auditor has read stays truthful: its run was       *)
(* validated, and what that run planned never changes.  While nothing has  *)
(* moved, it is the manifest in place, and the auditor has found an issue  *)
(* exactly if a file it has hashed is not the one listed.                  *)
(***************************************************************************)
ReadStages == {"hashing", "accepted"}

Flags == issues \in BOOLEAN /\ still \in BOOLEAN

Fresh == stage \in {"idle", "manifest"} => issues = FALSE

SeenIsTruthful ==
  stage \in ReadStages =>
    /\ seen.run \in valid /\ seen.run <= runs
    /\ \A f \in File : seen.listed[f] = IF f \in planned[seen.run] THEN seen.run ELSE 0

SeenIsInPlace == still = TRUE /\ stage \in ReadStages => manifest = seen /\ seen.kind = "whole"

HashedSoFar ==
  still = TRUE /\ stage = "hashing" =>
    /\ toHash \subseteq ListedIn(seen)
    /\ issues = TRUE <=> \E f \in ListedIn(seen) \ toHash : disk[f] # seen.listed[f]

AuditParts == Flags /\ Fresh /\ SeenIsTruthful /\ SeenIsInPlace /\ HashedSoFar /\ VerdictIsExact

AInv == Safe /\ AuditParts

LEMMA AuditInitially == AuditInit => AInv
<1> SUFFICES ASSUME AuditInit PROVE AInv
  OBVIOUS
<1>1. Safe
  BY InitSafe DEF AuditInit
<1> QED
  BY <1>1 DEF AuditInit, AInv, AuditParts, Flags, Fresh, SeenIsTruthful, SeenIsInPlace,
              HashedSoFar, VerdictIsExact, ReadStages

(* What earlier runs planned, and that they were validated, no collector changes. *)
LEMMA PastIsFixed ==
  ASSUME Safe, Next
  PROVE  /\ runs \in Nat /\ runs' \in Nat /\ runs <= runs' /\ valid \subseteq valid'
         /\ \A r \in Run : r <= runs => planned'[r] = planned[r]
<1>1. runs \in Nat /\ planned \in [Run -> SUBSET File]
  BY DEF Safe, TypeOK
<1>2. \/ UNCHANGED <<runs, planned>>
      \/ \E w \in Writer, xs \in SUBSET Extra :
           runs' = runs + 1 /\ planned' = [planned EXCEPT ![runs + 1] = Outputs(w, xs)]
  BY DEF Next, Acquire, BackupFirst, CopyFirst, List, Unlink, UnlinkFails, Cleaned, WriteExtra,
         SwapExtra, Validate, WriteReport, SwapReport, WriteStub, StartManifest, WriteManifest,
         BackupAgain, CopyAgain, Stop, histVars
<1>3. valid \subseteq valid'
  BY DEF Next, Acquire, BackupFirst, CopyFirst, List, Unlink, UnlinkFails, Cleaned, WriteExtra,
         SwapExtra, Validate, WriteReport, SwapReport, WriteStub, StartManifest, WriteManifest,
         BackupAgain, CopyAgain, Stop, histVars
<1>4. \A r \in Run : r <= runs => r # runs + 1
  BY <1>1 DEF Run
<1> QED
  BY <1>1, <1>2, <1>3, <1>4

LEMMA CollectStep ==
  ASSUME AInv, Collect
  PROVE  AInv'
<1>0. Safe /\ Flags /\ Fresh /\ SeenIsTruthful /\ SeenIsInPlace /\ HashedSoFar /\ VerdictIsExact
  BY DEF AInv, AuditParts
<1>1. /\ Next /\ UNCHANGED <<stage, wanted, seen, toHash, issues, got>>
      /\ still' \in BOOLEAN /\ (still' = TRUE => still = TRUE)
      /\ still' = TRUE /\ stage # "idle" => UNCHANGED <<disk, manifest>>
  BY <1>0 DEF Collect, Flags
<1>2. Safe'
  BY <1>0, <1>1, SafeStep
<1>3. SeenIsTruthful'
  <2> SUFFICES ASSUME stage \in ReadStages PROVE SeenIsTruthful'
    BY <1>1 DEF SeenIsTruthful
  <2>1. seen.run \in Run /\ seen.run \in valid /\ seen.run <= runs
    BY <1>0 DEF SeenIsTruthful, Safe, TypeOK
  <2>2. planned'[seen.run] = planned[seen.run] /\ seen.run \in valid'
    BY <1>0, <1>1, <2>1, PastIsFixed
  <2>3. seen.run <= runs'
    BY <1>0, <1>1, <2>1, PastIsFixed DEF Run
  <2> QED
    BY <1>0, <1>1, <2>2, <2>3 DEF SeenIsTruthful
<1>4. Flags' /\ Fresh'
  BY <1>0, <1>1 DEF Flags, Fresh
<1>5. SeenIsInPlace'
  BY <1>0, <1>1 DEF SeenIsInPlace, ReadStages
<1>6. HashedSoFar'
  BY <1>0, <1>1 DEF HashedSoFar, ListedIn
<1>7. VerdictIsExact'
  <2> SUFFICES ASSUME still' = TRUE, stage \in {"accepted", "rejected"}
               PROVE  stage = "accepted" <=> Verifies(AuditorKey)'
    BY <1>1 DEF VerdictIsExact
  <2>1. stage = "accepted" <=> Verifies(AuditorKey)
    BY <1>0, <1>1 DEF VerdictIsExact
  <2> QED
    BY <1>1, <2>1 DEF Verifies
<1> QED
  BY <1>2, <1>3, <1>4, <1>5, <1>6, <1>7 DEF AInv, AuditParts

-----------------------------------------------------------------------------
(* The auditor moves: the directory and its history stay. *)
LEMMA ReadManifestStep ==
  ASSUME AInv, ReadManifest, UNCHANGED vars
  PROVE  AuditParts'
<1>0. Safe /\ Flags /\ Fresh
  BY DEF AInv, AuditParts
<1>1. /\ UNCHANGED <<disk, manifest, runs, planned, valid>>
      /\ stage' = IF manifest.kind = "whole" THEN "hashing" ELSE "rejected"
      /\ seen' = manifest /\ toHash' = ListedIn(manifest) /\ stage = "manifest"
      /\ UNCHANGED <<issues, still>>
  BY DEF ReadManifest, Move, vars, dirVars, histVars
<1>2. SeenIsTruthful'
  BY <1>0, <1>1 DEF SeenIsTruthful, ReadStages, Safe, Truthful
<1>3. SeenIsInPlace'
  BY <1>1 DEF SeenIsInPlace, ReadStages
<1>4. HashedSoFar'
  BY <1>0, <1>1 DEF HashedSoFar, Fresh, ListedIn
<1>5. VerdictIsExact'
  BY <1>1 DEF VerdictIsExact, Verifies
<1> QED
  BY <1>0, <1>1, <1>2, <1>3, <1>4, <1>5 DEF AuditParts, Flags, Fresh

LEMMA HashStep ==
  ASSUME AInv, NEW f \in File, Hash(f), UNCHANGED vars
  PROVE  AuditParts'
<1>0. Safe /\ Flags /\ SeenIsTruthful /\ SeenIsInPlace /\ HashedSoFar
  BY DEF AInv, AuditParts
<1>1. /\ UNCHANGED <<disk, manifest, runs, planned, valid>>
      /\ stage = "hashing" /\ f \in toHash /\ toHash' = toHash \ {f}
      /\ issues' \in BOOLEAN
      /\ issues' = TRUE <=> issues = TRUE \/ disk[f] # seen.listed[f]
      /\ UNCHANGED <<stage, seen, still>>
  BY <1>0 DEF Hash, Flags, vars, dirVars, histVars
<1>2. SeenIsTruthful' /\ SeenIsInPlace'
  BY <1>0, <1>1 DEF SeenIsTruthful, SeenIsInPlace, ReadStages
<1>3. HashedSoFar'
  <2> SUFFICES ASSUME still = TRUE PROVE HashedSoFar'
    BY <1>1 DEF HashedSoFar
  <2>1. /\ toHash \subseteq ListedIn(seen)
        /\ issues = TRUE <=> \E g \in ListedIn(seen) \ toHash : disk[g] # seen.listed[g]
    BY <1>0, <1>1 DEF HashedSoFar
  <2>2. ListedIn(seen) \ toHash' = (ListedIn(seen) \ toHash) \cup {f}
    BY <1>1, <2>1
  <2>3. issues' = TRUE <=> \E g \in ListedIn(seen) \ toHash' : disk[g] # seen.listed[g]
    BY <1>1, <2>1, <2>2
  <2> QED
    BY <1>1, <2>1, <2>3 DEF HashedSoFar, ListedIn
<1> QED
  BY <1>0, <1>1, <1>2, <1>3 DEF AuditParts, Flags, Fresh, VerdictIsExact

LEMMA ConcludeStep ==
  ASSUME AInv, Conclude, UNCHANGED vars
  PROVE  AuditParts'
<1>0. Safe /\ Flags /\ SeenIsTruthful /\ SeenIsInPlace /\ HashedSoFar
  BY DEF AInv, AuditParts
<1> DEFINE ok == /\ issues # TRUE /\ Present(disk) \ ListedIn(seen) = {}
                 /\ seen.mac = AuditorKey
<1>1. /\ UNCHANGED <<disk, manifest, runs, planned, valid>>
      /\ toHash = {} /\ stage = "hashing" /\ stage' \in {"accepted", "rejected"}
      /\ stage' = "accepted" <=> ok
      /\ UNCHANGED <<seen, toHash, issues, still>>
  BY <1>0 DEF Conclude, Move, Flags, vars, dirVars, histVars
<1>2. SeenIsTruthful' /\ SeenIsInPlace'
  BY <1>0, <1>1 DEF SeenIsTruthful, SeenIsInPlace, ReadStages
<1>3. ASSUME still = TRUE PROVE ok <=> Verifies(AuditorKey)
  <2>1. manifest = seen /\ seen.kind = "whole"
    BY <1>0, <1>1, <1>3 DEF SeenIsInPlace, ReadStages
  <2>2. issues = TRUE <=> \E f \in ListedIn(seen) : disk[f] # seen.listed[f]
    BY <1>0, <1>1, <1>3 DEF HashedSoFar
  <2>3. (issues # TRUE /\ Present(disk) \ ListedIn(seen) = {})
          <=> \A f \in File : disk[f] = seen.listed[f]
    BY <2>2 DEF ListedIn, Present
  <2> QED
    BY <2>1, <2>3 DEF Verifies
<1>4. VerdictIsExact'
  <2> SUFFICES ASSUME still = TRUE PROVE stage' = "accepted" <=> Verifies(AuditorKey)'
    BY <1>1 DEF VerdictIsExact
  <2>1. Verifies(AuditorKey)' <=> Verifies(AuditorKey)
    BY <1>1 DEF Verifies
  <2> QED
    BY <1>1, <1>3, <2>1
<1> QED
  BY <1>0, <1>1, <1>2, <1>4 DEF AuditParts, Flags, Fresh, HashedSoFar

(* Before the manifest is read and after the verdict there is nothing to keep. *)
LEMMA RestStep ==
  ASSUME AInv, (\E f \in File \cup {NoFile} : Begin(f)) \/ Recheck \/ ReadBytes \/ Done,
         UNCHANGED vars
  PROVE  AuditParts'
<1>0. Flags /\ Fresh
  BY DEF AInv, AuditParts
<1>1. stage' \in {"idle", "manifest", "covered", "refused", "returned"}
  BY DEF Begin, Recheck, ReadBytes, Done, Move
<1>2. Flags' /\ Fresh'
  BY <1>0 DEF Flags, Fresh, Begin, Recheck, ReadBytes, Done, Move
<1> QED
  BY <1>1, <1>2
  DEF AuditParts, SeenIsTruthful, SeenIsInPlace, HashedSoFar, VerdictIsExact, ReadStages

LEMMA AuditStep == AInv /\ [AuditNext]_allVars => AInv'
<1> SUFFICES ASSUME AInv, [AuditNext]_allVars PROVE AInv'
  OBVIOUS
<1>1. CASE Collect
  BY <1>1, CollectStep
<1>2. CASE Audit /\ UNCHANGED vars
  <2>1. Safe'
    BY <1>2, SafeStep DEF AInv
  <2>2. AuditParts'
    BY <1>2, ReadManifestStep, HashStep, ConcludeStep, RestStep DEF Audit
  <2> QED
    BY <2>1, <2>2 DEF AInv
<1>3. CASE UNCHANGED allVars
  <2>1. UNCHANGED vars /\ UNCHANGED <<disk, manifest, runs, planned, valid>>
    BY <1>3 DEF allVars, vars, dirVars, histVars
  <2>2. Safe'
    BY <2>1, SafeStep DEF AInv
  <2>3. AuditParts'
    BY <1>3, <2>1
    DEF AInv, AuditParts, Flags, Fresh, SeenIsTruthful, SeenIsInPlace, HashedSoFar,
        VerdictIsExact, Verifies, ListedIn, allVars, auditorVars
  <2> QED
    BY <2>2, <2>3 DEF AInv
<1> QED
  BY <1>1, <1>2, <1>3 DEF AuditNext

LEMMA AuditIsSafe == AuditSpec => []AInv
  BY AuditInitially, AuditStep, PTL DEF AuditSpec

(* Where the auditor is and what it holds, each of its kind. *)
AuditorTypes ==
  /\ stage \in {"idle", "manifest", "hashing", "accepted", "rejected", "covered",
                "refused", "returned"}
  /\ wanted \in File \cup {NoFile}
  /\ seen \in Manifest
  /\ toHash \subseteq File
  /\ got \in 0 .. MaxRuns
  /\ stage = "covered" => wanted \in File

LEMMA AuditorTypesStep == AInv /\ AuditorTypes /\ [AuditNext]_allVars => AuditorTypes'
<1> SUFFICES ASSUME AInv, AuditorTypes, [AuditNext]_allVars PROVE AuditorTypes'
  OBVIOUS
<1>0. /\ disk \in [File -> 0 .. MaxRuns] /\ manifest \in Manifest
      /\ Absent \in Manifest /\ MaxRuns \in Nat
  BY ManifestTypes, StoreAssumption DEF AInv, Safe, TypeOK
<1>1. CASE Collect \/ UNCHANGED allVars
  BY <1>1 DEF Collect, AuditorTypes, allVars, auditorVars
<1>2. ASSUME NEW f \in File \cup {NoFile}, Begin(f) PROVE AuditorTypes'
  BY <1>2 DEF Begin, Move, AuditorTypes
<1>3. CASE ReadManifest
  BY <1>0, <1>3 DEF ReadManifest, Move, AuditorTypes, ListedIn
<1>4. ASSUME NEW f \in File, Hash(f) PROVE AuditorTypes'
  BY <1>4 DEF Hash, AuditorTypes
<1>5. CASE Conclude
  BY <1>5 DEF Conclude, Move, AuditorTypes
<1>6. CASE Recheck
  BY <1>6 DEF Recheck, Move, AuditorTypes
<1>7. CASE ReadBytes
  BY <1>0, <1>7 DEF ReadBytes, Move, AuditorTypes
<1>8. CASE Done
  BY <1>0, <1>8 DEF Done, AuditorTypes
<1> QED
  BY <1>1, <1>2, <1>3, <1>4, <1>5, <1>6, <1>7, <1>8 DEF AuditNext, Audit

(***************************************************************************)
(* The variables of the directory and of the auditor keep their types.     *)
(***************************************************************************)
THEOREM AuditTyped == AuditSpec => []AuditTypeOK
<1>1. AuditInit => AuditorTypes
  BY ManifestTypes, StoreAssumption DEF AuditInit, AuditorTypes
<1>2. AInv /\ AuditorTypes => AuditTypeOK
  BY DEF AInv, AuditParts, Flags, Safe, AuditorTypes, AuditTypeOK
<1> QED
  BY <1>1, <1>2, AuditIsSafe, AuditorTypesStep, PTL DEF AuditSpec

(***************************************************************************)
(* The verdict of verify_manifest, which reads the directory file by file  *)
(* and takes no lock, is that of the directory itself whenever no          *)
(* collector moved it meanwhile.                                           *)
(***************************************************************************)
THEOREM VerdictsAreExact == AuditSpec => []VerdictIsExact
<1>1. AInv => VerdictIsExact
  BY DEF AInv, AuditParts
<1> QED
  BY <1>1, AuditIsSafe, PTL

(***************************************************************************)
(* And what it accepts, however the collectors raced it, is file for file  *)
(* what one validated run published.                                       *)
(***************************************************************************)
THEOREM AcceptedRuns == AuditSpec => []AcceptedIsOneRun
<1>1. ASSUME AInv PROVE AcceptedIsOneRun
  <2> SUFFICES ASSUME stage = "accepted" PROVE AcceptedIsOneRun
    BY DEF AcceptedIsOneRun
  <2>1. /\ seen.run \in valid /\ seen.run \in Run /\ planned[seen.run] \subseteq File
        /\ \A f \in File : seen.listed[f] = IF f \in planned[seen.run] THEN seen.run ELSE 0
    BY <1>1 DEF AInv, AuditParts, SeenIsTruthful, ReadStages, Safe, TypeOK
  <2>2. seen.run # 0
    BY <2>1 DEF Run
  <2>3. ListedIn(seen) = planned[seen.run]
    BY <2>1, <2>2 DEF ListedIn
  <2>4. \A f \in ListedIn(seen) : seen.listed[f] = seen.run
    BY <2>1, <2>3
  <2>5. still = TRUE => seen.run = last
    BY <1>1 DEF AInv, AuditParts, SeenIsInPlace, ReadStages, Safe, Truthful
  <2>6. still => seen.run = last
    BY <1>1, <2>5 DEF AInv, AuditParts, Flags
  <2> QED
    BY <2>1, <2>3, <2>4, <2>6 DEF AcceptedIsOneRun
<1> QED
  BY <1>1, AuditIsSafe, PTL
=============================================================================
