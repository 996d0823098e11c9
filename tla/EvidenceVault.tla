---------------------------- MODULE EvidenceVault ----------------------------
(***************************************************************************)
(* The evidence chain of one tenant (vault.py): sealers append a block     *)
(* with the Merkle root of a date's reports, an auditor verifies the chain *)
(* against the reports on disk, and collectors replace the reports.        *)
(*                                                                         *)
(* Nothing is locked: seal_run reads the chain, then one report after the  *)
(* other, and appends last, and verify_chain reads in the same way.  Every *)
(* step below is what happens between two reads or writes of a file.       *)
(*                                                                         *)
(* SHA-256 is taken to be free of collisions, so a Merkle root stands for  *)
(* the set of its leaves and a block's hash for the block.                 *)
(***************************************************************************)
EXTENDS Naturals, Sequences, FiniteSets

CONSTANTS
  Sealer,       \* threads and processes that call seal_run
  Auditor,      \* the thread that calls verify_chain
  Date,         \* the dates with a directory under evidence/
  NoDate,       \* no date
  Controls,     \* the number of control directories of each date
  MaxVersions,  \* bound: reports collected
  MaxSeals      \* bound: calls of seal_run

ASSUME VaultAssumption ==
  /\ Auditor \notin Sealer
  /\ NoDate \notin Date
  /\ Controls \in Nat \ {0}
  /\ MaxVersions \in Nat /\ MaxSeals \in Nat

Genesis == 0
Control == 1 .. Controls  \* the order in which their names sort
Version == 1 .. MaxVersions
Hash == 1 .. MaxSeals
Reader == Sealer \cup {Auditor}

VARIABLES
  report,    \* report[d][c]: the version of the control's report, 0 when there is none
  versions,  \* reports collected so far
  chain,     \* the blocks on the readable lines of evidence_chain.jsonl
  tail,      \* how the file ends: after a newline, in a torn line, in a bare block
  step,      \* where each reader is in seal_run or verify_chain
  view,      \* the chain each reader has read
  scan,      \* a reader's progress over a date's reports
  position,  \* the auditor's position in the chain
  faults,    \* whether verify_chain has an error to report
  call,      \* the number of each sealer's call, which tells its timestamp apart
  seals,     \* calls of seal_run so far
  returned,  \* history: hashes of the blocks that seal_run returned to a caller
  cuts,      \* history: appends that stopped part way
  calm,      \* history: no seals overlapped, none was cut, no sealed date changed
  still      \* history: nothing changed since the verification began

diskVars == <<report, versions, chain, tail>>
auditVars == <<position, faults>>
historyVars == <<returned, cuts, calm, still>>
vars == <<diskVars, step, view, scan, auditVars, call, seals, historyVars>>

NoScan == [date |-> NoDate, next |-> 1, leaves |-> {}, again |-> FALSE]

Init ==
  /\ report = [d \in Date |-> [c \in Control |-> 0]] /\ versions = 0
  /\ chain = <<>> /\ tail = "ended"
  /\ step = [r \in Reader |-> "idle"]
  /\ view = [r \in Reader |-> <<>>]
  /\ scan = [r \in Reader |-> NoScan]
  /\ position = 1 /\ faults = FALSE
  /\ call = [s \in Sealer |-> 0] /\ seals = 0
  /\ returned = {} /\ cuts = 0
  /\ calm = TRUE /\ still = TRUE

----------------------------------------------------------------------------
\* A collector moves a fresh report into place, or clears the old one away
\* before it collects.
Disturbs(d) == \/ \E i \in DOMAIN chain : chain[i].date = d
               \/ \E r \in Reader : scan[r].date = d

SetReport(d, c, v) ==
  /\ report' = [report EXCEPT ![d][c] = v]
  /\ calm' = (calm /\ ~Disturbs(d))
  /\ still' = FALSE
  /\ UNCHANGED <<chain, tail, step, view, scan, auditVars, call, seals, returned, cuts>>

Collect(d, c) ==
  /\ versions < MaxVersions
  /\ versions' = versions + 1
  /\ SetReport(d, c, versions + 1)

Clear(d, c) ==
  /\ report[d][c] # 0
  /\ SetReport(d, c, 0)
  /\ UNCHANGED versions

----------------------------------------------------------------------------
\* _compute_evidence_merkle_root visits the control directories in the order of
\* their names and hashes each report it finds.  When it found none, it looks
\* for reports anywhere below the date, once.
Scanning(r, d) == scan' = [scan EXCEPT ![r] = [NoScan EXCEPT !.date = d]]

ReadReport(r) ==
  /\ step[r] = "scanning" /\ scan[r].next \in Control
  /\ LET v == report[scan[r].date][scan[r].next]
     IN  scan' = [scan EXCEPT ![r].next = @ + 1, ![r].leaves = @ \cup ({v} \ {0})]
  /\ UNCHANGED <<diskVars, step, view, auditVars, call, seals, historyVars>>

FirstPass(r) == step[r] = "scanning" /\ scan[r].next \notin Control

LookAgain(r) ==
  /\ FirstPass(r) /\ scan[r].leaves = {} /\ ~scan[r].again
  /\ scan' = [scan EXCEPT ![r].next = 1, ![r].again = TRUE]
  /\ UNCHANGED <<diskVars, step, view, auditVars, call, seals, historyVars>>

Scanned(r) == FirstPass(r) /\ (scan[r].leaves # {} \/ scan[r].again)

\* The reader leaves seal_run or verify_chain, and its locals are gone.
Leave(r, stage) ==
  /\ step' = [step EXCEPT ![r] = stage]
  /\ view' = [view EXCEPT ![r] = <<>>]
  /\ scan' = [scan EXCEPT ![r] = NoScan]

\* A reader raises, as it does when a report it has just seen is gone when it
\* opens it, or its process dies.
Abort(r) ==
  /\ step[r] = "scanning"
  /\ Leave(r, "idle")
  /\ position' = IF r = Auditor THEN 1 ELSE position
  /\ faults' = IF r = Auditor THEN FALSE ELSE faults
  /\ UNCHANGED <<diskVars, call, seals, historyVars>>

----------------------------------------------------------------------------
\* seal_run, for the date d.  The chain is read before the reports.
BeginSeal(s, d) ==
  /\ seals < MaxSeals
  /\ step[s] = "idle"
  /\ step' = [step EXCEPT ![s] = "scanning"]
  /\ view' = [view EXCEPT ![s] = chain]
  /\ Scanning(s, d)
  /\ seals' = seals + 1
  /\ call' = [call EXCEPT ![s] = seals + 1]
  /\ calm' = (calm /\ \A other \in Sealer : step[other] = "idle")
  /\ UNCHANGED <<diskVars, auditVars, returned, cuts, still>>

\* Nothing to seal: ValueError.
RefuseSeal(s) ==
  /\ Scanned(s) /\ scan[s].leaves = {}
  /\ Leave(s, "idle")
  /\ UNCHANGED <<diskVars, auditVars, call, seals, historyVars>>

LastHash(c) == IF c = <<>> THEN Genesis ELSE c[Len(c)].hash

\* Mutant of NewBlock: positions are counted from one.
NewBlockFromOne(s) ==
  [index |-> Len(view[s]) + 1, date |-> scan[s].date, root |-> scan[s].leaves,
   prev |-> LastHash(view[s]), hash |-> call[s],
   basis |-> [i \in DOMAIN view[s] |-> view[s][i].hash]]

\* The block a sealer makes of what it has read.  "basis" is a history field:
\* the hashes of the chain that the sealer had read.
NewBlock(s) ==
  [index |-> Len(view[s]), date |-> scan[s].date, root |-> scan[s].leaves,
   prev |-> LastHash(view[s]), hash |-> call[s],
   basis |-> [i \in DOMAIN view[s] |-> view[s][i].hash]]

\* Mutant of Write: the line is written without its newline.
WriteBare(b, end) ==
  /\ chain' = CASE tail = "ended" /\ end # "torn" -> Append(chain, b)
                [] tail = "bare" -> SubSeq(chain, 1, Len(chain) - 1)
                [] OTHER -> chain
  /\ tail' = IF tail = "ended" THEN (IF end = "torn" THEN "torn" ELSE "bare") ELSE "torn"

\* The file is appended to: what is written joins whatever an earlier append left
\* behind the last newline, and read_chain skips a line that does not parse.  A
\* write that stops part way ends in a torn line, or just before the newline.
Write(b, end) ==
  /\ chain' = CASE tail = "ended" /\ end # "torn" -> Append(chain, b)
                [] tail = "bare" -> SubSeq(chain, 1, Len(chain) - 1)
                [] OTHER -> chain
  /\ tail' = IF tail = "ended" \/ end = "ended" THEN end ELSE "torn"

\* Mutant of AppendBlock: a date without reports is sealed too.
AppendAnything(s) ==
  /\ Scanned(s)
  /\ Write(NewBlock(s), "ended")
  /\ returned' = returned \cup {call[s]}
  /\ still' = FALSE
  /\ Leave(s, "idle")
  /\ UNCHANGED <<report, versions, auditVars, call, seals, cuts, calm>>

AppendBlock(s) ==
  /\ Scanned(s) /\ scan[s].leaves # {}
  /\ Write(NewBlock(s), "ended")
  /\ returned' = returned \cup {call[s]}
  /\ still' = FALSE
  /\ Leave(s, "idle")
  /\ UNCHANGED <<report, versions, auditVars, call, seals, cuts, calm>>

\* The append raises, or its process dies, with part of the line written.
AppendCut(s, end) ==
  /\ Scanned(s) /\ scan[s].leaves # {}
  /\ Write(NewBlock(s), end)
  /\ cuts' = cuts + 1
  /\ calm' = FALSE
  /\ still' = FALSE
  /\ Leave(s, "idle")
  /\ UNCHANGED <<report, versions, auditVars, call, seals, returned>>

----------------------------------------------------------------------------
\* Mutant of LinksAt: only a block that jumps ahead is out of place.
LinksLoosely(c, i) == c[i].index < i

\* What verify_chain asks of the i-th block it read: its index continues the
\* chain, and its previous_hash is the hash of the block before it.
LinksAt(c, i) ==
  /\ c[i].index = i - 1
  /\ c[i].prev = IF i = 1 THEN Genesis ELSE c[i - 1].hash

\* verify_chain reads the chain.  An empty one is valid.
BeginVerify ==
  /\ step[Auditor] = "idle"
  /\ position' = 1 /\ faults' = FALSE
  /\ still' = TRUE
  /\ view' = [view EXCEPT ![Auditor] = chain]
  /\ step' = [step EXCEPT ![Auditor] = IF chain = <<>> THEN "done" ELSE "block"]
  /\ UNCHANGED <<diskVars, scan, call, seals, returned, cuts, calm>>

\* One turn of its loop: the block's own checks, then the root of its date.
CheckLink ==
  /\ step[Auditor] = "block"
  /\ step' = [step EXCEPT ![Auditor] = "scanning"]
  /\ faults' = (faults \/ ~LinksAt(view[Auditor], position))
  /\ Scanning(Auditor, view[Auditor][position].date)
  /\ UNCHANGED <<diskVars, view, position, call, seals, historyVars>>

\* Mutant of CheckRoot: an earlier block's error is forgotten.
CheckRootOnly ==
  LET leaves == scan[Auditor].leaves
  IN  /\ Scanned(Auditor)
      /\ faults' = (leaves # {} /\ leaves # view[Auditor][position].root)
      /\ scan' = [scan EXCEPT ![Auditor] = NoScan]
      /\ position' = position + 1
      /\ step' = [step EXCEPT ![Auditor] =
                    IF position = Len(view[Auditor]) THEN "done" ELSE "block"]
      /\ UNCHANGED <<diskVars, view, call, seals, historyVars>>

CheckRoot ==
  LET leaves == scan[Auditor].leaves
  IN  /\ Scanned(Auditor)
      /\ faults' = (faults \/ (leaves # {} /\ leaves # view[Auditor][position].root))
      /\ scan' = [scan EXCEPT ![Auditor] = NoScan]
      /\ position' = position + 1
      /\ step' = [step EXCEPT ![Auditor] =
                    IF position = Len(view[Auditor]) THEN "done" ELSE "block"]
      /\ UNCHANGED <<diskVars, view, call, seals, historyVars>>

\* The verdict is handed to the caller.
EndVerify ==
  /\ step[Auditor] = "done"
  /\ Leave(Auditor, "idle")
  /\ position' = 1 /\ faults' = FALSE
  /\ UNCHANGED <<diskVars, call, seals, historyVars>>

----------------------------------------------------------------------------
Next ==
  \/ \E d \in Date, c \in Control : Collect(d, c) \/ Clear(d, c)
  \/ \E r \in Reader : ReadReport(r) \/ LookAgain(r) \/ Abort(r)
  \/ \E s \in Sealer :
       \/ \E d \in Date : BeginSeal(s, d)
       \/ RefuseSeal(s)
       \/ AppendBlock(s)
       \/ \E end \in {"torn", "bare"} : AppendCut(s, end)
  \/ BeginVerify
  \/ CheckLink
  \/ CheckRoot
  \/ EndVerify

Spec == Init /\ [][Next]_vars

----------------------------------------------------------------------------
Scan == [date : Date \cup {NoDate}, next : 1 .. Controls + 1,
         leaves : SUBSET Version, again : BOOLEAN]

IsBlock(b) ==
  /\ b.index \in 0 .. MaxSeals /\ b.date \in Date
  /\ b.root \in (SUBSET Version) \ {{}}
  /\ b.prev \in {Genesis} \cup Hash /\ b.hash \in Hash
  /\ b.basis \in Seq(Hash)

TypeOK ==
  /\ report \in [Date -> [Control -> {0} \cup Version]] /\ versions \in {0} \cup Version
  /\ \A i \in DOMAIN chain : IsBlock(chain[i])
  /\ tail \in {"ended", "torn", "bare"} /\ (tail = "bare" => chain # <<>>)
  /\ step \in [Reader -> {"idle", "scanning", "block", "done"}]
  /\ \A r \in Reader : \A i \in DOMAIN view[r] : IsBlock(view[r][i])
  /\ scan \in [Reader -> Scan]
  /\ position \in 1 .. MaxSeals + 1 /\ faults \in BOOLEAN
  /\ call \in [Sealer -> {0} \cup Hash] /\ seals \in {0} \cup Hash
  /\ returned \subseteq Hash /\ cuts \in 0 .. MaxSeals
  /\ calm \in BOOLEAN /\ still \in BOOLEAN

Linked(c) == \A i \in DOMAIN c : LinksAt(c, i)

\* In a chain whose links hold, each block was sealed by a call that had read
\* exactly the readable blocks before it: where the blocks of two overlapping calls
\* of seal_run are both in the chain, or a block was lost after another call had
\* read it, verify_chain finds a broken link.  This is no promise that no line is
\* torn or that every block that was returned is there: OneLossPerCut is about those.
SerialWhenLinked ==
  Linked(chain) =>
    \A i \in DOMAIN chain : chain[i].basis = [j \in 1 .. i - 1 |-> chain[j].hash]

Leaves(d) == {report[d][c] : c \in Control} \ {0}

\* The piecewise verification of a ledger that holds still is exact: verify_chain
\* reports errors just when a link is broken, or a sealed date shows reports other
\* than those its block sealed.
VerdictIsExact ==
  step[Auditor] = "done" /\ still =>
    (~faults <=> /\ Linked(chain)
                 /\ \A i \in DOMAIN chain : Leaves(chain[i].date) \in {{}, chain[i].root})

\* verify_chain raises no false alarm: when no two seals overlapped, none was cut
\* short, and nobody collected a date again once it was being sealed, it reports
\* no error, even while a sealer is at work.
NoFalseAlarm == step[Auditor] = "done" /\ calm => ~faults

\* A block that seal_run has returned is lost to the chain only by joining the
\* line of an append that was cut short, and each of those takes one block at most
\* ("append an immutable block to the chain", vault.py:156).
OneLossPerCut ==
  Cardinality(returned \ {chain[i].hash : i \in DOMAIN chain}) <= cuts

\* The ledger that seal_run builds is continuous ("immutable cryptographic ledger
\* chaining across historical collection runs", vault.py:3).
LedgerIsLinked == Linked(chain)

==============================================================================
