---------------------------- MODULE AuditPackage ----------------------------
(***************************************************************************)
(* export_audit_package_zip (audit_room.py): the control crosswalk of a    *)
(* room is built three times, for the JSON matrix, the CSV and the summary,*)
(* and then the evidence is packed, while collectors go on replacing it.   *)
(***************************************************************************)
EXTENDS Integers, Sequences, FiniteSets, Functions

CONSTANTS
    Controls,       \* controls_in_scope: control |-> its required collectors
    Dates,          \* evidence_dates of the room
    Collectors,
    MaxVersions     \* bound: times the evidence changes

VARIABLES
    tree,       \* what each collector left under each date: None, or its
                \* version, whether the manifest fits and the quality
    changes,    \* how often the tree has changed
    stage,      \* what the export is doing
    todo,       \* the places the current table has not come to
    verified,   \* the place that was verified and is to be hashed, if any
    table,      \* the artifacts of the current table
    tables,     \* the crosswalks built so far: matrix, CSV, summary
    zip,        \* the evidence packed so far: <<date, collector>> |-> what
    still       \* history: nothing changed since the export began

vars == <<tree, changes, stage, todo, verified, table, tables, zip, still>>

None == [version |-> 0]
Places == Dates \X Collectors
Everything == UNION {{<<c, p>> : p \in Dates \X Controls[c]} : c \in DOMAIN Controls}
Blank == [c \in DOMAIN Controls |-> {}]

(***************************************************************************)
(* The aliases of a collector name directories where the same report may   *)
(* be; a place stands for the first of them that holds a report.           *)
(***************************************************************************)
Evidence == [version: 1..MaxVersions, valid: BOOLEAN, quality: {"complete", "failed"}]

Init ==
    /\ tree = [p \in Places |-> None]
    /\ changes = 0
    /\ stage = "idle"
    /\ todo = {}
    /\ verified = {}
    /\ table = Blank
    /\ tables = <<>>
    /\ zip = <<>>
    /\ still = TRUE

(* A collector replaces its evidence, or takes it away while it writes. *)
Collect ==
    /\ changes < MaxVersions
    /\ changes' = changes + 1
    /\ \E p \in Places :
          \E e \in {None} \cup {x \in Evidence : x.version = changes + 1} :
             /\ e # tree[p]
             /\ tree' = [tree EXCEPT ![p] = e]
    /\ still' = FALSE
    /\ UNCHANGED <<stage, todo, verified, table, tables, zip>>

Begin ==
    /\ stage = "idle"
    /\ stage' = "matrix"
    /\ todo' = Everything
    /\ still' = TRUE
    /\ UNCHANGED <<tree, changes, verified, table, tables, zip>>

(* Mutant of Usable: the manifest is not looked at. *)
Complete(e) == e # None /\ e.quality # "failed"

Usable(e) == e # None /\ e.valid /\ e.quality # "failed"

EvidenceStatus(required, found) ==
    CASE required # {} /\ required \subseteq found -> "SATISFIED"
      [] required # {} /\ ~(required \subseteq found) /\ found # {} -> "PARTIAL_EVIDENCE"
      [] OTHER -> "NO_EVIDENCE_IN_WINDOW"

(***************************************************************************)
(* build_control_crosswalk, for one table: every place of every control is *)
(* examined.  Its manifest is verified and its quality read (Examine), and *)
(* then the file is opened again for its hash (Hash).  The code goes by    *)
(* control, date and collector; any order is allowed here.                 *)
(***************************************************************************)
Examine(c, p) ==
    /\ stage \in {"matrix", "csv", "summary"}
    /\ verified = {}
    /\ <<c, p>> \in todo
    /\ todo' = todo \ {<<c, p>>}
    /\ verified' = IF Usable(tree[p]) THEN {<<c, p>>} ELSE {}
    /\ UNCHANGED <<tree, changes, stage, table, tables, zip, still>>

(* A file that is gone by now is listed with the hash "UNKNOWN". *)
Hash(c, p) ==
    /\ <<c, p>> \in verified
    /\ verified' = {}
    /\ table' = [table EXCEPT ![c] = @ \cup {<<p, tree[p].version>>}]
    /\ UNCHANGED <<tree, changes, stage, todo, tables, zip, still>>

Crosswalk ==
    [c \in DOMAIN Controls |->
        [status |-> EvidenceStatus(Controls[c], {a[1][2] : a \in table[c]}),
         artifacts |-> table[c]]]

Built ==
    /\ stage \in {"matrix", "csv", "summary"}
    /\ todo = {} /\ verified = {}
    /\ tables' = Append(tables, Crosswalk)
    /\ stage' = [matrix |-> "csv", csv |-> "summary", summary |-> "pack"][stage]
    /\ todo' = IF stage = "summary" THEN {} ELSE Everything
    /\ table' = Blank
    /\ UNCHANGED <<tree, changes, verified, zip, still>>

Selected == UNION {{a[1] : a \in tables[1][c].artifacts} : c \in DOMAIN Controls}

(* An artifact of the matrix is packed with its manifest, if it still is there. *)
Pack(p) ==
    /\ stage = "pack"
    /\ p \in Selected \ DOMAIN zip
    /\ zip' = [q \in DOMAIN zip \cup {p} |-> IF q = p THEN tree[p] ELSE zip[q]]
    /\ UNCHANGED <<tree, changes, stage, todo, verified, table, tables, still>>

Finish ==
    /\ stage = "pack"
    /\ Selected \subseteq DOMAIN zip
    /\ stage' = "done"
    /\ UNCHANGED <<tree, changes, todo, verified, table, tables, zip, still>>

Next ==
    \/ Collect \/ Begin \/ Built \/ Finish
    \/ \E p \in Places : Pack(p) \/ \E c \in DOMAIN Controls : Examine(c, p) \/ Hash(c, p)

Spec == Init /\ [][Next]_vars

-----------------------------------------------------------------------------
(***************************************************************************)
(* While nothing moves, the tables agree, what they list is there with a   *)
(* manifest that verifies, and what is packed is what they list, all of it *)
(* in the end.                                                             *)
(***************************************************************************)
ExactAtRest ==
    still /\ tables # <<>> =>
        /\ \A one, other \in Range(tables) : one = other
        /\ \A c \in DOMAIN Controls : \A a \in tables[1][c].artifacts :
              tree[a[1]].version = a[2] /\ tree[a[1]].valid
        /\ \A place \in DOMAIN zip : place \in Selected /\ zip[place] = tree[place]
        /\ stage = "done" => DOMAIN zip = Selected
=============================================================================
