------------------------------ MODULE MCEvidence ------------------------------
(***************************************************************************)
(* Two collectors over one directory, one plain and signing, one           *)
(* encrypting and unsigned, and one extra artifact: three runs, so that a  *)
(* run can find what two others left; or fewer, with an auditor who has no *)
(* signing key at work among them.                                         *)
(***************************************************************************)
EXTENDS EvidenceVerification, TLC

CONSTANTS
  signing, encrypting, csv, key,
  Focuses,      \* whether the auditor is at work
  AuditedRuns   \* a bound on the runs where it is

Macs == (signing :> key) @@ (encrypting :> NoKey)

VARIABLE focus

Opening == focus \in Focuses /\ AuditInit

Step ==
  /\ UNCHANGED focus
  /\ \/ focus = "collectors" /\ Next /\ UNCHANGED auditorVars
     \/ focus = "auditor" /\ AuditNext /\ runs' <= AuditedRuns

Explored == Opening /\ [][Step]_<<focus, allVars>>
==============================================================================
