-------------------------- MODULE EvidenceDirectory --------------------------
(***************************************************************************)
(* What an evidence control directory promises to whoever verifies it.     *)
(* At any moment it shows the evidence of one run, or of none.  The run    *)
(* shown is always the newest run that completed, so a directory never     *)
(* goes from one run to another without showing none in between, and never *)
(* goes back to an older run, whatever collectors do or fail to do.        *)
(***************************************************************************)
EXTENDS Naturals

VARIABLES
  published,  \* the run whose evidence the directory shows, 0 for none
  newest      \* the newest run that completed, 0 before the first

Init == published = 0 /\ newest = 0

\* A run completes.  Its evidence shows, unless a file that could not be
\* removed is still beside it.
Complete ==
  /\ published = 0
  /\ newest' \in Nat /\ newest' > newest
  /\ published' \in {0, newest'}

\* A later run starts to change the directory.
Withdraw == published' = 0 /\ UNCHANGED newest

\* What stood beside the newest run's evidence is removed.
Uncover ==
  /\ newest # 0
  /\ published' = newest
  /\ UNCHANGED newest

Next == Complete \/ Withdraw \/ Uncover

Spec == Init /\ [][Next]_<<published, newest>>
==============================================================================
