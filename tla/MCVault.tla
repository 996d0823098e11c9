------------------------------- MODULE MCVault -------------------------------
(* Two sealers and an auditor over one ledger with two dates.  The sealers are *)
(* alike, and so are the dates.                                                *)
EXTENDS EvidenceVault, TLC

CONSTANTS s1, s2, d1, d2

Alike == Permutations({s1, s2}) \cup Permutations({d1, d2})
==============================================================================
