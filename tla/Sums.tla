-------------------------------- MODULE Sums --------------------------------
(***************************************************************************)
(* The sum of f[x] over the members x of S.                                *)
(***************************************************************************)
EXTENDS Integers, FiniteSetsExt

Total(f, S) == FoldSet(LAMBDA x, n : n + f[x], 0, S)
=============================================================================
