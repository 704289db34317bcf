----------------------------- MODULE MCRawCache -----------------------------
(* RawCache for TLC: calls of a small set may be exchanged.                 *)
EXTENDS RawCache, TLC

Symmetry == Permutations(Fetches)
=============================================================================
