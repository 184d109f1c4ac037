----------------------------- MODULE MCRegistry -----------------------------
(* Instances of Registry for TLC.                                          *)
EXTENDS Registry, TLC

\* Goroutines are interchangeable: used by runs that check safety only.
Symmetry == Permutations(Procs)
=============================================================================
