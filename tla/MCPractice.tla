----------------------------- MODULE MCPractice -----------------------------
(***************************************************************************)
(* Bounds for Practice.                                                    *)
(***************************************************************************)
EXTENDS Practice, TLC

Symmetry == Permutations(Questions) \cup Permutations(Runs) \cup Permutations(Versions)
=============================================================================
