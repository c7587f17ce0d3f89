---------------------------- MODULE MCWorkspace ----------------------------
(***************************************************************************)
(* Instances of Workspace for TLC: every job overlaps with every other and *)
(* with outside commits, or none does.                                     *)
(***************************************************************************)
EXTENDS Workspace, TLC

CONSTANT Touching
MCOverlap == [j \in Jobs |-> IF Touching THEN (Jobs \cup {Outside}) \ {j} ELSE {}]
Symmetry == Permutations(Jobs) \cup Permutations(Workers)
=============================================================================
