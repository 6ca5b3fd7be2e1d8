---- MODULE MCRegistry ----
(***************************************************************************)
(* Instances of Registry for TLC.                                          *)
(***************************************************************************)
EXTENDS Registry, TLC

CONSTANTS s1, s2, t1, t2, path1, path2

Symmetry == Permutations(Syncs) \cup Permutations(Commands) \cup Permutations(Paths)
====
