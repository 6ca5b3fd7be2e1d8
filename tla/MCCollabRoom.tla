---- MODULE MCCollabRoom ----
(***************************************************************************)
(* Instances of CollabRoom for TLC: two clients of one document.           *)
(***************************************************************************)
EXTENDS CollabRoom, TLC

CONSTANTS c1, c2

MCClients == {c1, c2}

Symmetry == Permutations(MCClients)
====
