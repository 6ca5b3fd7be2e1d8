----------------------------- MODULE MCFolderTree -----------------------------
(* Instances of FolderTree for TLC. *)
EXTENDS FolderTree, TLC

Symmetry ==
  Permutations(Clients) \cup Permutations(Users) \cup Permutations(Folders)

\* The request of a client that is idle is over, and decides nothing any more.
View ==
  <<node, access, todo, [c \in Clients |-> IF Idle(c) THEN <<>> ELSE <<request[c]>>],
    birth, requests, fails, raced, intoTrash>>

=============================================================================
