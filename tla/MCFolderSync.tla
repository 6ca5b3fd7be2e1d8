---------------------------- MODULE MCFolderSync ----------------------------
(* Instances of FolderSync for TLC. *)
EXTENDS FolderSync, TLC

CONSTANTS t1, t2

TwoDocs == 1 .. 2

FourDocs == 1 .. 4

DistinctNames == [p \in 1 .. NumPaths |-> p]

\* a/notes.md and b/notes.md
OneName == [p \in 1 .. NumPaths |-> "notes.md"]

TextSymmetry == Permutations(Texts \ {Empty, Mixed})

\* All that decides a step or a property of folder_concurrent and of
\* folder_poll: the rest is written only.
WorkView == <<local, trash, dirty, tracked, cloud, cycle, edits, crashes, mine, lost>>

QuietView ==
  <<local, dirty, tracked, docAt, docText, docLive, cycle, edits, crashes, held, unanswered,
    disturbed>>

=============================================================================
