------------------------------ MODULE FolderTree ------------------------------
(***************************************************************************)
(* Folders, their documents and their trash: services/folder_service.py,   *)
(* document_service.py and the collaborators of both, on the rights of     *)
(* Acl.                                                                    *)
(*                                                                         *)
(* A request first reads and checks, then makes its database calls one by  *)
(* one: between two of them other requests run.  A save writes back the    *)
(* whole record that was loaded, and inserts it if it is gone (Beanie).    *)
(* `todo` holds the calls a request has still to make; a cascade finds the *)
(* children of a folder by a query of its own, so each folder it meets     *)
(* adds calls.  The checks of a request are one step with its first read.  *)
(*                                                                         *)
(* Left out: names and contents, the per-user limits (5000 folders, 10000  *)
(* documents), a second access row from two grants at once, the save of    *)
(* last_accessed_at, and versions, comments and files of a document.       *)
(***************************************************************************)
EXTENDS Acl, Sequences

CONSTANTS
  Clients,      \* requests that may run at once
  MaxDepth,     \* MAX_FOLDER_DEPTH
  Granted,      \* bound: the rights that are handed out
  MaxRequests,  \* bound: requests ever made
  BesideAt,     \* bound: which of them may begin while another one runs
  MaxFails,     \* bound: requests cut short by an exception or a crash
  MaxCalls      \* Python's recursion limit, as a number of pending calls

ASSUME FolderTreeAssumption ==
  /\ MaxDepth \in Nat \ {0}
  /\ Granted \subseteq Rights
  /\ MaxRequests \in Nat /\ BesideAt \subseteq Nat /\ MaxFails \in Nat /\ MaxCalls \in Nat
  /\ "keep" \notin Rights \cup {None}
  /\ None \notin Node

\* A cascade over folders no deeper than MAX_FOLDER_DEPTH (20) stays below
\* Python's recursion limit (1000): TooDeep is for chains that races made.
ASSUME RecursionAssumption == MaxCalls >= 4 * MaxDepth + 5

VARIABLES
  todo,      \* of a client: the calls its request has still to make
  request,   \* of a client: its request, or the last one
  birth,     \* history: the root a folder was created with; ids are used once
  requests,  \* history: requests made
  fails,     \* history: requests cut short
  raced,     \* history: a folder request ran beside another one
  intoTrash  \* history: something was created in or moved to a deleted folder

vars == <<node, access, todo, request, birth, requests, fails, raced, intoTrash>>

\* Database calls.  `save`, `drop`: one node.  `row`: one access row.  `purge`:
\* what hangs on a node.  `folders`, `docs`: the queries of a cascade; `each`: the
\* loop over what one returned.
Call(op, e, arg) == [op |-> op, id |-> e, arg |-> arg]

Each(f, mode, left) == Call("each", f, [mode |-> mode, left |-> left])

Save(e, rec) == Call("save", e, rec)

Modes == {"soft", "restore", "hard"}

Marked(mode, rec) == [rec EXCEPT !.deleted = (mode = "soft")]

\* The calls of _cascade_soft_delete, _cascade_restore, _cascade_hard_delete on
\* a folder, and what each does with a document.
CascadeFolder(mode, f, rec) ==
  LET children == <<Call("folders", f, mode), Call("docs", f, mode)>>
  IN IF mode = "hard"
     THEN children \o <<Call("purge", f, None), Call("drop", f, None)>>
     ELSE <<Save(f, Marked(mode, rec))>> \o children

CascadeDoc(mode, d, rec) ==
  IF mode = "hard" THEN <<Call("purge", d, None), Call("drop", d, None)>>
                   ELSE <<Save(d, Marked(mode, rec))>>

Cascade(mode, e, copy) ==
  IF e \in Folders THEN CascadeFolder(mode, e, copy) ELSE CascadeDoc(mode, e, copy)

\* Mutant of Found: a hard delete goes over what is not deleted only.
FoundLive(mode, nodes, f) ==
  {e \in nodes : Exists(e) /\ node[e].parent = f
                   /\ node[e].deleted = (mode = "restore")}

\* Which children the cascade's query returns.
Found(mode, nodes, f) ==
  {e \in nodes : /\ Exists(e) /\ node[e].parent = f
                 /\ \/ mode = "hard"
                    \/ node[e].deleted = (mode = "restore")}

Idle(c) == todo[c] = <<>>

\* A client starts a request when its last one is over.
Ready(c) ==
  /\ Idle(c) /\ requests < MaxRequests
  /\ (\E d \in Clients : ~Idle(d)) => requests + 1 \in BesideAt

\* Two requests of which one changes folders.
Disturbs(kind, other) ==
  "folder" \in {kind, other} /\ "row" \notin {kind, other}

\* u may delete all that is below e, whoever owns it: as the root owner, or as
\* the owner of a folder at the top.
OwnsAll(e, u) ==
  /\ Exists(e)
  /\ RootOwner(e) = u \/ (node[e].parent = None /\ node[e].owner = u)

(***************************************************************************)
(* A request of u whose checks have passed: it makes the calls, kind tells *)
(* what it may disturb, on is its node, into the folder it fills.  History *)
(* of what it found: trashed, a deleted node; all, a user who owns all.    *)
(***************************************************************************)
Begin(c, u, kind, op, on, into, calls) ==
  /\ requests' = requests + 1
  /\ todo' = [todo EXCEPT ![c] = calls]
  /\ request' = [request EXCEPT ![c] = [kind |-> kind, op |-> op, on |-> on, user |-> u,
                                        trashed |-> Exists(on) /\ node[on].deleted,
                                        all |-> OwnsAll(on, u)]]
  /\ raced' = (raced \/ \E d \in Clients : ~Idle(d) /\ Disturbs(kind, request[d].kind))
  /\ intoTrash' = (intoTrash \/ (into # None /\ node[into].deleted))
  /\ UNCHANGED <<node, access, fails>>

-----------------------------------------------------------------------------
(***************************************************************************)
(* Folders.                                                                *)
(***************************************************************************)
\* The root_folder_id of what is put into folder f.
RootFor(f) == IF node[f].root = None THEN f ELSE node[f].root

\* create_folder: a folder at the top is inserted without a root, then saved
\* with itself as the root.
CreateFolder(c, u, f, p) ==
  LET rec == [owner |-> u, parent |-> p, root |-> IF p = None THEN None ELSE RootFor(p),
              general |-> None, deleted |-> FALSE]
  IN /\ birth[f] = None
     /\ p # None => Exists(p) /\ MayTouch(p, u, "edit") /\ 1 + Height(p) <= MaxDepth
     /\ birth' = [birth EXCEPT ![f] = IF p = None THEN f ELSE rec.root]
     /\ Begin(c, u, "folder", "create", f, p,
              IF p = None THEN <<Save(f, rec), Save(f, [rec EXCEPT !.root = f])>>
                          ELSE <<Save(f, rec)>>)

\* Mutant of UpdateFolder: the depth below f is not counted.
UpdateFolderOneLevel(c, u, f, p, general) ==
  /\ Exists(f) /\ MayTouch(f, u, "edit")
  /\ p # None => /\ p # f /\ Exists(p) /\ MayTouch(p, u, "edit")
                 /\ f \notin Chain(p)
                 /\ f \notin Below(f) /\ 1 + Height(p) <= MaxDepth
  /\ general # "keep" => node[f].owner = u
  /\ UNCHANGED birth
  /\ Begin(c, u, "folder", "update", f, IF node[f].deleted THEN None ELSE p,
           <<Save(f, [node[f] EXCEPT
                        !.parent  = IF p = None THEN @ ELSE p,
                        !.general = IF general = "keep" THEN @ ELSE general])>>)

\* Mutant of UpdateFolder: a general access that was not given is saved.
UpdateFolderAll(c, u, f, p, general) ==
  /\ Exists(f) /\ MayTouch(f, u, "edit")
  /\ p # None => /\ p # f /\ Exists(p) /\ MayTouch(p, u, "edit")
                 /\ f \notin Chain(p)
                 /\ f \notin Below(f) /\ Levels(f) + Height(p) <= MaxDepth
  /\ UNCHANGED birth
  /\ Begin(c, u, "folder", "update", f, IF node[f].deleted THEN None ELSE p,
           <<Save(f, [node[f] EXCEPT !.parent  = IF p = None THEN @ ELSE p,
                                     !.general = general])>>)

\* update_folder with name, parent_id and general_access each given or not.
\* A move does not ask whether f or p is deleted, and leaves root alone.
\* _subtree_depth comes to no end around a cycle of folders that f is part of.
UpdateFolder(c, u, f, p, general) ==
  /\ Exists(f) /\ MayTouch(f, u, "edit")
  /\ p # None => /\ p # f /\ Exists(p) /\ MayTouch(p, u, "edit")
                 /\ f \notin Chain(p)
                 /\ f \notin Below(f) /\ Levels(f) + Height(p) <= MaxDepth
  /\ general # "keep" => node[f].owner = u
  /\ UNCHANGED birth
  /\ Begin(c, u, "folder", "update", f, IF node[f].deleted THEN None ELSE p,
           <<Save(f, [node[f] EXCEPT
                        !.parent  = IF p = None THEN @ ELSE p,
                        !.general = IF general = "keep" THEN @ ELSE general])>>)

\* soft_delete_folder, hard_delete_folder
DeleteFolder(c, u, f, mode) ==
  /\ mode # "restore"
  /\ CanDelete(f, u)
  /\ UNCHANGED birth
  /\ Begin(c, u, "folder", mode, f, None, Cascade(mode, f, node[f]))

\* Mutant of RestoreFolder: the folder stays where it was.
RestoreFolderInPlace(c, u, f) ==
  /\ CanDelete(f, u)
  /\ UNCHANGED birth
  /\ Begin(c, u, "folder", "restore", f, None, Cascade("restore", f, node[f]))

\* restore_folder: to the top if its parent is still deleted.
RestoreFolder(c, u, f) ==
  LET p == node[f].parent
  IN /\ CanDelete(f, u)
     /\ UNCHANGED birth
     /\ Begin(c, u, "folder", "restore", f, None,
              CascadeFolder("restore", f,
                IF p # None /\ Exists(p) /\ ~Live(p) THEN [node[f] EXCEPT !.parent = None]
                                                     ELSE node[f]))

-----------------------------------------------------------------------------
(***************************************************************************)
(* Documents.                                                              *)
(***************************************************************************)
\* create_document
CreateDoc(c, u, d, p) ==
  /\ birth[d] = None
  /\ p # None => Exists(p) /\ MayTouch(p, u, "edit")
  /\ birth' = [birth EXCEPT ![d] = d]
  /\ Begin(c, u, "doc", "create", d, p,
           <<Save(d, [owner |-> u, parent |-> p,
                      root |-> IF p = None THEN None ELSE RootFor(p),
                      general |-> None, deleted |-> FALSE])>>)

\* Mutant of UpdateDoc: a move keeps the root.
UpdateDocKeepsRoot(c, u, d, p) ==
  /\ Live(d) /\ MayTouchDoc(d, u, "edit")
  /\ p # None => Exists(p) /\ MayTouch(p, u, "edit")
  /\ UNCHANGED birth
  /\ Begin(c, u, "doc", "update", d, p,
           <<Save(d, [node[d] EXCEPT !.parent = IF p = None THEN @ ELSE p])>>)

\* update_document with title, content and folder_id given or not.
UpdateDoc(c, u, d, p) ==
  /\ Live(d) /\ MayTouchDoc(d, u, "edit")
  /\ p # None => Exists(p) /\ MayTouch(p, u, "edit")
  /\ UNCHANGED birth
  /\ Begin(c, u, "doc", "update", d, p,
           <<Save(d, IF p = None THEN node[d]
                     ELSE [node[d] EXCEPT !.parent = p, !.root = RootFor(p)])>>)

\* share_service.update_general_access
SetDocGeneral(c, u, d, general) ==
  /\ Exists(d) /\ node[d].owner = u
  /\ UNCHANGED birth
  /\ Begin(c, u, "doc", "update", d, None,
           <<Save(d, [node[d] EXCEPT !.general = general])>>)

\* soft_delete_document takes the document out of its folder and keeps the root.
DeleteDoc(c, u, d) ==
  /\ CanDelete(d, u)
  /\ UNCHANGED birth
  /\ Begin(c, u, "doc", "soft", d, None,
           CascadeDoc("soft", d, [node[d] EXCEPT !.parent = None]))

\* restore_document: to the top if its folder is still deleted.
RestoreDoc(c, u, d) ==
  LET p == node[d].parent
  IN /\ CanDelete(d, u)
     /\ UNCHANGED birth
     /\ Begin(c, u, "doc", "restore", d, None,
              CascadeDoc("restore", d,
                IF p # None /\ Exists(p) /\ ~Live(p) THEN [node[d] EXCEPT !.parent = None]
                                                     ELSE node[d]))

\* hard_delete_document
HardDeleteDoc(c, u, d) ==
  /\ CanDelete(d, u)
  /\ UNCHANGED birth
  /\ Begin(c, u, "doc", "hard", d, None, Cascade("hard", d, node[d]))

-----------------------------------------------------------------------------
\* add_folder_collaborator, add_collaborator: v gets a row, or the row a right.
AddCollaborator(c, u, e, v, right) ==
  /\ CanShare(e, u) /\ v # u
  /\ UNCHANGED birth
  /\ Begin(c, u, "row", "add", e, None, <<Call("row", e, [user |-> v, right |-> right])>>)

\* remove_folder_collaborator, remove_collaborator
RemoveCollaborator(c, u, e, v) ==
  /\ CanShare(e, u) /\ access[e][v] # None
  /\ UNCHANGED birth
  /\ Begin(c, u, "row", "remove", e, None, <<Call("row", e, [user |-> v, right |-> None])>>)

-----------------------------------------------------------------------------
(***************************************************************************)
(* The calls of a request.                                                 *)
(***************************************************************************)
Doing(c, op) == ~Idle(c) /\ Head(todo[c]).op = op

Done(c, more) ==
  /\ todo' = [todo EXCEPT ![c] = more \o Tail(@)]
  /\ UNCHANGED <<request, birth, requests, fails, raced, intoTrash>>

\* insert, or save: an update of the whole record that upserts
DoSave(c) ==
  /\ Doing(c, "save")
  /\ node' = [node EXCEPT ![Head(todo[c]).id] = Head(todo[c]).arg]
  /\ Done(c, <<>>)
  /\ UNCHANGED access

DoDrop(c) ==
  /\ Doing(c, "drop")
  /\ node' = [node EXCEPT ![Head(todo[c]).id] = None]
  /\ Done(c, <<>>)
  /\ UNCHANGED access

DoRow(c) ==
  LET row == Head(todo[c])
  IN /\ Doing(c, "row")
     /\ access' = [access EXCEPT ![row.id][row.arg.user] = row.arg.right]
     /\ Done(c, <<>>)
     /\ UNCHANGED node

DoPurge(c) ==
  /\ Doing(c, "purge")
  /\ access' = [access EXCEPT ![Head(todo[c]).id] = [u \in Users |-> None]]
  /\ Done(c, <<>>)
  /\ UNCHANGED node

\* A query for the children of a folder returns copies of them.
DoFind(c) ==
  LET call  == Head(todo[c])
      found == Found(call.arg, IF call.op = "docs" THEN Docs ELSE Folders, call.id)
  IN /\ \/ Doing(c, "folders") \/ Doing(c, "docs")
     /\ Done(c, IF found = {} THEN <<>>
                ELSE <<Each(call.id, call.arg, {[id |-> e, copy |-> node[e]] : e \in found})>>)
     /\ UNCHANGED <<node, access>>

\* The loop over them, in any order, visits each with its copy.
DoEach(c) ==
  LET call == Head(todo[c])
  IN /\ Doing(c, "each")
     /\ Len(todo[c]) <= MaxCalls
     /\ \E child \in call.arg.left :
          Done(c, Cascade(call.arg.mode, child.id, child.copy)
                    \o IF call.arg.left = {child} THEN <<>>
                       ELSE <<Each(call.id, call.arg.mode, call.arg.left \ {child})>>)
     /\ UNCHANGED <<node, access>>

\* The request ends early; nothing is rolled back.
End(c) ==
  /\ ~Idle(c)
  /\ todo' = [todo EXCEPT ![c] = <<>>]
  /\ UNCHANGED <<node, access, request, birth, requests, raced, intoTrash>>

\* An exception of the database, or a crash.
Fail(c) == fails < MaxFails /\ fails' = fails + 1 /\ End(c)

\* Python's RecursionError.
TooDeep(c) == Len(todo[c]) > MaxCalls /\ UNCHANGED fails /\ End(c)

-----------------------------------------------------------------------------
Init ==
  /\ node = [e \in Nodes |-> None]
  /\ access = [e \in Nodes |-> [u \in Users |-> None]]
  /\ todo = [c \in Clients |-> <<>>]
  /\ request = [c \in Clients |->
                  [kind |-> "row", op |-> "none", on |-> None, user |-> None,
                   trashed |-> FALSE, all |-> FALSE]]
  /\ birth = [e \in Nodes |-> None]
  /\ requests = 0 /\ fails = 0
  /\ raced = FALSE /\ intoTrash = FALSE

FolderRequest(c, u, f) ==
  \/ \E p \in Folders \cup {None} :
       \/ CreateFolder(c, u, f, p)
       \/ \E general \in Granted \cup {None, "keep"} : UpdateFolder(c, u, f, p, general)
  \/ \E mode \in Modes : DeleteFolder(c, u, f, mode)
  \/ RestoreFolder(c, u, f)

DocRequest(c, u, d) ==
  \/ \E p \in Folders \cup {None} : CreateDoc(c, u, d, p) \/ UpdateDoc(c, u, d, p)
  \/ \E general \in Granted \cup {None} : SetDocGeneral(c, u, d, general)
  \/ DeleteDoc(c, u, d) \/ RestoreDoc(c, u, d) \/ HardDeleteDoc(c, u, d)

RowRequest(c, u, e) ==
  \E v \in Users :
    \/ \E right \in Granted : AddCollaborator(c, u, e, v, right)
    \/ RemoveCollaborator(c, u, e, v)

Next ==
  \E c \in Clients :
    \/ /\ Ready(c)
       /\ \E u \in Users :
            \/ \E f \in Folders : FolderRequest(c, u, f)
            \/ \E d \in Docs : DocRequest(c, u, d)
            \/ \E e \in Nodes : RowRequest(c, u, e)
    \/ DoSave(c) \/ DoDrop(c) \/ DoRow(c) \/ DoPurge(c) \/ DoFind(c) \/ DoEach(c)
    \/ Fail(c) \/ TooDeep(c)

Spec == Init /\ [][Next]_vars

-----------------------------------------------------------------------------
(***************************************************************************)
(* Properties.                                                             *)
(***************************************************************************)
\* The pending calls there may be.
Calls ==
  [op : {"save"}, id : Nodes, arg : Node]
    \cup [op : {"folders", "docs"}, id : Folders, arg : Modes]
    \cup [op : {"each"}, id : Folders,
          arg : [mode : Modes, left : SUBSET [id : Nodes, copy : Node]]]
    \cup [op : {"purge", "drop"}, id : Nodes, arg : {None}]
    \cup [op : {"row"}, id : Nodes, arg : [user : Users, right : Rights \cup {None}]]

\* Every variable has its type: records in the database, calls in the lists.
TypeOK ==
  /\ node \in [Nodes -> Node \cup {None}]
  /\ access \in [Nodes -> [Users -> Rights \cup {None}]]
  /\ \A c \in Clients : todo[c] \in Seq(Calls)
  /\ request \in [Clients -> [kind : {"folder", "doc", "row"},
                              op : Modes \cup {"none", "create", "update", "add", "remove"},
                              on : Nodes \cup {None}, user : Users \cup {None},
                              trashed : BOOLEAN, all : BOOLEAN]]
  /\ birth \in [Nodes -> Nodes \cup {None}]
  /\ requests \in 0..MaxRequests /\ fails \in 0..MaxFails
  /\ raced \in BOOLEAN /\ intoTrash \in BOOLEAN

\* A document in a folder has the folder's root, whatever requests overlap, are
\* cut short or write back old copies: the rights resolved by its
\* root_folder_id are the ones resolved by its folder's.
DocRootFollows ==
  \A d \in Docs :
    Exists(d) /\ node[d].parent # None /\ Exists(node[d].parent)
      => LET p == node[d].parent
         IN node[d].root = IF node[p].root = None THEN p ELSE node[p].root

\* While no folder request runs beside another one, every chain ends at the top
\* within MAX_FOLDER_DEPTH and names only folders there are, even in the middle
\* of a cascade and after one that failed.
TreeSound ==
  ~raced =>
    /\ \A f \in Folders : Exists(f) => Ends(f) /\ Height(f) <= MaxDepth
    /\ \A e \in Nodes :
         Exists(e) /\ node[e].parent # None => Exists(node[e].parent)

\* No folder request is running.
Quiet == \A c \in Clients : Idle(c) \/ request[c].kind # "folder"

\* Between folder requests nothing live is in a deleted folder, where no
\* listing would show it; except after overlapping or failed requests, and
\* after something was put into the trash, which the code allows.
NothingLiveInTrash ==
  Quiet /\ ~raced /\ ~intoTrash /\ fails = 0 =>
    \A e \in Nodes : Live(e) /\ node[e].parent # None => Live(node[e].parent)

\* When a cascade is through, it missed nothing: all that is below its folder,
\* at any depth, is deleted, restored, or gone.  A folder that is not in the
\* trash may be restored too, and is left out: below a live child nothing is.
CascadeComplete ==
  [][\A c \in Clients :
       LET r == request[c]
       IN ~Idle(c) /\ Idle(c)' /\ r.kind = "folder" /\ r.op \in Modes
            /\ (r.op = "restore" => r.trashed)
            /\ ~raced /\ ~intoTrash /\ fails' = 0 =>
          /\ Exists(r.on)' <=> r.op # "hard"
          /\ \A e \in Below(r.on)' : Exists(e)' /\ r.op # "hard"
                                       /\ (Live(e)' <=> r.op = "restore")]_vars

\* A user deletes live nodes of others only as the root owner, or as the owner
\* of a folder at the top: what is deleted below a nested folder is the
\* deleter's own, though the check is made before the first call.
OwnersDelete ==
  [][\A c \in Clients, e \in Nodes :
       LET r == request[c]
       IN Live(e) /\ ~Live(e)' /\ todo'[c] # todo[c]
            /\ ~raced /\ ~intoTrash /\ fails = 0 /\ ~r.all =>
          node[e].owner = r.user]_vars

\* The two resolvers agree: a right that get_base_permission reports on a folder
\* is one that _assert_folder_access lets the user exercise.
RightsAgree ==
  ~raced =>
    \A f \in Folders, u \in Users :
      BasePermission(f, u) # None => MayTouch(f, u, BasePermission(f, u))

\* The list of who has rights is complete: whoever it leaves out neither
\* deletes nor shares, and views or edits by general access alone
\* (acl_service.py:424-586 against its resolvers).
SummaryComplete ==
  \A e \in Nodes, u \in Users : Exists(e) /\ u \notin AclSummary(e) =>
    /\ ~CanDelete(e, u) /\ ~CanShare(e, u)
    /\ BasePermission(e, u) # None =>
         \E f \in {e} \cup Chain(e) : Exists(f) /\ node[f].general # None

\* What a listing shows a user, the user may open: a document is judged by
\* another walk than the folder it is listed in (folder_service.py:268-297,
\* document_service.py:447-499).  The general access of a nested folder, which
\* that walk does not read, is left out.
ContentsOpen ==
  ~raced /\ (\A f \in Folders : Exists(f) /\ node[f].general # None => node[f].parent = None) =>
    \A f \in Folders \cup {None}, u \in Users : \A e \in Contents(f, u) :
      IF e \in Folders THEN MayTouch(e, u, "view") ELSE MayTouchDoc(e, u, "view")

=============================================================================
