--------------------------------- MODULE Acl ---------------------------------
(***************************************************************************)
(* Rights on folders and documents: services/acl_service.py and the access *)
(* checks of folder_service.py, document_service.py and share_service.py,  *)
(* over the two collections they read.                                     *)
(*                                                                         *)
(* Users are personal accounts: they belong to no organization, so the     *)
(* organization boundary allows every general access and no group applies. *)
(* A resolver walks up the folder chain with one query per folder; here a  *)
(* resolution reads one state.  MAX_DEPTH (50) is above Cardinality(       *)
(* Folders) and cuts no walk.  Folders and documents are nodes with one    *)
(* field `parent`: Folder.parent_id or Document_.folder_id.                *)
(***************************************************************************)
EXTENDS Naturals, FiniteSetsExt

CONSTANTS Users, Folders, Docs, None

ASSUME AclAssumption ==
  /\ IsFiniteSet(Folders)
  /\ Folders \cap Docs = {}
  /\ None \notin Folders \cup Docs \cup Users \cup {"view", "edit"}

Nodes == Folders \cup Docs

Rights == {"view", "edit"}

\* general_access: None is RESTRICTED, a right is ANYONE_VIEW or ANYONE_EDIT.
Node == [owner: Users, parent: Folders \cup {None}, root: Folders \cup {None},
         general: Rights \cup {None}, deleted: BOOLEAN]

VARIABLES
  node,    \* MongoDB: folders and documents, None if there is none
  access   \* MongoDB: rows of FolderAccess and DocumentAccess, None if none

Exists(e) == node[e] # None

Live(e) == Exists(e) /\ ~node[e].deleted

Suffices(right, least) == right = "edit" \/ right = least

(***************************************************************************)
(* The chain.  Up(e, n) is the n-th id met on the way up from e: the last  *)
(* may name a folder that is gone, and None follows.  Every loop of the    *)
(* code keeps a set of visited ids: it ends after Span steps.              *)
(***************************************************************************)
Span == 0..Cardinality(Folders)

Up(e, n) ==
  LET up[k \in Nat] ==
        IF k = 0 THEN e
        ELSE IF up[k - 1] = None \/ node[up[k - 1]] = None THEN None
             ELSE node[up[k - 1]].parent
  IN up[n]

Chain(e) == {Up(e, n) : n \in Span} \ {None}

\* A recursion without such a set, up from e, comes to an end.
Ends(e) == Up(e, Cardinality(Folders) + 1) = None

Below(f) == {e \in Nodes : Exists(e) /\ \E n \in Span \ {0} : Up(e, n) = f}

\* Ids _check_depth counts, and the levels _subtree_depth finds.
Height(f) == IF f = None THEN 0 ELSE Cardinality(Chain(f))

Levels(f) ==
  Cardinality({n \in Span : \E g \in Folders : Exists(g) /\ Up(g, n) = f})

-----------------------------------------------------------------------------
(***************************************************************************)
(* View and edit.                                                          *)
(***************************************************************************)
\* What one folder says about u, None if nothing.
Says(f, u) ==
  IF node[f].owner = u THEN "edit"
  ELSE IF access[f][u] # None THEN access[f][u]
  ELSE node[f].general

\* _get_inherited_permission: the nearest folder that says something.
Inherited(f, u) ==
  LET said == {n \in Span : /\ Up(f, n) # None
                            /\ Exists(Up(f, n))
                            /\ Says(Up(f, n), u) # None}
  IN IF said = {} THEN None
     ELSE Says(Up(f, Min(said)), u)

\* get_base_permission: a nested folder's own general access is not read.
BasePermission(e, u) ==
  IF ~Exists(e) \/ (node[e].deleted /\ node[e].owner # u) THEN None
  ELSE IF node[e].owner = u THEN "edit"
  ELSE IF access[e][u] # None THEN access[e][u]
  ELSE IF node[e].parent = None THEN node[e].general
  ELSE LET above == Inherited(node[e].parent, u)
       IN IF e \in Docs /\ above = None THEN node[e].general ELSE above

\* Mutant of MayTouch: the chain is not followed.
MayTouchHere(f, u, least) ==
  /\ Exists(f)
  /\ \/ node[f].owner = u
     \/ Suffices(IF access[f][u] # None THEN access[f][u] ELSE node[f].general, least)

\* _assert_folder_access: the first access row decides, against whoever asks
\* too; general access counts after everything above was refused.
MayTouch(f, u, least) ==
  \E n \in Span :
    LET g == Up(f, n)
    IN /\ g # None /\ Exists(g)
       /\ \A m \in 0..(n - 1) : access[Up(f, m)][u] = None
       /\ \/ node[g].owner = u
          \/ /\ node[g].owner # u
             /\ access[g][u] # None
             /\ Suffices(access[g][u], least)
          \/ /\ access[g][u] = None
             /\ Suffices(node[g].general, least)
             /\ \/ Ends(f)
                \/ \E m \in Span : Up(f, m) \in Folders /\ access[Up(f, m)][u] # None

\* Mutant of MayTouchDoc: the rights on a folder at the top are not inherited.
MayTouchDocNested(d, u, least) ==
  \/ node[d].owner = u
  \/ LET p == node[d].parent
         inherited == IF p = None \/ node[p] = None \/ node[p].parent = None THEN None
                      ELSE BasePermission(p, u)
     IN Suffices(IF access[d][u] # None THEN access[d][u]
                 ELSE IF inherited # None THEN inherited
                 ELSE node[d].general, least)

\* document_service._assert_access.
MayTouchDoc(d, u, least) ==
  \/ node[d].owner = u
  \/ LET inherited == IF node[d].parent = None THEN None
                      ELSE BasePermission(node[d].parent, u)
     IN Suffices(IF access[d][u] # None THEN access[d][u]
                 ELSE IF inherited # None THEN inherited
                 ELSE node[d].general, least)

-----------------------------------------------------------------------------
(***************************************************************************)
(* Delete and share: resolve_effective_permission.                         *)
(***************************************************************************)
\* find_root_folder_by_walk: the last folder met.
Top(f) ==
  LET met == {n \in Span : Up(f, n) # None /\ Exists(Up(f, n))}
  IN IF met = {} THEN None ELSE Up(f, Max(met))

OwnerOf(f) == IF f = None \/ node[f] = None THEN None ELSE node[f].owner

\* get_root_owner_id
RootOwner(e) ==
  IF node[e].root # None THEN OwnerOf(node[e].root)
  ELSE IF node[e].parent # None THEN OwnerOf(Top(node[e].parent))
  ELSE IF e \in Folders THEN node[e].owner ELSE None

\* Mutant of AllChildrenOwnedBy: documents are not looked at.
AllFoldersOwnedBy(f, u) == \A e \in Below(f) \cap Folders : node[e].owner = u

\* all_children_owned_by goes down through what is not deleted, and never
\* returns from a cycle.
AllChildrenOwnedBy(f, u) ==
  LET seen == {e \in Below(f) :
                 \E n \in Span \ {0} :
                   /\ Up(e, n) = f
                   /\ \A m \in 0..(n - 1) : ~node[Up(e, m)].deleted}
  IN f \notin seen /\ \A e \in seen : node[e].owner = u

CanDelete(e, u) ==
  /\ Exists(e)
  /\ \/ RootOwner(e) = u
     \/ /\ node[e].owner = u
        /\ \/ node[e].parent = None
           \/ e \in Docs
           \/ AllChildrenOwnedBy(e, u)

\* A folder is shared by its root owner too, a document by its owner only
\* (share_service._assert_owner).
CanShare(e, u) ==
  /\ Exists(e)
  /\ node[e].owner = u \/ (e \in Folders /\ RootOwner(e) = u)

-----------------------------------------------------------------------------
(***************************************************************************)
(* What is shown of the rights.                                            *)
(***************************************************************************)
HasRow(e) == {u \in Users : access[e][u] # None}

\* Mutant of AclSummary: of the folders above only the owners are listed.
AclSummaryOwners(e) ==
  {node[e].owner} \cup ({RootOwner(e)} \ {None}) \cup HasRow(e)
    \cup {node[f].owner : f \in {g \in Chain(node[e].parent) : Exists(g)}}

\* get_acl_summary: the owner, the root owner, who has a row of e, and who owns
\* or has a row of a folder above.
AclSummary(e) ==
  LET above == {f \in Chain(node[e].parent) : Exists(f)}
  IN {node[e].owner} \cup ({RootOwner(e)} \ {None}) \cup HasRow(e)
       \cup UNION {{node[f].owner} \cup HasRow(f) : f \in above}

\* list_folder_contents, and list_folders for the top: what u is shown of f.
Contents(f, u) ==
  {e \in Nodes : /\ Live(e) /\ node[e].parent = f
                 /\ IF f = None THEN node[e].owner = u
                                 ELSE Live(f) /\ MayTouch(f, u, "view")}

=============================================================================
