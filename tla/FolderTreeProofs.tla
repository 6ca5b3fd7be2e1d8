--------------------------- MODULE FolderTreeProofs ---------------------------
(***************************************************************************)
(* Theorems about FolderTree, for every value of its constants: the types, *)
(* that a document has the root of its folder, the shape of the tree, and  *)
(* the rights that are read along its chains.                              *)
(*                                                                         *)
(* The first part is about roots: the root a folder is created with is its *)
(* root for ever, since no operation writes another one.  So a copy of a   *)
(* document that was right when it was loaded is right whenever it is      *)
(* written back, even beside a folder that was deleted, or deleted and     *)
(* inserted again, in between.                                             *)
(*                                                                         *)
(* The second part is about walks up any collection of nodes: what they    *)
(* meet, when they end, and how one save changes them.  Induction over a   *)
(* walk is NumbersFrom0, which takes a set instead of an operator.         *)
(*                                                                         *)
(* The third part is the invariant TreeInv.  As long as no folder request  *)
(* has run beside another request on nodes, the only request that changes  *)
(* folders finds the tree as it left it, so the checks it made still hold  *)
(* at its first save; its later saves move nothing; and a hard delete      *)
(* still has to go over whatever is in a folder that it will drop.         *)
(***************************************************************************)
EXTENDS FolderTree, SequenceTheorems, WellFoundedInduction, FiniteSetTheorems,
        FunctionTheorems, TLAPS

-----------------------------------------------------------------------------
(* The inductive invariant.                                                *)

\* Record rec of node e agrees with the roots folders were created with; a
\* folder at the top has none until its second save.
Rooted(e, rec) ==
  IF e \in Folders
  THEN /\ birth[e] # None
       /\ rec.root = birth[e] \/ (rec.root = None /\ birth[e] = e)
  ELSE rec.parent # None => birth[rec.parent] # None /\ rec.root = birth[rec.parent]

Fits(call) ==
  /\ call.op = "save" => Rooted(call.id, call.arg)
  /\ call.op = "each" => \A child \in call.arg.left : Rooted(child.id, child.copy)

\* The calls that write only such records.
GoodCalls == {call \in Calls : Fits(call)}

BirthOK == \A f \in Folders : birth[f] \in Folders \cup {None}

IInv ==
  /\ TypeOK
  /\ BirthOK
  /\ \A e \in Nodes : Exists(e) => Rooted(e, node[e])
  /\ \A c \in Clients : todo[c] \in Seq(GoodCalls)

\* Ids are used once.
Grows ==
  /\ birth' \in [Nodes -> Nodes \cup {None}]
  /\ BirthOK'
  /\ \A e \in Nodes : birth[e] # None => birth'[e] = birth[e]

-----------------------------------------------------------------------------
\* What an existing folder hands down is the root it was created with.
LEMMA RootForIsBirth ==
  ASSUME IInv, NEW p \in Folders, Exists(p)
  PROVE  RootFor(p) = birth[p] /\ birth[p] \in Folders
<1>1. Rooted(p, node[p]) /\ birth[p] \in Folders \cup {None}
  BY DEF IInv, BirthOK, Nodes
<1>2. birth[p] # None
  BY <1>1 DEF Rooted
<1>. QED
  BY <1>1, <1>2, AclAssumption DEF Rooted, RootFor

\* A good record stays good while ids are used once.
LEMMA RootedGrows ==
  ASSUME Grows, NEW e \in Nodes, NEW rec \in Node, Rooted(e, rec)
  PROVE  Rooted(e, rec)'
<1>1. CASE e \in Folders
  BY <1>1 DEF Rooted, Grows
<1>2. CASE e \notin Folders
  <2>1. rec.parent \in Folders \cup {None}
    BY DEF Node
  <2>2. rec.parent # None => rec.parent \in Nodes
    BY <2>1 DEF Nodes
  <2>. QED
    BY <1>2, <2>2 DEF Rooted, Grows
<1>. QED
  BY <1>1, <1>2

\* What was planned well stays well planned.
LEMMA GoodCallsGrow ==
  ASSUME Grows
  PROVE  GoodCalls \subseteq GoodCalls'
<1>1. Calls = Calls'
  BY DEF Calls
<1>2. ASSUME NEW call \in GoodCalls
      PROVE  Fits(call)'
  <2>1. CASE call.op = "save"
    <3>1. call.id \in Nodes /\ call.arg \in Node
      BY <2>1 DEF GoodCalls, Calls
    <3>. QED
      BY <2>1, <3>1, RootedGrows DEF GoodCalls, Fits
  <2>2. CASE call.op = "each"
    <3>1. \A child \in call.arg.left : child.id \in Nodes /\ child.copy \in Node
      BY <2>2 DEF GoodCalls, Calls
    <3>. QED
      BY <2>2, <3>1, RootedGrows DEF GoodCalls, Fits
  <2>. QED
    BY <2>1, <2>2 DEF Fits
<1>. QED
  BY <1>1, <1>2 DEF GoodCalls

\* What a cascade does with a good copy is good.
LEMMA CascadeGood ==
  ASSUME NEW mode \in Modes, NEW e \in Nodes, NEW copy \in Node, Rooted(e, copy)
  PROVE  Cascade(mode, e, copy) \in Seq(GoodCalls)
<1>1. Call("purge", e, None) \in GoodCalls /\ Call("drop", e, None) \in GoodCalls
  BY DEF Call, GoodCalls, Calls, Fits
<1>2. Save(e, Marked(mode, copy)) \in GoodCalls
  <2>1. Marked(mode, copy) \in Node /\ Rooted(e, Marked(mode, copy))
    BY DEF Marked, Node, Rooted
  <2>. QED
    BY <2>1 DEF Save, Call, GoodCalls, Calls, Fits
<1>3. ASSUME e \in Folders
      PROVE  Call("folders", e, mode) \in GoodCalls /\ Call("docs", e, mode) \in GoodCalls
  BY <1>3 DEF Call, GoodCalls, Calls, Fits
<1>4. CASE e \in Folders
  <2>1. <<Call("folders", e, mode), Call("docs", e, mode)>> \in Seq(GoodCalls)
    BY <1>3, <1>4
  <2>2. <<Call("purge", e, None), Call("drop", e, None)>> \in Seq(GoodCalls)
    BY <1>1
  <2>3. <<Save(e, Marked(mode, copy))>> \in Seq(GoodCalls)
    BY <1>2
  <2>. QED
    BY <1>4, <2>1, <2>2, <2>3, ConcatProperties DEF Cascade, CascadeFolder
<1>5. CASE e \notin Folders
  BY <1>5, <1>1, <1>2 DEF Cascade, CascadeDoc
<1>. QED
  BY <1>4, <1>5

-----------------------------------------------------------------------------
\* The empty database.
LEMMA InitIInv == Init => IInv
<1>. SUFFICES ASSUME Init PROVE IInv
  OBVIOUS
<1>1. TypeOK
  <2>1. \A c \in Clients : todo[c] \in Seq(Calls)
    BY DEF Init
  <2>2. requests \in 0..MaxRequests /\ fails \in 0..MaxFails
    BY FolderTreeAssumption DEF Init
  <2>3. raced \in BOOLEAN /\ intoTrash \in BOOLEAN
    BY DEF Init
  <2>. QED
    BY <2>1, <2>2, <2>3 DEF Init, TypeOK
<1>. QED
  BY <1>1 DEF Init, IInv, BirthOK, Exists, Nodes

\* A request that plans good calls and uses ids once keeps the invariant.
LEMMA BeginIInv ==
  ASSUME IInv, NEW c \in Clients, NEW u \in Users,
         NEW kind \in {"folder", "doc", "row"},
         NEW op \in Modes \cup {"none", "create", "update", "add", "remove"},
         NEW on \in Nodes, NEW into,
         Ready(c), Grows,
         NEW calls \in Seq(GoodCalls'),
         Begin(c, u, kind, op, on, into, calls)
  PROVE  IInv'
<1>. USE DEF Begin
<1>1. /\ node' = node /\ access' = access /\ fails' = fails
      /\ birth' \in [Nodes -> Nodes \cup {None}] /\ BirthOK'
  BY DEF Grows
<1>2. requests' \in 0..MaxRequests
  BY FolderTreeAssumption DEF IInv, TypeOK, Ready
<1>3. raced' \in BOOLEAN /\ intoTrash' \in BOOLEAN
  OBVIOUS
<1>4. request' \in [Clients -> [kind : {"folder", "doc", "row"},
                                op : Modes \cup {"none", "create", "update", "add", "remove"},
                                on : Nodes \cup {None}, user : Users \cup {None},
                                trashed : BOOLEAN, all : BOOLEAN]]
  <2>. DEFINE trashed == Exists(on) /\ node[on].deleted
              all == OwnsAll(on, u)
  <2>1. trashed \in BOOLEAN /\ all \in BOOLEAN
    BY DEF OwnsAll
  <2>2. request' = [request EXCEPT ![c] = [kind |-> kind, op |-> op, on |-> on, user |-> u,
                                           trashed |-> trashed, all |-> all]]
    OBVIOUS
  <2>. HIDE DEF trashed, all
  <2>. QED
    BY <2>1, <2>2 DEF IInv, TypeOK
<1>5. ASSUME NEW d \in Clients
      PROVE  todo'[d] \in Seq(GoodCalls') /\ todo'[d] \in Seq(Calls')
  <2>1. todo'[d] = todo[d] \/ todo'[d] = calls
    OBVIOUS
  <2>2. todo[d] \in Seq(GoodCalls')
    BY GoodCallsGrow, SeqMonotonic DEF IInv
  <2>3. GoodCalls' \subseteq Calls'
    BY DEF GoodCalls
  <2>. QED
    BY <2>1, <2>2, <2>3, SeqMonotonic
<1>6. TypeOK'
  BY <1>1, <1>2, <1>3, <1>4, <1>5 DEF IInv, TypeOK
<1>7. ASSUME NEW e \in Nodes, Exists(e)'
      PROVE  Rooted(e, node[e])'
  <2>1. Exists(e) /\ node[e] \in Node /\ Rooted(e, node[e])
    BY <1>1, <1>7 DEF IInv, TypeOK, Exists
  <2>. QED
    BY <1>1, <2>1, RootedGrows DEF Rooted
<1>. QED
  BY <1>1, <1>5, <1>6, <1>7 DEF IInv

\* Good calls of one step, as a request plans them without a new id.
LEMMA SameBirth ==
  ASSUME IInv, UNCHANGED birth
  PROVE  Grows /\ GoodCalls' = GoodCalls
<1>1. Grows
  BY DEF IInv, TypeOK, Grows, BirthOK
<1>2. GoodCalls' = GoodCalls
  BY DEF GoodCalls, Calls, Fits, Rooted
<1>. QED
  BY <1>1, <1>2

LEMMA SaveGood ==
  ASSUME NEW e \in Nodes, NEW rec \in Node, Rooted(e, rec)
  PROVE  <<Save(e, rec)>> \in Seq(GoodCalls)
BY DEF Save, Call, GoodCalls, Calls, Fits

-----------------------------------------------------------------------------
(* The requests: each plans good calls.                                    *)

\* What is known of a node that exists.
LEMMA ExistingNode ==
  ASSUME IInv, NEW e \in Nodes, Exists(e)
  PROVE  node[e] \in Node /\ Rooted(e, node[e])
BY DEF IInv, TypeOK, Exists

\* create_folder: the new id takes the root of the parent, or itself.
LEMMA CreateFolderIInv ==
  ASSUME IInv, NEW c \in Clients, NEW u \in Users, NEW f \in Folders,
         NEW p \in Folders \cup {None}, Ready(c), CreateFolder(c, u, f, p)
  PROVE  IInv'
<1>. DEFINE rec == [owner |-> u, parent |-> p, root |-> IF p = None THEN None ELSE RootFor(p),
                    general |-> None, deleted |-> FALSE]
            top == [rec EXCEPT !.root = f]
            calls == IF p = None THEN <<Save(f, rec), Save(f, top)>> ELSE <<Save(f, rec)>>
<1>1. /\ birth[f] = None
      /\ p # None => Exists(p)
      /\ birth' = [birth EXCEPT ![f] = IF p = None THEN f ELSE rec.root]
      /\ Begin(c, u, "folder", "create", f, p, calls)
  BY DEF CreateFolder
<1>2. p # None => rec.root = birth[p] /\ rec.root \in Folders
  BY <1>1, RootForIsBirth
<1>3. f \in Nodes /\ None \notin Nodes
  BY AclAssumption DEF Nodes
<1>4. /\ birth'[f] \in Folders
      /\ birth'[f] = IF p = None THEN f ELSE rec.root
      /\ \A e \in Nodes \ {f} : birth'[e] = birth[e]
  BY <1>1, <1>2, <1>3 DEF IInv, TypeOK
<1>5. Grows
  <2>1. birth' \in [Nodes -> Nodes \cup {None}]
    BY <1>1, <1>2, <1>3 DEF IInv, TypeOK, Nodes
  <2>2. BirthOK'
    BY <1>4 DEF IInv, BirthOK, Nodes
  <2>. QED
    BY <1>1, <1>4, <2>1, <2>2 DEF Grows
<1>6. PICK r \in Node : r = rec
  BY <1>2 DEF Node
<1>7. PICK t \in Node : t = top
  BY <1>2 DEF Node
<1>8. Rooted(f, r)' /\ (p = None => Rooted(f, t)')
  <2>1. r.root = IF p = None THEN None ELSE birth'[f]
    BY <1>4, <1>6
  <2>2. p = None => t.root = f /\ birth'[f] = f
    BY <1>4, <1>7
  <2>. QED
    BY <2>1, <2>2, <1>4, <1>3, AclAssumption DEF Rooted
<1>9. Save(f, r) \in GoodCalls' /\ (p = None => Save(f, t) \in GoodCalls')
  BY <1>3, <1>8 DEF Save, Call, GoodCalls, Calls, Fits
<1>10. calls \in Seq(GoodCalls')
  <2>. HIDE DEF rec, top
  <2>1. CASE p = None
    <3>1. calls = <<Save(f, r), Save(f, t)>>
      BY <2>1, <1>6, <1>7
    <3>. QED
      BY <3>1, <1>9, <2>1
  <2>2. CASE p # None
    <3>1. calls = <<Save(f, r)>>
      BY <2>2, <1>6
    <3>. QED
      BY <3>1, <1>9
  <2>. QED
    BY <2>1, <2>2
<1>. QED
  BY <1>1, <1>3, <1>5, <1>10, BeginIInv

\* A request that uses no new id.
LEMMA PlanIInv ==
  ASSUME IInv, NEW c \in Clients, NEW u \in Users,
         NEW kind \in {"folder", "doc", "row"},
         NEW op \in Modes \cup {"none", "create", "update", "add", "remove"},
         NEW on \in Nodes, NEW into,
         Ready(c), UNCHANGED birth,
         NEW calls \in Seq(GoodCalls),
         Begin(c, u, kind, op, on, into, calls)
  PROVE  IInv'
<1>1. Grows /\ calls \in Seq(GoodCalls')
  BY SameBirth
<1>. QED
  BY <1>1, BeginIInv

\* A save of a good record.
LEMMA PlanSave ==
  ASSUME IInv, NEW c \in Clients, NEW u \in Users, NEW kind \in {"folder", "doc"},
         NEW op \in Modes \cup {"update"}, NEW on \in Nodes, NEW into,
         Ready(c), UNCHANGED birth,
         NEW rec \in Node, Rooted(on, rec),
         Begin(c, u, kind, op, on, into, <<Save(on, rec)>>)
  PROVE  IInv'
BY SaveGood, PlanIInv

\* A cascade over a good copy.
LEMMA PlanCascade ==
  ASSUME IInv, NEW c \in Clients, NEW u \in Users, NEW kind \in {"folder", "doc"},
         NEW mode \in Modes, NEW on \in Nodes, NEW into,
         Ready(c), UNCHANGED birth,
         NEW copy \in Node, Rooted(on, copy),
         Begin(c, u, kind, mode, on, into, Cascade(mode, on, copy))
  PROVE  IInv'
BY CascadeGood, PlanIInv

\* update_folder moves a folder and leaves its root alone.
LEMMA UpdateFolderIInv ==
  ASSUME IInv, NEW c \in Clients, NEW u \in Users, NEW f \in Folders,
         NEW p \in Folders \cup {None}, NEW general \in Granted \cup {None, "keep"},
         Ready(c), UpdateFolder(c, u, f, p, general)
  PROVE  IInv'
<1>. DEFINE rec == [node[f] EXCEPT !.parent = IF p = None THEN @ ELSE p,
                                   !.general = IF general = "keep" THEN @ ELSE general]
<1>1. Exists(f) /\ UNCHANGED birth /\ f \in Nodes
  BY DEF UpdateFolder, Nodes
<1>2. PICK into : Begin(c, u, "folder", "update", f, into, <<Save(f, rec)>>)
  BY DEF UpdateFolder
<1>3. node[f] \in Node /\ Rooted(f, node[f])
  BY <1>1, ExistingNode
<1>4. general = "keep" \/ general \in Rights \cup {None}
  BY FolderTreeAssumption
<1>5. PICK r \in Node : r = rec
  BY <1>3, <1>4 DEF Node
<1>6. r.root = node[f].root
  BY <1>3, <1>5 DEF Node
<1>7. Rooted(f, r)
  BY <1>3, <1>6 DEF Rooted
<1>. QED
  BY <1>1, <1>2, <1>5, <1>7, PlanSave

\* Deletes and restores of folders and documents.
LEMMA CascadesIInv ==
  ASSUME IInv, NEW c \in Clients, NEW u \in Users, Ready(c),
         \/ \E f \in Folders : \/ \E mode \in Modes : DeleteFolder(c, u, f, mode)
                               \/ RestoreFolder(c, u, f)
         \/ \E d \in Docs : DeleteDoc(c, u, d) \/ RestoreDoc(c, u, d) \/ HardDeleteDoc(c, u, d)
  PROVE  IInv'
<1>1. ASSUME NEW e \in Nodes, Exists(e), NEW rec,
             rec \in {node[e], [node[e] EXCEPT !.parent = None]}
      PROVE  rec \in Node /\ Rooted(e, rec)
  <2>1. node[e] \in Node /\ Rooted(e, node[e])
    BY <1>1, ExistingNode
  <2>. QED
    BY <1>1, <2>1 DEF Node, Rooted
<1>2. PICK e \in Nodes, kind \in {"folder", "doc"}, mode \in Modes :
        /\ Exists(e) /\ UNCHANGED birth
        /\ \E rec \in {node[e], [node[e] EXCEPT !.parent = None]} :
             Begin(c, u, kind, mode, e, None, Cascade(mode, e, rec))
  <2>1. ASSUME NEW f \in Folders, NEW mode \in Modes, DeleteFolder(c, u, f, mode)
        PROVE  /\ f \in Nodes /\ Exists(f) /\ UNCHANGED birth
               /\ Begin(c, u, "folder", mode, f, None, Cascade(mode, f, node[f]))
    BY <2>1 DEF DeleteFolder, CanDelete, Nodes
  <2>2. ASSUME NEW f \in Folders, RestoreFolder(c, u, f)
        PROVE  /\ f \in Nodes /\ Exists(f) /\ UNCHANGED birth
               /\ \E rec \in {node[f], [node[f] EXCEPT !.parent = None]} :
                    Begin(c, u, "folder", "restore", f, None, Cascade("restore", f, rec))
    BY <2>2 DEF RestoreFolder, CanDelete, Nodes, Cascade
  <2>3. ASSUME NEW d \in Docs
        PROVE  d \in Nodes /\ d \notin Folders
    BY AclAssumption DEF Nodes
  <2>4. ASSUME NEW d \in Docs, DeleteDoc(c, u, d)
        PROVE  /\ Exists(d) /\ UNCHANGED birth
               /\ Begin(c, u, "doc", "soft", d, None,
                        Cascade("soft", d, [node[d] EXCEPT !.parent = None]))
    BY <2>3, <2>4 DEF DeleteDoc, CanDelete, Cascade
  <2>5. ASSUME NEW d \in Docs, RestoreDoc(c, u, d)
        PROVE  /\ Exists(d) /\ UNCHANGED birth
               /\ \E rec \in {node[d], [node[d] EXCEPT !.parent = None]} :
                    Begin(c, u, "doc", "restore", d, None, Cascade("restore", d, rec))
    BY <2>3, <2>5 DEF RestoreDoc, CanDelete, Cascade
  <2>6. ASSUME NEW d \in Docs, HardDeleteDoc(c, u, d)
        PROVE  /\ Exists(d) /\ UNCHANGED birth
               /\ Begin(c, u, "doc", "hard", d, None, Cascade("hard", d, node[d]))
    BY <2>6 DEF HardDeleteDoc, CanDelete
  <2>. QED
    BY <2>1, <2>2, <2>3, <2>4, <2>5, <2>6 DEF Modes
<1>3. PICK rec \in Node : /\ Rooted(e, rec)
                          /\ Begin(c, u, kind, mode, e, None, Cascade(mode, e, rec))
  BY <1>1, <1>2
<1>. QED
  BY <1>2, <1>3, PlanCascade

\* create_document, update_document: the root is the one the folder has.
LEMMA CreateDocIInv ==
  ASSUME IInv, NEW c \in Clients, NEW u \in Users, NEW d \in Docs,
         NEW p \in Folders \cup {None}, Ready(c), CreateDoc(c, u, d, p)
  PROVE  IInv'
<1>. DEFINE rec == [owner |-> u, parent |-> p, root |-> IF p = None THEN None ELSE RootFor(p),
                    general |-> None, deleted |-> FALSE]
<1>1. /\ birth[d] = None
      /\ p # None => Exists(p)
      /\ birth' = [birth EXCEPT ![d] = d]
      /\ Begin(c, u, "doc", "create", d, p, <<Save(d, rec)>>)
  BY DEF CreateDoc
<1>2. p # None => rec.root = birth[p] /\ birth[p] \in Folders
  BY <1>1, RootForIsBirth
<1>3. d \in Nodes /\ d \notin Folders /\ None \notin Nodes
  BY AclAssumption DEF Nodes
<1>4. Grows
  BY <1>1, <1>3 DEF IInv, TypeOK, BirthOK, Nodes, Grows
<1>5. PICK r \in Node : r = rec
  BY <1>2 DEF Node
<1>6. Rooted(d, r)
  BY <1>2, <1>3, <1>5, AclAssumption DEF Rooted
<1>7. <<Save(d, r)>> \in Seq(GoodCalls')
  BY <1>3, <1>4, <1>6, SaveGood, GoodCallsGrow, SeqMonotonic
<1>. QED
  BY <1>1, <1>3, <1>4, <1>5, <1>7, BeginIInv

\* update_document and update_general_access.
LEMMA UpdateDocIInv ==
  ASSUME IInv, NEW c \in Clients, NEW u \in Users, NEW d \in Docs, Ready(c),
         \/ \E p \in Folders \cup {None} : UpdateDoc(c, u, d, p)
         \/ \E general \in Granted \cup {None} : SetDocGeneral(c, u, d, general)
  PROVE  IInv'
<1>1. d \in Nodes /\ d \notin Folders
  BY AclAssumption DEF Nodes
<1>2. ASSUME NEW p \in Folders \cup {None}, UpdateDoc(c, u, d, p)
      PROVE  IInv'
  <2>. DEFINE rec == IF p = None THEN node[d]
                     ELSE [node[d] EXCEPT !.parent = p, !.root = RootFor(p)]
  <2>1. /\ Exists(d) /\ UNCHANGED birth /\ (p # None => Exists(p))
        /\ Begin(c, u, "doc", "update", d, p, <<Save(d, rec)>>)
    BY <1>2 DEF UpdateDoc, Live
  <2>2. node[d] \in Node /\ Rooted(d, node[d])
    BY <1>1, <2>1, ExistingNode
  <2>3. p # None => RootFor(p) = birth[p] /\ birth[p] \in Folders
    BY <2>1, RootForIsBirth
  <2>4. PICK r \in Node : r = rec
    BY <2>2, <2>3 DEF Node
  <2>5. Rooted(d, r)
    BY <1>1, <2>2, <2>3, <2>4, AclAssumption DEF Rooted, Node
  <2>. QED
    BY <1>1, <2>1, <2>4, <2>5, PlanSave
<1>3. ASSUME NEW general \in Granted \cup {None}, SetDocGeneral(c, u, d, general)
      PROVE  IInv'
  <2>1. /\ Exists(d) /\ UNCHANGED birth
        /\ Begin(c, u, "doc", "update", d, None, <<Save(d, [node[d] EXCEPT !.general = general])>>)
    BY <1>3 DEF SetDocGeneral
  <2>2. node[d] \in Node /\ Rooted(d, node[d])
    BY <1>1, <2>1, ExistingNode
  <2>3. PICK r \in Node : r = [node[d] EXCEPT !.general = general]
    BY <2>2, FolderTreeAssumption DEF Node
  <2>4. Rooted(d, r)
    BY <1>1, <2>2, <2>3 DEF Rooted, Node
  <2>. QED
    BY <1>1, <2>1, <2>3, <2>4, PlanSave
<1>. QED
  BY <1>2, <1>3

\* Collaborators are added and removed.
LEMMA RowIInv ==
  ASSUME IInv, NEW c \in Clients, NEW u \in Users, NEW e \in Nodes, Ready(c),
         RowRequest(c, u, e)
  PROVE  IInv'
<1>1. PICK v \in Users, right \in Rights \cup {None}, op \in {"add", "remove"} :
        /\ UNCHANGED birth
        /\ Begin(c, u, "row", op, e, None, <<Call("row", e, [user |-> v, right |-> right])>>)
  BY FolderTreeAssumption DEF RowRequest, AddCollaborator, RemoveCollaborator
<1>2. <<Call("row", e, [user |-> v, right |-> right])>> \in Seq(GoodCalls)
  BY DEF Call, GoodCalls, Calls, Fits
<1>. QED
  BY <1>1, <1>2, PlanIInv

-----------------------------------------------------------------------------
(* The calls of a request.                                                 *)

\* A call that leaves good calls and good nodes behind.
LEMMA DoneIInv ==
  ASSUME IInv, NEW c \in Clients, ~Idle(c),
         NEW more \in Seq(GoodCalls), Done(c, more),
         node' \in [Nodes -> Node \cup {None}],
         access' \in [Nodes -> [Users -> Rights \cup {None}]],
         \A e \in Nodes : node'[e] # None => Rooted(e, node'[e])
  PROVE  IInv'
<1>. USE DEF Done
<1>1. GoodCalls' = GoodCalls /\ GoodCalls \subseteq Calls /\ Calls' = Calls
  BY SameBirth DEF GoodCalls, Calls
<1>2. more \o Tail(todo[c]) \in Seq(GoodCalls)
  BY HeadTailProperties, ConcatProperties DEF IInv, Idle
<1>3. ASSUME NEW d \in Clients
      PROVE  todo'[d] \in Seq(GoodCalls) /\ todo'[d] \in Seq(Calls)
  <2>1. todo'[d] \in {todo[d], more \o Tail(todo[c])}
    OBVIOUS
  <2>. QED
    BY <1>1, <1>2, <2>1, SeqMonotonic DEF IInv
<1>4. TypeOK'
  BY <1>1, <1>3 DEF IInv, TypeOK
<1>5. \A e \in Nodes : Exists(e)' => Rooted(e, node[e])'
  BY DEF Exists, Rooted
<1>. QED
  BY <1>1, <1>3, <1>4, <1>5 DEF IInv, BirthOK

\* The call a client is about to make is good.
LEMMA HeadGood ==
  ASSUME IInv, NEW c \in Clients, ~Idle(c)
  PROVE  Head(todo[c]) \in GoodCalls
BY HeadTailProperties DEF IInv, Idle

\* The database as it is fits the invariant.
LEMMA NodesKept ==
  ASSUME IInv
  PROVE  /\ node \in [Nodes -> Node \cup {None}]
         /\ access \in [Nodes -> [Users -> Rights \cup {None}]]
         /\ \A e \in Nodes : node[e] # None => Rooted(e, node[e])
         /\ <<>> \in Seq(GoodCalls)
BY DEF IInv, TypeOK, Exists

\* A call that writes or removes one node or access row.
LEMMA CallIInv ==
  ASSUME IInv, NEW c \in Clients,
         DoSave(c) \/ DoDrop(c) \/ DoRow(c) \/ DoPurge(c)
  PROVE  IInv'
<1>. DEFINE call == Head(todo[c])
<1>1. ~Idle(c)
  BY DEF DoSave, DoDrop, DoRow, DoPurge, Doing
<1>2. call \in GoodCalls
  BY <1>1, HeadGood
<1>3. CASE DoSave(c)
  <2>1. call.id \in Nodes /\ call.arg \in Node /\ Rooted(call.id, call.arg)
    BY <1>2, <1>3 DEF DoSave, Doing, GoodCalls, Calls, Fits
  <2>2. \A e \in Nodes : node'[e] # None => Rooted(e, node'[e])
    BY <2>1, <1>3, NodesKept DEF DoSave
  <2>. QED
    BY <1>1, <1>3, <2>1, <2>2, NodesKept, DoneIInv DEF DoSave
<1>4. CASE DoDrop(c)
  <2>1. \A e \in Nodes : node'[e] # None => Rooted(e, node'[e])
    BY <1>4, NodesKept DEF DoDrop
  <2>. QED
    BY <1>1, <1>4, <2>1, NodesKept, DoneIInv DEF DoDrop
<1>5. CASE DoRow(c)
  <2>1. call.arg \in [user : Users, right : Rights \cup {None}]
    BY <1>2, <1>5 DEF DoRow, Doing, GoodCalls, Calls
  <2>2. access' \in [Nodes -> [Users -> Rights \cup {None}]]
    BY <1>5, <2>1, NodesKept DEF DoRow
  <2>. QED
    BY <1>1, <1>5, <2>2, NodesKept, DoneIInv DEF DoRow
<1>6. CASE DoPurge(c)
  <2>1. access' \in [Nodes -> [Users -> Rights \cup {None}]]
    BY <1>6, NodesKept DEF DoPurge
  <2>. QED
    BY <1>1, <1>6, <2>1, NodesKept, DoneIInv DEF DoPurge
<1>. QED
  BY <1>3, <1>4, <1>5, <1>6

\* A query copies good records, and the loop hands them on.
LEMMA FindIInv ==
  ASSUME IInv, NEW c \in Clients, DoFind(c)
  PROVE  IInv'
<1>. DEFINE call  == Head(todo[c])
            found == Found(call.arg, IF call.op = "docs" THEN Docs ELSE Folders, call.id)
            left  == {[id |-> e, copy |-> node[e]] : e \in found}
            more  == IF found = {} THEN <<>> ELSE <<Each(call.id, call.arg, left)>>
<1>1. /\ ~Idle(c) /\ call.op \in {"folders", "docs"} /\ Done(c, more)
      /\ UNCHANGED <<node, access>>
  BY DEF DoFind, Doing
<1>2. call.id \in Folders /\ call.arg \in Modes
  BY <1>1, HeadGood DEF GoodCalls, Calls
<1>3. \A e \in found : e \in Nodes /\ Exists(e)
  BY DEF Found, Nodes
<1>4. \A child \in left : /\ child \in [id : Nodes, copy : Node]
                          /\ Rooted(child.id, child.copy)
  BY <1>3, ExistingNode
<1>5. Each(call.id, call.arg, left) \in GoodCalls
  BY <1>2, <1>4 DEF Each, Call, GoodCalls, Calls, Fits
<1>6. more \in Seq(GoodCalls)
  BY <1>5
<1>. QED
  BY <1>1, <1>6, NodesKept, DoneIInv

\* The loop over what a query returned.
LEMMA EachIInv ==
  ASSUME IInv, NEW c \in Clients, DoEach(c)
  PROVE  IInv'
<1>. DEFINE call == Head(todo[c])
<1>1. /\ ~Idle(c) /\ call.op = "each" /\ UNCHANGED <<node, access>>
  BY DEF DoEach, Doing
<1>2. /\ call.id \in Folders /\ call.arg.mode \in Modes
      /\ call.arg.left \in SUBSET [id : Nodes, copy : Node]
      /\ \A child \in call.arg.left : Rooted(child.id, child.copy)
  BY <1>1, HeadGood DEF GoodCalls, Calls, Fits
<1>3. PICK child \in call.arg.left :
        Done(c, Cascade(call.arg.mode, child.id, child.copy)
                  \o IF call.arg.left = {child} THEN <<>>
                     ELSE <<Each(call.id, call.arg.mode, call.arg.left \ {child})>>)
  BY DEF DoEach
<1>. DEFINE rest == IF call.arg.left = {child} THEN <<>>
                    ELSE <<Each(call.id, call.arg.mode, call.arg.left \ {child})>>
<1>4. Cascade(call.arg.mode, child.id, child.copy) \in Seq(GoodCalls)
  BY <1>2, <1>3, CascadeGood
<1>5. Each(call.id, call.arg.mode, call.arg.left \ {child}) \in GoodCalls
  BY <1>2 DEF Each, Call, GoodCalls, Calls, Fits
<1>6. rest \in Seq(GoodCalls)
  BY <1>5
<1>7. Cascade(call.arg.mode, child.id, child.copy) \o rest \in Seq(GoodCalls)
  BY <1>4, <1>6, ConcatProperties
<1>. QED
  BY <1>1, <1>3, <1>7, NodesKept, DoneIInv

\* A request that ends early leaves good nodes and plans nothing.
LEMMA EndIInv ==
  ASSUME IInv, NEW c \in Clients, Fail(c) \/ TooDeep(c)
  PROVE  IInv'
<1>1. /\ End(c) /\ fails' \in 0..MaxFails
  BY FolderTreeAssumption DEF Fail, TooDeep, IInv, TypeOK
<1>2. GoodCalls' = GoodCalls /\ Calls' = Calls
  BY <1>1, SameBirth DEF End, Calls
<1>3. \A d \in Clients : todo'[d] \in Seq(GoodCalls) /\ todo'[d] \in Seq(Calls)
  BY <1>1 DEF End, IInv, TypeOK
<1>4. TypeOK'
  BY <1>1, <1>2, <1>3 DEF End, IInv, TypeOK
<1>5. \A e \in Nodes : Exists(e)' => Rooted(e, node[e])'
  BY <1>1 DEF End, IInv, Exists, Rooted
<1>. QED
  BY <1>1, <1>2, <1>3, <1>4, <1>5 DEF End, IInv, BirthOK

\* Nothing happens.
LEMMA StutterIInv ==
  ASSUME IInv, UNCHANGED vars
  PROVE  IInv'
<1>1. GoodCalls' = GoodCalls /\ Calls' = Calls
  BY SameBirth DEF vars, Calls
<1>2. TypeOK'
  BY <1>1 DEF vars, IInv, TypeOK
<1>3. \A e \in Nodes : Exists(e)' => Rooted(e, node[e])'
  BY DEF vars, IInv, Exists, Rooted
<1>. QED
  BY <1>1, <1>2, <1>3 DEF vars, IInv, BirthOK

\* The invariant is inductive.
LEMMA NextIInv == IInv /\ [Next]_vars => IInv'
<1>. SUFFICES ASSUME IInv, [Next]_vars PROVE IInv'
  OBVIOUS
<1>1. CASE UNCHANGED vars
  BY <1>1, StutterIInv
<1>2. ASSUME NEW c \in Clients, NEW u \in Users, Ready(c), NEW f \in Folders,
             FolderRequest(c, u, f)
      PROVE  IInv'
  BY <1>2, CreateFolderIInv, UpdateFolderIInv, CascadesIInv DEF FolderRequest
<1>3. ASSUME NEW c \in Clients, NEW u \in Users, Ready(c), NEW d \in Docs,
             DocRequest(c, u, d)
      PROVE  IInv'
  BY <1>3, CreateDocIInv, UpdateDocIInv, CascadesIInv DEF DocRequest
<1>4. ASSUME NEW c \in Clients,
             \/ DoSave(c) \/ DoDrop(c) \/ DoRow(c) \/ DoPurge(c) \/ DoFind(c) \/ DoEach(c)
             \/ Fail(c) \/ TooDeep(c)
      PROVE  IInv'
  BY <1>4, CallIInv, FindIInv, EachIInv, EndIInv
<1>. QED
  BY <1>1, <1>2, <1>3, <1>4, RowIInv DEF Next

\* The invariant holds.
LEMMA SpecIInv == Spec => []IInv
BY InitIInv, NextIInv, PTL DEF Spec

-----------------------------------------------------------------------------
\* Every variable keeps its type: what a request has still to do, and what it
\* writes, are database calls with well-formed records.
THEOREM TypesHold == Spec => []TypeOK
<1>1. IInv => TypeOK
  BY DEF IInv
<1>. QED
  BY <1>1, SpecIInv, PTL

\* A document in a folder has the folder's root, whatever requests overlap, are
\* cut short or write back old copies (document_service.py, folder_service.py).
THEOREM DocRootFollowsHolds == Spec => []DocRootFollows
<1>1. IInv => DocRootFollows
  <2>1. SUFFICES ASSUME IInv, NEW d \in Docs, Exists(d), node[d].parent # None,
                        Exists(node[d].parent)
                 PROVE  node[d].root = RootFor(node[d].parent)
    BY DEF DocRootFollows, RootFor
  <2>2. d \in Nodes /\ d \notin Folders
    BY AclAssumption DEF Nodes
  <2>3. node[d] \in Node /\ Rooted(d, node[d])
    BY <2>1, <2>2, ExistingNode
  <2>4. node[d].parent \in Folders /\ node[d].root = birth[node[d].parent]
    BY <2>1, <2>2, <2>3 DEF Rooted, Node
  <2>. QED
    BY <2>1, <2>4, RootForIsBirth
<1>. QED
  BY <1>1, SpecIInv, PTL

-----------------------------------------------------------------------------
(* Walks up the tree, over any collection of nodes.                        *)

\* One step up.
NextUp(nodes, e) == IF e = None \/ nodes[e] = None THEN None ELSE nodes[e].parent

\* Up over a given collection.
Walk(nodes, e, n) ==
  LET up[k \in Nat] ==
        IF k = 0 THEN e
        ELSE IF up[k - 1] = None \/ nodes[up[k - 1]] = None THEN None
             ELSE nodes[up[k - 1]].parent
  IN up[n]

\* The model's Up is the walk over the nodes there are.
LEMMA UpIsWalk == \A e, n : Up(e, n) = Walk(node, e, n)
BY DEF Up, Walk

\* A set of numbers has a least member.
LEMMA LeastNumber ==
  ASSUME NEW S \in SUBSET Nat, S # {}
  PROVE  \E n \in S : \A m \in S : n <= m
<1>. DEFINE R == OpToRel(<, Nat)
<1>1. IsWellFoundedOn(R, Nat)
  BY NatLessThanWellFounded
<1>2. \A x, y \in Nat : x < y => <<x, y>> \in R
  BY DEF OpToRel
<1>. HIDE DEF R
<1>3. PICK n \in S : \A m \in S : ~(<<m, n>> \in R)
  BY <1>1, WFMin
<1>4. ASSUME NEW m \in S
      PROVE  n <= m
  <2>1. m \in Nat /\ n \in Nat
    OBVIOUS
  <2>2. ~(m < n)
    BY <1>2, <1>3, <2>1
  <2>. QED
    BY <2>1, <2>2
<1>. QED
  BY <1>4

\* The first n steps of a walk, as a function.
First(nodes, e, n, f) == f = [k \in 0..n |-> IF k = 0 THEN e ELSE NextUp(nodes, f[k - 1])]

\* What such a function says of each step.
LEMMA FirstAt ==
  ASSUME NEW nodes, NEW e, NEW n \in Nat, NEW f, First(nodes, e, n, f)
  PROVE  f[0] = e /\ \A k \in 1..n : f[k] = NextUp(nodes, f[k - 1])
BY DEF First

\* There is one for every length.
LEMMA FirstExists ==
  ASSUME NEW nodes, NEW e
  PROVE  \A n \in Nat : \E f : First(nodes, e, n, f)
<1>. DEFINE Bad == {n \in Nat : ~ \E f : First(nodes, e, n, f)}
<1>. SUFFICES ASSUME Bad # {} PROVE FALSE
  OBVIOUS
<1>1. Bad \in SUBSET Nat
  OBVIOUS
<1>. HIDE DEF Bad
<1>2. PICK n \in Bad : \A m \in Bad : n <= m
  BY <1>1, LeastNumber
<1>3. CASE n = 0
  <2>. DEFINE f == [k \in 0..0 |-> e]
  <2>1. f = [k \in 0..0 |-> IF k = 0 THEN e ELSE NextUp(nodes, f[k - 1])]
    OBVIOUS
  <2>. QED
    BY <2>1, <1>3 DEF Bad, First
<1>4. CASE n # 0
  <2>1. n - 1 \in Nat /\ n - 1 \notin Bad
    BY <1>1, <1>2, <1>4
  <2>2. PICK g : First(nodes, e, n - 1, g)
    BY <2>1 DEF Bad
  <2>. DEFINE f == [k \in 0..n |-> IF k = n THEN NextUp(nodes, g[n - 1]) ELSE g[k]]
  <2>3. f = [k \in 0..n |-> IF k = 0 THEN e ELSE NextUp(nodes, f[k - 1])]
    <3>1. g[0] = e /\ \A k \in 1..(n - 1) : g[k] = NextUp(nodes, g[k - 1])
      BY <2>1, <2>2, FirstAt
    <3>2. \A k \in 0..n : f[k] = IF k = 0 THEN e ELSE NextUp(nodes, f[k - 1])
      BY <3>1, <2>1, <1>1, <1>4
    <3>. QED
      BY <3>2
  <2>. QED
    BY <2>3, <1>1 DEF Bad, First
<1>. QED
  BY <1>3, <1>4

\* Two of them agree as far as both go.
LEMMA FirstAgree ==
  ASSUME NEW nodes, NEW e, NEW n \in Nat, NEW m \in Nat, NEW f, NEW g,
         First(nodes, e, n, f), First(nodes, e, m, g)
  PROVE  \A k \in Nat : k <= n /\ k <= m => f[k] = g[k]
<1>. DEFINE Bad == {k \in Nat : k <= n /\ k <= m /\ f[k] # g[k]}
<1>. SUFFICES ASSUME Bad # {} PROVE FALSE
  OBVIOUS
<1>1. PICK k \in Bad : \A j \in Bad : k <= j
  <2>1. Bad \in SUBSET Nat
    OBVIOUS
  <2>. HIDE DEF Bad
  <2>. QED
    BY <2>1, LeastNumber
<1>2. /\ f[0] = e /\ \A i \in 1..n : f[i] = NextUp(nodes, f[i - 1])
      /\ g[0] = e /\ \A i \in 1..m : g[i] = NextUp(nodes, g[i - 1])
  BY FirstAt
<1>3. k # 0 /\ k - 1 \in Nat /\ k - 1 \notin Bad
  BY <1>1, <1>2
<1>. QED
  BY <1>1, <1>2, <1>3

\* A longer one goes on where a shorter one ends.
LEMMA FirstStep ==
  ASSUME NEW nodes, NEW e, NEW n \in Nat \ {0}, NEW f, NEW g,
         First(nodes, e, n, f), First(nodes, e, n - 1, g)
  PROVE  f[n] = NextUp(nodes, g[n - 1])
<1>1. n \in Nat /\ n - 1 \in Nat
  OBVIOUS
<1>2. f[n] = NextUp(nodes, f[n - 1])
  <2>1. \A k \in 1..n : f[k] = NextUp(nodes, f[k - 1])
    BY <1>1, FirstAt
  <2>. QED
    BY <2>1
<1>3. f[n - 1] = g[n - 1]
  <2>1. \A k \in Nat : k <= n /\ k <= n - 1 => f[k] = g[k]
    BY <1>1, FirstAgree
  <2>. QED
    BY <1>1, <2>1
<1>. QED
  BY <1>2, <1>3

\* Walk satisfies its equation.
LEMMA WalkSteps ==
  ASSUME NEW nodes, NEW e
  PROVE  /\ Walk(nodes, e, 0) = e
         /\ \A n \in Nat : Walk(nodes, e, n + 1) = NextUp(nodes, Walk(nodes, e, n))
<1>. DEFINE Eqn(up) == up = [k \in Nat |-> IF k = 0 THEN e
                          ELSE IF up[k - 1] = None \/ nodes[up[k - 1]] = None THEN None
                               ELSE nodes[up[k - 1]].parent]
            first[n \in Nat] == CHOOSE f : First(nodes, e, n, f)
            all == [n \in Nat |-> first[n][n]]
<1>1. \A n \in Nat : First(nodes, e, n, first[n])
  BY FirstExists
<1>. HIDE DEF first
<1>2. all[0] = e
  <2>1. First(nodes, e, 0, first[0])
    BY <1>1
  <2>2. first[0][0] = e
    BY <2>1, FirstAt
  <2>. QED
    BY <2>2
<1>3. ASSUME NEW n \in Nat \ {0}
      PROVE  all[n] = NextUp(nodes, all[n - 1])
  <2>1. n - 1 \in Nat /\ n \in Nat
    OBVIOUS
  <2>2. First(nodes, e, n, first[n]) /\ First(nodes, e, n - 1, first[n - 1])
    BY <1>1, <2>1
  <2>3. first[n][n] = NextUp(nodes, first[n - 1][n - 1])
    BY <2>2, FirstStep
  <2>. QED
    BY <2>1, <2>3
<1>4. Eqn(all)
  <2>1. \A k \in Nat : all[k] = IF k = 0 THEN e
                          ELSE IF all[k - 1] = None \/ nodes[all[k - 1]] = None THEN None
                               ELSE nodes[all[k - 1]].parent
    BY <1>2, <1>3 DEF NextUp
  <2>. QED
    BY <2>1
<1>. DEFINE up == CHOOSE f : Eqn(f)
<1>5. Eqn(up)
  <2>. HIDE DEF Eqn, all
  <2>. QED
    BY <1>4
<1>6. \A n \in Nat : Walk(nodes, e, n) = up[n]
  BY DEF Walk
<1>. HIDE DEF up
<1>7. up[0] = e
  BY <1>5
<1>8. ASSUME NEW n \in Nat
      PROVE  up[n + 1] = NextUp(nodes, up[n])
  BY <1>5 DEF NextUp
<1>. QED
  BY <1>6, <1>7, <1>8

\* What the collection of nodes may be.
Tree == [Nodes -> Node \cup {None}]

\* Induction over numbers, in the only form the provers can use.
LEMMA NumbersFrom0 ==
  ASSUME NEW S \in SUBSET Nat, 0 \in S, \A n \in S : n + 1 \in S
  PROVE  \A n \in Nat : n \in S
<1>. DEFINE Bad == Nat \ S
<1>. SUFFICES ASSUME Bad # {} PROVE FALSE
  OBVIOUS
<1>1. PICK n \in Bad : \A m \in Bad : n <= m
  BY LeastNumber
<1>2. n # 0 /\ n - 1 \in Nat /\ ~(n <= n - 1)
  OBVIOUS
<1>3. n - 1 \in S
  BY <1>1, <1>2
<1>. QED
  BY <1>2, <1>3

\* A walk stays among the folders, after its first step.
LEMMA WalkType ==
  ASSUME NEW nodes \in Tree, NEW e \in Nodes \cup {None}
  PROVE  \A n \in Nat : /\ Walk(nodes, e, n) \in Nodes \cup {None}
                        /\ n # 0 \/ e \notin Docs => Walk(nodes, e, n) \in Folders \cup {None}
<1>. DEFINE Good == {n \in Nat : /\ Walk(nodes, e, n) \in Nodes \cup {None}
                                 /\ n # 0 \/ e \notin Docs =>
                                      Walk(nodes, e, n) \in Folders \cup {None}}
<1>1. 0 \in Good
  BY WalkSteps DEF Nodes
<1>2. ASSUME NEW n \in Good
      PROVE  n + 1 \in Good
  <2>1. Walk(nodes, e, n + 1) = NextUp(nodes, Walk(nodes, e, n))
    BY WalkSteps
  <2>2. \A x \in Nodes \cup {None} : NextUp(nodes, x) \in Folders \cup {None}
    BY DEF NextUp, Tree, Node
  <2>3. Walk(nodes, e, n + 1) \in Folders \cup {None}
    BY <2>1, <2>2
  <2>. QED
    BY <2>3 DEF Nodes
<1>. HIDE DEF Good
<1>3. \A n \in Nat : n \in Good
  <2>1. Good \in SUBSET Nat
    BY DEF Good
  <2>. QED
    BY <1>1, <1>2, <2>1, NumbersFrom0
<1>. QED
  BY <1>3 DEF Good

\* A walk goes on from where it is.
LEMMA WalkOn ==
  ASSUME NEW nodes, NEW e, NEW i \in Nat
  PROVE  \A k \in Nat : Walk(nodes, Walk(nodes, e, i), k) = Walk(nodes, e, i + k)
<1>. DEFINE x == Walk(nodes, e, i)
            Good == {k \in Nat : Walk(nodes, x, k) = Walk(nodes, e, i + k)}
<1>1. 0 \in Good
  BY WalkSteps
<1>2. ASSUME NEW k \in Good
      PROVE  k + 1 \in Good
  <2>1. Walk(nodes, x, k + 1) = NextUp(nodes, Walk(nodes, x, k))
    BY WalkSteps
  <2>2. Walk(nodes, e, (i + k) + 1) = NextUp(nodes, Walk(nodes, e, i + k))
    BY WalkSteps
  <2>3. (i + k) + 1 = i + (k + 1)
    OBVIOUS
  <2>. QED
    BY <2>1, <2>2, <2>3
<1>. HIDE DEF Good
<1>3. \A k \in Nat : k \in Good
  <2>1. Good \in SUBSET Nat
    BY DEF Good
  <2>. QED
    BY <1>1, <1>2, <2>1, NumbersFrom0
<1>. QED
  BY <1>3 DEF Good

\* Once over, a walk stays over.
LEMMA WalkOver ==
  ASSUME NEW nodes, NEW e, NEW n \in Nat, Walk(nodes, e, n) = None
  PROVE  \A m \in Nat : n <= m => Walk(nodes, e, m) = None
<1>. DEFINE Good == {k \in Nat : Walk(nodes, e, n + k) = None}
<1>1. 0 \in Good
  OBVIOUS
<1>2. ASSUME NEW k \in Good
      PROVE  k + 1 \in Good
  <2>1. Walk(nodes, e, (n + k) + 1) = NextUp(nodes, Walk(nodes, e, n + k))
    BY WalkSteps
  <2>2. (n + k) + 1 = n + (k + 1)
    OBVIOUS
  <2>. QED
    BY <2>1, <2>2 DEF NextUp
<1>3. \A k \in Nat : k \in Good
  <2>. HIDE DEF Good
  <2>1. Good \in SUBSET Nat
    BY DEF Good
  <2>. QED
    BY <1>1, <1>2, <2>1, NumbersFrom0
<1>4. ASSUME NEW m \in Nat, n <= m
      PROVE  Walk(nodes, e, m) = None
  <2>1. m - n \in Nat /\ n + (m - n) = m
    BY <1>4
  <2>. QED
    BY <1>3, <2>1
<1>. QED
  BY <1>4

\* A walk that ends meets no node twice.
LEMMA WalkApart ==
  ASSUME NEW nodes, NEW e, NEW n \in Nat, Walk(nodes, e, n) = None,
         NEW i \in Nat, NEW j \in Nat, i < j, Walk(nodes, e, i) = Walk(nodes, e, j)
  PROVE  Walk(nodes, e, i) = None
<1>. DEFINE Bad == {m \in Nat : Walk(nodes, e, m) = None}
<1>1. PICK m \in Bad : \A k \in Bad : m <= k
  <2>1. Bad \in SUBSET Nat /\ Bad # {}
    OBVIOUS
  <2>. HIDE DEF Bad
  <2>. QED
    BY <2>1, LeastNumber
<1>2. CASE m <= i
  BY <1>1, <1>2, WalkOver
<1>3. CASE ~(m <= i)
  <2>1. j < m \/ Walk(nodes, e, j) = None
    BY <1>1, WalkOver
  <2>2. CASE j < m
    <3>. DEFINE k == m - j
    <3>1. k \in Nat /\ j + k = m /\ i + k \in Nat /\ i + k < m
      BY <2>2
    <3>. HIDE DEF k
    <3>2. Walk(nodes, e, i + k) = Walk(nodes, e, j + k)
      <4>1. /\ Walk(nodes, Walk(nodes, e, i), k) = Walk(nodes, e, i + k)
            /\ Walk(nodes, Walk(nodes, e, j), k) = Walk(nodes, e, j + k)
        <5>1. \A q \in Nat : Walk(nodes, Walk(nodes, e, i), q) = Walk(nodes, e, i + q)
          BY WalkOn
        <5>2. \A q \in Nat : Walk(nodes, Walk(nodes, e, j), q) = Walk(nodes, e, j + q)
          BY WalkOn
        <5>. QED
          BY <3>1, <5>1, <5>2
      <4>. QED
        BY <4>1
    <3>3. i + k \in Bad
      BY <3>1, <3>2
    <3>. QED
      BY <1>1, <3>1, <3>3
  <2>. QED
    BY <2>1, <2>2
<1>. QED
  BY <1>2, <1>3

\* A loop with a set of visited ids makes finitely many steps.
LEMMA SpanFinite ==
  /\ Cardinality(Folders) \in Nat
  /\ Span \subseteq Nat
  /\ \A n \in Nat : n \in Span <=> n <= Cardinality(Folders)
<1>1. Cardinality(Folders) \in Nat
  BY AclAssumption, FS_CardinalityType
<1>. QED
  BY <1>1 DEF Span

\* The ids a walk meets.
Met(nodes, e) == {Walk(nodes, e, n) : n \in Span} \ {None}

\* A walk that ends after n steps meets n folders.
LEMMA MetByWalk ==
  ASSUME NEW nodes \in Tree, NEW e \in Folders, NEW n \in Nat,
         Walk(nodes, e, n) = None, \A k \in Nat : k < n => Walk(nodes, e, k) # None
  PROVE  n <= Cardinality(Folders) /\ Cardinality(Met(nodes, e)) = n
<1>. DEFINE N == Cardinality(Folders)
            step == [k \in 1..n |-> Walk(nodes, e, k - 1)]
<1>1. N \in Nat /\ \A k \in Nat : k \in Span <=> k <= N
  BY SpanFinite
<1>2. \A k \in 1..n : k - 1 \in Nat /\ k - 1 < n
  OBVIOUS
<1>3. e \in Nodes \cup {None} /\ e \notin Docs
  BY AclAssumption DEF Nodes
<1>4. \A k \in 1..n : Walk(nodes, e, k - 1) \in Folders
  <2>1. \A k \in Nat : Walk(nodes, e, k) \in Folders \cup {None}
    BY <1>3, WalkType
  <2>. QED
    BY <1>2, <2>1
<1>5. \A i, j \in 1..n : step[i] = step[j] => i = j
  <2>1. ASSUME NEW i \in Nat, NEW j \in Nat, i < n, j < n, i < j
        PROVE  Walk(nodes, e, i) # Walk(nodes, e, j)
    BY <2>1, WalkApart
  <2>2. ASSUME NEW i \in 1..n, NEW j \in 1..n, step[i] = step[j], i # j
        PROVE  FALSE
    <3>1. Walk(nodes, e, i - 1) = Walk(nodes, e, j - 1)
      BY <2>2
    <3>2. i - 1 < j - 1 \/ j - 1 < i - 1
      BY <2>2
    <3>. QED
      BY <3>1, <3>2, <2>1, <1>2
  <2>. QED
    BY <2>2
<1>6. IsFiniteSet(1..n) /\ Cardinality(1..n) = n
  BY FS_Interval
<1>7. n <= N
  <2>1. step \in [1..n -> Folders]
    BY <1>4
  <2>2. step \in Injection(1..n, Folders)
    <3>. HIDE DEF step
    <3>. QED
      BY <2>1, <1>5, Fun_IsInj
  <2>. QED
    BY <2>2, <1>6, AclAssumption, FS_Injection
<1>8. \A y \in Met(nodes, e) : \E k \in 1..n : step[k] = y
  <2>1. SUFFICES ASSUME NEW k \in Span, Walk(nodes, e, k) # None
                 PROVE  \E i \in 1..n : step[i] = Walk(nodes, e, k)
    BY DEF Met
  <2>2. k \in Nat /\ ~(n <= k)
    BY <2>1, SpanFinite, WalkOver
  <2>3. k + 1 \in 1..n /\ (k + 1) - 1 = k
    BY <2>2
  <2>. QED
    BY <2>3
<1>9. step \in [1..n -> Met(nodes, e)]
  <2>1. ASSUME NEW k \in 1..n
        PROVE  Walk(nodes, e, k - 1) \in Met(nodes, e)
    <3>1. k - 1 \in Span
      BY <1>1, <1>2, <1>7
    <3>. QED
      BY <3>1, <1>2 DEF Met
  <2>. QED
    BY <2>1
<1>10. ExistsBijection(1..n, Met(nodes, e))
  <2>. HIDE DEF step
  <2>1. step \in Bijection(1..n, Met(nodes, e))
    BY <1>5, <1>8, <1>9, Fun_IsBij
  <2>. QED
    BY <2>1, Fun_ExistsBij
<1>. QED
  BY <1>6, <1>7, <1>10, FS_Bijection

\* The height counts the steps of a walk that comes to an end.
LEMMA HeightBounds ==
  ASSUME NEW nodes \in Tree, NEW e \in Folders, NEW d \in Nat
  PROVE  /\ Walk(nodes, e, d) = None =>
              /\ Walk(nodes, e, Cardinality(Folders) + 1) = None
              /\ Cardinality(Met(nodes, e)) <= d
         /\ Walk(nodes, e, Cardinality(Folders) + 1) = None /\ Cardinality(Met(nodes, e)) <= d =>
              Walk(nodes, e, d) = None
         /\ Walk(nodes, e, d) = None => Cardinality(Met(nodes, e)) \in Nat
<1>. DEFINE N == Cardinality(Folders)
            Bad == {m \in Nat : Walk(nodes, e, m) = None}
<1>0. N + 1 \in Nat /\ N \in Nat
  BY SpanFinite
<1>1. ASSUME NEW m \in Nat, Walk(nodes, e, m) = None
      PROVE  \E n \in Nat : /\ Walk(nodes, e, n) = None /\ n <= m /\ n <= N
                            /\ Cardinality(Met(nodes, e)) = n
  <2>1. Bad \in SUBSET Nat /\ m \in Bad
    BY <1>1
  <2>2. PICK n \in Bad : \A k \in Bad : n <= k
    <3>. HIDE DEF Bad
    <3>. QED
      BY <2>1, LeastNumber
  <2>3. \A k \in Nat : k < n => Walk(nodes, e, k) # None
    BY <2>2
  <2>. QED
    BY <2>1, <2>2, <2>3, MetByWalk
<1>. HIDE DEF Bad
<1>2. ASSUME Walk(nodes, e, d) = None
      PROVE  /\ Walk(nodes, e, N + 1) = None
             /\ Cardinality(Met(nodes, e)) <= d /\ Cardinality(Met(nodes, e)) \in Nat
  <2>1. PICK n \in Nat : /\ Walk(nodes, e, n) = None /\ n <= d /\ n <= N
                         /\ Cardinality(Met(nodes, e)) = n
    BY <1>1, <1>2
  <2>2. n <= N + 1
    BY <1>0, <2>1
  <2>. QED
    BY <1>0, <2>1, <2>2, WalkOver
<1>3. ASSUME Walk(nodes, e, N + 1) = None, Cardinality(Met(nodes, e)) <= d
      PROVE  Walk(nodes, e, d) = None
  <2>1. PICK n \in Nat : Walk(nodes, e, n) = None /\ Cardinality(Met(nodes, e)) = n
    BY <1>0, <1>1, <1>3
  <2>. QED
    BY <1>3, <2>1, WalkOver
<1>. QED
  BY <1>2, <1>3

\* The step of a walk, for every walk.
LEMMA WalkNext ==
  \A nodes, e : \A n \in Nat : Walk(nodes, e, n + 1) = NextUp(nodes, Walk(nodes, e, n))
BY WalkSteps

\* As long as a walk avoids what has changed it stays as it was.
LEMMA WalkSame ==
  ASSUME NEW nodes, NEW next, NEW e, NEW n \in Nat,
         \A k \in Nat : k < n => NextUp(next, Walk(nodes, e, k)) = NextUp(nodes, Walk(nodes, e, k))
  PROVE  Walk(next, e, n) = Walk(nodes, e, n)
<1>. DEFINE Good == {k \in Nat : k <= n => Walk(next, e, k) = Walk(nodes, e, k)}
<1>1. 0 \in Good
  BY WalkSteps
<1>2. ASSUME NEW k \in Good
      PROVE  k + 1 \in Good
  <2>1. SUFFICES ASSUME k + 1 <= n
                 PROVE  Walk(next, e, k + 1) = Walk(nodes, e, k + 1)
    OBVIOUS
  <2>2. Walk(next, e, k) = Walk(nodes, e, k) /\ k < n
    BY <2>1
  <2>3. Walk(next, e, k + 1) = NextUp(next, Walk(next, e, k))
    BY WalkSteps
  <2>4. Walk(nodes, e, k + 1) = NextUp(nodes, Walk(nodes, e, k))
    BY WalkSteps
  <2>. QED
    BY <2>2, <2>3, <2>4
<1>. HIDE DEF Good
<1>3. \A k \in Nat : k \in Good
  <2>1. Good \in SUBSET Nat
    BY DEF Good
  <2>. QED
    BY <1>1, <1>2, <2>1, NumbersFrom0
<1>. QED
  BY <1>3 DEF Good

\* Folders that are removed, or taken to the top, make walks shorter.
LEMMA WalkShrinks ==
  ASSUME NEW nodes \in Tree, NEW next \in Tree, NEW e \in Folders \cup {None},
         \A x \in Folders : next[x] # None =>
           next[x].parent = None \/ (nodes[x] # None /\ next[x].parent = nodes[x].parent)
  PROVE  \A n \in Nat : Walk(next, e, n) \in {Walk(nodes, e, n), None}
<1>. DEFINE Good == {n \in Nat : Walk(next, e, n) \in {Walk(nodes, e, n), None}}
<1>1. 0 \in Good
  BY WalkSteps
<1>2. ASSUME NEW n \in Good
      PROVE  n + 1 \in Good
  <2>1. /\ Walk(next, e, n + 1) = NextUp(next, Walk(next, e, n))
        /\ Walk(nodes, e, n + 1) = NextUp(nodes, Walk(nodes, e, n))
    BY WalkSteps
  <2>2. Walk(nodes, e, n) \in Folders \cup {None}
    BY WalkType, AclAssumption DEF Nodes
  <2>3. \A x \in Folders : NextUp(next, x) \in {NextUp(nodes, x), None}
    BY DEF NextUp
  <2>4. NextUp(next, None) = None
    BY DEF NextUp
  <2>. QED
    BY <2>1, <2>2, <2>3, <2>4
<1>. HIDE DEF Good
<1>3. \A k \in Nat : k \in Good
  <2>1. Good \in SUBSET Nat
    BY DEF Good
  <2>. QED
    BY <1>1, <1>2, <2>1, NumbersFrom0
<1>. QED
  BY <1>3 DEF Good

\* Every walk from a folder is over within d steps, every parent exists.
Shallow(nodes, d) == \A f \in Folders : nodes[f] # None => Walk(nodes, f, d) = None

\* Every parent exists.
Whole(nodes) ==
  \A e \in Nodes : nodes[e] # None /\ nodes[e].parent # None => nodes[nodes[e].parent] # None

\* Folders that are removed or taken to the top leave the tree as shallow.
LEMMA ShrunkShallow ==
  ASSUME NEW nodes \in Tree, NEW next \in Tree, NEW d \in Nat, Shallow(nodes, d),
         \A x \in Folders : next[x] # None =>
           /\ nodes[x] # None \/ next[x].parent = None
           /\ next[x].parent # None => next[x].parent = nodes[x].parent,
         d # 0
  PROVE  Shallow(next, d)
<1>1. \A x \in Folders : next[x] # None =>
        next[x].parent = None \/ (nodes[x] # None /\ next[x].parent = nodes[x].parent)
  OBVIOUS
<1>2. ASSUME NEW f \in Folders, next[f] # None
      PROVE  Walk(next, f, d) = None
  <2>1. CASE nodes[f] # None
    BY <1>1, <2>1, WalkShrinks DEF Shallow
  <2>2. CASE nodes[f] = None
    <3>1. next[f].parent = None
      BY <1>2, <2>2
    <3>2. f # None
      BY AclAssumption
    <3>3. Walk(next, f, 0) = f /\ Walk(next, f, 0 + 1) = NextUp(next, Walk(next, f, 0))
      BY WalkSteps
    <3>4. Walk(next, f, 1) = None
      BY <3>1, <3>3, <1>2 DEF NextUp
    <3>5. 1 <= d /\ 1 \in Nat
      OBVIOUS
    <3>. QED
      BY <3>4, <3>5, WalkOver
  <2>. QED
    BY <2>1, <2>2
<1>. QED
  BY <1>2 DEF Shallow

\* What is i levels above the end of a walk has as many levels below it.
LEMMA LevelsCount ==
  ASSUME NEW nodes \in Tree, NEW d \in Nat, Shallow(nodes, d),
         NEW f \in Folders, NEW g \in Folders, nodes[g] # None, nodes[f] # None,
         NEW i \in Nat, Walk(nodes, g, i) = f
  PROVE  i + 1 <= Cardinality({n \in Span : \E x \in Folders :
                                 nodes[x] # None /\ Walk(nodes, x, n) = f})
<1>. DEFINE levels == {n \in Span : \E x \in Folders : nodes[x] # None /\ Walk(nodes, x, n) = f}
<1>0. f # None /\ g \in Nodes \cup {None} /\ g \notin Docs
  BY AclAssumption DEF Nodes
<1>1. i <= Cardinality(Folders)
  <2>1. Walk(nodes, g, Cardinality(Folders) + 1) = None
    BY HeightBounds DEF Shallow
  <2>2. Cardinality(Folders) + 1 \in Nat
    BY SpanFinite
  <2>3. ~(Cardinality(Folders) + 1 <= i)
    BY <1>0, <2>1, <2>2, WalkOver
  <2>. QED
    BY <2>2, <2>3, SpanFinite
<1>2. ASSUME NEW n \in 0..i
      PROVE  n \in levels
  <2>1. n \in Nat /\ i - n \in Nat /\ (i - n) + n = i
    OBVIOUS
  <2>. DEFINE x == Walk(nodes, g, i - n)
  <2>2. Walk(nodes, x, n) = f
    <3>1. \A k \in Nat : Walk(nodes, Walk(nodes, g, i - n), k) = Walk(nodes, g, (i - n) + k)
      BY <2>1, WalkOn
    <3>. QED
      BY <2>1, <3>1
  <2>3. x \in Folders \cup {None}
    BY <1>0, <2>1, WalkType
  <2>4. x # None /\ nodes[x] # None
    <3>1. CASE n = 0
      BY <1>0, <2>1, <3>1
    <3>2. CASE n # 0
      <4>1. Walk(nodes, g, (i - n) + 1) = NextUp(nodes, x)
        BY <2>1, WalkSteps
      <4>2. (i - n) + 1 \in Nat /\ (i - n) + 1 <= i
        BY <2>1, <3>2
      <4>3. Walk(nodes, g, (i - n) + 1) # None
        BY <1>0, <4>2, WalkOver
      <4>. QED
        BY <4>1, <4>3 DEF NextUp
    <3>. QED
      BY <3>1, <3>2
  <2>5. n \in Span
    BY <1>1, <2>1, SpanFinite
  <2>. HIDE DEF x
  <2>. QED
    BY <2>2, <2>3, <2>4, <2>5
<1>3. IsFiniteSet(levels)
  <2>1. IsFiniteSet(Span)
    BY SpanFinite, FS_Interval DEF Span
  <2>. QED
    BY <2>1, FS_Subset
<1>4. 0..i \subseteq levels
  BY <1>2
<1>. HIDE DEF levels
<1>5. Cardinality(0..i) = i + 1
  BY FS_Interval
<1>6. Cardinality(0..i) <= Cardinality(levels)
  BY <1>3, <1>4, FS_Subset
<1>. QED
  BY <1>5, <1>6 DEF levels

\* The way up from a node begins with its parent.
LEMMA WalkFromParent ==
  ASSUME NEW nodes, NEW e, e # None, nodes[e] # None
  PROVE  \A n \in Nat : Walk(nodes, e, n + 1) = Walk(nodes, nodes[e].parent, n)
<1>1. Walk(nodes, e, 1) = nodes[e].parent
  <2>1. Walk(nodes, e, 0 + 1) = NextUp(nodes, Walk(nodes, e, 0))
    BY WalkSteps
  <2>. QED
    BY <2>1, WalkSteps DEF NextUp
<1>2. \A n \in Nat : Walk(nodes, Walk(nodes, e, 1), n) = Walk(nodes, e, 1 + n)
  BY WalkOn
<1>3. \A n \in Nat : 1 + n = n + 1
  OBVIOUS
<1>. QED
  BY <1>1, <1>2, <1>3

\* Every folder met above the parent is in the chain of the node, also when the
\* walk from the parent uses up its steps on a cycle.
LEMMA MetAbove ==
  ASSUME NEW nodes \in Tree, NEW e \in Nodes, nodes[e] # None,
         NEW n \in Span, Walk(nodes, nodes[e].parent, n) # None,
         \A m \in Nat : m < n =>
           Walk(nodes, nodes[e].parent, m) # Walk(nodes, nodes[e].parent, n)
  PROVE  Walk(nodes, nodes[e].parent, n) \in Met(nodes, e)
<1>. DEFINE N == Cardinality(Folders)
            p == nodes[e].parent
<1>1. e # None /\ p \in Folders \cup {None} /\ p \notin Docs /\ p \in Nodes \cup {None}
  BY AclAssumption DEF Tree, Node, Nodes
<1>2. N \in Nat /\ n \in Nat /\ n <= N
  BY SpanFinite
<1>3. Walk(nodes, e, n + 1) = Walk(nodes, p, n)
  BY <1>1, <1>2, WalkFromParent
<1>4. CASE n + 1 <= N
  <2>1. n + 1 \in Span
    BY <1>2, <1>4, SpanFinite
  <2>. QED
    BY <1>3, <2>1 DEF Met
<1>5. CASE n = N
  <2>. DEFINE step == [k \in 0..n |-> Walk(nodes, p, k)]
  <2>1. ASSUME NEW k \in 0..n
        PROVE  Walk(nodes, p, k) \in Folders
    <3>1. Walk(nodes, p, k) # None
      BY <1>2, WalkOver
    <3>. QED
      BY <1>1, <3>1, WalkType
  <2>2. step \in [0..n -> Folders]
    BY <2>1
  <2>3. IsFiniteSet(0..n) /\ Cardinality(0..n) = n + 1
    BY <1>2, FS_Interval
  <2>4. Cardinality(Folders) < Cardinality(0..n)
    BY <1>2, <1>5, <2>3
  <2>5. \E i, j \in 0..n : i # j /\ step[i] = step[j]
    <3>1. IsFiniteSet(Folders)
      BY AclAssumption
    <3>. HIDE DEF step
    <3>2. ASSUME \A i, j \in 0..n : i # j => step[i] # step[j]
          PROVE  FALSE
      BY <3>1, <3>2, <2>2, <2>3, <2>4, FS_PigeonHole
    <3>. QED
      BY <3>2
  <2>6. PICK i \in 0..n, j \in 0..n : i < j /\ Walk(nodes, p, i) = Walk(nodes, p, j)
    <3>1. PICK a \in 0..n, b \in 0..n : a # b /\ Walk(nodes, p, a) = Walk(nodes, p, b)
      BY <2>5
    <3>2. a < b \/ b < a
      BY <3>1
    <3>. QED
      BY <3>1, <3>2
  <2>. DEFINE k == n - j
  <2>7. k \in Nat /\ i \in Nat /\ j \in Nat /\ j + k = n /\ i + k \in Nat /\ i + k < n
    BY <1>2, <2>6
  <2>. HIDE DEF k
  <2>8. \A q \in Nat : Walk(nodes, Walk(nodes, p, i), q) = Walk(nodes, p, i + q)
    BY <2>7, WalkOn
  <2>9. \A q \in Nat : Walk(nodes, Walk(nodes, p, j), q) = Walk(nodes, p, j + q)
    BY <2>7, WalkOn
  <2>10. Walk(nodes, p, i + k) = Walk(nodes, p, n)
    BY <2>6, <2>7, <2>8, <2>9
  <2>. QED
    BY <2>7, <2>10
<1>. QED
  BY <1>2, <1>4, <1>5

-----------------------------------------------------------------------------
(* What the resolvers and the list of rights say.                          *)

\* The chain of a folder is what its walk meets.
LEMMA ChainIsMet == \A e : Chain(e) = Met(node, e)
BY UpIsWalk DEF Chain, Met

\* Min picks the nearest.
LEMMA LeastSaid ==
  ASSUME NEW S \in SUBSET Nat, S # {}
  PROVE  Min(S) \in S /\ \A m \in S : Min(S) <= m
BY LeastNumber DEF Min

\* The folder that decides what a user inherits.
LEMMA InheritedFrom ==
  ASSUME NEW f, NEW u, Inherited(f, u) # None
  PROVE  \E n \in Span :
           /\ Walk(node, f, n) # None /\ Exists(Walk(node, f, n))
           /\ Inherited(f, u) = Says(Walk(node, f, n), u)
           /\ \A m \in Span : m < n =>
                \/ Walk(node, f, m) = None \/ ~Exists(Walk(node, f, m))
                \/ Says(Walk(node, f, m), u) = None
<1>. DEFINE said == {n \in Span : /\ Walk(node, f, n) # None
                                  /\ Exists(Walk(node, f, n))
                                  /\ Says(Walk(node, f, n), u) # None}
<1>1. Inherited(f, u) = IF said = {} THEN None ELSE Says(Walk(node, f, Min(said)), u)
  BY UpIsWalk DEF Inherited
<1>2. said \in SUBSET Nat /\ said # {}
  BY <1>1, SpanFinite
<1>3. Min(said) \in said /\ \A m \in said : Min(said) <= m
  <2>. HIDE DEF said
  <2>. QED
    BY <1>2, LeastSaid
<1>4. Inherited(f, u) = Says(Walk(node, f, Min(said)), u)
  BY <1>1, <1>2
<1>5. \A m \in Span : m < Min(said) => m \notin said
  BY <1>2, <1>3, SpanFinite
<1>. QED
  BY <1>3, <1>4, <1>5

\* Whoever is not on the list of rights has none but by general access.
LEMMA TypedSummary == TypeOK => SummaryComplete
<1>. SUFFICES ASSUME TypeOK, NEW e \in Nodes, NEW u \in Users, Exists(e),
                     u \notin AclSummary(e)
              PROVE  /\ ~CanDelete(e, u) /\ ~CanShare(e, u)
                     /\ BasePermission(e, u) # None =>
                          \E f \in {e} \cup Chain(e) : Exists(f) /\ node[f].general # None
  BY DEF SummaryComplete
<1>0. node \in Tree /\ u # None /\ node[e] # None
  BY AclAssumption DEF TypeOK, Tree, Exists
<1>1. node[e].owner # u /\ RootOwner(e) # u /\ access[e][u] = None
  BY <1>0 DEF AclSummary, HasRow
<1>2. \A f \in Met(node, node[e].parent) : Exists(f) => node[f].owner # u /\ access[f][u] = None
  BY ChainIsMet DEF AclSummary, HasRow
<1>3. ~CanDelete(e, u) /\ ~CanShare(e, u)
  BY <1>1 DEF CanDelete, CanShare
<1>4. ASSUME BasePermission(e, u) # None
      PROVE  \E f \in {e} \cup Chain(e) : Exists(f) /\ node[f].general # None
  <2>1. CASE node[e].general # None
    BY <2>1
  <2>2. CASE node[e].general = None
    <3>. DEFINE p == node[e].parent
    <3>1. Inherited(p, u) # None
      BY <1>1, <1>4, <2>2 DEF BasePermission
    <3>2. PICK n \in Span :
            /\ Walk(node, p, n) # None /\ Exists(Walk(node, p, n))
            /\ Says(Walk(node, p, n), u) # None
            /\ \A m \in Span : m < n =>
                 \/ Walk(node, p, m) = None \/ ~Exists(Walk(node, p, m))
                 \/ Says(Walk(node, p, m), u) = None
      BY <3>1, InheritedFrom
    <3>3. \A m \in Nat : m < n => Walk(node, p, m) # Walk(node, p, n)
      <4>1. \A m \in Nat : m < n => m \in Span
        BY SpanFinite
      <4>. QED
        BY <3>2, <4>1
    <3>4. Walk(node, p, n) \in Met(node, e)
      BY <1>0, <3>2, <3>3, MetAbove
    <3>5. Walk(node, p, n) \in Met(node, p)
      BY <3>2 DEF Met
    <3>6. node[Walk(node, p, n)].general # None
      BY <1>2, <3>2, <3>5 DEF Says
    <3>. QED
      BY <3>2, <3>4, <3>6, ChainIsMet
  <2>. QED
    BY <2>1, <2>2
<1>. QED
  BY <1>3, <1>4

\* Below what a walk meets there are existing folders.
LEMMA WalkThrough ==
  ASSUME NEW nodes, NEW e, NEW n \in Nat, Walk(nodes, e, n) # None
  PROVE  \A m \in Nat : m < n => Walk(nodes, e, m) # None /\ nodes[Walk(nodes, e, m)] # None
<1>1. ASSUME NEW m \in Nat, m < n
      PROVE  Walk(nodes, e, m + 1) # None
  BY <1>1, WalkOver
<1>2. \A m \in Nat : Walk(nodes, e, m + 1) = NextUp(nodes, Walk(nodes, e, m))
  BY WalkNext
<1>. QED
  BY <1>1, <1>2 DEF NextUp

\* What a walk that ends meets, it meets within its bound.
LEMMA MetInSpan ==
  ASSUME NEW e, Ends(e), NEW n \in Nat, Walk(node, e, n) # None
  PROVE  n \in Span
<1>1. Cardinality(Folders) + 1 \in Nat
  BY SpanFinite
<1>2. Walk(node, e, Cardinality(Folders) + 1) = None
  BY UpIsWalk DEF Ends
<1>3. ~(Cardinality(Folders) + 1 <= n)
  BY <1>1, <1>2, WalkOver
<1>. QED
  BY <1>1, <1>3, SpanFinite

\* A folder of the chain lets u in.
Admits(f, u, least, n) ==
  LET g == Walk(node, f, n)
  IN /\ g # None /\ Exists(g)
     /\ \A m \in Nat : m < n => access[Walk(node, f, m)][u] = None
     /\ \/ node[g].owner = u
        \/ access[g][u] # None /\ Suffices(access[g][u], least)
        \/ access[g][u] = None /\ Suffices(node[g].general, least)

\* _assert_folder_access lets in whom a folder of a chain that ends lets in.
LEMMA AdmitsTouch ==
  ASSUME NEW f, Ends(f), NEW u, NEW least, NEW n \in Nat, Admits(f, u, least, n)
  PROVE  MayTouch(f, u, least)
<1>1. n \in Span
  BY MetInSpan DEF Admits
<1>2. \A m \in 0..(n - 1) : m \in Nat /\ m < n
  OBVIOUS
<1>3. \A m \in 0..(n - 1) : access[Walk(node, f, m)][u] = None
  BY <1>2 DEF Admits
<1>. QED
  BY <1>1, <1>3, UpIsWalk DEF Admits, MayTouch

\* Whom it lets in, a folder of the chain lets in.
LEMMA TouchAdmits ==
  ASSUME NEW f, NEW u, NEW least, MayTouch(f, u, least)
  PROVE  \E n \in Nat : Admits(f, u, least, n)
<1>1. PICK n \in Span :
    LET g == Walk(node, f, n)
    IN /\ g # None /\ Exists(g)
       /\ \A m \in 0..(n - 1) : access[Walk(node, f, m)][u] = None
       /\ \/ node[g].owner = u
          \/ access[g][u] # None /\ Suffices(access[g][u], least)
          \/ access[g][u] = None /\ Suffices(node[g].general, least)
  BY UpIsWalk DEF MayTouch
<1>2. n \in Nat /\ \A m \in Nat : m < n => m \in 0..(n - 1)
  BY SpanFinite
<1>. QED
  BY <1>1, <1>2 DEF Admits

\* Who is let in by the parent's chain is let in, if the folder has no row.
LEMMA AdmitsBelow ==
  ASSUME NEW e, e # None, Exists(e), NEW u, access[e][u] = None, NEW least, NEW n \in Nat,
         Admits(node[e].parent, u, least, n)
  PROVE  Admits(e, u, least, n + 1)
<1>1. \A m \in Nat : Walk(node, e, m + 1) = Walk(node, node[e].parent, m)
  BY WalkFromParent DEF Exists
<1>2. Walk(node, e, 0) = e
  BY WalkSteps
<1>3. ASSUME NEW m \in Nat, m < n + 1
      PROVE  access[Walk(node, e, m)][u] = None
  <2>1. CASE m = 0
    BY <1>2, <2>1
  <2>2. CASE m # 0
    <3>1. m - 1 \in Nat /\ (m - 1) + 1 = m /\ m - 1 < n
      BY <1>3, <2>2
    <3>2. Walk(node, e, (m - 1) + 1) = Walk(node, node[e].parent, m - 1)
      BY <1>1, <3>1
    <3>. QED
      BY <3>1, <3>2 DEF Admits
  <2>. QED
    BY <2>1, <2>2
<1>. QED
  BY <1>1, <1>3 DEF Admits

\* Every chain of an existing folder comes to an end.
ChainsEnd == \A f \in Folders : Exists(f) => Ends(f)

\* The right get_base_permission finds is granted by the walk of the check.
LEMMA RightsOnSoundTree ==
  ASSUME TypeOK, ChainsEnd, NEW f \in Folders, NEW u \in Users,
         BasePermission(f, u) # None
  PROVE  MayTouch(f, u, BasePermission(f, u))
<1>. DEFINE right == BasePermission(f, u)
            p == node[f].parent
<1>0. /\ Exists(f) /\ Ends(f) /\ f # None /\ f \in Nodes /\ f \notin Docs
      /\ node[f] # None /\ node \in Tree
  BY AclAssumption DEF ChainsEnd, BasePermission, Nodes, Exists, TypeOK, Tree
<1>1. Walk(node, f, 0) = f
  BY WalkSteps
<1>2. CASE node[f].owner = u \/ access[f][u] # None \/ p = None
  <2>1. Admits(f, u, right, 0)
    BY <1>0, <1>1, <1>2 DEF Admits, BasePermission, Suffices
  <2>. QED
    BY <1>0, <2>1, AdmitsTouch
<1>3. CASE ~(node[f].owner = u \/ access[f][u] # None \/ p = None)
  <2>1. right = Inherited(p, u)
    BY <1>0, <1>3 DEF BasePermission
  <2>2. PICK n \in Span :
          /\ Walk(node, p, n) # None /\ Exists(Walk(node, p, n))
          /\ right = Says(Walk(node, p, n), u)
          /\ \A m \in Span : m < n =>
               \/ Walk(node, p, m) = None \/ ~Exists(Walk(node, p, m))
               \/ Says(Walk(node, p, m), u) = None
    BY <2>1, InheritedFrom
  <2>. DEFINE g == Walk(node, p, n)
  <2>3. n \in Nat /\ \A m \in Nat : m < n => m \in Span
    BY SpanFinite
  <2>4. ASSUME NEW m \in Nat, m < n
        PROVE  access[Walk(node, p, m)][u] = None
    <3>1. Walk(node, p, m) # None /\ Exists(Walk(node, p, m))
      BY <2>2, <2>3, <2>4, WalkThrough DEF Exists
    <3>2. Says(Walk(node, p, m), u) = None
      BY <2>2, <2>3, <2>4, <3>1
    <3>3. None # "edit"
      BY AclAssumption
    <3>. QED
      BY <3>2, <3>3 DEF Says
  <2>5. Admits(p, u, right, n)
    <3>1. g # None /\ Exists(g) /\ Says(g, u) = right
      BY <2>2
    <3>2. \/ node[g].owner = u
          \/ access[g][u] # None /\ Suffices(access[g][u], right)
          \/ access[g][u] = None /\ Suffices(node[g].general, right)
      BY <3>1 DEF Says, Suffices
    <3>. QED
      BY <2>4, <3>1, <3>2 DEF Admits
  <2>6. Admits(f, u, right, n + 1)
    BY <1>0, <1>3, <2>3, <2>5, AdmitsBelow
  <2>. QED
    BY <1>0, <2>3, <2>6, AdmitsTouch
<1>. QED
  BY <1>2, <1>3

\* What a listing shows can be opened.
LEMMA OpenOnSoundTree ==
  ASSUME TypeOK, ChainsEnd,
         \A f \in Folders : Exists(f) /\ node[f].general # None => node[f].parent = None,
         NEW f \in Folders \cup {None}, NEW u \in Users, NEW e \in Contents(f, u)
  PROVE  IF e \in Folders THEN MayTouch(e, u, "view") ELSE MayTouchDoc(e, u, "view")
<1>0. /\ e \in Nodes /\ Exists(e) /\ node[e].parent = f /\ e # None /\ node[e] # None
      /\ f = None => node[e].owner = u
      /\ f # None => f \in Folders /\ f \in Nodes /\ Live(f) /\ Exists(f) /\ MayTouch(f, u, "view")
      /\ node \in Tree
  BY AclAssumption DEF Contents, Live, Exists, Nodes, TypeOK, Tree
<1>1. access[e][u] \in {None, "view", "edit"}
  BY <1>0 DEF TypeOK, Rights
<1>2. Walk(node, e, 0) = e
  BY WalkSteps
<1>3. CASE e \in Folders
  <2>1. Ends(e)
    BY <1>0, <1>3 DEF ChainsEnd
  <2>2. CASE node[e].owner = u \/ access[e][u] # None
    <3>1. Admits(e, u, "view", 0)
      BY <1>0, <1>1, <1>2, <2>2 DEF Admits, Suffices
    <3>. QED
      BY <1>3, <2>1, <3>1, AdmitsTouch
  <2>3. CASE node[e].owner # u /\ access[e][u] = None
    <3>1. PICK n \in Nat : Admits(f, u, "view", n)
      BY <1>0, <2>3, TouchAdmits
    <3>2. Admits(e, u, "view", n + 1)
      BY <1>0, <2>3, <3>1, AdmitsBelow
    <3>. QED
      BY <1>3, <2>1, <3>2, AdmitsTouch
  <2>. QED
    BY <2>2, <2>3
<1>4. CASE e \notin Folders
  <2>1. CASE node[e].owner = u \/ access[e][u] # None
    BY <1>0, <1>1, <1>4, <2>1 DEF MayTouchDoc, Suffices
  <2>2. CASE ~(node[e].owner = u \/ access[e][u] # None)
    <3>1. f # None /\ f \notin Docs /\ ~node[f].deleted
      BY <1>0, <2>2, AclAssumption DEF Live
    <3>2. PICK n \in Nat : Admits(f, u, "view", n)
      BY <1>0, <3>1, TouchAdmits
    <3>. DEFINE p == node[f].parent
    <3>3. BasePermission(f, u) # None
      <4>1. CASE node[f].owner = u \/ access[f][u] # None
        BY <1>0, <3>1, <4>1, AclAssumption DEF BasePermission
      <4>2. ASSUME ~(node[f].owner = u \/ access[f][u] # None), n = 0
            PROVE  node[f].general # None /\ p = None
        <5>1. Walk(node, f, 0) = f
          BY WalkSteps
        <5>2. Suffices(node[f].general, "view")
          BY <3>2, <4>2, <5>1 DEF Admits
        <5>3. None # "view" /\ None # "edit"
          BY AclAssumption
        <5>4. node[f].general # None
          BY <5>2, <5>3 DEF Suffices
        <5>. QED
          BY <1>0, <3>1, <5>4
      <4>3. ASSUME ~(node[f].owner = u \/ access[f][u] # None), n # 0
            PROVE  p # None /\ Inherited(p, u) # None
        <5>1. n - 1 \in Nat /\ (n - 1) + 1 = n
          BY <4>3
        <5>. DEFINE g == Walk(node, p, n - 1)
        <5>2. g = Walk(node, f, n)
          <6>1. \A m \in Nat : Walk(node, f, m + 1) = Walk(node, p, m)
            BY <1>0, <3>1, WalkFromParent DEF Exists
          <6>2. Walk(node, f, (n - 1) + 1) = Walk(node, p, n - 1)
            BY <5>1, <6>1
          <6>. QED
            BY <5>1, <6>2
        <5>3. g # None /\ Exists(g) /\ Says(g, u) # None
          <6>1. /\ g # None /\ Exists(g)
                /\ \/ node[g].owner = u
                   \/ access[g][u] # None
                   \/ Suffices(node[g].general, "view")
            BY <3>2, <5>2 DEF Admits
          <6>2. None # "view" /\ None # "edit"
            BY AclAssumption
          <6>. QED
            BY <6>1, <6>2 DEF Says, Suffices
        <5>4. p # None
          <6>1. Walk(node, None, 0) = None /\ 0 <= n - 1
            BY <5>1, WalkSteps
          <6>. QED
            BY <5>1, <5>3, <6>1, WalkOver
        <5>5. n - 1 \in Span
          <6>1. Ends(f)
            BY <1>0, <3>1 DEF ChainsEnd
          <6>2. n \in Span
            BY <5>2, <5>3, <6>1, MetInSpan
          <6>. QED
            BY <5>1, <6>2, SpanFinite
        <5>6. Inherited(p, u) # None
          <6>. DEFINE said == {k \in Span : /\ Walk(node, p, k) # None
                                            /\ Exists(Walk(node, p, k))
                                            /\ Says(Walk(node, p, k), u) # None}
          <6>1. said # {} /\ said \in SUBSET Nat
            BY <5>3, <5>5, SpanFinite
          <6>2. Min(said) \in said
            <7>. HIDE DEF said
            <7>. QED
              BY <6>1, LeastSaid
          <6>3. Inherited(p, u) = IF said = {} THEN None ELSE Says(Walk(node, p, Min(said)), u)
            BY UpIsWalk DEF Inherited
          <6>. QED
            BY <6>1, <6>2, <6>3
        <5>. QED
          BY <5>4, <5>6
      <4>4. CASE ~(node[f].owner = u \/ access[f][u] # None)
        BY <1>0, <3>1, <4>2, <4>3, <4>4 DEF BasePermission
      <4>. QED
        BY <4>1, <4>4
    <3>4. BasePermission(f, u) \in {"view", "edit"}
      <4>1. \A g : Exists(g) /\ g \in Nodes => Says(g, u) \in {"view", "edit", None}
        BY DEF Says, Exists, TypeOK, Node, Rights
      <4>2. Inherited(p, u) # None => Inherited(p, u) \in {"view", "edit"}
        <5>1. SUFFICES ASSUME Inherited(p, u) # None
                       PROVE  Inherited(p, u) \in {"view", "edit"}
          OBVIOUS
        <5>2. PICK k \in Span : /\ Walk(node, p, k) # None /\ Exists(Walk(node, p, k))
                                /\ Inherited(p, u) = Says(Walk(node, p, k), u)
          BY <5>1, InheritedFrom
        <5>3. p \in Nodes \cup {None} /\ k \in Nat
          BY <1>0, <3>1, SpanFinite DEF Exists, Tree, Node, Nodes
        <5>4. Walk(node, p, k) \in Nodes
          BY <1>0, <5>2, <5>3, WalkType
        <5>. QED
          BY <4>1, <5>1, <5>2, <5>4
      <4>3. node[f].general \in {"view", "edit", None} /\ access[f][u] \in {"view", "edit", None}
        BY <1>0, <3>1 DEF TypeOK, Node, Rights, Exists
      <4>. QED
        BY <1>0, <3>1, <3>3, <4>2, <4>3 DEF BasePermission
    <3>5. Suffices(BasePermission(f, u), "view")
      BY <3>4 DEF Suffices
    <3>6. node[e].parent = f /\ access[e][u] = None
      BY <1>0, <2>2
    <3>. QED
      BY <1>4, <3>1, <3>3, <3>5, <3>6 DEF MayTouchDoc
  <2>. QED
    BY <2>1, <2>2
<1>. QED
  BY <1>3, <1>4

-----------------------------------------------------------------------------
(* What one call does to a tree.                                           *)

\* Folder f may be put below p: the walk up from p ends in h steps without
\* meeting f, and no walk up to f takes more than `levels` ids.
MoveFits(nodes, f, p) ==
  /\ nodes[p] # None
  /\ \A k \in Nat : Walk(nodes, p, k) # f
  /\ \E h, levels \in Nat :
       /\ Walk(nodes, p, h) = None /\ levels + h <= MaxDepth
       /\ \A g \in Folders, i \in Nat :
            (nodes[g] # None \/ g = f) /\ Walk(nodes, g, i) = f => i + 1 <= levels

\* A record that leaves its node where it is; a new one is at the top.
Keeps(nodes, e, rec) ==
  IF nodes[e] = None THEN rec.parent = None ELSE rec.parent = nodes[e].parent

\* A save that keeps the tree a tree.
SaveFits(nodes, e, rec) ==
  \/ rec.parent = None
  \/ Keeps(nodes, e, rec)
  \/ e \in Folders /\ MoveFits(nodes, e, rec.parent)
  \/ e \in Docs /\ nodes[rec.parent] # None

\* The tree between any two calls.
SoundTree(nodes) == Whole(nodes) /\ Shallow(nodes, MaxDepth)

\* Folder f is put, or moved, below p, which is not below it.
LEMMA MovedShallow ==
  ASSUME NEW nodes \in Tree, NEW next \in Tree, Shallow(nodes, MaxDepth),
         NEW f \in Folders, NEW p \in Folders, MoveFits(nodes, f, p),
         next[f] # None, next[f].parent = p,
         \A x \in Nodes \ {f} : next[x] = nodes[x]
  PROVE  Shallow(next, MaxDepth)
<1>6. PICK h \in Nat, levels \in Nat :
        /\ Walk(nodes, p, h) = None /\ levels + h <= MaxDepth
        /\ \A g \in Folders, i \in Nat :
             (nodes[g] # None \/ g = f) /\ Walk(nodes, g, i) = f => i + 1 <= levels
  BY DEF MoveFits
<1>7. \A k \in Nat : Walk(nodes, p, k) # f
  BY DEF MoveFits
<1>8. ASSUME NEW g \in Folders, NEW i \in Nat, next[g] # None, Walk(nodes, g, i) = f
      PROVE  i + 1 <= levels
  BY <1>6, <1>8 DEF Nodes
<1>9. MaxDepth \in Nat /\ MaxDepth # 0
  BY FolderTreeAssumption
<1>5. ASSUME NEW g, NEW n \in Nat
      PROVE  Walk(next, g, n + 1) = NextUp(next, Walk(next, g, n))
  BY WalkNext
<1>0. f # None /\ None \notin Nodes /\ f \in Nodes
  BY AclAssumption DEF Nodes
<1>1. ASSUME NEW x \in Nodes \cup {None}, x # f
      PROVE  NextUp(next, x) = NextUp(nodes, x)
  BY <1>1 DEF NextUp
<1>2. ASSUME NEW k \in Nat
      PROVE  Walk(next, p, k) = Walk(nodes, p, k)
  <2>1. \A n \in Nat : Walk(nodes, p, n) \in Nodes \cup {None}
    BY WalkType DEF Nodes
  <2>2. \A n \in Nat : n < k => NextUp(next, Walk(nodes, p, n)) = NextUp(nodes, Walk(nodes, p, n))
    BY <1>1, <1>7, <2>1
  <2>. QED
    BY <2>2, WalkSame
<1>3. ASSUME NEW g \in Folders, NEW n \in Nat, \A k \in Nat : k < n => Walk(nodes, g, k) # f
      PROVE  Walk(next, g, n) = Walk(nodes, g, n)
  <2>1. \A k \in Nat : Walk(nodes, g, k) \in Nodes \cup {None}
    BY WalkType DEF Nodes
  <2>2. \A k \in Nat : k < n => NextUp(next, Walk(nodes, g, k)) = NextUp(nodes, Walk(nodes, g, k))
    BY <1>1, <1>3, <2>1
  <2>. QED
    BY <2>2, WalkSame
<1>4. ASSUME NEW g \in Folders, next[g] # None
      PROVE  Walk(next, g, MaxDepth) = None
  <2>1. CASE \A k \in Nat : k < MaxDepth => Walk(nodes, g, k) # f
    <3>1. Walk(next, g, MaxDepth) = Walk(nodes, g, MaxDepth)
      BY <1>3, <1>9, <2>1
    <3>2. g # f
      BY <1>9, <2>1, WalkSteps
    <3>3. nodes[g] # None
      BY <1>4, <3>2 DEF Nodes
    <3>. QED
      BY <3>1, <3>3 DEF Shallow
  <2>2. CASE \E k \in Nat : Walk(nodes, g, k) = f
    <3>. DEFINE Hits == {k \in Nat : Walk(nodes, g, k) = f}
    <3>1. PICK i \in Hits : \A k \in Hits : i <= k
      <4>1. Hits \in SUBSET Nat /\ Hits # {}
        BY <2>2
      <4>. HIDE DEF Hits
      <4>. QED
        BY <4>1, LeastNumber
    <3>2. i \in Nat /\ Walk(nodes, g, i) = f /\ \A k \in Nat : k < i => Walk(nodes, g, k) # f
      BY <3>1
    <3>3. Walk(next, g, i) = f
      BY <1>3, <3>2
    <3>4. Walk(next, g, i + 1) = p
      <4>1. Walk(next, g, i + 1) = NextUp(next, Walk(next, g, i))
        BY <3>2, <1>5
      <4>. QED
        BY <3>3, <4>1, <1>0 DEF NextUp
    <3>5. Walk(next, g, (i + 1) + h) = None
      <4>1. \A k \in Nat : Walk(next, Walk(next, g, i + 1), k) = Walk(next, g, (i + 1) + k)
        BY <3>2, WalkOn
      <4>. QED
        BY <4>1, <3>2, <3>4, <1>2, <1>6
    <3>6. (i + 1) + h <= MaxDepth /\ (i + 1) + h \in Nat
      <4>1. i + 1 <= levels
        BY <1>4, <1>8, <3>2
      <4>. QED
        BY <1>6, <1>9, <4>1, <3>2
    <3>. QED
      BY <1>9, <3>5, <3>6, WalkOver
  <2>. QED
    BY <2>1, <2>2
<1>. QED
  BY <1>4 DEF Shallow

\* A save that fits keeps the tree sound.
LEMMA SaveSound ==
  ASSUME NEW nodes \in Tree, SoundTree(nodes), NEW e \in Nodes, NEW rec \in Node,
         SaveFits(nodes, e, rec), NEW next, next = [nodes EXCEPT ![e] = rec]
  PROVE  SoundTree(next)
<1>0. /\ next \in Tree /\ next[e] = rec /\ rec # None
      /\ \A x \in Nodes \ {e} : next[x] = nodes[x]
      /\ Folders \subseteq Nodes /\ None \notin Nodes
      /\ rec.parent \in Folders \cup {None}
      /\ \A x \in Nodes : nodes[x] # None => nodes[x].parent \in Folders \cup {None}
      /\ MaxDepth \in Nat /\ MaxDepth # 0
  BY AclAssumption, FolderTreeAssumption DEF Tree, Nodes, Node
<1>1. rec.parent # None => rec.parent = e \/ nodes[rec.parent] # None
  BY <1>0 DEF SaveFits, Keeps, MoveFits, SoundTree, Whole
<1>2. Whole(next)
  BY <1>0, <1>1 DEF SoundTree, Whole
<1>3. CASE e \in Folders /\ MoveFits(nodes, e, rec.parent) /\ rec.parent # None
  <2>1. Shallow(nodes, MaxDepth) /\ rec.parent \in Folders
    BY <1>0, <1>3 DEF SoundTree
  <2>4. Shallow(next, MaxDepth)
    BY <1>0, <1>3, <2>1, MovedShallow
  <2>. QED
    BY <1>2, <2>4 DEF SoundTree
<1>4. CASE ~(e \in Folders /\ MoveFits(nodes, e, rec.parent) /\ rec.parent # None)
  <2>1. \A x \in Folders : next[x] # None =>
          /\ nodes[x] # None \/ next[x].parent = None
          /\ next[x].parent # None => next[x].parent = nodes[x].parent
    BY <1>0, <1>4, AclAssumption DEF SaveFits, Keeps
  <2>2. Shallow(next, MaxDepth)
    BY <1>0, <2>1, ShrunkShallow DEF SoundTree
  <2>. QED
    BY <1>2, <2>2 DEF SoundTree
<1>. QED
  BY <1>3, <1>4

\* So does dropping what nothing is in.
LEMMA DropSound ==
  ASSUME NEW nodes \in Tree, SoundTree(nodes), NEW e \in Nodes,
         \A x \in Nodes : nodes[x] # None => nodes[x].parent # e,
         NEW next, next = [nodes EXCEPT ![e] = None]
  PROVE  SoundTree(next)
<1>1. /\ next \in Tree /\ next[e] = None
      /\ \A x \in Nodes \ {e} : next[x] = nodes[x]
      /\ Folders \subseteq Nodes
      /\ \A x \in Nodes : nodes[x] # None => nodes[x].parent \in Nodes \cup {None}
      /\ MaxDepth \in Nat /\ MaxDepth # 0
  BY FolderTreeAssumption DEF Tree, Nodes, Node
<1>2. Whole(next)
  BY <1>1 DEF SoundTree, Whole
<1>3. Shallow(next, MaxDepth)
  <2>1. \A x \in Folders : next[x] # None =>
          /\ nodes[x] # None \/ next[x].parent = None
          /\ next[x].parent # None => next[x].parent = nodes[x].parent
    BY <1>1
  <2>. QED
    BY <1>1, <2>1, ShrunkShallow DEF SoundTree
<1>. QED
  BY <1>2, <1>3 DEF SoundTree

-----------------------------------------------------------------------------
(* What a request alone has still to do.                                   *)

\* Calls of a cascade that marks, over copies that are where their nodes are.
KeepCalls(nodes) ==
  {call \in Calls :
     \/ call.op = "save" /\ Keeps(nodes, call.id, call.arg)
     \/ call.op \in {"folders", "docs"} /\ call.arg # "hard"
     \/ call.op = "each" /\ call.arg.mode # "hard"
          /\ \A child \in call.arg.left : Keeps(nodes, child.id, child.copy)}

\* The queries of a marking cascade.
Queries == [op : {"folders", "docs"}, id : Folders, arg : Modes \ {"hard"}]

\* What a request that marks, moves or creates has still to do: only its first
\* save may move something.
SoftPlan(nodes, s) ==
  \/ s \in Seq(KeepCalls(nodes))
  \/ /\ s # <<>> /\ Head(s).op = "save" /\ SaveFits(nodes, Head(s).id, Head(s).arg)
     /\ Tail(s) \in Seq(Queries)

\* The calls of a hard delete.
HardCalls ==
  {call \in Calls : \/ call.op \in {"purge", "drop"}
                    \/ call.op \in {"folders", "docs"} /\ call.arg = "hard"
                    \/ call.op = "each" /\ call.arg.mode = "hard"}

\* Before the call is through, node x will be gone.
Handles(nodes, call, x) ==
  \/ call.op = "drop" /\ call.id = x
  \/ call.op = "each" /\ \E child \in call.arg.left : child.id = x
  \/ call.op = "folders" /\ x \in Folders /\ nodes[x].parent = call.id
  \/ call.op = "docs" /\ x \in Docs /\ nodes[x].parent = call.id

\* Node x is in folder f.
ChildOf(nodes, x, f) == nodes[x] # None /\ nodes[x].parent = f

\* Whatever is in a folder goes before the folder does.
HardPlan(nodes, s) ==
  /\ s \in Seq(HardCalls)
  /\ \A i \in 1..Len(s) : s[i].op = "drop" =>
       \A x \in Nodes : ChildOf(nodes, x, s[i].id) =>
         \E j \in 1..(i - 1) : Handles(nodes, s[j], x)

\* Calls on documents, put where there is a folder.
DocCalls(nodes) ==
  {call \in Calls :
     /\ call.id \in Docs
     /\ \/ call.op \in {"purge", "drop"}
        \/ /\ call.op = "save"
           /\ call.arg.parent = None \/ nodes[call.arg.parent] # None}

\* Calls on access rows.
RowCalls == {call \in Calls : call.op = "row"}

\* What a request of each kind has still to do.
Plan(nodes, kind, s) ==
  /\ kind = "row" => s \in Seq(RowCalls)
  /\ kind = "doc" => s \in Seq(DocCalls(nodes))
  /\ kind = "folder" => SoftPlan(nodes, s) \/ HardPlan(nodes, s)

\* Two plans of a hard delete, the first of which may do part of the second.
LEMMA HardJoin ==
  ASSUME NEW nodes, NEW a, HardPlan(nodes, a), NEW b \in Seq(HardCalls),
         \A i \in 1..Len(b) : b[i].op = "drop" =>
           \A x \in Nodes : ChildOf(nodes, x, b[i].id) =>
             \/ \E j \in 1..(i - 1) : Handles(nodes, b[j], x)
             \/ \E j \in 1..Len(a) : Handles(nodes, a[j], x)
  PROVE  HardPlan(nodes, a \o b)
<1>1. a \in Seq(HardCalls) /\ Len(a) \in Nat /\ Len(b) \in Nat
  BY DEF HardPlan
<1>2. /\ a \o b \in Seq(HardCalls) /\ Len(a \o b) = Len(a) + Len(b)
      /\ \A i \in 1..(Len(a) + Len(b)) :
           (a \o b)[i] = IF i <= Len(a) THEN a[i] ELSE b[i - Len(a)]
  BY <1>1, ConcatProperties
<1>3. ASSUME NEW i \in 1..Len(a \o b), (a \o b)[i].op = "drop",
             NEW x \in Nodes, ChildOf(nodes, x, (a \o b)[i].id)
      PROVE  \E j \in 1..(i - 1) : Handles(nodes, (a \o b)[j], x)
  <2>1. CASE i <= Len(a)
    <3>1. i \in 1..Len(a) /\ (a \o b)[i] = a[i]
      BY <1>1, <1>2, <2>1
    <3>2. PICK j \in 1..(i - 1) : Handles(nodes, a[j], x)
      BY <1>3, <3>1 DEF HardPlan
    <3>3. (a \o b)[j] = a[j]
      BY <1>1, <1>2, <3>1
    <3>. QED
      BY <3>2, <3>3
  <2>2. CASE ~(i <= Len(a))
    <3>1. i - Len(a) \in 1..Len(b) /\ (a \o b)[i] = b[i - Len(a)]
      BY <1>1, <1>2, <2>2
    <3>2. CASE \E j \in 1..(i - Len(a) - 1) : Handles(nodes, b[j], x)
      <4>1. PICK j \in 1..(i - Len(a) - 1) : Handles(nodes, b[j], x)
        BY <3>2
      <4>2. Len(a) + j \in 1..(i - 1) /\ (a \o b)[Len(a) + j] = b[j]
        <5>1. Len(a) + j \in 1..(i - 1) /\ Len(a) + j \in 1..(Len(a) + Len(b))
          BY <1>1, <3>1, <4>1
        <5>2. ~(Len(a) + j <= Len(a)) /\ (Len(a) + j) - Len(a) = j
          BY <1>1, <4>1
        <5>. QED
          BY <1>2, <5>1, <5>2
      <4>. QED
        BY <4>1, <4>2
    <3>3. CASE \E j \in 1..Len(a) : Handles(nodes, a[j], x)
      <4>1. PICK j \in 1..Len(a) : Handles(nodes, a[j], x)
        BY <3>3
      <4>2. j \in 1..(i - 1) /\ (a \o b)[j] = a[j]
        BY <1>1, <1>2, <2>2, <3>1, <4>1
      <4>. QED
        BY <4>1, <4>2
    <3>. QED
      BY <1>3, <3>1, <3>2, <3>3
  <2>. QED
    BY <2>1, <2>2
<1>. QED
  BY <1>2, <1>3 DEF HardPlan

\* Queries move nothing.
LEMMA QueriesKeep == \A nodes : Queries \subseteq KeepCalls(nodes)
BY DEF Queries, KeepCalls, Calls

\* Copies stay where their nodes are when one of them is saved.
LEMMA KeepCallsStay ==
  ASSUME NEW nodes \in Tree, NEW e \in Nodes, NEW rec \in Node, Keeps(nodes, e, rec),
         NEW next, next = [nodes EXCEPT ![e] = rec]
  PROVE  KeepCalls(nodes) \subseteq KeepCalls(next)
<1>1. next[e] = rec /\ rec # None /\ \A x \in Nodes \ {e} : next[x] = nodes[x]
  BY FolderTreeAssumption DEF Tree
<1>2. ASSUME NEW x \in Nodes, NEW copy, Keeps(nodes, x, copy)
      PROVE  Keeps(next, x, copy)
  BY <1>1, <1>2 DEF Keeps
<1>3. ASSUME NEW call \in KeepCalls(nodes)
      PROVE  call \in KeepCalls(next)
  <2>1. call \in Calls
    BY DEF KeepCalls
  <2>2. CASE call.op = "save"
    <3>1. call.id \in Nodes
      BY <2>1, <2>2 DEF Calls
    <3>. QED
      BY <1>2, <2>1, <2>2, <3>1 DEF KeepCalls
  <2>3. CASE call.op = "each"
    <3>1. \A child \in call.arg.left : child.id \in Nodes
      BY <2>1, <2>3 DEF Calls
    <3>. QED
      BY <1>2, <2>1, <2>3, <3>1 DEF KeepCalls
  <2>4. CASE call.op \notin {"save", "each"}
    BY <2>1, <2>4 DEF KeepCalls
  <2>. QED
    BY <2>2, <2>3, <2>4
<1>. QED
  BY <1>3

\* A save of the plan of a marking cascade, or the first one of a request.
LEMMA SoftSave ==
  ASSUME NEW nodes \in Tree, NEW s \in Seq(Calls), s # <<>>, SoftPlan(nodes, s),
         Head(s).op = "save",
         NEW next, next = [nodes EXCEPT ![Head(s).id] = Head(s).arg]
  PROVE  SaveFits(nodes, Head(s).id, Head(s).arg) /\ SoftPlan(next, Tail(s))
<1>1. Head(s) \in Calls /\ Head(s).id \in Nodes /\ Head(s).arg \in Node
  <2>1. Head(s) \in Calls
    BY HeadTailProperties
  <2>. QED
    BY <2>1 DEF Calls
<1>2. CASE s \in Seq(KeepCalls(nodes))
  <2>1. Head(s) \in KeepCalls(nodes) /\ Tail(s) \in Seq(KeepCalls(nodes))
    BY <1>2, HeadTailProperties
  <2>2. Keeps(nodes, Head(s).id, Head(s).arg)
    BY <2>1 DEF KeepCalls
  <2>3. KeepCalls(nodes) \subseteq KeepCalls(next)
    <3>. DEFINE e == Head(s).id
                rec == Head(s).arg
    <3>1. e \in Nodes /\ rec \in Node /\ Keeps(nodes, e, rec) /\ next = [nodes EXCEPT ![e] = rec]
      BY <1>1, <2>2
    <3>. HIDE DEF e, rec
    <3>. QED
      BY <3>1, KeepCallsStay
  <2>4. Tail(s) \in Seq(KeepCalls(next))
    BY <2>1, <2>3, SeqMonotonic
  <2>. QED
    BY <2>2, <2>4 DEF SaveFits, SoftPlan
<1>3. CASE s \notin Seq(KeepCalls(nodes))
  <2>1. SaveFits(nodes, Head(s).id, Head(s).arg) /\ Tail(s) \in Seq(Queries)
    BY <1>3 DEF SoftPlan
  <2>2. Tail(s) \in Seq(KeepCalls(next))
    BY <2>1, QueriesKeep, SeqMonotonic
  <2>. QED
    BY <2>1, <2>2 DEF SoftPlan
<1>. QED
  BY <1>2, <1>3

\* A call of a marking cascade that saves nothing.
LEMMA SoftCall ==
  ASSUME NEW nodes, NEW s \in Seq(Calls), s # <<>>, SoftPlan(nodes, s),
         Head(s).op # "save", NEW more \in Seq(KeepCalls(nodes))
  PROVE  SoftPlan(nodes, more \o Tail(s)) /\ Head(s) \in KeepCalls(nodes)
<1>1. s \in Seq(KeepCalls(nodes))
  BY DEF SoftPlan
<1>2. Head(s) \in KeepCalls(nodes) /\ Tail(s) \in Seq(KeepCalls(nodes))
  BY <1>1, HeadTailProperties
<1>. QED
  BY <1>2, ConcatProperties DEF SoftPlan

\* What a marking cascade does with a copy moves nothing.
LEMMA CascadeKeeps ==
  ASSUME NEW nodes, NEW mode \in Modes \ {"hard"}, NEW e \in Nodes, NEW copy \in Node,
         Keeps(nodes, e, copy)
  PROVE  Cascade(mode, e, copy) \in Seq(KeepCalls(nodes))
<1>1. Marked(mode, copy) \in Node /\ Marked(mode, copy).parent = copy.parent
  BY DEF Marked, Node
<1>2. Save(e, Marked(mode, copy)) \in KeepCalls(nodes)
  BY <1>1 DEF Save, Call, KeepCalls, Calls, Keeps
<1>3. CASE e \in Folders
  <2>1. Call("folders", e, mode) \in KeepCalls(nodes) /\ Call("docs", e, mode) \in KeepCalls(nodes)
    BY <1>3 DEF Call, KeepCalls, Calls
  <2>2. <<Call("folders", e, mode), Call("docs", e, mode)>> \in Seq(KeepCalls(nodes))
    BY <2>1
  <2>3. <<Save(e, Marked(mode, copy))>> \in Seq(KeepCalls(nodes))
    BY <1>2
  <2>. QED
    BY <1>3, <2>2, <2>3, ConcatProperties DEF Cascade, CascadeFolder
<1>4. CASE e \notin Folders
  BY <1>4, <1>2 DEF Cascade, CascadeDoc
<1>. QED
  BY <1>3, <1>4

\* A sequence of four calls, put together from two and two.
LEMMA TwoAndTwo == \A a, b, c, d : <<a, b>> \o <<c, d>> = <<a, b, c, d>>
<1>. SUFFICES ASSUME NEW a, NEW b, NEW c, NEW d
              PROVE  <<a, b>> \o <<c, d>> = <<a, b, c, d>>
  OBVIOUS
<1>. DEFINE S == {a, b, c, d}
            s == <<a, b>>
            t == <<c, d>>
            st == <<a, b, c, d>>
<1>1. s \in Seq(S) /\ t \in Seq(S) /\ st \in Seq(S)
  OBVIOUS
<1>2. /\ Len(s) = 2 /\ Len(t) = 2 /\ Len(st) = 4
      /\ s[1] = st[1] /\ s[2] = st[2] /\ t[1] = st[3] /\ t[2] = st[4]
  OBVIOUS
<1>. HIDE DEF S, s, t, st
<1>3. /\ s \o t \in Seq(S) /\ Len(s \o t) = 2 + 2
      /\ \A i \in 1..(2 + 2) : (s \o t)[i] = IF i <= 2 THEN s[i] ELSE t[i - 2]
  <2>1. /\ s \o t \in Seq(S) /\ Len(s \o t) = Len(s) + Len(t)
        /\ \A i \in 1..(Len(s) + Len(t)) :
             (s \o t)[i] = IF i <= Len(s) THEN s[i] ELSE t[i - Len(s)]
    BY <1>1, ConcatProperties
  <2>. QED
    BY <1>2, <2>1
<1>4. ASSUME NEW i \in 1..Len(s \o t)
      PROVE  (s \o t)[i] = st[i]
  <2>1. i \in {1, 2, 3, 4} /\ i \in 1..(2 + 2)
    BY <1>3
  <2>. QED
    BY <1>2, <1>3, <2>1
<1>5. s \o t = st
  BY <1>1, <1>2, <1>3, <1>4, SeqEqual
<1>. QED
  BY <1>5 DEF s, t, st

\* A hard delete looks for what is in a folder before it drops it.
LEMMA CascadeHard ==
  ASSUME NEW nodes \in Tree, NEW e \in Nodes, NEW copy
  PROVE  /\ HardPlan(nodes, Cascade("hard", e, copy))
         /\ \E j \in 1..Len(Cascade("hard", e, copy)) :
              Handles(nodes, Cascade("hard", e, copy)[j], e)
<1>1. Call("purge", e, None) \in HardCalls /\ Call("drop", e, None) \in HardCalls
  BY DEF Call, HardCalls, Calls
<1>2. CASE e \in Folders
  <2>. DEFINE s == <<Call("folders", e, "hard"), Call("docs", e, "hard"),
                     Call("purge", e, None), Call("drop", e, None)>>
  <2>1. Cascade("hard", e, copy) = s
    BY <1>2, TwoAndTwo, Zenon DEF Cascade, CascadeFolder
  <2>2. Call("folders", e, "hard") \in HardCalls /\ Call("docs", e, "hard") \in HardCalls
    BY <1>2 DEF Call, HardCalls, Calls, Modes
  <2>3. s \in Seq(HardCalls)
    BY <1>1, <2>2
  <2>4. /\ Len(s) = 4
        /\ s[1].op = "folders" /\ s[1].id = e /\ s[2].op = "docs" /\ s[2].id = e
        /\ s[3].op = "purge" /\ s[4].op = "drop" /\ s[4].id = e
    BY DEF Call
  <2>. HIDE DEF s
  <2>5. ASSUME NEW i \in 1..Len(s), s[i].op = "drop", NEW x \in Nodes,
               ChildOf(nodes, x, s[i].id)
        PROVE  \E j \in 1..(i - 1) : Handles(nodes, s[j], x)
    <3>1. i = 4
      BY <2>4, <2>5
    <3>2. Handles(nodes, s[1], x) \/ Handles(nodes, s[2], x)
      BY <2>4, <2>5, <3>1 DEF Handles, ChildOf, Nodes
    <3>. QED
      BY <3>1, <3>2
  <2>6. HardPlan(nodes, s)
    BY <2>3, <2>5 DEF HardPlan
  <2>7. Handles(nodes, s[4], e) /\ 4 \in 1..Len(s)
    BY <2>4 DEF Handles
  <2>. QED
    BY <2>1, <2>6, <2>7
<1>3. CASE e \notin Folders
  <2>. DEFINE s == <<Call("purge", e, None), Call("drop", e, None)>>
  <2>1. Cascade("hard", e, copy) = s
    BY <1>3 DEF Cascade, CascadeDoc
  <2>2. s \in Seq(HardCalls)
    BY <1>1
  <2>3. Len(s) = 2 /\ s[1].op = "purge" /\ s[2].op = "drop" /\ s[2].id = e
    BY DEF Call
  <2>. HIDE DEF s
  <2>4. ASSUME NEW i \in 1..Len(s), s[i].op = "drop", NEW x \in Nodes,
               ChildOf(nodes, x, s[i].id)
        PROVE  FALSE
    <3>1. nodes[x].parent = e
      BY <2>3, <2>4 DEF ChildOf
    <3>2. nodes[x].parent \in Folders \cup {None}
      BY <2>4 DEF ChildOf, Tree, Node
    <3>. QED
      BY <1>3, <3>1, <3>2, AclAssumption DEF Nodes
  <2>5. HardPlan(nodes, s)
    BY <2>2, <2>4 DEF HardPlan
  <2>6. Handles(nodes, s[2], e) /\ 2 \in 1..Len(s)
    BY <2>3 DEF Handles
  <2>. QED
    BY <2>1, <2>5, <2>6
<1>. QED
  BY <1>2, <1>3

\* A call of a hard delete: what it would have handled is handled by what
\* takes its place, or is gone.
LEMMA HardStep ==
  ASSUME NEW nodes, NEW next, NEW s, s # <<>>, HardPlan(nodes, s),
         NEW more, HardPlan(next, more),
         \A x \in Nodes : next[x] # None => next[x] = nodes[x],
         \A x \in Nodes : next[x] # None /\ Handles(nodes, Head(s), x) =>
           \E j \in 1..Len(more) : Handles(next, more[j], x)
  PROVE  HardPlan(next, more \o Tail(s))
<1>. DEFINE b == Tail(s)
<1>1. /\ s \in Seq(HardCalls) /\ b \in Seq(HardCalls) /\ Len(s) \in Nat
      /\ Len(b) = Len(s) - 1 /\ Head(s) = s[1] /\ Len(s) >= 1
      /\ \A i \in 1..Len(b) : b[i] = s[i + 1]
  <2>1. s \in Seq(HardCalls)
    BY DEF HardPlan
  <2>. QED
    BY <2>1, HeadTailProperties
<1>. HIDE DEF b
<1>2. ASSUME NEW i \in 1..Len(b), b[i].op = "drop", NEW x \in Nodes,
             ChildOf(next, x, b[i].id)
      PROVE  \/ \E j \in 1..(i - 1) : Handles(next, b[j], x)
             \/ \E j \in 1..Len(more) : Handles(next, more[j], x)
  <2>1. i + 1 \in 1..Len(s) /\ s[i + 1] = b[i]
    BY <1>1
  <2>2. next[x] # None /\ next[x] = nodes[x] /\ ChildOf(nodes, x, s[i + 1].id)
    BY <1>2, <2>1 DEF ChildOf
  <2>3. PICK j \in 1..((i + 1) - 1) : Handles(nodes, s[j], x)
    BY <1>2, <2>1, <2>2 DEF HardPlan
  <2>4. CASE j = 1
    BY <1>1, <2>2, <2>3, <2>4
  <2>5. CASE j # 1
    <3>1. j - 1 \in 1..(i - 1) /\ j - 1 \in 1..Len(b) /\ (j - 1) + 1 = j
      BY <1>1, <2>1, <2>3, <2>5
    <3>2. b[j - 1] = s[j]
      BY <1>1, <3>1
    <3>3. Handles(next, b[j - 1], x)
      BY <2>2, <2>3, <3>2 DEF Handles
    <3>. QED
      BY <3>1, <3>3
  <2>. QED
    BY <2>4, <2>5
<1>3. HardPlan(next, more \o b)
  BY <1>1, <1>2, HardJoin
<1>. QED
  BY <1>3 DEF b

-----------------------------------------------------------------------------
(* The invariant of the tree.                                              *)

\* Running requests do not disturb each other.
Apart ==
  \A c, d \in Clients : c # d /\ ~Idle(c) /\ ~Idle(d) =>
    ~Disturbs(request[c].kind, request[d].kind)

\* The calls left to each fit the tree as it is.
Planned == \A c \in Clients : ~Idle(c) => Plan(node, request[c].kind, todo[c])

\* The inductive invariant.
TreeInv ==
  /\ DOMAIN todo = Clients
  /\ ~raced => Apart /\ SoundTree(node) /\ Planned

\* Calls on documents ask of the folders only that they are there.
LEMMA DocCallsStay ==
  ASSUME NEW nodes, NEW next, \A f \in Folders : next[f] = nodes[f]
  PROVE  DocCalls(nodes) \subseteq DocCalls(next)
<1>1. ASSUME NEW call \in DocCalls(nodes)
      PROVE  call \in DocCalls(next)
  <2>1. call.op = "save" => call.arg.parent \in Folders \cup {None}
    BY DEF DocCalls, Calls, Node
  <2>. QED
    BY <2>1 DEF DocCalls
<1>. QED
  BY <1>1

\* A request begins beside others it does not disturb.
LEMMA BeginTree ==
  ASSUME TypeOK, TreeInv, NEW c \in Clients, Idle(c), NEW u \in Users,
         NEW kind \in {"folder", "doc", "row"}, NEW op, NEW on, NEW into, NEW calls,
         Begin(c, u, kind, op, on, into, calls),
         SoundTree(node) => Plan(node, kind, calls)
  PROVE  TreeInv'
<1>0. PICK r : r = [kind |-> kind, op |-> op, on |-> on, user |-> u,
                    trashed |-> Exists(on) /\ node[on].deleted, all |-> OwnsAll(on, u)]
  OBVIOUS
<1>1. /\ node' = node
      /\ todo' = [todo EXCEPT ![c] = calls]
      /\ request' = [request EXCEPT ![c] = r] /\ r.kind = kind
      /\ raced' = (raced \/ \E d \in Clients : ~Idle(d) /\ Disturbs(kind, request[d].kind))
  BY <1>0 DEF Begin
<1>2. DOMAIN todo' = Clients
  BY <1>1 DEF TreeInv
<1>3. /\ todo'[c] = calls /\ request'[c].kind = kind
      /\ \A d \in Clients \ {c} : todo'[d] = todo[d] /\ request'[d] = request[d]
  BY <1>1 DEF TreeInv, TypeOK
<1>4. ASSUME ~raced'
      PROVE  Apart' /\ SoundTree(node') /\ Planned'
  <2>1. ~raced /\ Apart /\ SoundTree(node) /\ Planned
    BY <1>1, <1>4 DEF TreeInv
  <2>2. \A d \in Clients : ~Idle(d) => ~Disturbs(kind, request[d].kind)
    BY <1>1, <1>4
  <2>3. \A k, o : Disturbs(k, o) <=> Disturbs(o, k)
    BY DEF Disturbs
  <2>4. Apart'
    BY <1>3, <2>1, <2>2, <2>3 DEF Apart, Idle
  <2>5. Planned'
    <3>1. ASSUME NEW d \in Clients, ~Idle(d)'
          PROVE  Plan(node', request'[d].kind, todo'[d])
      BY <1>1, <1>3, <2>1, <3>1 DEF Planned, Idle
    <3>. QED
      BY <3>1 DEF Planned
  <2>. QED
    BY <1>1, <2>1, <2>4, <2>5
<1>. QED
  BY <1>2, <1>4 DEF TreeInv

\* A call of one request leaves the plans of the others as they were.
LEMMA DoneTree ==
  ASSUME TypeOK, TreeInv, NEW c \in Clients, ~Idle(c), NEW more, Done(c, more),
         ~raced => /\ SoundTree(node')
                   /\ Plan(node', request[c].kind, more \o Tail(todo[c]))
                   /\ request[c].kind = "row" => node' = node
                   /\ request[c].kind = "doc" => \A f \in Folders : node'[f] = node[f]
  PROVE  TreeInv'
<1>1. /\ todo' = [todo EXCEPT ![c] = more \o Tail(todo[c])]
      /\ request' = request /\ raced' = raced
  BY DEF Done
<1>2. DOMAIN todo' = Clients
  BY <1>1 DEF TreeInv
<1>3. todo'[c] = more \o Tail(todo[c]) /\ \A d \in Clients \ {c} : todo'[d] = todo[d]
  BY <1>1 DEF TreeInv
<1>4. ASSUME ~raced'
      PROVE  Apart' /\ SoundTree(node') /\ Planned'
  <2>1. ~raced /\ Apart /\ SoundTree(node) /\ Planned
    BY <1>1, <1>4 DEF TreeInv
  <2>2. Apart'
    BY <1>1, <1>3, <2>1 DEF Apart, Idle
  <2>3. ASSUME NEW d \in Clients, ~Idle(d)'
        PROVE  Plan(node', request'[d].kind, todo'[d])
    <3>1. CASE d = c
      BY <1>1, <1>3, <2>1, <3>1
    <3>2. CASE d # c
      <4>1. ~Idle(d) /\ Plan(node, request[d].kind, todo[d]) /\ todo'[d] = todo[d]
        BY <1>3, <2>1, <2>3, <3>2 DEF Planned, Idle
      <4>2. ~Disturbs(request[c].kind, request[d].kind)
        BY <2>1, <3>2, <4>1 DEF Apart
      <4>3. request[c].kind \in {"folder", "doc", "row"} /\ request[d].kind \in {"folder", "doc", "row"}
        BY DEF TypeOK
      <4>4. CASE request[d].kind = "row"
        BY <1>1, <4>1, <4>4 DEF Plan
      <4>5. CASE request[d].kind = "doc"
        <5>1. \A f \in Folders : node'[f] = node[f]
          BY <2>1, <4>2, <4>3, <4>5 DEF Disturbs
        <5>2. DocCalls(node) \subseteq DocCalls(node')
          BY <5>1, DocCallsStay
        <5>3. todo[d] \in Seq(DocCalls(node'))
          BY <4>1, <4>5, <5>2, SeqMonotonic DEF Plan
        <5>. QED
          BY <1>1, <4>1, <4>5, <5>3 DEF Plan
      <4>6. CASE request[d].kind = "folder"
        <5>1. node' = node
          BY <2>1, <4>2, <4>3, <4>6 DEF Disturbs
        <5>. QED
          BY <1>1, <4>1, <5>1
      <4>. QED
        BY <4>3, <4>4, <4>5, <4>6
    <3>. QED
      BY <3>1, <3>2
  <2>4. Planned'
    BY <2>3 DEF Planned
  <2>. QED
    BY <1>1, <2>1, <2>2, <2>4
<1>. QED
  BY <1>2, <1>4 DEF TreeInv

\* A request that ends early leaves a sound tree.
LEMMA EndTree ==
  ASSUME TypeOK, TreeInv, NEW c \in Clients, Fail(c) \/ TooDeep(c)
  PROVE  TreeInv'
<1>1. /\ todo' = [todo EXCEPT ![c] = <<>>]
      /\ node' = node /\ request' = request /\ raced' = raced
  BY DEF Fail, TooDeep, End
<1>2. DOMAIN todo' = Clients /\ \A d \in Clients : ~Idle(d)' => ~Idle(d) /\ todo'[d] = todo[d]
  BY <1>1 DEF TreeInv, Idle
<1>3. Planned /\ SoundTree(node) => Planned'
  BY <1>1, <1>2 DEF Planned
<1>4. Apart => Apart'
  BY <1>1, <1>2 DEF Apart
<1>. QED
  BY <1>1, <1>2, <1>3, <1>4 DEF TreeInv

-----------------------------------------------------------------------------
(* The calls of a request.                                                 *)

\* The types of what a request has to do.
LEMMA CallAt ==
  ASSUME TypeOK, NEW c \in Clients, ~Idle(c)
  PROVE  /\ node \in Tree /\ todo[c] \in Seq(Calls) /\ todo[c] # <<>>
         /\ Head(todo[c]) \in Calls /\ Tail(todo[c]) \in Seq(Calls)
         /\ <<>> \o Tail(todo[c]) = Tail(todo[c])
         /\ request[c].kind \in {"folder", "doc", "row"}
<1>1. todo[c] \in Seq(Calls) /\ todo[c] # <<>>
  BY DEF TypeOK, Idle
<1>2. Head(todo[c]) \in Calls /\ Tail(todo[c]) \in Seq(Calls)
  BY <1>1, HeadTailProperties
<1>3. <<>> \o Tail(todo[c]) = Tail(todo[c])
  BY <1>2, ConcatEmptySeq
<1>. QED
  BY <1>1, <1>2, <1>3 DEF TypeOK, Tree

\* What the kind of a request says of its first call.
LEMMA CallKind ==
  ASSUME TypeOK, TreeInv, ~raced, NEW c \in Clients, ~Idle(c)
  PROVE  /\ SoundTree(node)
         /\ request[c].kind = "row" =>
              Head(todo[c]).op = "row" /\ Tail(todo[c]) \in Seq(RowCalls)
         /\ request[c].kind = "doc" =>
              Head(todo[c]) \in DocCalls(node) /\ Tail(todo[c]) \in Seq(DocCalls(node))
         /\ request[c].kind = "folder" =>
              \/ SoftPlan(node, todo[c])
              \/ HardPlan(node, todo[c]) /\ Head(todo[c]) \in HardCalls
<1>1. SoundTree(node) /\ Plan(node, request[c].kind, todo[c]) /\ todo[c] # <<>>
  BY DEF TreeInv, Planned, Idle
<1>2. request[c].kind = "row" =>
        Head(todo[c]).op = "row" /\ Tail(todo[c]) \in Seq(RowCalls)
  <2>1. SUFFICES ASSUME todo[c] \in Seq(RowCalls)
                 PROVE  Head(todo[c]).op = "row" /\ Tail(todo[c]) \in Seq(RowCalls)
    BY <1>1 DEF Plan
  <2>2. Head(todo[c]) \in RowCalls /\ Tail(todo[c]) \in Seq(RowCalls)
    BY <1>1, <2>1, HeadTailProperties
  <2>. QED
    BY <2>2 DEF RowCalls
<1>3. request[c].kind = "doc" =>
        Head(todo[c]) \in DocCalls(node) /\ Tail(todo[c]) \in Seq(DocCalls(node))
  BY <1>1, HeadTailProperties DEF Plan
<1>4. HardPlan(node, todo[c]) => Head(todo[c]) \in HardCalls
  BY <1>1, HeadTailProperties DEF HardPlan
<1>. QED
  BY <1>1, <1>2, <1>3, <1>4 DEF Plan

\* A save.
LEMMA SaveTree ==
  ASSUME TypeOK, TreeInv, NEW c \in Clients, DoSave(c)
  PROVE  TreeInv'
<1>. DEFINE e == Head(todo[c]).id
            rec == Head(todo[c]).arg
<1>1. /\ ~Idle(c) /\ Head(todo[c]).op = "save" /\ Done(c, <<>>)
      /\ node' = [node EXCEPT ![e] = rec]
  BY DEF DoSave, Doing
<1>2. e \in Nodes /\ rec \in Node
  BY <1>1, CallAt DEF Calls
<1>3. SUFFICES ASSUME ~raced
               PROVE  /\ SoundTree(node')
                      /\ Plan(node', request[c].kind, Tail(todo[c]))
                      /\ request[c].kind = "row" => node' = node
                      /\ request[c].kind = "doc" => \A f \in Folders : node'[f] = node[f]
  BY <1>1, CallAt, DoneTree
<1>4. request[c].kind # "row"
  BY <1>1, <1>3, CallKind
<1>5. CASE request[c].kind = "doc"
  <2>1. e \in Docs /\ (rec.parent = None \/ node[rec.parent] # None)
    BY <1>1, <1>3, <1>5, CallKind DEF DocCalls
  <2>2. \A f \in Folders : node'[f] = node[f]
    BY <1>1, <2>1, AclAssumption, CallAt DEF Tree, Nodes
  <2>3. SaveFits(node, e, rec)
    BY <2>1 DEF SaveFits
  <2>. HIDE DEF e, rec
  <2>4. SoundTree(node')
    BY <1>1, <1>2, <1>3, <2>3, CallAt, CallKind, SaveSound
  <2>5. DocCalls(node) \subseteq DocCalls(node')
    BY <2>2, DocCallsStay
  <2>6. Tail(todo[c]) \in Seq(DocCalls(node'))
    BY <1>1, <1>3, <1>5, <2>5, CallKind, SeqMonotonic
  <2>. QED
    BY <1>5, <2>2, <2>4, <2>6 DEF Plan
<1>6. CASE request[c].kind = "folder"
  <2>1. SoftPlan(node, todo[c])
    BY <1>1, <1>3, <1>6, CallKind DEF HardCalls
  <2>2. SaveFits(node, e, rec) /\ SoftPlan(node', Tail(todo[c]))
    BY <1>1, <2>1, CallAt, SoftSave
  <2>. HIDE DEF e, rec
  <2>3. SoundTree(node')
    BY <1>1, <1>2, <1>3, <2>2, CallAt, CallKind, SaveSound
  <2>. QED
    BY <1>6, <2>2, <2>3 DEF Plan
<1>. QED
  BY <1>1, <1>4, <1>5, <1>6, CallAt

\* A hard delete drops a folder when nothing is in it any more.
LEMMA DropLast ==
  ASSUME TypeOK, TreeInv, ~raced, NEW c \in Clients, ~Idle(c),
         request[c].kind = "folder", Head(todo[c]).op = "drop"
  PROVE  /\ HardPlan(node, todo[c])
         /\ \A x \in Nodes : node[x] # None => node[x].parent # Head(todo[c]).id
<1>1. HardPlan(node, todo[c])
  <2>1. ~SoftPlan(node, todo[c])
    <3>1. SUFFICES ASSUME todo[c] \in Seq(KeepCalls(node))
                   PROVE  FALSE
      BY DEF SoftPlan
    <3>2. Head(todo[c]) \in KeepCalls(node)
      BY <3>1, CallAt, HeadTailProperties
    <3>. QED
      BY <3>2 DEF KeepCalls
  <2>. QED
    BY <2>1, CallKind
<1>2. \A x \in Nodes : ~ChildOf(node, x, Head(todo[c]).id)
  <2>1. Len(todo[c]) \in Nat \ {0} /\ todo[c][1] = Head(todo[c])
    BY CallAt, EmptySeq, HeadTailProperties
  <2>2. 1 \in 1..Len(todo[c]) /\ 1..(1 - 1) = {}
    BY <2>1
  <2>. QED
    BY <1>1, <2>1, <2>2 DEF HardPlan
<1>. QED
  BY <1>1, <1>2 DEF ChildOf

\* A node is dropped.
LEMMA DropTree ==
  ASSUME TypeOK, TreeInv, NEW c \in Clients, DoDrop(c)
  PROVE  TreeInv'
<1>. DEFINE e == Head(todo[c]).id
<1>1. /\ ~Idle(c) /\ Head(todo[c]).op = "drop" /\ Done(c, <<>>)
      /\ node' = [node EXCEPT ![e] = None]
  BY DEF DoDrop, Doing
<1>2. e \in Nodes
  BY <1>1, CallAt DEF Calls
<1>3. SUFFICES ASSUME ~raced
               PROVE  /\ SoundTree(node')
                      /\ Plan(node', request[c].kind, Tail(todo[c]))
                      /\ request[c].kind = "row" => node' = node
                      /\ request[c].kind = "doc" => \A f \in Folders : node'[f] = node[f]
  BY <1>1, CallAt, DoneTree
<1>4. request[c].kind # "row"
  BY <1>1, <1>3, CallKind
<1>5. CASE request[c].kind = "doc"
  <2>1. e \in Docs
    BY <1>1, <1>3, <1>5, CallKind DEF DocCalls
  <2>2. \A f \in Folders : node'[f] = node[f]
    BY <1>1, <2>1, AclAssumption, CallAt DEF Tree, Nodes
  <2>3. \A x \in Nodes : node[x] # None => node[x].parent # e
    BY <1>1, <2>1, AclAssumption, CallAt DEF Tree, Node
  <2>. HIDE DEF e
  <2>4. SoundTree(node')
    BY <1>1, <1>2, <1>3, <2>3, CallAt, CallKind, DropSound
  <2>5. DocCalls(node) \subseteq DocCalls(node')
    BY <2>2, DocCallsStay
  <2>6. Tail(todo[c]) \in Seq(DocCalls(node'))
    BY <1>1, <1>3, <1>5, <2>5, CallKind, SeqMonotonic
  <2>. QED
    BY <1>5, <2>2, <2>4, <2>6 DEF Plan
<1>6. CASE request[c].kind = "folder"
  <2>1. HardPlan(node, todo[c]) /\ \A x \in Nodes : node[x] # None => node[x].parent # e
    BY <1>1, <1>3, <1>6, DropLast
  <2>3. \A x \in Nodes : node[x] # None => node[x].parent # e
    BY <2>1
  <2>4. /\ \A x \in Nodes : node'[x] # None => node'[x] = node[x]
        /\ \A x \in Nodes : node'[x] # None => ~Handles(node, Head(todo[c]), x)
    BY <1>1, <1>2, CallAt DEF Tree, Handles
  <2>5. HardPlan(node', <<>>)
    BY DEF HardPlan
  <2>6. HardPlan(node', <<>> \o Tail(todo[c]))
    BY <1>1, <2>1, <2>4, <2>5, CallAt, HardStep
  <2>. HIDE DEF e
  <2>7. SoundTree(node')
    BY <1>1, <1>2, <1>3, <2>3, CallAt, CallKind, DropSound
  <2>. QED
    BY <1>1, <1>6, <2>6, <2>7, CallAt DEF Plan
<1>. QED
  BY <1>1, <1>4, <1>5, <1>6, CallAt

\* An access row is written.
LEMMA RowTree ==
  ASSUME TypeOK, TreeInv, NEW c \in Clients, DoRow(c)
  PROVE  TreeInv'
<1>1. ~Idle(c) /\ Head(todo[c]).op = "row" /\ Done(c, <<>>) /\ node' = node
  BY DEF DoRow, Doing
<1>2. SUFFICES ASSUME ~raced
               PROVE  /\ SoundTree(node')
                      /\ Plan(node', request[c].kind, Tail(todo[c]))
                      /\ request[c].kind = "row" => node' = node
                      /\ request[c].kind = "doc" => \A f \in Folders : node'[f] = node[f]
  BY <1>1, CallAt, DoneTree
<1>3. request[c].kind = "row"
  <2>1. request[c].kind # "doc"
    BY <1>1, <1>2, CallKind DEF DocCalls
  <2>2. ~SoftPlan(node, todo[c])
    <3>1. SUFFICES ASSUME todo[c] \in Seq(KeepCalls(node))
                   PROVE  FALSE
      BY <1>1 DEF SoftPlan
    <3>2. Head(todo[c]) \in KeepCalls(node)
      BY <1>1, <3>1, CallAt, HeadTailProperties
    <3>. QED
      BY <1>1, <3>2 DEF KeepCalls
  <2>3. request[c].kind # "folder"
    BY <1>1, <1>2, <2>2, CallKind DEF HardCalls
  <2>. QED
    BY <1>1, <2>1, <2>3, CallAt
<1>. QED
  BY <1>1, <1>2, <1>3, CallKind DEF Plan

\* What hangs on a node is removed.
LEMMA PurgeTree ==
  ASSUME TypeOK, TreeInv, NEW c \in Clients, DoPurge(c)
  PROVE  TreeInv'
<1>1. ~Idle(c) /\ Head(todo[c]).op = "purge" /\ Done(c, <<>>) /\ node' = node
  BY DEF DoPurge, Doing
<1>2. SUFFICES ASSUME ~raced
               PROVE  /\ SoundTree(node')
                      /\ Plan(node', request[c].kind, Tail(todo[c]))
                      /\ request[c].kind = "row" => node' = node
                      /\ request[c].kind = "doc" => \A f \in Folders : node'[f] = node[f]
  BY <1>1, CallAt, DoneTree
<1>3. request[c].kind # "row"
  BY <1>1, <1>2, CallKind
<1>4. CASE request[c].kind = "doc"
  BY <1>1, <1>2, <1>4, CallKind DEF Plan
<1>5. CASE request[c].kind = "folder"
  <2>1. ~SoftPlan(node, todo[c])
    <3>1. SUFFICES ASSUME todo[c] \in Seq(KeepCalls(node))
                   PROVE  FALSE
      BY <1>1 DEF SoftPlan
    <3>2. Head(todo[c]) \in KeepCalls(node)
      BY <1>1, <3>1, CallAt, HeadTailProperties
    <3>. QED
      BY <1>1, <3>2 DEF KeepCalls
  <2>2. HardPlan(node, todo[c])
    BY <1>1, <1>2, <1>5, <2>1, CallKind
  <2>3. \A x : ~Handles(node, Head(todo[c]), x)
    BY <1>1 DEF Handles
  <2>4. HardPlan(node, <<>>)
    BY DEF HardPlan
  <2>5. HardPlan(node, <<>> \o Tail(todo[c]))
    BY <1>1, <2>2, <2>3, <2>4, CallAt, HardStep
  <2>. QED
    BY <1>1, <1>2, <1>5, <2>5, CallAt, CallKind DEF Plan
<1>. QED
  BY <1>1, <1>3, <1>4, <1>5, CallAt

\* Only a cascade searches and loops.
LEMMA LoopKind ==
  ASSUME TypeOK, TreeInv, ~raced, NEW c \in Clients, ~Idle(c),
         Head(todo[c]).op \in {"folders", "docs", "each"}
  PROVE  request[c].kind = "folder"
<1>1. request[c].kind # "doc" /\ request[c].kind # "row"
  BY CallKind DEF DocCalls
<1>. QED
  BY <1>1, CallAt

\* A cascade searches a folder.
LEMMA FindTree ==
  ASSUME TypeOK, TreeInv, NEW c \in Clients, DoFind(c)
  PROVE  TreeInv'
<1>. DEFINE call  == Head(todo[c])
            found == Found(call.arg, IF call.op = "docs" THEN Docs ELSE Folders, call.id)
            left  == {[id |-> e, copy |-> node[e]] : e \in found}
            more  == IF found = {} THEN <<>> ELSE <<Each(call.id, call.arg, left)>>
<1>1. /\ ~Idle(c) /\ call.op \in {"folders", "docs"} /\ Done(c, more) /\ node' = node
  BY DEF DoFind, Doing
<1>2. call.id \in Folders /\ call.arg \in Modes
  BY <1>1, CallAt DEF Calls
<1>3. \A e \in found : e \in Nodes /\ node[e] # None /\ node[e] \in Node
  BY <1>1, CallAt DEF Found, Nodes, Exists, Tree
<1>4. \A child \in left : child \in [id : Nodes, copy : Node] /\ Keeps(node, child.id, child.copy)
  BY <1>3 DEF Keeps
<1>5. Each(call.id, call.arg, left) \in Calls
  BY <1>2, <1>4 DEF Each, Call, Calls
<1>6. SUFFICES ASSUME ~raced
               PROVE  SoftPlan(node, more \o Tail(todo[c])) \/ HardPlan(node, more \o Tail(todo[c]))
  <2>1. ~raced => request[c].kind = "folder" /\ SoundTree(node)
    BY <1>1, LoopKind, CallKind
  <2>. HIDE DEF more, call
  <2>2. ~raced => Plan(node, request[c].kind, more \o Tail(todo[c]))
    BY <1>6, <2>1 DEF Plan
  <2>. QED
    BY <1>1, <2>1, <2>2, CallAt, DoneTree
<1>7. CASE SoftPlan(node, todo[c])
  <2>1. call \in KeepCalls(node)
    BY <1>1, <1>7, CallAt, SoftCall, EmptySeq
  <2>2. call.arg # "hard"
    BY <1>1, <2>1 DEF KeepCalls
  <2>3. Each(call.id, call.arg, left) \in KeepCalls(node)
    BY <1>4, <1>5, <2>2 DEF KeepCalls, Each, Call
  <2>4. more \in Seq(KeepCalls(node))
    BY <2>3
  <2>. HIDE DEF more
  <2>. QED
    BY <1>1, <1>7, <2>4, CallAt, SoftCall
<1>8. CASE HardPlan(node, todo[c]) /\ call \in HardCalls
  <2>1. call.arg = "hard"
    BY <1>1, <1>8 DEF HardCalls
  <2>2. Each(call.id, call.arg, left) \in HardCalls
    BY <1>5, <2>1 DEF HardCalls, Each, Call
  <2>3. more \in Seq(HardCalls)
    BY <2>2
  <2>4. \A i \in 1..Len(more) : more[i].op = "each"
    BY DEF Each, Call
  <2>5. HardPlan(node, more)
    BY <2>3, <2>4 DEF HardPlan
  <2>6. ASSUME NEW x \in Nodes, node[x] # None, Handles(node, call, x)
        PROVE  \E j \in 1..Len(more) : Handles(node, more[j], x)
    <3>1. x \in found
      BY <1>1, <2>1, <2>6 DEF Handles, Found, Exists
    <3>2. /\ more = <<Each(call.id, call.arg, left)>>
          /\ [id |-> x, copy |-> node[x]] \in left
      BY <3>1
    <3>3. Handles(node, Each(call.id, call.arg, left), x)
      BY <3>2 DEF Handles, Each, Call
    <3>4. 1 \in 1..Len(more) /\ more[1] = Each(call.id, call.arg, left)
      BY <3>2
    <3>. QED
      BY <3>3, <3>4
  <2>. HIDE DEF more
  <2>7. HardPlan(node, more \o Tail(todo[c]))
    BY <1>1, <1>8, <2>5, <2>6, CallAt, HardStep
  <2>. QED
    BY <2>7
<1>. QED
  BY <1>1, <1>6, <1>7, <1>8, CallKind, LoopKind

\* A cascade goes over what it found.
LEMMA EachTree ==
  ASSUME TypeOK, TreeInv, NEW c \in Clients, DoEach(c)
  PROVE  TreeInv'
<1>. DEFINE call == Head(todo[c])
<1>1. ~Idle(c) /\ call.op = "each" /\ node' = node
  BY DEF DoEach, Doing
<1>2. /\ call.id \in Folders /\ call.arg.mode \in Modes
      /\ call.arg.left \in SUBSET [id : Nodes, copy : Node]
  BY <1>1, CallAt DEF Calls
<1>3. PICK child \in call.arg.left :
        Done(c, Cascade(call.arg.mode, child.id, child.copy)
                  \o IF call.arg.left = {child} THEN <<>>
                     ELSE <<Each(call.id, call.arg.mode, call.arg.left \ {child})>>)
  BY DEF DoEach
<1>. DEFINE rest == IF call.arg.left = {child} THEN <<>>
                    ELSE <<Each(call.id, call.arg.mode, call.arg.left \ {child})>>
            more == Cascade(call.arg.mode, child.id, child.copy) \o rest
<1>4. child.id \in Nodes /\ child.copy \in Node
  BY <1>2
<1>5. Each(call.id, call.arg.mode, call.arg.left \ {child}) \in Calls
  BY <1>2 DEF Each, Call, Calls
<1>6. SUFFICES ASSUME ~raced
               PROVE  SoftPlan(node, more \o Tail(todo[c])) \/ HardPlan(node, more \o Tail(todo[c]))
  <2>1. ~raced => request[c].kind = "folder" /\ SoundTree(node)
    BY <1>1, LoopKind, CallKind
  <2>2. Done(c, more)
    BY <1>3
  <2>. HIDE DEF more, call
  <2>3. ~raced => Plan(node, request[c].kind, more \o Tail(todo[c]))
    BY <1>6, <2>1 DEF Plan
  <2>. QED
    BY <1>1, <2>1, <2>2, <2>3, CallAt, DoneTree
<1>7. CASE SoftPlan(node, todo[c])
  <2>1. call \in KeepCalls(node)
    BY <1>1, <1>7, CallAt, SoftCall, EmptySeq
  <2>2. call.arg.mode # "hard" /\ \A x \in call.arg.left : Keeps(node, x.id, x.copy)
    BY <1>1, <2>1 DEF KeepCalls
  <2>3. Each(call.id, call.arg.mode, call.arg.left \ {child}) \in KeepCalls(node)
    BY <1>5, <2>2 DEF KeepCalls, Each, Call
  <2>4. rest \in Seq(KeepCalls(node))
    BY <2>3
  <2>5. Cascade(call.arg.mode, child.id, child.copy) \in Seq(KeepCalls(node))
    BY <1>2, <1>4, <2>2, CascadeKeeps
  <2>6. more \in Seq(KeepCalls(node))
    BY <2>4, <2>5, ConcatProperties
  <2>. HIDE DEF more
  <2>. QED
    BY <1>1, <1>7, <2>6, CallAt, SoftCall
<1>8. CASE HardPlan(node, todo[c]) /\ call \in HardCalls
  <2>. DEFINE first == Cascade("hard", child.id, child.copy)
  <2>1. call.arg.mode = "hard" /\ more = first \o rest
    BY <1>1, <1>8 DEF HardCalls
  <2>2. Each(call.id, call.arg.mode, call.arg.left \ {child}) \in HardCalls
    BY <1>5, <2>1 DEF HardCalls, Each, Call
  <2>3. rest \in Seq(HardCalls) /\ \A i \in 1..Len(rest) : rest[i].op = "each"
    BY <2>2 DEF Each, Call
  <2>4. HardPlan(node, first) /\ \E j \in 1..Len(first) : Handles(node, first[j], child.id)
    BY <1>1, <1>4, CallAt, CascadeHard
  <2>5. ASSUME NEW x, x # child.id, Handles(node, call, x)
        PROVE  1 \in 1..Len(rest) /\ Handles(node, rest[1], x)
    <3>1. PICK other \in call.arg.left : other.id = x
      BY <1>1, <2>5 DEF Handles
    <3>2. other # child /\ rest = <<Each(call.id, call.arg.mode, call.arg.left \ {child})>>
      BY <2>5, <3>1
    <3>3. Handles(node, Each(call.id, call.arg.mode, call.arg.left \ {child}), x)
      BY <3>1, <3>2 DEF Handles, Each, Call
    <3>. QED
      BY <3>2, <3>3
  <2>. HIDE DEF rest, first, more
  <2>6. HardPlan(node, first \o rest)
    BY <2>3, <2>4, HardJoin
  <2>7. /\ first \in Seq(HardCalls) /\ Len(first) \in Nat /\ Len(rest) \in Nat
        /\ Len(first \o rest) = Len(first) + Len(rest)
        /\ \A i \in 1..(Len(first) + Len(rest)) :
             (first \o rest)[i] = IF i <= Len(first) THEN first[i] ELSE rest[i - Len(first)]
    BY <2>3, <2>4, ConcatProperties DEF HardPlan
  <2>8. ASSUME NEW x \in Nodes, node[x] # None, Handles(node, call, x)
        PROVE  \E j \in 1..Len(first \o rest) : Handles(node, (first \o rest)[j], x)
    <3>1. CASE x = child.id
      <4>1. PICK j \in 1..Len(first) : Handles(node, first[j], x)
        BY <2>4, <3>1
      <4>2. j \in 1..Len(first \o rest) /\ (first \o rest)[j] = first[j]
        BY <2>7, <4>1
      <4>. QED
        BY <4>1, <4>2
    <3>2. CASE x # child.id
      <4>1. 1 \in 1..Len(rest) /\ Handles(node, rest[1], x)
        BY <2>5, <2>8, <3>2
      <4>2. /\ Len(first) + 1 \in 1..(Len(first) + Len(rest))
            /\ ~(Len(first) + 1 <= Len(first)) /\ (Len(first) + 1) - Len(first) = 1
        BY <2>7, <4>1
      <4>. QED
        BY <2>7, <4>1, <4>2
    <3>. QED
      BY <3>1, <3>2
  <2>9. HardPlan(node, (first \o rest) \o Tail(todo[c]))
    BY <1>1, <1>8, <2>6, <2>8, CallAt, HardStep
  <2>. QED
    BY <2>1, <2>9
<1>. QED
  BY <1>1, <1>6, <1>7, <1>8, CallKind, LoopKind

-----------------------------------------------------------------------------
(* The requests: each plans calls that fit the tree it finds.              *)

\* Above a folder there are folders.
LEMMA WholeWalk ==
  ASSUME NEW nodes \in Tree, Whole(nodes), NEW p \in Folders, nodes[p] # None
  PROVE  \A k \in Nat : Walk(nodes, p, k) # None => nodes[Walk(nodes, p, k)] # None
<1>. DEFINE Good == {k \in Nat : Walk(nodes, p, k) # None => nodes[Walk(nodes, p, k)] # None}
<1>1. 0 \in Good
  BY WalkSteps
<1>2. ASSUME NEW k \in Good
      PROVE  k + 1 \in Good
  <2>1. Walk(nodes, p, k + 1) = NextUp(nodes, Walk(nodes, p, k))
    BY WalkSteps
  <2>2. Walk(nodes, p, k) \in Nodes \cup {None}
    BY WalkType DEF Nodes
  <2>. QED
    BY <2>1, <2>2 DEF NextUp, Whole
<1>. HIDE DEF Good
<1>3. \A k \in Nat : k \in Good
  <2>1. Good \in SUBSET Nat
    BY DEF Good
  <2>. QED
    BY <1>1, <1>2, <2>1, NumbersFrom0
<1>. QED
  BY <1>3 DEF Good

\* What _check_depth counted bounds the walk.
LEMMA HeightWalk ==
  ASSUME TypeOK, Shallow(node, MaxDepth), NEW p \in Folders, Exists(p)
  PROVE  Ends(p) /\ Height(p) \in Nat /\ Walk(node, p, Height(p)) = None /\ Height(p) <= MaxDepth
<1>1. /\ node \in Tree /\ MaxDepth \in Nat /\ Walk(node, p, MaxDepth) = None
      /\ Height(p) = Cardinality(Met(node, p))
  BY AclAssumption, FolderTreeAssumption, ChainIsMet DEF TypeOK, Tree, Shallow, Exists, Height
<1>2. /\ Walk(node, p, Cardinality(Folders) + 1) = None
      /\ Height(p) <= MaxDepth /\ Height(p) \in Nat
  BY <1>1, HeightBounds
<1>3. Walk(node, p, Height(p)) = None
  <2>. DEFINE h == Height(p)
  <2>1. h \in Nat /\ Cardinality(Met(node, p)) <= h
    BY <1>1, <1>2
  <2>. HIDE DEF h
  <2>2. Walk(node, p, h) = None
    BY <1>1, <1>2, <2>1, HeightBounds
  <2>. QED
    BY <2>2 DEF h
<1>. QED
  BY <1>2, <1>3, UpIsWalk DEF Ends

\* A new folder fits below p if p is not too deep: nothing names it yet.
LEMMA NewFits ==
  ASSUME TypeOK, SoundTree(node), NEW f \in Folders, ~Exists(f),
         NEW p \in Folders, Exists(p), 1 + Height(p) <= MaxDepth
  PROVE  MoveFits(node, f, p)
<1>0. /\ node \in Tree /\ Whole(node) /\ node[p] # None /\ node[f] = None /\ f # None
      /\ Height(p) \in Nat /\ Walk(node, p, Height(p)) = None
  BY AclAssumption, HeightWalk DEF TypeOK, Tree, SoundTree, Exists
<1>1. \A g \in Folders, k \in Nat : node[g] # None => Walk(node, g, k) # f
  BY <1>0, WholeWalk
<1>2. ASSUME NEW i \in Nat, Walk(node, f, i) = f
      PROVE  i + 1 <= 1
  <2>1. Walk(node, f, 0 + 1) = NextUp(node, Walk(node, f, 0)) /\ Walk(node, f, 0) = f
    BY WalkSteps
  <2>2. Walk(node, f, 1) = None
    BY <1>0, <2>1 DEF NextUp
  <2>3. ~(1 <= i)
    BY <1>0, <1>2, <2>2, WalkOver
  <2>. QED
    BY <2>3
<1>3. \A g \in Folders, i \in Nat : (node[g] # None \/ g = f) /\ Walk(node, g, i) = f => i + 1 <= 1
  BY <1>1, <1>2
<1>. QED
  BY <1>0, <1>1, <1>3 DEF MoveFits

\* A folder fits below p by the checks of update_folder.
LEMMA MovedFits ==
  ASSUME TypeOK, SoundTree(node), NEW f \in Folders, Exists(f),
         NEW p \in Folders, Exists(p), f \notin Chain(p), Levels(f) + Height(p) <= MaxDepth
  PROVE  MoveFits(node, f, p)
<1>0. /\ node \in Tree /\ Whole(node) /\ node[p] # None /\ node[f] # None /\ f # None
      /\ Shallow(node, MaxDepth) /\ MaxDepth \in Nat
      /\ Height(p) \in Nat /\ Walk(node, p, Height(p)) = None /\ Ends(p)
  BY AclAssumption, FolderTreeAssumption, HeightWalk DEF TypeOK, Tree, SoundTree, Exists
<1>1. ASSUME NEW k \in Nat
      PROVE  Walk(node, p, k) # f
  <2>1. SUFFICES ASSUME Walk(node, p, k) = f PROVE FALSE
    OBVIOUS
  <2>2. k \in Span
    BY <1>0, <2>1, MetInSpan
  <2>3. f \in Met(node, p)
    BY <1>0, <2>1, <2>2 DEF Met
  <2>. QED
    BY <2>3, ChainIsMet
<1>2. /\ Levels(f) = Cardinality({n \in Span : \E x \in Folders :
                                    node[x] # None /\ Walk(node, x, n) = f})
      /\ Levels(f) \in Nat
  <2>1. Levels(f) = Cardinality({n \in Span : \E x \in Folders :
                                    node[x] # None /\ Walk(node, x, n) = f})
    BY UpIsWalk DEF Levels, Exists
  <2>2. IsFiniteSet(Span)
    BY SpanFinite, FS_Interval DEF Span
  <2>3. IsFiniteSet({n \in Span : \E x \in Folders : node[x] # None /\ Walk(node, x, n) = f})
    BY <2>2, FS_Subset
  <2>. QED
    BY <2>1, <2>3, FS_CardinalityType
<1>3. ASSUME NEW g \in Folders, NEW i \in Nat, node[g] # None \/ g = f, Walk(node, g, i) = f
      PROVE  i + 1 <= Levels(f)
  BY <1>0, <1>2, <1>3, LevelsCount
<1>. DEFINE h == Height(p)
            levels == Levels(f)
<1>4. h \in Nat /\ levels \in Nat /\ Walk(node, p, h) = None /\ levels + h <= MaxDepth
  BY <1>0, <1>2
<1>5. \A g \in Folders, i \in Nat :
        (node[g] # None \/ g = f) /\ Walk(node, g, i) = f => i + 1 <= levels
  BY <1>3
<1>. HIDE DEF h, levels
<1>. QED
  BY <1>0, <1>1, <1>4, <1>5 DEF MoveFits

\* A request for one save of a folder, and one for a save and a search.
LEMMA OneSave ==
  ASSUME NEW nodes, NEW e, NEW rec, SaveFits(nodes, e, rec), NEW more \in Seq(Queries)
  PROVE  SoftPlan(nodes, <<Save(e, rec)>> \o more)
<1>. DEFINE s == <<Save(e, rec)>> \o more
            T == {Save(e, rec)} \cup Queries
<1>1. <<Save(e, rec)>> \in Seq(T) /\ more \in Seq(T)
  BY SeqMonotonic
<1>2. /\ s \in Seq(T) /\ Len(s) = 1 + Len(more) /\ Len(more) \in Nat
      /\ \A i \in 1..(1 + Len(more)) : s[i] = IF i <= 1 THEN Save(e, rec) ELSE more[i - 1]
  BY <1>1, ConcatProperties
<1>3. s # <<>> /\ Head(s) = Save(e, rec) /\ Tail(s) = more
  OBVIOUS
<1>4. Head(s).op = "save" /\ Head(s).id = e /\ Head(s).arg = rec
  BY <1>3 DEF Save, Call
<1>. HIDE DEF s
<1>5. SoftPlan(nodes, s)
  BY <1>3, <1>4 DEF SoftPlan
<1>. QED
  BY <1>5 DEF s

\* create_folder
LEMMA CreateFolderTree ==
  ASSUME IInv, TreeInv, NEW c \in Clients, NEW u \in Users, NEW f \in Folders,
         NEW p \in Folders \cup {None}, Ready(c), CreateFolder(c, u, f, p)
  PROVE  TreeInv'
<1>. DEFINE rec == [owner |-> u, parent |-> p, root |-> IF p = None THEN None ELSE RootFor(p),
                    general |-> None, deleted |-> FALSE]
            top == [rec EXCEPT !.root = f]
            calls == IF p = None THEN <<Save(f, rec), Save(f, top)>> ELSE <<Save(f, rec)>>
<1>1. /\ birth[f] = None
      /\ p # None => Exists(p) /\ 1 + Height(p) <= MaxDepth
      /\ Begin(c, u, "folder", "create", f, p, calls)
      /\ Idle(c) /\ TypeOK
  BY DEF CreateFolder, Ready, IInv
<1>2. f \in Nodes /\ ~Exists(f) /\ node[f] = None
  BY <1>1 DEF IInv, Rooted, Nodes, Exists
<1>3. ASSUME SoundTree(node)
      PROVE  SoftPlan(node, calls)
  <2>1. CASE p = None
    <3>1. rec \in Node /\ top \in Node /\ rec.parent = None /\ top.parent = None
      BY <2>1 DEF Node
    <3>. HIDE DEF rec, top
    <3>2. Save(f, rec) \in KeepCalls(node) /\ Save(f, top) \in KeepCalls(node)
      BY <1>2, <3>1 DEF Save, Call, KeepCalls, Calls, Keeps
    <3>. QED
      BY <2>1, <3>2 DEF SoftPlan
  <2>2. CASE p # None
    <3>1. MoveFits(node, f, p)
      BY <1>1, <1>2, <1>3, <2>2, NewFits
    <3>2. SaveFits(node, f, rec)
      BY <3>1 DEF SaveFits
    <3>. HIDE DEF rec
    <3>3. SoftPlan(node, <<Save(f, rec)>> \o <<>>)
      BY <3>2, OneSave, EmptySeq
    <3>4. <<Save(f, rec)>> \o <<>> = <<Save(f, rec)>>
      <4>1. <<Save(f, rec)>> \in Seq({Save(f, rec)})
        OBVIOUS
      <4>. QED
        BY <4>1, ConcatEmptySeq
    <3>. QED
      BY <2>2, <3>3, <3>4
  <2>. QED
    BY <2>1, <2>2
<1>. HIDE DEF calls
<1>4. SoundTree(node) => Plan(node, "folder", calls)
  BY <1>3 DEF Plan
<1>. QED
  BY <1>1, <1>4, BeginTree

\* A folder request that saves the folder, and perhaps searches it.
LEMMA SaveRequest ==
  ASSUME TypeOK, TreeInv, NEW c \in Clients, Ready(c), NEW u \in Users, NEW f \in Folders,
         NEW op, NEW into, NEW rec, SoundTree(node) => SaveFits(node, f, rec),
         NEW more \in Seq(Queries),
         Begin(c, u, "folder", op, f, into, <<Save(f, rec)>> \o more)
  PROVE  TreeInv'
<1>1. SoundTree(node) => Plan(node, "folder", <<Save(f, rec)>> \o more)
  BY OneSave DEF Plan
<1>. QED
  BY <1>1, BeginTree DEF Ready

\* update_folder
LEMMA UpdateFolderTree ==
  ASSUME TypeOK, TreeInv, NEW c \in Clients, NEW u \in Users, NEW f \in Folders,
         NEW p \in Folders \cup {None}, NEW general, Ready(c), UpdateFolder(c, u, f, p, general)
  PROVE  TreeInv'
<1>. DEFINE rec == [node[f] EXCEPT !.parent = IF p = None THEN @ ELSE p,
                                   !.general = IF general = "keep" THEN @ ELSE general]
<1>1. /\ Exists(f)
      /\ p # None => Exists(p) /\ f \notin Chain(p) /\ Levels(f) + Height(p) <= MaxDepth
  BY DEF UpdateFolder
<1>2. PICK into : Begin(c, u, "folder", "update", f, into, <<Save(f, rec)>>)
  BY DEF UpdateFolder
<1>3. node[f] \in Node /\ f \in Nodes
  BY <1>1 DEF TypeOK, Exists, Nodes
<1>4. rec.parent = IF p = None THEN node[f].parent ELSE p
  BY <1>3 DEF Node
<1>5. ASSUME SoundTree(node)
      PROVE  SaveFits(node, f, rec)
  <2>1. CASE p = None
    <3>. HIDE DEF rec
    <3>. QED
      BY <1>1, <1>4, <2>1 DEF SaveFits, Keeps, Exists
  <2>2. CASE p # None
    <3>1. MoveFits(node, f, p)
      BY <1>1, <1>5, <2>2, MovedFits
    <3>. HIDE DEF rec
    <3>. QED
      BY <1>4, <2>2, <3>1 DEF SaveFits
  <2>. QED
    BY <2>1, <2>2
<1>. HIDE DEF rec
<1>6. <<Save(f, rec)>> \o <<>> = <<Save(f, rec)>>
  <2>1. <<Save(f, rec)>> \in Seq({Save(f, rec)})
    OBVIOUS
  <2>. QED
    BY <2>1, ConcatEmptySeq
<1>. QED
  BY <1>2, <1>5, <1>6, EmptySeq, SaveRequest

\* A marking cascade that begins with its folder where it is, or at the top.
LEMMA MarkRequest ==
  ASSUME TypeOK, TreeInv, NEW c \in Clients, Ready(c), NEW u \in Users, NEW f \in Folders,
         NEW mode \in Modes \ {"hard"}, NEW rec \in Node, Exists(f),
         rec.parent \in {None, node[f].parent},
         Begin(c, u, "folder", mode, f, None, CascadeFolder(mode, f, rec))
  PROVE  TreeInv'
<1>. DEFINE marked == Marked(mode, rec)
            more == <<Call("folders", f, mode), Call("docs", f, mode)>>
<1>1. marked.parent = rec.parent
  BY DEF Marked, Node
<1>2. CascadeFolder(mode, f, rec) = <<Save(f, marked)>> \o more
  BY DEF CascadeFolder
<1>. HIDE DEF marked
<1>3. SaveFits(node, f, marked)
  BY <1>1 DEF SaveFits, Keeps, Exists
<1>4. Call("folders", f, mode) \in Queries /\ Call("docs", f, mode) \in Queries
  BY DEF Call, Queries
<1>5. more \in Seq(Queries)
  BY <1>4
<1>. HIDE DEF more
<1>. QED
  BY <1>2, <1>3, <1>5, SaveRequest

\* soft_delete_folder, hard_delete_folder
LEMMA DeleteFolderTree ==
  ASSUME TypeOK, TreeInv, NEW c \in Clients, NEW u \in Users, NEW f \in Folders,
         NEW mode \in Modes, Ready(c), DeleteFolder(c, u, f, mode)
  PROVE  TreeInv'
<1>1. /\ Exists(f) /\ mode # "restore" /\ f \in Nodes /\ node \in Tree
      /\ Begin(c, u, "folder", mode, f, None, Cascade(mode, f, node[f]))
  BY DEF DeleteFolder, CanDelete, Nodes, TypeOK, Tree
<1>2. CASE mode = "hard"
  <2>1. HardPlan(node, Cascade("hard", f, node[f]))
    BY <1>1, CascadeHard
  <2>2. Plan(node, "folder", Cascade(mode, f, node[f]))
    BY <1>2, <2>1 DEF Plan
  <2>. QED
    BY <1>1, <2>2, BeginTree DEF Ready
<1>3. CASE mode # "hard"
  <2>1. node[f] \in Node
    BY <1>1 DEF Tree, Exists
  <2>2. Cascade(mode, f, node[f]) = CascadeFolder(mode, f, node[f])
    BY DEF Cascade
  <2>. QED
    BY <1>1, <1>3, <2>1, <2>2, MarkRequest
<1>. QED
  BY <1>2, <1>3

\* restore_folder
LEMMA RestoreFolderTree ==
  ASSUME TypeOK, TreeInv, NEW c \in Clients, NEW u \in Users, NEW f \in Folders,
         Ready(c), RestoreFolder(c, u, f)
  PROVE  TreeInv'
<1>1. Exists(f) /\ node[f] \in Node
  BY DEF RestoreFolder, CanDelete, Nodes, TypeOK, Exists
<1>2. PICK rec \in {node[f], [node[f] EXCEPT !.parent = None]} :
        Begin(c, u, "folder", "restore", f, None, CascadeFolder("restore", f, rec))
  BY DEF RestoreFolder
<1>3. rec \in Node /\ rec.parent \in {None, node[f].parent}
  BY <1>1 DEF Node
<1>. QED
  BY <1>1, <1>2, <1>3, MarkRequest DEF Modes

\* A document request plans one save, or the hard delete.
LEMMA DocSaveTree ==
  ASSUME TypeOK, TreeInv, NEW c \in Clients, Ready(c), NEW u \in Users, NEW d \in Docs,
         NEW op, NEW into, NEW rec \in Node,
         SoundTree(node) => rec.parent = None \/ node[rec.parent] # None,
         Begin(c, u, "doc", op, d, into, <<Save(d, rec)>>)
  PROVE  TreeInv'
<1>1. SoundTree(node) => Save(d, rec) \in DocCalls(node)
  BY DEF DocCalls, Save, Call, Calls, Nodes
<1>2. SoundTree(node) => Plan(node, "doc", <<Save(d, rec)>>)
  BY <1>1 DEF Plan
<1>. QED
  BY <1>2, BeginTree DEF Ready

\* Requests on documents.
LEMMA DocRequestTree ==
  ASSUME IInv, TreeInv, NEW c \in Clients, NEW u \in Users, NEW d \in Docs,
         Ready(c), DocRequest(c, u, d)
  PROVE  TreeInv'
<1>0. /\ TypeOK /\ d \in Nodes /\ d \notin Folders
      /\ Exists(d) => node[d] \in Node
  BY AclAssumption DEF IInv, TypeOK, Nodes, Exists
<1>1. ASSUME NEW p \in Folders \cup {None}, CreateDoc(c, u, d, p)
      PROVE  TreeInv'
  <2>. DEFINE rec == [owner |-> u, parent |-> p, root |-> IF p = None THEN None ELSE RootFor(p),
                      general |-> None, deleted |-> FALSE]
  <2>1. /\ p # None => Exists(p) /\ RootFor(p) \in Folders
        /\ Begin(c, u, "doc", "create", d, p, <<Save(d, rec)>>)
    BY <1>1, RootForIsBirth DEF CreateDoc
  <2>2. rec \in Node /\ rec.parent = p
    BY <2>1 DEF Node
  <2>. HIDE DEF rec
  <2>. QED
    BY <1>0, <2>1, <2>2, DocSaveTree DEF Exists
<1>2. ASSUME NEW p \in Folders \cup {None}, UpdateDoc(c, u, d, p)
      PROVE  TreeInv'
  <2>. DEFINE rec == IF p = None THEN node[d]
                     ELSE [node[d] EXCEPT !.parent = p, !.root = RootFor(p)]
  <2>1. /\ Exists(d)
        /\ p # None => Exists(p) /\ RootFor(p) \in Folders
        /\ Begin(c, u, "doc", "update", d, p, <<Save(d, rec)>>)
    BY <1>2, RootForIsBirth DEF UpdateDoc, Live
  <2>2. rec \in Node /\ rec.parent = IF p = None THEN node[d].parent ELSE p
    BY <1>0, <2>1 DEF Node
  <2>3. SoundTree(node) => rec.parent = None \/ node[rec.parent] # None
    BY <1>0, <2>1, <2>2 DEF SoundTree, Whole, Exists
  <2>. HIDE DEF rec
  <2>. QED
    BY <1>0, <2>1, <2>2, <2>3, DocSaveTree
<1>3. ASSUME NEW general \in Granted \cup {None}, SetDocGeneral(c, u, d, general)
      PROVE  TreeInv'
  <2>. DEFINE rec == [node[d] EXCEPT !.general = general]
  <2>1. Exists(d) /\ Begin(c, u, "doc", "update", d, None, <<Save(d, rec)>>)
    BY <1>3 DEF SetDocGeneral
  <2>2. rec \in Node /\ rec.parent = node[d].parent
    BY <1>0, <2>1, FolderTreeAssumption DEF Node
  <2>3. SoundTree(node) => rec.parent = None \/ node[rec.parent] # None
    BY <1>0, <2>1, <2>2 DEF SoundTree, Whole, Exists
  <2>. HIDE DEF rec
  <2>. QED
    BY <1>0, <2>1, <2>2, <2>3, DocSaveTree
<1>4. ASSUME DeleteDoc(c, u, d) \/ RestoreDoc(c, u, d)
      PROVE  TreeInv'
  <2>1. PICK op \in {"soft", "restore"}, rec \in {node[d], [node[d] EXCEPT !.parent = None]} :
          Begin(c, u, "doc", op, d, None, <<Save(d, Marked(op, rec))>>)
    BY <1>4 DEF DeleteDoc, RestoreDoc, CascadeDoc
  <2>2. Exists(d) /\ node[d] \in Node
    BY <1>0, <1>4 DEF DeleteDoc, RestoreDoc, CanDelete
  <2>. DEFINE marked == Marked(op, rec)
  <2>3. marked \in Node /\ marked.parent \in {None, node[d].parent}
    BY <2>1, <2>2 DEF Marked, Node
  <2>4. SoundTree(node) => marked.parent = None \/ node[marked.parent] # None
    BY <1>0, <2>2, <2>3 DEF SoundTree, Whole, Exists
  <2>5. Begin(c, u, "doc", op, d, None, <<Save(d, marked)>>)
    BY <2>1
  <2>. HIDE DEF marked
  <2>. QED
    BY <1>0, <2>3, <2>4, <2>5, DocSaveTree
<1>5. ASSUME HardDeleteDoc(c, u, d)
      PROVE  TreeInv'
  <2>. DEFINE calls == <<Call("purge", d, None), Call("drop", d, None)>>
  <2>1. Begin(c, u, "doc", "hard", d, None, calls)
    BY <1>0, <1>5 DEF HardDeleteDoc, Cascade, CascadeDoc
  <2>2. Call("purge", d, None) \in DocCalls(node) /\ Call("drop", d, None) \in DocCalls(node)
    BY <1>0 DEF Call, DocCalls, Calls
  <2>3. calls \in Seq(DocCalls(node))
    BY <2>2
  <2>. HIDE DEF calls
  <2>4. Plan(node, "doc", calls)
    BY <2>3 DEF Plan
  <2>. QED
    BY <1>0, <2>1, <2>4, BeginTree DEF Ready
<1>. QED
  BY <1>1, <1>2, <1>3, <1>4, <1>5 DEF DocRequest

\* Requests on access rows.
LEMMA RowRequestTree ==
  ASSUME TypeOK, TreeInv, NEW c \in Clients, NEW u \in Users, NEW e \in Nodes,
         Ready(c), RowRequest(c, u, e)
  PROVE  TreeInv'
<1>1. PICK op \in {"add", "remove"}, v \in Users, right \in Rights \cup {None} :
        Begin(c, u, "row", op, e, None, <<Call("row", e, [user |-> v, right |-> right])>>)
  BY FolderTreeAssumption DEF RowRequest, AddCollaborator, RemoveCollaborator
<1>. DEFINE call == Call("row", e, [user |-> v, right |-> right])
<1>2. call \in RowCalls
  BY DEF Call, RowCalls, Calls
<1>3. Begin(c, u, "row", op, e, None, <<call>>)
  BY <1>1
<1>. HIDE DEF call
<1>4. Plan(node, "row", <<call>>)
  BY <1>2 DEF Plan
<1>. QED
  BY <1>3, <1>4, BeginTree DEF Ready

\* The empty database.
LEMMA InitTree == Init => TreeInv
<1>1. ASSUME Init
      PROVE  Whole(node) /\ Shallow(node, MaxDepth)
  BY <1>1 DEF Init, Whole, Shallow, Nodes
<1>2. ASSUME Init
      PROVE  DOMAIN todo = Clients /\ Apart /\ Planned
  BY <1>2 DEF Init, Apart, Planned, Idle
<1>. QED
  BY <1>1, <1>2 DEF TreeInv, SoundTree

\* The invariant of the tree is inductive.
LEMMA NextTree == IInv /\ TreeInv /\ [Next]_vars => TreeInv'
<1>. SUFFICES ASSUME IInv, TreeInv, [Next]_vars PROVE TreeInv'
  OBVIOUS
<1>0. TypeOK
  BY DEF IInv
<1>1. CASE UNCHANGED vars
  <2>1. (Apart <=> Apart') /\ (Planned <=> Planned')
    BY <1>1 DEF vars, Apart, Planned, Idle
  <2>. QED
    BY <1>1, <2>1 DEF vars, TreeInv
<1>2. ASSUME NEW c \in Clients, NEW u \in Users, Ready(c), NEW f \in Folders,
             FolderRequest(c, u, f)
      PROVE  TreeInv'
  BY <1>0, <1>2, CreateFolderTree, UpdateFolderTree, DeleteFolderTree, RestoreFolderTree
     DEF FolderRequest
<1>3. ASSUME NEW c \in Clients,
             \/ DoSave(c) \/ DoDrop(c) \/ DoRow(c) \/ DoPurge(c) \/ DoFind(c) \/ DoEach(c)
             \/ Fail(c) \/ TooDeep(c)
      PROVE  TreeInv'
  BY <1>0, <1>3, SaveTree, DropTree, RowTree, PurgeTree, FindTree, EachTree, EndTree
<1>. QED
  BY <1>0, <1>1, <1>2, <1>3, DocRequestTree, RowRequestTree DEF Next

\* The types and the tree hold in every state.
LEMMA SpecTree == Spec => [](TypeOK /\ TreeInv)
<1>1. Init => IInv /\ TreeInv
  BY InitIInv, InitTree
<1>2. IInv /\ TreeInv /\ [Next]_vars => (IInv /\ TreeInv)'
  BY NextIInv, NextTree
<1>3. IInv /\ TreeInv => TypeOK /\ TreeInv
  BY DEF IInv
<1>. QED
  BY <1>1, <1>2, <1>3, PTL DEF Spec

\* The invariant says that the tree is sound.
LEMMA TreeIsSound == TypeOK /\ TreeInv => TreeSound
<1>. SUFFICES ASSUME TypeOK, Shallow(node, MaxDepth), Whole(node)
              PROVE  /\ \A f \in Folders : Exists(f) => Ends(f) /\ Height(f) <= MaxDepth
                     /\ \A e \in Nodes :
                          Exists(e) /\ node[e].parent # None => Exists(node[e].parent)
  BY DEF TreeInv, SoundTree, TreeSound
<1>1. \A f \in Folders : Exists(f) => Ends(f) /\ Height(f) <= MaxDepth
  BY HeightWalk
<1>. QED
  BY <1>1 DEF Whole, Exists

\* While no folder request runs beside another one, every chain ends at the top
\* within MAX_FOLDER_DEPTH and names only folders there are, in the middle of a
\* cascade and after one that failed too: for any depth and any number of
\* folders, requests and failures (folder_service.py).
THEOREM TreeSoundHolds == Spec => []TreeSound
BY SpecTree, TreeIsSound, PTL

\* A right that get_base_permission reports on a folder is one that
\* _assert_folder_access grants (acl_service.py, folder_service.py).
THEOREM RightsAgreeHolds == Spec => []RightsAgree
<1>1. TypeOK /\ TreeInv => RightsAgree
  BY TreeIsSound, RightsOnSoundTree DEF TreeSound, ChainsEnd, RightsAgree
<1>. QED
  BY <1>1, SpecTree, PTL

\* What a listing shows a user, the user may open (list_folder_contents and
\* _assert_access of document_service.py).
THEOREM ContentsOpenHolds == Spec => []ContentsOpen
<1>1. TypeOK /\ TreeInv => ContentsOpen
  BY TreeIsSound, OpenOnSoundTree DEF TreeSound, ChainsEnd, ContentsOpen
<1>. QED
  BY <1>1, SpecTree, PTL

\* Whoever get_acl_summary leaves out has no right but what general access gives,
\* on any tree, also one that overlapping moves have turned into a cycle.
THEOREM SummaryCompleteHolds == Spec => []SummaryComplete
<1>1. IInv => TypeOK
  BY DEF IInv
<1>. QED
  BY <1>1, TypedSummary, SpecIInv, PTL
==============================================================================
