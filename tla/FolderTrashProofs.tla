--------------------------- MODULE FolderTrashProofs ---------------------------
(***************************************************************************)
(* Theorems about FolderTree, for every value of its constants: nothing    *)
(* live is left in the trash, a cascade that is through has missed nothing,*)
(* and who deletes the live folders and documents of others.               *)
(*                                                                         *)
(* The idea: the calls a cascade has still to make are a stack.  Each is on*)
(* what is below the one behind it, at most four on one level, so they are *)
(* no more than the depth of the tree allows and Python's recursion limit  *)
(* is not met.  What is left to delete or to restore hangs directly on a   *)
(* folder whose query is pending, or is named by a loop or a save that is  *)
(* pending: with none left, nothing is left.  A soft delete goes down from *)
(* a folder that is deleted and a restore from one that is live, a hard    *)
(* delete takes only what nothing hangs on.                                *)
(*                                                                         *)
(* Who deletes what of others rests on less: the owner of a node never     *)
(* changes, and every pending copy of it tells the same one, also when     *)
(* requests run beside each other.                                         *)
(***************************************************************************)
EXTENDS FolderTreeProofs

-----------------------------------------------------------------------------
(* The calls a cascade has still to make, as a stack.                      *)

\* Node b is on the way up from a, or a itself.
Reaches(nodes, a, b) == \E k \in Nat : Walk(nodes, a, k) = b

\* Both collections have the same nodes in the same places.
SameShape(nodes, next) ==
  \A x \in Nodes : /\ next[x] = None <=> nodes[x] = None
                   /\ nodes[x] # None => next[x].parent = nodes[x].parent

\* What a cascade of a mode calls.
OfMode(mode, call) ==
  /\ call.op \in IF mode = "hard" THEN {"folders", "docs", "each", "purge", "drop"}
                                  ELSE {"save", "folders", "docs", "each"}
  /\ call.op \in {"folders", "docs"} => call.arg = mode
  /\ call.op = "save" => call.arg.deleted = (mode = "soft")
  /\ call.op = "each" => call.arg.mode = mode

\* A loop goes over nodes that are in its folder, each one once.
ChildrenThere(nodes, call) ==
  \A x \in call.arg.left :
    /\ nodes[x.id] # None /\ nodes[x.id].parent = call.id /\ x.copy.parent = call.id
    /\ \A y \in call.arg.left : x.id = y.id => x = y

\* A call is on what is in the folder of the cascade, and leaves it there.
Fitting(nodes, mode, on, call) ==
  /\ OfMode(mode, call)
  /\ nodes[call.id] # None /\ Reaches(nodes, call.id, on)
  /\ call.op = "save" => call.arg.parent = nodes[call.id].parent
  /\ call.op = "each" => ChildrenThere(nodes, call)

\* The order of what is pending on one node.
InOrder(a, b) ==
  /\ a.op # "drop"
  /\ \/ b.op \in {"docs", "purge", "drop"}
     \/ a.op = "save" /\ b.op = "folders"

\* Call a is pending before b: it is further down the tree, and on nothing that
\* b has still to visit.
Before(nodes, a, b) ==
  /\ Reaches(nodes, a.id, b.id)
  /\ a.id = b.id => InOrder(a, b)
  /\ b.op = "each" => \A x \in b.arg.left : x.id # a.id

\* With n calls pending behind one on node e, e is n \div 4 levels down.
Deep(nodes, e, n) == \A k \in Nat : 4 * k <= n => Walk(nodes, e, k) # None

\* All of what is pending is ordered like that.
Stack(nodes, mode, on, s) ==
  /\ \A i \in 1..Len(s) : Fitting(nodes, mode, on, s[i])
  /\ \A i, j \in 1..Len(s) : i < j => Before(nodes, s[i], s[j])
  /\ \A i \in 1..Len(s) : Deep(nodes, s[i].id, Len(s) - i)

\* What may take the place of the first call of a stack.
Pushable(nodes, mode, on, more, s) ==
  /\ \A i \in 1..Len(more) : Fitting(nodes, mode, on, more[i])
  /\ \A i, j \in 1..Len(more) : i < j => Before(nodes, more[i], more[j])
  /\ \A i \in 1..Len(more) : \A j \in 2..Len(s) : Before(nodes, more[i], s[j])
  /\ \A i \in 1..Len(more) : Deep(nodes, more[i].id, Len(more) - i + Len(s) - 1)

\* The calls after one of a request.
LEMMA NextAt ==
  ASSUME NEW S, NEW s \in Seq(S), s # <<>>, NEW more \in Seq(S)
  PROVE  /\ Len(s) \in Nat \ {0} /\ Len(more) \in Nat
         /\ more \o Tail(s) \in Seq(S) /\ Head(s) = s[1]
         /\ Len(more \o Tail(s)) = Len(more) + Len(s) - 1
         /\ \A i \in 1..Len(more) : (more \o Tail(s))[i] = more[i]
         /\ \A j \in 2..Len(s) : (more \o Tail(s))[Len(more) + j - 1] = s[j]
         /\ \A i \in 1..Len(more \o Tail(s)) :
              i \in 1..Len(more) \/ \E j \in 2..Len(s) : i = Len(more) + j - 1
<1>1. /\ Tail(s) \in Seq(S) /\ Len(Tail(s)) = Len(s) - 1 /\ Len(s) \in Nat \ {0}
      /\ Len(more) \in Nat
      /\ \A i \in 1..Len(Tail(s)) : Tail(s)[i] = s[i + 1]
  BY HeadTailProperties
<1>. DEFINE t == Tail(s)
<1>2. /\ more \o t \in Seq(S) /\ Len(more \o t) = Len(more) + Len(t)
      /\ \A i \in 1..(Len(more) + Len(t)) :
           (more \o t)[i] = IF i <= Len(more) THEN more[i] ELSE t[i - Len(more)]
  BY <1>1, ConcatProperties
<1>. HIDE DEF t
<1>3. ASSUME NEW j \in 2..Len(s)
      PROVE  (more \o t)[Len(more) + j - 1] = s[j]
  <2>1. /\ Len(more) + j - 1 \in 1..(Len(more) + Len(t)) /\ ~ (Len(more) + j - 1 <= Len(more))
        /\ (Len(more) + j - 1) - Len(more) = j - 1 /\ j - 1 \in 1..Len(t)
    BY <1>1 DEF t
  <2>2. (more \o t)[Len(more) + j - 1] = t[j - 1]
    BY <1>2, <2>1
  <2>3. t[j - 1] = s[(j - 1) + 1]
    BY <1>1, <2>1 DEF t
  <2>. QED
    BY <2>2, <2>3
<1>4. \A i \in 1..Len(more) : (more \o t)[i] = more[i]
  BY <1>1, <1>2 DEF t
<1>5. ASSUME NEW i \in 1..Len(more \o t)
      PROVE  i \in 1..Len(more) \/ \E j \in 2..Len(s) : i = Len(more) + j - 1
  <2>1. CASE i > Len(more)
    <3>1. i - Len(more) + 1 \in 2..Len(s) /\ i = Len(more) + (i - Len(more) + 1) - 1
      BY <1>1, <1>2, <2>1 DEF t
    <3>. QED
      BY <3>1
  <2>. QED
    BY <1>1, <2>1
<1>. QED
  BY <1>1, <1>2, <1>3, <1>4, <1>5 DEF t

\* Saves that leave nodes where they are leave every walk as it was.
LEMMA ShapeWalk ==
  ASSUME NEW nodes \in Tree, NEW next, SameShape(nodes, next), NEW e \in Nodes
  PROVE  \A n \in Nat : Walk(next, e, n) = Walk(nodes, e, n)
<1>1. ASSUME NEW x \in Nodes \cup {None}
      PROVE  NextUp(next, x) = NextUp(nodes, x)
  BY <1>1 DEF NextUp, SameShape
<1>2. \A k \in Nat : Walk(nodes, e, k) \in Nodes \cup {None}
  BY WalkType
<1>. QED
  BY <1>1, <1>2, WalkSame

\* So what is below a node stays below it.
LEMMA ShapeReaches ==
  ASSUME NEW nodes \in Tree, NEW next, SameShape(nodes, next), NEW a \in Nodes, NEW b
  PROVE  Reaches(next, a, b) <=> Reaches(nodes, a, b)
BY ShapeWalk DEF Reaches

\* The way up, and from there.
LEMMA ReachesOn ==
  ASSUME NEW nodes, NEW a, NEW b, NEW c, Reaches(nodes, a, b), Reaches(nodes, b, c)
  PROVE  Reaches(nodes, a, c)
<1>1. PICK i \in Nat : Walk(nodes, a, i) = b
  BY DEF Reaches
<1>2. PICK k \in Nat : Walk(nodes, b, k) = c
  BY DEF Reaches
<1>3. Walk(nodes, a, i + k) = c
  BY <1>1, <1>2, WalkOn
<1>. QED
  BY <1>3 DEF Reaches

\* A node reaches itself.
LEMMA ReachesSelf == \A nodes, a : Reaches(nodes, a, a)
BY WalkSteps DEF Reaches

\* A node is below its folder, and the way up from it goes through there.
LEMMA ReachesParent ==
  ASSUME NEW nodes, NEW e, e # None, nodes[e] # None
  PROVE  /\ Reaches(nodes, e, nodes[e].parent)
         /\ \A b : Reaches(nodes, e, b) => b = e \/ Reaches(nodes, nodes[e].parent, b)
         /\ \A b : Reaches(nodes, nodes[e].parent, b) => Reaches(nodes, e, b)
<1>1. \A n \in Nat : Walk(nodes, e, n + 1) = Walk(nodes, nodes[e].parent, n)
  BY WalkFromParent
<1>2. Walk(nodes, nodes[e].parent, 0) = nodes[e].parent /\ Walk(nodes, e, 0) = e
  BY WalkSteps
<1>3. Reaches(nodes, e, nodes[e].parent)
  BY <1>1, <1>2 DEF Reaches
<1>4. ASSUME NEW b, Reaches(nodes, e, b), b # e
      PROVE  Reaches(nodes, nodes[e].parent, b)
  <2>1. PICK k \in Nat : Walk(nodes, e, k) = b
    BY <1>4 DEF Reaches
  <2>2. k # 0 /\ k - 1 \in Nat /\ (k - 1) + 1 = k
    BY <1>2, <1>4, <2>1
  <2>3. Walk(nodes, nodes[e].parent, k - 1) = b
    BY <1>1, <2>1, <2>2
  <2>. QED
    BY <2>2, <2>3 DEF Reaches
<1>. QED
  BY <1>3, <1>4, ReachesOn

\* Nothing is below itself.
LEMMA NoReturn ==
  ASSUME NEW nodes \in Tree, SoundTree(nodes), NEW e \in Nodes, nodes[e] # None
  PROVE  ~Reaches(nodes, nodes[e].parent, e)
<1>. SUFFICES ASSUME NEW k \in Nat, Walk(nodes, nodes[e].parent, k) = e
              PROVE  FALSE
  BY DEF Reaches
<1>0. e # None
  BY AclAssumption DEF Nodes
<1>1. nodes[e].parent \in Folders \cup {None}
  BY DEF Tree, Node
<1>2. e \in Folders
  <2>1. nodes[e].parent \in Nodes \cup {None} /\ nodes[e].parent \notin Docs
    BY <1>1, AclAssumption DEF Nodes
  <2>2. Walk(nodes, nodes[e].parent, k) \in Folders \cup {None}
    BY <2>1, WalkType
  <2>. QED
    BY <1>0, <2>2
<1>3. Walk(nodes, e, MaxDepth) = None /\ MaxDepth \in Nat
  BY <1>2, FolderTreeAssumption DEF SoundTree, Shallow
<1>4. Walk(nodes, e, k + 1) = e /\ Walk(nodes, e, 0) = e /\ 0 < k + 1
  BY <1>0, WalkFromParent, WalkSteps
<1>5. Walk(nodes, e, 0) = None
  BY <1>3, <1>4, WalkApart
<1>. QED
  BY <1>0, <1>4, <1>5

\* What a stack says of its calls stays true while nodes stay where they are.
LEMMA StackStays ==
  ASSUME NEW nodes \in Tree, NEW next, SameShape(nodes, next),
         NEW mode, NEW on, NEW s \in Seq(Calls), Stack(nodes, mode, on, s)
  PROVE  Stack(next, mode, on, s)
<1>1. \A i \in 1..Len(s) : s[i] \in Calls /\ s[i].id \in Nodes
  BY DEF Calls, Nodes
<1>2. ASSUME NEW i \in 1..Len(s)
      PROVE  Fitting(next, mode, on, s[i])
  <2>1. Fitting(nodes, mode, on, s[i]) /\ s[i].id \in Nodes /\ s[i] \in Calls
    BY <1>1 DEF Stack
  <2>2. Reaches(next, s[i].id, on) /\ next[s[i].id] # None
        /\ next[s[i].id].parent = nodes[s[i].id].parent
    BY <2>1, ShapeReaches DEF Fitting, SameShape
  <2>3. s[i].op = "each" => ChildrenThere(next, s[i])
    <3>1. s[i].op = "each" => \A x \in s[i].arg.left : x.id \in Nodes
      BY <2>1 DEF Calls
    <3>. QED
      BY <2>1, <3>1 DEF Fitting, ChildrenThere, SameShape
  <2>. QED
    BY <2>1, <2>2, <2>3 DEF Fitting
<1>3. ASSUME NEW i \in 1..Len(s), NEW j \in 1..Len(s), i < j
      PROVE  Before(next, s[i], s[j])
  <2>1. Before(nodes, s[i], s[j])
    BY <1>3 DEF Stack
  <2>2. Reaches(next, s[i].id, s[j].id)
    BY <1>1, <2>1, ShapeReaches DEF Before
  <2>. QED
    BY <2>1, <2>2 DEF Before
<1>4. ASSUME NEW i \in 1..Len(s)
      PROVE  Deep(next, s[i].id, Len(s) - i)
  <2>1. Deep(nodes, s[i].id, Len(s) - i)
    BY DEF Stack
  <2>. QED
    BY <1>1, <2>1, ShapeWalk DEF Deep
<1>. QED
  BY <1>2, <1>3, <1>4 DEF Stack

\* The first call of a stack is over, and others take its place.
LEMMA StackPush ==
  ASSUME NEW nodes, NEW mode, NEW on, NEW s \in Seq(Calls), s # <<>>,
         Stack(nodes, mode, on, s), NEW more \in Seq(Calls),
         Pushable(nodes, mode, on, more, s)
  PROVE  Stack(nodes, mode, on, more \o Tail(s))
<1>. DEFINE m == Len(more)
            n == Len(s)
            z == more \o Tail(s)
<1>1. /\ n \in Nat \ {0} /\ m \in Nat /\ Len(z) = m + n - 1
      /\ \A i \in 1..m : z[i] = more[i]
      /\ \A j \in 2..n : z[m + j - 1] = s[j]
  BY NextAt
<1>2. \A i \in 1..Len(z) : i \in 1..m \/ \E j \in 2..n : i = m + j - 1
  BY NextAt
<1>3. \A i \in 1..m : Deep(nodes, more[i].id, m - i + n - 1)
  BY DEF Pushable
<1>4. \A j \in 2..n : Deep(nodes, s[j].id, n - j)
  BY DEF Stack
<1>. HIDE DEF m, n, z
<1>5. ASSUME NEW i \in 1..Len(z)
      PROVE  Fitting(nodes, mode, on, z[i]) /\ Deep(nodes, z[i].id, Len(z) - i)
  <2>1. CASE i \in 1..m
    <3>1. z[i] = more[i] /\ Len(z) - i = m - i + n - 1
      BY <1>1, <2>1
    <3>. QED
      BY <1>3, <2>1, <3>1 DEF Pushable, m
  <2>2. ASSUME NEW j \in 2..n, i = m + j - 1
        PROVE  Fitting(nodes, mode, on, z[i]) /\ Deep(nodes, z[i].id, Len(z) - i)
    <3>1. z[i] = s[j] /\ Len(z) - i = n - j /\ j \in 1..Len(s)
      BY <1>1, <2>2 DEF n
    <3>2. Fitting(nodes, mode, on, s[j])
      BY <3>1 DEF Stack
    <3>. QED
      BY <1>4, <3>1, <3>2
  <2>. QED
    BY <1>2, <2>1, <2>2
<1>6. ASSUME NEW i \in 1..Len(z), NEW j \in 1..Len(z), i < j
      PROVE  Before(nodes, z[i], z[j])
  <2>1. CASE i \in 1..m /\ j \in 1..m
    BY <1>1, <1>6, <2>1 DEF Pushable, m
  <2>2. ASSUME NEW l \in 2..n, i \in 1..m, j = m + l - 1
        PROVE  Before(nodes, z[i], z[j])
    <3>1. z[i] = more[i] /\ z[j] = s[l]
      BY <1>1, <2>2
    <3>2. Before(nodes, more[i], s[l])
      BY <2>2 DEF Pushable, m, n
    <3>. QED
      BY <3>1, <3>2
  <2>3. ASSUME NEW k \in 2..n, NEW l \in 2..n, i = m + k - 1, j = m + l - 1
        PROVE  Before(nodes, z[i], z[j])
    <3>1. z[i] = s[k] /\ z[j] = s[l] /\ k < l /\ k \in 1..Len(s) /\ l \in 1..Len(s)
      BY <1>1, <1>6, <2>3 DEF n
    <3>. QED
      BY <3>1 DEF Stack
  <2>4. CASE j \in 1..m
    <3>1. i \in 1..m
      BY <1>1, <1>6, <2>4
    <3>. QED
      BY <2>1, <2>4, <3>1
  <2>5. CASE i \in 1..m /\ \E l \in 2..n : j = m + l - 1
    BY <2>2, <2>5
  <2>6. CASE (\E k \in 2..n : i = m + k - 1) /\ (\E l \in 2..n : j = m + l - 1)
    BY <2>3, <2>6
  <2>. QED
    BY <1>2, <2>4, <2>5, <2>6
<1>. QED
  BY <1>5, <1>6 DEF Stack, z

\* Its first call is over.
LEMMA StackPop ==
  ASSUME NEW nodes, NEW mode, NEW on, NEW s \in Seq(Calls), s # <<>>,
         Stack(nodes, mode, on, s)
  PROVE  Stack(nodes, mode, on, <<>> \o Tail(s))
<1>1. <<>> \in Seq(Calls) /\ Len(<<>>) = 0
  OBVIOUS
<1>2. Pushable(nodes, mode, on, <<>>, s)
  BY DEF Pushable
<1>. QED
  BY <1>1, <1>2, StackPush

\* A cascade of a tree that is no deeper than it may be is not too deep.
LEMMA StackShort ==
  ASSUME NEW nodes \in Tree, SoundTree(nodes), NEW mode, NEW on, NEW s \in Seq(Calls),
         s # <<>>, Stack(nodes, mode, on, s)
  PROVE  Len(s) <= 4 * MaxDepth + 5
<1>1. Len(s) \in Nat \ {0} /\ MaxDepth \in Nat \ {0} /\ 1 \in 1..Len(s)
  BY FolderTreeAssumption, HeadTailProperties
<1>2. s[1] \in Calls /\ s[1].id \in Nodes
  BY <1>1 DEF Calls, Nodes
<1>3. Deep(nodes, s[1].id, Len(s) - 1) /\ nodes[s[1].id] # None
  BY <1>1 DEF Stack, Fitting
<1>4. Walk(nodes, s[1].id, MaxDepth + 1) = None
  <2>1. CASE s[1].id \in Folders
    <3>1. Walk(nodes, s[1].id, MaxDepth) = None
      BY <1>3, <2>1 DEF SoundTree, Shallow
    <3>. QED
      BY <1>1, <3>1, WalkOver
  <2>2. CASE s[1].id \notin Folders
    <3>1. s[1].id # None
      BY <1>2, AclAssumption DEF Nodes
    <3>2. /\ nodes[s[1].id].parent \in Folders \cup {None}
          /\ nodes[s[1].id].parent # None => nodes[nodes[s[1].id].parent] # None
      BY <1>2, <1>3 DEF Tree, Node, SoundTree, Whole
    <3>3. Walk(nodes, nodes[s[1].id].parent, MaxDepth) = None
      <4>1. CASE nodes[s[1].id].parent = None
        <5>1. Walk(nodes, nodes[s[1].id].parent, 0) = None
          BY <4>1, WalkSteps
        <5>. QED
          BY <1>1, <5>1, WalkOver
      <4>. QED
        BY <3>2, <4>1 DEF SoundTree, Shallow
    <3>. QED
      BY <1>1, <1>3, <3>1, <3>3, WalkFromParent
  <2>. QED
    BY <2>1, <2>2
<1>5. ~ (4 * (MaxDepth + 1) <= Len(s) - 1)
  BY <1>1, <1>3, <1>4 DEF Deep
<1>. QED
  BY <1>1, <1>5

\* A walk that avoids the node that has changed stays as it was.
LEMMA AvoidWalk ==
  ASSUME NEW nodes \in Tree, NEW next, NEW e, NEW a \in Nodes, ~Reaches(nodes, a, e),
         \A x \in Nodes : x # e => next[x] = nodes[x]
  PROVE  \A k \in Nat : Walk(next, a, k) = Walk(nodes, a, k)
<1>1. \A k \in Nat : Walk(nodes, a, k) \in Nodes \cup {None} /\ Walk(nodes, a, k) # e
  BY WalkType DEF Reaches
<1>2. \A x \in Nodes \cup {None} : x # e => NextUp(next, x) = NextUp(nodes, x)
  BY DEF NextUp
<1>3. \A k \in Nat : NextUp(next, Walk(nodes, a, k)) = NextUp(nodes, Walk(nodes, a, k))
  BY <1>1, <1>2
<1>. QED
  BY <1>3, WalkSame

\* What is above a dropped node keeps its way up.
LEMMA StackDrop ==
  ASSUME NEW nodes \in Tree, SoundTree(nodes), NEW on \in Nodes, NEW s \in Seq(Calls),
         s # <<>>, Stack(nodes, "hard", on, s), Head(s).op = "drop",
         NEW next, \A x \in Nodes : x # Head(s).id => next[x] = nodes[x]
  PROVE  Stack(next, "hard", on, <<>> \o Tail(s))
<1>. DEFINE e == Head(s).id
            t == <<>> \o Tail(s)
            n == Len(s)
<1>0. <<>> \in Seq(Calls) /\ Len(<<>>) = 0
  OBVIOUS
<1>1. /\ n \in Nat \ {0} /\ Head(s) = s[1] /\ e = s[1].id /\ Len(t) = n - 1
      /\ \A j \in 2..n : t[j - 1] = s[j]
  <2>1. Len(<<>> \o Tail(s)) = Len(<<>>) + Len(s) - 1
    BY <1>0, NextAt
  <2>2. \A j \in 2..Len(s) : (<<>> \o Tail(s))[Len(<<>>) + j - 1] = s[j]
    BY <1>0, NextAt
  <2>3. \A j \in 2..n : Len(<<>>) + j - 1 = j - 1
    BY <1>0
  <2>. QED
    BY <1>0, <2>1, <2>2, <2>3, HeadTailProperties
<1>2. \A i \in 1..n : s[i] \in Calls /\ s[i].id \in Nodes
  BY DEF Calls, Nodes
<1>3. e \in Nodes /\ nodes[e] # None /\ e # None
  BY <1>1, <1>2, AclAssumption DEF Stack, Fitting, Nodes
<1>4. \A j \in 2..n : Before(nodes, s[1], s[j])
  BY <1>1 DEF Stack
<1>5. \A x \in Nodes : x # e => next[x] = nodes[x]
  OBVIOUS
<1>6. s[1].op = "drop"
  BY <1>1
<1>. HIDE DEF t, n, e
<1>7. ASSUME NEW j \in 2..n
      PROVE  /\ s[j].id # e /\ nodes[s[j].id] # None
             /\ \A k \in Nat : Walk(next, s[j].id, k) = Walk(nodes, s[j].id, k)
  <2>1. Reaches(nodes, e, s[j].id) /\ s[j].id # e
    BY <1>1, <1>4, <1>6 DEF Before, InOrder
  <2>2. Reaches(nodes, nodes[e].parent, s[j].id)
    BY <1>3, <2>1, ReachesParent
  <2>3. ~Reaches(nodes, nodes[e].parent, e)
    BY <1>3, NoReturn
  <2>4. ~Reaches(nodes, s[j].id, e)
    BY <2>2, <2>3, ReachesOn
  <2>5. s[j].id \in Nodes /\ j \in 1..n
    BY <1>1, <1>2
  <2>8. \A k \in Nat : Walk(next, s[j].id, k) = Walk(nodes, s[j].id, k)
    <3>1. \A a \in Nodes : ~Reaches(nodes, a, e) =>
            \A k \in Nat : Walk(next, a, k) = Walk(nodes, a, k)
      BY <1>5, AvoidWalk
    <3>. QED
      BY <2>4, <2>5, <3>1
  <2>9. nodes[s[j].id] # None
    BY <2>5 DEF Stack, Fitting, n
  <2>. QED
    BY <2>1, <2>8, <2>9
<1>8. ASSUME NEW j \in 2..n
      PROVE  Fitting(next, "hard", on, s[j]) /\ Deep(next, s[j].id, n - j)
  <2>1. j \in 1..n /\ s[j] \in Calls /\ s[j].id \in Nodes
    BY <1>1, <1>2
  <2>2. Fitting(nodes, "hard", on, s[j]) /\ Deep(nodes, s[j].id, n - j)
    BY <2>1 DEF Stack, n
  <2>3. Reaches(next, s[j].id, on)
    BY <1>7, <2>2 DEF Fitting, Reaches
  <2>4. Deep(next, s[j].id, n - j)
    BY <1>7, <2>2 DEF Deep
  <2>5. s[j].op = "each" => ChildrenThere(next, s[j])
    <3>1. SUFFICES ASSUME s[j].op = "each"
                   PROVE  ChildrenThere(next, s[j])
      OBVIOUS
    <3>2. ChildrenThere(nodes, s[j]) /\ \A x \in s[j].arg.left : x.id # e
      BY <1>1, <1>4, <2>2, <3>1 DEF Fitting, Before
    <3>3. \A x \in s[j].arg.left : x.id \in Nodes
      BY <2>1, <3>1 DEF Calls
    <3>. QED
      BY <1>5, <3>2, <3>3 DEF ChildrenThere
  <2>6. next[s[j].id] = nodes[s[j].id]
    BY <1>5, <1>7, <2>1
  <2>. QED
    BY <2>2, <2>3, <2>4, <2>5, <2>6 DEF Fitting
<1>9. ASSUME NEW i \in 2..n, NEW j \in 2..n, i < j
      PROVE  Before(next, s[i], s[j])
  <2>1. Before(nodes, s[i], s[j])
    BY <1>1, <1>9 DEF Stack, n
  <2>2. Reaches(next, s[i].id, s[j].id)
    BY <1>7, <2>1 DEF Before, Reaches
  <2>. QED
    BY <2>1, <2>2 DEF Before
<1>10. ASSUME NEW i \in 1..Len(t)
      PROVE  i + 1 \in 2..n /\ t[i] = s[i + 1] /\ Len(t) - i = n - (i + 1)
  <2>1. i + 1 \in 2..n /\ (i + 1) - 1 = i /\ Len(t) - i = n - (i + 1)
    BY <1>1
  <2>. QED
    BY <1>1, <2>1
<1>11. \A i \in 1..Len(t) : Fitting(next, "hard", on, t[i]) /\ Deep(next, t[i].id, Len(t) - i)
  BY <1>8, <1>10
<1>12. ASSUME NEW i \in 1..Len(t), NEW j \in 1..Len(t), i < j
       PROVE  Before(next, t[i], t[j])
  <2>1. i + 1 < j + 1
    BY <1>1, <1>12
  <2>. QED
    BY <1>9, <1>10, <2>1
<1>. QED
  BY <1>11, <1>12 DEF Stack, t

\* The calls of one node, in their order.
OnNode(nodes, mode, on, e, s) ==
  /\ Len(s) <= 4
  /\ \A i \in 1..Len(s) : s[i].id = e /\ s[i].op # "each" /\ Fitting(nodes, mode, on, s[i])
  /\ \A i, j \in 1..Len(s) : i < j => InOrder(s[i], s[j])

\* A cascade that begins.
LEMMA FirstStack ==
  ASSUME NEW nodes, NEW mode, NEW on, on # None, NEW s \in Seq(Calls),
         OnNode(nodes, mode, on, on, s)
  PROVE  Stack(nodes, mode, on, s)
<1>1. Len(s) \in Nat
  OBVIOUS
<1>2. ASSUME NEW i \in 1..Len(s)
      PROVE  Deep(nodes, s[i].id, Len(s) - i)
  <2>1. Len(s) - i <= 3 /\ s[i].id = on
    BY <1>1 DEF OnNode
  <2>2. ASSUME NEW k \in Nat, 4 * k <= Len(s) - i
        PROVE  Walk(nodes, on, k) # None
    <3>1. k = 0
      BY <1>1, <2>1, <2>2
    <3>. QED
      BY <3>1, WalkSteps
  <2>. QED
    BY <2>1, <2>2 DEF Deep
<1>3. \A i, j \in 1..Len(s) : i < j => Before(nodes, s[i], s[j])
  BY ReachesSelf DEF OnNode, Before
<1>. QED
  BY <1>2, <1>3 DEF Stack, OnNode

\* A query is over, and a loop over what it found takes its place.
LEMMA QueryPush ==
  ASSUME NEW nodes, NEW mode, NEW on, NEW s \in Seq(Calls), s # <<>>,
         Stack(nodes, mode, on, s), Head(s).op \in {"folders", "docs"},
         NEW call \in Calls, call.op = "each", call.id = Head(s).id, call.arg.mode = mode,
         ChildrenThere(nodes, call)
  PROVE  Stack(nodes, mode, on, <<call>> \o Tail(s))
<1>1. Len(s) \in Nat \ {0} /\ Head(s) = s[1] /\ 1 \in 1..Len(s)
  BY HeadTailProperties
<1>. DEFINE more == <<call>>
<1>2. more \in Seq(Calls) /\ Len(more) = 1 /\ more[1] = call
  OBVIOUS
<1>. HIDE DEF more
<1>3. Fitting(nodes, mode, on, s[1]) /\ Deep(nodes, s[1].id, Len(s) - 1)
  BY <1>1 DEF Stack
<1>4. Fitting(nodes, mode, on, call)
  BY <1>1, <1>3 DEF Fitting, OfMode
<1>5. ASSUME NEW j \in 2..Len(s)
      PROVE  Before(nodes, call, s[j])
  <2>1. Before(nodes, s[1], s[j])
    BY <1>1 DEF Stack
  <2>2. call.id = s[j].id => InOrder(call, s[j])
    BY <1>1, <2>1 DEF Before, InOrder
  <2>. QED
    BY <1>1, <2>1, <2>2 DEF Before
<1>6. Len(more) - 1 + Len(s) - 1 = Len(s) - 1
  BY <1>1, <1>2
<1>7. \A i, j \in 1..Len(more) : ~ (i < j)
  BY <1>2
<1>8. \A i \in 1..Len(more) : i = 1
  BY <1>2
<1>9. Pushable(nodes, mode, on, more, s)
  BY <1>1, <1>2, <1>3, <1>4, <1>5, <1>6, <1>7, <1>8 DEF Pushable
<1>. QED
  BY <1>2, <1>9, StackPush DEF more

\* A loop visits one of its nodes: calls on it, and the rest of the loop.
LEMMA VisitPush ==
  ASSUME NEW nodes \in Tree, SoundTree(nodes), NEW mode, NEW on, NEW s \in Seq(Calls),
         s # <<>>, Stack(nodes, mode, on, s), Head(s).op = "each",
         NEW child \in Head(s).arg.left, NEW a \in Seq(Calls),
         OnNode(nodes, mode, on, child.id, a),
         NEW b \in Seq(Calls),
         b = <<>> \/ b = <<Each(Head(s).id, mode, Head(s).arg.left \ {child})>>
  PROVE  Stack(nodes, mode, on, (a \o b) \o Tail(s))
<1>. DEFINE x == child.id
            p == Head(s).id
            n == Len(s)
            rest == Each(p, mode, Head(s).arg.left \ {child})
<1>1. n \in Nat \ {0} /\ Head(s) = s[1] /\ 1 \in 1..Len(s) /\ s[1] \in Calls
  BY HeadTailProperties
<1>2. /\ Fitting(nodes, mode, on, s[1]) /\ Deep(nodes, s[1].id, Len(s) - 1)
      /\ \A j \in 2..Len(s) : Before(nodes, s[1], s[j])
  BY <1>1 DEF Stack
<1>3. /\ x \in Nodes /\ nodes[x] # None /\ nodes[x].parent = p /\ x # None
      /\ p \in Folders /\ p # None
  BY <1>1, <1>2, AclAssumption DEF Fitting, ChildrenThere, Calls, Nodes
<1>4. Reaches(nodes, x, p) /\ ~Reaches(nodes, p, x) /\ x # p
  BY <1>3, ReachesParent, NoReturn, ReachesSelf
<1>5. /\ rest.op = "each" /\ rest.id = p /\ rest.arg.mode = mode
      /\ rest.arg.left = Head(s).arg.left \ {child}
  BY DEF Each, Call
<1>6. /\ Fitting(nodes, mode, on, rest)
      /\ \A y \in rest.arg.left : y.id # x
  <2>1. ChildrenThere(nodes, s[1]) /\ Reaches(nodes, p, on) /\ nodes[p] # None
    BY <1>1, <1>2 DEF Fitting
  <2>2. ChildrenThere(nodes, rest)
    BY <1>1, <1>5, <2>1 DEF ChildrenThere
  <2>3. \A y \in rest.arg.left : y.id # x
    BY <1>1, <1>5, <2>1 DEF ChildrenThere
  <2>4. OfMode(mode, rest)
    BY <1>5 DEF OfMode
  <2>. QED
    BY <1>5, <2>1, <2>2, <2>3, <2>4 DEF Fitting
<1>. HIDE DEF rest, x, p, n
<1>7. ASSUME NEW call, call.id = x, NEW j \in 2..Len(s)
      PROVE  Before(nodes, call, s[j])
  <2>1. Before(nodes, s[1], s[j]) /\ j \in 1..Len(s) /\ s[1].id = p
    BY <1>1, <1>2 DEF p
  <2>2. Reaches(nodes, x, s[j].id)
    BY <1>4, <2>1, ReachesOn DEF Before
  <2>3. s[j].id # x
    BY <1>4, <2>1 DEF Before
  <2>4. ASSUME s[j].op = "each", NEW y \in s[j].arg.left, y.id = x
        PROVE  FALSE
    <3>1. nodes[y.id].parent = s[j].id
      BY <2>1, <2>4 DEF Stack, Fitting, ChildrenThere
    <3>2. s[j].id = s[1].id
      BY <1>3, <2>1, <2>4, <3>1
    <3>3. InOrder(s[1], s[j])
      BY <2>1, <3>2 DEF Before
    <3>. QED
      BY <2>4, <3>3 DEF InOrder
  <2>. QED
    BY <1>7, <2>2, <2>3, <2>4 DEF Before
<1>8. ASSUME NEW j \in 2..Len(s)
      PROVE  Before(nodes, rest, s[j])
  <2>1. Before(nodes, s[1], s[j]) /\ s[1].id = p
    BY <1>1, <1>2 DEF p
  <2>2. rest.id = s[j].id => InOrder(rest, s[j])
    <3>1. s[1].op = "each"
      BY <1>1
    <3>. QED
      BY <1>5, <2>1, <3>1 DEF Before, InOrder
  <2>. QED
    BY <1>5, <2>1, <2>2 DEF Before
<1>9. ASSUME NEW call, call.id = x
      PROVE  Before(nodes, call, rest)
  BY <1>4, <1>5, <1>6, <1>9 DEF Before
<1>10. ASSUME NEW m \in Nat, m <= n + 3
       PROVE  Deep(nodes, x, m)
  <2>1. ASSUME NEW k \in Nat, 4 * k <= m
        PROVE  Walk(nodes, x, k) # None
    <3>1. CASE k = 0
      BY <1>3, <3>1, WalkSteps
    <3>2. CASE k # 0
      <4>1. k - 1 \in Nat /\ (k - 1) + 1 = k /\ 4 * (k - 1) <= n - 1
        BY <1>1, <1>10, <2>1, <3>2
      <4>2. Walk(nodes, p, k - 1) # None
        BY <1>1, <1>2, <4>1 DEF Deep, p, n
      <4>. QED
        BY <1>3, <4>1, <4>2, WalkFromParent
    <3>. QED
      BY <3>1, <3>2
  <2>. QED
    BY <2>1 DEF Deep
<1>11. Deep(nodes, p, n - 1)
  BY <1>1, <1>2 DEF p, n
<1>. DEFINE more == a \o b
            m == Len(more)
<1>12. /\ Len(a) \in Nat /\ Len(a) <= 4 /\ more \in Seq(Calls) /\ m \in Nat
       /\ \A i \in 1..Len(a) : more[i] = a[i]
       /\ m = Len(a) \/ (m = Len(a) + 1 /\ more[m] = rest)
  <2>1. Len(a) <= 4 /\ Len(a) \in Nat
    BY DEF OnNode
  <2>2. CASE b = <<>>
    <3>1. more = a
      BY <2>2, ConcatEmptySeq
    <3>. QED
      BY <2>1, <3>1
  <2>3. CASE b = <<rest>>
    <3>1. Len(b) = 1 /\ b[1] = rest
      BY <2>3
    <3>2. /\ more \in Seq(Calls) /\ Len(more) = Len(a) + Len(b)
          /\ \A i \in 1..(Len(a) + Len(b)) :
               more[i] = IF i <= Len(a) THEN a[i] ELSE b[i - Len(a)]
      BY ConcatProperties
    <3>3. more[Len(a) + 1] = b[1]
      BY <2>1, <3>1, <3>2
    <3>. QED
      BY <2>1, <3>1, <3>2, <3>3
  <2>. QED
    BY <2>2, <2>3 DEF rest, p
<1>. HIDE DEF more, m
<1>13. ASSUME NEW i \in 1..m
       PROVE  i \in 1..Len(a) \/ (i = m /\ m = Len(a) + 1 /\ more[i] = rest)
  BY <1>12
<1>14. \A i \in 1..Len(a) : a[i].id = x /\ a[i].op # "each" /\ Fitting(nodes, mode, on, a[i])
  BY DEF OnNode, x
<1>15. ASSUME NEW i \in 1..m
       PROVE  /\ Fitting(nodes, mode, on, more[i])
              /\ \A j \in 2..Len(s) : Before(nodes, more[i], s[j])
              /\ Deep(nodes, more[i].id, m - i + Len(s) - 1)
  <2>1. CASE i \in 1..Len(a)
    <3>1. m - i + Len(s) - 1 \in Nat /\ m - i + Len(s) - 1 <= n + 3
      BY <1>1, <1>12, <2>1 DEF n
    <3>. QED
      BY <1>7, <1>10, <1>12, <1>14, <2>1, <3>1
  <2>2. CASE i = m /\ m = Len(a) + 1 /\ more[i] = rest
    <3>1. m - i + Len(s) - 1 = n - 1
      BY <1>1, <1>12, <2>2 DEF n
    <3>. QED
      BY <1>5, <1>6, <1>8, <1>11, <2>2, <3>1
  <2>. QED
    BY <1>13, <2>1, <2>2
<1>16. ASSUME NEW i \in 1..m, NEW j \in 1..m, i < j
       PROVE  Before(nodes, more[i], more[j])
  <2>1. i \in 1..Len(a)
    BY <1>12, <1>13, <1>16
  <2>2. CASE j \in 1..Len(a)
    <3>1. InOrder(a[i], a[j]) /\ a[i].id = a[j].id /\ a[j].op # "each"
      BY <1>14, <1>16, <2>1, <2>2 DEF OnNode
    <3>2. Before(nodes, a[i], a[j])
      BY <3>1, ReachesSelf DEF Before
    <3>. QED
      BY <1>12, <2>1, <2>2, <3>2
  <2>3. CASE more[j] = rest
    BY <1>9, <1>12, <1>14, <2>1, <2>3
  <2>. QED
    BY <1>13, <2>2, <2>3
<1>17. Pushable(nodes, mode, on, more, s)
  BY <1>15, <1>16 DEF Pushable, m
<1>. QED
  BY <1>12, <1>17, StackPush DEF more

-----------------------------------------------------------------------------
(* What is in the trash, and what a cascade has still to reach.            *)

\* Node e is there and not deleted.
LiveIn(nodes, e) == nodes[e] # None /\ ~nodes[e].deleted

\* p is the top, or a live folder.
Hung(nodes, p) == p = None \/ LiveIn(nodes, p)

\* Nothing live is in a deleted folder.
NoneBuried(nodes) == \A x \in Nodes : LiveIn(nodes, x) => Hung(nodes, nodes[x].parent)

\* A soft delete has still to reach what is live in a deleted folder; a restore
\* what is deleted in a live folder, below the one that is restored.
Due(nodes, mode, on, x) ==
  IF mode = "soft"
  THEN LiveIn(nodes, x) /\ ~Hung(nodes, nodes[x].parent)
  ELSE /\ nodes[x] # None /\ nodes[x].deleted /\ nodes[x].parent # None
       /\ LiveIn(nodes, nodes[x].parent) /\ Reaches(nodes, nodes[x].parent, on)

\* A pending call on x, or one that leads to it.
Leads(nodes, call, x) == (call.op = "save" /\ call.id = x) \/ Handles(nodes, call, x)

\* The children of a folder are looked for once it is saved.
Followed(mode, s) ==
  \A i \in 1..Len(s) : s[i].op = "save" /\ s[i].id \in Folders =>
    /\ \E j \in 1..Len(s) : s[j] = Call("folders", s[i].id, mode)
    /\ \E j \in 1..Len(s) : s[j] = Call("docs", s[i].id, mode)

\* The calls lead to all there is to reach.
Covering(nodes, mode, on, s) ==
  \A x \in Nodes : Due(nodes, mode, on, x) => \E i \in 1..Len(s) : Leads(nodes, s[i], x)

\* A restore goes down from what is live: a folder is restored before its
\* children are.
Downward(nodes, s) ==
  \A i \in 1..Len(s) :
    IF s[i].op = "save" THEN Hung(nodes, s[i].arg.parent)
    ELSE \/ LiveIn(nodes, s[i].id)
         \/ \E j \in 1..(i - 1) : s[j].op = "save" /\ s[j].id = s[i].id

\* One save of a marking cascade.
Marks(nodes, next, mode, call) ==
  /\ call \in Calls /\ call.op = "save"
  /\ nodes[call.id] # None /\ call.arg.parent = nodes[call.id].parent
  /\ call.arg.deleted = (mode = "soft")
  /\ next[call.id] = call.arg
  /\ \A x \in Nodes : x # call.id => next[x] = nodes[x]

\* It leaves its node where it is.
LEMMA MarkShape ==
  ASSUME NEW nodes \in Tree, NEW next, NEW mode, NEW call, Marks(nodes, next, mode, call)
  PROVE  /\ SameShape(nodes, next)
         /\ call.id \in Nodes /\ call.arg \in Node /\ call.arg # None
         /\ \A x \in Nodes : x # call.id => next[x] = nodes[x]
<1>1. call.id \in Nodes /\ call.arg \in Node
  BY DEF Marks, Calls, Nodes
<1>2. call.arg # None
  BY <1>1, FolderTreeAssumption
<1>. QED
  BY <1>1, <1>2 DEF Marks, SameShape

\* A marking cascade saves one node: what it has to reach below that, the
\* queries lead to.
LEMMA CoverSave ==
  ASSUME NEW nodes \in Tree, NEW next, NEW mode \in {"soft", "restore"}, NEW on,
         NEW s \in Seq(Calls), s # <<>>, Marks(nodes, next, mode, Head(s)),
         Followed(mode, s), Covering(nodes, mode, on, s)
  PROVE  Covering(next, mode, on, <<>> \o Tail(s)) /\ Followed(mode, <<>> \o Tail(s))
<1>. DEFINE t == <<>> \o Tail(s)
<1>0. <<>> \in Seq(Calls) /\ Len(<<>>) = 0
  OBVIOUS
<1>1. /\ Len(s) \in Nat \ {0} /\ s[1] = Head(s) /\ Len(t) = 0 + Len(s) - 1
      /\ \A j \in 2..Len(s) : t[0 + j - 1] = s[j]
      /\ \A i \in 1..Len(t) : i \in 1..0 \/ \E j \in 2..Len(s) : i = 0 + j - 1
  BY <1>0, NextAt
<1>. HIDE DEF t
<1>2. ASSUME NEW j \in 2..Len(s)
      PROVE  j - 1 \in 1..Len(t) /\ t[j - 1] = s[j]
  <2>1. j - 1 \in 1..Len(t) /\ 0 + j - 1 = j - 1
    BY <1>1
  <2>. QED
    BY <1>1, <2>1
<1>3. ASSUME NEW i \in 1..Len(t)
      PROVE  i + 1 \in 2..Len(s) /\ t[i] = s[i + 1]
  <2>1. i + 1 \in 2..Len(s) /\ (i + 1) - 1 = i
    BY <1>1
  <2>. QED
    BY <1>2, <2>1
<1>. DEFINE e == s[1].id
<1>4. Marks(nodes, next, mode, s[1])
  BY <1>1
<1>5. /\ SameShape(nodes, next) /\ s[1].id \in Nodes /\ s[1].arg \in Node /\ s[1].arg # None
      /\ \A x \in Nodes : x # s[1].id => next[x] = nodes[x]
  BY <1>4, MarkShape
<1>6. /\ SameShape(nodes, next) /\ e \in Nodes /\ s[1].arg \in Node /\ s[1].arg # None
      /\ \A x \in Nodes : x # e => next[x] = nodes[x]
      /\ s[1].op = "save" /\ next[e] = s[1].arg /\ s[1].arg.deleted = (mode = "soft")
  BY <1>4, <1>5 DEF Marks
<1>. HIDE DEF e
<1>7. Followed(mode, t)
  <2>1. ASSUME NEW i \in 1..Len(t), t[i].op = "save", t[i].id \in Folders,
               NEW op \in {"folders", "docs"}
        PROVE  \E j \in 1..Len(t) : t[j] = Call(op, t[i].id, mode)
    <3>1. i + 1 \in 1..Len(s) /\ t[i] = s[i + 1]
      BY <1>1, <1>3
    <3>2. PICK j \in 1..Len(s) : s[j] = Call(op, t[i].id, mode)
      BY <2>1, <3>1 DEF Followed
    <3>3. j # 1
      BY <1>6, <3>2 DEF Call
    <3>4. j \in 2..Len(s)
      BY <1>1, <3>3
    <3>. QED
      BY <1>2, <3>2, <3>4
  <2>. QED
    BY <2>1 DEF Followed
<1>8. ASSUME NEW x \in Nodes, Due(next, mode, on, x)
      PROVE  \E i \in 1..Len(t) : Leads(next, t[i], x)
  <2>1. x # e
    BY <1>6, <1>8 DEF Due, LiveIn
  <2>2. next[x] = nodes[x] /\ nodes[x] \in Node
    BY <1>6, <1>8, <2>1 DEF Tree, Due, LiveIn
  <2>3. nodes[x].parent \in Folders \cup {None} /\ nodes[x].parent # None
    BY <1>8, <2>2 DEF Node, Due, Hung
  <2>4. CASE nodes[x].parent = e
    <3>1. e \in Folders /\ 1 \in 1..Len(s)
      BY <1>1, <2>3, <2>4
    <3>2. PICK i \in 1..Len(s), j \in 1..Len(s) :
            s[i] = Call("folders", e, mode) /\ s[j] = Call("docs", e, mode)
      BY <1>6, <3>1 DEF Followed, e
    <3>3. i # 1 /\ j # 1
      BY <1>6, <3>2 DEF Call
    <3>4. i \in 2..Len(s) /\ j \in 2..Len(s)
      BY <1>1, <3>3
    <3>5. Leads(next, s[i], x) \/ Leads(next, s[j], x)
      BY <2>2, <2>4, <3>2 DEF Leads, Handles, Call, Nodes
    <3>. QED
      BY <1>2, <3>4, <3>5
  <2>5. CASE nodes[x].parent # e
    <3>. DEFINE p == nodes[x].parent
    <3>1. next[p] = nodes[p] /\ p \in Nodes
      BY <1>6, <2>3, <2>5 DEF Nodes
    <3>2. Reaches(next, p, on) <=> Reaches(nodes, p, on)
      BY <1>6, <3>1, ShapeReaches
    <3>3. Due(nodes, mode, on, x)
      BY <1>8, <2>2, <3>1, <3>2 DEF Due, LiveIn, Hung
    <3>4. PICK i \in 1..Len(s) : Leads(nodes, s[i], x)
      BY <3>3 DEF Covering
    <3>5. i # 1
      BY <1>6, <2>1, <3>4 DEF Leads, Handles, e
    <3>6. i \in 2..Len(s)
      BY <1>1, <3>5
    <3>7. Leads(next, s[i], x)
      BY <2>2, <3>4 DEF Leads, Handles
    <3>. QED
      BY <1>2, <3>6, <3>7
  <2>. QED
    BY <2>4, <2>5
<1>. QED
  BY <1>7, <1>8 DEF Covering, t

\* What takes the place of a call that saves nothing leads to what it led to.
LeadsOn(nodes, mode, on, call, more) ==
  \A x \in Nodes : Due(nodes, mode, on, x) /\ Leads(nodes, call, x) =>
    \E i \in 1..Len(more) : Leads(nodes, more[i], x)

\* New calls in the place of the first keep all that is left covered.
LEMMA CoverPush ==
  ASSUME NEW nodes, NEW mode, NEW on, NEW s \in Seq(Calls), s # <<>>,
         Stack(nodes, mode, on, s), Followed(mode, s), Covering(nodes, mode, on, s),
         NEW more \in Seq(Calls), Followed(mode, more),
         LeadsOn(nodes, mode, on, Head(s), more)
  PROVE  Covering(nodes, mode, on, more \o Tail(s)) /\ Followed(mode, more \o Tail(s))
<1>. DEFINE m == Len(more)
            n == Len(s)
            z == more \o Tail(s)
<1>1. /\ n \in Nat \ {0} /\ m \in Nat /\ Len(z) = m + n - 1 /\ Head(s) = s[1]
      /\ \A i \in 1..m : z[i] = more[i]
      /\ \A j \in 2..n : z[m + j - 1] = s[j]
  BY NextAt
<1>2. \A i \in 1..Len(z) : i \in 1..m \/ \E j \in 2..n : i = m + j - 1
  BY NextAt
<1>. HIDE DEF m, n, z
<1>3. \A i \in 1..m : i \in 1..Len(z)
  BY <1>1
<1>4. \A j \in 2..n : m + j - 1 \in 1..Len(z)
  BY <1>1
<1>5. ASSUME NEW i \in 1..Len(z), z[i].op = "save", z[i].id \in Folders,
             NEW op \in {"folders", "docs"}
      PROVE  \E j \in 1..Len(z) : z[j] = Call(op, z[i].id, mode)
  <2>1. CASE i \in 1..m
    <3>1. PICK j \in 1..m : more[j] = Call(op, more[i].id, mode)
      BY <1>1, <1>5, <2>1 DEF Followed, m
    <3>. QED
      BY <1>1, <1>3, <2>1, <3>1
  <2>2. ASSUME NEW l \in 2..n, i = m + l - 1
        PROVE  \E j \in 1..Len(z) : z[j] = Call(op, z[i].id, mode)
    <3>1. z[i] = s[l] /\ l \in 1..Len(s) /\ 1 \in 1..Len(s) /\ 1 < l
      BY <1>1, <2>2 DEF n
    <3>2. PICK j \in 1..Len(s) : s[j] = Call(op, s[l].id, mode)
      BY <1>5, <3>1 DEF Followed
    <3>3. j # 1
      <4>1. ASSUME j = 1
            PROVE  FALSE
        <5>1. Before(nodes, s[1], s[l]) /\ s[1].id = s[l].id
          BY <3>1, <3>2, <4>1 DEF Stack, Call
        <5>. QED
          BY <1>5, <3>1, <5>1 DEF Before, InOrder
      <4>. QED
        BY <4>1
    <3>4. j \in 2..n
      BY <1>1, <3>3 DEF n
    <3>. QED
      BY <1>1, <1>4, <3>1, <3>2, <3>4
  <2>. QED
    BY <1>2, <2>1, <2>2
<1>6. ASSUME NEW x \in Nodes, Due(nodes, mode, on, x)
      PROVE  \E i \in 1..Len(z) : Leads(nodes, z[i], x)
  <2>1. PICK i \in 1..n : Leads(nodes, s[i], x)
    BY <1>6 DEF Covering, n
  <2>2. CASE i = 1
    <3>1. PICK j \in 1..m : Leads(nodes, more[j], x)
      BY <1>1, <1>6, <2>1, <2>2 DEF LeadsOn, m
    <3>. QED
      BY <1>1, <1>3, <3>1
  <2>3. CASE i # 1
    <3>1. i \in 2..n
      BY <1>1, <2>3
    <3>. QED
      BY <1>1, <1>4, <2>1, <3>1
  <2>. QED
    BY <2>2, <2>3
<1>. QED
  BY <1>5, <1>6 DEF Covering, Followed, z

\* One node of a restore is saved.
LEMMA DownwardSave ==
  ASSUME NEW nodes \in Tree, NEW next, NEW s \in Seq(Calls), s # <<>>,
         Marks(nodes, next, "restore", Head(s)), Downward(nodes, s), NoneBuried(nodes)
  PROVE  /\ Downward(next, <<>> \o Tail(s)) /\ NoneBuried(next)
         /\ \A x \in Nodes : LiveIn(nodes, x) => LiveIn(next, x)
<1>. DEFINE t == <<>> \o Tail(s)
            e == s[1].id
<1>0. <<>> \in Seq(Calls) /\ Len(<<>>) = 0
  OBVIOUS
<1>1. /\ Len(s) \in Nat \ {0} /\ s[1] = Head(s) /\ Len(t) = 0 + Len(s) - 1
      /\ \A j \in 2..Len(s) : t[0 + j - 1] = s[j]
  BY <1>0, NextAt
<1>. HIDE DEF t
<1>2. ASSUME NEW i \in 1..Len(t)
      PROVE  i + 1 \in 2..Len(s) /\ t[i] = s[i + 1]
  <2>1. i + 1 \in 2..Len(s) /\ 0 + (i + 1) - 1 = i
    BY <1>1
  <2>. QED
    BY <1>1, <2>1
<1>3. Marks(nodes, next, "restore", s[1])
  BY <1>1
<1>4. /\ SameShape(nodes, next) /\ s[1].id \in Nodes /\ s[1].arg \in Node /\ s[1].arg # None
      /\ \A x \in Nodes : x # s[1].id => next[x] = nodes[x]
  BY <1>3, MarkShape
<1>5. /\ e \in Nodes /\ s[1].arg \in Node /\ s[1].arg # None
      /\ \A x \in Nodes : x # e => next[x] = nodes[x]
      /\ s[1].op = "save" /\ next[e] = s[1].arg /\ ~s[1].arg.deleted
  BY <1>3, <1>4 DEF Marks
<1>6. Hung(nodes, s[1].arg.parent)
  BY <1>1, <1>5 DEF Downward
<1>. HIDE DEF e
<1>7. LiveIn(next, e)
  BY <1>5 DEF LiveIn
<1>8. ASSUME NEW x \in Nodes, LiveIn(nodes, x)
      PROVE  LiveIn(next, x)
  BY <1>5, <1>7, <1>8 DEF LiveIn
<1>9. ASSUME NEW p \in Nodes \cup {None}, Hung(nodes, p)
      PROVE  Hung(next, p)
  BY <1>8, <1>9 DEF Hung
<1>10. ASSUME NEW x \in Nodes, LiveIn(next, x)
      PROVE  Hung(next, next[x].parent)
  <2>1. CASE x = e
    <3>1. s[1].arg.parent \in Nodes \cup {None}
      BY <1>5 DEF Node, Nodes
    <3>. QED
      BY <1>5, <1>6, <1>9, <2>1, <3>1
  <2>2. CASE x # e
    <3>1. next[x] = nodes[x] /\ LiveIn(nodes, x)
      BY <1>5, <1>10, <2>2 DEF LiveIn
    <3>2. nodes[x].parent \in Nodes \cup {None}
      BY <3>1 DEF Tree, Node, Nodes, LiveIn
    <3>. QED
      BY <1>9, <3>1, <3>2 DEF NoneBuried
  <2>. QED
    BY <2>1, <2>2
<1>11. ASSUME NEW i \in 1..Len(t)
       PROVE  IF t[i].op = "save" THEN Hung(next, t[i].arg.parent)
              ELSE \/ LiveIn(next, t[i].id)
                   \/ \E j \in 1..(i - 1) : t[j].op = "save" /\ t[j].id = t[i].id
  <2>1. t[i] = s[i + 1] /\ i + 1 \in 1..Len(s) /\ s[i + 1] \in Calls
    BY <1>1, <1>2
  <2>2. CASE t[i].op = "save"
    <3>1. Hung(nodes, s[i + 1].arg.parent) /\ s[i + 1].arg.parent \in Nodes \cup {None}
      BY <2>1, <2>2 DEF Downward, Calls, Node, Nodes
    <3>. QED
      BY <1>9, <2>1, <2>2, <3>1
  <2>3. CASE t[i].op # "save"
    <3>1. t[i].id \in Nodes
      BY <2>1 DEF Calls, Nodes
    <3>2. CASE LiveIn(nodes, s[i + 1].id)
      BY <1>8, <2>1, <2>3, <3>1, <3>2
    <3>3. ASSUME NEW j \in 1..i, s[j].op = "save", s[j].id = s[i + 1].id
          PROVE  \/ LiveIn(next, t[i].id)
                 \/ \E k \in 1..(i - 1) : t[k].op = "save" /\ t[k].id = t[i].id
      <4>1. CASE j = 1
        BY <1>7, <2>1, <3>3, <4>1 DEF e
      <4>2. CASE j # 1
        <5>1. j - 1 \in 1..(i - 1) /\ j - 1 \in 1..Len(t) /\ (j - 1) + 1 = j
          BY <1>1, <4>2
        <5>2. t[j - 1] = s[j]
          BY <1>2, <5>1
        <5>. QED
          BY <2>1, <3>3, <5>1, <5>2
      <4>. QED
        BY <4>1, <4>2
    <3>4. (i + 1) - 1 = i
      OBVIOUS
    <3>. QED
      BY <2>1, <2>3, <3>2, <3>3, <3>4 DEF Downward
  <2>. QED
    BY <2>2, <2>3
<1>. QED
  BY <1>8, <1>10, <1>11 DEF Downward, NoneBuried, t

\* A call that saves nothing is over.
LEMMA DownwardPush ==
  ASSUME NEW nodes, NEW s \in Seq(Calls), s # <<>>, Downward(nodes, s), Head(s).op # "save",
         NEW more \in Seq(Calls), Downward(nodes, more)
  PROVE  Downward(nodes, more \o Tail(s))
<1>. DEFINE m == Len(more)
            n == Len(s)
            z == more \o Tail(s)
<1>1. /\ n \in Nat \ {0} /\ m \in Nat /\ Len(z) = m + n - 1 /\ Head(s) = s[1]
      /\ \A i \in 1..m : z[i] = more[i]
      /\ \A j \in 2..n : z[m + j - 1] = s[j]
  BY NextAt
<1>2. \A i \in 1..Len(z) : i \in 1..m \/ \E j \in 2..n : i = m + j - 1
  BY NextAt
<1>. HIDE DEF m, n, z
<1>3. ASSUME NEW i \in 1..Len(z)
      PROVE  IF z[i].op = "save" THEN Hung(nodes, z[i].arg.parent)
             ELSE \/ LiveIn(nodes, z[i].id)
                  \/ \E j \in 1..(i - 1) : z[j].op = "save" /\ z[j].id = z[i].id
  <2>1. CASE i \in 1..m
    <3>1. z[i] = more[i] /\ \A j \in 1..(i - 1) : z[j] = more[j]
      BY <1>1, <2>1
    <3>. QED
      BY <2>1, <3>1 DEF Downward, m
  <2>2. ASSUME NEW l \in 2..n, i = m + l - 1
        PROVE  IF z[i].op = "save" THEN Hung(nodes, z[i].arg.parent)
               ELSE \/ LiveIn(nodes, z[i].id)
                    \/ \E j \in 1..(i - 1) : z[j].op = "save" /\ z[j].id = z[i].id
    <3>1. z[i] = s[l] /\ l \in 1..Len(s)
      BY <1>1, <2>2 DEF n
    <3>2. CASE s[l].op = "save" \/ LiveIn(nodes, s[l].id)
      BY <3>1, <3>2 DEF Downward
    <3>3. ASSUME NEW j \in 1..(l - 1), s[j].op = "save", s[j].id = s[l].id
          PROVE  \E k \in 1..(i - 1) : z[k].op = "save" /\ z[k].id = z[i].id
      <4>1. j \in 2..n /\ m + j - 1 \in 1..(i - 1)
        BY <1>1, <2>2, <3>3
      <4>2. z[m + j - 1] = s[j]
        BY <1>1, <4>1
      <4>. QED
        BY <3>1, <3>3, <4>1, <4>2
    <3>. QED
      BY <3>1, <3>2, <3>3 DEF Downward
  <2>. QED
    BY <1>2, <2>1, <2>2
<1>. QED
  BY <1>3 DEF Downward, z

-----------------------------------------------------------------------------
(* What a cascade visits.                                                  *)

\* A sequence of three calls, put together from one and two.
LEMMA OneAndTwo == \A a, b, c : <<a>> \o <<b, c>> = <<a, b, c>>
<1>. SUFFICES ASSUME NEW a, NEW b, NEW c
              PROVE  <<a>> \o <<b, c>> = <<a, b, c>>
  OBVIOUS
<1>. DEFINE S == {a, b, c}
            s == <<a>>
            t == <<b, c>>
            st == <<a, b, c>>
<1>1. s \in Seq(S) /\ t \in Seq(S) /\ st \in Seq(S)
  OBVIOUS
<1>2. Len(s) = 1 /\ Len(t) = 2 /\ Len(st) = 3 /\ s[1] = st[1] /\ t[1] = st[2] /\ t[2] = st[3]
  OBVIOUS
<1>. HIDE DEF S, s, t, st
<1>3. /\ s \o t \in Seq(S) /\ Len(s \o t) = Len(s) + Len(t)
      /\ \A i \in 1..(Len(s) + Len(t)) :
           (s \o t)[i] = IF i <= Len(s) THEN s[i] ELSE t[i - Len(s)]
  BY <1>1, ConcatProperties
<1>4. (s \o t)[1] = s[1] /\ (s \o t)[2] = t[1] /\ (s \o t)[3] = t[2]
  BY <1>2, <1>3
<1>5. ASSUME NEW i \in 1..Len(s \o t)
      PROVE  (s \o t)[i] = st[i]
  <2>1. i = 1 \/ i = 2 \/ i = 3
    BY <1>2, <1>3
  <2>. QED
    BY <1>2, <1>4, <2>1
<1>6. s \o t = st
  BY <1>1, <1>2, <1>3, <1>5, SeqEqual
<1>. QED
  BY <1>6 DEF s, t, st

\* The calls on one node, one by one.
LEMMA CascadeCalls ==
  ASSUME NEW mode \in Modes, NEW e \in Nodes, NEW copy \in Node
  PROVE  \E s \in Seq(Calls) :
           /\ s = Cascade(mode, e, copy)
           /\ mode # "hard" =>
                /\ Len(s) = (IF e \in Folders THEN 3 ELSE 1)
                /\ s[1] = Save(e, Marked(mode, copy))
                /\ e \in Folders => s[2] = Call("folders", e, mode) /\ s[3] = Call("docs", e, mode)
           /\ mode = "hard" /\ e \in Folders =>
                /\ Len(s) = 4
                /\ s[1] = Call("folders", e, mode) /\ s[2] = Call("docs", e, mode)
                /\ s[3] = Call("purge", e, None) /\ s[4] = Call("drop", e, None)
           /\ mode = "hard" /\ e \notin Folders =>
                /\ Len(s) = 2
                /\ s[1] = Call("purge", e, None) /\ s[2] = Call("drop", e, None)
<1>1. Marked(mode, copy) \in Node
  BY DEF Marked, Node
<1>2. /\ Save(e, Marked(mode, copy)) \in Calls
      /\ Call("purge", e, None) \in Calls /\ Call("drop", e, None) \in Calls
      /\ e \in Folders => Call("folders", e, mode) \in Calls /\ Call("docs", e, mode) \in Calls
  BY <1>1 DEF Save, Call, Calls
<1>. DEFINE sv == Save(e, Marked(mode, copy))
            fq == Call("folders", e, mode)
            dq == Call("docs", e, mode)
            pg == Call("purge", e, None)
            dr == Call("drop", e, None)
<1>3. CASE mode # "hard" /\ e \in Folders
  <2>. DEFINE s == <<sv, fq, dq>>
  <2>1. <<sv>> \o <<fq, dq>> = s
    BY OneAndTwo, Zenon
  <2>2. s = Cascade(mode, e, copy)
    BY <1>3, <2>1 DEF Cascade, CascadeFolder
  <2>. HIDE DEF sv, fq, dq
  <2>3. s \in Seq(Calls) /\ Len(s) = 3 /\ s[1] = sv /\ s[2] = fq /\ s[3] = dq
    BY <1>2, <1>3 DEF sv, fq, dq
  <2>. HIDE DEF s
  <2>. QED
    BY <1>3, <2>2, <2>3 DEF sv, fq, dq
<1>4. CASE mode # "hard" /\ e \notin Folders
  <2>. DEFINE s == <<sv>>
  <2>1. s = Cascade(mode, e, copy)
    BY <1>4 DEF Cascade, CascadeDoc
  <2>. HIDE DEF sv
  <2>2. s \in Seq(Calls) /\ Len(s) = 1 /\ s[1] = sv
    BY <1>2 DEF sv
  <2>. HIDE DEF s
  <2>. QED
    BY <1>4, <2>1, <2>2 DEF sv
<1>5. CASE mode = "hard" /\ e \in Folders
  <2>. DEFINE s == <<fq, dq, pg, dr>>
  <2>1. s = Cascade(mode, e, copy)
    BY <1>5, TwoAndTwo, Zenon DEF Cascade, CascadeFolder
  <2>. HIDE DEF fq, dq, pg, dr
  <2>2. s \in Seq(Calls) /\ Len(s) = 4 /\ s[1] = fq /\ s[2] = dq /\ s[3] = pg /\ s[4] = dr
    BY <1>2, <1>5 DEF fq, dq, pg, dr
  <2>. HIDE DEF s
  <2>. QED
    BY <1>5, <2>1, <2>2 DEF fq, dq, pg, dr
<1>6. CASE mode = "hard" /\ e \notin Folders
  <2>. DEFINE s == <<pg, dr>>
  <2>1. s = Cascade(mode, e, copy)
    BY <1>6 DEF Cascade, CascadeDoc
  <2>. HIDE DEF pg, dr
  <2>2. s \in Seq(Calls) /\ Len(s) = 2 /\ s[1] = pg /\ s[2] = dr
    BY <1>2 DEF pg, dr
  <2>. HIDE DEF s
  <2>. QED
    BY <1>6, <2>1, <2>2 DEF pg, dr
<1>. QED
  BY <1>3, <1>4, <1>5, <1>6

\* They fit, in their order.
LEMMA CascadeOnNode ==
  ASSUME NEW nodes, NEW mode \in Modes, NEW on, NEW e \in Nodes, NEW copy \in Node,
         nodes[e] # None, Reaches(nodes, e, on), copy.parent = nodes[e].parent
  PROVE  /\ Cascade(mode, e, copy) \in Seq(Calls)
         /\ OnNode(nodes, mode, on, e, Cascade(mode, e, copy))
<1>1. PICK s \in Seq(Calls) :
        /\ s = Cascade(mode, e, copy)
        /\ mode # "hard" =>
             /\ Len(s) = (IF e \in Folders THEN 3 ELSE 1)
             /\ s[1] = Save(e, Marked(mode, copy))
             /\ e \in Folders => s[2] = Call("folders", e, mode) /\ s[3] = Call("docs", e, mode)
        /\ mode = "hard" /\ e \in Folders =>
             /\ Len(s) = 4
             /\ s[1] = Call("folders", e, mode) /\ s[2] = Call("docs", e, mode)
             /\ s[3] = Call("purge", e, None) /\ s[4] = Call("drop", e, None)
        /\ mode = "hard" /\ e \notin Folders =>
             /\ Len(s) = 2
             /\ s[1] = Call("purge", e, None) /\ s[2] = Call("drop", e, None)
  BY CascadeCalls
<1>2. /\ mode # "hard" /\ e \in Folders => Len(s) = 3
      /\ mode # "hard" /\ e \notin Folders => Len(s) = 1
      /\ mode = "hard" /\ e \in Folders => Len(s) = 4
      /\ mode = "hard" /\ e \notin Folders => Len(s) = 2
  BY <1>1
<1>3. Marked(mode, copy).parent = nodes[e].parent /\ Marked(mode, copy).deleted = (mode = "soft")
  BY DEF Marked, Node
<1>4. mode # "hard" => Fitting(nodes, mode, on, Save(e, Marked(mode, copy)))
  BY <1>3 DEF Fitting, OfMode, Save, Call
<1>5. /\ Fitting(nodes, mode, on, Call("folders", e, mode))
      /\ Fitting(nodes, mode, on, Call("docs", e, mode))
  BY DEF Fitting, OfMode, Call
<1>6. mode = "hard" => /\ Fitting(nodes, mode, on, Call("purge", e, None))
                       /\ Fitting(nodes, mode, on, Call("drop", e, None))
  BY DEF Fitting, OfMode, Call
<1>7. ASSUME NEW i \in 1..Len(s)
      PROVE  s[i].id = e /\ s[i].op # "each" /\ Fitting(nodes, mode, on, s[i])
  <2>1. CASE mode # "hard"
    <3>1. i = 1 \/ (e \in Folders /\ (i = 2 \/ i = 3))
      <4>1. CASE e \in Folders
        <5>1. Len(s) = 3
          BY <1>2, <2>1, <4>1
        <5>. QED
          BY <4>1, <5>1
      <4>2. CASE e \notin Folders
        <5>1. Len(s) = 1
          BY <1>2, <2>1, <4>2
        <5>. QED
          BY <5>1
      <4>. QED
        BY <4>1, <4>2
    <3>. QED
      BY <1>1, <1>4, <1>5, <2>1, <3>1 DEF Save, Call
  <2>2. CASE mode = "hard" /\ e \in Folders
    <3>0. Len(s) = 4
      BY <1>2, <2>2
    <3>1. i = 1 \/ i = 2 \/ i = 3 \/ i = 4
      BY <3>0
    <3>. QED
      BY <1>1, <1>5, <1>6, <2>2, <3>1 DEF Call
  <2>3. CASE mode = "hard" /\ e \notin Folders
    <3>0. Len(s) = 2
      BY <1>2, <2>3
    <3>1. i = 1 \/ i = 2
      BY <3>0
    <3>. QED
      BY <1>1, <1>6, <2>3, <3>1 DEF Call
  <2>. QED
    BY <2>1, <2>2, <2>3
<1>8. ASSUME NEW i \in 1..Len(s), NEW j \in 1..Len(s), i < j
      PROVE  InOrder(s[i], s[j])
  <2>1. CASE mode # "hard"
    <3>1. e \in Folders /\ ((i = 1 /\ j = 2) \/ (i = 1 /\ j = 3) \/ (i = 2 /\ j = 3))
      <4>1. CASE e \in Folders
        <5>1. Len(s) = 3
          BY <1>2, <2>1, <4>1
        <5>. QED
          BY <1>8, <4>1, <5>1
      <4>2. CASE e \notin Folders
        <5>1. Len(s) = 1
          BY <1>2, <2>1, <4>2
        <5>. QED
          BY <1>8, <5>1
      <4>. QED
        BY <4>1, <4>2
    <3>. QED
      BY <1>1, <2>1, <3>1 DEF Save, Call, InOrder
  <2>2. CASE mode = "hard" /\ e \in Folders
    <3>0. Len(s) = 4
      BY <1>2, <2>2
    <3>1. (i = 1 \/ i = 2 \/ i = 3) /\ (j = 2 \/ j = 3 \/ j = 4)
      BY <1>8, <3>0
    <3>. QED
      BY <1>1, <2>2, <3>1 DEF Call, InOrder
  <2>3. CASE mode = "hard" /\ e \notin Folders
    <3>0. Len(s) = 2
      BY <1>2, <2>3
    <3>1. i = 1 /\ j = 2
      BY <1>8, <3>0
    <3>. QED
      BY <1>1, <2>3, <3>1 DEF Call, InOrder
  <2>. QED
    BY <2>1, <2>2, <2>3
<1>9. Len(s) <= 4
  <2>1. Len(s) = 1 \/ Len(s) = 2 \/ Len(s) = 3 \/ Len(s) = 4
    BY <1>2
  <2>2. 1 <= 4 /\ 2 <= 4 /\ 3 <= 4 /\ 4 <= 4
    OBVIOUS
  <2>. QED
    BY <2>1, <2>2, Zenon
<1>. QED
  BY <1>1, <1>7, <1>8, <1>9 DEF OnNode

\* A marking cascade visits a node: it saves it, then looks for its children.
LEMMA VisitMarks ==
  ASSUME NEW nodes, NEW mode \in {"soft", "restore"}, NEW e \in Nodes, NEW copy \in Node,
         mode = "restore" => Hung(nodes, copy.parent)
  PROVE  /\ Followed(mode, Cascade(mode, e, copy))
         /\ mode = "restore" => Downward(nodes, Cascade(mode, e, copy))
         /\ \E i \in 1..Len(Cascade(mode, e, copy)) : Leads(nodes, Cascade(mode, e, copy)[i], e)
<1>1. PICK s \in Seq(Calls) :
        /\ s = Cascade(mode, e, copy)
        /\ Len(s) = (IF e \in Folders THEN 3 ELSE 1)
        /\ s[1] = Save(e, Marked(mode, copy))
        /\ e \in Folders => s[2] = Call("folders", e, mode) /\ s[3] = Call("docs", e, mode)
  <2>1. mode \in Modes /\ mode # "hard"
    BY DEF Modes
  <2>. QED
    BY <2>1, CascadeCalls
<1>2. s[1].op = "save" /\ s[1].id = e /\ s[1].arg = Marked(mode, copy)
  BY <1>1 DEF Save, Call
<1>3. Marked(mode, copy).parent = copy.parent
  BY DEF Marked, Node
<1>4. Followed(mode, s)
  <2>1. ASSUME NEW i \in 1..Len(s), s[i].op = "save", s[i].id \in Folders
        PROVE  /\ \E j \in 1..Len(s) : s[j] = Call("folders", s[i].id, mode)
               /\ \E j \in 1..Len(s) : s[j] = Call("docs", s[i].id, mode)
    <3>1. i = 1
      BY <1>1, <2>1 DEF Call
    <3>2. 2 \in 1..Len(s) /\ 3 \in 1..Len(s)
      BY <1>1, <1>2, <2>1, <3>1
    <3>. QED
      BY <1>1, <1>2, <2>1, <3>1, <3>2
  <2>. QED
    BY <2>1 DEF Followed
<1>5. ASSUME mode = "restore", NEW i \in 1..Len(s)
      PROVE  IF s[i].op = "save" THEN Hung(nodes, s[i].arg.parent)
             ELSE \/ LiveIn(nodes, s[i].id)
                  \/ \E j \in 1..(i - 1) : s[j].op = "save" /\ s[j].id = s[i].id
  <2>1. CASE i = 1
    BY <1>2, <1>3, <1>5, <2>1
  <2>2. CASE i # 1
    <3>1. s[i].op # "save" /\ s[i].id = e /\ 1 \in 1..(i - 1)
      BY <1>1, <2>2 DEF Call
    <3>. QED
      BY <1>2, <3>1
  <2>. QED
    BY <2>1, <2>2
<1>6. 1 \in 1..Len(s) /\ Leads(nodes, s[1], e)
  BY <1>1, <1>2 DEF Leads
<1>. QED
  BY <1>1, <1>4, <1>5, <1>6 DEF Downward

\* Two sequences of calls.
LEMMA JoinAt ==
  ASSUME NEW S, NEW a \in Seq(S), NEW b \in Seq(S)
  PROVE  /\ Len(a) \in Nat /\ Len(b) \in Nat /\ a \o b \in Seq(S)
         /\ Len(a \o b) = Len(a) + Len(b)
         /\ \A i \in 1..Len(a) : i \in 1..Len(a \o b) /\ (a \o b)[i] = a[i]
         /\ \A i \in 1..Len(b) : Len(a) + i \in 1..Len(a \o b) /\ (a \o b)[Len(a) + i] = b[i]
         /\ \A i \in 1..Len(a \o b) : i \in 1..Len(a) \/ \E j \in 1..Len(b) : i = Len(a) + j
<1>1. /\ Len(a) \in Nat /\ Len(b) \in Nat /\ a \o b \in Seq(S)
      /\ Len(a \o b) = Len(a) + Len(b)
      /\ \A i \in 1..(Len(a) + Len(b)) :
           (a \o b)[i] = IF i <= Len(a) THEN a[i] ELSE b[i - Len(a)]
  BY ConcatProperties
<1>. DEFINE z == a \o b
<1>. HIDE DEF z
<1>2. ASSUME NEW i \in 1..Len(b)
      PROVE  Len(a) + i \in 1..Len(z) /\ z[Len(a) + i] = b[i]
  <2>1. /\ Len(a) + i \in 1..(Len(a) + Len(b)) /\ ~ (Len(a) + i <= Len(a))
        /\ (Len(a) + i) - Len(a) = i
    BY <1>1
  <2>. QED
    BY <1>1, <2>1 DEF z
<1>3. ASSUME NEW i \in 1..Len(z)
      PROVE  i \in 1..Len(a) \/ \E j \in 1..Len(b) : i = Len(a) + j
  <2>1. CASE i > Len(a)
    <3>1. i - Len(a) \in 1..Len(b) /\ i = Len(a) + (i - Len(a))
      BY <1>1, <2>1 DEF z
    <3>. QED
      BY <3>1
  <2>. QED
    BY <1>1, <2>1 DEF z
<1>4. ASSUME NEW i \in 1..Len(a)
      PROVE  i \in 1..Len(z) /\ z[i] = a[i]
  BY <1>1 DEF z
<1>. QED
  BY <1>1, <1>2, <1>3, <1>4 DEF z

\* Visiting a node, and then the rest of the loop.
LEMMA VisitAndRest ==
  ASSUME NEW nodes, NEW mode, NEW a \in Seq(Calls), NEW b \in Seq(Calls),
         \A i \in 1..Len(b) : b[i].op # "save", Followed(mode, a)
  PROVE  /\ Followed(mode, a \o b)
         /\ Downward(nodes, a) /\ (\A i \in 1..Len(b) : LiveIn(nodes, b[i].id)) =>
              Downward(nodes, a \o b)
<1>. DEFINE z == a \o b
<1>1. /\ Len(a) \in Nat /\ Len(b) \in Nat /\ z \in Seq(Calls) /\ Len(z) = Len(a) + Len(b)
      /\ \A i \in 1..Len(a) : i \in 1..Len(z) /\ z[i] = a[i]
      /\ \A i \in 1..Len(b) : Len(a) + i \in 1..Len(z) /\ z[Len(a) + i] = b[i]
      /\ \A i \in 1..Len(z) : i \in 1..Len(a) \/ \E j \in 1..Len(b) : i = Len(a) + j
  BY JoinAt
<1>. HIDE DEF z
<1>2. ASSUME NEW i \in 1..Len(z), z[i].op = "save"
      PROVE  i \in 1..Len(a) /\ z[i] = a[i]
  BY <1>1, <1>2
<1>3. Followed(mode, z)
  BY <1>1, <1>2 DEF Followed
<1>4. ASSUME Downward(nodes, a), \A i \in 1..Len(b) : LiveIn(nodes, b[i].id), NEW i \in 1..Len(z)
      PROVE  IF z[i].op = "save" THEN Hung(nodes, z[i].arg.parent)
             ELSE \/ LiveIn(nodes, z[i].id)
                  \/ \E j \in 1..(i - 1) : z[j].op = "save" /\ z[j].id = z[i].id
  <2>1. CASE i \in 1..Len(a)
    <3>1. z[i] = a[i] /\ \A j \in 1..(i - 1) : z[j] = a[j]
      BY <1>1, <2>1
    <3>. QED
      BY <1>4, <2>1, <3>1 DEF Downward
  <2>2. CASE \E j \in 1..Len(b) : i = Len(a) + j
    BY <1>1, <1>4, <2>2
  <2>. QED
    BY <1>1, <2>1, <2>2
<1>. QED
  BY <1>3, <1>4 DEF Downward, z

-----------------------------------------------------------------------------
(* A cascade, and what it leaves behind.                                   *)

\* Above what is live everything is, if nothing is buried.
LEMMA UpLive ==
  ASSUME NEW nodes \in Tree, NoneBuried(nodes), NEW x \in Nodes, LiveIn(nodes, x),
         NEW k \in Nat, Walk(nodes, x, k) # None
  PROVE  \A m \in Nat : m <= k => LiveIn(nodes, Walk(nodes, x, m))
<1>. DEFINE Good == {m \in Nat : m <= k => LiveIn(nodes, Walk(nodes, x, m))}
<1>1. 0 \in Good
  BY WalkSteps
<1>2. ASSUME NEW m \in Good
      PROVE  m + 1 \in Good
  <2>1. SUFFICES ASSUME m + 1 <= k
                 PROVE  LiveIn(nodes, Walk(nodes, x, m + 1))
    OBVIOUS
  <2>2. LiveIn(nodes, Walk(nodes, x, m))
    BY <2>1
  <2>3. Walk(nodes, x, m) # None /\ Walk(nodes, x, m + 1) # None
    BY <2>1, WalkOver
  <2>4. Walk(nodes, x, m) \in Nodes
    BY <2>3, WalkType
  <2>5. Walk(nodes, x, m + 1) = nodes[Walk(nodes, x, m)].parent
    BY <2>3, WalkNext DEF NextUp
  <2>. QED
    BY <2>2, <2>3, <2>4, <2>5 DEF NoneBuried, Hung
<1>. HIDE DEF Good
<1>3. \A m \in Nat : m \in Good
  <2>1. Good \in SUBSET Nat
    BY DEF Good
  <2>. QED
    BY <1>1, <1>2, <2>1, NumbersFrom0
<1>. QED
  BY <1>3 DEF Good

\* So what is below a deleted node is deleted.
LEMMA ReachLive ==
  ASSUME NEW nodes \in Tree, NoneBuried(nodes), NEW x \in Nodes, LiveIn(nodes, x),
         NEW on, on # None, Reaches(nodes, x, on)
  PROVE  LiveIn(nodes, on)
<1>1. PICK k \in Nat : Walk(nodes, x, k) = on
  BY DEF Reaches
<1>. QED
  BY <1>1, UpLive

\* Once a restore has nothing left to reach, all below its folder is live.
LEMMA AllLive ==
  ASSUME NEW nodes \in Tree, Whole(nodes), NEW on \in Nodes, LiveIn(nodes, on),
         \A x \in Nodes : ~Due(nodes, "restore", on, x)
  PROVE  \A x \in Nodes : nodes[x] # None /\ Reaches(nodes, x, on) => LiveIn(nodes, x)
<1>. DEFINE Good == {k \in Nat : \A x \in Nodes :
                       nodes[x] # None /\ Walk(nodes, x, k) = on => LiveIn(nodes, x)}
<1>1. 0 \in Good
  BY WalkSteps
<1>2. ASSUME NEW k \in Good
      PROVE  k + 1 \in Good
  <2>1. SUFFICES ASSUME NEW x \in Nodes, nodes[x] # None, Walk(nodes, x, k + 1) = on
                 PROVE  LiveIn(nodes, x)
    OBVIOUS
  <2>. DEFINE p == nodes[x].parent
  <2>2. x # None /\ on # None
    BY AclAssumption DEF Nodes
  <2>3. Walk(nodes, p, k) = on
    BY <2>1, <2>2, WalkFromParent
  <2>4. p # None
    <3>1. SUFFICES ASSUME p = None PROVE FALSE
      OBVIOUS
    <3>2. Walk(nodes, p, 0) = None
      BY <3>1, WalkSteps
    <3>. HIDE DEF p
    <3>3. Walk(nodes, p, k) = None
      BY <3>2, WalkOver
    <3>. QED
      BY <2>2, <2>3, <3>3
  <2>5. p \in Nodes /\ nodes[p] # None
    BY <2>1, <2>4 DEF Tree, Node, Nodes, Whole
  <2>6. LiveIn(nodes, p) /\ Reaches(nodes, p, on)
    BY <2>3, <2>5 DEF Reaches
  <2>7. ~Due(nodes, "restore", on, x)
    OBVIOUS
  <2>8. ~nodes[x].deleted
    BY <2>1, <2>4, <2>6, <2>7 DEF Due
  <2>. QED
    BY <2>1, <2>8 DEF LiveIn
<1>. HIDE DEF Good
<1>3. \A k \in Nat : k \in Good
  <2>1. Good \in SUBSET Nat
    BY DEF Good
  <2>. QED
    BY <1>1, <1>2, <2>1, NumbersFrom0
<1>. QED
  BY <1>3 DEF Good, Reaches

\* Nothing else leads to a node without children.
LEMMA NoneReaches ==
  ASSUME NEW nodes \in Tree, NEW e, e # None,
         \A x \in Nodes : nodes[x] # None => nodes[x].parent # e,
         NEW a \in Nodes, a # e
  PROVE  ~Reaches(nodes, a, e)
<1>1. SUFFICES ASSUME NEW k \in Nat, Walk(nodes, a, k) = e
               PROVE  FALSE
  BY DEF Reaches
<1>2. k # 0
  BY <1>1, WalkSteps
<1>3. k - 1 \in Nat /\ (k - 1) + 1 = k
  BY <1>2
<1>4. Walk(nodes, a, (k - 1) + 1) = NextUp(nodes, Walk(nodes, a, k - 1))
  BY <1>3, WalkNext
<1>5. Walk(nodes, a, k - 1) \in Nodes \cup {None}
  BY <1>3, WalkType
<1>. QED
  BY <1>1, <1>3, <1>4, <1>5 DEF NextUp

\* A soft delete: its folder is deleted, the rest is reached.
SoftOK(nodes, on, s) ==
  /\ nodes[on] # None /\ nodes[on].deleted
  /\ Followed("soft", s) /\ Covering(nodes, "soft", on, s)

\* A restore: it never leaves a live node in a deleted folder.
RestoreOK(nodes, on, s, all) ==
  /\ LiveIn(nodes, on) /\ NoneBuried(nodes)
  /\ Downward(nodes, s)
  /\ all => Followed("restore", s) /\ Covering(nodes, "restore", on, s)

\* The drop of a folder is pending.
WillDrop(s, on) == \E i \in 1..Len(s) : s[i].op = "drop" /\ s[i].id = on

\* A hard delete leaves nothing live in the trash, and will remove its folder.
HardOK(nodes, on, s) == NoneBuried(nodes) /\ (nodes[on] # None => WillDrop(s, on))

\* A cascade on its way.
Going(nodes, mode, on, s, all) ==
  /\ Stack(nodes, mode, on, s)
  /\ mode = "soft" => SoftOK(nodes, on, s)
  /\ mode = "restore" => RestoreOK(nodes, on, s, all)
  /\ mode = "hard" => HardOK(nodes, on, s)

\* What is live in the folder is its user's.
Owned(nodes, on, u) ==
  \A x \in Nodes : LiveIn(nodes, x) /\ Reaches(nodes, x, on) => nodes[x].owner = u

\* A marking cascade about to save its folder.
Opening(nodes, mode, on, s, all) ==
  /\ mode \in {"soft", "restore"}
  /\ nodes[on] # None /\ NoneBuried(nodes)
  /\ \E rec \in Node :
       /\ s = CascadeFolder(mode, on, rec)
       /\ mode = "soft" => rec.parent = nodes[on].parent
       /\ mode = "restore" => rec.parent \in {None, nodes[on].parent} /\ Hung(nodes, rec.parent)
  /\ all => nodes[on].deleted

\* The first call of a stack, and the others.
LEMMA FirstFits ==
  ASSUME NEW nodes, NEW mode, NEW on, NEW s \in Seq(Calls), s # <<>>,
         Stack(nodes, mode, on, s)
  PROVE  /\ Head(s) = s[1] /\ 1 \in 1..Len(s) /\ Head(s) \in Calls
         /\ Fitting(nodes, mode, on, Head(s))
<1>1. Head(s) = s[1] /\ Len(s) \in Nat \ {0} /\ Head(s) \in Calls
  BY HeadTailProperties, EmptySeq, NextAt
<1>2. 1 \in 1..Len(s)
  BY <1>1
<1>. QED
  BY <1>1, <1>2 DEF Stack

\* A hard delete whose first call is not the drop of its folder still has it to
\* do.
LEMMA DropStays ==
  ASSUME NEW S, NEW s \in Seq(S), s # <<>>, NEW more \in Seq(S), NEW on,
         Head(s).op # "drop" \/ Head(s).id # on, WillDrop(s, on)
  PROVE  WillDrop(more \o Tail(s), on)
<1>1. /\ Len(s) \in Nat \ {0} /\ Len(more) \in Nat /\ Head(s) = s[1]
      /\ Len(more \o Tail(s)) = Len(more) + Len(s) - 1
      /\ \A j \in 2..Len(s) : (more \o Tail(s))[Len(more) + j - 1] = s[j]
  BY NextAt
<1>2. PICK i \in 1..Len(s) : s[i].op = "drop" /\ s[i].id = on
  BY DEF WillDrop
<1>3. i # 1
  BY <1>1, <1>2
<1>4. i \in 2..Len(s) /\ Len(more) + i - 1 \in 1..Len(more \o Tail(s))
  BY <1>1, <1>3
<1>. QED
  BY <1>1, <1>2, <1>4 DEF WillDrop

-----------------------------------------------------------------------------
(* The calls of a cascade.                                                 *)

\* A marking cascade saves one node.
LEMMA GoSave ==
  ASSUME NEW nodes \in Tree, NEW next, NEW mode \in Modes, NEW on \in Nodes,
         NEW s \in Seq(Calls), s # <<>>, NEW all, NEW u, Going(nodes, mode, on, s, all),
         Head(s).op = "save", next[Head(s).id] = Head(s).arg,
         \A x \in Nodes : x # Head(s).id => next[x] = nodes[x]
  PROVE  /\ Going(next, mode, on, <<>> \o Tail(s), all)
         /\ mode # "restore" /\ Owned(nodes, on, u) => Owned(next, on, u)
<1>1. Fitting(nodes, mode, on, Head(s)) /\ Stack(nodes, mode, on, s) /\ Head(s) \in Calls
  BY FirstFits DEF Going
<1>2. mode # "hard"
  BY <1>1 DEF Fitting, OfMode
<1>3. mode = "soft" \/ mode = "restore"
  BY <1>2 DEF Modes
<1>4. Marks(nodes, next, mode, Head(s))
  BY <1>1 DEF Fitting, OfMode, Marks
<1>5. SameShape(nodes, next) /\ Head(s).id \in Nodes /\ Head(s).arg # None
  BY <1>4, MarkShape
<1>6. <<>> \o Tail(s) \in Seq(Calls)
  <2>1. <<>> \in Seq(Calls)
    OBVIOUS
  <2>. QED
    BY <2>1, NextAt
<1>7. Stack(next, mode, on, <<>> \o Tail(s))
  <2>1. Stack(nodes, mode, on, <<>> \o Tail(s))
    BY <1>1, StackPop
  <2>. QED
    BY <1>5, <1>6, <2>1, StackStays
<1>8. CASE mode = "soft"
  <2>1. SoftOK(nodes, on, s)
    BY <1>8 DEF Going
  <2>2. Covering(next, mode, on, <<>> \o Tail(s)) /\ Followed(mode, <<>> \o Tail(s))
    BY <1>4, <1>8, <2>1, CoverSave DEF SoftOK
  <2>3. next[on] # None /\ next[on].deleted
    BY <1>4, <1>5, <1>8, <2>1 DEF SoftOK, Marks
  <2>4. SoftOK(next, on, <<>> \o Tail(s))
    BY <1>8, <2>2, <2>3 DEF SoftOK
  <2>5. ASSUME Owned(nodes, on, u)
        PROVE  Owned(next, on, u)
    <3>1. ASSUME NEW x \in Nodes, LiveIn(next, x), Reaches(next, x, on)
          PROVE  next[x].owner = u
      <4>1. x # Head(s).id
        BY <1>4, <1>8, <3>1 DEF LiveIn, Marks
      <4>2. next[x] = nodes[x] /\ Reaches(nodes, x, on)
        BY <1>5, <3>1, <4>1, ShapeReaches
      <4>. QED
        BY <2>5, <3>1, <4>2 DEF Owned, LiveIn
    <3>. QED
      BY <3>1 DEF Owned
  <2>. QED
    BY <1>7, <1>8, <2>4, <2>5 DEF Going
<1>9. CASE mode = "restore"
  <2>1. RestoreOK(nodes, on, s, all)
    BY <1>9 DEF Going
  <2>2. /\ Downward(next, <<>> \o Tail(s)) /\ NoneBuried(next)
        /\ \A x \in Nodes : LiveIn(nodes, x) => LiveIn(next, x)
    BY <1>4, <1>9, <2>1, DownwardSave DEF RestoreOK
  <2>3. ASSUME all
        PROVE  Covering(next, mode, on, <<>> \o Tail(s)) /\ Followed(mode, <<>> \o Tail(s))
    BY <1>4, <1>9, <2>1, <2>3, CoverSave DEF RestoreOK
  <2>4. RestoreOK(next, on, <<>> \o Tail(s), all)
    BY <1>9, <2>1, <2>2, <2>3 DEF RestoreOK
  <2>. QED
    BY <1>7, <1>9, <2>4 DEF Going
<1>. QED
  BY <1>3, <1>8, <1>9

\* A hard delete drops one node.
LEMMA GoDrop ==
  ASSUME NEW nodes \in Tree, SoundTree(nodes), NEW next, NEW mode \in Modes, NEW on \in Nodes,
         NEW s \in Seq(Calls), s # <<>>, NEW all, NEW u, Going(nodes, mode, on, s, all),
         Head(s).op = "drop", next[Head(s).id] = None,
         \A x \in Nodes : x # Head(s).id => next[x] = nodes[x],
         \A x \in Nodes : nodes[x] # None => nodes[x].parent # Head(s).id
  PROVE  /\ Going(next, mode, on, <<>> \o Tail(s), all)
         /\ Owned(nodes, on, u) => Owned(next, on, u)
<1>. DEFINE e == Head(s).id
<1>1. Fitting(nodes, mode, on, Head(s)) /\ Stack(nodes, mode, on, s) /\ Head(s) \in Calls
  BY FirstFits DEF Going
<1>2. mode = "hard"
  BY <1>1 DEF Fitting, OfMode
<1>3. e \in Nodes /\ e # None
  BY <1>1, AclAssumption DEF Calls, Nodes
<1>4. Stack(next, mode, on, <<>> \o Tail(s))
  BY <1>1, <1>2, StackDrop
<1>5. HardOK(nodes, on, s)
  BY <1>2 DEF Going
<1>6. NoneBuried(next)
  <2>1. ASSUME NEW x \in Nodes, LiveIn(next, x)
        PROVE  Hung(next, next[x].parent)
    <3>1. x # e /\ next[x] = nodes[x] /\ LiveIn(nodes, x)
      BY <2>1 DEF LiveIn
    <3>2. nodes[x].parent # e /\ Hung(nodes, nodes[x].parent)
      BY <1>5, <3>1 DEF HardOK, NoneBuried, LiveIn
    <3>3. nodes[x].parent = None \/ nodes[x].parent \in Nodes
      BY <3>1 DEF Tree, Node, Nodes, LiveIn
    <3>. QED
      BY <3>1, <3>2, <3>3 DEF Hung, LiveIn
  <2>. QED
    BY <2>1 DEF NoneBuried
<1>7. HardOK(next, on, <<>> \o Tail(s))
  <2>1. CASE e = on
    BY <1>6, <2>1 DEF HardOK
  <2>2. CASE e # on
    <3>1. next[on] = nodes[on]
      BY <2>2
    <3>2. SUFFICES ASSUME nodes[on] # None
                   PROVE  WillDrop(<<>> \o Tail(s), on)
      BY <1>6, <3>1 DEF HardOK
    <3>3. WillDrop(s, on)
      BY <1>5, <3>2 DEF HardOK
    <3>4. <<>> \in Seq(Calls)
      OBVIOUS
    <3>. QED
      BY <2>2, <3>3, <3>4, DropStays
  <2>. QED
    BY <2>1, <2>2
<1>8. ASSUME Owned(nodes, on, u)
      PROVE  Owned(next, on, u)
  <2>1. ASSUME NEW x \in Nodes, LiveIn(next, x), Reaches(next, x, on)
        PROVE  next[x].owner = u
    <3>1. x # e /\ next[x] = nodes[x] /\ LiveIn(nodes, x)
      BY <2>1 DEF LiveIn
    <3>2. ~Reaches(nodes, x, e)
      <4>. HIDE DEF e
      <4>1. \A y \in Nodes : nodes[y] # None => nodes[y].parent # e
        BY DEF e
      <4>. QED
        BY <1>3, <3>1, <4>1, NoneReaches
    <3>3. \A k \in Nat : Walk(next, x, k) = Walk(nodes, x, k)
      BY <3>2, AvoidWalk
    <3>. QED
      BY <1>8, <2>1, <3>1, <3>3 DEF Owned, Reaches
  <2>. QED
    BY <2>1 DEF Owned
<1>. QED
  BY <1>2, <1>4, <1>7, <1>8 DEF Going

\* What hangs on a node is purged.
LEMMA GoPurge ==
  ASSUME NEW nodes, NEW mode \in Modes, NEW on \in Nodes, NEW s \in Seq(Calls), s # <<>>,
         NEW all, Going(nodes, mode, on, s, all), Head(s).op = "purge"
  PROVE  Going(nodes, mode, on, <<>> \o Tail(s), all)
<1>1. Fitting(nodes, mode, on, Head(s)) /\ Stack(nodes, mode, on, s)
  BY FirstFits DEF Going
<1>2. mode = "hard"
  BY <1>1 DEF Fitting, OfMode
<1>3. Stack(nodes, mode, on, <<>> \o Tail(s))
  BY <1>1, StackPop
<1>4. <<>> \in Seq(Calls)
  OBVIOUS
<1>5. HardOK(nodes, on, <<>> \o Tail(s))
  BY <1>2, <1>4, DropStays DEF Going, HardOK
<1>. QED
  BY <1>2, <1>3, <1>5 DEF Going

\* Calls that write nothing take the place of one that wrote nothing, and lead
\* to what it led to.
LEMMA GoOn ==
  ASSUME NEW nodes, NEW mode \in Modes, NEW on \in Nodes, NEW s \in Seq(Calls), s # <<>>,
         NEW all, Going(nodes, mode, on, s, all),
         Head(s).op \in {"folders", "docs", "each"}, NEW more \in Seq(Calls),
         Stack(nodes, mode, on, more \o Tail(s)),
         mode # "hard" => Followed(mode, more) /\ LeadsOn(nodes, mode, on, Head(s), more),
         mode = "restore" => Downward(nodes, more)
  PROVE  Going(nodes, mode, on, more \o Tail(s), all)
<1>1. Stack(nodes, mode, on, s)
  BY DEF Going
<1>2. CASE mode = "soft"
  <2>1. SoftOK(nodes, on, s)
    BY <1>2 DEF Going
  <2>2. Covering(nodes, mode, on, more \o Tail(s)) /\ Followed(mode, more \o Tail(s))
    BY <1>1, <1>2, <2>1, CoverPush DEF SoftOK
  <2>3. SoftOK(nodes, on, more \o Tail(s))
    BY <1>2, <2>1, <2>2 DEF SoftOK
  <2>. QED
    BY <1>2, <2>3 DEF Going
<1>3. CASE mode = "restore"
  <2>1. RestoreOK(nodes, on, s, all)
    BY <1>3 DEF Going
  <2>2. Downward(nodes, more \o Tail(s))
    BY <1>3, <2>1, DownwardPush DEF RestoreOK
  <2>3. ASSUME all
        PROVE  Covering(nodes, mode, on, more \o Tail(s)) /\ Followed(mode, more \o Tail(s))
    BY <1>1, <1>3, <2>1, <2>3, CoverPush DEF RestoreOK
  <2>4. RestoreOK(nodes, on, more \o Tail(s), all)
    BY <1>3, <2>1, <2>2, <2>3 DEF RestoreOK
  <2>. QED
    BY <1>3, <2>4 DEF Going
<1>4. CASE mode = "hard"
  <2>0. HardOK(nodes, on, s)
    BY <1>4 DEF Going
  <2>2. ASSUME nodes[on] # None
        PROVE  WillDrop(more \o Tail(s), on)
    <3>1. WillDrop(s, on) /\ Head(s).op # "drop"
      BY <2>0, <2>2 DEF HardOK
    <3>. QED
      BY <3>1, DropStays
  <2>1. HardOK(nodes, on, more \o Tail(s))
    BY <2>0, <2>2 DEF HardOK
  <2>. QED
    BY <1>4, <2>1 DEF Going
<1>. QED
  BY <1>2, <1>3, <1>4 DEF Modes

\* A query has found the children of its folder.
LEMMA GoFind ==
  ASSUME NEW nodes \in Tree, NEW mode \in Modes, NEW on \in Nodes, NEW s \in Seq(Calls), s # <<>>,
         NEW all, Going(nodes, mode, on, s, all), Head(s).op \in {"folders", "docs"},
         NEW found,
         found = {x \in IF Head(s).op = "docs" THEN Docs ELSE Folders :
                    /\ nodes[x] # None /\ nodes[x].parent = Head(s).id
                    /\ mode = "hard" \/ nodes[x].deleted = (mode = "restore")},
         NEW more,
         more = IF found = {} THEN <<>>
                ELSE <<Each(Head(s).id, mode, {[id |-> x, copy |-> nodes[x]] : x \in found})>>
  PROVE  Going(nodes, mode, on, more \o Tail(s), all)
<1>. DEFINE left == {[id |-> x, copy |-> nodes[x]] : x \in found}
            call == Each(Head(s).id, mode, left)
<1>1. Fitting(nodes, mode, on, Head(s)) /\ Stack(nodes, mode, on, s) /\ Head(s) \in Calls
      /\ Head(s) = s[1] /\ 1 \in 1..Len(s)
  BY FirstFits DEF Going
<1>2. Head(s).id \in Folders
  BY <1>1 DEF Calls
<1>3. \A x \in found : /\ x \in Nodes /\ nodes[x] # None /\ nodes[x] \in Node
                      /\ nodes[x].parent = Head(s).id
  BY DEF Nodes, Tree
<1>4. call \in Calls
  BY <1>2, <1>3 DEF Each, Call, Calls
<1>5. call.op = "each" /\ call.id = Head(s).id /\ call.arg.mode = mode /\ call.arg.left = left
  BY DEF Each, Call
<1>6. ChildrenThere(nodes, call)
  BY <1>3, <1>5 DEF ChildrenThere
<1>. HIDE DEF call, left
<1>7. more = <<>> \/ more = <<call>>
  BY DEF call, left
<1>8. more \in Seq(Calls)
  <2>1. <<>> \in Seq(Calls) /\ <<call>> \in Seq(Calls)
    BY <1>4
  <2>. QED
    BY <1>7, <2>1
<1>9. Stack(nodes, mode, on, more \o Tail(s))
  <2>1. CASE more = <<>>
    BY <1>1, <2>1, StackPop
  <2>2. CASE more = <<call>>
    BY <1>1, <1>4, <1>5, <1>6, <2>2, QueryPush
  <2>. QED
    BY <1>7, <2>1, <2>2
<1>10. \A i \in 1..Len(more) : more[i] = call
  <2>1. CASE more = <<>>
    BY <2>1
  <2>2. CASE more = <<call>>
    BY <2>2
  <2>. QED
    BY <1>7, <2>1, <2>2
<1>11. Followed(mode, more)
  BY <1>5, <1>10 DEF Followed
<1>12. ASSUME mode # "hard"
       PROVE  LeadsOn(nodes, mode, on, Head(s), more)
  <2>1. ASSUME NEW x \in Nodes, Due(nodes, mode, on, x), Leads(nodes, Head(s), x)
        PROVE  \E i \in 1..Len(more) : Leads(nodes, more[i], x)
    <3>1. /\ x \in (IF Head(s).op = "docs" THEN Docs ELSE Folders) /\ nodes[x].parent = Head(s).id
      BY <2>1 DEF Leads, Handles
    <3>2. nodes[x] # None /\ nodes[x] \in Node
      BY <2>1 DEF Due, LiveIn, Tree
    <3>3. nodes[x].deleted = (mode = "restore")
      <4>1. nodes[x].deleted \in BOOLEAN
        BY <3>2 DEF Node
      <4>2. mode = "soft" => ~nodes[x].deleted
        BY <2>1 DEF Due, LiveIn
      <4>3. mode # "soft" => nodes[x].deleted
        BY <2>1 DEF Due
      <4>4. mode = "soft" \/ mode = "restore"
        BY <1>12 DEF Modes
      <4>5. "soft" # "restore"
        OBVIOUS
      <4>. DEFINE del == nodes[x].deleted
      <4>. HIDE DEF del
      <4>6. del \in BOOLEAN /\ (mode = "soft" => ~del) /\ (mode # "soft" => del)
        BY <4>1, <4>2, <4>3 DEF del
      <4>7. del = (mode = "restore")
        BY <4>4, <4>5, <4>6
      <4>. QED
        BY <4>7 DEF del
    <3>4. x \in found
      BY <3>1, <3>2, <3>3
    <3>5. more = <<call>> /\ [id |-> x, copy |-> nodes[x]] \in left
      BY <3>4 DEF left, call
    <3>6. Leads(nodes, call, x)
      BY <1>5, <3>5 DEF Leads, Handles
    <3>7. 1 \in 1..Len(more) /\ more[1] = call
      <4>1. more = <<call>>
        BY <3>5
      <4>2. Len(<<call>>) = 1 /\ <<call>>[1] = call /\ 1 \in 1..1
        OBVIOUS
      <4>3. Len(more) = 1 /\ more[1] = call
        BY <4>1, <4>2, Zenon
      <4>. QED
        BY <4>2, <4>3, Zenon
    <3>. QED
      BY <3>6, <3>7
  <2>. QED
    BY <2>1 DEF LeadsOn
<1>13. ASSUME mode = "restore"
       PROVE  Downward(nodes, more)
  <2>1. Downward(nodes, s)
    BY <1>13 DEF Going, RestoreOK
  <2>2. s[1].op # "save" /\ 1..(1 - 1) = {}
    BY <1>1
  <2>3. LiveIn(nodes, s[1].id)
    BY <1>1, <2>1, <2>2 DEF Downward
  <2>4. LiveIn(nodes, call.id) /\ call.op # "save"
    BY <1>1, <1>5, <2>3
  <2>. QED
    BY <1>10, <2>4 DEF Downward
<1>14. Head(s).op \in {"folders", "docs", "each"}
  OBVIOUS
<1>. HIDE DEF Going
<1>. QED
  BY <1>8, <1>9, <1>11, <1>12, <1>13, <1>14, GoOn

\* A loop visits one child of its folder.
LEMMA GoEach ==
  ASSUME NEW nodes \in Tree, SoundTree(nodes), NEW mode \in Modes, NEW on \in Nodes,
         NEW s \in Seq(Calls), s # <<>>,
         NEW all, Going(nodes, mode, on, s, all), Head(s).op = "each",
         NEW child \in Head(s).arg.left, NEW rest,
         rest = IF Head(s).arg.left = {child} THEN <<>>
                ELSE <<Each(Head(s).id, mode, Head(s).arg.left \ {child})>>
  PROVE  Going(nodes, mode, on, (Cascade(mode, child.id, child.copy) \o rest) \o Tail(s), all)
<1>. DEFINE first == Cascade(mode, child.id, child.copy)
            left  == Head(s).arg.left
            loop  == Each(Head(s).id, mode, left \ {child})
<1>1. /\ Fitting(nodes, mode, on, Head(s)) /\ Stack(nodes, mode, on, s) /\ Head(s) \in Calls
      /\ Head(s) = s[1] /\ 1 \in 1..Len(s)
  BY FirstFits DEF Going
<1>2. /\ Head(s).id \in Folders /\ left \in SUBSET [id : Nodes, copy : Node]
  BY <1>1 DEF Calls
<1>3. child.id \in Nodes /\ child.copy \in Node
  BY <1>2
<1>4. ChildrenThere(nodes, Head(s)) /\ Reaches(nodes, Head(s).id, on)
  BY <1>1 DEF Fitting
<1>5. /\ nodes[child.id] # None /\ nodes[child.id].parent = Head(s).id
      /\ child.copy.parent = nodes[child.id].parent
      /\ \A y \in left : child.id = y.id => child = y
  BY <1>4 DEF ChildrenThere
<1>6. Reaches(nodes, child.id, on)
  <2>1. child.id # None
    BY <1>3, AclAssumption DEF Nodes
  <2>2. Reaches(nodes, nodes[child.id].parent, on) => Reaches(nodes, child.id, on)
    BY <1>5, <2>1, ReachesParent
  <2>. QED
    BY <1>4, <1>5, <2>2
<1>7. loop \in Calls
  BY <1>2 DEF Each, Call, Calls
<1>8. loop.op = "each" /\ loop.id = Head(s).id /\ loop.arg.left = left \ {child}
  BY DEF Each, Call
<1>9. first \in Seq(Calls) /\ OnNode(nodes, mode, on, child.id, first)
  BY <1>3, <1>5, <1>6, CascadeOnNode
<1>10. rest = <<>> \/ rest = <<loop>>
  OBVIOUS
<1>11. \A x \in left : x # child => rest = <<loop>>
  OBVIOUS
<1>12. rest \in Seq(Calls)
  <2>1. <<>> \in Seq(Calls) /\ <<loop>> \in Seq(Calls)
    BY <1>7
  <2>. QED
    BY <1>10, <2>1
<1>13. Stack(nodes, mode, on, (first \o rest) \o Tail(s))
  BY <1>1, <1>9, <1>10, <1>12, VisitPush
<1>. HIDE DEF first, loop
<1>14. \A i \in 1..Len(rest) : rest[i] = loop
  <2>1. CASE rest = <<>>
    BY <2>1
  <2>2. CASE rest = <<loop>>
    BY <2>2
  <2>. QED
    BY <1>10, <2>1, <2>2
<1>15. first \o rest \in Seq(Calls)
  BY <1>9, <1>12, ConcatProperties
<1>16. mode = "restore" => LiveIn(nodes, Head(s).id)
  <2>1. mode = "restore" => Downward(nodes, s)
    BY DEF Going, RestoreOK
  <2>2. s[1].op # "save" /\ 1..(1 - 1) = {}
    BY <1>1
  <2>3. mode = "restore" => LiveIn(nodes, s[1].id)
    BY <1>1, <2>1, <2>2 DEF Downward
  <2>. QED
    BY <1>1, <2>3
<1>17. ASSUME mode # "hard"
       PROVE  /\ Followed(mode, first) /\ (mode = "restore" => Downward(nodes, first))
              /\ \E i \in 1..Len(first) : Leads(nodes, first[i], child.id)
  <2>1. mode \in {"soft", "restore"}
    BY <1>17 DEF Modes
  <2>2. mode = "restore" => Hung(nodes, child.copy.parent)
    BY <1>5, <1>16 DEF Hung
  <2>. QED
    BY <1>3, <2>1, <2>2, VisitMarks DEF first
<1>18. \A i \in 1..Len(rest) : rest[i].op # "save" /\ rest[i].id = Head(s).id
  BY <1>8, <1>14
<1>19. mode # "hard" => Followed(mode, first \o rest)
  BY <1>9, <1>12, <1>17, <1>18, VisitAndRest
<1>20. mode = "restore" => Downward(nodes, first \o rest)
  <2>1. SUFFICES ASSUME mode = "restore"
                 PROVE  Downward(nodes, first \o rest)
    OBVIOUS
  <2>2. \A i \in 1..Len(rest) : LiveIn(nodes, rest[i].id)
    BY <1>16, <1>18, <2>1
  <2>3. Downward(nodes, first) /\ Followed(mode, first)
    BY <1>17, <2>1
  <2>. QED
    BY <1>9, <1>12, <1>18, <2>2, <2>3, VisitAndRest
<1>21. ASSUME mode # "hard", NEW x \in Nodes, Leads(nodes, Head(s), x)
       PROVE  \E i \in 1..Len(first \o rest) : Leads(nodes, (first \o rest)[i], x)
  <2>0. /\ Len(first) \in Nat /\ Len(rest) \in Nat
        /\ \A i \in 1..Len(first) : i \in 1..Len(first \o rest) /\ (first \o rest)[i] = first[i]
        /\ \A i \in 1..Len(rest) : /\ Len(first) + i \in 1..Len(first \o rest)
                                   /\ (first \o rest)[Len(first) + i] = rest[i]
    BY <1>9, <1>12, JoinAt
  <2>1. PICK other \in left : other.id = x
    BY <1>21 DEF Leads, Handles
  <2>2. CASE other = child
    BY <1>17, <1>21, <2>0, <2>1, <2>2
  <2>3. CASE other # child
    <3>1. rest = <<loop>> /\ other \in left \ {child}
      BY <1>11, <2>1, <2>3
    <3>2. Leads(nodes, loop, x)
      BY <1>8, <2>1, <3>1 DEF Leads, Handles
    <3>3. Len(<<loop>>) = 1 /\ <<loop>>[1] = loop /\ 1 \in 1..1
      OBVIOUS
    <3>4. 1 \in 1..Len(rest) /\ rest[1] = loop
      BY <3>1, <3>3, Zenon
    <3>. QED
      BY <2>0, <3>2, <3>4
  <2>. QED
    BY <2>2, <2>3
<1>22. mode # "hard" => LeadsOn(nodes, mode, on, Head(s), first \o rest)
  BY <1>21 DEF LeadsOn
<1>23. Going(nodes, mode, on, (first \o rest) \o Tail(s), all)
  <2>1. Head(s).op \in {"folders", "docs", "each"}
    OBVIOUS
  <2>. QED
    BY <1>13, <1>15, <1>19, <1>20, <1>22, <2>1, GoOn
<1>. QED
  BY <1>23 DEF first

\* A marking cascade begins with its folder.
LEMMA OpenSave ==
  ASSUME NEW nodes \in Tree, NEW next, NEW mode \in Modes, NEW on \in Folders, NEW s \in Seq(Calls),
         NEW all, NEW u, Opening(nodes, mode, on, s, all),
         next[Head(s).id] = Head(s).arg,
         \A x \in Nodes : x # Head(s).id => next[x] = nodes[x]
  PROVE  /\ s # <<>> /\ Head(s).op = "save" /\ Head(s).id = on
         /\ Len(s) = 3
         /\ Going(next, mode, on, <<>> \o Tail(s), all)
         /\ mode # "restore" /\ Owned(nodes, on, u) => Owned(next, on, u)
<1>1. PICK rec \in Node :
        /\ s = CascadeFolder(mode, on, rec)
        /\ mode = "soft" => rec.parent = nodes[on].parent
        /\ mode = "restore" => rec.parent \in {None, nodes[on].parent} /\ Hung(nodes, rec.parent)
  BY DEF Opening
<1>2. mode \in {"soft", "restore"} /\ nodes[on] # None /\ NoneBuried(nodes)
      /\ (all => nodes[on].deleted) /\ mode # "hard"
  BY DEF Opening
<1>3. on \in Nodes /\ on # None
  BY AclAssumption DEF Nodes
<1>. DEFINE sv == Save(on, Marked(mode, rec))
            fq == Call("folders", on, mode)
            dq == Call("docs", on, mode)
            t  == <<fq, dq>>
<1>4. s = <<sv, fq, dq>>
  <2>1. <<sv>> \o <<fq, dq>> = <<sv, fq, dq>>
    BY OneAndTwo, Zenon
  <2>. QED
    BY <1>1, <1>2, <2>1 DEF CascadeFolder
<1>5. sv.op = "save" /\ sv.id = on /\ sv.arg = Marked(mode, rec)
  BY DEF Save, Call
<1>6. /\ Marked(mode, rec).parent = rec.parent /\ Marked(mode, rec).deleted = (mode = "soft")
      /\ Marked(mode, rec) \in Node /\ Marked(mode, rec) # None
  <2>1. Marked(mode, rec) \in Node
    BY DEF Marked, Node
  <2>. QED
    BY <2>1, FolderTreeAssumption DEF Marked, Node
<1>7. /\ fq.op = "folders" /\ fq.id = on /\ fq.arg = mode
      /\ dq.op = "docs" /\ dq.id = on /\ dq.arg = mode
  BY DEF Call
<1>8. fq \in Calls /\ dq \in Calls
  BY DEF Call, Calls
<1>. HIDE DEF sv, fq, dq
<1>9. s # <<>> /\ Head(s) = sv /\ Len(s) = 3 /\ Tail(s) = t
  BY <1>4
<1>10. t \in Seq(Calls) /\ Len(t) = 2 /\ t[1] = fq /\ t[2] = dq
  BY <1>8
<1>11. <<>> \o Tail(s) = t
  BY <1>9, <1>10, ConcatEmptySeq
<1>. HIDE DEF t
<1>12. next[on] = Marked(mode, rec) /\ \A x \in Nodes : x # on => next[x] = nodes[x]
  BY <1>5, <1>9
<1>13. \A i \in 1..Len(t) : i = 1 \/ i = 2
  BY <1>10
<1>14. \A i \in 1..Len(t) : t[i].id = on /\ t[i].op \in {"folders", "docs"} /\ t[i].arg = mode
  BY <1>7, <1>10, <1>13
<1>15. Stack(next, mode, on, t)
  <2>1. Reaches(next, on, on)
    BY ReachesSelf
  <2>2. \A i \in 1..Len(t) : Fitting(next, mode, on, t[i])
    BY <1>2, <1>6, <1>12, <1>14, <2>1 DEF Fitting, OfMode
  <2>3. \A i, j \in 1..Len(t) : i < j => InOrder(t[i], t[j])
    <3>1. ASSUME NEW i \in 1..Len(t), NEW j \in 1..Len(t), i < j
          PROVE  InOrder(t[i], t[j])
      <4>1. i = 1 /\ j = 2
        BY <1>10, <3>1
      <4>. QED
        BY <1>7, <1>10, <4>1 DEF InOrder
    <3>. QED
      BY <3>1
  <2>4. OnNode(next, mode, on, on, t)
    BY <1>10, <1>14, <2>2, <2>3 DEF OnNode
  <2>. QED
    BY <1>3, <1>10, <2>4, FirstStack
<1>16. Followed(mode, t)
  BY <1>14 DEF Followed
<1>17. ASSUME NEW x \in Nodes, next[x].parent = on
       PROVE  \E i \in 1..Len(t) : Leads(next, t[i], x)
  <2>1. 1 \in 1..Len(t) /\ 2 \in 1..Len(t)
    BY <1>10
  <2>2. x \in Folders => Leads(next, t[1], x)
    BY <1>7, <1>10, <1>17 DEF Leads, Handles
  <2>3. x \in Docs => Leads(next, t[2], x)
    BY <1>7, <1>10, <1>17 DEF Leads, Handles
  <2>. QED
    BY <2>1, <2>2, <2>3 DEF Nodes
<1>18. ASSUME NEW x \in Nodes, x # on, LiveIn(next, x)
       PROVE  next[x].parent = on \/ Hung(next, next[x].parent)
  <2>1. next[x] = nodes[x] /\ LiveIn(nodes, x)
    BY <1>12, <1>18 DEF LiveIn
  <2>2. Hung(nodes, nodes[x].parent)
    BY <1>2, <2>1 DEF NoneBuried
  <2>3. nodes[x].parent \in Nodes \cup {None}
    BY <2>1 DEF LiveIn, Tree, Node, Nodes
  <2>. QED
    BY <1>12, <2>1, <2>2, <2>3 DEF Hung, LiveIn
<1>19. CASE mode = "soft"
  <2>1. next[on] # None /\ next[on].deleted
    BY <1>6, <1>12, <1>19
  <2>2. Covering(next, "soft", on, t)
    <3>1. ASSUME NEW x \in Nodes, Due(next, "soft", on, x)
          PROVE  \E i \in 1..Len(t) : Leads(next, t[i], x)
      <4>1. LiveIn(next, x) /\ ~Hung(next, next[x].parent)
        BY <3>1 DEF Due
      <4>2. x # on
        BY <2>1, <4>1 DEF LiveIn
      <4>3. next[x].parent = on
        BY <1>18, <4>1, <4>2
      <4>. QED
        BY <1>17, <4>3
    <3>. QED
      BY <3>1 DEF Covering
  <2>3. SoftOK(next, on, t)
    BY <1>16, <1>19, <2>1, <2>2 DEF SoftOK
  <2>4. ASSUME Owned(nodes, on, u)
        PROVE  Owned(next, on, u)
    <3>1. SameShape(nodes, next)
      BY <1>1, <1>2, <1>6, <1>12, <1>19 DEF SameShape
    <3>2. ASSUME NEW x \in Nodes, LiveIn(next, x), Reaches(next, x, on)
          PROVE  next[x].owner = u
      <4>1. x # on
        BY <2>1, <3>2 DEF LiveIn
      <4>2. next[x] = nodes[x] /\ Reaches(nodes, x, on)
        BY <1>12, <3>1, <3>2, <4>1, ShapeReaches
      <4>. QED
        BY <2>4, <3>2, <4>2 DEF Owned, LiveIn
    <3>. QED
      BY <3>2 DEF Owned
  <2>. QED
    BY <1>5, <1>9, <1>11, <1>15, <1>19, <2>3, <2>4 DEF Going
<1>20. CASE mode = "restore"
  <2>1. LiveIn(next, on) /\ next[on].parent = rec.parent
    BY <1>6, <1>12, <1>20 DEF LiveIn
  <2>2. NoneBuried(next)
    <3>1. ASSUME NEW x \in Nodes, LiveIn(next, x)
          PROVE  Hung(next, next[x].parent)
      <4>1. CASE x = on
        <5>1. Hung(nodes, rec.parent) /\ rec.parent \in Nodes \cup {None}
          BY <1>1, <1>20 DEF Node, Nodes
        <5>. QED
          BY <1>12, <2>1, <4>1, <5>1 DEF Hung, LiveIn
      <4>2. CASE x # on
        BY <1>18, <2>1, <3>1, <4>2 DEF Hung
      <4>. QED
        BY <4>1, <4>2
    <3>. QED
      BY <3>1 DEF NoneBuried
  <2>3. Downward(next, t)
    BY <1>14, <2>1 DEF Downward
  <2>4. ASSUME all
        PROVE  Covering(next, "restore", on, t)
    <3>1. ASSUME NEW x \in Nodes, Due(next, "restore", on, x)
          PROVE  \E i \in 1..Len(t) : Leads(next, t[i], x)
      <4>. DEFINE p == next[x].parent
      <4>1. /\ next[x] # None /\ next[x].deleted /\ p # None
            /\ LiveIn(next, p) /\ Reaches(next, p, on)
        BY <3>1 DEF Due
      <4>2. x # on /\ next[x] = nodes[x]
        BY <1>12, <2>1, <4>1 DEF LiveIn
      <4>3. p \in Nodes
        BY <4>1, <4>2 DEF Tree, Node, Nodes
      <4>4. CASE p = on
        BY <1>17, <4>4
      <4>5. CASE p # on
        <5>. HIDE DEF p
        <5>1. LiveIn(nodes, p)
          BY <1>12, <4>1, <4>3, <4>5 DEF LiveIn
        <5>2. Reaches(nodes, p, on)
          <6>1. SUFFICES ASSUME ~Reaches(nodes, p, on) PROVE FALSE
            OBVIOUS
          <6>2. \A k \in Nat : Walk(next, p, k) = Walk(nodes, p, k)
            BY <1>12, <4>3, <6>1, AvoidWalk
          <6>. QED
            BY <4>1, <6>1, <6>2 DEF Reaches
        <5>3. LiveIn(nodes, on)
          BY <1>2, <1>3, <4>3, <5>1, <5>2, ReachLive
        <5>. QED
          BY <1>2, <2>4, <5>3 DEF LiveIn
      <4>. QED
        BY <4>4, <4>5
    <3>. QED
      BY <3>1 DEF Covering
  <2>5. RestoreOK(next, on, t, all)
    BY <1>16, <1>20, <2>1, <2>2, <2>3, <2>4 DEF RestoreOK
  <2>. QED
    BY <1>5, <1>9, <1>11, <1>15, <1>20, <2>5 DEF Going
<1>. QED
  BY <1>2, <1>19, <1>20

-----------------------------------------------------------------------------
(* The invariant.                                                          *)

\* A cascade that is about to save its folder, or on its way.
Cascading(nodes, r, s) ==
  /\ r.on \in Folders
  /\ Opening(nodes, r.op, r.on, s, r.trashed) \/ Going(nodes, r.op, r.on, s, r.trashed)
  /\ r.op # "restore" /\ ~r.all => Owned(nodes, r.on, r.user)

\* A request that creates, moves or changes a folder: live ones go to live
\* folders, and a deleted one stays deleted.
Editing(nodes, s) ==
  \A i \in 1..Len(s) :
    /\ s[i].op = "save"
    /\ IF s[i].arg.deleted THEN Len(s) = 1 /\ ~LiveIn(nodes, s[i].id)
                           ELSE Hung(nodes, s[i].arg.parent)

\* A request on a document puts live ones into live folders.
DocTidy(nodes, s) ==
  \A i \in 1..Len(s) : s[i].op = "save" /\ ~s[i].arg.deleted => Hung(nodes, s[i].arg.parent)

\* What a request has still to do buries nothing for good.
Tidy(nodes, r, s) ==
  /\ r.kind = "doc" => DocTidy(nodes, s)
  /\ r.kind = "folder" => IF r.op \in Modes THEN Cascading(nodes, r, s)
                                            ELSE NoneBuried(nodes) /\ Editing(nodes, s)

\* Nothing has disturbed the requests.
Clean == ~raced /\ ~intoTrash /\ fails = 0

\* The inductive invariant, on top of IInv and TreeInv.
TrashInv ==
  Clean => /\ \A c \in Clients : ~Idle(c) => Tidy(node, request[c], todo[c])
           /\ Quiet => NoneBuried(node)

\* A cascade begins with a save.
LEMMA OpenCalls ==
  ASSUME NEW nodes, NEW mode, NEW on \in Folders, NEW s, NEW all,
         Opening(nodes, mode, on, s, all)
  PROVE  /\ s # <<>> /\ Len(s) = 3 /\ Head(s).op = "save"
         /\ Head(s).id = on /\ Head(s).arg.deleted = (mode = "soft")
<1>1. PICK rec \in Node : s = CascadeFolder(mode, on, rec)
  BY DEF Opening
<1>2. mode # "hard"
  BY DEF Opening
<1>. DEFINE sv == Save(on, Marked(mode, rec))
            fq == Call("folders", on, mode)
            dq == Call("docs", on, mode)
<1>3. s = <<sv, fq, dq>>
  <2>1. <<sv>> \o <<fq, dq>> = <<sv, fq, dq>>
    BY OneAndTwo, Zenon
  <2>. QED
    BY <1>1, <1>2, <2>1 DEF CascadeFolder
<1>4. sv.op = "save" /\ sv.id = on /\ sv.arg.deleted = (mode = "soft")
  BY DEF Save, Call, Marked, Node
<1>. HIDE DEF sv, fq, dq
<1>. QED
  BY <1>3, <1>4

\* A folder request that is through leaves nothing buried.
LEMMA TidyOver ==
  ASSUME NEW nodes \in Tree, NEW r, r.kind = "folder", Tidy(nodes, r, <<>>)
  PROVE  NoneBuried(nodes)
<1>1. CASE r.op \in Modes
  <2>1. r.on \in Folders /\ Cascading(nodes, r, <<>>)
    BY <1>1 DEF Tidy, Cascading
  <2>2. Going(nodes, r.op, r.on, <<>>, r.trashed)
    BY <2>1, OpenCalls DEF Cascading
  <2>3. CASE r.op = "soft"
    <3>1. Covering(nodes, "soft", r.on, <<>>)
      BY <2>2, <2>3 DEF Going, SoftOK
    <3>2. \A x \in Nodes : ~Due(nodes, "soft", r.on, x)
      BY <3>1 DEF Covering
    <3>. QED
      BY <3>2 DEF Due, NoneBuried
  <2>4. CASE r.op = "restore"
    BY <2>2, <2>4 DEF Going, RestoreOK
  <2>5. CASE r.op = "hard"
    BY <2>2, <2>5 DEF Going, HardOK
  <2>. QED
    BY <1>1, <2>3, <2>4, <2>5 DEF Modes
<1>2. CASE r.op \notin Modes
  BY <1>2 DEF Tidy
<1>. QED
  BY <1>1, <1>2

\* While folders stay as they are, requests on documents stay tidy.
LEMMA DocTidyStays ==
  ASSUME NEW nodes, NEW next, \A f \in Folders : next[f] = nodes[f],
         NEW s \in Seq(Calls), DocTidy(nodes, s)
  PROVE  DocTidy(next, s)
<1>1. ASSUME NEW i \in 1..Len(s), s[i].op = "save", ~s[i].arg.deleted
      PROVE  Hung(next, s[i].arg.parent)
  <2>1. s[i] \in Calls
    OBVIOUS
  <2>2. s[i].arg.parent \in Folders \cup {None}
    BY <1>1, <2>1 DEF Calls, Node
  <2>3. Hung(nodes, s[i].arg.parent)
    BY <1>1 DEF DocTidy
  <2>. QED
    BY <2>2, <2>3 DEF Hung, LiveIn
<1>. QED
  BY <1>1 DEF DocTidy

\* Its first call is over.
LEMMA DocTidyPop ==
  ASSUME NEW nodes, NEW s \in Seq(Calls), s # <<>>, DocTidy(nodes, s)
  PROVE  DocTidy(nodes, <<>> \o Tail(s))
<1>. DEFINE t == <<>> \o Tail(s)
<1>1. t = Tail(s) /\ Len(s) \in Nat \ {0}
  <2>1. Tail(s) \in Seq(Calls)
    BY HeadTailProperties
  <2>. QED
    BY <2>1, ConcatEmptySeq, EmptySeq
<1>2. \A i \in 1..Len(t) : i + 1 \in 1..Len(s) /\ t[i] = s[i + 1]
  BY <1>1
<1>. HIDE DEF t
<1>3. DocTidy(nodes, t)
  BY <1>2 DEF DocTidy
<1>. QED
  BY <1>3 DEF t

\* A request begins.
LEMMA BeginTrash ==
  ASSUME TypeOK, TreeInv, TrashInv, NEW c \in Clients, Idle(c), NEW u,
         NEW kind \in {"folder", "doc", "row"}, NEW op, NEW on, NEW into, NEW calls,
         Begin(c, u, kind, op, on, into, calls),
         NEW r, r = [kind |-> kind, op |-> op, on |-> on, user |-> u,
                     trashed |-> Exists(on) /\ node[on].deleted, all |-> OwnsAll(on, u)],
         /\ SoundTree(node) /\ (kind # "row" => NoneBuried(node))
         /\ (into # None => ~node[into].deleted)
         => Tidy(node, r, calls)
  PROVE  TrashInv'
<1>1. /\ node' = node /\ fails' = fails
      /\ todo' = [todo EXCEPT ![c] = calls]
      /\ request' = [request EXCEPT ![c] = r] /\ r.kind = kind
      /\ raced' = (raced \/ \E d \in Clients : ~Idle(d) /\ Disturbs(kind, request[d].kind))
      /\ intoTrash' = (intoTrash \/ (into # None /\ node[into].deleted))
  BY DEF Begin
<1>2. /\ todo'[c] = calls /\ request'[c] = r
      /\ \A d \in Clients \ {c} : todo'[d] = todo[d] /\ request'[d] = request[d]
  BY <1>1 DEF TreeInv, TypeOK
<1>. SUFFICES ASSUME Clean'
              PROVE  /\ \A d \in Clients : ~Idle(d)' => Tidy(node', request'[d], todo'[d])
                     /\ Quiet' => NoneBuried(node')
  BY DEF TrashInv
<1>3. Clean /\ (into # None => ~node[into].deleted)
      /\ \A d \in Clients : ~Idle(d) => ~Disturbs(kind, request[d].kind)
  BY <1>1 DEF Clean
<1>4. /\ \A d \in Clients : ~Idle(d) => Tidy(node, request[d], todo[d])
      /\ Quiet => NoneBuried(node)
  BY <1>3 DEF TrashInv
<1>5. SoundTree(node)
  BY <1>3 DEF Clean, TreeInv
<1>6. kind # "row" => NoneBuried(node)
  <2>1. SUFFICES ASSUME kind # "row" PROVE Quiet
    BY <1>4
  <2>2. ASSUME NEW d \in Clients, ~Idle(d)
        PROVE  request[d].kind # "folder"
    BY <1>3, <2>1, <2>2 DEF Disturbs
  <2>. QED
    BY <2>2 DEF Quiet
<1>7. Tidy(node, r, calls)
  BY <1>3, <1>5, <1>6
<1>8. ASSUME NEW d \in Clients, ~Idle(d)'
      PROVE  Tidy(node', request'[d], todo'[d])
  <2>1. CASE d = c
    BY <1>1, <1>2, <1>7, <2>1
  <2>2. CASE d # c
    BY <1>1, <1>2, <1>4, <1>8, <2>2 DEF Idle
  <2>. QED
    BY <2>1, <2>2
<1>9. ASSUME Quiet'
      PROVE  NoneBuried(node')
  <2>1. Quiet
    <3>1. ASSUME NEW d \in Clients, ~Idle(d)
          PROVE  request[d].kind # "folder"
      BY <1>2, <1>9, <3>1 DEF Quiet, Idle
    <3>. QED
      BY <3>1 DEF Quiet
  <2>. QED
    BY <1>1, <1>4, <2>1
<1>. QED
  BY <1>8, <1>9

\* The request of c is tidy after a step, also when it is over.
TidyAfter(c) == Clean => Tidy(node', request[c], todo'[c])

\* A call is over.
LEMMA DoneTrash ==
  ASSUME TypeOK, TreeInv, TrashInv, NEW c \in Clients, ~Idle(c), NEW more, Done(c, more),
         node' \in Tree,
         Clean => /\ Tidy(node', request[c], more \o Tail(todo[c]))
                  /\ request[c].kind = "row" => node' = node
                  /\ request[c].kind = "doc" =>
                       /\ \A f \in Folders : node'[f] = node[f]
                       /\ NoneBuried(node) => NoneBuried(node')
  PROVE  TrashInv' /\ TidyAfter(c)
<1>1. /\ todo' = [todo EXCEPT ![c] = more \o Tail(todo[c])]
      /\ request' = request /\ raced' = raced /\ fails' = fails /\ intoTrash' = intoTrash
  BY DEF Done
<1>2. todo'[c] = more \o Tail(todo[c]) /\ \A d \in Clients \ {c} : todo'[d] = todo[d]
  BY <1>1 DEF TreeInv
<1>3. TidyAfter(c)
  BY <1>2 DEF TidyAfter
<1>. SUFFICES ASSUME Clean'
              PROVE  /\ \A d \in Clients : ~Idle(d)' => Tidy(node', request'[d], todo'[d])
                     /\ Quiet' => NoneBuried(node')
  BY <1>3 DEF TrashInv
<1>4. Clean
  BY <1>1 DEF Clean
<1>5. /\ \A d \in Clients : ~Idle(d) => Tidy(node, request[d], todo[d])
      /\ Quiet => NoneBuried(node)
  BY <1>4 DEF TrashInv
<1>6. Apart
  BY <1>4 DEF Clean, TreeInv
<1>7. ASSUME NEW d \in Clients, ~Idle(d)'
      PROVE  Tidy(node', request'[d], todo'[d])
  <2>1. CASE d = c
    BY <1>1, <1>2, <1>4, <2>1
  <2>2. CASE d # c
    <3>1. ~Idle(d) /\ Tidy(node, request[d], todo[d]) /\ todo'[d] = todo[d]
      BY <1>2, <1>5, <1>7, <2>2 DEF Idle
    <3>2. ~Disturbs(request[c].kind, request[d].kind)
      BY <1>6, <2>2, <3>1 DEF Apart
    <3>3. /\ request[c].kind \in {"folder", "doc", "row"}
          /\ request[d].kind \in {"folder", "doc", "row"}
      BY DEF TypeOK
    <3>4. CASE request[d].kind = "row"
      BY <1>1, <3>4 DEF Tidy
    <3>5. CASE request[d].kind = "doc"
      <4>1. \A f \in Folders : node'[f] = node[f]
        BY <1>4, <3>2, <3>3, <3>5 DEF Disturbs
      <4>2. todo[d] \in Seq(Calls) /\ DocTidy(node, todo[d])
        BY <3>1, <3>5 DEF Tidy, TypeOK
      <4>3. DocTidy(node', todo[d])
        BY <4>1, <4>2, DocTidyStays
      <4>. QED
        BY <1>1, <3>1, <3>5, <4>3 DEF Tidy
    <3>6. CASE request[d].kind = "folder"
      <4>1. node' = node
        BY <1>4, <3>2, <3>3, <3>6 DEF Disturbs
      <4>. QED
        BY <1>1, <3>1, <4>1
    <3>. QED
      BY <3>3, <3>4, <3>5, <3>6
  <2>. QED
    BY <2>1, <2>2
<1>8. ASSUME Quiet'
      PROVE  NoneBuried(node')
  <2>1. CASE request[c].kind = "folder"
    <3>1. Idle(c)'
      BY <1>1, <1>8, <2>1 DEF Quiet
    <3>2. more \o Tail(todo[c]) = <<>>
      BY <1>2, <3>1 DEF Idle
    <3>3. Tidy(node', request[c], <<>>)
      BY <1>4, <3>2
    <3>. QED
      BY <2>1, <3>3, TidyOver
  <2>2. CASE request[c].kind # "folder"
    <3>1. Quiet
      <4>1. ASSUME NEW d \in Clients, ~Idle(d), d # c
            PROVE  request[d].kind # "folder"
        BY <1>1, <1>2, <1>8, <4>1 DEF Quiet, Idle
      <4>. QED
        BY <2>2, <4>1 DEF Quiet
    <3>2. request[c].kind = "row" \/ request[c].kind = "doc"
      BY <2>2 DEF TypeOK
    <3>. QED
      BY <1>4, <1>5, <3>1, <3>2
  <2>. QED
    BY <2>1, <2>2
<1>. QED
  BY <1>7, <1>8

\* A cascade over a sound tree is not too deep for the interpreter.
LEMMA CascadeShort ==
  ASSUME NEW nodes \in Tree, SoundTree(nodes), NEW r, NEW s \in Seq(Calls), s # <<>>,
         Cascading(nodes, r, s)
  PROVE  Len(s) <= MaxCalls
<1>1. Len(s) <= 4 * MaxDepth + 5
  <2>1. CASE Opening(nodes, r.op, r.on, s, r.trashed)
    <3>1. Len(s) = 3
      BY <2>1, OpenCalls DEF Cascading
    <3>. QED
      BY <3>1, FolderTreeAssumption
  <2>2. CASE Going(nodes, r.op, r.on, s, r.trashed)
    <3>1. Stack(nodes, r.op, r.on, s)
      BY <2>2 DEF Going
    <3>. QED
      BY <3>1, StackShort
  <2>. QED
    BY <2>1, <2>2 DEF Cascading
<1>2. Len(s) \in Nat
  OBVIOUS
<1>. QED
  BY <1>1, <1>2, RecursionAssumption, FolderTreeAssumption

\* A request ends early.
LEMMA EndTrash ==
  ASSUME TypeOK, TreeInv, TrashInv, NEW c \in Clients, Fail(c) \/ TooDeep(c)
  PROVE  TrashInv'
<1>. SUFFICES ASSUME Clean'
              PROVE  /\ \A d \in Clients : ~Idle(d)' => Tidy(node', request'[d], todo'[d])
                     /\ Quiet' => NoneBuried(node')
  BY DEF TrashInv
<1>1. TooDeep(c)
  BY DEF Clean, Fail, TypeOK
<1>2. /\ todo' = [todo EXCEPT ![c] = <<>>] /\ ~Idle(c) /\ Len(todo[c]) > MaxCalls
      /\ node' = node /\ request' = request /\ raced' = raced /\ fails' = fails
      /\ intoTrash' = intoTrash
  BY <1>1 DEF TooDeep, End
<1>3. todo'[c] = <<>> /\ \A d \in Clients \ {c} : todo'[d] = todo[d]
  BY <1>2 DEF TreeInv
<1>4. Clean
  BY <1>2 DEF Clean
<1>5. /\ \A d \in Clients : ~Idle(d) => Tidy(node, request[d], todo[d])
      /\ Quiet => NoneBuried(node)
  BY <1>4 DEF TrashInv
<1>6. ASSUME NEW d \in Clients, ~Idle(d)'
      PROVE  Tidy(node', request'[d], todo'[d])
  BY <1>2, <1>3, <1>5, <1>6 DEF Idle
<1>7. ASSUME Quiet'
      PROVE  NoneBuried(node')
  <2>1. CASE request[c].kind = "folder"
    <3>1. request[c].op \notin Modes
      <4>1. SUFFICES ASSUME Cascading(node, request[c], todo[c]) PROVE FALSE
        BY <1>2, <1>5, <2>1 DEF Tidy
      <4>2. SoundTree(node) /\ node \in Tree /\ todo[c] \in Seq(Calls) /\ todo[c] # <<>>
        BY <1>2, <1>4, CallAt DEF Clean, TreeInv
      <4>3. Len(todo[c]) <= MaxCalls
        BY <4>1, <4>2, CascadeShort
      <4>4. Len(todo[c]) \in Nat /\ MaxCalls \in Nat
        BY <4>2, FolderTreeAssumption
      <4>. QED
        BY <1>2, <4>3, <4>4
    <3>. QED
      BY <1>2, <1>5, <2>1, <3>1 DEF Tidy
  <2>2. CASE request[c].kind # "folder"
    <3>1. Quiet
      <4>1. ASSUME NEW d \in Clients, ~Idle(d), d # c
            PROVE  request[d].kind # "folder"
        BY <1>2, <1>3, <1>7, <4>1 DEF Quiet, Idle
      <4>. QED
        BY <2>2, <4>1 DEF Quiet
    <3>. QED
      BY <1>2, <1>5, <3>1
  <2>. QED
    BY <2>1, <2>2
<1>. QED
  BY <1>6, <1>7

\* What is known of a request and its first call.
LEMMA CallTidy ==
  ASSUME TypeOK, TreeInv, TrashInv, Clean, NEW c \in Clients, ~Idle(c)
  PROVE  /\ SoundTree(node) /\ ~raced /\ node \in Tree
         /\ todo[c] \in Seq(Calls) /\ todo[c] # <<>> /\ Head(todo[c]) \in Calls
         /\ request[c].kind = "doc" => DocTidy(node, todo[c])
         /\ request[c].kind = "folder" =>
              IF request[c].op \in Modes THEN Cascading(node, request[c], todo[c])
              ELSE NoneBuried(node) /\ Editing(node, todo[c]) /\ Head(todo[c]).op = "save"
<1>1. SoundTree(node) /\ ~raced /\ Tidy(node, request[c], todo[c])
  BY DEF Clean, TreeInv, TrashInv
<1>2. /\ node \in Tree /\ todo[c] \in Seq(Calls) /\ todo[c] # <<>> /\ Head(todo[c]) \in Calls
  BY CallAt
<1>3. Editing(node, todo[c]) => Head(todo[c]).op = "save"
  <2>1. Len(todo[c]) \in Nat \ {0} /\ Head(todo[c]) = todo[c][1]
    BY <1>2, EmptySeq, HeadTailProperties
  <2>2. 1 \in 1..Len(todo[c])
    BY <2>1
  <2>. QED
    BY <2>1, <2>2 DEF Editing
<1>. QED
  BY <1>1, <1>2, <1>3 DEF Tidy

\* A cascade whose first call is not a save is on its way.
LEMMA OnItsWay ==
  ASSUME NEW nodes, NEW r, NEW s \in Seq(Calls), s # <<>>, Cascading(nodes, r, s),
         Head(s).op # "save", r.op \in Modes
  PROVE  /\ Going(nodes, r.op, r.on, s, r.trashed) /\ r.on \in Folders /\ r.on \in Nodes
         /\ OfMode(r.op, Head(s))
<1>1. Going(nodes, r.op, r.on, s, r.trashed) /\ r.on \in Folders
  BY OpenCalls DEF Cascading
<1>2. Stack(nodes, r.op, r.on, s)
  BY <1>1 DEF Going
<1>3. Fitting(nodes, r.op, r.on, Head(s))
  BY <1>2, FirstFits
<1>. QED
  BY <1>1, <1>3 DEF Fitting, Nodes

\* One save of a cascade.
LEMMA CascadeSave ==
  ASSUME NEW nodes \in Tree, NEW next, NEW r, r.op \in Modes, NEW s \in Seq(Calls), s # <<>>,
         Cascading(nodes, r, s), Head(s).op = "save", next[Head(s).id] = Head(s).arg,
         \A x \in Nodes : x # Head(s).id => next[x] = nodes[x]
  PROVE  Cascading(next, r, <<>> \o Tail(s))
<1>. DEFINE mode == r.op
            on == r.on
            all == r.trashed
            u == r.user
<1>1. on \in Folders /\ on \in Nodes /\ mode \in Modes
  BY DEF Cascading, Nodes
<1>2. Opening(nodes, mode, on, s, all) \/ Going(nodes, mode, on, s, all)
  BY DEF Cascading
<1>. HIDE DEF mode, on, all, u
<1>3. /\ Going(next, mode, on, <<>> \o Tail(s), all)
      /\ mode # "restore" /\ Owned(nodes, on, u) => Owned(next, on, u)
  <2>1. CASE Opening(nodes, mode, on, s, all)
    BY <1>1, <2>1, OpenSave
  <2>2. CASE Going(nodes, mode, on, s, all)
    BY <1>1, <2>2, GoSave
  <2>. QED
    BY <1>2, <2>1, <2>2
<1>. QED
  BY <1>1, <1>3 DEF Cascading, mode, on, all, u

\* One drop of a cascade.
LEMMA CascadeDrop ==
  ASSUME NEW nodes \in Tree, SoundTree(nodes), NEW next, NEW r, r.op \in Modes,
         NEW s \in Seq(Calls), s # <<>>, Cascading(nodes, r, s),
         Head(s).op = "drop", next[Head(s).id] = None,
         \A x \in Nodes : x # Head(s).id => next[x] = nodes[x],
         \A x \in Nodes : nodes[x] # None => nodes[x].parent # Head(s).id
  PROVE  Cascading(next, r, <<>> \o Tail(s))
<1>. DEFINE mode == r.op
            on == r.on
            all == r.trashed
            u == r.user
<1>1. Going(nodes, mode, on, s, all) /\ on \in Folders /\ on \in Nodes /\ mode \in Modes
  BY OnItsWay
<1>. HIDE DEF mode, on, all, u
<1>2. /\ Going(next, mode, on, <<>> \o Tail(s), all)
      /\ Owned(nodes, on, u) => Owned(next, on, u)
  BY <1>1, GoDrop
<1>. QED
  BY <1>1, <1>2 DEF Cascading, mode, on, all, u

\* A save of a request that creates or moves a folder.
LEMMA EditSave ==
  ASSUME NEW nodes \in Tree, NEW next, NEW s \in Seq(Calls), s # <<>>, NoneBuried(nodes),
         Editing(nodes, s), next[Head(s).id] = Head(s).arg,
         \A x \in Nodes : x # Head(s).id => next[x] = nodes[x]
  PROVE  NoneBuried(next) /\ Editing(next, <<>> \o Tail(s))
<1>. DEFINE e == Head(s).id
            rec == Head(s).arg
            t == <<>> \o Tail(s)
<1>1. /\ Len(s) \in Nat \ {0} /\ Head(s) = s[1] /\ Head(s) \in Calls
      /\ Tail(s) \in Seq(Calls) /\ t = Tail(s)
  <2>1. Tail(s) \in Seq(Calls)
    BY HeadTailProperties
  <2>. QED
    BY <2>1, ConcatEmptySeq, EmptySeq, HeadTailProperties
<1>2. /\ Len(t) = Len(s) - 1 /\ t \in Seq(Calls)
      /\ \A i \in 1..Len(t) : i + 1 \in 1..Len(s) /\ t[i] = s[i + 1]
  BY <1>1
<1>. HIDE DEF t
<1>3. 1 \in 1..Len(s)
  BY <1>1
<1>4. /\ Head(s).op = "save"
      /\ IF rec.deleted THEN Len(s) = 1 /\ ~LiveIn(nodes, e) ELSE Hung(nodes, rec.parent)
  BY <1>1, <1>3 DEF Editing
<1>5. e \in Nodes /\ rec \in Node /\ rec # None
  BY <1>1, <1>4, FolderTreeAssumption DEF Calls
<1>. HIDE DEF e, rec
<1>6. next[e] = rec /\ \A x \in Nodes : x # e => next[x] = nodes[x]
  BY DEF e, rec
<1>7. ASSUME NEW p \in Folders \cup {None}, Hung(nodes, p)
      PROVE  Hung(next, p)
  <2>1. CASE p = e
    <3>1. p # None
      BY <1>5, <2>1, AclAssumption DEF Nodes
    <3>2. LiveIn(nodes, e)
      BY <1>7, <2>1, <3>1 DEF Hung
    <3>3. ~rec.deleted
      BY <1>4, <3>2
    <3>. QED
      BY <1>5, <1>6, <2>1, <3>3 DEF Hung, LiveIn
  <2>2. CASE p # e
    <3>1. p = None \/ p \in Nodes
      BY DEF Nodes
    <3>. QED
      BY <1>6, <1>7, <2>2, <3>1 DEF Hung, LiveIn
  <2>. QED
    BY <2>1, <2>2
<1>8. NoneBuried(next)
  <2>1. ASSUME NEW x \in Nodes, LiveIn(next, x)
        PROVE  Hung(next, next[x].parent)
    <3>1. CASE x = e
      <4>1. ~rec.deleted
        BY <1>6, <2>1, <3>1 DEF LiveIn
      <4>2. Hung(nodes, rec.parent) /\ rec.parent \in Folders \cup {None}
        BY <1>4, <1>5, <4>1 DEF Node
      <4>. QED
        BY <1>6, <1>7, <3>1, <4>2
    <3>2. CASE x # e
      <4>1. next[x] = nodes[x] /\ LiveIn(nodes, x)
        BY <1>6, <2>1, <3>2 DEF LiveIn
      <4>2. Hung(nodes, nodes[x].parent) /\ nodes[x].parent \in Folders \cup {None}
        BY <4>1 DEF NoneBuried, LiveIn, Tree, Node
      <4>. QED
        BY <1>7, <4>1, <4>2
    <3>. QED
      BY <3>1, <3>2
  <2>. QED
    BY <2>1 DEF NoneBuried
<1>9. Editing(next, t)
  <2>1. ASSUME NEW i \in 1..Len(t)
        PROVE  t[i].op = "save" /\ ~t[i].arg.deleted /\ Hung(next, t[i].arg.parent)
    <3>1. i + 1 \in 1..Len(s) /\ t[i] = s[i + 1] /\ Len(s) # 1 /\ t[i] \in Calls
      BY <1>1, <1>2
    <3>2. t[i].op = "save" /\ ~t[i].arg.deleted /\ Hung(nodes, t[i].arg.parent)
      BY <3>1 DEF Editing
    <3>3. t[i].arg.parent \in Folders \cup {None}
      BY <3>1, <3>2 DEF Calls, Node
    <3>. QED
      BY <1>7, <3>2, <3>3
  <2>. QED
    BY <2>1 DEF Editing
<1>. QED
  BY <1>8, <1>9 DEF t

\* A save or drop of a document leaves nothing live in a deleted folder.
LEMMA DocWrite ==
  ASSUME NEW nodes \in Tree, NEW next, NEW d \in Docs, NoneBuried(nodes),
         next[d] # None /\ ~next[d].deleted => Hung(nodes, next[d].parent),
         next[d] # None => next[d] \in Node,
         \A x \in Nodes : x # d => next[x] = nodes[x]
  PROVE  NoneBuried(next)
<1>1. \A p \in Folders \cup {None} : Hung(nodes, p) => Hung(next, p)
  BY AclAssumption DEF Hung, LiveIn, Nodes
<1>2. ASSUME NEW x \in Nodes, LiveIn(next, x)
      PROVE  Hung(next, next[x].parent)
  <2>1. CASE x = d
    BY <1>1, <1>2, <2>1 DEF LiveIn, Node
  <2>2. CASE x # d
    <3>1. next[x] = nodes[x] /\ LiveIn(nodes, x)
      BY <1>2, <2>2 DEF LiveIn
    <3>2. Hung(nodes, nodes[x].parent) /\ nodes[x].parent \in Folders \cup {None}
      BY <3>1 DEF NoneBuried, LiveIn, Tree, Node
    <3>. QED
      BY <1>1, <3>1, <3>2
  <2>. QED
    BY <2>1, <2>2
<1>. QED
  BY <1>2 DEF NoneBuried

\* A save.
LEMMA SaveTrash ==
  ASSUME TypeOK, TreeInv, TrashInv, NEW c \in Clients, DoSave(c), node' \in Tree
  PROVE  TrashInv' /\ TidyAfter(c)
<1>. DEFINE e == Head(todo[c]).id
            rec == Head(todo[c]).arg
<1>1. /\ ~Idle(c) /\ Head(todo[c]).op = "save" /\ Done(c, <<>>)
      /\ node' = [node EXCEPT ![e] = rec]
  BY DEF DoSave, Doing
<1>2. e \in Nodes /\ rec \in Node
  BY <1>1, CallAt DEF Calls
<1>3. node'[e] = rec /\ \A x \in Nodes : x # e => node'[x] = node[x]
  BY <1>1, <1>2, CallAt DEF Tree
<1>4. SUFFICES ASSUME Clean
               PROVE  /\ Tidy(node', request[c], <<>> \o Tail(todo[c]))
                      /\ request[c].kind = "row" => node' = node
                      /\ request[c].kind = "doc" =>
                           /\ \A f \in Folders : node'[f] = node[f]
                           /\ NoneBuried(node) => NoneBuried(node')
  BY <1>1, DoneTrash
<1>5. /\ SoundTree(node) /\ ~raced /\ node \in Tree
      /\ todo[c] \in Seq(Calls) /\ todo[c] # <<>> /\ Head(todo[c]) \in Calls
      /\ request[c].kind = "doc" => DocTidy(node, todo[c])
      /\ request[c].kind = "folder" =>
           IF request[c].op \in Modes THEN Cascading(node, request[c], todo[c])
           ELSE NoneBuried(node) /\ Editing(node, todo[c]) /\ Head(todo[c]).op = "save"
  BY <1>1, <1>4, CallTidy
<1>6. request[c].kind # "row"
  BY <1>1, <1>5, CallKind
<1>7. CASE request[c].kind = "doc"
  <2>1. e \in Docs
    BY <1>1, <1>5, <1>7, CallKind DEF DocCalls
  <2>2. \A f \in Folders : node'[f] = node[f]
    BY <1>3, <2>1, AclAssumption DEF Nodes
  <2>3. DocTidy(node', <<>> \o Tail(todo[c]))
    <3>1. DocTidy(node, <<>> \o Tail(todo[c]))
      BY <1>5, <1>7, DocTidyPop
    <3>2. <<>> \o Tail(todo[c]) \in Seq(Calls)
      BY <1>1, CallAt
    <3>. QED
      BY <2>2, <3>1, <3>2, DocTidyStays
  <2>4. rec # None /\ (~rec.deleted => Hung(node, rec.parent))
    <3>1. Len(todo[c]) \in Nat \ {0} /\ Head(todo[c]) = todo[c][1]
      BY <1>5, EmptySeq, HeadTailProperties
    <3>2. 1 \in 1..Len(todo[c])
      BY <3>1
    <3>. QED
      BY <1>1, <1>2, <1>5, <1>7, <3>1, <3>2, FolderTreeAssumption DEF DocTidy
  <2>. HIDE DEF e, rec
  <2>5. NoneBuried(node) => NoneBuried(node')
    BY <1>2, <1>3, <1>5, <2>1, <2>4, DocWrite
  <2>. QED
    BY <1>7, <2>2, <2>3, <2>5 DEF Tidy
<1>8. CASE request[c].kind = "folder" /\ request[c].op \in Modes
  <2>1. Cascading(node, request[c], todo[c])
    BY <1>5, <1>8
  <2>2. /\ node'[Head(todo[c]).id] = Head(todo[c]).arg
        /\ \A x \in Nodes : x # Head(todo[c]).id => node'[x] = node[x]
    BY <1>3
  <2>. HIDE DEF e, rec
  <2>3. Cascading(node', request[c], <<>> \o Tail(todo[c]))
    BY <1>1, <1>5, <1>8, <2>1, <2>2, CascadeSave
  <2>. QED
    BY <1>8, <2>3 DEF Tidy
<1>9. CASE request[c].kind = "folder" /\ request[c].op \notin Modes
  <2>1. NoneBuried(node) /\ Editing(node, todo[c])
    BY <1>5, <1>9
  <2>2. NoneBuried(node') /\ Editing(node', <<>> \o Tail(todo[c]))
    BY <1>3, <1>5, <2>1, EditSave
  <2>. QED
    BY <1>9, <2>2 DEF Tidy
<1>. QED
  BY <1>1, <1>6, <1>7, <1>8, <1>9, CallAt

\* A drop.
LEMMA DropTrash ==
  ASSUME TypeOK, TreeInv, TrashInv, NEW c \in Clients, DoDrop(c), node' \in Tree
  PROVE  TrashInv' /\ TidyAfter(c)
<1>. DEFINE e == Head(todo[c]).id
<1>1. /\ ~Idle(c) /\ Head(todo[c]).op = "drop" /\ Done(c, <<>>)
      /\ node' = [node EXCEPT ![e] = None]
  BY DEF DoDrop, Doing
<1>2. e \in Nodes
  BY <1>1, CallAt DEF Calls
<1>3. node'[e] = None /\ \A x \in Nodes : x # e => node'[x] = node[x]
  BY <1>1, <1>2, CallAt DEF Tree
<1>4. SUFFICES ASSUME Clean
               PROVE  /\ Tidy(node', request[c], <<>> \o Tail(todo[c]))
                      /\ request[c].kind = "row" => node' = node
                      /\ request[c].kind = "doc" =>
                           /\ \A f \in Folders : node'[f] = node[f]
                           /\ NoneBuried(node) => NoneBuried(node')
  BY <1>1, DoneTrash
<1>5. /\ SoundTree(node) /\ ~raced /\ node \in Tree
      /\ todo[c] \in Seq(Calls) /\ todo[c] # <<>> /\ Head(todo[c]) \in Calls
      /\ request[c].kind = "doc" => DocTidy(node, todo[c])
      /\ request[c].kind = "folder" =>
           IF request[c].op \in Modes THEN Cascading(node, request[c], todo[c])
           ELSE NoneBuried(node) /\ Editing(node, todo[c]) /\ Head(todo[c]).op = "save"
  BY <1>1, <1>4, CallTidy
<1>6. request[c].kind # "row"
  BY <1>1, <1>5, CallKind
<1>7. CASE request[c].kind = "doc"
  <2>1. e \in Docs
    BY <1>1, <1>5, <1>7, CallKind DEF DocCalls
  <2>2. \A f \in Folders : node'[f] = node[f]
    BY <1>3, <2>1, AclAssumption DEF Nodes
  <2>3. DocTidy(node', <<>> \o Tail(todo[c]))
    <3>1. DocTidy(node, <<>> \o Tail(todo[c]))
      BY <1>5, <1>7, DocTidyPop
    <3>2. <<>> \o Tail(todo[c]) \in Seq(Calls)
      BY <1>1, CallAt
    <3>. QED
      BY <2>2, <3>1, <3>2, DocTidyStays
  <2>. HIDE DEF e
  <2>5. NoneBuried(node) => NoneBuried(node')
    BY <1>3, <1>5, <2>1, DocWrite
  <2>. QED
    BY <1>7, <2>2, <2>3, <2>5 DEF Tidy
<1>8. CASE request[c].kind = "folder"
  <2>1. request[c].op \in Modes /\ Cascading(node, request[c], todo[c])
    BY <1>1, <1>5, <1>8
  <2>2. /\ node'[Head(todo[c]).id] = None
        /\ \A x \in Nodes : x # Head(todo[c]).id => node'[x] = node[x]
        /\ \A x \in Nodes : node[x] # None => node[x].parent # Head(todo[c]).id
    BY <1>1, <1>3, <1>5, <1>8, DropLast
  <2>. HIDE DEF e
  <2>3. Cascading(node', request[c], <<>> \o Tail(todo[c]))
    BY <1>1, <1>5, <2>1, <2>2, CascadeDrop
  <2>. QED
    BY <1>8, <2>1, <2>3 DEF Tidy
<1>. QED
  BY <1>1, <1>6, <1>7, <1>8, CallAt

\* A call that leaves the nodes alone.
LEMMA QuietTrash ==
  ASSUME TypeOK, TreeInv, TrashInv, NEW c \in Clients, ~Idle(c), NEW more, Done(c, more),
         node' = node,
         Clean /\ request[c].kind = "doc" => more = <<>>,
         Clean /\ request[c].kind = "folder" =>
           /\ request[c].op \in Modes
           /\ Going(node, request[c].op, request[c].on, more \o Tail(todo[c]), request[c].trashed)
  PROVE  TrashInv' /\ TidyAfter(c)
<1>1. node' \in Tree
  BY CallAt
<1>2. SUFFICES ASSUME Clean
               PROVE  Tidy(node', request[c], more \o Tail(todo[c]))
  BY <1>1, DoneTrash
<1>3. /\ todo[c] \in Seq(Calls) /\ todo[c] # <<>>
      /\ request[c].kind = "doc" => DocTidy(node, todo[c])
      /\ request[c].kind = "folder" /\ request[c].op \in Modes =>
           Cascading(node, request[c], todo[c])
  BY <1>2, CallTidy
<1>4. request[c].kind = "doc" => DocTidy(node, more \o Tail(todo[c]))
  BY <1>2, <1>3, DocTidyPop
<1>5. request[c].kind = "folder" =>
        request[c].op \in Modes /\ Cascading(node, request[c], more \o Tail(todo[c]))
  BY <1>2, <1>3 DEF Cascading
<1>. QED
  BY <1>4, <1>5 DEF Tidy

\* What hangs on a node is purged.
LEMMA PurgeTrash ==
  ASSUME TypeOK, TreeInv, TrashInv, NEW c \in Clients, DoPurge(c)
  PROVE  TrashInv' /\ TidyAfter(c)
<1>1. ~Idle(c) /\ Head(todo[c]).op = "purge" /\ Done(c, <<>>) /\ node' = node
  BY DEF DoPurge, Doing
<1>2. ASSUME Clean, request[c].kind = "folder"
      PROVE  /\ request[c].op \in Modes
             /\ Going(node, request[c].op, request[c].on, <<>> \o Tail(todo[c]), request[c].trashed)
  <2>1. /\ todo[c] \in Seq(Calls) /\ todo[c] # <<>>
        /\ request[c].op \in Modes /\ Cascading(node, request[c], todo[c])
    BY <1>1, <1>2, CallTidy
  <2>2. /\ Going(node, request[c].op, request[c].on, todo[c], request[c].trashed)
        /\ request[c].on \in Nodes
    BY <1>1, <2>1, OnItsWay
  <2>. QED
    BY <1>1, <2>1, <2>2, GoPurge
<1>. QED
  BY <1>1, <1>2, QuietTrash

\* An access row is written.
LEMMA RowTrash ==
  ASSUME TypeOK, TreeInv, TrashInv, NEW c \in Clients, DoRow(c)
  PROVE  TrashInv' /\ TidyAfter(c)
<1>1. ~Idle(c) /\ Head(todo[c]).op = "row" /\ Done(c, <<>>) /\ node' = node
  BY DEF DoRow, Doing
<1>2. ASSUME Clean, request[c].kind = "folder"
      PROVE  FALSE
  <2>1. /\ todo[c] \in Seq(Calls) /\ todo[c] # <<>>
        /\ request[c].op \in Modes /\ Cascading(node, request[c], todo[c])
    BY <1>1, <1>2, CallTidy
  <2>2. OfMode(request[c].op, Head(todo[c]))
    BY <1>1, <2>1, OnItsWay
  <2>. QED
    BY <1>1, <2>2 DEF OfMode
<1>. QED
  BY <1>1, <1>2, QuietTrash

\* A cascade searches a folder.
LEMMA FindTrash ==
  ASSUME TypeOK, TreeInv, TrashInv, NEW c \in Clients, DoFind(c)
  PROVE  TrashInv' /\ TidyAfter(c)
<1>. DEFINE call  == Head(todo[c])
            mode  == request[c].op
            on    == request[c].on
            found == Found(call.arg, IF call.op = "docs" THEN Docs ELSE Folders, call.id)
            more  == IF found = {} THEN <<>>
                     ELSE <<Each(call.id, call.arg, {[id |-> e, copy |-> node[e]] : e \in found})>>
<1>1. /\ ~Idle(c) /\ call.op \in {"folders", "docs"} /\ Done(c, more) /\ node' = node
  BY DEF DoFind, Doing
<1>2. ASSUME Clean
      PROVE  request[c].kind = "folder"
  BY <1>1, <1>2, LoopKind DEF Clean
<1>3. ASSUME Clean, request[c].kind = "folder"
      PROVE  mode \in Modes /\ Going(node, mode, on, more \o Tail(todo[c]), request[c].trashed)
  <2>1. /\ todo[c] \in Seq(Calls) /\ todo[c] # <<>> /\ node \in Tree
        /\ mode \in Modes /\ Cascading(node, request[c], todo[c])
    BY <1>1, <1>3, CallTidy
  <2>2. Going(node, mode, on, todo[c], request[c].trashed) /\ on \in Nodes /\ OfMode(mode, call)
    BY <1>1, <2>1, OnItsWay
  <2>3. call.arg = mode
    BY <1>1, <2>2 DEF OfMode
  <2>4. found = {x \in IF call.op = "docs" THEN Docs ELSE Folders :
                   /\ node[x] # None /\ node[x].parent = call.id
                   /\ mode = "hard" \/ node[x].deleted = (mode = "restore")}
    BY <2>3 DEF Found, Exists
  <2>5. more = IF found = {} THEN <<>>
               ELSE <<Each(call.id, mode, {[id |-> x, copy |-> node[x]] : x \in found})>>
    BY <2>3
  <2>. HIDE DEF more, found, mode, on
  <2>. QED
    BY <1>1, <2>1, <2>2, <2>4, <2>5, GoFind
<1>. HIDE DEF more
<1>. QED
  BY <1>1, <1>2, <1>3, QuietTrash

\* A cascade goes over what it found.
LEMMA EachTrash ==
  ASSUME TypeOK, TreeInv, TrashInv, NEW c \in Clients, DoEach(c)
  PROVE  TrashInv' /\ TidyAfter(c)
<1>. DEFINE call == Head(todo[c])
            mode == request[c].op
            on   == request[c].on
<1>1. ~Idle(c) /\ call.op = "each" /\ node' = node
  BY DEF DoEach, Doing
<1>2. PICK child \in call.arg.left :
        Done(c, Cascade(call.arg.mode, child.id, child.copy)
                  \o IF call.arg.left = {child} THEN <<>>
                     ELSE <<Each(call.id, call.arg.mode, call.arg.left \ {child})>>)
  BY DEF DoEach
<1>. DEFINE rest == IF call.arg.left = {child} THEN <<>>
                    ELSE <<Each(call.id, call.arg.mode, call.arg.left \ {child})>>
            more == Cascade(call.arg.mode, child.id, child.copy) \o rest
<1>3. Done(c, more)
  BY <1>2
<1>4. ASSUME Clean
      PROVE  request[c].kind = "folder"
  BY <1>1, <1>4, LoopKind DEF Clean
<1>5. ASSUME Clean, request[c].kind = "folder"
      PROVE  mode \in Modes /\ Going(node, mode, on, more \o Tail(todo[c]), request[c].trashed)
  <2>1. /\ todo[c] \in Seq(Calls) /\ todo[c] # <<>> /\ node \in Tree /\ SoundTree(node)
        /\ mode \in Modes /\ Cascading(node, request[c], todo[c])
    BY <1>1, <1>5, CallTidy
  <2>2. Going(node, mode, on, todo[c], request[c].trashed) /\ on \in Nodes /\ OfMode(mode, call)
    BY <1>1, <2>1, OnItsWay
  <2>3. call.arg.mode = mode
    BY <1>1, <2>2 DEF OfMode
  <2>4. rest = IF call.arg.left = {child} THEN <<>>
               ELSE <<Each(call.id, mode, call.arg.left \ {child})>>
    BY <2>3
  <2>5. more = Cascade(mode, child.id, child.copy) \o rest
    BY <2>3
  <2>. HIDE DEF more, rest, mode, on
  <2>6. Going(node, mode, on, (Cascade(mode, child.id, child.copy) \o rest) \o Tail(todo[c]),
              request[c].trashed)
    BY <1>1, <2>1, <2>2, <2>4, GoEach
  <2>. QED
    BY <2>1, <2>5, <2>6
<1>. HIDE DEF more
<1>. QED
  BY <1>1, <1>3, <1>4, <1>5, QuietTrash

-----------------------------------------------------------------------------
(* The requests.                                                           *)

\* What a walk over a sound tree meets, it meets within its bound.
LEMMA ReachSpan ==
  ASSUME NEW nodes \in Tree, SoundTree(nodes), NEW x \in Nodes, nodes[x] # None,
         NEW k \in Nat, Walk(nodes, x, k) # None
  PROVE  k \in Span
<1>. DEFINE N == Cardinality(Folders)
            p == nodes[x].parent
<1>1. x # None /\ N \in Nat /\ MaxDepth \in Nat
  BY AclAssumption, FolderTreeAssumption, SpanFinite DEF Nodes
<1>2. CASE k = 0
  BY <1>2, SpanFinite
<1>3. CASE k # 0
  <2>1. k - 1 \in Nat /\ (k - 1) + 1 = k
    BY <1>3
  <2>2. Walk(nodes, p, k - 1) # None
    <3>1. \A n \in Nat : Walk(nodes, x, n + 1) = Walk(nodes, nodes[x].parent, n)
      BY <1>1, WalkFromParent
    <3>2. Walk(nodes, x, (k - 1) + 1) = Walk(nodes, p, k - 1)
      BY <2>1, <3>1
    <3>. QED
      BY <2>1, <3>2
  <2>3. p # None
    <3>1. SUFFICES ASSUME p = None PROVE FALSE
      OBVIOUS
    <3>2. Walk(nodes, p, 0) = None
      BY <3>1, WalkSteps
    <3>. HIDE DEF p
    <3>. QED
      BY <2>1, <2>2, <3>2, WalkOver
  <2>4. p \in Folders /\ nodes[p] # None
    BY <2>3 DEF SoundTree, Whole, Tree, Node
  <2>5. Walk(nodes, p, MaxDepth) = None
    BY <2>4 DEF SoundTree, Shallow
  <2>. DEFINE Bad == {m \in Nat : Walk(nodes, p, m) = None}
  <2>6. Bad \in SUBSET Nat /\ MaxDepth \in Bad
    BY <1>1, <2>5
  <2>7. PICK n \in Bad : \A m \in Bad : n <= m
    <3>. HIDE DEF Bad
    <3>. QED
      BY <2>6, LeastNumber
  <2>8. n \in Nat /\ Walk(nodes, p, n) = None /\ \A m \in Nat : m < n => Walk(nodes, p, m) # None
    BY <2>7
  <2>. HIDE DEF Bad, p
  <2>9. n <= N
    BY <2>4, <2>8, MetByWalk
  <2>10. ~(n <= k - 1)
    BY <2>1, <2>2, <2>8, WalkOver
  <2>11. k <= N
    BY <1>1, <2>1, <2>8, <2>9, <2>10
  <2>. QED
    BY <2>11, SpanFinite
<1>. QED
  BY <1>2, <1>3

\* Who may delete a nested folder without being the root owner owns all that is
\* live in it.
LEMMA OwnedBelow ==
  ASSUME TypeOK, SoundTree(node), NoneBuried(node), NEW f \in Folders, NEW u \in Users,
         CanDelete(f, u), ~OwnsAll(f, u)
  PROVE  Owned(node, f, u)
<1>0. f \in Nodes /\ f # None /\ node \in Tree
  BY AclAssumption DEF Nodes, TypeOK, Tree
<1>1. /\ Exists(f) /\ node[f].owner = u /\ AllChildrenOwnedBy(f, u)
  BY AclAssumption DEF CanDelete, OwnsAll
<1>2. ASSUME NEW x \in Nodes, LiveIn(node, x), Reaches(node, x, f), x # f
      PROVE  node[x].owner = u
  <2>1. PICK k \in Nat : Walk(node, x, k) = f
    BY <1>2 DEF Reaches
  <2>2. k # 0
    BY <1>2, <2>1, WalkSteps
  <2>3. k \in Span \ {0}
    BY <1>0, <1>2, <2>1, <2>2, ReachSpan DEF LiveIn
  <2>4. Up(x, k) = f
    BY <2>1, UpIsWalk
  <2>5. \A m \in Nat : m <= k => LiveIn(node, Walk(node, x, m))
    BY <1>0, <1>2, <2>1, UpLive
  <2>6. \A m \in 0..(k - 1) : ~node[Up(x, m)].deleted
    BY <2>5, UpIsWalk DEF LiveIn
  <2>7. x \in Below(f)
    BY <1>2, <2>3, <2>4 DEF Below, Exists, LiveIn
  <2>. QED
    BY <1>1, <2>3, <2>4, <2>6, <2>7 DEF AllChildrenOwnedBy
<1>. QED
  BY <1>1, <1>2 DEF Owned

\* One save.
LEMMA TidySave ==
  ASSUME NEW nodes, NEW e, NEW rec
  PROVE  /\ (IF rec.deleted THEN ~LiveIn(nodes, e) ELSE Hung(nodes, rec.parent)) =>
              Editing(nodes, <<Save(e, rec)>>)
         /\ rec.deleted \/ Hung(nodes, rec.parent) => DocTidy(nodes, <<Save(e, rec)>>)
<1>. DEFINE sv == Save(e, rec)
<1>1. sv.op = "save" /\ sv.id = e /\ sv.arg = rec
  BY DEF Save, Call
<1>. HIDE DEF sv
<1>2. Len(<<sv>>) = 1 /\ \A i \in 1..Len(<<sv>>) : <<sv>>[i] = sv
  OBVIOUS
<1>. QED
  BY <1>1, <1>2 DEF Editing, DocTidy, sv

\* create_folder: below a live folder, or at the top.
LEMMA CreateFolderTrash ==
  ASSUME TypeOK, TreeInv, TrashInv, NEW c \in Clients, Ready(c), NEW u \in Users,
         NEW f \in Folders, NEW p \in Folders \cup {None}, CreateFolder(c, u, f, p)
  PROVE  TrashInv'
<1>. DEFINE rec == [owner |-> u, parent |-> p, root |-> IF p = None THEN None ELSE RootFor(p),
                    general |-> None, deleted |-> FALSE]
            top == [rec EXCEPT !.root = f]
            calls == IF p = None THEN <<Save(f, rec), Save(f, top)>> ELSE <<Save(f, rec)>>
<1>1. /\ Begin(c, u, "folder", "create", f, p, calls) /\ Idle(c)
      /\ p # None => Exists(p)
  BY DEF CreateFolder, Ready
<1>2. ~rec.deleted /\ ~top.deleted /\ rec.parent = p /\ top.parent = p
  OBVIOUS
<1>. HIDE DEF rec, top
<1>3. PICK r : r = [kind |-> "folder", op |-> "create", on |-> f, user |-> u,
                    trashed |-> Exists(f) /\ node[f].deleted, all |-> OwnsAll(f, u)]
  OBVIOUS
<1>4. ASSUME NoneBuried(node), p # None => ~node[p].deleted
      PROVE  Tidy(node, r, calls)
  <2>1. Hung(node, p)
    BY <1>1, <1>4 DEF Hung, LiveIn, Exists
  <2>2. Editing(node, calls)
    <3>1. CASE p # None
      <4>1. Editing(node, <<Save(f, rec)>>)
        BY <1>2, <2>1, TidySave
      <4>. QED
        BY <3>1, <4>1
    <3>2. CASE p = None
      <4>. DEFINE a == Save(f, rec)
                  b == Save(f, top)
      <4>1. a.op = "save" /\ a.arg = rec /\ b.op = "save" /\ b.arg = top
        BY DEF Save, Call
      <4>. HIDE DEF a, b
      <4>2. \A i \in 1..Len(<<a, b>>) : <<a, b>>[i] = a \/ <<a, b>>[i] = b
        OBVIOUS
      <4>3. Editing(node, <<a, b>>)
        BY <1>2, <2>1, <4>1, <4>2 DEF Editing
      <4>. QED
        BY <3>2, <4>3 DEF a, b
    <3>. QED
      BY <3>1, <3>2
  <2>3. r.kind = "folder" /\ r.op \notin Modes
    BY <1>3 DEF Modes
  <2>. QED
    BY <1>4, <2>2, <2>3 DEF Tidy
<1>. HIDE DEF calls
<1>. QED
  BY <1>1, <1>3, <1>4, BeginTrash

\* update_folder: a live folder goes to a live one, a deleted one stays deleted.
LEMMA UpdateFolderTrash ==
  ASSUME TypeOK, TreeInv, TrashInv, NEW c \in Clients, Ready(c), NEW u \in Users,
         NEW f \in Folders, NEW p \in Folders \cup {None},
         NEW general \in Granted \cup {None, "keep"}, UpdateFolder(c, u, f, p, general)
  PROVE  TrashInv'
<1>. DEFINE rec == [node[f] EXCEPT !.parent  = IF p = None THEN @ ELSE p,
                                   !.general = IF general = "keep" THEN @ ELSE general]
            into == IF node[f].deleted THEN None ELSE p
            calls == <<Save(f, rec)>>
<1>1. /\ Begin(c, u, "folder", "update", f, into, calls) /\ Idle(c)
      /\ Exists(f) /\ (p # None => Exists(p))
  BY DEF UpdateFolder, Ready
<1>2. f \in Nodes /\ node[f] \in Node /\ node[f] # None
  BY <1>1 DEF TypeOK, Nodes, Exists
<1>3. rec.deleted = node[f].deleted /\ rec.parent = IF p = None THEN node[f].parent ELSE p
  BY <1>2 DEF Node
<1>. HIDE DEF rec
<1>4. PICK r : r = [kind |-> "folder", op |-> "update", on |-> f, user |-> u,
                    trashed |-> Exists(f) /\ node[f].deleted, all |-> OwnsAll(f, u)]
  OBVIOUS
<1>5. ASSUME NoneBuried(node), into # None => ~node[into].deleted
      PROVE  Tidy(node, r, calls)
  <2>1. CASE node[f].deleted
    <3>1. ~LiveIn(node, f)
      BY <2>1 DEF LiveIn
    <3>2. Editing(node, calls)
      BY <1>3, <2>1, <3>1, TidySave
    <3>. QED
      BY <1>4, <1>5, <3>2 DEF Tidy, Modes
  <2>2. CASE ~node[f].deleted
    <3>1. Hung(node, rec.parent)
      <4>1. CASE p = None
        <5>1. LiveIn(node, f)
          BY <1>2, <2>2 DEF LiveIn
        <5>. QED
          BY <1>2, <1>3, <1>5, <4>1, <5>1 DEF NoneBuried
      <4>2. CASE p # None
        BY <1>1, <1>3, <1>5, <2>2, <4>2 DEF Hung, LiveIn, Exists
      <4>. QED
        BY <4>1, <4>2
    <3>2. Editing(node, calls)
      BY <1>3, <2>2, <3>1, TidySave
    <3>. QED
      BY <1>4, <1>5, <3>2 DEF Tidy, Modes
  <2>. QED
    BY <2>1, <2>2
<1>. HIDE DEF calls, into
<1>. QED
  BY <1>1, <1>4, <1>5, BeginTrash

\* soft_delete_folder, hard_delete_folder.
LEMMA DeleteFolderTrash ==
  ASSUME TypeOK, TreeInv, TrashInv, NEW c \in Clients, Ready(c), NEW u \in Users,
         NEW f \in Folders, NEW mode \in Modes, DeleteFolder(c, u, f, mode)
  PROVE  TrashInv'
<1>. DEFINE calls == Cascade(mode, f, node[f])
<1>1. /\ Begin(c, u, "folder", mode, f, None, calls) /\ Idle(c)
      /\ CanDelete(f, u) /\ Exists(f) /\ mode # "restore"
  BY DEF DeleteFolder, Ready, CanDelete
<1>2. f \in Nodes /\ node[f] \in Node /\ node[f] # None /\ f # None
  BY <1>1, AclAssumption DEF TypeOK, Nodes, Exists
<1>3. PICK r : r = [kind |-> "folder", op |-> mode, on |-> f, user |-> u,
                    trashed |-> Exists(f) /\ node[f].deleted, all |-> OwnsAll(f, u)]
  OBVIOUS
<1>4. ASSUME NoneBuried(node), SoundTree(node)
      PROVE  Tidy(node, r, calls)
  <2>1. /\ r.kind = "folder" /\ r.op = mode /\ r.on = f /\ r.user = u
        /\ r.all <=> OwnsAll(f, u)
        /\ r.trashed <=> (Exists(f) /\ node[f].deleted)
    BY <1>3
  <2>2. ~r.all => Owned(node, f, u)
    BY <1>1, <1>4, <2>1, OwnedBelow
  <2>3. CASE mode = "soft"
    <3>1. calls = CascadeFolder(mode, f, node[f])
      BY DEF Cascade
    <3>2. r.trashed => node[f].deleted
      BY <2>1
    <3>3. Opening(node, mode, f, calls, r.trashed)
      BY <1>2, <1>4, <2>3, <3>1, <3>2 DEF Opening
    <3>. QED
      BY <2>1, <2>2, <3>3 DEF Tidy, Cascading
  <2>4. CASE mode = "hard"
    <3>1. Reaches(node, f, f)
      BY ReachesSelf
    <3>2. calls \in Seq(Calls) /\ OnNode(node, mode, f, f, calls)
      BY <1>2, <3>1, CascadeOnNode
    <3>3. WillDrop(calls, f)
      <4>1. PICK s \in Seq(Calls) : /\ s = Cascade("hard", f, node[f])
                                     /\ Len(s) = 4 /\ s[4] = Call("drop", f, None)
        <5>1. "hard" \in Modes
          BY DEF Modes
        <5>. QED
          BY <1>2, <5>1, CascadeCalls
      <4>2. 4 \in 1..Len(s) /\ s[4].op = "drop" /\ s[4].id = f
        BY <4>1 DEF Call
      <4>3. WillDrop(s, f)
        BY <4>2 DEF WillDrop
      <4>. QED
        BY <2>4, <4>1, <4>3
    <3>. HIDE DEF calls
    <3>4. Stack(node, mode, f, calls)
      BY <1>2, <3>2, FirstStack
    <3>5. Going(node, mode, f, calls, r.trashed)
      BY <1>4, <2>4, <3>3, <3>4 DEF Going, HardOK
    <3>. QED
      BY <2>1, <2>2, <3>5 DEF Tidy, Cascading
  <2>. QED
    BY <1>1, <2>3, <2>4 DEF Modes
<1>. HIDE DEF calls
<1>. QED
  BY <1>1, <1>3, <1>4, BeginTrash

\* restore_folder: to the top, or in a live folder.
LEMMA RestoreFolderTrash ==
  ASSUME TypeOK, TreeInv, TrashInv, NEW c \in Clients, Ready(c), NEW u \in Users,
         NEW f \in Folders, RestoreFolder(c, u, f)
  PROVE  TrashInv'
<1>. DEFINE p == node[f].parent
            rec == IF p # None /\ Exists(p) /\ ~Live(p) THEN [node[f] EXCEPT !.parent = None]
                                                        ELSE node[f]
            calls == CascadeFolder("restore", f, rec)
<1>1. /\ Begin(c, u, "folder", "restore", f, None, calls) /\ Idle(c) /\ Exists(f)
  BY DEF RestoreFolder, Ready, CanDelete
<1>2. f \in Nodes /\ node[f] \in Node /\ node[f] # None /\ f # None
  BY <1>1, AclAssumption DEF TypeOK, Nodes, Exists
<1>3. PICK r : r = [kind |-> "folder", op |-> "restore", on |-> f, user |-> u,
                    trashed |-> Exists(f) /\ node[f].deleted, all |-> OwnsAll(f, u)]
  OBVIOUS
<1>4. ASSUME NoneBuried(node), SoundTree(node)
      PROVE  Tidy(node, r, calls)
  <2>1. /\ r.kind = "folder" /\ r.op = "restore" /\ r.on = f
        /\ r.trashed => node[f].deleted
    BY <1>3
  <2>2. p # None => Exists(p)
    BY <1>2, <1>4 DEF SoundTree, Whole, Exists
  <2>3. /\ rec \in Node /\ rec.parent \in {None, node[f].parent} /\ Hung(node, rec.parent)
    <3>1. CASE p # None /\ Exists(p) /\ ~Live(p)
      BY <1>2, <3>1 DEF Node, Hung
    <3>2. CASE ~(p # None /\ Exists(p) /\ ~Live(p))
      BY <1>2, <2>2, <3>2 DEF Hung, LiveIn, Live, Exists
    <3>. QED
      BY <3>1, <3>2
  <2>. HIDE DEF rec
  <2>4. Opening(node, "restore", f, calls, r.trashed)
    BY <1>2, <1>4, <2>1, <2>3 DEF Opening
  <2>. QED
    BY <2>1, <2>4 DEF Tidy, Cascading, Modes
<1>. HIDE DEF calls
<1>. QED
  BY <1>1, <1>3, <1>4, BeginTrash

\* A request that saves one document.
LEMMA DocSaveTrash ==
  ASSUME TypeOK, TreeInv, TrashInv, NEW c \in Clients, Ready(c), NEW u \in Users,
         NEW op, NEW d \in Docs, NEW into, NEW rec,
         Begin(c, u, "doc", op, d, into, <<Save(d, rec)>>),
         SoundTree(node) /\ NoneBuried(node) /\ (into # None => ~node[into].deleted)
           => rec.deleted \/ Hung(node, rec.parent)
  PROVE  TrashInv'
<1>1. PICK r : r = [kind |-> "doc", op |-> op, on |-> d, user |-> u,
                    trashed |-> Exists(d) /\ node[d].deleted, all |-> OwnsAll(d, u)]
  OBVIOUS
<1>2. PICK calls : calls = <<Save(d, rec)>>
  OBVIOUS
<1>3. ASSUME SoundTree(node), NoneBuried(node), into # None => ~node[into].deleted
      PROVE  Tidy(node, r, calls)
  <2>1. rec.deleted \/ Hung(node, rec.parent)
    BY <1>3
  <2>2. DocTidy(node, <<Save(d, rec)>>)
    BY <2>1, TidySave
  <2>. QED
    BY <1>1, <1>2, <2>2 DEF Tidy
<1>4. Begin(c, u, "doc", op, d, into, calls) /\ Idle(c)
  BY <1>2 DEF Ready
<1>. QED
  BY <1>1, <1>3, <1>4, BeginTrash

\* The requests on a document: a live one is where it was, at the top, or in a
\* folder that is live.
LEMMA DocRequestTrash ==
  ASSUME TypeOK, TreeInv, TrashInv, NEW c \in Clients, Ready(c), NEW u \in Users,
         NEW d \in Docs, DocRequest(c, u, d)
  PROVE  TrashInv'
<1>0. /\ d \in Nodes /\ d \notin Folders
      /\ \A e \in Nodes : Exists(e) => node[e] \in Node /\ node[e] # None
  BY AclAssumption DEF TypeOK, Nodes, Exists
<1>1. ASSUME NoneBuried(node), Exists(d)
      PROVE  node[d].deleted \/ Hung(node, node[d].parent)
  BY <1>0, <1>1 DEF NoneBuried, LiveIn, Exists
<1>2. ASSUME NEW p \in Folders \cup {None}, CreateDoc(c, u, d, p)
      PROVE  TrashInv'
  <2>. DEFINE rec == [owner |-> u, parent |-> p,
                      root |-> IF p = None THEN None ELSE RootFor(p),
                      general |-> None, deleted |-> FALSE]
  <2>1. Begin(c, u, "doc", "create", d, p, <<Save(d, rec)>>) /\ (p # None => Exists(p))
    BY <1>2 DEF CreateDoc
  <2>2. rec.parent = p
    OBVIOUS
  <2>. HIDE DEF rec
  <2>3. (p # None => ~node[p].deleted) => Hung(node, rec.parent)
    BY <2>1, <2>2 DEF Hung, LiveIn, Exists
  <2>. QED
    BY <2>1, <2>3, DocSaveTrash
<1>3. ASSUME NEW p \in Folders \cup {None}, UpdateDoc(c, u, d, p)
      PROVE  TrashInv'
  <2>. DEFINE rec == IF p = None THEN node[d]
                     ELSE [node[d] EXCEPT !.parent = p, !.root = RootFor(p)]
  <2>1. /\ Begin(c, u, "doc", "update", d, p, <<Save(d, rec)>>) /\ (p # None => Exists(p))
        /\ Exists(d)
    BY <1>3 DEF UpdateDoc, Live
  <2>2. rec.parent = IF p = None THEN node[d].parent ELSE p
    BY <1>0, <2>1 DEF Node
  <2>3. p = None => rec = node[d]
    OBVIOUS
  <2>. HIDE DEF rec
  <2>4. NoneBuried(node) /\ (p # None => ~node[p].deleted) => rec.deleted \/ Hung(node, rec.parent)
    BY <1>1, <2>1, <2>2, <2>3 DEF Hung, LiveIn, Exists
  <2>. QED
    BY <2>1, <2>4, DocSaveTrash
<1>4. ASSUME NEW general \in Granted \cup {None}, SetDocGeneral(c, u, d, general)
      PROVE  TrashInv'
  <2>. DEFINE rec == [node[d] EXCEPT !.general = general]
  <2>1. Begin(c, u, "doc", "update", d, None, <<Save(d, rec)>>) /\ Exists(d)
    BY <1>4 DEF SetDocGeneral
  <2>2. rec.parent = node[d].parent /\ rec.deleted = node[d].deleted
    BY <1>0, <2>1 DEF Node
  <2>. HIDE DEF rec
  <2>3. NoneBuried(node) => rec.deleted \/ Hung(node, rec.parent)
    BY <1>1, <2>1, <2>2
  <2>. QED
    BY <2>1, <2>3, DocSaveTrash
<1>5. ASSUME DeleteDoc(c, u, d)
      PROVE  TrashInv'
  <2>. DEFINE rec == Marked("soft", [node[d] EXCEPT !.parent = None])
  <2>1. Begin(c, u, "doc", "soft", d, None, <<Save(d, rec)>>) /\ Exists(d)
    BY <1>5 DEF DeleteDoc, CascadeDoc, CanDelete
  <2>2. rec.deleted
    BY <1>0, <2>1 DEF Marked, Node
  <2>. HIDE DEF rec
  <2>. QED
    BY <2>1, <2>2, DocSaveTrash
<1>6. ASSUME RestoreDoc(c, u, d)
      PROVE  TrashInv'
  <2>. DEFINE p == node[d].parent
              copy == IF p # None /\ Exists(p) /\ ~Live(p) THEN [node[d] EXCEPT !.parent = None]
                                                           ELSE node[d]
              rec == Marked("restore", copy)
  <2>1. Begin(c, u, "doc", "restore", d, None, <<Save(d, rec)>>) /\ Exists(d)
    BY <1>6 DEF RestoreDoc, CascadeDoc, CanDelete
  <2>2. SoundTree(node) => Hung(node, copy.parent)
    <3>1. SoundTree(node) => (p # None => Exists(p))
      BY <1>0, <2>1 DEF SoundTree, Whole, Exists
    <3>2. CASE p # None /\ Exists(p) /\ ~Live(p)
      BY <1>0, <2>1, <3>2 DEF Node, Hung
    <3>3. CASE ~(p # None /\ Exists(p) /\ ~Live(p))
      BY <3>1, <3>3 DEF Hung, LiveIn, Live, Exists
    <3>. QED
      BY <3>2, <3>3
  <2>3. rec.parent = copy.parent
    <3>1. copy \in Node
      BY <1>0, <2>1 DEF Node
    <3>. HIDE DEF copy
    <3>. QED
      BY <3>1 DEF Marked, Node
  <2>. HIDE DEF copy, rec
  <2>. QED
    BY <2>1, <2>2, <2>3, DocSaveTrash
<1>7. ASSUME HardDeleteDoc(c, u, d)
      PROVE  TrashInv'
  <2>. DEFINE a == Call("purge", d, None)
              b == Call("drop", d, None)
  <2>1. Begin(c, u, "doc", "hard", d, None, <<a, b>>) /\ Idle(c)
    BY <1>0, <1>7 DEF HardDeleteDoc, Cascade, CascadeDoc, Ready
  <2>2. a.op # "save" /\ b.op # "save"
    BY DEF Call
  <2>. HIDE DEF a, b
  <2>3. \A i \in 1..Len(<<a, b>>) : <<a, b>>[i] = a \/ <<a, b>>[i] = b
    OBVIOUS
  <2>4. PICK calls : calls = <<a, b>>
    OBVIOUS
  <2>5. DocTidy(node, calls)
    BY <2>2, <2>3, <2>4 DEF DocTidy
  <2>6. PICK r : r = [kind |-> "doc", op |-> "hard", on |-> d, user |-> u,
                      trashed |-> Exists(d) /\ node[d].deleted, all |-> OwnsAll(d, u)]
    OBVIOUS
  <2>7. Tidy(node, r, calls)
    BY <2>5, <2>6 DEF Tidy
  <2>8. Begin(c, u, "doc", "hard", d, None, calls)
    BY <2>1, <2>4
  <2>. QED
    BY <2>1, <2>6, <2>7, <2>8, BeginTrash
<1>. QED
  BY <1>2, <1>3, <1>4, <1>5, <1>6, <1>7, Zenon DEF DocRequest

\* Collaborators are added and removed.
LEMMA RowRequestTrash ==
  ASSUME TypeOK, TreeInv, TrashInv, NEW c \in Clients, Ready(c), NEW u \in Users,
         NEW e \in Nodes, RowRequest(c, u, e)
  PROVE  TrashInv'
<1>1. PICK op, calls : Begin(c, u, "row", op, e, None, calls)
  BY DEF RowRequest, AddCollaborator, RemoveCollaborator
<1>2. PICK r : r = [kind |-> "row", op |-> op, on |-> e, user |-> u,
                    trashed |-> Exists(e) /\ node[e].deleted, all |-> OwnsAll(e, u)]
  OBVIOUS
<1>3. Tidy(node, r, calls) /\ Idle(c)
  BY <1>2 DEF Tidy, Ready
<1>. QED
  BY <1>1, <1>2, <1>3, BeginTrash

-----------------------------------------------------------------------------
(* The theorems on the trash.                                              *)

\* The empty database.
LEMMA InitTrash == Init => TrashInv
BY DEF Init, TrashInv, NoneBuried, LiveIn, Idle

\* A call of a request.
DoCall(c) == DoSave(c) \/ DoDrop(c) \/ DoRow(c) \/ DoPurge(c) \/ DoFind(c) \/ DoEach(c)

\* It keeps the invariant, and leaves its request tidy.
LEMMA CallTrash ==
  ASSUME TypeOK, TreeInv, TrashInv, node' \in Tree, NEW c \in Clients, DoCall(c)
  PROVE  TrashInv' /\ TidyAfter(c)
BY SaveTrash, DropTrash, RowTrash, PurgeTrash, FindTrash, EachTrash DEF DoCall

\* A request of u begins.
Starts(c, u) ==
  \/ \E f \in Folders : FolderRequest(c, u, f)
  \/ \E d \in Docs : DocRequest(c, u, d)
  \/ \E e \in Nodes : RowRequest(c, u, e)

\* What a step is.
LEMMA StepIs ==
  ASSUME [Next]_vars
  PROVE  \/ UNCHANGED vars
         \/ \E c \in Clients :
              \/ Ready(c) /\ \E u \in Users : Starts(c, u)
              \/ DoCall(c)
              \/ Fail(c) \/ TooDeep(c)
BY Zenon DEF Next, Starts, DoCall

\* The invariant of the trash is inductive.
LEMMA NextTrash == IInv /\ TreeInv /\ TrashInv /\ [Next]_vars => TrashInv'
<1>. SUFFICES ASSUME IInv, TreeInv, TrashInv, [Next]_vars PROVE TrashInv'
  OBVIOUS
<1>0. TypeOK /\ node' \in Tree
  <2>1. IInv'
    BY NextIInv
  <2>. QED
    BY <2>1 DEF IInv, TypeOK, Tree
<1>1. CASE UNCHANGED vars
  BY <1>1 DEF vars, TrashInv, Clean, Quiet, Idle
<1>2. ASSUME NEW c \in Clients, NEW u \in Users, Ready(c), NEW f \in Folders,
             FolderRequest(c, u, f)
      PROVE  TrashInv'
  BY <1>0, <1>2, CreateFolderTrash, UpdateFolderTrash, DeleteFolderTrash, RestoreFolderTrash
     DEF FolderRequest
<1>3. ASSUME NEW c \in Clients, NEW u \in Users, Ready(c), Starts(c, u)
      PROVE  TrashInv'
  BY <1>0, <1>2, <1>3, DocRequestTrash, RowRequestTrash DEF Starts
<1>. QED
  BY <1>0, <1>1, <1>3, StepIs, CallTrash, EndTrash

\* The invariants hold in every state.
LEMMA SpecTrash == Spec => [](IInv /\ TreeInv /\ TrashInv)
<1>1. Init => IInv /\ TreeInv /\ TrashInv
  BY InitIInv, InitTree, InitTrash
<1>2. IInv /\ TreeInv /\ TrashInv /\ [Next]_vars => (IInv /\ TreeInv /\ TrashInv)'
  BY NextIInv, NextTree, NextTrash
<1>. QED
  BY <1>1, <1>2, PTL DEF Spec

\* Between folder requests nothing live is in a deleted folder.
THEOREM NothingLiveInTrashHolds == Spec => []NothingLiveInTrash
<1>1. TrashInv => NothingLiveInTrash
  BY DEF TrashInv, Clean, NothingLiveInTrash, NoneBuried, Hung, LiveIn, Live, Exists
<1>. QED
  BY <1>1, SpecTrash, PTL

\* What a cascade that is through has done.
Complete(nodes, r) ==
  /\ nodes[r.on] # None <=> r.op # "hard"
  /\ \A x \in Nodes : nodes[x] # None /\ (\E n \in Span \ {0} : Walk(nodes, x, n) = r.on) =>
       r.op # "hard" /\ (LiveIn(nodes, x) <=> r.op = "restore")

\* Nothing is left to do for it.
LEMMA TidyComplete ==
  ASSUME NEW nodes \in Tree, SoundTree(nodes), NEW r, r.kind = "folder", r.op \in Modes,
         r.op = "restore" => r.trashed, Tidy(nodes, r, <<>>)
  PROVE  Complete(nodes, r)
<1>1. r.on \in Folders /\ Cascading(nodes, r, <<>>) /\ NoneBuried(nodes)
  BY TidyOver DEF Tidy, Cascading
<1>2. Going(nodes, r.op, r.on, <<>>, r.trashed)
  BY <1>1, OpenCalls DEF Cascading
<1>3. r.on \in Nodes /\ r.on # None
  BY <1>1, AclAssumption DEF Nodes
<1>4. ASSUME NEW x \in Nodes, NEW n \in Span \ {0}, Walk(nodes, x, n) = r.on
      PROVE  Reaches(nodes, x, r.on)
  BY <1>4, SpanFinite DEF Reaches
<1>5. CASE r.op = "soft"
  <2>1. nodes[r.on] # None /\ ~LiveIn(nodes, r.on)
    BY <1>2, <1>5 DEF Going, SoftOK, LiveIn
  <2>2. ASSUME NEW x \in Nodes, Reaches(nodes, x, r.on)
        PROVE  ~LiveIn(nodes, x)
    BY <1>1, <1>3, <2>1, <2>2, ReachLive
  <2>. QED
    BY <1>4, <1>5, <2>1, <2>2 DEF Complete
<1>6. CASE r.op = "restore"
  <2>1. LiveIn(nodes, r.on) /\ Covering(nodes, "restore", r.on, <<>>)
    BY <1>2, <1>6 DEF Going, RestoreOK
  <2>2. \A x \in Nodes : ~Due(nodes, "restore", r.on, x)
    BY <2>1 DEF Covering
  <2>3. \A x \in Nodes : nodes[x] # None /\ Reaches(nodes, x, r.on) => LiveIn(nodes, x)
    BY <1>3, <2>1, <2>2, AllLive DEF SoundTree
  <2>. QED
    BY <1>4, <1>6, <2>1, <2>3 DEF Complete, LiveIn
<1>7. CASE r.op = "hard"
  <2>1. ~WillDrop(<<>>, r.on)
    BY DEF WillDrop
  <2>2. nodes[r.on] = None
    BY <1>2, <1>7, <2>1 DEF Going, HardOK
  <2>3. \A x \in Nodes : nodes[x] # None => nodes[x].parent # r.on
    BY <1>3, <2>2 DEF SoundTree, Whole
  <2>4. ASSUME NEW x \in Nodes, nodes[x] # None
        PROVE  ~Reaches(nodes, x, r.on)
    <3>1. x # r.on
      BY <2>2, <2>4
    <3>. QED
      BY <1>3, <2>3, <3>1, NoneReaches
  <2>. QED
    BY <1>4, <1>7, <2>2, <2>4 DEF Complete
<1>. QED
  BY <1>5, <1>6, <1>7 DEF Modes

\* The calls of the other clients stay when a request begins.
LEMMA StartsBegin ==
  ASSUME NEW c \in Clients, NEW u, Starts(c, u)
  PROVE  \E kind, op, on, into, calls : Begin(c, u, kind, op, on, into, calls)
<1>1. ASSUME NEW f, FolderRequest(c, u, f)
      PROVE  \E kind, op, on, into, calls : Begin(c, u, kind, op, on, into, calls)
  BY <1>1, Zenon DEF FolderRequest, CreateFolder, UpdateFolder, DeleteFolder, RestoreFolder
<1>2. ASSUME NEW d, DocRequest(c, u, d)
      PROVE  \E kind, op, on, into, calls : Begin(c, u, kind, op, on, into, calls)
  BY <1>2, Zenon DEF DocRequest, CreateDoc, UpdateDoc, SetDocGeneral, DeleteDoc, RestoreDoc,
     HardDeleteDoc
<1>3. ASSUME NEW e, RowRequest(c, u, e)
      PROVE  \E kind, op, on, into, calls : Begin(c, u, kind, op, on, into, calls)
  BY <1>3, Zenon DEF RowRequest, AddCollaborator, RemoveCollaborator
<1>. QED
  BY <1>1, <1>2, <1>3 DEF Starts

\* What the last step of a cascade leaves behind.
LEMMA CascadeStep ==
  ASSUME IInv, TreeInv, TrashInv, [Next]_vars, IInv', TreeInv',
         NEW c \in Clients, ~Idle(c), todo'[c] = <<>>,
         request[c].kind = "folder", request[c].op \in Modes,
         request[c].op = "restore" => request[c].trashed,
         ~raced, ~intoTrash, fails' = 0
  PROVE  Complete(node', request[c]) /\ request' = request
<1>. DEFINE r == request[c]
<1>0. TypeOK /\ node' \in Tree /\ todo[c] \in Seq(Calls) /\ todo[c] # <<>>
  BY DEF IInv, TypeOK, Tree, Idle
<1>1. \/ UNCHANGED vars
      \/ \E d \in Clients :
           \/ Ready(d) /\ \E u \in Users : Starts(d, u)
           \/ DoCall(d)
           \/ Fail(d) \/ TooDeep(d)
  BY StepIs
<1>2. ~UNCHANGED vars
  BY <1>0 DEF vars
<1>3. ASSUME NEW d \in Clients, Ready(d), NEW u \in Users, Starts(d, u)
      PROVE  FALSE
  <2>1. d # c
    BY <1>3 DEF Ready
  <2>2. PICK kind, op, on, into, calls : Begin(d, u, kind, op, on, into, calls)
    BY <1>3, StartsBegin
  <2>3. todo' = [todo EXCEPT ![d] = calls]
    BY <2>2 DEF Begin
  <2>. QED
    BY <1>0, <2>1, <2>3
<1>4. ASSUME NEW d \in Clients, Fail(d)
      PROVE  FALSE
  BY <1>0, <1>4 DEF Fail, TypeOK
<1>. HIDE DEF r
<1>5. ASSUME NEW d \in Clients, TooDeep(d)
      PROVE  FALSE
  <2>1. fails = 0 /\ Clean
    BY <1>5 DEF TooDeep, Clean
  <2>2. d = c
    BY <1>0, <1>5 DEF TooDeep, End
  <2>3. node \in Tree /\ SoundTree(node) /\ Cascading(node, request[c], todo[c])
    BY <1>0, <2>1, CallTidy
  <2>4. Len(todo[c]) <= MaxCalls
    BY <1>0, <2>3, CascadeShort
  <2>5. Len(todo[c]) \in Nat /\ MaxCalls \in Nat
    BY <1>0, FolderTreeAssumption
  <2>. QED
    BY <1>5, <2>2, <2>4, <2>5 DEF TooDeep
<1>6. ASSUME NEW d \in Clients, DoCall(d)
      PROVE  Complete(node', request[c]) /\ request' = request
  <2>1. PICK more : Done(d, more)
    BY <1>6 DEF DoCall, DoSave, DoDrop, DoRow, DoPurge, DoFind, DoEach
  <2>2. d = c
    BY <1>0, <2>1 DEF Done
  <2>3. request' = request /\ raced' = raced /\ fails' = fails
    BY <2>1 DEF Done
  <2>4. Clean
    BY <2>3 DEF Clean
  <2>5. Tidy(node', request[c], <<>>)
    BY <1>0, <1>6, <2>2, <2>4, CallTrash DEF TidyAfter
  <2>6. SoundTree(node')
    BY <2>3 DEF TreeInv
  <2>7. Complete(node', request[c])
    BY <1>0, <2>5, <2>6, TidyComplete
  <2>. QED
    BY <2>3, <2>7
<1>. QED
  BY <1>1, <1>2, <1>3, <1>4, <1>5, <1>6

\* When a cascade is through, all that is below its folder, at any depth, is
\* deleted, restored or gone (folder_service.py, the three _cascade functions).
THEOREM CascadeCompleteHolds == Spec => CascadeComplete
<1>. DEFINE Through(c) ==
       LET r == request[c]
       IN ~Idle(c) /\ Idle(c)' /\ r.kind = "folder" /\ r.op \in Modes
            /\ (r.op = "restore" => r.trashed)
            /\ ~raced /\ ~intoTrash /\ fails' = 0 =>
          /\ Exists(r.on)' <=> r.op # "hard"
          /\ \A e \in Below(r.on)' : Exists(e)' /\ r.op # "hard"
                                       /\ (Live(e)' <=> r.op = "restore")
<1>1. ASSUME IInv, TreeInv, TrashInv, [Next]_vars, IInv', TreeInv'
      PROVE  \A c \in Clients : Through(c)
  <2>. SUFFICES ASSUME NEW c \in Clients, ~Idle(c), Idle(c)',
                       request[c].kind = "folder", request[c].op \in Modes,
                       request[c].op = "restore" => request[c].trashed,
                       ~raced, ~intoTrash, fails' = 0
                PROVE  /\ Exists(request[c].on)' <=> request[c].op # "hard"
                       /\ \A e \in Below(request[c].on)' :
                            Exists(e)' /\ request[c].op # "hard"
                              /\ (Live(e)' <=> request[c].op = "restore")
    OBVIOUS
  <2>1. Idle(c)' = (todo'[c] = <<>>)
    BY DEF Idle
  <2>2. Complete(node', request[c]) /\ request' = request
    BY <1>1, <2>1, CascadeStep
  <2>3. \A e, n : Up(e, n)' = Walk(node', e, n)
    BY DEF Up, Walk
  <2>4. \A e \in Nodes : e \in Below(request[c].on)' <=>
          node'[e] # None /\ \E n \in Span \ {0} : Walk(node', e, n) = request[c].on
    BY <2>2, <2>3 DEF Below, Exists
  <2>5. Below(request[c].on)' \subseteq Nodes
    BY DEF Below
  <2>. QED
    BY <2>2, <2>4, <2>5, SMT DEF Complete, Exists, Live, LiveIn
<1>. QED
  BY <1>1, SpecTrash, PTL DEF Spec, CascadeComplete

-----------------------------------------------------------------------------
(* The owner of a folder or document never changes: what is loaded before  *)
(* and written back later has the owner it was created with.               *)

\* Call writes, or holds copies of, nodes that were created, with the owners own.
Honest(own, bred, call) ==
  /\ call.op = "save" => bred[call.id] # None /\ call.arg.owner = own[call.id]
  /\ call.op = "each" => \A child \in call.arg.left :
                           bred[child.id] # None /\ child.copy.owner = own[child.id]

\* Call takes node e away.
Deletes(call, e) == call.id = e /\ (call.op = "drop" \/ (call.op = "save" /\ call.arg.deleted))

\* The calls a request r may have to do: on documents, it deletes what is its
\* user's.
Allowed(own, bred, r) ==
  {call \in Calls :
     /\ Honest(own, bred, call)
     /\ r.kind = "doc" =>
          /\ call.op \notin {"folders", "docs", "each"}
          /\ ~r.all => \A e \in Nodes : Deletes(call, e) => bred[e] # None /\ own[e] = r.user}

\* The owners are own.
OwnersAre(own) ==
  /\ \A e \in Nodes : Exists(e) => birth[e] # None /\ node[e].owner = own[e]
  /\ \A c \in Clients : todo[c] \in Seq(Allowed(own, birth, request[c]))

\* The inductive invariant.
OwnersInv == \E own \in [Nodes -> Users \cup {None}] : OwnersAre(own)

\* Ids are used once, and have one owner.
OwnersStay(own, bred, next, after) ==
  \A e \in Nodes : bred[e] # None => after[e] # None /\ next[e] = own[e]

\* What was allowed stays allowed.
LEMMA AllowedGrows ==
  ASSUME NEW own, NEW bred, NEW next, NEW after, OwnersStay(own, bred, next, after), NEW r
  PROVE  Seq(Allowed(own, bred, r)) \subseteq Seq(Allowed(next, after, r))
<1>1. ASSUME NEW call \in Allowed(own, bred, r)
      PROVE  call \in Allowed(next, after, r)
  <2>1. call.op = "save" => call.id \in Nodes
    BY <1>1 DEF Allowed, Calls
  <2>2. call.op = "each" => \A child \in call.arg.left : child.id \in Nodes
    BY <1>1 DEF Allowed, Calls
  <2>3. Honest(next, after, call)
    BY <1>1, <2>1, <2>2 DEF Allowed, Honest, OwnersStay
  <2>. QED
    BY <1>1, <2>3 DEF Allowed, OwnersStay
<1>. QED
  BY <1>1, SeqMonotonic

\* One save.
LEMMA SaveAllowed ==
  ASSUME NEW own, NEW bred, NEW e \in Nodes, NEW rec \in Node, NEW r,
         bred[e] # None, rec.owner = own[e],
         r.kind = "doc" /\ ~r.all /\ rec.deleted => own[e] = r.user
  PROVE  Save(e, rec) \in Allowed(own, bred, r) /\ <<Save(e, rec)>> \in Seq(Allowed(own, bred, r))
<1>1. PICK call : call = Save(e, rec)
  OBVIOUS
<1>2. call.op = "save" /\ call.id = e /\ call.arg = rec
  BY <1>1 DEF Save, Call
<1>3. call \in Calls
  BY <1>1 DEF Save, Call, Calls
<1>4. call \in Allowed(own, bred, r)
  BY <1>2, <1>3 DEF Allowed, Honest, Deletes
<1>. QED
  BY <1>1, <1>4

\* One drop, with what hangs on the node.
LEMMA DropAllowed ==
  ASSUME NEW own, NEW bred, NEW e \in Nodes, NEW r,
         r.kind = "doc" /\ ~r.all => bred[e] # None /\ own[e] = r.user
  PROVE  <<Call("purge", e, None), Call("drop", e, None)>> \in Seq(Allowed(own, bred, r))
<1>1. PICK drop : drop = Call("drop", e, None)
  OBVIOUS
<1>2. PICK purge : purge = Call("purge", e, None)
  OBVIOUS
<1>3. drop.op = "drop" /\ drop.id = e /\ purge.op = "purge" /\ purge.id = e
  BY <1>1, <1>2 DEF Call
<1>4. drop \in Calls /\ purge \in Calls
  BY <1>1, <1>2 DEF Call, Calls
<1>5. drop \in Allowed(own, bred, r) /\ purge \in Allowed(own, bred, r)
  BY <1>3, <1>4 DEF Allowed, Honest, Deletes
<1>. QED
  BY <1>1, <1>2, <1>5

\* What a cascade does with a copy.
LEMMA CascadeAllowed ==
  ASSUME NEW own, NEW bred, NEW mode \in Modes, NEW e \in Nodes, NEW copy \in Node, NEW r,
         bred[e] # None, copy.owner = own[e],
         r.kind = "doc" => e \notin Folders /\ (mode # "restore" /\ ~r.all => own[e] = r.user)
  PROVE  Cascade(mode, e, copy) \in Seq(Allowed(own, bred, r))
<1>. DEFINE A == Allowed(own, bred, r)
<1>1. PICK rec : rec = Marked(mode, copy)
  OBVIOUS
<1>2. rec \in Node /\ rec.owner = own[e] /\ rec.deleted = (mode = "soft")
  BY <1>1 DEF Marked, Node
<1>3. <<Save(e, rec)>> \in Seq(A)
  BY <1>2, SaveAllowed
<1>4. mode = "hard" => <<Call("purge", e, None), Call("drop", e, None)>> \in Seq(A)
  BY DropAllowed
<1>5. e \in Folders => <<Call("folders", e, mode), Call("docs", e, mode)>> \in Seq(A)
  <2>1. SUFFICES ASSUME e \in Folders
                 PROVE  <<Call("folders", e, mode), Call("docs", e, mode)>> \in Seq(A)
    OBVIOUS
  <2>2. PICK folders : folders = Call("folders", e, mode)
    OBVIOUS
  <2>3. PICK docs : docs = Call("docs", e, mode)
    OBVIOUS
  <2>4. folders.op = "folders" /\ docs.op = "docs"
    BY <2>2, <2>3 DEF Call
  <2>5. folders \in Calls /\ docs \in Calls
    BY <2>1, <2>2, <2>3 DEF Call, Calls
  <2>6. folders \in A /\ docs \in A
    BY <2>1, <2>4, <2>5 DEF Allowed, Honest
  <2>. HIDE DEF A
  <2>. QED
    BY <2>2, <2>3, <2>6
<1>. HIDE DEF A
<1>6. CASE e \in Folders
  <2>. DEFINE children == <<Call("folders", e, mode), Call("docs", e, mode)>>
  <2>1. children \in Seq(A)
    BY <1>5, <1>6
  <2>2. CASE mode = "hard"
    <3>. DEFINE last == <<Call("purge", e, None), Call("drop", e, None)>>
    <3>1. last \in Seq(A)
      BY <1>4, <2>2
    <3>2. Cascade(mode, e, copy) = children \o last
      BY <1>6, <2>2 DEF Cascade, CascadeFolder
    <3>. HIDE DEF children, last
    <3>. QED
      BY <2>1, <3>1, <3>2, ConcatProperties DEF A
  <2>3. CASE mode # "hard"
    <3>. DEFINE first == <<Save(e, rec)>>
    <3>1. first \in Seq(A)
      BY <1>3
    <3>2. Cascade(mode, e, copy) = first \o children
      BY <1>1, <1>6, <2>3 DEF Cascade, CascadeFolder
    <3>. HIDE DEF children, first
    <3>. QED
      BY <2>1, <3>1, <3>2, ConcatProperties DEF A
  <2>. QED
    BY <2>2, <2>3
<1>7. CASE e \notin Folders
  <2>1. Cascade(mode, e, copy) = IF mode = "hard"
                                 THEN <<Call("purge", e, None), Call("drop", e, None)>>
                                 ELSE <<Save(e, rec)>>
    BY <1>1, <1>7 DEF Cascade, CascadeDoc
  <2>. QED
    BY <1>3, <1>4, <2>1 DEF A
<1>. QED
  BY <1>6, <1>7 DEF A

-----------------------------------------------------------------------------
(* The steps.                                                              *)

\* A request begins.
LEMMA BeginOwners ==
  ASSUME TypeOK, TreeInv, NEW own, OwnersAre(own), NEW next \in [Nodes -> Users \cup {None}],
         OwnersStay(own, birth, next, birth'),
         NEW c \in Clients, NEW u, NEW kind, NEW op, NEW on, NEW into, NEW calls,
         Begin(c, u, kind, op, on, into, calls),
         \A r : r.kind = kind /\ r.user = u /\ r.all = OwnsAll(on, u)
                  => calls \in Seq(Allowed(next, birth', r))
  PROVE  OwnersInv'
<1>1. PICK r : r = [kind |-> kind, op |-> op, on |-> on, user |-> u,
                    trashed |-> Exists(on) /\ node[on].deleted, all |-> OwnsAll(on, u)]
  OBVIOUS
<1>2. /\ node' = node /\ todo' = [todo EXCEPT ![c] = calls]
      /\ request' = [request EXCEPT ![c] = r]
  BY <1>1 DEF Begin
<1>3. r.kind = kind /\ r.user = u /\ r.all = OwnsAll(on, u)
  BY <1>1
<1>4. calls \in Seq(Allowed(next, birth', r))
  BY <1>3
<1>5. \A e \in Nodes : Exists(e)' => birth'[e] # None /\ node'[e].owner = next[e]
  BY <1>2 DEF OwnersAre, OwnersStay, Exists
<1>6. ASSUME NEW d \in Clients
      PROVE  todo'[d] \in Seq(Allowed(next, birth', request'[d]))
  <2>1. CASE d = c
    <3>1. request'[c] = r
      BY <1>2 DEF TypeOK
    <3>2. todo'[c] = calls
      BY <1>2 DEF TreeInv
    <3>. QED
      BY <1>4, <2>1, <3>1, <3>2
  <2>2. CASE d # c
    <3>1. todo'[d] = todo[d] /\ request'[d] = request[d]
      BY <1>2, <2>2 DEF TypeOK
    <3>2. todo[d] \in Seq(Allowed(own, birth, request[d]))
      BY DEF OwnersAre
    <3>. QED
      BY <3>1, <3>2, AllowedGrows
  <2>. QED
    BY <2>1, <2>2
<1>7. OwnersAre(next)'
  BY <1>5, <1>6 DEF OwnersAre
<1>. QED
  BY <1>7 DEF OwnersInv

\* A call is over.
LEMMA DoneOwners ==
  ASSUME TypeOK, NEW own \in [Nodes -> Users \cup {None}], OwnersAre(own),
         NEW c \in Clients, ~Idle(c), NEW more \in Seq(Allowed(own, birth, request[c])),
         Done(c, more),
         \A e \in Nodes : node'[e] # None => birth[e] # None /\ node'[e].owner = own[e]
  PROVE  OwnersInv'
<1>1. birth' = birth /\ request' = request /\ todo' = [todo EXCEPT ![c] = more \o Tail(@)]
  BY DEF Done
<1>2. ASSUME NEW d \in Clients
      PROVE  todo'[d] \in Seq(Allowed(own, birth', request'[d]))
  <2>. DEFINE A == Allowed(own, birth, request[c])
  <2>1. todo[c] \in Seq(A) /\ todo[c] # <<>>
    BY DEF OwnersAre, Idle
  <2>2. more \in Seq(A)
    OBVIOUS
  <2>. HIDE DEF A
  <2>3. more \o Tail(todo[c]) \in Seq(A)
    BY <2>1, <2>2, HeadTailProperties, ConcatProperties
  <2>4. CASE d = c
    <3>1. todo'[c] = more \o Tail(todo[c]) \/ todo'[c] = todo[c]
      BY <1>1
    <3>. QED
      BY <1>1, <2>1, <2>3, <2>4, <3>1 DEF A
  <2>5. CASE d # c
    BY <1>1, <2>5 DEF OwnersAre
  <2>. QED
    BY <2>4, <2>5
<1>3. OwnersAre(own)'
  BY <1>1, <1>2 DEF OwnersAre, Exists
<1>. QED
  BY <1>3 DEF OwnersInv

\* The call a client is about to make.
LEMMA HeadAllowed ==
  ASSUME NEW own, OwnersAre(own), NEW c \in Clients, ~Idle(c)
  PROVE  /\ Head(todo[c]) \in Allowed(own, birth, request[c]) /\ Head(todo[c]) \in Calls
         /\ Honest(own, birth, Head(todo[c]))
         /\ \A e \in Nodes : node[e] # None => birth[e] # None /\ node[e].owner = own[e]
         /\ <<>> \in Seq(Allowed(own, birth, request[c]))
<1>1. Head(todo[c]) \in Allowed(own, birth, request[c])
  BY HeadTailProperties DEF OwnersAre, Idle
<1>. QED
  BY <1>1 DEF Allowed, OwnersAre, Exists

\* A call that writes or removes one node, or an access row.
LEMMA WriteOwners ==
  ASSUME TypeOK, OwnersInv, NEW c \in Clients,
         DoSave(c) \/ DoDrop(c) \/ DoRow(c) \/ DoPurge(c)
  PROVE  OwnersInv'
<1>1. PICK own \in [Nodes -> Users \cup {None}] : OwnersAre(own)
  BY DEF OwnersInv
<1>2. ~Idle(c) /\ Done(c, <<>>)
  BY DEF DoSave, DoDrop, DoRow, DoPurge, Doing
<1>3. /\ Head(todo[c]) \in Calls /\ Honest(own, birth, Head(todo[c]))
      /\ \A e \in Nodes : node[e] # None => birth[e] # None /\ node[e].owner = own[e]
      /\ <<>> \in Seq(Allowed(own, birth, request[c]))
  BY <1>1, <1>2, HeadAllowed
<1>4. \A e \in Nodes : node'[e] # None => birth[e] # None /\ node'[e].owner = own[e]
  <2>1. CASE DoSave(c)
    <3>1. /\ birth[Head(todo[c]).id] # None
          /\ Head(todo[c]).arg.owner = own[Head(todo[c]).id]
      BY <1>3, <2>1 DEF DoSave, Doing, Honest
    <3>. QED
      BY <1>3, <2>1, <3>1 DEF DoSave, TypeOK
  <2>2. CASE DoDrop(c)
    BY <1>3, <2>2 DEF DoDrop, TypeOK
  <2>3. CASE DoRow(c) \/ DoPurge(c)
    BY <1>3, <2>3 DEF DoRow, DoPurge
  <2>. QED
    BY <2>1, <2>2, <2>3
<1>. QED
  BY <1>1, <1>2, <1>3, <1>4, DoneOwners

\* A query copies nodes with their owners.
LEMMA FindOwners ==
  ASSUME TypeOK, OwnersInv, NEW c \in Clients, DoFind(c)
  PROVE  OwnersInv'
<1>. DEFINE call  == Head(todo[c])
            found == Found(call.arg, IF call.op = "docs" THEN Docs ELSE Folders, call.id)
            left  == {[id |-> e, copy |-> node[e]] : e \in found}
            more  == IF found = {} THEN <<>> ELSE <<Each(call.id, call.arg, left)>>
<1>1. PICK own \in [Nodes -> Users \cup {None}] : OwnersAre(own)
  BY DEF OwnersInv
<1>2. /\ ~Idle(c) /\ call.op \in {"folders", "docs"} /\ Done(c, more) /\ node' = node
  BY DEF DoFind, Doing
<1>3. /\ call \in Calls /\ call \in Allowed(own, birth, request[c])
      /\ \A e \in Nodes : node[e] # None => birth[e] # None /\ node[e].owner = own[e]
      /\ <<>> \in Seq(Allowed(own, birth, request[c]))
  BY <1>1, <1>2, HeadAllowed
<1>4. request[c].kind # "doc" /\ call.id \in Folders /\ call.arg \in Modes
  BY <1>2, <1>3 DEF Allowed, Calls
<1>5. \A e \in found : e \in Nodes /\ node[e] # None
  BY DEF Found, Nodes, Exists
<1>6. \A child \in left : /\ child \in [id : Nodes, copy : Node]
                          /\ birth[child.id] # None /\ child.copy.owner = own[child.id]
  BY <1>3, <1>5 DEF TypeOK
<1>7. more \in Seq(Allowed(own, birth, request[c]))
  <2>. HIDE DEF left, found, call
  <2>1. PICK each : each = Each(call.id, call.arg, left)
    OBVIOUS
  <2>2. each.op = "each" /\ each.arg.left = left
    BY <2>1 DEF Each, Call
  <2>3. each \in Calls
    BY <1>4, <1>6, <2>1 DEF Each, Call, Calls
  <2>4. each \in Allowed(own, birth, request[c])
    BY <1>4, <1>6, <2>2, <2>3 DEF Allowed, Honest
  <2>5. <<each>> \in Seq(Allowed(own, birth, request[c]))
    BY <2>4
  <2>. QED
    BY <1>3, <2>1, <2>5, Zenon
<1>. HIDE DEF more
<1>. QED
  BY <1>1, <1>2, <1>3, <1>7, DoneOwners

\* The loop hands them on.
LEMMA EachOwners ==
  ASSUME TypeOK, OwnersInv, NEW c \in Clients, DoEach(c)
  PROVE  OwnersInv'
<1>. DEFINE call == Head(todo[c])
            r    == request[c]
<1>1. PICK own \in [Nodes -> Users \cup {None}] : OwnersAre(own)
  BY DEF OwnersInv
<1>2. ~Idle(c) /\ call.op = "each" /\ node' = node
  BY DEF DoEach, Doing
<1>3. PICK child \in call.arg.left :
        Done(c, Cascade(call.arg.mode, child.id, child.copy)
                  \o IF call.arg.left = {child} THEN <<>>
                     ELSE <<Each(call.id, call.arg.mode, call.arg.left \ {child})>>)
  BY DEF DoEach
<1>. DEFINE others == call.arg.left \ {child}
            rest   == IF call.arg.left = {child} THEN <<>>
                      ELSE <<Each(call.id, call.arg.mode, others)>>
            first  == Cascade(call.arg.mode, child.id, child.copy)
<1>4. /\ call \in Calls /\ call \in Allowed(own, birth, r) /\ Honest(own, birth, call)
      /\ \A e \in Nodes : node[e] # None => birth[e] # None /\ node[e].owner = own[e]
      /\ <<>> \in Seq(Allowed(own, birth, r))
  BY <1>1, <1>2, HeadAllowed
<1>5. /\ r.kind # "doc" /\ call.id \in Folders /\ call.arg.mode \in Modes
      /\ call.arg.left \in SUBSET [id : Nodes, copy : Node]
      /\ \A x \in call.arg.left : birth[x.id] # None /\ x.copy.owner = own[x.id]
  BY <1>2, <1>4 DEF Allowed, Calls, Honest
<1>. HIDE DEF call, r
<1>6. first \in Seq(Allowed(own, birth, r))
  BY <1>3, <1>5, CascadeAllowed
<1>7. rest \in Seq(Allowed(own, birth, r))
  <2>1. PICK each : each = Each(call.id, call.arg.mode, others)
    OBVIOUS
  <2>2. each.op = "each" /\ each.arg.left = others
    BY <2>1 DEF Each, Call
  <2>3. each \in Calls
    BY <1>5, <2>1 DEF Each, Call, Calls
  <2>4. each \in Allowed(own, birth, r)
    BY <1>5, <2>2, <2>3 DEF Allowed, Honest
  <2>. QED
    BY <1>4, <2>1, <2>4
<1>8. Done(c, first \o rest)
  BY <1>3
<1>. HIDE DEF first, rest
<1>9. first \o rest \in Seq(Allowed(own, birth, r))
  BY <1>6, <1>7, ConcatProperties
<1>. QED
  BY <1>1, <1>2, <1>4, <1>8, <1>9, DoneOwners DEF r

\* A request ends early.
LEMMA EndOwners ==
  ASSUME OwnersInv, NEW c \in Clients, Fail(c) \/ TooDeep(c)
  PROVE  OwnersInv'
<1>1. PICK own \in [Nodes -> Users \cup {None}] : OwnersAre(own)
  BY DEF OwnersInv
<1>2. /\ node' = node /\ birth' = birth /\ request' = request
      /\ todo' = [todo EXCEPT ![c] = <<>>]
  BY DEF Fail, TooDeep, End
<1>3. \A d \in Clients : todo'[d] = todo[d] \/ todo'[d] = <<>>
  BY <1>2
<1>4. \A d \in Clients : todo'[d] \in Seq(Allowed(own, birth, request[d]))
  <2>1. \A S : <<>> \in Seq(S)
    OBVIOUS
  <2>. QED
    BY <1>1, <1>3, <2>1, Zenon DEF OwnersAre
<1>5. OwnersAre(own)'
  BY <1>1, <1>2, <1>4 DEF OwnersAre, Exists
<1>. QED
  BY <1>5 DEF OwnersInv

-----------------------------------------------------------------------------
(* The requests.                                                           *)

\* A node there is has its owner.
LEMMA HasOwner ==
  ASSUME TypeOK, NEW own, OwnersAre(own), NEW e \in Nodes, Exists(e)
  PROVE  node[e] \in Node /\ birth[e] # None /\ node[e].owner = own[e]
BY DEF TypeOK, OwnersAre, Exists

\* A request that uses no new id.
LEMMA KeepOwners ==
  ASSUME TypeOK, TreeInv, NEW own \in [Nodes -> Users \cup {None}], OwnersAre(own),
         UNCHANGED birth,
         NEW c \in Clients, NEW u, NEW kind, NEW op, NEW on, NEW into, NEW calls,
         Begin(c, u, kind, op, on, into, calls),
         \A r : r.kind = kind /\ r.user = u /\ r.all = OwnsAll(on, u)
                  => calls \in Seq(Allowed(own, birth, r))
  PROVE  OwnersInv'
<1>1. OwnersStay(own, birth, own, birth')
  BY DEF OwnersStay
<1>2. \A r : r.kind = kind /\ r.user = u /\ r.all = OwnsAll(on, u)
               => calls \in Seq(Allowed(own, birth', r))
  OBVIOUS
<1>. QED
  BY <1>1, <1>2, BeginOwners

\* A new folder or document has the owner that its request gives it.
LEMMA CreateOwners ==
  ASSUME TypeOK, TreeInv, NEW own \in [Nodes -> Users \cup {None}], OwnersAre(own),
         NEW c \in Clients, NEW u \in Users, NEW e \in Nodes, birth[e] = None,
         NEW b, b # None, birth' = [birth EXCEPT ![e] = b],
         NEW kind, NEW op, NEW on, NEW into, NEW rec \in Node, rec.owner = u, ~rec.deleted,
         NEW top \in Node, top.owner = u, ~top.deleted,
         NEW calls, calls \in {<<Save(e, rec)>>, <<Save(e, rec), Save(e, top)>>},
         Begin(c, u, kind, op, on, into, calls)
  PROVE  OwnersInv'
<1>1. PICK next \in [Nodes -> Users \cup {None}] : next = [own EXCEPT ![e] = u]
  OBVIOUS
<1>2. /\ next[e] = u /\ birth'[e] = b
      /\ \A x \in Nodes : x # e => next[x] = own[x] /\ birth'[x] = birth[x]
  BY <1>1 DEF TypeOK
<1>3. OwnersStay(own, birth, next, birth')
  BY <1>2 DEF OwnersStay
<1>4. ASSUME NEW r
      PROVE  calls \in Seq(Allowed(next, birth', r))
  <2>1. /\ Save(e, rec) \in Allowed(next, birth', r)
        /\ Save(e, top) \in Allowed(next, birth', r)
    BY <1>2, SaveAllowed
  <2>2. /\ <<Save(e, rec)>> \in Seq(Allowed(next, birth', r))
        /\ <<Save(e, rec), Save(e, top)>> \in Seq(Allowed(next, birth', r))
    BY <2>1
  <2>. QED
    BY <2>2, Zenon
<1>. QED
  BY <1>3, <1>4, BeginOwners

\* What a folder hands down is a folder.
LEMMA RootForType ==
  ASSUME TypeOK, NEW p \in Folders, Exists(p)
  PROVE  RootFor(p) \in Folders
<1>1. p \in Nodes /\ node[p] \in Node
  BY DEF TypeOK, Exists, Nodes
<1>. QED
  BY <1>1 DEF RootFor, Node

\* create_folder
LEMMA CreateFolderOwners ==
  ASSUME TypeOK, TreeInv, OwnersInv, NEW c \in Clients, NEW u \in Users, NEW f \in Folders,
         NEW p \in Folders \cup {None}, CreateFolder(c, u, f, p)
  PROVE  OwnersInv'
<1>1. PICK own \in [Nodes -> Users \cup {None}] : OwnersAre(own)
  BY DEF OwnersInv
<1>2. PICK rec : rec = [owner |-> u, parent |-> p,
                        root |-> IF p = None THEN None ELSE RootFor(p),
                        general |-> None, deleted |-> FALSE]
  OBVIOUS
<1>3. PICK top : top = [rec EXCEPT !.root = f]
  OBVIOUS
<1>4. /\ birth[f] = None /\ (p # None => Exists(p))
      /\ birth' = [birth EXCEPT ![f] = IF p = None THEN f ELSE rec.root]
      /\ Begin(c, u, "folder", "create", f, p,
               IF p = None THEN <<Save(f, rec), Save(f, top)>> ELSE <<Save(f, rec)>>)
  BY <1>2, <1>3 DEF CreateFolder
<1>5. p # None => RootFor(p) \in Folders
  BY <1>4, RootForType
<1>6. rec \in Node /\ rec.owner = u /\ ~rec.deleted /\ (p # None => rec.root \in Folders)
  BY <1>2, <1>5 DEF Node
<1>7. top \in Node /\ top.owner = u /\ ~top.deleted
  BY <1>3, <1>6 DEF Node
<1>8. f \in Nodes /\ f # None /\ None \notin Folders
  BY AclAssumption DEF Nodes
<1>9. PICK b : b = IF p = None THEN f ELSE rec.root
  OBVIOUS
<1>10. PICK calls : calls = IF p = None THEN <<Save(f, rec), Save(f, top)>> ELSE <<Save(f, rec)>>
  OBVIOUS
<1>11. b # None /\ calls \in {<<Save(f, rec)>>, <<Save(f, rec), Save(f, top)>>}
  BY <1>6, <1>8, <1>9, <1>10
<1>12. birth' = [birth EXCEPT ![f] = b] /\ Begin(c, u, "folder", "create", f, p, calls)
  BY <1>4, <1>9, <1>10
<1>. QED
  BY <1>1, <1>4, <1>6, <1>7, <1>8, <1>11, <1>12, CreateOwners

\* create_document
LEMMA CreateDocOwners ==
  ASSUME TypeOK, TreeInv, OwnersInv, NEW c \in Clients, NEW u \in Users, NEW d \in Docs,
         NEW p \in Folders \cup {None}, CreateDoc(c, u, d, p)
  PROVE  OwnersInv'
<1>1. PICK own \in [Nodes -> Users \cup {None}] : OwnersAre(own)
  BY DEF OwnersInv
<1>2. PICK rec : rec = [owner |-> u, parent |-> p,
                        root |-> IF p = None THEN None ELSE RootFor(p),
                        general |-> None, deleted |-> FALSE]
  OBVIOUS
<1>3. /\ birth[d] = None /\ (p # None => Exists(p)) /\ birth' = [birth EXCEPT ![d] = d]
      /\ Begin(c, u, "doc", "create", d, p, <<Save(d, rec)>>)
  BY <1>2 DEF CreateDoc
<1>4. p # None => RootFor(p) \in Folders
  BY <1>3, RootForType
<1>5. rec \in Node /\ rec.owner = u /\ ~rec.deleted
  BY <1>2, <1>4 DEF Node
<1>6. d \in Nodes /\ d # None
  BY AclAssumption DEF Nodes
<1>7. PICK calls : calls = <<Save(d, rec)>>
  OBVIOUS
<1>8. /\ Begin(c, u, "doc", "create", d, p, calls)
      /\ calls \in {<<Save(d, rec)>>, <<Save(d, rec), Save(d, rec)>>}
  BY <1>3, <1>7
<1>. QED
  BY <1>1, <1>3, <1>5, <1>6, <1>8, CreateOwners

\* A request saves a node with the owner it has; a document that is in the trash
\* is its user's.
LEMMA SaveOwners ==
  ASSUME TypeOK, TreeInv, NEW own \in [Nodes -> Users \cup {None}], OwnersAre(own),
         UNCHANGED birth,
         NEW c \in Clients, NEW u, NEW kind, NEW op, NEW e \in Nodes, NEW into,
         NEW rec \in Node, Exists(e), rec.owner = node[e].owner,
         kind = "doc" /\ rec.deleted => node[e].owner = u,
         Begin(c, u, kind, op, e, into, <<Save(e, rec)>>)
  PROVE  OwnersInv'
<1>1. birth[e] # None /\ node[e].owner = own[e]
  BY HasOwner
<1>2. ASSUME NEW r, r.kind = kind, r.user = u
      PROVE  <<Save(e, rec)>> \in Seq(Allowed(own, birth, r))
  BY <1>1, <1>2, SaveAllowed
<1>. QED
  BY <1>2, KeepOwners

\* A request that deletes or restores: a document by who owns it, or by who owns
\* all.
LEMMA CascadeOwners ==
  ASSUME TypeOK, TreeInv, NEW own \in [Nodes -> Users \cup {None}], OwnersAre(own),
         UNCHANGED birth,
         NEW c \in Clients, NEW u, NEW kind, NEW mode \in Modes, NEW e \in Nodes, NEW into,
         NEW copy \in Node, CanDelete(e, u), copy.owner = node[e].owner,
         kind = "doc" => e \in Docs,
         Begin(c, u, kind, mode, e, into, Cascade(mode, e, copy))
  PROVE  OwnersInv'
<1>1. Exists(e) /\ (node[e].owner = u \/ OwnsAll(e, u))
  BY DEF CanDelete, OwnsAll
<1>2. birth[e] # None /\ node[e].owner = own[e]
  BY <1>1, HasOwner
<1>3. ASSUME NEW r, r.kind = kind, r.user = u, r.all = OwnsAll(e, u)
      PROVE  Cascade(mode, e, copy) \in Seq(Allowed(own, birth, r))
  <2>1. r.kind = "doc" => e \notin Folders /\ (mode # "restore" /\ ~r.all => own[e] = r.user)
    BY <1>1, <1>2, <1>3, AclAssumption
  <2>. QED
    BY <1>2, <2>1, CascadeAllowed
<1>. QED
  BY <1>3, KeepOwners

\* The requests on a folder.
LEMMA FolderRequestOwners ==
  ASSUME TypeOK, TreeInv, OwnersInv, NEW c \in Clients, NEW u \in Users, NEW f \in Folders,
         FolderRequest(c, u, f)
  PROVE  OwnersInv'
<1>1. PICK own \in [Nodes -> Users \cup {None}] : OwnersAre(own)
  BY DEF OwnersInv
<1>2. f \in Nodes
  BY DEF Nodes
<1>3. ASSUME NEW p \in Folders \cup {None}, NEW general \in Granted \cup {None, "keep"},
             UpdateFolder(c, u, f, p, general)
      PROVE  OwnersInv'
  <2>1. PICK rec : rec = [node[f] EXCEPT
                            !.parent  = IF p = None THEN @ ELSE p,
                            !.general = IF general = "keep" THEN @ ELSE general]
    OBVIOUS
  <2>2. PICK into : /\ Exists(f) /\ UNCHANGED birth
                    /\ Begin(c, u, "folder", "update", f, into, <<Save(f, rec)>>)
    BY <1>3, <2>1 DEF UpdateFolder
  <2>3. node[f] \in Node
    BY <1>1, <1>2, <2>2, HasOwner
  <2>4. general # "keep" => general \in Rights \cup {None}
    BY FolderTreeAssumption
  <2>5. rec \in Node /\ rec.owner = node[f].owner
    BY <2>1, <2>3, <2>4 DEF Node
  <2>. QED
    BY <1>1, <1>2, <2>2, <2>5, SaveOwners
<1>4. ASSUME NEW mode \in Modes, DeleteFolder(c, u, f, mode)
      PROVE  OwnersInv'
  <2>1. /\ CanDelete(f, u) /\ UNCHANGED birth
        /\ Begin(c, u, "folder", mode, f, None, Cascade(mode, f, node[f]))
    BY <1>4 DEF DeleteFolder
  <2>2. node[f] \in Node
    BY <1>1, <1>2, <2>1, HasOwner DEF CanDelete
  <2>. QED
    BY <1>1, <1>2, <2>1, <2>2, CascadeOwners
<1>5. ASSUME RestoreFolder(c, u, f)
      PROVE  OwnersInv'
  <2>1. PICK rec \in {node[f], [node[f] EXCEPT !.parent = None]} :
          /\ CanDelete(f, u) /\ UNCHANGED birth
          /\ Begin(c, u, "folder", "restore", f, None, Cascade("restore", f, rec))
    BY <1>5 DEF RestoreFolder, Cascade
  <2>2. node[f] \in Node
    BY <1>1, <1>2, <2>1, HasOwner DEF CanDelete
  <2>3. rec \in Node /\ rec.owner = node[f].owner
    BY <2>1, <2>2 DEF Node
  <2>4. "restore" \in Modes
    BY DEF Modes
  <2>. QED
    BY <1>1, <1>2, <2>1, <2>3, <2>4, CascadeOwners
<1>. QED
  BY <1>3, <1>4, <1>5, CreateFolderOwners DEF FolderRequest

\* The requests on a document.
LEMMA DocRequestOwners ==
  ASSUME TypeOK, TreeInv, OwnersInv, NEW c \in Clients, NEW u \in Users, NEW d \in Docs,
         DocRequest(c, u, d)
  PROVE  OwnersInv'
<1>1. PICK own \in [Nodes -> Users \cup {None}] : OwnersAre(own)
  BY DEF OwnersInv
<1>2. d \in Nodes /\ d \notin Folders
  BY AclAssumption DEF Nodes
<1>3. ASSUME NEW p \in Folders \cup {None}, UpdateDoc(c, u, d, p)
      PROVE  OwnersInv'
  <2>1. PICK rec : rec = IF p = None THEN node[d]
                         ELSE [node[d] EXCEPT !.parent = p, !.root = RootFor(p)]
    OBVIOUS
  <2>2. /\ Exists(d) /\ ~node[d].deleted /\ (p # None => Exists(p)) /\ UNCHANGED birth
        /\ Begin(c, u, "doc", "update", d, p, <<Save(d, rec)>>)
    BY <1>3, <2>1 DEF UpdateDoc, Live
  <2>3. node[d] \in Node /\ (p # None => RootFor(p) \in Folders)
    BY <1>1, <1>2, <2>2, HasOwner, RootForType
  <2>4. rec \in Node /\ rec.owner = node[d].owner /\ ~rec.deleted
    BY <2>1, <2>2, <2>3 DEF Node
  <2>. QED
    BY <1>1, <1>2, <2>2, <2>4, SaveOwners
<1>4. ASSUME NEW general \in Granted \cup {None}, SetDocGeneral(c, u, d, general)
      PROVE  OwnersInv'
  <2>1. PICK rec : rec = [node[d] EXCEPT !.general = general]
    OBVIOUS
  <2>2. /\ Exists(d) /\ node[d].owner = u /\ UNCHANGED birth
        /\ Begin(c, u, "doc", "update", d, None, <<Save(d, rec)>>)
    BY <1>4, <2>1 DEF SetDocGeneral
  <2>3. node[d] \in Node
    BY <1>1, <1>2, <2>2, HasOwner
  <2>4. rec \in Node /\ rec.owner = node[d].owner
    BY <2>1, <2>3, FolderTreeAssumption DEF Node
  <2>. QED
    BY <1>1, <1>2, <2>2, <2>4, SaveOwners
<1>5. ASSUME NEW mode \in Modes, NEW rec \in {node[d], [node[d] EXCEPT !.parent = None]},
             CanDelete(d, u), UNCHANGED birth,
             Begin(c, u, "doc", mode, d, None, Cascade(mode, d, rec))
      PROVE  OwnersInv'
  <2>1. node[d] \in Node
    BY <1>1, <1>2, <1>5, HasOwner DEF CanDelete
  <2>2. rec \in Node /\ rec.owner = node[d].owner
    BY <2>1 DEF Node
  <2>. QED
    BY <1>1, <1>2, <1>5, <2>2, CascadeOwners
<1>6. "soft" \in Modes /\ "restore" \in Modes /\ "hard" \in Modes
  BY DEF Modes
<1>7. ASSUME DeleteDoc(c, u, d)
      PROVE  OwnersInv'
  BY <1>2, <1>5, <1>6, <1>7 DEF DeleteDoc, Cascade
<1>8. ASSUME RestoreDoc(c, u, d)
      PROVE  OwnersInv'
  <2>1. PICK rec \in {node[d], [node[d] EXCEPT !.parent = None]} :
          /\ CanDelete(d, u) /\ UNCHANGED birth
          /\ Begin(c, u, "doc", "restore", d, None, Cascade("restore", d, rec))
    BY <1>2, <1>8 DEF RestoreDoc, Cascade
  <2>. QED
    BY <1>5, <1>6, <2>1
<1>9. ASSUME HardDeleteDoc(c, u, d)
      PROVE  OwnersInv'
  BY <1>5, <1>6, <1>9 DEF HardDeleteDoc
<1>. QED
  BY <1>3, <1>4, <1>7, <1>8, <1>9, CreateDocOwners DEF DocRequest

\* The requests on collaborators.
LEMMA RowRequestOwners ==
  ASSUME TypeOK, TreeInv, OwnersInv, NEW c \in Clients, NEW u \in Users, NEW e \in Nodes,
         RowRequest(c, u, e)
  PROVE  OwnersInv'
<1>1. PICK own \in [Nodes -> Users \cup {None}] : OwnersAre(own)
  BY DEF OwnersInv
<1>2. PICK v \in Users, right \in Rights \cup {None}, op \in {"add", "remove"} :
        /\ UNCHANGED birth
        /\ Begin(c, u, "row", op, e, None, <<Call("row", e, [user |-> v, right |-> right])>>)
  BY FolderTreeAssumption DEF RowRequest, AddCollaborator, RemoveCollaborator
<1>3. PICK call : call = Call("row", e, [user |-> v, right |-> right])
  OBVIOUS
<1>4. call \in Calls /\ call.op = "row"
  BY <1>3 DEF Call, Calls
<1>5. ASSUME NEW r, r.kind = "row"
      PROVE  <<call>> \in Seq(Allowed(own, birth, r))
  <2>1. call \in Allowed(own, birth, r)
    BY <1>4, <1>5 DEF Allowed, Honest
  <2>. QED
    BY <2>1
<1>6. Begin(c, u, "row", op, e, None, <<call>>)
  BY <1>2, <1>3
<1>. QED
  BY <1>1, <1>2, <1>5, <1>6, KeepOwners

-----------------------------------------------------------------------------
(* Who deletes what.                                                       *)

\* The empty database.
LEMMA InitOwners == Init => OwnersInv
<1>. SUFFICES ASSUME Init PROVE OwnersInv
  OBVIOUS
<1>1. PICK own \in [Nodes -> Users \cup {None}] : own = [e \in Nodes |-> None]
  OBVIOUS
<1>2. \A c \in Clients : todo[c] = <<>>
  BY DEF Init
<1>3. \A S : <<>> \in Seq(S)
  OBVIOUS
<1>4. \A c \in Clients : todo[c] \in Seq(Allowed(own, birth, request[c]))
  BY <1>2, <1>3, Zenon
<1>5. OwnersAre(own)
  BY <1>4 DEF Init, OwnersAre, Exists
<1>. QED
  BY <1>5 DEF OwnersInv

\* The owners never change.
LEMMA NextOwners == TypeOK /\ TreeInv /\ OwnersInv /\ [Next]_vars => OwnersInv'
<1>. SUFFICES ASSUME TypeOK, TreeInv, OwnersInv, [Next]_vars PROVE OwnersInv'
  OBVIOUS
<1>1. CASE UNCHANGED vars
  BY <1>1 DEF vars, OwnersInv, OwnersAre, Exists
<1>2. ASSUME NEW c \in Clients, NEW u \in Users, Starts(c, u)
      PROVE  OwnersInv'
  BY <1>2, FolderRequestOwners, DocRequestOwners, RowRequestOwners DEF Starts
<1>3. ASSUME NEW c \in Clients, DoCall(c)
      PROVE  OwnersInv'
  BY <1>3, WriteOwners, FindOwners, EachOwners DEF DoCall
<1>. QED
  BY <1>1, <1>2, <1>3, StepIs, EndOwners

\* What a cascade takes away is in its folder, and it restores nothing away.
LEMMA CascadeDeletes ==
  ASSUME NEW nodes \in Tree, NEW r, r.op \in Modes, NEW s \in Seq(Calls), s # <<>>,
         Cascading(nodes, r, s), NEW e, Deletes(Head(s), e)
  PROVE  r.op # "restore" /\ Reaches(nodes, e, r.on)
<1>. DEFINE mode == r.op
            on == r.on
            all == r.trashed
<1>1. on \in Folders /\ mode \in Modes
  BY DEF Cascading
<1>2. Opening(nodes, mode, on, s, all) \/ Going(nodes, mode, on, s, all)
  BY DEF Cascading
<1>. HIDE DEF mode, on, all
<1>3. mode # "restore" /\ Reaches(nodes, e, on)
  <2>1. CASE Opening(nodes, mode, on, s, all)
    <3>1. Head(s).op = "save" /\ Head(s).id = on /\ Head(s).arg.deleted = (mode = "soft")
      BY <1>1, <2>1, OpenCalls
    <3>. QED
      BY <3>1, ReachesSelf DEF Deletes
  <2>2. CASE Going(nodes, mode, on, s, all)
    <3>1. Fitting(nodes, mode, on, Head(s))
      BY <2>2, FirstFits DEF Going
    <3>. QED
      BY <3>1 DEF Fitting, OfMode, Deletes
  <2>. QED
    BY <1>2, <2>1, <2>2
<1>. QED
  BY <1>3 DEF mode, on

\* Who takes a live node away owns it, or owns all.
LEMMA WriteOwned ==
  ASSUME TypeOK, TreeInv, TrashInv, OwnersInv, NEW c \in Clients, DoSave(c) \/ DoDrop(c),
         Clean, ~request[c].all, NEW e \in Nodes, Live(e), ~Live(e)'
  PROVE  node[e].owner = request[c].user
<1>. DEFINE call == Head(todo[c])
<1>1. ~Idle(c) /\ call.op \in {"save", "drop"}
  BY DEF DoSave, DoDrop, Doing
<1>2. /\ ~raced /\ node \in Tree /\ todo[c] \in Seq(Calls) /\ todo[c] # <<>> /\ call \in Calls
      /\ request[c].kind = "folder" =>
           IF request[c].op \in Modes THEN Cascading(node, request[c], todo[c])
           ELSE NoneBuried(node) /\ Editing(node, todo[c]) /\ call.op = "save"
  BY <1>1, CallTidy
<1>3. Deletes(call, e)
  <2>1. CASE DoSave(c)
    <3>1. call.op = "save" /\ node' = [node EXCEPT ![call.id] = call.arg]
      BY <2>1 DEF DoSave, Doing
    <3>2. call.id \in Nodes /\ call.arg \in Node
      BY <1>2, <3>1 DEF Calls
    <3>. HIDE DEF call
    <3>3. e = call.id
      BY <3>1 DEF Live, Exists
    <3>4. node'[e] = call.arg /\ call.arg # None
      BY <1>2, <3>1, <3>2, <3>3, FolderTreeAssumption DEF Tree
    <3>. QED
      BY <3>1, <3>3, <3>4 DEF Live, Exists, Deletes
  <2>2. CASE DoDrop(c)
    <3>1. call.op = "drop" /\ node' = [node EXCEPT ![call.id] = None]
      BY <2>2 DEF DoDrop, Doing
    <3>. HIDE DEF call
    <3>. QED
      BY <3>1 DEF Live, Exists, Deletes
  <2>. QED
    BY <2>1, <2>2
<1>4. request[c].kind # "row"
  BY <1>1, <1>2, CallKind
<1>5. CASE request[c].kind = "doc"
  <2>1. PICK own \in [Nodes -> Users \cup {None}] : OwnersAre(own)
    BY DEF OwnersInv
  <2>2. call \in Allowed(own, birth, request[c]) /\ node[e].owner = own[e]
    BY <1>1, <2>1, HeadAllowed DEF Live, Exists
  <2>. QED
    BY <1>3, <1>5, <2>2 DEF Allowed
<1>6. CASE request[c].kind = "folder" /\ request[c].op \in Modes
  <2>1. Cascading(node, request[c], todo[c])
    BY <1>2, <1>6
  <2>2. request[c].op # "restore" /\ Reaches(node, e, request[c].on)
    BY <1>2, <1>3, <1>6, <2>1, CascadeDeletes
  <2>. QED
    BY <2>1, <2>2 DEF Cascading, Owned, LiveIn, Live, Exists
<1>7. CASE request[c].kind = "folder" /\ request[c].op \notin Modes
  <2>1. Editing(node, todo[c]) /\ call.op = "save"
    BY <1>2, <1>7
  <2>2. Len(todo[c]) \in Nat \ {0} /\ call = todo[c][1]
    BY <1>2, EmptySeq, HeadTailProperties
  <2>3. 1 \in 1..Len(todo[c])
    BY <2>2
  <2>4. ~LiveIn(node, e)
    BY <1>3, <2>1, <2>2, <2>3 DEF Editing, Deletes
  <2>. QED
    BY <2>4 DEF LiveIn, Live, Exists
<1>8. request[c].kind \in {"folder", "doc", "row"}
  BY DEF TypeOK
<1>. QED
  BY <1>4, <1>5, <1>6, <1>7, <1>8

\* A step of a client in which a live node goes.
LEMMA StepOwned ==
  ASSUME IInv, TreeInv, TrashInv, OwnersInv, [Next]_vars, NEW c \in Clients, NEW e \in Nodes,
         Live(e), ~Live(e)', todo'[c] # todo[c], ~raced, ~intoTrash, fails = 0,
         ~request[c].all
  PROVE  node[e].owner = request[c].user
<1>0. TypeOK /\ Clean
  BY DEF IInv, Clean
<1>1. node' # node
  BY DEF Live, Exists
<1>2. ~UNCHANGED vars
  BY <1>1 DEF vars
<1>3. ASSUME NEW d \in Clients, NEW u \in Users, Starts(d, u)
      PROVE  FALSE
  <2>1. PICK kind, op, on, into, calls : Begin(d, u, kind, op, on, into, calls)
    BY <1>3, StartsBegin
  <2>. QED
    BY <1>1, <2>1 DEF Begin
<1>4. ASSUME NEW d \in Clients, Fail(d) \/ TooDeep(d)
      PROVE  FALSE
  BY <1>1, <1>4 DEF Fail, TooDeep, End
<1>5. ASSUME NEW d \in Clients, DoCall(d)
      PROVE  node[e].owner = request[c].user
  <2>1. PICK more : Done(d, more)
    BY <1>5 DEF DoCall, DoSave, DoDrop, DoRow, DoPurge, DoFind, DoEach
  <2>2. d = c
    BY <2>1 DEF Done
  <2>3. DoSave(c) \/ DoDrop(c)
    BY <1>1, <1>5, <2>2 DEF DoCall, DoRow, DoPurge, DoFind, DoEach
  <2>. QED
    BY <1>0, <2>3, WriteOwned
<1>. QED
  BY <1>2, <1>3, <1>4, <1>5, StepIs

\* A user deletes live nodes of others only as the root owner, or as the owner of
\* a folder at the top (acl_service.py, _assert_can_delete_folder and
\* all_children_owned_by, which judge before the first call).
THEOREM OwnersDeleteHolds == Spec => OwnersDelete
<1>1. Init => OwnersInv
  BY InitOwners
<1>2. IInv /\ TreeInv /\ OwnersInv /\ [Next]_vars => OwnersInv'
  BY NextOwners DEF IInv
<1>3. ASSUME IInv, TreeInv, TrashInv, OwnersInv, [Next]_vars
      PROVE  \A c \in Clients, e \in Nodes :
               LET r == request[c]
               IN Live(e) /\ ~Live(e)' /\ todo'[c] # todo[c]
                    /\ ~raced /\ ~intoTrash /\ fails = 0 /\ ~r.all =>
                  node[e].owner = r.user
  BY <1>3, StepOwned
<1>. QED
  BY <1>1, <1>2, <1>3, SpecTrash, PTL DEF Spec, OwnersDelete

=============================================================================
