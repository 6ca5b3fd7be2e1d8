--------------------------- MODULE DirectoryProofs ---------------------------
(***************************************************************************)
(* Theorems about Directory.  For any overlap of requests and failures:    *)
(* types (each member row has an identity of its own), no admin that nobody *)
(* made one, and no group that reaches into another tenant.  And what      *)
(* requests leave behind when those about one group, or about one account, *)
(* do not overlap or fail, whatever all other requests do: both invariants *)
(* say, per group and per account, that one request at most is under way   *)
(* and what it still has to do.                                            *)
(***************************************************************************)
EXTENDS Directory, FiniteSetTheorems, TLAPS

Rows == [id : Nat, org : Orgs, user : Users, role : Roles]

\* Applying the admin group, and all that a request on a group does.
MappingOps == {"findGroup", "readRows", "promote", "makeAdmin"}

ChangingOps == {"saveGroup", "rows", "add", "clear"} \cup MappingOps

GroupRequests ==
  {r \in [op : ChangingOps, about : Groups, copy : GroupRecord, leave : SUBSET Users,
          enter : SUBSET Users, map : BOOLEAN, last : {"keep", "save", "delete"},
          found : Groups \cup {None}, row : Rows \cup {None}] :
     /\ r.op = "readRows" => r.found \in Groups
     /\ r.op = "makeAdmin" => r.row \in Rows}

\* What a handler may be in the middle of.
Requests ==
  {Idle}
    \cup [op : {"saveAccount"}, about : Users, user : Users, org : Orgs \cup {None}]
    \cup [op : {"insertRow"}, about : Users, user : Users, org : Orgs, role : Roles,
          then : BOOLEAN]
    \cup [op : {"deleteRow"}, about : Users, user : Users, org : Orgs, row : Rows,
          scim : BOOLEAN]
    \cup [op : {"saveRow"}, about : Users, row : Rows]
    \cup [op : {"insertAccount"}, about : Users, user : Users, org : Orgs]
    \cup [op : {"saveOrg"}, about : Orgs, org : Orgs, name : Names \cup {None}]
    \cup [op : {"saveConfig"}, about : Orgs, org : Orgs, scim : BOOLEAN]
    \cup GroupRequests

Subjects == Users \cup Orgs \cup Groups

\* Types of all but the history.
StateTyped ==
  /\ account \in [Users -> Orgs \cup {None, Absent}]
  /\ rows \subseteq Rows /\ IsFiniteSet(rows)
  /\ \A row, other \in rows : row.id = other.id => row = other
  /\ orgs \subseteq Orgs
  /\ adminGroup \in [Orgs -> Names \cup {None}]
  /\ scim \in [Orgs -> BOOLEAN]
  /\ group \in [Groups -> GroupRecord \cup {Absent}]
  /\ joined \in [Groups -> [Users -> Nat]]
  /\ req \in [Handlers -> Requests]
  /\ started \in 0..MaxRequests
  /\ dirty \subseteq Subjects

TInv ==
  /\ StateTyped
  /\ ever \subseteq Orgs \X Users /\ granted \subseteq Orgs \X Users /\ shifted \subseteq Orgs

\* What a request that applies the admin group has read still holds, and whoever
\* it has read of the group was granted the role; unless the admin group became
\* another meanwhile.
Backed(r) ==
  /\ r.op = "findGroup" => r.enter = {}
  /\ r.op = "findGroup" /\ r.copy.org \notin shifted =>
       adminGroup[r.copy.org] = r.copy.name
  /\ r.op = "readRows" /\ r.copy.org \notin shifted =>
       IsAdminGroup(r.copy.org, r.found)
  /\ r.op \in {"promote", "makeAdmin"} /\ r.copy.org \notin shifted =>
       \A u \in r.enter : <<r.copy.org, u>> \in granted
  /\ r.op = "makeAdmin" /\ r.row.org \notin shifted =>
       <<r.row.org, r.row.user>> \in granted

\* An admin, and whoever a request is about to make one, was granted the role.
AdminInv ==
  /\ NoUngrantedAdmin
  /\ \A p \in Handlers :
       /\ req[p].op = "insertRow" /\ req[p].role = "admin" =>
            <<req[p].org, req[p].user>> \in granted
       /\ req[p].op = "saveRow" /\ req[p].row.role = "admin" =>
            <<req[p].row.org, req[p].row.user>> \in granted
       /\ Backed(req[p])

About(p, g) == req[p].op \in ChangingOps /\ req[p].about = g

\* A group, and every copy of it a request holds, is of one organization, and
\* who has a row of the group was in that one.
TenantInv ==
  /\ GroupsWithinTenant
  /\ \A g \in Groups, p \in Handlers : About(p, g) =>
       /\ group[g] # Absent => group[g].org = req[p].copy.org
       /\ \A q \in Handlers : About(q, g) => req[q].copy.org = req[p].copy.org
       /\ \A u \in InGroup(g) : <<req[p].copy.org, u>> \in ever

-----------------------------------------------------------------------------
(* Types.                                                                  *)

\* There are more identities than rows and copies of rows.
LEMMA FreshIdIsFresh ==
  ASSUME StateTyped
  PROVE  /\ FreshId \in Nat
         /\ \A row \in rows : row.id # FreshId
         /\ \A p \in Handlers :
              req[p].op \in {"saveRow", "deleteRow", "makeAdmin"} => req[p].row.id # FreshId
<1> DEFINE holding == {p \in Handlers : req[p].op \in {"saveRow", "deleteRow", "makeAdmin"}}
           ids == {row.id : row \in rows}
           held == {req[p].row.id : p \in holding}
           N == Cardinality(rows) + Cardinality(Handlers)
<1>1. /\ IsFiniteSet(ids) /\ Cardinality(ids) \in Nat
      /\ Cardinality(rows) \in Nat /\ Cardinality(ids) <= Cardinality(rows)
  <2>1. [row \in rows |-> row.id] \in Surjection(rows, ids)
    BY DEF Surjection
  <2>. HIDE DEF ids
  <2>. QED
    BY <2>1, FS_Surjection, FS_CardinalityType DEF StateTyped
<1>2. /\ IsFiniteSet(held) /\ Cardinality(held) \in Nat
      /\ Cardinality(Handlers) \in Nat /\ Cardinality(held) <= Cardinality(Handlers)
  <2>1. [p \in holding |-> req[p].row.id] \in Surjection(holding, held)
    BY DEF Surjection
  <2>2. IsFiniteSet(holding) /\ Cardinality(holding) <= Cardinality(Handlers)
    BY DirectoryAssumption, FS_Subset
  <2>. HIDE DEF held, holding
  <2>3. IsFiniteSet(held) /\ Cardinality(held) <= Cardinality(holding)
    BY <2>1, <2>2, FS_Surjection
  <2>. QED
    BY <2>2, <2>3, DirectoryAssumption, FS_CardinalityType
<1>3. \E n \in 1..(N + 1) : n \notin ids \cup held
  <2>. HIDE DEF ids, held
  <2>1. IsFiniteSet(ids \cup held) /\ Cardinality(ids \cup held) <= N
    <3>1. IsFiniteSet(ids \cap held) /\ Cardinality(ids \cap held) \in Nat
      BY <1>1, FS_Subset, FS_CardinalityType
    <3>2. /\ IsFiniteSet(ids \cup held)
          /\ Cardinality(ids \cup held)
               = Cardinality(ids) + Cardinality(held) - Cardinality(ids \cap held)
      BY <1>1, <1>2, FS_Union
    <3>. QED
      BY <1>1, <1>2, <3>1, <3>2
  <2>2. N + 1 \in Nat /\ Cardinality(1..(N + 1)) = N + 1
    <3>1. N + 1 \in Nat /\ N + 1 >= 1
      BY <1>1, <1>2
    <3>. HIDE DEF N
    <3>. QED
      BY <3>1, FS_Interval
  <2>3. SUFFICES ASSUME 1..(N + 1) \subseteq ids \cup held PROVE FALSE
    OBVIOUS
  <2>. HIDE DEF N
  <2>4. Cardinality(1..(N + 1)) <= Cardinality(ids \cup held)
    BY <2>1, <2>3, FS_Subset
  <2>5. Cardinality(ids \cup held) \in Nat /\ N \in Nat
    BY <1>1, <1>2, <2>1, FS_CardinalityType DEF N
  <2>. QED
    BY <2>1, <2>2, <2>4, <2>5
<1>4. PICK n \in 1..(N + 1) :
        /\ \A row \in rows : row.id # n
        /\ \A p \in Handlers : req[p].op \in {"saveRow", "deleteRow", "makeAdmin"} => req[p].row.id # n
  BY <1>3
<1>5. /\ FreshId \in 1..(N + 1)
      /\ \A row \in rows : row.id # FreshId
      /\ \A p \in Handlers :
           req[p].op \in {"saveRow", "deleteRow", "makeAdmin"} => req[p].row.id # FreshId
  BY <1>4, Zenon DEF FreshId
<1>. QED
  BY <1>1, <1>2, <1>5

\* What a request holds.
LEMMA Shapes ==
  ASSUME NEW r \in Requests
  PROVE  /\ r.op = "saveAccount" => r.user \in Users /\ r.org \in Orgs \cup {None}
         /\ r.op = "insertRow" =>
              /\ r.user \in Users /\ r.org \in Orgs
              /\ r.role \in Roles /\ r.then \in BOOLEAN
         /\ r.op = "deleteRow" => r.user \in Users /\ r.org \in Orgs /\ r.row \in Rows
         /\ r.op = "saveRow" => r.row \in Rows
         /\ r.op = "insertAccount" => r.user \in Users /\ r.org \in Orgs
         /\ r.op = "saveOrg" => r.org \in Orgs /\ r.name \in Names \cup {None}
         /\ r.op = "saveConfig" => r.org \in Orgs /\ r.scim \in BOOLEAN
         /\ r.op \in ChangingOps =>
              /\ r.about \in Groups /\ r.copy \in GroupRecord
              /\ r.leave \subseteq Users /\ r.enter \subseteq Users
              /\ r.map \in BOOLEAN /\ r.last \in {"keep", "save", "delete"}
         /\ r.op = "readRows" => r.found \in Groups
         /\ r.op = "makeAdmin" => r.row \in Rows
         /\ r # Idle => r.about \in Subjects
<1>1. r \in GroupRequests \/ r.op \notin ChangingOps
  BY DEF Requests, ChangingOps, MappingOps, Idle
<1>2. CASE r \in GroupRequests
  BY <1>2 DEF GroupRequests, ChangingOps, MappingOps, Subjects
<1>3. CASE r.op \notin ChangingOps
  BY <1>3 DEF Requests, GroupRequests, ChangingOps, MappingOps, Idle, Subjects
<1>. QED
  BY <1>1, <1>2, <1>3

\* What is made of one request for the next.
LEMMA Follows ==
  /\ Idle \in Requests
  /\ \A u \in Users, o \in Orgs \cup {None} : Saving(u, o) \in Requests
  /\ \A u \in Users, o \in Orgs, role \in Roles, then \in BOOLEAN :
       Inserting(u, o, role, then) \in Requests
  /\ \A u \in Users, o \in Orgs : Creating(u, o) \in Requests
  BY DEF Requests, Idle, Saving, Inserting, Creating

LEMMA ChangingTyped ==
  ASSUME NEW op \in ChangingOps \ MappingOps, NEW g \in Groups, NEW copy \in GroupRecord,
         NEW leave \in SUBSET Users, NEW enter \in SUBSET Users, NEW map \in BOOLEAN,
         NEW last \in {"keep", "save", "delete"}
  PROVE  Changing(op, g, copy, leave, enter, map, last) \in Requests
<1>1. Changing(op, g, copy, leave, enter, map, last) \in GroupRequests
  BY DEF GroupRequests, Changing, ChangingOps, MappingOps
<1>. QED
  BY <1>1 DEF Requests

-----------------------------------------------------------------------------
(* How requests begin.                                                     *)

\* A request on a group goes by the organization the group is of, or is about a
\* group that nobody knows yet.
Belongs(r) ==
  IF group[r.about] = Absent THEN InGroup(r.about) = {} /\ ~Busy(r.about)
                             ELSE r.copy.org = group[r.about].org

Begins(p) ==
  /\ \E r \in Requests :
       /\ req' = [req EXCEPT ![p] = r]
       /\ r.op \notin MappingOps
       /\ r.op \in ChangingOps => Belongs(r)
  /\ started' \in 0..MaxRequests /\ dirty' \subseteq Subjects /\ orgs' \subseteq Orgs
  /\ UNCHANGED <<account, rows, adminGroup, scim, group, joined>>

LEMMA BeginBegins ==
  ASSUME StateTyped, NEW p \in Handlers, NEW s \in Subjects, NEW r \in Requests,
         Begin(p, s, r), r.op \notin MappingOps, r.op \in ChangingOps => Belongs(r),
         orgs' \subseteq Orgs, UNCHANGED <<account, rows, adminGroup, scim, group, joined>>
  PROVE  Begins(p)
<1>1. started' \in 0..MaxRequests /\ dirty' \subseteq Subjects
  BY DirectoryAssumption DEF Begin, StateTyped
<1>. QED
  BY <1>1 DEF Begin, Begins

\* The same, of a request that changes nothing yet.
LEMMA QuietBegins ==
  ASSUME StateTyped, NEW p \in Handlers, NEW s \in Subjects, NEW r \in Requests,
         Begin(p, s, r), r.op \notin MappingOps, r.op \in ChangingOps => Belongs(r),
         NoDirectoryChange
  PROVE  Begins(p)
  BY BeginBegins DEF NoDirectoryChange, StateTyped

LEMMA RowTyped ==
  ASSUME StateTyped, NEW o \in Orgs, NEW u \in Users, NEW row \in RowsOf(o, u)
  PROVE  /\ row \in Rows /\ row \in rows /\ row.org = o /\ row.user = u
         /\ \A role \in Roles : [row EXCEPT !.role = role] \in Rows
  BY DEF RowsOf, StateTyped, Rows

LEMMA MembersBegin ==
  ASSUME StateTyped, NEW p \in Handlers, BeginMembers(p)
  PROVE  Begins(p)
<1>. PICK u \in Users :
       \/ UpdateAccount(p, u)
       \/ \E o \in Orgs :
            \/ CreateOrg(p, o, u) \/ RemoveMember(p, o, u) \/ DeleteScimUser(p, o, u)
            \/ UpdateScimUser(p, o, u) \/ CreateScimUser(p, o, u)
            \/ Login(p, o, u) \/ LoginMoves(p, o, u)
            \/ \E role \in Roles : AddMember(p, o, u, role) \/ ChangeRole(p, o, u, role)
  BY Zenon DEF BeginMembers
<1>. u \in Subjects
  BY DEF Subjects
<1>1. ASSUME UpdateAccount(p, u) PROVE Begins(p)
  <2>1. /\ Begin(p, u, Saving(u, account[u])) /\ NoDirectoryChange
        /\ Saving(u, account[u]) \in Requests
    BY <1>1, Follows DEF UpdateAccount, StateTyped
  <2>. QED
    BY <2>1, QuietBegins DEF Saving, ChangingOps, MappingOps
<1>2. ASSUME NEW o \in Orgs, CreateOrg(p, o, u) PROVE Begins(p)
  <2> DEFINE r == Inserting(u, o, "admin", TRUE)
  <2>1. r \in Requests /\ r.op \notin ChangingOps
    BY Follows DEF Roles, Inserting, ChangingOps, MappingOps
  <2>2. /\ Begin(p, u, r) /\ orgs' \subseteq Orgs
        /\ UNCHANGED <<account, rows, adminGroup, scim, group, joined>>
    BY <1>2 DEF CreateOrg, StateTyped
  <2>. HIDE DEF r
  <2>. QED
    BY <2>1, <2>2, BeginBegins DEF ChangingOps, MappingOps
<1>3. ASSUME NEW o \in Orgs, NEW row \in RowsOf(o, u), NEW b \in BOOLEAN,
             Deleting(p, o, u, row, b), NoDirectoryChange
      PROVE  Begins(p)
  <2> DEFINE r == [op |-> "deleteRow", about |-> u, user |-> u, org |-> o, row |-> row,
                   scim |-> b]
  <2>1. r \in Requests /\ r.op \notin ChangingOps
    BY RowTyped DEF Requests, ChangingOps, MappingOps
  <2>2. Begin(p, u, r)
    BY <1>3 DEF Deleting
  <2>. HIDE DEF r
  <2>. QED
    BY <1>3, <2>1, <2>2, QuietBegins DEF ChangingOps, MappingOps
<1>4. ASSUME NEW o \in Orgs, RemoveMember(p, o, u) PROVE Begins(p)
  BY <1>3, <1>4 DEF RemoveMember
<1>5. ASSUME NEW o \in Orgs, DeleteScimUser(p, o, u) PROVE Begins(p)
  <2>1. CASE Begin(p, u, Saving(u, None))
    <3>1. Saving(u, None) \in Requests /\ NoDirectoryChange
      BY <1>5, Follows DEF DeleteScimUser
    <3>. QED
      BY <2>1, <3>1, QuietBegins DEF Saving, ChangingOps, MappingOps
  <2>. QED
    BY <1>3, <1>5, <2>1 DEF DeleteScimUser
<1>6. ASSUME NEW o \in Orgs, UpdateScimUser(p, o, u) PROVE Begins(p)
  BY <1>1, <1>6 DEF UpdateScimUser
<1>7. ASSUME NEW o \in Orgs, CreateScimUser(p, o, u) PROVE Begins(p)
  <2>1. Begin(p, u, Creating(u, o)) /\ NoDirectoryChange /\ Creating(u, o) \in Requests
    BY <1>7, Follows DEF CreateScimUser
  <2>. QED
    BY <2>1, QuietBegins DEF Creating, ChangingOps, MappingOps
<1>8. ASSUME NEW o \in Orgs, Login(p, o, u) PROVE Begins(p)
  <2>1. CASE Begin(p, u, Creating(u, o))
    BY <1>8, <2>1, Follows, QuietBegins DEF Login, Creating, ChangingOps, MappingOps
  <2>2. CASE Begin(p, u, Saving(u, o))
    BY <1>8, <2>2, Follows, QuietBegins DEF Login, Saving, ChangingOps, MappingOps
  <2>. QED
    BY <1>8, <2>1, <2>2 DEF Login
<1>9. ASSUME NEW o \in Orgs, LoginMoves(p, o, u) PROVE Begins(p)
  <2>1. /\ req' = [req EXCEPT ![p] = Saving(u, o)] /\ Saving(u, o) \in Requests
        /\ Saving(u, o).op = "saveAccount"
    BY <1>9, Follows DEF LoginMoves, Saving
  <2>2. /\ started' \in 0..MaxRequests /\ dirty' \subseteq Subjects
        /\ orgs' \subseteq Orgs
        /\ UNCHANGED <<account, rows, adminGroup, scim, group, joined>>
    BY <1>9, DirectoryAssumption DEF LoginMoves, StateTyped, NoDirectoryChange
  <2>. QED
    BY <2>1, <2>2 DEF Begins, ChangingOps, MappingOps
<1>10. ASSUME NEW o \in Orgs, NEW role \in Roles, AddMember(p, o, u, role) PROVE Begins(p)
  <2> DEFINE r == Inserting(u, o, role, u \notin Super)
  <2>1. r \in Requests /\ r.op \notin ChangingOps
    BY Follows DEF Inserting, ChangingOps, MappingOps
  <2>2. Begin(p, u, r) /\ NoDirectoryChange
    BY <1>10 DEF AddMember
  <2>. HIDE DEF r
  <2>. QED
    BY <2>1, <2>2, QuietBegins DEF ChangingOps, MappingOps
<1>11. ASSUME NEW o \in Orgs, NEW role \in Roles, ChangeRole(p, o, u, role) PROVE Begins(p)
  <2>1. PICK row \in RowsOf(o, u) :
          Begin(p, u, [op |-> "saveRow", about |-> u, row |-> [row EXCEPT !.role = role]])
    BY <1>11 DEF ChangeRole
  <2> DEFINE r == [op |-> "saveRow", about |-> u, row |-> [row EXCEPT !.role = role]]
  <2>2. r \in Requests /\ r.op \notin ChangingOps
    BY RowTyped DEF Requests, ChangingOps, MappingOps
  <2>3. Begin(p, u, r) /\ NoDirectoryChange
    BY <1>11, <2>1 DEF ChangeRole
  <2>. HIDE DEF r
  <2>. QED
    BY <2>2, <2>3, QuietBegins DEF ChangingOps, MappingOps
<1>. QED
  BY <1>1, <1>2, <1>4, <1>5, <1>6, <1>7, <1>8, <1>9, <1>10, <1>11

LEMMA OrgBegins ==
  ASSUME StateTyped, NEW p \in Handlers, BeginOrg(p)
  PROVE  Begins(p)
<1>. PICK o \in Orgs :
       \/ GenerateScimToken(p, o) \/ RevokeScimToken(p, o) \/ UpdateSSOConfig(p, o)
       \/ \E name \in Names \cup {None} : UpdateOrg(p, o, name)
  BY Zenon DEF BeginOrg
<1>. o \in Subjects
  BY DEF Subjects
<1>1. ASSUME NEW b \in BOOLEAN, Configuring(p, o, b) PROVE Begins(p)
  <2> DEFINE r == [op |-> "saveConfig", about |-> o, org |-> o, scim |-> b]
  <2>1. r \in Requests /\ r.op \notin ChangingOps
    BY DEF Requests, ChangingOps, MappingOps
  <2>2. Begin(p, o, r) /\ NoDirectoryChange
    BY <1>1 DEF Configuring
  <2>. HIDE DEF r
  <2>. QED
    BY <2>1, <2>2, QuietBegins DEF ChangingOps, MappingOps
<1>2. CASE GenerateScimToken(p, o) \/ RevokeScimToken(p, o) \/ UpdateSSOConfig(p, o)
  <2>1. scim[o] \in BOOLEAN
    BY DEF StateTyped
  <2>. QED
    BY <1>1, <1>2, <2>1 DEF GenerateScimToken, RevokeScimToken, UpdateSSOConfig
<1>3. ASSUME NEW name \in Names \cup {None}, UpdateOrg(p, o, name) PROVE Begins(p)
  <2> DEFINE r == [op |-> "saveOrg", about |-> o, org |-> o, name |-> name]
  <2>1. r \in Requests /\ r.op \notin ChangingOps
    BY DEF Requests, ChangingOps, MappingOps
  <2>2. Begin(p, o, r) /\ NoDirectoryChange
    BY <1>3 DEF UpdateOrg
  <2>. HIDE DEF r
  <2>. QED
    BY <2>1, <2>2, QuietBegins DEF ChangingOps
<1>. QED
  BY <1>2, <1>3

LEMMA GroupBegins ==
  ASSUME StateTyped, NEW p \in Handlers, BeginGroup(p)
  PROVE  Begins(p)
<1>. PICK o \in Orgs, g \in Groups :
       \/ \E last \in {"save", "delete"} : ClearGroup(p, o, g, last)
       \/ \E name \in Names : PatchName(p, o, g, name)
       \/ \E members \in SUBSET Users :
            \/ PatchMembers(p, o, g, members)
            \/ AddToGroup(p, o, g, members) \/ RemoveFromGroup(p, o, g, members)
            \/ \E name \in Names :
                 CreateGroup(p, o, g, name, members) \/ ReplaceGroup(p, o, g, name, members)
  BY Zenon DEF BeginGroup
<1>. g \in Subjects /\ InGroup(g) \subseteq Users
  BY DEF Subjects, InGroup
<1>1. ASSUME NEW op \in ChangingOps \ MappingOps, NEW copy \in GroupRecord,
             NEW leave \in SUBSET Users, NEW enter \in SUBSET Users, NEW map \in BOOLEAN,
             NEW last \in {"keep", "save", "delete"},
             Begin(p, g, Changing(op, g, copy, leave, enter, map, last)),
             NoDirectoryChange,
             \/ group[g] = Absent /\ InGroup(g) = {} /\ ~Busy(g)
             \/ group[g] # Absent /\ copy.org = group[g].org
      PROVE  Begins(p)
  <2> DEFINE r == Changing(op, g, copy, leave, enter, map, last)
  <2>1. r \in Requests
    BY ChangingTyped
  <2>2. r.op \notin MappingOps /\ r.about = g /\ r.copy = copy
    BY <1>1 DEF Changing
  <2>. HIDE DEF r
  <2>3. Belongs(r)
    BY <1>1, <2>2 DEF Belongs
  <2>4. Begin(p, g, r)
    BY <1>1 DEF r
  <2>. QED
    BY <1>1, <2>1, <2>2, <2>3, <2>4, QuietBegins
<1>2. ASSUME OfOrg(g, o)
      PROVE  /\ group[g] # Absent /\ group[g] \in GroupRecord
             /\ \A name \in Names :
                  /\ [group[g] EXCEPT !.name = name] \in GroupRecord
                  /\ [group[g] EXCEPT !.name = name].org = group[g].org
             /\ \A members \in SUBSET Users :
                  /\ [group[g] EXCEPT !.members = members] \in GroupRecord
                  /\ [group[g] EXCEPT !.members = members].org = group[g].org
  BY <1>2 DEF OfOrg, StateTyped, GroupRecord
<1>3. ASSUME NEW last \in {"save", "delete"}, ClearGroup(p, o, g, last) PROVE Begins(p)
  <2>1. /\ OfOrg(g, o) /\ NoDirectoryChange
        /\ Begin(p, g, Changing("clear", g, [group[g] EXCEPT !.members = {}], InGroup(g), {},
                                FALSE, last))
    BY <1>3 DEF ClearGroup
  <2>. QED
    BY <1>1, <1>2, <2>1 DEF ChangingOps, MappingOps
<1>4. ASSUME NEW name \in Names, PatchName(p, o, g, name) PROVE Begins(p)
  <2>1. /\ OfOrg(g, o) /\ NoDirectoryChange
        /\ Begin(p, g, Changing("rows", g, [group[g] EXCEPT !.name = name], {}, {},
                                FALSE, "save"))
    BY <1>4 DEF PatchName
  <2>. QED
    BY <1>1, <1>2, <2>1 DEF ChangingOps, MappingOps
<1>5. ASSUME NEW copy \in GroupRecord, NEW members \in SUBSET Users,
             NEW last \in {"keep", "save", "delete"}, NoDirectoryChange,
             Begin(p, g, Syncing(g, copy, members, last)),
             \/ group[g] = Absent /\ InGroup(g) = {} /\ ~Busy(g)
             \/ group[g] # Absent /\ copy.org = group[g].org
      PROVE  Begins(p)
  <2>1. /\ [copy EXCEPT !.members = members] \in GroupRecord
        /\ [copy EXCEPT !.members = members].org = copy.org
    BY DEF GroupRecord
  <2>2. Begin(p, g, Changing("saveGroup", g, [copy EXCEPT !.members = members], {}, {},
                             TRUE, last))
    BY <1>5 DEF Syncing
  <2>. QED
    BY <1>1, <1>5, <2>1, <2>2 DEF ChangingOps, MappingOps
<1>6. ASSUME NEW members \in SUBSET Users, PatchMembers(p, o, g, members) PROVE Begins(p)
  <2>1. /\ OfOrg(g, o) /\ NoDirectoryChange
        /\ Begin(p, g, Syncing(g, group[g], members, "save"))
    BY <1>6 DEF PatchMembers
  <2>. QED
    BY <1>2, <1>5, <2>1
<1>7. ASSUME NEW members \in SUBSET Users, AddToGroup(p, o, g, members) PROVE Begins(p)
  <2> DEFINE new == members \ group[g].members
             all == group[g].members \cup new
  <2>1. /\ OfOrg(g, o) /\ NoDirectoryChange
        /\ Begin(p, g, Changing("add", g, [group[g] EXCEPT !.members = all], {}, new,
                                TRUE, "save"))
    BY <1>7 DEF AddToGroup
  <2>2. new \in SUBSET Users /\ all \in SUBSET Users
    BY <1>2, <2>1 DEF GroupRecord
  <2>. HIDE DEF new, all
  <2>. QED
    BY <1>1, <1>2, <2>1, <2>2 DEF ChangingOps, MappingOps
<1>8. ASSUME NEW members \in SUBSET Users, RemoveFromGroup(p, o, g, members) PROVE Begins(p)
  <2> DEFINE rest == group[g].members \ members
             gone == members \cap InGroup(g)
  <2>1. /\ OfOrg(g, o) /\ NoDirectoryChange
        /\ Begin(p, g, Changing("rows", g, [group[g] EXCEPT !.members = rest], gone, {},
                                FALSE, "save"))
    BY <1>8 DEF RemoveFromGroup
  <2>2. rest \in SUBSET Users /\ gone \in SUBSET Users
    BY <1>2, <2>1 DEF GroupRecord
  <2>. HIDE DEF rest, gone
  <2>. QED
    BY <1>1, <1>2, <2>1, <2>2 DEF ChangingOps, MappingOps
<1>9. ASSUME NEW members \in SUBSET Users, NEW name \in Names,
             CreateGroup(p, o, g, name, members)
      PROVE  Begins(p)
  <2> DEFINE new == [org |-> o, name |-> name, members |-> {}]
  <2>1. /\ group[g] = Absent /\ InGroup(g) = {} /\ ~Busy(g) /\ NoDirectoryChange
        /\ \/ Begin(p, g, Changing("saveGroup", g, new, {}, {}, FALSE, "keep"))
           \/ Begin(p, g, Syncing(g, new, members, "keep"))
    BY <1>9 DEF CreateGroup
  <2>2. new \in GroupRecord
    BY DEF GroupRecord
  <2>. HIDE DEF new
  <2>. QED
    BY <1>1, <1>5, <2>1, <2>2 DEF ChangingOps, MappingOps
<1>10. ASSUME NEW members \in SUBSET Users, NEW name \in Names,
              ReplaceGroup(p, o, g, name, members)
       PROVE  Begins(p)
  <2>1. /\ OfOrg(g, o) /\ NoDirectoryChange
        /\ Begin(p, g, Syncing(g, [group[g] EXCEPT !.name = name], members, "keep"))
    BY <1>10 DEF ReplaceGroup
  <2>. QED
    BY <1>2, <1>5, <2>1
<1>. QED
  BY <1>3, <1>4, <1>6, <1>7, <1>8, <1>9, <1>10

-----------------------------------------------------------------------------
(* Every step keeps the types.                                             *)

LEMMA BeginsTyped ==
  ASSUME StateTyped, NEW p \in Handlers, Begins(p)
  PROVE  StateTyped'
  BY DEF Begins, StateTyped

LEMMA AbortTyped ==
  ASSUME StateTyped, NEW p \in Handlers, Abort(p)
  PROVE  StateTyped'
<1>1. req[p] \in Requests /\ Idle \in Requests
  BY Follows DEF StateTyped
<1>2. req[p].about \in Subjects
  BY <1>1, Shapes DEF Abort
<1>. QED
  BY <1>1, <1>2 DEF StateTyped, Abort

\* A step goes on with a request of the right shape.
LEMMA GoesTyped ==
  ASSUME StateTyped, NEW p \in Handlers, NEW r \in Requests, Goes(p, r)
  PROVE  /\ req' \in [Handlers -> Requests]
         /\ started' \in 0..MaxRequests /\ dirty' \subseteq Subjects
  BY DEF Goes, StateTyped

\* What remains of a request on a group.
LEMMA ChangingIsGroup ==
  ASSUME NEW r \in Requests, r.op \in ChangingOps
  PROVE  r \in GroupRequests
  BY DEF Requests, ChangingOps, MappingOps, Idle

LEMMA ChangingGoesOn ==
  ASSUME NEW r \in Requests, r.op \in ChangingOps
  PROVE  /\ \A op \in ChangingOps \ {"readRows", "makeAdmin"},
              leave \in SUBSET Users, enter \in SUBSET Users :
              [r EXCEPT !.op = op, !.leave = leave, !.enter = enter] \in Requests
         /\ \A leave \in SUBSET Users : [r EXCEPT !.leave = leave] \in Requests
         /\ \A enter \in SUBSET Users : [r EXCEPT !.enter = enter] \in Requests
         /\ \A op \in ChangingOps \ {"readRows", "makeAdmin"} :
              [r EXCEPT !.op = op] \in Requests
<1>1. r \in GroupRequests
  BY ChangingIsGroup
<1>2. ASSUME NEW op \in ChangingOps \ {"readRows", "makeAdmin"},
             NEW leave \in SUBSET Users, NEW enter \in SUBSET Users
      PROVE  /\ [r EXCEPT !.op = op, !.leave = leave, !.enter = enter] \in GroupRequests
             /\ [r EXCEPT !.leave = leave] \in GroupRequests
             /\ [r EXCEPT !.enter = enter] \in GroupRequests
             /\ [r EXCEPT !.op = op] \in GroupRequests
  BY <1>1 DEF GroupRequests
<1>3. "rows" \in ChangingOps \ {"readRows", "makeAdmin"}
  BY DEF ChangingOps, MappingOps
<1>. QED
  BY <1>2, <1>3 DEF Requests

LEMMA MappingGoesOn ==
  ASSUME NEW r \in Requests, r.op \in ChangingOps
  PROVE  /\ \A g \in Groups : [r EXCEPT !.op = "readRows", !.found = g] \in Requests
         /\ \A enter \in SUBSET Users :
              [r EXCEPT !.op = "promote", !.enter = enter, !.found = None] \in Requests
         /\ \A enter \in SUBSET Users, row \in Rows :
              [r EXCEPT !.op = "makeAdmin", !.enter = enter, !.row = row] \in Requests
         /\ [r EXCEPT !.op = "promote", !.row = None] \in Requests
<1>1. r \in GroupRequests
  BY ChangingIsGroup
<1>2. ASSUME NEW g \in Groups
      PROVE  [r EXCEPT !.op = "readRows", !.found = g] \in GroupRequests
  BY <1>1 DEF GroupRequests, ChangingOps, MappingOps
<1>3. ASSUME NEW enter \in SUBSET Users
      PROVE  [r EXCEPT !.op = "promote", !.enter = enter, !.found = None] \in GroupRequests
  BY <1>1 DEF GroupRequests, ChangingOps, MappingOps
<1>4. ASSUME NEW enter \in SUBSET Users, NEW row \in Rows
      PROVE  [r EXCEPT !.op = "makeAdmin", !.enter = enter, !.row = row] \in GroupRequests
  BY <1>1 DEF GroupRequests, ChangingOps, MappingOps
<1>5. [r EXCEPT !.op = "promote", !.row = None] \in GroupRequests
  BY <1>1 DEF GroupRequests, ChangingOps, MappingOps
<1>. QED
  BY <1>2, <1>3, <1>4, <1>5 DEF Requests

\* What remains is about the same group, for the same organization.
LEMMA ChangingFields ==
  ASSUME NEW r \in Requests, r.op \in ChangingOps
  PROVE  /\ \A op, leave, enter :
              LET next == [r EXCEPT !.op = op, !.leave = leave, !.enter = enter]
              IN next.op = op /\ next.about = r.about /\ next.copy = r.copy
         /\ \A leave :
              LET next == [r EXCEPT !.leave = leave]
              IN next.op = r.op /\ next.about = r.about /\ next.copy = r.copy
         /\ \A enter :
              LET next == [r EXCEPT !.enter = enter]
              IN /\ next.op = r.op /\ next.about = r.about /\ next.copy = r.copy
                 /\ next.enter = enter
         /\ \A op :
              LET next == [r EXCEPT !.op = op]
              IN /\ next.op = op /\ next.about = r.about /\ next.copy = r.copy
                 /\ next.enter = r.enter
<1>1. r \in GroupRequests
  BY ChangingIsGroup
<1>. QED
  BY <1>1 DEF GroupRequests

LEMMA MappingFields ==
  ASSUME NEW r \in Requests, r.op \in ChangingOps
  PROVE  /\ \A g :
              LET next == [r EXCEPT !.op = "readRows", !.found = g]
              IN /\ next.op = "readRows" /\ next.about = r.about /\ next.copy = r.copy
                 /\ next.found = g
         /\ \A enter :
              LET next == [r EXCEPT !.op = "promote", !.enter = enter, !.found = None]
              IN /\ next.op = "promote" /\ next.about = r.about /\ next.copy = r.copy
                 /\ next.enter = enter
         /\ \A enter, row :
              LET next == [r EXCEPT !.op = "makeAdmin", !.enter = enter, !.row = row]
              IN /\ next.op = "makeAdmin" /\ next.about = r.about /\ next.copy = r.copy
                 /\ next.enter = enter /\ next.row = row
         /\ LET next == [r EXCEPT !.op = "promote", !.row = None]
            IN /\ next.op = "promote" /\ next.about = r.about /\ next.copy = r.copy
               /\ next.enter = r.enter
<1>1. r \in GroupRequests
  BY ChangingIsGroup
<1>. QED
  BY <1>1 DEF GroupRequests

\* A request that applies the admin group goes on doing that.
SameGroup(r, next) ==
  /\ next.about = r.about /\ next.copy = r.copy /\ next.leave = r.leave /\ next.last = r.last

LEMMA MappingOnwards ==
  ASSUME StateTyped, NEW p \in Handlers,
         \/ ReadSetting(p) \/ FindGroup(p) \/ ReadRows(p) \/ FindRow(p) \/ MakeAdmin(p)
  PROVE  /\ req[p].op \in ChangingOps \ {"saveGroup"}
         /\ UNCHANGED <<account, orgs, adminGroup, scim, group, joined>>
         /\ \E next : /\ req' = [req EXCEPT ![p] = next]
                      /\ next.op \in MappingOps /\ SameGroup(req[p], next)
<1> DEFINE r == req[p]
<1>1. /\ r.op \in ChangingOps \ {"saveGroup"}
      /\ UNCHANGED <<account, orgs, adminGroup, scim, group, joined>>
  BY DEF ChangingOps, MappingOps, ReadSetting, FindGroup, ReadRows, FindRow, MakeAdmin,
         NoDirectoryChange
<1>2. r \in GroupRequests
  BY <1>1, ChangingIsGroup DEF StateTyped
<1>3. ASSUME NEW next, req' = [req EXCEPT ![p] = next], next.op \in MappingOps,
             SameGroup(r, next)
      PROVE  \E new : /\ req' = [req EXCEPT ![p] = new]
                     /\ new.op \in MappingOps /\ SameGroup(r, new)
  BY <1>3
<1>4. CASE ReadSetting(p)
  <2>1. PICK op \in {"promote", "findGroup"} : req' = [req EXCEPT ![p] = [r EXCEPT !.op = op]]
    BY <1>4 DEF ReadSetting, Goes
  <2>. HIDE DEF r
  <2>2. [r EXCEPT !.op = op].op \in MappingOps /\ SameGroup(r, [r EXCEPT !.op = op])
    BY <1>2 DEF GroupRequests, MappingOps, SameGroup
  <2>. QED
    BY <1>1, <1>3, <2>1, <2>2 DEF r
<1>5. CASE FindGroup(p)
  <2>1. \/ req' = [req EXCEPT ![p] = [r EXCEPT !.op = "promote"]]
        \/ \E g \in Groups : req' = [req EXCEPT ![p] = [r EXCEPT !.op = "readRows", !.found = g]]
    BY <1>5 DEF FindGroup, Goes
  <2>. HIDE DEF r
  <2>2. /\ [r EXCEPT !.op = "promote"].op \in MappingOps
        /\ SameGroup(r, [r EXCEPT !.op = "promote"])
    BY <1>2 DEF GroupRequests, MappingOps, SameGroup
  <2>3. ASSUME NEW g
        PROVE  /\ [r EXCEPT !.op = "readRows", !.found = g].op \in MappingOps
               /\ SameGroup(r, [r EXCEPT !.op = "readRows", !.found = g])
    BY <1>2 DEF GroupRequests, MappingOps, SameGroup
  <2>. QED
    BY <1>1, <1>3, <2>1, <2>2, <2>3 DEF r
<1>6. CASE ReadRows(p)
  <2> DEFINE enter == InGroup(r.found)
             next == [r EXCEPT !.op = "promote", !.enter = enter, !.found = None]
  <2>1. req' = [req EXCEPT ![p] = next]
    BY <1>6 DEF ReadRows, Goes
  <2>. HIDE DEF r, enter
  <2>2. next.op \in MappingOps /\ SameGroup(r, next)
    BY <1>2 DEF GroupRequests, MappingOps, SameGroup
  <2>. HIDE DEF next
  <2>. QED
    BY <1>1, <1>3, <2>1, <2>2 DEF r
<1>7. CASE FindRow(p)
  <2>1. PICK rest \in SUBSET r.enter :
          \/ req' = [req EXCEPT ![p] = [r EXCEPT !.enter = rest]]
          \/ \E row : req' = [req EXCEPT ![p] = [r EXCEPT !.op = "makeAdmin", !.enter = rest,
                                                          !.row = row]]
    <3>1. PICK u \in r.enter :
            \/ req' = [req EXCEPT ![p] = [r EXCEPT !.enter = r.enter \ {u}]]
            \/ \E row \in RowsOf(r.copy.org, u) :
                 req' = [req EXCEPT ![p] =
                          [r EXCEPT !.op = "makeAdmin", !.enter = r.enter \ {u},
                                    !.row = [row EXCEPT !.role = "admin"]]]
      BY <1>7 DEF FindRow, Goes
    <3> DEFINE rest == r.enter \ {u}
    <3>2. rest \in SUBSET r.enter
      OBVIOUS
    <3>3. \/ req' = [req EXCEPT ![p] = [r EXCEPT !.enter = rest]]
          \/ \E row : req' = [req EXCEPT ![p] = [r EXCEPT !.op = "makeAdmin", !.enter = rest,
                                                          !.row = row]]
      BY <3>1
    <3>. HIDE DEF rest, r
    <3>. QED
      BY <3>2, <3>3
  <2>2. r.op = "promote"
    BY <1>7 DEF FindRow
  <2>. HIDE DEF r
  <2>3. [r EXCEPT !.enter = rest].op \in MappingOps /\ SameGroup(r, [r EXCEPT !.enter = rest])
    BY <1>2, <2>2 DEF GroupRequests, MappingOps, SameGroup
  <2>4. ASSUME NEW row
        PROVE  LET next == [r EXCEPT !.op = "makeAdmin", !.enter = rest, !.row = row]
               IN next.op \in MappingOps /\ SameGroup(r, next)
    BY <1>2 DEF GroupRequests, MappingOps, SameGroup
  <2>. QED
    BY <1>1, <1>3, <2>1, <2>3, <2>4 DEF r
<1>8. CASE MakeAdmin(p)
  <2> DEFINE next == [r EXCEPT !.op = "promote", !.row = None]
  <2>1. req' = [req EXCEPT ![p] = next]
    BY <1>8 DEF MakeAdmin, Goes
  <2>. HIDE DEF r
  <2>2. next.op \in MappingOps /\ SameGroup(r, next)
    BY <1>2 DEF GroupRequests, MappingOps, SameGroup
  <2>. HIDE DEF next
  <2>. QED
    BY <1>1, <1>3, <2>1, <2>2 DEF r
<1>. QED
  BY <1>4, <1>5, <1>6, <1>7, <1>8

\* A row is saved over the one of its identity.
LEMMA RowSaved ==
  ASSUME StateTyped, NEW row \in Rows,
         rows' = {other \in rows : other.id # row.id} \cup {row}
  PROVE  /\ rows' \subseteq Rows /\ IsFiniteSet(rows')
         /\ \A one, other \in rows' : one.id = other.id => one = other
<1> DEFINE kept == {other \in rows : other.id # row.id}
<1>1. rows' = kept \cup {row}
  OBVIOUS
<1>2. kept \subseteq rows /\ IsFiniteSet(kept) /\ \A other \in kept : other.id # row.id
  BY FS_Subset DEF StateTyped
<1>. HIDE DEF kept
<1>3. rows' \subseteq Rows /\ IsFiniteSet(rows')
  BY <1>1, <1>2, FS_AddElement DEF StateTyped
<1>4. \A one, other \in rows' : one.id = other.id => one = other
  BY <1>1, <1>2 DEF StateTyped
<1>. QED
  BY <1>3, <1>4

LEMMA MemberStepTyped ==
  ASSUME StateTyped, NEW p \in Handlers,
         \/ InsertRow(p) \/ SaveAccount(p) \/ DeleteRow(p) \/ SaveRow(p)
         \/ InsertAccount(p) \/ SaveOrg(p) \/ SaveConfig(p)
  PROVE  StateTyped'
<1> DEFINE r == req[p]
<1>1. r \in Requests /\ Idle \in Requests
  BY Follows DEF StateTyped
<1>2. CASE InsertRow(p)
  <2> DEFINE new == [id |-> FreshId, org |-> r.org, user |-> r.user, role |-> r.role]
             next == IF r.then THEN Saving(r.user, r.org) ELSE Idle
  <2>1. r.user \in Users /\ r.org \in Orgs /\ r.role \in Roles
    BY <1>1, <1>2, Shapes DEF InsertRow
  <2>2. /\ rows' = rows \cup {new} /\ Goes(p, next)
        /\ UNCHANGED <<account, orgs, adminGroup, scim, group, joined>>
    BY <1>2 DEF InsertRow
  <2>3. new \in Rows /\ \A row \in rows : row.id # new.id
    BY <2>1, FreshIdIsFresh DEF Rows
  <2>4. next \in Requests
    BY <1>1, <2>1, Follows
  <2>. HIDE DEF r, new, next
  <2>5. rows' \subseteq Rows /\ IsFiniteSet(rows')
    BY <2>2, <2>3, FS_AddElement DEF StateTyped
  <2>6. \A row, other \in rows' : row.id = other.id => row = other
    BY <2>2, <2>3 DEF StateTyped
  <2>. QED
    BY <2>2, <2>4, <2>5, <2>6, GoesTyped DEF StateTyped
<1>3. CASE SaveAccount(p)
  <2>1. r.user \in Users /\ r.org \in Orgs \cup {None}
    BY <1>1, <1>3, Shapes DEF SaveAccount
  <2>2. account' = [account EXCEPT ![r.user] = r.org]
    BY <1>3 DEF SaveAccount
  <2>. HIDE DEF r
  <2>3. account' \in [Users -> Orgs \cup {None, Absent}]
    BY <2>1, <2>2 DEF StateTyped
  <2>. QED
    BY <1>1, <1>3, <2>3, GoesTyped DEF StateTyped, SaveAccount, Ends
<1>4. CASE DeleteRow(p)
  <2> DEFINE next == IF r.scim \/ account[r.user] = r.org THEN Saving(r.user, None) ELSE Idle
  <2>1. r.user \in Users
    BY <1>1, <1>4, Shapes DEF DeleteRow
  <2>2. /\ rows' = {row \in rows : row.id # r.row.id} /\ Goes(p, next)
        /\ UNCHANGED <<account, orgs, adminGroup, scim, group, joined>>
    BY <1>4 DEF DeleteRow
  <2>3. next \in Requests
    BY <1>1, <2>1, Follows
  <2>. HIDE DEF r, next
  <2>4. rows' \subseteq rows /\ IsFiniteSet(rows')
    BY <2>2, FS_Subset DEF StateTyped
  <2>. QED
    BY <2>2, <2>3, <2>4, GoesTyped DEF StateTyped
<1>5. CASE SaveRow(p)
  <2>1. r.row \in Rows
    BY <1>1, <1>5, Shapes DEF SaveRow
  <2>2. rows' = {other \in rows : other.id # r.row.id} \cup {r.row}
    BY <1>5 DEF SaveRow
  <2>. HIDE DEF r
  <2>3. /\ rows' \subseteq Rows /\ IsFiniteSet(rows')
        /\ \A one, other \in rows' : one.id = other.id => one = other
    BY <2>1, <2>2, RowSaved
  <2>. QED
    BY <1>1, <1>5, <2>3, GoesTyped DEF StateTyped, SaveRow, Ends
<1>6. CASE InsertAccount(p)
  <2>1. r.user \in Users /\ r.org \in Orgs
    BY <1>1, <1>6, Shapes DEF InsertAccount
  <2>2. Inserting(r.user, r.org, "member", FALSE) \in Requests
    BY <2>1, Follows DEF Roles
  <2>3. /\ account' = [account EXCEPT ![r.user] = r.org]
        /\ Goes(p, Inserting(r.user, r.org, "member", FALSE))
        /\ UNCHANGED <<rows, orgs, adminGroup, scim, group, joined>>
    BY <1>6 DEF InsertAccount
  <2>. HIDE DEF r
  <2>4. account' \in [Users -> Orgs \cup {None, Absent}]
    BY <2>1, <2>3 DEF StateTyped
  <2>. QED
    BY <1>1, <2>2, <2>3, <2>4, GoesTyped DEF StateTyped
<1>7. CASE SaveConfig(p)
  <2>1. r.org \in Orgs /\ r.scim \in BOOLEAN
    BY <1>1, <1>7, Shapes DEF SaveConfig
  <2>2. scim' = [scim EXCEPT ![r.org] = r.scim]
    BY <1>7 DEF SaveConfig
  <2>. HIDE DEF r
  <2>3. scim' \in [Orgs -> BOOLEAN]
    BY <2>1, <2>2 DEF StateTyped
  <2>. QED
    BY <1>1, <1>7, <2>3, GoesTyped DEF StateTyped, SaveConfig, Ends
<1>8. CASE SaveOrg(p)
  <2>1. r.org \in Orgs /\ r.name \in Names \cup {None}
    BY <1>1, <1>8, Shapes DEF SaveOrg
  <2>2. adminGroup' = [adminGroup EXCEPT ![r.org] = r.name]
    BY <1>8 DEF SaveOrg
  <2>. HIDE DEF r
  <2>3. adminGroup' \in [Orgs -> Names \cup {None}]
    BY <2>1, <2>2 DEF StateTyped
  <2>. QED
    BY <1>1, <1>8, <2>3, GoesTyped DEF StateTyped, SaveOrg, Ends
<1>. QED
  BY <1>2, <1>3, <1>4, <1>5, <1>6, <1>7, <1>8

LEMMA GroupStepTyped ==
  ASSUME StateTyped, NEW p \in Handlers,
         \/ SaveGroup(p) \/ LeaveGroup(p) \/ JoinGroup(p)
         \/ ReadSetting(p) \/ FindGroup(p) \/ ReadRows(p) \/ FindRow(p) \/ MakeAdmin(p)
         \/ Finish(p)
  PROVE  StateTyped'
<1> DEFINE r == req[p]
<1>1. /\ r \in Requests /\ Idle \in Requests
      /\ r.op \in ChangingOps
      /\ r.about \in Groups /\ r.copy \in GroupRecord
      /\ r.leave \subseteq Users /\ r.enter \subseteq Users
      /\ r.last \in {"keep", "save", "delete"}
  <2>1. r \in Requests /\ Idle \in Requests
    BY Follows DEF StateTyped
  <2>2. r.op \in ChangingOps
    BY DEF ChangingOps, MappingOps, SaveGroup, LeaveGroup, JoinGroup, ReadSetting, FindGroup,
           ReadRows, FindRow, MakeAdmin, Finish
  <2>. QED
    BY <2>1, <2>2, Shapes
<1>2. /\ \A g \in Groups : InGroup(g) \in SUBSET Users
      /\ \A count \in [Users -> Nat] :
           [joined EXCEPT ![r.about] = count] \in [Groups -> [Users -> Nat]]
  BY <1>1 DEF InGroup, StateTyped
<1>3. ASSUME NEW u \in Users, NEW n \in Nat, joined' = [joined EXCEPT ![r.about][u] = n]
      PROVE  joined' \in [Groups -> [Users -> Nat]]
  BY <1>1, <1>3 DEF StateTyped
<1>4. CASE SaveGroup(p)
  <2> DEFINE leaving == InGroup(r.about) \ r.copy.members
             entering == r.copy.members \ InGroup(r.about)
             next == [r EXCEPT !.op = "rows", !.leave = leaving, !.enter = entering]
  <2>1. /\ group' = [group EXCEPT ![r.about] = r.copy] /\ Goes(p, next)
        /\ UNCHANGED <<account, rows, orgs, adminGroup, scim, joined>>
    BY <1>4 DEF SaveGroup
  <2>2. leaving \in SUBSET Users /\ entering \in SUBSET Users /\ "rows" \in ChangingOps
    BY <1>1, <1>2 DEF GroupRecord, ChangingOps, MappingOps
  <2>. HIDE DEF r, leaving, entering
  <2>3. next \in Requests
    BY <1>1, <2>2, ChangingGoesOn
  <2>. HIDE DEF next
  <2>4. group' \in [Groups -> GroupRecord \cup {Absent}]
    BY <1>1, <2>1 DEF StateTyped
  <2>. QED
    BY <2>1, <2>3, <2>4, GoesTyped DEF StateTyped
<1>5. CASE LeaveGroup(p)
  <2>1. PICK u \in r.leave :
          /\ joined' = [joined EXCEPT ![r.about][u] =
                          IF r.op = "clear" \/ @ = 0 THEN 0 ELSE @ - 1]
          /\ Goes(p, [r EXCEPT !.leave = @ \ {u}])
    BY <1>5 DEF LeaveGroup
  <2> DEFINE rest == r.leave \ {u}
             n == IF r.op = "clear" \/ joined[r.about][u] = 0 THEN 0 ELSE joined[r.about][u] - 1
  <2>2. /\ joined' = [joined EXCEPT ![r.about][u] = n]
        /\ Goes(p, [r EXCEPT !.leave = rest])
        /\ UNCHANGED <<account, rows, orgs, adminGroup, scim, group>>
    BY <1>1, <1>5, <2>1 DEF LeaveGroup, StateTyped
  <2>3. u \in Users /\ rest \in SUBSET Users /\ n \in Nat
    BY <1>1 DEF StateTyped
  <2>. HIDE DEF r, rest, n
  <2>4. joined' \in [Groups -> [Users -> Nat]]
    BY <1>3, <2>2, <2>3
  <2>5. [r EXCEPT !.leave = rest] \in Requests
    BY <1>1, <2>3, ChangingGoesOn
  <2>. QED
    BY <2>2, <2>4, <2>5, GoesTyped DEF StateTyped
<1>6. CASE JoinGroup(p)
  <2>1. PICK u \in r.enter :
          /\ joined' = [joined EXCEPT ![r.about][u] =
                          IF account[u] = r.copy.org /\ (r.op = "add" => @ = 0)
                          THEN @ + 1 ELSE @]
          /\ Goes(p, [r EXCEPT !.enter = @ \ {u}])
    BY <1>6 DEF JoinGroup
  <2> DEFINE rest == r.enter \ {u}
             m == joined[r.about][u]
             n == IF account[u] = r.copy.org /\ (r.op = "add" => m = 0) THEN m + 1 ELSE m
  <2>2. /\ joined' = [joined EXCEPT ![r.about][u] = n]
        /\ Goes(p, [r EXCEPT !.enter = rest])
        /\ UNCHANGED <<account, rows, orgs, adminGroup, scim, group>>
    BY <1>1, <1>6, <2>1 DEF JoinGroup, StateTyped
  <2>3. u \in Users /\ rest \in SUBSET Users /\ n \in Nat
    BY <1>1 DEF StateTyped
  <2>. HIDE DEF r, rest, n
  <2>4. joined' \in [Groups -> [Users -> Nat]]
    BY <1>3, <2>2, <2>3
  <2>5. [r EXCEPT !.enter = rest] \in Requests
    BY <1>1, <2>3, ChangingGoesOn
  <2>. QED
    BY <2>2, <2>4, <2>5, GoesTyped DEF StateTyped
<1>7. ASSUME NoDirectoryChange, NEW next \in Requests, Goes(p, next) PROVE StateTyped'
  BY <1>7, GoesTyped DEF StateTyped, NoDirectoryChange
<1>8. CASE ReadSetting(p) \/ FindGroup(p) \/ ReadRows(p)
  <2>1. "promote" \in ChangingOps /\ "findGroup" \in ChangingOps
    BY DEF ChangingOps, MappingOps
  <2>2. CASE ReadSetting(p)
    <3>1. NoDirectoryChange /\ \E op \in {"promote", "findGroup"} : Goes(p, [r EXCEPT !.op = op])
      BY <2>2 DEF ReadSetting
    <3>. HIDE DEF r
    <3>. QED
      BY <1>1, <1>7, <2>1, <3>1, ChangingGoesOn
  <2>3. CASE FindGroup(p)
    <3>1. /\ NoDirectoryChange
          /\ \/ Goes(p, [r EXCEPT !.op = "promote"])
             \/ \E g \in Groups : Goes(p, [r EXCEPT !.op = "readRows", !.found = g])
      BY <2>3 DEF FindGroup
    <3>. HIDE DEF r
    <3>. QED
      BY <1>1, <1>7, <2>1, <3>1, ChangingGoesOn, MappingGoesOn
  <2>4. CASE ReadRows(p)
    <3>1. r.found \in Groups
      BY <1>1, <2>4, Shapes DEF ReadRows
    <3> DEFINE enter == InGroup(r.found)
    <3>2. /\ NoDirectoryChange /\ enter \in SUBSET Users
          /\ Goes(p, [r EXCEPT !.op = "promote", !.enter = enter, !.found = None])
      BY <1>2, <2>4, <3>1 DEF ReadRows
    <3>. HIDE DEF r, enter
    <3>. QED
      BY <1>1, <1>7, <3>2, MappingGoesOn
  <2>. QED
    BY <1>8, <2>2, <2>3, <2>4
<1>10. CASE FindRow(p)
  <2>1. PICK u \in r.enter :
          \/ Goes(p, [r EXCEPT !.enter = @ \ {u}])
          \/ \E row \in RowsOf(r.copy.org, u) :
               /\ req' = [req EXCEPT ![p] =
                           [r EXCEPT !.op = "makeAdmin", !.enter = @ \ {u},
                                     !.row = [row EXCEPT !.role = "admin"]]]
               /\ dirty' = IF Busy(u) THEN dirty \cup {u} ELSE dirty
               /\ UNCHANGED started
    BY <1>10 DEF FindRow
  <2> DEFINE rest == r.enter \ {u}
  <2>2. u \in Users /\ rest \in SUBSET Users /\ NoDirectoryChange
    BY <1>1, <1>10 DEF FindRow
  <2>3. CASE Goes(p, [r EXCEPT !.enter = @ \ {u}])
    <3>1. Goes(p, [r EXCEPT !.enter = rest])
      BY <2>3
    <3>. HIDE DEF r, rest
    <3>2. [r EXCEPT !.enter = rest] \in Requests
      BY <1>1, <2>2, ChangingGoesOn
    <3>. QED
      BY <1>7, <2>2, <3>1, <3>2
  <2>4. ASSUME NEW row \in RowsOf(r.copy.org, u),
               req' = [req EXCEPT ![p] =
                        [r EXCEPT !.op = "makeAdmin", !.enter = @ \ {u},
                                  !.row = [row EXCEPT !.role = "admin"]]],
               dirty' = IF Busy(u) THEN dirty \cup {u} ELSE dirty,
               UNCHANGED started
        PROVE  StateTyped'
    <3> DEFINE new == [row EXCEPT !.role = "admin"]
    <3>1. new \in Rows
      <4>1. r.copy.org \in Orgs
        BY <1>1 DEF GroupRecord
      <4>. QED
        BY <2>2, <4>1, RowTyped DEF Roles
    <3>2. req' = [req EXCEPT ![p] = [r EXCEPT !.op = "makeAdmin", !.enter = rest, !.row = new]]
      BY <2>4
    <3>3. dirty' \subseteq Subjects
      BY <2>2, <2>4 DEF Subjects, StateTyped
    <3>. HIDE DEF r, rest, new
    <3>4. [r EXCEPT !.op = "makeAdmin", !.enter = rest, !.row = new] \in Requests
      BY <1>1, <2>2, <3>1, MappingGoesOn
    <3>5. req' \in [Handlers -> Requests]
      BY <3>2, <3>4 DEF StateTyped
    <3>. QED
      BY <2>2, <2>4, <3>3, <3>5 DEF StateTyped, NoDirectoryChange
  <2>. QED
    BY <2>1, <2>3, <2>4
<1>11. CASE MakeAdmin(p)
  <2>1. r.row \in Rows
    BY <1>1, <1>11, Shapes DEF MakeAdmin
  <2>2. /\ rows' = {other \in rows : other.id # r.row.id} \cup {r.row}
        /\ Goes(p, [r EXCEPT !.op = "promote", !.row = None])
        /\ UNCHANGED <<account, orgs, adminGroup, scim, group, joined>>
    BY <1>11 DEF MakeAdmin
  <2>. HIDE DEF r
  <2>3. [r EXCEPT !.op = "promote", !.row = None] \in Requests
    BY <1>1, MappingGoesOn
  <2>4. /\ rows' \subseteq Rows /\ IsFiniteSet(rows')
        /\ \A one, other \in rows' : one.id = other.id => one = other
    BY <2>1, <2>2, RowSaved
  <2>. QED
    BY <2>2, <2>3, <2>4, GoesTyped DEF StateTyped
<1>9. CASE Finish(p)
  <2>1. group' \in [Groups -> GroupRecord \cup {Absent}]
    <3>1. \/ group' = group
          \/ group' = [group EXCEPT ![r.about] = r.copy]
          \/ group' = [group EXCEPT ![r.about] = Absent]
      BY <1>1, <1>9 DEF Finish
    <3>. HIDE DEF r
    <3>. QED
      BY <1>1, <3>1 DEF StateTyped
  <2>2. Goes(p, Idle) /\ UNCHANGED <<account, rows, orgs, adminGroup, scim, joined>>
    BY <1>9 DEF Finish, Ends
  <2>. QED
    BY <1>1, <2>1, <2>2, GoesTyped DEF StateTyped
<1>. QED
  BY <1>4, <1>5, <1>6, <1>8, <1>9, <1>10, <1>11

-----------------------------------------------------------------------------
(* No admin that nobody made one.                                          *)

\* Whom a request is about to make an admin, the history has recorded.
LEMMA AskedGranted ==
  ASSUME StateTyped', Recorded, NEW q \in Handlers
  PROVE  /\ req'[q].op = "insertRow" /\ req'[q].role = "admin" =>
              <<req'[q].org, req'[q].user>> \in granted'
         /\ req'[q].op = "saveRow" /\ req'[q].row.role = "admin" =>
              <<req'[q].row.org, req'[q].row.user>> \in granted'
<1>1. req'[q] \in Requests
  BY DEF StateTyped
<1>2. \A o \in Orgs, u \in Users : IsGranted(o, u)' => <<o, u>> \in granted'
  BY DEF Recorded
<1>3. ASSUME req'[q].op = "insertRow", req'[q].role = "admin"
      PROVE  <<req'[q].org, req'[q].user>> \in granted'
  <2>1. req'[q].org \in Orgs /\ req'[q].user \in Users
    BY <1>1, <1>3, Shapes
  <2>2. ASSUME NEW o \in Orgs, NEW u \in Users, req'[q].org = o, req'[q].user = u
        PROVE  IsGranted(o, u)'
    BY <1>3, <2>2 DEF IsGranted
  <2>. QED
    BY <1>2, <2>1, <2>2
<1>4. ASSUME req'[q].op = "saveRow", req'[q].row.role = "admin"
      PROVE  <<req'[q].row.org, req'[q].row.user>> \in granted'
  <2>1. req'[q].row.org \in Orgs /\ req'[q].row.user \in Users
    BY <1>1, <1>4, Shapes DEF Rows
  <2>2. ASSUME NEW o \in Orgs, NEW u \in Users, req'[q].row.org = o, req'[q].row.user = u
        PROVE  IsGranted(o, u)'
    BY <1>4, <2>2 DEF IsGranted
  <2>. QED
    BY <1>2, <2>1, <2>2
<1>. QED
  BY <1>3, <1>4

\* A request that is applying the admin group of o, while o is not shifted, has
\* seen it stay the same.
LEMMA ApplyingKept ==
  ASSUME StateTyped, Recorded, NEW q \in Handlers, req[q].op \in {"findGroup", "readRows"},
         NEW o \in Orgs, o = req[q].copy.org, o \notin shifted'
  PROVE  /\ o \notin shifted /\ adminGroup'[o] = adminGroup[o]
         /\ \A g \in Groups : IsAdminGroup(o, g)' = IsAdminGroup(o, g)
<1>1. Applying(o)
  BY DEF Applying
<1>2. o \notin shifted /\ ~Shifts(o)
  BY <1>1 DEF Recorded
<1>. QED
  BY <1>2 DEF Shifts

\* A request that goes on as it is stays backed.
LEMMA BackedKept ==
  ASSUME StateTyped, Recorded, AdminInv, NEW q \in Handlers, req'[q] = req[q]
  PROVE  Backed(req[q])'
<1> DEFINE r == req[q]
<1>1. r \in Requests /\ Backed(r) /\ granted \subseteq granted' /\ shifted \subseteq shifted'
  BY DEF StateTyped, AdminInv, Recorded
<1>2. /\ r.op \in {"findGroup", "readRows"} => r.copy.org \in Orgs
      /\ r.op = "readRows" => r.found \in Groups
  BY <1>1, Shapes DEF GroupRecord, ChangingOps, MappingOps
<1>3. ASSUME r.op \in {"findGroup", "readRows"}, r.copy.org \notin shifted'
      PROVE  /\ r.copy.org \notin shifted /\ adminGroup'[r.copy.org] = adminGroup[r.copy.org]
             /\ \A g \in Groups : IsAdminGroup(r.copy.org, g)' = IsAdminGroup(r.copy.org, g)
  BY <1>2, <1>3, ApplyingKept
<1>4. /\ r.op = "findGroup" => r.enter = {}
      /\ r.op = "findGroup" /\ r.copy.org \notin shifted' =>
           adminGroup'[r.copy.org] = r.copy.name
  BY <1>1, <1>3 DEF Backed
<1>5. ASSUME r.op = "readRows", r.copy.org \notin shifted'
      PROVE  IsAdminGroup(r.copy.org, r.found)'
  <2>1. IsAdminGroup(r.copy.org, r.found)
    BY <1>1, <1>3, <1>5 DEF Backed
  <2>2. ASSUME NEW o \in Orgs, NEW g \in Groups, o = r.copy.org, g = r.found
        PROVE  IsAdminGroup(r.copy.org, r.found)'
    <3>1. IsAdminGroup(o, g)'
      BY <1>3, <1>5, <2>1, <2>2
    <3>2. o = req'[q].copy.org /\ g = req'[q].found
      BY <2>2
    <3>. QED
      BY <3>1, <3>2 DEF IsAdminGroup, OfOrg
  <2>. QED
    BY <1>2, <1>5, <2>2
<1>6. /\ r.op \in {"promote", "makeAdmin"} /\ r.copy.org \notin shifted' =>
           \A u \in r.enter : <<r.copy.org, u>> \in granted'
      /\ r.op = "makeAdmin" /\ r.row.org \notin shifted' =>
           <<r.row.org, r.row.user>> \in granted'
  BY <1>1 DEF Backed
<1>. QED
  BY <1>4, <1>5, <1>6 DEF Backed

\* It is enough that new admin rows were granted, and that the request that goes
\* on is backed.
LEMMA AdminKept ==
  ASSUME StateTyped, StateTyped', Recorded, AdminInv, NEW p \in Handlers, Backed(req[p])',
         \A q \in Handlers \ {p} : req'[q] = req[q],
         \A row \in rows' : row.role = "admin" =>
           \/ \E old \in rows : old.role = "admin" /\ old.org = row.org /\ old.user = row.user
           \/ <<row.org, row.user>> \in granted
           \/ row.org \in shifted
  PROVE  AdminInv'
<1>1. granted \subseteq granted' /\ shifted \subseteq shifted'
  BY DEF Recorded
<1>2. NoUngrantedAdmin'
  BY <1>1 DEF AdminInv, NoUngrantedAdmin
<1>3. \A q \in Handlers : Backed(req[q])'
  BY BackedKept
<1>. QED
  BY <1>2, <1>3, AskedGranted DEF AdminInv

\* The same, of a request that is not applying the admin group.
LEMMA AdminAside ==
  ASSUME StateTyped, StateTyped', Recorded, AdminInv, NEW p \in Handlers, NEW r,
         req' = [req EXCEPT ![p] = r], r.op \notin MappingOps,
         \A row \in rows' : row.role = "admin" =>
           \/ \E old \in rows : old.role = "admin" /\ old.org = row.org /\ old.user = row.user
           \/ <<row.org, row.user>> \in granted
           \/ row.org \in shifted
  PROVE  AdminInv'
<1>1. req'[p] = r /\ \A q \in Handlers \ {p} : req'[q] = req[q]
  BY DEF StateTyped
<1>2. Backed(req[p])'
  BY <1>1 DEF Backed, MappingOps
<1>. QED
  BY <1>1, <1>2, AdminKept

LEMMA BeginsAdmin ==
  ASSUME StateTyped, StateTyped', AdminInv, Recorded, NEW p \in Handlers, Begins(p)
  PROVE  AdminInv'
  BY AdminAside DEF Begins

LEMMA AbortAdmin ==
  ASSUME StateTyped, StateTyped', AdminInv, Recorded, NEW p \in Handlers, Abort(p)
  PROVE  AdminInv'
<1>1. Idle.op \notin MappingOps
  BY DEF Idle, MappingOps
<1>. QED
  BY <1>1, AdminAside DEF Abort

LEMMA MemberStepAdmin ==
  ASSUME StateTyped, StateTyped', AdminInv, Recorded, NEW p \in Handlers,
         \/ InsertRow(p) \/ SaveAccount(p) \/ DeleteRow(p) \/ SaveRow(p)
         \/ InsertAccount(p) \/ SaveOrg(p) \/ SaveConfig(p)
  PROVE  AdminInv'
<1>1. /\ Idle.op \notin MappingOps
      /\ \A u, o : Saving(u, o).op \notin MappingOps
      /\ \A u, o, role, then : Inserting(u, o, role, then).op \notin MappingOps
  BY DEF Idle, Saving, Inserting, MappingOps
<1>2. \A row \in rows : row.role = "admin" =>
        \E old \in rows : old.role = "admin" /\ old.org = row.org /\ old.user = row.user
  OBVIOUS
<1>3. CASE InsertRow(p)
  <2> DEFINE r == req[p]
             next == IF r.then THEN Saving(r.user, r.org) ELSE Idle
  <2>1. /\ rows' = rows \cup {[id |-> FreshId, org |-> r.org, user |-> r.user,
                                role |-> r.role]}
        /\ req' = [req EXCEPT ![p] = next] /\ next.op \notin MappingOps /\ r.op = "insertRow"
    BY <1>1, <1>3 DEF InsertRow, Goes
  <2>2. r.role = "admin" => <<r.org, r.user>> \in granted
    BY <2>1 DEF AdminInv
  <2>. HIDE DEF r, next
  <2>3. \A row \in rows' : row.role = "admin" =>
          row \in rows \/ <<row.org, row.user>> \in granted
    BY <2>1, <2>2
  <2>4. \A row \in rows' : row.role = "admin" =>
          \/ \E old \in rows : old.role = "admin" /\ old.org = row.org /\ old.user = row.user
          \/ <<row.org, row.user>> \in granted
          \/ row.org \in shifted
    BY <2>3
  <2>. QED
    BY <2>1, <2>4, AdminAside
<1>4. CASE SaveAccount(p) \/ SaveOrg(p) \/ SaveConfig(p) \/ InsertAccount(p)
  <2>1. rows' = rows /\ \E r : req' = [req EXCEPT ![p] = r] /\ r.op \notin MappingOps
    BY <1>1, <1>4 DEF SaveAccount, SaveOrg, SaveConfig, InsertAccount, Ends, Goes
  <2>. QED
    BY <1>2, <2>1, AdminAside
<1>5. CASE DeleteRow(p)
  <2>1. rows' \subseteq rows /\ \E r : req' = [req EXCEPT ![p] = r] /\ r.op \notin MappingOps
    BY <1>1, <1>5 DEF DeleteRow, Goes
  <2>. QED
    BY <1>2, <2>1, AdminAside
<1>6. CASE SaveRow(p)
  <2>1. /\ rows' \subseteq rows \cup {req[p].row} /\ req' = [req EXCEPT ![p] = Idle]
        /\ req[p].op = "saveRow"
    BY <1>6 DEF SaveRow, Ends, Goes
  <2>2. req[p].row.role = "admin" => <<req[p].row.org, req[p].row.user>> \in granted
    BY <2>1 DEF AdminInv
  <2>. QED
    BY <1>1, <1>2, <2>1, <2>2, AdminAside
<1>. QED
  BY <1>3, <1>4, <1>5, <1>6

LEMMA GroupStepAdmin ==
  ASSUME StateTyped, StateTyped', AdminInv, Recorded, NEW p \in Handlers,
         \/ SaveGroup(p) \/ LeaveGroup(p) \/ JoinGroup(p)
         \/ ReadSetting(p) \/ FindGroup(p) \/ ReadRows(p) \/ FindRow(p) \/ MakeAdmin(p)
         \/ Finish(p)
  PROVE  AdminInv'
<1> DEFINE r == req[p]
           o == req[p].copy.org
<1>1. /\ granted \subseteq granted' /\ shifted \subseteq shifted'
      /\ r \in Requests /\ r.op \in ChangingOps /\ o \in Orgs /\ Backed(r)
  <2>1. r.op \in ChangingOps
    BY DEF ChangingOps, MappingOps, SaveGroup, LeaveGroup, JoinGroup, ReadSetting, FindGroup,
           ReadRows, FindRow, MakeAdmin, Finish
  <2>2. r \in Requests
    BY DEF StateTyped
  <2>3. r.copy \in GroupRecord
    BY <2>1, <2>2, Shapes
  <2>. QED
    BY <2>1, <2>2, <2>3 DEF Recorded, AdminInv, GroupRecord
<1>2. \A row \in rows : row.role = "admin" =>
        \E old \in rows : old.role = "admin" /\ old.org = row.org /\ old.user = row.user
  OBVIOUS
<1>3. ASSUME NEW next, req' = [req EXCEPT ![p] = next]
      PROVE  req'[p] = next /\ \A q \in Handlers \ {p} : req'[q] = req[q]
  BY <1>3 DEF StateTyped
<1>4. CASE SaveGroup(p) \/ Finish(p)
  <2>1. CASE Finish(p)
    <3>1. rows' = rows /\ req' = [req EXCEPT ![p] = Idle] /\ Idle.op \notin MappingOps
      BY <2>1 DEF Finish, Ends, Goes, Idle, MappingOps
    <3>. QED
      BY <1>2, <3>1, AdminAside
  <2>2. CASE SaveGroup(p)
    <3> DEFINE leaving == InGroup(req[p].about) \ req[p].copy.members
               entering == req[p].copy.members \ InGroup(req[p].about)
               next == [r EXCEPT !.op = "rows", !.leave = leaving, !.enter = entering]
    <3>1. rows' = rows /\ req' = [req EXCEPT ![p] = next]
      BY <2>2 DEF SaveGroup, Goes
    <3>. HIDE DEF r, leaving, entering
    <3>2. next.op = "rows"
      BY <1>1, ChangingFields
    <3>. HIDE DEF next
    <3>. QED
      BY <1>2, <3>1, <3>2, AdminAside DEF MappingOps
  <2>. QED
    BY <1>4, <2>1, <2>2
<1>5. CASE LeaveGroup(p) \/ JoinGroup(p)
  <2>1. /\ r.op \in {"rows", "clear", "add"} /\ rows' = rows
        /\ \/ \E x : req' = [req EXCEPT ![p] = [r EXCEPT !.leave = x]]
           \/ \E x : req' = [req EXCEPT ![p] = [r EXCEPT !.enter = x]]
    BY <1>5 DEF LeaveGroup, JoinGroup, Goes
  <2>2. \E next : req' = [req EXCEPT ![p] = next] /\ next.op = r.op
    <3>1. \A x : [r EXCEPT !.leave = x].op = r.op /\ [r EXCEPT !.enter = x].op = r.op
      BY <1>1, ChangingFields, Zenon
    <3>. HIDE DEF r
    <3>. QED
      BY <2>1, <3>1, Zenon
  <2>. QED
    BY <1>2, <2>1, <2>2, AdminAside DEF MappingOps
<1>6. CASE ReadSetting(p)
  <2>1. /\ rows' = rows /\ adminGroup' = adminGroup /\ r.enter = {}
        /\ \/ req' = [req EXCEPT ![p] = [r EXCEPT !.op = "promote"]]
           \/ adminGroup[o] = r.copy.name /\ req' = [req EXCEPT ![p] = [r EXCEPT !.op = "findGroup"]]
    BY <1>6 DEF ReadSetting, Promotes, Goes, NoDirectoryChange
  <2>3. o = r.copy.org
    OBVIOUS
  <2>2. PICK next : /\ req' = [req EXCEPT ![p] = next] /\ next.copy = r.copy
                    /\ next.enter = {}
                    /\ \/ next.op = "promote"
                       \/ next.op = "findGroup" /\ adminGroup[o] = r.copy.name
    <3>1. \A op : LET next == [r EXCEPT !.op = op]
                 IN next.op = op /\ next.copy = r.copy /\ next.enter = r.enter
      BY <1>1, ChangingFields, Zenon
    <3>2. PICK op \in {"promote", "findGroup"} :
            /\ req' = [req EXCEPT ![p] = [r EXCEPT !.op = op]]
            /\ op = "findGroup" => adminGroup[o] = r.copy.name
      BY <2>1
    <3> DEFINE next == [r EXCEPT !.op = op]
    <3>3. next.op = op /\ next.copy = r.copy /\ next.enter = {}
      BY <2>1, <3>1
    <3>4. req' = [req EXCEPT ![p] = next]
      BY <3>2
    <3>. HIDE DEF r, next
    <3>. QED
      BY <3>2, <3>3, <3>4
  <2>. HIDE DEF r
  <2>4. Backed(req[p])'
    <3>1. req'[p] = next
      BY <1>3, <2>2
    <3>. QED
      BY <2>1, <2>2, <2>3, <3>1 DEF Backed
  <2>. QED
    BY <1>2, <1>3, <2>1, <2>2, <2>4, AdminKept
<1>7. CASE FindGroup(p)
  <2>1. /\ rows' = rows /\ UNCHANGED <<adminGroup, group>> /\ r.op = "findGroup"
        /\ \/ req' = [req EXCEPT ![p] = [r EXCEPT !.op = "promote"]]
           \/ \E g \in Groups :
                /\ OfOrg(g, o) /\ group[g].name = r.copy.name
                /\ req' = [req EXCEPT ![p] = [r EXCEPT !.op = "readRows", !.found = g]]
    BY <1>7 DEF FindGroup, Goes, NoDirectoryChange
  <2>2. o = r.copy.org
    OBVIOUS
  <2>. HIDE DEF r
  <2>3. ASSUME req' = [req EXCEPT ![p] = [r EXCEPT !.op = "promote"]]
        PROVE  AdminInv'
    <3> DEFINE next == [r EXCEPT !.op = "promote"]
    <3>1. next.op = "promote" /\ next.enter = {}
      BY <1>1, <2>1, ChangingFields DEF Backed
    <3>2. req'[p] = next /\ \A q \in Handlers \ {p} : req'[q] = req[q]
      BY <1>3, <2>3
    <3>. HIDE DEF next
    <3>3. Backed(req[p])'
      BY <3>1, <3>2 DEF Backed
    <3>. QED
      BY <1>2, <2>1, <3>2, <3>3, AdminKept
  <2>4. ASSUME NEW g \in Groups, OfOrg(g, o), group[g].name = r.copy.name,
               req' = [req EXCEPT ![p] = [r EXCEPT !.op = "readRows", !.found = g]]
        PROVE  AdminInv'
    <3> DEFINE next == [r EXCEPT !.op = "readRows", !.found = g]
    <3>1. next.op = "readRows" /\ next.found = g /\ next.copy = r.copy
      BY <1>1, MappingFields
    <3>2. req'[p] = next /\ \A q \in Handlers \ {p} : req'[q] = req[q]
      BY <1>3, <2>4
    <3>3. o \notin shifted => IsAdminGroup(o, g)
      BY <1>1, <2>1, <2>2, <2>4 DEF Backed, IsAdminGroup
    <3>. HIDE DEF next
    <3>4. ASSUME next.copy.org \notin shifted' PROVE IsAdminGroup(req[p].copy.org, req[p].found)'
      <4>1. /\ req'[p].copy.org = o /\ req'[p].found = g /\ IsAdminGroup(o, g)
            /\ adminGroup' = adminGroup /\ group' = group
        BY <1>1, <2>1, <2>2, <3>1, <3>2, <3>3, <3>4
      <4>. HIDE DEF o
      <4>. QED
        BY <4>1 DEF IsAdminGroup, OfOrg
    <3>5. Backed(req[p])'
      BY <3>1, <3>2, <3>4 DEF Backed
    <3>. QED
      BY <1>2, <2>1, <3>2, <3>5, AdminKept
  <2>. QED
    BY <2>1, <2>3, <2>4
<1>8. CASE ReadRows(p)
  <2> DEFINE enter == InGroup(r.found)
             next == [r EXCEPT !.op = "promote", !.enter = enter, !.found = None]
  <2>1. /\ rows' = rows /\ r.op = "readRows" /\ req' = [req EXCEPT ![p] = next]
        /\ UNCHANGED <<adminGroup, group, joined>>
    BY <1>8 DEF ReadRows, Goes, NoDirectoryChange
  <2>2. o = r.copy.org /\ r.found \in Groups /\ enter \subseteq Users
    BY <1>1, <2>1, Shapes DEF InGroup
  <2>3. ASSUME o \notin shifted, NEW u \in enter
        PROVE  <<o, u>> \in granted'
    <3>1. IsAdminGroup(o, r.found)
      BY <1>1, <2>1, <2>2, <2>3 DEF Backed
    <3>2. ASSUME NEW org \in Orgs, NEW g \in Groups, org = o, g = r.found
          PROVE  IsGranted(org, u)'
      BY <2>1, <2>3, <3>1, <3>2 DEF IsGranted, IsAdminGroup, OfOrg, InGroup
    <3>. QED
      BY <1>1, <2>2, <3>2 DEF Recorded
  <2>. HIDE DEF r, enter
  <2>4. next.op = "promote" /\ next.enter = enter /\ next.copy = r.copy
    BY <1>1, MappingFields
  <2>5. req'[p] = next /\ \A q \in Handlers \ {p} : req'[q] = req[q]
    BY <1>3, <2>1
  <2>. HIDE DEF next
  <2>6. Backed(req[p])'
    BY <1>1, <2>2, <2>3, <2>4, <2>5 DEF Backed
  <2>. QED
    BY <1>2, <2>1, <2>5, <2>6, AdminKept
<1>9. CASE FindRow(p)
  <2>1. PICK u \in r.enter :
          \/ req' = [req EXCEPT ![p] = [r EXCEPT !.enter = @ \ {u}]]
          \/ \E row \in RowsOf(o, u) :
               req' = [req EXCEPT ![p] = [r EXCEPT !.op = "makeAdmin", !.enter = @ \ {u},
                                                   !.row = [row EXCEPT !.role = "admin"]]]
    BY <1>9 DEF FindRow, Goes
  <2> DEFINE rest == r.enter \ {u}
  <2>2. /\ rows' = rows /\ r.op = "promote" /\ o = r.copy.org /\ rest \subseteq r.enter
        /\ u \in Users
    BY <1>1, <1>9, Shapes DEF FindRow, NoDirectoryChange
  <2>3. o \notin shifted => \A v \in r.enter : <<o, v>> \in granted
    BY <1>1, <2>2 DEF Backed
  <2>4. PICK next :
          /\ req' = [req EXCEPT ![p] = next] /\ next.copy = r.copy /\ next.enter = rest
          /\ \/ next.op = "promote"
             \/ next.op = "makeAdmin" /\ next.row.org = o /\ next.row.user = u
    <3>1. CASE req' = [req EXCEPT ![p] = [r EXCEPT !.enter = @ \ {u}]]
      <4>1. req' = [req EXCEPT ![p] = [r EXCEPT !.enter = rest]]
        BY <3>1
      <4>2. LET next == [r EXCEPT !.enter = rest]
            IN next.op = "promote" /\ next.copy = r.copy /\ next.enter = rest
        BY <1>1, <2>2, ChangingFields, Zenon
      <4>. HIDE DEF r, rest
      <4>. QED
        BY <4>1, <4>2
    <3>2. ASSUME NEW row \in RowsOf(o, u),
                 req' = [req EXCEPT ![p] = [r EXCEPT !.op = "makeAdmin", !.enter = @ \ {u},
                                                     !.row = [row EXCEPT !.role = "admin"]]]
          PROVE  \E next :
                   /\ req' = [req EXCEPT ![p] = next] /\ next.copy = r.copy
                   /\ next.enter = rest
                   /\ next.op = "makeAdmin" /\ next.row.org = o /\ next.row.user = u
      <4> DEFINE new == [row EXCEPT !.role = "admin"]
      <4>1. req' = [req EXCEPT ![p] = [r EXCEPT !.op = "makeAdmin", !.enter = rest,
                                               !.row = new]]
        BY <3>2
      <4>2. new.org = o /\ new.user = u
        <5>1. row \in Rows /\ row.org = o /\ row.user = u
          BY <1>1, <2>2, RowTyped
        <5>. QED
          BY <5>1 DEF Rows
      <4>. HIDE DEF r, rest, new
      <4>3. LET next == [r EXCEPT !.op = "makeAdmin", !.enter = rest, !.row = new]
            IN /\ next.op = "makeAdmin" /\ next.copy = r.copy /\ next.enter = rest
               /\ next.row = new
        BY <1>1, MappingFields
      <4>. QED
        BY <4>1, <4>2, <4>3
    <3>. QED
      BY <2>1, <3>1, <3>2
  <2>5. req'[p] = next /\ \A q \in Handlers \ {p} : req'[q] = req[q]
    BY <1>3, <2>4
  <2>6. u \in r.enter
    OBVIOUS
  <2>. HIDE DEF r, rest, o
  <2>7. Backed(req[p])'
    BY <1>1, <2>2, <2>3, <2>4, <2>5, <2>6 DEF Backed
  <2>. QED
    BY <1>2, <2>2, <2>5, <2>7, AdminKept
<1>10. CASE MakeAdmin(p)
  <2> DEFINE next == [r EXCEPT !.op = "promote", !.row = None]
  <2>1. /\ rows' \subseteq rows \cup {r.row} /\ req' = [req EXCEPT ![p] = next]
        /\ r.op = "makeAdmin" /\ o = r.copy.org
    BY <1>10 DEF MakeAdmin, Goes
  <2>2. /\ r.row.org \notin shifted => <<r.row.org, r.row.user>> \in granted
        /\ o \notin shifted => \A v \in r.enter : <<o, v>> \in granted
    BY <1>1, <2>1 DEF Backed
  <2>. HIDE DEF r
  <2>3. next.op = "promote" /\ next.enter = r.enter /\ next.copy = r.copy
    BY <1>1, MappingFields
  <2>4. req'[p] = next /\ \A q \in Handlers \ {p} : req'[q] = req[q]
    BY <1>3, <2>1
  <2>. HIDE DEF next, o
  <2>5. Backed(req[p])'
    BY <1>1, <2>1, <2>2, <2>3, <2>4 DEF Backed
  <2>. QED
    BY <1>2, <2>1, <2>2, <2>4, <2>5, AdminKept
<1>. QED
  BY <1>4, <1>5, <1>6, <1>7, <1>8, <1>9, <1>10

LEMMA StepAdmin ==
  ASSUME StateTyped, StateTyped', AdminInv, Recorded, NEW p \in Handlers, Step(p)
  PROVE  AdminInv'
  BY MemberStepAdmin, GroupStepAdmin DEF Step

-----------------------------------------------------------------------------
(* No group that reaches into another tenant.                              *)

\* A request that is, or becomes, one on no group disturbs nothing.
LEMMA TenantAside ==
  ASSUME StateTyped, TenantInv, Recorded, NEW p \in Handlers, NEW r,
         req' = [req EXCEPT ![p] = r], r.op \notin ChangingOps,
         UNCHANGED <<group, joined>>
  PROVE  TenantInv'
<1>1. ever \subseteq ever' /\ \A g : InGroup(g)' = InGroup(g)
  BY DEF Recorded, InGroup
<1>2. \A g : \A q \in Handlers : About(q, g)' => About(q, g) /\ req'[q] = req[q]
  BY DEF About, StateTyped
<1>. QED
  BY <1>1, <1>2 DEF TenantInv, GroupsWithinTenant

LEMMA BeginsTenant ==
  ASSUME StateTyped, TenantInv, Recorded, NEW p \in Handlers, Begins(p)
  PROVE  TenantInv'
<1>1. ever \subseteq ever' /\ \A g : InGroup(g)' = InGroup(g) /\ UNCHANGED <<group, joined>>
  BY DEF Recorded, InGroup, Begins
<1>2. PICK r \in Requests :
        req' = [req EXCEPT ![p] = r] /\ (r.op \in ChangingOps => Belongs(r))
  BY DEF Begins
<1>3. CASE r.op \notin ChangingOps
  BY <1>1, <1>2, <1>3, TenantAside
<1>4. CASE r.op \in ChangingOps
  <2>1. /\ \A q \in Handlers \ {p} : req'[q] = req[q]
        /\ req'[p] = r
    BY <1>2 DEF StateTyped
  <2>2. GroupsWithinTenant'
    BY <1>1 DEF TenantInv, GroupsWithinTenant
  <2>3. ASSUME NEW g \in Groups, r.about = g
        PROVE  /\ group[g] # Absent => group[g].org = r.copy.org
               /\ \A q \in Handlers \ {p} : About(q, g) => req[q].copy.org = r.copy.org
               /\ \A u \in InGroup(g) : <<r.copy.org, u>> \in ever
    BY <1>2, <1>4, <2>3 DEF Belongs, Busy, About, TenantInv, GroupsWithinTenant
  <2>4. ASSUME NEW g \in Groups, NEW q \in Handlers, About(q, g)'
        PROVE  /\ group'[g] # Absent => group'[g].org = req'[q].copy.org
               /\ \A other \in Handlers : About(other, g)' =>
                    req'[other].copy.org = req'[q].copy.org
               /\ \A u \in InGroup(g)' : <<req'[q].copy.org, u>> \in ever'
    <3>1. CASE q = p
      BY <1>1, <2>1, <2>3, <2>4, <3>1 DEF About
    <3>2. CASE q # p
      <4>1. About(q, g) /\ req'[q] = req[q]
        BY <2>1, <2>4, <3>2 DEF About
      <4>2. ASSUME NEW other \in Handlers, About(other, g)'
            PROVE  req'[other].copy.org = req'[q].copy.org
        BY <2>1, <2>3, <4>1, <4>2 DEF About, TenantInv
      <4>. QED
        BY <1>1, <4>1, <4>2 DEF TenantInv
    <3>. QED
      BY <3>1, <3>2
  <2>. QED
    BY <2>2, <2>4 DEF TenantInv
<1>. QED
  BY <1>3, <1>4

\* A request on a group goes on about it for the same organization: what it
\* saves, and whom it lets in, is of that one.
LEMMA TenantOnwards ==
  ASSUME StateTyped, TenantInv, Recorded, NEW p \in Handlers, NEW r, NEW g \in Groups,
         req' = [req EXCEPT ![p] = r], About(p, g),
         r.op \in ChangingOps => r.about = g /\ r.copy = req[p].copy,
         \/ group' = group
         \/ group' = [group EXCEPT ![g] = req[p].copy]
         \/ group' = [group EXCEPT ![g] = Absent],
         \A h \in Groups : InGroup(h)' \subseteq InGroup(h)
                             \cup {u \in Users : h = g /\ <<req[p].copy.org, u>> \in ever'}
  PROVE  TenantInv'
<1>1. ever \subseteq ever' /\ g \in DOMAIN group
  BY DEF Recorded, StateTyped
<1>2. \A q \in Handlers, h \in Groups :
        About(q, h)' => About(q, h) /\ req'[q].copy = req[q].copy
  BY DEF About, StateTyped
<1>3. \A h \in Groups \ {g} : group'[h] = group[h] /\ InGroup(h)' \subseteq InGroup(h)
  BY DEF StateTyped
<1>4. /\ group'[g] # Absent => group'[g].org = req[p].copy.org
      /\ \A u \in InGroup(g)' : <<req[p].copy.org, u>> \in ever'
      /\ \A q \in Handlers : About(q, g) => req[q].copy.org = req[p].copy.org
  BY <1>1 DEF TenantInv
<1>5. GroupsWithinTenant'
  BY <1>1, <1>3, <1>4 DEF TenantInv, GroupsWithinTenant
<1>6. ASSUME NEW h \in Groups, NEW q \in Handlers, About(q, h)'
      PROVE  /\ group'[h] # Absent => group'[h].org = req'[q].copy.org
             /\ \A other \in Handlers : About(other, h)' =>
                  req'[other].copy.org = req'[q].copy.org
             /\ \A u \in InGroup(h)' : <<req'[q].copy.org, u>> \in ever'
  BY <1>1, <1>2, <1>3, <1>4, <1>6 DEF TenantInv
<1>. QED
  BY <1>5, <1>6 DEF TenantInv

LEMMA MemberStepTenant ==
  ASSUME StateTyped, TenantInv, Recorded, NEW p \in Handlers,
         \/ InsertRow(p) \/ SaveAccount(p) \/ DeleteRow(p) \/ SaveRow(p)
         \/ InsertAccount(p) \/ SaveOrg(p) \/ SaveConfig(p) \/ Abort(p)
  PROVE  TenantInv'
<1>1. /\ UNCHANGED <<group, joined>>
      /\ \E r : req' = [req EXCEPT ![p] = r] /\ r.op \notin ChangingOps
  <2>1. /\ Idle.op \notin ChangingOps
        /\ \A u, o : Saving(u, o).op \notin ChangingOps
        /\ \A u, o, role, then : Inserting(u, o, role, then).op \notin ChangingOps
    BY DEF Idle, Saving, Inserting, ChangingOps, MappingOps
  <2>. QED
    BY <2>1 DEF InsertRow, SaveAccount, DeleteRow, SaveRow, InsertAccount, SaveOrg, SaveConfig,
                Abort, Ends, Goes
<1>. QED
  BY <1>1, TenantAside

LEMMA GroupStepTenant ==
  ASSUME StateTyped, TenantInv, Recorded, NEW p \in Handlers,
         \/ SaveGroup(p) \/ LeaveGroup(p) \/ JoinGroup(p)
         \/ ReadSetting(p) \/ FindGroup(p) \/ ReadRows(p) \/ FindRow(p) \/ MakeAdmin(p)
         \/ Finish(p)
  PROVE  TenantInv'
<1> DEFINE r == req[p]
           g == req[p].about
<1>1. /\ r \in Requests /\ r.op \in ChangingOps
      /\ g \in Groups /\ About(p, g)
      /\ r.copy \in GroupRecord /\ r.leave \subseteq Users /\ r.enter \subseteq Users
  <2>1. r \in Requests
    BY DEF StateTyped
  <2>2. r.op \in ChangingOps
    BY DEF ChangingOps, MappingOps, SaveGroup, LeaveGroup, JoinGroup, ReadSetting, FindGroup,
           ReadRows, FindRow, MakeAdmin, Finish
  <2>. QED
    BY <2>1, <2>2, Shapes DEF About
<1>2. ASSUME UNCHANGED joined, NEW h \in Groups
      PROVE  InGroup(h)' \subseteq InGroup(h)
  BY <1>2 DEF InGroup
\* The step goes on, with the same group and organization.
<1>3. ASSUME NEW next, Goes(p, next), next.about = g, next.copy = r.copy,
             group' = group \/ group' = [group EXCEPT ![g] = r.copy],
             \A h \in Groups : InGroup(h)' \subseteq InGroup(h)
                                 \cup {u \in Users : h = g /\ <<r.copy.org, u>> \in ever'}
      PROVE  TenantInv'
  <2>1. req' = [req EXCEPT ![p] = next]
    BY <1>3 DEF Goes
  <2>. QED
    BY <1>1, <1>3, <2>1, TenantOnwards
<1>4. /\ \A x : LET next == [r EXCEPT !.leave = x]
                IN next.about = g /\ next.copy = r.copy
      /\ \A x : LET next == [r EXCEPT !.enter = x]
                IN next.about = g /\ next.copy = r.copy
      /\ \A op : LET next == [r EXCEPT !.op = op]
                 IN next.about = g /\ next.copy = r.copy
      /\ \A op, x, y : LET next == [r EXCEPT !.op = op, !.leave = x, !.enter = y]
                       IN next.about = g /\ next.copy = r.copy
  BY <1>1, ChangingFields
<1>5. CASE SaveGroup(p)
  <2> DEFINE next == [r EXCEPT !.op = "rows", !.leave = InGroup(g) \ r.copy.members,
                               !.enter = r.copy.members \ InGroup(g)]
  <2>1. Goes(p, next) /\ group' = [group EXCEPT ![g] = r.copy] /\ UNCHANGED joined
    BY <1>5 DEF SaveGroup
  <2>2. next.about = g /\ next.copy = r.copy
    BY <1>4
  <2>. HIDE DEF r, g, next
  <2>. QED
    BY <1>2, <1>3, <2>1, <2>2
<1>6. CASE LeaveGroup(p)
  <2>1. PICK u \in r.leave :
          /\ joined' = [joined EXCEPT ![g][u] =
                          IF r.op = "clear" \/ @ = 0 THEN 0 ELSE @ - 1]
          /\ Goes(p, [r EXCEPT !.leave = @ \ {u}])
    BY <1>6 DEF LeaveGroup
  <2> DEFINE rest == r.leave \ {u}
             next == [r EXCEPT !.leave = rest]
  <2>2. Goes(p, next) /\ group' = group /\ next.about = g /\ next.copy = r.copy
    BY <1>4, <1>6, <2>1 DEF LeaveGroup
  <2>3. \A h \in Groups : InGroup(h)' \subseteq InGroup(h)
    BY <1>1, <2>1 DEF InGroup, StateTyped
  <2>. HIDE DEF r, g, next
  <2>. QED
    BY <1>3, <2>2, <2>3
<1>7. CASE JoinGroup(p)
  <2>1. PICK u \in r.enter :
          /\ joined' = [joined EXCEPT ![g][u] =
                          IF account[u] = r.copy.org /\ (r.op = "add" => @ = 0)
                          THEN @ + 1 ELSE @]
          /\ Goes(p, [r EXCEPT !.enter = @ \ {u}])
    BY <1>7 DEF JoinGroup
  <2> DEFINE rest == r.enter \ {u}
             next == [r EXCEPT !.enter = rest]
  <2>2. /\ Goes(p, next) /\ next.about = g /\ next.copy = r.copy
        /\ group' = group /\ account' = account
    BY <1>4, <1>7, <2>1 DEF JoinGroup
  <2>3. account[u] = r.copy.org => <<r.copy.org, u>> \in ever'
    <3>1. r.copy.org \in Orgs /\ u \in Users
      BY <1>1 DEF GroupRecord
    <3>2. ASSUME NEW o \in Orgs, account[u] = o
          PROVE  IsIn(o, u)'
      BY <2>2, <3>2 DEF IsIn
    <3>. QED
      BY <3>1, <3>2 DEF Recorded
  <2>4. ASSUME NEW h \in Groups, NEW v \in InGroup(h)', v \notin InGroup(h)
        PROVE  v \in Users /\ h = g /\ <<r.copy.org, v>> \in ever'
    <3>1. v \in Users /\ joined'[h][v] # joined[h][v]
      BY <2>4 DEF InGroup
    <3>2. h = g /\ v = u /\ account[u] = r.copy.org
      BY <1>1, <2>1, <3>1 DEF StateTyped
    <3>. QED
      BY <2>3, <3>1, <3>2
  <2>. HIDE DEF r, g, next
  <2>. QED
    BY <1>3, <2>2, <2>4
<1>8. CASE ReadSetting(p) \/ FindGroup(p) \/ ReadRows(p) \/ FindRow(p) \/ MakeAdmin(p)
  <2>1. UNCHANGED <<group, joined>>
    BY <1>8, MappingOnwards
  <2>2. PICK next : req' = [req EXCEPT ![p] = next] /\ SameGroup(r, next)
    BY <1>8, MappingOnwards
  <2>. QED
    BY <1>1, <1>2, <2>1, <2>2, TenantOnwards DEF SameGroup
<1>10. CASE Finish(p)
  <2>1. /\ UNCHANGED joined /\ req' = [req EXCEPT ![p] = Idle]
        /\ \/ group' = group
           \/ group' = [group EXCEPT ![g] = r.copy]
           \/ group' = [group EXCEPT ![g] = Absent]
    <3>1. r.last \in {"keep", "save", "delete"}
      BY <1>1, Shapes
    <3>. QED
      BY <1>10, <3>1 DEF Finish, Ends, Goes
  <2>2. Idle.op \notin ChangingOps
    BY DEF Idle, ChangingOps, MappingOps
  <2>. HIDE DEF g
  <2>. QED
    BY <1>1, <1>2, <2>1, <2>2, TenantOnwards
<1>. QED
  BY <1>5, <1>6, <1>7, <1>8, <1>10

-----------------------------------------------------------------------------
(* The theorems.                                                           *)

LEMMA InitHolds == Init => TInv /\ AdminInv /\ TenantInv
<1>. SUFFICES ASSUME Init PROVE TInv /\ AdminInv /\ TenantInv
  OBVIOUS
<1>1. TInv
  BY DirectoryAssumption, Follows, FS_EmptySet DEF Init, TInv, StateTyped
<1>2. AdminInv
  BY DEF Init, AdminInv, NoUngrantedAdmin, Backed, Idle
<1>3. TenantInv
  BY DEF Init, TenantInv, GroupsWithinTenant, About, ChangingOps, MappingOps, Idle
<1>. QED
  BY <1>1, <1>2, <1>3

LEMMA NextHolds ==
  ASSUME TInv, AdminInv, TenantInv, [Next]_vars
  PROVE  TInv' /\ AdminInv' /\ TenantInv'
<1>. StateTyped
  BY DEF TInv
<1>1. CASE UNCHANGED vars
  <2>1. TInv'
    BY <1>1 DEF vars, TInv, StateTyped
  <2>2. AdminInv'
    <3>1. \A q \in Handlers : Backed(req[q])'
      BY <1>1 DEF vars, AdminInv, Backed, IsAdminGroup, OfOrg
    <3>. QED
      BY <1>1, <3>1 DEF vars, AdminInv, NoUngrantedAdmin
  <2>3. TenantInv'
    BY <1>1 DEF vars, TenantInv, GroupsWithinTenant, About, InGroup
  <2>. QED
    BY <2>1, <2>2, <2>3
<1>2. CASE Next
  <2>. PICK p \in Handlers :
         BeginMembers(p) \/ BeginOrg(p) \/ BeginGroup(p) \/ Step(p) \/ Abort(p)
    BY <1>2, Zenon DEF Next
  <2>1. Recorded
    BY <1>2, Zenon DEF Next
  <2>2. /\ ever' \subseteq Orgs \X Users /\ granted' \subseteq Orgs \X Users
        /\ shifted' \subseteq Orgs
    BY <2>1 DEF Recorded, TInv
  <2>3. CASE Begins(p)
    <3>1. StateTyped'
      BY <2>3, BeginsTyped
    <3>. QED
      BY <2>1, <2>2, <2>3, <3>1, BeginsAdmin, BeginsTenant DEF TInv
  <2>4. CASE BeginMembers(p) \/ BeginOrg(p) \/ BeginGroup(p)
    BY <2>3, <2>4, MembersBegin, OrgBegins, GroupBegins
  <2>5. CASE Step(p)
    <3>1. StateTyped' /\ TenantInv'
      BY <2>1, <2>5, MemberStepTyped, GroupStepTyped, MemberStepTenant, GroupStepTenant
      DEF Step
    <3>. QED
      BY <2>1, <2>2, <2>5, <3>1, StepAdmin DEF TInv
  <2>6. CASE Abort(p)
    <3>1. StateTyped' /\ TenantInv'
      BY <2>1, <2>6, AbortTyped, MemberStepTenant
    <3>. QED
      BY <2>1, <2>2, <2>6, <3>1, AbortAdmin DEF TInv
  <2>. QED
    BY <2>4, <2>5, <2>6
<1>. QED
  BY <1>1, <1>2

\* Types hold for every number of users, organizations, groups and requests, and
\* no two rows have one identity.
THEOREM TypesHold == Spec => []TypeOK
<1>1. TInv => TypeOK
  BY DEF TInv, StateTyped, TypeOK, Rows, Subjects
<1>. QED
  BY <1>1, InitHolds, NextHolds, PTL DEF Spec

\* However requests overlap or fail, an admin was made one by an admin or was in
\* the admin group while it was that, unless the admin group became another
\* between two reads of a request that applied it.
THEOREM NoUngrantedAdminHolds == Spec => []NoUngrantedAdmin
<1>1. AdminInv => NoUngrantedAdmin
  BY DEF AdminInv
<1>. QED
  BY <1>1, InitHolds, NextHolds, PTL DEF Spec

\* However requests overlap or fail, who is in a group was in its organization.
THEOREM GroupsWithinTenantHolds == Spec => []GroupsWithinTenant
<1>1. TenantInv => GroupsWithinTenant
  BY DEF TenantInv
<1>. QED
  BY <1>1, InitHolds, NextHolds, PTL DEF Spec

-----------------------------------------------------------------------------
(* The roster of a group.                                                  *)

RosterOf(g) == IF group[g] = Absent THEN {} ELSE group[g].members

\* What a request about g still has to do: who is in the group and not on the
\* roster it will leave is yet to leave, and who is to enter will be on it.
Coming(r, g) ==
  /\ r.last = "delete" => r.copy.members = {}
  /\ r.op # "saveGroup" =>
       /\ InGroup(g) \subseteq r.copy.members \cup r.leave
       /\ r.last = "keep" => group[g] = r.copy
  /\ r.op \in {"rows", "add"} => r.enter \subseteq r.copy.members
  /\ r.op = "rows" => \A u \in r.enter : joined[g][u] = 0

OneRow(g) == \A u \in Users : joined[g][u] <= 1

RosterFits(g) ==
  /\ \A p, q \in Handlers : About(p, g) /\ About(q, g) => p = q
  /\ OneRow(g)
  /\ (\A p \in Handlers : ~About(p, g)) => InGroup(g) \subseteq RosterOf(g)
  /\ \A p \in Handlers : About(p, g) => Coming(req[p], g)

RosterInv == \A g \in Groups \ dirty : RosterFits(g)

\* A step of a request about other things leaves the group alone.
LEMMA FitsAside ==
  ASSUME StateTyped, NEW p \in Handlers, NEW r, NEW g \in Groups, RosterFits(g),
         ~About(p, g), req' = [req EXCEPT ![p] = r],
         ~(r.op \in ChangingOps /\ r.about = g),
         group'[g] = group[g], joined'[g] = joined[g]
  PROVE  RosterFits(g)'
<1>1. /\ req'[p] = r
      /\ \A q \in Handlers \ {p} : req'[q] = req[q]
  BY DEF StateTyped
<1>2. \A q \in Handlers : /\ About(q, g)' <=> About(q, g)
                          /\ About(q, g) => req'[q] = req[q]
  BY <1>1 DEF About
<1>3. InGroup(g)' = InGroup(g) /\ RosterOf(g)' = RosterOf(g) /\ (OneRow(g)' <=> OneRow(g))
  BY DEF InGroup, RosterOf, OneRow
<1>4. \A q \in Handlers : About(q, g) => Coming(req[q], g)'
  BY <1>2, <1>3 DEF RosterFits, Coming
<1>. QED
  BY <1>2, <1>3, <1>4 DEF RosterFits

\* The one request about the group begins or goes on.
LEMMA FitsOnwards ==
  ASSUME StateTyped, NEW p \in Handlers, NEW r, NEW g \in Groups,
         req' = [req EXCEPT ![p] = r], r.op \in ChangingOps, r.about = g,
         \A q \in Handlers \ {p} : ~About(q, g),
         OneRow(g)', Coming(req[p], g)'
  PROVE  RosterFits(g)'
<1>1. /\ req'[p] = r
      /\ \A q \in Handlers \ {p} : req'[q] = req[q]
  BY DEF StateTyped
<1>2. About(p, g)' /\ \A q \in Handlers : About(q, g)' => q = p
  BY <1>1 DEF About
<1>. QED
  BY <1>2 DEF RosterFits

\* The one request about the group ends.
LEMMA FitsEnds ==
  ASSUME StateTyped, NEW p \in Handlers, NEW g \in Groups,
         req' = [req EXCEPT ![p] = Idle],
         \A q \in Handlers \ {p} : ~About(q, g),
         OneRow(g)', InGroup(g)' \subseteq RosterOf(g)'
  PROVE  RosterFits(g)'
<1>1. /\ req'[p] = Idle /\ Idle.op \notin ChangingOps
      /\ \A q \in Handlers \ {p} : req'[q] = req[q]
  BY DEF StateTyped, Idle, ChangingOps, MappingOps
<1>2. \A q \in Handlers : ~About(q, g)'
  BY <1>1 DEF About
<1>. QED
  BY <1>2 DEF RosterFits

LEMMA ChangingHas ==
  ASSUME NEW op, NEW g, NEW copy, NEW leave, NEW enter, NEW map, NEW last
  PROVE  LET r == Changing(op, g, copy, leave, enter, map, last)
         IN /\ r.op = op /\ r.about = g /\ r.copy = copy /\ r.leave = leave
            /\ r.enter = enter /\ r.map = map /\ r.last = last
  BY DEF Changing

\* A request on a group whose roster covers it has only to do what it says.
LEMMA GroupBeginsFit ==
  ASSUME StateTyped, NEW p \in Handlers, BeginGroup(p)
  PROVE  \E h \in Groups : \E r \in Requests :
           /\ req[p] = Idle /\ req' = [req EXCEPT ![p] = r]
           /\ r.op \in ChangingOps \ MappingOps /\ r.about = h
           /\ dirty' = IF Busy(h) THEN dirty \cup {h} ELSE dirty
           /\ InGroup(h) \subseteq RosterOf(h) => Coming(r, h)
           /\ UNCHANGED <<group, joined>>
<1>. PICK o \in Orgs, g \in Groups :
       \/ \E last \in {"save", "delete"} : ClearGroup(p, o, g, last)
       \/ \E name \in Names : PatchName(p, o, g, name)
       \/ \E members \in SUBSET Users :
            \/ PatchMembers(p, o, g, members)
            \/ AddToGroup(p, o, g, members) \/ RemoveFromGroup(p, o, g, members)
            \/ \E name \in Names :
                 CreateGroup(p, o, g, name, members) \/ ReplaceGroup(p, o, g, name, members)
  BY Zenon DEF BeginGroup
<1> DEFINE Goal ==
      \E h \in Groups : \E r \in Requests :
           /\ req[p] = Idle /\ req' = [req EXCEPT ![p] = r]
           /\ r.op \in ChangingOps \ MappingOps /\ r.about = h
           /\ dirty' = IF Busy(h) THEN dirty \cup {h} ELSE dirty
           /\ InGroup(h) \subseteq RosterOf(h) => Coming(r, h)
           /\ UNCHANGED <<group, joined>>
<1>1. ASSUME NEW op \in ChangingOps \ MappingOps, NEW copy \in GroupRecord,
             NEW leave \in SUBSET Users, NEW enter \in SUBSET Users, NEW map \in BOOLEAN,
             NEW last \in {"keep", "save", "delete"},
             Begin(p, g, Changing(op, g, copy, leave, enter, map, last)),
             NoDirectoryChange,
             last = "delete" => copy.members = {},
             op # "saveGroup" => /\ last # "keep"
                                 /\ InGroup(g) \cap RosterOf(g) \subseteq copy.members \cup leave,
             op \in {"rows", "add"} => enter \subseteq copy.members,
             op = "rows" => enter = {}
      PROVE  Goal
  <2> DEFINE r == Changing(op, g, copy, leave, enter, map, last)
  <2>1. r \in Requests
    BY ChangingTyped
  <2>2. /\ r.op = op /\ r.about = g /\ r.copy = copy /\ r.leave = leave
        /\ r.enter = enter /\ r.last = last
    BY ChangingHas
  <2>3. req[p] = Idle /\ req' = [req EXCEPT ![p] = r]
        /\ dirty' = IF Busy(g) THEN dirty \cup {g} ELSE dirty
    BY <1>1 DEF Begin
  <2>. HIDE DEF r
  <2>4. InGroup(g) \subseteq RosterOf(g) => Coming(r, g)
    BY <1>1, <2>2 DEF Coming
  <2>5. UNCHANGED <<group, joined>>
    BY <1>1 DEF NoDirectoryChange
  <2>. QED
    BY <2>1, <2>2, <2>3, <2>4, <2>5
<1>2. ASSUME OfOrg(g, o)
      PROVE  /\ group[g] # Absent /\ group[g] \in GroupRecord
             /\ RosterOf(g) = group[g].members /\ RosterOf(g) \subseteq Users
             /\ InGroup(g) \subseteq Users
             /\ \A name \in Names :
                  /\ [group[g] EXCEPT !.name = name] \in GroupRecord
                  /\ [group[g] EXCEPT !.name = name].members = group[g].members
             /\ \A members \in SUBSET Users :
                  /\ [group[g] EXCEPT !.members = members] \in GroupRecord
                  /\ [group[g] EXCEPT !.members = members].members = members
  BY <1>2 DEF OfOrg, StateTyped, GroupRecord, RosterOf, InGroup
<1>3. ASSUME NEW last \in {"save", "delete"}, ClearGroup(p, o, g, last) PROVE Goal
  <2> DEFINE copy == [group[g] EXCEPT !.members = {}]
  <2>1. /\ OfOrg(g, o) /\ NoDirectoryChange
        /\ Begin(p, g, Changing("clear", g, copy, InGroup(g), {}, FALSE, last))
    BY <1>3 DEF ClearGroup
  <2>2. copy \in GroupRecord /\ copy.members = {} /\ InGroup(g) \in SUBSET Users
    BY <1>2, <2>1
  <2>. HIDE DEF copy, Goal
  <2>. QED
    BY <1>1, <2>1, <2>2 DEF ChangingOps, MappingOps
<1>4. ASSUME NEW name \in Names, PatchName(p, o, g, name) PROVE Goal
  <2> DEFINE copy == [group[g] EXCEPT !.name = name]
  <2>1. /\ OfOrg(g, o) /\ NoDirectoryChange
        /\ Begin(p, g, Changing("rows", g, copy, {}, {}, FALSE, "save"))
    BY <1>4 DEF PatchName
  <2>2. copy \in GroupRecord /\ copy.members = RosterOf(g)
    BY <1>2, <2>1
  <2>. HIDE DEF copy, Goal
  <2>. QED
    BY <1>1, <2>1, <2>2 DEF ChangingOps, MappingOps
<1>5. ASSUME NEW copy \in GroupRecord, NEW members \in SUBSET Users,
             NEW last \in {"keep", "save"}, NoDirectoryChange,
             Begin(p, g, Syncing(g, copy, members, last))
      PROVE  Goal
  <2> DEFINE new == [copy EXCEPT !.members = members]
  <2>1. new \in GroupRecord
    BY DEF GroupRecord
  <2>2. Begin(p, g, Changing("saveGroup", g, new, {}, {}, TRUE, last))
    BY <1>5 DEF Syncing
  <2>. HIDE DEF new, Goal
  <2>. QED
    BY <1>1, <1>5, <2>1, <2>2 DEF ChangingOps, MappingOps
<1>6. ASSUME NEW members \in SUBSET Users, PatchMembers(p, o, g, members) PROVE Goal
  <2>1. /\ OfOrg(g, o) /\ NoDirectoryChange
        /\ Begin(p, g, Syncing(g, group[g], members, "save"))
    BY <1>6 DEF PatchMembers
  <2>. HIDE DEF Goal
  <2>. QED
    BY <1>2, <1>5, <2>1
<1>7. ASSUME NEW members \in SUBSET Users, AddToGroup(p, o, g, members) PROVE Goal
  <2> DEFINE new == members \ group[g].members
             all == group[g].members \cup new
             copy == [group[g] EXCEPT !.members = all]
  <2>1. /\ OfOrg(g, o) /\ NoDirectoryChange
        /\ Begin(p, g, Changing("add", g, copy, {}, new, TRUE, "save"))
    BY <1>7 DEF AddToGroup
  <2>2. /\ new \in SUBSET Users /\ all \in SUBSET Users
        /\ RosterOf(g) \subseteq all /\ new \subseteq all
    BY <1>2, <2>1 DEF GroupRecord
  <2>. HIDE DEF new, all
  <2>3. copy \in GroupRecord /\ copy.members = all
    BY <1>2, <2>1, <2>2
  <2>4. "add" \in ChangingOps \ MappingOps
    BY DEF ChangingOps, MappingOps
  <2>. HIDE DEF copy, Goal
  <2>. QED
    BY <1>1, <2>1, <2>2, <2>3, <2>4
<1>8. ASSUME NEW members \in SUBSET Users, RemoveFromGroup(p, o, g, members) PROVE Goal
  <2> DEFINE rest == group[g].members \ members
             gone == members \cap InGroup(g)
             copy == [group[g] EXCEPT !.members = rest]
  <2>1. /\ OfOrg(g, o) /\ NoDirectoryChange
        /\ Begin(p, g, Changing("rows", g, copy, gone, {}, FALSE, "save"))
    BY <1>8 DEF RemoveFromGroup
  <2>2. /\ rest \in SUBSET Users /\ gone \in SUBSET Users
        /\ InGroup(g) \cap RosterOf(g) \subseteq rest \cup gone
    BY <1>2, <2>1 DEF GroupRecord
  <2>. HIDE DEF rest, gone
  <2>3. copy \in GroupRecord /\ copy.members = rest
    BY <1>2, <2>1, <2>2
  <2>. HIDE DEF copy, Goal
  <2>. QED
    BY <1>1, <2>1, <2>2, <2>3 DEF ChangingOps, MappingOps
<1>9. ASSUME NEW members \in SUBSET Users, NEW name \in Names,
             CreateGroup(p, o, g, name, members)
      PROVE  Goal
  <2> DEFINE new == [org |-> o, name |-> name, members |-> {}]
  <2>1. /\ NoDirectoryChange
        /\ \/ Begin(p, g, Changing("saveGroup", g, new, {}, {}, FALSE, "keep"))
           \/ Begin(p, g, Syncing(g, new, members, "keep"))
    BY <1>9 DEF CreateGroup
  <2>2. new \in GroupRecord
    BY DEF GroupRecord
  <2>. HIDE DEF new, Goal
  <2>. QED
    BY <1>1, <1>5, <2>1, <2>2 DEF ChangingOps, MappingOps
<1>10. ASSUME NEW members \in SUBSET Users, NEW name \in Names,
              ReplaceGroup(p, o, g, name, members)
       PROVE  Goal
  <2>1. /\ OfOrg(g, o) /\ NoDirectoryChange
        /\ Begin(p, g, Syncing(g, [group[g] EXCEPT !.name = name], members, "keep"))
    BY <1>10 DEF ReplaceGroup
  <2>. HIDE DEF Goal
  <2>. QED
    BY <1>2, <1>5, <2>1
<1>. QED
  BY <1>3, <1>4, <1>6, <1>7, <1>8, <1>9, <1>10, Zenon

LEMMA BeginFits ==
  ASSUME StateTyped, RosterInv, NEW p \in Handlers,
         BeginMembers(p) \/ BeginOrg(p) \/ BeginGroup(p)
  PROVE  RosterInv'
<1>1. Idle.op \notin ChangingOps
  BY DEF Idle, ChangingOps, MappingOps
<1>2. CASE BeginGroup(p)
  <2>1. PICK h \in Groups, r \in Requests :
          /\ req[p] = Idle /\ req' = [req EXCEPT ![p] = r]
          /\ r.op \in ChangingOps \ MappingOps /\ r.about = h
          /\ dirty' = IF Busy(h) THEN dirty \cup {h} ELSE dirty
          /\ InGroup(h) \subseteq RosterOf(h) => Coming(r, h)
          /\ UNCHANGED <<group, joined>>
    BY <1>2, GroupBeginsFit
  <2>2. ASSUME NEW g \in Groups, g \notin dirty' PROVE RosterFits(g)'
    <3>1. RosterFits(g) /\ ~About(p, g)
      BY <1>1, <2>1, <2>2 DEF RosterInv, About
    <3>2. CASE g # h
      BY <2>1, <3>1, <3>2, FitsAside
    <3>3. CASE g = h
      <4>1. \A q \in Handlers : ~About(q, g)
        BY <2>1, <2>2, <3>3 DEF Busy, About
      <4>2. Coming(r, g)
        BY <2>1, <3>1, <3>3, <4>1 DEF RosterFits
      <4>3. req'[p] = r
        BY <2>1 DEF StateTyped
      <4>4. OneRow(g)' /\ Coming(req[p], g)'
        BY <2>1, <3>1, <4>2, <4>3 DEF RosterFits, OneRow, Coming, InGroup
      <4>. QED
        BY <2>1, <3>3, <4>1, <4>4, FitsOnwards
    <3>. QED
      BY <3>2, <3>3
  <2>. QED
    BY <2>2 DEF RosterInv
<1>3. CASE BeginMembers(p) \/ BeginOrg(p)
  <2>1. /\ UNCHANGED <<group, joined>> /\ req[p] = Idle /\ dirty \subseteq dirty'
        /\ \E r : req' = [req EXCEPT ![p] = r] /\ r.op \notin ChangingOps
    <3>1. /\ \A u, o : Saving(u, o).op \notin ChangingOps
          /\ \A u, o, role, then : Inserting(u, o, role, then).op \notin ChangingOps
          /\ \A u, o : Creating(u, o).op \notin ChangingOps
      BY DEF Saving, Inserting, Creating, ChangingOps, MappingOps
    <3>2. ASSUME NEW u, NEW o, NEW row, NEW b, Deleting(p, o, u, row, b)
          PROVE  /\ req[p] = Idle /\ dirty \subseteq dirty'
                 /\ \E r : req' = [req EXCEPT ![p] = r] /\ r.op \notin ChangingOps
      <4> DEFINE r == [op |-> "deleteRow", about |-> u, user |-> u, org |-> o,
                       row |-> row, scim |-> b]
      <4>1. Begin(p, u, r) /\ r.op \notin ChangingOps
        BY <3>2 DEF Deleting, ChangingOps, MappingOps
      <4>. HIDE DEF r
      <4>. QED
        BY <4>1 DEF Begin
    <3>3. ASSUME NEW s, NEW r, Begin(p, s, r), r.op \notin ChangingOps
          PROVE  /\ req[p] = Idle /\ dirty \subseteq dirty'
                 /\ \E next : req' = [req EXCEPT ![p] = next] /\ next.op \notin ChangingOps
      BY <3>3 DEF Begin
    <3>4. CASE BeginMembers(p)
      <4>. PICK u \in Users :
             \/ UpdateAccount(p, u)
             \/ \E o \in Orgs :
                  \/ CreateOrg(p, o, u) \/ RemoveMember(p, o, u) \/ DeleteScimUser(p, o, u)
                  \/ UpdateScimUser(p, o, u) \/ CreateScimUser(p, o, u)
                  \/ Login(p, o, u) \/ LoginMoves(p, o, u)
                  \/ \E role \in Roles : AddMember(p, o, u, role) \/ ChangeRole(p, o, u, role)
        BY <3>4, Zenon DEF BeginMembers
      <4>1. CASE UpdateAccount(p, u)
        BY <3>1, <3>3, <4>1 DEF UpdateAccount, NoDirectoryChange
      <4>2. ASSUME NEW o \in Orgs, CreateOrg(p, o, u) PROVE <2>1
        BY <3>1, <3>3, <4>2 DEF CreateOrg
      <4>3. ASSUME NEW o \in Orgs, RemoveMember(p, o, u) PROVE <2>1
        BY <3>2, <4>3 DEF RemoveMember, NoDirectoryChange
      <4>4. ASSUME NEW o \in Orgs, DeleteScimUser(p, o, u) PROVE <2>1
        BY <3>1, <3>2, <3>3, <4>4 DEF DeleteScimUser, NoDirectoryChange
      <4>5. ASSUME NEW o \in Orgs, UpdateScimUser(p, o, u) PROVE <2>1
        BY <3>1, <3>3, <4>5 DEF UpdateScimUser, UpdateAccount, NoDirectoryChange
      <4>6. ASSUME NEW o \in Orgs, CreateScimUser(p, o, u) PROVE <2>1
        BY <3>1, <3>3, <4>6 DEF CreateScimUser, NoDirectoryChange
      <4>7. ASSUME NEW o \in Orgs, Login(p, o, u) PROVE <2>1
        BY <3>1, <3>3, <4>7 DEF Login, NoDirectoryChange
      <4>8. ASSUME NEW o \in Orgs, LoginMoves(p, o, u) PROVE <2>1
        BY <3>1, <4>8 DEF LoginMoves, NoDirectoryChange
      <4>9. ASSUME NEW o \in Orgs, NEW role \in Roles, AddMember(p, o, u, role) PROVE <2>1
        BY <3>1, <3>3, <4>9 DEF AddMember, NoDirectoryChange
      <4>10. ASSUME NEW o \in Orgs, NEW role \in Roles, ChangeRole(p, o, u, role) PROVE <2>1
        <5>1. PICK row \in RowsOf(o, u) :
                Begin(p, u, [op |-> "saveRow", about |-> u,
                             row |-> [row EXCEPT !.role = role]])
          BY <4>10 DEF ChangeRole
        <5> DEFINE r == [op |-> "saveRow", about |-> u, row |-> [row EXCEPT !.role = role]]
        <5>2. /\ Begin(p, u, r) /\ r.op \notin ChangingOps
              /\ UNCHANGED <<group, joined>>
          BY <4>10, <5>1 DEF ChangeRole, NoDirectoryChange, ChangingOps, MappingOps
        <5>. HIDE DEF r
        <5>. QED
          BY <3>3, <5>2
      <4>. QED
        BY <4>1, <4>2, <4>3, <4>4, <4>5, <4>6, <4>7, <4>8, <4>9, <4>10
    <3>5. CASE BeginOrg(p)
      BY <1>1, <3>5 DEF BeginOrg, GenerateScimToken, RevokeScimToken, UpdateSSOConfig,
                        Configuring, UpdateOrg, Begin, ChangingOps, MappingOps,
                        NoDirectoryChange
    <3>. QED
      BY <1>3, <3>4, <3>5
  <2>2. PICK r : req' = [req EXCEPT ![p] = r] /\ r.op \notin ChangingOps
    BY <2>1
  <2>3. ASSUME NEW g \in Groups, g \notin dirty' PROVE RosterFits(g)'
    <3>1. RosterFits(g) /\ ~About(p, g)
      BY <1>1, <2>1, <2>3 DEF RosterInv, About
    <3>. QED
      BY <2>1, <2>2, <3>1, FitsAside
  <2>. QED
    BY <2>3 DEF RosterInv
<1>. QED
  BY <1>2, <1>3

LEMMA AbortFits ==
  ASSUME StateTyped, RosterInv, NEW p \in Handlers, Abort(p)
  PROVE  RosterInv'
<1>1. Idle.op \notin ChangingOps
  BY DEF Idle, ChangingOps, MappingOps
<1>2. ASSUME NEW g \in Groups, g \notin dirty' PROVE RosterFits(g)'
  <2>1. RosterFits(g) /\ ~About(p, g)
    BY <1>2 DEF Abort, RosterInv, About
  <2>. QED
    BY <1>1, <2>1, FitsAside DEF Abort
<1>. QED
  BY <1>2 DEF RosterInv

LEMMA MemberStepFits ==
  ASSUME StateTyped, RosterInv, NEW p \in Handlers,
         \/ InsertRow(p) \/ SaveAccount(p) \/ DeleteRow(p) \/ SaveRow(p)
         \/ InsertAccount(p) \/ SaveOrg(p) \/ SaveConfig(p)
  PROVE  RosterInv'
<1>1. /\ UNCHANGED <<group, joined, dirty>> /\ req[p].op \notin ChangingOps
      /\ \E r : req' = [req EXCEPT ![p] = r] /\ r.op \notin ChangingOps
  <2>1. /\ Idle.op \notin ChangingOps
        /\ \A u, o : Saving(u, o).op \notin ChangingOps
        /\ \A u, o, role, then : Inserting(u, o, role, then).op \notin ChangingOps
    BY DEF Idle, Saving, Inserting, ChangingOps, MappingOps
  <2>2. req[p].op \notin ChangingOps
    BY DEF InsertRow, SaveAccount, DeleteRow, SaveRow, InsertAccount, SaveOrg, SaveConfig,
           ChangingOps, MappingOps
  <2>. QED
    BY <2>1, <2>2 DEF InsertRow, SaveAccount, DeleteRow, SaveRow, InsertAccount, SaveOrg,
                SaveConfig, Ends, Goes
<1>2. PICK r : req' = [req EXCEPT ![p] = r] /\ r.op \notin ChangingOps
  BY <1>1
<1>3. ASSUME NEW g \in Groups, g \notin dirty' PROVE RosterFits(g)'
  <2>1. RosterFits(g) /\ ~About(p, g)
    BY <1>1, <1>3 DEF RosterInv, About
  <2>. QED
    BY <1>1, <1>2, <2>1, FitsAside
<1>. QED
  BY <1>3 DEF RosterInv

LEMMA ChangingLeft ==
  ASSUME NEW r \in Requests, r.op \in ChangingOps
  PROVE  /\ \A op, leave, enter :
              LET next == [r EXCEPT !.op = op, !.leave = leave, !.enter = enter]
              IN next.leave = leave /\ next.enter = enter /\ next.last = r.last
         /\ \A leave :
              LET next == [r EXCEPT !.leave = leave]
              IN next.leave = leave /\ next.enter = r.enter /\ next.last = r.last
         /\ \A enter :
              LET next == [r EXCEPT !.enter = enter]
              IN next.leave = r.leave /\ next.enter = enter /\ next.last = r.last
<1>1. r \in GroupRequests
  BY ChangingIsGroup
<1>. QED
  BY <1>1 DEF GroupRequests

LEMMA GroupStepFits ==
  ASSUME StateTyped, RosterInv, NEW p \in Handlers,
         \/ SaveGroup(p) \/ LeaveGroup(p) \/ JoinGroup(p) \/ Finish(p)
         \/ ReadSetting(p) \/ FindGroup(p) \/ ReadRows(p) \/ FindRow(p) \/ MakeAdmin(p)
  PROVE  RosterInv'
<1> DEFINE r == req[p]
           h == req[p].about
<1> DEFINE Maps == \/ ReadSetting(p) \/ FindGroup(p) \/ ReadRows(p)
                   \/ FindRow(p) \/ MakeAdmin(p)
<1>1. /\ r \in Requests /\ r.op \in ChangingOps
      /\ h \in Groups /\ r.copy \in GroupRecord /\ r.copy # Absent
      /\ r.copy.members \subseteq Users
      /\ r.leave \subseteq Users /\ r.enter \subseteq Users
      /\ r.last \in {"keep", "save", "delete"}
  <2>1. r \in Requests
    BY DEF StateTyped
  <2>2. r.op \in ChangingOps
    BY MappingOnwards
       DEF ChangingOps, MappingOps, SaveGroup, LeaveGroup, JoinGroup, Finish
  <2>3. r.copy \in GroupRecord /\ r.copy # Absent
    BY <2>1, <2>2, Shapes, DirectoryAssumption
  <2>. QED
    BY <2>1, <2>2, <2>3, Shapes DEF GroupRecord
<1>2. dirty \subseteq dirty' /\ Idle.op \notin ChangingOps
  BY DEF SaveGroup, LeaveGroup, JoinGroup, ReadSetting, FindGroup, ReadRows, FindRow,
         MakeAdmin, Finish, Ends, Goes, Idle, ChangingOps, MappingOps
\* Groups the step is not about are left alone.
<1>3. ASSUME NEW g \in Groups, g \notin dirty, g # h PROVE RosterFits(g)'
  <2>1. RosterFits(g) /\ ~About(p, g)
    BY <1>3 DEF RosterInv, About
  <2>2. group'[g] = group[g] /\ joined'[g] = joined[g]
    BY <1>1, <1>3, MappingOnwards DEF SaveGroup, LeaveGroup, JoinGroup, Finish, StateTyped
  <2>3. PICK next : req' = [req EXCEPT ![p] = next] /\ ~(next.op \in ChangingOps /\ next.about = g)
    <3>1. /\ \A x : [r EXCEPT !.leave = x].about = h
          /\ \A x : [r EXCEPT !.enter = x].about = h
          /\ \A op, x, y : [r EXCEPT !.op = op, !.leave = x, !.enter = y].about = h
      BY <1>1, ChangingFields
    <3> DEFINE Goal == \E next : /\ req' = [req EXCEPT ![p] = next]
                                 /\ ~(next.op \in ChangingOps /\ next.about = g)
    <3>2. ASSUME NEW next, Goes(p, next), next.op \notin ChangingOps \/ next.about = h
          PROVE  Goal
      BY <1>3, <3>2 DEF Goes
    <3>3. CASE SaveGroup(p)
      <4> DEFINE next == [r EXCEPT !.op = "rows", !.leave = InGroup(h) \ r.copy.members,
                                   !.enter = r.copy.members \ InGroup(h)]
      <4>1. Goes(p, next) /\ next.about = h
        BY <3>1, <3>3 DEF SaveGroup
      <4>. HIDE DEF next
      <4>. QED
        BY <3>2, <4>1
    <3>4. CASE LeaveGroup(p)
      <4>1. PICK u \in r.leave : Goes(p, [r EXCEPT !.leave = r.leave \ {u}])
        BY <3>4 DEF LeaveGroup
      <4>. QED
        BY <3>1, <3>2, <4>1
    <3>5. CASE JoinGroup(p)
      <4>1. PICK u \in r.enter : Goes(p, [r EXCEPT !.enter = r.enter \ {u}])
        BY <3>5 DEF JoinGroup
      <4>. QED
        BY <3>1, <3>2, <4>1
    <3>6. CASE Maps
      <4>1. PICK next : req' = [req EXCEPT ![p] = next] /\ SameGroup(r, next)
        BY <3>6, MappingOnwards
      <4>. QED
        BY <1>3, <4>1 DEF SameGroup
    <3>7. CASE Finish(p)
      BY <1>2, <3>2, <3>7 DEF Finish, Ends
    <3>. QED
      BY <3>3, <3>4, <3>5, <3>6, <3>7
  <2>. QED
    BY <2>1, <2>2, <2>3, FitsAside
<1>4. SUFFICES ASSUME NEW g \in Groups, g \notin dirty', g = h PROVE RosterFits(g)'
  BY <1>2, <1>3 DEF RosterInv
<1>5. /\ RosterFits(g) /\ About(p, g) /\ Coming(r, g) /\ OneRow(g)
      /\ \A q \in Handlers \ {p} : ~About(q, g)
  BY <1>1, <1>2, <1>4 DEF RosterInv, RosterFits, About
\* A step that goes on with the same copy and the same end.
<1>6. ASSUME NEW next, req' = [req EXCEPT ![p] = next], next.op \in ChangingOps, next.about = g,
             OneRow(g)', next.copy = r.copy, next.last = r.last,
             next.op # "saveGroup" =>
               /\ InGroup(g)' \subseteq r.copy.members \cup next.leave
               /\ r.last = "keep" => group'[g] = r.copy,
             next.op \in {"rows", "add"} => next.enter \subseteq r.copy.members,
             next.op = "rows" => \A u \in next.enter : joined'[g][u] = 0
      PROVE  RosterFits(g)'
  <2>1. req'[p] = next
    BY <1>6 DEF StateTyped
  <2>2. Coming(req[p], g)'
    BY <1>5, <1>6, <2>1 DEF Coming
  <2>. QED
    BY <1>5, <1>6, <2>2, FitsOnwards
<1>7. CASE SaveGroup(p)
  <2> DEFINE leaving == InGroup(h) \ r.copy.members
             entering == r.copy.members \ InGroup(h)
             next == [r EXCEPT !.op = "rows", !.leave = leaving, !.enter = entering]
  <2>1. /\ group' = [group EXCEPT ![h] = r.copy] /\ Goes(p, next)
        /\ UNCHANGED joined
    BY <1>7 DEF SaveGroup
  <2>2. /\ next.op = "rows" /\ next.about = h /\ next.copy = r.copy
        /\ next.leave = leaving /\ next.enter = entering /\ next.last = r.last
    BY <1>1, ChangingFields, ChangingLeft
  <2>3. /\ OneRow(g)' /\ InGroup(g)' \subseteq r.copy.members \cup leaving
        /\ group'[g] = r.copy
        /\ \A u \in entering : joined'[g][u] = 0
    BY <1>1, <1>4, <1>5, <2>1 DEF OneRow, InGroup, StateTyped
  <2>4. entering \subseteq r.copy.members
    OBVIOUS
  <2>. HIDE DEF next, leaving, entering, r, h
  <2>. QED
    BY <1>4, <1>6, <2>1, <2>2, <2>3, <2>4 DEF Goes, ChangingOps, MappingOps
<1>8. CASE LeaveGroup(p)
  <2>1. PICK u \in r.leave :
          /\ joined' = [joined EXCEPT ![h][u] =
                          IF r.op = "clear" \/ @ = 0 THEN 0 ELSE @ - 1]
          /\ Goes(p, [r EXCEPT !.leave = @ \ {u}])
    BY <1>8 DEF LeaveGroup
  <2> DEFINE rest == r.leave \ {u}
             next == [r EXCEPT !.leave = rest]
  <2>2. Goes(p, next) /\ group' = group /\ r.op \in {"rows", "clear"}
    BY <1>8, <2>1 DEF LeaveGroup
  <2>3. /\ next.op = r.op /\ next.about = h /\ next.copy = r.copy
        /\ next.leave = rest /\ next.enter = r.enter /\ next.last = r.last
    BY <1>1, ChangingFields, ChangingLeft
  <2>4. /\ joined'[g][u] = 0
        /\ \A v \in Users \ {u} : joined'[g][v] = joined[g][v]
    <3>1. u \in Users /\ joined[g][u] \in Nat /\ joined[g][u] <= 1
      BY <1>1, <1>5 DEF OneRow, StateTyped
    <3>2. joined'[g][u] = IF r.op = "clear" \/ joined[g][u] = 0 THEN 0 ELSE joined[g][u] - 1
      BY <1>4, <2>1, <3>1 DEF StateTyped
    <3>3. \A v \in Users \ {u} : joined'[g][v] = joined[g][v]
      BY <1>4, <2>1, <3>1 DEF StateTyped
    <3>. QED
      BY <3>1, <3>2, <3>3
  <2>5. /\ OneRow(g)' /\ InGroup(g)' \subseteq r.copy.members \cup rest
        /\ r.last = "keep" => group'[g] = r.copy
    <3>1. OneRow(g)'
      BY <1>5, <2>4 DEF OneRow
    <3>2. InGroup(g)' \subseteq InGroup(g) \ {u}
      BY <2>4 DEF InGroup
    <3>3. /\ InGroup(g) \subseteq r.copy.members \cup r.leave
          /\ r.last = "keep" => group[g] = r.copy
      BY <1>5, <2>2 DEF Coming
    <3>. QED
      BY <2>2, <3>1, <3>2, <3>3
  <2>6. /\ r.op \in {"rows", "add"} => r.enter \subseteq r.copy.members
        /\ r.op = "rows" => \A v \in r.enter : joined'[g][v] = 0
    BY <1>1, <1>5, <2>4 DEF Coming
  <2>. HIDE DEF next, rest, r, h
  <2>. QED
    BY <1>1, <1>4, <1>6, <2>2, <2>3, <2>5, <2>6 DEF Goes
<1>9. CASE JoinGroup(p)
  <2>1. PICK u \in r.enter :
          /\ joined' = [joined EXCEPT ![h][u] =
                          IF account[u] = r.copy.org /\ (r.op = "add" => @ = 0)
                          THEN @ + 1 ELSE @]
          /\ Goes(p, [r EXCEPT !.enter = @ \ {u}])
    BY <1>9 DEF JoinGroup
  <2> DEFINE rest == r.enter \ {u}
             next == [r EXCEPT !.enter = rest]
  <2>2. Goes(p, next) /\ group' = group /\ r.op \in {"rows", "add"}
    BY <1>9, <2>1 DEF JoinGroup
  <2>3. /\ next.op = r.op /\ next.about = h /\ next.copy = r.copy
        /\ next.leave = r.leave /\ next.enter = rest /\ next.last = r.last
    BY <1>1, ChangingFields, ChangingLeft
  <2>4. /\ joined'[g][u] <= 1
        /\ \A v \in Users \ {u} : joined'[g][v] = joined[g][v]
    <3>1. u \in Users /\ joined[g][u] \in Nat /\ joined[g][u] <= 1
      BY <1>1, <1>5 DEF OneRow, StateTyped
    <3>2. joined'[g][u] = IF account[u] = r.copy.org /\ (r.op = "add" => joined[g][u] = 0)
                          THEN joined[g][u] + 1 ELSE joined[g][u]
      BY <1>4, <2>1, <3>1 DEF StateTyped
    <3>3. \A v \in Users \ {u} : joined'[g][v] = joined[g][v]
      BY <1>4, <2>1, <3>1 DEF StateTyped
    <3>4. r.op = "add" \/ joined[g][u] = 0
      BY <1>5, <2>2 DEF Coming
    <3>. QED
      BY <3>1, <3>2, <3>3, <3>4
  <2>5. /\ OneRow(g)' /\ InGroup(g)' \subseteq r.copy.members \cup r.leave
        /\ r.last = "keep" => group'[g] = r.copy
    <3>1. OneRow(g)'
      BY <1>5, <2>4 DEF OneRow
    <3>2. InGroup(g)' \subseteq InGroup(g) \cup {u}
      BY <2>4 DEF InGroup
    <3>3. /\ InGroup(g) \subseteq r.copy.members \cup r.leave
          /\ r.enter \subseteq r.copy.members
          /\ r.last = "keep" => group[g] = r.copy
      BY <1>5, <2>2 DEF Coming
    <3>. QED
      BY <2>1, <2>2, <3>1, <3>2, <3>3
  <2>6. /\ rest \subseteq r.copy.members
        /\ r.op = "rows" => \A v \in rest : joined'[g][v] = 0
    BY <1>1, <1>5, <2>2, <2>4 DEF Coming
  <2>. HIDE DEF next, rest, r, h
  <2>. QED
    BY <1>1, <1>4, <1>6, <2>2, <2>3, <2>5, <2>6 DEF Goes
<1>10. CASE Maps
  <2>1. PICK next : /\ req' = [req EXCEPT ![p] = next]
                    /\ next.op \in MappingOps /\ SameGroup(r, next)
    BY <1>10, MappingOnwards
  <2>2. UNCHANGED <<group, joined>> /\ r.op # "saveGroup"
    BY <1>10, MappingOnwards
  <2>3. /\ OneRow(g)' /\ InGroup(g)' \subseteq r.copy.members \cup r.leave
        /\ r.last = "keep" => group'[g] = r.copy
    BY <1>5, <2>2 DEF OneRow, InGroup, Coming
  <2>4. /\ next.op \in ChangingOps /\ next.op \notin {"saveGroup", "rows", "add"}
        /\ next.about = g /\ next.copy = r.copy /\ next.leave = r.leave
        /\ next.last = r.last
    BY <1>4, <2>1 DEF SameGroup, ChangingOps, MappingOps
  <2>. HIDE DEF r, h
  <2>. QED
    BY <1>6, <2>1, <2>3, <2>4
<1>11. CASE Finish(p)
  <2>1. /\ UNCHANGED joined /\ req' = [req EXCEPT ![p] = Idle]
        /\ r.op # "saveGroup" /\ r.leave = {}
    BY <1>11 DEF Finish, Ends, Goes
  <2>2. \/ r.last = "keep" /\ group' = group
        \/ r.last = "save" /\ group' = [group EXCEPT ![h] = r.copy]
        \/ r.last = "delete" /\ group' = [group EXCEPT ![h] = Absent]
    <3>1. r.last = "keep" \/ r.last = "save" \/ r.last = "delete"
      BY <1>1
    <3>. QED
      BY <1>11, <3>1 DEF Finish
  <2>3. /\ InGroup(g) \subseteq r.copy.members
        /\ r.last = "keep" => group[g] = r.copy
        /\ r.last = "delete" => r.copy.members = {}
    BY <1>5, <2>1 DEF Coming
  <2>4. OneRow(g)' /\ InGroup(g)' = InGroup(g)
    BY <1>5, <2>1 DEF OneRow, InGroup
  <2>5. \/ group'[g] = r.copy
        \/ group'[g] = Absent /\ r.copy.members = {}
    <3>. HIDE DEF r
    <3>. QED
      BY <1>4, <2>2, <2>3 DEF StateTyped
  <2>6. InGroup(g)' \subseteq RosterOf(g)'
    BY <1>1, <2>3, <2>4, <2>5 DEF RosterOf
  <2>. QED
    BY <1>5, <2>1, <2>4, <2>6, FitsEnds
<1>. QED
  BY <1>7, <1>8, <1>9, <1>10, <1>11

LEMMA InitFits == Init => RosterInv
  BY DEF Init, RosterInv, RosterFits, OneRow, About, InGroup, Idle, ChangingOps, MappingOps

LEMMA NextFits ==
  ASSUME StateTyped, RosterInv, [Next]_vars
  PROVE  RosterInv'
<1>1. CASE UNCHANGED vars
  BY <1>1 DEF vars, RosterInv, RosterFits, OneRow, RosterOf, Coming, About, InGroup
<1>2. CASE Next
  <2>. PICK p \in Handlers :
         BeginMembers(p) \/ BeginOrg(p) \/ BeginGroup(p) \/ Step(p) \/ Abort(p)
    BY <1>2, Zenon DEF Next
  <2>. QED
    BY BeginFits, AbortFits, MemberStepFits, GroupStepFits DEF Step
<1>. QED
  BY <1>1, <1>2

\* Who has the rights of a group is on its roster, once, when no two requests
\* about the group overlapped and none failed, whatever other requests did.
THEOREM RosterCoversHolds == Spec => []RosterCovers
<1>1. RosterInv => RosterCovers
  BY DEF RosterInv, RosterFits, RosterCovers, RosterOf, OneRow, Busy, About
<1>2. TInv => StateTyped
  BY DEF TInv
<1>. QED
  BY <1>1, <1>2, InitHolds, NextHolds, InitFits, NextFits, PTL DEF Spec

-----------------------------------------------------------------------------
(* The rows of an account.                                                 *)

MemberOps ==
  {"saveAccount", "insertRow", "deleteRow", "saveRow", "insertAccount", "makeAdmin"}

\* Whose account or row a request with one of these steps next will change.
UserOf(r) == IF r.op = "makeAdmin" THEN r.row.user ELSE r.about

RowOps == {"saveRow", "deleteRow", "makeAdmin"}

HoldsRow(p) == req[p].op \in RowOps

\* A request about a user changes that user only: no identity of a row that it
\* holds a copy of is, or will be, that of a row of another user.
CopiesInv ==
  \A p \in Handlers :
    /\ req[p].op \in MemberOps \ {"saveRow", "makeAdmin"} => req[p].user = req[p].about
    /\ HoldsRow(p) =>
         /\ req[p].row.user = UserOf(req[p])
         /\ \A row \in rows : row.id = req[p].row.id => row.user = UserOf(req[p])
         /\ \A q \in Handlers : HoldsRow(q) /\ req[q].row.id = req[p].row.id =>
              UserOf(req[q]) = UserOf(req[p])

RowLess(u) == \A row \in rows : row.user # u

\* The rows of u are what an account in o is to have.
Match(u, o) ==
  /\ \A row \in rows : row.user = u => row.org = o
  /\ \A row, other \in rows : row.user = u /\ other.user = u => row.id = other.id
  /\ o \in Orgs => ~RowLess(u)

Of(p, u) == req[p].op \in MemberOps /\ UserOf(req[p]) = u

\* What a request about u still has to do, for the rows to match the account.
Moving(r, u) ==
  /\ r.op = "saveAccount" => Match(u, r.org)
  /\ r.op = "insertRow" => RowLess(u) /\ (r.then \/ account[u] = r.org)
  /\ r.op = "deleteRow" => account[u] = r.org
  /\ r.op \in {"saveRow", "makeAdmin"} => Match(u, r.row.org) /\ account[u] = r.row.org
  /\ r.op \in RowOps =>
       \A row \in rows : row.user = u => row.id = r.row.id
  /\ r.op = "insertAccount" => RowLess(u) /\ account[u] = Absent

AccountFits(u) ==
  /\ \A p, q \in Handlers : Of(p, u) /\ Of(q, u) => p = q
  /\ (\A p \in Handlers : ~Of(p, u)) => Match(u, account[u])
  /\ \A p \in Handlers : Of(p, u) => Moving(req[p], u)

AccountsInv == \A u \in Users \ (dirty \cup Super) : AccountFits(u)

\* A step of a request about others leaves the user alone.
LEMMA AccountAside ==
  ASSUME StateTyped, NEW p \in Handlers, NEW r, NEW u \in Users, AccountFits(u),
         ~Of(p, u), req' = [req EXCEPT ![p] = r],
         ~(r.op \in MemberOps /\ UserOf(r) = u), account'[u] = account[u],
         \A row \in rows' : row.user = u =>
           \E old \in rows : old.user = u /\ old.id = row.id /\ old.org = row.org,
         \A row \in rows : row.user = u =>
           \E new \in rows' : new.user = u /\ new.id = row.id /\ new.org = row.org
  PROVE  AccountFits(u)'
<1>1. /\ req'[p] = r
      /\ \A q \in Handlers \ {p} : req'[q] = req[q]
  BY DEF StateTyped
<1>2. \A q \in Handlers : /\ Of(q, u)' <=> Of(q, u)
                          /\ Of(q, u) => req'[q] = req[q]
  BY <1>1 DEF Of
<1>3. /\ RowLess(u)' <=> RowLess(u)
      /\ \A o : Match(u, o) => Match(u, o)'
      /\ \A i : (\A row \in rows : row.user = u => row.id = i)
                  => \A row \in rows' : row.user = u => row.id = i
  BY DEF RowLess, Match
<1>4. ASSUME NEW q \in Handlers, Of(q, u) PROVE Moving(req[q], u)'
  BY <1>2, <1>3, <1>4 DEF AccountFits, Moving
<1>. QED
  BY <1>2, <1>3, <1>4 DEF AccountFits

LEMMA AccountOnwards ==
  ASSUME StateTyped, NEW p \in Handlers, NEW r, NEW u \in Users,
         req' = [req EXCEPT ![p] = r], r.op \in MemberOps, UserOf(r) = u,
         \A q \in Handlers \ {p} : ~Of(q, u), Moving(req[p], u)'
  PROVE  AccountFits(u)'
<1>1. /\ req'[p] = r
      /\ \A q \in Handlers \ {p} : req'[q] = req[q]
  BY DEF StateTyped
<1>2. Of(p, u)' /\ \A q \in Handlers : Of(q, u)' => q = p
  BY <1>1 DEF Of
<1>. QED
  BY <1>2 DEF AccountFits

LEMMA AccountEnds ==
  ASSUME StateTyped, NEW p \in Handlers, NEW r, NEW u \in Users,
         req' = [req EXCEPT ![p] = r], r.op \notin MemberOps,
         \A q \in Handlers \ {p} : ~Of(q, u), Match(u, account[u])'
  PROVE  AccountFits(u)'
<1>1. /\ req'[p] = r
      /\ \A q \in Handlers \ {p} : req'[q] = req[q]
  BY DEF StateTyped
<1>2. \A q \in Handlers : ~Of(q, u)'
  BY <1>1 DEF Of
<1>. QED
  BY <1>2 DEF AccountFits

\* How a request comes to change a member.
MemberBegins(p, v, r) ==
  /\ req[p].op \notin MemberOps /\ req' = [req EXCEPT ![p] = r]
  /\ r.op \in MemberOps /\ UserOf(r) = v
  /\ r.op \notin {"saveRow", "makeAdmin"} => r.user = r.about
  /\ r.op \in RowOps =>
       r.row.user = v /\ \E row \in rows : row.id = r.row.id /\ row.user = v
  /\ dirty \subseteq dirty'
  /\ v \in dirty' \/ (~Busy(v) /\ (v \in Super \/ (Match(v, account[v]) => Moving(r, v))))
  /\ UNCHANGED <<account, rows>>

LEMMA MembersBeginFit ==
  ASSUME StateTyped, NEW p \in Handlers, BeginMembers(p)
  PROVE  \E v \in Users, r \in Requests : MemberBegins(p, v, r)
<1>. PICK u \in Users :
       \/ UpdateAccount(p, u)
       \/ \E o \in Orgs :
            \/ CreateOrg(p, o, u) \/ RemoveMember(p, o, u) \/ DeleteScimUser(p, o, u)
            \/ UpdateScimUser(p, o, u) \/ CreateScimUser(p, o, u)
            \/ Login(p, o, u) \/ LoginMoves(p, o, u)
            \/ \E role \in Roles : AddMember(p, o, u, role) \/ ChangeRole(p, o, u, role)
  BY Zenon DEF BeginMembers
<1> DEFINE Goal == \E v \in Users, r \in Requests : MemberBegins(p, v, r)
<1>1. ASSUME NEW r \in Requests, Begin(p, u, r), UNCHANGED <<account, rows>>,
             r.op \in MemberOps \ {"makeAdmin"}, r.about = u, r.op # "saveRow" => r.user = u,
             r.op \in RowOps =>
               r.row.user = u /\ \E row \in rows : row.id = r.row.id /\ row.user = u,
             u \in Super \/ (Match(u, account[u]) => Moving(r, u))
      PROVE  Goal
  <2>1. MemberBegins(p, u, r)
    BY <1>1 DEF MemberBegins, Begin, UserOf, Idle, MemberOps
  <2>. QED
    BY <2>1
<1>2. ASSUME NEW o \in Orgs \cup {None}, Begin(p, u, Saving(u, o)),
             UNCHANGED <<account, rows>>, Match(u, account[u]) => Match(u, o)
      PROVE  Goal
  <2> DEFINE r == Saving(u, o)
  <2>1. r \in Requests /\ Begin(p, u, r)
    BY <1>2, Follows
  <2>2. r.op = "saveAccount" /\ r.about = u /\ r.user = u /\ r.org = o
    BY DEF Saving
  <2>. HIDE DEF r, Goal
  <2>. QED
    BY <1>1, <1>2, <2>1, <2>2 DEF Moving, MemberOps, RowOps
<1>3. ASSUME NEW o \in Orgs, NEW role \in Roles, NEW then \in BOOLEAN,
             Begin(p, u, Inserting(u, o, role, then)), UNCHANGED <<account, rows>>,
             u \in Super \/ (Match(u, account[u]) => RowLess(u) /\ then)
      PROVE  Goal
  <2> DEFINE r == Inserting(u, o, role, then)
  <2>1. r \in Requests /\ Begin(p, u, r)
    BY <1>3, Follows
  <2>2. r.op = "insertRow" /\ r.about = u /\ r.user = u /\ r.then = then
    BY DEF Inserting
  <2>. HIDE DEF r, Goal
  <2>. QED
    BY <1>1, <1>3, <2>1, <2>2 DEF Moving, MemberOps, RowOps
<1>4. ASSUME NEW o \in Orgs, Begin(p, u, Creating(u, o)), UNCHANGED <<account, rows>>,
             account[u] = Absent
      PROVE  Goal
  <2> DEFINE r == Creating(u, o)
  <2>1. r \in Requests /\ Begin(p, u, r)
    BY <1>4, Follows
  <2>2. r.op = "insertAccount" /\ r.about = u /\ r.user = u
    BY DEF Creating
  <2>3. Match(u, account[u]) => RowLess(u)
    BY <1>4, DirectoryAssumption DEF Match, RowLess, StateTyped, Rows
  <2>. HIDE DEF r, Goal
  <2>. QED
    BY <1>1, <1>4, <2>1, <2>2, <2>3 DEF Moving, MemberOps, RowOps
<1>5. ASSUME NEW o \in Orgs, NEW row \in RowsOf(o, u), NEW b \in BOOLEAN,
             Deleting(p, o, u, row, b), NoDirectoryChange
      PROVE  Goal
  <2> DEFINE r == [op |-> "deleteRow", about |-> u, user |-> u, org |-> o, row |-> row,
                   scim |-> b]
  <2>1. r \in Requests
    BY RowTyped DEF Requests
  <2>2. r.op = "deleteRow" /\ r.about = u /\ r.user = u /\ r.org = o /\ r.row = row
    OBVIOUS
  <2>3. Begin(p, u, r) /\ UNCHANGED <<account, rows>>
    BY <1>5 DEF Deleting, NoDirectoryChange
  <2>. HIDE DEF r, Goal
  <2>4. row \in rows /\ row.org = o /\ row.user = u
    BY RowTyped
  <2>5. Match(u, account[u]) => Moving(r, u)
    BY <2>2, <2>4 DEF Moving, Match, RowOps
  <2>. QED
    BY <1>1, <2>1, <2>2, <2>3, <2>4, <2>5 DEF MemberOps, RowOps
<1>6. CASE UpdateAccount(p, u)
  <2>1. /\ Begin(p, u, Saving(u, account[u])) /\ UNCHANGED <<account, rows>>
        /\ account[u] \in Orgs \cup {None}
    BY <1>6 DEF UpdateAccount, StateTyped, NoDirectoryChange
  <2>. QED
    BY <1>2, <2>1
<1>7. ASSUME NEW o \in Orgs, CreateOrg(p, o, u) PROVE Goal
  BY <1>3, <1>7 DEF CreateOrg, Roles
<1>8. ASSUME NEW o \in Orgs, RemoveMember(p, o, u) PROVE Goal
  BY <1>5, <1>8 DEF RemoveMember
<1>9. ASSUME NEW o \in Orgs, DeleteScimUser(p, o, u) PROVE Goal
  <2>1. CASE RowsOf(o, u) = {} /\ Begin(p, u, Saving(u, None))
    <3>1. Match(u, account[u]) => Match(u, None)
      BY <1>9, <2>1 DEF DeleteScimUser, Match, RowLess, RowsOf
    <3>. QED
      BY <1>2, <1>9, <2>1, <3>1 DEF DeleteScimUser, NoDirectoryChange
  <2>. QED
    BY <1>5, <1>9, <2>1 DEF DeleteScimUser
<1>10. ASSUME NEW o \in Orgs, UpdateScimUser(p, o, u) PROVE Goal
  BY <1>6, <1>10 DEF UpdateScimUser
<1>11. ASSUME NEW o \in Orgs, CreateScimUser(p, o, u) PROVE Goal
  BY <1>4, <1>11 DEF CreateScimUser, NoDirectoryChange
<1>12. ASSUME NEW o \in Orgs, Login(p, o, u) PROVE Goal
  BY <1>2, <1>4, <1>12 DEF Login, NoDirectoryChange
<1>13. ASSUME NEW o \in Orgs, LoginMoves(p, o, u) PROVE Goal
  <2> DEFINE r == Saving(u, o)
  <2>1. r \in Requests /\ r.op = "saveAccount" /\ r.about = u /\ r.user = u
    BY Follows DEF Saving
  <2>2. MemberBegins(p, u, r)
    BY <1>13, <2>1 DEF LoginMoves, MemberBegins, NoDirectoryChange, MemberOps, RowOps,
                        UserOf, Idle
  <2>. QED
    BY <2>1, <2>2
<1>14. ASSUME NEW o \in Orgs, NEW role \in Roles, AddMember(p, o, u, role) PROVE Goal
  <2>1. /\ Begin(p, u, Inserting(u, o, role, u \notin Super)) /\ UNCHANGED <<account, rows>>
        /\ RowsOf(o, u) = {} /\ (u \in Super \/ account[u] \in {None, o})
    BY <1>14 DEF AddMember, NoDirectoryChange
  <2>2. u \in Super \/ (Match(u, account[u]) => RowLess(u) /\ u \notin Super)
    BY <2>1, DirectoryAssumption DEF Match, RowLess, RowsOf, StateTyped, Rows
  <2> DEFINE then == u \notin Super
  <2>3. then \in BOOLEAN
    OBVIOUS
  <2>. QED
    BY <1>3, <2>1, <2>2, <2>3
<1>15. ASSUME NEW o \in Orgs, NEW role \in Roles, ChangeRole(p, o, u, role) PROVE Goal
  <2>1. PICK row \in RowsOf(o, u) :
          Begin(p, u, [op |-> "saveRow", about |-> u, row |-> [row EXCEPT !.role = role]])
    BY <1>15 DEF ChangeRole
  <2> DEFINE copy == [row EXCEPT !.role = role]
             r == [op |-> "saveRow", about |-> u, row |-> copy]
  <2>2. row \in rows /\ row.org = o /\ row.user = u /\ row \in Rows
    BY RowTyped
  <2>3. copy \in Rows /\ copy.id = row.id /\ copy.org = o /\ copy.user = u
    BY <2>2 DEF Rows
  <2>4. Begin(p, u, r) /\ UNCHANGED <<account, rows>>
    BY <1>15, <2>1 DEF ChangeRole, NoDirectoryChange
  <2>. HIDE DEF copy
  <2>5. r \in Requests /\ r.op = "saveRow" /\ r.about = u /\ r.row = copy
    BY <2>3 DEF Requests
  <2>. HIDE DEF r, Goal
  <2>6. Match(u, account[u]) => Moving(r, u)
    BY <2>2, <2>3, <2>5 DEF Moving, Match, RowOps
  <2>. QED
    BY <1>1, <2>2, <2>3, <2>4, <2>5, <2>6 DEF MemberOps, RowOps
<1>. QED
  BY <1>6, <1>7, <1>8, <1>9, <1>10, <1>11, <1>12, <1>13, <1>14, <1>15

\* Requests about organizations and groups begin with no copy of a row.
LEMMA OthersBegin ==
  ASSUME StateTyped, NEW p \in Handlers, BeginOrg(p) \/ BeginGroup(p)
  PROVE  /\ req[p] = Idle /\ dirty \subseteq dirty' /\ UNCHANGED <<account, rows>>
         /\ \E r : req' = [req EXCEPT ![p] = r] /\ r.op \notin MemberOps
<1>1. UNCHANGED <<account, rows>>
  BY OrgBegins, GroupBegins DEF Begins
<1>2. CASE BeginOrg(p)
  BY <1>1, <1>2 DEF BeginOrg, GenerateScimToken, RevokeScimToken, UpdateSSOConfig,
                    Configuring, UpdateOrg, Begin, MemberOps, Idle
<1>3. CASE BeginGroup(p)
  BY <1>1, <1>3, GroupBeginsFit DEF ChangingOps, MappingOps, MemberOps
<1>. QED
  BY <1>2, <1>3

\* A request that holds no copy of a row makes no row of another user of one.
LEMMA CopiesKept ==
  ASSUME StateTyped, CopiesInv, NEW p \in Handlers, NEW r,
         req' = [req EXCEPT ![p] = r], r.op \notin RowOps,
         r.op \in MemberOps => r.user = r.about,
         \A row \in rows' :
           \/ \E old \in rows : old.id = row.id /\ old.user = row.user
           \/ \A q \in Handlers : HoldsRow(q) => req[q].row.id # row.id
           \/ HoldsRow(p) /\ row = req[p].row
  PROVE  CopiesInv'
<1>1. /\ req'[p] = r
      /\ \A q \in Handlers \ {p} : req'[q] = req[q]
  BY DEF StateTyped
<1>2. \A q \in Handlers : HoldsRow(q)' => HoldsRow(q) /\ q # p /\ req'[q] = req[q]
  BY <1>1 DEF HoldsRow
<1>3. ASSUME NEW q \in Handlers, HoldsRow(q)', NEW row \in rows', row.id = req'[q].row.id
      PROVE  row.user = UserOf(req'[q])
  BY <1>2, <1>3 DEF CopiesInv
<1>. QED
  BY <1>1, <1>2, <1>3 DEF CopiesInv

LEMMA CopiesBegin ==
  ASSUME StateTyped, CopiesInv, NEW p \in Handlers, NEW v \in Users, NEW r \in Requests,
         MemberBegins(p, v, r)
  PROVE  CopiesInv'
<1>1. /\ req'[p] = r
      /\ \A q \in Handlers \ {p} : req'[q] = req[q]
      /\ rows' = rows
  BY DEF StateTyped, MemberBegins
<1>2. \A q \in Handlers : HoldsRow(q)' <=> IF q = p THEN r.op \in RowOps ELSE HoldsRow(q)
  BY <1>1 DEF HoldsRow
<1>3. r.op \in RowOps =>
        /\ r.row.user = v /\ UserOf(r) = v
        /\ \A row \in rows : row.id = r.row.id => row.user = v
        /\ \A q \in Handlers : HoldsRow(q) /\ req[q].row.id = r.row.id => UserOf(req[q]) = v
  BY DEF MemberBegins, CopiesInv, StateTyped
<1>. QED
  BY <1>1, <1>2, <1>3 DEF CopiesInv, MemberBegins

\* A request comes to change a member.
LEMMA MemberBeginsFits ==
  ASSUME StateTyped, CopiesInv, AccountsInv, NEW p \in Handlers,
         NEW v \in Users, NEW r \in Requests, MemberBegins(p, v, r)
  PROVE  CopiesInv' /\ AccountsInv'
<1>1. ASSUME NEW u \in Users \ Super, u \notin dirty' PROVE AccountFits(u)'
  <2>1. AccountFits(u) /\ ~Of(p, u)
    BY <1>1 DEF MemberBegins, AccountsInv, Of
  <2>2. CASE u # v
    BY <2>1, <2>2, AccountAside DEF MemberBegins
  <2>3. CASE u = v
    <3>1. \A q \in Handlers : ~Of(q, u)
      BY <1>1, <2>3 DEF MemberBegins, Busy, Of, UserOf
    <3>2. Moving(r, u)
      BY <1>1, <2>1, <2>3, <3>1 DEF MemberBegins, AccountFits
    <3>3. req'[p] = r /\ UNCHANGED <<account, rows>>
      BY DEF MemberBegins, StateTyped
    <3>4. Moving(req[p], u)'
      BY <3>2, <3>3 DEF Moving, Match, RowLess
    <3>. QED
      BY <2>3, <3>1, <3>4, AccountOnwards DEF MemberBegins
  <2>. QED
    BY <2>2, <2>3
<1>. QED
  BY <1>1, CopiesBegin DEF AccountsInv

\* A step changes no account and no row, and comes to change no member.
LEMMA QuietAccounts ==
  ASSUME StateTyped, CopiesInv, AccountsInv, NEW p \in Handlers, NEW r,
         req' = [req EXCEPT ![p] = r], r.op \notin MemberOps, req[p].op \notin MemberOps,
         dirty \subseteq dirty', UNCHANGED <<account, rows>>
  PROVE  CopiesInv' /\ AccountsInv'
<1>1. ASSUME NEW u \in Users \ Super, u \notin dirty' PROVE AccountFits(u)'
  <2>1. AccountFits(u) /\ ~Of(p, u)
    BY <1>1 DEF AccountsInv, Of
  <2>. QED
    BY <2>1, AccountAside
<1>2. CopiesInv'
  BY CopiesKept DEF MemberOps, RowOps
<1>. QED
  BY <1>1, <1>2 DEF AccountsInv

LEMMA BeginAccounts ==
  ASSUME StateTyped, CopiesInv, AccountsInv, NEW p \in Handlers,
         BeginMembers(p) \/ BeginOrg(p) \/ BeginGroup(p)
  PROVE  CopiesInv' /\ AccountsInv'
<1>1. CASE BeginMembers(p)
  BY <1>1, MembersBeginFit, MemberBeginsFits
<1>2. CASE BeginOrg(p) \/ BeginGroup(p)
  <2>1. Idle.op \notin MemberOps
    BY DEF Idle, MemberOps
  <2>. QED
    BY <1>2, <2>1, OthersBegin, QuietAccounts
<1>. QED
  BY <1>1, <1>2

\* A request dies; one that was about to promote a user has changed no row.
LEMMA AbortAccounts ==
  ASSUME StateTyped, CopiesInv, AccountsInv, NEW p \in Handlers, Abort(p)
  PROVE  CopiesInv' /\ AccountsInv'
<1>1. /\ Idle.op \notin MemberOps /\ req' = [req EXCEPT ![p] = Idle]
      /\ UNCHANGED <<account, rows>>
  BY DEF Idle, MemberOps, Abort
<1>2. ASSUME NEW u \in Users \ Super, u \notin dirty' PROVE AccountFits(u)'
  <2>1. AccountFits(u) /\ (Of(p, u) => req[p].op = "makeAdmin")
    BY <1>2 DEF Abort, AccountsInv, Of, UserOf
  <2>2. CASE ~Of(p, u)
    BY <1>1, <2>1, <2>2, AccountAside
  <2>3. CASE Of(p, u)
    <3>1. Match(u, account[u]) /\ \A q \in Handlers \ {p} : ~Of(q, u)
      BY <2>1, <2>3 DEF AccountFits, Moving
    <3>2. Match(u, account[u])'
      BY <1>1, <3>1 DEF Match, RowLess
    <3>. QED
      BY <1>1, <3>1, <3>2, AccountEnds
  <2>. QED
    BY <2>2, <2>3
<1>3. CopiesInv'
  BY <1>1, CopiesKept DEF MemberOps, RowOps
<1>. QED
  BY <1>2, <1>3 DEF AccountsInv

\* A request on a group finds the row of a member, who is to be an admin.
LEMMA FindRowBegins ==
  ASSUME StateTyped, NEW p \in Handlers, FindRow(p)
  PROVE  \/ \E rest : /\ req' = [req EXCEPT ![p] = [req[p] EXCEPT !.enter = rest]]
                       /\ dirty' = dirty
         \/ \E v \in Users, r \in Requests : MemberBegins(p, v, r)
<1> DEFINE r == req[p]
<1>1. /\ r \in Requests /\ r.op \in ChangingOps /\ r.op = "promote"
      /\ UNCHANGED <<account, rows>>
  BY DEF FindRow, NoDirectoryChange, ChangingOps, MappingOps, StateTyped
<1>2. /\ r.enter \subseteq Users /\ r.copy.org \in Orgs
  BY <1>1, Shapes DEF GroupRecord
<1>3. PICK u \in r.enter :
        \/ Goes(p, [r EXCEPT !.enter = r.enter \ {u}])
        \/ \E row \in RowsOf(r.copy.org, u) :
             /\ req' = [req EXCEPT ![p] =
                          [r EXCEPT !.op = "makeAdmin", !.enter = r.enter \ {u},
                                    !.row = [row EXCEPT !.role = "admin"]]]
             /\ dirty' = IF Busy(u) THEN dirty \cup {u} ELSE dirty
  BY DEF FindRow
<1>4. CASE Goes(p, [r EXCEPT !.enter = r.enter \ {u}])
  BY <1>4 DEF Goes
<1>5. ASSUME NEW row \in RowsOf(r.copy.org, u),
             req' = [req EXCEPT ![p] =
                      [r EXCEPT !.op = "makeAdmin", !.enter = r.enter \ {u},
                                !.row = [row EXCEPT !.role = "admin"]]],
             dirty' = IF Busy(u) THEN dirty \cup {u} ELSE dirty
      PROVE  \E v \in Users, next \in Requests : MemberBegins(p, v, next)
  <2> DEFINE rest == r.enter \ {u}
             copy == [row EXCEPT !.role = "admin"]
             next == [r EXCEPT !.op = "makeAdmin", !.enter = rest, !.row = copy]
  <2>1. /\ row \in rows /\ row.org = r.copy.org /\ row.user = u /\ row \in Rows /\ u \in Users
    BY <1>2, RowTyped
  <2>2. copy \in Rows /\ copy.id = row.id /\ copy.org = row.org /\ copy.user = u
    BY <2>1 DEF Rows, Roles
  <2>3. rest \in SUBSET Users
    BY <1>2
  <2>4. req' = [req EXCEPT ![p] = next]
    BY <1>5
  <2>. HIDE DEF rest, copy, r
  <2>5. /\ next \in Requests /\ next.op = "makeAdmin" /\ next.row = copy
    <3>1. next \in Requests
      BY <1>1, <2>2, <2>3, MappingGoesOn
    <3>2. next.op = "makeAdmin" /\ next.row = copy
      BY <1>1, MappingFields
    <3>. QED
      BY <3>1, <3>2
  <2>. HIDE DEF next
  <2>6. Match(u, account[u]) => Moving(next, u)
    BY <2>1, <2>2, <2>5 DEF Moving, Match, RowOps
  <2>7. req[p].op \notin MemberOps
    BY <1>1 DEF MemberOps, r
  <2>8. UserOf(next) = u /\ next.op \in MemberOps
    BY <2>2, <2>5 DEF UserOf, MemberOps
  <2>9. MemberBegins(p, u, next)
    BY <1>1, <1>5, <2>1, <2>2, <2>4, <2>5, <2>6, <2>7, <2>8 DEF MemberBegins
  <2>. QED
    BY <2>1, <2>5, <2>9
<1>. QED
  BY <1>3, <1>4, <1>5

\* A step of a request on an organization, or on a group but for the promotion of
\* a user, changes no row.
LEMMA GroupStepAccounts ==
  ASSUME StateTyped, CopiesInv, AccountsInv, NEW p \in Handlers,
         \/ SaveOrg(p) \/ SaveConfig(p) \/ SaveGroup(p) \/ LeaveGroup(p) \/ JoinGroup(p)
         \/ ReadSetting(p) \/ FindGroup(p) \/ ReadRows(p) \/ FindRow(p) \/ Finish(p)
  PROVE  CopiesInv' /\ AccountsInv'
<1> DEFINE r == req[p]
<1>1. /\ UNCHANGED <<account, rows>> /\ r.op \notin MemberOps /\ Idle.op \notin MemberOps
  BY DEF SaveOrg, SaveConfig, SaveGroup, LeaveGroup, JoinGroup, ReadSetting, FindGroup,
         ReadRows, FindRow, Finish, NoDirectoryChange, MemberOps, Idle
<1>2. ASSUME NEW next, req' = [req EXCEPT ![p] = next], next.op \notin MemberOps,
             dirty' = dirty
      PROVE  CopiesInv' /\ AccountsInv'
  BY <1>1, <1>2, QuietAccounts
<1>3. ASSUME NEW next, Goes(p, next), next.op \notin MemberOps
      PROVE  CopiesInv' /\ AccountsInv'
  BY <1>2, <1>3 DEF Goes
<1>4. r \in Requests
  BY DEF StateTyped
<1>5. r.op \in ChangingOps =>
        /\ \A x : [r EXCEPT !.leave = x].op = r.op
        /\ \A x : [r EXCEPT !.enter = x].op = r.op
        /\ \A op : [r EXCEPT !.op = op].op = op
        /\ \A x, y : [r EXCEPT !.op = "rows", !.leave = x, !.enter = y].op = "rows"
        /\ \A x : [r EXCEPT !.op = "readRows", !.found = x].op = "readRows"
        /\ \A x : [r EXCEPT !.op = "promote", !.enter = x, !.found = None].op = "promote"
  <2>. HIDE DEF r
  <2>. QED
    BY <1>4, ChangingFields, MappingFields
<1>6. "rows" \notin MemberOps /\ "promote" \notin MemberOps
      /\ "findGroup" \notin MemberOps /\ "readRows" \notin MemberOps
  BY DEF MemberOps
<1>7. CASE SaveOrg(p) \/ SaveConfig(p) \/ Finish(p)
  BY <1>1, <1>3, <1>7 DEF SaveOrg, SaveConfig, Finish, Ends
<1>8. CASE SaveGroup(p)
  <2> DEFINE next == [r EXCEPT !.op = "rows", !.leave = InGroup(r.about) \ r.copy.members,
                               !.enter = r.copy.members \ InGroup(r.about)]
  <2>1. Goes(p, next) /\ r.op \in ChangingOps
    BY <1>8 DEF SaveGroup, ChangingOps
  <2>2. next.op = "rows"
    BY <1>5, <2>1
  <2>. HIDE DEF next
  <2>. QED
    BY <1>3, <1>6, <2>1, <2>2
<1>9. CASE LeaveGroup(p)
  <2>1. r.op \in ChangingOps /\ \E u : Goes(p, [r EXCEPT !.leave = r.leave \ {u}])
    BY <1>9 DEF LeaveGroup, ChangingOps
  <2>2. PICK rest : Goes(p, [r EXCEPT !.leave = rest])
    BY <2>1
  <2>. HIDE DEF r
  <2>. QED
    BY <1>1, <1>3, <1>5, <2>1, <2>2
<1>10. CASE JoinGroup(p)
  <2>1. r.op \in ChangingOps /\ \E u : Goes(p, [r EXCEPT !.enter = r.enter \ {u}])
    BY <1>10 DEF JoinGroup, ChangingOps
  <2>2. PICK rest : Goes(p, [r EXCEPT !.enter = rest])
    BY <2>1
  <2>. HIDE DEF r
  <2>. QED
    BY <1>1, <1>3, <1>5, <2>1, <2>2
<1>11. CASE ReadSetting(p)
  <2>1. /\ r.op \in ChangingOps
        /\ \E op \in {"findGroup", "promote"} : Goes(p, [r EXCEPT !.op = op])
    BY <1>11 DEF ReadSetting, ChangingOps
  <2>2. PICK op \in {"findGroup", "promote"} : Goes(p, [r EXCEPT !.op = op])
    BY <2>1
  <2>. HIDE DEF r
  <2>3. [r EXCEPT !.op = op].op = op
    BY <1>5, <2>1
  <2>. QED
    BY <1>3, <1>6, <2>2, <2>3
<1>12. CASE FindGroup(p)
  <2>1. /\ r.op \in ChangingOps
        /\ \/ Goes(p, [r EXCEPT !.op = "promote"])
           \/ \E g : Goes(p, [r EXCEPT !.op = "readRows", !.found = g])
    BY <1>12 DEF FindGroup, ChangingOps, MappingOps
  <2>. HIDE DEF r
  <2>2. /\ [r EXCEPT !.op = "promote"].op = "promote"
        /\ \A g : [r EXCEPT !.op = "readRows", !.found = g].op = "readRows"
    BY <1>5, <2>1
  <2>3. CASE Goes(p, [r EXCEPT !.op = "promote"])
    <3> DEFINE next == [r EXCEPT !.op = "promote"]
    <3>1. Goes(p, next) /\ next.op = "promote"
      BY <2>2, <2>3
    <3>. HIDE DEF next
    <3>. QED
      BY <1>3, <1>6, <3>1
  <2>4. ASSUME NEW g, Goes(p, [r EXCEPT !.op = "readRows", !.found = g])
        PROVE  CopiesInv' /\ AccountsInv'
    <3> DEFINE next == [r EXCEPT !.op = "readRows", !.found = g]
    <3>1. Goes(p, next) /\ next.op = "readRows"
      BY <2>2, <2>4
    <3>. HIDE DEF next
    <3>. QED
      BY <1>3, <1>6, <3>1
  <2>. QED
    BY <2>1, <2>3, <2>4
<1>13. CASE ReadRows(p)
  <2>1. /\ r.op \in ChangingOps
        /\ \E x : Goes(p, [r EXCEPT !.op = "promote", !.enter = x, !.found = None])
    BY <1>13 DEF ReadRows, ChangingOps, MappingOps
  <2>2. PICK x : Goes(p, [r EXCEPT !.op = "promote", !.enter = x, !.found = None])
    BY <2>1
  <2> DEFINE next == [r EXCEPT !.op = "promote", !.enter = x, !.found = None]
  <2>3. Goes(p, next)
    BY <2>2
  <2>. HIDE DEF r
  <2>4. next.op = "promote"
    BY <1>5, <2>1
  <2>. HIDE DEF next
  <2>. QED
    BY <1>3, <1>6, <2>3, <2>4
<1>14. CASE FindRow(p)
  <2>1. ASSUME NEW rest, req' = [req EXCEPT ![p] = [r EXCEPT !.enter = rest]],
               dirty' = dirty
        PROVE  CopiesInv' /\ AccountsInv'
    <3>1. r.op \in ChangingOps
      BY <1>14 DEF FindRow, ChangingOps, MappingOps
    <3> DEFINE next == [r EXCEPT !.enter = rest]
    <3>2. req' = [req EXCEPT ![p] = next]
      BY <2>1
    <3>3. r.op \notin MemberOps
      BY <1>1
    <3>. HIDE DEF r
    <3>4. next.op = r.op
      BY <1>5, <3>1
    <3>. HIDE DEF next
    <3>. QED
      BY <1>2, <2>1, <3>2, <3>3, <3>4
  <2>. QED
    BY <1>14, <2>1, FindRowBegins, MemberBeginsFits
<1>. QED
  BY <1>7, <1>8, <1>9, <1>10, <1>11, <1>12, <1>13, <1>14

\* A request that has promoted a user looks for the next.
LEMMA Promoted ==
  ASSUME StateTyped, NEW p \in Handlers, MakeAdmin(p)
  PROVE  \E next : Goes(p, next) /\ next.op = "promote"
<1> DEFINE r == req[p]
           next == [r EXCEPT !.op = "promote", !.row = None]
<1>1. /\ r \in Requests /\ r.op \in ChangingOps /\ Goes(p, next)
  BY DEF MakeAdmin, StateTyped, ChangingOps, MappingOps
<1>. HIDE DEF r
<1>2. next.op = "promote"
  BY <1>1, MappingFields
<1>. QED
  BY <1>1, <1>2

LEMMA MemberStepCopies ==
  ASSUME StateTyped, CopiesInv, NEW p \in Handlers,
         \/ InsertRow(p) \/ SaveAccount(p) \/ DeleteRow(p) \/ SaveRow(p) \/ InsertAccount(p)
         \/ MakeAdmin(p)
  PROVE  CopiesInv'
<1> DEFINE Light(next) == /\ next.op \notin RowOps
                          /\ next.op \in MemberOps => next.user = next.about
<1>1. \E next : req' = [req EXCEPT ![p] = next] /\ Light(next)
  <2>1. /\ Light(Idle)
        /\ \A u, o : Light(Saving(u, o))
        /\ \A u, o, role, then : Light(Inserting(u, o, role, then))
    BY DEF Idle, Saving, Inserting, MemberOps, RowOps
  <2> DEFINE r == req[p]
             Goal == \E next : req' = [req EXCEPT ![p] = next] /\ Light(next)
  <2>. HIDE DEF Light
  <2>2. ASSUME NEW next, Goes(p, next), Light(next) PROVE Goal
    BY <2>2 DEF Goes
  <2>. SUFFICES Goal
    OBVIOUS
  <2>. HIDE DEF Goal
  <2>3. CASE InsertRow(p)
    <3>1. Goes(p, Saving(r.user, r.org)) \/ Goes(p, Idle)
      BY <2>3 DEF InsertRow
    <3>. QED
      BY <2>1, <2>2, <3>1
  <2>4. CASE SaveAccount(p) \/ SaveRow(p)
    BY <2>1, <2>2, <2>4 DEF SaveAccount, SaveRow, Ends
  <2>5. CASE DeleteRow(p)
    <3>1. Goes(p, Saving(r.user, None)) \/ Goes(p, Idle)
      BY <2>5 DEF DeleteRow
    <3>. QED
      BY <2>1, <2>2, <3>1
  <2>6. CASE InsertAccount(p)
    <3>1. Goes(p, Inserting(r.user, r.org, "member", FALSE))
      BY <2>6 DEF InsertAccount
    <3>. QED
      BY <2>1, <2>2, <3>1
  <2>7. CASE MakeAdmin(p)
    <3>1. PICK next : Goes(p, next) /\ next.op = "promote"
      BY <2>7, Promoted
    <3>2. Light(next)
      BY <3>1 DEF Light, MemberOps, RowOps
    <3>. QED
      BY <2>2, <3>1, <3>2
  <2>. QED
    BY <2>3, <2>4, <2>5, <2>6, <2>7
<1>2. ASSUME NEW row \in rows'
      PROVE  \/ \E old \in rows : old.id = row.id /\ old.user = row.user
             \/ \A q \in Handlers : HoldsRow(q) => req[q].row.id # row.id
             \/ HoldsRow(p) /\ row = req[p].row
  <2>1. CASE row \in rows
    BY <2>1
  <2>2. CASE InsertRow(p) /\ row \notin rows
    <3>1. row = [id |-> FreshId, org |-> req[p].org, user |-> req[p].user, role |-> req[p].role]
      BY <2>2 DEF InsertRow
    <3>2. row.id = FreshId
      BY <3>1
    <3>. QED
      BY <3>2, FreshIdIsFresh DEF HoldsRow, RowOps
  <2>3. CASE (SaveRow(p) \/ MakeAdmin(p)) /\ row \notin rows
    BY <2>3 DEF SaveRow, MakeAdmin, HoldsRow, RowOps
  <2>4. CASE SaveAccount(p) \/ DeleteRow(p) \/ InsertAccount(p)
    BY <2>1, <2>4 DEF SaveAccount, DeleteRow, InsertAccount
  <2>. QED
    BY <2>1, <2>2, <2>3, <2>4
<1>3. PICK next : req' = [req EXCEPT ![p] = next] /\ Light(next)
  BY <1>1
<1>. QED
  BY <1>2, <1>3, CopiesKept

LEMMA MemberStepAccounts ==
  ASSUME StateTyped, CopiesInv, AccountsInv, NEW p \in Handlers,
         \/ InsertRow(p) \/ SaveAccount(p) \/ DeleteRow(p) \/ SaveRow(p) \/ InsertAccount(p)
         \/ MakeAdmin(p)
  PROVE  AccountsInv'
<1> DEFINE r == req[p]
           v == UserOf(req[p])
<1>1. /\ r \in Requests /\ r.op \in MemberOps /\ dirty' = dirty
      /\ r.op \notin {"saveRow", "makeAdmin"} => r.user = v
      /\ r.op \in RowOps =>
           /\ r.row \in Rows /\ r.row.user = v
           /\ \A row \in rows : row.id = r.row.id => row.user = v
  <2>1. r \in Requests /\ r.op \in MemberOps /\ dirty' = dirty
    BY DEF InsertRow, SaveAccount, DeleteRow, SaveRow, InsertAccount, MakeAdmin, Ends,
           Goes, MemberOps, StateTyped
  <2>2. r.op \in RowOps => r.row \in Rows
    BY <2>1, Shapes DEF RowOps
  <2>. QED
    BY <2>1, <2>2 DEF CopiesInv, HoldsRow, UserOf
<1>2. /\ Idle.op \notin MemberOps
      /\ \A u, o : /\ Saving(u, o).op = "saveAccount" /\ UserOf(Saving(u, o)) = u
                   /\ Saving(u, o).user = u /\ Saving(u, o).org = o
      /\ \A u, o, role, then :
           /\ Inserting(u, o, role, then).op = "insertRow"
           /\ UserOf(Inserting(u, o, role, then)) = u
           /\ Inserting(u, o, role, then).org = o
  BY DEF Idle, Saving, Inserting, MemberOps, UserOf
\* Other accounts and their rows are left alone.
<1>3. ASSUME NEW u \in Users \ Super, u \notin dirty, u # v PROVE AccountFits(u)'
  <2>1. AccountFits(u) /\ ~Of(p, u)
    BY <1>3 DEF AccountsInv, Of
  <2>2. account'[u] = account[u]
    BY <1>1, <1>3 DEF InsertRow, SaveAccount, DeleteRow, SaveRow, InsertAccount, MakeAdmin,
                      StateTyped
  <2>3. \A row : row.user = u => (row \in rows' <=> row \in rows)
    <3>1. CASE InsertRow(p)
      <4> DEFINE new == [id |-> FreshId, org |-> r.org, user |-> r.user, role |-> r.role]
      <4>1. rows' = rows \cup {new} /\ new.user # u
        BY <1>1, <1>3, <3>1 DEF InsertRow
      <4>. HIDE DEF new
      <4>. QED
        BY <4>1
    <3>2. CASE DeleteRow(p)
      BY <1>1, <1>3, <3>2 DEF DeleteRow, RowOps
    <3>3. CASE SaveRow(p) \/ MakeAdmin(p)
      BY <1>1, <1>3, <3>3 DEF SaveRow, MakeAdmin, RowOps
    <3>4. CASE SaveAccount(p) \/ InsertAccount(p)
      BY <3>4 DEF SaveAccount, InsertAccount
    <3>. QED
      BY <3>1, <3>2, <3>3, <3>4
  <2> DEFINE Other(next) == ~(next.op \in MemberOps /\ UserOf(next) = u)
             Goal == \E next : req' = [req EXCEPT ![p] = next] /\ Other(next)
  <2>4. /\ Other(Idle)
        /\ \A o : Other(Saving(v, o))
        /\ \A o, role, then : Other(Inserting(v, o, role, then))
    BY <1>2, <1>3
  <2>. HIDE DEF Other
  <2>5. ASSUME NEW next, Goes(p, next), Other(next) PROVE Goal
    BY <2>5 DEF Goes
  <2>. HIDE DEF Goal
  <2>6. ASSUME InsertRow(p) PROVE Goal
    <3>1. Goes(p, Saving(v, r.org)) \/ Goes(p, Idle)
      BY <1>1, <2>6 DEF InsertRow
    <3>. QED
      BY <2>5, <2>4, <3>1
  <2>7. ASSUME SaveAccount(p) \/ SaveRow(p) PROVE Goal
    BY <2>4, <2>5, <2>7 DEF SaveAccount, SaveRow, Ends
  <2>8. ASSUME DeleteRow(p) PROVE Goal
    <3>1. Goes(p, Saving(v, None)) \/ Goes(p, Idle)
      BY <1>1, <2>8 DEF DeleteRow
    <3>. QED
      BY <2>5, <2>4, <3>1
  <2>9. ASSUME InsertAccount(p) PROVE Goal
    <3>1. Goes(p, Inserting(v, r.org, "member", FALSE))
      BY <1>1, <2>9 DEF InsertAccount
    <3>. QED
      BY <2>5, <2>4, <3>1
  <2>10. ASSUME MakeAdmin(p) PROVE Goal
    <3>1. PICK next : Goes(p, next) /\ next.op = "promote"
      BY <2>10, Promoted
    <3>2. Other(next)
      BY <3>1 DEF Other, MemberOps
    <3>. QED
      BY <2>5, <3>1, <3>2
  <2>11. Goal
    BY <2>6, <2>7, <2>8, <2>9, <2>10
  <2>12. PICK next : req' = [req EXCEPT ![p] = next]
                     /\ ~(next.op \in MemberOps /\ UserOf(next) = u)
    BY <2>11 DEF Goal, Other
  <2>. QED
    BY <2>1, <2>2, <2>3, <2>12, AccountAside
<1>4. SUFFICES ASSUME NEW u \in Users \ Super, u \notin dirty, u = v PROVE AccountFits(u)'
  BY <1>1, <1>3 DEF AccountsInv
<1>5. /\ Of(p, u) /\ Moving(r, u)
      /\ \A q \in Handlers \ {p} : ~Of(q, u)
  BY <1>1, <1>4 DEF AccountsInv, AccountFits, Of
<1>6. ASSUME NEW next, Goes(p, next), next.op \in MemberOps, UserOf(next) = u,
             Moving(next, u)'
      PROVE  AccountFits(u)'
  <2>1. req' = [req EXCEPT ![p] = next] /\ req'[p] = next
    BY <1>6 DEF Goes, StateTyped
  <2>2. Moving(req[p], u)'
    BY <1>6, <2>1 DEF Moving
  <2>. QED
    BY <1>5, <1>6, <2>1, <2>2, AccountOnwards
<1>7. ASSUME NEW next, Goes(p, next), next.op \notin MemberOps, Match(u, account[u])'
      PROVE  AccountFits(u)'
  <2>1. req' = [req EXCEPT ![p] = next]
    BY <1>7 DEF Goes
  <2>. QED
    BY <1>5, <1>7, <2>1, AccountEnds
\* The account is saved next.
<1>8. ASSUME NEW o, Goes(p, Saving(u, o)), Match(u, o)' PROVE AccountFits(u)'
  <2> DEFINE next == Saving(u, o)
  <2>1. next.op = "saveAccount" /\ UserOf(next) = u /\ next.org = o
    BY <1>2
  <2>2. Goes(p, next)
    BY <1>8
  <2>. HIDE DEF next
  <2>3. Moving(next, u)'
    BY <1>8, <2>1 DEF Moving, RowOps
  <2>. QED
    BY <1>6, <2>1, <2>2, <2>3 DEF MemberOps
<1>9. CASE InsertRow(p)
  <2> DEFINE new == [id |-> FreshId, org |-> r.org, user |-> r.user, role |-> r.role]
  <2>1. /\ rows' = rows \cup {new} /\ account' = account
        /\ Goes(p, IF r.then THEN Saving(u, r.org) ELSE Idle)
        /\ r.op = "insertRow"
    BY <1>1, <1>4, <1>9 DEF InsertRow
  <2>2. new.user = u /\ new.org = r.org
    BY <1>1, <1>4, <2>1
  <2>3. RowLess(u) /\ (r.then \/ account[u] = r.org)
    BY <1>5, <2>1 DEF Moving
  <2>4. ASSUME NEW o, o = r.org PROVE Match(u, o)'
    <3>. HIDE DEF new, r, v
    <3>1. \A row \in rows' : row.user = u <=> row = new
      BY <2>1, <2>2, <2>3 DEF RowLess
    <3>2. new \in rows' /\ new.org = o
      BY <2>1, <2>2, <2>4
    <3>. QED
      BY <3>1, <3>2 DEF Match, RowLess
  <2>. HIDE DEF new, r, v
  <2>5. CASE r.then
    BY <1>8, <2>1, <2>4, <2>5
  <2>6. CASE ~r.then
    <3>1. Match(u, account[u])'
      BY <2>1, <2>3, <2>4, <2>6 DEF Match
    <3>. QED
      BY <1>2, <1>7, <2>1, <2>6, <3>1
  <2>. QED
    BY <2>5, <2>6
<1>10. CASE SaveAccount(p)
  <2>1. /\ rows' = rows /\ account'[u] = r.org /\ Goes(p, Idle) /\ r.op = "saveAccount"
    BY <1>1, <1>4, <1>10 DEF SaveAccount, Ends, StateTyped
  <2>2. Match(u, r.org)
    BY <1>5, <2>1 DEF Moving
  <2>. HIDE DEF r, v
  <2>3. Match(u, account[u])'
    BY <2>1, <2>2 DEF Match, RowLess
  <2>. QED
    BY <1>2, <1>7, <2>1, <2>3
<1>11. CASE DeleteRow(p)
  <2>1. /\ rows' = {row \in rows : row.id # r.row.id}
        /\ Goes(p, IF r.scim \/ account[u] = r.org THEN Saving(u, None) ELSE Idle)
        /\ r.op = "deleteRow"
    BY <1>1, <1>4, <1>11 DEF DeleteRow
  <2>2. /\ account[u] = r.org
        /\ \A row \in rows : row.user = u => row.id = r.row.id
    BY <1>5, <2>1 DEF Moving, RowOps
  <2>3. Match(u, None)'
    BY <2>1, <2>2, DirectoryAssumption DEF Match
  <2>. QED
    BY <1>8, <2>1, <2>2, <2>3
<1>12. CASE SaveRow(p) \/ MakeAdmin(p)
  <2>1. /\ rows' = {row \in rows : row.id # r.row.id} \cup {r.row}
        /\ account' = account /\ r.op \in {"saveRow", "makeAdmin"}
    BY <1>12 DEF SaveRow, MakeAdmin
  <2>2. PICK next : Goes(p, next) /\ next.op \notin MemberOps
    <3>1. CASE SaveRow(p)
      BY <1>2, <3>1 DEF SaveRow, Ends
    <3>2. CASE MakeAdmin(p)
      BY <3>2, Promoted DEF MemberOps
    <3>. QED
      BY <1>12, <3>1, <3>2
  <2>3. /\ account[u] = r.row.org
        /\ \A row \in rows : row.user = u => row.id = r.row.id
        /\ r.row.user = u
    BY <1>1, <1>4, <1>5, <2>1 DEF Moving, RowOps
  <2>. HIDE DEF r, v
  <2>4. \A row \in rows' : row.user = u => row = r.row
    BY <2>1, <2>3
  <2>5. r.row \in rows'
    BY <2>1
  <2>6. Match(u, account[u])'
    BY <2>1, <2>3, <2>4, <2>5 DEF Match, RowLess
  <2>. QED
    BY <1>7, <2>2, <2>6
<1>13. CASE InsertAccount(p)
  <2>1. r.op = "insertAccount" /\ rows' = rows
    BY <1>13 DEF InsertAccount
  <2>2. RowLess(u) /\ account[u] = Absent
    BY <1>5, <2>1 DEF Moving
  <2>3. /\ account'[u] = r.org
        /\ Goes(p, Inserting(u, r.org, "member", FALSE))
    BY <1>1, <1>4, <1>13, <2>1, <2>2 DEF InsertAccount, StateTyped
  <2>4. ASSUME NEW o, o = r.org PROVE AccountFits(u)'
    <3> DEFINE next == Inserting(u, o, "member", FALSE)
    <3>1. next.op = "insertRow" /\ UserOf(next) = u /\ next.org = o
      BY DEF Inserting, UserOf
    <3>2. Goes(p, next)
      BY <2>3, <2>4
    <3>. HIDE DEF next, r, v
    <3>3. Moving(next, u)'
      BY <2>1, <2>2, <2>3, <2>4, <3>1 DEF Moving, RowLess, RowOps
    <3>. QED
      BY <1>6, <3>1, <3>2, <3>3 DEF MemberOps
  <2>. QED
    BY <2>4
<1>. QED
  BY <1>9, <1>10, <1>11, <1>12, <1>13

LEMMA InitAccounts == Init => CopiesInv /\ AccountsInv
<1>. SUFFICES ASSUME Init PROVE CopiesInv /\ AccountsInv
  OBVIOUS
<1>1. Idle.op \notin MemberOps /\ \A p \in Handlers : req[p] = Idle
  BY DEF Init, Idle, MemberOps
<1>2. CopiesInv
  BY <1>1 DEF CopiesInv, HoldsRow, MemberOps, RowOps, Idle
<1>3. ASSUME NEW u \in Users PROVE AccountFits(u)
  BY <1>1, DirectoryAssumption DEF Init, AccountFits, Of, Match, RowLess
<1>. QED
  BY <1>2, <1>3 DEF AccountsInv

LEMMA NextAccounts ==
  ASSUME StateTyped, CopiesInv, AccountsInv, [Next]_vars
  PROVE  CopiesInv' /\ AccountsInv'
<1>1. CASE UNCHANGED vars
  BY <1>1 DEF vars, CopiesInv, HoldsRow, AccountsInv, AccountFits, Of, Moving, Match, RowLess
<1>2. CASE Next
  <2>. PICK p \in Handlers :
         BeginMembers(p) \/ BeginOrg(p) \/ BeginGroup(p) \/ Step(p) \/ Abort(p)
    BY <1>2, Zenon DEF Next
  <2>. QED
    BY BeginAccounts, AbortAccounts, GroupStepAccounts, MemberStepCopies,
       MemberStepAccounts DEF Step
<1>. QED
  BY <1>1, <1>2

\* A user has one member row, in the organization of its account, and none
\* elsewhere, when no two requests about the account overlapped, the promotion by
\* an admin group among them, none failed and no login moved it, whatever other
\* requests did.
THEOREM AccountsMatchRowsHolds == Spec => []AccountsMatchRows
<1>1. StateTyped /\ AccountsInv => AccountsMatchRows
  <2>. SUFFICES ASSUME StateTyped, AccountsInv, NEW u \in Users \ (dirty \cup Super), ~Busy(u)
                PROVE  /\ \A row \in rows : row.user = u => row.org = account[u]
                       /\ account[u] \in Orgs => Cardinality(RowsOf(account[u], u)) = 1
    BY DEF AccountsMatchRows
  <2>1. Match(u, account[u])
    BY DEF AccountsInv, AccountFits, Busy, Of, UserOf
  <2>2. ASSUME account[u] \in Orgs PROVE Cardinality(RowsOf(account[u], u)) = 1
    <3>1. PICK row \in rows : row.user = u
      BY <2>1, <2>2 DEF Match, RowLess
    <3>2. RowsOf(account[u], u) = {row}
      BY <2>1, <3>1 DEF Match, RowsOf, StateTyped
    <3>. QED
      BY <3>2, FS_Singleton
  <2>. QED
    BY <2>1, <2>2 DEF Match
<1>2. TInv => StateTyped
  BY DEF TInv
<1>. QED
  BY <1>1, <1>2, InitHolds, NextHolds, InitAccounts, NextAccounts, PTL DEF Spec

==============================================================================
