------------------------------- MODULE Directory -------------------------------
(***************************************************************************)
(* Organizations, their members and their groups: the REST API             *)
(* (routes/orgs.py, services/org_service.py), provisioning by SCIM         *)
(* (routes/scim.py, services/scim_service.py) and first and later logins   *)
(* by SSO (auth/sso_common.py).                                            *)
(*                                                                         *)
(* Every request reads whole records, changes its copies and saves them    *)
(* whole; other requests run at each await.  A step is a write to MongoDB  *)
(* with the reads that follow it; two writes of one record in a row are    *)
(* one; a row of a group is looked for and written in one step when the    *)
(* group is synchronized.                                                  *)
(*                                                                         *)
(* A user is an account, not its address: the service starts without the   *)
(* indexes of its models (main.py:88), so two requests may create two      *)
(* accounts of one address, and a later lookup finds either.  Of an        *)
(* account only its organization is kept.  A PATCH of a group has one      *)
(* operation.  Names, photos, paging and filters are left out.             *)
(***************************************************************************)
EXTENDS Naturals, FiniteSets

CONSTANTS
  Users,
  Super,       \* settings.super_admin_emails
  Orgs,
  Groups,      \* identities of groups
  Names,       \* names of groups
  Handlers,    \* requests handled at one time
  None,
  Absent,      \* no such account, or no such group
  MaxRequests  \* bound: requests handled in all

\* A Group as it is saved.
GroupRecord == [org : Orgs, name : Names, members : SUBSET Users]

ASSUME DirectoryAssumption ==
  /\ Super \subseteq Users /\ IsFiniteSet(Handlers)
  /\ None \notin Orgs \cup Names \cup {Absent} /\ Absent \notin Orgs \cup GroupRecord
  /\ MaxRequests \in Nat

VARIABLES
  account,     \* of a user: User.org_id, Absent before the account exists
  rows,        \* OrgMembership
  orgs,        \* Organization: those that exist
  adminGroup,  \* of an organization: admin_group_name
  scim,        \* of an organization: its SCIM token is enabled
  group,       \* Group: organization, name and scim_members, or Absent
  joined,      \* GroupMembership: how many rows a group has of a user
  req,         \* of a handler: the request it is in
  started,     \* requests so far
  ever,        \* history: <<o, u>>, the account of u was in o
  granted,     \* history: <<o, u>>, u was made an admin of o
  shifted,     \* history: the organizations whose admin group became another
               \* while a request was about to apply it
  dirty        \* history: what requests overlapped on, or failed for, and the
               \* users a login moved to an organization

vars == <<account, rows, orgs, adminGroup, scim, group, joined, req, started,
          ever, granted, shifted, dirty>>

Roles == {"admin", "member"}

Idle == [op |-> "idle", about |-> None]

RowsOf(o, u) == {row \in rows : row.org = o /\ row.user = u}

\* An identity no row and no copy of one has.
FreshId ==
  CHOOSE n \in 1..(Cardinality(rows) + Cardinality(Handlers) + 1) :
    /\ \A row \in rows : row.id # n
    /\ \A p \in Handlers :
         req[p].op \in {"saveRow", "deleteRow", "makeAdmin"} => req[p].row.id # n

\* Who may manage o: its admins and the super admins.
Managed(o) ==
  /\ o \in orgs
  /\ \/ \E u \in Super : account[u] # Absent
     \/ \E row \in rows : row.org = o /\ row.role = "admin"

InGroup(g) == {u \in Users : joined[g][u] > 0}

-----------------------------------------------------------------------------
(***************************************************************************)
(* A request begins with its checks, goes on step by step, ends, or dies   *)
(* at an await.                                                            *)
(***************************************************************************)
\* A promotion is about the user it has found, too.
Busy(s) ==
  \E p \in Handlers :
    req[p].about = s \/ (req[p].op = "makeAdmin" /\ req[p].row.user = s)

\* A request about s starts with request r.
Begin(p, s, r) ==
  /\ req[p] = Idle /\ started < MaxRequests
  /\ started' = started + 1
  /\ dirty' = IF Busy(s) THEN dirty \cup {s} ELSE dirty
  /\ req' = [req EXCEPT ![p] = r]

Goes(p, r) ==
  /\ req' = [req EXCEPT ![p] = r]
  /\ UNCHANGED <<started, dirty>>

Ends(p) == Goes(p, Idle)

Abort(p) ==
  /\ req[p] # Idle
  /\ req' = [req EXCEPT ![p] = Idle]
  /\ dirty' = dirty \cup {req[p].about}
  /\ UNCHANGED <<account, rows, orgs, adminGroup, scim, group, joined, started>>

\* The requests that still have an account, or a row and then an account, to save.
Saving(u, o) == [op |-> "saveAccount", about |-> u, user |-> u, org |-> o]

Inserting(u, o, role, then) ==
  [op |-> "insertRow", about |-> u, user |-> u, org |-> o, role |-> role, then |-> then]

NoDirectoryChange == UNCHANGED <<account, rows, orgs, adminGroup, scim, group, joined>>

-----------------------------------------------------------------------------
(***************************************************************************)
(* Requests about members.                                                 *)
(***************************************************************************)
\* By a super admin, who becomes the first admin.
CreateOrg(p, o, u) ==
  /\ u \in Super /\ account[u] # Absent /\ o \notin orgs
  /\ Begin(p, u, Inserting(u, o, "admin", TRUE))
  /\ orgs' = orgs \cup {o}
  /\ UNCHANGED <<account, rows, adminGroup, scim, group, joined>>

\* By an admin, for an account that is in no other organization.
AddMember(p, o, u, role) ==
  /\ Managed(o) /\ account[u] # Absent /\ RowsOf(o, u) = {}
  /\ u \in Super \/ account[u] \in {None, o}
  /\ Begin(p, u, Inserting(u, o, role, u \notin Super))
  /\ NoDirectoryChange

InsertRow(p) ==
  LET r == req[p]
  IN /\ r.op = "insertRow"
     /\ rows' = rows \cup {[id |-> FreshId, org |-> r.org, user |-> r.user, role |-> r.role]}
     /\ Goes(p, IF r.then THEN Saving(r.user, r.org) ELSE Idle)
     /\ UNCHANGED <<account, orgs, adminGroup, scim, group, joined>>

SaveAccount(p) ==
  /\ req[p].op = "saveAccount"
  /\ account' = [account EXCEPT ![req[p].user] = req[p].org]
  /\ Ends(p)
  /\ UNCHANGED <<rows, orgs, adminGroup, scim, group, joined>>

\* A row is looked for, then deleted.
Deleting(p, o, u, row, scimUser) ==
  Begin(p, u, [op |-> "deleteRow", about |-> u, user |-> u, org |-> o,
               row |-> row, scim |-> scimUser])

RemoveMember(p, o, u) ==
  /\ Managed(o)
  /\ \E row \in RowsOf(o, u) : Deleting(p, o, u, row, FALSE)
  /\ NoDirectoryChange

\* The account read here is the one cleared at the end.
DeleteScimUser(p, o, u) ==
  /\ scim[o] /\ account[u] = o
  /\ \/ RowsOf(o, u) = {} /\ Begin(p, u, Saving(u, None))
     \/ \E row \in RowsOf(o, u) : Deleting(p, o, u, row, TRUE)
  /\ NoDirectoryChange

\* Mutant of DeleteRow: the account keeps its organization.
DeleteRowOnly(p) ==
  /\ req[p].op = "deleteRow"
  /\ rows' = {row \in rows : row.id # req[p].row.id}
  /\ Ends(p)
  /\ UNCHANGED <<account, orgs, adminGroup, scim, group, joined>>

\* The REST API reads the account only now, and clears it if it is still in o.
DeleteRow(p) ==
  LET r == req[p]
  IN /\ r.op = "deleteRow"
     /\ rows' = {row \in rows : row.id # r.row.id}
     /\ Goes(p, IF r.scim \/ account[r.user] = r.org THEN Saving(r.user, None) ELSE Idle)
     /\ UNCHANGED <<account, orgs, adminGroup, scim, group, joined>>

ChangeRole(p, o, u, role) ==
  /\ Managed(o)
  /\ \E row \in RowsOf(o, u) :
       Begin(p, u, [op |-> "saveRow", about |-> u, row |-> [row EXCEPT !.role = role]])
  /\ NoDirectoryChange

\* Mutant of SaveRow: the change becomes a row of its own.
SaveRowAdds(p) ==
  /\ req[p].op = "saveRow"
  /\ rows' = rows \cup {req[p].row}
  /\ Ends(p)
  /\ UNCHANGED <<account, orgs, adminGroup, scim, group, joined>>

\* Saving a row that was deleted meanwhile inserts it again.
SaveRow(p) ==
  /\ req[p].op = "saveRow"
  /\ rows' = {row \in rows : row.id # req[p].row.id} \cup {req[p].row}
  /\ Ends(p)
  /\ UNCHANGED <<account, orgs, adminGroup, scim, group, joined>>

\* What a user changes of its own account, and what a PUT or PATCH of SCIM
\* changes, is saved with the organization the account had when it was read.
UpdateAccount(p, u) ==
  /\ account[u] # Absent
  /\ Begin(p, u, Saving(u, account[u]))
  /\ NoDirectoryChange

UpdateScimUser(p, o, u) == scim[o] /\ account[u] = o /\ UpdateAccount(p, u)

\* A new account: its identity is nobody else's.
Creating(u, o) == [op |-> "insertAccount", about |-> u, user |-> u, org |-> o]

CreateScimUser(p, o, u) ==
  /\ scim[o] /\ account[u] = Absent /\ ~Busy(u)
  /\ Begin(p, u, Creating(u, o))
  /\ NoDirectoryChange

Login(p, o, u) ==
  /\ o \in orgs
  /\ \/ account[u] = o /\ Begin(p, u, Saving(u, o))
     \/ account[u] = Absent /\ ~Busy(u) /\ Begin(p, u, Creating(u, o))
  /\ NoDirectoryChange

\* An account that exists moves to o and becomes no member of it, and stays a
\* member of the organization it was in.
LoginMoves(p, o, u) ==
  /\ o \in orgs /\ account[u] \in (Orgs \cup {None}) \ {o}
  /\ req[p] = Idle /\ started < MaxRequests /\ started' = started + 1
  /\ req' = [req EXCEPT ![p] = Saving(u, o)]
  /\ dirty' = dirty \cup {u}
  /\ NoDirectoryChange

InsertAccount(p) ==
  LET r == req[p]
  IN /\ r.op = "insertAccount"
     /\ account' = [account EXCEPT ![r.user] = r.org]
     /\ Goes(p, Inserting(r.user, r.org, "member", FALSE))
     /\ UNCHANGED <<rows, orgs, adminGroup, scim, group, joined>>

-----------------------------------------------------------------------------
(***************************************************************************)
(* Requests about an organization.                                         *)
(***************************************************************************)
\* The name given (None is the empty one), or the one read when only other
\* fields change, is saved with the whole organization.
UpdateOrg(p, o, name) ==
  /\ Managed(o)
  /\ Begin(p, o, [op |-> "saveOrg", about |-> o, org |-> o, name |-> name])
  /\ NoDirectoryChange

SaveOrg(p) ==
  /\ req[p].op = "saveOrg"
  /\ adminGroup' = [adminGroup EXCEPT ![req[p].org] = req[p].name]
  /\ Ends(p)
  /\ UNCHANGED <<account, rows, orgs, scim, group, joined>>

Configuring(p, o, enabled) ==
  /\ Managed(o)
  /\ Begin(p, o, [op |-> "saveConfig", about |-> o, org |-> o, scim |-> enabled])
  /\ NoDirectoryChange

GenerateScimToken(p, o) == Configuring(p, o, TRUE)

RevokeScimToken(p, o) == Configuring(p, o, FALSE)

\* The rest of the configuration is saved with the token it was read with.
UpdateSSOConfig(p, o) == Configuring(p, o, scim[o])

SaveConfig(p) ==
  /\ req[p].op = "saveConfig"
  /\ scim' = [scim EXCEPT ![req[p].org] = req[p].scim]
  /\ Ends(p)
  /\ UNCHANGED <<account, rows, orgs, adminGroup, group, joined>>

-----------------------------------------------------------------------------
(***************************************************************************)
(* Requests about groups, by SCIM.  A request holds its copy of the group, *)
(* the users that leave and enter it, how it ends, and what its last read  *)
(* found: a group, or the row of a member.                                 *)
(***************************************************************************)
OfOrg(g, o) == group[g] # Absent /\ group[g].org = o

Changing(op, g, copy, leave, enter, map, last) ==
  [op |-> op, about |-> g, copy |-> copy, leave |-> leave, enter |-> enter,
   map |-> map, last |-> last, found |-> None, row |-> None]

\* _sync_group_members: the copy is saved with the members wanted, then rows
\* are deleted and inserted to match them.
Syncing(g, copy, members, last) ==
  Changing("saveGroup", g, [copy EXCEPT !.members = members], {}, {}, TRUE, last)

CreateGroup(p, o, g, name, members) ==
  LET new == [org |-> o, name |-> name, members |-> {}]
  IN /\ scim[o] /\ group[g] = Absent /\ InGroup(g) = {} /\ ~Busy(g)
     /\ \A other \in Groups : OfOrg(other, o) => group[other].name # name
     /\ Begin(p, g, IF members = {} THEN Changing("saveGroup", g, new, {}, {}, FALSE, "keep")
                    ELSE Syncing(g, new, members, "keep"))
     /\ NoDirectoryChange

ReplaceGroup(p, o, g, name, members) ==
  /\ scim[o] /\ OfOrg(g, o)
  /\ Begin(p, g, Syncing(g, [group[g] EXCEPT !.name = name], members, "keep"))
  /\ NoDirectoryChange

PatchName(p, o, g, name) ==
  /\ scim[o] /\ OfOrg(g, o)
  /\ Begin(p, g, Changing("rows", g, [group[g] EXCEPT !.name = name], {}, {}, FALSE, "save"))
  /\ NoDirectoryChange

PatchMembers(p, o, g, members) ==
  /\ scim[o] /\ OfOrg(g, o)
  /\ Begin(p, g, Syncing(g, group[g], members, "save"))
  /\ NoDirectoryChange

AddToGroup(p, o, g, members) ==
  LET new == members \ group[g].members
  IN /\ scim[o] /\ OfOrg(g, o)
     /\ Begin(p, g, Changing("add", g, [group[g] EXCEPT !.members = @ \cup new],
                             {}, new, TRUE, "save"))
     /\ NoDirectoryChange

RemoveFromGroup(p, o, g, members) ==
  /\ scim[o] /\ OfOrg(g, o)
  /\ Begin(p, g, Changing("rows", g, [group[g] EXCEPT !.members = @ \ members],
                          members \cap InGroup(g), {}, FALSE, "save"))
  /\ NoDirectoryChange

\* All rows of a group go, to clear it or to delete it.
ClearGroup(p, o, g, last) ==
  /\ scim[o] /\ OfOrg(g, o) /\ last \in {"save", "delete"}
  /\ Begin(p, g, Changing("clear", g, [group[g] EXCEPT !.members = {}], InGroup(g), {},
                          FALSE, last))
  /\ NoDirectoryChange

\* Mutant of SaveGroup: nobody leaves a group that is synchronized.
SaveGroupGrowing(p) ==
  LET r == req[p]
  IN /\ r.op = "saveGroup"
     /\ group' = [group EXCEPT ![r.about] = r.copy]
     /\ Goes(p, [r EXCEPT !.op = "rows",
                          !.enter = r.copy.members \ InGroup(r.about)])
     /\ UNCHANGED <<account, rows, orgs, adminGroup, scim, joined>>

SaveGroup(p) ==
  LET r == req[p]
  IN /\ r.op = "saveGroup"
     /\ group' = [group EXCEPT ![r.about] = r.copy]
     /\ Goes(p, [r EXCEPT !.op = "rows",
                          !.leave = InGroup(r.about) \ r.copy.members,
                          !.enter = r.copy.members \ InGroup(r.about)])
     /\ UNCHANGED <<account, rows, orgs, adminGroup, scim, joined>>

\* One row of a user goes; all its rows when the group is cleared.
LeaveGroup(p) ==
  LET r == req[p]
  IN /\ r.op \in {"rows", "clear"}
     /\ \E u \in r.leave :
          /\ joined' = [joined EXCEPT ![r.about][u] =
                           IF r.op = "clear" \/ @ = 0 THEN 0 ELSE @ - 1]
          /\ Goes(p, [r EXCEPT !.leave = @ \ {u}])
     /\ UNCHANGED <<account, rows, orgs, adminGroup, scim, group>>

\* Mutant of JoinGroup: accounts of every organization enter.
JoinGroupAny(p) ==
  LET r == req[p]
  IN /\ r.op \in {"rows", "add"} /\ r.leave = {}
     /\ \E u \in r.enter :
          /\ joined' = [joined EXCEPT ![r.about][u] = IF account[u] # Absent THEN @ + 1 ELSE @]
          /\ Goes(p, [r EXCEPT !.enter = @ \ {u}])
     /\ UNCHANGED <<account, rows, orgs, adminGroup, scim, group>>

\* Only accounts of the organization enter; the others stay in scim_members.
\* A PATCH looks for the row once more, the others have read all rows before.
JoinGroup(p) ==
  LET r == req[p]
  IN /\ r.op \in {"rows", "add"} /\ r.leave = {}
     /\ \E u \in r.enter :
          /\ joined' = [joined EXCEPT ![r.about][u] =
                           IF account[u] = r.copy.org /\ (r.op = "add" => @ = 0)
                           THEN @ + 1 ELSE @]
          /\ Goes(p, [r EXCEPT !.enter = @ \ {u}])
     /\ UNCHANGED <<account, rows, orgs, adminGroup, scim, group>>

\* Mutant of Promotes: any group of the organization makes admins.
PromotesAny(r) == adminGroup[r.copy.org] # None

\* The group whose members are admins.
Promotes(r) == adminGroup[r.copy.org] = r.copy.name

\* _apply_role_mapping: the setting is read, then the group of that name, then
\* its rows, then the row of each member.
ReadSetting(p) ==
  LET r == req[p]
  IN /\ r.op \in {"rows", "add"} /\ r.leave = {} /\ r.enter = {} /\ r.map
     /\ Goes(p, [r EXCEPT !.op = IF Promotes(r) THEN "findGroup" ELSE "promote"])
     /\ NoDirectoryChange

FindGroup(p) ==
  LET r     == req[p]
      named == {g \in Groups : OfOrg(g, r.copy.org) /\ group[g].name = r.copy.name}
  IN /\ r.op = "findGroup"
     /\ \/ named = {} /\ Goes(p, [r EXCEPT !.op = "promote"])
        \/ \E g \in named : Goes(p, [r EXCEPT !.op = "readRows", !.found = g])
     /\ NoDirectoryChange

ReadRows(p) ==
  LET r == req[p]
  IN /\ r.op = "readRows"
     /\ Goes(p, [r EXCEPT !.op = "promote", !.enter = InGroup(r.found), !.found = None])
     /\ NoDirectoryChange

\* A member of the group who is a member of the organization becomes an admin.
FindRow(p) ==
  LET r == req[p]
  IN /\ r.op = "promote"
     /\ \E u \in r.enter :
          \/ /\ \A row \in RowsOf(r.copy.org, u) : row.role = "admin"
             /\ Goes(p, [r EXCEPT !.enter = @ \ {u}])
          \/ \E row \in RowsOf(r.copy.org, u) :
               /\ row.role = "member"
               /\ req' = [req EXCEPT ![p] =
                            [r EXCEPT !.op = "makeAdmin", !.enter = @ \ {u},
                                      !.row = [row EXCEPT !.role = "admin"]]]
               /\ dirty' = IF Busy(u) THEN dirty \cup {u} ELSE dirty
               /\ UNCHANGED started
     /\ NoDirectoryChange

\* Like SaveRow, it brings a row back that was deleted meanwhile.
MakeAdmin(p) ==
  LET r == req[p]
  IN /\ r.op = "makeAdmin"
     /\ rows' = {row \in rows : row.id # r.row.id} \cup {r.row}
     /\ Goes(p, [r EXCEPT !.op = "promote", !.row = None])
     /\ UNCHANGED <<account, orgs, adminGroup, scim, group, joined>>

\* A PATCH saves its copy again, and inserts the group if it was deleted.
Finish(p) ==
  LET r == req[p]
  IN /\ r.op \in {"rows", "add", "clear", "promote"} /\ r.leave = {} /\ r.enter = {}
     /\ r.map => r.op = "promote"
     /\ group' = CASE r.last = "keep"   -> group
                   [] r.last = "save"   -> [group EXCEPT ![r.about] = r.copy]
                   [] r.last = "delete" -> [group EXCEPT ![r.about] = Absent]
     /\ Ends(p)
     /\ UNCHANGED <<account, rows, orgs, adminGroup, scim, joined>>

-----------------------------------------------------------------------------
Init ==
  /\ account \in [Users -> {None, Absent}]
  /\ \A u \in Super : account[u] = None
  /\ rows = {} /\ orgs = {}
  /\ adminGroup = [o \in Orgs |-> None]
  /\ scim = [o \in Orgs |-> FALSE]
  /\ group = [g \in Groups |-> Absent]
  /\ joined = [g \in Groups |-> [u \in Users |-> 0]]
  /\ req = [p \in Handlers |-> Idle]
  /\ started = 0 /\ ever = {} /\ granted = {} /\ shifted = {} /\ dirty = {}

BeginMembers(p) ==
  \E u \in Users :
    \/ UpdateAccount(p, u)
    \/ \E o \in Orgs :
         \/ CreateOrg(p, o, u) \/ RemoveMember(p, o, u) \/ DeleteScimUser(p, o, u)
         \/ UpdateScimUser(p, o, u) \/ CreateScimUser(p, o, u)
         \/ Login(p, o, u) \/ LoginMoves(p, o, u)
         \/ \E role \in Roles : AddMember(p, o, u, role) \/ ChangeRole(p, o, u, role)

BeginOrg(p) ==
  \E o \in Orgs :
    \/ GenerateScimToken(p, o) \/ RevokeScimToken(p, o) \/ UpdateSSOConfig(p, o)
    \/ \E name \in Names \cup {None} : UpdateOrg(p, o, name)

BeginGroup(p) ==
  \E o \in Orgs, g \in Groups :
    \/ \E last \in {"save", "delete"} : ClearGroup(p, o, g, last)
    \/ \E name \in Names : PatchName(p, o, g, name)
    \/ \E members \in SUBSET Users :
         \/ PatchMembers(p, o, g, members)
         \/ AddToGroup(p, o, g, members) \/ RemoveFromGroup(p, o, g, members)
         \/ \E name \in Names :
              CreateGroup(p, o, g, name, members) \/ ReplaceGroup(p, o, g, name, members)

Step(p) ==
  \/ InsertRow(p) \/ SaveAccount(p) \/ DeleteRow(p) \/ SaveRow(p) \/ InsertAccount(p)
  \/ SaveOrg(p) \/ SaveConfig(p) \/ SaveGroup(p) \/ LeaveGroup(p) \/ JoinGroup(p)
  \/ ReadSetting(p) \/ FindGroup(p) \/ ReadRows(p) \/ FindRow(p) \/ MakeAdmin(p)
  \/ Finish(p)

\* The account of u is in o; u is made an admin of o, or is in its admin group.
IsIn(o, u) == account[u] = o

IsAdminGroup(o, g) == OfOrg(g, o) /\ group[g].name = adminGroup[o]

IsGranted(o, u) ==
  \/ \E g \in Groups : IsAdminGroup(o, g) /\ u \in InGroup(g)
  \/ \E p \in Handlers :
       \/ /\ req[p].op = "insertRow" /\ req[p].role = "admin"
          /\ req[p].org = o /\ req[p].user = u
       \/ /\ req[p].op = "saveRow" /\ req[p].row.role = "admin"
          /\ req[p].row.org = o /\ req[p].row.user = u

\* A request has read the setting of o and not yet the rows of the group.
Applying(o) ==
  \E p \in Handlers :
    req[p].op \in {"findGroup", "readRows"} /\ req[p].copy.org = o

\* The setting of o changes, or a group gets or loses the name it has.
Shifts(o) ==
  \/ adminGroup'[o] # adminGroup[o]
  \/ \E g \in Groups : IsAdminGroup(o, g) # IsAdminGroup(o, g)'

Recorded ==
  /\ ever' = ever \cup {pair \in Orgs \X Users : IsIn(pair[1], pair[2])'}
  /\ granted' = granted \cup {pair \in Orgs \X Users : IsGranted(pair[1], pair[2])'}
  /\ shifted' = shifted \cup {o \in Orgs : Applying(o) /\ Shifts(o)}

Next ==
  /\ \E p \in Handlers :
       BeginMembers(p) \/ BeginOrg(p) \/ BeginGroup(p) \/ Step(p) \/ Abort(p)
  /\ Recorded

Spec == Init /\ [][Next]_vars

-----------------------------------------------------------------------------
(***************************************************************************)
(* Properties.                                                             *)
(***************************************************************************)
\* Types; a row has an identity of its own.
TypeOK ==
  /\ account \in [Users -> Orgs \cup {None, Absent}]
  /\ rows \subseteq [id : Nat, org : Orgs, user : Users, role : Roles]
  /\ \A row, other \in rows : row.id = other.id => row = other
  /\ orgs \subseteq Orgs
  /\ adminGroup \in [Orgs -> Names \cup {None}]
  /\ scim \in [Orgs -> BOOLEAN]
  /\ group \in [Groups -> GroupRecord \cup {Absent}]
  /\ joined \in [Groups -> [Users -> Nat]]
  /\ DOMAIN req = Handlers
  /\ started \in 0..MaxRequests
  /\ ever \subseteq Orgs \X Users /\ granted \subseteq Orgs \X Users
  /\ shifted \subseteq Orgs
  /\ dirty \subseteq Users \cup Orgs \cup Groups

\* However requests overlap or fail, a group has only users whose account was
\* in its organization: SCIM of one tenant reaches no user of another
\* (scim_service.py:690-692, 856).
GroupsWithinTenant ==
  \A g \in Groups : group[g] # Absent =>
    \A u \in InGroup(g) : <<group[g].org, u>> \in ever

\* However requests overlap or fail, an admin of an organization was made one
\* by an admin, or was in its admin group while it was that; unless the setting
\* or the name of a group changed between two reads of a request that applied
\* it (scim_service.py:700-723).
NoUngrantedAdmin ==
  \A row \in rows :
    row.role = "admin" /\ row.org \notin shifted => <<row.org, row.user>> \in granted

\* What the identity provider is shown, scim_members, has all users that have
\* the rights of the group, and each has one row, unless requests about the
\* group overlapped or failed (scim_service.py:668-697, 835-945).
RosterCovers ==
  \A g \in Groups \ dirty : ~Busy(g) =>
    /\ InGroup(g) \subseteq (IF group[g] = Absent THEN {} ELSE group[g].members)
    /\ \A u \in Users : joined[g][u] <= 1

\* A user is a member, once, of the organization its account is in and of no
\* other, unless requests about the account overlapped, the promotion by an
\* admin group among them, or failed, or a login moved it
\* (org_service.py:192-275, scim_service.py:203-249, 616-638, 715-723).
AccountsMatchRows ==
  \A u \in Users \ (dirty \cup Super) : ~Busy(u) =>
    /\ \A row \in rows : row.user = u => row.org = account[u]
    /\ account[u] \in Orgs => Cardinality(RowsOf(account[u], u)) = 1

=============================================================================
