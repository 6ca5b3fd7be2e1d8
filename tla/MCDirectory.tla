---- MODULE MCDirectory ----
(***************************************************************************)
(* Instances of Directory for TLC.                                         *)
(***************************************************************************)
EXTENDS Directory, TLC

CONSTANTS root, u1, u2, o1, o2, g1, g2, n1, n2, p1, p2

Symmetry == Permutations(Orgs) \cup Permutations(Groups) \cup Permutations(Names)
            \cup Permutations(Handlers) \cup Permutations(Users \ Super)

\* A super admin has created an organization and generated its SCIM token.
FoundedInit ==
  \E o \in Orgs, founder \in Super :
    /\ account = [u \in Users |-> IF u = founder THEN o
                                  ELSE IF u \in Super THEN None ELSE Absent]
    /\ rows = {[id |-> 1, org |-> o, user |-> founder, role |-> "admin"]}
    /\ orgs = {o}
    /\ adminGroup = [other \in Orgs |-> None]
    /\ scim = [other \in Orgs |-> other = o]
    /\ group = [g \in Groups |-> Absent]
    /\ joined = [g \in Groups |-> [u \in Users |-> 0]]
    /\ req = [p \in Handlers |-> Idle]
    /\ started = 0 /\ shifted = {} /\ dirty = {}
    /\ ever = {<<o, founder>>} /\ granted = {<<o, founder>>}

\* One request has named the admin group as well, and one has provisioned
\* another user; they count as one.
StaffedInit ==
  \E o \in Orgs, founder \in Super, u \in Users \ Super, name \in Names :
    /\ account = [other \in Users |-> IF other \in {founder, u} THEN o
                                      ELSE IF other \in Super THEN None ELSE Absent]
    /\ rows = {[id |-> 1, org |-> o, user |-> founder, role |-> "admin"],
               [id |-> 2, org |-> o, user |-> u, role |-> "member"]}
    /\ orgs = {o}
    /\ adminGroup = [other \in Orgs |-> IF other = o THEN name ELSE None]
    /\ scim = [other \in Orgs |-> other = o]
    /\ group = [g \in Groups |-> Absent]
    /\ joined = [g \in Groups |-> [other \in Users |-> 0]]
    /\ req = [p \in Handlers |-> Idle]
    /\ started = 1 /\ shifted = {} /\ dirty = {}
    /\ ever = {<<o, founder>>, <<o, u>>} /\ granted = {<<o, founder>>}

FoundedSpec == (FoundedInit \/ StaffedInit) /\ [][Next]_vars
====
