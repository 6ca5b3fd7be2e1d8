------------------------------ MODULE CollabRoom ------------------------------
(***************************************************************************)
(* Live editing of one document: the WebSocket endpoint (routes/ws.py,     *)
(* ws/handler.py), the rooms of pycrdt-websocket behind it, and the store  *)
(* of CRDT updates (services/crdt_store.py).                               *)
(*                                                                         *)
(* A content is the set of edits it was made of.  A replica takes an edit  *)
(* in only after the earlier edits of its author; until then the edit      *)
(* waits.  Each client is one connection of a user of its own.             *)
(*                                                                         *)
(* A step is the code between two awaits.  Messages of one connection      *)
(* arrive in order and are lost with it.  Left out: cursors and other      *)
(* awareness, messages above 5 MB, and compact(), which nothing calls.     *)
(***************************************************************************)
EXTENDS Naturals, Sequences, FiniteSets

CONSTANTS
  Clients,
  None,
  MaxEdits,    \* bound: edits made
  MaxRooms,    \* bound: rooms opened in one life of the server
  MaxCrashes,  \* bound: restarts of the server
  MaxLeaves,   \* bound: connections that end
  MaxFaults,   \* bound: requests to MongoDB that fail
  MaxGrants    \* bound: changes of permissions

ASSUME CollabAssumption ==
  /\ None \notin Clients
  /\ MaxEdits \in Nat /\ MaxRooms \in Nat \ {0} /\ MaxCrashes \in Nat
  /\ MaxLeaves \in Nat /\ MaxGrants \in Nat /\ MaxFaults \in Nat

VARIABLES
  author,   \* of an edit: the client that made it; edits are numbered
  replica,  \* of a client: the edits it has, those that wait included
  perm,     \* of a client: its user's permission
  conn,     \* of a client: the state of its connection
  up,       \* of a client: messages on the way to the server
  down,     \* of a client: messages on the way to it
  room,     \* the rooms opened since the server started
  current,  \* the room of WebsocketServer.rooms, None if there is none
  writing,  \* writes under way
  stored,   \* MongoDB: crdt_updates
  ended,    \* rooms whose task a failed write ended
  crashes, leaves, grants, faults,  \* history
  unsaved,  \* history: edits of writes that came to nothing
  late      \* history, of a client: demoted before the last interval ran out

trouble == <<ended, unsaved, faults>>

vars == <<author, replica, perm, conn, up, down, room, current, writing, stored,
          crashes, leaves, grants, late, trouble>>

\* The steps of websocket_endpoint: get_room looks for a room, reads the store
\* and installs a room; serve handles messages, or awaits a permission.
Locations == {"off", "lookup", "read", "install", "serve", "recheck"}

Made == DOMAIN author

\* Y.js numbers the edits of a client and applies them in that order.
Integrated(edits) ==
  {e \in edits : \A d \in 1..(e - 1) : author[d] = author[e] /\ d \in Made => d \in edits}

Step1(edits) == [kind |-> "step1", edits |-> edits]
Step2(edits) == [kind |-> "step2", edits |-> edits]
Update(edits) == [kind |-> "update", edits |-> edits]

Serving(c) == conn[c].at \in {"serve", "recheck"}

Inbound(c, kind) == up[c] # <<>> /\ Head(up[c]).kind = kind

-----------------------------------------------------------------------------
(***************************************************************************)
(* Connecting.                                                             *)
(***************************************************************************)
\* The client opens with a summary of what it has.
Connect(c) ==
  /\ conn[c].at = "off" /\ perm[c] # None
  /\ conn' = [conn EXCEPT ![c].at = "lookup", ![c].readOnly = (perm[c] = "view")]
  /\ up' = [up EXCEPT ![c] = <<Step1(replica[c])>>]
  /\ UNCHANGED <<author, replica, perm, down, room, current, writing, stored,
                 crashes, leaves, grants, late, trouble>>

\* serve() joins the room and answers with what the room has; the interval of
\* the permission starts here, though the permission was read before.
Enter(c, r, rooms) ==
  /\ conn' = [conn EXCEPT ![c].at = "serve", ![c].room = r, ![c].fresh = TRUE,
                          ![c].loaded = {}]
  /\ down' = [down EXCEPT ![c] = <<Step1(rooms[r].doc)>>]
  /\ late' = [late EXCEPT ![c] = FALSE]

Lookup(c) ==
  /\ conn[c].at = "lookup"
  /\ \/ current # None /\ Enter(c, current, room)
     \/ /\ current = None
        /\ conn' = [conn EXCEPT ![c].at = "read"]
        /\ UNCHANGED <<down, late>>
  /\ UNCHANGED <<author, replica, perm, up, room, current, writing, stored,
                 crashes, leaves, grants, trouble>>

Stored == UNION {record.edits : record \in stored}

ReadStore(c) ==
  /\ conn[c].at = "read"
  /\ conn' = [conn EXCEPT ![c].at = "install", ![c].loaded = Stored]
  /\ UNCHANGED <<author, replica, perm, up, down, room, current, writing, stored,
                 crashes, leaves, grants, late, trouble>>

Offline == [at |-> "off", room |-> None, readOnly |-> FALSE, fresh |-> FALSE,
            loaded |-> {}]

Cut(c) ==
  /\ conn' = [conn EXCEPT ![c] = Offline]
  /\ up' = [up EXCEPT ![c] = <<>>]
  /\ down' = [down EXCEPT ![c] = <<>>]

\* A failing read of the store, or of the permission, ends the connection: no
\* room is installed, and the message that caused the check is lost.
ReadFailed(c) ==
  /\ conn[c].at \in {"read", "recheck"} /\ faults < MaxFaults
  /\ faults' = faults + 1
  /\ Cut(c)
  /\ UNCHANGED <<author, replica, perm, room, current, writing, stored, ended, crashes,
                 leaves, grants, unsaved, late>>

\* Whatever room was installed meanwhile is replaced; its clients stay in it.
Install(c) ==
  LET doc   == Integrated(conn[c].loaded)
      rooms == Append(room, [doc |-> doc, waiting |-> conn[c].loaded \ doc,
                             users |-> <<>>, updates |-> <<>>])
  IN /\ conn[c].at = "install" /\ Len(room) < MaxRooms
     /\ room' = rooms
     /\ current' = Len(rooms)
     /\ Enter(c, Len(rooms), rooms)
     /\ UNCHANGED <<author, replica, perm, up, writing, stored, crashes, leaves, grants, trouble>>

-----------------------------------------------------------------------------
(***************************************************************************)
(* The server handles a message of c.                                      *)
(***************************************************************************)
\* A room takes in what c sent, and announces what its document gained.
Applied(r, edits) ==
  LET all == r.doc \cup r.waiting \cup edits
      doc == Integrated(all)
  IN [r EXCEPT !.doc = doc, !.waiting = all \ doc,
               !.updates = IF doc = r.doc THEN @
                           ELSE Append(@, [edits |-> doc \ r.doc])]

\* Mutant of Apply: only an update of the running session enqueues its user.
ApplyUnnamed(c) ==
  LET r == conn[c].room
  IN room' = [room EXCEPT ![r] =
                [Applied(room[r], Head(up[c]).edits) EXCEPT
                   !.users = IF Inbound(c, "update") THEN Append(@, c) ELSE @]]

\* enqueue_user, then the room handles the message.
Apply(c) ==
  LET r == conn[c].room
  IN room' = [room EXCEPT ![r] =
                [Applied(room[r], Head(up[c]).edits) EXCEPT !.users = Append(@, c)]]

Handled(c) == up' = [up EXCEPT ![c] = Tail(@)]

\* Mutant of HandleStep1: the client is told of nothing it lacks.
HandleStep1Silent(c) ==
  /\ conn[c].at = "serve" /\ Inbound(c, "step1")
  /\ Handled(c)
  /\ UNCHANGED <<author, replica, perm, conn, down, room, current, writing, stored,
                 crashes, leaves, grants, late, trouble>>

\* The summary of a client is answered with what it lacks.
HandleStep1(c) ==
  /\ conn[c].at = "serve" /\ Inbound(c, "step1")
  /\ Handled(c)
  /\ down' = [down EXCEPT ![c] =
                Append(@, Step2(room[conn[c].room].doc \ Head(up[c]).edits))]
  /\ UNCHANGED <<author, replica, perm, conn, room, current, writing, stored,
                 crashes, leaves, grants, late, trouble>>

\* What the server lacked is applied, whatever the client's permission.
HandleStep2(c) ==
  /\ conn[c].at = "serve" /\ Inbound(c, "step2")
  /\ Handled(c)
  /\ Apply(c)
  /\ UNCHANGED <<author, replica, perm, conn, down, current, writing, stored,
                 crashes, leaves, grants, late, trouble>>

TakeOrDrop(c, readOnly) ==
  /\ Handled(c)
  /\ IF readOnly THEN UNCHANGED room ELSE Apply(c)

\* An update within the interval is judged by the permission read last.
HandleUpdate(c) ==
  /\ conn[c].at = "serve" /\ Inbound(c, "update") /\ conn[c].fresh
  /\ TakeOrDrop(c, conn[c].readOnly)
  /\ UNCHANGED <<author, replica, perm, conn, down, current, writing, stored,
                 crashes, leaves, grants, late, trouble>>

\* After it the permission is read again: the interval restarts before.
StartRecheck(c) ==
  /\ conn[c].at = "serve" /\ Inbound(c, "update") /\ ~conn[c].fresh
  /\ conn' = [conn EXCEPT ![c].at = "recheck", ![c].fresh = TRUE]
  /\ UNCHANGED <<author, replica, perm, up, down, room, current, writing, stored,
                 crashes, leaves, grants, late, trouble>>

\* Mutant of FinishRecheck: the update that caused the check is not forwarded.
FinishRecheckForgets(c) ==
  /\ conn[c].at = "recheck"
  /\ conn' = [conn EXCEPT ![c].at = "serve", ![c].readOnly = (perm[c] # "edit")]
  /\ TakeOrDrop(c, TRUE)
  /\ UNCHANGED <<author, replica, perm, down, current, writing, stored,
                 crashes, leaves, grants, late, trouble>>

\* Mutant of FinishRecheck: only a lost permission is noticed, not a lower one.
FinishRecheckRevoked(c) ==
  /\ conn[c].at = "recheck"
  /\ conn' = [conn EXCEPT ![c].at = "serve", ![c].readOnly = (perm[c] = None)]
  /\ TakeOrDrop(c, perm[c] = None)
  /\ UNCHANGED <<author, replica, perm, down, current, writing, stored,
                 crashes, leaves, grants, late, trouble>>

FinishRecheck(c) ==
  /\ conn[c].at = "recheck"
  /\ conn' = [conn EXCEPT ![c].at = "serve", ![c].readOnly = (perm[c] # "edit")]
  /\ TakeOrDrop(c, perm[c] # "edit")
  /\ UNCHANGED <<author, replica, perm, down, current, writing, stored,
                 crashes, leaves, grants, late, trouble>>

-----------------------------------------------------------------------------
(***************************************************************************)
(* The task of a room: each update goes to every client of the room and,   *)
(* with the next user of the queue, to the store.                          *)
(***************************************************************************)
\* What a write stores: the edits, and the user named for them.
Record(update, user) == [edits |-> update.edits, user |-> user]

\* Mutant of Broadcast: a room nobody is in stores nothing.
BroadcastToPresent(r) ==
  LET update  == Head(room[r].updates)
      present == {c \in Clients : Serving(c) /\ conn[c].room = r}
  IN /\ room[r].updates # <<>> /\ r \notin ended
     /\ room' = [room EXCEPT ![r].updates = Tail(@), ![r].users = Tail(@)]
     /\ down' = [c \in Clients |-> IF c \in present THEN Append(down[c], Update(update.edits))
                                                    ELSE down[c]]
     /\ writing' = IF present = {} THEN writing
                   ELSE writing \cup {Record(update, Head(room[r].users))}
     /\ UNCHANGED <<author, replica, perm, conn, up, current, stored, crashes,
                    leaves, grants, late, trouble>>

Broadcast(r) ==
  LET update  == Head(room[r].updates)
      present == {c \in Clients : Serving(c) /\ conn[c].room = r}
  IN /\ room[r].updates # <<>> /\ r \notin ended
     /\ room' = [room EXCEPT ![r].updates = Tail(@), ![r].users = Tail(@)]
     /\ down' = [c \in Clients |-> IF c \in present THEN Append(down[c], Update(update.edits))
                                                    ELSE down[c]]
     /\ writing' = writing \cup {Record(update, Head(room[r].users))}
     /\ UNCHANGED <<author, replica, perm, conn, up, current, stored, crashes,
                    leaves, grants, late, trouble>>

\* Mutant of Write: a write replaces the record of its user.
WriteReplaces(record) ==
  /\ record \in writing
  /\ writing' = writing \ {record}
  /\ stored' = {other \in stored : other.user # record.user} \cup {record}
  /\ UNCHANGED <<author, replica, perm, conn, up, down, room, current, crashes,
                 leaves, grants, late, trouble>>

Write(record) ==
  /\ record \in writing
  /\ writing' = writing \ {record}
  /\ stored' = stored \cup {record}
  /\ UNCHANGED <<author, replica, perm, conn, up, down, room, current, crashes,
                 leaves, grants, late, trouble>>

\* insert_one fails, and nothing catches it: the update is not stored, and the
\* room's task may end with it, and with it other writes, and other rooms.
WriteFailed(record) ==
  /\ record \in writing /\ faults < MaxFaults
  /\ faults' = faults + 1
  /\ \E others \in SUBSET writing, rooms \in SUBSET DOMAIN room :
       LET failed == others \cup {record}
       IN /\ writing' = writing \ failed
          /\ unsaved' = unsaved \cup UNION {w.edits : w \in failed}
          /\ ended' = ended \cup rooms
  /\ UNCHANGED <<author, replica, perm, conn, up, down, room, current, stored, crashes,
                 leaves, grants, late>>

-----------------------------------------------------------------------------
(***************************************************************************)
(* Clients, permissions, time and the server's life.                       *)
(***************************************************************************)
ClientEdit(c) ==
  LET e == Len(author) + 1
  IN /\ e <= MaxEdits
     /\ author' = Append(author, c)
     /\ replica' = [replica EXCEPT ![c] = @ \cup {e}]
     /\ up' = IF conn[c].at = "off" THEN up
              ELSE [up EXCEPT ![c] = Append(@, Update({e}))]
     /\ UNCHANGED <<perm, conn, down, room, current, writing, stored, crashes,
                    leaves, grants, late, trouble>>

\* The client answers the server's summary with what the server lacks, and
\* takes in everything else.
ClientReceive(c) ==
  LET message == Head(down[c])
  IN /\ down[c] # <<>>
     /\ down' = [down EXCEPT ![c] = Tail(@)]
     /\ IF message.kind = "step1"
        THEN /\ up' = [up EXCEPT ![c] = Append(@, Step2(replica[c] \ message.edits))]
             /\ UNCHANGED replica
        ELSE /\ replica' = [replica EXCEPT ![c] = @ \cup message.edits]
             /\ UNCHANGED up
     /\ UNCHANGED <<author, perm, conn, room, current, writing, stored, crashes,
                    leaves, grants, late, trouble>>

\* The connection breaks; the page keeps what it shows.
Leave(c) ==
  /\ conn[c].at = "serve" /\ leaves < MaxLeaves
  /\ leaves' = leaves + 1
  /\ Cut(c)
  /\ UNCHANGED <<author, replica, perm, room, current, writing, stored, crashes,
                 grants, late, trouble>>

SetPermission(c, p) ==
  /\ p # perm[c] /\ grants < MaxGrants
  /\ grants' = grants + 1
  /\ perm' = [perm EXCEPT ![c] = p]
  /\ late' = [late EXCEPT ![c] = @ /\ p # "edit"]
  /\ UNCHANGED <<author, replica, conn, up, down, room, current, writing, stored,
                 crashes, leaves, trouble>>

\* _PERM_RECHECK_INTERVAL runs out.
Expire(c) ==
  /\ Serving(c) /\ conn[c].fresh
  /\ conn' = [conn EXCEPT ![c].fresh = FALSE]
  /\ late' = [late EXCEPT ![c] = (perm[c] # "edit")]
  /\ UNCHANGED <<author, replica, perm, up, down, room, current, writing, stored,
                 crashes, leaves, grants, trouble>>

\* The rooms are in memory only.
Crash ==
  /\ crashes < MaxCrashes
  /\ crashes' = crashes + 1
  /\ conn' = [c \in Clients |-> Offline]
  /\ up' = [c \in Clients |-> <<>>]
  /\ down' = [c \in Clients |-> <<>>]
  /\ room' = <<>> /\ current' = None /\ writing' = {}
  /\ ended' = {} /\ unsaved' = {}
  /\ UNCHANGED <<author, replica, perm, stored, leaves, grants, faults, late>>

-----------------------------------------------------------------------------
Init ==
  /\ author = <<>>
  /\ replica = [c \in Clients |-> {}]
  /\ perm = [c \in Clients |-> "edit"]
  /\ conn = [c \in Clients |-> Offline]
  /\ up = [c \in Clients |-> <<>>]
  /\ down = [c \in Clients |-> <<>>]
  /\ room = <<>> /\ current = None /\ writing = {} /\ stored = {}
  /\ ended = {} /\ unsaved = {}
  /\ crashes = 0 /\ leaves = 0 /\ grants = 0 /\ faults = 0
  /\ late = [c \in Clients |-> FALSE]

Opening(c) == Lookup(c) \/ ReadStore(c) \/ Install(c)

Handling(c) ==
  \/ HandleStep1(c) \/ HandleStep2(c) \/ HandleUpdate(c)
  \/ StartRecheck(c) \/ FinishRecheck(c)

Next ==
  \/ \E c \in Clients :
       \/ Connect(c) \/ Opening(c) \/ Handling(c) \/ ReadFailed(c)
       \/ ClientEdit(c) \/ ClientReceive(c) \/ Leave(c) \/ Expire(c)
       \/ \E p \in {"edit", "view", None} : SetPermission(c, p)
  \/ \E r \in DOMAIN room : Broadcast(r)
  \/ \E record \in writing : Write(record) \/ WriteFailed(record)
  \/ Crash

Spec == Init /\ [][Next]_vars

\* The event loop runs every coroutine and task that can go on, and what was
\* sent arrives; nobody has to connect, to edit or to leave.
Fairness ==
  /\ \A c \in Clients :
       WF_vars(Opening(c)) /\ WF_vars(Handling(c)) /\ WF_vars(ClientReceive(c))
  /\ WF_vars(\E r \in DOMAIN room : Broadcast(r))
  /\ WF_vars(\E record \in writing : Write(record))

FairSpec == Spec /\ Fairness

-----------------------------------------------------------------------------
(***************************************************************************)
(* Properties.                                                             *)
(***************************************************************************)
Edits == SUBSET (1..MaxEdits)

Message == [kind : {"step1", "step2", "update"}, edits : Edits]

Room == [doc : Edits, waiting : Edits, users : Seq(Clients),
         updates : Seq([edits : Edits])]

Connection == [at : Locations, room : 1..MaxRooms \cup {None}, readOnly : BOOLEAN,
               fresh : BOOLEAN, loaded : Edits]

\* Types; a client that is served is in a room, and a room has a user in the
\* queue for every update it still has to store (crdt_store.py:86-94 would
\* store the update without one).
TypeOK ==
  /\ author \in Seq(Clients) /\ Len(author) <= MaxEdits
  /\ replica \in [Clients -> Edits]
  /\ perm \in [Clients -> {"edit", "view", None}]
  /\ conn \in [Clients -> Connection]
  /\ up \in [Clients -> Seq(Message)]
  /\ down \in [Clients -> Seq(Message)]
  /\ room \in Seq(Room) /\ Len(room) <= MaxRooms
  /\ current \in DOMAIN room \cup {None}
  /\ writing \cup stored \subseteq [edits : Edits, user : Clients]
  /\ ended \subseteq DOMAIN room /\ unsaved \in Edits /\ faults \in 0..MaxFaults
  /\ crashes \in 0..MaxCrashes /\ leaves \in 0..MaxLeaves /\ grants \in 0..MaxGrants
  /\ late \in [Clients -> BOOLEAN]
  /\ \A c \in Clients : Serving(c) => conn[c].room \in DOMAIN room
  /\ \A r \in DOMAIN room : Len(room[r].users) >= Len(room[r].updates)

\* What the service has: in the store, or in the document of a room.
Held == Stored \cup UNION {room[r].doc : r \in DOMAIN room}

Log == INSTANCE UpdateLog
         WITH made <- Made, held <- Held, durable <- Stored, restarts <- crashes

\* The rooms and the store implement the log of updates: no edit appears that
\* nobody made, no stored edit is lost, whatever requests to MongoDB fail, and
\* no edit a room took over is lost but to a restart of the server that finds
\* it unwritten (handler.py:41-76, crdt_store.py:96).
ImplementsLog == Log!Spec

\* A client whose permission to write was gone when its last interval of ten
\* seconds ran out cannot change the document by an update any more
\* (handler.py:95-97).
ReadOnlyEnforced ==
  [][\A c \in Clients :
       late[c] /\ Inbound(c, "update") /\ up'[c] = Tail(up[c]) /\ crashes' = crashes
         => UNCHANGED room]_vars

\* All a room took over gets stored, also when its clients have left, except
\* what a failed write lost; but nothing need be once it ended a room's task.
EventuallyStored == <>[](ended = {} => Held \subseteq Stored \cup unsaved)

\* A client that stays gets all its room has, whatever it missed before, as long
\* as the room's task goes on.
ClientsCatchUp ==
  \A c \in Clients :
    <>[](Serving(c) /\ conn[c].room \notin ended =>
           room[conn[c].room].doc \subseteq replica[c])

\* The edits of a client that stays and keeps its permission reach its room,
\* those it made while it was away included.
EditsArrive ==
  \A c \in Clients :
    <>[](Serving(c) /\ grants = 0 => replica[c] \subseteq room[conn[c].room].doc)

=============================================================================
