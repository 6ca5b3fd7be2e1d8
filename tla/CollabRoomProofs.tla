--------------------------- MODULE CollabRoomProofs ---------------------------
(***************************************************************************)
(* Theorems about CollabRoom, for any number of clients, rooms, edits and  *)
(* restarts: the types, that a permission which is gone stops updates, and *)
(* that rooms and store implement the log of updates.                      *)
(*                                                                         *)
(* The idea of the last: every edit on its way somewhere was made, and the *)
(* document of a room is closed (it has the earlier edits of each author   *)
(* it has an edit of), so that taking in more edits never drops one.       *)
(***************************************************************************)
EXTENDS CollabRoom, TLAPS

USE DEF trouble

\* A permission is read again for a message that waits.
Rechecking == \A c \in Clients : conn[c].at = "recheck" => up[c] # <<>>

TInv == TypeOK /\ Rechecking

-----------------------------------------------------------------------------
(* Types.                                                                  *)

LEMMA HeadTail ==
  ASSUME NEW S, NEW s \in Seq(S), s # <<>>
  PROVE  /\ Head(s) \in S /\ Tail(s) \in Seq(S) /\ Len(Tail(s)) = Len(s) - 1 /\ Len(s) > 0
         /\ Tail(s) # s
<1>1. /\ Head(s) \in S /\ Tail(s) \in Seq(S) /\ Len(Tail(s)) = Len(s) - 1 /\ Len(s) > 0
      /\ Len(s) \in Nat
  OBVIOUS
<1>2. ASSUME Tail(s) = s PROVE FALSE
  <2>1. Len(s) = Len(s) - 1
    BY <1>1, <1>2, Zenon
  <2>. QED
    BY <1>1, <2>1
<1>. QED
  BY <1>1, <1>2

LEMMA AppendTyped ==
  ASSUME NEW S, NEW s \in Seq(S), NEW x \in S
  PROVE  /\ Append(s, x) \in Seq(S) /\ Append(s, x) # <<>> /\ Len(Append(s, x)) = Len(s) + 1
  OBVIOUS

LEMMA AppliedTyped ==
  ASSUME NEW r \in Room, NEW edits \in Edits
  PROVE  /\ Applied(r, edits) \in Room
         /\ Applied(r, edits).users = r.users
         /\ Len(Applied(r, edits).updates) <= Len(r.updates) + 1
<1> DEFINE all == r.doc \cup r.waiting \cup edits
           doc == Integrated(all)
           gain == [edits |-> doc \ r.doc]
<1>1. all \in Edits /\ doc \in Edits /\ all \ doc \in Edits /\ gain \in [edits : Edits]
  BY DEF Room, Edits, Integrated
<1>2. /\ Append(r.updates, gain) \in Seq([edits : Edits])
      /\ Len(Append(r.updates, gain)) = Len(r.updates) + 1 /\ Len(r.updates) \in Nat
  BY <1>1 DEF Room
<1> HIDE DEF all, doc, gain
<1> DEFINE new == IF doc = r.doc THEN r.updates ELSE Append(r.updates, gain)
<1>3. Applied(r, edits) = [r EXCEPT !.doc = doc, !.waiting = all \ doc, !.updates = new]
  BY DEF Applied, all, doc, gain, Room
<1>4. new \in Seq([edits : Edits]) /\ Len(new) <= Len(r.updates) + 1
  <2>1. CASE doc = r.doc
    BY <1>2, <2>1 DEF Room
  <2>2. CASE doc # r.doc
    BY <1>2, <2>2 DEF Room
  <2>. QED
    BY <2>1, <2>2
<1> HIDE DEF new
<1>5. Applied(r, edits) =
        [doc |-> doc, waiting |-> all \ doc, users |-> r.users, updates |-> new]
  BY <1>3 DEF Room
<1>6. r.users \in Seq(Clients)
  BY DEF Room
<1>. QED
  BY <1>1, <1>4, <1>5, <1>6 DEF Room

LEMMA ApplyTyped ==
  ASSUME TypeOK, NEW c \in Clients, Serving(c), up[c] # <<>>, Apply(c)
  PROVE  /\ room' \in Seq(Room) /\ DOMAIN room' = DOMAIN room /\ Len(room') = Len(room)
         /\ \A r \in DOMAIN room' : Len(room'[r].users) >= Len(room'[r].updates)
<1> DEFINE r == conn[c].room
           edits == Head(up[c]).edits
           new == [Applied(room[r], edits) EXCEPT !.users = Append(@, c)]
<1>1. r \in DOMAIN room /\ room[r] \in Room /\ edits \in Edits
      /\ Len(room[r].users) >= Len(room[r].updates)
  <2>1. up[c] \in Seq(Message)
    BY DEF TypeOK
  <2>2. Head(up[c]) \in Message
    BY <2>1, HeadTail
  <2>3. r \in DOMAIN room /\ Len(room[r].users) >= Len(room[r].updates)
    BY DEF TypeOK
  <2>4. room \in Seq(Room)
    BY DEF TypeOK
  <2>. QED
    BY <2>2, <2>3, <2>4 DEF Message
<1>2. new \in Room /\ Len(new.users) >= Len(new.updates)
  <2> DEFINE old == Applied(room[r], edits)
  <2>1. old \in Room /\ old.users = room[r].users /\ Len(old.updates) <= Len(room[r].updates) + 1
    BY <1>1, AppliedTyped
  <2>2. new = [old EXCEPT !.users = Append(old.users, c)]
    OBVIOUS
  <2> HIDE DEF old, new
  <2>3. /\ old.users \in Seq(Clients) /\ Append(old.users, c) \in Seq(Clients)
        /\ Len(Append(old.users, c)) = Len(old.users) + 1
        /\ Len(old.users) \in Nat /\ Len(old.updates) \in Nat /\ Len(room[r].updates) \in Nat
    BY <1>1, <2>1 DEF Room
  <2>4. new \in Room /\ new.users = Append(old.users, c) /\ new.updates = old.updates
    BY <2>1, <2>2, <2>3 DEF Room
  <2>. QED
    BY <1>1, <2>1, <2>3, <2>4
<1>3. room' = [room EXCEPT ![r] = new]
  BY DEF Apply
<1> HIDE DEF r, edits, new
<1>4. room \in Seq(Room)
  BY DEF TypeOK
<1>. QED
  BY <1>1, <1>2, <1>3, <1>4 DEF TypeOK

-----------------------------------------------------------------------------
(* Each step keeps the types.                                              *)

\* The connection of c becomes new; what its messages are, if they change.
LEMMA ConnTyped ==
  ASSUME TInv, NEW c \in Clients, NEW new \in Connection,
         conn' = [conn EXCEPT ![c] = new],
         new.at \in {"serve", "recheck"} => new.room \in DOMAIN room',
         new.at = "recheck" => up'[c] # <<>>,
         \A d \in Clients : d # c => up'[d] = up[d],
         DOMAIN room \subseteq DOMAIN room'
  PROVE  /\ conn' \in [Clients -> Connection]
         /\ \A d \in Clients : Serving(d)' => conn'[d].room \in DOMAIN room'
         /\ Rechecking'
<1>1. /\ conn' \in [Clients -> Connection] /\ conn'[c] = new
      /\ \A d \in Clients : d # c => conn'[d] = conn[d]
  BY DEF TInv, TypeOK
<1>2. \A d \in Clients : Serving(d)' => conn'[d].room \in DOMAIN room'
  BY <1>1 DEF TInv, TypeOK, Serving
<1>3. Rechecking'
  BY <1>1 DEF TInv, Rechecking
<1>. QED
  BY <1>1, <1>2, <1>3

LEMMA EntersTyped ==
  ASSUME TInv, NEW c \in Clients, NEW r, NEW rooms \in Seq(Room), r \in DOMAIN rooms,
         Enter(c, r, rooms), room' = rooms, DOMAIN room \subseteq DOMAIN rooms,
         Len(rooms) <= MaxRooms, up' = up
  PROVE  /\ conn' \in [Clients -> Connection] /\ down' \in [Clients -> Seq(Message)]
         /\ late' \in [Clients -> BOOLEAN]
         /\ \A d \in Clients : Serving(d)' => conn'[d].room \in DOMAIN room'
         /\ Rechecking'
<1> DEFINE new == [conn[c] EXCEPT !.at = "serve", !.room = r, !.fresh = TRUE, !.loaded = {}]
<1>1. conn[c] \in Connection /\ r \in 1..MaxRooms /\ {} \in Edits
  BY CollabAssumption DEF TInv, TypeOK, Edits
<1>2. new \in Connection /\ new.at = "serve" /\ new.room = r
  BY <1>1 DEF Connection, Locations
<1>3. conn' = [conn EXCEPT ![c] = new]
  BY DEF Enter, TInv, TypeOK
<1>4. <<Step1(rooms[r].doc)>> \in Seq(Message)
  <2>1. rooms[r] \in Room
    OBVIOUS
  <2>2. Step1(rooms[r].doc) \in Message
    BY <2>1 DEF Step1, Message, Room
  <2>. QED
    BY <2>2
<1>5. down' \in [Clients -> Seq(Message)] /\ late' \in [Clients -> BOOLEAN]
  BY <1>4 DEF Enter, TInv, TypeOK
<1> HIDE DEF new
<1>. QED
  BY <1>2, <1>3, <1>5, ConnTyped

LEMMA OpeningTyped ==
  ASSUME TInv, NEW c \in Clients, Connect(c) \/ Opening(c)
  PROVE  TInv'
<1>1. CASE Connect(c)
  <2> DEFINE new == [conn[c] EXCEPT !.at = "lookup", !.readOnly = (perm[c] = "view")]
  <2>1. new \in Connection /\ new.at = "lookup" /\ conn' = [conn EXCEPT ![c] = new]
    BY <1>1 DEF Connect, TInv, TypeOK, Connection, Locations
  <2>2. <<Step1(replica[c])>> \in Seq(Message)
    BY DEF TInv, TypeOK, Step1, Message
  <2>3. up' \in [Clients -> Seq(Message)] /\ \A d \in Clients : d # c => up'[d] = up[d]
    BY <1>1, <2>2 DEF Connect, TInv, TypeOK
  <2> HIDE DEF new
  <2>4. /\ conn' \in [Clients -> Connection] /\ Rechecking'
        /\ \A d \in Clients : Serving(d)' => conn'[d].room \in DOMAIN room'
    BY <1>1, <2>1, <2>3, ConnTyped DEF Connect
  <2>. QED
    BY <1>1, <2>3, <2>4 DEF Connect, TInv, TypeOK
<1>2. CASE Lookup(c)
  <2>1. CASE current # None /\ Enter(c, current, room)
    <3>1. /\ conn' \in [Clients -> Connection] /\ down' \in [Clients -> Seq(Message)]
          /\ late' \in [Clients -> BOOLEAN] /\ Rechecking'
          /\ \A d \in Clients : Serving(d)' => conn'[d].room \in DOMAIN room'
      BY <1>2, <2>1, EntersTyped DEF Lookup, TInv, TypeOK
    <3>. QED
      BY <1>2, <3>1 DEF Lookup, TInv, TypeOK
  <2>2. CASE conn' = [conn EXCEPT ![c].at = "read"] /\ UNCHANGED <<down, late>>
    <3> DEFINE new == [conn[c] EXCEPT !.at = "read"]
    <3>1. new \in Connection /\ new.at = "read" /\ conn' = [conn EXCEPT ![c] = new]
      BY <2>2 DEF TInv, TypeOK, Connection, Locations
    <3> HIDE DEF new
    <3>2. /\ conn' \in [Clients -> Connection] /\ Rechecking'
          /\ \A d \in Clients : Serving(d)' => conn'[d].room \in DOMAIN room'
      BY <1>2, <3>1, ConnTyped DEF Lookup
    <3>. QED
      BY <1>2, <2>2, <3>2 DEF Lookup, TInv, TypeOK
  <2>. QED
    BY <1>2, <2>1, <2>2 DEF Lookup
<1>3. CASE ReadStore(c)
  <2> DEFINE new == [conn[c] EXCEPT !.at = "install", !.loaded = Stored]
  <2>1. Stored \in Edits
    BY DEF TInv, TypeOK, Stored, Edits
  <2>2. new \in Connection /\ new.at = "install" /\ conn' = [conn EXCEPT ![c] = new]
    BY <1>3, <2>1 DEF ReadStore, TInv, TypeOK, Connection, Locations
  <2> HIDE DEF new
  <2>3. /\ conn' \in [Clients -> Connection] /\ Rechecking'
        /\ \A d \in Clients : Serving(d)' => conn'[d].room \in DOMAIN room'
    BY <1>3, <2>2, ConnTyped DEF ReadStore
  <2>. QED
    BY <1>3, <2>3 DEF ReadStore, TInv, TypeOK
<1>4. CASE Install(c)
  <2> DEFINE doc == Integrated(conn[c].loaded)
             new == [doc |-> doc, waiting |-> conn[c].loaded \ doc, users |-> <<>>, updates |-> <<>>]
             rooms == Append(room, new)
  <2>1. conn[c].loaded \in Edits
    BY DEF TInv, TypeOK, Connection
  <2>2. new \in Room /\ Len(new.users) = 0 /\ Len(new.updates) = 0
    BY <2>1 DEF Room, Edits, Integrated
  <2>3. room \in Seq(Room) /\ Len(room) < MaxRooms
    BY <1>4 DEF Install, TInv, TypeOK
  <2>4. /\ Enter(c, Len(rooms), rooms) /\ room' = rooms /\ current' = Len(rooms)
        /\ UNCHANGED <<author, replica, perm, up, writing, stored, crashes, leaves, grants, trouble>>
    BY <1>4 DEF Install
  <2> HIDE DEF new
  <2>5. /\ rooms \in Seq(Room) /\ Len(rooms) \in DOMAIN rooms /\ Len(rooms) <= MaxRooms
        /\ DOMAIN room \subseteq DOMAIN rooms
        /\ \A r \in DOMAIN rooms : rooms[r] = new \/ (r \in DOMAIN room /\ rooms[r] = room[r])
    BY <2>2, <2>3, CollabAssumption
  <2> HIDE DEF rooms
  <2>6. /\ conn' \in [Clients -> Connection] /\ down' \in [Clients -> Seq(Message)]
        /\ late' \in [Clients -> BOOLEAN] /\ Rechecking'
        /\ \A d \in Clients : Serving(d)' => conn'[d].room \in DOMAIN room'
    BY <2>4, <2>5, EntersTyped
  <2>7. \A r \in DOMAIN room' : Len(room'[r].users) >= Len(room'[r].updates)
    <3> SUFFICES ASSUME NEW r \in DOMAIN rooms
                 PROVE  Len(rooms[r].users) >= Len(rooms[r].updates)
      BY <2>4
    <3>1. CASE rooms[r] = new
      BY <2>2, <3>1
    <3>2. CASE r \in DOMAIN room /\ rooms[r] = room[r]
      BY <3>2 DEF TInv, TypeOK
    <3>. QED
      BY <2>5, <3>1, <3>2
  <2>. QED
    BY <2>4, <2>5, <2>6, <2>7 DEF TInv, TypeOK
<1>. QED
  BY <1>1, <1>2, <1>3, <1>4 DEF Opening

\* A message of c is taken from its queue, and its edits may be applied.
LEMMA TakesTyped ==
  ASSUME TInv, NEW c \in Clients, Serving(c), up[c] # <<>>, Handled(c),
         Apply(c) \/ UNCHANGED room
  PROVE  /\ up' \in [Clients -> Seq(Message)] /\ \A d \in Clients : d # c => up'[d] = up[d]
         /\ room' \in Seq(Room) /\ Len(room') <= MaxRooms /\ DOMAIN room' = DOMAIN room
         /\ \A r \in DOMAIN room' : Len(room'[r].users) >= Len(room'[r].updates)
<1>1. up' \in [Clients -> Seq(Message)] /\ \A d \in Clients : d # c => up'[d] = up[d]
  <2>1. up[c] \in Seq(Message)
    BY DEF TInv, TypeOK
  <2>2. Tail(up[c]) \in Seq(Message)
    BY <2>1, HeadTail
  <2>. QED
    BY <2>2 DEF Handled, TInv, TypeOK
<1>2. CASE Apply(c)
  BY <1>1, <1>2, ApplyTyped DEF TInv, TypeOK
<1>3. CASE UNCHANGED room
  BY <1>1, <1>3 DEF TInv, TypeOK
<1>. QED
  BY <1>1, <1>2, <1>3

LEMMA HandlingTyped ==
  ASSUME TInv, NEW c \in Clients, Handling(c)
  PROVE  TInv'
<1>1. CASE HandleStep1(c)
  <2> DEFINE reply == Step2(room[conn[c].room].doc \ Head(up[c]).edits)
  <2>1. Serving(c) /\ up[c] # <<>>
    BY <1>1 DEF HandleStep1, Serving, Inbound
  <2>2. reply \in Message
    <3>1. room[conn[c].room] \in Room
      BY <2>1 DEF TInv, TypeOK
    <3>. QED
      BY <3>1 DEF Step2, Message, Room, Edits
  <2> HIDE DEF reply
  <2>3. down[c] \in Seq(Message) /\ Append(down[c], reply) \in Seq(Message)
    BY <2>2 DEF TInv, TypeOK
  <2>4. down' = [down EXCEPT ![c] = Append(down[c], reply)]
    BY <1>1 DEF HandleStep1, reply
  <2>5. down' \in [Clients -> Seq(Message)]
    BY <2>3, <2>4 DEF TInv, TypeOK
  <2>6. up' \in [Clients -> Seq(Message)] /\ \A d \in Clients : d # c => up'[d] = up[d]
    BY <1>1, <2>1, TakesTyped DEF HandleStep1
  <2>7. Rechecking'
    BY <1>1, <2>6 DEF HandleStep1, TInv, Rechecking
  <2>. QED
    BY <1>1, <2>5, <2>6, <2>7 DEF HandleStep1, TInv, TypeOK, Serving
<1>2. ASSUME HandleStep2(c) \/ HandleUpdate(c) PROVE TInv'
  <2>1. conn[c].at = "serve" /\ up[c] # <<>> /\ Handled(c) /\ (Apply(c) \/ UNCHANGED room)
    BY <1>2 DEF HandleStep2, HandleUpdate, TakeOrDrop, Inbound
  <2>2. UNCHANGED <<author, replica, perm, conn, down, current, writing, stored, crashes, leaves,
                    grants, late, trouble>>
    BY <1>2 DEF HandleStep2, HandleUpdate
  <2>3. /\ up' \in [Clients -> Seq(Message)] /\ \A d \in Clients : d # c => up'[d] = up[d]
        /\ room' \in Seq(Room) /\ Len(room') <= MaxRooms /\ DOMAIN room' = DOMAIN room
        /\ \A r \in DOMAIN room' : Len(room'[r].users) >= Len(room'[r].updates)
    BY <2>1, TakesTyped DEF Serving
  <2>4. Rechecking'
    BY <2>1, <2>2, <2>3 DEF TInv, Rechecking
  <2>. QED
    BY <2>2, <2>3, <2>4 DEF TInv, TypeOK, Serving
<1>3. CASE StartRecheck(c)
  <2> DEFINE new == [conn[c] EXCEPT !.at = "recheck", !.fresh = TRUE]
  <2>1. new \in Connection /\ new.room = conn[c].room /\ conn' = [conn EXCEPT ![c] = new]
    BY <1>3 DEF StartRecheck, TInv, TypeOK, Connection, Locations
  <2>2. Serving(c) /\ up[c] # <<>>
    BY <1>3 DEF StartRecheck, Serving, Inbound
  <2>3. new.room \in DOMAIN room
    BY <2>1, <2>2 DEF TInv, TypeOK
  <2> HIDE DEF new
  <2>4. /\ conn' \in [Clients -> Connection] /\ Rechecking'
        /\ \A d \in Clients : Serving(d)' => conn'[d].room \in DOMAIN room'
    BY <1>3, <2>1, <2>2, <2>3, ConnTyped DEF StartRecheck
  <2>. QED
    BY <1>3, <2>4 DEF StartRecheck, TInv, TypeOK
<1>4. CASE FinishRecheck(c)
  <2> DEFINE new == [conn[c] EXCEPT !.at = "serve", !.readOnly = (perm[c] # "edit")]
  <2>1. new \in Connection /\ new.room = conn[c].room /\ new.at = "serve"
        /\ conn' = [conn EXCEPT ![c] = new]
    BY <1>4 DEF FinishRecheck, TInv, TypeOK, Connection, Locations
  <2>2. Serving(c) /\ up[c] # <<>>
    BY <1>4 DEF FinishRecheck, Serving, TInv, Rechecking
  <2>3. new.room \in DOMAIN room
    BY <2>1, <2>2 DEF TInv, TypeOK
  <2> HIDE DEF new
  <2>4. /\ up' \in [Clients -> Seq(Message)] /\ \A d \in Clients : d # c => up'[d] = up[d]
        /\ room' \in Seq(Room) /\ Len(room') <= MaxRooms /\ DOMAIN room' = DOMAIN room
        /\ \A r \in DOMAIN room' : Len(room'[r].users) >= Len(room'[r].updates)
    BY <1>4, <2>2, TakesTyped DEF FinishRecheck, TakeOrDrop
  <2>5. /\ conn' \in [Clients -> Connection] /\ Rechecking'
        /\ \A d \in Clients : Serving(d)' => conn'[d].room \in DOMAIN room'
    BY <2>1, <2>3, <2>4, ConnTyped
  <2>. QED
    BY <1>4, <2>4, <2>5 DEF FinishRecheck, TInv, TypeOK
<1>. QED
  BY <1>1, <1>2, <1>3, <1>4 DEF Handling

LEMMA RoomTaskTyped ==
  ASSUME TInv, NEW r \in DOMAIN room, Broadcast(r)
  PROVE  TInv'
<1> DEFINE update == Head(room[r].updates)
           new == [room[r] EXCEPT !.updates = Tail(room[r].updates), !.users = Tail(room[r].users)]
<1>1. room \in Seq(Room) /\ room[r] \in Room /\ room[r].updates # <<>>
      /\ Len(room[r].users) >= Len(room[r].updates)
  BY DEF Broadcast, TInv, TypeOK
<1>2. /\ room[r].updates \in Seq([edits : Edits]) /\ room[r].users \in Seq(Clients)
      /\ room[r].users # <<>>
  BY <1>1 DEF Room
<1>3. /\ update \in [edits : Edits] /\ Head(room[r].users) \in Clients
      /\ Tail(room[r].updates) \in Seq([edits : Edits])
      /\ Tail(room[r].users) \in Seq(Clients)
      /\ Len(Tail(room[r].users)) >= Len(Tail(room[r].updates))
  <2>1. /\ update \in [edits : Edits]
        /\ Tail(room[r].updates) \in Seq([edits : Edits])
        /\ Len(Tail(room[r].updates)) = Len(room[r].updates) - 1
    BY <1>1, <1>2, HeadTail
  <2>2. /\ Head(room[r].users) \in Clients /\ Tail(room[r].users) \in Seq(Clients)
        /\ Len(Tail(room[r].users)) = Len(room[r].users) - 1
    BY <1>2, HeadTail
  <2>3. Len(room[r].users) \in Nat /\ Len(room[r].updates) \in Nat
    BY <1>2
  <2>. QED
    BY <1>1, <2>1, <2>2, <2>3
<1>4. new \in Room /\ Len(new.users) >= Len(new.updates)
  BY <1>1, <1>3 DEF Room
<1>5. room' = [room EXCEPT ![r] = new]
  BY DEF Broadcast
<1> HIDE DEF new
<1>6. /\ room' \in Seq(Room) /\ Len(room') = Len(room) /\ DOMAIN room' = DOMAIN room
      /\ \A q \in DOMAIN room' : Len(room'[q].users) >= Len(room'[q].updates)
  BY <1>1, <1>4, <1>5 DEF TInv, TypeOK
<1>7. Update(update.edits) \in Message
  BY <1>3 DEF Update, Message
<1>8. down' \in [Clients -> Seq(Message)]
  <2>1. \A c \in Clients : down[c] \in Seq(Message) /\ Append(down[c], Update(update.edits)) \in Seq(Message)
    BY <1>7 DEF TInv, TypeOK
  <2> HIDE DEF update
  <2>. QED
    BY <2>1 DEF Broadcast, update
<1>9. writing' \cup stored' \subseteq [edits : Edits, user : Clients]
  <2>1. Record(update, Head(room[r].users)) \in [edits : Edits, user : Clients]
    BY <1>3 DEF Record
  <2>2. writing' = writing \cup {Record(update, Head(room[r].users))} /\ stored' = stored
    BY DEF Broadcast
  <2>. QED
    BY <2>1, <2>2 DEF TInv, TypeOK
<1>. QED
  BY <1>6, <1>8, <1>9 DEF Broadcast, TInv, TypeOK, Serving, Rechecking

LEMMA CutTyped ==
  ASSUME TInv, NEW c \in Clients, Cut(c), room' = room
  PROVE  /\ conn' \in [Clients -> Connection] /\ Rechecking'
         /\ up' \in [Clients -> Seq(Message)] /\ down' \in [Clients -> Seq(Message)]
         /\ \A d \in Clients : Serving(d)' => conn'[d].room \in DOMAIN room'
<1>1. Offline \in Connection /\ Offline.at = "off"
  BY DEF Offline, Connection, Locations, Edits
<1>2. up' \in [Clients -> Seq(Message)] /\ down' \in [Clients -> Seq(Message)]
      /\ \A d \in Clients : d # c => up'[d] = up[d]
  BY DEF Cut, TInv, TypeOK
<1>. QED
  BY <1>1, <1>2, ConnTyped DEF Cut

\* A failing request ends a connection, or loses writes and ends rooms.
LEMMA FaultTyped ==
  ASSUME TInv, (\E c \in Clients : ReadFailed(c)) \/ (\E record \in writing : WriteFailed(record))
  PROVE  TInv'
<1>1. ASSUME NEW c \in Clients, ReadFailed(c) PROVE TInv'
  <2>1. /\ conn' \in [Clients -> Connection] /\ Rechecking'
        /\ up' \in [Clients -> Seq(Message)] /\ down' \in [Clients -> Seq(Message)]
        /\ \A d \in Clients : Serving(d)' => conn'[d].room \in DOMAIN room'
    BY <1>1, CutTyped DEF ReadFailed
  <2>2. faults' \in 0..MaxFaults
    BY <1>1, CollabAssumption DEF ReadFailed, TInv, TypeOK
  <2>. QED
    BY <1>1, <2>1, <2>2 DEF ReadFailed, TInv, TypeOK
<1>2. ASSUME NEW record \in writing, WriteFailed(record) PROVE TInv'
  <2>1. faults' \in 0..MaxFaults
    BY <1>2, CollabAssumption DEF WriteFailed, TInv, TypeOK
  <2>2. unsaved' \in Edits
    <3>1. PICK others \in SUBSET writing :
            unsaved' = unsaved \cup UNION {w.edits : w \in others \cup {record}}
      BY <1>2 DEF WriteFailed
    <3>2. \A w \in others \cup {record} : w.edits \in Edits
      BY DEF TInv, TypeOK
    <3>. QED
      BY <3>1, <3>2 DEF TInv, TypeOK, Edits
  <2>3. writing' \subseteq writing /\ ended' \subseteq DOMAIN room
    BY <1>2 DEF WriteFailed, TInv, TypeOK
  <2>. QED
    BY <1>2, <2>1, <2>2, <2>3 DEF WriteFailed, TInv, TypeOK, Serving, Rechecking
<1>. QED
  BY <1>1, <1>2

LEMMA ClientTyped ==
  ASSUME TInv, NEW c \in Clients, ClientEdit(c) \/ ClientReceive(c) \/ Leave(c) \/ Expire(c)
  PROVE  TInv'
<1>1. CASE ClientEdit(c)
  <2> DEFINE e == Len(author) + 1
  <2>1. author \in Seq(Clients) /\ e \in Nat /\ e <= MaxEdits /\ {e} \in Edits /\ e \in 1..MaxEdits
    BY <1>1, CollabAssumption DEF ClientEdit, TInv, TypeOK, Edits
  <2>2. author' \in Seq(Clients) /\ Len(author') = e
    BY <1>1, <2>1 DEF ClientEdit
  <2>3. replica' \in [Clients -> Edits]
    BY <1>1, <2>1 DEF ClientEdit, TInv, TypeOK, Edits
  <2> HIDE DEF e
  <2>4. Update({e}) \in Message
    BY <2>1 DEF Update, Message
  <2>5. up[c] \in Seq(Message) /\ Append(up[c], Update({e})) \in Seq(Message)
        /\ Append(up[c], Update({e})) # <<>>
    <3>1. up[c] \in Seq(Message)
      BY DEF TInv, TypeOK
    <3>. QED
      BY <2>4, <3>1, AppendTyped
  <2>6. up' = up \/ up' = [up EXCEPT ![c] = Append(up[c], Update({e}))]
    BY <1>1 DEF ClientEdit, e
  <2>7. up' \in [Clients -> Seq(Message)] /\ \A d \in Clients : up'[d] = up[d] \/ up'[d] # <<>>
    BY <2>5, <2>6 DEF TInv, TypeOK
  <2>. QED
    BY <1>1, <2>1, <2>2, <2>3, <2>7 DEF ClientEdit, TInv, TypeOK, Serving, Rechecking
<1>2. CASE ClientReceive(c)
  <2> DEFINE message == Head(down[c])
             reply == Step2(replica[c] \ message.edits)
  <2>1. down[c] \in Seq(Message) /\ down[c] # <<>>
    BY <1>2 DEF ClientReceive, TInv, TypeOK
  <2>2. message \in Message /\ Tail(down[c]) \in Seq(Message)
    BY <2>1, HeadTail
  <2>3. down' \in [Clients -> Seq(Message)]
    BY <1>2, <2>2 DEF ClientReceive, TInv, TypeOK
  <2>4. reply \in Message /\ replica[c] \cup message.edits \in Edits
    BY <2>2 DEF TInv, TypeOK, Step2, Message, Edits
  <2>5. \/ up' = [up EXCEPT ![c] = Append(up[c], reply)] /\ replica' = replica
        \/ up' = up /\ replica' = [replica EXCEPT ![c] = replica[c] \cup message.edits]
    BY <1>2 DEF ClientReceive
  <2> HIDE DEF message, reply
  <2>6. Append(up[c], reply) \in Seq(Message) /\ Append(up[c], reply) # <<>>
    <3>1. up[c] \in Seq(Message)
      BY DEF TInv, TypeOK
    <3>. QED
      BY <2>4, <3>1, AppendTyped
  <2>7. /\ up' \in [Clients -> Seq(Message)] /\ replica' \in [Clients -> Edits]
        /\ \A d \in Clients : up'[d] = up[d] \/ up'[d] # <<>>
    BY <2>4, <2>5, <2>6 DEF TInv, TypeOK
  <2>. QED
    BY <1>2, <2>3, <2>7 DEF ClientReceive, TInv, TypeOK, Serving, Rechecking
<1>3. CASE Leave(c)
  <2>1. /\ conn' \in [Clients -> Connection] /\ Rechecking'
        /\ up' \in [Clients -> Seq(Message)] /\ down' \in [Clients -> Seq(Message)]
        /\ \A d \in Clients : Serving(d)' => conn'[d].room \in DOMAIN room'
    BY <1>3, CutTyped DEF Leave
  <2>2. leaves' \in 0..MaxLeaves
    BY <1>3, CollabAssumption DEF Leave, TInv, TypeOK
  <2>. QED
    BY <1>3, <2>1, <2>2 DEF Leave, TInv, TypeOK
<1>4. CASE Expire(c)
  <2> DEFINE new == [conn[c] EXCEPT !.fresh = FALSE]
  <2>1. new \in Connection /\ new.room = conn[c].room /\ new.at = conn[c].at
        /\ conn' = [conn EXCEPT ![c] = new]
    BY <1>4 DEF Expire, TInv, TypeOK, Connection
  <2>2. new.room \in DOMAIN room /\ (new.at = "recheck" => up[c] # <<>>)
    BY <1>4, <2>1 DEF Expire, TInv, TypeOK, Rechecking
  <2> HIDE DEF new
  <2>3. /\ conn' \in [Clients -> Connection] /\ Rechecking'
        /\ \A d \in Clients : Serving(d)' => conn'[d].room \in DOMAIN room'
    BY <1>4, <2>1, <2>2, ConnTyped DEF Expire
  <2>. QED
    BY <1>4, <2>3 DEF Expire, TInv, TypeOK
<1>. QED
  BY <1>1, <1>2, <1>3, <1>4

LEMMA InitTyped == Init => TInv
<1> SUFFICES ASSUME Init PROVE TInv
  OBVIOUS
<1>1. Offline \in Connection /\ Offline.at = "off"
  BY DEF Offline, Connection, Locations, Edits
<1>2. {} \in Edits
  BY DEF Edits
<1>. QED
  BY <1>1, <1>2, CollabAssumption DEF Init, TInv, TypeOK, Rechecking, Serving

LEMMA TypesKept == TInv /\ [Next]_vars => TInv'
<1> SUFFICES ASSUME TInv, [Next]_vars PROVE TInv'
  OBVIOUS
<1>1. ASSUME NEW c \in Clients, NEW p \in {"edit", "view", None}, SetPermission(c, p) PROVE TInv'
  BY <1>1, CollabAssumption DEF SetPermission, TInv, TypeOK, Rechecking, Serving
<1>2. ASSUME NEW record \in writing, Write(record) PROVE TInv'
  BY <1>2 DEF Write, TInv, TypeOK, Rechecking, Serving
<1>3. CASE Crash
  <2>1. Offline \in Connection /\ Offline.at = "off"
    BY DEF Offline, Connection, Locations, Edits
  <2>2. <<>> \in Seq(Message) /\ <<>> \in Seq(Room) /\ Len(<<>>) = 0 /\ DOMAIN <<>> = {}
        /\ {} \in Edits
    BY DEF Edits
  <2>3. crashes' \in 0..MaxCrashes
    BY <1>3, CollabAssumption DEF Crash, TInv, TypeOK
  <2>. QED
    BY <1>3, <2>1, <2>2, <2>3, CollabAssumption DEF Crash, TInv, TypeOK, Rechecking, Serving
<1>4. CASE UNCHANGED vars
  BY <1>4 DEF vars, TInv, TypeOK, Rechecking, Serving
<1>. QED
  BY <1>1, <1>2, <1>3, <1>4, OpeningTyped, HandlingTyped, RoomTaskTyped, ClientTyped, FaultTyped
     DEF Next

LEMMA Typed == Spec => []TInv
  BY InitTyped, TypesKept, PTL DEF Spec

-----------------------------------------------------------------------------
(* A permission that is gone.                                              *)

\* Who lost the permission before the interval ran out is read-only until it
\* runs out again.
LateIsReadOnly ==
  \A c \in Clients : late[c] =>
    /\ perm[c] # "edit"
    /\ conn[c].at = "serve" /\ conn[c].fresh => conn[c].readOnly

LEMMA LateKept == TInv /\ LateIsReadOnly /\ [Next]_vars => LateIsReadOnly'
<1> SUFFICES ASSUME TInv, LateIsReadOnly, [Next]_vars PROVE LateIsReadOnly'
  OBVIOUS
<1>1. /\ conn \in [Clients -> Connection] /\ late \in [Clients -> BOOLEAN]
      /\ perm \in [Clients -> {"edit", "view", None}] /\ \A c \in Clients : conn[c] \in Connection
  BY DEF TInv, TypeOK
<1>2. ASSUME NEW c \in Clients, Connect(c) \/ ReadStore(c) PROVE LateIsReadOnly'
  <2>1. conn'[c].at # "serve" /\ \A d \in Clients : d # c => conn'[d] = conn[d]
    BY <1>1, <1>2 DEF Connect, ReadStore, Connection
  <2>2. UNCHANGED <<perm, late>>
    BY <1>2 DEF Connect, ReadStore
  <2>. QED
    BY <2>1, <2>2 DEF LateIsReadOnly
<1>3. ASSUME NEW c \in Clients, Lookup(c) \/ Install(c) PROVE LateIsReadOnly'
  <2>1. perm' = perm
    BY <1>3 DEF Lookup, Install
  <2>2. ASSUME NEW r, NEW rooms, Enter(c, r, rooms) PROVE LateIsReadOnly'
    <3>1. ~late'[c] /\ \A d \in Clients : d # c => late'[d] = late[d] /\ conn'[d] = conn[d]
      BY <1>1, <2>2 DEF Enter
    <3>. QED
      BY <2>1, <3>1 DEF LateIsReadOnly
  <2>3. CASE conn' = [conn EXCEPT ![c].at = "read"] /\ UNCHANGED late
    <3>1. conn'[c].at = "read" /\ \A d \in Clients : d # c => conn'[d] = conn[d]
      BY <1>1, <2>3 DEF Connection
    <3>. QED
      BY <2>1, <2>3, <3>1 DEF LateIsReadOnly
  <2>. QED
    BY <1>3, <2>2, <2>3 DEF Lookup, Install
<1>4. ASSUME NEW c \in Clients, HandleStep1(c) \/ HandleStep2(c) \/ HandleUpdate(c)
      PROVE  LateIsReadOnly'
  BY <1>4 DEF HandleStep1, HandleStep2, HandleUpdate, LateIsReadOnly
<1>5. ASSUME NEW c \in Clients, StartRecheck(c) \/ FinishRecheck(c) PROVE LateIsReadOnly'
  BY <1>1, <1>5 DEF StartRecheck, FinishRecheck, LateIsReadOnly, Connection
<1>6. ASSUME NEW c \in Clients, ClientEdit(c) \/ ClientReceive(c) PROVE LateIsReadOnly'
  BY <1>6 DEF ClientEdit, ClientReceive, LateIsReadOnly
<1>7. ASSUME NEW c \in Clients, Leave(c) \/ ReadFailed(c) \/ Expire(c) PROVE LateIsReadOnly'
  BY <1>1, <1>7 DEF Leave, ReadFailed, Cut, Expire, Offline, LateIsReadOnly, Connection
<1>8. ASSUME NEW c \in Clients, NEW p \in {"edit", "view", None}, SetPermission(c, p)
      PROVE  LateIsReadOnly'
  BY <1>1, <1>8 DEF SetPermission, LateIsReadOnly
<1>9. ASSUME NEW r \in DOMAIN room, Broadcast(r) PROVE LateIsReadOnly'
  BY <1>9 DEF Broadcast, LateIsReadOnly
<1>10. ASSUME NEW record \in writing, Write(record) \/ WriteFailed(record) PROVE LateIsReadOnly'
  BY <1>10 DEF Write, WriteFailed, LateIsReadOnly
<1>11. CASE Crash
  BY <1>11 DEF Crash, Offline, LateIsReadOnly
<1>12. CASE UNCHANGED vars
  BY <1>12 DEF vars, LateIsReadOnly
<1>. QED
  BY <1>2, <1>3, <1>4, <1>5, <1>6, <1>7, <1>8, <1>9, <1>10, <1>11, <1>12
     DEF Next, Opening, Handling

\* The step that takes an update of c changes no room once c is late.
LEMMA LateChangesNothing ==
  ASSUME TInv, LateIsReadOnly, [Next]_vars, NEW c \in Clients, late[c], Inbound(c, "update"),
         up'[c] = Tail(up[c]), crashes' = crashes
  PROVE  UNCHANGED room
<1>1. up'[c] # up[c]
  <2>1. up[c] \in Seq(Message) /\ up[c] # <<>>
    BY DEF TInv, TypeOK, Inbound
  <2>2. Tail(up[c]) # up[c]
    BY <2>1, HeadTail
  <2>. QED
    BY <2>2, Zenon
<1>2. CASE Handling(c)
  <2>1. CASE HandleStep1(c) \/ HandleStep2(c)
    BY <2>1 DEF HandleStep1, HandleStep2, Inbound
  <2>2. CASE HandleUpdate(c)
    BY <2>2 DEF HandleUpdate, TakeOrDrop, LateIsReadOnly
  <2>3. CASE StartRecheck(c)
    BY <2>3 DEF StartRecheck
  <2>4. CASE FinishRecheck(c)
    BY <2>4 DEF FinishRecheck, TakeOrDrop, LateIsReadOnly
  <2>. QED
    BY <1>2, <2>1, <2>2, <2>3, <2>4 DEF Handling
<1>3. ASSUME NEW d \in Clients, d # c, Handling(d) PROVE FALSE
  <2>1. up' = up \/ up' = [up EXCEPT ![d] = Tail(@)]
    BY <1>3 DEF Handling, HandleStep1, HandleStep2, HandleUpdate, StartRecheck, FinishRecheck,
                TakeOrDrop, Handled
  <2>. QED
    BY <1>1, <1>3, <2>1 DEF TInv, TypeOK
<1>4. ASSUME NEW d \in Clients, Opening(d) PROVE FALSE
  BY <1>1, <1>4 DEF Opening, Lookup, ReadStore, Install
<1>5. ASSUME NEW d \in Clients,
             \/ Connect(d) \/ ReadFailed(d) \/ ClientEdit(d) \/ ClientReceive(d)
             \/ Leave(d) \/ Expire(d)
      PROVE  UNCHANGED room
  BY <1>5 DEF Connect, ReadFailed, ClientEdit, ClientReceive, Leave, Expire
<1>6. ASSUME NEW d \in Clients, NEW p \in {"edit", "view", None}, SetPermission(d, p)
      PROVE  UNCHANGED room
  BY <1>6 DEF SetPermission
<1>7. ASSUME NEW r \in DOMAIN room, Broadcast(r) PROVE FALSE
  BY <1>1, <1>7 DEF Broadcast
<1>8. ASSUME NEW record \in writing, Write(record) \/ WriteFailed(record) PROVE UNCHANGED room
  BY <1>8 DEF Write, WriteFailed
<1>9. CASE Crash
  BY <1>9 DEF Crash, TInv, TypeOK
<1>10. CASE UNCHANGED vars
  BY <1>10 DEF vars
<1>. QED
  BY <1>2, <1>3, <1>4, <1>5, <1>6, <1>7, <1>8, <1>9, <1>10 DEF Next

-----------------------------------------------------------------------------
(* What is known to a replica, a room, a message or a record was made.     *)

Closed(edits) ==
  \A e \in edits : \A d \in 1..(e - 1) : author[d] = author[e] /\ d \in Made => d \in edits

\* What a room still has to store is in its document.
Sound(r) ==
  /\ r.doc \subseteq Made /\ r.waiting \subseteq Made /\ Closed(r.doc)
  /\ r.updates \in Seq([edits : SUBSET r.doc])

Said == [kind : {"step1", "step2", "update"}, edits : SUBSET Made]

OnlyMade ==
  /\ \A c \in Clients : replica[c] \subseteq Made /\ conn[c].loaded \subseteq Made
  /\ up \in [Clients -> Seq(Said)] /\ down \in [Clients -> Seq(Said)]
  /\ \A r \in DOMAIN room : Sound(room[r])
  /\ \A record \in stored : record.edits \subseteq Made

\* What is being written is in the document of a room.
InRoom(record) == \E r \in DOMAIN room : record.edits \subseteq room[r].doc

Backed == \A record \in writing : InRoom(record)

LEMMA WiderSeq ==
  ASSUME NEW S, NEW T, S \subseteq T, NEW s \in Seq(S)
  PROVE  s \in Seq(T)
  OBVIOUS

\* Taking in edits leaves a closed document closed, and drops none.
LEMMA IntegratedCloses ==
  ASSUME author \in Seq(Clients), NEW edits, edits \subseteq Made
  PROVE  /\ Integrated(edits) \subseteq edits /\ Closed(Integrated(edits))
         /\ \A doc \in SUBSET edits : Closed(doc) => doc \subseteq Integrated(edits)
<1>1. Made = 1..Len(author) /\ Len(author) \in Nat
  BY DEF Made
<1>2. Integrated(edits) \subseteq edits
  BY DEF Integrated
<1>3. Closed(Integrated(edits))
  <2> SUFFICES ASSUME NEW e \in Integrated(edits), NEW d \in 1..(e - 1),
                      author[d] = author[e], d \in Made
               PROVE  d \in Integrated(edits)
    BY DEF Closed
  <2>1. e \in edits /\ d \in edits /\ e \in Nat /\ d \in Nat /\ d < e
    BY <1>1 DEF Integrated
  <2>2. ASSUME NEW f \in 1..(d - 1), author[f] = author[d], f \in Made PROVE f \in edits
    <3>1. f \in 1..(e - 1)
      BY <2>1
    <3>. QED
      BY <2>2, <3>1 DEF Integrated
  <2>. QED
    BY <2>1, <2>2 DEF Integrated
<1>4. ASSUME NEW doc \in SUBSET edits, Closed(doc) PROVE doc \subseteq Integrated(edits)
  BY <1>4 DEF Closed, Integrated
<1>. QED
  BY <1>2, <1>3, <1>4

LEMMA AppliedSound ==
  ASSUME author \in Seq(Clients), NEW r \in Room, Sound(r),
         NEW edits \in SUBSET Made
  PROVE  Sound(Applied(r, edits)) /\ r.doc \subseteq Applied(r, edits).doc
<1> DEFINE all == r.doc \cup r.waiting \cup edits
           doc == Integrated(all)
           gain == [edits |-> doc \ r.doc]
           new == IF doc = r.doc THEN r.updates ELSE Append(r.updates, gain)
<1>1. all \subseteq Made /\ r.doc \subseteq all /\ Closed(r.doc)
  BY DEF Sound
<1> HIDE DEF all
<1>2. doc \subseteq Made /\ Closed(doc) /\ r.doc \subseteq doc
  BY <1>1, IntegratedCloses
<1>3. Applied(r, edits).doc = doc /\ Applied(r, edits).waiting = all \ doc
      /\ Applied(r, edits).updates = new
  BY DEF Applied, all, Room
<1> HIDE DEF doc
<1>4. r.updates \in Seq([edits : SUBSET doc])
  <2> DEFINE S == [edits : SUBSET r.doc]
             T == [edits : SUBSET doc]
  <2>1. S \subseteq T
    BY <1>2
  <2>2. r.updates \in Seq(S)
    BY DEF Sound
  <2> HIDE DEF S, T
  <2>3. r.updates \in Seq(T)
    BY <2>1, <2>2, WiderSeq
  <2>. QED
    BY <2>3 DEF T
<1>5. gain \in [edits : SUBSET doc]
  OBVIOUS
<1> HIDE DEF gain
<1>6. new \in Seq([edits : SUBSET doc])
  BY <1>4, <1>5, AppendTyped
<1> HIDE DEF new
<1>. QED
  BY <1>1, <1>2, <1>3, <1>6 DEF Sound

LEMMA ApplyKeeps ==
  ASSUME TInv, OnlyMade, NEW c \in Clients, Serving(c), up[c] # <<>>, Apply(c), author' = author
  PROVE  /\ \A r \in DOMAIN room' : Sound(room[r])'
         /\ DOMAIN room' = DOMAIN room
         /\ \A r \in DOMAIN room : room[r].doc \subseteq room'[r].doc
<1> DEFINE r == conn[c].room
           edits == Head(up[c]).edits
           old == Applied(room[r], edits)
           new == [old EXCEPT !.users = Append(@, c)]
<1>1. r \in DOMAIN room /\ room \in Seq(Room) /\ room[r] \in Room /\ author \in Seq(Clients)
  BY DEF TInv, TypeOK
<1>2. edits \in SUBSET Made
  <2>1. up[c] \in Seq(Said)
    BY DEF OnlyMade
  <2>2. Head(up[c]) \in Said
    BY <2>1, HeadTail
  <2>. QED
    BY <2>2 DEF Said
<1>3. Sound(old) /\ room[r].doc \subseteq old.doc
  BY <1>1, <1>2, AppliedSound DEF OnlyMade
<1>4. old \in Room
  <2>1. up[c] \in Seq(Message)
    BY DEF TInv, TypeOK
  <2>2. Head(up[c]) \in Message
    BY <2>1, HeadTail
  <2>3. edits \in Edits
    BY <2>2 DEF Message
  <2>. QED
    BY <1>1, <2>3, AppliedTyped
<1>5. room' = [room EXCEPT ![r] = new]
  BY DEF Apply
<1> HIDE DEF old, r, edits
<1>6. new.doc = old.doc /\ new.waiting = old.waiting /\ new.updates = old.updates
  BY <1>4 DEF Room
<1>7. Sound(new)
  BY <1>3, <1>6 DEF Sound
<1> HIDE DEF new
<1>8. /\ DOMAIN room' = DOMAIN room /\ room'[r] = new
      /\ \A q \in DOMAIN room : q # r => room'[q] = room[q]
  BY <1>1, <1>5
<1>9. \A q \in DOMAIN room' : Sound(room'[q])
  BY <1>7, <1>8 DEF OnlyMade
<1>10. \A q \in DOMAIN room' : Sound(room[q])'
  BY <1>9 DEF Sound, Closed, Made
<1>. QED
  BY <1>3, <1>6, <1>8, <1>10

\* A step that makes and stores nothing: what the service has can only grow.
Grows ==
  /\ UNCHANGED <<author, stored, crashes>>
  /\ \A record \in writing' \ writing : InRoom(record)'
  /\ DOMAIN room \subseteq DOMAIN room'
  /\ \A r \in DOMAIN room : room[r].doc \subseteq room'[r].doc

LEMMA RoomsKept ==
  ASSUME OnlyMade, UNCHANGED <<author, room>>
  PROVE  \A r \in DOMAIN room' : Sound(room[r])'
  BY DEF OnlyMade, Sound, Closed, Made

LEMMA ConnectKeeps ==
  ASSUME TInv, OnlyMade, NEW c \in Clients, Connect(c) \/ ReadStore(c)
  PROVE  OnlyMade' /\ Grows
<1>1. Grows
  BY DEF Connect, ReadStore, Grows
<1>2. \A r \in DOMAIN room' : Sound(room[r])'
  BY RoomsKept DEF Connect, ReadStore
<1>3. Made' = Made /\ Said' = Said
  BY <1>1 DEF Grows, Made, Said
<1>4. up' \in [Clients -> Seq(Said)] /\ down' = down
  <2>1. Step1(replica[c]) \in Said
    BY DEF OnlyMade, Step1, Said
  <2>2. <<Step1(replica[c])>> \in Seq(Said)
    BY <2>1
  <2>. QED
    BY <2>2 DEF Connect, ReadStore, OnlyMade
<1>5. \A d \in Clients : conn'[d].loaded \subseteq Made
  <2>1. Stored \subseteq Made
    BY DEF OnlyMade, Stored
  <2>2. /\ \A d \in Clients : d # c => conn'[d] = conn[d]
        /\ conn'[c].loaded \in {conn[c].loaded, Stored}
    BY DEF Connect, ReadStore, TInv, TypeOK, Connection
  <2>. QED
    BY <2>1, <2>2 DEF OnlyMade
<1>6. replica' = replica /\ writing' = writing /\ stored' = stored
  BY DEF Connect, ReadStore
<1>. QED
  BY <1>1, <1>2, <1>3, <1>4, <1>5, <1>6 DEF OnlyMade

LEMMA EnterKeeps ==
  ASSUME TInv, OnlyMade, NEW c \in Clients, NEW r, NEW rooms, Enter(c, r, rooms),
         rooms[r].doc \subseteq Made, UNCHANGED <<author, replica, up, writing, stored>>,
         \A q \in DOMAIN room' : Sound(room[q])'
  PROVE  OnlyMade'
<1>1. Made' = Made /\ Said' = Said
  BY DEF Made, Said
<1>2. down' \in [Clients -> Seq(Said)]
  <2>1. Step1(rooms[r].doc) \in Said
    BY DEF Step1, Said
  <2>2. <<Step1(rooms[r].doc)>> \in Seq(Said)
    BY <2>1
  <2>. QED
    BY <2>2 DEF Enter, OnlyMade
<1>3. \A d \in Clients : conn'[d].loaded \subseteq Made
  <2>1. conn'[c].loaded = {} /\ \A d \in Clients : d # c => conn'[d] = conn[d]
    BY DEF Enter, TInv, TypeOK, Connection
  <2>. QED
    BY <2>1 DEF OnlyMade
<1>. QED
  BY <1>1, <1>2, <1>3 DEF OnlyMade

LEMMA LookupKeeps ==
  ASSUME TInv, OnlyMade, NEW c \in Clients, Lookup(c)
  PROVE  OnlyMade' /\ Grows
<1>1. Grows
  BY DEF Lookup, Grows
<1>2. \A r \in DOMAIN room' : Sound(room[r])'
  BY RoomsKept DEF Lookup
<1>3. CASE current # None /\ Enter(c, current, room)
  <2>1. current \in DOMAIN room
    BY <1>3 DEF TInv, TypeOK
  <2>2. room[current].doc \subseteq Made
    BY <2>1 DEF OnlyMade, Sound
  <2>. QED
    BY <1>1, <1>2, <1>3, <2>2, EnterKeeps DEF Lookup
<1>4. CASE conn' = [conn EXCEPT ![c].at = "read"] /\ UNCHANGED <<down, late>>
  <2>1. Made' = Made /\ Said' = Said
    BY <1>1 DEF Grows, Made, Said
  <2>2. \A d \in Clients : conn'[d].loaded = conn[d].loaded
    BY <1>4 DEF TInv, TypeOK, Connection
  <2>. QED
    BY <1>1, <1>2, <1>4, <2>1, <2>2 DEF Lookup, OnlyMade
<1>. QED
  BY <1>3, <1>4 DEF Lookup

LEMMA InstallKeeps ==
  ASSUME TInv, OnlyMade, NEW c \in Clients, Install(c)
  PROVE  OnlyMade' /\ Grows
<1> DEFINE doc == Integrated(conn[c].loaded)
           new == [doc |-> doc, waiting |-> conn[c].loaded \ doc, users |-> <<>>, updates |-> <<>>]
           rooms == Append(room, new)
<1>1. /\ room' = rooms /\ Enter(c, Len(rooms), rooms)
      /\ UNCHANGED <<author, replica, perm, up, writing, stored, crashes, leaves, grants, trouble>>
  BY DEF Install
<1>2. Sound(new)
  <2>1. conn[c].loaded \subseteq Made /\ author \in Seq(Clients)
    BY DEF OnlyMade, TInv, TypeOK
  <2>2. doc \subseteq Made /\ Closed(doc)
    BY <2>1, IntegratedCloses
  <2> HIDE DEF doc
  <2>. QED
    BY <2>1, <2>2 DEF Sound
<1> HIDE DEF new
<1>3. /\ Len(rooms) \in DOMAIN rooms /\ DOMAIN room \subseteq DOMAIN rooms /\ rooms[Len(rooms)] = new
      /\ \A r \in DOMAIN rooms : rooms[r] = new \/ (r \in DOMAIN room /\ rooms[r] = room[r])
      /\ \A r \in DOMAIN room : rooms[r] = room[r]
  <2>1. room \in Seq(Room)
    BY DEF TInv, TypeOK
  <2>. QED
    BY <2>1
<1> HIDE DEF rooms
<1>4. Grows
  BY <1>1, <1>3 DEF Grows
<1>5. \A r \in DOMAIN rooms : Sound(rooms[r])
  BY <1>2, <1>3 DEF OnlyMade
<1>6. \A r \in DOMAIN room' : Sound(room[r])'
  BY <1>1, <1>5 DEF Sound, Closed, Made
<1>7. rooms[Len(rooms)].doc \subseteq Made
  BY <1>2, <1>3 DEF Sound
<1>. QED
  BY <1>1, <1>4, <1>6, <1>7, EnterKeeps

LEMMA HandlingKeeps ==
  ASSUME TInv, OnlyMade, NEW c \in Clients, Handling(c)
  PROVE  OnlyMade' /\ Grows
<1>1. CASE HandleStep1(c)
  <2> DEFINE reply == Step2(room[conn[c].room].doc \ Head(up[c]).edits)
  <2>1. Grows
    BY <1>1 DEF HandleStep1, Grows
  <2>2. Made' = Made /\ Said' = Said
    BY <2>1 DEF Grows, Made, Said
  <2>3. up[c] \in Seq(Said) /\ up[c] # <<>>
    BY <1>1 DEF HandleStep1, Inbound, OnlyMade
  <2>4. up' \in [Clients -> Seq(Said)]
    BY <1>1, <2>3, HeadTail DEF HandleStep1, Handled, OnlyMade
  <2>5. reply \in Said
    <3>1. conn[c].room \in DOMAIN room
      BY <1>1 DEF HandleStep1, TInv, TypeOK, Serving
    <3>. QED
      BY <3>1 DEF OnlyMade, Sound, Step2, Said
  <2>6. down' = [down EXCEPT ![c] = Append(down[c], reply)]
    BY <1>1 DEF HandleStep1
  <2> HIDE DEF reply
  <2>7. down' \in [Clients -> Seq(Said)]
    <3>1. Append(down[c], reply) \in Seq(Said)
      BY <2>5 DEF OnlyMade
    <3>. QED
      BY <2>6, <3>1 DEF OnlyMade
  <2>8. \A r \in DOMAIN room' : Sound(room[r])'
    BY <1>1, RoomsKept DEF HandleStep1
  <2>. QED
    BY <1>1, <2>1, <2>2, <2>4, <2>7, <2>8 DEF HandleStep1, OnlyMade
<1>2. ASSUME up[c] # <<>>, Serving(c), Handled(c), Apply(c) \/ UNCHANGED room,
             UNCHANGED <<author, replica, down, writing, stored, crashes>>,
             \A d \in Clients : conn'[d].loaded = conn[d].loaded
      PROVE  OnlyMade' /\ Grows
  <2>1. /\ \A r \in DOMAIN room' : Sound(room[r])'
        /\ DOMAIN room' = DOMAIN room
        /\ \A r \in DOMAIN room : room[r].doc \subseteq room'[r].doc
    <3>1. CASE Apply(c)
      BY <1>2, <3>1, ApplyKeeps
    <3>2. CASE UNCHANGED room
      BY <1>2, <3>2, RoomsKept
    <3>. QED
      BY <1>2, <3>1, <3>2
  <2>2. Made' = Made /\ Said' = Said
    BY <1>2 DEF Made, Said
  <2>3. up' \in [Clients -> Seq(Said)]
    BY <1>2, HeadTail DEF Handled, OnlyMade
  <2>. QED
    BY <1>2, <2>1, <2>2, <2>3 DEF OnlyMade, Grows
<1>3. ASSUME HandleStep2(c) \/ HandleUpdate(c) PROVE OnlyMade' /\ Grows
  BY <1>2, <1>3 DEF HandleStep2, HandleUpdate, TakeOrDrop, Inbound, Serving
<1>4. CASE StartRecheck(c)
  <2>1. \A d \in Clients : conn'[d].loaded = conn[d].loaded
    BY <1>4 DEF StartRecheck, TInv, TypeOK, Connection
  <2>2. \A r \in DOMAIN room' : Sound(room[r])'
    BY <1>4, RoomsKept DEF StartRecheck
  <2>3. Made' = Made /\ Said' = Said
    BY <1>4 DEF StartRecheck, Made, Said
  <2>. QED
    BY <1>4, <2>1, <2>2, <2>3 DEF StartRecheck, OnlyMade, Grows
<1>5. CASE FinishRecheck(c)
  <2>1. \A d \in Clients : conn'[d].loaded = conn[d].loaded
    BY <1>5 DEF FinishRecheck, TInv, TypeOK, Connection
  <2>2. up[c] # <<>> /\ Serving(c)
    BY <1>5 DEF FinishRecheck, TInv, Rechecking, Serving
  <2>. QED
    BY <1>2, <1>5, <2>1, <2>2 DEF FinishRecheck, TakeOrDrop
<1>. QED
  BY <1>1, <1>3, <1>4, <1>5 DEF Handling

LEMMA BroadcastKeeps ==
  ASSUME TInv, OnlyMade, NEW r \in DOMAIN room, Broadcast(r)
  PROVE  OnlyMade' /\ Grows
<1> DEFINE update == Head(room[r].updates)
           new == [room[r] EXCEPT !.updates = Tail(room[r].updates), !.users = Tail(room[r].users)]
           S == [edits : SUBSET room[r].doc]
<1>1. Sound(room[r]) /\ room[r].updates # <<>> /\ room \in Seq(Room) /\ room[r] \in Room
  BY DEF Broadcast, OnlyMade, TInv, TypeOK
<1>2. room[r].updates \in Seq(S)
  BY <1>1 DEF Sound
<1>3. update \in S /\ Tail(room[r].updates) \in Seq(S)
  <2> HIDE DEF S
  <2>. QED
    BY <1>1, <1>2, HeadTail
<1>4. update.edits \subseteq Made
  BY <1>1, <1>3 DEF Sound
<1>5. /\ new.doc = room[r].doc /\ new.waiting = room[r].waiting
      /\ new.updates = Tail(room[r].updates)
  BY <1>1 DEF Room
<1>6. room' = [room EXCEPT ![r] = new]
  BY DEF Broadcast
<1> HIDE DEF new
<1>7. Sound(new)
  BY <1>1, <1>3, <1>5 DEF Sound
<1>8. DOMAIN room' = DOMAIN room /\ \A q \in DOMAIN room : room'[q] = IF q = r THEN new ELSE room[q]
  BY <1>1, <1>6
<1>9. \A q \in DOMAIN room : Sound(room'[q]) /\ room[q].doc \subseteq room'[q].doc
  BY <1>5, <1>7, <1>8 DEF OnlyMade
<1>10. writing' = writing \cup {Record(update, Head(room[r].users))}
       /\ Record(update, Head(room[r].users)).edits = update.edits
  BY DEF Broadcast, Record
<1>11. down' \in [Clients -> Seq(Said)]
  <2>1. Update(update.edits) \in Said
    BY <1>4 DEF Update, Said
  <2>2. \A c \in Clients : down[c] \in Seq(Said) /\ Append(down[c], Update(update.edits)) \in Seq(Said)
    BY <2>1, AppendTyped DEF OnlyMade
  <2> HIDE DEF update
  <2>. QED
    BY <2>2 DEF Broadcast, update
<1>12. Grows
  <2>1. \A record \in writing' \ writing : InRoom(record)'
    BY <1>3, <1>5, <1>8, <1>10 DEF InRoom
  <2>. QED
    BY <1>8, <1>9, <2>1 DEF Broadcast, Grows
<1>13. Made' = Made /\ Said' = Said
  BY <1>12 DEF Grows, Made, Said
<1>14. \A q \in DOMAIN room' : Sound(room[q])'
  BY <1>8, <1>9, <1>12 DEF Grows, Sound, Closed, Made
<1>. QED
  BY <1>4, <1>10, <1>11, <1>12, <1>13, <1>14 DEF Broadcast, OnlyMade

LEMMA EditKeeps ==
  ASSUME TInv, OnlyMade, NEW c \in Clients, ClientEdit(c)
  PROVE  OnlyMade' /\ Made \subseteq Made' /\ UNCHANGED <<room, writing, stored, crashes>>
<1> DEFINE e == Len(author) + 1
<1>1. /\ author \in Seq(Clients) /\ Made = 1..Len(author) /\ e \in Nat
      /\ author' = Append(author, c)
  BY DEF ClientEdit, TInv, TypeOK, Made
<1>2. /\ Made' = Made \cup {e} /\ e \notin Made
      /\ \A d \in Made : author'[d] = author[d] /\ d \in Nat /\ d < e
  BY <1>1 DEF Made
<1> HIDE DEF e
<1>3. ASSUME NEW edits \in SUBSET Made, Closed(edits) PROVE Closed(edits)'
  <2> SUFFICES ASSUME NEW f \in edits, NEW d \in 1..(f - 1), author'[d] = author'[f], d \in Made'
               PROVE  d \in edits
    BY DEF Closed
  <2>1. f \in Made /\ d \in Made /\ author[d] = author[f]
    BY <1>2
  <2>. QED
    BY <1>3, <2>1 DEF Closed
<1>4. \A r \in DOMAIN room' : Sound(room[r])'
  <2>1. room' = room
    BY DEF ClientEdit
  <2>2. ASSUME NEW r \in DOMAIN room PROVE Sound(room[r])'
    <3>1. Sound(room[r])
      BY DEF OnlyMade
    <3>2. Closed(room[r].doc)'
      BY <1>3, <2>1, <3>1 DEF Sound, Closed
    <3>. QED
      BY <1>2, <2>1, <3>1, <3>2 DEF Sound
  <2>. QED
    BY <2>1, <2>2
<1>5. Said \subseteq Said'
  BY <1>2 DEF Said
<1>6. ASSUME NEW q \in [Clients -> Seq(Said)] PROVE q \in [Clients -> Seq(Said')]
  <2> HIDE DEF Said
  <2>. QED
    BY <1>5, WiderSeq
<1>7. down' \in [Clients -> Seq(Said)']
  BY <1>6 DEF ClientEdit, OnlyMade
<1>8. up' \in [Clients -> Seq(Said)']
  <2>1. Update({e}) \in Said'
    BY <1>2 DEF Update, Said
  <2>2. up \in [Clients -> Seq(Said')]
    BY <1>6 DEF OnlyMade
  <2>3. Append(up[c], Update({e})) \in Seq(Said')
    BY <2>1, <2>2, AppendTyped
  <2>4. up' = up \/ up' = [up EXCEPT ![c] = Append(up[c], Update({e}))]
    BY DEF ClientEdit, e
  <2>. QED
    BY <2>2, <2>3, <2>4
<1>9. \A d \in Clients : replica'[d] \subseteq Made' /\ conn'[d].loaded \subseteq Made'
  <2>1. \A d \in Clients : replica'[d] = replica[d] \/ replica'[d] = replica[d] \cup {e}
    BY DEF ClientEdit, TInv, TypeOK, e
  <2>2. conn' = conn
    BY DEF ClientEdit
  <2>. QED
    BY <1>2, <2>1, <2>2 DEF OnlyMade
<1>10. UNCHANGED <<writing, stored, room, crashes>>
  BY DEF ClientEdit
<1>. QED
  BY <1>2, <1>4, <1>7, <1>8, <1>9, <1>10 DEF OnlyMade

LEMMA ReceiveKeeps ==
  ASSUME TInv, OnlyMade, NEW c \in Clients, ClientReceive(c)
  PROVE  OnlyMade' /\ Grows
<1> DEFINE message == Head(down[c])
           reply == Step2(replica[c] \ message.edits)
<1>1. Grows /\ Made' = Made /\ Said' = Said
  BY DEF ClientReceive, Grows, Made, Said
<1>2. \A r \in DOMAIN room' : Sound(room[r])'
  BY RoomsKept DEF ClientReceive
<1>3. down[c] \in Seq(Said) /\ down[c] # <<>>
  BY DEF ClientReceive, OnlyMade
<1>4. message \in Said /\ Tail(down[c]) \in Seq(Said)
  BY <1>3, HeadTail
<1>5. reply \in Said /\ message.edits \subseteq Made
  BY <1>4 DEF OnlyMade, Step2, Said
<1>6. down' \in [Clients -> Seq(Said)]
  BY <1>4 DEF ClientReceive, OnlyMade
<1>7. \/ up' = [up EXCEPT ![c] = Append(up[c], reply)] /\ replica' = replica
      \/ up' = up /\ replica' = [replica EXCEPT ![c] = replica[c] \cup message.edits]
  BY DEF ClientReceive
<1> HIDE DEF message, reply
<1>8. up' \in [Clients -> Seq(Said)]
  <2>1. Append(up[c], reply) \in Seq(Said)
    BY <1>5, AppendTyped DEF OnlyMade
  <2>. QED
    BY <1>7, <2>1 DEF OnlyMade
<1>9. \A d \in Clients : replica'[d] \subseteq Made
  BY <1>5, <1>7 DEF OnlyMade, TInv, TypeOK
<1>. QED
  BY <1>1, <1>2, <1>6, <1>8, <1>9 DEF ClientReceive, OnlyMade

LEMMA QuietKeeps ==
  ASSUME TInv, OnlyMade, NEW c \in Clients,
         \/ Leave(c) \/ ReadFailed(c) \/ Expire(c)
         \/ \E p \in {"edit", "view", None} : SetPermission(c, p)
  PROVE  OnlyMade' /\ Grows
<1>1. Grows /\ Made' = Made /\ Said' = Said
  BY DEF Leave, ReadFailed, Expire, SetPermission, Grows, Made, Said
<1>2. \A r \in DOMAIN room' : Sound(room[r])'
  BY RoomsKept DEF Leave, ReadFailed, Expire, SetPermission
<1>3. CASE Leave(c) \/ ReadFailed(c)
  <2>1. /\ \A d \in Clients : conn'[d].loaded \in {conn[d].loaded, {}}
        /\ up' \in [Clients -> Seq(Said)] /\ down' \in [Clients -> Seq(Said)]
    <3>1. Cut(c)
      BY <1>3 DEF Leave, ReadFailed
    <3>2. \A d \in Clients : conn'[d] \in {conn[d], Offline}
      BY <3>1 DEF Cut, TInv, TypeOK
    <3>3. up' \in [Clients -> Seq(Said)] /\ down' \in [Clients -> Seq(Said)]
      BY <3>1 DEF Cut, OnlyMade
    <3>. QED
      BY <3>2, <3>3 DEF Offline
  <2>. QED
    BY <1>1, <1>2, <1>3, <2>1 DEF Leave, ReadFailed, OnlyMade
<1>4. CASE Expire(c)
  <2>1. \A d \in Clients : conn'[d].loaded = conn[d].loaded
    BY <1>4 DEF Expire, TInv, TypeOK, Connection
  <2>. QED
    BY <1>1, <1>2, <1>4, <2>1 DEF Expire, OnlyMade
<1>5. ASSUME NEW p, SetPermission(c, p) PROVE OnlyMade'
  BY <1>1, <1>2, <1>5 DEF SetPermission, OnlyMade
<1>. QED
  BY <1>1, <1>3, <1>4, <1>5

LEMMA WriteKeeps ==
  ASSUME TInv, OnlyMade, Backed, NEW record \in writing, Write(record) \/ WriteFailed(record)
  PROVE  /\ OnlyMade' /\ Backed' /\ UNCHANGED <<author, room, crashes>>
         /\ record.edits \subseteq Held
<1>1. UNCHANGED <<author, room, crashes, replica, conn, up, down>>
  BY DEF Write, WriteFailed
<1>2. Made' = Made /\ Said' = Said
  BY <1>1 DEF Made, Said
<1>3. \A r \in DOMAIN room' : Sound(room[r])'
  BY <1>1, RoomsKept
<1>4. PICK r \in DOMAIN room : record.edits \subseteq room[r].doc
  BY DEF Backed, InRoom
<1>5. record.edits \subseteq Made /\ record.edits \subseteq Held
  BY <1>4 DEF OnlyMade, Sound, Held
<1>6. stored' \subseteq stored \cup {record} /\ writing' \subseteq writing
  BY DEF Write, WriteFailed
<1>7. Backed'
  BY <1>1, <1>6 DEF Backed, InRoom
<1>8. OnlyMade'
  BY <1>1, <1>2, <1>3, <1>5, <1>6 DEF OnlyMade
<1>. QED
  BY <1>1, <1>5, <1>7, <1>8

LEMMA CrashKeeps ==
  ASSUME TInv, OnlyMade, Crash
  PROVE  OnlyMade'
<1>1. Made' = Made /\ Said' = Said
  BY DEF Crash, Made, Said
<1>2. DOMAIN room' = {} /\ <<>> \in Seq(Said)
  BY DEF Crash
<1>. QED
  BY <1>1, <1>2 DEF Crash, Offline, OnlyMade

LEMMA MadeInit == Init => OnlyMade
<1> SUFFICES ASSUME Init PROVE OnlyMade
  OBVIOUS
<1>1. <<>> \in Seq(Said) /\ DOMAIN room = {}
  BY DEF Init
<1>. QED
  BY <1>1 DEF Init, Offline, OnlyMade

-----------------------------------------------------------------------------
(* The log: every step is one of the log, or changes nothing of it.        *)

LEMMA GrowthIsAccept ==
  ASSUME OnlyMade', Backed, Grows
  PROVE  Backed' /\ Log!Accept
<1>1. Stored' = Stored /\ Made' = Made
  BY DEF Grows, Stored, Made
<1>2. Held \subseteq Held'
  BY <1>1 DEF Grows, Held
<1>3. Held' \subseteq Made'
  BY DEF OnlyMade, Sound, Held, Stored
<1>4. Backed'
  BY DEF Grows, Backed, InRoom
<1>. QED
  BY <1>1, <1>2, <1>3, <1>4 DEF Grows, Log!Accept

LogInv == OnlyMade /\ Backed

LEMMA StepsOfLog ==
  TInv /\ LogInv /\ [Next]_vars => LogInv' /\ [Log!Next]_Log!vars
<1> SUFFICES ASSUME TInv, OnlyMade, Backed, [Next]_vars PROVE LogInv' /\ [Log!Next]_Log!vars
  BY DEF LogInv
<1>1. ASSUME OnlyMade' /\ Grows PROVE LogInv' /\ [Log!Next]_Log!vars
  BY <1>1, GrowthIsAccept DEF Log!Next, LogInv
<1>2. ASSUME NEW c \in Clients, Connect(c) \/ Opening(c) \/ Handling(c)
      PROVE  LogInv' /\ [Log!Next]_Log!vars
  BY <1>1, <1>2, ConnectKeeps, LookupKeeps, InstallKeeps, HandlingKeeps DEF Opening
<1>3. ASSUME NEW c \in Clients, ClientEdit(c) PROVE LogInv' /\ [Log!Next]_Log!vars
  <2>1. OnlyMade' /\ Made \subseteq Made' /\ UNCHANGED <<room, writing, stored, crashes>>
    BY <1>3, EditKeeps
  <2>2. Log!Make
    BY <2>1 DEF Log!Make, Held, Stored
  <2>3. Backed'
    BY <2>1 DEF Backed, InRoom
  <2>. QED
    BY <2>1, <2>2, <2>3 DEF Log!Next, LogInv
<1>4. ASSUME NEW c \in Clients,
             \/ ClientReceive(c) \/ Leave(c) \/ ReadFailed(c) \/ Expire(c)
             \/ \E p \in {"edit", "view", None} : SetPermission(c, p)
      PROVE  LogInv' /\ [Log!Next]_Log!vars
  BY <1>1, <1>4, ReceiveKeeps, QuietKeeps
<1>5. ASSUME NEW r \in DOMAIN room, Broadcast(r) PROVE LogInv' /\ [Log!Next]_Log!vars
  BY <1>1, <1>5, BroadcastKeeps
<1>6. ASSUME NEW record \in writing, Write(record) PROVE LogInv' /\ [Log!Next]_Log!vars
  <2>1. /\ OnlyMade' /\ Backed' /\ UNCHANGED <<author, room, crashes>>
        /\ record.edits \subseteq Held
    BY <1>6, WriteKeeps
  <2>2. Stored' = Stored \cup record.edits /\ Stored \subseteq Held
    BY <1>6 DEF Write, Stored, Held
  <2>3. Held' = Held
    BY <2>1, <2>2 DEF Held
  <2>4. Log!Store
    BY <2>1, <2>2, <2>3 DEF Log!Store, Made
  <2>. QED
    BY <2>1, <2>4 DEF Log!Next, LogInv
<1>7. ASSUME NEW record \in writing, WriteFailed(record) PROVE LogInv' /\ [Log!Next]_Log!vars
  <2>1. OnlyMade' /\ Backed' /\ UNCHANGED <<author, room, crashes, stored>>
    BY <1>7, WriteKeeps DEF WriteFailed
  <2>. QED
    BY <2>1 DEF LogInv, Log!vars, Held, Stored, Made
<1>8. CASE Crash
  <2>1. Held' = Stored /\ Stored' = Stored /\ Made' = Made /\ writing' = {}
    BY <1>8 DEF Crash, Held, Stored, Made
  <2>2. Log!Restart
    BY <1>8, <2>1 DEF Log!Restart, Crash
  <2>. QED
    BY <1>8, <2>1, <2>2, CrashKeeps DEF Log!Next, LogInv, Backed
<1>9. CASE UNCHANGED vars
  <2>1. Grows
    BY <1>9 DEF vars, Grows
  <2>2. \A r \in DOMAIN room' : Sound(room[r])'
    BY <1>9, RoomsKept DEF vars
  <2>3. OnlyMade'
    BY <1>9, <2>2 DEF vars, OnlyMade, Made, Said
  <2>. QED
    BY <1>1, <2>1, <2>3
<1>. QED
  BY <1>2, <1>3, <1>4, <1>5, <1>6, <1>7, <1>8, <1>9 DEF Next

-----------------------------------------------------------------------------
\* Every variable keeps its type, however connections, edits, rooms and
\* restarts interleave; a room never runs out of users to name for its updates.
THEOREM TypesHold == Spec => []TypeOK
<1>1. TInv => TypeOK
  BY DEF TInv
<1>. QED
  BY Typed, <1>1, PTL

\* Ten seconds after a user lost the permission to write, no update of theirs
\* changes the document, for any number of clients and rooms (handler.py:95-97).
THEOREM ReadOnlyEnforcedHolds == Spec => ReadOnlyEnforced
<1>1. Init => LateIsReadOnly
  BY DEF Init, LateIsReadOnly
<1>2. Spec => []LateIsReadOnly
  BY <1>1, Typed, LateKept, PTL DEF Spec
<1>3. TInv /\ LateIsReadOnly /\ [Next]_vars =>
        [\A c \in Clients :
           late[c] /\ Inbound(c, "update") /\ up'[c] = Tail(up[c]) /\ crashes' = crashes
             => UNCHANGED room]_vars
  BY LateChangesNothing
<1>. QED
  BY <1>2, <1>3, Typed, PTL DEF Spec, ReadOnlyEnforced

\* The rooms and the store implement the log of updates: nothing is taken over
\* that nobody made, nothing stored is lost, and nothing taken over is lost but
\* to a restart of the server, for any number of clients, rooms and restarts and
\* whatever reads and writes of the store fail.
THEOREM ImplementsLogHolds == Spec => ImplementsLog
<1>1. Init => Log!Init
  BY DEF Init, Log!Init, Made, Held, Stored
<1>2. Init => LogInv
  BY MadeInit DEF Init, LogInv, Backed
<1>3. Spec => []LogInv
  BY <1>2, Typed, StepsOfLog, PTL DEF Spec
<1>. QED
  BY <1>1, <1>3, Typed, StepsOfLog, PTL DEF Spec, ImplementsLog, Log!Spec

===============================================================================
