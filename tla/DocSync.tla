-------------------------------- MODULE DocSync --------------------------------
(***************************************************************************)
(* collabmark start --doc: one file kept in step with one document by a    *)
(* lasting WebSocket (commands/start.py, lib/persistent_sync.py), by       *)
(* single cycles when it is down (run_document_sync_cycle), and by a       *)
(* watcher of the file (SingleFileWatcher).                                *)
(*                                                                         *)
(* A text is how often it has each piece; the order of the pieces is left  *)
(* out.  A document is a Y.Doc: the pieces ever put in, each copy with an  *)
(* identity of its own, and those taken out.                               *)
(*                                                                         *)
(* Coroutines share one event loop; a step is the code between two awaits. *)
(* The watcher is a thread, the user's editor and the server are other     *)
(* processes.  The room is alone with this client and the web users (the   *)
(* rooms themselves are modelled in CollabRoom).  A push waits for the     *)
(* record of the one before.                                               *)
(***************************************************************************)
EXTENDS Naturals, Sequences, FiniteSets

CONSTANTS
  Absent,     \* no file
  None,       \* no entry in sync.json
  MaxEvents   \* bound: edits, connections that break, handshakes that time out and
              \* transfers that fail, in all

ASSUME DocSyncAssumption ==
  MaxEvents \in Nat

VARIABLES
  file,     \* the text of the file, or Absent
  entry,    \* sync.json: the text recorded for the file
  cloud,    \* the server's document
  copies,   \* of a piece: how many copies were made in all
  main,     \* where the main coroutine is
  cycle,    \* the cycle it runs
  heard,    \* what the handshake of its transfer brought of the document
  timer,    \* the watcher saw an event, its debounce timer runs
  queued,   \* on_file_change has scheduled _push_local
  sent,     \* the text a push has sent and not recorded, or None
  writing,  \* _writing_from_remote
  replica,  \* PersistentDocSync._ydoc
  link,     \* its connection
  up, down, \* messages on the way to the server, and to the client
  edits, breaks,  \* history
  given,    \* history: pieces put in while the program watches, which nobody took out
  unaware   \* history: the watch began, or a handshake ended, with a file that
            \* differs from the replica

local == <<file, entry, timer>>
program == <<main, cycle, heard, queued, sent, writing>>
server == <<cloud, copies>>
wires == <<up, down>>
history == <<edits, breaks, given, unaware>>
vars == <<local, program, server, replica, link, wires, history>>

Pieces == 0..MaxEvents

Blank == [p \in Pieces |-> 0]

NoDoc == [has |-> {}, gone |-> {}]

Live(doc) == doc.has \ doc.gone

TextOf(doc) == [p \in Pieces |-> Cardinality({e \in Live(doc) : e[1] = p})]

Merge(doc, update) == [has |-> doc.has \cup update.has, gone |-> doc.gone \cup update.gone]

Gained(doc, update) == [has |-> update.has \ doc.has, gone |-> update.gone \ doc.gone]

\* apply_incremental_diff: what text has more than doc is put in as new
\* copies, what it has less is taken out.
Diff(doc, text) ==
  [has  |-> UNION {{p} \X ((copies[p] + 1)..(copies[p] + text[p] - TextOf(doc)[p])) :
                     p \in Pieces},
   gone |-> {e \in Live(doc) :
               Cardinality({f \in Live(doc) : f[1] = e[1] /\ f[2] <= e[2]}) > text[e[1]]}]

Counted(update) ==
  [p \in Pieces |-> copies[p] + Cardinality({e \in update.has : e[1] = p})]

Message(kind, doc) == [kind |-> kind, doc |-> doc]

Closed == [at |-> "off", connected |-> FALSE, wire |-> FALSE, got |-> {}]

Idle == [at |-> "off", text |-> Blank]

Watching == main = "watch"

\* The event loop runs no coroutine while the callback writes the file.
Free == ~writing

MayHappen == edits + breaks < MaxEvents

-----------------------------------------------------------------------------
(***************************************************************************)
(* The server: a room with this client and the web users.                  *)
(***************************************************************************)
InRoom == link.at \in {"shake", "up"} /\ link.wire

\* The document takes an update in and announces what it gained.
CloudTakes(update) ==
  LET gained == Gained(cloud, update)
  IN /\ cloud' = Merge(cloud, update)
     /\ down' = IF InRoom /\ gained # NoDoc
                THEN Append(down, Message("update", gained)) ELSE down

ServerReceives ==
  /\ up # <<>>
  /\ up' = Tail(up)
  /\ IF Head(up).kind = "step1"
     THEN /\ down' = Append(down, Message("step2", cloud))
          /\ UNCHANGED cloud
     ELSE CloudTakes(Head(up).doc)
  /\ UNCHANGED <<local, program, copies, replica, link, history>>

\* A web user puts a piece in, or takes one out that it sees.
WebEdit ==
  /\ MayHappen /\ edits' = edits + 1
  /\ \/ /\ CloudTakes([has |-> {<<edits', 1>>}, gone |-> {}])
        /\ copies' = [copies EXCEPT ![edits'] = 1]
        /\ given' = IF Watching THEN given \cup {edits'} ELSE given
     \/ \E p \in Pieces :
          /\ TextOf(cloud)[p] > 0
          /\ CloudTakes([has |-> {}, gone |-> {e \in Live(cloud) : e[1] = p}])
          /\ given' = given \ {p}
          /\ UNCHANGED copies
  /\ UNCHANGED <<local, program, replica, link, up, breaks, unaware>>

-----------------------------------------------------------------------------
(***************************************************************************)
(* run_document_sync_cycle: it reads the document over a connection of its *)
(* own, then the file, and decides.                                        *)
(***************************************************************************)
\* Where the main coroutine goes on after a cycle; a lasting connection is
\* opened after the first one.
CycleEnds ==
  /\ cycle' = Idle
  /\ main' = CASE main = "initial" -> "connect"
               [] main = "watch"   -> "watch"
               [] main = "final"   -> "ended"
  /\ link' = IF main = "initial" THEN [link EXCEPT !.at = "down"] ELSE link

\* A read that fails returns no text.
CycleRead ==
  /\ cycle.at = "read" /\ Free
  /\ \/ cycle' = [at |-> "decide", text |-> TextOf(cloud)] /\ UNCHANGED breaks
     \/ /\ MayHappen /\ breaks' = breaks + 1
        /\ cycle' = [at |-> "decide", text |-> Blank]
  /\ UNCHANGED <<local, main, heard, queued, sent, writing, server, replica, link, wires,
                 edits, given, unaware>>

Deciding == cycle.at = "decide" /\ Free

Both == file # Absent /\ entry # None /\ cycle.text # Blank

Transfers(how) ==
  /\ cycle' = [at |-> how, text |-> file]
  /\ UNCHANGED <<local, main, heard, queued, sent, writing, server, replica, link, wires,
                 history>>

PushFirst ==
  /\ Deciding /\ file # Absent /\ entry = None /\ cycle.text = Blank
  /\ Transfers("write")

PushUpdate ==
  /\ Deciding
  /\ \/ Both /\ file # entry /\ cycle.text = entry
     \/ file # Absent /\ entry = None /\ cycle.text \notin {Blank, file}
  /\ Transfers("update")

\* The file is written; a running watcher sees that.
Pull ==
  /\ Deciding /\ cycle.text # Blank
  /\ file = Absent \/ (Both /\ file = entry /\ cycle.text # entry)
  /\ file' = cycle.text /\ entry' = cycle.text
  /\ timer' = (timer \/ Watching)
  /\ CycleEnds
  /\ UNCHANGED <<heard, queued, sent, writing, server, replica, wires, history>>

Adopt ==
  /\ Deciding /\ file # Absent /\ entry = None /\ cycle.text = file
  /\ file # Blank
  /\ entry' = file
  /\ CycleEnds
  /\ UNCHANGED <<file, timer, heard, queued, sent, writing, server, replica, wires, history>>

\* Nothing to do, nothing that can be done, or a conflict, which leaves both
\* as they are and the cloud's text in a sidecar.
Leave ==
  /\ Deciding
  /\ \/ cycle.text = Blank /\ (file = Absent \/ entry # None)
     \/ Both /\ file = entry /\ cycle.text = entry
     \/ Both /\ file # entry /\ cycle.text # entry
  /\ CycleEnds
  /\ UNCHANGED <<local, heard, queued, sent, writing, server, replica, wires, history>>

\* The handshake of an update reads the document; one that times out has heard
\* nothing of it.
Handshake ==
  /\ cycle.at = "update" /\ cycle.text # Blank /\ Free
  /\ cycle' = [cycle EXCEPT !.at = "send"]
  /\ \/ heard' = cloud /\ UNCHANGED breaks
     \/ MayHappen /\ breaks' = breaks + 1 /\ heard' = NoDoc
  /\ UNCHANGED <<local, main, queued, sent, writing, server, replica, link, wires,
                 edits, given, unaware>>

\* A transfer merges what it puts in with whatever the document has by then:
\* all of the text if it is the first, else how it differs from what was heard.
\* One that fails is not noticed, and no empty text is transferred.
Transfer ==
  /\ cycle.at \in {"write", "update", "send"} /\ Free
  /\ cycle' = [cycle EXCEPT !.at = "record"] /\ heard' = NoDoc
  /\ \/ /\ cycle.text # Blank /\ cycle.at # "update"
        /\ LET update == Diff(heard, cycle.text)
           IN /\ CloudTakes(update)
              /\ copies' = Counted(update)
        /\ UNCHANGED breaks
     \/ /\ IF cycle.text = Blank THEN UNCHANGED breaks
           ELSE MayHappen /\ breaks' = breaks + 1
        /\ UNCHANGED <<cloud, copies, down>>
  /\ UNCHANGED <<local, main, queued, sent, writing, replica, link, up, edits,
                 given, unaware>>

\* Mutant of Record: the file is read once more.
RecordFile ==
  /\ cycle.at = "record" /\ Free
  /\ entry' = file
  /\ CycleEnds
  /\ UNCHANGED <<file, timer, heard, queued, sent, writing, server, replica, wires, history>>

Record ==
  /\ cycle.at = "record" /\ Free
  /\ entry' = cycle.text
  /\ CycleEnds
  /\ UNCHANGED <<file, timer, heard, queued, sent, writing, server, replica, wires, history>>

-----------------------------------------------------------------------------
(***************************************************************************)
(* PersistentDocSync: connect, shake hands, listen, and connect again.     *)
(***************************************************************************)
Connect ==
  /\ link.at = "down" /\ Free
  /\ link' = [link EXCEPT !.at = "shake", !.wire = TRUE, !.got = {}]
  /\ up' = <<Message("step1", NoDoc)>>
  /\ down' = <<Message("step1", NoDoc)>>
  /\ UNCHANGED <<local, program, server, replica, history>>

Unaware(text) == unaware \/ file # text

\* Mutant of Shake: what the server lacks is not sent.
ShakeSilent ==
  LET message == Head(down)
      got     == link.got \cup ({message.kind} \ {"update"})
      done    == got = {"step1", "step2"}
  IN /\ link.at = "shake" /\ down # <<>> /\ Free
     /\ down' = Tail(down)
     /\ replica' = IF message.kind = "step1" THEN replica ELSE Merge(replica, message.doc)
     /\ link' = IF done THEN [link EXCEPT !.at = "up", !.connected = TRUE]
                ELSE [link EXCEPT !.got = got]
     /\ unaware' = IF done THEN Unaware(TextOf(replica')) ELSE unaware
     /\ UNCHANGED <<local, program, server, up, edits, breaks, given>>

\* The server's summary is answered with the whole replica; what the server
\* answers is taken into the replica, and the file is not told.
Shake ==
  LET message == Head(down)
      got     == link.got \cup ({message.kind} \ {"update"})
      done    == got = {"step1", "step2"}
  IN /\ link.at = "shake" /\ down # <<>> /\ Free
     /\ down' = Tail(down)
     /\ up' = IF message.kind = "step1" THEN Append(up, Message("step2", replica)) ELSE up
     /\ replica' = IF message.kind = "step1" THEN replica ELSE Merge(replica, message.doc)
     /\ link' = IF done THEN [link EXCEPT !.at = "up", !.connected = TRUE]
                ELSE [link EXCEPT !.got = got]
     /\ unaware' = IF done THEN Unaware(TextOf(replica')) ELSE unaware
     /\ UNCHANGED <<local, program, server, edits, breaks, given>>

\* _handle_message and _on_remote_update: a file that is not what the replica
\* is, unless that is empty, is written.
Listen ==
  LET next == Merge(replica, Head(down).doc)
  IN /\ link.at = "up" /\ down # <<>> /\ Free
     /\ down' = Tail(down)
     /\ replica' = next
     /\ writing' = (TextOf(next) \notin {Blank, file})
     /\ UNCHANGED <<local, main, cycle, heard, queued, sent, server, link, up, history>>

\* The flag falls with the write, before the watcher tells of it.
Written ==
  /\ writing /\ writing' = FALSE
  /\ file' = TextOf(replica) /\ entry' = TextOf(replica)
  /\ timer' = (timer \/ Watching)
  /\ UNCHANGED <<main, cycle, heard, queued, sent, server, replica, link, wires, history>>

\* The connection breaks; what was on the way is lost.
Break ==
  /\ InRoom /\ MayHappen
  /\ breaks' = breaks + 1
  /\ link' = [link EXCEPT !.wire = FALSE]
  /\ up' = <<>> /\ down' = <<>>
  /\ UNCHANGED <<local, program, server, replica, edits, given, unaware>>

\* The listener notices, and connects again after a while.
Notice ==
  /\ link.at \in {"shake", "up"} /\ ~link.wire /\ Free
  /\ link' = [Closed EXCEPT !.at = "down"]
  /\ UNCHANGED <<local, program, server, replica, wires, history>>

-----------------------------------------------------------------------------
(***************************************************************************)
(* The user, the watcher and _push_local.                                  *)
(***************************************************************************)
\* A save is an event for a watcher that runs.
Saved(text) ==
  /\ file' = text
  /\ timer' = (timer \/ Watching)
  /\ UNCHANGED <<entry, program, replica, server, link, wires, breaks, unaware>>

UserSave ==
  /\ file # Absent /\ MayHappen /\ edits' = edits + 1
  /\ \/ /\ Saved([file EXCEPT ![edits'] = 1])
        /\ given' = IF Watching THEN given \cup {edits'} ELSE given
     \/ \E p \in Pieces :
          /\ file[p] > 0
          /\ Saved([file EXCEPT ![p] = 0])
          /\ given' = given \ {p}

\* The deletion of the file is no event.
UserRemove ==
  /\ file # Absent /\ MayHappen /\ edits' = edits + 1
  /\ file' = Absent
  /\ given' = given \ {p \in Pieces : file[p] > 0}
  /\ UNCHANGED <<entry, timer, program, server, replica, link, wires, breaks, unaware>>

\* Mutant of Fire: what is recorded is taken for an echo, and not pushed.
FireChanged ==
  /\ timer /\ timer' = FALSE
  /\ queued' = (queued \/ file # entry)
  /\ UNCHANGED <<file, entry, main, cycle, heard, sent, writing, server, replica, link, wires,
                 history>>

\* on_file_change, in the watcher's thread.
Fire ==
  /\ timer /\ timer' = FALSE
  /\ queued' = (queued \/ ~writing)
  /\ UNCHANGED <<file, entry, main, cycle, heard, sent, writing, server, replica, link, wires,
                 history>>

Pushable ==
  /\ file \notin {Absent, Blank} /\ link.connected /\ file # TextOf(replica)

PushLocal ==
  /\ queued /\ sent = None /\ Free
  /\ queued' = FALSE
  /\ IF ~Pushable THEN UNCHANGED <<sent, replica, copies, up, link>>
     ELSE LET update == Diff(replica, file)
          IN /\ replica' = Merge(replica, update)
             /\ copies' = Counted(update)
             /\ \/ /\ sent' = file
                   /\ up' = IF link.wire THEN Append(up, Message("update", update)) ELSE up
                   /\ UNCHANGED link
                \/ /\ ~link.wire
                   /\ link' = [link EXCEPT !.connected = FALSE]
                   /\ UNCHANGED <<sent, up>>
  /\ UNCHANGED <<local, main, cycle, heard, writing, cloud, down, history>>

PushRecorded ==
  /\ sent # None /\ Free
  /\ entry' = sent /\ sent' = None
  /\ UNCHANGED <<file, timer, main, cycle, heard, queued, writing, server, replica, link, wires,
                 history>>

-----------------------------------------------------------------------------
(***************************************************************************)
(* _doc_watch_loop.                                                        *)
(***************************************************************************)
\* The watcher starts when the connection is up, or has not come up in time.
BeginWatch ==
  /\ main = "connect" /\ Free
  /\ main' = "watch"
  /\ unaware' = Unaware(TextOf(replica))
  /\ UNCHANGED <<local, cycle, heard, queued, sent, writing, server, replica, link, wires,
                 edits, breaks, given>>

\* The interval runs out.
Poll ==
  /\ Watching /\ cycle = Idle /\ ~link.connected /\ Free
  /\ cycle' = [Idle EXCEPT !.at = "read"]
  /\ UNCHANGED <<local, main, heard, queued, sent, writing, server, replica, link, wires,
                 history>>

\* A signal: the watcher and the connection go, a last cycle runs.  What was
\* sent still arrives.
Stop ==
  /\ Watching /\ cycle = Idle /\ Free
  /\ main' = "final" /\ cycle' = [Idle EXCEPT !.at = "read"]
  /\ timer' = FALSE /\ queued' = FALSE
  /\ link' = Closed /\ down' = <<>>
  /\ UNCHANGED <<file, entry, heard, sent, writing, server, replica, up, history>>

-----------------------------------------------------------------------------
Base == [has |-> {<<0, 1>>}, gone |-> {}]

\* A document, a file and a record as an earlier run, finished or killed, can
\* have left them.
Init ==
  /\ cloud \in {NoDoc, Base}
  /\ file \in {Absent, TextOf(Base)}
  /\ copies = [p \in Pieces |-> Cardinality({e \in cloud.has : e[1] = p})]
  /\ entry \in {None, TextOf(Base)} /\ timer = FALSE
  /\ main = "initial" /\ cycle = [Idle EXCEPT !.at = "read"]
  /\ heard = NoDoc /\ queued = FALSE /\ sent = None /\ writing = FALSE
  /\ replica = NoDoc /\ link = Closed /\ up = <<>> /\ down = <<>>
  /\ edits = 0 /\ breaks = 0 /\ given = {} /\ unaware = FALSE

Cycle ==
  \/ CycleRead \/ PushFirst \/ PushUpdate \/ Pull \/ Adopt \/ Leave
  \/ Handshake \/ Transfer \/ Record

Connection == Connect \/ Shake \/ Listen \/ Written \/ Notice

Pushing == Fire \/ PushLocal \/ PushRecorded

Users == WebEdit \/ UserSave \/ UserRemove

Next ==
  \/ Cycle \/ Connection \/ ServerReceives \/ Pushing \/ BeginWatch \/ Poll \/ Stop
  \/ Users \/ Break

Spec == Init /\ [][Next]_vars

\* The event loop runs every coroutine that can go on, the watcher fires and
\* the server answers; nobody has to edit or to stop the program.
Fairness ==
  /\ WF_vars(Cycle \/ BeginWatch) /\ WF_vars(Connection) /\ WF_vars(Pushing)
  /\ WF_vars(ServerReceives)

FairSpec == Spec /\ Fairness

-----------------------------------------------------------------------------
(***************************************************************************)
(* Properties.                                                             *)
(***************************************************************************)
Texts == [Pieces -> Nat]

Elements == Pieces \X (Nat \ {0})

Docs == [has : SUBSET Elements, gone : SUBSET Elements]

Messages == [kind : {"step1", "step2", "update"}, doc : Docs]

\* Types; what the document took out it had, and every copy was counted.
TypeOK ==
  /\ file \in Texts \cup {Absent} /\ entry \in Texts \cup {None}
  /\ timer \in BOOLEAN
  /\ main \in {"initial", "connect", "watch", "final", "ended"}
  /\ cycle \in [at : {"off", "read", "decide", "write", "update", "send", "record"},
               text : Texts]
  /\ queued \in BOOLEAN /\ sent \in Texts \cup {None} /\ writing \in BOOLEAN
  /\ cloud \in Docs /\ replica \in Docs /\ heard \in Docs /\ copies \in [Pieces -> Nat]
  /\ link \in [at : {"off", "down", "shake", "up"}, connected : BOOLEAN,
               wire : BOOLEAN, got : SUBSET {"step1", "step2"}]
  /\ up \in Seq(Messages) /\ down \in Seq(Messages)
  /\ edits \in 0..MaxEvents /\ breaks \in 0..MaxEvents
  /\ given \subseteq Pieces /\ unaware \in BOOLEAN
  /\ cloud.gone \subseteq cloud.has
  /\ \A e \in cloud.has \cup replica.has : e[2] <= copies[e[1]]

\* What the messages on the way to the server bring.
OnTheWay ==
  [has  |-> UNION {up[i].doc.has : i \in 1..Len(up)},
   gone |-> UNION {up[i].doc.gone : i \in 1..Len(up)}]

\* While the connection is up, whatever the replica has, the document has or
\* will have from the messages on the way: also what was saved while it was down
\* or broken, which no message brought (persistent_sync.py:111-121, 187-191).
NothingStranded ==
  InRoom /\ link.connected =>
    LET arriving == Merge(cloud, OnTheWay)
    IN replica.has \subseteq arriving.has /\ replica.gone \subseteq arriving.gone

\* What a push put in the replica reaches the document, also when its transfer
\* failed or its connection broke (persistent_sync.py:111-121, 187-191), as
\* long as the program runs.
PushesArrive ==
  <>[](main \in {"connect", "watch"} =>
         replica.has \subseteq cloud.has /\ replica.gone \subseteq cloud.gone)

\* File and document come to agree while the program watches, if the file was
\* what the replica is when the connection came up; a text that is empty is
\* passed on by neither side (start.py:473-515).
Agrees ==
  <>[](/\ main = "watch" /\ ~unaware /\ file \notin {Absent, Blank}
       /\ TextOf(cloud) # Blank
       => file = TextOf(cloud))

\* "Edits merge correctly with concurrent web users" (docs/cli-reference.md:172):
\* a piece put in while the program watches, which nobody took out, is in the
\* document or in the file.
EditsMerge ==
  \A p \in given :
    TextOf(cloud)[p] > 0 \/ (file # Absent /\ file[p] > 0)

================================================================================
