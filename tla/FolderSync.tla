----------------------------- MODULE FolderSync -----------------------------
(***************************************************************************)
(* The folder sync engine of the CollabMark CLI: cli/src/collabmark/lib/   *)
(* sync_engine.py (reconcile, the execution helpers, run_sync_cycle), the  *)
(* content transfers of lib/crdt_sync.py it awaits, and the watch loop of  *)
(* commands/start.py that starts cycles.                                   *)
(*                                                                         *)
(* A cycle is a coroutine.  All cycles of a process share one event loop   *)
(* and one SyncState object; a step of this module is the code between two *)
(* awaits, or a part of it after which the process may be killed.  While a *)
(* cycle is at a location in Holding the event loop is its own, so no      *)
(* other cycle moves; the user's editor and the web users are other        *)
(* processes and move at any time the constants let them.                  *)
(*                                                                         *)
(* A content hash is represented by the text it is the hash of: SHA-256 is *)
(* taken to be injective, and texts that differ only in CRLF / LF are one  *)
(* member of Texts, because content_hash normalises them.                  *)
(***************************************************************************)
EXTENDS Integers, FiniteSets

CONSTANTS
  NumPaths,    \* files are 1 .. NumPaths, in the sort order of their names
  Docs,        \* cloud document ids; the server refuses a create beyond them
  Texts,       \* file and document contents
  Empty,       \* the empty content
  Mixed,       \* any text two independent insertions merge into
  Absent,      \* no local file
  None,        \* Python's None
  Basename,    \* the last component of each path: the name a trashed file keeps
  Cycles,      \* "poll": the watch loop's; the others: the watcher's, started for
               \* one burst of changes each.  Bound: the cycles at a time
  Failing,     \* the kinds of network failure that happen; "clock" is no
               \* failure: two files are trashed within one second
  WebActs,     \* what web users do
  EditsMidCycle, \* may files and documents be edited while a cycle runs?
  MaxEdits,    \* bound: edits by the user and by web users together
  MaxCrashes   \* bound: kills of the process

Paths == 1 .. NumPaths

Kinds == {"push_new", "push_update", "pull_new", "pull_update",
          "delete_local", "delete_remote", "conflict"}

Entry  == [doc : Docs, hash : Texts]

\* An action and the document it is about: _execute_action asserts that there
\* is one, but for a new file, whose document is still to be created, and for
\* a file to be trashed.
Action == [kind : Kinds \ {"push_new", "delete_local"}, doc : Docs]
          \cup [kind : {"push_new"}, doc : Docs \cup {None}]
          \cup [kind : {"delete_local"}, doc : {None}]

ASSUME FolderSyncAssumption ==
  /\ NumPaths \in Nat \ {0}
  /\ IsFiniteSet(Docs) /\ Docs \subseteq Nat
  /\ Empty \in Texts /\ Mixed \in Texts
  /\ Absent \notin Texts
  /\ None \notin Texts \cup Docs \cup Paths \cup Entry \cup Action
  /\ DOMAIN Basename = Paths
  /\ Failing \subseteq {"fetch", "read", "write", "handshake", "create", "delete", "clock"}
  /\ WebActs \subseteq {"edit", "create", "delete", "return", "rename"}
  /\ EditsMidCycle \in BOOLEAN
  /\ MaxEdits \in Nat /\ MaxCrashes \in Nat

VARIABLES
  local,      \* sync_root: the content of each file, or Absent
  trash,      \* <<path, content>> of the files in projects/{id}/trash
  lastTrash,  \* the last of them, or None
  sidecars,   \* <<path, content>> of the .conflict.<date>.md files
  dirty,      \* a file changed since the watcher last fired
  tracked,    \* state.files = sync.json: the SyncFileEntry of a path, or None
  docAt,      \* cloud: the path a document's folder and title give, or None
  docText,    \* cloud: its CRDT content
  docLive,    \* cloud: it is listed in the synced folder's tree
  pc,         \* location of each cycle
  scan,       \* local_files: what the cycle saw on disk
  view,       \* remote_files: the document it saw at each path
  unread,     \* paths whose content the batch read has not returned yet
  hash,       \* remote_hashes
  plan,       \* actions still to execute: [kind, doc] at each path, or None
  text,       \* `text` / `content` of the action in progress
  current,    \* `current`: what the handshake of an update brought
  edits,      \* history: edits so far
  crashes,    \* history: kills so far
  mine,       \* history: what the user last did to a file
  delivered,  \* history: every text the cloud received for a document
  held,       \* history: <<document, text>>: the file of the document had this text
  lost,       \* history: <<document, text>>: a transfer of the text failed
  unanswered, \* history: documents whose creation was answered to nobody
  disturbed   \* history: the cycles under way during which another one ran, or
              \* somebody edited

disk    == <<local, trash, lastTrash, sidecars, dirty>>
cloud   == <<docAt, docText, docLive, delivered>>
cycle   == <<pc, scan, view, unread, hash, plan, text, current>>
history == <<edits, crashes, mine, held, lost, unanswered>>
vars    == <<disk, tracked, cloud, cycle, history, disturbed>>

Holding == {"decide", "run", "record", "store", "untrack"}
Waiting == {"meta", "hash", "create", "write", "update", "send", "pull", "delete",
            "sidecar"}

NoFiles == [p \in Paths |-> Absent]
NoneAt  == [p \in Paths |-> None]

DiskOK ==
  /\ local \in [Paths -> Texts \cup {Absent}]
  /\ trash \subseteq Paths \X Texts
  /\ lastTrash \in (Paths \X Texts) \cup {None}
  /\ sidecars \subseteq Paths \X Texts
  /\ dirty \in BOOLEAN

CloudOK ==
  /\ docAt \in [Docs -> Paths \cup {None}]
  /\ docText \in [Docs -> Texts]
  /\ docLive \in [Docs -> BOOLEAN]
  /\ delivered \in [Docs -> SUBSET Texts]

CycleOK ==
  /\ pc \in [Cycles -> {"idle"} \cup Holding \cup Waiting]
  /\ scan \in [Cycles -> [Paths -> Texts \cup {Absent}]]
  /\ view \in [Cycles -> [Paths -> Docs \cup {None}]]
  /\ unread \in [Cycles -> SUBSET Paths]
  /\ hash \in [Cycles -> [Paths -> Texts \cup {None}]]
  /\ plan \in [Cycles -> [Paths -> Action \cup {None}]]
  /\ text \in [Cycles -> Texts]
  /\ current \in [Cycles -> Texts]

HistoryOK ==
  /\ edits \in 0 .. MaxEdits
  /\ crashes \in 0 .. MaxCrashes
  /\ mine \in [Paths -> Texts \cup {Absent}]
  /\ held \subseteq Docs \X Texts /\ lost \subseteq Docs \X Texts
  /\ unanswered \subseteq Docs

\* The types; those of plan say that every action has the document that
\* _execute_action asserts it has.
TypeOK ==
  /\ DiskOK /\ CloudOK /\ CycleOK /\ HistoryOK
  /\ tracked \in [Paths -> Entry \cup {None}]
  /\ disturbed \subseteq Cycles

Init ==
  /\ local = NoFiles
  /\ trash = {} /\ lastTrash = None /\ sidecars = {}
  /\ dirty = FALSE
  /\ tracked = NoneAt
  /\ docAt = [d \in Docs |-> None]
  /\ docText = [d \in Docs |-> Empty]
  /\ docLive = [d \in Docs |-> FALSE]
  /\ pc = [c \in Cycles |-> "idle"]
  /\ scan = [c \in Cycles |-> NoFiles]
  /\ view = [c \in Cycles |-> NoneAt]
  /\ unread = [c \in Cycles |-> {}]
  /\ hash = [c \in Cycles |-> NoneAt]
  /\ plan = [c \in Cycles |-> NoneAt]
  /\ text = [c \in Cycles |-> Empty]
  /\ current = [c \in Cycles |-> Empty]
  /\ edits = 0 /\ crashes = 0
  /\ mine = NoFiles
  /\ delivered = [d \in Docs |-> {Empty}]
  /\ held = {} /\ lost = {} /\ unanswered = {} /\ disturbed = {}

-----------------------------------------------------------------------------
(* The cloud.                                                              *)

LiveAt(p) == {d \in Docs : docLive[d] /\ docAt[d] = p}

\* Ids are handed out in order.
FreshDocs == {d \in Docs : docAt[d] = None /\ \A e \in Docs : e < d => docAt[e] # None}

\* POST /api/documents: a new document, empty, at path p.
AddDoc(d, p) ==
  /\ d \in FreshDocs
  /\ docAt' = [docAt EXCEPT ![d] = p]
  /\ docLive' = [docLive EXCEPT ![d] = TRUE]

\* The content of document d becomes t.
SetText(d, t) ==
  /\ docText' = [docText EXCEPT ![d] = t]
  /\ delivered' = [delivered EXCEPT ![d] = @ \cup {t}]

\* A replica that has seen content s of document d turns it into t; changes it
\* has not seen are merged with this one.
MergeText(d, s, t) ==
  /\ docText' = [docText EXCEPT ![d] = IF @ = s THEN t ELSE Mixed]
  /\ delivered' = [delivered EXCEPT ![d] = @ \cup {t, docText'[d]}]

-----------------------------------------------------------------------------
(* Control of a cycle.                                                     *)

LoopFree(c) == \A o \in Cycles \ {c} : pc[o] \notin Holding

At(c, where) == pc[c] = where /\ LoopFree(c)

Goto(c, where) == pc' = [pc EXCEPT ![c] = where]

\* The next action of the plan: actions are executed in path order.
IsHead(c, p) ==
  /\ plan[c][p] # None
  /\ \A q \in Paths : plan[c][q] # None => p <= q

Planned(c, p, kinds) == At(c, "run") /\ IsHead(c, p) /\ plan[c][p].kind \in kinds

\* The action at p is over: on to the next one.
NextAction(c, p) ==
  /\ Goto(c, "run")
  /\ plan' = [plan EXCEPT ![c][p] = None]
  /\ text' = [text EXCEPT ![c] = Empty]
  /\ UNCHANGED current

\* An exception leaves run_sync_cycle; _sync_once catches it.
Abort(c) ==
  /\ Goto(c, "idle")
  /\ scan' = [scan EXCEPT ![c] = NoFiles]
  /\ unread' = [unread EXCEPT ![c] = {}]
  /\ plan' = [plan EXCEPT ![c] = NoneAt]
  /\ text' = [text EXCEPT ![c] = Empty]
  /\ UNCHANGED <<view, hash, current>>

-----------------------------------------------------------------------------
(* Scan and decide.                                                        *)

\* A cycle starts: every .md file under the root is read and hashed.  The
\* watch loop starts one each interval and awaits it; the watcher starts one
\* after each burst of changes, whatever cycles are under way.
Begin(c) ==
  /\ At(c, "idle")
  /\ c # "poll" => dirty
  /\ dirty' = IF c = "poll" THEN dirty ELSE FALSE
  /\ scan' = [scan EXCEPT ![c] = local]
  /\ Goto(c, "meta")
  /\ UNCHANGED <<local, trash, lastTrash, sidecars, tracked, cloud, view, unread,
                 hash, plan, text, current, history>>

\* The folder tree arrives.  Of two documents with one title the last listed
\* wins, and the tree lists them in no fixed order.
FetchMeta(c) ==
  /\ At(c, "meta")
  /\ \E v \in [Paths -> Docs \cup {None}] :
       /\ \A p \in Paths : IF LiveAt(p) = {} THEN v[p] = None ELSE v[p] \in LiveAt(p)
       /\ view' = [view EXCEPT ![c] = v]
       /\ LET need == {p \in Paths : v[p] # None /\ (tracked[p] # None \/ scan[c][p] # Absent)}
          IN  /\ unread' = [unread EXCEPT ![c] = need]
              /\ Goto(c, IF need = {} THEN "decide" ELSE "hash")
  /\ UNCHANGED <<disk, tracked, cloud, scan, hash, plan, text, current, history>>

\* Mutant of FetchFailed: the failure is swallowed and the folder looks empty.
FetchSwallowed(c) ==
  /\ "fetch" \in Failing
  /\ At(c, "meta")
  /\ Goto(c, "decide")
  /\ UNCHANGED <<disk, tracked, cloud, scan, view, unread, hash, plan, text, current, history>>

\* The tree request and its fallback both fail.
FetchFailed(c) ==
  /\ "fetch" \in Failing
  /\ At(c, "meta")
  /\ Abort(c)
  /\ UNCHANGED <<disk, tracked, cloud, history>>

\* What a WebSocket read of document d returns: a failed one returns "".
ReadResult(d) == {docText[d]} \cup (IF "read" \in Failing THEN {Empty} ELSE {})

\* One read of the batch returns; after the last one the cycle goes on.
ReadHash(c, p) ==
  /\ At(c, "hash") /\ p \in unread[c]
  /\ \E t \in ReadResult(view[c][p]) : hash' = [hash EXCEPT ![c][p] = t]
  /\ unread' = [unread EXCEPT ![c] = @ \ {p}]
  /\ Goto(c, IF unread[c] = {p} THEN "decide" ELSE "hash")
  /\ UNCHANGED <<disk, tracked, cloud, scan, view, plan, text, current, history>>

\* _decide_action, for local content l, SyncFileEntry e, cloud document d and
\* cloud content h.  A tracked file that is on both sides is compared with the
\* base, the content of the last sync.

\* Mutant of ChangedKind: a remote change is looked at first and wins.
RemoteFirst(l, e, h) ==
  CASE h # None /\ h # e.hash -> "pull_update"
    [] h \in {None, e.hash} /\ l # e.hash -> "push_update"
    [] OTHER -> None

\* Mutant of ChangedKind: a local change is looked at first and wins.
LocalFirst(l, e, h) ==
  CASE l # e.hash -> "push_update"
    [] l = e.hash /\ h # None /\ h # e.hash -> "pull_update"
    [] OTHER -> None

ChangedKind(l, e, h) ==
  LET localChanged  == l # e.hash
      remoteChanged == h # None /\ h # e.hash
  IN  CASE localChanged /\ remoteChanged -> "conflict"
        [] localChanged /\ ~remoteChanged -> "push_update"
        [] ~localChanged /\ remoteChanged -> "pull_update"
        [] OTHER -> None

TrackedKind(l, e, d, h) ==
  CASE l # Absent /\ d # None -> ChangedKind(l, e, h)
    [] l = Absent /\ d # None -> "delete_remote"
    [] l # Absent /\ d = None -> "delete_local"
    [] OTHER -> None

\* Mutant of UntrackedKind: every untracked file is pushed as a new one.
PushUntracked(l, d, h) ==
  IF l # Absent THEN "push_new" ELSE IF d # None THEN "pull_new" ELSE None

\* Mutant of UntrackedKind: a document without a file counts as removed here.
RemoveUntracked(l, d, h) ==
  CASE l # Absent /\ d = None -> "push_new"
    [] l = Absent /\ d # None -> "delete_remote"
    [] l # Absent /\ d # None -> IF h = l THEN None ELSE "conflict"
    [] OTHER -> None

\* Mutant of UntrackedKind: a file that is on both sides counts as synced.
TrustUntracked(l, d, h) ==
  CASE l # Absent /\ d = None -> "push_new"
    [] l = Absent /\ d # None -> "pull_new"
    [] OTHER -> None

UntrackedKind(l, d, h) ==
  CASE l # Absent /\ d = None -> "push_new"
    [] l = Absent /\ d # None -> "pull_new"
    [] l # Absent /\ d # None -> IF h = l THEN None ELSE "conflict"
    [] OTHER -> None

Decision(l, e, d, h) ==
  IF e = None THEN UntrackedKind(l, d, h) ELSE TrackedKind(l, e, d, h)

\* Mutant of DecideAction: only the entry's document is looked at.
EntryDocOnly(l, e, d, h) ==
  LET kind == Decision(l, e, d, h)
  IN  IF kind = None THEN None
      ELSE [kind |-> kind, doc |-> IF e # None /\ kind # "delete_local" THEN e.doc ELSE None]

DecideAction(l, e, d, h) ==
  LET kind == Decision(l, e, d, h)
  IN  IF kind = None THEN None
      ELSE [kind |-> kind,
            doc  |-> IF kind \in {"push_new", "delete_local"} THEN None
                     ELSE IF e # None THEN e.doc ELSE d]

\* reconcile, with the state as it is when the last read has returned.
Reconcile(c) ==
  /\ At(c, "decide")
  /\ plan' = [plan EXCEPT ![c] =
       [p \in Paths |-> DecideAction(scan[c][p], tracked[p], view[c][p], hash[c][p])]]
  /\ scan' = [scan EXCEPT ![c] = NoFiles]
  /\ view' = [view EXCEPT ![c] = NoneAt]
  /\ hash' = [hash EXCEPT ![c] = NoneAt]
  /\ Goto(c, "run")
  /\ UNCHANGED <<disk, tracked, cloud, unread, text, current, history>>

\* No action is left: the cycle ends.
Finish(c) ==
  /\ At(c, "run")
  /\ plan[c] = NoneAt
  /\ Goto(c, "idle")
  /\ UNCHANGED <<disk, tracked, cloud, scan, view, unread, hash, plan, text, current, history>>

-----------------------------------------------------------------------------
(* push_new_file and push_update.                                          *)

Pushes == {"push_new", "push_update"}

\* The file is read again; an empty content is never sent.
StartPush(c, p) ==
  /\ Planned(c, p, Pushes)
  /\ local[p] # Absent
  /\ text' = [text EXCEPT ![c] = local[p]]
  /\ Goto(c, IF plan[c][p].kind = "push_new" THEN "create"
             ELSE IF local[p] = Empty THEN "record" ELSE "update")
  /\ held' = IF plan[c][p].kind = "push_new" THEN held
             ELSE held \cup {<<plan[c][p].doc, local[p]>>}
  /\ UNCHANGED <<disk, tracked, cloud, scan, view, unread, hash, plan,
                 current, edits, crashes, mine, lost, unanswered>>

\* read_text raises: the file is gone since the scan.
PushMissing(c, p) ==
  /\ Planned(c, p, Pushes)
  /\ local[p] = Absent
  /\ Abort(c)
  /\ UNCHANGED <<disk, tracked, cloud, history>>

\* The document is created and its id returned.
CreateDoc(c, p) ==
  /\ At(c, "create") /\ IsHead(c, p)
  /\ \E d \in FreshDocs :
       /\ AddDoc(d, p)
       /\ plan' = [plan EXCEPT ![c][p].doc = d]
       /\ held' = held \cup {<<d, text[c]>>}
  /\ Goto(c, IF text[c] = Empty THEN "record" ELSE "write")
  /\ UNCHANGED <<disk, tracked, docText, delivered, scan, view, unread, hash, text, current,
                 edits, crashes, mine, lost, unanswered>>

\* The document is created but the answer is lost: _request sends the POST
\* again.
CreateRetried(c, p) ==
  /\ "create" \in Failing
  /\ At(c, "create") /\ IsHead(c, p)
  /\ \E d \in FreshDocs : AddDoc(d, p) /\ unanswered' = unanswered \cup {d}
  /\ UNCHANGED <<disk, tracked, docText, delivered, cycle, edits, crashes, mine, held, lost>>

\* The request is refused (the document limit), or fails for good.
CreateFailed(c) ==
  /\ "create" \in Failing \/ FreshDocs = {}
  /\ At(c, "create")
  /\ Abort(c)
  /\ UNCHANGED <<disk, tracked, cloud, history>>

\* write_content_via_ws: a replica holding only the new content syncs.
WriteNew(c, p) ==
  /\ At(c, "write") /\ IsHead(c, p)
  /\ MergeText(plan[c][p].doc, Empty, text[c])
  /\ Goto(c, "record")
  /\ UNCHANGED <<disk, tracked, docAt, docLive, scan, view, unread, hash, plan, text, current,
                 history>>

\* update_content_via_ws: the handshake brings the content of the document; if
\* it timed out the replica is still empty.
Shake(c, p) ==
  /\ At(c, "update") /\ IsHead(c, p)
  /\ \E t \in {docText[plan[c][p].doc]}
            \cup (IF "handshake" \in Failing THEN {Empty} ELSE {}) :
       current' = [current EXCEPT ![c] = t]
  /\ Goto(c, "send")
  /\ UNCHANGED <<disk, tracked, cloud, scan, view, unread, hash, plan, text, history>>

\* Mutant of UpdateDoc: without a handshake nothing is sent, and nobody told.
UpdateSkipped(c, p) ==
  /\ At(c, "send") /\ IsHead(c, p)
  /\ IF current[c] \in {text[c], Empty}
     THEN UNCHANGED <<docText, delivered>>
     ELSE MergeText(plan[c][p].doc, current[c], text[c])
  /\ current' = [current EXCEPT ![c] = Empty]
  /\ Goto(c, "record")
  /\ UNCHANGED <<disk, tracked, docAt, docLive, scan, view, unread, hash, plan, text, history>>

\* The content it brought is turned into the new one, unless it is the same.
UpdateDoc(c, p) ==
  /\ At(c, "send") /\ IsHead(c, p)
  /\ IF current[c] = text[c]
     THEN UNCHANGED <<docText, delivered>>
     ELSE MergeText(plan[c][p].doc, current[c], text[c])
  /\ current' = [current EXCEPT ![c] = Empty]
  /\ Goto(c, "record")
  /\ UNCHANGED <<disk, tracked, docAt, docLive, scan, view, unread, hash, plan, text, history>>

\* The transfer fails; the exception is logged and swallowed.
WriteLost(c, p) ==
  /\ "write" \in Failing
  /\ \E where \in {"write", "update", "send"} : At(c, where)
  /\ IsHead(c, p)
  /\ lost' = lost \cup {<<plan[c][p].doc, text[c]>>}
  /\ current' = [current EXCEPT ![c] = Empty]
  /\ Goto(c, "record")
  /\ UNCHANGED <<disk, tracked, cloud, scan, view, unread, hash, plan, text,
                 edits, crashes, mine, held, unanswered>>

\* state.files[rel_path] = SyncFileEntry(...); save_sync_state(...)
Record(c, p) ==
  /\ At(c, "record") /\ IsHead(c, p)
  /\ tracked' = [tracked EXCEPT ![p] = [doc |-> plan[c][p].doc, hash |-> text[c]]]
  /\ NextAction(c, p)
  /\ UNCHANGED <<disk, cloud, scan, view, unread, hash, history>>

-----------------------------------------------------------------------------
(* pull_file.                                                              *)

Pulls == {"pull_new", "pull_update"}

StartPull(c, p) ==
  /\ Planned(c, p, Pulls)
  /\ Goto(c, "pull")
  /\ UNCHANGED <<disk, tracked, cloud, scan, view, unread, hash, plan, text, current, history>>

PullRead(c, p) ==
  /\ At(c, "pull") /\ IsHead(c, p)
  /\ \E t \in ReadResult(plan[c][p].doc) : text' = [text EXCEPT ![c] = t]
  /\ Goto(c, "store")
  /\ UNCHANGED <<disk, tracked, cloud, scan, view, unread, hash, plan, current, history>>

NonEmptyFile(p) == local[p] \notin {Absent, Empty}

\* An empty content never replaces a file that is not empty.
PullRefused(c, p) ==
  /\ At(c, "store") /\ IsHead(c, p)
  /\ text[c] = Empty /\ NonEmptyFile(p)
  /\ NextAction(c, p)
  /\ UNCHANGED <<disk, tracked, cloud, scan, view, unread, hash, history>>

PullStore(c, p) ==
  /\ At(c, "store") /\ IsHead(c, p)
  /\ text[c] = Empty => ~NonEmptyFile(p)
  /\ local' = [local EXCEPT ![p] = text[c]]
  /\ held' = held \cup {<<plan[c][p].doc, text[c]>>}
  /\ dirty' = TRUE
  /\ Goto(c, "record")
  /\ UNCHANGED <<trash, lastTrash, sidecars, tracked, cloud, scan, view, unread, hash,
                 plan, text, current, edits, crashes, mine, lost, unanswered>>

-----------------------------------------------------------------------------
(* delete_remote, delete_local and _handle_conflict.                       *)

StartDelete(c, p) ==
  /\ Planned(c, p, {"delete_remote"})
  /\ Goto(c, "delete")
  /\ UNCHANGED <<disk, tracked, cloud, scan, view, unread, hash, plan, text, current, history>>

DeleteRemote(c, p) ==
  /\ At(c, "delete") /\ IsHead(c, p)
  /\ docLive' = [docLive EXCEPT ![plan[c][p].doc] = FALSE]
  /\ Goto(c, "untrack")
  /\ UNCHANGED <<disk, tracked, docAt, docText, delivered, scan, view, unread, hash, plan,
                 text, current, history>>

\* The request is refused, or fails for good although it took effect.
DeleteFailed(c, p) ==
  /\ "delete" \in Failing
  /\ At(c, "delete") /\ IsHead(c, p)
  /\ \E live \in {docLive[plan[c][p].doc], FALSE} :
       docLive' = [docLive EXCEPT ![plan[c][p].doc] = live]
  /\ Abort(c)
  /\ UNCHANGED <<disk, tracked, docAt, docText, delivered, history>>

\* The trash name is the second and the file's last name: rename replaces a
\* file trashed in the same second under the same name.
Collides(p) ==
  "clock" \in Failing /\ lastTrash # None /\ Basename[lastTrash[1]] = Basename[p]

DeleteLocal(c, p) ==
  /\ Planned(c, p, {"delete_local"})
  /\ IF local[p] = Absent
     THEN UNCHANGED disk
     ELSE /\ \/ trash' = trash \cup {<<p, local[p]>>}
             \/ Collides(p) /\ trash' = (trash \ {lastTrash}) \cup {<<p, local[p]>>}
          /\ lastTrash' = <<p, local[p]>>
          /\ local' = [local EXCEPT ![p] = Absent]
          /\ dirty' = TRUE
          /\ UNCHANGED sidecars
  /\ Goto(c, "untrack")
  /\ UNCHANGED <<tracked, cloud, scan, view, unread, hash, plan, text, current, history>>

\* state.files.pop(rel_path, None); save_sync_state(...)
Untrack(c, p) ==
  /\ At(c, "untrack") /\ IsHead(c, p)
  /\ tracked' = [tracked EXCEPT ![p] = None]
  /\ NextAction(c, p)
  /\ UNCHANGED <<disk, cloud, scan, view, unread, hash, history>>

StartConflict(c, p) ==
  /\ Planned(c, p, {"conflict"})
  /\ Goto(c, "sidecar")
  /\ UNCHANGED <<disk, tracked, cloud, scan, view, unread, hash, plan, text, current, history>>

\* The cloud content goes to a sidecar file; an empty or unreadable one is
\* replaced by a notice.  Nothing else changes but the entry's timestamp.
WriteSidecar(c, p) ==
  /\ At(c, "sidecar") /\ IsHead(c, p)
  /\ \E t \in ReadResult(plan[c][p].doc) :
       sidecars' = IF t = Empty THEN sidecars ELSE sidecars \cup {<<p, t>>}
  /\ NextAction(c, p)
  /\ UNCHANGED <<local, trash, lastTrash, dirty, tracked, cloud, scan, view, unread, hash,
                 history>>

-----------------------------------------------------------------------------
(* The process is killed, or stopped while a cycle waits, and restarted    *)
(* from sync.json.                                                         *)
Crash ==
  /\ crashes < MaxCrashes
  /\ crashes' = crashes + 1
  /\ \E c \in Cycles : pc[c] # "idle"
  /\ pc' = [c \in Cycles |-> "idle"]
  /\ scan' = [c \in Cycles |-> NoFiles]
  /\ view' = [c \in Cycles |-> NoneAt]
  /\ unread' = [c \in Cycles |-> {}]
  /\ hash' = [c \in Cycles |-> NoneAt]
  /\ plan' = [c \in Cycles |-> NoneAt]
  /\ text' = [c \in Cycles |-> Empty]
  /\ current' = [c \in Cycles |-> Empty]
  /\ disturbed' = {}
  /\ UNCHANGED <<disk, tracked, cloud, edits, mine, held, lost, unanswered>>

-----------------------------------------------------------------------------
(* The user's editor and the web users.                                    *)

MayEdit ==
  /\ edits < MaxEdits
  /\ EditsMidCycle \/ \A c \in Cycles : pc[c] = "idle"

Typed == Texts \ {Mixed}

UserSave(p, t) ==
  /\ MayEdit /\ edits' = edits + 1
  /\ t # local[p]
  /\ local' = [local EXCEPT ![p] = t]
  /\ mine' = [mine EXCEPT ![p] = t]
  /\ dirty' = TRUE
  /\ UNCHANGED <<trash, lastTrash, sidecars, tracked, cloud, cycle, crashes, held, lost,
                 unanswered>>

UserRemove(p) ==
  /\ MayEdit /\ edits' = edits + 1
  /\ local[p] # Absent
  /\ local' = [local EXCEPT ![p] = Absent]
  /\ mine' = [mine EXCEPT ![p] = Absent]
  /\ dirty' = TRUE
  /\ UNCHANGED <<trash, lastTrash, sidecars, tracked, cloud, cycle, crashes, held, lost,
                 unanswered>>

WebEdit(d, t) ==
  /\ "edit" \in WebActs
  /\ MayEdit /\ edits' = edits + 1
  /\ docLive[d] /\ t # docText[d]
  /\ SetText(d, t)
  /\ UNCHANGED <<disk, tracked, docAt, docLive, cycle, crashes, mine, held, lost, unanswered>>

WebCreate(p, t) ==
  /\ "create" \in WebActs
  /\ MayEdit /\ edits' = edits + 1
  /\ LiveAt(p) = {}
  /\ \E d \in FreshDocs : AddDoc(d, p) /\ SetText(d, t)
  /\ UNCHANGED <<disk, tracked, cycle, crashes, mine, held, lost, unanswered>>

WebDelete(d) ==
  /\ "delete" \in WebActs
  /\ MayEdit /\ edits' = edits + 1
  /\ docLive[d]
  /\ docLive' = [docLive EXCEPT ![d] = FALSE]
  /\ UNCHANGED <<disk, tracked, docAt, docText, delivered, cycle, crashes, mine, held, lost,
                 unanswered>>

\* A deleted document is taken out of the trash into the folder again.
WebReturn(d) ==
  /\ "return" \in WebActs
  /\ MayEdit /\ edits' = edits + 1
  /\ docAt[d] # None /\ ~docLive[d] /\ LiveAt(docAt[d]) = {}
  /\ docLive' = [docLive EXCEPT ![d] = TRUE]
  /\ UNCHANGED <<disk, tracked, docAt, docText, delivered, cycle, crashes, mine, held, lost,
                 unanswered>>

WebRename(d, p) ==
  /\ "rename" \in WebActs
  /\ MayEdit /\ edits' = edits + 1
  /\ docLive[d] /\ LiveAt(p) = {}
  /\ docAt' = [docAt EXCEPT ![d] = p]
  /\ UNCHANGED <<disk, tracked, docText, docLive, delivered, cycle, crashes, mine, held, lost,
                 unanswered>>

-----------------------------------------------------------------------------

ActionStep(c, p) ==
  \/ ReadHash(c, p)
  \/ StartPush(c, p) \/ PushMissing(c, p)
  \/ CreateDoc(c, p) \/ CreateRetried(c, p)
  \/ WriteNew(c, p) \/ Shake(c, p) \/ UpdateDoc(c, p) \/ WriteLost(c, p)
  \/ StartPull(c, p) \/ PullRead(c, p) \/ PullRefused(c, p) \/ PullStore(c, p)
  \/ StartDelete(c, p) \/ DeleteRemote(c, p) \/ DeleteFailed(c, p) \/ DeleteLocal(c, p)
  \/ StartConflict(c, p) \/ WriteSidecar(c, p)
  \/ Record(c, p) \/ Untrack(c, p)

CycleStep(c) ==
  \/ Begin(c) \/ FetchMeta(c) \/ FetchFailed(c) \/ Reconcile(c) \/ Finish(c)
  \/ CreateFailed(c)
  \/ \E p \in Paths : ActionStep(c, p)

Environment ==
  \/ \E p \in Paths, t \in Typed : UserSave(p, t) \/ WebCreate(p, t)
  \/ \E p \in Paths : UserRemove(p)
  \/ \E d \in Docs, t \in Typed : WebEdit(d, t)
  \/ \E d \in Docs : WebDelete(d) \/ WebReturn(d)
  \/ \E d \in Docs, p \in Paths : WebRename(d, p)

Busy == {c \in Cycles : pc[c] # "idle"}

\* Two cycles that are under way disturb each other.
Overlaps == disturbed' = {c \in Busy' : c \in disturbed \/ Busy' # {c}}

Next ==
  \/ \E c \in Cycles : CycleStep(c) /\ Overlaps
  \/ Crash
  \/ Environment /\ disturbed' = Busy

Spec == Init /\ [][Next]_vars

\* The event loop runs every ready coroutine, the watch loop starts a cycle
\* every interval, and the network is not down for good; nobody has to edit.
Fairness ==
  \A c \in Cycles : SF_vars(CycleStep(c) /\ Overlaps) /\ SF_vars(FetchMeta(c) /\ Overlaps)

FairSpec == Spec /\ Fairness

-----------------------------------------------------------------------------
(* Properties.                                                             *)

\* The cloud received text t for document d, or a transfer of it was lost.
Sent(d, t) == t \in delivered[d] \/ <<d, t>> \in lost

\* The base of the three-way comparison was common: the hash sync.json holds
\* for a file is that of a content the cloud received for the document
\* ("stored after every successful sync", docs/cli-reference.md), or of one
\* whose transfer failed, which the engine takes for a sync.
BaseReachedCloud == \A p \in Paths : tracked[p] # None => Sent(tracked[p].doc, tracked[p].hash)

\* Nothing the user saved is lost but by a failed transfer: the last content
\* the user gave a file is in the file, in the trash, or was sent.
LocalWorkKept ==
  \A p \in Paths :
    mine[p] \in Texts \ {Empty} =>
      \/ local[p] = mine[p]
      \/ <<p, mine[p]>> \in trash
      \/ \E d \in Docs : Sent(d, mine[p])

\* A step of a cycle during which no other one ran and nobody edited, whatever
\* happened before it began.
QuietStep == \E c \in Cycles \ disturbed : pc'[c] # pc[c]

\* d is the document at path p, and no other one, deleted or not, has this path.
Only(p, d) == docLive[d] /\ {e \in Docs : docAt[e] = p} = {d}

\* Document d is where every file it was synced as is.
Placed(d) ==
  /\ Only(docAt[d], d)
  /\ \A p \in Paths : tracked[p] # None => (tracked[p].doc = d => docAt[d] = p)

\* A read of document d that failed, and returned nothing, looks like its base.
Misread(d) ==
  "read" \in Failing /\ \E p \in Paths : tracked[p] = [doc |-> d, hash |-> Empty]

\* Nothing in the cloud is overwritten unseen ("Modified | Modified | CONFLICT
\* (neither overwritten)", docs/cli-reference.md): a cycle that is not disturbed
\* replaces only a content that the file of the document had.  Left out are a
\* document that was deleted or renamed while an entry still names it, and one
\* of several of a path: the engine compares with the one and writes to the
\* other; and a document whose file was last synced empty, if reads may fail.
RemoteWorkKept ==
  [][\A d \in Docs :
       docText'[d] # docText[d] /\ QuietStep /\ docText[d] # Empty /\ Placed(d) =>
         <<d, docText[d]>> \in held \/ Misread(d)]_vars

\* A path has one document: a cycle that is not disturbed never makes a second
\* one there, whatever earlier cycles left when they were killed; but beside a
\* document of whose creation nobody was told.
OneDocPerPath ==
  [][\A d \in Docs :
       ~docLive[d] /\ docLive'[d] /\ QuietStep => LiveAt(docAt'[d]) \subseteq unanswered]_vars

\* A cycle that is not disturbed deletes a document only while a file it was
\* synced as is missing ("Local file deleted", docs/architecture.md).
DeletesOnlyRemoved ==
  [][\A d \in Docs :
       docLive[d] /\ ~docLive'[d] /\ QuietStep =>
         \E p \in Paths, t \in Texts :
           tracked[p] = [doc |-> d, hash |-> t] /\ local[p] = Absent]_vars

\* It moves a file to the trash only while no document is there.
TrashesOnlyDeleted ==
  [][\A p \in Paths :
       local[p] # Absent /\ local'[p] = Absent /\ QuietStep => LiveAt(p) = {}]_vars

Agreed(p) ==
  IF LiveAt(p) = {} THEN local[p] = Absent ELSE \A d \in LiveAt(p) : local[p] = docText[d]

\* Both sides hold a content of their own and a sidecar tells the user.
InConflict(p) == \E d \in LiveAt(p) : <<p, docText[d]>> \in sidecars /\ local[p] # docText[d]

\* The document was emptied, or never filled: an empty content is not moved.
EmptyHeld(p) == \E d \in LiveAt(p) : docText[d] = Empty

\* At most one document is at p, and it is the one the file was synced with.
OneDocument(p) ==
  /\ Cardinality(LiveAt(p)) <= 1
  /\ tracked[p] # None => LiveAt(p) \subseteq {tracked[p].doc}

Settled(p) == Agreed(p) \/ InConflict(p) \/ EmptyHeld(p)

\* Once nobody edits, every file comes to agree with the cloud, or is in a
\* conflict the user has been told of.  A path with a second document, or
\* with another one than the file was synced with, is left out: cycles go on
\* reading the one and writing the other for ever.
Converges == <>[](\A p \in Paths : OneDocument(p) => Settled(p))

=============================================================================
