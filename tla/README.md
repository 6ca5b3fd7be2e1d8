# CollabMark in TLA+

CollabMark is a collaborative Markdown editor: a FastAPI backend over MongoDB and
Redis, a web frontend on Yjs, and a command line client (`collabmark`) that keeps
a local folder in step with a cloud folder. This directory holds TLA+ modules of
its stateful parts, the TLC configurations that model-check them, and TLAPS proofs
about them. Everything is translated from the source; paths below are relative to
`src/`.

- [Inventory](#inventory): the parts of the system and what makes each correct
- [Modules](#modules): what is modelled, and how it corresponds to the code
- [Runs](#runs): what TLC checks, on which instances
- [Fairness](#fairness)
- [Proofs](#proofs): what holds for every value of the constants
- [Where code and documentation disagree](#where-code-and-documentation-disagree)
- [Not modelled](#not-modelled)
- [Plan](#plan)

To repeat a run: `tlc -config Notifications.cfg MCNotifications`. To repeat a proof:
`tlapm FolderSyncProofs.tla`.

## Inventory

| part | code | state | operations | interacts with | correct when |
|---|---|---|---|---|---|
| Folder sync engine | `cli/.../lib/sync_engine.py`, `commands/start.py`, `lib/watcher.py`, `lib/config.py` | `sync.json` (`SyncState.files`: per path a document id and the hash of the last sync), the trash | scan, reconcile, push, pull, delete, conflict; one cycle each interval and one after each burst of file events | documents and folders over REST, document contents over WebSocket, the user's editor through the disk | no edit of either side is lost; nothing is deleted that was not deleted; both sides converge |
| CRDT transfers | `cli/.../lib/crdt_sync.py` | none between calls | read, write, update a document over one WebSocket | collaboration rooms | a transfer that returned has happened |
| Single document sync | `commands/start.py` (`_doc_watch_loop`), `lib/persistent_sync.py` | a replica, the file and its entry in `sync.json`, an echo flag, one connection | push after a file event, write after a remote update, reconnect, poll as a fallback, a last cycle | collaboration rooms, the user's editor | what was pushed arrives; file and document come to agree; nobody's edit is taken out |
| Process registry | `cli/.../lib/registry.py`, `daemon.py`, `commands/stop.py`, `clean.py`, `status.py` | `registry.json`, one entry per path, and PID files | register, heartbeat, mark stopped, unregister, prune; list, stop, clean | every CLI process of the user | no update undoes another; an entry does not say `running` for ever when its process is gone |
| CLI login and commands | `cli/.../lib/auth.py`, `browser_auth.py`, `commands/*` | the key ring | login, logout, doctor, conflicts, clean | authentication | sequential |
| Collaboration rooms | `backend/app/ws/handler.py`, `routes/ws.py` | rooms by document, the FIFO of pending users, cached permissions | connect, message, disconnect, permission re-check | CRDT store, ACL | no edit taken over is lost but to a restart; no write long after a permission is gone; everybody connected gets everything |
| CRDT store | `backend/app/services/crdt_store.py` | updates of each document in MongoDB | write, read, compact (no caller) | rooms, CLI transfers | what is stored stays; each update is stored with a user |
| Folders and their trash | `backend/app/services/folder_service.py` | tree of folders, deleted flags | create, rename, move, soft delete, restore, hard delete | documents, ACL | the tree has no cycle; nothing live is under a deleted folder |
| Access control | `backend/app/services/acl_service.py`, `models/share_link.py` | access records of users and groups | resolve a permission along the parent chain | folders, documents, sharing, groups | the resolvers agree; only owners delete; a root owner rules what is under the root |
| Documents | `backend/app/services/document_service.py` | documents, deleted flags | create, update, move, delete, restore | folders, ACL, versions | the quota holds; a deleted document is not listed |
| Version history | `backend/app/services/version_service.py` | snapshots, numbered per document | snapshot, list, restore | documents | numbers are unique and increase |
| Sharing | `share_service.py`, `group_sharing_service.py` | access records | grant, update, revoke | notifications, ACL | one record per user and entity |
| Comments | `comment_service.py` | comments and replies | create, reply, resolve, delete | notifications | a reply has its parent |
| Notifications | `notification_dispatcher.py`, `notification_scheduler.py`, `notification_retry.py` | `Notification` documents, a Redis sorted set, a Redis list | schedule, take what is due, validate, send, retry | sharing, comments, mail | what was undone in time is not sent; retries end; everything scheduled is settled |
| Notification channels | `services/channels/*` | none | render and mail | SMTP or Resend | a failure is reported |
| Organizations, groups, SCIM | `org_service.py`, `scim_service.py`, `routes/orgs.py`, `routes/scim.py`, `auth/sso_common.py` | organizations, member rows, `User.org_id`, groups, their rows and their `scim_members`, SCIM tokens | create, add, remove, change role, provision users and groups, map a group to the admin role, log in by SSO | ACL | no tenant reaches into another; nobody becomes an admin unasked; accounts, rows and rosters agree |
| Authentication, API keys | `app/auth/*`, `routes/auth.py`, `routes/keys.py` | login codes in memory, keys | log in, exchange, check | everything | a code is used once |
| Blob storage | `blob_storage.py` | files or S3 objects | put, get, delete | frontend | pure I/O |
| Web frontend | `frontend/src` | a Yjs replica and views | edit, REST calls | rooms, REST | rendering |

### Hard behaviours

The full list, each at its line, is under `hazards` in `PROJECT.json`. In short:

- **Cycles at once.** The poll loop runs one `run_sync_cycle` after another, and the
  watcher starts one more for each burst of file events, all on one `SyncState`; nothing
  serialises them. Cycles read the disk and the cloud before an await and act on what they
  read after it.
- **A transfer that fails looks like one that succeeded.** `_crdt_write` and
  `_crdt_update` swallow exceptions, a read that fails returns `""`, a handshake
  that times out leaves an empty replica.
- **Kills.** Documents are created before `sync.json` is saved; a batch of due
  notifications lives in memory only.
- **Retries.** A POST is sent again after a timeout; notifications are retried after
  a backoff during which everything else goes on.
- **Two readers of one notification.** Scheduler and retry task change the same
  documents with no lock between them.
- **Check, await, act** in rooms, moves, cascades, members and groups, snapshots.
- **Whole records written back.** Beanie's `save` writes the copy that was loaded and
  inserts it if it is gone: folders, member rows, groups, organizations, configurations.
- **Replicas that were away.** Rooms and clients come back after restarts and broken
  connections with what they had; only handshakes tell them what they missed.
- **Processes that die** holding a lock, in the middle of a write, or listed as running,
  and processes that report once more after they said they had stopped.

## Modules

| module | what it is |
|---|---|
| `FolderSync` | the folder sync engine, its two sources of cycles, the disk and the cloud it works on |
| `MCFolderSync` | its instances for TLC |
| `FolderSyncProofs` | its types, the base of the three-way comparison, that no edit is lost, what is deleted, one document per path |
| `Notifications` | scheduling, delivery and retry of notifications |
| `MCNotifications` | its instance for TLC |
| `NotificationsProofs` | theorems about it |
| `Acl` | rights on folders and documents, as operators over the two collections they are resolved from |
| `FolderTree` | extends `Acl`: folders, documents, their trash and their collaborators, call by call |
| `MCFolderTree` | its instance for TLC |
| `FolderTreeProofs` | its types, the roots of documents, the shape of the tree, the rights along its chains |
| `FolderTrashProofs` | what is in the trash, what a cascade reaches, who deletes what of others |
| `UpdateLog` | what the collaboration service promises of one document |
| `CollabRoom` | WebSocket connections, rooms and the CRDT store of one document; implements `UpdateLog` |
| `MCCollabRoom` | its instances for TLC |
| `CollabRoomProofs` | theorems about it, the implementation of `UpdateLog` among them |
| `DocSync` | `collabmark start --doc`: one file, one document, one lasting connection |
| `MCDocSync` | its instances for TLC |
| `DocSyncProofs` | its types, and that a connected replica has nothing the document will not get |
| `Registry` | `registry.json`, the syncs that report to it and the commands that change it |
| `MCRegistry` | its instance for TLC |
| `RegistryProofs` | theorems about it |
| `Directory` | organizations, members, groups, SCIM and SSO logins |
| `MCDirectory` | its instance for TLC, which starts with one organization |
| `DirectoryProofs` | its types, the tenant boundary, who is an admin, that accounts, member rows and rosters agree |

A definition whose comment says *Mutant of X* is a faulty variant of `X`, with which
the checks were tried: each property fails for one of them. No specification uses
it.

### FolderSync

**State.** `local`, `trash` and `sidecars` are the disk; `tracked` is
`SyncState.files`, in memory and in `sync.json` alike, because every change of it is
followed by `save_sync_state` with no await in between; `docAt`, `docText` and
`docLive` are the cloud's documents. Each cycle has a program counter and the local
variables of `run_sync_cycle`: `scan` (`local_files`), `view` (`remote_files`),
`hash` (`remote_hashes`), `plan` (the actions not executed yet), `text` (the
content in transit) and `current` (what the handshake of an update brought). Once dead, a
local variable is reset, which saves states and hides nothing. `"poll"` is the cycle the
watch loop awaits; every other member of `Cycles` is one that a burst of file events
started (`start.py:422`), of which there may be any number. History: `mine` (what the user
last did), `delivered`, `held` (what a document received and what its file had), `lost`
(transfers that failed), `unanswered` (documents whose creation was answered to nobody) and
`disturbed` (cycles under way beside which another one ran, or somebody edited).

**Steps.** A cycle is a coroutine. A step is the code between two awaits, split
further only where a kill could come between two effects that outlive the process. In
the locations `Holding` a cycle has not reached its next await, so `LoopFree` keeps
the other cycle from moving, while the user's editor and web users may. The cycle's
steps: `Begin` (scan), `FetchMeta` or `FetchFailed` (`fetch_remote_metadata`),
`ReadHash` (one step per read of the batch), `Reconcile` (`reconcile` with
`_decide_action`, here `DecideAction`), then for each action `StartPush`, `CreateDoc` and
`WriteNew`, or `Shake` and `UpdateDoc` (the handshake of an update and its send, between
which anybody may change the document), `Record`; `StartPull` ... `PullStore`, `Record`;
`StartDelete`, `DeleteRemote`,
`DeleteLocal` ... `Untrack`, and `StartConflict`, `WriteSidecar`; `Finish` ends the
cycle. `Abort` is an exception that leaves `run_sync_cycle`.

**Failures**, each switched by a member of `Failing`: the tree request fails
(`fetch`), a read fails and returns the empty text (`read`), a transfer fails and is
swallowed (`write`), the handshake of an update times out and the new text is
inserted into a document it does not replace (`handshake`), a POST is answered too late or refused
(`create`), a DELETE is refused, or takes effect though its answer is lost (`delete`), and two
files are trashed in one second (`clock`). `Crash` kills the process and starts it from `sync.json`.

**Data.** A content is a member of a small set and stands for its own hash. Two
insertions into one document by replicas that do not know of each other give `Mixed`.
`Empty` is apart, because the code treats it apart: it is never sent, and never
overwrites a file that is not empty.

### Notifications

**State.** `record` (comments and access records), `status` and `retries`
(`Notification`), `scheduled` and `retryList` (Redis); per call of `schedule()` the
recipients to visit and the id not yet in the sorted set; per task a program counter
and the notification in hand. Time is the set `past` of calls whose `deliver_at` has
come.

**Steps.** `Act`, `Revert` and `SetPreference` are requests; `SkipMuted`,
`InsertNote` and `AddToSchedule` are `schedule()`, whose insert and `zadd` are two
awaits; `ReadDue` and `RemoveDue` the two Redis calls of
`_process_due_notifications`, then for each id `TakeItem`, `Validate`, `Send`,
`SaveSent`; `RetryPop`, `RetrySend`, `RetrySave`, `RetryPush` the retry task.
`ScheduleFails`, `SchedulerFails` and `RetryFails` are exceptions, `Crash` a restart.
`Requeue` is an operator who puts an id on the retry list: no code does. `trouble` remembers that
something was cut short, so that properties can say what they promise in that case.

### Acl and FolderTree

**State.** `node` is the two collections of folders and documents: owner, parent
(`parent_id` or `folder_id`), root (`root_folder_id`), general access and the deleted
flag. `access` is the rows of `FolderAccess` and `DocumentAccess`. `todo` holds, for
each client, the database calls its request has still to make, with the records it
loaded; `request` says what it is doing.

**Steps.** A request is one step that reads and checks, `CreateFolder`,
`UpdateFolder`, `DeleteFolder`, `RestoreFolder`, `CreateDoc`, `UpdateDoc`,
`SetDocGeneral`, `DeleteDoc`, `RestoreDoc`, `HardDeleteDoc`, `AddCollaborator`,
`RemoveCollaborator`, and then one step for each call: `DoSave`, `DoDrop`, `DoRow`,
`DoPurge`, and for cascades `DoFind` (the query for children) and `DoEach` (the loop
over its result, in any order). Calls of other clients come between. A cascade
recurses, so what it finds is put in front of what is left. `Fail` cuts a request
short, `TooDeep` is the recursion error a cascade around a cycle of folders ends in.

**Abstraction.** The checks of a request are one step with its first read, though the
code awaits each query: what another request changes between two of these queries is
not seen. What it changes between the checks and the writes, and between two writes,
is. A save writes the whole record that was loaded, and inserts it if it is gone
(Beanie's `save` upserts), so stale copies are written back as the code does.

**Rights** are resolved by three walks that the code keeps apart, and so does the
model: `MayTouch` (`_assert_folder_access`, which recurses and falls back on general
access), `BasePermission` (`get_base_permission`, which stops at the nearest folder
that says something) and `RootOwner` (by `root_folder_id` first). `AclSummary` is the
list `get_acl_summary` makes by a walk of its own, and `Contents` what a listing shows.
Users are personal accounts: organizations and groups are left out.

### CollabRoom and UpdateLog

**State.** A content is the set of edits it was made of. `replica` is what a page has,
`room` the rooms opened since the server started, each with its document, the updates it
has not passed on and the store's FIFO of users; `current` is the entry of
`WebsocketServer.rooms`, `writing` the writes under way, `stored` the collection. `conn`
is, per client, where `websocket_endpoint` is and what it remembers: the room, whether the
client may only read, and whether the permission is fresh. `up` and `down` are the
messages in transit, in order.

**Steps.** `Lookup`, `ReadStore` and `Install` are the parts of `get_room` between its
awaits, so two clients may open two rooms, and do. `HandleStep1`, `HandleStep2`,
`HandleUpdate`, `StartRecheck` and `FinishRecheck` are the adapter's `__anext__` with the
room's handler behind it; `Broadcast` is the room's task and `Write` a write it has
started; `ReadFailed` is a request to MongoDB that fails while a room is opened or a
permission read, which ends the connection, and `WriteFailed` an `insert_one` that fails,
which nothing in `write` catches (`crdt_store.py:103`); `ClientEdit` and `ClientReceive` are Yjs in the page; `Leave`, `SetPermission`,
`Expire` (ten seconds) and `Crash` (rooms are in memory) the rest of the world.

**A failed write** is in the hands of pycrdt's task group, which is not in `src/`. So the model
takes every outcome: the update is not stored (`unsaved`), any other writes under way may be
lost with it, and any of the rooms' tasks may be over (`ended`). A room whose task is over
still applies what its clients send, and neither broadcasts nor stores it.

**Data.** Yjs numbers the edits of a client and takes one in only after the ones before
(`Integrated`); what comes too early waits. That is what makes an unwritten update matter:
after a restart later edits of its author wait for it until a handshake brings it.

**`UpdateLog`** says of one document what was made, what the service holds and what is
durable: edits are taken over only if somebody made them, what is stored stays, what is taken
over stays too, but for a restart, which is counted and drops what was not stored. `Log` maps
it: what is held is the union of the store and of all rooms, also those a later one
replaced. A failed write therefore is no loss of the log: the room has the edit until the
restart. That the edit *is* stored is the liveness property `EventuallyStored`.

### DocSync

**State.** A text is how often it has each piece, a document a `Doc`: copies put in, and
copies taken out. `file`, `entry` and `timer` (the watcher's debounce) are the disk's
side; `cloud` the server's document; `replica` and `link` are `PersistentDocSync`; `main`
and `cycle` say where the main coroutine is and what `run_document_sync_cycle` holds;
`queued` and `sent` are the coroutine `_push_local`, `writing` is `_writing_from_remote`.

**Steps.** `CycleRead`, one of `PushFirst`, `PushUpdate`, `Pull`, `Adopt`, `Leave`, then
`Handshake`, `Transfer` and `Record` are a fallback cycle. `Handshake` is that of an update: it
brings the document (`heard`), or times out and leaves the replica empty
(`crdt_sync.py:131`), so that `Transfer` inserts the whole text into what is there. `Connect`, `Shake`, `Listen`, `Written`,
`Notice` the lasting connection; `Fire`, `PushLocal`, `PushRecorded` a push after a save;
`BeginWatch`, `Poll`, `Stop` the main loop; `WebEdit`, `UserSave`, `UserRemove`, `Break` the
environment. A step is the code between two awaits. The watcher is a thread, so it may
come between the two halves of a write of the file (`Listen`, `Written`), in which the
event loop runs nothing else.

The room is reduced to what one client sees of it: it merges, answers a summary, and
announces what it gained. The first `Init` of a watch covers what an earlier run left, a
killed one included: any of document, file and entry may be there or not.

### Registry

**State.** `registry` is the file, `lock` the holder of its `flock`, `update` what each
process waits to do to the file or is about to write, `pidFile` the PID files; per sync
process its place in `_start_async` or `_start_doc_async`, its path, whether it was signalled
and how many cycles or pushes of its watcher are under way (`cycles`); per command its place
and the entry it read. `Background` are the syncs that run as daemons. History: `ideal`, the
registry if each update had been made at once; `late`, the syncs that reported after they had
marked their entry; `revived`, the entries that a heartbeat made run again after a stop.

**Steps.** `Acquire` locks and reads, `Release` writes and unlocks, for every update; a
`Kill` between the two leaves the file as it was, empty (it is truncated before it is
written) or written. `Start`, `InitialSync`, `SyncOnce`, `FinalSync`, `RemoveOwnPidFile`, `End`
are the main coroutine of a sync process. Beside it, `StartWatchCycle` starts a cycle, or a push, after a
burst of file events, and `WatchCycle` is its heartbeat, which may come in the loop, during the
last cycle, or after the mark, while the client closes its connection (`closing`); `End`
cancels what has not reported. `Signal` ends one that has no handler yet, and is noticed by
one that has; `List`,
`Show`, `PickRunning`, `PickStale`, `SignalEntry`, `MarkEntry`, `UnregisterEntry`,
`RemovePidFile` are `status`, `stop` and `clean`.

### Directory

**State.** `account` is `User.org_id`, `rows` the member rows with their identity, `group`
the groups with their `scim_members`, `joined` how many rows a group has of each user
(nothing forbids two: the server starts with `skip_indexes=True`, `main.py:88`, so no unique
index is made), `scim` the tokens, `adminGroup` the group that is mapped to the admin
role. `req` is, per handler, the request it is in, with the records it loaded. History:
`ever` (whose account was in which organization), `granted` (whom somebody made an admin or
who was in the admin group while it was that), `shifted` (organizations whose admin group
changed while a request was applying it), `dirty` (what requests overlapped on or failed for).
Two requests that create an account for one address at once make two users, which are two
members of `Users`.

**Steps.** A request begins with its checks (`AddMember`, `RemoveMember`, `ChangeRole`,
`CreateScimUser`, `DeleteScimUser`, `Login`, `ReplaceGroup`, `AddToGroup`, ...) and goes on
write by write: `InsertRow`, `SaveAccount`, `DeleteRow`, `SaveRow`, `InsertAccount`,
`SaveOrg`, `SaveConfig`, `SaveGroup`, `LeaveGroup`, `JoinGroup`, `Finish`. `_apply_role_mapping`
is five steps, one for each of its awaits: `ReadSetting`, `FindGroup`, `ReadRows`, and for each
member `FindRow` and `MakeAdmin`, which saves the row it found. Other requests run in between, and `Abort` ends one at any await. A save writes the whole
copy, and inserts it if the record is gone.

## Runs

| run | instance | what it shows |
|---|---|---|
| `folder_concurrent` | 1 path, 2 documents, two cycles at once, 3 edits between cycles; reads, creates, transfers, handshakes and deletes fail | `TypeOK`; `BaseReachedCloud`: the base of the three-way comparison is a content the cloud received, or whose transfer failed; `LocalWorkKept`: the user's last text of a file is on the disk, in the trash, or was sent |
| `folder_poll` | 2 paths with one file name, 2 documents, two cycles that may overlap, 3 edits, one kill; fetches and transfers fail, trash names collide | of a cycle that runs undisturbed, whatever came before it: `RemoteWorkKept`: it takes a text out of a document only when the file of that document has had it; `OneDocPerPath`: it makes no second document; `DeletesOnlyRemoved` and `TrashesOnlyDeleted`: it deletes on one side only what the other is missing |
| `folder_converges` | 1 path, 4 documents, two cycles, 2 edits at any moment, one kill, failing fetches | `Converges`: file and document agree in the end, or the user holds a sidecar of the conflict |
| `notifications` | a comment and a document shared twice with a group, one recipient, 2 retries, every failure, one crash or exception | `TypeOK`; `RevertedNotSent`; `GivesUp`: at most `MAX_RETRIES` attempts; `EventuallySettled` |
| `notifications_retry` | the same with failing deliveries only | a violation, see below |
| `folder_tree` | 2 users, 4 folders, 1 document, depth 3, 5 requests of which the fourth may overlap the third, one failure | `TypeOK`; `DocRootFollows`: a document's root is its folder's; `TreeSound`: no cycle, no dangling parent, within the depth limit; `NothingLiveInTrash`: nothing live is below a deleted folder; `CascadeComplete`: a cascade that is through has reached everything below; `OwnersDelete`: only a root owner, or the owner of a folder at the top, deletes what is others'; `RightsAgree`: what one resolver reports the other grants; `SummaryComplete`: whoever is not on the list of rights has none but by general access; `ContentsOpen`: what a listing shows can be opened |
| `collab_room` | 2 clients, 2 edits, 2 rooms in one life of the server, one restart, one failing request to MongoDB | `TypeOK`, which says that no update is stored without a user; `ImplementsLog` |
| `collab_live` | 2 clients, one edit, one room, one lost connection, one change of permission, one failing request to MongoDB | `ReadOnlyEnforced`: updates of a client demoted for a whole interval change nothing; `EventuallyStored`; `ClientsCatchUp`; `EditsArrive` |
| `doc_sync` | 2 events (saves, web edits, breaks, failed transfers, handshakes that time out) after every start an earlier run can have left | `TypeOK`, which says that no copy of a piece is counted twice; `NothingStranded`: while the connection is up, what the replica has is in the document or on its way; `PushesArrive`: what a push put in the replica reaches the document; `Agrees`: file and document come to agree |
| `doc_sync_merge` | the same, safety only | a violation, see below |
| `registry` | 2 background syncs of one path, each with one cycle of its watcher at a time, one terminal, one kill, signals at any time | `TypeOK`; `UpdatesAtomic`: no update undoes another; `EndedIsStopped`: when the syncs of a path have ended, its PID file is gone, and its entry says so unless a heartbeat came after the mark; `DeathNoticed`: a path nobody syncs is not listed as running for ever, unless a heartbeat revived its entry |
| `directory` | a super admin and a user, 2 organizations, one group, 2 names, 4 requests of which 2 overlap, each may be cut short; from an organization with a founder and a SCIM token, or, with 3 more requests, from one with an admin group's name and a provisioned user | `TypeOK`; `GroupsWithinTenant`; `NoUngrantedAdmin`; `RosterCovers`: `scim_members` names all with the group's rights; `AccountsMatchRows`: an account's organization and its member rows agree |

**Why the bounds are enough.** `DecideAction` looks at one path, and two paths meet
only in the plan's order, in renames and in the trash: two paths, with one file name,
reach all three. Two texts besides `Empty` and `Mixed` make a base and a change, a
third in `folder_poll` a change on each side. Three edits are a first sync, a change
here and a change there, or a document that is deleted and another one that takes its path.
Documents beyond the edits let a create be retried; a
server that has none left refuses, which the code meets as the document limit. The program
starts any number of cycles, one for each burst of file events; two are enough for one to
change file, document and entry between the steps of the other, and the theorems below hold
for any number. For notifications, a second user would only add a
second walk through the loop over recipients; a
third call reaches the second share with a group. Two retries tell the first delivery,
a retry and the limit apart. One fault is any one crash or exception; the theorems
below hold for any number of them.

In `folder_tree`, four folders are a chain that exceeds the depth limit of 3, a cascade
over two levels below its own, or a tree with a second root to move to; two users are an
owner and a stranger, or two owners of one tree. Four requests build a tree and delete or
move in it, the fifth restores or deletes again. One overlapping pair already writes back
a stale record of a folder or a document. Six requests without overlap and failure, and
two overlapping pairs, were checked by hand, and the right to view beside the right to
edit on a smaller tree. `MaxCalls` (17) stands for Python's recursion limit
(1000, for a depth of 20): `RecursionAssumption` asks that it exceeds what a cascade over
a tree within the depth limit stacks up, four calls for each level, so that only a cascade
around a cycle meets it. The `VIEW` leaves out what a request was once it is over.

In `collab_room`, two clients that find no room at once are what opens two, and two edits
of one client, the first unwritten at a restart, are what `Integrated` is about; with no
leaving and no change of permission it has 1.8 million states. Those
are in `collab_live`, whose one edit and one room are enough for each of its properties:
they speak of one edit and one client, and the second client is the one that must be told.
One failing request (`MaxFaults`) is a failed read, or a failed write that takes with it any
other writes and any tasks.
`doc_sync` meets with 2 events each pair of what can go wrong. `registry` has two syncs,
because an entry can be overwritten by a second one, and one cycle of the watcher each
(`MaxCycles`), because one heartbeat after the mark is what matters; a second path adds
nothing, as every update changes one entry but `prune`, which treats each alone, and the
theorems below hold for any number. `directory` needs the second organization for the tenant
boundary and the second name for renaming. Its second initial state, three requests further
on, is there for the promotion: naming the group, provisioning a user, putting it in the group
and taking it out of the organization meanwhile are more requests than the run has from the
first.

**What FolderTree's properties leave out.** The history variables `raced`, `intoTrash`
and `fails` say when a property promises nothing. Two folder requests at once can make
a cycle of folders (each move checks before the other one saves), and a delete
beside a move leaves a dangling parent; the code has nothing against either. The
code lets a user create in, or move into, a deleted folder. A cascade that fails
half-way leaves live children in a deleted folder, and repeating it does not help,
because it does not visit children already marked. `TypeOK` and
`DocRootFollows` hold all the same; `TreeSound` holds after failures too.
`CascadeComplete` leaves out a restore of a folder that is not itself in the trash:
`restore_folder` does not ask (`folder_service.py:172`), and its cascade looks for deleted
children only, so what is deleted below a live child stays deleted. Whoever is root owner
of the folder that is deleted, or owns it where it is at the top, deletes whatever is below
(`acl_service.py:361`). What a request was about, and what it was allowed, is decided before
its first call, so both action properties read it from the request (`trashed`, `all`). `ContentsOpen` leaves
out a nested folder with general access: `_assert_folder_access` honours it, so the folder
is listed, `get_base_permission` does not read it, so its documents cannot be opened. And
`SummaryComplete` says nothing of general access, which the summary does not list.

**What Directory's properties leave out** is in `dirty`: requests about one user or group
that overlap, or are cut short, leave an account without its row, two rows, or a roster
that differs from the rows, and nothing heals them. A promotion is such a request about the
user it has found: one whose membership is removed between `FindRow` and `MakeAdmin` has its
row back, and no account in the organization (`scim_service.py:723`). A login by SSO moves an
account to another organization and leaves its old row. `GroupsWithinTenant` and
`NoUngrantedAdmin` hold all the same. `GroupsWithinTenant` is about accounts that *were* in the
organization: the rows of a group stay when a member leaves it. `NoUngrantedAdmin` leaves out
organizations in `shifted`: a request has read the setting, then the admin group becomes
another one, by a change of the setting or of a group's name, then somebody enters the group
the request goes by, and is made an admin though the group is not the admin group any more
(`scim_service.py:703`, `711`, `715`). Without that exception TLC finds the case.

**What CollabRoom's properties leave out.** `ReadOnlyEnforced` is about updates: the
`SYNC_STEP2` a client answers the server's summary with is applied whatever the
permission. `EditsArrive` is about permissions that do not change. `ClientsCatchUp` is
about the client's own room: two rooms of one document do not hear of each other; and about
rooms whose task goes on. `EventuallyStored` excepts the edits a failed write lost, which
nothing writes again while the room lives, and promises nothing once a failed write ended a
room's task, after which the room stores nothing. A room opened after that has a task of its
own. `ImplementsLog`, `ReadOnlyEnforced` and `EditsArrive` make no such exception.

**What Registry's properties leave out.** A watcher's cycle that is under way when the main
coroutine marks the entry may report while the client closes its connection, before the end
of `asyncio.run` cancels it: its heartbeat makes the entry `running` again
(`registry.py:204`). `EndedIsStopped` excepts such an entry (`late`), and only such a one; the
PID file is gone all the same. An entry that was stopped and that a heartbeat then revived has
no PID, so that `prune_dead` passes it over whether its process lives or not
(`registry.py:254`): it is listed as running until somebody stops it, cleans it or registers
again. `DeathNoticed` excepts these entries (`revived`), for as long as they are as the
heartbeat left them. Without either exception TLC finds the case.

**What FolderSync's properties leave out.** The four properties of `folder_poll` are about steps
of a cycle that runs undisturbed (`QuietStep`): no other cycle was under way while it was, and
nobody edited. What went on before it began is not restricted: cycles that overlapped, failed
or were killed. Of two cycles that overlap, the code keeps none of `OneDocPerPath`,
`DeletesOnlyRemoved` and `TrashesOnlyDeleted`: two create a document each for one new file, or
one deletes in the cloud what the other has pulled, because its scan is older. TLC finds these
when `QuietStep` is taken away. `OneDocPerPath` leaves out documents of whose creation the
answer was lost (`unanswered`), which `_request` creates again. `BaseReachedCloud` and
`LocalWorkKept` take a transfer that failed for one that was sent (`Sent`), as the engine does:
what they say is that nothing *else* is lost. What is lost by it is listed below.

`RemoteWorkKept` leaves out a document whose file was last synced as empty, if reads may fail
(`Misread`): a failed read returns the empty text, a pull stores it in a file that is empty or
missing, and the content the document has is then no more than its base. It is about documents
that are where the engine looks for them (`Placed`). It does not hold of the others: when a web user edits a
document, deletes it and creates another one of that name with the old content, the tracked
entry still names the deleted one, its hash is the other's, and the next edit of the file is
pushed over the web user's edit of the deleted document (`sync_engine.py:151` compares the
content at the path, `:270` writes to the document of the entry). Whoever takes that document
out of the trash does not find the edit.

**Edits during a cycle.** `LocalWorkKept` is checked and proved with edits between cycles. With
an edit between the read and the write of `pull_file` the code does overwrite it. An edit
beside a cycle makes the cycle a disturbed one, so the properties of `folder_poll`, which are
proved with edits at any moment, say nothing of it until it is over. `Converges` is checked
with edits at any moment.

**Larger instances, run by hand.** `folder_poll` with failing creates beside the failures it
has (8.0 million states), and with failing fetches and creates and colliding trash names (4.3
million); `folder_concurrent` with three cycles and two edits (14.4 million); `folder_poll` with
edits during cycles (17 million). In `folder_poll` and
`folder_concurrent` the `VIEW` leaves out the variables that neither a step nor a property of
the run depends on.

`CHECK_DEADLOCK FALSE` in every configuration: with no edit or request left and no
work to do the system rests.

## Fairness

`FolderSync!Fairness` is strong fairness of each cycle's steps and of `FetchMeta`.
A cycle waits for the event loop while the other one holds it and is enabled again and
again; asyncio's ready queue is FIFO, so it gets its turn. The watch loop starts a
cycle every `POLL_INTERVAL`, the watcher one after each change, and a tree request
does not fail for ever. Edits, kills and failures are never required.

`Notifications!Fairness` is weak fairness of each call, of each task and of time:
the event loop runs every ready coroutine, and delays elapse. Nothing forces a
request, an operator or a fault.

`CollabRoom!Fairness` is weak fairness of each client's steps on the server and of its
receiving, of the rooms' tasks and of writes: the event loop runs what is ready, and a
connection that stands delivers. Nobody has to connect, edit, leave or be granted anything,
and time need not pass.

`DocSync!Fairness` is weak fairness of the main coroutine, of the connection's, of pushes
with the watcher's timer, and of the server. Reconnecting is among them: a client that is
not connected tries again for ever (`_connection_loop`). Polling is not: the properties hold
whether or not the interval ever runs out.

`Registry!Fairness` is weak fairness of each sync process and of `Release`, strong fairness
of `Acquire` (a waiter for `flock` is granted the lock when it comes free) and of each
command. The last says that a user looks at the list again and again, which is what
`DeathNoticed` needs: nothing but a command or a start prunes. It is strong, as a command
waits for the lock too.

`FolderTree` and `Directory` have no liveness property and no fairness: a request ends
when the database answers, and a crash may end it at any call.

## Proofs

The theorems hold for every value of the constants allowed by `FolderSyncAssumption`,
`NotificationsAssumption`, `AclAssumption`, `FolderTreeAssumption`, `RecursionAssumption`,
`CollabAssumption`, `DocSyncAssumption`, `RegistryAssumption` and `DirectoryAssumption`: any number of files, folders, documents,
users, organizations, groups, calls, requests,
clients, rooms, processes, edits, kills and faults. TLC
evaluates the assumptions in the runs.

`FolderSyncProofs`

- `TypesHold`: `Spec => []TypeOK`. The types say that every action has the document
  `_execute_action` asserts. The strengthening `TypeInv` adds `HeadHasDoc` (between
  the creation of a document and `Record` the action carries the new id) and
  `ReadsSeen` (contents are read of documents the cycle saw), without which `Record`
  and `ReadHash` could not be typed.
- `BaseHolds`: `Spec => []BaseReachedCloud`. `BaseInv` adds `Arrived` (what a document
  holds it received), `ShakenArrived` (so was what a handshake brought) and `CarriedSent`
  (what a cycle is about to record or store came from its document, or was sent to it, or
  lost); `CloudGrows` is the lemma that nothing received is taken back, by any step.

No theorem of `FolderSyncProofs` bounds the cycles at a time, the edits or the kills, and none
but the next assumes anything besides `FolderSyncAssumption`.

- `LocalWorkKeptHolds`: `Spec => []LocalWorkKept`, if people edit between cycles
  (`EditsMidCycle = FALSE`) and no two files of one name are trashed within a second
  (`"clock" \notin Failing`). Without either the code loses an edit, and TLC shows how.
  `WorkInv` adds to the base invariant `ScanKept` (while a cycle has a scan, the user's
  last text of a file is what the scan saw, or safe already) and `PullsSafe` (a cycle goes
  to overwrite a file only once its content is safe). A scan that another cycle has made
  stale does no harm for that reason: what the user did last is safe by then.
- `DeletesOnlyRemovedHolds`, `TrashesOnlyDeletedHolds`: the two action properties, of any
  cycle that runs undisturbed. `QuietInv` says of such a cycle that it is the only one under
  way (`Solo`) and that its scan, view and plan are still true of the disk and the cloud
  (`Scanned`, `Viewed`, `PlansStand`) until it changes them itself, which is what another
  cycle, or an edit, breaks. Of the other cycles it says nothing but their types, so a cycle
  that begins after them starts from any state they can leave.
- `OneDocPerPathHolds`: `Spec => OneDocPerPath`. `NewInv` adds `NewAlone`: where a file is to
  be pushed as a new one there is no document but one nobody was told of. A kill after the POST
  leaves a document without an entry, which the next cycle finds in its view.
- `RemoteWorkKeptHolds`: `Spec => RemoteWorkKept`. `SeenInv` says that a content about to be
  replaced was in the file: `Hashed` (the hashes are of contents the documents still have, or
  of failed reads), `UpdatesHad` (a plan updates a document that is where its file is only if
  its content was in the file), `FilledNew` (a new document is still empty when it is filled),
  and, of every cycle, `CarriedHeld` and `BaseHeld` (so were the content in transit and the base
  of each entry). The proof is what found the document that is not `Placed`, see above: the
  counterexample takes five edits.

`NotificationsProofs` has one inductive invariant, `Inv`, checked by TLC on the
instance of `notifications` before it was proved, and three theorems from it:

- `TypesHold`: `retry_count` never passes `MAX_RETRIES`;
- `RevertedNeverSent`: an action undone before its delivery time is never notified;
- `GivesUpHolds`: at most `MAX_RETRIES` attempts until something is cut short.

The argument is that scheduler and retry task never hold the same notification.
`FirstUntried` says that a notification still `SCHEDULED` was never attempted and the
retry task does not know it; `SchedulerItem` that what the scheduler delivers is
`PENDING`; `RetryListed` and `RetryItem` that the retry task's is `FAILED`, and
is listed once. So each counts the attempts of its own, and
`Counted` (`retry_count` is the number of attempts but for the one under way) is kept.
`CancelledUntried` follows what was cancelled until `Validate` skips it.

`FolderTreeProofs`

- `TypesHold`: `Spec => []TypeOK`; what is pending is typed along with what is stored,
  by lemmas on the calls a cascade adds.
- `DocRootFollowsHolds`: `Spec => []DocRootFollows`, with overlapping requests, crashes
  and stale records written back. The argument: a folder's root is fixed when it is
  created (`birth`), no request ever changes it, so every record of a folder, in the
  database, in a pending save or in the list of a cascade, has that root or, before
  the second save of a new top folder, none. A document in a folder therefore cannot
  carry a root that has become wrong. The invariant says this of all the records that
  are pending, which is why it is inductive. The other side of the coin is that a folder
  moved to another tree keeps the root, and the root owner, of the tree it left.
- `TreeSoundHolds`: `Spec => []TreeSound`. The property alone is not inductive: a request in
  its middle could save or drop a folder that does not fit the tree any more. `TreeInv` says
  that as long as no folder request ran beside another one (`~raced`), running requests are
  `Apart`, the tree is sound, and what each has still to do fits the tree as it is
  (`Planned`): only a first save may move something, and hangs it where the chain ends and is
  short enough; later saves move nothing (`SoftPlan`); a hard delete goes over all that is in
  a folder before it drops it (`HardPlan`). What a save does to chains is shown for walks over
  any collection of nodes: until a walk meets the saved node it is as before, and if it ends it
  meets no node twice, so its length is bounded by the number of folders. Induction over a
  walk goes through `NumbersFrom0` and `LeastNumber`, which take a set where the library's
  theorems take an operator.
- `RightsAgreeHolds`, `ContentsOpenHolds` and `SummaryCompleteHolds`, about the resolvers: the
  nearest folder that says something (`get_base_permission`) lies on the chain that
  `_assert_folder_access` climbs, so both come to it. `RightsAgree` and `ContentsOpen` need
  `TreeSound`, because around a cycle that climb never ends; `SummaryComplete` holds on any
  tree, because the summary climbs as far as the resolvers do.

`FolderTrashProofs`, under the conditions its properties name: no overlapping folder
requests, no failure, nothing put into the trash (`Clean`).

- `NothingLiveInTrashHolds` and `CascadeCompleteHolds`. `TrashInv` says of each running request
  that what it has still to do leaves things `Tidy`. For a cascade this is a statement about
  its pending calls as a stack (`Stack`): each is on what is below the folder of the call
  behind it, with at most four on one level, so that by `RecursionAssumption` the recursion
  limit is not met; and whatever is `Due` to be deleted or restored is led to by a pending call
  (`Covering`, `Leads`): a query for the children of its folder, a loop that has loaded it, or
  its own save. Each call hands what it led to on to the calls that replace it (`LeadsOn`), so
  that with no call left nothing is due. `Downward` says that a restore saves a folder before
  its children. A hard delete takes only what nothing hangs on, by `HardPlan`.
- `OwnersDeleteHolds`. `OwnersInv` stands by itself: there is one owner for each node such that
  every record of it, stored, about to be saved, or loaded by a loop, names that owner; it
  holds under overlap and failure too. And `Tidy` says that a cascade whose user does not own
  all has live nodes of this user only below its folder (`Owned`), from the check to its end.

`CollabRoomProofs`

- `TypesHold`: `Spec => []TypeOK`, with the clause that a room has a user queued for each
  update it has to store; `Rechecking` (a client whose permission is being read has an
  update at the head of its queue) is what makes it inductive.
- `ReadOnlyEnforcedHolds`: `Spec => ReadOnlyEnforced`. `LateIsReadOnly` says that a client
  demoted before its interval ran out has no right to edit now, and is marked read-only
  whenever its permission counts as fresh: the re-check that would make it writable again
  reads a permission that is gone.
- `ImplementsLogHolds`: `Spec => ImplementsLog`, the refinement of `UpdateLog`. `OnlyMade`
  says of every replica, message, room and record that its edits were made; `Sound` adds that
  a room still has to store only what is in its document, which is closed under what came
  before. Each step is then a step of the log or a stutter: making an edit is `Make`;
  broadcasts, messages and opened rooms only let what is held grow (`Grows`), which is
  `Accept`; a write moves its edits from `writing` to `stored`, which is `Store`, because what
  is being written is in the document of a room (`Backed`); a write that fails is a stutter,
  as the room keeps the edits; `Crash` is `Restart`, and nothing else drops anything. It holds
  with any number of rooms of one document at once: no room ever holds what another may lose.

`DocSyncProofs`

- `TypesHold`: `Spec => []TypeOK`. Its last two clauses are what needs an argument. No copy has
  a number above `copies`: a diff numbers what it puts in from there on and counts it
  (`DiffProperties`), and the piece of an edit to come is nowhere yet (`Fresh`). The document
  takes out only what it had: a message may take out what an earlier one puts in, so `SoundUp`
  says it of each message with all before it, and `SoundReplica` of the replica, which may hear
  that a copy is gone before it hears of the copy.
- `NothingStrandedHolds`: `Spec => []NothingStranded`, the safety half of `PushesArrive`. `Told`
  has to hold from the answer to the server's summary on, before the connection counts as up
  (`HasTold`); `Turns` says that it counts as up only after its handshake, so that what an old
  connection had told is not taken for told on the new one. The same fact keeps a push from
  taking out of the document a copy that the document will never have.

`RegistryProofs`

- `TypesHold`: `Spec => []TypeOK`: whoever is about to write has the lock.
- `UpdatesAtomicHolds`: `Spec => []UpdatesAtomic`. `IInv` adds `WrittenIsIdeal` (what the
  holder of the lock is about to write is what the updates come to when each is made at
  once) and `Placed` (running syncs, and commands that act on an entry, have a path).
- `EndedIsStoppedHolds`: `Spec => []EndedIsStopped`. `MInv` says who still owes what:
  `Marked`, an entry that does not rest belongs to a sync that may still report, was killed,
  reported after its mark, or has its mark on the way; `AsksRight`, what a sync asks for fits
  where it is, so that only a report of the watcher's cycles comes after the mark, and is
  remembered (`late`); `OwnEntry`, a sync changes the entry of its path only; `PidFilesOwned`, a
  PID file is of a daemon that has not removed it yet.

`DirectoryProofs`

- `TypesHold`: `Spec => []TypeOK`. `Requests` says what a handler may hold in the middle of a
  request. That no two rows have one identity rests on `FreshIdIsFresh`: there are more
  identities to choose from than rows and copies of rows, which is a fact about cardinalities.
- `NoUngrantedAdminHolds`: `Spec => []NoUngrantedAdmin`. `AdminInv` says it of what is in
  flight too: a row about to be inserted or saved with the role of an admin was granted the
  role, so a row that is saved after it was deleted brings back only what was granted. `Backed`
  follows `_apply_role_mapping` through its reads: after the first the name is that of the
  admin group, after the second the group found is it, after the third the users read, and
  the row found for one of them, were granted the role, each unless the organization is in
  `shifted`.
- `GroupsWithinTenantHolds`: `Spec => []GroupsWithinTenant`. `TenantInv` says that a group's
  record, and every copy of it that a request holds, are of one organization. A PATCH
  that saves its copy after the group was deleted therefore brings it back in the
  organization its rows are of.
- `RosterCoversHolds`: `Spec => []RosterCovers`. `RosterInv` says, of a group whose requests
  did not overlap, that one request at most is about it and that what this request has still
  to do (`Coming`: whom it will take out and put in, which roster it will save) covers the
  difference between rows and roster.
- `AccountsMatchRowsHolds`: `Spec => []AccountsMatchRows`. `AccountsInv` says the same of an
  account and its member rows, write by write (`Moving`). `CopiesInv` keeps users apart: a
  save or a delete goes by the identity of the row it has loaded, so it has to be shown that
  no other user's row has, or gets, that identity. A promotion is followed as a request about
  the user whose row it holds, from `FindRow` to `MakeAdmin` (`UserOf`).

Only model-checked are the liveness properties `Converges`, `EventuallySettled`,
`EventuallyStored`, `ClientsCatchUp`, `EditsArrive`, `DeathNoticed`, `PushesArrive` and
`Agrees`: liveness under fairness is out of the prover's reach. Every invariant and every
other action property of the passing runs is proved. Inductive invariants were checked by
TLC, on the instances of the runs or smaller ones, before they were proved.

## Where code and documentation disagree

Two are runs that TLC ends with a counterexample; `PROJECT.json` quotes the lines.

- `notifications_retry`: nothing puts a failed notification on the retry list
  (`notification_dispatcher.py:134`, against `docs/architecture.md:373`).
- `doc_sync_merge`: a fallback cycle of a single document takes the difference between the
  document as it is now and the file (`crdt_sync.py:275`), so that an edit a web user made
  since the cycle's read is taken out, against `docs/cli-reference.md:172`.

The models have these as well, with no run of their own:

- A push whose transfer fails is recorded as synced (`sync_engine.py:270`), and the next
  cycle overwrites the user's edit with the old cloud content.
- A cycle with a scan older than the other cycle's pull deletes the pulled document in the
  cloud (`sync_engine.py:180`).
- After a document was replaced by another one of the same name, its file is compared with
  the new one and synced with the old one, for ever (`sync_engine.py:151`).
- Notifications of a group share are always skipped, because their record is looked up in
  another collection (`notification_scheduler.py:47`).
- A folder that is moved to another tree keeps its `root_folder_id`
  (`folder_service.py:148`), so the owner of the tree it left keeps full control of it, and
  the owner of the tree it came to has none (`acl_service.py:4` says otherwise).
- Two clients that connect at once may be in two rooms of one document
  (`ws/handler.py:55`): neither sees what the other types until it connects again.
- The FIFO of users drifts (`crdt_store.py:72`): a message that changes nothing leaves its
  user behind, and later updates are attributed to the one before.
- `get_user_group_ids` (`acl_service.py:150`) reads rows of groups whatever the user's
  organization, and rows outlive a membership.
- A restore of a folder that is not in the trash reaches nothing below its live folders
  (`folder_service.py:172`), although its docstring restores "all nested
  folders/documents".
- Neither a heartbeat nor a start checks who else syncs a path: of two syncs, the one that
  stops first marks the entry of both (`registry.py:204`).
- A heartbeat that comes after the mark makes the entry of a sync that is over run again, and an
  entry that runs without a PID is never pruned (`registry.py:204`, `:254`).
- A promotion saves the row it has found, and so undoes a removal of the member in between
  (`scim_service.py:723`); and it goes by a setting that may have changed since it read it
  (`:703`), so that whoever enters the old group meanwhile becomes an admin.
- An update that MongoDB refuses is not written again while its room lives
  (`crdt_store.py:103`), and may end the room's task.

## Not modelled

- In the folder engine: the folders below the root (`_ensure_cloud_folders`; a path is
  a file name here), sidecar files as files of their own (the next cycle pushes them),
  failures of `save_sync_state`, symbolic links, the key ring.
- In the single-document sync: the order of the pieces of a text, sidecars, the time a
  reconnect takes. A kill is not a step: what it leaves is among the states of `Init`.
- In the registry: its first use, when two processes may both create the file
  (`registry.py:101`), a PID used twice, the parent directory `find_entry_by_path` may match.
- In rooms: cursors and other awareness, messages above 5 MB, and `compact()`, which has no
  caller and would delete updates written between its read and its transaction.
- In organizations: addresses and their changes, names, photos, paging and filters, allowed
  domains, limits on members. A PATCH of a group has one operation.
- In notifications: malformed ids and missing documents, a server without Redis
  (`schedule()` then inserts and nothing else), wording of messages, a group share
  saved again after its record was deleted meanwhile.
- In folders: organizations, groups and share links, the limits per user,
  views, a second access row from two grants at once, the save of `last_accessed_at`
  by the access checks, versions, comments and blobs of a deleted document.
- Versions and comments as such: each is a request or two over one collection. Two
  snapshots at once may take one number (`version_service.py:42`), and a reply may be
  inserted beside the deletion of its parent (`comment_service.py:63`).
- Every component with status `not_modelled` in `PROJECT.json`, with the reason there.

## Plan

Done: `FolderSync`, `Notifications`, `FolderTree` with `Acl`, `CollabRoom` with `UpdateLog`,
`DocSync`, `Registry`, `Directory`; proofs of every invariant and action property that the
runs check. What is left, in this order:

1. `Acl` with groups, organizations and share links as holders of rights, on top of
   `Directory`'s state; the queries of the checks as steps of their own.
2. `FolderSync`: an abstract specification of a synced pair (a file and a document that
   exchange contents) which one cycle at a time implements.
3. The safety halves of the liveness properties, as invariants with proofs, where
   `NothingStranded` is that of `PushesArrive`: who still has to do what before a notification
   is settled, a folder has converged, or a client has caught up.
4. `VersionHistory`: numbers under concurrent snapshots, and restores beside live edits.
