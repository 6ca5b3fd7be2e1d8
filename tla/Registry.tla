------------------------------- MODULE Registry -------------------------------
(***************************************************************************)
(* The registry of syncs of one user, ~/.collabmark/registry.json          *)
(* (lib/registry.py), the PID files beside it (lib/daemon.py), the sync    *)
(* processes that report to them (commands/start.py) and the commands that *)
(* read and change them (commands/stop.py, clean.py, status.py).           *)
(*                                                                         *)
(* The registry is a file: an update locks it, reads it, and writes all of *)
(* it.  Processes and commands interleave between these steps, and may be  *)
(* killed at each.  Each path has a cloud folder of its own.  A process    *)
(* identifier is not used twice.  In a sync process one thread makes all   *)
(* updates, one at a time: for the loop, and for each cycle or push that   *)
(* the watcher started beside it.  Left out: what the entries show (names, *)
(* times, counts), and the first use, before the file exists.              *)
(***************************************************************************)
EXTENDS Naturals

CONSTANTS
  Syncs,     \* sync processes; they stand for their process identifiers too
  Background, \* those started with --daemon, which have a PID file
  Commands,  \* terminals that run the other commands
  Paths,
  None,
  MaxCycles, \* bound: cycles of a watcher under way at once
  MaxKills   \* bound: processes killed

\* What registry.json may hold.
Registries ==
  [Paths -> [status : {"running", "stopped", "error"}, pid : Syncs \cup {None}] \cup {None}]

\* What a process may want of it, and what it may be about to write.
Requests ==
  [kind : {"register"}, path : Paths, pid : Syncs]
    \cup [kind : {"heartbeat"}, path : Paths, error : BOOLEAN]
    \cup [kind : {"stop", "unregister"}, path : Paths]
    \cup [kind : {"prune"}]

Updates == Requests \cup [kind : {"write"}, reg : Registries]

ASSUME RegistryAssumption ==
  /\ Syncs \cap Commands = {} /\ Background \subseteq Syncs
  /\ None \notin Syncs \cup Commands \cup Paths \cup Updates
  /\ MaxCycles \in Nat /\ MaxKills \in Nat

VARIABLES
  at,        \* of a sync: where it is
  root,      \* of a sync: the path it syncs
  signalled, \* of a sync: it got SIGTERM or SIGINT
  cycles,    \* of a sync: cycles its watcher started that have not reported
  cmd,       \* of a command: where it is, and the entry it is about
  registry,  \* registry.json: status and pid of each path, None if no entry
  pidFile,   \* of a path: the PID file of its folder
  lock,      \* who holds the lock of registry.json
  update,    \* of a process: the update it waits for, or is about to write
  kills,     \* processes killed so far
  ideal,     \* history: the registry if each update were made at once
  late,      \* history: of a sync, that a cycle reported after its entry was marked
  revived    \* history: the paths whose entry runs again after it was stopped

watch == <<cycles, late>>

vars == <<at, root, signalled, watch, cmd, registry, pidFile, lock, update, kills, ideal,
          revived>>

Actors == Syncs \cup Commands

Entry(status, pid) == [status |-> status, pid |-> pid]

\* _is_pid_alive
Alive(p) == at[p] \notin {"off", "ended", "killed"}

-----------------------------------------------------------------------------
(***************************************************************************)
(* What each update makes of the registry.                                 *)
(***************************************************************************)
RegisterSync(reg, path, p) == [reg EXCEPT ![path] = Entry("running", p)]

\* A heartbeat makes every entry run again, but for an error.
UpdateHeartbeat(reg, path, error) ==
  IF reg[path] = None THEN reg
  ELSE [reg EXCEPT ![path].status = IF error THEN "error" ELSE "running"]

MarkStopped(reg, path) ==
  IF reg[path] = None THEN reg ELSE [reg EXCEPT ![path] = Entry("stopped", None)]

UnregisterSync(reg, path) == [reg EXCEPT ![path] = None]

Dead(entry) ==
  entry # None /\ entry.status = "running" /\ entry.pid # None /\ ~Alive(entry.pid)

\* Mutant of PruneDead: what a dead process left behind keeps its status.
PruneKeeping(reg) ==
  [path \in Paths |-> IF Dead(reg[path]) THEN Entry("running", reg[path].pid) ELSE reg[path]]

PruneDead(reg) ==
  [path \in Paths |-> IF Dead(reg[path]) THEN Entry("stopped", None) ELSE reg[path]]

Result(reg, u) ==
  CASE u.kind = "register"   -> RegisterSync(reg, u.path, u.pid)
    [] u.kind = "heartbeat"  -> UpdateHeartbeat(reg, u.path, u.error)
    [] u.kind = "stop"       -> MarkStopped(reg, u.path)
    [] u.kind = "unregister" -> UnregisterSync(reg, u.path)
    [] u.kind = "prune"      -> PruneDead(reg)

\* The file as a writes it.  An entry that was stopped and is not any more,
\* though a registers nothing, was revived by a heartbeat.
Stores(a, reg) ==
  /\ registry' = reg
  /\ revived' = {path \in Paths :
                   /\ reg[path] # None /\ reg[path].status # "stopped" /\ reg[path].pid # a
                   /\ \/ path \in revived
                      \/ registry[path] # None /\ registry[path].status = "stopped"}

\* Mutant of Acquire: nobody waits for the lock.
AcquireAtOnce(a) ==
  /\ update[a] # None /\ update[a].kind # "write"
  /\ lock' = a
  /\ update' = [update EXCEPT ![a] = [kind |-> "write", reg |-> Result(registry, @)]]
  /\ ideal' = Result(ideal, update[a])
  /\ UNCHANGED <<at, root, signalled, cmd, registry, pidFile, kills, watch, revived>>

\* _with_lock: lock and read.
Acquire(a) ==
  /\ update[a] # None /\ update[a].kind # "write" /\ lock = None
  /\ lock' = a
  /\ update' = [update EXCEPT ![a] = [kind |-> "write", reg |-> Result(registry, @)]]
  /\ ideal' = Result(ideal, update[a])
  /\ UNCHANGED <<at, root, signalled, cmd, registry, pidFile, kills, watch, revived>>

\* Write and unlock.
Release(a) ==
  /\ update[a] # None /\ update[a].kind = "write"
  /\ Stores(a, update[a].reg)
  /\ update' = [update EXCEPT ![a] = None]
  /\ lock' = None
  /\ UNCHANGED <<at, root, signalled, cmd, pidFile, kills, ideal, watch>>

Updating(a, u) == update' = [update EXCEPT ![a] = u]

Heartbeat(path, error) == [kind |-> "heartbeat", path |-> path, error |-> error]

Stopping(path) == [kind |-> "stop", path |-> path]

-----------------------------------------------------------------------------
(***************************************************************************)
(* A sync process.                                                         *)
(***************************************************************************)
Ready(a) == update[a] = None

Moves(p, from, to) == at[p] = from /\ Ready(p) /\ at' = [at EXCEPT ![p] = to]

Start(p, path) ==
  /\ Moves(p, "off", "initial")
  /\ root' = [root EXCEPT ![p] = path]
  /\ pidFile' = IF p \in Background THEN [pidFile EXCEPT ![path] = p] ELSE pidFile
  /\ Updating(p, [kind |-> "register", path |-> path, pid |-> p])
  /\ UNCHANGED <<signalled, cmd, registry, lock, kills, ideal, watch, revived>>

\* The handler of signals is installed after the first cycle; an error or a
\* Ctrl-C in it ends the process.
InitialSync(p) ==
  /\ \/ Moves(p, "initial", "loop") /\ Updating(p, Heartbeat(root[p], FALSE))
     \/ Moves(p, "initial", "cleanup") /\ Updating(p, Stopping(root[p]))
  /\ UNCHANGED <<root, signalled, cmd, registry, pidFile, lock, kills, ideal, watch, revived>>

SyncOnce(p, error) ==
  /\ Moves(p, "loop", "loop") /\ ~signalled[p]
  /\ Updating(p, Heartbeat(root[p], error))
  /\ UNCHANGED <<root, signalled, cmd, registry, pidFile, lock, kills, ideal, watch, revived>>

\* Mutant of FinalSync: the entry is marked before the last cycle reports.
FinalSyncLate(p, error) ==
  /\ \/ Moves(p, "loop", "final") /\ signalled[p] /\ Updating(p, Stopping(root[p]))
     \/ Moves(p, "final", "cleanup") /\ Updating(p, Heartbeat(root[p], error))
  /\ UNCHANGED <<root, signalled, cmd, registry, pidFile, lock, kills, ideal, watch, revived>>

\* A last cycle, then the entry is marked.
FinalSync(p, error) ==
  /\ \/ Moves(p, "loop", "final") /\ signalled[p] /\ Updating(p, Heartbeat(root[p], error))
     \/ Moves(p, "final", "cleanup") /\ Updating(p, Stopping(root[p]))
  /\ UNCHANGED <<root, signalled, cmd, registry, pidFile, lock, kills, ideal, watch, revived>>

\* Beside the loop, each burst of file events starts a cycle, or a push.
StartWatchCycle(p) ==
  /\ at[p] = "loop" /\ cycles[p] < MaxCycles
  /\ cycles' = [cycles EXCEPT ![p] = @ + 1]
  /\ UNCHANGED <<at, root, signalled, late, cmd, registry, pidFile, lock, update, kills,
                 ideal, revived>>

\* It reports when it is done, be it after the entry was marked, while the
\* connection to the server is closed.  A push that failed reports nothing.
WatchCycle(p, error) ==
  /\ at[p] \in {"loop", "final", "closing"} /\ cycles[p] > 0 /\ Ready(p)
  /\ cycles' = [cycles EXCEPT ![p] = @ - 1]
  /\ \/ /\ Updating(p, Heartbeat(root[p], error))
        /\ late' = [late EXCEPT ![p] = @ \/ at[p] = "closing"]
     \/ UNCHANGED <<update, late>>
  /\ UNCHANGED <<at, root, signalled, cmd, registry, pidFile, lock, kills, ideal, revived>>

\* Nothing is awaited between the mark and the removal of the PID file.
RemoveOwnPidFile(p) ==
  /\ Moves(p, "cleanup", "closing")
  /\ pidFile' = IF p \in Background THEN [pidFile EXCEPT ![root[p]] = None] ELSE pidFile
  /\ UNCHANGED <<root, signalled, cmd, registry, lock, update, kills, ideal, watch, revived>>

\* The cycles that have not reported by now are cancelled.
End(p) ==
  /\ Moves(p, "closing", "ended")
  /\ cycles' = [cycles EXCEPT ![p] = 0]
  /\ UNCHANGED <<root, signalled, late, cmd, registry, pidFile, lock, update, kills, ideal,
                 revived>>

\* A process dies; the system releases its lock.  A file that was being
\* written is left as it was, empty, or written.
Dies(p) ==
  /\ at' = [at EXCEPT ![p] = "killed"]
  /\ update' = [update EXCEPT ![p] = None]
  /\ IF lock = p
     THEN /\ \E reg \in {registry, [path \in Paths |-> None], update[p].reg} : Stores(p, reg)
          /\ lock' = None
          /\ ideal' = registry'
     ELSE UNCHANGED <<registry, lock, ideal, revived>>

Kill(p) ==
  /\ Alive(p) /\ kills < MaxKills
  /\ kills' = kills + 1
  /\ Dies(p)
  /\ UNCHANGED <<root, signalled, cmd, pidFile, watch>>

\* SIGTERM, by a command or by the user: it ends a process that has installed
\* no handler yet.
Signal(p) ==
  IF at[p] = "initial" THEN Dies(p) /\ UNCHANGED signalled
  ELSE /\ signalled' = [signalled EXCEPT ![p] = TRUE]
       /\ UNCHANGED <<at, update, registry, lock, ideal, revived>>

Interrupt(p) ==
  /\ Alive(p) /\ ~signalled[p] /\ Signal(p)
  /\ UNCHANGED <<root, cmd, pidFile, kills, watch>>

-----------------------------------------------------------------------------
(***************************************************************************)
(* The commands.                                                           *)
(***************************************************************************)
Waiting == [at |-> "idle", path |-> None, pid |-> None]

CommandMoves(c, next) == cmd' = [cmd EXCEPT ![c] = next]

\* Every command begins with list_syncs: it prunes, then loads the registry.
List(c) ==
  /\ cmd[c].at = "idle"
  /\ CommandMoves(c, [Waiting EXCEPT !.at = "load"])
  /\ Updating(c, [kind |-> "prune"])
  /\ UNCHANGED <<at, root, signalled, registry, pidFile, lock, kills, ideal, watch, revived>>

Loads(c) == cmd[c].at = "load" /\ Ready(c) /\ lock = None

\* status, or nothing to do.
Show(c) ==
  /\ Loads(c)
  /\ CommandMoves(c, Waiting)
  /\ UNCHANGED <<at, root, signalled, watch, registry, pidFile, lock, update, kills, ideal,
                 revived>>

Pick(c, path, next) ==
  /\ Loads(c) /\ registry[path] # None
  /\ CommandMoves(c, [at |-> next, path |-> path, pid |-> registry[path].pid])
  /\ UNCHANGED <<at, root, signalled, watch, registry, pidFile, lock, update, kills, ideal,
                 revived>>

PickRunning(c, path) == Pick(c, path, "signal") /\ registry[path].status = "running"

\* clean takes what is stopped; with --force, everything.
PickStale(c, path) == Pick(c, path, "unregister")

\* stop_sync_process signals the process of the entry it read, if it lives.
SignalEntry(c) ==
  LET p == cmd[c].pid
  IN /\ cmd[c].at = "signal"
     /\ CommandMoves(c, [cmd[c] EXCEPT !.at = "mark"])
     /\ IF p # None /\ Alive(p) THEN Signal(p)
        ELSE UNCHANGED <<signalled, at, update, registry, lock, ideal, revived>>
     /\ UNCHANGED <<root, pidFile, kills, watch>>

MarkEntry(c) ==
  /\ cmd[c].at = "mark"
  /\ CommandMoves(c, [cmd[c] EXCEPT !.at = "pidfile"])
  /\ Updating(c, Stopping(cmd[c].path))
  /\ UNCHANGED <<at, root, signalled, registry, pidFile, lock, kills, ideal, watch, revived>>

UnregisterEntry(c) ==
  /\ cmd[c].at = "unregister"
  /\ CommandMoves(c, [cmd[c] EXCEPT !.at = "removed"])
  /\ Updating(c, [kind |-> "unregister", path |-> cmd[c].path])
  /\ UNCHANGED <<at, root, signalled, registry, pidFile, lock, kills, ideal, watch, revived>>

\* clean leaves the PID file alone if another clean removed the entry first.
RemovePidFile(c) ==
  /\ cmd[c].at \in {"pidfile", "removed"} /\ Ready(c)
  /\ CommandMoves(c, Waiting)
  /\ \/ pidFile' = [pidFile EXCEPT ![cmd[c].path] = None]
     \/ cmd[c].at = "removed" /\ UNCHANGED pidFile
  /\ UNCHANGED <<at, root, signalled, registry, lock, update, kills, ideal, watch, revived>>

-----------------------------------------------------------------------------
Init ==
  /\ at = [p \in Syncs |-> "off"]
  /\ root = [p \in Syncs |-> None]
  /\ signalled = [p \in Syncs |-> FALSE]
  /\ cycles = [p \in Syncs |-> 0] /\ late = [p \in Syncs |-> FALSE]
  /\ cmd = [c \in Commands |-> Waiting]
  /\ registry = [path \in Paths |-> None]
  /\ pidFile = [path \in Paths |-> None]
  /\ lock = None
  /\ update = [a \in Actors |-> None]
  /\ kills = 0
  /\ ideal = [path \in Paths |-> None] /\ revived = {}

Sync(p) ==
  \/ \E error \in BOOLEAN : SyncOnce(p, error) \/ FinalSync(p, error)
  \/ InitialSync(p) \/ RemoveOwnPidFile(p) \/ End(p)

Watcher(p) == StartWatchCycle(p) \/ \E error \in BOOLEAN : WatchCycle(p, error)

Command(c) ==
  \/ List(c) \/ Show(c) \/ SignalEntry(c) \/ MarkEntry(c) \/ UnregisterEntry(c)
  \/ RemovePidFile(c)
  \/ \E path \in Paths : PickRunning(c, path) \/ PickStale(c, path)

Next ==
  \/ \E a \in Actors : Acquire(a) \/ Release(a)
  \/ \E p \in Syncs :
       \/ \E path \in Paths : Start(p, path)
       \/ Sync(p) \/ Watcher(p) \/ Kill(p) \/ Interrupt(p)
  \/ \E c \in Commands : Command(c)

Spec == Init /\ [][Next]_vars

\* Each process runs, and the lock is given to everybody who waits for it; the
\* user looks at the list again and again, which is to say that the commands
\* run too.
Fairness ==
  /\ \A a \in Actors : SF_vars(Acquire(a)) /\ WF_vars(Release(a))
  /\ \A p \in Syncs : WF_vars(Sync(p))
  /\ \A c \in Commands : SF_vars(Command(c))

FairSpec == Spec /\ Fairness

-----------------------------------------------------------------------------
(***************************************************************************)
(* Properties.                                                             *)
(***************************************************************************)
\* Types; who holds the lock is about to write, and nobody else is.
TypeOK ==
  /\ at \in [Syncs -> {"off", "initial", "loop", "final", "cleanup", "closing", "ended", "killed"}]
  /\ root \in [Syncs -> Paths \cup {None}]
  /\ signalled \in [Syncs -> BOOLEAN]
  /\ cycles \in [Syncs -> 0..MaxCycles] /\ late \in [Syncs -> BOOLEAN]
  /\ cmd \in [Commands -> [at : {"idle", "load", "signal", "mark", "unregister", "pidfile", "removed"},
                           path : Paths \cup {None}, pid : Syncs \cup {None}]]
  /\ registry \in Registries /\ ideal \in Registries
  /\ pidFile \in [Paths -> Syncs \cup {None}]
  /\ lock \in Actors \cup {None}
  /\ update \in [Actors -> Updates \cup {None}]
  /\ \A a \in Actors : lock = a <=> update[a] # None /\ update[a].kind = "write"
  /\ kills \in 0..MaxKills /\ revived \subseteq Paths

\* "File-level locking prevents corruption when multiple CLI processes update
\* the registry concurrently" (registry.py:7): no update undoes another.
UpdatesAtomic == lock = None => registry = ideal

\* Once the syncs of a path have ended, by an error or by a signal they
\* handled, no PID file is left and their entry is gone or stopped, whatever
\* commands did meanwhile.  The one exception: a cycle of the watcher was still
\* under way when its sync marked the entry, and reported before the process
\* was through, which makes an entry run that nobody serves (registry.py:204).
EndedIsStopped ==
  \A path \in Paths :
    (\A p \in Syncs : root[p] = path => at[p] = "ended") =>
      /\ pidFile[path] = None
      /\ \/ registry[path] \in {None, Entry("stopped", None)}
         \/ \E p \in Syncs : root[p] = path /\ late[p]

Listed(path) == registry[path] # None /\ registry[path].status = "running"

Deserted(path) == \A p \in Syncs : root[p] = path => ~Alive(p)

\* A path nobody syncs any more is not listed as running for ever, however its
\* syncs went: the prune of the lists finds it.  Not so an entry that was
\* stopped under a sync that lived, and that a heartbeat of it then made run
\* again: it names no process (registry.py:204, 254).
DeathNoticed ==
  \A path \in Paths :
    Listed(path) /\ Deserted(path) /\ path \notin revived ~> ~(Listed(path) /\ Deserted(path))

=============================================================================
