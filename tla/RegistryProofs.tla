---------------------------- MODULE RegistryProofs ----------------------------
(***************************************************************************)
(* Theorems about Registry, for any number of syncs, commands and paths:   *)
(* the types, and that no update of the registry undoes another one.       *)
(*                                                                         *)
(* The idea: the lock is held by exactly the process that is about to      *)
(* write, and what it is about to write is the registry as it would be if  *)
(* each update were made at once; nobody else writes meanwhile.  A process *)
(* that dies while it writes takes its update with it.                     *)
(***************************************************************************)
EXTENDS Registry, TLAPS

Writes(a) == update[a] # None /\ update[a].kind = "write"

\* What is being written is what the registry would be, or it has been.
WrittenIsIdeal ==
  /\ \A a \in Actors : lock = a => update[a].reg = ideal
  /\ lock = None => registry = ideal

\* A sync that runs has a path; a command has one when it acts on an entry, and
\* asks for one update at a time.
Placed ==
  /\ \A p \in Syncs : at[p] # "off" => root[p] \in Paths
  /\ \A c \in Commands :
       /\ cmd[c].at \in {"idle", "signal", "mark", "unregister"} => update[c] = None
       /\ cmd[c].at \notin {"idle", "load"} => cmd[c].path \in Paths

IInv == TypeOK /\ WrittenIsIdeal /\ Placed

-----------------------------------------------------------------------------
(* What each update makes of a registry is a registry.                     *)

LEMMA ResultTyped ==
  ASSUME TypeOK, NEW reg \in Registries, NEW u \in Requests
  PROVE  Result(reg, u) \in Registries
<1>1. CASE u \in [kind : {"register"}, path : Paths, pid : Syncs]
  BY <1>1 DEF Result, RegisterSync, Registries, Entry
<1>2. CASE u \in [kind : {"heartbeat"}, path : Paths, error : BOOLEAN]
  <2>1. u.kind = "heartbeat" /\ u.path \in Paths
    BY <1>2
  <2>2. CASE reg[u.path] = None
    BY <2>1, <2>2 DEF Result, UpdateHeartbeat
  <2>3. CASE reg[u.path] # None
    BY <2>1, <2>3 DEF Result, UpdateHeartbeat, Registries
  <2>. QED
    BY <2>2, <2>3
<1>3. CASE u \in [kind : {"stop", "unregister"}, path : Paths]
  BY <1>3 DEF Result, MarkStopped, UnregisterSync, Registries, Entry
<1>4. CASE u \in [kind : {"prune"}]
  BY <1>4 DEF Result, PruneDead, Registries, Entry
<1>. QED
  BY <1>1, <1>2, <1>3, <1>4 DEF Requests

\* A process that waits for the lock has a request.
LEMMA WaitingHasRequest ==
  ASSUME TypeOK, NEW a \in Actors, update[a] # None, update[a].kind # "write"
  PROVE  update[a] \in Requests
  BY DEF TypeOK, Updates

\* Who writes, writes a registry, and holds the lock.
LEMMA WriterHasLock ==
  ASSUME TypeOK, NEW a \in Actors, Writes(a)
  PROVE  lock = a /\ update[a].reg \in Registries
  BY DEF TypeOK, Writes, Updates, Requests

LEMMA ActorsAreNotNone == \A a \in Actors : a # None
  BY RegistryAssumption DEF Actors

-----------------------------------------------------------------------------
(* The lock: acquire, release, die.                                        *)

LEMMA AcquireKeeps ==
  ASSUME IInv, NEW a \in Actors, Acquire(a)
  PROVE  IInv'
<1> DEFINE new == [kind |-> "write", reg |-> Result(registry, update[a])]
<1>1. update[a] \in Requests /\ lock = None
  BY WaitingHasRequest DEF IInv, Acquire
<1>2. Result(registry, update[a]) \in Registries
  BY <1>1, ResultTyped DEF IInv, TypeOK
<1>3. new \in Updates /\ new # None
  BY <1>2, RegistryAssumption DEF Updates
<1>4. /\ update' = [update EXCEPT ![a] = new]
      /\ ideal' = Result(registry, update[a])
  BY DEF Acquire, IInv, WrittenIsIdeal
<1>5. \A b \in Actors : ~Writes(b)
  BY <1>1, WriterHasLock, ActorsAreNotNone DEF IInv
<1>6. TypeOK'
  BY <1>2, <1>3, <1>4, <1>5 DEF Acquire, watch, IInv, TypeOK, Writes
<1>7. WrittenIsIdeal'
  BY <1>4, ActorsAreNotNone DEF Acquire, IInv, TypeOK, WrittenIsIdeal
<1>8. Placed'
  BY <1>4 DEF Acquire, IInv, TypeOK, Placed, Actors
<1>. QED
  BY <1>6, <1>7, <1>8 DEF IInv

LEMMA ReleaseKeeps ==
  ASSUME IInv, NEW a \in Actors, Release(a)
  PROVE  IInv'
<1>1. lock = a /\ update[a].reg \in Registries /\ update[a].reg = ideal
  BY WriterHasLock DEF Release, Writes, IInv, WrittenIsIdeal
<1>2. TypeOK'
  BY <1>1, ActorsAreNotNone DEF Release, Stores, watch, IInv, TypeOK
<1>3. WrittenIsIdeal'
  BY <1>1, ActorsAreNotNone DEF Release, Stores, WrittenIsIdeal
<1>4. Placed'
  BY DEF Release, IInv, TypeOK, Placed, Actors
<1>. QED
  BY <1>2, <1>3, <1>4 DEF IInv

\* What Dies leaves of the variables it changes.
DyingKeeps ==
  /\ at' \in [Syncs -> {"off", "initial", "loop", "final", "cleanup", "closing", "ended", "killed"}]
  /\ update' \in [Actors -> Updates \cup {None}]
  /\ registry' \in Registries /\ ideal' \in Registries /\ revived' \subseteq Paths
  /\ lock' \in Actors \cup {None}
  /\ \A a \in Actors : lock' = a <=> update'[a] # None /\ update'[a].kind = "write"
  /\ WrittenIsIdeal'
  /\ \A c \in Commands : update'[c] = update[c]
  /\ \A p \in Syncs : at'[p] # "off" => at[p] # "off"

LEMMA DiesKeeps ==
  ASSUME IInv, NEW p \in Syncs, at[p] # "off", Dies(p)
  PROVE  DyingKeeps
<1>1. p \in Actors
  BY DEF Actors
<1>2. CASE lock = p
  <2>1. update[p].reg \in Registries /\ [path \in Paths |-> None] \in Registries
    BY <1>1, <1>2, WriterHasLock DEF IInv, TypeOK, Writes, Registries
  <2>2. registry' \in Registries /\ ideal' = registry' /\ lock' = None /\ revived' \subseteq Paths
    BY <1>2, <2>1 DEF Dies, Stores, IInv, TypeOK
  <2>3. update' \in [Actors -> Updates \cup {None}]
    BY DEF Dies, IInv, TypeOK
  <2>4. \A a \in Actors : lock' = a <=> update'[a] # None /\ update'[a].kind = "write"
    BY <1>2, <2>2, ActorsAreNotNone DEF Dies, IInv, TypeOK
  <2>5. WrittenIsIdeal'
    BY <2>2, ActorsAreNotNone DEF WrittenIsIdeal
  <2>6. \A c \in Commands : update'[c] = update[c]
    BY RegistryAssumption DEF Dies, IInv, TypeOK, Actors
  <2>. QED
    BY <2>2, <2>3, <2>4, <2>5, <2>6 DEF DyingKeeps, Dies, IInv, TypeOK
<1>3. CASE lock # p
  <2>1. \A c \in Commands : update'[c] = update[c]
    BY RegistryAssumption DEF Dies, IInv, TypeOK, Actors
  <2>. QED
    BY <1>1, <1>3, <2>1 DEF DyingKeeps, Dies, IInv, TypeOK, WrittenIsIdeal
<1>. QED
  BY <1>2, <1>3

\* A signal kills a process that has no handler, and is remembered by others.
LEMMA SignalKeeps ==
  ASSUME IInv, NEW p \in Syncs, Signal(p)
  PROVE  DyingKeeps /\ signalled' \in [Syncs -> BOOLEAN]
<1>1. CASE at[p] = "initial"
  BY <1>1, DiesKeeps DEF Signal, IInv, TypeOK
<1>2. CASE at[p] # "initial"
  BY <1>2 DEF Signal, DyingKeeps, IInv, TypeOK, WrittenIsIdeal
<1>. QED
  BY <1>1, <1>2

-----------------------------------------------------------------------------
(* A process asks for an update: the lock and the registry stay.           *)

LEMMA UpdatingKeeps ==
  ASSUME IInv, NEW a \in Actors, update[a] = None,
         NEW u \in Requests, Updating(a, u),
         UNCHANGED <<registry, lock, ideal>>
  PROVE  /\ update' \in [Actors -> Updates \cup {None}]
         /\ \A b \in Actors : lock' = b <=> update'[b] # None /\ update'[b].kind = "write"
         /\ WrittenIsIdeal'
<1>1. u.kind # "write"
  BY DEF Requests
<1>2. lock # a
  BY DEF IInv, TypeOK
<1>3. update' \in [Actors -> Updates \cup {None}]
  BY DEF Updating, IInv, TypeOK, Updates
<1>4. \A b \in Actors : lock' = b <=> update'[b] # None /\ update'[b].kind = "write"
  BY <1>1, <1>2 DEF Updating, IInv, TypeOK
<1>5. WrittenIsIdeal'
  BY <1>2 DEF Updating, IInv, TypeOK, WrittenIsIdeal
<1>. QED
  BY <1>3, <1>4, <1>5

\* Requests that are made.
LEMMA RequestsMade ==
  ASSUME NEW path \in Paths, NEW p \in Syncs, NEW error \in BOOLEAN
  PROVE  /\ [kind |-> "register", path |-> path, pid |-> p] \in Requests
         /\ Heartbeat(path, error) \in Requests
         /\ Stopping(path) \in Requests
         /\ [kind |-> "unregister", path |-> path] \in Requests
         /\ [kind |-> "prune"] \in Requests
  BY DEF Requests, Heartbeat, Stopping

-----------------------------------------------------------------------------
(* The steps.                                                              *)

LEMMA InitHolds == Init => IInv
<1> SUFFICES ASSUME Init PROVE IInv
  OBVIOUS
<1>1. TypeOK
  BY RegistryAssumption, ActorsAreNotNone DEF Init, TypeOK, Registries, Waiting
<1>2. WrittenIsIdeal
  BY ActorsAreNotNone DEF Init, WrittenIsIdeal
<1>3. Placed
  BY DEF Init, Placed, Waiting, Actors
<1>. QED
  BY <1>1, <1>2, <1>3 DEF IInv

\* A step of a sync that asks for an update u.
LEMMA SyncAsks ==
  ASSUME IInv, NEW p \in Syncs, NEW u \in Requests, NEW from, NEW to,
         Moves(p, from, to), Updating(p, u), root'[p] \in Paths,
         to \in {"initial", "loop", "final", "cleanup"},
         root' \in [Syncs -> Paths \cup {None}],
         \A q \in Syncs : q # p => root'[q] = root[q],
         pidFile' \in [Paths -> Syncs \cup {None}],
         UNCHANGED <<signalled, watch, cmd, registry, lock, kills, ideal, revived>>
  PROVE  IInv'
<1>1. p \in Actors /\ update[p] = None
  BY DEF Actors, Moves, Ready
<1>2. /\ update' \in [Actors -> Updates \cup {None}]
      /\ \A b \in Actors : lock' = b <=> update'[b] # None /\ update'[b].kind = "write"
      /\ WrittenIsIdeal'
  BY <1>1, UpdatingKeeps
<1>3. TypeOK'
  BY <1>2 DEF Moves, watch, IInv, TypeOK
<1>4. \A c \in Commands : update'[c] = update[c]
  BY RegistryAssumption DEF Updating, IInv, TypeOK, Actors
<1>5. Placed'
  BY <1>4 DEF Moves, IInv, TypeOK, Placed
<1>. QED
  BY <1>2, <1>3, <1>5 DEF IInv

\* A step of a command that asks for an update u.
LEMMA CommandAsks ==
  ASSUME IInv, NEW c \in Commands, NEW u \in Requests, NEW next,
         CommandMoves(c, next), Updating(c, u), update[c] = None,
         next \in [at : {"load", "pidfile", "removed"}, path : Paths \cup {None},
                   pid : Syncs \cup {None}],
         next.at # "load" => next.path \in Paths,
         UNCHANGED <<at, root, signalled, watch, registry, pidFile, lock, kills, ideal, revived>>
  PROVE  IInv'
<1>1. c \in Actors
  BY DEF Actors
<1>2. /\ update' \in [Actors -> Updates \cup {None}]
      /\ \A b \in Actors : lock' = b <=> update'[b] # None /\ update'[b].kind = "write"
      /\ WrittenIsIdeal'
  BY <1>1, UpdatingKeeps
<1>3. TypeOK'
  BY <1>2 DEF CommandMoves, watch, IInv, TypeOK
<1>4. Placed'
  BY <1>1 DEF CommandMoves, Updating, IInv, TypeOK, Placed, Actors
<1>. QED
  BY <1>2, <1>3, <1>4 DEF IInv

\* A step of a command that asks for nothing.
LEMMA CommandGoesOn ==
  ASSUME IInv, NEW c \in Commands, NEW next,
         CommandMoves(c, next), update[c] = None,
         next \in [at : {"idle", "signal", "mark", "unregister"}, path : Paths \cup {None},
                   pid : Syncs \cup {None}],
         next.at # "idle" => next.path \in Paths,
         pidFile' \in [Paths -> Syncs \cup {None}],
         UNCHANGED <<at, root, signalled, watch, registry, lock, update, kills, ideal, revived>>
  PROVE  IInv'
<1>1. TypeOK'
  BY DEF CommandMoves, watch, IInv, TypeOK
<1>2. WrittenIsIdeal'
  BY DEF IInv, WrittenIsIdeal
<1>3. Placed'
  BY DEF CommandMoves, IInv, TypeOK, Placed
<1>. QED
  BY <1>1, <1>2, <1>3 DEF IInv

\* A step at which p dies, or gets a signal.
LEMMA DyingStep ==
  ASSUME IInv, DyingKeeps, signalled' \in [Syncs -> BOOLEAN], kills' \in 0..MaxKills,
         UNCHANGED <<root, watch, cmd, pidFile>>
  PROVE  IInv'
<1>1. TypeOK'
  BY DEF DyingKeeps, watch, IInv, TypeOK
<1>2. Placed'
  BY DEF DyingKeeps, IInv, Placed
<1>. QED
  BY <1>1, <1>2 DEF IInv, DyingKeeps

LEMMA SyncKeeps ==
  ASSUME IInv, NEW p \in Syncs, Sync(p)
  PROVE  IInv'
<1> USE DEF Moves
<1>1. \A error \in BOOLEAN : at[p] # "off" =>
        root[p] \in Paths /\ Heartbeat(root[p], error) \in Requests /\ Stopping(root[p]) \in Requests
  BY RequestsMade DEF IInv, Placed
<1>2. ASSUME NEW error \in BOOLEAN, SyncOnce(p, error) PROVE IInv'
  <2>1. IInv /\ p \in Syncs /\ Heartbeat(root[p], error) \in Requests /\ root[p] \in Paths
    BY <1>1, <1>2 DEF SyncOnce
  <2>. QED
    BY <1>2, <2>1, SyncAsks DEF SyncOnce, IInv, TypeOK
<1>3. ASSUME NEW error \in BOOLEAN, FinalSync(p, error) PROVE IInv'
  <2>1. /\ Heartbeat(root[p], error) \in Requests /\ Stopping(root[p]) \in Requests
        /\ root[p] \in Paths
    BY <1>1, <1>3 DEF FinalSync
  <2>. QED
    BY <1>3, <2>1, SyncAsks DEF FinalSync, IInv, TypeOK
<1>4. ASSUME InitialSync(p) PROVE IInv'
  <2>1. /\ Heartbeat(root[p], FALSE) \in Requests /\ Stopping(root[p]) \in Requests
        /\ root[p] \in Paths
    BY <1>1, <1>4 DEF InitialSync
  <2>. QED
    BY <1>4, <2>1, SyncAsks DEF InitialSync, IInv, TypeOK
<1>5. ASSUME RemoveOwnPidFile(p) PROVE IInv'
  <2>1. TypeOK'
    BY <1>5, <1>1 DEF RemoveOwnPidFile, watch, IInv, TypeOK
  <2>2. WrittenIsIdeal' /\ Placed'
    BY <1>5 DEF RemoveOwnPidFile, IInv, TypeOK, WrittenIsIdeal, Placed
  <2>. QED
    BY <2>1, <2>2 DEF IInv
<1>6. ASSUME End(p) PROVE IInv'
  <2>1. TypeOK'
    BY <1>6, RegistryAssumption DEF End, IInv, TypeOK
  <2>2. WrittenIsIdeal' /\ Placed'
    BY <1>6 DEF End, IInv, TypeOK, WrittenIsIdeal, Placed
  <2>. QED
    BY <2>1, <2>2 DEF IInv
<1>. QED
  BY <1>2, <1>3, <1>4, <1>5, <1>6 DEF Sync

\* A cycle of the watcher starts, or reports beside the loop.
LEMMA WatcherKeeps ==
  ASSUME IInv, NEW p \in Syncs, Watcher(p)
  PROVE  IInv'
<1>1. CASE StartWatchCycle(p)
  <2>1. cycles[p] + 1 \in 0..MaxCycles
    BY <1>1, RegistryAssumption DEF StartWatchCycle, IInv, TypeOK
  <2>2. TypeOK'
    BY <1>1, <2>1 DEF StartWatchCycle, IInv, TypeOK
  <2>3. WrittenIsIdeal' /\ Placed'
    BY <1>1 DEF StartWatchCycle, IInv, WrittenIsIdeal, Placed
  <2>. QED
    BY <2>2, <2>3 DEF IInv
<1>2. ASSUME NEW error \in BOOLEAN, WatchCycle(p, error) PROVE IInv'
  <2>1. p \in Actors /\ update[p] = None /\ Heartbeat(root[p], error) \in Requests
    BY <1>2, RequestsMade DEF WatchCycle, Ready, Actors, IInv, Placed
  <2>2. /\ update' \in [Actors -> Updates \cup {None}]
        /\ \A b \in Actors : lock' = b <=> update'[b] # None /\ update'[b].kind = "write"
        /\ WrittenIsIdeal' /\ \A c \in Commands : update'[c] = update[c]
    <3>1. CASE Updating(p, Heartbeat(root[p], error))
      <4>1. UNCHANGED <<registry, lock, ideal>>
        BY <1>2 DEF WatchCycle
      <4>2. \A c \in Commands : update'[c] = update[c]
        BY <3>1, RegistryAssumption DEF Updating, IInv, TypeOK, Actors
      <4>. QED
        BY <2>1, <3>1, <4>1, <4>2, UpdatingKeeps
    <3>2. CASE update' = update
      BY <1>2, <3>2 DEF WatchCycle, IInv, TypeOK, WrittenIsIdeal
    <3>. QED
      BY <1>2, <3>1, <3>2 DEF WatchCycle
  <2>3. cycles' \in [Syncs -> 0..MaxCycles] /\ late' \in [Syncs -> BOOLEAN]
    <3>1. cycles[p] - 1 \in 0..MaxCycles
      BY <1>2, RegistryAssumption DEF WatchCycle, IInv, TypeOK
    <3>. QED
      BY <1>2, <3>1 DEF WatchCycle, IInv, TypeOK
  <2>4. TypeOK'
    BY <1>2, <2>2, <2>3 DEF WatchCycle, IInv, TypeOK
  <2>5. Placed'
    BY <1>2, <2>2 DEF WatchCycle, IInv, Placed
  <2>. QED
    BY <2>2, <2>4, <2>5 DEF IInv
<1>. QED
  BY <1>1, <1>2 DEF Watcher

LEMMA CommandKeeps ==
  ASSUME IInv, NEW c \in Commands, Command(c)
  PROVE  IInv'
<1> USE DEF Waiting
<1>1. CASE List(c)
  <2>1. update[c] = None /\ [kind |-> "prune"] \in Requests
    BY <1>1 DEF List, IInv, Placed, Requests
  <2>. QED
    BY <1>1, <2>1, CommandAsks DEF List
<1>2. CASE Show(c)
  BY <1>2, CommandGoesOn DEF Show, Loads, Ready, IInv, TypeOK
<1>3. CASE SignalEntry(c)
  <2>1. cmd[c] \in [at : {"signal"}, path : Paths, pid : Syncs \cup {None}] /\ update[c] = None
    BY <1>3 DEF SignalEntry, IInv, TypeOK, Placed
  <2>2. CASE cmd[c].pid # None /\ Alive(cmd[c].pid)
    <3>1. DyingKeeps /\ signalled' \in [Syncs -> BOOLEAN]
      BY <1>3, <2>1, <2>2, SignalKeeps DEF SignalEntry, Alive
    <3>2. cmd' = [cmd EXCEPT ![c] = [cmd[c] EXCEPT !.at = "mark"]]
      BY <1>3 DEF SignalEntry, CommandMoves
    <3>3. TypeOK'
      BY <1>3, <2>1, <3>1, <3>2 DEF SignalEntry, DyingKeeps, watch, IInv, TypeOK
    <3>4. Placed'
      BY <1>3, <2>1, <3>1, <3>2 DEF SignalEntry, DyingKeeps, IInv, TypeOK, Placed
    <3>. QED
      BY <3>1, <3>3, <3>4 DEF IInv, DyingKeeps
  <2>3. CASE ~(cmd[c].pid # None /\ Alive(cmd[c].pid))
    BY <1>3, <2>1, <2>3, CommandGoesOn DEF SignalEntry, IInv, TypeOK
  <2>. QED
    BY <2>2, <2>3
<1>4. CASE MarkEntry(c)
  <2>1. /\ cmd[c] \in [at : {"mark"}, path : Paths, pid : Syncs \cup {None}]
        /\ update[c] = None /\ Stopping(cmd[c].path) \in Requests
    BY <1>4 DEF MarkEntry, IInv, TypeOK, Placed, Stopping, Requests
  <2>. QED
    BY <1>4, <2>1, CommandAsks DEF MarkEntry
<1>5. CASE UnregisterEntry(c)
  <2>1. /\ cmd[c] \in [at : {"unregister"}, path : Paths, pid : Syncs \cup {None}]
        /\ update[c] = None /\ [kind |-> "unregister", path |-> cmd[c].path] \in Requests
    BY <1>5 DEF UnregisterEntry, IInv, TypeOK, Placed, Requests
  <2>. QED
    BY <1>5, <2>1, CommandAsks DEF UnregisterEntry
<1>6. CASE RemovePidFile(c)
  <2>1. pidFile' \in [Paths -> Syncs \cup {None}]
    BY <1>6 DEF RemovePidFile, IInv, TypeOK
  <2>. QED
    BY <1>6, <2>1, CommandGoesOn DEF RemovePidFile, Ready
<1>7. ASSUME NEW path \in Paths, PickRunning(c, path) \/ PickStale(c, path) PROVE IInv'
  <2>1. registry[path].pid \in Syncs \cup {None}
    BY <1>7 DEF PickRunning, PickStale, Pick, IInv, TypeOK, Registries
  <2>. QED
    BY <1>7, <2>1, CommandGoesOn DEF PickRunning, PickStale, Pick, Loads, Ready, IInv, TypeOK
<1>. QED
  BY <1>1, <1>2, <1>3, <1>4, <1>5, <1>6, <1>7 DEF Command

LEMMA NextKeeps == IInv /\ [Next]_vars => IInv'
<1> SUFFICES ASSUME IInv, [Next]_vars PROVE IInv'
  OBVIOUS
<1>1. ASSUME NEW a \in Actors, Acquire(a) \/ Release(a) PROVE IInv'
  BY <1>1, AcquireKeeps, ReleaseKeeps
<1>2. ASSUME NEW p \in Syncs, NEW path \in Paths, Start(p, path)
      PROVE  IInv'
  <2>1. [kind |-> "register", path |-> path, pid |-> p] \in Requests
    BY DEF Requests
  <2>2. /\ root' \in [Syncs -> Paths \cup {None}] /\ root'[p] = path
        /\ \A q \in Syncs : q # p => root'[q] = root[q]
        /\ pidFile' \in [Paths -> Syncs \cup {None}]
    BY <1>2 DEF Start, IInv, TypeOK
  <2>. QED
    BY <1>2, <2>1, <2>2, SyncAsks DEF Start
<1>3. ASSUME NEW p \in Syncs, Sync(p) PROVE IInv'
  BY <1>3, SyncKeeps
<1>4. ASSUME NEW p \in Syncs, Kill(p) PROVE IInv'
  <2>1. DyingKeeps /\ signalled' = signalled
    BY <1>4, DiesKeeps DEF Kill, Alive
  <2>2. kills' \in 0..MaxKills
    BY <1>4, RegistryAssumption DEF Kill, IInv, TypeOK
  <2>. QED
    BY <1>4, <2>1, <2>2, DyingStep DEF Kill, IInv, TypeOK
<1>5. ASSUME NEW p \in Syncs, Interrupt(p) PROVE IInv'
  <2>1. DyingKeeps /\ signalled' \in [Syncs -> BOOLEAN]
    BY <1>5, SignalKeeps DEF Interrupt, Alive
  <2>. QED
    BY <1>5, <2>1, DyingStep DEF Interrupt, IInv, TypeOK
<1>6. ASSUME NEW c \in Commands, Command(c) PROVE IInv'
  BY <1>6, CommandKeeps
<1>7. ASSUME NEW p \in Syncs, Watcher(p) PROVE IInv'
  BY <1>7, WatcherKeeps
<1>8. CASE UNCHANGED vars
  BY <1>8 DEF vars, watch, IInv, TypeOK, WrittenIsIdeal, Placed
<1>. QED
  BY <1>1, <1>2, <1>3, <1>4, <1>5, <1>6, <1>7, <1>8 DEF Next

LEMMA Invariance == Spec => []IInv
  BY InitHolds, NextKeeps, PTL DEF Spec

-----------------------------------------------------------------------------
(* What ended syncs leave.                                                 *)

Resting(entry) == entry = None \/ entry = Entry("stopped", None)

Pending(a) == update[a] # None /\ update[a].kind # "write"

Reports(p) == at[p] \in {"initial", "loop", "final", "killed"} \/ late[p]

\* p may still report, did so after the mark, was killed, or has still to mark
\* its entry: before the lock for the registry as it would be, with the lock for
\* the file.
Owes(p) == Reports(p) \/ (at[p] = "cleanup" /\ Pending(p))

OwesWrite(p) == Reports(p) \/ (at[p] = "cleanup" /\ update[p] # None)

\* What a sync may ask for where it is.
Asks(p) ==
  \/ /\ at[p] \in {"initial", "loop", "final"}
     /\ update[p].kind \in {"register", "heartbeat"} /\ update[p].path = root[p]
  \/ at[p] = "cleanup" /\ update[p] = Stopping(root[p])
  \/ /\ at[p] = "closing" /\ late[p]
     /\ update[p].kind = "heartbeat" /\ update[p].path = root[p]

AsksRight ==
  /\ \A p \in Syncs :
       /\ Pending(p) => Asks(p)
       /\ at[p] \in {"off", "ended"} => update[p] = None
       /\ late[p] => at[p] \in {"closing", "ended", "killed"}
  /\ \A c \in Commands : Pending(c) => update[c].kind \in {"stop", "unregister", "prune"}

\* A sync changes the entry of its own path only.
OwnEntry ==
  \A p \in Syncs : lock = p =>
    \A path \in Paths : path # root[p] => registry[path] = ideal[path]

Marked ==
  \A path \in Paths :
    /\ ~Resting(ideal[path]) => \E p \in Syncs : root[p] = path /\ Owes(p)
    /\ ~Resting(registry[path]) => \E p \in Syncs : root[p] = path /\ OwesWrite(p)

PidFilesOwned ==
  \A path \in Paths : pidFile[path] # None =>
    /\ root[pidFile[path]] = path /\ pidFile[path] \in Background
    /\ at[pidFile[path]] \notin {"off", "closing", "ended"}

MInv == AsksRight /\ OwnEntry /\ Marked /\ PidFilesOwned

LEMMA OwesIsOwesWrite == \A p \in Syncs : Owes(p) => OwesWrite(p)
  BY DEF Owes, OwesWrite, Pending

\* An update touches one entry, or prunes; only a report leaves an entry that
\* does not rest.
LEMMA ResultRests ==
  ASSUME TypeOK, NEW reg \in Registries, NEW u \in Requests, NEW path \in Paths
  PROVE  /\ u.kind = "prune" => Result(reg, u)[path] = reg[path] \/ Resting(Result(reg, u)[path])
         /\ u.kind # "prune" /\ u.path # path => Result(reg, u)[path] = reg[path]
         /\ u.kind \in {"stop", "unregister"} /\ u.path = path => Resting(Result(reg, u)[path])
<1>1. CASE u \in [kind : {"register"}, path : Paths, pid : Syncs]
  BY <1>1 DEF Result, RegisterSync, Registries
<1>2. CASE u \in [kind : {"heartbeat"}, path : Paths, error : BOOLEAN]
  <2>1. u.kind = "heartbeat" /\ u.path \in Paths
    BY <1>2
  <2>. QED
    BY <2>1 DEF Result, UpdateHeartbeat, Registries
<1>3. CASE u \in [kind : {"stop", "unregister"}, path : Paths]
  BY <1>3 DEF Result, MarkStopped, UnregisterSync, Registries, Resting
<1>4. CASE u \in [kind : {"prune"}]
  <2>1. u.kind = "prune"
    BY <1>4
  <2>2. reg \in [Paths -> [status : {"running", "stopped", "error"}, pid : Syncs \cup {None}] \cup {None}]
    BY DEF Registries
  <2>3. Result(reg, u)[path] = IF Dead(reg[path]) THEN Entry("stopped", None) ELSE reg[path]
    BY <2>1 DEF Result, PruneDead
  <2>. QED
    BY <2>1, <2>3 DEF Resting
<1>. QED
  BY <1>1, <1>2, <1>3, <1>4 DEF Requests

LEMMA AcquireMarks ==
  ASSUME IInv, MInv, NEW a \in Actors, Acquire(a)
  PROVE  MInv'
<1>1. update[a] \in Requests /\ lock = None /\ Pending(a)
  BY WaitingHasRequest DEF IInv, Acquire, Pending
<1>2. /\ registry \in Registries /\ ideal = registry /\ ideal \in Registries
      /\ ideal' = Result(ideal, update[a]) /\ registry' = registry /\ root' = root /\ at' = at
      /\ late' = late
  BY <1>1 DEF Acquire, watch, IInv, TypeOK, WrittenIsIdeal
<1>3. /\ update'[a] # None /\ update'[a].kind = "write"
      /\ \A b \in Actors : b # a => update'[b] = update[b]
  BY RegistryAssumption, <1>1, <1>2, ResultTyped DEF Acquire, IInv, TypeOK, Updates
<1>4. AsksRight'
  BY <1>1, <1>2, <1>3 DEF Acquire, MInv, AsksRight, Pending, Asks, Actors
<1>5. ASSUME NEW path \in Paths PROVE
        /\ a \in Syncs /\ root[a] # path => ideal'[path] = ideal[path]
        /\ a \in Syncs /\ ~Reports(a) /\ root[a] = path => Resting(ideal'[path])
        /\ a \in Commands => ideal'[path] = ideal[path] \/ Resting(ideal'[path])
  <2>1. /\ update[a].kind = "prune" => ideal'[path] = ideal[path] \/ Resting(ideal'[path])
        /\ update[a].kind # "prune" /\ update[a].path # path => ideal'[path] = ideal[path]
        /\ update[a].kind \in {"stop", "unregister"} /\ update[a].path = path
             => Resting(ideal'[path])
    BY <1>1, <1>2, ResultRests DEF IInv
  <2>2. CASE a \in Syncs
    <3>1. Asks(a) /\ a \notin Commands
      BY <1>1, <2>2, RegistryAssumption DEF MInv, AsksRight
    <3>. QED
      BY <2>1, <3>1 DEF Asks, Reports, Stopping
  <2>3. CASE a \in Commands
    <3>1. update[a].kind \in {"stop", "unregister", "prune"} /\ a \notin Syncs
      BY <1>1, <2>3, RegistryAssumption DEF MInv, AsksRight
    <3>. QED
      BY <2>1, <3>1
  <2>. QED
    BY <2>2, <2>3 DEF Actors
<1>6. OwnEntry'
  BY <1>2, <1>5 DEF Acquire, OwnEntry
<1>7. ASSUME NEW path \in Paths, ~Resting(ideal'[path])
      PROVE  \E p \in Syncs : root'[p] = path /\ Owes(p)'
  <2>1. CASE a \in Syncs /\ root[a] = path
    BY <1>2, <1>5, <1>7, <2>1 DEF Owes, Reports
  <2>2. CASE ~(a \in Syncs /\ root[a] = path)
    <3>1. ~Resting(ideal[path])
      BY <1>5, <1>7, <2>2 DEF Actors
    <3>2. PICK p \in Syncs : root[p] = path /\ Owes(p)
      BY <3>1 DEF MInv, Marked
    <3>. QED
      BY <1>2, <1>3, <2>2, <3>2 DEF Owes, Reports, Pending, Actors
  <2>. QED
    BY <2>1, <2>2
<1>8. ASSUME NEW path \in Paths, ~Resting(registry'[path])
      PROVE  \E p \in Syncs : root'[p] = path /\ OwesWrite(p)'
  BY <1>2, <1>3, <1>8 DEF MInv, Marked, OwesWrite, Reports, Actors
<1>9. PidFilesOwned'
  BY DEF Acquire, MInv, PidFilesOwned
<1>. QED
  BY <1>4, <1>6, <1>7, <1>8, <1>9 DEF MInv, Marked, Resting

LEMMA ReleaseMarks ==
  ASSUME IInv, MInv, NEW a \in Actors, Release(a)
  PROVE  MInv'
<1>1. /\ registry' = ideal /\ ideal' = ideal /\ root' = root /\ at' = at /\ lock' = None
      /\ ~Pending(a) /\ update'[a] = None /\ late' = late
      /\ \A b \in Actors : b # a => update'[b] = update[b]
  BY WriterHasLock DEF Release, Stores, watch, Writes, Pending, IInv, TypeOK, WrittenIsIdeal
<1>2. \A p \in Syncs : Owes(p) => Owes(p)'
  BY <1>1 DEF Owes, Reports, Pending, Actors
<1>3. \A p \in Syncs : Owes(p)' => OwesWrite(p)'
  BY DEF Owes, OwesWrite, Pending, Reports
<1>4. AsksRight'
  BY <1>1 DEF MInv, AsksRight, Pending, Asks, Actors
<1>5. OwnEntry'
  BY <1>1, RegistryAssumption DEF OwnEntry
<1>6. Marked'
  BY <1>1, <1>2, <1>3 DEF MInv, Marked, Resting
<1>7. PidFilesOwned'
  BY DEF Release, MInv, PidFilesOwned
<1>. QED
  BY <1>4, <1>5, <1>6, <1>7 DEF MInv

\* A process that dies owes its entry to the next prune.
LEMMA DiesMarks ==
  ASSUME IInv, MInv, NEW p \in Syncs, at[p] \notin {"off", "ended"}, Dies(p),
         UNCHANGED <<root, late, pidFile>>
  PROVE  MInv'
<1>1. /\ p \in Actors /\ at' = [at EXCEPT ![p] = "killed"] /\ update' = [update EXCEPT ![p] = None]
      /\ at'[p] = "killed" /\ update'[p] = None
      /\ \A q \in Syncs : q # p => at'[q] = at[q]
      /\ \A b \in Actors : b # p => update'[b] = update[b]
  BY DEF Dies, IInv, TypeOK, Actors
<1>2. \A q \in Syncs : (Owes(q) => Owes(q)') /\ (OwesWrite(q) => OwesWrite(q)')
  BY <1>1 DEF Owes, OwesWrite, Reports, Pending, Actors
<1>3. Owes(p)' /\ OwesWrite(p)'
  BY <1>1 DEF Owes, OwesWrite, Reports
<1>4. AsksRight'
  BY <1>1, RegistryAssumption DEF MInv, AsksRight, Pending, Asks, Actors
<1>5. PidFilesOwned'
  BY <1>1 DEF MInv, PidFilesOwned, IInv, TypeOK
<1>6. CASE lock = p
  <2>1. lock' = None /\ ideal' = registry'
    BY <1>6 DEF Dies
  <2>2. ASSUME NEW path \in Paths, path # root[p], ~Resting(registry'[path])
        PROVE  ~Resting(ideal[path])
    <3>1. registry[path] = ideal[path] /\ update[p].reg = ideal
      BY <1>1, <1>6, <2>2 DEF MInv, OwnEntry, IInv, WrittenIsIdeal
    <3>. QED
      BY <1>6, <2>2, <3>1 DEF Dies, Stores, Resting
  <2>3. ASSUME NEW path \in Paths, ~Resting(registry'[path])
        PROVE  \E q \in Syncs : root'[q] = path /\ Owes(q)' /\ OwesWrite(q)'
    <3>1. CASE path = root[p]
      BY <1>3, <3>1
    <3>2. CASE path # root[p]
      <4>1. PICK q \in Syncs : root[q] = path /\ Owes(q)
        BY <2>2, <2>3, <3>2 DEF MInv, Marked
      <4>. QED
        BY <1>2, <4>1, OwesIsOwesWrite
    <3>. QED
      BY <3>1, <3>2
  <2>4. Marked'
    BY <2>1, <2>3 DEF Marked, Resting
  <2>5. OwnEntry'
    BY <2>1, RegistryAssumption DEF OwnEntry
  <2>. QED
    BY <1>4, <1>5, <2>4, <2>5 DEF MInv
<1>7. CASE lock # p
  <2>1. registry' = registry /\ lock' = lock /\ ideal' = ideal
    BY <1>7 DEF Dies
  <2>2. Marked' /\ OwnEntry'
    BY <1>2, <2>1 DEF MInv, Marked, OwnEntry, Resting
  <2>. QED
    BY <1>4, <1>5, <2>2 DEF MInv
<1>. QED
  BY <1>6, <1>7

LEMMA SignalMarks ==
  ASSUME IInv, MInv, NEW p \in Syncs, Signal(p), UNCHANGED <<root, late, pidFile>>
  PROVE  MInv'
<1>1. CASE at[p] = "initial"
  BY <1>1, DiesMarks DEF Signal
<1>2. CASE at[p] # "initial"
  BY <1>2 DEF Signal, MInv, AsksRight, Pending, Asks, OwnEntry, Marked, Resting, Owes, OwesWrite,
              Reports, PidFilesOwned
<1>. QED
  BY <1>1, <1>2

\* A sync that goes on asks for an update of its own entry.
LEMMA SyncAsksMarks ==
  ASSUME IInv, MInv, NEW p \in Syncs, NEW u \in Requests, NEW from, NEW to,
         Moves(p, from, to), Updating(p, u),
         \/ /\ to \in {"initial", "loop", "final"}
            /\ u.kind \in {"register", "heartbeat"} /\ u.path = root'[p]
         \/ from # "off" /\ to = "cleanup" /\ u = Stopping(root'[p]),
         root' \in [Syncs -> Paths \cup {None}],
         \A q \in Syncs : q # p => root'[q] = root[q],
         from # "off" => root' = root,
         from \in {"off", "initial", "loop", "final"},
         PidFilesOwned',
         UNCHANGED <<registry, lock, ideal, watch>>
  PROVE  MInv'
<1>1. /\ p \in Actors /\ update[p] = None /\ lock # p /\ at[p] = from
      /\ at'[p] = to /\ update'[p] = u /\ late' = late
      /\ \A q \in Syncs : q # p => at'[q] = at[q]
      /\ \A b \in Actors : b # p => update'[b] = update[b]
  BY DEF watch, Moves, Ready, Updating, IInv, TypeOK, Actors
<1>2. u # None /\ u.kind # "write"
  BY RegistryAssumption DEF Requests, Updates
<1>3. Owes(p)' /\ OwesWrite(p)'
  BY <1>1, <1>2 DEF Owes, OwesWrite, Reports, Pending
<1>4. AsksRight'
  BY <1>1, <1>2, RegistryAssumption DEF watch, MInv, AsksRight, Pending, Asks, Actors
<1>5. OwnEntry'
  BY <1>1 DEF MInv, OwnEntry
<1>6. \A q \in Syncs : /\ Owes(q) => root'[q] = root[q] /\ Owes(q)'
                       /\ OwesWrite(q) => root'[q] = root[q] /\ OwesWrite(q)'
  BY <1>1, <1>3 DEF MInv, AsksRight, Owes, OwesWrite, Reports, Pending, Actors
<1>7. Marked'
  BY <1>6 DEF MInv, Marked, Resting
<1>. QED
  BY <1>4, <1>5, <1>7 DEF MInv

LEMMA StartMarks ==
  ASSUME IInv, MInv, NEW p \in Syncs, NEW path \in Paths, Start(p, path)
  PROVE  MInv'
<1>1. /\ root' \in [Syncs -> Paths \cup {None}] /\ root'[p] = path
      /\ \A q \in Syncs : q # p => root'[q] = root[q] /\ at'[q] = at[q]
      /\ at[p] = "off" /\ at'[p] = "initial"
  BY DEF Start, Moves, IInv, TypeOK
<1>2. [kind |-> "register", path |-> path, pid |-> p] \in Requests
  BY DEF Requests
<1>3. \A x \in Paths : pidFile'[x] = pidFile[x] \/ (x = path /\ p \in Background /\ pidFile'[x] = p)
  BY DEF Start, IInv, TypeOK
<1>4. \A x \in Paths : pidFile[x] \in Syncs \cup {None} /\ (pidFile[x] # None => pidFile[x] # p)
  BY <1>1 DEF MInv, PidFilesOwned, IInv, TypeOK
<1>5. PidFilesOwned'
  BY <1>1, <1>3, <1>4 DEF MInv, PidFilesOwned
<1>. QED
  BY <1>1, <1>2, <1>5, SyncAsksMarks DEF Start

LEMMA SyncMarks ==
  ASSUME IInv, MInv, NEW p \in Syncs, Sync(p)
  PROVE  MInv'
<1>1. at[p] # "off" =>
        /\ root[p] \in Paths /\ Stopping(root[p]) \in Requests
        /\ \A error \in BOOLEAN : Heartbeat(root[p], error) \in Requests
  BY RequestsMade DEF IInv, Placed
<1>2. \A error \in BOOLEAN : /\ Heartbeat(root[p], error).kind = "heartbeat"
                             /\ Heartbeat(root[p], error).path = root[p]
  BY DEF Heartbeat
<1>3. ASSUME UNCHANGED <<root, pidFile>>, NEW from, NEW to, Moves(p, from, to),
             to \notin {"off", "closing", "ended"}
      PROVE  PidFilesOwned'
  BY <1>3 DEF Moves, MInv, PidFilesOwned, IInv, TypeOK
<1>4. ASSUME NEW error \in BOOLEAN, SyncOnce(p, error) PROVE MInv'
  <2>1. Moves(p, "loop", "loop") /\ root' = root /\ Heartbeat(root[p], error) \in Requests
        /\ PidFilesOwned' /\ root' \in [Syncs -> Paths \cup {None}]
    BY <1>1, <1>3, <1>4 DEF SyncOnce, Moves, IInv, TypeOK
  <2>. QED
    BY <1>2, <1>4, <2>1, SyncAsksMarks DEF SyncOnce
<1>5. ASSUME NEW error \in BOOLEAN, FinalSync(p, error) PROVE MInv'
  <2>1. root' = root /\ root' \in [Syncs -> Paths \cup {None}]
    BY <1>5 DEF FinalSync, IInv, TypeOK
  <2>2. CASE Moves(p, "loop", "final") /\ Updating(p, Heartbeat(root[p], error))
    <3>1. Heartbeat(root[p], error) \in Requests
      BY <1>1, <2>2 DEF Moves
    <3>2. PidFilesOwned'
      BY <1>3, <1>5, <2>2 DEF FinalSync
    <3>. QED
      BY <1>2, <1>5, <2>1, <2>2, <3>1, <3>2, SyncAsksMarks DEF FinalSync
  <2>3. CASE Moves(p, "final", "cleanup") /\ Updating(p, Stopping(root[p]))
    <3>1. Stopping(root[p]) \in Requests /\ PidFilesOwned'
      BY <1>1, <1>3, <1>5, <2>3 DEF FinalSync, Moves
    <3>. QED
      BY <1>5, <2>1, <2>3, <3>1, SyncAsksMarks DEF FinalSync
  <2>. QED
    BY <1>5, <2>2, <2>3 DEF FinalSync
<1>6. CASE InitialSync(p)
  <2>1. root' = root /\ root' \in [Syncs -> Paths \cup {None}]
    BY <1>6 DEF InitialSync, IInv, TypeOK
  <2>2. CASE Moves(p, "initial", "loop") /\ Updating(p, Heartbeat(root[p], FALSE))
    <3>1. Heartbeat(root[p], FALSE) \in Requests /\ PidFilesOwned'
      BY <1>1, <1>3, <1>6, <2>2 DEF InitialSync, Moves
    <3>. QED
      BY <1>2, <1>6, <2>1, <2>2, <3>1, SyncAsksMarks DEF InitialSync
  <2>3. CASE Moves(p, "initial", "cleanup") /\ Updating(p, Stopping(root[p]))
    <3>1. Stopping(root[p]) \in Requests /\ PidFilesOwned'
      BY <1>1, <1>3, <1>6, <2>3 DEF InitialSync, Moves
    <3>. QED
      BY <1>6, <2>1, <2>3, <3>1, SyncAsksMarks DEF InitialSync
  <2>. QED
    BY <1>6, <2>2, <2>3 DEF InitialSync
<1>7. CASE RemoveOwnPidFile(p)
  <2>1. /\ at[p] = "cleanup" /\ at'[p] = "closing" /\ update[p] = None /\ update' = update
        /\ \A q \in Syncs : q # p => at'[q] = at[q]
        /\ UNCHANGED <<root, registry, lock, ideal, late>>
    BY <1>7 DEF RemoveOwnPidFile, watch, Moves, Ready, IInv, TypeOK
  <2>2. \A q \in Syncs : (Owes(q) => Owes(q)') /\ (OwesWrite(q) => OwesWrite(q)')
    BY <2>1 DEF Owes, OwesWrite, Reports, Pending
  <2>3. AsksRight'
    BY <2>1 DEF MInv, AsksRight, Pending, Asks
  <2>4. OwnEntry' /\ Marked'
    BY <2>1, <2>2 DEF MInv, OwnEntry, Marked, Resting
  <2>5. \A path \in Paths : pidFile'[path] # None => pidFile'[path] = pidFile[path] /\ pidFile[path] # p
    BY <1>7 DEF RemoveOwnPidFile, MInv, PidFilesOwned, IInv, TypeOK
  <2>6. PidFilesOwned'
    BY <2>1, <2>5 DEF MInv, PidFilesOwned, IInv, TypeOK
  <2>. QED
    BY <2>3, <2>4, <2>6 DEF MInv
<1>8. CASE End(p)
  <2>1. /\ at[p] = "closing" /\ at'[p] = "ended" /\ update[p] = None /\ update' = update
        /\ \A q \in Syncs : q # p => at'[q] = at[q]
        /\ UNCHANGED <<root, registry, lock, ideal, late, pidFile>>
    BY <1>8 DEF End, Moves, Ready, IInv, TypeOK
  <2>2. \A q \in Syncs : (Owes(q) => Owes(q)') /\ (OwesWrite(q) => OwesWrite(q)')
    BY <2>1 DEF Owes, OwesWrite, Reports, Pending
  <2>3. AsksRight'
    BY <2>1 DEF MInv, AsksRight, Pending, Asks
  <2>4. OwnEntry' /\ Marked'
    BY <2>1, <2>2 DEF MInv, OwnEntry, Marked, Resting
  <2>5. PidFilesOwned'
    BY <2>1 DEF MInv, PidFilesOwned, IInv, TypeOK
  <2>. QED
    BY <2>3, <2>4, <2>5 DEF MInv
<1>. QED
  BY <1>4, <1>5, <1>6, <1>7, <1>8 DEF Sync

\* A cycle of the watcher reports about its own path; after the mark it is late.
LEMMA WatcherMarks ==
  ASSUME IInv, MInv, NEW p \in Syncs, Watcher(p)
  PROVE  MInv'
<1>1. CASE StartWatchCycle(p)
  BY <1>1 DEF StartWatchCycle, MInv, AsksRight, Pending, Asks, OwnEntry, Marked, Resting, Owes,
              OwesWrite, Reports, PidFilesOwned
<1>2. ASSUME NEW error \in BOOLEAN, WatchCycle(p, error), Updating(p, Heartbeat(root[p], error)),
             late' = [late EXCEPT ![p] = @ \/ at[p] = "closing"]
      PROVE  MInv'
  <2>1. /\ p \in Actors /\ update[p] = None /\ lock # p
        /\ Heartbeat(root[p], error) \in Requests
        /\ UNCHANGED <<at, root, registry, lock, ideal, pidFile>>
        /\ at[p] \in {"loop", "final", "closing"}
    BY <1>2, RequestsMade DEF WatchCycle, Ready, Actors, IInv, TypeOK, Placed
  <2>2. /\ update'[p] = Heartbeat(root[p], error)
        /\ \A b \in Actors : b # p => update'[b] = update[b]
    BY <1>2, <2>1 DEF Updating, IInv, TypeOK
  <2>3. /\ update'[p] # None /\ update'[p].kind = "heartbeat" /\ update'[p].path = root[p]
    BY <2>1, <2>2, RegistryAssumption DEF Heartbeat, Updates
  <2>4. /\ \A q \in Syncs : late[q] => late'[q]
        /\ at[p] = "closing" => late'[p]
        /\ \A q \in Syncs : late'[q] => late[q] \/ at[q] = "closing"
    BY <1>2 DEF IInv, TypeOK
  <2>5. Asks(p)'
    BY <2>1, <2>3, <2>4 DEF Asks
  <2>6. \A q \in Syncs : q # p => (Pending(q)' => Pending(q)) /\ (Asks(q) => Asks(q)')
    BY <2>1, <2>2, <2>4 DEF Pending, Asks, Actors
  <2>7. AsksRight'
    BY <2>1, <2>2, <2>4, <2>5, <2>6, RegistryAssumption DEF MInv, AsksRight, Pending, Actors
  <2>8. OwnEntry'
    BY <2>1 DEF MInv, OwnEntry
  <2>9. \A q \in Syncs : (Owes(q) => Owes(q)') /\ (OwesWrite(q) => OwesWrite(q)')
    BY <2>1, <2>2, <2>4 DEF Owes, OwesWrite, Reports, Pending, Actors
  <2>10. Marked'
    BY <2>1, <2>9 DEF MInv, Marked, Resting
  <2>11. PidFilesOwned'
    BY <2>1 DEF MInv, PidFilesOwned
  <2>. QED
    BY <2>7, <2>8, <2>10, <2>11 DEF MInv
<1>3. ASSUME NEW error \in BOOLEAN, WatchCycle(p, error), UNCHANGED <<update, late>>
      PROVE  MInv'
  BY <1>3 DEF WatchCycle, MInv, AsksRight, Pending, Asks, OwnEntry, Marked, Resting, Owes,
              OwesWrite, Reports, PidFilesOwned
<1>. QED
  BY <1>1, <1>2, <1>3 DEF Watcher, WatchCycle

\* A command asks for nothing but a stop, a removal or a prune.
LEMMA CommandMarks ==
  ASSUME IInv, MInv, NEW c \in Commands, Command(c)
  PROVE  MInv'
<1>1. ASSUME UNCHANGED <<at, root, registry, lock, ideal, watch>>,
             \A p \in Syncs : update'[p] = update[p], AsksRight', PidFilesOwned'
      PROVE  MInv'
  BY <1>1 DEF watch, MInv, OwnEntry, Marked, Resting, Owes, OwesWrite, Reports, Pending
<1>2. ASSUME NEW u \in Requests, Updating(c, u), u.kind \in {"stop", "unregister", "prune"},
             UNCHANGED <<at, root, registry, lock, ideal, watch, pidFile>>
      PROVE  MInv'
  <2>1. c \in Actors /\ c \notin Syncs /\ update'[c] = u
        /\ \A b \in Actors : b # c => update'[b] = update[b]
    BY <1>2, RegistryAssumption DEF Updating, IInv, TypeOK, Actors
  <2>2. AsksRight'
    BY <1>2, <2>1 DEF watch, MInv, AsksRight, Pending, Asks, Actors
  <2>3. PidFilesOwned'
    BY <1>2 DEF MInv, PidFilesOwned
  <2>. QED
    BY <1>1, <1>2, <2>1, <2>2, <2>3 DEF Actors
<1>3. ASSUME UNCHANGED <<at, root, registry, lock, ideal, watch, update>>, PidFilesOwned'
      PROVE  MInv'
  BY <1>1, <1>3 DEF watch, MInv, AsksRight, Pending, Asks
<1>4. CASE List(c)
  <2>1. [kind |-> "prune"] \in Requests
    BY DEF Requests
  <2>. QED
    BY <1>2, <1>4, <2>1 DEF List
<1>5. CASE Show(c)
  BY <1>3, <1>5 DEF Show, MInv, PidFilesOwned
<1>6. CASE SignalEntry(c)
  <2>1. CASE cmd[c].pid # None /\ Alive(cmd[c].pid)
    <3>1. cmd[c].pid \in Syncs
      BY <1>6, <2>1 DEF SignalEntry, IInv, TypeOK
    <3>. QED
      BY <1>6, <2>1, <3>1, SignalMarks DEF SignalEntry, watch
  <2>2. CASE ~(cmd[c].pid # None /\ Alive(cmd[c].pid))
    BY <1>3, <1>6, <2>2 DEF SignalEntry, MInv, PidFilesOwned
  <2>. QED
    BY <2>1, <2>2
<1>7. CASE MarkEntry(c)
  <2>1. Stopping(cmd[c].path) \in Requests /\ Stopping(cmd[c].path).kind = "stop"
    BY <1>7 DEF MarkEntry, IInv, Placed, Stopping, Requests
  <2>. QED
    BY <1>2, <1>7, <2>1 DEF MarkEntry
<1>8. CASE UnregisterEntry(c)
  <2>1. [kind |-> "unregister", path |-> cmd[c].path] \in Requests
    BY <1>8 DEF UnregisterEntry, IInv, Placed, Requests
  <2>. QED
    BY <1>2, <1>8, <2>1 DEF UnregisterEntry
<1>9. CASE RemovePidFile(c)
  <2>1. PidFilesOwned'
    BY <1>9 DEF RemovePidFile, MInv, PidFilesOwned, IInv, TypeOK
  <2>. QED
    BY <1>3, <1>9, <2>1 DEF RemovePidFile
<1>10. ASSUME NEW path \in Paths, PickRunning(c, path) \/ PickStale(c, path) PROVE MInv'
  BY <1>3, <1>10 DEF PickRunning, PickStale, Pick, MInv, PidFilesOwned
<1>. QED
  BY <1>4, <1>5, <1>6, <1>7, <1>8, <1>9, <1>10 DEF Command

LEMMA MarkedKept == IInv /\ MInv /\ [Next]_vars => MInv'
<1> SUFFICES ASSUME IInv, MInv, [Next]_vars PROVE MInv'
  OBVIOUS
<1>1. ASSUME NEW p \in Syncs, Kill(p) PROVE MInv'
  BY <1>1, DiesMarks DEF Kill, Alive, watch
<1>2. ASSUME NEW p \in Syncs, Interrupt(p) PROVE MInv'
  BY <1>2, SignalMarks DEF Interrupt, watch
<1>3. CASE UNCHANGED vars
  BY <1>3 DEF vars, watch, MInv, AsksRight, Pending, Asks, OwnEntry, Marked, Resting, Owes, OwesWrite,
              Reports, PidFilesOwned
<1>. QED
  BY <1>1, <1>2, <1>3, AcquireMarks, ReleaseMarks, StartMarks, SyncMarks, WatcherMarks, CommandMarks
     DEF Next

LEMMA InitMarked == Init => MInv
<1> SUFFICES ASSUME Init PROVE MInv
  OBVIOUS
<1>1. AsksRight /\ OwnEntry
  BY RegistryAssumption DEF Init, AsksRight, Pending, OwnEntry, Actors
<1>2. Marked /\ PidFilesOwned
  BY DEF Init, Marked, Resting, PidFilesOwned
<1>. QED
  BY <1>1, <1>2 DEF MInv

-----------------------------------------------------------------------------
\* Every variable keeps its type, whoever is killed at whatever step, and the
\* lock is held by exactly the process that is about to write.
THEOREM TypesHold == Spec => []TypeOK
<1>1. IInv => TypeOK
  BY DEF IInv
<1>. QED
  BY Invariance, <1>1, PTL

\* However many syncs and commands update the registry at once, and whichever
\* are killed, the registry is what it would be if each update were made in
\* one step (registry.py:7).
THEOREM UpdatesAtomicHolds == Spec => []UpdatesAtomic
<1>1. IInv => UpdatesAtomic
  BY DEF IInv, WrittenIsIdeal, UpdatesAtomic
<1>. QED
  BY Invariance, <1>1, PTL

\* However many syncs of a path end, and whatever commands stop, clean or kill
\* meanwhile, no PID file is left, and the entry is stopped or removed unless
\* a cycle of a watcher reported after its sync's mark (start.py:154-157,
\* registry.py:204, 216-232).
THEOREM EndedIsStoppedHolds == Spec => []EndedIsStopped
<1>1. IInv /\ MInv => EndedIsStopped
  BY DEF IInv, TypeOK, MInv, Marked, Resting, OwesWrite, Reports, PidFilesOwned, EndedIsStopped
<1>2. Spec => []MInv
  BY Invariance, InitMarked, MarkedKept, PTL DEF Spec
<1>. QED
  BY Invariance, <1>1, <1>2, PTL

===============================================================================
