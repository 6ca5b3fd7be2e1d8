---------------------------- MODULE Notifications ----------------------------
(***************************************************************************)
(* Delayed notifications of the backend: services/                         *)
(* notification_dispatcher.py (schedule, send), notification_scheduler.py  *)
(* and notification_retry.py, with the callers that schedule them.         *)
(*                                                                         *)
(* A share or a comment leaves a record in MongoDB and calls schedule(),   *)
(* which inserts one Notification per recipient and adds its id to a Redis *)
(* sorted set.  The scheduler task takes due ids out of the set, checks    *)
(* that the record is still there, and sends.  The retry task works off a  *)
(* Redis list.  Each request, and each of the two tasks, is a coroutine of *)
(* one process; a step of this module is the code between two awaits.      *)
(*                                                                         *)
(* A Notification is named by the call that made it and its recipient.     *)
(***************************************************************************)
EXTENDS Naturals, Sequences

CONSTANTS
  Records,     \* comments and access records
  Kind,        \* of a record: "comment", "share" (DocumentAccess, FolderAccess)
               \* or "group" (DocumentGroupAccess, FolderGroupAccess)
  Users,
  Calls,       \* calls of schedule()
  Ref,         \* the record a call is about: action_ref_id
  Recipients,  \* of a call
  None,
  MaxRetries,  \* MAX_RETRIES
  Failing,     \* "send": a delivery fails; "raise": a delivery raises; "db":
               \* MongoDB or Redis raises; "slow": schedule() takes longer
               \* than the delay
  Requeues,    \* does an operator put failed notifications on the retry list?
  MaxFaults    \* bound: crashes of the process and exceptions together

ASSUME NotificationsAssumption ==
  /\ Kind \in [Records -> {"comment", "share", "group"}]
  /\ Ref \in [Calls -> Records]
  /\ Recipients \in [Calls -> SUBSET Users]
  /\ None \notin Users /\ \A us \in SUBSET Users : us # None
  /\ MaxRetries \in Nat \ {0}
  /\ Failing \subseteq {"send", "raise", "db", "slow"}
  /\ Requeues \in BOOLEAN
  /\ MaxFaults \in Nat

Notes == {n \in Calls \X Users : n[2] \in Recipients[n[1]]}

RecordOf(n) == Ref[n[1]]

VARIABLES
  record,     \* MongoDB: each record is "new", "live" or "deleted"
  muted,      \* MongoDB: users whose preferences disable the event
  status,     \* MongoDB: Notification.status, or "none" before the insert
  retries,    \* MongoDB: Notification.retry_count
  scheduled,  \* Redis: the sorted set
  retryList,  \* Redis: the retry list
  past,       \* the calls whose deliver_at has come
  todo,       \* schedule(): recipients still to visit; None before the call
  adding,     \* schedule(): the recipient whose id is to be added, or None
  spc,        \* location of the scheduler task
  horizon,    \* scheduler: what was due at its `now`
  batch,      \* scheduler: `items` still to process
  item,       \* scheduler: the notification in progress, <<>> if none
  rpc,        \* location of the retry task
  ritem,      \* retry task: the notification in progress, <<>> if none
  ok,         \* what the last send of each task returned
  faults,     \* history: crashes and exceptions so far
  trouble,    \* history: something was cut short, or an entry lost
  cancelled,  \* history: the record was deleted before the delivery time
  attempts    \* history: sends so far, counted up to MaxRetries + 1

mongo     == <<record, muted, status, retries>>
redis     == <<scheduled, retryList>>
calls     == <<todo, adding>>
scheduler == <<spc, horizon, batch, item>>
retry     == <<rpc, ritem>>
history   == <<faults, trouble, cancelled, attempts>>
vars      == <<mongo, redis, past, calls, scheduler, retry, ok, history>>

Statuses == {"none", "scheduled", "pending", "sent", "failed", "skipped"}
Settled  == {"sent", "failed", "skipped"}

\* The types; that of retries bounds what retry_count reaches.
TypeOK ==
  /\ record \in [Records -> {"new", "live", "deleted"}]
  /\ muted \subseteq Users
  /\ status \in [Notes -> Statuses]
  /\ retries \in [Notes -> 0 .. MaxRetries]
  /\ scheduled \subseteq Notes /\ past \subseteq Calls
  /\ retryList \in Seq(Notes)
  /\ todo \in [Calls -> (SUBSET Users) \cup {None}]
  /\ adding \in [Calls -> Users \cup {None}]
  /\ spc \in {"idle", "remove", "loop", "validate", "send", "save"}
  /\ horizon \subseteq Calls /\ batch \subseteq Notes
  /\ item \in Notes \cup {<<>>}
  /\ rpc \in {"idle", "backoff", "save", "push"}
  /\ ritem \in Notes \cup {<<>>}
  /\ ok \in [{"scheduler", "retry"} -> BOOLEAN]
  /\ faults \in 0 .. MaxFaults
  /\ trouble \in BOOLEAN
  /\ cancelled \subseteq Notes
  /\ attempts \in [Notes -> 0 .. MaxRetries + 1]

Init ==
  /\ record = [r \in Records |-> "new"]
  /\ muted = {}
  /\ status = [n \in Notes |-> "none"]
  /\ retries = [n \in Notes |-> 0]
  /\ scheduled = {} /\ retryList = <<>> /\ past = {}
  /\ todo = [c \in Calls |-> None]
  /\ adding = [c \in Calls |-> None]
  /\ spc = "idle" /\ horizon = {} /\ batch = {} /\ item = <<>>
  /\ rpc = "idle" /\ ritem = <<>>
  /\ ok = [t \in {"scheduler", "retry"} |-> FALSE]
  /\ faults = 0 /\ trouble = FALSE
  /\ cancelled = {} /\ attempts = [n \in Notes |-> 0]

\* An exception or a crash cuts something short.
Fault ==
  /\ faults < MaxFaults
  /\ faults' = faults + 1
  /\ trouble' = TRUE

-----------------------------------------------------------------------------
(* The requests: a share or a comment, its reversal, the preferences.      *)

\* The record is inserted and schedule() is called.  Sharing with a group
\* again updates its record and schedules again; a second share with a user
\* schedules nothing.
Act(c) ==
  /\ todo[c] = None
  /\ \/ record[Ref[c]] = "new"
     \/ record[Ref[c]] = "live" /\ Kind[Ref[c]] = "group"
  /\ record' = [record EXCEPT ![Ref[c]] = "live"]
  /\ todo' = [todo EXCEPT ![c] = Recipients[c]]
  /\ UNCHANGED <<muted, status, retries, redis, past, adding, scheduler, retry, ok, history>>

\* The comment is deleted, the access revoked.
Revert(r) ==
  /\ record[r] = "live"
  /\ record' = [record EXCEPT ![r] = "deleted"]
  /\ cancelled' = cancelled \cup
       {n \in Notes : n[1] \notin past /\ RecordOf(n) = r /\ status[n] = "scheduled"}
  /\ UNCHANGED <<muted, status, retries, redis, past, calls, scheduler, retry, ok,
                 faults, trouble, attempts>>

SetPreference(u) ==
  /\ muted' = IF u \in muted THEN muted \ {u} ELSE muted \cup {u}
  /\ UNCHANGED <<record, status, retries, redis, past, calls, scheduler, retry, ok, history>>

-----------------------------------------------------------------------------
(* schedule().                                                             *)

Visit(c, u) == todo[c] # None /\ adding[c] = None /\ u \in todo[c]

SkipMuted(c, u) ==
  /\ Visit(c, u) /\ u \in muted
  /\ todo' = [todo EXCEPT ![c] = @ \ {u}]
  /\ UNCHANGED <<mongo, redis, past, adding, scheduler, retry, ok, history>>

InsertNote(c, u) ==
  /\ Visit(c, u) /\ u \notin muted
  /\ status' = [status EXCEPT ![<<c, u>>] = "scheduled"]
  /\ cancelled' = IF record[Ref[c]] = "deleted" THEN cancelled \cup {<<c, u>>} ELSE cancelled
  /\ todo' = [todo EXCEPT ![c] = @ \ {u}]
  /\ adding' = [adding EXCEPT ![c] = u]
  /\ UNCHANGED <<record, muted, retries, redis, past, scheduler, retry, ok,
                 faults, trouble, attempts>>

AddToSchedule(c) ==
  /\ adding[c] # None
  /\ scheduled' = scheduled \cup {<<c, adding[c]>>}
  /\ adding' = [adding EXCEPT ![c] = None]
  /\ UNCHANGED <<mongo, retryList, past, todo, scheduler, retry, ok, history>>

\* An exception ends the loop over the recipients; the caller logs it.
ScheduleFails(c) ==
  /\ Fault
  /\ "db" \in Failing
  /\ todo[c] # None /\ (todo[c] # {} \/ adding[c] # None)
  /\ todo' = [todo EXCEPT ![c] = {}]
  /\ adding' = [adding EXCEPT ![c] = None]
  /\ UNCHANGED <<mongo, redis, past, scheduler, retry, ok, cancelled, attempts>>

-----------------------------------------------------------------------------
(* The scheduler task.                                                     *)

\* The deliver_at of call c comes: after the call is over, or, if schedule()
\* is slow, during it.
BecomeDue(c) ==
  /\ c \notin past /\ todo[c] # None
  /\ \/ todo[c] = {} /\ adding[c] = None
     \/ "slow" \in Failing
  /\ past' = past \cup {c}
  /\ UNCHANGED <<mongo, redis, calls, scheduler, retry, ok, history>>

\* The scheduled ids of calls cs.
DueBy(cs) == {n \in scheduled : n[1] \in cs}

\* zrangebyscore
ReadDue ==
  /\ spc = "idle"
  /\ DueBy(past) # {}
  /\ horizon' = past
  /\ batch' = DueBy(past)
  /\ spc' = "remove"
  /\ UNCHANGED <<mongo, redis, past, calls, item, retry, ok, history>>

\* zremrangebyscore, up to the same time
RemoveDue ==
  /\ spc = "remove"
  /\ scheduled' = scheduled \ DueBy(horizon)
  /\ trouble' = (trouble \/ DueBy(horizon) # batch)
  /\ horizon' = {}
  /\ spc' = "loop"
  /\ UNCHANGED <<mongo, retryList, past, calls, batch, item, retry, ok,
                 faults, cancelled, attempts>>

\* Notification.get; one that is not SCHEDULED is passed over.
TakeItem(n) ==
  /\ spc = "loop" /\ n \in batch
  /\ batch' = batch \ {n}
  /\ IF status[n] = "scheduled"
     THEN spc' = "validate" /\ item' = n
     ELSE UNCHANGED <<spc, item>>
  /\ UNCHANGED <<mongo, redis, past, calls, horizon, retry, ok, history>>

EndBatch ==
  /\ spc = "loop" /\ batch = {}
  /\ spc' = "idle"
  /\ UNCHANGED <<mongo, redis, past, calls, horizon, batch, item, retry, ok, history>>

\* Mutant of ActionExists: a deleted record is not told from a live one.
EverExisted(r) == record[r] # "new"

\* _validate_action_exists: an id is looked up among the comments, or the
\* accesses of users; that of a group's access is not there.
ActionExists(r) == record[r] = "live" /\ Kind[r] # "group"

\* Mutant of Validate: a skipped notification ends the batch.
ValidateReturns ==
  /\ spc = "validate"
  /\ IF ActionExists(RecordOf(item))
     THEN /\ status' = [status EXCEPT ![item] = "pending"]
          /\ spc' = "send" /\ UNCHANGED <<item, batch>>
     ELSE /\ status' = [status EXCEPT ![item] = "skipped"]
          /\ spc' = "idle" /\ item' = <<>> /\ batch' = {}
  /\ UNCHANGED <<record, muted, retries, redis, past, calls, horizon, retry, ok, history>>

Validate ==
  /\ spc = "validate"
  /\ IF ActionExists(RecordOf(item))
     THEN /\ status' = [status EXCEPT ![item] = "pending"]
          /\ spc' = "send" /\ UNCHANGED item
     ELSE /\ status' = [status EXCEPT ![item] = "skipped"]
          /\ spc' = "loop" /\ item' = <<>>
  /\ UNCHANGED <<record, muted, retries, redis, past, calls, horizon, batch, retry, ok, history>>

\* A delivery of n is attempted.
Attempted(n) == [attempts EXCEPT ![n] = IF @ > MaxRetries THEN @ ELSE @ + 1]

\* handler.send returns.
Outcomes == {TRUE} \cup (IF "send" \in Failing THEN {FALSE} ELSE {})

Send ==
  /\ spc = "send"
  /\ attempts' = Attempted(item)
  /\ \E b \in Outcomes : ok' = [ok EXCEPT !["scheduler"] = b]
  /\ spc' = "save"
  /\ UNCHANGED <<mongo, redis, past, calls, horizon, batch, item, retry,
                 faults, trouble, cancelled>>

\* Mutant of Recorded: a failure is not counted.
RecordedUncounted(n, b) ==
  /\ status' = [status EXCEPT ![n] = IF b THEN "sent" ELSE "failed"]
  /\ UNCHANGED retries

\* dispatcher.send records what the handler returned for n.
Recorded(n, b) ==
  /\ status' = [status EXCEPT ![n] = IF b THEN "sent" ELSE "failed"]
  /\ retries' = [retries EXCEPT ![n] = IF b THEN @ ELSE @ + 1]

SaveSent ==
  /\ spc = "save"
  /\ Recorded(item, ok["scheduler"])
  /\ spc' = "loop" /\ item' = <<>>
  /\ ok' = [ok EXCEPT !["scheduler"] = FALSE]
  /\ UNCHANGED <<record, muted, redis, past, calls, horizon, batch, retry, history>>

\* An exception leaves _process_due_notifications; what it took is gone.
SchedulerFails ==
  /\ Fault
  /\ \/ "db" \in Failing /\ spc # "idle"
     \/ "raise" \in Failing /\ spc = "send"
  /\ spc' = "idle" /\ horizon' = {} /\ batch' = {} /\ item' = <<>>
  /\ ok' = [ok EXCEPT !["scheduler"] = FALSE]
  /\ attempts' = IF spc = "send" THEN Attempted(item) ELSE attempts
  /\ UNCHANGED <<mongo, redis, past, calls, retry, cancelled>>

-----------------------------------------------------------------------------
(* The retry task.                                                         *)

\* push_to_retry has no caller but the retry task: what starts a retry is an
\* entry an operator puts on the list.
Requeue(n) ==
  /\ Requeues
  /\ status[n] = "failed" /\ ritem # n
  /\ \A i \in 1 .. Len(retryList) : retryList[i] # n
  /\ retryList' = Append(retryList, n)
  /\ UNCHANGED <<mongo, scheduled, past, calls, scheduler, retry, ok, history>>

\* Mutant of RetryPop: one attempt too many.
PopOffByOne ==
  /\ rpc = "idle" /\ retryList # <<>>
  /\ retryList' = Tail(retryList)
  /\ LET n == Head(retryList)
     IN  IF retries[n] > MaxRetries
         THEN /\ status' = [status EXCEPT ![n] = "failed"]
              /\ UNCHANGED retry
         ELSE /\ rpc' = "backoff" /\ ritem' = n
              /\ UNCHANGED status
  /\ UNCHANGED <<record, muted, retries, scheduled, past, calls, scheduler, ok, history>>

\* lpop and Notification.get
RetryPop ==
  /\ rpc = "idle" /\ retryList # <<>>
  /\ retryList' = Tail(retryList)
  /\ LET n == Head(retryList)
     IN  IF retries[n] >= MaxRetries
         THEN /\ status' = [status EXCEPT ![n] = "failed"]
              /\ UNCHANGED retry
         ELSE /\ rpc' = "backoff" /\ ritem' = n
              /\ UNCHANGED status
  /\ UNCHANGED <<record, muted, retries, scheduled, past, calls, scheduler, ok, history>>

\* The backoff is over.  The action is not validated again.
RetrySend ==
  /\ rpc = "backoff"
  /\ attempts' = Attempted(ritem)
  /\ \E b \in Outcomes : ok' = [ok EXCEPT !["retry"] = b]
  /\ rpc' = "save"
  /\ UNCHANGED <<mongo, redis, past, calls, scheduler, ritem, faults, trouble, cancelled>>

RetrySave ==
  /\ rpc = "save"
  /\ Recorded(ritem, ok["retry"])
  /\ IF ok["retry"] THEN rpc' = "idle" /\ ritem' = <<>> ELSE rpc' = "push" /\ UNCHANGED ritem
  /\ ok' = [ok EXCEPT !["retry"] = FALSE]
  /\ UNCHANGED <<record, muted, redis, past, calls, scheduler, history>>

\* push_to_retry
RetryPush ==
  /\ rpc = "push"
  /\ retryList' = Append(retryList, ritem)
  /\ rpc' = "idle" /\ ritem' = <<>>
  /\ UNCHANGED <<mongo, scheduled, past, calls, scheduler, ok, history>>

RetryFails ==
  /\ Fault
  /\ \/ "db" \in Failing /\ rpc # "idle"
     \/ "raise" \in Failing /\ rpc = "backoff"
  /\ rpc' = "idle" /\ ritem' = <<>>
  /\ ok' = [ok EXCEPT !["retry"] = FALSE]
  /\ attempts' = IF rpc = "backoff" THEN Attempted(ritem) ELSE attempts
  /\ UNCHANGED <<mongo, redis, past, calls, scheduler, cancelled>>

-----------------------------------------------------------------------------
\* The process dies and is started again; MongoDB and Redis keep their data.
Crash ==
  /\ Fault
  /\ todo' = [c \in Calls |-> IF todo[c] = None THEN None ELSE {}]
  /\ adding' = [c \in Calls |-> None]
  /\ spc' = "idle" /\ horizon' = {} /\ batch' = {} /\ item' = <<>>
  /\ rpc' = "idle" /\ ritem' = <<>>
  /\ ok' = [t \in DOMAIN ok |-> FALSE]
  /\ UNCHANGED <<mongo, redis, past, cancelled, attempts>>

CallStep(c) ==
  \/ AddToSchedule(c) \/ ScheduleFails(c)
  \/ \E u \in Users : SkipMuted(c, u) \/ InsertNote(c, u)

SchedulerStep ==
  \/ ReadDue \/ RemoveDue \/ EndBatch \/ Validate \/ Send \/ SaveSent \/ SchedulerFails
  \/ \E n \in Notes : TakeItem(n)

RetryStep == RetryPop \/ RetrySend \/ RetrySave \/ RetryPush \/ RetryFails

Environment ==
  \/ \E c \in Calls : Act(c)
  \/ \E r \in Records : Revert(r)
  \/ \E u \in Users : SetPreference(u)
  \/ \E n \in Notes : Requeue(n)

TimePasses == \E c \in Calls : BecomeDue(c)

Next ==
  \/ \E c \in Calls : CallStep(c)
  \/ SchedulerStep \/ RetryStep \/ TimePasses \/ Environment \/ Crash

Spec == Init /\ [][Next]_vars

\* The event loop runs every ready coroutine, and time passes.
Fairness ==
  /\ \A c \in Calls : WF_vars(CallStep(c))
  /\ WF_vars(SchedulerStep) /\ WF_vars(RetryStep) /\ WF_vars(TimePasses)

FairSpec == Spec /\ Fairness

-----------------------------------------------------------------------------
(* Properties.                                                             *)

\* An action undone before its notification is due is never notified, whoever
\* is where ("allow actions to be undone before the notification is sent",
\* docs/architecture.md).
RevertedNotSent == \A n \in cancelled : attempts[n] = 0

\* A notification that keeps failing is given up, after MAX_RETRIES attempts
\* in all, as long as every attempt could be counted.
GivesUp == \A n \in Notes : attempts[n] <= MaxRetries \/ trouble

\* Every notification is settled, as long as nothing is cut short.
EventuallySettled ==
  \A n \in Notes : status[n] = "scheduled" ~> status[n] \in Settled \/ trouble

\* "On send failure, the notification is pushed to a Redis retry list".
FailedRetried ==
  \A n \in Notes :
    status[n] = "failed" /\ retries[n] < MaxRetries ~>
      status[n] = "sent" \/ retries[n] = MaxRetries \/ trouble

=============================================================================
