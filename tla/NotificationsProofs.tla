------------------------- MODULE NotificationsProofs -------------------------
(***************************************************************************)
(* Theorems about Notifications, for every value of its constants: the     *)
(* types, with them the bound of retry_count; an action undone in time is  *)
(* never notified; a notification that keeps failing is given up.          *)
(*                                                                         *)
(* One inductive invariant carries all three.  Its idea: the scheduler and *)
(* the retry task never work on the same notification, although nothing    *)
(* locks it, because the status divides the work between them.             *)
(***************************************************************************)
EXTENDS Notifications, TLAPS

-----------------------------------------------------------------------------
(* The inductive invariant.                                                *)

\* The retry task has nothing to do with n.
NotRetried(n) == ritem # n /\ \A i \in 1 .. Len(retryList) : retryList[i] # n

\* No delivery of n was attempted, and none is under way.
Untried(n) ==
  /\ attempts[n] = 0 /\ retries[n] = 0
  /\ NotRetried(n)
  /\ item = n => spc = "validate"

\* schedule() visits recipients of its call, each once.
Visits ==
  \A c \in Calls :
    /\ todo[c] # None => todo[c] \subseteq Recipients[c]
    /\ adding[c] # None => adding[c] \in Recipients[c]
    /\ \A u \in Recipients[c] :
         todo[c] = None \/ u \in todo[c] => status[<<c, u>>] = "none"

\* The first delivery of a notification is the scheduler's.
FirstUntried == \A n \in Notes : status[n] \in {"none", "scheduled"} => Untried(n)

SchedulerItem ==
  /\ spc = "validate" => item \in Notes /\ status[item] = "scheduled"
  /\ spc \in {"send", "save"} =>
       /\ item \in Notes /\ status[item] = "pending"
       /\ retries[item] = 0 /\ NotRetried(item)
       /\ attempts[item] = IF spc = "send" THEN 0 ELSE 1

\* What is on the retry list is a failed notification, once, and not the one
\* the retry task works on.
RetryListed ==
  \A i \in 1 .. Len(retryList) :
    /\ status[retryList[i]] = "failed" /\ retryList[i] # ritem
    /\ \A j \in 1 .. Len(retryList) : retryList[i] = retryList[j] => i = j

RetryItem ==
  /\ rpc = "idle" <=> ritem = <<>>
  /\ rpc # "idle" => ritem \in Notes /\ status[ritem] = "failed"
  /\ rpc \in {"backoff", "save"} => retries[ritem] < MaxRetries

\* A notification whose action was undone in time waits, or is skipped.
CancelledUntried ==
  \A n \in cancelled :
    /\ record[RecordOf(n)] = "deleted"
    /\ status[n] \in {"scheduled", "skipped"}
    /\ Untried(n)

\* Until something goes wrong, retry_count is the number of attempts, but for
\* the one under way.
Counted ==
  \A n \in Notes :
    \/ trouble
    \/ /\ attempts[n] <= MaxRetries
       /\ status[n] = "failed" =>
            attempts[n] = retries[n] + (IF rpc = "save" /\ ritem = n THEN 1 ELSE 0)

Inv ==
  /\ TypeOK /\ Visits /\ FirstUntried /\ SchedulerItem
  /\ RetryListed /\ RetryItem /\ CancelledUntried /\ Counted

\* An empty sequence is no notification.
LEMMA EmptyNotNote == <<>> \notin Notes
BY DEF Notes

\* A retry list extended by n holds n and what it held.
LEMMA Appended ==
  ASSUME NEW q \in Seq(Notes), NEW n \in Notes
  PROVE  /\ Append(q, n) \in Seq(Notes)
         /\ Len(Append(q, n)) = Len(q) + 1
         /\ \A i \in 1 .. Len(q) + 1 :
              Append(q, n)[i] = IF i = Len(q) + 1 THEN n ELSE q[i]
OBVIOUS

\* Popping its head shifts it.
LEMMA Popped ==
  ASSUME NEW q \in Seq(Notes), q # <<>>
  PROVE  /\ Head(q) \in Notes /\ Head(q) = q[1]
         /\ Tail(q) \in Seq(Notes)
         /\ Len(q) \in Nat \ {0}
         /\ Len(Tail(q)) = Len(q) - 1
         /\ \A i \in 1 .. Len(q) - 1 : Tail(q)[i] = q[i + 1]
OBVIOUS

\* Counting an attempt keeps the type of attempts.
LEMMA AttemptedTyped ==
  ASSUME TypeOK, NEW n \in Notes
  PROVE  Attempted(n) \in [Notes -> 0 .. MaxRetries + 1]
BY NotificationsAssumption DEF TypeOK, Attempted

\* What a delivery returns is a Boolean.
LEMMA OutcomeTyped ==
  ASSUME TypeOK, NEW t \in {"scheduler", "retry"}, NEW b \in Outcomes
  PROVE  [ok EXCEPT ![t] = b] \in [{"scheduler", "retry"} -> BOOLEAN]
<1>1. b \in BOOLEAN
  BY DEF Outcomes
<1> QED
  BY <1>1 DEF TypeOK

\* dispatcher.send settles n and counts a failure.
LEMMA RecordedEffect ==
  ASSUME TypeOK, NEW n \in Notes, retries[n] < MaxRetries, NEW b, Recorded(n, b)
  PROVE  /\ status' \in [Notes -> Statuses] /\ retries' \in [Notes -> 0 .. MaxRetries]
         /\ \A m \in Notes : m # n => status'[m] = status[m] /\ retries'[m] = retries[m]
         /\ \/ status'[n] = "sent" /\ retries'[n] = retries[n]
            \/ status'[n] = "failed" /\ retries'[n] = retries[n] + 1
<1> USE NotificationsAssumption
<1>1. status' \in [Notes -> Statuses] /\ retries' \in [Notes -> 0 .. MaxRetries]
  <2>1. CASE b
    BY <2>1 DEF TypeOK, Recorded, Statuses
  <2>2. CASE ~b
    BY <2>2 DEF TypeOK, Recorded, Statuses
  <2> QED
    BY <2>1, <2>2
<1>2. \A m \in Notes : m # n => status'[m] = status[m] /\ retries'[m] = retries[m]
  BY DEF TypeOK, Recorded
<1>3. CASE b
  BY <1>1, <1>2, <1>3 DEF TypeOK, Recorded
<1>4. CASE ~b
  BY <1>1, <1>2, <1>4 DEF TypeOK, Recorded
<1> QED
  BY <1>3, <1>4

\* The invariant holds at the start.
LEMMA InitInv == Init => Inv
<1> SUFFICES ASSUME Init PROVE Inv
  OBVIOUS
<1> USE NotificationsAssumption DEF Init
<1>1. TypeOK
  <2>1. retryList \in Seq(Notes)
    OBVIOUS
  <2>2. /\ retries \in [Notes -> 0 .. MaxRetries]
        /\ attempts \in [Notes -> 0 .. MaxRetries + 1]
        /\ faults \in 0 .. MaxFaults
    OBVIOUS
  <2>3. ok \in [{"scheduler", "retry"} -> BOOLEAN] /\ trouble \in BOOLEAN
    OBVIOUS
  <2> QED
    BY <2>1, <2>2, <2>3 DEF TypeOK, Statuses
<1>2. Visits
  BY DEF Visits, Notes
<1>3. \A n \in Notes : Untried(n)
  BY EmptyNotNote DEF Untried, NotRetried
<1>4. FirstUntried /\ SchedulerItem /\ RetryListed /\ RetryItem /\ CancelledUntried
  BY <1>3 DEF FirstUntried, SchedulerItem, RetryListed, RetryItem, CancelledUntried
<1>5. Counted
  BY DEF Counted
<1> QED
  BY <1>1, <1>2, <1>4, <1>5 DEF Inv

-----------------------------------------------------------------------------
(* Requests: the user's actions and schedule().                            *)

\* What a request is made of.
Request ==
  \/ \E c \in Calls : Act(c) \/ CallStep(c) \/ BecomeDue(c)
  \/ \E r \in Records : Revert(r)
  \/ \E u \in Users : SetPreference(u)

\* Requests leave the two tasks alone, and a status changes only where a
\* notification is inserted.
LEMMA RequestFrame ==
  ASSUME Inv, Request
  PROVE  /\ UNCHANGED <<retries, retryList, scheduler, retry, ok, attempts>>
         /\ trouble => trouble'
         /\ \/ UNCHANGED status
            \/ \E c \in Calls, u \in Users : InsertNote(c, u)
<1>1. ASSUME NEW c \in Calls, Act(c) \/ AddToSchedule(c) \/ ScheduleFails(c) \/ BecomeDue(c)
      PROVE  UNCHANGED <<status, retries, retryList, scheduler, retry, ok, attempts>> /\ (trouble => trouble')
  BY <1>1 DEF Act, AddToSchedule, ScheduleFails, BecomeDue, Fault, mongo, redis, history
<1>2. ASSUME NEW c \in Calls, NEW u \in Users, SkipMuted(c, u)
      PROVE  UNCHANGED <<status, retries, retryList, scheduler, retry, ok, attempts, trouble>>
  BY <1>2 DEF SkipMuted, mongo, redis, history
<1>3. ASSUME NEW c \in Calls, NEW u \in Users, InsertNote(c, u)
      PROVE  UNCHANGED <<retries, retryList, scheduler, retry, ok, attempts, trouble>>
  BY <1>3 DEF InsertNote, redis
<1>4. ASSUME NEW r \in Records, Revert(r)
      PROVE  UNCHANGED <<status, retries, retryList, scheduler, retry, ok, attempts, trouble>>
  BY <1>4 DEF Revert, redis
<1>5. ASSUME NEW u \in Users, SetPreference(u)
      PROVE  UNCHANGED <<status, retries, retryList, scheduler, retry, ok, attempts, trouble>>
  BY <1>5 DEF SetPreference, redis, history
<1> QED
  BY <1>1, <1>2, <1>3, <1>4, <1>5 DEF Request, CallStep

\* A notification is inserted once.
LEMMA InsertedNew ==
  ASSUME Inv, NEW c \in Calls, NEW u \in Users, InsertNote(c, u)
  PROVE  <<c, u>> \in Notes /\ status[<<c, u>>] = "none" /\ Untried(<<c, u>>)
<1>1. u \in Recipients[c] /\ u \in todo[c]
  BY DEF InsertNote, Visit, Inv, Visits
<1>2. <<c, u>> \in Notes /\ status[<<c, u>>] = "none"
  BY <1>1 DEF Notes, Inv, Visits
<1> QED
  BY <1>2 DEF Inv, FirstUntried

\* Requests keep the types.
LEMMA RequestTypes ==
  ASSUME Inv, Request
  PROVE  TypeOK'
<1> USE NotificationsAssumption DEF Inv, TypeOK
<1>1. ASSUME NEW c \in Calls, Act(c) PROVE TypeOK'
  BY <1>1 DEF Act, redis, scheduler, retry, history
<1>2. ASSUME NEW c \in Calls, NEW u \in Users, SkipMuted(c, u) PROVE TypeOK'
  <2>1. todo[c] \in SUBSET Users
    BY <1>2 DEF SkipMuted, Visit
  <2> QED
    BY <1>2, <2>1 DEF SkipMuted, mongo, redis, scheduler, retry, history
<1>3. ASSUME NEW c \in Calls, NEW u \in Users, InsertNote(c, u) PROVE TypeOK'
  <2>1. <<c, u>> \in Notes
    BY <1>3, InsertedNew
  <2>2. todo[c] \in SUBSET Users
    BY <1>3 DEF InsertNote, Visit
  <2>3. todo' \in [Calls -> (SUBSET Users) \cup {None}] /\ adding' \in [Calls -> Users \cup {None}]
    BY <1>3, <2>2 DEF InsertNote
  <2>4. status' \in [Notes -> Statuses] /\ cancelled' \subseteq Notes
    BY <1>3, <2>1 DEF InsertNote, Statuses
  <2> QED
    BY <1>3, <2>3, <2>4 DEF InsertNote, redis, scheduler, retry
<1>4. ASSUME NEW c \in Calls, AddToSchedule(c) PROVE TypeOK'
  <2>1. <<c, adding[c]>> \in Notes
    BY <1>4 DEF AddToSchedule, Visits, Notes
  <2> QED
    BY <1>4, <2>1 DEF AddToSchedule, mongo, scheduler, retry, history
<1>5. ASSUME NEW c \in Calls, ScheduleFails(c) PROVE TypeOK'
  BY <1>5 DEF ScheduleFails, Fault, mongo, redis, scheduler, retry
<1>6. ASSUME NEW c \in Calls, BecomeDue(c) PROVE TypeOK'
  BY <1>6 DEF BecomeDue, mongo, redis, calls, scheduler, retry, history
<1>7. ASSUME NEW r \in Records, Revert(r) PROVE TypeOK'
  BY <1>7 DEF Revert, redis, calls, scheduler, retry
<1>8. ASSUME NEW u \in Users, SetPreference(u) PROVE TypeOK'
  BY <1>8 DEF SetPreference, redis, calls, scheduler, retry, history
<1> QED
  BY <1>1, <1>2, <1>3, <1>4, <1>5, <1>6, <1>7, <1>8 DEF Request, CallStep

\* A recipient is visited once, whatever ends the loop over them.
LEMMA RequestVisits ==
  ASSUME Inv, Request
  PROVE  Visits'
<1> USE NotificationsAssumption DEF Inv, TypeOK, Visits
<1>1. ASSUME NEW c \in Calls, Act(c) PROVE Visits'
  BY <1>1 DEF Act
<1>2. ASSUME NEW c \in Calls, NEW u \in Users, SkipMuted(c, u) PROVE Visits'
  BY <1>2 DEF SkipMuted, Visit, mongo
<1>3. ASSUME NEW c \in Calls, NEW u \in Users, InsertNote(c, u) PROVE Visits'
  <2>1. /\ <<c, u>> \in Notes
        /\ u \in todo[c] /\ todo[c] \in SUBSET Users /\ todo[c] # None
        /\ u \in Recipients[c] /\ todo[c] \subseteq Recipients[c]
    BY <1>3, InsertedNew DEF InsertNote, Visit
  <2>2. \A d \in Calls, v \in Users : <<d, v>> = <<c, u>> => d = c /\ v = u
    OBVIOUS
  <2>3. \A d \in Calls : todo'[d] = IF d = c THEN todo[c] \ {u} ELSE todo[d]
    BY <1>3 DEF InsertNote
  <2>4. \A d \in Calls : adding'[d] = IF d = c THEN u ELSE adding[d]
    BY <1>3 DEF InsertNote
  <2>5. \A d \in Calls : \A v \in Recipients[d] :
          <<d, v>> # <<c, u>> => status'[<<d, v>>] = status[<<d, v>>]
    BY <1>3 DEF InsertNote, Notes
  <2>6. ASSUME NEW d \in Calls, NEW v \in Recipients[d], todo'[d] = None \/ v \in todo'[d]
        PROVE  status'[<<d, v>>] = "none"
    <3>1. todo[c] \ {u} # None
      BY <2>1
    <3>2. todo[d] = None \/ v \in todo[d]
      BY <2>3, <2>6, <3>1
    <3>3. <<d, v>> # <<c, u>>
      BY <2>1, <2>2, <2>3, <2>6, <3>1
    <3>4. status[<<d, v>>] = "none"
      BY <3>2
    <3> QED
      BY <2>5, <3>3, <3>4
  <2>7. ASSUME NEW d \in Calls
        PROVE  /\ todo'[d] # None => todo'[d] \subseteq Recipients[d]
               /\ adding'[d] # None => adding'[d] \in Recipients[d]
    <3>1. CASE d = c
      BY <2>1, <2>3, <2>4, <3>1
    <3>2. CASE d # c
      BY <2>3, <2>4, <3>2
    <3> QED
      BY <3>1, <3>2
  <2> QED
    BY <2>6, <2>7
<1>4. ASSUME NEW c \in Calls, AddToSchedule(c) \/ ScheduleFails(c) PROVE Visits'
  <2>1. status' = status /\ adding'[c] = None
    BY <1>4 DEF AddToSchedule, ScheduleFails, mongo
  <2>2. todo'[c] \in {todo[c], {}}
    BY <1>4 DEF AddToSchedule, ScheduleFails
  <2>3. \A d \in Calls : d # c => todo'[d] = todo[d] /\ adding'[d] = adding[d]
    BY <1>4 DEF AddToSchedule, ScheduleFails
  <2>4. {} # None
    OBVIOUS
  <2>5. ASSUME NEW d \in Calls
        PROVE  /\ todo'[d] # None => todo'[d] \subseteq Recipients[d]
               /\ adding'[d] # None => adding'[d] \in Recipients[d]
               /\ \A u \in Recipients[d] :
                    todo'[d] = None \/ u \in todo'[d] => status[<<d, u>>] = "none"
    <3>1. CASE todo'[d] = todo[d] /\ adding'[d] \in {adding[d], None}
      BY <3>1
    <3>2. CASE todo'[d] = {} /\ adding'[d] = None
      BY <2>4, <3>2
    <3> QED
      BY <2>1, <2>2, <2>3, <3>1, <3>2
  <2> QED
    BY <2>1, <2>5
<1>5. ASSUME UNCHANGED <<status, calls>> PROVE Visits'
  BY <1>5 DEF calls
<1> QED
  BY <1>1, <1>2, <1>3, <1>4, <1>5
     DEF Request, CallStep, BecomeDue, Revert, SetPreference, mongo

\* Requests keep the invariant: what they insert is untried, and what they
\* cancel was.
LEMMA RequestKeeps ==
  ASSUME Inv, Request
  PROVE  Inv'
<1> USE DEF Inv
<1>1. TypeOK' /\ Visits'
  BY RequestTypes, RequestVisits
<1>2. \A n : Untried(n)' <=> Untried(n)
  BY RequestFrame DEF Untried, NotRetried, scheduler, retry
<1>3. \A n \in Notes : \/ status'[n] = status[n]
                       \/ status[n] = "none" /\ status'[n] = "scheduled"
  <2>1. ASSUME NEW c \in Calls, NEW u \in Users, InsertNote(c, u), NEW n \in Notes
        PROVE  \/ status'[n] = status[n]
               \/ status[n] = "none" /\ status'[n] = "scheduled"
    BY <2>1, InsertedNew DEF InsertNote, TypeOK
  <2> QED
    BY <2>1, RequestFrame
<1>4. FirstUntried'
  BY <1>2, <1>3 DEF FirstUntried
<1>5. SchedulerItem'
  BY <1>3, RequestFrame DEF SchedulerItem, NotRetried, scheduler, retry
<1>6. RetryListed'
  BY <1>3, RequestFrame DEF RetryListed, TypeOK, retry
<1>7. RetryItem'
  BY <1>3, RequestFrame DEF RetryItem, retry
<1>8. CancelledUntried'
  <2>1. ASSUME NEW c \in Calls, NEW u \in Users, InsertNote(c, u) PROVE CancelledUntried'
    <3>1. status' = [status EXCEPT ![<<c, u>>] = "scheduled"] /\ UNCHANGED record
      BY <2>1 DEF InsertNote
    <3>2. cancelled' \subseteq IF record[Ref[c]] = "deleted" THEN cancelled \cup {<<c, u>>}
                               ELSE cancelled
      BY <2>1 DEF InsertNote
    <3>3. RecordOf(<<c, u>>) = Ref[c]
      BY DEF RecordOf
    <3>4. <<c, u>> \in Notes /\ Untried(<<c, u>>)
      BY <2>1, InsertedNew
    <3> QED
      BY <1>2, <3>1, <3>2, <3>3, <3>4 DEF CancelledUntried, TypeOK
  <2>2. ASSUME NEW r \in Records, Revert(r) PROVE CancelledUntried'
    <3>1. record' = [record EXCEPT ![r] = "deleted"] /\ UNCHANGED status
      BY <2>2 DEF Revert
    <3>2. cancelled' \subseteq cancelled \cup {n \in Notes : RecordOf(n) = r /\ status[n] = "scheduled"}
      BY <2>2 DEF Revert
    <3>3. \A n \in cancelled' : record'[RecordOf(n)] = "deleted"
      <4>1. \A n \in Notes : RecordOf(n) \in Records
        BY NotificationsAssumption DEF Notes, RecordOf
      <4> QED
        BY <3>1, <3>2, <4>1 DEF CancelledUntried, TypeOK
    <3> QED
      BY <1>2, <3>1, <3>2, <3>3 DEF CancelledUntried, FirstUntried
  <2>3. ASSUME UNCHANGED <<status, cancelled>>,
               \A r \in Records : record[r] = "deleted" => record'[r] = "deleted"
        PROVE  CancelledUntried'
    <3>1. \A n \in cancelled : RecordOf(n) \in Records
      BY NotificationsAssumption DEF Notes, RecordOf, TypeOK
    <3> QED
      BY <1>2, <2>3, <3>1 DEF CancelledUntried
  <2>4. ASSUME NEW c \in Calls, Act(c) PROVE CancelledUntried'
    <3>1. UNCHANGED <<status, cancelled>>
      BY <2>4 DEF Act, history
    <3>2. \A r \in Records : record[r] = "deleted" => record'[r] = "deleted"
      BY <2>4 DEF Act, TypeOK
    <3> QED
      BY <2>3, <3>1, <3>2
  <2>5. ASSUME UNCHANGED <<status, cancelled, record>> PROVE CancelledUntried'
    BY <2>3, <2>5
  <2> QED
    BY <2>1, <2>2, <2>4, <2>5
       DEF Request, CallStep, AddToSchedule, ScheduleFails, SkipMuted, BecomeDue,
           SetPreference, mongo, history
<1>9. Counted'
  BY <1>3, RequestFrame DEF Counted, TypeOK, retry
<1> QED
  BY <1>1, <1>4, <1>5, <1>6, <1>7, <1>8, <1>9

-----------------------------------------------------------------------------
(* The scheduler task.                                                     *)

\* Steps between two notifications keep the invariant: no delivery is under
\* way before or after.
LEMMA BatchKeeps ==
  ASSUME Inv, ReadDue \/ RemoveDue \/ EndBatch \/ \E n \in Notes : TakeItem(n)
  PROVE  Inv'
<1> USE DEF Inv, mongo, redis, calls, retry, history
<1>1. UNCHANGED <<record, muted, status, retries, retryList, calls, retry, ok, cancelled, attempts>>
      /\ (trouble => trouble')
  BY DEF ReadDue, RemoveDue, EndBatch, TakeItem, TypeOK
<1>2. \/ UNCHANGED item /\ spc \notin {"validate", "send", "save"}
                        /\ spc' \notin {"validate", "send", "save"}
      \/ item' \in Notes /\ status[item'] = "scheduled" /\ spc' = "validate"
  BY DEF ReadDue, RemoveDue, EndBatch, TakeItem
<1>3. TypeOK'
  <2>1. ASSUME ReadDue PROVE TypeOK'
    BY <2>1 DEF ReadDue, TypeOK, DueBy
  <2>2. ASSUME RemoveDue PROVE TypeOK'
    BY <2>2 DEF RemoveDue, TypeOK
  <2>3. ASSUME EndBatch PROVE TypeOK'
    BY <2>3 DEF EndBatch, TypeOK
  <2>4. ASSUME NEW n \in Notes, TakeItem(n) PROVE TypeOK'
    BY <2>4 DEF TakeItem, TypeOK
  <2> QED
    BY <2>1, <2>2, <2>3, <2>4
<1>4. \A n \in Notes : Untried(n) => Untried(n)'
  BY <1>1, <1>2 DEF Untried, NotRetried
<1>5. Visits' /\ FirstUntried' /\ RetryListed' /\ RetryItem' /\ CancelledUntried' /\ Counted'
  <2>1. Visits'
    BY <1>1 DEF Visits
  <2>2. FirstUntried'
    BY <1>1, <1>4 DEF FirstUntried
  <2>3. RetryListed' /\ RetryItem'
    BY <1>1 DEF RetryListed, RetryItem
  <2>4. CancelledUntried'
    BY <1>1, <1>4 DEF CancelledUntried, TypeOK
  <2>5. Counted'
    BY <1>1 DEF Counted
  <2> QED
    BY <2>1, <2>2, <2>3, <2>4, <2>5
<1>6. SchedulerItem'
  BY <1>1, <1>2 DEF SchedulerItem
<1> QED
  BY <1>3, <1>5, <1>6

\* A delivery begins only if the record is still there: a cancelled
\* notification is skipped.
LEMMA ValidateKeeps ==
  ASSUME Inv, Validate
  PROVE  Inv'
<1> USE DEF Inv, redis, calls, retry, history
<1>1. /\ item \in Notes /\ status[item] = "scheduled" /\ Untried(item)
      /\ UNCHANGED <<record, retries, retryList, calls, retry, cancelled, attempts, trouble>>
  BY DEF Validate, SchedulerItem, FirstUntried
<1>2. \/ /\ ActionExists(RecordOf(item)) /\ spc' = "send" /\ item' = item
         /\ status' = [status EXCEPT ![item] = "pending"]
      \/ /\ spc' = "loop" /\ item' = <<>>
         /\ status' = [status EXCEPT ![item] = "skipped"]
  BY DEF Validate
<1>3. TypeOK'
  BY <1>1, <1>2 DEF Validate, TypeOK, Statuses
<1>4. \A n \in Notes : Untried(n) => Untried(n)' \/ (n = item /\ spc' = "send")
  <2> SUFFICES ASSUME NEW n \in Notes, Untried(n), ~(n = item /\ spc' = "send")
               PROVE  Untried(n)'
    OBVIOUS
  <2>1. attempts'[n] = 0 /\ retries'[n] = 0 /\ NotRetried(n)'
    BY <1>1 DEF Untried, NotRetried
  <2>2. item' # n
    BY <1>2, EmptyNotNote
  <2> QED
    BY <2>1, <2>2 DEF Untried
<1>5. \A n \in Notes : n = item \/ status'[n] = status[n]
  BY <1>1, <1>2 DEF TypeOK
<1>6. Visits'
  <2>1. \A c \in Calls : \A u \in Recipients[c] : <<c, u>> \in Notes
    BY NotificationsAssumption DEF Notes
  <2> QED
    BY <1>1, <1>5, <2>1 DEF Visits
<1>7. FirstUntried'
  BY <1>1, <1>2, <1>4 DEF FirstUntried, TypeOK
<1>8. SchedulerItem'
  BY <1>1, <1>2 DEF SchedulerItem, TypeOK, Untried, NotRetried
<1>9. RetryListed' /\ RetryItem'
  BY <1>1, <1>2 DEF RetryListed, RetryItem, TypeOK, Untried, NotRetried
<1>10. CancelledUntried'
  <2>1. ASSUME item \in cancelled PROVE spc' = "loop" /\ status'[item] = "skipped"
    BY <1>1, <1>2, <2>1 DEF CancelledUntried, ActionExists, TypeOK
  <2> QED
    BY <1>1, <1>4, <1>5, <2>1 DEF CancelledUntried, TypeOK
<1>11. Counted'
  BY <1>1, <1>2, NotificationsAssumption DEF Counted, TypeOK, Untried
<1> QED
  BY <1>3, <1>6, <1>7, <1>8, <1>9, <1>10, <1>11

\* The delivery and its record, or an exception in their place.
LEMMA DeliveryKeeps ==
  ASSUME Inv, Send \/ SaveSent \/ SchedulerFails
  PROVE  Inv'
<1> USE NotificationsAssumption DEF Inv, mongo, redis, calls, retry, history
<1>1. CASE Send
  <2>1. /\ item \in Notes /\ status[item] = "pending" /\ attempts[item] = 0
        /\ UNCHANGED <<record, muted, status, retries, retryList, calls, retry, item, cancelled,
                       trouble>>
        /\ spc' = "save"
    BY <1>1 DEF Send, SchedulerItem
  <2>2. /\ attempts' \in [Notes -> 0 .. MaxRetries + 1]
        /\ attempts'[item] = 1
        /\ \A n \in Notes : n # item => attempts'[n] = attempts[n]
    BY <1>1, <2>1, AttemptedTyped DEF Send, Attempted, TypeOK
  <2>3. TypeOK'
    <3>1. ok' \in [{"scheduler", "retry"} -> BOOLEAN]
      BY <1>1, OutcomeTyped DEF Send, TypeOK
    <3> QED
      BY <1>1, <2>1, <2>2, <3>1 DEF Send, TypeOK
  <2>4. \A n \in Notes : Untried(n) => n = item \/ Untried(n)'
    BY <2>1, <2>2 DEF Untried, NotRetried, TypeOK
  <2>5. Visits' /\ RetryListed' /\ RetryItem'
    BY <2>1 DEF Visits, RetryListed, RetryItem
  <2>6. FirstUntried' /\ CancelledUntried'
    BY <2>1, <2>4 DEF FirstUntried, CancelledUntried, TypeOK
  <2>7. SchedulerItem'
    BY <1>1, <2>1, <2>2 DEF Send, SchedulerItem, NotRetried, TypeOK
  <2>8. Counted'
    <3> SUFFICES ASSUME NEW n \in Notes, ~trouble
                 PROVE  /\ attempts'[n] <= MaxRetries
                        /\ status[n] = "failed" =>
                             attempts'[n] = retries[n] + (IF rpc = "save" /\ ritem = n THEN 1 ELSE 0)
      BY <2>1 DEF Counted
    <3>1. CASE n = item
      BY <2>1, <2>2, <3>1
    <3>2. CASE n # item
      BY <2>2, <3>2 DEF Counted
    <3> QED
      BY <3>1, <3>2
  <2> QED
    BY <2>3, <2>5, <2>6, <2>7, <2>8
<1>2. CASE SaveSent
  <2>1. /\ item \in Notes /\ status[item] = "pending" /\ attempts[item] = 1
        /\ retries[item] = 0 /\ NotRetried(item)
        /\ UNCHANGED <<record, muted, retryList, calls, retry, cancelled, attempts, trouble>>
        /\ spc' = "loop" /\ item' = <<>>
    BY <1>2 DEF SaveSent, SchedulerItem
  <2>2. /\ status' \in [Notes -> Statuses] /\ retries' \in [Notes -> 0 .. MaxRetries]
        /\ \A n \in Notes : n # item => status'[n] = status[n] /\ retries'[n] = retries[n]
        /\ \/ status'[item] = "sent" /\ retries'[item] = 0
           \/ status'[item] = "failed" /\ retries'[item] = 1
    BY <1>2, <2>1, RecordedEffect DEF SaveSent
  <2>3. TypeOK'
    BY <1>2, <2>1, <2>2 DEF SaveSent, TypeOK
  <2>4. \A n \in Notes : Untried(n) => n = item \/ Untried(n)'
    BY <2>1, <2>2, EmptyNotNote DEF Untried, NotRetried, TypeOK
  <2>5. Visits'
    <3>1. \A c \in Calls : \A u \in Recipients[c] : <<c, u>> \in Notes
      BY DEF Notes
    <3> QED
      BY <2>1, <2>2, <3>1 DEF Visits
  <2>6. FirstUntried' /\ CancelledUntried'
    BY <2>1, <2>2, <2>4 DEF FirstUntried, CancelledUntried, TypeOK
  <2>7. RetryListed' /\ RetryItem'
    BY <2>1, <2>2 DEF RetryListed, RetryItem, NotRetried, TypeOK
  <2>8. SchedulerItem'
    BY <2>1 DEF SchedulerItem
  <2>9. Counted'
    <3> SUFFICES ASSUME NEW n \in Notes, ~trouble
                 PROVE  /\ attempts[n] <= MaxRetries
                        /\ status'[n] = "failed" =>
                             attempts[n] = retries'[n] + (IF rpc = "save" /\ ritem = n THEN 1 ELSE 0)
      BY <2>1 DEF Counted
    <3>1. CASE n = item
      BY <2>1, <2>2, <3>1 DEF NotRetried
    <3>2. CASE n # item
      BY <2>2, <3>2 DEF Counted
    <3> QED
      BY <3>1, <3>2
  <2> QED
    BY <2>3, <2>5, <2>6, <2>7, <2>8, <2>9
<1>3. CASE SchedulerFails
  <2>1. /\ UNCHANGED <<record, muted, status, retries, retryList, calls, retry, cancelled>>
        /\ spc' = "idle" /\ item' = <<>> /\ trouble'
    BY <1>3 DEF SchedulerFails, Fault
  <2>2. \/ UNCHANGED attempts
        \/ /\ item \in Notes /\ status[item] = "pending" /\ spc = "send"
           /\ attempts' = Attempted(item)
    BY <1>3 DEF SchedulerFails, SchedulerItem
  <2>3. attempts' \in [Notes -> 0 .. MaxRetries + 1]
    BY <2>2, AttemptedTyped DEF TypeOK
  <2>4. TypeOK'
    BY <1>3, <2>1, <2>3 DEF SchedulerFails, Fault, TypeOK
  <2>5. \A n \in Notes : Untried(n) => Untried(n)'
    BY <2>1, <2>2, EmptyNotNote DEF Untried, NotRetried, Attempted, TypeOK
  <2>6. Visits' /\ RetryListed' /\ RetryItem' /\ SchedulerItem' /\ Counted'
    BY <2>1 DEF Visits, RetryListed, RetryItem, SchedulerItem, Counted
  <2>7. FirstUntried' /\ CancelledUntried'
    BY <2>1, <2>5 DEF FirstUntried, CancelledUntried, TypeOK
  <2> QED
    BY <2>4, <2>6, <2>7
<1> QED
  BY <1>1, <1>2, <1>3

-----------------------------------------------------------------------------
(* The retry task and the operator.                                        *)

\* An entry is put on the list, by the operator or again by the retry task.
LEMMA ListKeeps ==
  ASSUME Inv, RetryPush \/ \E n \in Notes : Requeue(n)
  PROVE  Inv'
<1> USE DEF Inv, mongo, calls, scheduler, history
<1>1. PICK n \in Notes :
        /\ status[n] = "failed"
        /\ \A i \in 1 .. Len(retryList) : retryList[i] # n
        /\ retryList' = Append(retryList, n)
        /\ \/ UNCHANGED retry /\ ritem # n
           \/ n = ritem /\ rpc' = "idle" /\ ritem' = <<>> /\ rpc # "save"
        /\ UNCHANGED <<mongo, scheduled, past, calls, scheduler, ok, history>>
  <2>1. CASE RetryPush
    <3>1. ritem \in Notes /\ status[ritem] = "failed"
      BY <2>1 DEF RetryPush, RetryItem
    <3>2. \A i \in 1 .. Len(retryList) : retryList[i] # ritem
      BY DEF RetryListed
    <3> QED
      BY <2>1, <3>1, <3>2 DEF RetryPush
  <2>2. ASSUME NEW m \in Notes, Requeue(m)
        PROVE  /\ status[m] = "failed" /\ ritem # m
               /\ \A i \in 1 .. Len(retryList) : retryList[i] # m
               /\ retryList' = Append(retryList, m)
               /\ UNCHANGED <<mongo, scheduled, past, calls, scheduler, retry, ok, history>>
    BY <2>2 DEF Requeue
  <2> QED
    BY <2>1, <2>2
<1>2. /\ retryList \in Seq(Notes)
      /\ retryList' \in Seq(Notes)
      /\ Len(retryList') = Len(retryList) + 1
      /\ \A i \in 1 .. Len(retryList) + 1 :
           retryList'[i] = IF i = Len(retryList) + 1 THEN n ELSE retryList[i]
  BY <1>1, Appended DEF TypeOK
<1>3. TypeOK'
  BY <1>1, <1>2 DEF TypeOK, retry
<1>4. \A m \in Notes : m # n /\ NotRetried(m) => NotRetried(m)'
  BY <1>1, <1>2, EmptyNotNote DEF NotRetried, retry
<1>5. \A m \in Notes : m # n /\ Untried(m) => Untried(m)'
  BY <1>1, <1>4 DEF Untried
<1>6. Visits'
  BY <1>1 DEF Visits
<1>7. FirstUntried' /\ CancelledUntried'
  BY <1>1, <1>5 DEF FirstUntried, CancelledUntried, TypeOK
<1>8. SchedulerItem'
  BY <1>1, <1>4 DEF SchedulerItem
<1>9. RetryListed'
  <2>1. \A i \in 1 .. Len(retryList) : retryList[i] \in Notes
    BY <1>2
  <2>2. ritem' # n
    BY <1>1, EmptyNotNote DEF retry
  <2>3. \A i \in 1 .. Len(retryList) : retryList[i] # ritem'
    BY <1>1, <2>1, EmptyNotNote DEF retry, RetryListed
  <2>4. Len(retryList) \in Nat
    BY <1>2
  <2> QED
    BY <1>1, <1>2, <2>2, <2>3, <2>4 DEF RetryListed
<1>10. RetryItem'
  BY <1>1 DEF RetryItem, retry
<1>11. Counted'
  BY <1>1 DEF Counted, retry
<1> QED
  BY <1>3, <1>6, <1>7, <1>8, <1>9, <1>10, <1>11

\* The head of the list is given up, or tried again after the backoff.
LEMMA PopKeeps ==
  ASSUME Inv, RetryPop
  PROVE  Inv'
<1> USE DEF Inv, calls, scheduler, retry, history
<1> DEFINE n == Head(retryList)
<1>1. /\ n \in Notes /\ n = retryList[1]
      /\ retryList \in Seq(Notes) /\ retryList' = Tail(retryList)
      /\ retryList' \in Seq(Notes)
      /\ Len(retryList) \in Nat \ {0} /\ Len(retryList') = Len(retryList) - 1
      /\ \A i \in 1 .. Len(retryList) - 1 : retryList'[i] = retryList[i + 1]
  BY Popped DEF RetryPop, TypeOK
<1>2. status[n] = "failed" /\ ritem = <<>>
  BY <1>1 DEF RetryPop, RetryListed, RetryItem
<1>3. /\ UNCHANGED <<record, muted, status, retries, scheduled, past, calls, scheduler, ok, history>>
      /\ rpc = "idle"
      /\ \/ UNCHANGED retry
         \/ rpc' = "backoff" /\ ritem' = n /\ retries[n] < MaxRetries
  <2>1. status' = status
    BY <1>1, <1>2 DEF RetryPop, TypeOK
  <2>2. CASE retries[n] >= MaxRetries
    BY <2>1, <2>2 DEF RetryPop
  <2>3. CASE ~(retries[n] >= MaxRetries)
    <3>1. retries[n] < MaxRetries
      BY <1>1, <2>3, NotificationsAssumption DEF TypeOK
    <3> QED
      BY <2>1, <2>3, <3>1 DEF RetryPop
  <2> QED
    BY <2>2, <2>3
<1> HIDE DEF n
<1>4. TypeOK'
  BY <1>1, <1>3 DEF TypeOK
<1>5. \A m \in Notes : NotRetried(m) => NotRetried(m)'
  BY <1>1, <1>3 DEF NotRetried
<1>6. \A m \in Notes : Untried(m) => Untried(m)'
  BY <1>3, <1>5 DEF Untried
<1>7. Visits'
  BY <1>3 DEF Visits
<1>8. FirstUntried' /\ CancelledUntried'
  BY <1>3, <1>6 DEF FirstUntried, CancelledUntried, TypeOK
<1>9. SchedulerItem'
  BY <1>3, <1>5 DEF SchedulerItem
<1>10. RetryListed'
  <2> SUFFICES ASSUME NEW i \in 1 .. Len(retryList')
               PROVE  /\ status[retryList'[i]] = "failed" /\ retryList'[i] # ritem'
                      /\ \A j \in 1 .. Len(retryList') : retryList'[i] = retryList'[j] => i = j
    BY <1>3 DEF RetryListed
  <2>1. i + 1 \in 1 .. Len(retryList) /\ i + 1 # 1 /\ 1 \in 1 .. Len(retryList)
    BY <1>1
  <2>2. retryList'[i] = retryList[i + 1]
    BY <1>1
  <2>3. retryList[i + 1] # n
    BY <1>1, <2>1 DEF RetryListed
  <2>4. status[retryList'[i]] = "failed" /\ retryList'[i] # ritem'
    BY <1>3, <2>1, <2>2, <2>3 DEF RetryListed
  <2>5. ASSUME NEW j \in 1 .. Len(retryList'), retryList'[i] = retryList'[j] PROVE i = j
    <3>1. j + 1 \in 1 .. Len(retryList) /\ retryList'[j] = retryList[j + 1]
      BY <1>1
    <3>2. i + 1 = j + 1
      BY <2>1, <2>2, <2>5, <3>1 DEF RetryListed
    <3> QED
      BY <1>1, <3>2
  <2> QED
    BY <2>4, <2>5
<1>11. RetryItem'
  BY <1>1, <1>2, <1>3, EmptyNotNote DEF RetryItem
<1>12. Counted'
  BY <1>3 DEF Counted
<1> QED
  BY <1>4, <1>7, <1>8, <1>9, <1>10, <1>11, <1>12

\* A retry and its record: the count stays below the limit, and no first
\* delivery is disturbed.
LEMMA RetryKeeps ==
  ASSUME Inv, RetrySend \/ RetrySave \/ RetryFails
  PROVE  Inv'
<1> USE NotificationsAssumption DEF Inv, mongo, redis, calls, scheduler, retry, history
<1>1. \A n \in Notes : Untried(n) => n # ritem
  BY DEF Untried, NotRetried
<1>2. spc \in {"send", "save"} => ritem # item
  BY DEF SchedulerItem, NotRetried
<1>3. CASE RetrySend
  <2>1. /\ ritem \in Notes /\ retries[ritem] < MaxRetries /\ status[ritem] = "failed"
        /\ UNCHANGED <<record, muted, status, retries, retryList, calls, scheduler, ritem,
                       cancelled, trouble>>
        /\ rpc = "backoff" /\ rpc' = "save"
    BY <1>3 DEF RetrySend, RetryItem
  <2>2. /\ attempts' \in [Notes -> 0 .. MaxRetries + 1]
        /\ attempts[ritem] <= MaxRetries => attempts'[ritem] = attempts[ritem] + 1
        /\ \A n \in Notes : n # ritem => attempts'[n] = attempts[n]
    BY <1>3, <2>1, AttemptedTyped DEF RetrySend, Attempted, TypeOK
  <2>3. TypeOK'
    <3>1. ok' \in [{"scheduler", "retry"} -> BOOLEAN]
      BY <1>3, OutcomeTyped DEF RetrySend, TypeOK
    <3> QED
      BY <1>3, <2>1, <2>2, <3>1 DEF RetrySend, TypeOK
  <2>4. \A n \in Notes : Untried(n) => Untried(n)'
    BY <1>1, <2>1, <2>2 DEF Untried, NotRetried
  <2>5. Visits' /\ RetryListed' /\ RetryItem'
    BY <2>1 DEF Visits, RetryListed, RetryItem
  <2>6. FirstUntried' /\ CancelledUntried'
    BY <2>1, <2>4 DEF FirstUntried, CancelledUntried, TypeOK
  <2>7. SchedulerItem'
    BY <1>2, <2>1, <2>2 DEF SchedulerItem, NotRetried
  <2>8. Counted'
    <3> SUFFICES ASSUME NEW n \in Notes, ~trouble
                 PROVE  /\ attempts'[n] <= MaxRetries
                        /\ status[n] = "failed" =>
                             attempts'[n] = retries[n] + (IF ritem = n THEN 1 ELSE 0)
      BY <2>1 DEF Counted
    <3>1. /\ attempts[n] <= MaxRetries
          /\ status[n] = "failed" => attempts[n] = retries[n]
      BY <2>1 DEF Counted, TypeOK
    <3>2. CASE n = ritem
      BY <2>1, <2>2, <3>1, <3>2 DEF TypeOK
    <3>3. CASE n # ritem
      BY <2>2, <3>1, <3>3 DEF TypeOK
    <3> QED
      BY <3>2, <3>3
  <2> QED
    BY <2>3, <2>5, <2>6, <2>7, <2>8
<1>4. CASE RetrySave
  <2>1. /\ ritem \in Notes /\ retries[ritem] < MaxRetries /\ status[ritem] = "failed"
        /\ UNCHANGED <<record, muted, retryList, calls, scheduler, cancelled, attempts, trouble>>
        /\ rpc = "save"
        /\ \/ rpc' = "idle" /\ ritem' = <<>>
           \/ rpc' = "push" /\ ritem' = ritem
    BY <1>4 DEF RetrySave, RetryItem
  <2>2. /\ status' \in [Notes -> Statuses] /\ retries' \in [Notes -> 0 .. MaxRetries]
        /\ \A n \in Notes : n # ritem => status'[n] = status[n] /\ retries'[n] = retries[n]
        /\ \/ status'[ritem] = "sent" /\ retries'[ritem] = retries[ritem]
           \/ status'[ritem] = "failed" /\ retries'[ritem] = retries[ritem] + 1
    BY <1>4, <2>1, RecordedEffect DEF RetrySave
  <2>3. rpc' = "push" => status'[ritem] = "failed"
    BY <1>4, <2>1 DEF RetrySave, Recorded, TypeOK
  <2>4. TypeOK'
    BY <1>4, <2>1, <2>2 DEF RetrySave, TypeOK
  <2>5. \A n \in Notes : Untried(n) => Untried(n)'
    BY <1>1, <2>1, <2>2, EmptyNotNote DEF Untried, NotRetried
  <2>6. Visits'
    <3>1. \A c \in Calls : \A u \in Recipients[c] : <<c, u>> \in Notes
      BY DEF Notes
    <3> QED
      BY <2>1, <2>2, <3>1 DEF Visits
  <2>7. FirstUntried' /\ CancelledUntried'
    BY <1>1, <2>1, <2>2, <2>5 DEF FirstUntried, CancelledUntried, TypeOK
  <2>8. SchedulerItem'
    <3>1. item \in Notes => (NotRetried(item) => NotRetried(item)')
      BY <2>1, EmptyNotNote DEF NotRetried
    <3>2. spc = "validate" => item # ritem
      BY <1>1 DEF SchedulerItem, FirstUntried
    <3> QED
      BY <1>2, <2>1, <2>2, <3>1, <3>2 DEF SchedulerItem
  <2>9. RetryListed'
    <3>1. \A i \in 1 .. Len(retryList) : retryList[i] \in Notes /\ retryList[i] # ritem
      BY DEF TypeOK, RetryListed
    <3> QED
      BY <2>1, <2>2, <3>1, EmptyNotNote DEF RetryListed
  <2>10. RetryItem'
    BY <2>1, <2>3, EmptyNotNote DEF RetryItem
  <2>11. Counted'
    <3> SUFFICES ASSUME NEW n \in Notes, ~trouble
                 PROVE  /\ attempts[n] <= MaxRetries
                        /\ status'[n] = "failed" => attempts[n] = retries'[n]
      BY <2>1, <2>2 DEF Counted
    <3>1. CASE n = ritem
      BY <2>1, <2>2, <3>1 DEF Counted
    <3>2. CASE n # ritem
      BY <2>1, <2>2, <3>2 DEF Counted, TypeOK
    <3> QED
      BY <3>1, <3>2
  <2> QED
    BY <2>4, <2>6, <2>7, <2>8, <2>9, <2>10, <2>11
<1>5. CASE RetryFails
  <2>1. /\ UNCHANGED <<record, muted, status, retries, retryList, calls, scheduler, cancelled>>
        /\ rpc' = "idle" /\ ritem' = <<>> /\ trouble'
    BY <1>5 DEF RetryFails, Fault
  <2>2. \/ UNCHANGED attempts
        \/ ritem \in Notes /\ attempts' = Attempted(ritem)
    BY <1>5 DEF RetryFails, RetryItem
  <2>3. attempts' \in [Notes -> 0 .. MaxRetries + 1]
    BY <2>2, AttemptedTyped DEF TypeOK
  <2>4. \A n \in Notes : n # ritem => attempts'[n] = attempts[n]
    BY <2>2 DEF Attempted, TypeOK
  <2>5. TypeOK'
    BY <1>5, <2>1, <2>3 DEF RetryFails, Fault, TypeOK
  <2>6. \A n \in Notes : Untried(n) => Untried(n)'
    BY <1>1, <2>1, <2>4, EmptyNotNote DEF Untried, NotRetried
  <2>7. Visits' /\ RetryItem' /\ Counted'
    BY <2>1 DEF Visits, RetryItem, Counted
  <2>8. FirstUntried' /\ CancelledUntried'
    BY <2>1, <2>6 DEF FirstUntried, CancelledUntried, TypeOK
  <2>9. SchedulerItem'
    BY <1>2, <2>1, <2>4, EmptyNotNote DEF SchedulerItem, NotRetried
  <2>10. RetryListed'
    <3>1. \A i \in 1 .. Len(retryList) : retryList[i] \in Notes
      BY DEF TypeOK
    <3> QED
      BY <2>1, <3>1, EmptyNotNote DEF RetryListed
  <2> QED
    BY <2>5, <2>7, <2>8, <2>9, <2>10
<1> QED
  BY <1>3, <1>4, <1>5

\* A restart loses what the coroutines held, and nothing else.
LEMMA CrashKeeps ==
  ASSUME Inv, Crash
  PROVE  Inv'
<1> USE NotificationsAssumption DEF Inv, mongo, redis
<1>1. /\ UNCHANGED <<record, muted, status, retries, scheduled, retryList, past, cancelled, attempts>>
      /\ spc' = "idle" /\ item' = <<>> /\ rpc' = "idle" /\ ritem' = <<>> /\ trouble'
      /\ \A c \in Calls : todo'[c] = (IF todo[c] = None THEN None ELSE {}) /\ adding'[c] = None
  BY DEF Crash, Fault
<1>2. TypeOK'
  <2>1. todo' \in [Calls -> (SUBSET Users) \cup {None}] /\ adding' \in [Calls -> Users \cup {None}]
    BY DEF Crash
  <2>2. ok' \in [{"scheduler", "retry"} -> BOOLEAN]
    BY DEF Crash, TypeOK
  <2> QED
    BY <1>1, <2>1, <2>2 DEF Crash, Fault, TypeOK
<1>3. \A n \in Notes : Untried(n) => Untried(n)'
  BY <1>1, EmptyNotNote DEF Untried, NotRetried
<1>4. Visits'
  BY <1>1 DEF Visits
<1>5. FirstUntried' /\ CancelledUntried'
  BY <1>1, <1>3 DEF FirstUntried, CancelledUntried, TypeOK
<1>6. RetryListed'
  <2>1. \A i \in 1 .. Len(retryList) : retryList[i] \in Notes
    BY DEF TypeOK
  <2> QED
    BY <1>1, <2>1, EmptyNotNote DEF RetryListed
<1>7. SchedulerItem' /\ RetryItem' /\ Counted'
  BY <1>1 DEF SchedulerItem, RetryItem, Counted
<1> QED
  BY <1>2, <1>4, <1>5, <1>6, <1>7

-----------------------------------------------------------------------------
(* The theorems.                                                           *)

\* Every step keeps the invariant.
LEMMA NextInv == Inv /\ [Next]_vars => Inv'
<1> SUFFICES ASSUME Inv, [Next]_vars PROVE Inv'
  OBVIOUS
<1>1. CASE Request
  BY <1>1, RequestKeeps
<1>2. CASE SchedulerStep
  BY <1>2, BatchKeeps, ValidateKeeps, DeliveryKeeps DEF SchedulerStep
<1>3. CASE RetryStep \/ \E n \in Notes : Requeue(n)
  BY <1>3, ListKeeps, PopKeeps, RetryKeeps DEF RetryStep
<1>4. CASE Crash
  BY <1>4, CrashKeeps
<1>5. CASE UNCHANGED vars
  BY <1>5 DEF vars, mongo, redis, calls, scheduler, retry, history, Inv, TypeOK, Visits,
              FirstUntried, SchedulerItem, RetryListed, RetryItem, CancelledUntried, Counted,
              Untried, NotRetried
<1> QED
  BY <1>1, <1>2, <1>3, <1>4, <1>5 DEF Next, Request, Environment, TimePasses

\* Every variable keeps its type; in particular retry_count never passes
\* MAX_RETRIES, whichever tasks, requests and failures interleave.
THEOREM TypesHold == Spec => []TypeOK
<1>1. Inv => TypeOK
  BY DEF Inv
<1> QED
  BY <1>1, InitInv, NextInv, PTL DEF Spec

\* A notification whose action is undone before its delivery time is never
\* sent, by the scheduler or by a retry, whatever fails or is restarted.
THEOREM RevertedNeverSent == Spec => []RevertedNotSent
<1>1. Inv => RevertedNotSent
  BY DEF Inv, CancelledUntried, Untried, RevertedNotSent
<1> QED
  BY <1>1, InitInv, NextInv, PTL DEF Spec

\* Unless a crash or an exception keeps an attempt from being counted, a
\* notification is attempted at most MAX_RETRIES times.
THEOREM GivesUpHolds == Spec => []GivesUp
<1>1. Inv => GivesUp
  BY DEF Inv, Counted, GivesUp
<1> QED
  BY <1>1, InitInv, NextInv, PTL DEF Spec

=============================================================================
