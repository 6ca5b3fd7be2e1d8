-------------------------- MODULE FolderSyncProofs ---------------------------
(***************************************************************************)
(* Theorems about FolderSync, for every value of its constants: the types, *)
(* with them the assertions of _execute_action; that the base of the       *)
(* three-way comparison reached the cloud; what FolderSync does to the     *)
(* contents of both sides, where what the user saved is kept whatever      *)
(* cycles run at the same time; and what a cycle during which no other one *)
(* ran and nobody edited creates, overwrites and deletes.                  *)
(***************************************************************************)
EXTENDS FolderSync, TLAPS

-----------------------------------------------------------------------------
(* The inductive invariant of the types.                                   *)

\* Where the action in progress uses its document, it has one; where it is
\* about to create one, it is a push of a new file.
WithDoc == {"write", "update", "send", "record", "pull", "store", "delete", "sidecar"}

HeadHasDoc ==
  \A c \in Cycles, p \in Paths :
    IsHead(c, p) =>
      /\ pc[c] \in WithDoc => plan[c][p].doc \in Docs
      /\ pc[c] = "create" => plan[c][p].kind = "push_new"

\* A content is being read only of a document the cycle saw.
ReadsSeen ==
  \A c \in Cycles : \A p \in unread[c] : pc[c] = "hash" /\ view[c][p] \in Docs

TypeInv == TypeOK /\ HeadHasDoc /\ ReadsSeen

\* A plan has one next action.
LEMMA HeadIsOne ==
  ASSUME NEW c \in Cycles, NEW p \in Paths, NEW q \in Paths,
         IsHead(c, p), IsHead(c, q)
  PROVE  p = q
BY DEF IsHead, Paths

\* What _decide_action returns is an action with a document wherever
\* _execute_action asserts one.
LEMMA DecisionTyped ==
  ASSUME NEW l \in Texts \cup {Absent}, NEW e \in Entry \cup {None},
         NEW d \in Docs \cup {None}, NEW h \in Texts \cup {None}
  PROVE  DecideAction(l, e, d, h) \in Action \cup {None}
<1>1. CASE e = None
  BY <1>1, FolderSyncAssumption
     DEF DecideAction, Decision, UntrackedKind, Action, Kinds
<1>2. CASE e # None
  <2>1. e.doc \in Docs /\ e.hash \in Texts
    BY <1>2 DEF Entry
  <2>2. ChangedKind(l, e, h) \in {"conflict", "push_update", "pull_update", None}
    BY DEF ChangedKind
  <2>3. TrackedKind(l, e, d, h) \in (Kinds \ {"push_new", "pull_new"}) \cup {None}
    BY <2>2 DEF TrackedKind, Kinds
  <2> QED
    BY <1>2, <2>1, <2>3, FolderSyncAssumption DEF DecideAction, Decision, Action, Kinds
<1> QED
  BY <1>1, <1>2

\* A read of a document, failed or not, returns a text.
LEMMA ReadTyped ==
  ASSUME CloudOK, NEW d \in Docs
  PROVE  ReadResult(d) \subseteq Texts
BY FolderSyncAssumption DEF ReadResult, CloudOK

\* The type invariant holds before the first cycle.
LEMMA InitTypes == Init => TypeInv
<1> SUFFICES ASSUME Init PROVE TypeInv
  OBVIOUS
<1>1. TypeOK
  <2>1. DiskOK
    BY DEF Init, DiskOK, NoFiles
  <2>2. CloudOK
    BY FolderSyncAssumption DEF Init, CloudOK
  <2>3. CycleOK
    BY FolderSyncAssumption DEF Init, CycleOK, NoFiles, NoneAt
  <2>4. HistoryOK
    BY FolderSyncAssumption DEF Init, HistoryOK, NoFiles
  <2> QED
    BY <2>1, <2>2, <2>3, <2>4 DEF TypeOK, Init, NoneAt
<1>2. HeadHasDoc /\ ReadsSeen
  BY DEF Init, HeadHasDoc, ReadsSeen, IsHead, NoneAt
<1> QED
  BY <1>1, <1>2 DEF TypeInv

\* What the user and the web users do keeps the types: no cycle moves.
LEMMA EnvironmentTypes ==
  ASSUME TypeInv, Environment, disturbed' = Busy
  PROVE  TypeInv'
<1> USE DEF TypeInv
<1>1. CycleOK' /\ HeadHasDoc' /\ ReadsSeen'
  <2>1. UNCHANGED cycle
    BY DEF Environment, UserSave, UserRemove, WebEdit, WebCreate, WebDelete, WebReturn, WebRename
  <2> QED
    BY <2>1 DEF TypeOK, CycleOK, HeadHasDoc, ReadsSeen, cycle, IsHead
<1>2. tracked' \in [Paths -> Entry \cup {None}]
  BY DEF TypeOK, Environment, UserSave, UserRemove, WebEdit, WebCreate, WebDelete, WebReturn,
         WebRename
<1>3. DiskOK'
  <2>1. ASSUME NEW p \in Paths, NEW t \in Typed, UserSave(p, t) PROVE DiskOK'
    BY <2>1 DEF TypeOK, DiskOK, UserSave, Typed
  <2>2. ASSUME NEW p \in Paths, UserRemove(p) PROVE DiskOK'
    BY <2>2 DEF TypeOK, DiskOK, UserRemove
  <2>3. ASSUME UNCHANGED disk PROVE DiskOK'
    BY <2>3 DEF TypeOK, DiskOK, disk
  <2> QED
    BY <2>1, <2>2, <2>3
       DEF Environment, WebEdit, WebCreate, WebDelete, WebReturn, WebRename
<1>4. CloudOK'
  <2>1. ASSUME NEW d \in Docs, NEW t \in Typed, WebEdit(d, t) PROVE CloudOK'
    BY <2>1 DEF TypeOK, CloudOK, WebEdit, SetText, Typed
  <2>2. ASSUME NEW p \in Paths, NEW t \in Typed, WebCreate(p, t) PROVE CloudOK'
    BY <2>2 DEF TypeOK, CloudOK, WebCreate, AddDoc, FreshDocs, SetText, Typed
  <2>3. ASSUME NEW d \in Docs, WebDelete(d) \/ WebReturn(d) PROVE CloudOK'
    BY <2>3 DEF TypeOK, CloudOK, WebDelete, WebReturn
  <2>4. ASSUME NEW d \in Docs, NEW p \in Paths, WebRename(d, p) PROVE CloudOK'
    BY <2>4 DEF TypeOK, CloudOK, WebRename
  <2>5. ASSUME UNCHANGED cloud PROVE CloudOK'
    BY <2>5 DEF TypeOK, CloudOK, cloud
  <2> QED
    BY <2>1, <2>2, <2>3, <2>4, <2>5 DEF Environment, UserSave, UserRemove
<1>5. HistoryOK'
  <2>1. edits' \in 0 .. MaxEdits
    BY FolderSyncAssumption
       DEF TypeOK, HistoryOK, Environment, MayEdit, UserSave, UserRemove, WebEdit, WebCreate,
           WebDelete, WebReturn, WebRename
  <2>2. mine' \in [Paths -> Texts \cup {Absent}]
    BY DEF TypeOK, HistoryOK, Environment, Typed, UserSave, UserRemove, WebEdit, WebCreate,
           WebDelete, WebReturn, WebRename
  <2>3. UNCHANGED <<crashes, held, lost, unanswered>>
    BY DEF Environment, UserSave, UserRemove, WebEdit, WebCreate, WebDelete, WebReturn, WebRename
  <2> QED
    BY <2>1, <2>2, <2>3 DEF TypeOK, HistoryOK
<1> QED
  BY <1>1, <1>2, <1>3, <1>4, <1>5 DEF TypeOK, Busy

\* A kill keeps the types: it resets every cycle, and sync.json stays.
LEMMA CrashTypes ==
  ASSUME TypeInv, Crash
  PROVE  TypeInv'
<1> USE DEF TypeInv
<1>1. CycleOK' /\ HeadHasDoc' /\ ReadsSeen'
  BY FolderSyncAssumption
     DEF Crash, TypeOK, CycleOK, HeadHasDoc, ReadsSeen, IsHead, NoFiles, NoneAt, WithDoc
<1>2. HistoryOK'
  BY FolderSyncAssumption DEF Crash, TypeOK, HistoryOK
<1>3. DiskOK' /\ CloudOK' /\ tracked' \in [Paths -> Entry \cup {None}]
  BY DEF Crash, TypeOK, DiskOK, CloudOK, disk, cloud
<1> QED
  BY <1>1, <1>2, <1>3 DEF TypeOK, Crash

\* A step that only moves cycle c, and maybe its text, keeps the rest.
LEMMA MovesOnly ==
  ASSUME TypeInv, NEW c \in Cycles, NEW where \in {"idle"} \cup Holding \cup Waiting,
         Goto(c, where), pc[c] # "hash", where # "hash",
         UNCHANGED <<scan, view, unread, hash, plan>>,
         text' \in [Cycles -> Texts], current' \in [Cycles -> Texts],
         \A p \in Paths : IsHead(c, p) =>
           /\ where \in WithDoc => plan[c][p].doc \in Docs
           /\ where = "create" => plan[c][p].kind = "push_new"
  PROVE  CycleOK' /\ HeadHasDoc' /\ ReadsSeen'
<1> USE DEF TypeInv, TypeOK
<1>1. CycleOK'
  BY DEF CycleOK, Goto
<1>2. HeadHasDoc'
  BY DEF HeadHasDoc, IsHead, Goto, CycleOK
<1>3. ReadsSeen'
  BY DEF ReadsSeen, Goto, CycleOK
<1> QED
  BY <1>1, <1>2, <1>3

\* So does the end of an action, and an exception.
LEMMA EndsAction ==
  ASSUME TypeInv, NEW c \in Cycles, pc[c] # "hash",
         \/ Abort(c)
         \/ \E p \in Paths : NextAction(c, p) /\ UNCHANGED <<scan, view, unread, hash>>
  PROVE  CycleOK' /\ HeadHasDoc' /\ ReadsSeen'
<1> USE DEF TypeInv, TypeOK
<1>1. CASE Abort(c)
  <2>1. CycleOK'
    BY <1>1, FolderSyncAssumption DEF CycleOK, Abort, Goto, NoFiles, NoneAt
  <2>2. HeadHasDoc'
    BY <1>1 DEF HeadHasDoc, IsHead, Abort, Goto, NoneAt, CycleOK, WithDoc
  <2>3. ReadsSeen'
    BY <1>1 DEF ReadsSeen, Abort, Goto, CycleOK
  <2> QED
    BY <2>1, <2>2, <2>3
<1>2. ASSUME NEW p \in Paths, NextAction(c, p), UNCHANGED <<scan, view, unread, hash>>
      PROVE  CycleOK' /\ HeadHasDoc' /\ ReadsSeen'
  <2>1. CycleOK'
    BY <1>2, FolderSyncAssumption DEF CycleOK, NextAction, Goto, Holding
  <2>2. HeadHasDoc'
    BY <1>2 DEF HeadHasDoc, IsHead, NextAction, Goto, CycleOK, WithDoc
  <2>3. ReadsSeen'
    BY <1>2 DEF ReadsSeen, NextAction, Goto, CycleOK
  <2> QED
    BY <2>1, <2>2, <2>3
<1> QED
  BY <1>1, <1>2

\* The steps up to the start of an action keep the types of the cycles: a
\* plan is made of typed decisions, and its next action has its document.
LEMMA ScanTypes ==
  ASSUME TypeInv, NEW c \in Cycles,
         \/ Begin(c) \/ FetchMeta(c) \/ FetchFailed(c) \/ Reconcile(c) \/ Finish(c)
         \/ \E p \in Paths : ReadHash(c, p)
  PROVE  CycleOK' /\ HeadHasDoc' /\ ReadsSeen'
<1> USE DEF TypeInv, TypeOK
<1>1. CASE Begin(c)
  BY <1>1 DEF Begin, At, Goto, Waiting, CycleOK, DiskOK, HeadHasDoc, ReadsSeen, IsHead, WithDoc
<1>2. CASE FetchMeta(c)
  <2>1. PICK v \in [Paths -> Docs \cup {None}] :
          /\ view' = [view EXCEPT ![c] = v]
          /\ LET need == {p \in Paths : v[p] # None /\ (tracked[p] # None \/ scan[c][p] # Absent)}
             IN  unread' = [unread EXCEPT ![c] = need]
                 /\ Goto(c, IF need = {} THEN "decide" ELSE "hash")
    BY <1>2 DEF FetchMeta
  <2>2. CycleOK'
    BY <1>2, <2>1 DEF FetchMeta, Goto, Waiting, Holding, CycleOK
  <2>3. HeadHasDoc'
    <3>1. PICK where \in {"decide", "hash"} : pc' = [pc EXCEPT ![c] = where]
      BY <2>1 DEF Goto
    <3>2. plan' = plan
      BY <1>2 DEF FetchMeta
    <3> QED
      BY <3>1, <3>2 DEF CycleOK, HeadHasDoc, IsHead, WithDoc
  <2>4. ReadsSeen'
    BY <1>2, <2>1 DEF FetchMeta, At, Goto, CycleOK, ReadsSeen
  <2> QED
    BY <2>2, <2>3, <2>4
<1>3. CASE FetchFailed(c)
  BY <1>3, EndsAction DEF FetchFailed, At
<1>4. CASE Reconcile(c)
  <2>1. ASSUME NEW p \in Paths
        PROVE  DecideAction(scan[c][p], tracked[p], view[c][p], hash[c][p])
                 \in Action \cup {None}
    <3>1. /\ scan[c][p] \in Texts \cup {Absent} /\ tracked[p] \in Entry \cup {None}
          /\ view[c][p] \in Docs \cup {None} /\ hash[c][p] \in Texts \cup {None}
      BY DEF CycleOK
    <3> QED
      BY <3>1, DecisionTyped
  <2>2. CycleOK'
    BY <1>4, <2>1, FolderSyncAssumption
       DEF Reconcile, Goto, Holding, CycleOK, NoFiles, NoneAt
  <2>3. HeadHasDoc'
    BY <1>4 DEF Reconcile, Goto, CycleOK, HeadHasDoc, IsHead, WithDoc
  <2>4. ReadsSeen'
    BY <1>4 DEF Reconcile, At, Goto, CycleOK, ReadsSeen
  <2> QED
    BY <2>2, <2>3, <2>4
<1>5. CASE Finish(c)
  BY <1>5 DEF Finish, At, Goto, CycleOK, HeadHasDoc, ReadsSeen, IsHead, WithDoc
<1>6. ASSUME NEW p \in Paths, ReadHash(c, p)
      PROVE  CycleOK' /\ HeadHasDoc' /\ ReadsSeen'
  <2>1. ReadResult(view[c][p]) \subseteq Texts
    BY <1>6, FolderSyncAssumption DEF ReadHash, ReadResult, ReadsSeen, CloudOK
  <2>2. CycleOK'
    BY <1>6, <2>1 DEF ReadHash, Goto, Holding, Waiting, CycleOK
  <2>3. HeadHasDoc'
    BY <1>6 DEF ReadHash, Goto, CycleOK, HeadHasDoc, IsHead, WithDoc
  <2>4. ReadsSeen'
    BY <1>6 DEF ReadHash, At, Goto, CycleOK, ReadsSeen
  <2> QED
    BY <2>2, <2>3, <2>4
<1> QED
  BY <1>1, <1>2, <1>3, <1>4, <1>5, <1>6

\* What the type of a planned action says of its document.
LEMMA ActionDoc ==
  ASSUME NEW a \in Action
  PROVE  /\ a.kind \in Kinds
         /\ a.kind \notin {"push_new", "delete_local"} => a.doc \in Docs
BY DEF Action, Kinds

\* The steps of a push keep them: the document created becomes the action's.
LEMMA PushTypes ==
  ASSUME TypeInv, NEW c \in Cycles, NEW p \in Paths,
         \/ StartPush(c, p) \/ PushMissing(c, p) \/ CreateDoc(c, p) \/ CreateRetried(c, p)
         \/ CreateFailed(c) \/ WriteNew(c, p) \/ Shake(c, p) \/ UpdateDoc(c, p)
         \/ WriteLost(c, p) \/ Record(c, p)
  PROVE  CycleOK' /\ HeadHasDoc' /\ ReadsSeen'
<1> USE DEF TypeInv, TypeOK
<1>1. CASE StartPush(c, p)
  <2> DEFINE where == IF plan[c][p].kind = "push_new" THEN "create"
                      ELSE IF local[p] = Empty THEN "record" ELSE "update"
  <2>1. plan[c][p] \in Action /\ IsHead(c, p) /\ plan[c][p].kind \in Pushes
    BY <1>1 DEF StartPush, Planned, IsHead, CycleOK
  <2>2. plan[c][p].kind # "push_new" => plan[c][p].doc \in Docs
    BY <2>1, ActionDoc DEF Pushes
  <2>3. \A q \in Paths : IsHead(c, q) => q = p
    BY <2>1, HeadIsOne
  <2>4. text' \in [Cycles -> Texts] /\ current' \in [Cycles -> Texts]
    BY <1>1 DEF StartPush, DiskOK, CycleOK
  <2>5. /\ where \in Holding \cup Waiting /\ where # "hash" /\ pc[c] # "hash"
        /\ Goto(c, where) /\ UNCHANGED <<scan, view, unread, hash, plan>>
    BY <1>1 DEF StartPush, Planned, At, Holding, Waiting
  <2> HIDE DEF where
  <2>6. \A q \in Paths : IsHead(c, q) =>
          /\ where \in WithDoc => plan[c][q].doc \in Docs
          /\ where = "create" => plan[c][q].kind = "push_new"
    BY <2>2, <2>3 DEF where, WithDoc
  <2> QED
    BY <2>4, <2>5, <2>6, MovesOnly
<1>2. CASE PushMissing(c, p)
  BY <1>2, EndsAction DEF PushMissing, Planned, At
<1>3. CASE CreateDoc(c, p)
  <2>1. PICK d \in Docs : plan' = [plan EXCEPT ![c][p].doc = d]
    BY <1>3 DEF CreateDoc, FreshDocs
  <2>2. plan[c][p] \in Action /\ plan[c][p].kind = "push_new"
    BY <1>3 DEF CreateDoc, At, IsHead, HeadHasDoc, CycleOK
  <2>3. [plan[c][p] EXCEPT !.doc = d] \in Action
    BY <2>2 DEF Action, Kinds
  <2>4. CycleOK'
    BY <1>3, <2>1, <2>3 DEF CreateDoc, Goto, Holding, Waiting, CycleOK
  <2>5. ASSUME NEW b \in Cycles, NEW q \in Paths
        PROVE  IsHead(b, q)' <=> IsHead(b, q)
    BY <2>1, <2>2, <2>3, FolderSyncAssumption DEF IsHead, CycleOK
  <2>6. \A q \in Paths : IsHead(c, q) => q = p
    BY <1>3, HeadIsOne DEF CreateDoc
  <2>7. HeadHasDoc'
    BY <1>3, <2>1, <2>2, <2>5, <2>6 DEF CreateDoc, Goto, HeadHasDoc, CycleOK, Action
  <2>8. ReadsSeen'
    BY <1>3 DEF CreateDoc, At, Goto, ReadsSeen, CycleOK
  <2> QED
    BY <2>4, <2>7, <2>8
<1>4. CASE CreateRetried(c, p)
  BY <1>4 DEF CreateRetried, cycle, CycleOK, HeadHasDoc, ReadsSeen, IsHead
<1>5. CASE CreateFailed(c)
  BY <1>5, EndsAction DEF CreateFailed, At
<1>6. CASE WriteNew(c, p) \/ Shake(c, p) \/ UpdateDoc(c, p) \/ WriteLost(c, p)
  <2>1. PICK where \in {"send", "record"} : Goto(c, where)
    BY <1>6 DEF WriteNew, Shake, UpdateDoc, WriteLost
  <2>2. /\ pc[c] \in WithDoc /\ pc[c] # "hash"
        /\ UNCHANGED <<scan, view, unread, hash, plan, text>>
    BY <1>6 DEF WriteNew, Shake, UpdateDoc, WriteLost, At, WithDoc
  <2>3. \A q \in Paths : IsHead(c, q) => plan[c][q].doc \in Docs
    BY <2>2 DEF HeadHasDoc
  <2>4. current' \in [Cycles -> Texts]
    <3>1. IsHead(c, p)
      BY <1>6 DEF WriteNew, Shake, UpdateDoc, WriteLost
    <3>2. docText[plan[c][p].doc] \in Texts
      BY <2>3, <3>1 DEF CloudOK
    <3>3. \/ current' = current
          \/ \E t \in {docText[plan[c][p].doc], Empty} : current' = [current EXCEPT ![c] = t]
      BY <1>6 DEF WriteNew, Shake, UpdateDoc, WriteLost
    <3>4. current \in [Cycles -> Texts]
      BY DEF CycleOK
    <3>5. Empty \in Texts
      BY FolderSyncAssumption
    <3> HIDE DEF TypeInv, TypeOK
    <3> QED
      BY <3>2, <3>3, <3>4, <3>5
  <2>5. text' \in [Cycles -> Texts] /\ where \in Holding \cup Waiting
    BY <2>1, <2>2 DEF CycleOK, Holding, Waiting
  <2> QED
    BY <2>1, <2>2, <2>3, <2>4, <2>5, MovesOnly
<1>7. CASE Record(c, p)
  BY <1>7, EndsAction DEF Record, At
<1> QED
  BY <1>1, <1>2, <1>3, <1>4, <1>5, <1>6, <1>7

\* So do those of pulls, deletions and conflicts.
LEMMA PullTypes ==
  ASSUME TypeInv, NEW c \in Cycles, NEW p \in Paths,
         \/ StartPull(c, p) \/ PullRead(c, p) \/ PullRefused(c, p) \/ PullStore(c, p)
         \/ StartDelete(c, p) \/ DeleteRemote(c, p) \/ DeleteFailed(c, p) \/ DeleteLocal(c, p)
         \/ Untrack(c, p) \/ StartConflict(c, p) \/ WriteSidecar(c, p)
  PROVE  CycleOK' /\ HeadHasDoc' /\ ReadsSeen'
<1> USE DEF TypeInv, TypeOK
<1>1. CASE StartPull(c, p) \/ StartDelete(c, p) \/ StartConflict(c, p)
  <2>1. plan[c][p] \in Action /\ IsHead(c, p)
        /\ plan[c][p].kind \in Pulls \cup {"delete_remote", "conflict"}
    BY <1>1 DEF StartPull, StartDelete, StartConflict, Planned, IsHead, CycleOK
  <2>2. \A q \in Paths : IsHead(c, q) => plan[c][q].doc \in Docs
    BY <2>1, ActionDoc, HeadIsOne DEF Pulls
  <2>3. PICK where \in {"pull", "delete", "sidecar"} : Goto(c, where)
    BY <1>1 DEF StartPull, StartDelete, StartConflict
  <2>4. /\ pc[c] # "hash" /\ where # "hash" /\ where # "create" /\ where \in Holding \cup Waiting
        /\ UNCHANGED <<scan, view, unread, hash, plan, text, current>>
    BY <1>1, <2>3 DEF StartPull, StartDelete, StartConflict, Planned, At, Waiting
  <2> QED
    BY <2>2, <2>3, <2>4, MovesOnly DEF CycleOK
<1>2. CASE PullRead(c, p) \/ PullStore(c, p)
  <2>1. \A q \in Paths : IsHead(c, q) => plan[c][q].doc \in Docs
    BY <1>2 DEF PullRead, PullStore, At, HeadHasDoc, WithDoc
  <2>2. PICK where \in {"store", "record"} : Goto(c, where)
    BY <1>2 DEF PullRead, PullStore
  <2>3. /\ pc[c] # "hash" /\ where # "hash" /\ where # "create" /\ where \in Holding \cup Waiting
        /\ UNCHANGED <<scan, view, unread, hash, plan>>
    BY <1>2, <2>2 DEF PullRead, PullStore, At, Holding
  <2>4. ASSUME PullRead(c, p) PROVE ReadResult(plan[c][p].doc) \subseteq Texts
    <3>1. plan[c][p].doc \in Docs
      BY <2>1, <2>4 DEF PullRead
    <3> QED
      BY <3>1, ReadTyped
  <2>5. text' \in [Cycles -> Texts] /\ current' \in [Cycles -> Texts]
    BY <1>2, <2>4 DEF PullRead, PullStore, CycleOK
  <2> QED
    BY <2>1, <2>2, <2>3, <2>5, MovesOnly
<1>3. CASE DeleteRemote(c, p) \/ DeleteLocal(c, p)
  <2>1. /\ Goto(c, "untrack") /\ pc[c] # "hash" /\ "untrack" \in Holding /\ "untrack" \notin WithDoc
        /\ UNCHANGED <<scan, view, unread, hash, plan, text, current>>
    BY <1>3 DEF DeleteRemote, DeleteLocal, Planned, At, Holding, WithDoc
  <2>2. text' \in [Cycles -> Texts] /\ current' \in [Cycles -> Texts]
    BY <2>1 DEF CycleOK
  <2> QED
    BY <2>1, <2>2, MovesOnly
<1>4. CASE PullRefused(c, p) \/ Untrack(c, p) \/ WriteSidecar(c, p) \/ DeleteFailed(c, p)
  <2>1. pc[c] # "hash"
    BY <1>4 DEF PullRefused, Untrack, WriteSidecar, DeleteFailed, At
  <2>2. Abort(c) \/ (NextAction(c, p) /\ UNCHANGED <<scan, view, unread, hash>>)
    BY <1>4 DEF PullRefused, Untrack, WriteSidecar, DeleteFailed
  <2> QED
    BY <2>1, <2>2, EndsAction
<1> QED
  BY <1>1, <1>2, <1>3, <1>4

\* What a cycle writes to the disk, the cloud and sync.json is typed.
LEMMA StoreTypes ==
  ASSUME TypeInv, NEW c \in Cycles, CycleStep(c)
  PROVE  /\ DiskOK' /\ CloudOK' /\ HistoryOK'
         /\ tracked' \in [Paths -> Entry \cup {None}]
<1> USE DEF TypeInv, TypeOK
<1>1. ASSUME Begin(c) \/ FetchMeta(c) \/ FetchFailed(c) \/ Reconcile(c) \/ Finish(c)
             \/ CreateFailed(c)
      PROVE  /\ UNCHANGED <<tracked, cloud, history>>
             /\ dirty' \in BOOLEAN /\ UNCHANGED <<local, trash, lastTrash, sidecars>>
  BY <1>1 DEF Begin, FetchMeta, FetchFailed, Reconcile, Finish, CreateFailed, disk, DiskOK
<1>2. ASSUME NEW p \in Paths, ActionStep(c, p) PROVE DiskOK'
  <2>1. CASE PullStore(c, p)
    <3>1. text[c] \in Texts
      BY DEF CycleOK
    <3> QED
      BY <2>1, <3>1 DEF PullStore, DiskOK
  <2>2. CASE DeleteLocal(c, p)
    <3>1. CASE UNCHANGED disk
      BY <3>1 DEF DiskOK, disk
    <3>2. CASE local[p] # Absent
      <4>1. <<p, local[p]>> \in Paths \X Texts
        BY <3>2 DEF DiskOK
      <4>2. /\ trash' \subseteq trash \cup {<<p, local[p]>>}
            /\ lastTrash' = <<p, local[p]>> /\ dirty' = TRUE
            /\ local' = [local EXCEPT ![p] = Absent] /\ UNCHANGED sidecars
        BY <2>2, <3>2 DEF DeleteLocal
      <4> QED
        BY <4>1, <4>2 DEF DiskOK
    <3> QED
      BY <2>2, <3>1, <3>2 DEF DeleteLocal
  <2>3. CASE WriteSidecar(c, p)
    <3>1. plan[c][p].doc \in Docs
      BY <2>3 DEF WriteSidecar, At, HeadHasDoc, WithDoc
    <3>2. ReadResult(plan[c][p].doc) \subseteq Texts
      BY <3>1, ReadTyped
    <3> QED
      BY <2>3, <3>2 DEF WriteSidecar, DiskOK
  <2>4. CASE UNCHANGED disk
    BY <2>4 DEF DiskOK, disk
  <2> QED
    BY <1>2, <2>1, <2>2, <2>3, <2>4
       DEF ActionStep, ReadHash, StartPush, PushMissing, CreateDoc, CreateRetried, WriteNew,
           Shake, UpdateDoc, WriteLost, StartPull, PullRead, PullRefused, StartDelete,
           DeleteRemote, DeleteFailed, StartConflict, Record, Untrack
<1>3. ASSUME NEW p \in Paths, ActionStep(c, p) PROVE CloudOK'
  <2>1. CASE CreateDoc(c, p) \/ CreateRetried(c, p)
    BY <2>1 DEF CreateDoc, CreateRetried, AddDoc, FreshDocs, CloudOK
  <2>2. CASE WriteNew(c, p) \/ UpdateDoc(c, p)
    <3>1. /\ plan[c][p].doc \in Docs
          /\ text[c] \in Texts /\ current[c] \in Texts
      BY <2>2 DEF WriteNew, UpdateDoc, At, HeadHasDoc, WithDoc, CycleOK
    <3>2. \/ \E t \in Texts : MergeText(plan[c][p].doc, t, text[c])
          \/ UNCHANGED <<docText, delivered>>
      BY <2>2, <3>1, FolderSyncAssumption DEF WriteNew, UpdateDoc
    <3>3. docText' \in [Docs -> Texts]
      BY <3>1, <3>2, FolderSyncAssumption DEF MergeText, CloudOK
    <3>4. delivered' \in [Docs -> SUBSET Texts]
      BY <3>1, <3>2, <3>3 DEF MergeText, CloudOK
    <3> QED
      BY <2>2, <3>3, <3>4 DEF WriteNew, UpdateDoc, CloudOK
  <2>3. CASE DeleteRemote(c, p) \/ DeleteFailed(c, p)
    BY <2>3 DEF DeleteRemote, DeleteFailed, CloudOK
  <2>4. CASE UNCHANGED cloud
    BY <2>4 DEF CloudOK, cloud
  <2> QED
    BY <1>3, <2>1, <2>2, <2>3, <2>4
       DEF ActionStep, ReadHash, StartPush, PushMissing, Shake, WriteLost, StartPull, PullRead,
           PullRefused, PullStore, StartDelete, DeleteLocal, StartConflict, WriteSidecar, Record,
           Untrack
<1>4. ASSUME NEW p \in Paths, ActionStep(c, p) PROVE HistoryOK'
  <2>1. CASE StartPush(c, p)
    <3>1. plan[c][p] \in Action
      BY <2>1 DEF StartPush, Planned, IsHead, CycleOK
    <3>2. plan[c][p].kind # "push_new" => plan[c][p].doc \in Docs
      BY <2>1, <3>1, ActionDoc DEF StartPush, Planned, Pushes
    <3> QED
      BY <2>1, <3>2 DEF StartPush, HistoryOK, DiskOK
  <2>2. CASE CreateDoc(c, p) \/ CreateRetried(c, p)
    BY <2>2 DEF CreateDoc, CreateRetried, FreshDocs, HistoryOK, CycleOK
  <2>3. CASE PullStore(c, p)
    <3>1. plan[c][p].doc \in Docs
      BY <2>3 DEF PullStore, At, HeadHasDoc, WithDoc
    <3> QED
      BY <2>3, <3>1 DEF PullStore, HistoryOK, CycleOK
  <2>4. CASE WriteLost(c, p)
    <3>1. plan[c][p].doc \in Docs /\ text[c] \in Texts
      BY <2>4 DEF WriteLost, At, HeadHasDoc, WithDoc, CycleOK
    <3> QED
      BY <2>4, <3>1 DEF WriteLost, HistoryOK
  <2>5. CASE UNCHANGED history
    BY <2>5 DEF HistoryOK, history
  <2> QED
    BY <1>4, <2>1, <2>2, <2>3, <2>4, <2>5
       DEF ActionStep, ReadHash, PushMissing, WriteNew, Shake, UpdateDoc, StartPull, PullRead,
           PullRefused, StartDelete, DeleteRemote, DeleteFailed, DeleteLocal, StartConflict,
           WriteSidecar, Record, Untrack
<1>5. ASSUME NEW p \in Paths, ActionStep(c, p)
      PROVE  tracked' \in [Paths -> Entry \cup {None}]
  <2>1. CASE Record(c, p)
    <3>1. plan[c][p].doc \in Docs /\ text[c] \in Texts
      BY <2>1 DEF Record, At, HeadHasDoc, WithDoc, CycleOK
    <3> QED
      BY <2>1, <3>1 DEF Record, Entry
  <2>2. CASE Untrack(c, p)
    BY <2>2 DEF Untrack
  <2>3. CASE UNCHANGED tracked
    BY <2>3
  <2> QED
    BY <1>5, <2>1, <2>2, <2>3
       DEF ActionStep, ReadHash, StartPush, PushMissing, CreateDoc, CreateRetried, WriteNew,
           Shake, UpdateDoc, WriteLost, StartPull, PullRead, PullRefused, PullStore, StartDelete,
           DeleteRemote, DeleteFailed, DeleteLocal, StartConflict, WriteSidecar
<1> QED
  BY <1>1, <1>2, <1>3, <1>4, <1>5
     DEF CycleStep, DiskOK, CloudOK, HistoryOK, cloud, history

\* Every step keeps the type invariant.
LEMMA NextTypes == TypeInv /\ [Next]_vars => TypeInv'
<1> SUFFICES ASSUME TypeInv, [Next]_vars PROVE TypeInv'
  OBVIOUS
<1>1. CASE Environment /\ disturbed' = Busy
  BY <1>1, EnvironmentTypes
<1>2. CASE Crash
  BY <1>2, CrashTypes
<1>3. ASSUME NEW c \in Cycles, CycleStep(c), Overlaps PROVE TypeInv'
  <2>1. CycleOK' /\ HeadHasDoc' /\ ReadsSeen'
    <3>1. CASE \/ Begin(c) \/ FetchMeta(c) \/ FetchFailed(c) \/ Reconcile(c) \/ Finish(c)
      BY <3>1, ScanTypes
    <3>2. CASE CreateFailed(c)
      <4>1. 1 \in Paths
        BY FolderSyncAssumption DEF Paths
      <4> QED
        BY <3>2, <4>1, PushTypes
    <3>3. ASSUME NEW p \in Paths, ActionStep(c, p)
          PROVE  CycleOK' /\ HeadHasDoc' /\ ReadsSeen'
      BY <3>3, ScanTypes, PushTypes, PullTypes DEF ActionStep
    <3> QED
      BY <1>3, <3>1, <3>2, <3>3 DEF CycleStep
  <2>2. disturbed' \subseteq Cycles
    BY <1>3 DEF Overlaps, Busy
  <2> QED
    BY <1>3, <2>1, <2>2, StoreTypes DEF TypeInv, TypeOK
<1>4. CASE UNCHANGED vars
  BY <1>4 DEF vars, disk, cloud, cycle, history, TypeInv, TypeOK, DiskOK, CloudOK, CycleOK,
              HistoryOK, HeadHasDoc, ReadsSeen, IsHead
<1> QED
  BY <1>1, <1>2, <1>3, <1>4 DEF Next

\* Every variable keeps its type; in particular an action that needs a
\* document has one: the assertions of _execute_action never fail.
THEOREM TypesHold == Spec => []TypeOK
<1>1. TypeInv => TypeOK
  BY DEF TypeInv
<1> QED
  BY <1>1, InitTypes, NextTypes, PTL DEF Spec

-----------------------------------------------------------------------------
(* What a step of a cycle leaves alone.                                    *)

\* A cycle moves alone: the others keep all that is theirs.
LEMMA OthersStay ==
  ASSUME TypeInv, NEW c \in Cycles, CycleStep(c), NEW b \in Cycles, b # c
  PROVE  /\ pc'[b] = pc[b] /\ plan'[b] = plan[b] /\ text'[b] = text[b]
         /\ scan'[b] = scan[b] /\ view'[b] = view[b]
         /\ unread'[b] = unread[b] /\ hash'[b] = hash[b] /\ current'[b] = current[b]
<1> USE DEF TypeInv, TypeOK
<1>1. CASE \/ Begin(c) \/ FetchMeta(c) \/ FetchFailed(c) \/ Reconcile(c) \/ Finish(c)
           \/ CreateFailed(c)
  BY <1>1 DEF CycleOK, Begin, FetchMeta, FetchFailed, Reconcile, Finish, CreateFailed, Goto,
              Abort
<1>2. ASSUME NEW p \in Paths,
             \/ ReadHash(c, p) \/ StartPush(c, p) \/ PushMissing(c, p) \/ CreateDoc(c, p)
             \/ CreateRetried(c, p) \/ WriteNew(c, p) \/ Shake(c, p) \/ UpdateDoc(c, p)
             \/ WriteLost(c, p) \/ Record(c, p)
      PROVE  /\ pc'[b] = pc[b] /\ plan'[b] = plan[b] /\ text'[b] = text[b]
             /\ scan'[b] = scan[b] /\ view'[b] = view[b]
             /\ unread'[b] = unread[b] /\ hash'[b] = hash[b] /\ current'[b] = current[b]
  BY <1>2 DEF CycleOK, ReadHash, StartPush, PushMissing, CreateDoc, CreateRetried,
              WriteNew, Shake, UpdateDoc, WriteLost, Record, Goto, NextAction, Abort, cycle
<1>3. ASSUME NEW p \in Paths,
             \/ StartPull(c, p) \/ PullRead(c, p) \/ PullRefused(c, p) \/ PullStore(c, p)
             \/ StartDelete(c, p) \/ DeleteRemote(c, p) \/ DeleteFailed(c, p)
             \/ DeleteLocal(c, p) \/ StartConflict(c, p) \/ WriteSidecar(c, p) \/ Untrack(c, p)
      PROVE  /\ pc'[b] = pc[b] /\ plan'[b] = plan[b] /\ text'[b] = text[b]
             /\ scan'[b] = scan[b] /\ view'[b] = view[b]
             /\ unread'[b] = unread[b] /\ hash'[b] = hash[b] /\ current'[b] = current[b]
  BY <1>3 DEF CycleOK, StartPull, PullRead, PullRefused, PullStore, StartDelete,
              DeleteRemote, DeleteFailed, DeleteLocal, StartConflict, WriteSidecar, Untrack,
              Goto, NextAction, Abort
<1> QED
  BY <1>1, <1>2, <1>3 DEF CycleStep, ActionStep

\* Only Record and Untrack change an entry, and only that of the action.
LEMMA CycleTracks ==
  ASSUME NEW c \in Cycles, CycleStep(c), NEW p \in Paths,
         tracked \in [Paths -> Entry \cup {None}], tracked'[p] # tracked[p]
  PROVE  Record(c, p) \/ Untrack(c, p)
<1>1. ASSUME NEW q \in Paths, Record(c, q) \/ Untrack(c, q)
      PROVE  q = p
  BY <1>1 DEF Record, Untrack
<1> QED
  BY <1>1
     DEF CycleStep, ActionStep, Begin, FetchMeta, FetchFailed, Reconcile, Finish, CreateFailed,
         WriteLost, DeleteFailed, ReadHash, StartPush, PushMissing, CreateDoc, CreateRetried,
         WriteNew, Shake, UpdateDoc, StartPull, PullRead, PullRefused, PullStore, StartDelete,
         DeleteRemote, DeleteLocal, StartConflict, WriteSidecar

-----------------------------------------------------------------------------
(* The base of the comparison was sent to the cloud.                       *)

\* The content of a document is one the cloud received for it; so is the
\* empty one it began with.
Arrived == \A d \in Docs : Empty \in delivered[d] /\ docText[d] \in delivered[d]

\* What a handshake brought came from the document.
ShakenArrived ==
  \A c \in Cycles, p \in Paths :
    IsHead(c, p) /\ pc[c] = "send" => current[c] \in delivered[plan[c][p].doc]

\* What is about to be recorded, or stored and recorded, came from the
\* document, was sent to it, or was lost when it was sent.
CarriedSent ==
  \A c \in Cycles, p \in Paths :
    IsHead(c, p) /\ pc[c] \in {"store", "record"} => Sent(plan[c][p].doc, text[c])

BaseInv == TypeInv /\ Arrived /\ ShakenArrived /\ CarriedSent /\ BaseReachedCloud

\* A step changes what the cloud received by sending a content, or on the web;
\* nothing received is taken back.
LEMMA CloudGrows ==
  ASSUME TypeInv, Arrived, Next
  PROVE  Arrived' /\ \A d \in Docs : delivered[d] \subseteq delivered'[d]
<1> USE DEF TypeInv, TypeOK, CloudOK, Arrived
<1>1. ASSUME NEW d \in Docs, NEW s \in Texts, NEW t \in Texts, SetText(d, t) \/ MergeText(d, s, t)
      PROVE  Arrived' /\ \A e \in Docs : delivered[e] \subseteq delivered'[e]
  BY <1>1 DEF SetText, MergeText
<1>2. ASSUME UNCHANGED <<docText, delivered>>
      PROVE  Arrived' /\ \A e \in Docs : delivered[e] \subseteq delivered'[e]
  BY <1>2
<1>3. \/ UNCHANGED <<docText, delivered>>
      \/ \E d \in Docs, s, t \in Texts : SetText(d, t) \/ MergeText(d, s, t)
  <2>1. CASE Environment
    BY <2>1 DEF Environment, Typed, UserSave, UserRemove, WebEdit, WebCreate, WebDelete,
                WebReturn, WebRename, FreshDocs, cloud
  <2>2. CASE Crash
    BY <2>2 DEF Crash, cloud
  <2>3. ASSUME NEW c \in Cycles, CycleStep(c), ~ \E p \in Paths : ActionStep(c, p)
        PROVE  UNCHANGED <<docText, delivered>>
    BY <2>3 DEF CycleStep, Begin, FetchMeta, FetchFailed, Reconcile, Finish, CreateFailed, cloud
  <2>4. ASSUME NEW c \in Cycles, NEW p \in Paths, WriteNew(c, p) \/ UpdateDoc(c, p)
        PROVE  \/ UNCHANGED <<docText, delivered>>
               \/ \E d \in Docs, s, t \in Texts : MergeText(d, s, t)
    <3>1. plan[c][p].doc \in Docs /\ text[c] \in Texts /\ current[c] \in Texts
      BY <2>4 DEF WriteNew, UpdateDoc, At, HeadHasDoc, WithDoc, CycleOK
    <3> QED
      BY <2>4, <3>1, FolderSyncAssumption DEF WriteNew, UpdateDoc
  <2>5. ASSUME NEW c \in Cycles, NEW p \in Paths, ActionStep(c, p),
               ~ WriteNew(c, p), ~ UpdateDoc(c, p)
        PROVE  UNCHANGED <<docText, delivered>>
    BY <2>5 DEF ActionStep, ReadHash, StartPush, PushMissing, CreateDoc, CreateRetried, Shake,
                WriteLost, StartPull, PullRead, PullRefused, PullStore, StartDelete, DeleteRemote,
                DeleteFailed, DeleteLocal, StartConflict, WriteSidecar, Record, Untrack, cloud
  <2> QED
    BY <2>1, <2>2, <2>3, <2>4, <2>5 DEF Next
<1> QED
  BY <1>1, <1>2, <1>3

\* Nor is a transfer that failed forgotten.
LEMMA LostGrows ==
  ASSUME Next
  PROVE  lost \subseteq lost'
<1>1. CASE Environment \/ Crash
  BY <1>1 DEF Crash, Environment, UserSave, UserRemove, WebEdit, WebCreate, WebDelete, WebReturn,
              WebRename
<1>2. ASSUME NEW c \in Cycles, CycleStep(c), ~ \E p \in Paths : ActionStep(c, p)
      PROVE  lost' = lost
  BY <1>2 DEF CycleStep, Begin, FetchMeta, FetchFailed, Reconcile, Finish, CreateFailed, history
<1>3. ASSUME NEW c \in Cycles, NEW p \in Paths, ActionStep(c, p)
      PROVE  lost \subseteq lost'
  BY <1>3 DEF ActionStep, ReadHash, StartPush, PushMissing, CreateDoc, CreateRetried, WriteNew,
              Shake, UpdateDoc, WriteLost, StartPull, PullRead, PullRefused, PullStore,
              StartDelete, DeleteRemote, DeleteFailed, DeleteLocal, StartConflict, WriteSidecar,
              Record, Untrack, history
<1> QED
  BY <1>1, <1>2, <1>3 DEF Next

LEMMA SentStays ==
  ASSUME TypeInv, Arrived, Next, NEW d \in Docs, NEW t, Sent(d, t)
  PROVE  Sent(d, t)'
BY CloudGrows, LostGrows DEF Sent

\* What a cycle takes along has arrived, or was lost.
LEMMA CarriedStep ==
  ASSUME TypeInv, TypeInv', Arrived, ShakenArrived, CarriedSent, Next
  PROVE  ShakenArrived' /\ CarriedSent'
<1> USE DEF TypeInv, TypeOK
<1>1. /\ \A d \in Docs : delivered[d] \subseteq delivered'[d]
      /\ \A d \in Docs, t \in Texts : Sent(d, t) => Sent(d, t)'
  BY CloudGrows, SentStays
<1> DEFINE Goal(b, q) ==
      /\ pc'[b] = "send" => current'[b] \in delivered'[plan'[b][q].doc]
      /\ pc'[b] \in {"store", "record"} =>
           \/ text'[b] \in delivered'[plan'[b][q].doc]
           \/ <<plan'[b][q].doc, text'[b]>> \in lost'
<1> SUFFICES ASSUME NEW b \in Cycles, NEW q \in Paths, IsHead(b, q)'
             PROVE  Goal(b, q)
  BY DEF ShakenArrived, CarriedSent, Sent
<1>2. CASE pc'[b] = pc[b] /\ plan'[b] = plan[b] /\ text'[b] = text[b] /\ current'[b] = current[b]
  <2>1. IsHead(b, q)
    BY <1>2 DEF IsHead
  <2>2. CASE pc[b] \in WithDoc
    <3>1. plan[b][q].doc \in Docs /\ text[b] \in Texts
      BY <2>1, <2>2 DEF HeadHasDoc, CycleOK
    <3>2. pc[b] = "send" => current[b] \in delivered[plan[b][q].doc]
      BY <2>1 DEF ShakenArrived
    <3>3. pc[b] \in {"store", "record"} => Sent(plan[b][q].doc, text[b])
      BY <2>1 DEF CarriedSent
    <3> QED
      BY <1>1, <1>2, <3>1, <3>2, <3>3 DEF Sent
  <2>3. CASE pc[b] \notin WithDoc
    BY <1>2, <2>3 DEF WithDoc
  <2> QED
    BY <2>2, <2>3
<1>3. CASE Environment
  BY <1>2, <1>3 DEF Environment, UserSave, UserRemove, WebEdit, WebCreate, WebDelete, WebReturn,
                    WebRename, cycle
<1>4. CASE Crash
  BY <1>4 DEF Crash
<1>5. ASSUME NEW c \in Cycles, CycleStep(c), c # b
      PROVE  Goal(b, q)
  BY <1>2, <1>5, OthersStay
<1>6. ASSUME NEW p \in Paths, StartPush(b, p) \/ CreateDoc(b, p)
      PROVE  Goal(b, q)
  <2>1. pc'[b] # "send" /\ (pc'[b] \in {"store", "record"} => pc'[b] = "record" /\ text'[b] = Empty)
    BY <1>6 DEF StartPush, CreateDoc, Goto, CycleOK
  <2>2. pc'[b] = "record" => plan'[b][q].doc \in Docs
    BY DEF HeadHasDoc, WithDoc, IsHead
  <2> QED
    BY <1>1, <2>1, <2>2 DEF Arrived
<1>7. ASSUME NEW p \in Paths, WriteNew(b, p) \/ UpdateDoc(b, p)
      PROVE  Goal(b, q)
  <2>1. /\ IsHead(b, p) /\ IsHead(b, q) /\ UNCHANGED <<plan, text>>
        /\ pc'[b] = "record" /\ pc[b] \in {"write", "send"}
    BY <1>7 DEF WriteNew, UpdateDoc, IsHead, At, Goto, CycleOK
  <2>2. p = q
    BY <2>1, HeadIsOne
  <2>3. plan[b][p].doc \in Docs
    BY <2>1 DEF HeadHasDoc, WithDoc
  <2>4. \/ \E s \in {Empty, current[b]} : MergeText(plan[b][p].doc, s, text[b])
        \/ /\ pc[b] = "send" /\ current[b] = text[b]
           /\ delivered' = delivered
    BY <1>7 DEF WriteNew, UpdateDoc, At
  <2>5. text[b] \in delivered'[plan[b][p].doc]
    BY <2>1, <2>3, <2>4 DEF MergeText, CloudOK, ShakenArrived
  <2> QED
    BY <2>1, <2>2, <2>5
<1>8. ASSUME NEW p \in Paths, PullRead(b, p)
      PROVE  Goal(b, q)
  <2>1. IsHead(b, p) /\ IsHead(b, q) /\ UNCHANGED <<plan, cloud>> /\ pc'[b] = "store"
    BY <1>8 DEF PullRead, IsHead, Goto, CycleOK
  <2>2. p = q
    BY <2>1, HeadIsOne
  <2>3. plan[b][p].doc \in Docs
    BY <1>8 DEF PullRead, At, HeadHasDoc, WithDoc
  <2>4. text'[b] \in {docText[plan[b][p].doc], Empty}
    BY <1>8 DEF PullRead, ReadResult, CycleOK
  <2> QED
    BY <2>1, <2>2, <2>3, <2>4 DEF Arrived, cloud
<1>9. ASSUME NEW p \in Paths, PullStore(b, p)
      PROVE  Goal(b, q)
  <2>1. /\ pc[b] = "store" /\ IsHead(b, q) /\ UNCHANGED <<plan, text, cloud, lost>>
        /\ pc'[b] = "record"
    BY <1>9 DEF PullStore, At, IsHead, Goto, CycleOK
  <2> QED
    BY <2>1 DEF CarriedSent, Sent, cloud
<1>10. ASSUME NEW p \in Paths, Shake(b, p)
       PROVE  Goal(b, q)
  <2>1. /\ IsHead(b, p) /\ IsHead(b, q) /\ UNCHANGED <<plan, cloud>>
        /\ pc[b] = "update" /\ pc'[b] = "send"
    BY <1>10 DEF Shake, IsHead, At, Goto, CycleOK
  <2>2. p = q
    BY <2>1, HeadIsOne
  <2>3. plan[b][p].doc \in Docs
    BY <2>1 DEF HeadHasDoc, WithDoc
  <2>4. current'[b] \in {docText[plan[b][p].doc], Empty}
    BY <1>10 DEF Shake, CycleOK
  <2> QED
    BY <2>1, <2>2, <2>3, <2>4 DEF Arrived, cloud
<1>11. ASSUME NEW p \in Paths, WriteLost(b, p)
       PROVE  Goal(b, q)
  <2>1. /\ IsHead(b, p) /\ IsHead(b, q) /\ UNCHANGED <<plan, text>> /\ pc'[b] = "record"
        /\ <<plan[b][p].doc, text[b]>> \in lost'
    BY <1>11 DEF WriteLost, IsHead, Goto, CycleOK
  <2>2. p = q
    BY <2>1, HeadIsOne
  <2> QED
    BY <2>1, <2>2
<1>12. ASSUME CycleStep(b) PROVE Goal(b, q)
  <2>1. CASE \E p \in Paths :
               \/ StartPush(b, p) \/ CreateDoc(b, p) \/ WriteNew(b, p) \/ UpdateDoc(b, p)
               \/ PullRead(b, p) \/ PullStore(b, p) \/ Shake(b, p) \/ WriteLost(b, p)
    BY <1>6, <1>7, <1>8, <1>9, <1>10, <1>11, <2>1
  <2>2. CASE \E p \in Paths : CreateRetried(b, p)
    BY <1>2, <2>2 DEF CreateRetried, cycle
  <2>3. CASE ~ \E p \in Paths :
               \/ StartPush(b, p) \/ CreateDoc(b, p) \/ WriteNew(b, p) \/ UpdateDoc(b, p)
               \/ PullRead(b, p) \/ PullStore(b, p) \/ Shake(b, p) \/ WriteLost(b, p)
               \/ CreateRetried(b, p)
    <3>1. pc'[b] \notin {"send", "store", "record"}
      BY <1>12, <2>3
         DEF CycleOK, CycleStep, ActionStep, Begin, FetchMeta, FetchFailed, Reconcile, Finish,
             CreateFailed, DeleteFailed, ReadHash, PushMissing, StartPull,
             PullRefused, StartDelete, DeleteRemote, DeleteLocal, StartConflict, WriteSidecar,
             Record, Untrack, Goto, NextAction, Abort
    <3> QED
      BY <3>1
  <2> QED
    BY <2>1, <2>2, <2>3
<1> QED
  BY <1>3, <1>4, <1>5, <1>12 DEF Next

\* Only Record makes an entry, of a content that was sent; every other step
\* leaves the entries or drops one.
LEMMA BaseStep ==
  ASSUME BaseInv, TypeInv', Next
  PROVE  BaseReachedCloud'
<1> USE DEF BaseInv, TypeInv, TypeOK
<1>1. \A d \in Docs, t \in Texts : Sent(d, t) => Sent(d, t)'
  BY SentStays
<1>2. ASSUME NEW p \in Paths, tracked'[p] # None
      PROVE  tracked'[p].doc \in Docs /\ tracked'[p].hash \in Texts
  BY <1>2 DEF Entry
<1>3. ASSUME NEW p \in Paths, tracked'[p] = tracked[p], tracked[p] # None
      PROVE  Sent(tracked[p].doc, tracked[p].hash)'
  <2>1. tracked[p].doc \in Docs /\ tracked[p].hash \in Texts
    BY <1>3 DEF Entry
  <2>2. Sent(tracked[p].doc, tracked[p].hash)
    BY <1>3 DEF BaseReachedCloud
  <2> QED
    BY <1>1, <1>3, <2>1, <2>2 DEF Sent
<1>4. ASSUME NEW c \in Cycles, NEW p \in Paths, Record(c, p)
      PROVE  Sent(tracked[p].doc, tracked[p].hash)'
  <2>1. /\ Sent(plan[c][p].doc, text[c])
        /\ plan[c][p].doc \in Docs /\ text[c] \in Texts
    BY <1>4 DEF Record, At, CarriedSent, HeadHasDoc, WithDoc, CycleOK
  <2>2. tracked'[p] = [doc |-> plan[c][p].doc, hash |-> text[c]]
    BY <1>4 DEF Record
  <2> QED
    BY <1>1, <2>1, <2>2 DEF Sent
<1>5. ASSUME NEW p \in Paths, tracked'[p] # None
      PROVE  Sent(tracked[p].doc, tracked[p].hash)'
  <2>1. CASE tracked'[p] = tracked[p]
    BY <1>3, <1>5, <2>1
  <2>2. CASE tracked'[p] # tracked[p]
    <3>1. PICK c \in Cycles : CycleStep(c)
      BY <2>2 DEF Next, Environment, Crash, UserSave, UserRemove, WebEdit, WebCreate, WebDelete,
                  WebReturn, WebRename
    <3>2. Record(c, p) \/ Untrack(c, p)
      BY <2>2, <3>1, CycleTracks
    <3>3. CASE Untrack(c, p)
      BY <1>5, <3>3 DEF Untrack
    <3> QED
      BY <1>4, <3>2, <3>3
  <2> QED
    BY <2>1, <2>2
<1> QED
  BY <1>5 DEF BaseReachedCloud, Sent

\* The invariant holds before the first cycle, and every step keeps it.
LEMMA InitBase == Init => BaseInv
<1> SUFFICES ASSUME Init PROVE BaseInv
  OBVIOUS
<1>1. TypeInv
  BY InitTypes
<1>2. Arrived /\ ShakenArrived /\ CarriedSent /\ BaseReachedCloud
  BY DEF Init, Arrived, ShakenArrived, CarriedSent, BaseReachedCloud, NoneAt
<1> QED
  BY <1>1, <1>2 DEF BaseInv

LEMMA BaseInvStep ==
  ASSUME BaseInv, [Next]_vars
  PROVE  BaseInv'
<1>1. TypeInv'
  BY NextTypes DEF BaseInv
<1>2. CASE Next
  BY <1>1, <1>2, CloudGrows, CarriedStep, BaseStep DEF BaseInv
<1>3. CASE UNCHANGED vars
  BY <1>1, <1>3 DEF BaseInv, Arrived, ShakenArrived, CarriedSent, Sent, BaseReachedCloud,
                    IsHead, vars, cloud, cycle, history
<1> QED
  BY <1>2, <1>3

\* The hash that sync.json holds for a file is that of a content the cloud
\* received for the file's document, or of one whose transfer failed: what the
\* engine takes for the common base was once on both sides but for such a
\* transfer, whatever cycles run at the same time, and however they, the other
\* failures, the kills and the edits interleave.
THEOREM BaseHolds == Spec => []BaseReachedCloud
<1>1. BaseInv /\ [Next]_vars => BaseInv'
  BY BaseInvStep
<1>2. BaseInv => BaseReachedCloud
  BY DEF BaseInv
<1> QED
  BY <1>1, <1>2, InitBase, PTL DEF Spec

-----------------------------------------------------------------------------
(* The plan and the location of a cycle.                                   *)

\* A plan exists only from reconcile on.
PlanAtWork ==
  \A c \in Cycles : pc[c] \in {"idle", "meta", "hash", "decide"} => plan[c] = NoneAt

\* The location of a cycle tells the kind of the action in progress.
KindAt(where, kind) ==
  /\ where \in {"create", "write"} => kind = "push_new"
  /\ where \in {"update", "send"} => kind = "push_update"
  /\ where \in {"pull", "store"} => kind \in Pulls
  /\ where = "record" => kind \in Pushes \cup Pulls
  /\ where = "delete" => kind = "delete_remote"
  /\ where = "untrack" => kind \in {"delete_remote", "delete_local"}

HeadKind ==
  \A c \in Cycles, p \in Paths : IsHead(c, p) => KindAt(pc[c], plan[c][p].kind)

CycleInv == TypeInv /\ PlanAtWork /\ HeadKind

\* Every step keeps the relation of plan and location.
LEMMA CycleInvStep ==
  ASSUME CycleInv, [Next]_vars
  PROVE  CycleInv'
<1> USE DEF CycleInv
<1>1. TypeInv'
  BY NextTypes
<1> SUFFICES ASSUME NEW b \in Cycles
             PROVE  /\ (pc[b] \in {"idle", "meta", "hash", "decide"} => plan[b] = NoneAt)'
                    /\ \A q \in Paths : (IsHead(b, q) => KindAt(pc[b], plan[b][q].kind))'
  BY <1>1 DEF PlanAtWork, HeadKind
<1>2. ASSUME pc'[b] = pc[b], plan'[b] = plan[b]
      PROVE  /\ (pc[b] \in {"idle", "meta", "hash", "decide"} => plan[b] = NoneAt)'
             /\ \A q \in Paths : (IsHead(b, q) => KindAt(pc[b], plan[b][q].kind))'
  BY <1>2 DEF PlanAtWork, HeadKind, IsHead, NoneAt
<1>3. CASE Environment \/ UNCHANGED vars
  BY <1>2, <1>3 DEF Environment, UserSave, UserRemove, WebEdit, WebCreate, WebDelete, WebReturn,
                    WebRename, cycle, vars
<1>4. CASE Crash
  BY <1>4 DEF Crash, IsHead, NoneAt, KindAt
<1>5. ASSUME NEW c \in Cycles, CycleStep(c), c # b
      PROVE  /\ (pc[b] \in {"idle", "meta", "hash", "decide"} => plan[b] = NoneAt)'
             /\ \A q \in Paths : (IsHead(b, q) => KindAt(pc[b], plan[b][q].kind))'
  BY <1>2, <1>5, OthersStay
<1>6. CASE CycleStep(b)
  <2> USE DEF TypeInv, TypeOK, CycleOK
  <2>1. CASE Begin(b) \/ FetchMeta(b) \/ Finish(b) \/ (\E p \in Paths : ReadHash(b, p))
    <3>1. pc[b] \in {"idle", "meta", "hash", "run"} /\ plan[b] = NoneAt /\ plan'[b] = NoneAt
      BY <2>1 DEF Begin, FetchMeta, Finish, ReadHash, At, PlanAtWork
    <3> QED
      BY <3>1 DEF IsHead, NoneAt
  <2>2. CASE Abort(b)
    BY <2>2 DEF Abort, Goto, IsHead, NoneAt
  <2>3. CASE pc'[b] = "run"
    BY <2>3 DEF KindAt
  <2>4. ASSUME NEW p \in Paths, plan'[b] = plan[b], IsHead(b, p),
               pc'[b] \notin {"idle", "meta", "hash", "decide"},
               KindAt(pc'[b], plan[b][p].kind)
        PROVE  /\ (pc[b] \in {"idle", "meta", "hash", "decide"} => plan[b] = NoneAt)'
               /\ \A q \in Paths : (IsHead(b, q) => KindAt(pc[b], plan[b][q].kind))'
    <3>1. ASSUME NEW q \in Paths, IsHead(b, q)' PROVE q = p
      <4>1. IsHead(b, q)
        BY <2>4, <3>1 DEF IsHead
      <4> QED
        BY <2>4, <4>1, HeadIsOne
    <3> QED
      BY <2>4, <3>1
  <2>6. ASSUME NEW p \in Paths, CreateDoc(b, p)
        PROVE  /\ (pc[b] \in {"idle", "meta", "hash", "decide"} => plan[b] = NoneAt)'
               /\ \A q \in Paths : (IsHead(b, q) => KindAt(pc[b], plan[b][q].kind))'
    <3>1. PICK d \in Docs : plan' = [plan EXCEPT ![b][p].doc = d]
      BY <2>6 DEF CreateDoc, FreshDocs
    <3>2. plan[b][p] \in Action /\ plan[b][p].kind = "push_new" /\ IsHead(b, p)
      BY <2>6 DEF CreateDoc, At, IsHead, HeadKind, KindAt
    <3>3. plan'[b][p] \in Action /\ plan'[b][p].kind = "push_new"
      BY <3>1, <3>2 DEF Action
    <3>4. ASSUME NEW q \in Paths, IsHead(b, q)' PROVE q = p
      <4>1. IsHead(b, q)
        <5>1. \A r \in Paths : plan'[b][r] # None <=> plan[b][r] # None
          BY <3>1, <3>2, <3>3, FolderSyncAssumption
        <5> QED
          BY <3>4, <5>1 DEF IsHead
      <4> QED
        BY <3>2, <4>1, HeadIsOne
    <3>5. pc'[b] \in {"record", "write"}
      BY <2>6 DEF CreateDoc, Goto
    <3> QED
      BY <3>3, <3>4, <3>5 DEF KindAt, Pushes
  <2>7. ASSUME NEW p \in Paths, CreateRetried(b, p)
        PROVE  pc'[b] = pc[b] /\ plan'[b] = plan[b]
    BY <2>7 DEF CreateRetried, cycle
  <2>8. ASSUME NEW p \in Paths, StartPush(b, p)
        PROVE  /\ IsHead(b, p) /\ plan'[b] = plan[b]
               /\ pc'[b] \notin {"idle", "meta", "hash", "decide"}
               /\ KindAt(pc'[b], plan[b][p].kind)
    BY <2>8 DEF StartPush, Planned, Goto, KindAt, Pushes
  <2>9. ASSUME NEW p \in Paths, \/ WriteNew(b, p) \/ Shake(b, p) \/ UpdateDoc(b, p)
                                \/ WriteLost(b, p) \/ PullRead(b, p) \/ PullStore(b, p)
                                \/ DeleteRemote(b, p)
        PROVE  /\ IsHead(b, p) /\ plan'[b] = plan[b]
               /\ pc'[b] \notin {"idle", "meta", "hash", "decide"}
               /\ KindAt(pc'[b], plan[b][p].kind)
    <3>1. KindAt(pc[b], plan[b][p].kind)
      BY <2>9 DEF WriteNew, Shake, UpdateDoc, WriteLost, PullRead, PullStore, DeleteRemote,
                  HeadKind
    <3> QED
      BY <2>9, <3>1 DEF WriteNew, Shake, UpdateDoc, WriteLost, PullRead, PullStore, DeleteRemote,
                        At, Goto, KindAt, Pushes
  <2>10. ASSUME NEW p \in Paths, StartPull(b, p) \/ StartDelete(b, p) \/ DeleteLocal(b, p)
                                 \/ StartConflict(b, p)
         PROVE  /\ IsHead(b, p) /\ plan'[b] = plan[b]
                /\ pc'[b] \notin {"idle", "meta", "hash", "decide"}
                /\ KindAt(pc'[b], plan[b][p].kind)
    BY <2>10 DEF StartPull, StartDelete, DeleteLocal, StartConflict, Planned, Goto, KindAt
  <2>11. ASSUME \/ Reconcile(b)
                \/ \E p \in Paths : \/ PullRefused(b, p) \/ WriteSidecar(b, p)
                                    \/ Record(b, p) \/ Untrack(b, p)
         PROVE  pc'[b] = "run"
    BY <2>11 DEF Reconcile, PullRefused, WriteSidecar, Record, Untrack, NextAction, Goto
  <2>12. ASSUME \/ FetchFailed(b) \/ CreateFailed(b)
                \/ \E p \in Paths : PushMissing(b, p) \/ DeleteFailed(b, p)
         PROVE  Abort(b)
    BY <2>12 DEF FetchFailed, CreateFailed, DeleteFailed, PushMissing
  <2>13. ASSUME NEW p \in Paths, ActionStep(b, p)
         PROVE  /\ (pc[b] \in {"idle", "meta", "hash", "decide"} => plan[b] = NoneAt)'
                /\ \A q \in Paths : (IsHead(b, q) => KindAt(pc[b], plan[b][q].kind))'
    BY <1>2, <2>1, <2>2, <2>3, <2>4, <2>6, <2>7, <2>8, <2>9, <2>10, <2>11, <2>12, <2>13
       DEF ActionStep
  <2> QED
    BY <1>6, <2>1, <2>2, <2>3, <2>11, <2>12, <2>13 DEF CycleStep
<1> QED
  BY <1>3, <1>4, <1>5, <1>6 DEF Next

LEMMA InitCycle == Init => CycleInv
BY InitTypes DEF Init, CycleInv, PlanAtWork, HeadKind, IsHead, NoneAt

-----------------------------------------------------------------------------
(* What the user saved, with any number of cycles at the same time.        *)

\* What the user last did to p need not be in the file any more.
Safe(p) ==
  mine[p] \in Texts \ {Empty} =>
    \/ <<p, mine[p]>> \in trash
    \/ \E d \in Docs : Sent(d, mine[p])

\* What a cycle saw on disk is what the user last did, or that is safe.
ScanKept ==
  \A c \in Cycles, p \in Paths :
    pc[c] \in {"meta", "hash", "decide"} => scan[c][p] = mine[p] \/ Safe(p)

\* A cycle goes to overwrite a file only once its content is safe.
PullsSafe ==
  \A c \in Cycles, p \in Paths :
    plan[c][p] # None => (plan[c][p].kind \in Pulls => Safe(p))

WorkInv == CycleInv /\ BaseInv /\ LocalWorkKept /\ ScanKept /\ PullsSafe

\* _decide_action pulls into a missing file, or into one that has the base.
LEMMA DecidesPull ==
  ASSUME NEW l, NEW e \in Entry \cup {None}, NEW d, NEW h,
         DecideAction(l, e, d, h) # None, DecideAction(l, e, d, h).kind \in Pulls
  PROVE  l = Absent \/ (e # None /\ l = e.hash)
<1>1. Decision(l, e, d, h) # None /\ DecideAction(l, e, d, h).kind = Decision(l, e, d, h)
  BY DEF DecideAction
<1>2. CASE e = None
  BY <1>1, <1>2 DEF Decision, UntrackedKind, Pulls
<1>3. CASE e # None
  BY <1>1, <1>3 DEF Decision, TrackedKind, ChangedKind, Pulls
<1> QED
  BY <1>2, <1>3

\* What is safe stays so while the user leaves the file alone.
LEMMA SafeStays ==
  ASSUME NEW p \in Paths, Safe(p), mine'[p] = mine[p], trash \subseteq trash',
         \A d \in Docs : delivered[d] \subseteq delivered'[d], lost \subseteq lost'
  PROVE  Safe(p)'
BY DEF Safe, Sent

\* A step of a cycle leaves the user's history and never empties the trash,
\* unless two files are trashed within a second.
LEMMA CycleKeepsTrash ==
  ASSUME "clock" \notin Failing, NEW c \in Cycles, CycleStep(c)
  PROVE  mine' = mine /\ trash \subseteq trash'
BY DEF CycleStep, ActionStep, Begin, FetchMeta, FetchFailed, Reconcile, Finish, CreateFailed,
       WriteLost, DeleteFailed, ReadHash, StartPush, PushMissing, CreateDoc, CreateRetried,
       WriteNew, Shake, UpdateDoc, StartPull, PullRead, PullRefused, PullStore, StartDelete,
       DeleteRemote, DeleteLocal, Collides, StartConflict, WriteSidecar, Record, Untrack,
       disk, history

\* A cycle changes a file by storing a pull in it or by trashing it.
LEMMA CycleWritesFile ==
  ASSUME NEW c \in Cycles, CycleStep(c)
  PROVE  local' = local \/ \E p \in Paths : PullStore(c, p) \/ DeleteLocal(c, p)
BY DEF CycleStep, ActionStep, Begin, FetchMeta, FetchFailed, Reconcile, Finish, CreateFailed,
       WriteLost, DeleteFailed, ReadHash, StartPush, PushMissing, CreateDoc, CreateRetried,
       WriteNew, Shake, UpdateDoc, StartPull, PullRead, PullRefused, StartDelete,
       DeleteRemote, StartConflict, WriteSidecar, Record, Untrack, disk

\* A cycle scans the folder when it begins, and only then.
LEMMA CycleScans ==
  ASSUME TypeInv, NEW c \in Cycles, CycleStep(c),
         pc'[c] \in {"meta", "hash", "decide"}
  PROVE  \/ Begin(c) /\ scan'[c] = local
         \/ scan'[c] = scan[c] /\ pc[c] \in {"meta", "hash"}
<1> USE DEF TypeInv, TypeOK, CycleOK
<1>1. CASE Begin(c)
  BY <1>1 DEF Begin
<1>2. CASE FetchMeta(c) \/ (\E p \in Paths : ReadHash(c, p))
  BY <1>2 DEF FetchMeta, ReadHash, At
<1>3. CASE \/ FetchFailed(c) \/ Reconcile(c) \/ Finish(c)
           \/ CreateFailed(c)
  BY <1>3 DEF FetchFailed, Reconcile, Finish, CreateFailed, Abort, Goto
<1>4. ASSUME NEW p \in Paths, ActionStep(c, p), ~ ReadHash(c, p)
      PROVE  FALSE
  BY <1>4 DEF ActionStep, StartPush, PushMissing, CreateDoc, CreateRetried, WriteNew, Shake,
              UpdateDoc, WriteLost, StartPull, PullRead, PullRefused, PullStore, StartDelete,
              DeleteRemote, DeleteFailed, DeleteLocal, StartConflict, WriteSidecar, Record,
              Untrack, Goto, NextAction, Abort, At, cycle
<1> QED
  BY <1>1, <1>2, <1>3, <1>4 DEF CycleStep

\* A plan is made by reconcile; after it actions only go, or get the document
\* they created.
LEMMA CyclePlans ==
  ASSUME TypeInv, NEW c \in Cycles, CycleStep(c), ~ Reconcile(c), NEW p \in Paths,
         plan'[c][p] # None
  PROVE  /\ plan[c][p] # None /\ plan'[c][p].kind = plan[c][p].kind
         /\ plan'[c][p] = plan[c][p] \/ CreateDoc(c, p)
<1> USE DEF TypeInv, TypeOK, CycleOK
<1>1. CASE Begin(c) \/ FetchMeta(c) \/ Finish(c)
  BY <1>1 DEF Begin, FetchMeta, Finish
<1>2. CASE FetchFailed(c) \/ CreateFailed(c)
  BY <1>2 DEF FetchFailed, CreateFailed, Abort, NoneAt
<1>3. ASSUME NEW q \in Paths, CreateDoc(c, q)
      PROVE  /\ plan[c][p] # None /\ plan'[c][p].kind = plan[c][p].kind
             /\ plan'[c][p] = plan[c][p] \/ CreateDoc(c, p)
  <2>1. PICK d \in Docs : plan' = [plan EXCEPT ![c][q].doc = d]
    BY <1>3 DEF CreateDoc, FreshDocs
  <2>2. plan[c][q] # None /\ plan[c][q] \in Action
    BY <1>3 DEF CreateDoc, IsHead
  <2> QED
    BY <1>3, <2>1, <2>2 DEF Action
<1>4. ASSUME NEW q \in Paths, ActionStep(c, q), ~ CreateDoc(c, q)
      PROVE  plan[c][p] # None /\ plan'[c][p] = plan[c][p]
  BY <1>4 DEF ActionStep, ReadHash, StartPush, PushMissing, CreateRetried, WriteNew, Shake,
              UpdateDoc, WriteLost, StartPull, PullRead, PullRefused, PullStore, StartDelete,
              DeleteRemote, DeleteFailed, DeleteLocal, StartConflict, WriteSidecar, Record,
              Untrack, NextAction, Abort, NoneAt, cycle
<1> QED
  BY <1>1, <1>2, <1>3, <1>4 DEF CycleStep

\* A file at which a pull is about to arrive is safe, and so is one a cycle
\* trashes: what the user saved is in the file or safe after every step.
LEMMA WorkStep ==
  ASSUME EditsMidCycle = FALSE, "clock" \notin Failing, WorkInv, Next, CycleInv', BaseInv'
  PROVE  LocalWorkKept' /\ ScanKept' /\ PullsSafe'
<1> USE DEF WorkInv, CycleInv, TypeInv, TypeOK
<1>1. (\A d \in Docs : delivered[d] \subseteq delivered'[d]) /\ lost \subseteq lost'
  BY CloudGrows, LostGrows DEF BaseInv
<1>2. \A p \in Paths : local[p] = mine[p] \/ Safe(p)
  BY DEF LocalWorkKept, Safe
<1>3. ASSUME \A p \in Paths : (local[p] = mine[p] \/ Safe(p))'
      PROVE  LocalWorkKept'
  BY <1>3 DEF LocalWorkKept, Safe
<1>4. ASSUME NEW c \in Cycles, CycleStep(c)
      PROVE  LocalWorkKept' /\ ScanKept' /\ PullsSafe'
  <2>1. mine' = mine /\ trash \subseteq trash'
    BY <1>4, CycleKeepsTrash
  <2>2. ASSUME NEW p \in Paths, Safe(p) PROVE Safe(p)'
    BY <1>1, <2>1, <2>2, SafeStays
  <2>3. ASSUME NEW p \in Paths PROVE (local[p] = mine[p] \/ Safe(p))'
    <3>1. CASE local'[p] = local[p]
      BY <1>2, <2>1, <2>2, <3>1
    <3>2. CASE PullStore(c, p)
      <4>1. plan[c][p] # None /\ plan[c][p].kind \in Pulls
        BY <3>2 DEF PullStore, At, IsHead, HeadKind, KindAt
      <4> QED
        BY <2>2, <4>1 DEF PullsSafe
    <3>3. CASE DeleteLocal(c, p) /\ local[p] # Absent
      <4>1. <<p, local[p]>> \in trash'
        BY <3>3 DEF DeleteLocal
      <4>2. local[p] = mine[p] => Safe(p)'
        BY <2>1, <4>1 DEF Safe
      <4> QED
        BY <1>2, <2>2, <4>2
    <3> QED
      BY <1>4, <3>1, <3>2, <3>3, CycleWritesFile DEF PullStore, DeleteLocal, DiskOK, disk
  <2>4. ScanKept'
    <3> SUFFICES ASSUME NEW b \in Cycles, NEW p \in Paths, pc'[b] \in {"meta", "hash", "decide"}
                 PROVE  scan'[b][p] = mine'[p] \/ Safe(p)'
      BY DEF ScanKept
    <3>1. CASE scan'[b] = scan[b] /\ pc[b] \in {"meta", "hash", "decide"}
      BY <2>1, <2>2, <3>1 DEF ScanKept
    <3>2. CASE scan'[b] = local
      BY <1>2, <2>1, <2>2, <3>2
    <3> QED
      BY <1>4, <3>1, <3>2, OthersStay, CycleScans
  <2>5. PullsSafe'
    <3> SUFFICES ASSUME NEW b \in Cycles, NEW p \in Paths, plan'[b][p] # None,
                        plan'[b][p].kind \in Pulls
                 PROVE  Safe(p)'
      BY DEF PullsSafe
    <3>1. CASE plan[b][p] # None /\ plan[b][p].kind \in Pulls
      BY <2>2, <3>1 DEF PullsSafe
    <3>2. CASE b = c /\ Reconcile(c)
      <4>1. plan'[c][p] = DecideAction(scan[c][p], tracked[p], view[c][p], hash[c][p])
        BY <3>2 DEF Reconcile, CycleOK
      <4>2. scan[c][p] = Absent \/ (tracked[p] # None /\ scan[c][p] = tracked[p].hash)
        BY <3>2, <4>1, DecidesPull
      <4>3. scan[c][p] = mine[p] \/ Safe(p)
        BY <3>2 DEF Reconcile, At, ScanKept
      <4>4. CASE mine[p] = Absent
        BY <2>2, <4>4, FolderSyncAssumption DEF Safe
      <4>5. CASE tracked[p] # None /\ mine[p] = tracked[p].hash
        <5>1. Sent(tracked[p].doc, tracked[p].hash) /\ tracked[p].doc \in Docs
          BY <4>5 DEF BaseInv, BaseReachedCloud, Entry
        <5>2. \E d \in Docs : Sent(d, mine[p])
          BY <4>5, <5>1
        <5> QED
          BY <2>2, <5>2 DEF Safe
      <4> QED
        BY <2>2, <4>2, <4>3, <4>4, <4>5
    <3> QED
      BY <1>4, <3>1, <3>2, OthersStay, CyclePlans
  <2> QED
    BY <1>3, <2>3, <2>4, <2>5
<1>5. CASE Crash
  <2>1. UNCHANGED <<mine, trash, local>>
    BY <1>5 DEF Crash, disk
  <2>2. \A p \in Paths : (local[p] = mine[p] \/ Safe(p))'
    BY <1>1, <1>2, <2>1, SafeStays
  <2>3. ScanKept' /\ PullsSafe'
    BY <1>5 DEF Crash, ScanKept, PullsSafe, NoneAt
  <2> QED
    BY <1>3, <2>2, <2>3
<1>6. CASE Environment
  <2>1. \A c \in Cycles : pc[c] = "idle"
    BY <1>6 DEF Environment, MayEdit, UserSave, UserRemove, WebEdit, WebCreate, WebDelete,
                WebReturn, WebRename
  <2>2. UNCHANGED <<cycle, trash>>
    BY <1>6 DEF Environment, UserSave, UserRemove, WebEdit, WebCreate, WebDelete, WebReturn,
                WebRename, disk
  <2>3. ScanKept' /\ PullsSafe'
    BY <2>1, <2>2 DEF cycle, ScanKept, PullsSafe, PlanAtWork, NoneAt
  <2>4. ASSUME NEW p \in Paths PROVE (local[p] = mine[p] \/ Safe(p))'
    <3>1. CASE local'[p] = local[p] /\ mine'[p] = mine[p]
      BY <1>1, <1>2, <2>2, <3>1, SafeStays
    <3>2. CASE local'[p] = mine'[p]
      BY <3>2
    <3> QED
      BY <1>6, <3>1, <3>2 DEF Environment, UserSave, UserRemove, WebEdit, WebCreate, WebDelete,
                              WebReturn, WebRename, disk, DiskOK, HistoryOK
  <2> QED
    BY <1>3, <2>3, <2>4
<1> QED
  BY <1>4, <1>5, <1>6 DEF Next

\* As long as everybody edits between cycles and no two files of one name are
\* trashed within a second, what the user saved last is in the file, in the
\* trash or was sent to the cloud: for any number of files, documents and
\* cycles, however the cycles overlap, whatever requests fail and wherever the
\* process is killed.
THEOREM LocalWorkKeptHolds ==
  ASSUME EditsMidCycle = FALSE, "clock" \notin Failing
  PROVE  Spec => []LocalWorkKept
<1>1. Init => WorkInv
  <2> SUFFICES ASSUME Init PROVE WorkInv
    OBVIOUS
  <2>1. LocalWorkKept /\ ScanKept /\ PullsSafe
    BY DEF Init, LocalWorkKept, ScanKept, PullsSafe, NoneAt, NoFiles
  <2> QED
    BY <2>1, InitCycle, InitBase DEF WorkInv
<1>2. WorkInv /\ [Next]_vars => WorkInv'
  <2> SUFFICES ASSUME WorkInv, [Next]_vars PROVE WorkInv'
    OBVIOUS
  <2>1. CycleInv' /\ BaseInv'
    BY CycleInvStep, BaseInvStep DEF WorkInv
  <2>2. CASE Next
    BY <2>1, <2>2, WorkStep DEF WorkInv
  <2>3. CASE UNCHANGED vars
    BY <2>1, <2>3 DEF WorkInv, LocalWorkKept, ScanKept, PullsSafe, Safe, vars, disk, cloud,
                      Sent, cycle, history
  <2> QED
    BY <2>2, <2>3
<1>3. WorkInv => LocalWorkKept
  BY DEF WorkInv
<1> QED
  BY <1>1, <1>2, <1>3, PTL DEF Spec

-----------------------------------------------------------------------------
(* A cycle that is not disturbed: what it deletes.                         *)

\* The cycle that is under way and was not disturbed.
Quiet == {c \in Cycles : pc[c] # "idle" /\ c \notin disturbed}

\* It is the only one under way.
Solo == \A c \in Quiet, o \in Cycles : pc[o] # "idle" => o = c

\* What it saw of both sides is what they are.
Scanned ==
  \A c \in Quiet : pc[c] \in {"meta", "hash", "decide"} => scan[c] = local

Viewed ==
  \A c \in Quiet, p \in Paths :
    pc[c] \in {"hash", "decide"} =>
      IF LiveAt(p) = {} THEN view[c][p] = None ELSE view[c][p] \in LiveAt(p)

\* What made reconcile plan an action stays true until it is executed: no
\* document is where a file is pushed as a new one or trashed, and a file is
\* missing where the document of its entry is deleted.
PlanStands(c, p) ==
  /\ plan[c][p].kind = "delete_local" => LiveAt(p) = {}
  /\ plan[c][p].kind = "delete_remote" =>
       local[p] = Absent /\ tracked[p] # None /\ tracked[p].doc = plan[c][p].doc

PlansStand == \A c \in Quiet, p \in Paths : plan[c][p] # None => PlanStands(c, p)

QuietInv == CycleInv /\ Solo /\ Scanned /\ Viewed /\ PlansStand

\* _decide_action trashes only without a document, pushes a new file only
\* without one, and deletes only the document of the entry of a missing file.
LEMMA DecidesKind ==
  ASSUME NEW l, NEW e \in Entry \cup {None}, NEW d \in Docs \cup {None}, NEW h,
         DecideAction(l, e, d, h) # None
  PROVE  LET a == DecideAction(l, e, d, h)
         IN  /\ a.kind \in {"push_new", "delete_local"} => d = None
             /\ a.kind = "delete_remote" => l = Absent /\ e # None /\ a.doc = e.doc
             /\ a.kind = "push_update" => e # None /\ a.doc = e.doc /\ d # None /\ (h = None \/ h = e.hash)
<1>1. /\ Decision(l, e, d, h) # None
      /\ DecideAction(l, e, d, h).kind = Decision(l, e, d, h)
      /\ e # None /\ DecideAction(l, e, d, h).kind \in {"delete_remote", "push_update"} =>
           DecideAction(l, e, d, h).doc = e.doc
  BY DEF DecideAction
<1>2. CASE e = None
  BY <1>1, <1>2 DEF Decision, UntrackedKind
<1>3. CASE e # None
  BY <1>1, <1>3 DEF Decision, TrackedKind, ChangedKind
<1> QED
  BY <1>2, <1>3

\* A step of a cycle puts a document at a path only by creating it there.
LEMMA CycleLive ==
  ASSUME CloudOK, NEW c \in Cycles, CycleStep(c), NEW p \in Paths,
         ~ CreateDoc(c, p), ~ CreateRetried(c, p)
  PROVE  LiveAt(p)' \subseteq LiveAt(p)
<1>1. ASSUME NEW q \in Paths, CreateDoc(c, q) \/ CreateRetried(c, q)
      PROVE  LiveAt(p)' \subseteq LiveAt(p)
  <2>1. PICK d \in FreshDocs : AddDoc(d, q)
    BY <1>1 DEF CreateDoc, CreateRetried
  <2> QED
    BY <1>1, <2>1 DEF AddDoc, LiveAt, CloudOK
<1>2. ASSUME NEW q \in Paths, DeleteRemote(c, q) \/ DeleteFailed(c, q)
      PROVE  LiveAt(p)' \subseteq LiveAt(p)
  BY <1>2 DEF DeleteRemote, DeleteFailed, LiveAt, CloudOK
<1>3. CASE UNCHANGED <<docAt, docLive>>
  BY <1>3 DEF LiveAt
<1> QED
  BY <1>1, <1>2, <1>3
     DEF CycleStep, ActionStep, Begin, FetchMeta, FetchFailed, Reconcile, Finish, CreateFailed,
         WriteLost, ReadHash, StartPush, PushMissing, WriteNew, Shake, UpdateDoc, StartPull,
         PullRead, PullRefused, PullStore, StartDelete, DeleteLocal, StartConflict, WriteSidecar,
         Record, Untrack, cloud

\* After its last step an action is no longer planned.
LEMMA CycleEnds ==
  ASSUME TypeInv, NEW c \in Cycles, NEW p \in Paths, Record(c, p) \/ Untrack(c, p)
  PROVE  plan'[c][p] = None
BY DEF Record, Untrack, NextAction, TypeInv, TypeOK, CycleOK

\* A cycle that is not disturbed by a step took it, and was not before; it is
\* still the only one under way.
LEMMA QuietSteps ==
  ASSUME TypeInv, Solo, Next
  PROVE  /\ Solo'
         /\ \A c \in Quiet' :
              c \in Cycles /\ CycleStep(c) /\ (Begin(c) \/ c \in Quiet)
<1>1. CASE Crash \/ (Environment /\ disturbed' = Busy)
  <2>1. Quiet' = {}
    BY <1>1 DEF Quiet, Busy, Crash, Environment, UserSave, UserRemove, WebEdit, WebCreate,
                WebDelete, WebReturn, WebRename, cycle
  <2> QED
    BY <2>1 DEF Solo
<1>2. ASSUME NEW c \in Cycles, CycleStep(c), Overlaps, NEW b \in Quiet'
      PROVE  /\ \A o \in Cycles : pc'[o] # "idle" => o = b
             /\ b = c /\ (Begin(c) \/ c \in Quiet)
  <2>1. b \in Cycles /\ pc'[b] # "idle" /\ b \notin disturbed /\ Busy' = {b}
    BY <1>2 DEF Quiet, Overlaps, Busy
  <2>2. \A o \in Cycles : pc'[o] # "idle" => o = b
    BY <2>1 DEF Busy
  <2>3. CASE b # c
    <3>1. pc'[b] = pc[b]
      BY <1>2, <2>1, <2>3, OthersStay
    <3>2. b \in Quiet
      BY <2>1, <3>1 DEF Quiet
    <3>3. pc[c] = "idle"
      BY <2>3, <3>2 DEF Solo
    <3>4. Begin(c)
      BY <1>2, <3>3
         DEF CycleStep, ActionStep, FetchMeta, FetchFailed, Reconcile, Finish, CreateFailed,
             WriteLost, DeleteFailed, ReadHash, StartPush, PushMissing, CreateDoc, CreateRetried,
             WriteNew, Shake, UpdateDoc, StartPull, PullRead, PullRefused, PullStore, StartDelete,
             DeleteRemote, DeleteLocal, StartConflict, WriteSidecar, Record, Untrack, Planned, At
    <3>5. pc'[c] = "meta"
      BY <3>4 DEF Begin, Goto, TypeInv, TypeOK, CycleOK
    <3> QED
      BY <2>2, <2>3, <3>5
  <2>4. CASE b = c
    <3>1. ASSUME pc[c] = "idle" PROVE Begin(c)
      BY <1>2, <3>1
         DEF CycleStep, ActionStep, FetchMeta, FetchFailed, Reconcile, Finish, CreateFailed,
             WriteLost, DeleteFailed, ReadHash, StartPush, PushMissing, CreateDoc, CreateRetried,
             WriteNew, Shake, UpdateDoc, StartPull, PullRead, PullRefused, PullStore, StartDelete,
             DeleteRemote, DeleteLocal, StartConflict, WriteSidecar, Record, Untrack, Planned, At
    <3>2. ASSUME pc[c] # "idle" PROVE c \in Quiet
      BY <2>1, <2>4, <3>2 DEF Quiet
    <3> QED
      BY <2>2, <2>4, <3>1, <3>2
  <2> QED
    BY <2>3, <2>4
<1> QED
  BY <1>1, <1>2 DEF Next, Solo

\* All else is its own doing: what it saw, and what its plan rests on, stays.
LEMMA QuietCycle ==
  ASSUME QuietInv, NEW c \in Cycles, CycleStep(c), Begin(c) \/ c \in Quiet
  PROVE  /\ pc'[c] \in {"meta", "hash", "decide"} => scan'[c] = local'
         /\ \A p \in Paths :
              /\ pc'[c] \in {"hash", "decide"} =>
                   IF LiveAt(p)' = {} THEN view'[c][p] = None ELSE view'[c][p] \in LiveAt(p)'
              /\ plan'[c][p] # None => PlanStands(c, p)'
<1> USE DEF QuietInv, CycleInv, TypeInv, TypeOK
<1>1. pc[c] # "idle" => c \in Quiet
  BY DEF Begin, At
<1>2. ASSUME pc'[c] \in {"meta", "hash", "decide"} PROVE scan'[c] = local'
  <2>1. local' = local
    <3>1. \A p \in Paths : ~ PullStore(c, p) /\ ~ DeleteLocal(c, p)
      BY <1>2 DEF PullStore, DeleteLocal, Goto, CycleOK
    <3> QED
      BY <3>1, CycleWritesFile
  <2> QED
    BY <1>1, <1>2, <2>1, CycleScans DEF Scanned
<1>3. ASSUME NEW p \in Paths, pc'[c] \in {"hash", "decide"}
      PROVE  IF LiveAt(p)' = {} THEN view'[c][p] = None ELSE view'[c][p] \in LiveAt(p)'
  <2>1. CASE FetchMeta(c)
    <3>1. PICK v \in [Paths -> Docs \cup {None}] :
            /\ IF LiveAt(p) = {} THEN v[p] = None ELSE v[p] \in LiveAt(p)
            /\ view' = [view EXCEPT ![c] = v]
      BY <2>1 DEF FetchMeta
    <3>2. LiveAt(p)' = LiveAt(p)
      BY <2>1 DEF FetchMeta, LiveAt, cloud
    <3> QED
      BY <3>1, <3>2 DEF CycleOK
  <2>2. ASSUME NEW q \in Paths, ReadHash(c, q)
        PROVE  IF LiveAt(p)' = {} THEN view'[c][p] = None ELSE view'[c][p] \in LiveAt(p)'
    <3>1. LiveAt(p)' = LiveAt(p)
      BY <2>2 DEF ReadHash, LiveAt, cloud
    <3> QED
      BY <1>1, <2>2, <3>1 DEF ReadHash, At, Viewed
  <2>3. FetchMeta(c) \/ \E q \in Paths : ReadHash(c, q)
    BY <1>3
       DEF CycleStep, ActionStep, Begin, FetchFailed, Reconcile, Finish, CreateFailed,
           WriteLost, DeleteFailed, StartPush, PushMissing, CreateDoc, CreateRetried,
           WriteNew, Shake, UpdateDoc, StartPull, PullRead, PullRefused, PullStore, StartDelete,
           DeleteRemote, DeleteLocal, StartConflict, WriteSidecar, Record, Untrack,
           Goto, At, Abort, NextAction, CycleOK, cycle
  <2> QED
    BY <2>1, <2>2, <2>3
<1>4. ASSUME NEW p \in Paths, plan'[c][p] # None PROVE PlanStands(c, p)'
  <2>1. CASE Reconcile(c)
    <3>1. plan'[c][p] = DecideAction(scan[c][p], tracked[p], view[c][p], hash[c][p])
      BY <2>1 DEF Reconcile, CycleOK
    <3>2. scan[c][p] = local[p] /\ (view[c][p] = None => LiveAt(p) = {})
      BY <1>1, <2>1, FolderSyncAssumption DEF Reconcile, At, Scanned, Viewed, LiveAt
    <3>3. LiveAt(p)' = LiveAt(p) /\ local' = local /\ tracked' = tracked
      BY <2>1 DEF Reconcile, LiveAt, cloud, disk
    <3>4. tracked[p] \in Entry \cup {None} /\ view[c][p] \in Docs \cup {None}
      BY DEF CycleOK
    <3> QED
      BY <1>4, <3>1, <3>2, <3>3, <3>4, DecidesKind DEF PlanStands
  <2>2. CASE ~ Reconcile(c)
    <3>1. /\ plan[c][p] # None /\ plan'[c][p].kind = plan[c][p].kind
          /\ plan'[c][p] = plan[c][p] \/ CreateDoc(c, p)
      BY <1>4, <2>2, CyclePlans
    <3>2. c \in Quiet
      BY <1>1, <3>1 DEF PlanAtWork, NoneAt
    <3>3. CreateDoc(c, p) \/ CreateRetried(c, p) => plan[c][p].kind = "push_new"
      BY DEF CreateDoc, CreateRetried, At, HeadKind, KindAt
    <3>4. plan'[c][p].kind = "delete_local" => LiveAt(p)' = {}
      BY <3>1, <3>2, <3>3, CycleLive DEF PlansStand, PlanStands
    <3>5. tracked'[p] = tracked[p]
      BY <1>4, CycleTracks, CycleEnds
    <3>6. ASSUME plan[c][p].kind = "delete_remote" PROVE local'[p] = Absent
      <4>1. local[p] = Absent
        BY <3>1, <3>2, <3>6 DEF PlansStand, PlanStands
      <4>2. ~ PullStore(c, p)
        BY <3>6 DEF PullStore, At, HeadKind, KindAt, Pulls
      <4> QED
        BY <4>1, <4>2, CycleWritesFile DEF PullStore, DeleteLocal, DiskOK, disk
    <3> QED
      BY <3>1, <3>2, <3>3, <3>4, <3>5, <3>6 DEF PlansStand, PlanStands
  <2> QED
    BY <2>1, <2>2
<1> QED
  BY <1>2, <1>3, <1>4

\* So the invariant is kept, whatever other cycles and users do.
LEMMA QuietStays ==
  ASSUME QuietInv, [Next]_vars
  PROVE  QuietInv'
<1>1. CycleInv'
  BY CycleInvStep DEF QuietInv
<1>2. CASE Next
  <2>1. /\ Solo'
        /\ \A c \in Quiet' : c \in Cycles /\ CycleStep(c) /\ (Begin(c) \/ c \in Quiet)
    BY <1>2, QuietSteps DEF QuietInv, CycleInv
  <2> QED
    BY <1>1, <2>1, QuietCycle DEF QuietInv, Scanned, Viewed, PlansStand
<1>3. CASE UNCHANGED vars
  BY <1>1, <1>3 DEF vars, cycle, disk, cloud, QuietInv, Quiet, Solo, Scanned, Viewed, PlansStand,
                    PlanStands, LiveAt
<1> QED
  BY <1>2, <1>3

LEMMA InitQuiet == Init => QuietInv
BY InitCycle DEF Init, QuietInv, Quiet, Solo, Scanned, Viewed, PlansStand

\* A cycle takes a document out of the folder by deleting it.
LEMMA CycleDeletes ==
  ASSUME CloudOK, NEW c \in Cycles, CycleStep(c), NEW d \in Docs, docLive[d], ~ docLive'[d]
  PROVE  \E p \in Paths :
           pc[c] = "delete" /\ IsHead(c, p) /\ d = plan[c][p].doc
<1>1. ASSUME NEW p \in Paths, DeleteRemote(c, p) \/ DeleteFailed(c, p)
      PROVE  pc[c] = "delete" /\ IsHead(c, p) /\ d = plan[c][p].doc
  BY <1>1 DEF DeleteRemote, DeleteFailed, At, CloudOK
<1>2. ASSUME NEW p \in Paths, CreateDoc(c, p) \/ CreateRetried(c, p)
      PROVE  FALSE
  BY <1>2 DEF CreateDoc, CreateRetried, AddDoc, CloudOK
<1> QED
  BY <1>1, <1>2
     DEF CycleStep, ActionStep, Begin, FetchMeta, FetchFailed, Reconcile, Finish, CreateFailed,
         WriteLost, ReadHash, StartPush, PushMissing, WriteNew, Shake, UpdateDoc, StartPull,
         PullRead, PullRefused, PullStore, StartDelete, DeleteLocal, StartConflict, WriteSidecar,
         Record, Untrack, cloud

\* A quiet step is one of a cycle that was not disturbed, or its end by a kill.
LEMMA QuietStepTaken ==
  ASSUME TypeInv, Next, ~ Crash, QuietStep
  PROVE  \E c \in Cycles : CycleStep(c) /\ (pc[c] = "idle" \/ c \in Quiet)
<1>1. PICK b \in Cycles \ disturbed : pc'[b] # pc[b]
  BY DEF QuietStep
<1>2. CASE Environment
  BY <1>1, <1>2 DEF Environment, UserSave, UserRemove, WebEdit, WebCreate, WebDelete, WebReturn,
                    WebRename, cycle
<1>3. ASSUME NEW c \in Cycles, CycleStep(c) PROVE c = b
  BY <1>1, <1>3, OthersStay
<1> QED
  BY <1>1, <1>2, <1>3 DEF Next, Quiet

\* Whatever cycles overlap, a cycle during which no other one ran and nobody
\* edited deletes a cloud document only while the file of an entry of it is
\* missing; requests of any kind may fail, and the process be killed, at any
\* step, and earlier cycles may have left anything.
THEOREM DeletesOnlyRemovedHolds == Spec => DeletesOnlyRemoved
<1>1. QuietInv /\ [Next]_vars => QuietInv'
  BY QuietStays
<1>2. QuietInv /\ [Next]_vars =>
        \A d \in Docs :
          docLive[d] /\ ~docLive'[d] /\ QuietStep =>
            \E p \in Paths, t \in Texts :
              tracked[p] = [doc |-> d, hash |-> t] /\ local[p] = Absent
  <2> SUFFICES ASSUME QuietInv, [Next]_vars, NEW d \in Docs,
                      docLive[d], ~docLive'[d], QuietStep
               PROVE  \E p \in Paths, t \in Texts :
                        tracked[p] = [doc |-> d, hash |-> t] /\ local[p] = Absent
    OBVIOUS
  <2> USE DEF QuietInv, CycleInv, TypeInv, TypeOK
  <2>1. PICK c \in Cycles : CycleStep(c) /\ (pc[c] = "idle" \/ c \in Quiet)
    <3>1. Next \/ UNCHANGED <<cloud, cycle>>
      BY DEF vars
    <3>2. Next /\ ~ Crash
      BY <3>1 DEF cloud, Crash
    <3> QED
      BY <3>2, QuietStepTaken
  <2>2. PICK p \in Paths : pc[c] = "delete" /\ IsHead(c, p) /\ d = plan[c][p].doc
    BY <2>1, CycleDeletes
  <2>3. plan[c][p] # None /\ plan[c][p].kind = "delete_remote"
    BY <2>2 DEF IsHead, HeadKind, KindAt
  <2>4. local[p] = Absent /\ tracked[p] # None /\ tracked[p].doc = d
    BY <2>1, <2>2, <2>3 DEF PlansStand, PlanStands
  <2>5. tracked[p] \in Entry
    BY <2>4
  <2> QED
    BY <2>4, <2>5 DEF Entry
<1> QED
  BY <1>1, <1>2, InitQuiet, PTL DEF Spec, DeletesOnlyRemoved

\* And it moves a file to the trash only while no document is at its path.
THEOREM TrashesOnlyDeletedHolds == Spec => TrashesOnlyDeleted
<1>1. QuietInv /\ [Next]_vars => QuietInv'
  BY QuietStays
<1>2. QuietInv /\ [Next]_vars =>
        \A p \in Paths :
          local[p] # Absent /\ local'[p] = Absent /\ QuietStep => LiveAt(p) = {}
  <2> SUFFICES ASSUME QuietInv, [Next]_vars, NEW p \in Paths,
                      local[p] # Absent, local'[p] = Absent, QuietStep
               PROVE  LiveAt(p) = {}
    OBVIOUS
  <2> USE DEF QuietInv, CycleInv, TypeInv, TypeOK
  <2>1. PICK c \in Cycles : CycleStep(c) /\ (pc[c] = "idle" \/ c \in Quiet)
    <3>1. Next \/ UNCHANGED <<disk, cycle>>
      BY DEF vars
    <3>2. Next /\ ~ Crash
      BY <3>1 DEF disk, Crash
    <3> QED
      BY <3>2, QuietStepTaken
  <2>2. ASSUME NEW q \in Paths, PullStore(c, q) PROVE FALSE
    <3>1. text[c] # Absent
      BY FolderSyncAssumption DEF CycleOK
    <3> QED
      BY <2>2, <3>1 DEF PullStore, DiskOK
  <2>3. DeleteLocal(c, p)
    <3>1. PICK q \in Paths : DeleteLocal(c, q)
      BY <2>1, <2>2, CycleWritesFile
    <3> QED
      BY <3>1 DEF DeleteLocal, DiskOK, disk
  <2>4. plan[c][p] # None /\ plan[c][p].kind = "delete_local" /\ pc[c] # "idle"
    BY <2>3 DEF DeleteLocal, Planned, IsHead, At
  <2> QED
    BY <2>1, <2>4 DEF PlansStand, PlanStands
<1> QED
  BY <1>1, <1>2, InitQuiet, PTL DEF Spec, TrashesOnlyDeleted

-----------------------------------------------------------------------------
(* A cycle that is not disturbed: the documents it makes.                  *)

\* The action at p has made its document.
Made(c, p) == IsHead(c, p) /\ pc[c] \in {"write", "record"}

\* Where a file is still to be pushed as a new one there is no document, but
\* those of whose creation nobody was told.
NewAlone ==
  \A c \in Quiet, p \in Paths :
    plan[c][p] # None =>
      (plan[c][p].kind = "push_new" /\ ~ Made(c, p) => LiveAt(p) \subseteq unanswered)

NewInv == QuietInv /\ NewAlone

\* A file whose document is made stays so to the end of its action.
LEMMA MadeStays ==
  ASSUME CycleInv, NEW c \in Cycles, CycleStep(c), NEW p \in Paths, Made(c, p),
         plan'[c][p] # None
  PROVE  Made(c, p)'
<1> USE DEF CycleInv, TypeInv, TypeOK, CycleOK
<1>1. IsHead(c, p) /\ pc[c] \in {"write", "record"}
  BY DEF Made
<1>2. ASSUME NEW q \in Paths, WriteNew(c, q) \/ WriteLost(c, q) PROVE Made(c, p)'
  BY <1>1, <1>2 DEF WriteNew, WriteLost, Goto, Made, IsHead
<1>3. ASSUME NEW q \in Paths, Record(c, q) PROVE FALSE
  <2>1. q = p
    BY <1>1, <1>3, HeadIsOne DEF Record
  <2> QED
    BY <1>3, <2>1, CycleEnds
<1> QED
  BY <1>1, <1>2, <1>3
     DEF CycleStep, ActionStep, Begin, FetchMeta, FetchFailed, Reconcile, Finish, CreateFailed,
         DeleteFailed, ReadHash, StartPush, PushMissing, CreateDoc, CreateRetried,
         Shake, UpdateDoc, StartPull, PullRead, PullRefused, PullStore, StartDelete,
         DeleteRemote, DeleteLocal, StartConflict, WriteSidecar, Untrack, Planned, At

\* The document of an action is made once, and then it is the action's.
LEMMA CreateMakes ==
  ASSUME CycleInv, NEW c \in Cycles, NEW p \in Paths, CreateDoc(c, p)
  PROVE  /\ Made(c, p)' /\ ~ Made(c, p)
         /\ plan[c][p] # None /\ plan[c][p].kind = "push_new"
         /\ \A q \in Paths : IsHead(c, q)' => q = p
         /\ \E d \in FreshDocs :
              AddDoc(d, p) /\ plan'[c][p].doc = d /\ held' = held \cup {<<d, text[c]>>}
<1> USE DEF CycleInv, TypeInv, TypeOK, CycleOK
<1>1. PICK d \in FreshDocs :
        /\ AddDoc(d, p)
        /\ plan' = [plan EXCEPT ![c][p].doc = d]
        /\ held' = held \cup {<<d, text[c]>>}
  BY DEF CreateDoc
<1>2. /\ IsHead(c, p) /\ pc[c] = "create"
      /\ plan[c][p] \in Action /\ plan[c][p].kind = "push_new"
  BY DEF CreateDoc, At, IsHead, HeadKind, KindAt
<1>3. plan'[c][p] \in Action /\ plan'[c][p].doc = d
  BY <1>1, <1>2 DEF Action, FreshDocs
<1>4. \A r \in Paths : plan'[c][r] # None <=> plan[c][r] # None
  BY <1>1, <1>2, <1>3, FolderSyncAssumption
<1>5. \A q \in Paths : IsHead(c, q)' <=> IsHead(c, q)
  BY <1>4 DEF IsHead
<1>6. pc'[c] \in {"write", "record"}
  BY DEF CreateDoc, Goto
<1> QED
  BY <1>1, <1>2, <1>3, <1>5, <1>6, HeadIsOne DEF Made, IsHead

\* A step that creates no document of its own leaves, where there was none but
\* of whose creation nobody was told, no other.
LEMMA UnansweredOnly ==
  ASSUME TypeInv, NEW c \in Cycles, CycleStep(c), NEW p \in Paths, ~ CreateDoc(c, p),
         LiveAt(p) \subseteq unanswered
  PROVE  LiveAt(p)' \subseteq unanswered'
<1> USE DEF TypeInv, TypeOK
<1>1. CASE CreateRetried(c, p)
  BY <1>1 DEF CreateRetried, AddDoc, FreshDocs, LiveAt, CloudOK
<1>2. CASE ~ CreateRetried(c, p)
  <2>1. LiveAt(p)' \subseteq LiveAt(p)
    BY <1>2, CycleLive
  <2>2. unanswered \subseteq unanswered'
    BY DEF CycleStep, ActionStep, Begin, FetchMeta, FetchFailed, Reconcile, Finish, CreateFailed,
           WriteLost, DeleteFailed, ReadHash, StartPush, PushMissing, CreateDoc, CreateRetried,
           WriteNew, Shake, UpdateDoc, StartPull, PullRead, PullRefused, PullStore, StartDelete,
           DeleteRemote, DeleteLocal, StartConflict, WriteSidecar, Record, Untrack, history
  <2> QED
    BY <2>1, <2>2
<1> QED
  BY <1>1, <1>2

LEMMA NewStays ==
  ASSUME NewInv, [Next]_vars
  PROVE  NewInv'
<1> USE DEF NewInv
<1>1. QuietInv'
  BY QuietStays
<1>2. CASE Next
  <2> USE DEF QuietInv, CycleInv, TypeInv, TypeOK
  <2> SUFFICES ASSUME NEW c \in Quiet', NEW p \in Paths, plan'[c][p] # None,
                      plan'[c][p].kind = "push_new", ~ Made(c, p)'
               PROVE  LiveAt(p)' \subseteq unanswered'
    BY <1>1 DEF NewAlone
  <2>1. c \in Cycles /\ CycleStep(c) /\ (Begin(c) \/ c \in Quiet)
    BY <1>2, QuietSteps
  <2>2. pc[c] # "idle" => c \in Quiet
    BY <2>1 DEF Begin, At
  <2>3. CASE Reconcile(c)
    <3>1. plan'[c][p] = DecideAction(scan[c][p], tracked[p], view[c][p], hash[c][p])
      BY <2>1, <2>3 DEF Reconcile, CycleOK
    <3>2. tracked[p] \in Entry \cup {None} /\ view[c][p] \in Docs \cup {None}
      BY <2>1 DEF CycleOK
    <3>3. view[c][p] = None
      BY <3>1, <3>2, DecidesKind
    <3>4. LiveAt(p) = {}
      BY <2>2, <2>3, <3>3, FolderSyncAssumption DEF Reconcile, At, Viewed, LiveAt
    <3> QED
      BY <2>3, <3>4 DEF Reconcile, LiveAt, cloud
  <2>4. CASE ~ Reconcile(c)
    <3>1. plan[c][p] # None /\ plan[c][p].kind = "push_new"
      BY <2>1, <2>4, CyclePlans
    <3>2. ~ CreateDoc(c, p) /\ ~ Made(c, p)
      BY <2>1, CreateMakes, MadeStays
    <3>3. c \in Quiet
      BY <2>1, <2>2, <3>1 DEF PlanAtWork, NoneAt
    <3>4. LiveAt(p) \subseteq unanswered
      BY <3>1, <3>2, <3>3 DEF NewAlone
    <3> QED
      BY <2>1, <3>2, <3>4, UnansweredOnly
  <2> QED
    BY <2>3, <2>4
<1>3. CASE UNCHANGED vars
  BY <1>1, <1>3 DEF vars, cycle, disk, cloud, history, NewAlone, Made, IsHead, LiveAt, Quiet
<1> QED
  BY <1>2, <1>3

LEMMA InitNew == Init => NewInv
BY InitQuiet DEF Init, NewInv, NewAlone, Quiet

\* Whatever cycles overlap, a cycle during which no other one ran and nobody
\* edited makes no second document of a path of the folder, wherever earlier
\* ones were killed between making a document and saving its entry; but beside
\* one whose creation was not answered and therefore asked for again.
THEOREM OneDocPerPathHolds == Spec => OneDocPerPath
<1>1. NewInv /\ [Next]_vars => NewInv'
  BY NewStays
<1>2. NewInv /\ [Next]_vars =>
        \A d \in Docs :
          ~docLive[d] /\ docLive'[d] /\ QuietStep => LiveAt(docAt'[d]) \subseteq unanswered
  <2> SUFFICES ASSUME NewInv, [Next]_vars, NEW d \in Docs,
                      ~docLive[d], docLive'[d], QuietStep
               PROVE  LiveAt(docAt'[d]) \subseteq unanswered
    OBVIOUS
  <2> USE DEF NewInv, QuietInv, CycleInv, TypeInv, TypeOK
  <2>1. PICK c \in Cycles : CycleStep(c) /\ (pc[c] = "idle" \/ c \in Quiet)
    <3>1. Next \/ UNCHANGED <<cloud, cycle>>
      BY DEF vars
    <3>2. Next /\ ~ Crash
      BY <3>1 DEF cloud, Crash
    <3> QED
      BY <3>2, QuietStepTaken
  <2>2. PICK p \in Paths : CreateDoc(c, p) \/ CreateRetried(c, p)
    <3>1. ASSUME NEW p \in Paths, DeleteRemote(c, p) \/ DeleteFailed(c, p) PROVE FALSE
      BY <3>1 DEF DeleteRemote, DeleteFailed, CloudOK
    <3> QED
      BY <2>1, <3>1
         DEF CycleStep, ActionStep, Begin, FetchMeta, FetchFailed, Reconcile, Finish,
             CreateFailed, WriteLost, ReadHash, StartPush, PushMissing, WriteNew, Shake,
             UpdateDoc, StartPull, PullRead, PullRefused, PullStore, StartDelete, DeleteLocal,
             StartConflict, WriteSidecar, Record, Untrack, cloud
  <2>3. docAt'[d] = p
    <3>1. PICK f \in FreshDocs : AddDoc(f, p)
      BY <2>2 DEF CreateDoc, CreateRetried
    <3> QED
      BY <3>1 DEF AddDoc, FreshDocs, CloudOK
  <2>4. /\ IsHead(c, p) /\ pc[c] = "create"
        /\ plan[c][p] # None /\ plan[c][p].kind = "push_new"
    BY <2>2 DEF CreateDoc, CreateRetried, At, IsHead, HeadKind, KindAt
  <2> QED
    BY <2>1, <2>3, <2>4 DEF NewAlone, Made
<1> QED
  BY <1>1, <1>2, InitNew, PTL DEF Spec, OneDocPerPath

-----------------------------------------------------------------------------
(* A cycle that is not disturbed: what it overwrites in the cloud.         *)

\* The content such a cycle compares an entry with is that of the document it
\* saw, unless the read failed.
Hashed ==
  \A c \in Quiet, p \in Paths :
    pc[c] \in {"hash", "decide"} /\ view[c][p] # None /\ tracked[p] # None =>
      p \in unread[c] \/ hash[c][p] \in ReadResult(view[c][p])

\* Only a document that was created has content, is listed, or is known to
\* the engine.
Created(d) == docAt[d] # None

OnlyCreated ==
  /\ \A d \in Docs : ~ Created(d) => docText[d] = Empty /\ ~ docLive[d]
  /\ \A p \in Paths : tracked[p] # None => Created(tracked[p].doc)
  /\ \A c \in Cycles, p \in Paths :
       /\ view[c][p] # None => Created(view[c][p])
       /\ plan[c][p] # None => (plan[c][p].doc # None => Created(plan[c][p].doc))

\* What any cycle sends or records is what the file had; so is the base of
\* every entry.
CarriedHeld ==
  \A c \in Cycles, p \in Paths :
    IsHead(c, p) /\ pc[c] \in {"write", "update", "send", "record"} =>
      <<plan[c][p].doc, text[c]>> \in held

BaseHeld == \A p \in Paths : tracked[p] # None => <<tracked[p].doc, tracked[p].hash>> \in held

\* A new document is still empty when its content is sent.
FilledNew ==
  \A c \in Quiet, p \in Paths :
    IsHead(c, p) /\ pc[c] = "write" => docText[plan[c][p].doc] = Empty

\* The file of document d had the content d has now.
Had(d) == docText[d] = Empty \/ <<d, docText[d]>> \in held

\* The file at q was synced as document d, and will be when the cycle ends.
Shared(c, q, d) ==
  /\ tracked[q] # None /\ tracked[q].doc = d
  /\ plan[c][q] # None => plan[c][q].kind = "push_update"

\* An update goes to the document of the entry.  If that is the one at the
\* path, it replaces what the file had, unless a failed read was taken for an
\* empty base, it has just been sent, or two files were synced as this document.
UpdateHad(c, p) ==
  plan[c][p].kind = "push_update" =>
    LET d == plan[c][p].doc
    IN  /\ tracked[p] # None /\ tracked[p].doc = d
        /\ Only(p, d) => \/ Had(d)
                         \/ "read" \in Failing /\ tracked[p].hash = Empty
                         \/ IsHead(c, p) /\ pc[c] = "record"
                         \/ \E q \in Paths \ {p} : Shared(c, q, d)

UpdatesHad == \A c \in Quiet, p \in Paths : plan[c][p] # None => UpdateHad(c, p)

HeldInv == QuietInv /\ OnlyCreated /\ CarriedHeld /\ BaseHeld

SeenInv == HeldInv /\ Hashed /\ FilledNew /\ UpdatesHad

\* A step of a cycle changes the content of a document by sending one to it.
LEMMA CycleSends ==
  ASSUME NEW c \in Cycles, CycleStep(c)
  PROVE  docText' = docText \/ \E p \in Paths : WriteNew(c, p) \/ UpdateDoc(c, p)
BY DEF CycleStep, ActionStep, Begin, FetchMeta, FetchFailed, Reconcile, Finish, CreateFailed,
       WriteLost, DeleteFailed, ReadHash, StartPush, PushMissing, CreateDoc, CreateRetried,
       Shake, StartPull, PullRead, PullRefused, PullStore, StartDelete, DeleteRemote,
       DeleteLocal, StartConflict, WriteSidecar, Record, Untrack, cloud

\* It sends to the document of the action.
LEMMA SendsToOne ==
  ASSUME TypeInv, NEW c \in Cycles, NEW p \in Paths, WriteNew(c, p) \/ UpdateDoc(c, p)
  PROVE  /\ plan[c][p].doc \in Docs /\ IsHead(c, p) /\ plan[c][p] # None
         /\ \A d \in Docs : d # plan[c][p].doc => docText'[d] = docText[d]
         /\ UNCHANGED <<tracked, docAt, plan, text, held>> /\ pc'[c] = "record"
<1> USE DEF TypeInv, TypeOK
<1>1. IsHead(c, p) /\ pc[c] \in {"write", "send"}
  BY DEF WriteNew, UpdateDoc, At
<1>2. plan[c][p].doc \in Docs /\ plan[c][p] # None
  BY <1>1 DEF HeadHasDoc, WithDoc, IsHead
<1>3. \/ docText' = docText
      \/ \E s : MergeText(plan[c][p].doc, s, text[c])
  BY DEF WriteNew, UpdateDoc
<1>4. \A d \in Docs : d # plan[c][p].doc => docText'[d] = docText[d]
  BY <1>3 DEF MergeText, CloudOK
<1>5. UNCHANGED <<tracked, docAt, plan, text, held>> /\ pc'[c] = "record"
  BY DEF WriteNew, UpdateDoc, history, Goto, CycleOK
<1> QED
  BY <1>1, <1>2, <1>4, <1>5

\* No step makes a file forget what it had.
LEMMA HeldGrows ==
  ASSUME Next
  PROVE  held \subseteq held'
<1>1. CASE Environment \/ Crash
  BY <1>1 DEF Crash, Environment, UserSave, UserRemove, WebEdit, WebCreate, WebDelete, WebReturn,
              WebRename
<1>2. ASSUME NEW c \in Cycles, CycleStep(c), ~ \E p \in Paths : ActionStep(c, p)
      PROVE  held' = held
  BY <1>2 DEF CycleStep, Begin, FetchMeta, FetchFailed, Reconcile, Finish, CreateFailed, history
<1>3. ASSUME NEW c \in Cycles, NEW p \in Paths, ActionStep(c, p)
      PROVE  held \subseteq held'
  BY <1>3 DEF ActionStep, ReadHash, StartPush, PushMissing, CreateDoc, CreateRetried, WriteNew,
              Shake, UpdateDoc, WriteLost, StartPull, PullRead, PullRefused, PullStore,
              StartDelete, DeleteRemote, DeleteFailed, DeleteLocal, StartConflict, WriteSidecar,
              Record, Untrack, history
<1> QED
  BY <1>1, <1>2, <1>3 DEF Next

\* A document that was created stays so; what was not is empty and unlisted.
LEMMA CreatedStays ==
  ASSUME TypeInv, OnlyCreated, Next
  PROVE  /\ \A d \in Docs : docAt[d] # None => docAt'[d] # None
         /\ \A d \in Docs : docAt'[d] = None => docText'[d] = Empty /\ ~ docLive'[d]
<1> USE DEF TypeInv, TypeOK, CloudOK
<1> DEFINE Goal ==
      /\ \A d \in Docs : docAt[d] # None => docAt'[d] # None
      /\ \A d \in Docs : docAt'[d] = None => docText'[d] = Empty /\ ~ docLive'[d]
<1>1. \A d \in Docs : docAt[d] = None => docText[d] = Empty /\ ~ docLive[d]
  BY DEF OnlyCreated, Created
<1>2. CASE UNCHANGED cloud
  BY <1>1, <1>2 DEF cloud
<1>3. ASSUME NEW d \in FreshDocs, NEW p \in Paths, AddDoc(d, p),
             UNCHANGED docText \/ \E t \in Texts : SetText(d, t)
      PROVE  Goal
  BY <1>1, <1>3, FolderSyncAssumption DEF AddDoc, FreshDocs, SetText
<1>4. ASSUME NEW d \in Docs, docAt[d] # None, UNCHANGED <<docAt, docLive>>,
             \A e \in Docs : e # d => docText'[e] = docText[e]
      PROVE  Goal
  BY <1>1, <1>4
<1>5. ASSUME NEW d \in Docs, NEW live \in BOOLEAN, docAt[d] # None \/ live = FALSE,
             docLive' = [docLive EXCEPT ![d] = live], UNCHANGED <<docAt, docText>>
      PROVE  Goal
  BY <1>1, <1>5
<1>6. CASE Environment
  <2>1. ASSUME NEW p \in Paths, NEW t \in Typed, WebCreate(p, t) PROVE Goal
    BY <1>3, <2>1 DEF WebCreate, Typed
  <2>2. ASSUME NEW d \in Docs, NEW t \in Typed, WebEdit(d, t) PROVE Goal
    <3>1. docAt[d] # None
      BY <1>1, <2>2 DEF WebEdit
    <3> QED
      BY <1>4, <2>2, <3>1 DEF WebEdit, SetText
  <2>3. ASSUME NEW d \in Docs, WebDelete(d) \/ WebReturn(d) PROVE Goal
    <3>1. docAt[d] # None
      BY <1>1, <2>3 DEF WebDelete, WebReturn
    <3> QED
      BY <1>5, <2>3, <3>1 DEF WebDelete, WebReturn
  <2>4. ASSUME NEW d \in Docs, NEW p \in Paths, WebRename(d, p) PROVE Goal
    BY <1>1, <2>4, FolderSyncAssumption DEF WebRename
  <2> QED
    BY <1>2, <1>6, <2>1, <2>2, <2>3, <2>4 DEF Environment, UserSave, UserRemove
<1>7. ASSUME NEW c \in Cycles, NEW p \in Paths, ActionStep(c, p)
      PROVE  Goal
  <2>1. CASE CreateDoc(c, p) \/ CreateRetried(c, p)
    BY <1>3, <2>1 DEF CreateDoc, CreateRetried
  <2>2. CASE WriteNew(c, p) \/ UpdateDoc(c, p)
    <3>1. /\ plan[c][p].doc \in Docs /\ docAt[plan[c][p].doc] # None
          /\ \A d \in Docs : d # plan[c][p].doc => docText'[d] = docText[d]
      BY <2>2, SendsToOne, FolderSyncAssumption DEF OnlyCreated, Created
    <3> QED
      BY <1>4, <2>2, <3>1 DEF WriteNew, UpdateDoc
  <2>3. CASE DeleteRemote(c, p) \/ DeleteFailed(c, p)
    <3>1. plan[c][p].doc \in Docs /\ docAt[plan[c][p].doc] # None
      <4>1. IsHead(c, p) /\ pc[c] = "delete"
        BY <2>3 DEF DeleteRemote, DeleteFailed, At
      <4>2. plan[c][p].doc \in Docs /\ plan[c][p] # None
        BY <4>1 DEF HeadHasDoc, WithDoc, IsHead
      <4> QED
        BY <4>2, FolderSyncAssumption DEF OnlyCreated, Created
    <3> QED
      BY <1>5, <2>3, <3>1 DEF DeleteRemote, DeleteFailed
  <2>4. CASE UNCHANGED cloud
    BY <1>2, <2>4
  <2> QED
    BY <1>7, <2>1, <2>2, <2>3, <2>4
       DEF ActionStep, ReadHash, StartPush, PushMissing, Shake, WriteLost, StartPull, PullRead,
           PullRefused, PullStore, StartDelete, DeleteLocal, StartConflict, WriteSidecar, Record,
           Untrack
<1>8. ASSUME NEW c \in Cycles, CycleStep(c), ~ \E p \in Paths : ActionStep(c, p)
      PROVE  UNCHANGED cloud
  BY <1>8 DEF CycleStep, Begin, FetchMeta, FetchFailed, Reconcile, Finish, CreateFailed
<1>9. CASE Crash
  BY <1>2, <1>9 DEF Crash
<1> QED
  BY <1>2, <1>6, <1>7, <1>8, <1>9 DEF Next

\* Nobody but a cycle knows a document, and it learns of it when it is there.
LEMMA CreatedStep ==
  ASSUME HeldInv, TypeInv', Next
  PROVE  OnlyCreated'
<1> USE DEF HeldInv, QuietInv, CycleInv, TypeInv, TypeOK
<1>1. /\ \A d \in Docs : docAt[d] # None => docAt'[d] # None
      /\ \A d \in Docs : docAt'[d] = None => docText'[d] = Empty /\ ~ docLive'[d]
  BY CreatedStays
<1>2. ASSUME NEW p \in Paths, tracked[p] # None
      PROVE  tracked[p].doc \in Docs /\ docAt'[tracked[p].doc] # None
  <2>1. tracked[p].doc \in Docs
    BY <1>2 DEF Entry
  <2>2. docAt[tracked[p].doc] # None
    BY <1>2 DEF OnlyCreated, Created
  <2> QED
    BY <1>1, <2>1, <2>2
<1>3. ASSUME NEW c \in Cycles, NEW p \in Paths, plan[c][p] # None, plan[c][p].doc # None
      PROVE  plan[c][p].doc \in Docs /\ docAt'[plan[c][p].doc] # None
  <2>1. plan[c][p] \in Action
    BY <1>3 DEF CycleOK
  <2>2. plan[c][p].doc \in Docs
    BY <1>3, <2>1 DEF Action
  <2>3. docAt[plan[c][p].doc] # None
    BY <1>3 DEF OnlyCreated, Created
  <2> QED
    BY <1>1, <2>2, <2>3
<1>4. ASSUME NEW c \in Cycles, NEW p \in Paths, view[c][p] # None
      PROVE  docAt'[view[c][p]] # None
  <2>1. view[c][p] \in Docs /\ docAt[view[c][p]] # None
    BY <1>4 DEF CycleOK, OnlyCreated, Created
  <2> QED
    BY <1>1, <2>1
<1>5. ASSUME NEW p \in Paths, tracked'[p] # None PROVE docAt'[tracked'[p].doc] # None
  <2>1. CASE tracked'[p] = tracked[p]
    BY <1>2, <1>5, <2>1
  <2>2. ASSUME NEW c \in Cycles, Record(c, p) PROVE docAt'[tracked'[p].doc] # None
    <3>1. plan[c][p] # None /\ plan[c][p].doc \in Docs /\ tracked'[p].doc = plan[c][p].doc
      BY <2>2 DEF Record, At, IsHead, HeadHasDoc, WithDoc
    <3> QED
      BY <1>3, <3>1, FolderSyncAssumption
  <2>3. ASSUME NEW c \in Cycles, Untrack(c, p) PROVE FALSE
    BY <1>5, <2>3 DEF Untrack
  <2>4. CASE Environment \/ Crash
    BY <2>1, <2>4 DEF Environment, Crash, UserSave, UserRemove, WebEdit, WebCreate, WebDelete,
                      WebReturn, WebRename
  <2> QED
    BY <2>1, <2>2, <2>3, <2>4, CycleTracks DEF Next
<1>6. ASSUME NEW c \in Cycles, CycleStep(c), NEW p \in Paths, plan'[c][p] # None,
             plan'[c][p].doc # None
      PROVE  docAt'[plan'[c][p].doc] # None
  <2>1. CASE Reconcile(c)
    <3> DEFINE e == tracked[p]
               d == view[c][p]
    <3>1. plan'[c][p] = DecideAction(scan[c][p], e, d, hash[c][p])
      BY <2>1 DEF Reconcile, CycleOK
    <3>2. plan'[c][p].doc \in {None, d} \/ (e # None /\ plan'[c][p].doc = e.doc)
      BY <1>6, <3>1 DEF DecideAction
    <3> QED
      BY <1>2, <1>4, <1>6, <3>2
  <2>2. CASE CreateDoc(c, p)
    <3>1. PICK d \in FreshDocs : AddDoc(d, p) /\ plan'[c][p].doc = d
      BY <2>2, CreateMakes
    <3> QED
      BY <3>1, FolderSyncAssumption DEF AddDoc, FreshDocs, CloudOK
  <2>3. CASE ~ Reconcile(c) /\ ~ CreateDoc(c, p)
    BY <1>3, <1>6, <2>3, CyclePlans
  <2> QED
    BY <2>1, <2>2, <2>3
<1>7. ASSUME NEW c \in Cycles, CycleStep(c), NEW p \in Paths, view'[c][p] # None
      PROVE  docAt'[view'[c][p]] # None
  <2>1. CASE FetchMeta(c)
    <3>1. PICK v \in [Paths -> Docs \cup {None}] :
            /\ IF LiveAt(p) = {} THEN v[p] = None ELSE v[p] \in LiveAt(p)
            /\ view' = [view EXCEPT ![c] = v]
      BY <2>1 DEF FetchMeta
    <3>2. view'[c][p] \in LiveAt(p) /\ docAt' = docAt
      BY <1>7, <2>1, <3>1 DEF FetchMeta, CycleOK, cloud
    <3> QED
      BY <3>2, FolderSyncAssumption DEF LiveAt
  <2>2. CASE view'[c] = view[c]
    BY <1>4, <1>7, <2>2
  <2>3. CASE view'[c] = NoneAt
    BY <1>7, <2>3 DEF NoneAt
  <2> QED
    BY <1>7, <2>1, <2>2, <2>3
       DEF CycleOK, CycleStep, ActionStep, Begin, FetchFailed, Reconcile, Finish, CreateFailed,
           WriteLost, DeleteFailed, ReadHash, StartPush, PushMissing, CreateDoc, CreateRetried,
           WriteNew, Shake, UpdateDoc, StartPull, PullRead, PullRefused, PullStore, StartDelete,
           DeleteRemote, DeleteLocal, StartConflict, WriteSidecar, Record, Untrack, Abort,
           NextAction, cycle
<1>8. ASSUME NEW b \in Cycles, NEW p \in Paths
      PROVE  /\ view'[b][p] # None => docAt'[view'[b][p]] # None
             /\ plan'[b][p] # None => (plan'[b][p].doc # None => docAt'[plan'[b][p].doc] # None)
  <2>1. CASE view'[b] = view[b] /\ plan'[b] = plan[b]
    BY <1>3, <1>4, <2>1
  <2>2. CASE Environment
    BY <2>1, <2>2 DEF Environment, UserSave, UserRemove, WebEdit, WebCreate, WebDelete, WebReturn,
                      WebRename, cycle
  <2>3. CASE Crash
    BY <2>3 DEF Crash, NoneAt
  <2>4. ASSUME NEW c \in Cycles, CycleStep(c), c # b
        PROVE  view'[b] = view[b] /\ plan'[b] = plan[b]
    BY <2>4, OthersStay
  <2> QED
    BY <1>6, <1>7, <2>1, <2>2, <2>3, <2>4 DEF Next
<1> QED
  BY <1>1, <1>5, <1>8 DEF OnlyCreated, Created

\* A cycle sends and records only what it read from the file, or stored in it.
LEMMA CarriedHeldStep ==
  ASSUME HeldInv, NEW c \in Cycles, CycleStep(c), NEW p \in Paths, IsHead(c, p)',
         held \subseteq held', pc'[c] \in {"write", "update", "send", "record"}
  PROVE  <<plan'[c][p].doc, text'[c]>> \in held'
<1> USE DEF HeldInv, QuietInv, CycleInv, TypeInv, TypeOK, CycleOK
<1>1. ASSUME NEW q \in Paths, StartPush(c, q), plan[c][q].kind = "push_update"
      PROVE  <<plan'[c][p].doc, text'[c]>> \in held'
  <2>1. IsHead(c, q) /\ IsHead(c, p) /\ plan' = plan
    BY <1>1 DEF StartPush, Planned, IsHead
  <2>2. p = q
    BY <2>1, HeadIsOne
  <2> QED
    BY <1>1, <2>1, <2>2 DEF StartPush, Goto
<1>2. ASSUME NEW q \in Paths,
             WriteNew(c, q) \/ Shake(c, q) \/ UpdateDoc(c, q) \/ WriteLost(c, q)
      PROVE  <<plan'[c][p].doc, text'[c]>> \in held'
  <2>1. /\ pc[c] \in {"write", "update", "send"} /\ plan' = plan /\ text' = text
    BY <1>2 DEF WriteLost, WriteNew, Shake, UpdateDoc, At
  <2>2. IsHead(c, p)
    BY <2>1 DEF IsHead
  <2> QED
    BY <2>1, <2>2 DEF CarriedHeld
<1>3. ASSUME NEW q \in Paths, PullStore(c, q)
      PROVE  <<plan'[c][p].doc, text'[c]>> \in held'
  <2>1. IsHead(c, q) /\ IsHead(c, p) /\ plan' = plan
    BY <1>3 DEF PullStore, IsHead
  <2>2. p = q
    BY <2>1, HeadIsOne
  <2> QED
    BY <1>3, <2>1, <2>2 DEF PullStore, Goto
<1>4. ASSUME NEW q \in Paths, CreateDoc(c, q)
      PROVE  <<plan'[c][p].doc, text'[c]>> \in held'
  <2>1. p = q
    BY <1>4, CreateMakes
  <2>2. PICK d \in FreshDocs : plan'[c][p].doc = d /\ held' = held \cup {<<d, text[c]>>}
    BY <1>4, <2>1, CreateMakes
  <2>3. text' = text
    BY <1>4 DEF CreateDoc
  <2> QED
    BY <2>2, <2>3
<1>5. ASSUME NEW q \in Paths, StartPush(c, q), plan[c][q].kind # "push_update"
      PROVE  FALSE
  BY <1>5 DEF StartPush, Planned, Pushes, Goto
<1> QED
  BY <1>1, <1>2, <1>3, <1>4, <1>5
     DEF CycleStep, ActionStep, Begin, FetchMeta, FetchFailed, Reconcile, Finish, CreateFailed,
         DeleteFailed, ReadHash, PushMissing, CreateRetried, StartPull, PullRead, PullRefused,
         StartDelete, DeleteRemote, DeleteLocal, StartConflict, WriteSidecar, Record, Untrack,
         Goto, Abort, NextAction, At, cycle

\* The base of an entry is recorded from what the file had.
LEMMA BaseHeldStep ==
  ASSUME HeldInv, NEW c \in Cycles, CycleStep(c), NEW p \in Paths, tracked'[p] # None,
         held \subseteq held'
  PROVE  <<tracked'[p].doc, tracked'[p].hash>> \in held'
<1> USE DEF HeldInv, QuietInv, CycleInv, TypeInv, TypeOK
<1>1. CASE tracked'[p] = tracked[p]
  BY <1>1 DEF BaseHeld
<1>2. CASE Record(c, p)
  <2>1. <<plan[c][p].doc, text[c]>> \in held
    BY <1>2 DEF Record, At, CarriedHeld
  <2>2. tracked'[p] = [doc |-> plan[c][p].doc, hash |-> text[c]]
    BY <1>2 DEF Record
  <2> QED
    BY <2>1, <2>2
<1>3. CASE Untrack(c, p)
  BY <1>3 DEF Untrack
<1> QED
  BY <1>1, <1>2, <1>3, CycleTracks

LEMMA HeldStays ==
  ASSUME HeldInv, [Next]_vars
  PROVE  HeldInv'
<1>1. QuietInv'
  BY QuietStays DEF HeldInv
<1>2. CASE Next
  <2>1. held \subseteq held'
    BY <1>2, HeldGrows
  <2>2. OnlyCreated'
    BY <1>1, <1>2, CreatedStep DEF QuietInv, CycleInv
  <2>3. ASSUME NEW b \in Cycles, NEW p \in Paths, IsHead(b, p)',
               pc'[b] \in {"write", "update", "send", "record"}
        PROVE  <<plan'[b][p].doc, text'[b]>> \in held'
    <3>1. CASE pc'[b] = pc[b] /\ plan'[b] = plan[b] /\ text'[b] = text[b]
      <4>1. IsHead(b, p)
        BY <2>3, <3>1 DEF IsHead
      <4> QED
        BY <2>1, <2>3, <3>1, <4>1 DEF HeldInv, CarriedHeld
    <3>2. CASE Environment
      BY <3>1, <3>2 DEF Environment, UserSave, UserRemove, WebEdit, WebCreate, WebDelete,
                        WebReturn, WebRename, cycle
    <3>3. CASE Crash
      BY <2>3, <3>3 DEF Crash
    <3>4. ASSUME NEW c \in Cycles, CycleStep(c), c # b
          PROVE  pc'[b] = pc[b] /\ plan'[b] = plan[b] /\ text'[b] = text[b]
      BY <3>4, OthersStay DEF HeldInv, QuietInv, CycleInv
    <3> QED
      BY <1>2, <2>1, <2>3, <3>1, <3>2, <3>3, <3>4, CarriedHeldStep DEF Next
  <2>4. ASSUME NEW p \in Paths, tracked'[p] # None
        PROVE  <<tracked'[p].doc, tracked'[p].hash>> \in held'
    <3>1. CASE Environment \/ Crash
      <4>1. tracked' = tracked
        BY <3>1 DEF Environment, Crash, UserSave, UserRemove, WebEdit, WebCreate, WebDelete,
                    WebReturn, WebRename
      <4> QED
        BY <2>1, <2>4, <4>1 DEF HeldInv, BaseHeld
    <3> QED
      BY <1>2, <2>1, <2>4, <3>1, BaseHeldStep DEF Next
  <2> QED
    BY <1>1, <2>2, <2>3, <2>4 DEF HeldInv, CarriedHeld, BaseHeld
<1>3. CASE UNCHANGED vars
  BY <1>1, <1>3 DEF vars, cycle, disk, cloud, history, HeldInv, OnlyCreated, Created, CarriedHeld,
                    BaseHeld, IsHead
<1> QED
  BY <1>2, <1>3

\* The reads of a cycle bring the contents compared.
LEMMA HashedStep ==
  ASSUME SeenInv, NEW c \in Cycles, CycleStep(c),
         Begin(c) \/ c \in Quiet, NEW p \in Paths,
         pc'[c] \in {"hash", "decide"}, view'[c][p] # None, tracked'[p] # None
  PROVE  p \in unread'[c] \/ hash'[c][p] \in ReadResult(view[c][p])'
<1> USE DEF SeenInv, HeldInv, QuietInv, CycleInv, TypeInv, TypeOK, CycleOK
<1>1. CASE FetchMeta(c)
  <2>1. PICK v \in [Paths -> Docs \cup {None}] :
          /\ view' = [view EXCEPT ![c] = v]
          /\ unread' = [unread EXCEPT ![c] =
               {q \in Paths : v[q] # None /\ (tracked[q] # None \/ scan[c][q] # Absent)}]
    BY <1>1 DEF FetchMeta
  <2> QED
    BY <1>1, <2>1 DEF FetchMeta
<1>2. ASSUME NEW q \in Paths, ReadHash(c, q)
      PROVE  p \in unread'[c] \/ hash'[c][p] \in ReadResult(view[c][p])'
  <2>1. /\ pc[c] = "hash" /\ view' = view /\ tracked' = tracked /\ docText' = docText
        /\ unread'[c] = unread[c] \ {q}
    BY <1>2 DEF ReadHash, At, cloud
  <2>2. PICK t \in ReadResult(view[c][q]) : hash' = [hash EXCEPT ![c][q] = t]
    BY <1>2 DEF ReadHash
  <2>3. c \in Quiet
    BY <2>1 DEF Begin, At
  <2> QED
    BY <2>1, <2>2, <2>3 DEF Hashed, ReadResult
<1> QED
  BY <1>1, <1>2
     DEF CycleStep, ActionStep, Begin, FetchFailed, Reconcile, Finish, CreateFailed,
         WriteLost, DeleteFailed, StartPush, PushMissing, CreateDoc, CreateRetried,
         WriteNew, Shake, UpdateDoc, StartPull, PullRead, PullRefused, PullStore, StartDelete,
         DeleteRemote, DeleteLocal, StartConflict, WriteSidecar, Record, Untrack,
         Goto, At, Abort, NextAction, cycle

\* A document whose first content is still to be sent has just been created.
LEMMA FilledNewStep ==
  ASSUME SeenInv, NEW c \in Cycles, CycleStep(c), NEW p \in Paths, IsHead(c, p)',
         pc'[c] = "write"
  PROVE  docText'[plan'[c][p].doc] = Empty
<1> USE DEF SeenInv, HeldInv, QuietInv, CycleInv, TypeInv, TypeOK, CycleOK
<1>1. ASSUME NEW q \in Paths, CreateDoc(c, q)
      PROVE  docText'[plan'[c][p].doc] = Empty
  <2>1. p = q
    BY <1>1, CreateMakes
  <2>2. PICK d \in FreshDocs : plan'[c][p].doc = d
    BY <1>1, <2>1, CreateMakes
  <2> QED
    BY <1>1, <2>2 DEF CreateDoc, FreshDocs, OnlyCreated, Created
<1> QED
  BY <1>1
     DEF CycleStep, ActionStep, Begin, FetchMeta, FetchFailed, Reconcile, Finish, CreateFailed,
         WriteLost, DeleteFailed, ReadHash, StartPush, PushMissing, CreateRetried, WriteNew,
         Shake, UpdateDoc, StartPull, PullRead, PullRefused, PullStore, StartDelete,
         DeleteRemote, DeleteLocal, StartConflict, WriteSidecar, Record, Untrack, Goto, Abort,
         NextAction, At, cycle

\* A step that makes no document at p leaves the only one there the only one.
LEMMA OnlyBefore ==
  ASSUME TypeInv, NEW c \in Cycles, CycleStep(c), NEW p \in Paths, NEW d \in Docs,
         ~ CreateDoc(c, p), ~ CreateRetried(c, p), Only(p, d)'
  PROVE  Only(p, d)
<1> USE DEF TypeInv, TypeOK, CloudOK
<1>1. ASSUME NEW q \in Paths, CreateDoc(c, q) \/ CreateRetried(c, q) PROVE Only(p, d)
  <2>1. PICK f \in FreshDocs : AddDoc(f, q)
    BY <1>1 DEF CreateDoc, CreateRetried
  <2>2. q # p /\ docAt[f] = None
    BY <1>1, <2>1 DEF FreshDocs
  <2>3. \A e \in Docs : docAt'[e] = p <=> docAt[e] = p
    BY <2>1, <2>2, FolderSyncAssumption DEF AddDoc, FreshDocs
  <2>4. d # f /\ docLive[d]
    BY <2>1, <2>2, <2>3, FolderSyncAssumption DEF AddDoc, FreshDocs, Only
  <2> QED
    BY <2>3, <2>4 DEF Only
<1>2. ASSUME NEW q \in Paths, DeleteRemote(c, q) \/ DeleteFailed(c, q) PROVE Only(p, d)
  <2>1. docAt' = docAt /\ (docLive'[d] => docLive[d])
    BY <1>2 DEF DeleteRemote, DeleteFailed
  <2> QED
    BY <2>1 DEF Only
<1>3. CASE UNCHANGED <<docAt, docLive>>
  BY <1>3 DEF Only
<1> QED
  BY <1>1, <1>2, <1>3
     DEF CycleStep, ActionStep, Begin, FetchMeta, FetchFailed, Reconcile, Finish, CreateFailed,
         WriteLost, ReadHash, StartPush, PushMissing, WriteNew, Shake, UpdateDoc, StartPull,
         PullRead, PullRefused, PullStore, StartDelete, DeleteLocal, StartConflict, WriteSidecar,
         Record, Untrack, cloud

\* What reconcile compared is what a planned update replaces.
LEMMA ReconcileHad ==
  ASSUME SeenInv, NEW c \in Quiet, Reconcile(c), NEW p \in Paths, plan'[c][p] # None
  PROVE  UpdateHad(c, p)'
<1> USE DEF SeenInv, HeldInv, QuietInv, CycleInv, TypeInv, TypeOK
<1> DEFINE e == tracked[p]
           d == view[c][p]
           h == hash[c][p]
<1> SUFFICES ASSUME plan'[c][p].kind = "push_update"
             PROVE  /\ tracked'[p] # None /\ tracked'[p].doc = plan'[c][p].doc
                    /\ Only(p, plan[c][p].doc)' =>
                         \/ Had(plan[c][p].doc)'
                         \/ "read" \in Failing /\ tracked'[p].hash = Empty
  BY DEF UpdateHad
<1>0. c \in Cycles
  BY DEF Quiet
<1>1. plan'[c][p] = DecideAction(scan[c][p], e, d, h)
  BY <1>0 DEF Reconcile, CycleOK
<1>2. e \in Entry \cup {None} /\ d \in Docs \cup {None} /\ h \in Texts \cup {None}
  BY <1>0 DEF CycleOK
<1>3. e # None /\ plan'[c][p].doc = e.doc /\ d # None /\ (h = None \/ h = e.hash)
  BY <1>1, <1>2, DecidesKind
<1>4. UNCHANGED <<tracked, docAt, docLive, docText, held>>
  BY DEF Reconcile, cloud, history
<1>5. ASSUME Only(p, e.doc) PROVE Had(e.doc) \/ ("read" \in Failing /\ e.hash = Empty)
  <2>1. d \in LiveAt(p)
    BY <1>0, <1>3, FolderSyncAssumption DEF Reconcile, At, Viewed, LiveAt
  <2>2. d = e.doc
    BY <1>5, <2>1 DEF LiveAt, Only
  <2>3. h \in ReadResult(d)
    <3>1. pc[c] = "decide" /\ unread[c] = {}
      BY <1>0 DEF Reconcile, At, ReadsSeen, CycleOK
    <3> QED
      BY <1>3, <3>1 DEF Hashed
  <2>4. h = e.hash
    <3>1. d \in Docs
      BY <2>1 DEF LiveAt
    <3>2. ReadResult(d) \subseteq Texts
      BY <3>1, ReadTyped
    <3> QED
      BY <1>3, <2>3, <3>2, FolderSyncAssumption
  <2>5. h = docText[d] \/ ("read" \in Failing /\ h = Empty)
    BY <2>3 DEF ReadResult
  <2> QED
    BY <1>3, <2>2, <2>4, <2>5 DEF BaseHeld, Had
<1> QED
  BY <1>3, <1>4, <1>5 DEF Only, Had

\* A file that was synced as document d, and will be, stays one through the
\* actions of the cycle.
LEMMA SharedStays ==
  ASSUME SeenInv, NEW c \in Quiet, CycleStep(c), ~ Reconcile(c), NEW q \in Paths, NEW d \in Docs,
         Shared(c, q, d)
  PROVE  Shared(c, q, d)'
<1> USE DEF SeenInv, HeldInv, QuietInv, CycleInv, TypeInv, TypeOK
<1>1. c \in Cycles
  BY DEF Quiet
<1>2. tracked[q] # None /\ tracked[q].doc = d
  BY DEF Shared
<1>3. tracked'[q] # None /\ tracked'[q].doc = d
  <2>1. ASSUME Record(c, q) PROVE tracked'[q] # None /\ tracked'[q].doc = d
    <3>1. plan[c][q] # None
      BY <2>1 DEF Record, IsHead
    <3>2. plan[c][q].doc = d
      BY <1>2, <3>1 DEF Shared, UpdatesHad, UpdateHad
    <3>3. tracked'[q] = [doc |-> d, hash |-> text[c]]
      BY <2>1, <3>2 DEF Record
    <3>4. tracked'[q] \in Entry
      <4>1. text[c] \in Texts
        BY <1>1 DEF CycleOK
      <4> QED
        BY <3>3, <4>1 DEF Entry
    <3> QED
      BY <3>3, <3>4, FolderSyncAssumption
  <2>2. ASSUME Untrack(c, q) PROVE FALSE
    <3>1. plan[c][q] # None /\ plan[c][q].kind \in {"delete_remote", "delete_local"}
      BY <1>1, <2>2 DEF Untrack, At, IsHead, HeadKind, KindAt
    <3> QED
      BY <3>1 DEF Shared
  <2> QED
    BY <1>1, <1>2, <2>1, <2>2, CycleTracks
<1>4. plan'[c][q] # None => plan'[c][q].kind = "push_update"
  BY <1>1, CyclePlans DEF Shared
<1> QED
  BY <1>3, <1>4 DEF Shared

\* It remains so until the update is sent.
LEMMA ActionHad ==
  ASSUME SeenInv, NEW c \in Quiet, CycleStep(c), ~ Reconcile(c), NEW p \in Paths,
         plan'[c][p] # None, held \subseteq held'
  PROVE  UpdateHad(c, p)'
<1> USE DEF SeenInv, HeldInv, QuietInv, CycleInv, TypeInv, TypeOK
<1> SUFFICES ASSUME plan'[c][p].kind = "push_update"
             PROVE  /\ tracked'[p] # None /\ tracked'[p].doc = plan'[c][p].doc
                    /\ Only(p, plan[c][p].doc)' =>
                         \/ Had(plan[c][p].doc)'
                         \/ "read" \in Failing /\ tracked'[p].hash = Empty
                         \/ (IsHead(c, p) /\ pc[c] = "record")'
                         \/ \E q \in Paths \ {p} : Shared(c, q, plan[c][p].doc)'
  BY DEF UpdateHad
<1>1. c \in Cycles
  BY DEF Quiet
<1>2. /\ plan[c][p] # None /\ plan[c][p].kind = "push_update"
      /\ plan'[c][p] = plan[c][p] /\ ~ CreateDoc(c, p)
  BY <1>1, CyclePlans, CreateMakes
<1>3. ~ CreateRetried(c, p)
  BY <1>1, <1>2 DEF CreateRetried, At, HeadKind, KindAt
<1>4. tracked'[p] = tracked[p] /\ tracked[p] # None /\ tracked[p].doc = plan[c][p].doc
  BY <1>1, <1>2, CycleTracks, CycleEnds DEF UpdatesHad, UpdateHad
<1>5. PICK d \in Docs : d = plan[c][p].doc
  BY <1>4 DEF Entry
<1>6. ASSUME Only(p, d)'
      PROVE  \/ Had(d) \/ ("read" \in Failing /\ tracked[p].hash = Empty)
             \/ IsHead(c, p) /\ pc[c] = "record"
             \/ \E q \in Paths \ {p} : Shared(c, q, d)
  <2>1. Only(p, d)
    BY <1>1, <1>2, <1>3, <1>5, <1>6, OnlyBefore
  <2> QED
    BY <1>2, <1>5, <2>1 DEF UpdatesHad, UpdateHad
<1>7. ASSUME IsHead(c, p), pc[c] = "record" PROVE FALSE
  <2>1. ASSUME NEW q \in Paths, Record(c, q) PROVE q = p
    BY <1>1, <1>7, <2>1, HeadIsOne DEF Record
  <2>2. \E q \in Paths : Record(c, q)
    BY <1>7
       DEF CycleStep, ActionStep, Begin, FetchMeta, FetchFailed, Reconcile, Finish, CreateFailed,
           WriteLost, DeleteFailed, ReadHash, StartPush, PushMissing, CreateDoc, CreateRetried,
           WriteNew, Shake, UpdateDoc, StartPull, PullRead, PullRefused, PullStore, StartDelete,
           DeleteRemote, DeleteLocal, StartConflict, WriteSidecar, Untrack, Planned, At
  <2> QED
    BY <1>1, <2>1, <2>2, CycleEnds
<1>8. ASSUME NEW q \in Paths \ {p}, Shared(c, q, d) PROVE Shared(c, q, d)'
  BY <1>5, <1>8, SharedStays
<1>9. ASSUME Had(d)
      PROVE  \/ docText'[d] = Empty \/ <<d, docText'[d]>> \in held'
             \/ (IsHead(c, p) /\ pc[c] = "record")'
             \/ \E q \in Paths \ {p} : Shared(c, q, d)'
  <2>1. CASE docText'[d] = docText[d]
    BY <1>9, <2>1 DEF Had
  <2>2. ASSUME NEW q \in Paths, WriteNew(c, q), plan[c][q].doc = d
        PROVE  docText'[d] = Empty \/ <<d, docText'[d]>> \in held'
    <3>1. IsHead(c, q) /\ pc[c] = "write"
      BY <2>2 DEF WriteNew, At
    <3>2. docText[d] = Empty
      BY <2>2, <3>1 DEF FilledNew
    <3>3. docText'[d] = text[c]
      BY <1>5, <2>2, <3>2 DEF WriteNew, MergeText, CloudOK
    <3>4. <<d, text[c]>> \in held
      BY <1>1, <2>2, <3>1 DEF CarriedHeld
    <3> QED
      BY <3>3, <3>4
  <2>3. ASSUME NEW q \in Paths, UpdateDoc(c, q), plan[c][q].doc = d, q # p
        PROVE  Shared(c, q, d)'
    <3>1. plan[c][q] # None /\ plan[c][q].kind = "push_update"
      BY <1>1, <2>3 DEF UpdateDoc, At, IsHead, HeadKind, KindAt
    <3>2. tracked[q] # None /\ tracked[q].doc = d
      BY <2>3, <3>1 DEF UpdatesHad, UpdateHad
    <3>3. Shared(c, q, d)
      BY <3>1, <3>2 DEF Shared
    <3> QED
      BY <1>5, <3>3, SharedStays
  <2>4. ASSUME UpdateDoc(c, p) PROVE (IsHead(c, p) /\ pc[c] = "record")'
    <3>1. IsHead(c, p) /\ plan' = plan /\ pc'[c] = "record"
      BY <1>1, <2>4, SendsToOne
    <3> QED
      BY <3>1 DEF IsHead
  <2> QED
    BY <1>1, <1>5, <2>1, <2>2, <2>3, <2>4, CycleSends, SendsToOne
<1> QED
  BY <1>2, <1>4, <1>5, <1>6, <1>7, <1>8, <1>9 DEF Had

LEMMA SeenStays ==
  ASSUME SeenInv, [Next]_vars
  PROVE  SeenInv'
<1>1. HeldInv'
  BY HeldStays DEF SeenInv
<1>2. CASE Next
  <2> SUFFICES ASSUME NEW c \in Quiet', NEW p \in Paths
               PROVE  /\ pc'[c] \in {"hash", "decide"} /\ view'[c][p] # None /\ tracked'[p] # None =>
                           p \in unread'[c] \/ hash'[c][p] \in ReadResult(view[c][p])'
                      /\ IsHead(c, p)' /\ pc'[c] = "write" => docText'[plan'[c][p].doc] = Empty
                      /\ plan'[c][p] # None => UpdateHad(c, p)'
    BY <1>1 DEF SeenInv, Hashed, FilledNew, UpdatesHad
  <2>1. c \in Cycles /\ CycleStep(c) /\ (Begin(c) \/ c \in Quiet)
    BY <1>2, QuietSteps DEF SeenInv, HeldInv, QuietInv, CycleInv
  <2>2. held \subseteq held'
    BY <1>2, HeldGrows
  <2>3. ASSUME plan'[c][p] # None PROVE c \in Quiet
    <3>1. ASSUME Begin(c) PROVE FALSE
      BY <2>1, <2>3, <3>1 DEF Begin, At, SeenInv, HeldInv, QuietInv, CycleInv, PlanAtWork, NoneAt
    <3> QED
      BY <2>1, <3>1
  <2>4. plan'[c][p] # None => UpdateHad(c, p)'
    BY <2>1, <2>2, <2>3, ReconcileHad, ActionHad
  <2> QED
    BY <2>1, <2>4, HashedStep, FilledNewStep
<1>3. CASE UNCHANGED vars
  BY <1>1, <1>3 DEF vars, cycle, disk, cloud, history, SeenInv, Hashed, FilledNew, UpdatesHad,
                    UpdateHad, Had, Shared, Only, Quiet, IsHead, ReadResult
<1> QED
  BY <1>2, <1>3

LEMMA InitSeen == Init => SeenInv
<1> SUFFICES ASSUME Init PROVE SeenInv
  OBVIOUS
<1>1. OnlyCreated /\ CarriedHeld /\ BaseHeld
  BY DEF Init, OnlyCreated, Created, CarriedHeld, BaseHeld, IsHead, NoneAt
<1>2. Hashed /\ FilledNew /\ UpdatesHad
  BY DEF Init, Hashed, FilledNew, UpdatesHad, Quiet
<1> QED
  BY <1>1, <1>2, InitQuiet DEF SeenInv, HeldInv

\* Whatever cycles overlap, a cycle during which no other one ran and nobody
\* edited replaces the content of a document that is where its files are only
\* after the file had that content, unless a read that failed was taken for an
\* empty base; requests of any kind may fail, transfers and answers be lost, and
\* the process be killed, at any step, and earlier cycles may have left anything.
THEOREM RemoteWorkKeptHolds == Spec => RemoteWorkKept
<1>1. SeenInv /\ [Next]_vars => SeenInv'
  BY SeenStays
<1>2. SeenInv /\ [Next]_vars =>
        \A d \in Docs :
          docText'[d] # docText[d] /\ QuietStep /\ docText[d] # Empty /\ Placed(d) =>
            <<d, docText[d]>> \in held \/ Misread(d)
  <2> SUFFICES ASSUME SeenInv, [Next]_vars, NEW d \in Docs,
                      docText'[d] # docText[d], QuietStep, docText[d] # Empty, Placed(d)
               PROVE  <<d, docText[d]>> \in held \/ Misread(d)
    OBVIOUS
  <2> USE DEF SeenInv, HeldInv, QuietInv, CycleInv
  <2>1. PICK c \in Cycles : CycleStep(c) /\ (pc[c] = "idle" \/ c \in Quiet)
    <3>1. Next \/ UNCHANGED <<cloud, cycle>>
      BY DEF vars
    <3>2. Next /\ ~ Crash
      BY <3>1 DEF cloud, Crash
    <3> QED
      BY <3>2, QuietStepTaken
  <2>2. PICK p \in Paths : WriteNew(c, p) \/ UpdateDoc(c, p)
    BY <2>1, CycleSends
  <2>3. d = plan[c][p].doc /\ IsHead(c, p) /\ plan[c][p] # None
    BY <2>2, SendsToOne
  <2>4. c \in Quiet
    BY <2>1, <2>2 DEF WriteNew, UpdateDoc, At
  <2>5. pc[c] = "send"
    BY <2>2, <2>3, <2>4 DEF WriteNew, UpdateDoc, At, FilledNew
  <2>6. plan[c][p].kind = "push_update"
    BY <2>3, <2>5 DEF HeadKind, KindAt
  <2>7. /\ tracked[p] # None /\ tracked[p].doc = d
        /\ Only(p, d) => \/ Had(d)
                         \/ "read" \in Failing /\ tracked[p].hash = Empty
                         \/ \E q \in Paths \ {p} : Shared(c, q, d)
    BY <2>3, <2>4, <2>5, <2>6 DEF UpdatesHad, UpdateHad
  <2>8. docAt[d] = p /\ Only(p, d)
    BY <2>7 DEF Placed
  <2>9. ASSUME NEW q \in Paths \ {p}, Shared(c, q, d) PROVE FALSE
    BY <2>8, <2>9 DEF Shared, Placed
  <2>10. tracked[p] = [doc |-> d, hash |-> tracked[p].hash]
    BY <2>7 DEF TypeInv, TypeOK, Entry
  <2> QED
    BY <2>7, <2>8, <2>9, <2>10 DEF Had, Misread
<1> QED
  BY <1>1, <1>2, InitSeen, PTL DEF Spec, RemoteWorkKept

=============================================================================
