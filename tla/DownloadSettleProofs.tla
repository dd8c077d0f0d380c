------------------------ MODULE DownloadSettleProofs ------------------------
(***************************************************************************)
(* The type invariant of DownloadManager, for every value of its constants.*)
(* How a task settles is final: in memory while the process runs, in the   *)
(* index on disk across saves, crashes and restarts.  The index lags the   *)
(* memory and a boot reloads it, so neither half is inductive alone.       *)
(* A task is at most once on its way: the proof of OnceInv, and NeverTwice *)
(* from it.  And every open task has a place: the proof of PlaceInv, and   *)
(* from it that no task is stranded, that a job at rest has the status of  *)
(* its tasks, and that an orderly shutdown leaves no task running on disk. *)
(* ToldInv says the same of the news: the end of a task was the last, or   *)
(* is still owed.                                                          *)
(***************************************************************************)
EXTENDS DownloadProperties, FiniteSetTheorems, SequenceTheorems, TLAPS

-----------------------------------------------------------------------------
(* What the helpers return.                                                *)

\* A task's blank record is a task record.
LEMMA BlankType == ASSUME NEW t \in Tasks PROVE Blank(t) \in TaskRecords
  <1>1. JobOf[t] \in Jobs
    BY PoolAssumption
  <1>2. FirstExt(JobOf[t]) \in Exts
    BY <1>1 DEF FirstExt, Exts
  <1>3. <<>> \in Seq(Nat)
    OBVIOUS
  <1> QED
    BY <1>2, <1>3 DEF Blank, TaskRecords, Status

\* Settling a task with a status, by choice or by cancellation, keeps it a record.
LEMMA SettledType ==
  ASSUME NEW tk \in TaskRecords, NEW s \in Status
  PROVE  Settled(tk, s) \in TaskRecords
  BY DEF Settled, TaskRecords

LEMMA ExtsExist == Zip \in Exts
  BY DEF Exts

\* A worker writes single fields of its task.
LEMMA FieldType ==
  ASSUME NEW tk \in TaskRecords, NEW s \in Status, NEW e \in Exts, NEW b \in BOOLEAN
  PROVE  /\ [tk EXCEPT !.status = s] \in TaskRecords
         /\ [tk EXCEPT !.ext = e] \in TaskRecords
         /\ [tk EXCEPT !.wrote = b] \in TaskRecords
         /\ [tk EXCEPT !.wroteMeta = b] \in TaskRecords
         /\ [tk EXCEPT !.wrote = b, !.ext = e] \in TaskRecords
  BY DEF TaskRecords

LEMMA ResolveType ==
  ASSUME NEW tk \in TaskRecords PROVE ResolveCancelled(tk) \in TaskRecords
  <1>1. {"queued", "cancelled"} \subseteq Status
    BY DEF Status, Terminal
  <1> QED
    BY <1>1, SettledType DEF ResolveCancelled

\* A collision suffix is one more number at the end of the stem.
LEMMA MovedType ==
  ASSUME NEW tk \in TaskRecords, NEW n \in 0..MaxSuffix
  PROVE  Moved(tk, n) \in TaskRecords
  <1>1. tk.suffix \in Seq(Nat) /\ n \in Nat
    BY BoundAssumption DEF TaskRecords
  <1>2. Suffixed(tk.suffix, n) \in Seq(Nat)
    BY <1>1 DEF Suffixed
  <1> QED
    BY <1>2 DEF Moved, TaskRecords

\* The paths of a task are paths.
LEMMA PathType ==
  ASSUME NEW t \in Tasks, NEW tk \in TaskRecords
  PROVE  FilePath(t, tk) \in Paths /\ FinalPath(t, tk) \in Paths /\ MetaPath(t, tk) \in Paths
  <1>1. JobOf[t] \in Jobs
    BY PoolAssumption
  <1>2. Name[t] \in Names /\ MediaExt[JobOf[t]] \in Exts
    BY <1>1 DEF Names, Exts
  <1>3. tk.suffix \in Seq(Nat) /\ tk.ext \in Exts
    BY DEF TaskRecords
  <1> QED
    BY <1>2, <1>3 DEF FilePath, FinalPath, MetaPath, Path, Paths

LEMMA WrittenPathsType ==
  ASSUME NEW ts \in SUBSET Tasks, NEW tk \in [Tasks -> TaskRecords]
  PROVE  WrittenPaths(ts, tk) \subseteq Paths
  BY PathType DEF WrittenPaths

\* A job's aggregate is a status.
LEMMA AggregateType ==
  ASSUME NEW tk, NEW j PROVE Aggregate(tk, j) \in Status
  BY DEF Aggregate, Status, Terminal

LEMMA SnapshotType ==
  ASSUME NEW js \in SUBSET Jobs, NEW tk \in [Tasks -> TaskRecords]
  PROVE  Snapshot(js, tk) \in [jobs : SUBSET Jobs, task : [Tasks -> TaskRecords]]
  BY BlankType DEF Snapshot

\* A walk over some tasks is a sequence of them.
LEMMA WalkType ==
  ASSUME NEW S \in SUBSET Tasks, NEW s \in Walks(S) PROVE s \in Seq(Tasks)
  <1>1. Cardinality(S) \in Nat
    BY PoolAssumption, FS_Subset, FS_CardinalityType
  <1>2. s \in [1..Cardinality(S) -> S]
    BY DEF Walks
  <1>3. s \in [1..Cardinality(S) -> Tasks]
    BY <1>2
  <1> QED
    BY <1>1, <1>3, SeqDef

\* Files come and go under paths.
DiskType(d) == DOMAIN d \subseteq Paths /\ \A p \in DOMAIN d : d[p] \in Tasks \cup {User}

LEMMA DiskWritten ==
  ASSUME DiskType(disk), NEW p \in Paths, NEW who \in Tasks \cup {User}
  PROVE  DiskType(Written(p, who))
  BY DEF DiskType, Written

LEMMA DiskWithout ==
  ASSUME DiskType(disk), NEW ps PROVE DiskType(Without(ps))
  BY DEF DiskType, Without

\* The workers' locals, and the two ways a step of a worker moves them on.
WkType == /\ wk \in [Workers -> Locals]
          /\ \A w \in Workers : wk[w].pc \notin {"idle", "exited"} => wk[w].task \in Tasks

LEMMA GotoType ==
  ASSUME WkType, NEW w \in Workers, NEW l \in Stages,
         T(w) \in Tasks \/ l \in {"idle", "exited"}, Goto(w, l)
  PROVE  WkType'
  BY DEF WkType, Locals, Goto, T

LEMMA IdleType ==
  ASSUME NEW x \in Tasks \cup {None}, NEW l \in Stages
  PROVE  [IdleWorker EXCEPT !.pc = l, !.task = x] \in Locals
  BY DEF IdleWorker, Locals, News, Stages

LEMMA EndType ==
  ASSUME WkType, NEW w \in Workers, T(w) \in Tasks, ToEnd(w) PROVE WkType'
  <1>1. [IdleWorker EXCEPT !.pc = "finalize", !.task = T(w)] \in Locals
    BY IdleType DEF Stages
  <1> QED
    BY <1>1 DEF WkType, ToEnd, IdleWorker

\* A worker at any stage but the idle ones holds a task.
LEMMA AtType ==
  ASSUME WkType, NEW w \in Workers, NEW l \in Stages \ {"idle", "exited"}, At(w, l)
  PROVE  T(w) \in Tasks /\ J(w) \in Jobs
  BY PoolAssumption DEF WkType, At, T, J

LEMMA SetTaskType ==
  ASSUME task \in [Tasks -> TaskRecords], NEW w \in Workers, NEW rec \in TaskRecords, SetTask(w, rec)
  PROVE  task' \in [Tasks -> TaskRecords]
  BY DEF SetTask

\* The rest of the state, which a worker's own steps leave alone.
CalmType ==
  /\ up \in BOOLEAN /\ stopping \in BOOLEAN
  /\ index \subseteq Jobs
  /\ jobStatus \in [Jobs -> Status]
  /\ queue \in Seq(Tasks)
  /\ sending \in [Senders -> Seq(Tasks)]
  /\ submit \in [Jobs -> {"new", "inserted", "done"}]
  /\ cancel \in [Jobs -> Cancels]
  /\ removing \subseteq SUBSET Jobs
  /\ taskNews \in [Tasks -> News]
  /\ jobNews \in [Jobs -> News]
  /\ acked \subseteq Jobs
  /\ used \in [crashes : Nat, stops : Nat, edits : Nat]
TasksType == task \in [Tasks -> TaskRecords]
StoreType == store \in [jobs : SUBSET Jobs, task : [Tasks -> TaskRecords]]

LEMMA TypeParts == TypeOK <=> CalmType /\ WkType /\ TasksType /\ StoreType /\ DiskType(disk)
  BY DEF TypeOK, CalmType, WkType, TasksType, StoreType, DiskType

LEMMA TypePartsNext == TypeOK' <=> CalmType' /\ WkType' /\ TasksType' /\ StoreType' /\ DiskType(disk)'
  BY DEF TypeOK, CalmType, WkType, TasksType, StoreType, DiskType

LEMMA ElsewhereType == CalmType /\ UNCHANGED Elsewhere => CalmType'
  BY DEF CalmType, Elsewhere, process, channels, handlers, news, history

LEMMA PersistType ==
  ASSUME index' \subseteq Jobs, TasksType', Persist PROVE StoreType'
  BY SnapshotType DEF TasksType, StoreType, Persist

-----------------------------------------------------------------------------
(* The initial state, and the steps that are not a worker's own.           *)

LEMMA TypeInit == Init => TypeOK
  <1> SUFFICES ASSUME Init PROVE TypeOK
    OBVIOUS
  <1>1. CalmType
    <2>1. NoCancel \in Cancels /\ None \in News /\ "queued" \in Status
      BY DEF NoCancel, Cancels, News, Status
    <2>2. <<>> \in Seq(Tasks)
      OBVIOUS
    <2> QED
      BY <2>1, <2>2 DEF Init, CalmType
  <1>2. WkType
    BY DEF Init, WkType, IdleWorker, Locals, Stages, News
  <1>3. TasksType /\ StoreType
    BY BlankType DEF Init, TasksType, StoreType
  <1>4. DiskType(disk)
    BY DEF Init, DiskType
  <1> QED
    BY <1>1, <1>2, <1>3, <1>4, TypeParts

LEMMA TypeSubmit ==
  ASSUME TypeOK, NEW j \in Jobs, SubmitInsert(j) \/ SubmitFinish(j) PROVE TypeOK'
  <1>1. CASE SubmitInsert(j)
    <2>1. TasksType'
      <3>1. PICK pick \in [TasksOf(j) -> 0..MaxSuffix] :
              task' = [t \in Tasks |-> IF t \in TasksOf(j) THEN Moved(task[t], pick[t]) ELSE task[t]]
        BY <1>1 DEF SubmitInsert
      <3> QED
        BY <3>1, MovedType DEF TypeOK, TasksType
    <2>2. CalmType'
      BY <1>1 DEF SubmitInsert, TypeOK, CalmType, process, channels, news, history
    <2>3. WkType' /\ StoreType' /\ DiskType(disk)'
      BY <1>1 DEF SubmitInsert, TypeOK, WkType, StoreType, DiskType
    <2> QED
      BY <2>1, <2>2, <2>3, TypePartsNext
  <1>2. CASE SubmitFinish(j)
    <2>1. sending' \in [Senders -> Seq(Tasks)]
      BY <1>2, WalkType DEF SubmitFinish, TypeOK, TasksOf
    <2>2. CalmType'
      BY <1>2, <2>1 DEF SubmitFinish, TypeOK, CalmType, process, memory, history, News, Status
    <2>3. TasksType' /\ WkType' /\ DiskType(disk)'
      BY <1>2 DEF SubmitFinish, TypeOK, TasksType, WkType, DiskType, memory
    <2>4. StoreType'
      BY <1>2, <2>2, <2>3, PersistType DEF SubmitFinish, CalmType
    <2> QED
      BY <2>2, <2>3, <2>4, TypePartsNext
  <1> QED
    BY <1>1, <1>2

LEMMA TypeSender ==
  ASSUME TypeOK, NEW g \in Senders, Send(g) \/ SendAbort(g) PROVE TypeOK'
  <1>1. queue' \in Seq(Tasks) /\ sending' \in [Senders -> Seq(Tasks)]
    <2>1. <<>> \in Seq(Tasks) /\ sending[g] \in Seq(Tasks)
      BY DEF TypeOK
    <2>2. sending[g] # <<>> => Head(sending[g]) \in Tasks /\ Tail(sending[g]) \in Seq(Tasks)
      BY <2>1, HeadTailProperties
    <2>3. CASE Send(g)
      BY <2>1, <2>2, <2>3 DEF Send, TypeOK
    <2>4. CASE SendAbort(g)
      BY <2>1, <2>4 DEF SendAbort, TypeOK
    <2> QED
      BY <2>3, <2>4
  <1> QED
    BY <1>1 DEF Send, SendAbort, TypeOK, process, memory, handlers, news, history

LEMMA TypeCancel ==
  ASSUME TypeOK, NEW j \in Jobs, CancelLock(j) \/ CancelPersist(j) \/ CancelFinish(j)
  PROVE  TypeOK'
  <1>1. CASE CancelLock(j)
    <2> DEFINE hit == {t \in TasksOf(j) : task[t].status \notin Terminal}
               tk == [t \in Tasks |-> IF t \in hit THEN Settled(task[t], "cancelled") ELSE task[t]]
               now == Aggregate(tk, j)
               doomed == IF now # jobStatus[j] /\ now \in {"failed", "cancelled"}
                         THEN WrittenPaths(TasksOf(j), tk) ELSE {}
               told == IF now # jobStatus[j] THEN now ELSE None
               entry == [pc |-> "persist", tasks |-> hit, doomed |-> doomed, news |-> told]
    <2>1. tk \in [Tasks -> TaskRecords]
      BY SettledType DEF TypeOK, Status, Terminal
    <2>2. now \in Status
      BY AggregateType
    <2>3. doomed \subseteq Paths
      <3>1. TasksOf(j) \in SUBSET Tasks
        BY DEF TasksOf
      <3> HIDE DEF tk, now
      <3> QED
        BY <3>1, <2>1, WrittenPathsType
    <2>4. entry \in Cancels
      <3>1. hit \subseteq Tasks /\ told \in News
        BY <2>2 DEF TasksOf, News
      <3> HIDE DEF doomed, told, hit
      <3> QED
        BY <3>1, <2>3 DEF Cancels
    <2>5. task' = tk /\ jobStatus' = [jobStatus EXCEPT ![j] = now] /\ cancel' = [cancel EXCEPT ![j] = entry]
      BY <1>1 DEF CancelLock
    <2> HIDE DEF hit, tk, now, doomed, told, entry
    <2>6. TasksType'
      BY <2>1, <2>5 DEF TasksType
    <2>7. CalmType'
      <3>1. jobStatus' \in [Jobs -> Status] /\ cancel' \in [Jobs -> Cancels]
        BY <2>2, <2>4, <2>5 DEF TypeOK
      <3> QED
        BY <1>1, <3>1 DEF CancelLock, TypeOK, CalmType, process, channels, news, history
    <2>8. WkType' /\ StoreType' /\ DiskType(disk)'
      BY <1>1 DEF CancelLock, TypeOK, WkType, StoreType, DiskType
    <2> QED
      BY <2>6, <2>7, <2>8, TypePartsNext
  <1>2. CASE CancelPersist(j)
    <2>1. CalmType'
      <3>1. cancel' \in [Jobs -> Cancels]
        <4>1. [cancel[j] EXCEPT !.pc = "clean"] \in Cancels
          <5>1. cancel[j] \in Cancels
            BY DEF TypeOK
          <5> QED
            BY <5>1 DEF Cancels
        <4> QED
          BY <1>2, <4>1 DEF CancelPersist, TypeOK
      <3> QED
        BY <1>2, <3>1 DEF CancelPersist, TypeOK, CalmType, process, memory, channels, news, history
    <2>2. TasksType' /\ WkType' /\ DiskType(disk)'
      BY <1>2 DEF CancelPersist, TypeOK, TasksType, WkType, DiskType, memory
    <2>3. StoreType'
      BY <1>2, <2>1, <2>2, PersistType DEF CancelPersist, CalmType
    <2> QED
      BY <2>1, <2>2, <2>3, TypePartsNext
  <1>3. CASE CancelFinish(j)
    <2>1. cancel[j] \in Cancels /\ NoCancel \in Cancels
      BY DEF TypeOK, NoCancel, Cancels, News
    <2>2. taskNews' \in [Tasks -> News] /\ jobNews' \in [Jobs -> News]
      BY <1>3, <2>1 DEF CancelFinish, TypeOK, Cancels, News, Status, Terminal
    <2>3. CalmType'
      BY <1>3, <2>1, <2>2 DEF CancelFinish, TypeOK, CalmType, process, memory, channels
    <2>4. TasksType' /\ WkType' /\ StoreType'
      BY <1>3 DEF CancelFinish, TypeOK, TasksType, WkType, StoreType, memory
    <2>5. DiskType(disk)'
      BY <1>3, TypeParts, DiskWithout DEF CancelFinish
    <2> QED
      BY <2>3, <2>4, <2>5, TypePartsNext
  <1> QED
    BY <1>1, <1>2, <1>3

LEMMA TypeRemove ==
  ASSUME TypeOK, NEW js \in SUBSET Jobs, Drop(js) \/ RemoveFinish(js) PROVE TypeOK'
  <1>1. CASE Drop(js)
    BY <1>1 DEF Drop, TypeOK, process, channels, news, history
  <1>2. CASE RemoveFinish(js)
    <2>1. CalmType'
      BY <1>2 DEF RemoveFinish, TypeOK, CalmType, process, memory, channels, history, News
    <2>2. TasksType' /\ WkType' /\ DiskType(disk)'
      BY <1>2 DEF RemoveFinish, TypeOK, TasksType, WkType, DiskType, memory
    <2>3. StoreType'
      BY <1>2, <2>1, <2>2, PersistType DEF RemoveFinish, CalmType
    <2> QED
      BY <2>1, <2>2, <2>3, TypePartsNext
  <1> QED
    BY <1>1, <1>2

LEMMA TypeProcess == ASSUME TypeOK, ProcessStep PROVE TypeOK'
  <1>1. ASSUME Gone PROVE WkType' /\ TasksType' /\ up' \in BOOLEAN /\ stopping' \in BOOLEAN
                          /\ index' \subseteq Jobs /\ jobStatus' \in [Jobs -> Status]
                          /\ queue' \in Seq(Tasks) /\ sending' \in [Senders -> Seq(Tasks)]
                          /\ submit' \in [Jobs -> {"new", "inserted", "done"}]
                          /\ cancel' \in [Jobs -> Cancels] /\ removing' \subseteq SUBSET Jobs
                          /\ taskNews' \in [Tasks -> News] /\ jobNews' \in [Jobs -> News]
    <2>1. WkType' /\ TasksType'
      BY <1>1, BlankType DEF Gone, WkType, TasksType, IdleWorker, Locals, Stages, News
    <2> QED
      <3>1. NoCancel \in Cancels /\ None \in News /\ "queued" \in Status
        BY DEF NoCancel, Cancels, News, Status
      <3>2. <<>> \in Seq(Tasks)
        OBVIOUS
      <3> QED
        BY <1>1, <2>1, <3>1, <3>2 DEF Gone
  <1>2. CASE Stop
    BY <1>2 DEF Stop, TypeOK, memory, channels, handlers, news
  <1>3. CASE Shutdown
    <2>1. Gone /\ used' \in [crashes : Nat, stops : Nat, edits : Nat] /\ UNCHANGED <<disk, acked>>
      BY <1>3 DEF Shutdown, TypeOK
    <2>2. StoreType'
      BY <1>3, SnapshotType DEF Shutdown, TypeOK, StoreType
    <2> QED
      BY <1>1, <2>1, <2>2 DEF TypeOK, WkType, TasksType, StoreType
  <1>4. CASE Crash
    <2>1. Gone /\ used' \in [crashes : Nat, stops : Nat, edits : Nat] /\ UNCHANGED <<disk, store, acked>>
      BY <1>4 DEF Crash, TypeOK
    <2> QED
      BY <1>1, <2>1 DEF TypeOK, WkType, TasksType
  <1>5. CASE Boot
    <2> DEFINE loaded == [t \in Tasks |-> Loaded(t)]
               known == {t \in Tasks : JobOf[t] \in store.jobs}
               todo == {t \in known : loaded[t].status \notin Terminal}
               moved == {t \in todo : ~loaded[t].wrote /\ ~loaded[t].wroteMeta}
    <2>1. loaded \in [Tasks -> TaskRecords]
      <3>1. \A t \in Tasks : store.task[t] \in TaskRecords
        BY DEF TypeOK
      <3>2. \A t \in Tasks : Loaded(t) \in TaskRecords
        BY <3>1 DEF Loaded, TaskRecords, Status
      <3> QED
        BY <3>2
    <2>2. PICK pick \in [moved -> 0..MaxSuffix] :
            task' = [t \in Tasks |-> IF t \in moved THEN Moved(loaded[t], pick[t]) ELSE loaded[t]]
      BY <1>5 DEF Boot
    <2>3. todo \in SUBSET Tasks
      OBVIOUS
    <2>4. PICK s \in Walks(todo) : sending' = [sending EXCEPT ![BootSender] = s]
      BY <1>5 DEF Boot
    <2>5. jobStatus' \in [Jobs -> Status]
      <3>1. jobStatus' = [j \in Jobs |-> IF j \in store.jobs THEN Aggregate(loaded, j) ELSE "queued"]
        BY <1>5 DEF Boot
      <3>2. "queued" \in Status
        BY DEF Status
      <3> HIDE DEF loaded
      <3> QED
        BY <3>1, <3>2, AggregateType
    <2> HIDE DEF loaded, todo, moved
    <2>6. sending' \in [Senders -> Seq(Tasks)]
      BY <2>3, <2>4, WalkType DEF TypeOK
    <2>7. TasksType'
      BY <2>1, <2>2, MovedType DEF TasksType
    <2>8. CalmType'
      BY <1>5, <2>5, <2>6 DEF Boot, TypeOK, CalmType, handlers, news, history
    <2>9. WkType' /\ DiskType(disk)'
      BY <1>5 DEF Boot, TypeOK, WkType, DiskType
    <2>10. StoreType'
      BY <1>5, <2>7, <2>8, PersistType DEF Boot, CalmType
    <2> QED
      BY <2>7, <2>8, <2>9, <2>10, TypePartsNext
  <1> QED
    BY <1>2, <1>3, <1>4, <1>5 DEF ProcessStep

LEMMA TypeUser == ASSUME TypeOK, UserStep PROVE TypeOK'
  <1>1. ASSUME NEW p \in DOMAIN disk, UserDeletes(p) PROVE TypeOK'
    <2>1. DiskType(disk)'
      BY <1>1, TypeParts, DiskWithout DEF UserDeletes
    <2>2. used' \in [crashes : Nat, stops : Nat, edits : Nat]
      BY <1>1 DEF UserDeletes, TypeOK
    <2> QED
      BY <1>1, <2>1, <2>2 DEF UserDeletes, TypeOK, DiskType, process, memory, channels, handlers, news
  <1>2. ASSUME NEW t \in Tasks, NEW p \in Claims(t, task[t]) \cup {ZipPath(t, task[t])}, UserPlaces(p)
        PROVE  TypeOK'
    <2>1. task[t] \in TaskRecords
      BY DEF TypeOK
    <2>2. ZipPath(t, task[t]) \in Paths
      BY <2>1 DEF ZipPath, Path, Paths, Names, Exts, TaskRecords
    <2>3. p \in Paths
      BY <2>1, <2>2, PathType DEF Claims
    <2>4. DiskType(disk)'
      BY <1>2, <2>3, TypeParts, DiskWritten DEF UserPlaces
    <2> QED
      BY <1>2, <2>4 DEF UserPlaces, TypeOK, DiskType, process, memory, channels, handlers, news
  <1> QED
    BY <1>1, <1>2 DEF UserStep

-----------------------------------------------------------------------------
(* The steps of a worker.                                                  *)

LEMMA TypeQueue == ASSUME TypeOK, NEW w \in Workers, QueueStep(w) PROVE TypeOK'
  <1> USE TypeParts
  <1>1. CASE Lease(w)
    <2> DEFINE t == Head(queue)
               j == JobOf[t]
    <2>1. t \in Tasks /\ Tail(queue) \in Seq(Tasks) /\ j \in Jobs
      BY <1>1, HeadTailProperties, PoolAssumption DEF Lease, TypeOK
    <2> HIDE DEF t
    <2>2. TasksType' /\ jobStatus' \in [Jobs -> Status] /\ WkType'
      <3>1. CASE task[t].status \in Terminal
        BY <1>1, <3>1 DEF Lease, TypeOK, TasksType, WkType, t
      <3>2. CASE task[t].status \notin Terminal
        <4> DEFINE n == IF j \in index /\ jobStatus[j] # "running" THEN "running" ELSE None
                   loc == [IdleWorker EXCEPT !.pc = "leased", !.task = t, !.news = n]
        <4>1. /\ task' = [task EXCEPT ![t].status = "running"]
              /\ jobStatus' = IF j \in index THEN [jobStatus EXCEPT ![j] = "running"] ELSE jobStatus
              /\ wk' = [wk EXCEPT ![w] = loc]
          BY <1>1, <3>2 DEF Lease, t
        <4>2. "running" \in Status /\ n \in News
          BY DEF Status, News
        <4>3. loc \in Locals /\ loc.task = t
          BY <2>1, <4>2 DEF IdleWorker, Locals, Stages, News
        <4>4. [task[t] EXCEPT !.status = "running"] \in TaskRecords
          BY <2>1, <4>2, FieldType, ExtsExist DEF TasksType
        <4> HIDE DEF loc, n
        <4>5. TasksType'
          BY <4>1, <4>4 DEF TypeOK, TasksType
        <4>6. jobStatus' \in [Jobs -> Status]
          BY <4>1, <4>2, <2>1 DEF TypeOK
        <4>7. WkType'
          BY <4>1, <4>3, <2>1 DEF WkType
        <4> QED
          BY <4>5, <4>6, <4>7
      <3> QED
        BY <3>1, <3>2
    <2>3. CalmType'
      BY <1>1, <2>1, <2>2 DEF Lease, CalmType, process, handlers, news, history, t
    <2>4. StoreType' /\ DiskType(disk)'
      BY <1>1 DEF Lease, StoreType, DiskType
    <2> QED
      BY <2>2, <2>3, <2>4, TypePartsNext
  <1>2. CASE AnnounceStart(w)
    <2>1. T(w) \in Tasks /\ J(w) \in Jobs
      BY <1>2, AtType DEF AnnounceStart, Stages
    <2>2. wk[w] \in Locals /\ wk[w].news \in News
      BY DEF WkType, Locals
    <2>3. WkType'
      <3>1. [wk[w] EXCEPT !.pc = "reuse", !.news = None] \in Locals
        BY <2>2 DEF Locals, Stages, News
      <3>2. wk' = [wk EXCEPT ![w] = [wk[w] EXCEPT !.pc = "reuse", !.news = None]]
        BY <1>2 DEF AnnounceStart, WkType
      <3> QED
        BY <2>1, <2>2, <3>1, <3>2 DEF WkType, T, Locals
    <2>4. CalmType'
      BY <1>2, <2>1, <2>2 DEF AnnounceStart, CalmType, process, memory, channels, handlers, history, News, Status
    <2>5. TasksType' /\ StoreType' /\ DiskType(disk)'
      BY <1>2 DEF AnnounceStart, TasksType, StoreType, DiskType, memory
    <2> QED
      BY <2>3, <2>4, <2>5, TypePartsNext
  <1>3. CASE FinalizeTask(w)
    <2>1. T(w) \in Tasks
      BY <1>3, AtType DEF FinalizeTask, Stages
    <2>2. taskNews' \in [Tasks -> News]
      BY <1>3, <2>1 DEF FinalizeTask, AnnounceEnd, Rec, CalmType, TasksType, TaskRecords, News
    <2>3. CalmType'
      BY <1>3, <2>2 DEF FinalizeTask, CalmType, process, memory, channels, handlers, history
    <2>4. WkType'
      BY <1>3, <2>1, GotoType DEF FinalizeTask, Stages
    <2>5. TasksType' /\ DiskType(disk)'
      BY <1>3 DEF FinalizeTask, TasksType, DiskType, memory
    <2>6. StoreType'
      BY <1>3, <2>3, <2>5, PersistType DEF FinalizeTask, CalmType
    <2> QED
      BY <2>3, <2>4, <2>5, <2>6, TypePartsNext
  <1>4. CASE FinalizeJob(w)
    <2> DEFINE now == Aggregate(task, J(w))
               doomed == IF now \in {"failed", "cancelled"} THEN WrittenPaths(TasksOf(J(w)), task) ELSE {}
               loc == [IdleWorker EXCEPT !.pc = "settle", !.task = T(w), !.news = now, !.doomed = doomed]
    <2>1. T(w) \in Tasks /\ J(w) \in Jobs
      BY <1>4, AtType DEF FinalizeJob, Stages
    <2>2. now \in Status
      BY AggregateType
    <2>3. doomed \subseteq Paths
      BY WrittenPathsType DEF TasksType, TasksOf
    <2>4. jobStatus' = [jobStatus EXCEPT ![J(w)] = now]
      BY <1>4 DEF FinalizeJob
    <2>5. \/ wk' = [wk EXCEPT ![w] = IdleWorker] /\ UNCHANGED store
          \/ wk' = [wk EXCEPT ![w] = loc] /\ Persist
      BY <1>4 DEF FinalizeJob
    <2> HIDE DEF now, doomed
    <2>6. loc \in Locals /\ loc.task = T(w) /\ IdleWorker \in Locals /\ IdleWorker.pc = "idle"
      BY <2>1, <2>2, <2>3 DEF IdleWorker, Locals, Stages, News
    <2> HIDE DEF loc
    <2>7. WkType'
      <3>1. CASE wk' = [wk EXCEPT ![w] = IdleWorker]
        BY <2>6, <3>1 DEF WkType
      <3>2. CASE wk' = [wk EXCEPT ![w] = loc]
        BY <2>1, <2>6, <3>2 DEF WkType
      <3> QED
        BY <2>5, <3>1, <3>2
    <2>8. UNCHANGED <<process, index, task, channels, handlers, disk, news, history>>
      BY <1>4 DEF FinalizeJob
    <2>9. jobStatus' \in [Jobs -> Status]
      BY <2>1, <2>2, <2>4 DEF CalmType
    <2>10. CalmType'
      BY <2>8, <2>9 DEF CalmType, process, channels, handlers, news, history
    <2>11. TasksType' /\ DiskType(disk)'
      BY <2>8 DEF TasksType, DiskType
    <2>12. StoreType'
      BY <2>5, <2>10, <2>11, PersistType DEF CalmType, StoreType
    <2> QED
      BY <2>7, <2>10, <2>11, <2>12, TypePartsNext
  <1>5. CASE FinishTask(w)
    <2>1. J(w) \in Jobs /\ wk[w].news \in News
      BY <1>5, AtType DEF FinishTask, Stages, WkType, Locals
    <2>2. CalmType'
      BY <1>5, <2>1 DEF FinishTask, CalmType, process, memory, channels, handlers, history
    <2>3. WkType'
      <3>1. IdleWorker \in Locals /\ IdleWorker.pc = "idle"
        BY DEF IdleWorker, Locals, Stages, News
      <3> QED
        BY <1>5, <3>1 DEF FinishTask, WkType
    <2>4. TasksType' /\ StoreType'
      BY <1>5 DEF FinishTask, TasksType, StoreType, memory
    <2>5. DiskType(disk)'
      BY <1>5, DiskWithout DEF FinishTask
    <2> QED
      BY <2>2, <2>3, <2>4, <2>5, TypePartsNext
  <1>6. CASE WorkerExit(w)
    <2>1. WkType'
      BY <1>6, GotoType DEF WorkerExit, Stages
    <2>2. CalmType'
      BY <1>6, ElsewhereType DEF WorkerExit
    <2>3. TasksType' /\ StoreType' /\ DiskType(disk)'
      BY <1>6 DEF WorkerExit, TasksType, StoreType, DiskType
    <2> QED
      BY <2>1, <2>2, <2>3, TypePartsNext
  <1> QED
    BY <1>1, <1>2, <1>3, <1>4, <1>5, <1>6 DEF QueueStep

\* A worker's own step leaves the calm part of the state alone.
LEMMA OwnStep ==
  ASSUME TypeOK, UNCHANGED Elsewhere, WkType', TasksType', StoreType', DiskType(disk)'
  PROVE  TypeOK'
  BY TypeParts, TypePartsNext, ElsewhereType

LEMMA TypeImage == ASSUME TypeOK, NEW w \in Workers, ImageStep(w) PROVE TypeOK'
  <1> USE TypeParts
  <1> DEFINE busy == {"reuse", "fetch", "received", "backoff", "renamed", "drop", "encode"}
  <1>1. PICK l \in busy : At(w, l)
    BY DEF ImageStep, ReuseNothing, ReuseOwned, ReuseFails, FetchBody, FetchRename, FetchRetry,
           FetchFail, Backoff, Interrupted, Commit, DropFile
  <1>2. T(w) \in Tasks /\ J(w) \in Jobs
    BY <1>1, AtType DEF Stages
  <1>3. Rec(w) \in TaskRecords /\ FirstExt(J(w)) \in Exts
    BY <1>2 DEF Rec, TasksType, FirstExt, Exts
  <1>4. FilePath(T(w), Rec(w)) \in Paths
    BY <1>2, <1>3, PathType
  <1>5. Settled(Rec(w), "failed") \in TaskRecords /\ ResolveCancelled(Rec(w)) \in TaskRecords
    BY <1>3, SettledType, ResolveType DEF Status, Terminal
  <1>6. /\ [Rec(w) EXCEPT !.wrote = FALSE, !.ext = FirstExt(J(w))] \in TaskRecords
        /\ [Rec(w) EXCEPT !.wrote = TRUE] \in TaskRecords
    <2>1. "queued" \in Status
      BY DEF Status
    <2> QED
      BY <1>3, <2>1, FieldType
  <1>7. ASSUME NEW tries \in Nat, wk' = [wk EXCEPT ![w].pc = "fetch", ![w].tries = tries] PROVE WkType'
    <2>1. wk[w] \in Locals
      BY DEF WkType
    <2>2. [wk[w] EXCEPT !.pc = "fetch", !.tries = tries] \in Locals
      BY <2>1 DEF Locals, Stages
    <2>3. wk' = [wk EXCEPT ![w] = [wk[w] EXCEPT !.pc = "fetch", !.tries = tries]]
      BY <1>7 DEF WkType
    <2> QED
      BY <1>2, <2>1, <2>2, <2>3 DEF WkType, T, Locals
  <1>8. CASE ReuseNothing(w)
    <2>1. WkType'
      BY <1>8, <1>7 DEF ReuseNothing
    <2>2. TasksType'
      BY <1>8, <1>6, SetTaskType DEF ReuseNothing, TasksType
    <2> QED
      BY <1>8, <2>1, <2>2, OwnStep DEF ReuseNothing, StoreType, DiskType
  <1>9. CASE ReuseOwned(w)
    <2>1. WkType'
      BY <1>9, <1>2, GotoType DEF ReuseOwned, AfterMedia, Stages
    <2> QED
      BY <1>9, <2>1, OwnStep DEF ReuseOwned, StoreType, DiskType, TasksType
  <1>10. CASE ReuseFails(w)
    <2>1. WkType' /\ TasksType'
      BY <1>10, <1>2, <1>5, EndType, SetTaskType DEF ReuseFails, TasksType
    <2> QED
      BY <1>10, <2>1, OwnStep DEF ReuseFails, StoreType, DiskType
  <1>11. CASE FetchBody(w)
    <2>1. WkType'
      BY <1>11, <1>2, GotoType DEF FetchBody, Stages
    <2> QED
      BY <1>11, <2>1, OwnStep DEF FetchBody, StoreType, DiskType, TasksType
  <1>12. CASE FetchRename(w)
    <2>1. WkType' /\ DiskType(disk)'
      BY <1>12, <1>2, <1>4, GotoType, DiskWritten DEF FetchRename, Stages
    <2> QED
      BY <1>12, <2>1, OwnStep DEF FetchRename, StoreType, TasksType
  <1>13. CASE FetchRetry(w)
    <2>1. WkType'
      BY <1>13, <1>2, GotoType DEF FetchRetry, Stages
    <2> QED
      BY <1>13, <2>1, OwnStep DEF FetchRetry, StoreType, DiskType, TasksType
  <1>14. CASE FetchFail(w)
    <2>1. WkType' /\ TasksType'
      BY <1>14, <1>2, <1>5, EndType, SetTaskType DEF FetchFail, TasksType
    <2> QED
      BY <1>14, <2>1, OwnStep DEF FetchFail, StoreType, DiskType
  <1>15. CASE Backoff(w)
    <2>1. wk[w].tries + 1 \in Nat
      BY DEF WkType, Locals
    <2>2. wk' = [wk EXCEPT ![w].pc = "fetch", ![w].tries = wk[w].tries + 1]
      BY <1>15 DEF Backoff
    <2>3. WkType'
      BY <2>1, <2>2, <1>7
    <2> QED
      BY <1>15, <2>3, OwnStep DEF Backoff, StoreType, DiskType, TasksType
  <1>16. CASE Interrupted(w)
    <2>1. WkType' /\ TasksType'
      BY <1>16, <1>2, <1>5, EndType, SetTaskType DEF Interrupted, TasksType
    <2> QED
      BY <1>16, <2>1, OwnStep DEF Interrupted, StoreType, DiskType
  <1>17. CASE Commit(w)
    <2> DEFINE own == [Rec(w) EXCEPT !.wrote = TRUE]
    <2>1. own \in TaskRecords /\ Settled(own, "completed") \in TaskRecords
      BY <1>6, SettledType DEF Status, Terminal
    <2>2. /\ SetTask(w, own) \/ SetTask(w, Settled(own, "completed"))
          /\ ToEnd(w) \/ Goto(w, "drop") \/ Goto(w, AfterMedia(w))
          /\ Persist \/ UNCHANGED store
      BY <1>17 DEF Commit
    <2> HIDE DEF own
    <2>3. TasksType'
      BY <2>1, <2>2, SetTaskType DEF TasksType
    <2>4. WkType'
      BY <1>2, <2>2, EndType, GotoType DEF AfterMedia, Stages
    <2>5. index' \subseteq Jobs
      BY <1>17 DEF Commit, Elsewhere, CalmType
    <2>6. StoreType'
      BY <2>2, <2>3, <2>5, PersistType DEF StoreType
    <2> QED
      BY <1>17, <2>3, <2>4, <2>6, OwnStep DEF Commit, DiskType
  <1>18. CASE DropFile(w)
    <2>1. WkType' /\ DiskType(disk)'
      BY <1>18, <1>2, EndType, DiskWithout DEF DropFile
    <2> QED
      BY <1>18, <2>1, OwnStep DEF DropFile, StoreType, TasksType
  <1> QED
    BY <1>8, <1>9, <1>10, <1>11, <1>12, <1>13, <1>14, <1>15, <1>16, <1>17, <1>18 DEF ImageStep

LEMMA TypeUgoira == ASSUME TypeOK, NEW w \in Workers, UgoiraStep(w) PROVE TypeOK'
  <1> USE TypeParts
  <1> DEFINE busy == {"convert", "encode", "encoding", "encoded", "accept"}
  <1>1. PICK l \in busy : At(w, l)
    BY DEF UgoiraStep, ConvertBegin, EncodeCreate, DecodeFail, EncodeAbort, EncodeDone, EncodeSwap, Accept
  <1>2. T(w) \in Tasks /\ J(w) \in Jobs
    BY <1>1, AtType DEF Stages
  <1>3. Rec(w) \in TaskRecords /\ MediaExt[J(w)] \in Exts
    BY <1>2 DEF Rec, TasksType, Exts
  <1>4. FilePath(T(w), Rec(w)) \in Paths /\ FinalPath(T(w), Rec(w)) \in Paths
    BY <1>2, <1>3, PathType
  <1>5. /\ Settled(Rec(w), "failed") \in TaskRecords /\ Settled(Rec(w), "completed") \in TaskRecords
        /\ ResolveCancelled(Rec(w)) \in TaskRecords
    BY <1>3, SettledType, ResolveType DEF Status, Terminal
  <1>6. [Rec(w) EXCEPT !.ext = MediaExt[J(w)]] \in TaskRecords
    <2>1. "queued" \in Status /\ TRUE \in BOOLEAN
      BY DEF Status
    <2> QED
      BY <1>3, <2>1, FieldType
  <1>7. CASE ConvertBegin(w)
    <2>1. WkType'
      BY <1>7, <1>2, EndType, GotoType DEF ConvertBegin, Stages
    <2> QED
      BY <1>7, <2>1, OwnStep DEF ConvertBegin, StoreType, DiskType, TasksType
  <1>8. CASE EncodeCreate(w)
    <2>1. WkType' /\ DiskType(disk)'
      BY <1>8, <1>2, <1>4, GotoType, DiskWritten DEF EncodeCreate, Stages
    <2> QED
      BY <1>8, <2>1, OwnStep DEF EncodeCreate, StoreType, TasksType
  <1>9. CASE DecodeFail(w)
    <2>1. WkType' /\ TasksType'
      BY <1>9, <1>2, <1>5, EndType, SetTaskType DEF DecodeFail, TasksType
    <2> QED
      BY <1>9, <2>1, OwnStep DEF DecodeFail, StoreType, DiskType
  <1>10. CASE EncodeAbort(w)
    <2>1. WkType' /\ TasksType' /\ DiskType(disk)'
      BY <1>10, <1>2, <1>5, EndType, SetTaskType, DiskWithout DEF EncodeAbort, TasksType
    <2> QED
      BY <1>10, <2>1, OwnStep DEF EncodeAbort, StoreType
  <1>11. CASE EncodeDone(w)
    <2>1. WkType' /\ DiskType(disk)'
      BY <1>11, <1>2, GotoType, DiskWithout DEF EncodeDone, Stages
    <2> QED
      BY <1>11, <2>1, OwnStep DEF EncodeDone, StoreType, TasksType
  <1>12. CASE EncodeSwap(w)
    <2>1. WkType' /\ TasksType'
      BY <1>12, <1>2, <1>6, GotoType, SetTaskType DEF EncodeSwap, TasksType, Stages
    <2> QED
      BY <1>12, <2>1, OwnStep DEF EncodeSwap, StoreType, DiskType
  <1>13. CASE Accept(w)
    <2>1. /\ UNCHANGED task \/ SetTask(w, Settled(Rec(w), "completed"))
          /\ Goto(w, "drop") \/ Goto(w, "meta") \/ ToEnd(w)
          /\ UNCHANGED store \/ Persist
      BY <1>13 DEF Accept
    <2>2. TasksType'
      BY <2>1, <1>5, SetTaskType DEF TasksType
    <2>3. WkType'
      BY <1>2, <2>1, EndType, GotoType DEF Stages
    <2>4. index' \subseteq Jobs
      BY <1>13 DEF Accept, Elsewhere, CalmType
    <2>5. StoreType'
      BY <2>1, <2>2, <2>4, PersistType DEF StoreType
    <2> QED
      BY <1>13, <2>2, <2>3, <2>5, OwnStep DEF Accept, DiskType
  <1> QED
    BY <1>7, <1>8, <1>9, <1>10, <1>11, <1>12, <1>13 DEF UgoiraStep

LEMMA TypeMeta == ASSUME TypeOK, NEW w \in Workers, MetaStep(w) PROVE TypeOK'
  <1> USE TypeParts
  <1> DEFINE busy == {"meta", "write", "wrote", "metaClean"}
  <1>1. PICK l \in busy : At(w, l)
    BY DEF MetaStep, MetaBegin, MetaWrite, MetaFinish, MetaClean
  <1>2. T(w) \in Tasks /\ J(w) \in Jobs
    BY <1>1, AtType DEF Stages
  <1>3. Rec(w) \in TaskRecords
    BY <1>2 DEF Rec, TasksType
  <1>4. ASSUME NEW r \in {"ok", "error", "cancelled"}, wk' = [wk EXCEPT ![w].pc = "wrote", ![w].result = r]
        PROVE  WkType'
    <2>1. wk[w] \in Locals
      BY DEF WkType
    <2>2. [wk[w] EXCEPT !.pc = "wrote", !.result = r] \in Locals
      BY <2>1 DEF Locals, Stages
    <2>3. wk' = [wk EXCEPT ![w] = [wk[w] EXCEPT !.pc = "wrote", !.result = r]]
      BY <1>4 DEF WkType
    <2> QED
      BY <1>2, <2>1, <2>2, <2>3 DEF WkType, T, Locals
  <1>5. CASE MetaBegin(w)
    <2>1. WkType'
      BY <1>5, <1>2, <1>4, EndType, GotoType DEF MetaBegin, Stages
    <2> QED
      BY <1>5, <2>1, OwnStep DEF MetaBegin, StoreType, DiskType, TasksType
  <1>6. CASE MetaWrite(w)
    <2> DEFINE p == MetaPath(T(w), Rec(w))
    <2>1. p \in Paths
      BY <1>2, <1>3, PathType
    <2>2. WkType'
      BY <1>6, <1>4 DEF MetaWrite
    <2>3. disk' = disk \/ disk' = Written(p, T(w))
      BY <1>6 DEF MetaWrite
    <2>4. DiskType(disk)'
      BY <1>2, <2>1, <2>3, DiskWritten
    <2> QED
      BY <1>6, <2>2, <2>4, OwnStep DEF MetaWrite, StoreType, TasksType
  <1>7. CASE MetaFinish(w)
    <2> DEFINE r == wk[w].result
               own == Recorded(Rec(w), r)
               fin == IF r = "cancelled" \/ CtxDone(w) THEN ResolveCancelled(own)
                      ELSE Settled(own, IF r = "ok" THEN "completed" ELSE "failed")
               gone == WrittenPaths({T(w)}, [task EXCEPT ![T(w)] = fin])
               doomed == IF fin.status = "cancelled" THEN gone ELSE {}
    <2>1. own \in TaskRecords
      <3>1. Zip \in Exts /\ "queued" \in Status /\ (r = "ok") \in BOOLEAN
        BY ExtsExist DEF Status
      <3> QED
        BY <1>3, <3>1, FieldType DEF Recorded
    <2>2. fin \in TaskRecords
      <3>1. "completed" \in Status /\ "failed" \in Status
        BY DEF Status, Terminal
      <3> HIDE DEF own
      <3> QED
        BY <2>1, <3>1, SettledType, ResolveType
    <2>3. doomed \subseteq Paths
      <3> HIDE DEF fin
      <3>1. [task EXCEPT ![T(w)] = fin] \in [Tasks -> TaskRecords] /\ {T(w)} \in SUBSET Tasks
        BY <1>2, <2>2 DEF TasksType
      <3> QED
        BY <3>1, WrittenPathsType
    <2>4. SetTask(w, fin) /\ wk' = [wk EXCEPT ![w].pc = "metaClean", ![w].result = None, ![w].doomed = doomed]
      BY <1>7 DEF MetaFinish
    <2> HIDE DEF fin, doomed
    <2>5. TasksType'
      BY <2>2, <2>4, SetTaskType DEF TasksType
    <2>6. WkType'
      <3>1. wk[w] \in Locals
        BY DEF WkType
      <3>2. [wk[w] EXCEPT !.pc = "metaClean", !.result = None, !.doomed = doomed] \in Locals
        BY <2>3, <3>1 DEF Locals, Stages
      <3>3. wk' = [wk EXCEPT ![w] = [wk[w] EXCEPT !.pc = "metaClean", !.result = None, !.doomed = doomed]]
        BY <2>4 DEF WkType
      <3> QED
        BY <1>2, <3>1, <3>2, <3>3 DEF WkType, T, Locals
    <2> QED
      BY <1>7, <2>5, <2>6, OwnStep DEF MetaFinish, StoreType, DiskType
  <1>8. CASE MetaClean(w)
    <2>1. WkType' /\ DiskType(disk)'
      BY <1>8, <1>2, EndType, DiskWithout DEF MetaClean
    <2> QED
      BY <1>8, <2>1, OwnStep DEF MetaClean, StoreType, TasksType
  <1> QED
    BY <1>5, <1>6, <1>7, <1>8 DEF MetaStep

-----------------------------------------------------------------------------
\* Every step keeps every variable in its type.
LEMMA TypeStep == TypeOK /\ [Next]_vars => TypeOK'
  <1> SUFFICES ASSUME TypeOK, [Next]_vars PROVE TypeOK'
    OBVIOUS
  <1>1. CASE HandlerStep \/ HandlerEnd
    <2>1. \A allowed \in SUBSET Terminal : {j \in index : jobStatus[j] \in allowed} \in SUBSET Jobs
      BY DEF TypeOK
    <2>2. \A js \in removing : js \in SUBSET Jobs
      BY DEF TypeOK
    <2>3. \A j \in Jobs : {j} \in SUBSET Jobs
      OBVIOUS
    <2>4. ASSUME NEW j \in Jobs, SubmitInsert(j) \/ SubmitFinish(j) PROVE TypeOK'
      BY <2>4, TypeSubmit
    <2>5. ASSUME NEW j \in Jobs, CancelLock(j) \/ CancelPersist(j) \/ CancelFinish(j) PROVE TypeOK'
      BY <2>5, TypeCancel
    <2>6. ASSUME NEW j \in Jobs, Remove(j) PROVE TypeOK'
      BY <2>6, <2>3, TypeRemove DEF Remove
    <2>7. ASSUME NEW allowed \in SUBSET Terminal, RemoveTerminal(allowed) PROVE TypeOK'
      BY <2>7, <2>1, TypeRemove DEF RemoveTerminal
    <2>8. ASSUME NEW js \in removing, RemoveFinish(js) PROVE TypeOK'
      BY <2>8, <2>2, TypeRemove
    <2> QED
      BY <1>1, <2>4, <2>5, <2>6, <2>7, <2>8 DEF HandlerStep, HandlerEnd
  <1>2. CASE SenderStep
    BY <1>2, TypeSender DEF SenderStep
  <1>3. CASE \E w \in Workers : WorkerStep(w)
    BY <1>3, TypeQueue, TypeImage, TypeUgoira, TypeMeta DEF WorkerStep
  <1>4. CASE ProcessStep \/ UserStep
    BY <1>4, TypeProcess, TypeUser
  <1>5. CASE Rest \/ UNCHANGED vars
    BY <1>5 DEF Rest, vars, TypeOK
  <1> QED
    BY <1>1, <1>2, <1>3, <1>4, <1>5 DEF Next

\* The variables of the download manager always have their types: in particular every
\* worker past its lease holds a task, and every path ever touched is one of ours.
THEOREM TypeCorrect == Spec => []TypeOK
  BY TypeInit, TypeStep, PTL DEF Spec

-----------------------------------------------------------------------------
(* How a task settles.                                                     *)

\* A step in which no settled task changes its status.
SettledKept == \A t \in Tasks : SettledInMemory(t) => task'[t].status = task[t].status

LEMMA SettledKeeps ==
  ASSUME NEW tk \in TaskRecords, NEW s \in Status, tk.status \in Terminal
  PROVE  Settled(tk, s) = tk /\ ResolveCancelled(tk) = tk
  BY DEF Settled, ResolveCancelled

\* A worker that writes its task's record keeps how it settled.
LEMMA SetTaskKeeps ==
  ASSUME TypeOK, NEW w \in Workers, T(w) \in Tasks, NEW rec, SetTask(w, rec),
         Rec(w).status \in Terminal => rec.status = Rec(w).status
  PROVE  SettledKept
  BY DEF SettledKept, SettledInMemory, SetTask, Rec, TypeOK

\* A step that concerns neither the index nor any call, and saves it or not.
CalmStep ==
  /\ UNCHANGED <<up, index, submit, cancel, acked>>
  /\ SettledKept
  /\ UNCHANGED store \/ Persist

\* What is saved of a job in the index is what the memory holds.
LEMMA Saved ==
  ASSUME Persist, NEW t \in Tasks, JobOf[t] \in index'
  PROVE  store'.jobs = index' /\ store'.task[t] = task'[t]
  BY DEF Persist, Snapshot

LEMMA SavedJobs == Persist => store'.jobs = index'
  BY DEF Persist, Snapshot

LEMMA CalmKeeps == ASSUME SettleInv, CalmStep, TypeOK' PROVE SettleInv'
  <1> USE DEF SettleInv, CalmStep, SettledKept, SettledInMemory, SettledOnDisk
  <1>1. FreshJobs' /\ DownIsEmpty'
    BY SavedJobs DEF FreshJobs, DownIsEmpty
  <1>2. \A t \in Tasks : JobOf[t] \in Jobs
    BY PoolAssumption
  <1>3. MemoryAgrees'
    BY Saved, SavedJobs DEF MemoryAgrees
  <1>4. CancelSettlesMemory'
    BY DEF CancelSettlesMemory
  <1>5. CancelSettlesDisk'
    BY Saved, SavedJobs DEF CancelSettlesMemory, CancelSettlesDisk
  <1> QED
    BY <1>1, <1>3, <1>4, <1>5

-----------------------------------------------------------------------------
LEMMA WorkerIsCalm == ASSUME TypeOK, NEW w \in Workers, WorkerStep(w) PROVE CalmStep
  <1> DEFINE still == UNCHANGED <<up, index, submit, cancel, acked>>
  <1>1. still
    BY DEF WorkerStep, QueueStep, ImageStep, UgoiraStep, MetaStep, Lease, AnnounceStart, FinalizeTask,
           FinalizeJob, FinishTask, WorkerExit, ReuseNothing, ReuseOwned, ReuseFails, FetchBody,
           FetchRename, FetchRetry, FetchFail, Backoff, Interrupted, Commit, DropFile, ConvertBegin,
           EncodeCreate, DecodeFail, EncodeAbort, EncodeDone, EncodeSwap, Accept, MetaBegin, MetaWrite,
           MetaFinish, MetaClean, Elsewhere, process, memory, handlers, history
  <1>2. UNCHANGED store \/ Persist
    BY DEF WorkerStep, QueueStep, ImageStep, UgoiraStep, MetaStep, Lease, AnnounceStart, FinalizeTask,
           FinalizeJob, FinishTask, WorkerExit, ReuseNothing, ReuseOwned, ReuseFails, FetchBody,
           FetchRename, FetchRetry, FetchFail, Backoff, Interrupted, Commit, DropFile, ConvertBegin,
           EncodeCreate, DecodeFail, EncodeAbort, EncodeDone, EncodeSwap, Accept, MetaBegin, MetaWrite,
           MetaFinish, MetaClean
  <1>3. SettledKept
    <2> USE DEF SettledKept, SettledInMemory
    <2>1. CASE UNCHANGED task
      BY <2>1
    <2>2. CASE Lease(w)
      BY <2>2 DEF Lease, TypeOK
    <2>3. ASSUME NEW l \in Stages \ {"idle", "exited"}, At(w, l) PROVE T(w) \in Tasks /\ Rec(w) \in TaskRecords
      BY <2>3, AtType, TypeParts DEF Rec, TasksType
    <2>4. CASE ReuseNothing(w) \/ EncodeSwap(w)
      <3>1. T(w) \in Tasks /\ Rec(w) \in TaskRecords
        BY <2>3, <2>4 DEF ReuseNothing, EncodeSwap, Stages
      <3> DEFINE reset == [Rec(w) EXCEPT !.wrote = FALSE, !.ext = FirstExt(J(w))]
                 swapped == [Rec(w) EXCEPT !.ext = MediaExt[J(w)]]
      <3>2. reset.status = Rec(w).status /\ swapped.status = Rec(w).status
        BY <3>1 DEF TaskRecords
      <3>3. UNCHANGED task \/ SetTask(w, reset) \/ SetTask(w, swapped)
        BY <2>4 DEF ReuseNothing, EncodeSwap
      <3> HIDE DEF reset, swapped
      <3> QED
        BY <3>1, <3>2, <3>3, SetTaskKeeps
    <2>5. CASE ReuseFails(w) \/ FetchFail(w) \/ Interrupted(w) \/ DecodeFail(w) \/ EncodeAbort(w) \/ Accept(w)
      <3>1. T(w) \in Tasks /\ Rec(w) \in TaskRecords
        BY <2>3, <2>5 DEF ReuseFails, FetchFail, Interrupted, DecodeFail, EncodeAbort, Accept, Stages
      <3>2. "failed" \in Status /\ "completed" \in Status
        BY DEF Status, Terminal
      <3>3. \/ UNCHANGED task
            \/ SetTask(w, Settled(Rec(w), "failed"))
            \/ SetTask(w, Settled(Rec(w), "completed"))
            \/ SetTask(w, ResolveCancelled(Rec(w)))
        BY <2>5 DEF ReuseFails, FetchFail, Interrupted, DecodeFail, EncodeAbort, Accept
      <3> QED
        BY <3>1, <3>2, <3>3, SetTaskKeeps, SettledKeeps
    <2>6. CASE Commit(w)
      <3> DEFINE own == [Rec(w) EXCEPT !.wrote = TRUE]
      <3>1. T(w) \in Tasks /\ Rec(w) \in TaskRecords
        BY <2>3, <2>6 DEF Commit, Stages
      <3>2. own \in TaskRecords /\ own.status = Rec(w).status
        BY <3>1 DEF TaskRecords
      <3>3. SetTask(w, own) \/ SetTask(w, Settled(own, "completed"))
        BY <2>6 DEF Commit
      <3>4. "completed" \in Status
        BY DEF Status, Terminal
      <3> HIDE DEF own
      <3> QED
        BY <3>1, <3>2, <3>3, <3>4, SetTaskKeeps, SettledKeeps
    <2>7. CASE MetaFinish(w)
      <3> DEFINE r == wk[w].result
                 own == Recorded(Rec(w), r)
                 fin == IF r = "cancelled" \/ CtxDone(w) THEN ResolveCancelled(own)
                        ELSE Settled(own, IF r = "ok" THEN "completed" ELSE "failed")
      <3>1. T(w) \in Tasks /\ Rec(w) \in TaskRecords
        BY <2>3, <2>7 DEF MetaFinish, Stages
      <3>2. own \in TaskRecords /\ own.status = Rec(w).status
        BY <3>1 DEF Recorded, TaskRecords
      <3>3. SetTask(w, fin)
        BY <2>7 DEF MetaFinish
      <3>4. "completed" \in Status /\ "failed" \in Status
        BY DEF Status, Terminal
      <3>5. own.status \in Terminal => fin = own
        <4> HIDE DEF own
        <4> QED
          BY <3>2, <3>4, SettledKeeps
      <3> HIDE DEF fin, own
      <3> QED
        BY <3>1, <3>2, <3>3, <3>5, SetTaskKeeps
    <2> QED
      BY <2>1, <2>2, <2>4, <2>5, <2>6, <2>7
      DEF WorkerStep, QueueStep, ImageStep, UgoiraStep, MetaStep, AnnounceStart, FinalizeTask,
          FinalizeJob, FinishTask, WorkerExit, ReuseOwned, FetchBody, FetchRename, FetchRetry,
          Backoff, DropFile, ConvertBegin, EncodeCreate, EncodeDone, MetaBegin, MetaWrite,
          MetaClean, Elsewhere, process, memory
  <1> QED
    BY <1>1, <1>2, <1>3 DEF CalmStep

-----------------------------------------------------------------------------
(* The handlers.                                                           *)

LEMMA SettleSubmit ==
  ASSUME SettleInv, TypeOK', NEW j \in Jobs, SubmitInsert(j) \/ SubmitFinish(j) PROVE SettleInv'
  <1> USE DEF SettleInv, SettledInMemory, SettledOnDisk
  <1>0. \A t \in Tasks : JobOf[t] \in Jobs
    BY PoolAssumption
  <1>1. CASE SubmitInsert(j)
    <2>1. /\ submit[j] = "new" /\ j \notin store.jobs /\ j \notin acked /\ cancel[j].pc = "no"
          /\ index' = index \cup {j} /\ submit' = [submit EXCEPT ![j] = "inserted"]
          /\ UNCHANGED <<up, cancel, store, acked>> /\ up
      BY <1>1 DEF SubmitInsert, FreshJobs, process, history
    <2>2. \A t \in Tasks : JobOf[t] # j => task'[t] = task[t]
      BY <1>1 DEF SubmitInsert, TasksOf
    <2>3. FreshJobs' /\ DownIsEmpty'
      BY <2>1 DEF FreshJobs, DownIsEmpty, TypeOK
    <2>4. MemoryAgrees'
      BY <2>1, <2>2 DEF MemoryAgrees
    <2>5. CancelSettlesMemory' /\ CancelSettlesDisk'
      BY <1>0, <2>1, <2>2 DEF CancelSettlesMemory, CancelSettlesDisk
    <2> QED
      BY <2>3, <2>4, <2>5
  <1>2. CASE SubmitFinish(j)
    <2>1. /\ submit' = [submit EXCEPT ![j] = "done"] /\ up
          /\ UNCHANGED <<up, index, task, cancel, acked>> /\ Persist
      BY <1>2 DEF SubmitFinish, process, memory, history
    <2>2. FreshJobs' /\ DownIsEmpty'
      BY <2>1, SavedJobs DEF FreshJobs, DownIsEmpty, TypeOK
    <2>3. MemoryAgrees' /\ CancelSettlesMemory'
      BY <2>1, Saved, SavedJobs DEF MemoryAgrees, CancelSettlesMemory
    <2>4. CancelSettlesDisk'
      BY <2>1, Saved, SavedJobs DEF CancelSettlesMemory, CancelSettlesDisk
    <2> QED
      BY <2>2, <2>3, <2>4
  <1> QED
    BY <1>1, <1>2

LEMMA SettleCancel ==
  ASSUME SettleInv, TypeOK', NEW j \in Jobs, CancelLock(j) \/ CancelPersist(j) \/ CancelFinish(j)
  PROVE  SettleInv'
  <1> USE DEF SettleInv, SettledInMemory, SettledOnDisk
  <1>0. \A t \in Tasks : JobOf[t] \in Jobs
    BY PoolAssumption
  <1>1. CASE CancelLock(j)
    <2>1. /\ j \in index /\ up /\ UNCHANGED <<up, index, submit, store, acked>>
          /\ \A k \in Jobs : k # j => cancel'[k] = cancel[k]
          /\ cancel'[j].pc = "persist"
      BY <1>1 DEF CancelLock, TypeOK, process, history
    <2>2. \A t \in Tasks : /\ SettledInMemory(t) => task'[t].status = task[t].status
                           /\ JobOf[t] = j => SettledInMemory(t)'
      <3> DEFINE hit == {t \in TasksOf(j) : task[t].status \notin Terminal}
      <3>1. task' = [t \in Tasks |-> IF t \in hit THEN Settled(task[t], "cancelled") ELSE task[t]]
        BY <1>1 DEF CancelLock
      <3>2. \A t \in hit : t \in Tasks /\ task[t] \in TaskRecords /\ Settled(task[t], "cancelled").status = "cancelled"
        BY DEF TypeOK, TaskRecords, Settled, TasksOf
      <3>3. \A t \in Tasks : t \in hit <=> JobOf[t] = j /\ task[t].status \notin Terminal
        BY DEF TasksOf
      <3> HIDE DEF hit
      <3> QED
        BY <3>1, <3>2, <3>3 DEF Terminal
    <2>3. FreshJobs' /\ DownIsEmpty'
      BY <2>1 DEF FreshJobs, DownIsEmpty
    <2>4. MemoryAgrees'
      BY <2>1, <2>2 DEF MemoryAgrees
    <2>5. CancelSettlesMemory'
      BY <1>0, <2>1, <2>2 DEF CancelSettlesMemory
    <2>6. CancelSettlesDisk'
      BY <1>0, <2>1 DEF CancelSettlesDisk
    <2> QED
      BY <2>3, <2>4, <2>5, <2>6
  <1>2. CASE CancelPersist(j)
    <2>1. /\ up /\ UNCHANGED <<up, index, task, submit, acked>> /\ Persist
          /\ \A k \in Jobs : k # j => cancel'[k] = cancel[k]
          /\ cancel[j].pc = "persist" /\ cancel'[j].pc = "clean"
      BY <1>2 DEF CancelPersist, TypeOK, Cancels, process, memory, history
    <2>2. FreshJobs' /\ DownIsEmpty'
      BY <2>1, SavedJobs DEF FreshJobs, DownIsEmpty
    <2>3. MemoryAgrees'
      BY <2>1, Saved, SavedJobs DEF MemoryAgrees
    <2>4. CancelSettlesMemory'
      BY <1>0, <2>1 DEF CancelSettlesMemory
    <2>5. CancelSettlesDisk'
      BY <1>0, <2>1, Saved, SavedJobs DEF CancelSettlesMemory, CancelSettlesDisk
    <2> QED
      BY <2>2, <2>3, <2>4, <2>5
  <1>3. CASE CancelFinish(j)
    <2>1. /\ up /\ UNCHANGED <<up, index, task, submit, store>>
          /\ cancel[j].pc = "clean" /\ cancel'[j].pc = "no"
          /\ \A k \in Jobs : k # j => cancel'[k] = cancel[k]
          /\ acked' \subseteq acked \cup {j}
      BY <1>3 DEF CancelFinish, TypeOK, NoCancel, process, memory
    <2>2. FreshJobs'
      BY <2>1 DEF FreshJobs
    <2>3. DownIsEmpty' /\ MemoryAgrees'
      BY <2>1 DEF DownIsEmpty, MemoryAgrees
    <2>4. CancelSettlesMemory' /\ CancelSettlesDisk'
      BY <1>0, <2>1 DEF CancelSettlesMemory, CancelSettlesDisk
    <2> QED
      BY <2>2, <2>3, <2>4
  <1> QED
    BY <1>1, <1>2, <1>3

LEMMA SettleRemove ==
  ASSUME SettleInv, TypeOK', NEW js, Drop(js) \/ RemoveFinish(js) PROVE SettleInv'
  <1> USE DEF SettleInv, SettledInMemory, SettledOnDisk
  <1>0. \A t \in Tasks : JobOf[t] \in Jobs
    BY PoolAssumption
  <1>1. CASE Drop(js)
    <2>1. index' \subseteq index /\ UNCHANGED <<up, task, submit, cancel, store, acked>>
      BY <1>1 DEF Drop, process, history
    <2> QED
      BY <1>0, <2>1 DEF FreshJobs, DownIsEmpty, MemoryAgrees, CancelSettlesMemory, CancelSettlesDisk
  <1>2. CASE RemoveFinish(js)
    <2>1. UNCHANGED <<up, index, submit, cancel, acked, task>> /\ Persist
      BY <1>2 DEF RemoveFinish, process, memory, history
    <2>2. CalmStep
      BY <2>1 DEF CalmStep, SettledKept
    <2> QED
      BY <2>2, CalmKeeps
  <1> QED
    BY <1>1, <1>2

-----------------------------------------------------------------------------
(* The process.                                                            *)

\* A boot reloads a settled task as the index tells it.
LEMMA BootKeeps ==
  ASSUME Boot, NEW t \in Tasks, SettledOnDisk(t) PROVE task'[t].status = store.task[t].status
  <1> USE DEF SettledOnDisk
  <1> DEFINE loaded == [u \in Tasks |-> Loaded(u)]
             known == {u \in Tasks : JobOf[u] \in store.jobs}
             todo == {u \in known : loaded[u].status \notin Terminal}
             moved == {u \in todo : ~loaded[u].wrote /\ ~loaded[u].wroteMeta}
  <1>1. PICK pick : task' = [u \in Tasks |-> IF u \in moved THEN Moved(loaded[u], pick[u]) ELSE loaded[u]]
    BY DEF Boot
  <1>2. loaded[t] = store.task[t]
    BY DEF Loaded, Terminal
  <1>3. t \notin moved
    BY <1>2
  <1> HIDE DEF loaded, moved
  <1> QED
    BY <1>1, <1>2, <1>3

LEMMA SettleProcess == ASSUME SettleInv, TypeOK', ProcessStep PROVE SettleInv'
  <1> USE DEF SettleInv, SettledInMemory, SettledOnDisk
  <1>0. \A t \in Tasks : JobOf[t] \in Jobs
    BY PoolAssumption
  <1>1. CASE Stop
    <2>1. UNCHANGED <<up, index, submit, cancel, acked, task, store>>
      BY <1>1 DEF Stop, memory, handlers
    <2> QED
      BY <2>1, CalmKeeps DEF CalmStep, SettledKept
  <1>2. ASSUME Gone PROVE /\ up' = FALSE /\ index' = {} /\ \A j \in Jobs : cancel'[j].pc = "no"
                          /\ \A j \in Jobs : submit'[j] = "new" => submit[j] = "new"
    BY <1>2 DEF Gone, NoCancel
  <1>3. CASE Crash
    <2>1. Gone /\ UNCHANGED <<store, acked>>
      BY <1>3 DEF Crash
    <2> QED
      BY <1>0, <1>2, <2>1 DEF FreshJobs, DownIsEmpty, MemoryAgrees, CancelSettlesMemory, CancelSettlesDisk
  <1>4. CASE Shutdown
    <2>1. Gone /\ UNCHANGED acked /\ store'.jobs = index
      BY <1>4 DEF Shutdown, Snapshot
    <2>2. \A t \in Tasks : JobOf[t] \in index => store'.task[t] = task[t]
      BY <1>4 DEF Shutdown, Snapshot
    <2>3. FreshJobs' /\ DownIsEmpty' /\ MemoryAgrees' /\ CancelSettlesMemory'
      BY <1>0, <1>2, <2>1 DEF FreshJobs, DownIsEmpty, MemoryAgrees, CancelSettlesMemory
    <2>4. CancelSettlesDisk'
      BY <1>0, <1>2, <2>1, <2>2 DEF CancelSettlesMemory, CancelSettlesDisk
    <2> QED
      BY <2>3, <2>4
  <1>5. CASE Boot
    <2>1. /\ ~up /\ index' = store.jobs /\ UNCHANGED <<submit, cancel, acked>> /\ Persist
          /\ up'
      BY <1>5 DEF Boot, handlers, history
    <2>2. \A t \in Tasks : SettledOnDisk(t) => task'[t].status = store.task[t].status
      BY <1>5, BootKeeps
    <2>3. FreshJobs' /\ DownIsEmpty'
      BY <2>1, SavedJobs DEF FreshJobs, DownIsEmpty
    <2>4. MemoryAgrees'
      BY <2>1, Saved, SavedJobs DEF MemoryAgrees
    <2>5. CancelSettlesMemory'
      BY <1>0, <2>1, <2>2 DEF CancelSettlesDisk, CancelSettlesMemory, DownIsEmpty
    <2>6. CancelSettlesDisk'
      BY <1>0, <2>1, <2>5, Saved, SavedJobs DEF CancelSettlesDisk, CancelSettlesMemory
    <2> QED
      BY <2>3, <2>4, <2>5, <2>6
  <1> QED
    BY <1>1, <1>3, <1>4, <1>5 DEF ProcessStep

-----------------------------------------------------------------------------
LEMMA SettleInit == Init => SettleInv
  <1> SUFFICES ASSUME Init PROVE SettleInv
    OBVIOUS
  <1>1. TypeOK
    BY TypeInit
  <1> QED
    BY <1>1 DEF Init, NoCancel, SettleInv, FreshJobs, DownIsEmpty, MemoryAgrees, CancelSettlesMemory,
                CancelSettlesDisk

LEMMA SettleStep == SettleInv /\ [Next]_vars => SettleInv'
  <1> SUFFICES ASSUME SettleInv, [Next]_vars PROVE SettleInv'
    OBVIOUS
  <1>1. TypeOK /\ TypeOK'
    BY TypeStep DEF SettleInv
  <1>2. CASE HandlerStep \/ HandlerEnd
    BY <1>1, <1>2, SettleSubmit, SettleCancel, SettleRemove
    DEF HandlerStep, HandlerEnd, Remove, RemoveTerminal
  <1>3. CASE SenderStep \/ UserStep \/ Rest \/ UNCHANGED vars
    <2>1. UNCHANGED <<up, index, submit, cancel, acked, task, store>>
      BY <1>3 DEF SenderStep, Send, SendAbort, UserStep, UserDeletes, UserPlaces, Rest, vars,
                  process, memory, handlers, history
    <2>2. CalmStep
      BY <2>1 DEF CalmStep, SettledKept
    <2> QED
      BY <1>1, <2>2, CalmKeeps
  <1>4. CASE \E w \in Workers : WorkerStep(w)
    BY <1>1, <1>4, WorkerIsCalm, CalmKeeps
  <1>5. CASE ProcessStep
    BY <1>1, <1>5, SettleProcess
  <1> QED
    BY <1>2, <1>3, <1>4, <1>5 DEF Next

\* The settle invariant holds in every reachable state.
THEOREM SettleCorrect == Spec => []SettleInv
  BY SettleInit, SettleStep, PTL DEF Spec

\* Once Cancel has returned, the index on disk holds no open task of the job, whatever is
\* saved, crashes or restarts afterwards.
THEOREM CancelIsDurable == Spec => []CancelDurable
  <1>1. SettleInv => CancelDurable
    <2> SUFFICES ASSUME SettleInv, NEW j \in acked, j \in store.jobs, NEW t \in TasksOf(j)
                 PROVE  store.task[t].status \in Terminal
      BY DEF CancelDurable
    <2> QED
      BY DEF SettleInv, CancelSettlesDisk, SettledOnDisk, TasksOf
  <1> QED
    BY <1>1, SettleCorrect, PTL

-----------------------------------------------------------------------------
\* What a step does to a settled task of the index, before and after a save.
StoreStep ==
  \A t \in Tasks : JobOf[t] \in store.jobs \cap store'.jobs /\ store.task[t].status \in Terminal
    => store'.task[t].status = store.task[t].status

LEMMA SaveKeepsStore ==
  ASSUME SettleInv, SettledKept, index' \subseteq index, Persist PROVE StoreStep
  BY Saved, SavedJobs DEF StoreStep, SettleInv, MemoryAgrees, SettledKept, SettledInMemory, SettledOnDisk

LEMMA StepKeepsStore == ASSUME SettleInv, [Next]_vars PROVE StoreStep
  <1>1. TypeOK
    BY DEF SettleInv
  <1>2. CASE UNCHANGED store
    BY <1>2 DEF StoreStep
  <1>3. CASE \E j \in Jobs : SubmitFinish(j) \/ CancelPersist(j)
    BY <1>3, SaveKeepsStore DEF SubmitFinish, CancelPersist, memory, SettledKept
  <1>4. CASE \E js \in removing : RemoveFinish(js)
    BY <1>4, SaveKeepsStore DEF RemoveFinish, memory, SettledKept
  <1>5. CASE \E w \in Workers : WorkerStep(w)
    BY <1>1, <1>2, <1>5, WorkerIsCalm, SaveKeepsStore DEF CalmStep
  <1>6. CASE Shutdown
    BY <1>6 DEF Shutdown, Snapshot, StoreStep, SettleInv, MemoryAgrees, SettledOnDisk
  <1>7. CASE Boot
    <2>1. Persist
      BY <1>7 DEF Boot
    <2> QED
      BY <1>7, <2>1, BootKeeps, Saved, SavedJobs DEF StoreStep, SettledOnDisk
  <1> QED
    BY <1>2, <1>3, <1>4, <1>5, <1>6, <1>7
    DEF Next, HandlerStep, HandlerEnd, SenderStep, ProcessStep, UserStep, SubmitInsert, CancelLock,
        CancelFinish, Remove, RemoveTerminal, Drop, Send, SendAbort, Stop, Crash, UserDeletes,
        UserPlaces, Rest, vars

\* In the index on disk a settled task stays as it settled: by no save of a worker or of
\* a handler, and by no restart, is it re-opened or given another end.
THEOREM SettledIsForever == Spec => StoredSettledForever
  <1>1. SettleInv /\ [Next]_vars => [StoreStep]_vars
    BY StepKeepsStore
  <1>2. [][StoreStep]_vars <=> StoredSettledForever
    BY PTL DEF StoredSettledForever, StoreStep
  <1> QED
    BY <1>1, <1>2, SettleCorrect, PTL DEF Spec

-----------------------------------------------------------------------------
(* Where the elements of a sequence go.                                    *)

LEMMA AppendPlaces ==
  ASSUME NEW q \in Seq(Tasks), NEW x \in Tasks, NEW i \in DOMAIN Append(q, x)
  PROVE  \/ i \in DOMAIN q /\ Append(q, x)[i] = q[i]
         \/ i = Len(q) + 1 /\ Append(q, x)[i] = x
  BY AppendProperties, LenProperties

LEMMA TailPlaces ==
  ASSUME NEW q \in Seq(Tasks), q # <<>>
  PROVE  /\ 1 \in DOMAIN q /\ Head(q) = q[1]
         /\ \A i \in DOMAIN Tail(q) : i \in Nat /\ i + 1 \in DOMAIN q /\ i + 1 # 1 /\ Tail(q)[i] = q[i + 1]
  <1>1. /\ Len(q) \in Nat /\ Len(q) >= 1 /\ DOMAIN q = 1..Len(q)
        /\ Tail(q) \in Seq(Tasks) /\ Len(Tail(q)) = Len(q) - 1
        /\ \A i \in 1..Len(Tail(q)) : Tail(q)[i] = q[i + 1]
    BY HeadTailProperties, LenProperties, EmptySeq
  <1>2. DOMAIN Tail(q) = 1..(Len(q) - 1)
    BY <1>1, LenProperties
  <1> QED
    BY <1>1, <1>2

\* A walk names each of its tasks once.
LEMMA WalkOnce ==
  ASSUME NEW S \in SUBSET Tasks, NEW s \in Walks(S)
  PROVE  /\ \A i \in DOMAIN s : s[i] \in S
         /\ \A i, k \in DOMAIN s : s[i] = s[k] => i = k
  <1>1. Cardinality(S) \in Nat
    BY PoolAssumption, FS_Subset, FS_CardinalityType
  <1>2. s \in [1..Cardinality(S) -> S] /\ \A a, b \in DOMAIN s : a < b => Rank[s[a]] < Rank[s[b]]
    BY DEF Walks
  <1>3. \A i \in DOMAIN s : i \in Nat /\ s[i] \in S /\ Rank[s[i]] \in Nat
    BY <1>1, <1>2, PoolAssumption
  <1> QED
    BY <1>2, <1>3

-----------------------------------------------------------------------------
\* Nothing comes on its way: what is there stays where it is, or goes.
LEMMA StillOnce ==
  ASSUME OnceInv, TypeOK, UNCHANGED <<up, queue, sending>>,
         \A w \in Workers : \A t \in Tasks : Carries(w, t)' => Carries(w, t),
         up \/ UNCHANGED submit,
         \A j \in Jobs : submit'[j] # "done" => submit[j] # "done"
  PROVE  OnceInv'
  <1>1. \A t \in Tasks : JobOf[t] \in Jobs
    BY PoolAssumption
  <1>2. (QueueOnce /\ SenderOnce)'
    BY DEF OnceInv, QueueOnce, SenderOnce
  <1>3. (WorkerOnce /\ Apart)'
    BY DEF OnceInv, WorkerOnce, Apart, InSender, InQueue
  <1>4. (Unsent /\ DownIsIdle)'
    BY <1>1 DEF OnceInv, Unsent, DownIsIdle, Nowhere, InSender, InQueue
  <1> QED
    BY <1>2, <1>3, <1>4 DEF OnceInv

\* Submit hands the tasks of its job, which are nowhere yet, to the job's sender.
LEMMA OnceSubmit ==
  ASSUME OnceInv, TypeOK, NEW j \in Jobs, SubmitInsert(j) \/ SubmitFinish(j) PROVE OnceInv'
  <1>1. CASE SubmitInsert(j)
    BY <1>1, StillOnce DEF SubmitInsert, TypeOK, process, channels, Carries
  <1>2. CASE SubmitFinish(j)
    <2>1. /\ submit[j] = "inserted" /\ submit' = [submit EXCEPT ![j] = "done"] /\ up
          /\ UNCHANGED <<up, queue, wk>>
      BY <1>2 DEF SubmitFinish, process
    <2>2. PICK s \in Walks(TasksOf(j)) : sending' = [sending EXCEPT ![j] = s]
      BY <1>2 DEF SubmitFinish
    <2>3. /\ \A i \in DOMAIN s : s[i] \in Tasks /\ JobOf[s[i]] = j /\ Nowhere(s[i])
          /\ \A i, k \in DOMAIN s : s[i] = s[k] => i = k
      BY <2>1, <2>2, WalkOnce DEF TasksOf, OnceInv, Unsent
    <2>4. j \in Senders /\ \A g \in Senders : sending'[g] = IF g = j THEN s ELSE sending[g]
      BY <2>2 DEF TypeOK, Senders
    <2>5. \A t \in Tasks : InSender(t)' => InSender(t) \/ \E i \in DOMAIN s : s[i] = t
      BY <2>4 DEF InSender
    <2>6. \A t \in Tasks : InQueue(t)' <=> InQueue(t)
      BY <2>1 DEF InQueue
    <2>7. SenderOnce'
      <3> SUFFICES ASSUME NEW g \in Senders, NEW h \in Senders, NEW i \in DOMAIN sending'[g],
                          NEW k \in DOMAIN sending'[h], sending'[g][i] = sending'[h][k]
                   PROVE  g = h /\ i = k
        BY DEF SenderOnce
      <3>1. CASE g = j /\ h = j
        BY <3>1, <2>3, <2>4
      <3>2. CASE g # j /\ h # j
        BY <3>2, <2>4 DEF OnceInv, SenderOnce
      <3>3. CASE g = j /\ h # j
        BY <3>3, <2>3, <2>4 DEF Nowhere, InSender
      <3>4. CASE g # j /\ h = j
        BY <3>4, <2>3, <2>4 DEF Nowhere, InSender
      <3> QED
        BY <3>1, <3>2, <3>3, <3>4
    <2>8. (QueueOnce /\ WorkerOnce)'
      BY <2>1 DEF OnceInv, QueueOnce, WorkerOnce, Carries
    <2>9. Apart'
      BY <2>1, <2>3, <2>5, <2>6 DEF OnceInv, Apart, Nowhere, Carries
    <2>10. Unsent'
      <3> SUFFICES ASSUME NEW t \in Tasks, submit'[JobOf[t]] # "done" PROVE Nowhere(t)'
        BY DEF Unsent
      <3>1. JobOf[t] \in Jobs /\ JobOf[t] # j /\ submit[JobOf[t]] # "done"
        BY <2>1, PoolAssumption DEF TypeOK
      <3>2. Nowhere(t)
        BY <3>1 DEF OnceInv, Unsent
      <3> QED
        BY <2>1, <2>3, <2>5, <2>6, <3>1, <3>2 DEF Nowhere, Carries
    <2>11. DownIsIdle'
      BY <2>1 DEF DownIsIdle
    <2> QED
      BY <2>7, <2>8, <2>9, <2>10, <2>11 DEF OnceInv
  <1> QED
    BY <1>1, <1>2

\* A send moves the head of one sender's list to the end of the queue.
LEMMA OnceSend == ASSUME OnceInv, TypeOK, NEW g \in Senders, Send(g) PROVE OnceInv'
  <1> DEFINE x == Head(sending[g])
  <1>1. /\ up /\ sending[g] # <<>> /\ queue' = Append(queue, x)
        /\ sending' = [sending EXCEPT ![g] = Tail(sending[g])]
        /\ UNCHANGED <<up, wk, submit>>
    BY DEF Send, process, handlers
  <1>2. queue \in Seq(Tasks) /\ sending[g] \in Seq(Tasks) /\ x \in Tasks
    <2>1. queue \in Seq(Tasks) /\ sending[g] \in Seq(Tasks)
      BY DEF TypeOK
    <2> QED
      BY <1>1, <2>1, HeadTailProperties
  <1>3. /\ 1 \in DOMAIN sending[g] /\ x = sending[g][1]
        /\ \A i \in DOMAIN Tail(sending[g]) :
             i \in Nat /\ i + 1 \in DOMAIN sending[g] /\ i + 1 # 1 /\ Tail(sending[g])[i] = sending[g][i + 1]
    BY <1>1, <1>2, TailPlaces
  <1>4. \A h \in Senders : sending'[h] = IF h = g THEN Tail(sending[g]) ELSE sending[h]
    BY <1>1 DEF TypeOK
  <1> HIDE DEF x
  <1>5. InSender(x) /\ ~InQueue(x) /\ \A w \in Workers : ~Carries(w, x)
    <2>1. InSender(x)
      BY <1>3 DEF InSender
    <2> QED
      BY <1>2, <2>1 DEF OnceInv, Apart
  <1>6. \A t \in Tasks : InSender(t)' => InSender(t) /\ t # x
    <2> SUFFICES ASSUME NEW t \in Tasks, NEW h \in Senders, NEW i \in DOMAIN sending'[h], sending'[h][i] = t
                 PROVE  InSender(t) /\ t # x
      BY DEF InSender
    <2>1. PICK k \in DOMAIN sending[h] : sending[h][k] = t /\ (h # g \/ k # 1)
      <3>1. CASE h = g
        BY <3>1, <1>3, <1>4
      <3>2. CASE h # g
        BY <3>2, <1>4
      <3> QED
        BY <3>1, <3>2
    <2>2. InSender(t)
      BY <2>1 DEF InSender
    <2>3. t # x
      BY <2>1, <1>3 DEF OnceInv, SenderOnce
    <2> QED
      BY <2>2, <2>3
  <1>7. \A i \in DOMAIN queue' :
          (i \in DOMAIN queue /\ queue'[i] = queue[i]) \/ (i = Len(queue) + 1 /\ queue'[i] = x)
    BY <1>1, <1>2, AppendPlaces
  <1>8. \A t \in Tasks : InQueue(t)' => InQueue(t) \/ t = x
    BY <1>7 DEF InQueue
  <1>9. QueueOnce'
    BY <1>5, <1>7 DEF InQueue, OnceInv, QueueOnce
  <1>10. SenderOnce'
    <2> SUFFICES ASSUME NEW a \in Senders, NEW b \in Senders, NEW i \in DOMAIN sending'[a],
                        NEW k \in DOMAIN sending'[b], sending'[a][i] = sending'[b][k]
                 PROVE  a = b /\ i = k
      BY DEF SenderOnce
    <2>1. CASE a = g /\ b = g
      <3>1. /\ i \in Nat /\ k \in Nat /\ i + 1 \in DOMAIN sending[g] /\ k + 1 \in DOMAIN sending[g]
            /\ sending[g][i + 1] = sending[g][k + 1]
        BY <2>1, <1>3, <1>4
      <3>2. i + 1 = k + 1
        BY <3>1 DEF OnceInv, SenderOnce
      <3> QED
        BY <2>1, <3>1, <3>2
    <2>2. CASE a # g /\ b # g
      BY <2>2, <1>4 DEF OnceInv, SenderOnce
    <2>3. CASE a = g /\ b # g
      <3>1. i + 1 \in DOMAIN sending[a] /\ k \in DOMAIN sending[b] /\ sending[a][i + 1] = sending[b][k]
        BY <2>3, <1>3, <1>4
      <3> QED
        BY <2>3, <3>1 DEF OnceInv, SenderOnce
    <2>4. CASE a # g /\ b = g
      <3>1. i \in DOMAIN sending[a] /\ k + 1 \in DOMAIN sending[b] /\ sending[a][i] = sending[b][k + 1]
        BY <2>4, <1>3, <1>4
      <3> QED
        BY <2>4, <3>1 DEF OnceInv, SenderOnce
    <2> QED
      BY <2>1, <2>2, <2>3, <2>4
  <1>11. WorkerOnce' /\ DownIsIdle'
    BY <1>1 DEF OnceInv, WorkerOnce, DownIsIdle, Carries
  <1>12. Apart'
    BY <1>1, <1>5, <1>6, <1>8 DEF OnceInv, Apart, Carries
  <1>13. Unsent'
    BY <1>1, <1>5, <1>6, <1>8 DEF OnceInv, Unsent, Nowhere, Carries
  <1> QED
    BY <1>9, <1>10, <1>11, <1>12, <1>13 DEF OnceInv

LEMMA OnceAbort == ASSUME OnceInv, TypeOK, NEW g \in Senders, SendAbort(g) PROVE OnceInv'
  <1>1. UNCHANGED <<up, queue, wk, submit>> /\ sending' = [sending EXCEPT ![g] = <<>>]
    BY DEF SendAbort, process, handlers
  <1>2. \A h \in Senders : sending'[h] = sending[h] \/ sending'[h] = <<>>
    BY <1>1 DEF TypeOK
  <1>3. DOMAIN <<>> = {}
    OBVIOUS
  <1>4. \A h \in Senders : \A i \in DOMAIN sending'[h] : i \in DOMAIN sending[h] /\ sending'[h][i] = sending[h][i]
    BY <1>2, <1>3
  <1>5. \A t \in Tasks : InSender(t)' => InSender(t)
    BY <1>4 DEF InSender
  <1>6. SenderOnce'
    BY <1>4 DEF OnceInv, SenderOnce
  <1> QED
    BY <1>1, <1>5, <1>6 DEF OnceInv, QueueOnce, WorkerOnce, Apart, Unsent, DownIsIdle, Nowhere, InQueue, Carries

\* leaseTask takes the head of the queue: to this worker, or nowhere when it has settled.
LEMMA OnceLease == ASSUME OnceInv, TypeOK, NEW w \in Workers, Lease(w) PROVE OnceInv'
  <1> DEFINE x == Head(queue)
  <1>1. /\ up /\ queue # <<>> /\ queue' = Tail(queue) /\ UNCHANGED <<up, sending, submit>>
        /\ wk' = wk \/ \E n : wk' = [wk EXCEPT ![w] = [IdleWorker EXCEPT !.pc = "leased", !.task = x, !.news = n]]
    BY DEF Lease, At, process, handlers
  <1>2. queue \in Seq(Tasks)
    BY DEF TypeOK
  <1>3. x \in Tasks
    BY <1>1, <1>2, HeadTailProperties
  <1>4. /\ 1 \in DOMAIN queue /\ x = queue[1]
        /\ \A i \in DOMAIN queue' : i \in Nat /\ i + 1 \in DOMAIN queue /\ i + 1 # 1 /\ queue'[i] = queue[i + 1]
    BY <1>1, <1>2, TailPlaces
  <1>5. \A v \in Workers, t \in Tasks : Carries(v, t)' => Carries(v, t) \/ (v = w /\ t = x)
    <2>1. CASE wk' = wk
      BY <2>1 DEF Carries
    <2>2. CASE wk' # wk
      <3>1. PICK n : wk' = [wk EXCEPT ![w] = [IdleWorker EXCEPT !.pc = "leased", !.task = x, !.news = n]]
        BY <1>1, <2>2
      <3>2. \A v \in Workers : wk'[v].task = IF v = w THEN x ELSE wk[v].task
        BY <3>1 DEF TypeOK, IdleWorker
      <3> QED
        BY <3>2 DEF Carries
    <2> QED
      BY <2>1, <2>2
  <1> HIDE DEF x
  <1>6. ~InSender(x) /\ \A v \in Workers : ~Carries(v, x)
    <2>1. InQueue(x)
      BY <1>4 DEF InQueue
    <2> QED
      BY <1>3, <2>1 DEF OnceInv, Apart
  <1>7. \A t \in Tasks : InQueue(t)' => InQueue(t) /\ t # x
    <2> SUFFICES ASSUME NEW t \in Tasks, NEW i \in DOMAIN queue', queue'[i] = t
                 PROVE  InQueue(t) /\ t # x
      BY DEF InQueue
    <2>1. i + 1 \in DOMAIN queue /\ i + 1 # 1 /\ queue[i + 1] = t
      BY <1>4
    <2>2. InQueue(t)
      BY <2>1 DEF InQueue
    <2>3. t # x
      BY <2>1, <1>4 DEF OnceInv, QueueOnce
    <2> QED
      BY <2>2, <2>3
  <1>8. \A t \in Tasks : InSender(t)' <=> InSender(t)
    BY <1>1 DEF InSender
  <1>9. QueueOnce'
    <2> SUFFICES ASSUME NEW i \in DOMAIN queue', NEW k \in DOMAIN queue', queue'[i] = queue'[k]
                 PROVE  i = k
      BY DEF QueueOnce
    <2>1. /\ i \in Nat /\ k \in Nat /\ i + 1 \in DOMAIN queue /\ k + 1 \in DOMAIN queue
          /\ queue[i + 1] = queue[k + 1]
      BY <1>4
    <2>2. i + 1 = k + 1
      BY <2>1 DEF OnceInv, QueueOnce
    <2> QED
      BY <2>1, <2>2
  <1>10. SenderOnce' /\ DownIsIdle'
    <2>1. up' /\ UNCHANGED sending
      BY <1>1
    <2> QED
      BY <2>1 DEF OnceInv, SenderOnce, DownIsIdle
  <1>11. WorkerOnce'
    BY <1>5, <1>6 DEF OnceInv, WorkerOnce
  <1>12. Apart'
    BY <1>5, <1>6, <1>7, <1>8 DEF OnceInv, Apart
  <1>13. Unsent'
    <2>1. InQueue(x)
      BY <1>4 DEF InQueue
    <2> QED
      BY <1>1, <1>3, <1>5, <1>7, <1>8, <2>1 DEF OnceInv, Unsent, Nowhere
  <1> QED
    BY <1>9, <1>10, <1>11, <1>12, <1>13 DEF OnceInv

\* What any other step of a worker does to its task: it keeps it or lets it go.
Keeps(w) ==
  /\ \A v \in Workers \ {w} : wk'[v] = wk[v]
  /\ wk'[w].task \in {wk[w].task, None}

LEMMA Puts ==
  ASSUME TypeOK, NEW w \in Workers, NEW rec, wk' = [wk EXCEPT ![w] = rec], rec.task \in {T(w), None}
  PROVE  Keeps(w)
  BY DEF TypeOK, Keeps, T

LEMMA WaysOn ==
  ASSUME TypeOK, NEW w \in Workers
  PROVE  /\ wk' = wk => Keeps(w)
         /\ wk' = [wk EXCEPT ![w] = IdleWorker] => Keeps(w)
         /\ ToEnd(w) => Keeps(w)
         /\ \A l : Goto(w, l) => Keeps(w)
         /\ \A l, n : wk' = [wk EXCEPT ![w].pc = l, ![w].tries = n] => Keeps(w)
         /\ \A l, n : wk' = [wk EXCEPT ![w].pc = l, ![w].news = n] => Keeps(w)
         /\ \A l, r : wk' = [wk EXCEPT ![w].pc = l, ![w].result = r] => Keeps(w)
  <1>1. wk \in [Workers -> Locals] /\ wk[w] \in Locals
    BY DEF TypeOK
  <1>2. wk' = wk => Keeps(w)
    BY DEF Keeps
  <1>3. wk' = [wk EXCEPT ![w] = IdleWorker] => Keeps(w)
    BY Puts DEF IdleWorker
  <1>4. ToEnd(w) => Keeps(w)
    BY Puts DEF ToEnd, IdleWorker
  <1>5. \A l : Goto(w, l) => Keeps(w)
    BY <1>1 DEF Goto, Keeps, Locals
  <1>6. \A l, n : wk' = [wk EXCEPT ![w].pc = l, ![w].tries = n] => Keeps(w)
    BY <1>1 DEF Keeps, Locals
  <1>7. \A l, n : wk' = [wk EXCEPT ![w].pc = l, ![w].news = n] => Keeps(w)
    BY <1>1 DEF Keeps, Locals
  <1>8. \A l, r : wk' = [wk EXCEPT ![w].pc = l, ![w].result = r] => Keeps(w)
    BY <1>1 DEF Keeps, Locals
  <1> QED
    BY <1>2, <1>3, <1>4, <1>5, <1>6, <1>7, <1>8

LEMMA WorkerKeeps ==
  ASSUME TypeOK, NEW w \in Workers, WorkerStep(w), ~Lease(w) PROVE Keeps(w)
  <1> USE WaysOn
  <1>1. CASE QueueStep(w)
    <2>1. FinalizeTask(w) \/ WorkerExit(w) \/ FinishTask(w) \/ AnnounceStart(w) => Keeps(w)
      BY DEF FinalizeTask, WorkerExit, FinishTask, AnnounceStart
    <2>2. FinalizeJob(w) => Keeps(w)
      <3>1. \A n, d : [IdleWorker EXCEPT !.pc = "settle", !.task = T(w), !.news = n, !.doomed = d].task = T(w)
        BY DEF IdleWorker
      <3>2. FinalizeJob(w) =>
              \/ wk' = [wk EXCEPT ![w] = IdleWorker]
              \/ \E n, d : wk' = [wk EXCEPT ![w] = [IdleWorker EXCEPT !.pc = "settle", !.task = T(w),
                                                                      !.news = n, !.doomed = d]]
        BY DEF FinalizeJob
      <3> QED
        BY <3>1, <3>2, Puts
    <2> QED
      BY <1>1, <2>1, <2>2 DEF QueueStep
  <1>2. CASE ImageStep(w)
    <2>1. ReuseNothing(w) \/ Backoff(w) => Keeps(w)
      BY DEF ReuseNothing, Backoff
    <2>2. ReuseOwned(w) \/ ReuseFails(w) \/ FetchBody(w) \/ FetchRename(w) \/ FetchRetry(w) => Keeps(w)
      BY DEF ReuseOwned, ReuseFails, FetchBody, FetchRename, FetchRetry
    <2>3. FetchFail(w) \/ Interrupted(w) \/ Commit(w) \/ DropFile(w) => Keeps(w)
      BY DEF FetchFail, Interrupted, Commit, DropFile
    <2> QED
      BY <1>2, <2>1, <2>2, <2>3 DEF ImageStep
  <1>3. CASE UgoiraStep(w)
    BY <1>3 DEF UgoiraStep, ConvertBegin, EncodeCreate, DecodeFail, EncodeAbort, EncodeDone, EncodeSwap,
                Accept
  <1>4. CASE MetaStep(w)
    <2>1. MetaBegin(w) \/ MetaClean(w) => Keeps(w)
      BY DEF MetaBegin, MetaClean
    <2>2. MetaWrite(w) => Keeps(w)
      BY DEF MetaWrite
    <2>3. MetaFinish(w) => Keeps(w)
      <3> DEFINE r    == wk[w].result
                 own  == Recorded(Rec(w), r)
                 fin  == IF r = "cancelled" \/ CtxDone(w) THEN ResolveCancelled(own)
                         ELSE Settled(own, IF r = "ok" THEN "completed" ELSE "failed")
                 gone == WrittenPaths({T(w)}, [task EXCEPT ![T(w)] = fin])
                 d    == IF fin.status = "cancelled" THEN gone ELSE {}
      <3>1. MetaFinish(w) => wk' = [wk EXCEPT ![w].pc = "metaClean", ![w].result = None, ![w].doomed = d]
        BY DEF MetaFinish
      <3> HIDE DEF d, r
      <3>2. wk \in [Workers -> Locals] /\ wk[w] \in Locals
        BY DEF TypeOK
      <3> QED
        BY <3>1, <3>2 DEF Keeps, Locals
    <2> QED
      BY <1>4, <2>1, <2>2, <2>3 DEF MetaStep
  <1> QED
    BY <1>1, <1>2, <1>3, <1>4 DEF WorkerStep

LEMMA OnceWorker ==
  ASSUME OnceInv, TypeOK, NEW w \in Workers, WorkerStep(w), ~Lease(w) PROVE OnceInv'
  <1>1. UNCHANGED <<up, queue, sending, submit>>
    BY DEF WorkerStep, QueueStep, ImageStep, UgoiraStep, MetaStep, Elsewhere, process, channels, handlers,
           AnnounceStart, FinalizeTask, FinalizeJob, FinishTask, WorkerExit, ReuseNothing, ReuseOwned,
           ReuseFails, FetchBody, FetchRename, FetchRetry, FetchFail, Backoff, Interrupted, Commit, DropFile,
           ConvertBegin, EncodeCreate, DecodeFail, EncodeAbort, EncodeDone, EncodeSwap, Accept,
           MetaBegin, MetaWrite, MetaFinish, MetaClean
  <1>2. Keeps(w)
    BY WorkerKeeps
  <1>3. \A v \in Workers : \A t \in Tasks : Carries(v, t)' => Carries(v, t)
    BY <1>2, PoolAssumption DEF Keeps, Carries
  <1> QED
    BY <1>1, <1>3, StillOnce

-----------------------------------------------------------------------------
\* With every list empty and every worker idle, every task is nowhere.
AllEmpty ==
  /\ queue = <<>> /\ \A g \in Senders : sending[g] = <<>>
  /\ \A w \in Workers : wk[w] = IdleWorker
  /\ \A j \in Jobs : submit[j] # "inserted"

LEMMA EmptyOnce == AllEmpty => OnceInv
  <1> SUFFICES ASSUME AllEmpty PROVE OnceInv
    OBVIOUS
  <1> USE DEF AllEmpty
  <1>1. DOMAIN <<>> = {}
    OBVIOUS
  <1>2. QueueOnce /\ SenderOnce
    BY <1>1 DEF QueueOnce, SenderOnce
  <1>3. \A w \in Workers, t \in Tasks : ~Carries(w, t)
    BY PoolAssumption DEF Carries, IdleWorker
  <1>4. \A t \in Tasks : ~InSender(t) /\ ~InQueue(t)
    BY <1>1 DEF InSender, InQueue
  <1> QED
    BY <1>2, <1>3, <1>4 DEF OnceInv, WorkerOnce, Apart, Unsent, DownIsIdle, Nowhere

\* Start re-enqueues, from one sender, while nothing else is on its way.
LEMMA OnceBoot == ASSUME OnceInv, SettleInv, TypeOK, Boot PROVE OnceInv'
  <1> DEFINE loaded == [t \in Tasks |-> Loaded(t)]
             todo == {t \in {u \in Tasks : JobOf[u] \in store.jobs} : loaded[t].status \notin Terminal}
  <1>1. ~up /\ up' /\ UNCHANGED <<queue, wk, submit>>
    BY DEF Boot, handlers
  <1>2. PICK s \in Walks(todo) : sending' = [sending EXCEPT ![BootSender] = s]
    BY DEF Boot
  <1>3. todo \in SUBSET Tasks /\ \A t \in todo : JobOf[t] \in store.jobs
    OBVIOUS
  <1>4. (\A t \in Tasks : Nowhere(t)) /\ \A j \in Jobs : submit[j] # "inserted"
    BY <1>1 DEF OnceInv, DownIsIdle
  <1> HIDE DEF loaded, todo
  <1>5. /\ \A i \in DOMAIN s : s[i] \in todo
        /\ \A i, k \in DOMAIN s : s[i] = s[k] => i = k
    BY <1>3, WalkOnce
  <1>6. \A g \in Senders : sending'[g] = IF g = BootSender THEN s ELSE sending[g]
    BY <1>2 DEF TypeOK
  <1>7. \A g \in Senders : \A i \in DOMAIN sending'[g] : g = BootSender
    <2> SUFFICES ASSUME NEW g \in Senders, NEW i \in DOMAIN sending'[g], g # BootSender PROVE FALSE
      OBVIOUS
    <2>1. i \in DOMAIN sending[g] /\ sending[g] \in Seq(Tasks)
      BY <1>6 DEF TypeOK
    <2>2. sending[g][i] \in Tasks
      BY <2>1, ElementOfSeq, LenProperties
    <2> QED
      BY <1>4, <2>1, <2>2 DEF Nowhere, InSender
  <1>8. SenderOnce'
    BY <1>5, <1>6, <1>7 DEF SenderOnce
  <1>9. \A t \in Tasks : ~InQueue(t)' /\ \A w \in Workers : ~Carries(w, t)'
    BY <1>1, <1>4 DEF Nowhere, InQueue, Carries
  <1>10. (QueueOnce /\ WorkerOnce /\ Apart)'
    BY <1>1, <1>9 DEF OnceInv, QueueOnce, WorkerOnce, Apart
  <1>11. Unsent'
    <2> SUFFICES ASSUME NEW t \in Tasks, submit'[JobOf[t]] # "done" PROVE ~InSender(t)'
      BY <1>9 DEF Unsent, Nowhere
    <2>1. submit[JobOf[t]] = "new"
      BY <1>1, <1>4, PoolAssumption DEF TypeOK
    <2>2. JobOf[t] \notin store.jobs
      BY <2>1, PoolAssumption DEF SettleInv, FreshJobs
    <2> QED
      BY <1>3, <1>5, <1>6, <1>7, <2>2 DEF InSender
  <1> QED
    BY <1>1, <1>8, <1>10, <1>11 DEF OnceInv, DownIsIdle

LEMMA OnceProcess == ASSUME OnceInv, SettleInv, TypeOK, ProcessStep PROVE OnceInv'
  <1>1. CASE Stop
    BY <1>1, StillOnce DEF Stop, channels, handlers, Carries
  <1>2. CASE Shutdown \/ Crash
    <2>1. AllEmpty'
      BY <1>2 DEF Shutdown, Crash, Gone, AllEmpty
    <2> QED
      BY <2>1, EmptyOnce, PTL
  <1>3. CASE Boot
    BY <1>3, OnceBoot
  <1> QED
    BY <1>1, <1>2, <1>3 DEF ProcessStep

\* A handler after its critical section, a removal and the user leave every task where it is.
LEMMA OnceRest ==
  ASSUME OnceInv, TypeOK,
         \/ \E j \in Jobs : CancelLock(j) \/ CancelPersist(j) \/ CancelFinish(j)
         \/ \E js : Drop(js) \/ RemoveFinish(js)
         \/ UserStep \/ Rest \/ UNCHANGED vars
  PROVE  OnceInv'
  <1>1. UNCHANGED <<up, queue, sending, wk, submit>>
    BY DEF CancelLock, CancelPersist, CancelFinish, Drop, RemoveFinish, UserStep, UserDeletes, UserPlaces,
           Rest, vars, process, channels, handlers
  <1> QED
    BY <1>1, StillOnce DEF Carries

-----------------------------------------------------------------------------
LEMMA OnceInit == Init => OnceInv
  BY EmptyOnce DEF Init, AllEmpty

LEMMA OnceStep == OnceInv /\ SettleInv /\ [Next]_vars => OnceInv'
  <1> SUFFICES ASSUME OnceInv, SettleInv, [Next]_vars PROVE OnceInv'
    OBVIOUS
  <1>1. TypeOK
    BY DEF SettleInv
  <1>2. CASE \E j \in Jobs : SubmitInsert(j) \/ SubmitFinish(j)
    BY <1>1, <1>2, OnceSubmit
  <1>3. CASE SenderStep
    BY <1>1, <1>3, OnceSend, OnceAbort DEF SenderStep
  <1>4. CASE \E w \in Workers : WorkerStep(w)
    BY <1>1, <1>4, OnceLease, OnceWorker
  <1>5. CASE ProcessStep
    BY <1>1, <1>5, OnceProcess
  <1> QED
    BY <1>1, <1>2, <1>3, <1>4, <1>5, OnceRest DEF Next, HandlerStep, HandlerEnd, Remove, RemoveTerminal

\* The once invariant holds in every reachable state.
THEOREM OnceCorrect == Spec => []OnceInv
  BY OnceInit, OnceStep, SettleCorrect, PTL DEF Spec

\* No task is ever queued twice, held by two workers, or held while it waits to be run.
THEOREM TasksOnce == Spec => []NeverTwice
  <1>1. OnceInv => NeverTwice
    BY DEF OnceInv, NeverTwice, WorkerOnce, Apart, InHand, Holds, Carries
  <1> QED
    BY <1>1, OnceCorrect, PTL

-----------------------------------------------------------------------------
(* The steps of a worker, seen from its task.                              *)

\* Where a step leaves its worker.
LEMMA PcOf ==
  ASSUME TypeOK, NEW w \in Workers
  PROVE  /\ wk' = [wk EXCEPT ![w] = IdleWorker] => wk'[w].task = None
         /\ ToEnd(w) => wk'[w].pc = "finalize" /\ wk'[w].task = T(w)
         /\ \A l : Goto(w, l) => wk'[w].pc = l /\ wk'[w].task = T(w)
         /\ \A l, n : wk' = [wk EXCEPT ![w].pc = l, ![w].tries = n] => wk'[w].pc = l /\ wk'[w].task = T(w)
         /\ \A l, n : wk' = [wk EXCEPT ![w].pc = l, ![w].news = n] => wk'[w].pc = l /\ wk'[w].task = T(w)
         /\ \A l, r : wk' = [wk EXCEPT ![w].pc = l, ![w].result = r] => wk'[w].pc = l /\ wk'[w].task = T(w)
         /\ \A l, r, d : wk' = [wk EXCEPT ![w].pc = l, ![w].result = r, ![w].doomed = d]
                           => wk'[w].pc = l /\ wk'[w].task = T(w)
  <1>1. wk \in [Workers -> Locals] /\ wk[w] \in Locals
    BY DEF TypeOK
  <1>2. wk' = [wk EXCEPT ![w] = IdleWorker] => wk'[w].task = None
    BY <1>1 DEF IdleWorker
  <1>3. ToEnd(w) => wk'[w].pc = "finalize" /\ wk'[w].task = T(w)
    BY <1>1 DEF ToEnd, IdleWorker
  <1>4. \A l : Goto(w, l) => wk'[w].pc = l /\ wk'[w].task = T(w)
    BY <1>1 DEF Goto, Locals, T
  <1>5. \A l, n : wk' = [wk EXCEPT ![w].pc = l, ![w].tries = n] => wk'[w].pc = l /\ wk'[w].task = T(w)
    BY <1>1 DEF Locals, T
  <1>6. \A l, n : wk' = [wk EXCEPT ![w].pc = l, ![w].news = n] => wk'[w].pc = l /\ wk'[w].task = T(w)
    BY <1>1 DEF Locals, T
  <1>7. \A l, r : wk' = [wk EXCEPT ![w].pc = l, ![w].result = r] => wk'[w].pc = l /\ wk'[w].task = T(w)
    BY <1>1 DEF Locals, T
  <1>8. \A l, r, d : wk' = [wk EXCEPT ![w].pc = l, ![w].result = r, ![w].doomed = d]
                       => wk'[w].pc = l /\ wk'[w].task = T(w)
    BY <1>1 DEF Locals, T
  <1> QED
    BY <1>2, <1>3, <1>4, <1>5, <1>6, <1>7, <1>8

\* The status a worker gives its task.
LEMMA StatusOf ==
  ASSUME TypeOK, NEW w \in Workers, T(w) \in Tasks
  PROVE  /\ Rec(w) \in TaskRecords
         /\ \A rec : SetTask(w, rec) => task'[T(w)] = rec
         /\ \A tk \in TaskRecords, s \in Terminal : Settled(tk, s).status \in Terminal
         /\ \A tk \in TaskRecords : /\ ResolveCancelled(tk).status \in Terminal \cup {"queued"}
                                    /\ ~stopping => ResolveCancelled(tk).status \in Terminal
  BY DEF TypeOK, Rec, SetTask, TaskRecords, Settled, ResolveCancelled, Terminal

\* A step leaves its worker with the same task at stage l, the task with status s.
Moves(w, ls, ss) ==
  /\ wk'[w].pc \in ls /\ wk'[w].task = T(w) /\ UNCHANGED stopping
  /\ task'[T(w)].status \in ss

LEMMA MovesInStage ==
  ASSUME NEW w \in Workers,
         \/ Moves(w, Working, {"running"} \cup Terminal)
         \/ Moves(w, Ending \cup {"drop"}, Terminal)
         \/ stopping /\ Moves(w, Ending, Terminal \cup {"queued"})
  PROVE  InStage(w)'
  BY DEF Moves, InStage, Rec, T

LEMMA ImageInStage ==
  ASSUME TypeOK, NEW w \in Workers, InStage(w), ImageStep(w) PROVE InStage(w)'
  <1>1. T(w) \in Tasks /\ UNCHANGED stopping
    BY TypeParts, AtType DEF ImageStep, ReuseNothing, ReuseOwned, ReuseFails, FetchBody, FetchRename, FetchRetry,
       FetchFail, Backoff, Interrupted, Commit, DropFile, Elsewhere, process, Stages
  <1>2. CASE ReuseNothing(w)
    <2>1. At(w, "reuse") /\ wk'[w].pc = "fetch" /\ wk'[w].task = T(w)
      BY <1>2, PcOf DEF ReuseNothing
    <2>2. task'[T(w)].status = Rec(w).status
      BY <1>1, <1>2, StatusOf DEF ReuseNothing, Rec, TaskRecords
    <2> QED
      BY <1>1, <2>1, <2>2, MovesInStage DEF Moves, InStage, At, Working, Ending, T
  <1>3. CASE ReuseOwned(w) \/ FetchBody(w) \/ FetchRename(w) \/ FetchRetry(w) \/ Backoff(w)
    <2>1. /\ \E l \in {"reuse", "fetch", "received", "backoff"} : At(w, l)
          /\ wk'[w].pc \in {"meta", "convert", "received", "renamed", "backoff", "fetch"} /\ wk'[w].task = T(w)
      BY <1>3, PcOf DEF ReuseOwned, AfterMedia, FetchBody, FetchRename, FetchRetry, Backoff
    <2>2. UNCHANGED task
      BY <1>3 DEF ReuseOwned, FetchBody, FetchRename, FetchRetry, Backoff
    <2> QED
      BY <1>1, <2>1, <2>2, MovesInStage DEF Moves, InStage, At, Working, Ending, Rec, T
  <1>4. CASE ReuseFails(w) \/ FetchFail(w)
    <2>1. wk'[w].pc = "finalize" /\ wk'[w].task = T(w)
      BY <1>4, PcOf DEF ReuseFails, FetchFail
    <2>2. task'[T(w)].status \in Terminal
      BY <1>1, <1>4, StatusOf DEF ReuseFails, FetchFail, Terminal
    <2> QED
      BY <1>1, <2>1, <2>2, MovesInStage DEF Moves, Ending
  <1>5. CASE Interrupted(w)
    <2>1. wk'[w].pc = "finalize" /\ wk'[w].task = T(w)
      BY <1>5, PcOf DEF Interrupted
    <2>2. task'[T(w)].status \in Terminal \/ (stopping /\ task'[T(w)].status = "queued")
      BY <1>1, <1>5, StatusOf DEF Interrupted
    <2> QED
      BY <1>1, <2>1, <2>2, MovesInStage DEF Moves, Ending
  <1>6. CASE Commit(w)
    <2> DEFINE own == [Rec(w) EXCEPT !.wrote = TRUE]
    <2>1. own \in TaskRecords /\ own.status = Rec(w).status
      BY <1>1, StatusOf DEF TaskRecords
    <2>2. /\ At(w, "renamed")
          /\ \/ own.status \in Terminal /\ SetTask(w, own) /\ Goto(w, "drop")
             \/ own.status \notin Terminal /\ SetTask(w, own) /\ Goto(w, AfterMedia(w))
             \/ SetTask(w, Settled(own, "completed")) /\ ToEnd(w)
      BY <1>6 DEF Commit
    <2> HIDE DEF own
    <2>3. \/ own.status \in Terminal /\ wk'[w].pc = "drop" /\ task'[T(w)] = own
          \/ own.status \notin Terminal /\ wk'[w].pc \in {"convert", "meta"} /\ task'[T(w)] = own
          \/ task'[T(w)].status \in Terminal /\ wk'[w].pc = "finalize"
      BY <1>1, <2>1, <2>2, PcOf, StatusOf DEF AfterMedia, Terminal
    <2>4. wk'[w].task = T(w)
      BY <2>2, PcOf
    <2> QED
      BY <1>1, <2>1, <2>2, <2>3, <2>4, MovesInStage DEF Moves, InStage, At, Working, Ending, T
  <1>7. CASE DropFile(w)
    <2>1. At(w, "drop") /\ wk'[w].pc = "finalize" /\ wk'[w].task = T(w) /\ UNCHANGED task
      BY <1>7, PcOf DEF DropFile
    <2> QED
      BY <1>1, <2>1, MovesInStage DEF Moves, InStage, At, Working, Ending, Rec, T
  <1> QED
    BY <1>2, <1>3, <1>4, <1>5, <1>6, <1>7 DEF ImageStep

LEMMA UgoiraInStage ==
  ASSUME TypeOK, NEW w \in Workers, InStage(w), UgoiraStep(w) PROVE InStage(w)'
  <1>1. T(w) \in Tasks /\ UNCHANGED stopping
    BY TypeParts, AtType DEF UgoiraStep, ConvertBegin, EncodeCreate, DecodeFail, EncodeAbort, EncodeDone,
       EncodeSwap, Accept, Elsewhere, process, Stages
  <1>2. CASE ConvertBegin(w)
    <2>1. /\ At(w, "convert") /\ UNCHANGED task /\ wk'[w].task = T(w)
          /\ \/ Rec(w).status \in Terminal /\ wk'[w].pc = "finalize"
             \/ wk'[w].pc \in {"accept", "encode"}
      BY <1>2, PcOf DEF ConvertBegin
    <2> QED
      BY <1>1, <2>1, MovesInStage DEF Moves, InStage, At, Working, Ending, Rec, T
  <1>3. CASE EncodeCreate(w) \/ EncodeDone(w)
    <2>1. /\ \E l \in {"encode", "encoding"} : At(w, l)
          /\ UNCHANGED task /\ wk'[w].task = T(w) /\ wk'[w].pc \in {"encoding", "encoded"}
      BY <1>3, PcOf DEF EncodeCreate, EncodeDone
    <2> QED
      BY <1>1, <2>1, MovesInStage DEF Moves, InStage, At, Working, Ending, Rec, T
  <1>4. CASE DecodeFail(w) \/ EncodeAbort(w)
    <2>1. wk'[w].pc = "finalize" /\ wk'[w].task = T(w)
      BY <1>4, PcOf DEF DecodeFail, EncodeAbort
    <2>2. task'[T(w)].status \in Terminal \/ (stopping /\ task'[T(w)].status = "queued")
      BY <1>1, <1>4, StatusOf DEF DecodeFail, EncodeAbort, Terminal
    <2> QED
      BY <1>1, <2>1, <2>2, MovesInStage DEF Moves, Ending
  <1>5. CASE EncodeSwap(w)
    <2>1. At(w, "encoded") /\ wk'[w].pc = "accept" /\ wk'[w].task = T(w)
      BY <1>5, PcOf DEF EncodeSwap
    <2>2. task'[T(w)].status = Rec(w).status
      BY <1>1, <1>5, StatusOf DEF EncodeSwap, TaskRecords
    <2> QED
      BY <1>1, <2>1, <2>2, MovesInStage DEF Moves, InStage, At, Working, Ending, T
  <1>6. CASE Accept(w)
    <2>1. /\ At(w, "accept") /\ wk'[w].task = T(w)
          /\ \/ Rec(w).status \in Terminal /\ UNCHANGED task /\ wk'[w].pc = "drop"
             \/ Rec(w).status \notin Terminal /\ UNCHANGED task /\ wk'[w].pc = "meta"
             \/ SetTask(w, Settled(Rec(w), "completed")) /\ wk'[w].pc = "finalize"
      BY <1>6, PcOf DEF Accept
    <2>2. SetTask(w, Settled(Rec(w), "completed")) => task'[T(w)].status \in Terminal
      BY <1>1, StatusOf DEF Terminal
    <2> QED
      BY <1>1, <2>1, <2>2, MovesInStage DEF Moves, InStage, At, Working, Ending, Rec, T
  <1> QED
    BY <1>2, <1>3, <1>4, <1>5, <1>6 DEF UgoiraStep

LEMMA MetaInStage ==
  ASSUME TypeOK, NEW w \in Workers, InStage(w), MetaStep(w) PROVE InStage(w)'
  <1>1. T(w) \in Tasks /\ UNCHANGED stopping
    BY TypeParts, AtType DEF MetaStep, MetaBegin, MetaWrite, MetaFinish, MetaClean, Elsewhere, process, Stages
  <1>2. CASE MetaBegin(w)
    <2>1. /\ At(w, "meta") /\ UNCHANGED task /\ wk'[w].task = T(w)
          /\ \/ Rec(w).status # "running" /\ wk'[w].pc = "finalize"
             \/ wk'[w].pc \in {"wrote", "write"}
      BY <1>2, PcOf DEF MetaBegin
    <2> QED
      BY <1>1, <2>1, MovesInStage DEF Moves, InStage, At, Working, Ending, Rec, T
  <1>3. CASE MetaWrite(w)
    <2>1. At(w, "write") /\ UNCHANGED task /\ wk'[w].task = T(w) /\ wk'[w].pc = "wrote"
      BY <1>3, PcOf DEF MetaWrite
    <2> QED
      BY <1>1, <2>1, MovesInStage DEF Moves, InStage, At, Working, Ending, Rec, T
  <1>4. CASE MetaFinish(w)
    <2> DEFINE r == wk[w].result
               own == Recorded(Rec(w), r)
               fin == IF r = "cancelled" \/ CtxDone(w) THEN ResolveCancelled(own)
                      ELSE Settled(own, IF r = "ok" THEN "completed" ELSE "failed")
               gone == WrittenPaths({T(w)}, [task EXCEPT ![T(w)] = fin])
               d    == IF fin.status = "cancelled" THEN gone ELSE {}
    <2>1. own \in TaskRecords
      BY <1>1, StatusOf DEF Recorded, TaskRecords
    <2>2. SetTask(w, fin) /\ wk' = [wk EXCEPT ![w].pc = "metaClean", ![w].result = None, ![w].doomed = d]
      BY <1>4 DEF MetaFinish
    <2>3. fin.status \in Terminal \/ (stopping /\ fin.status = "queued")
      <3> HIDE DEF own, r
      <3> QED
        BY <1>1, <2>1, StatusOf DEF Terminal
    <2> HIDE DEF fin, d
    <2>4. wk'[w].pc = "metaClean" /\ wk'[w].task = T(w) /\ task'[T(w)] = fin
      BY <1>1, <2>2, PcOf, StatusOf
    <2> QED
      BY <1>1, <2>3, <2>4, MovesInStage DEF Moves, Ending
  <1>5. CASE MetaClean(w)
    <2>1. At(w, "metaClean") /\ UNCHANGED task /\ wk'[w].task = T(w) /\ wk'[w].pc = "finalize"
      BY <1>5, PcOf DEF MetaClean
    <2> QED
      BY <1>1, <2>1, MovesInStage DEF Moves, InStage, At, Working, Ending, Rec, T
  <1> QED
    BY <1>2, <1>3, <1>4, <1>5 DEF MetaStep

LEMMA QueueInStage ==
  ASSUME TypeOK, NEW w \in Workers, InStage(w), QueueStep(w), ~Lease(w) PROVE InStage(w)'
  <1>1. UNCHANGED <<stopping, task>>
    BY DEF QueueStep, AnnounceStart, FinalizeTask, FinalizeJob, FinishTask, WorkerExit, Elsewhere, process, memory
  <1>2. CASE AnnounceStart(w) \/ FinalizeTask(w)
    <2>1. T(w) \in Tasks
      BY <1>2, TypeParts, AtType DEF AnnounceStart, FinalizeTask, Stages
    <2>2. \/ At(w, "leased") /\ wk'[w].pc = "reuse" /\ wk'[w].task = T(w)
          \/ At(w, "finalize") /\ wk'[w].pc = "aggregate" /\ wk'[w].task = T(w)
      <3>1. CASE AnnounceStart(w)
        <4>1. At(w, "leased") /\ wk' = [wk EXCEPT ![w].pc = "reuse", ![w].news = None]
          BY <3>1 DEF AnnounceStart
        <4> QED
          BY <4>1, PcOf
      <3>2. CASE FinalizeTask(w)
        BY <3>2, PcOf DEF FinalizeTask
      <3> QED
        BY <1>2, <3>1, <3>2
    <2> QED
      BY <1>1, <2>1, <2>2, MovesInStage DEF Moves, InStage, At, Working, Ending, Rec, T
  <1>3. CASE FinalizeJob(w)
    <2>1. T(w) \in Tasks
      BY <1>3, TypeParts, AtType DEF FinalizeJob, Stages
    <2>2. At(w, "aggregate")
      BY <1>3 DEF FinalizeJob
    <2>3. CASE wk' = [wk EXCEPT ![w] = IdleWorker]
      BY <2>3, PcOf, PoolAssumption DEF InStage
    <2>4. CASE \E n, d : wk' = [wk EXCEPT ![w] = [IdleWorker EXCEPT !.pc = "settle", !.task = T(w),
                                                                    !.news = n, !.doomed = d]]
      <3>1. wk'[w].pc = "settle" /\ wk'[w].task = T(w)
        BY <2>4 DEF TypeOK, IdleWorker
      <3> QED
        BY <1>1, <2>1, <2>2, <3>1, MovesInStage DEF Moves, InStage, At, Working, Ending, Rec, T
    <2> QED
      BY <1>3, <2>3, <2>4 DEF FinalizeJob
  <1>4. CASE FinishTask(w)
    BY <1>4, PcOf, PoolAssumption DEF FinishTask, InStage
  <1>5. CASE WorkerExit(w)
    <2>1. At(w, "idle") /\ wk'[w].task = T(w)
      BY <1>5, PcOf DEF WorkerExit
    <2>2. T(w) \notin Tasks
      BY <2>1 DEF At, InStage, Working, Ending, T
    <2> QED
      BY <2>1, <2>2 DEF InStage
  <1> QED
    BY <1>2, <1>3, <1>4, <1>5 DEF QueueStep

LEMMA StepInStage ==
  ASSUME TypeOK, NEW w \in Workers, InStage(w), WorkerStep(w), ~Lease(w) PROVE InStage(w)'
  BY ImageInStage, UgoiraInStage, MetaInStage, QueueInStage DEF WorkerStep

\* Every step but the two ends of finalizeTask leaves the worker with its task.
GoesOn(w) == wk'[w].task = T(w) /\ wk'[w].pc \notin {"aggregate", "settle"}

LEMMA WorkerGoesOn ==
  ASSUME TypeOK, NEW w \in Workers, ImageStep(w) \/ UgoiraStep(w) \/ MetaStep(w)
  PROVE  GoesOn(w) /\ T(w) \in Tasks /\ UNCHANGED jobStatus
  <1>1. T(w) \in Tasks
    BY TypeParts, AtType DEF ImageStep, ReuseNothing, ReuseOwned, ReuseFails, FetchBody, FetchRename, FetchRetry,
       FetchFail, Backoff, Interrupted, Commit, DropFile, UgoiraStep, ConvertBegin, EncodeCreate, DecodeFail,
       EncodeAbort, EncodeDone, EncodeSwap, Accept, MetaStep, MetaBegin, MetaWrite, MetaFinish, MetaClean, Stages
  <1>2. UNCHANGED jobStatus
    BY DEF ImageStep, ReuseNothing, ReuseOwned, ReuseFails, FetchBody, FetchRename, FetchRetry,
       FetchFail, Backoff, Interrupted, Commit, DropFile, UgoiraStep, ConvertBegin, EncodeCreate, DecodeFail,
       EncodeAbort, EncodeDone, EncodeSwap, Accept, MetaStep, MetaBegin, MetaWrite, MetaFinish, MetaClean, Elsewhere
  <1>3. CASE ImageStep(w)
    <2>1. CASE ReuseNothing(w) \/ Backoff(w)
      <3>1. wk'[w].pc = "fetch" /\ wk'[w].task = T(w)
        BY <2>1, PcOf DEF ReuseNothing, Backoff
      <3> QED
        BY <1>1, <1>2, <3>1 DEF GoesOn
    <2>2. CASE ReuseOwned(w) \/ FetchBody(w) \/ FetchRename(w) \/ FetchRetry(w)
      <3>1. /\ wk'[w].pc \in {"meta", "convert", "received", "renamed", "backoff"} /\ wk'[w].task = T(w)
        BY <2>2, PcOf DEF ReuseOwned, AfterMedia, FetchBody, FetchRename, FetchRetry
      <3> QED
        BY <1>1, <1>2, <3>1 DEF GoesOn
    <2>3. CASE ReuseFails(w) \/ FetchFail(w) \/ Interrupted(w) \/ DropFile(w)
      <3>1. wk'[w].pc = "finalize" /\ wk'[w].task = T(w)
        BY <2>3, PcOf DEF ReuseFails, FetchFail, Interrupted, DropFile
      <3> QED
        BY <1>1, <1>2, <3>1 DEF GoesOn
    <2>4. CASE Commit(w)
      <3>1. wk'[w].pc \in {"drop", "convert", "meta", "finalize"} /\ wk'[w].task = T(w)
        <4>1. Goto(w, "drop") \/ Goto(w, AfterMedia(w)) \/ ToEnd(w)
          BY <2>4 DEF Commit
        <4> QED
          BY <4>1, PcOf DEF AfterMedia
      <3> QED
        BY <1>1, <1>2, <3>1 DEF GoesOn
    <2> QED
      BY <1>3, <2>1, <2>2, <2>3, <2>4 DEF ImageStep
  <1>4. CASE UgoiraStep(w)
    <2>1. wk'[w].pc \in {"accept", "encode", "finalize", "encoding", "encoded", "drop", "meta"} /\ wk'[w].task = T(w)
      <3>1. \/ Goto(w, "accept") \/ Goto(w, "encode") \/ Goto(w, "encoding") \/ Goto(w, "encoded")
            \/ Goto(w, "drop") \/ Goto(w, "meta") \/ ToEnd(w)
        BY <1>4 DEF UgoiraStep, ConvertBegin, EncodeCreate, DecodeFail, EncodeAbort, EncodeDone, EncodeSwap, Accept
      <3> QED
        BY <3>1, PcOf
    <2> QED
      BY <1>1, <1>2, <2>1 DEF GoesOn
  <1>5. CASE MetaStep(w)
    <2>1. CASE MetaBegin(w) \/ MetaClean(w)
      <3>1. wk'[w].pc \in {"wrote", "write", "finalize"} /\ wk'[w].task = T(w)
        BY <2>1, PcOf DEF MetaBegin, MetaClean
      <3> QED
        BY <1>1, <1>2, <3>1 DEF GoesOn
    <2>2. CASE MetaWrite(w)
      <3>1. wk'[w].pc = "wrote" /\ wk'[w].task = T(w)
        BY <2>2, PcOf DEF MetaWrite
      <3> QED
        BY <1>1, <1>2, <3>1 DEF GoesOn
    <2>3. CASE MetaFinish(w)
      <3> DEFINE r == wk[w].result
                 own == Recorded(Rec(w), r)
                 fin == IF r = "cancelled" \/ CtxDone(w) THEN ResolveCancelled(own)
                        ELSE Settled(own, IF r = "ok" THEN "completed" ELSE "failed")
                 gone == WrittenPaths({T(w)}, [task EXCEPT ![T(w)] = fin])
                 d    == IF fin.status = "cancelled" THEN gone ELSE {}
      <3>1. wk' = [wk EXCEPT ![w].pc = "metaClean", ![w].result = None, ![w].doomed = d]
        BY <2>3 DEF MetaFinish
      <3> HIDE DEF d
      <3>2. wk'[w].pc = "metaClean" /\ wk'[w].task = T(w)
        BY <3>1, PcOf
      <3> QED
        BY <1>1, <1>2, <3>2 DEF GoesOn
    <2> QED
      BY <1>1, <1>2, <1>5, <2>1, <2>2, <2>3 DEF MetaStep
  <1> QED
    BY <1>1, <1>2, <1>3, <1>4, <1>5

\* A worker writes the record of its own task, and of no other.
LEMMA WorkerWrites ==
  ASSUME TypeOK, NEW w \in Workers, WorkerStep(w), ~Lease(w)
  PROVE  /\ \A t \in Tasks : t # T(w) => task'[t] = task[t]
         /\ QueueStep(w) => UNCHANGED task
  <1>1. UNCHANGED task \/ \E rec : SetTask(w, rec)
    BY DEF WorkerStep, QueueStep, AnnounceStart, FinalizeTask, FinalizeJob, FinishTask, WorkerExit,
       ImageStep, ReuseNothing, ReuseOwned, ReuseFails, FetchBody, FetchRename, FetchRetry,
       FetchFail, Backoff, Interrupted, Commit, DropFile, UgoiraStep, ConvertBegin, EncodeCreate, DecodeFail,
       EncodeAbort, EncodeDone, EncodeSwap, Accept, MetaStep, MetaBegin, MetaWrite, MetaFinish, MetaClean,
       Elsewhere, memory
  <1>2. QueueStep(w) => UNCHANGED task
    BY DEF QueueStep, AnnounceStart, FinalizeTask, FinalizeJob, FinishTask, WorkerExit, Elsewhere, memory
  <1> QED
    BY <1>1, <1>2 DEF SetTask, TypeOK

\* A worker lets go of its task in the two last steps of finalizeTask only.
LEMMA LetsGo ==
  ASSUME TypeOK, NEW w \in Workers, WorkerStep(w), ~Lease(w), wk'[w].task # T(w)
  PROVE  QueueStep(w) /\ (At(w, "aggregate") \/ At(w, "settle"))
  <1>1. QueueStep(w)
    BY WorkerGoesOn DEF WorkerStep, GoesOn
  <1>2. ~AnnounceStart(w)
    <2> SUFFICES ASSUME AnnounceStart(w) PROVE FALSE
      OBVIOUS
    <2>1. wk' = [wk EXCEPT ![w].pc = "reuse", ![w].news = None]
      BY DEF AnnounceStart
    <2> QED
      BY <2>1, PcOf
  <1>3. ~FinalizeTask(w) /\ ~WorkerExit(w)
    BY PcOf DEF FinalizeTask, WorkerExit
  <1> QED
    BY <1>1, <1>2, <1>3 DEF QueueStep, FinalizeJob, FinishTask

\* In every other step it holds what it held.
LEMMA WorkerHolds ==
  ASSUME TypeOK, NEW w \in Workers, WorkerStep(w), ~Lease(w), ~FinalizeJob(w)
  PROVE  /\ \A v \in Workers, t \in Tasks : Holds(v, t) => Holds(v, t)'
         /\ UNCHANGED jobStatus
         /\ UNCHANGED task \/ GoesOn(w)
  <1>1. \A v \in Workers \ {w} : wk'[v] = wk[v]
    BY WorkerKeeps DEF Keeps
  <1>2. CASE ImageStep(w) \/ UgoiraStep(w) \/ MetaStep(w)
    BY <1>1, <1>2, WorkerGoesOn DEF GoesOn, Holds, T
  <1>3. CASE QueueStep(w)
    <2>1. UNCHANGED <<jobStatus, task>>
      BY <1>3 DEF QueueStep, AnnounceStart, FinalizeTask, FinishTask, WorkerExit, Elsewhere, memory
    <2>2. CASE AnnounceStart(w)
      <3>1. wk' = [wk EXCEPT ![w].pc = "reuse", ![w].news = None]
        BY <2>2 DEF AnnounceStart
      <3>2. wk'[w].pc = "reuse" /\ wk'[w].task = T(w)
        BY <3>1, PcOf
      <3> QED
        BY <1>1, <2>1, <3>2 DEF Holds, T
    <2>3. CASE FinalizeTask(w) \/ WorkerExit(w)
      <3>1. wk'[w].pc \in {"aggregate", "exited"} /\ wk'[w].task = T(w)
        BY <2>3, PcOf DEF FinalizeTask, WorkerExit
      <3> QED
        BY <1>1, <2>1, <3>1 DEF Holds, T
    <2>4. CASE FinishTask(w)
      <3>1. \A t \in Tasks : ~Holds(w, t)
        BY <2>4 DEF FinishTask, At, Holds
      <3> QED
        BY <1>1, <2>1, <3>1 DEF Holds
    <2> QED
      BY <1>3, <2>2, <2>3, <2>4 DEF QueueStep
  <1> QED
    BY <1>2, <1>3 DEF WorkerStep

\* A job's aggregate depends on the statuses of its tasks alone.
LEMMA AggregateSame ==
  ASSUME NEW j \in Jobs, NEW tk, NEW tl, \A t \in TasksOf(j) : tk[t].status = tl[t].status
  PROVE  Aggregate(tk, j) = Aggregate(tl, j)
  <1>1. \A s : Has(tk, j, s) <=> Has(tl, j, s)
    BY DEF Has
  <1> QED
    BY <1>1 DEF Aggregate

\* A walk misses none of its tasks.
LEMMA WalkCovers ==
  ASSUME NEW S \in SUBSET Tasks, NEW s \in Walks(S), NEW t \in S
  PROVE  \E i \in DOMAIN s : s[i] = t
  <1> DEFINE n == Cardinality(S)
  <1>1. IsFiniteSet(S) /\ n \in Nat
    BY PoolAssumption, FS_Subset, FS_CardinalityType
  <1>2. s \in [1..n -> S] /\ \A i, k \in DOMAIN s : s[i] = s[k] => i = k
    BY WalkOnce DEF Walks
  <1>3. IsFiniteSet(1..n) /\ Cardinality(1..n) = n
    BY <1>1, FS_Interval
  <1>4. s \in Injection(1..n, S)
    BY <1>2 DEF Injection, IsInjective
  <1>5. s \in Surjection(1..n, S)
    BY <1>1, <1>3, <1>4, FS_Injection
  <1> QED
    BY <1>2, <1>5 DEF Surjection

\* What is saved says nothing of a job outside the index.
LEMMA SavedBlank ==
  ASSUME Persist, NEW t \in Tasks, JobOf[t] \notin store'.jobs PROVE store'.task[t].status = "queued"
  BY SavedJobs DEF Persist, Snapshot, Blank

\* What a step that takes the head of a list leaves in it, and what one adds.
LEMMA TailKeeps ==
  ASSUME NEW q \in Seq(Tasks), q # <<>>, NEW i \in DOMAIN q, q[i] # Head(q)
  PROVE  \E k \in DOMAIN Tail(q) : Tail(q)[k] = q[i]
  <1>1. /\ Len(q) \in Nat /\ DOMAIN q = 1..Len(q) /\ Head(q) = q[1]
        /\ Tail(q) \in Seq(Tasks) /\ Len(Tail(q)) = Len(q) - 1
        /\ \A k \in 1..Len(Tail(q)) : Tail(q)[k] = q[k + 1]
    BY HeadTailProperties, LenProperties, TailPlaces
  <1>2. DOMAIN Tail(q) = 1..(Len(q) - 1)
    BY <1>1, LenProperties
  <1>3. i \in 2..Len(q)
    BY <1>1
  <1>4. i - 1 \in DOMAIN Tail(q) /\ Tail(q)[i - 1] = q[i]
    BY <1>1, <1>2, <1>3
  <1> QED
    BY <1>4

LEMMA AppendKeeps ==
  ASSUME NEW q \in Seq(Tasks), NEW x \in Tasks
  PROVE  /\ \A i \in DOMAIN q : i \in DOMAIN Append(q, x) /\ Append(q, x)[i] = q[i]
         /\ \E i \in DOMAIN Append(q, x) : Append(q, x)[i] = x
  <1>1. /\ Len(q) \in Nat /\ DOMAIN q = 1..Len(q)
        /\ Append(q, x) \in Seq(Tasks) /\ Len(Append(q, x)) = Len(q) + 1
        /\ \A i \in 1..Len(q) : Append(q, x)[i] = q[i]
        /\ Append(q, x)[Len(q) + 1] = x
    BY AppendProperties, LenProperties
  <1>2. DOMAIN Append(q, x) = 1..(Len(q) + 1)
    BY <1>1, LenProperties
  <1>3. Len(q) + 1 \in DOMAIN Append(q, x)
    BY <1>1, <1>2
  <1> QED
    BY <1>1, <1>2, <1>3

-----------------------------------------------------------------------------
(* The steps of the workers.                                               *)

LEMMA PlaceWorker ==
  ASSUME PlaceInv, OnceInv, TypeOK, NEW w \in Workers, WorkerStep(w), ~Lease(w) PROVE PlaceInv'
  <1> DEFINE x == T(w)
  <1>1. /\ up /\ UNCHANGED <<up, stopping, index, submit, queue, sending>>
        /\ UNCHANGED store \/ Persist
    <2>1. up /\ UNCHANGED <<stopping, queue, sending>>
      BY DEF WorkerStep, QueueStep, AnnounceStart, FinalizeTask, FinalizeJob, FinishTask, WorkerExit,
         ImageStep, ReuseNothing, ReuseOwned, ReuseFails, FetchBody, FetchRename, FetchRetry,
         FetchFail, Backoff, Interrupted, Commit, DropFile, UgoiraStep, ConvertBegin, EncodeCreate, DecodeFail,
         EncodeAbort, EncodeDone, EncodeSwap, Accept, MetaStep, MetaBegin, MetaWrite, MetaFinish, MetaClean,
         Elsewhere, process, channels, At
    <2> QED
      BY <2>1, WorkerIsCalm DEF CalmStep
  <1>2. /\ \A v \in Workers \ {w} : wk'[v] = wk[v]
        /\ wk'[w].task \in {x, None}
    BY WorkerKeeps DEF Keeps, T
  <1>3. /\ \A t \in Tasks : t # x => task'[t] = task[t]
        /\ QueueStep(w) => UNCHANGED task
    BY WorkerWrites
  <1>4. \A v \in Workers : v # w => wk[v].task \notin Tasks \/ wk[v].task # x
    BY DEF OnceInv, WorkerOnce, Carries, T
  <1>5. \A j \in Jobs : submit[j] # "done" => x \notin TasksOf(j)
    BY DEF OnceInv, Unsent, Nowhere, Carries, TasksOf, T
  <1>6. \A v \in Workers : InStage(v)'
    <2>1. InStage(w)'
      BY StepInStage DEF PlaceInv
    <2>2. ASSUME NEW v \in Workers, v # w PROVE InStage(v)'
      <3>1. InStage(v) /\ wk'[v] = wk[v]
        BY <1>2, <2>2 DEF PlaceInv
      <3>2. wk[v].task \in Tasks => task'[wk[v].task] = task[wk[v].task]
        BY <1>3, <1>4, <2>2
      <3> QED
        BY <1>1, <3>1, <3>2 DEF InStage, Rec, T
    <2> QED
      BY <2>1, <2>2
  <1>7. Placed'
    <2> SUFFICES ASSUME NEW t \in Tasks, Live(t)' PROVE HasPlace(t)'
      BY DEF Placed
    <2>1. CASE t = x /\ wk'[w].task = x
      <3>1. InStage(w)' /\ task'[t].status \notin Terminal
        BY <1>6 DEF Live
      <3> QED
        BY <2>1, <3>1 DEF InStage, HasPlace, Carries, Rec, T
    <2>2. CASE t = x /\ wk'[w].task # x
      <3>1. UNCHANGED task /\ wk[w].pc \in {"aggregate", "settle"}
        BY <1>3, <2>2, LetsGo DEF At
      <3>2. InStage(w) /\ task[t].status \notin Terminal
        BY <3>1 DEF PlaceInv, Live
      <3>3. stopping /\ task[t].status = "queued"
        BY <2>2, <3>1, <3>2 DEF InStage, Working, Ending, Rec, T
      <3> QED
        BY <1>1, <3>1, <3>3 DEF HasPlace
    <2>3. CASE t # x
      <3>1. task'[t] = task[t] /\ Live(t)
        BY <1>1, <1>3, <2>3 DEF Live
      <3>2. HasPlace(t)
        BY <1>1, <3>1 DEF PlaceInv, Placed
      <3>3. \A v \in Workers : Carries(v, t) => wk'[v] = wk[v]
        BY <1>2, <2>3 DEF Carries, T
      <3> QED
        BY <1>1, <3>1, <3>2, <3>3 DEF HasPlace, Carries, InSender, InQueue
    <2> QED
      BY <2>1, <2>2, <2>3
  <1>8. Untold'
    <2>1. \A j \in Jobs : submit[j] = "new" => jobStatus'[j] = jobStatus[j]
      <3>1. CASE FinalizeJob(w)
        <4>1. x \in Tasks
          BY <3>1, TypeParts, AtType DEF FinalizeJob, Stages
        <4>2. \A j \in Jobs : submit[j] = "new" => j # J(w)
          BY <1>5, <4>1 DEF TasksOf, J
        <4> QED
          BY <3>1, <4>2 DEF FinalizeJob, TypeOK
      <3>2. CASE ~FinalizeJob(w)
        BY <3>2, WorkerHolds
      <3> QED
        BY <3>1, <3>2
    <2>2. \A t \in Tasks : submit[JobOf[t]] = "new" => task'[t] = task[t]
      BY <1>3, <1>5, PoolAssumption DEF TasksOf
    <2> QED
      BY <1>1, <2>1, <2>2, SavedBlank DEF PlaceInv, Untold
  <1>9. JobStatusSettles'
    <2> SUFFICES ASSUME NEW j \in index, \A v \in Workers : \A t \in TasksOf(j) : ~Holds(v, t)'
                 PROVE  jobStatus'[j] = Aggregate(task', j)
      BY <1>1 DEF JobStatusSettles
    <2>1. j \in Jobs /\ \A t \in TasksOf(j) : t \in Tasks /\ JobOf[t] = j
      BY DEF TypeOK, TasksOf
    <2>2. CASE FinalizeJob(w) /\ j = J(w)
      BY <2>1, <2>2 DEF FinalizeJob, TypeOK
    <2>3. CASE FinalizeJob(w) /\ j # J(w)
      <3>1. jobStatus'[j] = jobStatus[j] /\ UNCHANGED task
        BY <2>1, <2>3 DEF FinalizeJob, TypeOK
      <3>2. \A v \in Workers : \A t \in TasksOf(j) : ~Holds(v, t)
        BY <1>2, <2>1, <2>3 DEF Holds, J, T
      <3> QED
        BY <1>1, <3>1, <3>2 DEF PlaceInv, JobStatusSettles
    <2>4. CASE ~FinalizeJob(w)
      <3>1. \A v \in Workers : \A t \in TasksOf(j) : ~Holds(v, t)
        BY <2>1, <2>4, WorkerHolds
      <3>2. jobStatus'[j] = jobStatus[j]
        BY <2>4, WorkerHolds
      <3>3. \A t \in TasksOf(j) : task[t].status = task'[t].status
        <4>1. UNCHANGED task \/ x \notin TasksOf(j)
          BY <2>4, WorkerHolds DEF GoesOn, Holds
        <4> QED
          BY <1>3, <2>1, <4>1
      <3>4. Aggregate(task, j) = Aggregate(task', j)
        BY <2>1, <3>3, AggregateSame
      <3> QED
        BY <1>1, <3>1, <3>2, <3>4 DEF PlaceInv, JobStatusSettles
    <2> QED
      BY <2>2, <2>3, <2>4
  <1>10. NoneLeftRunning'
    BY <1>1 DEF NoneLeftRunning
  <1> QED
    BY <1>6, <1>7, <1>8, <1>9, <1>10 DEF PlaceInv

LEMMA PlaceLease ==
  ASSUME PlaceInv, OnceInv, TypeOK, NEW w \in Workers, Lease(w) PROVE PlaceInv'
  <1> DEFINE x == Head(queue)
  <1>1. /\ up /\ wk[w].pc = "idle" /\ queue # <<>> /\ queue' = Tail(queue)
        /\ UNCHANGED <<up, stopping, index, sending, submit, store>>
    BY DEF Lease, At, process, handlers
  <1>2. queue \in Seq(Tasks) /\ x \in Tasks /\ JobOf[x] \in Jobs /\ 1 \in DOMAIN queue /\ x = queue[1]
    <2>1. queue \in Seq(Tasks)
      BY DEF TypeOK
    <2> QED
      BY <1>1, <2>1, HeadTailProperties, TailPlaces, PoolAssumption
  <1>3. \/ task[x].status \in Terminal /\ UNCHANGED <<jobStatus, task, wk>>
        \/ /\ task' = [task EXCEPT ![x].status = "running"]
           /\ jobStatus' = IF JobOf[x] \in index THEN [jobStatus EXCEPT ![JobOf[x]] = "running"] ELSE jobStatus
           /\ \E n : wk' = [wk EXCEPT ![w] = [IdleWorker EXCEPT !.pc = "leased", !.task = x, !.news = n]]
    BY DEF Lease
  <1> HIDE DEF x
  <1>4. InQueue(x) /\ (\A v \in Workers : ~Carries(v, x)) /\ submit[JobOf[x]] = "done"
    <2>1. InQueue(x)
      BY <1>2 DEF InQueue
    <2> QED
      BY <1>2, <2>1 DEF OnceInv, Apart, Unsent, Nowhere
  <1>5. \A t \in Tasks : InQueue(t) /\ t # x => InQueue(t)'
    <2>1. \A i \in DOMAIN queue : queue[i] # x => \E k \in DOMAIN queue' : queue'[k] = queue[i]
      BY <1>1, <1>2, TailKeeps DEF x
    <2> QED
      BY <2>1 DEF InQueue
  <1>6. CASE UNCHANGED <<jobStatus, task, wk>> /\ task[x].status \in Terminal
    <2>1. \A v \in Workers : InStage(v)'
      BY <1>1, <1>6 DEF PlaceInv, InStage, Rec, T
    <2>2. Placed'
      <3> SUFFICES ASSUME NEW t \in Tasks, Live(t)' PROVE HasPlace(t)'
        BY DEF Placed
      <3>1. t # x /\ HasPlace(t)
        BY <1>1, <1>6 DEF PlaceInv, Placed, Live
      <3> QED
        BY <1>1, <1>5, <1>6, <3>1 DEF HasPlace, Carries, InSender
    <2>3. Untold' /\ JobStatusSettles' /\ NoneLeftRunning'
      BY <1>1, <1>6 DEF PlaceInv, Untold, JobStatusSettles, NoneLeftRunning, Holds, Aggregate, Has
    <2> QED
      BY <2>1, <2>2, <2>3 DEF PlaceInv
  <1>7. ASSUME NEW n, task' = [task EXCEPT ![x].status = "running"],
               jobStatus' = IF JobOf[x] \in index THEN [jobStatus EXCEPT ![JobOf[x]] = "running"] ELSE jobStatus,
               wk' = [wk EXCEPT ![w] = [IdleWorker EXCEPT !.pc = "leased", !.task = x, !.news = n]]
        PROVE  PlaceInv'
    <2>1. /\ wk'[w].pc = "leased" /\ wk'[w].task = x
          /\ \A v \in Workers : v # w => wk'[v] = wk[v]
      BY <1>7 DEF TypeOK, IdleWorker
    <2>2. /\ task'[x].status = "running"
          /\ \A t \in Tasks : t # x => task'[t] = task[t]
      BY <1>2, <1>7 DEF TypeOK, TaskRecords
    <2>3. \A t \in Tasks : ~Carries(w, t)
      BY <1>1 DEF PlaceInv, InStage, Carries, Working, Ending
    <2>4. \A v \in Workers : InStage(v)'
      <3>1. InStage(w)'
        BY <2>1, <2>2 DEF InStage, Rec, T, Working
      <3>2. ASSUME NEW v \in Workers, v # w PROVE InStage(v)'
        BY <1>1, <1>4, <2>1, <2>2, <3>2 DEF PlaceInv, InStage, Rec, T, Carries
      <3> QED
        BY <3>1, <3>2
    <2>5. Placed'
      <3> SUFFICES ASSUME NEW t \in Tasks, Live(t)' PROVE HasPlace(t)'
        BY DEF Placed
      <3>1. CASE t = x
        BY <2>1, <2>2, <3>1 DEF HasPlace, Carries, Working
      <3>2. CASE t # x
        <4>1. task'[t] = task[t] /\ HasPlace(t)
          BY <1>1, <2>2, <3>2 DEF PlaceInv, Placed, Live
        <4> QED
          BY <1>1, <1>5, <2>1, <2>3, <3>2, <4>1 DEF HasPlace, Carries, InSender
      <3> QED
        BY <3>1, <3>2
    <2>6. Untold'
      <3>1. \A j \in Jobs : submit[j] = "new" => jobStatus'[j] = jobStatus[j]
        BY <1>4, <1>7 DEF TypeOK
      <3>2. \A t \in Tasks : submit[JobOf[t]] = "new" => task'[t] = task[t]
        BY <1>4, <2>2
      <3> QED
        BY <1>1, <3>1, <3>2 DEF PlaceInv, Untold
    <2>7. JobStatusSettles'
      <3> SUFFICES ASSUME NEW j \in index, \A v \in Workers : \A t \in TasksOf(j) : ~Holds(v, t)'
                   PROVE  jobStatus'[j] = Aggregate(task', j)
        BY <1>1 DEF JobStatusSettles
      <3>1. j \in Jobs /\ j # JobOf[x]
        BY <1>2, <2>1 DEF TypeOK, TasksOf, Holds
      <3>2. \A v \in Workers : \A t \in TasksOf(j) : ~Holds(v, t)
        BY <2>1, <2>3 DEF Holds, Carries, TasksOf
      <3>3. jobStatus'[j] = jobStatus[j] /\ \A t \in TasksOf(j) : task[t].status = task'[t].status
        BY <1>7, <2>2, <3>1 DEF TypeOK, TasksOf
      <3>4. Aggregate(task, j) = Aggregate(task', j)
        BY <3>1, <3>3, AggregateSame
      <3> QED
        BY <1>1, <3>2, <3>3, <3>4 DEF PlaceInv, JobStatusSettles
    <2>8. NoneLeftRunning'
      BY <1>1 DEF NoneLeftRunning
    <2> QED
      BY <2>4, <2>5, <2>6, <2>7, <2>8 DEF PlaceInv
  <1> QED
    BY <1>3, <1>6, <1>7

-----------------------------------------------------------------------------
(* The handlers and the senders.                                           *)

\* A step that leaves the memory, the lists and the workers alone, but for jobs that go.
LEMMA PlaceRest ==
  ASSUME PlaceInv, TypeOK, UNCHANGED <<up, jobStatus, task, queue, sending, wk, submit>>,
         index' \subseteq index, stopping => stopping',
         UNCHANGED store \/ Persist, up \/ (UNCHANGED store /\ used'.crashes = used.crashes)
  PROVE  PlaceInv'
  <1>1. \A w \in Workers : InStage(w)'
    BY DEF PlaceInv, InStage, Rec, T
  <1>2. Placed'
    BY DEF PlaceInv, Placed, Live, HasPlace, Carries, InSender, InQueue
  <1>3. Untold'
    BY SavedBlank DEF PlaceInv, Untold
  <1>4. JobStatusSettles'
    BY DEF PlaceInv, JobStatusSettles, Holds, Aggregate, Has
  <1>5. NoneLeftRunning'
    BY DEF PlaceInv, NoneLeftRunning
  <1> QED
    BY <1>1, <1>2, <1>3, <1>4, <1>5 DEF PlaceInv

LEMMA PlaceSubmit ==
  ASSUME PlaceInv, SettleInv, TypeOK, NEW j \in Jobs, SubmitInsert(j) \/ SubmitFinish(j) PROVE PlaceInv'
  <1>0. \A t \in Tasks : JobOf[t] \in Jobs
    BY PoolAssumption
  <1>1. CASE SubmitInsert(j)
    <2>1. /\ up /\ submit[j] = "new" /\ TasksOf(j) # {}
          /\ UNCHANGED <<up, stopping, jobStatus, queue, sending, wk, store>>
          /\ index' = index \cup {j} /\ submit' = [submit EXCEPT ![j] = "inserted"]
      BY <1>1 DEF SubmitInsert, process, channels
    <2>2. \A t \in Tasks : task'[t].status = task[t].status
      <3>1. PICK pick : task' = [t \in Tasks |-> IF t \in TasksOf(j) THEN Moved(task[t], pick[t]) ELSE task[t]]
        BY <1>1 DEF SubmitInsert
      <3>2. \A n : \A t \in Tasks : Moved(task[t], n).status = task[t].status
        BY DEF TypeOK, TaskRecords, Moved
      <3> QED
        BY <3>1, <3>2
    <2>3. \A t \in Tasks : JobOf[t] = j => task[t].status = "queued"
      BY <2>1 DEF PlaceInv, Untold
    <2>4. \A k \in Jobs : submit'[k] = IF k = j THEN "inserted" ELSE submit[k]
      BY <2>1 DEF TypeOK
    <2>5. \A w \in Workers : InStage(w)'
      BY <2>1, <2>2 DEF PlaceInv, InStage, Rec, T
    <2>6. Placed'
      <3> SUFFICES ASSUME NEW t \in Tasks, Live(t)' PROVE HasPlace(t)'
        BY DEF Placed
      <3>1. CASE JobOf[t] = j
        BY <2>2, <2>3, <2>4, <3>1 DEF HasPlace
      <3>2. CASE JobOf[t] # j
        <4>1. HasPlace(t)
          BY <2>1, <2>2, <3>2 DEF PlaceInv, Placed, Live
        <4> QED
          BY <1>0, <2>1, <2>2, <2>4, <3>2, <4>1 DEF HasPlace, Carries, InSender, InQueue
      <3> QED
        BY <3>1, <3>2
    <2>7. Untold'
      BY <1>0, <2>1, <2>2, <2>4 DEF PlaceInv, Untold
    <2>8. JobStatusSettles'
      <3> SUFFICES ASSUME NEW k \in index', \A w \in Workers : \A t \in TasksOf(k) : ~Holds(w, t)'
                   PROVE  jobStatus'[k] = Aggregate(task', k)
        BY DEF JobStatusSettles
      <3>1. CASE k = j
        <4>1. \A t \in TasksOf(k) : task'[t].status = "queued"
          BY <2>2, <2>3, <3>1 DEF TasksOf
        <4>2. Aggregate(task', k) = "queued"
          BY <4>1, <2>1, <3>1 DEF Aggregate, Has
        <4> QED
          BY <2>1, <3>1, <4>2 DEF PlaceInv, Untold
      <3>2. CASE k # j
        <4>1. k \in index /\ k \in Jobs
          BY <2>1, <3>2 DEF TypeOK
        <4>2. Aggregate(task, k) = Aggregate(task', k)
          BY <2>2, <4>1, AggregateSame DEF TasksOf
        <4>3. \A w \in Workers : \A t \in TasksOf(k) : ~Holds(w, t)
          BY <2>1 DEF Holds
        <4> QED
          BY <2>1, <4>1, <4>2, <4>3 DEF PlaceInv, JobStatusSettles
      <3> QED
        BY <3>1, <3>2
    <2>9. NoneLeftRunning'
      BY <2>1 DEF NoneLeftRunning
    <2> QED
      BY <2>5, <2>6, <2>7, <2>8, <2>9 DEF PlaceInv
  <1>2. CASE SubmitFinish(j)
    <2>1. /\ up /\ submit[j] = "inserted" /\ submit' = [submit EXCEPT ![j] = "done"]
          /\ UNCHANGED <<up, stopping, index, jobStatus, task, queue, wk>> /\ Persist
      BY <1>2 DEF SubmitFinish, process, memory
    <2>2. PICK s \in Walks(TasksOf(j)) : sending' = [sending EXCEPT ![j] = s]
      BY <1>2 DEF SubmitFinish
    <2>3. /\ sending[j] = <<>>
          /\ \A g \in Senders : sending'[g] = IF g = j THEN s ELSE sending[g]
      BY <2>1, <2>2 DEF PlaceInv, Untold, TypeOK
    <2>4. \A t \in TasksOf(j) : InSender(t)'
      <3> SUFFICES ASSUME NEW t \in TasksOf(j) PROVE InSender(t)'
        OBVIOUS
      <3>1. PICK i \in DOMAIN s : s[i] = t
        BY WalkCovers DEF TasksOf
      <3> QED
        BY <2>3, <3>1 DEF InSender, Senders
    <2>5. \A t \in Tasks : InSender(t) => InSender(t)'
      <3>1. DOMAIN <<>> = {}
        OBVIOUS
      <3> QED
        BY <2>3, <3>1 DEF InSender
    <2>6. \A k \in Jobs : submit'[k] = IF k = j THEN "done" ELSE submit[k]
      BY <2>1 DEF TypeOK
    <2>7. \A w \in Workers : InStage(w)'
      BY <2>1 DEF PlaceInv, InStage, Rec, T
    <2>8. Placed'
      <3> SUFFICES ASSUME NEW t \in Tasks, Live(t)' PROVE HasPlace(t)'
        BY DEF Placed
      <3>1. HasPlace(t)
        BY <2>1 DEF PlaceInv, Placed, Live
      <3>2. submit[JobOf[t]] = "inserted" => submit'[JobOf[t]] = "inserted" \/ InSender(t)'
        BY <1>0, <2>4, <2>6 DEF TasksOf
      <3> QED
        BY <2>1, <2>5, <3>1, <3>2 DEF HasPlace, Carries, InQueue
    <2>9. Untold'
      <3>1. \A k \in Jobs : submit'[k] # "done" => sending'[k] = sending[k] /\ submit'[k] = submit[k]
        BY <2>3, <2>6 DEF Senders
      <3> QED
        BY <1>0, <2>1, <3>1, SavedBlank DEF PlaceInv, Untold
    <2>10. JobStatusSettles' /\ NoneLeftRunning'
      BY <2>1 DEF PlaceInv, JobStatusSettles, NoneLeftRunning, Holds, Aggregate, Has
    <2> QED
      BY <2>7, <2>8, <2>9, <2>10 DEF PlaceInv
  <1> QED
    BY <1>1, <1>2

LEMMA PlaceSender ==
  ASSUME PlaceInv, TypeOK, NEW g \in Senders, Send(g) \/ SendAbort(g) PROVE PlaceInv'
  <1>1. /\ up /\ sending[g] # <<>>
        /\ UNCHANGED <<up, stopping, index, jobStatus, task, wk, submit, store>>
    BY DEF Send, SendAbort, process, memory, handlers
  <1>2. \A t \in Tasks : stopping \/ ((InSender(t) \/ InQueue(t)) => (InSender(t) \/ InQueue(t))')
    <2>1. CASE Send(g)
      <3> DEFINE x == Head(sending[g])
      <3>1. queue' = Append(queue, x) /\ sending' = [sending EXCEPT ![g] = Tail(@)]
        BY <2>1 DEF Send
      <3>2. sending[g] \in Seq(Tasks) /\ queue \in Seq(Tasks)
        BY DEF TypeOK
      <3>3. x \in Tasks
        BY <1>1, <3>2, HeadTailProperties
      <3>4. \A h \in Senders : sending'[h] = IF h = g THEN Tail(sending[g]) ELSE sending[h]
        BY <3>1 DEF TypeOK
      <3>5. \A i \in DOMAIN sending[g] : sending[g][i] # x => \E k \in DOMAIN sending'[g] : sending'[g][k] = sending[g][i]
        <4>1. sending'[g] = Tail(sending[g])
          BY <3>4
        <4>2. \A i \in DOMAIN sending[g] : sending[g][i] # Head(sending[g])
                => \E k \in DOMAIN Tail(sending[g]) : Tail(sending[g])[k] = sending[g][i]
          BY <1>1, <3>2, TailKeeps
        <4> QED
          BY <4>1, <4>2
      <3>6. /\ \A i \in DOMAIN queue : i \in DOMAIN queue' /\ queue'[i] = queue[i]
            /\ \E i \in DOMAIN queue' : queue'[i] = x
        BY <3>1, <3>2, <3>3, AppendKeeps
      <3> HIDE DEF x
      <3>7. ASSUME NEW t \in Tasks, InSender(t), t # x PROVE InSender(t)'
        BY <3>4, <3>5, <3>7 DEF InSender
      <3>8. ASSUME NEW t \in Tasks, InQueue(t) \/ t = x PROVE InQueue(t)'
        BY <3>6, <3>8 DEF InQueue
      <3> QED
        BY <3>7, <3>8
    <2>2. CASE SendAbort(g)
      BY <2>2 DEF SendAbort
    <2> QED
      BY <2>1, <2>2
  <1>3. \A w \in Workers : InStage(w)'
    BY <1>1 DEF PlaceInv, InStage, Rec, T
  <1>4. Placed'
    <2> SUFFICES ASSUME NEW t \in Tasks, Live(t)' PROVE HasPlace(t)'
      BY DEF Placed
    <2>1. HasPlace(t)
      BY <1>1 DEF PlaceInv, Placed, Live
    <2> QED
      BY <1>1, <1>2, <2>1 DEF HasPlace, Carries
  <1>5. Untold'
    <2>1. \A j \in Jobs : submit[j] # "done" => sending'[j] = sending[j]
      <3>1. \A j \in Jobs : j \in Senders /\ (submit[j] # "done" => j # g)
        BY <1>1 DEF PlaceInv, Untold, Senders
      <3>2. \A h \in Senders : h # g => sending'[h] = sending[h]
        BY DEF Send, SendAbort, TypeOK
      <3> QED
        BY <3>1, <3>2
    <2> QED
      BY <1>1, <2>1 DEF PlaceInv, Untold
  <1>6. JobStatusSettles' /\ NoneLeftRunning'
    BY <1>1 DEF PlaceInv, JobStatusSettles, NoneLeftRunning, Holds, Aggregate, Has
  <1> QED
    BY <1>3, <1>4, <1>5, <1>6 DEF PlaceInv

LEMMA PlaceCancel ==
  ASSUME PlaceInv, SettleInv, TypeOK, NEW j \in Jobs, CancelLock(j) PROVE PlaceInv'
  <1>1. /\ up /\ j \in index /\ submit[j] # "new"
        /\ UNCHANGED <<up, stopping, index, queue, sending, wk, submit, store>>
    BY DEF CancelLock, process, channels, SettleInv, FreshJobs
  <1>2. /\ jobStatus' = [jobStatus EXCEPT ![j] = Aggregate(task', j)]
        /\ \A t \in Tasks : JobOf[t] # j \/ task[t].status \in Terminal => task'[t] = task[t]
        /\ \A t \in Tasks : JobOf[t] = j => task'[t].status \in Terminal
    <2> DEFINE hit == {t \in TasksOf(j) : task[t].status \notin Terminal}
               tk  == [t \in Tasks |-> IF t \in hit THEN Settled(task[t], "cancelled") ELSE task[t]]
    <2>1. task' = tk /\ jobStatus' = [jobStatus EXCEPT ![j] = Aggregate(tk, j)]
      BY DEF CancelLock
    <2>2. \A t \in hit : t \in Tasks /\ Settled(task[t], "cancelled").status = "cancelled"
      BY DEF TypeOK, TaskRecords, Settled, TasksOf
    <2>3. \A t \in Tasks : t \in hit <=> JobOf[t] = j /\ task[t].status \notin Terminal
      BY DEF TasksOf
    <2>4. \A t \in Tasks : tk[t] = IF t \in hit THEN Settled(task[t], "cancelled") ELSE task[t]
      OBVIOUS
    <2> HIDE DEF hit, tk
    <2> QED
      BY <2>1, <2>2, <2>3, <2>4 DEF Terminal
  <1>3. \A w \in Workers : InStage(w)'
    <2>1. \A t \in Tasks : task'[t] = task[t] \/ task'[t].status \in Terminal
      BY <1>2
    <2> QED
      BY <1>1, <2>1 DEF PlaceInv, InStage, Rec, T
  <1>4. Placed'
    <2> SUFFICES ASSUME NEW t \in Tasks, Live(t)' PROVE HasPlace(t)'
      BY DEF Placed
    <2>1. task'[t] = task[t] /\ HasPlace(t)
      BY <1>1, <1>2 DEF PlaceInv, Placed, Live
    <2> QED
      BY <1>1, <2>1 DEF HasPlace, Carries, InSender, InQueue
  <1>5. Untold'
    <2>1. \A k \in Jobs : submit[k] = "new" => jobStatus'[k] = jobStatus[k]
      BY <1>1, <1>2 DEF TypeOK
    <2>2. \A t \in Tasks : submit[JobOf[t]] = "new" => task'[t] = task[t]
      BY <1>1, <1>2
    <2> QED
      BY <1>1, <2>1, <2>2 DEF PlaceInv, Untold
  <1>6. JobStatusSettles'
    <2> SUFFICES ASSUME NEW k \in index, \A w \in Workers : \A t \in TasksOf(k) : ~Holds(w, t)'
                 PROVE  jobStatus'[k] = Aggregate(task', k)
      BY <1>1 DEF JobStatusSettles
    <2>1. CASE k = j
      BY <1>2, <2>1 DEF TypeOK
    <2>2. CASE k # j
      <3>1. k \in Jobs /\ jobStatus'[k] = jobStatus[k] /\ \A t \in TasksOf(k) : task[t].status = task'[t].status
        BY <1>2, <2>2 DEF TypeOK, TasksOf
      <3>2. Aggregate(task, k) = Aggregate(task', k)
        BY <3>1, AggregateSame
      <3>3. \A w \in Workers : \A t \in TasksOf(k) : ~Holds(w, t)
        BY <1>1 DEF Holds
      <3> QED
        BY <1>1, <3>1, <3>2, <3>3 DEF PlaceInv, JobStatusSettles
    <2> QED
      BY <2>1, <2>2
  <1>7. NoneLeftRunning'
    BY <1>1 DEF NoneLeftRunning
  <1> QED
    BY <1>3, <1>4, <1>5, <1>6, <1>7 DEF PlaceInv

-----------------------------------------------------------------------------
(* The process.                                                            *)

\* With the process down, nothing is said of anything but of the index on disk.
Down ==
  /\ ~up /\ \A w \in Workers : wk[w] = IdleWorker
  /\ \A j \in Jobs : jobStatus[j] = "queued" /\ sending[j] = <<>>
  /\ \A t \in Tasks : task[t].status = "queued"

StoreToldOnly == \A t \in Tasks : JobOf[t] \notin store.jobs => store.task[t].status = "queued"

LEMMA PlaceDown == Down /\ StoreToldOnly /\ NoneLeftRunning => PlaceInv
  BY PoolAssumption DEF Down, StoreToldOnly, PlaceInv, InStage, IdleWorker, Placed, Untold, JobStatusSettles

LEMMA PlaceGone ==
  ASSUME PlaceInv, TypeOK, Shutdown \/ Crash PROVE PlaceInv'
  <1>1. Down'
    BY DEF Shutdown, Crash, Gone, Senders, Blank, Down
  <1>2. CASE Crash
    <2>1. UNCHANGED store /\ used'.crashes # 0
      BY <1>2 DEF Crash, TypeOK
    <2>2. StoreToldOnly' /\ NoneLeftRunning'
      BY <2>1 DEF PlaceInv, Untold, StoreToldOnly, NoneLeftRunning
    <2> QED
      BY <1>1, <2>2, PlaceDown, PTL
  <1>3. CASE Shutdown
    <2>1. up /\ \A w \in Workers : wk[w].pc = "exited"
      BY <1>3 DEF Shutdown
    <2>2. /\ store'.jobs = index
          /\ \A t \in Tasks : store'.task[t] = IF JobOf[t] \in index THEN task[t] ELSE Blank(t)
      BY <1>3 DEF Shutdown, Snapshot
    <2>3. \A t \in Tasks : JobOf[t] \in index => task[t].status # "running"
      <3> SUFFICES ASSUME NEW t \in Tasks, JobOf[t] \in index, task[t].status = "running" PROVE FALSE
        OBVIOUS
      <3>1. HasPlace(t)
        BY <2>1 DEF PlaceInv, Placed, Live, Terminal
      <3> QED
        BY <2>1, <3>1 DEF HasPlace, Working
    <2>4. StoreToldOnly'
      <3>1. \A t \in Tasks : Blank(t).status = "queued"
        BY DEF Blank
      <3> QED
        BY <2>2, <3>1 DEF StoreToldOnly
    <2>5. NoneLeftRunning'
      BY <2>2, <2>3 DEF NoneLeftRunning
    <2> QED
      BY <1>1, <2>4, <2>5, PlaceDown, PTL
  <1> QED
    BY <1>2, <1>3

LEMMA PlaceBoot == ASSUME PlaceInv, OnceInv, SettleInv, TypeOK, Boot PROVE PlaceInv'
  <1> DEFINE loaded == [t \in Tasks |-> Loaded(t)]
             known  == {t \in Tasks : JobOf[t] \in store.jobs}
             todo   == {t \in known : loaded[t].status \notin Terminal}
             moved  == {t \in todo : ~loaded[t].wrote /\ ~loaded[t].wroteMeta}
  <1>1. /\ ~up /\ up' /\ index' = store.jobs /\ UNCHANGED <<queue, wk, submit>> /\ Persist
        /\ jobStatus' = [j \in Jobs |-> IF j \in store.jobs THEN Aggregate(loaded, j) ELSE "queued"]
    BY DEF Boot, handlers
  <1>2. PICK s \in Walks(todo) : sending' = [sending EXCEPT ![BootSender] = s]
    BY DEF Boot
  <1>3. PICK pick : task' = [t \in Tasks |-> IF t \in moved THEN Moved(loaded[t], pick[t]) ELSE loaded[t]]
    BY DEF Boot
  <1>4. \A t \in Tasks : /\ loaded[t] \in TaskRecords /\ loaded[t].status # "running"
                         /\ store.task[t].status = "queued" => loaded[t].status = "queued"
    <2>1. \A t \in Tasks : loaded[t] = Loaded(t) /\ store.task[t] \in TaskRecords
      BY DEF TypeOK
    <2> HIDE DEF loaded
    <2> QED
      BY <2>1 DEF Loaded, TaskRecords, Status
  <1>5. todo \in SUBSET Tasks
    OBVIOUS
  <1>6. \A t \in Tasks : t \in todo <=> JobOf[t] \in store.jobs /\ loaded[t].status \notin Terminal
    OBVIOUS
  <1> HIDE DEF loaded, todo, moved
  <1>7. \A t \in Tasks : task'[t].status = loaded[t].status
    <2>1. \A n : \A t \in Tasks : Moved(loaded[t], n).status = loaded[t].status
      BY <1>4 DEF TaskRecords, Moved
    <2> QED
      BY <1>3, <2>1
  <1>8. \A g \in Senders : sending'[g] = IF g = BootSender THEN s ELSE sending[g]
    BY <1>2 DEF TypeOK
  <1>9. \A w \in Workers : wk[w].task \notin Tasks
    BY <1>1 DEF OnceInv, DownIsIdle, Nowhere, Carries
  <1>10. \A t \in Tasks : JobOf[t] \in Jobs
    BY PoolAssumption
  <1>11. \A w \in Workers : InStage(w)'
    BY <1>1, <1>9 DEF InStage
  <1>12. Placed'
    <2> SUFFICES ASSUME NEW t \in Tasks, Live(t)' PROVE HasPlace(t)'
      BY DEF Placed
    <2>1. t \in todo
      BY <1>1, <1>6, <1>7 DEF Live
    <2>2. PICK i \in DOMAIN s : s[i] = t
      BY <1>5, <2>1, WalkCovers
    <2>3. InSender(t)'
      BY <1>8, <2>2 DEF InSender, Senders
    <2>4. task'[t].status = "queued"
      BY <1>4, <1>6, <1>7, <2>1 DEF TaskRecords, Status
    <2> QED
      BY <2>3, <2>4 DEF HasPlace
  <1>13. Untold'
    <2>1. \A j \in Jobs : submit[j] = "new" => j \notin store.jobs
      BY DEF SettleInv, FreshJobs
    <2>2. \A j \in Jobs : sending'[j] = sending[j]
      BY <1>8, PoolAssumption DEF Senders
    <2>3. \A t \in Tasks : submit[JobOf[t]] = "new" => task'[t].status = "queued"
      BY <1>4, <1>7, <1>10, <2>1 DEF PlaceInv, Untold
    <2> QED
      BY <1>1, <2>1, <2>2, <2>3, SavedBlank DEF PlaceInv, Untold
  <1>14. JobStatusSettles'
    <2> SUFFICES ASSUME NEW j \in store.jobs PROVE jobStatus'[j] = Aggregate(task', j)
      BY <1>1 DEF JobStatusSettles
    <2>1. j \in Jobs /\ \A t \in TasksOf(j) : loaded[t].status = task'[t].status
      BY <1>7 DEF TypeOK, TasksOf
    <2>2. Aggregate(loaded, j) = Aggregate(task', j)
      BY <2>1, AggregateSame
    <2> QED
      BY <1>1, <2>1, <2>2
  <1>15. NoneLeftRunning'
    BY <1>1 DEF NoneLeftRunning
  <1> QED
    BY <1>11, <1>12, <1>13, <1>14, <1>15 DEF PlaceInv

-----------------------------------------------------------------------------
LEMMA PlaceInit == Init => PlaceInv
  <1> SUFFICES ASSUME Init PROVE PlaceInv
    OBVIOUS
  <1>1. \A w \in Workers : InStage(w)
    BY PoolAssumption DEF Init, InStage, IdleWorker
  <1>2. Placed /\ JobStatusSettles /\ NoneLeftRunning
    BY DEF Init, Placed, Live, JobStatusSettles, NoneLeftRunning
  <1>3. Untold
    BY DEF Init, Untold, Blank, Senders
  <1> QED
    BY <1>1, <1>2, <1>3 DEF PlaceInv

LEMMA PlaceStep == PlaceInv /\ OnceInv /\ SettleInv /\ [Next]_vars => PlaceInv'
  <1> SUFFICES ASSUME PlaceInv, OnceInv, SettleInv, [Next]_vars PROVE PlaceInv'
    OBVIOUS
  <1>1. TypeOK
    BY DEF SettleInv
  <1>2. CASE \E j \in Jobs : SubmitInsert(j) \/ SubmitFinish(j) \/ CancelLock(j)
    BY <1>1, <1>2, PlaceSubmit, PlaceCancel
  <1>3. CASE SenderStep
    BY <1>1, <1>3, PlaceSender DEF SenderStep
  <1>4. CASE \E w \in Workers : WorkerStep(w)
    BY <1>1, <1>4, PlaceLease, PlaceWorker
  <1>5. CASE Shutdown \/ Crash \/ Boot
    BY <1>1, <1>5, PlaceGone, PlaceBoot
  <1>6. CASE \/ \E j \in Jobs : CancelPersist(j) \/ CancelFinish(j)
             \/ \E js : (Drop(js) /\ up) \/ RemoveFinish(js)
             \/ Stop \/ UserStep \/ Rest \/ UNCHANGED vars
    <2>1. CASE \E j \in Jobs : CancelPersist(j) \/ CancelFinish(j)
      BY <1>1, <2>1, PlaceRest DEF CancelPersist, CancelFinish, process, memory, channels
    <2>2. CASE \E js : (Drop(js) /\ up) \/ RemoveFinish(js)
      BY <1>1, <2>2, PlaceRest DEF Drop, RemoveFinish, process, memory, channels
    <2>3. CASE Stop
      BY <1>1, <2>3, PlaceRest DEF Stop, memory, channels, handlers
    <2>4. CASE UserStep
      <3>1. /\ UNCHANGED <<up, stopping, index, jobStatus, task, queue, sending, wk, submit, store>>
            /\ used'.crashes = used.crashes
        BY <1>1, <2>4 DEF UserStep, UserDeletes, UserPlaces, process, memory, channels, handlers, TypeOK
      <3> QED
        BY <1>1, <3>1, PlaceRest
    <2>5. CASE Rest \/ UNCHANGED vars
      BY <1>1, <2>5, PlaceRest DEF Rest, vars
    <2> QED
      BY <1>6, <2>1, <2>2, <2>3, <2>4, <2>5
  <1> QED
    BY <1>2, <1>3, <1>4, <1>5, <1>6 DEF Next, HandlerStep, HandlerEnd, ProcessStep, Remove, RemoveTerminal

\* The place invariant holds in every reachable state.
THEOREM PlaceCorrect == Spec => []PlaceInv
  BY PlaceInit, PlaceStep, OnceCorrect, SettleCorrect, PTL DEF Spec

\* While the pool works no open task is left without a place in a queue or a worker, and
\* no task is shown as running that no worker holds: no interleaving of workers, Submit,
\* Cancel, Remove, a shutdown or a restart strands one.
THEOREM NoneStranded == Spec => []NoStrandedTask
  <1>1. PlaceInv => NoStrandedTask
    <2> SUFFICES ASSUME PlaceInv, up, NEW t \in Tasks, Live(t)
                 PROVE  /\ ~stopping => \/ submit[JobOf[t]] = "inserted" \/ InSender(t) \/ InQueue(t) \/ InHand(t)
                        /\ task[t].status = "running" => InHand(t)
      BY DEF NoStrandedTask
    <2>1. HasPlace(t)
      BY DEF PlaceInv, Placed
    <2>2. \A w \in Workers : Carries(w, t) /\ wk[w].pc \in Working => Holds(w, t)
      BY DEF Carries, Holds, Working
    <2> QED
      BY <2>1, <2>2 DEF HasPlace, InHand
  <1> QED
    BY <1>1, PlaceCorrect, PTL

\* A job no worker is at has the status its tasks add up to, whichever finalizeTask, Cancel
\* or boot was the last to look at them.
THEOREM RestingJobsAgree == Spec => []JobStatusSettles
  BY PlaceCorrect, PTL DEF PlaceInv

LEMMA IndexInit == Init => IndexInv
  BY DEF Init, IndexInv, HasSubmitted

\* A job enters the memory as it is submitted and leaves it only as it may be removed; a boot takes
\* what the last shutdown saved.
LEMMA IndexNext == ASSUME TypeOK, IndexInv, [Next]_vars PROVE IndexInv'
  <1> USE DEF IndexInv, HasSubmitted, process, memory, channels, handlers, news, history
  <1>1. ASSUME UNCHANGED <<up, index, submit>>, used'.crashes = used.crashes, up \/ store' = store
        PROVE  IndexInv'
    BY <1>1
  <1>2. ASSUME NEW j \in Jobs, SubmitInsert(j) PROVE IndexInv'
    BY <1>2 DEF SubmitInsert, TypeOK
  <1>3. ASSUME NEW j \in Jobs, SubmitFinish(j) PROVE IndexInv'
    BY <1>3 DEF SubmitFinish, TypeOK
  <1>4. ASSUME NEW j \in Jobs, Remove(j) PROVE IndexInv'
    BY <1>4 DEF Remove, Drop
  <1>5. ASSUME NEW allowed, RemoveTerminal(allowed) PROVE IndexInv'
    BY <1>5 DEF RemoveTerminal, Drop
  <1>6. CASE HandlerStep
    BY <1>1, <1>2, <1>4, <1>5, <1>6 DEF HandlerStep, CancelLock
  <1>7. CASE HandlerEnd
    BY <1>1, <1>3, <1>7 DEF HandlerEnd, CancelPersist, CancelFinish, RemoveFinish
  <1>8. CASE SenderStep
    BY <1>1, <1>8 DEF SenderStep, Send, SendAbort
  <1>9. ASSUME NEW w \in Workers, WorkerStep(w) PROVE IndexInv'
    <2> DEFINE Frame == up /\ UNCHANGED <<up, index, submit, used>>
    <2>1. QueueStep(w) => Frame
      <3>1. Lease(w) => Frame
        BY DEF Lease, At
      <3>2. FinalizeTask(w) \/ FinalizeJob(w) => Frame
        BY DEF FinalizeTask, FinalizeJob, At
      <3>3. AnnounceStart(w) \/ FinishTask(w) \/ WorkerExit(w) => Frame
        BY DEF AnnounceStart, FinishTask, WorkerExit, Elsewhere, At
      <3> QED
        BY <3>1, <3>2, <3>3 DEF QueueStep
    <2>2. ImageStep(w) => Frame
      <3>1. ReuseNothing(w) \/ ReuseOwned(w) \/ ReuseFails(w) \/ Commit(w) \/ DropFile(w) => Frame
        BY DEF ReuseNothing, ReuseOwned, ReuseFails, Commit, DropFile, Elsewhere, At
      <3>2. FetchBody(w) \/ FetchRename(w) \/ FetchRetry(w) \/ FetchFail(w) => Frame
        BY DEF FetchBody, FetchRename, FetchRetry, FetchFail, Elsewhere, At
      <3>3. Backoff(w) \/ Interrupted(w) => Frame
        BY DEF Backoff, Interrupted, Elsewhere, At
      <3> QED
        BY <3>1, <3>2, <3>3 DEF ImageStep
    <2>3. UgoiraStep(w) => Frame
      BY DEF UgoiraStep, ConvertBegin, EncodeCreate, DecodeFail, EncodeAbort, EncodeDone, EncodeSwap, Accept,
         Elsewhere, At
    <2>4. MetaStep(w) => Frame
      BY DEF MetaStep, MetaBegin, MetaWrite, MetaFinish, MetaClean, Elsewhere, At
    <2>5. Frame
      BY <1>9, <2>1, <2>2, <2>3, <2>4 DEF WorkerStep
    <2> QED
      BY <1>1, <2>5
  <1>10. CASE Stop
    BY <1>1, <1>10 DEF Stop, TypeOK
  <1>11. CASE Shutdown
    <2>1. used' = used \/ used'.crashes = used.crashes + 1
      BY <1>11 DEF Shutdown, TypeOK
    <2>2. used.crashes \in Nat
      BY DEF TypeOK
    <2>3. ASSUME used' = used, used.crashes = 0 PROVE HasSubmitted(store.jobs)'
      BY <1>11, <2>3 DEF Shutdown, Gone, Snapshot, TypeOK
    <2>4. ~up'
      BY <1>11 DEF Shutdown, Gone
    <2> QED
      BY <2>1, <2>2, <2>3, <2>4
  <1>12. CASE Crash
    <2>1. used.crashes \in Nat /\ used'.crashes = used.crashes + 1
      BY <1>12 DEF Crash, TypeOK
    <2> QED
      BY <2>1
  <1>13. CASE Boot
    BY <1>13 DEF Boot
  <1>14. CASE UserStep
    BY <1>1, <1>14 DEF UserStep, UserDeletes, UserPlaces, TypeOK
  <1>15. CASE Rest \/ UNCHANGED vars
    BY <1>1, <1>15 DEF Rest, vars
  <1> QED
    BY <1>6, <1>7, <1>8, <1>9, <1>10, <1>11, <1>12, <1>13, <1>14, <1>15 DEF Next, ProcessStep

THEOREM IndexCorrect == Spec => []IndexInv
  <1>1. TypeOK /\ IndexInv /\ [Next]_vars => IndexInv'
    BY IndexNext
  <1> QED
    BY <1>1, IndexInit, TypeCorrect, PTL DEF Spec

\* An index left by orderly shutdowns records no task as running, and it has every job that was
\* submitted and that nobody may remove.
THEOREM ShutdownDrains == Spec => []DrainedStore
  <1>1. IndexInv => NoneForgotten
    BY DEF IndexInv, NoneForgotten
  <1>2. PlaceInv => NoneLeftRunning
    BY DEF PlaceInv
  <1> QED
    BY <1>1, <1>2, PlaceCorrect, IndexCorrect, PTL DEF DrainedStore

-----------------------------------------------------------------------------
(* What the clients are told of a settled task: the proof of ToldInv.      *)

\* Only AnnounceStart and finalizeTask publish a task's event.
LEMMA WorkerNews ==
  ASSUME NEW w \in Workers, WorkerStep(w)
  PROVE  /\ up /\ UNCHANGED <<up, stopping, index, cancel, used>>
         /\ ~AnnounceStart(w) /\ ~FinalizeTask(w) => UNCHANGED taskNews
  BY DEF WorkerStep, QueueStep, Lease, AnnounceStart, FinalizeTask, FinalizeJob, FinishTask, WorkerExit,
     ImageStep, ReuseNothing, ReuseOwned, ReuseFails, FetchBody, FetchRename, FetchRetry, FetchFail, Backoff,
     Interrupted, Commit, DropFile, UgoiraStep, ConvertBegin, EncodeCreate, DecodeFail, EncodeAbort, EncodeDone,
     EncodeSwap, Accept, MetaStep, MetaBegin, MetaWrite, MetaFinish, MetaClean, Elsewhere, process, memory,
     handlers, news, history, At

\* A job with a cancelled task is cancelled, whatever its other tasks are.
LEMMA CancelledJob ==
  ASSUME NEW tk, NEW t \in Tasks, tk[t].status = "cancelled" PROVE Aggregate(tk, JobOf[t]) = "cancelled"
  BY DEF Aggregate, Has, TasksOf

LEMMA WorkerCancelHolds ==
  ASSUME ToldInv, SettleInv, NEW w \in Workers, WorkerStep(w) PROVE CancelHolds'
  <1>1. TypeOK
    BY DEF SettleInv
  <1>2. UNCHANGED cancel /\ SettledKept
    BY <1>1, WorkerNews, WorkerIsCalm DEF CalmStep
  <1>3. \A j \in Jobs : /\ cancel[j].pc = "no" => cancel[j].tasks = {}
                        /\ cancel[j].tasks \subseteq Tasks
    BY <1>1 DEF ToldInv, CancelHolds, TypeOK, Cancels
  <1>4. \A j \in Jobs : \A t \in cancel[j].tasks : JobOf[t] = j /\ task'[t].status = "cancelled"
    BY <1>2, <1>3 DEF ToldInv, CancelHolds, SettledKept, SettledInMemory, Terminal
  <1>5. ASSUME NEW j \in Jobs, cancel[j].tasks # {} PROVE jobStatus'[j] = "cancelled"
    <2>1. jobStatus[j] = "cancelled" /\ cancel[j].pc # "no"
      BY <1>5 DEF ToldInv, CancelHolds
    <2>2. CASE Lease(w)
      <3> DEFINE x == Head(queue)
      <3>1. queue \in Seq(Tasks) /\ queue # <<>>
        BY <1>1, <2>2 DEF TypeOK, Lease
      <3>2. x \in Tasks
        BY <3>1, HeadTailProperties
      <3>3. \/ UNCHANGED jobStatus
            \/ /\ task[x].status \notin Terminal /\ JobOf[x] \in index
               /\ jobStatus' = [jobStatus EXCEPT ![JobOf[x]] = "running"]
        BY <2>2 DEF Lease
      <3>4. JobOf[x] = j /\ JobOf[x] \in index => task[x].status \in Terminal
        BY <2>1, <3>2 DEF SettleInv, CancelSettlesMemory, SettledInMemory
      <3> HIDE DEF x
      <3> QED
        BY <1>1, <2>1, <3>3, <3>4 DEF TypeOK
    <2>3. CASE FinalizeJob(w)
      <3>1. PICK t \in cancel[j].tasks : JobOf[t] = j /\ task[t].status = "cancelled"
        BY <1>5 DEF ToldInv, CancelHolds
      <3>2. Aggregate(task, j) = "cancelled"
        BY <1>3, <3>1, CancelledJob
      <3> QED
        BY <1>1, <2>1, <2>3, <3>2 DEF FinalizeJob, TypeOK
    <2>4. CASE ~Lease(w) /\ ~FinalizeJob(w)
      BY <1>1, <2>1, <2>4, WorkerHolds
    <2> QED
      BY <2>2, <2>3, <2>4
  <1> QED
    BY <1>2, <1>3, <1>4, <1>5 DEF CancelHolds

LEMMA WorkerTold ==
  ASSUME ToldInv, PlaceInv, OnceInv, SettleInv, NEW w \in Workers, WorkerStep(w) PROVE ToldInv'
  <1>1. TypeOK
    BY DEF SettleInv
  <1>2. UNCHANGED <<up, stopping, index, cancel, used>>
    BY WorkerNews
  <1>3. EndsAreUsed'
    BY <1>2 DEF ToldInv, EndsAreUsed
  <1>4. EndIsTold'
    <2> SUFFICES ASSUME Unbroken, NEW t \in Tasks, JobOf[t] \in index, task'[t].status \in Terminal,
                        ~CancelOwes(t)
                 PROVE  taskNews'[t] = task'[t].status \/ WorkerOwes(t)'
      BY <1>2 DEF EndIsTold, Unbroken, CancelOwes
    <2>1. ~stopping
      BY DEF ToldInv, EndsAreUsed, Unbroken
    <2>2. CASE Lease(w)
      <3>1. ~Carries(w, t)
        BY <2>2 DEF Lease, At, PlaceInv, InStage, Carries, Working, Ending
      <3>2. UNCHANGED taskNews /\ \A v \in Workers : v # w => wk'[v] = wk[v]
        <4>1. wk' = wk \/ \E rec : wk' = [wk EXCEPT ![w] = rec]
          BY <2>2 DEF Lease
        <4>2. UNCHANGED taskNews
          BY <2>2 DEF Lease, news
        <4> QED
          BY <1>1, <4>1, <4>2 DEF TypeOK
      <3>3. task'[t] = task[t]
        <4> DEFINE x == Head(queue)
        <4>1. queue \in Seq(Tasks) /\ queue # <<>>
          BY <1>1, <2>2 DEF TypeOK, Lease
        <4>2. x \in Tasks
          BY <4>1, HeadTailProperties
        <4>3. UNCHANGED task \/ task' = [task EXCEPT ![x].status = "running"]
          BY <2>2 DEF Lease
        <4> HIDE DEF x
        <4> QED
          BY <1>1, <4>2, <4>3 DEF TypeOK, TaskRecords, Terminal
      <3>4. taskNews[t] = task[t].status \/ WorkerOwes(t)
        BY <3>3 DEF ToldInv, EndIsTold
      <3> QED
        BY <3>1, <3>2, <3>3, <3>4 DEF WorkerOwes, Carries
    <2>3. CASE ~Lease(w) /\ t # T(w)
      <3>1. task'[t] = task[t] /\ \A v \in Workers : v # w => wk'[v] = wk[v]
        BY <1>1, <2>3, WorkerWrites, WorkerKeeps DEF Keeps
      <3>2. taskNews'[t] = taskNews[t]
        <4>1. CASE AnnounceStart(w) \/ FinalizeTask(w)
          BY <1>1, <2>3, <4>1 DEF AnnounceStart, FinalizeTask, AnnounceEnd, TypeOK
        <4> QED
          BY <4>1, WorkerNews
      <3>3. taskNews[t] = task[t].status \/ WorkerOwes(t)
        BY <3>1 DEF ToldInv, EndIsTold
      <3> QED
        BY <2>3, <3>1, <3>2, <3>3 DEF WorkerOwes, Carries, T
    <2>4. CASE ~Lease(w) /\ t = T(w) /\ (ImageStep(w) \/ UgoiraStep(w) \/ MetaStep(w))
      BY <1>1, <2>4, WorkerGoesOn DEF GoesOn, WorkerOwes, Carries
    <2>5. CASE ~Lease(w) /\ t = T(w) /\ QueueStep(w)
      <3>1. UNCHANGED task
        BY <1>1, <2>5, WorkerWrites
      <3>2. CASE AnnounceStart(w)
        <4>1. wk' = [wk EXCEPT ![w].pc = "reuse", ![w].news = None]
          BY <3>2 DEF AnnounceStart
        <4>2. wk'[w].pc = "reuse" /\ wk'[w].task = t
          BY <1>1, <2>5, <4>1, PcOf
        <4> QED
          BY <4>2 DEF WorkerOwes, Carries
      <3>3. CASE FinalizeTask(w)
        <4>1. taskNews' = [taskNews EXCEPT ![t] = task[t].status]
          BY <2>5, <3>1, <3>3 DEF FinalizeTask, AnnounceEnd, Rec
        <4> QED
          BY <1>1, <3>1, <4>1 DEF TypeOK
      <3>4. CASE FinalizeJob(w) \/ FinishTask(w)
        <4>1. wk[w].pc \in {"aggregate", "settle"} /\ UNCHANGED taskNews
          BY <3>4 DEF FinalizeJob, FinishTask, At, news
        <4>2. ~WorkerOwes(t)
          BY <2>5, <4>1 DEF WorkerOwes, Carries, OnceInv, WorkerOnce, T
        <4> QED
          BY <3>1, <4>1, <4>2 DEF ToldInv, EndIsTold
      <3>5. CASE WorkerExit(w)
        BY <2>1, <3>5 DEF WorkerExit
      <3> QED
        BY <2>5, <3>2, <3>3, <3>4, <3>5 DEF QueueStep
    <2> QED
      BY <2>2, <2>3, <2>4, <2>5 DEF WorkerStep
  <1> QED
    BY <1>3, <1>4, WorkerCancelHolds DEF ToldInv

\* A step of nobody that settles, announces or takes up a task.
LEMMA ToldRest ==
  ASSUME ToldInv, UNCHANGED <<up, jobStatus, wk, cancel, taskNews>>,
         \A t \in Tasks : task'[t].status = task[t].status,
         \A j \in Jobs : cancel[j].tasks \subseteq Tasks,
         \A t \in Tasks : JobOf[t] \in index' => JobOf[t] \in index \/ task[t].status \notin Terminal,
         used.crashes # 0 \/ used.stops # 0 => used'.crashes # 0 \/ used'.stops # 0,
         stopping' /\ ~stopping => used'.stops # 0
  PROVE  ToldInv'
  <1>1. EndIsTold'
    BY DEF ToldInv, EndIsTold, Unbroken, WorkerOwes, CancelOwes, Carries
  <1>2. CancelHolds'
    BY DEF ToldInv, CancelHolds
  <1>3. EndsAreUsed'
    BY DEF ToldInv, EndsAreUsed
  <1> QED
    BY <1>1, <1>2, <1>3 DEF ToldInv

LEMMA ToldCancel ==
  ASSUME ToldInv, SettleInv, NEW j \in Jobs, CancelLock(j) \/ CancelPersist(j) \/ CancelFinish(j)
  PROVE  ToldInv'
  <1>1. TypeOK
    BY DEF SettleInv
  <1>2. /\ UNCHANGED <<up, stopping, index, wk>>
        /\ used' = used
        /\ \A k \in Jobs : cancel[k].tasks \subseteq Tasks
        /\ \A k \in Jobs : k # j => cancel'[k] = cancel[k]
    BY <1>1 DEF CancelLock, CancelPersist, CancelFinish, process, memory, history, TypeOK, Cancels
  <1>3. EndsAreUsed'
    BY <1>2 DEF ToldInv, EndsAreUsed
  <1>4. \A t \in Tasks : JobOf[t] \in Jobs
    BY PoolAssumption
  <1>5. CASE CancelLock(j)
    <2> DEFINE hit == {t \in TasksOf(j) : task[t].status \notin Terminal}
               tk  == [t \in Tasks |-> IF t \in hit THEN Settled(task[t], "cancelled") ELSE task[t]]
    <2>1. /\ task' = tk /\ jobStatus' = [jobStatus EXCEPT ![j] = Aggregate(tk, j)]
          /\ \E d, n : cancel' = [cancel EXCEPT ![j] = [pc |-> "persist", tasks |-> hit, doomed |-> d, news |-> n]]
          /\ jobStatus[j] \notin Terminal /\ UNCHANGED taskNews
      BY <1>5 DEF CancelLock, news
    <2>2. /\ hit \subseteq Tasks
          /\ \A t \in Tasks : t \in hit <=> JobOf[t] = j /\ task[t].status \notin Terminal
          /\ \A t \in hit : tk[t].status = "cancelled"
          /\ \A t \in Tasks \ hit : tk[t] = task[t]
      BY <1>1 DEF TasksOf, Settled, TypeOK, TaskRecords
    <2> HIDE DEF hit, tk
    <2>3. cancel'[j].pc = "persist" /\ cancel'[j].tasks = hit
      BY <1>1, <2>1 DEF TypeOK
    <2>4. cancel[j].tasks = {}
      BY <2>1 DEF ToldInv, CancelHolds, Terminal
    <2>5. EndIsTold'
      BY <1>2, <1>4, <2>1, <2>2, <2>3, <2>4 DEF ToldInv, EndIsTold, Unbroken, WorkerOwes, CancelOwes, Carries
    <2>6. CancelHolds'
      <3> SUFFICES ASSUME NEW k \in Jobs
                   PROVE  /\ cancel'[k].pc = "no" => cancel'[k].tasks = {}
                          /\ \A t \in cancel'[k].tasks : JobOf[t] = k /\ task'[t].status = "cancelled"
                          /\ cancel'[k].tasks # {} => jobStatus'[k] = "cancelled"
        BY DEF CancelHolds
      <3>1. CASE k = j
        <4>1. \A t \in hit : JobOf[t] = k /\ task'[t].status = "cancelled"
          BY <2>1, <2>2, <3>1
        <4>2. hit # {} => Aggregate(tk, j) = "cancelled"
          BY <2>2, <3>1, <4>1, CancelledJob
        <4> QED
          BY <1>1, <2>1, <2>3, <3>1, <4>1, <4>2 DEF TypeOK
      <3>2. CASE k # j
        <4>1. cancel'[k] = cancel[k] /\ jobStatus'[k] = jobStatus[k]
          BY <1>1, <1>2, <2>1, <3>2 DEF TypeOK
        <4>2. \A t \in cancel[k].tasks : JobOf[t] = k /\ task[t].status = "cancelled" /\ task'[t] = task[t]
          BY <1>2, <2>1, <2>2, <3>2 DEF ToldInv, CancelHolds
        <4> QED
          BY <4>1, <4>2 DEF ToldInv, CancelHolds
      <3> QED
        BY <3>1, <3>2
    <2> QED
      BY <1>3, <2>5, <2>6 DEF ToldInv
  <1>6. CASE CancelPersist(j)
    <2>1. /\ UNCHANGED <<task, jobStatus, taskNews>>
          /\ cancel'[j].tasks = cancel[j].tasks /\ cancel'[j].pc = "clean"
      BY <1>1, <1>6 DEF CancelPersist, memory, news, TypeOK, Cancels
    <2>2. EndIsTold'
      BY <1>2, <1>4, <2>1 DEF ToldInv, EndIsTold, Unbroken, WorkerOwes, CancelOwes, Carries
    <2>3. CancelHolds'
      BY <1>2, <2>1 DEF ToldInv, CancelHolds
    <2> QED
      BY <1>3, <2>2, <2>3 DEF ToldInv
  <1>7. CASE CancelFinish(j)
    <2>1. /\ UNCHANGED <<task, jobStatus>> /\ cancel'[j].pc = "no" /\ cancel'[j].tasks = {}
          /\ \A t \in Tasks : taskNews'[t] = IF t \in cancel[j].tasks THEN "cancelled" ELSE taskNews[t]
      BY <1>1, <1>7 DEF CancelFinish, memory, NoCancel, TypeOK
    <2>2. EndIsTold'
      BY <1>2, <1>4, <2>1 DEF ToldInv, EndIsTold, CancelHolds, Unbroken, WorkerOwes, CancelOwes, Carries
    <2>3. CancelHolds'
      BY <1>2, <2>1 DEF ToldInv, CancelHolds
    <2> QED
      BY <1>3, <2>2, <2>3 DEF ToldInv
  <1> QED
    BY <1>5, <1>6, <1>7

\* The end of the process, and a boot, which only a process that ended comes to.
LEMMA ToldProcess ==
  ASSUME ToldInv, SettleInv, Shutdown \/ Crash \/ Boot PROVE ToldInv'
  <1>1. TypeOK
    BY DEF SettleInv
  <1>2. used' \in [crashes : Nat, stops : Nat, edits : Nat] /\ (used'.crashes # 0 \/ used'.stops # 0)
    BY <1>1 DEF Shutdown, Crash, Boot, history, TypeOK, ToldInv, EndsAreUsed
  <1>3. EndIsTold' /\ EndsAreUsed'
    BY <1>2 DEF EndIsTold, EndsAreUsed, Unbroken
  <1>4. CancelHolds'
    <2>1. \A j \in Jobs : cancel'[j].tasks = {}
      <3>1. CASE Boot
        BY <3>1 DEF Boot, handlers, SettleInv, DownIsEmpty, ToldInv, CancelHolds
      <3>2. CASE Shutdown \/ Crash
        BY <3>2 DEF Shutdown, Crash, Gone, NoCancel
      <3> QED
        BY <3>1, <3>2
    <2> QED
      BY <2>1 DEF CancelHolds
  <1> QED
    BY <1>3, <1>4 DEF ToldInv

LEMMA ToldInit == Init => ToldInv
  <1> SUFFICES ASSUME Init PROVE ToldInv
    OBVIOUS
  <1>1. EndIsTold /\ EndsAreUsed
    BY DEF Init, EndIsTold, EndsAreUsed
  <1>2. CancelHolds
    BY DEF Init, CancelHolds, NoCancel
  <1> QED
    BY <1>1, <1>2 DEF ToldInv

LEMMA ToldStep == ToldInv /\ PlaceInv /\ OnceInv /\ SettleInv /\ [Next]_vars => ToldInv'
  <1> SUFFICES ASSUME ToldInv, PlaceInv, OnceInv, SettleInv, [Next]_vars PROVE ToldInv'
    OBVIOUS
  <1>1. TypeOK /\ \A j \in Jobs : cancel[j].tasks \subseteq Tasks
    BY DEF SettleInv, TypeOK, Cancels
  <1>2. CASE \E j \in Jobs : SubmitInsert(j)
    <2>1. PICK j \in Jobs : SubmitInsert(j)
      BY <1>2
    <2>2. /\ UNCHANGED <<up, stopping, jobStatus, wk, cancel, taskNews, used>>
          /\ index' = index \cup {j} /\ submit[j] = "new"
      BY <2>1 DEF SubmitInsert, process, news, history
    <2>3. \A t \in Tasks : JobOf[t] = j => task[t].status = "queued"
      BY <2>2 DEF PlaceInv, Untold
    <2>4. \A t \in Tasks : task'[t].status = task[t].status
      <3>1. PICK pick : task' = [t \in Tasks |-> IF t \in TasksOf(j) THEN Moved(task[t], pick[t]) ELSE task[t]]
        BY <2>1 DEF SubmitInsert
      <3>2. \A n : \A t \in Tasks : Moved(task[t], n).status = task[t].status
        BY <1>1 DEF TypeOK, TaskRecords, Moved
      <3> QED
        BY <3>1, <3>2
    <2>5. \A t \in Tasks : JobOf[t] \in index' => JobOf[t] \in index \/ task[t].status \notin Terminal
      BY <2>2, <2>3 DEF Terminal
    <2> QED
      BY <1>1, <2>2, <2>4, <2>5, ToldRest
  <1>3. CASE \E j \in Jobs : CancelLock(j) \/ CancelPersist(j) \/ CancelFinish(j)
    BY <1>3, ToldCancel
  <1>4. CASE \E w \in Workers : WorkerStep(w)
    BY <1>4, WorkerTold
  <1>5. CASE Shutdown \/ Crash \/ Boot
    BY <1>5, ToldProcess
  <1>6. CASE \/ \E j \in Jobs : SubmitFinish(j)
             \/ \E js : Drop(js) \/ RemoveFinish(js)
             \/ SenderStep
    <2>1. UNCHANGED <<up, stopping, jobStatus, task, wk, cancel, taskNews, used>> /\ index' \subseteq index
      BY <1>6 DEF SubmitFinish, Drop, RemoveFinish, SenderStep, Send, SendAbort, process, memory, handlers, news,
         history
    <2> QED
      BY <1>1, <2>1, ToldRest
  <1>7. CASE Stop \/ UserStep
    <2>1. UNCHANGED <<up, index, jobStatus, task, wk, cancel, taskNews>>
      BY <1>7 DEF Stop, UserStep, UserDeletes, UserPlaces, process, memory, handlers, news
    <2>2. /\ used'.crashes = used.crashes
          /\ used.stops # 0 => used'.stops # 0
          /\ stopping' /\ ~stopping => used'.stops # 0
      <3>1. used \in [crashes : Nat, stops : Nat, edits : Nat]
        BY <1>1 DEF TypeOK
      <3>2. CASE Stop
        BY <3>1, <3>2 DEF Stop
      <3>3. CASE UserStep
        <4>1. UNCHANGED stopping /\ used' = [used EXCEPT !.edits = @ + 1]
          BY <3>3 DEF UserStep, UserDeletes, UserPlaces, process
        <4> QED
          BY <3>1, <4>1
      <3> QED
        BY <1>7, <3>2, <3>3
    <2> QED
      BY <1>1, <2>1, <2>2, ToldRest
  <1>8. CASE Rest \/ UNCHANGED vars
    BY <1>1, <1>8, ToldRest DEF Rest, vars
  <1> QED
    BY <1>2, <1>3, <1>4, <1>5, <1>6, <1>7, <1>8
    DEF Next, HandlerStep, HandlerEnd, ProcessStep, Remove, RemoveTerminal

\* The last event about a settled task tells how it ended, although workers and Cancel
\* publish after they have let go of the lock, in any order.
THEOREM LastNewsIsTheEnd == Spec => []LastTaskNews
  <1>1. ToldInv => LastTaskNews
    <2> SUFFICES ASSUME ToldInv, up, used.crashes = 0, used.stops = 0, NEW t \in Tasks, JobOf[t] \in index,
                        task[t].status \in Terminal, cancel[JobOf[t]] = NoCancel,
                        \A w \in Workers : wk[w].task # t \/ wk[w].pc \in {"aggregate", "settle"}
                 PROVE  taskNews[t] = task[t].status
      BY DEF LastTaskNews
    <2>1. ~CancelOwes(t) /\ ~WorkerOwes(t)
      BY DEF CancelOwes, NoCancel, WorkerOwes, Carries
    <2> QED
      BY <2>1 DEF ToldInv, EndIsTold, Unbroken
  <1> QED
    BY <1>1, ToldInit, ToldStep, PlaceCorrect, OnceCorrect, SettleCorrect, PTL DEF Spec
=============================================================================
