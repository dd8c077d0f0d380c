------------------------- MODULE DownloadPathProofs -------------------------
(***************************************************************************)
(* Whose the paths and the files are: the proof of JobInv, that a job      *)
(* stays as its tasks ended it, and of PathInv, that tasks at work share   *)
(* no path, that what is there is their own, and that a completed job has  *)
(* all its files; from both, LivePathsDisjoint, OwnedMediaIsMine and       *)
(* CompletedFilesStay of a calm process.  Then the proof of ForeignInv,    *)
(* from which ForeignSidecarKept follows.                                  *)
(***************************************************************************)
EXTENDS DownloadCleanProofs, WellFoundedInduction

-----------------------------------------------------------------------------
(* JobInv.                                                                 *)

LEMMA AggregateEnds ==
  ASSUME NEW tk \in [Tasks -> TaskRecords], NEW j
  PROVE  /\ Aggregate(tk, j) = "completed" => \A t \in TasksOf(j) : tk[t].status = "completed"
         /\ Aggregate(tk, j) = "failed" => \A t \in TasksOf(j) : tk[t].status \in {"completed", "failed"}
         /\ Aggregate(tk, j) = "cancelled" => \E t \in TasksOf(j) : tk[t].status = "cancelled"
  <1>1. \A t \in TasksOf(j) : tk[t].status \in {"queued", "running", "completed", "failed", "cancelled"}
    BY DEF TasksOf, TaskRecords, Status, Terminal
  <1> QED
    BY <1>1 DEF Aggregate, Has

\* What a job has ended as does not change with tasks that stay as they settled.
LEMMA AggregateStays ==
  ASSUME TypeOK, SettledKept, NEW j \in Jobs, Aggregate(task, j) \in Terminal
  PROVE  Aggregate(task', j) = Aggregate(task, j)
  <1>1. \A t \in TasksOf(j) : t \in Tasks /\ (task[t].status \in Terminal => task'[t].status = task[t].status)
    BY DEF SettledKept, SettledInMemory, TasksOf
  <1>2. task \in [Tasks -> TaskRecords]
    BY DEF TypeOK
  <1>3. CASE Aggregate(task, j) = "cancelled"
    <2>1. PICK t \in TasksOf(j) : task[t].status = "cancelled"
      BY <1>2, <1>3, AggregateEnds
    <2> QED
      BY <1>1, <1>3, <2>1 DEF Aggregate, Has, Terminal
  <1>4. CASE Aggregate(task, j) # "cancelled"
    <2>1. \A t \in TasksOf(j) : task[t].status \in Terminal
      BY <1>2, <1>4, AggregateEnds DEF Terminal
    <2> QED
      BY <1>1, <2>1, AggregateSame
  <1> QED
    BY <1>3, <1>4

\* A job with an open task has not ended.
LEMMA OpenJobs ==
  ASSUME JobInv, EndInv, TypeOK, NEW t \in Tasks, JobOf[t] \in index, task[t].status \notin Terminal
  PROVE  jobStatus[JobOf[t]] \notin Terminal
  <1>1. JobOf[t] \in Jobs /\ t \in TasksOf(JobOf[t]) /\ task \in [Tasks -> TaskRecords]
    BY PoolAssumption DEF TasksOf, TypeOK
  <1>2. jobStatus[JobOf[t]] # "completed"
    BY <1>1, AggregateEnds DEF JobInv, Terminal
  <1> QED
    BY <1>2 DEF EndInv, EndedJobs, Ended, Terminal

\* A step after which no job has another status, and no worker or sender another task.
LEMMA JobsRest ==
  ASSUME JobInv, EndInv, TypeOK, SettledKept, UNCHANGED jobStatus,
         \A w \in Workers : wk'[w].task \in Tasks => wk[w].task = wk'[w].task,
         \A j \in index : j \in index' \/ jobStatus[j] \in Terminal,
         \A t \in Tasks : ~Nowhere(t)' => ~Nowhere(t) \/ submit[JobOf[t]] = "inserted",
         \A j \in Jobs : submit'[j] = "inserted" => submit[j] = "inserted" \/ j \in index'
  PROVE  JobInv'
  <1>1. \A j \in Jobs : jobStatus[j] \in Terminal => jobStatus[j] = Aggregate(task', j)
    BY AggregateStays DEF JobInv
  <1>2. \A w \in Workers : wk'[w].task \in Tasks /\ J(w)' \notin index' => jobStatus[J(w)'] \in Terminal
    BY DEF JobInv, J, T
  <1>3. ASSUME NEW t \in Tasks, task'[t].status \notin Terminal, submit'[JobOf[t]] = "inserted" \/ ~Nowhere(t)'
        PROVE  JobOf[t] \in index'
    <2>1. task[t].status \notin Terminal /\ JobOf[t] \in Jobs
      BY <1>3, PoolAssumption DEF SettledKept, SettledInMemory
    <2>2. JobOf[t] \in index' \/ JobOf[t] \in index
      BY <1>3, <2>1 DEF JobInv
    <2> QED
      BY <2>1, <2>2, OpenJobs
  <1> QED
    BY <1>1, <1>2, <1>3 DEF JobInv

LEMMA JobLease ==
  ASSUME JobInv, EndInv, OnceInv, TypeOK, NEW w \in Workers, Lease(w) PROVE JobInv'
  <1> DEFINE x == Head(queue)
  <1>1. queue \in Seq(Tasks) /\ queue # <<>> /\ queue' = Tail(queue)
        /\ UNCHANGED <<index, submit, sending, cancel>>
    BY DEF TypeOK, Lease, handlers
  <1>2. x \in Tasks /\ InQueue(x)
    BY <1>1, HeadTailProperties, LenProperties DEF InQueue
  <1>3. \A t \in Tasks : InQueue(t)' => InQueue(t)
    BY <1>1, TailPlaces DEF InQueue
  <1>4. \A t \in Tasks : InSender(t)' <=> InSender(t)
    BY <1>1 DEF InSender
  <1>5. SettledKept
    BY WorkerIsCalm DEF CalmStep, WorkerStep, QueueStep
  <1>6. CASE task[x].status \in Terminal
    <2>1. UNCHANGED <<jobStatus, wk>>
      BY <1>6 DEF Lease
    <2>2. \A t \in Tasks : ~Nowhere(t)' => ~Nowhere(t)
      BY <1>3, <1>4, <2>1 DEF Nowhere, Carries
    <2> HIDE DEF x
    <2> QED
      BY <1>1, <1>5, <2>1, <2>2, JobsRest
  <1>7. CASE task[x].status \notin Terminal
    <2>1. /\ JobOf[x] \in index
          /\ JobOf[x] \in Jobs
      BY <1>2, <1>7, PoolAssumption DEF JobInv, Nowhere
    <2>2. /\ task' = [task EXCEPT ![x].status = "running"]
          /\ jobStatus' = [jobStatus EXCEPT ![JobOf[x]] = "running"]
          /\ \E n : wk' = [wk EXCEPT ![w] = [IdleWorker EXCEPT !.pc = "leased", !.task = x, !.news = n]]
      BY <1>7, <2>1 DEF Lease
    <2> HIDE DEF x
    <2>3. wk'[w].task = x /\ \A v \in Workers : v # w => wk'[v] = wk[v]
      BY <2>2 DEF TypeOK, IdleWorker
    <2>4. \A j \in Jobs : jobStatus'[j] = IF j = JobOf[x] THEN "running" ELSE jobStatus[j]
      BY <2>2 DEF TypeOK
    <2>5. \A j \in Jobs : jobStatus'[j] \in Terminal => jobStatus'[j] = Aggregate(task', j)
      BY <1>5, <2>4, AggregateStays DEF JobInv, Terminal
    <2>6. \A v \in Workers : wk'[v].task \in Tasks /\ J(v)' \notin index' => jobStatus'[J(v)'] \in Terminal
      <3> SUFFICES ASSUME NEW v \in Workers, wk'[v].task \in Tasks, J(v)' \notin index'
                   PROVE  jobStatus'[J(v)'] \in Terminal
        OBVIOUS
      <3>1. v # w /\ J(v)' = J(v) /\ wk[v].task \in Tasks /\ J(v) \in Jobs /\ J(v) # JobOf[x]
        BY <1>1, <2>1, <2>3, PoolAssumption DEF J, T
      <3> QED
        BY <1>1, <2>4, <3>1 DEF JobInv
    <2>7. ASSUME NEW t \in Tasks, task'[t].status \notin Terminal, submit'[JobOf[t]] = "inserted" \/ ~Nowhere(t)'
          PROVE  JobOf[t] \in index'
      <3>1. task[t].status \notin Terminal
        BY <2>7, <1>5 DEF SettledKept, SettledInMemory
      <3>2. CASE t = x
        BY <1>1, <2>1, <3>2
      <3>3. CASE t # x
        <4>1. \A v \in Workers : Carries(v, t)' => Carries(v, t)
          BY <2>3, <3>3 DEF Carries
        <4>2. ~Nowhere(t)' => ~Nowhere(t)
          BY <1>3, <1>4, <4>1 DEF Nowhere
        <4> QED
          BY <1>1, <2>7, <3>1, <4>2 DEF JobInv
      <3> QED
        BY <3>2, <3>3
    <2> QED
      BY <2>5, <2>6, <2>7 DEF JobInv
  <1> QED
    BY <1>6, <1>7

LEMMA JobWorker ==
  ASSUME JobInv, EndInv, OnceInv, TypeOK, NEW w \in Workers, WorkerStep(w), ~Lease(w) PROVE JobInv'
  <1>1. UNCHANGED <<index, submit>> /\ SettledKept
    BY WorkerIsCalm DEF CalmStep
  <1>2. \A v \in Workers : wk'[v].task \in Tasks => wk[v].task = wk'[v].task
    BY WorkerKeeps, PoolAssumption DEF Keeps
  <1>3. UNCHANGED <<queue, sending>>
    BY DEF WorkerStep, QueueStep, AnnounceStart, FinalizeTask, FinalizeJob, FinishTask, WorkerExit,
       ImageStep, ReuseNothing, ReuseOwned, ReuseFails, FetchBody, FetchRename, FetchRetry,
       FetchFail, Backoff, Interrupted, Commit, DropFile, UgoiraStep, ConvertBegin, EncodeCreate, DecodeFail,
       EncodeAbort, EncodeDone, EncodeSwap, Accept, MetaStep, MetaBegin, MetaWrite, MetaFinish, MetaClean,
       Elsewhere, channels
  <1>4. \A t \in Tasks : ~Nowhere(t)' => ~Nowhere(t)
    BY <1>2, <1>3 DEF Nowhere, InSender, InQueue, Carries
  <1>5. CASE ~FinalizeJob(w)
    <2>1. UNCHANGED jobStatus
      BY <1>5, WorkerHolds
    <2> QED
      BY <1>1, <1>2, <1>4, <2>1, JobsRest
  <1>6. CASE FinalizeJob(w)
    <2> DEFINE now == Aggregate(task, J(w))
    <2>1. T(w) \in Tasks /\ J(w) \in Jobs
      BY <1>6, TypeParts, AtType DEF FinalizeJob, Stages
    <2>2. jobStatus' = [jobStatus EXCEPT ![J(w)] = now] /\ UNCHANGED task
      BY <1>6 DEF FinalizeJob
    <2> HIDE DEF now
    <2>3. \A j \in Jobs : jobStatus'[j] = IF j = J(w) THEN now ELSE jobStatus[j]
      BY <2>1, <2>2 DEF TypeOK
    <2>4. \A j \in Jobs : jobStatus'[j] \in Terminal => jobStatus'[j] = Aggregate(task', j)
      BY <2>2, <2>3 DEF JobInv, now
    <2>5. \A j \in Jobs : jobStatus[j] \in Terminal => jobStatus'[j] = jobStatus[j]
      BY <2>2, <2>3 DEF JobInv, now
    <2>6. \A v \in Workers : wk'[v].task \in Tasks /\ J(v)' \notin index' => jobStatus'[J(v)'] \in Terminal
      <3> SUFFICES ASSUME NEW v \in Workers, wk'[v].task \in Tasks, J(v)' \notin index'
                   PROVE  jobStatus'[J(v)'] \in Terminal
        OBVIOUS
      <3>1. J(v)' = J(v) /\ wk[v].task \in Tasks /\ J(v) \in Jobs
        BY <1>2, PoolAssumption DEF J, T
      <3> QED
        BY <1>1, <2>5, <3>1 DEF JobInv
    <2> QED
      BY <1>1, <1>4, <2>2, <2>4, <2>6 DEF JobInv
  <1> QED
    BY <1>5, <1>6

LEMMA JobSubmit ==
  ASSUME JobInv, EndInv, TypeOK, NEW j \in Jobs, SubmitInsert(j) \/ SubmitFinish(j) PROVE JobInv'
  <1>1. CASE SubmitInsert(j)
    <2>1. /\ UNCHANGED <<jobStatus, wk, queue, sending>>
          /\ index' = index \cup {j} /\ submit' = [submit EXCEPT ![j] = "inserted"]
      BY <1>1 DEF SubmitInsert, process, channels
    <2>2. SettledKept
      <3>1. PICK pick : task' = [t \in Tasks |-> IF t \in TasksOf(j) THEN Moved(task[t], pick[t]) ELSE task[t]]
        BY <1>1 DEF SubmitInsert
      <3>2. \A n : \A t \in Tasks : Moved(task[t], n).status = task[t].status
        BY DEF TypeOK, TaskRecords, Moved
      <3> QED
        BY <3>1, <3>2 DEF SettledKept, SettledInMemory
    <2>3. \A t \in Tasks : Nowhere(t)' <=> Nowhere(t)
      BY <2>1 DEF Nowhere, InSender, InQueue, Carries
    <2>4. \A k \in Jobs : submit'[k] = "inserted" => submit[k] = "inserted" \/ k \in index'
      BY <2>1 DEF TypeOK
    <2> QED
      BY <2>1, <2>2, <2>3, <2>4, JobsRest
  <1>2. CASE SubmitFinish(j)
    <2>1. /\ submit[j] = "inserted" /\ submit' = [submit EXCEPT ![j] = "done"]
          /\ UNCHANGED <<index, jobStatus, task, queue, wk>>
      BY <1>2 DEF SubmitFinish, memory
    <2>2. PICK s \in Walks(TasksOf(j)) : sending' = [sending EXCEPT ![j] = s]
      BY <1>2 DEF SubmitFinish
    <2>3. \A i \in DOMAIN s : s[i] \in Tasks /\ JobOf[s[i]] = j
      BY <2>2, WalkOnce DEF TasksOf
    <2>4. \A g \in Senders : sending'[g] = IF g = j THEN s ELSE sending[g]
      BY <2>2 DEF TypeOK, Senders
    <2>5. \A t \in Tasks : InSender(t)' => InSender(t) \/ submit[JobOf[t]] = "inserted"
      BY <2>1, <2>3, <2>4 DEF InSender
    <2>6. \A t \in Tasks : ~Nowhere(t)' => ~Nowhere(t) \/ submit[JobOf[t]] = "inserted"
      BY <2>1, <2>5 DEF Nowhere, InQueue, Carries
    <2>7. \A k \in Jobs : submit'[k] = "inserted" => submit[k] = "inserted"
      BY <2>1 DEF TypeOK
    <2>8. SettledKept
      BY <2>1 DEF SettledKept
    <2> QED
      BY <2>1, <2>6, <2>7, <2>8, JobsRest
  <1> QED
    BY <1>1, <1>2

LEMMA JobSender ==
  ASSUME JobInv, EndInv, TypeOK, NEW g \in Senders, Send(g) \/ SendAbort(g) PROVE JobInv'
  <1>1. /\ sending[g] # <<>> /\ sending[g] \in Seq(Tasks) /\ queue \in Seq(Tasks)
        /\ UNCHANGED <<index, jobStatus, task, wk, submit>>
    BY DEF Send, SendAbort, memory, handlers, TypeOK
  <1>2. \A t \in Tasks : (InSender(t) \/ InQueue(t))' => InSender(t) \/ InQueue(t)
    <2>1. CASE Send(g)
      <3> DEFINE x == Head(sending[g])
      <3>1. queue' = Append(queue, x) /\ sending' = [sending EXCEPT ![g] = Tail(@)]
        BY <2>1 DEF Send
      <3>2. x \in Tasks /\ InSender(x)
        <4>1. x \in Tasks /\ 1 \in DOMAIN sending[g] /\ sending[g][1] = x
          BY <1>1, HeadTailProperties, TailPlaces
        <4> QED
          BY <4>1 DEF InSender
      <3>3. \A h \in Senders : sending'[h] = IF h = g THEN Tail(sending[g]) ELSE sending[h]
        BY <3>1 DEF TypeOK
      <3>4. \A i \in DOMAIN Tail(sending[g]) : \E k \in DOMAIN sending[g] : sending[g][k] = Tail(sending[g])[i]
        BY <1>1, TailPlaces
      <3>5. \A i \in DOMAIN queue' : queue'[i] = x \/ (i \in DOMAIN queue /\ queue'[i] = queue[i])
        BY <1>1, <3>1, <3>2, AppendPlaces
      <3> HIDE DEF x
      <3>6. \A t \in Tasks : InSender(t)' => InSender(t)
        BY <3>3, <3>4 DEF InSender
      <3>7. \A t \in Tasks : InQueue(t)' => InQueue(t) \/ t = x
        BY <3>5 DEF InQueue
      <3> QED
        BY <3>2, <3>6, <3>7
    <2>2. CASE SendAbort(g)
      <3>1. /\ queue' = queue
            /\ \A h \in Senders : sending'[h] = IF h = g THEN <<>> ELSE sending[h]
        BY <2>2 DEF SendAbort, TypeOK
      <3> QED
        BY <3>1 DEF InSender, InQueue
    <2> QED
      BY <2>1, <2>2
  <1>3. \A t \in Tasks : ~Nowhere(t)' => ~Nowhere(t)
    BY <1>1, <1>2 DEF Nowhere, Carries
  <1>4. SettledKept
    BY <1>1 DEF SettledKept
  <1> QED
    BY <1>1, <1>3, <1>4, JobsRest

LEMMA JobCancel ==
  ASSUME JobInv, EndInv, TypeOK, NEW j \in Jobs, CancelLock(j) PROVE JobInv'
  <1> DEFINE hit == {t \in TasksOf(j) : task[t].status \notin Terminal}
             tk  == [t \in Tasks |-> IF t \in hit THEN Settled(task[t], "cancelled") ELSE task[t]]
  <1>1. /\ task' = tk /\ jobStatus' = [jobStatus EXCEPT ![j] = Aggregate(tk, j)] /\ j \in index
        /\ jobStatus[j] \notin Terminal
        /\ UNCHANGED <<index, wk, submit, queue, sending>>
    BY DEF CancelLock, channels
  <1>2. SettledKept
    BY <1>1 DEF SettledKept, SettledInMemory
  <1> HIDE DEF tk
  <1>3. \A k \in Jobs : jobStatus'[k] = IF k = j THEN Aggregate(task', j) ELSE jobStatus[k]
    BY <1>1 DEF TypeOK
  <1>4. \A k \in Jobs : jobStatus'[k] \in Terminal => jobStatus'[k] = Aggregate(task', k)
    BY <1>2, <1>3, AggregateStays DEF JobInv
  <1>5. \A w \in Workers : wk'[w].task \in Tasks /\ J(w)' \notin index' => jobStatus'[J(w)'] \in Terminal
    <2> SUFFICES ASSUME NEW w \in Workers, wk'[w].task \in Tasks, J(w)' \notin index'
                 PROVE  jobStatus'[J(w)'] \in Terminal
      OBVIOUS
    <2>1. J(w)' = J(w) /\ wk[w].task \in Tasks /\ J(w) \in Jobs /\ J(w) # j
      BY <1>1, PoolAssumption DEF J, T
    <2> QED
      BY <1>1, <1>3, <2>1 DEF JobInv
  <1>6. \A t \in Tasks : Nowhere(t)' <=> Nowhere(t)
    BY <1>1 DEF Nowhere, InSender, InQueue, Carries
  <1>7. \A t \in Tasks : task'[t].status \notin Terminal => task[t].status \notin Terminal
    BY <1>2 DEF SettledKept, SettledInMemory
  <1> QED
    BY <1>1, <1>4, <1>5, <1>6, <1>7 DEF JobInv

LEMMA JobProcess ==
  ASSUME JobInv, EndInv, OnceInv, SettleInv, Shutdown \/ Crash \/ Boot PROVE JobInv'
  <1>1. TypeOK
    BY DEF SettleInv
  <1>2. CASE Shutdown \/ Crash
    <2>1. /\ \A j \in Jobs : jobStatus'[j] = "queued" /\ submit'[j] # "inserted"
          /\ \A w \in Workers : wk'[w].task = None
          /\ queue' = <<>> /\ \A g \in Senders : sending'[g] = <<>>
      BY <1>2 DEF Shutdown, Crash, Gone, IdleWorker
    <2>2. \A t \in Tasks : Nowhere(t)' /\ JobOf[t] \in Jobs
      BY <2>1, PoolAssumption DEF Nowhere, InSender, InQueue, Carries
    <2> QED
      BY <2>1, <2>2, PoolAssumption DEF JobInv, Terminal
  <1>3. CASE Boot
    <2> DEFINE loaded == [t \in Tasks |-> Loaded(t)]
               known  == {t \in Tasks : JobOf[t] \in store.jobs}
               todo   == {t \in known : loaded[t].status \notin Terminal}
               moved  == {t \in todo : ~loaded[t].wrote /\ ~loaded[t].wroteMeta}
    <2>1. /\ ~up /\ index' = store.jobs /\ UNCHANGED <<queue, wk, submit>>
          /\ jobStatus' = [j \in Jobs |-> IF j \in store.jobs THEN Aggregate(loaded, j) ELSE "queued"]
      BY <1>3 DEF Boot, handlers
    <2>2. PICK pick : task' = [t \in Tasks |-> IF t \in moved THEN Moved(loaded[t], pick[t]) ELSE loaded[t]]
      BY <1>3 DEF Boot
    <2>3. PICK s \in Walks(todo) : sending' = [sending EXCEPT ![BootSender] = s]
      BY <1>3 DEF Boot
    <2>4. \A i \in DOMAIN s : s[i] \in Tasks /\ JobOf[s[i]] \in store.jobs
      <3>1. todo \in SUBSET Tasks
        OBVIOUS
      <3>2. \A t \in todo : JobOf[t] \in store.jobs
        OBVIOUS
      <3> HIDE DEF todo
      <3> QED
        BY <3>1, <3>2, WalkOnce
    <2>5. \A t \in Tasks : loaded[t] \in TaskRecords
      <3>1. \A t \in Tasks : loaded[t] = Loaded(t) /\ store.task[t] \in TaskRecords
        BY <1>1 DEF TypeOK
      <3> HIDE DEF loaded
      <3> QED
        BY <3>1 DEF Loaded, TaskRecords, Status
    <2> HIDE DEF loaded, todo, moved
    <2>6. \A t \in Tasks : task'[t].status = loaded[t].status
      <3>1. \A n : \A t \in Tasks : Moved(loaded[t], n).status = loaded[t].status
        BY <2>5 DEF TaskRecords, Moved
      <3> QED
        BY <2>2, <3>1
    <2>7. \A j \in Jobs : jobStatus'[j] \in Terminal => jobStatus'[j] = Aggregate(task', j)
      <3> SUFFICES ASSUME NEW j \in Jobs, jobStatus'[j] \in Terminal PROVE jobStatus'[j] = Aggregate(task', j)
        OBVIOUS
      <3>1. jobStatus'[j] = Aggregate(loaded, j)
        BY <2>1 DEF Terminal
      <3>2. \A t \in TasksOf(j) : loaded[t].status = task'[t].status
        BY <2>6 DEF TasksOf
      <3>3. Aggregate(loaded, j) = Aggregate(task', j)
        BY <3>2, AggregateSame
      <3> QED
        BY <3>1, <3>3
    <2>8. \A w \in Workers : wk'[w].task \notin Tasks
      BY <2>1 DEF OnceInv, DownIsIdle, Nowhere, Carries
    <2>9. \A g \in Senders : sending'[g] = IF g = BootSender THEN s ELSE sending[g]
      BY <1>1, <2>3 DEF TypeOK
    <2>10. ASSUME NEW t \in Tasks, submit'[JobOf[t]] = "inserted" \/ ~Nowhere(t)' PROVE JobOf[t] \in index'
      <3>1. submit'[JobOf[t]] # "inserted" /\ Nowhere(t)
        BY <2>1, PoolAssumption DEF OnceInv, DownIsIdle
      <3>2. InSender(t)'
        BY <2>1, <2>8, <2>10, <3>1 DEF Nowhere, InQueue, Carries
      <3> QED
        BY <2>1, <2>4, <2>9, <3>1, <3>2 DEF Nowhere, InSender
    <2> QED
      BY <2>7, <2>8, <2>10 DEF JobInv
  <1> QED
    BY <1>2, <1>3

LEMMA JobInit == Init => JobInv
  <1> SUFFICES ASSUME Init PROVE JobInv
    OBVIOUS
  <1>1. /\ \A j \in Jobs : jobStatus[j] = "queued" /\ submit[j] = "new"
        /\ \A w \in Workers : wk[w].task = None
        /\ queue = <<>> /\ \A g \in Senders : sending[g] = <<>>
    BY DEF Init, IdleWorker
  <1>2. \A t \in Tasks : Nowhere(t) /\ JobOf[t] \in Jobs
    BY <1>1, PoolAssumption DEF Nowhere, InSender, InQueue, Carries
  <1> QED
    BY <1>1, <1>2, PoolAssumption DEF JobInv, Terminal

LEMMA JobStep == JobInv /\ EndInv /\ OnceInv /\ SettleInv /\ [Next]_vars => JobInv'
  <1> SUFFICES ASSUME JobInv, EndInv, OnceInv, SettleInv, [Next]_vars PROVE JobInv'
    OBVIOUS
  <1>1. TypeOK
    BY DEF SettleInv
  <1>2. CASE \E j \in Jobs : SubmitInsert(j) \/ SubmitFinish(j)
    BY <1>1, <1>2, JobSubmit
  <1>3. CASE \E j \in Jobs : CancelLock(j)
    BY <1>1, <1>3, JobCancel
  <1>4. CASE SenderStep
    BY <1>1, <1>4, JobSender DEF SenderStep
  <1>5. CASE \E w \in Workers : WorkerStep(w)
    BY <1>1, <1>5, JobLease, JobWorker
  <1>6. CASE Shutdown \/ Crash \/ Boot
    BY <1>6, JobProcess
  <1>7. CASE \/ \E j \in Jobs : CancelPersist(j) \/ CancelFinish(j)
             \/ \E j \in Jobs : Remove(j)
             \/ \E allowed \in SUBSET Terminal : RemoveTerminal(allowed)
             \/ \E js : RemoveFinish(js)
             \/ Stop \/ UserStep \/ Rest \/ UNCHANGED vars
    <2>1. UNCHANGED <<jobStatus, task, wk, queue, sending, submit>>
      BY <1>7 DEF CancelPersist, CancelFinish, Remove, RemoveTerminal, Drop, RemoveFinish,
         Stop, UserStep, UserDeletes, UserPlaces, Rest, vars, memory, channels, handlers
    <2>2. \A j \in index : j \in index' \/ jobStatus[j] \in Terminal
      BY <1>7 DEF CancelPersist, CancelFinish, Remove, RemoveTerminal, Drop, RemoveFinish,
         Stop, UserStep, UserDeletes, UserPlaces, Rest, vars, memory
    <2>3. \A t \in Tasks : Nowhere(t)' <=> Nowhere(t)
      BY <2>1 DEF Nowhere, InSender, InQueue, Carries
    <2>4. SettledKept
      BY <2>1 DEF SettledKept
    <2> QED
      BY <1>1, <2>1, <2>2, <2>3, <2>4, JobsRest
  <1> QED
    BY <1>2, <1>3, <1>4, <1>5, <1>6, <1>7 DEF Next, HandlerStep, HandlerEnd, ProcessStep

\* A job that has ended, in the list or removed from it, stays ended, and no open task of a job that
\* is not in the list is on its way to a worker.
THEOREM JobsStayEnded == Spec => []JobInv
  BY JobInit, JobStep, EndsCorrect, OnceCorrect, SettleCorrect, PTL DEF Spec

-----------------------------------------------------------------------------
(* What a step of a worker does to the paths of its task.                  *)

OwnRecord(t, rec) ==
  /\ rec \in TaskRecords /\ rec.ext \in {FirstExt(JobOf[t]), MediaExt[JobOf[t]]}
  /\ rec.status # "cancelled"
  /\ rec.status = "completed" => Whole(t, rec)
  /\ rec.status \notin Terminal /\ rec.wrote => JobOf[t] \in Ugoira \cup WithMeta

\* What the worker's task owns is on disk, unless it is the archive that has just been encoded.
OwnedThere(w) == \A p : Owns(T(w), Rec(w), p) =>
  Labelled(p, T(w)) \/ (wk[w].pc = "encoded" /\ p = FilePath(T(w), Rec(w)))
SidecarLast(t, rec) == \A p \in DOMAIN disk : disk[p] = t /\ p[4] => rec.wrote

\* What holds of a worker with a task as it takes a step.
Ready(w) ==
  /\ TypeOK /\ T(w) \in Tasks /\ Converting(w) /\ AtWork(w) /\ OnlyCancelled(w)
  /\ J(w) \in index => OwnRecord(T(w), Rec(w)) /\ SidecarLast(T(w), Rec(w))
  /\ J(w) \in index /\ jobStatus[J(w)] # "failed" => OwnedThere(w)
  /\ Live(T(w)) => \A p \in Claims(T(w), Rec(w)) \cap DOMAIN disk : disk[p] = T(w)
  /\ wk[w].pc \in Working =>
       Live(T(w)) /\ Rec(w).status = "running" /\ J(w) \in index /\ jobStatus[J(w)] # "failed"

SameDisk == /\ \A p : p \in DOMAIN disk' <=> p \in DOMAIN disk
            /\ \A p \in DOMAIN disk : disk'[p] = disk[p]

\* A step writes and deletes at the paths of a live task only, and leaves what others have.
PathStep(w) ==
  /\ wk'[w].task = T(w) /\ wk'[w].pc # "settle" /\ AtWork(w)'
  /\ SameDisk \/ Live(T(w))
  /\ \A p \in DOMAIN disk : disk[p] # T(w) => p \in DOMAIN disk' /\ disk'[p] = disk[p]
  /\ \A p \in DOMAIN disk' : \/ p \in DOMAIN disk /\ disk'[p] = disk[p]
                             \/ disk'[p] = T(w) /\ p \in Claims(T(w), Rec(w))
  /\ J(w) \in index =>
       /\ OwnRecord(T(w), task'[T(w)]) /\ SidecarLast(T(w), Rec(w))'
       /\ task'[T(w)].status \notin Terminal => Claims(T(w), task'[T(w)]) \subseteq Claims(T(w), Rec(w))
       /\ jobStatus[J(w)] # "failed" => OwnedThere(w)'

LEMMA ClaimsSame ==
  ASSUME NEW t \in Tasks, NEW a \in TaskRecords, NEW b \in TaskRecords, a.suffix = b.suffix, a.ext = b.ext
  PROVE  Claims(t, a) = Claims(t, b)
  BY PathFacts DEF Claims

LEMMA RecordKept ==
  ASSUME NEW t \in Tasks, NEW old, NEW new \in TaskRecords, OwnRecord(t, old), SameFiles(new, old),
         new.status \in {old.status, "failed", "queued"}, old.status \in Terminal => new.status \in Terminal
  PROVE  OwnRecord(t, new)
  BY DEF OwnRecord, SameFiles, Whole, Terminal

\* A step that leaves the files alone.
LEMMA QuietPaths ==
  ASSUME NEW w \in Workers, Ready(w), SameDisk, wk'[w].task = T(w), AtWork(w)',
         wk[w].pc # "encoded", wk'[w].pc # "settle",
         task'[T(w)] \in TaskRecords, SameFiles(task'[T(w)], Rec(w)),
         J(w) \in index => OwnRecord(T(w), task'[T(w)])
  PROVE  PathStep(w)
  <1>1. T(w) \in Tasks /\ Rec(w) \in TaskRecords /\ T(w)' = T(w) /\ Rec(w)' = task'[T(w)]
    BY StatusOf DEF Ready, Rec, T
  <1>2. \A p : Owns(T(w), Rec(w), p) <=> Owns(T(w), task'[T(w)], p)
    BY <1>1, SameOwner
  <1>3. \A p : Labelled(p, T(w))' <=> Labelled(p, T(w))
    BY <1>1 DEF Labelled, SameDisk
  <1>4. J(w) \in index /\ jobStatus[J(w)] # "failed" => OwnedThere(w)'
    BY <1>1, <1>2, <1>3 DEF Ready, OwnedThere
  <1>5. J(w) \in index => SidecarLast(T(w), Rec(w))'
    BY <1>1 DEF Ready, SidecarLast, SameDisk, SameFiles
  <1>6. Claims(T(w), task'[T(w)]) = Claims(T(w), Rec(w))
    BY <1>1, ClaimsSame DEF SameFiles
  <1> QED
    BY <1>4, <1>5, <1>6 DEF PathStep, SameDisk

\* A step that writes at one of the live task's paths.
LEMMA WritesOwn ==
  ASSUME NEW w \in Workers, Ready(w), Live(T(w)), J(w) \in index, NEW q \in Claims(T(w), Rec(w)),
         disk' = Written(q, T(w)),
         wk'[w].task = T(w), AtWork(w)', wk[w].pc # "encoded", wk'[w].pc # "settle",
         task'[T(w)] = Rec(w), q[4] => Rec(w).wrote
  PROVE  PathStep(w)
  <1>1. T(w) \in Tasks /\ Rec(w) \in TaskRecords /\ T(w)' = T(w) /\ Rec(w)' = task'[T(w)]
    BY StatusOf DEF Ready, Rec, T
  <1>2. \A p : /\ p \in DOMAIN disk' <=> p \in DOMAIN disk \/ p = q
               /\ p \in DOMAIN disk' => disk'[p] = IF p = q THEN T(w) ELSE disk[p]
    BY DEF Written
  <1>3. \A p \in DOMAIN disk : disk[p] # T(w) => p # q
    BY DEF Ready
  <1>4. \A p : Labelled(p, T(w)) => Labelled(p, T(w))'
    BY <1>1, <1>2 DEF Labelled
  <1>5. jobStatus[J(w)] # "failed" => OwnedThere(w)'
    BY <1>1, <1>4 DEF Ready, OwnedThere
  <1>6. SidecarLast(T(w), Rec(w))'
    BY <1>1, <1>2 DEF Ready, SidecarLast
  <1>7. OwnRecord(T(w), task'[T(w)])
    BY DEF Ready
  <1> QED
    BY <1>2, <1>3, <1>5, <1>6, <1>7 DEF PathStep

\* A step that deletes one of them that the record does not tell of.
LEMMA DeletesOwn ==
  ASSUME NEW w \in Workers, Ready(w), Live(T(w)), J(w) \in index, NEW q \in Claims(T(w), Rec(w)),
         disk' = Without({q}),
         wk'[w].task = T(w), AtWork(w)', wk[w].pc # "encoded", wk'[w].pc # "settle",
         task'[T(w)] \in TaskRecords, SameFiles(task'[T(w)], Rec(w)), OwnRecord(T(w), task'[T(w)]),
         ~Owns(T(w), Rec(w), q) \/ (wk'[w].pc = "encoded" /\ q = FilePath(T(w), Rec(w)))
  PROVE  PathStep(w)
  <1>1. T(w) \in Tasks /\ Rec(w) \in TaskRecords /\ T(w)' = T(w) /\ Rec(w)' = task'[T(w)]
    BY StatusOf DEF Ready, Rec, T
  <1>2. \A p : /\ p \in DOMAIN disk' <=> p \in DOMAIN disk /\ p # q
               /\ p \in DOMAIN disk' => disk'[p] = disk[p]
    BY DEF Without
  <1>3. \A p \in DOMAIN disk : disk[p] # T(w) => p # q
    BY DEF Ready
  <1>4. \A p : Labelled(p, T(w)) /\ p # q => Labelled(p, T(w))'
    BY <1>1, <1>2 DEF Labelled
  <1>5. \A p : Owns(T(w), Rec(w), p) <=> Owns(T(w), task'[T(w)], p)
    BY <1>1, SameOwner
  <1>6. FilePath(T(w), Rec(w)) = FilePath(T(w), task'[T(w)])
    BY <1>1, SameOwner
  <1>7. jobStatus[J(w)] # "failed" => OwnedThere(w)'
    <2> SUFFICES ASSUME jobStatus[J(w)] # "failed", NEW p, Owns(T(w), task'[T(w)], p)
                 PROVE  Labelled(p, T(w))' \/ (wk'[w].pc = "encoded" /\ p = FilePath(T(w), task'[T(w)]))
      BY <1>1 DEF OwnedThere
    <2>1. Owns(T(w), Rec(w), p) /\ Labelled(p, T(w))
      BY <1>5 DEF Ready, OwnedThere
    <2> QED
      BY <1>4, <1>6, <2>1
  <1>8. SidecarLast(T(w), Rec(w))'
    BY <1>1, <1>2 DEF Ready, SidecarLast, SameFiles
  <1>9. Claims(T(w), task'[T(w)]) = Claims(T(w), Rec(w))
    BY <1>1, ClaimsSame DEF SameFiles
  <1> QED
    BY <1>2, <1>3, <1>7, <1>8, <1>9 DEF PathStep

\* At these stages a worker has nothing on disk that its task's record does not tell.
LEMMA NoneAtWork ==
  ASSUME NEW w \in Workers,
         wk'[w].pc \in {"reuse", "fetch", "received", "backoff", "convert", "encode", "finalize", "aggregate"}
  PROVE  AtWork(w)'
  BY DEF AtWork

-----------------------------------------------------------------------------
(* The steps of a worker, one by one.                                      *)

LEMMA OwnFacts ==
  ASSUME NEW w \in Workers, Ready(w), ImageStep(w) \/ UgoiraStep(w) \/ MetaStep(w)
  PROVE  /\ TypeOK /\ T(w) \in Tasks /\ Rec(w) \in TaskRecords
         /\ wk'[w].task = T(w) /\ wk'[w].pc # "settle"
         /\ T(w)' = T(w) /\ J(w)' = J(w) /\ Rec(w)' = task'[T(w)]
         /\ \A rec : SetTask(w, rec) => task'[T(w)] = rec
  <1>1. TypeOK /\ T(w) \in Tasks
    BY DEF Ready
  <1>2. wk'[w].task = T(w) /\ wk'[w].pc # "settle"
    BY <1>1, WorkerGoesOn DEF GoesOn
  <1>3. Rec(w) \in TaskRecords /\ \A rec : SetTask(w, rec) => task'[T(w)] = rec
    BY <1>1, StatusOf
  <1>4. T(w)' = T(w)
    BY <1>2 DEF T
  <1> QED
    BY <1>1, <1>2, <1>3, <1>4 DEF J, Rec

\* A worker at work has a running task that is in the list, and that its record tells truly.
LEMMA AtHand ==
  ASSUME NEW w \in Workers, Ready(w), wk[w].pc \in Working
  PROVE  /\ Live(T(w)) /\ J(w) \in index /\ Rec(w).status = "running" /\ Rec(w).status \notin Terminal
         /\ OwnRecord(T(w), Rec(w)) /\ SidecarLast(T(w), Rec(w)) /\ OwnedThere(w)
         /\ CtxDone(w) => stopping
         /\ FilePath(T(w), Rec(w)) \in Claims(T(w), Rec(w))
         /\ FinalPath(T(w), Rec(w)) \in Claims(T(w), Rec(w))
         /\ J(w) \in WithMeta => MetaPath(T(w), Rec(w)) \in Claims(T(w), Rec(w))
         /\ Rec(w).wrote => J(w) \in Ugoira \cup WithMeta
         /\ Rec(w).wrote /\ J(w) \notin Ugoira => Rec(w).ext = MediaExt[J(w)] /\ J(w) \in WithMeta
  <1>1. Live(T(w)) /\ J(w) \in index /\ Rec(w).status = "running" /\ jobStatus[J(w)] # "failed"
    BY DEF Ready
  <1>2. OwnRecord(T(w), Rec(w)) /\ SidecarLast(T(w), Rec(w)) /\ OwnedThere(w)
    BY <1>1 DEF Ready
  <1>3. CtxDone(w) => stopping
    BY <1>1 DEF CtxDone
  <1> QED
    BY <1>1, <1>2, <1>3 DEF Claims, OwnRecord, FirstExt, J, Terminal

\* A task that a worker settles, or leaves for the next boot, keeps a true record.
LEMMA SettlesTruly ==
  ASSUME NEW w \in Workers, Ready(w), wk[w].pc \in Working, NEW rec,
         rec = Settled(Rec(w), "failed") \/ (CtxDone(w) /\ rec = ResolveCancelled(Rec(w)))
  PROVE  rec \in TaskRecords /\ SameFiles(rec, Rec(w)) /\ OwnRecord(T(w), rec)
  <1>1. T(w) \in Tasks /\ Rec(w) \in TaskRecords
    BY StatusOf DEF Ready
  <1>2. /\ OwnRecord(T(w), Rec(w)) /\ Rec(w).status = "running" /\ Rec(w).status \notin Terminal
        /\ CtxDone(w) => stopping
    BY AtHand
  <1>3. "failed" \in Status
    BY DEF Status, Terminal
  <1>4. rec \in TaskRecords /\ SameFiles(rec, Rec(w))
    BY <1>1, <1>3, SettledType, ResolveType, SettledFiles
  <1>5. rec.status \in {Rec(w).status, "failed", "queued"}
    BY <1>1, <1>2, <1>3, SettledFiles
  <1> QED
    BY <1>1, <1>2, <1>4, <1>5, RecordKept

LEMMA ImagePaths ==
  ASSUME NEW w \in Workers, Ready(w), ImageStep(w) PROVE PathStep(w)
  <1>1. TypeOK /\ T(w) \in Tasks /\ Rec(w) \in TaskRecords
    BY OwnFacts
  <1>2. \A rec : SetTask(w, rec) => task'[T(w)] = rec
    BY OwnFacts
  <1>3. wk'[w].task = T(w) /\ wk'[w].pc # "settle" /\ T(w)' = T(w) /\ J(w)' = J(w) /\ Rec(w)' = task'[T(w)]
    BY OwnFacts
  <1>4. ~DropFile(w)
    BY <1>1 DEF DropFile, Ready, AtWork, At, T
  <1>5. wk[w].pc \in Working
    BY <1>4 DEF ImageStep, ReuseNothing, ReuseOwned, ReuseFails, FetchBody, FetchRename, FetchRetry,
       FetchFail, Backoff, Interrupted, Commit, At, Working
  <1>6. Live(T(w)) /\ J(w) \in index /\ OwnRecord(T(w), Rec(w)) /\ OwnedThere(w)
    BY <1>5, AtHand
  <1>7. UNCHANGED disk => SameDisk
    BY DEF SameDisk
  <1>8. At(w, "reuse") /\ Rec(w).wrote => FilePath(T(w), Rec(w)) \in DOMAIN disk
    BY <1>6 DEF OwnedThere, Owns, Labelled, At
  <1>9. CASE ReuseNothing(w)
    <2>1. At(w, "reuse") /\ wk'[w].pc = "fetch" /\ UNCHANGED <<task, disk>>
      BY <1>1, <1>8, <1>9, PcOf DEF ReuseNothing
    <2> QED
      BY <1>1, <1>3, <1>6, <1>7, <2>1, QuietPaths, NoneAtWork DEF SameFiles, Rec, At
  <1>10. CASE ReuseOwned(w)
    <2>1. At(w, "reuse") /\ wk'[w].pc = AfterMedia(w) /\ UNCHANGED <<task, disk>> /\ Rec(w).wrote
      BY <1>1, <1>10, PcOf DEF ReuseOwned
    <2>2. Rec(w)' = Rec(w)
      BY <1>3, <2>1 DEF Rec
    <2>3. AtWork(w)'
      <3>1. CASE J(w) \in Ugoira
        BY <2>1, <3>1, NoneAtWork DEF AfterMedia
      <3>2. CASE J(w) \notin Ugoira
        <4>1. wk'[w].pc = "meta"
          BY <2>1, <3>2 DEF AfterMedia
        <4>2. Rec(w).ext = MediaExt[J(w)] /\ J(w) \in WithMeta
          BY <1>5, <2>1, <3>2, AtHand
        <4> QED
          BY <1>3, <2>1, <2>2, <4>1, <4>2 DEF AtWork
      <3> QED
        BY <3>1, <3>2
    <2> QED
      BY <1>1, <1>3, <1>6, <1>7, <2>1, <2>3, QuietPaths DEF SameFiles, Rec, At
  <1>11. CASE FetchBody(w) \/ FetchRetry(w) \/ Backoff(w)
    <2>1. wk'[w].pc \in {"received", "backoff", "fetch"} /\ UNCHANGED <<task, disk>>
      BY <1>1, <1>11, PcOf DEF FetchBody, FetchRetry, Backoff
    <2>2. wk[w].pc # "encoded"
      BY <1>11 DEF FetchBody, FetchRetry, Backoff, At
    <2> QED
      BY <1>1, <1>3, <1>6, <1>7, <2>1, <2>2, QuietPaths, NoneAtWork DEF SameFiles, Rec
  <1>12. CASE ReuseFails(w) \/ FetchFail(w) \/ Interrupted(w)
    <2>1. /\ wk'[w].pc = "finalize" /\ UNCHANGED disk /\ wk[w].pc # "encoded"
          /\ \/ task'[T(w)] = Settled(Rec(w), "failed")
             \/ CtxDone(w) /\ task'[T(w)] = ResolveCancelled(Rec(w))
      BY <1>1, <1>2, <1>12, PcOf DEF ReuseFails, FetchFail, Interrupted, At
    <2>2. task'[T(w)] \in TaskRecords /\ SameFiles(task'[T(w)], Rec(w)) /\ OwnRecord(T(w), task'[T(w)])
      BY <1>5, <2>1, SettlesTruly
    <2> QED
      BY <1>3, <1>7, <2>1, <2>2, QuietPaths, NoneAtWork
  <1>13. CASE FetchRename(w)
    <2>1. /\ At(w, "received") /\ disk' = Written(FilePath(T(w), Rec(w)), T(w))
          /\ UNCHANGED task /\ wk'[w].pc = "renamed"
      BY <1>1, <1>13, PcOf DEF FetchRename
    <2>2. Rec(w)' = Rec(w)
      BY <1>3, <2>1 DEF Rec
    <2>3. Labelled(FilePath(T(w), Rec(w)), T(w))'
      BY <1>3, <2>1, <2>2 DEF Labelled, Written
    <2>4. AtWork(w)'
      BY <2>1, <2>3 DEF AtWork
    <2>5. FilePath(T(w), Rec(w)) \in Claims(T(w), Rec(w)) /\ ~FilePath(T(w), Rec(w))[4]
      BY <1>1, <1>5, AtHand, PathFacts
    <2> QED
      BY <1>3, <1>6, <2>1, <2>2, <2>4, <2>5, WritesOwn DEF At
  <1>14. CASE Commit(w)
    <2> DEFINE own == [Rec(w) EXCEPT !.wrote = TRUE]
    <2>1. /\ own \in TaskRecords /\ own.status = Rec(w).status /\ own.wrote
          /\ own.suffix = Rec(w).suffix /\ own.ext = Rec(w).ext /\ own.wroteMeta = Rec(w).wroteMeta
      BY <1>1 DEF TaskRecords
    <2>2. own.status = "running" /\ own.status \notin Terminal
      BY <1>5, <2>1, AtHand
    <2>3. /\ At(w, "renamed") /\ UNCHANGED disk
          /\ IF PostProcess(w) THEN SetTask(w, own) /\ Goto(w, AfterMedia(w))
                               ELSE SetTask(w, Settled(own, "completed")) /\ ToEnd(w)
      BY <1>14, <2>2 DEF Commit
    <2> HIDE DEF own
    <2>4. Labelled(FilePath(T(w), Rec(w)), T(w))
      BY <1>1, <2>3 DEF Ready, AtWork, At, T
    <2>5. J(w) \notin Ugoira => Rec(w).ext = MediaExt[J(w)]
      BY <1>6 DEF OwnRecord, FirstExt, J
    <2>6. task'[T(w)] \in TaskRecords /\ SameFiles(task'[T(w)], own) /\ OwnRecord(T(w), task'[T(w)]) /\ AtWork(w)'
      <3>1. CASE PostProcess(w)
        <4>1. task'[T(w)] = own /\ wk'[w].pc = AfterMedia(w)
          BY <1>1, <1>2, <2>3, <3>1, PcOf
        <4>2. OwnRecord(T(w), own)
          BY <1>6, <2>1, <2>2, <3>1 DEF OwnRecord, PostProcess, J, Terminal
        <4>3. CASE J(w) \in Ugoira
          BY <2>1, <4>1, <4>2, <4>3, NoneAtWork DEF AfterMedia, SameFiles
        <4>4. CASE J(w) \notin Ugoira
          <5>1. wk'[w].pc = "meta" /\ J(w) \in WithMeta
            BY <3>1, <4>1, <4>4 DEF AfterMedia, PostProcess
          <5>2. AtWork(w)'
            BY <1>3, <2>1, <2>5, <4>1, <4>4, <5>1 DEF AtWork
          <5> QED
            BY <2>1, <4>1, <4>2, <5>2 DEF SameFiles
        <4> QED
          BY <4>3, <4>4
      <3>2. CASE ~PostProcess(w)
        <4>1. task'[T(w)] = Settled(own, "completed") /\ wk'[w].pc = "finalize"
          BY <1>1, <1>2, <2>3, <3>2, PcOf
        <4>2. "completed" \in Status
          BY DEF Status, Terminal
        <4>3. task'[T(w)] \in TaskRecords /\ SameFiles(task'[T(w)], own)
          BY <2>1, <4>1, <4>2, SettledFiles, SettledType
        <4>4. task'[T(w)].status = "completed"
          BY <2>1, <2>2, <4>1 DEF Settled, TaskRecords
        <4>5. OwnRecord(T(w), task'[T(w)])
          BY <2>1, <2>5, <3>2, <4>3, <4>4 DEF OwnRecord, SameFiles, Whole, PostProcess, Terminal, J
        <4> QED
          BY <4>1, <4>3, <4>5, NoneAtWork
      <3> QED
        BY <3>1, <3>2
    <2>7. \A p : Owns(T(w), task'[T(w)], p) => Labelled(p, T(w))'
      <3> SUFFICES ASSUME NEW p, Owns(T(w), task'[T(w)], p) PROVE Labelled(p, T(w))'
        OBVIOUS
      <3>1. Owns(T(w), own, p)
        BY <1>1, <2>1, <2>6, SameOwner
      <3>2. p = FilePath(T(w), Rec(w)) \/ Owns(T(w), Rec(w), p)
        BY <1>1, <2>1, <3>1, PathFacts DEF Owns
      <3>3. Labelled(p, T(w))
        BY <1>6, <2>3, <2>4, <3>2 DEF OwnedThere, At
      <3> QED
        BY <1>3, <2>3, <3>3 DEF Labelled
    <2>8. OwnedThere(w)' /\ SidecarLast(T(w), Rec(w))'
      BY <1>3, <2>1, <2>6, <2>7 DEF OwnedThere, SidecarLast, SameFiles
    <2>9. Claims(T(w), task'[T(w)]) = Claims(T(w), Rec(w))
      BY <1>1, <2>1, <2>6, ClaimsSame DEF SameFiles
    <2> QED
      BY <1>3, <1>6, <1>7, <2>3, <2>6, <2>8, <2>9 DEF PathStep
  <1> QED
    BY <1>4, <1>8, <1>9, <1>10, <1>11, <1>12, <1>13, <1>14 DEF ImageStep

LEMMA UgoiraPaths ==
  ASSUME NEW w \in Workers, Ready(w), UgoiraStep(w) PROVE PathStep(w)
  <1>1. TypeOK /\ T(w) \in Tasks /\ Rec(w) \in TaskRecords
    BY OwnFacts
  <1>2. \A rec : SetTask(w, rec) => task'[T(w)] = rec
    BY OwnFacts
  <1>3. wk'[w].task = T(w) /\ wk'[w].pc # "settle" /\ T(w)' = T(w) /\ J(w)' = J(w) /\ Rec(w)' = task'[T(w)]
    BY OwnFacts
  <1>4. wk[w].pc \in {"convert", "encode", "encoding", "encoded", "accept"} /\ wk[w].pc \in Working
    BY DEF UgoiraStep, ConvertBegin, EncodeCreate, DecodeFail, EncodeAbort, EncodeDone, EncodeSwap, Accept, At, Working
  <1>5. /\ Live(T(w)) /\ J(w) \in index /\ OwnRecord(T(w), Rec(w)) /\ OwnedThere(w)
        /\ Rec(w).status = "running" /\ Rec(w).status \notin Terminal
        /\ FilePath(T(w), Rec(w)) \in Claims(T(w), Rec(w)) /\ FinalPath(T(w), Rec(w)) \in Claims(T(w), Rec(w))
    BY <1>4, AtHand
  <1>6. Rec(w).wrote
    BY <1>1, <1>4 DEF Ready, Converting, AtWork, T
  <1>7. UNCHANGED disk => SameDisk
    BY DEF SameDisk
  <1>8. CASE ConvertBegin(w)
    <2>1. /\ At(w, "convert") /\ UNCHANGED <<task, disk>>
          /\ wk'[w].pc = IF Rec(w).ext = MediaExt[J(w)] THEN "accept" ELSE "encode"
      BY <1>1, <1>5, <1>8, PcOf DEF ConvertBegin
    <2>2. Rec(w)' = Rec(w)
      BY <1>3, <2>1 DEF Rec
    <2>3. AtWork(w)'
      BY <1>3, <1>6, <2>1, <2>2 DEF AtWork
    <2> QED
      BY <1>1, <1>3, <1>5, <1>7, <2>1, <2>3, QuietPaths DEF SameFiles, Rec, At
  <1>9. CASE EncodeCreate(w)
    <2>1. /\ At(w, "encode") /\ disk' = Written(FinalPath(T(w), Rec(w)), T(w))
          /\ UNCHANGED task /\ wk'[w].pc = "encoding"
      BY <1>1, <1>9, PcOf DEF EncodeCreate
    <2>2. Rec(w)' = Rec(w)
      BY <1>3, <2>1 DEF Rec
    <2>3. Labelled(FinalPath(T(w), Rec(w)), T(w))'
      BY <1>3, <2>1, <2>2 DEF Labelled, Written
    <2>4. AtWork(w)'
      BY <2>1, <2>3 DEF AtWork
    <2> QED
      BY <1>3, <1>5, <1>6, <2>1, <2>2, <2>4, WritesOwn DEF At
  <1>10. CASE DecodeFail(w)
    <2>1. /\ wk'[w].pc = "finalize" /\ UNCHANGED disk /\ wk[w].pc # "encoded"
          /\ task'[T(w)] = Settled(Rec(w), "failed")
      BY <1>1, <1>2, <1>10, PcOf DEF DecodeFail, At
    <2>2. task'[T(w)] \in TaskRecords /\ SameFiles(task'[T(w)], Rec(w)) /\ OwnRecord(T(w), task'[T(w)])
      BY <1>4, <2>1, SettlesTruly
    <2> QED
      BY <1>3, <1>7, <2>1, <2>2, QuietPaths, NoneAtWork
  <1>11. CASE EncodeAbort(w)
    <2>1. /\ At(w, "encoding") /\ disk' = Without({FinalPath(T(w), Rec(w))}) /\ wk'[w].pc = "finalize"
          /\ \/ task'[T(w)] = Settled(Rec(w), "failed")
             \/ CtxDone(w) /\ task'[T(w)] = ResolveCancelled(Rec(w))
      BY <1>1, <1>2, <1>11, PcOf DEF EncodeAbort
    <2>2. task'[T(w)] \in TaskRecords /\ SameFiles(task'[T(w)], Rec(w)) /\ OwnRecord(T(w), task'[T(w)])
      BY <1>4, <2>1, SettlesTruly
    <2>3. Rec(w).ext # MediaExt[J(w)]
      BY <1>1, <2>1 DEF Ready, Converting, At
    <2>4. ~Owns(T(w), Rec(w), FinalPath(T(w), Rec(w)))
      BY <1>1, <2>3, PathFacts DEF Owns, J
    <2> QED
      BY <1>3, <1>5, <2>1, <2>2, <2>4, DeletesOwn, NoneAtWork DEF At
  <1>12. CASE EncodeDone(w)
    <2>1. /\ At(w, "encoding") /\ disk' = Without({FilePath(T(w), Rec(w))})
          /\ UNCHANGED task /\ wk'[w].pc = "encoded"
      BY <1>1, <1>12, PcOf DEF EncodeDone
    <2>2. Rec(w)' = Rec(w) /\ task'[T(w)] = Rec(w)
      BY <1>3, <2>1 DEF Rec
    <2>3. Rec(w).ext # MediaExt[J(w)] /\ Labelled(FinalPath(T(w), Rec(w)), T(w))
      BY <1>1, <2>1 DEF Ready, Converting, AtWork, At, T
    <2>4. FinalPath(T(w), Rec(w)) # FilePath(T(w), Rec(w))
      BY <1>1, <2>3, PathFacts DEF J
    <2>5. Labelled(FinalPath(T(w), Rec(w)), T(w))'
      BY <1>3, <2>1, <2>2, <2>3, <2>4 DEF Labelled, Without
    <2>6. AtWork(w)'
      BY <2>1, <2>5 DEF AtWork
    <2>7. task'[T(w)] \in TaskRecords /\ SameFiles(task'[T(w)], Rec(w)) /\ OwnRecord(T(w), task'[T(w)])
      BY <1>1, <1>5, <2>2 DEF SameFiles
    <2> QED
      BY <1>3, <1>5, <2>1, <2>6, <2>7, DeletesOwn DEF At
  <1>13. CASE EncodeSwap(w)
    <2> DEFINE new == [Rec(w) EXCEPT !.ext = MediaExt[J(w)]]
    <2>1. At(w, "encoded") /\ wk'[w].pc = "accept" /\ task'[T(w)] = new /\ UNCHANGED disk
      BY <1>1, <1>2, <1>13, PcOf DEF EncodeSwap
    <2>2. MediaExt[J(w)] \in Exts
      BY <1>1, PoolAssumption DEF Exts, J
    <2>3. /\ new \in TaskRecords /\ new.suffix = Rec(w).suffix /\ new.ext = MediaExt[J(w)]
          /\ new.wrote = Rec(w).wrote /\ new.wroteMeta = Rec(w).wroteMeta /\ new.status = Rec(w).status
      BY <1>1, <2>2 DEF TaskRecords
    <2> HIDE DEF new
    <2>4. /\ FilePath(T(w), new) = FinalPath(T(w), Rec(w)) /\ MetaPath(T(w), new) = MetaPath(T(w), Rec(w))
          /\ FinalPath(T(w), new) = FinalPath(T(w), Rec(w))
      BY <1>1, <2>3, PathFacts DEF J
    <2>5. Labelled(FinalPath(T(w), Rec(w)), T(w))
      BY <1>1, <2>1 DEF Ready, AtWork, At, T
    <2>6. FilePath(T(w), Rec(w)) # MetaPath(T(w), Rec(w))
      BY <1>1, PathFacts
    <2>7. \A p : Owns(T(w), new, p) => Labelled(p, T(w))
      BY <1>5, <2>3, <2>4, <2>5, <2>6 DEF Owns, OwnedThere
    <2>8. OwnedThere(w)'
      BY <1>3, <2>1, <2>7 DEF OwnedThere, Labelled
    <2>9. SidecarLast(T(w), Rec(w))'
      BY <1>3, <1>6, <2>1, <2>3 DEF SidecarLast
    <2>10. OwnRecord(T(w), new)
      BY <1>5, <2>3 DEF OwnRecord, J, Terminal
    <2>11. Claims(T(w), new) \subseteq Claims(T(w), Rec(w))
      BY <2>4 DEF Claims
    <2>12. AtWork(w)'
      BY <1>3, <1>6, <2>1, <2>3 DEF AtWork
    <2> QED
      BY <1>3, <1>5, <1>7, <2>1, <2>8, <2>9, <2>10, <2>11, <2>12 DEF PathStep
  <1>14. CASE Accept(w)
    <2>1. Rec(w).ext = MediaExt[J(w)] /\ At(w, "accept")
      BY <1>1, <1>14 DEF Ready, AtWork, At, T, Accept
    <2>2. CASE J(w) \in WithMeta
      <3>1. UNCHANGED <<task, disk>> /\ wk'[w].pc = "meta"
        BY <1>1, <1>5, <1>14, <2>2, PcOf DEF Accept
      <3>2. Rec(w)' = Rec(w)
        BY <1>3, <3>1 DEF Rec
      <3>3. AtWork(w)'
        BY <1>3, <1>6, <2>1, <2>2, <3>1, <3>2 DEF AtWork
      <3> QED
        BY <1>1, <1>3, <1>5, <1>7, <2>1, <3>1, <3>3, QuietPaths DEF SameFiles, Rec, At
    <2>3. CASE J(w) \notin WithMeta
      <3>1. task'[T(w)] = Settled(Rec(w), "completed") /\ UNCHANGED disk /\ wk'[w].pc = "finalize"
        BY <1>1, <1>2, <1>5, <1>14, <2>3, PcOf DEF Accept
      <3>2. "completed" \in Status
        BY DEF Status, Terminal
      <3>3. task'[T(w)] \in TaskRecords /\ SameFiles(task'[T(w)], Rec(w))
        BY <1>1, <3>1, <3>2, SettledFiles, SettledType
      <3>4. task'[T(w)].status = "completed"
        BY <1>1, <1>5, <3>1 DEF Settled, TaskRecords
      <3>5. OwnRecord(T(w), task'[T(w)])
        BY <1>5, <1>6, <2>1, <2>3, <3>3, <3>4 DEF OwnRecord, SameFiles, Whole, Terminal, J
      <3> QED
        BY <1>3, <1>7, <2>1, <3>1, <3>3, <3>5, QuietPaths, NoneAtWork DEF At
    <2> QED
      BY <2>2, <2>3
  <1> QED
    BY <1>8, <1>9, <1>10, <1>11, <1>12, <1>13, <1>14 DEF UgoiraStep

LEMMA MetaPaths ==
  ASSUME NEW w \in Workers, Ready(w), MetaStep(w) PROVE PathStep(w)
  <1>1. TypeOK /\ T(w) \in Tasks /\ Rec(w) \in TaskRecords
    BY OwnFacts
  <1>2. \A rec : SetTask(w, rec) => task'[T(w)] = rec
    BY OwnFacts
  <1>3. wk'[w].task = T(w) /\ wk'[w].pc # "settle" /\ T(w)' = T(w) /\ J(w)' = J(w) /\ Rec(w)' = task'[T(w)]
    BY OwnFacts
  <1>0. wk \in [Workers -> Locals]
    BY <1>1 DEF TypeOK
  <1>4. UNCHANGED disk => SameDisk
    BY DEF SameDisk
  <1>5. CASE MetaClean(w)
    <2>1. /\ At(w, "metaClean") /\ disk' = Without(wk[w].doomed) /\ UNCHANGED task /\ wk'[w].pc = "finalize"
      BY <1>1, <1>5, PcOf DEF MetaClean
    <2>2. wk[w].doomed = {}
      BY <1>1, <2>1 DEF Ready, AtWork, At, T
    <2>3. SameDisk
      BY <2>1, <2>2 DEF SameDisk, Without
    <2>4. J(w) \in index => OwnRecord(T(w), task'[T(w)])
      BY <2>1 DEF Ready, Rec
    <2> QED
      BY <1>1, <1>3, <2>1, <2>3, <2>4, QuietPaths, NoneAtWork DEF SameFiles, Rec, At
  <1>6. CASE ~MetaClean(w)
    <2>1. wk[w].pc \in {"meta", "write", "wrote"} /\ wk[w].pc \in Working
      BY <1>6 DEF MetaStep, MetaBegin, MetaWrite, MetaFinish, At, Working
    <2>2. Rec(w).wrote /\ Rec(w).ext = MediaExt[J(w)] /\ J(w) \in WithMeta
      BY <1>1, <2>1 DEF Ready, AtWork, T
    <2>3. /\ Live(T(w)) /\ J(w) \in index /\ OwnRecord(T(w), Rec(w)) /\ OwnedThere(w)
          /\ Rec(w).status = "running" /\ Rec(w).status \notin Terminal
          /\ MetaPath(T(w), Rec(w)) \in Claims(T(w), Rec(w)) /\ (CtxDone(w) => stopping)
      BY <2>1, <2>2, AtHand
    <2>4. CASE MetaBegin(w)
      <3>1. /\ UNCHANGED <<task, disk>>
            /\ wk'[w].pc = "write" \/ (wk'[w].pc = "wrote" /\ wk'[w].result = "cancelled")
        <4>1. CASE stopping
          <5>1. wk' = [wk EXCEPT ![w].pc = "wrote", ![w].result = "cancelled"] /\ UNCHANGED <<task, disk>>
            BY <2>3, <2>4, <4>1 DEF MetaBegin
          <5>2. wk'[w].pc = "wrote" /\ wk'[w].result = "cancelled"
            BY <1>0, <5>1 DEF Locals
          <5> QED
            BY <5>1, <5>2
        <4>2. CASE ~stopping
          BY <1>1, <2>3, <2>4, <4>2, PcOf DEF MetaBegin
        <4> QED
          BY <4>1, <4>2
      <3>2. Rec(w)' = Rec(w)
        BY <1>3, <3>1 DEF Rec
      <3>3. AtWork(w)'
        BY <1>3, <2>2, <3>1, <3>2 DEF AtWork
      <3> QED
        BY <1>1, <1>3, <1>4, <2>1, <2>3, <3>1, <3>3, QuietPaths DEF SameFiles, Rec
    <2>5. CASE MetaWrite(w)
      <3> DEFINE m == MetaPath(T(w), Rec(w))
      <3>1. PICK r \in {"ok", "error", "cancelled"} :
              /\ wk' = [wk EXCEPT ![w].pc = "wrote", ![w].result = r]
              /\ (disk' = Written(m, T(w)) /\ r = "ok") \/ (disk' = disk /\ r # "ok")
        BY <2>5 DEF MetaWrite
      <3>2. UNCHANGED task /\ wk'[w].pc = "wrote"
        BY <1>1, <2>5, <3>1, PcOf DEF MetaWrite
      <3>3. wk'[w].result = r
        BY <1>0, <3>1 DEF Locals
      <3>4. Rec(w)' = Rec(w)
        BY <1>3, <3>2 DEF Rec
      <3>5. r = "ok" => Labelled(m, T(w))'
        BY <1>3, <3>1, <3>4 DEF Labelled, Written
      <3>6. AtWork(w)'
        BY <1>3, <2>2, <3>2, <3>3, <3>4, <3>5 DEF AtWork
      <3>7. CASE disk' = disk
        BY <1>1, <1>3, <1>4, <2>1, <2>3, <3>2, <3>6, <3>7, QuietPaths DEF SameFiles, Rec
      <3>8. CASE disk' = Written(m, T(w))
        <4>1. task'[T(w)] = Rec(w)
          BY <1>3, <3>4
        <4> HIDE DEF m
        <4> QED
          BY <1>3, <2>1, <2>2, <2>3, <3>2, <3>6, <3>8, <4>1, WritesOwn DEF m
      <3> QED
        BY <3>1, <3>7, <3>8
    <2>6. CASE MetaFinish(w)
      <3> DEFINE r == wk[w].result
                 own == Recorded(Rec(w), r)
                 fin == IF r = "cancelled" \/ CtxDone(w) THEN ResolveCancelled(own)
                        ELSE Settled(own, IF r = "ok" THEN "completed" ELSE "failed")
                 gone == WrittenPaths({T(w)}, [task EXCEPT ![T(w)] = fin])
                 d    == IF fin.status = "cancelled" THEN gone ELSE {}
      <3>1. /\ own \in TaskRecords /\ own.status = Rec(w).status /\ own.suffix = Rec(w).suffix
            /\ own.ext = Rec(w).ext /\ own.wrote = Rec(w).wrote
            /\ own.wroteMeta = IF r = "cancelled" THEN Rec(w).wroteMeta ELSE r = "ok"
        BY <1>1 DEF Recorded, TaskRecords
      <3>2. /\ SetTask(w, fin) /\ wk[w].pc = "wrote" /\ UNCHANGED disk
            /\ wk' = [wk EXCEPT ![w].pc = "metaClean", ![w].result = None, ![w].doomed = d]
        BY <2>6 DEF MetaFinish, At
      <3>3. r = "cancelled" \/ CtxDone(w) => stopping
        BY <2>3, <3>2 DEF Ready, OnlyCancelled
      <3>0. {"failed", "completed"} \subseteq Status
        BY DEF Status, Terminal
      <3>4. fin \in TaskRecords /\ SameFiles(fin, own)
        <4> HIDE DEF own, r
        <4> QED
          BY <3>0, <3>1, ResolveType, SettledType, SettledFiles
      <3>5. fin.status \in {"running", "queued", "completed", "failed"} /\ (fin.status = "completed" => r = "ok")
        <4>1. CASE r = "cancelled" \/ CtxDone(w)
          <5>1. fin = ResolveCancelled(own) /\ stopping
            BY <3>3, <4>1
          <5> HIDE DEF own, fin
          <5> QED
            BY <2>3, <3>0, <3>1, <5>1, SettledFiles
        <4>2. CASE ~(r = "cancelled" \/ CtxDone(w))
          <5>1. fin = Settled(own, IF r = "ok" THEN "completed" ELSE "failed")
            BY <4>2
          <5>2. (IF r = "ok" THEN "completed" ELSE "failed") \in Status
            BY <3>0
          <5> HIDE DEF own, fin, r
          <5>3. fin.status \in {own.status, IF r = "ok" THEN "completed" ELSE "failed"}
            BY <3>1, <5>1, <5>2, SettledFiles
          <5> QED
            BY <2>3, <3>1, <5>3
        <4> QED
          BY <4>1, <4>2
      <3> HIDE DEF own, fin, gone
      <3>6. wk'[w].pc = "metaClean" /\ task'[T(w)] = fin
        BY <1>1, <1>2, <3>2, PcOf
      <3>7. wk'[w].doomed = {}
        <4>1. d = {}
          BY <3>5
        <4>2. wk'[w].doomed = d
          BY <1>0, <3>2 DEF Locals
        <4> QED
          BY <4>1, <4>2
      <3> HIDE DEF d
      <3>8. AtWork(w)'
        BY <3>6, <3>7 DEF AtWork
      <3>9. OwnRecord(T(w), fin)
        BY <2>2, <2>3, <3>1, <3>4, <3>5 DEF OwnRecord, SameFiles, Whole, Terminal, J
      <3>10. \A p : Owns(T(w), fin, p) => Labelled(p, T(w))
        <4> SUFFICES ASSUME NEW p, Owns(T(w), fin, p) PROVE Labelled(p, T(w))
          OBVIOUS
        <4>1. Owns(T(w), own, p)
          BY <1>1, <3>1, <3>4, SameOwner
        <4>2. FilePath(T(w), own) = FilePath(T(w), Rec(w)) /\ MetaPath(T(w), own) = MetaPath(T(w), Rec(w))
          BY <1>1, <3>1, PathFacts
        <4>3. r = "ok" => Labelled(MetaPath(T(w), Rec(w)), T(w))
          BY <1>1, <3>2 DEF Ready, AtWork, T
        <4>4. Owns(T(w), Rec(w), p) => Labelled(p, T(w))
          BY <2>3, <3>2 DEF OwnedThere
        <4> QED
          BY <3>1, <4>1, <4>2, <4>3, <4>4 DEF Owns
      <3>11. OwnedThere(w)'
        BY <1>3, <3>2, <3>6, <3>10 DEF OwnedThere, Labelled
      <3>12. SidecarLast(T(w), Rec(w))'
        BY <1>3, <2>2, <3>1, <3>4, <3>6 DEF SidecarLast, SameFiles
      <3>13. Claims(T(w), fin) = Claims(T(w), Rec(w))
        BY <1>1, <3>1, <3>4, ClaimsSame DEF SameFiles
      <3> QED
        BY <1>3, <1>4, <2>3, <3>2, <3>6, <3>8, <3>9, <3>11, <3>12, <3>13 DEF PathStep
    <2> QED
      BY <1>6, <2>4, <2>5, <2>6 DEF MetaStep
  <1> QED
    BY <1>5, <1>6

\* Every step of a worker with a task, but leaseTask and the end of the job.
LEMMA WorkerPaths ==
  ASSUME NEW w \in Workers, Ready(w), WorkerStep(w), ~Lease(w), ~FinalizeJob(w), ~FinishTask(w), ~WorkerExit(w)
  PROVE  PathStep(w)
  <1>1. CASE AnnounceStart(w) \/ FinalizeTask(w)
    <2>1. TypeOK /\ T(w) \in Tasks
      BY DEF Ready
    <2>2. UNCHANGED <<task, disk>> /\ Rec(w) \in TaskRecords
      BY <1>1, <2>1, StatusOf DEF AnnounceStart, FinalizeTask, memory
    <2>3. /\ wk'[w].task = T(w)
          /\ \/ At(w, "leased") /\ wk'[w].pc = "reuse"
             \/ At(w, "finalize") /\ wk'[w].pc = "aggregate"
      <3>1. CASE AnnounceStart(w)
        <4>1. At(w, "leased") /\ wk' = [wk EXCEPT ![w].pc = "reuse", ![w].news = None]
          BY <3>1 DEF AnnounceStart
        <4> QED
          BY <2>1, <4>1, PcOf
      <3>2. CASE FinalizeTask(w)
        BY <2>1, <3>2, PcOf DEF FinalizeTask
      <3> QED
        BY <1>1, <3>1, <3>2
    <2>4. SameDisk /\ SameFiles(task'[T(w)], Rec(w)) /\ task'[T(w)] = Rec(w)
      BY <2>2 DEF SameDisk, SameFiles, Rec
    <2>5. J(w) \in index => OwnRecord(T(w), task'[T(w)])
      BY <2>4 DEF Ready
    <2> QED
      BY <2>2, <2>3, <2>4, <2>5, QuietPaths, NoneAtWork DEF At
  <1> QED
    BY <1>1, ImagePaths, UgoiraPaths, MetaPaths DEF WorkerStep, QueueStep

-----------------------------------------------------------------------------
(* PathInv: the steps of the workers.                                      *)

\* What the proof of PathInv knows of a calm state.
Calmly == PathParts /\ JobInv /\ Unrecorded /\ Known

LEMMA CalmFacts ==
  ASSUME Calmly
  PROVE  /\ TypeOK /\ FilesInv /\ wk \in [Workers -> Locals]
         /\ \A t \in Tasks : task[t] \in TaskRecords /\ JobOf[t] \in Jobs /\ task[t].status # "cancelled"
         /\ Records(index, task) /\ Separate(index, task) /\ Mine(index, task)
         /\ Stored /\ OneSettles /\ \A v \in Workers : AtWork(v)
  <1>1. TypeOK
    BY DEF Calmly, Known, SettleInv
  <1>2. wk \in [Workers -> Locals] /\ task \in [Tasks -> TaskRecords]
    BY <1>1 DEF TypeOK
  <1> QED
    BY <1>1, <1>2, PoolAssumption DEF Calmly, Known, PathParts, PathsOf

LEMMA ReadyWorker ==
  ASSUME Calmly, NEW w \in Workers, T(w) \in Tasks PROVE Ready(w)
  <1>1. TypeOK /\ FilesInv /\ AtWork(w) /\ Rec(w) \in TaskRecords /\ Rec(w).status # "cancelled" /\ J(w) \in Jobs
    BY CalmFacts DEF Rec, J
  <1>2. Carries(w, T(w)) /\ wk[w].task \in Tasks
    BY DEF Carries, T
  <1>3. Converting(w) /\ OnlyCancelled(w)
    BY <1>1, <1>2 DEF Calmly, Known, FilesInv, EndInv
  <1>4. J(w) \in index => OwnRecord(T(w), Rec(w)) /\ SidecarLast(T(w), Rec(w))
    BY <1>1, CalmFacts DEF Records, Open, OwnRecord, SidecarLast, J, Rec
  <1>5. Live(T(w)) => \A p \in Claims(T(w), Rec(w)) \cap DOMAIN disk : disk[p] = T(w)
    BY CalmFacts DEF Mine, Open, Live, Rec
  <1>6. J(w) \in index /\ jobStatus[J(w)] # "failed" => OwnedThere(w)
    <2> SUFFICES ASSUME J(w) \in index, jobStatus[J(w)] # "failed", NEW p, Owns(T(w), Rec(w), p)
                 PROVE  Labelled(p, T(w)) \/ (wk[w].pc = "encoded" /\ p = FilePath(T(w), Rec(w)))
      BY DEF OwnedThere
    <2>1. p \in WrittenPaths({T(w)}, task)
      BY WrittenOwned DEF Rec
    <2>2. Labelled(p, T(w)) \/ Encoded(T(w), p)
      BY <2>1, CalmFacts DEF Stored, J
    <2>3. \A v \in Workers : Carries(v, T(w)) => v = w
      BY <1>2 DEF Calmly, Known, OnceInv, WorkerOnce
    <2> QED
      BY <2>2, <2>3 DEF Encoded, Rec
  <1>7. ASSUME wk[w].pc \in Working
        PROVE  Live(T(w)) /\ Rec(w).status = "running" /\ J(w) \in index /\ jobStatus[J(w)] # "failed"
    <2>1. InStage(w)
      BY DEF Calmly, Known, PlaceInv
    <2>2. wk[w].pc # "drop" /\ wk[w].pc \notin Ending
      BY <1>7 DEF Working, Ending
    <2>3. Rec(w).status = "running" /\ Rec(w).status \notin Terminal
      BY <1>1, <1>2, <1>3, <1>7, <2>1, <2>2 DEF InStage, OnlyCancelled, Terminal
    <2>4. J(w) \in index
      BY <1>2, <2>3 DEF Calmly, JobInv, Nowhere, Rec, J
    <2>5. jobStatus[J(w)] # "failed"
      BY <2>3, <2>4 DEF Calmly, Known, EndInv, EndedJobs, Ended, Rec, J
    <2> QED
      BY <2>3, <2>4, <2>5 DEF Live, Rec, J
  <1> QED
    BY <1>1, <1>3, <1>4, <1>5, <1>6, <1>7 DEF Ready

LEMMA PathWorker ==
  ASSUME Calmly, NEW w \in Workers, WorkerStep(w), T(w) \in Tasks,
         ~Lease(w), ~FinalizeJob(w), ~FinishTask(w), ~WorkerExit(w)
  PROVE  PathParts'
  <1> DEFINE x == T(w)
  <1>1. Ready(w) /\ PathStep(w)
    BY ReadyWorker, WorkerPaths
  <1>2. /\ TypeOK /\ FilesInv /\ wk \in [Workers -> Locals] /\ Records(index, task) /\ Separate(index, task)
        /\ Mine(index, task) /\ Stored /\ OneSettles /\ \A v \in Workers : AtWork(v)
    BY CalmFacts
  <1>0. \A t \in Tasks : task[t] \in TaskRecords /\ JobOf[t] \in Jobs /\ task[t].status # "cancelled"
    BY CalmFacts
  <1>3. wk[w].pc # "settle"
    BY DEF WorkerStep, QueueStep, AnnounceStart, FinalizeTask, ImageStep, ReuseNothing, ReuseOwned,
       ReuseFails, FetchBody, FetchRename, FetchRetry, FetchFail, Backoff, Interrupted, Commit, DropFile,
       UgoiraStep, ConvertBegin, EncodeCreate, DecodeFail, EncodeAbort, EncodeDone, EncodeSwap, Accept,
       MetaStep, MetaBegin, MetaWrite, MetaFinish, MetaClean, At
  <1>4. \A v \in Workers : v # w => wk'[v] = wk[v]
    BY <1>2, WorkerKeeps DEF Keeps
  <1>5. \A t \in Tasks : t # x => task'[t] = task[t]
    BY <1>2, WorkerWrites
  <1>6. UNCHANGED <<index, jobStatus, cancel>>
    <2>1. UNCHANGED <<index, cancel>>
      BY <1>2, WorkerIsCalm DEF CalmStep
    <2>2. UNCHANGED jobStatus
      BY <1>2, WorkerHolds
    <2> QED
      BY <2>1, <2>2
  <1>7. SettledKept
    BY <1>2, WorkerIsCalm DEF CalmStep
  <1>8. /\ SameDisk \/ Live(x)
        /\ \A p \in DOMAIN disk : disk[p] # x => p \in DOMAIN disk' /\ disk'[p] = disk[p]
        /\ \A p \in DOMAIN disk' : \/ p \in DOMAIN disk /\ disk'[p] = disk[p]
                                   \/ disk'[p] = x /\ p \in Claims(x, task[x])
    BY <1>1 DEF PathStep, Rec
  <1>9. /\ x' = x /\ Carries(w, x) /\ wk'[w].pc # "settle" /\ AtWork(w)' /\ T(w)' = x /\ Rec(w)' = task'[x]
        /\ wk'[w].task = x
    BY <1>1 DEF PathStep, Carries, T, Rec
  <1>10. JobOf[x] \in index =>
       /\ OwnRecord(x, task'[x]) /\ SidecarLast(x, Rec(w))'
       /\ task'[x].status \notin Terminal => Claims(x, task'[x]) \subseteq Claims(x, task[x])
       /\ jobStatus[JobOf[x]] # "failed" => OwnedThere(w)'
    BY <1>1, <1>9 DEF PathStep, J, Rec, SidecarLast
  <1>11. \A v \in Workers, t \in Tasks : Carries(v, t) /\ t # x => v # w
    BY <1>9 DEF Carries
  <1>12. \A v \in Workers : Carries(v, x) => v = w
    BY <1>9 DEF Calmly, Known, OnceInv, WorkerOnce
  <1> HIDE DEF x
  <1>13. x \in Tasks
    BY DEF x
  <1>14. \A t \in Tasks : task'[t].status # "cancelled"
    <2>1. OnlyCancelled(w)
      BY <1>1 DEF Ready
    <2>2. EndsWell(w)
      BY <1>2, <2>1, WorkerEndsWell
    <2>3. task'[x].status # "cancelled"
      BY <1>0, <1>13, <2>2 DEF EndsWell, x, Rec
    <2> QED
      BY <1>0, <1>5, <2>3
  <1>15. Records(index, task)'
    <2> SUFFICES ASSUME NEW t \in Tasks, JobOf[t] \in index
                 PROVE  /\ task'[t].ext \in {FirstExt(JobOf[t]), MediaExt[JobOf[t]]}
                        /\ task'[t].status # "cancelled"
                        /\ task'[t].status = "completed" => Whole(t, task'[t])
                        /\ Open(index, task', t) /\ task'[t].wrote => JobOf[t] \in Ugoira \cup WithMeta
                        /\ \A p \in DOMAIN disk' : disk'[p] = t /\ p[4] => task'[t].wrote
      BY <1>6 DEF Records, Open
    <2>1. CASE t = x
      BY <1>9, <1>10, <2>1 DEF OwnRecord, SidecarLast, Open
    <2>2. CASE t # x
      BY <1>2, <1>5, <1>8, <2>2 DEF Records, Open
    <2> QED
      BY <2>1, <2>2
  <1>16. \A t \in Tasks : Open(index, task, t)' =>
           Open(index, task, t) /\ Claims(t, task'[t]) \subseteq Claims(t, task[t])
    <2> SUFFICES ASSUME NEW t \in Tasks, Open(index, task, t)'
                 PROVE  Open(index, task, t) /\ Claims(t, task'[t]) \subseteq Claims(t, task[t])
      OBVIOUS
    <2>1. JobOf[t] \in index /\ task'[t].status \notin Terminal
      BY <1>6 DEF Open
    <2>2. task[t].status \notin Terminal
      BY <1>7, <2>1 DEF SettledKept, SettledInMemory
    <2> QED
      BY <1>5, <1>10, <2>1, <2>2 DEF Open
  <1>17. Separate(index, task)'
    BY <1>2, <1>16 DEF Separate
  <1>18. Mine(index, task)'
    <2> SUFFICES ASSUME NEW t \in Tasks, Open(index, task, t)', NEW p \in Claims(t, task'[t]), p \in DOMAIN disk'
                 PROVE  disk'[p] = t
      BY DEF Mine
    <2>1. Open(index, task, t) /\ p \in Claims(t, task[t])
      BY <1>16
    <2>2. CASE p \in DOMAIN disk /\ disk'[p] = disk[p]
      BY <1>2, <2>1, <2>2 DEF Mine
    <2>3. CASE ~(p \in DOMAIN disk /\ disk'[p] = disk[p])
      <3>1. disk'[p] = x /\ p \in Claims(x, task[x]) /\ ~SameDisk
        BY <1>8, <2>3 DEF SameDisk
      <3>2. Open(index, task, x)
        BY <1>8, <3>1 DEF Live, Open
      <3> QED
        BY <1>2, <1>13, <2>1, <3>1, <3>2 DEF Separate
    <2> QED
      BY <2>2, <2>3
  <1>19. \A t \in Tasks : \A p : t # x /\ Labelled(p, t) => Labelled(p, t)'
    BY <1>8 DEF Labelled
  <1>20. Stored'
    <2> SUFFICES ASSUME NEW t \in Tasks, JobOf[t] \in index, jobStatus[JobOf[t]] # "failed",
                        NEW p, p \in WrittenPaths({t}, task')
                 PROVE  Labelled(p, t)' \/ Encoded(t, p)'
      BY <1>6 DEF Stored
    <2>1. Owns(t, task'[t], p)
      BY WrittenOwned
    <2>2. CASE t = x
      <3>1. Labelled(p, x)' \/ (wk'[w].pc = "encoded" /\ p = FilePath(x, task'[x]))
        BY <1>9, <1>10, <2>1, <2>2 DEF OwnedThere
      <3> QED
        BY <1>9, <2>2, <3>1 DEF Encoded, Carries, Labelled
    <2>3. CASE t # x
      <3>1. p \in WrittenPaths({t}, task)
        BY <1>5, <2>1, <2>3, WrittenOwned
      <3>2. Labelled(p, t) \/ Encoded(t, p)
        BY <1>2, <3>1 DEF Stored
      <3>3. Encoded(t, p) => Encoded(t, p)'
        BY <1>4, <1>5, <1>11, <2>3 DEF Encoded, Carries
      <3> QED
        BY <1>19, <2>3, <3>2, <3>3
    <2> QED
      BY <2>2, <2>3
  <1>21. \A v \in Workers : AtWork(v)'
    <2> SUFFICES ASSUME NEW v \in Workers, v # w, wk[v].task \in Tasks PROVE AtWork(v)'
      BY <1>4, <1>9 DEF AtWork
    <2>1. wk[v].task # x
      BY <1>12 DEF Carries
    <2>2. wk'[v] = wk[v] /\ T(v)' = T(v) /\ J(v)' = J(v) /\ Rec(v)' = Rec(v) /\ T(v) = wk[v].task
      BY <1>4, <1>5, <2>1 DEF T, J, Rec
    <2>3. \A p : Labelled(p, T(v)) => Labelled(p, T(v))'
      BY <1>19, <2>1, <2>2 DEF Labelled
    <2>4. AtWork(v)
      BY <1>2
    <2> QED
      BY <2>2, <2>3, <2>4 DEF AtWork
  <1>22. OneSettles'
    <2>1. \A v \in Workers : (Condemns(v)' <=> Condemns(v)) /\ (Condemns(v) => v # w /\ wk'[v] = wk[v] /\ J(v)' = J(v))
      BY <1>3, <1>4, <1>9 DEF Condemns, J, T
    <2>2. ASSUME NEW j, NEW ps, Condemned(j, ps) PROVE Condemned(j, ps)'
      <3> SUFFICES ASSUME NEW p \in ps PROVE p \in DOMAIN disk' /\ disk'[p] \in TasksOf(j)
        BY <1>6, <2>2 DEF Condemned, TasksOf
      <3>1. jobStatus[j] = "failed" /\ p \in DOMAIN disk /\ disk[p] \in TasksOf(j)
        BY <2>2 DEF Condemned
      <3>2. CASE disk[p] # x
        BY <1>8, <3>1, <3>2
      <3>3. CASE disk[p] = x
        <4>1. ~Live(x)
          BY <1>13, <3>1, <3>3 DEF Calmly, Known, EndInv, EndedJobs, Ended, Live, TasksOf
        <4> QED
          BY <1>8, <3>1, <4>1 DEF SameDisk
      <3> QED
        BY <3>2, <3>3
    <2> QED
      BY <1>2, <1>6, <2>1, <2>2 DEF OneSettles
  <1> QED
    BY <1>14, <1>15, <1>17, <1>18, <1>20, <1>21, <1>22 DEF PathParts, PathsOf

-----------------------------------------------------------------------------
(* PathInv: the other steps.                                               *)

\* A worker at work has on disk what it needs whatever happens to the files of failed jobs.
LEMMA WorksForLive ==
  ASSUME Calmly, NEW v \in Workers, wk[v].task \in Tasks, wk[v].pc \in Working
  PROVE  J(v) \in index /\ jobStatus[J(v)] # "failed" /\ task[wk[v].task].status \notin Terminal
  BY ReadyWorker DEF Ready, T, Rec, J, Live

\* A step that writes no file, deletes those of failed jobs only, changes of the records the
\* status of open tasks only, and moves a worker only onto or off the stages without files.
LEMMA PathRest ==
  ASSUME Calmly, index' \subseteq index,
         \A t \in Tasks : /\ task'[t] \in TaskRecords /\ SameFiles(task'[t], task[t])
                          /\ \/ task'[t].status = task[t].status
                             \/ task[t].status \notin Terminal /\ task'[t].status = "running",
         \A p \in DOMAIN disk' : p \in DOMAIN disk /\ disk'[p] = disk[p],
         \A t \in Tasks : \A p : Labelled(p, t) => Labelled(p, t)' \/ jobStatus[JobOf[t]] = "failed",
         \A j \in Jobs : jobStatus[j] = "failed" => jobStatus'[j] = "failed",
         \A v \in Workers : wk'[v] = wk[v] \/ (wk[v].pc \in Idle /\ wk'[v].pc \in Idle),
         OneSettles'
  PROVE  PathParts'
  <1>1. /\ \A t \in Tasks : task[t] \in TaskRecords /\ JobOf[t] \in Jobs /\ task[t].status # "cancelled"
        /\ \A v \in Workers : AtWork(v)
    BY CalmFacts
  <1>2. Records(index, task) /\ Separate(index, task) /\ Mine(index, task) /\ Stored
    BY CalmFacts
  <1>3. \A t \in Tasks : task'[t].status # "cancelled"
    BY <1>1
  <1>4. \A t \in Tasks : Open(index, task, t)' =>
          Open(index, task, t) /\ Claims(t, task'[t]) = Claims(t, task[t])
    BY <1>1, ClaimsSame DEF Open, SameFiles
  <1>5. Records(index, task)'
    <2> SUFFICES ASSUME NEW t \in Tasks, JobOf[t] \in index'
                 PROVE  /\ task'[t].ext \in {FirstExt(JobOf[t]), MediaExt[JobOf[t]]}
                        /\ task'[t].status # "cancelled"
                        /\ task'[t].status = "completed" => Whole(t, task'[t])
                        /\ Open(index, task, t)' /\ task'[t].wrote => JobOf[t] \in Ugoira \cup WithMeta
                        /\ \A p \in DOMAIN disk' : disk'[p] = t /\ p[4] => task'[t].wrote
      BY DEF Records, Open
    <2>1. task'[t].ext = task[t].ext /\ task'[t].wrote = task[t].wrote /\ task'[t].wroteMeta = task[t].wroteMeta
      BY DEF SameFiles
    <2>2. task'[t].status = "completed" => Whole(t, task'[t])
      BY <1>2, <2>1 DEF Records, Whole
    <2>3. Open(index, task, t)' /\ task'[t].wrote => JobOf[t] \in Ugoira \cup WithMeta
      BY <1>2, <1>4, <2>1 DEF Records
    <2> QED
      BY <1>2, <1>3, <2>1, <2>2, <2>3 DEF Records
  <1>6. Separate(index, task)'
    BY <1>2, <1>4 DEF Separate
  <1>7. Mine(index, task)'
    BY <1>2, <1>4 DEF Mine
  <1>8. \A t \in Tasks : \A p : /\ Owns(t, task'[t], p) <=> Owns(t, task[t], p)
                                 /\ FilePath(t, task'[t]) = FilePath(t, task[t])
    BY <1>1, SameOwner
  <1>9. Stored'
    <2> SUFFICES ASSUME NEW t \in Tasks, JobOf[t] \in index', jobStatus'[JobOf[t]] # "failed",
                        NEW p, p \in WrittenPaths({t}, task')
                 PROVE  Labelled(p, t)' \/ Encoded(t, p)'
      BY DEF Stored
    <2>1. Owns(t, task[t], p)
      BY <1>8, WrittenOwned
    <2>2. JobOf[t] \in index /\ jobStatus[JobOf[t]] # "failed" /\ p \in WrittenPaths({t}, task)
      BY <1>1, <2>1, WrittenOwned
    <2>3. Labelled(p, t) \/ Encoded(t, p)
      BY <1>2, <2>2 DEF Stored
    <2>4. Encoded(t, p) => Encoded(t, p)'
      <3> SUFFICES ASSUME NEW v \in Workers, Carries(v, t), wk[v].pc = "encoded", p = FilePath(t, task[t])
                   PROVE  Encoded(t, p)'
        BY DEF Encoded
      <3>1. wk'[v] = wk[v]
        BY DEF Idle
      <3>2. FilePath(t, task'[t]) = FilePath(t, task[t])
        BY DEF FilePath, Path, SameFiles
      <3>3. Carries(v, t)' /\ wk'[v].pc = "encoded"
        BY <3>1 DEF Carries
      <3> QED
        BY <3>2, <3>3 DEF Encoded
    <2> QED
      BY <2>2, <2>3, <2>4
  <1>10. \A v \in Workers : AtWork(v)'
    <2> SUFFICES ASSUME NEW v \in Workers, wk'[v].task \in Tasks PROVE AtWork(v)'
      BY DEF AtWork
    <2>1. CASE wk'[v].pc \in Idle
      BY <2>1 DEF AtWork, Idle
    <2>2. CASE wk'[v].pc \notin Idle
      <3> DEFINE t == wk[v].task
      <3>1. wk'[v] = wk[v] /\ t \in Tasks /\ AtWork(v)
        BY <1>1, <2>2
      <3>2. T(v) = t /\ T(v)' = t /\ J(v)' = J(v) /\ J(v) = JobOf[t] /\ Rec(v) = task[t] /\ Rec(v)' = task'[t]
        BY <3>1 DEF T, J, Rec
      <3>3. /\ FilePath(t, task[t]) = FilePath(t, task'[t]) /\ FinalPath(t, task[t]) = FinalPath(t, task'[t])
            /\ MetaPath(t, task[t]) = MetaPath(t, task'[t])
        BY <1>1, <3>1, PathFacts DEF SameFiles
      <3>4. task'[t].wrote = task[t].wrote /\ task'[t].ext = task[t].ext
        BY <3>1 DEF SameFiles
      <3>5. wk[v].pc \in Working => \A p : Labelled(p, t) => Labelled(p, t)'
        BY <3>1, <3>2, WorksForLive
      <3> HIDE DEF t
      <3>6. wk'[v].pc \in {"renamed", "encoding", "encoded", "wrote"} =>
              \A p : Labelled(p, t) => p \in DOMAIN disk' /\ disk'[p] = t
        BY <3>1, <3>2, <3>5 DEF Working, Labelled
      <3>7. /\ wk[v].pc = "renamed" => Labelled(FilePath(t, task[t]), t)
            /\ wk[v].pc \in {"encoding", "encoded"} => Labelled(FinalPath(t, task[t]), t)
            /\ wk[v].pc = "wrote" /\ wk[v].result = "ok" => Labelled(MetaPath(t, task[t]), t)
        BY <3>1, <3>2 DEF AtWork, t
      <3>8. /\ wk'[v].pc # "drop"
            /\ wk'[v].pc = "metaClean" => wk'[v].doomed = {}
            /\ wk'[v].pc \in {"accept", "meta", "write", "wrote"} => task'[t].wrote /\ task'[t].ext = MediaExt[J(v)]
            /\ wk'[v].pc \in {"meta", "write", "wrote"} => J(v) \in WithMeta
        BY <3>1, <3>2, <3>4 DEF AtWork, t
      <3> QED
        BY <3>1, <3>2, <3>3, <3>6, <3>7, <3>8 DEF AtWork, Labelled
    <2> QED
      BY <2>1, <2>2
  <1> QED
    BY <1>3, <1>5, <1>6, <1>7, <1>9, <1>10 DEF PathParts, PathsOf

\* A step that concerns no file, no task and no job.
LEMMA PathQuiet ==
  ASSUME Calmly, index' \subseteq index, UNCHANGED <<jobStatus, task, wk, disk>>,
         \A j \in Jobs : cancel'[j].doomed = cancel[j].doomed /\ (cancel'[j].pc = "no" => cancel[j].pc = "no")
  PROVE  PathParts'
  <1>1. \A t \in Tasks : task[t] \in TaskRecords
    BY CalmFacts
  <1>2. OneSettles
    BY CalmFacts
  <1>3. \A v \in Workers : (Condemns(v)' <=> Condemns(v)) /\ J(v)' = J(v)
    BY DEF Condemns, J, T
  <1>4. \A j, ps : Condemned(j, ps) => Condemned(j, ps)'
    BY DEF Condemned, TasksOf
  <1>5. OneSettles'
    BY <1>2, <1>3, <1>4 DEF OneSettles
  <1>6. \A t \in Tasks : \A p : Labelled(p, t) => Labelled(p, t)'
    BY DEF Labelled
  <1> QED
    BY <1>1, <1>5, <1>6, PathRest DEF SameFiles

\* What a job has condemned is deleted, and the deletion is over.
LEMMA PathWipe ==
  ASSUME Calmly, NEW j \in Jobs, NEW ps, Condemned(j, ps) \/ ps = {}, disk' = Without(ps),
         UNCHANGED <<index, jobStatus, task>>,
         \A v \in Workers : wk'[v] = wk[v] \/ (wk[v].pc \in Idle /\ wk'[v].pc \in Idle /\ ~Condemns(v)'),
         \A k \in Jobs : cancel'[k] = cancel[k] \/ cancel'[k].doomed = {},
         ps # {} => cancel'[j].doomed = {} /\ \A v \in Workers : Condemns(v)' => J(v)' # j
  PROVE  PathParts'
  <1>1. \A t \in Tasks : task[t] \in TaskRecords /\ JobOf[t] \in Jobs
    BY CalmFacts
  <1>2. OneSettles
    BY CalmFacts
  <1>3. \A v \in Workers : Condemns(v)' => Condemns(v) /\ wk'[v] = wk[v] /\ J(v)' = J(v)
    BY DEF Condemns, J, T
  <1>4. /\ \A p \in DOMAIN disk' : p \in DOMAIN disk /\ disk'[p] = disk[p]
        /\ \A p \in DOMAIN disk : p \notin ps => p \in DOMAIN disk' /\ disk'[p] = disk[p]
    BY DEF Without
  <1>5. \A t \in Tasks : \A p : Labelled(p, t) => Labelled(p, t)' \/ jobStatus[JobOf[t]] = "failed"
    BY <1>4 DEF Labelled, Condemned, TasksOf
  <1>6. \A k, qs : Condemned(k, qs) /\ (ps = {} \/ k # j) => Condemned(k, qs)'
    <2> SUFFICES ASSUME NEW k, NEW qs, Condemned(k, qs), ps = {} \/ k # j, NEW p \in qs
                 PROVE  p \in DOMAIN disk' /\ disk'[p] \in TasksOf(k)
      BY DEF Condemned, TasksOf
    <2>1. p \in DOMAIN disk /\ disk[p] \in TasksOf(k)
      BY DEF Condemned
    <2>2. p \notin ps
      BY <2>1 DEF Condemned, TasksOf
    <2> QED
      BY <1>4, <2>1, <2>2
  <1>7. ASSUME NEW k \in Jobs, cancel'[k].doomed # {}
        PROVE  Condemned(k, cancel[k].doomed)' /\ \A v \in Workers : Condemns(v)' => J(v)' # k
    <2>1. cancel'[k] = cancel[k] /\ (ps = {} \/ k # j)
      BY <1>7
    <2>2. Condemned(k, cancel[k].doomed) /\ \A v \in Workers : Condemns(v) => J(v) # k
      BY <1>2, <1>7, <2>1 DEF OneSettles
    <2>3. \A i, qs : i = k /\ qs = cancel[k].doomed => Condemned(i, qs)'
      BY <1>6, <2>1, <2>2
    <2>4. Condemned(k, cancel[k].doomed)'
      BY <2>1, <2>3 DEF Condemned
    <2> QED
      BY <1>3, <2>2, <2>4
  <1>8. ASSUME NEW v \in Workers, Condemns(v)'
        PROVE  Condemned(J(v), wk[v].doomed)' /\ \A u \in Workers : Condemns(u)' /\ J(u)' = J(v)' => u = v
    <2>1. Condemns(v) /\ wk'[v] = wk[v] /\ J(v)' = J(v) /\ (ps = {} \/ J(v) # j)
      BY <1>3, <1>8
    <2>2. Condemned(J(v), wk[v].doomed) /\ \A u \in Workers : Condemns(u) /\ J(u) = J(v) => u = v
      BY <1>2, <2>1 DEF OneSettles
    <2>3. \A k, qs : k = J(v) /\ qs = wk[v].doomed => Condemned(k, qs)'
      BY <1>6, <2>1, <2>2
    <2>4. Condemned(J(v), wk[v].doomed)'
      BY <2>1, <2>3 DEF Condemned
    <2> QED
      BY <1>3, <2>1, <2>2, <2>4
  <1>9. \A k \in Jobs : cancel'[k].pc = "no" => cancel'[k].doomed = {}
    BY <1>2 DEF OneSettles
  <1>10. OneSettles'
    <2>1. \A v \in Workers : Condemns(v)' => wk'[v].doomed = wk[v].doomed /\ J(v)' = J(v)
      BY <1>3
    <2>2. \A v \in Workers : Condemns(v)' => Condemned(J(v), wk[v].doomed)'
      BY <1>8
    <2>3. \A v \in Workers : Condemns(v)' => \A u \in Workers : Condemns(u)' /\ J(u)' = J(v)' => u = v
      BY <1>8
    <2> QED
      BY <1>7, <1>9, <2>1, <2>2, <2>3 DEF OneSettles
  <1>11. \A v \in Workers : wk'[v] = wk[v] \/ (wk[v].pc \in Idle /\ wk'[v].pc \in Idle)
    OBVIOUS
  <1> QED
    BY <1>1, <1>4, <1>5, <1>10, <1>11, PathRest DEF SameFiles

\* A job that had not ended fails, and what its tasks wrote is condemned.
LEMMA Condemning ==
  ASSUME Calmly, NEW j \in index, jobStatus[j] \notin Terminal, NEW gone,
         gone # {} => /\ jobStatus'[j] = "failed" /\ gone \subseteq WrittenPaths(TasksOf(j), task)
                      /\ \A t \in TasksOf(j) : task[t].status \in Terminal,
         \A k \in Jobs : k # j => jobStatus'[k] = jobStatus[k],
         UNCHANGED <<index, task, disk>>
  PROVE  /\ gone # {} => Condemned(j, gone)'
         /\ \A k \in Jobs : \A ps : Condemned(k, ps) => k # j /\ Condemned(k, ps)'
         /\ cancel[j].doomed = {} /\ \A v \in Workers : Condemns(v) => J(v) # j
  <1>1. Stored /\ OneSettles /\ TypeOK
    BY CalmFacts
  <1>2. jobStatus[j] # "failed" /\ j \in Jobs
    BY <1>1 DEF Terminal, TypeOK
  <1>3. \A k \in Jobs : \A ps : Condemned(k, ps) => k # j /\ Condemned(k, ps)'
    BY <1>2 DEF Condemned, TasksOf
  <1>4. cancel[j].doomed = {} /\ \A v \in Workers : Condemns(v) => J(v) # j
    BY <1>1, <1>2 DEF OneSettles, Condemned
  <1>5. ASSUME NEW p \in gone PROVE p \in DOMAIN disk /\ disk[p] \in TasksOf(j)
    <2>1. PICK t \in TasksOf(j) : Owns(t, task[t], p)
      <3>1. p \in WrittenPaths(TasksOf(j), task) /\ TasksOf(j) \in SUBSET Tasks
        BY <1>5 DEF TasksOf
      <3> QED
        BY <3>1, WrittenOwned
    <2>2. t \in Tasks /\ JobOf[t] = j /\ task[t].status \in Terminal
      BY <1>5 DEF TasksOf
    <2>3. p \in WrittenPaths({t}, task)
      BY <2>1, <2>2, WrittenOwned
    <2>4. Labelled(p, t) \/ Encoded(t, p)
      BY <1>1, <1>2, <2>2, <2>3 DEF Stored
    <2>5. ~Encoded(t, p)
      BY <2>2, WorksForLive DEF Encoded, Carries, Working
    <2> QED
      BY <2>1, <2>4, <2>5 DEF Labelled
  <1>6. gone # {} => Condemned(j, gone)'
    BY <1>5 DEF Condemned, TasksOf
  <1> QED
    BY <1>3, <1>4, <1>6

\* A step after which no worker and no Cancel has more to delete.
LEMMA SettlesStill ==
  ASSUME OneSettles, UNCHANGED <<disk, cancel>>,
         \A j : jobStatus[j] = "failed" => jobStatus'[j] = "failed",
         \A v \in Workers : Condemns(v)' => wk'[v] = wk[v]
  PROVE  OneSettles'
  <1>1. \A v \in Workers : Condemns(v)' => Condemns(v) /\ wk'[v] = wk[v] /\ J(v)' = J(v)
    BY DEF Condemns, J, T
  <1>2. \A j : \A ps : Condemned(j, ps) => Condemned(j, ps)'
    BY DEF Condemned, TasksOf
  <1>3. ASSUME NEW v \in Workers, Condemns(v)'
        PROVE  Condemned(J(v), wk[v].doomed)' /\ \A u \in Workers : Condemns(u)' /\ J(u)' = J(v)' => u = v
    <2>1. Condemns(v) /\ wk'[v] = wk[v] /\ J(v)' = J(v)
      BY <1>1, <1>3
    <2>2. Condemned(J(v), wk[v].doomed) /\ \A u \in Workers : Condemns(u) /\ J(u) = J(v) => u = v
      BY <2>1 DEF OneSettles
    <2>3. \A k, qs : k = J(v) /\ qs = wk[v].doomed => Condemned(k, qs)'
      BY <1>2, <2>2
    <2>4. Condemned(J(v), wk[v].doomed)'
      BY <2>1, <2>3 DEF Condemned
    <2> QED
      BY <1>1, <2>1, <2>2, <2>4
  <1>4. ASSUME NEW k \in Jobs, cancel[k].doomed # {}
        PROVE  Condemned(k, cancel[k].doomed)' /\ \A v \in Workers : Condemns(v)' => J(v)' # k
    <2>1. Condemned(k, cancel[k].doomed) /\ \A v \in Workers : Condemns(v) => J(v) # k
      BY <1>4 DEF OneSettles
    <2>2. \A i, qs : i = k /\ qs = cancel[k].doomed => Condemned(i, qs)'
      BY <1>2, <2>1
    <2>3. Condemned(k, cancel[k].doomed)'
      BY <2>2 DEF Condemned
    <2> QED
      BY <1>1, <2>1, <2>3
  <1>5. \A v \in Workers : Condemns(v)' => Condemned(J(v), wk[v].doomed)'
    BY <1>3
  <1>6. \A v \in Workers : Condemns(v)' => \A u \in Workers : Condemns(u)' /\ J(u)' = J(v)' => u = v
    BY <1>3
  <1>7. \A k \in Jobs : cancel'[k].pc = "no" => cancel'[k].doomed = {}
    BY DEF OneSettles
  <1> QED
    BY <1>4, <1>5, <1>6, <1>7 DEF OneSettles

LEMMA PathLease ==
  ASSUME Calmly, NEW w \in Workers, Lease(w) PROVE PathParts'
  <1> DEFINE x == Head(queue)
  <1>1. /\ TypeOK /\ wk \in [Workers -> Locals] /\ OneSettles
        /\ \A t \in Tasks : task[t] \in TaskRecords /\ JobOf[t] \in Jobs
    BY CalmFacts
  <1>2. queue \in Seq(Tasks) /\ queue # <<>> /\ wk[w].pc = "idle" /\ UNCHANGED <<index, disk, cancel>>
    BY <1>1 DEF TypeOK, Lease, handlers, At
  <1>3. x \in Tasks
    BY <1>2, HeadTailProperties
  <1>4. \A p : \A t : Labelled(p, t) => Labelled(p, t)'
    BY <1>2 DEF Labelled
  <1>5. CASE task[x].status \in Terminal
    <2>1. UNCHANGED <<jobStatus, task, wk>>
      BY <1>5 DEF Lease
    <2> QED
      BY <1>2, <2>1, PathQuiet
  <1>6. CASE task[x].status \notin Terminal
    <2>1. /\ task' = [task EXCEPT ![x].status = "running"]
          /\ jobStatus' = IF JobOf[x] \in index THEN [jobStatus EXCEPT ![JobOf[x]] = "running"] ELSE jobStatus
          /\ \E n : wk' = [wk EXCEPT ![w] = [IdleWorker EXCEPT !.pc = "leased", !.task = x, !.news = n]]
      BY <1>6 DEF Lease
    <2> HIDE DEF x
    <2>2. wk'[w].pc = "leased" /\ \A v \in Workers : v # w => wk'[v] = wk[v]
      BY <1>1, <2>1 DEF IdleWorker
    <2>3. JobOf[x] \in index => jobStatus[JobOf[x]] # "failed"
      BY <1>3, <1>6 DEF Calmly, Known, EndInv, EndedJobs, Ended
    <2>4. \A j : jobStatus[j] = "failed" => jobStatus'[j] = "failed"
      BY <1>1, <2>1, <2>3 DEF TypeOK
    <2>5. OneSettles'
      BY <1>1, <1>2, <2>2, <2>4, SettlesStill DEF Condemns
    <2>6. "running" \in Status
      BY DEF Status
    <2>7. \A t \in Tasks : t # x => task'[t] = task[t]
      BY <1>1, <2>1 DEF TypeOK
    <2>8. task'[x] = [task[x] EXCEPT !.status = "running"]
      BY <1>1, <1>3, <2>1 DEF TypeOK
    <2>9. \A t \in Tasks : /\ task'[t] \in TaskRecords /\ SameFiles(task'[t], task[t])
                           /\ \/ task'[t].status = task[t].status
                              \/ task[t].status \notin Terminal /\ task'[t].status = "running"
      BY <1>1, <1>3, <1>6, <2>6, <2>7, <2>8 DEF SameFiles, TaskRecords
    <2> QED
      BY <1>2, <1>4, <2>2, <2>4, <2>5, <2>9, PathRest DEF Idle
  <1> QED
    BY <1>5, <1>6

LEMMA PathExit ==
  ASSUME Calmly, NEW w \in Workers, WorkerExit(w) PROVE PathParts'
  <1>1. /\ wk \in [Workers -> Locals] /\ OneSettles
        /\ \A t \in Tasks : task[t] \in TaskRecords
    BY CalmFacts
  <1>2. /\ wk[w].pc = "idle" /\ wk' = [wk EXCEPT ![w].pc = "exited"]
        /\ UNCHANGED <<index, jobStatus, task, disk, cancel>>
    BY DEF WorkerExit, At, Goto, Elsewhere, handlers
  <1>3. wk'[w].pc = "exited" /\ \A v \in Workers : v # w => wk'[v] = wk[v]
    BY <1>1, <1>2 DEF Locals
  <1>4. OneSettles'
    BY <1>1, <1>2, <1>3, SettlesStill DEF Condemns
  <1>5. \A p : \A t : Labelled(p, t) => Labelled(p, t)'
    BY <1>2 DEF Labelled
  <1> QED
    BY <1>1, <1>2, <1>3, <1>4, <1>5, PathRest DEF Idle, SameFiles

LEMMA PathCancelled ==
  ASSUME Calmly, NEW j \in Jobs, CancelFinish(j) PROVE PathParts'
  <1> DEFINE gone == cancel[j].doomed
  <1>1. TypeOK /\ OneSettles
    BY CalmFacts
  <1>2. /\ disk' = Without(gone) /\ UNCHANGED <<index, jobStatus, task, wk>>
        /\ cancel' = [cancel EXCEPT ![j] = NoCancel]
    BY DEF CancelFinish, memory
  <1>3. cancel'[j].doomed = {} /\ \A k \in Jobs : k # j => cancel'[k] = cancel[k]
    BY <1>1, <1>2 DEF NoCancel, TypeOK
  <1>4. gone # {} => Condemned(j, gone) /\ \A v \in Workers : Condemns(v) => J(v) # j
    BY <1>1 DEF OneSettles
  <1>5. \A v \in Workers : (Condemns(v)' <=> Condemns(v)) /\ J(v)' = J(v)
    BY <1>2 DEF Condemns, J, T
  <1> HIDE DEF gone
  <1> QED
    BY <1>2, <1>3, <1>4, <1>5, PathWipe

LEMMA PathFinish ==
  ASSUME Calmly, NEW w \in Workers, FinishTask(w) PROVE PathParts'
  <1> DEFINE gone == wk[w].doomed
             j == J(w)
  <1>1. TypeOK /\ wk \in [Workers -> Locals] /\ OneSettles /\ \A t \in Tasks : JobOf[t] \in Jobs
    BY CalmFacts
  <1>2. /\ disk' = Without(gone) /\ UNCHANGED <<index, jobStatus, task, cancel>>
        /\ wk' = [wk EXCEPT ![w] = IdleWorker] /\ wk[w].pc = "settle"
    BY DEF FinishTask, memory, handlers, At
  <1>3. wk[w].task \in Tasks /\ j \in Jobs
    BY <1>1, <1>2, TypeParts DEF WkType, J, T
  <1>4. wk'[w].pc = "idle" /\ \A v \in Workers : v # w => wk'[v] = wk[v]
    BY <1>1, <1>2 DEF IdleWorker
  <1>5. \A v \in Workers : Condemns(v)' => v # w /\ Condemns(v) /\ J(v)' = J(v)
    BY <1>4 DEF Condemns, J, T
  <1>6. gone # {} => Condemns(w)
    BY <1>2, <1>3 DEF Condemns
  <1>7. gone # {} => /\ Condemned(j, gone) /\ cancel[j].doomed = {}
                     /\ \A v \in Workers : Condemns(v) /\ J(v) = j => v = w
    BY <1>1, <1>3, <1>6 DEF OneSettles
  <1> HIDE DEF gone, j
  <1>8. gone # {} => \A v \in Workers : Condemns(v)' => J(v)' # j
    BY <1>5, <1>7 DEF j
  <1>9. \A v \in Workers : wk'[v] = wk[v] \/ (wk[v].pc \in Idle /\ wk'[v].pc \in Idle /\ ~Condemns(v)')
    BY <1>2, <1>4, <1>5 DEF Idle
  <1> QED
    BY <1>2, <1>3, <1>7, <1>8, <1>9, PathWipe

\* A Cancel that finds every task of the job settled cancels none.
LEMMA PathCancel ==
  ASSUME Calmly, NEW j \in Jobs, CancelLock(j), cancel'[j].tasks = {} PROVE PathParts'
  <1> DEFINE hit  == {t \in TasksOf(j) : task[t].status \notin Terminal}
             tk   == [t \in Tasks |-> IF t \in hit THEN Settled(task[t], "cancelled") ELSE task[t]]
             now  == Aggregate(tk, j)
             all  == IF now # jobStatus[j] /\ now \in {"failed", "cancelled"}
                     THEN WrittenPaths(TasksOf(j), tk) ELSE {}
  <1>1. /\ TypeOK /\ wk \in [Workers -> Locals] /\ OneSettles /\ task \in [Tasks -> TaskRecords]
        /\ \A t \in Tasks : task[t] \in TaskRecords /\ JobOf[t] \in Jobs /\ task[t].status # "cancelled"
    BY CalmFacts DEF TypeOK
  <1>2. /\ task' = tk /\ jobStatus' = [jobStatus EXCEPT ![j] = now]
        /\ \E n : cancel' = [cancel EXCEPT ![j] = [pc |-> "persist", tasks |-> hit, doomed |-> all, news |-> n]]
        /\ j \in index /\ jobStatus[j] \notin Terminal
        /\ UNCHANGED <<index, wk, disk>>
    BY DEF CancelLock
  <1> HIDE DEF tk, now, all, hit
  <1>0. PICK gone : gone = all
    OBVIOUS
  <1>3. /\ cancel'[j].pc = "persist" /\ cancel'[j].tasks = hit /\ cancel'[j].doomed = gone
        /\ \A k \in Jobs : k # j => cancel'[k] = cancel[k]
    BY <1>0, <1>1, <1>2 DEF TypeOK
  <1>4. tk = task /\ UNCHANGED task
    <2>1. hit = {}
      BY <1>3
    <2>2. tk = [t \in Tasks |-> task[t]]
      BY <2>1 DEF tk
    <2> QED
      BY <1>1, <1>2, <2>2
  <1>5. \A k \in Jobs : jobStatus'[k] = IF k = j THEN now ELSE jobStatus[k]
    BY <1>1, <1>2 DEF TypeOK
  <1>6. now = Aggregate(task, j)
    BY <1>4 DEF now
  <1>7. now # "cancelled"
    BY <1>1, <1>6, AggregateEnds DEF TasksOf
  <1>8. gone # {} => now = "failed" /\ gone \subseteq WrittenPaths(TasksOf(j), task)
    BY <1>0, <1>4, <1>7 DEF all
  <1>9. \A t \in TasksOf(j) : task[t].status \in Terminal
    BY <1>3 DEF hit
  <1>10. /\ gone # {} => Condemned(j, gone)'
         /\ \A k \in Jobs : \A ps : Condemned(k, ps) => k # j /\ Condemned(k, ps)'
         /\ cancel[j].doomed = {} /\ \A v \in Workers : Condemns(v) => J(v) # j
    BY <1>2, <1>4, <1>5, <1>8, <1>9, Condemning
  <1>11. \A v \in Workers : (Condemns(v)' <=> Condemns(v)) /\ J(v)' = J(v) /\ (Condemns(v) => J(v) \in Jobs)
    BY <1>1, <1>2 DEF Condemns, J, T
  <1>12. OneSettles'
    <2>1. ASSUME NEW v \in Workers, Condemns(v)'
          PROVE  Condemned(J(v), wk[v].doomed)' /\ \A u \in Workers : Condemns(u)' /\ J(u)' = J(v)' => u = v
      <3>1. Condemns(v) /\ J(v) \in Jobs /\ wk'[v] = wk[v] /\ J(v)' = J(v)
        BY <1>2, <1>11, <2>1
      <3>2. Condemned(J(v), wk[v].doomed) /\ \A u \in Workers : Condemns(u) /\ J(u) = J(v) => u = v
        BY <1>1, <3>1 DEF OneSettles
      <3>3. \A k, qs : k = J(v) /\ qs = wk[v].doomed => Condemned(k, qs)'
        BY <1>10, <3>1, <3>2
      <3>4. Condemned(J(v), wk[v].doomed)'
        BY <3>1, <3>3 DEF Condemned
      <3> QED
        BY <1>11, <3>1, <3>2, <3>4
    <2>2. ASSUME NEW k \in Jobs, cancel'[k].doomed # {}
          PROVE  Condemned(k, cancel[k].doomed)' /\ \A v \in Workers : Condemns(v)' => J(v)' # k
      <3>1. CASE k = j
        <4>1. \A ps : ps = gone => Condemned(j, ps)'
          BY <1>3, <1>10, <2>2, <3>1
        <4>2. Condemned(k, cancel[k].doomed)'
          BY <1>3, <3>1, <4>1 DEF Condemned
        <4> QED
          BY <1>10, <1>11, <3>1, <4>2
      <3>2. CASE k # j
        <4>1. cancel'[k] = cancel[k]
          BY <1>3, <3>2
        <4>2. Condemned(k, cancel[k].doomed) /\ \A v \in Workers : Condemns(v) => J(v) # k
          BY <1>1, <2>2, <4>1 DEF OneSettles
        <4>3. \A qs : qs = cancel[k].doomed => Condemned(k, qs)'
          BY <1>10, <4>2
        <4>4. Condemned(k, cancel[k].doomed)'
          BY <4>1, <4>3 DEF Condemned
        <4> QED
          BY <1>11, <4>2, <4>4
      <3> QED
        BY <3>1, <3>2
    <2>3. \A k \in Jobs : cancel'[k].pc = "no" => cancel'[k].doomed = {}
      BY <1>1, <1>3 DEF OneSettles
    <2>4. \A v \in Workers : Condemns(v)' => Condemned(J(v), wk[v].doomed)'
      BY <2>1
    <2>5. \A v \in Workers : Condemns(v)' => \A u \in Workers : Condemns(u)' /\ J(u)' = J(v)' => u = v
      BY <2>1
    <2> QED
      BY <2>2, <2>3, <2>4, <2>5 DEF OneSettles
  <1>13. \A p : \A t : Labelled(p, t) => Labelled(p, t)'
    BY <1>2 DEF Labelled
  <1>14. \A k \in Jobs : jobStatus[k] = "failed" => jobStatus'[k] = "failed"
    BY <1>2, <1>5 DEF Terminal
  <1> QED
    BY <1>1, <1>2, <1>4, <1>12, <1>13, <1>14, PathRest DEF SameFiles

\* The last worker of a failed job condemns its files.
LEMMA PathSettle ==
  ASSUME Calmly, NEW w \in Workers, FinalizeJob(w) PROVE PathParts'
  <1>0. PICK j, gone :
          /\ j = J(w)
          /\ gone = IF Aggregate(task, j) \in {"failed", "cancelled"} THEN WrittenPaths(TasksOf(j), task) ELSE {}
    OBVIOUS
  <1> DEFINE now == Aggregate(task, j)
  <1>1. /\ TypeOK /\ wk \in [Workers -> Locals] /\ OneSettles /\ task \in [Tasks -> TaskRecords]
        /\ \A t \in Tasks : task[t] \in TaskRecords /\ JobOf[t] \in Jobs /\ task[t].status # "cancelled"
    BY CalmFacts DEF TypeOK
  <1>2. /\ wk[w].pc = "aggregate" /\ UNCHANGED <<index, task, disk, cancel>>
        /\ jobStatus' = [jobStatus EXCEPT ![j] = now]
    BY <1>0 DEF FinalizeJob, At, handlers
  <1>3. wk[w].task \in Tasks /\ T(w) = wk[w].task /\ j \in Jobs
    BY <1>0, <1>1, <1>2, TypeParts DEF WkType, J, T
  <1>4. /\ now = jobStatus[j] => wk' = [wk EXCEPT ![w] = IdleWorker]
        /\ now # jobStatus[j] =>
             wk' = [wk EXCEPT ![w] = [IdleWorker EXCEPT !.pc = "settle", !.task = T(w), !.news = now, !.doomed = gone]]
    BY <1>0 DEF FinalizeJob
  <1>5. now # "cancelled" /\ (now = "failed" => \A t \in TasksOf(j) : task[t].status \in Terminal)
    BY <1>1, AggregateEnds DEF TasksOf, Terminal
  <1>6. jobStatus[j] \in Terminal => now = jobStatus[j]
    BY <1>3 DEF Calmly, JobInv
  <1>7. now # jobStatus[j] => j \in index
    BY <1>0, <1>3, <1>6 DEF Calmly, JobInv
  <1> HIDE DEF now
  <1>8. \A k \in Jobs : jobStatus'[k] = IF k = j THEN now ELSE jobStatus[k]
    BY <1>1, <1>2 DEF TypeOK
  <1>9. \A k \in Jobs : jobStatus[k] = "failed" => jobStatus'[k] = "failed"
    BY <1>3, <1>6, <1>8 DEF Terminal
  <1>10. \A p : \A t : Labelled(p, t) => Labelled(p, t)'
    BY <1>2 DEF Labelled
  <1>11. \A v \in Workers : v # w => wk'[v] = wk[v]
    BY <1>1, <1>4
  <1>12. /\ wk'[w].pc \in {"idle", "settle"}
         /\ now = jobStatus[j] => wk'[w].pc = "idle"
         /\ now # jobStatus[j] => wk'[w].task = T(w) /\ wk'[w].doomed = gone
    <2>1. CASE now = jobStatus[j]
      BY <1>1, <1>4, <2>1 DEF IdleWorker
    <2>2. CASE now # jobStatus[j]
      BY <1>1, <1>4, <2>2 DEF IdleWorker
    <2> QED
      BY <2>1, <2>2
  <1>13. OneSettles'
    <2>1. CASE now = jobStatus[j]
      <3>1. jobStatus' = jobStatus
        BY <1>1, <1>2, <1>3, <2>1 DEF TypeOK
      <3> QED
        BY <1>1, <1>2, <1>11, <1>12, <2>1, <3>1, SettlesStill DEF Condemns
    <2>2. CASE now # jobStatus[j]
      <3>1. gone # {} => now = "failed" /\ gone \subseteq WrittenPaths(TasksOf(j), task)
        BY <1>0, <1>5 DEF now
      <3>2. /\ gone # {} => Condemned(j, gone)'
            /\ \A k \in Jobs : \A ps : Condemned(k, ps) => k # j /\ Condemned(k, ps)'
            /\ cancel[j].doomed = {} /\ \A v \in Workers : Condemns(v) => J(v) # j
        BY <1>2, <1>5, <1>6, <1>7, <1>8, <2>2, <3>1, <1>3, Condemning
      <3>3. J(w)' = j /\ (Condemns(w)' => gone # {})
        BY <1>0, <1>3, <1>12, <2>2 DEF J, T, Condemns
      <3>4. \A v \in Workers : v # w /\ Condemns(v)' =>
              Condemns(v) /\ wk'[v] = wk[v] /\ J(v)' = J(v) /\ J(v) \in Jobs /\ J(v) # j
        BY <1>1, <1>11, <3>2 DEF Condemns, J, T
      <3>5. ASSUME NEW v \in Workers, Condemns(v)'
            PROVE  Condemned(J(v), wk[v].doomed)' /\ \A u \in Workers : Condemns(u)' /\ J(u)' = J(v)' => u = v
        <4>1. CASE v = w
          <5>1. \A ps : ps = gone => Condemned(j, ps)'
            BY <3>2, <3>3, <3>5, <4>1
          <5>2. \A k, qs : k = j /\ qs = gone => Condemned(k, qs)'
            BY <5>1
          <5>3. J(v)' = j /\ wk'[v].doomed = gone
            BY <1>12, <2>2, <3>3, <4>1
          <5>4. Condemned(J(v), wk[v].doomed)'
            BY <5>2, <5>3, <1>2 DEF Condemned, TasksOf
          <5> QED
            BY <3>3, <3>4, <4>1, <5>4
        <4>2. CASE v # w
          <5>1. Condemns(v) /\ wk'[v] = wk[v] /\ J(v)' = J(v) /\ J(v) \in Jobs /\ J(v) # j
            BY <3>4, <3>5, <4>2
          <5>2. Condemned(J(v), wk[v].doomed) /\ \A u \in Workers : Condemns(u) /\ J(u) = J(v) => u = v
            BY <1>1, <5>1 DEF OneSettles
          <5>3. \A k, qs : k = J(v) /\ qs = wk[v].doomed => Condemned(k, qs)'
            BY <3>2, <5>1, <5>2
          <5>4. Condemned(J(v), wk[v].doomed)'
            BY <5>1, <5>3 DEF Condemned
          <5> QED
            BY <3>3, <3>4, <5>1, <5>2, <5>4
        <4> QED
          BY <4>1, <4>2
      <3>6. ASSUME NEW k \in Jobs, cancel[k].doomed # {}
            PROVE  Condemned(k, cancel[k].doomed)' /\ \A v \in Workers : Condemns(v)' => J(v)' # k
        <4>1. Condemned(k, cancel[k].doomed) /\ \A v \in Workers : Condemns(v) => J(v) # k
          BY <1>1, <3>6 DEF OneSettles
        <4>2. k # j /\ \A qs : qs = cancel[k].doomed => Condemned(k, qs)'
          BY <3>2, <4>1
        <4>3. Condemned(k, cancel[k].doomed)'
          BY <1>2, <4>2 DEF Condemned
        <4> QED
          BY <3>3, <3>4, <4>1, <4>2, <4>3
      <3>7. \A k \in Jobs : cancel'[k].pc = "no" => cancel'[k].doomed = {}
        BY <1>1, <1>2 DEF OneSettles
      <3>8. \A v \in Workers : Condemns(v)' => Condemned(J(v), wk[v].doomed)'
        BY <3>5
      <3>9. \A v \in Workers : Condemns(v)' => \A u \in Workers : Condemns(u)' /\ J(u)' = J(v)' => u = v
        BY <3>5
      <3> QED
        BY <1>2, <3>6, <3>7, <3>8, <3>9 DEF OneSettles
    <2> QED
      BY <2>1, <2>2
  <1>14. \A v \in Workers : wk'[v] = wk[v] \/ (wk[v].pc \in Idle /\ wk'[v].pc \in Idle)
    BY <1>2, <1>11, <1>12 DEF Idle
  <1> QED
    BY <1>1, <1>2, <1>9, <1>10, <1>13, <1>14, PathRest DEF SameFiles

-----------------------------------------------------------------------------
(* PathInv: Submit, Shutdown and Boot.                                     *)

LEMMA RecordsCopied ==
  ASSUME NEW js, NEW tk, NEW kt, PathsOf(js, tk), \A t \in Tasks : JobOf[t] \in js => kt[t] = tk[t]
  PROVE  PathsOf(js, kt)
  <1>1. \A t \in Tasks : (Open(js, kt, t) <=> Open(js, tk, t)) /\ (Open(js, kt, t) => kt[t] = tk[t])
    BY DEF Open
  <1>2. Records(js, kt)
    BY <1>1 DEF PathsOf, Records
  <1>3. Separate(js, kt)
    BY <1>1 DEF PathsOf, Separate
  <1>4. Mine(js, kt)
    BY <1>1 DEF PathsOf, Mine
  <1> QED
    BY <1>2, <1>3, <1>4 DEF PathsOf

\* Where no worker has a task and no Cancel anything to delete.
LEMMA PathsAtRest ==
  ASSUME \A t \in Tasks : task[t].status # "cancelled", PathsOf(index, task), Stored,
         \A v \in Workers : wk[v].task \notin Tasks, \A j \in Jobs : cancel[j].doomed = {}
  PROVE  PathParts
  BY DEF PathParts, AtWork, OneSettles, Condemns

\* What a walk over the tasks finds for them: paths that are neither on disk nor reserved nor those
\* of a task earlier in the walk, with the lowest suffix for which that is so.
PlacedBefore(pick, moved, tk, t, p) ==
  \E u \in moved : Rank[u] < Rank[t] /\ p \in Claims(u, Moved(tk[u], pick[u]))
Taken(pick, moved, kept, tk, reserved, t, p) ==
  \/ p \in DOMAIN disk \cup reserved
  \/ PlacedBefore(pick, moved, tk, t, p)
  \/ \E u \in kept \ moved : Rank[u] < Rank[t] /\ p \in Claims(u, tk[u])

LEMMA Resolves ==
  ASSUME NEW pick, NEW moved, NEW kept, NEW tk, NEW reserved,
         ResolvedBy(pick, moved, kept, tk, reserved), NEW t \in moved
  PROVE  /\ \A p \in Claims(t, Moved(tk[t], pick[t])) : ~Taken(pick, moved, kept, tk, reserved, t, p)
         /\ \A n \in 0..(pick[t] - 1) : \E p \in Claims(t, Moved(tk[t], n)) :
              Taken(pick, moved, kept, tk, reserved, t, p)
  <1> DEFINE placed(u) == IF u \in moved THEN Moved(tk[u], pick[u]) ELSE tk[u]
             earlier   == {u \in moved \cup kept : Rank[u] < Rank[t]}
             taken     == DOMAIN disk \cup reserved \cup UNION {Claims(u, placed(u)) : u \in earlier}
  <1>1. /\ Free(t, tk[t], pick[t], taken)
        /\ \A n \in 0..(pick[t] - 1) : ~Free(t, tk[t], n, taken)
    BY DEF ResolvedBy
  <1>2. \A u \in moved : placed(u) = Moved(tk[u], pick[u])
    OBVIOUS
  <1>3. \A u \in kept \ moved : placed(u) = tk[u]
    OBVIOUS
  <1>4. \A u : u \in earlier <=> u \in moved \cup kept /\ Rank[u] < Rank[t]
    OBVIOUS
  <1> HIDE DEF placed, earlier
  <1>5. \A p : p \in taken <=> p \in DOMAIN disk \cup reserved \/ \E u \in earlier : p \in Claims(u, placed(u))
    OBVIOUS
  <1>6. \A p : p \in taken <=> Taken(pick, moved, kept, tk, reserved, t, p)
    <2> SUFFICES ASSUME NEW p
                 PROVE  (\E u \in earlier : p \in Claims(u, placed(u))) <=>
                          \/ PlacedBefore(pick, moved, tk, t, p)
                          \/ \E u \in kept \ moved : Rank[u] < Rank[t] /\ p \in Claims(u, tk[u])
      BY <1>5 DEF Taken
    <2> QED
      BY <1>2, <1>3, <1>4 DEF PlacedBefore
  <1> HIDE DEF taken
  <1> QED
    BY <1>1, <1>6 DEF Free

\* Tasks that are submitted get paths that nobody has or wants.
LEMMA PathSubmit ==
  ASSUME Calmly, NEW j \in Jobs, SubmitInsert(j) PROVE PathParts'
  <1>1. /\ TypeOK /\ wk \in [Workers -> Locals] /\ OneSettles /\ \A v \in Workers : AtWork(v)
        /\ \A t \in Tasks : task[t] \in TaskRecords /\ JobOf[t] \in Jobs /\ task[t].status # "cancelled"
    BY CalmFacts
  <1>2. Records(index, task) /\ Separate(index, task) /\ Mine(index, task) /\ Stored
    BY CalmFacts
  <1>3. PICK pick \in [TasksOf(j) -> 0..MaxSuffix] :
          /\ ResolvedBy(pick, TasksOf(j), {}, task, ReservedPaths)
          /\ task' = [t \in Tasks |-> IF t \in TasksOf(j) THEN Moved(task[t], pick[t]) ELSE task[t]]
    BY DEF SubmitInsert
  <1>4. /\ submit[j] = "new" /\ index' = index \cup {j}
        /\ UNCHANGED <<jobStatus, wk, cancel, disk>>
    BY DEF SubmitInsert
  <1>5. \A t \in TasksOf(j) : t \in Tasks /\ JobOf[t] = j
    BY DEF TasksOf
  <1>6. \A t \in Tasks : JobOf[t] = j => t \in TasksOf(j)
    BY DEF TasksOf
  <1>7. \A t \in TasksOf(j) : /\ task[t] = Blank(t) /\ (\A p \in DOMAIN disk : disk[p] # t)
                              /\ \A v \in Workers : ~Carries(v, t)
    BY <1>4, <1>5 DEF Calmly, Unrecorded, Known, FilesInv, Unwritten, OnceInv, Unsent, Nowhere
  <1>8. j \notin index
    BY <1>4 DEF Calmly, Known, SettleInv, FreshJobs
  <1>9. \A t \in TasksOf(j) : /\ task'[t] = Moved(task[t], pick[t])
                              /\ task'[t].ext = FirstExt(j) /\ task'[t].status = "queued"
                              /\ ~task'[t].wrote /\ ~task'[t].wroteMeta
    <2>1. \A t \in TasksOf(j) : task'[t] = Moved(Blank(t), pick[t])
      BY <1>3, <1>5, <1>7
    <2>2. \A t \in TasksOf(j) : \A n : /\ Moved(Blank(t), n).ext = FirstExt(j) /\ Moved(Blank(t), n).status = "queued"
                                       /\ ~Moved(Blank(t), n).wrote /\ ~Moved(Blank(t), n).wroteMeta
      BY <1>5 DEF Blank, Moved
    <2> QED
      BY <1>7, <2>1, <2>2
  <1>10. \A t \in Tasks : t \notin TasksOf(j) => task'[t] = task[t]
    BY <1>3
  <1>0. /\ \A t \in TasksOf(j) : Claims(t, Moved(task[t], pick[t])) \cap (DOMAIN disk \cup ReservedPaths) = {}
        /\ \A t, u \in TasksOf(j) : Rank[u] < Rank[t] =>
             Claims(t, Moved(task[t], pick[t])) \cap Claims(u, Moved(task[u], pick[u])) = {}
    <2>1. \A t \in TasksOf(j) : \A p \in Claims(t, Moved(task[t], pick[t])) :
            ~Taken(pick, TasksOf(j), {}, task, ReservedPaths, t, p)
      BY <1>3, Resolves
    <2> QED
      BY <2>1 DEF Taken, PlacedBefore
  <1>11. \A t \in TasksOf(j) : Claims(t, task'[t]) \cap (DOMAIN disk \cup ReservedPaths) = {}
    BY <1>0, <1>9
  <1>12. \A t, u \in TasksOf(j) : t # u => Claims(t, task'[t]) \cap Claims(u, task'[u]) = {}
    <2>1. \A t, u \in TasksOf(j) : Rank[u] < Rank[t] => Claims(t, task'[t]) \cap Claims(u, task'[u]) = {}
      BY <1>0, <1>9
    <2>2. \A t, u \in TasksOf(j) : t # u => Rank[t] < Rank[u] \/ Rank[u] < Rank[t]
      BY <1>5, PoolAssumption
    <2> QED
      BY <2>1, <2>2
  <1>13. \A t \in Tasks : Open(index, task, t)' => t \in TasksOf(j) \/ (t \notin TasksOf(j) /\ Open(index, task, t))
    BY <1>4, <1>6, <1>10 DEF Open
  <1>14. \A u \in Tasks : Open(index, task, u) => Claims(u, task[u]) \subseteq ReservedPaths
    BY DEF Open, ReservedPaths, Live
  <1>15. \A t \in Tasks : task'[t].status # "cancelled"
    BY <1>1, <1>9, <1>10
  <1>16. Records(index, task)'
    <2> SUFFICES ASSUME NEW t \in Tasks, JobOf[t] \in index'
                 PROVE  /\ task'[t].ext \in {FirstExt(JobOf[t]), MediaExt[JobOf[t]]}
                        /\ task'[t].status # "cancelled"
                        /\ task'[t].status = "completed" => Whole(t, task'[t])
                        /\ Open(index, task, t)' /\ task'[t].wrote => JobOf[t] \in Ugoira \cup WithMeta
                        /\ \A p \in DOMAIN disk' : disk'[p] = t /\ p[4] => task'[t].wrote
      BY DEF Records, Open
    <2>1. CASE t \in TasksOf(j)
      BY <1>4, <1>5, <1>7, <1>9, <2>1
    <2>2. CASE t \notin TasksOf(j)
      BY <1>2, <1>4, <1>6, <1>10, <2>2 DEF Records, Open
    <2> QED
      BY <2>1, <2>2
  <1>17. Separate(index, task)'
    <2> SUFFICES ASSUME NEW t \in Tasks, NEW u \in Tasks, t # u, Open(index, task, t)', Open(index, task, u)'
                 PROVE  Claims(t, task'[t]) \cap Claims(u, task'[u]) = {}
      BY DEF Separate
    <2>1. CASE t \in TasksOf(j) /\ u \in TasksOf(j)
      BY <1>12, <2>1
    <2>2. CASE t \in TasksOf(j) /\ u \notin TasksOf(j)
      BY <1>10, <1>11, <1>13, <1>14, <2>2
    <2>3. CASE t \notin TasksOf(j) /\ u \in TasksOf(j)
      BY <1>10, <1>11, <1>13, <1>14, <2>3
    <2>4. CASE t \notin TasksOf(j) /\ u \notin TasksOf(j)
      BY <1>2, <1>10, <1>13, <2>4 DEF Separate
    <2> QED
      BY <2>1, <2>2, <2>3, <2>4
  <1>18. Mine(index, task)'
    <2> SUFFICES ASSUME NEW t \in Tasks, Open(index, task, t)', NEW p \in Claims(t, task'[t]), p \in DOMAIN disk
                 PROVE  disk[p] = t
      BY <1>4 DEF Mine
    <2>1. CASE t \in TasksOf(j)
      BY <1>11, <2>1
    <2>2. CASE t \notin TasksOf(j)
      BY <1>2, <1>10, <1>13, <2>2 DEF Mine
    <2> QED
      BY <2>1, <2>2
  <1>19. Stored'
    <2> SUFFICES ASSUME NEW t \in Tasks, JobOf[t] \in index', jobStatus[JobOf[t]] # "failed",
                        NEW p, p \in WrittenPaths({t}, task')
                 PROVE  Labelled(p, t)' \/ Encoded(t, p)'
      BY <1>4 DEF Stored
    <2>1. Owns(t, task'[t], p)
      BY WrittenOwned
    <2>2. t \notin TasksOf(j)
      BY <1>9, <2>1 DEF Owns
    <2>3. p \in WrittenPaths({t}, task)
      BY <1>10, <2>1, <2>2, WrittenOwned
    <2>4. JobOf[t] \in index
      BY <1>4, <1>6, <2>2
    <2>5. Labelled(p, t) \/ Encoded(t, p)
      BY <1>2, <2>3, <2>4 DEF Stored
    <2> QED
      BY <1>4, <1>10, <2>2, <2>5 DEF Labelled, Encoded, Carries
  <1>20. \A v \in Workers : AtWork(v)'
    <2> SUFFICES ASSUME NEW v \in Workers, wk[v].task \in Tasks PROVE AtWork(v)'
      BY <1>4 DEF AtWork
    <2>1. wk[v].task \notin TasksOf(j)
      BY <1>7 DEF Carries
    <2>2. wk'[v] = wk[v] /\ T(v)' = T(v) /\ J(v)' = J(v) /\ Rec(v)' = Rec(v)
      BY <1>4, <1>10, <2>1 DEF T, J, Rec
    <2>3. \A p : Labelled(p, T(v)) => Labelled(p, T(v))'
      BY <1>4, <2>2 DEF Labelled
    <2>4. AtWork(v)
      BY <1>1
    <2> QED
      BY <2>2, <2>3, <2>4 DEF AtWork
  <1>21. OneSettles'
    BY <1>1, <1>4, SettlesStill
  <1> QED
    BY <1>15, <1>16, <1>17, <1>18, <1>19, <1>20, <1>21 DEF PathParts, PathsOf

\* What an orderly shutdown leaves on disk is what the memory held.
LEMMA PathShutdown ==
  ASSUME Calmly, Shutdown, Undisturbed'
  PROVE  PathParts' /\ PathsOf(store.jobs, store.task)' /\ StoredAtRest'
  <1>1. TypeOK /\ Stored /\ OneSettles /\ \A t \in Tasks : JobOf[t] \in Jobs
    BY CalmFacts
  <1>2. PathsOf(index, task)
    BY DEF Calmly, PathParts
  <1>3. /\ up /\ index' = {} /\ UNCHANGED disk
        /\ \A w \in Workers : wk[w].pc = "exited" /\ wk'[w].task = None
        /\ \A j \in Jobs : cancel'[j] = NoCancel
        /\ \A t \in Tasks : task'[t] = Blank(t)
        /\ store'.jobs = index
        /\ \A t \in Tasks : store'.task[t] = IF JobOf[t] \in index THEN task[t] ELSE Blank(t)
    BY DEF Shutdown, Gone, IdleWorker, Snapshot
  <1>4. PathParts'
    <2>1. (\A t \in Tasks : task[t].status # "cancelled")'
      <3>1. \A t \in Tasks : Blank(t).status = "queued"
        BY DEF Blank
      <3> QED
        BY <1>3, <3>1
    <2>2. PathsOf(index, task)' /\ Stored'
      BY <1>3 DEF PathsOf, Records, Separate, Mine, Open, Stored
    <2>3. (\A v \in Workers : wk[v].task \notin Tasks)' /\ (\A j \in Jobs : cancel[j].doomed = {})'
      BY <1>3, PoolAssumption DEF NoCancel
    <2> QED
      BY <2>1, <2>2, <2>3, PathsAtRest, PTL
  <1>5. PathsOf(store.jobs, store.task)'
    <2>1. PICK kt : kt = store'.task
      OBVIOUS
    <2>2. \A t \in Tasks : JobOf[t] \in index => kt[t] = task[t]
      BY <1>3, <2>1
    <2>3. PathsOf(index, kt)
      BY <1>2, <2>2, RecordsCopied
    <2> QED
      BY <1>3, <2>1, <2>3 DEF PathsOf, Records, Separate, Mine, Open
  <1>6. \A w \in Workers : wk[w].task \notin Tasks
    BY <1>3 DEF Calmly, Known, PlaceInv, InStage, Working, Ending
  <1>7. StoredAtRest'
    <2> SUFFICES ASSUME NEW t \in Tasks, JobOf[t] \in index, Aggregate(store'.task, JobOf[t]) # "failed",
                        NEW p, p \in WrittenPaths({t}, store'.task)
                 PROVE  Labelled(p, t)'
      BY <1>3 DEF StoredAtRest
    <2>1. \A u \in Tasks : JobOf[u] = JobOf[t] => store'.task[u] = task[u]
      BY <1>3
    <2>2. Aggregate(store'.task, JobOf[t]) = Aggregate(task, JobOf[t])
      BY <1>1, <2>1, AggregateSame DEF TasksOf
    <2>3. jobStatus[JobOf[t]] = Aggregate(task, JobOf[t])
      BY <1>3, <1>6 DEF Calmly, Known, PlaceInv, JobStatusSettles, Holds, TasksOf
    <2>4. p \in WrittenPaths({t}, task)
      BY <2>1, WrittenOwned
    <2>5. Labelled(p, t) \/ Encoded(t, p)
      BY <1>1, <2>2, <2>3, <2>4 DEF Stored
    <2> QED
      BY <1>3, <1>6, <2>5 DEF Labelled, Encoded, Carries
  <1> QED
    BY <1>4, <1>5, <1>7

\* Among the tasks of a walk one that has a property has none before it that has.
LEMMA FirstOf ==
  ASSUME NEW ts \in SUBSET Tasks, ts # {}
  PROVE  \E t \in ts : \A u \in ts : ~ (Rank[u] < Rank[t])
  <1> DEFINE R  == OpToRel(<, Nat)
             ns == {Rank[t] : t \in ts}
  <1>1. IsWellFoundedOn(R, Nat)
    BY NatLessThanWellFounded
  <1>2. \A x, y \in Nat : y < x => <<y, x>> \in R
    BY DEF OpToRel
  <1>3. ns \in SUBSET Nat /\ ns # {}
    BY PoolAssumption
  <1> HIDE DEF R
  <1>4. PICK x \in ns : \A y \in ns : ~ (<<y, x>> \in R)
    BY <1>1, <1>3, WFMin
  <1>5. \A y \in ns : ~ (y < x)
    BY <1>2, <1>3, <1>4
  <1> QED
    BY <1>4, <1>5

\* After an orderly shutdown every task finds its paths free again, and keeps them.
LEMMA PathBoot ==
  ASSUME Calmly, PathsOf(store.jobs, store.task), StoredAtRest, Boot
  PROVE  PathParts'
  <1> DEFINE loaded == [t \in Tasks |-> Loaded(t)]
             known  == {t \in Tasks : JobOf[t] \in store.jobs}
             todo   == {t \in known : loaded[t].status \notin Terminal}
             moved  == {t \in todo : ~loaded[t].wrote /\ ~loaded[t].wroteMeta}
             kept   == todo \ moved
  <1>1. TypeOK /\ FilesInv /\ OneSettles /\ \A t \in Tasks : JobOf[t] \in Jobs
    BY CalmFacts
  <1>2. /\ ~up /\ index' = store.jobs /\ UNCHANGED <<wk, cancel, disk>>
        /\ jobStatus' = [j \in Jobs |-> IF j \in store.jobs THEN Aggregate(loaded, j) ELSE "queued"]
    BY DEF Boot, handlers
  <1>3. PICK pick \in [moved -> 0..MaxSuffix] :
          /\ ResolvedBy(pick, moved, kept, loaded, {})
          /\ task' = [t \in Tasks |-> IF t \in moved THEN Moved(loaded[t], pick[t]) ELSE loaded[t]]
    BY DEF Boot
  <1>4. \A t \in Tasks : store.task[t] \in TaskRecords /\ loaded[t] = store.task[t]
    <2>1. \A t \in Tasks : JobOf[t] \in store.jobs => store.task[t].status # "running"
      BY <1>2 DEF Calmly, Known, PlaceInv, NoneLeftRunning, Undisturbed
    <2>2. \A t \in Tasks : JobOf[t] \notin store.jobs => store.task[t].status = "queued"
      BY DEF Calmly, Known, PlaceInv, Untold
    <2> QED
      BY <1>1, <2>1, <2>2 DEF Loaded, TypeOK
  <1>5. /\ moved \in SUBSET Tasks
        /\ \A t \in moved : Open(store.jobs, store.task, t) /\ ~store.task[t].wrote /\ ~store.task[t].wroteMeta
        /\ \A t \in kept : t \in Tasks /\ t \notin moved /\ Open(store.jobs, store.task, t)
    BY <1>4 DEF Open
  <1>6. \A t \in Tasks : JobOf[t] \notin store.jobs => t \notin moved
    OBVIOUS
  <1> HIDE DEF loaded, known, todo, moved, kept
  <1>7. \A t \in Tasks : Moved(store.task[t], 0) = store.task[t]
    BY <1>4 DEF Moved, Suffixed, TaskRecords
  <1>8. \A t \in moved : \A p \in Claims(t, store.task[t]) : p \notin DOMAIN disk
    <2> SUFFICES ASSUME NEW t \in moved, NEW p \in Claims(t, store.task[t]), p \in DOMAIN disk PROVE FALSE
      OBVIOUS
    <2>1. disk[p] = t /\ t \in Tasks
      BY <1>5 DEF PathsOf, Mine
    <2>2. JobOf[t] \in store.jobs /\ ~store.task[t].wrote /\ ~store.task[t].wroteMeta
      BY <1>5 DEF Open
    <2>3. ~p[4]
      BY <2>1, <2>2 DEF PathsOf, Records
    <2>4. Tracked(p)
      BY <2>3 DEF Tracked
    <2>5. Owns(t, store.task[t], p)
      BY <1>1, <1>2, <2>1, <2>2, <2>4 DEF FilesInv, AtRest
    <2> QED
      BY <2>2, <2>5 DEF Owns
  <1>9. \A t \in moved : pick[t] = 0
    <2> DEFINE far == {t \in moved : pick[t] # 0}
    <2> SUFFICES ASSUME far # {} PROVE FALSE
      OBVIOUS
    <2>1. PICK t \in far : \A u \in far : ~ (Rank[u] < Rank[t])
      BY <1>5, FirstOf
    <2>2. t \in moved /\ t \in Tasks /\ pick[t] \in 0..MaxSuffix /\ pick[t] # 0
      BY <1>3, <1>5, <2>1
    <2>3. 0 \in 0..(pick[t] - 1)
      BY <2>2, BoundAssumption
    <2>4. PICK p \in Claims(t, Moved(loaded[t], 0)) : Taken(pick, moved, kept, loaded, {}, t, p)
      BY <1>3, <2>2, <2>3, Resolves
    <2>5. p \in Claims(t, store.task[t])
      BY <1>4, <1>7, <2>2, <2>4
    <2>6. p \notin DOMAIN disk
      BY <1>8, <2>2, <2>5
    <2>7. Open(store.jobs, store.task, t)
      BY <1>5, <2>2
    <2>8. ~PlacedBefore(pick, moved, loaded, t, p)
      <3> SUFFICES ASSUME NEW u \in moved, Rank[u] < Rank[t], p \in Claims(u, Moved(loaded[u], pick[u]))
                   PROVE  FALSE
        BY DEF PlacedBefore
      <3>1. pick[u] = 0
        BY <2>1
      <3>2. u \in Tasks /\ p \in Claims(u, store.task[u]) /\ Open(store.jobs, store.task, u)
        BY <1>4, <1>5, <1>7, <3>1
      <3>3. u # t
        BY <2>2, PoolAssumption
      <3> QED
        BY <2>2, <2>5, <2>7, <3>2, <3>3 DEF PathsOf, Separate
    <2>9. ASSUME NEW u \in kept \ moved, p \in Claims(u, loaded[u]) PROVE FALSE
      <3>1. u \in Tasks /\ u # t /\ Open(store.jobs, store.task, u)
        BY <1>5, <2>2
      <3> QED
        BY <1>4, <2>2, <2>5, <2>7, <2>9, <3>1 DEF PathsOf, Separate
    <2> QED
      BY <2>4, <2>6, <2>8, <2>9 DEF Taken
  <1>10. \A t \in Tasks : task'[t] = store.task[t]
    BY <1>3, <1>4, <1>7, <1>9
  <1>11. (\A t \in Tasks : task[t].status # "cancelled")'
    <2>1. \A t \in Tasks : store.task[t].status # "cancelled"
      <3>1. \A t \in Tasks : JobOf[t] \notin store.jobs => store.task[t].status = "queued"
        BY DEF Calmly, Known, PlaceInv, Untold
      <3> QED
        BY <3>1 DEF PathsOf, Records
    <2> QED
      BY <1>10, <2>1
  <1>12. PathsOf(index, task)'
    <2>1. PICK kt : kt = task'
      OBVIOUS
    <2>2. PathsOf(store.jobs, kt)
      BY <1>10, <2>1, RecordsCopied
    <2> QED
      BY <1>2, <2>1, <2>2 DEF PathsOf, Records, Separate, Mine, Open
  <1>13. Stored'
    <2> SUFFICES ASSUME NEW t \in Tasks, JobOf[t] \in store.jobs, jobStatus'[JobOf[t]] # "failed",
                        NEW p, p \in WrittenPaths({t}, task')
                 PROVE  Labelled(p, t)' \/ Encoded(t, p)'
      BY <1>2 DEF Stored
    <2>1. \A u \in TasksOf(JobOf[t]) : loaded[u].status = store.task[u].status
      BY <1>4 DEF TasksOf
    <2>2. Aggregate(loaded, JobOf[t]) = Aggregate(store.task, JobOf[t])
      BY <1>1, <2>1, AggregateSame
    <2>3. Aggregate(store.task, JobOf[t]) # "failed"
      BY <1>1, <1>2, <2>2
    <2>4. p \in WrittenPaths({t}, store.task)
      <3>1. Owns(t, task'[t], p)
        BY WrittenOwned
      <3>2. Owns(t, store.task[t], p)
        BY <1>10, <3>1
      <3> QED
        BY <3>2, WrittenOwned
    <2> QED
      BY <1>2, <2>3, <2>4 DEF StoredAtRest, Labelled
  <1>14. (\A v \in Workers : wk[v].task \notin Tasks)'
    BY <1>2 DEF Calmly, Known, OnceInv, DownIsIdle, Nowhere, Carries
  <1>15. (\A j \in Jobs : cancel[j].doomed = {})'
    BY <1>1, <1>2 DEF OneSettles, Calmly, Known, SettleInv, DownIsEmpty
  <1> QED
    BY <1>11, <1>12, <1>13, <1>14, <1>15, PathsAtRest, PTL

-----------------------------------------------------------------------------
(* PathInv holds.                                                          *)

LEMMA SavesWhole ==
  ASSUME SettleInv, [Next]_vars
  PROVE  UNCHANGED store \/ Persist \/ store' = Snapshot(index, task)
  <1>1. TypeOK
    BY DEF SettleInv
  <1>2. CASE \E w \in Workers : WorkerStep(w)
    BY <1>1, <1>2, WorkerIsCalm DEF CalmStep
  <1> QED
    BY <1>2
    DEF Next, HandlerStep, HandlerEnd, SenderStep, ProcessStep, UserStep, SubmitInsert, SubmitFinish, CancelLock,
        CancelPersist, CancelFinish, Remove, RemoveTerminal, RemoveFinish, Drop, Send, SendAbort, Stop, Shutdown,
        Crash, Boot, UserDeletes, UserPlaces, Rest, vars

LEMMA UnrecordedStep ==
  Unrecorded /\ OnceInv /\ SettleInv /\ [Next]_vars => Unrecorded'
  <1> SUFFICES ASSUME Unrecorded, OnceInv, SettleInv, [Next]_vars PROVE Unrecorded'
    OBVIOUS
  <1>1. TypeOK /\ \A t \in Tasks : JobOf[t] \in Jobs
    BY PoolAssumption DEF SettleInv
  <1>2. \A t \in Tasks : JobOf[t] \notin store'.jobs => store'.task[t] = Blank(t)
    <2>1. CASE UNCHANGED store
      BY <2>1 DEF Unrecorded
    <2>2. CASE Persist \/ store' = Snapshot(index, task)
      BY <2>2 DEF Persist, Snapshot
    <2> QED
      BY <2>1, <2>2, SavesWhole
  <1>3. ASSUME NEW t \in Tasks, submit'[JobOf[t]] = "new" PROVE task'[t] = Blank(t)
    <2>1. submit[JobOf[t]] = "new" => task[t] = Blank(t) /\ JobOf[t] \notin index /\ JobOf[t] \notin store.jobs
                                      /\ ~InQueue(t) /\ \A w \in Workers : wk[w].task # t
      BY <1>1 DEF Unrecorded, SettleInv, FreshJobs, OnceInv, Unsent, Nowhere, Carries
    <2>2. CASE \E j \in Jobs : SubmitInsert(j)
      <3>1. PICK j \in Jobs : SubmitInsert(j)
        BY <2>2
      <3>2. submit' = [submit EXCEPT ![j] = "inserted"]
        BY <3>1 DEF SubmitInsert
      <3>3. JobOf[t] # j /\ submit[JobOf[t]] = "new"
        BY <1>1, <1>3, <3>2 DEF TypeOK
      <3>4. task'[t] = task[t]
        BY <3>1, <3>3 DEF SubmitInsert, TasksOf
      <3> QED
        BY <2>1, <3>3, <3>4
    <2>3. CASE \E j \in Jobs : CancelLock(j)
      <3>1. PICK j \in Jobs : CancelLock(j)
        BY <2>3
      <3>2. j \in index /\ submit' = submit
        BY <3>1 DEF CancelLock
      <3>3. JobOf[t] # j
        BY <1>3, <2>1, <3>2
      <3>4. task'[t] = task[t]
        BY <3>1, <3>3 DEF CancelLock, TasksOf
      <3> QED
        BY <1>3, <2>1, <3>2, <3>4
    <2>4. CASE \E w \in Workers : WorkerStep(w)
      <3>1. PICK w \in Workers : WorkerStep(w)
        BY <2>4
      <3>2. submit' = submit
        BY <1>1, <3>1, WorkerIsCalm DEF CalmStep
      <3>3. CASE Lease(w)
        <4> DEFINE x == Head(queue)
        <4>1. queue \in Seq(Tasks) /\ queue # <<>>
          BY <1>1, <3>3 DEF TypeOK, Lease
        <4>2. x \in Tasks /\ InQueue(x)
          BY <4>1, HeadTailProperties, LenProperties DEF InQueue
        <4>3. task' = task \/ task' = [task EXCEPT ![x].status = "running"]
          BY <3>3 DEF Lease
        <4> HIDE DEF x
        <4>4. t # x
          BY <1>3, <2>1, <3>2, <4>2
        <4> QED
          BY <1>1, <1>3, <2>1, <3>2, <4>3, <4>4 DEF TypeOK
      <3>4. CASE ~Lease(w)
        <4>1. t # T(w)
          BY <1>3, <2>1, <3>2 DEF T
        <4> QED
          BY <1>1, <1>3, <2>1, <3>1, <3>2, <3>4, <4>1, WorkerWrites
      <3> QED
        BY <3>3, <3>4
    <2>5. CASE Shutdown \/ Crash
      BY <2>5 DEF Shutdown, Crash, Gone
    <2>6. CASE Boot
      <3> DEFINE loaded == [u \in Tasks |-> Loaded(u)]
                 known  == {u \in Tasks : JobOf[u] \in store.jobs}
                 todo   == {u \in known : loaded[u].status \notin Terminal}
                 moved  == {u \in todo : ~loaded[u].wrote /\ ~loaded[u].wroteMeta}
      <3>1. PICK pick : task' = [u \in Tasks |-> IF u \in moved THEN Moved(loaded[u], pick[u]) ELSE loaded[u]]
        BY <2>6 DEF Boot
      <3>2. submit[JobOf[t]] = "new"
        BY <1>3, <2>6 DEF Boot, handlers
      <3>3. t \notin moved /\ store.task[t] = Blank(t)
        BY <2>1, <3>2 DEF Unrecorded
      <3>4. Loaded(t) = Blank(t)
        BY <3>3 DEF Loaded, Blank
      <3> QED
        BY <3>1, <3>3, <3>4
    <2>7. CASE \/ \E j \in Jobs : SubmitFinish(j) \/ CancelPersist(j) \/ CancelFinish(j)
               \/ \E js : (up /\ Drop(js)) \/ RemoveFinish(js)
               \/ SenderStep \/ Stop \/ UserStep \/ Rest \/ UNCHANGED vars
      <3>1. UNCHANGED task
        BY <2>7 DEF SubmitFinish, CancelPersist, CancelFinish, Drop, RemoveFinish, SenderStep, Send, SendAbort, Stop,
           UserStep, UserDeletes, UserPlaces, Rest, vars, memory
      <3>2. \A j \in Jobs : submit'[j] = "new" => submit[j] = "new"
        BY <1>1, <2>7 DEF SubmitFinish, CancelPersist, CancelFinish, Drop, RemoveFinish, SenderStep, Send, SendAbort,
           Stop, UserStep, UserDeletes, UserPlaces, Rest, vars, handlers, TypeOK
      <3> QED
        BY <1>1, <1>3, <2>1, <3>1, <3>2
    <2> QED
      BY <2>2, <2>3, <2>4, <2>5, <2>6, <2>7
      DEF Next, HandlerStep, HandlerEnd, ProcessStep, Remove, RemoveTerminal
  <1> QED
    BY <1>2, <1>3 DEF Unrecorded

LEMMA CalmBefore ==
  ASSUME ToldInv, SettleInv, [Next]_vars, Undisturbed, ~UserStep, ~Crash, Calm'
  PROVE  Calm
  <1>1. TypeOK
    BY DEF SettleInv
  <1>2. acked \subseteq acked'
    <2>1. CASE \E w \in Workers : WorkerStep(w)
      BY <1>1, <2>1, WorkerIsCalm DEF CalmStep
    <2> QED
      BY <2>1 DEF Next, HandlerStep, HandlerEnd, SenderStep, ProcessStep, SubmitInsert, SubmitFinish, CancelLock,
         CancelPersist, CancelFinish, Remove, RemoveTerminal, RemoveFinish, Drop, Send, SendAbort, Stop, Shutdown,
         Boot, Rest, vars, history
  <1>3. \A j \in Jobs : cancel[j].tasks = {}
    <2>1. CASE UNCHANGED cancel
      BY <2>1 DEF Calm
    <2>2. CASE Shutdown
      <3>1. used' # [used EXCEPT !.crashes = @ + 1]
        BY <1>1 DEF TypeOK, Calm, Undisturbed
      <3> QED
        BY <2>2, <3>1 DEF Shutdown, HandlersDone, NoCancel
    <2>3. CASE \E j \in Jobs : CancelLock(j)
      <3>1. PICK j \in Jobs : CancelLock(j)
        BY <2>3
      <3>2. jobStatus[j] \notin Terminal /\ \A k \in Jobs : k # j => cancel'[k] = cancel[k]
        BY <1>1, <3>1 DEF CancelLock, TypeOK
      <3>3. cancel[j].tasks = {}
        BY <3>2 DEF ToldInv, CancelHolds, Terminal
      <3> QED
        BY <3>2, <3>3 DEF Calm
    <2>4. CASE \E j \in Jobs : CancelPersist(j)
      BY <1>1, <2>4 DEF CancelPersist, Calm, TypeOK, Cancels
    <2>5. CASE \E j \in Jobs : CancelFinish(j)
      <3>1. PICK j \in Jobs : CancelFinish(j)
        BY <2>5
      <3>2. /\ acked' = IF cancel[j].tasks = {} THEN acked ELSE acked \cup {j}
            /\ \A k \in Jobs : k # j => cancel'[k] = cancel[k]
        BY <1>1, <3>1 DEF CancelFinish, TypeOK
      <3> QED
        BY <3>2 DEF Calm
    <2>6. CASE \E w \in Workers : WorkerStep(w)
      BY <1>1, <2>1, <2>6, WorkerIsCalm DEF CalmStep
    <2> QED
      BY <2>1, <2>2, <2>3, <2>4, <2>5, <2>6
      DEF Next, HandlerStep, HandlerEnd, SenderStep, ProcessStep, SubmitInsert, SubmitFinish, Remove, RemoveTerminal,
          RemoveFinish, Drop, Send, SendAbort, Stop, Boot, Rest, vars, handlers
  <1> QED
    BY <1>2, <1>3 DEF Calm

LEMMA PathInit == Init => PathInv /\ Unrecorded
  <1> SUFFICES ASSUME Init PROVE PathInv /\ Unrecorded
    OBVIOUS
  <1>1. /\ up /\ index = {} /\ \A t \in Tasks : task[t] = Blank(t) /\ store.task[t] = Blank(t)
        /\ \A w \in Workers : wk[w].task \notin Tasks
        /\ \A j \in Jobs : cancel[j].doomed = {}
    BY PoolAssumption DEF Init, IdleWorker, NoCancel
  <1>2. \A t \in Tasks : task[t].status # "cancelled"
    <2>1. \A t \in Tasks : Blank(t).status = "queued"
      BY DEF Blank
    <2> QED
      BY <1>1, <2>1
  <1>3. PathsOf(index, task) /\ Stored
    BY <1>1 DEF PathsOf, Records, Separate, Mine, Open, Stored
  <1> QED
    BY <1>1, <1>2, <1>3, PathsAtRest DEF PathInv, Unrecorded

LEMMA PathStays ==
  /\ PathInv /\ Unrecorded /\ JobInv /\ CleanInv /\ EndInv /\ ToldInv /\ PlaceInv /\ OnceInv /\ SettleInv
  /\ [Next]_vars
  => PathInv'
  <1> SUFFICES ASSUME PathInv, Unrecorded, JobInv, CleanInv, EndInv, ToldInv, PlaceInv, OnceInv, SettleInv,
                      [Next]_vars, Calm'
               PROVE  PathParts' /\ (~up' => PathsOf(store.jobs, store.task)' /\ StoredAtRest')
    BY DEF PathInv
  <1>1. TypeOK
    BY DEF SettleInv
  <1>2. Undisturbed' /\ Undisturbed /\ ~UserStep /\ ~Crash
    BY UndisturbedBefore DEF Calm
  <1>3. Calm /\ Calmly /\ (~up => PathsOf(store.jobs, store.task) /\ StoredAtRest)
    BY <1>2, CalmBefore DEF PathInv, Calmly, Known, CleanInv
  <1>4. CASE \E w \in Workers : WorkerStep(w)
    <2>1. PICK w \in Workers : WorkerStep(w)
      BY <1>4
    <2>2. up'
      <3>1. up
        BY <2>1 DEF WorkerStep, QueueStep, Lease, AnnounceStart, FinalizeTask, FinalizeJob, FinishTask, WorkerExit,
           ImageStep, ReuseNothing, ReuseOwned, ReuseFails, FetchBody, FetchRename, FetchRetry, FetchFail, Backoff,
           Interrupted, Commit, DropFile, UgoiraStep, ConvertBegin, EncodeCreate, DecodeFail, EncodeAbort,
           EncodeDone, EncodeSwap, Accept, MetaStep, MetaBegin, MetaWrite, MetaFinish, MetaClean, At
      <3> QED
        BY <1>1, <2>1, <3>1, WorkerIsCalm DEF CalmStep
    <2>3. CASE Lease(w)
      BY <1>3, <2>2, <2>3, PathLease
    <2>4. CASE FinalizeJob(w)
      BY <1>3, <2>2, <2>4, PathSettle
    <2>5. CASE FinishTask(w)
      BY <1>3, <2>2, <2>5, PathFinish
    <2>6. CASE WorkerExit(w)
      BY <1>3, <2>2, <2>6, PathExit
    <2>7. CASE ~Lease(w) /\ ~FinalizeJob(w) /\ ~FinishTask(w) /\ ~WorkerExit(w)
      <3>1. T(w) \in Tasks
        BY <1>1, <2>1, <2>7 DEF WorkerStep, QueueStep, AnnounceStart, FinalizeTask, ImageStep, ReuseNothing,
           ReuseOwned, ReuseFails, FetchBody, FetchRename, FetchRetry, FetchFail, Backoff, Interrupted, Commit,
           DropFile, UgoiraStep, ConvertBegin, EncodeCreate, DecodeFail, EncodeAbort, EncodeDone, EncodeSwap,
           Accept, MetaStep, MetaBegin, MetaWrite, MetaFinish, MetaClean, At, T, TypeOK
      <3> QED
        BY <1>3, <2>1, <2>2, <2>7, <3>1, PathWorker
    <2> QED
      BY <2>3, <2>4, <2>5, <2>6, <2>7
  <1>5. CASE \E j \in Jobs : SubmitInsert(j) \/ CancelLock(j) \/ CancelFinish(j)
    <2>1. PICK j \in Jobs : SubmitInsert(j) \/ CancelLock(j) \/ CancelFinish(j)
      BY <1>5
    <2>2. up'
      BY <2>1 DEF SubmitInsert, CancelLock, CancelFinish, process
    <2>3. cancel'[j].tasks = {}
      BY DEF Calm
    <2> QED
      BY <1>3, <2>1, <2>2, <2>3, PathSubmit, PathCancel, PathCancelled
  <1>6. CASE Shutdown
    BY <1>2, <1>3, <1>6, PathShutdown
  <1>7. CASE Boot
    <2>1. ~up /\ up'
      BY <1>7 DEF Boot
    <2> QED
      BY <1>3, <1>7, <2>1, PathBoot
  <1>8. CASE \/ \E j \in Jobs : SubmitFinish(j) \/ CancelPersist(j)
             \/ \E js : (up /\ Drop(js)) \/ RemoveFinish(js)
             \/ SenderStep \/ Stop
    <2>1. /\ up' /\ UNCHANGED <<jobStatus, task, wk, disk>> /\ index' \subseteq index
      BY <1>8 DEF SubmitFinish, CancelPersist, Drop, RemoveFinish, SenderStep, Send, SendAbort, Stop, process, memory
    <2>2. \A j \in Jobs : cancel'[j].doomed = cancel[j].doomed /\ (cancel'[j].pc = "no" => cancel[j].pc = "no")
      BY <1>1, <1>8 DEF SubmitFinish, CancelPersist, Drop, RemoveFinish, SenderStep, Send, SendAbort, Stop, handlers,
         TypeOK, Cancels
    <2> QED
      BY <1>3, <2>1, <2>2, PathQuiet
  <1>9. CASE Rest \/ UNCHANGED vars
    <2>1. UNCHANGED <<up, index, jobStatus, task, wk, cancel, disk, store>>
      BY <1>9 DEF Rest, vars
    <2>2. PathParts'
      BY <1>3, <2>1, PathQuiet
    <2>3. ~up' => PathsOf(store.jobs, store.task)' /\ StoredAtRest'
      BY <1>3, <2>1 DEF PathsOf, Records, Separate, Mine, Open, StoredAtRest, Labelled
    <2> QED
      BY <2>2, <2>3
  <1> QED
    BY <1>2, <1>4, <1>5, <1>6, <1>7, <1>8, <1>9
    DEF Next, HandlerStep, HandlerEnd, ProcessStep, Remove, RemoveTerminal

\* What is on disk at the paths of every task is as PathInv says, in every reachable state.
THEOREM PathsCorrect == Spec => [](PathInv /\ Unrecorded)
  <1>1. /\ PathInv /\ Unrecorded /\ JobInv /\ ToldInv /\ CleanInv /\ EndInv /\ PlaceInv /\ OnceInv /\ SettleInv
        /\ [Next]_vars
        => (PathInv /\ Unrecorded)'
    BY PathStays, UnrecordedStep
  <1> QED
    BY <1>1, PathInit, JobsStayEnded, FilesAccounted, EndsCorrect, PlaceCorrect, OnceCorrect, SettleCorrect, PTL
    DEF Spec

\* As long as nobody cancelled an open task, edited the directory or crashed, no two tasks that can
\* still write have a path in common, the intermediate archives and sidecars included, whatever is
\* submitted, removed, retried or restarted in order.
THEOREM PathsDisjoint == Spec => [](Calm => LivePathsDisjoint)
  <1>1. PathInv => (Calm => LivePathsDisjoint)
    BY DEF PathInv, PathParts, PathsOf, Separate, Open, LivePathsDisjoint, Live
  <1> QED
    BY <1>1, PathsCorrect, PTL

\* Under the same conditions the media that a task believes to own, and that reuseMedia adopts after
\* a restart, was written by this task.
THEOREM OwnedIsMine == Spec => [](Calm => OwnedMediaIsMine)
  <1>1. PathInv => (Calm => OwnedMediaIsMine)
    <2> SUFFICES ASSUME PathInv, Calm, NEW t \in Tasks, Live(t), FilePath(t, task[t]) \in DOMAIN disk
                 PROVE  disk[FilePath(t, task[t])] = t
      BY DEF OwnedMediaIsMine
    <2>1. Open(index, task, t) /\ Mine(index, task)
      BY DEF PathInv, PathParts, PathsOf, Open, Live
    <2>2. FilePath(t, task[t]) \in Claims(t, task[t])
      BY DEF Claims
    <2> QED
      BY <2>1, <2>2 DEF Mine
  <1> QED
    BY <1>1, PathsCorrect, PTL

\* Under the same conditions all files of a completed job are on disk, and its own, whatever the
\* jobs of the same name do that ran beside it, failed, or came after a restart.
THEOREM CompletedStay == Spec => [](Calm => CompletedFilesStay)
  <1>1. PathInv /\ Unrecorded /\ JobInv /\ ToldInv /\ CleanInv /\ EndInv /\ PlaceInv /\ OnceInv /\ SettleInv
          => (Calm => CompletedFilesStay)
    <2> SUFFICES ASSUME PathInv, Unrecorded, JobInv, ToldInv, CleanInv, EndInv, PlaceInv, OnceInv, SettleInv, Calm,
                        NEW j \in index, jobStatus[j] = "completed", NEW t \in TasksOf(j),
                        NEW p \in Claims(t, task[t])
                 PROVE  p \in DOMAIN disk /\ disk[p] = t
      BY DEF CompletedFilesStay
    <2>1. Calmly
      BY DEF PathInv, Calmly, Known, CleanInv, Calm
    <2>2. /\ t \in Tasks /\ JobOf[t] = j /\ j \in Jobs /\ task \in [Tasks -> TaskRecords]
          /\ Records(index, task) /\ Stored
      BY <2>1, CalmFacts DEF TypeOK, TasksOf
    <2>3. Aggregate(task, j) = "completed"
      BY <2>2 DEF JobInv, Terminal
    <2>4. task[t].status = "completed"
      BY <2>2, <2>3, AggregateEnds
    <2>5. Whole(t, task[t])
      BY <2>2, <2>4 DEF Records
    <2>6. FilePath(t, task[t]) = FinalPath(t, task[t])
      BY <2>2, <2>5, PathFacts DEF Whole
    <2>7. Owns(t, task[t], p)
      BY <2>2, <2>5, <2>6 DEF Claims, Owns, Whole
    <2>8. p \in WrittenPaths({t}, task)
      BY <2>2, <2>7, WrittenOwned
    <2>9. Labelled(p, t) \/ Encoded(t, p)
      BY <2>2, <2>8 DEF Stored
    <2>10. ~Encoded(t, p)
      BY <2>1, <2>2, <2>4, WorksForLive DEF Encoded, Carries, Working, Terminal
    <2> QED
      BY <2>9, <2>10 DEF Labelled
  <1> QED
    BY <1>1, PathsCorrect, JobsStayEnded, FilesAccounted, EndsCorrect, PlaceCorrect, OnceCorrect, SettleCorrect, PTL

-----------------------------------------------------------------------------
(* ForeignInv.                                                             *)

\* What the proof of ForeignInv knows besides.
Knows == JobInv /\ Unrecorded /\ EndInv /\ ToldInv /\ PlaceInv /\ OnceInv /\ SettleInv

LEMMA KnowsFacts ==
  ASSUME Knows
  PROVE  /\ TypeOK /\ wk \in [Workers -> Locals] /\ task \in [Tasks -> TaskRecords]
         /\ \A t \in Tasks : task[t] \in TaskRecords /\ store.task[t] \in TaskRecords /\ JobOf[t] \in Jobs
  <1>1. TypeOK
    BY DEF Knows, SettleInv
  <1> QED
    BY <1>1, PoolAssumption DEF TypeOK

LEMMA SparedBefore ==
  ASSUME Knows, [Next]_vars, Spared'
  PROVE  Spared /\ ~Crash /\ (Shutdown => used' = used)
  <1>1. TypeOK /\ used \in [crashes : Nat, stops : Nat, edits : Nat]
    BY KnowsFacts DEF TypeOK
  <1>2. used'.crashes = 0
    BY DEF Spared
  <1>3. used.crashes = 0 /\ ~Crash /\ (Shutdown => used' = used)
    <2>1. used' # [used EXCEPT !.crashes = @ + 1]
      BY <1>1, <1>2
    <2>2. ~Crash /\ (Shutdown => used' = used)
      BY <2>1 DEF Crash, Shutdown
    <2>3. CASE Stop
      BY <1>1, <1>2, <2>2, <2>3 DEF Stop
    <2>4. CASE UserStep
      BY <1>1, <1>2, <2>2, <2>4 DEF UserStep, UserDeletes, UserPlaces
    <2>5. \A w \in Workers : WorkerStep(w) => used' = used
      BY <1>1, WorkerNews
    <2> QED
      BY <1>2, <2>2, <2>3, <2>4, <2>5 DEF Next, HandlerStep, HandlerEnd, SenderStep, ProcessStep, SubmitInsert,
         CancelLock, Remove, RemoveTerminal, Drop, SubmitFinish, CancelPersist, CancelFinish, RemoveFinish, Send,
         SendAbort, Boot, Rest, vars, history
  <1>4. acked \subseteq acked'
    <2>1. CASE \E w \in Workers : WorkerStep(w)
      BY <1>1, <2>1, WorkerIsCalm DEF CalmStep
    <2> QED
      BY <2>1 DEF Next, HandlerStep, HandlerEnd, SenderStep, ProcessStep, UserStep, SubmitInsert, SubmitFinish,
         CancelLock, CancelPersist, CancelFinish, Remove, RemoveTerminal, RemoveFinish, Drop, Send, SendAbort, Stop,
         Shutdown, Crash, Boot, UserDeletes, UserPlaces, Rest, vars, history
  <1>5. \A j \in Jobs : cancel[j].tasks = {}
    <2>1. CASE UNCHANGED cancel
      BY <2>1 DEF Spared
    <2>2. CASE Shutdown
      <3>1. used' # [used EXCEPT !.crashes = @ + 1]
        BY <1>1, <1>2
      <3> QED
        BY <2>2, <3>1 DEF Shutdown, HandlersDone, NoCancel
    <2>3. CASE \E j \in Jobs : CancelLock(j)
      <3>1. PICK j \in Jobs : CancelLock(j)
        BY <2>3
      <3>2. jobStatus[j] \notin Terminal /\ \A k \in Jobs : k # j => cancel'[k] = cancel[k]
        BY <1>1, <3>1 DEF CancelLock, TypeOK
      <3>3. cancel[j].tasks = {}
        BY <3>2 DEF Knows, ToldInv, CancelHolds, Terminal
      <3> QED
        BY <3>2, <3>3 DEF Spared
    <2>4. CASE \E j \in Jobs : CancelPersist(j)
      BY <1>1, <2>4 DEF CancelPersist, Spared, TypeOK, Cancels
    <2>5. CASE \E j \in Jobs : CancelFinish(j)
      <3>1. PICK j \in Jobs : CancelFinish(j)
        BY <2>5
      <3>2. /\ acked' = IF cancel[j].tasks = {} THEN acked ELSE acked \cup {j}
            /\ \A k \in Jobs : k # j => cancel'[k] = cancel[k]
        BY <1>1, <3>1 DEF CancelFinish, TypeOK
      <3> QED
        BY <3>2 DEF Spared
    <2>6. CASE \E w \in Workers : WorkerStep(w)
      BY <1>1, <2>1, <2>6, WorkerIsCalm DEF CalmStep
    <2> QED
      BY <1>3, <2>1, <2>2, <2>3, <2>4, <2>5, <2>6
      DEF Next, HandlerStep, HandlerEnd, SenderStep, ProcessStep, UserStep, SubmitInsert, SubmitFinish, Remove,
          RemoveTerminal, RemoveFinish, Drop, Send, SendAbort, Stop, Boot, UserDeletes, UserPlaces, Rest, vars, handlers
  <1> QED
    BY <1>3, <1>4, <1>5 DEF Spared

\* A worker makes no file of the user's, replaces none of his sidecars, and deletes only what it is told to.
LEMMA WorkerSpares ==
  ASSUME TypeOK, NEW w \in Workers, WorkerStep(w), NEW p
  PROVE  /\ p \in DOMAIN disk' /\ disk'[p] = User => p \in DOMAIN disk /\ disk[p] = User
         /\ p[4] /\ p \in DOMAIN disk /\ disk[p] = User
            /\ (wk[w].pc \in {"metaClean", "settle"} => p \notin wk[w].doomed)
            => p \in DOMAIN disk' /\ disk'[p] = User
  <1>0. User \notin Tasks
    BY PoolAssumption
  <1>1. CASE UNCHANGED disk
    BY <1>1
  <1>2. CASE \E q : ~q[4] /\ disk' = Without({q})
    BY <1>2 DEF Without
  <1>3. CASE \E q : ~q[4] /\ \E t \in Tasks : disk' = Written(q, t)
    BY <1>0, <1>3 DEF Written
  <1>4. CASE MetaWrite(w)
    <2>1. T(w) \in Tasks
      BY <1>4 DEF MetaWrite, At, TypeOK, T
    <2>2. PICK q : \/ disk' = disk
                   \/ disk' = Written(q, T(w)) /\ (q \in DOMAIN disk => disk[q] = T(w))
      BY <1>4 DEF MetaWrite
    <2> QED
      BY <1>0, <2>1, <2>2 DEF Written
  <1>5. CASE MetaClean(w) \/ FinishTask(w)
    BY <1>5 DEF MetaClean, FinishTask, At, Without
  <1>6. FetchRename(w) \/ EncodeCreate(w) => \E q : ~q[4] /\ \E t \in Tasks : disk' = Written(q, t)
    <2> SUFFICES ASSUME FetchRename(w) \/ EncodeCreate(w) PROVE \E q : ~q[4] /\ \E t \in Tasks : disk' = Written(q, t)
      OBVIOUS
    <2>1. T(w) \in Tasks
      BY DEF FetchRename, EncodeCreate, At, TypeOK, T
    <2>2. ~FilePath(T(w), Rec(w))[4] /\ ~FinalPath(T(w), Rec(w))[4]
      BY DEF FilePath, FinalPath, Path
    <2> QED
      BY <2>1, <2>2 DEF FetchRename, EncodeCreate
  <1>7. DropFile(w) \/ EncodeAbort(w) \/ EncodeDone(w) => \E q : ~q[4] /\ disk' = Without({q})
    <2>1. ~FilePath(T(w), Rec(w))[4] /\ ~FinalPath(T(w), Rec(w))[4]
      BY DEF FilePath, FinalPath, Path
    <2> QED
      BY <2>1 DEF DropFile, EncodeAbort, EncodeDone
  <1>8. CASE ~(MetaWrite(w) \/ MetaClean(w) \/ FinishTask(w) \/ FetchRename(w) \/ EncodeCreate(w) \/ DropFile(w)
               \/ EncodeAbort(w) \/ EncodeDone(w))
    BY <1>1, <1>8 DEF WorkerStep, QueueStep, Lease, AnnounceStart, FinalizeTask, FinalizeJob, WorkerExit, ImageStep,
       ReuseNothing, ReuseOwned, ReuseFails, FetchBody, FetchRetry, FetchFail, Backoff, Interrupted, Commit,
       UgoiraStep, ConvertBegin, DecodeFail, EncodeSwap, Accept, MetaStep, MetaBegin, MetaFinish
  <1> QED
    BY <1>2, <1>3, <1>4, <1>5, <1>6, <1>7, <1>8

\* A worker claims a sidecar in its task's record only after it has written it, and its task keeps
\* its paths.
LEMMA WorkerClaims ==
  ASSUME TypeOK, NEW w \in Workers, WorkerStep(w), ~Lease(w), T(w) \in Tasks, NEW p,
         Sidecar(T(w), task'[T(w)], p)
  PROVE  Sidecar(T(w), Rec(w), p) \/ (wk[w].pc = "wrote" /\ wk[w].result = "ok" /\ p = MetaPath(T(w), Rec(w)))
  <1>1. Rec(w) \in TaskRecords /\ {"failed", "completed", "cancelled", "queued"} \subseteq Status
    BY DEF TypeOK, Rec, Status, Terminal
  <1>2. \A rec : SetTask(w, rec) => task'[T(w)] = rec
    BY DEF SetTask, TypeOK
  <1>3. \A rec : rec.wroteMeta = Rec(w).wroteMeta /\ rec.suffix = Rec(w).suffix /\ Sidecar(T(w), rec, p)
          => Sidecar(T(w), Rec(w), p)
    BY DEF Sidecar, MetaPath
  <1>4. CASE MetaFinish(w)
    <2> DEFINE r == wk[w].result
               own == Recorded(Rec(w), r)
    <2>1. /\ own \in TaskRecords /\ own.suffix = Rec(w).suffix
          /\ own.wroteMeta = IF r = "cancelled" THEN Rec(w).wroteMeta ELSE r = "ok"
      BY <1>1 DEF Recorded, TaskRecords
    <2>2. /\ wk[w].pc = "wrote"
          /\ \/ SetTask(w, ResolveCancelled(own))
             \/ \E s \in {"failed", "completed"} : SetTask(w, Settled(own, s))
      BY <1>4 DEF MetaFinish, At
    <2> HIDE DEF own
    <2>3. SameFiles(task'[T(w)], own)
      BY <1>1, <1>2, <2>1, <2>2, SettledFiles
    <2>4. task'[T(w)].wroteMeta = own.wroteMeta /\ task'[T(w)].suffix = Rec(w).suffix
      BY <2>1, <2>3 DEF SameFiles
    <2> QED
      BY <1>3, <2>1, <2>2, <2>4 DEF Sidecar, MetaPath
  <1>5. CASE ~MetaFinish(w)
    <2> DEFINE own == [Rec(w) EXCEPT !.wrote = TRUE]
               out == [Rec(w) EXCEPT !.ext = MediaExt[J(w)]]
               new == [Rec(w) EXCEPT !.wrote = FALSE, !.ext = FirstExt(J(w))]
               Kept(rec) == rec.wroteMeta = Rec(w).wroteMeta /\ rec.suffix = Rec(w).suffix
    <2>1. own \in TaskRecords /\ Kept(own) /\ Kept(out) /\ Kept(new)
      BY <1>1 DEF TaskRecords
    <2>2. \A s \in Status : Kept(Settled(Rec(w), s)) /\ Kept(Settled(own, s))
      BY <1>1, <2>1, SettledFiles DEF SameFiles
    <2>3. Kept(ResolveCancelled(Rec(w)))
      BY <1>1, SettledFiles DEF SameFiles
    <2>4. \/ UNCHANGED task
          \/ SetTask(w, own) \/ SetTask(w, out) \/ SetTask(w, new) \/ SetTask(w, ResolveCancelled(Rec(w)))
          \/ \E s \in {"failed", "completed"} : SetTask(w, Settled(Rec(w), s)) \/ SetTask(w, Settled(own, s))
      <3> DEFINE Any == \/ UNCHANGED task
                        \/ SetTask(w, own) \/ SetTask(w, out) \/ SetTask(w, new) \/ SetTask(w, ResolveCancelled(Rec(w)))
                        \/ \E s \in {"failed", "completed"} : SetTask(w, Settled(Rec(w), s)) \/ SetTask(w, Settled(own, s))
      <3>1. QueueStep(w) => UNCHANGED task
        BY WorkerWrites
      <3>2. ASSUME Commit(w) PROVE Any
        BY <3>2 DEF Commit
      <3>3. ASSUME ImageStep(w), ~Commit(w) PROVE Any
        <4>1. \/ UNCHANGED task \/ SetTask(w, new) \/ SetTask(w, ResolveCancelled(Rec(w)))
              \/ SetTask(w, Settled(Rec(w), "failed"))
          BY <3>3 DEF ImageStep, ReuseNothing, ReuseOwned, ReuseFails, FetchBody, FetchRename, FetchRetry, FetchFail,
             Backoff, Interrupted, DropFile
        <4> QED
          BY <4>1
      <3>4. ASSUME UgoiraStep(w) \/ MetaStep(w) PROVE Any
        <4>1. \/ UNCHANGED task \/ SetTask(w, out) \/ SetTask(w, ResolveCancelled(Rec(w)))
              \/ SetTask(w, Settled(Rec(w), "failed")) \/ SetTask(w, Settled(Rec(w), "completed"))
          BY <1>5, <3>4 DEF UgoiraStep, ConvertBegin, EncodeCreate, DecodeFail, EncodeAbort, EncodeDone,
             EncodeSwap, Accept, MetaStep, MetaBegin, MetaWrite, MetaClean
        <4> QED
          BY <4>1
      <3> QED
        BY <3>1, <3>2, <3>3, <3>4 DEF WorkerStep
    <2> HIDE DEF own, out, new
    <2>5. Kept(task'[T(w)])
      <3>1. UNCHANGED task => task'[T(w)] = Rec(w)
        BY DEF Rec
      <3> QED
        BY <1>1, <1>2, <2>1, <2>2, <2>3, <2>4, <3>1
    <2> QED
      BY <1>3, <2>5
  <1> QED
    BY <1>4, <1>5

\* How a worker gets to its first stages, and to those at which a sidecar is about to be recorded or
\* deleted.
LEMMA WorkerArrives ==
  ASSUME TypeOK, NEW w \in Workers, WorkerStep(w), ~Lease(w)
  PROVE  /\ wk'[w].pc = "metaClean" => MetaFinish(w)
         /\ wk'[w].pc = "settle" => FinalizeJob(w)
         /\ wk'[w].pc = "wrote" => MetaBegin(w) \/ MetaWrite(w)
         /\ wk'[w].pc \in {"leased", "reuse"} => AnnounceStart(w)
  <1>1. wk \in [Workers -> Locals]
    BY DEF TypeOK
  <1>2. CASE QueueStep(w)
    <2>1. CASE AnnounceStart(w)
      <3>1. wk' = [wk EXCEPT ![w].pc = "reuse", ![w].news = None]
        BY <2>1 DEF AnnounceStart
      <3>2. wk'[w].pc = "reuse"
        BY <3>1, PcOf
      <3> QED
        BY <2>1, <3>2
    <2>2. CASE FinalizeTask(w) \/ WorkerExit(w)
      <3>1. wk'[w].pc \in {"aggregate", "exited"}
        BY <2>2, PcOf DEF FinalizeTask, WorkerExit
      <3> QED
        BY <3>1
    <2>3. CASE FinalizeJob(w)
      <3>1. CASE wk' = [wk EXCEPT ![w] = IdleWorker]
        <4>1. wk'[w].pc = "idle"
          BY <1>1, <3>1 DEF IdleWorker
        <4> QED
          BY <4>1
      <3>2. CASE wk' # [wk EXCEPT ![w] = IdleWorker]
        <4>1. PICK n, d : wk' = [wk EXCEPT ![w] = [IdleWorker EXCEPT !.pc = "settle", !.task = T(w),
                                                                    !.news = n, !.doomed = d]]
          BY <2>3, <3>2 DEF FinalizeJob
        <4>2. wk'[w].pc = "settle"
          BY <1>1, <4>1 DEF IdleWorker
        <4> QED
          BY <2>3, <4>2
      <3> QED
        BY <3>1, <3>2
    <2>4. CASE FinishTask(w)
      <3>1. wk'[w].pc = "idle"
        BY <1>1, <2>4 DEF FinishTask, IdleWorker
      <3> QED
        BY <3>1
    <2> QED
      BY <1>2, <2>1, <2>2, <2>3, <2>4 DEF QueueStep
  <1>3. CASE ImageStep(w)
    <2>1. CASE ReuseNothing(w) \/ Backoff(w)
      <3>1. wk'[w].pc = "fetch"
        BY <2>1, PcOf DEF ReuseNothing, Backoff
      <3> QED
        BY <3>1
    <2>2. CASE ReuseOwned(w) \/ FetchBody(w) \/ FetchRename(w) \/ FetchRetry(w)
      <3>1. wk'[w].pc \in {"meta", "convert", "received", "renamed", "backoff"}
        BY <2>2, PcOf DEF ReuseOwned, AfterMedia, FetchBody, FetchRename, FetchRetry
      <3> QED
        BY <3>1
    <2>3. CASE ReuseFails(w) \/ FetchFail(w) \/ Interrupted(w) \/ DropFile(w)
      <3>1. wk'[w].pc = "finalize"
        BY <2>3, PcOf DEF ReuseFails, FetchFail, Interrupted, DropFile
      <3> QED
        BY <3>1
    <2>4. CASE Commit(w)
      <3>1. Goto(w, "drop") \/ Goto(w, AfterMedia(w)) \/ ToEnd(w)
        BY <2>4 DEF Commit
      <3>2. wk'[w].pc \in {"drop", "convert", "meta", "finalize"}
        BY <3>1, PcOf DEF AfterMedia
      <3> QED
        BY <3>2
    <2> QED
      BY <1>3, <2>1, <2>2, <2>3, <2>4 DEF ImageStep
  <1>4. CASE UgoiraStep(w)
    <2>1. \/ Goto(w, "accept") \/ Goto(w, "encode") \/ Goto(w, "encoding") \/ Goto(w, "encoded")
          \/ Goto(w, "drop") \/ Goto(w, "meta") \/ ToEnd(w)
      BY <1>4 DEF UgoiraStep, ConvertBegin, EncodeCreate, DecodeFail, EncodeAbort, EncodeDone, EncodeSwap, Accept
    <2>2. wk'[w].pc \in {"accept", "encode", "finalize", "encoding", "encoded", "drop", "meta"}
      BY <2>1, PcOf
    <2> QED
      BY <2>2
  <1>5. CASE MetaStep(w)
    <2>1. MetaBegin(w) => wk'[w].pc \in {"wrote", "write", "finalize"}
      BY PcOf DEF MetaBegin
    <2>2. MetaClean(w) => wk'[w].pc = "finalize"
      BY PcOf DEF MetaClean
    <2>3. MetaWrite(w) => wk'[w].pc = "wrote"
      BY PcOf DEF MetaWrite
    <2>4. ASSUME MetaFinish(w) PROVE wk'[w].pc = "metaClean"
      <3> DEFINE r == wk[w].result
                 own == Recorded(Rec(w), r)
                 fin == IF r = "cancelled" \/ CtxDone(w) THEN ResolveCancelled(own)
                        ELSE Settled(own, IF r = "ok" THEN "completed" ELSE "failed")
                 gone == WrittenPaths({T(w)}, [task EXCEPT ![T(w)] = fin])
                 d    == IF fin.status = "cancelled" THEN gone ELSE {}
      <3>1. wk' = [wk EXCEPT ![w].pc = "metaClean", ![w].result = None, ![w].doomed = d]
        BY <2>4 DEF MetaFinish
      <3> HIDE DEF d
      <3> QED
        BY <3>1, PcOf
    <2> QED
      BY <1>5, <2>1, <2>2, <2>3, <2>4 DEF MetaStep
  <1> QED
    BY <1>2, <1>3, <1>4, <1>5 DEF WorkerStep

\* Without a cancel of an open task no task ends cancelled, so no worker deletes what it just wrote.
LEMMA SparedWorker ==
  ASSUME Knows, NoneCancelled, NEW w \in Workers, WorkerStep(w)
  PROVE  NoneCancelled'
  <1>1. TypeOK /\ wk \in [Workers -> Locals] /\ \A t \in Tasks : task[t] \in TaskRecords
    BY KnowsFacts
  <1>2. \A v \in Workers : v # w => wk'[v] = wk[v]
    <2>1. CASE Lease(w)
      BY <1>1, <2>1 DEF Lease
    <2>2. CASE ~Lease(w)
      BY <1>1, <2>2, WorkerKeeps DEF Keeps
    <2> QED
      BY <2>1, <2>2
  <1>3. \A t \in Tasks : task'[t].status # "cancelled"
    <2>1. CASE Lease(w)
      <3>1. \A t \in Tasks : task'[t].status \in {task[t].status, "running"}
        <4> SUFFICES ASSUME NEW t \in Tasks PROVE task'[t].status \in {task[t].status, "running"}
          OBVIOUS
        <4>1. PICK x : UNCHANGED task \/ task' = [task EXCEPT ![x].status = "running"]
          BY <2>1 DEF Lease
        <4>2. task \in [Tasks -> TaskRecords] /\ task[t] \in TaskRecords
          BY <1>1 DEF TypeOK
        <4>3. CASE x = t
          BY <4>1, <4>2, <4>3 DEF TaskRecords
        <4>4. CASE x # t
          BY <4>1, <4>2, <4>4
        <4> QED
          BY <4>3, <4>4
      <3> QED
        BY <3>1 DEF NoneCancelled
    <2>2. CASE ~Lease(w)
      <3>1. \A t \in Tasks : t # T(w) => task'[t] = task[t]
        BY <1>1, <2>2, WorkerWrites
      <3>2. ASSUME T(w) \in Tasks PROVE task'[T(w)].status # "cancelled"
        <4>1. OnlyCancelled(w)
          BY <3>2 DEF Knows, EndInv, T
        <4>2. EndsWell(w)
          BY <1>1, <2>2, <3>2, <4>1, WorkerEndsWell
        <4> QED
          BY <3>2, <4>2 DEF EndsWell, NoneCancelled, Rec
      <3> QED
        BY <3>1, <3>2 DEF NoneCancelled
    <2> QED
      BY <2>1, <2>2
  <1>4. \A t \in Tasks : store'.task[t].status # "cancelled"
    <2>1. UNCHANGED store \/ Persist
      BY <1>1, WorkerIsCalm DEF CalmStep
    <2>2. \A t \in Tasks : Blank(t).status = "queued"
      BY DEF Blank
    <2> QED
      BY <1>3, <2>1, <2>2 DEF NoneCancelled, Persist, Snapshot
  <1>5. wk'[w].task \in Tasks /\ wk'[w].pc = "metaClean" => wk'[w].doomed = {}
    <2> SUFFICES ASSUME wk'[w].task \in Tasks, wk'[w].pc = "metaClean" PROVE wk'[w].doomed = {}
      OBVIOUS
    <2>1. CASE MetaFinish(w)
      <3>1. PICK fin, gone :
              /\ SetTask(w, fin)
              /\ wk' = [wk EXCEPT ![w].pc = "metaClean", ![w].result = None,
                                  ![w].doomed = IF fin.status = "cancelled" THEN gone ELSE {}]
        BY <2>1 DEF MetaFinish
      <3>2. T(w) \in Tasks
        BY <1>1, <2>1 DEF MetaFinish, At, TypeOK, T
      <3>3. task'[T(w)] = fin
        BY <1>1, <3>1, <3>2 DEF SetTask, TypeOK
      <3>4. fin.status # "cancelled"
        BY <1>3, <3>2, <3>3
      <3> QED
        BY <1>1, <3>1, <3>4 DEF Locals
    <2>2. CASE Lease(w)
      <3>1. wk' = wk \/ wk'[w].pc = "leased"
        <4>1. wk' = wk \/ \E n, x : wk' = [wk EXCEPT ![w] = [IdleWorker EXCEPT !.pc = "leased", !.task = x, !.news = n]]
          BY <2>2 DEF Lease
        <4> QED
          BY <1>1, <4>1 DEF IdleWorker
      <3>2. wk[w].pc = "idle"
        BY <2>2 DEF Lease, At
      <3> QED
        BY <3>1, <3>2
    <2> QED
      BY <1>1, <2>1, <2>2, WorkerArrives
  <1> QED
    BY <1>2, <1>3, <1>4, <1>5 DEF NoneCancelled

\* A Cancel that finds no open task changes none.
LEMMA SparedCancel ==
  ASSUME Knows, NEW j \in Jobs, CancelLock(j), cancel'[j].tasks = {}
  PROVE  UNCHANGED task /\ \A k \in Jobs : k # j => cancel'[k] = cancel[k]
  <1> DEFINE hit  == {t \in TasksOf(j) : task[t].status \notin Terminal}
             tk   == [t \in Tasks |-> IF t \in hit THEN Settled(task[t], "cancelled") ELSE task[t]]
  <1>1. task' = tk /\ \E d, n : cancel' = [cancel EXCEPT ![j] = [pc |-> "persist", tasks |-> hit, doomed |-> d, news |-> n]]
    BY DEF CancelLock
  <1>2. TypeOK
    BY KnowsFacts
  <1> HIDE DEF hit
  <1>3. hit = {} /\ \A k \in Jobs : k # j => cancel'[k] = cancel[k]
    BY <1>1, <1>2 DEF TypeOK
  <1> QED
    BY <1>1, <1>2, <1>3 DEF TypeOK

LEMMA SparedStep ==
  ASSUME Knows, NoneCancelled, [Next]_vars, Spared', ~Crash
  PROVE  NoneCancelled'
  <1>1. /\ TypeOK /\ wk \in [Workers -> Locals] /\ task \in [Tasks -> TaskRecords]
        /\ \A t \in Tasks : task[t] \in TaskRecords /\ store.task[t] \in TaskRecords /\ JobOf[t] \in Jobs
    BY KnowsFacts
  <1>2. \A t \in Tasks : Blank(t).status = "queued"
    BY DEF Blank
  <1>3. CASE \E w \in Workers : WorkerStep(w)
    BY <1>3, SparedWorker
  <1>4. CASE \E j \in Jobs : SubmitInsert(j)
    <2>1. PICK j \in Jobs : SubmitInsert(j)
      BY <1>4
    <2>2. \A t \in Tasks : task'[t].status = task[t].status
      <3>1. PICK pick : task' = [t \in Tasks |-> IF t \in TasksOf(j) THEN Moved(task[t], pick[t]) ELSE task[t]]
        BY <2>1 DEF SubmitInsert
      <3> QED
        BY <1>1, <3>1 DEF Moved, TaskRecords
    <2>3. UNCHANGED <<wk, store>>
      BY <2>1 DEF SubmitInsert
    <2> QED
      BY <2>2, <2>3 DEF NoneCancelled
  <1>5. CASE \E j \in Jobs : CancelLock(j)
    <2>1. PICK j \in Jobs : CancelLock(j)
      BY <1>5
    <2>2. UNCHANGED task
      BY <2>1, SparedCancel DEF Spared
    <2>3. UNCHANGED <<wk, store>>
      BY <2>1 DEF CancelLock
    <2> QED
      BY <2>2, <2>3 DEF NoneCancelled
  <1>6. CASE Shutdown
    <2>1. /\ \A t \in Tasks : task'[t] = Blank(t) /\ store'.task[t] \in {task[t], Blank(t)}
          /\ \A w \in Workers : wk'[w].task = None
      BY <1>6 DEF Shutdown, Gone, IdleWorker, Snapshot
    <2> QED
      BY <1>2, <2>1, PoolAssumption DEF NoneCancelled
  <1>7. CASE Boot
    <2>1. \A t \in Tasks : task'[t].status \in {store.task[t].status, "queued"}
      <3> DEFINE loaded == [t \in Tasks |-> Loaded(t)]
                 known  == {t \in Tasks : JobOf[t] \in store.jobs}
                 todo   == {t \in known : loaded[t].status \notin Terminal}
                 moved  == {t \in todo : ~loaded[t].wrote /\ ~loaded[t].wroteMeta}
      <3>0. \E pick : task' = [t \in Tasks |-> IF t \in moved THEN Moved(loaded[t], pick[t]) ELSE loaded[t]]
        BY <1>7 DEF Boot
      <3> HIDE DEF moved
      <3>1. PICK pick : \A t \in Tasks : task'[t] \in {Moved(Loaded(t), pick[t]), Loaded(t)}
        BY <3>0
      <3>2. \A t \in Tasks : Loaded(t) \in TaskRecords /\ Loaded(t).status \in {store.task[t].status, "queued"}
        BY <1>1 DEF Loaded, TaskRecords, Status
      <3> QED
        BY <3>1, <3>2 DEF Moved, TaskRecords
    <2>2. Persist /\ UNCHANGED wk
      BY <1>7 DEF Boot
    <2> QED
      BY <1>2, <2>1, <2>2 DEF NoneCancelled, Persist, Snapshot
  <1>8. CASE \/ HandlerEnd \/ SenderStep \/ Stop \/ UserStep \/ Rest \/ UNCHANGED vars
             \/ \E j \in Jobs : Remove(j)
             \/ \E allowed \in SUBSET Terminal : RemoveTerminal(allowed)
    <2>1. UNCHANGED <<task, wk>> /\ (UNCHANGED store \/ Persist)
      BY <1>8 DEF HandlerEnd, SubmitFinish, CancelPersist, CancelFinish, RemoveFinish, SenderStep, Send, SendAbort, Stop,
         UserStep, UserDeletes, UserPlaces, Rest, vars, Remove, RemoveTerminal, Drop, memory
    <2> QED
      BY <1>2, <2>1 DEF NoneCancelled, Persist, Snapshot
  <1> QED
    BY <1>3, <1>4, <1>5, <1>6, <1>7, <1>8 DEF Next, HandlerStep, ProcessStep

\* A file on disk that is the user's, which the following lemmas follow through the steps.
Foreign(p) == p \in DOMAIN disk /\ disk[p] = User /\ p[4] /\ Unclaimed(p)

LEMMA ForeignWorker ==
  ASSUME Knows, NEW w \in Workers, WorkerStep(w), ~Lease(w), ~FinalizeJob(w), up, NEW p, Foreign(p)
  PROVE  Unclaimed(p)'
  <1>1. TypeOK /\ wk \in [Workers -> Locals] /\ Unclaimed(p) /\ p \in DOMAIN disk /\ disk[p] = User
    BY KnowsFacts DEF Foreign
  <1>2. UNCHANGED <<up, index, jobStatus, cancel>> /\ \A t \in Tasks : t # T(w) => task'[t] = task[t]
    BY <1>1, WorkerIsCalm, WorkerHolds, WorkerWrites DEF CalmStep
  <1>3. ASSUME NEW t \in Tasks, JobOf[t] \in index, jobStatus[JobOf[t]] # "failed"
        PROVE  ~Sidecar(t, task'[t], p)
    <2>1. CASE t = T(w)
      <3> SUFFICES ASSUME Sidecar(T(w), task'[T(w)], p) PROVE FALSE
        BY <2>1
      <3>1. ~Sidecar(T(w), Rec(w), p)
        BY <1>1, <1>3, <2>1 DEF Unclaimed, Rec
      <3>2. wk[w].pc = "wrote" /\ wk[w].result = "ok" /\ p = MetaPath(T(w), Rec(w))
        BY <1>1, <1>3, <2>1, <3>1, WorkerClaims
      <3> QED
        BY <1>1, <1>3, <2>1, <3>2 DEF Unclaimed, T
    <2>2. CASE t # T(w)
      BY <1>1, <1>2, <1>3, <2>2 DEF Unclaimed
    <2> QED
      BY <2>1, <2>2
  <1>4. ASSUME NEW v \in Workers, v # w, wk'[v].task \in Tasks
        PROVE  /\ wk'[v].pc = "settle" => p \notin wk'[v].doomed
               /\ wk'[v].pc = "wrote" /\ wk'[v].result = "ok" => p # MetaPath(T(v), Rec(v))'
    <2>1. wk'[v] = wk[v]
      BY <1>1, <1>4, WorkerKeeps DEF Keeps
    <2>2. T(v) \in Tasks /\ T(v) # T(w)
      BY <1>4, <2>1 DEF Knows, OnceInv, WorkerOnce, Carries, T
    <2>3. MetaPath(T(v), Rec(v))' = MetaPath(T(v), Rec(v))
      BY <1>2, <2>1, <2>2 DEF MetaPath, T, Rec
    <2> QED
      BY <1>1, <2>1, <2>2, <2>3 DEF Unclaimed, T
  <1>5. wk'[w].task \in Tasks /\ wk'[w].pc = "settle" => p \notin wk'[w].doomed
    BY <1>1, WorkerArrives
  <1>6. ASSUME wk'[w].task \in Tasks, wk'[w].pc = "wrote", wk'[w].result = "ok"
        PROVE  p # MetaPath(T(w), Rec(w))'
    <2>1. CASE MetaBegin(w)
      <3>1. \/ wk' = [wk EXCEPT ![w].pc = "wrote", ![w].result = "cancelled"]
            \/ ToEnd(w) \/ Goto(w, "write")
        BY <2>1 DEF MetaBegin
      <3>2. wk' = [wk EXCEPT ![w].pc = "wrote", ![w].result = "cancelled"]
        <4>1. ToEnd(w) => wk'[w].pc = "finalize"
          BY <1>1, PcOf
        <4>2. Goto(w, "write") => wk'[w].pc = "write"
          BY <1>1, PcOf
        <4> QED
          BY <1>6, <3>1, <4>1, <4>2
      <3> QED
        BY <1>1, <1>6, <3>2 DEF Locals
    <2>2. CASE MetaWrite(w)
      <3>1. PICK r : /\ wk' = [wk EXCEPT ![w].pc = "wrote", ![w].result = r]
                     /\ r = "ok" /\ MetaPath(T(w), Rec(w)) \in DOMAIN disk
                        => disk[MetaPath(T(w), Rec(w))] = T(w)
        BY <2>2 DEF MetaWrite
      <3>2. r = "ok" /\ T(w)' = T(w)
        BY <1>1, <1>6, <3>1 DEF Locals, T
      <3>3. T(w) \in Tasks /\ T(w) # User
        BY <1>6, <3>2, PoolAssumption DEF T
      <3>4. MetaPath(T(w), Rec(w))' = MetaPath(T(w), Rec(w))
        BY <2>2, <3>2 DEF MetaWrite, MetaPath, Rec
      <3> QED
        BY <1>1, <3>1, <3>2, <3>3, <3>4
    <2> QED
      BY <1>1, <1>6, <2>1, <2>2, WorkerArrives
  <1> QED
    BY <1>1, <1>2, <1>3, <1>4, <1>5, <1>6 DEF Unclaimed

LEMMA ForeignLease ==
  ASSUME Knows, NEW w \in Workers, Lease(w), NEW p, Foreign(p) PROVE Unclaimed(p)'
  <1> DEFINE x == Head(queue)
  <1>1. TypeOK /\ wk \in [Workers -> Locals] /\ task \in [Tasks -> TaskRecords] /\ Unclaimed(p)
        /\ \A t \in Tasks : task[t] \in TaskRecords /\ JobOf[t] \in Jobs
    BY KnowsFacts DEF Foreign
  <1>2. UNCHANGED <<up, index, cancel>> /\ up /\ queue \in Seq(Tasks) /\ queue # <<>>
    BY <1>1 DEF Lease, At, process, handlers, TypeOK
  <1>3. x \in Tasks
    BY <1>2, HeadTailProperties
  <1>4. CASE task[x].status \in Terminal
    <2>1. UNCHANGED <<jobStatus, task, wk>>
      BY <1>4 DEF Lease
    <2> QED
      BY <1>1, <1>2, <2>1 DEF Unclaimed, T, Rec
  <1>5. CASE task[x].status \notin Terminal
    <2>1. /\ task' = [task EXCEPT ![x].status = "running"]
          /\ jobStatus' = IF JobOf[x] \in index THEN [jobStatus EXCEPT ![JobOf[x]] = "running"] ELSE jobStatus
          /\ \E n : wk' = [wk EXCEPT ![w] = [IdleWorker EXCEPT !.pc = "leased", !.task = x, !.news = n]]
      BY <1>5 DEF Lease
    <2> HIDE DEF x
    <2>2. wk'[w].pc = "leased" /\ \A v \in Workers : v # w => wk'[v] = wk[v]
      BY <1>1, <2>1 DEF IdleWorker
    <2>3. \A t \in Tasks : task'[t].suffix = task[t].suffix /\ task'[t].wroteMeta = task[t].wroteMeta
      <3> SUFFICES ASSUME NEW t \in Tasks
                   PROVE  task'[t].suffix = task[t].suffix /\ task'[t].wroteMeta = task[t].wroteMeta
        OBVIOUS
      <3>1. CASE t = x
        BY <1>1, <2>1, <3>1 DEF TaskRecords
      <3>2. CASE t # x
        BY <1>1, <2>1, <3>2
      <3> QED
        BY <3>1, <3>2
    <2>4. \A t \in Tasks : MetaPath(t, task'[t]) = MetaPath(t, task[t])
                           /\ (Sidecar(t, task'[t], p) <=> Sidecar(t, task[t], p))
      BY <2>3 DEF MetaPath, Sidecar
    <2>5. \A j \in Jobs : j \in index /\ jobStatus'[j] # "failed" => jobStatus[j] # "failed"
      BY <1>1, <1>3, <1>5, <2>1 DEF TypeOK, Knows, EndInv, EndedJobs, Ended
    <2>6. \A t \in Tasks : JobOf[t] \in index' /\ jobStatus'[JobOf[t]] # "failed" => ~Sidecar(t, task'[t], p)
      BY <1>1, <1>2, <2>4, <2>5 DEF Unclaimed
    <2>7. \A v \in Workers : wk'[v].task \in Tasks =>
            /\ wk'[v].pc = "settle" => p \notin wk'[v].doomed
            /\ wk'[v].pc = "wrote" /\ wk'[v].result = "ok" => p # MetaPath(wk'[v].task, task'[wk'[v].task])
      BY <1>1, <2>2, <2>4 DEF Unclaimed, T, Rec
    <2> QED
      BY <1>1, <1>2, <2>6, <2>7 DEF Unclaimed, T, Rec
  <1> QED
    BY <1>4, <1>5

\* The files that a job's end condemns are those its tasks have recorded until then.
LEMMA NotCondemned ==
  ASSUME NEW p, p[4], Unclaimed(p), NEW j \in index, jobStatus[j] # "failed"
  PROVE  p \notin WrittenPaths(TasksOf(j), task)
  <1>1. TasksOf(j) \in SUBSET Tasks /\ \A t \in TasksOf(j) : JobOf[t] = j
    BY DEF TasksOf
  <1>2. \A t \in TasksOf(j) : p # FilePath(t, task[t])
    <2>1. \A t \in TasksOf(j) : ~FilePath(t, task[t])[4]
      BY DEF FilePath, Path
    <2> QED
      BY <2>1
  <1>3. \A t \in TasksOf(j) : ~Owns(t, task[t], p)
    BY <1>1, <1>2 DEF Unclaimed, Sidecar, Owns
  <1> QED
    BY <1>1, <1>3, WrittenOwned

LEMMA ForeignSettle ==
  ASSUME Knows, NEW w \in Workers, FinalizeJob(w), NEW p, Foreign(p) PROVE Unclaimed(p)'
  <1> DEFINE now == Aggregate(task, J(w))
             doomed == IF now \in {"failed", "cancelled"} THEN WrittenPaths(TasksOf(J(w)), task) ELSE {}
  <1>1. TypeOK /\ wk \in [Workers -> Locals] /\ Unclaimed(p) /\ p[4] /\ \A t \in Tasks : JobOf[t] \in Jobs
    BY KnowsFacts DEF Foreign
  <1>2. /\ UNCHANGED <<up, index, task, cancel>> /\ up /\ wk[w].pc = "aggregate"
        /\ jobStatus' = [jobStatus EXCEPT ![J(w)] = now]
    BY DEF FinalizeJob, At, process, handlers
  <1>3. T(w) \in Tasks /\ J(w) \in Jobs
    BY <1>1, <1>2 DEF TypeOK, T, J
  <1>4. \/ wk' = [wk EXCEPT ![w] = IdleWorker]
        \/ /\ now # jobStatus[J(w)]
           /\ wk' = [wk EXCEPT ![w] = [IdleWorker EXCEPT !.pc = "settle", !.task = T(w), !.news = now, !.doomed = doomed]]
    BY DEF FinalizeJob
  <1>5. now # jobStatus[J(w)] => J(w) \in index /\ jobStatus[J(w)] # "failed"
    BY <1>3 DEF Knows, JobInv, T, Terminal
  <1>6. now # jobStatus[J(w)] => p \notin doomed
    BY <1>1, <1>5, NotCondemned
  <1>7. \A j \in Jobs : jobStatus'[j] # "failed" => jobStatus[j] # "failed"
    BY <1>1, <1>2, <1>3 DEF TypeOK, Knows, JobInv, Terminal
  <1> HIDE DEF now, doomed
  <1>8. \A v \in Workers : v # w => wk'[v] = wk[v]
    BY <1>1, <1>4
  <1>9. wk'[w].task \in Tasks => wk'[w].pc = "settle" /\ p \notin wk'[w].doomed
    <2>1. CASE wk' = [wk EXCEPT ![w] = IdleWorker]
      <3>1. wk'[w] = IdleWorker
        BY <1>1, <2>1
      <3> QED
        BY <3>1, PoolAssumption DEF IdleWorker
    <2>2. CASE wk' # [wk EXCEPT ![w] = IdleWorker]
      <3>1. wk'[w].pc = "settle" /\ wk'[w].doomed = doomed
        BY <1>1, <1>4, <2>2 DEF IdleWorker
      <3> QED
        BY <1>4, <1>6, <2>2, <3>1
    <2> QED
      BY <2>1, <2>2
  <1> QED
    BY <1>1, <1>2, <1>7, <1>8, <1>9 DEF Unclaimed, T, Rec

LEMMA ForeignCancel ==
  ASSUME Knows, NEW j \in Jobs, CancelLock(j), cancel'[j].tasks = {}, NEW p, Foreign(p) PROVE Unclaimed(p)'
  <1> DEFINE hit  == {t \in TasksOf(j) : task[t].status \notin Terminal}
             tk   == [t \in Tasks |-> IF t \in hit THEN Settled(task[t], "cancelled") ELSE task[t]]
             now  == Aggregate(tk, j)
             doomed == IF now # jobStatus[j] /\ now \in {"failed", "cancelled"}
                       THEN WrittenPaths(TasksOf(j), tk) ELSE {}
  <1>1. TypeOK /\ Unclaimed(p) /\ p[4]
    BY KnowsFacts DEF Foreign
  <1>2. /\ j \in index /\ jobStatus[j] \notin Terminal /\ up
        /\ task' = tk /\ jobStatus' = [jobStatus EXCEPT ![j] = now]
        /\ \E n : cancel' = [cancel EXCEPT ![j] = [pc |-> "persist", tasks |-> hit, doomed |-> doomed, news |-> n]]
        /\ UNCHANGED <<up, index, wk>>
    BY DEF CancelLock, process
  <1>3. tk = task /\ \A k \in Jobs : k # j => cancel'[k] = cancel[k]
    BY <1>2, SparedCancel
  <1>4. doomed \subseteq WrittenPaths(TasksOf(j), task)
    BY <1>3
  <1> HIDE DEF hit, tk, now, doomed
  <1>5. cancel'[j].doomed = doomed
    BY <1>1, <1>2 DEF TypeOK
  <1>6. p \notin doomed
    BY <1>1, <1>2, <1>4, NotCondemned DEF Terminal
  <1>7. \A k \in Jobs : p \notin cancel'[k].doomed
    BY <1>1, <1>3, <1>5, <1>6 DEF Unclaimed
  <1>8. \A k \in Jobs : jobStatus'[k] # "failed" => jobStatus[k] # "failed"
    BY <1>1, <1>2 DEF TypeOK, Terminal
  <1>9. \A t \in Tasks : JobOf[t] \in Jobs
    BY PoolAssumption
  <1> QED
    BY <1>1, <1>2, <1>3, <1>7, <1>8, <1>9 DEF Unclaimed, T, Rec

LEMMA ForeignSubmit ==
  ASSUME Knows, NEW j \in Jobs, SubmitInsert(j), NEW p, Foreign(p) PROVE Unclaimed(p)'
  <1>1. TypeOK /\ task \in [Tasks -> TaskRecords] /\ Unclaimed(p)
    BY KnowsFacts DEF Foreign
  <1>2. /\ UNCHANGED <<up, jobStatus, wk, cancel>> /\ up /\ index' = index \cup {j} /\ submit[j] = "new"
        /\ \E pick : task' = [t \in Tasks |-> IF t \in TasksOf(j) THEN Moved(task[t], pick[t]) ELSE task[t]]
    BY DEF SubmitInsert, process
  <1>3. PICK pick : task' = [t \in Tasks |-> IF t \in TasksOf(j) THEN Moved(task[t], pick[t]) ELSE task[t]]
    BY <1>2
  <1>4. ASSUME NEW t \in TasksOf(j) PROVE t \in Tasks /\ ~Sidecar(t, task'[t], p)
    <2>1. t \in Tasks /\ task[t] = Blank(t) /\ task'[t] = Moved(task[t], pick[t])
      BY <1>2, <1>3 DEF TasksOf, Knows, Unrecorded
    <2>2. ~task'[t].wroteMeta
      BY <2>1 DEF Blank, Moved
    <2> QED
      BY <2>1, <2>2 DEF Sidecar
  <1>5. \A t \in Tasks : t \notin TasksOf(j) => task'[t] = task[t] /\ JobOf[t] # j
    BY <1>3 DEF TasksOf
  <1>6. \A w \in Workers : wk[w].task \in Tasks => task'[wk[w].task] = task[wk[w].task]
    <2>1. \A w \in Workers, t \in TasksOf(j) : wk[w].task # t
      BY <1>2 DEF Knows, OnceInv, Unsent, Nowhere, Carries, TasksOf
    <2> QED
      BY <1>5, <2>1
  <1>7. \A t \in Tasks : JobOf[t] \in index' /\ jobStatus'[JobOf[t]] # "failed" => ~Sidecar(t, task'[t], p)
    BY <1>1, <1>2, <1>4, <1>5 DEF Unclaimed
  <1>8. \A w \in Workers : wk'[w].task \in Tasks =>
          /\ wk'[w].pc = "settle" => p \notin wk'[w].doomed
          /\ wk'[w].pc = "wrote" /\ wk'[w].result = "ok" => p # MetaPath(T(w), Rec(w))'
    BY <1>1, <1>2, <1>6 DEF Unclaimed, MetaPath, T, Rec
  <1> QED
    BY <1>1, <1>2, <1>7, <1>8 DEF Unclaimed

LEMMA ForeignShutdown ==
  ASSUME Knows, Shutdown, NEW p, Foreign(p) PROVE Unclaimed(p)'
  <1>1. TypeOK /\ Unclaimed(p)
    BY KnowsFacts DEF Foreign
  <1>2. /\ index' = {} /\ \A w \in Workers : wk'[w].task \notin Tasks
        /\ \A j \in Jobs : cancel'[j].doomed = {}
        /\ store' = Snapshot(index, task)
    BY PoolAssumption DEF Shutdown, Gone, IdleWorker, NoCancel
  <1>3. ASSUME NEW t \in Tasks, JobOf[t] \in store'.jobs, Aggregate(store'.task, JobOf[t]) # "failed"
        PROVE  ~Sidecar(t, store'.task[t], p)
    <2>1. /\ JobOf[t] \in index /\ JobOf[t] \in Jobs
          /\ \A u \in TasksOf(JobOf[t]) : store'.task[u] = task[u]
          /\ store'.task[t] = task[t]
      BY <1>2, <1>3, PoolAssumption DEF Snapshot, TasksOf
    <2>2. Aggregate(task, JobOf[t]) # "failed"
      BY <1>3, <2>1, AggregateSame
    <2>3. jobStatus[JobOf[t]] # "failed"
      BY <2>1, <2>2 DEF Knows, JobInv, Terminal
    <2> QED
      BY <1>1, <2>1, <2>3 DEF Unclaimed
  <1> QED
    BY <1>2, <1>3 DEF Unclaimed

LEMMA ForeignBoot ==
  ASSUME Knows, Boot, NEW p, Foreign(p) PROVE Unclaimed(p)'
  <1> DEFINE loaded == [t \in Tasks |-> Loaded(t)]
             known  == {t \in Tasks : JobOf[t] \in store.jobs}
             todo   == {t \in known : loaded[t].status \notin Terminal}
             moved  == {t \in todo : ~loaded[t].wrote /\ ~loaded[t].wroteMeta}
  <1>1. TypeOK /\ Unclaimed(p) /\ \A t \in Tasks : store.task[t] \in TaskRecords /\ JobOf[t] \in Jobs
    BY KnowsFacts DEF Foreign
  <1>2. /\ ~up /\ up' /\ index' = store.jobs /\ UNCHANGED <<wk, cancel>>
        /\ jobStatus' = [j \in Jobs |-> IF j \in store.jobs THEN Aggregate(loaded, j) ELSE "queued"]
        /\ \E pick : task' = [t \in Tasks |-> IF t \in moved THEN Moved(loaded[t], pick[t]) ELSE loaded[t]]
    BY DEF Boot, handlers
  <1>3. \A t \in Tasks : /\ loaded[t].suffix = store.task[t].suffix /\ loaded[t].wroteMeta = store.task[t].wroteMeta
                         /\ loaded[t] \in TaskRecords
                         /\ store.task[t].status \in Terminal => loaded[t].status = store.task[t].status
    BY <1>1 DEF Loaded, TaskRecords, Status, Terminal
  <1>4. \A t \in moved : ~loaded[t].wroteMeta
    OBVIOUS
  <1>5. store.task \in [Tasks -> TaskRecords]
    BY <1>1 DEF TypeOK
  <1> HIDE DEF loaded, moved
  <1>6. ASSUME NEW t \in Tasks, JobOf[t] \in store.jobs, jobStatus'[JobOf[t]] # "failed"
        PROVE  ~Sidecar(t, task'[t], p)
    <2>1. Aggregate(loaded, JobOf[t]) # "failed"
      BY <1>1, <1>2, <1>6
    <2>2. Aggregate(store.task, JobOf[t]) # "failed"
      <3> SUFFICES ASSUME Aggregate(store.task, JobOf[t]) = "failed" PROVE FALSE
        OBVIOUS
      <3>1. \A u \in TasksOf(JobOf[t]) : u \in Tasks /\ store.task[u].status \in Terminal
        BY <1>5, AggregateEnds DEF Terminal, TasksOf
      <3>2. \A u \in TasksOf(JobOf[t]) : loaded[u].status = store.task[u].status
        BY <1>3, <3>1
      <3> QED
        BY <1>1, <2>1, <3>2, AggregateSame
    <2>3. ~Sidecar(t, store.task[t], p)
      BY <1>1, <1>2, <1>6, <2>2 DEF Unclaimed
    <2>4. PICK pick : task'[t] = IF t \in moved THEN Moved(loaded[t], pick[t]) ELSE loaded[t]
      BY <1>2
    <2>5. CASE t \in moved
      <3>1. ~task'[t].wroteMeta
        BY <1>3, <1>4, <2>4, <2>5 DEF Moved, TaskRecords
      <3> QED
        BY <3>1 DEF Sidecar
    <2>6. CASE t \notin moved
      BY <1>3, <2>3, <2>4, <2>6 DEF Sidecar, MetaPath
    <2> QED
      BY <2>5, <2>6
  <1>7. \A w \in Workers : wk'[w].task \notin Tasks
    BY <1>2 DEF Knows, OnceInv, DownIsIdle, Nowhere, Carries
  <1> QED
    BY <1>1, <1>2, <1>6, <1>7 DEF Unclaimed

\* A step that adds no job to the list, changes none and no task, and condemns nothing.
LEMMA ForeignQuiet ==
  ASSUME Knows, UNCHANGED <<jobStatus, task, wk>>, index' \subseteq index, up' \/ UNCHANGED <<up, store>>,
         \A j \in Jobs : cancel'[j].doomed = cancel[j].doomed \/ cancel'[j].doomed = {},
         NEW p, Foreign(p)
  PROVE  Unclaimed(p)'
  BY DEF Foreign, Unclaimed, T, Rec

\* Only the user makes files of his, and only his steps count as edits.
LEMMA OnlyUserMakes ==
  ASSUME TypeOK, [Next]_vars, ~UserStep
  PROVE  /\ used'.edits = used.edits
         /\ \A p \in DOMAIN disk' : disk'[p] = User => p \in DOMAIN disk /\ disk[p] = User
  <1>1. CASE \E w \in Workers : WorkerStep(w)
    BY <1>1, WorkerNews, WorkerSpares
  <1>2. CASE \E j \in Jobs : CancelFinish(j)
    BY <1>2 DEF CancelFinish, Without
  <1>3. CASE Stop \/ Shutdown \/ Crash
    BY <1>3 DEF Stop, Shutdown, Crash, TypeOK
  <1>4. CASE ~((\E w \in Workers : WorkerStep(w)) \/ (\E j \in Jobs : CancelFinish(j)) \/ Stop \/ Shutdown \/ Crash)
    <2>1. UNCHANGED <<disk, used>>
      BY <1>4 DEF Next, HandlerStep, HandlerEnd, SenderStep, ProcessStep, SubmitInsert, SubmitFinish, CancelLock,
         CancelPersist, Remove, RemoveTerminal, RemoveFinish, Drop, Send, SendAbort, Boot, Rest, vars, history
    <2> QED
      BY <2>1
  <1> QED
    BY <1>1, <1>2, <1>3, <1>4

\* The user's first file is put where nothing is, hence at no path that a task has recorded.
LEMMA ForeignPlaced ==
  ASSUME Knows, PathInv, Calm, NEW p, p[4], UserPlaces(p) PROVE Unclaimed(p)'
  <1>1. /\ p \notin DOMAIN disk /\ \A j \in Jobs : p \notin cancel[j].doomed
        /\ UNCHANGED <<up, index, jobStatus, task, wk, cancel, store>>
    BY DEF UserPlaces, process, memory, handlers
  <1>2. \A t \in Tasks : \A rec : p # FilePath(t, rec)
    <2>1. \A t \in Tasks : \A rec : ~FilePath(t, rec)[4]
      BY DEF FilePath, Path
    <2> QED
      BY <2>1
  <1>3. \A t \in Tasks : ~Labelled(p, t) /\ ~Encoded(t, p)
    BY <1>1, <1>2 DEF Labelled, Encoded
  <1>4. ASSUME NEW t \in Tasks, NEW tk, Sidecar(t, tk[t], p) PROVE p \in WrittenPaths({t}, tk)
    BY <1>4, WrittenOwned DEF Sidecar, Owns
  <1>5. \A t \in Tasks : JobOf[t] \in index /\ jobStatus[JobOf[t]] # "failed" => ~Sidecar(t, task[t], p)
    BY <1>3, <1>4 DEF PathInv, PathParts, Stored
  <1>6. ~up => \A t \in Tasks : JobOf[t] \in store.jobs /\ Aggregate(store.task, JobOf[t]) # "failed"
                 => ~Sidecar(t, store.task[t], p)
    <2> SUFFICES ASSUME ~up, NEW t \in Tasks, JobOf[t] \in store.jobs, Aggregate(store.task, JobOf[t]) # "failed"
                 PROVE  ~Sidecar(t, store.task[t], p)
      OBVIOUS
    <2>1. \A q \in WrittenPaths({t}, store.task) : Labelled(q, t)
      BY DEF PathInv, StoredAtRest
    <2> QED
      BY <1>3, <1>4, <2>1
  <1>7. ASSUME NEW w \in Workers, wk[w].task \in Tasks
        PROVE  /\ wk[w].pc = "settle" => p \notin wk[w].doomed
               /\ wk[w].pc = "wrote" /\ wk[w].result = "ok" => p # MetaPath(T(w), Rec(w))
    <2>1. wk[w].pc = "settle" => p \notin wk[w].doomed
      BY <1>1, <1>7 DEF PathInv, PathParts, OneSettles, Condemns, Condemned
    <2>2. wk[w].pc = "wrote" /\ wk[w].result = "ok" => Labelled(MetaPath(T(w), Rec(w)), T(w))
      BY <1>7 DEF PathInv, PathParts, AtWork
    <2> QED
      BY <1>1, <2>1, <2>2 DEF Labelled
  <1>8. Unclaimed(p)
    BY <1>1, <1>5, <1>6, <1>7 DEF Unclaimed
  <1> QED
    BY <1>1, <1>8 DEF Unclaimed, T, Rec

\* What is the user's at a sidecar's path stays nobody's, as long as nobody cancels and nothing dies.
LEMMA ForeignStays ==
  ASSUME Knows, [Next]_vars, Spared', ~UserStep, ~Crash, NEW p, Foreign(p)
  PROVE  Unclaimed(p)'
  <1>1. TypeOK
    BY KnowsFacts
  <1>2. CASE \E w \in Workers : WorkerStep(w)
    <2>1. PICK w \in Workers : WorkerStep(w)
      BY <1>2
    <2>2. up
      BY <2>1 DEF WorkerStep, QueueStep, Lease, AnnounceStart, FinalizeTask, FinalizeJob, FinishTask, WorkerExit,
         ImageStep, ReuseNothing, ReuseOwned, ReuseFails, FetchBody, FetchRename, FetchRetry, FetchFail, Backoff,
         Interrupted, Commit, DropFile, UgoiraStep, ConvertBegin, EncodeCreate, DecodeFail, EncodeAbort,
         EncodeDone, EncodeSwap, Accept, MetaStep, MetaBegin, MetaWrite, MetaFinish, MetaClean, At
    <2> QED
      BY <2>1, <2>2, ForeignLease, ForeignSettle, ForeignWorker
  <1>3. CASE \E j \in Jobs : CancelLock(j)
    BY <1>3, ForeignCancel DEF Spared
  <1>4. CASE (\E j \in Jobs : SubmitInsert(j)) \/ Shutdown \/ Boot
    BY <1>4, ForeignSubmit, ForeignShutdown, ForeignBoot
  <1>5. CASE HandlerEnd \/ (\E js : up /\ Drop(js)) \/ SenderStep \/ Stop \/ Rest \/ UNCHANGED vars
    <2>1. UNCHANGED <<jobStatus, task, wk>> /\ index' \subseteq index /\ (up' \/ UNCHANGED <<up, store>>)
      BY <1>5 DEF HandlerEnd, SubmitFinish, CancelPersist, CancelFinish, RemoveFinish, Drop, SenderStep, Send,
         SendAbort, Stop, Rest, vars, process, memory
    <2>2. \A j \in Jobs : cancel'[j].doomed = cancel[j].doomed \/ cancel'[j].doomed = {}
      <3>1. CASE \E k \in Jobs : CancelPersist(k)
        BY <1>1, <3>1 DEF CancelPersist, TypeOK, Cancels
      <3>2. CASE \E k \in Jobs : CancelFinish(k)
        <4>1. PICK k \in Jobs : cancel' = [cancel EXCEPT ![k] = NoCancel]
          BY <3>2 DEF CancelFinish
        <4> QED
          BY <1>1, <4>1 DEF NoCancel, TypeOK
      <3>3. CASE UNCHANGED cancel
        BY <3>3
      <3> QED
        BY <1>5, <3>1, <3>2, <3>3 DEF HandlerEnd, SubmitFinish, RemoveFinish, Drop, SenderStep, Send, SendAbort, Stop,
           Rest, vars, handlers
    <2> QED
      BY <2>1, <2>2, ForeignQuiet
  <1> QED
    BY <1>2, <1>3, <1>4, <1>5 DEF Next, HandlerStep, ProcessStep, Remove, RemoveTerminal

LEMMA ForeignStep == ForeignInv /\ Knows /\ PathInv /\ [Next]_vars => ForeignInv'
  <1> SUFFICES ASSUME ForeignInv, Knows, PathInv, [Next]_vars PROVE ForeignInv'
    OBVIOUS
  <1>1. TypeOK /\ used.edits \in Nat
    BY KnowsFacts DEF TypeOK
  <1>2. Spared' => NoneCancelled'
    BY SparedBefore, SparedStep DEF ForeignInv
  <1>3. CASE UserStep
    <2>1. used'.edits = used.edits + 1
      BY <1>1, <1>3 DEF UserStep, UserDeletes, UserPlaces, TypeOK
    <2>2. ASSUME Spared', used'.edits = 1, NEW p \in DOMAIN disk', disk'[p] = User, p[4] PROVE Unclaimed(p)'
      <3>1. used.edits = 0 /\ \A q \in DOMAIN disk : disk[q] # User
        BY <1>1, <2>1, <2>2 DEF ForeignInv
      <3>2. ~\E q \in DOMAIN disk : UserDeletes(q)
        BY <2>2, <3>1 DEF UserDeletes, Without
      <3>3. PICK q : UserPlaces(q)
        BY <1>3, <3>2 DEF UserStep
      <3>4. p = q
        BY <2>2, <3>1, <3>3 DEF UserPlaces, Written
      <3>5. Calm
        BY <2>2, <3>1, SparedBefore DEF Calm, Undisturbed, Spared
      <3> QED
        BY <2>2, <3>3, <3>4, <3>5, ForeignPlaced
    <2> QED
      BY <1>1, <1>2, <2>1, <2>2 DEF ForeignInv
  <1>4. CASE ~UserStep
    <2>1. used'.edits = used.edits /\ \A p \in DOMAIN disk' : disk'[p] = User => p \in DOMAIN disk /\ disk[p] = User
      BY <1>1, <1>4, OnlyUserMakes
    <2>2. ASSUME Spared', used'.edits = 1, NEW p \in DOMAIN disk', disk'[p] = User, p[4] PROVE Unclaimed(p)'
      <3>1. Spared /\ ~Crash
        BY <2>2, SparedBefore
      <3>2. Foreign(p)
        BY <2>1, <2>2, <3>1 DEF ForeignInv, Foreign
      <3> QED
        BY <1>4, <2>2, <3>1, <3>2, ForeignStays
    <2> QED
      BY <1>2, <2>1, <2>2 DEF ForeignInv
  <1> QED
    BY <1>3, <1>4

LEMMA ForeignInit == Init => ForeignInv
  <1> SUFFICES ASSUME Init PROVE ForeignInv
    OBVIOUS
  <1>1. /\ DOMAIN disk = {} /\ used.edits = 0
        /\ \A t \in Tasks : task[t] = Blank(t) /\ store.task[t] = Blank(t)
        /\ \A w \in Workers : wk[w].task \notin Tasks
    BY PoolAssumption DEF Init, IdleWorker
  <1>2. NoneCancelled
    <2>1. \A t \in Tasks : Blank(t).status = "queued"
      BY DEF Blank
    <2> QED
      BY <1>1, <2>1 DEF NoneCancelled
  <1> QED
    BY <1>1, <1>2 DEF ForeignInv

\* The file that the user places with his first edit where a sidecar is about to be written is none
\* that a task has recorded, or is about to delete, until the second edit.
THEOREM ForeignCorrect == Spec => []ForeignInv
  <1>1. ForeignInv /\ PathInv /\ Unrecorded /\ JobInv /\ ToldInv /\ EndInv /\ PlaceInv /\ OnceInv /\ SettleInv
        /\ [Next]_vars => ForeignInv'
    BY ForeignStep DEF Knows
  <1> QED
    BY <1>1, ForeignInit, PathsCorrect, JobsStayEnded, FilesAccounted, EndsCorrect, PlaceCorrect, OnceCorrect,
       SettleCorrect, PTL DEF Spec

\* As long as nobody cancels an open task and the process does not crash, no step of a worker, a
\* handler, a shutdown or a boot overwrites or deletes a sidecar that the user put there.
THEOREM ForeignSpared == Spec /\ []Spared => ForeignSidecarKept
  <1> DEFINE Kept == \A p \in DOMAIN disk : p[4] /\ disk[p] = User /\ used.edits = 1 =>
                       used'.edits = 2 \/ (p \in DOMAIN disk' /\ disk'[p] = User)
  <1>1. ForeignInv /\ SettleInv /\ Spared /\ [Next]_vars => [Kept]_vars
    <2> SUFFICES ASSUME ForeignInv, SettleInv, Spared, [Next]_vars,
                        NEW p \in DOMAIN disk, p[4], disk[p] = User, used.edits = 1
                 PROVE  used'.edits = 2 \/ (p \in DOMAIN disk' /\ disk'[p] = User)
      OBVIOUS
    <2>1. TypeOK /\ NoneCancelled /\ Unclaimed(p)
      BY DEF SettleInv, ForeignInv
    <2>2. CASE UserStep
      <3>1. used'.edits = used.edits + 1
        BY <2>1, <2>2 DEF UserStep, UserDeletes, UserPlaces, TypeOK
      <3> QED
        BY <3>1
    <2>3. CASE \E w \in Workers : WorkerStep(w)
      <3>1. PICK w \in Workers : WorkerStep(w)
        BY <2>3
      <3>2. wk[w].pc \in {"metaClean", "settle"} => wk[w].task \in Tasks
        BY <2>1 DEF TypeOK
      <3>3. wk[w].pc \in {"metaClean", "settle"} => p \notin wk[w].doomed
        BY <2>1, <3>2 DEF NoneCancelled, Unclaimed
      <3> QED
        BY <2>1, <3>1, <3>3, WorkerSpares
    <2>4. CASE \E j \in Jobs : CancelFinish(j)
      BY <2>1, <2>4 DEF CancelFinish, Without, Unclaimed
    <2>5. CASE ~(UserStep \/ (\E w \in Workers : WorkerStep(w)) \/ \E j \in Jobs : CancelFinish(j))
      <3>1. UNCHANGED disk
        BY <2>5 DEF Next, HandlerStep, HandlerEnd, SenderStep, ProcessStep, SubmitInsert, SubmitFinish, CancelLock,
           CancelPersist, Remove, RemoveTerminal, RemoveFinish, Drop, Send, SendAbort, Stop, Shutdown, Crash, Boot,
           Rest, vars
      <3> QED
        BY <3>1
    <2> QED
      BY <2>2, <2>3, <2>4, <2>5
  <1> QED
    BY <1>1, ForeignCorrect, SettleCorrect, PTL DEF Spec, ForeignSidecarKept

-----------------------------------------------------------------------------
(* FirstInv.                                                               *)

LEMMA FirstBefore ==
  ASSUME Knows, [Next]_vars, FirstRun'
  PROVE  FirstRun /\ up /\ ~stopping /\ ~ProcessStep
  <1>1. TypeOK /\ used \in [crashes : Nat, stops : Nat, edits : Nat]
    BY KnowsFacts DEF TypeOK
  <1>2. FirstRun /\ ~Stop /\ ~Crash
    <2>1. used'.crashes = 0 /\ used'.stops = 0
      BY DEF FirstRun
    <2>2. CASE ProcessStep
      BY <1>1, <2>1, <2>2 DEF ProcessStep, Stop, Crash, Shutdown, Boot, FirstRun, history
    <2>3. CASE UserStep
      <3>1. used' = [used EXCEPT !.edits = used.edits + 1]
        BY <2>3 DEF UserStep, UserDeletes, UserPlaces
      <3>2. used.crashes = 0 /\ used.stops = 0
        BY <1>1, <2>1, <3>1
      <3>3. ~Stop /\ ~Crash
        BY <1>1, <2>1, <3>2 DEF Stop, Crash
      <3> QED
        BY <3>2, <3>3 DEF FirstRun
    <2>4. CASE \E w \in Workers : WorkerStep(w)
      BY <1>1, <2>1, <2>4, WorkerNews DEF FirstRun, Stop, Crash
    <2>5. CASE ~(ProcessStep \/ UserStep \/ \E w \in Workers : WorkerStep(w))
      <3>1. used' = used
        BY <2>5 DEF Next, HandlerStep, HandlerEnd, SenderStep, SubmitInsert, CancelLock, Remove, RemoveTerminal, Drop,
           SubmitFinish, CancelPersist, CancelFinish, RemoveFinish, Send, SendAbort, Rest, vars, history
      <3> QED
        BY <1>1, <2>1, <2>5, <3>1 DEF FirstRun, ProcessStep
    <2> QED
      BY <2>2, <2>3, <2>4, <2>5
  <1>3. up /\ ~stopping
    BY <1>2 DEF Knows, ToldInv, EndsAreUsed, FirstRun
  <1> QED
    BY <1>2, <1>3 DEF ProcessStep, Shutdown, Boot

\* A worker leaves its task where it is, and may only give up the archive of a conversion.
Narrows(w) ==
  /\ task'[T(w)] \in TaskRecords /\ task'[T(w)].suffix = Rec(w).suffix
  /\ task'[T(w)].ext \in {Rec(w).ext, MediaExt[J(w)]}
  /\ task'[T(w)].status \in {Rec(w).status} \cup Terminal

LEMMA NarrowClaims ==
  ASSUME NEW w \in Workers, T(w) \in Tasks, Rec(w) \in TaskRecords, Narrows(w)
  PROVE  Claims(T(w), task'[T(w)]) \subseteq Claims(T(w), Rec(w))
  BY DEF Narrows, Claims, FilePath, FinalPath, MetaPath, Path, J

LEMMA WorkerNarrows ==
  ASSUME TypeOK, ~stopping, NEW w \in Workers, WorkerStep(w), ~Lease(w), T(w) \in Tasks,
         wk[w].pc = "reuse" => ~Rec(w).wrote
  PROVE  Narrows(w)
  <1>1. Rec(w) \in TaskRecords /\ {"failed", "completed", "cancelled", "queued"} \subseteq Status
    BY DEF TypeOK, Rec, Status, Terminal
  <1>2. \A rec : SetTask(w, rec) => task'[T(w)] = rec
    BY DEF SetTask, TypeOK
  <1> DEFINE Good(rec) == /\ rec \in TaskRecords /\ rec.suffix = Rec(w).suffix
                          /\ rec.ext \in {Rec(w).ext, MediaExt[J(w)]}
                          /\ rec.status \in {Rec(w).status} \cup Terminal
             own == [Rec(w) EXCEPT !.wrote = TRUE]
             out == [Rec(w) EXCEPT !.ext = MediaExt[J(w)]]
             met(r) == Recorded(Rec(w), r)
  <1>3. Good(Rec(w)) /\ Good(own) /\ own.status = Rec(w).status
    BY <1>1 DEF TaskRecords
  <1>4. Good(out)
    <2>1. MediaExt[J(w)] \in Exts
      BY PoolAssumption DEF Exts, J
    <2> QED
      BY <1>1, <2>1 DEF TaskRecords
  <1>5. \A r : Good(met(r)) /\ met(r).status = Rec(w).status
    BY <1>1 DEF Recorded, TaskRecords
  <1>6. ASSUME NEW rec \in TaskRecords, Good(rec), rec.status = Rec(w).status
        PROVE  Good(ResolveCancelled(rec)) /\ \A s \in {"failed", "completed"} : Good(Settled(rec, s))
    <2>1. ASSUME NEW s \in {"failed", "completed", "cancelled"} PROVE Good(Settled(rec, s))
      <3>1. Settled(rec, s) \in TaskRecords
        BY <1>1, SettledType
      <3> QED
        BY <1>1, <1>6, <3>1, SettledFiles DEF SameFiles, Terminal
    <2>2. ResolveCancelled(rec) = Settled(rec, "cancelled")
      BY DEF ResolveCancelled
    <2> QED
      BY <2>1, <2>2
  <1> DEFINE Any == \/ UNCHANGED task \/ SetTask(w, own) \/ SetTask(w, out)
                    \/ SetTask(w, ResolveCancelled(Rec(w)))
                    \/ \E s \in {"failed", "completed"} : SetTask(w, Settled(Rec(w), s)) \/ SetTask(w, Settled(own, s))
                    \/ \E r : SetTask(w, ResolveCancelled(met(r)))
                    \/ \E r : \E s \in {"failed", "completed"} : SetTask(w, Settled(met(r), s))
  <1>7. Any
    <2>1. QueueStep(w) => UNCHANGED task
      BY WorkerWrites
    <2>2. Commit(w) => Any
      BY DEF Commit
    <2>3. MetaFinish(w) => Any
      BY DEF MetaFinish
    <2>4. ReuseNothing(w) => UNCHANGED task
      BY DEF ReuseNothing, At
    <2>5. ASSUME ImageStep(w), ~Commit(w) PROVE Any
      <3>1. \/ UNCHANGED task \/ SetTask(w, ResolveCancelled(Rec(w))) \/ SetTask(w, Settled(Rec(w), "failed"))
        BY <2>4, <2>5 DEF ImageStep, ReuseOwned, ReuseFails, FetchBody, FetchRename, FetchRetry, FetchFail, Backoff,
           Interrupted, DropFile
      <3> QED
        BY <3>1
    <2>6. ASSUME UgoiraStep(w) \/ MetaStep(w), ~MetaFinish(w) PROVE Any
      <3>1. \/ UNCHANGED task \/ SetTask(w, out) \/ SetTask(w, ResolveCancelled(Rec(w)))
            \/ SetTask(w, Settled(Rec(w), "failed")) \/ SetTask(w, Settled(Rec(w), "completed"))
        BY <2>6 DEF UgoiraStep, ConvertBegin, EncodeCreate, DecodeFail, EncodeAbort, EncodeDone, EncodeSwap, Accept,
           MetaStep, MetaBegin, MetaWrite, MetaClean
      <3> QED
        BY <3>1
    <2> QED
      BY <2>1, <2>2, <2>3, <2>5, <2>6 DEF WorkerStep
  <1>8. UNCHANGED task => task'[T(w)] = Rec(w)
    BY DEF Rec
  <1> HIDE DEF own, out, met, Good
  <1>9. Good(task'[T(w)])
    <2>1. own \in TaskRecords /\ \A r : met(r) \in TaskRecords
      BY <1>3, <1>5 DEF Good
    <2> QED
      BY <1>1, <1>2, <1>3, <1>4, <1>5, <1>6, <1>7, <1>8, <2>1
  <1> QED
    BY <1>9 DEF Good, Narrows

LEMMA FirstWorker ==
  ASSUME Knows, FirstRun, FirstInv, up, ~stopping, NEW w \in Workers, WorkerStep(w), ~Lease(w)
  PROVE  FirstInv'
  <1>1. /\ TypeOK /\ wk \in [Workers -> Locals]
        /\ \A t \in Tasks : task[t] \in TaskRecords /\ JobOf[t] \in Jobs
    BY KnowsFacts
  <1>2. /\ Separate(index, task)
        /\ \A t \in Tasks : task[t].status = "queued" => NoMedia(t)
        /\ \A v \in Workers : wk[v].task \in Tasks /\ wk[v].pc \in {"leased", "reuse"} => NoMedia(T(v))
    BY DEF FirstInv
  <1>3. /\ \A t \in Tasks : t # T(w) => task'[t] = task[t]
        /\ \A v \in Workers : v # w => wk'[v] = wk[v]
        /\ QueueStep(w) => UNCHANGED task
        /\ index' = index
    BY <1>1, WorkerWrites, WorkerKeeps, WorkerNews DEF Keeps
  <1>4. ASSUME T(w) \in Tasks PROVE Narrows(w)
    BY <1>1, <1>2, <1>4, WorkerNarrows DEF NoMedia, T, Rec
  <1>5. ASSUME T(w) \in Tasks PROVE Claims(T(w), task'[T(w)]) \subseteq Claims(T(w), Rec(w))
    BY <1>1, <1>4, <1>5, NarrowClaims DEF Rec
  <1>6. \A t \in Tasks : Open(index, task, t)' => Open(index, task, t) /\ Claims(t, task'[t]) \subseteq Claims(t, task[t])
    <2> SUFFICES ASSUME NEW t \in Tasks, Open(index, task, t)'
                 PROVE  Open(index, task, t) /\ Claims(t, task'[t]) \subseteq Claims(t, task[t])
      OBVIOUS
    <2>1. CASE t # T(w)
      BY <1>3, <2>1 DEF Open
    <2>2. CASE t = T(w)
      BY <1>3, <1>4, <1>5, <2>2 DEF Open, Narrows, Rec
    <2> QED
      BY <2>1, <2>2
  <1>7. Separate(index, task)'
    <2> SUFFICES ASSUME NEW t \in Tasks, NEW u \in Tasks, t # u, Open(index, task, t)', Open(index, task, u)'
                 PROVE  Claims(t, task'[t]) \cap Claims(u, task'[u]) = {}
      BY DEF Separate
    <2> QED
      BY <1>2, <1>6 DEF Separate
  <1>8. ASSUME NEW t \in Tasks, task'[t].status = "queued" PROVE NoMedia(t)'
    <2>1. CASE t # T(w) \/ UNCHANGED task
      BY <1>2, <1>3, <1>8, <2>1 DEF NoMedia
    <2>2. CASE t = T(w) /\ task' # task
      <3>1. wk[w].pc \in Working \cup {"drop"} \cup Ending
        BY <2>2 DEF Knows, PlaceInv, InStage, T
      <3>2. Rec(w).status \in {"running"} \cup Terminal
        BY <2>2 DEF Knows, PlaceInv, InStage, T
      <3> QED
        BY <1>4, <1>8, <2>2, <3>2 DEF Narrows, Terminal
    <2> QED
      BY <2>1, <2>2
  <1>9. ASSUME NEW v \in Workers, wk'[v].task \in Tasks, wk'[v].pc \in {"leased", "reuse"} PROVE NoMedia(T(v))'
    <2>1. CASE v # w
      <3>1. wk'[v] = wk[v] /\ T(v)' = T(v) /\ T(v) \in Tasks
        BY <1>3, <1>9, <2>1 DEF T
      <3>2. CASE T(v) = T(w)
        BY <1>9, <2>1, <3>1, <3>2 DEF Knows, OnceInv, WorkerOnce, Carries, T
      <3>3. CASE T(v) # T(w)
        BY <1>2, <1>3, <1>9, <3>1, <3>3 DEF NoMedia, T
      <3> QED
        BY <3>2, <3>3
    <2>2. CASE v = w
      <3>1. AnnounceStart(w)
        BY <1>1, <1>9, <2>2, WorkerArrives
      <3>2. wk[w].pc = "leased" /\ wk'[w].task = T(w) /\ UNCHANGED task
        BY <1>1, <3>1, PcOf DEF AnnounceStart, At, memory
      <3> QED
        BY <1>2, <1>9, <2>2, <3>2 DEF NoMedia, T
    <2> QED
      BY <2>1, <2>2
  <1> QED
    BY <1>7, <1>8, <1>9 DEF FirstInv

LEMMA FirstLease ==
  ASSUME Knows, FirstRun, FirstInv, NEW w \in Workers, Lease(w)
  PROVE  FirstInv'
  <1>1. /\ TypeOK /\ wk \in [Workers -> Locals] /\ task \in [Tasks -> TaskRecords]
        /\ \A t \in Tasks : task[t] \in TaskRecords /\ JobOf[t] \in Jobs
    BY KnowsFacts
  <1>2. /\ Separate(index, task)
        /\ \A t \in Tasks : task[t].status = "queued" => NoMedia(t)
        /\ \A v \in Workers : wk[v].task \in Tasks /\ wk[v].pc \in {"leased", "reuse"} => NoMedia(T(v))
        /\ index' = index
    BY DEF FirstInv, Lease
  <1>3. CASE UNCHANGED <<task, wk>>
    BY <1>2, <1>3 DEF FirstInv, Separate, Open, NoMedia, T
  <1>4. CASE ~UNCHANGED <<task, wk>>
    <2>1. PICK t, n : /\ t = Head(queue) /\ task[t].status \notin Terminal /\ queue # <<>>
                      /\ task' = [task EXCEPT ![t].status = "running"]
                      /\ wk' = [wk EXCEPT ![w] = [IdleWorker EXCEPT !.pc = "leased", !.task = t, !.news = n]]
      BY <1>4 DEF Lease
    <2>2. t \in Tasks /\ InQueue(t)
      BY <1>1, <2>1 DEF TypeOK, InQueue
    <2>3. task[t].status = "queued"
      <3>1. task[t].status \in {"queued", "running"}
        BY <1>1, <2>1, <2>2 DEF TaskRecords, Status
      <3>2. ~\E v \in Workers : Carries(v, t)
        BY <2>2 DEF Knows, OnceInv, Apart
      <3>3. JobOf[t] \in index
        BY <1>1, <2>1, <2>2 DEF Knows, JobInv, Nowhere
      <3>4. HasPlace(t)
        BY <2>1, <2>2, <3>3 DEF Knows, PlaceInv, Placed, Live, Lease, At
      <3> QED
        BY <3>1, <3>2, <3>4 DEF HasPlace
    <2>4. \A u \in Tasks : /\ task'[u].suffix = task[u].suffix /\ task'[u].ext = task[u].ext
                           /\ task'[u].wrote = task[u].wrote /\ task'[u] \in TaskRecords
                           /\ u # t => task'[u] = task[u]
      BY <1>1, <2>1, <2>2 DEF TaskRecords, Status
    <2>5. task'[t].status = "running"
      BY <1>1, <2>1, <2>2 DEF TaskRecords
    <2>6. Separate(index, task)'
      <3> SUFFICES ASSUME NEW a \in Tasks, NEW b \in Tasks, a # b, Open(index, task, a)', Open(index, task, b)'
                   PROVE  Claims(a, task'[a]) \cap Claims(b, task'[b]) = {}
        BY DEF Separate
      <3>1. Claims(a, task'[a]) = Claims(a, task[a]) /\ Claims(b, task'[b]) = Claims(b, task[b])
        BY <1>1, <2>4, ClaimsSame
      <3>2. Open(index, task, a) /\ Open(index, task, b)
        BY <1>2, <2>1, <2>4 DEF Open
      <3> QED
        BY <1>2, <3>1, <3>2 DEF Separate
    <2>7. \A u \in Tasks : task'[u].status = "queued" => NoMedia(u)'
      BY <1>2, <2>4, <2>5 DEF NoMedia
    <2>8. ASSUME NEW v \in Workers, wk'[v].task \in Tasks, wk'[v].pc \in {"leased", "reuse"} PROVE NoMedia(T(v))'
      <3>1. CASE v = w
        <4>1. T(v)' = t
          BY <1>1, <2>1, <3>1 DEF T, IdleWorker
        <4> QED
          BY <1>2, <2>2, <2>3, <2>4, <4>1 DEF NoMedia
      <3>2. CASE v # w
        <4>1. wk'[v] = wk[v] /\ T(v)' = T(v) /\ T(v) \in Tasks
          BY <1>1, <2>1, <2>8, <3>2 DEF T
        <4> QED
          BY <1>2, <2>4, <2>8, <4>1 DEF NoMedia, T
      <3> QED
        BY <3>1, <3>2
    <2> QED
      BY <2>6, <2>7, <2>8 DEF FirstInv
  <1> QED
    BY <1>3, <1>4

LEMMA FirstSubmit ==
  ASSUME Knows, FirstRun, FirstInv, NEW j \in Jobs, SubmitInsert(j)
  PROVE  FirstInv'
  <1>1. /\ TypeOK /\ task \in [Tasks -> TaskRecords]
        /\ \A t \in Tasks : task[t] \in TaskRecords /\ JobOf[t] \in Jobs
    BY KnowsFacts
  <1>2. /\ Separate(index, task)
        /\ \A t \in Tasks : task[t].status = "queued" => NoMedia(t)
        /\ \A v \in Workers : wk[v].task \in Tasks /\ wk[v].pc \in {"leased", "reuse"} => NoMedia(T(v))
    BY DEF FirstInv
  <1>3. PICK pick \in [TasksOf(j) -> 0..MaxSuffix] :
          /\ ResolvedBy(pick, TasksOf(j), {}, task, ReservedPaths)
          /\ task' = [t \in Tasks |-> IF t \in TasksOf(j) THEN Moved(task[t], pick[t]) ELSE task[t]]
    BY DEF SubmitInsert
  <1>4. submit[j] = "new" /\ index' = index \cup {j} /\ UNCHANGED wk
    BY DEF SubmitInsert
  <1>5. \A t \in Tasks : t \in TasksOf(j) <=> JobOf[t] = j
    BY DEF TasksOf
  <1>6. \A t \in TasksOf(j) : t \in Tasks /\ task'[t] = Moved(task[t], pick[t]) /\ \A v \in Workers : ~Carries(v, t)
    BY <1>3, <1>4 DEF Knows, OnceInv, Unsent, Nowhere, TasksOf
  <1>7. \A t \in Tasks : t \notin TasksOf(j) => task'[t] = task[t]
    BY <1>3
  <1>8. /\ \A t \in TasksOf(j) : Claims(t, task'[t]) \cap ReservedPaths = {}
        /\ \A t, u \in TasksOf(j) : Rank[u] < Rank[t] => Claims(t, task'[t]) \cap Claims(u, task'[u]) = {}
    <2>1. \A t \in TasksOf(j) : \A p \in Claims(t, Moved(task[t], pick[t])) :
            ~Taken(pick, TasksOf(j), {}, task, ReservedPaths, t, p)
      BY <1>3, Resolves
    <2> QED
      BY <1>6, <2>1 DEF Taken, PlacedBefore
  <1>9. \A t, u \in TasksOf(j) : t # u => Claims(t, task'[t]) \cap Claims(u, task'[u]) = {}
    <2>1. \A t, u \in TasksOf(j) : t # u => Rank[t] < Rank[u] \/ Rank[u] < Rank[t]
      BY <1>6, PoolAssumption
    <2> QED
      BY <1>8, <2>1
  <1>10. \A t \in Tasks : Open(index, task, t)' /\ t \notin TasksOf(j) => Open(index, task, t) /\ Claims(t, task'[t]) \subseteq ReservedPaths
    BY <1>4, <1>5, <1>7 DEF Open, ReservedPaths, Live
  <1>11. Separate(index, task)'
    <2> SUFFICES ASSUME NEW t \in Tasks, NEW u \in Tasks, t # u, Open(index, task, t)', Open(index, task, u)'
                 PROVE  Claims(t, task'[t]) \cap Claims(u, task'[u]) = {}
      BY DEF Separate
    <2>1. CASE t \in TasksOf(j) /\ u \in TasksOf(j)
      BY <1>9, <2>1
    <2>2. CASE t \in TasksOf(j) /\ u \notin TasksOf(j)
      BY <1>8, <1>10, <2>2
    <2>3. CASE t \notin TasksOf(j) /\ u \in TasksOf(j)
      BY <1>8, <1>10, <2>3
    <2>4. CASE t \notin TasksOf(j) /\ u \notin TasksOf(j)
      BY <1>2, <1>7, <1>10, <2>4 DEF Separate
    <2> QED
      BY <2>1, <2>2, <2>3, <2>4
  <1>12. \A t \in Tasks : task'[t].status = task[t].status /\ (NoMedia(t) => NoMedia(t)')
    <2> SUFFICES ASSUME NEW t \in Tasks PROVE task'[t].status = task[t].status /\ (NoMedia(t) => NoMedia(t)')
      OBVIOUS
    <2>1. \A n : Moved(task[t], n).status = task[t].status /\ Moved(task[t], n).wrote = task[t].wrote
                 /\ Moved(task[t], n).ext = task[t].ext
      BY <1>1 DEF Moved, TaskRecords
    <2> QED
      BY <1>6, <1>7, <2>1 DEF NoMedia
  <1> QED
    BY <1>2, <1>4, <1>11, <1>12 DEF FirstInv, T

LEMMA FirstCancel ==
  ASSUME Knows, FirstRun, FirstInv, NEW j \in Jobs, CancelLock(j)
  PROVE  FirstInv'
  <1>1. TypeOK /\ \A t \in Tasks : task[t] \in TaskRecords
    BY KnowsFacts
  <1>2. /\ index' = index /\ UNCHANGED wk
        /\ \A t \in Tasks : task'[t] \in {task[t], Settled(task[t], "cancelled")}
    BY DEF CancelLock
  <1>3. \A t \in Tasks : /\ task'[t] \in TaskRecords /\ SameFiles(task'[t], task[t])
                         /\ task'[t].status \in {task[t].status, "cancelled"}
    <2> TAKE t \in Tasks
    <2>1. CASE task'[t] = task[t]
      BY <1>1, <2>1 DEF SameFiles
    <2>2. CASE task'[t] = Settled(task[t], "cancelled")
      <3>1. "cancelled" \in Status
        BY DEF Status, Terminal
      <3>2. task'[t] \in TaskRecords
        BY <1>1, <2>2, <3>1, SettledType
      <3> QED
        BY <1>1, <2>2, <3>2 DEF SameFiles, Settled, TaskRecords
    <2> QED
      BY <1>2, <2>1, <2>2
  <1>4. \A t \in Tasks : Claims(t, task'[t]) = Claims(t, task[t])
    BY <1>1, <1>3, ClaimsSame DEF SameFiles
  <1>5. \A t \in Tasks : Open(index, task, t)' => Open(index, task, t)
    BY <1>2, <1>3 DEF Open, Terminal
  <1>6. Separate(index', task')
    BY <1>2, <1>4, <1>5 DEF FirstInv, Separate, Open
  <1>7. \A t \in Tasks : task'[t].status = "queued" => task[t].status = "queued" /\ NoMedia(t)'
    BY <1>3 DEF FirstInv, NoMedia, SameFiles
  <1>8. \A w \in Workers : wk[w].task \in Tasks /\ wk[w].pc \in {"leased", "reuse"} => NoMedia(T(w))'
    BY <1>2, <1>3 DEF FirstInv, NoMedia, SameFiles, T
  <1> QED
    BY <1>2, <1>6, <1>7, <1>8 DEF FirstInv, NoMedia, T

LEMMA FirstStep == FirstInv /\ Knows /\ [Next]_vars => FirstInv'
  <1> SUFFICES ASSUME FirstInv, Knows, [Next]_vars, FirstRun' PROVE FirstInv'
    BY DEF FirstInv
  <1>1. FirstRun /\ up /\ ~stopping /\ ~ProcessStep
    BY FirstBefore
  <1>2. CASE \E w \in Workers : WorkerStep(w)
    BY <1>1, <1>2, FirstWorker, FirstLease
  <1>3. CASE \E j \in Jobs : SubmitInsert(j) \/ CancelLock(j)
    BY <1>1, <1>3, FirstSubmit, FirstCancel
  <1>4. CASE \/ HandlerEnd \/ SenderStep \/ UserStep \/ Rest \/ UNCHANGED vars
             \/ \E js : up /\ Drop(js)
    <2>1. UNCHANGED <<task, wk>> /\ index' \subseteq index
      BY <1>4 DEF HandlerEnd, SubmitFinish, CancelPersist, CancelFinish, RemoveFinish, Drop, SenderStep, Send, SendAbort,
         UserStep, UserDeletes, UserPlaces, Rest, vars, memory
    <2> QED
      BY <1>1, <2>1 DEF FirstInv, Separate, Open, NoMedia, T
  <1> QED
    BY <1>1, <1>2, <1>3, <1>4 DEF Next, HandlerStep, Remove, RemoveTerminal

LEMMA FirstInit == Init => FirstInv
  <1> SUFFICES ASSUME Init PROVE FirstInv
    OBVIOUS
  <1>1. /\ index = {} /\ \A w \in Workers : wk[w].task \notin Tasks
        /\ \A t \in Tasks : ~task[t].wrote /\ task[t].ext = FirstExt(JobOf[t])
    BY PoolAssumption DEF Init, IdleWorker, Blank
  <1> QED
    BY <1>1 DEF FirstInv, Separate, Open, NoMedia

\* Until the process is asked to stop or dies, the paths of an open task only become fewer and no
\* task has media when it is leased.
THEOREM FirstCorrect == Spec => []FirstInv
  <1>1. FirstInv /\ JobInv /\ Unrecorded /\ EndInv /\ ToldInv /\ PlaceInv /\ OnceInv /\ SettleInv
        /\ [Next]_vars => FirstInv'
    BY FirstStep DEF Knows
  <1> QED
    BY <1>1, FirstInit, PathsCorrect, JobsStayEnded, FilesAccounted, EndsCorrect, PlaceCorrect, OnceCorrect,
       SettleCorrect, PTL DEF Spec

\* As long as the process has neither stopped nor died, no two tasks that can still write have a path
\* in common, whatever is cancelled, removed, retried or converted, whatever names and formats the
\* jobs have, and whatever the user deletes or places in the output directory.
THEOREM FirstDisjoint == Spec => [](FirstRun => LivePathsDisjoint)
  <1>1. FirstInv => (FirstRun => LivePathsDisjoint)
    BY DEF FirstInv, Separate, Open, LivePathsDisjoint, Live
  <1> QED
    BY <1>1, FirstCorrect, PTL
=============================================================================
