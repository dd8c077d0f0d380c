------------------------- MODULE DownloadCleanProofs -------------------------
(***************************************************************************)
(* Jobs are transactional: the proof of EndInv, that only a Cancel settles *)
(* a task under its worker and then settles the whole job, and of          *)
(* CleanInv, that every file on disk is in its task's record or in the     *)
(* hands of a worker; from both, TransactionalCleanup.                     *)
(***************************************************************************)
EXTENDS DownloadSettleProofs

-----------------------------------------------------------------------------
(* Paths and records.                                                      *)

\* The three paths of a task differ, whatever its record, and depend on the suffix and, the first,
\* on the extension alone.
LEMMA PathFacts ==
  ASSUME NEW t \in Tasks, NEW a \in TaskRecords, NEW b \in TaskRecords, a.suffix = b.suffix
  PROVE  /\ FinalPath(t, a) = FinalPath(t, b) /\ MetaPath(t, a) = MetaPath(t, b)
         /\ a.ext = b.ext => FilePath(t, a) = FilePath(t, b)
         /\ FilePath(t, a) = FinalPath(t, a) <=> a.ext = MediaExt[JobOf[t]]
         /\ ~FilePath(t, a)[4] /\ ~FinalPath(t, a)[4] /\ MetaPath(t, a)[4]
         /\ FilePath(t, a) # MetaPath(t, a) /\ FinalPath(t, a) # MetaPath(t, a)
  BY DEF FilePath, FinalPath, MetaPath, Path

LEMMA WrittenOwned ==
  ASSUME NEW ts \in SUBSET Tasks, NEW tk, NEW p
  PROVE  p \in WrittenPaths(ts, tk) <=> \E t \in ts : Owns(t, tk[t], p)
  BY DEF WrittenPaths, Owns

\* With the same fields but its status a record owns the same.
SameFiles(a, b) ==
  a.suffix = b.suffix /\ a.ext = b.ext /\ a.wrote = b.wrote /\ a.wroteMeta = b.wroteMeta

LEMMA SameOwner ==
  ASSUME NEW t \in Tasks, NEW a \in TaskRecords, NEW b \in TaskRecords, SameFiles(a, b), NEW p
  PROVE  /\ Owns(t, a, p) <=> Owns(t, b, p)
         /\ FilePath(t, a) = FilePath(t, b)
  BY PathFacts DEF Owns, SameFiles

LEMMA SettledFiles ==
  ASSUME NEW tk \in TaskRecords, NEW s \in Status
  PROVE  /\ SameFiles(Settled(tk, s), tk) /\ Settled(tk, s).status \in {tk.status, s}
         /\ SameFiles(ResolveCancelled(tk), tk)
         /\ ResolveCancelled(tk).status \in {tk.status, IF stopping THEN "queued" ELSE "cancelled"}
  BY DEF Settled, ResolveCancelled, SameFiles, TaskRecords

-----------------------------------------------------------------------------
(* How a worker ends its task.                                             *)

\* A worker does not cancel its task unless Cancel did, and leaves its own words true.
EndsWell(w) ==
  /\ task'[T(w)] \in TaskRecords
  /\ task'[T(w)].status = "cancelled" => Rec(w).status = "cancelled"
  /\ OnlyCancelled(w)'

\* A step to stage l that leaves the status alone.
LEMMA GoesOnWell ==
  ASSUME NEW w \in Workers, OnlyCancelled(w), wk'[w].task = T(w),
         UNCHANGED stopping, task'[T(w)] \in TaskRecords, task'[T(w)].status = Rec(w).status,
         wk'[w].pc \in Working => wk[w].pc \in Working,
         wk'[w].pc = "wrote" /\ wk'[w].result = "cancelled" => CtxDone(w)
  PROVE  EndsWell(w)
  <1>1. Rec(w)' = task'[T(w)]
    BY DEF Rec, T
  <1>2. CtxDone(w) => CtxDone(w)'
    BY <1>1 DEF CtxDone
  <1> QED
    BY <1>1, <1>2 DEF EndsWell, OnlyCancelled

\* A step off the working stages.
LEMMA EndsOffWell ==
  ASSUME NEW w \in Workers, wk'[w].pc \notin Working, task'[T(w)] \in TaskRecords,
         task'[T(w)].status = "cancelled" => Rec(w).status = "cancelled"
  PROVE  EndsWell(w)
  BY DEF EndsWell, OnlyCancelled, Working

LEMMA ImageEndsWell ==
  ASSUME TypeOK, NEW w \in Workers, OnlyCancelled(w), ImageStep(w) PROVE EndsWell(w)
  <1>1. T(w) \in Tasks /\ UNCHANGED stopping
    BY TypeParts, AtType DEF ImageStep, ReuseNothing, ReuseOwned, ReuseFails, FetchBody, FetchRename, FetchRetry,
       FetchFail, Backoff, Interrupted, Commit, DropFile, Elsewhere, process, Stages
  <1>2. Rec(w) \in TaskRecords /\ \A rec : SetTask(w, rec) => task'[T(w)] = rec
    BY <1>1, StatusOf
  <1>3. {"failed", "completed"} \subseteq Status
    BY DEF Status, Terminal
  <1>4. CASE ReuseNothing(w)
    <2>1. At(w, "reuse") /\ wk'[w].pc = "fetch" /\ wk'[w].task = T(w)
      BY <1>4, PcOf DEF ReuseNothing
    <2>2. FirstExt(J(w)) \in Exts
      BY <1>1, PoolAssumption DEF FirstExt, Exts, J
    <2>3. task'[T(w)] \in TaskRecords /\ task'[T(w)].status = Rec(w).status
      BY <1>2, <1>4, <2>2 DEF ReuseNothing, Rec, TaskRecords
    <2> QED
      BY <1>1, <2>1, <2>3, GoesOnWell DEF At, Working
  <1>5. CASE ReuseOwned(w) \/ FetchBody(w) \/ FetchRename(w) \/ FetchRetry(w) \/ Backoff(w)
    <2>1. /\ \E l \in {"reuse", "fetch", "received", "backoff"} : At(w, l)
          /\ wk'[w].pc \in {"meta", "convert", "received", "renamed", "backoff", "fetch"} /\ wk'[w].task = T(w)
      BY <1>5, PcOf DEF ReuseOwned, AfterMedia, FetchBody, FetchRename, FetchRetry, Backoff
    <2>2. UNCHANGED task
      BY <1>5 DEF ReuseOwned, FetchBody, FetchRename, FetchRetry, Backoff
    <2> QED
      BY <1>1, <1>2, <2>1, <2>2, GoesOnWell DEF At, Working, Rec
  <1>6. CASE ReuseFails(w) \/ FetchFail(w)
    <2>1. wk'[w].pc = "finalize" /\ task'[T(w)] = Settled(Rec(w), "failed")
      BY <1>2, <1>6, PcOf DEF ReuseFails, FetchFail
    <2>2. task'[T(w)] \in TaskRecords /\ task'[T(w)].status \in {Rec(w).status, "failed"}
      BY <1>2, <1>3, <2>1, SettledFiles, SettledType
    <2> QED
      BY <2>1, <2>2, EndsOffWell DEF Working
  <1>7. CASE Interrupted(w)
    <2>1. wk'[w].pc = "finalize" /\ task'[T(w)] = ResolveCancelled(Rec(w)) /\ CtxDone(w)
      BY <1>2, <1>7, PcOf DEF Interrupted
    <2>2. task'[T(w)] \in TaskRecords /\ task'[T(w)].status = "cancelled" => stopping \/ Rec(w).status = "cancelled"
      BY <2>1 DEF CtxDone
    <2>3. stopping => task'[T(w)].status \in {Rec(w).status, "queued"}
      BY <1>2, <1>3, <2>1, SettledFiles
    <2> QED
      BY <1>2, <2>1, <2>2, <2>3, EndsOffWell, ResolveType DEF Working
  <1>8. CASE Commit(w)
    <2> DEFINE own == [Rec(w) EXCEPT !.wrote = TRUE]
    <2>1. own \in TaskRecords /\ own.status = Rec(w).status
      BY <1>2 DEF TaskRecords
    <2>2. /\ At(w, "renamed")
          /\ \/ SetTask(w, own) /\ Goto(w, "drop")
             \/ SetTask(w, own) /\ Goto(w, AfterMedia(w))
             \/ SetTask(w, Settled(own, "completed")) /\ ToEnd(w)
      BY <1>8 DEF Commit
    <2> HIDE DEF own
    <2>3. CASE SetTask(w, own) /\ (Goto(w, "drop") \/ Goto(w, AfterMedia(w)))
      <3>1. wk'[w].pc \in {"drop", "convert", "meta"} /\ wk'[w].task = T(w)
        BY <2>3, PcOf DEF AfterMedia
      <3> QED
        BY <1>1, <1>2, <2>1, <2>2, <2>3, <3>1, GoesOnWell DEF At, Working
    <2>4. CASE SetTask(w, Settled(own, "completed")) /\ ToEnd(w)
      <3>1. wk'[w].pc = "finalize" /\ task'[T(w)] = Settled(own, "completed")
        BY <1>2, <2>4, PcOf
      <3>2. task'[T(w)] \in TaskRecords /\ task'[T(w)].status \in {Rec(w).status, "completed"}
        BY <1>3, <2>1, <3>1, SettledFiles, SettledType
      <3> QED
        BY <3>1, <3>2, EndsOffWell DEF Working
    <2> QED
      BY <2>2, <2>3, <2>4
  <1>9. CASE DropFile(w)
    <2>1. wk'[w].pc = "finalize" /\ UNCHANGED task
      BY <1>9, PcOf DEF DropFile
    <2> QED
      BY <1>2, <2>1, EndsOffWell DEF Working, Rec
  <1> QED
    BY <1>4, <1>5, <1>6, <1>7, <1>8, <1>9 DEF ImageStep

LEMMA UgoiraEndsWell ==
  ASSUME TypeOK, NEW w \in Workers, OnlyCancelled(w), UgoiraStep(w) PROVE EndsWell(w)
  <1>1. T(w) \in Tasks /\ UNCHANGED stopping
    BY TypeParts, AtType DEF UgoiraStep, ConvertBegin, EncodeCreate, DecodeFail, EncodeAbort, EncodeDone,
       EncodeSwap, Accept, Elsewhere, process, Stages
  <1>2. Rec(w) \in TaskRecords /\ \A rec : SetTask(w, rec) => task'[T(w)] = rec
    BY <1>1, StatusOf
  <1>3. {"failed", "completed"} \subseteq Status
    BY DEF Status, Terminal
  <1>4. CASE ConvertBegin(w) \/ EncodeCreate(w) \/ EncodeDone(w)
    <2>1. /\ \E l \in {"convert", "encode", "encoding"} : At(w, l)
          /\ wk'[w].pc \in {"finalize", "accept", "encode", "encoding", "encoded"} /\ wk'[w].task = T(w)
      BY <1>4, PcOf DEF ConvertBegin, EncodeCreate, EncodeDone
    <2>2. UNCHANGED task
      BY <1>4 DEF ConvertBegin, EncodeCreate, EncodeDone
    <2> QED
      BY <1>1, <1>2, <2>1, <2>2, GoesOnWell DEF At, Working, Rec
  <1>5. CASE DecodeFail(w) \/ EncodeAbort(w)
    <2>1. /\ wk'[w].pc = "finalize"
          /\ \/ task'[T(w)] = Settled(Rec(w), "failed")
             \/ CtxDone(w) /\ task'[T(w)] = ResolveCancelled(Rec(w))
      BY <1>2, <1>5, PcOf DEF DecodeFail, EncodeAbort
    <2>2. CASE task'[T(w)] = Settled(Rec(w), "failed")
      <3>1. task'[T(w)] \in TaskRecords /\ task'[T(w)].status \in {Rec(w).status, "failed"}
        BY <1>2, <1>3, <2>2, SettledFiles, SettledType
      <3> QED
        BY <2>1, <3>1, EndsOffWell DEF Working
    <2>3. CASE CtxDone(w) /\ task'[T(w)] = ResolveCancelled(Rec(w))
      <3>1. stopping => task'[T(w)].status \in {Rec(w).status, "queued"}
        BY <1>2, <1>3, <2>3, SettledFiles
      <3> QED
        BY <1>2, <2>1, <2>3, <3>1, EndsOffWell, ResolveType DEF Working, CtxDone
    <2> QED
      BY <2>1, <2>2, <2>3
  <1>6. CASE EncodeSwap(w)
    <2>1. At(w, "encoded") /\ wk'[w].pc = "accept" /\ wk'[w].task = T(w)
      BY <1>6, PcOf DEF EncodeSwap
    <2>2. MediaExt[J(w)] \in Exts
      BY <1>1, PoolAssumption DEF Exts, J
    <2>3. task'[T(w)] \in TaskRecords /\ task'[T(w)].status = Rec(w).status
      BY <1>2, <1>6, <2>2 DEF EncodeSwap, TaskRecords
    <2> QED
      BY <1>1, <2>1, <2>3, GoesOnWell DEF At, Working
  <1>7. CASE Accept(w)
    <2>1. /\ At(w, "accept") /\ wk'[w].task = T(w)
          /\ \/ UNCHANGED task /\ wk'[w].pc \in {"drop", "meta"}
             \/ task'[T(w)] = Settled(Rec(w), "completed") /\ wk'[w].pc = "finalize"
      BY <1>2, <1>7, PcOf DEF Accept
    <2>2. CASE UNCHANGED task /\ wk'[w].pc \in {"drop", "meta"}
      BY <1>1, <1>2, <2>1, <2>2, GoesOnWell DEF At, Working, Rec
    <2>3. CASE task'[T(w)] = Settled(Rec(w), "completed") /\ wk'[w].pc = "finalize"
      <3>1. task'[T(w)] \in TaskRecords /\ task'[T(w)].status \in {Rec(w).status, "completed"}
        BY <1>2, <1>3, <2>3, SettledFiles, SettledType
      <3> QED
        BY <2>3, <3>1, EndsOffWell DEF Working
    <2> QED
      BY <2>1, <2>2, <2>3
  <1> QED
    BY <1>4, <1>5, <1>6, <1>7 DEF UgoiraStep

LEMMA MetaEndsWell ==
  ASSUME TypeOK, NEW w \in Workers, OnlyCancelled(w), MetaStep(w) PROVE EndsWell(w)
  <1>1. T(w) \in Tasks /\ UNCHANGED stopping /\ wk \in [Workers -> Locals]
    BY TypeParts, AtType DEF MetaStep, MetaBegin, MetaWrite, MetaFinish, MetaClean, Elsewhere, process, Stages, WkType
  <1>2. Rec(w) \in TaskRecords /\ \A rec : SetTask(w, rec) => task'[T(w)] = rec
    BY <1>1, StatusOf
  <1>3. {"failed", "completed"} \subseteq Status
    BY DEF Status, Terminal
  <1>4. CASE MetaBegin(w)
    <2>1. /\ At(w, "meta") /\ UNCHANGED task /\ wk'[w].task = T(w)
          /\ \/ wk'[w].pc \in {"finalize", "write"}
             \/ wk'[w].pc = "wrote" /\ CtxDone(w)
      BY <1>4, PcOf DEF MetaBegin, CtxDone
    <2> QED
      BY <1>1, <1>2, <2>1, GoesOnWell DEF At, Working, Rec
  <1>5. CASE MetaWrite(w)
    <2>1. PICK r \in {"ok", "error", "cancelled"} :
            /\ wk' = [wk EXCEPT ![w].pc = "wrote", ![w].result = r]
            /\ r = "cancelled" => CtxDone(w)
      BY <1>5 DEF MetaWrite
    <2>2. wk'[w].pc = "wrote" /\ wk'[w].task = T(w)
      BY <2>1, PcOf
    <2>0. wk'[w].result = r
      BY <1>1, <2>1 DEF Locals
    <2>3. At(w, "write") /\ UNCHANGED task
      BY <1>5 DEF MetaWrite
    <2> QED
      BY <1>1, <1>2, <2>0, <2>1, <2>2, <2>3, GoesOnWell DEF At, Working, Rec
  <1>6. CASE MetaFinish(w)
    <2> DEFINE r == wk[w].result
               own == Recorded(Rec(w), r)
               fin == IF r = "cancelled" \/ CtxDone(w) THEN ResolveCancelled(own)
                      ELSE Settled(own, IF r = "ok" THEN "completed" ELSE "failed")
               gone == WrittenPaths({T(w)}, [task EXCEPT ![T(w)] = fin])
               d    == IF fin.status = "cancelled" THEN gone ELSE {}
    <2>1. own \in TaskRecords /\ own.status = Rec(w).status
      BY <1>2 DEF Recorded, TaskRecords
    <2>2. /\ SetTask(w, fin) /\ wk[w].pc = "wrote"
          /\ wk' = [wk EXCEPT ![w].pc = "metaClean", ![w].result = None, ![w].doomed = d]
      BY <1>6 DEF MetaFinish, At
    <2>3. r = "cancelled" \/ CtxDone(w) => stopping \/ Rec(w).status = "cancelled"
      BY <2>2 DEF OnlyCancelled, CtxDone
    <2>4. fin \in TaskRecords
      <3> HIDE DEF own, r
      <3> QED
        BY <1>3, <2>1, ResolveType, SettledType
    <2>5. fin.status = "cancelled" => Rec(w).status = "cancelled"
      <3>1. CASE r = "cancelled" \/ CtxDone(w)
        <4>1. fin = ResolveCancelled(own)
          BY <3>1
        <4>2. fin.status \in {own.status, IF stopping THEN "queued" ELSE "cancelled"}
          <5> HIDE DEF own
          <5> QED
            BY <1>3, <2>1, <4>1, SettledFiles
        <4> QED
          BY <2>1, <2>3, <3>1, <4>2
      <3>2. CASE ~(r = "cancelled" \/ CtxDone(w))
        <4>1. fin = Settled(own, IF r = "ok" THEN "completed" ELSE "failed")
          BY <3>2
        <4>2. fin.status \in {own.status, IF r = "ok" THEN "completed" ELSE "failed"}
          <5> HIDE DEF own, r
          <5> QED
            BY <1>3, <2>1, <4>1, SettledFiles
        <4> QED
          BY <2>1, <4>2
      <3> QED
        BY <3>1, <3>2
    <2> HIDE DEF fin, d
    <2>6. wk'[w].pc = "metaClean" /\ task'[T(w)] = fin
      BY <1>2, <2>2, PcOf
    <2> QED
      BY <2>4, <2>5, <2>6, EndsOffWell DEF Working
  <1>7. CASE MetaClean(w)
    <2>1. wk'[w].pc = "finalize" /\ UNCHANGED task
      BY <1>7, PcOf DEF MetaClean
    <2> QED
      BY <1>2, <2>1, EndsOffWell DEF Working, Rec
  <1> QED
    BY <1>4, <1>5, <1>6, <1>7 DEF MetaStep

LEMMA WorkerEndsWell ==
  ASSUME TypeOK, NEW w \in Workers, T(w) \in Tasks, OnlyCancelled(w), WorkerStep(w), ~Lease(w)
  PROVE  EndsWell(w)
  <1>1. CASE QueueStep(w)
    <2>1. UNCHANGED task /\ Rec(w) \in TaskRecords
      BY <1>1, WorkerWrites, StatusOf
    <2>2. CASE AnnounceStart(w)
      <3>1. At(w, "leased") /\ wk' = [wk EXCEPT ![w].pc = "reuse", ![w].news = None] /\ UNCHANGED stopping
        BY <2>2 DEF AnnounceStart, process
      <3>2. wk'[w].pc = "reuse" /\ wk'[w].task = T(w)
        BY <3>1, PcOf
      <3> QED
        BY <2>1, <3>1, <3>2, GoesOnWell DEF At, Working, Rec
    <2>3. CASE FinalizeTask(w) \/ WorkerExit(w)
      <3>1. wk'[w].pc \in {"aggregate", "exited"}
        BY <2>3, PcOf DEF FinalizeTask, WorkerExit
      <3> QED
        BY <2>1, <3>1, EndsOffWell DEF Working, Rec
    <2>4. CASE FinalizeJob(w) \/ FinishTask(w)
      <3>1. \/ wk' = [wk EXCEPT ![w] = IdleWorker]
            \/ \E n, d : wk' = [wk EXCEPT ![w] = [IdleWorker EXCEPT !.pc = "settle", !.task = T(w),
                                                                    !.news = n, !.doomed = d]]
        BY <2>4 DEF FinalizeJob, FinishTask
      <3>0. wk \in [Workers -> Locals]
        BY DEF TypeOK
      <3>2. wk'[w].pc \in {"idle", "settle"}
        <4>1. CASE wk' = [wk EXCEPT ![w] = IdleWorker]
          BY <3>0, <4>1 DEF IdleWorker
        <4>2. CASE wk' # [wk EXCEPT ![w] = IdleWorker]
          <5>1. PICK n, d : wk' = [wk EXCEPT ![w] = [IdleWorker EXCEPT !.pc = "settle", !.task = T(w),
                                                                       !.news = n, !.doomed = d]]
            BY <3>1, <4>2
          <5>2. wk'[w] = [IdleWorker EXCEPT !.pc = "settle", !.task = T(w), !.news = n, !.doomed = d]
            BY <3>0, <5>1
          <5> QED
            BY <5>2 DEF IdleWorker
        <4> QED
          BY <4>1, <4>2
      <3> QED
        BY <2>1, <3>2, EndsOffWell DEF Working, Rec
    <2> QED
      BY <1>1, <2>2, <2>3, <2>4 DEF QueueStep
  <1> QED
    BY <1>1, ImageEndsWell, UgoiraEndsWell, MetaEndsWell DEF WorkerStep

-----------------------------------------------------------------------------
(* EndInv.                                                                 *)

LEMMA SavedTogether == ASSUME Persist, Together(index, task)' PROVE Together(store.jobs, store.task)'
  <1>1. store'.jobs = index'
    BY SavedJobs
  <1>2. \A t \in Tasks : JobOf[t] \in index' => store'.task[t] = task'[t]
    BY Saved
  <1> QED
    BY <1>1, <1>2 DEF Together

\* A job that has failed or was cancelled has no open task.
LEMMA EndedAggregate ==
  ASSUME NEW js, NEW tk \in [Tasks -> TaskRecords], Together(js, tk), NEW t \in Tasks, JobOf[t] \in js,
         Aggregate(tk, JobOf[t]) \in {"failed", "cancelled"}
  PROVE  tk[t].status \in Terminal
  <1>1. t \in TasksOf(JobOf[t]) /\ tk[t].status \in Status
    BY DEF TasksOf, TaskRecords
  <1>2. CASE Has(tk, JobOf[t], "cancelled")
    <2>1. PICK u \in TasksOf(JobOf[t]) : tk[u].status = "cancelled"
      BY <1>2 DEF Has
    <2> QED
      BY <2>1 DEF Together, TasksOf
  <1>3. CASE ~Has(tk, JobOf[t], "cancelled")
    <2>1. ~Has(tk, JobOf[t], "running") /\ ~Has(tk, JobOf[t], "queued")
      BY <1>1, <1>3 DEF Aggregate
    <2> QED
      BY <1>1, <2>1 DEF Has, Status
  <1> QED
    BY <1>2, <1>3

LEMMA EndLease ==
  ASSUME EndInv, PlaceInv, OnceInv, TypeOK, NEW w \in Workers, Lease(w) PROVE EndInv'
  <1>1. CASE UNCHANGED <<jobStatus, task, wk>>
    <2>1. UNCHANGED <<index, store, stopping>>
      BY DEF Lease, process
    <2> QED
      BY <1>1, <2>1 DEF EndInv, OnlyCancelled, Rec, T, CtxDone, Together, EndedJobs, Ended
  <1>2. CASE ~UNCHANGED <<jobStatus, task, wk>>
    <2> DEFINE x == Head(queue)
    <2>1. queue \in Seq(Tasks) /\ queue # <<>>
      BY DEF TypeOK, Lease
    <2>2. x \in Tasks
      BY <2>1, HeadTailProperties
    <2>3. /\ task[x].status \notin Terminal
          /\ task' = [task EXCEPT ![x].status = "running"]
          /\ jobStatus' = IF JobOf[x] \in index THEN [jobStatus EXCEPT ![JobOf[x]] = "running"] ELSE jobStatus
          /\ \E n : wk' = [wk EXCEPT ![w] = [IdleWorker EXCEPT !.pc = "leased", !.task = x, !.news = n]]
          /\ UNCHANGED <<index, store, stopping>>
      BY <1>2 DEF Lease, process
    <2>4. \A v \in Workers : wk[v].task # x
      <3>1. InQueue(x)
        BY <2>1, HeadTailProperties, LenProperties DEF InQueue
      <3> QED
        BY <2>2, <3>1 DEF OnceInv, Apart, Carries
    <2> HIDE DEF x
    <2>5. /\ task'[x].status = "running" /\ \A t \in Tasks : t # x => task'[t] = task[t]
          /\ wk'[w].pc = "leased" /\ wk'[w].task = x /\ \A v \in Workers : v # w => wk'[v] = wk[v]
          /\ jobStatus' \in [Jobs -> Status]
          /\ \A j \in Jobs : jobStatus'[j] = jobStatus[j] \/ jobStatus'[j] = "running"
          /\ JobOf[x] \in index => jobStatus'[JobOf[x]] = "running"
      <3>1. /\ task'[x].status = "running" /\ \A t \in Tasks : t # x => task'[t] = task[t]
        BY <2>2, <2>3 DEF TypeOK, TaskRecords
      <3>2. /\ wk'[w].pc = "leased" /\ wk'[w].task = x /\ \A v \in Workers : v # w => wk'[v] = wk[v]
        BY <2>2, <2>3 DEF TypeOK, IdleWorker
      <3>3. /\ jobStatus' \in [Jobs -> Status]
            /\ \A j \in Jobs : jobStatus'[j] = jobStatus[j] \/ jobStatus'[j] = "running"
            /\ JobOf[x] \in index => jobStatus'[JobOf[x]] = "running"
        BY <2>3 DEF TypeOK, Status
      <3> QED
        BY <3>1, <3>2, <3>3
    <2>6. \A v \in Workers : wk'[v].task \in Tasks => OnlyCancelled(v)'
      BY <2>2, <2>3, <2>4, <2>5 DEF EndInv, OnlyCancelled, Rec, T, CtxDone, Terminal
    <2>7. Together(index, task)' /\ Together(store.jobs, store.task)'
      BY <2>2, <2>3, <2>5 DEF EndInv, Together, Terminal
    <2>8. EndedJobs'
      BY <2>2, <2>3, <2>5, PoolAssumption DEF EndInv, EndedJobs, Ended
    <2> QED
      BY <2>6, <2>7, <2>8 DEF EndInv
  <1> QED
    BY <1>1, <1>2

LEMMA EndWorker ==
  ASSUME EndInv, OnceInv, TypeOK, NEW w \in Workers, WorkerStep(w), ~Lease(w) PROVE EndInv'
  <1>1. UNCHANGED <<stopping, index>> /\ SettledKept /\ (UNCHANGED store \/ Persist)
    BY WorkerIsCalm, WorkerNews DEF CalmStep
  <1>2. \A v \in Workers : v # w => wk'[v] = wk[v] /\ (T(v) \in Tasks => T(v) # T(w))
    BY WorkerKeeps DEF Keeps, OnceInv, WorkerOnce, Carries, T
  <1>3. \A t \in Tasks : t # T(w) => task'[t] = task[t]
    BY WorkerWrites
  <1>4. T(w) \in Tasks => EndsWell(w)
    BY WorkerEndsWell DEF EndInv, T
  <1>5. wk'[w].task \in Tasks => wk'[w].task = T(w)
    BY WorkerKeeps, PoolAssumption DEF Keeps, T
  <1>6. \A v \in Workers : wk'[v].task \in Tasks => OnlyCancelled(v)'
    <2> SUFFICES ASSUME NEW v \in Workers, v # w, wk'[v].task \in Tasks PROVE OnlyCancelled(v)'
      BY <1>4, <1>5 DEF EndsWell
    <2>1. wk'[v] = wk[v] /\ task'[T(v)] = task[T(v)]
      BY <1>2, <1>3 DEF T
    <2> QED
      BY <1>1, <2>1 DEF EndInv, OnlyCancelled, Rec, T, CtxDone
  <1>7. \A t \in Tasks : /\ task'[t].status = "cancelled" => task[t].status = "cancelled"
                         /\ task[t].status \in Terminal => task'[t].status \in Terminal
    BY <1>1, <1>3, <1>4 DEF EndsWell, Rec, SettledKept, SettledInMemory
  <1>8. Together(index, task)'
    BY <1>1, <1>7 DEF EndInv, Together
  <1>9. Together(store.jobs, store.task)'
    BY <1>1, <1>8, SavedTogether DEF EndInv, Together
  <1>10. EndedJobs'
    <2> SUFFICES ASSUME NEW t \in Tasks, JobOf[t] \in index, jobStatus'[JobOf[t]] \in {"failed", "cancelled"}
                 PROVE  task[t].status \in Terminal
      BY <1>1, <1>7 DEF EndedJobs, Ended
    <2>1. CASE jobStatus'[JobOf[t]] = jobStatus[JobOf[t]]
      BY <2>1 DEF EndInv, EndedJobs, Ended
    <2>2. CASE jobStatus'[JobOf[t]] # jobStatus[JobOf[t]]
      <3>1. FinalizeJob(w)
        BY <2>2, WorkerHolds
      <3>2. jobStatus' = [jobStatus EXCEPT ![J(w)] = Aggregate(task, J(w))]
        BY <3>1 DEF FinalizeJob
      <3>3. JobOf[t] = J(w) /\ jobStatus'[JobOf[t]] = Aggregate(task, JobOf[t])
        BY <2>2, <3>2, PoolAssumption DEF TypeOK
      <3>4. task \in [Tasks -> TaskRecords]
        BY DEF TypeOK
      <3> QED
        BY <3>3, <3>4, EndedAggregate DEF EndInv
    <2> QED
      BY <2>1, <2>2
  <1> QED
    BY <1>6, <1>8, <1>9, <1>10 DEF EndInv

\* A step of nobody that starts, ends or takes up a task.
LEMMA EndRest ==
  ASSUME EndInv, UNCHANGED <<jobStatus, wk>>, stopping => stopping',
         \A t \in Tasks : task'[t].status = task[t].status,
         \A t \in Tasks : JobOf[t] \in index' =>
           JobOf[t] \in index \/ (task[t].status = "queued" /\ jobStatus[JobOf[t]] = "queued"),
         UNCHANGED store \/ Persist
  PROVE  EndInv'
  <1>1. \A w \in Workers : wk'[w].task \in Tasks => OnlyCancelled(w)'
    BY DEF EndInv, OnlyCancelled, Rec, T, CtxDone
  <1>2. Together(index, task)'
    BY DEF EndInv, Together
  <1>3. Together(store.jobs, store.task)'
    BY <1>2, SavedTogether DEF EndInv, Together
  <1>4. EndedJobs'
    BY DEF EndInv, EndedJobs, Ended
  <1> QED
    BY <1>1, <1>2, <1>3, <1>4 DEF EndInv

LEMMA EndCancel ==
  ASSUME EndInv, TypeOK, NEW j \in Jobs, CancelLock(j) PROVE EndInv'
  <1> DEFINE hit == {t \in TasksOf(j) : task[t].status \notin Terminal}
             tk  == [t \in Tasks |-> IF t \in hit THEN Settled(task[t], "cancelled") ELSE task[t]]
  <1>1. /\ task' = tk /\ jobStatus' = [jobStatus EXCEPT ![j] = Aggregate(tk, j)]
        /\ UNCHANGED <<stopping, index, wk, store>>
    BY DEF CancelLock, process
  <1>2. \A t \in Tasks : IF JobOf[t] = j /\ task[t].status \notin Terminal
                         THEN tk[t].status = "cancelled" ELSE tk[t] = task[t]
    BY DEF TasksOf, Settled, TypeOK, TaskRecords
  <1> HIDE DEF tk
  <1>3. \A t \in Tasks : JobOf[t] = j => task'[t].status \in Terminal
    BY <1>1, <1>2 DEF Terminal
  <1>4. \A t \in Tasks : JobOf[t] # j => task'[t] = task[t]
    BY <1>1, <1>2
  <1>5. \A t \in Tasks : task'[t] = task[t] \/ (task'[t].status = "cancelled" /\ task[t].status \notin Terminal)
    BY <1>1, <1>2
  <1>6. \A w \in Workers : wk'[w].task \in Tasks => OnlyCancelled(w)'
    BY <1>1, <1>5 DEF EndInv, OnlyCancelled, Rec, T, CtxDone, Terminal
  <1>7. Together(index, task)' /\ Together(store.jobs, store.task)'
    BY <1>1, <1>3, <1>4 DEF EndInv, Together
  <1>8. EndedJobs'
    <2>1. \A k \in Jobs : k # j => jobStatus'[k] = jobStatus[k]
      BY <1>1 DEF TypeOK
    <2> QED
      BY <1>1, <1>3, <1>4, <2>1, PoolAssumption DEF EndInv, EndedJobs, Ended
  <1> QED
    BY <1>6, <1>7, <1>8 DEF EndInv

LEMMA EndProcess ==
  ASSUME EndInv, OnceInv, TypeOK, Shutdown \/ Crash \/ Boot PROVE EndInv'
  <1>1. CASE Shutdown \/ Crash
    <2>1. index' = {} /\ \A w \in Workers : wk'[w].task = None
      BY <1>1 DEF Shutdown, Crash, Gone, IdleWorker
    <2>2. Together(store.jobs, store.task)'
      <3>1. CASE Crash
        BY <3>1 DEF Crash, EndInv, Together
      <3>2. CASE Shutdown
        BY <3>2 DEF Shutdown, Snapshot, EndInv, Together
      <3> QED
        BY <1>1, <3>1, <3>2
    <2> QED
      BY <2>1, <2>2, PoolAssumption DEF EndInv, Together, EndedJobs
  <1>2. CASE Boot
    <2> DEFINE loaded == [t \in Tasks |-> Loaded(t)]
               known  == {t \in Tasks : JobOf[t] \in store.jobs}
               todo   == {t \in known : loaded[t].status \notin Terminal}
               moved  == {t \in todo : ~loaded[t].wrote /\ ~loaded[t].wroteMeta}
    <2>1. /\ ~up /\ index' = store.jobs /\ UNCHANGED wk /\ Persist
          /\ jobStatus' = [j \in Jobs |-> IF j \in store.jobs THEN Aggregate(loaded, j) ELSE "queued"]
      BY <1>2 DEF Boot
    <2>2. PICK pick : task' = [t \in Tasks |-> IF t \in moved THEN Moved(loaded[t], pick[t]) ELSE loaded[t]]
      BY <1>2 DEF Boot
    <2>3. \A t \in Tasks : /\ loaded[t] \in TaskRecords
                           /\ loaded[t].status = IF store.task[t].status = "running" THEN "queued"
                                                 ELSE store.task[t].status
      <3>1. \A t \in Tasks : loaded[t] = Loaded(t) /\ store.task[t] \in TaskRecords
        BY DEF TypeOK
      <3> HIDE DEF loaded
      <3> QED
        BY <3>1 DEF Loaded, TaskRecords, Status
    <2>4. loaded \in [Tasks -> TaskRecords]
      <3>1. loaded = [t \in Tasks |-> loaded[t]]
        OBVIOUS
      <3> HIDE DEF loaded
      <3> QED
        BY <2>3, <3>1
    <2> HIDE DEF loaded, moved
    <2>5. \A t \in Tasks : task'[t].status = loaded[t].status
      <3>1. \A n : \A t \in Tasks : Moved(loaded[t], n).status = loaded[t].status
        BY <2>3 DEF TaskRecords, Moved
      <3> QED
        BY <2>2, <3>1
    <2>6. Together(store.jobs, loaded)
      BY <2>3 DEF EndInv, Together, Terminal
    <2>7. Together(index, task)'
      BY <2>1, <2>5, <2>6 DEF Together
    <2>8. Together(store.jobs, store.task)'
      BY <2>1, <2>7, SavedTogether
    <2>9. EndedJobs'
      BY <2>1, <2>4, <2>5, <2>6, EndedAggregate, PoolAssumption DEF EndedJobs, Ended
    <2>10. \A w \in Workers : wk'[w].task \notin Tasks
      BY <2>1 DEF OnceInv, DownIsIdle, Nowhere, Carries
    <2> QED
      BY <2>7, <2>8, <2>9, <2>10 DEF EndInv
  <1> QED
    BY <1>1, <1>2

LEMMA EndInit == Init => EndInv
  BY PoolAssumption DEF Init, IdleWorker, EndInv, Together, EndedJobs

LEMMA EndStep == EndInv /\ PlaceInv /\ OnceInv /\ SettleInv /\ [Next]_vars => EndInv'
  <1> SUFFICES ASSUME EndInv, PlaceInv, OnceInv, SettleInv, [Next]_vars PROVE EndInv'
    OBVIOUS
  <1>1. TypeOK
    BY DEF SettleInv
  <1>2. CASE \E j \in Jobs : SubmitInsert(j)
    <2>1. PICK j \in Jobs : SubmitInsert(j)
      BY <1>2
    <2>2. /\ UNCHANGED <<stopping, jobStatus, wk, store>>
          /\ index' = index \cup {j} /\ submit[j] = "new"
      BY <2>1 DEF SubmitInsert, process
    <2>3. jobStatus[j] = "queued" /\ \A t \in Tasks : JobOf[t] = j => task[t].status = "queued"
      BY <2>2 DEF PlaceInv, Untold
    <2>4. \A t \in Tasks : task'[t].status = task[t].status
      <3>1. PICK pick : task' = [t \in Tasks |-> IF t \in TasksOf(j) THEN Moved(task[t], pick[t]) ELSE task[t]]
        BY <2>1 DEF SubmitInsert
      <3>2. \A n : \A t \in Tasks : Moved(task[t], n).status = task[t].status
        BY <1>1 DEF TypeOK, TaskRecords, Moved
      <3> QED
        BY <3>1, <3>2
    <2> QED
      BY <2>2, <2>3, <2>4, EndRest
  <1>3. CASE \E j \in Jobs : CancelLock(j)
    BY <1>1, <1>3, EndCancel
  <1>4. CASE \E w \in Workers : WorkerStep(w)
    BY <1>1, <1>4, EndLease, EndWorker
  <1>5. CASE Shutdown \/ Crash \/ Boot
    BY <1>1, <1>5, EndProcess
  <1>6. CASE \/ \E j \in Jobs : SubmitFinish(j) \/ CancelPersist(j) \/ CancelFinish(j)
             \/ \E js : Drop(js) \/ RemoveFinish(js)
             \/ SenderStep \/ Stop \/ UserStep \/ Rest \/ UNCHANGED vars
    <2>1. UNCHANGED <<jobStatus, task, wk>> /\ index' \subseteq index
      BY <1>6 DEF SubmitFinish, CancelPersist, CancelFinish, Drop, RemoveFinish, SenderStep, Send, SendAbort,
         Stop, UserStep, UserDeletes, UserPlaces, Rest, vars, memory
    <2>0. stopping => stopping'
      BY <1>6 DEF SubmitFinish, CancelPersist, CancelFinish, Drop, RemoveFinish, SenderStep, Send, SendAbort,
         Stop, UserStep, UserDeletes, UserPlaces, Rest, vars, process
    <2>2. UNCHANGED store \/ Persist
      BY <1>6 DEF SubmitFinish, CancelPersist, CancelFinish, Drop, RemoveFinish, SenderStep, Send, SendAbort,
         Stop, UserStep, UserDeletes, UserPlaces, Rest, vars
    <2> QED
      BY <2>0, <2>1, <2>2, EndRest
  <1> QED
    BY <1>2, <1>3, <1>4, <1>5, <1>6
    DEF Next, HandlerStep, HandlerEnd, ProcessStep, Remove, RemoveTerminal

\* How tasks and jobs end, in every reachable state.
THEOREM EndsCorrect == Spec => []EndInv
  BY EndInit, EndStep, PlaceCorrect, OnceCorrect, SettleCorrect, PTL DEF Spec

-----------------------------------------------------------------------------
(* What a step of a worker does to its task's files.                       *)

\* A new file is in the worker's making, every old one stays with whom it was, and the
\* worker that was going to delete it still is.
FilesStep(w) ==
  /\ wk'[w].task = T(w)
  /\ \A p \in DOMAIN disk' :
       (p \in DOMAIN disk /\ disk'[p] = disk[p]) \/ (disk'[p] = T(w) /\ Making(w, p)')
  /\ \A p : Labelled(p, T(w)) /\ Labelled(p, T(w))' /\ Tracked(p) =>
       /\ Owns(T(w), Rec(w), p) \/ Making(w, p) => Owns(T(w), task'[T(w)], p) \/ Making(w, p)'
       /\ Rec(w).status \in Terminal /\ Deletes(w, p) => Deletes(w, p)'
  /\ Converting(w)'
  /\ used.stops = 0 /\ task'[T(w)].wroteMeta => task'[T(w)].status \in Terminal /\ wk'[w].pc \notin Working

\* What holds of a worker with a task as it takes a step.
Sound(w) ==
  /\ TypeOK /\ T(w) \in Tasks /\ Undisturbed
  /\ Converting(w) /\ FirstSidecar /\ OnlyCancelled(w) /\ EndsAreUsed

\* Neither a sidecar nor its settling is undone before the first stop.
LEMMA SidecarKept ==
  ASSUME NEW w \in Workers, Sound(w), task'[T(w)].wroteMeta = Rec(w).wroteMeta,
         Rec(w).status \in Terminal => task'[T(w)].status \in Terminal,
         wk'[w].pc \in Working => wk[w].pc \in Working
  PROVE  used.stops = 0 /\ task'[T(w)].wroteMeta => task'[T(w)].status \in Terminal /\ wk'[w].pc \notin Working
  BY DEF Sound, FirstSidecar, Carries, Rec, T

\* A step that leaves the files alone, of a worker that has none in the making.
LEMMA QuietFiles ==
  ASSUME NEW w \in Workers, Sound(w), UNCHANGED disk, wk'[w].task = T(w),
         task'[T(w)] \in TaskRecords, SameFiles(task'[T(w)], Rec(w)),
         Rec(w).status \in Terminal => task'[T(w)].status \in Terminal,
         wk[w].pc \in {"leased", "reuse", "fetch", "received", "backoff", "convert", "encode", "meta", "finalize"},
         wk'[w].pc \in Working => wk[w].pc \in Working,
         wk'[w].pc \in {"convert", "encode"} => Rec(w).wrote,
         wk'[w].pc = "encode" => Rec(w).ext # MediaExt[J(w)],
         wk'[w].pc \notin {"encoding", "encoded"}
  PROVE  FilesStep(w)
  <1>1. T(w) \in Tasks /\ Rec(w) \in TaskRecords /\ T(w)' = T(w) /\ Rec(w)' = task'[T(w)]
    BY StatusOf DEF Sound, Rec, T
  <1>2. \A p : ~Making(w, p) /\ ~Deletes(w, p)
    BY DEF Making, Deletes
  <1>3. \A p : Owns(T(w), Rec(w), p) <=> Owns(T(w), task'[T(w)], p)
    BY <1>1, SameOwner
  <1>4. Converting(w)'
    BY <1>1 DEF Converting, SameFiles, J
  <1>5. used.stops = 0 /\ task'[T(w)].wroteMeta => task'[T(w)].status \in Terminal /\ wk'[w].pc \notin Working
    BY SidecarKept DEF SameFiles
  <1> QED
    BY <1>2, <1>3, <1>4, <1>5 DEF FilesStep

LEMMA ImageFiles ==
  ASSUME NEW w \in Workers, Sound(w), ImageStep(w) PROVE FilesStep(w)
  <1>1. TypeOK /\ T(w) \in Tasks /\ SettledKept
    BY WorkerIsCalm DEF Sound, WorkerStep, CalmStep
  <1>2. Rec(w) \in TaskRecords /\ \A rec : SetTask(w, rec) => task'[T(w)] = rec
    BY <1>1, StatusOf
  <1>3. {"failed", "completed"} \subseteq Status
    BY DEF Status, Terminal
  <1>4. Rec(w).status \in Terminal => task'[T(w)].status \in Terminal
    BY <1>1 DEF SettledKept, SettledInMemory, Rec
  <1>5. wk'[w].task = T(w)
    BY <1>1, WorkerGoesOn DEF GoesOn
  <1>6. T(w)' = T(w) /\ Rec(w)' = task'[T(w)]
    BY <1>5 DEF T, Rec
  <1>7. CASE ReuseNothing(w)
    <2>1. At(w, "reuse") /\ wk'[w].pc = "fetch" /\ UNCHANGED disk
      BY <1>1, <1>7, PcOf DEF ReuseNothing
    <2>2. CASE UNCHANGED task
      BY <1>2, <1>4, <1>5, <2>1, <2>2, QuietFiles DEF At, Working, SameFiles, Rec
    <2>3. CASE ~UNCHANGED task
      <3> DEFINE new == [Rec(w) EXCEPT !.wrote = FALSE, !.ext = FirstExt(J(w))]
      <3>1. FilePath(T(w), Rec(w)) \notin DOMAIN disk /\ task'[T(w)] = new
        BY <1>2, <1>7, <2>3 DEF ReuseNothing
      <3>2. FirstExt(J(w)) \in Exts
        BY <1>1, PoolAssumption DEF FirstExt, Exts, J
      <3>3. /\ new \in TaskRecords /\ new.suffix = Rec(w).suffix /\ new.wroteMeta = Rec(w).wroteMeta
        BY <1>2, <3>2 DEF TaskRecords
      <3> HIDE DEF new
      <3>4. \A p : ~Making(w, p) /\ ~Deletes(w, p)
        BY <2>1 DEF Making, Deletes, At
      <3>5. \A p \in DOMAIN disk : Owns(T(w), Rec(w), p) => Owns(T(w), new, p)
        BY <1>1, <1>2, <3>1, <3>3, PathFacts DEF Owns
      <3>6. Converting(w)'
        BY <1>6, <2>1 DEF Converting
      <3>7. used.stops = 0 /\ task'[T(w)].wroteMeta => task'[T(w)].status \in Terminal /\ wk'[w].pc \notin Working
        BY <1>4, <2>1, <3>1, <3>3, SidecarKept DEF At, Working
      <3> QED
        BY <1>5, <2>1, <3>1, <3>4, <3>5, <3>6, <3>7 DEF FilesStep, Labelled
    <2> QED
      BY <2>2, <2>3
  <1>8. CASE ReuseOwned(w) \/ FetchBody(w) \/ FetchRetry(w) \/ Backoff(w)
    <2>1. /\ \E l \in {"reuse", "fetch", "received", "backoff"} : At(w, l)
          /\ wk'[w].pc \in {"meta", "convert", "received", "backoff", "fetch"}
          /\ wk'[w].pc = "convert" => Rec(w).wrote
      <3>1. CASE ReuseOwned(w)
        <4>1. wk'[w].pc = AfterMedia(w) /\ At(w, "reuse") /\ Rec(w).wrote
          BY <1>1, <3>1, PcOf DEF ReuseOwned
        <4> QED
          BY <4>1 DEF AfterMedia
      <3>2. CASE FetchBody(w) \/ FetchRetry(w) \/ Backoff(w)
        <4>1. wk'[w].pc \in {"received", "backoff", "fetch"}
          BY <1>1, <3>2, PcOf DEF FetchBody, FetchRetry, Backoff
        <4> QED
          BY <3>2, <4>1 DEF FetchBody, FetchRetry, Backoff
      <3> QED
        BY <1>8, <3>1, <3>2
    <2>2. UNCHANGED <<task, disk>>
      BY <1>8 DEF ReuseOwned, FetchBody, FetchRetry, Backoff
    <2> QED
      BY <1>2, <1>4, <1>5, <2>1, <2>2, QuietFiles DEF At, Working, SameFiles, Rec
  <1>9. CASE FetchRename(w)
    <2>1. /\ At(w, "received") /\ disk' = Written(FilePath(T(w), Rec(w)), T(w))
          /\ UNCHANGED task /\ wk'[w].pc = "renamed"
      BY <1>1, <1>9, PcOf DEF FetchRename
    <2>2. \A p \in DOMAIN disk' :
            (p \in DOMAIN disk /\ disk'[p] = disk[p]) \/ (disk'[p] = T(w) /\ p = FilePath(T(w), Rec(w)))
      BY <2>1 DEF Written
    <2>3. Rec(w)' = Rec(w) /\ \A p : ~Making(w, p) /\ ~Deletes(w, p)
      BY <1>6, <2>1 DEF Making, Deletes, At, Rec
    <2>4. Converting(w)'
      BY <2>1 DEF Converting
    <2>5. used.stops = 0 /\ task'[T(w)].wroteMeta => task'[T(w)].status \in Terminal /\ wk'[w].pc \notin Working
      BY <1>4, <2>1, SidecarKept DEF At, Working, Rec
    <2>6. \A p : p = FilePath(T(w), Rec(w)) => Making(w, p)'
      BY <1>6, <2>1, <2>3 DEF Making
    <2> QED
      BY <1>5, <1>6, <2>2, <2>3, <2>4, <2>5, <2>6 DEF FilesStep
  <1>10. CASE ReuseFails(w) \/ FetchFail(w)
    <2>1. /\ wk'[w].pc = "finalize" /\ task'[T(w)] = Settled(Rec(w), "failed") /\ UNCHANGED disk
          /\ \E l \in {"reuse", "fetch", "received"} : At(w, l)
      BY <1>1, <1>2, <1>10, PcOf DEF ReuseFails, FetchFail
    <2>2. task'[T(w)] \in TaskRecords /\ SameFiles(task'[T(w)], Rec(w))
      BY <1>2, <1>3, <2>1, SettledFiles, SettledType
    <2> QED
      BY <1>4, <1>5, <2>1, <2>2, QuietFiles DEF At, Working
  <1>11. CASE Interrupted(w)
    <2>1. /\ wk'[w].pc = "finalize" /\ task'[T(w)] = ResolveCancelled(Rec(w)) /\ UNCHANGED disk
          /\ \E l \in {"fetch", "backoff", "encode"} : At(w, l)
      BY <1>1, <1>2, <1>11, PcOf DEF Interrupted
    <2>2. task'[T(w)] \in TaskRecords /\ SameFiles(task'[T(w)], Rec(w))
      BY <1>2, <1>3, <2>1, SettledFiles, ResolveType
    <2> QED
      BY <1>4, <1>5, <2>1, <2>2, QuietFiles DEF At, Working
  <1>12. CASE Commit(w)
    <2> DEFINE own == [Rec(w) EXCEPT !.wrote = TRUE]
    <2>1. /\ own \in TaskRecords /\ own.status = Rec(w).status /\ own.wrote
          /\ own.suffix = Rec(w).suffix /\ own.ext = Rec(w).ext /\ own.wroteMeta = Rec(w).wroteMeta
      BY <1>2 DEF TaskRecords
    <2>2. /\ At(w, "renamed") /\ UNCHANGED disk
          /\ Rec(w).status \in Terminal => Goto(w, "drop")
          /\ \/ SetTask(w, own) /\ Goto(w, "drop")
             \/ SetTask(w, own) /\ Goto(w, AfterMedia(w))
             \/ SetTask(w, Settled(own, "completed")) /\ ToEnd(w)
      BY <1>12, <2>1 DEF Commit
    <2> HIDE DEF own
    <2>3. /\ task'[T(w)] \in TaskRecords /\ SameFiles(task'[T(w)], own)
          /\ wk'[w].pc \in {"drop", "convert", "meta", "finalize"}
      <3>1. CASE SetTask(w, own) /\ (Goto(w, "drop") \/ Goto(w, AfterMedia(w)))
        BY <1>1, <1>2, <2>1, <3>1, PcOf DEF AfterMedia, SameFiles
      <3>2. CASE SetTask(w, Settled(own, "completed")) /\ ToEnd(w)
        <4>1. wk'[w].pc = "finalize" /\ task'[T(w)] = Settled(own, "completed")
          BY <1>1, <1>2, <3>2, PcOf
        <4> QED
          BY <1>3, <2>1, <4>1, SettledFiles, SettledType
      <3> QED
        BY <2>2, <3>1, <3>2
    <2>4. \A p : Owns(T(w), Rec(w), p) \/ Making(w, p) => Owns(T(w), task'[T(w)], p)
      <3>1. \A p : Owns(T(w), own, p) <=> Owns(T(w), task'[T(w)], p)
        BY <1>1, <2>1, <2>3, SameOwner
      <3>2. FilePath(T(w), own) = FilePath(T(w), Rec(w)) /\ MetaPath(T(w), own) = MetaPath(T(w), Rec(w))
        BY <1>1, <1>2, <2>1, PathFacts
      <3> QED
        BY <2>1, <2>2, <3>1, <3>2 DEF Owns, Making, At
    <2>5. \A p : Rec(w).status \in Terminal /\ Deletes(w, p) => Deletes(w, p)'
      <3> SUFFICES ASSUME Rec(w).status \in Terminal, NEW p, Deletes(w, p) PROVE Deletes(w, p)'
        OBVIOUS
      <3>1. wk'[w].pc = "drop" /\ p = FilePath(T(w), Rec(w))
        BY <1>1, <2>2, PcOf DEF Deletes, Making, At
      <3>2. FilePath(T(w), Rec(w)) = FilePath(T(w), task'[T(w)])
        BY <1>1, <1>2, <2>1, <2>3, PathFacts DEF SameFiles
      <3> QED
        BY <1>6, <3>1, <3>2 DEF Deletes
    <2>6. Converting(w)'
      BY <1>6, <2>1, <2>3 DEF Converting, SameFiles
    <2>7. used.stops = 0 /\ task'[T(w)].wroteMeta => task'[T(w)].status \in Terminal /\ wk'[w].pc \notin Working
      BY <1>4, <2>1, <2>2, <2>3, SidecarKept DEF At, Working, SameFiles
    <2> QED
      BY <1>5, <2>2, <2>4, <2>5, <2>6, <2>7 DEF FilesStep
  <1>13. CASE DropFile(w)
    <2>1. /\ At(w, "drop") /\ disk' = Without({FilePath(T(w), Rec(w))}) /\ UNCHANGED task /\ wk'[w].pc = "finalize"
      BY <1>1, <1>13, PcOf DEF DropFile
    <2>2. \A p \in DOMAIN disk' : p \in DOMAIN disk /\ disk'[p] = disk[p] /\ p # FilePath(T(w), Rec(w))
      BY <2>1 DEF Without
    <2>3. Rec(w)' = Rec(w) /\ \A p \in DOMAIN disk' : ~Making(w, p) /\ ~Deletes(w, p)
      BY <1>6, <2>1, <2>2 DEF Making, Deletes, At, Rec
    <2>4. Converting(w)'
      BY <2>1 DEF Converting
    <2>5. used.stops = 0 /\ task'[T(w)].wroteMeta => task'[T(w)].status \in Terminal /\ wk'[w].pc \notin Working
      BY <1>4, <2>1, SidecarKept DEF Working, Rec
    <2> QED
      BY <1>5, <1>6, <2>2, <2>3, <2>4, <2>5 DEF FilesStep, Labelled
  <1> QED
    BY <1>7, <1>8, <1>9, <1>10, <1>11, <1>12, <1>13 DEF ImageStep

LEMMA UgoiraFiles ==
  ASSUME NEW w \in Workers, Sound(w), UgoiraStep(w) PROVE FilesStep(w)
  <1>1. TypeOK /\ T(w) \in Tasks /\ SettledKept
    BY WorkerIsCalm DEF Sound, WorkerStep, CalmStep
  <1>2. Rec(w) \in TaskRecords /\ \A rec : SetTask(w, rec) => task'[T(w)] = rec
    BY <1>1, StatusOf
  <1>3. {"failed", "completed"} \subseteq Status
    BY DEF Status, Terminal
  <1>4. Rec(w).status \in Terminal => task'[T(w)].status \in Terminal
    BY <1>1 DEF SettledKept, SettledInMemory, Rec
  <1>5. wk'[w].task = T(w)
    BY <1>1, WorkerGoesOn DEF GoesOn
  <1>6. T(w)' = T(w) /\ Rec(w)' = task'[T(w)] /\ J(w)' = J(w)
    BY <1>5 DEF T, Rec, J
  <1>7. CASE ConvertBegin(w)
    <2>1. At(w, "convert") /\ UNCHANGED <<task, disk>>
      BY <1>7 DEF ConvertBegin
    <2>2. Rec(w).wrote
      BY <2>1 DEF Sound, Converting, At
    <2>3. wk'[w].pc \in {"finalize", "accept", "encode"} /\ (wk'[w].pc = "encode" => Rec(w).ext # MediaExt[J(w)])
      <3>1. CASE ToEnd(w)
        BY <1>1, <3>1, PcOf
      <3>2. CASE Goto(w, IF Rec(w).ext = MediaExt[J(w)] THEN "accept" ELSE "encode")
        <4>1. wk'[w].pc = IF Rec(w).ext = MediaExt[J(w)] THEN "accept" ELSE "encode"
          BY <1>1, <3>2, PcOf
        <4> QED
          BY <4>1
      <3> QED
        BY <1>7, <3>1, <3>2 DEF ConvertBegin
    <2> QED
      BY <1>2, <1>4, <1>5, <2>1, <2>2, <2>3, QuietFiles DEF At, Working, SameFiles, Rec
  <1>8. CASE DecodeFail(w)
    <2>1. /\ wk'[w].pc = "finalize" /\ task'[T(w)] = Settled(Rec(w), "failed") /\ UNCHANGED disk
          /\ At(w, "encode")
      BY <1>1, <1>2, <1>8, PcOf DEF DecodeFail
    <2>2. task'[T(w)] \in TaskRecords /\ SameFiles(task'[T(w)], Rec(w))
      BY <1>2, <1>3, <2>1, SettledFiles, SettledType
    <2> QED
      BY <1>4, <1>5, <2>1, <2>2, QuietFiles DEF At, Working
  <1>9. CASE EncodeCreate(w)
    <2>1. /\ At(w, "encode") /\ disk' = Written(FinalPath(T(w), Rec(w)), T(w))
          /\ UNCHANGED task /\ wk'[w].pc = "encoding"
      BY <1>1, <1>9, PcOf DEF EncodeCreate
    <2>2. \A p \in DOMAIN disk' :
            (p \in DOMAIN disk /\ disk'[p] = disk[p]) \/ (disk'[p] = T(w) /\ p = FinalPath(T(w), Rec(w)))
      BY <2>1 DEF Written
    <2>3. Rec(w)' = Rec(w) /\ \A p : ~Making(w, p) /\ ~Deletes(w, p)
      BY <1>6, <2>1 DEF Making, Deletes, At, Rec
    <2>4. Converting(w)'
      BY <1>6, <2>1, <2>3 DEF Sound, Converting, At
    <2>5. used.stops = 0 /\ task'[T(w)].wroteMeta => task'[T(w)].status \in Terminal /\ wk'[w].pc \notin Working
      BY <1>4, <2>1, SidecarKept DEF At, Working, Rec
    <2>6. \A p : p = FinalPath(T(w), Rec(w)) => Making(w, p)'
      BY <1>6, <2>1, <2>3 DEF Making
    <2> QED
      BY <1>5, <1>6, <2>2, <2>3, <2>4, <2>5, <2>6 DEF FilesStep
  <1>10. CASE EncodeAbort(w)
    <2>1. /\ At(w, "encoding") /\ disk' = Without({FinalPath(T(w), Rec(w))}) /\ wk'[w].pc = "finalize"
          /\ task'[T(w)] \in {Settled(Rec(w), "failed"), ResolveCancelled(Rec(w))}
      BY <1>1, <1>2, <1>10, PcOf DEF EncodeAbort
    <2>2. task'[T(w)] \in TaskRecords /\ SameFiles(task'[T(w)], Rec(w))
      BY <1>2, <1>3, <2>1, SettledFiles, SettledType, ResolveType
    <2>3. \A p \in DOMAIN disk' : p \in DOMAIN disk /\ disk'[p] = disk[p] /\ p # FinalPath(T(w), Rec(w))
      BY <2>1 DEF Without
    <2>4. \A p \in DOMAIN disk' : ~Making(w, p) /\ ~Deletes(w, p)
      BY <2>1, <2>3 DEF Making, Deletes, At
    <2>5. \A p : Owns(T(w), Rec(w), p) <=> Owns(T(w), task'[T(w)], p)
      BY <1>1, <1>2, <2>2, SameOwner
    <2>6. Converting(w)'
      BY <2>1 DEF Converting
    <2>7. used.stops = 0 /\ task'[T(w)].wroteMeta => task'[T(w)].status \in Terminal /\ wk'[w].pc \notin Working
      BY <1>4, <2>1, <2>2, SidecarKept DEF Working, SameFiles
    <2> QED
      BY <1>5, <2>3, <2>4, <2>5, <2>6, <2>7 DEF FilesStep, Labelled
  <1>11. CASE EncodeDone(w)
    <2>1. /\ At(w, "encoding") /\ ~CtxDone(w) /\ disk' = Without({FilePath(T(w), Rec(w))})
          /\ UNCHANGED task /\ wk'[w].pc = "encoded"
      BY <1>1, <1>11, PcOf DEF EncodeDone
    <2>2. \A p \in DOMAIN disk' : p \in DOMAIN disk /\ disk'[p] = disk[p] /\ p # FilePath(T(w), Rec(w))
      BY <2>1 DEF Without
    <2>3. Rec(w).status \notin Terminal
      BY <2>1 DEF Sound, OnlyCancelled, CtxDone, At, Working
    <2>4. Rec(w)' = Rec(w)
      BY <1>6, <2>1 DEF Rec
    <2>5. \A p : Making(w, p) => Making(w, p)'
      BY <1>6, <2>1, <2>4 DEF Making, At
    <2>6. Converting(w)'
      BY <1>6, <2>1, <2>2, <2>4 DEF Sound, Converting, Labelled, At
    <2>7. used.stops = 0 /\ task'[T(w)].wroteMeta => task'[T(w)].status \in Terminal /\ wk'[w].pc \notin Working
      BY <1>4, <2>1, SidecarKept DEF At, Working, Rec
    <2> QED
      BY <1>5, <1>6, <2>2, <2>3, <2>4, <2>5, <2>6, <2>7 DEF FilesStep
  <1>12. CASE EncodeSwap(w)
    <2> DEFINE new == [Rec(w) EXCEPT !.ext = MediaExt[J(w)]]
    <2>1. At(w, "encoded") /\ wk'[w].pc = "accept" /\ task'[T(w)] = new /\ UNCHANGED disk
      BY <1>1, <1>2, <1>12, PcOf DEF EncodeSwap
    <2>2. MediaExt[J(w)] \in Exts
      BY <1>1, PoolAssumption DEF Exts, J
    <2>3. /\ new \in TaskRecords /\ new.suffix = Rec(w).suffix /\ new.ext = MediaExt[J(w)]
          /\ new.wrote = Rec(w).wrote /\ new.wroteMeta = Rec(w).wroteMeta
      BY <1>2, <2>2 DEF TaskRecords
    <2> HIDE DEF new
    <2>4. FilePath(T(w), new) = FinalPath(T(w), Rec(w)) /\ MetaPath(T(w), new) = MetaPath(T(w), Rec(w))
      BY <1>1, <1>2, <2>3, PathFacts DEF J
    <2>5. Rec(w).wrote /\ ~Labelled(FilePath(T(w), Rec(w)), T(w))
      BY <2>1 DEF Sound, Converting, At
    <2>6. \A p : Making(w, p) \/ Deletes(w, p) => p = FilePath(T(w), new)
      BY <2>1, <2>4 DEF Making, Deletes, At
    <2>7. \A p : Labelled(p, T(w)) /\ (Owns(T(w), Rec(w), p) \/ Making(w, p)) => Owns(T(w), new, p)
      BY <2>3, <2>4, <2>5, <2>6 DEF Owns
    <2>8. \A p : Deletes(w, p) => Deletes(w, p)'
      BY <1>6, <2>1, <2>6 DEF Deletes
    <2>9. Converting(w)'
      BY <2>1 DEF Converting
    <2>10. used.stops = 0 /\ task'[T(w)].wroteMeta => task'[T(w)].status \in Terminal /\ wk'[w].pc \notin Working
      BY <1>4, <2>1, <2>3, SidecarKept DEF At, Working
    <2> QED
      BY <1>5, <2>1, <2>7, <2>8, <2>9, <2>10 DEF FilesStep
  <1>13. CASE Accept(w)
    <2>1. /\ At(w, "accept") /\ UNCHANGED disk
          /\ Rec(w).status \in Terminal => wk'[w].pc = "drop" /\ UNCHANGED task
          /\ \/ UNCHANGED task /\ wk'[w].pc \in {"drop", "meta"}
             \/ task'[T(w)] = Settled(Rec(w), "completed") /\ wk'[w].pc = "finalize"
      BY <1>1, <1>2, <1>13, PcOf DEF Accept
    <2>2. task'[T(w)] \in TaskRecords /\ SameFiles(task'[T(w)], Rec(w))
      <3>1. CASE UNCHANGED task
        BY <1>2, <3>1 DEF SameFiles, Rec
      <3>2. CASE task'[T(w)] = Settled(Rec(w), "completed")
        BY <1>2, <1>3, <3>2, SettledFiles, SettledType
      <3> QED
        BY <2>1, <3>1, <3>2
    <2>3. \A p : ~Making(w, p)
      BY <2>1 DEF Making, At
    <2>4. \A p : Owns(T(w), Rec(w), p) <=> Owns(T(w), task'[T(w)], p)
      BY <1>1, <1>2, <2>2, SameOwner
    <2>5. \A p : Rec(w).status \in Terminal /\ Deletes(w, p) => Deletes(w, p)'
      <3> SUFFICES ASSUME Rec(w).status \in Terminal, NEW p, Deletes(w, p) PROVE Deletes(w, p)'
        OBVIOUS
      <3>1. wk'[w].pc = "drop" /\ p = FilePath(T(w), Rec(w)) /\ Rec(w)' = Rec(w)
        BY <1>6, <2>1, <2>3 DEF Deletes, At, Rec
      <3> QED
        BY <1>6, <3>1 DEF Deletes
    <2>6. Converting(w)'
      BY <2>1 DEF Converting
    <2>7. used.stops = 0 /\ task'[T(w)].wroteMeta => task'[T(w)].status \in Terminal /\ wk'[w].pc \notin Working
      BY <1>4, <2>1, <2>2, SidecarKept DEF At, Working, SameFiles
    <2> QED
      BY <1>5, <2>1, <2>3, <2>4, <2>5, <2>6, <2>7 DEF FilesStep
  <1> QED
    BY <1>7, <1>8, <1>9, <1>10, <1>11, <1>12, <1>13 DEF UgoiraStep

LEMMA MetaFiles ==
  ASSUME NEW w \in Workers, Sound(w), MetaStep(w) PROVE FilesStep(w)
  <1>1. TypeOK /\ T(w) \in Tasks /\ SettledKept /\ wk \in [Workers -> Locals]
    BY WorkerIsCalm DEF Sound, WorkerStep, CalmStep, TypeOK
  <1>2. Rec(w) \in TaskRecords /\ \A rec : SetTask(w, rec) => task'[T(w)] = rec
    BY <1>1, StatusOf
  <1>3. {"failed", "completed"} \subseteq Status
    BY DEF Status, Terminal
  <1>4. Rec(w).status \in Terminal => task'[T(w)].status \in Terminal
    BY <1>1 DEF SettledKept, SettledInMemory, Rec
  <1>5. wk'[w].task = T(w)
    BY <1>1, WorkerGoesOn DEF GoesOn
  <1>6. T(w)' = T(w) /\ Rec(w)' = task'[T(w)]
    BY <1>5 DEF T, Rec
  <1>7. CASE MetaBegin(w)
    <2>1. At(w, "meta") /\ UNCHANGED <<task, disk>> /\ wk'[w].pc \in {"finalize", "write", "wrote"}
      BY <1>1, <1>7, PcOf DEF MetaBegin
    <2> QED
      BY <1>2, <1>4, <1>5, <2>1, QuietFiles DEF At, Working, SameFiles, Rec
  <1>8. CASE MetaWrite(w)
    <2> DEFINE m == MetaPath(T(w), Rec(w))
    <2>1. PICK r \in {"ok", "error", "cancelled"} :
            /\ wk' = [wk EXCEPT ![w].pc = "wrote", ![w].result = r]
            /\ (disk' = Written(m, T(w)) /\ r = "ok") \/ disk' = disk
      BY <1>8 DEF MetaWrite
    <2>2. /\ At(w, "write") /\ UNCHANGED task /\ wk'[w].pc = "wrote"
      BY <1>1, <1>8, <2>1, PcOf DEF MetaWrite
    <2>3. wk'[w].result = r
      BY <1>1, <2>1 DEF Locals
    <2>4. Rec(w)' = Rec(w) /\ \A p : ~Making(w, p) /\ ~Deletes(w, p)
      BY <1>6, <2>2 DEF Making, Deletes, At, Rec
    <2>5. \A p \in DOMAIN disk' : (p \in DOMAIN disk /\ disk'[p] = disk[p]) \/ (disk'[p] = T(w) /\ Making(w, p)')
      <3>1. CASE disk' = disk
        BY <3>1
      <3>2. CASE disk' = Written(m, T(w)) /\ r = "ok"
        <4>1. \A p \in DOMAIN disk' : (p \in DOMAIN disk /\ disk'[p] = disk[p]) \/ (disk'[p] = T(w) /\ p = m)
          BY <3>2 DEF Written
        <4>2. \A p : p = m => Making(w, p)'
          BY <1>6, <2>2, <2>3, <2>4, <3>2 DEF Making
        <4> QED
          BY <4>1, <4>2
      <3> QED
        BY <2>1, <3>1, <3>2
    <2>6. Converting(w)'
      BY <2>2 DEF Converting
    <2>7. used.stops = 0 /\ task'[T(w)].wroteMeta => task'[T(w)].status \in Terminal /\ wk'[w].pc \notin Working
      BY <1>4, <2>2, SidecarKept DEF At, Working, Rec
    <2> QED
      BY <1>5, <1>6, <2>4, <2>5, <2>6, <2>7 DEF FilesStep
  <1>9. CASE MetaFinish(w)
    <2> DEFINE r == wk[w].result
               own == Recorded(Rec(w), r)
               fin == IF r = "cancelled" \/ CtxDone(w) THEN ResolveCancelled(own)
                      ELSE Settled(own, IF r = "ok" THEN "completed" ELSE "failed")
               gone == WrittenPaths({T(w)}, [task EXCEPT ![T(w)] = fin])
               d    == IF fin.status = "cancelled" THEN gone ELSE {}
    <2>1. /\ own \in TaskRecords /\ own.status = Rec(w).status /\ own.suffix = Rec(w).suffix
          /\ own.ext = Rec(w).ext /\ own.wrote = Rec(w).wrote
          /\ own.wroteMeta = IF r = "cancelled" THEN Rec(w).wroteMeta ELSE r = "ok"
      BY <1>2 DEF Recorded, TaskRecords
    <2>2. /\ SetTask(w, fin) /\ wk[w].pc = "wrote" /\ UNCHANGED disk
          /\ wk' = [wk EXCEPT ![w].pc = "metaClean", ![w].result = None, ![w].doomed = d]
      BY <1>9 DEF MetaFinish, At
    <2>3. /\ r = "cancelled" => CtxDone(w)
          /\ Rec(w).status \in Terminal => Rec(w).status = "cancelled" /\ CtxDone(w)
      BY <2>2 DEF Sound, OnlyCancelled, CtxDone, Working
    <2>4. fin \in TaskRecords /\ SameFiles(fin, own)
      <3> HIDE DEF own, r
      <3> QED
        BY <1>3, <2>1, ResolveType, SettledType, SettledFiles
    <2>5. Rec(w).status \in Terminal => fin.status = "cancelled"
      <3> SUFFICES ASSUME Rec(w).status \in Terminal PROVE fin.status = "cancelled"
        OBVIOUS
      <3>1. fin = ResolveCancelled(own) /\ own.status = "cancelled"
        BY <2>1, <2>3
      <3> HIDE DEF own, fin
      <3> QED
        BY <3>1 DEF ResolveCancelled, Settled, Terminal
    <2>6. ~stopping => fin.status \in Terminal
      <3> HIDE DEF own, r
      <3>1. CASE r = "cancelled" \/ CtxDone(w)
        BY <1>1, <2>1, <3>1, StatusOf
      <3>2. CASE ~(r = "cancelled" \/ CtxDone(w))
        <4>1. fin = Settled(own, IF r = "ok" THEN "completed" ELSE "failed")
          BY <3>2
        <4>2. (IF r = "ok" THEN "completed" ELSE "failed") \in Terminal
          BY DEF Terminal
        <4> QED
          BY <1>1, <2>1, <4>1, <4>2, StatusOf
      <3> QED
        BY <3>1, <3>2
    <2> HIDE DEF own, fin
    <2>7. \A p : p \in gone <=> Owns(T(w), fin, p)
      <3>1. [task EXCEPT ![T(w)] = fin][T(w)] = fin
        BY <1>1 DEF TypeOK
      <3>2. {T(w)} \in SUBSET Tasks
        BY <1>1
      <3> QED
        BY <3>1, <3>2, WrittenOwned
    <2> HIDE DEF gone
    <2>8. fin.status = "cancelled" => wk'[w].doomed = gone
      <3>1. wk'[w].doomed = d
        BY <1>1, <2>2 DEF Locals
      <3> QED
        BY <3>1
    <2> HIDE DEF d
    <2>9. wk'[w].pc = "metaClean" /\ task'[T(w)] = fin
      BY <1>1, <1>2, <2>2, PcOf
    <2>10. \A p : Tracked(p) /\ (Owns(T(w), Rec(w), p) \/ Making(w, p)) => Owns(T(w), fin, p)
      <3> SUFFICES ASSUME NEW p, Tracked(p), Owns(T(w), Rec(w), p) \/ Making(w, p) PROVE Owns(T(w), fin, p)
        OBVIOUS
      <3>1. FilePath(T(w), own) = FilePath(T(w), Rec(w)) /\ MetaPath(T(w), own) = MetaPath(T(w), Rec(w))
        BY <1>1, <1>2, <2>1, PathFacts
      <3>2. Owns(T(w), own, p) <=> Owns(T(w), fin, p)
        BY <1>1, <2>1, <2>4, SameOwner
      <3>3. CASE Making(w, p)
        BY <2>1, <2>2, <3>1, <3>2, <3>3 DEF Making, Owns
      <3>4. CASE Rec(w).wrote /\ p = FilePath(T(w), Rec(w))
        BY <2>1, <3>1, <3>2, <3>4 DEF Owns
      <3>5. CASE Rec(w).wroteMeta /\ p = MetaPath(T(w), Rec(w))
        <4>1. p[4]
          BY <1>1, <1>2, <3>5, PathFacts
        <4>2. used.stops = 0
          BY <4>1 DEF Tracked
        <4>3. ~Rec(w).wroteMeta
          BY <1>1, <2>2, <4>2 DEF Sound, FirstSidecar, Carries, Rec, T, Working
        <4> QED
          BY <3>5, <4>3
      <3> QED
        BY <3>3, <3>4, <3>5 DEF Owns
    <2>11. \A p : Tracked(p) /\ Rec(w).status \in Terminal /\ Deletes(w, p) => Deletes(w, p)'
      <3> SUFFICES ASSUME NEW p, Tracked(p), Rec(w).status \in Terminal, Deletes(w, p) PROVE Deletes(w, p)'
        OBVIOUS
      <3>1. Making(w, p)
        BY <2>2 DEF Deletes
      <3>2. p \in wk'[w].doomed
        BY <2>5, <2>7, <2>8, <2>10, <3>1
      <3> QED
        BY <2>9, <3>2 DEF Deletes
    <2>12. Converting(w)'
      BY <2>9 DEF Converting
    <2>13. used.stops = 0 => fin.status \in Terminal
      BY <2>6 DEF Sound, Undisturbed, EndsAreUsed
    <2> QED
      BY <1>5, <2>2, <2>9, <2>10, <2>11, <2>12, <2>13 DEF FilesStep, Working
  <1>10. CASE MetaClean(w)
    <2>1. /\ At(w, "metaClean") /\ disk' = Without(wk[w].doomed) /\ UNCHANGED task /\ wk'[w].pc = "finalize"
      BY <1>1, <1>10, PcOf DEF MetaClean
    <2>2. \A p \in DOMAIN disk' : p \in DOMAIN disk /\ disk'[p] = disk[p] /\ p \notin wk[w].doomed
      BY <2>1 DEF Without
    <2>3. Rec(w)' = Rec(w) /\ \A p \in DOMAIN disk' : ~Making(w, p) /\ ~Deletes(w, p)
      BY <1>6, <2>1, <2>2 DEF Making, Deletes, At, Rec
    <2>4. Converting(w)'
      BY <2>1 DEF Converting
    <2>5. used.stops = 0 /\ task'[T(w)].wroteMeta => task'[T(w)].status \in Terminal /\ wk'[w].pc \notin Working
      BY <1>4, <2>1, SidecarKept DEF Working, Rec
    <2> QED
      BY <1>5, <1>6, <2>2, <2>3, <2>4, <2>5 DEF FilesStep, Labelled
  <1> QED
    BY <1>7, <1>8, <1>9, <1>10 DEF MetaStep

LEMMA WorkerFiles ==
  ASSUME NEW w \in Workers, Sound(w), WorkerStep(w), ~Lease(w), ~FinalizeJob(w), ~FinishTask(w), ~WorkerExit(w)
  PROVE  FilesStep(w)
  <1>1. CASE AnnounceStart(w) \/ FinalizeTask(w)
    <2>1. TypeOK /\ T(w) \in Tasks
      BY DEF Sound
    <2>2. UNCHANGED <<task, disk>> /\ Rec(w) \in TaskRecords
      BY <1>1, <2>1, StatusOf DEF AnnounceStart, FinalizeTask, memory
    <2>3. /\ wk'[w].task = T(w)
          /\ \/ At(w, "leased") /\ wk'[w].pc = "reuse"
             \/ At(w, "finalize") /\ wk'[w].pc = "aggregate"
      <3>1. CASE AnnounceStart(w)
        <4>1. At(w, "leased") /\ wk' = [wk EXCEPT ![w].pc = "reuse", ![w].news = None]
          BY <3>1 DEF AnnounceStart
        <4> QED
          BY <2>1, <4>1, PcOf
      <3>2. CASE FinalizeTask(w)
        BY <2>1, <3>2, PcOf DEF FinalizeTask
      <3> QED
        BY <1>1, <3>1, <3>2
    <2> QED
      BY <2>2, <2>3, QuietFiles DEF At, Working, SameFiles, Rec
  <1> QED
    BY <1>1, ImageFiles, UgoiraFiles, MetaFiles DEF WorkerStep, QueueStep

-----------------------------------------------------------------------------
(* CleanInv.                                                               *)

\* What the proof of CleanInv knows of an undisturbed state.
Known == Undisturbed /\ FilesInv /\ EndInv /\ ToldInv /\ PlaceInv /\ OnceInv /\ SettleInv

\* Who carries a task that a step does not touch goes on making and deleting the same.
LEMMA SameHands ==
  ASSUME NEW v \in Workers, NEW t, Carries(v, t), wk'[v] = wk[v], task'[t] = task[t]
  PROVE  /\ Carries(v, t)' /\ T(v) = t /\ T(v)' = t /\ Rec(v)' = Rec(v) /\ J(v)' = J(v)
         /\ \A p : (Making(v, p) <=> Making(v, p)') /\ (Deletes(v, p) <=> Deletes(v, p)')
  <1>1. T(v) = t /\ T(v)' = T(v) /\ Rec(v)' = Rec(v)
    BY DEF T, Rec, Carries
  <1>2. \A p : Making(v, p) <=> Making(v, p)'
    BY <1>1 DEF Making
  <1> QED
    BY <1>1, <1>2 DEF Deletes, Carries, J

LEMMA FilesWorker ==
  ASSUME Known, NEW w \in Workers, WorkerStep(w), T(w) \in Tasks,
         ~Lease(w), ~FinalizeJob(w), ~FinishTask(w), ~WorkerExit(w)
  PROVE  FilesInv'
  <1> DEFINE x == T(w)
  <1>1. TypeOK /\ FilesInv /\ x \in Tasks /\ Carries(w, x) /\ wk[w].pc # "settle"
    <2>1. TypeOK /\ FilesInv
      BY DEF Known, SettleInv
    <2>2. wk[w].pc # "settle"
      BY DEF WorkerStep, QueueStep, AnnounceStart, FinalizeTask, ImageStep, ReuseNothing, ReuseOwned,
         ReuseFails, FetchBody, FetchRename, FetchRetry, FetchFail, Backoff, Interrupted, Commit, DropFile,
         UgoiraStep, ConvertBegin, EncodeCreate, DecodeFail, EncodeAbort, EncodeDone, EncodeSwap, Accept,
         MetaStep, MetaBegin, MetaWrite, MetaFinish, MetaClean, At
    <2> QED
      BY <2>1, <2>2 DEF Carries, T
  <1>2. up /\ UNCHANGED <<up, index, submit, cancel, used, jobStatus>>
    <2>1. up /\ UNCHANGED <<up, index, cancel, used>>
      BY WorkerNews
    <2>2. UNCHANGED submit
      BY <1>1, WorkerIsCalm DEF CalmStep
    <2>3. UNCHANGED jobStatus
      BY <1>1, WorkerHolds
    <2> QED
      BY <2>1, <2>2, <2>3
  <1>3. FilesStep(w)
    <2>1. Sound(w)
      BY <1>1 DEF Sound, FilesInv, Known, EndInv, ToldInv, T
    <2> QED
      BY <2>1, WorkerFiles
  <1>4. \A v \in Workers : v # w => wk'[v] = wk[v] /\ ~Carries(v, x)
    BY <1>1, WorkerKeeps DEF Keeps, Known, OnceInv, WorkerOnce
  <1>5. \A t \in Tasks : t # x => task'[t] = task[t]
    BY <1>1, WorkerWrites
  <1>6. /\ Carries(w, x)' /\ T(w)' = x /\ Rec(w)' = task'[x]
        /\ \A t \in Tasks : t # x => ~Carries(w, t) /\ ~Carries(w, t)'
    BY <1>3 DEF FilesStep, Carries, T, Rec
  <1>7. \A v \in Workers, t \in Tasks : v # w /\ Carries(v, t) =>
          /\ Carries(v, t)' /\ t # x
          /\ T(v) = t /\ T(v)' = t /\ Rec(v)' = Rec(v) /\ J(v)' = J(v)
          /\ \A p : (Making(v, p) <=> Making(v, p)') /\ (Deletes(v, p) <=> Deletes(v, p)')
    BY <1>4, <1>5, SameHands
  <1>8. \A p \in DOMAIN disk' : (p \in DOMAIN disk /\ disk'[p] = disk[p]) \/ (disk'[p] = x /\ Making(w, p)')
    BY <1>3 DEF FilesStep
  <1>9. \A p : Labelled(p, x) /\ Labelled(p, x)' /\ Tracked(p) =>
          /\ Owns(x, task[x], p) \/ Making(w, p) => Owns(x, task'[x], p) \/ Making(w, p)'
          /\ task[x].status \in Terminal /\ Deletes(w, p) => Deletes(w, p)'
    BY <1>3 DEF FilesStep, Rec
  <1>10. \A p : Tracked(p)' <=> Tracked(p)
    BY <1>2 DEF Tracked
  <1>11. \A v \in Workers : wk'[v].task \in Tasks => Converting(v)'
    <2> SUFFICES ASSUME NEW v \in Workers, v # w, wk'[v].task \in Tasks PROVE Converting(v)'
      BY <1>3 DEF FilesStep
    <2>1. wk'[v] = wk[v] /\ Carries(v, wk[v].task)
      BY <1>4 DEF Carries
    <2>2. /\ T(v)' = T(v) /\ Rec(v)' = Rec(v) /\ J(v)' = J(v) /\ T(v) # x /\ Converting(v)
      BY <1>1, <1>7, <2>1 DEF FilesInv, T
    <2>3. \A p : Labelled(p, T(v))' => Labelled(p, T(v))
      BY <1>8, <2>2 DEF Labelled
    <2> QED
      BY <2>1, <2>2, <2>3 DEF Converting
  <1>12. FirstSidecar'
    <2> SUFFICES ASSUME used.stops = 0, NEW t \in Tasks, task'[t].wroteMeta
                 PROVE  /\ task'[t].status \in Terminal
                        /\ \A v \in Workers : Carries(v, t)' => wk'[v].pc \notin Working
      BY <1>2 DEF FirstSidecar
    <2>1. CASE t = x
      <3>1. task'[x].status \in Terminal /\ wk'[w].pc \notin Working
        BY <1>3, <2>1 DEF FilesStep
      <3>2. \A v \in Workers : Carries(v, t)' => v = w
        BY <1>4, <2>1 DEF Carries
      <3> QED
        BY <2>1, <3>1, <3>2
    <2>2. CASE t # x
      <3>1. /\ task[t].status \in Terminal /\ \A v \in Workers : Carries(v, t) => wk[v].pc \notin Working
        BY <1>1, <1>5, <2>2 DEF FilesInv, FirstSidecar
      <3> QED
        BY <1>4, <1>5, <1>6, <2>2, <3>1 DEF Carries
    <2> QED
      BY <2>1, <2>2
  <1>13. Unwritten'
    <2>1. submit[JobOf[x]] # "new"
      BY <1>1 DEF Known, OnceInv, Unsent, Nowhere
    <2> QED
      BY <1>1, <1>2, <1>8, <2>1 DEF FilesInv, Unwritten
  <1>14. Accounted'
    <2> SUFFICES ASSUME NEW t \in Tasks, NEW p \in DOMAIN disk', JobOf[t] \in index, disk'[p] = t, Tracked(p)
                 PROVE  Owns(t, task'[t], p) \/ \E v \in Workers : Carries(v, t)' /\ Making(v, p)'
      BY <1>2, <1>10 DEF Accounted
    <2>1. CASE t = x
      <3>1. CASE p \in DOMAIN disk /\ disk[p] = x
        <4>1. Owns(x, task[x], p) \/ Making(w, p)
          BY <1>1, <1>2, <1>4, <2>1, <3>1 DEF FilesInv, Accounted
        <4>2. Labelled(p, x) /\ Labelled(p, x)'
          BY <1>6, <2>1, <3>1 DEF Labelled
        <4> QED
          BY <1>6, <1>9, <2>1, <4>1, <4>2
      <3> QED
        BY <1>6, <1>8, <2>1, <3>1
    <2>2. CASE t # x
      <3>1. p \in DOMAIN disk /\ disk[p] = t /\ task'[t] = task[t]
        BY <1>5, <1>8, <2>2
      <3>2. Owns(t, task[t], p) \/ \E v \in Workers : Carries(v, t) /\ Making(v, p)
        BY <1>1, <1>2, <3>1 DEF FilesInv, Accounted
      <3> QED
        BY <1>6, <1>7, <2>2, <3>1, <3>2
    <2> QED
      BY <2>1, <2>2
  <1>15. Owed'
    <2> SUFFICES ASSUME NEW t \in Tasks, NEW p \in DOMAIN disk', JobOf[t] \in index, Ended(JobOf[t]),
                        disk'[p] = t, Tracked(p)
                 PROVE  DeletedFor(JobOf[t], t, p)'
      BY <1>2, <1>10 DEF Owed, Ended
    <2> DEFINE j == JobOf[t]
    <2>1. CASE p \in DOMAIN disk /\ disk[p] = t
      <3>1. DeletedFor(j, t, p)
        BY <1>1, <1>2, <2>1 DEF FilesInv, Owed
      <3>2. CASE p \in cancel[j].doomed
        BY <1>2, <3>2 DEF DeletedFor
      <3>3. CASE \E v \in Workers : Carries(v, t) /\ Deletes(v, p)
        <4>1. PICK v \in Workers : Carries(v, t) /\ Deletes(v, p)
          BY <3>3
        <4>2. CASE v # w
          BY <1>7, <4>1, <4>2 DEF DeletedFor
        <4>3. CASE v = w
          <5>1. t = x
            BY <1>6, <4>1, <4>3
          <5>2. task[t].status \in Terminal
            BY DEF Known, EndInv, EndedJobs
          <5>3. Labelled(p, x) /\ Labelled(p, x)'
            BY <1>6, <2>1, <5>1 DEF Labelled
          <5>4. Deletes(w, p)'
            BY <1>9, <4>1, <4>3, <5>1, <5>2, <5>3
          <5> QED
            BY <1>6, <5>1, <5>4 DEF DeletedFor
        <4> QED
          BY <4>2, <4>3
      <3>4. CASE \E v \in Workers : wk[v].task \in TasksOf(j) /\ wk[v].pc = "settle" /\ p \in wk[v].doomed
        <4>1. PICK v \in Workers : wk[v].task \in TasksOf(j) /\ wk[v].pc = "settle" /\ p \in wk[v].doomed
          BY <3>4
        <4>2. wk'[v] = wk[v]
          BY <1>1, <1>4, <4>1
        <4> QED
          BY <4>1, <4>2 DEF DeletedFor
      <3> QED
        BY <3>1, <3>2, <3>3, <3>4 DEF DeletedFor
    <2>2. CASE ~(p \in DOMAIN disk /\ disk[p] = t)
      <3>1. t = x /\ Deletes(w, p)'
        BY <1>8, <2>2 DEF Deletes
      <3> QED
        BY <1>6, <3>1 DEF DeletedFor
    <2> QED
      BY <2>1, <2>2
  <1>16. AtRest'
    BY <1>2 DEF AtRest
  <1> QED
    BY <1>11, <1>12, <1>13, <1>14, <1>15, <1>16 DEF FilesInv

\* A worker whose task keeps its files goes on making and deleting the same, too.
LEMMA SameWork ==
  ASSUME NEW v \in Workers, NEW t \in Tasks, Carries(v, t), wk'[v] = wk[v],
         task[t] \in TaskRecords, task'[t] \in TaskRecords, SameFiles(task'[t], task[t])
  PROVE  /\ Carries(v, t)' /\ T(v) = t /\ T(v)' = t /\ J(v)' = J(v)
         /\ \A p : (Making(v, p) <=> Making(v, p)') /\ (Deletes(v, p) <=> Deletes(v, p)')
  <1>1. T(v) = t /\ T(v)' = t /\ Rec(v) = task[t] /\ Rec(v)' = task'[t] /\ J(v)' = J(v)
    BY DEF T, Rec, Carries, J
  <1>2. /\ FilePath(t, task[t]) = FilePath(t, task'[t]) /\ FinalPath(t, task[t]) = FinalPath(t, task'[t])
        /\ MetaPath(t, task[t]) = MetaPath(t, task'[t])
    BY PathFacts DEF SameFiles
  <1>3. \A p : Making(v, p) <=> Making(v, p)'
    BY <1>1, <1>2 DEF Making
  <1>4. \A p : Deletes(v, p) <=> Deletes(v, p)'
    BY <1>1, <1>2, <1>3 DEF Deletes
  <1> QED
    BY <1>1, <1>3, <1>4 DEF Carries

\* A worker at these stages has no file in the making, and none to delete.
Idle == {"idle", "leased", "aggregate", "settle", "exited"}

\* What was going to be deleted still is, by the same worker or the same Cancel.
LEMMA StillDeleted ==
  ASSUME NEW t \in Tasks, NEW p, DeletedFor(JobOf[t], t, p),
         task[t] \in TaskRecords, task'[t] \in TaskRecords, SameFiles(task'[t], task[t]),
         p \in cancel[JobOf[t]].doomed => p \in cancel'[JobOf[t]].doomed,
         \A v \in Workers : \/ wk'[v] = wk[v]
                            \/ wk[v].pc \in Idle \ {"settle"}
                            \/ wk[v].pc = "settle" /\ p \notin wk[v].doomed
  PROVE  DeletedFor(JobOf[t], t, p)'
  <1>1. CASE p \in cancel[JobOf[t]].doomed
    BY <1>1 DEF DeletedFor
  <1>2. CASE \E v \in Workers : Carries(v, t) /\ Deletes(v, p)
    <2>1. PICK v \in Workers : Carries(v, t) /\ Deletes(v, p)
      BY <1>2
    <2>2. wk'[v] = wk[v]
      BY <2>1 DEF Deletes, Making, Idle
    <2>3. Carries(v, t)' /\ Deletes(v, p)'
      BY <2>1, <2>2, SameWork
    <2> QED
      BY <2>3 DEF DeletedFor
  <1>3. CASE \E v \in Workers : wk[v].task \in TasksOf(JobOf[t]) /\ wk[v].pc = "settle" /\ p \in wk[v].doomed
    <2>1. PICK v \in Workers : wk[v].task \in TasksOf(JobOf[t]) /\ wk[v].pc = "settle" /\ p \in wk[v].doomed
      BY <1>3
    <2>2. wk'[v] = wk[v]
      BY <2>1 DEF Idle
    <2> QED
      BY <2>1, <2>2 DEF DeletedFor
  <1> QED
    BY <1>1, <1>2, <1>3 DEF DeletedFor

\* A step that writes no file, and moves a worker only onto or off these stages.
LEMMA FilesRest ==
  ASSUME Known, up, up', used.stops # 0 => used'.stops # 0,
         \A j \in Jobs : submit'[j] = "new" => submit[j] = "new",
         \A j \in index' : j \in index \/ submit[j] = "new",
         \A p \in DOMAIN disk' : p \in DOMAIN disk /\ disk'[p] = disk[p],
         \A t \in Tasks : /\ task'[t] \in TaskRecords /\ task'[t].wroteMeta = task[t].wroteMeta
                          /\ task[t].status \in Terminal => task'[t].status \in Terminal
                          /\ submit[JobOf[t]] = "new" \/ SameFiles(task'[t], task[t]),
         \A v \in Workers : \/ wk'[v] = wk[v]
                            \/ /\ wk[v].pc \in Idle /\ wk'[v].pc \in Idle
                               /\ wk'[v].pc = "leased" => Rec(v)'.status \notin Terminal,
         Owed'
  PROVE  FilesInv'
  <1>1. TypeOK /\ FilesInv /\ \A t \in Tasks : task[t] \in TaskRecords /\ JobOf[t] \in Jobs
    BY PoolAssumption DEF Known, SettleInv, TypeOK
  <1>2. \A v \in Workers, t \in Tasks : Carries(v, t) => SameFiles(task'[t], task[t])
    BY DEF Known, OnceInv, Unsent, Nowhere
  <1>3. \A v \in Workers : wk'[v].task \in Tasks => Converting(v)'
    <2> SUFFICES ASSUME NEW v \in Workers, wk'[v].task \in Tasks PROVE Converting(v)'
      OBVIOUS
    <2>1. CASE wk'[v] = wk[v]
      <3> DEFINE t == wk[v].task
      <3>1. t \in Tasks /\ Carries(v, t) /\ SameFiles(task'[t], task[t])
        BY <1>2, <2>1 DEF Carries
      <3>2. T(v) = t /\ T(v)' = t /\ J(v)' = J(v) /\ Rec(v) = task[t] /\ Rec(v)' = task'[t]
        BY <2>1 DEF T, J, Rec
      <3>3. FilePath(t, task'[t]) = FilePath(t, task[t])
        BY <1>1, <3>1, PathFacts DEF SameFiles
      <3>4. Converting(v)
        BY <1>1, <3>1 DEF FilesInv
      <3> HIDE DEF t
      <3>5. /\ wk[v].pc \in {"convert", "encode", "encoding", "encoded"} => task'[t].wrote
            /\ wk[v].pc \in {"encode", "encoding", "encoded"} => task'[t].ext # MediaExt[J(v)]
            /\ wk[v].pc = "encoded" => ~Labelled(FilePath(t, task[t]), t)
        BY <3>1, <3>2, <3>4 DEF Converting, SameFiles
      <3>6. wk[v].pc = "encoded" => ~Labelled(FilePath(T(v), Rec(v)), T(v))'
        BY <3>2, <3>3, <3>5 DEF Labelled
      <3> QED
        BY <2>1, <3>2, <3>5, <3>6 DEF Converting
    <2>2. CASE wk'[v].pc \in Idle
      BY <2>2 DEF Converting, Idle
    <2> QED
      BY <2>1, <2>2
  <1>4. FirstSidecar'
    <2> SUFFICES ASSUME used.stops = 0, NEW t \in Tasks, task'[t].wroteMeta
                 PROVE  /\ task'[t].status \in Terminal
                        /\ \A v \in Workers : Carries(v, t)' => wk'[v].pc \notin Working
      BY DEF FirstSidecar
    <2>1. /\ task[t].status \in Terminal /\ task'[t].status \in Terminal
          /\ \A v \in Workers : Carries(v, t) => wk[v].pc \notin Working
      BY <1>1 DEF FilesInv, FirstSidecar
    <2>2. ASSUME NEW v \in Workers, Carries(v, t)' PROVE wk'[v].pc \notin Working
      <3>1. Rec(v)'.status \in Terminal
        BY <2>1, <2>2 DEF Carries, Rec, T
      <3> QED
        BY <2>1, <2>2, <3>1 DEF Carries, Idle, Working
    <2> QED
      BY <2>1, <2>2
  <1>5. Unwritten'
    BY <1>1 DEF FilesInv, Unwritten
  <1>6. Accounted'
    <2> SUFFICES ASSUME NEW t \in Tasks, NEW p \in DOMAIN disk', JobOf[t] \in index', disk'[p] = t, Tracked(p)'
                 PROVE  Owns(t, task'[t], p) \/ \E v \in Workers : Carries(v, t)' /\ Making(v, p)'
      BY DEF Accounted
    <2>1. p \in DOMAIN disk /\ disk[p] = t /\ submit[JobOf[t]] # "new" /\ JobOf[t] \in index
      BY <1>1 DEF FilesInv, Unwritten
    <2>2. Tracked(p) /\ SameFiles(task'[t], task[t])
      BY <2>1 DEF Tracked
    <2>3. Owns(t, task[t], p) \/ \E v \in Workers : Carries(v, t) /\ Making(v, p)
      BY <1>1, <2>1, <2>2 DEF FilesInv, Accounted
    <2>4. CASE Owns(t, task[t], p)
      BY <1>1, <2>2, <2>4, SameOwner
    <2>5. ASSUME NEW v \in Workers, Carries(v, t), Making(v, p) PROVE Carries(v, t)' /\ Making(v, p)'
      <3>1. wk'[v] = wk[v]
        BY <2>5 DEF Making, Idle
      <3> QED
        BY <1>1, <2>2, <2>5, <3>1, SameWork
    <2> QED
      BY <2>3, <2>4, <2>5
  <1>7. AtRest'
    BY DEF AtRest
  <1> QED
    BY <1>3, <1>4, <1>5, <1>6, <1>7 DEF FilesInv

\* What an ended job had to be deleted still is to be, unless it is gone.
LEMMA OwedKept ==
  ASSUME Known, up, UNCHANGED jobStatus,
         \A j \in index' : j \in index \/ jobStatus[j] = "queued",
         \A j \in Jobs : \A p \in DOMAIN disk' : p \in cancel[j].doomed => p \in cancel'[j].doomed,
         \A p \in DOMAIN disk' : p \in DOMAIN disk /\ disk'[p] = disk[p],
         used.stops # 0 => used'.stops # 0,
         \A t \in Tasks : JobOf[t] \in index => task'[t] \in TaskRecords /\ SameFiles(task'[t], task[t]),
         \A v \in Workers : \/ wk'[v] = wk[v]
                            \/ wk[v].pc \in Idle \ {"settle"}
                            \/ wk[v].pc = "settle" /\ \A p \in DOMAIN disk' : p \notin wk[v].doomed
  PROVE  Owed'
  <1> SUFFICES ASSUME NEW t \in Tasks, NEW p \in DOMAIN disk', JobOf[t] \in index', Ended(JobOf[t])',
                      disk'[p] = t, Tracked(p)'
               PROVE  DeletedFor(JobOf[t], t, p)'
    BY DEF Owed
  <1>1. /\ p \in DOMAIN disk /\ disk[p] = t /\ JobOf[t] \in index /\ Ended(JobOf[t]) /\ Tracked(p)
        /\ JobOf[t] \in Jobs
    BY PoolAssumption DEF Ended, Tracked
  <1>2. DeletedFor(JobOf[t], t, p)
    BY <1>1 DEF Known, FilesInv, Owed
  <1>3. task[t] \in TaskRecords
    BY DEF Known, SettleInv, TypeOK
  <1> QED
    BY <1>1, <1>2, <1>3, StillDeleted

\* A step of nobody that touches a task or a file.
LEMMA FilesQuiet ==
  ASSUME Known, up, up', UNCHANGED <<jobStatus, task, wk, disk>>, index' \subseteq index,
         used.stops # 0 => used'.stops # 0,
         \A j \in Jobs : submit'[j] = "new" => submit[j] = "new",
         \A j \in Jobs : cancel'[j].doomed = cancel[j].doomed
  PROVE  FilesInv'
  <1>1. \A t \in Tasks : task[t] \in TaskRecords
    BY DEF Known, SettleInv, TypeOK
  <1>2. Owed'
    BY <1>1, OwedKept DEF SameFiles
  <1> QED
    BY <1>1, <1>2, FilesRest DEF SameFiles

LEMMA FilesSubmit ==
  ASSUME Known, NEW j \in Jobs, SubmitInsert(j) PROVE FilesInv'
  <1>1. TypeOK /\ \A t \in Tasks : task[t] \in TaskRecords /\ JobOf[t] \in Jobs
    BY PoolAssumption DEF Known, SettleInv, TypeOK
  <1>2. /\ up /\ UNCHANGED <<up, jobStatus, wk, cancel, disk, used>>
        /\ index' = index \cup {j} /\ submit[j] = "new" /\ submit' = [submit EXCEPT ![j] = "inserted"]
    BY DEF SubmitInsert, process, history
  <1>3. PICK pick \in [TasksOf(j) -> 0..MaxSuffix] :
          task' = [t \in Tasks |-> IF t \in TasksOf(j) THEN Moved(task[t], pick[t]) ELSE task[t]]
    BY DEF SubmitInsert
  <1>4. \A t \in TasksOf(j) : /\ task'[t] = Moved(task[t], pick[t]) /\ Moved(task[t], pick[t]) \in TaskRecords
                              /\ Moved(task[t], pick[t]).status = task[t].status
                              /\ Moved(task[t], pick[t]).wroteMeta = task[t].wroteMeta
    <2> SUFFICES ASSUME NEW t \in TasksOf(j)
                 PROVE  /\ task'[t] = Moved(task[t], pick[t]) /\ Moved(task[t], pick[t]) \in TaskRecords
                        /\ Moved(task[t], pick[t]).status = task[t].status
                        /\ Moved(task[t], pick[t]).wroteMeta = task[t].wroteMeta
      OBVIOUS
    <2>1. t \in Tasks /\ task[t] \in TaskRecords /\ pick[t] \in 0..MaxSuffix /\ MaxSuffix \in Nat
      BY <1>1, BoundAssumption DEF TasksOf
    <2>2. pick[t] \in Nat
      BY <2>1
    <2> QED
      BY <1>3, <2>1, <2>2, MovedType DEF Moved, TaskRecords
  <1>5. \A t \in Tasks : t \notin TasksOf(j) => task'[t] = task[t] /\ JobOf[t] # j
    BY <1>3 DEF TasksOf
  <1>6. \A t \in TasksOf(j) : submit[JobOf[t]] = "new" /\ JobOf[t] \notin index
    BY <1>2 DEF TasksOf, Known, SettleInv, FreshJobs
  <1>7. jobStatus[j] = "queued"
    BY <1>2 DEF Known, PlaceInv, Untold
  <1>8. \A t \in Tasks : /\ task'[t] \in TaskRecords /\ task'[t].wroteMeta = task[t].wroteMeta
                         /\ task'[t].status = task[t].status
                         /\ submit[JobOf[t]] = "new" \/ SameFiles(task'[t], task[t])
    BY <1>1, <1>4, <1>5, <1>6 DEF SameFiles
  <1>9. Owed'
    BY <1>1, <1>2, <1>5, <1>6, <1>7, OwedKept DEF SameFiles
  <1> QED
    BY <1>1, <1>2, <1>8, <1>9, FilesRest DEF TypeOK

LEMMA FilesCancel ==
  ASSUME Known, NEW j \in Jobs, CancelLock(j) PROVE FilesInv'
  <1> DEFINE hit == {t \in TasksOf(j) : task[t].status \notin Terminal}
             tk  == [t \in Tasks |-> IF t \in hit THEN Settled(task[t], "cancelled") ELSE task[t]]
             now == Aggregate(tk, j)
             gone == IF now # jobStatus[j] /\ now \in {"failed", "cancelled"}
                     THEN WrittenPaths(TasksOf(j), tk) ELSE {}
  <1>1. TypeOK /\ FilesInv /\ (\A t \in Tasks : task[t] \in TaskRecords /\ JobOf[t] \in Jobs)
    BY PoolAssumption DEF Known, SettleInv, TypeOK
  <1>2. /\ task' = tk /\ jobStatus' = [jobStatus EXCEPT ![j] = now] /\ jobStatus[j] \notin Terminal
        /\ \E n : cancel' = [cancel EXCEPT ![j] = [pc |-> "persist", tasks |-> hit, doomed |-> gone, news |-> n]]
        /\ up /\ UNCHANGED <<up, index, wk, submit, disk, used>>
    BY DEF CancelLock, process, history
  <1>3. \A t \in Tasks : /\ task'[t] \in TaskRecords /\ SameFiles(task'[t], task[t])
                         /\ task[t].status \in Terminal => task'[t].status \in Terminal
    <2> SUFFICES ASSUME NEW t \in Tasks
                 PROVE  /\ tk[t] \in TaskRecords /\ SameFiles(tk[t], task[t])
                        /\ task[t].status \in Terminal => tk[t].status \in Terminal
      BY <1>2
    <2>1. "cancelled" \in Status
      BY DEF Status, Terminal
    <2>2. tk[t] = Settled(task[t], "cancelled") \/ tk[t] = task[t]
      OBVIOUS
    <2> HIDE DEF tk
    <2> QED
      BY <1>1, <2>1, <2>2, SettledFiles, SettledType DEF SameFiles, Terminal
  <1>4. jobStatus'[j] = now /\ \A k \in Jobs : k # j => jobStatus'[k] = jobStatus[k] /\ cancel'[k] = cancel[k]
    BY <1>1, <1>2 DEF TypeOK
  <1>5. cancel'[j].doomed = gone
    BY <1>1, <1>2 DEF TypeOK
  <1>6. \A t \in TasksOf(j) : \A p : Owns(t, task'[t], p) => p \in WrittenPaths(TasksOf(j), tk)
    <2>1. TasksOf(j) \in SUBSET Tasks
      BY DEF TasksOf
    <2> HIDE DEF tk
    <2> QED
      BY <1>2, <2>1, WrittenOwned
  <1>7. Owed'
    <2> SUFFICES ASSUME NEW t \in Tasks, NEW p \in DOMAIN disk, JobOf[t] \in index, Ended(JobOf[t])',
                        disk[p] = t, Tracked(p)
                 PROVE  DeletedFor(JobOf[t], t, p)'
      BY <1>2 DEF Owed, Tracked
    <2>1. CASE JobOf[t] = j
      <3>1. gone = WrittenPaths(TasksOf(j), tk)
        BY <1>2, <1>4, <2>1 DEF Ended, Terminal
      <3> HIDE DEF gone, tk, now, hit
      <3>2. Owns(t, task[t], p) \/ \E v \in Workers : Carries(v, t) /\ Making(v, p)
        BY <1>1, <1>2 DEF FilesInv, Accounted
      <3>3. CASE Owns(t, task[t], p)
        <4>1. Owns(t, task'[t], p)
          BY <1>1, <1>3, <3>3, SameOwner
        <4>2. p \in gone
          BY <1>6, <2>1, <3>1, <4>1 DEF TasksOf
        <4> QED
          BY <1>5, <2>1, <4>2 DEF DeletedFor
      <3>4. ASSUME NEW v \in Workers, Carries(v, t), Making(v, p) PROVE DeletedFor(JobOf[t], t, p)'
        <4>1. Carries(v, t)' /\ Making(v, p)'
          BY <1>1, <1>2, <1>3, <3>4, SameWork
        <4> QED
          BY <4>1 DEF DeletedFor, Deletes
      <3> QED
        BY <3>2, <3>3, <3>4
    <2>2. CASE JobOf[t] # j
      <3> HIDE DEF gone, tk, now, hit
      <3>1. DeletedFor(JobOf[t], t, p)
        BY <1>1, <1>2, <1>4, <2>2 DEF FilesInv, Owed, Ended
      <3> QED
        BY <1>1, <1>2, <1>3, <1>4, <2>2, <3>1, StillDeleted
    <2> QED
      BY <2>1, <2>2
  <1> HIDE DEF gone, tk, now, hit
  <1> QED
    BY <1>2, <1>3, <1>7, FilesRest DEF SameFiles

LEMMA FilesCancelled ==
  ASSUME Known, NEW j \in Jobs, CancelFinish(j) PROVE FilesInv'
  <1>1. TypeOK /\ \A t \in Tasks : task[t] \in TaskRecords
    BY DEF Known, SettleInv, TypeOK
  <1>2. /\ up /\ UNCHANGED <<up, index, jobStatus, task, wk, submit, used>>
        /\ disk' = Without(cancel[j].doomed) /\ \A k \in Jobs : k # j => cancel'[k] = cancel[k]
    BY <1>1 DEF CancelFinish, process, memory, TypeOK
  <1>3. \A p \in DOMAIN disk' : p \in DOMAIN disk /\ disk'[p] = disk[p] /\ p \notin cancel[j].doomed
    BY <1>2 DEF Without
  <1>4. Owed'
    BY <1>1, <1>2, <1>3, OwedKept DEF SameFiles
  <1> QED
    BY <1>1, <1>2, <1>3, <1>4, FilesRest DEF SameFiles

LEMMA FilesLease ==
  ASSUME Known, NEW w \in Workers, Lease(w) PROVE FilesInv'
  <1>1. TypeOK /\ (\A t \in Tasks : task[t] \in TaskRecords /\ JobOf[t] \in Jobs) /\ queue \in Seq(Tasks)
    BY PoolAssumption DEF Known, SettleInv, TypeOK
  <1>2. /\ up /\ UNCHANGED <<up, index, submit, cancel, disk, used>> /\ wk[w].pc = "idle" /\ queue # <<>>
    BY DEF Lease, At, process, handlers, history
  <1>3. CASE UNCHANGED <<jobStatus, task, wk>>
    BY <1>2, <1>3, FilesQuiet
  <1>4. CASE ~UNCHANGED <<jobStatus, task, wk>>
    <2> DEFINE x == Head(queue)
    <2>1. x \in Tasks
      BY <1>1, <1>2, HeadTailProperties
    <2>2. /\ task[x].status \notin Terminal
          /\ task' = [task EXCEPT ![x].status = "running"]
          /\ jobStatus' = IF JobOf[x] \in index THEN [jobStatus EXCEPT ![JobOf[x]] = "running"] ELSE jobStatus
          /\ \E n : wk' = [wk EXCEPT ![w] = [IdleWorker EXCEPT !.pc = "leased", !.task = x, !.news = n]]
      BY <1>4 DEF Lease
    <2> HIDE DEF x
    <2>3. /\ task'[x] = [task[x] EXCEPT !.status = "running"] /\ \A t \in Tasks : t # x => task'[t] = task[t]
      BY <1>1, <2>1, <2>2 DEF TypeOK
    <2>4. /\ task'[x] \in TaskRecords /\ SameFiles(task'[x], task[x]) /\ task'[x].status = "running"
      <3>1. "running" \in Status
        BY DEF Status
      <3> QED
        BY <1>1, <2>1, <2>3, <3>1 DEF TaskRecords, SameFiles
    <2>5. wk'[w].pc = "leased" /\ wk'[w].task = x /\ \A v \in Workers : v # w => wk'[v] = wk[v]
      <3>1. wk \in [Workers -> Locals]
        BY <1>1 DEF TypeOK
      <3>2. PICK n : wk' = [wk EXCEPT ![w] = [IdleWorker EXCEPT !.pc = "leased", !.task = x, !.news = n]]
        BY <2>2
      <3>3. wk'[w] = [IdleWorker EXCEPT !.pc = "leased", !.task = x, !.news = n]
        BY <3>1, <3>2
      <3>4. wk'[w].pc = "leased" /\ wk'[w].task = x
        BY <3>3 DEF IdleWorker
      <3> QED
        BY <3>1, <3>2, <3>4
    <2>6. /\ \A j \in Jobs : jobStatus'[j] = jobStatus[j] \/ jobStatus'[j] = "running"
      BY <1>1, <2>2 DEF TypeOK
    <2>7. \A t \in Tasks : /\ task'[t] \in TaskRecords /\ SameFiles(task'[t], task[t])
                           /\ task[t].status \in Terminal => task'[t].status \in Terminal
      BY <1>1, <2>2, <2>3, <2>4 DEF SameFiles
    <2>8. Owed'
      <3> SUFFICES ASSUME NEW t \in Tasks, NEW p \in DOMAIN disk, JobOf[t] \in index, Ended(JobOf[t])',
                          disk[p] = t, Tracked(p)
                   PROVE  DeletedFor(JobOf[t], t, p)'
        BY <1>2 DEF Owed, Tracked
      <3>1. Ended(JobOf[t])
        BY <1>1, <2>6 DEF Ended
      <3>2. DeletedFor(JobOf[t], t, p)
        BY <1>2, <3>1 DEF Known, FilesInv, Owed
      <3>3. \A v \in Workers : wk'[v] = wk[v] \/ wk[v].pc \in Idle \ {"settle"}
        BY <1>2, <2>5 DEF Idle
      <3> QED
        BY <1>1, <1>2, <2>7, <3>2, <3>3, StillDeleted
    <2>9. Rec(w)'.status \notin Terminal
      BY <2>4, <2>5 DEF Rec, T, Terminal
    <2>10. \A v \in Workers : \/ wk'[v] = wk[v]
                              \/ /\ wk[v].pc \in Idle /\ wk'[v].pc \in Idle
                                 /\ wk'[v].pc = "leased" => Rec(v)'.status \notin Terminal
      BY <1>2, <2>5, <2>9 DEF Idle
    <2> QED
      BY <1>2, <2>7, <2>8, <2>10, FilesRest DEF SameFiles
  <1> QED
    BY <1>3, <1>4

\* The end of finalizeTask, and the end of a worker.
LEMMA FilesSettle ==
  ASSUME Known, NEW w \in Workers, FinalizeJob(w) \/ FinishTask(w) \/ WorkerExit(w) PROVE FilesInv'
  <1>1. /\ TypeOK /\ FilesInv /\ (\A t \in Tasks : task[t] \in TaskRecords /\ JobOf[t] \in Jobs)
        /\ wk \in [Workers -> Locals]
    BY PoolAssumption DEF Known, SettleInv, TypeOK
  <1>2. /\ up /\ UNCHANGED <<up, index, task, submit, cancel, used>>
    BY DEF FinalizeJob, FinishTask, WorkerExit, At, Elsewhere, process, memory, handlers, history
  <1>3. CASE WorkerExit(w)
    <2>1. /\ UNCHANGED <<jobStatus, disk>> /\ wk[w].pc = "idle" /\ wk' = [wk EXCEPT ![w].pc = "exited"]
      BY <1>3 DEF WorkerExit, Elsewhere, At, Goto
    <2>2. wk'[w].pc = "exited" /\ \A v \in Workers : v # w => wk'[v] = wk[v]
      BY <1>1, <2>1 DEF Locals
    <2>3. Owed'
      BY <1>1, <1>2, <2>1, <2>2, OwedKept DEF SameFiles, Idle
    <2> QED
      BY <1>1, <1>2, <2>1, <2>2, <2>3, FilesRest DEF SameFiles, Idle
  <1>4. CASE FinishTask(w)
    <2>1. /\ UNCHANGED jobStatus /\ wk[w].pc = "settle" /\ wk' = [wk EXCEPT ![w] = IdleWorker]
          /\ disk' = Without(wk[w].doomed)
      BY <1>4 DEF FinishTask, At, memory
    <2>2. wk'[w].pc = "idle" /\ \A v \in Workers : v # w => wk'[v] = wk[v]
      BY <1>1, <2>1 DEF IdleWorker
    <2>3. \A p \in DOMAIN disk' : p \in DOMAIN disk /\ disk'[p] = disk[p] /\ p \notin wk[w].doomed
      BY <2>1 DEF Without
    <2>4. Owed'
      BY <1>1, <1>2, <2>1, <2>2, <2>3, OwedKept DEF SameFiles
    <2> QED
      BY <1>1, <1>2, <2>1, <2>2, <2>3, <2>4, FilesRest DEF SameFiles, Idle
  <1>5. CASE FinalizeJob(w)
    <2> DEFINE j == J(w)
               now == Aggregate(task, j)
               gone == IF now \in {"failed", "cancelled"} THEN WrittenPaths(TasksOf(j), task) ELSE {}
               rec == [IdleWorker EXCEPT !.pc = "settle", !.task = T(w), !.news = now, !.doomed = gone]
    <2>1. /\ UNCHANGED disk /\ wk[w].pc = "aggregate" /\ jobStatus' = [jobStatus EXCEPT ![j] = now]
          /\ wk' = [wk EXCEPT ![w] = IF now = jobStatus[j] THEN IdleWorker ELSE rec]
      BY <1>5 DEF FinalizeJob, At
    <2>2. T(w) \in Tasks /\ j \in Jobs /\ T(w) \in TasksOf(j)
      BY <1>1, <2>1 DEF TypeOK, T, J, TasksOf
    <2>3. /\ jobStatus'[j] = now /\ \A k \in Jobs : k # j => jobStatus'[k] = jobStatus[k]
      BY <1>1, <2>1, <2>2 DEF TypeOK
    <2>4. /\ \A v \in Workers : v # w => wk'[v] = wk[v]
          /\ now = jobStatus[j] => wk'[w] = IdleWorker
          /\ now # jobStatus[j] => wk'[w] = rec
      BY <1>1, <2>1
    <2>5. /\ IdleWorker.pc = "idle" /\ rec.pc = "settle" /\ rec.task = T(w) /\ rec.doomed = gone
      BY DEF IdleWorker
    <2>6. \A t \in TasksOf(j) : \A p : Owns(t, task[t], p) => p \in WrittenPaths(TasksOf(j), task)
      <3>1. TasksOf(j) \in SUBSET Tasks
        BY DEF TasksOf
      <3> QED
        BY <3>1, WrittenOwned
    <2> HIDE DEF j, now, gone, rec
    <2>7. Owed'
      <3> SUFFICES ASSUME NEW t \in Tasks, NEW p \in DOMAIN disk, JobOf[t] \in index, Ended(JobOf[t])',
                          disk[p] = t, Tracked(p)
                   PROVE  DeletedFor(JobOf[t], t, p)'
        BY <1>2, <2>1 DEF Owed, Tracked
      <3>1. CASE Ended(JobOf[t])
        <4>1. DeletedFor(JobOf[t], t, p)
          BY <1>1, <1>2, <3>1 DEF FilesInv, Owed
        <4>2. \A v \in Workers : wk'[v] = wk[v] \/ wk[v].pc \in Idle \ {"settle"}
          BY <2>1, <2>4 DEF Idle
        <4> QED
          BY <1>1, <1>2, <4>1, <4>2, StillDeleted DEF SameFiles
      <3>2. CASE ~Ended(JobOf[t])
        <4>1. JobOf[t] = j /\ now # jobStatus[j] /\ now \in {"failed", "cancelled"}
          BY <1>1, <2>3, <3>2 DEF Ended
        <4>2. /\ wk'[w].task \in TasksOf(JobOf[t]) /\ wk'[w].pc = "settle"
              /\ wk'[w].doomed = WrittenPaths(TasksOf(j), task)
          BY <2>2, <2>4, <2>5, <4>1 DEF gone
        <4>3. Owns(t, task[t], p) \/ \E v \in Workers : Carries(v, t) /\ Making(v, p)
          BY <1>1, <1>2 DEF FilesInv, Accounted
        <4>4. CASE Owns(t, task[t], p)
          <5>1. p \in wk'[w].doomed
            BY <2>6, <4>1, <4>2, <4>4 DEF TasksOf
          <5> QED
            BY <4>2, <5>1 DEF DeletedFor
        <4>5. ASSUME NEW v \in Workers, Carries(v, t), Making(v, p) PROVE DeletedFor(JobOf[t], t, p)'
          <5>1. wk'[v] = wk[v]
            BY <2>1, <2>4, <4>5 DEF Making
          <5>2. Carries(v, t)' /\ Making(v, p)'
            BY <1>1, <1>2, <4>5, <5>1, SameWork DEF SameFiles
          <5> QED
            BY <5>2 DEF DeletedFor, Deletes
        <4> QED
          BY <4>3, <4>4, <4>5
      <3> QED
        BY <3>1, <3>2
    <2>8. \A v \in Workers : wk'[v] = wk[v] \/ (wk[v].pc \in Idle /\ wk'[v].pc \in {"idle", "settle"})
      BY <2>1, <2>4, <2>5 DEF Idle
    <2> QED
      BY <1>1, <1>2, <2>1, <2>7, <2>8, FilesRest DEF SameFiles, Idle
  <1> QED
    BY <1>3, <1>4, <1>5

LEMMA FilesShutdown ==
  ASSUME Known, Shutdown, Undisturbed' PROVE FilesInv'
  <1>1. TypeOK /\ FilesInv /\ \A t \in Tasks : JobOf[t] \in Jobs
    BY PoolAssumption DEF Known, SettleInv, TypeOK
  <1>2. /\ up /\ stopping /\ ~up' /\ UNCHANGED disk /\ \A w \in Workers : wk[w].pc = "exited" /\ wk'[w].task = None
        /\ \A j \in Jobs : submit'[j] = "new" => submit[j] = "new"
        /\ store' = Snapshot(index, task)
    BY DEF Shutdown, Gone, IdleWorker
  <1>3. HandlersDone /\ UNCHANGED used
    <2> SUFFICES ASSUME used' = [used EXCEPT !.crashes = @ + 1] PROVE FALSE
      BY DEF Shutdown
    <2> QED
      BY <1>1 DEF TypeOK, Undisturbed
  <1>4. used.stops # 0
    BY <1>2 DEF Known, ToldInv, EndsAreUsed, Undisturbed
  <1>5. \A w \in Workers : wk[w].task \notin Tasks
    BY <1>2 DEF Known, PlaceInv, InStage, Working, Ending
  <1>6. AtRest'
    <2> SUFFICES ASSUME NEW t \in Tasks, NEW p \in DOMAIN disk, JobOf[t] \in index, disk[p] = t, Tracked(p)
                 PROVE  /\ Owns(t, store'.task[t], p)
                        /\ Aggregate(store'.task, JobOf[t]) \notin {"failed", "cancelled"}
      BY <1>2, <1>3 DEF AtRest, Tracked, Snapshot
    <2>1. \A u \in Tasks : JobOf[u] = JobOf[t] => store'.task[u] = task[u]
      BY <1>2 DEF Snapshot
    <2>2. \A w \in Workers : ~Carries(w, t)
      BY <1>5 DEF Carries
    <2>3. Owns(t, store'.task[t], p)
      BY <1>1, <1>2, <2>1, <2>2 DEF FilesInv, Accounted
    <2>4. Aggregate(store'.task, JobOf[t]) = Aggregate(task, JobOf[t])
      BY <1>1, <2>1, AggregateSame DEF TasksOf
    <2>5. jobStatus[JobOf[t]] = Aggregate(task, JobOf[t])
      BY <1>2, <1>5 DEF Known, PlaceInv, JobStatusSettles, Holds, TasksOf
    <2>6. ~Ended(JobOf[t])
      <3> SUFFICES ASSUME Ended(JobOf[t]) PROVE FALSE
        OBVIOUS
      <3>1. DeletedFor(JobOf[t], t, p)
        BY <1>1, <1>2 DEF FilesInv, Owed
      <3>2. cancel[JobOf[t]].doomed = {}
        BY <1>1, <1>3 DEF HandlersDone, NoCancel
      <3> QED
        BY <1>2, <2>2, <3>1, <3>2 DEF DeletedFor
    <2> QED
      BY <2>3, <2>4, <2>5, <2>6 DEF Ended
  <1>7. Unwritten'
    BY <1>1, <1>2 DEF FilesInv, Unwritten
  <1>8. FirstSidecar'
    BY <1>3, <1>4 DEF FirstSidecar
  <1> QED
    BY <1>2, <1>6, <1>7, <1>8, PoolAssumption DEF FilesInv, Accounted, Owed

LEMMA FilesBoot ==
  ASSUME Known, Boot PROVE FilesInv'
  <1> DEFINE loaded == [t \in Tasks |-> Loaded(t)]
             known  == {t \in Tasks : JobOf[t] \in store.jobs}
             todo   == {t \in known : loaded[t].status \notin Terminal}
             moved  == {t \in todo : ~loaded[t].wrote /\ ~loaded[t].wroteMeta}
  <1>1. TypeOK /\ FilesInv /\ \A t \in Tasks : JobOf[t] \in Jobs
    BY PoolAssumption DEF Known, SettleInv, TypeOK
  <1>2. /\ ~up /\ up' /\ index' = store.jobs /\ UNCHANGED <<wk, submit, disk, used>>
        /\ jobStatus' = [j \in Jobs |-> IF j \in store.jobs THEN Aggregate(loaded, j) ELSE "queued"]
    BY DEF Boot, handlers, history
  <1>3. PICK pick : task' = [t \in Tasks |-> IF t \in moved THEN Moved(loaded[t], pick[t]) ELSE loaded[t]]
    BY DEF Boot
  <1>4. \A t \in Tasks : /\ loaded[t] \in TaskRecords /\ SameFiles(loaded[t], store.task[t])
                         /\ store.task[t] \in TaskRecords
                         /\ store.task[t].status # "running" => loaded[t] = store.task[t]
    <2>1. \A t \in Tasks : loaded[t] = Loaded(t) /\ store.task[t] \in TaskRecords
      BY <1>1 DEF TypeOK
    <2> HIDE DEF loaded
    <2> QED
      BY <2>1 DEF Loaded, TaskRecords, Status, SameFiles
  <1>5. \A t \in moved : ~loaded[t].wrote /\ ~loaded[t].wroteMeta
    OBVIOUS
  <1> HIDE DEF loaded, moved
  <1>6. used.stops # 0
    BY <1>2 DEF Known, ToldInv, EndsAreUsed, Undisturbed
  <1>7. \A w \in Workers : wk[w].task \notin Tasks
    BY <1>2 DEF Known, OnceInv, DownIsIdle, Nowhere, Carries
  <1>8. \A t \in Tasks, p \in DOMAIN disk : JobOf[t] \in store.jobs /\ disk[p] = t /\ Tracked(p) =>
          Owns(t, store.task[t], p) /\ Aggregate(store.task, JobOf[t]) \notin {"failed", "cancelled"}
    BY <1>1, <1>2 DEF FilesInv, AtRest
  <1>9. \A p : Tracked(p)' <=> Tracked(p)
    BY <1>2 DEF Tracked
  <1>10. Accounted'
    <2> SUFFICES ASSUME NEW t \in Tasks, NEW p \in DOMAIN disk, JobOf[t] \in store.jobs, disk[p] = t, Tracked(p)
                 PROVE  Owns(t, task'[t], p)
      BY <1>2, <1>9 DEF Accounted
    <2>1. Owns(t, loaded[t], p)
      BY <1>4, <1>8, SameOwner
    <2>2. t \notin moved
      BY <1>5, <2>1 DEF Owns
    <2> QED
      BY <1>3, <2>1, <2>2
  <1>11. Owed'
    <2> SUFFICES ASSUME NEW t \in Tasks, NEW p \in DOMAIN disk, JobOf[t] \in store.jobs, disk[p] = t, Tracked(p)
                 PROVE  ~Ended(JobOf[t])'
      BY <1>2, <1>9 DEF Owed
    <2>1. \A u \in TasksOf(JobOf[t]) : loaded[u].status = store.task[u].status
      BY <1>2, <1>4 DEF Known, PlaceInv, NoneLeftRunning, Undisturbed, TasksOf
    <2>2. Aggregate(loaded, JobOf[t]) = Aggregate(store.task, JobOf[t])
      BY <1>1, <2>1, AggregateSame
    <2> QED
      BY <1>1, <1>2, <1>8, <2>2 DEF Ended
  <1>12. FirstSidecar'
    BY <1>2, <1>6 DEF FirstSidecar
  <1>13. Unwritten'
    BY <1>1, <1>2 DEF FilesInv, Unwritten
  <1>14. AtRest'
    BY <1>2 DEF AtRest
  <1> QED
    BY <1>2, <1>7, <1>10, <1>11, <1>12, <1>13, <1>14 DEF FilesInv

LEMMA CleanInit == Init => CleanInv
  BY PoolAssumption DEF Init, CleanInv, FilesInv, IdleWorker, FirstSidecar, Blank, Unwritten, Accounted, Owed, AtRest

\* What disturbs the files is counted, and the counts do not go down.
LEMMA UndisturbedBefore ==
  ASSUME SettleInv, [Next]_vars, Undisturbed' PROVE Undisturbed /\ ~UserStep /\ ~Crash
  <1>1. TypeOK /\ used \in [crashes : Nat, stops : Nat, edits : Nat]
    BY DEF SettleInv, TypeOK
  <1>2. ~UserStep /\ ~Crash
    <2>1. UserStep => used' = [used EXCEPT !.edits = @ + 1]
      BY DEF UserStep, UserDeletes, UserPlaces
    <2>2. Crash => used' = [used EXCEPT !.crashes = @ + 1]
      BY DEF Crash
    <2> QED
      BY <1>1, <2>1, <2>2 DEF Undisturbed
  <1>3. CASE Shutdown
    <2>1. used' = used \/ used' = [used EXCEPT !.crashes = @ + 1]
      BY <1>3 DEF Shutdown
    <2> QED
      BY <1>1, <1>2, <2>1 DEF Undisturbed
  <1>4. CASE Stop
    BY <1>1, <1>2, <1>4 DEF Stop, Undisturbed
  <1>5. CASE ~Shutdown /\ ~Stop
    <2>1. \A w \in Workers : WorkerStep(w) => used' = used
      BY <1>1, WorkerNews
    <2>2. used' = used
      BY <1>2, <1>5, <2>1 DEF Next, HandlerStep, HandlerEnd, SenderStep, ProcessStep, SubmitInsert, CancelLock,
         Remove, RemoveTerminal, Drop, SubmitFinish, CancelPersist, CancelFinish, RemoveFinish, Send, SendAbort,
         Boot, Rest, vars, history
    <2> QED
      BY <1>2, <2>2 DEF Undisturbed
  <1> QED
    BY <1>3, <1>4, <1>5

LEMMA CleanStep ==
  CleanInv /\ EndInv /\ ToldInv /\ PlaceInv /\ OnceInv /\ SettleInv /\ [Next]_vars => CleanInv'
  <1> SUFFICES ASSUME CleanInv, EndInv, ToldInv, PlaceInv, OnceInv, SettleInv, [Next]_vars, Undisturbed'
               PROVE  FilesInv'
    BY DEF CleanInv
  <1>1. TypeOK
    BY DEF SettleInv
  <1>2. Undisturbed /\ ~UserStep /\ ~Crash
    BY UndisturbedBefore
  <1>3. Known
    BY <1>2 DEF Known, CleanInv
  <1>4. CASE \E w \in Workers : WorkerStep(w)
    <2>1. PICK w \in Workers : WorkerStep(w)
      BY <1>4
    <2>2. CASE Lease(w)
      BY <1>3, <2>2, FilesLease
    <2>3. CASE FinalizeJob(w) \/ FinishTask(w) \/ WorkerExit(w)
      BY <1>3, <2>3, FilesSettle
    <2>4. CASE ~Lease(w) /\ ~FinalizeJob(w) /\ ~FinishTask(w) /\ ~WorkerExit(w)
      <3>1. T(w) \in Tasks
        BY <1>1, <2>1, <2>4 DEF WorkerStep, QueueStep, AnnounceStart, FinalizeTask, ImageStep, ReuseNothing,
           ReuseOwned, ReuseFails, FetchBody, FetchRename, FetchRetry, FetchFail, Backoff, Interrupted, Commit,
           DropFile, UgoiraStep, ConvertBegin, EncodeCreate, DecodeFail, EncodeAbort, EncodeDone, EncodeSwap,
           Accept, MetaStep, MetaBegin, MetaWrite, MetaFinish, MetaClean, At, T, TypeOK
      <3> QED
        BY <1>3, <2>1, <2>4, <3>1, FilesWorker
    <2> QED
      BY <2>2, <2>3, <2>4
  <1>5. CASE \E j \in Jobs : SubmitInsert(j) \/ CancelLock(j) \/ CancelFinish(j)
    BY <1>3, <1>5, FilesSubmit, FilesCancel, FilesCancelled
  <1>6. CASE Shutdown \/ Boot
    BY <1>3, <1>6, FilesShutdown, FilesBoot
  <1>7. CASE \/ \E j \in Jobs : SubmitFinish(j) \/ CancelPersist(j)
             \/ \E js : (up /\ Drop(js)) \/ RemoveFinish(js)
             \/ SenderStep \/ Stop
    <2>1. /\ up /\ up' /\ UNCHANGED <<jobStatus, task, wk, disk>> /\ index' \subseteq index
      BY <1>7 DEF SubmitFinish, CancelPersist, Drop, RemoveFinish, SenderStep, Send, SendAbort, Stop, process, memory
    <2>2. used.stops # 0 => used'.stops # 0
      <3>1. CASE Stop
        BY <1>1, <3>1 DEF Stop, TypeOK
      <3>2. CASE ~Stop
        BY <1>7, <3>2 DEF SubmitFinish, CancelPersist, Drop, RemoveFinish, SenderStep, Send, SendAbort, history
      <3> QED
        BY <3>1, <3>2
    <2>3. \A j \in Jobs : submit'[j] = "new" => submit[j] = "new"
      BY <1>1, <1>7 DEF SubmitFinish, CancelPersist, Drop, RemoveFinish, SenderStep, Send, SendAbort, Stop, handlers,
         TypeOK
    <2>4. \A j \in Jobs : cancel'[j].doomed = cancel[j].doomed
      BY <1>1, <1>7 DEF SubmitFinish, CancelPersist, Drop, RemoveFinish, SenderStep, Send, SendAbort, Stop, handlers,
         TypeOK, Cancels
    <2> QED
      BY <1>3, <2>1, <2>2, <2>3, <2>4, FilesQuiet
  <1>8. CASE Rest \/ UNCHANGED vars
    <2>1. /\ UNCHANGED <<up, index, jobStatus, task, wk, submit, cancel, disk, store, used>> /\ FilesInv
      BY <1>3, <1>8 DEF Rest, Known, vars
    <2>2. CASE up
      BY <1>3, <2>1, <2>2, FilesQuiet
    <2>3. CASE ~up
      <3>1. \A w \in Workers : wk[w].task \notin Tasks
        BY <2>3 DEF OnceInv, DownIsIdle, Nowhere, Carries
      <3>2. FirstSidecar' /\ Unwritten'
        BY <2>1 DEF FilesInv, FirstSidecar, Unwritten, Carries
      <3>3. AtRest'
        BY <2>1 DEF FilesInv, AtRest, Tracked
      <3> QED
        BY <2>1, <2>3, <3>1, <3>2, <3>3 DEF FilesInv, Accounted, Owed
    <2> QED
      BY <2>2, <2>3
  <1> QED
    BY <1>2, <1>4, <1>5, <1>6, <1>7, <1>8
    DEF Next, HandlerStep, HandlerEnd, ProcessStep, Remove, RemoveTerminal

\* Every settled task is announced or about to be, and no file is forgotten, in every reachable state.
THEOREM FilesAccounted == Spec => [](ToldInv /\ CleanInv)
  <1>1. ToldInv /\ EndInv /\ CleanInv /\ PlaceInv /\ OnceInv /\ SettleInv /\ [Next]_vars
          => (ToldInv /\ CleanInv)'
    BY ToldStep, CleanStep
  <1> QED
    BY <1>1, ToldInit, CleanInit, EndsCorrect, PlaceCorrect, OnceCorrect, SettleCorrect, PTL DEF Spec

\* When a failed or cancelled job has come to rest, no file of its tasks is left, whichever of its
\* workers finished, failed or was interrupted where, and whatever Cancel and the shutdowns
\* overtook, as long as the process did not die and nobody touched the output directory.
THEOREM CleanupIsComplete == Spec => []TransactionalCleanup
  <1>1. CleanInv /\ EndInv /\ SettleInv => TransactionalCleanup
    <2> SUFFICES ASSUME CleanInv, SettleInv, Undisturbed, NEW j \in index, Ended(j), Untouched(j),
                        cancel[j] = NoCancel, NEW p \in DOMAIN disk, Tracked(p), disk[p] \in TasksOf(j)
                 PROVE  FALSE
      BY DEF TransactionalCleanup, Ended
    <2> DEFINE t == disk[p]
    <2>1. up
      BY DEF SettleInv, DownIsEmpty
    <2>2. t \in Tasks /\ JobOf[t] = j
      BY DEF TasksOf
    <2>3. DeletedFor(j, t, p)
      BY <2>1, <2>2 DEF CleanInv, FilesInv, Owed
    <2> QED
      BY <2>2, <2>3 DEF DeletedFor, NoCancel, Untouched, Carries
  <1> QED
    BY <1>1, FilesAccounted, EndsCorrect, SettleCorrect, PTL
==============================================================================
