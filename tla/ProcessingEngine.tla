--------------------------- MODULE ProcessingEngine ---------------------------
(***************************************************************************)
(* The file processing engine (internal/application/processor.go): callers *)
(* submit jobs, a dispatcher pairs each queued job with a worker taken     *)
(* from a bounded pool, a goroutine processes it, retries it and finally   *)
(* accounts for it, and Start / Stop bring the whole machine up and down.  *)
(*                                                                         *)
(* Every goroutine of the engine is an actor here.  A critical section     *)
(* that cannot block is one step; a lock held across a blocking operation  *)
(* (Start and Stop hold jobsMutex, the metrics collector holds metrics.mu) *)
(* is a variable.  Worker objects are told apart by nobody (worker.busy,   *)
(* worker.currentJob and job.Worker are written and never read), so the    *)
(* pool and the worker loops are counted, not named.                       *)
(***************************************************************************)
EXTENDS Integers, Sequences, FiniteSets

CONSTANTS
    Clients,      \* threads that call SubmitJob, CancelJob
    Jobs,         \* the job ids uuid.New() may return; bounds submissions
    Keys,         \* (provider, file URL) pairs, what idempotency compares
    NoJob,        \* the nil *ProcessingJob
    MaxWorkers,   \* config.MaxWorkers, the capacity of workerPool
    QueueCap,     \* capacity of fileQueue, MaxConcurrentFiles * 2
    MaxRetries,   \* job.MaxRetries
    MaxStarts,    \* bound: how often the owner calls Start
    MayStop,      \* whether the owner ever calls Stop
    MayCancel,    \* whether a client may call CancelJob or drop its context
    SlowCalls     \* whether a call in flight may outlast Stop's 30 seconds

ASSUME EngineAssumption ==
    /\ NoJob \notin Jobs
    /\ IsFiniteSet(Jobs)
    /\ MaxWorkers \in Nat \ {0}
    /\ QueueCap \in Nat \ {0}
    /\ MaxRetries \in Nat
    /\ MaxStarts \in Nat
    /\ MayStop \in BOOLEAN /\ MayCancel \in BOOLEAN /\ SlowCalls \in BOOLEAN

VARIABLES
    started,     \* e.started
    starts,      \* number of calls of Start so far
    mutex,       \* who holds jobsMutex across steps
    spawned,     \* the loop index of startWorkerPool
    ctxDone,     \* e.ctx is cancelled
    closed,      \* the shutdown channel is closed
    panicked,    \* the process died closing it twice
    stopResult,  \* what the last Stop returned
    wg,          \* the WaitGroup's counter
    pool,        \* len(e.workerPool)
    loops,       \* live workerLoop goroutines
    queue,       \* e.fileQueue
    active,      \* domain of e.activeJobs
    status,      \* job.Status, "none" before the job is created
    retry,       \* job.RetryCount
    key,         \* job.ProviderID and job.FileURL
    gone,        \* jobs whose context is cancelled
    subPc,       \* program counters of the threads in SubmitJob
    subJob,      \* the job such a thread has created
    accepted,    \* jobs some SubmitJob returned without an error
    dispatcher,  \* program counter of jobDispatcher
    held,        \* the job the dispatcher has taken from the queue
    run,         \* program counter of the job's processJobWithWorker
    collector,   \* program counter of metricsCollector
    removals,    \* jobs whose delayed removeJob has been scheduled
    processed,   \* metrics.TotalJobsProcessed
    errors       \* metrics.TotalErrors

lifeVars   == <<started, starts, mutex, spawned, ctxDone, closed,
                panicked, stopResult>>
poolVars   == <<pool, loops>>
jobVars    == <<active, status, retry, key, gone>>
clientVars == <<subPc, subJob, accepted>>
dispVars   == <<dispatcher, held>>
metricVars == <<collector, removals, processed, errors>>
vars == <<lifeVars, wg, poolVars, queue, jobVars, clientVars, dispVars, run, metricVars>>

\* SubmitJob returns to its caller.
Return(c) ==
    /\ subPc' = [subPc EXCEPT ![c] = "idle"]
    /\ subJob' = [subJob EXCEPT ![c] = NoJob]

\* What no step of processJobWithWorker touches.
RunUnchanged == UNCHANGED <<lifeVars, poolVars, active, key, gone, clientVars, dispVars>>

Live     == {"pending", "running", "retrying"}
Finished == {"completed", "failed"}
Status   == Live \cup Finished \cup {"cancelled"}

\* Steps of processJobWithWorker before the terminal status is written.
Working  == {"start", "file", "saved", "error", "sleep"}
Counting == {"countOk", "countErr"}

LifeOK ==
    /\ started \in BOOLEAN /\ ctxDone \in BOOLEAN /\ closed \in BOOLEAN
    /\ panicked \in BOOLEAN
    /\ starts \in 0..MaxStarts
    /\ mutex \in {"free", "start", "stop"}
    /\ spawned \in 0..MaxWorkers
    /\ stopResult \in {"none", "ok", "timeout"}
PoolOK  == wg \in Int /\ pool \in 0..MaxWorkers /\ loops \in Int
QueueOK == queue \in Seq(Jobs) /\ Len(queue) <= QueueCap
JobOK ==
    /\ active \subseteq Jobs
    /\ status \in [Jobs -> Status \cup {"none"}]
    /\ retry \in [Jobs -> 0..MaxRetries]
    /\ key \in [Jobs -> Keys \cup {"none"}]
    /\ gone \subseteq Jobs
ClientOK ==
    /\ subPc \in [Clients -> {"idle", "check", "register", "enqueue", "unregister"}]
    /\ subJob \in [Clients -> Jobs \cup {NoJob}]
    /\ \A c \in Clients : subPc[c] \in {"idle", "check"} <=> subJob[c] = NoJob
    /\ accepted \subseteq Jobs
DispOK ==
    /\ dispatcher \in {"off", "idle", "hold", "count"}
    /\ held \in Jobs \cup {NoJob}
    /\ dispatcher \in {"hold", "count"} => held \in Jobs
RunOK == run \in [Jobs -> {"none"} \cup Working \cup Counting]
MetricOK ==
    /\ collector \in {"off", "idle", "locked"}
    /\ removals \subseteq Jobs
    /\ processed \in Int /\ errors \in Int

TypeOK ==
    LifeOK /\ PoolOK /\ QueueOK /\ JobOK /\ ClientOK /\ DispOK /\ RunOK /\ MetricOK

\* NewProcessingEngine: nothing runs until Start.
Init ==
    /\ started = FALSE /\ starts = 0 /\ mutex = "free" /\ spawned = 0
    /\ ctxDone = FALSE /\ closed = FALSE /\ panicked = FALSE /\ stopResult = "none"
    /\ wg = 0 /\ pool = 0 /\ loops = 0
    /\ queue = <<>>
    /\ active = {} /\ gone = {}
    /\ status = [j \in Jobs |-> "none"]
    /\ retry = [j \in Jobs |-> 0]
    /\ key = [j \in Jobs |-> "none"]
    /\ subPc = [c \in Clients |-> "idle"] /\ subJob = [c \in Clients |-> NoJob]
    /\ accepted = {}
    /\ dispatcher = "off" /\ held = NoJob
    /\ run = [j \in Jobs |-> "none"]
    /\ collector = "off" /\ removals = {} /\ processed = 0 /\ errors = 0

-----------------------------------------------------------------------------
(* Mutants: the slips the properties are there to catch.  No action of the *)
(* specification uses them.                                                *)

\* updateJobStatus forgets to schedule the removal.
AccountOnly(j, failed) ==
    /\ collector # "locked"
    /\ processed' = processed + 1
    /\ errors' = IF failed THEN errors + 1 ELSE errors
    /\ UNCHANGED removals

\* The waiting goroutine of Stop does not wait.
StopAtOnce ==
    /\ mutex = "stop" /\ mutex' = "free" /\ stopResult' = "ok"
    /\ UNCHANGED <<started, starts, spawned, ctxDone, closed, panicked, wg, poolVars, queue,
                   jobVars, clientVars, dispVars, run, metricVars>>

\* CancelJob accounts for the job like the other terminal updates.
CancelJobAccounted(j) ==
    /\ MayCancel /\ mutex = "free" /\ collector # "locked" /\ j \in active
    /\ gone' = gone \cup {j}
    /\ status' = [status EXCEPT ![j] = "cancelled"]
    /\ processed' = processed + 1 /\ removals' = removals \cup {j}
    /\ UNCHANGED <<lifeVars, wg, poolVars, queue, active, retry, key, clientVars, dispVars,
                   run, collector, errors>>

\* dispatchJob spawns the goroutine without wg.Add.
DispatchUncounted ==
    /\ dispatcher = "hold" /\ pool > 0
    /\ pool' = pool - 1
    /\ run' = [run EXCEPT ![held] = "start"]
    /\ dispatcher' = "idle" /\ held' = NoJob
    /\ UNCHANGED <<lifeVars, wg, loops, queue, jobVars, clientVars, metricVars>>

\* retryCount <= maxRetries.
RunRetryOnceMore(j) ==
    /\ run[j] = "error" /\ retry[j] <= MaxRetries
    /\ retry' = [retry EXCEPT ![j] = @ + 1]
    /\ status' = [status EXCEPT ![j] = "retrying"]
    /\ run' = [run EXCEPT ![j] = "sleep"]
    /\ RunUnchanged /\ UNCHANGED <<wg, queue, metricVars>>

\* The status is failed until the retry starts.
RunRetryAsFailed(j) ==
    /\ run[j] = "error" /\ retry[j] < MaxRetries
    /\ retry' = [retry EXCEPT ![j] = @ + 1]
    /\ status' = [status EXCEPT ![j] = "failed"]
    /\ run' = [run EXCEPT ![j] = "sleep"]
    /\ RunUnchanged /\ UNCHANGED <<wg, queue, metricVars>>

\* The failed requeue is forgotten.
RunDrop(j) ==
    /\ \/ run[j] = "error" /\ retry[j] >= MaxRetries
       \/ run[j] = "sleep" /\ Len(queue) = QueueCap
    /\ status' = [status EXCEPT ![j] = "failed"]
    /\ run' = [run EXCEPT ![j] = "none"]
    /\ wg' = wg - 1
    /\ RunUnchanged /\ UNCHANGED <<queue, retry, metricVars>>

\* After a successful requeue the goroutine carries on to the failure path.
RunRequeueAndFail(j) ==
    /\ run[j] = "sleep" /\ Len(queue) < QueueCap
    /\ queue' = Append(queue, j)
    /\ run' = [run EXCEPT ![j] = "countErr"]
    /\ RunUnchanged /\ UNCHANGED <<wg, status, retry, metricVars>>

-----------------------------------------------------------------------------
(* Shared by the actions.                                                  *)

\* checkIdempotency's condition.
Similar(k) == {j \in active : key[j] = k /\ status[j] \in Live}

\* updateJobStatus writes the status first; a terminal one is then counted under
\* metrics.mu and the job's delayed removal scheduled.
MetricsFree == collector # "locked"

Account(j, failed) ==
    /\ MetricsFree
    /\ processed' = processed + 1
    /\ errors' = IF failed THEN errors + 1 ELSE errors
    /\ removals' = removals \cup {j}

-----------------------------------------------------------------------------
(* Start and Stop hold jobsMutex from their first to their last step.      *)

\* Start with e.started set only returns an error.  A restart is modelled once
\* the previous dispatcher and collector have returned.
StartBegin ==
    /\ mutex = "free" /\ ~started /\ starts < MaxStarts
    /\ dispatcher = "off" /\ collector = "off"
    /\ starts' = starts + 1
    /\ mutex' = "start" /\ spawned' = 0 /\ stopResult' = "none"
    /\ UNCHANGED <<started, ctxDone, closed, panicked, wg, poolVars, queue, jobVars,
                   clientVars, dispVars, run, metricVars>>

\* One turn of startWorkerPool: the send blocks while workerPool is full.  A
\* loop born after e.cancel() returns at its first check.
StartPush ==
    /\ mutex = "start" /\ spawned < MaxWorkers
    /\ pool < MaxWorkers
    /\ pool' = pool + 1
    /\ spawned' = spawned + 1
    /\ IF ctxDone THEN UNCHANGED <<loops, wg>>
                  ELSE loops' = loops + 1 /\ wg' = wg + 1
    /\ UNCHANGED <<started, starts, mutex, ctxDone, closed, panicked, stopResult, queue,
                   jobVars, clientVars, dispVars, run, metricVars>>

\* Only now are the dispatcher and the metrics collector spawned.
StartFinish ==
    /\ mutex = "start" /\ spawned = MaxWorkers
    /\ dispatcher' = "idle" /\ collector' = "idle"
    /\ wg' = wg + 2
    /\ started' = TRUE
    /\ mutex' = "free"
    /\ UNCHANGED <<starts, spawned, ctxDone, closed, panicked, stopResult, poolVars, queue,
                   jobVars, clientVars, held, run, removals, processed, errors>>

\* Stop cancels every registered job, then e.ctx.  A second close(e.shutdown)
\* panics; the process is gone.
StopBegin ==
    /\ MayStop /\ mutex = "free" /\ started
    /\ gone' = gone \cup active
    /\ ctxDone' = TRUE
    /\ closed' = TRUE
    /\ IF closed
       THEN panicked' = TRUE /\ UNCHANGED <<started, mutex>>
       ELSE started' = FALSE /\ mutex' = "stop" /\ UNCHANGED panicked
    /\ UNCHANGED <<starts, spawned, stopResult, wg, poolVars, queue, active, status, retry,
                   key, clientVars, dispVars, run, metricVars>>

StopReturn(result) ==
    /\ mutex = "stop"
    /\ mutex' = "free"
    /\ stopResult' = result
    /\ UNCHANGED <<started, starts, spawned, ctxDone, closed, panicked, wg, poolVars, queue,
                   jobVars, clientVars, dispVars, run, metricVars>>

StopDone == wg = 0 /\ StopReturn("ok")

\* time.After(30 * time.Second).  Unless SlowCalls, every goroutine that can
\* finish does so in time, and the timer only wins against a collector that
\* waits for the mutex Stop itself holds.
StopTimeout == (SlowCalls \/ collector = "locked") /\ StopReturn("timeout")

-----------------------------------------------------------------------------
(* The worker pool.                                                        *)

\* workerLoop puts its worker into the pool whenever there is room, whether or
\* not that worker is processing a job.
LoopPush ==
    /\ loops > 0 /\ pool < MaxWorkers
    /\ pool' = pool + 1
    /\ IF ctxDone THEN loops' = loops - 1 /\ wg' = wg - 1
                  ELSE UNCHANGED <<loops, wg>>
    /\ UNCHANGED <<lifeVars, queue, jobVars, clientVars, dispVars, run, metricVars>>

LoopExit ==
    /\ loops > 0 /\ ctxDone
    /\ loops' = loops - 1 /\ wg' = wg - 1
    /\ UNCHANGED <<lifeVars, pool, queue, jobVars, clientVars, dispVars, run, metricVars>>

-----------------------------------------------------------------------------
(* SubmitJob and CancelJob.                                                *)

\* e.started is read without a lock.
SubmitBegin(c) ==
    /\ subPc[c] = "idle" /\ started
    /\ subPc' = [subPc EXCEPT ![c] = "check"] /\ UNCHANGED subJob
    /\ UNCHANGED <<lifeVars, wg, poolVars, queue, jobVars, accepted, dispVars, run,
                   metricVars>>

\* checkIdempotency finds a job: the caller gets that one.
SubmitExisting(c, k) ==
    /\ subPc[c] = "check" /\ mutex = "free"
    /\ \E j \in Similar(k) : accepted' = accepted \cup {j}
    /\ Return(c)
    /\ UNCHANGED <<lifeVars, wg, poolVars, queue, jobVars, dispVars, run, metricVars>>

\* It finds none and the read lock is released: a new job object is made.
SubmitCreate(c, k) ==
    /\ subPc[c] = "check" /\ mutex = "free"
    /\ Similar(k) = {}
    /\ \E j \in Jobs :
          /\ status[j] = "none"
          /\ status' = [status EXCEPT ![j] = "pending"]
          /\ key' = [key EXCEPT ![j] = k]
          /\ subJob' = [subJob EXCEPT ![c] = j]
    /\ subPc' = [subPc EXCEPT ![c] = "register"]
    /\ UNCHANGED <<lifeVars, wg, poolVars, queue, active, retry, gone, accepted, dispVars,
                   run, metricVars>>

SubmitRegister(c) ==
    /\ subPc[c] = "register" /\ mutex = "free"
    /\ active' = active \cup {subJob[c]}
    /\ subPc' = [subPc EXCEPT ![c] = "enqueue"] /\ UNCHANGED subJob
    /\ UNCHANGED <<lifeVars, wg, poolVars, queue, status, retry, key, gone, accepted,
                   dispVars, run, metricVars>>

SubmitEnqueue(c) ==
    /\ subPc[c] = "enqueue" /\ Len(queue) < QueueCap
    /\ queue' = Append(queue, subJob[c])
    /\ accepted' = accepted \cup {subJob[c]}
    /\ Return(c)
    /\ UNCHANGED <<lifeVars, wg, poolVars, jobVars, dispVars, run, metricVars>>

\* The queue is full, or the caller's context is done.
SubmitReject(c) ==
    /\ subPc[c] = "enqueue"
    /\ Len(queue) = QueueCap \/ subJob[c] \in gone
    /\ subPc' = [subPc EXCEPT ![c] = "unregister"] /\ UNCHANGED subJob
    /\ UNCHANGED <<lifeVars, wg, poolVars, queue, jobVars, accepted, dispVars, run,
                   metricVars>>

SubmitUnregister(c) ==
    /\ subPc[c] = "unregister" /\ mutex = "free"
    /\ active' = active \ {subJob[c]}
    /\ Return(c)
    /\ UNCHANGED <<lifeVars, wg, poolVars, queue, status, retry, key, gone, accepted,
                   dispVars, run, metricVars>>

\* The context a caller passed to SubmitJob, the parent of job.Context, ends.
CallerGone(j) ==
    /\ MayCancel /\ status[j] # "none" /\ j \notin gone
    /\ gone' = gone \cup {j}
    /\ UNCHANGED <<lifeVars, wg, poolVars, queue, active, status, retry, key, clientVars,
                   dispVars, run, metricVars>>

\* CancelJob asks nothing about the job's current status.
CancelJob(j) ==
    /\ MayCancel /\ mutex = "free" /\ j \in active
    /\ gone' = gone \cup {j}
    /\ status' = [status EXCEPT ![j] = "cancelled"]
    /\ UNCHANGED <<lifeVars, wg, poolVars, queue, active, retry, key, clientVars, dispVars,
                   run, metricVars>>

\* removeJob, five minutes after the terminal status.
RemoveLater(j) ==
    /\ j \in removals \cap active /\ mutex = "free"
    /\ active' = active \ {j}
    /\ UNCHANGED <<lifeVars, wg, poolVars, queue, status, retry, key, gone, clientVars,
                   dispVars, run, metricVars>>

-----------------------------------------------------------------------------
(* jobDispatcher and dispatchJob.  Where a select finds both e.ctx.Done()  *)
(* and its channel ready it takes either.                                  *)

DispatchTake ==
    /\ dispatcher = "idle" /\ queue # <<>>
    /\ dispatcher' = "hold" /\ held' = Head(queue)
    /\ queue' = Tail(queue)
    /\ UNCHANGED <<lifeVars, wg, poolVars, jobVars, clientVars, run, metricVars>>

DispatchExit ==
    /\ dispatcher = "idle" /\ ctxDone
    /\ dispatcher' = "off" /\ wg' = wg - 1
    /\ UNCHANGED <<lifeVars, poolVars, queue, jobVars, clientVars, held, run, metricVars>>

DispatchAssign ==
    /\ dispatcher = "hold" /\ pool > 0
    /\ pool' = pool - 1
    /\ run' = [run EXCEPT ![held] = "start"]
    /\ wg' = wg + 1
    /\ dispatcher' = "idle" /\ held' = NoJob
    /\ UNCHANGED <<lifeVars, loops, queue, jobVars, clientVars, metricVars>>

DispatchAbort ==
    /\ dispatcher = "hold" /\ ctxDone
    /\ status' = [status EXCEPT ![held] = "cancelled"]
    /\ dispatcher' = "count"
    /\ UNCHANGED <<lifeVars, wg, poolVars, queue, active, retry, key, gone, clientVars,
                   held, run, metricVars>>

DispatchCount ==
    /\ dispatcher = "count" /\ Account(held, FALSE)
    /\ dispatcher' = "idle" /\ held' = NoJob
    /\ UNCHANGED <<lifeVars, wg, poolVars, queue, jobVars, clientVars, run, collector>>

-----------------------------------------------------------------------------
(* processJobWithWorker.  wg.Done follows the last step that others can    *)
(* see; the worker's own fields, reset in between, are read by nobody.     *)

RunStart(j) ==
    /\ run[j] = "start"
    /\ run' = [run EXCEPT ![j] = "file"]
    /\ status' = [status EXCEPT ![j] = "running"]
    /\ RunUnchanged /\ UNCHANGED <<wg, queue, retry, metricVars>>

\* processFile is past the last call that fails on a cancelled context, the
\* second download, and will succeed; what the importer then makes of a
\* cancellation is FileIngest's matter.
FileSaved(j) ==
    /\ run[j] = "file" /\ j \notin gone
    /\ run' = [run EXCEPT ![j] = "saved"]
    /\ RunUnchanged /\ UNCHANGED <<wg, queue, status, retry, metricVars>>

\* S3 or the JSON processor fails, or one of them notices the cancellation.
FileError(j) ==
    /\ run[j] = "file"
    /\ run' = [run EXCEPT ![j] = "error"]
    /\ RunUnchanged /\ UNCHANGED <<wg, queue, status, retry, metricVars>>

RunComplete(j) ==
    /\ run[j] = "saved"
    /\ run' = [run EXCEPT ![j] = "countOk"]
    /\ status' = [status EXCEPT ![j] = "completed"]
    /\ RunUnchanged /\ UNCHANGED <<wg, queue, retry, metricVars>>

RunRetry(j) ==
    /\ run[j] = "error" /\ retry[j] < MaxRetries
    /\ retry' = [retry EXCEPT ![j] = @ + 1]
    /\ status' = [status EXCEPT ![j] = "retrying"]
    /\ run' = [run EXCEPT ![j] = "sleep"]
    /\ RunUnchanged /\ UNCHANGED <<wg, queue, metricVars>>

RunFail(j) ==
    /\ \/ run[j] = "error" /\ retry[j] >= MaxRetries
       \/ run[j] = "sleep" /\ Len(queue) = QueueCap
    /\ status' = [status EXCEPT ![j] = "failed"]
    /\ run' = [run EXCEPT ![j] = "countErr"]
    /\ RunUnchanged /\ UNCHANGED <<wg, queue, retry, metricVars>>

\* The back-off is over and the queue has room; this goroutine ends.
RunRequeue(j) ==
    /\ run[j] = "sleep" /\ Len(queue) < QueueCap
    /\ queue' = Append(queue, j)
    /\ run' = [run EXCEPT ![j] = "none"]
    /\ wg' = wg - 1
    /\ RunUnchanged /\ UNCHANGED <<status, retry, metricVars>>

RunCount(j) ==
    /\ run[j] \in Counting /\ Account(j, run[j] = "countErr")
    /\ run' = [run EXCEPT ![j] = "none"]
    /\ wg' = wg - 1
    /\ RunUnchanged /\ UNCHANGED <<queue, status, retry, collector>>

-----------------------------------------------------------------------------
(* metricsCollector: updateMetrics takes metrics.mu, then a read lock on   *)
(* jobsMutex.  The gauges it writes are left out.                          *)

CollectorTick ==
    /\ collector = "idle"
    /\ collector' = "locked"
    /\ UNCHANGED <<lifeVars, wg, poolVars, queue, jobVars, clientVars, dispVars, run,
                   removals, processed, errors>>

CollectorRead ==
    /\ collector = "locked" /\ mutex = "free"
    /\ collector' = "idle"
    /\ UNCHANGED <<lifeVars, wg, poolVars, queue, jobVars, clientVars, dispVars, run,
                   removals, processed, errors>>

CollectorExit ==
    /\ collector = "idle" /\ ctxDone
    /\ collector' = "off" /\ wg' = wg - 1
    /\ UNCHANGED <<lifeVars, poolVars, queue, jobVars, clientVars, dispVars, run, removals,
                   processed, errors>>

-----------------------------------------------------------------------------
Lifecycle == StartBegin \/ StartPush \/ StartFinish \/ StopBegin \/ StopDone \/ StopTimeout

Pool == LoopPush \/ LoopExit

Submit(c) ==
    \/ SubmitBegin(c) \/ SubmitRegister(c) \/ SubmitEnqueue(c)
    \/ SubmitReject(c) \/ SubmitUnregister(c)
    \/ \E k \in Keys : SubmitExisting(c, k) \/ SubmitCreate(c, k)

Dispatch ==
    DispatchTake \/ DispatchExit \/ DispatchAssign \/ DispatchAbort \/ DispatchCount

Process(j) ==
    \/ RunStart(j) \/ FileSaved(j) \/ FileError(j) \/ RunComplete(j)
    \/ RunRetry(j) \/ RunFail(j) \/ RunRequeue(j) \/ RunCount(j)

Collect == CollectorTick \/ CollectorRead \/ CollectorExit

Next ==
    /\ ~panicked  \* a panic ends the process
    /\ \/ Lifecycle \/ Pool \/ Dispatch \/ Collect
       \/ \E c \in Clients : Submit(c)
       \/ \E j \in Jobs : Process(j) \/ CallerGone(j) \/ CancelJob(j) \/ RemoveLater(j)

Spec == Init /\ [][Next]_vars

\* The Go scheduler runs every runnable goroutine; timers and external calls
\* return.  Counting waits for metrics.mu, which the collector keeps taking:
\* Go's mutex is starvation free, hence strong fairness.  Callers and the
\* owner of the engine need never call.
Up == ~panicked

Fairness ==
    /\ WF_vars(Up /\ (StartPush \/ StartFinish)) /\ WF_vars(Up /\ StopDone)
    /\ WF_vars(Up /\ StopTimeout)
    /\ WF_vars(Up /\ Pool)
    /\ WF_vars(Up /\ (DispatchTake \/ DispatchAssign)) /\ WF_vars(Up /\ DispatchExit)
    /\ SF_vars(Up /\ DispatchCount)
    /\ WF_vars(Up /\ CollectorRead) /\ WF_vars(Up /\ CollectorExit)
    /\ \A c \in Clients : WF_vars(Up /\ subPc[c] # "idle" /\ Submit(c))
    /\ \A j \in Jobs :
          /\ WF_vars(Up /\ Process(j)) /\ SF_vars(Up /\ RunCount(j))
          /\ WF_vars(Up /\ RemoveLater(j))

FairSpec == Spec /\ Fairness

-----------------------------------------------------------------------------
(* Properties.                                                             *)

Submitting(j) == \E c \in Clients : subJob[c] = j /\ subPc[c] # "unregister"
Queued(j)     == \E i \in DOMAIN queue : queue[i] = j

OneSubmitter == \A c, d \in Clients : subJob[c] = subJob[d] /\ subJob[c] # NoJob => c = d
QueuedOnce   == \A i, k \in DOMAIN queue : queue[i] = queue[k] => i = k
OnePlace(j) ==
    /\ Submitting(j)   => ~Queued(j) /\ held # j /\ run[j] = "none" /\ j \notin removals
    /\ Queued(j)       => held # j /\ run[j] = "none" /\ j \notin removals
    /\ held = j        => run[j] = "none" /\ j \notin removals
    /\ run[j] # "none" => j \notin removals

\* A job is in one place: with the thread that submits it, in one slot of the
\* queue, in the dispatcher's hands, with one processing goroutine, or in the
\* history of accounted jobs.  SubmitJob, dispatchJob and the requeue of
\* processJobWithWorker hand it over without ever sharing it, so no file is
\* processed by two goroutines on behalf of one job.
JobOwnership == OneSubmitter /\ QueuedOnce /\ \A j \in Jobs : OnePlace(j)

InSubmit(j) == \E c \in Clients : subJob[c] = j
NotLost(j) ==
    j \in active => InSubmit(j) \/ Queued(j) \/ held = j \/ run[j] # "none" \/ j \in removals

\* A registered job never falls between the hand-overs: somebody still has to
\* act on it, or its delayed removal from activeJobs is scheduled.
NoJobLost == \A j \in Jobs : NotLost(j)

\* TotalJobsProcessed counts every job that went through the engine exactly
\* once, whatever mixture of retries, cancellations and shutdown it met.
AccountedOnce == processed = Cardinality(removals) /\ errors <= processed

\* A job seen completed or failed is never seen running or retrying again; the
\* only later change is CancelJob's, which does not look at the status.
FinishedIsFinal ==
    [][\A j \in Jobs : status[j] \in Finished => status'[j] \in {status[j], "cancelled"}]_vars

\* An id not used yet is nowhere.
Fresh(j) ==
    status[j] = "none" =>
        /\ ~InSubmit(j) /\ ~Queued(j) /\ held # j /\ run[j] = "none"
        /\ j \notin active /\ j \notin removals

\* Whoever still has work to do on a job finds its status not finished.
Unfinished(j) ==
    status[j] \in Finished =>
        /\ ~Submitting(j) /\ ~Queued(j) /\ run[j] \notin Working
        /\ dispatcher = "hold" => held # j

\* The inductive strengthening of JobOwnership, NoJobLost and FinishedIsFinal.
\* Start finds no dispatcher, so none holds a job when it spawns one.
Custody ==
    /\ mutex = "start" => dispatcher = "off" /\ collector = "off"
    /\ dispatcher \in {"hold", "count"} <=> held # NoJob
    /\ OneSubmitter /\ QueuedOnce
    /\ \A j \in Jobs : OnePlace(j) /\ NotLost(j) /\ Fresh(j) /\ Unfinished(j)

\* The WaitGroup counts exactly the goroutines Stop has to wait for.
WaitGroupExact ==
    wg = loops + Cardinality({j \in Jobs : run[j] # "none"})
              + (IF dispatcher = "off" THEN 0 ELSE 1) + (IF collector = "off" THEN 0 ELSE 1)

\* Once Stop returned nil, no job is processed any more, not even one a slow
\* SubmitJob enqueues afterwards.
QuietAfterStop ==
    stopResult = "ok" => dispatcher = "off" /\ \A j \in Jobs : run[j] = "none"

\* "checks if a similar job is already running": checkIdempotency keeps at most
\* one live job per provider and file.  It does so for one caller at a time.
OneLiveJobPerKey ==
    \A j, k \in active :
        key[j] = key[k] /\ status[j] \in Live /\ status[k] \in Live => j = k

\* "Idempotent job found, returning existing job": a job SubmitJob returned
\* without error is, or was, processed; it is not dropped by another submitter,
\* the one that created it and found the queue full.
AcceptedIsProcessed ==
    \A j \in accepted : Queued(j) \/ held = j \/ run[j] # "none" \/ j \in removals

\* Where JobLifecycle sees a job: what the engine's queue, dispatcher and
\* goroutines hold, told as one phase.
Phase(j) ==
    IF j \in removals THEN "concluded"
    ELSE IF run[j] # "none" THEN "working"
    ELSE IF Submitting(j) \/ Queued(j) \/ held = j THEN "waiting"
    ELSE IF status[j] = "none" THEN "new" ELSE "rejected"

Life == INSTANCE JobLifecycle WITH
    phase <- [j \in Jobs |-> Phase(j)], attempts <- retry, known <- active, failures <- errors

\* The engine, with its pool, its locks, its Start, Stop and cancellations,
\* implements the life of a job: every step of any goroutine is one of the
\* steps JobLifecycle allows, or changes nothing it speaks of.
ImplementsLifecycle == Life!Spec

\* While the engine runs, every registered job is eventually dealt with and
\* leaves activeJobs: neither the queue, nor retries, nor the registry leak.
JobsDrain == \A j \in Jobs : j \in active ~> j \notin active

\* "orchestrates file processing with worker pools and concurrency control":
\* no more files are processed at once than there are workers.
RunningBounded == Cardinality({j \in Jobs : run[j] = "file"}) <= MaxWorkers

\* "Start starts the processing engine": a Start that found the engine stopped
\* eventually leaves it started.
StartCompletes == mutex = "start" ~> started

\* "CancelJob cancels a processing job": a cancelled job stays cancelled.
CancelledIsFinal ==
    [][\A j \in Jobs : status[j] = "cancelled" => status'[j] = "cancelled"]_vars

\* "Stop stops the processing engine gracefully": when every call in flight
\* returns in time, Stop does not run into its timeout.
StopIsGraceful == stopResult # "timeout"

\* The integration tests Start one engine again after Stop: a started engine
\* serves jobs, its context is not a cancelled one.
StartedServes == started => ~ctxDone
==============================================================================
