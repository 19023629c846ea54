----------------------- MODULE ProcessingEngine_proofs -----------------------
(***************************************************************************)
(* Theorems about the processing engine, for any number of clients, jobs,  *)
(* workers, retries and starts and any queue capacity.                     *)
(***************************************************************************)
EXTENDS ProcessingEngine, FiniteSetTheorems, TLAPS

-----------------------------------------------------------------------------
(* Facts about the file queue.                                             *)

LEMMA AppendFacts ==
    ASSUME NEW q \in Seq(Jobs), NEW x \in Jobs
    PROVE  /\ Append(q, x) \in Seq(Jobs)
           /\ Len(Append(q, x)) = Len(q) + 1
           /\ DOMAIN Append(q, x) = 1..(Len(q) + 1)
           /\ \A i \in 1..Len(q) : Append(q, x)[i] = q[i]
           /\ Append(q, x)[Len(q) + 1] = x
    OBVIOUS

LEMMA TailFacts ==
    ASSUME NEW q \in Seq(Jobs), q # <<>>
    PROVE  /\ Head(q) \in Jobs /\ Head(q) = q[1]
           /\ Tail(q) \in Seq(Jobs)
           /\ Len(q) \in Nat \ {0}
           /\ Len(Tail(q)) = Len(q) - 1
           /\ DOMAIN Tail(q) = 1..(Len(q) - 1)
           /\ \A i \in 1..(Len(q) - 1) : Tail(q)[i] = q[i + 1]
    OBVIOUS

-----------------------------------------------------------------------------
(* Type correctness.                                                       *)

\* What a step leaves alone keeps its type.
LEMMA TypeFrame ==
    /\ LifeOK /\ UNCHANGED lifeVars => LifeOK'
    /\ PoolOK /\ UNCHANGED <<wg, poolVars>> => PoolOK'
    /\ QueueOK /\ UNCHANGED queue => QueueOK'
    /\ JobOK /\ UNCHANGED jobVars => JobOK'
    /\ ClientOK /\ UNCHANGED clientVars => ClientOK'
    /\ DispOK /\ UNCHANGED dispVars => DispOK'
    /\ RunOK /\ UNCHANGED run => RunOK'
    /\ MetricOK /\ UNCHANGED metricVars => MetricOK'
<1>1. LifeOK /\ UNCHANGED lifeVars => LifeOK'
  BY DEF LifeOK, lifeVars
<1>2. PoolOK /\ UNCHANGED <<wg, poolVars>> => PoolOK'
  BY DEF PoolOK, poolVars
<1>3. QueueOK /\ UNCHANGED queue => QueueOK'
  BY DEF QueueOK
<1>4. JobOK /\ UNCHANGED jobVars => JobOK'
  BY DEF JobOK, jobVars
<1>5. ClientOK /\ UNCHANGED clientVars => ClientOK'
  BY DEF ClientOK, clientVars
<1>6. DispOK /\ UNCHANGED dispVars => DispOK'
  BY DEF DispOK, dispVars
<1>7. RunOK /\ UNCHANGED run => RunOK'
  BY DEF RunOK
<1>8. MetricOK /\ UNCHANGED metricVars => MetricOK'
  BY DEF MetricOK, metricVars
<1>9. QED BY <1>1, <1>2, <1>3, <1>4, <1>5, <1>6, <1>7, <1>8

LEMMA InitType == Init => TypeOK
<1> SUFFICES ASSUME Init PROVE TypeOK
  OBVIOUS
<1> USE EngineAssumption DEF Init
<1>1. LifeOK
  <2>1. starts \in 0..MaxStarts /\ spawned \in 0..MaxWorkers
    OBVIOUS
  <2>2. QED BY <2>1, Zenon DEF LifeOK
<1>2. PoolOK /\ QueueOK
  BY DEF PoolOK, QueueOK
<1>3. JobOK
  BY DEF JobOK
<1>4. ClientOK
  BY DEF ClientOK
<1>5. DispOK /\ RunOK /\ MetricOK
  BY DEF DispOK, RunOK, MetricOK
<1>6. QED BY <1>1, <1>2, <1>3, <1>4, <1>5 DEF TypeOK

LEMMA StepType == TypeOK /\ [Next]_vars => TypeOK'
<1> SUFFICES ASSUME TypeOK, [Next]_vars PROVE TypeOK'
  OBVIOUS
<1> USE EngineAssumption, TypeFrame DEF TypeOK
<1>1. CASE Lifecycle
  <2>1. CASE StartBegin
    BY <2>1 DEF StartBegin, LifeOK
  <2>2. CASE StartPush
    BY <2>2 DEF StartPush, LifeOK, PoolOK, poolVars
  <2>3. CASE StartFinish
    BY <2>3 DEF StartFinish, LifeOK, PoolOK, poolVars, DispOK, MetricOK
  <2>4. CASE StopBegin
    <3>1. LifeOK'
      BY <2>4 DEF StopBegin, LifeOK
    <3>2. JobOK'
      BY <2>4 DEF StopBegin, JobOK
    <3>3. QED BY <2>4, <3>1, <3>2 DEF StopBegin
  <2>5. ASSUME NEW r \in {"ok", "timeout"}, StopReturn(r) PROVE TypeOK'
    BY <2>5 DEF StopReturn, LifeOK
  <2>6. QED BY <1>1, <2>1, <2>2, <2>3, <2>4, <2>5 DEF Lifecycle, StopDone, StopTimeout
<1>2. CASE Pool
  BY <1>2 DEF Pool, LoopPush, LoopExit, PoolOK, poolVars
<1>3. CASE Dispatch
  <2>1. CASE DispatchTake
    BY <2>1, TailFacts DEF DispatchTake, QueueOK, DispOK
  <2>2. CASE DispatchExit
    BY <2>2 DEF DispatchExit, DispOK, PoolOK, poolVars
  <2>3. CASE DispatchAssign
    <3>1. PoolOK' /\ DispOK'
      BY <2>3 DEF DispatchAssign, PoolOK, DispOK
    <3>2. RunOK'
      BY <2>3 DEF DispatchAssign, RunOK, Working
    <3>3. QED BY <2>3, <3>1, <3>2 DEF DispatchAssign
  <2>4. CASE DispatchAbort
    <3>1. DispOK'
      BY <2>4 DEF DispatchAbort, DispOK
    <3>2. JobOK'
      BY <2>4 DEF DispatchAbort, JobOK, Status
    <3>3. QED BY <2>4, <3>1, <3>2 DEF DispatchAbort
  <2>5. CASE DispatchCount
    BY <2>5 DEF DispatchCount, Account, DispOK, MetricOK
  <2>6. QED BY <1>3, <2>1, <2>2, <2>3, <2>4, <2>5 DEF Dispatch
<1>4. CASE Collect
  BY <1>4 DEF Collect, CollectorTick, CollectorRead, CollectorExit, MetricOK, PoolOK, poolVars
<1>5. ASSUME NEW c \in Clients, Submit(c) PROVE TypeOK'
  <2>1. CASE SubmitBegin(c)
    BY <2>1 DEF SubmitBegin, ClientOK
  <2>2. CASE SubmitReject(c)
    BY <2>2 DEF SubmitReject, ClientOK
  <2>3. CASE SubmitUnregister(c)
    BY <2>3 DEF SubmitUnregister, Return, ClientOK, JobOK
  <2>4. CASE SubmitRegister(c)
    <3>1. subJob[c] \in Jobs
      BY <2>4 DEF SubmitRegister, ClientOK
    <3>2. QED BY <2>4, <3>1 DEF SubmitRegister, ClientOK, JobOK
  <2>5. CASE SubmitEnqueue(c)
    <3>1. subJob[c] \in Jobs
      BY <2>5 DEF SubmitEnqueue, ClientOK
    <3>2. QueueOK'
      BY <2>5, <3>1, AppendFacts DEF SubmitEnqueue, QueueOK
    <3>3. ClientOK'
      BY <2>5, <3>1 DEF SubmitEnqueue, Return, ClientOK
    <3>4. QED BY <2>5, <3>2, <3>3 DEF SubmitEnqueue
  <2>6. ASSUME NEW k \in Keys, SubmitExisting(c, k) PROVE TypeOK'
    BY <2>6 DEF SubmitExisting, Similar, Return, ClientOK, JobOK
  <2>7. ASSUME NEW k \in Keys, SubmitCreate(c, k) PROVE TypeOK'
    <3>1. PICK j \in Jobs : /\ status' = [status EXCEPT ![j] = "pending"]
                            /\ key' = [key EXCEPT ![j] = k]
                            /\ subJob' = [subJob EXCEPT ![c] = j]
      BY <2>7 DEF SubmitCreate
    <3>2. JobOK'
      BY <2>7, <3>1 DEF SubmitCreate, JobOK, Status, Live
    <3>3. ClientOK'
      BY <2>7, <3>1 DEF SubmitCreate, ClientOK
    <3>4. QED BY <2>7, <3>2, <3>3 DEF SubmitCreate
  <2>8. QED BY <1>5, <2>1, <2>2, <2>3, <2>4, <2>5, <2>6, <2>7 DEF Submit
<1>6. ASSUME NEW j \in Jobs, Process(j) PROVE TypeOK'
  <2> USE DEF RunUnchanged, RunOK, Working, Counting
  <2>1. CASE RunStart(j)
    BY <2>1 DEF RunStart, JobOK, jobVars, PoolOK, poolVars, Status, Live
  <2>2. CASE FileSaved(j) \/ FileError(j)
    BY <2>2 DEF FileSaved, FileError, JobOK, jobVars, PoolOK, poolVars
  <2>3. CASE RunComplete(j)
    BY <2>3 DEF RunComplete, JobOK, PoolOK, poolVars, Status, Finished
  <2>4. CASE RunRetry(j)
    BY <2>4 DEF RunRetry, JobOK, PoolOK, poolVars, Status, Live
  <2>5. CASE RunFail(j)
    BY <2>5 DEF RunFail, JobOK, PoolOK, poolVars, Status, Finished
  <2>6. CASE RunRequeue(j)
    BY <2>6, AppendFacts DEF RunRequeue, JobOK, QueueOK, PoolOK, poolVars
  <2>7. CASE RunCount(j)
    BY <2>7 DEF RunCount, Account, JobOK, PoolOK, poolVars, MetricOK
  <2>8. QED BY <1>6, <2>1, <2>2, <2>3, <2>4, <2>5, <2>6, <2>7 DEF Process
<1>7. ASSUME NEW j \in Jobs, CallerGone(j) \/ CancelJob(j) \/ RemoveLater(j) PROVE TypeOK'
  BY <1>7 DEF CallerGone, CancelJob, RemoveLater, JobOK, Status
<1>8. CASE UNCHANGED vars
  BY <1>8 DEF vars
<1>9. QED BY <1>1, <1>2, <1>3, <1>4, <1>5, <1>6, <1>7, <1>8 DEF Next

\* Every reachable state is well typed.
THEOREM TypeCorrect == Spec => []TypeOK
BY InitType, StepType, PTL DEF Spec

-----------------------------------------------------------------------------
(* Custody of the jobs.                                                    *)

LEMMA QueueAppend ==
    ASSUME QueueOK, QueuedOnce, NEW j \in Jobs, ~Queued(j), queue' = Append(queue, j)
    PROVE  QueuedOnce' /\ \A k \in Jobs : Queued(k)' <=> Queued(k) \/ k = j
<1>1. queue \in Seq(Jobs) /\ Len(queue) \in Nat /\ DOMAIN queue = 1..Len(queue)
  BY DEF QueueOK
<1>2. /\ DOMAIN queue' = 1..(Len(queue) + 1)
      /\ \A i \in 1..Len(queue) : queue'[i] = queue[i]
      /\ queue'[Len(queue) + 1] = j
  BY <1>1, AppendFacts
<1>3. QueuedOnce'
  BY <1>1, <1>2 DEF QueuedOnce, Queued
<1>4. ASSUME NEW k \in Jobs PROVE Queued(k)' <=> Queued(k) \/ k = j
  BY <1>1, <1>2 DEF Queued
<1>5. QED BY <1>3, <1>4

LEMMA QueueTail ==
    ASSUME QueueOK, QueuedOnce, queue # <<>>, queue' = Tail(queue)
    PROVE  /\ QueuedOnce' /\ Head(queue) \in Jobs /\ Queued(Head(queue))
           /\ \A k \in Jobs : Queued(k)' <=> Queued(k) /\ k # Head(queue)
<1>1. /\ queue \in Seq(Jobs) /\ Len(queue) \in Nat \ {0} /\ DOMAIN queue = 1..Len(queue)
      /\ DOMAIN queue' = 1..(Len(queue) - 1)
      /\ \A i \in 1..(Len(queue) - 1) : queue'[i] = queue[i + 1]
      /\ Head(queue) = queue[1] /\ Head(queue) \in Jobs
  BY TailFacts DEF QueueOK
<1>2. QueuedOnce'
  BY <1>1 DEF QueuedOnce
<1>3. Queued(Head(queue))
  BY <1>1 DEF Queued
<1>4. ASSUME NEW k \in Jobs PROVE Queued(k)' <=> Queued(k) /\ k # Head(queue)
  <2>1. ASSUME Queued(k)' PROVE Queued(k) /\ k # Head(queue)
    <3>1. PICK i \in 1..(Len(queue) - 1) : queue[i + 1] = k
      BY <2>1, <1>1 DEF Queued
    <3>2. i + 1 \in DOMAIN queue /\ 1 \in DOMAIN queue /\ i + 1 # 1
      BY <1>1
    <3>3. QED BY <3>1, <3>2, <1>1 DEF Queued, QueuedOnce
  <2>2. ASSUME Queued(k), k # Head(queue) PROVE Queued(k)'
    <3>1. PICK i \in 1..Len(queue) : queue[i] = k
      BY <2>2, <1>1 DEF Queued
    <3>2. i - 1 \in 1..(Len(queue) - 1)
      BY <3>1, <2>2, <1>1
    <3>3. queue'[i - 1] = k
      BY <3>1, <3>2, <1>1
    <3>4. QED BY <3>2, <3>3, <1>1 DEF Queued
  <2>3. QED BY <2>1, <2>2
<1>5. QED BY <1>1, <1>2, <1>3, <1>4

LEMMA InitCustody == Init => Custody
BY EngineAssumption DEF Init, Custody, OneSubmitter, QueuedOnce, OnePlace, NotLost, Fresh,
   Unfinished, Submitting, InSubmit, Queued, Working, Finished

\* The variables custody is about.
custodyVars == <<subPc, subJob, queue, held, dispatcher, run, removals, status, active>>

LEMMA CustodyFrame ==
    Custody /\ UNCHANGED <<custodyVars, mutex, collector>> => Custody'
BY DEF Custody, custodyVars, OneSubmitter, QueuedOnce, OnePlace, NotLost, Fresh, Unfinished,
       Submitting, InSubmit, Queued

LEMMA LifeCustody == TypeOK /\ Custody /\ (Lifecycle \/ Pool \/ Collect) => Custody'
<1> SUFFICES ASSUME TypeOK, Custody, Lifecycle \/ Pool \/ Collect PROVE Custody'
  OBVIOUS
<1>1. UNCHANGED <<subPc, subJob, queue, held, run, removals, status, active>>
  BY DEF Lifecycle, StartBegin, StartPush, StartFinish, StopBegin, StopDone, StopTimeout,
         StopReturn, Pool, LoopPush, LoopExit, Collect, CollectorTick, CollectorRead,
         CollectorExit, jobVars, clientVars, dispVars, metricVars
<1>2. /\ mutex' = "start" => dispatcher' = "off" /\ collector' = "off"
      /\ dispatcher' # dispatcher => dispatcher = "off" /\ dispatcher' = "idle"
  <2>0. mutex = "start" => dispatcher = "off" /\ collector = "off"
    BY DEF Custody
  <2>1. CASE StartBegin \/ StartPush \/ StartFinish
    BY <2>0, <2>1 DEF StartBegin, StartPush, StartFinish, dispVars, metricVars
  <2>2. CASE StopBegin \/ StopDone \/ StopTimeout
    BY <2>0, <2>2 DEF StopBegin, StopDone, StopTimeout, StopReturn, dispVars, metricVars
  <2>3. CASE Pool
    BY <2>0, <2>3 DEF Pool, LoopPush, LoopExit, lifeVars, dispVars, metricVars
  <2>4. CASE Collect
    BY <2>0, <2>4 DEF Collect, CollectorTick, CollectorRead, CollectorExit, lifeVars, dispVars
  <2>5. QED BY <2>1, <2>2, <2>3, <2>4 DEF Lifecycle
<1>3. QED
  BY <1>1, <1>2 DEF Custody, OneSubmitter, QueuedOnce, OnePlace, NotLost, Fresh, Unfinished,
                    Submitting, InSubmit, Queued

LEMMA DispatchCustody == TypeOK /\ Custody /\ Dispatch => Custody'
<1> SUFFICES ASSUME TypeOK, Custody, Dispatch PROVE Custody'
  OBVIOUS
<1> USE DEF Custody, OneSubmitter, OnePlace, NotLost, Fresh, Unfinished, Submitting, InSubmit
<1>0. UNCHANGED <<subPc, subJob, mutex, active>> /\ (collector' = "off" <=> collector = "off")
  BY DEF Dispatch, DispatchTake, DispatchExit, DispatchAssign, DispatchAbort, DispatchCount,
         Account, MetricsFree, lifeVars, clientVars, jobVars, metricVars
<1>1. CASE DispatchTake
  BY <1>0, <1>1, QueueTail, EngineAssumption
  DEF DispatchTake, TypeOK, jobVars, metricVars
<1>2. CASE DispatchExit
  BY <1>0, <1>2 DEF DispatchExit, jobVars, metricVars, QueuedOnce, Queued
<1>3. CASE DispatchAssign
  <2>1. /\ held \in Jobs /\ held' = NoJob /\ dispatcher' = "idle"
        /\ UNCHANGED <<queue, status, removals>>
        /\ \A k \in Jobs : run'[k] = IF k = held THEN "start" ELSE run[k]
    BY <1>3 DEF DispatchAssign, jobVars, metricVars, TypeOK, RunOK, DispOK
  <2>2. QueuedOnce' /\ \A k \in Jobs : Queued(k)' <=> Queued(k)
    BY <2>1 DEF QueuedOnce, Queued
  <2>3. QED BY <1>0, <1>3, <2>1, <2>2, EngineAssumption DEF DispatchAssign, Working
<1>4. CASE DispatchAbort
  BY <1>0, <1>4 DEF DispatchAbort, jobVars, metricVars, QueuedOnce, Queued, TypeOK, JobOK,
                    DispOK, Finished
<1>5. CASE DispatchCount
  <2>1. /\ held \in Jobs /\ held' = NoJob /\ dispatcher' = "idle"
        /\ UNCHANGED <<queue, status, run>>
        /\ removals' = removals \cup {held}
    BY <1>5 DEF DispatchCount, Account, jobVars, TypeOK, DispOK
  <2>2. QueuedOnce' /\ \A k \in Jobs : Queued(k)' <=> Queued(k)
    BY <2>1 DEF QueuedOnce, Queued
  <2>3. QED BY <1>0, <1>5, <2>1, <2>2, EngineAssumption DEF DispatchCount
<1>6. QED BY <1>1, <1>2, <1>3, <1>4, <1>5 DEF Dispatch

LEMMA SubmitCustody == ASSUME TypeOK, Custody, NEW c \in Clients, Submit(c) PROVE Custody'
<1> USE DEF Custody, OneSubmitter, OnePlace, NotLost, Fresh, Unfinished, Submitting, InSubmit
<1>0. UNCHANGED <<held, dispatcher, run, removals, mutex, collector>>
  BY DEF Submit, SubmitBegin, SubmitExisting, SubmitCreate, SubmitRegister, SubmitEnqueue,
         SubmitReject, SubmitUnregister, lifeVars, dispVars, metricVars
<1>1. CASE SubmitBegin(c) \/ SubmitReject(c)
  BY <1>0, <1>1 DEF SubmitBegin, SubmitReject, jobVars, QueuedOnce, Queued, TypeOK, ClientOK
<1>2. ASSUME NEW k \in Keys, SubmitExisting(c, k) PROVE Custody'
  BY <1>0, <1>2 DEF SubmitExisting, Return, jobVars, QueuedOnce, Queued, TypeOK, ClientOK
<1>3. ASSUME NEW k \in Keys, SubmitCreate(c, k) PROVE Custody'
  <2>1. PICK j \in Jobs : /\ status[j] = "none"
                          /\ status' = [status EXCEPT ![j] = "pending"]
                          /\ subJob' = [subJob EXCEPT ![c] = j]
    BY <1>3 DEF SubmitCreate
  <2>2. /\ \A i \in Jobs : status'[i] = IF i = j THEN "pending" ELSE status[i]
        /\ \A d \in Clients : subJob'[d] = IF d = c THEN j ELSE subJob[d]
        /\ \A d \in Clients : subPc'[d] = IF d = c THEN "register" ELSE subPc[d]
        /\ UNCHANGED <<queue, active>>
    BY <1>3, <2>1 DEF SubmitCreate, TypeOK, JobOK, ClientOK
  <2>3. QueuedOnce' /\ \A i \in Jobs : Queued(i)' <=> Queued(i)
    BY <2>2 DEF QueuedOnce, Queued
  <2>4. subJob[c] = NoJob
    BY <1>3 DEF SubmitCreate, TypeOK, ClientOK
  <2>5. ASSUME NEW i \in Jobs
        PROVE  OnePlace(i)' /\ NotLost(i)' /\ Fresh(i)' /\ Unfinished(i)'
    <3>1. CASE i = j
      BY <1>0, <2>1, <2>2, <2>3, <3>1 DEF Finished
    <3>2. CASE i # j
      BY <1>0, <2>2, <2>3, <2>4, <3>2, EngineAssumption
    <3>3. QED BY <3>1, <3>2
  <2>6. QED BY <1>0, <2>1, <2>2, <2>3, <2>4, <2>5
<1>4. CASE SubmitRegister(c)
  BY <1>0, <1>4 DEF SubmitRegister, QueuedOnce, Queued, TypeOK, ClientOK
<1>5. CASE SubmitEnqueue(c)
  <2> DEFINE j == subJob[c]
  <2>1. /\ j \in Jobs /\ Submitting(j) /\ queue' = Append(queue, j)
        /\ \A d \in Clients : subJob'[d] = IF d = c THEN NoJob ELSE subJob[d]
        /\ \A d \in Clients : subPc'[d] = IF d = c THEN "idle" ELSE subPc[d]
        /\ UNCHANGED <<status, active>>
    BY <1>5 DEF SubmitEnqueue, Return, jobVars, TypeOK, ClientOK
  <2> HIDE DEF j
  <2>2. QueuedOnce' /\ \A i \in Jobs : Queued(i)' <=> Queued(i) \/ i = j
    BY <2>1, QueueAppend DEF TypeOK
  <2>3. ASSUME NEW i \in Jobs
        PROVE  OnePlace(i)' /\ NotLost(i)' /\ Fresh(i)' /\ Unfinished(i)'
    <3>1. CASE i = j
      BY <1>0, <2>1, <2>2, <3>1, EngineAssumption DEF j
    <3>2. CASE i # j
      BY <1>0, <2>1, <2>2, <3>2, EngineAssumption DEF j
    <3>3. QED BY <3>1, <3>2
  <2>4. QED BY <1>0, <2>1, <2>2, <2>3
<1>6. CASE SubmitUnregister(c)
  <2>1. /\ subJob[c] \in Jobs /\ active' = active \ {subJob[c]}
        /\ \A d \in Clients : subJob'[d] = IF d = c THEN NoJob ELSE subJob[d]
        /\ \A d \in Clients : subPc'[d] = IF d = c THEN "idle" ELSE subPc[d]
        /\ UNCHANGED <<status, queue>>
    BY <1>6 DEF SubmitUnregister, Return, TypeOK, ClientOK
  <2>2. QueuedOnce' /\ \A i \in Jobs : Queued(i)' <=> Queued(i)
    BY <2>1 DEF QueuedOnce, Queued
  <2>3. ASSUME NEW i \in Jobs
        PROVE  OnePlace(i)' /\ NotLost(i)' /\ Fresh(i)' /\ Unfinished(i)'
    BY <1>0, <2>1, <2>2, EngineAssumption
  <2>4. QED BY <1>0, <2>1, <2>2, <2>3
<1>7. QED BY <1>1, <1>2, <1>3, <1>4, <1>5, <1>6 DEF Submit

LEMMA ProcessCustody == ASSUME TypeOK, Custody, NEW j \in Jobs, Process(j) PROVE Custody'
<1> USE DEF Custody, OneSubmitter, OnePlace, NotLost, Fresh, Unfinished, Submitting, InSubmit
<1>0. UNCHANGED <<subPc, subJob, held, dispatcher, active, mutex, collector>>
  BY DEF Process, RunStart, FileSaved, FileError, RunComplete, RunRetry, RunFail, RunRequeue,
         RunCount, RunUnchanged, Account, lifeVars, clientVars, dispVars, metricVars
<1>1. CASE RunStart(j) \/ RunRetry(j)
  BY <1>0, <1>1 DEF RunStart, RunRetry, QueuedOnce, Queued, TypeOK, RunOK, JobOK, metricVars,
                    Working, Finished
<1>2. CASE FileSaved(j) \/ FileError(j)
  BY <1>0, <1>2 DEF FileSaved, FileError, QueuedOnce, Queued, TypeOK, RunOK, metricVars,
                    Working
<1>3. CASE RunComplete(j) \/ RunFail(j)
  BY <1>0, <1>3 DEF RunComplete, RunFail, QueuedOnce, Queued, TypeOK, RunOK, JobOK,
                    metricVars, Working
<1>4. CASE RunRequeue(j)
  BY <1>0, <1>4, QueueAppend DEF RunRequeue, TypeOK, RunOK, metricVars, Working
<1>5. CASE RunCount(j)
  BY <1>0, <1>5 DEF RunCount, Account, QueuedOnce, Queued, TypeOK, RunOK, Working, Counting
<1>6. QED BY <1>1, <1>2, <1>3, <1>4, <1>5 DEF Process

LEMMA RegistryCustody ==
    ASSUME TypeOK, Custody, NEW j \in Jobs, CallerGone(j) \/ CancelJob(j) \/ RemoveLater(j)
    PROVE  Custody'
BY DEF CallerGone, CancelJob, RemoveLater, lifeVars, clientVars, dispVars, metricVars, Custody,
       OneSubmitter, QueuedOnce, OnePlace, NotLost, Fresh, Unfinished, Submitting, InSubmit,
       Queued, TypeOK, JobOK, Finished

\* The inductive invariant.
THEOREM CustodyKept == Spec => []Custody
<1>1. TypeOK /\ Custody /\ [Next]_vars => Custody'
  <2> SUFFICES ASSUME TypeOK, Custody, [Next]_vars PROVE Custody'
    OBVIOUS
  <2>1. CASE UNCHANGED vars
    BY <2>1, CustodyFrame DEF vars, custodyVars, lifeVars, jobVars, clientVars, dispVars,
                              metricVars
  <2>2. QED BY <2>1, LifeCustody, DispatchCustody, SubmitCustody, ProcessCustody,
               RegistryCustody DEF Next
<1>2. QED BY <1>1, InitCustody, TypeCorrect, PTL DEF Spec

\* A job is never in two hands: submitter, queue slot, dispatcher, processing
\* goroutine, history.
THEOREM OwnershipKept == Spec => []JobOwnership
<1>1. Custody => JobOwnership
  BY DEF Custody, JobOwnership
<1>2. QED BY <1>1, CustodyKept, PTL

\* No hand-over loses a registered job.
THEOREM NothingLost == Spec => []NoJobLost
<1>1. Custody => NoJobLost
  BY DEF Custody, NoJobLost
<1>2. QED BY <1>1, CustodyKept, PTL

-----------------------------------------------------------------------------
(* Finished jobs and the metrics.                                          *)

\* Only a goroutine with custody of the job writes its status, and custody of a
\* finished job is over; CancelJob is the exception.
THEOREM FinishedKept == Spec => FinishedIsFinal
<1>1. TypeOK /\ Custody /\ [Next]_vars =>
        [\A j \in Jobs : status[j] \in Finished => status'[j] \in {status[j], "cancelled"}]_vars
  <2> SUFFICES ASSUME TypeOK, Custody, Next, NEW j \in Jobs, status[j] \in Finished
               PROVE  status'[j] \in {status[j], "cancelled"}
    OBVIOUS
  <2>0. /\ status \in [Jobs -> Status \cup {"none"}]
        /\ dispatcher = "hold" => held \in Jobs /\ held # j
        /\ run[j] \notin Working /\ status[j] # "none"
    BY DEF TypeOK, JobOK, DispOK, Custody, Unfinished, Finished
  <2>1. CASE Lifecycle \/ Pool \/ Collect
    BY <2>1 DEF Lifecycle, StartBegin, StartPush, StartFinish, StopBegin, StopDone,
                StopTimeout, StopReturn, Pool, LoopPush, LoopExit, Collect, CollectorTick,
                CollectorRead, CollectorExit, jobVars
  <2>2. CASE Dispatch
    BY <2>0, <2>2 DEF Dispatch, DispatchTake, DispatchExit, DispatchAssign, DispatchAbort,
                      DispatchCount, jobVars
  <2>3. ASSUME NEW c \in Clients, Submit(c) PROVE status'[j] = status[j]
    BY <2>0, <2>3 DEF Submit, SubmitBegin, SubmitExisting, SubmitCreate, SubmitRegister,
                      SubmitEnqueue, SubmitReject, SubmitUnregister, jobVars
  <2>4. ASSUME NEW i \in Jobs, Process(i) PROVE status'[j] = status[j]
    BY <2>0, <2>4 DEF Process, RunStart, FileSaved, FileError, RunComplete, RunRetry, RunFail,
                      RunRequeue, RunCount, Working
  <2>5. ASSUME NEW i \in Jobs, CallerGone(i) \/ CancelJob(i) \/ RemoveLater(i)
        PROVE  status'[j] \in {status[j], "cancelled"}
    BY <2>0, <2>5 DEF CallerGone, CancelJob, RemoveLater
  <2>6. QED BY <2>1, <2>2, <2>3, <2>4, <2>5 DEF Next
<1>2. QED BY <1>1, CustodyKept, TypeCorrect, PTL DEF Spec, FinishedIsFinal

\* TotalJobsProcessed is the number of jobs that left the engine.
THEOREM AccountedOnceKept == Spec => []AccountedOnce
<1>1. Init => AccountedOnce
  BY FS_EmptySet DEF Init, AccountedOnce
<1>2. ASSUME TypeOK, NEW j \in Jobs, NEW b \in BOOLEAN, j \notin removals, AccountedOnce,
             Account(j, b)
      PROVE  AccountedOnce'
  <2>1. IsFiniteSet(removals) /\ processed \in Int /\ errors \in Int
    BY <1>2, FS_Subset, EngineAssumption DEF TypeOK, MetricOK
  <2>2. Cardinality(removals \cup {j}) = Cardinality(removals) + 1
    BY <2>1, <1>2, FS_AddElement
  <2>3. QED BY <2>1, <2>2, <1>2 DEF Account, AccountedOnce
<1>3. TypeOK /\ Custody /\ AccountedOnce /\ [Next]_vars => AccountedOnce'
  <2> SUFFICES ASSUME TypeOK, Custody, AccountedOnce, [Next]_vars PROVE AccountedOnce'
    OBVIOUS
  <2>1. CASE UNCHANGED <<removals, processed, errors>>
    BY <2>1 DEF AccountedOnce
  <2>2. CASE DispatchCount
    <3>1. held \in Jobs /\ held \notin removals
      BY <2>2 DEF DispatchCount, TypeOK, DispOK, Custody, OnePlace
    <3>2. QED BY <2>2, <3>1, <1>2 DEF DispatchCount
  <2>3. ASSUME NEW j \in Jobs, RunCount(j) PROVE AccountedOnce'
    <3>1. j \notin removals
      BY <2>3 DEF RunCount, Custody, OnePlace, Counting
    <3>2. QED BY <2>3, <3>1, <1>2 DEF RunCount
  <2>4. CASE Lifecycle \/ Pool \/ Collect \/ UNCHANGED vars
    BY <2>1, <2>4 DEF Lifecycle, StartBegin, StartPush, StartFinish, StopBegin, StopDone,
                StopTimeout, StopReturn, Pool, LoopPush, LoopExit, Collect, CollectorTick,
                CollectorRead, CollectorExit, metricVars, vars
  <2>5. CASE Dispatch
    BY <2>1, <2>2, <2>5 DEF Dispatch, DispatchTake, DispatchExit, DispatchAssign,
                            DispatchAbort, metricVars
  <2>6. ASSUME NEW c \in Clients, Submit(c) PROVE AccountedOnce'
    BY <2>1, <2>6 DEF Submit, SubmitBegin, SubmitExisting, SubmitCreate, SubmitRegister,
                      SubmitEnqueue, SubmitReject, SubmitUnregister, metricVars
  <2>7. ASSUME NEW j \in Jobs, Process(j) PROVE AccountedOnce'
    BY <2>1, <2>3, <2>7 DEF Process, RunStart, FileSaved, FileError, RunComplete, RunRetry,
                            RunFail, RunRequeue, metricVars
  <2>8. ASSUME NEW j \in Jobs, CallerGone(j) \/ CancelJob(j) \/ RemoveLater(j)
        PROVE  AccountedOnce'
    BY <2>1, <2>8 DEF CallerGone, CancelJob, RemoveLater, metricVars
  <2>9. QED BY <2>4, <2>5, <2>6, <2>7, <2>8 DEF Next
<1>4. QED BY <1>1, <1>3, CustodyKept, TypeCorrect, PTL DEF Spec

-----------------------------------------------------------------------------
(* Stop: what the WaitGroup counts, and what is over once it is zero.      *)

Processing == {j \in Jobs : run[j] # "none"}
Counted(x) == IF x = "off" THEN 0 ELSE 1

\* The inductive invariant.  A zero WaitGroup says that every goroutine is gone
\* only because no part of the sum is negative; a Start under way, which is about
\* to spawn goroutines again, has forgotten what the last Stop returned.
Balance ==
    /\ loops >= 0
    /\ wg = loops + Cardinality(Processing) + Counted(dispatcher) + Counted(collector)
    /\ mutex = "start" => stopResult = "none"
    /\ QuietAfterStop

LEMMA BalanceIs == Balance => WaitGroupExact /\ QuietAfterStop
BY DEF Balance, WaitGroupExact, Processing, Counted

LEMMA ProcessingFinite == IsFiniteSet(Processing) /\ Cardinality(Processing) \in Nat
<1>1. IsFiniteSet(Processing)
  BY FS_Subset, EngineAssumption DEF Processing
<1>2. QED BY <1>1, FS_CardinalityType

\* One goroutine of processJobWithWorker starts, goes on or ends.
LEMMA ProcessingCount ==
    ASSUME RunOK, NEW j \in Jobs, NEW v, run' = [run EXCEPT ![j] = v]
    PROVE  /\ Cardinality(Processing') \in Nat
           /\ run[j] = "none" /\ v # "none" =>
                  Cardinality(Processing') = Cardinality(Processing) + 1
           /\ run[j] # "none" /\ v = "none" =>
                  Cardinality(Processing') = Cardinality(Processing) - 1
           /\ run[j] # "none" /\ v # "none" => Processing' = Processing
<1>1. \A i \in Jobs : run'[i] = IF i = j THEN v ELSE run[i]
  BY DEF RunOK
<1>2. CASE run[j] = "none" /\ v # "none"
  <2>1. Processing' = Processing \cup {j} /\ j \notin Processing
    BY <1>1, <1>2 DEF Processing
  <2>2. QED BY <1>2, <2>1, ProcessingFinite, FS_AddElement, FS_CardinalityType
<1>3. CASE run[j] # "none" /\ v = "none"
  <2>1. Processing' = Processing \ {j} /\ j \in Processing
    BY <1>1, <1>3 DEF Processing
  <2>2. QED BY <1>3, <2>1, ProcessingFinite, FS_RemoveElement, FS_CardinalityType
<1>4. CASE run[j] # "none" /\ v # "none"
  <2>1. Processing' = Processing
    BY <1>1, <1>4 DEF Processing
  <2>2. QED BY <1>4, <2>1, ProcessingFinite
<1>5. CASE run[j] = "none" /\ v = "none"
  <2>1. Processing' = Processing
    BY <1>1, <1>5 DEF Processing
  <2>2. QED BY <1>5, <2>1, ProcessingFinite
<1>6. QED BY <1>2, <1>3, <1>4, <1>5

LEMMA InitBalance == Init => Balance
<1> SUFFICES ASSUME Init PROVE Balance
  OBVIOUS
<1>1. Processing = {}
  BY DEF Init, Processing
<1>2. QED BY <1>1, FS_EmptySet DEF Init, Balance, Counted, QuietAfterStop

balanceVars == <<loops, wg, run, dispatcher, collector, mutex, stopResult>>

LEMMA BalanceFrame == Balance /\ UNCHANGED balanceVars => Balance'
BY DEF Balance, balanceVars, Processing, Counted, QuietAfterStop

LEMMA LifeBalance == TypeOK /\ Custody /\ Balance /\ (Lifecycle \/ Pool \/ Collect) => Balance'
<1> SUFFICES ASSUME TypeOK, Custody, Balance, Lifecycle \/ Pool \/ Collect PROVE Balance'
  OBVIOUS
<1>1. UNCHANGED run /\ Processing' = Processing /\ Cardinality(Processing) \in Nat
  BY ProcessingFinite
  DEF Processing, Lifecycle, StartBegin, StartPush, StartFinish, StopBegin, StopDone,
      StopTimeout, StopReturn, Pool, LoopPush, LoopExit, Collect, CollectorTick,
      CollectorRead, CollectorExit
<1>2. wg \in Int /\ loops \in Int
  BY DEF TypeOK, PoolOK
<1>3. CASE StartBegin \/ StartPush \/ StopBegin
  BY <1>1, <1>2, <1>3 DEF Balance, Counted, QuietAfterStop, StartBegin, StartPush, StopBegin,
                          poolVars, dispVars, metricVars
<1>4. CASE StartFinish
  <2>1. dispatcher = "off" /\ collector = "off" /\ stopResult' = "none"
    BY <1>4 DEF StartFinish, Custody, Balance
  <2>2. wg' = wg + 2 /\ loops' = loops /\ dispatcher' = "idle" /\ collector' = "idle"
    BY <1>4 DEF StartFinish, poolVars
  <2>3. mutex' = "free"
    BY <1>4 DEF StartFinish
  <2>4. QED BY <1>1, <1>2, <2>1, <2>2, <2>3 DEF Balance, Counted, QuietAfterStop
<1>5. CASE StopDone
  <2>1. dispatcher = "off" /\ Cardinality(Processing) = 0
    BY <1>1, <1>2, <1>5 DEF StopDone, Balance, Counted
  <2>2. \A j \in Jobs : run[j] = "none"
    BY <2>1, ProcessingFinite, FS_EmptySet DEF Processing
  <2>3. UNCHANGED <<wg, loops, dispatcher, collector>> /\ mutex' = "free"
    BY <1>5 DEF StopDone, StopReturn, poolVars, dispVars, metricVars
  <2>4. QED BY <1>1, <2>1, <2>2, <2>3 DEF Balance, Counted, QuietAfterStop
<1>6. CASE StopTimeout
  BY <1>1, <1>6 DEF Balance, Counted, QuietAfterStop, StopTimeout, StopReturn, poolVars,
                    dispVars, metricVars
<1>7. CASE Pool
  BY <1>1, <1>2, <1>7 DEF Balance, Counted, QuietAfterStop, Pool, LoopPush, LoopExit,
                          lifeVars, dispVars, metricVars
<1>8. CASE Collect
  BY <1>1, <1>2, <1>8 DEF Balance, Counted, QuietAfterStop, Collect, CollectorTick,
                          CollectorRead, CollectorExit, lifeVars, poolVars, dispVars
<1>9. QED BY <1>3, <1>4, <1>5, <1>6, <1>7, <1>8 DEF Lifecycle

LEMMA DispatchBalance == TypeOK /\ Custody /\ Balance /\ Dispatch => Balance'
<1> SUFFICES ASSUME TypeOK, Custody, Balance, Dispatch PROVE Balance'
  OBVIOUS
<1>0. /\ UNCHANGED <<loops, collector, mutex, stopResult>>
      /\ wg \in Int /\ loops \in Int /\ Cardinality(Processing) \in Nat
  BY ProcessingFinite
  DEF Dispatch, DispatchTake, DispatchExit, DispatchAssign, DispatchAbort, DispatchCount,
      Account, lifeVars, poolVars, metricVars, TypeOK, PoolOK
<1>1. CASE DispatchTake \/ DispatchAbort \/ DispatchCount
  <2>1. UNCHANGED <<wg, run>> /\ dispatcher # "off" /\ dispatcher' # "off"
    BY <1>1 DEF DispatchTake, DispatchAbort, DispatchCount
  <2>2. Processing' = Processing
    BY <2>1 DEF Processing
  <2>3. QED BY <1>0, <2>1, <2>2 DEF Balance, Counted, QuietAfterStop
<1>2. CASE DispatchExit
  <2>1. UNCHANGED run /\ Processing' = Processing
    BY <1>2 DEF DispatchExit, Processing
  <2>2. QED BY <1>0, <1>2, <2>1 DEF DispatchExit, Balance, Counted, QuietAfterStop
<1>3. CASE DispatchAssign
  <2>1. /\ held \in Jobs /\ run[held] = "none" /\ run' = [run EXCEPT ![held] = "start"]
        /\ dispatcher = "hold" /\ dispatcher' = "idle" /\ wg' = wg + 1
    BY <1>3 DEF DispatchAssign, TypeOK, DispOK, Custody, OnePlace
  <2>2. RunOK /\ "start" # "none"
    BY DEF TypeOK
  <2>3. Cardinality(Processing') = Cardinality(Processing) + 1
    BY <2>1, <2>2, ProcessingCount, Zenon
  <2>4. QED BY <1>0, <2>1, <2>3 DEF Balance, Counted, QuietAfterStop
<1>4. QED BY <1>1, <1>2, <1>3 DEF Dispatch

LEMMA ProcessBalance == ASSUME TypeOK, Balance, NEW j \in Jobs, Process(j) PROVE Balance'
<1>0. /\ UNCHANGED <<loops, dispatcher, collector, mutex, stopResult>>
      /\ wg \in Int /\ loops \in Int /\ Cardinality(Processing) \in Nat
  BY ProcessingFinite
  DEF Process, RunStart, FileSaved, FileError, RunComplete, RunRetry, RunFail, RunRequeue,
      RunCount, RunUnchanged, Account, lifeVars, poolVars, dispVars, metricVars, TypeOK, PoolOK
<1>1. \/ \E v \in Working \cup Counting :
            run' = [run EXCEPT ![j] = v] /\ wg' = wg
      \/ run' = [run EXCEPT ![j] = "none"] /\ wg' = wg - 1
  BY DEF Process, RunStart, FileSaved, FileError, RunComplete, RunRetry, RunFail, RunRequeue,
         RunCount, Working, Counting
<1>2. run[j] # "none" /\ stopResult # "ok"
  BY DEF Process, RunStart, FileSaved, FileError, RunComplete, RunRetry, RunFail, RunRequeue,
         RunCount, Counting, Balance, QuietAfterStop
<1>3. "none" \notin Working \cup Counting
  BY DEF Working, Counting
<1>4. CASE \E v \in Working \cup Counting : run' = [run EXCEPT ![j] = v] /\ wg' = wg
  <2>1. Processing' = Processing
    BY <1>2, <1>3, <1>4, ProcessingCount DEF TypeOK
  <2>2. QED BY <1>0, <1>2, <1>4, <2>1 DEF Balance, Counted, QuietAfterStop
<1>5. CASE run' = [run EXCEPT ![j] = "none"] /\ wg' = wg - 1
  <2>1. Cardinality(Processing') = Cardinality(Processing) - 1
    BY <1>2, <1>5, ProcessingCount DEF TypeOK
  <2>2. QED BY <1>0, <1>2, <1>5, <2>1 DEF Balance, Counted, QuietAfterStop
<1>6. QED BY <1>1, <1>4, <1>5

LEMMA BalanceKept == Spec => []Balance
<1>1. TypeOK /\ Custody /\ Balance /\ [Next]_vars => Balance'
  <2> SUFFICES ASSUME TypeOK, Custody, Balance, [Next]_vars PROVE Balance'
    OBVIOUS
  <2>1. CASE UNCHANGED vars
    BY <2>1, BalanceFrame DEF vars, balanceVars, lifeVars, poolVars, dispVars, metricVars
  <2>2. ASSUME NEW c \in Clients, Submit(c) PROVE Balance'
    <3>1. UNCHANGED balanceVars
      BY <2>2 DEF Submit, SubmitBegin, SubmitExisting, SubmitCreate, SubmitRegister,
                  SubmitEnqueue, SubmitReject, SubmitUnregister, balanceVars, lifeVars,
                  poolVars, dispVars, metricVars
    <3>2. QED BY <3>1, BalanceFrame
  <2>3. ASSUME NEW j \in Jobs, CallerGone(j) \/ CancelJob(j) \/ RemoveLater(j) PROVE Balance'
    <3>1. UNCHANGED balanceVars
      BY <2>3 DEF CallerGone, CancelJob, RemoveLater, balanceVars, lifeVars, poolVars,
                  dispVars, metricVars
    <3>2. QED BY <3>1, BalanceFrame
  <2>4. QED BY <2>1, <2>2, <2>3, LifeBalance, DispatchBalance, ProcessBalance DEF Next
<1>2. QED BY <1>1, InitBalance, CustodyKept, TypeCorrect, PTL DEF Spec

\* The WaitGroup counts exactly the goroutines Stop waits for: every wg.Add meets
\* one wg.Done, on every path of the worker loops, the dispatcher, the collector
\* and the processing goroutines.
THEOREM WaitGroupKept == Spec => []WaitGroupExact
BY BalanceIs, BalanceKept, PTL

\* A Stop that returned nil leaves no job in processing, and none is taken up
\* until the engine is started again.
THEOREM QuietKept == Spec => []QuietAfterStop
BY BalanceIs, BalanceKept, PTL

-----------------------------------------------------------------------------
(* The processing engine implements JobLifecycle: every step of every      *)
(* goroutine is one step in the life of one job, or none.                  *)


\* A job its submitter is about to unregister is in nobody's hands.
Dropped(c) ==
    subPc[c] = "unregister" =>
        /\ ~Queued(subJob[c]) /\ held # subJob[c]
        /\ run[subJob[c]] = "none" /\ subJob[c] \notin removals

Enqueuing(j) == \E c \in Clients : subJob[c] = j /\ subPc[c] = "enqueue"

\* Whatever is under way is registered, and a goroutine that backs off has counted
\* its retry.
Registered(j) == Enqueuing(j) \/ Queued(j) \/ held = j \/ run[j] # "none" => j \in active
Slept(j) == run[j] = "sleep" => retry[j] > 0

\* What the refinement needs besides Custody.
Hands == (\A c \in Clients : Dropped(c)) /\ \A j \in Jobs : Registered(j) /\ Slept(j)

LEMMA InitHands == Init => Hands
BY EngineAssumption DEF Init, Hands, Dropped, Registered, Enqueuing, Slept, Queued

\* The variables Hands is about.
handsVars == <<subPc, subJob, queue, held, run, removals, retry, active>>

LEMMA HandsFrame == Hands /\ UNCHANGED handsVars => Hands'
BY DEF Hands, handsVars, Dropped, Registered, Enqueuing, Slept, Queued

LEMMA LifeHands == Hands /\ (Lifecycle \/ Pool \/ Collect) => Hands'
<1> SUFFICES ASSUME Hands, Lifecycle \/ Pool \/ Collect PROVE Hands'
  OBVIOUS
<1>1. UNCHANGED handsVars
  BY DEF Lifecycle, StartBegin, StartPush, StartFinish, StopBegin, StopDone, StopTimeout,
         StopReturn, Pool, LoopPush, LoopExit, Collect, CollectorTick, CollectorRead,
         CollectorExit, jobVars, clientVars, dispVars, metricVars, handsVars
<1>2. QED BY <1>1, HandsFrame

LEMMA DispatchHands == TypeOK /\ Custody /\ Hands /\ Dispatch => Hands'
<1> SUFFICES ASSUME TypeOK, Custody, Hands, Dispatch PROVE Hands'
  OBVIOUS
<1> USE DEF Hands, Dropped, Registered, Enqueuing, Slept
<1>0. UNCHANGED <<subPc, subJob, retry, active>> /\ subJob \in [Clients -> Jobs \cup {NoJob}]
      /\ \A c \in Clients : subPc[c] = "unregister" => subJob[c] \in Jobs
  BY DEF Dispatch, DispatchTake, DispatchExit, DispatchAssign, DispatchAbort, DispatchCount,
         Account, clientVars, jobVars, TypeOK, ClientOK
<1>1. CASE DispatchTake
  <2>1. /\ Head(queue) \in Jobs /\ Queued(Head(queue)) /\ held' = Head(queue)
        /\ \A k \in Jobs : Queued(k)' <=> Queued(k) /\ k # Head(queue)
        /\ UNCHANGED <<run, removals>>
    BY <1>1, QueueTail DEF DispatchTake, TypeOK, Custody, metricVars
  <2>2. QED BY <1>0, <2>1
<1>2. CASE DispatchExit \/ DispatchAbort
  BY <1>2, HandsFrame DEF DispatchExit, DispatchAbort, handsVars, jobVars, clientVars,
                          metricVars
<1>3. CASE DispatchAssign
  <2>1. /\ held \in Jobs /\ held' = NoJob /\ UNCHANGED <<queue, removals>>
        /\ \A k \in Jobs : run'[k] = IF k = held THEN "start" ELSE run[k]
    BY <1>3 DEF DispatchAssign, metricVars, TypeOK, RunOK, DispOK
  <2>2. \A k \in Jobs : Queued(k)' <=> Queued(k)
    BY <2>1 DEF Queued
  <2>3. QED BY <1>0, <2>1, <2>2, EngineAssumption
<1>4. CASE DispatchCount
  <2>1. /\ held \in Jobs /\ held' = NoJob /\ UNCHANGED <<queue, run>>
        /\ removals' = removals \cup {held}
    BY <1>4 DEF DispatchCount, Account, TypeOK, DispOK
  <2>2. \A k \in Jobs : Queued(k)' <=> Queued(k)
    BY <2>1 DEF Queued
  <2>3. QED BY <1>0, <2>1, <2>2, EngineAssumption
<1>5. QED BY <1>1, <1>2, <1>3, <1>4 DEF Dispatch

LEMMA SubmitHands ==
    ASSUME TypeOK, Custody, Hands, NEW c \in Clients, Submit(c) PROVE Hands'
<1> USE DEF Hands, Dropped, Registered, Enqueuing, Slept
<1>0. /\ UNCHANGED <<held, run, removals, retry>>
      /\ \A d \in Clients : subPc[d] \in {"idle", "check"} <=> subJob[d] = NoJob
      /\ \A d \in Clients : subJob[d] \in Jobs \cup {NoJob}
      /\ \A d \in Clients : subJob[d] = subJob[c] /\ subJob[c] # NoJob => d = c
  BY DEF Submit, SubmitBegin, SubmitExisting, SubmitCreate, SubmitRegister, SubmitEnqueue,
         SubmitReject, SubmitUnregister, dispVars, metricVars, jobVars, TypeOK, ClientOK,
         Custody, OneSubmitter
<1>1. CASE SubmitBegin(c)
  BY <1>0, <1>1 DEF SubmitBegin, jobVars, Queued, TypeOK, ClientOK
<1>2. ASSUME NEW k \in Keys, SubmitExisting(c, k) PROVE Hands'
  BY <1>0, <1>2 DEF SubmitExisting, Return, jobVars, Queued, TypeOK, ClientOK
<1>3. ASSUME NEW k \in Keys, SubmitCreate(c, k) PROVE Hands'
  <2>1. PICK j \in Jobs : subJob' = [subJob EXCEPT ![c] = j]
    BY <1>3 DEF SubmitCreate
  <2>2. /\ \A d \in Clients : subJob'[d] = IF d = c THEN j ELSE subJob[d]
        /\ \A d \in Clients : subPc'[d] = IF d = c THEN "register" ELSE subPc[d]
        /\ UNCHANGED <<queue, active>>
    BY <1>3, <2>1 DEF SubmitCreate, TypeOK, ClientOK
  <2>3. \A i : Queued(i)' <=> Queued(i)
    BY <2>2 DEF Queued
  <2>4. QED BY <1>0, <2>2, <2>3
<1>4. CASE SubmitRegister(c)
  <2>1. /\ subJob' = subJob /\ UNCHANGED queue /\ active' = active \cup {subJob[c]}
        /\ \A d \in Clients : subPc'[d] = IF d = c THEN "enqueue" ELSE subPc[d]
    BY <1>4 DEF SubmitRegister, TypeOK, ClientOK
  <2>2. \A i : Queued(i)' <=> Queued(i)
    BY <2>1 DEF Queued
  <2>3. QED BY <1>0, <2>1, <2>2
<1>5. CASE SubmitEnqueue(c)
  <2> DEFINE j == subJob[c]
  <2>1. /\ j \in Jobs /\ ~Queued(j) /\ queue' = Append(queue, j)
        /\ \A d \in Clients : subJob'[d] = IF d = c THEN NoJob ELSE subJob[d]
        /\ \A d \in Clients : subPc'[d] = IF d = c THEN "idle" ELSE subPc[d]
        /\ UNCHANGED active
    BY <1>5 DEF SubmitEnqueue, Return, jobVars, TypeOK, ClientOK, Custody, OnePlace,
                Submitting
  <2>2. \A i \in Jobs : Queued(i)' <=> Queued(i) \/ i = j
    BY <2>1, QueueAppend DEF TypeOK, Custody
  <2>3. j \in active
    BY <1>5, <2>1 DEF SubmitEnqueue
  <2>4. ASSUME NEW d \in Clients PROVE Dropped(d)'
    BY <1>0, <2>1, <2>2
  <2>5. ASSUME NEW i \in Jobs PROVE Registered(i)' /\ Slept(i)'
    BY <1>0, <2>1, <2>2, <2>3, EngineAssumption
  <2>6. QED BY <2>4, <2>5
<1>6. CASE SubmitReject(c)
  <2> DEFINE j == subJob[c]
  <2>1. /\ j \in Jobs /\ subJob' = subJob /\ UNCHANGED <<queue, active>>
        /\ ~Queued(j) /\ held # j /\ run[j] = "none" /\ j \notin removals
        /\ \A d \in Clients : subPc'[d] = IF d = c THEN "unregister" ELSE subPc[d]
    BY <1>6 DEF SubmitReject, jobVars, TypeOK, ClientOK, Custody, OnePlace, Submitting
  <2>2. \A i : Queued(i)' <=> Queued(i)
    BY <2>1 DEF Queued
  <2>3. QED BY <1>0, <2>1, <2>2
<1>7. CASE SubmitUnregister(c)
  <2> DEFINE j == subJob[c]
  <2>1. /\ j \in Jobs /\ UNCHANGED queue /\ active' = active \ {j}
        /\ ~Queued(j) /\ held # j /\ run[j] = "none"
        /\ \A d \in Clients : subJob'[d] = IF d = c THEN NoJob ELSE subJob[d]
        /\ \A d \in Clients : subPc'[d] = IF d = c THEN "idle" ELSE subPc[d]
    BY <1>7 DEF SubmitUnregister, Return, TypeOK, ClientOK
  <2>2. \A i : Queued(i)' <=> Queued(i)
    BY <2>1 DEF Queued
  <2>3. ASSUME NEW d \in Clients PROVE Dropped(d)'
    BY <1>0, <2>1, <2>2
  <2>4. ASSUME NEW i \in Jobs PROVE Registered(i)' /\ Slept(i)'
    BY <1>0, <2>1, <2>2, EngineAssumption
  <2>5. QED BY <2>3, <2>4
<1>8. QED BY <1>1, <1>2, <1>3, <1>4, <1>5, <1>6, <1>7 DEF Submit

LEMMA ProcessHands ==
    ASSUME TypeOK, Custody, Hands, NEW j \in Jobs, Process(j) PROVE Hands'
<1> USE DEF Hands, Dropped, Registered, Enqueuing, Slept
<1>0. /\ UNCHANGED <<subPc, subJob, held, active>>
      /\ \A d \in Clients : subPc[d] = "unregister" => subJob[d] \in Jobs
      /\ run \in [Jobs -> {"none"} \cup Working \cup Counting]
      /\ retry \in [Jobs -> 0..MaxRetries]
  BY DEF Process, RunStart, FileSaved, FileError, RunComplete, RunRetry, RunFail, RunRequeue,
         RunCount, RunUnchanged, Account, clientVars, dispVars, TypeOK, ClientOK, RunOK, JobOK
<1>1. CASE \/ RunStart(j) \/ FileSaved(j) \/ FileError(j) \/ RunComplete(j)
           \/ RunFail(j)
  <2>1. /\ UNCHANGED <<queue, removals, retry>> /\ run[j] # "none" /\ run'[j] # "sleep"
        /\ \A k \in Jobs \ {j} : run'[k] = run[k]
    BY <1>0, <1>1 DEF RunStart, FileSaved, FileError, RunComplete, RunFail, metricVars,
                      Working, Counting
  <2>2. \A i : Queued(i)' <=> Queued(i)
    BY <2>1 DEF Queued
  <2>3. QED BY <1>0, <2>1, <2>2
<1>2. CASE RunRetry(j)
  <2>1. /\ UNCHANGED <<queue, removals>> /\ run[j] = "error"
        /\ run' = [run EXCEPT ![j] = "sleep"] /\ retry' = [retry EXCEPT ![j] = @ + 1]
    BY <1>2 DEF RunRetry, metricVars
  <2>2. \A i : Queued(i)' <=> Queued(i)
    BY <2>1 DEF Queued
  <2>3. retry'[j] > 0 /\ \A k \in Jobs \ {j} : run'[k] = run[k] /\ retry'[k] = retry[k]
    BY <1>0, <2>1, EngineAssumption
  <2>4. QED BY <1>0, <2>1, <2>2, <2>3
<1>3. CASE RunRequeue(j)
  <2>1. /\ run[j] = "sleep" /\ ~Queued(j) /\ queue' = Append(queue, j)
        /\ UNCHANGED <<removals, retry>> /\ run' = [run EXCEPT ![j] = "none"]
    BY <1>3 DEF RunRequeue, metricVars, Custody, OnePlace
  <2>2. \A i \in Jobs : Queued(i)' <=> Queued(i) \/ i = j
    BY <2>1, QueueAppend DEF TypeOK, Custody
  <2>3. run'[j] = "none" /\ \A k \in Jobs \ {j} : run'[k] = run[k]
    BY <1>0, <2>1
  <2>4. QED BY <1>0, <2>1, <2>2, <2>3
<1>4. CASE RunCount(j)
  <2>1. /\ run[j] # "none" /\ UNCHANGED <<queue, retry>> /\ removals' = removals \cup {j}
        /\ run' = [run EXCEPT ![j] = "none"]
    BY <1>4 DEF RunCount, Account, Counting
  <2>2. \A i : Queued(i)' <=> Queued(i)
    BY <2>1 DEF Queued
  <2>3. run'[j] = "none" /\ \A k \in Jobs \ {j} : run'[k] = run[k]
    BY <1>0, <2>1
  <2>4. QED BY <1>0, <2>1, <2>2, <2>3
<1>5. QED BY <1>1, <1>2, <1>3, <1>4 DEF Process

LEMMA RegistryHands ==
    ASSUME TypeOK, Custody, Hands, NEW j \in Jobs,
           CallerGone(j) \/ CancelJob(j) \/ RemoveLater(j)
    PROVE  Hands'
<1>1. CASE CallerGone(j) \/ CancelJob(j)
  BY <1>1, HandsFrame DEF CallerGone, CancelJob, handsVars, clientVars, dispVars, metricVars
<1>2. CASE RemoveLater(j)
  BY <1>2 DEF RemoveLater, clientVars, dispVars, metricVars, Custody, OnePlace, Submitting,
              Hands, Dropped, Registered, Enqueuing, Slept, Queued
<1>3. QED BY <1>1, <1>2

\* Along every behaviour, whatever is under way is registered.
THEOREM HandsKept == Spec => []Hands
<1>1. TypeOK /\ Custody /\ Hands /\ [Next]_vars => Hands'
  <2> SUFFICES ASSUME TypeOK, Custody, Hands, [Next]_vars PROVE Hands'
    OBVIOUS
  <2>1. CASE UNCHANGED vars
    BY <2>1, HandsFrame DEF vars, handsVars, jobVars, clientVars, dispVars, metricVars
  <2>2. QED BY <2>1, LifeHands, DispatchHands, SubmitHands, ProcessHands, RegistryHands
            DEF Next
<1>2. QED BY <1>1, InitHands, TypeCorrect, CustodyKept, PTL DEF Spec

-----------------------------------------------------------------------------
(* The phase of a job, before a step and after it.                         *)

LEMMA PhaseIs ==
    ASSUME NEW j \in Jobs
    PROVE  /\ j \in removals => Phase(j) = "concluded"
           /\ j \notin removals /\ run[j] # "none" => Phase(j) = "working"
           /\ /\ j \notin removals /\ run[j] = "none"
              /\ Submitting(j) \/ Queued(j) \/ held = j
              => Phase(j) = "waiting"
           /\ /\ j \notin removals /\ run[j] = "none"
              /\ ~(Submitting(j) \/ Queued(j) \/ held = j)
              => Phase(j) = IF status[j] = "none" THEN "new" ELSE "rejected"
BY DEF Phase

LEMMA PhaseWillBe ==
    ASSUME NEW j \in Jobs
    PROVE  /\ j \in removals' => Phase(j)' = "concluded"
           /\ j \notin removals' /\ run'[j] # "none" => Phase(j)' = "working"
           /\ /\ j \notin removals' /\ run'[j] = "none"
              /\ Submitting(j)' \/ Queued(j)' \/ held' = j
              => Phase(j)' = "waiting"
           /\ /\ j \notin removals' /\ run'[j] = "none"
              /\ ~(Submitting(j)' \/ Queued(j)' \/ held' = j)
              => Phase(j)' = IF status'[j] = "none" THEN "new" ELSE "rejected"
BY DEF Phase

\* A job keeps its phase when it stays where it is.
LEMMA PhaseKept ==
    ASSUME NEW j \in Jobs,
           j \in removals' <=> j \in removals,
           run'[j] = "none" <=> run[j] = "none",
           Submitting(j)' \/ Queued(j)' \/ held' = j <=> Submitting(j) \/ Queued(j) \/ held = j,
           status'[j] = "none" <=> status[j] = "none"
    PROVE  Phase(j)' = Phase(j)
BY PhaseIs, PhaseWillBe

\* A step that moves nobody and changes none of the other variables is no step of
\* the life of a job.
LEMMA Stutter ==
    ASSUME \A j \in Jobs : Phase(j)' = Phase(j), UNCHANGED <<retry, active, errors>>
    PROVE  UNCHANGED Life!lifecycle
BY DEF Life!lifecycle

\* One that moves j alone is a move of j.
LEMMA OneJob ==
    ASSUME NEW j \in Jobs, NEW from, NEW to, Phase(j) = from, Phase(j)' = to,
           \A k \in Jobs \ {j} : Phase(k)' = Phase(k)
    PROVE  Life!Move(j, from, to)
BY DEF Life!Move

\* One that moves nobody leaves the function of phases as it is.
LEMMA NoJobMoves ==
    ASSUME \A j \in Jobs : Phase(j)' = Phase(j)
    PROVE  [j \in Jobs |-> Phase(j)]' = [j \in Jobs |-> Phase(j)]
OBVIOUS

\* The step as JobLifecycle sees it.
LifeStep == Life!Next \/ UNCHANGED Life!lifecycle

LEMMA LifeImplements == (Lifecycle \/ Pool \/ Collect) => LifeStep
<1> SUFFICES ASSUME Lifecycle \/ Pool \/ Collect PROVE LifeStep
  OBVIOUS
<1>1. UNCHANGED <<subPc, subJob, queue, held, run, removals, status, retry, active, errors>>
  BY DEF Lifecycle, StartBegin, StartPush, StartFinish, StopBegin, StopDone, StopTimeout,
         StopReturn, Pool, LoopPush, LoopExit, Collect, CollectorTick, CollectorRead,
         CollectorExit, jobVars, clientVars, dispVars, metricVars
<1>2. \A j \in Jobs : Phase(j)' = Phase(j)
  BY <1>1, PhaseKept DEF Submitting, Queued
<1>3. QED BY <1>1, <1>2, Stutter DEF LifeStep

LEMMA DispatchImplements == TypeOK /\ Custody /\ Hands /\ Dispatch => LifeStep
<1> SUFFICES ASSUME TypeOK, Custody, Hands, Dispatch PROVE LifeStep
  OBVIOUS
<1>0. /\ UNCHANGED <<subPc, subJob, retry, active>> /\ NoJob \notin Jobs
      /\ \A j \in Jobs : Submitting(j)' <=> Submitting(j)
      /\ held = NoJob => dispatcher \notin {"hold", "count"}
  BY EngineAssumption
  DEF Dispatch, DispatchTake, DispatchExit, DispatchAssign, DispatchAbort, DispatchCount,
      Account, clientVars, jobVars, Submitting, Custody
<1>1. CASE DispatchTake
  <2>1. /\ Head(queue) \in Jobs /\ Queued(Head(queue)) /\ held' = Head(queue)
        /\ \A k \in Jobs : Queued(k)' <=> Queued(k) /\ k # Head(queue)
        /\ UNCHANGED <<run, removals, status, errors>> /\ held \notin Jobs
    BY <1>0, <1>1, QueueTail
    DEF DispatchTake, TypeOK, Custody, DispOK, metricVars, jobVars
  <2>2. \A j \in Jobs : Phase(j)' = Phase(j)
    BY <1>0, <2>1, PhaseKept
  <2>3. QED BY <1>0, <2>1, <2>2, Stutter DEF LifeStep
<1>2. CASE DispatchExit \/ DispatchAbort
  <2>1. UNCHANGED <<queue, held, run, removals, errors>>
    BY <1>2 DEF DispatchExit, DispatchAbort, metricVars
  <2>2. \A j \in Jobs : status'[j] = "none" <=> status[j] = "none"
    BY <1>2 DEF DispatchExit, DispatchAbort, jobVars, TypeOK, JobOK, DispOK, Custody, Fresh
  <2>3. \A j \in Jobs : Phase(j)' = Phase(j)
    BY <1>0, <2>1, <2>2, PhaseKept DEF Queued
  <2>4. QED BY <1>0, <2>1, <2>3, Stutter DEF LifeStep
<1>3. CASE DispatchAssign
  <2>1. /\ held \in Jobs /\ held' = NoJob /\ UNCHANGED <<queue, removals, status, errors>>
        /\ \A k \in Jobs : run'[k] = IF k = held THEN "start" ELSE run[k]
        /\ held \in active /\ run[held] = "none" /\ held \notin removals
    BY <1>3 DEF DispatchAssign, metricVars, jobVars, TypeOK, RunOK, DispOK, Custody, OnePlace,
                Hands, Registered
  <2>2. \A k \in Jobs : Queued(k)' <=> Queued(k)
    BY <2>1 DEF Queued
  <2>3. PICK j \in Jobs : j = held
    BY <2>1
  <2>4. j \notin removals' /\ run'[j] # "none" /\ j \notin removals /\ run[j] = "none"
    BY <2>1, <2>3
  <2>5. Phase(j) = "waiting"
    BY <2>3, <2>4, PhaseIs
  <2>6. Phase(j)' = "working"
    BY <2>4, PhaseWillBe
  <2>7. ASSUME NEW k \in Jobs \ {j} PROVE Phase(k)' = Phase(k)
    <3>1. /\ run'[k] = run[k] /\ held' # k /\ held # k
          /\ (Queued(k)' <=> Queued(k)) /\ (Submitting(k)' <=> Submitting(k))
      BY <1>0, <2>1, <2>2, <2>3
    <3>2. QED BY <2>1, <3>1, PhaseKept
  <2>8. Life!Move(j, "waiting", "working")
    BY <2>5, <2>6, <2>7, OneJob
  <2>9. Life!Work(j)
    BY <1>0, <2>1, <2>3, <2>8 DEF Life!Work
  <2>10. QED BY <2>9 DEF LifeStep, Life!Next
<1>4. CASE DispatchCount
  <2>1. /\ held \in Jobs /\ held' = NoJob /\ UNCHANGED <<queue, run, status>>
        /\ removals' = removals \cup {held} /\ errors' = errors
        /\ run[held] = "none" /\ held \notin removals
    BY <1>4 DEF DispatchCount, Account, jobVars, TypeOK, DispOK, Custody, OnePlace
  <2>2. \A k \in Jobs : Queued(k)' <=> Queued(k)
    BY <2>1 DEF Queued
  <2>3. PICK j \in Jobs : j = held
    BY <2>1
  <2>4. j \in removals' /\ j \notin removals /\ run[j] = "none"
    BY <2>1, <2>3
  <2>5. Phase(j) = "waiting"
    BY <2>3, <2>4, PhaseIs
  <2>6. Phase(j)' = "concluded"
    BY <2>4, PhaseWillBe
  <2>7. ASSUME NEW k \in Jobs \ {j} PROVE Phase(k)' = Phase(k)
    <3>1. /\ run'[k] = run[k] /\ held' # k /\ held # k
          /\ (k \in removals' <=> k \in removals)
          /\ (Queued(k)' <=> Queued(k)) /\ (Submitting(k)' <=> Submitting(k))
      BY <1>0, <2>1, <2>2, <2>3
    <3>2. QED BY <2>1, <3>1, PhaseKept
  <2>8. Life!Move(j, "waiting", "concluded")
    BY <2>5, <2>6, <2>7, OneJob
  <2>9. Life!Conclude(j)
    BY <1>0, <2>1, <2>8 DEF Life!Conclude
  <2>10. QED BY <2>9 DEF LifeStep, Life!Next
<1>5. QED BY <1>1, <1>2, <1>3, <1>4 DEF Dispatch

LEMMA SubmitImplements ==
    ASSUME TypeOK, Custody, NEW c \in Clients, Submit(c), Hands PROVE LifeStep
<1>0. /\ UNCHANGED <<held, run, removals, retry, errors>>
      /\ \A d \in Clients : subPc[d] \in {"idle", "check"} <=> subJob[d] = NoJob
      /\ \A d \in Clients : subJob[d] \in Jobs \cup {NoJob}
      /\ \A d \in Clients : subJob[d] = subJob[c] /\ subJob[c] # NoJob => d = c
      /\ NoJob \notin Jobs
  BY EngineAssumption
  DEF Submit, SubmitBegin, SubmitExisting, SubmitCreate, SubmitRegister, SubmitEnqueue,
      SubmitReject, SubmitUnregister, dispVars, metricVars, jobVars, TypeOK, ClientOK,
      Custody, OneSubmitter
<1>1. CASE SubmitBegin(c) \/ \E k \in Keys : SubmitExisting(c, k)
  <2>1. UNCHANGED <<queue, status, active>> /\ \A i \in Jobs : Submitting(i)' <=> Submitting(i)
    BY <1>0, <1>1 DEF SubmitBegin, SubmitExisting, Return, jobVars, Submitting, TypeOK,
                      ClientOK
  <2>2. \A i \in Jobs : Phase(i)' = Phase(i)
    BY <1>0, <2>1, PhaseKept DEF Queued
  <2>3. QED BY <1>0, <2>1, <2>2, Stutter DEF LifeStep
<1>2. ASSUME NEW q \in Keys, SubmitCreate(c, q) PROVE LifeStep
  <2>1. PICK j \in Jobs : /\ status[j] = "none"
                          /\ status' = [status EXCEPT ![j] = "pending"]
                          /\ subJob' = [subJob EXCEPT ![c] = j]
    BY <1>2 DEF SubmitCreate
  <2>2. /\ \A d \in Clients : subJob'[d] = IF d = c THEN j ELSE subJob[d]
        /\ \A d \in Clients : subPc'[d] = IF d = c THEN "register" ELSE subPc[d]
        /\ \A i \in Jobs : status'[i] = IF i = j THEN "pending" ELSE status[i]
        /\ UNCHANGED <<queue, active>> /\ subJob[c] = NoJob
    BY <1>2, <2>1 DEF SubmitCreate, TypeOK, ClientOK, JobOK
  <2>3. \A i : Queued(i)' <=> Queued(i)
    BY <2>2 DEF Queued
  <2>4. /\ ~Submitting(j) /\ ~Queued(j) /\ held # j /\ run[j] = "none" /\ j \notin removals
    BY <2>1 DEF Custody, Fresh, Submitting, InSubmit
  <2>5. Phase(j) = "new"
    BY <2>1, <2>4, PhaseIs
  <2>6. Phase(j)' = "waiting"
    <3>1. Submitting(j)'
      BY <2>2 DEF Submitting
    <3>2. j \notin removals' /\ run'[j] = "none"
      BY <1>0, <2>4
    <3>3. QED BY <3>1, <3>2, PhaseWillBe
  <2>7. ASSUME NEW k \in Jobs \ {j} PROVE Phase(k)' = Phase(k)
    <3>1. Submitting(k)' <=> Submitting(k)
      BY <1>0, <2>2 DEF Submitting
    <3>2. status'[k] = status[k] /\ (Queued(k)' <=> Queued(k))
      BY <2>2, <2>3
    <3>3. QED BY <1>0, <3>1, <3>2, PhaseKept
  <2>8. Life!Move(j, "new", "waiting")
    BY <2>5, <2>6, <2>7, OneJob
  <2>9. Life!TakeIn(j)
    BY <1>0, <2>2, <2>8 DEF Life!TakeIn
  <2>10. QED BY <2>9 DEF LifeStep, Life!Next
<1>3. CASE SubmitRegister(c)
  <2>1. /\ subJob' = subJob /\ UNCHANGED <<queue, status>> /\ active' = active \cup {subJob[c]}
        /\ \A d \in Clients : subPc'[d] = IF d = c THEN "enqueue" ELSE subPc[d]
        /\ subPc[c] = "register"
    BY <1>3 DEF SubmitRegister, TypeOK, ClientOK
  <2>2. \A i \in Jobs : (Queued(i)' <=> Queued(i)) /\ (Submitting(i)' <=> Submitting(i))
    BY <2>1 DEF Queued, Submitting
  <2>3. \A i \in Jobs : Phase(i)' = Phase(i)
    BY <1>0, <2>1, <2>2, PhaseKept
  <2>4. PICK j \in Jobs : j = subJob[c]
    BY <1>0, <2>1
  <2>5. Submitting(j) /\ j \notin removals /\ run[j] = "none"
    BY <2>1, <2>4 DEF Submitting, Custody, OnePlace
  <2>6. Phase(j) = "waiting"
    BY <2>5, PhaseIs
  <2>7. Life!Register(j)
    BY <1>0, <2>1, <2>3, <2>4, <2>6 DEF Life!Register
  <2>8. QED BY <2>7 DEF LifeStep, Life!Next
<1>4. CASE SubmitEnqueue(c)
  <2>1. PICK j \in Jobs : j = subJob[c]
    BY <1>0, <1>4 DEF SubmitEnqueue
  <2>2. /\ subPc[c] = "enqueue" /\ queue' = Append(queue, j)
        /\ \A d \in Clients : subJob'[d] = IF d = c THEN NoJob ELSE subJob[d]
        /\ \A d \in Clients : subPc'[d] = IF d = c THEN "idle" ELSE subPc[d]
        /\ UNCHANGED <<active, status>>
    BY <1>4, <2>1 DEF SubmitEnqueue, Return, jobVars, TypeOK, ClientOK
  <2>3. Submitting(j) /\ ~Queued(j)
    BY <2>1, <2>2 DEF Submitting, Custody, OnePlace
  <2>4. \A i \in Jobs : Queued(i)' <=> Queued(i) \/ i = j
    BY <2>2, <2>3, QueueAppend DEF TypeOK, Custody
  <2>5. \A i \in Jobs \ {j} : Submitting(i)' <=> Submitting(i)
    BY <1>0, <2>1, <2>2 DEF Submitting
  <2>6. \A i \in Jobs : Phase(i)' = Phase(i)
    BY <1>0, <2>2, <2>3, <2>4, <2>5, PhaseKept
  <2>7. QED BY <1>0, <2>2, <2>6, Stutter DEF LifeStep
<1>5. CASE SubmitReject(c)
  <2>1. PICK j \in Jobs : j = subJob[c]
    BY <1>0, <1>5 DEF SubmitReject
  <2>2. /\ subPc[c] = "enqueue" /\ subJob' = subJob /\ UNCHANGED <<queue, active, status>>
        /\ \A d \in Clients : subPc'[d] = IF d = c THEN "unregister" ELSE subPc[d]
    BY <1>5 DEF SubmitReject, jobVars, TypeOK, ClientOK
  <2>3. /\ Submitting(j) /\ ~Queued(j) /\ held # j /\ run[j] = "none" /\ j \notin removals
        /\ status[j] # "none"
    BY <2>1, <2>2 DEF Submitting, InSubmit, Custody, OnePlace, Fresh
  <2>4. /\ \A i \in Jobs : Queued(i)' <=> Queued(i)
        /\ \A i \in Jobs \ {j} : Submitting(i)' <=> Submitting(i)
        /\ ~Submitting(j)'
    BY <1>0, <2>1, <2>2 DEF Submitting, Queued
  <2>5. Phase(j) = "waiting"
    BY <2>3, PhaseIs
  <2>6. Phase(j)' = "rejected"
    <3>1. /\ j \notin removals' /\ run'[j] = "none" /\ status'[j] # "none"
          /\ ~(Submitting(j)' \/ Queued(j)' \/ held' = j)
      BY <1>0, <2>2, <2>3, <2>4
    <3>2. QED BY <3>1, PhaseWillBe
  <2>7. ASSUME NEW k \in Jobs \ {j} PROVE Phase(k)' = Phase(k)
    BY <1>0, <2>2, <2>4, PhaseKept
  <2>8. Life!Move(j, "waiting", "rejected")
    BY <2>5, <2>6, <2>7, OneJob
  <2>9. Life!Reject(j)
    BY <1>0, <2>2, <2>8 DEF Life!Reject
  <2>10. QED BY <2>9 DEF LifeStep, Life!Next
<1>6. CASE SubmitUnregister(c)
  <2>1. PICK j \in Jobs : j = subJob[c]
    BY <1>0, <1>6 DEF SubmitUnregister
  <2>2. /\ subPc[c] = "unregister" /\ active' = active \ {j} /\ UNCHANGED <<queue, status>>
        /\ \A d \in Clients : subJob'[d] = IF d = c THEN NoJob ELSE subJob[d]
        /\ \A d \in Clients : subPc'[d] = IF d = c THEN "idle" ELSE subPc[d]
    BY <1>6, <2>1 DEF SubmitUnregister, Return, TypeOK, ClientOK
  <2>3. \A i \in Jobs : (Queued(i)' <=> Queued(i)) /\ (Submitting(i)' <=> Submitting(i))
    BY <1>0, <2>1, <2>2 DEF Queued, Submitting
  <2>4. \A i \in Jobs : Phase(i)' = Phase(i)
    BY <1>0, <2>2, <2>3, PhaseKept
  <2>5. /\ ~Submitting(j) /\ ~Queued(j) /\ held # j /\ run[j] = "none" /\ j \notin removals
        /\ status[j] # "none"
    BY <1>0, <2>1, <2>2 DEF Submitting, InSubmit, Custody, Fresh, Hands, Dropped
  <2>6. Phase(j) = "rejected"
    BY <2>5, PhaseIs
  <2>7. CASE j \in active
    <3>1. Life!Forget(j)
      BY <1>0, <2>2, <2>4, <2>6, <2>7 DEF Life!Forget
    <3>2. QED BY <3>1 DEF LifeStep, Life!Next
  <2>8. CASE j \notin active
    BY <1>0, <2>2, <2>4, <2>8, Stutter DEF LifeStep
  <2>9. QED BY <2>7, <2>8
<1>7. QED BY <1>1, <1>2, <1>3, <1>4, <1>5, <1>6 DEF Submit

LEMMA ProcessImplements ==
    ASSUME TypeOK, Custody, Hands, NEW j \in Jobs, Process(j) PROVE LifeStep
<1>0. /\ UNCHANGED <<subPc, subJob, held, active>>
      /\ run \in [Jobs -> {"none"} \cup Working \cup Counting]
      /\ retry \in [Jobs -> 0..MaxRetries] /\ status \in [Jobs -> Status \cup {"none"}]
      /\ \A i \in Jobs : Submitting(i)' <=> Submitting(i)
  BY DEF Process, RunStart, FileSaved, FileError, RunComplete, RunRetry, RunFail, RunRequeue,
         RunCount, RunUnchanged, Account, clientVars, dispVars, TypeOK, RunOK, JobOK,
         Submitting
<1>1. run[j] # "none" /\ j \notin removals /\ status[j] # "none"
  BY DEF Process, RunStart, FileSaved, FileError, RunComplete, RunRetry, RunFail, RunRequeue,
         RunCount, Counting, Custody, OnePlace, Fresh
<1>2. Phase(j) = "working"
  BY <1>1, PhaseIs
<1>3. CASE \/ RunStart(j) \/ FileSaved(j) \/ FileError(j) \/ RunComplete(j)
           \/ RunFail(j) \/ RunRetry(j)
  <2>1. /\ UNCHANGED <<queue, removals, errors>> /\ run'[j] # "none"
        /\ \A k \in Jobs \ {j} : run'[k] = run[k] /\ status'[k] = status[k]
    BY <1>0, <1>3 DEF RunStart, FileSaved, FileError, RunComplete, RunFail, RunRetry,
                      metricVars, Working, Counting
  <2>2. status'[j] # "none"
    BY <1>0, <1>1, <1>3 DEF RunStart, FileSaved, FileError, RunComplete, RunFail, RunRetry
  <2>3. ASSUME NEW k \in Jobs PROVE Phase(k)' = Phase(k)
    <3>1. Queued(k)' <=> Queued(k)
      BY <2>1 DEF Queued
    <3>2. (run'[k] = "none" <=> run[k] = "none") /\ (status'[k] = "none" <=> status[k] = "none")
      BY <1>1, <2>1, <2>2
    <3>3. QED BY <1>0, <2>1, <3>1, <3>2, PhaseKept
  <2>4. CASE RunRetry(j)
    <3>1. retry[j] < MaxRetries /\ retry' = [retry EXCEPT ![j] = @ + 1]
      BY <2>4 DEF RunRetry
    <3>2. Life!Retry(j)
      BY <1>0, <1>2, <2>1, <2>3, <3>1 DEF Life!Retry
    <3>3. QED BY <3>2 DEF LifeStep, Life!Next
  <2>5. CASE ~RunRetry(j)
    <3>1. retry' = retry
      BY <1>3, <2>5 DEF RunStart, FileSaved, FileError, RunComplete, RunFail
    <3>2. QED BY <1>0, <2>1, <2>3, <3>1, Stutter DEF LifeStep
  <2>6. QED BY <2>4, <2>5
<1>4. CASE RunRequeue(j)
  <2>1. /\ run[j] = "sleep" /\ ~Queued(j) /\ queue' = Append(queue, j)
        /\ UNCHANGED <<removals, retry, status, errors>> /\ run' = [run EXCEPT ![j] = "none"]
    BY <1>4 DEF RunRequeue, metricVars, Custody, OnePlace
  <2>2. \A i \in Jobs : Queued(i)' <=> Queued(i) \/ i = j
    BY <2>1, QueueAppend DEF TypeOK, Custody
  <2>3. run'[j] = "none" /\ (\A k \in Jobs \ {j} : run'[k] = run[k]) /\ retry[j] > 0
    BY <1>0, <2>1 DEF Hands, Slept
  <2>4. Phase(j)' = "waiting"
    <3>1. j \notin removals' /\ run'[j] = "none" /\ Queued(j)'
      BY <1>1, <2>1, <2>2, <2>3
    <3>2. QED BY <3>1, PhaseWillBe
  <2>5. ASSUME NEW k \in Jobs \ {j} PROVE Phase(k)' = Phase(k)
    BY <1>0, <2>1, <2>2, <2>3, PhaseKept
  <2>6. Life!Move(j, "working", "waiting")
    BY <1>2, <2>4, <2>5, OneJob
  <2>7. Life!PutBack(j)
    BY <1>0, <2>1, <2>3, <2>6 DEF Life!PutBack
  <2>8. QED BY <2>7 DEF LifeStep, Life!Next
<1>5. CASE RunCount(j)
  <2>1. /\ UNCHANGED <<queue, retry, status>> /\ removals' = removals \cup {j}
        /\ run' = [run EXCEPT ![j] = "none"] /\ errors' \in {errors, errors + 1}
    BY <1>5 DEF RunCount, Account
  <2>2. \A k \in Jobs \ {j} : run'[k] = run[k] /\ (k \in removals' <=> k \in removals)
    BY <1>0, <2>1
  <2>3. Phase(j)' = "concluded"
    <3>1. j \in removals'
      BY <2>1
    <3>2. QED BY <3>1, PhaseWillBe
  <2>4. ASSUME NEW k \in Jobs \ {j} PROVE Phase(k)' = Phase(k)
    <3>1. Queued(k)' <=> Queued(k)
      BY <2>1 DEF Queued
    <3>2. QED BY <1>0, <2>1, <2>2, <3>1, PhaseKept
  <2>5. Life!Move(j, "working", "concluded")
    BY <1>2, <2>3, <2>4, OneJob
  <2>6. Life!Conclude(j)
    BY <1>0, <2>1, <2>5 DEF Life!Conclude
  <2>7. QED BY <2>6 DEF LifeStep, Life!Next
<1>6. QED BY <1>3, <1>4, <1>5 DEF Process

LEMMA RegistryImplements ==
    ASSUME TypeOK, Custody, NEW j \in Jobs, CallerGone(j) \/ CancelJob(j) \/ RemoveLater(j)
    PROVE  LifeStep
<1>1. UNCHANGED <<subPc, subJob, queue, held, run, removals, retry, errors>>
  BY DEF CallerGone, CancelJob, RemoveLater, clientVars, dispVars, metricVars
<1>2. \A i \in Jobs : status'[i] = "none" <=> status[i] = "none"
  BY DEF CallerGone, CancelJob, RemoveLater, TypeOK, JobOK, Custody, Fresh
<1>3. \A i \in Jobs : Phase(i)' = Phase(i)
  BY <1>1, <1>2, PhaseKept DEF Queued, Submitting
<1>4. CASE CallerGone(j) \/ CancelJob(j)
  BY <1>1, <1>3, <1>4, Stutter DEF CallerGone, CancelJob, LifeStep
<1>5. CASE RemoveLater(j)
  <2>1. j \in removals /\ j \in active /\ active' = active \ {j}
    BY <1>5 DEF RemoveLater
  <2>2. Phase(j) = "concluded"
    BY <2>1, PhaseIs
  <2>3. Life!Forget(j)
    BY <1>1, <1>3, <2>1, <2>2 DEF Life!Forget
  <2>4. QED BY <2>3 DEF LifeStep, Life!Next
<1>6. QED BY <1>4, <1>5

LEMMA InitImplements == Init => Life!Init
<1> SUFFICES ASSUME Init PROVE Life!Init
  OBVIOUS
<1>1. ASSUME NEW j \in Jobs PROVE Phase(j) = "new"
  <2>1. /\ j \notin removals /\ run[j] = "none" /\ status[j] = "none"
        /\ ~(Submitting(j) \/ Queued(j) \/ held = j)
    BY EngineAssumption DEF Init, Submitting, Queued
  <2>2. QED BY <2>1, PhaseIs
<1>2. QED BY <1>1 DEF Init, Life!Init

LEMMA StepImplements == TypeOK /\ Custody /\ Hands /\ [Next]_vars => LifeStep
<1> SUFFICES ASSUME TypeOK, Custody, Hands, [Next]_vars PROVE LifeStep
  OBVIOUS
<1>1. CASE UNCHANGED vars
  <2>1. UNCHANGED <<subPc, subJob, queue, held, run, removals, status, retry, active, errors>>
    BY <1>1 DEF vars, jobVars, clientVars, dispVars, metricVars
  <2>2. \A j \in Jobs : Phase(j)' = Phase(j)
    BY <2>1, PhaseKept DEF Submitting, Queued
  <2>3. QED BY <2>1, <2>2, Stutter DEF LifeStep
<1>2. QED BY <1>1, LifeImplements, DispatchImplements, SubmitImplements, ProcessImplements,
             RegistryImplements DEF Next

\* The engine implements the life of a job.
THEOREM LifecycleImplemented == Spec => ImplementsLifecycle
<1>1. TypeOK /\ Custody /\ Hands /\ [Next]_vars => [Life!Next]_(Life!lifecycle)
  BY StepImplements DEF LifeStep
<1>2. QED BY <1>1, InitImplements, TypeCorrect, CustodyKept, HandsKept, PTL
          DEF Spec, ImplementsLifecycle, Life!Spec

-----------------------------------------------------------------------------
(* What JobsDrain and Stop rest on, fairness aside: who waits for whom.     *)

\* The guards of the steps of the engine's goroutines, as long as the process is
\* up.  A tick of the collector serves nobody who waits, so only its return does.
StartGoes      == mutex = "start" /\ (spawned = MaxWorkers \/ pool < MaxWorkers)
StopGoes       == mutex = "stop" /\ (wg = 0 \/ SlowCalls \/ collector = "locked")
LoopGoes       == loops > 0 /\ (pool < MaxWorkers \/ ctxDone)
DispatcherGoes ==
    \/ dispatcher = "idle"  /\ (queue # <<>> \/ ctxDone)
    \/ dispatcher = "hold"  /\ (pool > 0 \/ ctxDone)
    \/ dispatcher = "count" /\ MetricsFree
RunGoes(j)     == run[j] \in Working \/ (run[j] \in Counting /\ MetricsFree)
CollectorGoes  == \/ collector = "locked" /\ mutex = "free"
                  \/ collector = "idle" /\ ctxDone

\* jobsMutex is free, or its holder goes on, or it is Stop and a goroutine it
\* waits for does, or it is Start before a pool that is full.
MutexMoves ==
    \/ mutex = "free" \/ StartGoes \/ StopGoes
    \/ mutex = "stop"
         /\ (LoopGoes \/ DispatcherGoes \/ CollectorGoes \/ \E j \in Jobs : RunGoes(j))
    \/ mutex = "start" /\ pool = MaxWorkers /\ spawned < MaxWorkers

\* metrics.mu is free, or the collector that holds it goes on, or Stop, which the
\* collector waits for, does.
MetricsMove == MetricsFree \/ CollectorGoes \/ StopGoes

\* Nobody else waits for anything but these two locks, the dispatcher for a
\* worker excepted, which a worker loop then brings.
OnlyStartBlocks ==
    /\ MutexMoves /\ MetricsMove
    /\ dispatcher = "hold"  => DispatcherGoes \/ LoopGoes
    /\ dispatcher = "count" => DispatcherGoes \/ ~MetricsFree
    /\ \A j \in Jobs : run[j] # "none" => RunGoes(j) \/ ~MetricsFree

\* A Stop under way has cancelled the engine's context, and until it does, the
\* worker loops spawned so far are all there.
LoopsLive ==
    /\ mutex = "stop" => ctxDone
    /\ ~ctxDone => /\ mutex = "start" => loops >= spawned
                   /\ dispatcher # "off" => loops > 0

LEMMA LoopsLiveFrame == LoopsLive /\ UNCHANGED <<lifeVars, loops, dispatcher>> => LoopsLive'
BY DEF LoopsLive, lifeVars

LEMMA LoopsLiveStep ==
    ASSUME TypeOK, Custody, Balance, LoopsLive, [Next]_vars
    PROVE  LoopsLive'
<1>1. /\ loops \in Int /\ loops >= 0 /\ spawned \in Int /\ MaxWorkers \in Nat \ {0}
      /\ mutex = "start" => dispatcher = "off"
  BY EngineAssumption DEF TypeOK, PoolOK, LifeOK, Balance, Custody
<1>2. CASE Lifecycle
  <2>1. CASE StartBegin \/ StopBegin \/ StopDone \/ StopTimeout
    BY <1>1, <2>1 DEF StartBegin, StopBegin, StopDone, StopTimeout, StopReturn, poolVars,
                      dispVars, LoopsLive
  <2>2. CASE StartPush
    BY <1>1, <2>2 DEF StartPush, dispVars, LoopsLive
  <2>3. CASE StartFinish
    BY <1>1, <2>3 DEF StartFinish, poolVars, LoopsLive
  <2>4. QED BY <1>2, <2>1, <2>2, <2>3 DEF Lifecycle
<1>3. CASE Pool
  BY <1>1, <1>3 DEF Pool, LoopPush, LoopExit, lifeVars, dispVars, LoopsLive
<1>4. CASE Dispatch
  BY <1>1, <1>4 DEF Dispatch, DispatchTake, DispatchExit, DispatchAssign, DispatchAbort,
                    DispatchCount, lifeVars, poolVars, LoopsLive
<1>5. CASE UNCHANGED <<lifeVars, loops, dispatcher>>
  BY <1>5, LoopsLiveFrame
<1>6. CASE Collect \/ UNCHANGED vars
  BY <1>5, <1>6 DEF Collect, CollectorTick, CollectorRead, CollectorExit, poolVars, dispVars,
                    vars
<1>7. ASSUME NEW c \in Clients, Submit(c) PROVE LoopsLive'
  BY <1>5, <1>7 DEF Submit, SubmitBegin, SubmitExisting, SubmitCreate, SubmitRegister,
                    SubmitEnqueue, SubmitReject, SubmitUnregister, poolVars, dispVars
<1>8. ASSUME NEW j \in Jobs, Process(j) \/ CallerGone(j) \/ CancelJob(j) \/ RemoveLater(j)
      PROVE  LoopsLive'
  BY <1>5, <1>8 DEF Process, RunStart, FileSaved, FileError, RunComplete, RunRetry, RunFail,
                    RunRequeue, RunCount, RunUnchanged, CallerGone, CancelJob, RemoveLater,
                    poolVars, dispVars
<1>9. QED BY <1>2, <1>3, <1>4, <1>6, <1>7, <1>8 DEF Next

\* The goroutines of the engine never wait for each other for ever, with one
\* exception.  A processing goroutine waits for metrics.mu only, the dispatcher for
\* metrics.mu or for a worker which a live worker loop then puts into the pool, the
\* collector that holds metrics.mu for jobsMutex, and a Stop that holds jobsMutex
\* for goroutines that all go on now that the context is cancelled, or for its
\* timer when the collector waits for Stop itself.  The exception is Start, which
\* holds jobsMutex while it fills a pool that its own worker loops may have filled
\* already and nobody takes from before Start is done (processor.go:333).  This is
\* the safety side of JobsDrain and of Stop's return.
THEOREM OnlyStartBlocksKept == Spec => []OnlyStartBlocks
<1>1. ASSUME TypeOK, Custody, Balance, LoopsLive PROVE OnlyStartBlocks
  <2>1. /\ run \in [Jobs -> {"none"} \cup Working \cup Counting]
        /\ mutex \in {"free", "start", "stop"} /\ collector \in {"off", "idle", "locked"}
        /\ dispatcher \in {"off", "idle", "hold", "count"}
        /\ spawned \in 0..MaxWorkers /\ pool \in 0..MaxWorkers /\ MaxWorkers \in Nat \ {0}
        /\ loops \in Int /\ wg \in Int
    BY <1>1, EngineAssumption DEF TypeOK, LifeOK, PoolOK, DispOK, RunOK, MetricOK
  <2>2. mutex = "start" => dispatcher = "off" /\ collector = "off"
    BY <1>1 DEF Custody
  <2>3. \A j \in Jobs : run[j] # "none" => RunGoes(j) \/ ~MetricsFree
    BY <2>1 DEF RunGoes
  <2>4. dispatcher = "hold" => DispatcherGoes \/ LoopGoes
    BY <1>1, <2>1 DEF DispatcherGoes, LoopGoes, LoopsLive
  <2>5. dispatcher = "count" => DispatcherGoes \/ ~MetricsFree
    BY DEF DispatcherGoes
  <2>6. MetricsMove
    BY <2>1, <2>2 DEF MetricsMove, MetricsFree, CollectorGoes, StopGoes
  <2>7. ASSUME mutex = "stop", ~StopGoes PROVE MutexMoves
    <3>1. ctxDone /\ wg # 0 /\ MetricsFree
      BY <1>1, <2>7 DEF LoopsLive, StopGoes, MetricsFree
    <3>2. loops > 0 \/ Cardinality(Processing) # 0 \/ dispatcher # "off" \/ collector # "off"
      BY <1>1, <2>1, <3>1, ProcessingFinite DEF Balance, Counted
    <3>3. CASE Cardinality(Processing) # 0
      <4>1. \E j \in Jobs : run[j] # "none"
        BY <3>3, FS_EmptySet DEF Processing
      <4>2. \E j \in Jobs : RunGoes(j)
        BY <2>3, <3>1, <4>1
      <4>3. QED BY <2>7, <4>2 DEF MutexMoves
    <3>4. CASE loops > 0 \/ dispatcher # "off" \/ collector # "off"
      <4>1. LoopGoes \/ DispatcherGoes \/ CollectorGoes
        BY <2>1, <3>1, <3>4 DEF LoopGoes, DispatcherGoes, CollectorGoes, MetricsFree
      <4>2. QED BY <2>7, <4>1 DEF MutexMoves
    <3>5. QED BY <3>2, <3>3, <3>4
  <2>8. ASSUME mutex = "start", ~StartGoes PROVE MutexMoves
    <3>1. pool = MaxWorkers /\ spawned < MaxWorkers
      BY <2>1, <2>8 DEF StartGoes
    <3>2. QED BY <2>8, <3>1 DEF MutexMoves
  <2>9. MutexMoves
    <3>1. mutex = "free" \/ mutex = "start" \/ mutex = "stop"
      BY <2>1
    <3>2. QED BY <2>7, <2>8, <3>1 DEF MutexMoves
  <2>10. QED BY <2>3, <2>4, <2>5, <2>6, <2>9 DEF OnlyStartBlocks
<1>2. Init => LoopsLive
  BY DEF Init, LoopsLive
<1>3. TypeOK /\ Custody /\ Balance /\ LoopsLive /\ [Next]_vars => LoopsLive'
  BY LoopsLiveStep
<1>4. QED BY <1>1, <1>2, <1>3, TypeCorrect, CustodyKept, BalanceKept, PTL DEF Spec

-----------------------------------------------------------------------------
(* A job makes finitely many steps.                                        *)

\* A thread in SubmitJob is at p with job j.
SubmitAt(j, p) == \E c \in Clients : subJob[c] = j /\ subPc[c] = p

\* The steps a processing goroutine has before it, to the removal of the job from
\* the registry; from its back-off that is by way of the queue.
RunAhead(p) ==
    CASE p = "sleep" -> 8 [] p = "start" -> 5 [] p = "file" -> 4
      [] p \in {"saved", "error"} -> 3 [] OTHER -> 2

\* The steps before a job which are not retries.
Ahead(j) ==
    IF j \in removals THEN IF j \in active THEN 1 ELSE 0
    ELSE IF run[j] # "none" THEN RunAhead(run[j])
    ELSE IF held = j THEN IF dispatcher = "count" THEN 2 ELSE 6
    ELSE IF Queued(j) THEN 7
    ELSE IF SubmitAt(j, "enqueue") THEN 8
    ELSE IF SubmitAt(j, "register") THEN 9
    ELSE IF SubmitAt(j, "unregister") THEN 1
    ELSE IF status[j] = "none" THEN 10 ELSE 0

\* A retry takes a job back by five steps, and MaxRetries allow for so many.
JobSteps(j) == 6 * (MaxRetries - retry[j]) + Ahead(j)

\* The steps that serve job j.
Serves(j) ==
    \/ \E c \in Clients : subJob[c] = j /\ Submit(c)
    \/ \E c \in Clients, k \in Keys : SubmitCreate(c, k) /\ status'[j] # status[j]
    \/ DispatchTake /\ held' = j
    \/ held = j /\ (DispatchAssign \/ DispatchAbort \/ DispatchCount)
    \/ Process(j) \/ RemoveLater(j)

\* What a step for job j does: j gets closer to its end, the others stay.
StepFor(j) ==
    /\ JobSteps(j)' < JobSteps(j)
    /\ \A k \in Jobs \ {j} : JobSteps(k)' = JobSteps(k)

\* What any other step does.
NoStep == \A k \in Jobs : JobSteps(k)' = JobSteps(k)

\* Where a job is determines what is ahead of it.
LEMMA AheadType == \A j \in Jobs : Ahead(j) \in 0..10
BY DEF Ahead, RunAhead

\* A job stays where it is when what places it is the same.
LEMMA AheadKept ==
    ASSUME NEW j \in Jobs,
           j \in removals' <=> j \in removals,
           j \in removals => (j \in active' <=> j \in active),
           run'[j] = run[j], held' = j <=> held = j,
           held = j => (dispatcher' = "count" <=> dispatcher = "count"),
           Queued(j)' <=> Queued(j),
           SubmitAt(j, "enqueue")' <=> SubmitAt(j, "enqueue"),
           SubmitAt(j, "register")' <=> SubmitAt(j, "register"),
           SubmitAt(j, "unregister")' <=> SubmitAt(j, "unregister"),
           status'[j] = "none" <=> status[j] = "none",
           retry'[j] = retry[j]
    PROVE  JobSteps(j)' = JobSteps(j)
BY DEF Ahead, JobSteps

\* A step that takes j further and costs it no retry.
LEMMA LessAhead ==
    ASSUME TypeOK, NEW j \in Jobs, retry' = retry, Ahead(j)' < Ahead(j),
           \A k \in Jobs \ {j} : JobSteps(k)' = JobSteps(k)
    PROVE  StepFor(j)
<1>1. retry[j] \in Int /\ MaxRetries \in Int /\ Ahead(j) \in Int
  BY EngineAssumption, AheadType DEF TypeOK, JobOK
<1>2. Ahead(j)' \in Int
  BY DEF Ahead, RunAhead
<1>3. QED BY <1>1, <1>2 DEF StepFor, JobSteps

LEMMA DispatchFor ==
    ASSUME TypeOK, Custody, NEW j \in Jobs,
           \/ DispatchTake /\ held' = j
           \/ held = j /\ (DispatchAssign \/ DispatchAbort \/ DispatchCount)
    PROVE  StepFor(j)
<1>0. /\ UNCHANGED <<subPc, subJob, retry, active>> /\ NoJob \notin Jobs
      /\ \A k \in Jobs : \A p : SubmitAt(k, p)' <=> SubmitAt(k, p)
  BY EngineAssumption
  DEF DispatchTake, DispatchAssign, DispatchAbort, DispatchCount, Account, clientVars, jobVars,
      SubmitAt
<1>1. CASE DispatchTake /\ held' = j
  <2>1. /\ j = Head(queue) /\ Queued(j) /\ held = NoJob /\ dispatcher' = "hold"
        /\ \A k \in Jobs : Queued(k)' <=> Queued(k) /\ k # j
        /\ UNCHANGED <<run, removals, status>>
    BY <1>0, <1>1, QueueTail
    DEF DispatchTake, TypeOK, Custody, metricVars, jobVars
  <2>2. run[j] = "none" /\ j \notin removals
    BY <2>1 DEF Custody, OnePlace
  <2>3. Ahead(j) = 7 /\ Ahead(j)' = 6
    BY <1>0, <1>1, <2>1, <2>2 DEF Ahead
  <2>4. \A k \in Jobs \ {j} : JobSteps(k)' = JobSteps(k)
    BY <1>0, <1>1, <2>1, AheadKept
  <2>5. QED BY <1>0, <2>3, <2>4, LessAhead
<1>2. ASSUME held = j, DispatchAssign \/ DispatchAbort \/ DispatchCount PROVE StepFor(j)
  <2>1. /\ run[j] = "none" /\ j \notin removals /\ UNCHANGED queue
        /\ \A k \in Jobs : Queued(k)' <=> Queued(k)
    BY <1>2 DEF Custody, OnePlace, DispatchAssign, DispatchAbort, DispatchCount, Queued
  <2>2. CASE DispatchAssign
    <3>1. /\ dispatcher = "hold" /\ held' = NoJob /\ UNCHANGED <<removals, status>>
          /\ \A k \in Jobs : run'[k] = IF k = j THEN "start" ELSE run[k]
      BY <1>2, <2>2 DEF DispatchAssign, metricVars, jobVars, TypeOK, RunOK
    <3>2. Ahead(j) = 6 /\ Ahead(j)' = 5
      BY <1>2, <2>1, <3>1 DEF Ahead, RunAhead
    <3>3. \A k \in Jobs \ {j} : JobSteps(k)' = JobSteps(k)
      BY <1>0, <1>2, <2>1, <3>1, AheadKept
    <3>4. QED BY <1>0, <3>2, <3>3, LessAhead
  <2>3. CASE DispatchAbort
    <3>1. /\ dispatcher = "hold" /\ dispatcher' = "count" /\ held' = j
          /\ UNCHANGED <<run, removals>>
          /\ \A k \in Jobs \ {j} : status'[k] = status[k]
      BY <1>2, <2>3 DEF DispatchAbort, metricVars, TypeOK, JobOK
    <3>2. Ahead(j) = 6 /\ Ahead(j)' = 2
      BY <1>2, <2>1, <3>1 DEF Ahead
    <3>3. \A k \in Jobs \ {j} : JobSteps(k)' = JobSteps(k)
      BY <1>0, <1>2, <2>1, <3>1, AheadKept
    <3>4. QED BY <1>0, <3>2, <3>3, LessAhead
  <2>4. CASE DispatchCount
    <3>1. /\ dispatcher = "count" /\ held' = NoJob /\ UNCHANGED <<run, status>>
          /\ removals' = removals \cup {j}
      BY <1>2, <2>4 DEF DispatchCount, Account, jobVars
    <3>2. Ahead(j) = 2 /\ Ahead(j)' \in {0, 1}
      BY <1>2, <2>1, <3>1 DEF Ahead
    <3>3. \A k \in Jobs \ {j} : JobSteps(k)' = JobSteps(k)
      BY <1>0, <1>2, <2>1, <3>1, AheadKept
    <3>4. QED BY <1>0, <3>2, <3>3, LessAhead
  <2>5. QED BY <1>2, <2>2, <2>3, <2>4
<1>3. QED BY <1>1, <1>2

\* SubmitJob with the job it has created.
LEMMA SubmitFor ==
    ASSUME TypeOK, Custody, Hands, NEW j \in Jobs, NEW c \in Clients, subJob[c] = j, Submit(c)
    PROVE  StepFor(j)
<1>0. /\ UNCHANGED <<held, run, removals, retry, dispatcher>> /\ NoJob \notin Jobs
      /\ subPc[c] \notin {"idle", "check"}
      /\ \A d \in Clients : subJob[d] = j <=> d = c
  BY EngineAssumption
  DEF Submit, SubmitBegin, SubmitExisting, SubmitCreate, SubmitRegister, SubmitEnqueue,
      SubmitReject, SubmitUnregister, dispVars, metricVars, jobVars, TypeOK, ClientOK,
      Custody, OneSubmitter
<1>1. run[j] = "none" /\ j \notin removals /\ held # j /\ ~Queued(j) /\ status[j] # "none"
  BY <1>0 DEF Custody, OnePlace, Submitting, Fresh, InSubmit, Hands, Dropped
<1>2. CASE SubmitRegister(c)
  <2>1. /\ subJob' = subJob /\ UNCHANGED <<queue, status>> /\ active' = active \cup {j}
        /\ subPc[c] = "register" /\ subPc'[c] = "enqueue"
        /\ \A d \in Clients \ {c} : subPc'[d] = subPc[d]
    BY <1>2 DEF SubmitRegister, TypeOK, ClientOK
  <2>2. /\ \A k \in Jobs : Queued(k)' <=> Queued(k)
        /\ \A k \in Jobs \ {j} : \A p : SubmitAt(k, p)' <=> SubmitAt(k, p)
        /\ SubmitAt(j, "register") /\ ~SubmitAt(j, "enqueue") /\ SubmitAt(j, "enqueue")'
    BY <1>0, <2>1 DEF Queued, SubmitAt
  <2>3. Ahead(j) = 9 /\ Ahead(j)' = 8
    BY <1>0, <1>1, <2>1, <2>2 DEF Ahead
  <2>4. \A k \in Jobs \ {j} : JobSteps(k)' = JobSteps(k)
    BY <1>0, <2>1, <2>2, AheadKept
  <2>5. QED BY <1>0, <2>3, <2>4, LessAhead
<1>3. CASE SubmitEnqueue(c)
  <2>1. /\ queue' = Append(queue, j) /\ UNCHANGED <<status, active>>
        /\ subPc[c] = "enqueue"
        /\ \A d \in Clients : subJob'[d] = IF d = c THEN NoJob ELSE subJob[d]
        /\ \A d \in Clients \ {c} : subPc'[d] = subPc[d]
    BY <1>3 DEF SubmitEnqueue, Return, jobVars, TypeOK, ClientOK
  <2>2. \A k \in Jobs : Queued(k)' <=> Queued(k) \/ k = j
    BY <1>1, <2>1, QueueAppend DEF TypeOK, Custody
  <2>3. /\ \A k \in Jobs \ {j} : \A p : SubmitAt(k, p)' <=> SubmitAt(k, p)
        /\ SubmitAt(j, "enqueue")
    BY <1>0, <2>1 DEF SubmitAt
  <2>4. Ahead(j) = 8 /\ Ahead(j)' = 7
    BY <1>0, <1>1, <2>1, <2>2, <2>3 DEF Ahead
  <2>5. \A k \in Jobs \ {j} : JobSteps(k)' = JobSteps(k)
    BY <1>0, <2>1, <2>2, <2>3, AheadKept
  <2>6. QED BY <1>0, <2>4, <2>5, LessAhead
<1>4. CASE SubmitReject(c)
  <2>1. /\ subJob' = subJob /\ UNCHANGED <<queue, status, active>>
        /\ subPc[c] = "enqueue" /\ subPc'[c] = "unregister"
        /\ \A d \in Clients \ {c} : subPc'[d] = subPc[d]
    BY <1>4 DEF SubmitReject, jobVars, TypeOK, ClientOK
  <2>2. /\ \A k \in Jobs : Queued(k)' <=> Queued(k)
        /\ \A k \in Jobs \ {j} : \A p : SubmitAt(k, p)' <=> SubmitAt(k, p)
        /\ SubmitAt(j, "enqueue") /\ SubmitAt(j, "unregister")'
        /\ ~SubmitAt(j, "enqueue")' /\ ~SubmitAt(j, "register")'
    BY <1>0, <2>1 DEF Queued, SubmitAt
  <2>3. Ahead(j) = 8 /\ Ahead(j)' = 1
    BY <1>0, <1>1, <2>1, <2>2 DEF Ahead
  <2>4. \A k \in Jobs \ {j} : JobSteps(k)' = JobSteps(k)
    BY <1>0, <2>1, <2>2, AheadKept
  <2>5. QED BY <1>0, <2>3, <2>4, LessAhead
<1>5. CASE SubmitUnregister(c)
  <2>1. /\ UNCHANGED <<queue, status>> /\ active' = active \ {j} /\ subPc[c] = "unregister"
        /\ \A d \in Clients : subJob'[d] = IF d = c THEN NoJob ELSE subJob[d]
        /\ \A d \in Clients \ {c} : subPc'[d] = subPc[d]
    BY <1>5 DEF SubmitUnregister, Return, TypeOK, ClientOK
  <2>2. /\ \A k \in Jobs : Queued(k)' <=> Queued(k)
        /\ \A k \in Jobs \ {j} : \A p : SubmitAt(k, p)' <=> SubmitAt(k, p)
        /\ SubmitAt(j, "unregister") /\ ~SubmitAt(j, "enqueue") /\ ~SubmitAt(j, "register")
        /\ \A p : ~SubmitAt(j, p)'
    BY <1>0, <2>1 DEF Queued, SubmitAt
  <2>3. Ahead(j) = 1 /\ Ahead(j)' = 0
    BY <1>0, <1>1, <2>1, <2>2 DEF Ahead
  <2>4. \A k \in Jobs \ {j} : JobSteps(k)' = JobSteps(k)
    BY <1>0, <2>1, <2>2, AheadKept
  <2>5. QED BY <1>0, <2>3, <2>4, LessAhead
<1>6. QED BY <1>0, <1>2, <1>3, <1>4, <1>5
      DEF Submit, SubmitBegin, SubmitExisting, SubmitCreate

\* SubmitJob makes a new job.
LEMMA CreateFor ==
    ASSUME TypeOK, Custody, NEW c \in Clients, NEW q \in Keys, SubmitCreate(c, q)
    PROVE  \E j \in Jobs : StepFor(j) /\ \A k \in Jobs \ {j} : status'[k] = status[k]
<1>1. PICK j \in Jobs : /\ status[j] = "none"
                        /\ status' = [status EXCEPT ![j] = "pending"]
                        /\ subJob' = [subJob EXCEPT ![c] = j]
  BY DEF SubmitCreate
<1>2. /\ UNCHANGED <<held, run, removals, retry, dispatcher, queue, active>>
      /\ subJob[c] = NoJob /\ NoJob \notin Jobs
      /\ \A d \in Clients : subJob'[d] = IF d = c THEN j ELSE subJob[d]
      /\ \A d \in Clients : subPc'[d] = IF d = c THEN "register" ELSE subPc[d]
      /\ status'[j] = "pending" /\ \A k \in Jobs \ {j} : status'[k] = status[k]
  BY <1>1, EngineAssumption
  DEF SubmitCreate, dispVars, metricVars, TypeOK, ClientOK, JobOK
<1>3. /\ run[j] = "none" /\ j \notin removals /\ held # j /\ ~Queued(j)
      /\ \A d \in Clients : subJob[d] # j
  BY <1>1 DEF Custody, Fresh, InSubmit
<1>4. /\ \A k \in Jobs : Queued(k)' <=> Queued(k)
      /\ \A k \in Jobs \ {j} : \A p : SubmitAt(k, p)' <=> SubmitAt(k, p)
      /\ SubmitAt(j, "register")' /\ ~SubmitAt(j, "enqueue")'
      /\ \A p : ~SubmitAt(j, p)
  BY <1>2, <1>3 DEF Queued, SubmitAt
<1>5. Ahead(j) = 10 /\ Ahead(j)' = 9
  BY <1>1, <1>2, <1>3, <1>4 DEF Ahead
<1>6. \A k \in Jobs \ {j} : JobSteps(k)' = JobSteps(k)
  BY <1>2, <1>4, AheadKept
<1>7. QED BY <1>2, <1>5, <1>6, LessAhead

\* processJobWithWorker and the delayed removal.
LEMMA ProcessFor ==
    ASSUME TypeOK, Custody, NEW j \in Jobs, Process(j)
    PROVE  StepFor(j)
<1>0. /\ UNCHANGED <<subPc, subJob, held, active, dispatcher>>
      /\ run \in [Jobs -> {"none"} \cup Working \cup Counting]
      /\ retry \in [Jobs -> 0..MaxRetries] /\ status \in [Jobs -> Status \cup {"none"}]
      /\ \A k \in Jobs : \A p : SubmitAt(k, p)' <=> SubmitAt(k, p)
      /\ MaxRetries \in Nat
  BY EngineAssumption
  DEF Process, RunStart, FileSaved, FileError, RunComplete, RunRetry, RunFail, RunRequeue,
      RunCount, RunUnchanged, Account, clientVars, dispVars, TypeOK, RunOK, JobOK, SubmitAt
<1>1. run[j] # "none" /\ j \notin removals /\ held # j /\ ~Queued(j)
  BY DEF Process, RunStart, FileSaved, FileError, RunComplete, RunRetry, RunFail, RunRequeue,
         RunCount, Counting, Custody, OnePlace
<1>2. Ahead(j) = RunAhead(run[j])
  BY <1>1 DEF Ahead
<1>3. CASE \/ RunStart(j) \/ FileSaved(j) \/ FileError(j) \/ RunComplete(j)
           \/ RunFail(j) \/ RunRetry(j)
  <2>1. /\ UNCHANGED <<queue, removals>> /\ run'[j] # "none"
        /\ \A k \in Jobs \ {j} : /\ run'[k] = run[k] /\ status'[k] = status[k]
                                 /\ retry'[k] = retry[k]
        /\ \A k \in Jobs : Queued(k)' <=> Queued(k)
    BY <1>0, <1>3 DEF RunStart, FileSaved, FileError, RunComplete, RunFail, RunRetry,
                      metricVars, Working, Counting, Queued
  <2>2. \A k \in Jobs \ {j} : JobSteps(k)' = JobSteps(k)
    BY <1>0, <2>1, AheadKept
  <2>3. Ahead(j)' = RunAhead(run'[j])
    BY <1>1, <2>1 DEF Ahead
  <2>4. CASE RunRetry(j)
    <3>1. RunAhead(run[j]) = 3 /\ RunAhead(run'[j]) = 8 /\ retry'[j] = retry[j] + 1
      BY <1>0, <2>4 DEF RunRetry, RunAhead
    <3>2. QED BY <1>0, <1>2, <2>2, <2>3, <3>1 DEF StepFor, JobSteps
  <2>5. CASE ~RunRetry(j)
    <3>1. RunAhead(run'[j]) < RunAhead(run[j]) /\ retry' = retry
      BY <1>0, <1>3, <2>5
      DEF RunStart, FileSaved, FileError, RunComplete, RunFail, RunAhead
    <3>2. QED BY <1>2, <2>2, <2>3, <3>1, LessAhead
  <2>6. QED BY <2>4, <2>5
<1>4. CASE RunRequeue(j)
  <2>1. /\ run[j] = "sleep" /\ queue' = Append(queue, j)
        /\ UNCHANGED <<removals, retry, status>> /\ run'[j] = "none"
        /\ \A k \in Jobs \ {j} : run'[k] = run[k]
    BY <1>0, <1>4 DEF RunRequeue, metricVars
  <2>2. \A k \in Jobs : Queued(k)' <=> Queued(k) \/ k = j
    BY <1>1, <2>1, QueueAppend DEF TypeOK, Custody
  <2>3. Ahead(j) = 8 /\ Ahead(j)' = 7
    BY <1>0, <1>1, <1>2, <2>1, <2>2 DEF Ahead, RunAhead
  <2>4. \A k \in Jobs \ {j} : JobSteps(k)' = JobSteps(k)
    BY <1>0, <2>1, <2>2, AheadKept
  <2>5. QED BY <2>1, <2>3, <2>4, LessAhead
<1>5. CASE RunCount(j)
  <2>1. /\ UNCHANGED <<queue, retry, status>> /\ removals' = removals \cup {j}
        /\ run[j] \in Counting /\ \A k \in Jobs \ {j} : run'[k] = run[k]
        /\ \A k \in Jobs : Queued(k)' <=> Queued(k)
    BY <1>0, <1>5 DEF RunCount, Account, Queued
  <2>2. Ahead(j) = 2 /\ Ahead(j)' \in {0, 1}
    BY <1>0, <1>1, <1>2, <2>1 DEF Ahead, RunAhead, Counting
  <2>3. \A k \in Jobs \ {j} : JobSteps(k)' = JobSteps(k)
    BY <1>0, <2>1, AheadKept
  <2>4. QED BY <2>1, <2>2, <2>3, LessAhead
<1>6. QED BY <1>3, <1>4, <1>5 DEF Process

LEMMA RemoveFor ==
    ASSUME TypeOK, NEW j \in Jobs, RemoveLater(j)
    PROVE  StepFor(j)
<1>1. /\ j \in removals /\ j \in active /\ active' = active \ {j}
      /\ UNCHANGED <<subPc, subJob, held, dispatcher, run, removals, queue, status, retry>>
  BY DEF RemoveLater, clientVars, dispVars, metricVars
<1>2. /\ \A k \in Jobs : Queued(k)' <=> Queued(k)
      /\ \A k \in Jobs : \A p : SubmitAt(k, p)' <=> SubmitAt(k, p)
  BY <1>1 DEF Queued, SubmitAt
<1>3. Ahead(j) = 1 /\ Ahead(j)' = 0
  BY <1>1 DEF Ahead
<1>4. \A k \in Jobs \ {j} : JobSteps(k)' = JobSteps(k)
  BY <1>1, <1>2, AheadKept
<1>5. QED BY <1>1, <1>3, <1>4, LessAhead

\* Every step that serves a job brings it closer to its end.
LEMMA ServesFor ==
    ASSUME TypeOK, Custody, Hands, NEW j \in Jobs, Serves(j)
    PROVE  StepFor(j)
<1>1. CASE \E c \in Clients, k \in Keys : SubmitCreate(c, k) /\ status'[j] # status[j]
  BY <1>1, CreateFor
<1>2. QED BY <1>1, SubmitFor, DispatchFor, ProcessFor, RemoveFor DEF Serves
\* Every other step leaves all jobs where they are.
LEMMA NextFalls ==
    ASSUME TypeOK, Custody, Hands, [Next]_vars
    PROVE  NoStep \/ \E j \in Jobs : StepFor(j)
<1>0. /\ NoJob \notin Jobs
      /\ dispatcher \notin {"hold", "count"} => held = NoJob
      /\ mutex = "start" => dispatcher = "off"
  BY EngineAssumption DEF Custody
<1>1. ASSUME UNCHANGED <<subPc, subJob, queue, held, run, removals, retry, active>>,
             \A j \in Jobs : status'[j] = "none" <=> status[j] = "none",
             held \in Jobs => dispatcher' = dispatcher
      PROVE  NoStep
  <2>1. /\ \A k \in Jobs : Queued(k)' <=> Queued(k)
        /\ \A k \in Jobs : \A p : SubmitAt(k, p)' <=> SubmitAt(k, p)
    BY <1>1 DEF Queued, SubmitAt
  <2>2. QED BY <1>1, <2>1, AheadKept DEF NoStep
<1>2. CASE Lifecycle \/ Pool \/ Collect \/ UNCHANGED vars
  <2>1. UNCHANGED <<subPc, subJob, queue, held, run, removals, retry, active, status>>
    BY <1>2
    DEF Lifecycle, StartBegin, StartPush, StartFinish, StopBegin, StopDone, StopTimeout,
        StopReturn, Pool, LoopPush, LoopExit, Collect, CollectorTick, CollectorRead,
        CollectorExit, jobVars, clientVars, dispVars, metricVars, vars
  <2>2. held \in Jobs => dispatcher' = dispatcher
    BY <1>0, <1>2
    DEF Lifecycle, StartBegin, StartPush, StartFinish, StopBegin, StopDone, StopTimeout,
        StopReturn, Pool, LoopPush, LoopExit, Collect, CollectorTick, CollectorRead,
        CollectorExit, dispVars, vars
  <2>3. QED BY <1>1, <2>1, <2>2
<1>3. CASE Dispatch
  <2>1. CASE DispatchTake
    <3>1. held' \in Jobs
      BY <2>1, QueueTail DEF DispatchTake, TypeOK, Custody
    <3>2. QED BY <2>1, <3>1, DispatchFor
  <2>2. CASE DispatchAssign \/ DispatchAbort \/ DispatchCount
    <3>1. held \in Jobs
      BY <2>2 DEF DispatchAssign, DispatchAbort, DispatchCount, TypeOK, DispOK
    <3>2. QED BY <2>2, <3>1, DispatchFor
  <2>3. CASE DispatchExit
    BY <1>0, <1>1, <2>3 DEF DispatchExit, jobVars, clientVars, metricVars
  <2>4. QED BY <1>3, <2>1, <2>2, <2>3 DEF Dispatch
<1>4. ASSUME NEW c \in Clients, Submit(c) PROVE NoStep \/ \E j \in Jobs : StepFor(j)
  <2>1. CASE subJob[c] \in Jobs
    BY <1>4, <2>1, SubmitFor
  <2>2. CASE \E k \in Keys : SubmitCreate(c, k)
    BY <2>2, CreateFor
  <2>3. CASE subJob[c] \notin Jobs /\ ~\E k \in Keys : SubmitCreate(c, k)
    <3>1. SubmitBegin(c) \/ \E k \in Keys : SubmitExisting(c, k)
      BY <1>4, <2>3 DEF Submit, SubmitRegister, SubmitEnqueue, SubmitReject,
                        SubmitUnregister, TypeOK, ClientOK
    <3>2. /\ UNCHANGED <<queue, held, run, removals, retry, active, status, dispatcher>>
          /\ \A k \in Jobs : \A p : SubmitAt(k, p)' <=> SubmitAt(k, p)
      BY <1>0, <2>3, <3>1 DEF SubmitBegin, SubmitExisting, Return, jobVars, dispVars,
                       metricVars, TypeOK, ClientOK, SubmitAt
    <3>3. \A k \in Jobs : Queued(k)' <=> Queued(k)
      BY <3>2 DEF Queued
    <3>4. QED BY <3>2, <3>3, AheadKept DEF NoStep
  <2>4. QED BY <2>1, <2>2, <2>3
<1>5. ASSUME NEW j \in Jobs, Process(j) \/ RemoveLater(j) PROVE StepFor(j)
  BY <1>5, ProcessFor, RemoveFor
<1>6. ASSUME NEW j \in Jobs, CallerGone(j) \/ CancelJob(j) PROVE NoStep
  <2>1. \A k \in Jobs : status'[k] = "none" <=> status[k] = "none"
    BY <1>6 DEF CallerGone, CancelJob, TypeOK, JobOK, Custody, Fresh
  <2>2. UNCHANGED <<subPc, subJob, queue, held, run, removals, retry, active, dispatcher>>
    BY <1>6 DEF CallerGone, CancelJob, clientVars, dispVars, metricVars
  <2>3. QED BY <1>1, <2>1, <2>2
<1>7. QED BY <1>2, <1>3, <1>4, <1>5, <1>6 DEF Next

\* A job is over after at most 6 * MaxRetries + 10 steps, whatever mixture of
\* retries, full queues, cancellations, Stops and restarts it meets: no step of
\* any goroutine takes it back, and each hand-over from SubmitJob to the queue, to
\* the dispatcher, to a processing goroutine, back to the queue by way of the
\* back-off, and out of activeJobs by the delayed removal takes it further.  With
\* OnlyStartBlocksKept this is the safety side of JobsDrain: a job that stays in
\* activeJobs would be one whose next step the scheduler never runs.
THEOREM JobIsFinite ==
    Spec => /\ [](\A j \in Jobs : JobSteps(j) \in 0..(6 * MaxRetries + 10))
            /\ [][\A j \in Jobs : /\ JobSteps(j)' <= JobSteps(j)
                                  /\ Serves(j) => JobSteps(j)' < JobSteps(j)]_vars
<1>1. TypeOK => \A j \in Jobs : JobSteps(j) \in 0..(6 * MaxRetries + 10)
  <2> SUFFICES ASSUME TypeOK, NEW j \in Jobs PROVE JobSteps(j) \in 0..(6 * MaxRetries + 10)
    OBVIOUS
  <2>1. retry[j] \in 0..MaxRetries /\ MaxRetries \in Nat /\ Ahead(j) \in 0..10
    BY EngineAssumption, AheadType DEF TypeOK, JobOK
  <2>2. QED BY <2>1 DEF JobSteps
<1>2. TypeOK /\ TypeOK' => \A j \in Jobs : JobSteps(j) \in Int /\ JobSteps(j)' \in Int
  <2>1. TypeOK' => (\A j \in Jobs : JobSteps(j) \in 0..(6 * MaxRetries + 10))'
    BY <1>1, PTL
  <2>2. QED BY <1>1, <2>1, EngineAssumption
<1>3. TypeOK /\ TypeOK' /\ Custody /\ Hands /\ [Next]_vars =>
        [\A j \in Jobs : /\ JobSteps(j)' <= JobSteps(j)
                         /\ Serves(j) => JobSteps(j)' < JobSteps(j)]_vars
  <2> SUFFICES ASSUME TypeOK, TypeOK', Custody, Hands, [Next]_vars
               PROVE  \A j \in Jobs : /\ JobSteps(j)' <= JobSteps(j)
                                      /\ Serves(j) => JobSteps(j)' < JobSteps(j)
    OBVIOUS
  <2>1. \A j \in Jobs : JobSteps(j) \in Int /\ JobSteps(j)' \in Int
    BY <1>2
  <2>2. \A j \in Jobs : JobSteps(j)' < JobSteps(j) \/ JobSteps(j)' = JobSteps(j)
    BY NextFalls DEF NoStep, StepFor
  <2>3. \A j \in Jobs : Serves(j) => JobSteps(j)' < JobSteps(j)
    BY ServesFor DEF StepFor
  <2>4. QED BY <2>1, <2>2, <2>3
<1>4. QED BY <1>1, <1>3, TypeCorrect, CustodyKept, HandsKept, PTL DEF Spec
==============================================================================
