---------------------------- MODULE Events_proofs ----------------------------
(***************************************************************************)
(* Theorems about what reacts to the domain events: the sagas and their    *)
(* manager, for any number of threads, review sagas and hotel sagas, and   *)
(* the delivery of the events from the outbox to the handlers of the bus,  *)
(* for any events, handlers, batch size and number of faults.              *)
(***************************************************************************)
EXTENDS Saga, EventDelivery, FiniteSetTheorems, SequenceTheorems, TLAPS

-----------------------------------------------------------------------------
(* Sagas: the inductive invariant, part by part.                           *)

\* The lock of a saga is held for writing by the thread that executes it, and for
\* reading by those that compensate it because of an event; never both.
LocksHeld ==
    /\ \A s \in Sagas, t \in Threads :
          /\ writer[s] = t <=> at[t] = s /\ pc[t] \in {"run", "undo"}
          /\ t \in readers[s] <=> at[t] = s /\ pc[t] = "compensate"
    /\ \A s \in Sagas : writer[s] # NoThread => readers[s] = {}
    /\ \A t \in Threads : pc[t] # "idle" => at[t] \in Sagas

\* What the status of a saga says about its lock and its subject.
Stages ==
    \A s \in Sagas :
        /\ writer[s] # NoThread <=> status[s] = "in_progress"
        /\ readers[s] # {} => status[s] = "failed"
        /\ s \in trigger <=> status[s] # "pending"
        /\ status[s] = "pending" => world[s] = New

\* A sweep cannot remove a saga between its registration and its first step.
Known ==
    \A s \in Sagas :
        /\ status[s] = "in_progress" => s \in registry
        /\ status[s] = "pending" /\ (\E t \in Threads : pc[t] = "start" /\ at[t] = s) =>
               s \in registry

\* What a saga has done before its call number p.
ReviewProgress(p, w) ==
    /\ p \in 1..10
    /\ w.loaded <=> p > 1
    /\ w.verdict # "none" <=> p > 2
    /\ w.mark = IF p > 3 THEN w.verdict ELSE "none"
    /\ w.decision = IF p > 4 THEN w.verdict ELSE "pending"
    /\ w.metrics = IF p > 5 /\ w.verdict = "approved" THEN 1 ELSE 0
    /\ w.indexed <=> p > 7 /\ w.verdict = "approved"

HotelProgress(p, w) ==
    /\ p \in 1..8
    /\ w.loaded <=> p > 2
    /\ w.verdict = "none" /\ w.mark = "none" /\ w.metrics = 0
    /\ w.decision = IF p > 7 THEN "active" ELSE "pending"
    /\ w.indexed <=> p > 6

Progress(s, p, w) == IF s \in ReviewSagas THEN ReviewProgress(p, w) ELSE HotelProgress(p, w)

\* The public sees nothing of the saga; what it sees can be taken back.
Clean(w)    == w.decision = "pending" /\ ~w.indexed
Undoable(w) == Clean(w) \/ w.loaded

\* The step to be compensated next, k, is not below one that still shows.
DecidedBy(s) == IF s \in ReviewSagas THEN 2 ELSE 6
IndexedBy(s) == IF s \in ReviewSagas THEN 4 ELSE 5

ToUndo(s, k, w) ==
    /\ w.decision # "pending" => w.loaded /\ k >= DecidedBy(s)
    /\ w.indexed => w.loaded /\ k >= IndexedBy(s)

Works ==
    \A t \in Threads :
        /\ pc[t] = "run" => Progress(at[t], pos[t], world[at[t]])
        /\ pc[t] \in {"undo", "compensate"} => pos[t] \in 0..6
        /\ pc[t] = "compensate" => ToUndo(at[t], pos[t], world[at[t]])

Outcome ==
    \A s \in Sagas :
        /\ Undoable(world[s])
        /\ status[s] = "completed" => Progress(s, Len(Calls(s)) + 1, world[s])

\* What holds besides when no service does its work and then reports an error.
Withdrawing ==
    /\ \A t \in Threads : pc[t] = "undo" => ToUndo(at[t], pos[t], world[at[t]])
    /\ \A s \in Sagas \ botched :
          status[s] = "failed" => Clean(world[s]) \/ readers[s] # {}

SagaInv == TypeOK /\ LocksHeld /\ Stages /\ Known /\ Works /\ Outcome

-----------------------------------------------------------------------------
(* The calls of a saga, one after the other.                               *)

LEMMA ReviewPlan ==
    /\ Len(ReviewCalls) = 9
    /\ ReviewCalls[1] = "load" /\ ReviewCalls[2] = "moderate" /\ ReviewCalls[3] = "mark"
    /\ ReviewCalls[4] = "decide" /\ ReviewCalls[5] = "metrics" /\ ReviewCalls[6] = "activity"
    /\ ReviewCalls[7] = "index" /\ ReviewCalls[8] = "notify" /\ ReviewCalls[9] = "decide"
    /\ ReviewStepOf[1] = 1 /\ ReviewStepOf[2] = 2 /\ ReviewStepOf[3] = 2
    /\ ReviewStepOf[4] = 2 /\ ReviewStepOf[5] = 3 /\ ReviewStepOf[6] = 3
    /\ ReviewStepOf[7] = 4 /\ ReviewStepOf[8] = 5 /\ ReviewStepOf[9] = 6
BY DEF ReviewCalls, ReviewStepOf

LEMMA HotelPlan ==
    /\ Len(HotelCalls) = 7
    /\ HotelCalls[1] = "get" /\ HotelCalls[2] = "load" /\ HotelCalls[3] = "address"
    /\ HotelCalls[4] = "contact" /\ HotelCalls[5] = "license" /\ HotelCalls[6] = "index"
    /\ HotelCalls[7] = "activate"
    /\ HotelStepOf[1] = 1 /\ HotelStepOf[2] = 1 /\ HotelStepOf[3] = 2 /\ HotelStepOf[4] = 3
    /\ HotelStepOf[5] = 4 /\ HotelStepOf[6] = 5 /\ HotelStepOf[7] = 6
BY DEF HotelCalls, HotelStepOf

\* What the calls that change the subject leave in its fields.
LEMMA SkippedOutcome ==
    ASSUME NEW call, NEW w, Skipped(call, w)
    PROVE  \A v \in Outcomes(call, w) : v = w
BY DEF Outcomes

LEMMA LoadEffect ==
    ASSUME NEW w \in Subject, NEW v \in Load(w)
    PROVE  /\ v \in Subject /\ v.loaded /\ v.verdict = w.verdict /\ v.mark = w.mark
           /\ v.decision = w.decision /\ v.metrics = w.metrics /\ (v.indexed <=> w.indexed)
BY DEF Load, Subject

LEMMA CountEffect ==
    ASSUME NEW w \in Subject, NEW v \in Count(w), w.metrics = 0
    PROVE  /\ v \in Subject /\ (v.loaded <=> w.loaded) /\ v.verdict = w.verdict
           /\ v.mark = w.mark /\ v.decision = w.decision /\ v.metrics = 1
           /\ (v.indexed <=> w.indexed)
BY DEF Count, Subject

LEMMA IndexEffect ==
    ASSUME NEW w \in Subject, NEW v \in Index(w)
    PROVE  /\ v \in Subject /\ (v.loaded <=> w.loaded) /\ v.verdict = w.verdict
           /\ v.mark = w.mark /\ v.decision = w.decision /\ v.metrics = w.metrics /\ v.indexed
BY DEF Index, Subject

\* A call that does its work takes the saga to the next call.
LEMMA ReviewCallDone ==
    ASSUME NEW w \in Subject, NEW p \in 1..9, ReviewProgress(p, w),
           NEW v \in Outcomes(ReviewCalls[p], w)
    PROVE  v \in Subject /\ ReviewProgress(p + 1, v)
<1> USE ReviewPlan DEF Outcomes, Skipped, Subject, ReviewProgress
<1>1. CASE p = 1
  <2>1. v \in Load(w)
    BY <1>1
  <2>2. QED BY <1>1, <2>1, LoadEffect
<1>2. CASE p = 2
  BY <1>2 DEF Moderate
<1>3. CASE p = 3
  BY <1>3 DEF Mark
<1>4. CASE p = 4
  BY <1>4 DEF Decide
<1>5. CASE p = 5
  <2>1. CASE w.verdict = "rejected"
    <3>1. Skipped(ReviewCalls[p], w)
      BY <1>5, <2>1
    <3>2. v = w
      BY <3>1, SkippedOutcome, Zenon
    <3>3. QED BY <1>5, <2>1, <3>2
  <2>2. CASE w.verdict # "rejected"
    <3>1. v \in Count(w) /\ w.metrics = 0
      BY <1>5, <2>2
    <3>2. QED BY <1>5, <2>2, <3>1, CountEffect
  <2>3. QED BY <2>1, <2>2
<1>6. CASE p = 6
  BY <1>6
<1>7. CASE p = 7
  <2>1. CASE w.verdict = "rejected"
    <3>1. Skipped(ReviewCalls[p], w)
      BY <1>7, <2>1
    <3>2. v = w
      BY <3>1, SkippedOutcome, Zenon
    <3>3. QED BY <1>7, <2>1, <3>2
  <2>2. CASE w.verdict # "rejected"
    <3>1. v \in Index(w)
      BY <1>7, <2>2
    <3>2. QED BY <1>7, <2>2, <3>1, IndexEffect
  <2>3. QED BY <2>1, <2>2
<1>8. CASE p = 8
  BY <1>8
<1>9. CASE p = 9
  BY <1>9 DEF Decide
<1>10. QED BY <1>1, <1>2, <1>3, <1>4, <1>5, <1>6, <1>7, <1>8, <1>9

LEMMA HotelCallDone ==
    ASSUME NEW w \in Subject, NEW p \in 1..7, HotelProgress(p, w),
           NEW v \in Outcomes(HotelCalls[p], w)
    PROVE  v \in Subject /\ HotelProgress(p + 1, v)
<1> USE HotelPlan DEF Outcomes, Skipped, Subject, HotelProgress
<1>1. CASE p = 2
  <2>1. v \in Load(w)
    BY <1>1
  <2>2. QED BY <1>1, <2>1, LoadEffect
<1>2. CASE p = 6
  <2>1. v \in Index(w)
    BY <1>2
  <2>2. QED BY <1>2, <2>1, IndexEffect
<1>3. CASE p = 7
  BY <1>3 DEF Activate
<1>4. CASE p \in {1, 3, 4, 5}
  BY <1>4
<1>5. QED BY <1>1, <1>2, <1>3, <1>4

LEMMA CallBounds ==
    ASSUME NEW s, NEW w, NEW p, Progress(s, p, w), p <= Len(Calls(s))
    PROVE  /\ s \in ReviewSagas =>
                  p \in 1..9 /\ ReviewProgress(p, w) /\ Calls(s) = ReviewCalls
           /\ s \notin ReviewSagas =>
                  p \in 1..7 /\ HotelProgress(p, w) /\ Calls(s) = HotelCalls
<1>1. CASE s \in ReviewSagas
  <2>1. ReviewProgress(p, w) /\ Calls(s) = ReviewCalls
    BY <1>1 DEF Progress, Calls
  <2>2. p \in 1..10 /\ p <= 9
    BY <2>1, ReviewPlan DEF ReviewProgress
  <2>3. QED BY <1>1, <2>1, <2>2
<1>2. CASE s \notin ReviewSagas
  <2>1. HotelProgress(p, w) /\ Calls(s) = HotelCalls
    BY <1>2 DEF Progress, Calls
  <2>2. p \in 1..8 /\ p <= 7
    BY <2>1, HotelPlan DEF HotelProgress
  <2>3. QED BY <1>2, <2>1, <2>2
<1>3. QED BY <1>1, <1>2

\* How long the plans are, and where their progress ends.
LEMMA PlanLength ==
    ASSUME NEW s
    PROVE  /\ s \in ReviewSagas => Len(Calls(s)) = 9
           /\ s \notin ReviewSagas => Len(Calls(s)) = 7
BY ReviewPlan, HotelPlan DEF Calls

LEMMA ProgressBounds ==
    ASSUME NEW s, NEW p, NEW w, Progress(s, p, w)
    PROVE  p \in Nat /\ p <= Len(Calls(s)) + 1
<1>1. CASE s \in ReviewSagas
  <2>1. p \in 1..10
    BY <1>1 DEF Progress, ReviewProgress
  <2>2. Len(Calls(s)) = 9
    BY <1>1, PlanLength
  <2>3. QED BY <2>1, <2>2
<1>2. CASE s \notin ReviewSagas
  <2>1. p \in 1..8
    BY <1>2 DEF Progress, HotelProgress
  <2>2. Len(Calls(s)) = 7
    BY <1>2, PlanLength
  <2>3. QED BY <2>1, <2>2
<1>3. QED BY <1>1, <1>2

LEMMA CallDone ==
    ASSUME NEW s \in Sagas, NEW w \in Subject, NEW p, Progress(s, p, w), p <= Len(Calls(s)),
           NEW v \in Outcomes(Calls(s)[p], w)
    PROVE  v \in Subject /\ p \in 1..9 /\ Progress(s, p + 1, v)
<1>1. CASE s \in ReviewSagas
  <2>1. p \in 1..9 /\ ReviewProgress(p, w) /\ Calls(s) = ReviewCalls
    BY <1>1, CallBounds
  <2>2. QED BY <1>1, <2>1, ReviewCallDone DEF Progress
<1>2. CASE s \notin ReviewSagas
  <2>1. p \in 1..7 /\ HotelProgress(p, w) /\ Calls(s) = HotelCalls
    BY <1>2, CallBounds
  <2>2. QED BY <1>2, <2>1, HotelCallDone DEF Progress
<1>3. QED BY <1>1, <1>2

LEMMA StartProgress ==
    ASSUME NEW s \in Sagas
    PROVE  New \in Subject /\ Clean(New) /\ Progress(s, 1, New)
BY DEF New, Subject, Clean, Progress, ReviewProgress, HotelProgress

\* Whatever a running saga has shown was shown after its data was loaded.
LEMMA ProgressUndoable ==
    ASSUME NEW s \in Sagas, NEW p, NEW w \in Subject, Progress(s, p, w)
    PROVE  Undoable(w)
BY DEF Progress, ReviewProgress, HotelProgress, Undoable, Clean

\* The compensation starts high enough.
LEMMA UndoStarts ==
    ASSUME NEW s \in Sagas, NEW p, NEW w \in Subject, Progress(s, p, w), p <= Len(Calls(s))
    PROVE  FirstUndo(s, p) \in 0..5 /\ ToUndo(s, FirstUndo(s, p), w)
<1> USE DEF ToUndo, DecidedBy, IndexedBy, FirstUndo, StepOf
<1>1. CASE s \in ReviewSagas
  <2>1. p \in 1..9 /\ ReviewProgress(p, w)
    BY <1>1, CallBounds
  <2>2. CASE p \in {1, 2, 3, 4}
    BY <1>1, <2>1, <2>2, ReviewPlan DEF ReviewProgress
  <2>3. CASE p \in {5, 6, 7}
    BY <1>1, <2>1, <2>3, ReviewPlan DEF ReviewProgress
  <2>4. CASE p \in {8, 9}
    BY <1>1, <2>1, <2>4, ReviewPlan DEF ReviewProgress
  <2>5. QED BY <2>1, <2>2, <2>3, <2>4
<1>2. CASE s \notin ReviewSagas
  <2>1. p \in 1..7 /\ HotelProgress(p, w)
    BY <1>2, CallBounds
  <2>2. CASE p \in {1, 2, 3, 4}
    BY <1>2, <2>1, <2>2, HotelPlan DEF HotelProgress
  <2>3. CASE p \in {5, 6, 7}
    BY <1>2, <2>1, <2>3, HotelPlan DEF HotelProgress
  <2>4. QED BY <2>1, <2>2, <2>3
<1>3. QED BY <1>1, <1>2

\* One compensation: it takes back what its step shows, and never adds anything.
LEMMA UndoStep ==
    ASSUME NEW s \in Sagas, NEW k \in 1..6, NEW w \in Subject
    PROVE  /\ Undo(s, k, w) \in Subject
           /\ ToUndo(s, k, w) => ToUndo(s, k - 1, Undo(s, k, w))
           /\ \A i \in 0..6 : ToUndo(s, i, w) => ToUndo(s, i, Undo(s, k, w))
           /\ Undoable(w) => Undoable(Undo(s, k, w))
           /\ Clean(w) => Clean(Undo(s, k, w))
<1>0. \/ Undo(s, k, w) = w /\ (w.loaded => k # DecidedBy(s) /\ k # IndexedBy(s))
      \/ Undo(s, k, w) = Unindex(w) /\ k # DecidedBy(s)
      \/ Undo(s, k, w) = Withdraw(w) /\ k # IndexedBy(s)
  BY SagaAssumption DEF Undo, DecidedBy, IndexedBy, Sagas
<1>1. /\ Unindex(w) \in Subject /\ (Unindex(w).loaded <=> w.loaded)
      /\ Unindex(w).decision = w.decision /\ ~Unindex(w).indexed
  BY DEF Unindex, Subject
<1>4. /\ Withdraw(w) \in Subject /\ (Withdraw(w).loaded <=> w.loaded)
      /\ Withdraw(w).decision = "pending" /\ (Withdraw(w).indexed <=> w.indexed)
  BY DEF Withdraw, Subject
<1>2. DecidedBy(s) \in {2, 6} /\ IndexedBy(s) \in {4, 5}
  BY DEF DecidedBy, IndexedBy
<1>3. QED BY <1>0, <1>1, <1>2, <1>4 DEF ToUndo, Undoable, Clean

LEMMA UndoEnds ==
    ASSUME NEW s \in Sagas, NEW w \in Subject, ToUndo(s, 0, w)
    PROVE  Clean(w)
BY DEF ToUndo, Clean, DecidedBy, IndexedBy, Subject

LEMMA UndoAll ==
    ASSUME NEW s \in Sagas, NEW w \in Subject, Undoable(w)
    PROVE  ToUndo(s, LastStep, w)
BY DEF ToUndo, Undoable, Clean, DecidedBy, IndexedBy, LastStep

-----------------------------------------------------------------------------
(* Sagas: the steps.  Most of them move one thread and no subject.         *)

LEMMA InitSaga == Init => SagaInv /\ Withdrawing
<1> SUFFICES ASSUME Init PROVE SagaInv /\ Withdrawing
  OBVIOUS
<1>1. TypeOK
  BY StartProgress DEF Init, TypeOK, Status
<1>2. LocksHeld
  BY SagaAssumption DEF Init, LocksHeld
<1>3. Stages /\ Known
  BY SagaAssumption DEF Init, Stages, Known
<1>4. Works /\ Withdrawing
  BY DEF Init, Works, Withdrawing
<1>5. Outcome
  BY StartProgress DEF Init, Outcome, Undoable
<1>6. QED BY <1>1, <1>2, <1>3, <1>4, <1>5 DEF SagaInv

\* What a thread does when it changes only where it is.
LEMMA GotoIs ==
    ASSUME TypeOK, NEW t \in Threads, NEW label, NEW p, Goto(t, label, p)
    PROVE  \A u \in Threads : /\ pc'[u] = IF u = t THEN label ELSE pc[u]
                              /\ pos'[u] = IF u = t THEN p ELSE pos[u]
BY DEF Goto, TypeOK

LEMMA ReturnIs ==
    ASSUME TypeOK, NEW t \in Threads, Return(t)
    PROVE  \A u \in Threads : /\ pc'[u] = IF u = t THEN "idle" ELSE pc[u]
                              /\ pos'[u] = IF u = t THEN 0 ELSE pos[u]
                              /\ at'[u] = IF u = t THEN NoThread ELSE at[u]
BY DEF Return, Goto, TypeOK

LEMMA SweepSteps ==
    SagaInv /\ (SweepBegin \/ SweepOne) => SagaInv' /\ (Withdrawing => Withdrawing')
<1> SUFFICES ASSUME SagaInv, SweepBegin \/ SweepOne
             PROVE  SagaInv' /\ (Withdrawing => Withdrawing')
  OBVIOUS
<1> USE DEF SagaInv
<1>1. UNCHANGED <<status, trigger, world, lockVars, pc, at, pos, todo, botched>>
  BY DEF SweepBegin, SweepOne
<1>2. /\ registry' \subseteq registry /\ sweep' \subseteq registry'
      /\ \A s \in Sagas : s \in registry /\ status[s] \notin Terminal => s \in registry'
  BY DEF SweepBegin, SweepOne, TypeOK
<1>3. TypeOK'
  BY <1>1, <1>2 DEF TypeOK, lockVars
<1>4. LocksHeld' /\ Stages' /\ Works' /\ Outcome' /\ (Withdrawing => Withdrawing')
  BY <1>1 DEF LocksHeld, Stages, Works, Outcome, Withdrawing, lockVars
<1>5. Known'
  BY <1>1, <1>2 DEF Known, Terminal
<1>6. QED BY <1>3, <1>4, <1>5

\* StartSaga and HandleEvent enter the manager.
LEMMA EnterSteps ==
    ASSUME SagaInv, NEW t \in Threads, NEW s \in Sagas, StartSaga(t, s) \/ HandleEvent(t, s)
    PROVE  SagaInv' /\ (Withdrawing => Withdrawing')
<1> USE DEF SagaInv
<1>1. /\ UNCHANGED <<sweep, status, trigger, world, lockVars, botched>>
      /\ pc[t] = "idle" /\ sweep = {} /\ registry \subseteq registry' /\ registry' \subseteq Sagas
      /\ \A u \in Threads : at'[u] = IF u = t THEN s ELSE at[u]
      /\ \A u \in Threads : pos'[u] = IF u = t THEN 0 ELSE pos[u]
      /\ \/ s \in registry' /\ \A u \in Threads : pc'[u] = IF u = t THEN "start" ELSE pc[u]
         \/ \A u \in Threads : pc'[u] = IF u = t THEN "offer" ELSE pc[u]
  BY GotoIs DEF StartSaga, HandleEvent, ManagerFree, managerVars, TypeOK
<1>2. TypeOK'
  BY <1>1 DEF StartSaga, HandleEvent, Goto, managerVars, TypeOK, lockVars
<1>3. LocksHeld'
  BY <1>1 DEF LocksHeld, lockVars
<1>4. Stages' /\ Outcome'
  BY <1>1 DEF Stages, Outcome, lockVars
<1>5. Known'
  BY <1>1 DEF Known
<1>6. Works' /\ (Withdrawing => Withdrawing')
  BY <1>1 DEF Works, Withdrawing, lockVars
<1>7. QED BY <1>2, <1>3, <1>4, <1>5, <1>6

\* A refused start and an event offered to every saga leave it again.
LEMMA LeaveSteps ==
    ASSUME SagaInv, NEW t \in Threads, StartRefused(t) \/ EndHandle(t)
    PROVE  SagaInv' /\ (Withdrawing => Withdrawing')
<1> USE DEF SagaInv
<1>1. /\ UNCHANGED <<managerVars, status, trigger, world, lockVars, botched>>
      /\ pc[t] \in {"start", "offer"} /\ Return(t)
  BY DEF StartRefused, EndHandle
<1>2. TypeOK'
  BY <1>1 DEF Return, Goto, managerVars, TypeOK, lockVars
<1>3. LocksHeld'
  BY <1>1, ReturnIs, SagaAssumption DEF LocksHeld, lockVars
<1>4. Stages' /\ Outcome'
  BY <1>1 DEF Stages, Outcome, lockVars
<1>5. Known'
  BY <1>1, ReturnIs DEF Known, managerVars
<1>6. Works' /\ (Withdrawing => Withdrawing')
  BY <1>1, ReturnIs DEF Works, Withdrawing, lockVars
<1>7. QED BY <1>2, <1>3, <1>4, <1>5, <1>6

LEMMA IgnoreStep ==
    ASSUME SagaInv, NEW t \in Threads, OfferIgnored(t)
    PROVE  SagaInv' /\ (Withdrawing => Withdrawing')
<1> USE DEF SagaInv
<1>1. /\ UNCHANGED <<managerVars, status, trigger, world, lockVars, pc, at, pos, botched>>
      /\ todo' \in [Threads -> SUBSET Sagas]
  BY DEF OfferIgnored, TypeOK
<1>2. QED
  BY <1>1 DEF TypeOK, LocksHeld, Stages, Known, Works, Outcome, Withdrawing, managerVars,
              lockVars

LEMMA StartStep ==
    ASSUME SagaInv, NEW t \in Threads, StartRuns(t)
    PROVE  SagaInv' /\ (Withdrawing => Withdrawing')
<1> USE DEF SagaInv
<1> DEFINE s == at[t]
<1>1. /\ UNCHANGED <<managerVars, world, readers, at, todo, botched>>
      /\ s \in Sagas /\ pc[t] = "start" /\ Goto(t, "run", 1)
      /\ status[s] = "pending" /\ writer[s] = NoThread /\ readers[s] = {}
      /\ trigger' = trigger \cup {s}
      /\ \A z \in Sagas : writer'[z] = IF z = s THEN t ELSE writer[z]
      /\ \A z \in Sagas : status'[z] = IF z = s THEN "in_progress" ELSE status[z]
  BY DEF StartRuns, LockFree, TypeOK, LocksHeld
<1>2. TypeOK'
  BY <1>1 DEF StartRuns, Goto, managerVars, TypeOK, Status
<1>3. LocksHeld'
  BY <1>1, GotoIs, SagaAssumption DEF LocksHeld
<1>4. Stages'
  BY <1>1, SagaAssumption DEF Stages
<1>5. Outcome'
  BY <1>1 DEF Outcome
<1>6. Known'
  BY <1>1, GotoIs DEF Known, managerVars
<1>7. world[s] = New /\ Progress(s, 1, world[s])
  BY <1>1, StartProgress DEF Stages
<1>8. Works'
  BY <1>1, <1>7, GotoIs DEF Works
<1>9. Withdrawing => Withdrawing'
  BY <1>1, GotoIs DEF Withdrawing
<1>10. QED BY <1>2, <1>3, <1>4, <1>5, <1>6, <1>8, <1>9

\* The subject of one saga changes, and only a thread of that saga moves.
LEMMA WorldIs ==
    ASSUME TypeOK, NEW s \in Sagas, NEW w, world' = [world EXCEPT ![s] = w]
    PROVE  \A z \in Sagas : world'[z] = IF z = s THEN w ELSE world[z]
BY DEF TypeOK

\* While a saga runs nobody else is at it.
LEMMA OneRunner ==
    ASSUME LocksHeld, NEW t \in Threads, NEW u \in Threads, pc[t] \in {"run", "undo"},
           at[u] = at[t], pc[u] \in {"run", "undo", "compensate"}
    PROVE  u = t
<1>1. at[t] \in Sagas /\ writer[at[t]] = t
  BY DEF LocksHeld
<1>2. readers[at[t]] = {} \/ writer[at[t]] = NoThread
  BY <1>1 DEF LocksHeld
<1>3. t # NoThread
  BY SagaAssumption
<1>4. QED BY <1>1, <1>2, <1>3 DEF LocksHeld

\* A call of a service, successful or not.
LEMMA CallStep ==
    ASSUME SagaInv, NEW t \in Threads, CallOk(t) \/ CallError(t)
    PROVE  SagaInv' /\ (~LostReplies /\ Withdrawing => Withdrawing')
<1> USE DEF SagaInv
<1> DEFINE s == at[t]
<1> DEFINE p == pos[t]
<1>1. /\ UNCHANGED <<managerVars, status, trigger, lockVars, at, todo, botched>>
      /\ s \in Sagas /\ pc[t] = "run" /\ p <= Len(Calls(s))
      /\ world[s] \in Subject /\ Progress(s, p, world[s])
  BY DEF CallOk, CallError, LocksHeld, Works, TypeOK
<1>0. ~(CallOk(t) /\ CallError(t))
  <2>1. ASSUME CallOk(t), CallError(t) PROVE FALSE
    <3>1. pc'[t] = "run" /\ pc'[t] = "undo"
      BY <2>1, GotoIs DEF CallOk, CallError
    <3>2. QED BY <3>1
  <2>2. QED BY <2>1
<1>2. PICK w : /\ world' = [world EXCEPT ![s] = w]
               /\ w \in Outcomes(Calls(s)[p], world[s]) \/ w = world[s]
               /\ CallOk(t) => w \in Outcomes(Calls(s)[p], world[s])
               /\ CallError(t) /\ ~LostReplies => w = world[s]
  <2>1. CASE CallOk(t)
    <3>1. PICK w \in Outcomes(Calls(s)[p], world[s]) : world' = [world EXCEPT ![s] = w]
      BY <2>1 DEF CallOk
    <3>2. QED BY <1>0, <2>1, <3>1
  <2>2. CASE CallError(t)
    <3>1. \/ world' = [world EXCEPT ![s] = world[s]]
          \/ LostReplies /\ \E w \in Outcomes(Calls(s)[p], world[s]) :
                                world' = [world EXCEPT ![s] = w]
      BY <2>2 DEF CallError, TypeOK
    <3>2. QED BY <1>0, <2>2, <3>1
  <2>3. QED BY <2>1, <2>2
<1>3. /\ w \in Subject /\ Undoable(w)
      /\ w \in Outcomes(Calls(s)[p], world[s]) => Progress(s, p + 1, w) /\ p \in 1..9
  BY <1>1, <1>2, CallDone, ProgressUndoable
<1>4. \/ CallOk(t) /\ Goto(t, "run", p + 1)
      \/ CallError(t) /\ Goto(t, "undo", FirstUndo(s, p))
  BY DEF CallOk, CallError
<1>5. /\ p \in 1..10
      /\ FirstUndo(s, p) \in 0..5 /\ ToUndo(s, FirstUndo(s, p), world[s])
  BY <1>1, UndoStarts, CallBounds
<1>6. \A u \in Threads \ {t} : pc[u] \in {"run", "undo", "compensate"} => at[u] # s
  BY <1>1, OneRunner
<1>7. /\ \A z \in Sagas : world'[z] = IF z = s THEN w ELSE world[z]
      /\ \A u \in Threads \ {t} : pc'[u] = pc[u] /\ pos'[u] = pos[u]
      /\ \/ CallOk(t) /\ pc'[t] = "run" /\ pos'[t] = p + 1
         \/ CallError(t) /\ pc'[t] = "undo" /\ pos'[t] = FirstUndo(s, p)
  <2>1. \A z \in Sagas : world'[z] = IF z = s THEN w ELSE world[z]
    BY <1>1, <1>2, WorldIs
  <2>2. CASE CallOk(t) /\ Goto(t, "run", p + 1)
    BY <2>1, <2>2, GotoIs
  <2>3. CASE CallError(t) /\ Goto(t, "undo", FirstUndo(s, p))
    BY <2>1, <2>3, GotoIs
  <2>4. QED BY <1>4, <2>2, <2>3
<1>8. TypeOK'
  <2>1. world' \in [Sagas -> Subject]
    BY <1>1, <1>2, <1>3 DEF TypeOK
  <2>2. /\ pc' \in [Threads -> {"idle", "start", "run", "undo", "offer", "compensate"}]
        /\ pos' \in [Threads -> 0..10]
    <3>1. CASE CallOk(t) /\ Goto(t, "run", p + 1)
      BY <1>2, <1>3, <3>1 DEF Goto, TypeOK
    <3>2. CASE CallError(t) /\ Goto(t, "undo", FirstUndo(s, p))
      BY <1>5, <3>2 DEF Goto, TypeOK
    <3>3. QED BY <1>4, <3>1, <3>2
  <2>3. QED BY <1>1, <2>1, <2>2 DEF TypeOK, managerVars, lockVars
<1>9. LocksHeld'
  BY <1>1, <1>7 DEF LocksHeld, lockVars
<1>10. status[s] = "in_progress"
  BY <1>1, SagaAssumption DEF Stages, LocksHeld
<1>11. Stages'
  BY <1>1, <1>7, <1>10 DEF Stages, lockVars
<1>12. Known'
  BY <1>1, <1>7 DEF Known, managerVars
<1>13. Works'
  <2> SUFFICES ASSUME NEW u \in Threads
               PROVE  /\ pc'[u] = "run" => Progress(at[u], pos'[u], world'[at[u]])
                      /\ pc'[u] \in {"undo", "compensate"} => pos'[u] \in 0..6
                      /\ pc'[u] = "compensate" => ToUndo(at[u], pos'[u], world'[at[u]])
    BY <1>1 DEF Works
  <2>1. CASE u = t
    BY <1>1, <1>2, <1>3, <1>5, <1>7, <2>1
  <2>2. CASE u # t
    BY <1>1, <1>6, <1>7, <2>2 DEF Works, LocksHeld
  <2>3. QED BY <2>1, <2>2
<1>14. Outcome'
  BY <1>1, <1>3, <1>7, <1>10 DEF Outcome
<1>15. ASSUME ~LostReplies, Withdrawing PROVE Withdrawing'
  <2>1. ASSUME NEW u \in Threads, pc'[u] = "undo"
        PROVE  ToUndo(at[u], pos'[u], world'[at[u]])
    <3>1. CASE u = t
      BY <1>1, <1>2, <1>5, <1>7, <1>15, <2>1, <3>1
    <3>2. CASE u # t
      BY <1>1, <1>6, <1>7, <1>15, <2>1, <3>2 DEF Withdrawing, LocksHeld
    <3>3. QED BY <3>1, <3>2
  <2>2. ASSUME NEW z \in Sagas \ botched, status[z] = "failed"
        PROVE  Clean(world'[z]) \/ readers[z] # {}
    BY <1>7, <1>10, <1>15, <2>2 DEF Withdrawing
  <2>3. QED BY <1>1, <2>1, <2>2 DEF Withdrawing, lockVars
<1>16. QED BY <1>8, <1>9, <1>11, <1>12, <1>13, <1>14, <1>15

\* A compensation only takes back, so it disturbs no other thread's.
LEMMA CompensateStep ==
    ASSUME SagaInv, NEW t \in Threads, Compensate(t)
    PROVE  SagaInv' /\ (Withdrawing => Withdrawing')
<1> USE DEF SagaInv
<1> DEFINE s == at[t]
<1> DEFINE k == pos[t]
<1>1. /\ UNCHANGED <<managerVars, status, trigger, lockVars, at, todo, botched>>
      /\ s \in Sagas /\ pc[t] \in {"undo", "compensate"} /\ k \in 1..6
      /\ world[s] \in Subject /\ Goto(t, pc[t], k - 1)
      /\ world' = [world EXCEPT ![s] = Undo(s, k, world[s])]
  BY DEF Compensate, LocksHeld, Works, TypeOK
<1> DEFINE w == Undo(s, k, world[s])
<1>2. /\ w \in Subject
      /\ ToUndo(s, k, world[s]) => ToUndo(s, k - 1, w)
      /\ \A i \in 0..6 : ToUndo(s, i, world[s]) => ToUndo(s, i, w)
      /\ Undoable(world[s]) => Undoable(w)
      /\ Clean(world[s]) => Clean(w)
  BY <1>1, UndoStep
<1>3. /\ \A z \in Sagas : world'[z] = IF z = s THEN w ELSE world[z]
      /\ pc' = pc /\ \A u \in Threads : pos'[u] = IF u = t THEN k - 1 ELSE pos[u]
  <2>1. \A z \in Sagas : world'[z] = IF z = s THEN w ELSE world[z]
    BY <1>1, WorldIs
  <2>2. pc' = pc
    BY <1>1 DEF Goto, TypeOK
  <2>3. QED BY <1>1, <2>1, <2>2, GotoIs
<1> HIDE DEF w
<1>4. TypeOK'
  <2>1. world' \in [Sagas -> Subject]
    BY <1>1, <1>2 DEF TypeOK, w
  <2>2. pos' \in [Threads -> 0..10]
    BY <1>1 DEF Goto, TypeOK
  <2>3. QED BY <1>1, <1>3, <2>1, <2>2 DEF TypeOK, managerVars, lockVars
<1>5. LocksHeld'
  BY <1>1, <1>3 DEF LocksHeld, lockVars
<1>6. status[s] \in {"in_progress", "failed"}
  BY <1>1, SagaAssumption DEF Stages, LocksHeld
<1>7. Stages'
  BY <1>1, <1>3, <1>6 DEF Stages, lockVars
<1>8. Known'
  BY <1>1, <1>3 DEF Known, managerVars
<1>9. \A u \in Threads \ {t} : pc[u] \in {"run", "undo"} => at[u] # s
  BY <1>1, OneRunner
<1>10. Works'
  <2> SUFFICES ASSUME NEW u \in Threads
               PROVE  /\ pc[u] = "run" => Progress(at[u], pos'[u], world'[at[u]])
                      /\ pc[u] \in {"undo", "compensate"} => pos'[u] \in 0..6
                      /\ pc[u] = "compensate" => ToUndo(at[u], pos'[u], world'[at[u]])
    BY <1>1, <1>3 DEF Works
  <2>1. CASE u = t
    BY <1>1, <1>2, <1>3, <2>1 DEF Works
  <2>2. CASE u # t
    BY <1>1, <1>2, <1>3, <1>9, <2>2 DEF Works, LocksHeld
  <2>3. QED BY <2>1, <2>2
<1>11. Outcome'
  BY <1>1, <1>2, <1>3, <1>6 DEF Outcome
<1>12. ASSUME Withdrawing PROVE Withdrawing'
  <2>1. ASSUME NEW u \in Threads, pc[u] = "undo"
        PROVE  ToUndo(at[u], pos'[u], world'[at[u]])
    <3>1. CASE u = t
      BY <1>1, <1>2, <1>3, <1>12, <2>1, <3>1 DEF Withdrawing
    <3>2. CASE u # t
      BY <1>1, <1>3, <1>9, <1>12, <2>1, <3>2 DEF Withdrawing, LocksHeld
    <3>3. QED BY <3>1, <3>2
  <2>2. ASSUME NEW z \in Sagas \ botched, status[z] = "failed"
        PROVE  Clean(world'[z]) \/ readers[z] # {}
    BY <1>2, <1>3, <1>12, <2>2 DEF Withdrawing
  <2>3. QED BY <1>1, <1>3, <2>1, <2>2 DEF Withdrawing, lockVars
<1>13. QED BY <1>4, <1>5, <1>7, <1>8, <1>10, <1>11, <1>12

\* The last call done, or the last compensation, releases the write lock.
LEMMA EndRunStep ==
    ASSUME SagaInv, NEW t \in Threads, EndRun(t)
    PROVE  SagaInv' /\ (Withdrawing => Withdrawing')
<1> USE DEF SagaInv
<1> DEFINE s == at[t]
<1>1. /\ UNCHANGED <<managerVars, trigger, world, readers>> /\ Return(t)
      /\ s \in Sagas /\ pc[t] \in {"run", "undo"} /\ writer[s] = t
      /\ botched' \in {botched, botched \cup {s}}
      /\ \A z \in Sagas : writer'[z] = IF z = s THEN NoThread ELSE writer[z]
  BY DEF EndRun, LocksHeld, TypeOK
<1>2. PICK st \in {"failed", "completed"} : status' = [status EXCEPT ![s] = st]
  BY DEF EndRun
<1>3. \A z \in Sagas : status'[z] = IF z = s THEN st ELSE status[z]
  BY <1>1, <1>2 DEF TypeOK
<1>4. TypeOK'
  <2>1. status' \in [Sagas -> Status] /\ writer' \in [Sagas -> Threads \cup {NoThread}]
    BY <1>1, <1>2 DEF EndRun, TypeOK, Status, Terminal
  <2>2. /\ pc' \in [Threads -> {"idle", "start", "run", "undo", "offer", "compensate"}]
        /\ at' \in [Threads -> Sagas \cup {NoThread}] /\ pos' \in [Threads -> 0..10]
        /\ todo' \in [Threads -> SUBSET Sagas]
    BY <1>1 DEF Return, Goto, TypeOK
  <2>3. QED BY <1>1, <2>1, <2>2 DEF TypeOK, managerVars
<1>5. /\ readers[s] = {} /\ status[s] = "in_progress"
      /\ \A z \in Sagas : writer[z] = t <=> z = s
      /\ \A u \in Threads \ {t} : pc[u] \in {"run", "undo", "compensate"} => at[u] # s
  <2>1. readers[s] = {} /\ status[s] = "in_progress"
    BY <1>1, SagaAssumption DEF LocksHeld, Stages
  <2>2. \A z \in Sagas : writer[z] = t <=> z = s
    BY <1>1 DEF LocksHeld
  <2>3. QED BY <1>1, <2>1, <2>2, OneRunner
<1>6. LocksHeld'
  BY <1>1, <1>5, ReturnIs, SagaAssumption DEF LocksHeld
<1>7. Stages'
  BY <1>1, <1>3, <1>5 DEF Stages
<1>8. Known'
  BY <1>1, <1>3, ReturnIs DEF Known, managerVars
<1>9. Works'
  BY <1>1, ReturnIs DEF Works
<1>10. st = "completed" => Progress(s, Len(Calls(s)) + 1, world[s])
  <2>1. ASSUME st = "completed" PROVE pc[t] = "run" /\ pos[t] > Len(Calls(s))
    BY <1>1, <1>2, <1>3, <2>1 DEF EndRun, TypeOK
  <2>2. ASSUME pc[t] = "run", pos[t] > Len(Calls(s))
        PROVE  Progress(s, Len(Calls(s)) + 1, world[s])
    <3>1. Progress(s, pos[t], world[s])
      BY <2>2 DEF Works
    <3>2. Len(Calls(s)) \in Nat
      BY PlanLength
    <3>3. pos[t] = Len(Calls(s)) + 1
      BY <2>2, <3>1, <3>2, ProgressBounds
    <3>4. QED BY <3>1, <3>3
  <2>3. QED BY <2>1, <2>2
<1>11. Outcome'
  BY <1>1, <1>3, <1>10 DEF Outcome
<1>12. ASSUME Withdrawing PROVE Withdrawing'
  <2>1. st = "failed" /\ s \notin botched' => Clean(world[s])
    <3>1. ASSUME st = "failed", s \notin botched' PROVE pc[t] = "undo" /\ pos[t] = 0
      BY <1>1, <1>2, <1>3, <3>1 DEF EndRun, TypeOK
    <3>2. QED BY <1>1, <1>12, <3>1, UndoEnds DEF Withdrawing, TypeOK
  <2>2. \A u \in Threads : pc'[u] = "undo" =>
            pc[u] = "undo" /\ at'[u] = at[u] /\ pos'[u] = pos[u]
    BY <1>1, ReturnIs
  <2>3. QED BY <1>1, <1>3, <1>12, <2>1, <2>2 DEF Withdrawing
<1>13. QED BY <1>4, <1>6, <1>7, <1>8, <1>9, <1>11, <1>12

\* An event of a saga's review makes the thread compensate it, under the read lock.
LEMMA OfferStep ==
    ASSUME SagaInv, NEW t \in Threads, OfferHandled(t)
    PROVE  SagaInv' /\ (Withdrawing => Withdrawing')
<1> USE DEF SagaInv
<1> DEFINE s == at[t]
<1>1. /\ UNCHANGED <<managerVars, trigger, world, writer, at, botched>>
      /\ s \in Sagas /\ s \in trigger /\ pc[t] = "offer" /\ writer[s] = NoThread
      /\ Goto(t, "compensate", 6)
      /\ \A z \in Sagas : readers'[z] = IF z = s THEN readers[z] \cup {t} ELSE readers[z]
      /\ \A z \in Sagas : status'[z] = IF z = s THEN "failed" ELSE status[z]
  BY DEF OfferHandled, LastStep, TypeOK, Sagas
<1>2. TypeOK'
  <2>1. /\ status' \in [Sagas -> Status] /\ readers' \in [Sagas -> SUBSET Threads]
        /\ todo' \in [Threads -> SUBSET Sagas]
    BY DEF OfferHandled, TypeOK, Status, Terminal
  <2>2. /\ pc' \in [Threads -> {"idle", "start", "run", "undo", "offer", "compensate"}]
        /\ pos' \in [Threads -> 0..10]
    BY <1>1 DEF Goto, TypeOK
  <2>3. QED BY <1>1, <2>1, <2>2 DEF TypeOK, managerVars
<1>11. /\ \A u \in Threads : /\ pc'[u] = IF u = t THEN "compensate" ELSE pc[u]
                             /\ pos'[u] = IF u = t THEN 6 ELSE pos[u]
       /\ \A z \in Sagas, u \in Threads :
             u \in readers'[z] <=> u \in readers[z] \/ (z = s /\ u = t)
       /\ \A z \in Sagas \ {s} : readers'[z] = readers[z]
       /\ readers'[s] # {}
  <2>1. \A u \in Threads : /\ pc'[u] = IF u = t THEN "compensate" ELSE pc[u]
                           /\ pos'[u] = IF u = t THEN 6 ELSE pos[u]
    BY <1>1, GotoIs
  <2>2. readers'[s] = readers[s] \cup {t}
    BY <1>1
  <2>3. \A z \in Sagas, u \in Threads :
             u \in readers'[z] <=> u \in readers[z] \/ (z = s /\ u = t)
    BY <1>1
  <2>4. QED BY <1>1, <2>1, <2>2, <2>3
<1>3. LocksHeld'
  BY <1>1, <1>11, SagaAssumption DEF LocksHeld
<1>4. Stages'
  BY <1>1 DEF Stages
<1>5. Known'
  BY <1>1, GotoIs DEF Known, managerVars
<1>6. ToUndo(s, 6, world[s])
  BY <1>1, UndoAll DEF Outcome, LastStep, TypeOK
<1>7. Works'
  BY <1>1, <1>6, GotoIs DEF Works
<1>8. Outcome'
  BY <1>1 DEF Outcome
<1>9. Withdrawing => Withdrawing'
  BY <1>1, <1>11 DEF Withdrawing
<1>10. QED BY <1>2, <1>3, <1>4, <1>5, <1>7, <1>8, <1>9

\* The read lock is released, after the first step or at an error.
LEMMA EndCompensationStep ==
    ASSUME SagaInv, NEW t \in Threads, EndCompensation(t) \/ FailCompensation(t)
    PROVE  SagaInv' /\ (Withdrawing => Withdrawing')
<1> USE DEF SagaInv
<1> DEFINE s == at[t]
<1>0. pc[t] = "compensate" /\ s \in Sagas
  BY DEF EndCompensation, FailCompensation, LocksHeld
<1>1. /\ UNCHANGED <<managerVars, status, trigger, world, writer>>
      /\ s \in Sagas /\ pc[t] = "compensate"
      /\ \A z \in Sagas : readers'[z] = IF z = s THEN readers[z] \ {t} ELSE readers[z]
      /\ botched' \in {botched, botched \cup {s}}
      /\ s \in botched' \/ pos[t] = 0
  <2>1. CASE EndCompensation(t)
    BY <1>0, <2>1 DEF EndCompensation, TypeOK
  <2>2. CASE FailCompensation(t)
    BY <1>0, <2>2 DEF FailCompensation, TypeOK
  <2>3. QED BY <2>1, <2>2
<1>11. /\ \A z \in Sagas, u \in Threads :
             u \in readers'[z] <=> u \in readers[z] /\ ~(z = s /\ u = t)
       /\ \A z \in Sagas : readers'[z] \subseteq readers[z]
       /\ \A z \in Sagas \ {s} : readers'[z] = readers[z]
  BY <1>1
<1>2. /\ pc'[t] \in {"idle", "offer"} /\ (pc'[t] = "offer" => at'[t] = at[t])
      /\ \A u \in Threads \ {t} : pc'[u] = pc[u] /\ at'[u] = at[u] /\ pos'[u] = pos[u]
  BY GotoIs, ReturnIs DEF EndCompensation, FailCompensation
<1>3. TypeOK'
  <2>1. readers' \in [Sagas -> SUBSET Threads]
    BY DEF EndCompensation, FailCompensation, TypeOK
  <2>2. /\ pc' \in [Threads -> {"idle", "start", "run", "undo", "offer", "compensate"}]
        /\ at' \in [Threads -> Sagas \cup {NoThread}] /\ pos' \in [Threads -> 0..10]
        /\ todo' \in [Threads -> SUBSET Sagas]
    BY DEF EndCompensation, FailCompensation, Return, Goto, TypeOK
  <2>3. QED BY <1>1, <2>1, <2>2 DEF TypeOK, managerVars
<1>4. LocksHeld'
  <2>1. writer[s] = NoThread
    BY <1>1, SagaAssumption DEF LocksHeld, TypeOK
  <2>2. QED BY <1>1, <1>2, <1>11, <2>1, SagaAssumption DEF LocksHeld
<1>5. Stages'
  BY <1>1, <1>11 DEF Stages
<1>6. Known'
  BY <1>1, <1>2 DEF Known, managerVars
<1>7. Works'
  BY <1>1, <1>2 DEF Works
<1>8. Outcome'
  BY <1>1 DEF Outcome
<1>9. ASSUME Withdrawing PROVE Withdrawing'
  <2>1. s \in botched' \/ Clean(world[s])
    BY <1>1, UndoEnds DEF Works, TypeOK
  <2>2. QED BY <1>1, <1>2, <1>9, <1>11, <2>1 DEF Withdrawing
<1>10. QED BY <1>3, <1>4, <1>5, <1>6, <1>7, <1>8, <1>9

-----------------------------------------------------------------------------
(* Sagas: the theorems.                                                    *)

LEMMA StepSaga ==
    SagaInv /\ [Next]_vars => SagaInv' /\ (~LostReplies /\ Withdrawing => Withdrawing')
<1> SUFFICES ASSUME SagaInv, [Next]_vars
             PROVE  SagaInv' /\ (~LostReplies /\ Withdrawing => Withdrawing')
  OBVIOUS
<1>1. CASE UNCHANGED vars
  BY <1>1 DEF SagaInv, TypeOK, LocksHeld, Stages, Known, Works, Outcome, Withdrawing, vars,
              managerVars, lockVars
<1>2. ASSUME NEW t \in Threads, Execute(t)
      PROVE  SagaInv' /\ (~LostReplies /\ Withdrawing => Withdrawing')
  BY <1>2, LeaveSteps, StartStep, CallStep, CompensateStep, EndRunStep DEF Execute
<1>3. ASSUME NEW t \in Threads, Handle(t) PROVE SagaInv' /\ (Withdrawing => Withdrawing')
  BY <1>3, LeaveSteps, IgnoreStep, OfferStep, EndCompensationStep DEF Handle
<1>4. QED BY <1>1, <1>2, <1>3, SweepSteps, EnterSteps DEF Next

\* The inductive invariant of the sagas.
THEOREM SagaInvKept == Spec => []SagaInv
<1>1. SagaInv /\ [Next]_vars => SagaInv'
  BY StepSaga
<1>2. QED BY <1>1, InitSaga, PTL DEF Spec

\* Every reachable state is well typed: no more than the calls of one saga are ever
\* made for its subject, and the metrics of a hotel are updated at most once.
THEOREM TypeCorrect == Spec => []TypeOK
<1>1. SagaInv => TypeOK
  BY DEF SagaInv
<1>2. QED BY <1>1, SagaInvKept, PTL

\* RemoveCompletedSagas removes no saga that runs, nor one whose start is under way.
THEOREM KnownKept == Spec => []RunningIsKnown
<1>1. SagaInv => RunningIsKnown
  BY DEF SagaInv, Known, RunningIsKnown
<1>2. QED BY <1>1, SagaInvKept, PTL

\* A completed saga leaves the services in agreement, even where they may do their
\* work and report an error.
THEOREM CompletedKept == Spec => []CompletedIsConsistent
<1>1. SagaInv => CompletedIsConsistent
  <2> SUFFICES ASSUME SagaInv, NEW s \in Sagas, status[s] = "completed"
               PROVE  /\ s \in ReviewSagas => Published(world[s])
                      /\ s \in HotelSagas =>
                             world[s].decision = "active" /\ world[s].indexed
    BY DEF CompletedIsConsistent, Sagas
  <2>1. Progress(s, Len(Calls(s)) + 1, world[s])
    BY DEF SagaInv, Outcome
  <2>2. CASE s \in ReviewSagas
    <3>1. Len(Calls(s)) = 9
      BY <2>2, PlanLength
    <3>2. ReviewProgress(10, world[s])
      BY <2>1, <2>2, <3>1 DEF Progress
    <3>3. QED BY <2>2, <3>2, SagaAssumption DEF ReviewProgress, Published
  <2>3. CASE s \in HotelSagas
    <3>1. s \notin ReviewSagas /\ Len(Calls(s)) = 7
      BY <2>3, PlanLength, SagaAssumption
    <3>2. HotelProgress(8, world[s])
      BY <2>1, <3>1 DEF Progress
    <3>3. QED BY <2>3, <3>2, SagaAssumption DEF HotelProgress
  <2>4. QED BY <2>2, <2>3 DEF Sagas
<1>2. QED BY <1>1, SagaInvKept, PTL

\* A failed saga that nobody still compensates, and none of whose compensations met
\* an error, shows nothing, if a service that reports an error has done nothing.
THEOREM WithdrawnKept ==
    ASSUME ~LostReplies
    PROVE  Spec => []FailedIsWithdrawn
<1>1. SagaInv /\ Withdrawing /\ [Next]_vars => (SagaInv /\ Withdrawing)'
  BY StepSaga
<1>2. SagaInv /\ Withdrawing => FailedIsWithdrawn
  <2> SUFFICES ASSUME SagaInv, Withdrawing, NEW s \in Sagas \ botched, status[s] = "failed",
                      Concerned(s) = {}
               PROVE  Clean(world[s])
    BY DEF FailedIsWithdrawn, Clean
  <2>1. readers[s] = {}
    <3>1. ASSUME NEW t \in readers[s] PROVE FALSE
      BY <3>1 DEF SagaInv, TypeOK, LocksHeld, Concerned
    <3>2. QED BY <3>1
  <2>2. QED BY <2>1 DEF Withdrawing
<1>3. QED BY <1>1, <1>2, InitSaga, PTL DEF Spec

\* Thread t can make its next step: it waits for no lock, or the lock is free.
Ready(t) ==
    \/ pc[t] = "start" /\ LockFree(at[t])
    \/ pc[t] = "run" /\ (pos[t] <= Len(Calls(at[t])) =>
                             Outcomes(Calls(at[t])[pos[t]], world[at[t]]) # {})
    \/ pc[t] \in {"undo", "compensate"}
    \/ pc[t] = "offer" /\ (todo[t] = {} \/ \E s \in todo[t] : writer[s] = NoThread)

Holder(u, s) == writer[s] = u \/ u \in readers[s]

\* Nobody waits for one who waits: who cannot go on finds one of the locks it asks for
\* held by a thread that can, and so does a sweep, which holds sm.mu meanwhile.
WaitsEnd ==
    /\ \A t \in Threads : pc[t] # "idle" /\ ~Ready(t) =>
           \E u \in Threads, s \in {at[t]} \cup todo[t] : Holder(u, s) /\ Ready(u)
    /\ \A s \in sweep : writer[s] # NoThread => Ready(writer[s])

\* A call of a service always has an outcome.
LEMMA CallsReturn ==
    ASSUME NEW call, NEW w
    PROVE  Outcomes(call, w) # {}
<1>1. CASE Skipped(call, w)
  BY <1>1 DEF Outcomes
<1>2. CASE ~Skipped(call, w)
  BY <1>2 DEF Outcomes, Load, Moderate, Mark, Decide, Count, Index, Activate
<1> QED BY <1>1, <1>2

\* The saga locks and sm.mu never block each other: this is NoStandstill with the
\* steps' guards in the place of ENABLED.
THEOREM WaitsEndKept == Spec => []WaitsEnd
<1>1. SagaInv => WaitsEnd
  <2> SUFFICES ASSUME SagaInv PROVE WaitsEnd
    OBVIOUS
  <2>1. ASSUME NEW s \in Sagas, NEW u \in Threads, Holder(u, s) PROVE Ready(u)
    <3>1. pc[u] \in {"run", "undo", "compensate"}
      BY <2>1 DEF SagaInv, LocksHeld, Holder
    <3> QED BY <3>1, CallsReturn DEF Ready
  <2>2. ASSUME NEW s \in Sagas, writer[s] # NoThread
        PROVE  writer[s] \in Threads /\ Holder(writer[s], s)
    BY <2>2 DEF SagaInv, TypeOK, Holder
  <2>3. ASSUME NEW t \in Threads, pc[t] # "idle", ~Ready(t)
        PROVE  \E u \in Threads, s \in {at[t]} \cup todo[t] : Holder(u, s) /\ Ready(u)
    <3>1. CASE pc[t] = "start"
      <4>1. at[t] \in Sagas /\ ~LockFree(at[t])
        BY <2>3, <3>1 DEF SagaInv, LocksHeld, Ready
      <4>2. CASE writer[at[t]] # NoThread
        BY <2>1, <2>2, <4>1, <4>2
      <4>3. CASE readers[at[t]] # {}
        <5>1. PICK u \in readers[at[t]] : TRUE
          BY <4>3
        <5>2. u \in Threads /\ Holder(u, at[t])
          BY <4>1, <5>1 DEF SagaInv, TypeOK, Holder
        <5> QED BY <2>1, <4>1, <5>2
      <4> QED BY <4>1, <4>2, <4>3 DEF LockFree
    <3>2. CASE pc[t] = "offer"
      <4>1. PICK s \in todo[t] : writer[s] # NoThread
        BY <2>3, <3>2 DEF Ready
      <4>2. s \in Sagas
        BY <4>1 DEF SagaInv, TypeOK
      <4> QED BY <2>1, <2>2, <4>1, <4>2
    <3>3. pc[t] \in {"start", "offer"}
      <4>1. pc[t] \in {"start", "run", "undo", "offer", "compensate"}
        BY <2>3 DEF SagaInv, TypeOK
      <4> QED BY <2>3, <4>1, CallsReturn DEF Ready
    <3> QED BY <3>1, <3>2, <3>3
  <2>4. ASSUME NEW s \in sweep, writer[s] # NoThread PROVE Ready(writer[s])
    <3>1. s \in Sagas
      BY <2>4 DEF SagaInv, TypeOK
    <3> QED BY <2>1, <2>2, <2>4, <3>1
  <2> QED BY <2>3, <2>4 DEF WaitsEnd
<1>2. QED BY <1>1, SagaInvKept, PTL

-----------------------------------------------------------------------------
(* Event delivery: the inductive invariant, part by part.                  *)

OneCopy(s) == \A i, j \in DOMAIN s : i < j => s[i] # s[j]

\* A row is in the outbox once, and what the publisher has still to publish is
\* unpublished.
Rows ==
    /\ OneCopy(saved) /\ OneCopy(batch)
    /\ ToSet(batch) \subseteq ToSet(saved) \ published
    /\ pub \in {"spawn", "mark"} => batch # <<>> /\ Head(batch) \notin Poison
    /\ pub \in {"idle", "off"} => batch = <<>>

\* The first size[t] cells of a type are different handlers of that type, and all
\* that were never unsubscribed are among them.
Arrays ==
    \A t \in Types :
        /\ Len(cells[t]) = Len(Subscribed[t]) /\ size[t] \in 0..Len(Subscribed[t])
        /\ \A i, j \in 1..size[t] : i < j => cells[t][i] # cells[t][j]
        /\ \A i \in 1..size[t] : cells[t][i] \in Interest(t)
        /\ \A h \in Interest(t) \ unsubs : Holds(t, h)

\* The Publish that runs reads cells of the array, also after it has shrunk; if
\* no Unsubscribe has overtaken it, they hold every handler that stayed.
Current == TypeOf[Head(batch)]

Iteration ==
    pub = "spawn" =>
        /\ last \in 0..Len(Subscribed[Current]) /\ next \in 1..last + 1
        /\ Head(batch) \notin raced =>
              /\ last <= size[Current]
              /\ \A h \in Interest(Current) \ unsubs :
                    \E i \in 1..last : cells[Current][i] = h

\* The handlers the event was handed to in this process's turn, or for good.
Reached(h) == \E i \in 1..next - 1 : cells[Current][i] = h

Handed(h, e) ==
    \/ e \in published
    \/ pub = "mark" /\ e = Head(batch)
    \/ pub = "spawn" /\ e = Head(batch) /\ Reached(h)

\* The calls of a handler for an event, those of the waiting goroutines included.
Given(h, e) == called[h][e] + waiting[h][e]

\* What they are bounded by.
Credit(h, e) == markErrors[e] + crashes + (IF Handed(h, e) THEN 1 ELSE 0)

HandOvers ==
    \A h \in Handlers, e \in Events \ raced :
        /\ Given(h, e) <= Credit(h, e)
        /\ Handed(h, e) /\ Interested(h, e) /\ h \notin unsubs =>
              Given(h, e) >= 1 \/ <<h, e>> \in lost

DeliveryInv == DeliveryTypeOK /\ Rows /\ Arrays /\ Iteration /\ HandOvers

-----------------------------------------------------------------------------
(* Event delivery: sequences without repetition, and the handlers' arrays. *)

\* The first row leaves the batch.
LEMMA TailOneCopy ==
    ASSUME NEW S, NEW s \in Seq(S), s # <<>>, OneCopy(s)
    PROVE  /\ Head(s) \in S /\ Head(s) \in ToSet(s)
           /\ Tail(s) \in Seq(S) /\ Len(Tail(s)) = Len(s) - 1
           /\ OneCopy(Tail(s))
           /\ ToSet(Tail(s)) \subseteq ToSet(s) \ {Head(s)}
<1> DEFINE u == Tail(s)
<1>1. /\ Len(s) \in Nat \ {0} /\ DOMAIN s = 1..Len(s) /\ Head(s) = s[1] /\ Head(s) \in S
      /\ u \in Seq(S) /\ Len(u) = Len(s) - 1 /\ DOMAIN u = 1..Len(u)
      /\ \A i \in 1..Len(u) : u[i] = s[i + 1]
  BY EmptySeq, LenProperties, HeadTailProperties
<1>2. Head(s) \in ToSet(s)
  BY <1>1 DEF ToSet
<1> HIDE DEF u
<1>3. ASSUME NEW i \in DOMAIN u, NEW j \in DOMAIN u, i < j PROVE u[i] # u[j]
  <2>1. i + 1 \in DOMAIN s /\ j + 1 \in DOMAIN s /\ i + 1 < j + 1
    BY <1>1, <1>3
  <2>2. s[i + 1] # s[j + 1]
    BY <2>1 DEF OneCopy
  <2> QED BY <1>1, <2>2
<1>4. ToSet(u) \subseteq ToSet(s) \ {Head(s)}
  BY <1>1 DEF OneCopy, ToSet
<1> QED BY <1>1, <1>2, <1>3, <1>4 DEF u, OneCopy

\* A new row is appended.
LEMMA AppendOneCopy ==
    ASSUME NEW S, NEW s \in Seq(S), OneCopy(s), NEW e \in S, e \notin ToSet(s)
    PROVE  /\ Append(s, e) \in Seq(S) /\ OneCopy(Append(s, e))
           /\ ToSet(s) \subseteq ToSet(Append(s, e))
<1> DEFINE u == Append(s, e)
<1>1. /\ Len(s) \in Nat /\ DOMAIN s = 1..Len(s)
      /\ u \in Seq(S) /\ Len(u) = Len(s) + 1 /\ DOMAIN u = 1..Len(u)
      /\ \A i \in 1..Len(s) : u[i] = s[i]
      /\ u[Len(s) + 1] = e
  BY LenProperties, AppendProperties
<1> HIDE DEF u
<1>2. OneCopy(u)
  BY <1>1 DEF OneCopy, ToSet
<1>3. ToSet(s) \subseteq ToSet(u)
  BY <1>1 DEF ToSet
<1> QED BY <1>1, <1>2, <1>3 DEF u

\* An Unsubscribe of the handler in cell k: the others stay, in their order.
ShiftedAt(c, d, n, k) ==
    /\ n \in Nat /\ k \in 1..n
    /\ \A i, j \in 1..n : i < j => c[i] # c[j]
    /\ \A i \in 1..n - 1 : d[i] = IF k <= i THEN c[i + 1] ELSE c[i]

LEMMA ShiftedArray ==
    ASSUME NEW c, NEW d, NEW n, NEW k, ShiftedAt(c, d, n, k)
    PROVE  /\ \A i, j \in 1..n - 1 : i < j => d[i] # d[j]
           /\ \A i \in 1..n - 1 : \E j \in 1..n : j # k /\ d[i] = c[j]
           /\ \A j \in 1..n : j # k => \E i \in 1..n - 1 : d[i] = c[j]
<1> USE DEF ShiftedAt
<1>1. \A i, j \in 1..n - 1 : i < j => d[i] # d[j]
  OBVIOUS
<1>2. \A i \in 1..n - 1 : \E j \in 1..n : j # k /\ d[i] = c[j]
  <2> TAKE i \in 1..n - 1
  <2>1. CASE k <= i
    <3> WITNESS i + 1 \in 1..n
    <3> QED BY <2>1
  <2>2. CASE ~ (k <= i)
    <3> WITNESS i \in 1..n
    <3> QED BY <2>2
  <2> QED BY <2>1, <2>2
<1>3. ASSUME NEW j \in 1..n, j # k PROVE \E i \in 1..n - 1 : d[i] = c[j]
  <2>1. CASE j < k
    <3>1. j \in 1..n - 1 /\ d[j] = c[j]
      BY <2>1
    <3> QED BY <3>1
  <2>2. CASE j > k
    <3>1. j - 1 \in 1..n - 1 /\ d[j - 1] = c[j]
      BY <2>2
    <3> QED BY <3>1
  <2>3. j < k \/ j > k
    BY <1>3
  <2> QED BY <2>1, <2>2, <2>3
<1> QED BY <1>1, <1>2, <1>3

\* A handler is appended in its array.
LEMMA GrownArray ==
    ASSUME NEW S, NEW c \in Seq(S), NEW n \in Nat, n < Len(c), NEW h \in S,
           NEW d, d = [c EXCEPT ![n + 1] = h]
    PROVE  /\ d \in Seq(S) /\ Len(d) = Len(c)
           /\ d[n + 1] = h /\ \A i \in 1..n : d[i] = c[i]
<1>1. Len(c) \in Nat /\ n + 1 \in 1..Len(c)
  BY LenProperties
<1> QED BY <1>1, ExceptSeq

\* There are finitely many handlers.
LEMMA HandlersFinite == IsFiniteSet(Handlers) /\ Cardinality(Handlers) \in Nat
<1>1. IsFiniteSet(Kinds)
  <2>1. Kinds = (({"analytics"} \cup {"notification"}) \cup ({"search"} \cup {"cache"}))
                    \cup ({"audit"} \cup {"error"})
    BY DEF Kinds
  <2>2. \A A, B : IsFiniteSet(A) /\ IsFiniteSet(B) => IsFiniteSet(A \cup B)
    BY FS_Union
  <2> QED BY <2>1, <2>2, FS_Singleton
<1> QED BY <1>1, DeliveryAssumption, FS_Subset, FS_CardinalityType

\* A type has as many cells as handlers that name it, finitely many.
LEMMA CellsOfType ==
    ASSUME NEW t \in Types
    PROVE  /\ IsFiniteSet(Handlers) /\ Cardinality(Handlers) \in Nat
           /\ IsFiniteSet(Interest(t)) /\ Interest(t) \subseteq Handlers
           /\ Subscribed[t] \in Seq(Handlers)
           /\ Len(Subscribed[t]) = Cardinality(Interest(t))
           /\ Len(Subscribed[t]) <= Cardinality(Handlers)
<1> DEFINE s == Subscribed[t]
<1>2. IsFiniteSet(Handlers) /\ Cardinality(Handlers) \in Nat
  BY HandlersFinite
<1>3. Interest(t) \subseteq Handlers
  BY DEF Interest
<1>4. IsFiniteSet(Interest(t)) /\ Cardinality(Interest(t)) <= Cardinality(Handlers)
  BY <1>2, <1>3, FS_Subset
<1>5. s \in Seq(Handlers) /\ IsInjective(s) /\ ToSet(s) = Interest(t)
  BY SubscribedAssumption
<1>6. Len(s) \in Nat /\ s \in [1..Len(s) -> Handlers] /\ DOMAIN s = 1..Len(s)
  BY <1>5, LenProperties
<1>7. s \in [1..Len(s) -> Interest(t)]
  BY <1>5, <1>6 DEF ToSet
<1>8. ExistsBijection(1..Len(s), Interest(t))
  <2> HIDE DEF s
  <2>1. s \in Bijection(1..Len(s), Interest(t))
    BY <1>5, <1>6, <1>7 DEF ToSet, Bijection, Injection, Surjection, IsInjective
  <2> QED BY <2>1 DEF ExistsBijection
<1>9. Cardinality(Interest(t)) = Len(s)
  BY <1>6, <1>8, FS_CountingElements
<1> QED BY <1>2, <1>3, <1>4, <1>5, <1>9

\* The array as Subscribe has built it holds every handler of its type.
LEMMA OriginalArrays ==
    ASSUME NEW t \in Types
    PROVE  LET s == Subscribed[t] IN
           /\ Len(s) \in Nat
           /\ \A i, j \in 1..Len(s) : i < j => s[i] # s[j]
           /\ \A i \in 1..Len(s) : s[i] \in Interest(t)
           /\ \A h \in Interest(t) : \E i \in 1..Len(s) : s[i] = h
<1> DEFINE s == Subscribed[t]
<1>1. s \in Seq(Handlers) /\ IsInjective(s) /\ ToSet(s) = Interest(t)
  BY SubscribedAssumption
<1>2. Len(s) \in Nat /\ DOMAIN s = 1..Len(s)
  BY <1>1, LenProperties
<1> HIDE DEF s
<1>3. \A i, j \in 1..Len(s) : i < j => s[i] # s[j]
  BY <1>1, <1>2 DEF IsInjective
<1>4. /\ \A i \in 1..Len(s) : s[i] \in Interest(t)
      /\ \A h \in Interest(t) : \E i \in 1..Len(s) : s[i] = h
  BY <1>1, <1>2 DEF ToSet
<1> QED BY <1>2, <1>3, <1>4 DEF s

\* A handler that is not in the array of its type finds room there.
LEMMA RoomInArray ==
    ASSUME DeliveryTypeOK, Arrays, NEW t \in Types, NEW h \in Interest(t), ~Holds(t, h)
    PROVE  size[t] < Len(Subscribed[t])
<1> DEFINE D == Interest(t) \ {h}
           f == [i \in 1..size[t] |-> cells[t][i]]
<1>1. size[t] \in 0..Len(Subscribed[t]) /\ Len(Subscribed[t]) \in Nat
  BY OriginalArrays DEF Arrays
<1>2. f \in Injection(1..size[t], D)
  <2>1. f \in [1..size[t] -> D]
    BY DEF Arrays, Holds
  <2>2. \A i, j \in 1..size[t] : f[i] = f[j] => i = j
    BY <1>1 DEF Arrays
  <2> HIDE DEF f
  <2> QED BY <2>1, <2>2 DEF Injection, IsInjective
<1>3. IsFiniteSet(D) /\ Cardinality(D) = Len(Subscribed[t]) - 1
  BY CellsOfType, FS_RemoveElement
<1>4. Cardinality(1..size[t]) <= Cardinality(D)
  BY <1>2, <1>3, FS_Injection
<1>5. Cardinality(1..size[t]) = size[t]
  BY <1>1, FS_Interval
<1> QED BY <1>1, <1>3, <1>4, <1>5

-----------------------------------------------------------------------------
(* Event delivery: the initial states.                                     *)

\* The initial states satisfy the invariant.
LEMMA DeliveryStarts == DeliveryInit => DeliveryInv
<1> SUFFICES ASSUME DeliveryInit PROVE DeliveryInv
  OBVIOUS
<1> USE DEF DeliveryInit
<1>1. \A t \in Types : Len(Subscribed[t]) \in 0..Cardinality(Handlers)
  BY CellsOfType, FS_CardinalityType
<1>2. DeliveryTypeOK
  <2>1. saved \in Seq(Events) /\ batch \in Seq(Events) /\ Len(batch) <= Limit
    BY EmptySeq, DeliveryAssumption
  <2>2. \A t \in Types : cells[t] \in Seq(Handlers)
    BY CellsOfType
  <2>3. size \in [Types -> 0..Cardinality(Handlers)]
    BY <1>1
  <2>4. last \in 0..Cardinality(Handlers)
    BY DeliveryAssumption, HandlersFinite
  <2> QED BY <2>1, <2>2, <2>3, <2>4 DEF DeliveryTypeOK
<1>3. Rows
  <2>1. DOMAIN saved = {} /\ DOMAIN batch = {}
    BY EmptySeq, LenProperties
  <2> QED BY <2>1 DEF Rows, OneCopy, ToSet
<1>4. Arrays
  BY OriginalArrays DEF Arrays, Holds
<1>5. Iteration /\ HandOvers
  BY DEF Iteration, HandOvers, Handed, Credit, Given
<1> QED BY <1>2, <1>3, <1>4, <1>5 DEF DeliveryInv

-----------------------------------------------------------------------------
(* Event delivery: the steps.                                              *)

\* The event the publisher works on is a readable row of the outbox.
LEMMA BatchHead ==
    ASSUME DeliveryTypeOK, Rows, batch # <<>>
    PROVE  /\ Head(batch) \in Events /\ Current \in Types
           /\ Head(batch) \in ToSet(saved) \ published
           /\ Tail(batch) \in Seq(Events) /\ Len(Tail(batch)) <= Limit
           /\ OneCopy(Tail(batch)) /\ ToSet(Tail(batch)) \subseteq ToSet(batch) \ {Head(batch)}
<1>1. /\ Head(batch) \in Events /\ Head(batch) \in ToSet(batch)
      /\ Tail(batch) \in Seq(Events) /\ Len(Tail(batch)) = Len(batch) - 1
      /\ OneCopy(Tail(batch)) /\ ToSet(Tail(batch)) \subseteq ToSet(batch) \ {Head(batch)}
  BY TailOneCopy DEF DeliveryTypeOK, Rows
<1>2. Len(batch) \in Nat /\ Len(batch) <= Limit /\ Limit \in Nat
  BY EmptySeq, LenProperties, DeliveryAssumption DEF DeliveryTypeOK
<1> QED BY <1>1, <1>2 DEF Rows, Current, Types

\* GetUnpublished returns rows of the outbox, none of them twice.
LEMMA BatchOfRows ==
    ASSUME DeliveryTypeOK, Rows, NEW rows \in GetUnpublished
    PROVE  /\ rows \in Seq(Events) /\ Len(rows) <= Limit
           /\ OneCopy(rows) /\ ToSet(rows) \subseteq ToSet(saved) \ published
<1>1. PICK n \in 1..Limit : rows \in [1..n -> Unpublished]
  BY DEF GetUnpublished
<1>2. Unpublished \subseteq Events /\ Unpublished = ToSet(saved) \ published
  <2>1. DOMAIN saved = 1..Len(saved) /\ saved \in [1..Len(saved) -> Events]
    BY LenProperties DEF DeliveryTypeOK
  <2> QED BY <2>1 DEF Unpublished, ToSet
<1>3. n \in Nat /\ n <= Limit
  BY DeliveryAssumption
<1>4. rows \in Seq(Events)
  BY <1>1, <1>2, <1>3, SeqDef
<1>5. Len(rows) = n /\ DOMAIN rows = 1..n
  BY <1>1, <1>3, <1>4, LenProperties
<1>6. ToSet(rows) \subseteq Unpublished
  BY <1>1, <1>5 DEF ToSet
<1>7. ASSUME NEW i \in DOMAIN rows, NEW j \in DOMAIN rows, i < j PROVE rows[i] # rows[j]
  <2>1. Before(rows[i], rows[j])
    BY <1>7 DEF GetUnpublished
  <2> QED BY <2>1 DEF Before, Rows, OneCopy
<1> QED BY <1>2, <1>3, <1>4, <1>5, <1>6, <1>7 DEF OneCopy

\* What Unsubscribe does to the array of each type.
LEMMA UnsubscribeArrays ==
    ASSUME DeliveryInv, NEW h \in Handlers, Unsubscribe(h), NEW t \in Types
    PROVE  /\ cells'[t] \in Seq(Handlers) /\ Len(cells'[t]) = Len(cells[t])
           /\ size'[t] \in 0..size[t]
           /\ \A i, j \in 1..size'[t] : i < j => cells'[t][i] # cells'[t][j]
           /\ \A i \in 1..size'[t] : \E j \in 1..size[t] : cells'[t][i] = cells[t][j]
           /\ \A g \in Handlers \ {h} : Holds(t, g) => \E i \in 1..size'[t] : cells'[t][i] = g
<1> DEFINE c == cells[t]
           n == size[t]
           k == CHOOSE i \in 1..n : c[i] = h
           d == [i \in DOMAIN c |-> IF k <= i /\ i < n THEN c[i + 1] ELSE c[i]]
<1>1. cells'[t] = (IF Holds(t, h) THEN d ELSE c) /\ size'[t] = (IF Holds(t, h) THEN n - 1 ELSE n)
  BY DEF Unsubscribe
<1>2. /\ c \in Seq(Handlers) /\ n \in 0..Len(c) /\ n \in Nat
      /\ \A i, j \in 1..n : i < j => c[i] # c[j]
  <2>1. c \in Seq(Handlers) /\ Len(c) = Len(Subscribed[t]) /\ n \in 0..Len(Subscribed[t])
    BY DEF DeliveryInv, DeliveryTypeOK, Arrays
  <2>2. \A i, j \in 1..n : i < j => c[i] # c[j]
    BY DEF DeliveryInv, Arrays
  <2> QED BY <2>1, <2>2, OriginalArrays
<1>3. CASE Holds(t, h)
  <2>1. k \in 1..n /\ c[k] = h
    BY <1>3 DEF Holds
  <2>2. d = [i \in DOMAIN c |-> IF k <= i /\ i < n THEN c[i + 1] ELSE c[i]]
    OBVIOUS
  <2> HIDE DEF c, n, k, d
  <2>l. Len(c) \in Nat /\ c \in [1..Len(c) -> Handlers] /\ DOMAIN c = 1..Len(c)
    BY <1>2, LenProperties
  <2>a. /\ d \in [1..Len(c) -> Handlers]
        /\ \A i \in 1..n - 1 : d[i] = IF k <= i THEN c[i + 1] ELSE c[i]
    BY <1>2, <2>1, <2>2, <2>l
  <2>b. d \in Seq(Handlers)
    BY <2>l, <2>a, SeqDef
  <2>c. Len(d) = Len(c)
    BY <2>l, <2>a, <2>b, LenProperties
  <2>3. /\ \A i, j \in 1..n - 1 : i < j => d[i] # d[j]
        /\ \A i \in 1..n - 1 : \E j \in 1..n : j # k /\ d[i] = c[j]
        /\ \A j \in 1..n : j # k => \E i \in 1..n - 1 : d[i] = c[j]
    <3>1. ShiftedAt(c, d, n, k)
      BY <1>2, <2>1, <2>a DEF ShiftedAt
    <3> QED BY <3>1, ShiftedArray
  <2>4. n - 1 \in 0..n
    BY <1>2, <2>1
  <2>5. cells'[t] = d /\ size'[t] = n - 1
    BY <1>1, <1>3
  <2>6. \A g \in Handlers \ {h} : Holds(t, g) => \E i \in 1..n - 1 : d[i] = g
    BY <2>1, <2>3 DEF Holds, c, n
  <2> QED BY <2>b, <2>c, <2>3, <2>4, <2>5, <2>6 DEF c, n
<1>4. CASE ~Holds(t, h)
  <2> HIDE DEF d
  <2> QED BY <1>1, <1>2, <1>4 DEF Holds
<1> QED BY <1>3, <1>4

\* What Subscribe does to the array of each type.
LEMMA SubscribeArrays ==
    ASSUME DeliveryInv, NEW h \in Handlers, Subscribe(h), NEW t \in Types
    PROVE  /\ cells'[t] \in Seq(Handlers) /\ Len(cells'[t]) = Len(cells[t])
           /\ size'[t] \in size[t]..Len(Subscribed[t])
           /\ \A i \in 1..size[t] : cells'[t][i] = cells[t][i]
           /\ \A i \in 1..size'[t] : i > size[t] => cells'[t][i] = h /\ h \in Interest(t)
           /\ ~Holds(t, h) /\ size'[t] <= size[t] + 1
<1> DEFINE c == cells[t]
           n == size[t]
           d == [c EXCEPT ![n + 1] = h]
<1>1. /\ cells'[t] = (IF h \in Interest(t) THEN d ELSE c)
      /\ size'[t] = (IF h \in Interest(t) THEN n + 1 ELSE n)
      /\ ~Holds(t, h)
  BY DEF Subscribe
<1>2. /\ c \in Seq(Handlers) /\ n \in 0..Len(c) /\ n \in Nat
      /\ Len(c) = Len(Subscribed[t]) /\ Len(c) \in Nat
  BY OriginalArrays DEF DeliveryInv, DeliveryTypeOK, Arrays
<1>3. CASE h \in Interest(t)
  <2>1. n < Len(c)
    BY <1>1, <1>2, <1>3, RoomInArray DEF DeliveryInv
  <2>2. d = [c EXCEPT ![n + 1] = h]
    OBVIOUS
  <2> HIDE DEF c, n, d
  <2>3. /\ d \in Seq(Handlers) /\ Len(d) = Len(c)
        /\ d[n + 1] = h /\ \A i \in 1..n : d[i] = c[i]
    BY <1>2, <2>1, <2>2, GrownArray
  <2>4. \A i \in 1..n + 1 : i > n => i = n + 1
    BY <1>2
  <2>5. n + 1 \in n..Len(c)
    BY <1>2, <2>1
  <2>6. cells'[t] = d /\ size'[t] = n + 1
    BY <1>1, <1>3
  <2> QED BY <1>1, <1>2, <1>3, <2>3, <2>4, <2>5, <2>6 DEF c, n
<1>4. CASE h \notin Interest(t)
  <2> HIDE DEF d
  <2> QED BY <1>1, <1>2, <1>4
<1> QED BY <1>3, <1>4

\* A counter of a handler and an event goes up or down.
LEMMA OneMore ==
    ASSUME NEW f \in [Handlers -> [Events -> Nat]], NEW h \in Handlers, NEW e \in Events
    PROVE  [f EXCEPT ![h][e] = @ + 1] \in [Handlers -> [Events -> Nat]]
<1>1. f[h] \in [Events -> Nat] /\ f[h][e] + 1 \in Nat
  OBVIOUS
<1>2. [f[h] EXCEPT ![e] = @ + 1] \in [Events -> Nat]
  BY <1>1
<1>3. [f EXCEPT ![h][e] = @ + 1] = [f EXCEPT ![h] = [f[h] EXCEPT ![e] = @ + 1]]
  OBVIOUS
<1> QED BY <1>2, <1>3

LEMMA OneLess ==
    ASSUME NEW f \in [Handlers -> [Events -> Nat]], NEW h \in Handlers, NEW e \in Events,
           f[h][e] > 0
    PROVE  [f EXCEPT ![h][e] = @ - 1] \in [Handlers -> [Events -> Nat]]
<1>1. f[h] \in [Events -> Nat] /\ f[h][e] - 1 \in Nat
  OBVIOUS
<1>2. [f[h] EXCEPT ![e] = @ - 1] \in [Events -> Nat]
  BY <1>1
<1>3. [f EXCEPT ![h][e] = @ - 1] = [f EXCEPT ![h] = [f[h] EXCEPT ![e] = @ - 1]]
  OBVIOUS
<1> QED BY <1>2, <1>3

\* What is in the outbox is an event.
LEMMA RowsAreEvents == DeliveryTypeOK => ToSet(saved) \subseteq Events /\ published \subseteq Events
BY ElementOfSeq DEF DeliveryTypeOK, ToSet

\* Every step keeps the types.
LEMMA TypesStep ==
    ASSUME DeliveryInv, [DeliveryNext]_deliveryVars
    PROVE  DeliveryTypeOK'
<1> USE DEF DeliveryInv, tables, busVars, pubVars, faults, calls
<1> DEFINE N == Cardinality(Handlers)
<1>n. N \in Nat
  BY HandlersFinite
<1> HIDE DEF N
<1>t. DeliveryTypeOK
  OBVIOUS
<1>o. /\ saved \in Seq(Events) /\ published \subseteq ToSet(saved) \ Poison
      /\ \A t \in Types : cells[t] \in Seq(Handlers)
      /\ size \in [Types -> 0..N]
      /\ pub \in {"idle", "publish", "spawn", "mark", "off"}
      /\ batch \in Seq(Events) /\ Len(batch) <= Limit
      /\ next \in Nat /\ last \in 0..N
      /\ stopped \in BOOLEAN /\ called \in [Handlers -> [Events -> Nat]]
      /\ waiting \in [Handlers -> [Events -> Nat]] /\ lost \subseteq Handlers \X Events
      /\ markErrors \in [Events -> Nat] /\ crashes \in Nat
      /\ unsubs \subseteq Handlers /\ raced \subseteq Events
  BY DEF DeliveryTypeOK, N
<1> DEFINE TypesNow ==
      /\ saved \in Seq(Events) /\ published \subseteq ToSet(saved) \ Poison
      /\ \A t \in Types : cells[t] \in Seq(Handlers)
      /\ size \in [Types -> 0..N]
      /\ pub \in {"idle", "publish", "spawn", "mark", "off"}
      /\ batch \in Seq(Events) /\ Len(batch) <= Limit
      /\ next \in Nat /\ last \in 0..N
      /\ stopped \in BOOLEAN /\ called \in [Handlers -> [Events -> Nat]]
      /\ waiting \in [Handlers -> [Events -> Nat]] /\ lost \subseteq Handlers \X Events
      /\ markErrors \in [Events -> Nat] /\ crashes \in Nat
      /\ unsubs \subseteq Handlers /\ raced \subseteq Events
<1> SUFFICES TypesNow'
  BY DEF DeliveryTypeOK, N
<1>b. batch # <<>> => /\ Head(batch) \in Events /\ Current \in Types
                      /\ Head(batch) \in ToSet(saved) \ published
                      /\ Tail(batch) \in Seq(Events) /\ Len(Tail(batch)) <= Limit
  BY BatchHead
<1>h. pub \in {"spawn", "mark"} => batch # <<>> /\ Head(batch) \notin Poison
  BY DEF Rows
<1>c. \A t \in Types : Len(Subscribed[t]) \in 0..N /\ Subscribed[t] \in Seq(Handlers)
  BY CellsOfType, OriginalArrays DEF N
<1>e. <<>> \in Seq(Events) /\ Len(<<>>) <= Limit
  BY EmptySeq, DeliveryAssumption
<1>1. ASSUME NEW e \in Events, Save(e) PROVE TypesNow'
  BY <1>1, <1>o, AppendOneCopy DEF Save, Rows
<1>2. CASE Tick
  BY <1>2, <1>o, BatchOfRows DEF Tick
<1>3. CASE SkipPoison
  BY <1>3, <1>o, <1>b DEF SkipPoison
<1>4. CASE Publish
  BY <1>4, <1>o, <1>b DEF Publish, Current
<1>5. CASE Spawn
  <2> DEFINE e == Head(batch)
             h == cells[Current][next]
  <2>1. e \in Events /\ Current \in Types
    BY <1>5, <1>b, <1>h DEF Spawn
  <2>2. h \in Handlers
    <3>1. next \in 1..last + 1 /\ last \in 0..Len(Subscribed[Current]) /\ next <= last
      BY <1>5 DEF Spawn, Iteration
    <3>2. cells[Current] \in Seq(Handlers) /\ Len(cells[Current]) = Len(Subscribed[Current])
      BY <2>1, <1>o DEF Arrays
    <3>3. next \in 1..Len(cells[Current])
      BY <3>1, <3>2, <2>1, OriginalArrays
    <3> QED BY <3>2, <3>3, ElementOfSeq
  <2> HIDE DEF e, h
  <2>3. waiting' = [waiting EXCEPT ![h][e] = @ + 1]
    BY <1>5 DEF Spawn, e, h, Current
  <2>4. waiting' \in [Handlers -> [Events -> Nat]]
    BY <1>o, <2>1, <2>2, <2>3, OneMore
  <2>5. /\ pub' = pub /\ last' = last /\ next' = next + 1
        /\ UNCHANGED <<tables, busVars, batch, stopped, called, lost, faults>>
    BY <1>5 DEF Spawn
  <2> QED BY <1>o, <2>4, <2>5
<1>6. CASE PublishReturns
  BY <1>6, <1>o, <1>n DEF PublishReturns
<1>7. CASE MarkAsPublished
  BY <1>7, <1>o, <1>b, <1>h DEF MarkAsPublished
<1>8. CASE MarkFails
  BY <1>8, <1>o, <1>b, <1>h DEF MarkFails
<1>9. CASE EndBatch
  BY <1>9, <1>o DEF EndBatch
<1>10. CASE LoopExit
  BY <1>10, <1>o DEF LoopExit
<1>11. CASE Stop
  BY <1>11, <1>o DEF Stop
<1>12. CASE Crash
  <2>1. \A t \in Types : cells'[t] \in Seq(Handlers)
    BY <1>12, <1>c DEF Crash
  <2>2. size' \in [Types -> 0..N]
    BY <1>12, <1>c DEF Crash
  <2>3. batch' \in Seq(Events) /\ Len(batch') <= Limit
    BY <1>12, <1>e DEF Crash
  <2>4. next' \in Nat /\ last' \in 0..N /\ crashes' \in Nat /\ stopped' \in BOOLEAN
    <3>1. next' = 0 /\ last' = 0 /\ crashes' = crashes + 1 /\ stopped' = FALSE
      BY <1>12 DEF Crash
    <3>2. crashes' \in Nat
      BY <1>o, <3>1
    <3>3. last' \in 0..N
      BY <1>n, <3>1
    <3> QED BY <3>1, <3>2, <3>3
  <2>5. UNCHANGED <<saved, published, unsubs, called, markErrors, raced>> /\ pub' = "idle"
    BY <1>12 DEF Crash
  <2>6. waiting' \in [Handlers -> [Events -> Nat]]
    BY <1>12 DEF Crash
  <2>7. lost' \subseteq Handlers \X Events
    <3>1. published \subseteq Events
      BY <1>o, RowsAreEvents
    <3> QED BY <1>12, <1>o, <3>1 DEF Crash
  <2> QED BY <1>o, <2>1, <2>2, <2>3, <2>4, <2>5, <2>6, <2>7
<1>13. ASSUME NEW h \in Handlers, Unsubscribe(h) PROVE TypesNow'
  <2>1. \A t \in Types : cells'[t] \in Seq(Handlers) /\ size'[t] \in 0..N
    BY <1>13, UnsubscribeArrays, <1>o, <1>n
  <2>2. size' \in [Types -> 0..N]
    BY <1>13, <2>1 DEF Unsubscribe
  <2>3. raced' \subseteq Events
    BY <1>13, <1>o, <1>b, <1>h DEF Unsubscribe
  <2> QED BY <1>13, <1>o, <2>1, <2>2, <2>3 DEF Unsubscribe
<1>14. ASSUME NEW h \in Handlers, Subscribe(h) PROVE TypesNow'
  <2>1. ASSUME NEW t \in Types PROVE cells'[t] \in Seq(Handlers) /\ size'[t] \in 0..N
    <3>1. cells'[t] \in Seq(Handlers) /\ size'[t] \in size[t]..Len(Subscribed[t])
      BY <1>14, SubscribeArrays
    <3>2. size[t] \in 0..N /\ Len(Subscribed[t]) \in 0..N
      BY <1>o, <1>c
    <3> QED BY <1>n, <3>1, <3>2
  <2>2. size' \in [Types -> 0..N]
    BY <1>14, <2>1 DEF Subscribe
  <2> QED BY <1>14, <1>o, <2>1, <2>2 DEF Subscribe
<1>15. CASE UNCHANGED deliveryVars
  BY <1>15, <1>o DEF deliveryVars
<1>16. ASSUME NEW h \in Handlers, NEW e \in Events, CallHandler(h, e) PROVE TypesNow'
  <2>1. /\ waiting[h][e] > 0 /\ waiting' = [waiting EXCEPT ![h][e] = @ - 1]
        /\ called' = [called EXCEPT ![h][e] = @ + 1]
    BY <1>16 DEF CallHandler
  <2>2. waiting' \in [Handlers -> [Events -> Nat]]
    BY <1>o, <1>16, <2>1, OneLess
  <2>3. called' \in [Handlers -> [Events -> Nat]]
    BY <1>o, <1>16, <2>1, OneMore
  <2> QED BY <1>16, <1>o, <2>2, <2>3 DEF CallHandler
<1> QED
  BY <1>1, <1>2, <1>3, <1>4, <1>5, <1>6, <1>7, <1>8, <1>9, <1>10, <1>11, <1>12, <1>13,
     <1>14, <1>15, <1>16
  DEF DeliveryNext, Publisher

\* Every step keeps the rows apart.
LEMMA RowsStep ==
    ASSUME DeliveryInv, [DeliveryNext]_deliveryVars
    PROVE  Rows'
<1> USE DEF DeliveryInv, tables, busVars, pubVars, faults
<1>b. batch # <<>> => /\ Head(batch) \in ToSet(saved) \ published /\ OneCopy(Tail(batch))
                      /\ ToSet(Tail(batch)) \subseteq ToSet(batch) \ {Head(batch)}
  BY BatchHead
<1>r. /\ OneCopy(saved) /\ OneCopy(batch)
      /\ ToSet(batch) \subseteq ToSet(saved) \ published
      /\ pub \in {"spawn", "mark"} => batch # <<>> /\ Head(batch) \notin Poison
      /\ pub \in {"idle", "off"} => batch = <<>>
      /\ pub \in {"idle", "publish", "spawn", "mark", "off"}
  BY DEF Rows, DeliveryTypeOK
<1>e. ToSet(<<>>) = {} /\ OneCopy(<<>>)
  BY DEF ToSet, OneCopy
<1>1. ASSUME NEW e \in Events, Save(e) PROVE Rows'
  <2>1. OneCopy(saved') /\ ToSet(saved) \subseteq ToSet(saved')
    BY <1>1, AppendOneCopy DEF Save, Rows, DeliveryTypeOK
  <2>2. UNCHANGED <<batch, published, pub>>
    BY <1>1 DEF Save
  <2> QED BY <2>1, <2>2, <1>r DEF Rows
<1>2. CASE Tick
  <2>1. /\ OneCopy(batch') /\ ToSet(batch') \subseteq ToSet(saved) \ published
    BY <1>2, BatchOfRows DEF Tick
  <2>2. UNCHANGED <<saved, published>> /\ pub' = "publish"
    BY <1>2 DEF Tick
  <2> QED BY <2>1, <2>2, <1>r DEF Rows
<1>3. CASE SkipPoison
  BY <1>3, <1>r, <1>b DEF SkipPoison, Rows
<1>4. CASE Publish
  BY <1>4, <1>r DEF Publish, Rows
<1>5. CASE Spawn
  BY <1>5, <1>r DEF Spawn, Rows
<1>6. CASE PublishReturns
  BY <1>6, <1>r DEF PublishReturns, Rows
<1>7. CASE MarkAsPublished
  BY <1>7, <1>r, <1>b DEF MarkAsPublished, Rows
<1>8. CASE MarkFails
  BY <1>8, <1>r, <1>b DEF MarkFails, Rows
<1>9. CASE EndBatch
  BY <1>9, <1>r DEF EndBatch, Rows
<1>10. CASE LoopExit
  BY <1>10, <1>r DEF LoopExit, Rows
<1>11. CASE Stop
  BY <1>11, <1>r DEF Stop, Rows
<1>12. CASE Crash
  BY <1>12, <1>r, <1>e DEF Crash, Rows
<1>13. ASSUME NEW h \in Handlers, Unsubscribe(h) \/ Subscribe(h) PROVE Rows'
  BY <1>13, <1>r DEF Unsubscribe, Subscribe, Rows
<1>14. CASE UNCHANGED deliveryVars
  BY <1>14, <1>r DEF deliveryVars, Rows
<1>15. ASSUME NEW h \in Handlers, NEW e \in Events, CallHandler(h, e) PROVE Rows'
  BY <1>15, <1>r DEF CallHandler, Rows
<1> QED
  BY <1>1, <1>2, <1>3, <1>4, <1>5, <1>6, <1>7, <1>8, <1>9, <1>10, <1>11, <1>12, <1>13, <1>14,
     <1>15
  DEF DeliveryNext, Publisher

\* Every step keeps the handlers' arrays in order.
LEMMA ArraysStep ==
    ASSUME DeliveryInv, [DeliveryNext]_deliveryVars
    PROVE  Arrays'
<1> USE DEF tables, busVars, pubVars, faults
<1>1. CASE UNCHANGED busVars
  BY <1>1 DEF DeliveryInv, Arrays, Holds
<1>2. CASE Crash
  <2>1. cells' = Subscribed /\ \A t \in Types : size'[t] = Len(Subscribed[t])
    BY <1>2 DEF Crash
  <2>2. ASSUME NEW t \in Types
        PROVE  /\ Len(Subscribed[t]) \in 0..Len(Subscribed[t])
               /\ \A i, j \in 1..Len(Subscribed[t]) : i < j => Subscribed[t][i] # Subscribed[t][j]
               /\ \A i \in 1..Len(Subscribed[t]) : Subscribed[t][i] \in Interest(t)
               /\ \A h \in Interest(t) : \E i \in 1..Len(Subscribed[t]) : Subscribed[t][i] = h
    BY OriginalArrays
  <2> QED BY <2>1, <2>2 DEF Arrays, Holds
<1>3. ASSUME NEW h \in Handlers, Unsubscribe(h) PROVE Arrays'
  <2> SUFFICES ASSUME NEW t \in Types
               PROVE  /\ Len(cells'[t]) = Len(Subscribed[t]) /\ size'[t] \in 0..Len(Subscribed[t])
                      /\ \A i, j \in 1..size'[t] : i < j => cells'[t][i] # cells'[t][j]
                      /\ \A i \in 1..size'[t] : cells'[t][i] \in Interest(t)
                      /\ \A g \in Interest(t) \ unsubs' : \E i \in 1..size'[t] : cells'[t][i] = g
    BY DEF Arrays, Holds
  <2>1. /\ Len(cells'[t]) = Len(cells[t]) /\ size'[t] \in 0..size[t]
        /\ \A i, j \in 1..size'[t] : i < j => cells'[t][i] # cells'[t][j]
        /\ \A i \in 1..size'[t] : \E j \in 1..size[t] : cells'[t][i] = cells[t][j]
        /\ \A g \in Handlers \ {h} : Holds(t, g) => \E i \in 1..size'[t] : cells'[t][i] = g
    BY <1>3, UnsubscribeArrays
  <2>2. /\ Len(cells[t]) = Len(Subscribed[t]) /\ size[t] \in 0..Len(Subscribed[t])
        /\ \A i \in 1..size[t] : cells[t][i] \in Interest(t)
        /\ \A g \in Interest(t) \ unsubs : Holds(t, g)
    BY DEF DeliveryInv, Arrays
  <2>3. unsubs' = unsubs \cup {h} /\ Interest(t) \subseteq Handlers
    BY <1>3 DEF Unsubscribe, Interest
  <2>4. Len(Subscribed[t]) \in Nat
    BY OriginalArrays
  <2>5. size'[t] \in 0..Len(Subscribed[t])
    BY <2>1, <2>2, <2>4
  <2>6. \A i \in 1..size'[t] : cells'[t][i] \in Interest(t)
    BY <2>1, <2>2
  <2>7. \A g \in Interest(t) \ unsubs' : \E i \in 1..size'[t] : cells'[t][i] = g
    BY <2>1, <2>2, <2>3
  <2> QED BY <2>1, <2>2, <2>5, <2>6, <2>7
<1>4. ASSUME NEW h \in Handlers, Subscribe(h) PROVE Arrays'
  <2> SUFFICES ASSUME NEW t \in Types
               PROVE  /\ Len(cells'[t]) = Len(Subscribed[t]) /\ size'[t] \in 0..Len(Subscribed[t])
                      /\ \A i, j \in 1..size'[t] : i < j => cells'[t][i] # cells'[t][j]
                      /\ \A i \in 1..size'[t] : cells'[t][i] \in Interest(t)
                      /\ \A g \in Interest(t) \ unsubs' : \E i \in 1..size'[t] : cells'[t][i] = g
    BY DEF Arrays, Holds
  <2> DEFINE n == size[t]
             m == size'[t]
  <2>1. /\ Len(cells'[t]) = Len(cells[t]) /\ m \in n..Len(Subscribed[t])
        /\ \A i \in 1..n : cells'[t][i] = cells[t][i]
        /\ \A i \in 1..m : i > n => cells'[t][i] = h /\ h \in Interest(t)
        /\ ~Holds(t, h) /\ m <= n + 1
    BY <1>4, SubscribeArrays
  <2>2. /\ Len(cells[t]) = Len(Subscribed[t]) /\ n \in 0..Len(Subscribed[t])
        /\ \A i, j \in 1..n : i < j => cells[t][i] # cells[t][j]
        /\ \A i \in 1..n : cells[t][i] \in Interest(t)
        /\ \A g \in Interest(t) \ unsubs : \E i \in 1..n : cells[t][i] = g
        /\ \A i \in 1..n : cells[t][i] # h
    BY <2>1 DEF DeliveryInv, Arrays, Holds
  <2>3. unsubs' = unsubs /\ Len(Subscribed[t]) \in Nat
    BY <1>4, OriginalArrays DEF Subscribe
  <2> HIDE DEF n, m
  <2>4. \A i \in 1..m : i \in 1..n \/ (i > n /\ i = m)
    BY <2>1, <2>2, <2>3
  <2>5. \A i, j \in 1..m : i < j => cells'[t][i] # cells'[t][j]
    <3> SUFFICES ASSUME NEW i \in 1..m, NEW j \in 1..m, i < j PROVE cells'[t][i] # cells'[t][j]
      OBVIOUS
    <3>1. i \in 1..n
      BY <2>1, <2>2, <2>3
    <3>2. CASE j \in 1..n
      BY <2>1, <2>2, <3>1, <3>2
    <3>3. CASE j > n
      BY <2>1, <2>2, <3>1, <3>3
    <3> QED BY <2>4, <3>2, <3>3
  <2>6. \A i \in 1..m : cells'[t][i] \in Interest(t)
    BY <2>1, <2>2, <2>4
  <2>7. \A g \in Interest(t) \ unsubs' : \E i \in 1..m : cells'[t][i] = g
    <3>1. 1..n \subseteq 1..m
      BY <2>1, <2>2, <2>3
    <3> QED BY <2>1, <2>2, <2>3, <3>1
  <2>8. m \in 0..Len(Subscribed[t])
    BY <2>1, <2>2, <2>3
  <2> QED BY <2>1, <2>2, <2>5, <2>6, <2>7, <2>8 DEF m
<1>5. Publisher \/ LoopExit \/ Stop \/ (\E e \in Events : Save(e)) \/ UNCHANGED deliveryVars
          \/ (\E h \in Handlers, e \in Events : CallHandler(h, e))
          => UNCHANGED busVars
  BY DEF Publisher, Tick, SkipPoison, Publish, Spawn, PublishReturns, MarkAsPublished, MarkFails,
         EndBatch, LoopExit, Stop, Save, CallHandler, deliveryVars
<1> QED BY <1>1, <1>2, <1>3, <1>4, <1>5 DEF DeliveryNext

\* Every step keeps the running Publish within its array.
LEMMA IterationStep ==
    ASSUME DeliveryInv, [DeliveryNext]_deliveryVars
    PROVE  Iteration'
<1> USE DEF tables, busVars, pubVars, faults
<1>1. CASE pub' # "spawn"
  BY <1>1 DEF Iteration
<1>2. CASE UNCHANGED <<pub, batch, next, last, cells, size, unsubs, raced>>
  BY <1>2 DEF DeliveryInv, Iteration, Current
<1>b. batch # <<>> => Head(batch) \in Events /\ Current \in Types
  BY BatchHead DEF DeliveryInv
<1>3. CASE Publish
  <2>1. /\ UNCHANGED <<batch, cells, size, unsubs, raced>> /\ Current' = Current
        /\ next' = 1 /\ last' = size[Current] /\ Current \in Types
    BY <1>3, <1>b DEF Publish, Current
  <2>2. /\ size[Current] \in 0..Len(Subscribed[Current]) /\ Len(Subscribed[Current]) \in Nat
        /\ \A h \in Interest(Current) \ unsubs : \E i \in 1..size[Current] : cells[Current][i] = h
    BY <2>1, OriginalArrays DEF DeliveryInv, Arrays, Holds
  <2>3. last' \in 0..Len(Subscribed[Current]) /\ next' \in 1..last' + 1 /\ last' <= size[Current]
    BY <2>1, <2>2
  <2>4. \A h \in Interest(Current) \ unsubs : \E i \in 1..last' : cells[Current][i] = h
    BY <2>1, <2>2
  <2> QED BY <2>1, <2>3, <2>4 DEF Iteration
<1>4. CASE Spawn
  <2>1. /\ UNCHANGED <<pub, batch, last, cells, size, unsubs, raced>> /\ Current' = Current
        /\ next' = next + 1 /\ pub = "spawn" /\ next <= last
    BY <1>4 DEF Spawn, Current
  <2>2. batch # <<>>
    BY <2>1 DEF DeliveryInv, Rows
  <2>3. last \in 0..Len(Subscribed[Current]) /\ next \in 1..last + 1
    BY <2>1 DEF DeliveryInv, Iteration
  <2>4. Len(Subscribed[Current]) \in Nat
    BY <1>b, <2>2, OriginalArrays
  <2>5. next' \in 1..last + 1
    BY <2>1, <2>3, <2>4
  <2> QED BY <2>1, <2>5 DEF DeliveryInv, Iteration
<1>5. ASSUME NEW h \in Handlers, Unsubscribe(h), pub = "spawn" PROVE Iteration'
  <2>1. /\ UNCHANGED <<pub, batch, next, last>> /\ Current' = Current
        /\ Head(batch) \in raced'
    BY <1>5 DEF Unsubscribe, Current
  <2> QED BY <1>5, <2>1 DEF DeliveryInv, Iteration
<1>6. ASSUME NEW h \in Handlers, Subscribe(h), pub = "spawn" PROVE Iteration'
  <2>1. /\ UNCHANGED <<pub, batch, next, last, unsubs, raced>> /\ Current' = Current
        /\ batch # <<>>
    BY <1>6 DEF Subscribe, Current, DeliveryInv, Rows
  <2> DEFINE t == Current
  <2>2. t \in Types
    BY <1>b, <2>1
  <2>3. /\ size'[t] \in size[t]..Len(Subscribed[t])
        /\ \A i \in 1..size[t] : cells'[t][i] = cells[t][i]
        /\ size[t] \in 0..Len(Subscribed[t]) /\ Len(Subscribed[t]) \in Nat
    BY <1>6, <2>2, SubscribeArrays, OriginalArrays DEF DeliveryInv, Arrays
  <2>4. /\ last \in 0..Len(Subscribed[t]) /\ next \in 1..last + 1
        /\ Head(batch) \notin raced =>
              /\ last <= size[t]
              /\ \A g \in Interest(t) \ unsubs : \E i \in 1..last : cells[t][i] = g
    BY <1>6 DEF DeliveryInv, Iteration
  <2> HIDE DEF t
  <2>5. ASSUME Head(batch) \notin raced
        PROVE  /\ last <= size'[t]
               /\ \A g \in Interest(t) \ unsubs : \E i \in 1..last : cells'[t][i] = g
    <3>1. last <= size'[t] /\ \A i \in 1..last : cells'[t][i] = cells[t][i]
      BY <2>3, <2>4, <2>5
    <3> QED BY <2>4, <2>5, <3>1
  <2>6. /\ Current' = t
        /\ last' = last /\ next' = next /\ unsubs' = unsubs /\ Head(batch)' = Head(batch)
        /\ raced' = raced
    BY <2>1 DEF t
  <2>7. /\ last' \in 0..Len(Subscribed[t]) /\ next' \in 1..last' + 1
        /\ Head(batch)' \notin raced' =>
              /\ last' <= size'[t]
              /\ \A g \in Interest(t) \ unsubs' : \E i \in 1..last' : cells'[t][i] = g
    BY <2>4, <2>5, <2>6
  <2> QED BY <2>6, <2>7 DEF Iteration
<1>7. ASSUME NEW h \in Handlers, Unsubscribe(h) \/ Subscribe(h), pub # "spawn" PROVE Iteration'
  BY <1>1, <1>7 DEF Unsubscribe, Subscribe
<1>8. Tick \/ SkipPoison \/ PublishReturns \/ MarkAsPublished \/ MarkFails \/ EndBatch \/ LoopExit
          \/ Crash => Iteration'
  BY <1>1 DEF Tick, SkipPoison, PublishReturns, MarkAsPublished, MarkFails, EndBatch, LoopExit,
              Crash
<1>9. (\E e \in Events : Save(e)) \/ Stop \/ UNCHANGED deliveryVars
          \/ (\E h \in Handlers, e \in Events : CallHandler(h, e))
          => Iteration'
  BY <1>2 DEF Save, Stop, CallHandler, deliveryVars
<1> QED BY <1>3, <1>4, <1>5, <1>6, <1>7, <1>8, <1>9 DEF DeliveryNext, Publisher

\* A step that neither spawns nor ends a goroutine keeps the hand-overs if no credit
\* is lost and no event counts as handed to a handler without a goroutine for it.
LEMMA HandOversFrame ==
    ASSUME DeliveryInv, DeliveryTypeOK', UNCHANGED calls, raced \subseteq raced',
           unsubs \subseteq unsubs',
           \A h \in Handlers, e \in Events \ raced' :
               /\ Credit(h, e) <= Credit(h, e)'
               /\ Handed(h, e)' /\ Interested(h, e) /\ h \notin unsubs' => Handed(h, e)
    PROVE  HandOvers'
<1>0. lost' = lost /\ \A h, e : Given(h, e)' = Given(h, e)
  BY DEF calls, Given
<1> SUFFICES ASSUME NEW h \in Handlers, NEW e \in Events \ raced'
             PROVE  /\ Given(h, e) <= Credit(h, e)'
                    /\ Handed(h, e)' /\ Interested(h, e) /\ h \notin unsubs' =>
                          Given(h, e) >= 1 \/ <<h, e>> \in lost
  BY <1>0 DEF HandOvers
<1>1. /\ Given(h, e) <= Credit(h, e)
      /\ Handed(h, e) /\ Interested(h, e) /\ h \notin unsubs =>
            Given(h, e) >= 1 \/ <<h, e>> \in lost
  BY DEF DeliveryInv, HandOvers
<1>2. Given(h, e) \in Nat
  BY DEF DeliveryInv, DeliveryTypeOK, Given
<1>3. Credit(h, e) \in Nat
  BY DEF DeliveryInv, DeliveryTypeOK, Credit
<1>4. Credit(h, e)' \in Nat
  BY DEF DeliveryTypeOK, Credit
<1> QED BY <1>1, <1>2, <1>3, <1>4

\* Nothing the hand-overs depend on changes, but for more faults.
LEMMA HandOversSame ==
    ASSUME DeliveryInv, DeliveryTypeOK', UNCHANGED calls, raced \subseteq raced',
           unsubs \subseteq unsubs', crashes' >= crashes, UNCHANGED markErrors,
           \A h \in Handlers, e \in Events \ raced' : Handed(h, e)' <=> Handed(h, e)
    PROVE  HandOvers'
<1>1. ASSUME NEW h \in Handlers, NEW e \in Events \ raced' PROVE Credit(h, e) <= Credit(h, e)'
  <2>1. markErrors[e] \in Nat /\ crashes \in Nat /\ crashes' \in Nat
    BY DEF DeliveryInv, DeliveryTypeOK
  <2> QED BY <2>1 DEF Credit
<1> QED BY <1>1, HandOversFrame

\* Every step keeps the calls within their credit, and lets no handler be missed.
LEMMA HandOversStep ==
    ASSUME DeliveryInv, [DeliveryNext]_deliveryVars
    PROVE  HandOvers'
<1> USE DEF tables, busVars, pubVars, faults
<1>t. DeliveryTypeOK /\ DeliveryTypeOK'
  BY TypesStep DEF DeliveryInv
<1>b. batch # <<>> => /\ Head(batch) \in Events /\ Current \in Types
                      /\ Head(batch) \in ToSet(saved) \ published
  BY BatchHead DEF DeliveryInv
<1>h. pub \in {"spawn", "mark"} => batch # <<>>
  BY DEF DeliveryInv, Rows
<1>c. crashes >= crashes
  BY <1>t DEF DeliveryTypeOK
<1>1. CASE UNCHANGED <<published, pub, batch, next, cells, calls, markErrors, crashes, unsubs,
                       raced>>
  <2>1. \A h, e : Handed(h, e)' <=> Handed(h, e)
    BY <1>1 DEF Handed, Reached, Current
  <2> QED BY <1>1, <1>t, <2>1, <1>c, HandOversSame
\* Neither before nor after the step is an event in the publisher's hands.
<1>2. CASE /\ pub \notin {"spawn", "mark"} /\ pub' \notin {"spawn", "mark"}
           /\ UNCHANGED <<published, calls, markErrors, crashes, raced>>
           /\ unsubs \subseteq unsubs'
  <2>1. \A h, e : Handed(h, e)' <=> Handed(h, e)
    BY <1>2 DEF Handed
  <2> QED BY <1>2, <1>t, <2>1, <1>c, HandOversSame
<1>3. CASE Publish
  <2>1. /\ pub # "spawn" /\ pub # "mark" /\ pub' = "spawn" /\ next' = 1
        /\ UNCHANGED <<published, calls, markErrors, crashes, raced, unsubs>>
    BY <1>3 DEF Publish
  <2>2. \A h : ~ Reached(h)'
    BY <2>1 DEF Reached
  <2>3. \A h, e : Handed(h, e)' <=> Handed(h, e)
    BY <2>1, <2>2 DEF Handed
  <2> QED BY <1>3, <1>t, <2>1, <2>3, <1>c, HandOversSame
<1>4. CASE Spawn
  <2> DEFINE e0 == Head(batch)
             h0 == cells[Current][next]
  <2>1. /\ UNCHANGED <<published, pub, batch, cells, markErrors, crashes, unsubs, raced>>
        /\ Current' = Current /\ next' = next + 1 /\ pub = "spawn" /\ next <= last
        /\ UNCHANGED <<called, lost>> /\ waiting' = [waiting EXCEPT ![h0][e0] = @ + 1]
    BY <1>4 DEF Spawn, Current
  <2>2. e0 \in Events \ published /\ Current \in Types
    BY <1>b, <1>h, <2>1
  <2>3. next \in Nat \ {0} /\ last \in Nat
    BY <2>1, <2>2, OriginalArrays DEF DeliveryInv, Iteration
  <2>4. \A h : Reached(h)' <=> Reached(h) \/ h = h0
    <3>1. 1..next' - 1 = (1..next - 1) \cup {next}
      BY <2>1, <2>3
    <3> QED BY <2>1, <3>1 DEF Reached
  <2>5. e0 \notin raced => ~ Reached(h0)
    <3> SUFFICES ASSUME e0 \notin raced, NEW i \in 1..next - 1 PROVE cells[Current][i] # h0
      BY DEF Reached
    <3>1. last <= size[Current] /\ size[Current] \in Nat
      BY <2>1, <2>2, OriginalArrays DEF DeliveryInv, Iteration, Arrays
    <3>2. i \in 1..size[Current] /\ next \in 1..size[Current] /\ i < next
      BY <2>1, <2>3, <3>1
    <3> QED BY <2>2, <3>2 DEF DeliveryInv, Arrays
  <2> SUFFICES ASSUME NEW h \in Handlers, NEW e \in Events \ raced'
               PROVE  /\ Given(h, e)' <= Credit(h, e)'
                      /\ Handed(h, e)' /\ Interested(h, e) /\ h \notin unsubs' =>
                            Given(h, e)' >= 1 \/ <<h, e>> \in lost'
    BY DEF HandOvers
  <2>6. /\ Given(h, e) <= Credit(h, e)
        /\ Handed(h, e) /\ Interested(h, e) /\ h \notin unsubs =>
              Given(h, e) >= 1 \/ <<h, e>> \in lost
    BY <2>1 DEF DeliveryInv, HandOvers
  <2>7. markErrors[e] \in Nat /\ crashes \in Nat /\ called[h][e] \in Nat /\ waiting[h][e] \in Nat
    BY <1>t DEF DeliveryTypeOK
  <2>8. CASE h = h0 /\ e = e0
    <3>1. Handed(h, e)' /\ ~ Handed(h, e)
      BY <2>1, <2>2, <2>4, <2>5, <2>8 DEF Handed
    <3>2. waiting'[h][e] = waiting[h][e] + 1 /\ called'[h][e] = called[h][e]
      BY <1>t, <2>1, <2>8 DEF DeliveryTypeOK
    <3>3. Given(h, e)' = Given(h, e) + 1 /\ Given(h, e) \in Nat
      BY <2>7, <3>2 DEF Given
    <3>4. Credit(h, e)' = Credit(h, e) + 1
      BY <2>1, <2>7, <3>1 DEF Credit
    <3>5. Credit(h, e) \in Nat
      BY <2>7 DEF Credit
    <3> QED BY <2>6, <3>3, <3>4, <3>5
  <2>9. CASE ~ (h = h0 /\ e = e0)
    <3>1. Handed(h, e)' <=> Handed(h, e)
      BY <2>1, <2>4, <2>9 DEF Handed
    <3>2. waiting'[h][e] = waiting[h][e] /\ called'[h][e] = called[h][e]
      BY <1>t, <2>1, <2>9 DEF DeliveryTypeOK
    <3>3. Given(h, e)' = Given(h, e)
      BY <3>2 DEF Given
    <3>4. Credit(h, e)' = Credit(h, e)
      BY <2>1, <3>1 DEF Credit
    <3> QED BY <2>1, <2>6, <3>1, <3>3, <3>4
  <2> QED BY <2>8, <2>9
<1>5. CASE PublishReturns
  <2>1. /\ pub = "spawn" /\ pub' = "mark" /\ next > last
        /\ UNCHANGED <<published, batch, calls, markErrors, crashes, unsubs, raced>>
    BY <1>5 DEF PublishReturns
  <2>2. \A h, e : Handed(h, e)' <=> Handed(h, e) \/ e = Head(batch)
    BY <2>1 DEF Handed
  <2>3. ASSUME NEW h \in Handlers, NEW e \in Events \ raced, Interested(h, e), h \notin unsubs,
               e = Head(batch)
        PROVE  Handed(h, e)
    <3>1. h \in Interest(Current)
      BY <2>3 DEF Interested, Interest, Current
    <3>2. PICK i \in 1..last : cells[Current][i] = h
      BY <2>1, <2>3, <3>1 DEF DeliveryInv, Iteration
    <3>3. Current \in Types
      BY <1>b, <1>h, <2>1
    <3>4. last \in Nat /\ next \in Nat
      BY <2>1, <3>3, OriginalArrays DEF DeliveryInv, Iteration
    <3>5. i \in 1..next - 1
      BY <2>1, <3>4
    <3> QED BY <2>1, <2>3, <3>2, <3>5 DEF Handed, Reached
  <2>4. ASSUME NEW h \in Handlers, NEW e \in Events PROVE Credit(h, e) <= Credit(h, e)'
    <3>1. markErrors[e] \in Nat /\ crashes \in Nat
      BY <1>t DEF DeliveryTypeOK
    <3>2. Handed(h, e) => Handed(h, e)'
      BY <2>2
    <3> QED BY <2>1, <3>1, <3>2 DEF Credit
  <2> QED BY <1>t, <2>1, <2>2, <2>3, <2>4, HandOversFrame
<1>6. CASE MarkAsPublished
  <2>1. /\ pub = "mark" /\ pub' = "publish" /\ published' = published \cup {Head(batch)}
        /\ UNCHANGED <<calls, markErrors, crashes, unsubs, raced>>
    BY <1>6 DEF MarkAsPublished
  <2>2. \A h, e : Handed(h, e)' <=> Handed(h, e)
    BY <2>1 DEF Handed
  <2> QED BY <1>t, <2>1, <2>2, <1>c, HandOversSame
<1>7. CASE MarkFails
  <2> DEFINE e0 == Head(batch)
  <2>1. /\ pub = "mark" /\ pub' = "publish"
        /\ markErrors' = [markErrors EXCEPT ![e0] = @ + 1]
        /\ UNCHANGED <<published, calls, crashes, unsubs, raced>>
    BY <1>7 DEF MarkFails
  <2>2. \A h, e : Handed(h, e)' <=> e \in published
    BY <2>1 DEF Handed
  <2>3. \A h, e : Handed(h, e) <=> e \in published \/ e = e0
    BY <2>1 DEF Handed
  <2>4. ASSUME NEW h \in Handlers, NEW e \in Events PROVE Credit(h, e) <= Credit(h, e)'
    <3>1. markErrors[e] \in Nat /\ crashes \in Nat
      BY <1>t DEF DeliveryTypeOK
    <3>2. CASE e = e0
      <4>1. markErrors'[e] = markErrors[e] + 1
        BY <1>t, <2>1, <3>2 DEF DeliveryTypeOK
      <4> QED BY <2>1, <3>1, <4>1 DEF Credit
    <3>3. CASE e # e0
      <4>1. markErrors'[e] = markErrors[e]
        BY <1>t, <2>1, <3>3 DEF DeliveryTypeOK
      <4>2. Handed(h, e)' <=> Handed(h, e)
        BY <2>2, <2>3, <3>3
      <4> QED BY <2>1, <3>1, <4>1, <4>2 DEF Credit
    <3> QED BY <3>2, <3>3
  <2> HIDE DEF e0
  <2>5. \A h, e : Handed(h, e)' => Handed(h, e)
    BY <2>2, <2>3
  <2> QED BY <1>t, <2>1, <2>4, <2>5, HandOversFrame
<1>8. CASE Crash
  <2>1. /\ pub' = "idle" /\ crashes' = crashes + 1
        /\ UNCHANGED <<published, called, markErrors, unsubs, raced>>
        /\ waiting' = [h \in Handlers |-> [e \in Events |-> 0]] /\ lost \subseteq lost'
        /\ \A h \in Handlers, e \in published :
              waiting[h][e] > 0 /\ called[h][e] = 0 => <<h, e>> \in lost'
    BY <1>8 DEF Crash
  <2>2. \A h, e : Handed(h, e)' <=> e \in published
    BY <2>1 DEF Handed
  <2> SUFFICES ASSUME NEW h \in Handlers, NEW e \in Events \ raced
               PROVE  /\ Given(h, e)' <= Credit(h, e)'
                      /\ Handed(h, e)' /\ Interested(h, e) /\ h \notin unsubs =>
                            Given(h, e)' >= 1 \/ <<h, e>> \in lost'
    BY <2>1 DEF HandOvers
  <2>3. /\ Given(h, e) <= Credit(h, e)
        /\ Handed(h, e) /\ Interested(h, e) /\ h \notin unsubs =>
              Given(h, e) >= 1 \/ <<h, e>> \in lost
    BY DEF DeliveryInv, HandOvers
  <2>4. markErrors[e] \in Nat /\ crashes \in Nat /\ called[h][e] \in Nat /\ waiting[h][e] \in Nat
    BY <1>t DEF DeliveryTypeOK
  <2>5. Given(h, e)' = called[h][e]
    BY <2>1, <2>4 DEF Given
  <2>6. Given(h, e) = called[h][e] + waiting[h][e]
    BY DEF Given
  <2>7. Handed(h, e)' => Handed(h, e)
    BY <2>2 DEF Handed
  <2>8. Given(h, e)' <= Credit(h, e)'
    <3>1. Credit(h, e) <= Credit(h, e)' /\ Credit(h, e) \in Nat /\ Credit(h, e)' \in Nat
      BY <2>1, <2>4, <2>7 DEF Credit
    <3> QED BY <2>3, <2>4, <2>5, <2>6, <3>1
  <2>9. ASSUME Handed(h, e)', Interested(h, e), h \notin unsubs
        PROVE  Given(h, e)' >= 1 \/ <<h, e>> \in lost'
    <3>1. e \in published /\ (Given(h, e) >= 1 \/ <<h, e>> \in lost)
      BY <2>2, <2>3, <2>7, <2>9
    <3>2. CASE called[h][e] = 0 /\ waiting[h][e] > 0
      BY <2>1, <3>1, <3>2
    <3>3. CASE called[h][e] > 0
      BY <2>4, <2>5, <3>3
    <3>4. CASE called[h][e] = 0 /\ waiting[h][e] = 0
      BY <2>1, <2>6, <3>1, <3>4
    <3> QED BY <2>4, <3>2, <3>3, <3>4
  <2> QED BY <2>8, <2>9
<1>9. ASSUME NEW g \in Handlers, Unsubscribe(g) PROVE HandOvers'
  <2>1. /\ UNCHANGED <<published, pub, batch, next, calls, markErrors, crashes>>
        /\ unsubs \subseteq unsubs' /\ raced \subseteq raced'
        /\ pub = "spawn" => Head(batch) \in raced'
    BY <1>9 DEF Unsubscribe
  <2>2. \A h \in Handlers, e \in Events \ raced' : Handed(h, e)' <=> Handed(h, e)
    BY <2>1 DEF Handed
  <2> QED BY <1>t, <2>1, <2>2, <1>c, HandOversSame
<1>10. ASSUME NEW g \in Handlers, Subscribe(g) PROVE HandOvers'
  <2>1. UNCHANGED <<published, pub, batch, next, calls, markErrors, crashes, unsubs, raced>>
    BY <1>10 DEF Subscribe
  <2>2. ASSUME NEW h \in Handlers, NEW e \in Events \ raced' PROVE Handed(h, e)' <=> Handed(h, e)
    <3>1. CASE pub = "spawn" /\ e = Head(batch)
      <4>1. batch # <<>> /\ Current \in Types /\ Current' = Current /\ e \notin raced
        BY <1>b, <1>h, <2>1, <3>1 DEF Current
      <4>2. \A i \in 1..size[Current] : cells'[Current][i] = cells[Current][i]
        BY <1>10, <4>1, SubscribeArrays
      <4>3. /\ last <= size[Current] /\ last \in Nat /\ next \in 1..last + 1
            /\ size[Current] \in Nat
        BY <3>1, <4>1, OriginalArrays DEF DeliveryInv, Iteration, Arrays
      <4>4. 1..next - 1 \subseteq 1..size[Current]
        BY <4>3
      <4>5. Reached(h)' <=> Reached(h)
        BY <2>1, <4>1, <4>2, <4>4 DEF Reached
      <4> QED BY <2>1, <4>5 DEF Handed
    <3>2. CASE ~ (pub = "spawn" /\ e = Head(batch))
      BY <2>1, <3>2 DEF Handed
    <3> QED BY <3>1, <3>2
  <2> QED BY <1>t, <2>1, <2>2, <1>c, HandOversSame
<1>13. ASSUME NEW g \in Handlers, NEW f \in Events, CallHandler(g, f) PROVE HandOvers'
  <2>1. /\ UNCHANGED <<published, pub, batch, next, cells, lost, markErrors, crashes, unsubs, raced>>
        /\ waiting[g][f] > 0 /\ waiting' = [waiting EXCEPT ![g][f] = @ - 1]
        /\ called' = [called EXCEPT ![g][f] = @ + 1]
    BY <1>13 DEF CallHandler
  <2>2. \A h, e : Handed(h, e)' <=> Handed(h, e)
    BY <2>1 DEF Handed, Reached, Current
  <2>3. ASSUME NEW h \in Handlers, NEW e \in Events PROVE Given(h, e)' = Given(h, e)
    <3>1. called[h][e] \in Nat /\ waiting[h][e] \in Nat
      BY <1>t DEF DeliveryTypeOK
    <3>2. CASE h = g /\ e = f
      <4>1. called'[h][e] = called[h][e] + 1 /\ waiting'[h][e] = waiting[h][e] - 1
        BY <1>t, <2>1, <3>2 DEF DeliveryTypeOK
      <4> QED BY <3>1, <4>1 DEF Given
    <3>3. CASE ~ (h = g /\ e = f)
      <4>1. called'[h][e] = called[h][e] /\ waiting'[h][e] = waiting[h][e]
        BY <1>t, <2>1, <3>3 DEF DeliveryTypeOK
      <4> QED BY <4>1 DEF Given
    <3> QED BY <3>2, <3>3
  <2>4. ASSUME NEW h \in Handlers, NEW e \in Events PROVE Credit(h, e)' = Credit(h, e)
    BY <2>1, <2>2 DEF Credit
  <2> QED BY <2>1, <2>2, <2>3, <2>4 DEF DeliveryInv, HandOvers
<1>11. Tick \/ SkipPoison \/ EndBatch \/ LoopExit
          => /\ pub \notin {"spawn", "mark"} /\ pub' \notin {"spawn", "mark"}
             /\ UNCHANGED <<published, calls, markErrors, crashes, raced>>
             /\ unsubs \subseteq unsubs'
  BY DEF Tick, SkipPoison, EndBatch, LoopExit
<1>12. (\E e \in Events : Save(e)) \/ Stop \/ UNCHANGED deliveryVars
          => UNCHANGED <<published, pub, batch, next, cells, calls, markErrors, crashes, unsubs,
                         raced>>
  BY DEF Save, Stop, deliveryVars
<1> QED
  BY <1>1, <1>2, <1>3, <1>4, <1>5, <1>6, <1>7, <1>8, <1>9, <1>10, <1>11, <1>12, <1>13
  DEF DeliveryNext, Publisher

-----------------------------------------------------------------------------
(* Event delivery: the theorems.                                           *)

\* Event delivery: the inductive invariant.
THEOREM DeliveryKept == DeliverySpec => []DeliveryInv
<1>1. DeliveryInit => DeliveryInv
  BY DeliveryStarts
<1>2. DeliveryInv /\ [DeliveryNext]_deliveryVars => DeliveryInv'
  BY TypesStep, RowsStep, ArraysStep, IterationStep, HandOversStep DEF DeliveryInv
<1> QED BY <1>1, <1>2, PTL DEF DeliverySpec

\* Event delivery: every variable keeps its type, and nothing is marked as
\* published that is not in the outbox or could not be read.
THEOREM DeliveryTypeCorrect == DeliverySpec => []DeliveryTypeOK
<1>1. DeliveryInv => DeliveryTypeOK
  BY DEF DeliveryInv
<1> QED BY <1>1, DeliveryKept, PTL

\* A hand-over is lost only by a crash between the mark and the run of the handler's
\* goroutine, and repeated only by a failed mark or a crash: for every event marked as
\* published whose Publish no Unsubscribe has overtaken, and every handler that stayed.
THEOREM HandedOverKept == DeliverySpec => []HandedOver
<1>1. DeliveryInv => HandedOver
  <2> SUFFICES ASSUME DeliveryInv, NEW h \in Handlers, NEW e \in Events \ raced
               PROVE  /\ e \in published /\ Interested(h, e) /\ h \notin unsubs =>
                            called[h][e] + waiting[h][e] >= 1 \/ <<h, e>> \in lost
                      /\ called[h][e] + waiting[h][e] <= 1 + markErrors[e] + crashes
    BY DEF HandedOver
  <2>1. /\ Given(h, e) <= Credit(h, e)
        /\ Handed(h, e) /\ Interested(h, e) /\ h \notin unsubs =>
              Given(h, e) >= 1 \/ <<h, e>> \in lost
    BY DEF DeliveryInv, HandOvers
  <2>2. e \in published => Handed(h, e)
    BY DEF Handed
  <2>3. /\ called[h][e] \in Nat /\ waiting[h][e] \in Nat /\ markErrors[e] \in Nat
        /\ crashes \in Nat
    BY DEF DeliveryInv, DeliveryTypeOK
  <2>4. Credit(h, e) <= 1 + markErrors[e] + crashes /\ Credit(h, e) \in Nat
    BY <2>3 DEF Credit
  <2>5. Given(h, e) = called[h][e] + waiting[h][e] /\ Given(h, e) \in Nat
    BY <2>3 DEF Given
  <2> QED BY <2>1, <2>2, <2>3, <2>4, <2>5
<1> QED BY <1>1, DeliveryKept, PTL
==============================================================================
