--------------------------------- MODULE Saga ---------------------------------
(***************************************************************************)
(* The sagas of internal/events (sagas.go) and their manager (SagaManager  *)
(* of event_bus.go).  StartSaga registers a saga and runs all its steps    *)
(* under the saga's write lock; a step that fails makes the steps before   *)
(* it be compensated.  HandleEvent offers an event to every saga under the *)
(* read lock; a system error with the correlation id of a review's saga    *)
(* compensates that saga's steps, all of them and whatever its status.     *)
(* RemoveCompletedSagas sweeps the map with sm.mu held.                    *)
(*                                                                         *)
(* A step of a thread is one call of a service (the interfaces at the top  *)
(* of sagas.go, external), for every call may fail and leave the others    *)
(* done.  Saga s works on a review or a hotel of its own, world[s].        *)
(***************************************************************************)
EXTENDS Integers, Sequences, FiniteSets

CONSTANTS
    Threads,        \* goroutines that call the manager
    NoThread,       \* nobody holds the lock
    ReviewSagas,    \* the sagas NewReviewProcessingSaga makes
    HotelSagas,     \* the sagas NewHotelOnboardingSaga makes
    LostReplies     \* whether a service may do its work and still report an error

Sagas == ReviewSagas \cup HotelSagas

ASSUME SagaAssumption ==
    /\ NoThread \notin Threads
    /\ ReviewSagas \cap HotelSagas = {}
    /\ LostReplies \in BOOLEAN

VARIABLES
    registry,   \* sm.sagas
    sweep,      \* what a RemoveCompletedSagas, which holds sm.mu, has still to ask
    status,     \* s.Status
    trigger,    \* the sagas whose Data has the trigger event
    world,      \* Data, and what the services hold about the saga's subject
    writer,     \* who holds s.mu for writing
    readers,    \* who hold it for reading
    pc,         \* what a thread is doing
    at,         \* the saga it starts, or that its event is about
    pos,        \* the call it makes next, or the step it compensates next
    todo,       \* the sagas HandleEvent has still to offer the event to
    botched     \* the sagas one of whose compensations stopped at an error

managerVars == <<registry, sweep>>
lockVars    == <<writer, readers>>
vars == <<managerVars, status, trigger, world, lockVars, pc, at, pos, todo, botched>>

\* A mutant: RemoveCompletedSagas removes whatever is not in progress.
NotRunning == {"completed", "failed", "pending"}

Terminal == {"completed", "failed"}
Status   == {"pending", "in_progress"} \cup Terminal

-----------------------------------------------------------------------------
(* The steps of a saga.  StepOf groups the calls by the step that makes    *)
(* them; the operators after it say what one successful call does to the   *)
(* subject w.                                                              *)

ReviewCalls  == <<"load", "moderate", "mark", "decide", "metrics", "activity", "index",
                  "notify", "decide">>
ReviewStepOf == <<1, 2, 2, 2, 3, 3, 4, 5, 6>>
HotelCalls   == <<"get", "load", "address", "contact", "license", "index", "activate">>
HotelStepOf  == <<1, 1, 2, 3, 4, 5, 6>>

Calls(s)  == IF s \in ReviewSagas THEN ReviewCalls ELSE HotelCalls
StepOf(s) == IF s \in ReviewSagas THEN ReviewStepOf ELSE HotelStepOf
LastStep  == 6

Subject == [loaded   : BOOLEAN,                                     \* Data["review"], Data["hotel"]
            verdict  : {"none", "approved", "rejected"},            \* Data["moderation_result"]
            mark     : {"none", "approved", "rejected"},            \* at the moderation service
            decision : {"pending", "approved", "rejected", "active"},   \* the stored status
            metrics  : 0..1,                                        \* UpdateHotelMetrics calls
            indexed  : BOOLEAN]

New == [loaded |-> FALSE, verdict |-> "none", mark |-> "none", decision |-> "pending",
        metrics |-> 0, indexed |-> FALSE]

\* A mutant: UpdateHotelMetrics is called once more for the user's activity.
CountTwice(w) == {[w EXCEPT !.metrics = w.metrics + 2]}

Load(w)     == {[w EXCEPT !.loaded = TRUE]}
Moderate(w) == {[w EXCEPT !.verdict = v] : v \in {"approved", "rejected"}}
Mark(w)     == {[w EXCEPT !.mark = w.verdict]}
Decide(w)   == {[w EXCEPT !.decision = w.verdict]}
Count(w)    == {[w EXCEPT !.metrics = w.metrics + 1]}
Index(w)    == {[w EXCEPT !.indexed = TRUE]}
Activate(w) == {[w EXCEPT !.decision = "active"]}

\* updateAnalytics and indexReview return at once for a rejected review.
Skipped(call, w) == call \in {"metrics", "activity", "index"} /\ w.verdict = "rejected"

Outcomes(call, w) ==
    IF Skipped(call, w) THEN {w} ELSE
    CASE call = "load"      -> Load(w)
      [] call = "moderate"  -> Moderate(w)
      [] call = "mark"      -> Mark(w)
      [] call = "decide"    -> Decide(w)
      [] call = "metrics"   -> Count(w)
      [] call = "index"     -> Index(w)
      [] call = "activate"  -> Activate(w)
      [] OTHER              -> {w}

\* sendNotifications only logs an error.
MayFail(call, w) == call # "notify" /\ ~Skipped(call, w)

\* The compensations that do anything, and nothing before the data is loaded.
Unindex(w) == [w EXCEPT !.indexed = FALSE]
Withdraw(w) == [w EXCEPT !.decision = "pending"]

Undo(s, step, w) ==
    IF ~w.loaded THEN w ELSE
    CASE step = 6                                -> Withdraw(w)
      [] s \in ReviewSagas /\ step = 4           -> Unindex(w)
      [] s \in ReviewSagas /\ step = 2           -> Withdraw(w)
      [] s \in HotelSagas /\ step = 5            -> Unindex(w)
      [] OTHER                                   -> w

UndoMayFail(s, step, w) ==
    w.loaded /\ step \in (IF s \in ReviewSagas THEN {2, 4, 6} ELSE {5, 6})

-----------------------------------------------------------------------------
Init ==
    /\ registry = {} /\ sweep = {}
    /\ status = [s \in Sagas |-> "pending"] /\ trigger = {}
    /\ world = [s \in Sagas |-> New]
    /\ writer = [s \in Sagas |-> NoThread] /\ readers = [s \in Sagas |-> {}]
    /\ pc = [t \in Threads |-> "idle"] /\ at = [t \in Threads |-> NoThread]
    /\ pos = [t \in Threads |-> 0] /\ todo = [t \in Threads |-> {}]
    /\ botched = {}

TypeOK ==
    /\ registry \subseteq Sagas /\ sweep \subseteq registry
    /\ status \in [Sagas -> Status] /\ trigger \subseteq Sagas
    /\ world \in [Sagas -> Subject]
    /\ writer \in [Sagas -> Threads \cup {NoThread}] /\ readers \in [Sagas -> SUBSET Threads]
    /\ pc \in [Threads -> {"idle", "start", "run", "undo", "offer", "compensate"}]
    /\ at \in [Threads -> Sagas \cup {NoThread}]
    /\ pos \in [Threads -> 0..10] /\ todo \in [Threads -> SUBSET Sagas]
    /\ botched \subseteq Sagas

Goto(t, label, p) == pc' = [pc EXCEPT ![t] = label] /\ pos' = [pos EXCEPT ![t] = p]

\* A thread returns to its caller.
Return(t) ==
    /\ Goto(t, "idle", 0)
    /\ at' = [at EXCEPT ![t] = NoThread] /\ todo' = [todo EXCEPT ![t] = {}]

ManagerFree == sweep = {}

-----------------------------------------------------------------------------
(* Mutants: the slips the properties are there to catch.                   *)

\* The compensation of a failed step i starts at i - 2.
FirstUndone(s, p) == StepOf(s)[p] - 2

\* A step whose service fails is logged and counts as done.
CallErrorIgnored(t) ==
    LET s == at[t] call == Calls(s)[pos[t]] IN
    /\ pc[t] = "run" /\ pos[t] < Len(Calls(s)) /\ MayFail(call, world[s])
    /\ Goto(t, "run", pos[t] + 1)
    /\ UNCHANGED <<managerVars, status, trigger, world, lockVars, at, todo, botched>>

\* Handle returns on an error with the read lock held.
EndCompensationLocked(t) ==
    /\ pc[t] = "compensate" /\ pos[t] = 0
    /\ Goto(t, "offer", 0)
    /\ UNCHANGED <<managerVars, status, trigger, world, lockVars, at, todo, botched>>

-----------------------------------------------------------------------------
(* StartSaga: registration, then Start under the saga's write lock.        *)

StartSaga(t, s) ==
    /\ pc[t] = "idle" /\ ManagerFree
    /\ registry' = registry \cup {s}
    /\ at' = [at EXCEPT ![t] = s] /\ Goto(t, "start", 0)
    /\ UNCHANGED <<sweep, status, trigger, world, lockVars, todo, botched>>

LockFree(s) == writer[s] = NoThread /\ readers[s] = {}

StartRefused(t) ==
    /\ pc[t] = "start" /\ LockFree(at[t])
    \* No longer pending, or a trigger event of another type.
    /\ Return(t)
    /\ UNCHANGED <<managerVars, status, trigger, world, lockVars, botched>>

StartRuns(t) ==
    LET s == at[t] IN
    /\ pc[t] = "start" /\ LockFree(s) /\ status[s] = "pending"
    /\ writer' = [writer EXCEPT ![s] = t]
    /\ trigger' = trigger \cup {s}
    /\ status' = [status EXCEPT ![s] = "in_progress"]
    /\ Goto(t, "run", 1)
    /\ UNCHANGED <<managerVars, world, readers, at, todo, botched>>

CallOk(t) ==
    LET s == at[t] call == Calls(s)[pos[t]] IN
    /\ pc[t] = "run" /\ pos[t] <= Len(Calls(s))
    /\ \E w \in Outcomes(call, world[s]) : world' = [world EXCEPT ![s] = w]
    /\ Goto(t, "run", pos[t] + 1)
    /\ UNCHANGED <<managerVars, status, trigger, lockVars, at, todo, botched>>

\* The first step to be compensated is the one before the step that failed.
FirstUndo(s, p) == StepOf(s)[p] - 1

CallError(t) ==
    LET s == at[t] call == Calls(s)[pos[t]] IN
    /\ pc[t] = "run" /\ pos[t] <= Len(Calls(s)) /\ MayFail(call, world[s])
    /\ \/ UNCHANGED world
       \/ LostReplies /\ \E w \in Outcomes(call, world[s]) : world' = [world EXCEPT ![s] = w]
    /\ Goto(t, "undo", FirstUndo(s, pos[t]))
    /\ UNCHANGED <<managerVars, status, trigger, lockVars, at, todo, botched>>

\* compensateSteps, under the write lock in executeSteps and under the read
\* lock in handleSystemError, stops at the first compensation that fails.
Compensate(t) ==
    LET s == at[t] IN
    /\ pc[t] \in {"undo", "compensate"} /\ pos[t] > 0
    /\ world' = [world EXCEPT ![s] = Undo(s, pos[t], @)]
    /\ Goto(t, pc[t], pos[t] - 1)
    /\ UNCHANGED <<managerVars, status, trigger, lockVars, at, todo, botched>>

\* executeSteps ends with the compensation, or with the last step.
EndRun(t) ==
    LET s == at[t] IN
    /\ \/ /\ pc[t] = "undo" /\ pos[t] <= 0
          /\ status' = [status EXCEPT ![s] = "failed"] /\ UNCHANGED botched
       \/ /\ pc[t] = "undo" /\ UndoMayFail(s, pos[t], world[s])
          /\ status' = [status EXCEPT ![s] = "failed"] /\ botched' = botched \cup {s}
       \/ /\ pc[t] = "run" /\ pos[t] > Len(Calls(s))
          /\ status' = [status EXCEPT ![s] = "completed"] /\ UNCHANGED botched
    /\ writer' = [writer EXCEPT ![s] = NoThread]
    /\ Return(t)
    /\ UNCHANGED <<managerVars, trigger, world, readers>>

-----------------------------------------------------------------------------
(* HandleEvent: a copy of the map, then saga after saga in map order.      *)

\* The event carries the correlation id of saga s.  The events that are not
\* system errors pass through the same locks and change nothing.
HandleEvent(t, s) ==
    /\ pc[t] = "idle" /\ ManagerFree
    /\ todo' = [todo EXCEPT ![t] = registry]
    /\ at' = [at EXCEPT ![t] = s] /\ Goto(t, "offer", 0)
    /\ UNCHANGED <<managerVars, status, trigger, world, lockVars, botched>>

\* Handle of a saga the event does not concern, or of a hotel's saga.
OfferIgnored(t) ==
    /\ pc[t] = "offer"
    /\ \E s \in todo[t] :
          /\ writer[s] = NoThread
          /\ s # at[t] \/ s \notin trigger \/ s \in HotelSagas
          /\ todo' = [todo EXCEPT ![t] = @ \ {s}]
    /\ UNCHANGED <<managerVars, status, trigger, world, lockVars, pc, at, pos, botched>>

\* handleSystemError does not look at the status it overwrites.
OfferHandled(t) ==
    LET s == at[t] IN
    /\ pc[t] = "offer" /\ s \in todo[t] /\ writer[s] = NoThread
    /\ s \in trigger \cap ReviewSagas
    /\ readers' = [readers EXCEPT ![s] = @ \cup {t}]
    /\ todo' = [todo EXCEPT ![t] = @ \ {s}]
    /\ status' = [status EXCEPT ![s] = "failed"]
    /\ Goto(t, "compensate", LastStep)
    /\ UNCHANGED <<managerVars, trigger, world, writer, at, botched>>

EndCompensation(t) ==
    /\ pc[t] = "compensate" /\ pos[t] = 0
    /\ readers' = [readers EXCEPT ![at[t]] = @ \ {t}]
    /\ Goto(t, "offer", 0)
    /\ UNCHANGED <<managerVars, status, trigger, world, writer, at, todo, botched>>

\* An error of Handle ends HandleEvent: the sagas left are not told.
FailCompensation(t) ==
    /\ pc[t] = "compensate" /\ UndoMayFail(at[t], pos[t], world[at[t]])
    /\ readers' = [readers EXCEPT ![at[t]] = @ \ {t}]
    /\ botched' = botched \cup {at[t]}
    /\ Return(t)
    /\ UNCHANGED <<managerVars, status, trigger, world, writer>>

EndHandle(t) ==
    /\ pc[t] = "offer" /\ todo[t] = {}
    /\ Return(t)
    /\ UNCHANGED <<managerVars, status, trigger, world, lockVars, botched>>

-----------------------------------------------------------------------------
(* RemoveCompletedSagas: GetStatus waits for a saga that is running.       *)

SweepBegin ==
    /\ ManagerFree /\ registry # {}
    /\ sweep' = registry
    /\ UNCHANGED <<registry, status, trigger, world, lockVars, pc, at, pos, todo, botched>>

SweepOne ==
    /\ \E s \in sweep :
          /\ writer[s] = NoThread
          /\ sweep' = sweep \ {s}
          /\ registry' = IF status[s] \in Terminal THEN registry \ {s} ELSE registry
    /\ UNCHANGED <<status, trigger, world, lockVars, pc, at, pos, todo, botched>>

-----------------------------------------------------------------------------
Execute(t) ==
    StartRefused(t) \/ StartRuns(t) \/ CallOk(t) \/ CallError(t) \/ Compensate(t) \/ EndRun(t)

Handle(t) ==
    \/ OfferIgnored(t) \/ OfferHandled(t)
    \/ EndCompensation(t) \/ FailCompensation(t) \/ EndHandle(t)

Next ==
    \/ SweepBegin \/ SweepOne
    \/ \E t \in Threads :
          \/ Execute(t) \/ Handle(t)
          \/ \E s \in Sagas : StartSaga(t, s) \/ HandleEvent(t, s)

Spec == Init /\ [][Next]_vars

-----------------------------------------------------------------------------
(* Properties.                                                             *)

Concerned(s) == {t \in Threads : at[t] = s /\ pc[t] \in {"run", "undo", "compensate"}}

Published(w) ==
    /\ w.mark = w.verdict /\ w.decision = w.verdict
    /\ w.indexed <=> w.verdict = "approved"
    /\ w.metrics = IF w.verdict = "approved" THEN 1 ELSE 0

\* A completed saga leaves the services in agreement: the stored status, the
\* moderation service, the search index and the metrics all say what moderation
\* decided, and a completed onboarding is active and found by a search.
CompletedIsConsistent ==
    /\ \A s \in ReviewSagas : status[s] = "completed" => Published(world[s])
    /\ \A s \in HotelSagas :
          status[s] = "completed" => world[s].decision = "active" /\ world[s].indexed

\* A failed saga none of whose compensations met an error has taken back what
\* the public sees, however many starts and system errors raced: the subject is
\* pending again and is not in the index.
FailedIsWithdrawn ==
    \A s \in Sagas \ botched :
        status[s] = "failed" /\ Concerned(s) = {} =>
            world[s].decision = "pending" /\ ~world[s].indexed

\* RemoveCompletedSagas never forgets a saga that still runs: a system error can
\* find every saga whose work could be undone.
RunningIsKnown == \A s \in Sagas : status[s] = "in_progress" => s \in registry

\* The saga locks, and sm.mu which a sweep holds while it waits for them, never
\* block each other: while a call is under way, some call can go on.
NoStandstill ==
    (\E t \in Threads : pc[t] # "idle") \/ sweep # {} =>
        ENABLED (SweepOne \/ \E t \in Threads : Execute(t) \/ Handle(t))
==============================================================================
