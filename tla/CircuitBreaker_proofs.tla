------------------------- MODULE CircuitBreaker_proofs -------------------------
(***************************************************************************)
(* Theorems about the circuit breaker, for any number of callers and any   *)
(* thresholds.                                                             *)
(***************************************************************************)
EXTENDS CircuitBreaker, FiniteSetTheorems, TLAPS

------------------------------------------------------------------------------
(* Type correctness.                                                       *)

LEMMA IdleType == Idle \in Op
BY BreakerAssumption DEF Idle, Op, CircuitState

LEMMA GotoType ==
    ASSUME op \in [Actors -> Op], NEW a \in Actors,
           NEW p \in {"idle", "open", "half", "count", "attempt", "call", "window", "record",
                      "transition", "settle", "spawn", "check", "gone"},
           Goto(a, p)
    PROVE  op' \in [Actors -> Op]
BY IdleType DEF Goto, Op

LEMMA GotoFacts ==
    ASSUME op \in [Actors -> Op], NEW a \in Actors, NEW p, Goto(a, p)
    PROVE  op'[a].pc = p /\ \A b \in Actors : b # a => op'[b] = op[b]
BY DEF Goto, Idle, Op

LEMMA NextType ==
    ASSUME op \in [Actors -> Op], NEW a \in Actors
    PROVE  /\ op[a].next \in {"idle", "attempt", "call", "window"}
           /\ op[a].goal \in CircuitState /\ op[a].left \in Int
           /\ op[a].ok \in BOOLEAN
BY DEF Op

LEMMA EntryType == Entry \in {"attempt", "call"}
BY DEF Entry

LEMMA CappedType ==
    ASSUME NEW cap \in Nat, NEW n \in Nat
    PROVE  Capped(n, cap) \in Nat /\ Capped(n, cap) <= cap
BY DEF Capped

LEMMA AdmitType == admitted \in Nat /\ Admit => admitted' \in Nat
<1>1. Overshoot + 1 \in Nat
  BY FS_CardinalityType, BreakerAssumption DEF Overshoot
<1>2. QED BY <1>1 DEF Admit, Capped

LEMMA InitType == Init => TypeOK
<1>1. ASSUME NEW p \in {"spawn", "gone"} PROVE [Idle EXCEPT !.pc = p] \in Op
  BY IdleType DEF Op
<1>2. Init => op \in [Actors -> Op]
  BY <1>1, IdleType DEF Init
<1>3. Init => CounterOK /\ WindowOK
  BY BreakerAssumption DEF Init, CounterOK, WindowOK
<1>4. QED
  BY <1>2, <1>3 DEF Init, TypeOK, CircuitState

LEMMA SharedType == ASSUME TypeOK, NEW a \in Actors, Shared(a) PROVE TypeOK'
<1>0. op \in [Actors -> Op] /\ op[a].next \in {"idle", "attempt", "call", "window"}
      /\ op[a].goal \in CircuitState /\ Entry \in {"attempt", "call"}
  BY NextType, EntryType DEF TypeOK
<1>1. CASE CheckTimeout(a)
  <2>1. op' \in [Actors -> Op]
    <3>1. CASE expired
      BY <1>0, <1>1, <3>1 DEF CheckTimeout, CircuitState, Op
    <3>2. CASE ~expired
      BY <1>0, <1>1, <3>2, GotoType DEF CheckTimeout
    <3>3. QED BY <3>1, <3>2
  <2>2. QED
    BY <1>1, <2>1 DEF CheckTimeout, TypeOK, CounterOK, WindowOK, counters, probeVars
<1>2. CASE RecordSuccess(a)
  <2>1. op' \in [Actors -> Op]
    <3>1. CASE mu' = a
      BY <1>0, <1>2, <3>1, GotoType DEF RecordSuccess, CircuitState, Op
    <3>2. CASE mu' # a
      BY <1>0, <1>2, <3>2, GotoType DEF RecordSuccess
    <3>3. QED BY <3>1, <3>2
  <2>2. CounterOK'
    BY <1>2, CappedType, BreakerAssumption DEF RecordSuccess, TypeOK, CounterOK
  <2>3. QED
    BY <1>2, <2>1, <2>2 DEF RecordSuccess, TypeOK, WindowOK, probeVars
<1>3. CASE RecordFailure(a)
  <2>1. op' \in [Actors -> Op]
    <3>1. CASE mu' = a
      BY <1>0, <1>3, <3>1, GotoType DEF RecordFailure, CircuitState, Op
    <3>2. CASE mu' # a
      BY <1>0, <1>3, <3>2, GotoType DEF RecordFailure
    <3>3. QED BY <3>1, <3>2
  <2>2. CounterOK'
    BY <1>3, CappedType, BreakerAssumption DEF RecordFailure, TypeOK, CounterOK
  <2>3. QED
    BY <1>3, <2>1, <2>2 DEF RecordFailure, TypeOK, WindowOK, probeVars
<1>4. CASE AlreadyThere(a)
  <2>1. op' \in [Actors -> Op]
    BY <1>0, <1>4, GotoType DEF AlreadyThere
  <2>2. admitted' \in Nat
    BY <1>4, AdmitType DEF AlreadyThere, TypeOK, CounterOK
  <2>3. QED
    BY <1>4, <2>1, <2>2 DEF AlreadyThere, TypeOK, CounterOK, WindowOK, counters, probeVars
<1>5. CASE Transition(a)
  <2>1. op' \in [Actors -> Op]
    BY <1>0, <1>5, GotoType DEF Transition
  <2>2. QED
    BY <1>0, <1>5, <2>1 DEF Transition, TypeOK, CounterOK, WindowOK, counters, probeVars
<1>6. CASE Settle(a)
  <2>1. op' \in [Actors -> Op]
    BY <1>0, <1>6, GotoType DEF Settle
  <2>2. admitted' \in Nat
    BY <1>6, AdmitType DEF Settle, TypeOK, CounterOK
  <2>3. CounterOK'
    BY <1>6, <2>2, BreakerAssumption DEF Settle, TypeOK, CounterOK
  <2>4. QED
    BY <1>6, <2>1, <2>3 DEF Settle, TypeOK, WindowOK, probeVars
<1>7. QED BY <1>1, <1>2, <1>3, <1>4, <1>5, <1>6 DEF Shared, Record, Move

LEMMA RequestType == ASSUME TypeOK, NEW c \in Callers, Request(c) PROVE TypeOK'
<1>0. op \in [Actors -> Op] /\ c \in Actors /\ Entry \in {"attempt", "call"}
  BY EntryType DEF TypeOK, Actors
<1>1. CASE Execute(c)
  <2>1. PICK p \in {"attempt", "call", "open", "half"} :
            op' = [op EXCEPT ![c] = [Idle EXCEPT !.pc = p, !.left = MaxAttempts]]
    BY <1>0, <1>1 DEF Execute, TypeOK, CircuitState
  <2>2. MaxAttempts \in Int
    BY BreakerAssumption
  <2>3. [Idle EXCEPT !.pc = p, !.left = MaxAttempts] \in Op
    BY <2>2, IdleType DEF Op
  <2>4. op' \in [Actors -> Op]
    BY <1>0, <2>1, <2>3
  <2>5. QED
    BY <1>1, <2>4 DEF Execute, TypeOK, CounterOK, WindowOK, counters, probeVars
<1>2. CASE HalfCheck(c)
  <2>1. op' \in [Actors -> Op]
    BY <1>0, <1>2, GotoType DEF HalfCheck
  <2>2. QED
    BY <1>2, <2>1 DEF HalfCheck, TypeOK, CounterOK, WindowOK, counters, probeVars
<1>3. CASE HalfCount(c)
  <2>1. op' \in [Actors -> Op] /\ admitted' \in Nat
    BY <1>0, <1>3, GotoType, AdmitType DEF HalfCount, TypeOK, CounterOK
  <2>2. QED
    BY <1>3, <2>1 DEF HalfCount, TypeOK, CounterOK, WindowOK, probeVars
<1>4. CASE Attempt(c)
  <2>1. op' \in [Actors -> Op]
    BY <1>0, <1>4, GotoType DEF Attempt, Op
  <2>2. QED
    BY <1>4, <2>1 DEF Attempt, TypeOK, CounterOK, WindowOK, counters, probeVars
<1>5. CASE CallOk(c)
  <2>1. op' \in [Actors -> Op]
    <3>1. PICK p \in {"record", "window"}, b \in BOOLEAN :
              op' = [op EXCEPT ![c].pc = p, ![c].ok = b, ![c].next = "window"]
      BY <1>5 DEF CallOk
    <3>2. [op[c] EXCEPT !.pc = p, !.ok = b, !.next = "window"] \in Op
      <4>1. op[c] \in Op
        BY <1>0
      <4>2. QED BY <4>1 DEF Op
    <3>3. op' = [op EXCEPT ![c] = [op[c] EXCEPT !.pc = p, !.ok = b, !.next = "window"]]
      BY <3>1
    <3>4. QED BY <1>0, <3>2, <3>3
  <2>2. QED
    BY <1>5, <2>1 DEF CallOk, TypeOK, CounterOK, WindowOK, counters, probeVars
<1>6. CASE CallError(c)
  <2>1. op[c].left - 1 \in Int
    BY <1>0, NextType
  <2>2. op' \in [Actors -> Op]
    BY <1>0, <1>6, <2>1 DEF CallError, Op
  <2>3. QED
    BY <1>6, <2>2 DEF CallError, TypeOK, CounterOK, WindowOK, counters, probeVars
<1>7. CASE Window(c)
  <2>1. op' \in [Actors -> Op]
    <3>1. op' = [op EXCEPT ![c] = [op[c] EXCEPT !.pc = "record", !.next = "idle"]]
      BY <1>7 DEF Window
    <3>2. [op[c] EXCEPT !.pc = "record", !.next = "idle"] \in Op
      <4>1. op[c] \in Op
        BY <1>0
      <4>2. QED BY <4>1 DEF Op
    <3>3. QED BY <1>0, <3>1, <3>2
  <2>2. WindowOK'
    BY <1>7, BreakerAssumption DEF Window, TypeOK, WindowOK
  <2>3. QED
    BY <1>7, <2>1, <2>2 DEF Window, TypeOK, CounterOK, counters, probeVars
<1>8. CASE ForceTo(c)
  <2>1. \A s \in CircuitState : [Idle EXCEPT !.pc = "transition", !.goal = s] \in Op
    BY IdleType DEF Op
  <2>2. op' \in [Actors -> Op]
    BY <1>0, <1>8, <2>1 DEF ForceTo
  <2>3. QED
    BY <1>8, <2>2 DEF ForceTo, TypeOK, CounterOK, WindowOK, counters, probeVars
<1>9. CASE Reset(c)
  <2>1. CounterOK' /\ WindowOK'
    BY <1>9, BreakerAssumption DEF Reset, TypeOK, CounterOK, WindowOK
  <2>2. QED
    BY <1>9, <2>1 DEF Reset, TypeOK, CircuitState, probeVars
<1>10. QED BY <1>1, <1>2, <1>3, <1>4, <1>5, <1>6, <1>7, <1>8, <1>9 DEF Request

\* Every reachable state is well typed.
THEOREM TypeCorrect == Spec => []TypeOK
<1>1. TypeOK /\ [Next]_vars => TypeOK'
  <2>1. CASE UNCHANGED vars
    BY <2>1 DEF vars, counters, probeVars, TypeOK, CounterOK, WindowOK
  <2>2. ASSUME TypeOK, HealthCheck \/ Close PROVE TypeOK'
    <3>1. op \in [Actors -> Op] /\ Probe \in Actors
      BY <2>2 DEF TypeOK, Actors
    <3>2. [Idle EXCEPT !.pc = "record", !.ok = FALSE] \in Op
      BY IdleType DEF Op
    <3>3. op' \in [Actors -> Op]
      <4>1. CASE SetHealthCheck \/ Close
        BY <3>1, <4>1 DEF SetHealthCheck, Close
      <4>2. CASE ProbeStart \/ ProbeTick \/ ProbeExit \/ ProbePass
        BY <3>1, <4>2, GotoType DEF ProbeStart, ProbeTick, ProbeExit, ProbePass
      <4>3. CASE ProbeFail
        BY <3>1, <3>2, <4>3, GotoType DEF ProbeFail
      <4>4. QED BY <2>2, <4>1, <4>2, <4>3 DEF HealthCheck
    <3>4. QED
      BY <2>2, <3>3 DEF HealthCheck, Close, SetHealthCheck, ProbeStart, ProbeTick, ProbeExit,
         ProbePass, ProbeFail, TypeOK, CounterOK, WindowOK, counters, probeVars
  <2>3. ASSUME TypeOK, Elapse \/ WindowSlide PROVE TypeOK'
    <3>1. CASE Elapse
      BY <2>3, <3>1 DEF Elapse, TypeOK, CounterOK, WindowOK, counters, probeVars
    <3>2. CASE WindowSlide
      <4>1. WindowOK'
        BY <2>3, <3>2, BreakerAssumption DEF WindowSlide, TypeOK, WindowOK
      <4>2. QED BY <2>3, <3>2, <4>1 DEF WindowSlide, TypeOK, CounterOK, counters, probeVars
    <3>3. QED BY <2>3, <3>1, <3>2
  <2>4. QED BY <2>1, <2>2, <2>3, RequestType, SharedType DEF Next
<1>2. QED BY <1>1, InitType, PTL DEF Spec

------------------------------------------------------------------------------
(* The locks and the opening of the circuit.                               *)

LEMMA InitTripping == Init => Tripping
BY BreakerAssumption
DEF Init, Tripping, LocksHeld, TripPending, Idle, Actors

\* Only the record of actor a changes, and a neither was nor gets in a transition.
LEMMA QuietStep ==
    ASSUME TypeOK, Tripping, NEW a \in Actors, op[a].pc \notin {"transition", "settle"},
           \A b \in Actors : b # a => op'[b] = op[b],
           op'[a].pc # "settle", UNCHANGED <<state, mu, stateMu, failures>>
    PROVE  Tripping'
<1>1. mu # a /\ stateMu # a
  BY DEF Tripping, LocksHeld
<1>2. LocksHeld'
  BY <1>1 DEF Tripping, LocksHeld
<1>3. TripPending'
  BY <1>1 DEF Tripping, TripPending
<1>4. QED BY <1>2, <1>3 DEF Tripping

\* The steps of a request other than Reset touch neither lock nor the failure
\* count, and are not steps of a transition.
LEMMA RequestQuiet ==
    ASSUME TypeOK, NEW c \in Callers, Request(c), ~Reset(c)
    PROVE  /\ op[c].pc \notin {"transition", "settle"} /\ op'[c].pc # "settle"
           /\ \A b \in Actors : b # c => op'[b] = op[b]
           /\ UNCHANGED <<state, mu, stateMu, failures>>
           /\ ~MayForce => op'[c].pc # "transition"
<1>0. op \in [Actors -> Op] /\ c \in Actors /\ Entry \in {"attempt", "call"}
  BY DEF TypeOK, Actors, Entry
<1>1. CASE Execute(c)
  <2>1. state \notin {"settle", "transition"}
    BY DEF TypeOK, CircuitState
  <2>2. op'[c].pc = IF state = "closed" THEN Entry ELSE state
    BY <1>0, <1>1 DEF Execute, Idle
  <2>3. QED BY <1>0, <1>1, <2>1, <2>2 DEF Execute, counters
<1>2. CASE HalfCheck(c)
  <2>1. PICK p \in {"count", "idle"} : Goto(c, p)
    BY <1>2 DEF HalfCheck
  <2>2. QED BY <1>0, <1>2, <2>1, GotoFacts DEF HalfCheck, counters
<1>3. CASE HalfCount(c)
  BY <1>0, <1>3 DEF HalfCount, Goto, Idle
<1>4. CASE Attempt(c)
  <2>1. op[c] \in Op
    BY <1>0
  <2>2. CASE Goto(c, "call")
    BY <1>0, <1>4, <2>2, GotoFacts DEF Attempt, counters
  <2>3. CASE ~Goto(c, "call")
    BY <1>0, <1>4, <2>1, <2>3 DEF Attempt, counters, Op
  <2>4. QED BY <2>2, <2>3
<1>5. CASE CallOk(c)
  BY <1>0, <1>5 DEF CallOk, counters, Op
<1>6. CASE CallError(c)
  BY <1>0, <1>6 DEF CallError, counters, Op
<1>7. CASE Window(c)
  BY <1>0, <1>7 DEF Window, counters, Op
<1>8. CASE ForceTo(c)
  BY <1>0, <1>8 DEF ForceTo, Idle, counters
<1>9. QED BY <1>1, <1>2, <1>3, <1>4, <1>5, <1>6, <1>7, <1>8 DEF Request

LEMMA RequestTripping ==
    ASSUME TypeOK, Tripping, NEW c \in Callers, Request(c) PROVE Tripping'
<1>1. op \in [Actors -> Op] /\ c \in Actors
  BY DEF TypeOK, Actors
<1>2. CASE Reset(c)
  BY <1>1, <1>2, BreakerAssumption
  DEF Reset, Tripping, LocksHeld, TripPending, TypeOK
<1>3. CASE ~Reset(c)
  BY <1>1, <1>3, RequestQuiet, QuietStep
<1>4. QED BY <1>2, <1>3

LEMMA SharedTripping ==
    ASSUME TypeOK, Tripping, NEW a \in Actors, Shared(a) PROVE Tripping'
<1>0. op \in [Actors -> Op] /\ Entry # "settle" /\ op[a].next # "settle"
      /\ failures \in 0..ConsecutiveFailures /\ ConsecutiveFailures \in Nat \ {0}
      /\ Free \notin Actors
  BY BreakerAssumption DEF TypeOK, CounterOK, Entry, Op
<1>1. CASE CheckTimeout(a)
  <2>1. /\ op[a].pc \notin {"transition", "settle"} /\ op'[a].pc # "settle"
        /\ \A b \in Actors : b # a => op'[b] = op[b]
    BY <1>0, <1>1 DEF CheckTimeout, Goto, Idle, Op
  <2>2. QED BY <1>1, <2>1, QuietStep DEF CheckTimeout, counters
<1>2. CASE RecordSuccess(a)
  <2>1. /\ op'[a].pc # "settle" /\ (mu' = a => op'[a].pc = "transition")
        /\ \A b \in Actors : b # a => op'[b] = op[b]
    BY <1>0, <1>2 DEF RecordSuccess, Goto, Idle, Op
  <2>2. QED
    BY <1>0, <1>2, <2>1 DEF RecordSuccess, Tripping, LocksHeld, TripPending
<1>3. CASE RecordFailure(a)
  <2>1. /\ op'[a].pc # "settle"
        /\ mu' = a => op'[a].pc = "transition" /\ op'[a].goal = "open"
        /\ \A b \in Actors : b # a => op'[b] = op[b]
    BY <1>0, <1>3 DEF RecordFailure, Goto, Idle, Op
  <2>2. state = "closed" /\ failures' = ConsecutiveFailures => mu' = a
    BY <1>0, <1>3 DEF RecordFailure, ShouldOpen
  <2>3. QED
    BY <1>0, <1>3, <2>1, <2>2 DEF RecordFailure, Tripping, LocksHeld, TripPending
<1>4. CASE AlreadyThere(a)
  <2>1. op'[a].pc # "settle" /\ \A b \in Actors : b # a => op'[b] = op[b]
    BY <1>0, <1>4 DEF AlreadyThere, Goto, Idle, Op
  <2>2. QED
    BY <1>0, <1>4, <2>1 DEF AlreadyThere, Tripping, LocksHeld, TripPending, counters
<1>5. CASE Transition(a)
  <2>1. /\ op'[a].pc = "settle" /\ op'[a].goal = op[a].goal
        /\ \A b \in Actors : b # a => op'[b] = op[b]
    BY <1>0, <1>5 DEF Transition, Goto, Op
  <2>2. QED
    BY <1>0, <1>5, <2>1 DEF Transition, Tripping, LocksHeld, TripPending, counters
<1>6. CASE Settle(a)
  <2>1. op'[a].pc # "settle" /\ \A b \in Actors : b # a => op'[b] = op[b]
    BY <1>0, <1>6 DEF Settle, Goto, Idle, Op
  <2>2. LocksHeld'
    BY <1>0, <1>6, <2>1 DEF Settle, Tripping, LocksHeld
  <2>3. TripPending'
    BY <1>0, <1>6, <2>1 DEF Settle, Tripping, LocksHeld, TripPending
  <2>4. QED BY <2>2, <2>3 DEF Tripping
<1>7. QED BY <1>1, <1>2, <1>3, <1>4, <1>5, <1>6 DEF Shared, Record, Move

\* The inductive invariant.
THEOREM TrippingKept == Spec => []Tripping
<1>1. TypeOK /\ Tripping /\ [Next]_vars => Tripping'
  <2>1. CASE UNCHANGED vars
    BY <2>1 DEF vars, counters, Tripping, LocksHeld, TripPending
  <2>2. ASSUME TypeOK, Tripping, HealthCheck PROVE Tripping'
    <3>1. op \in [Actors -> Op] /\ Probe \in Actors
      BY <2>2 DEF TypeOK, Actors
    <3>2. CASE SetHealthCheck
      BY <2>2, <3>2 DEF SetHealthCheck, counters, Tripping, LocksHeld, TripPending
    <3>3. ASSUME ProbeStart \/ ProbeTick \/ ProbeExit \/ ProbePass \/ ProbeFail
          PROVE  /\ op[Probe].pc \notin {"transition", "settle"} /\ op'[Probe].pc # "settle"
                 /\ \A b \in Actors : b # Probe => op'[b] = op[b]
                 /\ UNCHANGED <<state, mu, stateMu, failures>>
      <4>1. CASE ProbeStart
        BY <3>1, <4>1 DEF ProbeStart, Goto, Idle, counters
      <4>2. CASE ProbeTick \/ ProbeExit \/ ProbePass
        BY <3>1, <4>2, GotoFacts DEF ProbeTick, ProbeExit, ProbePass, counters
      <4>3. CASE ProbeFail
        <5>1. CASE state = "closed"
          BY <3>1, <4>3, <5>1 DEF ProbeFail, Idle, counters
        <5>2. CASE state # "closed"
          BY <3>1, <4>3, <5>2, GotoFacts DEF ProbeFail, counters
        <5>3. QED BY <5>1, <5>2
      <4>4. QED BY <3>3, <4>1, <4>2, <4>3
    <3>4. QED BY <2>2, <3>1, <3>2, <3>3, QuietStep DEF HealthCheck
  <2>3. ASSUME Tripping, Close \/ Elapse \/ WindowSlide PROVE Tripping'
    BY <2>3 DEF Close, Elapse, WindowSlide, counters, Tripping, LocksHeld, TripPending
  <2>4. QED BY <2>1, <2>2, <2>3, RequestTripping, SharedTripping DEF Next
<1>2. QED BY <1>1, InitTripping, TypeCorrect, PTL DEF Spec

\* No interleaving swallows the failure that should have opened the circuit.
THEOREM ThresholdKept == Spec => []ThresholdTrips
<1>1. TypeOK /\ Tripping => ThresholdTrips
  BY BreakerAssumption DEF Tripping, TripPending, ThresholdTrips, TypeOK, CounterOK
<1>2. QED BY <1>1, TrippingKept, TypeCorrect, PTL

------------------------------------------------------------------------------
(* The closing of the circuit.                                             *)

\* The steps of a request and of the health check leave the state word and mu
\* alone and bring nobody to a transition.
LEMMA ClosingStep ==
    ASSUME TypeOK, LocksHeld, ClosingIsHalfOpen, NEW a \in Actors, ~MayForce,
           Shared(a)
    PROVE  ClosingIsHalfOpen'
<1>0. op \in [Actors -> Op] /\ op[a].next # "transition" /\ Entry # "transition"
      /\ Free \notin Actors
  BY BreakerAssumption DEF TypeOK, Op, Entry
<1>1. CASE CheckTimeout(a)
  BY <1>0, <1>1 DEF CheckTimeout, Goto, Idle, Op, ClosingIsHalfOpen
<1>2. CASE RecordSuccess(a)
  BY <1>0, <1>2 DEF RecordSuccess, Goto, Idle, Op, ClosingIsHalfOpen, LocksHeld
<1>3. CASE RecordFailure(a)
  BY <1>0, <1>3 DEF RecordFailure, Goto, Idle, Op, ClosingIsHalfOpen, LocksHeld
<1>4. CASE AlreadyThere(a)
  BY <1>0, <1>4 DEF AlreadyThere, Goto, Idle, Op, ClosingIsHalfOpen, LocksHeld
<1>5. CASE Transition(a)
  <2>1. op'[a].pc = "settle" /\ \A b \in Actors : b # a => op'[b] = op[b]
    BY <1>0, <1>5, GotoFacts DEF Transition
  <2>2. op[a].goal # "half" => mu = a
    BY <1>5 DEF Transition, ClosingIsHalfOpen
  <2>3. QED
    BY <1>5, <2>1, <2>2 DEF Transition, ClosingIsHalfOpen, TypeOK, Op, CircuitState
<1>6. CASE Settle(a)
  <2>1. op'[a].pc # "transition" /\ \A b \in Actors : b # a => op'[b] = op[b]
    BY <1>0, <1>6, GotoFacts DEF Settle
  <2>2. QED BY <1>6, <2>1 DEF Settle, ClosingIsHalfOpen
<1>7. QED BY <1>1, <1>2, <1>3, <1>4, <1>5, <1>6 DEF Shared, Record, Move

LEMMA ClosingQuiet ==
    ASSUME ClosingIsHalfOpen, NEW a \in Actors, op'[a].pc # "transition",
           \A b \in Actors : b # a => op'[b] = op[b], UNCHANGED <<state, mu>>
    PROVE  ClosingIsHalfOpen'
BY DEF ClosingIsHalfOpen

\* The inductive invariant, which holds as long as nobody forces the circuit.
THEOREM ClosingKept == ~MayForce => (Spec => []ClosingIsHalfOpen)
<1>0. SUFFICES ASSUME ~MayForce PROVE Spec => []ClosingIsHalfOpen
  OBVIOUS
<1>1. Init => ClosingIsHalfOpen
  BY DEF Init, ClosingIsHalfOpen, Idle
<1>2. TypeOK /\ Tripping /\ ClosingIsHalfOpen /\ [Next]_vars => ClosingIsHalfOpen'
  <2>0. SUFFICES ASSUME TypeOK, Tripping, ClosingIsHalfOpen, [Next]_vars
                 PROVE  ClosingIsHalfOpen'
    OBVIOUS
  <2>1. op \in [Actors -> Op] /\ Probe \in Actors /\ Callers \subseteq Actors
    BY <1>0, <2>0 DEF TypeOK, Actors
  <2>2. CASE UNCHANGED vars
    BY <1>0, <2>0, <2>2 DEF vars, ClosingIsHalfOpen
  <2>3. ASSUME NEW c \in Callers, Request(c) PROVE ClosingIsHalfOpen'
    <3>1. ~Reset(c)
      BY <1>0, <2>0 DEF Reset
    <3>2. QED BY <1>0, <2>0, <2>1, <2>3, <3>1, RequestQuiet, ClosingQuiet
  <2>4. ASSUME NEW a \in Actors, Shared(a) PROVE ClosingIsHalfOpen'
    BY <1>0, <2>0, <2>4, ClosingStep DEF Tripping
  <2>5. CASE SetHealthCheck \/ Close \/ Elapse \/ WindowSlide
    BY <1>0, <2>0, <2>5 DEF SetHealthCheck, Close, Elapse, WindowSlide, ClosingIsHalfOpen
  <2>6. CASE ProbeStart
    BY <1>0, <2>0, <2>1, <2>6, GotoFacts, ClosingQuiet DEF ProbeStart, Goto, Idle
  <2>7. CASE ProbeTick \/ ProbeExit
    BY <1>0, <2>0, <2>1, <2>7, GotoFacts, ClosingQuiet DEF ProbeTick, ProbeExit
  <2>8. CASE ProbePass
    <3>1. PICK p \in {"open", "idle"} : Goto(Probe, p)
      BY <2>8 DEF ProbePass
    <3>2. QED BY <1>0, <2>0, <2>1, <2>8, <3>1, GotoFacts, ClosingQuiet DEF ProbePass
  <2>9. CASE ProbeFail
    <3>1. op'[Probe].pc # "transition" /\ \A b \in Actors : b # Probe => op'[b] = op[b]
      <4>1. CASE state = "closed"
        BY <2>1, <2>9, <4>1 DEF ProbeFail, Idle
      <4>2. CASE state # "closed"
        BY <2>1, <2>9, <4>2, GotoFacts DEF ProbeFail
      <4>3. QED BY <4>1, <4>2
    <3>2. QED BY <1>0, <2>0, <2>1, <2>9, <3>1, ClosingQuiet DEF ProbeFail
  <2>10. QED
    BY <1>0, <2>0, <2>2, <2>3, <2>4, <2>5, <2>6, <2>7, <2>8, <2>9 DEF Next, HealthCheck
<1>3. QED BY <1>0, <1>1, <1>2, TypeCorrect, TrippingKept, PTL DEF Spec

\* As long as nobody forces it, an open circuit never closes directly.
THEOREM OpenNeverCloses == ~MayForce => (Spec => NeverClosesFromOpen)
<1>0. SUFFICES ASSUME ~MayForce PROVE Spec => NeverClosesFromOpen
  OBVIOUS
<1>1. TypeOK /\ ClosingIsHalfOpen /\ [Next]_vars => [state = "open" => state' # "closed"]_vars
  <2>0. SUFFICES ASSUME TypeOK, ClosingIsHalfOpen, [Next]_vars, state = "open"
                 PROVE  state' # "closed"
    OBVIOUS
  <2>1. CASE \E a \in Actors : Transition(a)
    BY <1>0, <2>0, <2>1 DEF Transition, ClosingIsHalfOpen
  <2>2. CASE ~\E a \in Actors : Transition(a)
    <3>1. state' = state
      BY <1>0, <2>0, <2>2
      DEF Next, vars, Request, Execute, HalfCheck, HalfCount, Attempt, CallOk, CallError,
          Window, ForceTo, Reset, Shared, CheckTimeout, Record, RecordSuccess,
          RecordFailure, Move, AlreadyThere, Settle, HealthCheck, SetHealthCheck,
          ProbeStart, ProbeTick, ProbeExit, ProbePass, ProbeFail, Close, Elapse, WindowSlide
    <3>2. QED BY <1>0, <2>0, <3>1
  <2>3. QED BY <2>1, <2>2
<1>2. QED BY <1>0, <1>1, TypeCorrect, ClosingKept, PTL DEF NeverClosesFromOpen, Spec

------------------------------------------------------------------------------
(* How many requests one half-open period lets through.                    *)

\* The callers that will be admitted without asking the counter again, ...
Coming == {c \in Callers :
    \/ op[c].pc = "open"
    \/ op[c].pc \in {"transition", "settle"} /\ op[c].goal = "half" /\ op[c].next # "idle"}

\* ... those that have compared it with the limit and not yet incremented it, ...
Checked == {c \in Callers : op[c].pc = "count"}

\* ... and what one round of check-then-increment lets through.
Round == SuccessThreshold + Cardinality(Callers) - 1

\* The inductive invariant.  Between the store of the half-open state and the
\* reset of the counter, every admission is on the counter of the last period;
\* once the counter is reset, one more round can pass.  A transition that has
\* stored the half-open state has that goal, unless Reset closed the circuit.
Admissions ==
    /\ op[Probe].next = "idle"
    /\ state = "half" => \A a \in Actors : stateMu = a => op[a].goal = "half"
    /\ admitted <= Overshoot
    /\ state = "half" /\ stateMu # Free =>
           /\ admitted <= halfOpen
           /\ admitted + Cardinality(Coming) + Cardinality(Checked) <= Round
    /\ state = "half" /\ stateMu = Free =>
           /\ admitted + Cardinality(Coming) <= Round + halfOpen
           /\ admitted + Cardinality(Coming) + Cardinality(Checked) <= 2 * Round

LEMMA DisjointCount ==
    ASSUME NEW S, NEW T, IsFiniteSet(S), IsFiniteSet(T), S \cap T = {}
    PROVE  Cardinality(S \cup T) = Cardinality(S) + Cardinality(T)
<1>1. Cardinality(S \cup T) = Cardinality(S) + Cardinality(T) - Cardinality(S \cap T)
  BY FS_Union
<1>2. Cardinality(S \cap T) = 0
  BY FS_EmptySet
<1>3. Cardinality(S) \in Nat /\ Cardinality(T) \in Nat
  BY FS_CardinalityType
<1>4. QED BY <1>1, <1>2, <1>3

LEMMA CallersCount ==
    /\ IsFiniteSet(Coming) /\ IsFiniteSet(Checked)
    /\ Cardinality(Coming) \in Nat /\ Cardinality(Checked) \in Nat
    /\ Cardinality(Coming) + Cardinality(Checked) <= Cardinality(Callers)
    /\ Cardinality(Callers) \in Nat /\ Round \in Nat /\ Overshoot = 2 * Round
<1>1. IsFiniteSet(Coming) /\ IsFiniteSet(Checked) /\ Coming \cap Checked = {}
      /\ Coming \cup Checked \subseteq Callers /\ IsFiniteSet(Callers)
  <2>1. Coming \subseteq Callers /\ Checked \subseteq Callers /\ Coming \cap Checked = {}
    BY DEF Coming, Checked
  <2>2. QED BY <2>1, FS_Subset, BreakerAssumption
<1>2. Cardinality(Coming \cup Checked) = Cardinality(Coming) + Cardinality(Checked)
  BY <1>1, DisjointCount
<1>3. /\ Cardinality(Coming) \in Nat /\ Cardinality(Checked) \in Nat
      /\ Cardinality(Callers) \in Nat
      /\ Cardinality(Coming \cup Checked) <= Cardinality(Callers)
  BY <1>1, FS_CardinalityType, FS_Subset
<1>4. Round \in Nat
  BY <1>3, BreakerAssumption DEF Round
<1>5. Overshoot = 2 * Round
  BY <1>3, BreakerAssumption DEF Overshoot, Round
<1>6. QED BY <1>1, <1>2, <1>3, <1>4, <1>5

\* A set that loses or gains at most one element.
LEMMA OneMoves ==
    ASSUME NEW S, NEW T, NEW a, IsFiniteSet(S), \A b : b # a => (b \in T <=> b \in S)
    PROVE  /\ (a \in T <=> a \in S) => T = S
           /\ a \in S /\ a \notin T => Cardinality(T) = Cardinality(S) - 1
           /\ a \notin S /\ a \in T => Cardinality(T) = Cardinality(S) + 1
           /\ (a \in T => a \in S) => Cardinality(T) <= Cardinality(S)
<1>0. Cardinality(S) \in Nat
  BY FS_CardinalityType
<1>1. (a \in T <=> a \in S) => T = S
  OBVIOUS
<1>2. ASSUME a \in S, a \notin T PROVE Cardinality(T) = Cardinality(S) - 1
  <2>1. T = S \ {a}
    BY <1>2
  <2>2. QED BY <1>2, <2>1, FS_RemoveElement
<1>3. ASSUME a \notin S, a \in T PROVE Cardinality(T) = Cardinality(S) + 1
  <2>1. T = S \cup {a}
    BY <1>3
  <2>2. QED BY <1>3, <2>1, FS_AddElement
<1>4. ASSUME a \in T => a \in S PROVE Cardinality(T) <= Cardinality(S)
  <2>1. CASE a \in S /\ a \notin T
    BY <1>0, <1>2, <2>1
  <2>2. CASE a \in T <=> a \in S
    BY <1>0, <1>1, <2>2
  <2>3. QED BY <1>4, <2>1, <2>2
<1>5. QED BY <1>1, <1>2, <1>3, <1>4

\* When only actor a moves, only a's membership may change.
LEMMA OneCallerMoves ==
    ASSUME NEW a \in Actors, \A b \in Actors : b # a => op'[b] = op[b]
    PROVE  /\ (a \in Coming' => a \in Coming) => Cardinality(Coming') <= Cardinality(Coming)
           /\ (a \in Checked' => a \in Checked) => Cardinality(Checked') <= Cardinality(Checked)
           /\ a \in Coming /\ a \notin Coming' => Cardinality(Coming') = Cardinality(Coming) - 1
           /\ a \in Checked /\ a \notin Checked' =>
                  Cardinality(Checked') = Cardinality(Checked) - 1
           /\ Cardinality(Coming') \in Nat /\ Cardinality(Checked') \in Nat
           /\ Cardinality(Coming') + Cardinality(Checked') <= Cardinality(Callers)
<1>1. \A b : b # a => (b \in Coming' <=> b \in Coming)
  BY DEF Coming, Actors
<1>2. \A b : b # a => (b \in Checked' <=> b \in Checked)
  BY DEF Checked, Actors
<1>3. IsFiniteSet(Coming') /\ IsFiniteSet(Checked')
  BY FS_Subset, BreakerAssumption DEF Coming, Checked
<1>4. /\ Cardinality(Coming') \in Nat /\ Cardinality(Checked') \in Nat
      /\ Cardinality(Coming') + Cardinality(Checked') <= Cardinality(Callers)
  <2>1. Coming' \subseteq Callers /\ Checked' \subseteq Callers /\ Coming' \cap Checked' = {}
    BY DEF Coming, Checked
  <2>2. /\ Cardinality(Coming' \cup Checked') = Cardinality(Coming') + Cardinality(Checked')
        /\ Cardinality(Coming' \cup Checked') <= Cardinality(Callers)
    <3>1. Coming' \cup Checked' \subseteq Callers
      BY <2>1
    <3>2. QED BY <1>3, <2>1, <3>1, DisjointCount, FS_Subset, BreakerAssumption
  <2>3. QED BY <1>3, <2>2, FS_CardinalityType
<1>5. QED BY <1>1, <1>2, <1>4, OneMoves, CallersCount

\* Nothing is admitted, and nobody gets nearer to an admission.
LEMMA AdmissionsFrame ==
    ASSUME Admissions, TypeOK, NEW a \in Actors, \A b \in Actors : b # a => op'[b] = op[b],
           stateMu = a => op'[a].goal = op[a].goal,
           a \in Coming' => a \in Coming, a \in Checked' => a \in Checked,
           op'[Probe].next = "idle", UNCHANGED <<state, stateMu, halfOpen, admitted>>
    PROVE  Admissions'
<1>1. /\ Cardinality(Coming') <= Cardinality(Coming)
      /\ Cardinality(Checked') <= Cardinality(Checked)
      /\ Cardinality(Coming') \in Nat /\ Cardinality(Checked') \in Nat
  BY OneCallerMoves
<1>2. halfOpen \in Nat /\ admitted \in Nat
  BY DEF TypeOK, CounterOK
<1>3. QED BY <1>1, <1>2, CallersCount DEF Admissions

LEMMA InitAdmissions == Init => Admissions
<1>1. Init => op[Probe].next = "idle"
  BY DEF Init, Actors, Idle
<1>2. QED BY <1>1, CallersCount DEF Init, Admissions

\* The steps of a caller outside the transitions: only HalfCount admits, and only
\* HalfCheck brings a caller nearer to it while the circuit is half-open.
LEMMA RequestAdmissions ==
    ASSUME TypeOK, Tripping, Admissions, NEW c \in Callers, Request(c)
    PROVE  Admissions'
<1>0. /\ op \in [Actors -> Op] /\ c \in Actors /\ c # Probe /\ Probe \in Actors
      /\ Entry \in {"attempt", "call"}
      /\ halfOpen \in Nat /\ admitted \in Nat /\ SuccessThreshold \in Nat \ {0}
  BY BreakerAssumption DEF TypeOK, CounterOK, Actors, Entry
<1>1. CASE Reset(c)
  BY <1>0, <1>1 DEF Reset, Admissions
<1>2. ASSUME ~Reset(c)
      PROVE  /\ \A b \in Actors : b # c => op'[b] = op[b]
             /\ stateMu # c /\ UNCHANGED <<state, stateMu>>
             /\ op'[Probe].next = "idle"
  <2>1. /\ op[c].pc # "settle" /\ \A b \in Actors : b # c => op'[b] = op[b]
        /\ UNCHANGED <<state, stateMu>>
    BY <1>2, RequestQuiet
  <2>2. QED BY <1>0, <2>1 DEF Tripping, LocksHeld, Admissions
<1>3. CASE Execute(c)
  <2>1. ~Reset(c) /\ UNCHANGED <<halfOpen, admitted>>
        /\ op'[c].pc = IF state = "closed" THEN Entry ELSE state
    <3>1. op'[c].pc = IF state = "closed" THEN Entry ELSE state
      BY <1>0, <1>3 DEF Execute, Idle
    <3>2. op'[c].pc # "idle" /\ op[c].pc = "idle"
      BY <1>0, <1>3, <3>1 DEF Execute, TypeOK, CircuitState
    <3>3. QED BY <1>3, <3>1, <3>2 DEF Execute, Reset, counters
  <2>2. CASE state = "half"
    <3>1. c \notin Coming' /\ c \notin Checked'
      BY <2>1, <2>2 DEF Coming, Checked
    <3>2. QED BY <1>0, <1>2, <2>1, <3>1, AdmissionsFrame
  <2>3. CASE state # "half"
    BY <1>2, <2>1, <2>3 DEF Admissions
  <2>4. QED BY <2>2, <2>3
<1>4. CASE HalfCheck(c)
  <2>1. PICK p \in {"count", "idle"} :
            Goto(c, p) /\ (p = "count" => halfOpen < SuccessThreshold)
    BY <1>4 DEF HalfCheck
  <2>2. /\ op'[c].pc = p /\ op[c].pc = "half" /\ ~Reset(c)
        /\ UNCHANGED <<state, stateMu, halfOpen, admitted>>
    BY <1>0, <1>4, <2>1, GotoFacts DEF HalfCheck, Reset, counters
  <2>3. c \notin Coming /\ c \notin Coming'
    BY <2>1, <2>2 DEF Coming
  <2>4. CASE p = "idle"
    <3>1. c \notin Checked'
      BY <2>2, <2>4 DEF Checked
    <3>2. QED BY <1>0, <1>2, <2>2, <2>3, <3>1, AdmissionsFrame
  <2>5. CASE p = "count"
    <3>1. /\ Cardinality(Coming') <= Cardinality(Coming)
          /\ Cardinality(Coming') \in Nat /\ Cardinality(Checked') \in Nat
          /\ Cardinality(Coming') + Cardinality(Checked') <= Cardinality(Callers)
      BY <1>0, <1>2, <2>2, <2>3, OneCallerMoves
    <3>2. halfOpen <= SuccessThreshold - 1
      BY <1>0, <2>1, <2>5
    <3>3. state = "half" /\ stateMu # Free =>
             /\ admitted <= halfOpen
             /\ admitted + Cardinality(Coming') + Cardinality(Checked') <= Round
      BY <1>0, <3>1, <3>2, CallersCount DEF Admissions, Round
    <3>4. state = "half" /\ stateMu = Free =>
             /\ admitted + Cardinality(Coming') <= Round + halfOpen
             /\ admitted + Cardinality(Coming') + Cardinality(Checked') <= 2 * Round
      <4>1. ASSUME state = "half", stateMu = Free
            PROVE  /\ admitted + Cardinality(Coming') <= Round + halfOpen
                   /\ admitted + Cardinality(Coming') + Cardinality(Checked') <= 2 * Round
        <5>1. admitted + Cardinality(Coming) <= Round + halfOpen
          BY <4>1 DEF Admissions
        <5>2. admitted + Cardinality(Coming') <= Round + halfOpen
          BY <1>0, <3>1, <5>1, CallersCount
        <5>3. /\ admitted + Cardinality(Coming') <= Round + SuccessThreshold - 1
              /\ Cardinality(Checked') <= Cardinality(Callers)
          BY <1>0, <3>1, <3>2, <5>2, CallersCount
        <5>4. QED BY <1>0, <3>1, <5>2, <5>3, CallersCount DEF Round
      <4>2. QED BY <4>1
    <3>5. /\ op'[Probe].next = "idle" /\ admitted <= Overshoot
          /\ state = "half" => \A a \in Actors : stateMu = a => op'[a].goal = "half"
      BY <1>2, <2>2 DEF Admissions
    <3>6. QED BY <2>2, <3>3, <3>4, <3>5 DEF Admissions
  <2>6. QED BY <2>1, <2>4, <2>5
<1>5. CASE HalfCount(c)
  <2>1. /\ op'[c].pc = Entry /\ op[c].pc = "count" /\ ~Reset(c)
        /\ halfOpen' = halfOpen + 1 /\ Admit /\ UNCHANGED <<state, stateMu>>
    BY <1>0, <1>5, GotoFacts DEF HalfCount, Reset
  <2>2. c \notin Coming /\ c \notin Coming' /\ c \in Checked /\ c \notin Checked'
    BY <1>0, <2>1 DEF Coming, Checked
  <2>3. /\ Cardinality(Coming') <= Cardinality(Coming)
        /\ Cardinality(Checked') = Cardinality(Checked) - 1
        /\ Cardinality(Coming') \in Nat /\ Cardinality(Checked') \in Nat
    BY <1>0, <1>2, <2>1, <2>2, OneCallerMoves
  <2>4. /\ admitted' \in Nat
        /\ state = "half" => admitted' <= admitted + 1
        /\ state # "half" => admitted' = admitted
    BY <1>0, <2>1, CallersCount DEF Admit, Capped
  <2>5. /\ state = "half" /\ stateMu # Free =>
             /\ admitted' <= halfOpen'
             /\ admitted' + Cardinality(Coming') + Cardinality(Checked') <= Round
        /\ state = "half" /\ stateMu = Free =>
             /\ admitted' + Cardinality(Coming') <= Round + halfOpen'
             /\ admitted' + Cardinality(Coming') + Cardinality(Checked') <= 2 * Round
    BY <1>0, <2>1, <2>3, <2>4, CallersCount DEF Admissions
  <2>6. admitted' <= Overshoot
    BY <1>0, <2>3, <2>4, <2>5, CallersCount DEF Admissions
  <2>7. /\ op'[Probe].next = "idle"
        /\ state = "half" => \A a \in Actors : stateMu = a => op'[a].goal = "half"
    BY <1>2, <2>1 DEF Admissions
  <2>8. QED BY <2>1, <2>5, <2>6, <2>7 DEF Admissions
<1>6. ASSUME Attempt(c) \/ CallOk(c) \/ CallError(c) \/ Window(c) \/ ForceTo(c)
      PROVE  Admissions'
  <2>1. /\ ~Reset(c) /\ UNCHANGED <<halfOpen, admitted>>
        /\ \/ op'[c].pc \in {"window", "call", "attempt", "record"}
           \/ op'[c].pc = "transition" /\ op'[c].next = "idle"
    <3>1. CASE Attempt(c)
      <4>1. PICK p \in {"window", "call"} : op'[c].pc = p
        BY <1>0, <3>1, GotoFacts DEF Attempt, Op
      <4>2. QED BY <3>1, <4>1 DEF Attempt, Reset, counters
    <3>2. CASE CallOk(c)
      BY <1>0, <3>2 DEF CallOk, Reset, counters, Op
    <3>3. CASE CallError(c)
      BY <1>0, <3>3 DEF CallError, Reset, counters, Op
    <3>4. CASE Window(c)
      BY <1>0, <3>4 DEF Window, Reset, counters, Op
    <3>5. CASE ForceTo(c)
      <4>1. op'[c].pc = "transition" /\ op'[c].next = "idle" /\ op[c].pc = "idle"
        BY <1>0, <3>5 DEF ForceTo, Idle
      <4>2. QED BY <3>5, <4>1 DEF ForceTo, Reset, counters
    <3>6. QED BY <1>6, <3>1, <3>2, <3>3, <3>4, <3>5
  <2>2. c \notin Coming' /\ c \notin Checked'
    BY <2>1 DEF Coming, Checked
  <2>3. QED BY <1>0, <1>2, <2>1, <2>2, AdmissionsFrame
<1>7. QED BY <1>1, <1>3, <1>4, <1>5, <1>6 DEF Request

\* The steps of the transitions, and the record methods that begin them.
LEMMA SharedAdmissions ==
    ASSUME TypeOK, Tripping, Admissions, NEW a \in Actors, Shared(a)
    PROVE  Admissions'
<1>0. /\ op \in [Actors -> Op] /\ Probe \in Actors /\ Probe \notin Callers
      /\ Free \notin Actors
      /\ op[a].next \in {"idle", "attempt", "call", "window"}
      /\ halfOpen \in Nat /\ admitted \in Nat /\ SuccessThreshold \in Nat \ {0}
  BY BreakerAssumption, NextType DEF TypeOK, CounterOK, Actors
<1>1. \A b \in Actors : b # a => op'[b] = op[b]
  BY <1>0, GotoFacts
  DEF Shared, CheckTimeout, Record, RecordSuccess, RecordFailure, Move, AlreadyThere,
      Transition, Settle
<1>2. op[Probe].next = "idle" /\ Idle.next = "idle"
  BY DEF Admissions, Idle
<1>3. ASSUME NEW p, Goto(a, p)
      PROVE  /\ op'[a].pc = p /\ op'[Probe].next = "idle"
             /\ p # "idle" => op'[a].goal = op[a].goal /\ op'[a].next = op[a].next
  BY <1>0, <1>1, <1>2, <1>3 DEF Goto, Idle, Op
<1>4. CASE CheckTimeout(a)
  <2>1. /\ op[a].pc = "open" /\ stateMu # a
        /\ UNCHANGED <<state, stateMu, halfOpen, admitted>>
    BY <1>4 DEF CheckTimeout, counters, Tripping, LocksHeld
  <2>2. op'[Probe].next = "idle" /\ op'[a].pc \in {"idle", "transition"}
    <3>1. CASE expired
      BY <1>0, <1>1, <1>2, <1>4, <3>1 DEF CheckTimeout, Op
    <3>2. CASE ~expired
      BY <1>3, <1>4, <3>2 DEF CheckTimeout
    <3>3. QED BY <3>1, <3>2
  <2>3. (a \in Coming' => a \in Coming) /\ a \notin Checked'
    BY <2>1, <2>2 DEF Coming, Checked
  <2>4. QED BY <1>1, <2>1, <2>2, <2>3, AdmissionsFrame
<1>5. CASE Record(a)
  <2>1. /\ op[a].pc = "record" /\ stateMu # a
        /\ UNCHANGED <<state, stateMu, halfOpen, admitted>>
    BY <1>5 DEF Record, RecordSuccess, RecordFailure, Tripping, LocksHeld
  <2>2. /\ op'[Probe].next = "idle"
        /\ \/ op'[a].pc \in {"idle", "attempt", "call", "window"}
           \/ op'[a].pc = "transition" /\ op'[a].goal # "half"
    <3>1. CASE Goto(a, op[a].next)
      BY <1>0, <1>3, <3>1
    <3>2. CASE ~Goto(a, op[a].next)
      <4>1. PICK g \in {"closed", "open"} :
                op' = [op EXCEPT ![a].pc = "transition", ![a].goal = g]
        BY <1>5, <3>2 DEF Record, RecordSuccess, RecordFailure
      <4>2. QED BY <1>0, <1>1, <1>2, <4>1 DEF Op
    <3>3. QED BY <3>1, <3>2
  <2>3. a \notin Coming' /\ a \notin Checked'
    BY <2>2 DEF Coming, Checked
  <2>4. QED BY <1>1, <2>1, <2>2, <2>3, AdmissionsFrame
<1>6. CASE AlreadyThere(a)
  <2>1. /\ op[a].pc = "transition" /\ stateMu = Free /\ state = op[a].goal
        /\ UNCHANGED <<state, stateMu, halfOpen>> /\ Goto(a, op[a].next)
    BY <1>6 DEF AlreadyThere, counters
  <2>2. op'[Probe].next = "idle" /\ op'[a].pc = op[a].next
    BY <1>3, <2>1
  <2>3. a \notin Coming' /\ a \notin Checked'
    BY <1>0, <2>2 DEF Coming, Checked
  <2>4. /\ Cardinality(Coming') <= Cardinality(Coming)
        /\ Cardinality(Checked') <= Cardinality(Checked)
        /\ Cardinality(Coming') \in Nat /\ Cardinality(Checked') \in Nat
        /\ a \in Coming => Cardinality(Coming') = Cardinality(Coming) - 1
    BY <1>1, <2>3, OneCallerMoves
  <2>5. CASE state = "half" /\ op[a].next # "idle"
    <3>1. a \in Coming
      BY <1>0, <1>2, <2>1, <2>5 DEF Coming, Actors
    <3>2. admitted' \in Nat /\ admitted' <= admitted + 1
      BY <1>0, <1>6, <2>5, CallersCount DEF AlreadyThere, Admit, Capped
    <3>3. /\ admitted' + Cardinality(Coming') <= Round + halfOpen
          /\ admitted' + Cardinality(Coming') + Cardinality(Checked') <= 2 * Round
      BY <1>0, <2>1, <2>4, <2>5, <3>1, <3>2, CallersCount DEF Admissions
    <3>4. admitted' <= Overshoot
      BY <2>4, <3>2, <3>3, CallersCount
    <3>5. QED BY <1>0, <2>1, <2>2, <3>3, <3>4 DEF Admissions
  <2>6. CASE ~(state = "half" /\ op[a].next # "idle")
    <3>1. admitted' = admitted
      BY <1>6, <2>6 DEF AlreadyThere
    <3>2. QED BY <1>0, <1>1, <2>1, <2>2, <2>3, <3>1, AdmissionsFrame
  <2>7. QED BY <2>5, <2>6
<1>7. CASE Transition(a)
  <2>1. /\ op[a].pc = "transition" /\ stateMu = Free /\ state # op[a].goal
        /\ state' = op[a].goal /\ stateMu' = a /\ halfOpen' = halfOpen
        /\ admitted' = (IF op[a].goal = "half" THEN 0 ELSE admitted)
        /\ Goto(a, "settle")
    BY <1>7 DEF Transition, counters
  <2>2. /\ op'[Probe].next = "idle" /\ op'[a].pc = "settle"
        /\ op'[a].goal = op[a].goal /\ op'[a].next = op[a].next
    BY <1>3, <2>1
  <2>3. admitted' <= Overshoot
    BY <1>0, <2>1, CallersCount DEF Admissions
  <2>4. CASE op[a].goal = "half"
    <3>1. /\ Cardinality(Coming') \in Nat /\ Cardinality(Checked') \in Nat
          /\ Cardinality(Coming') + Cardinality(Checked') <= Cardinality(Callers)
      BY <1>1, OneCallerMoves
    <3>2. Cardinality(Coming') + Cardinality(Checked') <= Round
      BY <1>0, <3>1, CallersCount DEF Round
    <3>3. QED BY <1>0, <2>1, <2>2, <2>3, <2>4, <3>1, <3>2 DEF Admissions
  <2>5. CASE op[a].goal # "half"
    BY <2>1, <2>2, <2>3, <2>5 DEF Admissions
  <2>6. QED BY <2>4, <2>5
<1>8. CASE Settle(a)
  <2>1. /\ op[a].pc = "settle" /\ stateMu = a /\ stateMu' = Free /\ state' = state
        /\ Goto(a, op[a].next)
    BY <1>8 DEF Settle, Tripping, LocksHeld
  <2>2. op'[Probe].next = "idle" /\ op'[a].pc = op[a].next
    BY <1>3, <2>1
  <2>3. a \notin Coming' /\ a \notin Checked'
    BY <1>0, <2>2 DEF Coming, Checked
  <2>4. /\ Cardinality(Coming') <= Cardinality(Coming)
        /\ Cardinality(Checked') <= Cardinality(Checked)
        /\ Cardinality(Coming') \in Nat /\ Cardinality(Checked') \in Nat
        /\ a \in Coming => Cardinality(Coming') = Cardinality(Coming) - 1
    BY <1>1, <2>3, OneCallerMoves
  <2>5. CASE state = "half"
    <3>1. op[a].goal = "half" /\ halfOpen' = 0
      BY <1>8, <2>1, <2>5 DEF Settle, Admissions
    <3>2. admitted + Cardinality(Coming) + Cardinality(Checked) <= Round
      BY <1>0, <2>1, <2>5 DEF Admissions
    <3>3. admitted' \in Nat /\ admitted' + Cardinality(Coming') <= admitted + Cardinality(Coming)
      <4>1. CASE op[a].next # "idle"
        <5>1. a \in Coming
          BY <1>0, <1>2, <2>1, <3>1, <4>1 DEF Coming, Actors
        <5>2. admitted' \in Nat /\ admitted' <= admitted + 1
          BY <1>0, <1>8, <2>5, <3>1, <4>1, CallersCount DEF Settle, Admit, Capped
        <5>3. QED BY <1>0, <2>4, <5>1, <5>2, CallersCount
      <4>2. CASE op[a].next = "idle"
        BY <1>0, <1>8, <2>4, <4>2, CallersCount DEF Settle
      <4>3. QED BY <4>1, <4>2
    <3>4. /\ admitted' + Cardinality(Coming') <= Round
          /\ admitted' + Cardinality(Coming') + Cardinality(Checked') <= Round
      BY <1>0, <2>4, <3>2, <3>3, CallersCount
    <3>5. admitted' <= Overshoot
      BY <2>4, <3>3, <3>4, CallersCount
    <3>6. QED BY <1>0, <2>1, <2>2, <2>4, <3>1, <3>3, <3>4, <3>5, CallersCount DEF Admissions
  <2>6. CASE state # "half"
    <3>1. admitted' = admitted
      BY <1>8, <2>6 DEF Settle, Admit
    <3>2. QED BY <2>1, <2>2, <2>6, <3>1 DEF Admissions
  <2>7. QED BY <2>5, <2>6
<1>9. QED BY <1>4, <1>5, <1>6, <1>7, <1>8 DEF Shared, Move

\* The health check takes part in a transition and is never a request.
LEMMA HealthAdmissions ==
    ASSUME TypeOK, Tripping, Admissions, HealthCheck PROVE Admissions'
<1>0. /\ op \in [Actors -> Op] /\ Probe \in Actors /\ Probe \notin Callers
      /\ op[Probe].next = "idle" /\ Idle.next = "idle"
  BY BreakerAssumption DEF TypeOK, Actors, Admissions, Idle
<1>1. CASE SetHealthCheck
  BY <1>1 DEF SetHealthCheck, counters, Admissions, Coming, Checked
<1>2. ASSUME ProbeStart \/ ProbeTick \/ ProbeExit \/ ProbePass \/ ProbeFail
      PROVE  Admissions'
  <2>1. /\ \A b \in Actors : b # Probe => op'[b] = op[b]
        /\ op'[Probe].next = "idle" /\ op[Probe].pc # "settle"
        /\ UNCHANGED <<state, stateMu, halfOpen, admitted>>
    <3>1. ASSUME NEW p, Goto(Probe, p)
          PROVE  /\ op'[Probe].next = "idle"
                 /\ \A b \in Actors : b # Probe => op'[b] = op[b]
      BY <1>0, <3>1 DEF Goto, Idle, Op
    <3>2. CASE ProbeStart \/ ProbeTick \/ ProbeExit \/ ProbePass
      BY <3>1, <3>2 DEF ProbeStart, ProbeTick, ProbeExit, ProbePass, counters
    <3>3. CASE ProbeFail
      <4>1. op[Probe].pc = "check" /\ UNCHANGED <<state, stateMu, halfOpen, admitted>>
        BY <3>3 DEF ProbeFail, counters
      <4>2. CASE Goto(Probe, "idle")
        BY <3>1, <4>1, <4>2
      <4>3. CASE op' = [op EXCEPT ![Probe] = [Idle EXCEPT !.pc = "record", !.ok = FALSE]]
        BY <1>0, <4>1, <4>3 DEF Idle
      <4>4. QED BY <3>3, <4>2, <4>3 DEF ProbeFail
    <3>4. QED BY <1>2, <3>2, <3>3
  <2>2. Probe \notin Coming' /\ Probe \notin Checked' /\ stateMu # Probe
    BY <1>0, <2>1 DEF Coming, Checked, Tripping, LocksHeld
  <2>3. QED BY <1>0, <2>1, <2>2, AdmissionsFrame
<1>3. QED BY <1>1, <1>2 DEF HealthCheck

\* The inductive invariant.
THEOREM AdmissionsKept == Spec => []Admissions
<1>1. TypeOK /\ Tripping /\ Admissions /\ [Next]_vars => Admissions'
  <2>1. CASE UNCHANGED vars
    BY <2>1 DEF vars, counters, Admissions, Coming, Checked
  <2>2. ASSUME Admissions, Close \/ Elapse \/ WindowSlide PROVE Admissions'
    BY <2>2 DEF Close, Elapse, WindowSlide, counters, Admissions, Coming, Checked
  <2>3. QED
    BY <2>1, <2>2, RequestAdmissions, SharedAdmissions, HealthAdmissions DEF Next
<1>2. QED BY <1>1, InitAdmissions, TypeCorrect, TrippingKept, PTL DEF Spec

\* However the callers, the health check and the Force methods interleave, one
\* half-open period lets through at most two rounds of check-then-increment.
THEOREM OvershootKept == Spec => []OvershootBounded
<1>1. Admissions => OvershootBounded
  BY DEF Admissions, OvershootBounded
<1>2. QED BY <1>1, AdmissionsKept, PTL

------------------------------------------------------------------------------
(* What RequestsReturn rests on, fairness aside: the goroutines never wait  *)
(* for each other in a circle, and a request makes finitely many steps.     *)

\* The guards of the steps of a goroutine that has begun something; only the
\* bound WindowMax, which expiring buckets undo, holds up a caller at "window".
CanGoOn(a) ==
    \/ a \in Callers /\ op[a].pc \in {"half", "count", "attempt", "call", "window"}
    \/ a = Probe /\ op[a].pc \in {"spawn", "check"}
    \/ op[a].pc \in {"open", "record"} /\ mu = Free
    \/ op[a].pc = "transition" /\ stateMu = Free
    \/ op[a].pc = "settle"

\* The holder of stateMu waits for nobody, that of mu for the holder of stateMu
\* at most, and every other goroutine for one of the two.
LocksInOrder ==
    /\ stateMu # Free => CanGoOn(stateMu)
    /\ mu # Free => CanGoOn(mu) \/ stateMu # Free
    /\ \A a \in Actors :
         op[a].pc \notin {"idle", "gone"} =>
           CanGoOn(a) \/ \E b \in {mu, stateMu} : b # Free /\ CanGoOn(b)

\* The steps a request has left, counted from above: a retry costs an attempt
\* and takes the caller back by less than five steps.
PcSteps(pc) ==
    CASE pc = "window" -> 4  [] pc = "call" -> 8  [] pc = "attempt" -> 9
      [] pc = "count"  -> 10 [] pc = "half" -> 11 [] pc = "open"    -> 12 [] OTHER -> 0
RequestSteps(o) ==
    5 * o.left + (CASE o.pc = "record"     -> 3 + PcSteps(o.next)
                    [] o.pc = "transition" -> 2 + PcSteps(o.next)
                    [] o.pc = "settle"     -> 1 + PcSteps(o.next)
                    [] OTHER -> PcSteps(o.pc))

\* What a caller in the middle of something has: an attempt left, as long as an
\* attempt may follow.
CallerReady(o) ==
    /\ o.pc \notin {"spawn", "check", "gone"}
    /\ o.left \in 0..MaxAttempts
    /\ \/ o.pc \in {"open", "half", "count", "attempt", "call"}
       \/ o.pc \in {"record", "transition", "settle"} /\ o.next \in {"attempt", "call"}
       => o.left >= 1

\* The health check uses the record methods and the transitions and nothing else
\* of a request.
ProbeReady(o) ==
    /\ o.pc \in {"idle", "spawn", "gone", "check", "open", "record", "transition", "settle"}
    /\ o.next = "idle"

Ready == (\A c \in Callers : CallerReady(op[c])) /\ ProbeReady(op[Probe])

\* One step of its own takes a caller from o to n.
Passes(o, n) ==
    \/ n = Idle
    \/ /\ n.left = o.left
       /\ \/ o.pc = "open"    /\ n.pc = "transition" /\ n.next = Entry
          \/ o.pc = "half"    /\ n.pc = "count"
          \/ o.pc = "count"   /\ n.pc = Entry
          \/ o.pc = "attempt" /\ n.pc \in {"call", "window"}
          \/ o.pc = "call"    /\ n.pc = "record" /\ n.next = "window"
          \/ o.pc = "call"    /\ n.pc = "window"
          \/ o.pc = "window"  /\ n.pc = "record" /\ n.next = "idle"
          \/ o.pc = "record"     /\ n.pc = "transition" /\ n.next = o.next
          \/ o.pc = "transition" /\ n.pc = "settle"     /\ n.next = o.next
          \/ o.pc \in {"record", "transition", "settle"} /\ n.pc = o.next /\ o.next # "idle"
    \/ /\ n.left = o.left - 1 /\ o.pc = "call"
       /\ \/ n.pc = "window"
          \/ n.pc = "record" /\ n.next = "window"
          \/ o.left > 1 /\ n.pc = "call"
          \/ o.left > 1 /\ n.pc = "record" /\ n.next \in {"attempt", "call"}

LEMMA PcType == \A p : PcSteps(p) \in Nat /\ PcSteps(p) <= 12
BY DEF PcSteps

LEMMA RequestStepsType ==
    ASSUME NEW o \in Op, CallerReady(o)
    PROVE  RequestSteps(o) \in 0..(5 * MaxAttempts + 12)
<1>1. o.left \in Nat /\ o.left <= MaxAttempts /\ MaxAttempts \in Nat
  BY BreakerAssumption DEF CallerReady
<1>2. PcSteps(o.next) \in Nat /\ PcSteps(o.next) <= 9
  BY DEF Op, PcSteps
<1>3. QED BY <1>1, <1>2, PcType DEF RequestSteps

\* Every step of a request but its first uses up one of RequestSteps.
LEMMA PassesLess ==
    ASSUME NEW o \in Op, NEW n \in Op, CallerReady(o), o.pc # "idle", Passes(o, n)
    PROVE  CallerReady(n) /\ RequestSteps(n) < RequestSteps(o)
<1>0. /\ o.left \in Nat /\ o.left <= MaxAttempts /\ MaxAttempts \in Nat /\ n.left \in Int
      /\ o.next \in {"idle", "attempt", "call", "window"} /\ Entry \in {"attempt", "call"}
      /\ o.pc \in {"open", "half", "count", "attempt", "call", "window", "record", "transition",
                   "settle"}
  BY BreakerAssumption, EntryType DEF CallerReady, Op
<1>1. CASE n = Idle
  <2>1. RequestSteps(n) = 0
    BY <1>1 DEF Idle, RequestSteps, PcSteps
  <2>2. RequestSteps(o) > 0
    BY <1>0 DEF RequestSteps, PcSteps
  <2>3. CallerReady(n)
    BY <1>0, <1>1 DEF Idle, CallerReady
  <2>4. QED BY <2>1, <2>2, <2>3
<1>2. CASE n.left = o.left /\ n # Idle
  <2>1. CASE o.pc \in {"open", "half", "count", "attempt", "call", "window"}
    BY <1>0, <1>2, <2>1 DEF Passes, CallerReady, RequestSteps, PcSteps
  <2>2. CASE o.pc \in {"record", "transition", "settle"}
    BY <1>0, <1>2, <2>2 DEF Passes, CallerReady, RequestSteps, PcSteps
  <2>3. QED BY <1>0, <2>1, <2>2
<1>3. CASE n.left = o.left - 1 /\ o.pc = "call" /\ n # Idle
  BY <1>0, <1>3 DEF Passes, CallerReady, RequestSteps, PcSteps
<1>4. QED BY <1>1, <1>2, <1>3 DEF Passes

LEMMA GotoIs ==
    ASSUME op \in [Actors -> Op], NEW a \in Actors, NEW p, Goto(a, p)
    PROVE  /\ p = "idle" => op'[a] = Idle
           /\ p # "idle" => /\ op'[a] = [op[a] EXCEPT !.pc = p]
                            /\ op'[a].left = op[a].left /\ op'[a].next = op[a].next
<1>1. CASE p = "idle"
  BY <1>1 DEF Goto
<1>2. CASE p # "idle"
  <2>1. op'[a] = [op[a] EXCEPT !.pc = p]
    BY <1>2 DEF Goto
  <2>2. op[a] \in Op
    OBVIOUS
  <2>3. QED BY <1>2, <2>1, <2>2 DEF Op
<1>3. QED BY <1>1, <1>2

LEMMA IdleReady == Idle.pc = "idle" /\ Idle.next = "idle"
BY DEF Idle

\* The steps of a caller are those of Passes once it has begun.
LEMMA SharedPasses ==
    ASSUME TypeOK, NEW a \in Actors, Shared(a)
    PROVE  /\ \A b \in Actors : b # a => op'[b] = op[b]
           /\ a \in Callers => op[a].pc # "idle" /\ Passes(op[a], op'[a])
           /\ a = Probe /\ ProbeReady(op[a]) => ProbeReady(op'[a])
<1>0. /\ op \in [Actors -> Op] /\ op[a] \in Op /\ Entry \in {"attempt", "call"}
      /\ Probe \notin Callers
  BY EntryType, BreakerAssumption DEF TypeOK
<1>1. CASE CheckTimeout(a)
  <2>1. CASE expired
    BY <1>0, <1>1, <2>1 DEF CheckTimeout, Passes, ProbeReady, Op
  <2>2. CASE ~expired
    <3>1. op[a].pc = "open" /\ Goto(a, "idle")
      BY <1>1, <2>2 DEF CheckTimeout
    <3>2. op'[a] = Idle
      BY <1>0, <3>1, GotoIs
    <3>3. QED BY <1>0, <3>1, <3>2, GotoFacts, IdleReady DEF Passes, ProbeReady
  <2>3. QED BY <2>1, <2>2
<1>2. ASSUME op[a].pc \in {"record", "transition", "settle"}, Goto(a, op[a].next) PROVE
        /\ \A b \in Actors : b # a => op'[b] = op[b]
        /\ op[a].pc # "idle" /\ Passes(op[a], op'[a])
        /\ ProbeReady(op[a]) => ProbeReady(op'[a])
  <2>1. CASE op[a].next = "idle"
    <3>1. op'[a] = Idle
      BY <1>0, <1>2, <2>1, GotoIs
    <3>2. QED BY <1>0, <1>2, <2>1, <3>1, GotoFacts, IdleReady DEF Passes, ProbeReady
  <2>2. CASE op[a].next # "idle"
    <3>1. op'[a] = [op[a] EXCEPT !.pc = op[a].next]
      BY <1>0, <1>2, <2>2, GotoIs
    <3>2. op'[a].pc = op[a].next /\ op'[a].left = op[a].left
      BY <1>0, <3>1 DEF Op
    <3>3. QED BY <1>0, <1>2, <2>2, <3>2, GotoFacts DEF Passes, ProbeReady
  <2>3. QED BY <2>1, <2>2
<1>3. CASE Record(a)
  <2>1. CASE Goto(a, op[a].next)
    BY <1>2, <1>3, <2>1 DEF Record, RecordSuccess, RecordFailure
  <2>2. CASE ~Goto(a, op[a].next)
    BY <1>0, <1>3, <2>2
    DEF Record, RecordSuccess, RecordFailure, Passes, ProbeReady, Op
  <2>3. QED BY <2>1, <2>2
<1>4. CASE AlreadyThere(a) \/ Settle(a)
  BY <1>2, <1>4 DEF AlreadyThere, Settle
<1>5. CASE Transition(a)
  <2>1. op'[a] = [op[a] EXCEPT !.pc = "settle"]
    BY <1>0, <1>5, GotoIs DEF Transition
  <2>2. op'[a].pc = "settle" /\ op'[a].left = op[a].left /\ op'[a].next = op[a].next
    BY <1>0, <2>1 DEF Op
  <2>3. QED BY <1>0, <1>5, <2>2, GotoFacts DEF Transition, Passes, ProbeReady
<1>6. QED BY <1>1, <1>3, <1>4, <1>5 DEF Shared, Move

LEMMA RequestPasses ==
    ASSUME TypeOK, NEW c \in Callers, Request(c)
    PROVE  /\ \A b \in Actors : b # c => op'[b] = op[b]
           /\ op[c].pc # "idle" => Passes(op[c], op'[c])
           /\ op[c].pc = "idle" /\ CallerReady(op[c]) => CallerReady(op'[c])
<1>0. /\ op \in [Actors -> Op] /\ c \in Actors /\ op[c] \in Op /\ Entry \in {"attempt", "call"}
      /\ MaxAttempts \in Nat \ {0}
  BY EntryType, BreakerAssumption DEF TypeOK, Actors
<1>1. CASE Execute(c)
  <2>1. PICK p \in {"attempt", "call", "open", "half"} :
            op' = [op EXCEPT ![c] = [Idle EXCEPT !.pc = p, !.left = MaxAttempts]]
    BY <1>0, <1>1 DEF Execute, TypeOK, CircuitState
  <2>2. op'[c].pc = p /\ op'[c].left = MaxAttempts /\ op'[c].next = "idle"
    BY <1>0, <2>1 DEF Idle
  <2>3. QED BY <1>0, <1>1, <2>1, <2>2 DEF Execute, CallerReady
<1>2. CASE HalfCheck(c)
  <2>1. CASE Goto(c, "count")
    <3>1. op'[c].pc = "count" /\ op'[c].left = op[c].left
      BY <1>0, <2>1, GotoIs, GotoFacts
    <3>2. QED BY <1>0, <1>2, <2>1, <3>1, GotoFacts DEF HalfCheck, Passes
  <2>2. CASE Goto(c, "idle")
    BY <1>0, <1>2, <2>2, GotoIs, GotoFacts DEF HalfCheck, Passes
  <2>3. QED BY <1>2, <2>1, <2>2 DEF HalfCheck
<1>3. CASE HalfCount(c)
  <2>1. op'[c].pc = Entry /\ op'[c].left = op[c].left
    BY <1>0, <1>3, GotoIs, GotoFacts DEF HalfCount
  <2>2. QED BY <1>0, <1>3, <2>1, GotoFacts DEF HalfCount, Passes
<1>4. CASE Attempt(c)
  <2>1. CASE Goto(c, "call")
    <3>1. op'[c].pc = "call" /\ op'[c].left = op[c].left
      BY <1>0, <2>1, GotoIs, GotoFacts
    <3>2. QED BY <1>0, <1>4, <2>1, <3>1, GotoFacts DEF Attempt, Passes
  <2>2. CASE ~Goto(c, "call")
    BY <1>0, <1>4, <2>2 DEF Attempt, Passes, Op
  <2>3. QED BY <2>1, <2>2
<1>5. CASE CallOk(c)
  BY <1>0, <1>5 DEF CallOk, Passes, Op
<1>6. CASE CallError(c)
  <2>1. PICK next \in {"window"} \cup (IF op[c].left > 1 THEN {Entry} ELSE {}) :
          op' = [op EXCEPT ![c].pc = IF Nested THEN "record" ELSE next,
                           ![c].ok = FALSE, ![c].next = next, ![c].left = @ - 1]
    BY <1>6 DEF CallError
  <2>2. /\ op'[c].pc = (IF Nested THEN "record" ELSE next)
        /\ op'[c].next = next /\ op'[c].left = op[c].left - 1
        /\ \A b \in Actors : b # c => op'[b] = op[b]
    BY <1>0, <2>1 DEF Op
  <2>3. op[c].pc = "call" /\ (next = "window" \/ (next = Entry /\ op[c].left > 1))
    BY <1>6, <2>1 DEF CallError
  <2>4. Nested \/ next = "window" \/ next = "call"
    BY <2>3 DEF Entry
  <2>5. QED BY <1>0, <2>2, <2>3, <2>4 DEF Passes
<1>7. CASE Window(c)
  BY <1>0, <1>7 DEF Window, Passes, Op
<1>8. CASE ForceTo(c)
  BY <1>0, <1>8 DEF ForceTo, Idle, CallerReady
<1>9. CASE Reset(c)
  BY <1>0, <1>9 DEF Reset
<1>10. QED BY <1>1, <1>2, <1>3, <1>4, <1>5, <1>6, <1>7, <1>8, <1>9 DEF Request

LEMMA HealthPasses ==
    ASSUME TypeOK, HealthCheck \/ Close \/ Elapse \/ WindowSlide \/ UNCHANGED vars
    PROVE  /\ \A c \in Callers : op'[c] = op[c]
           /\ ProbeReady(op[Probe]) => ProbeReady(op'[Probe])
<1>0. /\ op \in [Actors -> Op] /\ Probe \in Actors /\ op[Probe] \in Op /\ Callers \subseteq Actors
      /\ Probe \notin Callers
  BY BreakerAssumption DEF TypeOK, Actors
<1>1. CASE ProbeStart \/ ProbeTick \/ ProbeExit \/ ProbePass
  <2>1. PICK p \in {"idle", "gone", "check", "open"} : Goto(Probe, p)
    BY <1>1 DEF ProbeStart, ProbeTick, ProbeExit, ProbePass
  <2>2. op'[Probe].pc = p /\ op'[Probe].next \in {"idle", op[Probe].next}
    BY <1>0, <2>1, GotoIs, GotoFacts, IdleReady
  <2>3. QED BY <1>0, <2>1, <2>2, GotoFacts DEF ProbeReady
<1>2. CASE ProbeFail
  <2>1. CASE Goto(Probe, "idle")
    <3>1. op'[Probe] = Idle
      BY <1>0, <2>1, GotoIs
    <3>2. QED BY <1>0, <2>1, <3>1, GotoFacts DEF ProbeReady, Idle
  <2>2. CASE ~Goto(Probe, "idle")
    BY <1>0, <1>2, <2>2 DEF ProbeFail, ProbeReady, Idle
  <2>3. QED BY <2>1, <2>2
<1>3. CASE SetHealthCheck \/ Close \/ Elapse \/ WindowSlide \/ UNCHANGED vars
  BY <1>3 DEF SetHealthCheck, Close, Elapse, WindowSlide, vars
<1>4. QED BY <1>1, <1>2, <1>3 DEF HealthCheck

\* The ready states are inductive: Init, and one step for each kind of actor.
LEMMA ReadyInit == Init => Ready
<1>1. ASSUME Init PROVE Ready
  <2>1. Probe \in Actors /\ Probe \notin Callers /\ Callers \subseteq Actors
    BY BreakerAssumption DEF Actors
  <2>2. \A c \in Callers : op[c] = Idle
    BY <1>1, <2>1 DEF Init
  <2>3. CallerReady(Idle)
    BY BreakerAssumption DEF Idle, CallerReady
  <2>4. ProbeReady(op[Probe])
    BY <1>1, <2>1 DEF Init, Idle, ProbeReady
  <2>5. QED BY <2>2, <2>3, <2>4 DEF Ready
<1>2. QED BY <1>1

\* A goroutine that takes a step changes its own record only, and a caller in
\* the middle of something gets closer to the end of it.
LEMMA ReadyStep ==
    ASSUME TypeOK, TypeOK', Ready, [Next]_vars
    PROVE  /\ Ready'
           /\ \A c \in Callers :
                op[c].pc # "idle" =>
                  op'[c] = op[c] \/ RequestSteps(op'[c]) < RequestSteps(op[c])
<1>1. /\ \A a \in Actors : op[a] \in Op /\ op'[a] \in Op
      /\ Probe \in Actors /\ Probe \notin Callers /\ Callers \subseteq Actors
  BY BreakerAssumption DEF TypeOK, Actors
<1>2. ASSUME NEW c \in Callers, Request(c) PROVE
        /\ Ready'
        /\ \A d \in Callers :
             op[d].pc # "idle" =>
               op'[d] = op[d] \/ RequestSteps(op'[d]) < RequestSteps(op[d])
  <2>1. \A b \in Actors : b # c => op'[b] = op[b]
    BY <1>1, <1>2, RequestPasses
  <2>2. CASE op[c].pc = "idle"
    <3>1. CallerReady(op'[c])
      BY <1>1, <1>2, <2>2, RequestPasses DEF Ready
    <3>2. QED BY <1>1, <2>1, <2>2, <3>1 DEF Ready
  <2>3. CASE op[c].pc # "idle"
    <3>1. Passes(op[c], op'[c])
      BY <1>1, <1>2, <2>3, RequestPasses
    <3>2. CallerReady(op'[c]) /\ RequestSteps(op'[c]) < RequestSteps(op[c])
      BY <1>1, <2>3, <3>1, PassesLess DEF Ready
    <3>3. QED BY <1>1, <2>1, <3>2 DEF Ready
  <2>4. QED BY <2>2, <2>3
<1>3. ASSUME NEW a \in Actors, Shared(a) PROVE
        /\ Ready'
        /\ \A d \in Callers :
             op[d].pc # "idle" =>
               op'[d] = op[d] \/ RequestSteps(op'[d]) < RequestSteps(op[d])
  <2>1. \A b \in Actors : b # a => op'[b] = op[b]
    BY <1>3, SharedPasses
  <2>2. CASE a = Probe
    <3>1. ProbeReady(op'[Probe])
      BY <1>3, <2>2, SharedPasses DEF Ready
    <3>2. QED BY <1>1, <2>1, <2>2, <3>1 DEF Ready
  <2>3. CASE a \in Callers
    <3>1. op[a].pc # "idle" /\ Passes(op[a], op'[a])
      BY <1>3, <2>3, SharedPasses
    <3>2. CallerReady(op'[a]) /\ RequestSteps(op'[a]) < RequestSteps(op[a])
      BY <1>1, <2>3, <3>1, PassesLess DEF Ready
    <3>3. QED BY <1>1, <2>1, <2>3, <3>2 DEF Ready
  <2>4. QED BY <2>2, <2>3 DEF Actors
<1>4. CASE HealthCheck \/ Close \/ Elapse \/ WindowSlide \/ UNCHANGED vars
  BY <1>4, HealthPasses DEF Ready
<1>5. QED BY <1>2, <1>3, <1>4 DEF Next

\* Callers, health check and the Force methods never wait for each other in a
\* circle on cb.mu and stateMu: recordSuccess and recordFailure wait for stateMu
\* with cb.mu held, and no transition asks for cb.mu once it has stateMu, so
\* whoever holds stateMu goes on, whoever holds cb.mu waits for nobody else, and
\* every goroutine that waits, waits for one of the two.  This is the safety side
\* of RequestsReturn: a request that is never answered would be one the scheduler
\* never runs.
THEOREM LocksInOrderKept == Spec => []LocksInOrder
<1>1. ASSUME TypeOK, Tripping, Ready PROVE LocksInOrder
  <2>1. /\ mu \in Actors \cup {Free} /\ stateMu \in Actors \cup {Free} /\ Free \notin Actors
        /\ \A a \in Actors : op[a] \in Op
    BY <1>1, BreakerAssumption DEF TypeOK
  <2>2. stateMu # Free => CanGoOn(stateMu)
    BY <1>1, <2>1 DEF Tripping, LocksHeld, CanGoOn
  <2>3. mu # Free => CanGoOn(mu) \/ stateMu # Free
    BY <1>1, <2>1 DEF Tripping, LocksHeld, CanGoOn
  <2>4. ASSUME NEW a \in Actors, op[a].pc \notin {"idle", "gone"} PROVE
          CanGoOn(a) \/ \E b \in {mu, stateMu} : b # Free /\ CanGoOn(b)
    <3>1. \/ op[a].pc \in {"open", "record", "transition", "settle"}
          \/ a \in Callers /\ op[a].pc \in {"half", "count", "attempt", "call", "window"}
          \/ a = Probe /\ op[a].pc \in {"spawn", "check"}
      <4>1. CASE a \in Callers
        BY <1>1, <2>1, <2>4, <4>1 DEF Ready, CallerReady, Op
      <4>2. CASE a = Probe
        BY <1>1, <2>4, <4>2 DEF Ready, ProbeReady
      <4>3. QED BY <4>1, <4>2 DEF Actors
    <3>2. CanGoOn(a) \/ mu # Free \/ stateMu # Free
      BY <3>1 DEF CanGoOn
    <3>3. QED BY <2>2, <2>3, <3>2
  <2>5. QED BY <2>2, <2>3, <2>4 DEF LocksInOrder
<1>2. TypeOK /\ TypeOK' /\ Ready /\ [Next]_vars => Ready'
  BY ReadyStep
<1>3. QED BY <1>1, <1>2, ReadyInit, TypeCorrect, TrippingKept, PTL DEF Spec

\* A request is over after at most 5 * MaxAttempts + 12 steps of its own, however
\* the other goroutines interleave: RequestSteps bounds the steps it has left,
\* only the step that begins a request raises it, and no other goroutine touches
\* it.  ExecuteWithFallback and executeWithRetry, with every failure they retry,
\* every transition they run and every lock they take, contain no loop that could
\* go on for ever.
THEOREM RequestIsFinite ==
    Spec => /\ [](\A c \in Callers : RequestSteps(op[c]) \in 0..(5 * MaxAttempts + 12))
            /\ [][\A c \in Callers :
                    op[c].pc # "idle" =>
                      op'[c] = op[c] \/ RequestSteps(op'[c]) < RequestSteps(op[c])]_vars
<1>1. TypeOK /\ TypeOK' /\ Ready /\ [Next]_vars =>
        /\ Ready'
        /\ [\A c \in Callers :
              op[c].pc # "idle" =>
                op'[c] = op[c] \/ RequestSteps(op'[c]) < RequestSteps(op[c])]_vars
  BY ReadyStep
<1>2. TypeOK /\ Ready =>
        \A c \in Callers : RequestSteps(op[c]) \in 0..(5 * MaxAttempts + 12)
  <2>1. TypeOK => \A c \in Callers : op[c] \in Op
    BY DEF TypeOK, Actors
  <2>2. QED BY <2>1, RequestStepsType DEF Ready
<1>3. QED BY <1>1, <1>2, ReadyInit, TypeCorrect, PTL DEF Spec
==============================================================================
