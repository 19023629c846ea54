---------------------------- MODULE CircuitBreaker ----------------------------
(***************************************************************************)
(* The circuit breaker (internal/infrastructure/circuit_breaker.go) and    *)
(* the retry loops that run inside it: its own executeWithRetry, and, when *)
(* Nested, the RetryManager that auth.go runs inside Execute and that      *)
(* reports every attempt to the same breaker (retry.go).                   *)
(*                                                                         *)
(* The breaker has no single lock.  mu guards the record methods, stateMu  *)
(* the transitions, the state word and the half-open counter are atomics   *)
(* read under neither, and a transition is reached with mu held (from a    *)
(* record method) or without it (from canExecute, the health check and the *)
(* Force methods).  A step is what happens between two points where        *)
(* another goroutine can see or change something.                          *)
(*                                                                         *)
(* Time is one bit, "OpenTimeout has passed since lastStateChange".  The   *)
(* buckets of the sliding window are one pair of counts from which         *)
(* WindowSlide drops the expired part.  Counters that the code only        *)
(* compares with a threshold saturate there.                               *)
(***************************************************************************)
EXTENDS Integers, FiniteSets

CONSTANTS
    Callers,              \* goroutines that call Execute, Force*, Reset
    Probe,                \* the healthCheckLoop goroutine
    Free,                 \* no holder, for the two locks
    SuccessThreshold,     \* config.SuccessThreshold
    ConsecutiveFailures,  \* config.ConsecutiveFailures
    FailureThreshold,     \* config.FailureThreshold
    MinimumRequestCount,  \* config.MinimumRequestCount
    WindowMax,            \* bound: requests the window remembers
    MaxAttempts,          \* attempts one Execute may make, both retry loops
    Nested,               \* whether a RetryManager runs inside Execute
    MayForce,             \* whether anyone calls Force*, Reset
    HealthChecks          \* config.EnableHealthCheck

Actors == Callers \cup {Probe}

ASSUME BreakerAssumption ==
    /\ IsFiniteSet(Callers) /\ Probe \notin Callers /\ Free \notin Actors
    /\ SuccessThreshold \in Nat \ {0} /\ ConsecutiveFailures \in Nat \ {0}
    /\ FailureThreshold \in Nat \ {0} /\ MinimumRequestCount \in Nat
    /\ WindowMax \in Nat \ {0} /\ MaxAttempts \in Nat \ {0}
    /\ Nested \in BOOLEAN /\ MayForce \in BOOLEAN /\ HealthChecks \in BOOLEAN

VARIABLES
    state,      \* cb.state
    expired,    \* time.Since(cb.lastStateChange) >= config.OpenTimeout
    halfOpen,   \* cb.halfOpenRequests
    failures,   \* cb.consecutiveFailures
    successes,  \* cb.consecutiveSuccesses
    window,     \* requests and failures (timeouts included) in the window
    mu,         \* holder of cb.mu across steps
    stateMu,    \* holder of cb.stateMu across steps
    op,         \* what every actor is in the middle of
    healthy,    \* whether cb.healthCheck has been set
    stopped,    \* cb.ctx is cancelled
    admitted    \* history: requests let through since the circuit half-opened

counters == <<halfOpen, failures, successes>>
probeVars == <<healthy, stopped>>
vars == <<state, expired, counters, window, mu, stateMu, op, probeVars, admitted>>

CircuitState == {"closed", "open", "half"}
Idle == [pc |-> "idle", ok |-> TRUE, next |-> "idle", goal |-> "closed", left |-> 0]

\* Where an admitted request goes: the retry manager looks at the breaker
\* before every attempt, the breaker's own retry loop does not.
Entry == IF Nested THEN "attempt" ELSE "call"

Capped(n, cap) == IF n < cap THEN n ELSE cap

\* Requests one half-open period may let through; bounds the history variable.
Overshoot == 2 * (SuccessThreshold + Cardinality(Callers) - 1)

Admit == admitted' = IF state = "half" THEN Capped(admitted + 1, Overshoot + 1)
                                       ELSE admitted

\* Actor a goes on at p.
Goto(a, p) == op' = [op EXCEPT ![a] = IF p = "idle" THEN Idle ELSE [@ EXCEPT !.pc = p]]

Op == [pc : {"idle", "open", "half", "count", "attempt", "call", "window", "record",
             "transition", "settle", "spawn", "check", "gone"},
       ok : BOOLEAN, next : {"idle", "attempt", "call", "window"},
       goal : CircuitState, left : Int]

CounterOK ==
    /\ halfOpen \in Nat /\ admitted \in Nat
    /\ failures \in 0..ConsecutiveFailures /\ successes \in 0..SuccessThreshold
WindowOK ==
    /\ window \in [requests : 0..WindowMax, failures : 0..WindowMax]
    /\ window.failures <= window.requests

TypeOK ==
    /\ state \in CircuitState /\ expired \in BOOLEAN
    /\ mu \in Actors \cup {Free} /\ stateMu \in Actors \cup {Free}
    /\ healthy \in BOOLEAN /\ stopped \in BOOLEAN
    /\ CounterOK /\ WindowOK
    /\ op \in [Actors -> Op]

\* NewCircuitBreaker: closed; the health check loop is spawned with it.
Init ==
    /\ state = "closed" /\ expired = FALSE
    /\ halfOpen = 0 /\ failures = 0 /\ successes = 0
    /\ window = [requests |-> 0, failures |-> 0]
    /\ mu = Free /\ stateMu = Free
    /\ op = [a \in Actors |->
               IF a = Probe THEN [Idle EXCEPT !.pc = IF HealthChecks THEN "spawn" ELSE "gone"]
                            ELSE Idle]
    /\ healthy = FALSE /\ stopped = FALSE
    /\ admitted = 0

------------------------------------------------------------------------------
(* Mutants: each is one definition below with a plausible bug.             *)

\* halfOpenRequests <= SuccessThreshold.
HalfCheckInclusive(c) ==
    /\ op[c].pc = "half"
    /\ Goto(c, IF halfOpen <= SuccessThreshold THEN "count" ELSE "idle")
    /\ UNCHANGED <<state, expired, counters, window, mu, stateMu, probeVars, admitted>>

\* recordSuccess releasing mu before transitionToClosed.
RecordSuccessUnlocked(a) ==
    /\ op[a].pc = "record" /\ op[a].ok /\ mu = Free
    /\ failures' = 0 /\ successes' = Capped(successes + 1, SuccessThreshold)
    /\ IF state = "half" /\ successes' = SuccessThreshold
       THEN op' = [op EXCEPT ![a].pc = "transition", ![a].goal = "closed"]
       ELSE Goto(a, op[a].next)
    /\ UNCHANGED <<state, expired, halfOpen, window, mu, stateMu, probeVars, admitted>>

\* transitionToClosed leaving consecutiveFailures as it is.
SettleKeepsFailures(a) ==
    /\ op[a].pc = "settle"
    /\ expired' = FALSE
    /\ successes' = IF op[a].goal = "closed" THEN 0 ELSE successes
    /\ halfOpen' = IF op[a].goal = "open" THEN halfOpen ELSE 0
    /\ stateMu' = Free
    /\ mu' = IF mu = a THEN Free ELSE mu
    /\ IF op[a].goal = "half" /\ op[a].next # "idle" THEN Admit ELSE UNCHANGED admitted
    /\ Goto(a, op[a].next)
    /\ UNCHANGED <<state, failures, window, probeVars>>

\* A transition that takes mu for lastStateChange after it has taken stateMu.
SettleLocksMu(a) ==
    /\ op[a].pc = "settle" /\ mu \in {a, Free}
    /\ expired' = FALSE
    /\ failures' = IF op[a].goal = "closed" THEN 0 ELSE failures
    /\ successes' = IF op[a].goal = "closed" THEN 0 ELSE successes
    /\ halfOpen' = IF op[a].goal = "open" THEN halfOpen ELSE 0
    /\ stateMu' = Free
    /\ mu' = Free
    /\ IF op[a].goal = "half" /\ op[a].next # "idle" THEN Admit ELSE UNCHANGED admitted
    /\ Goto(a, op[a].next)
    /\ UNCHANGED <<state, window, probeVars>>

------------------------------------------------------------------------------
(* Execute: admission, the attempts, the result.                           *)

\* ExecuteWithFallback loads the state word.  What happens to a rejected
\* request (the rejection counter, the fallback) is left out.
Execute(c) ==
    /\ op[c].pc = "idle"
    /\ op' = [op EXCEPT ![c] =
                [Idle EXCEPT !.pc = IF state = "closed" THEN Entry ELSE state,
                             !.left = MaxAttempts]]
    /\ UNCHANGED <<state, expired, counters, window, mu, stateMu, probeVars, admitted>>

\* canExecute or the health check has seen the open state and looks at the
\* clock, shouldTransitionToHalfOpen under mu.
CheckTimeout(a) ==
    /\ op[a].pc = "open" /\ mu = Free
    /\ IF expired
       THEN op' = [op EXCEPT ![a].pc = "transition", ![a].goal = "half",
                             ![a].next = IF a = Probe THEN "idle" ELSE Entry]
       ELSE Goto(a, "idle")
    /\ UNCHANGED <<state, expired, counters, window, mu, stateMu, probeVars, admitted>>

\* canExecute has seen the half-open state: it compares the counter with the
\* limit in one atomic operation and increments it in the next.
HalfCheck(c) ==
    /\ op[c].pc = "half"
    /\ Goto(c, IF halfOpen < SuccessThreshold THEN "count" ELSE "idle")
    /\ UNCHANGED <<state, expired, counters, window, mu, stateMu, probeVars, admitted>>

HalfCount(c) ==
    /\ op[c].pc = "count"
    /\ halfOpen' = halfOpen + 1
    /\ Admit
    /\ Goto(c, Entry)
    /\ UNCHANGED <<state, expired, failures, successes, window, mu, stateMu, probeVars>>

\* RetryManager.executeWithRetry before an attempt: a done context or an open
\* breaker ends the call with an error, a half-open one does not.
Attempt(c) ==
    /\ op[c].pc = "attempt"
    /\ \/ op' = [op EXCEPT ![c].pc = "window", ![c].ok = FALSE]
       \/ state # "open" /\ Goto(c, "call")
    /\ UNCHANGED <<state, expired, counters, window, mu, stateMu, probeVars, admitted>>

\* fn returns.  A failed attempt is retried while attempts are left, unless the
\* error is not retryable or the context is done.  A nested attempt reports to
\* the breaker first.
CallOk(c) ==
    /\ op[c].pc = "call"
    /\ op' = [op EXCEPT ![c].pc = IF Nested THEN "record" ELSE "window",
                        ![c].ok = TRUE, ![c].next = "window"]
    /\ UNCHANGED <<state, expired, counters, window, mu, stateMu, probeVars, admitted>>

CallError(c) ==
    /\ op[c].pc = "call"
    /\ \E next \in {"window"} \cup (IF op[c].left > 1 THEN {Entry} ELSE {}) :
         op' = [op EXCEPT ![c].pc = IF Nested THEN "record" ELSE next,
                          ![c].ok = FALSE, ![c].next = next, ![c].left = @ - 1]
    /\ UNCHANGED <<state, expired, counters, window, mu, stateMu, probeVars, admitted>>

\* recordResult enters the request in the sliding window before it takes mu.
Window(c) ==
    /\ op[c].pc = "window"
    /\ window.requests < WindowMax
    /\ window' = [requests |-> window.requests + 1,
                  failures |-> window.failures + (IF op[c].ok THEN 0 ELSE 1)]
    /\ op' = [op EXCEPT ![c].pc = "record", ![c].next = "idle"]
    /\ UNCHANGED <<state, expired, counters, mu, stateMu, probeVars, admitted>>

------------------------------------------------------------------------------
(* recordSuccess, recordFailure and the transitions.                       *)

\* shouldOpen, with n consecutive failures.
ShouldOpen(n) ==
    \/ n >= ConsecutiveFailures
    \/ /\ window.requests >= MinimumRequestCount
       /\ \/ window.failures >= FailureThreshold
          \/ 2 * window.failures > window.requests

\* mu stays locked while the transition waits for stateMu.
RecordSuccess(a) ==
    /\ op[a].pc = "record" /\ op[a].ok /\ mu = Free
    /\ failures' = 0 /\ successes' = Capped(successes + 1, SuccessThreshold)
    /\ IF state = "half" /\ successes' = SuccessThreshold
       THEN mu' = a /\ op' = [op EXCEPT ![a].pc = "transition", ![a].goal = "closed"]
       ELSE mu' = mu /\ Goto(a, op[a].next)
    /\ UNCHANGED <<state, expired, halfOpen, window, stateMu, probeVars, admitted>>

RecordFailure(a) ==
    /\ op[a].pc = "record" /\ ~op[a].ok /\ mu = Free
    /\ successes' = 0 /\ failures' = Capped(failures + 1, ConsecutiveFailures)
    /\ IF state \in {"closed", "half"} /\ ShouldOpen(failures')
       THEN mu' = a /\ op' = [op EXCEPT ![a].pc = "transition", ![a].goal = "open"]
       ELSE mu' = mu /\ Goto(a, op[a].next)
    /\ UNCHANGED <<state, expired, halfOpen, window, stateMu, probeVars, admitted>>

\* transitionToOpen, ToHalfOpen, ToClosed: under stateMu, nothing to do when
\* the circuit is already there, ...
AlreadyThere(a) ==
    /\ op[a].pc = "transition" /\ stateMu = Free /\ state = op[a].goal
    /\ mu' = IF mu = a THEN Free ELSE mu
    /\ IF state = "half" /\ op[a].next # "idle" THEN Admit ELSE UNCHANGED admitted
    /\ Goto(a, op[a].next)
    /\ UNCHANGED <<state, expired, counters, window, stateMu, probeVars>>

\* ... otherwise the state word is stored, whatever it was, ...
Transition(a) ==
    /\ op[a].pc = "transition" /\ stateMu = Free /\ state # op[a].goal
    /\ state' = op[a].goal
    /\ stateMu' = a
    /\ admitted' = IF op[a].goal = "half" THEN 0 ELSE admitted
    /\ Goto(a, "settle")
    /\ UNCHANGED <<expired, counters, window, mu, probeVars>>

\* ... then the counters and lastStateChange, and the locks are released.
Settle(a) ==
    /\ op[a].pc = "settle"
    /\ expired' = FALSE
    /\ failures' = IF op[a].goal = "closed" THEN 0 ELSE failures
    /\ successes' = IF op[a].goal = "closed" THEN 0 ELSE successes
    /\ halfOpen' = IF op[a].goal = "open" THEN halfOpen ELSE 0
    /\ stateMu' = Free
    /\ mu' = IF mu = a THEN Free ELSE mu
    /\ IF op[a].goal = "half" /\ op[a].next # "idle" THEN Admit ELSE UNCHANGED admitted
    /\ Goto(a, op[a].next)
    /\ UNCHANGED <<state, window, probeVars>>

------------------------------------------------------------------------------
(* Operators, health checks, time.                                         *)

\* ForceOpen, ForceClose, ForceHalfOpen: a transition without mu.
ForceTo(c) ==
    /\ MayForce /\ op[c].pc = "idle"
    /\ \E s \in CircuitState :
         op' = [op EXCEPT ![c] = [Idle EXCEPT !.pc = "transition", !.goal = s]]
    /\ UNCHANGED <<state, expired, counters, window, mu, stateMu, probeVars, admitted>>

\* Reset, under mu only.
Reset(c) ==
    /\ MayForce /\ op[c].pc = "idle" /\ mu = Free
    /\ state' = "closed" /\ expired' = FALSE
    /\ halfOpen' = 0 /\ failures' = 0 /\ successes' = 0
    /\ window' = [requests |-> 0, failures |-> 0]
    /\ UNCHANGED <<mu, stateMu, op, probeVars, admitted>>

\* SetHealthCheck, which SetupHealthChecks calls on a breaker that is running.
SetHealthCheck ==
    /\ HealthChecks /\ ~healthy
    /\ healthy' = TRUE
    /\ UNCHANGED <<state, expired, counters, window, mu, stateMu, op, stopped, admitted>>

\* healthCheckLoop returns at once when no health check is set.
ProbeStart ==
    /\ op[Probe].pc = "spawn"
    /\ Goto(Probe, IF healthy THEN "idle" ELSE "gone")
    /\ UNCHANGED <<state, expired, counters, window, mu, stateMu, probeVars, admitted>>

ProbeTick ==
    /\ op[Probe].pc = "idle"
    /\ Goto(Probe, "check")
    /\ UNCHANGED <<state, expired, counters, window, mu, stateMu, probeVars, admitted>>

ProbeExit ==
    /\ op[Probe].pc = "idle" /\ stopped
    /\ Goto(Probe, "gone")
    /\ UNCHANGED <<state, expired, counters, window, mu, stateMu, probeVars, admitted>>

\* performHealthCheck after the check: a failure counts when the circuit is
\* closed, a success may half-open it.
ProbePass ==
    /\ op[Probe].pc = "check"
    /\ Goto(Probe, IF state = "open" THEN "open" ELSE "idle")
    /\ UNCHANGED <<state, expired, counters, window, mu, stateMu, probeVars, admitted>>

ProbeFail ==
    /\ op[Probe].pc = "check"
    /\ IF state = "closed"
       THEN op' = [op EXCEPT ![Probe] = [Idle EXCEPT !.pc = "record", !.ok = FALSE]]
       ELSE Goto(Probe, "idle")
    /\ UNCHANGED <<state, expired, counters, window, mu, stateMu, probeVars, admitted>>

\* Close cancels the context of the background goroutines.
Close ==
    /\ HealthChecks /\ ~stopped
    /\ stopped' = TRUE
    /\ UNCHANGED <<state, expired, counters, window, mu, stateMu, op, healthy, admitted>>

\* OpenTimeout passes.
Elapse ==
    /\ ~expired
    /\ expired' = TRUE
    /\ UNCHANGED <<state, counters, window, mu, stateMu, op, probeVars, admitted>>

\* Buckets of the sliding window expire.
WindowSlide ==
    /\ \E r \in 0..(window.requests - 1) : \E f \in 0..window.failures :
         /\ f <= r /\ window.failures - f <= window.requests - r
         /\ window' = [requests |-> r, failures |-> f]
    /\ UNCHANGED <<state, expired, counters, mu, stateMu, op, probeVars, admitted>>

Record(a)    == RecordSuccess(a) \/ RecordFailure(a)
Move(a)      == AlreadyThere(a) \/ Transition(a)
Request(c)   == \/ Execute(c) \/ HalfCheck(c) \/ HalfCount(c) \/ Attempt(c)
                \/ CallOk(c) \/ CallError(c) \/ Window(c) \/ ForceTo(c) \/ Reset(c)
Shared(a)    == CheckTimeout(a) \/ Record(a) \/ Move(a) \/ Settle(a)
HealthCheck  == SetHealthCheck \/ ProbeStart \/ ProbeTick \/ ProbeExit \/ ProbePass \/ ProbeFail

Next ==
    \/ \E c \in Callers : Request(c)
    \/ \E a \in Actors : Shared(a)
    \/ HealthCheck \/ Close
    \/ Elapse \/ WindowSlide

Spec == Init /\ [][Next]_vars

\* Every goroutine is scheduled, fn and the health check are bounded by their
\* timeouts, the clock runs, and a Go mutex starves nobody, which is strong
\* fairness of the steps that take one.  Requests keep coming; whether they
\* succeed is nobody's promise.
Fairness ==
    /\ \A c \in Callers :
         /\ WF_vars(Execute(c) \/ HalfCheck(c) \/ HalfCount(c) \/ Attempt(c)
                      \/ CallOk(c) \/ CallError(c) \/ Settle(c))
         /\ SF_vars(CheckTimeout(c) \/ Window(c) \/ Record(c) \/ Move(c))
    /\ WF_vars(ProbeStart \/ ProbeTick \/ ProbePass \/ ProbeFail \/ Settle(Probe))
    /\ SF_vars(CheckTimeout(Probe) \/ Record(Probe) \/ Move(Probe))
    /\ WF_vars(Elapse) /\ WF_vars(WindowSlide)

FairSpec == Spec /\ Fairness

------------------------------------------------------------------------------
(* Properties.                                                             *)

\* A closed circuit with nobody in a record method or a transition has seen
\* fewer than ConsecutiveFailures failures in a row: no interleaving of the
\* callers, the health check and the Force methods swallows the failure that
\* should have opened it (recordFailure, shouldOpen, transitionToClosed).
ThresholdTrips ==
    state = "closed" /\ mu = Free /\ stateMu = Free => failures < ConsecutiveFailures

\* An open circuit never closes without half-opening first: the success that
\* closes it is recorded under the lock under which a failure would have
\* reopened it (recordSuccess holds mu across transitionToClosed).
NeverClosesFromOpen == [][state = "open" => state' # "closed"]_vars

\* Check-then-increment lets every other caller exceed the limit by one, and a
\* circuit that half-opens admits two such rounds: one against the counter left
\* from the last time, until the transition resets it, and one after.  More than
\* that never gets through (canExecute, transitionToHalfOpen).
OvershootBounded == admitted <= Overshoot

\* The two locks are always taken in the order mu, stateMu: every Execute
\* returns (recordSuccess, recordFailure, the transitions).
RequestsReturn == \A c \in Callers : op[c].pc # "idle" ~> op[c].pc = "idle"

\* What the locks protect.  A goroutine that holds mu across steps is on its way
\* to or in a transition, stateMu is held in the second half of a transition, and
\* with both held nobody has overwritten the state word (Reset takes mu).
LocksHeld ==
    \A a \in Actors :
      /\ mu = a => op[a].pc \in {"transition", "settle"}
      /\ op[a].pc = "settle" <=> stateMu = a
      /\ mu = a /\ stateMu = a => state = op[a].goal

\* A closed circuit that has seen enough failures is about to open, or about to
\* have its counters reset.
TripPending ==
    state = "closed" /\ failures = ConsecutiveFailures =>
      \/ \E a \in Actors : mu = a /\ op[a].goal = "open"
      \/ \E a \in Actors : stateMu = a /\ op[a].goal = "closed"

Tripping == LocksHeld /\ TripPending

\* Without the Force methods only a goroutine that holds mu closes or opens the
\* circuit, and the circuit it is about to close is still half-open.
ClosingIsHalfOpen ==
    \A a \in Actors :
      op[a].pc = "transition" =>
        /\ op[a].goal # "half" => mu = a
        /\ op[a].goal = "closed" => state = "half"

\* "Allow limited requests in half-open state": no more than the limit that
\* canExecute compares halfOpenRequests with.
HalfOpenLimited == admitted <= SuccessThreshold

\* "Time to wait before half-open": the circuit half-opens from the open state
\* and after OpenTimeout only.
OpenTimeoutHonoured ==
    [][state # "half" /\ state' = "half" => state = "open" /\ expired]_vars

\* "Time to wait in half-open state": the circuit does not stay half-open.
Recovers == state = "half" ~> state # "half"

\* "Periodic health checks": once the health check is set, it runs.
HealthChecksRun == healthy ~> (stopped \/ op[Probe].pc = "check")
==============================================================================
