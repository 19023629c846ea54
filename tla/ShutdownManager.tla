---------------------------- MODULE ShutdownManager ----------------------------
(***************************************************************************)
(* The shutdown manager (internal/server/shutdown.go) and the end of main  *)
(* (cmd/api/main.go): a signal or a call of Shutdown releases              *)
(* WaitForShutdown, which runs the registered hooks, every one in a        *)
(* goroutine that waits for the cleanup or for its timeout, collects their *)
(* errors and returns them to main, which exits.                           *)
(*                                                                         *)
(* The delays before the hooks are left out, and a hook's own timeout and  *)
(* the graceful timeout are one event.  forceKillTimer starts when the     *)
(* hooks are over, and main exits then: its ForceKill is what happens to   *)
(* an owner that stays.                                                    *)
(***************************************************************************)
EXTENDS Integers, FiniteSets

CONSTANTS
    Hooks,       \* the registered ShutdownHooks
    Priority,    \* hook.Priority
    OwnSignal,   \* main takes a signal itself before WaitForShutdown (main.go)
    OwnerExits,  \* the owner exits when WaitForShutdown returns (main.go)
    MaxSignals,  \* bound: signals the process receives
    MaxCalls     \* bound: calls of Shutdown

ASSUME ShutdownAssumption ==
    /\ IsFiniteSet(Hooks)
    /\ Priority \in [Hooks -> Nat]
    /\ OwnSignal \in BOOLEAN /\ OwnerExits \in BOOLEAN
    /\ MaxSignals \in Nat /\ MaxCalls \in Nat

VARIABLES
    main,       \* program counter of the owner
    signals,    \* signals the process has received
    mainChan,   \* main's own signal channel holds a signal
    smChan,     \* the manager's signal channel holds a signal
    calls,      \* calls of Shutdown
    exec,       \* program counter of the hook's executeHook
    cleanup,    \* its cleanup goroutine
    wg,         \* the WaitGroup of the hooks
    errorChan,  \* hooks whose error is in the channel
    closed,     \* errorChan is closed
    errors,     \* hooks whose error has been collected
    result      \* what WaitForShutdown returned

waitVars == <<signals, mainChan, smChan, calls>>
hookVars == <<exec, cleanup, wg, errorChan>>
vars == <<main, waitVars, hookVars, closed, errors, result>>

Over == {"ok", "failed", "timeout"}

TypeOK ==
    /\ main \in {"serving", "waiting", "spawning", "collecting", "returned", "exited", "killed"}
    /\ signals \in 0..MaxSignals /\ calls \in 0..MaxCalls
    /\ mainChan \in BOOLEAN /\ smChan \in BOOLEAN /\ closed \in BOOLEAN
    /\ exec \in [Hooks -> {"none", "spawned", "running"} \cup Over]
    /\ cleanup \in [Hooks -> {"none", "running", "ok", "error"}]
    /\ wg \in 0..Cardinality(Hooks)
    /\ errorChan \subseteq Hooks /\ errors \subseteq Hooks
    /\ result \in {"none", "ok", "errors"}

\* The resources are registered and the server runs.
Init ==
    /\ main = IF OwnSignal THEN "serving" ELSE "waiting"
    /\ signals = 0 /\ calls = 0 /\ mainChan = FALSE /\ smChan = FALSE
    /\ exec = [h \in Hooks |-> "none"] /\ cleanup = [h \in Hooks |-> "none"]
    /\ wg = 0 /\ errorChan = {} /\ closed = FALSE /\ errors = {}
    /\ result = "none"

------------------------------------------------------------------------------
(* Mutants: each is one definition below with a plausible bug.             *)

\* wg.Add(1) inside the goroutine instead of before it.
SpawnUncounted(h) ==
    /\ main = "spawning" /\ exec[h] = "none"
    /\ \A g \in Hooks : exec[g] = "none" => Priority[h] <= Priority[g]
    /\ exec' = [exec EXCEPT ![h] = "spawned"]
    /\ UNCHANGED <<main, waitVars, cleanup, wg, errorChan, closed, errors, result>>

\* executeHook waiting for the cleanup only.
HookPatient(h) ==
    /\ exec[h] = "running" /\ cleanup[h] \in {"ok", "error"}
    /\ exec' = [exec EXCEPT ![h] = "timeout"]
    /\ wg' = wg - 1
    /\ errorChan' = errorChan \cup {h}
    /\ UNCHANGED <<main, waitVars, cleanup, closed, errors, result>>

\* errorChan closed without waiting for the hooks.
CloseErrorsAtOnce ==
    /\ main = "collecting" /\ ~closed
    /\ closed' = TRUE
    /\ UNCHANGED <<main, waitVars, hookVars, errors, result>>

\* executeHook logging the timeout without reporting it.
HookTimeoutSilent(h) ==
    /\ exec[h] = "running"
    /\ exec' = [exec EXCEPT ![h] = "timeout"]
    /\ wg' = wg - 1
    /\ UNCHANGED <<main, waitVars, cleanup, errorChan, closed, errors, result>>

------------------------------------------------------------------------------
(* What makes the process stop.                                            *)

\* signal.Notify: a signal goes to every channel registered by then, and is
\* dropped where one is waiting.
Signal ==
    /\ signals < MaxSignals /\ main \notin {"exited", "killed"}
    /\ signals' = signals + 1
    /\ mainChan' = OwnSignal
    /\ smChan' = (main # "serving")
    /\ UNCHANGED <<main, calls, hookVars, closed, errors, result>>

\* main receives from its own channel and calls WaitForShutdown, ...
MainSignal ==
    /\ main = "serving" /\ mainChan
    /\ main' = "waiting" /\ mainChan' = FALSE
    /\ UNCHANGED <<signals, smChan, calls, hookVars, closed, errors, result>>

\* ... which waits for a signal of its own ...
WaitSignal ==
    /\ main = "waiting" /\ smChan
    /\ main' = "spawning" /\ smChan' = FALSE
    /\ UNCHANGED <<signals, mainChan, calls, hookVars, closed, errors, result>>

\* ... or for Shutdown, whose send succeeds only when WaitForShutdown is there
\* to receive.
Shutdown ==
    /\ calls < MaxCalls /\ main \notin {"exited", "killed"}
    /\ calls' = calls + 1
    /\ main' = IF main = "waiting" THEN "spawning" ELSE main
    /\ UNCHANGED <<signals, mainChan, smChan, hookVars, closed, errors, result>>

------------------------------------------------------------------------------
(* initiateShutdown and executeHook.                                       *)

\* The hooks sorted by priority, one goroutine each.
Spawn(h) ==
    /\ main = "spawning" /\ exec[h] = "none"
    /\ \A g \in Hooks : exec[g] = "none" => Priority[h] <= Priority[g]
    /\ exec' = [exec EXCEPT ![h] = "spawned"]
    /\ wg' = wg + 1
    /\ UNCHANGED <<main, waitVars, cleanup, errorChan, closed, errors, result>>

Spawned ==
    /\ main = "spawning" /\ \A h \in Hooks : exec[h] # "none"
    /\ main' = "collecting"
    /\ UNCHANGED <<waitVars, hookVars, closed, errors, result>>

HookStart(h) ==
    /\ exec[h] = "spawned"
    /\ exec' = [exec EXCEPT ![h] = "running"]
    /\ cleanup' = [cleanup EXCEPT ![h] = "running"]
    /\ UNCHANGED <<main, waitVars, wg, errorChan, closed, errors, result>>

\* The cleanup goroutine ends, possibly after its executeHook gave up on it.
CleanupEnds(h) ==
    /\ cleanup[h] = "running"
    /\ \E r \in {"ok", "error"} : cleanup' = [cleanup EXCEPT ![h] = r]
    /\ UNCHANGED <<main, waitVars, exec, wg, errorChan, closed, errors, result>>

HookDone(h) ==
    /\ exec[h] = "running" /\ cleanup[h] \in {"ok", "error"}
    /\ exec' = [exec EXCEPT ![h] = IF cleanup[h] = "ok" THEN "ok" ELSE "failed"]
    /\ wg' = wg - 1
    /\ errorChan' = IF cleanup[h] = "ok" THEN errorChan ELSE errorChan \cup {h}
    /\ UNCHANGED <<main, waitVars, cleanup, closed, errors, result>>

\* hookCtx is done; select may prefer it to a cleanup that has just ended.
HookTimeout(h) ==
    /\ exec[h] = "running"
    /\ exec' = [exec EXCEPT ![h] = "timeout"]
    /\ wg' = wg - 1
    /\ errorChan' = errorChan \cup {h}
    /\ UNCHANGED <<main, waitVars, cleanup, closed, errors, result>>

\* The goroutine that waits for the hooks.
CloseErrors ==
    /\ main = "collecting" /\ ~closed /\ wg = 0
    /\ closed' = TRUE
    /\ UNCHANGED <<main, waitVars, hookVars, errors, result>>

Collect(h) ==
    /\ main = "collecting" /\ h \in errorChan
    /\ errorChan' = errorChan \ {h} /\ errors' = errors \cup {h}
    /\ UNCHANGED <<main, waitVars, exec, cleanup, wg, closed, result>>

\* initiateShutdown returns once the channel is closed and drained.
Finish ==
    /\ main = "collecting" /\ closed /\ errorChan = {}
    /\ main' = "returned"
    /\ result' = IF errors = {} THEN "ok" ELSE "errors"
    /\ UNCHANGED <<waitVars, hookVars, closed, errors>>

\* main returns or calls os.Exit(1).
Exit ==
    /\ main = "returned" /\ OwnerExits
    /\ main' = "exited"
    /\ UNCHANGED <<waitVars, hookVars, closed, errors, result>>

\* forceKillTimer, which nothing stops.
ForceKill ==
    /\ main = "returned"
    /\ main' = "killed"
    /\ UNCHANGED <<waitVars, hookVars, closed, errors, result>>

Running == main \notin {"exited", "killed"}

Next ==
    \/ Signal \/ MainSignal \/ WaitSignal \/ Shutdown
    \/ Spawned \/ CloseErrors \/ Finish \/ Exit \/ ForceKill
    \/ /\ Running
       /\ \E h \in Hooks : \/ Spawn(h) \/ HookStart(h) \/ CleanupEnds(h)
                           \/ HookDone(h) \/ HookTimeout(h) \/ Collect(h)

Spec == Init /\ [][Next]_vars

\* Goroutines are scheduled and timers fire.  A cleanup need not end, signals
\* and calls of Shutdown need not come.
Fairness ==
    /\ WF_vars(MainSignal) /\ WF_vars(WaitSignal)
    /\ WF_vars(Spawned) /\ WF_vars(CloseErrors) /\ WF_vars(Finish)
    /\ WF_vars(Exit \/ ForceKill)
    /\ \A h \in Hooks :
         /\ WF_vars(Spawn(h)) /\ WF_vars(Collect(h))
         /\ WF_vars(Running /\ HookStart(h))
         /\ WF_vars(Running /\ (HookDone(h) \/ HookTimeout(h)))

FairSpec == Spec /\ Fairness

------------------------------------------------------------------------------
(* Properties.                                                             *)

\* WaitForShutdown reports success only when every hook has run and every
\* cleanup has succeeded: no failure, no timeout and no unfinished hook is lost
\* between the goroutines, the channel and the collector.
SuccessIsHonest == result = "ok" => \A h \in Hooks : cleanup[h] = "ok"

\* A hook whose goroutine is still at work is never overtaken by the return of
\* WaitForShutdown (the WaitGroup is counted before the goroutine exists).
AllHooksOver == result # "none" => \A h \in Hooks : exec[h] \in Over

\* A shutdown that has begun ends the process, also when a cleanup hangs.
ShutdownEnds == main = "spawning" ~> main \in {"exited", "killed"}

Busy == {h \in Hooks : exec[h] \in {"spawned", "running"}}

\* The inductive strengthening of both: the WaitGroup is exact, the channel is
\* closed after the last hook, and every outcome but success leaves an error
\* that is in the channel or collected.
Bookkeeping ==
    /\ wg = Cardinality(Busy)
    /\ main \notin {"serving", "waiting", "spawning"} => \A h \in Hooks : exec[h] # "none"
    /\ result # "none" => closed /\ main \in {"returned", "exited", "killed"}
    /\ closed => main \notin {"serving", "waiting", "spawning"} /\ \A h \in Hooks : exec[h] \in Over
    /\ result = "ok" => errorChan = {} /\ errors = {}
    /\ \A h \in Hooks :
         /\ exec[h] = "ok" => cleanup[h] = "ok"
         /\ exec[h] \in {"failed", "timeout"} => h \in errorChan \cup errors

\* "Lower numbers run first", "Close database after workers": the cleanup of a
\* hook starts when those of lower numbers are over.
PriorityOrder ==
    [][\A h \in Hooks :
         cleanup[h] = "none" /\ cleanup'[h] = "running" =>
           \A g \in Hooks : Priority[g] < Priority[h] => exec[g] \in Over]_vars

\* "Wait for shutdown signal ... Trigger graceful shutdown": a signal shuts the
\* process down.
SignalShutsDown == signals > 0 ~> main \in {"exited", "killed"}

\* "Shutdown initiates programmatic shutdown": so does a call of Shutdown.
CallShutsDown == calls > 0 ~> main \in {"exited", "killed"}

\* "last resort": a shutdown in which every hook succeeded is not killed.
KillIsLastResort == main = "killed" => result # "ok"
==============================================================================
