----------------------------- MODULE JobLifecycle -----------------------------
(***************************************************************************)
(* What the file processing engine promises about one job, whatever its    *)
(* queue, its worker pool, its mutexes and its Start and Stop do: a job is *)
(* taken in, worked on by one goroutine at a time, retried a bounded       *)
(* number of times, concluded once, and forgotten only after that.  The    *)
(* detailed engine implements this specification (ProcessingEngine.tla,    *)
(* ImplementsLifecycle).                                                   *)
(***************************************************************************)
EXTENDS Integers

CONSTANTS
    Jobs,        \* the job ids uuid.New() may return
    MaxRetries   \* job.MaxRetries

VARIABLES
    phase,       \* where a job is in its life
    attempts,    \* how often its processing was retried
    known,       \* the jobs GetActiveJobs and GetJobStatus know of
    failures     \* jobs concluded with a failure

lifecycle == <<phase, attempts, known, failures>>

Init ==
    /\ phase = [j \in Jobs |-> "new"]
    /\ attempts = [j \in Jobs |-> 0]
    /\ known = {}
    /\ failures = 0

Move(j, from, to) == phase[j] = from /\ phase' = [phase EXCEPT ![j] = to]

\* SubmitJob makes a job and, in a second step, registers it.
TakeIn(j) == Move(j, "new", "waiting") /\ UNCHANGED <<attempts, known, failures>>

Register(j) ==
    /\ phase[j] = "waiting"
    /\ known' = known \cup {j}
    /\ UNCHANGED <<phase, attempts, failures>>

\* The queue has no room for it, or its submitter has gone.
Reject(j) == Move(j, "waiting", "rejected") /\ UNCHANGED <<attempts, known, failures>>

Work(j) ==
    /\ j \in known
    /\ Move(j, "waiting", "working") /\ UNCHANGED <<attempts, known, failures>>

\* The worker decides to try again, and then gives the job back to the queue.
Retry(j) ==
    /\ phase[j] = "working" /\ attempts[j] < MaxRetries
    /\ attempts' = [attempts EXCEPT ![j] = @ + 1]
    /\ UNCHANGED <<phase, known, failures>>

PutBack(j) ==
    /\ attempts[j] > 0
    /\ Move(j, "working", "waiting") /\ UNCHANGED <<attempts, known, failures>>

\* A worked-on job succeeds or fails; one that still waits may be called off.
Conclude(j) ==
    /\ \/ Move(j, "working", "concluded") /\ failures' \in {failures, failures + 1}
       \/ Move(j, "waiting", "concluded") /\ UNCHANGED failures
    /\ UNCHANGED <<attempts, known>>

Forget(j) ==
    /\ phase[j] \in {"rejected", "concluded"} /\ j \in known
    /\ known' = known \ {j}
    /\ UNCHANGED <<phase, attempts, failures>>

Next ==
    \E j \in Jobs :
        \/ TakeIn(j) \/ Register(j) \/ Reject(j) \/ Work(j)
        \/ Retry(j) \/ PutBack(j) \/ Conclude(j) \/ Forget(j)

Spec == Init /\ [][Next]_lifecycle
==============================================================================
