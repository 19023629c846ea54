------------------------ MODULE ShutdownManager_proofs ------------------------
(***************************************************************************)
(* Theorems about the shutdown manager, for any set of hooks and any       *)
(* priorities, signals and calls of Shutdown.                              *)
(***************************************************************************)
EXTENDS ShutdownManager, FiniteSetTheorems, WellFoundedInduction, TLAPS

\* What of TypeOK does not follow from the exact WaitGroup.
Typed ==
    /\ main \in {"serving", "waiting", "spawning", "collecting", "returned", "exited", "killed"}
    /\ signals \in 0..MaxSignals /\ calls \in 0..MaxCalls
    /\ mainChan \in BOOLEAN /\ smChan \in BOOLEAN /\ closed \in BOOLEAN
    /\ exec \in [Hooks -> {"none", "spawned", "running"} \cup Over]
    /\ cleanup \in [Hooks -> {"none", "running", "ok", "error"}]
    /\ errorChan \subseteq Hooks /\ errors \subseteq Hooks
    /\ result \in {"none", "ok", "errors"}

IInv == Typed /\ Bookkeeping

LEMMA BusyFinite == IsFiniteSet(Busy) /\ Cardinality(Busy) \in 0..Cardinality(Hooks)
<1>1. Busy \in SUBSET Hooks /\ IsFiniteSet(Hooks)
  BY ShutdownAssumption DEF Busy
<1>2. IsFiniteSet(Busy) /\ Cardinality(Busy) <= Cardinality(Hooks)
  BY <1>1, FS_Subset
<1>3. QED BY <1>1, <1>2, FS_CardinalityType

LEMMA InvType == IInv => TypeOK
BY BusyFinite DEF IInv, Typed, Bookkeeping, TypeOK

LEMMA InitInv == Init => IInv
<1>1. Init => Busy = {}
  BY DEF Init, Busy
<1>2. Init => Typed
  <2>1. Init => main \in {"serving", "waiting"}
    BY DEF Init
  <2>2. 0 \in 0..MaxSignals /\ 0 \in 0..MaxCalls
    BY ShutdownAssumption
  <2>3. QED BY <2>1, <2>2 DEF Init, Typed
<1>3. Init => Bookkeeping
  BY <1>1, FS_EmptySet DEF Init, Bookkeeping, Over
<1>4. QED
  BY <1>2, <1>3 DEF IInv

\* A step that leaves exec alone leaves the busy hooks alone.
LEMMA BusyFrame == ASSUME UNCHANGED exec PROVE Busy' = Busy
BY SMT DEF Busy

\* Signals and calls of Shutdown only move main towards the hooks.
LEMMA WaitInv ==
    ASSUME IInv, Signal \/ MainSignal \/ WaitSignal \/ Shutdown
    PROVE  IInv'
<1>1. Busy' = Busy
  BY DEF Busy, Signal, MainSignal, WaitSignal, Shutdown, hookVars
<1>2. Typed'
  <2>1. signals' \in 0..MaxSignals /\ calls' \in 0..MaxCalls
    BY ShutdownAssumption DEF IInv, Typed, Signal, MainSignal, WaitSignal, Shutdown
  <2>2. mainChan' \in BOOLEAN /\ smChan' \in BOOLEAN
    BY ShutdownAssumption DEF IInv, Typed, Signal, MainSignal, WaitSignal, Shutdown
  <2>3. QED
    BY <2>1, <2>2 DEF IInv, Typed, Signal, MainSignal, WaitSignal, Shutdown, hookVars
<1>3. Bookkeeping'
  BY <1>1 DEF IInv, Typed, Bookkeeping, Signal, MainSignal, WaitSignal, Shutdown, hookVars
<1>4. QED BY <1>2, <1>3 DEF IInv

LEMMA CollectInv ==
    ASSUME IInv, Spawned \/ CloseErrors \/ Finish \/ Exit \/ ForceKill \/ \E h \in Hooks : Collect(h)
    PROVE  IInv'
<1>1. Busy' = Busy
  BY BusyFrame DEF Spawned, CloseErrors, Finish, Exit, ForceKill, Collect, hookVars
<1>2. Typed'
  BY DEF IInv, Typed, Spawned, CloseErrors, Finish, Exit, ForceKill, Collect, hookVars, waitVars
<1>3. CASE CloseErrors
  <2>1. Busy = {}
    BY <1>3, BusyFinite, FS_EmptySet DEF CloseErrors, IInv, Bookkeeping
  <2>2. \A h \in Hooks : exec[h] \in Over
    BY <1>3, <2>1 DEF CloseErrors, IInv, Typed, Bookkeeping, Busy
  <2>3. Bookkeeping'
    BY <1>1, <1>3, <2>2 DEF CloseErrors, IInv, Bookkeeping, hookVars
  <2>4. QED BY <1>2, <2>3 DEF IInv
<1>4. CASE Spawned \/ Finish \/ Exit \/ ForceKill
  <2>1. Bookkeeping'
    BY <1>1, <1>4 DEF Spawned, Finish, Exit, ForceKill, IInv, Typed, Bookkeeping, hookVars
  <2>2. QED BY <1>2, <2>1 DEF IInv
<1>5. CASE \E h \in Hooks : Collect(h)
  <2>1. Bookkeeping'
    BY <1>1, <1>5 DEF Collect, IInv, Typed, Bookkeeping
  <2>2. QED BY <1>2, <2>1 DEF IInv
<1>6. QED BY <1>3, <1>4, <1>5

\* A hook enters the busy ones with wg.Add and leaves them with wg.Done.
LEMMA HookInv ==
    ASSUME IInv, NEW h \in Hooks,
           Spawn(h) \/ HookStart(h) \/ CleanupEnds(h) \/ HookDone(h) \/ HookTimeout(h)
    PROVE  IInv'
<1>0. IsFiniteSet(Busy) /\ Cardinality(Busy) \in Nat
  BY BusyFinite, FS_CardinalityType
<1>1. CASE Spawn(h)
  <2>1. Busy' = Busy \cup {h} /\ h \notin Busy
    BY <1>1 DEF Spawn, Busy, IInv, Typed
  <2>2. Cardinality(Busy') = Cardinality(Busy) + 1
    BY <1>0, <2>1, FS_AddElement
  <2>3. QED
    BY <1>1, <2>2 DEF Spawn, IInv, Typed, Bookkeeping, Over, waitVars
<1>2. CASE HookStart(h)
  <2>1. Busy' = Busy
    BY <1>2 DEF HookStart, Busy, IInv, Typed
  <2>2. QED
    BY <1>2, <2>1 DEF HookStart, IInv, Typed, Bookkeeping, Over, waitVars
<1>3. CASE CleanupEnds(h)
  <2>1. Busy' = Busy
    BY <1>3, BusyFrame DEF CleanupEnds
  <2>2. QED
    BY <1>3, <2>1 DEF CleanupEnds, IInv, Typed, Bookkeeping, waitVars
<1>4. CASE HookDone(h) \/ HookTimeout(h)
  <2>1. Busy' = Busy \ {h} /\ h \in Busy
    BY <1>4 DEF HookDone, HookTimeout, Busy, IInv, Typed
  <2>2. Cardinality(Busy') = Cardinality(Busy) - 1
    BY <1>0, <2>1, FS_RemoveElement
  <2>3. ~closed /\ result = "none"
    BY <1>4 DEF HookDone, HookTimeout, IInv, Typed, Bookkeeping, Over
  <2>4. Typed'
    BY <1>4 DEF HookDone, HookTimeout, IInv, Typed, Over, waitVars
  <2>5. Bookkeeping'
    BY <1>4, <2>2, <2>3 DEF HookDone, HookTimeout, IInv, Typed, Bookkeeping, Over, waitVars
  <2>6. QED BY <2>4, <2>5 DEF IInv
<1>5. QED BY <1>1, <1>2, <1>3, <1>4

\* The bookkeeping of initiateShutdown and executeHook is right at every step.
THEOREM InvKept == Spec => []IInv
<1>1. IInv /\ [Next]_vars => IInv'
  <2>1. IInv /\ Next => IInv'
    BY WaitInv, CollectInv, HookInv DEF Next
  <2>2. IInv /\ UNCHANGED vars => IInv'
    BY BusyFrame
       DEF IInv, Typed, Bookkeeping, vars, waitVars, hookVars
  <2>3. QED BY <2>1, <2>2
<1>2. QED BY InitInv, <1>1, PTL DEF Spec

\* The variables keep their types; in particular the WaitGroup never goes
\* negative, which would panic (wg.Add and wg.Done in initiateShutdown).
THEOREM TypeCorrect == Spec => []TypeOK
BY InvKept, InvType, PTL

\* WaitForShutdown reports success only when every cleanup has succeeded.
THEOREM SuccessKept == Spec => []SuccessIsHonest
<1>1. IInv => SuccessIsHonest
  BY DEF IInv, Typed, Bookkeeping, SuccessIsHonest, Over
<1>2. QED BY InvKept, <1>1, PTL

\* WaitForShutdown returns after the last executeHook.
THEOREM HooksOverKept == Spec => []AllHooksOver
<1>1. IInv => AllHooksOver
  BY DEF IInv, Bookkeeping, AllHooksOver
<1>2. QED BY InvKept, <1>1, PTL

-----------------------------------------------------------------------------
(* What ShutdownEnds rests on, fairness aside: the goroutines of a         *)
(* shutdown never wait for each other for ever, and it has finitely many   *)
(* steps.                                                                  *)

\* The guards of the steps of a shutdown; a cleanup need not end.
OwnerCanGoOn ==
    \/ main = "spawning" /\ \A h \in Hooks : exec[h] # "none"
    \/ main = "collecting" /\ (wg = 0 \/ closed \/ errorChan # {})
    \/ main = "returned"
SpawnCanGoOn(h) ==
    /\ main = "spawning" /\ exec[h] = "none"
    /\ \A g \in Hooks : exec[g] = "none" => Priority[h] <= Priority[g]
HookCanGoOn(h) == exec[h] \in {"spawned", "running"}

\* A shutdown under way always has a step to make.
ShutdownGoesOn ==
    main \in {"spawning", "collecting", "returned"} =>
      OwnerCanGoOn \/ \E h \in Hooks : SpawnCanGoOn(h) \/ HookCanGoOn(h)

\* The steps a process has left before it ends, signals and calls of Shutdown
\* that come too late aside: every hook has to be spawned, started, over, its
\* cleanup ended and its error collected.
Unspawned   == {h \in Hooks : exec[h] = "none"}
Unstarted   == {h \in Hooks : exec[h] \in {"none", "spawned"}}
Unfinished  == {h \in Hooks : exec[h] \notin Over}
Uncleaned   == {h \in Hooks : cleanup[h] \in {"none", "running"}}
Uncollected == Hooks \ errors
OwnerSteps ==
    CASE main = "serving"    -> 5 [] main = "waiting"  -> 4 [] main = "spawning" -> 3
      [] main = "collecting" -> 2 [] main = "returned" -> 1 [] OTHER -> 0
ClosingSteps == IF closed THEN 0 ELSE 1
StepsLeft ==
    Cardinality(Unspawned) + Cardinality(Unstarted) + Cardinality(Unfinished)
      + Cardinality(Uncleaned) + Cardinality(Uncollected) + OwnerSteps + ClosingSteps

\* The hook of the lowest number among those not spawned.
LEMMA Least == ASSUME NEW T \in SUBSET Nat, T # {} PROVE \E n \in T : \A m \in T : n <= m
<1>1. PICK n \in T : \A m \in T : ~(<<m, n>> \in OpToRel(<, Nat))
  BY NatLessThanWellFounded, WFMin
<1>2. ASSUME NEW m \in T PROVE n <= m
  <2>1. ~(m < n)
    BY <1>1, <1>2 DEF OpToRel
  <2>2. QED BY <2>1
<1>3. QED BY <1>2

\* sort.Slice finds a next hook, wg.Wait ends when the last executeHook does,
\* and the collector is never left with a channel that nobody closes
\* (initiateShutdown, executeHook).
THEOREM ShutdownNeverBlocks == Spec => []ShutdownGoesOn
<1>1. ASSUME IInv, main = "spawning"
      PROVE  OwnerCanGoOn \/ \E h \in Hooks : SpawnCanGoOn(h)
  <2> SUFFICES ASSUME ~OwnerCanGoOn PROVE \E h \in Hooks : SpawnCanGoOn(h)
    OBVIOUS
  <2>1. PICK g \in Hooks : exec[g] = "none"
    BY <1>1 DEF OwnerCanGoOn
  <2>2. DEFINE T == {Priority[h] : h \in Unspawned}
  <2>3. T \in SUBSET Nat /\ T # {}
    BY <2>1, ShutdownAssumption DEF Unspawned
  <2>4. PICK n \in T : \A m \in T : n <= m
    BY <2>3, Least
  <2>5. PICK h \in Unspawned : n = Priority[h]
    OBVIOUS
  <2>6. \A k \in Unspawned : Priority[h] <= Priority[k]
    BY <2>4, <2>5
  <2>7. h \in Hooks /\ SpawnCanGoOn(h)
    BY <1>1, <2>5, <2>6 DEF SpawnCanGoOn, Unspawned
  <2>8. QED BY <2>7
<1>2. ASSUME IInv, main = "collecting"
      PROVE  OwnerCanGoOn \/ \E h \in Hooks : HookCanGoOn(h)
  <2>1. CASE wg = 0
    BY <1>2, <2>1 DEF OwnerCanGoOn
  <2>2. CASE wg # 0
    <3>1. Busy # {}
      BY <1>2, <2>2, FS_EmptySet DEF IInv, Bookkeeping
    <3>2. QED BY <3>1 DEF Busy, HookCanGoOn
  <2>3. QED BY <2>1, <2>2
<1>3. main = "returned" => OwnerCanGoOn
  BY DEF OwnerCanGoOn
<1>4. IInv => ShutdownGoesOn
  BY <1>1, <1>2, <1>3 DEF ShutdownGoesOn
<1>5. QED BY InvKept, <1>4, PTL

\* A cleanup starts with its executeHook, an error is put into the channel when
\* that is over, and collected once.
ErrorOnce ==
    /\ \A h \in Hooks : exec[h] \in {"none", "spawned"} => cleanup[h] = "none"
    /\ errorChan \cap errors = {}
    /\ \A h \in Hooks : exec[h] \notin Over => h \notin errorChan \cup errors

LEMMA ErrorOnceInit == Init => ErrorOnce
BY DEF Init, ErrorOnce, Over

LEMMA ErrorOnceStep == ASSUME IInv, ErrorOnce, [Next]_vars PROVE ErrorOnce'
<1>1. ASSUME NEW h \in Hooks,
             Spawn(h) \/ HookStart(h) \/ CleanupEnds(h) \/ HookDone(h) \/ HookTimeout(h)
      PROVE  ErrorOnce'
  <2>1. UNCHANGED errors /\ errorChan' \in {errorChan, errorChan \cup {h}}
    BY <1>1 DEF Spawn, HookStart, CleanupEnds, HookDone, HookTimeout
  <2>2. \A g \in Hooks : g # h => exec'[g] = exec[g] /\ cleanup'[g] = cleanup[g]
    BY <1>1 DEF IInv, Typed, Spawn, HookStart, CleanupEnds, HookDone, HookTimeout
  <2>3. exec'[h] \in {"none", "spawned"} => cleanup'[h] = "none"
    BY <1>1 DEF IInv, Typed, ErrorOnce, Spawn, HookStart, CleanupEnds, HookDone, HookTimeout, Over
  <2>4. exec'[h] \notin Over => exec[h] \notin Over /\ errorChan' = errorChan
    BY <1>1 DEF IInv, Typed, Spawn, HookStart, CleanupEnds, HookDone, HookTimeout, Over
  <2>5. errorChan' # errorChan => exec[h] \notin Over
    BY <1>1 DEF Spawn, HookStart, CleanupEnds, HookDone, HookTimeout, Over
  <2>6. QED BY <2>1, <2>2, <2>3, <2>4, <2>5 DEF ErrorOnce
<1>2. ASSUME NEW h \in Hooks, Collect(h) PROVE ErrorOnce'
  BY <1>2 DEF Collect, ErrorOnce
<1>3. CASE \/ Signal \/ MainSignal \/ WaitSignal \/ Shutdown
           \/ Spawned \/ CloseErrors \/ Finish \/ Exit \/ ForceKill \/ UNCHANGED vars
  BY <1>3 DEF Signal, MainSignal, WaitSignal, Shutdown, Spawned, CloseErrors, Finish, Exit,
              ForceKill, vars, hookVars, ErrorOnce
<1>4. QED BY <1>1, <1>2, <1>3 DEF Next

\* A subset of the hooks that loses a member has fewer.
LEMMA Shrinks ==
    ASSUME NEW S \in SUBSET Hooks, NEW T \in SUBSET S
    PROVE  /\ Cardinality(S) \in Nat /\ Cardinality(T) \in Nat
           /\ Cardinality(T) <= Cardinality(S)
           /\ T # S => Cardinality(T) < Cardinality(S)
<1>1. IsFiniteSet(S)
  BY ShutdownAssumption, FS_Subset
<1>2. IsFiniteSet(T) /\ Cardinality(T) <= Cardinality(S) /\ (Cardinality(S) = Cardinality(T) => S = T)
  BY <1>1, FS_Subset
<1>3. Cardinality(S) \in Nat /\ Cardinality(T) \in Nat
  BY <1>1, <1>2, FS_CardinalityType
<1>4. QED BY <1>2, <1>3

LEMMA OwnerType == OwnerSteps \in Nat /\ ClosingSteps \in Nat
BY DEF OwnerSteps, ClosingSteps

LEMMA StepsType == StepsLeft \in Nat
<1>1. /\ Unspawned \in SUBSET Hooks /\ Unstarted \in SUBSET Hooks /\ Unfinished \in SUBSET Hooks
      /\ Uncleaned \in SUBSET Hooks /\ Uncollected \in SUBSET Hooks
  BY DEF Unspawned, Unstarted, Unfinished, Uncleaned, Uncollected
<1>2. /\ Cardinality(Unspawned) \in Nat /\ Cardinality(Unstarted) \in Nat
      /\ Cardinality(Unfinished) \in Nat /\ Cardinality(Uncleaned) \in Nat
      /\ Cardinality(Uncollected) \in Nat
  BY <1>1, Shrinks
<1>3. QED BY <1>2, OwnerType DEF StepsLeft

LEMMA StepsTypeNext == (StepsLeft \in Nat)'
BY StepsType, PTL

\* No set grows, and neither the owner nor the channel goes back, ...
Onwards ==
    /\ Unspawned' \subseteq Unspawned /\ Unstarted' \subseteq Unstarted
    /\ Unfinished' \subseteq Unfinished /\ Uncleaned' \subseteq Uncleaned
    /\ Uncollected' \subseteq Uncollected
    /\ OwnerSteps' <= OwnerSteps /\ ClosingSteps' <= ClosingSteps

\* ... and something is less than before.
Less ==
    \/ Unspawned' # Unspawned \/ Unstarted' # Unstarted \/ Unfinished' # Unfinished
    \/ Uncleaned' # Uncleaned \/ Uncollected' # Uncollected
    \/ OwnerSteps' < OwnerSteps \/ ClosingSteps' < ClosingSteps

LEMMA OnwardsCounts ==
    ASSUME Onwards
    PROVE  StepsLeft' <= StepsLeft /\ (Less => StepsLeft' < StepsLeft)
<1>1. /\ Unspawned \in SUBSET Hooks /\ Unstarted \in SUBSET Hooks /\ Unfinished \in SUBSET Hooks
      /\ Uncleaned \in SUBSET Hooks /\ Uncollected \in SUBSET Hooks
  BY DEF Unspawned, Unstarted, Unfinished, Uncleaned, Uncollected
<1>2. /\ Unspawned' \in SUBSET Unspawned /\ Unstarted' \in SUBSET Unstarted
      /\ Unfinished' \in SUBSET Unfinished /\ Uncleaned' \in SUBSET Uncleaned
      /\ Uncollected' \in SUBSET Uncollected
  BY DEF Onwards
<1>3. /\ OwnerSteps \in Nat /\ ClosingSteps \in Nat /\ OwnerSteps' \in Nat /\ ClosingSteps' \in Nat
  BY DEF OwnerSteps, ClosingSteps
<1>4. \A a, b, c, d, e, o, k, a1, b1, c1, d1, e1, o1, k1 \in Nat :
        a1 <= a /\ b1 <= b /\ c1 <= c /\ d1 <= d /\ e1 <= e /\ o1 <= o /\ k1 <= k =>
          /\ a1 + b1 + c1 + d1 + e1 + o1 + k1 <= a + b + c + d + e + o + k
          /\ (a1 < a \/ b1 < b \/ c1 < c \/ d1 < d \/ e1 < e \/ o1 < o \/ k1 < k =>
                a1 + b1 + c1 + d1 + e1 + o1 + k1 < a + b + c + d + e + o + k)
  OBVIOUS
<1>5. /\ Cardinality(Unspawned) \in Nat /\ Cardinality(Unspawned') \in Nat
      /\ Cardinality(Unspawned') <= Cardinality(Unspawned)
      /\ Unspawned' # Unspawned => Cardinality(Unspawned') < Cardinality(Unspawned)
  BY <1>1, <1>2, Shrinks
<1>6. /\ Cardinality(Unstarted) \in Nat /\ Cardinality(Unstarted') \in Nat
      /\ Cardinality(Unstarted') <= Cardinality(Unstarted)
      /\ Unstarted' # Unstarted => Cardinality(Unstarted') < Cardinality(Unstarted)
  BY <1>1, <1>2, Shrinks
<1>7. /\ Cardinality(Unfinished) \in Nat /\ Cardinality(Unfinished') \in Nat
      /\ Cardinality(Unfinished') <= Cardinality(Unfinished)
      /\ Unfinished' # Unfinished => Cardinality(Unfinished') < Cardinality(Unfinished)
  BY <1>1, <1>2, Shrinks
<1>8. /\ Cardinality(Uncleaned) \in Nat /\ Cardinality(Uncleaned') \in Nat
      /\ Cardinality(Uncleaned') <= Cardinality(Uncleaned)
      /\ Uncleaned' # Uncleaned => Cardinality(Uncleaned') < Cardinality(Uncleaned)
  BY <1>1, <1>2, Shrinks
<1>9. /\ Cardinality(Uncollected) \in Nat /\ Cardinality(Uncollected') \in Nat
      /\ Cardinality(Uncollected') <= Cardinality(Uncollected)
      /\ Uncollected' # Uncollected => Cardinality(Uncollected') < Cardinality(Uncollected)
  BY <1>1, <1>2, Shrinks
<1>10. OwnerSteps' <= OwnerSteps /\ ClosingSteps' <= ClosingSteps
  BY DEF Onwards
<1>11. StepsLeft' <= StepsLeft
  BY <1>3, <1>4, <1>5, <1>6, <1>7, <1>8, <1>9, <1>10 DEF StepsLeft
<1>12. Less => StepsLeft' < StepsLeft
  BY <1>3, <1>4, <1>5, <1>6, <1>7, <1>8, <1>9, <1>10 DEF StepsLeft, Less
<1>13. QED BY <1>11, <1>12

\* The steps of one hook.
LEMMA HookCounts ==
    ASSUME IInv, ErrorOnce, NEW h \in Hooks,
           \/ Spawn(h) \/ HookStart(h) \/ CleanupEnds(h)
           \/ HookDone(h) \/ HookTimeout(h) \/ Collect(h)
    PROVE  Onwards /\ Less
<1>0. /\ main \in {"serving", "waiting", "spawning", "collecting", "returned", "exited", "killed"}
      /\ OwnerSteps \in Nat /\ ClosingSteps \in Nat
  BY OwnerType DEF IInv, Typed
<1>1. UNCHANGED <<main, closed>> => OwnerSteps' = OwnerSteps /\ ClosingSteps' = ClosingSteps
  BY DEF OwnerSteps, ClosingSteps
<1>2. CASE Spawn(h)
  <2>1. /\ UNCHANGED <<main, closed, errors, cleanup>> /\ exec[h] = "none"
        /\ \A g \in Hooks : exec'[g] = IF g = h THEN "spawned" ELSE exec[g]
    BY <1>2 DEF Spawn, IInv, Typed
  <2>2. /\ Unspawned' = Unspawned \ {h} /\ h \in Unspawned
        /\ Unstarted' = Unstarted /\ Unfinished' = Unfinished /\ Uncleaned' = Uncleaned
        /\ Uncollected' = Uncollected
    BY <2>1 DEF Unspawned, Unstarted, Unfinished, Uncleaned, Uncollected, Over
  <2>3. QED BY <1>0, <1>1, <2>1, <2>2 DEF Onwards, Less
<1>3. CASE HookStart(h)
  <2>1. /\ UNCHANGED <<main, closed, errors>> /\ exec[h] = "spawned" /\ cleanup[h] = "none"
        /\ \A g \in Hooks : /\ exec'[g] = IF g = h THEN "running" ELSE exec[g]
                            /\ cleanup'[g] = IF g = h THEN "running" ELSE cleanup[g]
    BY <1>3 DEF HookStart, IInv, Typed, ErrorOnce
  <2>2. /\ Unstarted' = Unstarted \ {h} /\ h \in Unstarted
        /\ Unspawned' = Unspawned /\ Unfinished' = Unfinished /\ Uncleaned' = Uncleaned
        /\ Uncollected' = Uncollected
    BY <2>1 DEF Unspawned, Unstarted, Unfinished, Uncleaned, Uncollected, Over
  <2>3. QED BY <1>0, <1>1, <2>1, <2>2 DEF Onwards, Less
<1>4. CASE CleanupEnds(h)
  <2>1. /\ UNCHANGED <<main, closed, errors, exec>> /\ cleanup[h] = "running"
        /\ cleanup'[h] \in {"ok", "error"}
        /\ \A g \in Hooks : g # h => cleanup'[g] = cleanup[g]
    BY <1>4 DEF CleanupEnds, IInv, Typed
  <2>2. /\ Uncleaned' = Uncleaned \ {h} /\ h \in Uncleaned
        /\ Unspawned' = Unspawned /\ Unstarted' = Unstarted /\ Unfinished' = Unfinished
        /\ Uncollected' = Uncollected
    BY <2>1 DEF Unspawned, Unstarted, Unfinished, Uncleaned, Uncollected
  <2>3. QED BY <1>0, <1>1, <2>1, <2>2 DEF Onwards, Less
<1>5. CASE HookDone(h) \/ HookTimeout(h)
  <2>1. /\ UNCHANGED <<main, closed, errors, cleanup>> /\ exec[h] = "running"
        /\ exec'[h] \in Over /\ \A g \in Hooks : g # h => exec'[g] = exec[g]
    BY <1>5 DEF HookDone, HookTimeout, IInv, Typed, Over
  <2>2. /\ Unfinished' = Unfinished \ {h} /\ h \in Unfinished
        /\ Unspawned' = Unspawned /\ Unstarted' = Unstarted /\ Uncleaned' = Uncleaned
        /\ Uncollected' = Uncollected
    BY <2>1 DEF Unspawned, Unstarted, Unfinished, Uncleaned, Uncollected, Over
  <2>3. QED BY <1>0, <1>1, <2>1, <2>2 DEF Onwards, Less
<1>6. CASE Collect(h)
  <2>1. UNCHANGED <<main, closed, exec, cleanup>> /\ errors' = errors \cup {h} /\ h \notin errors
    BY <1>6 DEF Collect, ErrorOnce
  <2>2. /\ Uncollected' = Uncollected \ {h} /\ h \in Uncollected
        /\ Unspawned' = Unspawned /\ Unstarted' = Unstarted /\ Unfinished' = Unfinished
        /\ Uncleaned' = Uncleaned
    BY <2>1 DEF Unspawned, Unstarted, Unfinished, Uncleaned, Uncollected
  <2>3. QED BY <1>0, <1>1, <2>1, <2>2 DEF Onwards, Less
<1>7. QED BY <1>2, <1>3, <1>4, <1>5, <1>6

\* The steps of the owner, of the goroutine that closes the channel, and of
\* those who ask for a shutdown.
LEMMA OwnerCounts ==
    ASSUME IInv, \/ Signal \/ MainSignal \/ WaitSignal \/ Shutdown
                 \/ Spawned \/ CloseErrors \/ Finish \/ Exit \/ ForceKill
    PROVE  Onwards /\ (Less \/ Signal \/ Shutdown)
<1>1. UNCHANGED <<exec, cleanup, errors>>
  BY DEF Signal, MainSignal, WaitSignal, Shutdown, Spawned, CloseErrors, Finish, Exit, ForceKill,
         hookVars
<1>2. /\ Unspawned' = Unspawned /\ Unstarted' = Unstarted /\ Unfinished' = Unfinished
      /\ Uncleaned' = Uncleaned /\ Uncollected' = Uncollected
  BY <1>1 DEF Unspawned, Unstarted, Unfinished, Uncleaned, Uncollected
<1>3. CASE CloseErrors
  <2>1. OwnerSteps' = OwnerSteps /\ ClosingSteps = 1 /\ ClosingSteps' = 0
    BY <1>3 DEF CloseErrors, OwnerSteps, ClosingSteps
  <2>2. QED BY <1>2, <2>1, OwnerType DEF Onwards, Less
<1>4. CASE MainSignal \/ WaitSignal \/ Spawned \/ Finish \/ Exit \/ ForceKill
  <2>1. /\ closed' = closed
        /\ \/ main = "serving"    /\ main' = "waiting"
           \/ main = "waiting"    /\ main' = "spawning"
           \/ main = "spawning"   /\ main' = "collecting"
           \/ main = "collecting" /\ main' = "returned"
           \/ main = "returned"   /\ main' \in {"exited", "killed"}
    BY <1>4 DEF MainSignal, WaitSignal, Spawned, Finish, Exit, ForceKill
  <2>2. OwnerSteps' < OwnerSteps /\ ClosingSteps' = ClosingSteps
    BY <2>1 DEF OwnerSteps, ClosingSteps
  <2>3. OwnerSteps' \in Nat
    BY DEF OwnerSteps
  <2>4. QED BY <1>2, <2>2, <2>3, OwnerType DEF Onwards, Less
<1>5. CASE Signal \/ Shutdown
  <2>1. closed' = closed /\ (main' = main \/ (main = "waiting" /\ main' = "spawning"))
    BY <1>5 DEF Signal, Shutdown
  <2>2. OwnerSteps' <= OwnerSteps /\ ClosingSteps' = ClosingSteps
    BY <2>1 DEF OwnerSteps, ClosingSteps
  <2>3. QED BY <1>2, <1>5, <2>2, OwnerType DEF Onwards
<1>6. QED BY <1>3, <1>4, <1>5

\* A process that has been asked to stop makes finitely many steps until it
\* ends, whatever the hooks do; signals and calls of Shutdown that come on top
\* of that undo none of them (initiateShutdown, executeHook).
THEOREM ShutdownIsFinite ==
    Spec => /\ [](StepsLeft \in Nat)
            /\ [][StepsLeft' < StepsLeft \/ (StepsLeft' = StepsLeft /\ (Signal \/ Shutdown))]_vars
<1>1. ASSUME IInv, ErrorOnce, Next
      PROVE  StepsLeft' < StepsLeft \/ (StepsLeft' = StepsLeft /\ (Signal \/ Shutdown))
  <2>1. Onwards /\ (Less \/ Signal \/ Shutdown)
    BY <1>1, HookCounts, OwnerCounts DEF Next
  <2>2. StepsLeft' <= StepsLeft /\ (Less => StepsLeft' < StepsLeft)
    BY <2>1, OnwardsCounts
  <2>3. StepsLeft \in Nat /\ StepsLeft' \in Nat
    BY StepsType, StepsTypeNext
  <2>4. QED BY <2>1, <2>2, <2>3
<1>2. IInv /\ ErrorOnce /\ [Next]_vars =>
        [StepsLeft' < StepsLeft \/ (StepsLeft' = StepsLeft /\ (Signal \/ Shutdown))]_vars
  BY <1>1
<1>3. IInv /\ ErrorOnce /\ [Next]_vars => ErrorOnce'
  BY ErrorOnceStep
<1>4. QED BY <1>2, <1>3, InvKept, ErrorOnceInit, StepsType, PTL DEF Spec
==============================================================================
