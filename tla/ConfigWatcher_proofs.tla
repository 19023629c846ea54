------------------------- MODULE ConfigWatcher_proofs -------------------------
(***************************************************************************)
(* Theorems about the configuration's hot reloading, for any contents of   *)
(* the file, values of the environment, history and number of retries.     *)
(***************************************************************************)
EXTENDS ConfigWatcher, SequenceTheorems, TLAPS

\* While an update is under way, the watcher knows a value that was good to go
\* back to, and what it shows instead is the new value or a checked target.
UpdateUnderWay ==
    load.at \in {"proceed", "callback", "restore"} =>
        /\ load.old \notin Refused
        /\ ~load.undone /\ ~lost => app.base = load.old
        /\ load.at = "callback" =>
              /\ current = load.new \/ current \notin Refused
              /\ ~undone => current = load.new

IInv == TypeOK /\ UpdateUnderWay /\ CopiesAgree /\ RefusedIsPassing

\* What a new snapshot does to the history.
LEMMA HistoryGrows ==
    ASSUME TypeOK, NEW c \in Contents, AddToHistory(c)
    PROVE  history' \in Seq(Contents) /\ Len(history') \in 1..MaxHistory
<1> DEFINE h == Append(history, c)
<1>1. h \in Seq(Contents) /\ Len(h) = Len(history) + 1 /\ Len(history) \in 1..MaxHistory
  BY DEF TypeOK
<1>2. h # <<>> /\ Tail(h) \in Seq(Contents) /\ Len(Tail(h)) = Len(h) - 1
  BY <1>1, HeadTailProperties
<1>3. history' = IF Len(h) > MaxHistory THEN Tail(h) ELSE h
  BY DEF AddToHistory
<1> HIDE DEF h
<1>4. QED BY <1>1, <1>2, <1>3, BoundsAssumption

LEMMA SetCurrentTyped ==
    ASSUME TypeOK, SetCurrent, UNCHANGED <<outside, app, poll, lost>>,
           \/ load' = [load EXCEPT !.at = "callback", !.old = current, !.undone = undone]
           \/ load' = [load EXCEPT !.at = "callback"]
    PROVE  current' = load.new /\ undone' = FALSE /\ TypeOK'
<1>1. /\ current' = load.new /\ undone' = FALSE /\ AddToHistory(load.new)
      /\ UNCHANGED <<tracked, override>> /\ load.new \in Contents
  BY DEF SetCurrent, TypeOK
<1>2. history' \in Seq(Contents) /\ Len(history') \in 1..MaxHistory
  BY <1>1, HistoryGrows
<1>3. load' \in [at : {"callback"}, new : Contents, old : Contents,
                tries : 0..MaxRetries - 1, undone : BOOLEAN]
  BY DEF TypeOK
<1>4. QED BY <1>1, <1>2, <1>3 DEF TypeOK, outside

\* What a failed attempt leaves of the load.
LEMMA RetryLoad ==
    ASSUME TypeOK, Retry
    PROVE  /\ load' \in [at : {"idle", "read"}, new : Contents, old : Contents,
                         tries : 0..MaxRetries - 1, undone : BOOLEAN]
           /\ load'.at \notin {"proceed", "callback", "restore"}
<1>1. NoLoad \in [at : {"idle"}, new : Contents, old : Contents,
                   tries : 0..MaxRetries - 1, undone : BOOLEAN]
  BY ContentsAssumption, BoundsAssumption DEF NoLoad
<1>2. CASE load.tries + 1 < MaxRetries
  <2>1. load.tries + 1 \in 0..MaxRetries - 1
    BY <1>2, BoundsAssumption DEF TypeOK
  <2>2. load' = [NoLoad EXCEPT !.at = "read", !.tries = load.tries + 1]
    BY <1>2 DEF Retry
  <2>3. QED BY <1>1, <2>1, <2>2
<1>3. CASE ~(load.tries + 1 < MaxRetries)
  BY <1>1, <1>3 DEF Retry
<1>4. QED BY <1>2, <1>3

\* The world outside touches none of what the watcher and the manager keep.
LEMMA WriterInv == ASSUME IInv, Writer PROVE IInv'
<1>1. UNCHANGED <<watcher, app, load, poll, excuses>>
  BY DEF Writer, BeginWrite, EndWrite, ReplaceFile, RemoveFile, SetEnv
<1>2. file' \in Contents \cup {Torn} /\ env' \in Values \cup {FromFile}
  BY DEF Writer, BeginWrite, EndWrite, ReplaceFile, RemoveFile, SetEnv, IInv, TypeOK
<1>3. changes' \in 0..MaxChanges
  BY BoundsAssumption
  DEF Writer, BeginWrite, EndWrite, ReplaceFile, RemoveFile, SetEnv, Change, IInv, TypeOK
<1>4. events' \in Seq({"write", "create", "remove"})
  <2>1. \/ events' = events
        \/ \E op \in {"write", "create", "remove"} : events' = Append(events, op)
    BY DEF Writer, BeginWrite, EndWrite, ReplaceFile, RemoveFile, SetEnv
  <2>2. events \in Seq({"write", "create", "remove"})
    BY DEF IInv, TypeOK
  <2>3. QED BY <2>1, <2>2, AppendProperties
<1>5. TypeOK'
  BY <1>1, <1>2, <1>3, <1>4 DEF IInv, TypeOK, watcher, excuses
<1>6. QED
  BY <1>1, <1>5 DEF IInv, UpdateUnderWay, CopiesAgree, RefusedIsPassing, watcher, excuses

LEMMA FileLoopInv == ASSUME IInv, FileLoop PROVE IInv'
<1>1. CASE HandleFileEvent
  <2>1. load' \in {load, [NoLoad EXCEPT !.at = "read"]} /\ load.at = "idle"
    BY <1>1 DEF HandleFileEvent
  <2>2. load' \in [at : {"idle", "read"}, new : Contents, old : Contents,
                   tries : 0..MaxRetries - 1, undone : BOOLEAN]
    <3>1. [NoLoad EXCEPT !.at = "read"] \in [at : {"read"}, new : Contents, old : Contents,
                                             tries : 0..MaxRetries - 1, undone : BOOLEAN]
      <4>1. NoLoad \in [at : {"idle"}, new : {First}, old : {First}, tries : {0},
                        undone : {FALSE}]
        BY DEF NoLoad
      <4>2. 0 \in 0..MaxRetries - 1 /\ First \in Contents
        BY ContentsAssumption, BoundsAssumption
      <4>3. QED BY <4>1, <4>2
    <3>2. load \in [at : {"idle"}, new : Contents, old : Contents,
                    tries : 0..MaxRetries - 1, undone : BOOLEAN]
      <4>1. load \in [at : {"idle", "read", "update", "proceed", "callback", "restore"},
                      new : Contents, old : Contents, tries : 0..MaxRetries - 1, undone : BOOLEAN]
        BY DEF IInv, TypeOK
      <4>2. QED BY <2>1, <4>1
    <3>3. QED BY <2>1, <3>1, <3>2
  <2>3. events' \in Seq({"write", "create", "remove"})
    <3>1. events' = Tail(events) /\ events # <<>> /\ events \in Seq({"write", "create", "remove"})
      BY <1>1 DEF HandleFileEvent, IInv, TypeOK
    <3>2. QED BY <3>1, HeadTailProperties
  <2>4. QED
    BY <1>1, <2>1, <2>2, <2>3
    DEF HandleFileEvent, IInv, TypeOK, UpdateUnderWay, CopiesAgree, RefusedIsPassing, watcher, excuses
<1>2. CASE ReadFile
  <2>1. load' \in [at : {"idle", "read", "update"}, new : Contents, old : Contents,
                   tries : 0..MaxRetries - 1, undone : BOOLEAN]
    BY <1>2, RetryLoad DEF ReadFile, IInv, TypeOK
  <2>2. load'.at \notin {"proceed", "callback", "restore"} /\ load.at = "read"
    BY <2>1, <1>2 DEF ReadFile
  <2>3. QED
    BY <1>2, <2>1, <2>2
    DEF ReadFile, IInv, TypeOK, UpdateUnderWay, CopiesAgree, RefusedIsPassing,
        outside, watcher, excuses
<1>3. CASE UpdateConfig
  <2>1. CASE load.new = current
    <3>1. load' = NoLoad /\ UNCHANGED <<outside, watcher, app, poll, excuses>> /\ load.at = "update"
      BY <1>3, <2>1 DEF UpdateConfig, excuses
    <3>2. load' \in [at : {"idle"}, new : Contents, old : Contents,
                     tries : 0..MaxRetries - 1, undone : BOOLEAN]
      BY <3>1, ContentsAssumption, BoundsAssumption DEF NoLoad
    <3>3. QED
      BY <3>1, <3>2
      DEF IInv, TypeOK, UpdateUnderWay, CopiesAgree, RefusedIsPassing, outside, watcher, excuses
  <2>2. CASE load.new # current /\ load.new \in Refused
    <3>1. /\ load' = [load EXCEPT !.at = "proceed", !.old = current, !.undone = undone]
          /\ load.at = "update" /\ UNCHANGED <<outside, watcher, app, poll, excuses>>
      BY <1>3, <2>2 DEF UpdateConfig, excuses
    <3>2. TypeOK'
      BY <3>1 DEF IInv, TypeOK, outside, watcher, excuses
    <3>3. load'.old = current /\ load'.undone = undone /\ load'.at = "proceed"
      BY <3>1 DEF IInv, TypeOK
    <3>4. QED
      BY <3>1, <3>2, <3>3
      DEF IInv, UpdateUnderWay, CopiesAgree, RefusedIsPassing, watcher, excuses
  <2>3. CASE load.new # current /\ load.new \notin Refused
    <3>1. /\ SetCurrent /\ load' = [load EXCEPT !.at = "callback", !.old = current, !.undone = undone]
          /\ load.at = "update" /\ UNCHANGED <<outside, app, poll, lost>>
      BY <1>3, <2>3 DEF UpdateConfig
    <3>2. current' = load.new /\ undone' = FALSE /\ TypeOK'
      BY <3>1, SetCurrentTyped DEF IInv
    <3>3. /\ load'.old = current /\ load'.undone = undone /\ load'.new = load.new
          /\ load'.at = "callback"
      BY <3>1 DEF IInv, TypeOK
    <3>4. QED
      BY <3>1, <3>2, <3>3 DEF IInv, UpdateUnderWay, CopiesAgree, RefusedIsPassing
  <2>4. QED BY <2>1, <2>2, <2>3
<1>4. CASE FileCallback
  <2>1. CASE load.new \in Refused
    <3>1. /\ load' = [load EXCEPT !.at = "restore"] /\ load.at = "callback"
          /\ UNCHANGED <<outside, watcher, app, poll, excuses>>
      BY <1>4, <2>1 DEF FileCallback, excuses
    <3>2. load'.at = "restore" /\ load'.old = load.old /\ load'.undone = load.undone
      BY <3>1 DEF IInv, TypeOK
    <3>3. TypeOK'
      BY <3>1 DEF IInv, TypeOK, outside, watcher, excuses
    <3>4. QED
      BY <3>1, <3>2, <3>3 DEF IInv, UpdateUnderWay, CopiesAgree, RefusedIsPassing, watcher, excuses
  <2>2. CASE load.new \notin Refused
    <3>1. /\ load' = NoLoad /\ load.at = "callback" /\ lost' = FALSE
          /\ app' = [base |-> load.new, field |-> FromFile]
          /\ UNCHANGED <<outside, watcher, poll, undone>>
      BY <1>4, <2>2 DEF FileCallback
    <3>2. load' \in [at : {"idle"}, new : Contents, old : Contents,
                     tries : 0..MaxRetries - 1, undone : BOOLEAN]
      BY <3>1, ContentsAssumption, BoundsAssumption DEF NoLoad
    <3>3. app' \in Config /\ app'.base = load.new
      BY <3>1 DEF IInv, TypeOK, Config
    <3>4. TypeOK'
      BY <3>1, <3>2, <3>3 DEF IInv, TypeOK, outside, watcher
    <3>5. QED
      BY <2>2, <3>1, <3>2, <3>3, <3>4
      DEF IInv, UpdateUnderWay, CopiesAgree, RefusedIsPassing, watcher
  <2>3. QED BY <2>1, <2>2
<1>5. CASE Restore
  <2>1. /\ load.at = "restore" /\ Retry /\ current' = load.old /\ undone' = load.undone
        /\ UNCHANGED <<outside, history, tracked, override, app, poll, lost>>
    BY <1>5 DEF Restore
  <2>2. /\ load' \in [at : {"idle", "read"}, new : Contents, old : Contents,
                      tries : 0..MaxRetries - 1, undone : BOOLEAN]
        /\ load'.at \notin {"proceed", "callback", "restore"}
    BY <2>1, RetryLoad DEF IInv
  <2>3. TypeOK'
    BY <2>1, <2>2 DEF IInv, TypeOK, outside
  <2>4. QED
    BY <2>1, <2>2, <2>3 DEF IInv, UpdateUnderWay, CopiesAgree, RefusedIsPassing
<1>6. CASE Proceed
  <2>1. /\ SetCurrent /\ load' = [load EXCEPT !.at = "callback"]
        /\ load.at = "proceed" /\ UNCHANGED <<outside, app, poll, lost>>
    BY <1>6 DEF Proceed
  <2>2. /\ load' \in [at : {"callback"}, new : Contents, old : Contents,
                      tries : 0..MaxRetries - 1, undone : BOOLEAN]
        /\ load'.old = load.old /\ load'.undone = load.undone /\ load'.new = load.new
        /\ load'.at = "callback"
    BY <2>1 DEF IInv, TypeOK
  <2>3. current' = load.new /\ undone' = FALSE /\ TypeOK'
    BY <2>1, <2>2, SetCurrentTyped DEF IInv
  <2>4. QED
    BY <2>1, <2>2, <2>3 DEF IInv, UpdateUnderWay, CopiesAgree, RefusedIsPassing
<1>7. QED
  BY <1>1, <1>2, <1>3, <1>4, <1>5, <1>6 DEF FileLoop

LEMMA EnvLoopInv == ASSUME IInv, EnvLoop PROVE IInv'
<1>1. UNCHANGED <<outside, current, history, load, undone>>
  BY DEF EnvLoop, CheckEnvironmentChanges, UpdateOverride, EnvCallback, SetConfig, RevertEnv,
         watcher, excuses
<1>2. /\ {tracked', override'} \subseteq Values \cup {FromFile}
      /\ poll' \in [at : {"idle", "update", "callback", "set", "revert"},
                    new : Values \cup {FromFile}, old : Values \cup {FromFile}, copy : Config]
  <2>1. NoPoll \in [at : {"idle"}, new : {FromFile}, old : {FromFile}, copy : Config]
    BY ContentsAssumption DEF NoPoll, Loaded, Config
  <2>2. CASE CheckEnvironmentChanges
    BY <2>1, <2>2 DEF CheckEnvironmentChanges, IInv, TypeOK, NoPoll
  <2>3. CASE UpdateOverride
    BY <2>1, <2>3 DEF UpdateOverride, IInv, TypeOK
  <2>4. CASE EnvCallback
    BY <2>4 DEF EnvCallback, IInv, TypeOK, watcher
  <2>5. CASE SetConfig
    BY <2>1, <2>5 DEF SetConfig, IInv, TypeOK, watcher
  <2>6. CASE RevertEnv
    BY <2>1, <2>6 DEF RevertEnv, IInv, TypeOK
  <2>7. QED
    BY <2>2, <2>3, <2>4, <2>5, <2>6 DEF EnvLoop
<1>3. app' \in Config /\ lost' \in BOOLEAN
  BY DEF EnvLoop, CheckEnvironmentChanges, UpdateOverride, EnvCallback, SetConfig, RevertEnv,
         excuses, IInv, TypeOK, Config
<1>4. ~lost' => ~lost /\ app'.base = app.base
  BY DEF EnvLoop, CheckEnvironmentChanges, UpdateOverride, EnvCallback, SetConfig, RevertEnv,
         excuses, IInv, TypeOK, Config
<1>5. TypeOK'
  BY <1>1, <1>2, <1>3 DEF IInv, TypeOK, outside
<1>6. QED
  BY <1>1, <1>4, <1>5 DEF IInv, UpdateUnderWay, CopiesAgree, RefusedIsPassing

LEMMA RollbackInv == ASSUME IInv, RollbackConfig PROVE IInv'
<1>1. PICK target \in ToSet(history) \ Refused : current' = target /\ AddToHistory(target)
  BY DEF RollbackConfig
<1>2. target \in Contents
  BY <1>1 DEF ToSet, IInv, TypeOK
<1>3. history' \in Seq(Contents) /\ Len(history') \in 1..MaxHistory
  BY <1>1, <1>2, HistoryGrows DEF IInv
<1>4. changes' \in 0..MaxChanges
  BY BoundsAssumption DEF RollbackConfig, Change, IInv, TypeOK
<1>5. TypeOK'
  BY <1>1, <1>2, <1>3, <1>4 DEF RollbackConfig, IInv, TypeOK
<1>6. QED
  BY <1>1, <1>5 DEF RollbackConfig, IInv, UpdateUnderWay, CopiesAgree, RefusedIsPassing

LEMMA InitInv == Init => IInv
<1> SUFFICES ASSUME Init PROVE IInv
  OBVIOUS
<1>1. load = NoLoad /\ poll = NoPoll /\ app = Loaded /\ history = <<First>> /\ events = <<>>
  BY DEF Init
<1>2. /\ NoLoad \in [at : {"idle"}, new : Contents, old : Contents,
                     tries : 0..MaxRetries - 1, undone : BOOLEAN]
      /\ Loaded \in Config /\ Loaded.base = First
      /\ NoPoll \in [at : {"idle"}, new : {FromFile}, old : {FromFile}, copy : Config]
  BY ContentsAssumption, BoundsAssumption DEF NoLoad, NoPoll, Loaded, Config
<1>3. <<First>> \in Seq(Contents) /\ Len(<<First>>) \in 1..MaxHistory
  BY ContentsAssumption, BoundsAssumption
<1>4. TypeOK
  <2>1. <<>> \in Seq({"write", "create", "remove"})
    OBVIOUS
  <2>2. load \in [at : {"idle", "read", "update", "proceed", "callback", "restore"},
                  new : Contents, old : Contents, tries : 0..MaxRetries - 1, undone : BOOLEAN]
    BY <1>1, <1>2
  <2>3. poll \in [at : {"idle", "update", "callback", "set", "revert"},
                  new : Values \cup {FromFile}, old : Values \cup {FromFile}, copy : Config]
    BY <1>1, <1>2
  <2>4. QED
    <3>1. /\ file \in Contents \cup {Torn} /\ current \in Contents
          /\ {env, tracked, override} \subseteq Values \cup {FromFile}
          /\ changes \in 0..MaxChanges /\ undone \in BOOLEAN /\ lost \in BOOLEAN
      <4>1. First \in Contents /\ 0 \in 0..MaxChanges
        BY ContentsAssumption, BoundsAssumption
      <4>2. QED BY <4>1 DEF Init
    <3>2. history \in Seq(Contents) /\ Len(history) \in 1..MaxHistory
      BY <1>1, <1>3
    <3>3. app \in Config
      BY <1>1, <1>2
    <3>4. events \in Seq({"write", "create", "remove"})
      BY <1>1, <2>1
    <3>5. QED BY <2>2, <2>3, <3>1, <3>2, <3>3, <3>4 DEF TypeOK
<1>5. QED
  BY <1>1, <1>2, <1>4, ContentsAssumption
  DEF Init, IInv, UpdateUnderWay, CopiesAgree, RefusedIsPassing

LEMMA StepInv == IInv /\ [Next]_vars => IInv'
<1>1. ASSUME IInv, UNCHANGED vars PROVE IInv'
  BY <1>1 DEF IInv, TypeOK, UpdateUnderWay, CopiesAgree, RefusedIsPassing,
              vars, outside, watcher, excuses
<1>2. QED
  BY <1>1, WriterInv, FileLoopInv, EnvLoopInv, RollbackInv DEF Next

\* The inductive invariant holds in every reachable state.
THEOREM Invariance == Spec => []IInv
BY InitInv, StepInv, PTL DEF Spec

\* Every variable keeps its type, and the history its bound: addToHistory.
THEOREM TypeCorrect == Spec => []TypeOK
<1>1. IInv => TypeOK
  BY DEF IInv
<1>2. QED BY <1>1, Invariance, PTL

\* The manager's copy is the watcher's, but for a rollback and for an override
\* set on an older copy: updateConfig, handleAppConfigChange.
THEOREM CopiesTheorem == Spec => []CopiesAgree
<1>1. IInv => CopiesAgree
  BY DEF IInv
<1>2. QED BY <1>1, Invariance, PTL

\* A refused configuration is shown only during the callback that refuses it.
THEOREM RefusedTheorem == Spec => []RefusedIsPassing
<1>1. IInv => RefusedIsPassing
  BY DEF IInv
<1>2. QED BY <1>1, Invariance, PTL
===============================================================================
