---------------------------- MODULE ConfigWatcher ----------------------------
(***************************************************************************)
(* Hot reloading of the configuration: ConfigWatcher                       *)
(* (infrastructure/config_watcher.go) and the ConfigManager that uses it   *)
(* (config/watcher_integration.go).  Both keep a copy.  A goroutine turns  *)
(* events of the file into updates of "app_config", another polls the      *)
(* environment, callers roll "app_config" back; updateConfig sets the new  *)
(* value, runs the manager's callback without the lock and sets the old    *)
(* value again when the callback refuses.                                  *)
(*                                                                         *)
(* A configuration is the content of the file it came from.  Of the fields *)
(* that the environment may override one with a check of its own is kept   *)
(* (Auth.JWTSecret); the manager's copy then has two parts, the file it is *)
(* based on and the source of that field.                                  *)
(***************************************************************************)
EXTENDS Integers, Sequences, SequencesExt

CONSTANTS
    Contents,        \* contents of the file that parse
    Refused,         \* those appConfig.Validate refuses
    Values,          \* values of the environment variable
    Short,           \* those the handler refuses
    First,           \* the content loaded at the start
    Torn,            \* the file while it is written or gone
    FromFile,        \* the field's source when the file was loaded last
    MaxRetries,      \* attempts to load the file
    MaxHistory,      \* MaxHistorySize
    MaxChanges       \* bound: changes of the file, of the environment, rollbacks

ASSUME ContentsAssumption ==
    /\ Refused \subseteq Contents /\ First \in Contents \ Refused /\ Torn \notin Contents
ASSUME ValuesAssumption == Short \subseteq Values /\ FromFile \notin Values
ASSUME BoundsAssumption ==
    MaxRetries \in Nat \ {0} /\ MaxHistory \in Nat \ {0} /\ MaxChanges \in Nat

VARIABLES
    file,       \* the file
    events,     \* file events not yet handled
    env,        \* the environment
    current,    \* configs["app_config"]
    history,    \* its snapshots
    tracked,    \* envVars: the value the watcher has seen
    override,   \* configs["env:..."]
    app,        \* the manager's copy
    load,       \* the file goroutine: its step and what it holds
    poll,       \* the environment goroutine: likewise
    changes,    \* changes so far
    undone,     \* current was set by a rollback
    lost        \* the manager's copy was overwritten by one made of an older copy

outside == <<file, events, env, changes>>
watcher == <<current, history, tracked, override>>
excuses == <<undone, lost>>
vars    == <<outside, watcher, app, load, poll, excuses>>

Loaded  == [base |-> First, field |-> FromFile]
NoLoad  == [at |-> "idle", new |-> First, old |-> First, tries |-> 0, undone |-> FALSE]
NoPoll  == [at |-> "idle", new |-> FromFile, old |-> FromFile, copy |-> Loaded]
Config  == [base : Contents, field : Values \cup {FromFile}]

\* NewConfigManager has loaded the file; the variable was not set.
Init ==
    /\ file = First /\ events = <<>> /\ env = FromFile /\ changes = 0
    /\ current = First /\ history = <<First>>
    /\ tracked = FromFile /\ override = FromFile
    /\ app = Loaded /\ load = NoLoad /\ poll = NoPoll
    /\ undone = FALSE /\ lost = FALSE

TypeOK ==
    /\ file \in Contents \cup {Torn} /\ events \in Seq({"write", "create", "remove"})
    /\ {env, tracked, override} \subseteq Values \cup {FromFile}
    /\ changes \in 0..MaxChanges
    /\ current \in Contents /\ history \in Seq(Contents) /\ Len(history) \in 1..MaxHistory
    /\ app \in Config
    /\ load \in [at : {"idle", "read", "update", "proceed", "callback", "restore"},
                 new : Contents, old : Contents, tries : 0..MaxRetries - 1, undone : BOOLEAN]
    /\ poll \in [at : {"idle", "update", "callback", "set", "revert"},
                 new : Values \cup {FromFile}, old : Values \cup {FromFile}, copy : Config]
    /\ undone \in BOOLEAN /\ lost \in BOOLEAN

\* addToHistory keeps the last MaxHistory snapshots.
AddToHistory(config) ==
    LET h == Append(history, config) IN
    history' = IF Len(h) > MaxHistory THEN Tail(h) ELSE h

Change == changes < MaxChanges /\ changes' = changes + 1

-----------------------------------------------------------------------------
(* Mutants: the slips the properties are there to catch.                   *)

RestoreForgotten ==
    /\ load.at = "restore"
    /\ load' = IF load.tries + 1 < MaxRetries
               THEN [load EXCEPT !.at = "read", !.tries = @ + 1] ELSE NoLoad
    /\ UNCHANGED <<outside, watcher, app, poll, excuses>>

RollbackUnchecked ==
    /\ Change
    /\ \E target \in ToSet(history) : current' = target /\ AddToHistory(target)
    /\ undone' = TRUE
    /\ UNCHANGED <<file, events, env, tracked, override, app, load, poll, lost>>

HandleWritesOnly ==
    /\ load.at = "idle" /\ events # <<>> /\ events' = Tail(events)
    /\ load' = IF Head(events) = "write" THEN [NoLoad EXCEPT !.at = "read"] ELSE load
    /\ UNCHANGED <<file, env, changes, watcher, app, poll, excuses>>

-----------------------------------------------------------------------------
(* The file and the environment, and their events (fsnotify).              *)

\* An editor writes in place, and an event comes with either step; or it moves
\* a finished file over the old one, or removes it and creates it again.
BeginWrite ==
    /\ Change /\ file # Torn
    /\ file' = Torn /\ events' = Append(events, "write")
    /\ UNCHANGED <<env, watcher, app, load, poll, excuses>>

EndWrite ==
    /\ file = Torn /\ \E c \in Contents : file' = c
    /\ \E op \in {"write", "create"} : events' = Append(events, op)
    /\ UNCHANGED <<env, changes, watcher, app, load, poll, excuses>>

ReplaceFile ==
    /\ Change /\ file # Torn
    /\ \E c \in Contents \ {file} : file' = c
    /\ events' = Append(events, "create")
    /\ UNCHANGED <<env, watcher, app, load, poll, excuses>>

RemoveFile ==
    /\ Change /\ file # Torn
    /\ file' = Torn /\ events' = Append(events, "remove")
    /\ UNCHANGED <<env, watcher, app, load, poll, excuses>>

SetEnv ==
    /\ Change /\ \E v \in Values \ {env} : env' = v
    /\ UNCHANGED <<file, events, watcher, app, load, poll, excuses>>

-----------------------------------------------------------------------------
(* The file's goroutine: handleFileEvent, reloadFileConfig, updateConfig.  *)

\* A removed or renamed file is only logged.
HandleFileEvent ==
    /\ load.at = "idle" /\ events # <<>> /\ events' = Tail(events)
    /\ load' = IF Head(events) \in {"write", "create"}
               THEN [NoLoad EXCEPT !.at = "read"] ELSE load
    /\ UNCHANGED <<file, env, changes, watcher, app, poll, excuses>>

\* A failed attempt is repeated after a pause, MaxRetries times in all.
Retry ==
    load' = IF load.tries + 1 < MaxRetries
            THEN [NoLoad EXCEPT !.at = "read", !.tries = load.tries + 1] ELSE NoLoad

ReadFile ==
    /\ load.at = "read"
    /\ \/ file = Torn /\ Retry
       \/ file # Torn /\ load' = [load EXCEPT !.at = "update", !.new = file]
    /\ UNCHANGED <<outside, watcher, app, poll, excuses>>

SetCurrent ==
    /\ current' = load.new /\ AddToHistory(load.new)
    /\ undone' = FALSE /\ UNCHANGED <<tracked, override>>

\* An equal value is left alone.  The validator's refusal is logged and the
\* update goes on, FailOnValidation being off in NewConfigManager; but the lock is
\* given up for the log.
UpdateConfig ==
    /\ load.at = "update"
    /\ \/ load.new = current /\ load' = NoLoad /\ UNCHANGED <<watcher, undone>>
       \/ /\ load.new # current
          /\ load' = [load EXCEPT !.at = IF load.new \in Refused THEN "proceed" ELSE "callback",
                                 !.old = current, !.undone = undone]
          /\ IF load.new \in Refused THEN UNCHANGED <<watcher, undone>> ELSE SetCurrent
    /\ UNCHANGED <<outside, app, poll, lost>>

Proceed ==
    /\ load.at = "proceed" /\ load' = [load EXCEPT !.at = "callback"] /\ SetCurrent
    /\ UNCHANGED <<outside, app, poll, lost>>

\* handleAppConfigChange: convert and validate, then setConfig.  The components'
\* reconfiguration is a placeholder that never fails.
FileCallback ==
    /\ load.at = "callback"
    /\ \/ load.new \in Refused /\ load' = [load EXCEPT !.at = "restore"] /\ UNCHANGED <<app, lost>>
       \/ /\ load.new \notin Refused /\ load' = NoLoad
          /\ app' = [base |-> load.new, field |-> FromFile] /\ lost' = FALSE
    /\ UNCHANGED <<outside, watcher, poll, undone>>

\* The callback failed: the value found before the update is set again, whatever
\* is there by now.
Restore ==
    /\ load.at = "restore" /\ Retry
    /\ current' = load.old /\ undone' = load.undone
    /\ UNCHANGED <<outside, history, tracked, override, app, poll, lost>>

-----------------------------------------------------------------------------
(* RollbackConfig: no callback, so the manager keeps its copy.             *)

RollbackConfig ==
    /\ Change
    /\ \E target \in ToSet(history) \ Refused : current' = target /\ AddToHistory(target)
    /\ undone' = TRUE
    /\ UNCHANGED <<file, events, env, tracked, override, app, load, poll, lost>>

-----------------------------------------------------------------------------
(* The environment's goroutine: checkEnvironmentChanges, updateConfig and  *)
(* the variable's callback.                                                *)

CheckEnvironmentChanges ==
    /\ poll.at = "idle" /\ env # tracked
    /\ tracked' = env
    /\ poll' = [NoPoll EXCEPT !.at = "update", !.new = env, !.old = tracked]
    /\ UNCHANGED <<outside, current, history, override, app, load, excuses>>

UpdateOverride ==
    /\ poll.at = "update"
    /\ IF poll.new = override THEN poll' = NoPoll /\ UNCHANGED override
       ELSE override' = poll.new /\ poll' = [poll EXCEPT !.at = "callback"]
    /\ UNCHANGED <<outside, current, history, tracked, app, load, excuses>>

\* The handler takes a copy of the manager's configuration ...  This is the one of
\* the JWT secret; those of the ports and of the maximum of connections assert a
\* number where the environment gives a string, panic and end the process.
EnvCallback ==
    /\ poll.at = "callback"
    /\ poll' = IF poll.new \in Short THEN [poll EXCEPT !.at = "revert"]
               ELSE [poll EXCEPT !.at = "set", !.copy = app]
    /\ UNCHANGED <<outside, watcher, app, load, excuses>>

\* ... and sets it with the field changed, whatever was set since.
SetConfig ==
    /\ poll.at = "set" /\ poll' = NoPoll
    /\ app' = [poll.copy EXCEPT !.field = poll.new]
    /\ lost' = (lost \/ poll.copy.base # app.base)
    /\ UNCHANGED <<outside, watcher, load, undone>>

\* A failed update is forgotten, to be tried again at the next check.
RevertEnv ==
    /\ poll.at = "revert" /\ poll' = NoPoll
    /\ override' = poll.old /\ tracked' = poll.old
    /\ UNCHANGED <<outside, current, history, app, load, excuses>>

-----------------------------------------------------------------------------
Writer   == BeginWrite \/ EndWrite \/ ReplaceFile \/ RemoveFile \/ SetEnv
FileLoop ==
    HandleFileEvent \/ ReadFile \/ UpdateConfig \/ Proceed \/ FileCallback \/ Restore
EnvLoop  == CheckEnvironmentChanges \/ UpdateOverride \/ EnvCallback \/ SetConfig \/ RevertEnv
Next     == Writer \/ FileLoop \/ EnvLoop \/ RollbackConfig

Spec == Init /\ [][Next]_vars

\* watchFiles takes the next event whenever there is one, and every step of a
\* load ends; so do the steps of the other goroutine.
FairSpec == Spec /\ WF_vars(FileLoop) /\ WF_vars(EnvLoop)

-----------------------------------------------------------------------------
(* Properties.                                                             *)

\* The manager runs with the configuration the watcher reports, whatever loads,
\* refusals, retries and overrides have crossed: but for a rollback, and for an
\* override set on a copy taken before a load.
CopiesAgree ==
    load.at \notin {"callback", "restore"} /\ ~undone /\ ~lost => app.base = current

\* The watcher shows a configuration the application refuses only while its
\* callback is running, though the history offers refused ones to a rollback.
RefusedIsPassing == current \in Refused => load.at \in {"callback", "restore"}

\* A file with an event still to handle, which stays as it is and is accepted,
\* becomes the configuration, however it was written, whatever attempt failed
\* before and however many contents came in between.
FileApplied ==
    \A c \in Contents \ Refused :
        (file = c /\ events # <<>>) ~> (current = c \/ file # c)
=============================================================================
