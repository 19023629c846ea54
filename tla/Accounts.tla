------------------------------ MODULE Accounts ------------------------------
(***************************************************************************)
(* Login, token refresh, logout and the changes of an account              *)
(* (infrastructure/auth.go and the handlers in application/auth_handlers.go). *)
(* The service keeps nothing in memory: every call is a few statements on  *)
(* the tables users, user_roles, sessions and login_attempts, without a    *)
(* transaction around them, so calls interleave between any two.  Save     *)
(* writes a whole row as it was read.                                      *)
(*                                                                         *)
(* One account and its sessions.  Times are distances from now.  Whether a *)
(* password is the right one is left open.  A token is known by the session *)
(* that accepts it; access tokens are checked by their signature and never *)
(* looked up.  Tokens outlive the behaviours considered here.              *)
(***************************************************************************)
EXTENDS Integers, FiniteSets

CONSTANTS
    Threads,        \* requests being served
    Addresses,      \* clients
    Sessions,       \* rows of the table sessions
    Nothing,        \* no row read
    MaxAttempts,    \* MaxLoginAttempts
    Window,         \* LoginAttemptWindow, in ticks
    Lock,           \* AccountLockDuration, in ticks
    MaxFaults       \* bound: statements that fail though the call goes on

ASSUME AttemptsAssumption ==
    MaxAttempts \in Nat \ {0} /\ Window \in Nat \ {0} /\ Lock \in Nat \ {0}
ASSUME FaultsAssumption == MaxFaults \in Nat
ASSUME AccountsAssumption ==
    /\ IsFiniteSet(Threads) /\ Threads # {} /\ Nothing \notin Sessions
    /\ Sessions \cap {"account", "role", "lock"} = {}

VARIABLES
    account,    \* the row of users, with its row of user_roles
    failures,   \* failed rows of login_attempts, by address, of each age or younger
    session,    \* the rows of sessions: "none", "live" or "deleted" (soft)
    at,         \* the next statement of a request
    from,       \* its address
    row,        \* the account as the request read it, and is about to save it
    held,       \* the session it read
    guesses,    \* wrong passwords tried, counted in the same way
    misses,     \* wrong passwords since the count of failures last began again
    overtaken,  \* what was taken away since the request read it
    faults      \* statements that have failed

rows     == <<account, failures, session>>
requests == <<at, from, row, held>>
tries    == <<guesses, misses>>
vars     == <<rows, requests, overtaken, tries, faults>>

\* failed only matters up to MaxAttempts; lock is what is left of locked_until.
Account == [live: BOOLEAN, failed: 0..MaxAttempts, lock: 0..Lock, role: BOOLEAN]
ByAge == [0..Window - 1 -> Nat]
OneMore(f) == [i \in 0..Window - 1 |-> f[i] + 1]

Init ==
    /\ account \in [live: {TRUE}, failed: {0}, lock: {0}, role: BOOLEAN]
    /\ failures = [a \in Addresses |-> [i \in 0..Window - 1 |-> 0]]
    /\ session = [s \in Sessions |-> "none"]
    /\ at = [t \in Threads |-> "idle"]
    /\ from \in [Threads -> Addresses]
    /\ row = [t \in Threads |-> Nothing] /\ held = [t \in Threads |-> Nothing]
    /\ guesses = failures /\ misses = 0 /\ faults = 0
    /\ overtaken = [t \in Threads |-> {}]

TypeOK ==
    /\ account \in Account
    /\ failures \in [Addresses -> ByAge] /\ guesses \in [Addresses -> ByAge]
    /\ session \in [Sessions -> {"none", "live", "deleted"}]
    /\ at \in [Threads -> {"idle", "find", "increment", "lock", "record", "reset",
                           "create", "save", "user", "renew", "end"}]
    /\ from \in [Threads -> Addresses]
    /\ row \in [Threads -> Account \cup {Nothing}]
    /\ held \in [Threads -> Sessions \cup {Nothing}]
    /\ misses \in Nat /\ faults \in 0..MaxFaults
    /\ overtaken \in [Threads -> SUBSET (Sessions \cup {"account", "role", "lock"})]

\* Where a request has read what it is about to write again.
Holds(x) == CASE x = "lock"                 -> {"reset", "save"}
              [] x \in {"account", "role"} -> {"save"}
              [] OTHER                      -> {"user", "renew"}

\* X is taken away, and the requests that hold it do not know.
Overtake(X) ==
    overtaken' = [t \in Threads |->
        IF at'[t] \in {"reset", "save", "user", "renew"}
        THEN overtaken[t] \cup {x \in X : at[t] \in Holds(x)} ELSE {}]

\* The statements of a request follow one another; this one takes X away.
Taking(X, t, pc, r, s) ==
    /\ at' = [at EXCEPT ![t] = pc] /\ UNCHANGED from
    /\ row' = [row EXCEPT ![t] = r] /\ held' = [held EXCEPT ![t] = s]
    /\ Overtake(X)
Goto(t, pc, r, s) == Taking({}, t, pc, r, s)
Return(t) == Goto(t, "idle", Nothing, Nothing)

\* A statement fails, after its retries or refused by the breaker.
Fault == faults < MaxFaults /\ faults' = faults + 1

-----------------------------------------------------------------------------
(* Login.                                                                  *)

\* Mutant: one attempt more than the limit.
IsRateLimitedLate(a) == failures[a][Window - 1] > MaxAttempts

\* The failures of the window count, whatever logins succeeded since.
IsRateLimited(a) == failures[a][Window - 1] >= MaxAttempts

\* A limited login, or one whose count cannot be read, returns and changes nothing.
Login(t, a) ==
    /\ at[t] = "idle" /\ ~IsRateLimited(a)
    /\ at' = [at EXCEPT ![t] = "find"] /\ from' = [from EXCEPT ![t] = a]
    /\ UNCHANGED <<rows, row, held, overtaken, tries, faults>>

\* GetUserByEmail finds no account, or a locked one.
FindRefused(t) ==
    /\ at[t] = "find" /\ Goto(t, "record", Nothing, Nothing)
    /\ ~account.live \/ account.lock > 0
    /\ UNCHANGED <<rows, tries, faults>>

\* GetUserByEmail fails: the login counts as one of an unknown user.
FindFailed(t) ==
    /\ at[t] = "find" /\ Goto(t, "record", Nothing, Nothing) /\ Fault
    /\ UNCHANGED <<rows, tries>>

Found(t) == at[t] = "find" /\ account.live /\ account.lock = 0

\* ComparePassword, with the hash that was read.
Miss(t) ==
    /\ Found(t) /\ Goto(t, "increment", account, Nothing)
    /\ guesses' = [guesses EXCEPT ![from[t]] = OneMore(guesses[from[t]])]
    /\ misses' = misses + 1
    /\ UNCHANGED <<rows, faults>>

Match(t) ==
    /\ Found(t) /\ Goto(t, "reset", Nothing, Nothing)
    /\ UNCHANGED <<rows, tries, faults>>

CountUp(n) == IF n < MaxAttempts THEN n + 1 ELSE n

\* Mutant: the failure being counted is left out of the decision.
EnoughLate(t) == row[t].failed >= MaxAttempts

\* Whether to lock is decided by the row read before the increment.
Enough(t) == row[t].failed + 1 >= MaxAttempts

\* IncrementFailedAttempts is one UPDATE of a row that is not deleted.
Increment(t) ==
    /\ at[t] = "increment"
    /\ Goto(t, IF Enough(t) THEN "lock" ELSE "record", Nothing, Nothing)
    /\ \/ /\ account' = IF account.live THEN [account EXCEPT !.failed = CountUp(@)] ELSE account
          /\ UNCHANGED faults
       \/ Fault /\ UNCHANGED account
    /\ UNCHANGED <<failures, session, tries>>

LockUser(t) ==
    /\ at[t] = "lock"
    /\ \/ /\ Taking({"lock"}, t, "record", Nothing, Nothing)
          /\ account' = IF account.live THEN [account EXCEPT !.lock = Lock] ELSE account
          /\ misses' = 0 /\ UNCHANGED faults
       \/ /\ Goto(t, "record", Nothing, Nothing)
          /\ Fault /\ UNCHANGED <<account, misses>>
    /\ UNCHANGED <<failures, session, guesses>>

\* RecordLoginAttempt of a failure; its error is ignored.
Record(t) ==
    /\ at[t] = "record" /\ Return(t)
    /\ \/ failures' = [failures EXCEPT ![from[t]] = OneMore(failures[from[t]])] /\ UNCHANGED faults
       \/ Fault /\ UNCHANGED failures
    /\ UNCHANGED <<account, session, tries>>

\* ResetFailedAttempts also clears locked_until.
Reset(t) ==
    /\ at[t] = "reset" /\ Goto(t, "create", Nothing, Nothing)
    /\ \/ /\ account' = IF account.live THEN [account EXCEPT !.failed = 0, !.lock = 0]
                        ELSE account
          /\ misses' = 0 /\ UNCHANGED faults
       \/ Fault /\ UNCHANGED <<account, misses>>
    /\ UNCHANGED <<failures, session, guesses>>

\* CreateSession under a new id, or its failure, which the caller is told.
Create(t) ==
    /\ at[t] = "create" /\ Return(t)
    /\ \/ \E s \in Sessions :
            session[s] = "none" /\ session' = [session EXCEPT ![s] = "live"]
       \/ UNCHANGED session
    /\ UNCHANGED <<account, failures, tries, faults>>

-----------------------------------------------------------------------------
(* Refresh and logout.                                                     *)

\* Mutant: sessions that have ended are found too.
FindSessionEnded(t, s, pc) ==
    /\ at[t] = "idle" /\ session[s] # "none" /\ Goto(t, pc, Nothing, s)
    /\ UNCHANGED <<rows, tries, faults>>

\* GetSessionByRefreshToken for a refresh, GetSessionByAccessToken for a logout.
FindSession(t, s, pc) ==
    /\ at[t] = "idle" /\ session[s] = "live" /\ Goto(t, pc, Nothing, s)
    /\ UNCHANGED <<rows, tries, faults>>

\* GetUserByID: without an account, or when it fails, there are no new tokens.
FindOwner(t) ==
    /\ at[t] = "user"
    /\ \/ account.live /\ Goto(t, "renew", Nothing, held[t])
       \/ Return(t)
    /\ UNCHANGED <<rows, tries, faults>>

\* Save of the session with its new tokens: a row deleted since is written again.
Renew(t) ==
    /\ at[t] = "renew" /\ Return(t)
    /\ session' = [session EXCEPT ![held[t]] = "live"] \/ UNCHANGED session
    /\ UNCHANGED <<account, failures, tries, faults>>

\* DeleteSession.
EndSession(t) ==
    /\ at[t] = "end"
    /\ \/ /\ session' = [session EXCEPT ![held[t]] = "deleted"]
          /\ Taking({held[t]}, t, "idle", Nothing, Nothing)
       \/ Return(t) /\ UNCHANGED session
    /\ UNCHANGED <<account, failures, tries, faults>>

-----------------------------------------------------------------------------
(* Changes of the account.                                                 *)

\* ChangePassword, ResetPassword and UpdateProfile read the account, with its roles,
\* and set a column of their own.
LoadAccount(t) ==
    /\ at[t] = "idle" /\ account.live /\ Goto(t, "save", account, Nothing)
    /\ UNCHANGED <<rows, tries, faults>>

\* UpdateUser saves every column of the row, inserts the row when it is gone, and the
\* roles it was read with; the roles given since stay.
SaveAccount(t) ==
    /\ at[t] = "save"
    /\ \/ /\ account' = [row[t] EXCEPT !.role = @ \/ account.role]
          /\ Taking(IF row[t].lock > account.lock THEN {"lock"} ELSE {},
                    t, "idle", Nothing, Nothing)
          /\ misses' = IF ~account.live \/ row[t].failed < account.failed THEN 0 ELSE misses
       \/ Return(t) /\ UNCHANGED <<account, misses>>
    /\ UNCHANGED <<failures, session, guesses, faults>>

\* One statement each, by an administrator: DeleteUser, AssignRole, RemoveRole.
Administer ==
    /\ UNCHANGED requests
    /\ \/ account' = [account EXCEPT !.live = FALSE] /\ Overtake({"account"})
       \/ account' = [account EXCEPT !.role = FALSE] /\ Overtake({"role"})
       \/ account' = [account EXCEPT !.role = TRUE] /\ UNCHANGED overtaken
    /\ account' # account
    /\ UNCHANGED <<failures, session, tries, faults>>

-----------------------------------------------------------------------------
Older(f) == [a \in Addresses |-> [i \in 0..Window - 1 |-> IF i = 0 THEN 0 ELSE f[a][i - 1]]]
Expiring(r) == [r EXCEPT !.lock = IF @ > 0 THEN @ - 1 ELSE 0]

Tick ==
    /\ account' = Expiring(account)
    /\ row' = [t \in Threads |-> IF row[t] \in Account THEN Expiring(row[t]) ELSE row[t]]
    /\ failures' = Older(failures) /\ guesses' = Older(guesses)
    /\ UNCHANGED <<session, at, from, held, overtaken, misses, faults>>

Step(t) ==
    \/ \E a \in Addresses : Login(t, a)
    \/ FindRefused(t) \/ FindFailed(t) \/ Miss(t) \/ Match(t)
    \/ Increment(t) \/ LockUser(t) \/ Record(t) \/ Reset(t) \/ Create(t)
    \/ \E s \in Sessions, pc \in {"user", "end"} : FindSession(t, s, pc)
    \/ FindOwner(t) \/ Renew(t) \/ EndSession(t)
    \/ LoadAccount(t) \/ SaveAccount(t)

Next == (\E t \in Threads : Step(t)) \/ Administer \/ Tick

Spec == Init /\ [][Next]_vars

-----------------------------------------------------------------------------
(* Properties.                                                             *)

\* In any window a client tries at most the wrong passwords it is allowed, but for
\* the logins that were counted too early to see each other (auth.go:1184), and for
\* attempts whose row could not be written.
GuessesBounded ==
    \A a \in Addresses :
        guesses[a][Window - 1] <= MaxAttempts - 1 + Cardinality(Threads) + faults

\* Many clients that guess one account are stopped by its lock (auth.go:1213), which
\* is late by at most two rounds of requests: those that read the row before the
\* failure that fills the count, and those that read it after.
LockComes == misses <= MaxAttempts - 2 + 2 * Cardinality(Threads) + faults

\* A deleted account, an ended session, a role taken away and a lock, even one that an
\* older row brings, stay so: only a request that had read the row or the session
\* before can undo it, by saving what it has read.
Overtook(x) == \E t \in Threads : at'[t] # at[t] /\ x \in overtaken[t]
RevocationHolds ==
    [][ /\ ~account.live /\ account'.live => Overtook("account")
        /\ account'.lock < account.lock => Tick \/ Overtook("lock")
        /\ ~account.role /\ account'.role => Administer \/ Overtook("role")
        /\ \A s \in Sessions : session[s] = "deleted" /\ session'[s] # "deleted" =>
                Overtook(s) ]_vars
=============================================================================
