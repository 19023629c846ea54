------------------------------- MODULE Access -------------------------------
(***************************************************************************)
(* The request limits and the sessions of the application's authentication *)
(* middleware (application/auth_middleware.go).  A request passes the limit *)
(* of its address, is authenticated by a token, an API key or a session    *)
(* cookie, and passes the limit of its user; the rate limiter and the      *)
(* session manager each hold a mutex for one call only, so requests, the   *)
(* calls that create and end sessions and the clean-up goroutines          *)
(* interleave between them.                                                *)
(*                                                                         *)
(* Times are kept as distances from now and the clock advances in ticks;   *)
(* the instant at which a session runs out counts as after it.  Whether an *)
(* address or a user is blacklisted, and whom a token or a key names, is   *)
(* left open: the answers change nothing here.                             *)
(***************************************************************************)
EXTENDS Integers, FiniteSets

CONSTANTS
    Servers,        \* requests being served
    IPs, Users,
    Ids,            \* session ids; one is drawn again only when nothing holds it
    NoEntry,        \* no entry, no session
    Requests,       \* RateLimitRequests
    Burst,          \* RateLimitBurst
    RateWindow,     \* RateLimitWindow, in ticks
    MaxActive,      \* MaxActiveSessions, per user
    Timeout         \* SessionTimeout, in ticks

ASSUME LimitsAssumption ==
    /\ {Requests, Burst, MaxActive} \subseteq Nat
    /\ {RateWindow, Timeout} \subseteq Nat \ {0}
ASSUME ServersAssumption ==
    /\ IsFiniteSet(Servers) /\ IsFiniteSet(Ids)
    /\ NoEntry \notin Ids /\ NoEntry \notin Users /\ IPs \cap Users = {}

Clients == IPs \cup Users

VARIABLES
    limit,      \* userLimits and ipLimits: a client's entry, or NoEntry
    recent,     \* requests let through in the last ticks, by their number, this one included
    promised,   \* ticks for which a client has been told it is blocked
    sessions,   \* the session manager's map
    step,       \* the next step of a request
    found,      \* the session it has looked up and is about to prolong
    who         \* the user it was authenticated as

limits   == <<limit, recent, promised>>
serving  == <<step, found, who>>
accessVars == <<limits, sessions, serving>>

Entry == [count: 0..Requests + Burst, burst: 0..Burst, age: 0..RateWindow,
          idle: 0..2 * RateWindow + 1, wait: 0..RateWindow]
Session == [user: Users, active: BOOLEAN, left: 0..Timeout]

ASSUME EntryAssumption == NoEntry \notin Entry \cup Session

AccessInit ==
    /\ limit = [c \in Clients |-> NoEntry]
    /\ recent = [c \in Clients |-> [i \in 1..RateWindow |-> 0]]
    /\ promised = [c \in Clients |-> 0]
    /\ sessions = [s \in Ids |-> NoEntry]
    /\ step = [t \in Servers |-> "idle"]
    /\ found = [t \in Servers |-> NoEntry] /\ who = [t \in Servers |-> NoEntry]

AccessTypeOK ==
    /\ limit \in [Clients -> Entry \cup {NoEntry}]
    /\ recent \in [Clients -> [1..RateWindow -> Nat]]
    /\ promised \in [Clients -> 0..RateWindow]
    /\ sessions \in [Ids -> Session \cup {NoEntry}]
    /\ step \in [Servers -> {"idle", "authenticate", "touch", "refresh", "user"}]
    /\ found \in [Servers -> Ids \cup {NoEntry}]
    /\ who \in [Servers -> Users \cup {NoEntry}]

CapAt(max, n) == IF n > max THEN max ELSE n

-----------------------------------------------------------------------------
(* Rate limits.  CheckIPRateLimit and CheckUserRateLimit are one algorithm. *)

Fresh == [count |-> 0, burst |-> 0, age |-> 0, idle |-> 0, wait |-> 0]

\* Mutant: an entry goes on where it left off when its window is over.
OpenedTwice(c) ==
    IF limit[c] = NoEntry THEN Fresh
    ELSE IF limit[c].age >= RateWindow THEN [limit[c] EXCEPT !.count = 0, !.burst = 0]
    ELSE limit[c]

\* The entry a check works on: a new one, or one whose window is over, starts again.
Opened(c) ==
    IF limit[c] = NoEntry THEN Fresh
    ELSE IF limit[c].age >= RateWindow THEN [Fresh EXCEPT !.idle = limit[c].idle]
    ELSE limit[c]

Blocked(c) == limit[c] # NoEntry /\ limit[c].wait > 0

\* The request goes on.
Pass(c) ==
    LET e == Opened(c) IN
    /\ ~Blocked(c)
    /\ e.count < Requests \/ e.burst < Burst
    /\ limit' = [limit EXCEPT ![c] =
            [e EXCEPT !.count = @ + 1, !.idle = 0,
                      !.burst = IF e.count >= Requests THEN @ + 1 ELSE @]]
    /\ recent' = [recent EXCEPT ![c] = [i \in 1..RateWindow |-> @[i] + 1]]
    /\ UNCHANGED promised

\* The request is refused: the client is blocked already, or from now on.
Refuse(c) ==
    LET e == Opened(c) IN
    \/ Blocked(c) /\ UNCHANGED limits
    \/ /\ ~Blocked(c) /\ e.count >= Requests /\ e.burst >= Burst
       /\ limit' = [limit EXCEPT ![c] = [e EXCEPT !.wait = RateWindow]]
       /\ promised' = [promised EXCEPT ![c] = RateWindow]
       /\ UNCHANGED recent

\* Mutant: an entry goes as soon as its window is over.
LimitCleanupSooner ==
    /\ limit' = [c \in Clients |->
            IF limit[c] # NoEntry /\ limit[c].age >= RateWindow THEN NoEntry ELSE limit[c]]
    /\ limit' # limit
    /\ UNCHANGED <<recent, promised, sessions, serving>>

\* performCleanup.
LimitCleanup ==
    /\ limit' = [c \in Clients |->
            IF limit[c] # NoEntry /\ limit[c].idle > 2 * RateWindow THEN NoEntry ELSE limit[c]]
    /\ limit' # limit
    /\ UNCHANGED <<recent, promised, sessions, serving>>

-----------------------------------------------------------------------------
(* Sessions.                                                               *)

Active(u) ==
    {s \in Ids : sessions[s] # NoEntry /\ sessions[s].user = u
                    /\ sessions[s].active /\ sessions[s].left > 0}

\* Mutant: the limit is checked too late by one.
CreateSessionOneMore(u, s) ==
    /\ sessions[s] = NoEntry /\ \A t \in Servers : found[t] # s
    /\ Cardinality(Active(u)) <= MaxActive
    /\ sessions' = [sessions EXCEPT ![s] = [user |-> u, active |-> TRUE, left |-> Timeout]]
    /\ UNCHANGED <<limits, serving>>

\* CreateSession, with an id never seen before.
CreateSession(u, s) ==
    /\ sessions[s] = NoEntry /\ \A t \in Servers : found[t] # s
    /\ Cardinality(Active(u)) < MaxActive
    /\ sessions' = [sessions EXCEPT ![s] = [user |-> u, active |-> TRUE, left |-> Timeout]]
    /\ UNCHANGED <<limits, serving>>

\* GetSession.
Valid(s) == sessions[s] # NoEntry /\ sessions[s].left > 0

\* UpdateSessionActivity looks at the map only.
Prolonged(s) ==
    IF sessions[s] = NoEntry THEN sessions
    ELSE [sessions EXCEPT ![s].left = Timeout]

Ended(S) ==
    [s \in Ids |-> IF s \in S THEN [sessions[s] EXCEPT !.active = FALSE, !.left = 0]
                   ELSE sessions[s]]

InvalidateSession(s) ==
    /\ sessions[s] # NoEntry /\ sessions' = Ended({s})
    /\ UNCHANGED <<limits, serving>>

InvalidateUserSessions(u) ==
    /\ sessions' = Ended({s \in Ids : sessions[s] # NoEntry /\ sessions[s].user = u})
    /\ UNCHANGED <<limits, serving>>

\* performSessionCleanup.
SessionCleanup ==
    /\ sessions' = [s \in Ids |-> IF Valid(s) THEN sessions[s] ELSE NoEntry]
    /\ UNCHANGED <<limits, serving>>

-----------------------------------------------------------------------------
(* Requests.                                                               *)

GoOn(t, pc, s, u) ==
    /\ step' = [step EXCEPT ![t] = pc]
    /\ found' = [found EXCEPT ![t] = s] /\ who' = [who EXCEPT ![t] = u]
Done(t) == GoOn(t, "idle", NoEntry, NoEntry)

\* A blacklisted address is refused before its limit is looked at, and a
\* preflight request is answered: neither changes anything.
CheckAddress(t, a) ==
    /\ step[t] = "idle"
    /\ \/ Pass(a) /\ GoOn(t, "authenticate", NoEntry, NoEntry)
       \/ Refuse(a) /\ UNCHANGED serving
    /\ UNCHANGED sessions

\* authenticateRequest: a token or a key names a user, the breaker permitting; else
\* a cookie finds a session; else the request is served without a user.
Authenticate(t) ==
    /\ step[t] = "authenticate"
    /\ \/ \E u \in Users : GoOn(t, "user", NoEntry, u)
       \/ \E s \in Ids : Valid(s) /\ GoOn(t, "touch", s, sessions[s].user)
       \/ Done(t)
    /\ UNCHANGED <<limits, sessions>>

\* UpdateSessionActivity, then GetUser; when that fails the request has no user.
Touch(t) ==
    /\ step[t] = "touch" /\ sessions' = Prolonged(found[t])
    /\ GoOn(t, "user", NoEntry, who[t]) \/ Done(t)
    /\ UNCHANGED limits

\* A blacklisted user is refused; the others pass their limit and are served.
CheckUser(t) ==
    /\ step[t] = "user" /\ Done(t)
    /\ UNCHANGED limits \/ Pass(who[t]) \/ Refuse(who[t])
    /\ UNCHANGED sessions

\* RefreshUserSession reads under the lock and writes the record it got without.
StartRefresh(t, s) ==
    /\ step[t] = "idle" /\ Valid(s) /\ GoOn(t, "refresh", s, NoEntry)
    /\ UNCHANGED <<limits, sessions>>

Refresh(t) ==
    /\ step[t] = "refresh" /\ sessions' = Prolonged(found[t]) /\ Done(t)
    /\ UNCHANGED limits

-----------------------------------------------------------------------------
(* The clock.                                                              *)

Aged(e) == [e EXCEPT !.age = CapAt(RateWindow, @ + 1), !.idle = CapAt(2 * RateWindow + 1, @ + 1),
                     !.wait = IF @ > 0 THEN @ - 1 ELSE 0]

PassTime ==
    /\ limit' = [c \in Clients |-> IF limit[c] = NoEntry THEN NoEntry ELSE Aged(limit[c])]
    /\ recent' = [c \in Clients |->
            [i \in 1..RateWindow |-> IF i = 1 THEN 0 ELSE recent[c][i - 1]]]
    /\ promised' = [c \in Clients |-> IF promised[c] > 0 THEN promised[c] - 1 ELSE 0]
    /\ sessions' = [s \in Ids |->
            IF Valid(s) THEN [sessions[s] EXCEPT !.left = @ - 1] ELSE sessions[s]]
    /\ UNCHANGED serving

Serve(t) ==
    \/ \E a \in IPs : CheckAddress(t, a)
    \/ Authenticate(t) \/ Touch(t) \/ CheckUser(t)
    \/ \E s \in Ids : StartRefresh(t, s)
    \/ Refresh(t)

AccessNext ==
    \/ \E t \in Servers : Serve(t)
    \/ \E u \in Users : InvalidateUserSessions(u) \/ \E s \in Ids : CreateSession(u, s)
    \/ \E s \in Ids : InvalidateSession(s)
    \/ SessionCleanup \/ LimitCleanup \/ PassTime

AccessSpec == AccessInit /\ [][AccessNext]_accessVars

-----------------------------------------------------------------------------
(* Properties.                                                             *)

\* Over any RateWindow ticks, however they lie across the limiter's own windows, its
\* clean-up and its blocks, a client gets through at most twice its allowance.
WindowBound ==
    \A c \in Clients : recent[c][RateWindow] <= 2 * (Requests + Burst)

\* A client told that it is blocked is blocked for exactly that long: neither a
\* new window nor the clean-up of idle entries forgets it.
BlockKept ==
    \A c \in Clients : promised[c] > 0 => limit[c] # NoEntry /\ limit[c].wait = promised[c]

\* A user has no more active sessions than MaxActiveSessions, but for those that
\* ran out while a request that had already looked them up was about to prolong
\* them: one for each such request.
ActiveBounded ==
    \A u \in Users : Cardinality(Active(u)) <= MaxActive + Cardinality(Servers)
=============================================================================
