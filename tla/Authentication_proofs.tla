------------------------ MODULE Authentication_proofs ------------------------
(***************************************************************************)
(* Theorems about the two halves of authentication.  First the service's   *)
(* tables (Accounts): nothing taken away comes back but through a request  *)
(* that had read it before, and guessing is limited.  Then what stands in  *)
(* front of the handlers (Access): its limits, blocks and sessions.  The   *)
(* two specifications share nothing; Access names its own in full.         *)
(***************************************************************************)
EXTENDS Accounts, Access, FiniteSetTheorems, TLAPS

\* Whatever a request under way holds and the tables do not, it has been overtaken in.
Remembers(t) ==
    /\ at[t] = "save" =>
           /\ row[t] \in Account /\ row[t].live
           /\ ~account.live => "account" \in overtaken[t]
           /\ row[t].role /\ ~account.role => "role" \in overtaken[t]
           /\ account.lock > row[t].lock => "lock" \in overtaken[t]
    /\ at[t] = "reset" /\ account.lock > 0 => "lock" \in overtaken[t]
    /\ at[t] \in {"user", "renew", "end"} => held[t] \in Sessions
    /\ at[t] \in {"user", "renew"} /\ session[held[t]] = "deleted" =>
           held[t] \in overtaken[t]
    /\ at[t] = "increment" => row[t] \in Account

IInv == TypeOK /\ \A t \in Threads : Remembers(t)

Things == Sessions \cup {"account", "role", "lock"}
Places == {"idle", "find", "increment", "lock", "record", "reset", "create", "save",
           "user", "renew", "end"}
RequestsTyped ==
    /\ at \in [Threads -> Places] /\ from \in [Threads -> Addresses]
    /\ row \in [Threads -> Account \cup {Nothing}]
    /\ held \in [Threads -> Sessions \cup {Nothing}]
    /\ overtaken \in [Threads -> SUBSET Things]

LEMMA TypeParts ==
    TypeOK <=> /\ RequestsTyped
               /\ account \in Account
               /\ failures \in [Addresses -> ByAge] /\ guesses \in [Addresses -> ByAge]
               /\ session \in [Sessions -> {"none", "live", "deleted"}]
               /\ misses \in Nat /\ faults \in 0..MaxFaults
BY DEF TypeOK, RequestsTyped, Things, Places

\* What Overtake does to a request that goes on.
LEMMA Overtaking ==
    ASSUME RequestsTyped, at' \in [Threads -> Places],
           NEW X \in SUBSET Things, Overtake(X), NEW u \in Threads,
           at'[u] \in {"reset", "save", "user", "renew"}
    PROVE  /\ overtaken[u] \subseteq overtaken'[u]
           /\ "lock" \in X /\ at[u] \in {"reset", "save"} => "lock" \in overtaken'[u]
           /\ "account" \in X /\ at[u] = "save" => "account" \in overtaken'[u]
           /\ "role" \in X /\ at[u] = "save" => "role" \in overtaken'[u]
           /\ \A s \in Sessions \cap X :
                  at[u] \in {"user", "renew"} => s \in overtaken'[u]
<1>1. overtaken'[u] = overtaken[u] \cup {x \in X : at[u] \in Holds(x)}
  BY DEF Overtake
<1>2. /\ Holds("lock") = {"reset", "save"} /\ Holds("account") = {"save"}
      /\ Holds("role") = {"save"}
  BY DEF Holds
<1>3. \A s \in Sessions : Holds(s) = {"user", "renew"}
  BY AccountsAssumption DEF Holds
<1>4. QED BY <1>1, <1>2, <1>3

LEMMA OvertakeTyped ==
    ASSUME RequestsTyped, at' \in [Threads -> Places],
           NEW X \in SUBSET Things, Overtake(X)
    PROVE  overtaken' \in [Threads -> SUBSET Things]
BY DEF RequestsTyped, Overtake

\* What a statement of t does to the requests.
LEMMA Moves ==
    ASSUME RequestsTyped, NEW t \in Threads, NEW X \in SUBSET Things, NEW pc \in Places,
           NEW r \in Account \cup {Nothing}, NEW s \in Sessions \cup {Nothing},
           Taking(X, t, pc, r, s)
    PROVE  /\ RequestsTyped' /\ Overtake(X)
           /\ at'[t] = pc /\ row'[t] = r /\ held'[t] = s
           /\ \A u \in Threads \ {t} :
                  at'[u] = at[u] /\ row'[u] = row[u] /\ held'[u] = held[u]
<1>1. /\ at' \in [Threads -> Places] /\ from' \in [Threads -> Addresses]
      /\ row' \in [Threads -> Account \cup {Nothing}]
      /\ held' \in [Threads -> Sessions \cup {Nothing}]
  BY DEF Taking, RequestsTyped
<1>2. overtaken' \in [Threads -> SUBSET Things]
  BY <1>1, OvertakeTyped DEF Taking
<1>3. QED BY <1>1, <1>2 DEF Taking, RequestsTyped

\* A request that does not move keeps what it remembers when X names all that is
\* taken away.
LEMMA Bystander ==
    ASSUME IInv, TypeOK', NEW X \in SUBSET Things, Overtake(X), NEW u \in Threads,
           at'[u] = at[u], row'[u] = row[u], held'[u] = held[u],
           account.live /\ ~account'.live => "account" \in X,
           account.role /\ ~account'.role => "role" \in X,
           account'.lock > account.lock => "lock" \in X,
           \A s \in Sessions : session'[s] = "deleted" => session[s] = "deleted" \/ s \in X
    PROVE  Remembers(u)'
<1>1. /\ RequestsTyped /\ at' \in [Threads -> Places]
      /\ account \in Account /\ account' \in Account
  BY DEF IInv, TypeOK, RequestsTyped, Things, Places
<1>2. Remembers(u)
  BY DEF IInv
<1> DEFINE A == overtaken[u]
           B == overtaken'[u]
<1>3. CASE at[u] = "save"
  <2>1. /\ A \subseteq B
        /\ "account" \in X => "account" \in B
        /\ "role" \in X => "role" \in B
        /\ "lock" \in X => "lock" \in B
    BY <1>1, <1>3, Overtaking
  <2>2. /\ row[u] \in Account /\ row[u].live
        /\ ~account.live => "account" \in A
        /\ row[u].role /\ ~account.role => "role" \in A
        /\ account.lock > row[u].lock => "lock" \in A
    BY <1>2, <1>3 DEF Remembers
  <2>3. {account.lock, account'.lock, row[u].lock} \subseteq Int
    BY <1>1, <2>2, AttemptsAssumption DEF Account
  <2>4. account'.lock > row[u].lock => "lock" \in B
    BY <2>1, <2>2, <2>3
  <2>5. QED BY <1>3, <2>1, <2>2, <2>4 DEF Remembers
<1>4. CASE at[u] = "reset"
  <2>1. A \subseteq B /\ ("lock" \in X => "lock" \in B)
    BY <1>1, <1>4, Overtaking
  <2>2. account.lock \in Int /\ account'.lock \in Int
    BY <1>1, AttemptsAssumption DEF Account
  <2>3. account'.lock > 0 => "lock" \in B
    BY <1>2, <1>4, <2>1, <2>2 DEF Remembers
  <2>4. QED BY <1>4, <2>3 DEF Remembers
<1>5. CASE at[u] \in {"user", "renew"}
  <2>1. A \subseteq B /\ \A s \in Sessions \cap X : s \in B
    BY <1>1, <1>5, Overtaking
  <2>2. held[u] \in Sessions /\ (session[held[u]] = "deleted" => held[u] \in A)
    BY <1>2, <1>5 DEF Remembers
  <2>3. session'[held[u]] = "deleted" => held[u] \in B
    BY <2>1, <2>2
  <2>4. QED BY <1>5, <2>2, <2>3 DEF Remembers
<1>6. CASE at[u] \notin {"save", "reset", "user", "renew"}
  BY <1>2, <1>6 DEF Remembers
<1>7. QED BY <1>3, <1>4, <1>5, <1>6

\* So a statement of t that takes X away has only to be looked at for t.
LEMMA OneMoves ==
    ASSUME IInv, NEW t \in Threads, NEW X \in SUBSET Things, NEW pc \in Places,
           NEW r \in Account \cup {Nothing}, NEW s \in Sessions \cup {Nothing},
           Taking(X, t, pc, r, s),
           account' \in Account, session' \in [Sessions -> {"none", "live", "deleted"}],
           failures' \in [Addresses -> ByAge], guesses' \in [Addresses -> ByAge],
           misses' \in Nat, faults' \in 0..MaxFaults,
           account.live /\ ~account'.live => "account" \in X,
           account.role /\ ~account'.role => "role" \in X,
           account'.lock > account.lock => "lock" \in X,
           \A q \in Sessions : session'[q] = "deleted" => session[q] = "deleted" \/ q \in X,
           Remembers(t)'
    PROVE  IInv'
<1>1. RequestsTyped
  BY TypeParts DEF IInv
<1>2. /\ RequestsTyped' /\ Overtake(X)
      /\ \A u \in Threads \ {t} : at'[u] = at[u] /\ row'[u] = row[u] /\ held'[u] = held[u]
  BY <1>1, Moves
<1>3. TypeOK'
  BY <1>2 DEF TypeOK, RequestsTyped, Things, Places
<1>4. ASSUME NEW u \in Threads \ {t} PROVE Remembers(u)'
  BY <1>2, <1>3, Bystander
<1>5. QED BY <1>3, <1>4 DEF IInv

LEMMA InitHolds == Init => IInv
<1> SUFFICES ASSUME Init PROVE IInv
  OBVIOUS
<1>1. MaxAttempts \in Nat /\ Lock \in Nat /\ MaxFaults \in Nat
  BY AttemptsAssumption, FaultsAssumption
<1>2. account \in Account
  <2>1. 0 \in 0..MaxAttempts /\ 0 \in 0..Lock
    BY <1>1
  <2>2. account \in [live: {TRUE}, failed: {0}, lock: {0}, role: BOOLEAN]
    BY DEF Init
  <2>3. QED BY <2>1, <2>2 DEF Account
<1>3. failures \in [Addresses -> ByAge]
  BY DEF Init, ByAge
<1>4. TypeOK
  <2>1. misses \in Nat /\ faults \in 0..MaxFaults /\ guesses = failures
    BY <1>1 DEF Init
  <2>2. session \in [Sessions -> {"none", "live", "deleted"}]
    BY DEF Init
  <2>3. RequestsTyped
    BY DEF Init, RequestsTyped, Places
  <2>4. QED BY <1>2, <1>3, <2>1, <2>2, <2>3, TypeParts
<1>5. \A t \in Threads : at[t] = "idle"
  BY DEF Init
<1>6. QED BY <1>4, <1>5 DEF IInv, Remembers

\* One more of the same age.
LEMMA OneMoreTyped ==
    ASSUME NEW f \in [Addresses -> ByAge], NEW a \in Addresses
    PROVE  [f EXCEPT ![a] = OneMore(f[a])] \in [Addresses -> ByAge]
<1>1. f[a] \in [0..Window - 1 -> Nat]
  BY DEF ByAge
<1>2. \A i \in 0..Window - 1 : f[a][i] + 1 \in Nat
  BY <1>1
<1>3. OneMore(f[a]) \in [0..Window - 1 -> Nat]
  BY <1>2 DEF OneMore
<1>4. QED BY <1>3 DEF ByAge

\* The whole row as it will be.
LEMMA Rows ==
    ASSUME account \in Account
    PROVE  /\ [account EXCEPT !.failed = CountUp(@)] \in Account
           /\ [account EXCEPT !.lock = Lock] \in Account
           /\ [account EXCEPT !.failed = 0, !.lock = 0] \in Account
           /\ [account EXCEPT !.live = FALSE] \in Account
           /\ \A b \in BOOLEAN : [account EXCEPT !.role = b] \in Account
           /\ \A r \in Account : [r EXCEPT !.role = @ \/ account.role] \in Account
           /\ account.lock \in 0..Lock
<1>1. /\ \A n \in 0..MaxAttempts : CountUp(n) \in 0..MaxAttempts
      /\ Lock \in 0..Lock /\ 0 \in 0..Lock /\ 0 \in 0..MaxAttempts
  BY AttemptsAssumption DEF CountUp
<1>2. [account EXCEPT !.failed = CountUp(@)] \in Account
  BY <1>1 DEF Account
<1>3. /\ [account EXCEPT !.lock = Lock] \in Account
      /\ [account EXCEPT !.failed = 0, !.lock = 0] \in Account
  BY <1>1 DEF Account
<1>4. /\ [account EXCEPT !.live = FALSE] \in Account
      /\ \A b \in BOOLEAN : [account EXCEPT !.role = b] \in Account
  BY DEF Account
<1>5. ASSUME NEW r \in Account PROVE [r EXCEPT !.role = @ \/ account.role] \in Account
  <2>1. (r.role \/ account.role) \in BOOLEAN
    OBVIOUS
  <2>2. \A b \in BOOLEAN : [r EXCEPT !.role = b] \in Account
    BY DEF Account
  <2>3. QED BY <2>1, <2>2
<1>6. QED BY <1>2, <1>3, <1>4, <1>5 DEF Account

-----------------------------------------------------------------------------
\* What the invariant says of the tables.
LEMMA RowsTyped ==
    ASSUME IInv
    PROVE  /\ RequestsTyped /\ account \in Account
           /\ failures \in [Addresses -> ByAge] /\ guesses \in [Addresses -> ByAge]
           /\ session \in [Sessions -> {"none", "live", "deleted"}]
           /\ misses \in Nat /\ faults \in 0..MaxFaults
           /\ account.lock \in 0..Lock
BY TypeParts DEF IInv, Account

\* A fault is one that was left.
LEMMA FaultTyped == ASSUME IInv, Fault PROVE faults' \in 0..MaxFaults
BY RowsTyped, FaultsAssumption DEF Fault

\* A statement of t that takes nothing away.
LEMMA Reads ==
    ASSUME IInv, NEW t \in Threads, NEW pc \in Places,
           NEW r \in Account \cup {Nothing}, NEW s \in Sessions \cup {Nothing},
           Goto(t, pc, r, s), UNCHANGED rows,
           guesses' \in [Addresses -> ByAge], misses' \in Nat, faults' \in 0..MaxFaults,
           Remembers(t)'
    PROVE  IInv'
<1>1. Taking({}, t, pc, r, s)
  BY DEF Goto
<1>2. account' = account /\ failures' = failures /\ session' = session
  BY DEF rows
<1>3. /\ account \in Account /\ failures \in [Addresses -> ByAge]
      /\ session \in [Sessions -> {"none", "live", "deleted"}]
      /\ account.lock \in Int
  BY RowsTyped, AttemptsAssumption
<1>4. ~(account'.lock > account.lock)
  BY <1>2, <1>3
<1>5. {} \in SUBSET Things
  OBVIOUS
<1>6. QED BY <1>1, <1>2, <1>3, <1>4, <1>5, OneMoves

\* A request that is nowhere in particular remembers nothing.
LEMMA Nowhere ==
    ASSUME NEW t, at'[t] \in {"idle", "find", "lock", "record", "create"}
    PROVE  Remembers(t)'
BY DEF Remembers

LEMMA LoginHolds ==
    ASSUME IInv, NEW t \in Threads, NEW a \in Addresses, Login(t, a) PROVE IInv'
<1>1. /\ at' = [at EXCEPT ![t] = "find"] /\ from' = [from EXCEPT ![t] = a]
      /\ UNCHANGED <<account, failures, session, row, held, overtaken, guesses, misses, faults>>
  BY DEF Login, rows, tries
<1>2. TypeOK'
  BY <1>1 DEF IInv, TypeOK, Account, ByAge
<1>3. ASSUME NEW u \in Threads PROVE Remembers(u)'
  <2>1. at'[u] = at[u] \/ at'[u] = "find"
    BY <1>1 DEF IInv, TypeOK
  <2>2. Remembers(u)
    BY DEF IInv
  <2>3. CASE at'[u] = "find"
    BY <2>3, Nowhere
  <2>4. CASE at'[u] = at[u]
    BY <1>1, <2>2, <2>4 DEF Remembers
  <2>5. QED BY <2>1, <2>3, <2>4
<1>4. QED BY <1>2, <1>3 DEF IInv

\* Where Goto leaves the request.
LEMMA GotoAt ==
    ASSUME IInv, NEW t \in Threads, NEW X, NEW pc, NEW r, NEW s, Taking(X, t, pc, r, s)
    PROVE  at'[t] = pc /\ row'[t] = r /\ held'[t] = s
BY RowsTyped DEF Taking, RequestsTyped

LEMMA FindRefusedHolds ==
    ASSUME IInv, NEW t \in Threads, FindRefused(t) \/ FindFailed(t) PROVE IInv'
<1>1. Goto(t, "record", Nothing, Nothing) /\ UNCHANGED rows /\ UNCHANGED tries
  BY DEF FindRefused, FindFailed
<1>2. faults' \in 0..MaxFaults
  BY FaultTyped, RowsTyped DEF FindRefused, FindFailed
<1>3. Remembers(t)'
  BY <1>1, GotoAt, Nowhere DEF Goto
<1>4. guesses' \in [Addresses -> ByAge] /\ misses' \in Nat /\ "record" \in Places
  BY <1>1, RowsTyped DEF tries, Places
<1>5. QED BY <1>1, <1>2, <1>3, <1>4, Reads

LEMMA MissHolds == ASSUME IInv, NEW t \in Threads, Miss(t) PROVE IInv'
<1>1. /\ Goto(t, "increment", account, Nothing) /\ UNCHANGED rows /\ faults' = faults
      /\ guesses' = [guesses EXCEPT ![from[t]] = OneMore(guesses[from[t]])] /\ misses' = misses + 1
  BY DEF Miss
<1>2. guesses' \in [Addresses -> ByAge] /\ misses' \in Nat /\ faults' \in 0..MaxFaults
  <2>1. from[t] \in Addresses
    BY RowsTyped DEF RequestsTyped
  <2>2. QED BY <1>1, <2>1, OneMoreTyped, RowsTyped
<1>3. Remembers(t)'
  <2>1. at'[t] = "increment" /\ row'[t] = account
    BY <1>1, GotoAt DEF Goto
  <2>2. QED BY <2>1, RowsTyped DEF Remembers
<1>4. account \in Account /\ "increment" \in Places
  BY RowsTyped DEF Places
<1>5. QED BY <1>1, <1>2, <1>3, <1>4, Reads

LEMMA MatchHolds == ASSUME IInv, NEW t \in Threads, Match(t) PROVE IInv'
<1>1. /\ Goto(t, "reset", Nothing, Nothing) /\ UNCHANGED rows /\ UNCHANGED tries
      /\ faults' = faults /\ account.lock = 0
  BY DEF Match, Found
<1>2. Remembers(t)'
  <2>1. at'[t] = "reset" /\ account' = account
    BY <1>1, GotoAt DEF Goto, rows
  <2>2. QED BY <1>1, <2>1 DEF Remembers
<1>3. /\ guesses' \in [Addresses -> ByAge] /\ misses' \in Nat /\ faults' \in 0..MaxFaults
      /\ "reset" \in Places
  BY <1>1, RowsTyped DEF tries, Places
<1>4. QED BY <1>1, <1>2, <1>3, Reads

\* A statement of t that writes the account and keeps it typed.
LEMMA WritesAccount ==
    ASSUME IInv, NEW t \in Threads, NEW X \in SUBSET Things, NEW pc \in Places,
           Taking(X, t, pc, Nothing, Nothing), UNCHANGED <<failures, session, guesses>>,
           account' \in Account, misses' \in Nat, faults' \in 0..MaxFaults,
           account.live => account'.live, account.role => account'.role,
           account'.lock > account.lock => "lock" \in X,
           Remembers(t)'
    PROVE  IInv'
<1>1. /\ failures' \in [Addresses -> ByAge] /\ guesses' \in [Addresses -> ByAge]
      /\ session' \in [Sessions -> {"none", "live", "deleted"}]
      /\ session' = session
  BY RowsTyped
<1>2. QED BY <1>1, OneMoves

LEMMA IncrementHolds == ASSUME IInv, NEW t \in Threads, Increment(t) PROVE IInv'
<1> DEFINE pc == IF Enough(t) THEN "lock" ELSE "record"
<1>1. /\ Taking({}, t, pc, Nothing, Nothing) /\ UNCHANGED <<failures, session, guesses>>
      /\ misses' = misses /\ pc \in {"lock", "record"}
  BY DEF Increment, Goto, tries
<1>2. Remembers(t)'
  BY <1>1, GotoAt, Nowhere
<1>3. /\ account' \in Account /\ account'.live = account.live
      /\ account'.role = account.role /\ account'.lock = account.lock
  BY Rows, RowsTyped DEF Increment, Account
<1>4. misses' \in Nat /\ faults' \in 0..MaxFaults /\ account.lock \in Int
  BY <1>1, RowsTyped, FaultTyped, AttemptsAssumption DEF Increment
<1>5. {} \in SUBSET Things /\ pc \in Places /\ ~(account'.lock > account.lock)
  BY <1>1, <1>3, <1>4 DEF Places
<1>6. QED BY <1>1, <1>2, <1>3, <1>4, <1>5, WritesAccount

LEMMA LockUserHolds == ASSUME IInv, NEW t \in Threads, LockUser(t) PROVE IInv'
<1>1. "lock" \in Things /\ "record" \in Places /\ 0 \in Nat
  BY DEF Things, Places
<1>2. UNCHANGED <<failures, session, guesses>> /\ account.lock \in Int
  BY RowsTyped, AttemptsAssumption DEF LockUser
<1>3. CASE /\ Taking({"lock"}, t, "record", Nothing, Nothing) /\ misses' = 0
           /\ account' = (IF account.live THEN [account EXCEPT !.lock = Lock] ELSE account)
           /\ UNCHANGED faults
  <2>1. Remembers(t)'
    BY <1>3, GotoAt, Nowhere
  <2>2. account' \in Account /\ account'.live = account.live /\ account'.role = account.role
    BY <1>3, Rows, RowsTyped DEF Account
  <2>3. QED BY <1>1, <1>2, <1>3, <2>1, <2>2, RowsTyped, WritesAccount
<1>4. CASE /\ Goto(t, "record", Nothing, Nothing) /\ Fault /\ UNCHANGED <<account, misses>>
  <2>1. Remembers(t)' /\ Taking({}, t, "record", Nothing, Nothing)
    BY <1>4, GotoAt, Nowhere DEF Goto
  <2>2. /\ account' \in Account /\ account' = account /\ ~(account'.lock > account.lock)
        /\ misses' \in Nat /\ faults' \in 0..MaxFaults
    BY <1>2, <1>4, RowsTyped, FaultTyped
  <2>3. QED BY <1>1, <1>2, <2>1, <2>2, WritesAccount
<1>5. QED BY <1>3, <1>4 DEF LockUser

LEMMA RecordHolds == ASSUME IInv, NEW t \in Threads, Record(t) PROVE IInv'
<1>1. /\ Taking({}, t, "idle", Nothing, Nothing) /\ UNCHANGED <<account, session, guesses, misses>>
  BY DEF Record, Return, Goto, tries
<1>2. Remembers(t)'
  BY <1>1, GotoAt, Nowhere
<1>3. failures' \in [Addresses -> ByAge] /\ faults' \in 0..MaxFaults
  <2>1. from[t] \in Addresses
    BY RowsTyped DEF RequestsTyped
  <2>2. QED BY <2>1, OneMoreTyped, RowsTyped, FaultTyped DEF Record
<1>4. /\ guesses' \in [Addresses -> ByAge] /\ misses' \in Nat /\ account' \in Account
      /\ session' \in [Sessions -> {"none", "live", "deleted"}]
      /\ account.lock \in Int
  BY <1>1, RowsTyped, AttemptsAssumption
<1>5. {} \in SUBSET Things /\ "idle" \in Places /\ ~(account'.lock > account.lock)
  BY <1>1, <1>4 DEF Places
<1>6. QED BY <1>1, <1>2, <1>3, <1>4, <1>5, OneMoves

LEMMA ResetHolds == ASSUME IInv, NEW t \in Threads, Reset(t) PROVE IInv'
<1>1. /\ Taking({}, t, "create", Nothing, Nothing) /\ UNCHANGED <<failures, session, guesses>>
  BY DEF Reset, Goto
<1>2. Remembers(t)'
  BY <1>1, GotoAt, Nowhere
<1> DEFINE cleared == [account EXCEPT !.failed = 0, !.lock = 0]
<1>a. account' = cleared \/ account' = account
  BY DEF Reset
<1>b. /\ cleared \in Account /\ cleared.live = account.live
      /\ cleared.role = account.role /\ cleared.lock = 0
  BY Rows, RowsTyped DEF Account
<1>3. account' \in Account /\ account'.live = account.live /\ account'.role = account.role
  BY <1>a, <1>b, RowsTyped
<1>4. account'.lock = account.lock \/ account'.lock = 0
  BY <1>a, <1>b
<1>5. misses' \in Nat /\ faults' \in 0..MaxFaults
  BY RowsTyped, FaultTyped DEF Reset
<1>6. {} \in SUBSET Things /\ "create" \in Places /\ ~(account'.lock > account.lock)
  <2>1. account.lock \in Nat
    BY RowsTyped, AttemptsAssumption
  <2>2. QED BY <1>4, <2>1 DEF Places
<1>7. QED BY <1>1, <1>2, <1>3, <1>5, <1>6, WritesAccount

\* A statement of t that writes the sessions and ends X of them.
LEMMA WritesSession ==
    ASSUME IInv, NEW t \in Threads, NEW X \in SUBSET Sessions,
           Taking(X, t, "idle", Nothing, Nothing),
           UNCHANGED <<account, failures, guesses, misses, faults>>,
           session' \in [Sessions -> {"none", "live", "deleted"}],
           \A q \in Sessions : session'[q] = "deleted" => session[q] = "deleted" \/ q \in X
    PROVE  IInv'
<1>1. Remembers(t)'
  BY GotoAt, Nowhere
<1>2. /\ failures' \in [Addresses -> ByAge] /\ guesses' \in [Addresses -> ByAge]
      /\ account' \in Account /\ misses' \in Nat /\ faults' \in 0..MaxFaults
      /\ account.lock \in Int
  BY RowsTyped, AttemptsAssumption
<1>3. X \in SUBSET Things /\ "idle" \in Places /\ ~(account'.lock > account.lock)
  BY <1>2 DEF Things, Places
<1>4. QED BY <1>1, <1>2, <1>3, OneMoves

LEMMA CreateHolds == ASSUME IInv, NEW t \in Threads, Create(t) PROVE IInv'
<1>1. /\ Taking({}, t, "idle", Nothing, Nothing)
      /\ UNCHANGED <<account, failures, guesses, misses, faults>>
  BY DEF Create, Return, Goto, tries
<1>2. /\ session' \in [Sessions -> {"none", "live", "deleted"}]
      /\ \A q \in Sessions : session'[q] = "deleted" => session[q] = "deleted"
  BY RowsTyped DEF Create
<1>3. QED BY <1>1, <1>2, WritesSession

LEMMA RenewHolds == ASSUME IInv, NEW t \in Threads, Renew(t) PROVE IInv'
<1>1. /\ Taking({}, t, "idle", Nothing, Nothing)
      /\ UNCHANGED <<account, failures, guesses, misses, faults>>
  BY DEF Renew, Return, Goto, tries
<1>2. /\ session' \in [Sessions -> {"none", "live", "deleted"}]
      /\ \A q \in Sessions : session'[q] = "deleted" => session[q] = "deleted"
  BY RowsTyped DEF Renew
<1>3. QED BY <1>1, <1>2, WritesSession

LEMMA EndSessionHolds == ASSUME IInv, NEW t \in Threads, EndSession(t) PROVE IInv'
<1>1. UNCHANGED <<account, failures, guesses, misses, faults>>
  BY DEF EndSession, tries
<1>2. CASE /\ session' = [session EXCEPT ![held[t]] = "deleted"]
           /\ Taking({held[t]}, t, "idle", Nothing, Nothing)
  <2>1. held[t] \in Sessions
    BY DEF EndSession, IInv, Remembers
  <2>2. QED BY <1>1, <1>2, <2>1, RowsTyped, WritesSession
<1>3. CASE Return(t) /\ UNCHANGED session
  BY <1>1, <1>3, RowsTyped, WritesSession DEF Return, Goto
<1>4. QED BY <1>2, <1>3 DEF EndSession

LEMMA FindSessionHolds ==
    ASSUME IInv, NEW t \in Threads, NEW s \in Sessions, NEW pc \in {"user", "end"},
           FindSession(t, s, pc)
    PROVE  IInv'
<1>1. /\ Goto(t, pc, Nothing, s) /\ UNCHANGED rows /\ UNCHANGED tries /\ faults' = faults
      /\ session[s] = "live"
  BY DEF FindSession
<1>2. Remembers(t)'
  <2>1. at'[t] = pc /\ held'[t] = s /\ session' = session
    BY <1>1, GotoAt DEF Goto, rows
  <2>2. QED BY <1>1, <2>1 DEF Remembers
<1>3. /\ guesses' \in [Addresses -> ByAge] /\ misses' \in Nat /\ faults' \in 0..MaxFaults
      /\ pc \in Places
  BY <1>1, RowsTyped DEF tries, Places
<1>4. QED BY <1>1, <1>2, <1>3, Reads

LEMMA FindOwnerHolds == ASSUME IInv, NEW t \in Threads, FindOwner(t) PROVE IInv'
<1>1. UNCHANGED rows /\ UNCHANGED tries /\ faults' = faults /\ at[t] = "user"
  BY DEF FindOwner
<1>2. /\ guesses' \in [Addresses -> ByAge] /\ misses' \in Nat /\ faults' \in 0..MaxFaults
      /\ "renew" \in Places /\ "idle" \in Places
  BY <1>1, RowsTyped DEF tries, Places
<1>3. held[t] \in Sessions /\ (session[held[t]] = "deleted" => held[t] \in overtaken[t])
  BY <1>1 DEF IInv, Remembers
<1>4. CASE Goto(t, "renew", Nothing, held[t])
  <2>1. /\ at'[t] = "renew" /\ held'[t] = held[t] /\ session' = session
        /\ Overtake({})
    BY <1>1, <1>4, GotoAt DEF Goto, rows, Taking
  <2>2. at' \in [Threads -> Places]
    BY <1>2, <1>4, RowsTyped DEF Goto, Taking, RequestsTyped
  <2>3. overtaken[t] \subseteq overtaken'[t]
    <3>1. {} \in SUBSET Things /\ at'[t] \in {"reset", "save", "user", "renew"}
      BY <2>1
    <3>2. QED BY <2>1, <2>2, <3>1, RowsTyped, Overtaking
  <2>4. Remembers(t)'
    BY <1>3, <2>1, <2>3 DEF Remembers
  <2>5. QED BY <1>1, <1>2, <1>3, <1>4, <2>4, Reads
<1>5. CASE Return(t)
  <2>1. Goto(t, "idle", Nothing, Nothing) /\ Remembers(t)'
    BY <1>5, GotoAt, Nowhere DEF Return, Goto
  <2>2. QED BY <1>1, <1>2, <2>1, Reads
<1>6. QED BY <1>4, <1>5 DEF FindOwner

LEMMA LoadAccountHolds == ASSUME IInv, NEW t \in Threads, LoadAccount(t) PROVE IInv'
<1>1. /\ Goto(t, "save", account, Nothing) /\ UNCHANGED rows /\ UNCHANGED tries
      /\ faults' = faults /\ account.live
  BY DEF LoadAccount
<1>2. account \in Account /\ account.lock \in Int
  BY RowsTyped, AttemptsAssumption
<1>3. Remembers(t)'
  <2>1. at'[t] = "save" /\ row'[t] = account /\ account' = account
    BY <1>1, GotoAt DEF Goto, rows
  <2>2. ~(account.lock > account.lock)
    BY <1>2
  <2>3. QED BY <1>1, <1>2, <2>1, <2>2 DEF Remembers
<1>4. /\ guesses' \in [Addresses -> ByAge] /\ misses' \in Nat /\ faults' \in 0..MaxFaults
      /\ "save" \in Places
  BY <1>1, RowsTyped DEF tries, Places
<1>5. QED BY <1>1, <1>2, <1>3, <1>4, Reads

\* What a save makes of the row that t has read.
LEMMA Saved ==
    ASSUME IInv, NEW t \in Threads, at[t] = "save",
           account' = [row[t] EXCEPT !.role = @ \/ account.role]
    PROVE  /\ account' \in Account /\ account'.live /\ row[t] \in Account
           /\ account'.lock = row[t].lock /\ row[t].lock \in Int
           /\ account'.role <=> row[t].role \/ account.role
<1>1. row[t] \in Account /\ row[t].live
  BY DEF IInv, Remembers
<1>2. account' \in Account
  BY <1>1, Rows, RowsTyped
<1>3. /\ account'.live = row[t].live /\ account'.lock = row[t].lock
      /\ account'.role = (row[t].role \/ account.role) /\ row[t].lock \in 0..Lock
  BY <1>1 DEF Account
<1>4. row[t].lock \in Int
  BY <1>3, AttemptsAssumption
<1>5. account'.live /\ (account'.role <=> row[t].role \/ account.role)
  BY <1>1, <1>3
<1>6. QED BY <1>1, <1>2, <1>3, <1>4, <1>5

LEMMA SaveAccountHolds == ASSUME IInv, NEW t \in Threads, SaveAccount(t) PROVE IInv'
<1>1. UNCHANGED <<failures, session, guesses, faults>> /\ at[t] = "save"
  BY DEF SaveAccount
<1>2. /\ faults' \in 0..MaxFaults /\ misses' \in Nat /\ "idle" \in Places
      /\ account \in Account /\ account.lock \in Int
  BY <1>1, RowsTyped, AttemptsAssumption DEF SaveAccount, Places
<1> DEFINE X == IF row[t].lock > account.lock THEN {"lock"} ELSE {}
<1>3. CASE /\ account' = [row[t] EXCEPT !.role = @ \/ account.role]
           /\ Taking(X, t, "idle", Nothing, Nothing)
  <2>1. Remembers(t)'
    BY <1>3, GotoAt, Nowhere
  <2>2. /\ account' \in Account /\ account'.live /\ (account.role => account'.role)
        /\ account'.lock > account.lock => "lock" \in X
    BY <1>1, <1>3, Saved
  <2>3. X \in SUBSET Things
    BY DEF Things
  <2>4. HIDE DEF X
  <2>5. QED BY <1>1, <1>2, <1>3, <2>1, <2>2, <2>3, WritesAccount
<1>4. CASE Return(t) /\ UNCHANGED <<account, misses>>
  <2>1. Taking({}, t, "idle", Nothing, Nothing) /\ Remembers(t)'
    BY <1>4, GotoAt, Nowhere DEF Return, Goto
  <2>2. ~(account'.lock > account.lock) /\ {} \in SUBSET Things
    BY <1>2, <1>4
  <2>3. QED BY <1>1, <1>2, <1>4, <2>1, <2>2, WritesAccount
<1>5. QED BY <1>3, <1>4 DEF SaveAccount

\* A statement outside the requests that takes Y away from the account.
LEMMA TakesFromAccount ==
    ASSUME IInv, NEW Y \in SUBSET Things, Overtake(Y), account' \in Account,
           UNCHANGED <<failures, session, guesses, misses, faults>>,
           UNCHANGED <<at, from, row, held>>, account'.lock = account.lock,
           account.live /\ ~account'.live => "account" \in Y,
           account.role /\ ~account'.role => "role" \in Y
    PROVE  IInv'
<1>1. RequestsTyped /\ at' \in [Threads -> Places] /\ account.lock \in Int
  BY RowsTyped, AttemptsAssumption DEF RequestsTyped
<1>2. overtaken' \in [Threads -> SUBSET Things]
  BY <1>1, OvertakeTyped
<1>3. RequestsTyped'
  BY <1>1, <1>2 DEF RequestsTyped
<1>4. TypeOK'
  BY <1>3, RowsTyped DEF TypeOK, RequestsTyped, Things, Places
<1>5. ~(account'.lock > account.lock)
  BY <1>1
<1>6. ASSUME NEW u \in Threads PROVE Remembers(u)'
  BY <1>4, <1>5, Bystander
<1>7. QED BY <1>4, <1>6 DEF IInv

LEMMA AdministerHolds == ASSUME IInv, Administer PROVE IInv'
<1>1. /\ UNCHANGED <<failures, session, guesses, misses, faults>>
      /\ UNCHANGED <<at, from, row, held>>
  BY DEF Administer, tries, requests
<1>2. account \in Account
  BY RowsTyped
<1>3. {"account"} \in SUBSET Things /\ {"role"} \in SUBSET Things
  BY DEF Things
<1>4. CASE account' = [account EXCEPT !.role = TRUE] /\ UNCHANGED overtaken
  <2>1. /\ account' \in Account /\ account'.live = account.live /\ account'.role
        /\ account'.lock = account.lock
    BY <1>2, <1>4, Rows DEF Account
  <2>2. TypeOK'
    BY <1>1, <2>1, <1>4 DEF IInv, TypeOK, ByAge
  <2>3. ASSUME NEW u \in Threads PROVE Remembers(u)'
    <3>1. Remembers(u)
      BY DEF IInv
    <3>2. QED BY <1>1, <1>4, <2>1, <3>1 DEF Remembers
  <2>4. QED BY <2>2, <2>3 DEF IInv
<1>5. CASE account' = [account EXCEPT !.live = FALSE] /\ Overtake({"account"})
  <2>1. /\ account' \in Account /\ account'.lock = account.lock
        /\ account'.role = account.role
    BY <1>2, <1>5, Rows DEF Account
  <2>2. QED BY <1>1, <1>3, <1>5, <2>1, TakesFromAccount
<1>6. CASE account' = [account EXCEPT !.role = FALSE] /\ Overtake({"role"})
  <2>1. /\ account' \in Account /\ account'.lock = account.lock
        /\ account'.live = account.live
    BY <1>2, <1>6, Rows DEF Account
  <2>2. QED BY <1>1, <1>3, <1>6, <2>1, TakesFromAccount
<1>7. QED BY <1>4, <1>5, <1>6 DEF Administer

\* Ageing keeps the counts.
LEMMA OlderTyped == ASSUME NEW f \in [Addresses -> ByAge] PROVE Older(f) \in [Addresses -> ByAge]
<1>1. ASSUME NEW a \in Addresses, NEW i \in 0..Window - 1
      PROVE  (IF i = 0 THEN 0 ELSE f[a][i - 1]) \in Nat
  <2>1. CASE i = 0
    BY <2>1
  <2>2. CASE i # 0
    <3>1. i - 1 \in 0..Window - 1
      BY <2>2, AttemptsAssumption
    <3>2. f[a] \in [0..Window - 1 -> Nat]
      BY DEF ByAge
    <3>3. QED BY <2>2, <3>1, <3>2
  <2>3. QED BY <2>1, <2>2
<1>2. QED BY <1>1 DEF Older, ByAge

\* A lock runs out a tick at a time.
LEMMA ExpiringTyped ==
    ASSUME NEW r \in Account
    PROVE  /\ Expiring(r) \in Account /\ Expiring(r).live = r.live
           /\ Expiring(r).role = r.role
           /\ Expiring(r).lock = IF r.lock > 0 THEN r.lock - 1 ELSE 0
<1>1. (IF r.lock > 0 THEN r.lock - 1 ELSE 0) \in 0..Lock
  BY AttemptsAssumption DEF Account
<1>2. QED BY <1>1 DEF Expiring, Account

LEMMA TickHolds == ASSUME IInv, Tick PROVE IInv'
<1>1. /\ account' = Expiring(account) /\ account \in Account
      /\ UNCHANGED <<session, at, from, held, overtaken, misses, faults>>
      /\ RequestsTyped
      /\ row' = [t \in Threads |-> IF row[t] \in Account THEN Expiring(row[t]) ELSE row[t]]
  BY RowsTyped DEF Tick
<1>2. /\ account' \in Account /\ account'.live = account.live
      /\ account'.role = account.role
      /\ account'.lock = IF account.lock > 0 THEN account.lock - 1 ELSE 0
  BY <1>1, ExpiringTyped
<1>3. failures' \in [Addresses -> ByAge] /\ guesses' \in [Addresses -> ByAge]
  BY OlderTyped, RowsTyped DEF Tick
<1>4. row' \in [Threads -> Account \cup {Nothing}]
  BY <1>1, ExpiringTyped DEF RequestsTyped
<1>5. TypeOK'
  BY <1>1, <1>2, <1>3, <1>4, RowsTyped DEF TypeOK, RequestsTyped, Things, Places
<1>6. ASSUME NEW u \in Threads PROVE Remembers(u)'
  <2>1. Remembers(u)
    BY DEF IInv
  <2>2. {account.lock, account'.lock} \subseteq Int
    BY <1>1, <1>2, AttemptsAssumption DEF Account
  <2>3. CASE at[u] \in {"save", "increment"}
    <3>1. row[u] \in Account
      BY <2>1, <2>3 DEF Remembers
    <3>2. row'[u] = Expiring(row[u])
      BY <1>1, <3>1
    <3>3. /\ row'[u] \in Account /\ row'[u].live = row[u].live
          /\ row'[u].role = row[u].role
          /\ row'[u].lock = IF row[u].lock > 0 THEN row[u].lock - 1 ELSE 0
      BY <3>1, <3>2, ExpiringTyped
    <3>4. row[u].lock \in Int /\ row[u].lock >= 0
      BY <3>1, AttemptsAssumption DEF Account
    <3>5. account'.lock > row'[u].lock => account.lock > row[u].lock
      BY <1>2, <2>2, <3>3, <3>4
    <3>6. QED BY <1>1, <1>2, <2>1, <2>3, <3>3, <3>5 DEF Remembers
  <2>4. CASE at[u] = "reset"
    <3>1. account'.lock > 0 => account.lock > 0
      BY <1>2, <2>2
    <3>2. QED BY <1>1, <2>1, <2>4, <3>1 DEF Remembers
  <2>5. CASE at[u] \notin {"save", "increment", "reset"}
    BY <1>1, <2>1, <2>5 DEF Remembers
  <2>6. QED BY <2>3, <2>4, <2>5
<1>7. QED BY <1>5, <1>6 DEF IInv

-----------------------------------------------------------------------------
\* Every step keeps the invariant.
LEMMA NextHolds == IInv /\ [Next]_vars => IInv'
<1> SUFFICES ASSUME IInv, [Next]_vars PROVE IInv'
  OBVIOUS
<1>1. CASE \E t \in Threads : Step(t)
  <2>1. PICK t \in Threads : Step(t)
    BY <1>1
  <2>2. CASE \E a \in Addresses : Login(t, a)
    BY <2>2, LoginHolds
  <2>3. CASE FindRefused(t) \/ FindFailed(t)
    BY <2>3, FindRefusedHolds
  <2>4. CASE Miss(t) \/ Match(t)
    BY <2>4, MissHolds, MatchHolds
  <2>5. CASE Increment(t) \/ LockUser(t) \/ Record(t)
    BY <2>5, IncrementHolds, LockUserHolds, RecordHolds
  <2>6. CASE Reset(t) \/ Create(t)
    BY <2>6, ResetHolds, CreateHolds
  <2>7. CASE \E s \in Sessions, pc \in {"user", "end"} : FindSession(t, s, pc)
    BY <2>7, FindSessionHolds
  <2>8. CASE FindOwner(t) \/ Renew(t) \/ EndSession(t)
    BY <2>8, FindOwnerHolds, RenewHolds, EndSessionHolds
  <2>9. CASE LoadAccount(t) \/ SaveAccount(t)
    BY <2>9, LoadAccountHolds, SaveAccountHolds
  <2>10. QED BY <2>1, <2>2, <2>3, <2>4, <2>5, <2>6, <2>7, <2>8, <2>9 DEF Step
<1>2. CASE Administer
  BY <1>2, AdministerHolds
<1>3. CASE Tick
  BY <1>3, TickHolds
<1>4. CASE UNCHANGED vars
  BY <1>4 DEF vars, rows, requests, tries, IInv, TypeOK, Remembers, Account, ByAge
<1>5. QED BY <1>1, <1>2, <1>3, <1>4 DEF Next

\* A request always remembers what it has been overtaken in.
THEOREM Invariance == Spec => []IInv
BY InitHolds, NextHolds, PTL DEF Spec

\* The variables keep their types.
THEOREM TypeCorrect == Spec => []TypeOK
<1>1. IInv => TypeOK
  BY DEF IInv
<1>2. QED BY <1>1, Invariance, PTL

\* One step of RevocationHolds.
Revocation ==
    /\ ~account.live /\ account'.live => Overtook("account")
    /\ account'.lock < account.lock => Tick \/ Overtook("lock")
    /\ ~account.role /\ account'.role => Administer \/ Overtook("role")
    /\ \A s \in Sessions : session[s] = "deleted" /\ session'[s] # "deleted" => Overtook(s)

\* A step of the account that only adds to what was taken away is no revival.
LEMMA NoRevival ==
    ASSUME IInv, account'.live => account.live, account'.role => account.role,
           ~(account'.lock < account.lock),
           \A s \in Sessions : session[s] = "deleted" => session'[s] = "deleted"
    PROVE  Revocation
BY DEF Revocation

\* Nor is one that leaves the account alone.
LEMMA OthersRevive ==
    ASSUME IInv, account' = account,
           \A s \in Sessions : session[s] = "deleted" => session'[s] = "deleted"
    PROVE  Revocation
<1>1. ~(account'.lock < account.lock)
  BY RowsTyped, AttemptsAssumption
<1>2. QED BY <1>1, NoRevival

LEMMA IncrementRevives ==
    ASSUME IInv, NEW t \in Threads, Increment(t) \/ LockUser(t) PROVE Revocation
<1>1. account \in Account /\ session' = session
  BY RowsTyped DEF Increment, LockUser
<1>2. account'.live = account.live /\ account'.role = account.role
  <2>1. \/ account' = account
        \/ account' = [account EXCEPT !.failed = CountUp(@)]
        \/ account' = [account EXCEPT !.lock = Lock]
    BY DEF Increment, LockUser
  <2>2. QED BY <1>1, <2>1 DEF Account
<1>3. account'.lock = account.lock \/ account'.lock = Lock
  <2>1. \/ account' = account
        \/ account' = [account EXCEPT !.failed = CountUp(@)]
        \/ account' = [account EXCEPT !.lock = Lock]
    BY DEF Increment, LockUser
  <2>2. QED BY <1>1, <2>1 DEF Account
<1>4. ~(account'.lock < account.lock)
  BY <1>3, RowsTyped, AttemptsAssumption
<1>5. QED BY <1>1, <1>2, <1>4, NoRevival

LEMMA ResetRevives == ASSUME IInv, NEW t \in Threads, Reset(t) PROVE Revocation
<1>1. account \in Account /\ session' = session /\ account.lock \in 0..Lock
  BY RowsTyped DEF Reset
<1> DEFINE cleared == [account EXCEPT !.failed = 0, !.lock = 0]
<1>2. account' = cleared \/ account' = account
  BY DEF Reset
<1>3. cleared.live = account.live /\ cleared.role = account.role /\ cleared.lock = 0
  BY <1>1 DEF Account
<1>4. account'.lock < account.lock => Overtook("lock")
  <2>1. ASSUME account'.lock < account.lock PROVE "lock" \in overtaken[t]
    <3>1. account.lock > 0
      <4>1. account.lock \in Int /\ account.lock >= 0
        BY <1>1, AttemptsAssumption
      <4>2. account'.lock = 0 \/ account'.lock = account.lock
        BY <1>2, <1>3
      <4>3. QED BY <2>1, <4>1, <4>2
    <3>2. QED BY <3>1 DEF Reset, IInv, Remembers
  <2>2. at[t] = "reset" /\ at'[t] = "create"
    BY GotoAt DEF Reset, Goto
  <2>3. QED BY <2>1, <2>2 DEF Overtook
<1>5. QED BY <1>1, <1>2, <1>3, <1>4 DEF Revocation

LEMMA RenewRevives == ASSUME IInv, NEW t \in Threads, Renew(t) PROVE Revocation
<1>1. account' = account /\ at[t] = "renew" /\ at'[t] = "idle"
  BY GotoAt DEF Renew, Return, Goto
<1>2. /\ held[t] \in Sessions
      /\ session[held[t]] = "deleted" => held[t] \in overtaken[t]
  BY <1>1 DEF IInv, Remembers
<1>3. ASSUME NEW s \in Sessions, session[s] = "deleted", session'[s] # "deleted"
      PROVE  Overtook(s)
  <2>1. s = held[t]
    BY <1>3, RowsTyped DEF Renew
  <2>2. QED BY <1>1, <1>2, <1>3, <2>1 DEF Overtook
<1>4. ~(account'.lock < account.lock)
  BY <1>1, RowsTyped, AttemptsAssumption
<1>5. QED BY <1>1, <1>3, <1>4 DEF Revocation

LEMMA SaveAccountRevives == ASSUME IInv, NEW t \in Threads, SaveAccount(t) PROVE Revocation
<1>1. session' = session /\ at[t] = "save" /\ at'[t] = "idle"
  BY GotoAt DEF SaveAccount, Return, Goto
<1>2. CASE account' = account
  BY <1>1, <1>2, OthersRevive
<1>3. CASE account' = [row[t] EXCEPT !.role = @ \/ account.role]
  <2>1. /\ account'.live /\ account'.lock = row[t].lock /\ row[t].lock \in Int
        /\ account'.role <=> row[t].role \/ account.role
    BY <1>1, <1>3, Saved
  <2>2. /\ ~account.live => "account" \in overtaken[t]
        /\ row[t].role /\ ~account.role => "role" \in overtaken[t]
        /\ account.lock > row[t].lock => "lock" \in overtaken[t]
    BY <1>1 DEF IInv, Remembers
  <2>3. account.lock \in Int
    BY RowsTyped, AttemptsAssumption
  <2>4. account'.lock < account.lock => "lock" \in overtaken[t]
    BY <2>1, <2>2, <2>3
  <2>5. QED BY <1>1, <2>1, <2>2, <2>4 DEF Revocation, Overtook
<1>4. QED BY <1>2, <1>3 DEF SaveAccount

LEMMA AdministerRevives == ASSUME IInv, Administer PROVE Revocation
<1>1. account \in Account /\ session' = session /\ account.lock \in Int
  BY RowsTyped, AttemptsAssumption DEF Administer
<1>2. /\ account'.lock = account.lock /\ (account'.live => account.live)
  <2>1. \/ account' = [account EXCEPT !.live = FALSE]
        \/ account' = [account EXCEPT !.role = FALSE]
        \/ account' = [account EXCEPT !.role = TRUE]
    BY DEF Administer
  <2>2. QED BY <1>1, <2>1 DEF Account
<1>3. ~(account'.lock < account.lock)
  BY <1>1, <1>2
<1>4. QED BY <1>1, <1>2, <1>3 DEF Revocation

LEMMA TickRevives == ASSUME IInv, Tick PROVE Revocation
<1>1. session' = session /\ account'.live = account.live /\ account'.role = account.role
  BY RowsTyped, ExpiringTyped DEF Tick
<1>2. QED BY <1>1 DEF Revocation

\* Every other step leaves the account alone and ends sessions only.
LEMMA StepRevives == IInv /\ [Next]_vars => Revocation
<1> SUFFICES ASSUME IInv, [Next]_vars PROVE Revocation
  OBVIOUS
<1>1. ASSUME NEW t \in Threads, Step(t) PROVE Revocation
  <2>1. CASE Increment(t) \/ LockUser(t)
    BY <2>1, IncrementRevives
  <2>2. CASE Reset(t)
    BY <2>2, ResetRevives
  <2>3. CASE Renew(t)
    BY <2>3, RenewRevives
  <2>4. CASE SaveAccount(t)
    BY <2>4, SaveAccountRevives
  <2>5. CASE Create(t) \/ EndSession(t)
    <3>1. account' = account
      BY <2>5 DEF Create, EndSession
    <3>2. \A s \in Sessions : session[s] = "deleted" => session'[s] = "deleted"
      BY <2>5, RowsTyped DEF Create, EndSession
    <3>3. QED BY <3>1, <3>2, OthersRevive
  <2>6. CASE \/ (\E a \in Addresses : Login(t, a))
             \/ FindRefused(t) \/ FindFailed(t) \/ Miss(t) \/ Match(t) \/ Record(t)
             \/ (\E s \in Sessions, pc \in {"user", "end"} : FindSession(t, s, pc))
             \/ FindOwner(t) \/ LoadAccount(t)
    <3>1. account' = account /\ session' = session
      BY <2>6 DEF Login, FindRefused, FindFailed, Miss, Match, Record, FindSession,
                  FindOwner, LoadAccount, rows
    <3>2. QED BY <3>1, OthersRevive
  <2>7. QED BY <1>1, <2>1, <2>2, <2>3, <2>4, <2>5, <2>6 DEF Step
<1>2. CASE Administer
  BY <1>2, AdministerRevives
<1>3. CASE Tick
  BY <1>3, TickRevives
<1>4. CASE UNCHANGED vars
  BY <1>4, OthersRevive DEF vars, rows
<1>5. QED BY <1>1, <1>2, <1>3, <1>4 DEF Next

\* For any number of requests, sessions and addresses: a deletion, a logout, a role
\* taken away and a lock are undone only by a request that had read the row before.
THEOREM RevocationTheorem == Spec => RevocationHolds
<1>1. IInv /\ [Next]_vars => [Revocation]_vars
  BY StepRevives
<1>2. Spec => [][Revocation]_vars
  BY <1>1, Invariance, PTL DEF Spec
<1>3. QED BY <1>2, PTL DEF RevocationHolds, Revocation

-----------------------------------------------------------------------------
(* The lock comes in time.                                                 *)

\* The requests that have missed and will not lock the account, ...
Counting == {t \in Threads : at[t] = "increment" /\ ~Enough(t)}

\* ... and those that will.
Locking == {t \in Threads : at[t] = "lock" \/ (at[t] = "increment" /\ Enough(t))}

\* The inductive invariant.  While the count is not yet full every miss is in it, on
\* its way to it, or lost to a fault; once a request reads a full count it locks, so
\* all that is left are the misses of the requests that are about to.
Late ==
    /\ account.live /\ account.failed <= MaxAttempts - 2 =>
           misses <= account.failed + Cardinality(Counting) + Cardinality(Locking) + faults
    /\ misses <= MaxAttempts - 2 + Cardinality(Threads) + Cardinality(Locking) + faults

\* Two sets of requests that have none in common.
LEMMA Apart ==
    ASSUME NEW S \in SUBSET Threads, NEW T \in SUBSET Threads, S \cap T = {}
    PROVE  /\ IsFiniteSet(S) /\ IsFiniteSet(T)
           /\ Cardinality(S) \in Nat /\ Cardinality(T) \in Nat
           /\ Cardinality(Threads) \in Nat \ {0}
           /\ Cardinality(S) + Cardinality(T) <= Cardinality(Threads)
<1>1. IsFiniteSet(Threads) /\ IsFiniteSet(S) /\ IsFiniteSet(T)
  BY FS_Subset, AccountsAssumption
<1>2. /\ Cardinality(S) \in Nat /\ Cardinality(T) \in Nat
      /\ Cardinality(Threads) \in Nat
  BY <1>1, FS_CardinalityType
<1>3. Cardinality(Threads) # 0
  BY <1>1, FS_EmptySet, AccountsAssumption
<1>4. Cardinality(S \cap T) = 0
  BY FS_EmptySet
<1>5. Cardinality(S \cup T) = Cardinality(S) + Cardinality(T) - Cardinality(S \cap T)
  BY <1>1, FS_Union
<1>6. Cardinality(S \cup T) <= Cardinality(Threads)
  <2>1. S \cup T \in SUBSET Threads
    OBVIOUS
  <2>2. QED BY <1>1, <2>1, FS_Subset
<1>7. QED BY <1>1, <1>2, <1>3, <1>4, <1>5, <1>6

LEMMA Waiters ==
    /\ Counting \in SUBSET Threads /\ Locking \in SUBSET Threads
    /\ Counting \cap Locking = {}
BY DEF Counting, Locking

LEMMA WaitersCount ==
    /\ IsFiniteSet(Counting) /\ IsFiniteSet(Locking)
    /\ Cardinality(Counting) \in Nat /\ Cardinality(Locking) \in Nat
    /\ Cardinality(Threads) \in Nat \ {0}
    /\ Cardinality(Counting) + Cardinality(Locking) <= Cardinality(Threads)
BY Waiters, Apart

\* The same of the next state.
LEMMA WaitersNext ==
    /\ Cardinality(Counting') \in Nat /\ Cardinality(Locking') \in Nat
    /\ Cardinality(Counting') + Cardinality(Locking') <= Cardinality(Threads)
<1>1. /\ Counting' \in SUBSET Threads /\ Locking' \in SUBSET Threads
      /\ Counting' \cap Locking' = {}
  BY DEF Counting, Locking
<1>2. QED BY <1>1, Apart

\* A set of requests that t leaves or enters.
LEMMA Leaves ==
    ASSUME NEW S, NEW T, IsFiniteSet(S), NEW t \in S, T = S \ {t}
    PROVE  Cardinality(T) = Cardinality(S) - 1
BY FS_RemoveElement

LEMMA Enters ==
    ASSUME NEW S, NEW T, IsFiniteSet(S), NEW t, t \notin S, T = S \cup {t}
    PROVE  Cardinality(T) = Cardinality(S) + 1
BY FS_AddElement

\* The numbers that Late is about.
LEMMA Numbers ==
    ASSUME IInv
    PROVE  /\ MaxAttempts \in Nat \ {0} /\ misses \in Nat /\ faults \in Nat
           /\ account.live \in BOOLEAN
           /\ account.failed \in Nat /\ account.failed <= MaxAttempts
BY RowsTyped, AttemptsAssumption, FaultsAssumption DEF Account

\* A request that is elsewhere before and after a statement of its own.
LEMMA SameWaiters ==
    ASSUME NEW t \in Threads,
           at[t] \notin {"increment", "lock"}, at'[t] \notin {"increment", "lock"},
           \A u \in Threads \ {t} : at'[u] = at[u] /\ row'[u] = row[u]
    PROVE  Counting' = Counting /\ Locking' = Locking
BY DEF Counting, Locking, Enough

\* No request misses: the count begins again, or is at least what it was.
LEMMA LateStays ==
    ASSUME IInv, Late, Counting' = Counting, Locking' = Locking,
           faults' \in Nat, faults' >= faults, account'.failed \in Nat,
           \/ misses' = 0
           \/ /\ misses' = misses
              /\ account'.live => account.live /\ account.failed <= account'.failed
    PROVE  Late'
<1>1. CASE misses' = 0
  BY <1>1, Numbers, WaitersCount DEF Late
<1>2. CASE /\ misses' = misses
           /\ account'.live => account.live /\ account.failed <= account'.failed
  BY <1>2, Numbers, WaitersCount DEF Late
<1>3. QED BY <1>1, <1>2

\* The statements of t that stay away from the count and the lock.
LEMMA LateElsewhere ==
    ASSUME IInv, IInv', Late, NEW t \in Threads,
           at[t] \notin {"increment", "lock"}, at'[t] \notin {"increment", "lock"},
           \A u \in Threads \ {t} : at'[u] = at[u] /\ row'[u] = row[u],
           faults' >= faults,
           \/ misses' = 0
           \/ /\ misses' = misses
              /\ account'.live => account.live /\ account.failed <= account'.failed
    PROVE  Late'
<1>1. Counting' = Counting /\ Locking' = Locking
  BY SameWaiters
<1>2. faults' \in Nat /\ account'.failed \in Nat
  BY FaultsAssumption, AttemptsAssumption DEF IInv, TypeOK, Account
<1>3. QED BY <1>1, <1>2, LateStays

\* Only t moves.
LEMMA Mover ==
    ASSUME IInv, NEW t \in Threads, NEW X, NEW pc, NEW r, NEW s, Taking(X, t, pc, r, s)
    PROVE  /\ at'[t] = pc /\ row'[t] = r /\ from' = from
           /\ \A u \in Threads \ {t} : at'[u] = at[u] /\ row'[u] = row[u]
BY RowsTyped DEF Taking, RequestsTyped

LEMMA MissLate == ASSUME IInv, Late, NEW t \in Threads, Miss(t) PROVE Late'
<1>1. /\ at[t] = "find" /\ account.live /\ account' = account /\ faults' = faults
      /\ misses' = misses + 1 /\ Taking({}, t, "increment", account, Nothing)
  BY DEF Miss, Found, Goto, rows
<1>2. /\ at'[t] = "increment" /\ row'[t] = account
      /\ \A u \in Threads \ {t} : at'[u] = at[u] /\ row'[u] = row[u]
  BY <1>1, Mover
<1>3. t \notin Counting /\ t \notin Locking
  BY <1>1 DEF Counting, Locking
<1>4. CASE account.failed + 1 >= MaxAttempts
  <2>1. Counting' = Counting /\ Locking' = Locking \cup {t}
    BY <1>2, <1>3, <1>4 DEF Counting, Locking, Enough
  <2>2. Cardinality(Locking') = Cardinality(Locking) + 1
    BY <1>3, <2>1, Enters, WaitersCount
  <2>3. QED BY <1>1, <2>1, <2>2, Numbers, WaitersCount DEF Late
<1>5. CASE ~(account.failed + 1 >= MaxAttempts)
  <2>1. Counting' = Counting \cup {t} /\ Locking' = Locking
    BY <1>2, <1>3, <1>5 DEF Counting, Locking, Enough
  <2>2. Cardinality(Counting') = Cardinality(Counting) + 1
    BY <1>3, <2>1, Enters, WaitersCount
  <2>3. misses <= account.failed + Cardinality(Counting) + Cardinality(Locking) + faults
    BY <1>1, <1>5, Numbers DEF Late
  <2>4. Cardinality(Counting') + Cardinality(Locking) <= Cardinality(Threads)
    BY <2>1, WaitersNext
  <2>5. account.failed <= MaxAttempts - 2
    BY <1>5, Numbers
  <2>6. /\ misses' <= account.failed + Cardinality(Counting') + Cardinality(Locking) + faults
        /\ misses' <= MaxAttempts - 2 + Cardinality(Threads) + Cardinality(Locking) + faults
    BY <1>1, <2>2, <2>3, <2>4, <2>5, Numbers, WaitersCount
  <2>7. QED BY <1>1, <2>1, <2>6 DEF Late
<1>6. QED BY <1>4, <1>5

\* The count is incremented, or the statement fails.
LEMMA Incremented ==
    ASSUME IInv, NEW t \in Threads, Increment(t)
    PROVE  /\ account'.live = account.live /\ misses' = misses
           /\ faults' = faults \/ faults' = faults + 1
           /\ account.live /\ account'.failed <= MaxAttempts - 2 /\ faults' = faults =>
                  account'.failed = account.failed + 1
           /\ account.live /\ faults' # faults => account'.failed = account.failed
           /\ account'.failed >= account.failed
<1>1. account \in Account
  BY RowsTyped
<1>2. misses' = misses /\ (faults' = faults \/ faults' = faults + 1)
  BY DEF Increment, Fault, tries
<1>3. CASE account' = account /\ Fault
  BY <1>1, <1>2, <1>3, Numbers DEF Fault
<1>4. CASE /\ account' = (IF account.live THEN [account EXCEPT !.failed = CountUp(@)] ELSE account)
           /\ UNCHANGED faults
  <2>1. CASE account.live
    <3>1. account'.live = account.live /\ account'.failed = CountUp(account.failed)
      BY <1>1, <1>4, <2>1 DEF Account
    <3>2. QED BY <1>2, <1>4, <3>1, Numbers DEF CountUp
  <2>2. CASE ~account.live
    BY <1>2, <1>4, <2>2, Numbers
  <2>3. QED BY <2>1, <2>2
<1>5. QED BY <1>3, <1>4 DEF Increment

LEMMA IncrementLate == ASSUME IInv, IInv', Late, NEW t \in Threads, Increment(t) PROVE Late'
<1>1. /\ at[t] = "increment"
      /\ Taking({}, t, IF Enough(t) THEN "lock" ELSE "record", Nothing, Nothing)
  BY DEF Increment, Goto
<1>2. /\ at'[t] = (IF Enough(t) THEN "lock" ELSE "record")
      /\ \A u \in Threads \ {t} : at'[u] = at[u] /\ row'[u] = row[u]
  BY <1>1, Mover
<1>3. /\ account'.failed \in Nat /\ faults' \in Nat /\ account'.live \in BOOLEAN
  BY AttemptsAssumption, FaultsAssumption DEF IInv, TypeOK, Account
<1>4. CASE Enough(t)
  <2>1. Counting' = Counting /\ Locking' = Locking
    BY <1>1, <1>2, <1>4 DEF Counting, Locking, Enough
  <2>2. QED BY <1>3, <2>1, Incremented, LateStays, Numbers
<1>5. CASE ~Enough(t)
  <2>1. Counting' = Counting \ {t} /\ Locking' = Locking /\ t \in Counting
    BY <1>1, <1>2, <1>5 DEF Counting, Locking, Enough
  <2>2. Cardinality(Counting') = Cardinality(Counting) - 1
    BY <2>1, Leaves, WaitersCount
  <2>3. ASSUME account'.live, account'.failed <= MaxAttempts - 2
        PROVE  misses' <= account'.failed + Cardinality(Counting') + Cardinality(Locking) + faults'
    <3>1. misses <= account.failed + Cardinality(Counting) + Cardinality(Locking) + faults
      <4>1. account.live /\ account'.failed >= account.failed
        BY <2>3, Incremented
      <4>2. account.failed <= MaxAttempts - 2
        BY <1>3, <2>3, <4>1, Numbers
      <4>3. QED BY <4>1, <4>2 DEF Late
    <3>2. account'.failed + faults' = account.failed + faults + 1
      <4>1. account.live
        BY <2>3, Incremented
      <4>2. CASE faults' = faults
        <5>1. account'.failed = account.failed + 1
          BY <2>3, <4>1, <4>2, Incremented
        <5>2. QED BY <4>2, <5>1, Numbers
      <4>3. CASE faults' # faults
        <5>1. account'.failed = account.failed /\ faults' = faults + 1
          BY <4>1, <4>3, Incremented
        <5>2. QED BY <5>1, Numbers
      <4>4. QED BY <4>2, <4>3
    <3>3. QED BY <1>3, <2>2, <3>1, <3>2, Incremented, Numbers, WaitersCount
  <2>4. misses' <= MaxAttempts - 2 + Cardinality(Threads) + Cardinality(Locking) + faults'
    BY <1>3, Incremented, Numbers, WaitersCount DEF Late
  <2>5. QED BY <2>1, <2>3, <2>4 DEF Late
<1>6. QED BY <1>4, <1>5

LEMMA LockUserLate == ASSUME IInv, IInv', Late, NEW t \in Threads, LockUser(t) PROVE Late'
<1>1. at[t] = "lock" /\ \E X : Taking(X, t, "record", Nothing, Nothing)
  BY DEF LockUser, Goto
<1>2. at'[t] = "record" /\ \A u \in Threads \ {t} : at'[u] = at[u] /\ row'[u] = row[u]
  BY <1>1, Mover
<1>3. Counting' = Counting /\ Locking' = Locking \ {t} /\ t \in Locking
  BY <1>1, <1>2 DEF Counting, Locking, Enough
<1>4. Cardinality(Locking') = Cardinality(Locking) - 1
  BY <1>3, Leaves, WaitersCount
<1>5. account'.failed \in Nat /\ faults' \in Nat
  BY AttemptsAssumption, FaultsAssumption DEF IInv, TypeOK, Account
<1>6. CASE misses' = 0
  <2>1. Cardinality(Counting') \in Nat /\ Cardinality(Locking') \in Nat
    BY WaitersNext
  <2>2. /\ misses' <= account'.failed + Cardinality(Counting') + Cardinality(Locking') + faults'
        /\ misses' <= MaxAttempts - 2 + Cardinality(Threads) + Cardinality(Locking') + faults'
    <3>1. MaxAttempts >= 1 /\ MaxAttempts \in Int
      BY AttemptsAssumption
    <3>2. Cardinality(Threads) >= 1 /\ Cardinality(Threads) \in Int
      BY WaitersCount
    <3>3. QED BY <1>5, <1>6, <2>1, <3>1, <3>2
  <2>3. QED BY <2>2 DEF Late
<1>7. CASE Fault /\ UNCHANGED <<account, misses>>
  BY <1>3, <1>4, <1>7, Numbers, WaitersCount DEF Late, Fault
<1>8. QED BY <1>6, <1>7 DEF LockUser

LEMMA SaveLate ==
    ASSUME IInv, IInv', Late, NEW t \in Threads, SaveAccount(t) \/ Reset(t) PROVE Late'
<1>1. /\ at[t] \in {"save", "reset"} /\ faults' >= faults
      /\ \E X, pc : pc \in {"idle", "create"} /\ Taking(X, t, pc, Nothing, Nothing)
  <2>1. at[t] \in {"save", "reset"} /\ (faults' = faults \/ faults' = faults + 1)
    BY DEF SaveAccount, Reset, Fault
  <2>2. \E X, pc : pc \in {"idle", "create"} /\ Taking(X, t, pc, Nothing, Nothing)
    BY DEF SaveAccount, Reset, Return, Goto
  <2>3. QED BY <2>1, <2>2, Numbers
<1>2. /\ at'[t] \notin {"increment", "lock"}
      /\ \A u \in Threads \ {t} : at'[u] = at[u] /\ row'[u] = row[u]
  BY <1>1, Mover
<1>3. \/ misses' = 0
      \/ /\ misses' = misses
         /\ account'.live => account.live /\ account.failed <= account'.failed
  <2>1. CASE UNCHANGED <<account, misses>>
    BY <2>1, Numbers
  <2>2. CASE Reset(t) /\ ~UNCHANGED <<account, misses>>
    BY <2>2 DEF Reset
  <2>3. CASE SaveAccount(t) /\ ~UNCHANGED <<account, misses>>
    <3>1. /\ account' = [row[t] EXCEPT !.role = @ \/ account.role]
          /\ misses' = IF ~account.live \/ row[t].failed < account.failed THEN 0 ELSE misses
          /\ at[t] = "save"
      BY <2>3 DEF SaveAccount
    <3>2. row[t] \in Account
      BY <3>1 DEF IInv, Remembers
    <3>3. account'.failed = row[t].failed /\ row[t].failed \in Nat
      BY <3>1, <3>2, AttemptsAssumption DEF Account
    <3>4. QED BY <3>1, <3>3, Numbers
  <2>4. QED BY <2>1, <2>2, <2>3
<1>4. QED BY <1>1, <1>2, <1>3, LateElsewhere

\* The other statements neither miss nor write the count.
LEMMA OthersLate ==
    ASSUME IInv, IInv', Late, NEW t \in Threads,
           \/ \E a \in Addresses : Login(t, a)
           \/ FindRefused(t) \/ FindFailed(t) \/ Match(t) \/ Record(t) \/ Create(t)
           \/ \E s \in Sessions, pc \in {"user", "end"} : FindSession(t, s, pc)
           \/ FindOwner(t) \/ Renew(t) \/ EndSession(t) \/ LoadAccount(t)
    PROVE  Late'
<1>1. account' = account /\ misses' = misses
  BY DEF Login, FindRefused, FindFailed, Match, Record, Create, FindSession, FindOwner,
         Renew, EndSession, LoadAccount, rows, tries
<1>2. faults' >= faults
  <2>1. faults' = faults \/ faults' = faults + 1
    BY DEF Login, FindRefused, FindFailed, Match, Record, Create, FindSession, FindOwner,
           Renew, EndSession, LoadAccount, Fault
  <2>2. QED BY <2>1, Numbers
<1>3. at[t] \notin {"increment", "lock"}
  BY DEF Login, FindRefused, FindFailed, Match, Found, Record, Create, FindSession,
         FindOwner, Renew, EndSession, LoadAccount
<1>4. /\ at'[t] \notin {"increment", "lock"}
      /\ \A u \in Threads \ {t} : at'[u] = at[u] /\ row'[u] = row[u]
  <2>1. CASE \E a \in Addresses : Login(t, a)
    BY <2>1, RowsTyped DEF Login, RequestsTyped
  <2>2. CASE \E s \in Sessions, pc \in {"user", "end"} : FindSession(t, s, pc)
    <3>1. PICK s \in Sessions, pc \in {"user", "end"} : Taking({}, t, pc, Nothing, s)
      BY <2>2 DEF FindSession, Goto
    <3>2. QED BY <3>1, Mover
  <2>3. CASE FindRefused(t) \/ FindFailed(t) \/ Match(t) \/ Record(t) \/ Create(t)
             \/ FindOwner(t) \/ Renew(t) \/ EndSession(t) \/ LoadAccount(t)
    <3>1. PICK X, pc, r, s :
              /\ pc \in {"record", "reset", "idle", "renew", "save"}
              /\ Taking(X, t, pc, r, s)
      BY <2>3 DEF FindRefused, FindFailed, Match, Record, Create, FindOwner, Renew,
                  EndSession, LoadAccount, Return, Goto
    <3>2. QED BY <3>1, Mover
  <2>4. QED BY <2>1, <2>2, <2>3
<1>5. QED BY <1>1, <1>2, <1>3, <1>4, LateElsewhere, Numbers

\* Administrators and the clock leave the count alone.
LEMMA AdministerLate ==
    ASSUME IInv, IInv', Late, Administer \/ Tick PROVE Late'
<1>1. at' = at /\ misses' = misses /\ faults' = faults
  BY DEF Administer, Tick, requests, tries
<1>2. account'.failed = account.failed /\ (account'.live => account.live)
  <2>1. account \in Account
    BY RowsTyped
  <2>2. CASE Tick
    BY <2>1, <2>2 DEF Tick, Expiring, Account
  <2>3. CASE Administer
    <3>1. \/ account' = [account EXCEPT !.live = FALSE]
          \/ account' = [account EXCEPT !.role = FALSE]
          \/ account' = [account EXCEPT !.role = TRUE]
      BY <2>3 DEF Administer
    <3>2. QED BY <2>1, <3>1 DEF Account
  <2>4. QED BY <2>2, <2>3
<1>3. \A u \in Threads : at[u] = "increment" => row'[u].failed = row[u].failed
  <2>1. CASE Administer
    BY <2>1 DEF Administer, requests
  <2>2. CASE Tick
    <3>1. ASSUME NEW u \in Threads, at[u] = "increment" PROVE row'[u].failed = row[u].failed
      <4>1. row[u] \in Account
        BY <3>1 DEF IInv, Remembers
      <4>2. row'[u] = Expiring(row[u])
        BY <2>2, <4>1 DEF Tick
      <4>3. QED BY <4>1, <4>2 DEF Expiring, Account
    <3>2. QED BY <3>1
  <2>3. QED BY <2>1, <2>2
<1>4. Counting' = Counting /\ Locking' = Locking
  BY <1>1, <1>3 DEF Counting, Locking, Enough
<1>5. QED BY <1>1, <1>2, <1>4, LateStays, Numbers

LEMMA InitLate == ASSUME Init PROVE Late
<1>1. /\ MaxAttempts \in Nat \ {0} /\ misses = 0 /\ faults = 0 /\ account.failed = 0
  BY AttemptsAssumption DEF Init
<1>2. QED BY <1>1, WaitersCount DEF Late

LEMMA NextLate == IInv /\ IInv' /\ Late /\ [Next]_vars => Late'
<1> SUFFICES ASSUME IInv, IInv', Late, [Next]_vars PROVE Late'
  OBVIOUS
<1>1. ASSUME NEW t \in Threads, Step(t) PROVE Late'
  BY <1>1, MissLate, IncrementLate, LockUserLate, SaveLate, OthersLate DEF Step
<1>2. CASE UNCHANGED vars
  BY <1>2 DEF vars, rows, requests, tries, Late, Counting, Locking, Enough
<1>3. QED BY <1>1, <1>2, AdministerLate DEF Next

\* A failure count short of a lock is explained by requests still on their way.
THEOREM LateKept == Spec => []Late
BY Invariance, InitLate, NextLate, PTL DEF Spec

\* However many clients guess at one account, and whatever else changes its row, the
\* lock is late by at most two rounds of requests and the statements that failed.
THEOREM LockKept == Spec => []LockComes
<1>1. IInv /\ Late => LockComes
  BY Numbers, WaitersCount DEF Late, LockComes
<1>2. QED BY <1>1, Invariance, LateKept, PTL

-----------------------------------------------------------------------------
(* The limit of wrong passwords per client.                                *)

\* The logins of an address that have passed the limit and not tried a password, ...
Finding(a) == {t \in Threads : from[t] = a /\ at[t] = "find"}

\* ... and those whose failure is not recorded yet.
Recording(a) == {t \in Threads : from[t] = a /\ at[t] \in {"increment", "lock", "record"}}

\* The inductive invariant: of the tries of every age there is a row, a request that
\* is about to write it, or a fault that lost it; and the logins past the limit are
\* tries to be.
Limited ==
    \A a \in Addresses :
        /\ \A i \in 0..Window - 1 :
               /\ guesses[a][i] <= failures[a][i] + Cardinality(Recording(a)) + faults
               /\ \A j \in i..Window - 1 : guesses[a][i] <= guesses[a][j]
        /\ guesses[a][Window - 1] + Cardinality(Finding(a))
               <= MaxAttempts - 1 + Cardinality(Threads) + faults

LEMMA LoginsCount ==
    ASSUME NEW a \in Addresses
    PROVE  /\ IsFiniteSet(Finding(a)) /\ IsFiniteSet(Recording(a))
           /\ Cardinality(Finding(a)) \in Nat /\ Cardinality(Recording(a)) \in Nat
           /\ Cardinality(Threads) \in Nat \ {0}
           /\ Cardinality(Finding(a)) + Cardinality(Recording(a)) <= Cardinality(Threads)
<1>1. /\ Finding(a) \in SUBSET Threads /\ Recording(a) \in SUBSET Threads
      /\ Finding(a) \cap Recording(a) = {}
  BY DEF Finding, Recording
<1>2. QED BY <1>1, Apart

\* The same of the next state.
LEMMA LoginsNext ==
    ASSUME NEW a \in Addresses
    PROVE  /\ IsFiniteSet(Finding(a)') /\ IsFiniteSet(Recording(a)')
           /\ Cardinality(Finding(a)') \in Nat /\ Cardinality(Recording(a)') \in Nat
           /\ Cardinality(Finding(a)') + Cardinality(Recording(a)') <= Cardinality(Threads)
<1>1. /\ Finding(a)' \in SUBSET Threads /\ Recording(a)' \in SUBSET Threads
      /\ Finding(a)' \cap Recording(a)' = {}
  BY DEF Finding, Recording
<1>2. QED BY <1>1, Apart

LEMMA Counts ==
    ASSUME IInv
    PROVE  /\ MaxAttempts \in Nat \ {0} /\ faults \in Nat /\ Window - 1 \in 0..Window - 1
           /\ \A a \in Addresses : \A i \in 0..Window - 1 :
                  guesses[a][i] \in Nat /\ failures[a][i] \in Nat
<1>1. /\ MaxAttempts \in Nat \ {0} /\ faults \in Nat /\ Window - 1 \in 0..Window - 1
  BY RowsTyped, AttemptsAssumption, FaultsAssumption
<1>2. ASSUME NEW a \in Addresses PROVE guesses[a] \in ByAge /\ failures[a] \in ByAge
  BY RowsTyped
<1>3. QED BY <1>1, <1>2 DEF ByAge

\* No try and no row: a login goes on to record, or ends, or was never one.
LEMMA LimitedStays ==
    ASSUME IInv, Limited, failures' = failures, guesses' = guesses,
           faults' \in Nat, faults' >= faults,
           \A a \in Addresses : Finding(a)' \subseteq Finding(a) /\ Recording(a) \subseteq Recording(a)'
    PROVE  Limited'
<1>1. ASSUME NEW a \in Addresses
      PROVE  /\ Cardinality(Finding(a)') <= Cardinality(Finding(a))
             /\ Cardinality(Recording(a)) <= Cardinality(Recording(a)')
             /\ Cardinality(Finding(a)') \in Nat /\ Cardinality(Recording(a)') \in Nat
  BY FS_Subset, LoginsCount, LoginsNext
<1>2. QED BY <1>1, Counts, LoginsCount DEF Limited

\* Only t moves, and it keeps its address.
LEMMA SameLogins ==
    ASSUME NEW t \in Threads, NEW a \in Addresses, from' = from,
           \A u \in Threads \ {t} : at'[u] = at[u]
    PROVE  /\ at'[t] # "find" => Finding(a)' \subseteq Finding(a)
           /\ at[t] \notin {"increment", "lock", "record"}
                  \/ at'[t] \in {"increment", "lock", "record"} =>
                  Recording(a) \subseteq Recording(a)'
           /\ from[t] # a => Finding(a)' = Finding(a) /\ Recording(a)' = Recording(a)
BY DEF Finding, Recording

\* A statement of t that neither tries a password nor records a failure.
LEMMA LimitedElsewhere ==
    ASSUME IInv, Limited, NEW t \in Threads,
           NEW X, NEW pc, NEW r, NEW s, Taking(X, t, pc, r, s), pc # "find",
           at[t] \notin {"increment", "lock", "record"} \/ pc \in {"increment", "lock", "record"},
           failures' = failures, guesses' = guesses, faults' = faults \/ Fault
    PROVE  Limited'
<1>1. /\ at'[t] = pc /\ from' = from /\ \A u \in Threads \ {t} : at'[u] = at[u]
  BY Mover
<1>2. faults' \in Nat /\ faults' >= faults
  BY Counts DEF Fault
<1>3. QED BY <1>1, <1>2, SameLogins, LimitedStays

LEMMA LoginLimited ==
    ASSUME IInv, Limited, NEW t \in Threads, NEW b \in Addresses, Login(t, b) PROVE Limited'
<1>1. /\ at[t] = "idle" /\ at'[t] = "find" /\ from'[t] = b
      /\ \A u \in Threads \ {t} : at'[u] = at[u] /\ from'[u] = from[u]
      /\ failures' = failures /\ guesses' = guesses /\ faults' = faults
      /\ ~(failures[b][Window - 1] >= MaxAttempts)
  BY RowsTyped DEF Login, RequestsTyped, rows, tries, IsRateLimited
<1>2. \A a \in Addresses : Recording(a)' = Recording(a)
  BY <1>1 DEF Recording
<1>3. \A a \in Addresses \ {b} : Finding(a)' = Finding(a)
  BY <1>1 DEF Finding
<1>4. Finding(b)' = Finding(b) \cup {t} /\ t \notin Finding(b)
  BY <1>1 DEF Finding
<1>5. guesses[b][Window - 1] + Cardinality(Finding(b)')
          <= MaxAttempts - 1 + Cardinality(Threads) + faults
  <2>1. guesses[b][Window - 1] <= failures[b][Window - 1] + Cardinality(Recording(b)) + faults
    BY Counts DEF Limited
  <2>2. Cardinality(Finding(b)') + Cardinality(Recording(b)) <= Cardinality(Threads)
    BY <1>2, LoginsNext
  <2>3. failures[b][Window - 1] <= MaxAttempts - 1
    BY <1>1, Counts
  <2>4. QED BY <2>1, <2>2, <2>3, Counts, LoginsCount, LoginsNext
<1>6. QED BY <1>1, <1>2, <1>3, <1>5 DEF Limited

LEMMA MissLimited == ASSUME IInv, Limited, NEW t \in Threads, Miss(t) PROVE Limited'
<1>0. PICK b \in Addresses : b = from[t]
  BY RowsTyped DEF RequestsTyped
<1>1. /\ at[t] = "find" /\ failures' = failures /\ faults' = faults
      /\ guesses' = [guesses EXCEPT ![b] = OneMore(guesses[b])]
      /\ Taking({}, t, "increment", account, Nothing)
  BY <1>0 DEF Miss, Found, Goto, rows
<1>2. at'[t] = "increment" /\ from' = from /\ \A u \in Threads \ {t} : at'[u] = at[u]
  BY <1>1, Mover
<1>4. /\ \A i \in 0..Window - 1 : guesses'[b][i] = guesses[b][i] + 1
      /\ \A a \in Addresses \ {b} : guesses'[a] = guesses[a]
  BY <1>1, RowsTyped DEF OneMore
<1>5. /\ Finding(b)' = Finding(b) \ {t} /\ t \in Finding(b)
      /\ Recording(b)' = Recording(b) \cup {t} /\ t \notin Recording(b)
  BY <1>0, <1>1, <1>2 DEF Finding, Recording
<1>6. /\ Cardinality(Finding(b)') = Cardinality(Finding(b)) - 1
      /\ Cardinality(Recording(b)') = Cardinality(Recording(b)) + 1
  BY <1>5, Leaves, Enters, LoginsCount
<1>7. \A a \in Addresses \ {b} : Finding(a)' = Finding(a) /\ Recording(a)' = Recording(a)
  BY <1>0, <1>2, SameLogins
<1>8. ASSUME NEW i \in 0..Window - 1
      PROVE  /\ guesses'[b][i] <= failures'[b][i] + Cardinality(Recording(b)') + faults'
             /\ \A j \in i..Window - 1 : guesses'[b][i] <= guesses'[b][j]
  <2>1. guesses[b][i] <= failures[b][i] + Cardinality(Recording(b)) + faults
    BY DEF Limited
  <2>2. guesses'[b][i] <= failures'[b][i] + Cardinality(Recording(b)') + faults'
    BY <1>1, <1>4, <1>6, <2>1, Counts, LoginsCount
  <2>3. ASSUME NEW j \in i..Window - 1 PROVE guesses'[b][i] <= guesses'[b][j]
    <3>1. j \in 0..Window - 1 /\ guesses[b][i] <= guesses[b][j]
      BY AttemptsAssumption DEF Limited
    <3>2. QED BY <1>4, <3>1, Counts
  <2>4. QED BY <2>2, <2>3
<1>9. guesses'[b][Window - 1] + Cardinality(Finding(b)')
          <= MaxAttempts - 1 + Cardinality(Threads) + faults'
  <2>1. guesses[b][Window - 1] + Cardinality(Finding(b))
            <= MaxAttempts - 1 + Cardinality(Threads) + faults
    BY DEF Limited
  <2>2. QED BY <1>1, <1>4, <1>6, <2>1, Counts, LoginsCount
<1>10. ASSUME NEW a \in Addresses \ {b}
       PROVE  /\ \A i \in 0..Window - 1 :
                     /\ guesses'[a][i] <= failures'[a][i] + Cardinality(Recording(a)') + faults'
                     /\ \A j \in i..Window - 1 : guesses'[a][i] <= guesses'[a][j]
              /\ guesses'[a][Window - 1] + Cardinality(Finding(a)')
                     <= MaxAttempts - 1 + Cardinality(Threads) + faults'
  <2>1. /\ guesses'[a] = guesses[a] /\ failures' = failures /\ faults' = faults
        /\ Finding(a)' = Finding(a) /\ Recording(a)' = Recording(a)
    BY <1>1, <1>4, <1>7
  <2>2. QED BY <2>1 DEF Limited
<1>11. QED BY <1>8, <1>9, <1>10 DEF Limited

LEMMA RecordLimited == ASSUME IInv, Limited, NEW t \in Threads, Record(t) PROVE Limited'
<1>0. PICK b \in Addresses : b = from[t]
  BY RowsTyped DEF RequestsTyped
<1>1. /\ at[t] = "record" /\ guesses' = guesses
      /\ Taking({}, t, "idle", Nothing, Nothing)
  BY DEF Record, Return, Goto, tries
<1>2. at'[t] = "idle" /\ from' = from /\ \A u \in Threads \ {t} : at'[u] = at[u]
  BY <1>1, Mover
<1>4. /\ \A a \in Addresses \ {b} : failures'[a] = failures[a]
      /\ \A i \in 0..Window - 1 : failures'[b][i] + faults' = failures[b][i] + faults + 1
      /\ \A i \in 0..Window - 1 : failures'[b][i] \in Nat
      /\ faults' \in Nat /\ faults' >= faults
  <2>1. CASE failures' = [failures EXCEPT ![b] = OneMore(failures[b])] /\ UNCHANGED faults
    <3>1. /\ \A a \in Addresses \ {b} : failures'[a] = failures[a]
          /\ \A i \in 0..Window - 1 : failures'[b][i] = failures[b][i] + 1
      BY <2>1, RowsTyped DEF OneMore
    <3>2. QED BY <2>1, <3>1, Counts
  <2>2. CASE Fault /\ UNCHANGED failures
    BY <2>2, Counts DEF Fault
  <2>3. QED BY <1>0, <2>1, <2>2 DEF Record
<1>5. /\ Recording(b)' = Recording(b) \ {t} /\ t \in Recording(b)
      /\ Finding(b)' = Finding(b)
  BY <1>0, <1>1, <1>2 DEF Finding, Recording
<1>6. Cardinality(Recording(b)') = Cardinality(Recording(b)) - 1
  BY <1>5, Leaves, LoginsCount
<1>7. \A a \in Addresses \ {b} : Finding(a)' = Finding(a) /\ Recording(a)' = Recording(a)
  BY <1>0, <1>2, SameLogins
<1>8. ASSUME NEW i \in 0..Window - 1
      PROVE  guesses'[b][i] <= failures'[b][i] + Cardinality(Recording(b)') + faults'
  <2>1. guesses[b][i] <= failures[b][i] + Cardinality(Recording(b)) + faults
    BY DEF Limited
  <2>2. QED BY <1>1, <1>4, <1>6, <2>1, Counts, LoginsCount
<1>9. ASSUME NEW a \in Addresses \ {b}, NEW i \in 0..Window - 1
      PROVE  guesses'[a][i] <= failures'[a][i] + Cardinality(Recording(a)') + faults'
  <2>1. guesses[a][i] <= failures[a][i] + Cardinality(Recording(a)) + faults
    BY DEF Limited
  <2>2. QED BY <1>1, <1>4, <1>7, <2>1, Counts, LoginsCount
<1>10. ASSUME NEW a \in Addresses
       PROVE  guesses'[a][Window - 1] + Cardinality(Finding(a)')
                  <= MaxAttempts - 1 + Cardinality(Threads) + faults'
  <2>1. guesses[a][Window - 1] + Cardinality(Finding(a))
            <= MaxAttempts - 1 + Cardinality(Threads) + faults
    BY DEF Limited
  <2>2. Finding(a)' = Finding(a)
    <3>1. CASE a = b
      BY <1>5, <3>1
    <3>2. CASE a # b
      BY <1>7, <3>2
    <3>3. QED BY <3>1, <3>2
  <2>3. QED BY <1>1, <1>4, <2>1, <2>2, Counts, LoginsCount
<1>11. ASSUME NEW a \in Addresses, NEW i \in 0..Window - 1
       PROVE  \A j \in i..Window - 1 : guesses'[a][i] <= guesses'[a][j]
  BY <1>1 DEF Limited
<1>12. QED BY <1>8, <1>9, <1>10, <1>11 DEF Limited

LEMMA TickLimited == ASSUME IInv, Limited, Tick PROVE Limited'
<1>1. /\ at' = at /\ from' = from /\ faults' = faults
      /\ \A a \in Addresses, i \in 0..Window - 1 :
             /\ guesses'[a][i] = IF i = 0 THEN 0 ELSE guesses[a][i - 1]
             /\ failures'[a][i] = IF i = 0 THEN 0 ELSE failures[a][i - 1]
  BY DEF Tick, Older
<1>2. \A a \in Addresses : Finding(a)' = Finding(a) /\ Recording(a)' = Recording(a)
  BY <1>1 DEF Finding, Recording
<1>3. ASSUME NEW a \in Addresses, NEW i \in 0..Window - 1
      PROVE  /\ guesses'[a][i] <= failures'[a][i] + Cardinality(Recording(a)') + faults'
             /\ \A j \in i..Window - 1 : guesses'[a][i] <= guesses'[a][j]
  <2>1. ASSUME NEW j \in i..Window - 1
        PROVE  j \in 0..Window - 1 /\ (i # 0 => /\ i - 1 \in 0..Window - 1
                                                /\ j - 1 \in i - 1..Window - 1 /\ j # 0)
    BY AttemptsAssumption
  <2>2. CASE i = 0
    <3>1. guesses'[a][i] = 0 /\ failures'[a][i] = 0
      BY <1>1, <2>2
    <3>2. ASSUME NEW j \in i..Window - 1 PROVE guesses'[a][j] \in Nat
      <4>1. CASE j = 0
        BY <1>1, <2>1, <4>1
      <4>2. CASE j # 0
        <5>1. j - 1 \in 0..Window - 1 /\ j \in 0..Window - 1
          BY <2>1, <4>2, AttemptsAssumption
        <5>2. QED BY <1>1, <4>2, <5>1, Counts
      <4>3. QED BY <4>1, <4>2
    <3>3. QED BY <1>1, <1>2, <3>1, <3>2, Counts, LoginsCount
  <2>3. CASE i # 0
    <3>1. /\ i - 1 \in 0..Window - 1 /\ guesses'[a][i] = guesses[a][i - 1]
          /\ failures'[a][i] = failures[a][i - 1]
      BY <1>1, <2>3, AttemptsAssumption
    <3>2. guesses'[a][i] <= failures'[a][i] + Cardinality(Recording(a)') + faults'
      BY <1>1, <1>2, <3>1 DEF Limited
    <3>3. ASSUME NEW j \in i..Window - 1 PROVE guesses'[a][i] <= guesses'[a][j]
      <4>1. j - 1 \in i - 1..Window - 1 /\ guesses'[a][j] = guesses[a][j - 1]
        BY <1>1, <2>1, <2>3
      <4>2. QED BY <3>1, <4>1 DEF Limited
    <3>4. QED BY <3>2, <3>3
  <2>4. QED BY <2>2, <2>3
<1>4. ASSUME NEW a \in Addresses
      PROVE  guesses'[a][Window - 1] + Cardinality(Finding(a)')
                 <= MaxAttempts - 1 + Cardinality(Threads) + faults'
  <2>1. /\ guesses[a][Window - 1] + Cardinality(Finding(a))
               <= MaxAttempts - 1 + Cardinality(Threads) + faults
        /\ \A i \in 0..Window - 1 : \A j \in i..Window - 1 : guesses[a][i] <= guesses[a][j]
    BY DEF Limited
  <2>2. guesses'[a][Window - 1] \in Nat /\ guesses'[a][Window - 1] <= guesses[a][Window - 1]
    <3>1. CASE Window - 1 = 0
      BY <1>1, <3>1, Counts
    <3>2. CASE Window - 1 # 0
      <4>1. /\ Window - 2 \in 0..Window - 1 /\ Window - 1 \in Window - 2..Window - 1
            /\ Window - 1 - 1 = Window - 2 /\ Window - 1 \in 0..Window - 1
        BY <3>2, AttemptsAssumption
      <4>2. guesses'[a][Window - 1] = guesses[a][Window - 2]
        BY <1>1, <3>2, <4>1
      <4>3. QED BY <2>1, <4>1, <4>2, Counts
    <3>3. QED BY <3>1, <3>2
  <2>3. QED BY <1>1, <1>2, <2>1, <2>2, Counts, LoginsCount
<1>5. QED BY <1>3, <1>4 DEF Limited

\* The statements of a login that has tried, and those of no login.
LEMMA OthersLimited ==
    ASSUME IInv, Limited, NEW t \in Threads,
           \/ FindRefused(t) \/ FindFailed(t) \/ Match(t) \/ Increment(t) \/ LockUser(t)
           \/ Reset(t) \/ Create(t)
           \/ \E s \in Sessions, pc \in {"user", "end"} : FindSession(t, s, pc)
           \/ FindOwner(t) \/ Renew(t) \/ EndSession(t) \/ LoadAccount(t) \/ SaveAccount(t)
    PROVE  Limited'
<1>1. failures' = failures /\ guesses' = guesses
  BY DEF FindRefused, FindFailed, Match, Increment, LockUser, Reset, Create, FindSession,
         FindOwner, Renew, EndSession, LoadAccount, SaveAccount, rows, tries
<1>2. faults' = faults \/ Fault
  BY DEF FindRefused, FindFailed, Match, Increment, LockUser, Reset, Create, FindSession,
         FindOwner, Renew, EndSession, LoadAccount, SaveAccount
<1>3. CASE FindRefused(t) \/ FindFailed(t) \/ Increment(t) \/ LockUser(t)
  <2>1. PICK X, pc : pc \in {"lock", "record"} /\ Taking(X, t, pc, Nothing, Nothing)
    BY <1>3 DEF FindRefused, FindFailed, Increment, LockUser, Goto
  <2>2. QED BY <1>1, <1>2, <2>1, LimitedElsewhere
<1>4. CASE \E s \in Sessions, pc \in {"user", "end"} : FindSession(t, s, pc)
  <2>1. PICK s \in Sessions, pc \in {"user", "end"} :
            at[t] = "idle" /\ Taking({}, t, pc, Nothing, s)
    BY <1>4 DEF FindSession, Goto
  <2>2. QED BY <1>1, <1>2, <2>1, LimitedElsewhere
<1>5. CASE Match(t) \/ Reset(t) \/ Create(t) \/ FindOwner(t) \/ Renew(t) \/ EndSession(t)
           \/ LoadAccount(t) \/ SaveAccount(t)
  <2>1. PICK X, pc, r, s :
            pc \in {"reset", "create", "idle", "renew", "save"} /\ Taking(X, t, pc, r, s)
    BY <1>5 DEF Match, Reset, Create, FindOwner, Renew, EndSession, LoadAccount, SaveAccount,
                Return, Goto
  <2>2. at[t] \notin {"increment", "lock", "record"}
    BY <1>5 DEF Match, Found, Reset, Create, FindOwner, Renew, EndSession, LoadAccount, SaveAccount
  <2>3. QED BY <1>1, <1>2, <2>1, <2>2, LimitedElsewhere
<1>6. QED BY <1>3, <1>4, <1>5

LEMMA InitLimited == ASSUME Init PROVE Limited
<1>1. /\ MaxAttempts \in Nat \ {0} /\ faults = 0 /\ guesses = failures
      /\ \A a \in Addresses, i \in 0..Window - 1 : failures[a][i] = 0
  BY AttemptsAssumption DEF Init
<1>2. \A t \in Threads : at[t] = "idle"
  BY DEF Init
<1>3. ASSUME NEW a \in Addresses PROVE Cardinality(Finding(a)) = 0
  <2>1. Finding(a) = {}
    BY <1>2 DEF Finding
  <2>2. QED BY <2>1, FS_EmptySet
<1>4. Window - 1 \in 0..Window - 1
  BY AttemptsAssumption
<1>5. ASSUME NEW a \in Addresses, NEW i \in 0..Window - 1
      PROVE  /\ guesses[a][i] <= failures[a][i] + Cardinality(Recording(a)) + faults
             /\ \A j \in i..Window - 1 : guesses[a][i] <= guesses[a][j]
  <2>1. \A j \in i..Window - 1 : j \in 0..Window - 1
    BY AttemptsAssumption
  <2>2. QED BY <1>1, <2>1, LoginsCount
<1>6. ASSUME NEW a \in Addresses
      PROVE  guesses[a][Window - 1] + Cardinality(Finding(a))
                 <= MaxAttempts - 1 + Cardinality(Threads) + faults
  BY <1>1, <1>3, <1>4, LoginsCount
<1>7. QED BY <1>5, <1>6 DEF Limited

LEMMA NextLimited == IInv /\ Limited /\ [Next]_vars => Limited'
<1> SUFFICES ASSUME IInv, Limited, [Next]_vars PROVE Limited'
  OBVIOUS
<1>1. ASSUME NEW t \in Threads, Step(t) PROVE Limited'
  BY <1>1, LoginLimited, MissLimited, RecordLimited, OthersLimited DEF Step
<1>2. CASE Administer
  <2>1. /\ at' = at /\ from' = from /\ failures' = failures /\ guesses' = guesses
        /\ faults' = faults
    BY <1>2 DEF Administer, requests, tries
  <2>2. QED BY <2>1, Counts, LimitedStays DEF Finding, Recording
<1>3. CASE UNCHANGED vars
  BY <1>3 DEF vars, rows, requests, tries, Limited, Finding, Recording
<1>4. QED BY <1>1, <1>2, <1>3, TickLimited DEF Next

\* The requests past the check of the limit are all that a client can still add to it.
THEOREM LimitedKept == Spec => []Limited
BY Invariance, InitLimited, NextLimited, PTL DEF Spec

\* For any number of requests, clients and ticks of the window: a client tries at most
\* the wrong passwords it is allowed, one more for every request under way and one for
\* every row that could not be written.
THEOREM GuessesKept == Spec => []GuessesBounded
<1>1. IInv /\ Limited => GuessesBounded
  <2>1. ASSUME IInv, Limited, NEW a \in Addresses
        PROVE  guesses[a][Window - 1] <= MaxAttempts - 1 + Cardinality(Threads) + faults
    <3>1. guesses[a][Window - 1] + Cardinality(Finding(a))
              <= MaxAttempts - 1 + Cardinality(Threads) + faults
      BY <2>1 DEF Limited
    <3>2. QED BY <2>1, <3>1, Counts, LoginsCount
  <2>2. QED BY <2>1 DEF GuessesBounded
<1>2. QED BY <1>1, Invariance, LimitedKept, PTL

-----------------------------------------------------------------------------
(* The middleware's request limits.                                        *)

\* What a client's entry says of the requests that were let through: none since it is
\* idle, no more than its count since its window began, and no more than a full
\* allowance before that; a window that is over has let nothing through just now.
InWindow(c) ==
    LET e == limit[c] IN
    /\ e.count <= Requests + e.burst
    /\ e.age = RateWindow => recent[c][1] = 0
    /\ \A i \in 1..RateWindow :
          /\ i <= e.idle => recent[c][i] = 0
          /\ i <= e.age + 1 => recent[c][i] <= e.count
          /\ recent[c][i] <= e.count + Requests + Burst

\* A blocked entry outlives its block: the clean-up only takes it when it has been idle
\* for longer.  With an allowance an entry is idle no longer than its window is old.
Blocks(c) ==
    LET e == limit[c] IN
    Requests + Burst > 0 =>
        /\ e.wait = promised[c]
        /\ e.age < RateWindow => e.idle <= e.age
        /\ e.wait > 0 => e.idle + e.wait <= 2 * RateWindow

Unlimited(c) ==
    /\ \A i \in 1..RateWindow : recent[c][i] = 0
    /\ Requests + Burst > 0 => promised[c] = 0

\* The inductive invariant of the limits.
Limits ==
    \A c \in Clients : IF limit[c] = NoEntry THEN Unlimited(c) ELSE InWindow(c) /\ Blocks(c)

LEMMA Limitations ==
    /\ Requests \in Nat /\ Burst \in Nat /\ MaxActive \in Nat
    /\ RateWindow \in Nat \ {0} /\ Timeout \in Nat \ {0}
    /\ RateWindow \in 1..RateWindow /\ 1 \in 1..RateWindow
<1>1. /\ Requests \in Nat /\ Burst \in Nat /\ MaxActive \in Nat
      /\ RateWindow \in Nat \ {0} /\ Timeout \in Nat \ {0}
  BY LimitsAssumption
<1>2. QED BY <1>1

LimitsTyped ==
    /\ limit \in [Clients -> Entry \cup {NoEntry}]
    /\ recent \in [Clients -> [1..RateWindow -> Nat]]
    /\ promised \in [Clients -> 0..RateWindow]

\* An invariant of every client follows from what a step does to one of them.
LEMMA OneClient ==
    ASSUME LimitsTyped, Limits, NEW c \in Clients, NEW e \in Entry,
           NEW r \in [1..RateWindow -> Nat], NEW p \in 0..RateWindow,
           limit' = [limit EXCEPT ![c] = e], recent' = [recent EXCEPT ![c] = r],
           promised' = [promised EXCEPT ![c] = p],
           InWindow(c)', Blocks(c)'
    PROVE  LimitsTyped' /\ Limits'
<1>1. LimitsTyped'
  BY DEF LimitsTyped
<1>2. \A d \in Clients : IF limit'[d] = NoEntry THEN Unlimited(d)' ELSE InWindow(d)' /\ Blocks(d)'
  <2> SUFFICES ASSUME NEW d \in Clients
               PROVE  IF limit'[d] = NoEntry THEN Unlimited(d)' ELSE InWindow(d)' /\ Blocks(d)'
    OBVIOUS
  <2>1. CASE d = c
    <3>1. limit'[d] # NoEntry
      BY <2>1, EntryAssumption DEF LimitsTyped
    <3>2. QED BY <2>1, <3>1
  <2>2. CASE d # c
    <3>1. limit'[d] = limit[d] /\ recent'[d] = recent[d] /\ promised'[d] = promised[d]
      BY <2>2 DEF LimitsTyped
    <3>2. Unlimited(d) => Unlimited(d)'
      BY <3>1 DEF Unlimited
    <3>3. InWindow(d) => InWindow(d)'
      BY <3>1 DEF InWindow
    <3>4. Blocks(d) => Blocks(d)'
      BY <3>1 DEF Blocks
    <3>5. QED BY <3>1, <3>2, <3>3, <3>4 DEF Limits
  <2>3. QED BY <2>1, <2>2
<1>3. QED BY <1>1, <1>2 DEF Limits

\* The entry a check works on, for whoever is not blocked.
LEMMA OpenedIs ==
    ASSUME LimitsTyped, Limits, NEW c \in Clients, ~Blocked(c)
    PROVE  /\ Opened(c) \in Entry
           /\ Opened(c).wait = 0 /\ Opened(c).age < RateWindow
           /\ Requests + Burst > 0 => promised[c] = 0
           /\ Opened(c).count <= Requests + Opened(c).burst
           /\ \A i \in 1..RateWindow :
                 /\ i <= Opened(c).idle => recent[c][i] = 0
                 /\ i <= Opened(c).age + 1 => recent[c][i] <= Opened(c).count
                 /\ recent[c][i] <= Opened(c).count + Requests + Burst
           /\ Opened(c).count > 0 \/ Opened(c).burst > 0 => Opened(c) = limit[c] /\ limit[c] # NoEntry
<1>1. Fresh \in Entry /\ Fresh.count = 0 /\ Fresh.burst = 0 /\ Fresh.idle = 0 /\ Fresh.age = 0
      /\ Fresh.wait = 0
  BY Limitations DEF Fresh, Entry
<1>2. CASE limit[c] = NoEntry
  <2>1. Opened(c) = Fresh
    BY <1>2 DEF Opened
  <2>2. /\ Requests + Burst > 0 => promised[c] = 0
        /\ \A i \in 1..RateWindow : recent[c][i] = 0
    BY <1>2 DEF Limits, Unlimited
  <2>3. QED BY <1>1, <2>1, <2>2, Limitations
<1>3. CASE limit[c] # NoEntry /\ limit[c].age >= RateWindow
  <2>1. /\ limit[c] \in Entry /\ InWindow(c) /\ Blocks(c) /\ limit[c].wait = 0
    BY <1>3, Limitations DEF LimitsTyped, Limits, Blocked, Entry
  <2>2. /\ limit[c].age = RateWindow
        /\ Requests + Burst > 0 => promised[c] = 0
        /\ limit[c].count \in 0..Requests + Burst /\ limit[c].idle \in 0..2 * RateWindow + 1
    BY <1>3, <2>1, Limitations DEF Entry, Blocks
  <2>3. Opened(c) = [Fresh EXCEPT !.idle = limit[c].idle]
    BY <1>3 DEF Opened
  <2>4. /\ Opened(c) \in Entry /\ Opened(c).idle = limit[c].idle
        /\ Opened(c).count = 0 /\ Opened(c).burst = 0 /\ Opened(c).age = 0 /\ Opened(c).wait = 0
    BY <2>2, <2>3, Limitations DEF Fresh, Entry
  <2>5. \A i \in 1..RateWindow :
           /\ i <= limit[c].idle => recent[c][i] = 0
           /\ recent[c][i] <= limit[c].count
           /\ recent[c][i] \in Nat
           /\ i <= 1 => recent[c][i] <= 0
    BY <2>1, <2>2, Limitations DEF InWindow, LimitsTyped
  <2>6. QED BY <2>2, <2>4, <2>5, Limitations
<1>4. CASE limit[c] # NoEntry /\ ~(limit[c].age >= RateWindow)
  <2>1. /\ limit[c] \in Entry /\ InWindow(c) /\ Blocks(c) /\ limit[c].wait = 0 /\ Opened(c) = limit[c]
    BY <1>4, Limitations DEF LimitsTyped, Limits, Blocked, Entry, Opened
  <2>2. limit[c].age < RateWindow /\ (Requests + Burst > 0 => promised[c] = 0)
    BY <1>4, <2>1, Limitations DEF Entry, Blocks
  <2>3. QED BY <1>4, <2>1, <2>2 DEF InWindow
<1>5. QED BY <1>2, <1>3, <1>4

LEMMA PassLimits ==
    ASSUME LimitsTyped, Limits, NEW c \in Clients, Pass(c)
    PROVE  LimitsTyped' /\ Limits'
<1> DEFINE o == Opened(c)
           e == [o EXCEPT !.count = @ + 1, !.idle = 0,
                          !.burst = IF o.count >= Requests THEN @ + 1 ELSE @]
           r == [i \in 1..RateWindow |-> recent[c][i] + 1]
<1>1. /\ o \in Entry /\ o.wait = 0 /\ o.age < RateWindow
      /\ Requests + Burst > 0 => promised[c] = 0
      /\ o.count <= Requests + o.burst
      /\ \A i \in 1..RateWindow :
            /\ i <= o.idle => recent[c][i] = 0
            /\ i <= o.age + 1 => recent[c][i] <= o.count
            /\ recent[c][i] <= o.count + Requests + Burst
  BY OpenedIs DEF Pass
<1>2. /\ ~Blocked(c) /\ (o.count < Requests \/ o.burst < Burst)
      /\ limit' = [limit EXCEPT ![c] = e] /\ recent' = [recent EXCEPT ![c] = r]
      /\ promised' = promised
  BY DEF Pass, LimitsTyped
<1>3. /\ o.count \in Nat /\ o.burst \in 0..Burst /\ o.idle \in Nat /\ o.age \in 0..RateWindow
  BY <1>1, Limitations DEF Entry
<1> HIDE DEF o
<1>4. /\ o.count + 1 \in 0..Requests + Burst /\ 0 \in 0..2 * RateWindow + 1
      /\ o.count >= Requests => o.burst + 1 \in 0..Burst
  <2>1. CASE o.count < Requests
    BY <1>3, <2>1, Limitations
  <2>2. CASE o.count >= Requests /\ o.burst < Burst
    BY <1>1, <1>3, <2>2, Limitations
  <2>3. QED BY <1>2, <1>3, <2>1, <2>2, Limitations
<1>5. /\ e \in Entry /\ e.count = o.count + 1 /\ e.idle = 0 /\ e.age = o.age /\ e.wait = 0
      /\ e.burst = IF o.count >= Requests THEN o.burst + 1 ELSE o.burst
  BY <1>1, <1>4 DEF Entry
<1>6. \A i \in 1..RateWindow : recent[c][i] \in Nat
  BY DEF LimitsTyped
<1>7. /\ r \in [1..RateWindow -> Nat] /\ \A i \in 1..RateWindow : r[i] = recent[c][i] + 1
  BY <1>6
<1>8. /\ limit'[c] = e /\ recent'[c] = r /\ promised'[c] = promised[c]
      /\ promised' = [promised EXCEPT ![c] = promised[c]] /\ promised[c] \in 0..RateWindow
  BY <1>2 DEF LimitsTyped
<1> HIDE DEF e, r
<1>9. InWindow(c)'
  <2>1. e.count <= Requests + e.burst /\ e.age # RateWindow
    BY <1>1, <1>2, <1>3, <1>5, Limitations
  <2>2. ASSUME NEW i \in 1..RateWindow
        PROVE  /\ i <= limit'[c].idle => recent'[c][i] = 0
               /\ i <= limit'[c].age + 1 => recent'[c][i] <= limit'[c].count
               /\ recent'[c][i] <= limit'[c].count + Requests + Burst
    <3>1. /\ limit'[c].idle = 0 /\ limit'[c].age = o.age /\ limit'[c].count = o.count + 1
          /\ recent'[c][i] = recent[c][i] + 1 /\ recent[c][i] \in Nat
      BY <1>5, <1>6, <1>7, <1>8
    <3>2. /\ i <= o.age + 1 => recent[c][i] <= o.count
          /\ recent[c][i] <= o.count + Requests + Burst
      BY <1>1
    <3>3. QED BY <1>3, <3>1, <3>2, Limitations
  <2>3. /\ limit'[c].count <= Requests + limit'[c].burst
        /\ limit'[c].age # RateWindow
    BY <1>8, <2>1
  <2>4. QED BY <2>2, <2>3 DEF InWindow
<1>10. Blocks(c)'
  BY <1>1, <1>3, <1>5, <1>8, Limitations DEF Blocks
<1>11. QED BY <1>2, <1>5, <1>7, <1>8, <1>9, <1>10, OneClient

LEMMA RefuseLimits ==
    ASSUME LimitsTyped, Limits, NEW c \in Clients, Refuse(c)
    PROVE  LimitsTyped' /\ Limits'
<1>1. CASE UNCHANGED limits
  BY <1>1 DEF limits, LimitsTyped, Limits, Unlimited, InWindow, Blocks
<1>2. CASE ~UNCHANGED limits
  <2> DEFINE o == Opened(c)
             e == [o EXCEPT !.wait = RateWindow]
  <2>1. /\ ~Blocked(c) /\ o.count >= Requests /\ o.burst >= Burst
        /\ limit' = [limit EXCEPT ![c] = e] /\ recent' = recent
        /\ promised' = [promised EXCEPT ![c] = RateWindow]
    BY <1>2 DEF Refuse
  <2>2. /\ o \in Entry /\ o.age < RateWindow /\ o.count <= Requests + o.burst
        /\ \A i \in 1..RateWindow :
              /\ i <= o.idle => recent[c][i] = 0
              /\ i <= o.age + 1 => recent[c][i] <= o.count
              /\ recent[c][i] <= o.count + Requests + Burst
        /\ o.count > 0 \/ o.burst > 0 => o = limit[c] /\ limit[c] # NoEntry
    BY <2>1, OpenedIs
  <2>3. /\ o.count \in Nat /\ o.burst \in Nat /\ o.idle \in Nat /\ o.age \in 0..RateWindow
    BY <2>2, Limitations DEF Entry
  <2>4. /\ e \in Entry /\ e.count = o.count /\ e.burst = o.burst /\ e.idle = o.idle /\ e.age = o.age
        /\ e.wait = RateWindow
    BY <2>2, Limitations DEF Entry
  <2>5. Requests + Burst > 0 => o.idle <= o.age
    <3>1. Requests + Burst > 0 => o = limit[c] /\ limit[c] # NoEntry
      BY <2>1, <2>2, <2>3, Limitations
    <3>2. limit[c] # NoEntry => Blocks(c)
      BY DEF Limits
    <3>3. QED BY <2>2, <3>1, <3>2 DEF Blocks
  <2>6. /\ limit'[c] = e /\ recent'[c] = recent[c] /\ promised'[c] = RateWindow
        /\ recent' = [recent EXCEPT ![c] = recent[c]] /\ recent[c] \in [1..RateWindow -> Nat]
    BY <2>1 DEF LimitsTyped
  <2> HIDE DEF o, e
  <2>7. InWindow(c)'
    BY <2>2, <2>3, <2>4, <2>6, Limitations DEF InWindow
  <2>8. Blocks(c)'
    BY <2>2, <2>3, <2>4, <2>5, <2>6, Limitations DEF Blocks
  <2>9. RateWindow \in 0..RateWindow
    BY Limitations
  <2>10. QED BY <2>1, <2>4, <2>6, <2>7, <2>8, <2>9, OneClient
<1>3. QED BY <1>1, <1>2

LEMMA CleanupLimits ==
    ASSUME LimitsTyped, Limits, LimitCleanup
    PROVE  LimitsTyped' /\ Limits'
<1>1. LimitsTyped'
  BY DEF LimitsTyped, LimitCleanup
<1>2. ASSUME NEW c \in Clients
      PROVE  IF limit'[c] = NoEntry THEN Unlimited(c)' ELSE InWindow(c)' /\ Blocks(c)'
  <2>1. recent'[c] = recent[c] /\ promised'[c] = promised[c]
    BY DEF LimitCleanup
  <2>2. CASE limit'[c] = limit[c]
    <3>1. Unlimited(c) => Unlimited(c)'
      BY <2>1 DEF Unlimited
    <3>2. InWindow(c) => InWindow(c)'
      BY <2>1, <2>2 DEF InWindow
    <3>3. Blocks(c) => Blocks(c)'
      BY <2>1, <2>2 DEF Blocks
    <3>4. QED BY <2>2, <3>1, <3>2, <3>3 DEF Limits
  <2>3. CASE limit'[c] # limit[c]
    <3>1. /\ limit'[c] = NoEntry /\ limit[c] # NoEntry /\ limit[c].idle > 2 * RateWindow
          /\ limit[c] \in Entry /\ InWindow(c) /\ Blocks(c)
      BY <2>3 DEF LimitCleanup, LimitsTyped, Limits
    <3>2. /\ limit[c].idle \in Nat /\ limit[c].wait \in Nat
      BY <3>1, Limitations DEF Entry
    <3>3. \A i \in 1..RateWindow : recent[c][i] = 0
      BY <3>1, <3>2, Limitations DEF InWindow
    <3>4. Requests + Burst > 0 => promised[c] = 0
      BY <3>1, <3>2, Limitations DEF Blocks
    <3>5. QED BY <2>1, <3>1, <3>3, <3>4 DEF Unlimited
  <2>4. QED BY <2>2, <2>3
<1>3. QED BY <1>1, <1>2 DEF Limits

LEMMA PassTimeLimits ==
    ASSUME LimitsTyped, Limits, PassTime
    PROVE  LimitsTyped' /\ Limits'
<1>1. ASSUME NEW c \in Clients
      PROVE  /\ limit'[c] \in Entry \cup {NoEntry} /\ recent'[c] \in [1..RateWindow -> Nat]
             /\ promised'[c] \in 0..RateWindow
             /\ IF limit'[c] = NoEntry THEN Unlimited(c)' ELSE InWindow(c)' /\ Blocks(c)'
  <2>1. /\ \A i \in 1..RateWindow : recent[c][i] \in Nat
        /\ promised[c] \in 0..RateWindow /\ limit[c] \in Entry \cup {NoEntry}
    BY DEF LimitsTyped
  <2>2. \A i \in 1..RateWindow : i # 1 => i - 1 \in 1..RateWindow
    BY Limitations
  <2>3. /\ recent'[c] = [i \in 1..RateWindow |-> IF i = 1 THEN 0 ELSE recent[c][i - 1]]
        /\ promised'[c] = IF promised[c] > 0 THEN promised[c] - 1 ELSE 0
        /\ limit'[c] = IF limit[c] = NoEntry THEN NoEntry ELSE Aged(limit[c])
    BY DEF PassTime
  <2>4. recent'[c] \in [1..RateWindow -> Nat] /\ promised'[c] \in 0..RateWindow
    BY <2>1, <2>2, <2>3, Limitations
  <2>5. \A i \in 1..RateWindow : recent'[c][i] = IF i = 1 THEN 0 ELSE recent[c][i - 1]
    BY <2>3
  <2>6. CASE limit[c] = NoEntry
    <3>1. /\ limit'[c] = NoEntry /\ Unlimited(c)
      BY <2>3, <2>6 DEF Limits
    <3>2. Unlimited(c)'
      BY <2>2, <2>3, <2>5, <3>1 DEF Unlimited
    <3>3. QED BY <2>4, <3>1, <3>2
  <2>7. CASE limit[c] # NoEntry
    <3> DEFINE e == limit[c]
               f == Aged(e)
    <3>1. e \in Entry /\ InWindow(c) /\ Blocks(c)
      BY <2>1, <2>7 DEF Limits
    <3>2. /\ e.count \in 0..Requests + Burst /\ e.burst \in 0..Burst /\ e.age \in 0..RateWindow
          /\ e.idle \in 0..2 * RateWindow + 1 /\ e.wait \in 0..RateWindow
      BY <3>1 DEF Entry
    <3>3. /\ CapAt(RateWindow, e.age + 1) \in 0..RateWindow
          /\ CapAt(2 * RateWindow + 1, e.idle + 1) \in 0..2 * RateWindow + 1
          /\ (IF e.wait > 0 THEN e.wait - 1 ELSE 0) \in 0..RateWindow
      BY <3>2, Limitations DEF CapAt
    <3>4. /\ f \in Entry /\ f.count = e.count /\ f.burst = e.burst
          /\ f.age = CapAt(RateWindow, e.age + 1) /\ f.idle = CapAt(2 * RateWindow + 1, e.idle + 1)
          /\ f.wait = IF e.wait > 0 THEN e.wait - 1 ELSE 0
      BY <3>1, <3>3 DEF Aged, Entry
    <3>5. limit'[c] = f /\ f # NoEntry
      BY <2>3, <2>7, <3>4, EntryAssumption
    <3>6. /\ f.age <= e.age + 1 /\ f.idle <= e.idle + 1 /\ f.age \in Nat /\ f.idle \in Nat
          /\ f.age < RateWindow => f.age = e.age + 1
      BY <3>2, <3>4, Limitations DEF CapAt
    <3> HIDE DEF e, f
    <3>7. ASSUME NEW i \in 1..RateWindow
          PROVE  /\ i <= f.idle => recent'[c][i] = 0
                 /\ i <= f.age + 1 => recent'[c][i] <= e.count
                 /\ recent'[c][i] <= e.count + Requests + Burst
      <4>1. CASE i = 1
        BY <2>5, <3>2, <4>1, Limitations
      <4>2. CASE i # 1
        <5>1. /\ i - 1 \in 1..RateWindow /\ recent'[c][i] = recent[c][i - 1]
          BY <2>2, <2>5, <4>2
        <5>2. /\ i - 1 <= e.idle => recent[c][i - 1] = 0
              /\ i - 1 <= e.age + 1 => recent[c][i - 1] <= e.count
              /\ recent[c][i - 1] <= e.count + Requests + Burst
          BY <3>1, <5>1 DEF InWindow, e
        <5>3. QED BY <3>2, <3>6, <5>1, <5>2
      <4>3. QED BY <4>1, <4>2
    <3>8. e.count <= Requests + e.burst
      BY <3>1 DEF InWindow, e
    <3>9. InWindow(c)'
      BY <2>5, <3>4, <3>5, <3>7, <3>8, Limitations DEF InWindow
    <3>10. Blocks(c)'
      <4>1. Requests + Burst > 0 =>
               /\ e.wait = promised[c]
               /\ e.age < RateWindow => e.idle <= e.age
               /\ e.wait > 0 => e.idle + e.wait <= 2 * RateWindow
        BY <3>1 DEF Blocks, e
      <4>2. ASSUME Requests + Burst > 0
            PROVE  /\ f.wait = promised'[c]
                   /\ f.age < RateWindow => f.idle <= f.age
                   /\ f.wait > 0 => f.idle + f.wait <= 2 * RateWindow
        <5>1. f.wait = promised'[c]
          BY <2>3, <3>4, <4>1, <4>2
        <5>2. f.age < RateWindow => f.idle <= f.age
          BY <3>2, <3>6, <4>1, <4>2, Limitations
        <5>3. f.wait > 0 => f.idle + f.wait <= 2 * RateWindow
          BY <3>2, <3>4, <3>6, <4>1, <4>2, Limitations
        <5>4. QED BY <5>1, <5>2, <5>3
      <4>3. QED BY <3>5, <4>2 DEF Blocks
    <3>11. QED BY <2>4, <3>4, <3>5, <3>9, <3>10
  <2>8. QED BY <2>6, <2>7
<1>2. LimitsTyped'
  BY <1>1 DEF PassTime, LimitsTyped
<1>3. QED BY <1>1, <1>2 DEF Limits

-----------------------------------------------------------------------------
(* The middleware's sessions.                                              *)

SessionsTyped ==
    /\ sessions \in [Ids -> Session \cup {NoEntry}]
    /\ step \in [Servers -> {"idle", "authenticate", "touch", "refresh", "user"}]
    /\ found \in [Servers -> Ids \cup {NoEntry}]
    /\ who \in [Servers -> Users \cup {NoEntry}]

\* A request that is about to prolong a session or to count for a user knows which.
Knows ==
    \A t \in Servers :
        /\ step[t] \in {"touch", "refresh"} => found[t] \in Ids
        /\ step[t] \in {"touch", "user"} => who[t] \in Users

\* The sessions of u that are active, or will be again when a request prolongs them.
Within(u) ==
    {s \in Ids : /\ sessions[s] # NoEntry /\ sessions[s].user = u /\ sessions[s].active
                 /\ sessions[s].left > 0 \/ \E t \in Servers : found[t] = s}

\* The inductive invariant of the sessions: a new one is counted with all that the
\* requests hold, and nothing else brings one in.
Room == \A u \in Users : Cardinality(Within(u)) <= MaxActive + Cardinality(Servers)

LEMMA Finite ==
    ASSUME NEW S \in SUBSET Ids
    PROVE  IsFiniteSet(S) /\ Cardinality(S) \in Nat
BY FS_Subset, FS_CardinalityType, ServersAssumption

LEMMA RoomKept ==
    ASSUME Room, NEW u \in Users, Within(u)' \subseteq Within(u)
    PROVE  Cardinality(Within(u)') <= MaxActive + Cardinality(Servers)
<1>1. Within(u) \subseteq Ids
  BY DEF Within
<1>2. Cardinality(Within(u)') <= Cardinality(Within(u))
  BY <1>1, Finite, FS_Subset
<1>3. /\ Cardinality(Within(u)') \in Nat /\ Cardinality(Within(u)) \in Nat
      /\ Cardinality(Servers) \in Nat
  BY <1>1, Finite, FS_CardinalityType, ServersAssumption
<1>4. QED BY <1>2, <1>3, Limitations DEF Room

\* A step that adds no session and gives none to a request that it could not use.
LEMMA NothingNew ==
    ASSUME SessionsTyped, Room,
           \A s \in Ids : sessions'[s] # NoEntry =>
               /\ sessions[s] # NoEntry /\ sessions'[s].user = sessions[s].user
               /\ sessions'[s].active => sessions[s].active
               /\ sessions'[s].left > 0 =>
                      sessions[s].left > 0 \/ \E t \in Servers : found[t] = s,
           \A t \in Servers : found'[t] \in Ids => found'[t] = found[t] \/ Valid(found'[t])
    PROVE  Room'
<1> SUFFICES ASSUME NEW u \in Users PROVE Within(u)' \subseteq Within(u)
  BY RoomKept DEF Room
<1> SUFFICES ASSUME NEW s \in Within(u)' PROVE s \in Within(u)
  OBVIOUS
<1>1. /\ s \in Ids /\ sessions'[s] # NoEntry /\ sessions'[s].user = u /\ sessions'[s].active
      /\ sessions'[s].left > 0 \/ \E t \in Servers : found'[t] = s
  BY DEF Within
<1>2. /\ sessions[s] # NoEntry /\ sessions[s].user = u /\ sessions[s].active
  BY <1>1
<1>3. sessions[s].left > 0 \/ \E t \in Servers : found[t] = s
  BY <1>1 DEF Valid
<1>4. QED BY <1>1, <1>2, <1>3 DEF Within

LEMMA CreateRoom ==
    ASSUME SessionsTyped, Room, NEW v \in Users, NEW s \in Ids, CreateSession(v, s)
    PROVE  SessionsTyped' /\ Room'
<1> DEFINE new == [user |-> v, active |-> TRUE, left |-> Timeout]
<1>1. /\ sessions[s] = NoEntry /\ Cardinality(Active(v)) < MaxActive
      /\ sessions' = [sessions EXCEPT ![s] = new] /\ UNCHANGED serving
  BY DEF CreateSession
<1>2. new \in Session
  BY Limitations DEF Session
<1>3. SessionsTyped'
  BY <1>1, <1>2 DEF SessionsTyped, serving
<1>4. sessions'[s] = new /\ \A r \in Ids \ {s} : sessions'[r] = sessions[r]
  BY <1>1 DEF SessionsTyped
<1>5. ASSUME NEW u \in Users, u # v PROVE Within(u)' \subseteq Within(u)
  <2>1. \A r \in Within(u)' : r # s
    BY <1>4, <1>5 DEF Within
  <2>2. QED BY <1>1, <1>4, <2>1 DEF Within, serving
<1>6. Cardinality(Within(v)') <= MaxActive + Cardinality(Servers)
  <2> DEFINE H == {found[t] : t \in Servers}
  <2>1. Within(v)' \subseteq Active(v) \cup {s} \cup H
    <3> SUFFICES ASSUME NEW r \in Within(v)', r # s, r \notin H PROVE r \in Active(v)
      OBVIOUS
    <3>1. /\ r \in Ids /\ sessions'[r] = sessions[r] /\ found' = found
      BY <1>1, <1>4 DEF Within, serving
    <3>2. QED BY <3>1 DEF Within, Active
  <2>2. IsFiniteSet(H) /\ Cardinality(H) <= Cardinality(Servers)
    <3>1. found \in Surjection(Servers, H)
      BY DEF Surjection, SessionsTyped
    <3>2. QED BY <3>1, FS_Surjection, ServersAssumption
  <2>3. /\ IsFiniteSet(Active(v)) /\ s \notin Active(v)
    BY <1>1, Finite DEF Active
  <2>4. /\ IsFiniteSet(Active(v) \cup {s}) /\ Cardinality(Active(v) \cup {s}) = Cardinality(Active(v)) + 1
    BY <2>3, FS_AddElement
  <2>5. /\ IsFiniteSet(Active(v) \cup {s} \cup H)
        /\ Cardinality(Active(v) \cup {s} \cup H)
             = Cardinality(Active(v) \cup {s}) + Cardinality(H)
                 - Cardinality((Active(v) \cup {s}) \cap H)
    BY <2>2, <2>4, FS_Union
  <2>6. Cardinality(Within(v)') <= Cardinality(Active(v) \cup {s} \cup H)
    BY <2>1, <2>5, FS_Subset
  <2>7. /\ Cardinality(Active(v)) \in Nat /\ Cardinality(H) \in Nat /\ Cardinality(Servers) \in Nat
        /\ Cardinality((Active(v) \cup {s}) \cap H) \in Nat
        /\ Cardinality(Within(v)') \in Nat
    BY <2>1, <2>2, <2>3, <2>4, <2>5, FS_CardinalityType, FS_Subset, FS_Intersection, ServersAssumption
  <2>8. QED BY <1>1, <2>2, <2>4, <2>5, <2>6, <2>7, Limitations
<1>7. QED BY <1>3, <1>5, <1>6, RoomKept DEF Room

\* The other steps on the sessions.
LEMMA ServeRoom ==
    ASSUME SessionsTyped, Knows, Room, NEW t \in Servers, Serve(t)
    PROVE  SessionsTyped' /\ Knows' /\ Room'
<1>1. ASSUME NEW pc \in {"idle", "authenticate", "touch", "refresh", "user"},
             NEW s \in Ids \cup {NoEntry}, NEW u \in Users \cup {NoEntry}, GoOn(t, pc, s, u),
             pc \in {"touch", "refresh"} => s \in Ids, pc \in {"touch", "user"} => u \in Users,
             sessions' \in [Ids -> Session \cup {NoEntry}]
      PROVE  /\ SessionsTyped' /\ Knows'
             /\ \A r \in Servers : found'[r] = IF r = t THEN s ELSE found[r]
  BY <1>1 DEF GoOn, SessionsTyped, Knows
<1>2. ASSUME NEW s \in Ids
      PROVE  /\ Prolonged(s) \in [Ids -> Session \cup {NoEntry}]
             /\ \A r \in Ids \ {s} : Prolonged(s)[r] = sessions[r]
             /\ Prolonged(s)[s] = IF sessions[s] = NoEntry THEN NoEntry
                                  ELSE [sessions[s] EXCEPT !.left = Timeout]
  BY Limitations DEF Prolonged, SessionsTyped, Session
<1>3. CASE \E a \in IPs : CheckAddress(t, a)
  <2>1. UNCHANGED sessions /\ (GoOn(t, "authenticate", NoEntry, NoEntry) \/ UNCHANGED serving)
    BY <1>3 DEF CheckAddress
  <2>2. CASE UNCHANGED serving
    BY <2>1, <2>2, NothingNew DEF serving, SessionsTyped, Knows
  <2>3. CASE GoOn(t, "authenticate", NoEntry, NoEntry)
    <3>1. /\ SessionsTyped' /\ Knows'
          /\ \A r \in Servers : found'[r] = IF r = t THEN NoEntry ELSE found[r]
      BY <1>1, <2>1, <2>3 DEF SessionsTyped
    <3>2. QED BY <2>1, <3>1, NothingNew, ServersAssumption
  <2>4. QED BY <2>1, <2>2, <2>3
<1>4. CASE Authenticate(t) \/ \E s \in Ids : StartRefresh(t, s)
  <2>1. UNCHANGED sessions /\ sessions' \in [Ids -> Session \cup {NoEntry}]
    BY <1>4 DEF Authenticate, StartRefresh, SessionsTyped
  <2>2. \E pc \in {"idle", "touch", "refresh", "user"}, s \in Ids \cup {NoEntry},
           u \in Users \cup {NoEntry} :
           /\ GoOn(t, pc, s, u) /\ (s # NoEntry => Valid(s))
           /\ pc \in {"touch", "refresh"} => s \in Ids
           /\ pc \in {"touch", "user"} => u \in Users
    <3>1. ASSUME NEW s \in Ids, Valid(s) PROVE sessions[s].user \in Users
      BY <3>1 DEF Valid, SessionsTyped, Session
    <3>2. QED BY <1>4, <3>1, ServersAssumption DEF Authenticate, StartRefresh, Done
  <2>3. PICK pc \in {"idle", "touch", "refresh", "user"}, s \in Ids \cup {NoEntry},
             u \in Users \cup {NoEntry} :
             /\ GoOn(t, pc, s, u) /\ (s # NoEntry => Valid(s))
             /\ pc \in {"touch", "refresh"} => s \in Ids
             /\ pc \in {"touch", "user"} => u \in Users
    BY <2>2
  <2>4. /\ SessionsTyped' /\ Knows'
        /\ \A r \in Servers : found'[r] = IF r = t THEN s ELSE found[r]
    BY <1>1, <2>1, <2>3
  <2>5. QED BY <2>1, <2>3, <2>4, NothingNew, ServersAssumption
<1>5. CASE Touch(t) \/ Refresh(t)
  <2>1. /\ found[t] \in Ids /\ sessions' = Prolonged(found[t])
        /\ step[t] = "touch" => who[t] \in Users
    BY <1>5 DEF Touch, Refresh, Knows
  <2>2. \/ GoOn(t, "idle", NoEntry, NoEntry)
        \/ step[t] = "touch" /\ GoOn(t, "user", NoEntry, who[t])
    BY <1>5 DEF Touch, Refresh, Done
  <2>3. /\ SessionsTyped' /\ Knows'
        /\ \A r \in Servers : found'[r] = IF r = t THEN NoEntry ELSE found[r]
    BY <1>1, <1>2, <2>1, <2>2
  <2>4. ASSUME NEW s \in Ids, sessions'[s] # NoEntry
        PROVE  /\ sessions[s] # NoEntry /\ sessions'[s].user = sessions[s].user
               /\ sessions'[s].active => sessions[s].active
               /\ sessions'[s].left > 0 =>
                      sessions[s].left > 0 \/ \E r \in Servers : found[r] = s
    <3>1. CASE s = found[t]
      <4>1. sessions[s] # NoEntry /\ sessions'[s] = [sessions[s] EXCEPT !.left = Timeout]
        BY <1>2, <2>1, <2>4, <3>1
      <4>2. sessions[s] \in Session
        BY <4>1 DEF SessionsTyped
      <4>3. sessions'[s].user = sessions[s].user /\ sessions'[s].active = sessions[s].active
        BY <4>1, <4>2 DEF Session
      <4>4. QED BY <3>1, <4>1, <4>3
    <3>2. CASE s # found[t]
      BY <1>2, <2>1, <2>4, <3>2
    <3>3. QED BY <3>1, <3>2
  <2>5. \A r \in Servers : found'[r] \in Ids => found'[r] = found[r]
    BY <2>3, ServersAssumption
  <2>6. Room'
    BY <2>4, <2>5, NothingNew
  <2>7. QED BY <2>3, <2>6
<1>6. CASE CheckUser(t)
  <2>1. UNCHANGED sessions /\ GoOn(t, "idle", NoEntry, NoEntry)
    BY <1>6 DEF CheckUser, Done
  <2>2. /\ SessionsTyped' /\ Knows'
        /\ \A r \in Servers : found'[r] = IF r = t THEN NoEntry ELSE found[r]
    BY <1>1, <2>1 DEF SessionsTyped
  <2>3. QED BY <2>1, <2>2, NothingNew, ServersAssumption
<1>7. QED BY <1>3, <1>4, <1>5, <1>6 DEF Serve

LEMMA TakenRoom ==
    ASSUME SessionsTyped, Room, UNCHANGED serving,
           \/ \E u \in Users : InvalidateUserSessions(u)
           \/ \E s \in Ids : InvalidateSession(s)
           \/ SessionCleanup \/ PassTime
    PROVE  SessionsTyped' /\ Room'
<1>1. ASSUME NEW S \in SUBSET Ids, \A s \in S : sessions[s] # NoEntry, sessions' = Ended(S)
      PROVE  SessionsTyped' /\ Room'
  <2>1. ASSUME NEW s \in Ids
        PROVE  /\ sessions'[s] \in Session \cup {NoEntry}
               /\ sessions'[s] # NoEntry =>
                      /\ sessions[s] # NoEntry /\ sessions'[s].user = sessions[s].user
                      /\ sessions'[s].active => sessions[s].active
                      /\ sessions'[s].left > 0 => sessions[s].left > 0
    <3>1. CASE s \in S
      <4>1. sessions[s] \in Session
        BY <1>1, <3>1 DEF SessionsTyped
      <4>2. sessions'[s] = [sessions[s] EXCEPT !.active = FALSE, !.left = 0]
        BY <1>1, <3>1 DEF Ended
      <4>3. 0 \in 0..Timeout /\ ~(0 > 0)
        BY Limitations
      <4>4. /\ sessions'[s] \in Session /\ sessions'[s].user = sessions[s].user
            /\ sessions'[s].active = FALSE /\ sessions'[s].left = 0
        BY <4>1, <4>2, <4>3 DEF Session
      <4>5. QED BY <1>1, <3>1, <4>3, <4>4
    <3>2. CASE s \notin S
      BY <1>1, <3>2 DEF Ended, SessionsTyped
    <3>3. QED BY <3>1, <3>2
  <2>2. SessionsTyped'
    BY <1>1, <2>1 DEF SessionsTyped, serving, Ended
  <2>3. QED BY <2>1, <2>2, NothingNew DEF serving
<1>2. CASE \E u \in Users : InvalidateUserSessions(u)
  <2>1. PICK u \in Users : sessions' = Ended({s \in Ids : sessions[s] # NoEntry /\ sessions[s].user = u})
    BY <1>2 DEF InvalidateUserSessions
  <2>2. QED BY <1>1, <2>1
<1>3. CASE \E s \in Ids : InvalidateSession(s)
  BY <1>1, <1>3 DEF InvalidateSession
<1>4. CASE SessionCleanup
  <2>1. SessionsTyped'
    BY <1>4 DEF SessionCleanup, SessionsTyped, serving
  <2>2. QED BY <1>4, <2>1, NothingNew DEF SessionCleanup, serving
<1>5. CASE PassTime
  <2>1. ASSUME NEW s \in Ids
        PROVE  /\ sessions'[s] \in Session \cup {NoEntry}
               /\ sessions'[s] # NoEntry =>
                      /\ sessions[s] # NoEntry /\ sessions'[s].user = sessions[s].user
                      /\ sessions'[s].active => sessions[s].active
                      /\ sessions'[s].left > 0 => sessions[s].left > 0
    <3>1. CASE Valid(s)
      <4>1. sessions[s] \in Session /\ sessions[s].left > 0
        BY <3>1 DEF Valid, SessionsTyped
      <4>2. sessions'[s] = [sessions[s] EXCEPT !.left = @ - 1]
        BY <1>5, <3>1 DEF PassTime
      <4>3. sessions[s].left - 1 \in 0..Timeout
        BY <4>1, Limitations DEF Session
      <4>4. QED BY <3>1, <4>1, <4>2, <4>3 DEF Session, Valid
    <3>2. CASE ~Valid(s)
      BY <1>5, <3>2 DEF PassTime, SessionsTyped
    <3>3. QED BY <3>1, <3>2
  <2>2. SessionsTyped'
    BY <1>5, <2>1 DEF SessionsTyped, serving, PassTime
  <2>3. QED BY <2>1, <2>2, NothingNew DEF serving
<1>6. QED BY <1>2, <1>3, <1>4, <1>5

-----------------------------------------------------------------------------
(* Both together.                                                          *)

AccessInv == AccessTypeOK /\ Limits /\ Knows /\ Room

LEMMA AccessTypes == AccessTypeOK <=> LimitsTyped /\ SessionsTyped
BY DEF AccessTypeOK, LimitsTyped, SessionsTyped

LEMMA LimitsFrame ==
    ASSUME LimitsTyped, Limits, UNCHANGED limits
    PROVE  LimitsTyped' /\ Limits'
BY DEF limits, LimitsTyped, Limits, Unlimited, InWindow, Blocks

LEMMA InitAccess == AccessInit => AccessInv
<1> SUFFICES ASSUME AccessInit PROVE AccessInv
  OBVIOUS
<1>1. LimitsTyped
  BY Limitations DEF AccessInit, LimitsTyped
<1>2. SessionsTyped /\ Knows
  BY DEF AccessInit, SessionsTyped, Knows
<1>3. Limits
  <2>1. ASSUME NEW c \in Clients PROVE limit[c] = NoEntry /\ Unlimited(c)
    BY DEF AccessInit, Unlimited
  <2>2. QED BY <2>1 DEF Limits
<1>4. Room
  <2>1. ASSUME NEW u \in Users PROVE Within(u) = {}
    BY DEF AccessInit, Within
  <2>2. Cardinality({}) = 0 /\ Cardinality(Servers) \in Nat
    BY FS_EmptySet, FS_CardinalityType, ServersAssumption
  <2>3. QED BY <2>1, <2>2, Limitations DEF Room
<1>5. QED BY <1>1, <1>2, <1>3, <1>4, AccessTypes DEF AccessInv

LEMMA StepAccess == AccessInv /\ [AccessNext]_accessVars => AccessInv'
<1> SUFFICES ASSUME AccessInv, [AccessNext]_accessVars PROVE AccessInv'
  OBVIOUS
<1>1. LimitsTyped /\ SessionsTyped /\ Limits /\ Knows /\ Room
  BY AccessTypes DEF AccessInv
<1>2. LimitsTyped' /\ Limits'
  <2>1. CASE UNCHANGED limits
    BY <1>1, <2>1, LimitsFrame
  <2>2. ASSUME NEW t \in Servers, Serve(t) PROVE LimitsTyped' /\ Limits'
    <3>1. \/ UNCHANGED limits
          \/ \E c \in Clients : Pass(c) \/ Refuse(c)
      BY <1>1, <2>2 DEF Serve, CheckAddress, Authenticate, Touch, CheckUser, StartRefresh,
                        Refresh, Knows, Clients
    <3>2. QED BY <1>1, <3>1, LimitsFrame, PassLimits, RefuseLimits
  <2>3. CASE LimitCleanup
    BY <1>1, <2>3, CleanupLimits
  <2>4. CASE PassTime
    BY <1>1, <2>4, PassTimeLimits
  <2>5. CASE \/ \E u \in Users : InvalidateUserSessions(u) \/ \E s \in Ids : CreateSession(u, s)
             \/ \E s \in Ids : InvalidateSession(s)
             \/ SessionCleanup
    BY <2>1, <2>5 DEF InvalidateUserSessions, CreateSession, InvalidateSession, SessionCleanup
  <2>6. QED BY <2>1, <2>2, <2>3, <2>4, <2>5 DEF AccessNext, accessVars
<1>3. SessionsTyped' /\ Knows' /\ Room'
  <2>1. UNCHANGED serving => Knows'
    BY <1>1 DEF Knows, serving
  <2>2. ASSUME NEW t \in Servers, Serve(t) PROVE SessionsTyped' /\ Knows' /\ Room'
    BY <1>1, <2>2, ServeRoom
  <2>3. CASE \/ \E u \in Users : InvalidateUserSessions(u)
             \/ \E s \in Ids : InvalidateSession(s)
             \/ SessionCleanup \/ PassTime
    <3>1. UNCHANGED serving
      BY <2>3 DEF InvalidateUserSessions, InvalidateSession, SessionCleanup, PassTime
    <3>2. QED BY <1>1, <2>1, <2>3, <3>1, TakenRoom
  <2>4. ASSUME NEW u \in Users, NEW s \in Ids, CreateSession(u, s)
        PROVE  SessionsTyped' /\ Knows' /\ Room'
    BY <1>1, <2>1, <2>4, CreateRoom DEF CreateSession
  <2>5. CASE LimitCleanup \/ UNCHANGED accessVars
    <3>1. UNCHANGED <<sessions, serving>>
      BY <2>5 DEF LimitCleanup, accessVars
    <3>2. SessionsTyped' /\ Room'
      BY <1>1, <3>1, NothingNew DEF SessionsTyped, serving
    <3>3. QED BY <2>1, <3>1, <3>2
  <2>6. QED BY <2>2, <2>3, <2>4, <2>5 DEF AccessNext
<1>4. AccessTypeOK'
  BY <1>2, <1>3 DEF AccessTypeOK, LimitsTyped, SessionsTyped
<1>5. QED BY <1>2, <1>3, <1>4 DEF AccessInv

\* The books of the limits and of the sessions are kept, for any number of requests,
\* addresses, users and sessions.
THEOREM AccessKept == AccessSpec => []AccessInv
BY InitAccess, StepAccess, PTL DEF AccessSpec

\* The middleware's variables keep their types.
THEOREM AccessTypeCorrect == AccessSpec => []AccessTypeOK
<1>1. AccessInv => AccessTypeOK
  BY DEF AccessInv
<1>2. QED BY <1>1, AccessKept, PTL

\* For any limits and windows: no window, however it lies, lets more than twice the
\* allowance through.
THEOREM WindowKept == AccessSpec => []WindowBound
<1>1. AccessInv => WindowBound
  <2> SUFFICES ASSUME AccessInv, NEW c \in Clients
               PROVE  recent[c][RateWindow] <= 2 * (Requests + Burst)
    BY DEF WindowBound
  <2>1. LimitsTyped /\ Limits
    BY AccessTypes DEF AccessInv
  <2>2. CASE limit[c] = NoEntry
    BY <2>1, <2>2, Limitations DEF Limits, Unlimited
  <2>3. CASE limit[c] # NoEntry
    <3>1. /\ limit[c] \in Entry /\ InWindow(c) /\ recent[c][RateWindow] \in Nat
      BY <2>1, <2>3, Limitations DEF Limits, LimitsTyped
    <3>2. limit[c].count \in 0..Requests + Burst
      BY <3>1 DEF Entry
    <3>3. recent[c][RateWindow] <= limit[c].count + Requests + Burst
      BY <3>1, Limitations DEF InWindow
    <3>4. QED BY <3>1, <3>2, <3>3, Limitations
  <2>4. QED BY <2>2, <2>3
<1>2. QED BY <1>1, AccessKept, PTL

\* A block lasts as long as the client was told, where the configuration lets anything
\* through at all: without an allowance an idle entry is blocked, and the clean-up takes
\* it for its age.
THEOREM BlocksKept ==
    ASSUME Requests + Burst > 0
    PROVE  AccessSpec => []BlockKept
<1>1. AccessInv => BlockKept
  <2> SUFFICES ASSUME AccessInv, NEW c \in Clients, promised[c] > 0
               PROVE  limit[c] # NoEntry /\ limit[c].wait = promised[c]
    BY DEF BlockKept
  <2>1. limit[c] # NoEntry
    BY DEF AccessInv, Limits, Unlimited
  <2>2. Blocks(c)
    BY <2>1 DEF AccessInv, Limits
  <2>3. QED BY <2>1, <2>2 DEF Blocks
<1>2. QED BY <1>1, AccessKept, PTL

\* For any number of requests and sessions: beyond the limit a user has at most the
\* sessions that requests were about to prolong.
THEOREM ActiveKept == AccessSpec => []ActiveBounded
<1>1. AccessInv => ActiveBounded
  <2> SUFFICES ASSUME AccessInv, NEW u \in Users
               PROVE  Cardinality(Active(u)) <= MaxActive + Cardinality(Servers)
    BY DEF ActiveBounded
  <2>1. Active(u) \subseteq Within(u) /\ Within(u) \subseteq Ids
    BY DEF Active, Within
  <2>2. Cardinality(Active(u)) <= Cardinality(Within(u))
    BY <2>1, Finite, FS_Subset
  <2>3. /\ Cardinality(Active(u)) \in Nat /\ Cardinality(Within(u)) \in Nat
        /\ Cardinality(Servers) \in Nat
    BY <2>1, Finite, FS_CardinalityType, ServersAssumption
  <2>4. QED BY <2>2, <2>3, Limitations DEF AccessInv, Room
<1>2. QED BY <1>1, AccessKept, PTL
==============================================================================
