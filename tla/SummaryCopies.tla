---------------------------- MODULE SummaryCopies ----------------------------
(***************************************************************************)
(* The copies of a hotel's row of review_summaries, and who drops them.    *)
(*                                                                         *)
(*   - ReviewServiceImpl (domain/services.go) keeps one in Redis for an    *)
(*     hour (infrastructure/redis_cache_service.go) and deletes it when one *)
(*     of its operations has changed a review of the hotel, or the hotel;  *)
(*   - OptimizedRepositoryService keeps another in Redis and in a map of   *)
(*     the process (advanced_cache_service.go) and deletes both in a       *)
(*     goroutine after it has recomputed the row.                          *)
(*                                                                         *)
(* Only UpdateReviewSummary writes the row: no change of a review does, and *)
(* no trigger of the database.  A copy is known by the version of the row  *)
(* it was read from, and a change of reviews by the version it met.  That  *)
(* of ProcessReviewBatch and of the import of a file touches neither the   *)
(* row nor a copy, and nothing is promised about it.  Every thread runs one *)
(* operation after another; each step is one call of Redis or the database. *)
(***************************************************************************)
EXTENDS Integers, Sequences, SequencesExt

CONSTANTS
    Threads,         \* goroutines of requests and of cache maintenance
    Hotels,
    Absent,          \* no copy
    MaxChanges       \* bound: updates of the rows

ASSUME CopiesAssumption == MaxChanges \in Nat
ASSUME AbsentAssumption == Absent \notin Nat

VARIABLES
    row,       \* updates of a hotel's row in review_summaries
    asOf,      \* the row's version when the service last changed the hotel's reviews
    wired,     \* eventPublisher is not nil; cmd/api passes nil
    cached,    \* the service's copy in Redis, key hotel:summary:<id>
    shared,    \* the other copy in Redis, key hotel:summary:v2:<id>
    local,     \* the copy in the process's map
    at,        \* program counter of a thread
    hotel,     \* the hotel its operation is about
    seen,      \* what it has read and is about to store
    todo,      \* the hotels whose copy it has still to invalidate
    excused    \* <<copy, hotel>> left stale by a known window

db     == <<row, asOf, wired>>
copies == <<cached, shared, local>>
thread == <<at, hotel, seen, todo>>
vars   == <<db, copies, thread, excused>>

Init ==
    /\ row = [h \in Hotels |-> 0] /\ asOf = [h \in Hotels |-> 0] /\ wired \in BOOLEAN
    /\ cached = [h \in Hotels |-> Absent]
    /\ shared = [h \in Hotels |-> Absent] /\ local = [h \in Hotels |-> Absent]
    /\ at = [t \in Threads |-> "idle"]
    /\ hotel = [t \in Threads |-> Absent]
    /\ seen = [t \in Threads |-> 0] /\ todo = [t \in Threads |-> <<>>]
    /\ excused = {}

Copies == {"cached", "shared", "local"}

\* No copy comes from a version the row has not reached.
TypeOK ==
    /\ \A h \in Hotels :
         /\ row[h] \in 0..MaxChanges /\ asOf[h] \in 0..row[h]
         /\ {cached[h], shared[h], local[h]} \subseteq {Absent} \cup 0..row[h]
    /\ wired \in BOOLEAN
    /\ at \in [Threads -> {"idle", "load", "store", "publish", "invalidate",
                           "fetch", "share", "keep", "keys", "del", "drop"}]
    /\ hotel \in [Threads -> Hotels \cup {Absent}] /\ seen \in [Threads -> 0..MaxChanges]
    /\ todo \in [Threads -> Seq(Hotels)]
    /\ excused \subseteq Copies \X Hotels

\* A thread goes on at another step; everything else of it stays.
Goto(t, pc) == at' = [at EXCEPT ![t] = pc] /\ UNCHANGED <<hotel, seen, todo>>

\* An operation ends, and what its thread held is gone.
End(t) ==
    /\ at' = [at EXCEPT ![t] = "idle"] /\ hotel' = [hotel EXCEPT ![t] = Absent]
    /\ seen' = [seen EXCEPT ![t] = 0] /\ todo' = [todo EXCEPT ![t] = <<>>]

\* An operation on hotel h begins.
Begin(t, h, pc, list) ==
    /\ at[t] = "idle"
    /\ at' = [at EXCEPT ![t] = pc] /\ hotel' = [hotel EXCEPT ![t] = h]
    /\ todo' = [todo EXCEPT ![t] = list] /\ UNCHANGED seen

Budget == FoldFunction(+, 0, row) < MaxChanges

\* Version v of the row was already replaced when h's reviews were last changed.
Outdated(h, v) == v # Absent /\ v < asOf[h]

\* A review's change is on its way to the service's copy of h, a row's update to
\* the copies of the other service.
ServicePending(t, h) == at[t] \in {"publish", "invalidate"} /\ h \in ToSet(todo[t])
SharedPending(t, h) == at[t] \in {"keys", "del"} /\ hotel[t] = h
LocalPending(t, h)  == at[t] \in {"keys", "del", "drop"} /\ hotel[t] = h

\* A copy replaced by a current one, or removed, needs no excuse any more; one
\* that is stale and that nobody is about to remove gets one.
Excuse(copy, h, stale) ==
    excused' = IF stale THEN excused \cup {<<copy, h>>} ELSE excused \ {<<copy, h>>}

\* An invalidation is given up.
Leave(h) ==
    excused' = excused \cup
        {<<"shared", h>> : v \in {shared[h]} \ {Absent, row[h]}} \cup
        {<<"local", h>> : v \in {local[h]} \ {Absent, row[h]}}

-----------------------------------------------------------------------------
(* Mutants: the slips the properties are there to catch.                   *)

\* UpdateReview forgets the hotel the review was filed under.
UpdateReviewNewOnly(t, old, new) ==
    /\ Begin(t, old, "publish", <<new>>)
    /\ asOf' = [asOf EXCEPT ![old] = row[old], ![new] = row[new]]
    /\ UNCHANGED <<row, wired, copies, excused>>

\* InvalidatePattern forgets the process's own map.
DelRedisOnly(t) ==
    LET h == hotel[t] IN
    /\ at[t] = "del" /\ End(t)
    /\ shared' = [shared EXCEPT ![h] = Absent] /\ Excuse("shared", h, FALSE)
    /\ UNCHANGED <<db, cached, local>>

-----------------------------------------------------------------------------
(* GetReviewSummary of the service.  A hit returns; so does a miss, with no *)
(* summary: the cache reports a miss without an error.  Only a failing Redis *)
(* sends the request to the database.                                      *)

GetReviewSummary(t, h) ==
    /\ Begin(t, h, "load", <<>>)
    /\ UNCHANGED <<db, copies, excused>>

\* GetReviewSummaryByHotelID reads the row; it may fail.
Load(t) ==
    /\ at[t] = "load"
    /\ \/ /\ seen' = [seen EXCEPT ![t] = row[hotel[t]]]
          /\ at' = [at EXCEPT ![t] = "store"] /\ UNCHANGED <<hotel, todo>>
       \/ End(t)
    /\ UNCHANGED <<db, copies, excused>>

\* SetReviewSummary; a failure is only logged.
Store(t) ==
    LET h == hotel[t] IN
    /\ at[t] = "store" /\ End(t)
    /\ \/ /\ cached' = [cached EXCEPT ![h] = seen[t]]
          /\ Excuse("cached", h, Outdated(h, seen[t]) /\ \A u \in Threads : ~ServicePending(u, h))
       \/ UNCHANGED <<cached, excused>>
    /\ UNCHANGED <<db, shared, local>>

-----------------------------------------------------------------------------
(* The service's operations on reviews and hotels: commit, publish, then   *)
(* invalidate.  A commit that fails changes nothing.                       *)

CreateReview(t, h) ==
    /\ Begin(t, h, "publish", <<h>>)
    /\ asOf' = [asOf EXCEPT ![h] = row[h]]
    /\ UNCHANGED <<row, wired, copies, excused>>

\* The request may name another hotel than the one the review was filed under.
UpdateReview(t, old, new) ==
    /\ Begin(t, old, "publish", IF old # new THEN <<old, new>> ELSE <<new>>)
    /\ asOf' = [asOf EXCEPT ![old] = row[old], ![new] = row[new]]
    /\ UNCHANGED <<row, wired, copies, excused>>

DeleteReview(t, h) == CreateReview(t, h)

\* DeleteHotel publishes nothing.
DeleteHotel(t, h) ==
    /\ Begin(t, h, "invalidate", <<h>>)
    /\ asOf' = [asOf EXCEPT ![h] = row[h]]
    /\ UNCHANGED <<row, wired, copies, excused>>

\* A failure of the publisher is logged; a nil publisher panics, and the request
\* ends without any invalidation.
Publish(t) ==
    /\ at[t] = "publish"
    /\ \/ wired /\ Goto(t, "invalidate") /\ UNCHANGED excused
       \/ /\ ~wired /\ End(t)
          /\ excused' = excused \cup {<<"cached", h>> : h \in
                            {g \in ToSet(todo[t]) : Outdated(g, cached[g])}}
    /\ UNCHANGED <<db, copies>>

\* InvalidateReviewSummary, once per hotel; a failure is only logged.
Invalidate(t) ==
    LET h == Head(todo[t]) rest == Tail(todo[t]) IN
    /\ at[t] = "invalidate"
    /\ \/ rest = <<>> /\ End(t)
       \/ /\ rest # <<>> /\ todo' = [todo EXCEPT ![t] = rest]
          /\ UNCHANGED <<at, hotel, seen>>
    /\ \/ cached' = [cached EXCEPT ![h] = Absent] /\ Excuse("cached", h, FALSE)
       \/ /\ UNCHANGED cached
          /\ Excuse("cached", h, Outdated(h, cached[h]))
    /\ UNCHANGED <<db, shared, local>>

-----------------------------------------------------------------------------
(* GetReviewSummaryOptimized.  A local copy is returned.                   *)

\* Redis has a copy, which is then kept locally; a miss or an error leads to the
\* database.
GetOptimized(t, h) ==
    /\ local[h] = Absent
    /\ \/ /\ shared[h] # Absent /\ at[t] = "idle"
          /\ at' = [at EXCEPT ![t] = "keep"] /\ hotel' = [hotel EXCEPT ![t] = h]
          /\ seen' = [seen EXCEPT ![t] = shared[h]] /\ UNCHANGED todo
       \/ Begin(t, h, "fetch", <<>>)
    /\ UNCHANGED <<db, copies, excused>>

Fetch(t) ==
    /\ at[t] = "fetch"
    /\ \/ /\ seen' = [seen EXCEPT ![t] = row[hotel[t]]]
          /\ at' = [at EXCEPT ![t] = "share"] /\ UNCHANGED <<hotel, todo>>
       \/ End(t)
    /\ UNCHANGED <<db, copies, excused>>

\* SetWithStrategy, in a goroutine of its own: Redis first, then the map.
Share(t) ==
    LET h == hotel[t] IN
    /\ at[t] = "share"
    /\ \/ /\ Goto(t, "keep")
          /\ shared' = [shared EXCEPT ![h] = seen[t]]
          /\ Excuse("shared", h, seen[t] # row[h] /\ \A u \in Threads : ~SharedPending(u, h))
       \/ End(t) /\ UNCHANGED <<shared, excused>>
    /\ UNCHANGED <<db, cached, local>>

\* setLocalCache, with a TTL that starts now.
Keep(t) ==
    LET h == hotel[t] IN
    /\ at[t] = "keep" /\ End(t)
    /\ local' = [local EXCEPT ![h] = seen[t]]
    /\ Excuse("local", h, seen[t] # row[h] /\ \A u \in Threads : ~LocalPending(u, h))
    /\ UNCHANGED <<db, cached, shared>>

-----------------------------------------------------------------------------
(* UpdateReviewSummaryOptimized: aggregate and upsert, then a goroutine that *)
(* runs InvalidateHotelData.  BatchUpdateReviewSummariesOptimized does the *)
(* same hotel by hotel, with one goroutine for ten of them.                *)

UpdateSummary(t, h) ==
    /\ Budget /\ Begin(t, h, "keys", <<>>)
    /\ row' = [row EXCEPT ![h] = @ + 1]
    /\ UNCHANGED <<asOf, wired, copies, excused>>

\* The pattern hotel:summary:*:<id> finds the v2 key, never the service's.  When
\* it finds none, or Redis fails, InvalidatePattern returns and the map keeps its copy.
Keys(t) ==
    LET h == hotel[t] IN
    /\ at[t] = "keys"
    /\ \/ shared[h] # Absent /\ Goto(t, "del") /\ UNCHANGED excused
       \/ End(t) /\ Leave(h)
    /\ UNCHANGED <<db, copies>>

Del(t) ==
    LET h == hotel[t] IN
    /\ at[t] = "del"
    /\ \/ /\ Goto(t, "drop")
          /\ shared' = [shared EXCEPT ![h] = Absent] /\ Excuse("shared", h, FALSE)
       \/ End(t) /\ UNCHANGED shared /\ Leave(h)
    /\ UNCHANGED <<db, cached, local>>

Drop(t) ==
    /\ at[t] = "drop" /\ End(t)
    /\ local' = [local EXCEPT ![hotel[t]] = Absent] /\ Excuse("local", hotel[t], FALSE)
    /\ UNCHANGED <<db, cached, shared>>

-----------------------------------------------------------------------------
(* Copies expire.                                                          *)

Expire(h) ==
    /\ \/ cached[h] # Absent /\ cached' = [cached EXCEPT ![h] = Absent]
          /\ Excuse("cached", h, FALSE) /\ UNCHANGED <<shared, local>>
       \/ shared[h] # Absent /\ shared' = [shared EXCEPT ![h] = Absent]
          /\ Excuse("shared", h, FALSE) /\ UNCHANGED <<cached, local>>
       \/ local[h] # Absent /\ local' = [local EXCEPT ![h] = Absent]
          /\ Excuse("local", h, FALSE) /\ UNCHANGED <<cached, shared>>
    /\ UNCHANGED <<db, thread>>

Step(t) ==
    \/ \E h \in Hotels :
         \/ GetReviewSummary(t, h) \/ CreateReview(t, h) \/ DeleteReview(t, h) \/ DeleteHotel(t, h)
         \/ GetOptimized(t, h) \/ UpdateSummary(t, h)
         \/ \E new \in Hotels : UpdateReview(t, h, new)
    \/ Load(t) \/ Store(t) \/ Publish(t) \/ Invalidate(t)
    \/ Fetch(t) \/ Share(t) \/ Keep(t) \/ Keys(t) \/ Del(t) \/ Drop(t)

Next == (\E t \in Threads : Step(t)) \/ \E h \in Hotels : Expire(h)

Spec == Init /\ [][Next]_vars

-----------------------------------------------------------------------------
(* Properties.                                                             *)

\* Once CreateReview, UpdateReview, DeleteReview or DeleteHotel has answered, the
\* service's copy is no older than the row was at their commit, for any hotel and
\* with any other operations around them: but for a reader that loaded an older row
\* and stores it after the invalidation, an invalidation Redis refused, and a nil
\* publisher's panic.  The row itself may be behind the reviews, and its updates
\* alone leave this copy in place until it expires.
ServiceCopies ==
    \A h \in Hotels :
        Outdated(h, cached[h]) =>
            <<"cached", h>> \in excused \/ \E t \in Threads : ServicePending(t, h)

\* The two levels of the optimized service are dropped after an update of the row
\* itself; here the local copy also stays when its key in Redis is already gone.
OptimizedCopies ==
    \A h \in Hotels :
        /\ shared[h] \notin {Absent, row[h]} =>
              <<"shared", h>> \in excused \/ \E t \in Threads : SharedPending(t, h)
        /\ local[h] \notin {Absent, row[h]} =>
              <<"local", h>> \in excused \/ \E t \in Threads : LocalPending(t, h)
=============================================================================
