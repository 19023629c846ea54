---------------------------- MODULE EventDelivery ----------------------------
(***************************************************************************)
(* How a domain event leaves in internal/events (event_bus.go): a service  *)
(* saves it to the outbox with its own data, the outbox publisher polls    *)
(* the unpublished rows, publishes each on the in-memory bus and marks its *)
(* row, and the bus spawns a goroutine for every subscribed handler of     *)
(* handlers.go.  The publisher does not wait for these goroutines; when    *)
(* one runs, it calls the handler, and what that does is its own matter.   *)
(*                                                                         *)
(* The outbox survives a crash, everything else starts anew: goroutines    *)
(* that have not yet called their handler are gone.  Publish iterates      *)
(* without the lock over the slice it has read under it, and Unsubscribe   *)
(* shifts the handlers inside that slice's array.                          *)
(***************************************************************************)
EXTENDS Integers, Sequences, FiniteSets, SequencesExt

CONSTANTS
    Events,        \* the events the services emit
    TypeOf,        \* event.Type
    Poison,        \* outbox rows FromJSON cannot read
    Handlers,      \* the subscribed handlers, one of a kind
    Subscribed,    \* those of a type, in the order of Subscribe
    Limit,         \* how many rows GetUnpublished returns, 100
    MaxFaults,     \* bound: failed MarkAsPublished calls and crashes
    MaxUnsubscribes, \* bound: handlers that are ever unsubscribed
    MayStop        \* whether the owner stops the publisher

Kinds == {"analytics", "notification", "search", "cache", "audit", "error"}

ASSUME DeliveryAssumption ==
    /\ IsFiniteSet(Events) /\ Poison \subseteq Events
    /\ Handlers \subseteq Kinds
    /\ Limit \in Nat \ {0} /\ MaxFaults \in Nat /\ MaxUnsubscribes \in Nat
    /\ MayStop \in BOOLEAN

VARIABLES
    saved,       \* the outbox rows, in the order of CreatedAt
    published,   \* the rows with Published set
    cells,       \* the array behind bus.handlers[type]
    size,        \* len(bus.handlers[type])
    pub,         \* program counter of the publisher
    batch,       \* the rows it has still to publish
    next,        \* the index of its iteration over the handlers
    last,        \* the length it iterates to
    stopped,     \* the publisher's stopCh is closed
    waiting,     \* goroutines spawned for a handler and an event, yet to call it
    called,      \* how often a handler was called for an event
    lost,        \* <<handler, event>>: marked, never called, its goroutine crashed
    markErrors,  \* failed MarkAsPublished calls
    crashes,     \* crashes and restarts of the process
    unsubs,      \* the handlers Unsubscribe was called for
    raced        \* events published while Unsubscribe shifted the handlers

tables   == <<saved, published>>
busVars  == <<cells, size, unsubs>>
pubVars  == <<pub, batch, next, last>>
faults   == <<markErrors, crashes, raced>>
calls    == <<waiting, called, lost>>
deliveryVars == <<tables, busVars, pubVars, stopped, calls, faults>>

Types == {TypeOf[e] : e \in Events}

-----------------------------------------------------------------------------
(* The handlers.                                                           *)

ReviewEvents == {"ReviewCreated", "ReviewUpdated", "ReviewDeleted"}
HotelEvents  == {"HotelCreated", "HotelUpdated", "HotelDeleted"}

\* GetEventTypes of the handlers in handlers.go.
GetEventTypes(kind) ==
    CASE kind = "analytics"    -> ReviewEvents
      [] kind = "notification" -> {"UserRegistered", "ReviewCreated", "ReviewModerated"}
      [] kind = "search"       -> HotelEvents \cup ReviewEvents
      [] kind = "cache"        -> {"HotelUpdated"} \cup ReviewEvents
      [] kind = "error"        -> {"SystemError"}
      [] OTHER -> ReviewEvents \cup HotelEvents \cup
                  {"UserRegistered", "UserUpdated", "UserDeleted", "ReviewModerated",
                   "FileUploaded", "FileProcessed", "FileDeleted"}

Interested(h, e) == TypeOf[e] \in GetEventTypes(h)
Interest(type) == {h \in Handlers : type \in GetEventTypes(h)}

\* Every handler is subscribed once, for the types it names.
ASSUME SubscribedAssumption ==
    \A t \in Types :
        /\ Subscribed[t] \in Seq(Handlers) /\ IsInjective(Subscribed[t])
        /\ ToSet(Subscribed[t]) = Interest(t)

DeliveryInit ==
    /\ saved = <<>> /\ published = {}
    /\ cells = Subscribed
    /\ size = [t \in Types |-> Len(Subscribed[t])]
    /\ pub = "idle" /\ batch = <<>> /\ next = 0 /\ last = 0
    /\ stopped = FALSE
    /\ waiting = [h \in Handlers |-> [e \in Events |-> 0]]
    /\ called = [h \in Handlers |-> [e \in Events |-> 0]] /\ lost = {}
    /\ markErrors = [e \in Events |-> 0] /\ crashes = 0 /\ unsubs = {} /\ raced = {}

DeliveryTypeOK ==
    /\ saved \in Seq(Events) /\ published \subseteq ToSet(saved) \ Poison
    /\ \A t \in Types : cells[t] \in Seq(Handlers)
    /\ size \in [Types -> 0..Cardinality(Handlers)]
    /\ pub \in {"idle", "publish", "spawn", "mark", "off"}
    /\ batch \in Seq(Events) /\ Len(batch) <= Limit
    /\ next \in Nat /\ last \in 0..Cardinality(Handlers)
    /\ stopped \in BOOLEAN
    /\ waiting \in [Handlers -> [Events -> Nat]]
    /\ called \in [Handlers -> [Events -> Nat]] /\ lost \subseteq Handlers \X Events
    /\ markErrors \in [Events -> Nat] /\ crashes \in Nat /\ unsubs \subseteq Handlers
    /\ raced \subseteq Events

FaultsSoFar == crashes + FoldFunction(+, 0, markErrors)

-----------------------------------------------------------------------------
(* Mutants: the slips the properties are there to catch.                   *)

\* Publish iterates to len(handlers) - 1.
PublishFewer ==
    /\ pub = "publish" /\ batch # <<>> /\ Head(batch) \notin Poison
    /\ pub' = "spawn" /\ next' = 1
    /\ last' = IF size[TypeOf[Head(batch)]] > 1 THEN 1 ELSE 0
    /\ UNCHANGED <<tables, busVars, batch, stopped, calls, faults>>

\* A row that cannot be read ends the batch with an error.
PoisonEndsBatch ==
    /\ pub = "publish" /\ batch # <<>> /\ Head(batch) \in Poison
    /\ batch' = <<>>
    /\ UNCHANGED <<tables, busVars, pub, next, last, stopped, calls, faults>>

-----------------------------------------------------------------------------
(* A service saves its event with its own data: external.                  *)

Save(e) ==
    /\ e \notin ToSet(saved)
    /\ saved' = Append(saved, e)
    /\ UNCHANGED <<published, busVars, pubVars, stopped, calls, faults>>

-----------------------------------------------------------------------------
(* The outbox publisher.                                                   *)

Unpublished == ToSet(saved) \ published
Before(e, f) == \E i, j \in DOMAIN saved : i < j /\ saved[i] = e /\ saved[j] = f

\* The oldest unpublished rows, up to Limit of them.
GetUnpublished ==
    {rows \in UNION {[1..n -> Unpublished] : n \in 1..Limit} :
        /\ \A i, j \in DOMAIN rows : i < j => Before(rows[i], rows[j])
        /\ \A e \in Unpublished \ ToSet(rows) :
              Len(rows) = Limit /\ \A f \in ToSet(rows) : Before(f, e)}

\* A tick of publishLoop.  An error of GetUnpublished leaves it idle.
Tick ==
    /\ pub = "idle" /\ pub' = "publish" /\ batch' \in GetUnpublished
    /\ UNCHANGED <<tables, busVars, next, last, stopped, calls, faults>>

SkipPoison ==
    /\ pub = "publish" /\ batch # <<>> /\ Head(batch) \in Poison
    /\ batch' = Tail(batch)
    /\ UNCHANGED <<tables, busVars, pub, next, last, stopped, calls, faults>>

\* Publish reads the slice header under bus.mu.
Publish ==
    /\ pub = "publish" /\ batch # <<>> /\ Head(batch) \notin Poison
    /\ pub' = "spawn" /\ next' = 1 /\ last' = size[TypeOf[Head(batch)]]
    /\ UNCHANGED <<tables, busVars, batch, stopped, calls, faults>>

\* One turn of its loop, without the lock: a goroutine for whatever handler the
\* array holds now.
Spawn ==
    LET e == Head(batch) h == cells[TypeOf[e]][next] IN
    /\ pub = "spawn" /\ next <= last
    /\ waiting' = [waiting EXCEPT ![h][e] = @ + 1]
    /\ next' = next + 1
    /\ UNCHANGED <<tables, busVars, pub, batch, last, stopped, called, lost, faults>>

\* Publish has returned, never with an error.
PublishReturns ==
    /\ pub = "spawn" /\ next > last
    /\ pub' = "mark" /\ next' = 0 /\ last' = 0
    /\ UNCHANGED <<tables, busVars, batch, stopped, calls, faults>>

MarkAsPublished ==
    /\ pub = "mark"
    /\ published' = published \cup {Head(batch)}
    /\ pub' = "publish" /\ batch' = Tail(batch)
    /\ UNCHANGED <<saved, busVars, next, last, stopped, calls, faults>>

MarkFails ==
    /\ pub = "mark" /\ FaultsSoFar < MaxFaults
    /\ markErrors' = [markErrors EXCEPT ![Head(batch)] = @ + 1]
    /\ pub' = "publish" /\ batch' = Tail(batch)
    /\ UNCHANGED <<tables, busVars, next, last, stopped, calls, crashes, raced>>

EndBatch ==
    /\ pub = "publish" /\ batch = <<>>
    /\ pub' = "idle"
    /\ UNCHANGED <<tables, busVars, batch, next, last, stopped, calls, faults>>

\* Stop closes stopCh; the loop sees it between two ticks.  A later Start finds
\* the channel still closed and returns from its loop at once.
Stop ==
    /\ MayStop /\ ~stopped
    /\ stopped' = TRUE
    /\ UNCHANGED <<tables, busVars, pubVars, calls, faults>>

LoopExit ==
    /\ pub = "idle" /\ stopped
    /\ pub' = "off"
    /\ UNCHANGED <<tables, busVars, batch, next, last, stopped, calls, faults>>

-----------------------------------------------------------------------------
(* The bus and its handlers.                                               *)

\* A goroutine of Publish gets to run and calls h.Handle.
CallHandler(h, e) ==
    /\ waiting[h][e] > 0
    /\ waiting' = [waiting EXCEPT ![h][e] = @ - 1]
    /\ called' = [called EXCEPT ![h][e] = @ + 1]
    /\ UNCHANGED <<tables, busVars, pubVars, stopped, lost, faults>>

Holds(t, h) == \E i \in 1..size[t] : cells[t][i] = h

\* append(handlers[:i], handlers[i+1:]...): the handlers after h move down in
\* the array a Publish may be reading, the last cell keeps its old content.
Unsubscribe(h) ==
    /\ Cardinality(unsubs \cup {h}) <= MaxUnsubscribes
    /\ \E t \in Types : Holds(t, h)
    /\ LET At(t) == CHOOSE i \in 1..size[t] : cells[t][i] = h
           Shifted(t) == [i \in DOMAIN cells[t] |->
                            IF At(t) <= i /\ i < size[t] THEN cells[t][i + 1] ELSE cells[t][i]]
       IN  /\ cells' = [t \in Types |-> IF Holds(t, h) THEN Shifted(t) ELSE cells[t]]
           /\ size' = [t \in Types |-> IF Holds(t, h) THEN size[t] - 1 ELSE size[t]]
    /\ unsubs' = unsubs \cup {h}
    /\ raced' = IF pub = "spawn" THEN raced \cup {Head(batch)} ELSE raced
    /\ UNCHANGED <<tables, pubVars, stopped, calls, markErrors, crashes>>

\* The handler comes back: append finds room in the array it was in.
Subscribe(h) ==
    /\ h \in unsubs /\ \A t \in Types : ~Holds(t, h)
    /\ cells' = [t \in Types |->
            IF h \in Interest(t) THEN [cells[t] EXCEPT ![size[t] + 1] = h] ELSE cells[t]]
    /\ size' = [t \in Types |-> IF h \in Interest(t) THEN size[t] + 1 ELSE size[t]]
    /\ UNCHANGED <<tables, unsubs, pubVars, stopped, calls, faults>>

-----------------------------------------------------------------------------
\* The process dies and is started again: goroutines and the batch are gone, the
\* outbox is not.  A marked row is never read again.
Crash ==
    /\ FaultsSoFar < MaxFaults
    /\ crashes' = crashes + 1
    /\ pub' = "idle" /\ batch' = <<>> /\ next' = 0 /\ last' = 0 /\ stopped' = FALSE
    /\ cells' = Subscribed
    /\ size' = [t \in Types |-> Len(Subscribed[t])]
    /\ waiting' = [h \in Handlers |-> [e \in Events |-> 0]]
    /\ lost' = lost \cup {he \in Handlers \X published :
                           waiting[he[1]][he[2]] > 0 /\ called[he[1]][he[2]] = 0}
    /\ UNCHANGED <<tables, unsubs, called, markErrors, raced>>

Publisher ==
    \/ Tick \/ SkipPoison \/ Publish \/ Spawn \/ PublishReturns
    \/ MarkAsPublished \/ MarkFails \/ EndBatch

DeliveryNext ==
    \/ Publisher \/ LoopExit \/ Stop \/ Crash
    \/ \E e \in Events : Save(e)
    \/ \E h \in Handlers : Unsubscribe(h) \/ Subscribe(h) \/ \E e \in Events : CallHandler(h, e)

DeliverySpec == DeliveryInit /\ [][DeliveryNext]_deliveryVars

\* The publisher's goroutine runs and its ticker ticks.
Fairness == WF_deliveryVars(Publisher) /\ WF_deliveryVars(LoopExit)

FairSpec == DeliverySpec /\ Fairness

-----------------------------------------------------------------------------
(* Properties.                                                             *)

\* A handler that stayed subscribed has been called for every event marked as
\* published, or its goroutine is still to run, or a crash came after the mark and
\* before that goroutine: publishLoop never loses a hand-over otherwise.  And it
\* makes one, plus one per failed mark or crash, at the most.  An event whose
\* Publish was overtaken by an Unsubscribe is exempt: the shifted array makes it
\* miss a handler or call one twice.
HandedOver ==
    \A h \in Handlers, e \in Events \ raced :
        /\ e \in published /\ Interested(h, e) /\ h \notin unsubs =>
              called[h][e] + waiting[h][e] >= 1 \/ <<h, e>> \in lost
        /\ called[h][e] + waiting[h][e] <= 1 + markErrors[e] + crashes

\* An event that can be read is published in the end, past rows that cannot,
\* failed marks and crashes, as long as the publisher is not stopped and the
\* rows that cannot be read do not fill the batch.
EventsPublished ==
    Cardinality(Poison) < Limit =>
        \A e \in Events \ Poison : e \in ToSet(saved) ~> e \in published \/ stopped
==============================================================================
