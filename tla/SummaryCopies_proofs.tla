------------------------- MODULE SummaryCopies_proofs -------------------------
(***************************************************************************)
(* Theorems about the copies of a review summary, for any number of        *)
(* threads, hotels and changes of the database.                            *)
(***************************************************************************)
EXTENDS SummaryCopies, SequenceTheorems, TLAPS

Steps == {"idle", "load", "store", "publish", "invalidate",
          "fetch", "share", "keep", "keys", "del", "drop"}

\* The types the two arguments need; TypeOK's bounds are not among them.
Typed ==
    /\ row \in [Hotels -> Nat] /\ asOf \in [Hotels -> Nat] /\ wired \in BOOLEAN
    /\ cached \in [Hotels -> Nat \cup {Absent}]
    /\ shared \in [Hotels -> Nat \cup {Absent}] /\ local \in [Hotels -> Nat \cup {Absent}]
    /\ at \in [Threads -> Steps]
    /\ hotel \in [Threads -> Hotels \cup {Absent}]
    /\ seen \in [Threads -> Nat \cup {Absent}]
    /\ todo \in [Threads -> Seq(Hotels)]
    /\ excused \subseteq Copies \X Hotels

\* A thread in the middle of an operation knows the hotel it is about.
Busy ==
    \A t \in Threads :
        /\ at[t] # "idle" => hotel[t] \in Hotels
        /\ at[t] \in {"publish", "invalidate"} => todo[t] # <<>>

IInv == Typed /\ Busy /\ ServiceCopies /\ OptimizedCopies

\* The two properties, one hotel at a time.
ServiceCopy(h) ==
    Outdated(h, cached[h]) =>
        <<"cached", h>> \in excused \/ \E t \in Threads : ServicePending(t, h)
SharedCopy(h) ==
    shared[h] \notin {Absent, row[h]} =>
        <<"shared", h>> \in excused \/ \E t \in Threads : SharedPending(t, h)
LocalCopy(h) ==
    local[h] \notin {Absent, row[h]} =>
        <<"local", h>> \in excused \/ \E t \in Threads : LocalPending(t, h)

LEMMA PerHotel ==
    /\ ServiceCopies <=> \A h \in Hotels : ServiceCopy(h)
    /\ OptimizedCopies <=> \A h \in Hotels : SharedCopy(h) /\ LocalCopy(h)
BY DEF ServiceCopies, OptimizedCopies, ServiceCopy, SharedCopy, LocalCopy

LEMMA Together ==
    ASSUME Typed', Busy', \A h \in Hotels : ServiceCopy(h)' /\ SharedCopy(h)' /\ LocalCopy(h)'
    PROVE  IInv'
BY DEF IInv, ServiceCopies, OptimizedCopies, ServiceCopy, SharedCopy, LocalCopy

\* What a step of a thread does to the types of what it holds.
LEMMA ThreadTyped ==
    ASSUME Typed, Busy, NEW t \in Threads,
           \/ \E pc \in Steps \ {"publish", "invalidate"} : at[t] # "idle" /\ Goto(t, pc)
           \/ at[t] = "publish" /\ Goto(t, "invalidate")
           \/ End(t)
           \/ \E h \in Hotels, pc \in Steps, list \in Seq(Hotels) :
                Begin(t, h, pc, list) /\ (pc \in {"publish", "invalidate"} => list # <<>>)
    PROVE  /\ at' \in [Threads -> Steps] /\ hotel' \in [Threads -> Hotels \cup {Absent}]
           /\ seen' \in [Threads -> Nat \cup {Absent}] /\ todo' \in [Threads -> Seq(Hotels)]
           /\ Busy'
<1>1. CASE \E pc \in Steps \ {"publish", "invalidate"} : at[t] # "idle" /\ Goto(t, pc)
  BY <1>1 DEF Goto, Typed, Busy
<1>2. CASE at[t] = "publish" /\ Goto(t, "invalidate")
  BY <1>2 DEF Goto, Typed, Busy, Steps
<1>3. CASE End(t)
  BY <1>3 DEF End, Typed, Busy, Steps
<1>4. CASE \E h \in Hotels, pc \in Steps, list \in Seq(Hotels) :
             Begin(t, h, pc, list) /\ (pc \in {"publish", "invalidate"} => list # <<>>)
  BY <1>4 DEF Begin, Typed, Busy, Steps
<1>5. QED BY <1>1, <1>2, <1>3, <1>4

\* Other threads keep what they are about to remove.
LEMMA OthersKeep ==
    ASSUME NEW t \in Threads, Typed,
           \/ \E pc \in Steps : Goto(t, pc)
           \/ End(t)
           \/ \E h \in Hotels, pc \in Steps, list \in Seq(Hotels) : Begin(t, h, pc, list)
    PROVE  \A u \in Threads \ {t}, h \in Hotels :
             /\ ServicePending(u, h)' <=> ServicePending(u, h)
             /\ SharedPending(u, h)' <=> SharedPending(u, h)
             /\ LocalPending(u, h)' <=> LocalPending(u, h)
<1> SUFFICES ASSUME NEW u \in Threads \ {t} PROVE
      at'[u] = at[u] /\ hotel'[u] = hotel[u] /\ todo'[u] = todo[u]
  BY DEF ServicePending, SharedPending, LocalPending
<1>1. QED BY DEF Typed, Goto, End, Begin

\* Steps that move a thread on and leave the database and the copies alone.
LEMMA WalkInv ==
    ASSUME IInv, NEW t \in Threads,
           \/ \E h \in Hotels : GetReviewSummary(t, h) \/ GetOptimized(t, h)
           \/ Load(t) \/ Fetch(t) \/ (wired /\ Publish(t))
    PROVE  IInv'
<1>1. UNCHANGED <<db, copies, excused>>
  BY DEF GetReviewSummary, GetOptimized, Load, Fetch, Publish
<1>2. /\ at' \in [Threads -> Steps] /\ hotel' \in [Threads -> Hotels \cup {Absent}]
      /\ seen' \in [Threads -> Nat \cup {Absent}] /\ todo' \in [Threads -> Seq(Hotels)]
      /\ Busy'
  <2>0. {"load", "store", "fetch", "share", "keep"} \subseteq Steps \ {"publish", "invalidate"}
        /\ <<>> \in Seq(Hotels)
    BY DEF Steps
  <2>1. CASE \E h \in Hotels : GetReviewSummary(t, h)
    BY <2>1, <2>0, ThreadTyped DEF IInv, GetReviewSummary
  <2>2. CASE \E h \in Hotels : GetOptimized(t, h)
    <3>1. CASE \E h \in Hotels : Begin(t, h, "fetch", <<>>)
      BY <3>1, <2>0, ThreadTyped DEF IInv
    <3>2. CASE \E h \in Hotels :
                 /\ shared[h] # Absent /\ at[t] = "idle"
                 /\ at' = [at EXCEPT ![t] = "keep"] /\ hotel' = [hotel EXCEPT ![t] = h]
                 /\ seen' = [seen EXCEPT ![t] = shared[h]] /\ UNCHANGED todo
      BY <3>2 DEF IInv, Typed, Busy, Steps
    <3>3. QED BY <2>2, <3>1, <3>2 DEF GetOptimized
  <2>3. CASE Load(t) \/ Fetch(t)
    <3>1. CASE End(t)
      BY <3>1, ThreadTyped DEF IInv
    <3>2. CASE /\ at[t] # "idle" /\ UNCHANGED <<hotel, todo>>
               /\ \E pc \in {"store", "share"} : at' = [at EXCEPT ![t] = pc]
               /\ \E n \in Nat : seen' = [seen EXCEPT ![t] = n]
      BY <3>2 DEF IInv, Typed, Busy, Steps
    <3>3. \A h \in Hotels : row[h] \in Nat
      BY DEF IInv, Typed
    <3>4. at[t] # "idle" /\ hotel[t] \in Hotels
      BY <2>3 DEF IInv, Busy, Load, Fetch
    <3>5. QED BY <2>3, <3>1, <3>2, <3>3, <3>4 DEF Load, Fetch
  <2>4. CASE wired /\ Publish(t)
    <3>1. at[t] = "publish" /\ Goto(t, "invalidate")
      BY <2>4 DEF Publish
    <3>2. QED BY <3>1, ThreadTyped DEF IInv
  <2>5. QED BY <2>1, <2>2, <2>3, <2>4
<1>3. Typed'
  BY <1>1, <1>2 DEF IInv, Typed, db, copies
<1>4. \A u \in Threads, h \in Hotels :
        /\ ServicePending(u, h) => ServicePending(u, h)'
        /\ SharedPending(u, h) => SharedPending(u, h)'
        /\ LocalPending(u, h) => LocalPending(u, h)'
  <2> SUFFICES ASSUME NEW u \in Threads,
                      at[u] \in {"publish", "invalidate", "keys", "del", "drop"}
               PROVE  /\ at'[u] = at[u] \/ (at[u] = "publish" /\ at'[u] = "invalidate")
                      /\ hotel'[u] = hotel[u] /\ todo'[u] = todo[u]
    BY DEF ServicePending, SharedPending, LocalPending
  <2>0. /\ at \in [Threads -> Steps] /\ hotel \in [Threads -> Hotels \cup {Absent}]
        /\ seen \in [Threads -> Nat \cup {Absent}] /\ todo \in [Threads -> Seq(Hotels)]
    BY DEF IInv, Typed
  <2>1. CASE wired /\ Publish(t)
    BY <2>0, <2>1 DEF Publish, Goto
  <2>2. CASE \E h \in Hotels : GetReviewSummary(t, h) \/ GetOptimized(t, h)
    BY <2>0, <2>2 DEF GetReviewSummary, GetOptimized, Begin, thread
  <2>3. CASE Load(t) \/ Fetch(t)
    BY <2>0, <2>3 DEF Load, Fetch, End
  <2>4. QED BY <2>1, <2>2, <2>3
<1>5. \A h \in Hotels : ServiceCopy(h)' /\ SharedCopy(h)' /\ LocalCopy(h)'
  BY <1>1, <1>4, PerHotel DEF IInv, ServiceCopy, Outdated, SharedCopy, LocalCopy, db, copies
<1>6. QED
  BY <1>2, <1>3, <1>5, Together

\* A commit may make the service's copies of its hotels outdated, and its thread
\* owes the invalidation of just these hotels.
LEMMA CommitInv ==
    ASSUME IInv, NEW t \in Threads, NEW h0 \in Hotels,
           \/ CreateReview(t, h0) \/ DeleteReview(t, h0) \/ DeleteHotel(t, h0)
           \/ \E new \in Hotels : UpdateReview(t, h0, new)
    PROVE  IInv'
<1>1. PICK pc \in {"publish", "invalidate"}, list \in Seq(Hotels) :
        /\ Begin(t, h0, pc, list) /\ list # <<>>
        /\ asOf' \in [Hotels -> Nat]
        /\ \A h \in Hotels \ ToSet(list) : asOf'[h] = asOf[h]
  <2>0. asOf \in [Hotels -> Nat] /\ \A h \in Hotels : row[h] \in Nat
    BY DEF IInv, Typed
  <2>1. \A h \in Hotels : /\ <<h>> \in Seq(Hotels) /\ <<h>> # <<>> /\ h \in ToSet(<<h>>)
                        /\ <<h0, h>> \in Seq(Hotels) /\ <<h0, h>> # <<>>
                        /\ h0 \in ToSet(<<h0, h>>) /\ h \in ToSet(<<h0, h>>)
    <3> SUFFICES ASSUME NEW h \in Hotels
                 PROVE  /\ <<h>> \in Seq(Hotels) /\ <<h>> # <<>> /\ h \in ToSet(<<h>>)
                        /\ <<h0, h>> \in Seq(Hotels) /\ <<h0, h>> # <<>>
                        /\ h0 \in ToSet(<<h0, h>>) /\ h \in ToSet(<<h0, h>>)
      OBVIOUS
    <3>1. /\ 1 \in DOMAIN <<h>> /\ <<h>>[1] = h
          /\ 1 \in DOMAIN <<h0, h>> /\ <<h0, h>>[1] = h0
          /\ 2 \in DOMAIN <<h0, h>> /\ <<h0, h>>[2] = h
      OBVIOUS
    <3>2. QED BY <3>1 DEF ToSet
  <2>2. CASE CreateReview(t, h0) \/ DeleteReview(t, h0) \/ DeleteHotel(t, h0)
    <3>1. PICK pc \in {"publish", "invalidate"} : Begin(t, h0, pc, <<h0>>)
      BY <2>2 DEF CreateReview, DeleteReview, DeleteHotel
    <3>2. asOf' = [asOf EXCEPT ![h0] = row[h0]]
      BY <2>2 DEF CreateReview, DeleteReview, DeleteHotel
    <3>3. asOf' \in [Hotels -> Nat] /\ \A h \in Hotels \ ToSet(<<h0>>) : asOf'[h] = asOf[h]
      BY <2>0, <2>1, <3>2
    <3>4. QED BY <2>1, <3>1, <3>3
  <2>3. CASE \E new \in Hotels : UpdateReview(t, h0, new)
    <3>1. PICK new \in Hotels : UpdateReview(t, h0, new)
      BY <2>3
    <3>2. asOf' = [asOf EXCEPT ![h0] = row[h0], ![new] = row[new]]
      BY <3>1 DEF UpdateReview
    <3>3. asOf' \in [Hotels -> Nat] /\ \A h \in Hotels \ {h0, new} : asOf'[h] = asOf[h]
      BY <2>0, <3>2
    <3>4. CASE h0 # new
      <4>1. Begin(t, h0, "publish", <<h0, new>>)
        BY <3>1, <3>4 DEF UpdateReview
      <4>2. \A h \in Hotels \ ToSet(<<h0, new>>) : asOf'[h] = asOf[h]
        BY <2>1, <3>3
      <4>3. QED BY <2>1, <3>3, <4>1, <4>2
    <3>5. CASE h0 = new
      <4>1. Begin(t, h0, "publish", <<h0>>)
        BY <3>1, <3>5 DEF UpdateReview
      <4>2. \A h \in Hotels \ ToSet(<<h0>>) : asOf'[h] = asOf[h]
        BY <2>1, <3>3, <3>5
      <4>3. QED BY <2>1, <3>3, <4>1, <4>2
    <3>6. QED BY <3>4, <3>5
  <2>4. QED BY <2>2, <2>3
<1>2. UNCHANGED <<row, wired, copies, excused>>
  BY DEF CreateReview, DeleteReview, DeleteHotel, UpdateReview
<1>3. pc \in Steps
  BY DEF Steps
<1>4. Typed' /\ Busy'
  <2>1. /\ at' \in [Threads -> Steps] /\ hotel' \in [Threads -> Hotels \cup {Absent}]
        /\ seen' \in [Threads -> Nat \cup {Absent}] /\ todo' \in [Threads -> Seq(Hotels)]
        /\ Busy'
    BY <1>1, <1>3, ThreadTyped DEF IInv
  <2>2. QED BY <1>1, <1>2, <2>1 DEF IInv, Typed, copies
<1>5. \A u \in Threads \ {t}, h \in Hotels :
        /\ ServicePending(u, h)' <=> ServicePending(u, h)
        /\ SharedPending(u, h)' <=> SharedPending(u, h)
        /\ LocalPending(u, h)' <=> LocalPending(u, h)
  BY <1>1, <1>3, OthersKeep DEF IInv
<1>6. at[t] = "idle"
  BY <1>1 DEF Begin
<1>7. \A h \in Hotels : ~ServicePending(t, h) /\ ~SharedPending(t, h) /\ ~LocalPending(t, h)
  BY <1>6 DEF ServicePending, SharedPending, LocalPending
<1>8. \A h \in ToSet(list) : ServicePending(t, h)'
  BY <1>1 DEF Begin, ServicePending, IInv, Typed
<1>9. \A h \in Hotels : ServiceCopy(h)' /\ SharedCopy(h)' /\ LocalCopy(h)'
  <2> SUFFICES ASSUME NEW h \in Hotels PROVE ServiceCopy(h)' /\ SharedCopy(h)' /\ LocalCopy(h)'
    OBVIOUS
  <2>1. ServiceCopy(h) /\ SharedCopy(h) /\ LocalCopy(h)
    BY PerHotel DEF IInv
  <2>2. SharedCopy(h)' /\ LocalCopy(h)'
    BY <1>2, <1>5, <1>7, <2>1 DEF SharedCopy, LocalCopy, copies
  <2>3. ServiceCopy(h)'
    <3>1. CASE h \in ToSet(list)
      BY <1>8, <3>1 DEF ServiceCopy
    <3>2. CASE h \notin ToSet(list)
      <4>1. Outdated(h, cached[h])' <=> Outdated(h, cached[h])
        BY <1>1, <1>2, <3>2 DEF Outdated, copies
      <4>2. QED BY <1>2, <1>5, <1>7, <2>1, <4>1 DEF ServiceCopy
    <3>3. QED BY <3>1, <3>2
  <2>4. QED BY <2>2, <2>3
<1>10. QED
  BY <1>4, <1>9, Together

\* An update of the row makes both copies of its hotel stale; its thread owes the
\* invalidation of both.
LEMMA UpdateSummaryInv ==
    ASSUME IInv, NEW t \in Threads, NEW h0 \in Hotels, UpdateSummary(t, h0)
    PROVE  IInv'
<1>1. Begin(t, h0, "keys", <<>>) /\ row' = [row EXCEPT ![h0] = @ + 1]
      /\ UNCHANGED <<asOf, wired, copies, excused>>
  BY DEF UpdateSummary
<1>2. "keys" \in Steps /\ <<>> \in Seq(Hotels)
  BY DEF Steps
<1>3. Typed' /\ Busy'
  <2>1. row' \in [Hotels -> Nat]
    BY <1>1 DEF IInv, Typed
  <2>2. /\ at' \in [Threads -> Steps] /\ hotel' \in [Threads -> Hotels \cup {Absent}]
        /\ seen' \in [Threads -> Nat \cup {Absent}] /\ todo' \in [Threads -> Seq(Hotels)]
        /\ Busy'
    BY <1>1, <1>2, ThreadTyped DEF IInv
  <2>3. QED BY <1>1, <2>1, <2>2 DEF IInv, Typed, copies
<1>4. \A u \in Threads \ {t}, h \in Hotels :
        /\ ServicePending(u, h)' <=> ServicePending(u, h)
        /\ SharedPending(u, h)' <=> SharedPending(u, h)
        /\ LocalPending(u, h)' <=> LocalPending(u, h)
  BY <1>1, <1>2, OthersKeep DEF IInv
<1>5. \A h \in Hotels : ~ServicePending(t, h) /\ ~SharedPending(t, h) /\ ~LocalPending(t, h)
  BY <1>1 DEF Begin, ServicePending, SharedPending, LocalPending
<1>6. SharedPending(t, h0)' /\ LocalPending(t, h0)'
  BY <1>1 DEF Begin, SharedPending, LocalPending, IInv, Typed
<1>7. \A h \in Hotels : ServiceCopy(h)' /\ SharedCopy(h)' /\ LocalCopy(h)'
  <2> SUFFICES ASSUME NEW h \in Hotels PROVE ServiceCopy(h)' /\ SharedCopy(h)' /\ LocalCopy(h)'
    OBVIOUS
  <2>1. ServiceCopy(h) /\ SharedCopy(h) /\ LocalCopy(h)
    BY PerHotel DEF IInv
  <2>2. ServiceCopy(h)'
    BY <1>1, <1>4, <1>5, <2>1 DEF ServiceCopy, Outdated, copies
  <2>3. CASE h = h0
    BY <1>6, <2>2, <2>3 DEF SharedCopy, LocalCopy
  <2>4. CASE h # h0
    BY <1>1, <1>4, <1>5, <2>1, <2>2, <2>4 DEF SharedCopy, LocalCopy, copies, IInv, Typed
  <2>5. QED BY <2>3, <2>4
<1>8. QED
  BY <1>3, <1>7, Together

\* What every step that writes or drops a copy has to show.
LEMMA CopyStep ==
    ASSUME IInv, NEW t \in Threads, UNCHANGED db,
           cached' \in [Hotels -> Nat \cup {Absent}],
           shared' \in [Hotels -> Nat \cup {Absent}], local' \in [Hotels -> Nat \cup {Absent}],
           excused' \subseteq Copies \X Hotels,
           End(t) \/ \E pc \in Steps \ {"publish", "invalidate"} : at[t] # "idle" /\ Goto(t, pc),
           \A h \in Hotels : ServiceCopy(h)' /\ SharedCopy(h)' /\ LocalCopy(h)'
    PROVE  IInv'
<1>1. /\ at' \in [Threads -> Steps] /\ hotel' \in [Threads -> Hotels \cup {Absent}]
      /\ seen' \in [Threads -> Nat \cup {Absent}] /\ todo' \in [Threads -> Seq(Hotels)]
      /\ Busy'
  BY ThreadTyped DEF IInv
<1>2. Typed'
  BY <1>1 DEF IInv, Typed, db
<1>3. QED BY <1>1, <1>2, Together

LEMMA Excuses ==
    ASSUME NEW copy \in Copies, NEW h \in Hotels, NEW stale \in BOOLEAN, Typed,
           Excuse(copy, h, stale)
    PROVE  /\ excused' \subseteq Copies \X Hotels
           /\ stale => <<copy, h>> \in excused'
           /\ \A c \in Copies, g \in Hotels :
                 (c # copy \/ g # h) /\ <<c, g>> \in excused => <<c, g>> \in excused'
BY DEF Excuse, Typed

LEMMA Leaves ==
    ASSUME NEW h \in Hotels, Typed, Leave(h)
    PROVE  /\ excused' \subseteq Copies \X Hotels /\ excused \subseteq excused'
           /\ shared[h] \notin {Absent, row[h]} => <<"shared", h>> \in excused'
           /\ local[h] \notin {Absent, row[h]} => <<"local", h>> \in excused'
BY DEF Leave, Typed, Copies

\* A nil publisher's panic leaves excuses behind for the copies it does not remove.
LEMMA PanicInv == ASSUME IInv, NEW t \in Threads, ~wired, Publish(t) PROVE IInv'
<1>1. /\ at[t] = "publish" /\ End(t) /\ UNCHANGED <<db, copies>>
      /\ excused' = excused \cup {<<"cached", h>> : h \in
                        {g \in ToSet(todo[t]) : Outdated(g, cached[g])}}
  BY DEF Publish
<1>2. ToSet(todo[t]) \subseteq Hotels
  <2>1. todo[t] \in Seq(Hotels)
    BY DEF IInv, Typed
  <2>2. QED BY <2>1 DEF ToSet
<1>3. excused \subseteq excused' /\ excused' \subseteq Copies \X Hotels
  BY <1>1, <1>2 DEF IInv, Typed, Copies
<1>4. \A u \in Threads \ {t}, h \in Hotels :
        /\ ServicePending(u, h)' <=> ServicePending(u, h)
        /\ SharedPending(u, h)' <=> SharedPending(u, h)
        /\ LocalPending(u, h)' <=> LocalPending(u, h)
  BY <1>1, OthersKeep DEF IInv
<1>5. \A h \in Hotels : ~SharedPending(t, h) /\ ~LocalPending(t, h)
  BY <1>1 DEF SharedPending, LocalPending
<1>6. \A h \in Hotels : ServiceCopy(h) /\ SharedCopy(h) /\ LocalCopy(h)
  BY PerHotel DEF IInv
<1>7. \A h \in Hotels : SharedCopy(h)' /\ LocalCopy(h)'
  BY <1>1, <1>3, <1>4, <1>5, <1>6 DEF SharedCopy, LocalCopy, db, copies
<1>8. ASSUME NEW h \in Hotels PROVE ServiceCopy(h)'
  <2>1. Outdated(h, cached[h])' <=> Outdated(h, cached[h])
    BY <1>1 DEF Outdated, db, copies
  <2>2. CASE Outdated(h, cached[h]) /\ ServicePending(t, h)
    <3>1. h \in ToSet(todo[t])
      BY <2>2 DEF ServicePending
    <3>2. <<"cached", h>> \in excused'
      BY <1>1, <2>2, <3>1
    <3>3. QED BY <3>2 DEF ServiceCopy
  <2>3. CASE ~Outdated(h, cached[h]) \/ ~ServicePending(t, h)
    BY <1>3, <1>4, <1>6, <2>1, <2>3 DEF ServiceCopy
  <2>4. QED BY <2>2, <2>3
<1>9. QED
  BY <1>1, <1>3, <1>7, <1>8, CopyStep DEF IInv, Typed, copies

LEMMA StoreInv == ASSUME IInv, NEW t \in Threads, Store(t) PROVE IInv'
<1>0. PICK h0 \in Hotels : h0 = hotel[t]
  BY DEF Store, IInv, Busy
<1>1. /\ at[t] = "store" /\ End(t) /\ UNCHANGED <<db, shared, local>>
      /\ "cached" \in Copies /\ "shared" \in Copies /\ "local" \in Copies
  BY DEF Store, Copies
<1>2. \A u \in Threads, h \in Hotels :
        /\ ServicePending(u, h) => ServicePending(u, h)'
        /\ SharedPending(u, h) => SharedPending(u, h)'
        /\ LocalPending(u, h) => LocalPending(u, h)'
  BY <1>1, OthersKeep DEF IInv, ServicePending, SharedPending, LocalPending
<1>3. \A h \in Hotels : ServiceCopy(h) /\ SharedCopy(h) /\ LocalCopy(h)
  BY PerHotel DEF IInv
<1>4. CASE UNCHANGED <<cached, excused>>
  <2>1. \A h \in Hotels : ServiceCopy(h)' /\ SharedCopy(h)' /\ LocalCopy(h)'
    BY <1>1, <1>2, <1>3, <1>4 DEF ServiceCopy, Outdated, SharedCopy, LocalCopy, db
  <2>2. QED BY <1>1, <1>4, <2>1, CopyStep DEF IInv, Typed
<1>5. CASE /\ cached' = [cached EXCEPT ![h0] = seen[t]]
           /\ Excuse("cached", h0, Outdated(h0, seen[t]) /\ \A u \in Threads : ~ServicePending(u, h0))
  <2> DEFINE stale == Outdated(h0, seen[t]) /\ \A u \in Threads : ~ServicePending(u, h0)
  <2>1. /\ excused' \subseteq Copies \X Hotels
        /\ stale => <<"cached", h0>> \in excused'
        /\ \A c \in Copies, g \in Hotels :
              (c # "cached" \/ g # h0) /\ <<c, g>> \in excused => <<c, g>> \in excused'
    <3>1. stale \in BOOLEAN /\ Excuse("cached", h0, stale) /\ Typed
      BY <1>5 DEF IInv
    <3> HIDE DEF stale
    <3>2. QED BY <1>1, <3>1, Excuses
  <2>2. cached' \in [Hotels -> Nat \cup {Absent}] /\ \A h \in Hotels \ {h0} : cached'[h] = cached[h]
    BY <1>5 DEF IInv, Typed
  <2>3. cached'[h0] = seen[t]
    BY <1>1, <1>5 DEF IInv, Typed
  <2>4. ServiceCopy(h0)'
    BY <1>1, <1>2, <2>1, <2>3 DEF ServiceCopy, Outdated, db
  <2>5. \A h \in Hotels \ {h0} : ServiceCopy(h)'
    BY <1>1, <1>2, <1>3, <2>1, <2>2 DEF ServiceCopy, Outdated, db
  <2>6. \A h \in Hotels : SharedCopy(h)' /\ LocalCopy(h)'
    BY <1>1, <1>2, <1>3, <2>1 DEF SharedCopy, LocalCopy, db
  <2>7. /\ shared' \in [Hotels -> Nat \cup {Absent}] /\ local' \in [Hotels -> Nat \cup {Absent}]
        /\ UNCHANGED db
    BY <1>1 DEF IInv, Typed
  <2>8. \A h \in Hotels : ServiceCopy(h)' /\ SharedCopy(h)' /\ LocalCopy(h)'
    BY <2>4, <2>5, <2>6
  <2>9. QED BY <1>1, <2>1, <2>2, <2>7, <2>8, CopyStep
<1>6. QED BY <1>0, <1>4, <1>5 DEF Store

LEMMA ShareInv == ASSUME IInv, NEW t \in Threads, Share(t) PROVE IInv'
<1>0. PICK h0 \in Hotels : h0 = hotel[t]
  BY DEF Share, IInv, Busy
<1>1. /\ at[t] = "share" /\ UNCHANGED <<db, cached, local>>
      /\ (End(t) \/ Goto(t, "keep")) /\ "keep" \in Steps \ {"publish", "invalidate"}
      /\ "cached" \in Copies /\ "shared" \in Copies /\ "local" \in Copies
  BY DEF Share, Copies, Steps
<1>2. \A u \in Threads, h \in Hotels :
        /\ ServicePending(u, h) => ServicePending(u, h)'
        /\ SharedPending(u, h) => SharedPending(u, h)'
        /\ LocalPending(u, h) => LocalPending(u, h)'
  BY <1>1, OthersKeep DEF IInv, ServicePending, SharedPending, LocalPending
<1>3. \A h \in Hotels : ServiceCopy(h) /\ SharedCopy(h) /\ LocalCopy(h)
  BY PerHotel DEF IInv
<1>4. CASE UNCHANGED <<shared, excused>>
  <2>1. \A h \in Hotels : ServiceCopy(h)' /\ SharedCopy(h)' /\ LocalCopy(h)'
    BY <1>1, <1>2, <1>3, <1>4 DEF ServiceCopy, Outdated, SharedCopy, LocalCopy, db
  <2>2. QED BY <1>1, <1>4, <2>1, CopyStep DEF IInv, Typed
<1>5. CASE /\ shared' = [shared EXCEPT ![h0] = seen[t]]
           /\ Excuse("shared", h0, seen[t] # row[h0] /\ \A u \in Threads : ~SharedPending(u, h0))
  <2> DEFINE stale == seen[t] # row[h0] /\ \A u \in Threads : ~SharedPending(u, h0)
  <2>1. /\ excused' \subseteq Copies \X Hotels
        /\ stale => <<"shared", h0>> \in excused'
        /\ \A c \in Copies, g \in Hotels :
              (c # "shared" \/ g # h0) /\ <<c, g>> \in excused => <<c, g>> \in excused'
    <3>1. stale \in BOOLEAN /\ Excuse("shared", h0, stale) /\ Typed
      BY <1>5 DEF IInv
    <3> HIDE DEF stale
    <3>2. QED BY <1>1, <3>1, Excuses
  <2>2. shared' \in [Hotels -> Nat \cup {Absent}] /\ \A h \in Hotels \ {h0} : shared'[h] = shared[h]
    BY <1>5 DEF IInv, Typed
  <2>3. shared'[h0] = seen[t]
    BY <1>1, <1>5 DEF IInv, Typed
  <2>4. SharedCopy(h0)'
    BY <1>1, <1>2, <2>1, <2>3 DEF SharedCopy, db
  <2>5. \A h \in Hotels \ {h0} : SharedCopy(h)'
    BY <1>1, <1>2, <1>3, <2>1, <2>2 DEF SharedCopy, db
  <2>6. \A h \in Hotels : ServiceCopy(h)' /\ LocalCopy(h)'
    BY <1>1, <1>2, <1>3, <2>1 DEF ServiceCopy, Outdated, LocalCopy, db
  <2>7. /\ cached' \in [Hotels -> Nat \cup {Absent}] /\ local' \in [Hotels -> Nat \cup {Absent}]
        /\ UNCHANGED db
    BY <1>1 DEF IInv, Typed
  <2>8. \A h \in Hotels : ServiceCopy(h)' /\ SharedCopy(h)' /\ LocalCopy(h)'
    BY <2>4, <2>5, <2>6
  <2>9. QED BY <1>1, <2>1, <2>2, <2>7, <2>8, CopyStep
<1>6. QED BY <1>0, <1>4, <1>5 DEF Share

LEMMA KeepInv == ASSUME IInv, NEW t \in Threads, Keep(t) PROVE IInv'
<1>0. PICK h0 \in Hotels : h0 = hotel[t]
  BY DEF Keep, IInv, Busy
<1>1. /\ at[t] = "keep" /\ UNCHANGED <<db, cached, shared>>
      /\ End(t)
      /\ "cached" \in Copies /\ "shared" \in Copies /\ "local" \in Copies
  BY DEF Keep, Copies, Steps
<1>2. \A u \in Threads, h \in Hotels :
        /\ ServicePending(u, h) => ServicePending(u, h)'
        /\ SharedPending(u, h) => SharedPending(u, h)'
        /\ LocalPending(u, h) => LocalPending(u, h)'
  BY <1>1, OthersKeep DEF IInv, ServicePending, SharedPending, LocalPending
<1>3. \A h \in Hotels : ServiceCopy(h) /\ SharedCopy(h) /\ LocalCopy(h)
  BY PerHotel DEF IInv
<1>4. CASE UNCHANGED <<local, excused>>
  <2>1. \A h \in Hotels : ServiceCopy(h)' /\ SharedCopy(h)' /\ LocalCopy(h)'
    BY <1>1, <1>2, <1>3, <1>4 DEF ServiceCopy, Outdated, SharedCopy, LocalCopy, db
  <2>2. QED BY <1>1, <1>4, <2>1, CopyStep DEF IInv, Typed
<1>5. CASE /\ local' = [local EXCEPT ![h0] = seen[t]]
           /\ Excuse("local", h0, seen[t] # row[h0] /\ \A u \in Threads : ~LocalPending(u, h0))
  <2> DEFINE stale == seen[t] # row[h0] /\ \A u \in Threads : ~LocalPending(u, h0)
  <2>1. /\ excused' \subseteq Copies \X Hotels
        /\ stale => <<"local", h0>> \in excused'
        /\ \A c \in Copies, g \in Hotels :
              (c # "local" \/ g # h0) /\ <<c, g>> \in excused => <<c, g>> \in excused'
    <3>1. stale \in BOOLEAN /\ Excuse("local", h0, stale) /\ Typed
      BY <1>5 DEF IInv
    <3> HIDE DEF stale
    <3>2. QED BY <1>1, <3>1, Excuses
  <2>2. local' \in [Hotels -> Nat \cup {Absent}] /\ \A h \in Hotels \ {h0} : local'[h] = local[h]
    BY <1>5 DEF IInv, Typed
  <2>3. local'[h0] = seen[t]
    BY <1>1, <1>5 DEF IInv, Typed
  <2>4. LocalCopy(h0)'
    BY <1>1, <1>2, <2>1, <2>3 DEF LocalCopy, db
  <2>5. \A h \in Hotels \ {h0} : LocalCopy(h)'
    BY <1>1, <1>2, <1>3, <2>1, <2>2 DEF LocalCopy, db
  <2>6. \A h \in Hotels : ServiceCopy(h)' /\ SharedCopy(h)'
    BY <1>1, <1>2, <1>3, <2>1 DEF ServiceCopy, Outdated, SharedCopy, db
  <2>7. /\ cached' \in [Hotels -> Nat \cup {Absent}] /\ shared' \in [Hotels -> Nat \cup {Absent}]
        /\ UNCHANGED db
    BY <1>1 DEF IInv, Typed
  <2>8. \A h \in Hotels : ServiceCopy(h)' /\ SharedCopy(h)' /\ LocalCopy(h)'
    BY <2>4, <2>5, <2>6
  <2>9. QED BY <1>1, <2>1, <2>2, <2>7, <2>8, CopyStep
<1>6. QED BY <1>0, <1>4, <1>5 DEF Keep


\* An invalidation that stops half way leaves excuses behind for what is stale.
LEMMA KeysInv == ASSUME IInv, NEW t \in Threads, Keys(t) PROVE IInv'
<1>0. PICK h0 \in Hotels : h0 = hotel[t]
  BY DEF Keys, IInv, Busy
<1>1. /\ at[t] = "keys" /\ UNCHANGED <<db, copies>>
      /\ "del" \in Steps \ {"publish", "invalidate"}
      /\ \/ Goto(t, "del") /\ UNCHANGED excused
         \/ End(t) /\ Leave(h0)
  BY <1>0 DEF Keys, Steps
<1>2. \A u \in Threads \ {t}, h \in Hotels :
        /\ ServicePending(u, h)' <=> ServicePending(u, h)
        /\ SharedPending(u, h)' <=> SharedPending(u, h)
        /\ LocalPending(u, h)' <=> LocalPending(u, h)
  <2>1. (\E pc \in Steps : Goto(t, pc)) \/ End(t)
    BY <1>1
  <2>2. QED BY <2>1, OthersKeep DEF IInv
<1>3. \A h \in Hotels : ServiceCopy(h) /\ SharedCopy(h) /\ LocalCopy(h)
  BY PerHotel DEF IInv
<1>4. \A h \in Hotels \ {h0} : ~SharedPending(t, h) /\ ~LocalPending(t, h)
  BY <1>0 DEF SharedPending, LocalPending
<1>5. \A h \in Hotels : ~ServicePending(t, h)
  BY <1>1 DEF ServicePending
<1>6. CASE Goto(t, "del") /\ UNCHANGED excused
  <2>1. SharedPending(t, h0)' /\ LocalPending(t, h0)'
    BY <1>0, <1>6 DEF Goto, SharedPending, LocalPending, IInv, Typed
  <2>2. \A h \in Hotels : ServiceCopy(h)'
    BY <1>1, <1>2, <1>3, <1>5, <1>6 DEF ServiceCopy, Outdated, db, copies
  <2>3. SharedCopy(h0)' /\ LocalCopy(h0)'
    BY <2>1 DEF SharedCopy, LocalCopy
  <2>4. \A h \in Hotels \ {h0} : SharedCopy(h)' /\ LocalCopy(h)'
    BY <1>1, <1>2, <1>3, <1>4, <1>6 DEF SharedCopy, LocalCopy, db, copies
  <2>5. \A h \in Hotels : ServiceCopy(h)' /\ SharedCopy(h)' /\ LocalCopy(h)'
    BY <2>2, <2>3, <2>4
  <2>6. QED BY <1>1, <1>6, <2>5, CopyStep DEF IInv, Typed, copies
<1>7. CASE End(t) /\ Leave(h0)
  <2>1. /\ excused' \subseteq Copies \X Hotels /\ excused \subseteq excused'
        /\ shared[h0] \notin {Absent, row[h0]} => <<"shared", h0>> \in excused'
        /\ local[h0] \notin {Absent, row[h0]} => <<"local", h0>> \in excused'
    BY <1>7, Leaves DEF IInv
  <2>2. \A h \in Hotels : ServiceCopy(h)'
    BY <1>1, <1>2, <1>3, <1>5, <2>1 DEF ServiceCopy, Outdated, db, copies
  <2>3. SharedCopy(h0)' /\ LocalCopy(h0)'
    BY <1>1, <2>1 DEF SharedCopy, LocalCopy, db, copies
  <2>4. \A h \in Hotels \ {h0} : SharedCopy(h)' /\ LocalCopy(h)'
    BY <1>1, <1>2, <1>3, <1>4, <2>1 DEF SharedCopy, LocalCopy, db, copies
  <2>5. \A h \in Hotels : ServiceCopy(h)' /\ SharedCopy(h)' /\ LocalCopy(h)'
    BY <2>2, <2>3, <2>4
  <2>6. QED BY <1>1, <1>7, <2>1, <2>5, CopyStep DEF IInv, Typed, copies
<1>8. QED BY <1>1, <1>6, <1>7

LEMMA DelInv == ASSUME IInv, NEW t \in Threads, Del(t) PROVE IInv'
<1>0. PICK h0 \in Hotels : h0 = hotel[t]
  BY DEF Del, IInv, Busy
<1>1. /\ at[t] = "del" /\ UNCHANGED <<db, cached, local>>
      /\ "drop" \in Steps \ {"publish", "invalidate"}
      /\ \/ Goto(t, "drop") /\ shared' = [shared EXCEPT ![h0] = Absent] /\ Excuse("shared", h0, FALSE)
         \/ End(t) /\ UNCHANGED shared /\ Leave(h0)
      /\ "cached" \in Copies /\ "shared" \in Copies /\ "local" \in Copies
  BY <1>0 DEF Del, Steps, Copies
<1>2. \A u \in Threads \ {t}, h \in Hotels :
        /\ ServicePending(u, h)' <=> ServicePending(u, h)
        /\ SharedPending(u, h)' <=> SharedPending(u, h)
        /\ LocalPending(u, h)' <=> LocalPending(u, h)
  <2>1. (\E pc \in Steps : Goto(t, pc)) \/ End(t)
    BY <1>1
  <2>2. QED BY <2>1, OthersKeep DEF IInv
<1>3. \A h \in Hotels : ServiceCopy(h) /\ SharedCopy(h) /\ LocalCopy(h)
  BY PerHotel DEF IInv
<1>4. \A h \in Hotels \ {h0} : ~SharedPending(t, h) /\ ~LocalPending(t, h)
  BY <1>0 DEF SharedPending, LocalPending
<1>5. \A h \in Hotels : ~ServicePending(t, h)
  BY <1>1 DEF ServicePending
<1>6. CASE Goto(t, "drop") /\ shared' = [shared EXCEPT ![h0] = Absent] /\ Excuse("shared", h0, FALSE)
  <2>1. LocalPending(t, h0)'
    BY <1>0, <1>6 DEF Goto, LocalPending, IInv, Typed
  <2>2. /\ excused' \subseteq Copies \X Hotels
        /\ \A c \in Copies, g \in Hotels :
              (c # "shared" \/ g # h0) /\ <<c, g>> \in excused => <<c, g>> \in excused'
    BY <1>1, <1>6, Excuses DEF IInv
  <2>3. /\ shared' \in [Hotels -> Nat \cup {Absent}] /\ shared'[h0] = Absent
        /\ \A h \in Hotels \ {h0} : shared'[h] = shared[h]
    BY <1>6 DEF IInv, Typed
  <2>4. \A h \in Hotels : ServiceCopy(h)'
    BY <1>1, <1>2, <1>3, <1>5, <2>2 DEF ServiceCopy, Outdated, db
  <2>5. SharedCopy(h0)' /\ LocalCopy(h0)'
    BY <2>1, <2>3 DEF SharedCopy, LocalCopy
  <2>6. \A h \in Hotels \ {h0} : SharedCopy(h)' /\ LocalCopy(h)'
    BY <1>1, <1>2, <1>3, <1>4, <2>2, <2>3 DEF SharedCopy, LocalCopy, db
  <2>7. \A h \in Hotels : ServiceCopy(h)' /\ SharedCopy(h)' /\ LocalCopy(h)'
    BY <2>4, <2>5, <2>6
  <2>8. cached' \in [Hotels -> Nat \cup {Absent}] /\ local' \in [Hotels -> Nat \cup {Absent}]
    BY <1>1 DEF IInv, Typed
  <2>9. QED BY <1>1, <1>6, <2>2, <2>3, <2>7, <2>8, CopyStep
<1>7. CASE End(t) /\ UNCHANGED shared /\ Leave(h0)
  <2>1. /\ excused' \subseteq Copies \X Hotels /\ excused \subseteq excused'
        /\ shared[h0] \notin {Absent, row[h0]} => <<"shared", h0>> \in excused'
        /\ local[h0] \notin {Absent, row[h0]} => <<"local", h0>> \in excused'
    BY <1>7, Leaves DEF IInv
  <2>2. \A h \in Hotels : ServiceCopy(h)'
    BY <1>1, <1>2, <1>3, <1>5, <2>1 DEF ServiceCopy, Outdated, db
  <2>3. SharedCopy(h0)' /\ LocalCopy(h0)'
    BY <1>1, <1>7, <2>1 DEF SharedCopy, LocalCopy, db
  <2>4. \A h \in Hotels \ {h0} : SharedCopy(h)' /\ LocalCopy(h)'
    BY <1>1, <1>2, <1>3, <1>4, <1>7, <2>1 DEF SharedCopy, LocalCopy, db
  <2>5. \A h \in Hotels : ServiceCopy(h)' /\ SharedCopy(h)' /\ LocalCopy(h)'
    BY <2>2, <2>3, <2>4
  <2>6. QED BY <1>1, <1>7, <2>1, <2>5, CopyStep DEF IInv, Typed
<1>8. QED BY <1>1, <1>6, <1>7

LEMMA DropInv == ASSUME IInv, NEW t \in Threads, Drop(t) PROVE IInv'
<1>0. PICK h0 \in Hotels : h0 = hotel[t]
  BY DEF Drop, IInv, Busy
<1>1. /\ at[t] = "drop" /\ UNCHANGED <<db, cached, shared>> /\ End(t)
      /\ local' = [local EXCEPT ![h0] = Absent] /\ Excuse("local", h0, FALSE)
      /\ "cached" \in Copies /\ "shared" \in Copies /\ "local" \in Copies
  BY <1>0 DEF Drop, Copies
<1>2. \A u \in Threads \ {t}, h \in Hotels :
        /\ ServicePending(u, h)' <=> ServicePending(u, h)
        /\ SharedPending(u, h)' <=> SharedPending(u, h)
        /\ LocalPending(u, h)' <=> LocalPending(u, h)
  BY <1>1, OthersKeep DEF IInv
<1>3. \A h \in Hotels : ServiceCopy(h) /\ SharedCopy(h) /\ LocalCopy(h)
  BY PerHotel DEF IInv
<1>4. /\ \A h \in Hotels \ {h0} : ~LocalPending(t, h)
      /\ \A h \in Hotels : ~ServicePending(t, h) /\ ~SharedPending(t, h)
  BY <1>0, <1>1 DEF ServicePending, SharedPending, LocalPending
<1>5. /\ excused' \subseteq Copies \X Hotels
      /\ \A c \in Copies, g \in Hotels :
            (c # "local" \/ g # h0) /\ <<c, g>> \in excused => <<c, g>> \in excused'
  BY <1>1, Excuses DEF IInv
<1>6. /\ local' \in [Hotels -> Nat \cup {Absent}] /\ local'[h0] = Absent
      /\ \A h \in Hotels \ {h0} : local'[h] = local[h]
  BY <1>1 DEF IInv, Typed
<1>7. \A h \in Hotels : ServiceCopy(h)' /\ SharedCopy(h)'
  BY <1>1, <1>2, <1>3, <1>4, <1>5 DEF ServiceCopy, Outdated, SharedCopy, db
<1>8. LocalCopy(h0)'
  BY <1>6 DEF LocalCopy
<1>9. \A h \in Hotels \ {h0} : LocalCopy(h)'
  BY <1>1, <1>2, <1>3, <1>4, <1>5, <1>6 DEF LocalCopy, db
<1>10. \A h \in Hotels : ServiceCopy(h)' /\ SharedCopy(h)' /\ LocalCopy(h)'
  BY <1>7, <1>8, <1>9
<1>11. cached' \in [Hotels -> Nat \cup {Absent}] /\ shared' \in [Hotels -> Nat \cup {Absent}]
  BY <1>1 DEF IInv, Typed
<1>12. QED BY <1>1, <1>5, <1>6, <1>10, <1>11, CopyStep

\* An invalidation of the service removes the copy of the first hotel of its list,
\* or leaves an excuse; the rest of the list is still owed.
LEMMA InvalidateInv == ASSUME IInv, NEW t \in Threads, Invalidate(t) PROVE IInv'
<1>0. PICK h0 : h0 = Head(todo[t])
  OBVIOUS
<1>1. PICK rest : rest = Tail(todo[t])
  OBVIOUS
<1>2. /\ at[t] = "invalidate" /\ todo[t] \in Seq(Hotels) /\ todo[t] # <<>>
      /\ h0 \in Hotels /\ rest \in Seq(Hotels)
      /\ \A h \in Hotels : h \in ToSet(todo[t]) => h = h0 \/ h \in ToSet(rest)
  <2>1. at[t] = "invalidate" /\ todo[t] \in Seq(Hotels) /\ todo[t] # <<>>
    BY DEF Invalidate, IInv, Typed, Busy
  <2>2. h0 \in Hotels /\ rest \in Seq(Hotels) /\ Len(rest) = Len(todo[t]) - 1
        /\ Len(todo[t]) \in Nat /\ h0 = todo[t][1]
        /\ \A i \in 1..Len(rest) : rest[i] = todo[t][i + 1]
    BY <1>0, <1>1, <2>1
  <2>3. ASSUME NEW i \in DOMAIN todo[t], i # 1 PROVE todo[t][i] \in ToSet(rest)
    <3>1. i - 1 \in 1..Len(rest) /\ rest[i - 1] = todo[t][i]
      BY <2>1, <2>2, <2>3
    <3>2. i - 1 \in DOMAIN rest
      BY <2>2, <3>1
    <3>3. QED BY <3>1, <3>2 DEF ToSet
  <2>4. QED BY <2>1, <2>2, <2>3 DEF ToSet
<1>3. /\ UNCHANGED <<db, shared, local>>
      /\ "cached" \in Copies /\ "shared" \in Copies /\ "local" \in Copies
      /\ \/ rest = <<>> /\ End(t)
         \/ /\ rest # <<>> /\ todo' = [todo EXCEPT ![t] = rest]
            /\ UNCHANGED <<at, hotel, seen>>
      /\ \/ cached' = [cached EXCEPT ![h0] = Absent] /\ Excuse("cached", h0, FALSE)
         \/ /\ UNCHANGED cached
            /\ Excuse("cached", h0, Outdated(h0, cached[h0]))
  BY <1>0, <1>1 DEF Invalidate, Copies
<1>4. /\ at' \in [Threads -> Steps] /\ hotel' \in [Threads -> Hotels \cup {Absent}]
      /\ seen' \in [Threads -> Nat \cup {Absent}] /\ todo' \in [Threads -> Seq(Hotels)]
      /\ Busy'
  <2>1. CASE End(t)
    BY <2>1, ThreadTyped DEF IInv
  <2>2. CASE /\ rest # <<>> /\ todo' = [todo EXCEPT ![t] = rest]
             /\ UNCHANGED <<at, hotel, seen>>
    BY <1>2, <2>2 DEF IInv, Typed, Busy
  <2>3. QED BY <1>3, <2>1, <2>2
<1>5. \A u \in Threads, h \in Hotels :
        /\ ServicePending(u, h) => ServicePending(u, h)' \/ h = h0
        /\ SharedPending(u, h) => SharedPending(u, h)'
        /\ LocalPending(u, h) => LocalPending(u, h)'
  <2> SUFFICES ASSUME NEW u \in Threads, NEW h \in Hotels
               PROVE  /\ ServicePending(u, h) => ServicePending(u, h)' \/ h = h0
                      /\ SharedPending(u, h) => SharedPending(u, h)'
                      /\ LocalPending(u, h) => LocalPending(u, h)'
    OBVIOUS
  <2>1. CASE u # t
    <3>1. at'[u] = at[u] /\ hotel'[u] = hotel[u] /\ todo'[u] = todo[u]
      BY <1>3, <2>1 DEF End, IInv, Typed
    <3>2. QED BY <3>1 DEF ServicePending, SharedPending, LocalPending
  <2>2. CASE u = t
    <3>1. ~SharedPending(u, h) /\ ~LocalPending(u, h)
      BY <1>2, <2>2 DEF SharedPending, LocalPending
    <3>2. CASE rest = <<>>
      <4>1. ToSet(rest) = {}
        BY <3>2 DEF ToSet
      <4>2. QED BY <1>2, <2>2, <3>1, <4>1 DEF ServicePending
    <3>3. CASE rest # <<>>
      <4>1. at'[t] = "invalidate" /\ todo'[t] = rest
        BY <1>2, <1>3, <3>3 DEF IInv, Typed
      <4>2. QED BY <1>2, <2>2, <3>1, <4>1 DEF ServicePending
    <3>4. QED BY <3>2, <3>3
  <2>3. QED BY <2>1, <2>2
<1>6. \A h \in Hotels : ServiceCopy(h) /\ SharedCopy(h) /\ LocalCopy(h)
  BY PerHotel DEF IInv
<1>7. /\ excused' \subseteq Copies \X Hotels
      /\ \A c \in Copies, g \in Hotels :
            (c # "cached" \/ g # h0) /\ <<c, g>> \in excused => <<c, g>> \in excused'
      /\ cached' \in [Hotels -> Nat \cup {Absent}]
      /\ \A h \in Hotels \ {h0} : cached'[h] = cached[h]
      /\ ServiceCopy(h0)'
  <2>0. /\ cached \in [Hotels -> Nat \cup {Absent}]
        /\ Outdated(h0, cached[h0]) \in BOOLEAN /\ Typed
    BY DEF IInv, Typed, Outdated
  <2>1. CASE cached' = [cached EXCEPT ![h0] = Absent] /\ Excuse("cached", h0, FALSE)
    <3>1. /\ excused' \subseteq Copies \X Hotels
          /\ \A c \in Copies, g \in Hotels :
                (c # "cached" \/ g # h0) /\ <<c, g>> \in excused => <<c, g>> \in excused'
      BY <1>2, <1>3, <2>0, <2>1, Excuses
    <3>2. /\ cached' \in [Hotels -> Nat \cup {Absent}] /\ cached'[h0] = Absent
          /\ \A h \in Hotels \ {h0} : cached'[h] = cached[h]
      BY <1>2, <2>0, <2>1
    <3>3. QED BY <3>1, <3>2 DEF ServiceCopy, Outdated
  <2>2. CASE UNCHANGED cached /\ Excuse("cached", h0, Outdated(h0, cached[h0]))
    <3>1. /\ excused' \subseteq Copies \X Hotels
          /\ Outdated(h0, cached[h0]) => <<"cached", h0>> \in excused'
          /\ \A c \in Copies, g \in Hotels :
                (c # "cached" \/ g # h0) /\ <<c, g>> \in excused => <<c, g>> \in excused'
      BY <1>2, <1>3, <2>0, <2>2, Excuses
    <3>2. QED BY <1>3, <2>0, <2>2, <3>1 DEF ServiceCopy, Outdated, db
  <2>3. QED BY <1>3, <2>1, <2>2
<1>8. \A h \in Hotels : ServiceCopy(h)' /\ SharedCopy(h)' /\ LocalCopy(h)'
  <2>1. \A h \in Hotels \ {h0} : ServiceCopy(h)'
    BY <1>3, <1>5, <1>6, <1>7 DEF ServiceCopy, Outdated, db
  <2>2. \A h \in Hotels : SharedCopy(h)' /\ LocalCopy(h)'
    BY <1>3, <1>5, <1>6, <1>7 DEF SharedCopy, LocalCopy, db
  <2>3. QED BY <1>7, <2>1, <2>2
<1>9. Typed'
  BY <1>3, <1>4, <1>7 DEF IInv, Typed, db
<1>10. QED BY <1>4, <1>8, <1>9, Together

\* A copy that expires is a copy less.
LEMMA ExpireInv == ASSUME IInv, NEW h0 \in Hotels, Expire(h0) PROVE IInv'
<1>1. /\ UNCHANGED <<db, thread>>
      /\ "cached" \in Copies /\ "shared" \in Copies /\ "local" \in Copies
  BY DEF Expire, Copies
<1>2. PICK copy \in Copies :
        /\ Excuse(copy, h0, FALSE)
        /\ IF copy = "cached" THEN cached' = [cached EXCEPT ![h0] = Absent] ELSE UNCHANGED cached
        /\ IF copy = "shared" THEN shared' = [shared EXCEPT ![h0] = Absent] ELSE UNCHANGED shared
        /\ IF copy = "local" THEN local' = [local EXCEPT ![h0] = Absent] ELSE UNCHANGED local
  BY <1>1 DEF Expire
<1>3. /\ excused' \subseteq Copies \X Hotels
      /\ \A c \in Copies, g \in Hotels :
            (c # copy \/ g # h0) /\ <<c, g>> \in excused => <<c, g>> \in excused'
  BY <1>2, Excuses DEF IInv
<1>4. /\ cached' \in [Hotels -> Nat \cup {Absent}] /\ shared' \in [Hotels -> Nat \cup {Absent}]
      /\ local' \in [Hotels -> Nat \cup {Absent}]
      /\ \A h \in Hotels :
           /\ cached'[h] = cached[h] \/ (h = h0 /\ copy = "cached" /\ cached'[h] = Absent)
           /\ shared'[h] = shared[h] \/ (h = h0 /\ copy = "shared" /\ shared'[h] = Absent)
           /\ local'[h] = local[h] \/ (h = h0 /\ copy = "local" /\ local'[h] = Absent)
      /\ copy # "cached" => UNCHANGED cached
      /\ copy # "shared" => UNCHANGED shared
      /\ copy # "local" => UNCHANGED local
      /\ copy = "cached" => cached'[h0] = Absent
      /\ copy = "shared" => shared'[h0] = Absent
      /\ copy = "local" => local'[h0] = Absent
  BY <1>2 DEF IInv, Typed
<1>5. \A u \in Threads, h \in Hotels :
        /\ ServicePending(u, h)' <=> ServicePending(u, h)
        /\ SharedPending(u, h)' <=> SharedPending(u, h)
        /\ LocalPending(u, h)' <=> LocalPending(u, h)
  BY <1>1 DEF ServicePending, SharedPending, LocalPending, thread
<1>6. \A h \in Hotels : ServiceCopy(h) /\ SharedCopy(h) /\ LocalCopy(h)
  BY PerHotel DEF IInv
<1>7. \A h \in Hotels : ServiceCopy(h)' /\ SharedCopy(h)' /\ LocalCopy(h)'
  <2> SUFFICES ASSUME NEW h \in Hotels PROVE ServiceCopy(h)' /\ SharedCopy(h)' /\ LocalCopy(h)'
    OBVIOUS
  <2>1. ServiceCopy(h)'
    BY <1>1, <1>3, <1>4, <1>5, <1>6 DEF ServiceCopy, Outdated, db
  <2>2. SharedCopy(h)'
    BY <1>1, <1>3, <1>4, <1>5, <1>6 DEF SharedCopy, db
  <2>3. LocalCopy(h)'
    BY <1>1, <1>3, <1>4, <1>5, <1>6 DEF LocalCopy, db
  <2>4. QED BY <2>1, <2>2, <2>3
<1>8. Typed' /\ Busy'
  BY <1>1, <1>3, <1>4 DEF IInv, Typed, Busy, db, thread
<1>9. QED BY <1>7, <1>8, Together

LEMMA InitInv == Init => IInv
<1> SUFFICES ASSUME Init PROVE IInv
  OBVIOUS
<1>1. Typed
  BY DEF Init, Typed, Steps
<1>2. Busy /\ ServiceCopies /\ OptimizedCopies
  BY DEF Init, Busy, ServiceCopies, Outdated, OptimizedCopies
<1>3. QED BY <1>1, <1>2 DEF IInv

\* Every step keeps the invariant, with a publisher wired or without.
LEMMA StepInv == ASSUME IInv, [Next]_vars PROVE IInv'
<1>1. CASE UNCHANGED vars
  BY <1>1 DEF vars, db, copies, thread, IInv, Typed, Busy, ServiceCopies, Outdated,
              OptimizedCopies, ServicePending, SharedPending, LocalPending
<1>2. ASSUME NEW t \in Threads, Step(t) PROVE IInv'
  <2>1. CASE \E h \in Hotels : GetReviewSummary(t, h) \/ GetOptimized(t, h)
    BY <2>1, WalkInv
  <2>2. CASE Load(t) \/ Fetch(t) \/ (wired /\ Publish(t))
    BY <2>2, WalkInv
  <2>3. CASE ~wired /\ Publish(t)
    BY <2>3, PanicInv
  <2>4. CASE \E h \in Hotels : \/ CreateReview(t, h) \/ DeleteReview(t, h) \/ DeleteHotel(t, h)
                              \/ \E new \in Hotels : UpdateReview(t, h, new)
    BY <2>4, CommitInv
  <2>5. CASE \E h \in Hotels : UpdateSummary(t, h)
    BY <2>5, UpdateSummaryInv
  <2>6. CASE Store(t) \/ Invalidate(t)
    BY <2>6, StoreInv, InvalidateInv
  <2>7. CASE Share(t) \/ Keep(t)
    BY <2>7, ShareInv, KeepInv
  <2>8. CASE Keys(t) \/ Del(t) \/ Drop(t)
    BY <2>8, KeysInv, DelInv, DropInv
  <2>9. QED BY <1>2, <2>1, <2>2, <2>3, <2>4, <2>5, <2>6, <2>7, <2>8 DEF Step
<1>3. CASE \E h \in Hotels : Expire(h)
  BY <1>3, ExpireInv
<1>4. QED BY <1>1, <1>2, <1>3 DEF Next

-----------------------------------------------------------------------------

\* The two properties and what they rest on hold in every state of every behaviour,
\* whatever the threads, the hotels and the bound on the rows' updates, with a
\* publisher wired or without.
THEOREM Invariance == Spec => []IInv
<1>1. Init => IInv
  BY InitInv
<1>2. IInv /\ [Next]_vars => IInv'
  BY StepInv
<1>3. QED BY <1>1, <1>2, PTL DEF Spec

\* CreateReview, UpdateReview, DeleteReview and DeleteHotel never leave behind, in
\* the service's cache, a copy older than the row was at their commit, but for the
\* excused windows.
THEOREM ServiceCopiesTheorem == Spec => []ServiceCopies
<1>1. IInv => ServiceCopies
  BY DEF IInv
<1>2. QED BY <1>1, Invariance, PTL

\* UpdateReviewSummaryOptimized never leaves behind, in Redis or in the map, a copy
\* older than the row, but for the excused windows.
THEOREM OptimizedCopiesTheorem == Spec => []OptimizedCopies
<1>1. IInv => OptimizedCopies
  BY DEF IInv
<1>2. QED BY <1>1, Invariance, PTL
===============================================================================
