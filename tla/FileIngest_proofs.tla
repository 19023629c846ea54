--------------------------- MODULE FileIngest_proofs ---------------------------
(***************************************************************************)
(* Theorems about the import of a file, for any number of batches and      *)
(* workers and either owner.                                               *)
(***************************************************************************)
EXTENDS FileIngest, FiniteSetTheorems, TLAPS

-----------------------------------------------------------------------------
(* What sending on a channel and receiving from it do to its contents.     *)

LEMMA Send ==
    ASSUME NEW S, NEW q \in Seq(S), NEW x \in S, Once(q), ~In(q, x)
    PROVE  /\ Append(q, x) \in Seq(S) /\ Len(Append(q, x)) = Len(q) + 1
           /\ Once(Append(q, x)) /\ \A b : In(Append(q, x), b) <=> In(q, b) \/ b = x
<1>1. /\ Append(q, x) \in Seq(S) /\ Len(q) \in Nat
      /\ Len(Append(q, x)) = Len(q) + 1
      /\ \A i \in 1..Len(q) : Append(q, x)[i] = q[i]
      /\ Append(q, x)[Len(q) + 1] = x
  OBVIOUS
<1>2. Once(Append(q, x))
  BY <1>1 DEF Once, In
<1>3. \A b : In(Append(q, x), b) <=> In(q, b) \/ b = x
  BY <1>1 DEF In
<1>4. QED BY <1>1, <1>2, <1>3

LEMMA Receive ==
    ASSUME NEW S, NEW q \in Seq(S), q # <<>>, Once(q)
    PROVE  /\ Head(q) \in S /\ In(q, Head(q))
           /\ Tail(q) \in Seq(S) /\ Len(Tail(q)) = Len(q) - 1
           /\ Once(Tail(q)) /\ \A b : In(Tail(q), b) <=> In(q, b) /\ b # Head(q)
<1>1. /\ Head(q) \in S /\ Head(q) = q[1]
      /\ Tail(q) \in Seq(S) /\ Len(q) \in Nat \ {0}
      /\ Len(Tail(q)) = Len(q) - 1
      /\ \A i \in 1..(Len(q) - 1) : Tail(q)[i] = q[i + 1]
  OBVIOUS
<1>2. Once(Tail(q))
  BY <1>1 DEF Once
<1>3. In(q, Head(q))
  BY <1>1 DEF In
<1>4. ASSUME NEW b PROVE In(Tail(q), b) <=> In(q, b) /\ b # Head(q)
  <2>1. ASSUME In(Tail(q), b) PROVE In(q, b) /\ b # Head(q)
    <3>1. PICK i \in 1..(Len(q) - 1) : q[i + 1] = b
      BY <2>1, <1>1 DEF In
    <3>2. i + 1 \in 1..Len(q) /\ 1 \in 1..Len(q) /\ i + 1 # 1
      BY <1>1
    <3>3. QED BY <3>1, <3>2, <1>1 DEF In, Once
  <2>2. ASSUME In(q, b), b # Head(q) PROVE In(Tail(q), b)
    <3>1. PICK i \in 1..Len(q) : q[i] = b
      BY <2>2 DEF In
    <3>2. i - 1 \in 1..(Len(q) - 1) /\ (i - 1) + 1 = i
      BY <3>1, <2>2, <1>1
    <3>3. Tail(q)[i - 1] = b
      BY <3>1, <3>2, <1>1
    <3>4. QED BY <3>2, <3>3, <1>1 DEF In
  <2>3. QED BY <2>1, <2>2
<1>5. QED BY <1>1, <1>2, <1>3, <1>4

-----------------------------------------------------------------------------
(* The invariant.                                                          *)

IInv == TypeOK /\ Handover /\ NoSendOnClosed /\ BatchCustody

LEMMA CapType == Cap \in Nat \ {0}
BY IngestAssumption, FS_CardinalityType, FS_EmptySet DEF Cap

LEMMA InitInv == Init => IInv
<1>0. 0 \in 0..Batches /\ 0 <= Cap
  BY IngestAssumption, CapType
<1>1. Init => TypeOK
  <2>1. Init => owner \in Owners /\ pc = "idle" /\ outcome = "none"
    BY DEF Init
  <2>2. Init => row \in [status : {"none", "pending", "processing", "completed", "failed", "cancelled"},
                        records : 0..Batches]
    BY <1>0 DEF Init
  <2>3. Init => /\ worker \in [Workers -> {"off", "idle", "holding", "gone"}]
                /\ holding \in [Workers -> 1..Batches \cup {NoBatch}]
    BY DEF Init
  <2>4. Init => /\ batchChan \in Seq(1..Batches) /\ Len(batchChan) <= Cap
                /\ resultChan \in Seq(1..Batches) /\ Len(resultChan) <= Cap
    BY <1>0 DEF Init
  <2>5. QED BY <1>0, <2>1, <2>2, <2>3, <2>4 DEF Init, TypeOK
<1>2. Init => Handover /\ NoSendOnClosed
  BY DEF Init, Handover, NoSendOnClosed, Before
<1>3. Init => BatchCustody
  BY IngestAssumption
  DEF Init, BatchCustody, Once, In, OneHolder, OnePlace, SomePlace, Held, Stored
<1>4. QED BY <1>1, <1>2, <1>3 DEF IInv

\* The variables that say where the batches are.
placeVars == <<sent, batchChan, holding, resultChan, collecting, saved, rejected>>

LEMMA PlaceFrame ==
    ASSUME BatchCustody, UNCHANGED placeVars, ctxDone => ctxDone' PROVE BatchCustody'
BY DEF BatchCustody, placeVars, Once, In, OneHolder, OnePlace, SomePlace, Held, Stored

\* UpdateProcessingStatus writes a row.
LEMMA RowType ==
    ASSUME TypeOK, NEW status \in {"pending", "processing", "completed", "failed", "cancelled"},
           NEW records \in 0..Batches, NEW result, UpdateProcessingStatus(status, records, result)
    PROVE  row' \in [status : {"none", "pending", "processing", "completed", "failed", "cancelled"},
                     records : 0..Batches]
BY DEF TypeOK, UpdateProcessingStatus

-----------------------------------------------------------------------------
(* The steps.                                                              *)

LEMMA ServiceInv == ASSUME IInv, Service \/ Cancel PROVE IInv'
<1>0. 0 \in 0..Batches
  BY IngestAssumption
<1>1. UNCHANGED placeVars /\ (ctxDone => ctxDone') /\ UNCHANGED <<resultsClosed, batchesClosed>>
  BY DEF Service, Cancel, Accept, MarkProcessing, DownloadError, StartImport, Complete, Fail,
         CancelProcessing, CancelContext, ImportUnchanged, placeVars, readVars, workVars,
         resultVars, saveVars
<1>2. row' \in [status : {"none", "pending", "processing", "completed", "failed", "cancelled"},
                records : 0..Batches]
  <2>1. CASE Accept
    BY <2>1, <1>0 DEF Accept
  <2>2. CASE MarkProcessing \/ Complete \/ Fail \/ CancelProcessing
    BY <2>2, <1>0, RowType DEF IInv, MarkProcessing, Complete, Fail, CancelProcessing
  <2>3. CASE DownloadError \/ StartImport \/ CancelContext
    BY <2>3 DEF IInv, TypeOK, DownloadError, StartImport, CancelContext
  <2>4. QED BY <2>1, <2>2, <2>3 DEF Service, Cancel
<1>3. TypeOK'
  <2>1. /\ pc' \in {pc, "accepted", "done", "download", "failing", "reading"}
        /\ outcome' = outcome /\ owner' = owner /\ ctxDone' \in {ctxDone, TRUE}
    BY DEF Service, Cancel, Accept, MarkProcessing, DownloadError, StartImport, Complete, Fail,
           CancelProcessing, CancelContext, ImportUnchanged
  <2>2. /\ worker' = worker \/ worker' = [w \in Workers |-> "idle"]
        /\ collector' = collector \/ collector' = "idle"
    BY DEF Service, Cancel, Accept, MarkProcessing, DownloadError, StartImport, Complete, Fail,
           CancelProcessing, CancelContext, ImportUnchanged, workVars, saveVars
  <2>3. worker' \in [Workers -> {"off", "idle", "holding", "gone"}]
    BY <2>2 DEF IInv, TypeOK
  <2>4. /\ pc' \in {"idle", "accepted", "download", "reading", "waiting", "sleeping",
                    "completing", "failing", "done"}
        /\ collector' \in {"off", "idle", "saving", "status", "gone"}
        /\ ctxDone' \in BOOLEAN /\ owner' \in Owners /\ outcome' \in {"none", "ok", "error"}
    BY <2>1, <2>2 DEF IInv, TypeOK
  <2>5. /\ sent' \in 0..Batches /\ resultsClosed' \in BOOLEAN /\ batchesClosed' \in BOOLEAN
        /\ batchChan' \in Seq(1..Batches) /\ Len(batchChan') <= Cap
        /\ resultChan' \in Seq(1..Batches) /\ Len(resultChan') <= Cap
        /\ holding' \in [Workers -> 1..Batches \cup {NoBatch}]
        /\ collecting' \in 1..Batches \cup {NoBatch}
        /\ saved' \subseteq 1..Batches /\ rejected' \subseteq 1..Batches
    BY <1>1 DEF IInv, TypeOK, placeVars
  <2>6. QED BY <1>2, <2>3, <2>4, <2>5 DEF TypeOK, Cap
<1>4. Handover' /\ NoSendOnClosed'
  <2>1. CASE StartImport
    BY <2>1, <1>1 DEF IInv, TypeOK, Handover, NoSendOnClosed, Before, StartImport, placeVars
  <2>2. CASE Accept \/ MarkProcessing \/ DownloadError \/ Complete \/ Fail
    BY <2>2, <1>1
    DEF IInv, TypeOK, Handover, NoSendOnClosed, Before, Accept, MarkProcessing, DownloadError,
        Complete, Fail, ImportUnchanged, placeVars, workVars, saveVars
  <2>3. CASE Cancel
    BY <2>3, <1>1
    DEF IInv, TypeOK, Handover, NoSendOnClosed, Cancel, CancelProcessing, CancelContext,
        ImportUnchanged, placeVars, workVars, saveVars
  <2>4. QED BY <2>1, <2>2, <2>3 DEF Service
<1>5. BatchCustody'
  BY <1>1, PlaceFrame DEF IInv
<1>6. QED BY <1>3, <1>4, <1>5 DEF IInv

LEMMA ReadBatchInv == ASSUME IInv, ReadBatch PROVE IInv'
<1>1. /\ batchChan \in Seq(1..Batches) /\ Len(batchChan) < Cap /\ Once(batchChan)
      /\ sent' = sent + 1 /\ sent' \in 1..Batches /\ sent \in 0..Batches
      /\ batchChan' = Append(batchChan, sent')
      /\ ~SomePlace(sent')
  BY IngestAssumption DEF IInv, TypeOK, BatchCustody, ReadBatch
<1>2. ~In(batchChan, sent')
  BY <1>1 DEF SomePlace
<1>3. /\ batchChan' \in Seq(1..Batches) /\ Len(batchChan') = Len(batchChan) + 1
      /\ Once(batchChan') /\ \A b : In(batchChan', b) <=> In(batchChan, b) \/ b = sent'
  BY <1>1, <1>2, Send
<1>4. TypeOK'
  <2>1. Len(batchChan') <= Cap
    BY <1>1, <1>3, CapType
  <2>2. QED
    BY <1>1, <1>3, <2>1 DEF IInv, TypeOK, Cap, ReadBatch, workVars, resultVars, saveVars
<1>5. Handover' /\ NoSendOnClosed'
  <2>1. \A w \in Workers : worker[w] = "gone" => ctxDone
    BY DEF IInv, Handover, ReadBatch
  <2>2. QED
    BY <2>1 DEF IInv, TypeOK, Handover, NoSendOnClosed, Before, ReadBatch, workVars, resultVars,
                saveVars
<1>6. BatchCustody'
  BY <1>1, <1>3
  DEF IInv, BatchCustody, ReadBatch, OneHolder, OnePlace, SomePlace, Held, Stored, workVars,
      resultVars, saveVars
<1>7. QED BY <1>4, <1>5, <1>6 DEF IInv

LEMMA ReaderInv ==
    ASSUME IInv, ReadCancelled \/ ReadError \/ EndOfFile \/ WaitWorkers \/ Sleep
    PROVE  IInv'
<1>1. UNCHANGED placeVars /\ UNCHANGED <<owner, row, ctxDone, worker, collector>>
  BY DEF ReadCancelled, ReadError, EndOfFile, WaitWorkers, Sleep, ImportUnchanged, placeVars,
         readVars, workVars, resultVars, saveVars
<1>2. TypeOK'
  <2>1. /\ pc' \in {"waiting", "sleeping", "completing", "failing", "done"}
        /\ outcome' \in {outcome, "ok", "error"}
        /\ batchesClosed' \in {batchesClosed, TRUE} /\ resultsClosed' \in {resultsClosed, TRUE}
    BY DEF ReadCancelled, ReadError, EndOfFile, WaitWorkers, Sleep, ReturnOk, ReturnError,
           ImportUnchanged, readVars, resultVars
  <2>2. /\ outcome' \in {"none", "ok", "error"}
        /\ batchesClosed' \in BOOLEAN /\ resultsClosed' \in BOOLEAN
    BY <2>1 DEF IInv, TypeOK
  <2>3. QED BY <1>1, <2>1, <2>2 DEF IInv, TypeOK, Cap, placeVars
<1>3. Handover' /\ NoSendOnClosed'
  <2>1. CASE ReadCancelled \/ ReadError \/ EndOfFile
    BY <2>1, <1>1
    DEF IInv, TypeOK, Handover, NoSendOnClosed, Before, ReadCancelled, ReadError, EndOfFile,
        ReturnError, placeVars, resultVars
  <2>2. CASE WaitWorkers \/ Sleep
    BY <2>2, <1>1
    DEF IInv, TypeOK, Handover, NoSendOnClosed, Before, WaitWorkers, Sleep, ReturnOk,
        ImportUnchanged, placeVars, readVars, resultVars
  <2>3. QED BY <2>1, <2>2
<1>4. BatchCustody'
  BY <1>1, PlaceFrame DEF IInv
<1>5. QED BY <1>2, <1>3, <1>4 DEF IInv

LEMMA TakeInv == ASSUME IInv, NEW w \in Workers, WorkerTake(w) PROVE IInv'
<1>0. DEFINE b == Head(batchChan)
<1>1. /\ batchChan \in Seq(1..Batches) /\ batchChan # <<>> /\ Once(batchChan)
      /\ holding' = [holding EXCEPT ![w] = b] /\ worker' = [worker EXCEPT ![w] = "holding"]
      /\ batchChan' = Tail(batchChan) /\ Len(batchChan) <= Cap
      /\ holding[w] = NoBatch /\ worker[w] = "idle"
  BY DEF IInv, TypeOK, Handover, BatchCustody, WorkerTake
<1>2. /\ b \in 1..Batches /\ In(batchChan, b)
      /\ batchChan' \in Seq(1..Batches) /\ Len(batchChan') = Len(batchChan) - 1
      /\ Once(batchChan') /\ \A c : In(batchChan', c) <=> In(batchChan, c) /\ c # b
  BY <1>1, Receive
<1>3. NoBatch # b /\ ~Held(b)
  BY <1>2, IngestAssumption DEF IInv, BatchCustody, OnePlace
<1>4. \A v \in Workers : holding'[v] = IF v = w THEN b ELSE holding[v]
  BY <1>1 DEF IInv, TypeOK
<1>5. \A v \in Workers : worker'[v] = IF v = w THEN "holding" ELSE worker[v]
  BY <1>1 DEF IInv, TypeOK
<1>6. OneHolder' /\ \A c \in 1..Batches : Held(c)' <=> Held(c) \/ c = b
  <2>1. OneHolder'
    BY <1>3, <1>4 DEF IInv, BatchCustody, OneHolder, Held
  <2>2. \A c \in 1..Batches : Held(c)' <=> Held(c) \/ c = b
    BY <1>1, <1>4, IngestAssumption DEF Held
  <2>3. QED BY <2>1, <2>2
<1>7. TypeOK'
  <2>1. Len(batchChan') <= Cap
    BY <1>1, <1>2, CapType
  <2>2. /\ worker' \in [Workers -> {"off", "idle", "holding", "gone"}]
        /\ holding' \in [Workers -> 1..Batches \cup {NoBatch}]
    BY <1>1, <1>2 DEF IInv, TypeOK
  <2>3. QED
    BY <1>2, <2>1, <2>2 DEF IInv, TypeOK, Cap, WorkerTake, resultVars, saveVars
<1>8. Handover' /\ NoSendOnClosed'
  BY <1>1, <1>3, <1>4, <1>5
  DEF IInv, TypeOK, Handover, NoSendOnClosed, Before, WorkerTake, resultVars, saveVars
<1>9. BatchCustody'
  BY <1>2, <1>3, <1>6
  DEF IInv, BatchCustody, WorkerTake, OnePlace, SomePlace, Stored, resultVars, saveVars
<1>10. QED BY <1>7, <1>8, <1>9 DEF IInv

LEMMA SendInv == ASSUME IInv, NEW w \in Workers, WorkerSend(w) PROVE IInv'
<1>0. PICK b \in 1..Batches : holding[w] = b
  BY DEF IInv, TypeOK, Handover, WorkerSend
<1>1. /\ resultChan \in Seq(1..Batches) /\ Len(resultChan) < Cap /\ Once(resultChan)
      /\ holding' = [holding EXCEPT ![w] = NoBatch] /\ worker' = [worker EXCEPT ![w] = "idle"]
      /\ resultChan' = Append(resultChan, b)
  BY <1>0 DEF IInv, TypeOK, Handover, BatchCustody, WorkerSend
<1>2. Held(b) /\ ~In(resultChan, b) /\ collecting # b /\ ~Stored(b) /\ ~In(batchChan, b)
  <2>1. Held(b)
    BY <1>0 DEF Held
  <2>2. QED BY <1>1, <2>1 DEF IInv, BatchCustody, OnePlace
<1>3. /\ resultChan' \in Seq(1..Batches) /\ Len(resultChan') = Len(resultChan) + 1
      /\ Once(resultChan') /\ \A c : In(resultChan', c) <=> In(resultChan, c) \/ c = b
  <2>1. b \in 1..Batches /\ resultChan \in Seq(1..Batches) /\ Once(resultChan)
    BY <1>0, <1>1
  <2>2. ~In(resultChan, b)
    BY <1>2
  <2>3. Append(resultChan, b) \in Seq(1..Batches) /\ Len(Append(resultChan, b)) = Len(resultChan) + 1
    BY <2>1, <2>2, Send
  <2>4. Once(Append(resultChan, b))
    BY <2>1, <2>2, Send
  <2>5. \A c : In(Append(resultChan, b), c) <=> In(resultChan, c) \/ c = b
    BY <2>1, <2>2, Send
  <2>6. QED BY <2>3, <2>4, <2>5, <1>1
<1>4. \A v \in Workers : holding'[v] = IF v = w THEN NoBatch ELSE holding[v]
  BY <1>1 DEF IInv, TypeOK
<1>5. \A v \in Workers : worker'[v] = IF v = w THEN "idle" ELSE worker[v]
  BY <1>1 DEF IInv, TypeOK
<1>6. OneHolder' /\ \A c \in 1..Batches : Held(c)' <=> Held(c) /\ c # b
  <2>1. OneHolder'
    BY <1>4 DEF IInv, BatchCustody, OneHolder
  <2>2. \A v \in Workers : holding[v] = b => v = w
    BY <1>0, IngestAssumption DEF IInv, BatchCustody, OneHolder
  <2>3. \A c \in 1..Batches : Held(c)' <=> Held(c) /\ c # b
    BY <1>0, <1>4, <2>2, IngestAssumption DEF Held
  <2>4. QED BY <2>1, <2>3
<1>7. TypeOK'
  <2>1. Len(resultChan') <= Cap
    BY <1>1, <1>3, CapType
  <2>2. /\ worker' \in [Workers -> {"off", "idle", "holding", "gone"}]
        /\ holding' \in [Workers -> 1..Batches \cup {NoBatch}]
    BY <1>1 DEF IInv, TypeOK
  <2>3. QED
    BY <1>3, <2>1, <2>2 DEF IInv, TypeOK, Cap, WorkerSend, readVars, saveVars
<1>8. Handover' /\ NoSendOnClosed'
  <2>1. ~resultsClosed /\ worker[w] = "holding"
    BY DEF IInv, NoSendOnClosed, WorkerSend
  <2>2. QED
    BY <1>4, <1>5, <2>1
    DEF IInv, TypeOK, Handover, NoSendOnClosed, Before, WorkerSend, readVars, saveVars
<1>9. BatchCustody'
  BY <1>1, <1>2, <1>3, <1>6
  DEF IInv, BatchCustody, WorkerSend, OnePlace, SomePlace, Stored, readVars, saveVars
<1>10. QED BY <1>7, <1>8, <1>9 DEF IInv

\* A batch that is dropped is nowhere, which BatchCustody allows once the
\* context is done.
LEMMA DropInv == ASSUME IInv, NEW w \in Workers, WorkerDrop(w) PROVE IInv'
<1>1. /\ holding' = [holding EXCEPT ![w] = NoBatch] /\ worker' = [worker EXCEPT ![w] = "gone"]
      /\ worker[w] = "holding" /\ ctxDone /\ ctxDone'
      /\ UNCHANGED <<owner, pc, outcome, row, readVars, resultVars, saveVars>>
  BY DEF WorkerDrop
<1>2. \A v \in Workers : holding'[v] = IF v = w THEN NoBatch ELSE holding[v]
  BY <1>1 DEF IInv, TypeOK
<1>3. \A v \in Workers : worker'[v] = IF v = w THEN "gone" ELSE worker[v]
  BY <1>1 DEF IInv, TypeOK
<1>4. OneHolder' /\ \A c \in 1..Batches : Held(c)' => Held(c)
  BY <1>2, IngestAssumption DEF IInv, BatchCustody, OneHolder, Held
<1>5. TypeOK'
  <2>1. /\ worker' \in [Workers -> {"off", "idle", "holding", "gone"}]
        /\ holding' \in [Workers -> 1..Batches \cup {NoBatch}]
    BY <1>1 DEF IInv, TypeOK
  <2>2. QED BY <1>1, <2>1 DEF IInv, TypeOK, Cap, readVars, resultVars, saveVars
<1>6. Handover' /\ NoSendOnClosed'
  BY <1>1, <1>2, <1>3
  DEF IInv, TypeOK, Handover, NoSendOnClosed, Before, readVars, resultVars, saveVars
<1>7. BatchCustody'
  BY <1>1, <1>4
  DEF IInv, BatchCustody, Once, In, OnePlace, SomePlace, Stored, readVars, resultVars, saveVars
<1>8. QED BY <1>5, <1>6, <1>7 DEF IInv

LEMMA ExitInv == ASSUME IInv, NEW w \in Workers, WorkerExit(w) PROVE IInv'
<1>1. /\ worker' = [worker EXCEPT ![w] = "gone"] /\ worker[w] = "idle"
      /\ batchesClosed /\ batchChan = <<>>
      /\ UNCHANGED <<owner, pc, outcome, row, readVars, holding, resultVars, saveVars, ctxDone>>
  BY DEF WorkerExit
<1>2. \A v \in Workers : worker'[v] = IF v = w THEN "gone" ELSE worker[v]
  BY <1>1 DEF IInv, TypeOK
<1>3. TypeOK'
  <2>1. worker' \in [Workers -> {"off", "idle", "holding", "gone"}]
    BY <1>1 DEF IInv, TypeOK
  <2>2. QED BY <1>1, <2>1 DEF IInv, TypeOK, Cap, readVars, resultVars, saveVars
<1>4. Handover' /\ NoSendOnClosed'
  BY <1>1, <1>2
  DEF IInv, TypeOK, Handover, NoSendOnClosed, Before, readVars, resultVars, saveVars
<1>5. BatchCustody'
  BY <1>1, PlaceFrame DEF IInv, placeVars, readVars, resultVars, saveVars
<1>6. QED BY <1>3, <1>4, <1>5 DEF IInv

LEMMA CollectorTakeInv == ASSUME IInv, CollectorTake PROVE IInv'
<1>0. DEFINE b == Head(resultChan)
<1>1. /\ resultChan \in Seq(1..Batches) /\ resultChan # <<>> /\ Once(resultChan)
      /\ collecting' = b /\ resultChan' = Tail(resultChan) /\ Len(resultChan) <= Cap
      /\ collector = "idle" /\ collector' = "saving" /\ collecting = NoBatch
      /\ UNCHANGED <<owner, pc, outcome, row, readVars, workVars, resultsClosed, saved, rejected,
                     ctxDone>>
  BY DEF IInv, TypeOK, Handover, BatchCustody, CollectorTake
<1>2. /\ b \in 1..Batches /\ In(resultChan, b)
      /\ resultChan' \in Seq(1..Batches) /\ Len(resultChan') = Len(resultChan) - 1
      /\ Once(resultChan') /\ \A c : In(resultChan', c) <=> In(resultChan, c) /\ c # b
  BY <1>1, Receive
<1>3. NoBatch # b /\ ~Held(b) /\ ~Stored(b) /\ ~In(batchChan, b)
  BY <1>2, IngestAssumption DEF IInv, BatchCustody, OnePlace
<1>4. TypeOK'
  <2>1. Len(resultChan') <= Cap
    BY <1>1, <1>2, CapType
  <2>2. QED BY <1>1, <1>2, <2>1 DEF IInv, TypeOK, Cap, readVars, workVars
<1>5. Handover' /\ NoSendOnClosed'
  BY <1>1, <1>3 DEF IInv, TypeOK, Handover, NoSendOnClosed, Before, readVars, workVars
<1>6. BatchCustody'
  <2>1. UNCHANGED <<batchChan, holding, sent, saved, rejected, ctxDone>>
    BY <1>1 DEF readVars, workVars
  <2>2. /\ Once(batchChan)' /\ OneHolder'
        /\ \A c : /\ In(batchChan, c)' <=> In(batchChan, c)
                  /\ Held(c)' <=> Held(c)
                  /\ Stored(c)' <=> Stored(c)
    BY <2>1 DEF IInv, BatchCustody, Once, In, OneHolder, Held, Stored
  <2>3. /\ Once(resultChan)'
        /\ \A c : In(resultChan, c)' <=> In(resultChan, c) /\ c # b
    BY <1>2
  <2>4. \A c \in 1..Batches : (collecting = c)' <=> c = b
    BY <1>1
  <2>5. ASSUME NEW c \in 1..Batches PROVE OnePlace(c)' /\ (SomePlace(c)' <=> SomePlace(c))
    <3>1. OnePlace(c) /\ collecting # c
      BY <1>1, IngestAssumption DEF IInv, BatchCustody
    <3>2. CASE c = b
      BY <3>1, <3>2, <1>2, <1>3, <2>1, <2>2, <2>3, <2>4 DEF OnePlace, SomePlace, Stored
    <3>3. CASE c # b
      BY <3>1, <3>3, <2>1, <2>2, <2>3, <2>4 DEF OnePlace, SomePlace, Stored
    <3>4. QED BY <3>2, <3>3
  <2>6. QED BY <2>1, <2>2, <2>3, <2>5 DEF IInv, BatchCustody
<1>7. QED BY <1>4, <1>5, <1>6 DEF IInv

LEMMA CollectorSaveInv == ASSUME IInv, CollectorSave PROVE IInv'
<1>0. DEFINE b == collecting
<1>1. /\ collector = "saving" /\ collector' = "status" /\ collecting' = NoBatch
      /\ UNCHANGED <<owner, pc, outcome, row, readVars, workVars, resultVars, ctxDone>>
      /\ b \in 1..Batches /\ NoBatch # b
  BY IngestAssumption DEF IInv, TypeOK, Handover, CollectorSave
<1>2. \/ saved' = saved \cup {b} /\ rejected' = rejected
      \/ saved' = saved /\ rejected' = rejected \cup {b}
  BY DEF CollectorSave, CreateBatch
<1>3. TypeOK'
  <2>1. saved' \subseteq 1..Batches /\ rejected' \subseteq 1..Batches
    BY <1>1, <1>2 DEF IInv, TypeOK
  <2>2. /\ UNCHANGED <<owner, pc, outcome, row, sent, batchChan, resultChan, batchesClosed,
                      resultsClosed, ctxDone, worker, holding>>
        /\ collector' \in {"off", "idle", "saving", "status", "gone"}
        /\ collecting' \in 1..Batches \cup {NoBatch}
    BY <1>1 DEF readVars, workVars, resultVars
  <2>3. QED BY <2>1, <2>2 DEF IInv, TypeOK, Cap
<1>4. Handover' /\ NoSendOnClosed'
  BY <1>1 DEF IInv, TypeOK, Handover, NoSendOnClosed, Before, readVars, workVars, resultVars
<1>5. \A c : Stored(c)' <=> Stored(c) \/ c = b
  BY <1>2 DEF Stored
<1>6. BatchCustody'
  <2>1. ~In(batchChan, b) /\ ~Held(b) /\ ~In(resultChan, b)
    BY <1>1 DEF IInv, BatchCustody, OnePlace
  <2>2. UNCHANGED <<batchChan, resultChan, holding, sent, ctxDone>>
    BY <1>1 DEF readVars, workVars, resultVars
  <2>3. /\ Once(batchChan)' /\ Once(resultChan)' /\ OneHolder'
        /\ \A c : /\ In(batchChan, c)' <=> In(batchChan, c)
                  /\ In(resultChan, c)' <=> In(resultChan, c)
                  /\ Held(c)' <=> Held(c)
    BY <2>2 DEF IInv, BatchCustody, Once, In, OneHolder, Held
  <2>4. ASSUME NEW c \in 1..Batches PROVE OnePlace(c)' /\ (SomePlace(c)' <=> SomePlace(c))
    <3>1. OnePlace(c) /\ collecting' # c
      BY <1>1, IngestAssumption DEF IInv, BatchCustody
    <3>2. c \notin saved' \cap rejected'
      BY <1>1, <1>2, <3>1 DEF OnePlace, Stored
    <3>3. QED BY <3>1, <3>2, <1>5, <2>1, <2>3 DEF OnePlace, SomePlace
  <2>5. QED BY <2>2, <2>3, <2>4 DEF IInv, BatchCustody
<1>7. QED BY <1>3, <1>4, <1>6 DEF IInv

LEMMA CollectorRestInv == ASSUME IInv, CollectorStatus \/ CollectorExit PROVE IInv'
<1>1. /\ UNCHANGED placeVars
      /\ UNCHANGED <<owner, pc, outcome, batchesClosed, worker, resultsClosed, ctxDone>>
      /\ collector' \in {"idle", "gone"}
  BY DEF CollectorStatus, CollectorExit, placeVars, readVars, workVars, resultVars
<1>2. Cardinality(saved) \in 0..Batches
  <2>1. IsFiniteSet(1..Batches) /\ Cardinality(1..Batches) = Batches
    <3>1. 1 \in Int /\ Batches \in Int /\ Batches \in Nat
      BY IngestAssumption
    <3>2. Cardinality(1..Batches) = IF 1 > Batches THEN 0 ELSE Batches - 1 + 1
      BY <3>1, FS_Interval
    <3>3. QED BY <3>1, <3>2, FS_Interval
  <2>2. IsFiniteSet(saved) /\ Cardinality(saved) <= Batches
    <3>1. saved \in SUBSET (1..Batches)
      BY DEF IInv, TypeOK
    <3>2. QED BY <2>1, <3>1, FS_Subset
  <2>3. Cardinality(saved) \in Nat
    BY <2>2, FS_CardinalityType
  <2>4. QED BY <2>2, <2>3, IngestAssumption
<1>3. row' \in [status : {"none", "pending", "processing", "completed", "failed", "cancelled"},
                records : 0..Batches]
  <2>1. CASE CollectorStatus
    <3>1. PICK result \in Outcomes :
            UpdateProcessingStatus("processing", Cardinality(saved), result)
      BY <2>1 DEF CollectorStatus
    <3>2. QED BY <3>1, <1>2, RowType DEF IInv
  <2>2. CASE CollectorExit
    BY <2>2 DEF IInv, TypeOK, CollectorExit
  <2>3. QED BY <2>1, <2>2
<1>4. TypeOK'
  BY <1>1, <1>3 DEF IInv, TypeOK, Cap, placeVars
<1>5. Handover' /\ NoSendOnClosed'
  <2>1. CASE CollectorStatus
    BY <1>1, <2>1 DEF IInv, TypeOK, Handover, NoSendOnClosed, Before, CollectorStatus, placeVars
  <2>2. CASE CollectorExit
    BY <1>1, <2>2 DEF IInv, TypeOK, Handover, NoSendOnClosed, Before, CollectorExit, placeVars
  <2>3. QED BY <2>1, <2>2
<1>6. BatchCustody'
  BY <1>1, PlaceFrame DEF IInv
<1>7. QED BY <1>4, <1>5, <1>6 DEF IInv

LEMMA NextInv == ASSUME IInv, [Next]_vars PROVE IInv'
<1>1. CASE Service \/ Cancel
  BY <1>1, ServiceInv
<1>2. CASE Reader
  BY <1>2, ReadBatchInv, ReaderInv DEF Reader
<1>3. CASE Collector
  BY <1>3, CollectorTakeInv, CollectorSaveInv, CollectorRestInv DEF Collector
<1>4. ASSUME NEW w \in Workers, Work(w) PROVE IInv'
  BY <1>4, TakeInv, SendInv, DropInv, ExitInv DEF Work
<1>5. CASE UNCHANGED vars
  <2>1. UNCHANGED placeVars /\ UNCHANGED <<owner, pc, outcome, row, ctxDone, batchesClosed,
                                           resultsClosed, worker, collector>>
    BY <1>5 DEF vars, placeVars, readVars, workVars, resultVars, saveVars
  <2>2. TypeOK'
    BY <2>1 DEF IInv, TypeOK, Cap, placeVars
  <2>3. Handover' /\ NoSendOnClosed'
    BY <2>1 DEF IInv, Handover, NoSendOnClosed, Before, placeVars
  <2>4. QED BY <2>1, <2>2, <2>3, PlaceFrame DEF IInv
<1>6. QED BY <1>1, <1>2, <1>3, <1>4, <1>5 DEF Next

-----------------------------------------------------------------------------
(* The theorems.                                                           *)

\* The invariant holds in every state of every import.
THEOREM InvKept == Spec => []IInv
BY InitInv, NextInv, PTL DEF Spec

\* The channels never hold more than workerPool batches, and every variable of
\* the import keeps its type (make(chan ..., workerPool) in ProcessFile).
THEOREM TypeCorrect == Spec => []TypeOK
<1>1. IInv => TypeOK
  BY DEF IInv
<1>2. QED BY <1>1, InvKept, PTL

\* No worker sends on a closed resultChan: ProcessFile waits for all of them
\* before it closes the channel.
THEOREM NoSendKept == Spec => []NoSendOnClosed
<1>1. IInv => NoSendOnClosed
  BY DEF IInv
<1>2. QED BY <1>1, InvKept, PTL

\* No batch is in two hands, none comes from nowhere, and none is lost while
\* the context of the import lives.
THEOREM CustodyKept == Spec => []BatchCustody
<1>1. IInv => BatchCustody
  BY DEF IInv
<1>2. QED BY <1>1, InvKept, PTL

\* A collector that has left, with a live context, has seen every batch of the
\* file: the workers it waited for had emptied batchChan and their hands.
THEOREM DrainsKept == Spec => []CollectorDrains
<1>1. ASSUME IInv PROVE CollectorDrains
  <2> SUFFICES ASSUME collector = "gone", ~ctxDone PROVE saved \cup rejected = 1..Batches
    BY DEF CollectorDrains
  <2>1. /\ sent = Batches /\ resultChan = <<>> /\ collecting = NoBatch
        /\ \A w \in Workers : worker[w] = "gone"
    BY <1>1 DEF IInv, Handover, NoSendOnClosed
  <2>2. batchChan = <<>> /\ \A w \in Workers : holding[w] = NoBatch
    BY <1>1, <2>1, IngestAssumption DEF IInv, Handover
  <2>3. ASSUME NEW b \in 1..Batches PROVE b \in saved \cup rejected
    <3>1. SomePlace(b)
      BY <1>1, <2>1, IngestAssumption DEF IInv, BatchCustody
    <3>2. ~In(batchChan, b) /\ ~In(resultChan, b)
      BY <2>1, <2>2 DEF In
    <3>3. ~Held(b) /\ collecting # b
      BY <2>1, <2>2, IngestAssumption DEF Held
    <3>4. QED BY <3>1, <3>2, <3>3 DEF SomePlace, Stored
  <2>4. QED BY <1>1, <2>3 DEF IInv, TypeOK
<1>2. QED BY <1>1, InvKept, PTL
-----------------------------------------------------------------------------
(* What ImportReturns rests on, fairness aside: nobody waits for ever on a *)
(* channel or on wg.Wait, and an import has finitely many steps.           *)

\* The guards of the steps of the import, nobody cancelling and nothing failing.
ServiceCanGoOn   == pc \in {"accepted", "download", "completing", "failing"}
ReaderCanGoOn    ==
    \/ pc = "reading" /\ (sent = Batches \/ Len(batchChan) < Cap \/ ctxDone)
    \/ pc = "waiting" /\ \A w \in Workers : worker[w] = "gone"
    \/ pc = "sleeping"
WorkerCanGoOn(w) ==
    \/ worker[w] = "idle" /\ (batchChan # <<>> \/ batchesClosed)
    \/ worker[w] = "holding" /\ (Len(resultChan) < Cap \/ ctxDone)
CollectorCanGoOn ==
    \/ collector = "idle" /\ (resultChan # <<>> \/ resultsClosed)
    \/ collector \in {"saving", "status"}

\* Who waits for a place in a channel, or for the end of the workers, waits for
\* somebody who can go on, before ProcessFile returns and after it.
NobodyBlocks ==
    /\ pc \notin {"idle", "done"} =>
         \/ ServiceCanGoOn \/ ReaderCanGoOn \/ CollectorCanGoOn
         \/ \E w \in Workers : WorkerCanGoOn(w)
    /\ \A w \in Workers :
         /\ worker[w] = "holding" => WorkerCanGoOn(w) \/ CollectorCanGoOn
         /\ worker[w] = "idle" => WorkerCanGoOn(w) \/ pc = "reading"

\* The steps an import has left, counted from above: a batch that is not read
\* yet has six, one in a worker's hand four, ...; a write of the row may allow
\* one more cancellation.
Holding == {w \in Workers : worker[w] = "holding"}
Alive   == {w \in Workers : worker[w] # "gone"}
PcSteps ==
    CASE pc = "idle"     -> 7 [] pc = "accepted" -> 6 [] pc = "download" -> 5
      [] pc = "reading"  -> 4 [] pc = "waiting"  -> 3 [] pc = "sleeping" -> 2
      [] pc = "done"     -> 0 [] OTHER -> 1
CollectorSteps ==
    CASE collector = "saving" -> 3 [] collector = "status" -> 2
      [] collector = "gone"   -> 0 [] OTHER -> 1
Weight(own, unread, queued, held, alive, results, c) ==
    own + 6 * unread + 5 * queued + 4 * held + alive + 3 * results + c
ImportSteps ==
    Weight(PcSteps, Batches - sent, Len(batchChan), Cardinality(Holding), Cardinality(Alive),
           Len(resultChan), CollectorSteps)
RowCancels == IF row.status = "cancelled" THEN 0 ELSE 1
CtxCancels == IF ctxDone THEN 0 ELSE 1
StepsLeft == 2 * ImportSteps + RowCancels + CtxCancels

\* The workers and the collector start together, and batchChan is closed when
\* the reader stops.
Started ==
    /\ \A w \in Workers : worker[w] = "off" <=> collector = "off"
    /\ collector = "off" => pc \notin {"reading", "waiting", "sleeping"}
    /\ collector # "off" => pc = "reading" \/ batchesClosed

LEMMA StartedInit == Init => Started
BY DEF Init, Started

LEMMA StartedStep == ASSUME IInv, Started, [Next]_vars PROVE Started'
<1>1. CASE StartImport
  <2>1. \A w \in Workers : worker'[w] = "idle"
    BY <1>1 DEF StartImport
  <2>2. QED BY <1>1, <2>1 DEF StartImport, Started
<1>2. CASE Cancel \/ Accept \/ MarkProcessing \/ DownloadError \/ Complete \/ Fail
  BY <1>2
  DEF Started, Cancel, CancelProcessing, CancelContext, Accept, MarkProcessing, DownloadError,
      Complete, Fail, ImportUnchanged, workVars, saveVars, readVars
<1>3. CASE Reader
  BY <1>3
  DEF Started, Reader, ReadBatch, ReadCancelled, ReadError, EndOfFile, WaitWorkers, Sleep,
      ReturnOk, ReturnError, IInv, Handover, ImportUnchanged, workVars, saveVars, readVars
<1>4. CASE Collector
  BY <1>4
  DEF Started, Collector, CollectorTake, CollectorSave, CollectorStatus, CollectorExit,
      workVars, readVars
<1>5. ASSUME NEW w \in Workers, Work(w) PROVE Started'
  <2>1. /\ UNCHANGED <<pc, collector, batchesClosed>> /\ worker[w] \in {"idle", "holding"}
        /\ \E p \in {"idle", "holding", "gone"} : worker' = [worker EXCEPT ![w] = p]
    BY <1>5 DEF Work, WorkerTake, WorkerSend, WorkerDrop, WorkerExit, saveVars, readVars
  <2>2. \A v \in Workers : worker'[v] = "off" <=> worker[v] = "off"
    BY <2>1 DEF IInv, TypeOK
  <2>3. QED BY <2>1, <2>2 DEF Started
<1>6. CASE UNCHANGED vars
  BY <1>6 DEF Started, vars, workVars, saveVars, readVars
<1>7. QED BY <1>1, <1>2, <1>3, <1>4, <1>5, <1>6 DEF Next, Service

\* Neither the bounded channels nor wg.Wait ever stop an import: the workers
\* wait for the collector, the reader and ProcessFile wait for the workers, and
\* the collector waits for nobody (ProcessFile, worker, resultCollector).
THEOREM NobodyBlocksKept == Spec => []NobodyBlocks
<1>1. ASSUME IInv, Started PROVE NobodyBlocks
  <2>1. ASSUME NEW w \in Workers, worker[w] = "holding"
        PROVE  WorkerCanGoOn(w) \/ CollectorCanGoOn
    <3>1. ~resultsClosed /\ collector \notin {"off", "gone"}
      BY <1>1, <2>1 DEF IInv, NoSendOnClosed, Handover, Started
    <3>2. Len(resultChan) < Cap \/ resultChan # <<>>
      BY <1>1, CapType DEF IInv, TypeOK
    <3>3. collector \in {"idle", "saving", "status"}
      BY <1>1, <3>1 DEF IInv, TypeOK
    <3>4. QED BY <2>1, <3>2, <3>3 DEF WorkerCanGoOn, CollectorCanGoOn
  <2>2. ASSUME NEW w \in Workers, worker[w] = "idle"
        PROVE  WorkerCanGoOn(w) \/ pc = "reading"
    <3>1. collector # "off"
      BY <1>1, <2>2 DEF Started
    <3>2. QED BY <1>1, <2>2, <3>1 DEF Started, WorkerCanGoOn
  <2>3. ASSUME pc = "reading", ~ReaderCanGoOn
        PROVE  CollectorCanGoOn \/ \E w \in Workers : WorkerCanGoOn(w)
    <3>1. /\ batchChan # <<>> /\ ~ctxDone /\ ~batchesClosed
      BY <1>1, <2>3, CapType DEF ReaderCanGoOn, IInv, TypeOK, Handover
    <3>2. PICK w \in Workers : TRUE
      BY IngestAssumption
    <3>3. worker[w] \in {"idle", "holding"}
      BY <1>1, <2>3, <3>1 DEF IInv, TypeOK, Handover, Started
    <3>4. CASE worker[w] = "idle"
      BY <3>1, <3>4 DEF WorkerCanGoOn
    <3>5. QED BY <2>1, <3>3, <3>4
  <2>4. ASSUME pc = "waiting", ~ReaderCanGoOn
        PROVE  CollectorCanGoOn \/ \E w \in Workers : WorkerCanGoOn(w)
    <3>1. PICK w \in Workers : worker[w] # "gone"
      BY <2>4 DEF ReaderCanGoOn
    <3>2. worker[w] \in {"idle", "holding"}
      BY <1>1, <2>4, <3>1 DEF IInv, TypeOK, Started
    <3>3. QED BY <2>1, <2>2, <2>4, <3>2
  <2>5. pc \in {"accepted", "download", "completing", "failing", "sleeping"} =>
          ServiceCanGoOn \/ ReaderCanGoOn
    BY DEF ServiceCanGoOn, ReaderCanGoOn
  <2>6. pc \notin {"idle", "done"} =>
          pc \in {"accepted", "download", "completing", "failing", "sleeping", "reading", "waiting"}
    BY <1>1 DEF IInv, TypeOK
  <2>7. pc \notin {"idle", "done"} =>
          \/ ServiceCanGoOn \/ ReaderCanGoOn \/ CollectorCanGoOn
          \/ \E w \in Workers : WorkerCanGoOn(w)
    BY <2>3, <2>4, <2>5, <2>6
  <2>8. QED BY <2>1, <2>2, <2>7 DEF NobodyBlocks
<1>2. QED BY <1>1, InvKept, InitInv, NextInv, StartedInit, StartedStep, PTL DEF Spec

LEMMA CountsType ==
    /\ IsFiniteSet(Holding) /\ Cardinality(Holding) \in Nat
    /\ IsFiniteSet(Alive) /\ Cardinality(Alive) \in Nat
<1>1. Holding \in SUBSET Workers /\ Alive \in SUBSET Workers
  BY DEF Holding, Alive
<1>2. IsFiniteSet(Holding) /\ IsFiniteSet(Alive)
  BY <1>1, IngestAssumption, FS_Subset
<1>3. QED BY <1>2, FS_CardinalityType

StepsTyped ==
    /\ PcSteps \in Nat /\ CollectorSteps \in Nat /\ Batches - sent \in Nat
    /\ Len(batchChan) \in Nat /\ Len(resultChan) \in Nat
    /\ Cardinality(Holding) \in Nat /\ Cardinality(Alive) \in Nat
    /\ ImportSteps \in Nat

LEMMA StepsType == IInv => StepsTyped
<1> SUFFICES ASSUME IInv PROVE StepsTyped
  OBVIOUS
<1>1. PcSteps \in Nat
  BY DEF PcSteps
<1>2. CollectorSteps \in Nat
  BY DEF CollectorSteps
<1>3. Batches - sent \in Nat /\ Len(batchChan) \in Nat /\ Len(resultChan) \in Nat
  BY IngestAssumption DEF IInv, TypeOK
<1>4. \A o, u, q, h, a, r, c \in Nat : Weight(o, u, q, h, a, r, c) \in Nat
  BY DEF Weight
<1>5. ImportSteps \in Nat
  BY <1>1, <1>2, <1>3, <1>4, CountsType DEF ImportSteps
<1>6. QED BY <1>1, <1>2, <1>3, <1>5, CountsType DEF StepsTyped

LEMMA StepsTypeNext == IInv' => StepsTyped'
BY StepsType, PTL

\* What a step does to the counts: ProcessFile or its caller goes on, a batch
\* is read, taken, parsed or received, a worker leaves, the collector goes on.
LEMMA Lighter ==
    ASSUME NEW o \in Nat, NEW u \in Nat, NEW q \in Nat, NEW h \in Nat, NEW a \in Nat,
           NEW r \in Nat, NEW c \in Nat,
           NEW o1 \in Nat, NEW u1 \in Nat, NEW q1 \in Nat, NEW h1 \in Nat, NEW a1 \in Nat,
           NEW r1 \in Nat, NEW c1 \in Nat,
           \/ o1 < o     /\ u1 = u     /\ q1 = q     /\ h1 = h     /\ a1 = a     /\ r1 = r     /\ c1 = c
           \/ o1 = o     /\ u1 = u - 1 /\ q1 = q + 1 /\ h1 = h     /\ a1 = a     /\ r1 = r     /\ c1 = c
           \/ o1 = o     /\ u1 = u     /\ q1 = q - 1 /\ h1 = h + 1 /\ a1 = a     /\ r1 = r     /\ c1 = c
           \/ o1 = o     /\ u1 = u     /\ q1 = q     /\ h1 = h - 1 /\ a1 = a     /\ r1 = r + 1 /\ c1 = c
           \/ o1 = o     /\ u1 = u     /\ q1 = q     /\ h1 = h     /\ a1 = a     /\ r1 = r - 1 /\ c1 = c + 2
           \/ o1 = o     /\ u1 = u     /\ q1 = q     /\ h1 <= h    /\ a1 = a - 1 /\ r1 = r     /\ c1 = c
           \/ o1 = o     /\ u1 = u     /\ q1 = q     /\ h1 = h     /\ a1 = a     /\ r1 = r     /\ c1 = c - 1
    PROVE  Weight(o1, u1, q1, h1, a1, r1, c1) < Weight(o, u, q, h, a, r, c)
BY DEF Weight

\* A step that leaves the workers alone leaves their counts alone.
LEMMA CountFrame ==
    ASSUME UNCHANGED worker
    PROVE  Cardinality(Holding)' = Cardinality(Holding) /\ Cardinality(Alive)' = Cardinality(Alive)
<1>1. Holding' = Holding /\ Alive' = Alive
  BY DEF Holding, Alive
<1>2. QED BY <1>1

\* One worker changes.
LEMMA TakeCount ==
    ASSUME IInv, NEW w \in Workers, worker[w] = "idle",
           worker' = [worker EXCEPT ![w] = "holding"]
    PROVE  /\ Cardinality(Holding)' = Cardinality(Holding) + 1
           /\ Cardinality(Alive)' = Cardinality(Alive)
<1>1. \A v \in Workers : worker'[v] = IF v = w THEN "holding" ELSE worker[v]
  BY DEF IInv, TypeOK
<1>2. Holding' = Holding \cup {w} /\ w \notin Holding /\ Alive' = Alive
  BY <1>1 DEF Holding, Alive
<1>3. QED BY <1>2, CountsType, FS_AddElement

LEMMA SendCount ==
    ASSUME IInv, NEW w \in Workers, worker[w] = "holding",
           worker' = [worker EXCEPT ![w] = "idle"]
    PROVE  /\ Cardinality(Holding)' = Cardinality(Holding) - 1
           /\ Cardinality(Alive)' = Cardinality(Alive)
<1>1. \A v \in Workers : worker'[v] = IF v = w THEN "idle" ELSE worker[v]
  BY DEF IInv, TypeOK
<1>2. Holding' = Holding \ {w} /\ w \in Holding /\ Alive' = Alive
  BY <1>1 DEF Holding, Alive
<1>3. QED BY <1>2, CountsType, FS_RemoveElement

LEMMA LeaveCount ==
    ASSUME IInv, NEW w \in Workers, worker[w] \in {"idle", "holding"},
           worker' = [worker EXCEPT ![w] = "gone"]
    PROVE  /\ Cardinality(Holding)' <= Cardinality(Holding)
           /\ Cardinality(Alive)' = Cardinality(Alive) - 1
<1>1. \A v \in Workers : worker'[v] = IF v = w THEN "gone" ELSE worker[v]
  BY DEF IInv, TypeOK
<1>2. Holding' = Holding \ {w} /\ Alive' = Alive \ {w} /\ w \in Alive
  BY <1>1 DEF Holding, Alive
<1>3. Cardinality(Alive)' = Cardinality(Alive) - 1
  BY <1>2, CountsType, FS_RemoveElement
<1>4. Holding' \in SUBSET Holding
  BY <1>2
<1>5. Cardinality(Holding)' <= Cardinality(Holding) /\ IsFiniteSet(Holding')
  BY <1>4, CountsType, FS_Subset
<1>6. QED BY <1>3, <1>5, CountsType, FS_CardinalityType

\* Every step of the import but a cancellation uses up one of ImportSteps.
LEMMA ReaderCounts == ASSUME IInv, IInv', Reader PROVE ImportSteps' < ImportSteps
<1>0. UNCHANGED <<worker, collector, resultChan>>
  BY DEF Reader, ReadBatch, ReadCancelled, ReadError, EndOfFile, WaitWorkers, Sleep,
         ImportUnchanged, workVars, saveVars, resultVars
<1>1. /\ Cardinality(Holding)' = Cardinality(Holding) /\ Cardinality(Alive)' = Cardinality(Alive)
      /\ CollectorSteps' = CollectorSteps /\ Len(resultChan)' = Len(resultChan)
  BY <1>0, CountFrame DEF CollectorSteps
<1>2. CASE ReadBatch
  <2>1. sent' = sent + 1 /\ Len(batchChan)' = Len(batchChan) + 1 /\ pc' = pc
    BY <1>2 DEF ReadBatch, IInv, TypeOK
  <2>2. PcSteps' = PcSteps /\ (Batches - sent)' = (Batches - sent) - 1
    BY <2>1, IngestAssumption DEF PcSteps, IInv, TypeOK
  <2>3. QED BY <1>1, <2>1, <2>2, StepsType, StepsTypeNext, Lighter
         DEF StepsTyped, ImportSteps
<1>3. CASE ReadCancelled \/ ReadError \/ EndOfFile \/ WaitWorkers \/ Sleep
  <2>1. /\ UNCHANGED <<sent, batchChan>>
        /\ \/ pc = "reading" /\ pc' \in {"waiting", "failing", "done"}
           \/ pc = "waiting" /\ pc' = "sleeping"
           \/ pc = "sleeping" /\ pc' \in {"completing", "done"}
    BY <1>3 DEF ReadCancelled, ReadError, EndOfFile, WaitWorkers, Sleep, ReturnOk, ReturnError,
                ImportUnchanged, readVars
  <2>2. PcSteps' < PcSteps
    BY <2>1 DEF PcSteps
  <2>3. PcSteps' \in Nat
    BY DEF PcSteps
  <2>4. QED BY <1>1, <2>1, <2>2, <2>3, StepsType, StepsTypeNext, Lighter
         DEF StepsTyped, ImportSteps
<1>4. QED BY <1>2, <1>3 DEF Reader

LEMMA ServiceCounts == ASSUME IInv, Started, IInv', Service PROVE ImportSteps' < ImportSteps
<1>1. UNCHANGED <<sent, batchChan, resultChan>>
  BY DEF Service, Accept, MarkProcessing, DownloadError, StartImport, Complete, Fail,
         ImportUnchanged, readVars, resultVars
<1>2. PcSteps' < PcSteps
  <2>1. \/ pc = "idle" /\ pc' \in {"accepted", "reading"}
        \/ pc = "accepted" /\ pc' \in {"download", "done"}
        \/ pc = "download" /\ pc' \in {"failing", "reading"}
        \/ pc \in {"completing", "failing"} /\ pc' = "done"
    BY DEF Service, Accept, MarkProcessing, DownloadError, StartImport, Complete, Fail
  <2>2. QED BY <2>1 DEF PcSteps
<1>3. /\ Cardinality(Holding)' = Cardinality(Holding) /\ Cardinality(Alive)' = Cardinality(Alive)
      /\ CollectorSteps' = CollectorSteps
  <2>1. CASE StartImport
    <3>1. /\ \A w \in Workers : worker[w] = "off" /\ worker'[w] = "idle"
          /\ collector = "off" /\ collector' = "idle"
      BY <2>1 DEF StartImport, IInv, Handover, Before
    <3>2. Holding' = Holding /\ Alive' = Alive
      BY <3>1 DEF Holding, Alive
    <3>3. QED BY <3>1, <3>2 DEF CollectorSteps
  <2>2. CASE Accept \/ MarkProcessing \/ DownloadError \/ Complete \/ Fail
    <3>1. UNCHANGED <<worker, collector>>
      BY <2>2 DEF Accept, MarkProcessing, DownloadError, Complete, Fail, ImportUnchanged,
                  workVars, saveVars
    <3>2. QED BY <3>1, CountFrame DEF CollectorSteps
  <2>3. QED BY <2>1, <2>2 DEF Service
<1>4. QED BY <1>1, <1>2, <1>3, StepsType, StepsTypeNext, Lighter
         DEF StepsTyped, ImportSteps

LEMMA CollectorCounts == ASSUME IInv, IInv', Collector PROVE ImportSteps' < ImportSteps
<1>1. UNCHANGED <<pc, sent, batchChan, worker>>
  BY DEF Collector, CollectorTake, CollectorSave, CollectorStatus, CollectorExit, readVars,
         workVars
<1>2. /\ Cardinality(Holding)' = Cardinality(Holding) /\ Cardinality(Alive)' = Cardinality(Alive)
      /\ PcSteps' = PcSteps
  BY <1>1, CountFrame DEF PcSteps
<1>3. CollectorSteps' \in Nat
  BY DEF CollectorSteps
<1>4. CASE CollectorTake
  <2>1. Len(resultChan)' = Len(resultChan) - 1 /\ collector = "idle" /\ collector' = "saving"
    BY <1>4 DEF CollectorTake, IInv, TypeOK
  <2>2. CollectorSteps' = CollectorSteps + 2
    BY <2>1 DEF CollectorSteps
  <2>3. QED BY <1>1, <1>2, <2>1, <2>2, StepsType, StepsTypeNext, Lighter
         DEF StepsTyped, ImportSteps
<1>5. CASE CollectorSave \/ CollectorStatus \/ CollectorExit
  <2>1. /\ resultChan' = resultChan
        /\ \/ collector = "saving" /\ collector' = "status"
           \/ collector = "status" /\ collector' = "idle"
           \/ collector = "idle" /\ collector' = "gone"
    BY <1>5 DEF CollectorSave, CollectorStatus, CollectorExit, resultVars
  <2>2. CollectorSteps' = CollectorSteps - 1
    BY <2>1 DEF CollectorSteps
  <2>3. QED BY <1>1, <1>2, <2>1, <2>2, StepsType, StepsTypeNext, Lighter
         DEF StepsTyped, ImportSteps
<1>6. QED BY <1>4, <1>5 DEF Collector

LEMMA WorkCounts == ASSUME IInv, IInv', NEW w \in Workers, Work(w) PROVE ImportSteps' < ImportSteps
<1>1. UNCHANGED <<pc, sent, collector>>
  BY DEF Work, WorkerTake, WorkerSend, WorkerDrop, WorkerExit, readVars, saveVars
<1>2. PcSteps' = PcSteps /\ CollectorSteps' = CollectorSteps
  BY <1>1 DEF PcSteps, CollectorSteps
<1>3. CASE WorkerTake(w)
  <2>1. /\ Len(batchChan)' = Len(batchChan) - 1 /\ resultChan' = resultChan
        /\ worker[w] = "idle" /\ worker' = [worker EXCEPT ![w] = "holding"]
    BY <1>3 DEF WorkerTake, resultVars, IInv, TypeOK
  <2>2. QED BY <1>1, <1>2, <2>1, TakeCount, StepsType, StepsTypeNext, Lighter
         DEF StepsTyped, ImportSteps
<1>4. CASE WorkerSend(w)
  <2>1. /\ Len(resultChan)' = Len(resultChan) + 1 /\ batchChan' = batchChan
        /\ worker[w] = "holding" /\ worker' = [worker EXCEPT ![w] = "idle"]
    BY <1>4 DEF WorkerSend, readVars, IInv, TypeOK
  <2>2. QED BY <1>1, <1>2, <2>1, SendCount, StepsType, StepsTypeNext, Lighter
         DEF StepsTyped, ImportSteps
<1>5. CASE WorkerDrop(w) \/ WorkerExit(w)
  <2>1. /\ UNCHANGED <<batchChan, resultChan>> /\ worker[w] \in {"idle", "holding"}
        /\ worker' = [worker EXCEPT ![w] = "gone"]
    BY <1>5 DEF WorkerDrop, WorkerExit, readVars, resultVars
  <2>2. QED BY <1>1, <1>2, <2>1, LeaveCount, StepsType, StepsTypeNext, Lighter
         DEF StepsTyped, ImportSteps
<1>6. QED BY <1>3, <1>4, <1>5 DEF Work

\* A cancellation uses up none of them, but the row or the context it changes
\* has to be written again, or never is, before it can happen once more.
LEMMA CancelCounts == ASSUME IInv, Cancel PROVE StepsLeft' < StepsLeft
<1>1. UNCHANGED <<pc, sent, batchChan, resultChan, worker, collector>>
  BY DEF Cancel, CancelProcessing, CancelContext, ImportUnchanged, readVars, workVars, saveVars,
         resultVars
<1>2. ImportSteps' = ImportSteps
  <2>1. /\ PcSteps' = PcSteps /\ CollectorSteps' = CollectorSteps
        /\ (Batches - sent)' = Batches - sent
        /\ Len(batchChan)' = Len(batchChan) /\ Len(resultChan)' = Len(resultChan)
    BY <1>1 DEF PcSteps, CollectorSteps
  <2>2. QED BY <1>1, <2>1, CountFrame DEF ImportSteps
<1>3. CASE CancelProcessing
  <2>1. row.status # "cancelled" /\ row'.status = "cancelled" /\ ctxDone' = ctxDone
    BY <1>3 DEF CancelProcessing, UpdateProcessingStatus, ImportUnchanged
  <2>2. QED BY <1>2, <2>1, StepsType DEF StepsLeft, StepsTyped, RowCancels, CtxCancels
<1>4. CASE CancelContext
  <2>1. ~ctxDone /\ ctxDone' /\ row' = row
    BY <1>4 DEF CancelContext
  <2>2. QED BY <1>2, <2>1, StepsType DEF StepsLeft, StepsTyped, RowCancels, CtxCancels
<1>5. QED BY <1>3, <1>4 DEF Cancel

\* An import is finite: every step, also a failure or a cancellation, brings it
\* nearer to its end, and no loop of the reader, of a worker or of the collector
\* goes round without a batch (ProcessFile, worker, resultCollector).
THEOREM ImportIsFinite == Spec => [](StepsLeft \in Nat) /\ [][StepsLeft' < StepsLeft]_vars
<1>1. IInv => StepsLeft \in Nat
  BY StepsType DEF StepsLeft, StepsTyped, RowCancels, CtxCancels
<1>2. ASSUME IInv, Started, IInv', Next PROVE StepsLeft' < StepsLeft
  <2>1. CASE Cancel
    BY <1>2, <2>1, CancelCounts
  <2>2. CASE ~Cancel
    <3>1. ImportSteps' < ImportSteps
      BY <1>2, <2>2, ReaderCounts, ServiceCounts, CollectorCounts, WorkCounts DEF Next
    <3>2. CtxCancels' = CtxCancels
      BY <1>2, <2>2
      DEF Next, Service, Reader, Collector, Work, Accept, MarkProcessing, DownloadError,
          StartImport, Complete, Fail, ImportUnchanged, ReadBatch, ReadCancelled, ReadError,
          EndOfFile, WaitWorkers, Sleep, WorkerTake, WorkerSend, WorkerDrop, WorkerExit,
          CollectorTake, CollectorSave, CollectorStatus, CollectorExit, CtxCancels
    <3>3. ImportSteps \in Nat /\ ImportSteps' \in Nat
      BY <1>2, StepsType, StepsTypeNext DEF StepsTyped
    <3>4. /\ RowCancels \in Nat /\ CtxCancels \in Nat
          /\ RowCancels' \in Nat /\ RowCancels' <= 1
      BY DEF RowCancels, CtxCancels
    <3>5. \A i, i1, r, r1, k \in Nat :
            i1 < i /\ r1 <= 1 => 2 * i1 + r1 + k < 2 * i + r + k
      OBVIOUS
    <3>6. QED BY <3>1, <3>2, <3>3, <3>4, <3>5 DEF StepsLeft
  <2>3. QED BY <2>1, <2>2
<1>3. IInv /\ Started /\ IInv' /\ [Next]_vars => [StepsLeft' < StepsLeft]_vars
  BY <1>2
<1>4. QED BY <1>1, <1>3, InvKept, InitInv, NextInv, StartedInit, StartedStep, PTL DEF Spec
==============================================================================
