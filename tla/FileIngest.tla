------------------------------ MODULE FileIngest ------------------------------
(***************************************************************************)
(* The import of one file: the review service keeps a status row and runs  *)
(* processFileAsync (internal/domain/services.go), which calls ProcessFile *)
(* of the JSON Lines processor (internal/infrastructure/jsonlines.go): a   *)
(* reader cuts the file into batches, workers parse them, a collector      *)
(* saves them and writes the row as it goes.  The processing engine calls  *)
(* the same ProcessFile with a context that can be cancelled and keeps no  *)
(* row.                                                                    *)
(*                                                                         *)
(* A batch is a number and is saved as a whole or not at all (CreateBatch  *)
(* is one transaction).  Lines that do not parse, and the hotels and       *)
(* reviewers saved with a batch, are left out.                             *)
(***************************************************************************)
EXTENDS Integers, Sequences, FiniteSets

CONSTANTS
    Owners,      \* who may import: "service", "engine"
    Batches,     \* number of batches in the file
    Workers,     \* the worker goroutines, workerPool of them
    NoBatch,     \* a worker or a collector with empty hands
    MayFail      \* whether the database, S3 and the reader may fail

ASSUME IngestAssumption ==
    /\ Owners \subseteq {"service", "engine"}
    /\ Batches \in Nat
    /\ IsFiniteSet(Workers) /\ Workers # {}
    /\ NoBatch \notin 1..Batches
    /\ MayFail \in BOOLEAN

VARIABLES
    owner,       \* who imports this file
    pc,          \* processFileAsync, or ProcessFile called by the engine
    outcome,     \* what ProcessFile returned
    row,         \* the status row: status and records_processed
    sent,        \* batches the reader has sent
    batchChan, batchesClosed,
    worker,      \* program counters of the workers
    holding,     \* the batch a worker has taken
    resultChan, resultsClosed,
    collector,   \* program counter of resultCollector
    collecting,  \* the batch it has received
    saved,       \* batches in the database; their number is stats.ProcessedLines
    rejected,    \* batches whose CreateBatch failed
    ctxDone      \* the context of the import is cancelled

readVars == <<sent, batchChan, batchesClosed>>
workVars == <<worker, holding>>
saveVars == <<collector, collecting, saved, rejected>>
resultVars == <<resultChan, resultsClosed>>
vars == <<owner, pc, outcome, row, readVars, workVars, resultVars, saveVars, ctxDone>>

ImportUnchanged == UNCHANGED <<owner, readVars, workVars, resultVars, saveVars, ctxDone>>

\* The capacity of both channels.
Cap == Cardinality(Workers)

\* What may become of a database call of the import.
Outcomes == (IF ctxDone THEN {} ELSE {"ok"}) \cup (IF MayFail \/ ctxDone THEN {"error"} ELSE {})

\* UpdateProcessingStatus overwrites the row, whatever it says; the engine's
\* imports have none to overwrite.
UpdateProcessingStatus(status, records, result) ==
    row' = IF result = "ok" /\ row.status # "none"
           THEN [status |-> status, records |-> records] ELSE row

\* CreateBatch is one transaction.
CreateBatch(b, result) ==
    /\ saved'    = IF result = "ok" THEN saved \cup {b} ELSE saved
    /\ rejected' = IF result = "ok" THEN rejected ELSE rejected \cup {b}

TypeOK ==
    /\ owner \in Owners
    /\ pc \in {"idle", "accepted", "download", "reading", "waiting", "sleeping",
               "completing", "failing", "done"}
    /\ outcome \in {"none", "ok", "error"}
    /\ row \in [status : {"none", "pending", "processing", "completed", "failed", "cancelled"},
                records : 0..Batches]
    /\ sent \in 0..Batches
    /\ batchChan \in Seq(1..Batches) /\ Len(batchChan) <= Cap
    /\ resultChan \in Seq(1..Batches) /\ Len(resultChan) <= Cap
    /\ batchesClosed \in BOOLEAN /\ resultsClosed \in BOOLEAN /\ ctxDone \in BOOLEAN
    /\ worker \in [Workers -> {"off", "idle", "holding", "gone"}]
    /\ holding \in [Workers -> 1..Batches \cup {NoBatch}]
    /\ collector \in {"off", "idle", "saving", "status", "gone"}
    /\ collecting \in 1..Batches \cup {NoBatch}
    /\ saved \subseteq 1..Batches /\ rejected \subseteq 1..Batches

Init ==
    /\ owner \in Owners
    /\ pc = "idle" /\ outcome = "none"
    /\ row = [status |-> "none", records |-> 0]
    /\ sent = 0 /\ batchChan = <<>> /\ batchesClosed = FALSE
    /\ worker = [w \in Workers |-> "off"] /\ holding = [w \in Workers |-> NoBatch]
    /\ resultChan = <<>> /\ resultsClosed = FALSE
    /\ collector = "off" /\ collecting = NoBatch /\ saved = {} /\ rejected = {}
    /\ ctxDone = FALSE

------------------------------------------------------------------------------
(* Mutants: each is one definition below with a plausible bug.             *)

\* ProcessFile closing resultChan without wg.Wait.
WaitWorkersNot ==
    /\ pc = "waiting"
    /\ resultsClosed' = TRUE
    /\ pc' = "sleeping"
    /\ UNCHANGED <<owner, outcome, row, readVars, workVars, resultChan, saveVars, ctxDone>>

\* A worker that gives a result up when the channel is full.
WorkerSendOrDrop(w) ==
    /\ worker[w] = "holding"
    /\ resultChan' = IF Len(resultChan) < Cap THEN Append(resultChan, holding[w])
                                              ELSE resultChan
    /\ worker' = [worker EXCEPT ![w] = "idle"]
    /\ holding' = [holding EXCEPT ![w] = NoBatch]
    /\ UNCHANGED <<owner, pc, outcome, row, readVars, resultsClosed, saveVars, ctxDone>>

\* A reader that sends without watching its context.
ReadCancelledNever == FALSE /\ UNCHANGED vars

\* A collector that sees the channel closed and leaves what is still in it.
CollectorExitEarly ==
    /\ collector = "idle" /\ resultsClosed
    /\ collector' = "gone"
    /\ UNCHANGED <<owner, pc, outcome, row, readVars, workVars, resultVars, collecting, saved,
                   rejected, ctxDone>>

------------------------------------------------------------------------------
(* The service around ProcessFile.                                         *)

\* ProcessReviewFile creates the row and starts processFileAsync.
Accept ==
    /\ owner = "service" /\ pc = "idle"
    /\ row' = [status |-> "pending", records |-> 0]
    /\ pc' = "accepted"
    /\ UNCHANGED outcome /\ ImportUnchanged

\* processFileAsync gives up without a word when it cannot write the row.
MarkProcessing ==
    /\ pc = "accepted"
    /\ \E result \in Outcomes :
         /\ UpdateProcessingStatus("processing", 0, result)
         /\ pc' = IF result = "ok" THEN "download" ELSE "done"
    /\ UNCHANGED outcome /\ ImportUnchanged

\* A bad URL or a failed download.
DownloadError ==
    /\ pc = "download" /\ MayFail
    /\ pc' = "failing"
    /\ UNCHANGED <<outcome, row>> /\ ImportUnchanged

\* ProcessFile starts the workers and the collector.
StartImport ==
    /\ pc = "download" \/ (owner = "engine" /\ pc = "idle")
    /\ pc' = "reading"
    /\ worker' = [w \in Workers |-> "idle"] /\ collector' = "idle"
    /\ UNCHANGED <<owner, outcome, row, readVars, holding, resultVars, collecting, saved, rejected,
                   ctxDone>>

\* ProcessFile returns: to the service, which writes the row, or to the engine.
ReturnOk    == outcome' = "ok"    /\ pc' = IF owner = "service" THEN "completing" ELSE "done"
ReturnError == outcome' = "error" /\ pc' = IF owner = "service" THEN "failing" ELSE "done"

\* The last write of processFileAsync, and handleProcessingError.
Complete ==
    /\ pc = "completing"
    /\ \E result \in Outcomes : UpdateProcessingStatus("completed", 0, result)
    /\ pc' = "done"
    /\ UNCHANGED outcome /\ ImportUnchanged

Fail ==
    /\ pc = "failing"
    /\ \E result \in Outcomes : UpdateProcessingStatus("failed", 0, result)
    /\ pc' = "done"
    /\ UNCHANGED outcome /\ ImportUnchanged

\* CancelProcessing writes the row and nothing else, at any time.
CancelProcessing ==
    /\ row.status \notin {"none", "cancelled"}
    /\ UpdateProcessingStatus("cancelled", 0, "ok")
    /\ UNCHANGED <<pc, outcome>> /\ ImportUnchanged

\* The engine cancels the job's context.
CancelContext ==
    /\ owner = "engine" /\ ~ctxDone
    /\ ctxDone' = TRUE
    /\ UNCHANGED <<owner, pc, outcome, row, readVars, workVars, resultVars, saveVars>>

------------------------------------------------------------------------------
(* ProcessFile: the reader.                                                *)

ReadBatch ==
    /\ pc = "reading" /\ sent < Batches /\ Len(batchChan) < Cap
    /\ sent' = sent + 1
    /\ batchChan' = Append(batchChan, sent')
    /\ UNCHANGED <<owner, pc, outcome, row, batchesClosed, workVars, resultVars, saveVars, ctxDone>>

\* The select of the send sees the context done, or the scanner fails.  The
\* workers and the collector are left behind.
ReadCancelled ==
    /\ pc = "reading" /\ ctxDone /\ sent < Batches
    /\ batchesClosed' = TRUE
    /\ ReturnError
    /\ UNCHANGED <<owner, row, sent, batchChan, workVars, resultVars, saveVars, ctxDone>>

ReadError ==
    /\ pc = "reading" /\ MayFail
    /\ batchesClosed' = TRUE
    /\ ReturnError
    /\ UNCHANGED <<owner, row, sent, batchChan, workVars, resultVars, saveVars, ctxDone>>

EndOfFile ==
    /\ pc = "reading" /\ sent = Batches
    /\ batchesClosed' = TRUE
    /\ pc' = "waiting"
    /\ UNCHANGED <<owner, outcome, row, sent, batchChan, workVars, resultVars, saveVars, ctxDone>>

\* wg.Wait, then close(resultChan).
WaitWorkers ==
    /\ pc = "waiting" /\ \A w \in Workers : worker[w] = "gone"
    /\ resultsClosed' = TRUE
    /\ pc' = "sleeping"
    /\ UNCHANGED <<owner, outcome, row, readVars, workVars, resultChan, saveVars, ctxDone>>

\* A sleep of 100 ms stands for waiting for the collector.
Sleep ==
    /\ pc = "sleeping"
    /\ ReturnOk
    /\ UNCHANGED row /\ ImportUnchanged

------------------------------------------------------------------------------
(* worker and resultCollector.                                             *)

WorkerTake(w) ==
    /\ worker[w] = "idle" /\ batchChan # <<>>
    /\ holding' = [holding EXCEPT ![w] = Head(batchChan)]
    /\ batchChan' = Tail(batchChan)
    /\ worker' = [worker EXCEPT ![w] = "holding"]
    /\ UNCHANGED <<owner, pc, outcome, row, sent, batchesClosed, resultVars, saveVars, ctxDone>>

WorkerSend(w) ==
    /\ worker[w] = "holding" /\ Len(resultChan) < Cap
    /\ resultChan' = Append(resultChan, holding[w])
    /\ worker' = [worker EXCEPT ![w] = "idle"]
    /\ holding' = [holding EXCEPT ![w] = NoBatch]
    /\ UNCHANGED <<owner, pc, outcome, row, readVars, resultsClosed, saveVars, ctxDone>>

\* The context is done: the worker leaves with its result.
WorkerDrop(w) ==
    /\ worker[w] = "holding" /\ ctxDone
    /\ worker' = [worker EXCEPT ![w] = "gone"]
    /\ holding' = [holding EXCEPT ![w] = NoBatch]
    /\ UNCHANGED <<owner, pc, outcome, row, readVars, resultVars, saveVars, ctxDone>>

WorkerExit(w) ==
    /\ worker[w] = "idle" /\ batchesClosed /\ batchChan = <<>>
    /\ worker' = [worker EXCEPT ![w] = "gone"]
    /\ UNCHANGED <<owner, pc, outcome, row, readVars, holding, resultVars, saveVars, ctxDone>>

CollectorTake ==
    /\ collector = "idle" /\ resultChan # <<>>
    /\ collecting' = Head(resultChan) /\ resultChan' = Tail(resultChan)
    /\ collector' = "saving"
    /\ UNCHANGED <<owner, pc, outcome, row, readVars, workVars, resultsClosed, saved, rejected, ctxDone>>

CollectorSave ==
    /\ collector = "saving"
    /\ \E result \in Outcomes : CreateBatch(collecting, result)
    /\ collector' = "status" /\ collecting' = NoBatch
    /\ UNCHANGED <<owner, pc, outcome, row, readVars, workVars, resultVars, ctxDone>>

CollectorStatus ==
    /\ collector = "status"
    /\ \E result \in Outcomes :
         UpdateProcessingStatus("processing", Cardinality(saved), result)
    /\ collector' = "idle"
    /\ UNCHANGED <<owner, pc, outcome, readVars, workVars, resultVars, collecting, saved, rejected,
                   ctxDone>>

CollectorExit ==
    /\ collector = "idle" /\ resultsClosed /\ resultChan = <<>>
    /\ collector' = "gone"
    /\ UNCHANGED <<owner, pc, outcome, row, readVars, workVars, resultVars, collecting, saved,
                   rejected, ctxDone>>

Service   == Accept \/ MarkProcessing \/ DownloadError \/ StartImport \/ Complete \/ Fail
Cancel    == CancelProcessing \/ CancelContext
Reader    == ReadBatch \/ ReadCancelled \/ ReadError \/ EndOfFile \/ WaitWorkers \/ Sleep
Work(w)   == WorkerTake(w) \/ WorkerSend(w) \/ WorkerDrop(w) \/ WorkerExit(w)
Collector == CollectorTake \/ CollectorSave \/ CollectorStatus \/ CollectorExit

Next ==
    \/ Service \/ Cancel \/ Reader \/ Collector
    \/ \E w \in Workers : Work(w)

Spec == Init /\ [][Next]_vars

\* Goroutines are scheduled, database and S3 calls end.  Files need not come,
\* nobody need cancel, and nothing need fail.
FairSpec ==
    /\ Spec
    /\ WF_vars(MarkProcessing \/ StartImport \/ Complete \/ Fail)
    /\ WF_vars(ReadBatch \/ ReadCancelled \/ EndOfFile \/ WaitWorkers \/ Sleep)
    /\ WF_vars(Collector)
    /\ \A w \in Workers : WF_vars(Work(w))

------------------------------------------------------------------------------
(* Properties.                                                             *)

In(channel, b) == \E i \in 1..Len(channel) : channel[i] = b
Once(channel)  == \A i, k \in 1..Len(channel) : channel[i] = channel[k] => i = k
Held(b)        == \E w \in Workers : holding[w] = b
Stored(b)      == b \in saved \cup rejected

OneHolder == \A v, w \in Workers : holding[v] = holding[w] /\ holding[v] # NoBatch => v = w
OnePlace(b) ==
    /\ In(batchChan, b)  => ~Held(b) /\ ~In(resultChan, b) /\ collecting # b /\ ~Stored(b)
    /\ Held(b)           => ~In(resultChan, b) /\ collecting # b /\ ~Stored(b)
    /\ In(resultChan, b) => collecting # b /\ ~Stored(b)
    /\ collecting = b    => ~Stored(b)
    /\ b \notin saved \cap rejected
SomePlace(b) ==
    In(batchChan, b) \/ Held(b) \/ In(resultChan, b) \/ collecting = b \/ Stored(b)

\* A batch that has been read is in exactly one place, and none is lost as long
\* as the context lives, also after ProcessFile has returned (channels of
\* ProcessFile, worker, resultCollector).
BatchCustody ==
    /\ Once(batchChan) /\ Once(resultChan) /\ OneHolder
    /\ \A b \in 1..Batches :
         /\ OnePlace(b)
         /\ b <= sent /\ ~ctxDone => SomePlace(b)
         /\ b > sent => ~SomePlace(b)

\* No worker can send on resultChan once it is closed, which would panic
\* (wg.Wait before close in ProcessFile).
NoSendOnClosed == resultsClosed => \A w \in Workers : worker[w] = "gone"

\* When the collector has gone, every batch of a file whose context lives has
\* been saved or counted as an error.
CollectorDrains ==
    collector = "gone" /\ ~ctxDone => saved \cup rejected = 1..Batches

Before == {"idle", "accepted", "download"}

\* The inductive strengthening of the three: hands and program counters agree,
\* nobody has begun before ProcessFile has, and channels are closed in order.
Handover ==
    /\ \A w \in Workers : worker[w] = "holding" <=> holding[w] # NoBatch
    /\ collector = "saving" <=> collecting # NoBatch
    /\ pc \in Before =>
         /\ \A w \in Workers : worker[w] = "off"
         /\ collector = "off" /\ ~batchesClosed
    /\ batchesClosed => pc # "reading"
    /\ pc \in {"waiting", "sleeping"} => batchesClosed /\ sent = Batches
    /\ resultsClosed => sent = Batches /\ pc \in {"sleeping", "completing", "done"}
    /\ \A w \in Workers : worker[w] = "gone" /\ ~ctxDone => batchesClosed /\ batchChan = <<>>
    /\ collector = "gone" => resultsClosed /\ resultChan = <<>>

\* ProcessFile returns, whatever fails and whenever the context is cancelled.
ImportReturns == pc = "reading" ~> pc = "done"

\* "Wait for result collector to finish": a completed import stays completed
\* until somebody cancels it.
CompletedIsFinal ==
    [][row.status = "completed" => row'.status \in {"completed", "cancelled"}]_vars

\* "Processing cancelled by user": a cancelled import stays cancelled.
CancelledIsFinal == [][row.status = "cancelled" => row'.status = "cancelled"]_vars

\* "Wait for result collector to finish", for a caller that is told the import
\* succeeded: every batch has been saved or rejected by then.
SuccessIsSaved == outcome = "ok" => saved \cup rejected = 1..Batches
==============================================================================
