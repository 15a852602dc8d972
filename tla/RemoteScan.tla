----------------------------- MODULE RemoteScan -----------------------------
(***************************************************************************)
(* Ingestor.ScanPages (pkg/ingestor/ingest.go) over a RemoteBackend: what  *)
(* `odi ingest --backend remote` runs.  One goroutine scans pages into a   *)
(* channel, a pool of workers calls ProcessPage, and when the channel is   *)
(* drained the producer flushes the backend and reports.  Scans follow one *)
(* another on one backend, each with a scan ID of its own; the context may *)
(* be cancelled at any time.                                               *)
(***************************************************************************)
EXTENDS RemoteBackend

CONSTANT Sessions    \* per ScanPages call, the pages the scanner delivers

(* ScanPages draws a new scan ID in every call and gives it to each page.  *)
ASSUME SessionsAssumption ==
  /\ Sessions \in Seq(Seq(Page))
  /\ \A n \in DOMAIN Sessions : \A i, j \in DOMAIN Sessions[n] :
       ScanOf[Sessions[n][i]] = ScanOf[Sessions[n][j]]

VARIABLES
  producer,    \* where ScanPages is
  session,     \* the number of the current call
  left,        \* the pages still in the scanner
  queue,       \* pageChan
  cancelled,   \* ctx
  scanErr,     \* whether scanErr is set
  result       \* history: what each call returned

scanning == <<producer, session, left, queue, cancelled, scanErr, result>>
allVars == <<vars, scanning>>

ScanTypeOK ==
  /\ TypeOK
  /\ producer \in {"between", "scan", "send", "delay", "drain", "flush", "flushing"}
  /\ session \in 0..Len(Sessions)
  /\ left \in Seq(Page) /\ queue \in Seq(Page)
  /\ Len(queue) <= Cardinality(Worker)
  /\ cancelled \in BOOLEAN /\ scanErr \in BOOLEAN
  /\ result \in [1..Len(Sessions) -> {"none", "ok", "error"}]
  /\ producer = "send" => left # <<>>
  /\ producer \in {"between", "flush", "flushing"} => queue = <<>>

ScanInit ==
  /\ Init
  /\ producer = "between" /\ session = 0
  /\ left = <<>> /\ queue = <<>>
  /\ cancelled = FALSE /\ scanErr = FALSE
  /\ result = [n \in 1..Len(Sessions) |-> "none"]

-----------------------------------------------------------------------------
(* The producer                                                            *)

StartScan ==
  /\ producer = "between" /\ session < Len(Sessions)
  /\ producer' = "scan"
  /\ session' = session + 1
  /\ left' = Sessions[session + 1]
  /\ scanErr' = FALSE
  /\ UNCHANGED <<vars, queue, cancelled, result>>

(* The loop ends and the channel is closed.                                *)
StopScan(failed) ==
  /\ producer' = "drain"
  /\ scanErr' = failed

ScanPage ==
  /\ producer = "scan"
  /\ \/ cancelled /\ StopScan(TRUE)
     \/ ~cancelled /\ left = <<>> /\ StopScan(FALSE)
     \/ ~cancelled /\ StopScan(TRUE)     \* scanner error, unreadable or too large
     \/ ~cancelled /\ left # <<>> /\ producer' = "send" /\ UNCHANGED scanErr
  /\ UNCHANGED <<vars, session, left, queue, cancelled, result>>

Send ==
  /\ producer = "send"
  /\ \/ /\ Len(queue) < Cardinality(Worker)
        /\ queue' = Append(queue, Head(left))
        /\ left' = Tail(left)
        /\ producer' = "delay"
        /\ UNCHANGED scanErr
     \/ /\ cancelled /\ StopScan(TRUE)
        /\ UNCHANGED <<queue, left>>
  /\ UNCHANGED <<vars, session, cancelled, result>>

Delay ==
  /\ producer = "delay"
  /\ \/ producer' = "scan" /\ UNCHANGED scanErr
     \/ cancelled /\ StopScan(TRUE)
  /\ UNCHANGED <<vars, session, left, queue, cancelled, result>>

(* Mutant: ScanPages does not wait for its workers.                        *)
WorkersDoneEarly == queue = <<>>

WorkersDone == queue = <<>> /\ \A w \in Worker : at[w] = "outside"

Wait ==
  /\ producer = "drain"
  /\ WorkersDone
  /\ producer' = "flush"
  /\ UNCHANGED <<vars, session, left, queue, cancelled, scanErr, result>>

FlushBackend ==
  /\ producer = "flush"
  /\ Flush
  /\ producer' = "flushing"
  /\ UNCHANGED <<session, left, queue, cancelled, scanErr, result>>

(* failedPages is the number of pages of this scan that were refused.      *)
EndScan ==
  /\ producer = "flushing" /\ flushMu # Main
  /\ LET ok == /\ ~scanErr /\ flushed = "ok"
               /\ refused \cap ToSet(Sessions[session]) = {}
     IN  result' = [result EXCEPT ![session] = IF ok THEN "ok" ELSE "error"]
  /\ producer' = "between"
  /\ left' = <<>>
  /\ UNCHANGED <<vars, session, queue, cancelled, scanErr>>

CloseBackend ==
  /\ producer = "between" /\ ~closed
  /\ Close
  /\ UNCHANGED scanning

-----------------------------------------------------------------------------
(* The pool                                                                *)

(* A worker takes the next page; processPageSafely looks at ctx first.     *)
Receive(w) ==
  /\ queue # <<>>
  /\ at[w] = "outside"
  /\ \/ ~cancelled /\ Call(w, Head(queue))
     \/ /\ cancelled
        /\ refused' = refused \cup {Head(queue)}
        /\ UNCHANGED <<buffer, flushErr, closed, timers, flushMu, at, page, accepted,
                       batch, previousErr, handled, told, flushed>>
  /\ queue' = Tail(queue)
  /\ UNCHANGED <<producer, session, left, cancelled, scanErr, result>>

Cancel ==
  /\ ~cancelled
  /\ cancelled' = TRUE
  /\ UNCHANGED <<vars, producer, session, left, queue, scanErr, result>>

-----------------------------------------------------------------------------
Backend ==
  /\ \/ \E w \in Worker : ProcessPage(w)
     \/ Timer
     \/ FlushEnds
  /\ UNCHANGED scanning

Scanning ==
  \/ ScanPage \/ Send \/ Delay \/ Wait \/ FlushBackend \/ EndScan

(* All scans are over, the backend is closed, and every callback has run.  *)
Finished ==
  /\ producer = "between" /\ session = Len(Sessions) /\ closed
  /\ UNCHANGED allVars

ScanNext ==
  \/ StartScan \/ Scanning \/ CloseBackend
  \/ \E w \in Worker : Receive(w)
  \/ Backend
  \/ Cancel
  \/ Finished

ScanSpec == ScanInit /\ [][ScanNext]_allVars

(* The scanner answers or fails, goroutines run, the HTTP client has a     *)
(* timeout.  Neither cancellation nor the idle timer need ever come.       *)
ScanFairness ==
  /\ WF_allVars(Scanning)
  /\ \A w \in Worker : WF_allVars(Receive(w))
  /\ \A w \in Worker : WF_allVars(ProcessPage(w) /\ UNCHANGED scanning)
  /\ WF_allVars(FlushEnds /\ UNCHANGED scanning)
  /\ WF_allVars((IdleUploaded \/ IdleUploadFails) /\ UNCHANGED scanning)

FairScanSpec == ScanSpec /\ ScanFairness

-----------------------------------------------------------------------------
(* Properties                                                              *)

(* When ScanPages returns nil, every page the scanner delivered has come   *)
(* to the server and was archived or found to be a duplicate, none failed  *)
(* and none is left in the client, whichever of full batches, idle uploads *)
(* and the final Flush carried it.                                         *)
NilMeansHandled ==
  \A n \in 1..Len(Sessions) :
    result[n] = "ok" => ToSet(Sessions[n]) \subseteq handled

(* Used by ScanPages, which closes a backend only between scans and        *)
(* flushes it before, the backend strands nothing: no page is lost in      *)
(* silence, without exception.                                             *)
ScanLosesNothing == NoSilentLoss /\ Stranded = {}

(* Scans that follow one another on a backend never share an upload.       *)
ScansApart == OneScanPerBatch

(* ScanPages returns: producer, pool and flushes never wait for each other *)
(* in a circle, and a cancelled or failing scan still drains the pool.     *)
ScanEnds == (producer # "between") ~> (producer = "between")
=============================================================================
