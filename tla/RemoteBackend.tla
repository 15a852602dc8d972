--------------------------- MODULE RemoteBackend ---------------------------
(***************************************************************************)
(* The buffering upload client of pkg/ingestor/remote.go.  Any number of   *)
(* goroutines call ProcessPage, one calls Flush and Close, and an idle     *)
(* timer sends what nobody else has sent.                                  *)
(*                                                                         *)
(* The mutex mu guards the buffer; each critical section under mu is one   *)
(* step here.  The mutex flushMu is held across an upload and is a         *)
(* variable: its holder has sent its batch and waits for the answer.  Code *)
(* that takes flushMu and then mu does both in one step, because nobody    *)
(* waits for flushMu while holding mu.                                     *)
(*                                                                         *)
(* A page is handled when the server has archived it or has found its      *)
(* content reserved ("duplicate"); the client counts the two alike, for it *)
(* looks only for failed pages in an answer (flushBatchLocked).  What is   *)
(* behind a duplicate verdict - perhaps a page still in work, or a         *)
(* reservation left over - is the matter of PagePipeline.  When the client *)
(* sees an error the server may have handled any of the pages (a lost      *)
(* answer, a partly failed batch, 409 for a batch of nothing but           *)
(* duplicates).                                                            *)
(***************************************************************************)
EXTENDS Naturals, Sequences, FiniteSets, SequencesExt

CONSTANTS
  Page,           \* page identifiers
  Scan,           \* scan IDs
  ScanOf,         \* the scan each page belongs to
  Size,           \* the bytes of each page
  MaxPages,       \* BatchMaxPages
  MaxBytes,       \* BatchMaxBytes
  Worker,         \* goroutines that call ProcessPage
  Main,           \* the goroutine that calls Flush and Close
  Idle,           \* callbacks of the idle timer
  None,           \* nobody, nothing
  MaxGeneration   \* bound: no free Flush after this many timer generations

Thread == Worker \cup {Main, Idle}

ASSUME RemoteAssumption ==
  /\ ScanOf \in [Page -> Scan]
  /\ Size \in [Page -> Nat]
  /\ MaxPages \in Nat \ {0} /\ MaxBytes \in Nat \ {0}
  /\ Main \notin Worker /\ Idle \notin Worker /\ Main # Idle
  /\ None \notin Page \cup Scan \cup Thread
  /\ MaxGeneration \in Nat

VARIABLES
  buf, bufBytes, currScan, flushErr, closed,
  generation,   \* timerGeneration
  timer,        \* the generation of the running idle timer, 0 if there is none
  fired,        \* generations of callbacks that have not taken flushMu yet
  flushMu,      \* the holder of flushMu
  at,           \* where each worker is in ProcessPage
  page,         \* the page each worker was called with
  batch,        \* the pages each thread has taken out of the buffer
  previousErr,  \* the local of Flush
  handled,      \* pages the server has archived or found to be duplicates
  accepted,     \* history: pages whose ProcessPage returned nil
  refused,      \* history: pages whose ProcessPage returned an error
  owed,         \* history: pages of failed idle uploads nobody was told of
  reported,     \* history: pages of failed uploads whose error was returned
  flushed       \* history: what the last Flush returned

buffer  == <<buf, bufBytes, currScan>>
timers  == <<generation, timer, fired>>
callers == <<at, page, accepted, refused>>
told    == <<owed, reported>>
vars == <<buffer, flushErr, closed, timers, flushMu, callers, batch,
          previousErr, handled, told, flushed>>

Places == {"outside", "enter", "change", "relock", "full"}

TypeOK ==
  /\ buf \in Seq(Page) /\ bufBytes \in Nat
  /\ currScan \in Scan \cup {None}
  /\ flushErr \in BOOLEAN /\ closed \in BOOLEAN /\ previousErr \in BOOLEAN
  /\ generation \in Nat /\ timer \in 0..generation /\ fired \subseteq 1..generation
  /\ flushMu \in Thread \cup {None}
  /\ at \in [Worker -> Places]
  /\ page \in [Worker -> Page \cup {None}]
  /\ batch \in [Thread -> Seq(Page)]
  /\ handled \subseteq Page
  /\ accepted \subseteq Page /\ refused \subseteq Page
  /\ owed \subseteq Page /\ reported \subseteq Page
  /\ flushed \in {"none", "ok", "error"}
  /\ \A w \in Worker : at[w] # "outside" <=> page[w] # None
  /\ \A w \in Worker : at[w] \in {"change", "full"} <=> batch[w] # <<>>
  /\ \A t \in {Main, Idle} : flushMu = t <=> batch[t] # <<>>

Init ==
  /\ buf = <<>> /\ bufBytes = 0 /\ currScan = None
  /\ flushErr = FALSE /\ closed = FALSE /\ previousErr = FALSE
  /\ generation = 0 /\ timer = 0 /\ fired = {}
  /\ flushMu = None
  /\ at = [w \in Worker |-> "outside"]
  /\ page = [w \in Worker |-> None]
  /\ batch = [t \in Thread |-> <<>>]
  /\ handled = {} /\ accepted = {} /\ refused = {}
  /\ owed = {} /\ reported = {}
  /\ flushed = "none"

-----------------------------------------------------------------------------
(* The buffer, the idle timer and the server                               *)

(* Mutant: the batch is sent and stays in the buffer.                      *)
EmptyBufferNot == UNCHANGED buffer

EmptyBuffer == buf' = <<>> /\ bufBytes' = 0 /\ UNCHANGED currScan

TakeBuffer(t) ==
  /\ batch' = [batch EXCEPT ![t] = buf]
  /\ EmptyBuffer

(* Mutant: the callback remembers the generation before the increment.     *)
ResetIdleTimerStale ==
  /\ generation' = generation + 1
  /\ timer' = generation
  /\ UNCHANGED fired

ResetIdleTimer ==
  /\ generation' = generation + 1
  /\ timer' = generation + 1
  /\ UNCHANGED fired

StopIdleTimer ==
  /\ generation' = generation + 1
  /\ timer' = 0
  /\ UNCHANGED fired

(* The upload of thread t ends and flushMu is released.                    *)
Uploaded(t) ==
  /\ flushMu = t /\ flushMu' = None
  /\ handled' = handled \cup ToSet(batch[t])
  /\ batch' = [batch EXCEPT ![t] = <<>>]

(* Mutant: the error path returns without unlocking flushMu.               *)
UploadFailsLocked(t) ==
  /\ flushMu = t /\ UNCHANGED flushMu
  /\ \E S \in SUBSET ToSet(batch[t]) : handled' = handled \cup S
  /\ batch' = [batch EXCEPT ![t] = <<>>]

UploadFails(t) ==
  /\ flushMu = t /\ flushMu' = None
  /\ \E S \in SUBSET ToSet(batch[t]) : handled' = handled \cup S
  /\ batch' = [batch EXCEPT ![t] = <<>>]

-----------------------------------------------------------------------------
(* ProcessPage                                                             *)

Goto(w, a) ==
  /\ at' = [at EXCEPT ![w] = a]
  /\ UNCHANGED <<page, accepted, refused>>

Return(w, ok) ==
  /\ at' = [at EXCEPT ![w] = "outside"]
  /\ page' = [page EXCEPT ![w] = None]
  /\ accepted' = IF ok THEN accepted \cup {page[w]} ELSE accepted
  /\ refused' = IF ok THEN refused ELSE refused \cup {page[w]}

Call(w, p) ==
  /\ at[w] = "outside"
  /\ at' = [at EXCEPT ![w] = "enter"]
  /\ page' = [page EXCEPT ![w] = p]
  /\ UNCHANGED <<buffer, flushErr, closed, timers, flushMu, accepted, refused,
                 batch, previousErr, handled, told, flushed>>

IsFull(s, n) == Len(s) >= MaxPages \/ n >= MaxBytes

(* The rest of the critical section once the scans agree.                  *)
AppendPage(w) ==
  LET s == Append(buf, page[w])
      n == bufBytes + Size[page[w]] IN
  /\ ResetIdleTimer
  /\ currScan' = ScanOf[page[w]]
  /\ \/ /\ IsFull(s, n)
        /\ batch' = [batch EXCEPT ![w] = s]
        /\ buf' = <<>> /\ bufBytes' = 0
        /\ Goto(w, "full")
     \/ /\ ~IsFull(s, n)
        /\ buf' = s /\ bufBytes' = n
        /\ Return(w, TRUE)
        /\ UNCHANGED batch
  /\ UNCHANGED told

ScanChanges(w) == currScan \notin {None, ScanOf[page[w]]}

(* flushBatch returns at once when the batch is empty.                     *)
LeaveForChange(w) ==
  /\ TakeBuffer(w)
  /\ Goto(w, IF buf = <<>> THEN "relock" ELSE "change")
  /\ UNCHANGED <<timers, told>>

Enter(w) ==
  /\ at[w] = "enter"
  /\ \/ /\ flushErr                          \* the error stays
        /\ Return(w, FALSE)
        /\ owed' = {} /\ reported' = reported \cup owed
        /\ UNCHANGED <<buffer, timers, batch>>
     \/ /\ ~flushErr /\ closed
        /\ Return(w, FALSE)
        /\ UNCHANGED <<buffer, timers, batch, told>>
     \/ ~flushErr /\ ~closed /\ ScanChanges(w)  /\ LeaveForChange(w)
     \/ ~flushErr /\ ~closed /\ ~ScanChanges(w) /\ AppendPage(w)
  /\ UNCHANGED <<flushErr, closed, flushMu, previousErr, handled, flushed>>

(* The page cannot be read, or the call panics before it takes mu.         *)
Unreadable(w) ==
  /\ at[w] = "enter"
  /\ Return(w, FALSE)
  /\ UNCHANGED <<buffer, flushErr, closed, timers, flushMu, batch,
                 previousErr, handled, told, flushed>>

(* Back under mu after the batch of the other scan: nothing is tested anew.*)
Relock(w) ==
  /\ at[w] = "relock"
  /\ AppendPage(w)
  /\ UNCHANGED <<flushErr, closed, flushMu, previousErr, handled, flushed>>

LockFlush(w) ==
  /\ at[w] \in {"change", "full"}
  /\ flushMu = None
  /\ flushMu' = w
  /\ UNCHANGED <<buffer, flushErr, closed, timers, callers, batch,
                 previousErr, handled, told, flushed>>

WorkerUploaded(w) ==
  /\ Uploaded(w)
  /\ \/ at[w] = "change" /\ Goto(w, "relock")
     \/ at[w] = "full"   /\ Return(w, TRUE)
  /\ UNCHANGED <<buffer, flushErr, closed, timers, previousErr, told, flushed>>

WorkerUploadFails(w) ==
  /\ UploadFails(w)
  /\ Return(w, FALSE)
  /\ reported' = reported \cup ToSet(batch[w])
  /\ UNCHANGED <<buffer, flushErr, closed, timers, previousErr, owed, flushed>>

-----------------------------------------------------------------------------
(* The idle timer                                                          *)

IdleFires ==
  /\ timer # 0
  /\ timer' = 0
  /\ fired' = fired \cup {timer}
  /\ UNCHANGED <<buffer, flushErr, closed, generation, flushMu, callers, batch,
                 previousErr, handled, told, flushed>>

Outdated(g) == closed \/ g # generation

IdleCallback(g) ==
  /\ flushMu = None
  /\ fired' = fired \ {g}
  /\ IF Outdated(g) \/ buf = <<>>
       THEN UNCHANGED <<buffer, batch, flushMu>>
       ELSE TakeBuffer(Idle) /\ flushMu' = Idle
  /\ UNCHANGED <<flushErr, closed, generation, timer, callers,
                 previousErr, handled, told, flushed>>

IdleUploaded ==
  /\ Uploaded(Idle)
  /\ UNCHANGED <<buffer, flushErr, closed, timers, callers, previousErr, told, flushed>>

(* Mutant: the error of an idle upload is only logged.                     *)
IdleUploadFailsQuietly ==
  /\ UploadFails(Idle)
  /\ owed' = owed \cup ToSet(batch[Idle])
  /\ UNCHANGED <<buffer, flushErr, closed, timers, callers, previousErr, reported, flushed>>

IdleUploadFails ==
  /\ UploadFails(Idle)
  /\ flushErr' = TRUE
  /\ owed' = owed \cup ToSet(batch[Idle])
  /\ UNCHANGED <<buffer, closed, timers, callers, previousErr, reported, flushed>>

-----------------------------------------------------------------------------
(* Flush and Close                                                         *)

(* Mutant: the previous error is dropped when the new upload succeeds.     *)
FlushReturnsLast(previous, lost) ==
  /\ flushed' = IF lost # {} THEN "error" ELSE "ok"
  /\ reported' = reported \cup lost
  /\ previousErr' = FALSE
  /\ UNCHANGED owed

(* Both errors are joined: that of an earlier idle upload and that of the  *)
(* batch just lost.                                                        *)
FlushReturns(previous, lost) ==
  /\ flushed' = IF previous \/ lost # {} THEN "error" ELSE "ok"
  /\ owed' = IF previous THEN {} ELSE owed
  /\ reported' = reported \cup lost \cup (IF previous THEN owed ELSE {})
  /\ previousErr' = FALSE

Flush ==
  /\ flushMu = None
  /\ StopIdleTimer
  /\ flushErr' = FALSE
  /\ \/ /\ buf = <<>>
        /\ FlushReturns(flushErr, {})
        /\ UNCHANGED <<buffer, batch, flushMu>>
     \/ /\ buf # <<>>
        /\ TakeBuffer(Main)
        /\ flushMu' = Main
        /\ previousErr' = flushErr
        /\ UNCHANGED <<told, flushed>>
  /\ UNCHANGED <<closed, callers, handled>>

FlushUploaded ==
  /\ Uploaded(Main)
  /\ FlushReturns(previousErr, {})
  /\ UNCHANGED <<buffer, flushErr, closed, timers, callers>>

FlushUploadFails ==
  /\ UploadFails(Main)
  /\ FlushReturns(previousErr, ToSet(batch[Main]))
  /\ UNCHANGED <<buffer, flushErr, closed, timers, callers>>

Close ==
  /\ flushMu = None
  /\ StopIdleTimer
  /\ closed' = TRUE
  /\ UNCHANGED <<buffer, flushErr, flushMu, callers, batch,
                 previousErr, handled, told, flushed>>

-----------------------------------------------------------------------------
(* Callers that are free to call at any time                               *)

Fresh(p) ==
  /\ p \notin accepted \cup refused
  /\ \A w \in Worker : page[w] # p

ProcessPage(w) ==
  \/ Enter(w) \/ Unreadable(w) \/ Relock(w)
  \/ LockFlush(w) \/ WorkerUploaded(w) \/ WorkerUploadFails(w)

Timer ==
  \/ IdleFires
  \/ \E g \in fired : IdleCallback(g)
  \/ IdleUploaded \/ IdleUploadFails

FlushEnds == FlushUploaded \/ FlushUploadFails

Next ==
  \/ \E w \in Worker, p \in Page : Fresh(p) /\ Call(w, p)
  \/ \E w \in Worker : ProcessPage(w)
  \/ Timer
  \/ generation < MaxGeneration /\ (Flush \/ Close)
  \/ FlushEnds

Spec == Init /\ [][Next]_vars

(* Timers fire, their goroutines and the callers run, and the HTTP client  *)
(* has a timeout; nobody is obliged to call.                               *)
FairSpec ==
  /\ Spec
  /\ \A w \in Worker : WF_vars(ProcessPage(w))
  /\ WF_vars(IdleFires)
  /\ WF_vars(\E g \in fired : IdleCallback(g))
  /\ WF_vars(IdleUploaded \/ IdleUploadFails)
  /\ WF_vars(FlushEnds)

-----------------------------------------------------------------------------
(* Properties                                                              *)

(* Where the pages are that have been appended and neither handled nor     *)
(* lost in a failed upload.                                                *)
UnderWay == ToSet(buf) \cup UNION {ToSet(batch[t]) : t \in Thread}

(* The pages in the buffer of a closed backend: the idle timer passes them *)
(* by, and unless somebody calls Flush again nobody sends them or says so. *)
(* They come from a worker that was out of mu for a change of scan while   *)
(* Close went through, since Relock does not look at closed again.         *)
Stranded == IF closed THEN ToSet(buf) ELSE {}

(* The pages that something is bound to send: a thread with its batch, or  *)
(* for those in the buffer the idle timer.                                 *)
OnItsWay == UnderWay \ Stranded

(* No page that ProcessPage took is lost in silence, but for those in the  *)
(* buffer of a closed backend: it is handled, on its way, or its upload    *)
(* failed and some call has returned that error or will (flushErr, or      *)
(* previousErr of the Flush in progress), over every order of full         *)
(* batches, idle uploads and flushes.                                      *)
NoSilentLoss ==
  /\ accepted \subseteq handled \cup OnItsWay \cup Stranded \cup reported \cup owed
  /\ owed # {} => flushErr \/ previousErr

(* A page is in the buffer or in one batch, and there once, and never      *)
(* again once an upload with it has ended: whatever flushes overlap, no    *)
(* page is sent twice.                                                     *)
SentOnce ==
  /\ IsInjective(buf)
  /\ \A t \in Thread : IsInjective(batch[t]) /\ ToSet(batch[t]) \cap ToSet(buf) = {}
  /\ \A t, u \in Thread : t # u => ToSet(batch[t]) \cap ToSet(batch[u]) = {}
  /\ UnderWay \cap (handled \cup owed \cup reported) = {}

(* A batch holds pages of one scan (lines 150-151: "so we never mix two    *)
(* scans in one upload"); its scan ID is that of its first page.           *)
OneScanPerBatch ==
  \A t \in Thread : \A i, j \in DOMAIN batch[t] : ScanOf[batch[t][i]] = ScanOf[batch[t][j]]

Delivery == INSTANCE PageDelivery WITH
  waiting <- UnderWay,
  delivered <- handled,
  lost <- owed,
  told <- reported,
  failed <- flushErr \/ previousErr,
  acked <- accepted

(* The backend keeps what an upload client owes its callers: through       *)
(* buffer, batches, timer and both mutexes a page leaves in one attempt,   *)
(* and the error of a failed one is not forgotten before it is returned,   *)
(* which then answers for all that was lost (lines 132-133: ProcessPage    *)
(* "returns that error so callers know to stop the scan", as Flush does).  *)
BackendImplementsDelivery == Delivery!Spec

(* No page stays in the client for ever: unless the backend is closed, the *)
(* idle timer sends it if nothing else does, and the upload ends.          *)
IdleFlushes ==
  \A p \in Page : p \in ToSet(buf) ~> p \notin UnderWay \/ closed
=============================================================================
