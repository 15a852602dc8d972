----------------------------- MODULE ReindexJob -----------------------------
(***************************************************************************)
(* The reindex job of the server (internal/server/reindex.go around        *)
(* reindex.Run): a POST starts it in a goroutine of its own unless the     *)
(* lock reindexProcessMu says that one is running, a GET reads its status, *)
(* and the server's shutdown cancels it.  What happens to a single page is *)
(* PagePipeline's business; here it is indexed, a duplicate or failed.     *)
(*                                                                         *)
(* reindexStatusMu makes every read and update of the status one step.     *)
(* The goroutine a handler starts is named after its client; the client    *)
(* may post again while it runs.                                           *)
(*                                                                         *)
(* The calls of a job carry no deadline, and the transport to OpenSearch   *)
(* has no timeout for an answer (indexer.go, line 118): a call may never   *)
(* return.  Only the end of workerCtx ends one that hangs.                 *)
(***************************************************************************)
EXTENDS Naturals

CONSTANTS
  Client,      \* who posts to /api/v1/admin/reindex
  None,        \* nobody
  MaxPages     \* bound: pages the storage lists

ASSUME JobAssumption == None \notin Client /\ MaxPages \in Nat

VARIABLES
  lock,        \* whose goroutine will unlock reindexProcessMu, or None
  status,      \* reindexStatus
  at,          \* where each handleStartReindex is
  job,         \* where each goroutine is
  left,        \* the pages each reindex.Run has not looked at
  result,      \* the local Result of each reindex.Run
  cancelled    \* workerCtx

vars == <<lock, status, at, job, left, result, cancelled>>

Counts == [total : Nat, processed : Nat, duplicates : Nat, failed : Nat]
NoCounts == [total |-> 0, processed |-> 0, duplicates |-> 0, failed |-> 0]

Busy == {"list", "total", "page", "call", "emit", "stop", "whole", "completed", "failed"}

TypeOK ==
  /\ lock \in Client \cup {None}
  /\ status \in [state : {"idle", "running", "completed", "failed"}, counts : Counts]
  /\ at \in [Client -> {"idle", "set", "go", "answer", "refuse"}]
  /\ job \in [Client -> Busy \cup {"none", "unlock"}]
  /\ left \in [Client -> Nat]
  /\ result \in [Client -> Counts]
  /\ cancelled \in BOOLEAN
  /\ \A c \in Client : job[c] \in {"page", "call", "emit"} =>
       left[c] + result[c].processed + result[c].duplicates + result[c].failed = result[c].total

Init ==
  /\ lock = None
  /\ status = [state |-> "idle", counts |-> NoCounts]
  /\ at = [c \in Client |-> "idle"]
  /\ job = [c \in Client |-> "none"]
  /\ left = [c \in Client |-> 0]
  /\ result = [c \in Client |-> NoCounts]
  /\ cancelled = FALSE

-----------------------------------------------------------------------------
(* StartReindex                                                            *)

Post(c) ==
  /\ at[c] = "idle"
  /\ \/ lock = None /\ lock' = c /\ at' = [at EXCEPT ![c] = "set"]
     \/ lock # None /\ at' = [at EXCEPT ![c] = "refuse"] /\ UNCHANGED lock
  /\ UNCHANGED <<status, job, left, result, cancelled>>

SetStatus(c) ==
  /\ at[c] = "set"
  /\ status' = [state |-> "running", counts |-> NoCounts]
  /\ at' = [at EXCEPT ![c] = "go"]
  /\ UNCHANGED <<lock, job, left, result, cancelled>>

(* Mutant: StartReindex unlocks when it returns, not its goroutine.        *)
GoUnlocked(c) ==
  /\ at[c] = "go"
  /\ at' = [at EXCEPT ![c] = "answer"]
  /\ job' = [job EXCEPT ![c] = "list"]
  /\ lock' = None
  /\ UNCHANGED <<status, left, result, cancelled>>

Go(c) ==
  /\ at[c] = "go"
  /\ at' = [at EXCEPT ![c] = "answer"]
  /\ job' = [job EXCEPT ![c] = "list"]
  /\ UNCHANGED <<lock, status, left, result, cancelled>>

(* 202 with the status as it then is, or 409.                              *)
AnswerPost(c) ==
  /\ at[c] \in {"answer", "refuse"}
  /\ at' = [at EXCEPT ![c] = "idle"]
  /\ UNCHANGED <<lock, status, job, left, result, cancelled>>

-----------------------------------------------------------------------------
(* runReindex and reindex.Run                                              *)

Goto(c, place) == job' = [job EXCEPT ![c] = place]

Update(counts) == status' = [status EXCEPT !.counts = counts]

Finish(state) == status' = [status EXCEPT !.state = state]

(* ListPages fails, or finds n pages.                                      *)
ListPages(c) ==
  /\ job[c] = "list"
  /\ \/ /\ Finish("failed") /\ Goto(c, "unlock")
        /\ UNCHANGED <<left, result>>
     \/ \E n \in 0..MaxPages :
          /\ left' = [left EXCEPT ![c] = n]
          /\ result' = [result EXCEPT ![c] = [NoCounts EXCEPT !.total = n]]
          /\ Goto(c, "total")
          /\ UNCHANGED status
  /\ UNCHANGED <<lock, at, cancelled>>

ShowTotal(c) ==
  /\ job[c] = "total"
  /\ status' = [status EXCEPT !.counts.total = result[c].total]
  /\ Goto(c, "page")
  /\ UNCHANGED <<lock, at, left, result, cancelled>>

(* What one page does to the counts.                                       *)
Counted(counts) ==
  {[counts EXCEPT !.processed = @ + 1],
   [counts EXCEPT !.duplicates = @ + 1],
   [counts EXCEPT !.failed = @ + 1]}

(* A cancelled context fails one page and ends the loop.                   *)
RunPage(c) ==
  /\ job[c] = "page"
  /\ \/ left[c] = 0 /\ Goto(c, "whole") /\ UNCHANGED <<left, result>>
     \/ left[c] > 0 /\ ~cancelled /\ Goto(c, "call") /\ UNCHANGED <<left, result>>
     \/ /\ left[c] > 0 /\ cancelled
        /\ result' = [result EXCEPT ![c].failed = @ + 1]
        /\ left' = [left EXCEPT ![c] = 0]
        /\ Goto(c, "stop")
  /\ UNCHANGED <<lock, status, at, cancelled>>

(* The page is retrieved, reserved and indexed, or one of these fails; the *)
(* context may be cancelled meanwhile.                                     *)
PageDone(c) ==
  /\ job[c] = "call"
  /\ \E r \in Counted(result[c]) : result' = [result EXCEPT ![c] = r]
  /\ left' = [left EXCEPT ![c] = @ - 1]
  /\ Goto(c, "emit")
  /\ UNCHANGED <<lock, status, at, cancelled>>

Show(counts) == Update(counts)

Emit(c) ==
  /\ job[c] \in {"emit", "stop"}
  /\ Show(result[c])
  /\ Goto(c, IF job[c] = "emit" THEN "page" ELSE "whole")
  /\ UNCHANGED <<lock, at, left, result, cancelled>>

(* Mutant: the context is not looked at after the run.                     *)
OutcomeCompleted == "completed"

Outcome == IF cancelled THEN "failed" ELSE "completed"

ShowResult(c) ==
  /\ job[c] = "whole"
  /\ Update(result[c])
  /\ Goto(c, Outcome)
  /\ UNCHANGED <<lock, at, left, result, cancelled>>

FinishReindex(c) ==
  /\ job[c] \in {"completed", "failed"}
  /\ Finish(job[c])
  /\ Goto(c, "unlock")
  /\ UNCHANGED <<lock, at, left, result, cancelled>>

(* Mutant: the goroutine ends without the deferred Unlock.                 *)
UnlockNot == UNCHANGED lock

Unlock == lock' = None

GoroutineEnds(c) ==
  /\ job[c] = "unlock"
  /\ Unlock
  /\ Goto(c, "none")
  /\ UNCHANGED <<status, at, left, result, cancelled>>

-----------------------------------------------------------------------------
(* The server shuts down.                                                  *)
Cancel ==
  /\ ~cancelled
  /\ cancelled' = TRUE
  /\ UNCHANGED <<lock, status, at, job, left, result>>

StartReindex(c) == SetStatus(c) \/ Go(c) \/ AnswerPost(c)

RunReindex(c) ==
  \/ ListPages(c) \/ ShowTotal(c) \/ RunPage(c) \/ PageDone(c) \/ Emit(c)
  \/ ShowResult(c) \/ FinishReindex(c) \/ GoroutineEnds(c)

Next ==
  \/ \E c \in Client : Post(c) \/ StartReindex(c) \/ RunReindex(c)
  \/ Cancel

Spec == Init /\ [][Next]_vars

(* The job waits for the storage or the index.                             *)
InCall(c) == job[c] \in {"list", "call"}

(* Handlers and goroutines run.  A call owes no answer until the context   *)
(* is cancelled, and nobody is obliged to post or to shut down.            *)
JobFairness ==
  \A c \in Client :
    WF_vars(StartReindex(c)) /\ WF_vars(RunReindex(c) /\ (InCall(c) => cancelled))

FairSpec == Spec /\ JobFairness

-----------------------------------------------------------------------------
(* Properties                                                              *)

(* At most one job runs at a time, and the lock is held until it has shown *)
(* how it ended, however POSTs interleave with the end of a job.           *)
OneJobAtATime ==
  \A c \in Client :
    /\ job[c] # "none" => lock = c
    /\ at[c] \in {"set", "go"} => lock = c /\ job[c] = "none"

(* The status is that of the running job: between two pages it shows the   *)
(* counts of that job's own result and no other's.                         *)
StatusIsOfJob ==
  \A c \in Client :
    /\ job[c] \in Busy => status.state = "running"
    /\ job[c] \in {"page", "call", "whole", "completed", "failed"} => status.counts = result[c]

(* A job that completed has looked at every page that was listed; one that *)
(* was cut short by the shutdown says that it failed.                      *)
CompletedIsWhole ==
  LET n == status.counts.processed + status.counts.duplicates + status.counts.failed IN
  /\ n <= status.counts.total
  /\ status.state = "completed" => n = status.counts.total

Advances(old, new) ==
  /\ new.processed >= old.processed
  /\ new.duplicates >= old.duplicates
  /\ new.failed >= old.failed
  /\ new.total >= old.total

(* Whoever polls the status sees counts that only grow while a job runs,   *)
(* and once it has ended a status that stays until the next job starts.    *)
StatusAdvances ==
  [][IF status.state = "running"
       THEN Advances(status.counts, status'.counts)
       ELSE status'.state # "running" => status' = status]_vars

(* A job that was started ends, and another may be started: the lock is    *)
(* not kept for ever, unless a call never returns and nobody cancels it.   *)
JobEnds ==
  \A c \in Client :
    []<>(InCall(c) => cancelled) =>
      /\ lock = c ~> lock # c
      /\ lock = c /\ status.state = "running" ~> status.state # "running"
=============================================================================
