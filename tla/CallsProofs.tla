----------------------------- MODULE CallsProofs -----------------------------
(***************************************************************************)
(* Theorems about the two components that MCCalls runs one beside the      *)
(* other: ReindexJob, for every set of clients and every number of pages,  *)
(* and OcrClient, for every set of goroutines, every capacity of the       *)
(* semaphore and every number of retries and of calls.                     *)
(***************************************************************************)
EXTENDS ReindexJob, OcrClient, FiniteSetTheorems, TLAPS

-----------------------------------------------------------------------------
(* ReindexJob.  The inductive invariant JobInv is OneJobAtATime and        *)
(* StatusIsOfJob together with what each place of the job knows about its  *)
(* counts; the lock makes the one job that runs the only writer of the     *)
(* status.                                                                 *)

Sum(n) == n.processed + n.duplicates + n.failed

(* What the status and the job that holds the lock say of each other.      *)
StatusInv ==
  /\ Sum(status.counts) <= status.counts.total
  /\ status.state = "completed" => Sum(status.counts) = status.counts.total
  /\ status.state = "running" =>
       /\ lock # None
       /\ job[lock] \in Busy \/ at[lock] = "go"

(* What the job of client c knows at each place.                           *)
PlaceInv(c) ==
  /\ at[c] = "go" \/ job[c] \in {"list", "total"} =>
       status = [state |-> "running", counts |-> NoCounts]
  /\ job[c] \in {"total", "page", "call", "emit"} => left[c] + Sum(result[c]) = result[c].total
  /\ job[c] = "call" => left[c] > 0
  /\ job[c] = "total" => Sum(result[c]) = 0
  /\ job[c] \in {"emit", "stop"} => Advances(status.counts, result[c])
  /\ job[c] \in {"stop", "whole", "failed"} => Sum(result[c]) <= result[c].total
  /\ job[c] = "stop" => cancelled
  /\ job[c] = "whole" => cancelled \/ Sum(result[c]) = result[c].total
  /\ job[c] = "completed" => Sum(result[c]) = result[c].total

JobInv ==
  /\ OneJobAtATime /\ StatusIsOfJob /\ StatusInv
  /\ \A c \in Client : PlaceInv(c)

(* TypeOK without the equation that PlaceInv states.                       *)
Typed ==
  /\ lock \in Client \cup {None}
  /\ status \in [state : {"idle", "running", "completed", "failed"}, counts : Counts]
  /\ at \in [Client -> {"idle", "set", "go", "answer", "refuse"}]
  /\ job \in [Client -> Busy \cup {"none", "unlock"}]
  /\ left \in [Client -> Nat]
  /\ result \in [Client -> Counts]

LEMMA NoCountsTyped == NoCounts \in Counts /\ Sum(NoCounts) = 0
BY DEF NoCounts, Counts, Sum

(* One page adds one to the counts and leaves the total.                   *)
LEMMA CountedAddsOne ==
  ASSUME NEW n \in Counts, NEW r \in Counted(n)
  PROVE  r \in Counts /\ Advances(n, r) /\ r.total = n.total /\ Sum(r) = Sum(n) + 1
<1>1. CASE r = [n EXCEPT !.processed = @ + 1]
  BY <1>1 DEF Counts, Advances, Sum
<1>2. CASE r = [n EXCEPT !.duplicates = @ + 1]
  BY <1>2 DEF Counts, Advances, Sum
<1>3. CASE r = [n EXCEPT !.failed = @ + 1]
  BY <1>3 DEF Counts, Advances, Sum
<1> QED BY <1>1, <1>2, <1>3 DEF Counted

(* So does the page that a cancelled run gives up.                         *)
LEMMA FailedAddsOne ==
  ASSUME NEW n \in Counts
  PROVE  LET r == [n EXCEPT !.failed = @ + 1]
         IN  r \in Counts /\ Advances(n, r) /\ r.total = n.total /\ Sum(r) = Sum(n) + 1
BY DEF Counts, Advances, Sum

LEMMA SumTyped ==
  ASSUME NEW n \in Counts PROVE Sum(n) \in Nat
BY DEF Counts, Sum

LEMMA TypedInit == Init => Typed
BY NoCountsTyped DEF Init, Typed

LEMMA TypedNext == Typed /\ JobInv /\ [Next]_vars => Typed'
<1> SUFFICES ASSUME Typed, JobInv, [Next]_vars PROVE Typed'
  OBVIOUS
<1> USE JobAssumption DEF Typed, Busy
<1>1. ASSUME NEW c \in Client, Post(c) PROVE Typed'
  BY <1>1 DEF Post
<1>2. ASSUME NEW c \in Client, StartReindex(c) PROVE Typed'
  BY <1>2, NoCountsTyped DEF StartReindex, SetStatus, Go, AnswerPost
<1>3. ASSUME NEW c \in Client, ListPages(c) PROVE Typed'
  <2>1. \A n \in Nat : [NoCounts EXCEPT !.total = n] \in Counts
    BY DEF NoCounts, Counts
  <2> QED BY <1>3, <2>1 DEF ListPages, Finish, Goto
<1>4. ASSUME NEW c \in Client, ShowTotal(c) PROVE Typed'
  BY <1>4 DEF ShowTotal, Goto, Counts
<1>5. ASSUME NEW c \in Client, RunPage(c) PROVE Typed'
  <2>1. [result[c] EXCEPT !.failed = @ + 1] \in Counts
    BY FailedAddsOne
  <2>2. result' \in [Client -> Counts]
    BY <1>5, <2>1 DEF RunPage
  <2> QED BY <1>5, <2>2 DEF RunPage, Goto
<1>6. ASSUME NEW c \in Client, PageDone(c) PROVE Typed'
  <2>1. \A r \in Counted(result[c]) : r \in Counts
    BY CountedAddsOne
  <2>2. result' \in [Client -> Counts]
    BY <1>6, <2>1 DEF PageDone
  <2>3. left[c] - 1 \in Nat
    BY <1>6 DEF PageDone, JobInv, PlaceInv
  <2> QED BY <1>6, <2>2, <2>3 DEF PageDone, Goto
<1>7. ASSUME NEW c \in Client, Emit(c) \/ ShowResult(c) PROVE Typed'
  BY <1>7 DEF Emit, Show, ShowResult, Outcome, Update, Goto
<1>8. ASSUME NEW c \in Client, FinishReindex(c) PROVE Typed'
  BY <1>8 DEF FinishReindex, Finish, Goto
<1>9. ASSUME NEW c \in Client, GoroutineEnds(c) PROVE Typed'
  BY <1>9 DEF GoroutineEnds, Unlock, Goto
<1>10. CASE Cancel
  BY <1>10 DEF Cancel
<1>11. CASE UNCHANGED vars
  BY <1>11 DEF vars
<1> QED
  BY <1>1, <1>2, <1>3, <1>4, <1>5, <1>6, <1>7, <1>8, <1>9, <1>10, <1>11 DEF Next, RunReindex

-----------------------------------------------------------------------------
LEMMA JobInit == Init => JobInv
BY JobAssumption, NoCountsTyped
   DEF Init, JobInv, OneJobAtATime, StatusIsOfJob, StatusInv, PlaceInv, Busy, NoCounts

(* Only the client whose goroutine holds the lock has a job or is about to *)
(* start one, so a step of that goroutine disturbs no other.               *)
LEMMA Alone ==
  ASSUME Typed, JobInv, NEW c \in Client, job[c] # "none" \/ at[c] \in {"set", "go"}
  PROVE  /\ lock = c
         /\ \A d \in Client : d # c => job[d] = "none" /\ at[d] \notin {"set", "go"}
BY DEF JobInv, OneJobAtATime

LEMMA HandlerKeepsJobInv ==
  ASSUME Typed, JobInv, NEW c \in Client, Post(c) \/ StartReindex(c)
  PROVE  JobInv'
<1> USE JobAssumption DEF Typed, JobInv, Busy
<1>1. CASE Post(c)
  <2>1. OneJobAtATime'
    BY <1>1 DEF Post, OneJobAtATime
  <2>2. StatusIsOfJob' /\ StatusInv'
    BY <1>1 DEF Post, StatusIsOfJob, StatusInv
  <2>3. ASSUME NEW d \in Client PROVE PlaceInv(d)'
    BY <1>1 DEF Post, PlaceInv
  <2> QED BY <2>1, <2>2, <2>3
<1>2. CASE SetStatus(c)
  <2>0. /\ lock = c /\ job[c] = "none"
        /\ \A d \in Client : d # c => job[d] = "none" /\ at[d] \notin {"set", "go"}
    BY <1>2, Alone DEF SetStatus, OneJobAtATime
  <2>1. OneJobAtATime'
    BY <1>2 DEF SetStatus, OneJobAtATime
  <2>2. StatusIsOfJob' /\ StatusInv'
    BY <1>2, <2>0, NoCountsTyped DEF SetStatus, StatusIsOfJob, StatusInv, NoCounts
  <2>3. ASSUME NEW d \in Client PROVE PlaceInv(d)'
    BY <1>2, <2>0 DEF SetStatus, PlaceInv
  <2> QED BY <2>1, <2>2, <2>3
<1>3. CASE Go(c)
  <2>0. /\ lock = c /\ job[c] = "none"
        /\ \A d \in Client : d # c => job[d] = "none" /\ at[d] \notin {"set", "go"}
    BY <1>3, Alone DEF Go, OneJobAtATime
  <2>1. OneJobAtATime'
    BY <1>3, <2>0 DEF Go, OneJobAtATime
  <2>2. StatusIsOfJob' /\ StatusInv'
    BY <1>3, <2>0 DEF Go, StatusIsOfJob, StatusInv, PlaceInv
  <2>3. ASSUME NEW d \in Client PROVE PlaceInv(d)'
    BY <1>3, <2>0 DEF Go, PlaceInv
  <2> QED BY <2>1, <2>2, <2>3
<1>4. CASE AnswerPost(c)
  <2>1. OneJobAtATime'
    BY <1>4 DEF AnswerPost, OneJobAtATime
  <2>2. StatusIsOfJob' /\ StatusInv'
    BY <1>4 DEF AnswerPost, StatusIsOfJob, StatusInv
  <2>3. ASSUME NEW d \in Client PROVE PlaceInv(d)'
    BY <1>4 DEF AnswerPost, PlaceInv
  <2> QED BY <2>1, <2>2, <2>3
<1> QED BY <1>1, <1>2, <1>3, <1>4 DEF StartReindex

(* A step of the goroutine that holds the lock.  Nobody else has a job, so *)
(* only its own place and the status have to be looked at.                 *)
LEMMA OwnStep ==
  ASSUME Typed, Typed', JobInv, NEW c \in Client, job[c] \in Busy, job'[c] # "none",
         lock' = lock, at' = at,
         \A d \in Client : d # c => job'[d] = job[d],
         StatusInv', PlaceInv(c)',
         job'[c] \in Busy => status'.state = "running",
         job'[c] \in {"page", "call", "whole", "completed", "failed"} => status'.counts = result'[c]
  PROVE  JobInv'
<1>0. /\ lock = c
      /\ \A d \in Client : d # c => job[d] = "none" /\ at[d] \notin {"set", "go"}
  BY Alone DEF Busy
<1>1. OneJobAtATime'
  BY <1>0 DEF JobInv, OneJobAtATime, Busy
<1>2. StatusIsOfJob'
  BY <1>0 DEF StatusIsOfJob, Busy
<1>3. ASSUME NEW d \in Client PROVE PlaceInv(d)'
  <2>1. CASE d = c
    BY <2>1
  <2>2. CASE d # c
    BY <2>2, <1>0 DEF PlaceInv
  <2> QED BY <2>1, <2>2
<1> QED BY <1>1, <1>2, <1>3 DEF JobInv

(* What the place c is at, and the status while c is busy, say together.   *)
LEMMA BusyFacts ==
  ASSUME Typed, JobInv, NEW c \in Client, job[c] \in Busy
  PROVE  /\ lock = c /\ lock # None /\ at[c] \notin {"set", "go"}
         /\ status.state = "running" /\ status.counts \in Counts /\ result[c] \in Counts
         /\ Sum(status.counts) \in Nat /\ Sum(result[c]) \in Nat
         /\ left[c] \in Nat /\ result[c].total \in Nat
         /\ status.counts.total \in Nat
         /\ StatusInv /\ PlaceInv(c)
         /\ job[c] \in {"page", "call", "whole", "completed", "failed"} => status.counts = result[c]
<1>1. lock = c /\ at[c] \notin {"set", "go"}
  BY Alone DEF Busy, JobInv, OneJobAtATime
<1>2. status.counts \in Counts /\ result[c] \in Counts /\ left[c] \in Nat
  BY DEF Typed
<1>3. Sum(status.counts) \in Nat /\ Sum(result[c]) \in Nat
  BY <1>2, SumTyped
<1>4. result[c].total \in Nat /\ status.counts.total \in Nat
  BY <1>2 DEF Counts
<1> QED BY <1>1, <1>2, <1>3, <1>4, JobAssumption DEF JobInv, StatusIsOfJob

LEMMA JobKeepsJobInv ==
  ASSUME Typed, Typed', JobInv, NEW c \in Client, RunReindex(c)
  PROVE  JobInv'
<1> USE JobAssumption DEF Typed
<1>1. CASE ListPages(c)
  <2>0. job[c] = "list" /\ job[c] \in Busy
    BY <1>1 DEF ListPages, Busy
  <2>1. status = [state |-> "running", counts |-> NoCounts] /\ lock = c /\ lock # None
    BY <2>0, BusyFacts DEF PlaceInv
  <2>2. CASE Finish("failed") /\ Goto(c, "unlock") /\ UNCHANGED <<left, result>>
    <3>1. status' = [state |-> "failed", counts |-> NoCounts]
      BY <2>1, <2>2 DEF Finish
    <3>2. StatusInv'
      BY <3>1, NoCountsTyped DEF StatusInv, NoCounts
    <3>3. job' = [job EXCEPT ![c] = "unlock"] /\ at' = at /\ lock' = lock
      BY <1>1, <2>2 DEF Goto, ListPages
    <3>4. PlaceInv(c)'
      BY <2>0, <3>3, BusyFacts DEF PlaceInv
    <3> QED BY <2>0, <3>1, <3>2, <3>3, <3>4, OwnStep DEF Busy
  <2>3. ASSUME NEW n \in 0..MaxPages,
               left' = [left EXCEPT ![c] = n],
               result' = [result EXCEPT ![c] = [NoCounts EXCEPT !.total = n]],
               Goto(c, "total"), UNCHANGED status
        PROVE  JobInv'
    <3>1. /\ result'[c].total = n /\ result'[c] = [NoCounts EXCEPT !.total = n]
          /\ Sum(result'[c]) = 0 /\ left'[c] = n /\ n \in Nat
      BY <2>3 DEF NoCounts, Sum
    <3>2. job' = [job EXCEPT ![c] = "total"] /\ at' = at /\ lock' = lock
      BY <1>1, <2>3 DEF Goto, ListPages
    <3>3. PlaceInv(c)'
      BY <2>1, <2>3, <3>1, <3>2, <2>0, BusyFacts DEF PlaceInv
    <3>4. StatusInv'
      BY <2>0, <2>3, <3>2, BusyFacts DEF StatusInv, Busy
    <3> QED BY <2>0, <2>1, <2>3, <3>2, <3>3, <3>4, OwnStep DEF Busy
  <2> QED BY <1>1, <2>2, <2>3 DEF ListPages
<1>2. CASE ShowTotal(c)
  <2>0. job[c] = "total" /\ job[c] \in Busy
    BY <1>2 DEF ShowTotal, Busy
  <2>1. /\ status = [state |-> "running", counts |-> NoCounts]
        /\ result[c] \in Counts /\ Sum(result[c]) = 0
        /\ left[c] + Sum(result[c]) = result[c].total /\ left[c] \in Nat
    BY <2>0, BusyFacts DEF PlaceInv
  <2>2. result[c] = [NoCounts EXCEPT !.total = result[c].total]
    <3> DEFINE r == result[c]
    <3>0. r.processed \in Nat /\ r.duplicates \in Nat /\ r.failed \in Nat
          /\ r.processed + r.duplicates + r.failed = 0
      BY <2>1 DEF Counts, Sum
    <3>1. r.processed = 0 /\ r.duplicates = 0 /\ r.failed = 0
      <4> HIDE DEF r
      <4> QED BY <3>0
    <3>2. result[c] = [total |-> result[c].total, processed |-> 0, duplicates |-> 0, failed |-> 0]
      BY <2>1, <3>1 DEF Counts
    <3> QED BY <3>2 DEF NoCounts
  <2>3. status' = [state |-> "running", counts |-> [NoCounts EXCEPT !.total = result[c].total]]
    BY <1>2, <2>1 DEF ShowTotal
  <2>4. status'.state = "running" /\ status'.counts = result[c]
    BY <2>2, <2>3
  <2>5. /\ job' = [job EXCEPT ![c] = "page"] /\ at' = at /\ lock' = lock
        /\ result' = result /\ left' = left
    BY <1>2 DEF ShowTotal, Goto
  <2>6. StatusInv'
    BY <2>0, <2>1, <2>4, <2>5, BusyFacts DEF StatusInv, Busy
  <2>7. PlaceInv(c)'
    BY <2>0, <2>1, <2>5, BusyFacts DEF PlaceInv
  <2> QED BY <2>0, <2>4, <2>5, <2>6, <2>7, OwnStep DEF Busy
<1>3. CASE RunPage(c)
  <2>0. job[c] = "page" /\ job[c] \in Busy /\ at' = at /\ lock' = lock /\ status' = status
        /\ cancelled' = cancelled
    BY <1>3 DEF RunPage, Busy
  <2>1. /\ left[c] \in Nat /\ Sum(result[c]) \in Nat /\ result[c].total \in Nat
        /\ left[c] + Sum(result[c]) = result[c].total
        /\ result[c] \in Counts /\ status.counts = result[c] /\ status.state = "running"
        /\ at[c] # "go"
    BY <2>0, BusyFacts DEF PlaceInv
  <2>2. CASE left[c] = 0 /\ Goto(c, "whole") /\ UNCHANGED <<left, result>>
    <3>1. job' = [job EXCEPT ![c] = "whole"]
      BY <2>2 DEF Goto
    <3>2. PlaceInv(c)'
      BY <2>0, <2>1, <2>2, <3>1 DEF PlaceInv
    <3>3. StatusInv'
      BY <2>0, <3>1, BusyFacts DEF StatusInv, Busy
    <3> QED BY <2>0, <2>1, <2>2, <3>1, <3>2, <3>3, OwnStep DEF Busy
  <2>3. CASE left[c] > 0 /\ ~cancelled /\ Goto(c, "call") /\ UNCHANGED <<left, result>>
    <3>1. job' = [job EXCEPT ![c] = "call"]
      BY <2>3 DEF Goto
    <3>2. PlaceInv(c)'
      BY <2>0, <2>1, <2>3, <3>1 DEF PlaceInv
    <3>3. StatusInv'
      BY <2>0, <3>1, BusyFacts DEF StatusInv, Busy
    <3> QED BY <2>0, <2>1, <2>3, <3>1, <3>2, <3>3, OwnStep DEF Busy
  <2>4. CASE /\ left[c] > 0 /\ cancelled
             /\ result' = [result EXCEPT ![c].failed = @ + 1]
             /\ left' = [left EXCEPT ![c] = 0]
             /\ Goto(c, "stop")
    <3> DEFINE r == [result[c] EXCEPT !.failed = @ + 1]
    <3>1. job' = [job EXCEPT ![c] = "stop"] /\ result'[c] = r
      BY <2>4 DEF Goto
    <3>2. Advances(status.counts, r) /\ r.total = result[c].total /\ Sum(r) = Sum(result[c]) + 1
      BY <2>1, FailedAddsOne
    <3> HIDE DEF r
    <3>3. PlaceInv(c)'
      BY <2>0, <2>1, <2>4, <3>1, <3>2 DEF PlaceInv
    <3>4. StatusInv'
      BY <2>0, <3>1, BusyFacts DEF StatusInv, Busy
    <3> QED BY <2>0, <2>1, <3>1, <3>3, <3>4, OwnStep DEF Busy
  <2> QED BY <1>3, <2>2, <2>3, <2>4 DEF RunPage
<1>4. CASE PageDone(c)
  <2>0. job[c] = "call" /\ job[c] \in Busy /\ at' = at /\ lock' = lock /\ status' = status
        /\ cancelled' = cancelled
    BY <1>4 DEF PageDone, Busy
  <2>1. /\ left[c] \in Nat /\ left[c] > 0 /\ Sum(result[c]) \in Nat /\ result[c].total \in Nat
        /\ left[c] + Sum(result[c]) = result[c].total
        /\ result[c] \in Counts /\ status.counts = result[c] /\ status.state = "running"
        /\ at[c] # "go"
    BY <2>0, BusyFacts DEF PlaceInv
  <2>2. PICK r \in Counted(result[c]) : result' = [result EXCEPT ![c] = r]
    BY <1>4 DEF PageDone
  <2>3. job' = [job EXCEPT ![c] = "emit"] /\ result'[c] = r /\ left'[c] = left[c] - 1
    BY <1>4, <2>2 DEF PageDone, Goto
  <2>4. Advances(status.counts, r) /\ r.total = result[c].total /\ Sum(r) = Sum(result[c]) + 1
    BY <2>1, <2>2, CountedAddsOne
  <2>5. PlaceInv(c)'
    BY <2>0, <2>1, <2>3, <2>4 DEF PlaceInv
  <2>6. StatusInv'
    BY <2>0, <2>3, BusyFacts DEF StatusInv, Busy
  <2> QED BY <2>0, <2>1, <2>3, <2>5, <2>6, OwnStep DEF Busy
<1>5. CASE Emit(c)
  <2>0. /\ job[c] \in {"emit", "stop"} /\ job[c] \in Busy
        /\ job' = [job EXCEPT ![c] = IF job[c] = "emit" THEN "page" ELSE "whole"]
        /\ at' = at /\ lock' = lock /\ left' = left /\ result' = result /\ cancelled' = cancelled
    BY <1>5 DEF Emit, Busy, Goto
  <2>1. status'.state = "running" /\ status'.counts = result[c]
    BY <1>5, <2>0, BusyFacts DEF Emit, Show, Update
  <2>2. PlaceInv(c)'
    BY <2>0, BusyFacts DEF PlaceInv
  <2>3. Sum(result[c]) <= result[c].total
    BY <2>0, BusyFacts DEF PlaceInv
  <2>4. StatusInv'
    BY <2>0, <2>1, <2>3, BusyFacts DEF StatusInv, Busy
  <2> QED BY <2>0, <2>1, <2>2, <2>4, OwnStep DEF Busy
<1>6. CASE ShowResult(c)
  <2>0. /\ job[c] = "whole" /\ job[c] \in Busy
        /\ job' = [job EXCEPT ![c] = IF cancelled THEN "failed" ELSE "completed"]
        /\ at' = at /\ lock' = lock /\ left' = left /\ result' = result
    BY <1>6 DEF ShowResult, Outcome, Busy, Goto
  <2>1. status'.state = "running" /\ status'.counts = result[c]
    BY <1>6, <2>0, BusyFacts DEF ShowResult, Update
  <2>2. PlaceInv(c)'
    BY <2>0, BusyFacts DEF PlaceInv
  <2>3. Sum(result[c]) <= result[c].total
    BY <2>0, BusyFacts DEF PlaceInv
  <2>4. StatusInv'
    BY <2>0, <2>1, <2>3, BusyFacts DEF StatusInv, Busy
  <2> QED BY <2>0, <2>1, <2>2, <2>4, OwnStep DEF Busy
<1>7. CASE FinishReindex(c)
  <2>0. /\ job[c] \in {"completed", "failed"} /\ job[c] \in Busy
        /\ job' = [job EXCEPT ![c] = "unlock"]
        /\ at' = at /\ lock' = lock /\ left' = left /\ result' = result
    BY <1>7 DEF FinishReindex, Busy, Goto
  <2>1. status'.state = job[c] /\ status'.counts = status.counts /\ status.counts = result[c]
    BY <1>7, <2>0, BusyFacts DEF FinishReindex, Finish
  <2>2. PlaceInv(c)'
    BY <2>0, BusyFacts DEF PlaceInv
  <2>3. StatusInv'
    BY <2>0, <2>1, BusyFacts DEF StatusInv, PlaceInv
  <2> QED BY <2>0, <2>2, <2>3, OwnStep DEF Busy
<1>8. CASE GoroutineEnds(c)
  <2>0. /\ job[c] = "unlock" /\ lock = c /\ at[c] \notin {"set", "go"}
        /\ \A d \in Client : d # c => job[d] = "none" /\ at[d] \notin {"set", "go"}
    BY <1>8, Alone DEF GoroutineEnds, JobInv, OneJobAtATime
  <2>1. /\ job' = [job EXCEPT ![c] = "none"] /\ at' = at /\ lock' = None
        /\ status' = status /\ left' = left /\ result' = result
    BY <1>8 DEF GoroutineEnds, Goto, Unlock
  <2>2. status.state # "running"
    BY <2>0 DEF JobInv, StatusInv, Busy
  <2>3. OneJobAtATime'
    BY <2>0, <2>1 DEF OneJobAtATime
  <2>4. StatusIsOfJob' /\ StatusInv'
    BY <2>0, <2>1, <2>2 DEF JobInv, StatusIsOfJob, StatusInv, Busy
  <2>5. ASSUME NEW d \in Client PROVE PlaceInv(d)'
    BY <2>0, <2>1 DEF PlaceInv
  <2> QED BY <2>3, <2>4, <2>5 DEF JobInv
<1> QED BY <1>1, <1>2, <1>3, <1>4, <1>5, <1>6, <1>7, <1>8 DEF RunReindex

(* JobInv is an invariant.                                                 *)
LEMMA JobInvariant == Spec => [](Typed /\ JobInv)
<1>1. Typed /\ JobInv /\ [Next]_vars => (Typed /\ JobInv)'
  <2> SUFFICES ASSUME Typed, JobInv, [Next]_vars PROVE Typed' /\ JobInv'
    OBVIOUS
  <2>1. Typed'
    BY TypedNext
  <2>2. ASSUME NEW c \in Client, Post(c) \/ StartReindex(c) PROVE JobInv'
    BY <2>2, HandlerKeepsJobInv
  <2>3. ASSUME NEW c \in Client, RunReindex(c) PROVE JobInv'
    BY <2>1, <2>3, JobKeepsJobInv
  <2>4. ASSUME UNCHANGED <<lock, status, at, job, left, result>>, cancelled => cancelled'
        PROVE  JobInv'
    <3>1. OneJobAtATime' /\ StatusIsOfJob'
      BY <2>4 DEF JobInv, OneJobAtATime, StatusIsOfJob
    <3>2. StatusInv'
      BY <2>4 DEF JobInv, StatusInv
    <3>3. ASSUME NEW c \in Client PROVE PlaceInv(c)'
      BY <2>4 DEF JobInv, PlaceInv
    <3> QED BY <3>1, <3>2, <3>3 DEF JobInv
  <2>5. CASE Cancel
    <3>1. cancelled => cancelled'
      BY <2>5, Zenon DEF Cancel
    <3>2. UNCHANGED <<lock, status, at, job, left, result>>
      BY <2>5, Zenon DEF Cancel
    <3> QED BY <2>1, <2>4, <3>1, <3>2
  <2>6. CASE UNCHANGED vars
    <3>1. cancelled => cancelled'
      BY <2>6, Zenon DEF vars
    <3>2. UNCHANGED <<lock, status, at, job, left, result>>
      BY <2>6, Zenon DEF vars
    <3> QED BY <2>1, <2>4, <3>1, <3>2
  <2> QED BY <2>1, <2>2, <2>3, <2>5, <2>6 DEF Next
<1> QED BY <1>1, TypedInit, JobInit, PTL DEF Spec

-----------------------------------------------------------------------------
(* OneJobAtATime: POSTs never start a second job, and the lock is freed    *)
(* only when the job has shown how it ended.                               *)
THEOREM OneJob == Spec => []OneJobAtATime
BY JobInvariant, PTL DEF JobInv

(* StatusIsOfJob: the status is that of the job that runs.                 *)
THEOREM StatusOfJob == Spec => []StatusIsOfJob
BY JobInvariant, PTL DEF JobInv

(* CompletedIsWhole: a completed job has counted every page listed.        *)
THEOREM CompletedWhole == Spec => []CompletedIsWhole
<1>1. Typed /\ JobInv => CompletedIsWhole
  BY DEF JobInv, StatusInv, CompletedIsWhole, Sum
<1> QED BY <1>1, JobInvariant, PTL

(* StatusAdvances: counts only grow while a job runs, and the status of a  *)
(* job that has ended stays until the next one starts.                     *)
THEOREM StatusOnlyAdvances == Spec => StatusAdvances
<1> DEFINE A == IF status.state = "running"
                  THEN Advances(status.counts, status'.counts)
                  ELSE status'.state # "running" => status' = status
<1>1. ASSUME Typed, JobInv, [Next]_vars PROVE [A]_vars
  <2> USE <1>1
  <2>1. ASSUME status' = status PROVE A
    BY <2>1 DEF Typed, Counts, Advances
  <2>2. ASSUME NEW c \in Client, SetStatus(c) PROVE A
    <3>1. lock = c /\ job[c] = "none" /\ at[c] = "set"
      BY <2>2 DEF SetStatus, JobInv, OneJobAtATime
    <3>2. status.state # "running"
      BY <3>1 DEF JobInv, StatusInv, Busy
    <3>3. status'.state = "running"
      BY <2>2 DEF SetStatus
    <3> QED BY <3>2, <3>3
  <2>3. ASSUME NEW c \in Client, job[c] \in Busy, status'.counts = status.counts PROVE A
    <3>1. status.state = "running" /\ status.counts \in Counts
      BY <2>3, BusyFacts
    <3> QED BY <2>3, <3>1 DEF Counts, Advances
  <2>4. ASSUME NEW c \in Client, job[c] \in Busy, status'.counts = result[c],
               job[c] \in {"emit", "stop", "whole"}
        PROVE  A
    <3>1. status.state = "running" /\ status.counts \in Counts
      BY <2>4, BusyFacts
    <3>2. Advances(status.counts, result[c])
      <4>1. CASE job[c] = "whole"
        BY <3>1, <4>1, <2>4, BusyFacts DEF Advances, Counts
      <4> QED BY <2>4, <4>1, BusyFacts DEF PlaceInv
    <3> QED BY <2>1, <2>4, <3>1, <3>2
  <2>5. ASSUME NEW c \in Client, ShowTotal(c) PROVE A
    <3>1. job[c] = "total" /\ job[c] \in Busy
      BY <2>5 DEF ShowTotal, Busy
    <3>2. status = [state |-> "running", counts |-> NoCounts] /\ result[c].total \in Nat
      BY <3>1, BusyFacts DEF PlaceInv
    <3>3. status'.counts = [NoCounts EXCEPT !.total = result[c].total]
      BY <2>5, <3>2 DEF ShowTotal
    <3> QED BY <3>2, <3>3 DEF NoCounts, Advances
  <2>6. ASSUME NEW c \in Client, RunReindex(c) PROVE A
    <3>1. CASE ListPages(c)
      BY <3>1, <2>1, <2>3 DEF ListPages, Finish, Busy, Typed
    <3>2. CASE RunPage(c) \/ PageDone(c)
      BY <3>2, <2>1 DEF RunPage, PageDone
    <3>3. CASE Emit(c)
      BY <3>3, <2>4 DEF Emit, Show, Update, Busy, Typed
    <3>4. CASE ShowResult(c)
      BY <3>4, <2>4 DEF ShowResult, Update, Busy, Typed
    <3>5. CASE FinishReindex(c)
      BY <3>5, <2>3 DEF FinishReindex, Finish, Busy, Typed
    <3>6. CASE GoroutineEnds(c)
      BY <3>6, <2>1 DEF GoroutineEnds
    <3> QED BY <2>5, <2>6, <3>1, <3>2, <3>3, <3>4, <3>5, <3>6 DEF RunReindex
  <2>7. ASSUME NEW c \in Client, Post(c) \/ StartReindex(c) PROVE A
    <3>1. CASE Post(c) \/ Go(c) \/ AnswerPost(c)
      BY <2>1, <3>1 DEF Post, Go, AnswerPost
    <3> QED BY <2>2, <2>7, <3>1 DEF StartReindex
  <2>8. CASE Cancel
    BY <2>1, <2>8 DEF Cancel
  <2> HIDE DEF A
  <2> QED BY <2>6, <2>7, <2>8 DEF Next
<1> QED BY <1>1, JobInvariant, PTL DEF Spec, StatusAdvances

-----------------------------------------------------------------------------
(* OcrClient                                                               *)

Holders == {c \in Caller : HoldsSlot(c)}

(* The goroutines are finitely many, and so are those with a slot.         *)
LEMMA HoldersFinite == IsFiniteSet(Holders) /\ Cardinality(Holders) \in Nat
BY OcrAssumption, FS_Subset, FS_CardinalityType DEF Holders

(* A call that stays with its slot, or without one.                        *)
LEMMA HoldersStay ==
  ASSUME SlotsOK, NEW c \in Caller, NEW s \in Stage, Goes(c, s),
         s \in {"attempt", "request", "backoff"} <=> HoldsSlot(c)
  PROVE  Holders' = Holders
BY DEF Holders, HoldsSlot, Goes, SlotsOK

(* A call that passes acquire is one more with a slot.                     *)
LEMMA HoldersGrow ==
  ASSUME SlotsOK, NEW c \in Caller, stage[c] = "acquire", Goes(c, "attempt")
  PROVE  Holders' = Holders \cup {c} /\ c \notin Holders
BY DEF Holders, HoldsSlot, Goes, SlotsOK

(* A call that returns is no longer one with a slot.                       *)
LEMMA HoldersShrink ==
  ASSUME SlotsOK, NEW c \in Caller, Goes(c, "idle")
  PROVE  Holders' = Holders \ {c}
BY DEF Holders, HoldsSlot, Goes, SlotsOK

SlotsInv == SlotsOK /\ SlotsAccounted

(* A call that returns releases its slot if it has passed acquire.         *)
LEMMA ReturnStep ==
  ASSUME SlotsInv, NEW c \in Caller, NEW how, Return(c, how)
  PROVE  SlotsInv'
<1>1. stage' \in [Caller -> Stage] /\ Holders' = Holders \ {c}
  BY HoldersShrink DEF Return, SlotsInv, SlotsOK, Goes, Stage
<1>2. slots = Cardinality(Holders) /\ slots <= MaxConcurrency /\ slots \in Nat
  BY DEF SlotsInv, SlotsAccounted, SlotsOK, Holders
<1>3. CASE c \in Holders
  <2>1. slots' = slots - 1
    BY <1>3 DEF Return, Release, Holders
  <2>2. Cardinality(Holders') = slots - 1 /\ Cardinality(Holders') \in Nat
    BY <1>1, <1>2, <1>3, HoldersFinite, FS_RemoveElement, FS_CardinalityType
  <2>3. slots' \in Nat /\ slots' <= MaxConcurrency
    BY <1>2, <2>1, <2>2, OcrAssumption
  <2> QED
    BY <1>1, <2>1, <2>2, <2>3 DEF SlotsInv, SlotsOK, SlotsAccounted, Holders
<1>4. CASE c \notin Holders
  <2>1. UNCHANGED slots /\ Holders' = Holders
    BY <1>1, <1>4 DEF Return, Release, Holders
  <2> QED
    BY <1>1, <1>2, <2>1 DEF SlotsInv, SlotsOK, SlotsAccounted, Holders
<1> QED
  BY <1>3, <1>4

(* A step that keeps the call's slot, or its lack of one, keeps the count. *)
LEMMA StayStep ==
  ASSUME SlotsInv, NEW c \in Caller, NEW s \in Stage, Goes(c, s), UNCHANGED slots,
         s \in {"attempt", "request", "backoff"} <=> HoldsSlot(c)
  PROVE  SlotsInv'
<1>1. Holders' = Holders /\ stage' \in [Caller -> Stage]
  BY HoldersStay DEF SlotsInv, SlotsOK, Goes
<1> QED
  BY <1>1 DEF SlotsInv, SlotsOK, SlotsAccounted, Holders

(* A request that fails keeps the slot for the backoff, or gives it back.  *)
LEMMA FailsStep ==
  ASSUME SlotsInv, NEW c \in Caller, NEW again, NEW how, stage[c] = "request", Fails(c, again, how)
  PROVE  SlotsInv'
<1>1. CASE Goes(c, "backoff") /\ UNCHANGED slots
  BY <1>1, StayStep DEF HoldsSlot, Stage
<1>2. CASE Return(c, how)
  BY <1>2, ReturnStep
<1> QED
  BY <1>1, <1>2 DEF Fails

(* A call takes a slot only when there is one.                             *)
LEMMA AcquireStep == ASSUME SlotsInv, NEW c \in Caller, Acquire(c) PROVE SlotsInv'
<1>1. Holders' = Holders \cup {c} /\ c \notin Holders /\ stage' \in [Caller -> Stage]
  BY HoldersGrow DEF Acquire, SlotsInv, SlotsOK, Goes, Stage
<1>2. slots = Cardinality(Holders) /\ slots \in Nat
  BY DEF SlotsInv, SlotsAccounted, SlotsOK, Holders
<1>3. Cardinality(Holders') = slots + 1
  BY <1>1, <1>2, HoldersFinite, FS_AddElement
<1>4. slots' = slots + 1 /\ slots' <= MaxConcurrency /\ slots' \in Nat
  BY <1>2, OcrAssumption DEF Acquire
<1> QED
  BY <1>1, <1>3, <1>4 DEF SlotsInv, SlotsOK, SlotsAccounted, Holders

(* The semaphore counts the calls that are past acquire, and never more    *)
(* than its capacity, whichever way calls end.                             *)
THEOREM SlotsHold == OcrSpec => []SlotsAccounted
<1>1. OcrInit => SlotsInv
  <2> SUFFICES ASSUME OcrInit PROVE SlotsInv
    OBVIOUS
  <2>1. Holders = {}
    BY DEF OcrInit, Holders, HoldsSlot
  <2> QED
    BY <2>1, FS_EmptySet, OcrAssumption DEF OcrInit, SlotsInv, SlotsOK, SlotsAccounted, Holders, Stage
<1>2. SlotsInv /\ [OcrNext]_ocrVars => SlotsInv'
  <2> SUFFICES ASSUME SlotsInv, [OcrNext]_ocrVars PROVE SlotsInv'
    OBVIOUS
  <2>1. ASSUME NEW c \in Caller, CallProcess(c) PROVE SlotsInv'
    BY <2>1, StayStep DEF CallProcess, HoldsSlot, Stage
  <2>2. ASSUME NEW c \in Caller, Acquire(c) PROVE SlotsInv'
    BY <2>2, AcquireStep
  <2>3. ASSUME NEW c \in Caller, AcquireCancelled(c) \/ Answered(c) \/ BackoffCancelled(c)
        PROVE  SlotsInv'
    BY <2>3, ReturnStep DEF AcquireCancelled, Answered, BackoffCancelled
  <2>4. ASSUME NEW c \in Caller, Attempt(c) PROVE SlotsInv'
    <3>1. CASE Return(c, "cancelled")
      BY <3>1, ReturnStep
    <3>2. CASE Goes(c, "request") /\ UNCHANGED slots
      BY <2>4, <3>2, StayStep DEF Attempt, HoldsSlot, Stage
    <3> QED
      BY <2>4, <3>1, <3>2 DEF Attempt
  <2>5. ASSUME NEW c \in Caller,
               NetworkFails(c) \/ ServerBusy(c) \/ Rejected(c) \/ TimesOut(c) \/ RequestCancelled(c)
        PROVE  SlotsInv'
    BY <2>5, FailsStep DEF NetworkFails, ServerBusy, Rejected, TimesOut, RequestCancelled
  <2>6. ASSUME NEW c \in Caller, Retry(c) PROVE SlotsInv'
    BY <2>6, StayStep DEF Retry, HoldsSlot, Stage
  <2>7. CASE UNCHANGED <<slots, stage>>
    BY <2>7 DEF SlotsInv, SlotsOK, SlotsAccounted, HoldsSlot
  <2> QED
    BY <2>1, <2>2, <2>3, <2>4, <2>5, <2>6, <2>7
       DEF OcrNext, Proceeds, ContextEnds, Submit, Recognise, ocrVars, callVars
<1>3. SlotsInv => SlotsAccounted
  BY DEF SlotsInv
<1> QED
  BY <1>1, <1>2, <1>3, PTL DEF OcrSpec

-----------------------------------------------------------------------------
(* What the server has done is done once for each call.                    *)

Known == arrived \cup recognised

KeyTyped ==
  /\ stage \in [Caller -> Stage]
  /\ calls \in [Caller -> Nat] /\ idemKey \in [Caller -> Nat] /\ nextKey \in Nat
  /\ Known \subseteq Submission

KeysUsed ==
  /\ \A s \in Known : s.key < nextKey /\ s.call <= calls[s.caller]
  /\ \A c \in Caller : HoldsSlot(c) => idemKey[c] < nextKey

KeysApart == \A c, d \in Caller : HoldsSlot(c) /\ HoldsSlot(d) /\ idemKey[c] = idemKey[d] => c = d

KeyOfCall ==
  \A c \in Caller : HoldsSlot(c) =>
    \A s \in Known : s.key = idemKey[c] <=> (s.caller = c /\ s.call = calls[c])

NothingSent == \A c \in Caller : stage[c] = "acquire" =>
                 \A s \in Known : s.caller = c => s.call < calls[c]

OneOfEach == \A s, t \in Known : s.caller = t.caller /\ s.call = t.call => s = t

TextsDone == \A e \in ended : e.how = "text" =>
               \E s \in recognised : s.caller = e.caller /\ s.call = e.call

KeyInv == KeyTyped /\ KeysUsed /\ KeysApart /\ KeyOfCall /\ NothingSent /\ OneOfEach

(* A step that makes no key, sends nothing and takes no slot.              *)
LEMMA QuietStep ==
  ASSUME KeyInv, Known' \subseteq Known, UNCHANGED <<calls, nextKey>>,
         stage' \in [Caller -> Stage], idemKey' \in [Caller -> Nat],
         \A d \in Caller : HoldsSlot(d)' => HoldsSlot(d) /\ idemKey'[d] = idemKey[d],
         \A d \in Caller : stage'[d] = "acquire" => stage[d] = "acquire"
  PROVE  KeyInv'
<1>1. KeyTyped' /\ KeysUsed'
  BY DEF KeyInv, KeyTyped, KeysUsed
<1>2. KeysApart'
  BY DEF KeyInv, KeysApart
<1>3. KeyOfCall'
  BY DEF KeyInv, KeyOfCall
<1>4. NothingSent' /\ OneOfEach'
  BY DEF KeyInv, NothingSent, OneOfEach
<1> QED
  BY <1>1, <1>2, <1>3, <1>4 DEF KeyInv

(* A call that returns forgets its key.                                    *)
LEMMA ReturnForgets ==
  ASSUME KeyInv, NEW c \in Caller, NEW how, Return(c, how), Known' \subseteq Known
  PROVE  KeyInv'
<1>1. stage' \in [Caller -> Stage] /\ idemKey' \in [Caller -> Nat]
  BY DEF Return, Goes, Stage, KeyInv, KeyTyped
<1>2. \A d \in Caller : HoldsSlot(d)' => HoldsSlot(d) /\ idemKey'[d] = idemKey[d]
  BY DEF Return, Goes, HoldsSlot, KeyInv, KeyTyped
<1>3. \A d \in Caller : stage'[d] = "acquire" => stage[d] = "acquire"
  BY DEF Return, Goes, KeyInv, KeyTyped
<1> QED
  BY <1>1, <1>2, <1>3, QuietStep DEF Return

(* A call that goes on with its slot goes on with its key.                 *)
LEMMA KeepsKey ==
  ASSUME KeyInv, NEW c \in Caller, HoldsSlot(c), NEW s \in {"attempt", "request", "backoff"},
         Goes(c, s), Known' \subseteq Known, UNCHANGED <<calls, nextKey, idemKey>>
  PROVE  KeyInv'
<1>1. stage' \in [Caller -> Stage]
  BY DEF Goes, Stage, KeyInv, KeyTyped
<1>2. \A d \in Caller : HoldsSlot(d)' => HoldsSlot(d) /\ idemKey'[d] = idemKey[d]
  BY DEF Goes, HoldsSlot, KeyInv, KeyTyped
<1>3. \A d \in Caller : stage'[d] = "acquire" => stage[d] = "acquire"
  BY DEF Goes, KeyInv, KeyTyped
<1>4. idemKey' \in [Caller -> Nat]
  BY DEF KeyInv, KeyTyped
<1> QED
  BY <1>1, <1>2, <1>3, <1>4, QuietStep

(* A new key is in nobody's use.                                           *)
LEMMA AcquireNewKey == ASSUME KeyInv, NEW c \in Caller, Acquire(c) PROVE KeyInv'
<1>1. stage' = [stage EXCEPT ![c] = "attempt"] /\ stage[c] = "acquire"
  BY DEF Acquire, Goes
<1>2. /\ idemKey' = [idemKey EXCEPT ![c] = nextKey] /\ nextKey' = nextKey + 1
      /\ UNCHANGED calls /\ Known' = Known
  BY DEF Acquire, Server, Known
<1>3. KeyTyped' /\ KeysUsed'
  BY <1>1, <1>2 DEF KeyInv, KeyTyped, KeysUsed, HoldsSlot, Stage, Submission
<1>4. KeysApart'
  BY <1>1, <1>2 DEF KeyInv, KeyTyped, KeysUsed, KeysApart, HoldsSlot
<1>5. KeyOfCall'
  <2> SUFFICES ASSUME NEW d \in Caller, HoldsSlot(d)', NEW s \in Known
               PROVE  s.key = idemKey'[d] <=> (s.caller = d /\ s.call = calls[d])
    BY <1>2 DEF KeyOfCall
  <2>1. CASE d = c
    <3>1. s.key < nextKey /\ s.key \in Nat /\ s.call \in Nat /\ nextKey \in Nat /\ calls[c] \in Nat
      BY DEF KeyInv, KeyTyped, KeysUsed, Submission
    <3>2. s.caller = c => s.call < calls[c]
      BY <1>1 DEF KeyInv, NothingSent
    <3>3. idemKey'[d] = nextKey
      BY <1>2, <2>1 DEF KeyInv, KeyTyped
    <3> QED
      BY <2>1, <3>1, <3>2, <3>3
  <2>2. CASE d # c
    BY <1>1, <1>2, <2>2 DEF KeyInv, KeyTyped, KeyOfCall, HoldsSlot
  <2> QED
    BY <2>1, <2>2
<1>6. NothingSent' /\ OneOfEach'
  BY <1>1, <1>2 DEF KeyInv, KeyTyped, NothingSent, OneOfEach
<1> QED
  BY <1>3, <1>4, <1>5, <1>6 DEF KeyInv

(* A new call of the goroutine has sent nothing.                           *)
LEMMA NewCall == ASSUME KeyInv, NEW c \in Caller, CallProcess(c) PROVE KeyInv'
<1>1. /\ stage' = [stage EXCEPT ![c] = "acquire"] /\ stage[c] = "idle"
      /\ calls' = [calls EXCEPT ![c] = @ + 1] /\ UNCHANGED <<idemKey, nextKey>> /\ Known' = Known
  BY DEF CallProcess, Goes, Server, Known
<1>2. \A d \in Caller : HoldsSlot(d)' => HoldsSlot(d) /\ d # c
  BY <1>1 DEF HoldsSlot, KeyInv, KeyTyped
<1>3. \A d \in Caller : calls[d] \in Nat /\ calls'[d] \in Nat /\ calls[d] <= calls'[d]
                        /\ (d # c => calls'[d] = calls[d]) /\ (d = c => calls[d] < calls'[d])
  BY <1>1 DEF KeyInv, KeyTyped
<1>4. \A s \in Known : s.caller \in Caller /\ s.call \in Nat /\ s.call <= calls[s.caller] /\ s.key < nextKey
  BY DEF KeyInv, KeyTyped, KeysUsed, Submission
<1>5. KeyTyped'
  BY <1>1 DEF KeyInv, KeyTyped, Stage
<1>6. KeysUsed' /\ KeysApart'
  BY <1>1, <1>2, <1>3, <1>4 DEF KeyInv, KeysUsed, KeysApart
<1>7. KeyOfCall'
  BY <1>1, <1>2, <1>3 DEF KeyInv, KeyOfCall
<1>8. NothingSent'
  BY <1>1, <1>3, <1>4 DEF KeyInv, KeyTyped, NothingSent
<1>9. OneOfEach'
  BY <1>1 DEF KeyInv, OneOfEach
<1> QED
  BY <1>5, <1>6, <1>7, <1>8, <1>9 DEF KeyInv

(* Every request of a call goes out under the call's key.                  *)
LEMMA SubmitUnderKey ==
  ASSUME KeyInv, NEW c \in Caller, NEW ips, Submit(c, ips)
  PROVE  KeyInv'
<1> DEFINE sent == [caller |-> c, call |-> calls[c], key |-> idemKey[c]]
<1>1. /\ Known' = Known \cup {sent} /\ HoldsSlot(c)
      /\ UNCHANGED <<stage, calls, idemKey, nextKey>>
  BY DEF Submit, Known, HoldsSlot, callVars
<1>2. sent.caller = c /\ sent.call = calls[c] /\ sent.key = idemKey[c] /\ sent \in Submission
  BY DEF KeyInv, KeyTyped, Submission
<1>3. \A s \in Known : s \in Submission
  BY DEF KeyInv, KeyTyped
<1>4. \A s \in Known : s.caller = c /\ s.call = calls[c] => s = sent
  BY <1>1, <1>3 DEF KeyInv, KeyOfCall, Submission
<1> HIDE DEF sent
<1>5. KeyTyped' /\ KeysUsed' /\ KeysApart'
  BY <1>1, <1>2 DEF KeyInv, KeyTyped, KeysUsed, KeysApart, HoldsSlot
<1>6. KeyOfCall'
  BY <1>1, <1>2 DEF KeyInv, KeysApart, KeyOfCall, HoldsSlot
<1>7. NothingSent'
  BY <1>1, <1>2 DEF KeyInv, NothingSent, HoldsSlot
<1>8. OneOfEach'
  BY <1>1, <1>2, <1>4 DEF KeyInv, OneOfEach
<1> QED
  BY <1>5, <1>6, <1>7, <1>8 DEF KeyInv

(* The keys of calls are kept apart by every step.                         *)
LEMMA KeyInvStep == ASSUME KeyInv, [OcrNext]_ocrVars PROVE KeyInv'
<1>1. ASSUME NEW c \in Caller, AcquireCancelled(c) \/ Answered(c) \/ BackoffCancelled(c)
      PROVE  KeyInv'
  BY <1>1, ReturnForgets DEF AcquireCancelled, Answered, BackoffCancelled, Server, Known
<1>2. ASSUME NEW c \in Caller, Attempt(c) PROVE KeyInv'
  <2>1. CASE Return(c, "cancelled")
    BY <1>2, <2>1, ReturnForgets DEF Attempt, Server, Known
  <2>2. CASE Goes(c, "request") /\ UNCHANGED <<idemKey, calls, nextKey>>
    BY <1>2, <2>2, KeepsKey DEF Attempt, Server, Known, HoldsSlot
  <2> QED
    BY <1>2, <2>1, <2>2 DEF Attempt
<1>3. ASSUME NEW c \in Caller, NEW again, NEW how,
             stage[c] = "request", Fails(c, again, how), Known' \subseteq Known
      PROVE  KeyInv'
  <2>1. CASE Return(c, how)
    BY <1>3, <2>1, ReturnForgets
  <2>2. CASE Goes(c, "backoff") /\ UNCHANGED <<idemKey, calls, nextKey>>
    BY <1>3, <2>2, KeepsKey DEF HoldsSlot
  <2> QED
    BY <1>3, <2>1, <2>2 DEF Fails
<1>4. ASSUME NEW c \in Caller,
             NetworkFails(c) \/ ServerBusy(c) \/ Rejected(c) \/ TimesOut(c) \/ RequestCancelled(c)
      PROVE  KeyInv'
  <2>1. Known' \subseteq Known
    BY <1>4 DEF NetworkFails, ServerBusy, Rejected, TimesOut, RequestCancelled, Server, Known
  <2> QED
    BY <1>3, <1>4, <2>1 DEF NetworkFails, ServerBusy, Rejected, TimesOut, RequestCancelled
<1>5. ASSUME NEW c \in Caller, Retry(c) PROVE KeyInv'
  <2>1. Known' \subseteq Known /\ UNCHANGED calls /\ HoldsSlot(c) /\ Goes(c, "attempt")
    BY <1>5 DEF Retry, Server, Known, HoldsSlot
  <2>2. idemKey[c] < nextKey /\ idemKey[c] \in Nat /\ nextKey \in Nat /\ idemKey \in [Caller -> Nat]
    BY <2>1 DEF KeyInv, KeysUsed, KeyTyped
  <2>3. UNCHANGED <<idemKey, nextKey>>
    BY <1>5, <2>2 DEF Retry, KeyOfRetry
  <2> QED
    BY <2>1, <2>3, KeepsKey
<1>6. ASSUME NEW s \in arrived, Recognise(s) PROVE KeyInv'
  <2>1. Known' = Known /\ UNCHANGED <<stage, calls, idemKey, nextKey>>
    BY <1>6 DEF Recognise, Known, callVars
  <2> QED
    BY <2>1, QuietStep DEF KeyInv, KeyTyped, HoldsSlot
<1>7. CASE UNCHANGED <<stage, calls, idemKey, nextKey, arrived, recognised>>
  BY <1>7, QuietStep DEF KeyInv, KeyTyped, HoldsSlot, Known
<1>8. ASSUME NEW c \in Caller, ContextEnds(c) PROVE KeyInv'
  BY <1>7, <1>8 DEF ContextEnds, Server
<1>9. CASE UNCHANGED ocrVars
  BY <1>7, <1>9 DEF ocrVars, callVars
<1> QED
  BY <1>1, <1>2, <1>4, <1>5, <1>6, <1>8, <1>9, AcquireNewKey, NewCall, SubmitUnderKey
     DEF OcrNext, Proceeds

(* A text is an answer to the call's own key.                              *)
LEMMA TextsDoneStep == ASSUME KeyInv, TextsDone, [OcrNext]_ocrVars PROVE TextsDone'
<1>1. recognised \subseteq recognised'
  BY DEF OcrNext, Proceeds, CallProcess, ContextEnds, Acquire, AcquireCancelled, Attempt, NetworkFails,
         ServerBusy, Rejected, TimesOut, RequestCancelled, Answered, Retry, BackoffCancelled, Submit,
         Recognise, Server, ocrVars
<1>2. CASE \A e \in ended' : e.how = "text" => e \in ended
  BY <1>1, <1>2 DEF TextsDone
<1>3. ASSUME NEW c \in Caller, NEW how \in {"error", "timeout", "cancelled"}, Return(c, how)
      PROVE  \A e \in ended' : e.how = "text" => e \in ended
  BY <1>3 DEF Return
<1>4. ASSUME NEW c \in Caller, Answered(c) PROVE TextsDone'
  <2>1. PICK s \in recognised : s.key = idemKey[c]
    BY <1>4 DEF Answered
  <2>2. s.caller = c /\ s.call = calls[c]
    BY <1>4, <2>1 DEF Answered, KeyInv, KeyOfCall, Known, HoldsSlot
  <2>3. \A e \in ended' : e \in ended \/ (e.caller = c /\ e.call = calls[c])
    BY <1>4 DEF Answered, Return
  <2> QED
    BY <1>1, <2>2, <2>3 DEF TextsDone
<1>5. ASSUME NEW c \in Caller, AcquireCancelled(c) \/ BackoffCancelled(c) \/ Attempt(c)
      PROVE  TextsDone'
  BY <1>2, <1>3, <1>5 DEF AcquireCancelled, BackoffCancelled, Attempt
<1>6. ASSUME NEW c \in Caller,
             NetworkFails(c) \/ ServerBusy(c) \/ Rejected(c) \/ TimesOut(c) \/ RequestCancelled(c)
      PROVE  TextsDone'
  BY <1>2, <1>3, <1>6 DEF NetworkFails, ServerBusy, Rejected, TimesOut, RequestCancelled, Fails
<1>7. CASE UNCHANGED ended
  BY <1>2, <1>7
<1> QED
  BY <1>4, <1>5, <1>6, <1>7
     DEF OcrNext, Proceeds, CallProcess, ContextEnds, Acquire, Retry, Submit, Recognise, ocrVars, callVars

(* Retries, late answers and requests given up: the server does the work   *)
(* of a call at most once, and a text is of the call that returns it.      *)
THEOREM WorkIsOnce == OcrSpec => []WorkOncePerCall
<1>1. OcrInit => KeyInv /\ TextsDone
  BY DEF OcrInit, KeyInv, KeyTyped, KeysUsed, KeysApart, KeyOfCall, NothingSent, OneOfEach, TextsDone,
         Known, HoldsSlot, Stage
<1>2. (KeyInv /\ TextsDone) /\ [OcrNext]_ocrVars => (KeyInv /\ TextsDone)'
  BY KeyInvStep, TextsDoneStep
<1>3. KeyInv /\ TextsDone => WorkOncePerCall
  BY DEF KeyInv, OneOfEach, TextsDone, WorkOncePerCall, Known
<1> QED
  BY <1>1, <1>2, <1>3, PTL DEF OcrSpec
=============================================================================
