---------------------------- MODULE RemoteProofs ----------------------------
(***************************************************************************)
(* Theorems about RemoteBackend, for any pages, scans, sizes and limits,   *)
(* any number of goroutines and any order of their calls, and about the    *)
(* scans of RemoteScan that use it.                                        *)
(***************************************************************************)
EXTENDS RemoteScan, TLAPS

-----------------------------------------------------------------------------
(* Sequences of pages and the sets of their elements                       *)

LEMMA EmptySet == ToSet(<<>>) = {} /\ IsInjective(<<>>)
BY DEF ToSet, IsInjective

LEMMA AppendedSet ==
  ASSUME NEW S, NEW s \in Seq(S), NEW x \in S
  PROVE  /\ Append(s, x) \in Seq(S) /\ Append(s, x) # <<>>
         /\ ToSet(Append(s, x)) = ToSet(s) \cup {x}
         /\ IsInjective(s) /\ x \notin ToSet(s) => IsInjective(Append(s, x))
<1>1. /\ Append(s, x) \in Seq(S) /\ Len(Append(s, x)) = Len(s) + 1
      /\ \A i \in 1..Len(s) : Append(s, x)[i] = s[i]
      /\ Append(s, x)[Len(s) + 1] = x
  OBVIOUS
<1>2. DOMAIN Append(s, x) = 1..(Len(s) + 1) /\ DOMAIN s = 1..Len(s) /\ Len(s) \in Nat
  BY <1>1
<1>3. ToSet(Append(s, x)) = ToSet(s) \cup {x}
  BY <1>1, <1>2 DEF ToSet
<1>4. IsInjective(s) /\ x \notin ToSet(s) => IsInjective(Append(s, x))
  BY <1>1, <1>2 DEF ToSet, IsInjective
<1>5. Append(s, x) # <<>>
  BY <1>1, Len(<<>>) = 0
<1> QED
  BY <1>1, <1>3, <1>4, <1>5

LEMMA HeadAndTail ==
  ASSUME NEW S, NEW s \in Seq(S), s # <<>>
  PROVE  /\ Head(s) \in S /\ Tail(s) \in Seq(S)
         /\ ToSet(s) = {Head(s)} \cup ToSet(Tail(s))
<1>1. /\ Len(s) \in Nat \ {0} /\ DOMAIN s = 1..Len(s) /\ Head(s) = s[1] /\ Head(s) \in S
      /\ Tail(s) \in Seq(S) /\ DOMAIN Tail(s) = 1..(Len(s) - 1)
      /\ \A i \in 1..(Len(s) - 1) : Tail(s)[i] = s[i + 1]
  OBVIOUS
<1>2. \A i \in 1..Len(s) : i = 1 \/ (i - 1 \in 1..(Len(s) - 1) /\ s[i] = Tail(s)[i - 1])
  BY <1>1
<1>3. ASSUME NEW i \in 1..Len(s) PROVE s[i] = Head(s) \/ \E j \in DOMAIN Tail(s) : s[i] = Tail(s)[j]
  BY <1>1, <1>2
<1>4. ASSUME NEW j \in DOMAIN Tail(s) PROVE \E i \in DOMAIN s : Tail(s)[j] = s[i]
  BY <1>1, j + 1 \in 1..Len(s)
<1>5. ToSet(s) \subseteq {Head(s)} \cup ToSet(Tail(s))
  BY <1>1, <1>3 DEF ToSet
<1>6. ToSet(Tail(s)) \subseteq ToSet(s) /\ Head(s) \in ToSet(s)
  BY <1>1, <1>4 DEF ToSet
<1> QED
  BY <1>1, <1>5, <1>6

LEMMA SetTyped ==
  ASSUME NEW S, NEW s \in Seq(S)
  PROVE  ToSet(s) \subseteq S /\ (s # <<>> <=> ToSet(s) # {})
<1>1. DOMAIN s = 1..Len(s) /\ Len(s) \in Nat /\ \A i \in 1..Len(s) : s[i] \in S
  OBVIOUS
<1>2. s # <<>> <=> Len(s) # 0
  OBVIOUS
<1>3. s = <<>> => ToSet(s) = {}
  BY EmptySet
<1>4. Len(s) # 0 => s[1] \in ToSet(s)
  BY <1>1 DEF ToSet
<1>5. ToSet(s) \subseteq S
  BY <1>1 DEF ToSet
<1> QED
  BY <1>2, <1>3, <1>4, <1>5

-----------------------------------------------------------------------------
(* Nothing is lost in silence                                              *)

(* A page that is refused before the backend is called (RemoteScan).       *)
Refuse(p) ==
  /\ refused' = refused \cup {p}
  /\ UNCHANGED <<buffer, flushErr, closed, timers, flushMu, at, page, accepted,
                 batch, previousErr, handled, told, flushed>>

(* Every step of the backend, whoever calls it and when.                   *)
Moves ==
  \/ \E w \in Worker, p \in Page : Call(w, p)
  \/ \E w \in Worker : ProcessPage(w)
  \/ Timer \/ Flush \/ Close \/ FlushEnds
  \/ \E p \in Page : Refuse(p)
  \/ UNCHANGED vars

LEMMA NextMoves == [Next]_vars => Moves
BY DEF Next, Moves

(* TypeOK in two parts: the types, and which batches are empty; and a      *)
(* worker that holds flushMu has a batch to send, in which its own page is *)
(* unless the batch is one of another scan.                                *)
Typed ==
  /\ buf \in Seq(Page) /\ bufBytes \in Nat /\ currScan \in Scan \cup {None}
  /\ flushErr \in BOOLEAN /\ closed \in BOOLEAN /\ previousErr \in BOOLEAN
  /\ generation \in Nat /\ timer \in 0..generation /\ fired \subseteq 1..generation
  /\ flushMu \in Thread \cup {None}
  /\ at \in [Worker -> Places] /\ page \in [Worker -> Page \cup {None}]
  /\ batch \in [Thread -> Seq(Page)]
  /\ handled \subseteq Page /\ accepted \subseteq Page /\ refused \subseteq Page
  /\ owed \subseteq Page /\ reported \subseteq Page
  /\ flushed \in {"none", "ok", "error"}

Placed ==
  /\ \A w \in Worker :
       /\ at[w] # "outside" <=> page[w] # None
       /\ at[w] \in {"change", "full"} <=> batch[w] # <<>>
       /\ flushMu = w => at[w] \in {"change", "full"}
       /\ at[w] = "full" => page[w] \in ToSet(batch[w])
  /\ \A t \in {Main, Idle} : flushMu = t <=> batch[t] # <<>>
  /\ previousErr => flushMu = Main

BackendInv == Typed /\ Placed

LEMMA TypesApart == BackendInv => TypeOK
BY DEF BackendInv, TypeOK, Typed, Placed

LEMMA ThreadsApart ==
  /\ Main \in Thread /\ Idle \in Thread /\ Main # Idle /\ None \notin Thread
  /\ \A w \in Worker : w \in Thread /\ w # Main /\ w # Idle
BY RemoteAssumption DEF Thread

LEMMA BackendInit == Init => BackendInv
<1> SUFFICES ASSUME Init PROVE BackendInv
  OBVIOUS
<1>1. Typed
  <2>1. batch \in [Thread -> Seq(Page)] /\ buf \in Seq(Page)
    BY DEF Init
  <2>2. timer \in 0..generation /\ fired \subseteq 1..generation /\ generation \in Nat
    BY DEF Init
  <2>3. at \in [Worker -> Places] /\ page \in [Worker -> Page \cup {None}]
    BY DEF Init, Places
  <2> QED
    BY <2>1, <2>2, <2>3 DEF Init, Typed
<1>2. Placed
  BY RemoteAssumption, ThreadsApart DEF Init, Placed
<1> QED
  BY <1>1, <1>2 DEF BackendInv

(* What a call of ProcessPage does when it goes on, and when it returns.   *)
LEMMA GotoBackend ==
  ASSUME BackendInv, NEW w \in Worker, NEW a \in Places, Goto(w, a)
  PROVE  /\ at' \in [Worker -> Places] /\ page' \in [Worker -> Page \cup {None}]
         /\ at'[w] = a /\ \A v \in Worker : v # w => at'[v] = at[v]
         /\ page' = page /\ accepted' = accepted /\ refused' = refused
BY DEF Goto, BackendInv, Typed

LEMMA ReturnBackend ==
  ASSUME BackendInv, NEW w \in Worker, at[w] # "outside", NEW ok \in BOOLEAN, Return(w, ok)
  PROVE  /\ at' \in [Worker -> Places] /\ page' \in [Worker -> Page \cup {None}]
         /\ page[w] \in Page
         /\ at'[w] = "outside" /\ page'[w] = None
         /\ \A v \in Worker : v # w => at'[v] = at[v] /\ page'[v] = page[v]
         /\ accepted' = IF ok THEN accepted \cup {page[w]} ELSE accepted
         /\ refused' = IF ok THEN refused ELSE refused \cup {page[w]}
BY DEF Return, BackendInv, Typed, Placed, Places

(* The parts of a step of ProcessPage that change the buffer.              *)
LEMMA AppendBackend ==
  ASSUME BackendInv, NEW w \in Worker, at[w] \in {"enter", "relock"}, AppendPage(w),
         UNCHANGED <<flushErr, closed, flushMu, previousErr, handled, flushed>>
  PROVE  BackendInv'
<1> USE RemoteAssumption, ThreadsApart DEF BackendInv
<1>1. /\ page[w] \in Page /\ Append(buf, page[w]) \in Seq(Page)
      /\ Append(buf, page[w]) # <<>> /\ page[w] \in ToSet(Append(buf, page[w]))
  <2>1. page[w] \in Page /\ buf \in Seq(Page)
    BY DEF Typed, Placed
  <2> QED
    BY <2>1, AppendedSet
<1>2. generation' \in Nat /\ timer' \in 0..generation' /\ fired' \subseteq 1..generation'
  BY DEF AppendPage, ResetIdleTimer, Typed
<1>3. CASE /\ batch' = [batch EXCEPT ![w] = Append(buf, page[w])]
           /\ buf' = <<>> /\ bufBytes' = 0 /\ Goto(w, "full")
  <2>1. /\ batch' \in [Thread -> Seq(Page)] /\ batch'[w] = Append(buf, page[w])
        /\ \A t \in Thread : t # w => batch'[t] = batch[t]
    BY <1>1, <1>3 DEF Typed
  <2>2. Typed'
    BY <1>1, <1>2, <1>3, <2>1, GotoBackend DEF AppendPage, Typed, Places, told
  <2>3. Placed'
    BY <1>1, <1>3, <2>1, GotoBackend DEF Placed, Places
  <2> QED
    BY <2>2, <2>3
<1>4. CASE /\ buf' = Append(buf, page[w]) /\ bufBytes' = bufBytes + Size[page[w]]
           /\ Return(w, TRUE) /\ UNCHANGED batch
  <2>1. Typed'
    <3>1. bufBytes' \in Nat /\ currScan' \in Scan
      BY <1>1, <1>4 DEF AppendPage, Typed
    <3>2. /\ at' \in [Worker -> Places] /\ page' \in [Worker -> Page \cup {None}]
          /\ accepted' \subseteq Page /\ refused' \subseteq Page
      BY <1>4, ReturnBackend DEF Typed
    <3> QED
      BY <1>1, <1>2, <1>4, <3>1, <3>2 DEF AppendPage, Typed, told
  <2>2. Placed'
    BY <1>1, <1>4, ReturnBackend DEF Placed
  <2> QED
    BY <2>1, <2>2
<1> QED
  BY <1>3, <1>4 DEF AppendPage

LEMMA TakenBatch ==
  ASSUME BackendInv, NEW t \in Thread, TakeBuffer(t)
  PROVE  /\ batch' \in [Thread -> Seq(Page)] /\ batch'[t] = buf
         /\ \A u \in Thread : u # t => batch'[u] = batch[u]
         /\ buf' = <<>> /\ buf' \in Seq(Page) /\ bufBytes' \in Nat /\ currScan' = currScan
BY DEF TakeBuffer, EmptyBuffer, BackendInv, Typed

LEMMA EndedUpload ==
  ASSUME BackendInv, NEW t \in Thread, Uploaded(t) \/ UploadFails(t)
  PROVE  /\ batch' \in [Thread -> Seq(Page)] /\ batch'[t] = <<>>
         /\ \A u \in Thread : u # t => batch'[u] = batch[u]
         /\ ToSet(batch[t]) \subseteq Page
         /\ flushMu = t /\ flushMu' = None
         /\ handled \subseteq handled' /\ handled' \subseteq handled \cup ToSet(batch[t])
         /\ Uploaded(t) => handled' = handled \cup ToSet(batch[t])
<1>1. ToSet(batch[t]) \subseteq Page
  BY SetTyped DEF BackendInv, Typed
<1>2. /\ flushMu = t /\ flushMu' = None /\ batch' = [batch EXCEPT ![t] = <<>>]
      /\ handled \subseteq handled' /\ handled' \subseteq handled \cup ToSet(batch[t])
      /\ Uploaded(t) => handled' = handled \cup ToSet(batch[t])
  BY DEF Uploaded, UploadFails
<1>3. /\ batch' \in [Thread -> Seq(Page)] /\ batch'[t] = <<>>
      /\ \A u \in Thread : u # t => batch'[u] = batch[u]
  BY <1>2 DEF BackendInv, Typed
<1> QED
  BY <1>1, <1>2, <1>3

LEMMA ProcessBackend ==
  ASSUME BackendInv, NEW w \in Worker, ProcessPage(w)
  PROVE  BackendInv'
<1> USE RemoteAssumption, ThreadsApart DEF BackendInv
<1>1. CASE Enter(w)
  <2>1. CASE ScanChanges(w) /\ LeaveForChange(w)
    <3>1. Typed'
      BY <1>1, <2>1, TakenBatch, GotoBackend DEF Enter, LeaveForChange, Typed, Places, timers, told
    <3>2. /\ at'[w] = (IF buf = <<>> THEN "relock" ELSE "change") /\ page' = page
          /\ \A v \in Worker : v # w => at'[v] = at[v]
      BY <2>1, GotoBackend DEF LeaveForChange, Places
    <3>3. Placed'
      BY <1>1, <2>1, <3>2, TakenBatch DEF Enter, LeaveForChange, Placed
    <3> QED
      BY <3>1, <3>3
  <2>2. CASE AppendPage(w)
    BY <1>1, <2>2, AppendBackend DEF Enter
  <2>3. CASE Return(w, FALSE) /\ UNCHANGED <<buffer, timers, batch>>
          /\ owed' \subseteq owed /\ reported' \subseteq reported \cup owed
    <3>1. at[w] # "outside"
      BY <1>1 DEF Enter
    <3>2. Typed'
      BY <1>1, <2>3, <3>1, ReturnBackend DEF Enter, Typed, buffer, timers
    <3>3. Placed'
      BY <1>1, <2>3, <3>1, ReturnBackend DEF Enter, Placed
    <3> QED
      BY <3>2, <3>3
  <2> QED
    BY <1>1, <2>1, <2>2, <2>3 DEF Enter, told
<1>2. CASE Unreadable(w)
  <2>1. Typed'
    BY <1>2, ReturnBackend DEF Unreadable, Typed, buffer, timers, told
  <2>2. Placed'
    BY <1>2, ReturnBackend DEF Unreadable, Placed, buffer
  <2> QED
    BY <2>1, <2>2
<1>3. CASE Relock(w)
  BY <1>3, AppendBackend DEF Relock
<1>4. CASE LockFlush(w)
  BY <1>4 DEF LockFlush, Typed, Placed, buffer, timers, callers, told
<1>5. CASE WorkerUploaded(w)
  <2>1. at[w] \in {"change", "full"}
    BY <1>5 DEF WorkerUploaded
  <2>2. /\ batch' \in [Thread -> Seq(Page)] /\ batch'[w] = <<>>
        /\ \A u \in Thread : u # w => batch'[u] = batch[u]
        /\ flushMu = w /\ flushMu' = None /\ handled' \subseteq Page
    BY <1>5, EndedUpload DEF WorkerUploaded, Typed
  <2>3. /\ at' \in [Worker -> Places] /\ page' \in [Worker -> Page \cup {None}]
        /\ accepted' \subseteq Page /\ refused' \subseteq Page
        /\ at'[w] \notin {"change", "full"} /\ (at'[w] # "outside" <=> page'[w] # None)
        /\ \A v \in Worker : v # w => at'[v] = at[v] /\ page'[v] = page[v]
    <3>1. CASE Goto(w, "relock")
      BY <2>1, <3>1, GotoBackend DEF Typed, Placed, Places
    <3>2. CASE Return(w, TRUE)
      BY <2>1, <3>2, ReturnBackend DEF Typed
    <3> QED
      BY <1>5, <3>1, <3>2 DEF WorkerUploaded
  <2>4. Typed'
    BY <1>5, <2>2, <2>3 DEF WorkerUploaded, Typed, buffer, timers, told
  <2>5. Placed'
    BY <1>5, <2>2, <2>3 DEF WorkerUploaded, Placed
  <2> QED
    BY <2>4, <2>5
<1>6. CASE WorkerUploadFails(w)
  <2>1. at[w] \in {"change", "full"}
    BY <1>6 DEF WorkerUploadFails, UploadFails, Placed
  <2>2. /\ batch' \in [Thread -> Seq(Page)] /\ batch'[w] = <<>>
        /\ \A u \in Thread : u # w => batch'[u] = batch[u]
        /\ flushMu = w /\ flushMu' = None /\ handled' \subseteq Page
        /\ reported' \subseteq Page
    BY <1>6, EndedUpload DEF WorkerUploadFails, Typed
  <2>3. /\ at' \in [Worker -> Places] /\ page' \in [Worker -> Page \cup {None}]
        /\ accepted' \subseteq Page /\ refused' \subseteq Page
        /\ at'[w] = "outside" /\ page'[w] = None
        /\ \A v \in Worker : v # w => at'[v] = at[v] /\ page'[v] = page[v]
    BY <1>6, <2>1, ReturnBackend DEF WorkerUploadFails, Typed
  <2>4. Typed'
    BY <1>6, <2>2, <2>3 DEF WorkerUploadFails, Typed, buffer, timers
  <2>5. Placed'
    BY <1>6, <2>2, <2>3 DEF WorkerUploadFails, Placed
  <2> QED
    BY <2>4, <2>5
<1> QED
  BY <1>1, <1>2, <1>3, <1>4, <1>5, <1>6 DEF ProcessPage

LEMMA BackendStep == BackendInv /\ Moves => BackendInv'
<1> SUFFICES ASSUME BackendInv, Moves PROVE BackendInv'
  OBVIOUS
<1> USE RemoteAssumption, ThreadsApart DEF BackendInv
<1>1. ASSUME NEW w \in Worker, NEW p \in Page, Call(w, p) PROVE BackendInv'
  <2>1. /\ at' \in [Worker -> Places] /\ page' \in [Worker -> Page \cup {None}]
        /\ at'[w] = "enter" /\ page'[w] = p /\ p # None
        /\ \A v \in Worker : v # w => at'[v] = at[v] /\ page'[v] = page[v]
    BY <1>1 DEF Call, Typed, Places
  <2>2. Typed'
    BY <1>1, <2>1 DEF Call, Typed, buffer, timers, told
  <2>3. Placed'
    BY <1>1, <2>1 DEF Call, Placed
  <2> QED
    BY <2>2, <2>3
<1>2. ASSUME NEW w \in Worker, ProcessPage(w) PROVE BackendInv'
  BY <1>2, ProcessBackend
<1>4. CASE IdleFires
  BY <1>4 DEF IdleFires, Typed, Placed, buffer, callers, told
<1>5. ASSUME NEW g \in fired, IdleCallback(g) PROVE BackendInv'
  <2>1. CASE UNCHANGED <<buffer, batch, flushMu>>
    BY <1>5, <2>1 DEF IdleCallback, Typed, Placed, buffer, callers, told
  <2>2. CASE buf # <<>> /\ TakeBuffer(Idle) /\ flushMu' = Idle
    <3>1. Typed'
      BY <1>5, <2>2, TakenBatch DEF IdleCallback, Typed, callers, told
    <3>2. Placed'
      BY <1>5, <2>2, TakenBatch DEF IdleCallback, Placed, callers, told
    <3> QED
      BY <3>1, <3>2
  <2> QED
    BY <1>5, <2>1, <2>2 DEF IdleCallback
<1>6. CASE IdleUploaded \/ IdleUploadFails
  <2>1. Typed'
    BY <1>6, EndedUpload DEF IdleUploaded, IdleUploadFails, Typed, buffer, timers, callers, told
  <2>2. /\ batch'[Idle] = <<>> /\ flushMu = Idle /\ flushMu' = None
        /\ \A u \in Thread : u # Idle => batch'[u] = batch[u]
        /\ at' = at /\ page' = page /\ previousErr' = previousErr
    BY <1>6, EndedUpload DEF IdleUploaded, IdleUploadFails, callers
  <2>3. Placed'
    BY <2>2 DEF Placed
  <2> QED
    BY <2>1, <2>3
<1>7. CASE Flush
  <2>1. generation' \in Nat /\ timer' \in 0..generation' /\ fired' \subseteq 1..generation'
    BY <1>7 DEF Flush, StopIdleTimer, Typed
  <2>2. CASE buf = <<>> /\ FlushReturns(flushErr, {}) /\ UNCHANGED <<buffer, batch, flushMu>>
    <3>1. Typed'
      BY <1>7, <2>1, <2>2 DEF Flush, FlushReturns, Typed, buffer, callers
    <3>2. Placed'
      BY <1>7, <2>2 DEF Flush, FlushReturns, Placed, callers
    <3> QED
      BY <3>1, <3>2
  <2>3. CASE /\ buf # <<>> /\ TakeBuffer(Main) /\ flushMu' = Main
             /\ previousErr' = flushErr /\ UNCHANGED <<told, flushed>>
    <3>1. Typed'
      BY <1>7, <2>1, <2>3, TakenBatch DEF Flush, Typed, callers, told
    <3>2. Placed'
      BY <1>7, <2>3, TakenBatch DEF Flush, Placed, callers
    <3> QED
      BY <3>1, <3>2
  <2> QED
    BY <1>7, <2>2, <2>3 DEF Flush
<1>8. CASE Close
  BY <1>8 DEF Close, StopIdleTimer, Typed, Placed, buffer, callers, told
<1>9. CASE FlushUploaded \/ FlushUploadFails
  <2>1. Typed'
    BY <1>9, EndedUpload
       DEF FlushUploaded, FlushUploadFails, FlushReturns, Typed, buffer, timers, callers
  <2>2. Placed'
    BY <1>9, EndedUpload DEF FlushUploaded, FlushUploadFails, FlushReturns, Placed, callers
  <2> QED
    BY <2>1, <2>2
<1>10. ASSUME NEW p \in Page, Refuse(p) PROVE BackendInv'
  BY <1>10 DEF Refuse, Typed, Placed, buffer, timers, told
<1>11. CASE UNCHANGED vars
  BY <1>11 DEF vars, Typed, Placed, buffer, timers, callers, told
<1> QED
  BY <1>1, <1>2, <1>4, <1>5, <1>6, <1>7, <1>8, <1>9, <1>10, <1>11 DEF Moves, Timer, FlushEnds

-----------------------------------------------------------------------------
(* What the steps do to the pages under way                                *)

(* The first half of SentOnce.                                             *)
Apart ==
  /\ IsInjective(buf)
  /\ \A t \in Thread : IsInjective(batch[t]) /\ ToSet(batch[t]) \cap ToSet(buf) = {}
  /\ \A t, u \in Thread : t # u => ToSet(batch[t]) \cap ToSet(batch[u]) = {}

LEMMA InUnderWay ==
  ASSUME NEW p
  PROVE  p \in UnderWay <=> p \in ToSet(buf) \/ \E t \in Thread : p \in ToSet(batch[t])
BY DEF UnderWay

LEMMA InUnderWayNext ==
  ASSUME NEW p
  PROVE  p \in UnderWay' <=> p \in ToSet(buf') \/ \E t \in Thread : p \in ToSet(batch'[t])
<1>1. UnderWay' = ToSet(buf') \cup UNION {ToSet(batch'[t]) : t \in Thread}
  BY DEF UnderWay
<1> QED
  BY <1>1

LEMMA TakenUnderWay ==
  ASSUME BackendInv, NEW t \in Thread, batch[t] = <<>>, TakeBuffer(t)
  PROVE  UnderWay' = UnderWay /\ (Apart => Apart')
<1>1. /\ batch'[t] = buf /\ buf' = <<>>
      /\ \A u \in Thread : u # t => batch'[u] = batch[u]
  BY TakenBatch
<1>2. UnderWay' = UnderWay
  BY <1>1, EmptySet, InUnderWay, InUnderWayNext
<1>3. Apart => Apart'
  BY <1>1, EmptySet DEF Apart
<1> QED
  BY <1>2, <1>3

LEMMA EndedUnderWay ==
  ASSUME BackendInv, NEW t \in Thread, Uploaded(t) \/ UploadFails(t), buf' = buf
  PROVE  /\ UnderWay \subseteq UnderWay' \cup ToSet(batch[t])
         /\ UnderWay' \subseteq UnderWay /\ ToSet(batch[t]) \subseteq UnderWay
         /\ Apart => Apart' /\ UnderWay' \cap ToSet(batch[t]) = {}
<1>1. batch'[t] = <<>> /\ \A u \in Thread : u # t => batch'[u] = batch[u]
  BY EndedUpload
<1>2. /\ UnderWay \subseteq UnderWay' \cup ToSet(batch[t])
      /\ UnderWay' \subseteq UnderWay /\ ToSet(batch[t]) \subseteq UnderWay
  BY <1>1, EmptySet, InUnderWay, InUnderWayNext
<1>3. ASSUME Apart PROVE UnderWay' \cap ToSet(batch[t]) = {}
  BY <1>1, <1>3, EmptySet, InUnderWayNext DEF Apart
<1>4. Apart => Apart'
  BY <1>1, EmptySet DEF Apart
<1> QED
  BY <1>2, <1>3, <1>4

LEMMA AppendUnderWay ==
  ASSUME BackendInv, NEW w \in Worker, at[w] \in {"enter", "relock"}, AppendPage(w)
  PROVE  /\ UnderWay' = UnderWay \cup {page[w]}
         /\ Apart /\ page[w] \notin UnderWay => Apart'
<1> USE ThreadsApart
<1> DEFINE s == Append(buf, page[w])
<1>1. page[w] \in Page /\ buf \in Seq(Page) /\ batch[w] = <<>>
  BY DEF BackendInv, Typed, Placed
<1>2. ToSet(s) = ToSet(buf) \cup {page[w]} /\ (IsInjective(buf) /\ page[w] \notin ToSet(buf) => IsInjective(s))
  BY <1>1, AppendedSet
<1> HIDE DEF s
<1>3. CASE /\ batch'[w] = s /\ buf' = <<>>
           /\ \A u \in Thread : u # w => batch'[u] = batch[u]
  <2>1. UnderWay' = UnderWay \cup {page[w]}
    BY <1>1, <1>2, <1>3, EmptySet, InUnderWay, InUnderWayNext
  <2>2. ASSUME Apart, page[w] \notin UnderWay PROVE Apart'
    <3>1. /\ ToSet(buf') = {} /\ IsInjective(buf')
          /\ IsInjective(batch'[w]) /\ ToSet(batch'[w]) = ToSet(buf) \cup {page[w]}
      BY <1>2, <1>3, <2>2, EmptySet, InUnderWay DEF Apart
    <3>2. ASSUME NEW t \in Thread, t # w PROVE page[w] \notin ToSet(batch[t])
      BY <2>2, InUnderWay
    <3>3. \A t \in Thread : t # w => ToSet(batch'[t]) \cap ToSet(batch'[w]) = {}
      BY <1>3, <2>2, <3>1, <3>2 DEF Apart
    <3>4. \A t, u \in Thread : t # u => ToSet(batch'[t]) \cap ToSet(batch'[u]) = {}
      BY <1>3, <2>2, <3>3 DEF Apart
    <3>5. \A t \in Thread : IsInjective(batch'[t])
      BY <1>3, <2>2, <3>1 DEF Apart
    <3> QED
      BY <3>1, <3>4, <3>5 DEF Apart
  <2> QED
    BY <2>1, <2>2
<1>4. CASE buf' = s /\ batch' = batch
  <2>1. UnderWay' = UnderWay \cup {page[w]}
    BY <1>2, <1>4, InUnderWay, InUnderWayNext
  <2>2. ASSUME Apart, page[w] \notin UnderWay PROVE Apart'
    BY <1>2, <1>4, <2>2, InUnderWay DEF Apart
  <2> QED
    BY <2>1, <2>2
<1> QED
  BY <1>3, <1>4 DEF AppendPage, s, BackendInv, Typed

LEMMA SameUnderWay ==
  ASSUME buf' = buf, batch' = batch
  PROVE  UnderWay' = UnderWay /\ (Apart => Apart')
BY DEF UnderWay, Apart

-----------------------------------------------------------------------------
Kept(p) == p \in handled \cup UnderWay \cup reported \cup owed

(* No step of the backend loses a page, and it accepts none that it does   *)
(* not keep.                                                               *)
LEMMA KeptStays ==
  ASSUME BackendInv, Moves, NEW p, Kept(p) \/ p \notin accepted
  PROVE  p \in accepted' => Kept(p)'
<1> USE ThreadsApart
<1>1. CASE /\ UnderWay' = UnderWay /\ handled' = handled
           /\ reported \cup owed \subseteq reported' \cup owed' /\ accepted' = accepted
  BY <1>1 DEF Kept
<1>2. ASSUME NEW t \in Thread, Uploaded(t), buf' = buf, reported \cup owed \subseteq reported' \cup owed',
             \A q \in accepted' : q \in accepted \/ q \in ToSet(batch[t])
      PROVE  p \in accepted' => Kept(p)'
  BY <1>2, EndedUpload, EndedUnderWay DEF Kept
<1>3. ASSUME NEW t \in Thread, UploadFails(t), buf' = buf, accepted' = accepted,
             reported \cup owed \cup ToSet(batch[t]) \subseteq reported' \cup owed'
      PROVE  p \in accepted' => Kept(p)'
  BY <1>3, EndedUpload, EndedUnderWay DEF Kept
<1>4. ASSUME NEW w \in Worker, at[w] \in {"enter", "relock"}, AppendPage(w), handled' = handled
      PROVE  p \in accepted' => Kept(p)'
  <2>1. accepted' \subseteq accepted \cup {page[w]} /\ reported' = reported /\ owed' = owed
    BY <1>4 DEF AppendPage, Goto, Return, told
  <2> QED
    BY <1>4, <2>1, AppendUnderWay DEF Kept
<1>5. ASSUME NEW t \in Thread, batch[t] = <<>>, TakeBuffer(t), UNCHANGED <<handled, told, accepted>>
      PROVE  p \in accepted' => Kept(p)'
  BY <1>1, <1>5, TakenUnderWay DEF told
<1>6. ASSUME NEW w \in Worker, ProcessPage(w) PROVE p \in accepted' => Kept(p)'
  <2>1. CASE Enter(w)
    <3>1. CASE Return(w, FALSE) /\ UNCHANGED <<buffer, timers, batch>>
                 /\ reported \cup owed \subseteq reported' \cup owed'
      BY <1>1, <2>1, <3>1, SameUnderWay DEF Enter, Return, buffer
    <3>2. CASE LeaveForChange(w)
      <4>1. batch[w] = <<>>
        BY <2>1 DEF Enter, BackendInv, Typed, Placed
      <4> QED
        BY <1>5, <2>1, <3>2, <4>1 DEF Enter, LeaveForChange, Goto
    <3>3. CASE AppendPage(w)
      BY <1>4, <2>1, <3>3 DEF Enter
    <3> QED
      BY <2>1, <3>1, <3>2, <3>3 DEF Enter, told
  <2>2. CASE Unreadable(w) \/ LockFlush(w)
    BY <1>1, <2>2, SameUnderWay DEF Unreadable, LockFlush, Return, buffer, callers, told
  <2>3. CASE Relock(w)
    BY <1>4, <2>3 DEF Relock
  <2>4. CASE WorkerUploaded(w)
    <3>1. \A q \in accepted' : q \in accepted \/ q \in ToSet(batch[w])
      BY <2>4 DEF WorkerUploaded, Goto, Return, BackendInv, Placed
    <3> QED
      BY <1>2, <2>4, <3>1 DEF WorkerUploaded, buffer, told
  <2>5. CASE WorkerUploadFails(w)
    BY <1>3, <2>5 DEF WorkerUploadFails, Return, buffer
  <2> QED
    BY <1>6, <2>1, <2>2, <2>3, <2>4, <2>5 DEF ProcessPage
<1>7. CASE Timer
  <2>1. CASE IdleFires
    BY <1>1, <2>1, SameUnderWay DEF IdleFires, buffer, callers, told
  <2>2. ASSUME NEW g \in fired, IdleCallback(g) PROVE p \in accepted' => Kept(p)'
    <3>1. batch[Idle] = <<>>
      BY <2>2 DEF IdleCallback, BackendInv, Placed
    <3> QED
      BY <1>1, <1>5, <2>2, <3>1, SameUnderWay DEF IdleCallback, buffer, callers, told
  <2>3. CASE IdleUploaded
    BY <1>2, <2>3 DEF IdleUploaded, buffer, callers, told
  <2>4. CASE IdleUploadFails
    BY <1>3, <2>4 DEF IdleUploadFails, buffer, callers
  <2> QED
    BY <1>7, <2>1, <2>2, <2>3, <2>4 DEF Timer
<1>8. CASE Flush
  <2>1. batch[Main] = <<>>
    BY <1>8 DEF Flush, BackendInv, Placed
  <2>2. CASE FlushReturns(flushErr, {}) /\ UNCHANGED <<buffer, batch, flushMu>>
    BY <1>1, <1>8, <2>2, SameUnderWay DEF Flush, FlushReturns, buffer, callers
  <2>3. CASE TakeBuffer(Main) /\ UNCHANGED <<told, flushed>>
    BY <1>5, <1>8, <2>1, <2>3 DEF Flush, callers
  <2> QED
    BY <1>8, <2>2, <2>3 DEF Flush
<1>9. CASE FlushEnds
  BY <1>2, <1>3, <1>9 DEF FlushEnds, FlushUploaded, FlushUploadFails, FlushReturns, buffer, callers
<1>10. CASE Close \/ (\E w \in Worker, q \in Page : Call(w, q)) \/ (\E q \in Page : Refuse(q)) \/ UNCHANGED vars
  BY <1>1, <1>10, SameUnderWay DEF Close, Call, Refuse, vars, buffer, callers, told
<1> QED
  BY <1>6, <1>7, <1>8, <1>9, <1>10 DEF Moves

(* An error nobody was told of is still to be told.                        *)
Remembered == owed # {} => flushErr \/ previousErr

LEMMA RememberedStays == BackendInv /\ Remembered /\ Moves => Remembered'
<1> SUFFICES ASSUME BackendInv, Remembered, Moves PROVE Remembered'
  OBVIOUS
<1> USE ThreadsApart DEF Remembered
<1>1. ASSUME NEW w \in Worker, ProcessPage(w) PROVE Remembered'
  BY <1>1 DEF ProcessPage, Enter, Unreadable, Relock, LockFlush, WorkerUploaded,
              WorkerUploadFails, AppendPage, LeaveForChange, told
<1>2. CASE Timer
  BY <1>2 DEF Timer, IdleFires, IdleCallback, IdleUploaded, IdleUploadFails, told
<1>3. CASE Flush
  <2>1. ~previousErr
    BY <1>3 DEF Flush, BackendInv, Placed
  <2> QED
    BY <1>3, <2>1 DEF Flush, FlushReturns, told
<1>4. CASE FlushEnds
  BY <1>4 DEF FlushEnds, FlushUploaded, FlushUploadFails, FlushReturns
<1>5. CASE Close \/ (\E w \in Worker, q \in Page : Call(w, q)) \/ (\E q \in Page : Refuse(q)) \/ UNCHANGED vars
  BY <1>5 DEF Close, Call, Refuse, vars, told
<1> QED
  BY <1>1, <1>2, <1>3, <1>4, <1>5 DEF Moves

LEMMA LossStep == BackendInv /\ NoSilentLoss /\ Moves => NoSilentLoss'
<1> SUFFICES ASSUME BackendInv, NoSilentLoss, Moves PROVE NoSilentLoss'
  OBVIOUS
<1>0. OnItsWay \cup Stranded \subseteq UnderWay
  BY DEF OnItsWay, Stranded, UnderWay
<1>1. ASSUME NEW p \in accepted' PROVE Kept(p)'
  <2>1. Kept(p) \/ p \notin accepted
    BY <1>0 DEF NoSilentLoss, Kept
  <2> QED
    BY <1>1, <2>1, KeptStays
<1>2. Remembered'
  BY RememberedStays DEF NoSilentLoss, Remembered
<1>3. UnderWay' \subseteq OnItsWay' \cup Stranded'
  BY DEF OnItsWay
<1> QED
  BY <1>1, <1>2, <1>3 DEF NoSilentLoss, Kept, Remembered

(* The types, and which thread holds a batch or flushMu in which place.    *)
THEOREM TypesHold == Spec => []TypeOK
<1>1. BackendInv /\ [Next]_vars => BackendInv'
  BY NextMoves, BackendStep
<1> QED
  BY <1>1, BackendInit, TypesApart, PTL DEF Spec

(* No page that ProcessPage took is lost in silence, unless it lies in the *)
(* buffer of a closed backend, over every order of full batches, idle      *)
(* uploads, flushes and closings of any number of goroutines.              *)
THEOREM NothingLostInSilence == Spec => []NoSilentLoss
<1>1. Init => BackendInv /\ NoSilentLoss
  BY BackendInit DEF Init, NoSilentLoss
<1>2. BackendInv /\ NoSilentLoss /\ [Next]_vars => BackendInv' /\ NoSilentLoss'
  BY NextMoves, BackendStep, LossStep
<1> QED
  BY <1>1, <1>2, PTL DEF Spec

-----------------------------------------------------------------------------
(* No page is sent twice                                                   *)

Early == {"enter", "change", "relock"}
Done == handled \cup owed \cup reported
Seen == UnderWay \cup Done
Judged == accepted \cup refused

(* Nobody processes a page that another worker processes, that has come    *)
(* back, or, before its turn, that has been under way; and what has been   *)
(* under way has come back or waits with its full batch.                   *)
FreshInv ==
  /\ \A v, w \in Worker : v # w /\ page[v] # None => page[v] # page[w]
  /\ \A w \in Worker : at[w] \in Early => page[w] \notin Seen
  /\ \A w \in Worker : page[w] \notin Judged
  /\ \A p \in Seen : p \in Judged \/ \E w \in Worker : at[w] = "full" /\ page[w] = p
  /\ Apart
  /\ UnderWay \cap Done = {}

LEMMA FreshKept ==
  ASSUME BackendInv, BackendInv', FreshInv, Apart', UnderWay' \cap Done' = {},
         \A v \in Worker :
           \/ page'[v] = None
           \/ /\ page'[v] = page[v]
              /\ at'[v] = at[v] \/ (at[v] \in Early /\ at'[v] \in Early \cup {"full"}),
         \A p \in Judged' : p \in Judged \/ \E v \in Worker : page[v] = p /\ page'[v] = None,
         Judged \subseteq Judged',
         \A v \in Worker : page[v] # None /\ page'[v] = None => page[v] \in Judged',
         \A p \in Seen' : p \in Seen \/ \E v \in Worker : page[v] = p /\ p # None /\ at'[v] \notin Early
  PROVE  FreshInv'
<1>1. ASSUME NEW v \in Worker, NEW w \in Worker, v # w, page'[v] # None PROVE page'[v] # page'[w]
  BY <1>1 DEF FreshInv
<1>2. ASSUME NEW w \in Worker, at'[w] \in Early PROVE page'[w] \notin Seen'
  <2>1. page'[w] # None
    BY <1>2 DEF BackendInv, Placed, Early
  <2>2. page'[w] = page[w] /\ at[w] \in Early
    BY <1>2, <2>1 DEF Early
  <2> QED
    BY <1>2, <2>1, <2>2 DEF FreshInv
<1>3. ASSUME NEW w \in Worker PROVE page'[w] \notin Judged'
  <2>1. CASE page'[w] = None
    BY <2>1, RemoteAssumption DEF Judged, BackendInv, Typed
  <2>2. CASE page'[w] # None
    BY <2>2 DEF FreshInv
  <2> QED
    BY <2>1, <2>2
<1>4. ASSUME NEW p \in Seen', p \notin Judged' PROVE \E w \in Worker : at'[w] = "full" /\ page'[w] = p
  <2>1. PICK w \in Worker : page[w] = p /\ page[w] # None /\ at'[w] \notin Early
    <3>1. CASE p \in Seen
      <4>1. PICK w \in Worker : at[w] = "full" /\ page[w] = p
        BY <1>4, <3>1 DEF FreshInv
      <4>2. page[w] # None
        BY <4>1 DEF BackendInv, Placed
      <4>3. page'[w] # None
        BY <1>4, <4>1, <4>2
      <4> QED
        BY <4>1, <4>2, <4>3 DEF Early
    <3> QED
      BY <1>4, <3>1
  <2>2. page'[w] # None
    BY <1>4, <2>1
  <2>3. at'[w] = "full"
    BY <2>1, <2>2 DEF BackendInv, Typed, Placed, Places, Early
  <2> QED
    BY <2>1, <2>2, <2>3
<1> QED
  BY <1>1, <1>2, <1>3, <1>4 DEF FreshInv

LEMMA FreshQuiet ==
  ASSUME BackendInv, BackendInv', FreshInv, Apart', UnderWay' \cap Done' = {},
         UNCHANGED callers, Seen' \subseteq Seen
  PROVE  FreshInv'
BY FreshKept DEF callers, Judged, FreshInv

LEMMA FreshGoto ==
  ASSUME BackendInv, BackendInv', FreshInv, Apart', UnderWay' \cap Done' = {},
         NEW w \in Worker, NEW a \in Places, at[w] \in Early, Goto(w, a),
         \/ a \in Early /\ Seen' \subseteq Seen
         \/ a = "full" /\ Seen' \subseteq Seen \cup {page[w]}
  PROVE  FreshInv'
<1>1. /\ at'[w] = a /\ \A v \in Worker : v # w => at'[v] = at[v]
      /\ page' = page /\ Judged' = Judged /\ page[w] # None
  BY GotoBackend DEF Judged, BackendInv, Placed, Early
<1>2. \A v \in Worker : page[v] # None \/ page[v] \notin Judged'
  BY <1>1 DEF FreshInv
<1>3. "full" \notin Early
  BY DEF Early
<1> QED
  BY <1>1, <1>3, FreshKept, RemoteAssumption DEF BackendInv, Typed

LEMMA FreshReturn ==
  ASSUME BackendInv, BackendInv', FreshInv, Apart', UnderWay' \cap Done' = {},
         NEW w \in Worker, at[w] # "outside", NEW ok \in BOOLEAN, Return(w, ok),
         Seen' \subseteq Seen \cup {page[w]}
  PROVE  FreshInv'
<1>1. /\ at'[w] = "outside" /\ page'[w] = None /\ page[w] # None
      /\ \A v \in Worker : v # w => at'[v] = at[v] /\ page'[v] = page[v]
      /\ Judged' = Judged \cup {page[w]}
  BY ReturnBackend DEF Judged, BackendInv, Placed
<1>2. "outside" \notin Early
  BY DEF Early
<1> QED
  BY <1>1, <1>2, FreshKept

LEMMA FreshCall ==
  ASSUME BackendInv, FreshInv, NEW w \in Worker, NEW p \in Page, Fresh(p), Call(w, p)
  PROVE  FreshInv'
<1>1. /\ at'[w] = "enter" /\ page'[w] = p
      /\ \A v \in Worker : v # w => at'[v] = at[v] /\ page'[v] = page[v]
      /\ Judged' = Judged /\ Done' = Done /\ UnderWay' = UnderWay /\ (Apart => Apart')
      /\ at[w] = "outside" /\ page[w] = None
  BY SameUnderWay DEF Call, BackendInv, Typed, Placed, Judged, Done, buffer, told
<1>2. Seen' = Seen
  BY <1>1 DEF Seen
<1>3. p \notin Judged /\ \A v \in Worker : page[v] # p
  BY DEF Fresh, Judged
<1>4. p \notin Seen
  BY <1>3 DEF FreshInv
<1>5. \A v, u \in Worker : v # u /\ page'[v] # None => page'[v] # page'[u]
  BY <1>1, <1>3 DEF FreshInv
<1>6. \A v \in Worker : at'[v] \in Early => page'[v] \notin Seen'
  BY <1>1, <1>2, <1>4 DEF FreshInv
<1>7. \A v \in Worker : page'[v] \notin Judged'
  BY <1>1, <1>3 DEF FreshInv
<1>8. \A q \in Seen' : q \in Judged' \/ \E v \in Worker : at'[v] = "full" /\ page'[v] = q
  BY <1>1, <1>2 DEF FreshInv
<1> QED
  BY <1>1, <1>5, <1>6, <1>7, <1>8 DEF FreshInv

(* What the end of an upload does to the pages seen.                       *)
LEMMA EndedSeen ==
  ASSUME BackendInv, FreshInv, NEW t \in Thread, Uploaded(t) \/ UploadFails(t), buf' = buf,
         owed' \cup reported' \subseteq owed \cup reported \cup ToSet(batch[t])
  PROVE  Apart' /\ UnderWay' \cap Done' = {} /\ Seen' \subseteq Seen
<1>1. /\ UnderWay' \subseteq UnderWay /\ ToSet(batch[t]) \subseteq UnderWay
      /\ Apart' /\ UnderWay' \cap ToSet(batch[t]) = {}
  BY EndedUnderWay DEF FreshInv
<1>2. handled' \subseteq handled \cup ToSet(batch[t])
  BY EndedUpload
<1>3. Done' \subseteq Done \cup ToSet(batch[t])
  BY <1>2 DEF Done
<1> QED
  BY <1>1, <1>3 DEF FreshInv, Seen

LEMMA AppendedSeen ==
  ASSUME BackendInv, BackendInv', FreshInv, NEW w \in Worker, at[w] \in {"enter", "relock"},
         AppendPage(w), handled' = handled
  PROVE  FreshInv'
<1>1. Done' = Done
  BY DEF AppendPage, told, Done
<1>2. page[w] \notin Seen
  BY DEF FreshInv, Early
<1>3. UnderWay' = UnderWay \cup {page[w]} /\ Apart'
  BY <1>2, AppendUnderWay DEF FreshInv, Seen
<1>4. UnderWay' \cap Done' = {} /\ Seen' \subseteq Seen \cup {page[w]}
  BY <1>1, <1>2, <1>3 DEF FreshInv, Seen
<1>5. CASE Goto(w, "full")
  BY <1>3, <1>4, <1>5, FreshGoto DEF Early, Places
<1>6. CASE Return(w, TRUE)
  BY <1>3, <1>4, <1>6, FreshReturn
<1> QED
  BY <1>5, <1>6 DEF AppendPage

LEMMA FreshProcess ==
  ASSUME BackendInv, BackendInv', FreshInv, NEW w \in Worker, ProcessPage(w)
  PROVE  FreshInv'
<1> USE ThreadsApart
<1>1. ASSUME UNCHANGED <<buffer, batch>>, Done' = Done
      PROVE  Apart' /\ UnderWay' \cap Done' = {} /\ Seen' \subseteq Seen
  BY <1>1, SameUnderWay DEF FreshInv, Seen, buffer
<1>2. CASE Enter(w)
  <2>1. CASE Return(w, FALSE) /\ UNCHANGED <<buffer, batch>> /\ owed' \cup reported' = owed \cup reported
    <3>1. Done' = Done /\ at[w] # "outside"
      BY <1>2, <2>1 DEF Enter, Done
    <3> QED
      BY <1>1, <2>1, <3>1, FreshReturn
  <2>2. CASE LeaveForChange(w)
    <3>1. batch[w] = <<>> /\ at[w] \in Early /\ Done' = Done
      BY <1>2, <2>2 DEF Enter, LeaveForChange, BackendInv, Placed, Early, Done, told
    <3>2. UnderWay' = UnderWay /\ Apart'
      BY <2>2, <3>1, TakenUnderWay DEF LeaveForChange, FreshInv
    <3>3. UnderWay' \cap Done' = {} /\ Seen' \subseteq Seen
      BY <3>1, <3>2 DEF FreshInv, Seen
    <3>4. Goto(w, "relock") \/ Goto(w, "change")
      BY <2>2 DEF LeaveForChange
    <3> QED
      BY <3>1, <3>2, <3>3, <3>4, FreshGoto DEF Early, Places
  <2>3. CASE AppendPage(w)
    BY <1>2, <2>3, AppendedSeen DEF Enter
  <2> QED
    BY <1>2, <2>1, <2>2, <2>3 DEF Enter, told
<1>3. CASE Unreadable(w)
  <2>1. Done' = Done /\ at[w] # "outside"
    BY <1>3 DEF Unreadable, Done, told
  <2> QED
    BY <1>1, <1>3, <2>1, FreshReturn DEF Unreadable
<1>4. CASE Relock(w)
  BY <1>4, AppendedSeen DEF Relock
<1>5. CASE LockFlush(w)
  <2>1. Done' = Done
    BY <1>5 DEF LockFlush, Done, told
  <2> QED
    BY <1>1, <1>5, <2>1, FreshQuiet DEF LockFlush
<1>6. CASE WorkerUploaded(w)
  <2>1. Apart' /\ UnderWay' \cap Done' = {} /\ Seen' \subseteq Seen
    BY <1>6, EndedSeen DEF WorkerUploaded, buffer, told
  <2>2. CASE at[w] = "change" /\ Goto(w, "relock")
    BY <2>1, <2>2, FreshGoto DEF Early, Places
  <2>3. CASE at[w] = "full" /\ Return(w, TRUE)
    BY <2>1, <2>3, FreshReturn
  <2> QED
    BY <1>6, <2>2, <2>3 DEF WorkerUploaded
<1>7. CASE WorkerUploadFails(w)
  <2>1. Apart' /\ UnderWay' \cap Done' = {} /\ Seen' \subseteq Seen
    BY <1>7, EndedSeen DEF WorkerUploadFails, buffer
  <2>2. at[w] # "outside"
    BY <1>7 DEF WorkerUploadFails, UploadFails, BackendInv, Placed
  <2> QED
    BY <1>7, <2>1, <2>2, FreshReturn DEF WorkerUploadFails
<1> QED
  BY <1>2, <1>3, <1>4, <1>5, <1>6, <1>7 DEF ProcessPage

LEMMA FreshStep == BackendInv /\ FreshInv /\ [Next]_vars => FreshInv'
<1> SUFFICES ASSUME BackendInv, FreshInv, [Next]_vars PROVE FreshInv'
  OBVIOUS
<1> USE ThreadsApart
<1>1. BackendInv'
  BY NextMoves, BackendStep
<1>2. ASSUME UNCHANGED <<buffer, batch, callers>>, Done' = Done PROVE FreshInv'
  <2>1. Apart' /\ UnderWay' = UnderWay
    BY <1>2, SameUnderWay DEF FreshInv, buffer
  <2> QED
    BY <1>1, <1>2, <2>1, FreshQuiet DEF FreshInv, Seen
<1>3. ASSUME NEW t \in Thread, Uploaded(t) \/ UploadFails(t), UNCHANGED <<buffer, callers>>,
             owed' \cup reported' \subseteq owed \cup reported \cup ToSet(batch[t])
      PROVE  FreshInv'
  BY <1>1, <1>3, EndedSeen, FreshQuiet DEF buffer
<1>4. ASSUME NEW t \in Thread, batch[t] = <<>>, TakeBuffer(t), UNCHANGED <<callers, handled, told>>
      PROVE  FreshInv'
  <2>1. UnderWay' = UnderWay /\ Apart' /\ Done' = Done
    BY <1>4, TakenUnderWay DEF FreshInv, Done, told
  <2> QED
    BY <1>1, <1>4, <2>1, FreshQuiet DEF FreshInv, Seen
<1>5. CASE \E w \in Worker, p \in Page : Fresh(p) /\ Call(w, p)
  BY <1>5, FreshCall
<1>6. CASE \E w \in Worker : ProcessPage(w)
  BY <1>1, <1>6, FreshProcess
<1>7. CASE Timer
  <2>1. CASE IdleFires
    BY <1>2, <2>1 DEF IdleFires, Done, told
  <2>2. ASSUME NEW g \in fired, IdleCallback(g) PROVE FreshInv'
    <3>1. batch[Idle] = <<>>
      BY <2>2 DEF IdleCallback, BackendInv, Placed
    <3> QED
      BY <1>2, <1>4, <2>2, <3>1 DEF IdleCallback, Done, told
  <2>3. CASE IdleUploaded \/ IdleUploadFails
    BY <1>3, <2>3 DEF IdleUploaded, IdleUploadFails, told
  <2> QED
    BY <1>7, <2>1, <2>2, <2>3 DEF Timer
<1>8. CASE Flush
  <2>1. batch[Main] = <<>>
    BY <1>8 DEF Flush, BackendInv, Placed
  <2>2. CASE FlushReturns(flushErr, {}) /\ UNCHANGED <<buffer, batch, flushMu>>
    BY <1>2, <1>8, <2>2 DEF Flush, FlushReturns, Done
  <2>3. CASE TakeBuffer(Main) /\ UNCHANGED <<told, flushed>>
    BY <1>4, <1>8, <2>1, <2>3 DEF Flush
  <2> QED
    BY <1>8, <2>2, <2>3 DEF Flush
<1>9. CASE FlushEnds
  BY <1>3, <1>9 DEF FlushEnds, FlushUploaded, FlushUploadFails, FlushReturns
<1>10. CASE Close \/ UNCHANGED vars
  BY <1>2, <1>10 DEF Close, vars, Done, told
<1> QED
  BY <1>5, <1>6, <1>7, <1>8, <1>9, <1>10 DEF Next

LEMMA FreshInit == Init => BackendInv /\ FreshInv
<1> SUFFICES ASSUME Init PROVE FreshInv
  BY BackendInit
<1>1. UnderWay = {} /\ Done = {} /\ Judged = {} /\ Seen = {} /\ Apart
  BY EmptySet DEF Init, UnderWay, Done, Judged, Seen, Apart
<1> QED
  BY <1>1 DEF Init, FreshInv, Early

(* No page is sent twice, or sent again after its upload has ended, by     *)
(* whatever threads it passes.                                             *)
THEOREM SendsOnce == Spec => []SentOnce
<1>1. BackendInv /\ FreshInv /\ [Next]_vars => BackendInv' /\ FreshInv'
  BY NextMoves, BackendStep, FreshStep
<1>2. FreshInv => SentOnce
  BY DEF FreshInv, SentOnce, Apart, Done
<1> QED
  BY <1>1, <1>2, FreshInit, PTL DEF Spec

-----------------------------------------------------------------------------
(* The backend keeps what an upload client owes                            *)

(* A step that the callers of an upload client cannot tell from none.      *)
LEMMA NothingDelivered ==
  ASSUME UnderWay' = UnderWay, UNCHANGED <<handled, told, accepted>>,
         (flushErr \/ previousErr)' <=> flushErr \/ previousErr
  PROVE  UNCHANGED Delivery!vars
BY DEF Delivery!vars, told

LEMMA HeldOnce ==
  ASSUME BackendInv, FreshInv, NEW w \in Worker, at[w] \in {"enter", "relock"}, AppendPage(w),
         UNCHANGED <<flushErr, previousErr, handled>>
  PROVE  Delivery!Next
<1>1. page[w] \in Page
  BY ThreadsApart DEF BackendInv, Typed, Placed
<1>2. page[w] \notin UnderWay \cup handled \cup owed \cup reported
  BY DEF FreshInv, Early, Seen, Done
<1>3. UnderWay' = UnderWay \cup {page[w]}
  BY AppendUnderWay
<1>4. accepted' = accepted \/ accepted' = accepted \cup {page[w]}
  BY DEF AppendPage, Goto, Return
<1>5. Delivery!MayAck({page[w]})
  BY <1>4 DEF Delivery!MayAck
<1>6. Delivery!Hold(page[w])
  BY <1>2, <1>3, <1>5 DEF Delivery!Hold, AppendPage, told
<1> QED
  BY <1>1, <1>6 DEF Delivery!Next

(* What an upload takes from the pages under way, and gives the server.    *)
LEMMA LeftInOneAttempt ==
  ASSUME BackendInv, FreshInv, NEW t \in Thread, Uploaded(t) \/ UploadFails(t), buf' = buf
  PROVE  /\ ToSet(batch[t]) \in SUBSET UnderWay
         /\ UnderWay' = UnderWay \ ToSet(batch[t])
         /\ \E D \in SUBSET ToSet(batch[t]) : handled' = handled \cup D
         /\ Uploaded(t) => handled' = handled \cup ToSet(batch[t])
<1>1. /\ UnderWay \subseteq UnderWay' \cup ToSet(batch[t])
      /\ UnderWay' \subseteq UnderWay /\ ToSet(batch[t]) \subseteq UnderWay
      /\ UnderWay' \cap ToSet(batch[t]) = {}
  BY EndedUnderWay DEF FreshInv
<1>2. UnderWay' = UnderWay \ ToSet(batch[t])
  BY <1>1
<1>3. \E D \in SUBSET ToSet(batch[t]) : handled' = handled \cup D
  BY DEF Uploaded, UploadFails
<1>4. Uploaded(t) => handled' = handled \cup ToSet(batch[t])
  BY DEF Uploaded
<1> QED
  BY <1>1, <1>2, <1>3, <1>4

LEMMA UploadDelivers ==
  ASSUME BackendInv, FreshInv, NEW t \in Thread, Uploaded(t), buf' = buf,
         accepted' = accepted \/ \E p \in ToSet(batch[t]) : accepted' = accepted \cup {p},
         \/ UNCHANGED <<owed, reported>> /\ ((flushErr \/ previousErr)' <=> flushErr \/ previousErr)
         \/ (flushErr \/ previousErr) /\ owed' = {} /\ reported' = reported \cup owed
  PROVE  Delivery!Next
<1> DEFINE S == ToSet(batch[t])
<1>1. S \in SUBSET UnderWay /\ UnderWay' = UnderWay \ S /\ handled' = handled \cup S
  BY LeftInOneAttempt
<1>2. Delivery!MayAck(S)
  BY DEF Delivery!MayAck
<1> HIDE DEF S
<1>3. Delivery!TellWith({}) \/ UNCHANGED <<owed, reported, flushErr \/ previousErr>>
  BY DEF Delivery!TellWith
<1>4. Delivery!Deliver(S)
  BY <1>1, <1>2, <1>3 DEF Delivery!Deliver
<1> QED
  BY <1>1, <1>4 DEF Delivery!Next

LEMMA UploadLoses ==
  ASSUME BackendInv, FreshInv, NEW t \in Thread, UploadFails(t), buf' = buf, accepted' = accepted,
         \/ (flushErr \/ previousErr)' /\ owed' = owed \cup ToSet(batch[t]) /\ reported' = reported
         \/ /\ reported' = reported \cup ToSet(batch[t]) /\ owed' = owed
            /\ (flushErr \/ previousErr)' <=> flushErr \/ previousErr
         \/ /\ flushErr \/ previousErr
            /\ owed' = {} /\ reported' = reported \cup owed \cup ToSet(batch[t])
  PROVE  Delivery!Next
<1> DEFINE S == ToSet(batch[t])
<1>1. /\ S \in SUBSET UnderWay /\ UnderWay' = UnderWay \ S
      /\ \E D \in SUBSET S : handled' = handled \cup D
  BY LeftInOneAttempt
<1>2. \/ (flushErr \/ previousErr)' = TRUE /\ owed' = owed \cup S /\ reported' = reported
      \/ reported' = reported \cup S /\ UNCHANGED <<owed, flushErr \/ previousErr>>
      \/ Delivery!TellWith(S)
  BY DEF Delivery!TellWith
<1> HIDE DEF S
<1>3. Delivery!Fail(S)
  BY <1>1, <1>2 DEF Delivery!Fail
<1> QED
  BY <1>1, <1>3 DEF Delivery!Next

LEMMA ProcessDelivers ==
  ASSUME BackendInv, FreshInv, NEW w \in Worker, ProcessPage(w)
  PROVE  [Delivery!Next]_(Delivery!vars)
<1> USE ThreadsApart
<1>1. CASE Enter(w)
  <2>1. CASE flushErr /\ Return(w, FALSE) /\ owed' = {} /\ reported' = reported \cup owed
                /\ UNCHANGED <<buffer, timers, batch>>
    <3>1. UnderWay' = UnderWay /\ accepted' = accepted
      BY <2>1, SameUnderWay DEF Return, buffer
    <3>2. Delivery!Tell
      BY <1>1, <2>1, <3>1 DEF Enter, Delivery!Tell, Delivery!TellWith
    <3> QED
      BY <3>2 DEF Delivery!Next
  <2>2. CASE Return(w, FALSE) /\ UNCHANGED <<buffer, timers, batch, told>>
    BY <1>1, <2>2, SameUnderWay, NothingDelivered DEF Enter, Return, buffer
  <2>3. CASE LeaveForChange(w)
    <3>1. batch[w] = <<>>
      BY <1>1 DEF Enter, BackendInv, Typed, Placed
    <3> QED
      BY <1>1, <2>3, <3>1, TakenUnderWay, NothingDelivered DEF Enter, LeaveForChange, Goto
  <2>4. CASE AppendPage(w)
    BY <1>1, <2>4, HeldOnce DEF Enter
  <2> QED
    BY <1>1, <2>1, <2>2, <2>3, <2>4 DEF Enter
<1>2. CASE Unreadable(w) \/ LockFlush(w)
  BY <1>2, SameUnderWay, NothingDelivered DEF Unreadable, LockFlush, Return, buffer, callers
<1>3. CASE Relock(w)
  BY <1>3, HeldOnce DEF Relock
<1>4. CASE WorkerUploaded(w)
  <2>1. accepted' = accepted \/ \E p \in ToSet(batch[w]) : accepted' = accepted \cup {p}
    BY <1>4 DEF WorkerUploaded, Goto, Return, BackendInv, Placed
  <2> QED
    BY <1>4, <2>1, UploadDelivers DEF WorkerUploaded, buffer, told
<1>5. CASE WorkerUploadFails(w)
  BY <1>5, UploadLoses DEF WorkerUploadFails, Return, buffer
<1> QED
  BY <1>1, <1>2, <1>3, <1>4, <1>5 DEF ProcessPage

LEMMA DeliveryStep == BackendInv /\ FreshInv /\ [Next]_vars => [Delivery!Next]_(Delivery!vars)
<1> SUFFICES ASSUME BackendInv, FreshInv, [Next]_vars PROVE [Delivery!Next]_(Delivery!vars)
  OBVIOUS
<1> USE ThreadsApart
<1>1. CASE \E w \in Worker : ProcessPage(w)
  BY <1>1, ProcessDelivers
<1>2. CASE Timer
  <2>1. ASSUME NEW g \in fired, IdleCallback(g) PROVE UNCHANGED Delivery!vars
    <3>1. batch[Idle] = <<>>
      BY <2>1 DEF IdleCallback, BackendInv, Placed
    <3>2. UnderWay' = UnderWay
      BY <2>1, <3>1, TakenUnderWay, SameUnderWay DEF IdleCallback, buffer
    <3> QED
      BY <2>1, <3>2, NothingDelivered DEF IdleCallback, callers
  <2>2. CASE IdleFires
    BY <2>2, SameUnderWay, NothingDelivered DEF IdleFires, buffer, callers
  <2>3. CASE IdleUploaded
    BY <2>3, UploadDelivers DEF IdleUploaded, buffer, callers, told
  <2>4. CASE IdleUploadFails
    BY <2>4, UploadLoses DEF IdleUploadFails, buffer, callers
  <2> QED
    BY <1>2, <2>1, <2>2, <2>3, <2>4 DEF Timer
<1>3. CASE Flush
  <2>1. batch[Main] = <<>> /\ ~previousErr
    BY <1>3 DEF Flush, BackendInv, Placed
  <2>2. CASE FlushReturns(flushErr, {}) /\ UNCHANGED <<buffer, batch, flushMu>>
    <3>1. UnderWay' = UnderWay /\ accepted' = accepted /\ handled' = handled
      BY <1>3, <2>2, SameUnderWay DEF Flush, buffer, callers
    <3>2. CASE flushErr
      <4>1. Delivery!Tell
        BY <2>2, <3>1, <3>2 DEF FlushReturns, Delivery!Tell, Delivery!TellWith
      <4> QED
        BY <4>1 DEF Delivery!Next
    <3>3. CASE ~flushErr
      <4>1. owed' = owed /\ reported' = reported /\ ~previousErr' /\ ~flushErr'
        BY <1>3, <2>2, <3>3 DEF Flush, FlushReturns
      <4> QED
        BY <2>1, <3>1, <3>3, <4>1, NothingDelivered DEF told
    <3> QED
      BY <3>2, <3>3
  <2>3. CASE TakeBuffer(Main) /\ previousErr' = flushErr /\ UNCHANGED <<told, flushed>>
    BY <1>3, <2>1, <2>3, TakenUnderWay, NothingDelivered DEF Flush, callers
  <2> QED
    BY <1>3, <2>2, <2>3 DEF Flush
<1>4. CASE FlushUploaded
  BY <1>4, UploadDelivers DEF FlushUploaded, FlushReturns, buffer, callers
<1>5. CASE FlushUploadFails
  BY <1>5, UploadLoses DEF FlushUploadFails, FlushReturns, buffer, callers
<1>6. CASE Close \/ (\E w \in Worker, p \in Page : Call(w, p)) \/ UNCHANGED vars
  BY <1>6, SameUnderWay, NothingDelivered DEF Close, Call, vars, buffer, callers
<1> QED
  BY <1>1, <1>2, <1>3, <1>4, <1>5, <1>6 DEF Next, FlushEnds

(* The backend keeps what an upload client owes its callers: a page leaves *)
(* in one attempt, whatever threads it passes, and a failed attempt is     *)
(* remembered until a call returns it.                                     *)
THEOREM DeliveryImplemented == Spec => BackendImplementsDelivery
<1>1. Init => Delivery!Init
  <2> SUFFICES ASSUME Init PROVE Delivery!Init
    OBVIOUS
  <2>1. UnderWay = {}
    BY EmptySet DEF Init, UnderWay
  <2> QED
    BY <2>1 DEF Init, Delivery!Init
<1>2. BackendInv /\ FreshInv /\ [Next]_vars => [Delivery!Next]_(Delivery!vars)
  BY DeliveryStep
<1>3. Spec => [](BackendInv /\ FreshInv)
  BY FreshInit, NextMoves, BackendStep, FreshStep, PTL DEF Spec
<1> QED
  BY <1>1, <1>2, <1>3, PTL DEF Spec, BackendImplementsDelivery, Delivery!Spec

-----------------------------------------------------------------------------
(* What the parts of the backend do to the pages of a scan                 *)

LEMMA ProcessMoves ==
  ASSUME BackendInv, NEW w \in Worker, ProcessPage(w)
  PROVE  /\ at[w] # "outside" /\ page[w] \in Page
         /\ UnderWay' \subseteq UnderWay \cup {page[w]}
         /\ \A v \in Worker : page'[v] = page[v] \/ page'[v] = None
         /\ \A v \in Worker : v # w => page'[v] = page[v] /\ at'[v] = at[v]
         /\ refused \subseteq refused' /\ handled \subseteq handled'
         /\ UNCHANGED <<flushErr, previousErr, flushed, closed>>
         /\ flushMu' \in {flushMu, None, w}
         /\ \/ page[w] \in refused'
            \/ /\ UnderWay \cup handled \subseteq UnderWay' \cup handled'
               /\ page'[w] = page[w] \/ page[w] \in UnderWay' \cup handled'
<1> USE ThreadsApart
<1>1. at[w] # "outside" /\ page[w] \in Page
  BY DEF ProcessPage, Enter, Unreadable, Relock, LockFlush, WorkerUploaded, WorkerUploadFails,
         UploadFails, BackendInv, Typed, Placed
<1>2. UNCHANGED <<flushErr, previousErr, flushed, closed>> /\ flushMu' \in {flushMu, None, w}
  BY DEF ProcessPage, Enter, Unreadable, Relock, LockFlush, WorkerUploaded, WorkerUploadFails,
         Uploaded, UploadFails
<1>3. /\ \A v \in Worker : page'[v] = page[v] \/ page'[v] = None
      /\ \A v \in Worker : v # w => page'[v] = page[v] /\ at'[v] = at[v]
      /\ refused \subseteq refused'
  BY DEF ProcessPage, Enter, AppendPage, LeaveForChange, Unreadable, Relock, LockFlush,
         WorkerUploaded, WorkerUploadFails, Goto, Return, callers, BackendInv, Typed
<1>4. ASSUME Return(w, FALSE) PROVE page[w] \in refused'
  BY <1>4 DEF Return
<1>5. ASSUME at[w] \in {"enter", "relock"}, AppendPage(w), handled' = handled
      PROVE  /\ UnderWay' = UnderWay \cup {page[w]} /\ handled \subseteq handled'
             /\ UnderWay \cup handled \subseteq UnderWay' \cup handled'
             /\ page[w] \in UnderWay' \cup handled'
  BY <1>5, AppendUnderWay
<1>6. CASE Enter(w)
  <2>1. CASE Return(w, FALSE) /\ UNCHANGED <<buffer, batch>>
    BY <1>1, <1>2, <1>3, <1>4, <1>6, <2>1, SameUnderWay DEF Enter, buffer
  <2>2. CASE LeaveForChange(w)
    <3>1. batch[w] = <<>>
      BY <1>6 DEF Enter, BackendInv, Placed
    <3>2. UnderWay' = UnderWay /\ page' = page
      BY <2>2, <3>1, TakenUnderWay DEF LeaveForChange, Goto
    <3> QED
      BY <1>1, <1>2, <1>3, <1>6, <3>2 DEF Enter
  <2>3. CASE AppendPage(w)
    BY <1>1, <1>2, <1>3, <1>5, <1>6, <2>3 DEF Enter
  <2> QED
    BY <1>6, <2>1, <2>2, <2>3 DEF Enter
<1>7. CASE Unreadable(w)
  BY <1>1, <1>2, <1>3, <1>4, <1>7, SameUnderWay DEF Unreadable, buffer
<1>8. CASE Relock(w)
  BY <1>1, <1>2, <1>3, <1>5, <1>8 DEF Relock
<1>9. CASE LockFlush(w)
  BY <1>1, <1>2, <1>3, <1>9, SameUnderWay DEF LockFlush, buffer, callers
<1>10. CASE WorkerUploaded(w)
  <2>1. /\ UnderWay \subseteq UnderWay' \cup ToSet(batch[w]) /\ UnderWay' \subseteq UnderWay
        /\ handled' = handled \cup ToSet(batch[w])
    BY <1>10, EndedUnderWay, EndedUpload DEF WorkerUploaded, buffer
  <2>2. page'[w] = page[w] \/ page[w] \in handled'
    BY <1>10, <2>1 DEF WorkerUploaded, Goto, BackendInv, Placed
  <2> QED
    BY <1>1, <1>2, <1>3, <2>1, <2>2
<1>11. CASE WorkerUploadFails(w)
  <2>1. UnderWay' \subseteq UnderWay /\ handled \subseteq handled'
    BY <1>11, EndedUnderWay, EndedUpload DEF WorkerUploadFails, buffer
  <2> QED
    BY <1>1, <1>2, <1>3, <1>4, <1>11, <2>1 DEF WorkerUploadFails
<1> QED
  BY <1>6, <1>7, <1>8, <1>9, <1>10, <1>11 DEF ProcessPage

LEMMA TimerMoves ==
  ASSUME BackendInv, Timer
  PROVE  /\ UNCHANGED <<callers, previousErr, flushed, closed>>
         /\ UnderWay' \subseteq UnderWay
         /\ handled \subseteq handled' /\ (flushErr => flushErr')
         /\ flushMu' \in {flushMu, None, Idle}
         /\ flushErr' \/ UnderWay \cup handled \subseteq UnderWay' \cup handled'
         /\ timer = 0 /\ generation \notin fired /\ flushMu # Idle =>
              /\ UNCHANGED <<buf, timer, generation, flushMu, flushErr, batch, handled>>
              /\ fired' \subseteq fired
<1> USE ThreadsApart
<1>1. CASE IdleFires
  BY <1>1, SameUnderWay DEF IdleFires, buffer
<1>2. ASSUME NEW g \in fired, IdleCallback(g)
      PROVE  /\ UNCHANGED <<callers, previousErr, flushed, closed, handled, flushErr, timer, generation>>
             /\ UnderWay' = UnderWay /\ flushMu' \in {flushMu, Idle} /\ fired' \subseteq fired
             /\ g # generation => UNCHANGED <<buf, flushMu, batch>>
  <2>1. batch[Idle] = <<>>
    BY <1>2 DEF IdleCallback, BackendInv, Placed
  <2>2. UnderWay' = UnderWay
    BY <1>2, <2>1, TakenUnderWay, SameUnderWay DEF IdleCallback, buffer
  <2> QED
    BY <1>2, <2>2 DEF IdleCallback, Outdated, buffer
<1>3. CASE IdleUploaded \/ IdleUploadFails
  <2>1. /\ UnderWay \subseteq UnderWay' \cup ToSet(batch[Idle]) /\ UnderWay' \subseteq UnderWay
        /\ handled \subseteq handled' /\ flushMu = Idle /\ flushMu' = None
    BY <1>3, EndedUnderWay, EndedUpload DEF IdleUploaded, IdleUploadFails, buffer
  <2>2. flushErr' \/ handled' = handled \cup ToSet(batch[Idle])
    BY <1>3 DEF IdleUploaded, IdleUploadFails, Uploaded
  <2>3. UNCHANGED <<callers, previousErr, flushed, closed>> /\ (flushErr => flushErr')
    BY <1>3 DEF IdleUploaded, IdleUploadFails
  <2> QED
    BY <2>1, <2>2, <2>3
<1> QED
  BY <1>1, <1>2, <1>3 DEF Timer

LEMMA FlushMoves ==
  ASSUME BackendInv, Flush
  PROVE  /\ UNCHANGED <<callers, handled, closed>> /\ UnderWay' = UnderWay
         /\ buf' = <<>> /\ timer' = 0 /\ generation' \notin fired' /\ ~flushErr'
         /\ flushMu = None /\ flushMu' \in {None, Main} /\ ~previousErr
         /\ flushErr => previousErr' \/ (flushMu' # Main /\ flushed' = "error")
<1> USE ThreadsApart
<1>1. batch[Main] = <<>> /\ flushMu = None /\ ~previousErr
  BY DEF Flush, BackendInv, Placed
<1>2. UnderWay' = UnderWay
  BY <1>1, TakenUnderWay, SameUnderWay DEF Flush, buffer
<1>3. generation' \notin fired' /\ timer' = 0
  BY DEF Flush, StopIdleTimer, BackendInv, Typed
<1> QED
  BY <1>1, <1>2, <1>3 DEF Flush, FlushReturns, TakeBuffer, EmptyBuffer, buffer

LEMMA FlushEndMoves ==
  ASSUME BackendInv, FlushEnds
  PROVE  /\ UNCHANGED <<callers, buf, timers, flushErr, closed>>
         /\ UnderWay' \subseteq UnderWay /\ handled \subseteq handled'
         /\ flushMu = Main /\ flushMu' = None
         /\ flushed' = "error" \/ (~previousErr /\ UnderWay \cup handled \subseteq UnderWay' \cup handled')
<1> USE ThreadsApart
<1>1. /\ UnderWay \subseteq UnderWay' \cup ToSet(batch[Main]) /\ UnderWay' \subseteq UnderWay
      /\ handled \subseteq handled' /\ flushMu = Main /\ flushMu' = None
      /\ Uploaded(Main) => handled' = handled \cup ToSet(batch[Main])
  BY EndedUnderWay, EndedUpload DEF FlushEnds, FlushUploaded, FlushUploadFails, buffer
<1>2. ToSet(batch[Main]) # {}
  BY <1>1, SetTyped DEF BackendInv, Typed, Placed
<1> QED
  BY <1>1, <1>2 DEF FlushEnds, FlushUploaded, FlushUploadFails, FlushReturns, buffer

-----------------------------------------------------------------------------
(* The scans that follow one another on a backend                          *)

ScanTyped ==
  /\ producer \in {"between", "scan", "send", "delay", "drain", "flush", "flushing"}
  /\ session \in 0..Len(Sessions)
  /\ left \in Seq(Page) /\ queue \in Seq(Page)
  /\ cancelled \in BOOLEAN /\ scanErr \in BOOLEAN
  /\ result \in [1..Len(Sessions) -> {"none", "ok", "error"}]
  /\ producer = "send" => left # <<>>

Delivered == IF session = 0 THEN {} ELSE ToSet(Sessions[session])

(* The backend holds pages of the current scan only.                       *)
Ours ==
  /\ ToSet(left) \cup ToSet(queue) \cup UnderWay \subseteq Delivered
  /\ \A w \in Worker : page[w] \in Delivered \cup {None}

(* Once the pool is drained and the backend flushed, nothing moves: there  *)
(* is no page, no running timer, and every callback is outdated.           *)
Quiet ==
  /\ session = 0 => producer = "between"
  /\ producer = "between" => left = <<>> /\ flushMu = None
  /\ producer # "flushing" => flushMu # Main
  /\ producer \in {"between", "flush", "flushing"} =>
       queue = <<>> /\ \A w \in Worker : at[w] = "outside"
  /\ producer \in {"between", "flushing"} =>
       /\ buf = <<>> /\ timer = 0 /\ generation \notin fired
       /\ flushMu # Idle /\ ~flushErr
  /\ producer \in {"scan", "send", "delay"} => ~scanErr
  /\ producer \in {"drain", "flush", "flushing"} /\ ~scanErr => left = <<>>

(* What keeps the current call from returning nil.                         *)
Fault ==
  \/ refused \cap Delivered # {}
  \/ flushErr \/ previousErr \/ scanErr
  \/ producer = "flushing" /\ flushMu # Main /\ flushed = "error"

Held(p) ==
  \/ p \in ToSet(left) \cup ToSet(queue) \cup UnderWay \cup handled
  \/ \E w \in Worker : page[w] = p

Accounted == producer # "between" /\ ~Fault => \A p \in Delivered : Held(p)

ScanInv == BackendInv /\ ScanTyped /\ Ours /\ Quiet /\ Accounted /\ NilMeansHandled

LEMMA NothingUnderWay ==
  ASSUME BackendInv, buf = <<>>, flushMu \notin {Main, Idle}, \A w \in Worker : at[w] = "outside"
  PROVE  /\ UnderWay = {} /\ \A w \in Worker : page[w] = None
         /\ \A t \in Thread : batch[t] = <<>>
<1>1. \A t \in Thread : batch[t] = <<>>
  BY ThreadsApart DEF BackendInv, Typed, Placed, Thread
<1>2. UnderWay = {}
  BY <1>1, EmptySet, InUnderWay
<1> QED
  BY <1>1, <1>2 DEF BackendInv, Placed

LEMMA DeliveredTyped ==
  \A n \in 1..Len(Sessions) :
    /\ Sessions[n] \in Seq(Page) /\ ToSet(Sessions[n]) \subseteq Page
<1> TAKE n \in 1..Len(Sessions)
<1>1. Sessions[n] \in Seq(Page)
  BY SessionsAssumption
<1> QED
  BY <1>1, SetTyped

LEMMA ScanMoves ==
  ASSUME ScanTyped, [ScanNext]_allVars
  PROVE  Moves
<1>1. ASSUME NEW w \in Worker, Receive(w) PROVE Moves
  <2>1. Head(queue) \in Page
    BY <1>1, HeadAndTail DEF Receive, ScanTyped
  <2> QED
    BY <1>1, <2>1 DEF Receive, Moves, Refuse
<1> QED
  BY <1>1 DEF ScanNext, StartScan, Scanning, ScanPage, Send, Delay, Wait, FlushBackend, EndScan,
              CloseBackend, Backend, Cancel, Finished, Moves, allVars

(* The steps of the producer that leave the backend alone.                 *)
LEMMA ProducerStep ==
  ASSUME ScanInv, StartScan \/ ScanPage \/ Send \/ Delay \/ Wait \/ Cancel
  PROVE  ScanInv'
<1> USE DEF ScanInv
<1>1. UNCHANGED vars /\ UnderWay' = UnderWay
  BY SameUnderWay DEF StartScan, ScanPage, Send, Delay, Wait, Cancel, vars, buffer
<1>2. BackendInv'
  BY <1>1, BackendStep DEF Moves
<1>3. NilMeansHandled'
  BY <1>1 DEF StartScan, ScanPage, Send, Delay, Wait, Cancel, vars, NilMeansHandled
<1>4. CASE StartScan
  <2>1. /\ session' = session + 1 /\ session' \in 1..Len(Sessions) /\ left' = Sessions[session']
        /\ session' \in 0..Len(Sessions)
        /\ producer = "between" /\ producer' = "scan" /\ ~scanErr'
    BY <1>4 DEF StartScan, ScanTyped
  <2>2. Delivered' = ToSet(left') /\ left' \in Seq(Page)
    BY <2>1, DeliveredTyped DEF Delivered
  <2>3. ScanTyped'
    BY <1>4, <2>1, <2>2 DEF StartScan, ScanTyped
  <2>4. /\ buf = <<>> /\ queue = <<>> /\ flushMu = None /\ \A w \in Worker : at[w] = "outside"
        /\ flushMu \notin {Main, Idle}
    BY <2>1, ThreadsApart DEF Quiet
  <2>5. UnderWay = {} /\ \A w \in Worker : page[w] = None
    BY <2>4, NothingUnderWay
  <2>6. ToSet(queue') = {}
    BY <1>4, <2>4, EmptySet DEF StartScan
  <2>7. Ours'
    BY <1>1, <2>2, <2>5, <2>6 DEF Ours, vars, callers
  <2>8. Quiet'
    BY <1>1, <2>1, <2>4 DEF Quiet, vars
  <2>9. Accounted'
    BY <2>2 DEF Accounted, Held
  <2> QED
    BY <1>2, <1>3, <2>3, <2>7, <2>8, <2>9
<1>5. CASE Send /\ producer' = "delay"
  <2>1. /\ producer = "send" /\ queue' = Append(queue, Head(left)) /\ left' = Tail(left)
        /\ UNCHANGED <<session, cancelled, scanErr, result>>
    BY <1>5 DEF Send, StopScan
  <2>2. /\ left \in Seq(Page) /\ left # <<>> /\ Head(left) \in Page /\ left' \in Seq(Page)
        /\ ToSet(left) = {Head(left)} \cup ToSet(left')
    BY <2>1, HeadAndTail DEF ScanTyped
  <2>3. queue' \in Seq(Page) /\ ToSet(queue') = ToSet(queue) \cup {Head(left)}
    BY <2>1, <2>2, AppendedSet DEF ScanTyped
  <2>4. ScanTyped'
    BY <1>5, <2>1, <2>2, <2>3 DEF ScanTyped
  <2>5. Delivered' = Delivered
    BY <2>1 DEF Delivered
  <2>6. Ours'
    BY <1>1, <2>2, <2>3, <2>5 DEF Ours, vars, callers
  <2>7. Quiet'
    BY <1>1, <1>5, <2>1 DEF Quiet, vars
  <2>8. Accounted'
    <3>1. UNCHANGED <<refused, flushErr, previousErr, handled, page>>
      BY <1>1 DEF vars, callers
    <3> QED
      BY <1>1, <1>5, <2>1, <2>2, <2>3, <2>5, <3>1 DEF Accounted, Held, Fault
  <2> QED
    BY <1>2, <1>3, <2>4, <2>6, <2>7, <2>8
<1>6. CASE /\ UNCHANGED <<session, left, queue, result>>
           /\ producer \in {"scan", "send", "delay"}
           /\ \/ producer' \in {"scan", "send", "delay"} /\ scanErr' = scanErr
              \/ producer' = "drain" /\ scanErr' \in BOOLEAN /\ (scanErr' \/ left = <<>>)
           /\ cancelled' = cancelled /\ (producer' = "send" => left # <<>>)
  <2>1. Delivered' = Delivered
    BY <1>6 DEF Delivered
  <2>2. ScanTyped'
    BY <1>6 DEF ScanTyped
  <2>3. Ours'
    BY <1>1, <1>6, <2>1 DEF Ours, vars, callers
  <2>4. Quiet'
    BY <1>1, <1>6 DEF Quiet, vars
  <2>5. Accounted'
    BY <1>1, <1>6, <2>1 DEF Accounted, Held, Fault, Quiet, vars, callers
  <2> QED
    BY <1>2, <1>3, <2>2, <2>3, <2>4, <2>5
<1>7. CASE Wait
  <2>1. /\ producer = "drain" /\ producer' = "flush" /\ queue = <<>> /\ \A w \in Worker : at[w] = "outside"
        /\ UNCHANGED <<session, left, queue, cancelled, scanErr, result>>
    BY <1>7 DEF Wait, WorkersDone
  <2>2. Delivered' = Delivered
    BY <2>1 DEF Delivered
  <2>3. ScanTyped' /\ Ours'
    BY <1>1, <2>1, <2>2 DEF ScanTyped, Ours, vars, callers
  <2>4. Quiet'
    BY <1>1, <2>1 DEF Quiet, vars, callers
  <2>5. Accounted'
    BY <1>1, <2>1, <2>2 DEF Accounted, Held, Fault, vars, callers
  <2> QED
    BY <1>2, <1>3, <2>3, <2>4, <2>5
<1>8. CASE Cancel
  <2>1. UNCHANGED <<producer, session, left, queue, scanErr, result>> /\ cancelled' \in BOOLEAN
    BY <1>8 DEF Cancel
  <2>2. Delivered' = Delivered
    BY <2>1 DEF Delivered
  <2>3. ScanTyped' /\ Ours'
    BY <1>1, <2>1, <2>2 DEF ScanTyped, Ours, vars, callers
  <2>4. Quiet'
    BY <1>1, <2>1 DEF Quiet, vars, callers, buffer, timers
  <2>5. Accounted'
    BY <1>1, <2>1, <2>2 DEF Accounted, Held, Fault, vars, callers
  <2> QED
    BY <1>2, <1>3, <2>3, <2>4, <2>5
<1>9. CASE ScanPage
  BY <1>6, <1>9 DEF ScanPage, StopScan, ScanTyped
<1>10. CASE Send /\ producer' # "delay"
  BY <1>6, <1>10 DEF Send, StopScan
<1>11. CASE Delay
  BY <1>6, <1>11 DEF Delay, StopScan
<1> QED
  BY <1>4, <1>5, <1>7, <1>8, <1>9, <1>10, <1>11

(* The end of a scan: the flush, its answer, and what ScanPages returns.   *)
LEMMA FlushBackendStep ==
  ASSUME ScanInv, FlushBackend
  PROVE  ScanInv'
<1> USE DEF ScanInv
<1>1. /\ producer = "flush" /\ producer' = "flushing"
      /\ UNCHANGED <<session, left, queue, cancelled, scanErr, result>>
  BY DEF FlushBackend
<1>2. /\ UNCHANGED <<callers, handled, closed>> /\ UnderWay' = UnderWay
      /\ buf' = <<>> /\ timer' = 0 /\ generation' \notin fired' /\ ~flushErr'
      /\ flushMu = None /\ flushMu' \in {None, Main} /\ ~previousErr
      /\ flushErr => previousErr' \/ (flushMu' # Main /\ flushed' = "error")
  BY FlushMoves DEF FlushBackend
<1>3. BackendInv'
  BY BackendStep DEF FlushBackend, Moves
<1>4. Delivered' = Delivered /\ session # 0
  BY <1>1 DEF Delivered, Quiet
<1>5. ScanTyped' /\ Ours' /\ NilMeansHandled'
  BY <1>1, <1>2, <1>4 DEF ScanTyped, Ours, NilMeansHandled, callers
<1>6. Quiet'
  BY <1>1, <1>2, <1>4, ThreadsApart DEF Quiet, callers
<1>7. Fault => Fault'
  BY <1>1, <1>2, <1>4 DEF Fault, callers
<1>8. Accounted'
  BY <1>1, <1>2, <1>4, <1>7 DEF Accounted, Held, callers
<1> QED
  BY <1>3, <1>5, <1>6, <1>8

LEMMA CloseBackendStep ==
  ASSUME ScanInv, CloseBackend
  PROVE  ScanInv'
<1> USE DEF ScanInv
<1>1. /\ producer = "between" /\ UNCHANGED <<scanning, callers, handled, buf, flushErr, flushMu>>
      /\ timer' = 0 /\ generation' = generation + 1 /\ fired' = fired /\ UnderWay' = UnderWay
  BY SameUnderWay DEF CloseBackend, Close, StopIdleTimer, buffer
<1>2. generation' \notin fired'
  BY <1>1 DEF BackendInv, Typed
<1>3. BackendInv'
  BY BackendStep DEF CloseBackend, Moves
<1>4. ScanTyped' /\ Ours' /\ NilMeansHandled'
  BY <1>1 DEF ScanTyped, Ours, Delivered, NilMeansHandled, scanning, callers
<1>5. Quiet' /\ Accounted'
  BY <1>1, <1>2 DEF Quiet, Accounted, scanning, callers
<1> QED
  BY <1>3, <1>4, <1>5

LEMMA EndScanStep ==
  ASSUME ScanInv, EndScan
  PROVE  ScanInv'
<1> USE DEF ScanInv
<1>1. /\ producer = "flushing" /\ producer' = "between" /\ flushMu # Main /\ left' = <<>>
      /\ UNCHANGED <<vars, session, queue, cancelled, scanErr>>
      /\ session \in 1..Len(Sessions)
  BY DEF EndScan, ScanTyped, Quiet
<1>2. UnderWay' = UnderWay /\ Delivered' = Delivered /\ BackendInv'
  BY <1>1, SameUnderWay, BackendStep DEF vars, buffer, Delivered, Moves
<1>3. /\ flushMu \in Thread \cup {None} /\ flushMu \notin {Main, Idle}
      /\ \A w \in Worker : at[w] = "outside"
  BY <1>1 DEF Quiet, BackendInv, Typed
<1>4. flushMu = None /\ UnderWay = {} /\ \A w \in Worker : page[w] = None
  <2>1. UnderWay = {} /\ \A w \in Worker : page[w] = None
    BY <1>1, <1>3, NothingUnderWay DEF Quiet
  <2>2. \A w \in Worker : flushMu # w
    BY <1>3 DEF BackendInv, Placed
  <2> QED
    BY <1>3, <2>1, <2>2 DEF Thread
<1>5. ScanTyped'
  BY <1>1 DEF EndScan, ScanTyped
<1>6. Ours'
  BY <1>1, <1>2, EmptySet DEF Ours, vars, callers
<1>7. Quiet' /\ Accounted'
  BY <1>1, <1>4 DEF Quiet, Accounted, vars, buffer, callers, timers
<1>8. NilMeansHandled'
  <2>1. ASSUME ~scanErr, flushed = "ok", refused \cap ToSet(Sessions[session]) = {}
        PROVE  ToSet(Sessions[session]) \subseteq handled
    <3>1. Delivered = ToSet(Sessions[session]) /\ None \notin Delivered
      BY <1>1, DeliveredTyped, RemoteAssumption DEF Delivered
    <3>2. ~flushErr /\ ~previousErr
      BY <1>1 DEF Quiet, BackendInv, Placed
    <3>3. ~Fault
      BY <1>1, <2>1, <3>1, <3>2 DEF Fault
    <3>4. ToSet(left) = {} /\ ToSet(queue) = {}
      BY <1>1, <2>1, EmptySet DEF Quiet
    <3> QED
      BY <1>1, <1>4, <3>1, <3>3, <3>4 DEF Accounted, Held
  <2>2. ASSUME NEW n \in 1..Len(Sessions), result'[n] = "ok"
        PROVE  ToSet(Sessions[n]) \subseteq handled
    <3>1. CASE n = session
      <4>1. ~scanErr /\ flushed = "ok" /\ refused \cap ToSet(Sessions[session]) = {}
        BY <1>1, <2>2, <3>1 DEF EndScan, ScanTyped
      <4> QED
        BY <2>1, <3>1, <4>1
    <3>2. CASE n # session
      BY <1>1, <2>2, <3>2 DEF EndScan, ScanTyped, NilMeansHandled
    <3> QED
      BY <3>1, <3>2
  <2> QED
    BY <1>1, <2>2 DEF NilMeansHandled, vars
<1> QED
  BY <1>2, <1>5, <1>6, <1>7, <1>8

(* A worker takes a page from the channel.                                 *)
LEMMA ReceiveStep ==
  ASSUME ScanInv, NEW w \in Worker, Receive(w)
  PROVE  ScanInv'
<1> USE DEF ScanInv
<1>1. /\ queue # <<>> /\ queue' = Tail(queue) /\ at[w] = "outside"
      /\ UNCHANGED <<producer, session, left, cancelled, scanErr, result>>
  BY DEF Receive
<1>2. /\ Head(queue) \in Page /\ queue' \in Seq(Page)
      /\ ToSet(queue) = {Head(queue)} \cup ToSet(queue')
  BY <1>1, HeadAndTail DEF ScanTyped
<1>3. /\ UNCHANGED <<buffer, flushErr, timers, flushMu, batch, previousErr, handled, flushed>>
      /\ refused \subseteq refused' /\ UnderWay' = UnderWay
      /\ \/ refused' = refused \cup {Head(queue)} /\ page' = page /\ at' = at
         \/ page'[w] = Head(queue) /\ \A v \in Worker : v # w => page'[v] = page[v]
  BY SameUnderWay DEF Receive, Call, buffer, BackendInv, Typed
<1>4. BackendInv'
  BY ScanMoves, BackendStep DEF ScanNext
<1>5. Delivered' = Delivered /\ Head(queue) \in Delivered /\ page[w] = None
  BY <1>1, <1>2 DEF Delivered, Ours, BackendInv, Placed
<1>6. producer \notin {"between", "flush", "flushing"}
  BY <1>1 DEF Quiet
<1>7. ScanTyped' /\ NilMeansHandled'
  BY <1>1, <1>2, <1>3 DEF ScanTyped, NilMeansHandled
<1>8. Ours'
  BY <1>1, <1>2, <1>3, <1>5 DEF Ours
<1>9. Quiet'
  BY <1>1, <1>3, <1>6 DEF Quiet
<1>10. Accounted'
  <2> SUFFICES ASSUME ~Fault', NEW p \in Delivered PROVE Held(p)'
    BY <1>5 DEF Accounted
  <2>1. ~Fault /\ Head(queue) \notin refused'
    BY <1>1, <1>3, <1>5 DEF Fault
  <2>2. Held(p)
    BY <1>6, <2>1 DEF Accounted
  <2>3. page'[w] = Head(queue) /\ \A v \in Worker : v # w => page'[v] = page[v]
    BY <1>3, <2>1
  <2>4. p # None
    BY RemoteAssumption, <1>1, DeliveredTyped DEF Delivered, ScanTyped
  <2> QED
    BY <1>1, <1>2, <1>3, <1>5, <2>2, <2>3, <2>4 DEF Held
<1> QED
  BY <1>4, <1>7, <1>8, <1>9, <1>10

(* The backend moves by itself.                                            *)
LEMMA BackendMovesStep ==
  ASSUME ScanInv, Backend
  PROVE  ScanInv'
<1> USE ThreadsApart DEF ScanInv
<1>1. UNCHANGED <<producer, session, left, queue, cancelled, scanErr, result>>
  BY DEF Backend, scanning
<1>2. BackendInv' /\ Delivered' = Delivered /\ ScanTyped'
  BY <1>1, BackendStep DEF Backend, Moves, Delivered, ScanTyped
<1>3. handled \subseteq handled' => NilMeansHandled'
  BY <1>1 DEF NilMeansHandled
<1>4. ASSUME NEW w \in Worker, ProcessPage(w) PROVE ScanInv'
  <2>1. /\ at[w] # "outside" /\ page[w] \in Page
        /\ UnderWay' \subseteq UnderWay \cup {page[w]}
        /\ \A v \in Worker : page'[v] = page[v] \/ page'[v] = None
        /\ \A v \in Worker : v # w => page'[v] = page[v] /\ at'[v] = at[v]
        /\ refused \subseteq refused' /\ handled \subseteq handled'
        /\ UNCHANGED <<flushErr, previousErr, flushed, closed>>
        /\ flushMu' \in {flushMu, None, w}
        /\ \/ page[w] \in refused'
           \/ /\ UnderWay \cup handled \subseteq UnderWay' \cup handled'
              /\ page'[w] = page[w] \/ page[w] \in UnderWay' \cup handled'
    BY <1>4, ProcessMoves
  <2>2. producer \notin {"between", "flush", "flushing"}
    BY <2>1 DEF Quiet
  <2>3. page[w] \in Delivered /\ Ours'
    BY <1>1, <1>2, <2>1, RemoteAssumption DEF Ours
  <2>4. Quiet'
    BY <1>1, <2>1, <2>2 DEF Quiet
  <2>5. Accounted'
    <3> SUFFICES ASSUME ~Fault', NEW p \in Delivered PROVE Held(p)'
      BY <1>2 DEF Accounted
    <3>1. ~Fault /\ page[w] \notin refused'
      BY <1>1, <1>2, <2>1, <2>2, <2>3 DEF Fault
    <3>2. Held(p)
      BY <2>2, <3>1 DEF Accounted
    <3> QED
      BY <1>1, <2>1, <3>1, <3>2 DEF Held
  <2> QED
    BY <1>2, <1>3, <2>1, <2>3, <2>4, <2>5
<1>5. CASE Timer
  <2>1. /\ UNCHANGED <<callers, previousErr, flushed, closed>>
        /\ UnderWay' \subseteq UnderWay
        /\ handled \subseteq handled' /\ (flushErr => flushErr')
        /\ flushMu' \in {flushMu, None, Idle}
        /\ flushErr' \/ UnderWay \cup handled \subseteq UnderWay' \cup handled'
        /\ timer = 0 /\ generation \notin fired /\ flushMu # Idle =>
             /\ UNCHANGED <<buf, timer, generation, flushMu, flushErr, batch, handled>>
             /\ fired' \subseteq fired
    BY <1>5, TimerMoves
  <2>2. Ours'
    BY <1>1, <1>2, <2>1 DEF Ours, callers
  <2>3. Quiet'
    BY <1>1, <2>1 DEF Quiet, callers
  <2>4. flushMu = Main <=> flushMu' = Main
    <3>1. CASE producer = "flushing"
      BY <2>1, <3>1 DEF Quiet
    <3>2. CASE producer # "flushing"
      BY <1>1, <2>1, <3>2 DEF Quiet
    <3> QED
      BY <3>1, <3>2
  <2>5. Accounted'
    <3> SUFFICES ASSUME producer' # "between", ~Fault', NEW p \in Delivered PROVE Held(p)'
      BY <1>2 DEF Accounted
    <3>1. ~Fault /\ ~flushErr'
      BY <1>1, <1>2, <2>1, <2>4 DEF Fault, callers
    <3>2. Held(p)
      BY <1>1, <3>1 DEF Accounted
    <3> QED
      BY <1>1, <2>1, <3>1, <3>2 DEF Held, callers
  <2> QED
    BY <1>2, <1>3, <2>1, <2>2, <2>3, <2>5
<1>6. CASE FlushEnds
  <2>1. /\ UNCHANGED <<callers, buf, timers, flushErr, closed>>
        /\ UnderWay' \subseteq UnderWay /\ handled \subseteq handled'
        /\ flushMu = Main /\ flushMu' = None
        /\ flushed' = "error" \/ (~previousErr /\ UnderWay \cup handled \subseteq UnderWay' \cup handled')
    BY <1>6, FlushEndMoves
  <2>2. producer = "flushing"
    BY <2>1 DEF Quiet
  <2>3. Ours'
    BY <1>1, <1>2, <2>1 DEF Ours, callers
  <2>4. Quiet'
    BY <1>1, <2>1, <2>2 DEF Quiet, callers, timers
  <2>5. Accounted'
    <3> SUFFICES ASSUME ~Fault', NEW p \in Delivered PROVE Held(p)'
      BY <1>2 DEF Accounted
    <3>1. ~Fault /\ flushed' # "error"
      BY <1>1, <1>2, <2>1, <2>2 DEF Fault, callers
    <3>2. Held(p)
      BY <2>2, <3>1 DEF Accounted
    <3> QED
      BY <1>1, <2>1, <3>1, <3>2 DEF Held, callers
  <2> QED
    BY <1>2, <1>3, <2>1, <2>3, <2>4, <2>5
<1> QED
  BY <1>4, <1>5, <1>6 DEF Backend

LEMMA ScanInvInit == ScanInit => ScanInv
<1> SUFFICES ASSUME ScanInit PROVE ScanInv
  OBVIOUS
<1>1. /\ BackendInv /\ UnderWay = {} /\ ToSet(left) = {} /\ ToSet(queue) = {}
  BY BackendInit, EmptySet DEF ScanInit, Init, UnderWay
<1>2. Len(Sessions) \in Nat
  BY SessionsAssumption
<1>3. ScanTyped
  <2>1. left \in Seq(Page) /\ queue \in Seq(Page)
    BY DEF ScanInit
  <2>2. result \in [1..Len(Sessions) -> {"none", "ok", "error"}]
    BY DEF ScanInit
  <2> QED
    <3>1. session \in 0..Len(Sessions) /\ producer = "between"
      BY <1>2 DEF ScanInit
    <3>2. cancelled \in BOOLEAN /\ scanErr \in BOOLEAN
      BY DEF ScanInit
    <3> QED
      BY <2>1, <2>2, <3>1, <3>2 DEF ScanTyped
<1>4. Ours /\ Accounted
  BY <1>1 DEF ScanInit, Init, Ours, Accounted
<1>5. Quiet
  BY ThreadsApart DEF ScanInit, Init, Quiet
<1>6. NilMeansHandled
  BY DEF ScanInit, NilMeansHandled
<1> QED
  BY <1>1, <1>3, <1>4, <1>5, <1>6 DEF ScanInv

LEMMA ScanStep == ScanInv /\ [ScanNext]_allVars => ScanInv'
<1> SUFFICES ASSUME ScanInv, [ScanNext]_allVars PROVE ScanInv'
  OBVIOUS
<1>1. ASSUME UNCHANGED allVars PROVE ScanInv'
  <2>1. BackendInv' /\ UnderWay' = UnderWay /\ UNCHANGED <<vars, scanning>>
    BY <1>1, BackendStep, SameUnderWay DEF allVars, vars, buffer, Moves, ScanInv
  <2>2. ScanTyped' /\ Ours' /\ NilMeansHandled'
    BY <2>1 DEF ScanInv, scanning, vars, callers, ScanTyped, Ours, Delivered, NilMeansHandled
  <2>3. Quiet' /\ Accounted'
    BY <2>1 DEF ScanInv, scanning, vars, callers, buffer, timers, Quiet, Accounted, Fault, Held, Delivered
  <2> QED
    BY <2>1, <2>2, <2>3 DEF ScanInv
<1> QED
  BY <1>1, ProducerStep, FlushBackendStep, CloseBackendStep, EndScanStep, ReceiveStep, BackendMovesStep
     DEF ScanNext, Scanning, Finished

(* When ScanPages returns nil every page the scanner delivered is handled  *)
(* on the server, for any scans, batches, numbers of workers and orders.   *)
THEOREM NilIsHandled == ScanSpec => []NilMeansHandled
<1>1. ScanInv => NilMeansHandled
  BY DEF ScanInv
<1> QED
  BY <1>1, ScanInvInit, ScanStep, PTL DEF ScanSpec

(* A closed backend of ScanPages has nothing in its buffer, and nobody is  *)
(* past the test of closed: Close comes when the pool is drained and the   *)
(* buffer flushed, and whoever comes later is turned away.                 *)
ClosedEmpty ==
  closed => buf = <<>> /\ \A w \in Worker : at[w] \in {"outside", "enter"}

LEMMA ClosedStep == ScanInv /\ ClosedEmpty /\ [ScanNext]_allVars => ClosedEmpty'
<1> SUFFICES ASSUME ScanInv, ClosedEmpty, [ScanNext]_allVars PROVE ClosedEmpty'
  OBVIOUS
<1> USE DEF ClosedEmpty
<1>1. BackendInv /\ Typed /\ Placed
  BY DEF ScanInv, BackendInv
<1>2. ASSUME UNCHANGED <<buf, at, closed>> PROVE ClosedEmpty'
  BY <1>2
<1>3. CASE CloseBackend
  BY <1>3 DEF CloseBackend, Close, ScanInv, Quiet, buffer, callers
<1>4. CASE FlushBackend
  BY <1>4, FlushMoves, <1>1 DEF FlushBackend, callers
<1>5. ASSUME NEW w \in Worker, Receive(w) PROVE ClosedEmpty'
  BY <1>1, <1>5 DEF Receive, Call, buffer, Typed
<1>6. ASSUME NEW w \in Worker, ProcessPage(w) PROVE ClosedEmpty'
  <2>1. closed' = closed
    BY <1>6 DEF ProcessPage, Enter, Unreadable, Relock, LockFlush, WorkerUploaded, WorkerUploadFails
  <2> SUFFICES ASSUME closed PROVE ClosedEmpty'
    BY <2>1
  <2>2. at[w] \in {"outside", "enter"} /\ flushMu # w
    BY <1>1 DEF Placed
  <2>3. ~(Relock(w) \/ LockFlush(w) \/ WorkerUploaded(w) \/ WorkerUploadFails(w))
    BY <2>2 DEF Relock, LockFlush, WorkerUploaded, WorkerUploadFails, Uploaded, UploadFails
  <2>4. UNCHANGED buf /\ at' = [at EXCEPT ![w] = "outside"]
    BY <1>6, <2>3 DEF ProcessPage, Enter, Unreadable, Return, buffer
  <2> QED
    BY <1>1, <2>4 DEF Typed
<1>7. CASE Timer
  BY <1>1, <1>7
     DEF Timer, IdleFires, IdleCallback, IdleUploaded, IdleUploadFails, Outdated, buffer, callers
<1>8. CASE FlushEnds
  BY <1>8, <1>2 DEF FlushEnds, FlushUploaded, FlushUploadFails, buffer, callers
<1>9. CASE \/ StartScan \/ ScanPage \/ Send \/ Delay \/ Wait \/ EndScan \/ Cancel
           \/ Finished \/ UNCHANGED allVars
  BY <1>2, <1>9 DEF StartScan, ScanPage, Send, Delay, Wait, EndScan, Cancel, Finished,
                    allVars, vars, buffer, callers
<1> QED
  BY <1>3, <1>4, <1>5, <1>6, <1>7, <1>8, <1>9 DEF ScanNext, Scanning, Backend

(* Under ScanPages no accepted page is lost in silence, and none is left   *)
(* in a closed backend, whatever sessions, cancellations and a Close       *)
(* between two of them do.                                                 *)
THEOREM ScansLoseNothing == ScanSpec => []ScanLosesNothing
<1>1. ScanInit => ScanInv /\ NoSilentLoss /\ ClosedEmpty
  BY ScanInvInit DEF ScanInit, Init, NoSilentLoss, ClosedEmpty
<1>2. ScanInv /\ NoSilentLoss /\ [ScanNext]_allVars => NoSilentLoss'
  BY ScanMoves, LossStep DEF ScanInv
<1>3. NoSilentLoss /\ ClosedEmpty => ScanLosesNothing
  BY EmptySet DEF ScanLosesNothing, Stranded, ClosedEmpty
<1> QED
  BY <1>1, <1>2, <1>3, ScanStep, ClosedStep, PTL DEF ScanSpec

(* Scans that follow one another never share an upload: Flush leaves no    *)
(* page of the last one behind.                                            *)
THEOREM UploadsOfOneScan == ScanSpec => []ScansApart
<1>1. ScanInv => ScansApart
  <2> SUFFICES ASSUME ScanInv, NEW t \in Thread, NEW i \in DOMAIN batch[t], NEW j \in DOMAIN batch[t]
               PROVE  ScanOf[batch[t][i]] = ScanOf[batch[t][j]]
    BY DEF ScansApart, OneScanPerBatch
  <2>1. batch[t][i] \in UnderWay /\ batch[t][j] \in UnderWay
    BY InUnderWay DEF ToSet
  <2>2. batch[t][i] \in Delivered /\ batch[t][j] \in Delivered
    BY <2>1 DEF ScanInv, Ours
  <2>3. session \in 1..Len(Sessions) /\ Delivered = ToSet(Sessions[session])
    BY <2>2 DEF Delivered, ScanInv, ScanTyped
  <2>4. session \in DOMAIN Sessions
    BY <2>3, SessionsAssumption
  <2> QED
    BY <2>2, <2>3, <2>4, SessionsAssumption DEF ToSet
<1> QED
  BY <1>1, ScanInvInit, ScanStep, PTL DEF ScanSpec
=============================================================================
