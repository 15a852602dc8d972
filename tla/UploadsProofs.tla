---------------------------- MODULE UploadsProofs ---------------------------
(***************************************************************************)
(* Proofs about Uploads, for any files, chunk size and number of attempts: *)
(* an ID stands for one file in every attempt, a cancelled upload sends    *)
(* nothing more, its result has one verdict for every file, and the server *)
(* archives one page of each content.                                      *)
(***************************************************************************)
EXTENDS Uploads, TLAPS

(* The handlers, and the list their IDs are taken from, are what they      *)
(* should be: an ID is the place of its file in the list.                  *)
PagesTraced ==
  /\ handlers \in Seq(Handler)
  /\ \A h \in DOMAIN handlers : \A k \in DOMAIN handlers[h].pages :
       handlers[h].pages[k].id = handlers[h].pages[k].file

(* A request is not waited for once the upload is cancelled.               *)
CancelledWaitsForNone == uploadCancelled => place # "wait"

ClientOK ==
  /\ up \in 0..MaxUploads /\ start \in Nat /\ chunk \in Nat
  /\ selected \in Nat
  /\ place # "idle" => up \in Upload

IInv == ClientOK /\ PagesTraced /\ CancelledWaitsForNone

-----------------------------------------------------------------------------
(* Appending leaves the elements that were there.                          *)
LEMMA Appended ==
  ASSUME NEW S, NEW s \in Seq(S), NEW x \in S
  PROVE  /\ Append(s, x) \in Seq(S)
         /\ \A i \in DOMAIN Append(s, x) :
              \/ i \in DOMAIN s /\ Append(s, x)[i] = s[i]
              \/ Append(s, x)[i] = x
  OBVIOUS

(* The pages of a request have the IDs of their files.                     *)
LEMMA PagesOf ==
  ASSUME NEW s \in Nat, NEW n \in Nat
  PROVE  /\ Pages(s, n) \in Seq(UploadPage)
         /\ \A k \in DOMAIN Pages(s, n) : Pages(s, n)[k].id = Pages(s, n)[k].file
<1> DEFINE page(k) == [id |-> Offset(s) + k, file |-> s + k, status |-> "waiting"]
<1>1. \A k \in 1..n : page(k) \in UploadPage /\ page(k).id = page(k).file
  BY DEF UploadPage, Status, Offset
<1>2. Pages(s, n) = [k \in 1..n |-> page(k)]
  BY DEF Pages
<1> HIDE DEF page
<1>3. Pages(s, n) \in [1..n -> UploadPage]
  BY <1>1, <1>2
<1>4. Pages(s, n) \in Seq(UploadPage)
  BY <1>3
<1> QED
  BY <1>1, <1>2, <1>4

(* A request adds a handler, or is lost.                                   *)
LEMMA AttemptStep ==
  ASSUME PagesTraced, NEW u \in Upload, NEW s \in Nat, NEW n \in Nat, Attempt(u, s, n)
  PROVE  PagesTraced'
<1> DEFINE new == [scan |-> u, pages |-> Pages(s, n)]
<1>1. new \in Handler /\ new.pages = Pages(s, n)
  BY PagesOf DEF Handler
<1>2. handlers' = handlers \/ handlers' = Append(handlers, new)
  BY DEF Attempt
<1>3. handlers \in Seq(Handler)
  BY DEF PagesTraced
<1> HIDE DEF new
<1>4. CASE handlers' = handlers
  BY <1>4 DEF PagesTraced
<1>5. CASE handlers' = Append(handlers, new)
  <2>1. /\ handlers' \in Seq(Handler)
        /\ \A h \in DOMAIN handlers' :
             (h \in DOMAIN handlers /\ handlers'[h] = handlers[h]) \/ handlers'[h] = new
    BY <1>1, <1>3, <1>5, Appended
  <2>2. \A k \in DOMAIN new.pages : new.pages[k].id = new.pages[k].file
    <3>1. \A k \in DOMAIN Pages(s, n) : Pages(s, n)[k].id = Pages(s, n)[k].file
      BY PagesOf, Zenon
    <3> QED
      BY <1>1, <3>1, Zenon
  <2>3. ASSUME NEW h \in DOMAIN handlers'
        PROVE  \A k \in DOMAIN handlers'[h].pages :
                 handlers'[h].pages[k].id = handlers'[h].pages[k].file
    <3>1. CASE h \in DOMAIN handlers /\ handlers'[h] = handlers[h]
      BY <3>1 DEF PagesTraced
    <3>2. CASE handlers'[h] = new
      BY <2>2, <3>2
    <3> QED
      BY <2>1, <3>1, <3>2
  <2> QED
    BY <2>1, <2>3 DEF PagesTraced
<1> QED
  BY <1>2, <1>4, <1>5

(* A page that moves on keeps its ID and its file, and the others keep     *)
(* their status too.                                                       *)
LEMMA BecomesOnly ==
  ASSUME PagesTraced, NEW h \in DOMAIN handlers, NEW k \in DOMAIN handlers[h].pages,
         NEW status \in Status, Becomes(h, k, status)
  PROVE  /\ handlers' \in Seq(Handler) /\ Len(handlers') = Len(handlers)
         /\ DOMAIN handlers' = DOMAIN handlers
         /\ \A g \in DOMAIN handlers :
              /\ handlers'[g].scan = handlers[g].scan
              /\ DOMAIN handlers'[g].pages = DOMAIN handlers[g].pages
              /\ Len(handlers'[g].pages) = Len(handlers[g].pages)
              /\ \A j \in DOMAIN handlers[g].pages :
                   /\ handlers'[g].pages[j].id = handlers[g].pages[j].id
                   /\ handlers'[g].pages[j].file = handlers[g].pages[j].file
                   /\ handlers'[g].pages[j].status =
                        IF g = h /\ j = k THEN status ELSE handlers[g].pages[j].status
<1> DEFINE page == [handlers[h].pages[k] EXCEPT !.status = status]
           pages1 == [handlers[h].pages EXCEPT ![k] = page]
           new == [handlers[h] EXCEPT !.pages = pages1]
<1>1. handlers \in Seq(Handler) /\ handlers[h] \in Handler
  BY DEF PagesTraced
<1>2. handlers[h].pages \in Seq(UploadPage)
  BY <1>1 DEF Handler
<1>3. handlers[h].pages[k] \in UploadPage
  BY <1>2
<1>4. page \in UploadPage /\ page.id = handlers[h].pages[k].id
      /\ page.file = handlers[h].pages[k].file /\ page.status = status
  BY <1>3 DEF UploadPage
<1>5. handlers' = [handlers EXCEPT ![h] = new]
  BY DEF Becomes
<1> HIDE DEF page
<1>6. /\ pages1 \in Seq(UploadPage) /\ DOMAIN pages1 = DOMAIN handlers[h].pages
      /\ Len(pages1) = Len(handlers[h].pages)
      /\ \A j \in DOMAIN pages1 : pages1[j] = IF j = k THEN page ELSE handlers[h].pages[j]
  BY <1>2, <1>4
<1> HIDE DEF pages1
<1>7. new \in Handler /\ new.pages = pages1 /\ new.scan = handlers[h].scan
  BY <1>1, <1>6 DEF Handler
<1> HIDE DEF new
<1>8. /\ handlers' \in Seq(Handler) /\ Len(handlers') = Len(handlers)
      /\ DOMAIN handlers' = DOMAIN handlers
      /\ \A g \in DOMAIN handlers : handlers'[g] = IF g = h THEN new ELSE handlers[g]
  BY <1>1, <1>5, <1>7
<1> QED
  BY <1>4, <1>6, <1>7, <1>8

LEMMA BecomesStep ==
  ASSUME PagesTraced, NEW h \in DOMAIN handlers, NEW k \in DOMAIN handlers[h].pages,
         NEW status \in Status, Becomes(h, k, status)
  PROVE  PagesTraced' /\ Len(handlers') = Len(handlers)
<1>1. /\ handlers' \in Seq(Handler) /\ Len(handlers') = Len(handlers)
      /\ DOMAIN handlers' = DOMAIN handlers
  BY BecomesOnly
<1>2. ASSUME NEW g \in DOMAIN handlers, NEW j \in DOMAIN handlers'[g].pages
      PROVE  handlers'[g].pages[j].id = handlers'[g].pages[j].file
  <2>1. /\ j \in DOMAIN handlers[g].pages
        /\ handlers'[g].pages[j].id = handlers[g].pages[j].id
        /\ handlers'[g].pages[j].file = handlers[g].pages[j].file
    BY <1>2, BecomesOnly
  <2> QED
    BY <2>1 DEF PagesTraced
<1> QED
  BY <1>1, <1>2 DEF PagesTraced

-----------------------------------------------------------------------------
(* Nothing is sent at first.                                               *)
LEMMA InitIInv == UploadInit => IInv
<1> SUFFICES ASSUME UploadInit PROVE IInv
  OBVIOUS
<1>1. ClientOK
  BY UploadsAssumption DEF UploadInit, ClientOK
<1>2. PagesTraced
  BY DEF UploadInit, PagesTraced
<1>3. CancelledWaitsForNone
  BY DEF UploadInit, CancelledWaitsForNone
<1> QED
  BY <1>1, <1>2, <1>3 DEF IInv

(* A step of a handler moves one of its pages on.                          *)
LEMMA HandlerStep ==
  ASSUME IInv, NEW h \in DOMAIN handlers, NEW k \in DOMAIN handlers[h].pages,
         HandlePage(h, k)
  PROVE  IInv' /\ Len(handlers') = Len(handlers)
<1>1. PICK status \in Status : Becomes(h, k, status)
  BY DEF HandlePage, Reserve, StoreAndIndex, PageFails, Status
<1>2. /\ selected' = selected /\ up' = up /\ place' = place /\ start' = start
      /\ chunk' = chunk /\ uploadCancelled' = uploadCancelled
  BY DEF HandlePage, Reserve, StoreAndIndex, PageFails, client
<1>3. PagesTraced' /\ Len(handlers') = Len(handlers)
  BY <1>1, BecomesStep DEF IInv
<1>4. ClientOK'
  BY <1>2 DEF IInv, ClientOK
<1>5. CancelledWaitsForNone'
  BY <1>2 DEF IInv, CancelledWaitsForNone
<1> QED
  BY <1>3, <1>4, <1>5 DEF IInv

(* Cutting a chunk and sending it keeps IDs to their files.                *)
LEMMA NextChunkStep ==
  ASSUME PagesTraced, selected \in Nat, NEW u \in Upload, NEW s \in Nat, s <= selected,
         NextChunk(u, s)
  PROVE  PagesTraced' /\ start' = s /\ chunk' \in Nat
<1> DEFINE n == IF selected - s < ChunkSize THEN selected - s ELSE ChunkSize
<1>1. n \in Nat
  BY UploadsAssumption
<1>2. start' = s /\ chunk' = n /\ Attempt(u, s, n)
  BY DEF NextChunk
<1> HIDE DEF n
<1> QED
  BY <1>1, <1>2, AttemptStep

(* Every step keeps the invariant, and one that sends does so for an       *)
(* upload that is not cancelled.                                           *)
LEMMA NextIInv ==
  IInv /\ [UploadNext]_uploadVars =>
    IInv' /\ (uploadCancelled /\ up' = up => Len(handlers') = Len(handlers))
<1> DEFINE Quiet == uploadCancelled /\ up' = up => Len(handlers') = Len(handlers)
<1> SUFFICES ASSUME IInv, [UploadNext]_uploadVars PROVE IInv' /\ Quiet
  OBVIOUS
<1> USE DEF IInv
<1>0. ASSUME handlers' = handlers PROVE PagesTraced' /\ Quiet
  BY <1>0 DEF PagesTraced
<1> HIDE DEF Quiet
<1>1. ASSUME Drop PROVE IInv' /\ Quiet
  <2>1. /\ selected' = selected + 1 /\ up' = up /\ place' = place /\ start' = start
        /\ chunk' = chunk /\ uploadCancelled' = uploadCancelled /\ handlers' = handlers
    BY <1>1 DEF Drop, client
  <2>2. ClientOK'
    BY <2>1 DEF ClientOK
  <2>3. CancelledWaitsForNone'
    BY <2>1 DEF CancelledWaitsForNone
  <2> QED
    BY <1>0, <2>1, <2>2, <2>3
<1>2. ASSUME Begin PROVE IInv' /\ Quiet
  <2>1. /\ up' = up + 1 /\ up + 1 \in Upload /\ selected' = selected
        /\ NextChunk(up + 1, 0)
    BY <1>2, UploadsAssumption DEF Begin, ClientOK, Upload
  <2>2. PagesTraced' /\ start' = 0 /\ chunk' \in Nat
    BY <2>1, NextChunkStep DEF ClientOK
  <2>3. ClientOK'
    BY <2>1, <2>2, UploadsAssumption DEF ClientOK, Upload
  <2>4. CancelledWaitsForNone'
    BY <1>2 DEF Begin, CancelledWaitsForNone
  <2>5. Quiet
    BY <2>1, UploadsAssumption DEF Quiet, ClientOK
  <2> QED
    BY <2>2, <2>3, <2>4, <2>5
<1>3. ASSUME Answered PROVE IInv' /\ Quiet
  <2>1. ~uploadCancelled /\ uploadCancelled' = uploadCancelled /\ up' = up /\ selected' = selected
        /\ up \in Upload
    BY <1>3 DEF Answered, Returns, CancelledWaitsForNone, ClientOK
  <2>2. Quiet
    BY <2>1 DEF Quiet
  <2>3. CancelledWaitsForNone'
    BY <2>1 DEF CancelledWaitsForNone
  <2>4. CASE handlers' = handlers /\ start' = start /\ chunk' = chunk
    <3>1. ClientOK'
      BY <2>1, <2>4 DEF ClientOK
    <3> QED
      BY <1>0, <2>2, <2>3, <2>4, <3>1
  <2>5. CASE MoreChunks /\ NextChunk(up, start + ChunkSize)
    <3>1. start + ChunkSize \in Nat /\ start + ChunkSize <= selected
      BY <2>5, UploadsAssumption DEF MoreChunks, ClientOK
    <3>2. PagesTraced' /\ start' \in Nat /\ chunk' \in Nat
      BY <2>1, <2>5, <3>1, NextChunkStep DEF ClientOK
    <3>3. ClientOK'
      BY <2>1, <3>2 DEF ClientOK
    <3> QED
      BY <2>2, <2>3, <3>2, <3>3
  <2> QED
    BY <1>3, <2>4, <2>5 DEF Answered, Returns
<1>4. ASSUME Broken \/ Refused \/ Abort PROVE IInv' /\ Quiet
  <2>1. /\ handlers' = handlers /\ selected' = selected /\ up' = up
        /\ start' = start /\ chunk' = chunk
    BY <1>4 DEF Broken, Refused, Abort, Returns
  <2>2. place' = place \/ place' = "idle" \/ (place = "wait" /\ place' = "backoff")
    BY <1>4 DEF Broken, Refused, Abort, Returns
  <2>3. ClientOK'
    BY <2>1, <2>2 DEF ClientOK
  <2>4. place' # "wait"
    BY <1>4 DEF Broken, Refused, Abort, Returns
  <2>5. CancelledWaitsForNone'
    BY <2>4 DEF CancelledWaitsForNone
  <2> QED
    BY <1>0, <2>1, <2>3, <2>5
<1>5. ASSUME BackoffEnds PROVE IInv' /\ Quiet
  <2>1. uploadCancelled' = uploadCancelled /\ up' = up /\ selected' = selected /\ up \in Upload
        /\ start' = start /\ chunk' = chunk
    BY <1>5 DEF BackoffEnds, Returns, ClientOK
  <2>2. ClientOK'
    BY <2>1 DEF ClientOK
  <2>3. CASE uploadCancelled /\ handlers' = handlers /\ place' = "idle"
    <3>1. CancelledWaitsForNone'
      BY <2>3 DEF CancelledWaitsForNone
    <3> QED
      BY <1>0, <2>2, <2>3, <3>1
  <2>4. CASE ~uploadCancelled /\ Attempt(up, start, chunk)
    <3>1. PagesTraced'
      BY <2>1, <2>4, AttemptStep DEF ClientOK
    <3>2. CancelledWaitsForNone' /\ Quiet
      BY <2>1, <2>4 DEF CancelledWaitsForNone, Quiet
    <3> QED
      BY <2>2, <3>1, <3>2
  <2> QED
    BY <1>5, <2>3, <2>4 DEF BackoffEnds, GivenUp, Returns
<1>6. ASSUME NEW h \in DOMAIN handlers, NEW k \in DOMAIN handlers[h].pages, HandlePage(h, k)
      PROVE  IInv' /\ Quiet
  BY <1>6, HandlerStep DEF Quiet
<1>7. CASE UNCHANGED uploadVars
  <2>1. /\ handlers' = handlers /\ selected' = selected /\ up' = up /\ place' = place
        /\ start' = start /\ chunk' = chunk /\ uploadCancelled' = uploadCancelled
    BY <1>7 DEF uploadVars, client
  <2>2. ClientOK' /\ CancelledWaitsForNone'
    BY <2>1 DEF ClientOK, CancelledWaitsForNone
  <2> QED
    BY <1>0, <2>1, <2>2
<1> QED
  BY <1>1, <1>2, <1>3, <1>4, <1>5, <1>6, <1>7 DEF UploadNext, Client

(* In one upload an ID stands for one file, however its chunks are cut and *)
(* however often they are sent.                                            *)
THEOREM IdsAreFiles == UploadSpec => []PagesAreFiles
<1>1. IInv => PagesAreFiles
  BY DEF IInv, PagesTraced, PagesAreFiles
<1>2. IInv /\ [UploadNext]_uploadVars => IInv'
  BY NextIInv
<1> QED
  BY InitIInv, <1>1, <1>2, PTL DEF UploadSpec

(* After a cancel nothing is sent until the user starts another upload.    *)
THEOREM CancelFinal == UploadSpec => CancelIsFinal
<1>1. IInv /\ [UploadNext]_uploadVars => [uploadCancelled /\ up' = up => Len(handlers') = Len(handlers)]_uploadVars
  BY NextIInv
<1>2. IInv /\ [UploadNext]_uploadVars => IInv'
  BY NextIInv
<1> QED
  BY InitIInv, <1>1, <1>2, PTL DEF UploadSpec, CancelIsFinal

-----------------------------------------------------------------------------
(* One verdict for every file                                              *)

(* The chunk under way holds files that are selected, and only the last    *)
(* one may be short.                                                       *)
Sizes ==
  /\ selected \in 0..MaxFiles /\ place \in {"idle", "wait", "backoff"}
  /\ begun \in [Upload -> Nat] /\ pages \in [Upload -> Seq(UploadPage)]
  /\ outcome \in [Upload -> {"none", "result", "error", "aborted"}]
  /\ place # "idle" =>
       /\ up \in Upload /\ outcome[up] = "none" /\ begun[up] <= selected
       /\ chunk <= ChunkSize /\ start + chunk <= selected
       /\ chunk = ChunkSize \/ start + chunk >= begun[up]

(* The answer that is waited for is about the files of this chunk.         *)
Awaited ==
  place = "wait" /\ current # 0 =>
    /\ current \in DOMAIN handlers /\ Len(handlers[current].pages) = chunk
    /\ \A k \in DOMAIN handlers[current].pages : handlers[current].pages[k].file = start + k

Increasing(s) == \A j, k \in DOMAIN s : j < k => s[j].file < s[k].file
Leading(s, n) == \A k \in DOMAIN s : k <= n => s[k].file = k

(* Until the last chunk there is a verdict for each file before start.     *)
Verdicts ==
  /\ \A u \in Upload :
       /\ Increasing(pages[u])
       /\ u > up => pages[u] = <<>> /\ outcome[u] = "none"
       /\ outcome[u] = "result" => Len(pages[u]) >= begun[u] /\ Leading(pages[u], begun[u])
  /\ place # "idle" =>
       /\ \A k \in DOMAIN pages[up] : pages[up][k].file <= start
       /\ Leading(pages[up], begun[up])
       /\ Len(pages[up]) = start \/ Len(pages[up]) >= begun[up]

WholeInv == IInv /\ Sizes /\ Awaited /\ Verdicts

(* What a request is, whether or not it arrives.                           *)
LEMMA AttemptAwaited ==
  ASSUME PagesTraced, NEW u \in Upload, NEW s \in Nat, NEW n \in Nat, Attempt(u, s, n)
  PROVE  /\ place' = "wait"
         /\ current' # 0 =>
              /\ current' \in DOMAIN handlers' /\ Len(handlers'[current'].pages) = n
              /\ \A k \in DOMAIN handlers'[current'].pages : handlers'[current'].pages[k].file = s + k
<1>1. CASE current' = 0
  BY <1>1 DEF Attempt
<1>2. CASE current' # 0
  <2>1. /\ handlers \in Seq(Handler) /\ Pages(s, n) \in Seq(UploadPage)
        /\ handlers' = Append(handlers, [scan |-> u, pages |-> Pages(s, n)])
        /\ current' = Len(handlers) + 1 /\ place' = "wait"
    BY <1>2, PagesOf DEF Attempt, PagesTraced
  <2>2. [scan |-> u, pages |-> Pages(s, n)] \in Handler
    BY <2>1 DEF Handler
  <2>3. current' \in DOMAIN handlers' /\ handlers'[current'] = [scan |-> u, pages |-> Pages(s, n)]
    BY <2>1, <2>2
  <2>4. Len(Pages(s, n)) = n /\ \A k \in DOMAIN Pages(s, n) : Pages(s, n)[k].file = s + k
    BY <2>1 DEF Pages
  <2> QED
    BY <2>1, <2>3, <2>4
<1> QED
  BY <1>1, <1>2

(* The verdicts of one more chunk.                                         *)
LEMMA Joined ==
  ASSUME NEW s \in Seq(UploadPage), NEW t \in Seq(UploadPage), NEW b \in Nat, NEW n \in Nat,
         Increasing(s), Leading(s, n), \A k \in DOMAIN s : s[k].file <= b,
         Len(s) = b \/ Len(s) >= n,
         \A k \in DOMAIN t : t[k].file = b + k
  PROVE  /\ s \o t \in Seq(UploadPage) /\ Len(s \o t) = Len(s) + Len(t)
         /\ Increasing(s \o t) /\ Leading(s \o t, n)
         /\ \A k \in DOMAIN (s \o t) : (s \o t)[k].file <= b + Len(t)
<1> DEFINE r == s \o t
           m == Len(s)
           l == Len(t)
<1>1. /\ r \in Seq(UploadPage) /\ Len(r) = m + l
      /\ DOMAIN r = 1..(m + l) /\ DOMAIN s = 1..m /\ DOMAIN t = 1..l
  OBVIOUS
<1>2. \A k \in 1..m : s[k] \in UploadPage /\ r[k] = s[k]
  OBVIOUS
<1>3. \A k \in 1..(m + l) : k <= m \/ (k - m \in 1..l /\ r[k] = t[k - m])
  OBVIOUS
<1>4. m \in Nat /\ l \in Nat
  OBVIOUS
<1> HIDE DEF r, m, l
<1>5. ASSUME NEW k \in 1..m PROVE s[k].file \in Nat /\ s[k].file <= b /\ r[k].file = s[k].file
  BY <1>1, <1>2 DEF UploadPage
<1>6. ASSUME NEW k \in 1..(m + l), ~(k <= m) PROVE r[k].file = b + (k - m)
  BY <1>1, <1>3, <1>6
<1>7. Increasing(r)
  <2> SUFFICES ASSUME NEW j \in 1..(m + l), NEW k \in 1..(m + l), j < k PROVE r[j].file < r[k].file
    BY <1>1 DEF Increasing
  <2>1. CASE k <= m
    <3>1. j \in 1..m /\ k \in 1..m
      BY <1>4, <2>1
    <3>2. s[j].file < s[k].file
      BY <1>1, <3>1 DEF Increasing
    <3> QED
      BY <1>2, <3>1, <3>2
  <2>2. CASE j <= m /\ ~(k <= m)
    <3>1. j \in 1..m
      BY <1>4, <2>2
    <3>2. r[j].file \in Nat /\ r[j].file <= b
      BY <1>5, <3>1
    <3>3. r[k].file = b + (k - m)
      BY <1>6, <2>2
    <3> QED
      BY <1>4, <2>2, <3>2, <3>3
  <2>3. CASE ~(j <= m) /\ ~(k <= m)
    <3>1. r[j].file = b + (j - m) /\ r[k].file = b + (k - m)
      BY <1>6, <2>3
    <3> QED
      BY <1>4, <3>1
  <2> QED
    BY <1>4, <2>1, <2>2, <2>3
<1>8. Leading(r, n)
  <2> SUFFICES ASSUME NEW k \in 1..(m + l), k <= n PROVE r[k].file = k
    BY <1>1 DEF Leading
  <2>1. CASE k <= m
    <3>1. k \in 1..m
      BY <1>4, <2>1
    <3> QED
      BY <1>1, <1>2, <3>1 DEF Leading
  <2>2. CASE ~(k <= m)
    <3>1. m = b
      BY <1>4, <2>2 DEF m
    <3> QED
      BY <1>4, <1>6, <2>2, <3>1
  <2> QED
    BY <2>1, <2>2
<1>9. ASSUME NEW k \in 1..(m + l) PROVE r[k].file <= b + l
  <2>1. CASE k <= m
    <3>1. k \in 1..m
      BY <1>4, <2>1
    <3> QED
      BY <1>4, <1>5, <3>1
  <2>2. CASE ~(k <= m)
    BY <1>4, <1>6, <2>2
  <2> QED
    BY <2>1, <2>2
<1> QED
  BY <1>1, <1>7, <1>8, <1>9 DEF r, m, l

(* Cutting the chunk after file s, which the list has.                     *)
LEMMA NextChunkSizes ==
  ASSUME PagesTraced, selected \in Nat, NEW u \in Upload, NEW s \in Nat, s <= selected,
         NextChunk(u, s)
  PROVE  /\ start' = s /\ chunk' \in Nat /\ chunk' <= ChunkSize /\ start' + chunk' <= selected
         /\ chunk' = ChunkSize \/ start' + chunk' = selected
         /\ place' = "wait" /\ Awaited'
<1> DEFINE n == IF selected - s < ChunkSize THEN selected - s ELSE ChunkSize
<1>1. n \in Nat /\ n <= ChunkSize /\ s + n <= selected /\ (n = ChunkSize \/ s + n = selected)
  BY UploadsAssumption
<1>2. start' = s /\ chunk' = n /\ Attempt(u, s, n)
  BY DEF NextChunk
<1> HIDE DEF n
<1>3. place' = "wait" /\ Awaited'
  BY <1>1, <1>2, AttemptAwaited DEF Awaited
<1> QED
  BY <1>1, <1>2, <1>3

LEMMA WholeInit == UploadInit => WholeInv
<1> SUFFICES ASSUME UploadInit PROVE WholeInv
  OBVIOUS
<1>1. Sizes
  <2>1. begun \in [Upload -> Nat] /\ pages \in [Upload -> Seq(UploadPage)]
    BY DEF UploadInit
  <2> QED
    BY <2>1, UploadsAssumption DEF UploadInit, Sizes
<1>2. Awaited /\ Verdicts
  BY DEF UploadInit, Awaited, Verdicts, Increasing
<1> QED
  BY <1>1, <1>2, InitIInv DEF WholeInv

LEMMA WholeBegin ==
  ASSUME WholeInv, Begin
  PROVE  Sizes' /\ Awaited' /\ Verdicts'
<1> USE DEF WholeInv
<1>1. /\ up \in 0..MaxUploads /\ up' = up + 1 /\ up' \in Upload /\ selected' = selected
      /\ selected \in 0..MaxFiles /\ selected \in Nat /\ place = "idle"
      /\ NextChunk(up', 0) /\ pages' = pages /\ outcome' = outcome
      /\ begun' = [begun EXCEPT ![up'] = selected]
  BY UploadsAssumption DEF Begin, IInv, ClientOK, Upload, Sizes
<1>2. /\ start' = 0 /\ chunk' \in Nat /\ chunk' <= ChunkSize /\ start' + chunk' <= selected
      /\ chunk' = ChunkSize \/ start' + chunk' = selected
      /\ place' = "wait" /\ Awaited'
  BY <1>1, NextChunkSizes DEF IInv
<1>3. begun' \in [Upload -> Nat] /\ begun'[up'] = selected
      /\ \A u \in Upload : u # up' => begun'[u] = begun[u]
  BY <1>1 DEF Sizes
<1>4. pages[up'] = <<>> /\ outcome[up'] = "none"
  BY <1>1 DEF Verdicts
<1>5. Sizes'
  <2>1. pages \in [Upload -> Seq(UploadPage)] /\ outcome \in [Upload -> {"none", "result", "error", "aborted"}]
    BY DEF Sizes
  <2>2. begun'[up'] <= selected /\ (chunk' = ChunkSize \/ start' + chunk' >= begun'[up'])
    <3>1. begun'[up'] = selected /\ selected \in Nat
      BY <1>1, <1>3
    <3>2. chunk' = ChunkSize \/ start' + chunk' = selected
      BY <1>2
    <3> QED
      BY <3>1, <3>2
  <2>3. outcome'[up'] = "none"
    BY <1>1, <1>4
  <2> QED
    BY <1>1, <1>2, <1>3, <2>1, <2>2, <2>3 DEF Sizes
<1>6. Verdicts'
  <2>1. ASSUME NEW u \in Upload
        PROVE  /\ Increasing(pages'[u])
               /\ u > up' => pages'[u] = <<>> /\ outcome'[u] = "none"
               /\ outcome'[u] = "result" => Len(pages'[u]) >= begun'[u] /\ Leading(pages'[u], begun'[u])
    <3>1. u > up' => u > up
      BY <1>1 DEF Upload
    <3> QED
      BY <1>1, <1>3, <1>4, <3>1 DEF Verdicts
  <2>2. DOMAIN pages'[up'] = {} /\ Len(pages'[up']) = 0
    BY <1>1, <1>4
  <2> QED
    BY <1>2, <2>1, <2>2 DEF Verdicts, Leading
<1> QED
  BY <1>2, <1>5, <1>6

(* The answer to a chunk.                                                  *)
LEMMA WholeAnswered ==
  ASSUME WholeInv, Answered
  PROVE  Sizes' /\ Awaited' /\ Verdicts'
<1> USE DEF WholeInv
<1> DEFINE s == pages[up]
           t == handlers[current].pages
<1>1. /\ place = "wait" /\ current # 0 /\ UNCHANGED <<selected, begun>>
      /\ up \in Upload /\ up \in Nat /\ up' = up /\ outcome[up] = "none"
      /\ selected \in 0..MaxFiles /\ selected \in Nat /\ start \in Nat /\ chunk \in Nat
      /\ begun \in [Upload -> Nat] /\ pages \in [Upload -> Seq(UploadPage)]
      /\ outcome \in [Upload -> {"none", "result", "error", "aborted"}]
      /\ begun[up] <= selected /\ chunk <= ChunkSize /\ start + chunk <= selected
      /\ chunk = ChunkSize \/ start + chunk >= begun[up]
      /\ ChunkSize \in Nat
  BY UploadsAssumption DEF Answered, Returns, IInv, ClientOK, Sizes, Upload
<1>2. CASE Returns("error") /\ UNCHANGED <<pages, handlers>>
  <2>1. /\ outcome' = [outcome EXCEPT ![up] = "error"] /\ place' = "idle" /\ current' = 0
    BY <1>2 DEF Returns
  <2>2. Sizes' /\ Awaited'
    BY <1>1, <1>2, <2>1 DEF Sizes, Awaited
  <2>3. Verdicts'
    BY <1>1, <1>2, <2>1 DEF Verdicts
  <2> QED
    BY <2>2, <2>3
<1>3. CASE /\ pages' = [pages EXCEPT ![up] = s \o t]
           /\ IF MoreChunks
                THEN NextChunk(up, start + ChunkSize) /\ UNCHANGED <<up, outcome>>
                ELSE Returns("result") /\ UNCHANGED handlers
  <2>1. /\ s \in Seq(UploadPage) /\ t \in Seq(UploadPage) /\ Len(t) = chunk
        /\ \A k \in DOMAIN t : t[k].file = start + k
    <3>1. current \in DOMAIN handlers /\ handlers[current] \in Handler
      BY <1>1 DEF Awaited, IInv, PagesTraced
    <3> QED
      BY <1>1, <3>1 DEF Awaited, Handler
  <2>2. /\ Increasing(s) /\ Leading(s, begun[up]) /\ \A k \in DOMAIN s : s[k].file <= start
        /\ Len(s) = start \/ Len(s) >= begun[up]
    BY <1>1 DEF Verdicts
  <2>3. begun[up] \in Nat /\ Len(s) \in Nat
    BY <1>1, <2>1
  <2> HIDE DEF s, t
  <2>4. /\ s \o t \in Seq(UploadPage) /\ Len(s \o t) = Len(s) + Len(t)
        /\ Increasing(s \o t) /\ Leading(s \o t, begun[up])
        /\ \A k \in DOMAIN (s \o t) : (s \o t)[k].file <= start + Len(t)
    BY <1>1, <2>1, <2>2, <2>3, Joined
  <2> DEFINE r == s \o t
  <2>5. /\ r \in Seq(UploadPage) /\ Len(r) = Len(s) + chunk
        /\ Increasing(r) /\ Leading(r, begun[up])
        /\ \A k \in DOMAIN r : r[k].file <= start + chunk /\ r[k].file \in Nat
    <3>1. \A q \in Seq(UploadPage) : \A k \in DOMAIN q : q[k].file \in Nat
      <4>1. \A q \in Seq(UploadPage) : \A k \in DOMAIN q : q[k] \in UploadPage
        OBVIOUS
      <4> QED
        BY <4>1 DEF UploadPage
    <3>2. \A k \in DOMAIN r : r[k].file \in Nat
      BY <2>4, <3>1
    <3> QED
      BY <2>1, <2>4, <3>2
  <2> HIDE DEF r
  <2>6. /\ pages' \in [Upload -> Seq(UploadPage)] /\ pages'[up] = r
        /\ \A u \in Upload : u # up => pages'[u] = pages[u]
    BY <1>1, <1>3, <2>5 DEF r
  <2>7. CASE MoreChunks /\ NextChunk(up, start + ChunkSize) /\ outcome' = outcome
    <3>1. start + ChunkSize \in Nat /\ start + ChunkSize <= selected
      BY <1>1, <2>7 DEF MoreChunks
    <3>2. /\ start' = start + ChunkSize /\ chunk' \in Nat /\ chunk' <= ChunkSize
          /\ start' + chunk' <= selected
          /\ chunk' = ChunkSize \/ start' + chunk' = selected
          /\ place' = "wait" /\ Awaited'
      BY <1>1, <2>7, <3>1, NextChunkSizes DEF IInv
    <3>3. Sizes'
      <4>1. chunk' = ChunkSize \/ start' + chunk' >= begun[up]
        BY <1>1, <3>2
      <4>2. UNCHANGED <<selected, up, begun, outcome>>
        BY <1>1, <2>7
      <4>3. /\ up' \in Upload /\ outcome'[up'] = "none" /\ begun'[up'] <= selected'
            /\ chunk' = ChunkSize \/ start' + chunk' >= begun'[up']
        BY <1>1, <4>1, <4>2
      <4>4. chunk' <= ChunkSize /\ start' + chunk' <= selected'
        BY <3>2, <4>2
      <4>5. /\ selected' \in 0..MaxFiles /\ begun' \in [Upload -> Nat]
            /\ outcome' \in [Upload -> {"none", "result", "error", "aborted"}]
        BY <1>1, <4>2
      <4> QED
        BY <2>6, <3>2, <4>3, <4>4, <4>5 DEF Sizes
    <3>4. start' = start + ChunkSize
      BY <3>2
    <3>5. /\ \A k \in DOMAIN r : r[k].file <= start'
          /\ Len(r) = start' \/ Len(r) >= begun[up]
      <4>1. \A k \in DOMAIN r : r[k].file <= start'
        <5>1. ASSUME NEW k \in DOMAIN r PROVE r[k].file <= start'
          <6>1. r[k].file <= start + chunk /\ r[k].file \in Nat
            BY <2>5
          <6> QED
            BY <1>1, <3>4, <6>1
        <5> QED
          BY <5>1
      <4> DEFINE ns == Len(s)
                 nr == Len(r)
      <4>2. /\ nr = ns + chunk /\ ns \in Nat
            /\ ns = start \/ ns >= begun[up]
        BY <2>2, <2>3, <2>5
      <4> HIDE DEF ns, nr
      <4>3. nr = start' \/ nr >= begun[up]
        BY <1>1, <2>3, <3>4, <4>2
      <4> QED
        BY <4>1, <4>3 DEF nr
    <3>6. Verdicts'
      BY <1>1, <2>5, <2>6, <2>7, <3>5 DEF Verdicts
    <3> QED
      BY <3>2, <3>3, <3>6
  <2>8. CASE ~MoreChunks /\ Returns("result")
    <3>1. /\ outcome' = [outcome EXCEPT ![up] = "result"] /\ place' = "idle" /\ current' = 0
      BY <2>8 DEF Returns
    <3>2. Sizes' /\ Awaited'
      BY <1>1, <2>6, <3>1 DEF Sizes, Awaited
    <3>3. Len(r) >= begun[up]
      BY <1>1, <2>2, <2>3, <2>5, <2>8 DEF MoreChunks
    <3>4. Verdicts'
      BY <1>1, <2>5, <2>6, <3>1, <3>3 DEF Verdicts
    <3> QED
      BY <3>2, <3>4
  <2> QED
    BY <1>3, <2>7, <2>8
<1> QED
  BY <1>2, <1>3 DEF Answered

LEMMA WholeStep == WholeInv /\ [UploadNext]_uploadVars => WholeInv'
<1> SUFFICES ASSUME WholeInv, [UploadNext]_uploadVars PROVE Sizes' /\ Awaited' /\ Verdicts'
  BY NextIInv DEF WholeInv
<1> USE DEF WholeInv
<1>1. CASE Drop
  <2>1. /\ selected' = selected + 1 /\ selected < MaxFiles /\ selected \in 0..MaxFiles
        /\ UNCHANGED <<up, place, start, chunk, current, pages, outcome, begun, handlers>>
    BY <1>1 DEF Drop, client, Sizes
  <2>2. place # "idle" => begun[up] \in Nat /\ start \in Nat /\ chunk \in Nat
    BY DEF Sizes, IInv, ClientOK
  <2>3. Sizes'
    <3>1. selected' \in 0..MaxFiles /\ selected \in Nat
      BY <2>1, UploadsAssumption
    <3> QED
      BY <2>1, <2>2, <3>1 DEF Sizes
  <2> QED
    BY <2>1, <2>3 DEF Awaited, Verdicts
<1>2. CASE Begin
  BY <1>2, WholeBegin
<1>3. CASE Answered
  BY <1>3, WholeAnswered
<1>4. ASSUME UNCHANGED <<selected, up, start, chunk, pages, begun, handlers>>,
             \/ place' = "backoff" /\ place # "idle" /\ outcome' = outcome
             \/ \E how \in {"error", "aborted"} : Returns(how) /\ place # "idle"
      PROVE  Sizes' /\ Awaited' /\ Verdicts'
  <2>1. CASE place' = "backoff" /\ place # "idle" /\ outcome' = outcome
    BY <1>4, <2>1 DEF Sizes, Awaited, Verdicts
  <2>2. ASSUME NEW how \in {"error", "aborted"}, Returns(how), place # "idle"
        PROVE  Sizes' /\ Awaited' /\ Verdicts'
    <3>1. /\ outcome' = [outcome EXCEPT ![up] = how] /\ place' = "idle"
          /\ up \in Upload /\ up \in Nat
          /\ outcome \in [Upload -> {"none", "result", "error", "aborted"}]
      BY <2>2 DEF Returns, Sizes, Upload
    <3>2. Sizes' /\ Awaited'
      BY <1>4, <3>1 DEF Sizes, Awaited
    <3>3. Verdicts'
      BY <1>4, <3>1 DEF Verdicts, Upload
    <3> QED
      BY <3>2, <3>3
  <2> QED
    BY <1>4, <2>1, <2>2
<1>5. CASE Broken \/ Refused
  BY <1>4, <1>5 DEF Broken, Refused, Returns
<1>6. CASE Abort
  <2>1. UNCHANGED <<selected, up, start, chunk, pages, begun, handlers>> /\ place # "idle"
    BY <1>6 DEF Abort, Returns
  <2>2. Returns("aborted") \/ (place' = "backoff" /\ outcome' = outcome)
    BY <1>6 DEF Abort
  <2> QED
    BY <1>4, <2>1, <2>2
<1>7. CASE BackoffEnds
  <2>1. CASE Returns("aborted") /\ UNCHANGED handlers
    BY <1>4, <1>7, <2>1 DEF BackoffEnds, Returns
  <2>2. CASE Attempt(up, start, chunk) /\ UNCHANGED <<up, start, chunk, outcome>>
    <3>1. /\ UNCHANGED <<selected, pages, begun>> /\ place = "backoff"
          /\ up \in Upload /\ start \in Nat /\ chunk \in Nat
      BY <1>7 DEF BackoffEnds, IInv, ClientOK
    <3>2. place' = "wait" /\ Awaited'
      BY <2>2, <3>1, AttemptAwaited DEF IInv, Awaited
    <3>3. Sizes' /\ Verdicts'
      BY <2>2, <3>1, <3>2 DEF Sizes, Verdicts
    <3> QED
      BY <3>2, <3>3
  <2> QED
    BY <1>7, <2>1, <2>2 DEF BackoffEnds
<1>8. ASSUME NEW h \in DOMAIN handlers, NEW k \in DOMAIN handlers[h].pages, HandlePage(h, k)
      PROVE  Sizes' /\ Awaited' /\ Verdicts'
  <2>1. PICK status \in Status : Becomes(h, k, status)
    BY <1>8 DEF HandlePage, Reserve, StoreAndIndex, PageFails, Status
  <2>2. UNCHANGED <<selected, up, place, start, chunk, current, pages, outcome, begun>>
    BY <1>8 DEF HandlePage, Reserve, StoreAndIndex, PageFails, client
  <2>3. /\ DOMAIN handlers' = DOMAIN handlers
        /\ \A g \in DOMAIN handlers :
             /\ DOMAIN handlers'[g].pages = DOMAIN handlers[g].pages
             /\ Len(handlers'[g].pages) = Len(handlers[g].pages)
             /\ \A j \in DOMAIN handlers[g].pages :
                  handlers'[g].pages[j].file = handlers[g].pages[j].file
    BY <2>1, BecomesOnly DEF IInv
  <2>4. Awaited'
    BY <2>2, <2>3 DEF Awaited
  <2> QED
    BY <2>2, <2>4 DEF Sizes, Verdicts
<1>9. CASE UNCHANGED uploadVars
  BY <1>9 DEF uploadVars, client, Sizes, Awaited, Verdicts
<1> QED
  BY <1>1, <1>2, <1>3, <1>5, <1>6, <1>7, <1>8, <1>9 DEF UploadNext, Client

(* An upload that returns a result has one verdict for each file that was  *)
(* selected when it began, in their order, and none twice.                 *)
THEOREM WholeResult == UploadSpec => []ResultIsWhole
<1>1. WholeInv => ResultIsWhole
  <2> SUFFICES ASSUME WholeInv, NEW u \in Upload
               PROVE  /\ \A j, k \in DOMAIN pages[u] : j < k => pages[u][j].file < pages[u][k].file
                      /\ outcome[u] = "result" =>
                           Len(pages[u]) >= begun[u] /\ \A k \in 1..begun[u] : pages[u][k].file = k
    BY DEF ResultIsWhole
  <2>1. Increasing(pages[u]) /\ (outcome[u] = "result" => Len(pages[u]) >= begun[u] /\ Leading(pages[u], begun[u]))
    BY DEF WholeInv, Verdicts
  <2>2. pages[u] \in Seq(UploadPage) /\ begun[u] \in Nat
    BY DEF WholeInv, Sizes
  <2> QED
    BY <2>1, <2>2 DEF Increasing, Leading
<1> QED
  BY <1>1, WholeInit, WholeStep, PTL DEF UploadSpec

-----------------------------------------------------------------------------
(* One page per content                                                    *)

Live(h, k) == handlers[h].pages[k].status \in {"reserved", "indexed"}

FilesExist ==
  \A h \in DOMAIN handlers : \A k \in DOMAIN handlers[h].pages : handlers[h].pages[k].file \in File

(* A page that has reserved its content and not failed is the one of its   *)
(* content, and holds the claim.                                           *)
Claimed ==
  /\ claim \in [Digest -> PageId \cup {NoPage}]
  /\ \A h \in DOMAIN handlers : \A k \in DOMAIN handlers[h].pages :
       /\ Live(h, k) => claim[digest(h, k)] = Id(h, k)
       /\ handlers[h].pages[k].status = "indexed" => Id(h, k) \in acked
  /\ \A g, h \in DOMAIN handlers : \A j \in DOMAIN handlers[g].pages, k \in DOMAIN handlers[h].pages :
       Live(g, j) /\ Live(h, k) /\ digest(g, j) = digest(h, k) => g = h /\ j = k

ClaimsInv == WholeInv /\ FilesExist /\ Claimed

(* A page's ID is a page of ContentClaims, with the content of its file.   *)
LEMMA IdContent ==
  ASSUME ClaimsInv, NEW h \in DOMAIN handlers, NEW k \in DOMAIN handlers[h].pages
  PROVE  /\ Id(h, k) \in PageId /\ Id(h, k) # NoPage /\ digest(h, k) \in Digest
         /\ Content[Id(h, k)[2]] = digest(h, k)
<1>1. handlers[h] \in Handler /\ handlers[h].scan \in Upload
  <2>1. handlers \in Seq(Handler)
    BY DEF ClaimsInv, WholeInv, IInv, PagesTraced
  <2>2. handlers[h] \in Handler
    BY <2>1
  <2> QED
    BY <2>2 DEF Handler
<1>2. handlers[h].pages[k].id = handlers[h].pages[k].file /\ handlers[h].pages[k].file \in File
  BY DEF ClaimsInv, WholeInv, IInv, PagesTraced, FilesExist
<1> QED
  BY <1>1, <1>2, UploadsAssumption DEF Id, PageId, digest

(* A request, if it arrives, brings pages nobody has reserved yet.         *)
LEMMA AttemptClaims ==
  ASSUME ClaimsInv, NEW u \in Upload, NEW s \in Nat, NEW n \in Nat, s + n <= MaxFiles,
         Attempt(u, s, n), UNCHANGED claims
  PROVE  FilesExist' /\ Claimed'
<1>1. CASE handlers' = handlers
  BY <1>1 DEF ClaimsInv, FilesExist, Claimed, Live, digest, Id, claims
<1>2. CASE handlers' = Append(handlers, [scan |-> u, pages |-> Pages(s, n)])
  <2> DEFINE new == [scan |-> u, pages |-> Pages(s, n)]
  <2>1. handlers \in Seq(Handler) /\ new \in Handler /\ new.pages = Pages(s, n)
    BY PagesOf DEF ClaimsInv, WholeInv, IInv, PagesTraced, Handler
  <2> HIDE DEF new
  <2>2. \A h \in DOMAIN handlers' : (h \in DOMAIN handlers /\ handlers'[h] = handlers[h]) \/ handlers'[h] = new
    BY <1>2, <2>1, Appended DEF new
  <2>3. \A k \in DOMAIN new.pages : new.pages[k].file \in File /\ new.pages[k].status = "waiting"
    BY <2>1, UploadsAssumption DEF Pages, File
  <2>4. FilesExist'
    BY <2>2, <2>3 DEF ClaimsInv, FilesExist
  <2>5. ASSUME NEW h \in DOMAIN handlers', NEW k \in DOMAIN handlers'[h].pages,
               handlers'[h].pages[k].status \in {"reserved", "indexed"}
        PROVE  h \in DOMAIN handlers /\ handlers'[h] = handlers[h]
    BY <2>2, <2>3, <2>5
  <2>6. Claimed'
    <3>1. claim' = claim /\ acked' = acked
      BY DEF claims
    <3>2. ASSUME NEW h \in DOMAIN handlers', NEW k \in DOMAIN handlers'[h].pages, Live(h, k)'
          PROVE  /\ claim'[digest(h, k)'] = Id(h, k)'
                 /\ handlers'[h].pages[k].status = "indexed" => Id(h, k)' \in acked'
      <4>1. h \in DOMAIN handlers /\ handlers'[h] = handlers[h]
        BY <2>5, <3>2 DEF Live
      <4> QED
        BY <3>1, <3>2, <4>1 DEF ClaimsInv, Claimed, Live, digest, Id
    <3>3. ASSUME NEW g \in DOMAIN handlers', NEW j \in DOMAIN handlers'[g].pages, Live(g, j)',
                 NEW h \in DOMAIN handlers', NEW k \in DOMAIN handlers'[h].pages, Live(h, k)',
                 digest(g, j)' = digest(h, k)'
          PROVE  g = h /\ j = k
      <4>1. /\ h \in DOMAIN handlers /\ handlers'[h] = handlers[h]
            /\ g \in DOMAIN handlers /\ handlers'[g] = handlers[g]
        BY <2>5, <3>3 DEF Live
      <4> QED
        BY <3>3, <4>1 DEF ClaimsInv, Claimed, Live, digest
    <3>4. claim' \in [Digest -> PageId \cup {NoPage}]
      BY <3>1 DEF ClaimsInv, Claimed
    <3>5. \A h \in DOMAIN handlers' : \A k \in DOMAIN handlers'[h].pages :
            handlers'[h].pages[k].status = "indexed" => Live(h, k)'
      BY DEF Live
    <3> QED
      BY <3>2, <3>3, <3>4, <3>5 DEF Claimed
  <2> QED
    BY <2>4, <2>6
<1> QED
  BY <1>1, <1>2 DEF Attempt

(* A step of a page: it takes the claim of its content when nobody has it, *)
(* is acknowledged while it holds it, and gives up its own only.           *)
LEMMA HandlerClaims ==
  ASSUME ClaimsInv, NEW h \in DOMAIN handlers, NEW k \in DOMAIN handlers[h].pages,
         HandlePage(h, k)
  PROVE  FilesExist' /\ Claimed'
<1> DEFINE d == digest(h, k)
<1>1. /\ Id(h, k) \in PageId /\ Id(h, k) # NoPage /\ d \in Digest
      /\ Content[Id(h, k)[2]] = d /\ claim \in [Digest -> PageId \cup {NoPage}]
  BY IdContent DEF ClaimsInv, Claimed
<1>2. PICK status \in Status : Becomes(h, k, status)
  BY DEF HandlePage, Reserve, StoreAndIndex, PageFails, Status
<1>3. /\ DOMAIN handlers' = DOMAIN handlers
      /\ \A g \in DOMAIN handlers :
           /\ handlers'[g].scan = handlers[g].scan
           /\ DOMAIN handlers'[g].pages = DOMAIN handlers[g].pages
           /\ \A j \in DOMAIN handlers[g].pages :
                /\ handlers'[g].pages[j].id = handlers[g].pages[j].id
                /\ handlers'[g].pages[j].file = handlers[g].pages[j].file
                /\ g # h \/ j # k => handlers'[g].pages[j].status = handlers[g].pages[j].status
      /\ handlers'[h].pages[k].status = status
  BY <1>2, BecomesOnly DEF ClaimsInv, WholeInv, IInv
<1>4. FilesExist'
  BY <1>3 DEF ClaimsInv, FilesExist
<1>5. \A g \in DOMAIN handlers : \A j \in DOMAIN handlers[g].pages :
        /\ digest(g, j)' = digest(g, j) /\ Id(g, j)' = Id(g, j)
        /\ g # h \/ j # k => (Live(g, j)' <=> Live(g, j))
  BY <1>3 DEF digest, Id, Live
<1>6. \A g \in DOMAIN handlers : \A j \in DOMAIN handlers[g].pages :
        /\ Live(g, j) => claim[digest(g, j)] = Id(g, j) /\ Id(g, j) # NoPage /\ digest(g, j) \in Digest
        /\ Live(g, j) /\ Live(h, k) /\ digest(g, j) = d => g = h /\ j = k
        /\ handlers[g].pages[j].status = "indexed" => Id(g, j) \in acked
  BY IdContent DEF ClaimsInv, Claimed
<1> HIDE DEF d
<1>7. /\ claim' \in [Digest -> PageId \cup {NoPage}] /\ acked \subseteq acked'
      /\ \A e \in Digest : e # d => claim'[e] = claim[e]
      /\ \/ claim'[d] = claim[d]
         \/ claim[d] = NoPage \/ Live(h, k)
      /\ status = "reserved" => claim'[d] = Id(h, k) /\ claim[d] = NoPage
      /\ status = "indexed" => claim'[d] = Id(h, k) /\ Id(h, k) \in acked' /\ Live(h, k)
  <2>1. CASE Reserve(h, k)
    <3>1. CASE Claims(h, k) /\ (Becomes(h, k, "reserved") \/ Becomes(h, k, "failed"))
      <4>1. claim[d] = NoPage /\ claim' = [claim EXCEPT ![d] = Id(h, k)] /\ acked' = acked
        BY <1>1, <3>1 DEF Claims, C!Claim
      <4>2. status \in {"reserved", "failed"}
        BY <1>3, <3>1, BecomesOnly DEF ClaimsInv, WholeInv, IInv, Status
      <4> QED
        BY <1>1, <4>1, <4>2
    <3>2. CASE (Becomes(h, k, "duplicate") \/ Becomes(h, k, "failed")) /\ UNCHANGED claims
      <4>1. status \in {"duplicate", "failed"}
        BY <1>3, <3>2, BecomesOnly DEF ClaimsInv, WholeInv, IInv, Status
      <4> QED
        BY <1>1, <3>2, <4>1 DEF claims
    <3> QED
      BY <2>1, <3>1, <3>2 DEF Reserve
  <2>2. CASE StoreAndIndex(h, k)
    <3>1. claim[d] = Id(h, k) /\ claim' = claim /\ acked' = acked \cup {Id(h, k)}
      BY <1>1, <2>2 DEF StoreAndIndex, C!Acknowledge
    <3>2. status = "indexed" /\ Live(h, k)
      BY <1>3, <2>2, BecomesOnly DEF StoreAndIndex, ClaimsInv, WholeInv, IInv, Status, Live
    <3> QED
      BY <1>1, <3>1, <3>2
  <2>3. CASE PageFails(h, k)
    <3>1. claim' = [claim EXCEPT ![d] = NoPage] \/ claim' = claim
      BY <2>3 DEF PageFails, C!Abandon, claims, d
    <3>2. status = "failed" /\ Live(h, k) /\ acked' = acked
      BY <1>3, <2>3, BecomesOnly DEF PageFails, C!Abandon, claims, ClaimsInv, WholeInv, IInv, Status, Live
    <3> QED
      BY <1>1, <3>1, <3>2
  <2> QED
    BY <2>1, <2>2, <2>3 DEF HandlePage
<1>8. Live(h, k)' => status \in {"reserved", "indexed"}
  BY <1>3 DEF Live
(* Another page that is live has another content, or this one fails.       *)
<1>9. ASSUME NEW g \in DOMAIN handlers, NEW j \in DOMAIN handlers[g].pages, g # h \/ j # k, Live(g, j)
      PROVE  claim'[digest(g, j)] = Id(g, j) /\ (Live(h, k)' => digest(g, j) # d)
  BY <1>6, <1>7, <1>8, <1>9
<1>10. ASSUME NEW g \in DOMAIN handlers, NEW j \in DOMAIN handlers[g].pages, Live(g, j)'
       PROVE  /\ claim'[digest(g, j)'] = Id(g, j)'
              /\ handlers'[g].pages[j].status = "indexed" => Id(g, j)' \in acked'
  <2>1. CASE g = h /\ j = k
    BY <1>3, <1>5, <1>7, <1>8, <1>10, <2>1 DEF d
  <2>2. CASE g # h \/ j # k
    BY <1>3, <1>5, <1>6, <1>7, <1>9, <1>10, <2>2
  <2> QED
    BY <2>1, <2>2
<1>11. ASSUME NEW g \in DOMAIN handlers, NEW j \in DOMAIN handlers[g].pages, Live(g, j)',
              NEW f \in DOMAIN handlers, NEW i \in DOMAIN handlers[f].pages, Live(f, i)',
              digest(g, j)' = digest(f, i)'
       PROVE  g = f /\ j = i
  <2>1. digest(g, j) = digest(f, i)
    BY <1>5, <1>11
  <2>2. CASE (g # h \/ j # k) /\ (f # h \/ i # k)
    BY <1>5, <1>11, <2>1, <2>2 DEF ClaimsInv, Claimed
  <2>3. CASE g = h /\ j = k
    BY <1>5, <1>9, <1>11, <2>1, <2>3 DEF d
  <2>4. CASE f = h /\ i = k
    BY <1>5, <1>9, <1>11, <2>1, <2>4 DEF d
  <2> QED
    BY <2>2, <2>3, <2>4
<1>12. \A g \in DOMAIN handlers : \A j \in DOMAIN handlers[g].pages :
         handlers'[g].pages[j].status = "indexed" => Live(g, j)'
  BY DEF Live
<1>13. Claimed'
  BY <1>3, <1>7, <1>10, <1>11, <1>12 DEF Claimed
<1> QED
  BY <1>4, <1>13

LEMMA ClaimsInvInit == UploadInit => ClaimsInv
<1> SUFFICES ASSUME UploadInit PROVE FilesExist /\ Claimed
  BY WholeInit DEF ClaimsInv
<1>1. FilesExist
  BY DEF UploadInit, FilesExist
<1>2. Claimed
  BY DEF UploadInit, Claimed, C!Init
<1> QED
  BY <1>1, <1>2

LEMMA ClaimsInvStep == ClaimsInv /\ [UploadNext]_uploadVars => ClaimsInv'
<1> SUFFICES ASSUME ClaimsInv, [UploadNext]_uploadVars PROVE FilesExist' /\ Claimed'
  BY WholeStep DEF ClaimsInv
<1>1. ASSUME UNCHANGED <<handlers, claims>> PROVE FilesExist' /\ Claimed'
  BY <1>1 DEF ClaimsInv, FilesExist, Claimed, Live, digest, Id, claims
<1>2. ASSUME NEW u \in Upload, NEW s \in Nat, s <= selected, NextChunk(u, s), UNCHANGED claims
      PROVE  FilesExist' /\ Claimed'
  <2> DEFINE n == IF selected - s < ChunkSize THEN selected - s ELSE ChunkSize
  <2>1. selected \in Nat /\ selected <= MaxFiles
    BY UploadsAssumption DEF ClaimsInv, WholeInv, Sizes
  <2>2. n \in Nat /\ s + n <= MaxFiles
    BY <1>2, <2>1, UploadsAssumption
  <2>3. Attempt(u, s, n)
    BY <1>2 DEF NextChunk
  <2> HIDE DEF n
  <2> QED
    BY <1>2, <2>2, <2>3, AttemptClaims
<1>3. CASE Begin
  <2>1. up + 1 \in Upload /\ 0 <= selected
    BY <1>3, UploadsAssumption DEF Begin, ClaimsInv, WholeInv, IInv, ClientOK, Sizes, Upload
  <2> QED
    BY <1>2, <1>3, <2>1 DEF Begin
<1>4. CASE Answered
  <2>1. CASE MoreChunks /\ NextChunk(up, start + ChunkSize)
    <3>1. up \in Upload /\ start + ChunkSize \in Nat /\ start + ChunkSize <= selected
      BY <1>4, <2>1, UploadsAssumption DEF Answered, MoreChunks, ClaimsInv, WholeInv, IInv, ClientOK
    <3> QED
      BY <1>2, <1>4, <2>1, <3>1 DEF Answered
  <2> QED
    BY <1>1, <1>4, <2>1 DEF Answered
<1>5. CASE Drop \/ Broken \/ Refused \/ Abort \/ UNCHANGED uploadVars
  BY <1>1, <1>5 DEF Drop, Broken, Refused, Abort, uploadVars
<1>6. CASE BackoffEnds
  <2>1. CASE Attempt(up, start, chunk)
    <3>1. up \in Upload /\ start \in Nat /\ chunk \in Nat /\ start + chunk <= selected
      BY <1>6 DEF BackoffEnds, ClaimsInv, WholeInv, IInv, ClientOK, Sizes
    <3>2. selected \in Nat /\ selected <= MaxFiles
      BY UploadsAssumption DEF ClaimsInv, WholeInv, Sizes
    <3>3. start + chunk <= MaxFiles
      BY <3>1, <3>2, UploadsAssumption
    <3> QED
      BY <1>6, <2>1, <3>1, <3>3, AttemptClaims DEF BackoffEnds
  <2> QED
    BY <1>1, <1>6, <2>1 DEF BackoffEnds
<1>7. ASSUME NEW h \in DOMAIN handlers, NEW k \in DOMAIN handlers[h].pages, HandlePage(h, k)
      PROVE  FilesExist' /\ Claimed'
  BY <1>7, HandlerClaims
<1> QED
  BY <1>3, <1>4, <1>5, <1>6, <1>7 DEF UploadNext, Client

(* However many attempts at one file overlap, at most one page with its    *)
(* bytes is ever found indexed.                                            *)
THEOREM OncePerContent == UploadSpec => []ArchivedOnce
<1>1. ClaimsInv => ArchivedOnce
  BY DEF ClaimsInv, Claimed, ArchivedOnce, Live
<1> QED
  BY <1>1, ClaimsInvInit, ClaimsInvStep, PTL DEF UploadSpec
=============================================================================
