------------------------------ MODULE Uploads -------------------------------
(***************************************************************************)
(* A browser's upload (frontend/src/composables/useUpload.ts) against the  *)
(* server's handleUpload (internal/server/upload.go).  The files go out in *)
(* chunks under one scan ID; a chunk whose answer does not arrive is sent  *)
(* again with the same IDs, while the handler of the earlier attempt may   *)
(* be at work still.  Files may be dropped into the list at any time (the  *)
(* list itself is passed to upload); removing is disabled meanwhile.       *)
(*                                                                         *)
(* What the handlers' pages do to the reservations is what PagePipeline is *)
(* shown to implement: the actions of ContentClaims.                       *)
(***************************************************************************)
EXTENDS Integers, Sequences

CONSTANTS
  Digest, NoPage,
  Content,      \* Content[f] is the digest of file f, the f-th of the list
  ChunkSize,    \* UPLOAD_CHUNK_SIZE
  MaxAttempts,  \* MAX_ATTEMPTS
  MaxFiles,     \* bound: files that are ever selected
  MaxUploads    \* bound: calls of upload

File == 1..MaxFiles
Upload == 1..MaxUploads
PageId == Upload \X File      \* scan ID and sequence number

ASSUME UploadsAssumption ==
  /\ {ChunkSize, MaxAttempts} \subseteq Nat \ {0}
  /\ {MaxFiles, MaxUploads} \subseteq Nat
  /\ Content \in [File -> Digest]
  /\ NoPage \notin PageId

VARIABLES
  selected,     \* number of files in the list
  up,           \* the upload in progress, or the last one
  place,        \* uploading, and what it waits for
  start, chunk, \* of the chunk: the files before it, its own number of files
  tries,        \* chunkAttempt
  current,      \* the handler whose answer is waited for, 0 if the request never arrives
  uploadCancelled,
  pages,        \* combined.pages of each upload
  outcome,      \* how each upload has returned
  begun,        \* history: files in the list when each upload began
  handlers,     \* handleUpload calls: their scan, and the ID, file and status of each page
  claim, acked  \* the reservations

client == <<up, place, start, chunk, tries, current, uploadCancelled, pages, outcome, begun>>
claims == <<claim, acked>>
uploadVars == <<selected, client, handlers, claims>>

(* A page's content is that of the file it was made from, which its ID     *)
(* names as long as PagesAreFiles holds.                                   *)
C == INSTANCE ContentClaims WITH
  Page <- PageId, None <- NoPage, Content <- [p \in PageId |-> Content[p[2]]]

Status == {"waiting", "reserved", "indexed", "duplicate", "failed"}
UploadPage == [id : Nat, file : Nat, status : Status]
Handler == [scan : Upload, pages : Seq(UploadPage)]

UploadTypeOK ==
  /\ selected \in 0..MaxFiles /\ up \in 0..MaxUploads
  /\ place \in {"idle", "wait", "backoff"}
  /\ start \in Nat /\ chunk \in 0..ChunkSize /\ tries \in 0..MaxAttempts
  /\ current \in 0..Len(handlers)
  /\ uploadCancelled \in BOOLEAN
  /\ pages \in [Upload -> Seq(UploadPage)]
  /\ outcome \in [Upload -> {"none", "result", "error", "aborted"}]
  /\ begun \in [Upload -> Nat]
  /\ handlers \in Seq(Handler)
  /\ claim \in [Digest -> PageId \cup {NoPage}] /\ acked \subseteq PageId
  /\ place # "idle" => up \in Upload /\ outcome[up] = "none" /\ start + chunk <= selected

UploadInit ==
  /\ selected = 0 /\ up = 0 /\ place = "idle"
  /\ start = 0 /\ chunk = 0 /\ tries = 0 /\ current = 0 /\ uploadCancelled = FALSE
  /\ pages = [u \in Upload |-> << >>]
  /\ outcome = [u \in Upload |-> "none"]
  /\ begun = [u \in Upload |-> 0]
  /\ handlers = << >>
  /\ C!Init

-----------------------------------------------------------------------------
(* useUpload                                                               *)

Drop ==
  /\ selected < MaxFiles
  /\ selected' = selected + 1
  /\ UNCHANGED <<client, handlers, claims>>

(* Mutant: every chunk is numbered from its own first page.                *)
OffsetNone(s) == 0

(* The sequenceOffset of the chunk that begins after file s, from which    *)
(* parseUploadSequenceIDs counts.                                          *)
Offset(s) == s

(* The handler's pages for the n files that come after file s.             *)
Pages(s, n) == [k \in 1..n |-> [id |-> Offset(s) + k, file |-> s + k, status |-> "waiting"]]

(* attemptOnce: the request arrives or it does not.                        *)
Attempt(u, s, n) ==
  /\ place' = "wait"
  /\ \/ /\ handlers' = Append(handlers, [scan |-> u, pages |-> Pages(s, n)])
        /\ current' = Len(handlers) + 1
     \/ current' = 0 /\ UNCHANGED handlers

(* A chunk is cut once, and sent with the same files in every attempt.     *)
NextChunk(u, s) ==
  LET n == IF selected - s < ChunkSize THEN selected - s ELSE ChunkSize IN
  start' = s /\ chunk' = n /\ tries' = 1 /\ Attempt(u, s, n)

Returns(how) ==
  /\ outcome' = [outcome EXCEPT ![up] = how]
  /\ place' = "idle" /\ current' = 0
  /\ UNCHANGED <<up, start, chunk, tries>>

Begin ==
  /\ place = "idle" /\ up < MaxUploads /\ selected > 0
  /\ up' = up + 1
  /\ NextChunk(up + 1, 0)
  /\ uploadCancelled' = FALSE
  /\ begun' = [begun EXCEPT ![up + 1] = selected]
  /\ UNCHANGED <<selected, pages, outcome, claims>>

Final(h) == \A k \in DOMAIN handlers[h].pages :
              handlers[h].pages[k].status \in {"indexed", "duplicate", "failed"}

(* A batch of duplicates only is answered 409.                             *)
Conflict(h) == \A k \in DOMAIN handlers[h].pages :
                 handlers[h].pages[k].status = "duplicate"

(* Mutant: only whole chunks are sent.                                     *)
MoreChunksWhole == start + 2 * ChunkSize <= selected

MoreChunks == start + ChunkSize < selected

Answered ==
  /\ place = "wait" /\ current # 0 /\ Final(current)
  /\ \/ /\ Conflict(current)              \* not retryable
        /\ Returns("error")
        /\ UNCHANGED <<pages, handlers>>
     \/ /\ ~Conflict(current)
        /\ pages' = [pages EXCEPT ![up] = @ \o handlers[current].pages]
        /\ IF MoreChunks
             THEN NextChunk(up, start + ChunkSize) /\ UNCHANGED <<up, outcome>>
             ELSE Returns("result") /\ UNCHANGED handlers
  /\ UNCHANGED <<selected, uploadCancelled, begun, claims>>

(* The connection breaks, or a proxy answers for the server.               *)
Broken ==
  /\ place = "wait"
  /\ \/ /\ tries < MaxAttempts
        /\ place' = "backoff" /\ current' = 0
        /\ UNCHANGED <<up, start, chunk, tries, outcome>>
     \/ tries = MaxAttempts /\ Returns("error")
  /\ UNCHANGED <<selected, handlers, uploadCancelled, pages, begun, claims>>

(* 4xx before any page is touched: too large, a type that is not allowed.  *)
Refused ==
  /\ place = "wait" /\ current = 0
  /\ Returns("error")
  /\ UNCHANGED <<selected, handlers, uploadCancelled, pages, begun, claims>>

(* Mutant: cancelled is not looked at before the next attempt.             *)
GivenUpNever == FALSE

GivenUp == uploadCancelled

BackoffEnds ==
  /\ place = "backoff"
  /\ \/ GivenUp /\ Returns("aborted") /\ UNCHANGED handlers
     \/ /\ ~GivenUp
        /\ Attempt(up, start, chunk) /\ tries' = tries + 1
        /\ UNCHANGED <<up, start, chunk, outcome>>
  /\ UNCHANGED <<selected, uploadCancelled, pages, begun, claims>>

(* abort: a request that waits is given up at once, a backoff runs on.     *)
Abort ==
  /\ place # "idle" /\ ~uploadCancelled
  /\ uploadCancelled' = TRUE
  /\ \/ place = "wait" /\ Returns("aborted")
     \/ place = "backoff" /\ UNCHANGED <<up, place, start, chunk, tries, current, outcome>>
  /\ UNCHANGED <<selected, handlers, pages, begun, claims>>

-----------------------------------------------------------------------------
(* handleUpload: one goroutine per page                                    *)

Becomes(h, k, status) == handlers' = [handlers EXCEPT ![h].pages[k].status = status]

Id(h, k) == <<handlers[h].scan, handlers[h].pages[k].id>>

digest(h, k) == Content[handlers[h].pages[k].file]

(* Mutant: the reservation overwrites another one.                         *)
ClaimsOver(h, k) ==
  /\ claim' = [claim EXCEPT ![digest(h, k)] = Id(h, k)]
  /\ UNCHANGED acked

Claims(h, k) == C!Claim(Id(h, k))

Taken(h, k) == claim[digest(h, k)] # NoPage

(* A reservation whose answer is lost may have been made.                  *)
Reserve(h, k) ==
  /\ handlers[h].pages[k].status = "waiting"
  /\ \/ Claims(h, k) /\ (Becomes(h, k, "reserved") \/ Becomes(h, k, "failed"))
     \/ Taken(h, k) /\ Becomes(h, k, "duplicate") /\ UNCHANGED claims
     \/ Becomes(h, k, "failed") /\ UNCHANGED claims
  /\ UNCHANGED <<selected, client>>

StoreAndIndex(h, k) ==
  /\ handlers[h].pages[k].status = "reserved"
  /\ C!Acknowledge(Id(h, k))
  /\ Becomes(h, k, "indexed")
  /\ UNCHANGED <<selected, client>>

(* Storage or indexing fails and the reservation is released, or not: the  *)
(* release fails too, or the process ends.                                 *)
PageFails(h, k) ==
  /\ handlers[h].pages[k].status = "reserved"
  /\ C!Abandon(digest(h, k)) \/ UNCHANGED claims
  /\ Becomes(h, k, "failed")
  /\ UNCHANGED <<selected, client>>

HandlePage(h, k) == Reserve(h, k) \/ StoreAndIndex(h, k) \/ PageFails(h, k)

-----------------------------------------------------------------------------
Client == Answered \/ Broken \/ Refused \/ BackoffEnds

UploadNext ==
  \/ Drop \/ Begin \/ Abort \/ Client
  \/ \E h \in DOMAIN handlers : \E k \in DOMAIN handlers[h].pages : HandlePage(h, k)

UploadSpec == UploadInit /\ [][UploadNext]_uploadVars

-----------------------------------------------------------------------------
(* Properties                                                              *)

(* An ID stands for one file, in every attempt and chunk of an upload: a   *)
(* retry is recognised by its IDs, and two pages never share one.          *)
PagesAreFiles ==
  \A g, h \in DOMAIN handlers :
    \A j \in DOMAIN handlers[g].pages, k \in DOMAIN handlers[h].pages :
      LET p == handlers[g].pages[j]
          q == handlers[h].pages[k] IN
      handlers[g].scan = handlers[h].scan => (p.id = q.id <=> p.file = q.file)

(* An upload that returns a result has one verdict for every file that was *)
(* selected when it began, in order, and none twice, however often chunks  *)
(* were sent.  A file dropped into the list meanwhile may be passed over:  *)
(* start advances by ChunkSize past a chunk that was shorter.              *)
ResultIsWhole ==
  \A u \in Upload :
    /\ \A j, k \in DOMAIN pages[u] : j < k => pages[u][j].file < pages[u][k].file
    /\ outcome[u] = "result" =>
         Len(pages[u]) >= begun[u] /\ \A k \in 1..begun[u] : pages[u][k].file = k

(* However many attempts at one file overlap, and whichever of them the    *)
(* client gave up, at most one page with its bytes is ever found indexed.  *)
ArchivedOnce ==
  \A g, h \in DOMAIN handlers :
    \A j \in DOMAIN handlers[g].pages, k \in DOMAIN handlers[h].pages :
      /\ handlers[g].pages[j].status = "indexed"
      /\ handlers[h].pages[k].status = "indexed"
      /\ digest(g, j) = digest(h, k)
      => g = h /\ j = k

(* After a cancel nothing more is sent until the user starts an upload.    *)
CancelIsFinal == [][uploadCancelled /\ up' = up => Len(handlers') = Len(handlers)]_uploadVars
=============================================================================
