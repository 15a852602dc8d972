---------------------------- MODULE PagePipeline ----------------------------
(***************************************************************************)
(* How a page becomes a searchable document: the digest reservation        *)
(* protocol of pkg/indexer/dedupe.go and the four pipelines that run it.   *)
(*                                                                         *)
(*   scan      processLocalPage with a storage (odi ingest)                *)
(*   upload    the page goroutine of handleUpload                          *)
(*   unstored  processLocalPage without a storage (odi index), and         *)
(*             indexPDF (odi pdf)                                          *)
(*   reindex   one page of reindex.Run                                     *)
(*                                                                         *)
(* A worker runs one page at a time through                                *)
(*   [retrieve] reserve [lookup] [store] index                             *)
(* and, when store or index fails, through the two requests of             *)
(* ReleaseContentDigest, read and delete.  Each step is one request to     *)
(* OpenSearch or to the blob storage.  A request that the worker sees fail *)
(* may have had no effect, or may still be on its way and take effect      *)
(* later (`late`); a worker may crash between any two steps.  One call of   *)
(* the client may be several requests: its transport re-sends after a lost *)
(* connection, and a 502, 503 or 504, and says nothing of it (`Resend`).    *)
(***************************************************************************)
EXTENDS Naturals

CONSTANTS
  Page,       \* page identifiers, ScannedPage.ID(): scan ID and sequence number
  Digest,     \* content digests
  Content,    \* Content[p] is the digest of the bytes of page p
  Worker,     \* goroutines that run a pipeline, in any process
  Answered,   \* those whose calls all return, with an answer or an error
  Pipelines,  \* the pipelines in use
  MaxJobs,    \* bound: jobs started in a behaviour
  None        \* not a page

AllPipelines == {"scan", "upload", "unstored", "reindex"}

ASSUME ConstantsAssumption ==
  /\ Content \in [Page -> Digest]
  /\ Answered \subseteq Worker
  /\ Pipelines \subseteq AllPipelines
  /\ MaxJobs \in Nat
  /\ None \notin Page

VARIABLES
  owner,      \* reservation index: the documentID stored under each digest
  seqNo,      \* ... and the sequence number of that write
  nextSeq,    \* the next sequence number the index will hand out
  blob,       \* pages in the blob storage
  doc,        \* pages in the documents index
  late,       \* requests given up by their worker that may still take effect
  step,       \* per worker: the request it is about to send
  pipeline,   \* ... the pipeline it runs
  page,       \* ... the page it works on
  seen,       \* ... the sequence number its release has read
  started,    \* number of jobs started
  results,    \* history: what each finished job reported
  resent      \* history: pages whose create was re-sent, which nobody is told

reservations == <<owner, seqNo, nextSeq>>
workers == <<step, pipeline, page, seen>>
vars == <<owner, seqNo, nextSeq, blob, doc, late,
          step, pipeline, page, seen, started, results, resent>>

Steps    == {"idle", "retrieve", "reserve", "lookup", "store", "index",
             "read", "delete"}
Statuses == {"indexed", "duplicate", "failed", "unresolved", "crashed"}

Request == [op : {"create", "index", "delete"}, page : Page, seq : Nat]
Result  == [page : Page, status : Statuses, of : Page \cup {None}]

TypeOK ==
  /\ owner \in [Digest -> Page \cup {None}]
  /\ seqNo \in [Digest -> Nat]
  /\ nextSeq \in Nat
  /\ blob \subseteq Page
  /\ doc \subseteq Page
  /\ late \subseteq Request
  /\ step \in [Worker -> Steps]
  /\ pipeline \in [Worker -> AllPipelines]
  /\ page \in [Worker -> Page \cup {None}]
  /\ seen \in [Worker -> Nat]
  /\ started \in Nat
  /\ results \subseteq Result
  /\ resent \subseteq Page
  /\ \A w \in Worker : step[w] # "idle" => page[w] \in Page

Init ==
  /\ owner = [d \in Digest |-> None]
  /\ seqNo = [d \in Digest |-> 0]
  /\ nextSeq = 1
  /\ blob = {} /\ doc = {} /\ late = {}
  /\ step = [w \in Worker |-> "idle"]
  /\ pipeline = [w \in Worker |-> "upload"]
  /\ page = [w \in Worker |-> None]
  /\ seen = [w \in Worker |-> 0]
  /\ started = 0
  /\ results = {} /\ resent = {}

-----------------------------------------------------------------------------
(* Pipelines and workers                                                   *)

(* The digest worker w is working on.                                      *)
digest(w) == Content[page[w]]

StoresBlob(k) == k \in {"scan", "upload"}

(* odi ingest, odi index and odi pdf mint a scan ID per run; an upload     *)
(* may name the scan ID and the sequence number of an earlier attempt.     *)
Fresh(p) ==
  /\ \A r \in results : r.page # p
  /\ \A w \in Worker : step[w] # "idle" => page[w] # p

Goto(w, s) ==
  /\ step' = [step EXCEPT ![w] = s]
  /\ UNCHANGED <<pipeline, page, seen>>

(* Mutant: the handler records the result and does not return.             *)
ReportGoesOn(w, st, of) ==
  /\ results' = results \cup {[page |-> page[w], status |-> st, of |-> of]}
  /\ page' = [page EXCEPT ![w] = None]
  /\ UNCHANGED <<step, pipeline, seen>>

(* The job of w ends with status st; every field of its state is dropped.  *)
Report(w, st, of) ==
  /\ results' = results \cup {[page |-> page[w], status |-> st, of |-> of]}
  /\ step' = [step EXCEPT ![w] = "idle"]
  /\ pipeline' = [pipeline EXCEPT ![w] = "upload"]
  /\ page' = [page EXCEPT ![w] = None]
  /\ seen' = [seen EXCEPT ![w] = 0]

(* The request of w may still reach the index after w has given up on it.  *)
Abandoned(w, op) ==
  late' \in {late, late \cup {[op |-> op, page |-> page[w], seq |-> seen[w]]}}

-----------------------------------------------------------------------------
(* The reservation index                                                   *)

(* Mutant: a plain PUT overwrites the document.                            *)
TakenNever(d) == FALSE

(* op_type=create refuses an id in use with a 409.                         *)
Taken(d) == owner[d] # None

Create(p) ==
  /\ owner' = [owner EXCEPT ![Content[p]] = p]
  /\ seqNo' = [seqNo EXCEPT ![Content[p]] = nextSeq]
  /\ nextSeq' = nextSeq + 1

CreateIfFree(p) ==
  \/ ~Taken(Content[p]) /\ Create(p)
  \/ Taken(Content[p]) /\ UNCHANGED reservations

(* Mutant: the delete is unconditional.                                    *)
MatchesAny(d, s) == Taken(d)

(* A delete with if_seq_no matches the write its sender has read.          *)
Matches(d, s) == Taken(d) /\ seqNo[d] = s

Delete(d, s) ==
  /\ owner' = IF Matches(d, s) THEN [owner EXCEPT ![d] = None] ELSE owner
  /\ UNCHANGED <<seqNo, nextSeq>>

-----------------------------------------------------------------------------
(* Starting a job                                                          *)

Start(w, k, p) ==
  /\ step[w] = "idle"
  /\ started < MaxJobs
  /\ k \in {"scan", "unstored"} => Fresh(p)
  /\ k = "reindex" => p \in blob        \* ListPages
  /\ step' = [step EXCEPT ![w] = IF k = "reindex" THEN "retrieve" ELSE "reserve"]
  /\ pipeline' = [pipeline EXCEPT ![w] = k]
  /\ page' = [page EXCEPT ![w] = p]
  /\ started' = started + 1
  /\ UNCHANGED <<reservations, blob, doc, late, seen, results, resent>>

Retrieve(w) ==
  /\ step[w] = "retrieve"
  /\ \/ Goto(w, "reserve") /\ UNCHANGED results
     \/ Report(w, "failed", None)        \* retrieve or read error, cancelled run
  /\ UNCHANGED <<reservations, blob, doc, late, started, resent>>

-----------------------------------------------------------------------------
(* ReserveContentDigest                                                    *)

(* Mutant: the page is indexed without having been stored.                 *)
AfterReserveUnstored(k) == "index"

AfterReserve(k) == IF StoresBlob(k) THEN "store" ELSE "index"

Reserve(w) ==
  /\ step[w] = "reserve"
  /\ \/ /\ ~Taken(digest(w))
        /\ Create(page[w])
        /\ Goto(w, AfterReserve(pipeline[w]))
     \/ /\ Taken(digest(w))              \* 409 Conflict
        /\ Goto(w, "lookup")
        /\ UNCHANGED reservations
  /\ UNCHANGED <<blob, doc, late, started, results, resent>>

(* Mutant: every unsuccessful create is taken for a conflict.              *)
ReserveFailsAsDuplicate(w) ==
  /\ step[w] = "reserve"
  /\ Abandoned(w, "create")
  /\ Report(w, "duplicate", None)
  /\ UNCHANGED <<reservations, blob, doc, started, resent>>

ReserveFails(w) ==
  /\ step[w] = "reserve"
  /\ Abandoned(w, "create")
  /\ Report(w, "unresolved", None)
  /\ UNCHANGED <<reservations, blob, doc, started, resent>>

(* The answer of a create is lost, or a gateway answers for OpenSearch: the *)
(* transport sends it once more inside the same call, whatever became of   *)
(* the first.  If that one took effect the second conflicts with it, and   *)
(* Lookup finds the worker's own page.  (The other requests of a call may  *)
(* be re-sent too: reads and the index write have the same effect twice,   *)
(* and a second conditional delete finds its write gone.)                  *)
Resend(w) ==
  /\ step[w] = "reserve"
  /\ late' = late \cup {[op |-> "create", page |-> page[w], seq |-> seen[w]]}
  /\ resent' = resent \cup {page[w]}
  /\ UNCHANGED <<reservations, blob, doc, workers, started, results>>

(* Mutant: every pipeline goes on with a reservation of its own page.      *)
ProceedsAlways(k, p, of) == of = p

(* Only reindex.Run compares the owner with the page it is working on.     *)
Proceeds(k, p, of) == k = "reindex" /\ of = p

Lookup(w) ==
  /\ step[w] = "lookup"
  /\ LET of == owner[digest(w)] IN
       IF Proceeds(pipeline[w], page[w], of)
         THEN Goto(w, "index") /\ UNCHANGED results
         ELSE Report(w, "duplicate", of)
  /\ UNCHANGED <<reservations, blob, doc, late, started, resent>>

LookupFails(w) ==
  /\ step[w] = "lookup"
  /\ Report(w, "failed", None)
  /\ UNCHANGED <<reservations, blob, doc, late, started, resent>>

-----------------------------------------------------------------------------
(* Store and Index                                                         *)

Store(w) ==
  /\ step[w] = "store"
  /\ blob' = blob \cup {page[w]}
  /\ Goto(w, "index")
  /\ UNCHANGED <<reservations, doc, late, started, results, resent>>

(* Mutant: a failed Store does not release the reservation.                *)
StoreFailsUnreleased(w) ==
  /\ step[w] = "store"
  /\ Report(w, "failed", None)
  /\ UNCHANGED <<reservations, blob, doc, late, started, resent>>

(* A failed Store may have left the complete blob behind.                  *)
StoreFails(w) ==
  /\ step[w] = "store"
  /\ blob' \in {blob, blob \cup {page[w]}}
  /\ Goto(w, "read")
  /\ UNCHANGED <<reservations, doc, late, started, results, resent>>

Index(w) ==
  /\ step[w] = "index"
  /\ doc' = doc \cup {page[w]}
  /\ Report(w, "indexed", None)
  /\ UNCHANGED <<reservations, blob, late, started, resent>>

(* OCR fails before the write, or the write fails or loses its response.   *)
IndexFails(w) ==
  /\ step[w] = "index"
  /\ Abandoned(w, "index")
  /\ Goto(w, "read")
  /\ UNCHANGED <<reservations, blob, doc, started, results, resent>>

-----------------------------------------------------------------------------
(* ReleaseContentDigest                                                    *)

ReleaseRead(w) ==
  /\ step[w] = "read"
  /\ IF owner[digest(w)] = page[w]
       THEN /\ step' = [step EXCEPT ![w] = "delete"]
            /\ seen' = [seen EXCEPT ![w] = seqNo[digest(w)]]
            /\ UNCHANGED <<pipeline, page, results>>
       ELSE Report(w, "failed", None)    \* absent, or someone else's
  /\ UNCHANGED <<reservations, blob, doc, late, started, resent>>

ReleaseDelete(w) ==
  /\ step[w] = "delete"
  /\ Delete(digest(w), seen[w])          \* 404 and 409 count as released
  /\ Report(w, "failed", None)
  /\ UNCHANGED <<blob, doc, late, started, resent>>

ReleaseFails(w) ==
  /\ \/ step[w] = "read" /\ UNCHANGED late
     \/ step[w] = "delete" /\ Abandoned(w, "delete")
  /\ Report(w, "unresolved", None)
  /\ UNCHANGED <<reservations, blob, doc, started, resent>>

-----------------------------------------------------------------------------
(* Faults                                                                  *)

(* A request its worker gave up on takes effect.                           *)
TakesEffect(r) ==
  /\ r \in late
  /\ late' = late \ {r}
  /\ \/ r.op = "create" /\ CreateIfFree(r.page) /\ UNCHANGED doc
     \/ r.op = "index"  /\ doc' = doc \cup {r.page} /\ UNCHANGED reservations
     \/ r.op = "delete" /\ Delete(Content[r.page], r.seq) /\ UNCHANGED doc
  /\ UNCHANGED <<blob, workers, started, results, resent>>

(* The process dies: its workers stop wherever they are, one at a time,    *)
(* perhaps with a request on its way.                                      *)
Crash(w) ==
  /\ \/ step[w] \in {"retrieve", "lookup", "store", "read"} /\ UNCHANGED late
     \/ step[w] = "reserve" /\ Abandoned(w, "create")
     \/ step[w] = "index"   /\ Abandoned(w, "index")
     \/ step[w] = "delete"  /\ Abandoned(w, "delete")
  /\ Report(w, "crashed", None)
  /\ UNCHANGED <<reservations, blob, doc, started, resent>>

-----------------------------------------------------------------------------
Work(w) ==
  \/ Retrieve(w)
  \/ Reserve(w)     \/ ReserveFails(w)
  \/ Lookup(w)      \/ LookupFails(w)
  \/ Store(w)       \/ StoreFails(w)
  \/ Index(w)       \/ IndexFails(w)
  \/ ReleaseRead(w) \/ ReleaseDelete(w) \/ ReleaseFails(w)

Next ==
  \/ \E w \in Worker, k \in Pipelines, p \in Page : Start(w, k, p)
  \/ \E w \in Worker : Work(w) \/ Resend(w)
  \/ \E r \in late : TakesEffect(r)
  \/ \E w \in Worker : Crash(w)

Spec == Init /\ [][Next]_vars

(* Goroutines are scheduled, and the calls of the workers in Answered      *)
(* return.  The client sets no deadline of its own and its transport no    *)
(* response timeout (indexer.go), so a call to a server that accepts the   *)
(* request and stays silent may never return: nothing is assumed of the    *)
(* other workers, which may stop in the middle of any call.                *)
FairSpec == Spec /\ \A w \in Answered : WF_vars(Work(w))

-----------------------------------------------------------------------------
(* Properties                                                              *)

(* Worker w is between its reservation and the end of its job.             *)
Holding(w) == step[w] \in {"store", "index", "read", "delete"}

Indexed == {r.page : r \in {x \in results : x.status = "indexed"}}

(* A page reported as indexed keeps the reservation of its digest, so any  *)
(* later page with the same bytes is a duplicate (local_pipeline.go: "A    *)
(* successful index keeps the reservation").  It holds without reindex: a  *)
(* reindex.Run whose Index fails releases the reservation of a page that   *)
(* was indexed before.                                                     *)
IndexedKeepsReservation == \A p \in Indexed : owner[Content[p]] = p

(* Two workers are never between reserve and the end of their job with the *)
(* same content, whatever requests are still on their way (without         *)
(* reindex): OCR, storage and indexing of one content are never repeated.  *)
ExclusiveProcessing ==
  \A v, w \in Worker :
    v # w /\ Holding(v) /\ Holding(w) => digest(v) # digest(w)

(* What has become of page p: it is archived, a worker holds it, or its    *)
(* caller was told of a failure or lost the process.                       *)
Visible(p) ==
  \/ p \in doc
  \/ \E w \in Worker : Holding(w) /\ page[w] = p
  \/ \E r \in results : r.page = p /\ r.status \in {"failed", "unresolved", "crashed"}

(* No content vanishes between submitters that are each told "duplicate":  *)
(* behind every duplicate verdict there is a page with the same bytes that *)
(* is archived, still being processed, or visibly failed; or one whose     *)
(* create was re-sent, for that page may have been told that it is a       *)
(* duplicate of itself, with nothing archived and nobody at fault.         *)
DuplicateIsTraceable ==
  \A r \in results :
    r.status = "duplicate" =>
      \E p \in Page : Content[p] = Content[r.page] /\ (Visible(p) \/ p \in resent)

(* A reservation without a document and without a worker is left behind    *)
(* only by a crash, by a reserve or release request that failed and was    *)
(* logged, or by a create that was re-sent: ordinary storage and indexing  *)
(* failures clean up after themselves (docs/backup-restore.md,             *)
(* "Interrupted ingestion").                                               *)
ReservationsAccountedFor ==
  \A d \in Digest :
    LET p == owner[d] IN
      p # None =>
        \/ p \in doc
        \/ \E w \in Worker : Holding(w) /\ page[w] = p
        \/ \E r \in results : r.page = p /\ r.status \in {"unresolved", "crashed"}
        \/ p \in resent

(* A release removes a reservation only of the page it was called for,     *)
(* even if the delete arrives after that reservation was dropped and the   *)
(* digest taken by somebody else (ReleaseContentDigest's compare-and-      *)
(* delete): for every delete still to come, a match means same owner.      *)
PendingDeletes ==
  {[page |-> page[w], seq |-> seen[w]] : w \in {v \in Worker : step[v] = "delete"}}
    \cup {[page |-> r.page, seq |-> r.seq] : r \in {x \in late : x.op = "delete"}}

DeletesOnlyOwn ==
  \A q \in PendingDeletes :
    LET d == Content[q.page] IN Matches(d, q.seq) => owner[d] = q.page

(* A page reported as indexed by a pipeline with a blob storage can be     *)
(* fetched and reindexed: the blob is stored before the document exists.   *)
(* Said of runs without the unstored pipeline, whose pages have no blob.   *)
IndexedIsStored == Indexed \subseteq blob /\ doc \subseteq blob

(* No reservation stays in limbo: in the end its page is archived, or it   *)
(* is gone, or a crash or a failed cleanup was reported for its page, or   *)
(* its create was re-sent, or a worker holds it whose call never returns.  *)
ReservationsSettle ==
  \A d \in Digest, p \in Page :
    owner[d] = p ~>
      \/ owner[d] # p
      \/ p \in doc
      \/ \E r \in results : r.page = p /\ r.status \in {"unresolved", "crashed"}
      \/ p \in resent
      \/ \E w \in Worker \ Answered : Holding(w) /\ page[w] = p

(* The pipeline implements the abstract claims of ContentClaims.           *)
Claims == INSTANCE ContentClaims WITH claim <- owner, acked <- Indexed
ImplementsClaims == Claims!Spec
=============================================================================
