# Verification of odi

odi scans paper documents, runs OCR on them, and keeps them searchable: pages in
a blob storage, documents and digest reservations in OpenSearch. This directory
holds TLA+ models of the parts where several processes, requests or failures
meet, TLC runs that check them on small instances, and proofs for every
instance.

    tlc -config pipeline_core.cfg MCPagePipeline      one run
    tlapm PagePipelineProofs.tla                      one module of proofs

`PROJECT.json` lists the components, the runs, the code lines behind every
definition, the mutants that show each property can fail, and the hazards.

## The system

| Component | State | Operations | What makes it correct |
|---|---|---|---|
| Digest reservations (`pkg/indexer/dedupe.go`) | an index from content digest to document ID, with sequence numbers | reserve (create if absent, look up the owner), release (read, delete with `if_seq_no`) | one content is processed once; a release removes only its own reservation; nothing is left reserved without cause |
| Page pipelines (`pkg/ingestor/local_pipeline.go`, `internal/server/upload.go`, `pkg/reindex`, `internal/cli/pdf.go`) | the step each page is at; blobs; documents | reserve, store, index, release on failure | no content vanishes behind "duplicate" answers; a document has its blob; a failure releases |
| Remote client (`pkg/ingestor/remote.go`) | buffer, batches on their way, idle timer, pending error, `mu` and `flushMu` | ProcessPage, Flush, Close, the timer's callback | no page is lost without an error, none is sent twice, bounds, one scan per upload |
| Scan (`pkg/ingestor/ingest.go`) | channel, worker pool, counters | ScanPages | success means that the server has answered for every page, as archived or as a duplicate; it ends |
| Reindex job (`internal/server/reindex.go`) | a process lock, the status, the goroutine | POST starts, GET reads, shutdown cancels | one job at a time; the status is its own; completed means complete |
| Share links (`internal/server/shares.go`) | share records in OpenSearch | create, revoke, serve with a counted view | views limited and counted; nothing after revocation or expiry |
| Indexer (`pkg/indexer`) | OpenSearch indices, documents | OCR, classify, write the document, create indices | startup works from several processes; what a document says is of its text |
| Storage (`pkg/storage`, `pkg/crypt`) | files or encrypted B2 objects | store, retrieve, delete, list, thumbnails | a page is there whole or not at all, whatever fails; what is listed can be retrieved |
| OCR client (`pkg/ocrclient`) | semaphore, retries | Process | bounded concurrency, no slot lost; a retry is the same request; calls end |
| Thumbnails (`internal/server/thumbnail_processing.go`) | a process lock, a scroll | hourly or requested batch | one batch at a time, its result accounts for every document; a thumbnail is sent whole |
| Watch folder (`pkg/watcher`) | pending timers, `.done` | events, timers, Stop | no event is lost: after the last one a file is looked at |
| Search and analysis API (`internal/server/{handlers,insights,reminders,similar,export,chat,summary}.go`) | none of its own | insights and export over a scroll; summaries; reminders; queries; tag updates | an answer is that of one state of the index, each document counted once; nothing derived outlives its text |
| Server lifecycle (`internal/cli/serve.go`, `internal/server/server.go`) | attempts, worker context, listener | initialize, verify, Run, shutdown | a server comes up unless a dependency fails; requests drain, workers stop |
| OCR text (`pkg/ocrtext`) | none | GetText | the text is in reading order |
| Browser upload (`frontend/src/composables/useUpload.ts`) | chunk, attempt, cancelled, combined result | upload, abort, the backoff's timer | a retry repeats nothing; the result is whole; a cancel is final |
| Browser search (`frontend/src/composables/useSearch.ts`) | generation, timer, scroll, results, spinners | search, debounced search, load more, clear | the newest search wins; pages in order; spinners end |
| Company register, language model, CLI wiring, views | little or none | | pure data or I/O |

How they meet: `odi ingest` runs ScanPages, whose workers call a backend. The
local backend runs a page pipeline; the remote backend uploads batches to the
upload handler of another odi, which runs one pipeline per page. All pipelines,
of all processes, meet in the reservation index; nothing else coordinates them.
The reindex job runs the reindex pipeline over what the storage lists, next to
uploads. Share links and documents only share OpenSearch. The browser sends files
in chunks to the upload handler, which does not know attempts apart: only the
page IDs of a scan and the reservations do. Its searches read cursors that
OpenSearch keeps and every request for more moves on.

What is hard: pipelines of several processes interleave at every request;
a request whose answer is lost may have taken effect or take effect later;
OpenSearch's client sends such a request again by itself and tells nobody;
processes die between two requests; the remote client releases its lock
around uploads and hands errors from a timer to later callers; the share
endpoint looks at a record, computes for a while, and then takes a view with a
script whose condition must be enough; a browser gives requests up that the
server goes on to handle, and so does the OCR client; a walk over the index takes
minutes while the index changes; a file is written in steps that may each be the last.

## The modules

**PagePipeline** (`dedupe.go`, the four pipelines). `owner`, `seqNo` and
`nextSeq` are the reservation index, `blob` and `doc` what is stored; each
worker has a `step`, and one action is one request: `Reserve` is the PUT with
`op_type=create`, `Lookup` the read after a 409, `ReleaseRead` and
`ReleaseDelete` the two requests of `ReleaseContentDigest`. The `...Fails` actions are
the same requests with an error; through `Abandoned` such a request may remain in `late`
and take effect at any later time (`TakesEffect`). `Resend` is opensearch-go inside the call of the
PUT: when the answer is lost it sends the create again, which then conflicts with itself, and the caller is told
of a duplicate; `resent` is the history of the pages to which that has happened. The other requests may be
repeated without a difference: a delete that finds its write gone counts as done. `Crash` stops a worker
anywhere. `Answered` are the workers whose calls all return. The pipelines differ in `AfterReserve` (only scan and upload store a
blob), `Proceeds` (only reindex goes on with its page's own reservation) and
`Start` (only an upload can name a page ID that was used before). The history `results`
holds what callers were told.

**ContentClaims** is what the reservations promise, without requests, workers
or failures: a content is claimed by at most one page, a claim is
given up or acknowledged, and an acknowledged claim stays. PagePipeline without reindex
implements it under `claim <- owner`, `acked <- Indexed`.

**RemoteBackend** (`remote.go`). `mu` is never held across an upload, so a
critical section of it is one action, up to the next unlock or the next upload:
`Call`, `Enter`, `LeaveForChange`, `Relock`, `AppendPage` are ProcessPage's; `LockFlush`
takes `flushMu`, which a thread holds across its upload. The idle timer has
generations: `IdleFires` moves a generation to `fired`, and `IdleCallback`
may run long after a Stop. `owed`, `reported`, `handled` are history. A page is handled when the server has
archived it or found it to be a duplicate, which a 2xx answer does not tell apart. What lies in the buffer of a
closed backend is `Stranded`: ProcessPage does not look at `closed` again after it has
waited for a flush, so it may append there with no timer running.

**PageDelivery** is what an upload client owes its callers, without buffer, batches, timer and locks: a page
waits and leaves in one attempt; that attempt delivers it, or fails, and the failure is told or remembered until
it is; a page is acknowledged while it waits or with its delivery. RemoteBackend implements it under
`waiting <- UnderWay`, `lost <- owed`, `failed <- flushErr \/ previousErr`.

**RemoteScan** (`ingest.go`) instantiates RemoteBackend with the pool of ScanPages: the
producer, the channel of bounded length, the workers, cancellation, and
the final Flush. One `odi ingest` performs one scan; the model runs a
sequence of them over one backend, which the package allows.

**ReindexJob** (`internal/server/reindex.go` and the loop of `reindex.Run`).
`lock` is `reindexProcessMu`, taken in the handler, released by the goroutine. `RunPage` enters the calls for a page
and `PageDone` is their end, which nothing guarantees before the job is cancelled, for they have no deadline.
Every update of the status is one action, as it is under `reindexStatusMu`. A page is
indexed, a duplicate or failed; how it came to be so is PagePipeline's.

**Shares** (`shares.go`). `stored`, `revoked`, `views` are the records. A
request loads the record, checks it, spends any time in the passphrase hash,
reads the clock again, asks for a view with the scripted update (`Reserve`, whose
condition for doing nothing is `Noop`) and delivers the page. The answer of the update may be lost; OpenSearch's client then
may send the update again (`ReserveAgain`, at most `ClientRetries` times for a request), and the script takes another
view or, if that was the last one, refuses the very request that took it.
`now` is the wall clock; `ensureSharesIndex` runs before each creation: it asks whether there is an index, and creates
it when the answer is no ("index") or none came ("unsure"); its creation may be sent again as well, and then refuse itself.

**ShareGrants** is what a share link promises, without a database, records loaded earlier or answers on the way:
whoever showed the passphrase before the deadline is admitted at one instant at which the share is open and a view is
left, and that view is gone. Views may also be lost with nobody admitted (`WasteView`). Shares implements it under
`passed <- Passed` (the requests that are past the check and have read the clock) and `admitted <- Admitted`; the instant
is the script's last run for the request, and runs before it waste a view each.

**Uploads** (`useUpload.ts` with `handleUpload`). `Begin`, `Answered`, `Broken`,
`Refused` and `BackoffEnds` are the loop of `upload` between two awaits, `Abort`
is `abort`. Each request that arrives adds to `handlers`, which runs on when
the client has given it up; its pages take the steps of ContentClaims (`Claims` is
`C!Claim`), so this module stands on what PagePipeline was shown to
implement. `Drop` adds a file to the list, which the view allows during an upload.

**SearchView** (`useSearch.ts` as HomeView and CommandPalette use it). `generation`
is the code's counter; `Search` is `search` up to its await, and
`SearchAnswered`, `SearchFailed`, `MoreAnswered`, `MoreFailed` and `LateAnswer` are what
comes after one. `scrolls` are the server's cursors: `HandleMore` moves one on even
for a request whose answer nobody waits for, and `ScrollAgain` moves it on a second time for one request, when the
answer of OpenSearch is lost on its way to the server, whose client asks again. `wanted` is history: what
the user asked for last.

**PageStore** is what a storage promises (`pkg/storage/model/interface.go`), without
files, requests or retries: `stored[k]` is a page or nothing, `listed` is what is there, and a power loss brings back
nothing but what the key named before (`behind`), whole as well, or nothing. Pages settle at some time, one or several at
once; no call promises it. Pages that Retrieve can make nothing of (`Unreadable`) may be there from the start; no call
makes one.

**FsStore** (`pkg/storage/fs/fs.go`) takes Store apart into its system calls: make the
scan's directory, create the temporary file, copy block by block, Sync, Close, Rename, sync the directory, each of which may
fail. `trouble` is `copyErr`, `syncErr` and `closeErr`, which are looked at together. `Kill` ends the
process between any two calls and leaves its temporary files (`litter`); `PowerFails` also takes back what
was not synced. `scanDir` is the scan's directory: Store syncs it, but never the
storage directory that has its entry, so a new one is on the disk only when the kernel has written it back (`WriteBack`,
external), and until then a power loss may take it with every page in it (`DirLost`). `FsImplementsStore` is PageStore under `stored <- FsStored`, `behind <- FsBehind`.

**B2Store** (`pkg/storage/b2/b2.go`, `pkg/crypt/odicrypt.go`). A `Put` declares the length of its
stream; a try that breaks leaves the reader where it is, and the next try goes on from there. That no such
try can succeed is the length check of `net/http` (`Accepted`), which is external. Objects are of the new
format, or of the old one with a nonce in place of the version byte. An old nonce may begin with that very byte: the
object is then listed, and Retrieve fails (`Unreadable`). Thumbnails live in the same
bucket under longer names, and are none of the pages that ListPages lists.

**Thumbnails** (`thumbnail_processing.go`, `handleGetThumbnail`). `batch` is
`processMissingThumbnails`: the scroll's snapshot, the place in it and the counts. `IndexPage` and `UploadMakes`
are the end of an upload, `AskExists` to `SendGenerated` the read of a thumbnail that may have to be
made. TryLock keeps out other batches only.

**Watcher** (`pkg/watcher/watcher.go`). A timer is `armed`, then `fired` (its function waits for `mu`),
then a call of `processFile` runs. `pending` is the code's map; `Begin` deletes the entry of its path, which may be
that of a newer timer. `due` is history.

**Startup** (`serve.go`, `indexer.go`, `server.go`). Processes start against one OpenSearch:
`Initialize` has the two calls of `createIndex`, each for both indices, `AttemptFails` the retries of
`initializeIndexer` (servers only), then `verifyOpensearch`, the worker, the listener, the signal and the
shutdown. `outage` is history: which process a dependency has failed.

**Insights** (`insights.go`) and **Export** (`export.go`) are requests that walk a scroll:
`asked` and `matching` are the snapshot it shows, while `ChangeIndex` and `Others` change index and storage; the index
of Insights starts empty. `Effective` is `effectiveDateRange`. `DrainHit` adds one hit of the page to the accumulator
(`Add`), whose total and count are one more dimension, "all"; `Unread` are the hits that the scroll has still to
show, and `ScrollInsights` asks for the next page once this one is full or nothing is left.
Export retrieves a page of hits side by side, at most `Retrievals` at once, in any order of completion;
`results` has a slot for each hit (`Slot`), and `Archive` is one turn of the loop that writes what the slots have.

**Documents** (`Indexer.Index`, `summary.go`) is one page's document: Index writes it whole, a
request for its summary reads it, asks the model, and updates whatever is there by then. `since` and `raced` are
history: the document was written between the request's read and its update.

**Reminders** (`reminders.go`) has one handler, `HandleReminders`: what the query finds, which of
it OpenSearch returns, the date shown and the order. The sort is described by its outcome (`ByDueDate`), for
the hits come in any order. `upToDate` is history: no document has changed since the list was shown.

**OcrClient** (`pkg/ocrclient/client.go`). `Acquire` takes a slot of `sem` and makes the idempotency
key; `Submit` is one request through `checkIP`, whose failures are told apart as
`isRetryableErr` and the status tell them; `Retry` keeps the key. A request that the client
gave up stays in `arrived`, and `Recognise` may come to it at any later time. `Release` is the deferred one.

**OcrText** (`pkg/ocrtext/text.go`). `GetText` puts blocks in columns and sorts twice;
`Insert` is the insertion sort that `sort.Slice` is for up to twelve elements, with the code's `Less`.

Modules `MC...` give constants their values for TLC. Three of them compose components that
share no variables (MCClients, MCCalls, MCServer): a variable `focus`, chosen at the start, says which component
moves, and the others stay in an initial state. Since no property of one
component reads a variable of another, each is checked over all behaviours of its component, and the
state space is the sum and not the product. In every module the
operators under a "Mutant:" comment are wrong variants of the definition
after them, used only to show that a property notices.

## The runs

| Run | Question | Instance |
|---|---|---|
| pipeline_core | Without reindex: is one content processed once, does an indexed page keep its reservation, are the claims of ContentClaims implemented? | 2 workers, 2 pages with the same bytes, 3 jobs, 3 pipelines |
| pipeline_reindex | With reindex: are duplicates traceable, reservations accounted for, deletes own, documents backed by blobs? | the same with scan, upload, reindex |
| pipeline_settles | Does every reservation end in a document, a release, a reported failure or behind a re-sent create? | 2 workers of which one may hang, 3 jobs, fairness |
| reindex_drops | *Violation.* A failing reindex of a page that is already indexed releases that page's reservation. | 1 page |
| remote_threads | Two goroutines, timer, Flush, Close, failing uploads: is a page sent twice? Is PageDelivery implemented, which does not forget an error? Does a buffered page always leave the client? | 4 pages, 2 scans, fairness |
| clients | RemoteScan: does a nil result of ScanPages mean that the server has answered for every page; is a page lost without an error, or left behind in a closed backend; are the scans of ScanPages apart; does it return? Uploads: does an ID stand for one file, is a result whole, are bytes archived once, is a cancel final? SearchView: does the newest search win, do pages come in order, do the spinners end? | 2 scans, 2 workers; 3 files, 2 contents, chunks of 2, 2 attempts; 4 queries, 1 or 3 pages of hits, 3 generations, 2 further pages; fairness |
| calls | ReindexJob: one job at a time, a status that only advances, completed only when whole; every job ends. OcrClient: are slots accounted for, is work done once for each call, does every call end? | 2 clients, 3 pages; 2 goroutines for 1 slot, 2 retries, 2 addresses of which 1 is refused; fairness |
| server | Shares: may a page be delivered without a counted view or beyond the limit; is ShareGrants implemented? FsStore, B2Store: do both implement PageStore? Thumbnails: does a batch account for every document? Watcher: is an event lost? Startup: does a server come up? Insights, Export: is the answer that of the index as it was asked? Documents: how may a summary be stale? Reminders: is the list complete and in order? | 2 shares, one of them for 1 view, 2 requests, each sent again once at most; 2 writers, 2 blocks; 2 callers, 1 retry, an old nonce of either kind; 3 documents, pages of 2; 2 paths of one name, 3 writes; a server and a command, 3 attempts; 4 papers of which 3 at a time, pages of 2; 4 items, pages of 3, a limit of 3; 2 goroutines and 2 requests; 3 documents, 2 dates, a search size of 2 |
| shares_first | *Violation.* Two first shares at once, no call fails and both are told that there is no index: one is refused. | 2 shares |
| thumbnail_empty | *Violation.* A thumbnail made for the request that asks for it is sent empty. | 3 documents |
| ocr_timeout | *Violation.* A timeout ends a call that has retries left. | 2 goroutines |
| text_order | *Violation.* Three blocks of a column are written with a lower one before one clearly above it. | 3 blocks, 3 tops, 4 lefts |

No run checks for deadlock as such: every one has a bound on jobs, calls or time that is used up at the
end. That nothing blocks is what ScanEnds, JobEnds, CallsEnd, IdleFlushes, ReservationsSettle and
SearchSettles say.

**Why these bounds.** Digests do not interact, so one digest with two pages is
the whole conflict; a third page behaves as the second. Two workers give every
order of two sets of requests, and three jobs let a page be uploaded, released
and reindexed while a late request of the first job is still out. `MaxPages` and `MaxBytes` of the remote client are 3 and 4 so that both limits
are met exactly and crossed, with a page that makes the batch full by size (remote_threads). The timer's
`MaxGeneration` of 2 lets the callback of an old timer meet a newer one. One view with two
requests makes the last view contested and then refused, and two shares keep a limit
from being met with another share's views; one update sent again is enough to take two views, or the last one from
its own request. Three pages let a job
be cancelled before, between and after pages. Three files in chunks of two make a
whole chunk, a short one and a list that grows in between; two attempts are the
least with a retry, and the third file repeats the bytes of the first, so that
a page meets both its own earlier copy and another page. One call of `upload` is
enough, for a second has a scan ID of its own and meets the first only in the
reservations, where PagePipeline has pages of several jobs meet. Three generations let two old
answers arrive after the newest search, and two further pages make the order of loads
matter. One page under one key is all of a storage, for keys do not interact but in the listing, and
two writers of it with two different pages of two blocks make a torn page, a page of two and an overwritten one
possible; one retry is the least that goes on with a used reader. One slot for two goroutines makes every lost or
doubled slot show; with two retries the last one is told from the others. Three documents in pages of two
make a full page, a rest and the empty page after it; papers and items likewise, with one item beyond the
limit, and the three documents of the reminders are one more than the search finds. Two paths with one name meet in `.done`, and three events let a timer be stopped, replaced and
deleted by an older one. A command beside a server is enough to take both indices from it, and three
attempts are what the code has.

## Fairness

Weak fairness of each worker's or goroutine's own steps: the Go scheduler runs
what can run (a step and its failing variant are one fair action: nobody
assumes that a request succeeds). Whether a call ends at all depends on the part:

- Pipelines: the OpenSearch client of the indexer is a bare `http.Transport` without a response timeout
  (`indexer.go:118`), and the contexts of jobs and workers have no deadline, so a call may hang for ever. Only the workers of
  `Answered` are fair; ReservationsSettle excepts what a worker holds whose call never returns.
- ReindexJob: for the same reason a job in a call owes nothing until `workerCtx` is cancelled, at shutdown (`InCall`).
  JobEnds says that a job ends if it does not hang in one call, or once it is cancelled. A hung call keeps
  `reindexProcessMu` until then.
- Remote client and OCR client: an upload ends because the client has a timeout of two minutes
  (`remote.go:106`), an OCR request because it has one of 60 seconds.
- SearchView: that a fetch resolves or rejects is assumed of the browser; the code itself sets no timeout.
  SearchSettles says that no spinner stays for another reason.

Timers fire. Nothing is assumed of clients:
starting a job, posting, scanning and closing are not fair, nor is the late effect
of a request or a crash.
The acquisition of an OCR slot is strongly fair: goroutines that wait to send on a channel are
served in the order in which they came, so one of them cannot be passed over for ever.
That the context of a caller ends, and that the server comes to a request, is not assumed.
In MCClients and MCCalls no fair action of a component is enabled in its initial state, so
fairness demands nothing of those that do not move.

## What is proved

`PagePipelineProofs`, for any pages, digests, workers and number of jobs:

- `TypeCorrect`.
- `ClaimsSafe`: without reindex, IndexedKeepsReservation and ExclusiveProcessing.
  Neither is inductive: a release under way could remove a reservation
  that was made since. `ClaimInv` adds that a worker between reserve and the end of its job
  owns its reservation, and that no delete, of a worker or late,
  can match an acknowledged reservation or one that another worker holds. That
  rests on sequence numbers never being handed out twice.
- `OneIndexedPerContent`: at most one page per content is reported as indexed.
- With reindex too: `ReleasesOnlyOwn`, `NoneLeftBehind`, `DuplicatesTraceable`, from `AccountInv`: each
  reservation belongs to a page that is archived, to a worker that will release the very write it stands for,
  to a page whose caller was told that it may be left over, or to one whose create was re-sent; and what caused a conflict stays visible until the
  loser has looked it up.
- `BlobsComeFirst`: IndexedIsStored, without the pipelines that have no storage (`odi pdf`); the theorem
  says so in its hypothesis.
- `ClaimsImplemented`: every step is a step of ContentClaims or leaves its
  variables alone.

`SharesProofs`, for any shares, requests, limits and times:

- `TypeCorrect`, and `RevocationStays`: no step changes a revoked record.
- `RevocationHolds` and `ExpiryHolds`, which no run checks since ShareGrants says as much: `BarInv` and `ExpiryInv` say of a
  request at each place what it has established; the conditions in the script are what makes
  them inductive, since the record loaded earlier may be out of date.
- `ViewsHold`: the number of requests with a counted view never exceeds the
  counter, and the counter never exceeds the limit.
- `HandlersImplementGrants`: each step of a handler maps to one of ShareGrants or to none; a run of the script that its
  client sends again wastes a view. The step that
  takes the view needs `ExpiryInv`: the script compares the deadline with a time that came with it, and the
  invariant says that this is the time at which the passphrase had been shown.

`CallsProofs`, for any clients and number of pages: `OneJob`,
`StatusOfJob`, `CompletedWhole`, `StatusOnlyAdvances`, all from `JobInv`, which
says that the lock names the one client whose goroutine exists and what that
goroutine's own counts and the status have to do with each other at each place. And for any goroutines,
slots, retries and calls of OCR: `SlotsHold`, by the number of those that are past
acquire; `WorkIsOnce`, since a key belongs to one call of one goroutine (`KeyInv`) and what was
recognised is told apart by its key.

`RemoteProofs`, for any number of goroutines, pages, timer generations and scans:

- `TypesHold`: with the types goes which thread has a batch, holds flushMu or waits with a page at which
  place (`Placed`).
- `NothingLostInSilence`: NoSilentLoss, with the exception of what is left in a closed backend (`Stranded`), which
  no run checks but inside ScanLosesNothing. Every step moves a page from one of the places where it counts to another. The
  step that needs the invariant is the one that clears `flushErr`: the error is then returned, or is kept
  in `previousErr` by the one thread that holds flushMu.
- `SendsOnce`: not inductive, for a worker could come with a page that is under way. `FreshInv` says what a
  worker's page is not at each place: another worker's, one that is under way, one that has come back.
- `DeliveryImplemented`: each step is one of PageDelivery or leaves its variables alone. `FreshInv` makes the
  appended page a new one and keeps the batches apart, so that an upload takes away its own pages only; and
  the flush that clears `flushErr` is a step of nobody, since `previousErr` has taken its place.
- `NilIsHandled`, `UploadsOfOneScan`, `ScansLoseNothing`: of RemoteScan; the last one has no exception, for
  ScanPages closes nothing while its workers run. `ScanInv` follows a page from the
  scanner to the server: unless something keeps the scan from returning nil (`Fault`), each page of the
  current scan is still to be sent, queued, with a worker, under way or handled (`Accounted`); and between
  two scans nothing moves (`Quiet`): no page, no timer, and only callbacks that find themselves outdated.

`UploadsProofs`, for any files, chunk size and number of attempts: `IdsAreFiles`, since in every
handler the ID of a page is the place of its file in the list (`PagesTraced`), and
`CancelFinal`, since no request is waited for once `cancelled` is set. `WholeResult`: `WholeInv` says
that the chunk under way is cut from the list at `start`, that the answer that is waited for is about that chunk,
and that until the last chunk there is a verdict for each file before `start`. `OncePerContent`: a page
that has reserved its content holds its claim until it fails (`ClaimsInv`), whichever attempt it is of.

`SearchViewProofs`, for any terms, filters, numbers of hits and requests:
`TypeCorrect`, `Newest` and `PagesStayInOrder`. What an answer may put on the screen depends on when its request was
sent, so the invariant has to say of every request that its generation is not to come and that its
cursor is one of its query (`RequestsTraced`), and of those of this generation that
they are of the query asked for last (`Asked`). For the order of the pages `PagesInv` ties the
list to the cursor on the server: it is past what is shown and what is on its way, and just past it unless a
request for more of that scroll has failed or was sent on again by the server (`ScrollShown`).

`StorageProofs`, for any pages, writers, block counts and retries:

- `FilesImplementStore`: `FsInv` says that whatever a name stands for, or may stand for again after a power
  loss, is whole and synced; a temporary file is so only between the check and the rename, which is why
  `trouble` has to be tied to the step; and a directory that was there before holds all that it should (`scanDir`).
  A new directory that a power loss takes with it maps to the nothing of PageStore.
- `BucketImplementsStore`: what the bucket has can be decrypted, and a Put that the
  client accepts has the whole page. Nothing is assumed of old nonces: an object whose nonce begins with the version
  byte is `Unreadable` in PageStore too, where it can be there from the start, be overwritten and deleted, and comes about by no
  call.

`ServerProofs`:

- `ServersDoComeUp`, for any number of processes and at least three attempts, because each lost
  attempt of a server that no dependency failed is the creation of one of two indices by someone else (`LossesBounded`).
- `SummaryIsOfText`, for any texts, goroutines and requests; `EventsAreKept`, for any paths and timers.
- `BatchesAccount`, for any documents and page size: at each step of the walk the three counts add up to the
  place in the scroll, and of the documents before it no more than were counted as failed have no thumbnail (`ThumbInv`).
- `ExportsAreExact`, for any documents, page size, concurrency and limit: `ExportInv` says that a retrieved hit is in
  its own slot or skipped, that the manifest lists the hits that the loop has come by, in order, and that the count of
  hits is that of the pages so far, which is why the limit holds before anything is retrieved.
- `RemindersAreExact`, for any documents, dates and search size: in number they are what matches or the search size, whichever
  is less. That there is a soonest date in the window is `LeastOf`: each set of
  naturals has a least one, shown without induction, by counting.
- `FiltersLetThroughWanted`: the range that `effectiveDateRange` makes and the year that the accumulator looks at again let
  a document through exactly when the parameters of the request together want it.
- `InsightsAreExact`, for any papers, dimensions, amounts, dates, page sizes and filters: `InsightInv` says that each
  sum is the one over what is wanted up to the place in the scroll (`Partial`), and that a request is answered only when
  nothing is left or its range is impossible. `SumTo` is a recursive function; that it has a value, and that one wanted
  paper more adds its amount (`SumGrows`), is shown by the least number at which it would fail (`UpTo`), in
  place of an induction.

Assumptions are the named ASSUMEs of the modules: the constants have their
types and None, NoItem and the like are not among the things they stand in for; documents are finite in number;
the pages of one call of ScanPages are of one scan, as the scanner's are (`SessionsAssumption`).

Only model-checked: all liveness (ReservationsSettle, IdleFlushes, ScanEnds,
JobEnds, CallsEnd, SearchSettles), which the proof system does not do. Every other property of a passing run is
stated by a theorem. OcrText is data throughout and left to TLC.

The type invariants of the modules that `clients`, `calls` and `server` compose (`ScanTypeOK`, `FsTypeOK`,
`ThumbTypeOK` and so on) are written for the reader and hold in these runs; they are not among the properties of the
cfgs, those that a theorem states excepted.

## What the models abstract

Bytes, OCR text and documents are identities; a digest stands for the bytes
(SHA-256 does not collide here). OpenSearch is linearisable per document, as its
realtime get and versioned writes are. A storage call is one step that succeeds or
fails, perhaps having had its effect. Tokens of shares cannot be guessed.
A scroll of OpenSearch shows the state of its search, one page at a time. The client of OpenSearch makes an error
of every status from 400 on, so the branches of the code that look at a status themselves are never
taken where the client has (`createIndex`, `handleDocumentSummary`). Times are small numbers, dates of Insights two to a
year; amounts are what `parseAmount` yields; metrics, logs and wording are left out. The `components` in
`PROJECT.json` say for each part what is not modelled and why.

## Findings

Each is a run that ends in a violation; `PROJECT.json` quotes the lines.

- reindex_drops: a failing reindex releases a reservation that a successful
  index made, against the comments of `processLocalPage`.
- shares_first: `ensureSharesIndex` refuses one of two first shares.
- thumbnail_empty: the first request for a missing thumbnail is answered with 200 and nothing, since
  the buffer was read to its end by StoreThumbnail and cannot be rewound.
- ocr_timeout: a request that times out is not retried, since its error is also a
  `context.DeadlineExceeded`, against the comment of `isRetryableErr`.
- text_order: the order of the blocks of a column is not transitive, so three of them may come
  out with a lower one first.

Seen while modelling, without a run: a page that is uploaded again is told that
it is a duplicate of itself, for `duplicateOf` is its own ID; a wrong
passphrase is answered 404 where `docs/openapi.yaml:839` has 403, and revoking
an unknown token 500 where line 802 has 404; a file that is dropped into the list while
a chunk shorter than 25 is on its way may be passed over, since `start` advances by 25 whatever
the chunk's length (ResultIsWhole promises the files selected at the start); a
page of hits whose answer is lost is never shown, since its scroll has advanced, and the same happens unseen when
the server's own scroll request is sent again (PagesInOrder allows these two gaps and no other);
a create of a reservation that OpenSearch's client re-sends conflicts with itself, so a page that
nobody has archived is reported as a duplicate, of itself, and its bytes are refused from then on (`indexer.go:116-128`,
`dedupe.go:77`, `resent`); a batch of the remote client with such a duplicate is a success like any other
(`remote.go:280`), so a nil of ScanPages says of each page that it is archived or taken for a duplicate, and no more;
a request for a share of one view uses it up and is refused when the answer of its update is lost and the update
sent again (`shares.go:447`), and a re-sent creation of the index of shares refuses itself; a reindex whose
call hangs keeps its lock until shutdown; a page that ProcessPage accepts while Close runs stays in the
buffer unsent and without an error unless another Flush comes (`remote.go:158-178`, against the comment of
line 204 that further pages are refused; ScanPages never closes so early, which is ScanLosesNothing);
a page of a new scan is not durable when Store returns, for the directory it makes is not synced into its own (`fs.go:57`),
although the comment of `fs.go:92` has the rename durable; the remote backend used by two goroutines with
pages of two scans may send them as one (ScanPages never does that, which is ScansApart); an old encrypted
object whose nonce begins with byte 1, as one in 256 does, is taken for the new format, so it is listed and cannot be read; `odi reindex` lists with ListFiles
(`internal/cli/reindex.go:81`), which takes the thumbnails in a B2 bucket for pages of sequence 0 and counts
them as failed; a reindex drops the summary and the key facts of a document, and with them its
amounts from the insights and its due date from the reminders; a summary that
races a reindex stays that of the older text (`raced`); amounts of different currencies are added up under
the first one's name; a due date of the key facts is shown wherever it falls, also outside of the window;
with more than 200 documents in the window the search, which is not sorted, may leave out any of them, the soonest included,
where `reminders.go:73-75` promises the documents of the window; an
export counts the documents that match against its limit, also those it cannot retrieve; Stop of the
watcher stops no timer, so a file may be processed after it has returned, and it waits for ever if
Start was never called; when two commands start at once on an empty OpenSearch one of them fails.

## Not modelled

The company register and the language model client are text matching and calls of services; search, facets, tags,
similar documents and chat build one query or prompt each and shape its answer; the views render. Of the
frontend's other state, `useArchiveSearch` and `useDocuments` repeat the protocol of `useSearch`, and the rest
reads and writes single values. Explicit `sequenceIDs` of an upload, the
grouping of barcodes and dates, and the pool of `odi index` are operations of modelled parts that are left
out. `components` in `PROJECT.json` has the list.

## Plan

Done: digest reservations and pipelines, remote client and scan, shares, reindex
job, browser upload and search, both storages, thumbnails, watch folder, OCR client, startup and shutdown,
insights, export, documents and summaries, reminders, OCR text. Left, in this order:

1. The explicit sequence IDs of uploads, and the pool of `odi index`.
2. What a reindex job and an OCR call promise, as specifications of their own.
