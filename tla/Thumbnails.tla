----------------------------- MODULE Thumbnails -----------------------------
(***************************************************************************)
(* The thumbnails (internal/server/thumbnail_processing.go, the thumbnail  *)
(* handlers of handlers.go, pkg/thumbnailer).  A batch, asked for by the   *)
(* hourly ticker or by a request, walks the indexed documents over a       *)
(* scroll and makes the thumbnails that are missing; an upload makes those *)
(* of its pages, and a read one that is not there yet.  The batch's lock   *)
(* keeps out other batches only.                                           *)
(*                                                                         *)
(* OpenSearch is external: a scroll shows the documents as they were when  *)
(* it was opened.                                                          *)
(***************************************************************************)
EXTENDS Integers, Sequences, SequencesExt

CONSTANTS
  Doc,          \* documents, by ID
  Odd,          \* documents without a scan ID or a positive sequence number
  NoImage,      \* pages that cannot be decoded, or are gone from the storage
  HitsPerPage,  \* thumbnailProcessingBatch
  MaxReads      \* bound: thumbnails that are read at once

(* The index holds a finite number of documents.                           *)
ASSUME ThumbAssumption ==
  /\ IsFiniteSet(Doc) /\ Odd \subseteq Doc /\ NoImage \subseteq Doc
  /\ HitsPerPage \in Nat \ {0} /\ MaxReads \in Nat

VARIABLES
  indexed,   \* documents of the index, in the order a search returns them
  thumb,     \* pages that have a thumbnail
  batch,     \* the running batch
  uploading, \* uploads that are about to make a thumbnail
  reads,     \* reads[d]: where a request for the thumbnail of d is
  body       \* what the last such request was answered with

thumbVars == <<indexed, thumb, batch, uploading, reads, body>>

ThumbCounts == [checked : Nat, existing : Nat, generated : Nat, failed : Nat]
NoneYet == [checked |-> 0, existing |-> 0, generated |-> 0, failed |-> 0]

ThumbTypeOK ==
  /\ indexed \in Seq(Doc) /\ thumb \subseteq Doc
  /\ batch.step \in {"idle", "hit", "make", "scroll", "done"}
  /\ batch.snapshot \in Seq(Doc)
  /\ 0 <= batch.at /\ batch.at <= batch.until /\ batch.until <= Len(batch.snapshot)
  /\ batch.counts \in ThumbCounts
  /\ uploading \subseteq Doc
  /\ reads \in [Doc -> {"no", "exists", "generated", "stored"}]
  /\ body \in {"no", "thumbnail", "original", "error", "empty"}

NoBatch == [step |-> "idle", snapshot |-> <<>>, at |-> 0, until |-> 0, counts |-> NoneYet]

ThumbInit ==
  /\ indexed \in {<<>>} \cup {SetToSeq(S) : S \in SUBSET Doc \ {{}}}
  /\ thumb \in SUBSET (Doc \ (Odd \cup NoImage))
  /\ batch = NoBatch
  /\ uploading = {}
  /\ reads = [d \in Doc |-> "no"]
  /\ body = "no"

-----------------------------------------------------------------------------
(* processMissingThumbnails                                                *)

(* The page of a scroll that begins after n documents ends here.           *)
PageEnd(snapshot, n) == IF n + HitsPerPage < Len(snapshot) THEN n + HitsPerPage ELSE Len(snapshot)

(* An empty page of hits ends the walk.                                    *)
Walks(b) == [b EXCEPT !.step = IF b.at < b.until THEN "hit" ELSE "done"]

(* TryLock succeeds, and the search.                                       *)
StartBatch ==
  /\ batch.step \in {"idle", "done"}
  /\ batch' = Walks([NoBatch EXCEPT !.snapshot = indexed, !.until = PageEnd(indexed, 0)])
  /\ UNCHANGED <<indexed, thumb, uploading, reads, body>>

Hit == batch.snapshot[batch.at + 1]

(* After a hit the next one of the page, or the next page.                 *)
NextHit(counts) ==
  batch' = [batch EXCEPT !.counts = counts, !.at = @ + 1,
                         !.step = IF batch.at + 1 < batch.until THEN "hit" ELSE "scroll"]

Checked == [batch.counts EXCEPT !.checked = @ + 1]

CountOdd == [batch.counts EXCEPT !.failed = @ + 1]

OddHit ==
  /\ batch.step = "hit" /\ Hit \in Odd
  /\ NextHit(CountOdd)
  /\ UNCHANGED <<indexed, thumb, uploading, reads, body>>

(* ensureStoredThumbnail: ThumbnailExists, which may fail.                 *)
CheckHit ==
  /\ batch.step = "hit" /\ Hit \notin Odd
  /\ IF Hit \in thumb
     THEN NextHit([Checked EXCEPT !.existing = @ + 1])
     ELSE batch' = [batch EXCEPT !.step = "make"]
  /\ UNCHANGED <<indexed, thumb, uploading, reads, body>>

MakeHit ==
  /\ batch.step = "make" /\ Hit \notin NoImage
  /\ thumb' = thumb \cup {Hit}
  /\ NextHit([Checked EXCEPT !.generated = @ + 1])
  /\ UNCHANGED <<indexed, uploading, reads, body>>

(* Mutant: an error of the storage is logged and not counted.              *)
CountFailureNot == Checked

CountFailure == [Checked EXCEPT !.failed = @ + 1]

HitFails ==
  /\ batch.step \in {"hit", "make"} /\ Hit \notin Odd
  /\ NextHit(CountFailure)
  /\ UNCHANGED <<indexed, thumb, uploading, reads, body>>

Scroll ==
  /\ batch.step = "scroll"
  /\ batch' = Walks([batch EXCEPT !.until = PageEnd(batch.snapshot, batch.at)])
  /\ UNCHANGED <<indexed, thumb, uploading, reads, body>>

(* The result of a walk that breaks off is not reported.                   *)
BrokenOff == NoBatch

(* The search fails, the scroll has expired, or the server shuts down.     *)
ScrollFails ==
  /\ batch.step = "scroll"
  /\ batch' = BrokenOff
  /\ UNCHANGED <<indexed, thumb, uploading, reads, body>>

-----------------------------------------------------------------------------
(* The end of an upload: the page is indexed, then ensureThumbnailFromReader*)

IndexPage(d) ==
  /\ \A i \in DOMAIN indexed : indexed[i] # d
  /\ \E i \in 1..(Len(indexed) + 1) : indexed' = InsertAt(indexed, i, d)
  /\ uploading' = uploading \cup {d}
  /\ UNCHANGED <<thumb, batch, reads, body>>

(* Whatever it comes to, the page counts as indexed.                       *)
UploadMakes(d) ==
  /\ d \in uploading
  /\ uploading' = uploading \ {d}
  /\ thumb' \in {thumb} \cup (IF d \in NoImage \cup Odd THEN {} ELSE {thumb \cup {d}})
  /\ UNCHANGED <<indexed, batch, reads, body>>

-----------------------------------------------------------------------------
(* handleGetThumbnail                                                      *)

ReadGoes(d, s) == reads' = [reads EXCEPT ![d] = s]
ReadAnswer(d, what) == body' = what /\ ReadGoes(d, "no")

(* ThumbnailExists; after an error of it the page is retrieved as well.    *)
AskExists(d) ==
  /\ reads[d] = "no" /\ d \notin Odd
  /\ Cardinality({e \in Doc : reads[e] # "no"}) < MaxReads
  /\ ReadGoes(d, "exists")
  /\ UNCHANGED <<indexed, thumb, batch, uploading, body>>

ReadStored(d) ==
  /\ reads[d] = "exists" /\ d \in thumb
  /\ ReadAnswer(d, "thumbnail")
  /\ UNCHANGED <<indexed, thumb, batch, uploading>>

Generate(d) ==
  /\ reads[d] = "exists" /\ d \notin NoImage
  /\ ReadGoes(d, "generated")
  /\ UNCHANGED <<indexed, thumb, batch, uploading, body>>

(* What cannot be decoded is sent as it is; what is gone is a 404.         *)
NotGenerated(d) ==
  /\ reads[d] = "exists"
  /\ ReadAnswer(d, "error") \/ (d \in NoImage /\ ReadAnswer(d, "original"))
  /\ UNCHANGED <<indexed, thumb, batch, uploading>>

(* StoreThumbnail reads the thumbnail to its end, stored or not.           *)
StoreGenerated(d) ==
  /\ reads[d] = "generated"
  /\ ReadGoes(d, "stored")
  /\ thumb' \in {thumb, thumb \cup {d}}
  /\ UNCHANGED <<indexed, batch, uploading, body>>

(* It is sent from where StoreThumbnail has left it: a bytes.Buffer cannot *)
(* be rewound, so the type assertion before the Seek fails.                *)
SendGenerated(d) ==
  /\ reads[d] = "stored"
  /\ ReadAnswer(d, "empty")
  /\ UNCHANGED <<indexed, thumb, batch, uploading>>

-----------------------------------------------------------------------------
BatchSteps == StartBatch \/ OddHit \/ CheckHit \/ MakeHit \/ HitFails \/ Scroll \/ ScrollFails

ThumbNext ==
  \/ BatchSteps
  \/ \E d \in Doc :
       \/ IndexPage(d) \/ UploadMakes(d)
       \/ AskExists(d) \/ ReadStored(d) \/ Generate(d) \/ NotGenerated(d)
       \/ StoreGenerated(d) \/ SendGenerated(d)

ThumbSpec == ThumbInit /\ [][ThumbNext]_thumbVars

-----------------------------------------------------------------------------
(* Properties                                                              *)

(* A batch that reports a result accounts for every document that was      *)
(* indexed when it began, once, while uploads go on beside it; every one   *)
(* that it does not report as failed has a thumbnail.                      *)
BatchAccounts ==
  batch.step = "done" =>
    /\ batch.counts.existing + batch.counts.generated + batch.counts.failed = Len(batch.snapshot)
    /\ batch.counts.failed >= Cardinality(ToSet(batch.snapshot) \ thumb)

(* A request that is answered with a thumbnail is answered with all of it. *)
(* The comments of the handler: "we still have the thumbnail to return".   *)
ThumbnailIsSent == body # "empty"
=============================================================================
