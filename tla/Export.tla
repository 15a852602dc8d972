------------------------------- MODULE Export --------------------------------
(***************************************************************************)
(* The export (internal/server/export.go): a request walks the documents   *)
(* that match over a scroll, retrieves the pages of each page of hits from *)
(* the storage side by side, writes them to the archive in the order of    *)
(* the scroll, and signs a manifest of what the archive has.  Meanwhile    *)
(* pages are deleted.  The archive is built in memory and sealed at the    *)
(* end, so there is a limit on its documents.                              *)
(*                                                                         *)
(* OpenSearch and the storage are external; encryption and signature are   *)
(* that of the whole archive and are left out.                             *)
(***************************************************************************)
EXTENDS Integers, Sequences, SequencesExt, FiniteSets

CONSTANTS
  Item,          \* documents that match, by ID
  ItemsPerPage,  \* exportScrollSize
  Retrievals,    \* exportRetrieveConcurrency
  MaxDocuments,  \* exportMaxDocuments
  NoItem         \* a retrievedPage that is not ok

(* The index holds a finite number of documents.                           *)
ASSUME ExportAssumption ==
  /\ {ItemsPerPage, Retrievals, MaxDocuments} \subseteq Nat \ {0}
  /\ IsFiniteSet(Item) /\ NoItem \notin Item

VARIABLES
  catalogue, \* the index
  kept,      \* items that the storage has
  exportAt,  \* where the request is
  matching,  \* what the scroll shows
  from,      \* where its current page begins
  retrieved, \* hits of the page whose retrieval has ended
  results,   \* results[i]: what was retrieved for hit i, or NoItem
  looked,    \* results that the loop over them has come by
  total,     \* hits that were counted
  entries,   \* of the manifest
  archive,   \* files of the archive
  skipped    \* history: hits that could not be retrieved

requestVars == <<matching, from, retrieved, results, looked, total, entries, archive, skipped>>
exportVars == <<catalogue, kept, exportAt, requestVars>>

ExportTypeOK ==
  /\ catalogue \in Seq(Item) /\ kept \subseteq Item /\ skipped \subseteq Item
  /\ exportAt \in {"idle", "count", "retrieve", "scroll", "sent", "too large"}
  /\ matching \in Seq(Item) /\ entries \in Seq(Item) /\ archive \in Seq(Item)
  /\ from \in 0..Len(matching) /\ total \in Nat /\ looked \in Nat /\ retrieved \subseteq Nat
  /\ results \in Seq(Item \cup {NoItem})

ExportInit ==
  /\ catalogue \in {SetToSeq(S) : S \in SUBSET Item \ {{}}} \cup {<<>>}
  /\ kept = Item
  /\ exportAt = "idle"
  /\ matching = <<>> /\ entries = <<>> /\ archive = <<>> /\ results = <<>>
  /\ from = 0 /\ total = 0 /\ looked = 0 /\ retrieved = {} /\ skipped = {}

-----------------------------------------------------------------------------
ExportGoes(s) == exportAt' = s

(* The hits of the current page.                                           *)
Hits == SubSeq(matching, from + 1, IF from + ItemsPerPage < Len(matching) THEN from + ItemsPerPage
                                   ELSE Len(matching))

StartExport ==
  /\ exportAt = "idle"
  /\ ExportGoes("count")
  /\ matching' = catalogue
  /\ UNCHANGED <<catalogue, kept, from, retrieved, results, looked, total, entries, archive, skipped>>

NewTotal == total + Len(Hits)

(* The loop of collectExportEntries: no hits, too many, or a page of them. *)
CountHits ==
  /\ exportAt = "count"
  /\ total' = NewTotal
  /\ ExportGoes(IF Hits = <<>> THEN "sent"
                ELSE IF NewTotal > MaxDocuments THEN "too large" ELSE "retrieve")
  /\ results' = [i \in 1..Len(Hits) |-> NoItem] /\ retrieved' = {} /\ looked' = 0
  /\ UNCHANGED <<catalogue, kept, matching, from, entries, archive, skipped>>

(* Mutant: a result is put after those that came before it.                *)
NextSlot(i) == Cardinality(retrieved) + 1

(* results is aligned with the hits, whichever retrieval ends first.       *)
Slot(i) == i

(* errgroup starts the retrievals in order and no more than its limit.     *)
Retrieve(i) ==
  /\ exportAt = "retrieve" /\ i \in (1..Len(Hits)) \ retrieved
  /\ Cardinality((1..(i - 1)) \ retrieved) < Retrievals
  /\ retrieved' = retrieved \cup {i}
  /\ \/ /\ Hits[i] \in kept
        /\ results' = [results EXCEPT ![Slot(i)] = Hits[i]]
        /\ UNCHANGED skipped
     \/ skipped' = skipped \cup {Hits[i]} /\ UNCHANGED results
  /\ UNCHANGED <<catalogue, kept, exportAt, matching, from, looked, total, entries, archive>>

Writes(item) ==
  IF item = NoItem THEN UNCHANGED <<archive, entries>>
  ELSE archive' = Append(archive, item) /\ entries' = Append(entries, item)

(* archiveScrollPage, after Wait: the loop over results.                   *)
Archive ==
  /\ exportAt = "retrieve" /\ retrieved = 1..Len(Hits)
  /\ Writes(results[looked + 1])
  /\ looked' = looked + 1
  /\ ExportGoes(IF looked + 1 = Len(Hits) THEN "scroll" ELSE "retrieve")
  /\ UNCHANGED <<catalogue, kept, matching, from, retrieved, results, total, skipped>>

ExportScroll ==
  /\ exportAt = "scroll"
  /\ ExportGoes("count")
  /\ from' = from + Len(Hits) /\ looked' = 0
  /\ UNCHANGED <<catalogue, kept, matching, retrieved, results, total, entries, archive, skipped>>

(* The answer is read, or an error ends the request with nothing sent.     *)
EndExport ==
  /\ exportAt # "idle"
  /\ ExportGoes("idle")
  /\ matching' = <<>> /\ entries' = <<>> /\ archive' = <<>> /\ results' = <<>>
  /\ from' = 0 /\ total' = 0 /\ looked' = 0 /\ retrieved' = {} /\ skipped' = {}
  /\ UNCHANGED <<catalogue, kept>>

(* Others index documents, and delete pages from the storage.              *)
Others ==
  /\ \/ \E d \in Item \ ToSet(catalogue) : catalogue' = Append(catalogue, d) /\ UNCHANGED kept
     \/ \E d \in kept : kept' = kept \ {d} /\ UNCHANGED catalogue
  /\ UNCHANGED <<exportAt, requestVars>>

ExportNext ==
  \/ StartExport \/ CountHits \/ Archive \/ ExportScroll \/ EndExport \/ Others
  \/ \E i \in 1..ItemsPerPage : Retrieve(i)

ExportSpec == ExportInit /\ [][ExportNext]_exportVars

-----------------------------------------------------------------------------
(* Properties                                                              *)

(* A list of all of s that is not left out, in the order of s.             *)
Lists(list, s, out) ==
  /\ ToSet(list) = ToSet(s) \ out
  /\ \A i, j \in DOMAIN list :
       i < j => \E k, l \in DOMAIN s : k < l /\ s[k] = list[i] /\ s[l] = list[j]

(* An export that is sent has all that matched when it was asked for, in   *)
(* that order, in the manifest and in the archive alike, but for what      *)
(* could not be retrieved; one that is refused had too many documents, and *)
(* no page of it that would not fit was retrieved.                         *)
ExportExact ==
  /\ exportAt = "sent" => Lists(entries, matching, skipped) /\ archive = entries
  /\ exportAt = "too large" => Len(matching) > MaxDocuments
  /\ Len(archive) <= MaxDocuments
=============================================================================
