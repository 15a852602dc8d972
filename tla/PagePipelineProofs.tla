------------------------- MODULE PagePipelineProofs -------------------------
(***************************************************************************)
(* Theorems about PagePipeline, for every set of pages, digests and        *)
(* workers and every bound.  Without reindex the pipelines keep their      *)
(* promises to each other; the inductive invariant ClaimInv says why: a    *)
(* worker that holds a page owns the reservation of its digest, and no     *)
(* delete still under way can match that reservation or one that has been  *)
(* acknowledged.  With reindex that is not so; what is still true of every *)
(* set of pipelines follows from AccountInv, in the second half.           *)
(***************************************************************************)
EXTENDS PagePipeline, TLAPS

(* PagePipeline is type correct.                                           *)
THEOREM TypeCorrect == Spec => []TypeOK
<1>1. Init => TypeOK
  BY ConstantsAssumption
     DEF Init, TypeOK, Steps, AllPipelines
<1>2. TypeOK /\ [Next]_vars => TypeOK'
  <2> SUFFICES ASSUME TypeOK, [Next]_vars PROVE TypeOK'
    OBVIOUS
  <2> USE ConstantsAssumption DEF TypeOK, Steps, Statuses, AllPipelines,
                                  Request, Result, reservations, digest
  <2>1. ASSUME NEW w \in Worker, NEW k \in Pipelines, NEW p \in Page, Start(w, k, p)
        PROVE  TypeOK'
    BY <2>1 DEF Start
  <2>2. ASSUME NEW w \in Worker, Retrieve(w) PROVE TypeOK'
    BY <2>2 DEF Retrieve, Goto, Report
  <2>3. ASSUME NEW w \in Worker, Reserve(w) PROVE TypeOK'
    BY <2>3 DEF Reserve, Goto, Create, AfterReserve
  <2>4. ASSUME NEW w \in Worker, ReserveFails(w) PROVE TypeOK'
    BY <2>4 DEF ReserveFails, Report, Abandoned
  <2>5. ASSUME NEW w \in Worker, Lookup(w) PROVE TypeOK'
    BY <2>5 DEF Lookup, Goto, Report
  <2>6. ASSUME NEW w \in Worker, LookupFails(w) PROVE TypeOK'
    BY <2>6 DEF LookupFails, Report
  <2>7. ASSUME NEW w \in Worker, Store(w) PROVE TypeOK'
    BY <2>7 DEF Store, Goto
  <2>8. ASSUME NEW w \in Worker, StoreFails(w) PROVE TypeOK'
    BY <2>8 DEF StoreFails, Goto
  <2>9. ASSUME NEW w \in Worker, Index(w) PROVE TypeOK'
    BY <2>9 DEF Index, Report
  <2>10. ASSUME NEW w \in Worker, IndexFails(w) PROVE TypeOK'
    BY <2>10 DEF IndexFails, Goto, Abandoned
  <2>11. ASSUME NEW w \in Worker, ReleaseRead(w) PROVE TypeOK'
    BY <2>11 DEF ReleaseRead, Report
  <2>12. ASSUME NEW w \in Worker, ReleaseDelete(w) PROVE TypeOK'
    BY <2>12 DEF ReleaseDelete, Delete, Report
  <2>13. ASSUME NEW w \in Worker, ReleaseFails(w) PROVE TypeOK'
    BY <2>13 DEF ReleaseFails, Report, Abandoned
  <2>14. ASSUME NEW r \in late, TakesEffect(r) PROVE TypeOK'
    BY <2>14 DEF TakesEffect, CreateIfFree, Create, Delete, workers
  <2>15. ASSUME NEW w \in Worker, Crash(w) PROVE TypeOK'
    BY <2>15 DEF Crash, Report, Abandoned
  <2>16. CASE UNCHANGED vars
    BY <2>16 DEF vars
  <2>17. ASSUME NEW w \in Worker, Resend(w) PROVE TypeOK'
    BY <2>17 DEF Resend, workers
  <2> QED
    BY <2>1, <2>2, <2>3, <2>4, <2>5, <2>6, <2>7, <2>8, <2>9, <2>10, <2>11,
       <2>12, <2>13, <2>14, <2>15, <2>16, <2>17 DEF Next, Work
<1> QED
  BY <1>1, <1>2, PTL DEF Spec

-----------------------------------------------------------------------------
(* The inductive invariant                                                 *)

HoldersOwn ==
  \A w \in Worker :
    Holding(w) => owner[digest(w)] = page[w] /\ page[w] \notin Indexed

DeletersMatch ==
  \A w \in Worker : step[w] = "delete" => seen[w] = seqNo[digest(w)]

(* A delete on its way matches no reservation that is held or acknowledged.*)
LateDeletesHarmless ==
  \A r \in late :
    r.op = "delete" =>
      /\ r.seq < nextSeq
      /\ Matches(Content[r.page], r.seq) =>
           /\ owner[Content[r.page]] \notin Indexed
           /\ \A w \in Worker : Holding(w) => digest(w) # Content[r.page]

SeqNosAreOld == \A d \in Digest : seqNo[d] < nextSeq

OwnersHaveContent == \A d \in Digest : owner[d] # None => Content[owner[d]] = d

NoReindex == \A w \in Worker : pipeline[w] # "reindex"

ClaimInv ==
  /\ TypeOK
  /\ NoReindex
  /\ SeqNosAreOld
  /\ OwnersHaveContent
  /\ HoldersOwn
  /\ DeletersMatch
  /\ ExclusiveProcessing
  /\ IndexedKeepsReservation
  /\ LateDeletesHarmless

(* What a report does to the set of acknowledged pages.                    *)
LEMMA IndexedAfterReport ==
  ASSUME NEW w \in Worker, NEW st, NEW of, Report(w, st, of)
  PROVE  Indexed' = IF st = "indexed" THEN Indexed \cup {page[w]} ELSE Indexed
<1> DEFINE new == [page |-> page[w], status |-> st, of |-> of]
<1>1. results' = results \cup {new} /\ new.page = page[w] /\ new.status = st
  BY DEF Report
<1>2. \A p : p \in Indexed <=> \E r \in results : r.status = "indexed" /\ r.page = p
  BY DEF Indexed
<1>3. \A p : p \in Indexed' <=> \E r \in results' : r.status = "indexed" /\ r.page = p
  BY DEF Indexed
<1> HIDE DEF new
<1>4. \A p : p \in Indexed' <=> p \in Indexed \/ (st = "indexed" /\ p = page[w])
  <2> SUFFICES ASSUME NEW p PROVE p \in Indexed' <=> p \in Indexed \/ (st = "indexed" /\ p = page[w])
    OBVIOUS
  <2>1. ASSUME p \in Indexed' PROVE p \in Indexed \/ (st = "indexed" /\ p = page[w])
    BY <1>1, <1>2, <1>3, <2>1
  <2>2. ASSUME p \in Indexed PROVE p \in Indexed'
    BY <1>1, <1>2, <1>3, <2>2
  <2>3. ASSUME st = "indexed", p = page[w] PROVE p \in Indexed'
    BY <1>1, <1>3, <2>3
  <2> QED
    BY <2>1, <2>2, <2>3
<1>5. CASE st = "indexed"
  BY <1>4, <1>5
<1>6. CASE st # "indexed"
  BY <1>4, <1>6
<1> QED
  BY <1>5, <1>6

LEMMA IndexedUnchanged == results' = results => Indexed' = Indexed
BY DEF Indexed

(* A step of a job that ends without touching the reservations, or that    *)
(* only moves to a step that holds nothing, keeps the invariant.           *)
LEMMA ReportKeepsClaims ==
  ASSUME ClaimInv, TypeOK', NEW w \in Worker, NEW st, NEW of,
         Report(w, st, of), st # "indexed", UNCHANGED reservations,
         \A r \in late' : r.op = "delete" => r \in late
  PROVE  ClaimInv'
<1> USE DEF ClaimInv
<1>1. Indexed' = Indexed
  BY IndexedAfterReport
<1>2. \A v \in Worker : Holding(v)' => /\ Holding(v) /\ v # w
                                      /\ digest(v)' = digest(v) /\ page'[v] = page[v]
  BY DEF Report, Holding, digest, TypeOK
<1>3. NoReindex' /\ SeqNosAreOld' /\ OwnersHaveContent'
  BY DEF NoReindex, SeqNosAreOld, OwnersHaveContent, Report, TypeOK, reservations
<1>4. HoldersOwn'
  BY <1>1, <1>2 DEF HoldersOwn, reservations
<1>5. DeletersMatch'
  BY <1>2 DEF DeletersMatch, Holding, Report, TypeOK, reservations
<1>6. ExclusiveProcessing'
  BY <1>2 DEF ExclusiveProcessing
<1>7. IndexedKeepsReservation'
  BY <1>1 DEF IndexedKeepsReservation, reservations
<1>8. LateDeletesHarmless'
  BY <1>1, <1>2 DEF LateDeletesHarmless, Matches, Taken, reservations
<1> QED
  BY <1>3, <1>4, <1>5, <1>6, <1>7, <1>8

(* A worker may stop with its delete still on its way.                     *)
LEMMA AbandonedDeleteKeepsClaims ==
  ASSUME ClaimInv, TypeOK', NEW w \in Worker, NEW st, step[w] = "delete",
         Report(w, st, None), st # "indexed", UNCHANGED reservations,
         Abandoned(w, "delete")
  PROVE  ClaimInv'
<1> USE ConstantsAssumption DEF ClaimInv
<1> DEFINE req == [op |-> "delete", page |-> page[w], seq |-> seen[w]]
<1>1. /\ page[w] \in Page /\ Holding(w) /\ UNCHANGED reservations
      /\ Report(w, st, None) /\ late' \in {late, late \cup {req}}
  BY DEF Abandoned, Holding, TypeOK
<1>2. Indexed' = Indexed
  BY <1>1, IndexedAfterReport
<1>3. \A v \in Worker : Holding(v)' => /\ Holding(v) /\ v # w
                                      /\ digest(v)' = digest(v) /\ page'[v] = page[v]
  BY <1>1 DEF Report, Holding, digest, TypeOK
<1>4. NoReindex' /\ SeqNosAreOld' /\ OwnersHaveContent'
  BY <1>1 DEF NoReindex, SeqNosAreOld, OwnersHaveContent, Report, TypeOK, reservations
<1>5. HoldersOwn'
  BY <1>1, <1>2, <1>3 DEF HoldersOwn, reservations
<1>6. DeletersMatch'
  BY <1>1, <1>3 DEF DeletersMatch, Holding, Report, TypeOK, reservations
<1>7. ExclusiveProcessing'
  BY <1>3 DEF ExclusiveProcessing
<1>8. IndexedKeepsReservation'
  BY <1>1, <1>2 DEF IndexedKeepsReservation, reservations
<1>9. LateDeletesHarmless'
  <2>1. ASSUME NEW r \in late, r.op = "delete"
        PROVE  /\ r.seq < nextSeq'
               /\ Matches(Content[r.page], r.seq)' =>
                    /\ owner'[Content[r.page]] \notin Indexed'
                    /\ \A v \in Worker : Holding(v)' => digest(v)' # Content[r.page]
    BY <1>1, <1>2, <1>3, <2>1 DEF LateDeletesHarmless, Matches, Taken, reservations
  <2>2. /\ req.seq < nextSeq'
        /\ owner'[Content[req.page]] \notin Indexed'
        /\ \A v \in Worker : Holding(v)' => digest(v)' # Content[req.page]
    <3>1. req.seq = seqNo[digest(w)] /\ Content[req.page] = digest(w) /\ digest(w) \in Digest
      BY <1>1 DEF DeletersMatch, TypeOK, digest
    <3>2. owner[digest(w)] = page[w] /\ page[w] \notin Indexed
      BY <1>1 DEF HoldersOwn
    <3>3. \A v \in Worker : Holding(v)' => digest(v)' # digest(w)
      BY <1>1, <1>3 DEF ExclusiveProcessing
    <3> QED
      BY <1>1, <1>2, <3>1, <3>2, <3>3 DEF SeqNosAreOld, reservations
  <2> HIDE DEF req
  <2> QED
    BY <1>1, <2>1, <2>2 DEF LateDeletesHarmless
<1> QED
  BY <1>4, <1>5, <1>6, <1>7, <1>8, <1>9

(* A step inside a job that touches no reservation and starts no delete    *)
(* keeps the invariant, whatever create or index request it leaves behind. *)
LEMMA GotoKeepsClaims ==
  ASSUME ClaimInv, TypeOK', NEW w \in Worker, NEW s,
         Goto(w, s), s # "delete",
         s \in {"store", "index", "read"} => Holding(w),
         UNCHANGED reservations, UNCHANGED results,
         \A r \in late' : r.op = "delete" => r \in late
  PROVE  ClaimInv'
<1> USE DEF ClaimInv
<1>1. Indexed' = Indexed
  BY IndexedUnchanged
<1>2. \A v \in Worker : Holding(v)' => Holding(v)
  BY DEF Goto, Holding, TypeOK
<1>3. \A v \in Worker : digest(v)' = digest(v) /\ page'[v] = page[v]
  BY DEF Goto, digest
<1>4. NoReindex' /\ SeqNosAreOld' /\ OwnersHaveContent'
  BY DEF NoReindex, SeqNosAreOld, OwnersHaveContent, Goto, reservations
<1>5. HoldersOwn'
  BY <1>1, <1>2, <1>3 DEF HoldersOwn, reservations
<1>6. DeletersMatch'
  BY <1>3 DEF DeletersMatch, Goto, TypeOK, reservations
<1>7. ExclusiveProcessing'
  BY <1>2, <1>3 DEF ExclusiveProcessing
<1>8. IndexedKeepsReservation'
  BY <1>1 DEF IndexedKeepsReservation, reservations
<1>9. LateDeletesHarmless'
  BY <1>1, <1>2, <1>3 DEF LateDeletesHarmless, Matches, Taken, reservations
<1> QED
  BY <1>4, <1>5, <1>6, <1>7, <1>8, <1>9

(* An unused digest is nobody's: no worker holds it, nothing acknowledged  *)
(* needs it.  So a create, on time or late, disturbs no claim.             *)
LEMMA CreateKeepsOthers ==
  ASSUME ClaimInv, NEW p \in Page, ~Taken(Content[p]), Create(p)
  PROVE  /\ \A q \in Indexed : owner'[Content[q]] = q
         /\ \A w \in Worker : Holding(w) => /\ digest(w) # Content[p]
                                           /\ owner'[digest(w)] = page[w]
                                           /\ seqNo'[digest(w)] = seqNo[digest(w)]
         /\ \A d \in Digest : seqNo'[d] < nextSeq'
         /\ OwnersHaveContent'
         /\ \A d \in Digest, s \in Nat :
              s < nextSeq => /\ s < nextSeq'
                             /\ Matches(d, s)' => Matches(d, s) /\ owner'[d] = owner[d]
<1> USE ConstantsAssumption DEF ClaimInv, TypeOK, Create, Taken
<1>1. \A q \in Indexed : owner'[Content[q]] = q
  <2>1. \A q \in Indexed : q \in Page
    BY DEF Indexed, Result
  <2> QED
    BY <2>1 DEF IndexedKeepsReservation
<1>2. ASSUME NEW w \in Worker, Holding(w)
      PROVE  /\ digest(w) # Content[p]
             /\ owner'[digest(w)] = page[w]
             /\ seqNo'[digest(w)] = seqNo[digest(w)]
  <2>1. page[w] \in Page /\ digest(w) \in Digest
    BY <1>2 DEF Holding, digest
  <2>2. owner[digest(w)] = page[w]
    BY <1>2 DEF HoldersOwn
  <2> QED
    BY <2>1, <2>2
<1>3. \A d \in Digest : seqNo'[d] < nextSeq'
  BY DEF SeqNosAreOld
<1>4. OwnersHaveContent'
  BY DEF OwnersHaveContent
<1>5. ASSUME NEW d \in Digest, NEW s \in Nat, s < nextSeq
      PROVE  /\ s < nextSeq'
             /\ Matches(d, s)' => Matches(d, s) /\ owner'[d] = owner[d]
  BY <1>5 DEF Matches
<1> QED
  BY <1>1, <1>2, <1>3, <1>4, <1>5

-----------------------------------------------------------------------------
LEMMA ClaimInvInit == Init => ClaimInv
<1> SUFFICES ASSUME Init PROVE ClaimInv
  OBVIOUS
<1> USE ConstantsAssumption DEF Init
<1>1. TypeOK
  BY DEF TypeOK, Steps, AllPipelines
<1>2. Indexed = {}
  BY DEF Indexed
<1>3. \A w \in Worker : ~Holding(w)
  BY DEF Holding
<1> QED
  BY <1>1, <1>2, <1>3
     DEF ClaimInv, NoReindex, SeqNosAreOld, OwnersHaveContent, HoldersOwn, DeletersMatch,
         ExclusiveProcessing, IndexedKeepsReservation, LateDeletesHarmless

LEMMA ClaimInvStep ==
  ASSUME "reindex" \notin Pipelines, ClaimInv, TypeOK', [Next]_vars
  PROVE  ClaimInv'
<1> USE ConstantsAssumption
<1> TypeOK
  BY DEF ClaimInv
<1>1. ASSUME NEW w \in Worker, NEW k \in Pipelines, NEW p \in Page, Start(w, k, p)
      PROVE  ClaimInv'
  <2> USE <1>1 DEF Start, ClaimInv
  <2>1. Indexed' = Indexed
    BY IndexedUnchanged
  <2>2. \A v \in Worker : Holding(v)' => /\ Holding(v) /\ v # w
                                        /\ digest(v)' = digest(v) /\ page'[v] = page[v]
    BY DEF Holding, digest, TypeOK
  <2>3. NoReindex' /\ SeqNosAreOld' /\ OwnersHaveContent'
    BY DEF NoReindex, SeqNosAreOld, OwnersHaveContent, TypeOK, reservations
  <2>4. HoldersOwn'
    BY <2>1, <2>2 DEF HoldersOwn, reservations
  <2>5. DeletersMatch'
    BY <2>2 DEF DeletersMatch, Holding, TypeOK, reservations
  <2>6. ExclusiveProcessing'
    BY <2>2 DEF ExclusiveProcessing
  <2>7. IndexedKeepsReservation'
    BY <2>1 DEF IndexedKeepsReservation, reservations
  <2>8. LateDeletesHarmless'
    BY <2>1, <2>2 DEF LateDeletesHarmless, Matches, Taken, reservations
  <2> QED
    BY <2>3, <2>4, <2>5, <2>6, <2>7, <2>8
<1>2. ASSUME NEW w \in Worker, Retrieve(w) PROVE ClaimInv'
  <2>1. CASE Goto(w, "reserve") /\ UNCHANGED results
    BY <1>2, <2>1, GotoKeepsClaims DEF Retrieve
  <2>2. CASE Report(w, "failed", None)
    BY <1>2, <2>2, ReportKeepsClaims DEF Retrieve
  <2> QED
    BY <1>2, <2>1, <2>2 DEF Retrieve
<1>3. ASSUME NEW w \in Worker, Reserve(w) PROVE ClaimInv'
  <2>1. CASE Taken(digest(w))
    BY <1>3, <2>1, GotoKeepsClaims DEF Reserve
  <2>2. CASE ~Taken(digest(w))
    <3> DEFINE p == page[w]
    <3>1. /\ p \in Page /\ digest(w) = Content[p] /\ ~Holding(w)
          /\ Create(p) /\ Goto(w, AfterReserve(pipeline[w]))
          /\ UNCHANGED <<results, late>>
      BY <1>3, <2>2 DEF Reserve, digest, Holding, TypeOK
    <3>2. Indexed' = Indexed
      BY <3>1, IndexedUnchanged
    <3>3. \A v \in Worker : /\ page'[v] = page[v] /\ digest(v)' = digest(v)
                            /\ v # w => (Holding(v)' <=> Holding(v))
      BY <3>1 DEF Goto, digest, Holding, TypeOK
    <3>4. step'[w] # "delete" /\ \A v \in Worker : v # w => step'[v] = step[v]
      BY <3>1 DEF Goto, AfterReserve, TypeOK
    <3>5. owner'[digest(w)] = page[w] /\ p \notin Indexed
      BY <3>1, <2>2 DEF Create, ClaimInv, IndexedKeepsReservation, TypeOK, Taken, digest
    <3>6. NoReindex' /\ SeqNosAreOld' /\ OwnersHaveContent'
      BY <3>1, <2>2, CreateKeepsOthers DEF NoReindex, SeqNosAreOld, OwnersHaveContent, Goto, ClaimInv
    <3>7. HoldersOwn'
      BY <3>1, <3>2, <3>3, <3>5, <2>2, CreateKeepsOthers DEF HoldersOwn, ClaimInv
    <3>8. DeletersMatch'
      BY <3>1, <3>3, <3>4, <2>2, CreateKeepsOthers DEF DeletersMatch, ClaimInv, Goto, Holding
    <3>9. ExclusiveProcessing'
      BY <3>1, <3>3, <2>2, CreateKeepsOthers DEF ExclusiveProcessing, ClaimInv
    <3>10. IndexedKeepsReservation'
      BY <3>1, <3>2, <2>2, CreateKeepsOthers DEF IndexedKeepsReservation
    <3>11. LateDeletesHarmless'
      <4> SUFFICES ASSUME NEW r \in late, r.op = "delete"
                   PROVE  /\ r.seq < nextSeq'
                          /\ Matches(Content[r.page], r.seq)' =>
                               /\ owner'[Content[r.page]] \notin Indexed'
                               /\ \A v \in Worker : Holding(v)' => digest(v)' # Content[r.page]
        BY <3>1 DEF LateDeletesHarmless
      <4>1. /\ r.seq \in Nat /\ r.seq < nextSeq /\ Content[r.page] \in Digest
            /\ Matches(Content[r.page], r.seq) =>
                 /\ owner[Content[r.page]] \notin Indexed
                 /\ \A v \in Worker : Holding(v) => digest(v) # Content[r.page]
        BY DEF ClaimInv, LateDeletesHarmless, TypeOK, Request
      <4>2. Matches(Content[r.page], r.seq)' =>
              /\ Matches(Content[r.page], r.seq)
              /\ owner'[Content[r.page]] = owner[Content[r.page]]
        BY <3>1, <2>2, <4>1, CreateKeepsOthers
      <4>3. Matches(Content[r.page], r.seq)' => Content[r.page] # digest(w)
        BY <4>2, <2>2 DEF Matches
      <4> QED
        BY <3>1, <2>2, <3>2, <3>3, <4>1, <4>2, <4>3, CreateKeepsOthers
    <3> QED
      BY <3>6, <3>7, <3>8, <3>9, <3>10, <3>11 DEF ClaimInv
  <2> QED
    BY <2>1, <2>2
<1>4. ASSUME NEW w \in Worker, ReserveFails(w) PROVE ClaimInv'
  <2>1. \A r \in late' : r.op = "delete" => r \in late
    BY <1>4 DEF ReserveFails, Abandoned
  <2> QED
    BY <1>4, <2>1, ReportKeepsClaims DEF ReserveFails
<1>5. ASSUME NEW w \in Worker, Lookup(w) PROVE ClaimInv'
  <2>1. Report(w, "duplicate", owner[digest(w)])
    BY <1>5 DEF Lookup, Proceeds, ClaimInv, NoReindex
  <2> QED
    BY <1>5, <2>1, ReportKeepsClaims DEF Lookup
<1>6. ASSUME NEW w \in Worker, LookupFails(w) PROVE ClaimInv'
  BY <1>6, ReportKeepsClaims DEF LookupFails
<1>7. ASSUME NEW w \in Worker, Store(w) PROVE ClaimInv'
  BY <1>7, GotoKeepsClaims DEF Store, Holding
<1>8. ASSUME NEW w \in Worker, StoreFails(w) PROVE ClaimInv'
  BY <1>8, GotoKeepsClaims DEF StoreFails, Holding
<1>9. ASSUME NEW w \in Worker, Index(w) PROVE ClaimInv'
  <2> USE DEF ClaimInv
  <2>1. /\ page[w] \in Page /\ Holding(w) /\ owner[digest(w)] = page[w]
        /\ UNCHANGED <<reservations, late>>
    BY <1>9 DEF Index, Holding, TypeOK, HoldersOwn
  <2>2. Indexed' = Indexed \cup {page[w]}
    BY <1>9, IndexedAfterReport DEF Index
  <2>3. \A v \in Worker : Holding(v)' => /\ Holding(v) /\ v # w
                                        /\ digest(v)' = digest(v) /\ page'[v] = page[v]
    BY <1>9 DEF Index, Report, Holding, digest, TypeOK
  <2>4. \A v \in Worker : Holding(v)' => page[v] # page[w]
    BY <2>1, <2>3 DEF ExclusiveProcessing, digest
  <2>5. NoReindex' /\ SeqNosAreOld' /\ OwnersHaveContent'
    BY <1>9 DEF Index, NoReindex, SeqNosAreOld, OwnersHaveContent, Report, TypeOK, reservations
  <2>6. HoldersOwn'
    BY <2>1, <2>2, <2>3, <2>4 DEF HoldersOwn, reservations
  <2>7. DeletersMatch'
    BY <1>9, <2>3 DEF Index, DeletersMatch, Holding, Report, TypeOK, reservations
  <2>8. ExclusiveProcessing'
    BY <2>3 DEF ExclusiveProcessing
  <2>9. IndexedKeepsReservation'
    BY <2>1, <2>2 DEF IndexedKeepsReservation, reservations, digest
  <2>10. LateDeletesHarmless'
    <3>1. ASSUME NEW r \in late, r.op = "delete", Matches(Content[r.page], r.seq)
          PROVE  owner[Content[r.page]] # page[w]
      <4>1. Content[r.page] # digest(w)
        BY <2>1, <3>1 DEF LateDeletesHarmless
      <4>2. Content[r.page] \in Digest /\ owner[Content[r.page]] # None
        BY <3>1 DEF TypeOK, Request, Matches, Taken
      <4> QED
        BY <4>1, <4>2 DEF OwnersHaveContent, digest
    <3> QED
      BY <2>1, <2>2, <2>3, <3>1 DEF LateDeletesHarmless, Matches, Taken, reservations
  <2> QED
    BY <2>5, <2>6, <2>7, <2>8, <2>9, <2>10
<1>10. ASSUME NEW w \in Worker, IndexFails(w) PROVE ClaimInv'
  <2>1. \A r \in late' : r.op = "delete" => r \in late
    BY <1>10 DEF IndexFails, Abandoned
  <2> QED
    BY <1>10, <2>1, GotoKeepsClaims DEF IndexFails, Holding
<1>11. ASSUME NEW w \in Worker, ReleaseRead(w) PROVE ClaimInv'
  <2> USE <1>11 DEF ReleaseRead, ClaimInv
  <2>1. CASE owner[digest(w)] # page[w]
    BY <2>1, ReportKeepsClaims
  <2>2. CASE owner[digest(w)] = page[w]
    <3>1. Indexed' = Indexed
      BY <2>2, IndexedUnchanged
    <3>2. \A v \in Worker : /\ Holding(v)' <=> Holding(v)
                            /\ digest(v)' = digest(v) /\ page'[v] = page[v]
      BY <2>2 DEF Holding, digest, TypeOK
    <3>3. NoReindex' /\ SeqNosAreOld' /\ OwnersHaveContent'
      BY <2>2 DEF NoReindex, SeqNosAreOld, OwnersHaveContent, reservations
    <3>4. HoldersOwn'
      BY <3>1, <3>2 DEF HoldersOwn, reservations
    <3>5. DeletersMatch'
      BY <2>2, <3>2 DEF DeletersMatch, TypeOK, reservations
    <3>6. ExclusiveProcessing'
      BY <3>2 DEF ExclusiveProcessing
    <3>7. IndexedKeepsReservation'
      BY <3>1 DEF IndexedKeepsReservation, reservations
    <3>8. LateDeletesHarmless'
      BY <3>1, <3>2 DEF LateDeletesHarmless, Matches, Taken, reservations
    <3> QED
      BY <3>3, <3>4, <3>5, <3>6, <3>7, <3>8
  <2> QED
    BY <2>1, <2>2
<1>12. ASSUME NEW w \in Worker, ReleaseDelete(w) PROVE ClaimInv'
  <2> USE DEF ClaimInv
  <2>1. /\ page[w] \in Page /\ digest(w) \in Digest /\ Holding(w)
        /\ owner[digest(w)] = page[w] /\ page[w] \notin Indexed
        /\ Report(w, "failed", None) /\ UNCHANGED <<seqNo, nextSeq, late>>
    BY <1>12 DEF ReleaseDelete, Delete, Holding, HoldersOwn, TypeOK, digest
  <2>2. owner' \in {owner, [owner EXCEPT ![digest(w)] = None]}
    BY <1>12 DEF ReleaseDelete, Delete
  <2>3. Indexed' = Indexed
    BY <2>1, IndexedAfterReport
  <2>4. \A v \in Worker : Holding(v)' => /\ Holding(v) /\ v # w
                                        /\ digest(v)' = digest(v) /\ page'[v] = page[v]
    BY <2>1 DEF Report, Holding, digest, TypeOK
  <2>5. \A v \in Worker : Holding(v)' => owner'[digest(v)] = owner[digest(v)]
    <3>1. ASSUME NEW v \in Worker, Holding(v)'
          PROVE  digest(v) # digest(w) /\ digest(v) \in Digest
      <4>1. Holding(v) /\ v # w
        BY <2>4, <3>1
      <4>2. digest(v) \in Digest
        BY <4>1 DEF Holding, digest, TypeOK
      <4> QED
        BY <2>1, <4>1, <4>2 DEF ExclusiveProcessing
    <3> QED
      BY <2>2, <3>1 DEF TypeOK
  <2>6. NoReindex' /\ SeqNosAreOld' /\ OwnersHaveContent'
    BY <2>1, <2>2 DEF NoReindex, SeqNosAreOld, OwnersHaveContent, Report, TypeOK
  <2>7. HoldersOwn'
    BY <2>3, <2>4, <2>5 DEF HoldersOwn
  <2>8. DeletersMatch'
    BY <2>1, <2>4 DEF DeletersMatch, Holding, Report, TypeOK
  <2>9. ExclusiveProcessing'
    BY <2>4 DEF ExclusiveProcessing
  <2>10. IndexedKeepsReservation'
    <3>1. ASSUME NEW p \in Indexed PROVE owner'[Content[p]] = p
      <4>1. p \in Page /\ p # page[w] /\ owner[Content[p]] = p
        BY <2>1, <3>1 DEF Indexed, TypeOK, Result, IndexedKeepsReservation
      <4>2. Content[p] # digest(w)
        BY <2>1, <4>1
      <4> QED
        BY <2>2, <4>1, <4>2 DEF TypeOK
    <3> QED
      BY <2>3, <3>1 DEF IndexedKeepsReservation
  <2>11. LateDeletesHarmless'
    <3>1. \A d \in Digest, s \in Nat :
            Matches(d, s)' => Matches(d, s) /\ owner'[d] = owner[d]
      BY <2>1, <2>2 DEF Matches, Taken, TypeOK
    <3>2. \A r \in late : Content[r.page] \in Digest /\ r.seq \in Nat
      BY DEF TypeOK, Request
    <3> QED
      BY <2>1, <2>3, <2>4, <3>1, <3>2 DEF LateDeletesHarmless
  <2> QED
    BY <2>6, <2>7, <2>8, <2>9, <2>10, <2>11
<1>13. ASSUME NEW w \in Worker, ReleaseFails(w) PROVE ClaimInv'
  <2>1. CASE step[w] = "read"
    BY <1>13, <2>1, ReportKeepsClaims DEF ReleaseFails
  <2>2. CASE step[w] = "delete"
    BY <1>13, <2>2, AbandonedDeleteKeepsClaims DEF ReleaseFails
  <2> QED
    BY <1>13, <2>1, <2>2 DEF ReleaseFails
<1>14. ASSUME NEW r \in late, TakesEffect(r) PROVE ClaimInv'
  <2> USE DEF ClaimInv
  <2>1. /\ r \in Request /\ Content[r.page] \in Digest /\ r.page \in Page
        /\ late' = late \ {r} /\ UNCHANGED <<step, pipeline, page, seen, results>>
    BY <1>14 DEF TakesEffect, workers, TypeOK, Request
  <2>2. /\ Indexed' = Indexed
        /\ \A v \in Worker : (Holding(v)' <=> Holding(v)) /\ digest(v)' = digest(v)
        /\ NoReindex' /\ ExclusiveProcessing'
    BY <2>1, IndexedUnchanged DEF Holding, digest, NoReindex, ExclusiveProcessing
  <2>3. CASE UNCHANGED reservations
    BY <2>1, <2>2, <2>3
       DEF SeqNosAreOld, OwnersHaveContent, HoldersOwn, DeletersMatch,
           IndexedKeepsReservation, LateDeletesHarmless, Matches, Taken, reservations
  <2>4. CASE ~Taken(Content[r.page]) /\ Create(r.page)
    <3>1. SeqNosAreOld' /\ OwnersHaveContent' /\ HoldersOwn' /\ IndexedKeepsReservation'
      BY <2>1, <2>2, <2>4, CreateKeepsOthers
         DEF SeqNosAreOld, HoldersOwn, IndexedKeepsReservation
    <3>2. DeletersMatch'
      BY <2>1, <2>2, <2>4, CreateKeepsOthers DEF DeletersMatch, Holding
    <3>3. LateDeletesHarmless'
      <4>1. \A q \in late : Content[q.page] \in Digest /\ q.seq \in Nat
        BY DEF TypeOK, Request
      <4> QED
        BY <2>1, <2>2, <2>4, <4>1, CreateKeepsOthers DEF LateDeletesHarmless
    <3> QED
      BY <2>2, <3>1, <3>2, <3>3
  <2>5. CASE r.op = "delete" /\ Matches(Content[r.page], r.seq)
    <3> DEFINE d == Content[r.page]
    <3>1. /\ owner' = [owner EXCEPT ![d] = None] /\ UNCHANGED <<seqNo, nextSeq>>
          /\ owner[d] \notin Indexed /\ \A v \in Worker : Holding(v) => digest(v) # d
      BY <1>14, <2>5 DEF TakesEffect, Delete, LateDeletesHarmless
    <3>2. SeqNosAreOld' /\ OwnersHaveContent' /\ DeletersMatch'
      BY <2>1, <2>2, <3>1 DEF SeqNosAreOld, OwnersHaveContent, DeletersMatch, TypeOK
    <3>3. HoldersOwn'
      BY <2>1, <2>2, <3>1 DEF HoldersOwn, TypeOK
    <3>4. IndexedKeepsReservation'
      <4>1. \A p \in Indexed : owner[Content[p]] = p /\ Content[p] # d
        BY <3>1 DEF IndexedKeepsReservation
      <4> QED
        BY <2>2, <3>1, <4>1 DEF IndexedKeepsReservation, TypeOK
    <3>5. LateDeletesHarmless'
      <4>1. \A e \in Digest, s \in Nat :
              Matches(e, s)' => Matches(e, s) /\ owner'[e] = owner[e]
        BY <3>1 DEF Matches, Taken, TypeOK
      <4>2. \A q \in late : Content[q.page] \in Digest /\ q.seq \in Nat
        BY DEF TypeOK, Request
      <4> QED
        BY <2>1, <2>2, <3>1, <4>1, <4>2 DEF LateDeletesHarmless
    <3> QED
      BY <2>2, <3>2, <3>3, <3>4, <3>5
  <2> QED
    BY <1>14, <2>3, <2>4, <2>5 DEF TakesEffect, CreateIfFree, Delete, reservations
<1>15. ASSUME NEW w \in Worker, Crash(w) PROVE ClaimInv'
  <2>1. CASE step[w] = "delete"
    BY <1>15, <2>1, AbandonedDeleteKeepsClaims DEF Crash
  <2>2. CASE step[w] # "delete"
    <3>1. \A r \in late' : r.op = "delete" => r \in late
      BY <1>15, <2>2 DEF Crash, Abandoned
    <3> QED
      BY <1>15, <3>1, ReportKeepsClaims DEF Crash
  <2> QED
    BY <2>1, <2>2
<1>16. CASE UNCHANGED vars
  BY <1>16, IndexedUnchanged
     DEF vars, ClaimInv, NoReindex, SeqNosAreOld, OwnersHaveContent, HoldersOwn,
         DeletersMatch, ExclusiveProcessing, IndexedKeepsReservation,
         LateDeletesHarmless, Matches, Taken, Holding, digest
<1>17. ASSUME NEW w \in Worker, Resend(w) PROVE ClaimInv'
  <2>1. Goto(w, "reserve")
    BY <1>17 DEF Resend, Goto, workers, TypeOK
  <2>2. \A r \in late' : r.op = "delete" => r \in late
    BY <1>17 DEF Resend
  <2> QED
    BY <1>17, <2>1, <2>2, GotoKeepsClaims DEF Resend
<1> QED
  BY <1>1, <1>2, <1>3, <1>4, <1>5, <1>6, <1>7, <1>8, <1>9, <1>10, <1>11,
     <1>12, <1>13, <1>14, <1>15, <1>16, <1>17 DEF Next, Work

(* Without reindex the reservation of a page reported as indexed is kept,  *)
(* for every number of pages, workers, jobs, crashes and late requests.    *)
THEOREM ClaimsSafe ==
  ASSUME "reindex" \notin Pipelines
  PROVE  Spec => [](IndexedKeepsReservation /\ ExclusiveProcessing)
<1>1. Init => ClaimInv
  BY ClaimInvInit
<1>2. ClaimInv /\ TypeOK' /\ [Next]_vars => ClaimInv'
  BY ClaimInvStep
<1>3. ClaimInv => IndexedKeepsReservation /\ ExclusiveProcessing
  BY DEF ClaimInv
<1> QED
  BY <1>1, <1>2, <1>3, TypeCorrect, PTL DEF Spec

(* So of any set of pages with the same bytes at most one is ever reported *)
(* as indexed, over all processes and restarts.                            *)
THEOREM OneIndexedPerContent ==
  ASSUME "reindex" \notin Pipelines
  PROVE  Spec => []Claims!OneAckPerContent
<1>1. IndexedKeepsReservation => Claims!OneAckPerContent
  BY DEF IndexedKeepsReservation, Claims!OneAckPerContent
<1> QED
  BY <1>1, ClaimsSafe, PTL

-----------------------------------------------------------------------------
(* The pipelines implement ContentClaims: a create is a claim, a delete    *)
(* abandons one, and a report of "indexed" acknowledges its holder.        *)
THEOREM ClaimsImplemented ==
  ASSUME "reindex" \notin Pipelines
  PROVE  Spec => ImplementsClaims
<1>1. Init => Claims!Init
  BY DEF Init, Claims!Init, Indexed
<1>2. ASSUME ClaimInv, TypeOK', [Next]_vars PROVE [Claims!Next]_(Claims!vars)
  <2> USE ConstantsAssumption, <1>2
  <2> TypeOK
    BY DEF ClaimInv
  <2> DEFINE Still == UNCHANGED reservations /\ Indexed' = Indexed
  <2>1. Still => UNCHANGED Claims!vars
    BY DEF Claims!vars, reservations
  <2>2. ASSUME NEW w \in Worker, NEW k \in Pipelines, NEW p \in Page, Start(w, k, p)
        PROVE  Still
    BY <2>2, IndexedUnchanged DEF Start
  <2>3. ASSUME NEW w \in Worker, NEW st, NEW of,
               Report(w, st, of), st # "indexed", UNCHANGED reservations
        PROVE  Still
    BY <2>3, IndexedAfterReport
  <2>4. ASSUME NEW w \in Worker,
               \/ Retrieve(w) \/ ReserveFails(w) \/ Lookup(w) \/ LookupFails(w)
               \/ Store(w) \/ StoreFails(w) \/ IndexFails(w) \/ ReleaseRead(w)
               \/ ReleaseFails(w) \/ Crash(w)
        PROVE  Still
    BY <2>3, <2>4, IndexedUnchanged
       DEF Retrieve, ReserveFails, Lookup, LookupFails, Store, StoreFails, IndexFails,
           ReleaseRead, ReleaseFails, Crash
  <2>5. ASSUME NEW p \in Page, ~Taken(Content[p]), Create(p), Indexed' = Indexed
        PROVE  Claims!Claim(p)
    BY <2>5 DEF Create, Taken, Claims!Claim
  <2>6. ASSUME NEW w \in Worker, Reserve(w)
        PROVE  Still \/ Claims!Claim(page[w])
    BY <2>5, <2>6, IndexedUnchanged DEF Reserve, digest, TypeOK
  <2>7. ASSUME NEW w \in Worker, Index(w)
        PROVE  Claims!Acknowledge(page[w])
    BY <2>7, IndexedAfterReport
       DEF Index, Claims!Acknowledge, ClaimInv, HoldersOwn, Holding, digest, reservations
  <2>8. ASSUME NEW d \in Digest, NEW s, Delete(d, s), Indexed' = Indexed,
               Matches(d, s) => owner[d] \notin Indexed
        PROVE  Still \/ Claims!Abandon(d)
    BY <2>8 DEF Delete, Matches, Taken, Claims!Abandon, reservations
  <2>9. ASSUME NEW w \in Worker, ReleaseDelete(w)
        PROVE  Still \/ Claims!Abandon(digest(w))
    <3>1. /\ digest(w) \in Digest /\ owner[digest(w)] \notin Indexed
          /\ Delete(digest(w), seen[w]) /\ Report(w, "failed", None)
      BY <2>9 DEF ReleaseDelete, ClaimInv, HoldersOwn, Holding, digest, TypeOK
    <3> QED
      BY <2>8, <3>1, IndexedAfterReport
  <2>10. ASSUME NEW r \in late, TakesEffect(r)
         PROVE  Still \/ Claims!Claim(r.page) \/ Claims!Abandon(Content[r.page])
    <3>1. r.page \in Page /\ Content[r.page] \in Digest /\ Indexed' = Indexed
      BY <2>10, IndexedUnchanged DEF TakesEffect, TypeOK, Request
    <3>2. CASE r.op = "delete"
      BY <2>8, <2>10, <3>1, <3>2 DEF TakesEffect, ClaimInv, LateDeletesHarmless
    <3>3. CASE r.op # "delete"
      BY <2>5, <2>10, <3>1, <3>3 DEF TakesEffect, CreateIfFree
    <3> QED
      BY <3>2, <3>3
  <2>11. ASSUME UNCHANGED vars PROVE Still
    BY <2>11, IndexedUnchanged DEF vars, reservations
  <2>12. \A w \in Worker : step[w] # "idle" => page[w] \in Page /\ digest(w) \in Digest
    BY DEF TypeOK, digest
  <2>13. ASSUME NEW w \in Worker, Work(w) PROVE Still \/ Claims!Next
    <3>1. step[w] # "idle"
      BY <2>13 DEF Work, Retrieve, Reserve, ReserveFails, Lookup, LookupFails, Store,
                   StoreFails, Index, IndexFails, ReleaseRead, ReleaseDelete, ReleaseFails
    <3> QED
      BY <2>4, <2>6, <2>7, <2>9, <2>12, <2>13, <3>1 DEF Work, Claims!Next
  <2>14. ASSUME NEW r \in late, TakesEffect(r) PROVE Still \/ Claims!Next
    <3>1. r.page \in Page /\ Content[r.page] \in Digest
      BY DEF TypeOK, Request
    <3> QED
      BY <2>10, <2>14, <3>1 DEF Claims!Next
  <2>15. ASSUME NEW w \in Worker, Crash(w) PROVE Still
    BY <2>4, <2>15
  <2>16. ASSUME NEW w \in Worker, Resend(w) PROVE Still
    BY <2>16, IndexedUnchanged DEF Resend
  <2>17. Still \/ Claims!Next
    BY <2>2, <2>11, <2>13, <2>14, <2>15, <2>16 DEF Next
  <2> HIDE DEF Still
  <2> QED
    BY <2>1, <2>17
<1> QED
  BY <1>1, <1>2, ClaimInvInit, ClaimInvStep, TypeCorrect, PTL
     DEF Spec, ImplementsClaims, Claims!Spec

-----------------------------------------------------------------------------
(* The pipelines with reindex                                              *)
(*                                                                         *)
(* With reindex a reservation may be lost, but none is left behind unseen, *)
(* and nobody deletes another's.  AccountInv is inductive for every set of *)
(* pipelines: each reservation has a page that is archived, a worker that  *)
(* answers for it, a result that says it may be left over, or a create     *)
(* that was re-sent.                                                       *)

Excused(p) ==
  \/ p \in resent
  \/ \E r \in results : r.page = p /\ r.status \in {"unresolved", "crashed"}

Traceable(p) == Visible(p) \/ p \in resent

(* The release of w, if it comes to that, removes the reservation of d: a  *)
(* worker in its delete answers only for the write that it has read.       *)
Answers(w, d) ==
  /\ page[w] = owner[d]
  /\ \/ step[w] \in {"store", "index", "read"}
     \/ step[w] = "delete" /\ seen[w] = seqNo[d]

OwnersAnswered ==
  \A d \in Digest : owner[d] # None =>
    owner[d] \in doc \/ (\E w \in Worker : Answers(w, d)) \/ Excused(owner[d])

LateCreatesExcused == \A r \in late : r.op = "create" => Excused(r.page)

(* Behind a conflict there was a page that stays traceable.                *)
ConflictsTraceable ==
  \A w \in Worker : step[w] = "lookup" =>
    \E p \in Page : Content[p] = digest(w) /\ Traceable(p)

DeletesAreOld == \A q \in PendingDeletes : q.seq < nextSeq

AccountInv ==
  /\ TypeOK
  /\ SeqNosAreOld
  /\ OwnersHaveContent
  /\ DeletesAreOld
  /\ DeletesOnlyOwn
  /\ LateCreatesExcused
  /\ OwnersAnswered
  /\ ConflictsTraceable
  /\ DuplicateIsTraceable

(* A report stays on record.                                               *)
LEMMA Reported ==
  ASSUME NEW w, NEW st, NEW of, Report(w, st, of)
  PROVE  /\ results \subseteq results'
         /\ \E r \in results' : r.page = page[w] /\ r.status = st
<1> DEFINE new == [page |-> page[w], status |-> st, of |-> of]
<1>1. new \in results' /\ new.page = page[w] /\ new.status = st /\ results \subseteq results'
  BY DEF Report
<1> HIDE DEF new
<1> QED
  BY <1>1

(* Documents, blobs, results and histories are never taken back.           *)
LEMMA NothingTakenBack ==
  ASSUME [Next]_vars
  PROVE  /\ doc \subseteq doc' /\ blob \subseteq blob'
         /\ results \subseteq results' /\ resent \subseteq resent'
<1>1. ASSUME NEW w \in Worker, Work(w) \/ Crash(w)
      PROVE  /\ doc \subseteq doc' /\ blob \subseteq blob'
             /\ results \subseteq results' /\ resent \subseteq resent'
  BY <1>1, Reported
     DEF Work, Retrieve, Reserve, ReserveFails, Lookup, LookupFails, Store, StoreFails,
         Index, IndexFails, ReleaseRead, ReleaseDelete, ReleaseFails, Crash
<1> QED
  BY <1>1 DEF Next, Start, TakesEffect, Resend, vars

(* A worker in the middle of a job is still there after the step, or its   *)
(* page is archived, or its end is on record.                              *)
LEMMA HolderStep ==
  ASSUME TypeOK, [Next]_vars, NEW w \in Worker, NEW p, Holding(w), page[w] = p
  PROVE  \/ /\ Holding(w)' /\ page'[w] = p
            /\ \/ step'[w] = step[w] /\ seen'[w] = seen[w]
               \/ step'[w] \in {"index", "read"}
               \/ step'[w] = "delete" /\ ReleaseRead(w) /\ owner[digest(w)] = p
                    /\ seen'[w] = seqNo[digest(w)] /\ UNCHANGED reservations
         \/ p \in doc'
         \/ Excused(p)'
         \/ /\ \E r \in results' : r.page = p /\ r.status = "failed"
            /\ ReleaseDelete(w) \/ (ReleaseRead(w) /\ owner[digest(w)] # p)
<1> DEFINE Still == step'[w] = step[w] /\ page'[w] = page[w] /\ seen'[w] = seen[w]
<1> USE DEF TypeOK, Holding
<1>1. ASSUME Still PROVE Holding(w)' /\ page'[w] = p /\ step'[w] = step[w] /\ seen'[w] = seen[w]
  BY <1>1
<1>2. ASSUME NEW v \in Worker, NEW k \in Pipelines, NEW q \in Page, Start(v, k, q) PROVE Still
  BY <1>2 DEF Start
<1>3. ASSUME NEW v \in Worker, v # w, Work(v) \/ Crash(v) PROVE Still
  BY <1>3
     DEF Work, Retrieve, Reserve, ReserveFails, Lookup, LookupFails, Store, StoreFails,
         Index, IndexFails, ReleaseRead, ReleaseDelete, ReleaseFails, Crash, Goto, Report
<1>4. ASSUME NEW r \in late, TakesEffect(r) PROVE Still
  BY <1>4 DEF TakesEffect, workers
<1>5. ASSUME UNCHANGED vars \/ \E v \in Worker : Resend(v) PROVE Still
  BY <1>5 DEF vars, Resend, workers
<1>6. ASSUME Store(w) \/ StoreFails(w) \/ IndexFails(w)
      PROVE  Holding(w)' /\ page'[w] = p /\ step'[w] \in {"index", "read"}
  BY <1>6 DEF Store, StoreFails, IndexFails, Goto
<1>7. ASSUME Index(w) PROVE p \in doc'
  BY <1>7 DEF Index
<1>8. ASSUME ReleaseFails(w) \/ Crash(w) PROVE Excused(p)'
  BY <1>8, Reported DEF ReleaseFails, Crash, Excused
<1>9. ASSUME ReleaseDelete(w)
      PROVE  \E r \in results' : r.page = p /\ r.status = "failed"
  BY <1>9, Reported DEF ReleaseDelete
<1>10. ASSUME ReleaseRead(w), owner[digest(w)] # p
       PROVE  \E r \in results' : r.page = p /\ r.status = "failed"
  BY <1>10, Reported DEF ReleaseRead
<1>11. ASSUME ReleaseRead(w), owner[digest(w)] = p
       PROVE  /\ Holding(w)' /\ page'[w] = p /\ step'[w] = "delete"
              /\ seen'[w] = seqNo[digest(w)] /\ UNCHANGED reservations
  BY <1>11 DEF ReleaseRead
<1>12. ~(Retrieve(w) \/ Reserve(w) \/ ReserveFails(w) \/ Lookup(w) \/ LookupFails(w))
  BY DEF Retrieve, Reserve, ReserveFails, Lookup, LookupFails
<1> HIDE DEF Still, TypeOK, Holding
<1> QED
  BY <1>1, <1>2, <1>3, <1>4, <1>5, <1>6, <1>7, <1>8, <1>9, <1>10, <1>11, <1>12 DEF Next, Work

(* What is traceable stays traceable.                                      *)
LEMMA TraceableStays ==
  ASSUME TypeOK, [Next]_vars, NEW p, Traceable(p)
  PROVE  Traceable(p)'
<1>1. CASE \E w \in Worker : Holding(w) /\ page[w] = p
  BY <1>1, HolderStep DEF Traceable, Visible, Excused
<1>2. CASE \/ p \in doc \/ p \in resent
           \/ \E r \in results : r.page = p /\ r.status \in {"failed", "unresolved", "crashed"}
  BY <1>2, NothingTakenBack DEF Traceable, Visible
<1> QED
  BY <1>1, <1>2 DEF Traceable, Visible

(* A reservation that stays keeps somebody or something to account for it. *)
LEMMA AnsweredStays ==
  ASSUME TypeOK, OwnersHaveContent, [Next]_vars, NEW d \in Digest,
         owner[d] # None, owner'[d] = owner[d], seqNo'[d] = seqNo[d],
         owner[d] \in doc \/ (\E w \in Worker : Answers(w, d)) \/ Excused(owner[d])
  PROVE  (owner[d] \in doc \/ (\E w \in Worker : Answers(w, d)) \/ Excused(owner[d]))'
<1>1. CASE owner[d] \in doc \/ Excused(owner[d])
  BY <1>1, NothingTakenBack DEF Excused
<1>2. ASSUME NEW w \in Worker, Answers(w, d)
      PROVE  Answers(w, d)' \/ owner[d] \in doc' \/ Excused(owner[d])'
  <2>1. Holding(w) /\ page[w] = owner[d] /\ digest(w) = d
    BY <1>2 DEF Answers, Holding, OwnersHaveContent, digest
  <2>2. ~(ReleaseRead(w) /\ owner[digest(w)] # page[w])
    BY <2>1
  <2>3. ~ReleaseDelete(w)
    <3>1. CASE step[w] # "delete"
      BY <3>1 DEF ReleaseDelete
    <3>2. CASE step[w] = "delete"
      BY <1>2, <2>1, <3>2 DEF ReleaseDelete, Delete, Matches, Taken, Answers, TypeOK
    <3> QED
      BY <3>1, <3>2
  <2> QED
    BY <1>2, <2>1, <2>2, <2>3, HolderStep DEF Answers
<1> QED
  BY <1>1, <1>2

(* What a step does to the reservation of a digest: nothing, a create by a *)
(* worker or by a late request, or a removal.                              *)
LEMMA ReservationStep ==
  ASSUME TypeOK, [Next]_vars, NEW d \in Digest
  PROVE  /\ nextSeq' \in Nat /\ nextSeq <= nextSeq'
         /\ \/ owner'[d] = owner[d] /\ seqNo'[d] = seqNo[d]
            \/ owner'[d] = None /\ seqNo'[d] = seqNo[d]
            \/ /\ owner[d] = None /\ seqNo'[d] = nextSeq /\ nextSeq' = nextSeq + 1
               /\ owner'[d] \in Page /\ Content[owner'[d]] = d
               /\ \/ \E w \in Worker : page'[w] = owner'[d] /\ step'[w] \in {"store", "index"}
                  \/ \E r \in late : r.op = "create" /\ r.page = owner'[d]
<1> USE ConstantsAssumption DEF TypeOK
<1> DEFINE Goal ==
      /\ nextSeq' \in Nat /\ nextSeq <= nextSeq'
      /\ \/ owner'[d] = owner[d] /\ seqNo'[d] = seqNo[d]
         \/ owner'[d] = None /\ seqNo'[d] = seqNo[d]
         \/ /\ owner[d] = None /\ seqNo'[d] = nextSeq /\ nextSeq' = nextSeq + 1
            /\ owner'[d] \in Page /\ Content[owner'[d]] = d
            /\ \/ \E w \in Worker : page'[w] = owner'[d] /\ step'[w] \in {"store", "index"}
               \/ \E r \in late : r.op = "create" /\ r.page = owner'[d]
<1>1. ASSUME UNCHANGED reservations PROVE Goal
  BY <1>1 DEF reservations
<1>2. ASSUME NEW e \in Digest, NEW s, Delete(e, s) PROVE Goal
  BY <1>2 DEF Delete
<1>3. ASSUME NEW p \in Page, ~Taken(Content[p]), Create(p),
             \/ \E w \in Worker : page'[w] = p /\ step'[w] \in {"store", "index"}
             \/ \E r \in late : r.op = "create" /\ r.page = p
      PROVE  Goal
  BY <1>3 DEF Create, Taken
<1>4. ASSUME NEW w \in Worker, Reserve(w) PROVE Goal
  <2>1. page[w] \in Page
    BY <1>4 DEF Reserve
  <2>2. CASE Create(page[w]) /\ ~Taken(digest(w)) /\ Goto(w, AfterReserve(pipeline[w]))
    <3>1. page'[w] = page[w] /\ step'[w] \in {"store", "index"}
      BY <2>2 DEF Goto, AfterReserve
    <3> QED
      BY <1>3, <2>1, <2>2, <3>1 DEF digest
  <2> QED
    BY <1>1, <1>4, <2>2 DEF Reserve
<1>5. ASSUME NEW w \in Worker, ReleaseDelete(w) PROVE Goal
  BY <1>2, <1>5 DEF ReleaseDelete, digest
<1>6. ASSUME NEW r \in late, TakesEffect(r) PROVE Goal
  <2>1. r.page \in Page /\ Content[r.page] \in Digest
    BY DEF Request
  <2> QED
    BY <1>1, <1>2, <1>3, <1>6, <2>1 DEF TakesEffect, CreateIfFree
<1>7. ASSUME NEW w \in Worker, Work(w) \/ Crash(w), ~Reserve(w), ~ReleaseDelete(w)
      PROVE  UNCHANGED reservations
  BY <1>7
     DEF Work, Retrieve, ReserveFails, Lookup, LookupFails, Store, StoreFails,
         Index, IndexFails, ReleaseRead, ReleaseFails, Crash
<1>8. ASSUME NEW w \in Worker, NEW k \in Pipelines, NEW p \in Page, Start(w, k, p)
      PROVE  UNCHANGED reservations
  BY <1>8 DEF Start
<1>9. ASSUME UNCHANGED vars \/ \E w \in Worker : Resend(w) PROVE UNCHANGED reservations
  BY <1>9 DEF vars, Resend, reservations
<1> HIDE DEF Goal, TypeOK
<1>10. Goal
  BY <1>1, <1>4, <1>5, <1>6, <1>7, <1>8, <1>9 DEF Next, Work
<1> QED
  BY <1>10 DEF Goal

(* A create still to come was re-sent, or its worker gave up and said so.  *)
LEMMA LateCreateStep ==
  ASSUME TypeOK, [Next]_vars, NEW r \in late', r \notin late, r.op = "create"
  PROVE  Excused(r.page)'
<1>1. ASSUME NEW w \in Worker, ReserveFails(w) \/ (Crash(w) /\ step[w] = "reserve")
      PROVE  Excused(r.page)'
  <2>1. r.page = page[w]
    BY <1>1 DEF ReserveFails, Crash, Abandoned
  <2>2. \E x \in results' : x.page = page[w] /\ x.status \in {"unresolved", "crashed"}
    BY <1>1, Reported DEF ReserveFails, Crash
  <2> QED
    BY <2>1, <2>2 DEF Excused
<1>2. ASSUME NEW w \in Worker, Work(w) \/ Crash(w)
      PROVE  ReserveFails(w) \/ (Crash(w) /\ step[w] = "reserve")
  BY <1>2
     DEF Work, Retrieve, Reserve, Lookup, LookupFails, Store, StoreFails, Index,
         IndexFails, ReleaseRead, ReleaseDelete, ReleaseFails, Crash, Abandoned
<1>3. ASSUME NEW w \in Worker, Resend(w) PROVE Excused(r.page)'
  BY <1>3 DEF Resend, Excused
<1> QED
  BY <1>1, <1>2, <1>3 DEF Next, Start, TakesEffect, vars

(* A new delete is for a reservation of its own page that still stands.    *)
LEMMA PendingDeleteStep ==
  ASSUME TypeOK, [Next]_vars, NEW q \in PendingDeletes'
  PROVE  /\ q.page \in Page /\ q.seq \in Nat
         /\ \/ q \in PendingDeletes
            \/ /\ owner[Content[q.page]] = q.page /\ q.seq = seqNo[Content[q.page]]
               /\ UNCHANGED reservations
<1> USE ConstantsAssumption DEF TypeOK
<1> DEFINE d(w) == [page |-> page[w], seq |-> seen[w]]
           l(r) == [page |-> r.page, seq |-> r.seq]
<1>1. \A w \in Worker : step[w] = "delete" =>
        d(w) \in PendingDeletes /\ page[w] \in Page /\ seen[w] \in Nat
  BY DEF PendingDeletes
<1>2. \A r \in late : r.op = "delete" =>
        l(r) \in PendingDeletes /\ r.page \in Page /\ r.seq \in Nat
  BY DEF PendingDeletes, Request
<1>3. ASSUME NEW w \in Worker, step'[w] = "delete", q = [page |-> page'[w], seq |-> seen'[w]]
      PROVE  /\ q.page \in Page /\ q.seq \in Nat
             /\ \/ q \in PendingDeletes
                \/ /\ owner[Content[q.page]] = q.page /\ q.seq = seqNo[Content[q.page]]
                   /\ UNCHANGED reservations
  <2>1. ASSUME step[w] = "delete", page'[w] = page[w], seen'[w] = seen[w]
        PROVE  q \in PendingDeletes /\ q.page \in Page /\ q.seq \in Nat
    BY <1>1, <1>3, <2>1
  <2>2. ASSUME ReleaseRead(w)
        PROVE  /\ q.page \in Page /\ q.seq \in Nat
               /\ owner[Content[q.page]] = q.page /\ q.seq = seqNo[Content[q.page]]
               /\ UNCHANGED reservations
    BY <1>3, <2>2 DEF ReleaseRead, Report, digest
  <2>3. ASSUME NEW v \in Worker, Work(v) \/ Crash(v), ~(v = w /\ ReleaseRead(w))
        PROVE  step[w] = "delete" /\ page'[w] = page[w] /\ seen'[w] = seen[w]
    BY <1>3, <2>3
       DEF Work, Retrieve, Reserve, ReserveFails, Lookup, LookupFails, Store, StoreFails, Index,
           IndexFails, ReleaseRead, ReleaseDelete, ReleaseFails, Crash, Goto, Report, AfterReserve
  <2>4. ASSUME NEW v \in Worker, NEW k \in Pipelines, NEW p \in Page, Start(v, k, p)
        PROVE  step[w] = "delete" /\ page'[w] = page[w] /\ seen'[w] = seen[w]
    BY <1>3, <2>4 DEF Start
  <2>5. ASSUME \/ \E r \in late : TakesEffect(r)
               \/ \E v \in Worker : Resend(v)
               \/ UNCHANGED vars
        PROVE  step[w] = "delete" /\ page'[w] = page[w] /\ seen'[w] = seen[w]
    BY <1>3, <2>5 DEF TakesEffect, Resend, workers, vars
  <2> QED
    BY <2>1, <2>2, <2>3, <2>4, <2>5 DEF Next
<1>4. ASSUME NEW r \in late', r.op = "delete", q = [page |-> r.page, seq |-> r.seq]
      PROVE  q \in PendingDeletes /\ q.page \in Page /\ q.seq \in Nat
  <2>1. ASSUME NEW w \in Worker, step[w] = "delete",
               r = [op |-> "delete", page |-> page[w], seq |-> seen[w]]
        PROVE  q \in PendingDeletes /\ q.page \in Page /\ q.seq \in Nat
    BY <1>1, <1>4, <2>1
  <2>2. r \in late \/ \E w \in Worker :
          step[w] = "delete" /\ r = [op |-> "delete", page |-> page[w], seq |-> seen[w]]
    <3>1. ASSUME NEW w \in Worker, Work(w) \/ Crash(w), r \notin late
          PROVE  step[w] = "delete" /\ r = [op |-> "delete", page |-> page[w], seq |-> seen[w]]
      BY <1>4, <3>1
         DEF Work, Retrieve, Reserve, ReserveFails, Lookup, LookupFails, Store, StoreFails, Index,
             IndexFails, ReleaseRead, ReleaseDelete, ReleaseFails, Crash, Abandoned
    <3> QED
      BY <1>4, <3>1 DEF Next, Start, TakesEffect, Resend, vars
  <2> QED
    BY <1>2, <1>4, <2>1, <2>2
<1>5. \/ \E w \in Worker : step'[w] = "delete" /\ q = [page |-> page'[w], seq |-> seen'[w]]
      \/ \E r \in late' : r.op = "delete" /\ q = [page |-> r.page, seq |-> r.seq]
  BY DEF PendingDeletes
<1> QED
  BY <1>3, <1>4, <1>5

LEMMA AccountInvInit == Init => AccountInv
<1> SUFFICES ASSUME Init PROVE AccountInv
  OBVIOUS
<1> USE ConstantsAssumption DEF Init
<1>1. TypeOK
  BY DEF TypeOK, Steps, AllPipelines
<1>2. PendingDeletes = {}
  BY DEF PendingDeletes
<1> QED
  BY <1>1, <1>2
     DEF AccountInv, SeqNosAreOld, OwnersHaveContent, DeletesAreOld, DeletesOnlyOwn,
         LateCreatesExcused, OwnersAnswered, ConflictsTraceable, DuplicateIsTraceable

(* The verdict "duplicate" is passed on by a worker that met a conflict,   *)
(* and a worker meets one because some page has the reservation.           *)
LEMMA ConflictStep ==
  ASSUME TypeOK, TypeOK', [Next]_vars
  PROVE  /\ \A w \in Worker : step'[w] = "lookup" =>
              /\ page'[w] = page[w] /\ page[w] \in Page
              /\ step[w] = "lookup" \/ owner[digest(w)] # None
         /\ \A r \in results' : r.status = "duplicate" =>
              r \in results \/ \E w \in Worker : step[w] = "lookup" /\ r.page = page[w]
<1> USE DEF TypeOK
<1>1. ASSUME NEW w \in Worker, step'[w] = "lookup"
      PROVE  page'[w] = page[w] /\ (step[w] = "lookup" \/ owner[digest(w)] # None)
  <2>1. ASSUME NEW v \in Worker, Work(v) \/ Crash(v)
        PROVE  page'[w] = page[w] /\ (step[w] = "lookup" \/ owner[digest(w)] # None)
    BY <1>1, <2>1
       DEF Work, Retrieve, Reserve, ReserveFails, Lookup, LookupFails, Store, StoreFails, Index,
           IndexFails, ReleaseRead, ReleaseDelete, ReleaseFails, Crash, Goto, Report,
           AfterReserve, Taken
  <2> QED
    BY <1>1, <2>1 DEF Next, Start, TakesEffect, Resend, workers, vars
<1>2. ASSUME NEW w \in Worker, step'[w] = "lookup" PROVE page[w] \in Page
  <2>1. page'[w] = page[w] /\ (step[w] = "lookup" \/ owner[digest(w)] # None)
    BY <1>1, <1>2
  <2> QED
    BY <1>2, <2>1
<1>3. ASSUME NEW r \in results', r.status = "duplicate", r \notin results
      PROVE  \E w \in Worker : step[w] = "lookup" /\ r.page = page[w]
  <2>1. ASSUME NEW w \in Worker, Work(w) \/ Crash(w)
        PROVE  step[w] = "lookup" /\ r.page = page[w]
    BY <1>3, <2>1
       DEF Work, Retrieve, Reserve, ReserveFails, Lookup, LookupFails, Store, StoreFails, Index,
           IndexFails, ReleaseRead, ReleaseDelete, ReleaseFails, Crash, Goto, Report
  <2> QED
    BY <1>3, <2>1 DEF Next, Start, TakesEffect, Resend, vars
<1> QED
  BY <1>1, <1>2, <1>3

LEMMA AccountInvStep ==
  ASSUME AccountInv, TypeOK', [Next]_vars
  PROVE  AccountInv'
<1> USE ConstantsAssumption DEF AccountInv
<1>1. SeqNosAreOld' /\ OwnersHaveContent'
  <2> SUFFICES ASSUME NEW d \in Digest
               PROVE  seqNo'[d] < nextSeq' /\ (owner'[d] # None => Content[owner'[d]] = d)
    BY DEF SeqNosAreOld, OwnersHaveContent
  <2> QED
    BY ReservationStep DEF SeqNosAreOld, OwnersHaveContent, TypeOK
<1>2. DeletesAreOld' /\ DeletesOnlyOwn'
  <2> SUFFICES ASSUME NEW q \in PendingDeletes'
               PROVE  /\ q.seq < nextSeq'
                      /\ Matches(Content[q.page], q.seq)' => owner'[Content[q.page]] = q.page
    BY DEF DeletesAreOld, DeletesOnlyOwn
  <2> DEFINE d == Content[q.page]
  <2>1. d \in Digest /\ q.seq \in Nat
    BY PendingDeleteStep
  <2>2. CASE q \in PendingDeletes
    <3>1. q.seq < nextSeq /\ (owner[d] # None /\ seqNo[d] = q.seq => owner[d] = q.page)
      BY <2>2 DEF DeletesAreOld, DeletesOnlyOwn, Matches, Taken
    <3> QED
      BY <2>1, <3>1, ReservationStep DEF Matches, Taken, TypeOK
  <2>3. CASE owner[d] = q.page /\ q.seq = seqNo[d] /\ UNCHANGED reservations
    BY <2>1, <2>3 DEF SeqNosAreOld, reservations
  <2> QED
    BY <2>2, <2>3, PendingDeleteStep
<1>3. LateCreatesExcused'
  <2> SUFFICES ASSUME NEW r \in late', r.op = "create" PROVE Excused(r.page)'
    BY DEF LateCreatesExcused
  <2>1. CASE r \in late
    BY <2>1, NothingTakenBack DEF LateCreatesExcused, Excused
  <2> QED
    BY <2>1, LateCreateStep
<1>4. OwnersAnswered'
  <2> SUFFICES ASSUME NEW d \in Digest, owner'[d] # None
               PROVE  (owner[d] \in doc \/ (\E w \in Worker : Answers(w, d)) \/ Excused(owner[d]))'
    BY DEF OwnersAnswered
  <2>1. CASE owner'[d] = owner[d] /\ seqNo'[d] = seqNo[d]
    BY <2>1, AnsweredStays DEF OwnersAnswered
  <2>2. ASSUME NEW w \in Worker, page'[w] = owner'[d], step'[w] \in {"store", "index"}
        PROVE  Answers(w, d)'
    BY <2>2 DEF Answers
  <2>3. ASSUME NEW r \in late, r.op = "create", r.page = owner'[d]
        PROVE  Excused(owner[d])'
    BY <2>3, NothingTakenBack DEF LateCreatesExcused, Excused
  <2> QED
    BY <2>1, <2>2, <2>3, ReservationStep
<1>5. ConflictsTraceable'
  <2> SUFFICES ASSUME NEW w \in Worker, step'[w] = "lookup"
               PROVE  \E p \in Page : Content[p] = digest(w)' /\ Traceable(p)'
    BY DEF ConflictsTraceable
  <2>1. page'[w] = page[w] /\ page[w] \in Page /\ digest(w)' = digest(w)
    BY ConflictStep DEF digest
  <2>2. \E p \in Page : Content[p] = digest(w) /\ Traceable(p)
    <3>1. CASE step[w] = "lookup"
      BY <3>1 DEF ConflictsTraceable
    <3>2. CASE owner[digest(w)] # None
      <4>1. digest(w) \in Digest /\ owner[digest(w)] \in Page
        BY <2>1, <3>2 DEF TypeOK, digest
      <4>2. Traceable(owner[digest(w)])
        BY <3>2, <4>1 DEF OwnersAnswered, Answers, Excused, Traceable, Visible, Holding
      <4> QED
        BY <3>2, <4>1, <4>2 DEF OwnersHaveContent
    <3> QED
      BY <3>1, <3>2, ConflictStep
  <2> QED
    BY <2>1, <2>2, TraceableStays
<1>6. DuplicateIsTraceable'
  <2> SUFFICES ASSUME NEW r \in results', r.status = "duplicate"
               PROVE  \E p \in Page : Content[p] = Content[r.page] /\ Traceable(p)'
    BY DEF DuplicateIsTraceable, Traceable
  <2>1. CASE r \in results
    BY <2>1, TraceableStays DEF DuplicateIsTraceable, Traceable
  <2>2. ASSUME NEW w \in Worker, step[w] = "lookup", r.page = page[w]
        PROVE  \E p \in Page : Content[p] = Content[r.page] /\ Traceable(p)'
    BY <2>2, TraceableStays DEF ConflictsTraceable, digest
  <2> QED
    BY <2>1, <2>2, ConflictStep
<1> QED
  BY <1>1, <1>2, <1>3, <1>4, <1>5, <1>6

LEMMA Accounted == Spec => []AccountInv
<1>1. AccountInv /\ TypeOK' /\ [Next]_vars => AccountInv'
  BY AccountInvStep
<1> QED
  BY <1>1, AccountInvInit, TypeCorrect, PTL DEF Spec

(* A release deletes only the reservation of its own page, whenever its    *)
(* request arrives, with every pipeline.                                   *)
THEOREM ReleasesOnlyOwn == Spec => []DeletesOnlyOwn
<1>1. AccountInv => DeletesOnlyOwn
  BY DEF AccountInv
<1> QED
  BY <1>1, Accounted, PTL

(* A reservation is left behind only by a crash, by a failed request of    *)
(* the protocol itself or by a create that was re-sent, with every         *)
(* pipeline.                                                               *)
THEOREM NoneLeftBehind == Spec => []ReservationsAccountedFor
<1>1. AccountInv => ReservationsAccountedFor
  BY DEF AccountInv, OwnersAnswered, Answers, Excused, ReservationsAccountedFor, Holding
<1> QED
  BY <1>1, Accounted, PTL

(* No content disappears between submitters that are all told "duplicate", *)
(* unless the create of one of them was re-sent.                           *)
THEOREM DuplicatesTraceable == Spec => []DuplicateIsTraceable
<1>1. AccountInv => DuplicateIsTraceable
  BY DEF AccountInv
<1> QED
  BY <1>1, Accounted, PTL

-----------------------------------------------------------------------------
(* Blobs come first                                                        *)

StoredFirst ==
  /\ doc \subseteq blob /\ Indexed \subseteq blob
  /\ \A r \in late : r.op = "index" => r.page \in blob
  /\ \A w \in Worker :
       step[w] # "idle" =>
         /\ pipeline[w] # "unstored"
         /\ step[w] = "index" \/ pipeline[w] = "reindex" => page[w] \in blob

LEMMA StoredFirstStep ==
  ASSUME "unstored" \notin Pipelines, TypeOK, StoredFirst, [Next]_vars
  PROVE  StoredFirst'
<1> USE DEF TypeOK, StoredFirst
<1>1. ASSUME NEW w \in Worker, NEW k \in Pipelines, NEW p \in Page, Start(w, k, p)
      PROVE  StoredFirst'
  BY <1>1, IndexedUnchanged DEF Start
<1>2. ASSUME NEW w \in Worker, NEW s, Goto(w, s), UNCHANGED <<doc, results>>,
             step[w] # "idle", blob \subseteq blob', s = "index" => page[w] \in blob',
             \A r \in late' : r \in late \/ (r.op = "index" => r.page \in blob)
      PROVE  StoredFirst'
  BY <1>2, IndexedUnchanged DEF Goto
<1>3. ASSUME NEW w \in Worker, NEW st, NEW of, Report(w, st, of), UNCHANGED blob,
             st = "indexed" => page[w] \in blob,
             doc' \in {doc, doc \cup {page[w]}}, doc' # doc => page[w] \in blob,
             \A r \in late' : r \in late \/ (r.op = "index" => r.page \in blob)
      PROVE  StoredFirst'
  BY <1>3, IndexedAfterReport DEF Report
<1> HIDE DEF StoredFirst
<1>4. ASSUME NEW w \in Worker, Work(w) \/ Crash(w) PROVE StoredFirst'
  <2>1. CASE Retrieve(w)
    BY <1>2, <1>3, <2>1 DEF Retrieve
  <2>2. CASE Reserve(w)
    BY <1>2, <2>2 DEF Reserve, AfterReserve, StoresBlob, StoredFirst, AllPipelines
  <2>3. CASE ReserveFails(w) \/ LookupFails(w) \/ ReleaseDelete(w) \/ ReleaseFails(w)
    BY <1>3, <2>3 DEF ReserveFails, LookupFails, ReleaseDelete, ReleaseFails, Abandoned
  <2>4. CASE Lookup(w)
    BY <1>2, <1>3, <2>4 DEF Lookup, Proceeds, StoredFirst
  <2>5. CASE Store(w) \/ StoreFails(w)
    BY <1>2, <2>5 DEF Store, StoreFails
  <2>6. CASE Index(w)
    BY <1>3, <2>6 DEF Index, StoredFirst
  <2>7. CASE IndexFails(w)
    BY <1>2, <2>7 DEF IndexFails, Abandoned, StoredFirst
  <2>8. CASE ReleaseRead(w)
    BY <1>3, <2>8, IndexedUnchanged DEF ReleaseRead, StoredFirst
  <2>9. CASE Crash(w)
    BY <1>3, <2>9 DEF Crash, Abandoned, StoredFirst
  <2> QED
    BY <1>4, <2>1, <2>2, <2>3, <2>4, <2>5, <2>6, <2>7, <2>8, <2>9 DEF Work
<1>5. ASSUME NEW r \in late, TakesEffect(r) PROVE StoredFirst'
  BY <1>5, IndexedUnchanged DEF TakesEffect, workers, StoredFirst
<1>6. CASE UNCHANGED vars
  BY <1>6, IndexedUnchanged DEF vars, StoredFirst
<1>7. ASSUME NEW w \in Worker, Resend(w) PROVE StoredFirst'
  BY <1>7, IndexedUnchanged DEF Resend, workers, StoredFirst
<1> QED
  BY <1>1, <1>4, <1>5, <1>6, <1>7 DEF Next

(* Without the pipelines that have no storage, whatever is indexed or is   *)
(* still to be indexed by a late request has its blob.                     *)
THEOREM BlobsComeFirst ==
  ASSUME "unstored" \notin Pipelines
  PROVE  Spec => []IndexedIsStored
<1>1. Init => StoredFirst
  BY DEF Init, StoredFirst, Indexed
<1>2. TypeOK /\ StoredFirst /\ [Next]_vars => StoredFirst'
  BY StoredFirstStep
<1>3. StoredFirst => IndexedIsStored
  BY DEF StoredFirst, IndexedIsStored
<1> QED
  BY <1>1, <1>2, <1>3, TypeCorrect, PTL DEF Spec
=============================================================================
