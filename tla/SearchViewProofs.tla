-------------------------- MODULE SearchViewProofs --------------------------
(***************************************************************************)
(* Proofs about SearchView: the newest search wins, and the pages it shows *)
(* are in order, for any terms, filters, numbers of hits and overlapping   *)
(* requests.                                                               *)
(*                                                                         *)
(* NewestWins is not inductive: whether the hits of an answer are those of *)
(* the query asked for last depends on what was sent, when, and under      *)
(* which generation.  RequestsTraced and Asked say so.                     *)
(*                                                                         *)
(* Nor is PagesInOrder: a request that has been given up may still advance *)
(* the cursor, before or after the next one does.  PagesInv says whose the *)
(* cursors are, that one request for more is awaited at most, and where    *)
(* the cursor is with respect to what is shown.                            *)
(***************************************************************************)
EXTENDS SearchView, TLAPS

(* Every request is of this generation or an older one, and a scroll read  *)
(* for a request is a cursor of that request's query.                      *)
RequestsTraced ==
  \A r \in DOMAIN requests :
    /\ requests[r].searchGeneration <= searchGeneration
    /\ requests[r].kind = "more" \/ requests[r].server = "handled" =>
         /\ requests[r].scroll \in DOMAIN scrolls
         /\ scrolls[requests[r].scroll].query = requests[r].query

(* Unless a timer is pending, what this generation waits for and the       *)
(* scroll it reads are of the query asked for last.                        *)
Asked ==
  debounce = Nil =>
    /\ \A r \in DOMAIN requests :
         Current(r) /\ requests[r].status = "waiting" =>
           requests[r].query = wanted /\ wanted # Nothing
    /\ scrollId # Nil => scrolls[scrollId].query = wanted /\ wanted # Nothing

IInv == SearchTypeOK /\ RequestsTraced /\ Asked /\ NewestWins

-----------------------------------------------------------------------------
(* Operators on sequences and requests                                     *)

(* An element of a sequence can be replaced.                               *)
LEMMA Replaced ==
  ASSUME NEW S, NEW s \in Seq(S), NEW i \in DOMAIN s, NEW x \in S
  PROVE  /\ [s EXCEPT ![i] = x] \in Seq(S)
         /\ DOMAIN [s EXCEPT ![i] = x] = DOMAIN s
  OBVIOUS

(* Appending leaves the elements that were there.                          *)
LEMMA Appended ==
  ASSUME NEW S, NEW s \in Seq(S), NEW x \in S
  PROVE  /\ Append(s, x) \in Seq(S)
         /\ DOMAIN s \subseteq DOMAIN Append(s, x)
         /\ \A i \in DOMAIN s : Append(s, x)[i] = s[i]
         /\ Len(s) + 1 \in DOMAIN Append(s, x)
         /\ Append(s, x)[Len(s) + 1] = x
         /\ \A i \in DOMAIN Append(s, x) : i \in DOMAIN s \/ i = Len(s) + 1
  OBVIOUS

(* An element of a sequence, and its place.                                *)
LEMMA Element ==
  ASSUME NEW S, NEW s \in Seq(S), NEW i \in DOMAIN s
  PROVE  i \in Nat /\ s[i] \in S
  OBVIOUS

(* A scroll ID is a number, and its cursor has a query.                    *)
LEMMA CursorOf ==
  ASSUME NEW cursors \in Seq([query : Query, next : Nat]), NEW s \in DOMAIN cursors
  PROVE  s \in Nat /\ cursors[s].query \in Query /\ cursors[s].next \in Nat
<1> DEFINE Cursor == [query : Query, next : Nat]
<1>1. cursors \in Seq(Cursor) /\ s \in DOMAIN cursors
  OBVIOUS
<1> HIDE DEF Cursor
<1>2. s \in Nat /\ cursors[s] \in Cursor
  BY <1>1, Element
<1> QED
  BY <1>2 DEF Cursor

(* A query is made of its two parts.                                       *)
LEMMA QueryOf ==
  /\ \A t \in Term, f \in Filters : Of(t, f) \in Query
  /\ \A q \in Query : q.term \in Term /\ q.filters \in Filters /\ q = Of(q.term, q.filters)
  /\ Nothing \in Query
  BY SearchAssumption DEF Query, Of, Nothing

(* What a request that is sent is.                                         *)
LEMMA Sent ==
  ASSUME NEW kind \in {"search", "more"}, NEW g \in Nat, NEW q \in Query, NEW s \in Nat
  PROVE  /\ NewRequest(kind, g, q, s) \in Request
         /\ NewRequest(kind, g, q, s).kind = kind
         /\ NewRequest(kind, g, q, s).searchGeneration = g
         /\ NewRequest(kind, g, q, s).query = q
         /\ NewRequest(kind, g, q, s).scroll = s
         /\ NewRequest(kind, g, q, s).server = "sent"
         /\ ~NewRequest(kind, g, q, s).resent
         /\ NewRequest(kind, g, q, s).status = "waiting"
  BY DEF NewRequest, Request

(* A request that ends keeps everything but its status.                    *)
LEMMA Ended ==
  ASSUME SearchTypeOK, NEW r \in DOMAIN requests, NEW status \in {"answered", "failed"},
         Ends(r, status)
  PROVE  /\ requests' \in Seq(Request) /\ DOMAIN requests' = DOMAIN requests
         /\ \A i \in DOMAIN requests :
              /\ requests'[i].kind = requests[i].kind
              /\ requests'[i].searchGeneration = requests[i].searchGeneration
              /\ requests'[i].query = requests[i].query
              /\ requests'[i].scroll = requests[i].scroll
              /\ requests'[i].server = requests[i].server /\ requests'[i].page = requests[i].page
              /\ requests'[i].resent = requests[i].resent
              /\ requests'[i].status = IF i = r THEN status ELSE requests[i].status
              /\ requests'[i].status = "waiting" => requests[i].status = "waiting"
<1> DEFINE new == [requests[r] EXCEPT !.status = status]
<1>1. requests \in Seq(Request) /\ requests[r] \in Request
  BY DEF SearchTypeOK, RequestsOK
<1>2. new \in Request
  BY <1>1 DEF Request
<1>3. /\ new.kind = requests[r].kind /\ new.searchGeneration = requests[r].searchGeneration
      /\ new.query = requests[r].query /\ new.scroll = requests[r].scroll
      /\ new.server = requests[r].server /\ new.page = requests[r].page /\ new.status = status
      /\ new.resent = requests[r].resent
  BY <1>1 DEF Request
<1>4. requests' = [requests EXCEPT ![r] = new]
  BY DEF Ends
<1> HIDE DEF new
<1>5. requests' \in Seq(Request) /\ DOMAIN requests' = DOMAIN requests
  BY <1>1, <1>2, <1>4, Replaced
<1>6. \A i \in DOMAIN requests : requests'[i] = IF i = r THEN new ELSE requests[i]
  BY <1>1, <1>4
<1> QED
  BY <1>3, <1>5, <1>6

-----------------------------------------------------------------------------
(* Steps                                                                   *)

(* No request is of a generation to come.                                  *)
LEMMA OlderGenerations ==
  ASSUME SearchTypeOK, RequestsTraced
  PROVE  \A i \in DOMAIN requests :
           /\ requests[i].searchGeneration \in Nat /\ requests[i].searchGeneration <= searchGeneration
           /\ requests[i].searchGeneration <= searchGeneration + 1
           /\ requests[i].searchGeneration # searchGeneration + 1
<1>1. \A i \in DOMAIN requests : requests[i] \in Request
  BY DEF SearchTypeOK, RequestsOK
<1>2. searchGeneration \in Nat
  BY SearchAssumption DEF SearchTypeOK, ShownOK
<1> QED
  BY <1>1, <1>2 DEF RequestsTraced, Request

(* A search starts: nothing of it is known yet, and nothing older counts.  *)
LEMMA SearchStep ==
  ASSUME IInv, NEW t \in Term, NEW f \in Filters, Search(t, f), wanted' = Of(t, f)
  PROVE  IInv'
<1> DEFINE new == NewRequest("search", searchGeneration + 1, Of(t, f), 0)
<1> USE DEF IInv
<1>1. Of(t, f) \in Query /\ searchGeneration \in Nat /\ requests \in Seq(Request)
  BY QueryOf, SearchAssumption DEF SearchTypeOK, ShownOK, RequestsOK
<1>2. /\ searchGeneration' = searchGeneration + 1 /\ searchGeneration' \in 0..MaxSearches
      /\ debounce' = Nil /\ scrollId' = Nil /\ scrolls' = scrolls
      /\ loadingMore' = FALSE /\ searchTerm' = t /\ activeFilters' = f
  BY SearchAssumption DEF Search, NewGeneration, SearchTypeOK, ShownOK
<1>3. /\ new \in Request /\ new.kind = "search" /\ new.searchGeneration = searchGeneration + 1
      /\ new.query = Of(t, f) /\ new.server = "sent"
  BY <1>1, Sent
<1>4. \/ /\ Of(t, f) = Nothing /\ requests' = requests
         /\ results' = << >> /\ total' = 0
      \/ /\ Of(t, f) # Nothing /\ requests' = Append(requests, new)
         /\ results' = results /\ total' = total
  BY DEF Search, SendRequest
<1>10. \/ loading' = FALSE /\ results' = << >>
       \/ loading' = TRUE
  BY DEF Search
<1> HIDE DEF new
<1>5. /\ requests' \in Seq(Request)
      /\ \A i \in DOMAIN requests' :
           \/ i \in DOMAIN requests /\ requests'[i] = requests[i]
           \/ requests'[i] = new /\ Of(t, f) # Nothing
  BY <1>1, <1>3, <1>4, Appended
<1>6. SearchTypeOK'
  <2>1. results' \in Seq(Hit) /\ total' \in Nat
    <3>1. results \in Seq(Hit) /\ total \in Nat
      BY DEF SearchTypeOK, ShownOK
    <3>2. << >> \in Seq(Hit) /\ 0 \in Nat
      OBVIOUS
    <3> QED
      BY <1>4, <3>1, <3>2, Zenon
  <2>2. ShownOK'
    BY <1>1, <1>2, <2>1 DEF ShownOK
  <2>3. LoadingOK'
    BY <1>2, <1>10 DEF LoadingOK
  <2>4. RequestsOK'
    BY <1>2, <1>5 DEF SearchTypeOK, RequestsOK
  <2> QED
    BY <2>2, <2>3, <2>4 DEF SearchTypeOK
<1>7. RequestsTraced'
  <2> SUFFICES ASSUME NEW i \in DOMAIN requests'
               PROVE  /\ requests'[i].searchGeneration <= searchGeneration'
                      /\ requests'[i].kind = "more" \/ requests'[i].server = "handled" =>
                           /\ requests'[i].scroll \in DOMAIN scrolls'
                           /\ scrolls'[requests'[i].scroll].query = requests'[i].query
    BY DEF RequestsTraced
  <2>1. CASE i \in DOMAIN requests /\ requests'[i] = requests[i]
    BY <1>2, <2>1, OlderGenerations DEF RequestsTraced
  <2>2. CASE requests'[i] = new
    BY <1>1, <1>2, <1>3, <2>2
  <2> QED
    BY <1>5, <2>1, <2>2
<1>8. Asked'
  <2>1. \A i \in DOMAIN requests : requests[i].searchGeneration # searchGeneration'
    BY <1>1, <1>2, OlderGenerations
  <2> QED
    BY <1>2, <1>3, <1>5, <2>1 DEF Asked, Current
<1>9. NewestWins'
  BY <1>2, <1>10 DEF NewestWins
<1> QED
  BY <1>6, <1>7, <1>8, <1>9

(* Everything is forgotten, and what is still waited for is of an older    *)
(* generation.                                                             *)
LEMMA ClearStep ==
  ASSUME IInv, Clear
  PROVE  IInv'
<1> USE DEF IInv
<1>1. searchGeneration \in Nat /\ requests \in Seq(Request)
  BY SearchAssumption DEF SearchTypeOK, ShownOK, RequestsOK
<1>2. /\ searchGeneration' = searchGeneration + 1 /\ searchGeneration' \in 0..MaxSearches
      /\ debounce' = Nil /\ scrollId' = Nil /\ scrolls' = scrolls /\ requests' = requests
      /\ searchTerm' = Blank /\ activeFilters' = NoFilters /\ wanted' = Nothing
      /\ results' = << >> /\ total' = 0
  BY SearchAssumption DEF Clear, NewGeneration, SearchTypeOK, ShownOK
<1>3. loadingMore' = FALSE /\ loading' = FALSE
  BY DEF Clear, NewGeneration
<1>4. SearchTypeOK'
  <2>1. ShownOK'
    BY <1>1, <1>2, QueryOf, SearchAssumption DEF ShownOK
  <2>2. LoadingOK'
    BY <1>3 DEF LoadingOK
  <2>3. RequestsOK'
    BY <1>2 DEF SearchTypeOK, RequestsOK
  <2> QED
    BY <2>1, <2>2, <2>3 DEF SearchTypeOK
<1>5. RequestsTraced'
  BY <1>1, <1>2, OlderGenerations DEF RequestsTraced
<1>6. Asked'
  <2>1. \A i \in DOMAIN requests : requests[i].searchGeneration # searchGeneration'
    BY <1>1, <1>2, OlderGenerations
  <2> QED
    BY <1>2, <2>1 DEF Asked, Current
<1>7. NewestWins'
  BY <1>2, <1>3 DEF NewestWins
<1> QED
  BY <1>4, <1>5, <1>6, <1>7

(* Typing in the box touches no request.                                   *)
LEMMA EditStep ==
  ASSUME IInv, NEW t \in Term, Edit(t)
  PROVE  IInv'
<1> USE DEF IInv
<1>1. /\ searchTerm' = t /\ activeFilters' = activeFilters
      /\ results' = results /\ total' = total /\ scrollId' = scrollId
      /\ searchGeneration' = searchGeneration /\ debounce' = debounce /\ wanted' = wanted
      /\ requests' = requests /\ scrolls' = scrolls
  BY DEF Edit, shown
<1>2. loading' = loading /\ loadingMore' = loadingMore
  BY DEF Edit
<1>3. ShownOK'
  BY <1>1 DEF SearchTypeOK, ShownOK
<1>4. LoadingOK' /\ RequestsOK'
  BY <1>1, <1>2 DEF SearchTypeOK, LoadingOK, RequestsOK
<1>5. RequestsTraced' /\ Asked'
  BY <1>1 DEF RequestsTraced, Asked, Current
<1>6. NewestWins'
  BY <1>1, <1>2 DEF NewestWins
<1> QED
  BY <1>3, <1>4, <1>5, <1>6 DEF SearchTypeOK

(* While the timer is pending nothing is promised of what is shown.        *)
LEMMA DebouncedStep ==
  ASSUME IInv, NEW t \in Term, DebouncedSearch(t)
  PROVE  IInv'
<1> USE DEF IInv
<1>1. /\ searchTerm' = searchTerm /\ activeFilters' = activeFilters
      /\ results' = results /\ total' = total /\ scrollId' = scrollId
      /\ searchGeneration' = searchGeneration
      /\ debounce' = Of(t, activeFilters) /\ wanted' = Of(t, activeFilters)
      /\ requests' = requests /\ scrolls' = scrolls
  BY DEF DebouncedSearch, shown
<1>2. loading' = loading /\ loadingMore' = loadingMore
  BY DEF DebouncedSearch
<1>3. Of(t, activeFilters) \in Query
  BY QueryOf DEF SearchTypeOK, ShownOK
<1>4. debounce' # Nil
  BY <1>1, <1>3, SearchAssumption
<1>5. ShownOK'
  BY <1>1, <1>3 DEF SearchTypeOK, ShownOK
<1>6. LoadingOK' /\ RequestsOK'
  BY <1>1, <1>2 DEF SearchTypeOK, LoadingOK, RequestsOK
<1>7. RequestsTraced'
  BY <1>1 DEF RequestsTraced
<1>8. Asked' /\ NewestWins'
  BY <1>1, <1>4 DEF Asked, NewestWins
<1> QED
  BY <1>5, <1>6, <1>7, <1>8 DEF SearchTypeOK

(* The request reads the scroll of what is shown.                          *)
LEMMA LoadMoreStep ==
  ASSUME IInv, LoadMore
  PROVE  IInv'
<1> DEFINE new == NewRequest("more", searchGeneration, scrolls[scrollId].query, scrollId)
<1> USE DEF IInv
<1>1. /\ searchTerm' = searchTerm /\ activeFilters' = activeFilters
      /\ results' = results /\ total' = total /\ scrollId' = scrollId
      /\ searchGeneration' = searchGeneration /\ debounce' = debounce /\ wanted' = wanted
      /\ requests' = Append(requests, new) /\ scrolls' = scrolls
      /\ scrollId # Nil
  BY DEF LoadMore, MayLoad, SendRequest, shown
<1>2. loading' = loading /\ loadingMore' = TRUE /\ ~loading
  BY DEF LoadMore, MayLoad
<1>3. /\ scrollId \in DOMAIN scrolls /\ scrollId \in Nat
      /\ scrolls[scrollId].query \in Query
      /\ searchGeneration \in Nat /\ requests \in Seq(Request)
  <2>1. scrollId \in DOMAIN scrolls
    BY <1>1 DEF SearchTypeOK, ShownOK
  <2>2. scrolls \in Seq([query : Query, next : Nat]) /\ requests \in Seq(Request)
    BY DEF SearchTypeOK, RequestsOK
  <2>3. scrollId \in Nat /\ scrolls[scrollId].query \in Query
    BY <2>1, <2>2, CursorOf
  <2>4. searchGeneration \in Nat
    BY SearchAssumption DEF SearchTypeOK, ShownOK
  <2> QED
    BY <2>1, <2>2, <2>3, <2>4
<1>4. /\ new \in Request /\ new.searchGeneration = searchGeneration
      /\ new.query = scrolls[scrollId].query /\ new.scroll = scrollId
  BY <1>3, Sent
<1> HIDE DEF new
<1>5. /\ requests' \in Seq(Request)
      /\ \A i \in DOMAIN requests' :
           \/ i \in DOMAIN requests /\ requests'[i] = requests[i]
           \/ requests'[i] = new
  BY <1>1, <1>3, <1>4, Appended
<1>6. ShownOK'
  BY <1>1 DEF SearchTypeOK, ShownOK
<1>7. LoadingOK'
  BY <1>1, <1>2 DEF SearchTypeOK, LoadingOK
<1>8. RequestsOK'
  BY <1>1, <1>5 DEF SearchTypeOK, RequestsOK
<1>9. RequestsTraced'
  <2> SUFFICES ASSUME NEW i \in DOMAIN requests'
               PROVE  /\ requests'[i].searchGeneration <= searchGeneration
                      /\ requests'[i].kind = "more" \/ requests'[i].server = "handled" =>
                           /\ requests'[i].scroll \in DOMAIN scrolls
                           /\ scrolls[requests'[i].scroll].query = requests'[i].query
    BY <1>1 DEF RequestsTraced
  <2>1. CASE i \in DOMAIN requests /\ requests'[i] = requests[i]
    BY <2>1 DEF RequestsTraced
  <2>2. CASE requests'[i] = new
    BY <1>3, <1>4, <2>2
  <2> QED
    BY <1>5, <2>1, <2>2
<1>10. Asked'
  BY <1>1, <1>3, <1>4, <1>5 DEF Asked, Current
<1>11. NewestWins'
  <2>1. debounce = Nil => wanted # Nothing
    BY <1>1 DEF Asked
  <2>2. debounce = Nil => \A i \in DOMAIN results : results[i].query = wanted
    BY <1>2, Zenon DEF NewestWins
  <2>3. debounce # Nil => debounce = wanted
    BY Zenon DEF NewestWins
  <2> QED
    BY <1>1, <2>1, <2>2, <2>3 DEF NewestWins
<1> QED
  BY <1>6, <1>7, <1>8, <1>9, <1>10, <1>11 DEF SearchTypeOK

(* However a request ends, what is known of the others stays.              *)
LEMMA EndStep ==
  ASSUME IInv, NEW r \in DOMAIN requests, NEW status \in {"answered", "failed"},
         Ends(r, status)
  PROVE  /\ RequestsOK' /\ RequestsTraced'
         /\ (debounce' = Nil => \A i \in DOMAIN requests' :
               Current(i)' /\ requests'[i].status = "waiting" =>
                 requests'[i].query = wanted' /\ wanted' # Nothing)
         /\ (debounce = Nil /\ Current(r) => requests[r].query = wanted /\ wanted # Nothing)
<1> USE DEF IInv
<1>1. /\ searchGeneration' = searchGeneration /\ debounce' = debounce /\ wanted' = wanted
      /\ scrolls' = scrolls /\ requests[r].status = "waiting"
  BY DEF Ends
<1>2. RequestsOK'
  BY <1>1, Ended DEF SearchTypeOK, RequestsOK
<1>3. RequestsTraced'
  BY <1>1, Ended DEF RequestsTraced
<1>4. debounce = Nil => \A i \in DOMAIN requests :
        Current(i) /\ requests[i].status = "waiting" =>
          requests[i].query = wanted /\ wanted # Nothing
  BY DEF Asked
<1>5. debounce' = Nil => \A i \in DOMAIN requests' :
        Current(i)' /\ requests'[i].status = "waiting" =>
          requests'[i].query = wanted' /\ wanted' # Nothing
  BY <1>1, <1>4, Ended DEF Current
<1> QED
  BY <1>1, <1>2, <1>3, <1>4, <1>5

(* An answer of an older generation changes nothing that is shown.         *)
LEMMA LateStep ==
  ASSUME IInv, NEW r \in DOMAIN requests, LateAnswer(r)
  PROVE  IInv'
<1> USE DEF IInv
<1>1. PICK status \in {"answered", "failed"} : Ends(r, status)
  BY DEF LateAnswer
<1>2. /\ searchTerm' = searchTerm /\ activeFilters' = activeFilters
      /\ results' = results /\ total' = total /\ scrollId' = scrollId
      /\ searchGeneration' = searchGeneration /\ debounce' = debounce /\ wanted' = wanted
      /\ scrolls' = scrolls
  BY <1>1 DEF LateAnswer, Ends, shown
<1>3. loading' = loading /\ loadingMore' = loadingMore
  BY DEF LateAnswer
<1>4. ShownOK'
  BY <1>2 DEF SearchTypeOK, ShownOK
<1>5. LoadingOK'
  BY <1>2, <1>3 DEF SearchTypeOK, LoadingOK
<1>6. Asked'
  BY <1>1, <1>2, EndStep DEF Asked
<1>7. NewestWins'
  BY <1>2, <1>3 DEF NewestWins
<1> QED
  BY <1>1, <1>4, <1>5, <1>6, <1>7, EndStep DEF SearchTypeOK

(* The newest search failed.                                               *)
LEMMA SearchFailedStep ==
  ASSUME IInv, NEW r \in DOMAIN requests, SearchFailed(r)
  PROVE  IInv'
<1> USE DEF IInv
<1>1. Ends(r, "failed") /\ Current(r)
  BY DEF SearchFailed
<1>2. /\ searchTerm' = searchTerm /\ activeFilters' = activeFilters
      /\ results' = << >> /\ total' = 0 /\ scrollId' = scrollId
      /\ searchGeneration' = searchGeneration /\ debounce' = debounce /\ wanted' = wanted
      /\ scrolls' = scrolls
  BY DEF SearchFailed, Ends
<1>3. loading' = FALSE /\ loadingMore' = loadingMore
  BY DEF SearchFailed
<1>4. ShownOK'
  BY <1>2 DEF SearchTypeOK, ShownOK
<1>5. LoadingOK'
  BY <1>2, <1>3 DEF SearchTypeOK, LoadingOK
<1>6. Asked'
  BY <1>1, <1>2, EndStep DEF Asked
<1>7. debounce = Nil => wanted # Nothing
  BY <1>1, EndStep
<1>8. NewestWins'
  <2>1. debounce # Nil => debounce = wanted
    BY Zenon DEF NewestWins
  <2> QED
    BY <1>2, <1>7, <2>1 DEF NewestWins
<1> QED
  BY <1>1, <1>4, <1>5, <1>6, <1>8, EndStep DEF SearchTypeOK

(* Nothing is appended.                                                    *)
LEMMA MoreFailedStep ==
  ASSUME IInv, NEW r \in DOMAIN requests, MoreFailed(r)
  PROVE  IInv'
<1> USE DEF IInv
<1>1. Ends(r, "failed") /\ Current(r)
  BY DEF MoreFailed
<1>2. /\ searchTerm' = searchTerm /\ activeFilters' = activeFilters
      /\ results' = results /\ total' = total /\ scrollId' = scrollId
      /\ searchGeneration' = searchGeneration /\ debounce' = debounce /\ wanted' = wanted
      /\ scrolls' = scrolls
  BY DEF MoreFailed, Ends, shown
<1>3. loading' = loading /\ loadingMore' = FALSE
  BY DEF MoreFailed
<1>4. ShownOK'
  BY <1>2 DEF SearchTypeOK, ShownOK
<1>5. LoadingOK'
  BY <1>3 DEF SearchTypeOK, LoadingOK
<1>6. Asked'
  BY <1>1, <1>2, EndStep DEF Asked
<1>7. NewestWins'
  BY <1>2, <1>3 DEF NewestWins
<1> QED
  BY <1>1, <1>4, <1>5, <1>6, <1>7, EndStep DEF SearchTypeOK

(* The hits of an answer are those of the request's query.                 *)
LEMMA PageOf ==
  ASSUME SearchTypeOK, NEW r \in DOMAIN requests
  PROVE  /\ HitsOf(r) \in Seq(Hit)
         /\ \A i \in DOMAIN HitsOf(r) : HitsOf(r)[i].query = requests[r].query
<1> DEFINE hit == [query |-> requests[r].query, page |-> requests[r].page]
<1>1. requests[r] \in Request
  BY Element DEF SearchTypeOK, RequestsOK
<1>2. hit \in Hit /\ hit.query = requests[r].query
  BY <1>1 DEF Request, Hit
<1>3. HitsOf(r) = << >> \/ HitsOf(r) = <<hit>>
  BY DEF HitsOf
<1> HIDE DEF hit
<1>4. CASE HitsOf(r) = << >>
  <2>1. << >> \in Seq(Hit) /\ DOMAIN << >> = {}
    OBVIOUS
  <2> QED
    BY <1>4, <2>1
<1>5. CASE HitsOf(r) = <<hit>>
  <2>1. <<hit>> \in Seq(Hit)
    BY <1>2
  <2>2. \A i \in DOMAIN <<hit>> : <<hit>>[i] = hit
    OBVIOUS
  <2> QED
    BY <1>2, <1>5, <2>1, <2>2
<1> QED
  BY <1>3, <1>4, <1>5

(* What is appended comes after what was there.                            *)
LEMMA Concatenated ==
  ASSUME NEW S, NEW s \in Seq(S), NEW u \in Seq(S)
  PROVE  /\ s \o u \in Seq(S)
         /\ \A i \in DOMAIN (s \o u) :
              \/ i \in DOMAIN s /\ (s \o u)[i] = s[i]
              \/ \E j \in DOMAIN u : (s \o u)[i] = u[j]
<1>1. s \o u \in Seq(S) /\ Len(s \o u) = Len(s) + Len(u)
  OBVIOUS
<1>2. ASSUME NEW i \in DOMAIN (s \o u), i \notin DOMAIN s
      PROVE  i - Len(s) \in DOMAIN u /\ (s \o u)[i] = u[i - Len(s)]
  BY <1>1, <1>2
<1>3. \A i \in DOMAIN s : (s \o u)[i] = s[i]
  OBVIOUS
<1> QED
  BY <1>1, <1>2, <1>3

(* The answer of the newest search: its hits and its scroll.               *)
LEMMA SearchAnsweredStep ==
  ASSUME IInv, NEW r \in DOMAIN requests, SearchAnswered(r)
  PROVE  IInv'
<1> USE DEF IInv
<1>1. Ends(r, "answered") /\ Current(r) /\ requests[r].server = "handled"
  BY DEF SearchAnswered
<1>2. /\ searchTerm' = searchTerm /\ activeFilters' = activeFilters
      /\ results' = HitsOf(r) /\ total' = Matches[requests[r].query]
      /\ scrollId' = requests[r].scroll
      /\ searchGeneration' = searchGeneration /\ debounce' = debounce /\ wanted' = wanted
      /\ scrolls' = scrolls
  BY DEF SearchAnswered, Ends
<1>3. loading' = FALSE /\ loadingMore' = loadingMore
  BY DEF SearchAnswered
<1>4. /\ requests[r].scroll \in DOMAIN scrolls
      /\ scrolls[requests[r].scroll].query = requests[r].query
  BY <1>1 DEF RequestsTraced
<1>5. requests[r].query \in Query /\ requests[r].scroll # Nil
  <2>1. requests[r] \in Request
    BY Element DEF SearchTypeOK, RequestsOK
  <2> QED
    BY <2>1, SearchAssumption DEF Request
<1>6. ShownOK'
  <2>1. Matches[requests[r].query] \in Nat
    BY <1>5, SearchAssumption
  <2> QED
    BY <1>2, <1>4, <2>1, PageOf DEF SearchTypeOK, ShownOK
<1>7. LoadingOK'
  BY <1>2, <1>3, <1>5 DEF SearchTypeOK, LoadingOK
<1>8. debounce = Nil => requests[r].query = wanted /\ wanted # Nothing
  BY <1>1, EndStep
<1>9. Asked'
  BY <1>1, <1>2, <1>4, <1>8, EndStep DEF Asked
<1>10. NewestWins'
  <2>1. debounce # Nil => debounce = wanted
    BY Zenon DEF NewestWins
  <2> QED
    BY <1>2, <1>8, <2>1, PageOf DEF NewestWins
<1> QED
  BY <1>1, <1>6, <1>7, <1>9, <1>10, EndStep DEF SearchTypeOK

(* A further page of the same query.                                       *)
LEMMA MoreAnsweredStep ==
  ASSUME IInv, NEW r \in DOMAIN requests, MoreAnswered(r)
  PROVE  IInv'
<1> USE DEF IInv
<1>1. Ends(r, "answered") /\ Current(r)
  BY DEF MoreAnswered
<1>2. /\ searchTerm' = searchTerm /\ activeFilters' = activeFilters
      /\ results' = results \o HitsOf(r) /\ total' = total /\ scrollId' = scrollId
      /\ searchGeneration' = searchGeneration /\ debounce' = debounce /\ wanted' = wanted
      /\ scrolls' = scrolls
  BY DEF MoreAnswered, Ends
<1>3. loading' = loading /\ loadingMore' = FALSE
  BY DEF MoreAnswered
<1>4. results \in Seq(Hit)
  BY DEF SearchTypeOK, ShownOK
<1>5. /\ results' \in Seq(Hit)
      /\ \A i \in DOMAIN results' :
           \/ i \in DOMAIN results /\ results'[i] = results[i]
           \/ results'[i].query = requests[r].query
  BY <1>2, <1>4, PageOf, Concatenated
<1>6. ShownOK'
  BY <1>2, <1>5 DEF SearchTypeOK, ShownOK
<1>7. LoadingOK'
  BY <1>3 DEF SearchTypeOK, LoadingOK
<1>8. debounce = Nil => requests[r].query = wanted /\ wanted # Nothing
  BY <1>1, EndStep
<1>9. Asked'
  BY <1>1, <1>2, EndStep DEF Asked
<1>10. NewestWins'
  <2>1. debounce # Nil => debounce = wanted
    BY Zenon DEF NewestWins
  <2>2. debounce = Nil /\ ~loading => \A i \in DOMAIN results : results[i].query = wanted
    BY Zenon DEF NewestWins
  <2>3. debounce = Nil /\ ~loading => \A i \in DOMAIN results' : results'[i].query = wanted
    BY <1>5, <1>8, <2>2
  <2> QED
    BY <1>2, <1>3, <1>8, <2>1, <2>3 DEF NewestWins
<1> QED
  BY <1>1, <1>6, <1>7, <1>9, <1>10, EndStep DEF SearchTypeOK

(* What the server does leaves the view alone, so it has to keep only the  *)
(* requests traced.                                                        *)
LEMMA ServerStep ==
  ASSUME IInv, NEW r \in DOMAIN requests, NEW new \in Request,
         UNCHANGED view, RequestsOK',
         requests' = [requests EXCEPT ![r] = new],
         new.searchGeneration = requests[r].searchGeneration, new.query = requests[r].query,
         new.status = requests[r].status,
         new.scroll \in DOMAIN scrolls', scrolls'[new.scroll].query = new.query,
         DOMAIN scrolls \subseteq DOMAIN scrolls',
         \A s \in DOMAIN scrolls : scrolls'[s].query = scrolls[s].query
  PROVE  IInv'
<1> USE DEF IInv
<1>1. /\ searchTerm' = searchTerm /\ activeFilters' = activeFilters
      /\ results' = results /\ total' = total /\ scrollId' = scrollId
      /\ searchGeneration' = searchGeneration /\ debounce' = debounce /\ wanted' = wanted
  BY DEF view, shown
<1>2. loading' = loading /\ loadingMore' = loadingMore
  BY DEF view
<1>3. \A i \in DOMAIN requests : requests'[i] = IF i = r THEN new ELSE requests[i]
  OBVIOUS
<1>4. DOMAIN requests' = DOMAIN requests
  OBVIOUS
<1>5. scrollId # Nil => scrollId \in DOMAIN scrolls
  BY DEF SearchTypeOK, ShownOK
<1>6. ShownOK'
  <2>1. scrollId' \in {Nil} \cup DOMAIN scrolls'
    BY <1>1, <1>5
  <2> QED
    BY <1>1, <2>1 DEF SearchTypeOK, ShownOK
<1>7. LoadingOK'
  BY <1>1, <1>2 DEF SearchTypeOK, LoadingOK
<1>8. RequestsTraced'
  BY <1>1, <1>3, <1>4 DEF RequestsTraced
<1>9. Asked'
  BY <1>1, <1>3, <1>4, <1>5 DEF Asked, Current
<1>10. NewestWins'
  BY <1>1, <1>2 DEF NewestWins
<1> QED
  BY <1>6, <1>7, <1>8, <1>9, <1>10 DEF SearchTypeOK

(* A search opens a cursor of its query.                                   *)
LEMMA HandleSearchStep ==
  ASSUME IInv, NEW r \in DOMAIN requests, HandleSearch(r)
  PROVE  IInv'
<1> USE DEF IInv
<1> DEFINE new == [requests[r] EXCEPT !.server = "handled", !.page = 1,
                                      !.scroll = Len(scrolls) + 1]
           Cursor == [query : Query, next : Nat]
           cursor == [query |-> requests[r].query, next |-> 2]
<1>1. requests[r] \in Request
  BY Element DEF SearchTypeOK, RequestsOK
<1>2. requests \in Seq(Request) /\ scrolls \in Seq(Cursor)
  BY DEF SearchTypeOK, RequestsOK
<1>3. cursor \in Cursor /\ cursor.query = requests[r].query
  BY <1>1 DEF Request
<1>4. scrolls' = Append(scrolls, cursor)
  BY DEF HandleSearch
<1>5. UNCHANGED view
  BY DEF HandleSearch
<1> HIDE DEF Cursor, cursor
<1>6. Len(scrolls) + 1 \in Nat
  BY <1>2
<1>7. /\ new \in Request /\ new.scroll = Len(scrolls) + 1
      /\ new.searchGeneration = requests[r].searchGeneration /\ new.query = requests[r].query
      /\ new.status = requests[r].status
  BY <1>1, <1>6 DEF Request
<1>8. requests' = [requests EXCEPT ![r] = new]
  BY <1>1 DEF HandleSearch, Request
<1> HIDE DEF new
<1>9. /\ scrolls' \in Seq(Cursor) /\ DOMAIN scrolls \subseteq DOMAIN scrolls'
      /\ \A s \in DOMAIN scrolls : scrolls'[s] = scrolls[s]
      /\ Len(scrolls) + 1 \in DOMAIN scrolls' /\ scrolls'[Len(scrolls) + 1] = cursor
  BY <1>2, <1>3, <1>4, Appended
<1>10. RequestsOK'
  BY <1>2, <1>7, <1>8, <1>9, Replaced DEF RequestsOK, Cursor
<1> QED
  BY <1>3, <1>5, <1>7, <1>8, <1>9, <1>10, ServerStep

(* A cursor that advances stays one of its query.                          *)
LEMMA HandleMoreStep ==
  ASSUME IInv, NEW r \in DOMAIN requests, HandleMore(r)
  PROVE  IInv'
<1> USE DEF IInv
<1> DEFINE s == requests[r].scroll
           p == scrolls[s].next
           Cursor == [query : Query, next : Nat]
<1>1. requests[r] \in Request
  BY Element DEF SearchTypeOK, RequestsOK
<1>2. requests \in Seq(Request) /\ scrolls \in Seq(Cursor)
  BY DEF SearchTypeOK, RequestsOK
<1>3. s \in DOMAIN scrolls /\ scrolls[s].query = requests[r].query
  BY DEF HandleMore, RequestsTraced
<1>4. p \in Nat /\ scrolls[s].query \in Query
  BY <1>2, <1>3, CursorOf
<1>5. UNCHANGED view
  BY DEF HandleMore
<1>6. CASE p <= Matches[scrolls[s].query]
  <2> DEFINE new == [requests[r] EXCEPT !.server = "handled", !.page = p]
             cursor == [scrolls[s] EXCEPT !.next = p + 1]
  <2>1. scrolls[s] \in Cursor
    BY <1>2, <1>3, Element
  <2>2. cursor \in Cursor /\ cursor.query = scrolls[s].query
    BY <1>4, <2>1
  <2>3. scrolls' = [scrolls EXCEPT ![s] = cursor]
    BY <1>6 DEF HandleMore
  <2>4. /\ new \in Request /\ new.scroll = s
        /\ new.searchGeneration = requests[r].searchGeneration /\ new.query = requests[r].query
        /\ new.status = requests[r].status
    BY <1>1, <1>4 DEF Request
  <2>5. requests' = [requests EXCEPT ![r] = new]
    BY <1>1, <1>6 DEF HandleMore, Request
  <2> HIDE DEF new, cursor, Cursor, p, s
  <2>6. scrolls' \in Seq(Cursor) /\ DOMAIN scrolls' = DOMAIN scrolls
    BY <1>2, <1>3, <2>2, <2>3, Replaced
  <2>7. \A i \in DOMAIN scrolls : scrolls'[i].query = scrolls[i].query
    BY <1>3, <2>2, <2>3
  <2>8. RequestsOK'
    BY <1>2, <2>4, <2>5, <2>6, Replaced DEF RequestsOK, Cursor
  <2> QED
    BY <1>3, <1>5, <2>4, <2>5, <2>6, <2>7, <2>8, ServerStep
<1>7. CASE ~(p <= Matches[scrolls[s].query])
  <2> DEFINE new == [requests[r] EXCEPT !.server = "handled"]
  <2>1. scrolls' = scrolls
    BY <1>7 DEF HandleMore
  <2>2. /\ new \in Request /\ new.scroll = s
        /\ new.searchGeneration = requests[r].searchGeneration /\ new.query = requests[r].query
        /\ new.status = requests[r].status
    BY <1>1 DEF Request
  <2>3. requests' = [requests EXCEPT ![r] = new]
    BY <1>1, <1>7 DEF HandleMore, Request
  <2> HIDE DEF new, Cursor, p, s
  <2>4. RequestsOK'
    BY <1>2, <2>1, <2>2, <2>3, Replaced DEF RequestsOK, Cursor
  <2> QED
    BY <1>3, <1>5, <2>1, <2>2, <2>3, <2>4, ServerStep
<1> QED
  BY <1>6, <1>7

(* So does one that skips a page.                                          *)
LEMMA ScrollAgainStep ==
  ASSUME IInv, NEW r \in DOMAIN requests, ScrollAgain(r)
  PROVE  IInv'
<1> USE DEF IInv
<1> DEFINE s == requests[r].scroll
           p == scrolls[s].next
           Cursor == [query : Query, next : Nat]
           new == [requests[r] EXCEPT !.resent = TRUE]
           cursor == [scrolls[s] EXCEPT !.next = p + 1]
<1>1. requests[r] \in Request
  BY Element DEF SearchTypeOK, RequestsOK
<1>2. requests \in Seq(Request) /\ scrolls \in Seq(Cursor)
  BY DEF SearchTypeOK, RequestsOK
<1>3. s \in DOMAIN scrolls /\ scrolls[s].query = requests[r].query
  BY DEF ScrollAgain, RequestsTraced
<1>4. p \in Nat /\ scrolls[s] \in Cursor
  BY <1>2, <1>3, CursorOf, Element
<1>5. UNCHANGED view
  BY DEF ScrollAgain
<1>6. cursor \in Cursor /\ cursor.query = scrolls[s].query
  BY <1>4
<1>7. scrolls' = [scrolls EXCEPT ![s] = cursor]
  BY DEF ScrollAgain
<1>8. /\ new \in Request /\ new.scroll = s
      /\ new.searchGeneration = requests[r].searchGeneration /\ new.query = requests[r].query
      /\ new.status = requests[r].status
  BY <1>1 DEF Request
<1>9. requests' = [requests EXCEPT ![r] = new]
  BY <1>1 DEF ScrollAgain, Request
<1> HIDE DEF new, cursor, Cursor, p, s
<1>10. scrolls' \in Seq(Cursor) /\ DOMAIN scrolls' = DOMAIN scrolls
  BY <1>2, <1>3, <1>6, <1>7, Replaced
<1>11. \A i \in DOMAIN scrolls : scrolls'[i].query = scrolls[i].query
  BY <1>3, <1>6, <1>7
<1>12. RequestsOK'
  BY <1>2, <1>8, <1>9, <1>10, Replaced DEF RequestsOK, Cursor
<1> QED
  BY <1>3, <1>5, <1>8, <1>9, <1>10, <1>11, <1>12, ServerStep

-----------------------------------------------------------------------------
(* Nothing is shown before the first search.                               *)
LEMMA InitIInv == SearchInit => IInv
<1> SUFFICES ASSUME SearchInit PROVE IInv
  OBVIOUS
<1>1. ShownOK
  BY SearchAssumption, QueryOf DEF SearchInit, ShownOK
<1>2. LoadingOK
  BY DEF SearchInit, LoadingOK
<1>3. RequestsOK
  BY DEF SearchInit, RequestsOK
<1>4. RequestsTraced /\ Asked
  BY DEF SearchInit, RequestsTraced, Asked
<1>5. NewestWins
  BY DEF SearchInit, NewestWins
<1> QED
  BY <1>1, <1>2, <1>3, <1>4, <1>5 DEF IInv, SearchTypeOK

(* Every step keeps the invariant.                                         *)
LEMMA NextIInv == IInv /\ [SearchNext]_searchVars => IInv'
<1> SUFFICES ASSUME IInv, [SearchNext]_searchVars PROVE IInv'
  OBVIOUS
<1>1. ASSUME NEW t \in Term, NEW f \in Filters, UserSearch(t, f) PROVE IInv'
  BY <1>1, SearchStep DEF UserSearch
<1>2. ASSUME NEW t \in Term, Edit(t) PROVE IInv'
  BY <1>2, EditStep
<1>3. ASSUME NEW t \in Term, DebouncedSearch(t) PROVE IInv'
  BY <1>3, DebouncedStep
<1>4. ASSUME Clear PROVE IInv'
  BY <1>4, ClearStep
<1>5. ASSUME NEW f \in Filters, UpdateFilters(f) PROVE IInv'
  <2>1. searchTerm \in Term
    BY DEF IInv, SearchTypeOK, ShownOK
  <2>2. Clear \/ UserSearch(searchTerm, f)
    BY <1>5 DEF UpdateFilters
  <2> QED
    BY <1>1, <1>4, <2>1, <2>2
<1>6. ASSUME LoadMore PROVE IInv'
  BY <1>6, LoadMoreStep
<1>7. ASSUME TimerFires PROVE IInv'
  <2>1. debounce # Nil /\ debounce = wanted /\ wanted' = wanted
    BY <1>7, Zenon DEF TimerFires, IInv, NewestWins
  <2>2. debounce \in Query
    BY <2>1 DEF IInv, SearchTypeOK, ShownOK
  <2>3. debounce.term \in Term /\ debounce.filters \in Filters
        /\ wanted' = Of(debounce.term, debounce.filters)
    BY <2>1, <2>2, QueryOf
  <2>4. Search(debounce.term, debounce.filters)
    BY <1>7 DEF TimerFires
  <2> QED
    BY <2>3, <2>4, SearchStep
<1>8. ASSUME NEW r \in DOMAIN requests, Settles(r) PROVE IInv'
  BY <1>8, LateStep, SearchAnsweredStep, SearchFailedStep, MoreAnsweredStep,
     MoreFailedStep DEF Settles
<1>9. ASSUME NEW r \in DOMAIN requests, HandleSearch(r) \/ HandleMore(r) \/ ScrollAgain(r)
      PROVE  IInv'
  BY <1>9, HandleSearchStep, HandleMoreStep, ScrollAgainStep
<1>10. CASE UNCHANGED searchVars
  <2>1. /\ searchTerm' = searchTerm /\ activeFilters' = activeFilters
        /\ results' = results /\ total' = total /\ scrollId' = scrollId
        /\ searchGeneration' = searchGeneration /\ debounce' = debounce /\ wanted' = wanted
        /\ requests' = requests /\ scrolls' = scrolls
        /\ loading' = loading /\ loadingMore' = loadingMore
    BY <1>10 DEF searchVars, view, shown
  <2> QED
    BY <2>1 DEF IInv, SearchTypeOK, ShownOK, LoadingOK, RequestsOK, RequestsTraced, Asked,
                NewestWins, Current
<1> QED
  BY <1>1, <1>2, <1>3, <1>4, <1>5, <1>6, <1>7, <1>8, <1>9, <1>10 DEF SearchNext, User

(* In every reachable state the hits shown at rest are those of the query  *)
(* asked for last, for any number of overlapping and failing requests.     *)
THEOREM Newest == SearchSpec => []NewestWins
<1>1. IInv => NewestWins
  BY DEF IInv
<1> QED
  BY InitIInv, NextIInv, <1>1, PTL DEF SearchSpec

(* The variables have their types: a spinner for more pages shows only     *)
(* over a scroll that is there.                                            *)
THEOREM TypeCorrect == SearchSpec => []SearchTypeOK
<1>1. IInv => SearchTypeOK
  BY DEF IInv
<1> QED
  BY InitIInv, NextIInv, <1>1, PTL DEF SearchSpec

-----------------------------------------------------------------------------
(* The pages shown                                                         *)

More(r) == requests[r].kind = "more"
Searched(r) == requests[r].kind = "search" /\ requests[r].server = "handled"
Awaited(r) == Current(r) /\ More(r) /\ requests[r].status = "waiting"

(* A generation has one search, a search one cursor, and none reads on     *)
(* from the cursor before the view has the answer.                         *)
Cursors ==
  /\ \A i, j \in DOMAIN requests :
       /\ ~More(i) /\ ~More(j) /\ requests[i].searchGeneration = requests[j].searchGeneration => i = j
       /\ Searched(i) /\ Searched(j) /\ requests[i].scroll = requests[j].scroll => i = j
       /\ Searched(i) /\ requests[i].status = "waiting" /\ More(j) =>
            requests[j].scroll # requests[i].scroll
  /\ \A i \in DOMAIN requests : Searched(i) /\ requests[i].status = "waiting" =>
       /\ requests[i].page = 1 /\ scrolls[requests[i].scroll].next = 2
       /\ requests[i].scroll # scrollId

(* The requests for more of this generation are those for the scroll that  *)
(* is shown, and the view waits for one of them at most.                   *)
ReadingOn ==
  /\ \A r \in DOMAIN requests :
       /\ Current(r) /\ requests[r].kind = "search" /\ requests[r].status = "waiting" => scrollId = Nil
       /\ Current(r) /\ More(r) => scrollId # Nil
       /\ More(r) /\ scrollId # Nil => (requests[r].scroll = scrollId <=> Current(r))
       /\ Awaited(r) => loadingMore
       /\ requests[r].server = "sent" => requests[r].page = 0
       /\ Current(r) /\ More(r) /\ requests[r].server = "sent" => requests[r].status # "answered"
  /\ \A i, j \in DOMAIN requests : Awaited(i) /\ Awaited(j) => i = j

(* The cursor is past what is shown and what is on its way.                *)
CursorAhead ==
  /\ results # << >>
  /\ \A i \in DOMAIN results :
       results[i].query = scrolls[scrollId].query /\ results[i].page < scrolls[scrollId].next
  /\ \A r \in DOMAIN requests : Awaited(r) /\ requests[r].page # 0 =>
       /\ requests[r].page < scrolls[scrollId].next
       /\ \A i \in DOMAIN results : results[i].page < requests[r].page

LoadLost(s) ==
  \E r \in DOMAIN requests : SkippedPage(r) /\ requests[r].scroll = s

(* Unless a request for it may have skipped a page, it is just past them.  *)
NoGap ==
  /\ \A i \in DOMAIN results : results[i].page = i
  /\ \/ /\ scrolls[scrollId].next = Len(results) + 1
        /\ \A r \in DOMAIN requests : Awaited(r) => requests[r].page = 0
     \/ /\ scrolls[scrollId].next = Len(results) + 2
        /\ \E r \in DOMAIN requests : Awaited(r) /\ requests[r].page = Len(results) + 1

ScrollShown == scrollId # Nil => CursorAhead /\ (LoadLost(scrollId) \/ NoGap)

PagesInv == Cursors /\ ReadingOn /\ ScrollShown /\ PagesInOrder

(* Nothing that PagesInv is about changes.                                 *)
LEMMA PagesStay ==
  ASSUME PagesInv,
         UNCHANGED <<requests, scrolls, results, scrollId, searchGeneration, loadingMore>>
  PROVE  PagesInv'
  BY DEF PagesInv, Cursors, ReadingOn, ScrollShown, CursorAhead, LoadLost, NoGap, PagesInOrder,
         SkippedPage, Current, More, Searched, Awaited

(* What is shown stays in order while it stays, whatever requests do: one  *)
(* that has failed remains failed.                                         *)
LEMMA OrderStays ==
  ASSUME PagesInOrder, UNCHANGED results, DOMAIN requests \subseteq DOMAIN requests',
         \A i \in DOMAIN requests :
           /\ requests'[i].query = requests[i].query
           /\ SkippedPage(i) => SkippedPage(i)'
  PROVE  PagesInOrder'
<1>1. \A i, j \in DOMAIN results' :
        i < j => results'[i].query = results'[j].query /\ results'[i].page < results'[j].page
  BY DEF PagesInOrder
<1>2. CASE \A i \in DOMAIN results : results[i].page = i
  BY <1>1, <1>2 DEF PagesInOrder
<1>3. CASE \E r \in DOMAIN requests :
             SkippedPage(r) /\ requests[r].query = results[1].query
  <2>1. PICK r \in DOMAIN requests : SkippedPage(r) /\ requests[r].query = results[1].query
    BY <1>3
  <2>2. r \in DOMAIN requests' /\ SkippedPage(r)' /\ requests'[r].query = results'[1].query
    BY <2>1
  <2> QED
    BY <1>1, <2>2 DEF PagesInOrder
<1> QED
  BY <1>2, <1>3 DEF PagesInOrder

(* A new generation: the requests that there are count no more.            *)
LEMMA PagesForgotten ==
  ASSUME SearchTypeOK, RequestsTraced, PagesInv,
         searchGeneration' = searchGeneration + 1, scrollId' = Nil, UNCHANGED scrolls,
         NEW new \in Request, new.kind = "search", new.searchGeneration = searchGeneration + 1,
         new.server = "sent", new.status = "waiting", new.page = 0,
         requests' \in {requests, Append(requests, new)},
         results' \in {results, << >>}
  PROVE  PagesInv'
<1> DEFINE last == Len(requests) + 1
<1>1. /\ \A i \in DOMAIN requests : i \in DOMAIN requests' /\ requests'[i] = requests[i]
      /\ \A i \in DOMAIN requests' :
           \/ i \in DOMAIN requests /\ requests'[i] = requests[i]
           \/ i = last /\ requests'[i] = new
  <2>1. requests \in Seq(Request)
    BY DEF SearchTypeOK, RequestsOK
  <2> QED
    BY <2>1, Appended
<1> HIDE DEF last
<1>2. \A i \in DOMAIN requests :
        /\ requests[i].searchGeneration # searchGeneration'
        /\ requests[i].searchGeneration # new.searchGeneration
  BY OlderGenerations
<1>3. \A i \in DOMAIN requests' : More(i)' \/ Searched(i)' => i \in DOMAIN requests
  BY <1>1 DEF More, Searched
<1>4. Cursors'
  <2>1. ASSUME NEW i \in DOMAIN requests', NEW j \in DOMAIN requests', ~More(i)', ~More(j)',
               requests'[i].searchGeneration = requests'[j].searchGeneration
        PROVE  i = j
    BY <1>1, <1>2, <2>1 DEF PagesInv, Cursors, More
  <2>2. ASSUME NEW i \in DOMAIN requests', NEW j \in DOMAIN requests', Searched(i)', Searched(j)',
               requests'[i].scroll = requests'[j].scroll
        PROVE  i = j
    BY <1>1, <1>3, <2>2 DEF PagesInv, Cursors, Searched
  <2>3. ASSUME NEW i \in DOMAIN requests', NEW j \in DOMAIN requests', Searched(i)',
               requests'[i].status = "waiting", More(j)'
        PROVE  requests'[j].scroll # requests'[i].scroll
    BY <1>1, <1>3, <2>3 DEF PagesInv, Cursors, Searched, More
  <2>4. ASSUME NEW i \in DOMAIN requests', Searched(i)', requests'[i].status = "waiting"
        PROVE  /\ requests'[i].page = 1 /\ scrolls'[requests'[i].scroll].next = 2
               /\ requests'[i].scroll # scrollId'
    <3>1. i \in DOMAIN requests /\ requests'[i] = requests[i] /\ Searched(i)
      BY <1>1, <1>3, <2>4 DEF Searched
    <3>2. requests[i].scroll \in Nat
      <4>1. requests[i] \in Request
        BY <3>1, Element DEF SearchTypeOK, RequestsOK
      <4> QED
        BY <4>1 DEF Request
    <3> QED
      BY <2>4, <3>1, <3>2, SearchAssumption DEF PagesInv, Cursors
  <2> QED
    BY <2>1, <2>2, <2>3, <2>4 DEF Cursors
<1>5. ReadingOn'
  BY <1>1, <1>2 DEF PagesInv, ReadingOn, Current, More, Awaited
<1>6. ScrollShown'
  BY DEF ScrollShown
<1>7. PagesInOrder'
  <2>1. CASE results' = results
    BY <1>1, <2>1, OrderStays DEF PagesInv, SkippedPage
  <2>2. CASE results' = << >>
    BY <2>2 DEF PagesInOrder
  <2> QED
    BY <2>1, <2>2
<1> QED
  BY <1>4, <1>5, <1>6, <1>7 DEF PagesInv

(* A request for more, while none is awaited.                              *)
LEMMA PagesAsked ==
  ASSUME IInv, PagesInv, LoadMore
  PROVE  PagesInv'
<1> DEFINE new == NewRequest("more", searchGeneration, scrolls[scrollId].query, scrollId)
           last == Len(requests) + 1
<1>1. /\ UNCHANGED <<results, scrollId, searchGeneration, scrolls>> /\ loadingMore' = TRUE
      /\ requests' = Append(requests, new) /\ scrollId # Nil /\ ~loadingMore
  BY DEF LoadMore, MayLoad, SendRequest, shown
<1>2. requests \in Seq(Request) /\ new \in Request
  <2>1. requests \in Seq(Request) /\ scrolls \in Seq([query : Query, next : Nat])
    BY DEF IInv, SearchTypeOK, RequestsOK
  <2>2. scrollId \in DOMAIN scrolls /\ searchGeneration \in Nat
    BY <1>1, SearchAssumption DEF IInv, SearchTypeOK, ShownOK
  <2> QED
    BY <2>1, <2>2, CursorOf, Sent
<1>3. /\ new.kind = "more" /\ new.searchGeneration = searchGeneration /\ new.scroll = scrollId
      /\ new.server = "sent" /\ new.status = "waiting" /\ new.page = 0
  BY DEF NewRequest
<1> HIDE DEF new
<1>4. /\ \A i \in DOMAIN requests : i \in DOMAIN requests' /\ requests'[i] = requests[i]
      /\ \A i \in DOMAIN requests' :
           \/ i \in DOMAIN requests /\ requests'[i] = requests[i]
           \/ i = last /\ requests'[i] = new
  BY <1>1, <1>2, Appended
<1> HIDE DEF last
<1>5. Cursors'
  <2>1. ASSUME NEW i \in DOMAIN requests', ~More(i)' PROVE i \in DOMAIN requests /\ ~More(i)
    BY <1>3, <1>4, <2>1 DEF More
  <2>2. ASSUME NEW i \in DOMAIN requests', Searched(i)' PROVE i \in DOMAIN requests /\ Searched(i)
    BY <1>3, <1>4, <2>2 DEF Searched
  <2>3. ASSUME NEW i \in DOMAIN requests', NEW j \in DOMAIN requests', Searched(i)',
               requests'[i].status = "waiting", More(j)'
        PROVE  requests'[j].scroll # requests'[i].scroll
    BY <1>3, <1>4, <2>2, <2>3 DEF PagesInv, Cursors, More
  <2> QED
    BY <1>1, <1>4, <2>1, <2>2, <2>3 DEF PagesInv, Cursors
<1>6. \A i \in DOMAIN requests : ~Awaited(i)
  BY <1>1 DEF PagesInv, ReadingOn
<1>7. \A i \in DOMAIN requests' : Awaited(i)' => i = last /\ requests'[i].page = 0
  BY <1>1, <1>3, <1>4, <1>6 DEF Awaited, Current, More
<1>8. ReadingOn'
  BY <1>1, <1>3, <1>4, <1>7 DEF PagesInv, ReadingOn, Current, More
<1>9. ScrollShown'
  <2>1. CursorAhead'
    BY <1>1, <1>7 DEF PagesInv, ScrollShown, CursorAhead
  <2>2. LoadLost(scrollId) => LoadLost(scrollId)'
    BY <1>1, <1>4 DEF LoadLost, SkippedPage
  <2>3. NoGap => NoGap'
    BY <1>1, <1>6, <1>7 DEF NoGap
  <2> QED
    BY <1>1, <2>1, <2>2, <2>3 DEF PagesInv, ScrollShown
<1>10. PagesInOrder'
  BY <1>1, <1>4, OrderStays DEF PagesInv, SkippedPage
<1> QED
  BY <1>5, <1>8, <1>9, <1>10 DEF PagesInv

(* A request that ends gives up no cursor to another.                      *)
LEMMA CursorsKept ==
  ASSUME IInv, PagesInv, NEW r \in DOMAIN requests, NEW status \in {"answered", "failed"},
         Ends(r, status),
         scrollId' = scrollId \/ (Searched(r) /\ scrollId' = requests[r].scroll)
  PROVE  Cursors'
<1>1. /\ DOMAIN requests' = DOMAIN requests /\ scrolls' = scrolls
      /\ \A i \in DOMAIN requests :
           /\ requests'[i].kind = requests[i].kind
           /\ requests'[i].searchGeneration = requests[i].searchGeneration
           /\ requests'[i].scroll = requests[i].scroll
           /\ requests'[i].server = requests[i].server /\ requests'[i].page = requests[i].page
           /\ requests'[i].status = "waiting" => requests[i].status = "waiting" /\ i # r
  BY Ended DEF IInv, Ends
<1>2. \A i \in DOMAIN requests : (More(i)' <=> More(i)) /\ (Searched(i)' <=> Searched(i))
  BY <1>1 DEF More, Searched
<1> QED
  BY <1>1, <1>2 DEF PagesInv, Cursors

(* An answer of an older generation.                                       *)
LEMMA PagesLate ==
  ASSUME IInv, PagesInv, NEW r \in DOMAIN requests, LateAnswer(r)
  PROVE  PagesInv'
<1>1. PICK status \in {"answered", "failed"} : Ends(r, status)
  BY DEF LateAnswer
<1>2. /\ UNCHANGED <<results, scrollId, searchGeneration, scrolls, loadingMore>>
      /\ ~Current(r) /\ requests[r].status = "waiting"
  BY <1>1 DEF LateAnswer, Ends, shown
<1>3. /\ DOMAIN requests' = DOMAIN requests
      /\ \A i \in DOMAIN requests :
           /\ requests'[i].kind = requests[i].kind /\ requests'[i].query = requests[i].query
           /\ requests'[i].searchGeneration = requests[i].searchGeneration
           /\ requests'[i].scroll = requests[i].scroll
           /\ requests'[i].server = requests[i].server /\ requests'[i].page = requests[i].page
           /\ requests'[i].resent = requests[i].resent
           /\ i # r => requests'[i].status = requests[i].status
  BY <1>1, Ended DEF IInv
<1>4. Cursors'
  <2>1. scrollId' = scrollId
    BY <1>2
  <2> QED
    BY <1>1, <2>1, CursorsKept
<1>5. \A i \in DOMAIN requests :
        /\ (More(i)' <=> More(i)) /\ (Current(i)' <=> Current(i)) /\ (Awaited(i)' <=> Awaited(i))
        /\ Current(i) => requests'[i].status = requests[i].status
        /\ SkippedPage(i) => SkippedPage(i)'
  BY <1>2, <1>3 DEF More, Current, Awaited, SkippedPage
<1>6. ReadingOn'
  BY <1>2, <1>3, <1>5 DEF PagesInv, ReadingOn
<1>7. ScrollShown'
  <2>1. CursorAhead => CursorAhead'
    BY <1>2, <1>3, <1>5 DEF CursorAhead
  <2>2. LoadLost(scrollId) => LoadLost(scrollId)'
    BY <1>2, <1>3, <1>5 DEF LoadLost
  <2>3. NoGap => NoGap'
    BY <1>2, <1>3, <1>5 DEF NoGap
  <2> QED
    BY <1>2, <2>1, <2>2, <2>3 DEF PagesInv, ScrollShown
<1>8. PagesInOrder'
  BY <1>2, <1>3, <1>5, OrderStays DEF PagesInv
<1> QED
  BY <1>4, <1>6, <1>7, <1>8 DEF PagesInv

(* The newest search fails: it has opened no scroll.                       *)
LEMMA PagesNone ==
  ASSUME IInv, PagesInv, NEW r \in DOMAIN requests, SearchFailed(r)
  PROVE  PagesInv'
<1>1. /\ Ends(r, "failed") /\ UNCHANGED <<scrollId, searchGeneration, scrolls, loadingMore>>
      /\ results' = << >> /\ Current(r) /\ requests[r].kind = "search"
      /\ requests[r].status = "waiting"
  BY DEF SearchFailed, Ends
<1>2. scrollId = Nil
  BY <1>1 DEF PagesInv, ReadingOn
<1>3. /\ DOMAIN requests' = DOMAIN requests
      /\ \A i \in DOMAIN requests :
           /\ requests'[i].kind = requests[i].kind
           /\ requests'[i].searchGeneration = requests[i].searchGeneration
           /\ requests'[i].server = requests[i].server /\ requests'[i].page = requests[i].page
           /\ requests'[i].status = "waiting" => requests[i].status = "waiting"
           /\ requests'[i].status = "answered" => requests[i].status = "answered"
  BY <1>1, Ended DEF IInv
<1>4. Cursors'
  <2>1. scrollId' = scrollId
    BY <1>1
  <2> QED
    BY <1>1, <2>1, CursorsKept
<1>5. ReadingOn'
  BY <1>1, <1>2, <1>3 DEF PagesInv, ReadingOn, More, Current, Awaited
<1>6. ScrollShown' /\ PagesInOrder'
  BY <1>1, <1>2 DEF ScrollShown, PagesInOrder
<1> QED
  BY <1>4, <1>5, <1>6 DEF PagesInv

(* A request for more fails: its page is missing from now on.              *)
LEMMA PagesGap ==
  ASSUME IInv, PagesInv, NEW r \in DOMAIN requests, MoreFailed(r)
  PROVE  PagesInv'
<1>1. /\ Ends(r, "failed") /\ UNCHANGED <<results, scrollId, searchGeneration, scrolls>>
      /\ loadingMore' = FALSE /\ Current(r) /\ More(r) /\ requests[r].status = "waiting"
  BY DEF MoreFailed, Ends, shown, More
<1>2. /\ DOMAIN requests' = DOMAIN requests
      /\ \A i \in DOMAIN requests :
           /\ requests'[i].kind = requests[i].kind /\ requests'[i].query = requests[i].query
           /\ requests'[i].searchGeneration = requests[i].searchGeneration
           /\ requests'[i].scroll = requests[i].scroll
           /\ requests'[i].server = requests[i].server /\ requests'[i].page = requests[i].page
           /\ requests'[i].resent = requests[i].resent
           /\ requests'[i].status = IF i = r THEN "failed" ELSE requests[i].status
  BY <1>1, Ended DEF IInv
<1>3. Cursors'
  <2>1. scrollId' = scrollId
    BY <1>1
  <2> QED
    BY <1>1, <2>1, CursorsKept
<1>4. Awaited(r) /\ requests[r].scroll = scrollId /\ scrollId # Nil
  BY <1>1 DEF PagesInv, ReadingOn, Awaited
<1>5. \A i \in DOMAIN requests : ~Awaited(i)'
  <2>1. \A i \in DOMAIN requests : Awaited(i) => i = r
    BY <1>4 DEF PagesInv, ReadingOn
  <2> QED
    BY <1>1, <1>2, <2>1 DEF Awaited, Current, More
<1>6. ReadingOn'
  BY <1>1, <1>2, <1>5 DEF PagesInv, ReadingOn, Current, More
<1>7. ScrollShown'
  <2>1. CursorAhead'
    BY <1>1, <1>2, <1>4, <1>5 DEF PagesInv, ScrollShown, CursorAhead
  <2>2. LoadLost(scrollId)'
    BY <1>1, <1>2, <1>4 DEF LoadLost, SkippedPage, More
  <2> QED
    BY <2>1, <2>2 DEF ScrollShown
<1>8. PagesInOrder'
  BY <1>1, <1>2, OrderStays DEF PagesInv, SkippedPage
<1> QED
  BY <1>3, <1>6, <1>7, <1>8 DEF PagesInv

(* The newest search is answered: the first page, and a scroll that nothing*)
(* has been read from.                                                     *)
LEMMA PagesBegin ==
  ASSUME IInv, PagesInv, NEW r \in DOMAIN requests, SearchAnswered(r)
  PROVE  PagesInv'
<1> DEFINE hit == [query |-> requests[r].query, page |-> requests[r].page]
<1>1. /\ Ends(r, "answered") /\ Searched(r) /\ UNCHANGED <<searchGeneration, scrolls, loadingMore>>
      /\ scrollId' = requests[r].scroll /\ results' = HitsOf(r) /\ Current(r)
      /\ requests[r].status = "waiting"
  BY DEF SearchAnswered, Ends, Searched
<1>2. /\ DOMAIN requests' = DOMAIN requests
      /\ \A i \in DOMAIN requests :
           /\ requests'[i].kind = requests[i].kind /\ requests'[i].query = requests[i].query
           /\ requests'[i].searchGeneration = requests[i].searchGeneration
           /\ requests'[i].scroll = requests[i].scroll
           /\ requests'[i].server = requests[i].server /\ requests'[i].page = requests[i].page
           /\ requests'[i].status = IF i = r THEN "answered" ELSE requests[i].status
  BY <1>1, Ended DEF IInv
<1>3. Cursors'
  BY <1>1, CursorsKept
<1>4. /\ scrollId = Nil /\ requests[r].page = 1 /\ scrolls[requests[r].scroll].next = 2
      /\ scrolls[requests[r].scroll].query = requests[r].query
      /\ \A i \in DOMAIN requests : More(i) => requests[i].scroll # requests[r].scroll /\ ~Current(i)
  BY <1>1 DEF PagesInv, ReadingOn, Cursors, Searched, IInv, RequestsTraced
<1>5. \A i \in DOMAIN requests :
        /\ ~Awaited(i)'
        /\ Current(i)' => ~More(i)' /\ requests'[i].status # "waiting"
  <2>1. ASSUME NEW i \in DOMAIN requests, Current(i)' PROVE ~More(i)'
    BY <1>1, <1>2, <1>4, <2>1 DEF Current, More
  <2>2. ASSUME NEW i \in DOMAIN requests, Current(i)' PROVE i = r
    <3>1. ~More(i) /\ ~More(r) /\ requests[i].searchGeneration = requests[r].searchGeneration
      BY <1>1, <1>2, <2>1, <2>2 DEF Current, More, Searched
    <3> QED
      BY <3>1 DEF PagesInv, Cursors
  <2> QED
    BY <1>2, <2>1, <2>2 DEF Awaited
<1>6. ReadingOn'
  BY <1>1, <1>2, <1>4, <1>5 DEF PagesInv, ReadingOn, Current, More
<1>7. results' = <<hit>> /\ hit.page = 1 /\ hit.query = requests[r].query
  BY <1>1, <1>4 DEF HitsOf
<1> HIDE DEF hit
<1>8. DOMAIN results' = {1} /\ Len(results') = 1 /\ results'[1] = hit /\ results' # << >>
  BY <1>7
<1>9. ScrollShown'
  <2>1. CursorAhead'
    BY <1>1, <1>2, <1>4, <1>5, <1>7, <1>8 DEF CursorAhead
  <2>2. NoGap'
    BY <1>1, <1>2, <1>4, <1>5, <1>7, <1>8 DEF NoGap
  <2> QED
    BY <2>1, <2>2 DEF ScrollShown
<1>10. PagesInOrder'
  BY <1>7, <1>8 DEF PagesInOrder
<1> QED
  BY <1>3, <1>6, <1>9, <1>10 DEF PagesInv

(* A further page is appended: it is later than what is shown.             *)
LEMMA PagesGrow ==
  ASSUME IInv, PagesInv, NEW r \in DOMAIN requests, MoreAnswered(r)
  PROVE  PagesInv'
<1> DEFINE n == Len(results)
<1>1. /\ Ends(r, "answered") /\ UNCHANGED <<scrollId, searchGeneration, scrolls>>
      /\ results' = results \o HitsOf(r)
      /\ loadingMore' = FALSE /\ Current(r) /\ More(r) /\ requests[r].server = "handled"
      /\ requests[r].status = "waiting"
  BY DEF MoreAnswered, Ends, More
<1>2. /\ DOMAIN requests' = DOMAIN requests
      /\ \A i \in DOMAIN requests :
           /\ requests'[i].kind = requests[i].kind /\ requests'[i].query = requests[i].query
           /\ requests'[i].searchGeneration = requests[i].searchGeneration
           /\ requests'[i].scroll = requests[i].scroll
           /\ requests'[i].server = requests[i].server /\ requests'[i].page = requests[i].page
           /\ requests'[i].resent = requests[i].resent
           /\ requests'[i].status = IF i = r THEN "answered" ELSE requests[i].status
  BY <1>1, Ended DEF IInv
<1>3. Cursors'
  <2>1. scrollId' = scrollId
    BY <1>1
  <2> QED
    BY <1>1, <2>1, CursorsKept
<1>4. /\ Awaited(r) /\ requests[r].scroll = scrollId /\ scrollId # Nil
      /\ scrolls[scrollId].query = requests[r].query
  BY <1>1 DEF PagesInv, ReadingOn, Awaited, IInv, RequestsTraced, More
<1>5. \A i \in DOMAIN requests : ~Awaited(i)' /\ (Awaited(i) => i = r)
  <2>1. \A i \in DOMAIN requests : Awaited(i) => i = r
    BY <1>4 DEF PagesInv, ReadingOn
  <2> QED
    BY <1>1, <1>2, <2>1 DEF Awaited, Current, More
<1>6. ReadingOn'
  BY <1>1, <1>2, <1>5 DEF PagesInv, ReadingOn, Current, More
<1>7. \A i \in DOMAIN requests : SkippedPage(i) => SkippedPage(i)'
  BY <1>1, <1>2 DEF SkippedPage
<1>8. CursorAhead /\ (LoadLost(scrollId) \/ NoGap)
  BY <1>4 DEF PagesInv, ScrollShown
<1>9. LoadLost(scrollId) => LoadLost(scrollId)'
  BY <1>1, <1>2, <1>7 DEF LoadLost
<1>10. CASE requests[r].page = 0
  <2>1. results' = results
    <3>1. results \in Seq(Hit)
      BY DEF IInv, SearchTypeOK, ShownOK
    <3> QED
      BY <1>1, <1>10, <3>1 DEF HitsOf
  <2>2. CursorAhead'
    BY <1>1, <1>2, <1>5, <1>8, <2>1 DEF CursorAhead
  <2>3. NoGap => NoGap'
    <3>1. results \in Seq(Hit) /\ n \in Nat /\ n + 1 # 0
      BY DEF IInv, SearchTypeOK, ShownOK
    <3> QED
      BY <1>1, <1>2, <1>5, <1>10, <2>1, <3>1 DEF NoGap
  <2>4. ScrollShown'
    BY <1>1, <1>8, <1>9, <2>2, <2>3 DEF ScrollShown
  <2>5. PagesInOrder'
    BY <1>2, <1>7, <2>1, OrderStays DEF PagesInv
  <2> QED
    BY <1>3, <1>6, <2>4, <2>5 DEF PagesInv
<1>11. CASE requests[r].page # 0
  <2> DEFINE hit == [query |-> requests[r].query, page |-> requests[r].page]
  <2>1. HitsOf(r) = <<hit>> /\ hit.query = requests[r].query /\ hit.page = requests[r].page
    BY <1>11 DEF HitsOf
  <2>2. results \in Seq(Hit)
    BY DEF IInv, SearchTypeOK, ShownOK
  <2> HIDE DEF hit
  <2>3. /\ n \in Nat /\ Len(results') = n + 1 /\ DOMAIN results' = DOMAIN results \cup {n + 1}
        /\ \A i \in DOMAIN results : results'[i] = results[i] /\ i \in Nat /\ i < n + 1
        /\ results'[n + 1] = hit /\ results' # << >> /\ 1 \in DOMAIN results'
    BY <1>1, <2>1, <2>2
  <2>4. /\ hit.page < scrolls[scrollId].next /\ hit.query = scrolls[scrollId].query
        /\ \A i \in DOMAIN results : results[i].page < hit.page
    BY <1>4, <1>8, <1>11, <2>1 DEF CursorAhead
  <2> HIDE DEF n
  <2>5. CursorAhead'
    BY <1>1, <1>2, <1>5, <1>8, <2>3, <2>4 DEF CursorAhead
  <2>6. NoGap => NoGap'
    <3> SUFFICES ASSUME NoGap PROVE NoGap'
      OBVIOUS
    <3>1. scrolls[scrollId].next = n + 2 /\ hit.page = n + 1
      BY <1>4, <1>5, <1>11, <2>1 DEF NoGap, n
    <3> QED
      BY <1>1, <1>2, <1>5, <2>3, <3>1 DEF NoGap
  <2>7. ScrollShown'
    BY <1>1, <1>8, <1>9, <2>5, <2>6 DEF ScrollShown
  <2>8. ASSUME NEW i \in DOMAIN results', NEW j \in DOMAIN results', i < j
        PROVE  results'[i].query = results'[j].query /\ results'[i].page < results'[j].page
    <3>1. i \in DOMAIN results
      BY <2>3, <2>8
    <3>2. CASE j \in DOMAIN results
      BY <2>3, <2>8, <3>1, <3>2 DEF PagesInv, PagesInOrder
    <3>3. CASE j = n + 1
      BY <1>8, <2>3, <2>4, <3>1, <3>3 DEF CursorAhead
    <3> QED
      BY <2>3, <3>2, <3>3
  <2>9. ASSUME NoGap PROVE PagesInOrder'
    <3>1. \A i \in DOMAIN results' : results'[i].page = i
      BY <2>6, <2>9 DEF NoGap
    <3> QED
      BY <2>8, <3>1 DEF PagesInOrder
  <2>10. ASSUME LoadLost(scrollId) PROVE PagesInOrder'
    <3>1. PICK f \in DOMAIN requests :
            SkippedPage(f) /\ requests[f].scroll = scrollId
      BY <2>10 DEF LoadLost
    <3>2. requests[f].query = scrolls[scrollId].query
      BY <3>1 DEF IInv, RequestsTraced, SkippedPage
    <3>3. results'[1].query = scrolls[scrollId].query
      BY <1>1, <2>3, <2>5 DEF CursorAhead
    <3>4. f \in DOMAIN requests' /\ SkippedPage(f)' /\ requests'[f].query = results'[1].query
      BY <1>2, <1>7, <3>1, <3>2, <3>3
    <3> QED
      BY <2>8, <3>4 DEF PagesInOrder
  <2>11. PagesInOrder'
    BY <1>8, <2>9, <2>10
  <2> QED
    BY <1>3, <1>6, <2>7, <2>11 DEF PagesInv
<1> QED
  BY <1>10, <1>11

(* A search is handled: its cursor is a new one.                           *)
LEMMA PagesOpened ==
  ASSUME IInv, PagesInv, NEW r \in DOMAIN requests, HandleSearch(r)
  PROVE  PagesInv'
<1> DEFINE last == Len(scrolls) + 1
           cursor == [query |-> requests[r].query, next |-> 2]
           Cursor == [query : Query, next : Nat]
<1>1. /\ UNCHANGED <<results, scrollId, searchGeneration, loadingMore>>
      /\ scrolls' = Append(scrolls, cursor)
      /\ requests[r].kind = "search" /\ requests[r].server = "sent"
      /\ requests[r].status = "waiting"
      /\ requests' = [requests EXCEPT ![r].server = "handled", ![r].page = 1,
                                      ![r].scroll = last]
  BY DEF HandleSearch, view, shown
<1>2. requests \in Seq(Request) /\ requests[r] \in Request /\ scrolls \in Seq(Cursor)
  BY DEF IInv, SearchTypeOK, RequestsOK
<1>3. cursor \in Cursor /\ cursor.next = 2
  BY <1>2 DEF Request
<1> HIDE DEF cursor, Cursor
<1>4. /\ last \in Nat /\ last \notin DOMAIN scrolls /\ last # Nil
      /\ \A s \in DOMAIN scrolls : scrolls'[s] = scrolls[s]
      /\ scrolls'[last] = cursor
  BY <1>1, <1>2, <1>3, SearchAssumption
<1> HIDE DEF last
<1>5. /\ DOMAIN requests' = DOMAIN requests
      /\ \A i \in DOMAIN requests : i # r => requests'[i] = requests[i]
      /\ requests'[r].kind = "search" /\ requests'[r].query = requests[r].query
      /\ requests'[r].searchGeneration = requests[r].searchGeneration
      /\ requests'[r].server = "handled" /\ requests'[r].page = 1 /\ requests'[r].scroll = last
      /\ requests'[r].status = "waiting"
  BY <1>1, <1>2 DEF Request
<1>6. \A i \in DOMAIN requests : More(i) \/ Searched(i) => requests[i].scroll \in DOMAIN scrolls
  BY DEF IInv, RequestsTraced, More, Searched
<1>7. scrollId = Nil \/ scrollId \in DOMAIN scrolls
  BY DEF IInv, SearchTypeOK, ShownOK
<1>8. \A i \in DOMAIN requests :
        /\ More(i)' <=> More(i)
        /\ Searched(i)' <=> i = r \/ Searched(i)
        /\ Current(i)' <=> Current(i)
        /\ Awaited(i)' <=> Awaited(i)
        /\ More(i) \/ Searched(i) => i # r
  BY <1>1, <1>5 DEF More, Searched, Current, Awaited
<1>9. Cursors'
  <2>1. ASSUME NEW i \in DOMAIN requests', NEW j \in DOMAIN requests', ~More(i)', ~More(j)',
               requests'[i].searchGeneration = requests'[j].searchGeneration
        PROVE  i = j
    BY <1>5, <1>8, <2>1 DEF PagesInv, Cursors
  <2>2. ASSUME NEW i \in DOMAIN requests', NEW j \in DOMAIN requests', Searched(i)', Searched(j)',
               requests'[i].scroll = requests'[j].scroll
        PROVE  i = j
    BY <1>4, <1>5, <1>6, <1>8, <2>2 DEF PagesInv, Cursors
  <2>3. ASSUME NEW i \in DOMAIN requests', NEW j \in DOMAIN requests', Searched(i)',
               requests'[i].status = "waiting", More(j)'
        PROVE  requests'[j].scroll # requests'[i].scroll
    BY <1>4, <1>5, <1>6, <1>8, <2>3 DEF PagesInv, Cursors
  <2>4. ASSUME NEW i \in DOMAIN requests', Searched(i)', requests'[i].status = "waiting"
        PROVE  /\ requests'[i].page = 1 /\ scrolls'[requests'[i].scroll].next = 2
               /\ requests'[i].scroll # scrollId'
    <3>1. CASE i = r
      <4>1. requests'[i].page = 1 /\ requests'[i].scroll = last
        BY <1>5, <3>1
      <4>2. scrolls'[last].next = 2
        BY <1>3, <1>4
      <4>3. last # scrollId'
        BY <1>1, <1>4, <1>7
      <4> QED
        BY <4>1, <4>2, <4>3
    <3>2. CASE i # r
      <4>1. /\ i \in DOMAIN requests /\ requests'[i] = requests[i] /\ Searched(i)
            /\ requests[i].scroll \in DOMAIN scrolls
        BY <1>5, <1>6, <1>8, <2>4, <3>2
      <4>2. /\ requests[i].page = 1 /\ scrolls[requests[i].scroll].next = 2
            /\ requests[i].scroll # scrollId
        BY <2>4, <4>1 DEF PagesInv, Cursors
      <4> QED
        BY <1>1, <1>4, <4>1, <4>2
    <3> QED
      BY <3>1, <3>2
  <2> QED
    BY <2>1, <2>2, <2>3, <2>4 DEF Cursors
<1>10. ReadingOn'
  BY <1>1, <1>5, <1>8 DEF PagesInv, ReadingOn
<1>11. ScrollShown'
  <2> SUFFICES ASSUME scrollId # Nil PROVE CursorAhead' /\ (LoadLost(scrollId)' \/ NoGap')
    BY <1>1 DEF ScrollShown
  <2>1. scrolls'[scrollId] = scrolls[scrollId]
    BY <1>4, <1>7
  <2>2. \A i \in DOMAIN requests : Awaited(i) => requests'[i] = requests[i]
    BY <1>5, <1>8 DEF Awaited
  <2>3. CursorAhead => CursorAhead'
    BY <1>1, <1>5, <1>8, <2>1, <2>2 DEF CursorAhead
  <2>4. LoadLost(scrollId) => LoadLost(scrollId)'
    BY <1>1, <1>5, <1>8 DEF LoadLost, SkippedPage, More
  <2>5. NoGap => NoGap'
    BY <1>1, <1>5, <1>8, <2>1, <2>2 DEF NoGap
  <2> QED
    BY <2>3, <2>4, <2>5 DEF PagesInv, ScrollShown
<1>12. PagesInOrder'
  BY <1>1, <1>5, OrderStays DEF PagesInv, SkippedPage
<1> QED
  BY <1>9, <1>10, <1>11, <1>12 DEF PagesInv

(* A request for more is handled, given up by the view or not: the cursor  *)
(* advances, or is at its end.                                             *)
LEMMA PagesRead ==
  ASSUME IInv, PagesInv, NEW r \in DOMAIN requests, HandleMore(r)
  PROVE  PagesInv'
<1> DEFINE s == requests[r].scroll
           p == scrolls[s].next
           Cursor == [query : Query, next : Nat]
<1>1. /\ UNCHANGED <<results, scrollId, searchGeneration, loadingMore>>
      /\ More(r) /\ requests[r].server = "sent"
  BY DEF HandleMore, view, shown, More
<1>2. requests \in Seq(Request) /\ requests[r] \in Request /\ scrolls \in Seq(Cursor)
  BY DEF IInv, SearchTypeOK, RequestsOK
<1>3. s \in DOMAIN scrolls /\ requests[r].page = 0
  BY <1>1 DEF PagesInv, ReadingOn, IInv, RequestsTraced, More
<1>4. p \in Nat /\ scrolls[s] \in Cursor
  BY <1>2, <1>3, CursorOf, Element
<1> DEFINE Kept(i) ==
             /\ requests'[i].kind = requests[i].kind /\ requests'[i].query = requests[i].query
             /\ requests'[i].searchGeneration = requests[i].searchGeneration
             /\ requests'[i].scroll = requests[i].scroll
             /\ requests'[i].resent = requests[i].resent
             /\ requests'[i].status = requests[i].status
           Advanced ==
             /\ scrolls' = [scrolls EXCEPT ![s].next = p + 1]
             /\ requests'[r].page = p
           AtEnd == scrolls' = scrolls /\ requests'[r].page = 0
<1>5. /\ DOMAIN requests' = DOMAIN requests /\ \A i \in DOMAIN requests : Kept(i)
      /\ \A i \in DOMAIN requests : i # r => requests'[i] = requests[i]
      /\ requests'[r].server = "handled"
      /\ Advanced \/ AtEnd
  <2>1. CASE p <= Matches[scrolls[s].query]
    <3> DEFINE new == [requests[r] EXCEPT !.server = "handled", !.page = p]
    <3>1. /\ new.kind = requests[r].kind /\ new.query = requests[r].query
          /\ new.searchGeneration = requests[r].searchGeneration
          /\ new.scroll = requests[r].scroll /\ new.status = requests[r].status
          /\ new.resent = requests[r].resent
          /\ new.server = "handled" /\ new.page = p
      BY <1>2 DEF Request
    <3>2. /\ scrolls' = [scrolls EXCEPT ![s].next = p + 1]
          /\ requests' = [requests EXCEPT ![r] = new]
      BY <1>2, <2>1 DEF HandleMore, Request
    <3> HIDE DEF new
    <3> QED
      BY <1>2, <3>1, <3>2
  <2>2. CASE ~(p <= Matches[scrolls[s].query])
    <3> DEFINE new == [requests[r] EXCEPT !.server = "handled"]
    <3>1. /\ new.kind = requests[r].kind /\ new.query = requests[r].query
          /\ new.searchGeneration = requests[r].searchGeneration
          /\ new.scroll = requests[r].scroll /\ new.status = requests[r].status
          /\ new.resent = requests[r].resent
          /\ new.server = "handled" /\ new.page = requests[r].page
      BY <1>2 DEF Request
    <3>2. scrolls' = scrolls /\ requests' = [requests EXCEPT ![r] = new]
      BY <1>2, <2>2 DEF HandleMore, Request
    <3> HIDE DEF new
    <3> QED
      BY <1>2, <1>3, <3>1, <3>2
  <2> QED
    BY <2>1, <2>2
<1>6. /\ \A t \in DOMAIN scrolls : t # s => scrolls'[t] = scrolls[t]
      /\ scrolls'[s].query = scrolls[s].query
      /\ \/ scrolls'[s].next = p + 1 /\ requests'[r].page = p
         \/ scrolls'[s].next = p /\ requests'[r].page = 0
  BY <1>2, <1>3, <1>4, <1>5
<1> HIDE DEF s, p, Cursor, Advanced, AtEnd
<1>7. \A i \in DOMAIN requests :
        /\ More(i)' <=> More(i)
        /\ Searched(i)' <=> Searched(i)
        /\ Current(i)' <=> Current(i)
        /\ Awaited(i)' <=> Awaited(i)
        /\ Searched(i) => i # r
        /\ SkippedPage(i)' <=> SkippedPage(i)
  BY <1>1, <1>5 DEF More, Searched, Current, Awaited, SkippedPage
<1>8. Cursors'
  <2>1. ASSUME NEW i \in DOMAIN requests, Searched(i), requests[i].status = "waiting"
        PROVE  /\ requests'[i].page = 1 /\ scrolls'[requests'[i].scroll].next = 2
               /\ requests'[i].scroll # scrollId
    <3>1. requests[i].scroll \in DOMAIN scrolls
      BY <2>1 DEF IInv, RequestsTraced, Searched
    <3>2. requests[i].scroll # s
      BY <1>1, <2>1 DEF PagesInv, Cursors, s
    <3> QED
      BY <1>5, <1>6, <1>7, <2>1, <3>1, <3>2 DEF PagesInv, Cursors
  <2>2. \A i, j \in DOMAIN requests :
          /\ ~More(i) /\ ~More(j) /\ requests[i].searchGeneration = requests[j].searchGeneration
               => i = j
          /\ Searched(i) /\ Searched(j) /\ requests[i].scroll = requests[j].scroll => i = j
          /\ Searched(i) /\ requests[i].status = "waiting" /\ More(j) =>
               requests[j].scroll # requests[i].scroll
    BY DEF PagesInv, Cursors
  <2> QED
    BY <1>1, <1>5, <1>7, <2>1, <2>2 DEF Cursors
<1>9. ReadingOn'
  BY <1>1, <1>5, <1>7 DEF PagesInv, ReadingOn
<1>10. ScrollShown'
  <2> SUFFICES ASSUME scrollId # Nil PROVE CursorAhead' /\ (LoadLost(scrollId)' \/ NoGap')
    BY <1>1 DEF ScrollShown
  <2>1. scrollId \in DOMAIN scrolls /\ CursorAhead /\ (LoadLost(scrollId) \/ NoGap)
    BY DEF PagesInv, ScrollShown, IInv, SearchTypeOK, ShownOK
  <2>2. LoadLost(scrollId) => LoadLost(scrollId)'
    BY <1>1, <1>5, <1>7 DEF LoadLost
  <2>3. CASE s # scrollId
    <3>1. scrolls'[scrollId] = scrolls[scrollId] /\ ~Current(r)
      BY <1>1, <1>6, <2>1, <2>3 DEF PagesInv, ReadingOn, s
    <3>2. \A i \in DOMAIN requests : Awaited(i) => requests'[i] = requests[i]
      BY <1>5, <3>1 DEF Awaited
    <3>3. CursorAhead'
      BY <1>1, <1>5, <1>7, <2>1, <3>1, <3>2 DEF CursorAhead
    <3>4. NoGap => NoGap'
      BY <1>1, <1>5, <1>7, <3>1, <3>2 DEF NoGap
    <3> QED
      BY <2>1, <2>2, <3>3, <3>4
  <2>4. CASE s = scrollId
    <3>1. p = scrolls[scrollId].next /\ Current(r) /\ requests[r].status # "answered"
      BY <1>1, <2>4 DEF PagesInv, ReadingOn, p, s
    <3>2. ASSUME NEW i \in DOMAIN results
          PROVE  results[i].query = scrolls[s].query /\ results[i].page \in Nat /\ results[i].page < p
      <4>1. results \in Seq(Hit)
        BY DEF IInv, SearchTypeOK, ShownOK
      <4>2. results[i] \in Hit
        BY <4>1, Element
      <4> QED
        BY <2>1, <2>4, <3>1, <4>2 DEF CursorAhead, Hit
    <3>3. ASSUME NEW i \in DOMAIN requests, Awaited(i), requests'[i].page # 0
          PROVE  /\ requests'[i].page < scrolls'[s].next
                 /\ \A j \in DOMAIN results : results[j].page < requests'[i].page
      <4>1. CASE i = r
        BY <1>4, <1>6, <3>2, <3>3, <4>1
      <4>2. CASE i # r
        <5>1. requests'[i] = requests[i] /\ requests[i] \in Request
          BY <1>2, <1>5, <4>2, Element
        <5>2. /\ requests[i].page \in Nat /\ requests[i].page < p
              /\ \A j \in DOMAIN results : results[j].page < requests[i].page
          BY <2>1, <3>1, <3>3, <5>1 DEF CursorAhead, Request
        <5> QED
          BY <1>4, <1>6, <5>1, <5>2
      <4> QED
        BY <4>1, <4>2
    <3>4. scrolls'[s].next \in {p, p + 1}
      BY <1>6
    <3>5. CursorAhead'
      BY <1>1, <1>4, <1>5, <1>6, <1>7, <2>1, <2>4, <3>2, <3>3, <3>4 DEF CursorAhead
    <3>6. ASSUME ~LoadLost(scrollId) PROVE NoGap'
      <4>1. Awaited(r)
        <5>1. requests[r].status # "failed" /\ requests[r].status \in {"waiting", "answered", "failed"}
          BY <1>1, <1>2, <2>4, <3>6 DEF LoadLost, SkippedPage, More, s, Request
        <5> QED
          BY <1>1, <3>1, <5>1 DEF Awaited
      <4>2. \A i \in DOMAIN requests : Awaited(i) => i = r
        BY <4>1 DEF PagesInv, ReadingOn
      <4> DEFINE n == Len(results)
      <4>3. n \in Nat
        BY DEF IInv, SearchTypeOK, ShownOK
      <4> HIDE DEF n
      <4>4. (\A i \in DOMAIN results : results[i].page = i) /\ p = n + 1
        BY <1>3, <2>1, <3>1, <3>6, <4>2, <4>3 DEF NoGap, n
      <4>5. \/ scrolls'[scrollId].next = n + 2 /\ requests'[r].page = n + 1
            \/ scrolls'[scrollId].next = n + 1 /\ requests'[r].page = 0
        BY <1>6, <2>4, <4>3, <4>4
      <4> QED
        BY <1>1, <1>5, <1>7, <4>1, <4>2, <4>4, <4>5 DEF NoGap, n
    <3> QED
      BY <2>2, <3>5, <3>6
  <2> QED
    BY <2>3, <2>4
<1>11. PagesInOrder'
  BY <1>1, <1>5, <1>7, OrderStays DEF PagesInv
<1> QED
  BY <1>8, <1>9, <1>10, <1>11 DEF PagesInv

(* A request sent on again: the cursor passes a page, which is known.      *)
LEMMA PagesPassed ==
  ASSUME IInv, PagesInv, NEW r \in DOMAIN requests, ScrollAgain(r)
  PROVE  PagesInv'
<1> DEFINE s == requests[r].scroll
           p == scrolls[s].next
           Cursor == [query : Query, next : Nat]
           new == [requests[r] EXCEPT !.resent = TRUE]
<1>1. /\ UNCHANGED <<results, scrollId, searchGeneration, loadingMore>>
      /\ More(r) /\ requests[r].server = "sent"
  BY DEF ScrollAgain, view, shown, More
<1>2. requests \in Seq(Request) /\ requests[r] \in Request /\ scrolls \in Seq(Cursor)
  BY DEF IInv, SearchTypeOK, RequestsOK
<1>3. s \in DOMAIN scrolls
  BY <1>1 DEF IInv, RequestsTraced, More
<1>4. p \in Nat
  BY <1>2, <1>3, CursorOf
<1>5. /\ new.kind = requests[r].kind /\ new.query = requests[r].query
      /\ new.searchGeneration = requests[r].searchGeneration
      /\ new.scroll = requests[r].scroll /\ new.page = requests[r].page
      /\ new.server = requests[r].server /\ new.status = requests[r].status
      /\ new.resent
  BY <1>2 DEF Request
<1>6. /\ requests' = [requests EXCEPT ![r] = new]
      /\ scrolls' = [scrolls EXCEPT ![s].next = p + 1]
  BY <1>2 DEF ScrollAgain, Request
<1> HIDE DEF new
<1>7. /\ DOMAIN requests' = DOMAIN requests
      /\ \A i \in DOMAIN requests :
           /\ requests'[i].kind = requests[i].kind /\ requests'[i].query = requests[i].query
           /\ requests'[i].searchGeneration = requests[i].searchGeneration
           /\ requests'[i].scroll = requests[i].scroll /\ requests'[i].page = requests[i].page
           /\ requests'[i].server = requests[i].server
           /\ requests'[i].status = requests[i].status
           /\ requests[i].resent => requests'[i].resent
      /\ requests'[r].resent
  BY <1>2, <1>5, <1>6
<1>8. /\ \A t \in DOMAIN scrolls : t # s => scrolls'[t] = scrolls[t]
      /\ scrolls'[s].query = scrolls[s].query /\ scrolls'[s].next = p + 1
  <2>1. scrolls[s] \in Cursor
    BY <1>2, <1>3, Element
  <2> HIDE DEF s, p
  <2> QED
    BY <1>2, <1>3, <1>4, <1>6, <2>1
<1> HIDE DEF s, p, Cursor
<1>9. /\ SkippedPage(r)'
      /\ \A i \in DOMAIN requests :
           /\ More(i)' <=> More(i)
           /\ Searched(i)' <=> Searched(i)
           /\ Current(i)' <=> Current(i)
           /\ Awaited(i)' <=> Awaited(i)
           /\ SkippedPage(i) => SkippedPage(i)'
  BY <1>1, <1>7 DEF More, Searched, Current, Awaited, SkippedPage
<1>10. Cursors'
  <2>1. ASSUME NEW i \in DOMAIN requests, Searched(i), requests[i].status = "waiting"
        PROVE  /\ requests'[i].page = 1 /\ scrolls'[requests'[i].scroll].next = 2
               /\ requests'[i].scroll # scrollId
    <3>1. requests[i].scroll \in DOMAIN scrolls
      BY <2>1 DEF IInv, RequestsTraced, Searched
    <3>2. requests[i].scroll # s
      BY <1>1, <2>1 DEF PagesInv, Cursors, s
    <3> QED
      BY <1>7, <1>8, <2>1, <3>1, <3>2 DEF PagesInv, Cursors
  <2>2. \A i, j \in DOMAIN requests :
          /\ ~More(i) /\ ~More(j) /\ requests[i].searchGeneration = requests[j].searchGeneration
               => i = j
          /\ Searched(i) /\ Searched(j) /\ requests[i].scroll = requests[j].scroll => i = j
          /\ Searched(i) /\ requests[i].status = "waiting" /\ More(j) =>
               requests[j].scroll # requests[i].scroll
    BY DEF PagesInv, Cursors
  <2> QED
    BY <1>1, <1>7, <1>9, <2>1, <2>2 DEF Cursors
<1>11. ReadingOn'
  BY <1>1, <1>7, <1>9 DEF PagesInv, ReadingOn
<1>12. ScrollShown'
  <2> SUFFICES ASSUME scrollId # Nil PROVE CursorAhead' /\ (LoadLost(scrollId)' \/ NoGap')
    BY <1>1 DEF ScrollShown
  <2>1. scrollId \in DOMAIN scrolls /\ CursorAhead /\ (LoadLost(scrollId) \/ NoGap)
    BY DEF PagesInv, ScrollShown, IInv, SearchTypeOK, ShownOK
  <2>2. LoadLost(scrollId) => LoadLost(scrollId)'
    BY <1>1, <1>7, <1>9 DEF LoadLost
  <2>3. CASE s # scrollId
    <3>1. scrolls'[scrollId] = scrolls[scrollId]
      BY <1>8, <2>1, <2>3
    <3>2. CursorAhead'
      BY <1>1, <1>7, <1>9, <2>1, <3>1 DEF CursorAhead
    <3>3. NoGap => NoGap'
      BY <1>1, <1>7, <1>9, <3>1 DEF NoGap
    <3> QED
      BY <2>1, <2>2, <3>2, <3>3
  <2>4. CASE s = scrollId
    <3>1. LoadLost(scrollId)'
      BY <1>1, <1>7, <1>9, <2>4 DEF LoadLost, s
    <3>2. p = scrolls[scrollId].next
      BY <2>4 DEF p
    <3>3. ASSUME NEW i \in DOMAIN results PROVE results[i].page \in Nat
      <4>1. results \in Seq(Hit)
        BY DEF IInv, SearchTypeOK, ShownOK
      <4>2. results[i] \in Hit
        BY <4>1, Element
      <4> QED
        BY <4>2 DEF Hit
    <3>4. ASSUME NEW i \in DOMAIN requests PROVE requests[i].page \in Nat
      <4>1. requests[i] \in Request
        BY <1>2, Element
      <4> QED
        BY <4>1 DEF Request
    <3>5. CursorAhead'
      BY <1>1, <1>4, <1>7, <1>8, <1>9, <2>1, <2>4, <3>2, <3>3, <3>4 DEF CursorAhead
    <3> QED
      BY <3>1, <3>5
  <2> QED
    BY <2>3, <2>4
<1>13. PagesInOrder'
  BY <1>1, <1>7, <1>9, OrderStays DEF PagesInv
<1> QED
  BY <1>10, <1>11, <1>12, <1>13 DEF PagesInv

LEMMA PagesInvInit == SearchInit => PagesInv
  BY DEF SearchInit, PagesInv, Cursors, ReadingOn, ScrollShown, PagesInOrder

LEMMA PagesInvStep == ASSUME IInv, PagesInv, [SearchNext]_searchVars PROVE PagesInv'
<1>1. ASSUME NEW t \in Term, NEW f \in Filters, Search(t, f) PROVE PagesInv'
  <2> DEFINE new == NewRequest("search", searchGeneration + 1, Of(t, f), 0)
  <2>1. Of(t, f) \in Query /\ searchGeneration + 1 \in Nat
    BY QueryOf, SearchAssumption DEF IInv, SearchTypeOK, ShownOK
  <2>2. /\ new \in Request /\ new.kind = "search" /\ new.searchGeneration = searchGeneration + 1
        /\ new.server = "sent" /\ new.status = "waiting" /\ new.page = 0
    <3>1. new.page = 0
      BY DEF NewRequest
    <3> QED
      BY <2>1, <3>1, Sent
  <2>3. /\ searchGeneration' = searchGeneration + 1 /\ scrollId' = Nil /\ UNCHANGED scrolls
        /\ requests' \in {requests, Append(requests, new)} /\ results' \in {results, << >>}
    BY <1>1 DEF Search, NewGeneration, SendRequest
  <2> QED
    BY <2>2, <2>3, PagesForgotten DEF IInv
<1>2. ASSUME Clear PROVE PagesInv'
  <2> DEFINE new == NewRequest("search", searchGeneration + 1, Nothing, 0)
  <2>1. searchGeneration + 1 \in Nat
    BY SearchAssumption DEF IInv, SearchTypeOK, ShownOK
  <2>2. /\ new \in Request /\ new.kind = "search" /\ new.searchGeneration = searchGeneration + 1
        /\ new.server = "sent" /\ new.status = "waiting" /\ new.page = 0
    <3>1. new.page = 0
      BY DEF NewRequest
    <3> QED
      BY <2>1, <3>1, Sent, QueryOf
  <2>3. /\ searchGeneration' = searchGeneration + 1 /\ scrollId' = Nil /\ UNCHANGED scrolls
        /\ requests' \in {requests, Append(requests, new)} /\ results' \in {results, << >>}
    BY <1>2 DEF Clear, NewGeneration
  <2> QED
    BY <2>2, <2>3, PagesForgotten DEF IInv
<1>3. ASSUME NEW t \in Term, Edit(t) \/ DebouncedSearch(t) PROVE PagesInv'
  BY <1>3, PagesStay DEF Edit, DebouncedSearch, shown
<1>4. ASSUME NEW f \in Filters, UpdateFilters(f) PROVE PagesInv'
  <2>1. searchTerm \in Term
    BY DEF IInv, SearchTypeOK, ShownOK
  <2> QED
    BY <1>1, <1>2, <1>4, <2>1 DEF UpdateFilters, UserSearch
<1>5. ASSUME TimerFires PROVE PagesInv'
  <2>1. debounce \in Query
    BY <1>5 DEF TimerFires, IInv, SearchTypeOK, ShownOK
  <2>2. debounce.term \in Term /\ debounce.filters \in Filters
    BY <2>1, QueryOf
  <2> QED
    BY <1>1, <1>5, <2>2 DEF TimerFires
<1>6. ASSUME NEW r \in DOMAIN requests, Settles(r) \/ HandleSearch(r) \/ HandleMore(r) \/ ScrollAgain(r)
      PROVE  PagesInv'
  BY <1>6, PagesLate, PagesBegin, PagesNone, PagesGrow, PagesGap, PagesOpened, PagesRead,
     PagesPassed DEF Settles
<1>7. CASE UNCHANGED searchVars
  BY <1>7, PagesStay DEF searchVars, view, shown
<1> QED
  BY <1>1, <1>2, <1>3, <1>4, <1>5, <1>6, <1>7, PagesAsked DEF SearchNext, User, UserSearch

(* useSearch, loadMore: the pages shown are of one search, in order, none  *)
(* twice, and none is left out unless the request for one failed or was    *)
(* sent on to OpenSearch again; for any searches and loads, whatever is    *)
(* answered late, lost or handled after the view has given it up.          *)
THEOREM PagesStayInOrder == SearchSpec => []PagesInOrder
<1>1. SearchInit => IInv /\ PagesInv
  BY InitIInv, PagesInvInit
<1>2. IInv /\ PagesInv /\ [SearchNext]_searchVars => (IInv /\ PagesInv)'
  BY NextIInv, PagesInvStep
<1>3. PagesInv => PagesInOrder
  BY DEF PagesInv
<1> QED
  BY <1>1, <1>2, <1>3, PTL DEF SearchSpec
=============================================================================
