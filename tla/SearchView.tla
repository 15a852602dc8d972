----------------------------- MODULE SearchView -----------------------------
(***************************************************************************)
(* The state behind a search box (frontend/src/composables/useSearch.ts):  *)
(* searches that overlap, debounced ones, further pages read from an       *)
(* OpenSearch scroll, and answers that arrive late or never.  A generation *)
(* counter tells the answers of the newest search from all others.         *)
(*                                                                         *)
(* A scroll is a cursor of the server's: every request for more advances   *)
(* it, the requests whose answer is lost included, and those the server's  *)
(* client sends to OpenSearch again after such a loss.                     *)
(***************************************************************************)
EXTENDS Integers, Sequences

CONSTANTS
  Term,         \* search terms; Blank is one of them
  Blank,
  Filters,      \* what activeFilters can be; NoFilters is one of them
  NoFilters,
  Nil,
  Matches,      \* Matches[q]: pages of hits of query q
  MaxSearches,  \* bound: generations
  MaxLoads      \* bound: requests for more

Query == [term : Term, filters : Filters]

Of(t, f) == [term |-> t, filters |-> f]

Nothing == Of(Blank, NoFilters)

ASSUME SearchAssumption ==
  /\ Blank \in Term /\ NoFilters \in Filters
  /\ Nil \notin Query /\ Nil \notin Nat
  /\ Matches \in [Query -> Nat \ {0}]
  /\ {MaxSearches, MaxLoads} \subseteq Nat

VARIABLES
  searchTerm, activeFilters, results, total, loading, loadingMore, scrollId,
  searchGeneration,
  debounce,  \* debounceTimeout: Nil, or the query it will search
  requests,  \* every api.search so far
  scrolls,   \* the server's cursors: query and next page
  wanted     \* history: the query the user asked for last

shown == <<results, total, scrollId>>
view == <<searchTerm, activeFilters, shown, loading, loadingMore, searchGeneration, debounce, wanted>>
searchVars == <<view, requests, scrolls>>

Hit == [query : Query, page : Nat]
Request == [kind : {"search", "more"}, searchGeneration : Nat, query : Query,
            scroll : Nat,      \* 0 until a search is handled
            page : Nat,        \* the page in the answer, 0 if there is none
            server : {"sent", "handled"},
            resent : BOOLEAN,  \* the server's client has sent it on twice or more
            status : {"waiting", "answered", "failed"}]

NewRequest(kind, g, q, s) ==
  [kind |-> kind, searchGeneration |-> g, query |-> q, scroll |-> s, page |-> 0,
   server |-> "sent", resent |-> FALSE, status |-> "waiting"]

ShownOK ==
  /\ searchTerm \in Term /\ activeFilters \in Filters
  /\ results \in Seq(Hit) /\ total \in Nat
  /\ scrollId \in {Nil} \cup DOMAIN scrolls
  /\ searchGeneration \in 0..MaxSearches
  /\ debounce \in {Nil} \cup Query /\ wanted \in Query

LoadingOK ==
  /\ loading \in BOOLEAN /\ loadingMore \in BOOLEAN
  /\ loadingMore => scrollId # Nil /\ ~loading

RequestsOK ==
  /\ requests \in Seq(Request)
  /\ scrolls \in Seq([query : Query, next : Nat])

SearchTypeOK == ShownOK /\ LoadingOK /\ RequestsOK

SearchInit ==
  /\ searchTerm = Blank /\ activeFilters = NoFilters
  /\ results = << >> /\ total = 0 /\ scrollId = Nil
  /\ loading = FALSE /\ loadingMore = FALSE
  /\ searchGeneration = 0 /\ debounce = Nil
  /\ requests = << >> /\ scrolls = << >>
  /\ wanted = Nothing

-----------------------------------------------------------------------------
(* useSearch                                                               *)

SendRequest(r) == requests' = Append(requests, r)

Loads == SelectSeq(requests, LAMBDA r : r.kind = "more")

(* Mutant: a pending timer is left to fire.                                *)
NewGenerationTimer ==
  /\ searchGeneration < MaxSearches
  /\ searchGeneration' = searchGeneration + 1
  /\ loadingMore' = FALSE
  /\ UNCHANGED debounce

(* Mutant: search does not reset loadingMore.                              *)
NewGenerationLoading ==
  /\ searchGeneration < MaxSearches
  /\ searchGeneration' = searchGeneration + 1
  /\ UNCHANGED loadingMore
  /\ debounce' = Nil

NewGeneration ==
  /\ searchGeneration < MaxSearches
  /\ searchGeneration' = searchGeneration + 1
  /\ loadingMore' = FALSE
  /\ debounce' = Nil

(* search(term, filters), up to its await.  What the last search found     *)
(* stays on the screen while this one loads.                               *)
Search(t, f) ==
  /\ NewGeneration
  /\ searchTerm' = t /\ activeFilters' = f
  /\ scrollId' = Nil
  /\ \/ /\ Of(t, f) = Nothing
        /\ results' = << >> /\ total' = 0 /\ loading' = FALSE
        /\ UNCHANGED requests
     \/ /\ Of(t, f) # Nothing
        /\ loading' = TRUE
        /\ SendRequest(NewRequest("search", searchGeneration + 1, Of(t, f), 0))
        /\ UNCHANGED <<results, total>>
  /\ UNCHANGED scrolls

UserSearch(t, f) == Search(t, f) /\ wanted' = Of(t, f)

Clear ==
  /\ NewGeneration
  /\ searchTerm' = Blank /\ activeFilters' = NoFilters
  /\ wanted' = Nothing
  /\ results' = << >> /\ total' = 0 /\ scrollId' = Nil
  /\ loading' = FALSE
  /\ UNCHANGED <<requests, scrolls>>

(* A term typed in the palette, and the filters that will then be active.  *)
DebouncedSearch(t) ==
  /\ searchGeneration < MaxSearches
  /\ debounce' = Of(t, activeFilters) /\ wanted' = Of(t, activeFilters)
  /\ UNCHANGED <<searchTerm, activeFilters, shown, loading, loadingMore, searchGeneration,
                 requests, scrolls>>

TimerFires == debounce # Nil /\ Search(debounce.term, debounce.filters) /\ UNCHANGED wanted

(* The box is bound to searchTerm: typing there searches nothing yet.      *)
Edit(t) ==
  /\ searchTerm' = t
  /\ UNCHANGED <<activeFilters, shown, loading, loadingMore, searchGeneration, debounce, wanted,
                 requests, scrolls>>

(* handleFiltersUpdate, and clearFilters with no filters.                  *)
UpdateFilters(f) ==
  IF Of(searchTerm, f) = Nothing THEN Clear ELSE UserSearch(searchTerm, f)

(* Mutant: a load does not wait for the last one.                          *)
MayLoadTwice == scrollId # Nil /\ ~loading

MayLoad == scrollId # Nil /\ ~loading /\ ~loadingMore

(* The button is there while hits are missing.                             *)
LoadMore ==
  /\ MayLoad
  /\ Len(results) < total /\ Len(Loads) < MaxLoads
  /\ loadingMore' = TRUE
  /\ SendRequest(NewRequest("more", searchGeneration, scrolls[scrollId].query, scrollId))
  /\ UNCHANGED <<searchTerm, activeFilters, shown, loading, searchGeneration, debounce, wanted, scrolls>>

Current(r) == requests[r].searchGeneration = searchGeneration

Ends(r, status) ==
  /\ requests[r].status = "waiting"
  /\ requests' = [requests EXCEPT ![r].status = status]
  /\ UNCHANGED <<searchTerm, activeFilters, searchGeneration, debounce, wanted, scrolls>>

HitsOf(r) ==
  IF requests[r].page = 0 THEN << >>
  ELSE <<[query |-> requests[r].query, page |-> requests[r].page]>>

(* An answer or an error that is late: the view drops both alike, and one  *)
(* status stands for both.                                                 *)
LateAnswer(r) ==
  /\ ~Current(r)
  /\ Ends(r, "answered")
  /\ UNCHANGED <<shown, loading, loadingMore>>

SearchAnswered(r) ==
  /\ Current(r) /\ requests[r].kind = "search" /\ requests[r].server = "handled"
  /\ Ends(r, "answered")
  /\ results' = HitsOf(r) /\ total' = Matches[requests[r].query]
  /\ scrollId' = requests[r].scroll
  /\ loading' = FALSE
  /\ UNCHANGED loadingMore

SearchFailed(r) ==
  /\ Current(r) /\ requests[r].kind = "search"
  /\ Ends(r, "failed")
  /\ results' = << >> /\ total' = 0 /\ loading' = FALSE
  /\ UNCHANGED <<scrollId, loadingMore>>

MoreAnswered(r) ==
  /\ Current(r) /\ requests[r].kind = "more" /\ requests[r].server = "handled"
  /\ Ends(r, "answered")
  /\ results' = results \o HitsOf(r)
  /\ loadingMore' = FALSE
  /\ UNCHANGED <<total, scrollId, loading>>

MoreFailed(r) ==
  /\ Current(r) /\ requests[r].kind = "more"
  /\ Ends(r, "failed")
  /\ loadingMore' = FALSE
  /\ UNCHANGED <<shown, loading>>

Settles(r) ==
  LateAnswer(r) \/ SearchAnswered(r) \/ SearchFailed(r) \/ MoreAnswered(r) \/ MoreFailed(r)

-----------------------------------------------------------------------------
(* The server: it may come to a request that the view has given up.        *)

HandleSearch(r) ==
  /\ requests[r].server = "sent" /\ requests[r].kind = "search"
  /\ requests[r].status = "waiting"
  /\ scrolls' = Append(scrolls, [query |-> requests[r].query, next |-> 2])
  /\ requests' = [requests EXCEPT ![r].server = "handled", ![r].page = 1,
                                  ![r].scroll = Len(scrolls) + 1]
  /\ UNCHANGED view

HandleMore(r) ==
  LET s == requests[r].scroll
      p == scrolls[s].next IN
  /\ requests[r].server = "sent" /\ requests[r].kind = "more"
  /\ IF p <= Matches[scrolls[s].query]
       THEN /\ scrolls' = [scrolls EXCEPT ![s].next = p + 1]
            /\ requests' = [requests EXCEPT ![r].server = "handled", ![r].page = p]
       ELSE /\ requests' = [requests EXCEPT ![r].server = "handled"]
            /\ UNCHANGED scrolls
  /\ UNCHANGED view

(* OpenSearch has answered, the answer is lost, and the server's client    *)
(* sends the request again by itself: the page just read is skipped.       *)
ScrollAgain(r) ==
  LET s == requests[r].scroll
      p == scrolls[s].next IN
  /\ requests[r].server = "sent" /\ requests[r].kind = "more"
  /\ p <= Matches[scrolls[s].query]
  /\ scrolls' = [scrolls EXCEPT ![s].next = p + 1]
  /\ requests' = [requests EXCEPT ![r].resent = TRUE]
  /\ UNCHANGED view

-----------------------------------------------------------------------------
User ==
  \/ \E t \in Term : (\E f \in Filters : UserSearch(t, f)) \/ Edit(t)
  \/ \E t \in Term \ {Blank} : DebouncedSearch(t)
  \/ \E f \in Filters : UpdateFilters(f)
  \/ Clear \/ LoadMore

SearchNext ==
  \/ User \/ TimerFires
  \/ \E r \in DOMAIN requests :
       Settles(r) \/ HandleSearch(r) \/ HandleMore(r) \/ ScrollAgain(r)

SearchSpec == SearchInit /\ [][SearchNext]_searchVars

(* Timers fire, and a fetch resolves or rejects.                           *)
SearchFairness ==
  /\ WF_searchVars(TimerFires)
  /\ WF_searchVars(\E r \in DOMAIN requests : Settles(r))

SearchFairSpec == SearchSpec /\ SearchFairness

-----------------------------------------------------------------------------
(* Properties                                                              *)

(* Whatever answers are late or lost: when nothing loads, every hit shown  *)
(* is one of the query asked for last, and there is none after a clear.  A *)
(* timer that is pending is the one of the query asked for last.           *)
NewestWins ==
  /\ debounce # Nil => debounce = wanted
  /\ debounce = Nil /\ ~loading =>
       /\ \A i \in DOMAIN results : results[i].query = wanted
       /\ wanted = Nothing => results = << >> /\ scrollId = Nil /\ ~loadingMore

(* A page may have been read for a request that nobody was shown.          *)
SkippedPage(r) ==
  requests[r].kind = "more" /\ (requests[r].status = "failed" \/ requests[r].resent)

(* The pages shown are of one search, in order and none twice, and without *)
(* a gap unless a request for one of them has failed or was sent on to     *)
(* OpenSearch more than once.                                              *)
PagesInOrder ==
  /\ \A i, j \in DOMAIN results :
       i < j => results[i].query = results[j].query /\ results[i].page < results[j].page
  /\ \/ \A i \in DOMAIN results : results[i].page = i
     \/ \E r \in DOMAIN requests :
          SkippedPage(r) /\ requests[r].query = results[1].query

(* The view comes to rest: nothing shows as loading for ever.              *)
SearchSettles == []<>(debounce = Nil /\ ~loading /\ ~loadingMore)
=============================================================================
