------------------------------ MODULE Insights ------------------------------
(***************************************************************************)
(* The spend dashboard (internal/server/insights.go): a request walks the  *)
(* documents that have key facts over a scroll and adds up their amounts,  *)
(* page by page, while the index changes.                                  *)
(*                                                                         *)
(* Dates are numbers, two to a year, its first and its last day; amounts   *)
(* are what parseAmount makes of a key fact.  All amounts are added up     *)
(* whatever their currency, which is left out.  OpenSearch is external: a  *)
(* scroll shows the index as it was when it was searched.                  *)
(***************************************************************************)
EXTENDS Integers, Sequences, SequencesExt, FiniteSets

CONSTANTS
  Paper,         \* documents: [amount, company, date, docType]
  Year,          \* years
  PapersPerPage, \* insightsScrollSize
  MaxPapers,     \* bound: documents in the index at a time
  Unknown        \* no amount, no date, no name, no filter, no request

VARIABLES
  papers,  \* the index, in the order of a scroll
  ask,     \* the parameters of the request, or Unknown
  asked,   \* what the scroll shows: the index when it was searched
  drained, \* the place in it of the hit that was added last
  onPage,  \* hits of the current page that were added
  sums,    \* insightsAccumulator
  answered

insightVars == <<papers, ask, asked, drained, onPage, sums, answered>>

Day == UNION {{2 * y, 2 * y + 1} : y \in Year}
YearOf(paper) == IF paper.date = Unknown THEN Unknown ELSE paper.date \div 2
Params == [year : Year \cup {Unknown}, from : Day \cup {Unknown}, to : Day \cup {Unknown}]

ASSUME InsightAssumption ==
  /\ PapersPerPage \in Nat \ {0} /\ Year \subseteq Nat
  /\ Unknown \notin Int \cup Params
  /\ \A x \in Paper : x.amount \in Int \cup {Unknown} /\ x.date \in Nat \cup {Unknown}

(* The maps of the accumulator, and its total and count as one of them.    *)
Dimension == {"all", "company", "year", "docType"}
NameIn(d, paper) ==
  [all |-> Unknown, company |-> paper.company, year |-> YearOf(paper), docType |-> paper.docType][d]
Name == UNION {{NameIn(d, x) : d \in Dimension} : x \in Paper}
NoSums == [d \in Dimension |-> [n \in Name |-> [total |-> 0, count |-> 0]]]

InsightInit ==
  /\ papers = <<>> /\ asked = <<>>
  /\ ask = Unknown
  /\ drained = 0 /\ onPage = 0
  /\ sums = NoSums
  /\ answered = FALSE

-----------------------------------------------------------------------------
Later(a, b) == IF a = Unknown \/ b > a THEN b ELSE a
Earlier(a, b) == IF a = Unknown \/ b < a THEN b ELSE a

(* Mutant: the bounds of the year replace the ones that were asked for.    *)
EffectiveYearOnly(q) ==
  IF q.year = Unknown THEN [gte |-> q.from, lte |-> q.to] ELSE [gte |-> 2 * q.year, lte |-> 2 * q.year + 1]

(* effectiveDateRange *)
Effective(q) ==
  IF q.year = Unknown THEN [gte |-> q.from, lte |-> q.to]
  ELSE [gte |-> Later(q.from, 2 * q.year), lte |-> Earlier(q.to, 2 * q.year + 1)]

Impossible(r) == r.gte # Unknown /\ r.lte # Unknown /\ r.gte > r.lte

(* The query: a range matches no document without a date.                  *)
InRange(paper, r) ==
  \/ r.gte = Unknown /\ r.lte = Unknown
  \/ /\ paper.date # Unknown
     /\ r.gte # Unknown => paper.date >= r.gte
     /\ r.lte # Unknown => paper.date <= r.lte

(* insightsAccumulator.add *)
Add(acc, paper, year) ==
  IF paper.amount = Unknown \/ (year # Unknown /\ YearOf(paper) # year) THEN acc
  ELSE [d \in Dimension |->
         [acc[d] EXCEPT ![NameIn(d, paper)] = [total |-> @.total + paper.amount, count |-> @.count + 1]]]

(* The hits that the scroll has still to show, by their place.             *)
Unread == {i \in (drained + 1)..Len(asked) : InRange(asked[i], Effective(ask))}

(* The search; a range that is impossible is answered without it.          *)
AskInsights(q) ==
  /\ ask = Unknown
  /\ ask' = q /\ asked' = papers
  /\ answered' = Impossible(Effective(q))
  /\ UNCHANGED <<papers, drained, onPage, sums>>

(* drainInsightsPage: the loop over the hits of a page.                    *)
DrainHit(i) ==
  /\ ask # Unknown /\ ~answered
  /\ onPage < PapersPerPage
  /\ i \in Unread /\ \A j \in Unread : i <= j
  /\ sums' = Add(sums, asked[i], ask.year)
  /\ drained' = i /\ onPage' = onPage + 1
  /\ UNCHANGED <<papers, ask, asked, answered>>

(* The page is drained, and the next one is asked for; one without hits    *)
(* ends the walk.                                                          *)
ScrollInsights ==
  /\ ask # Unknown /\ ~answered
  /\ onPage = PapersPerPage \/ Unread = {}
  /\ onPage' = 0
  /\ answered' = (Unread = {})
  /\ UNCHANGED <<papers, ask, asked, drained, sums>>

(* The answer is read, or an error ends the request.                       *)
EndInsights ==
  /\ ask # Unknown
  /\ ask' = Unknown /\ asked' = <<>>
  /\ drained' = 0 /\ onPage' = 0 /\ sums' = NoSums
  /\ answered' = FALSE
  /\ UNCHANGED papers

(* Uploads and reindexing.                                                 *)
ChangeIndex ==
  /\ \/ /\ Len(papers) < MaxPapers
        /\ \E x \in Paper \ ToSet(papers) : papers' = Append(papers, x)
     \/ \E i \in DOMAIN papers : papers' = RemoveAt(papers, i)
  /\ UNCHANGED <<ask, asked, drained, onPage, sums, answered>>

InsightNext ==
  \/ \E q \in Params : AskInsights(q)
  \/ \E i \in DOMAIN asked : DrainHit(i)
  \/ ScrollInsights \/ EndInsights \/ ChangeIndex

InsightSpec == InsightInit /\ [][InsightNext]_insightVars

-----------------------------------------------------------------------------
(* What the request asks for.                                              *)
Wanted(paper, q) ==
  /\ paper.amount # Unknown
  /\ q.year # Unknown => YearOf(paper) = q.year
  /\ q.from # Unknown => paper.date # Unknown /\ paper.date >= q.from
  /\ q.to # Unknown => paper.date # Unknown /\ paper.date <= q.to

(* The sum of the first n values of f.                                     *)
SumTo(f, n) ==
  LET Sum[k \in 0..n] == IF k = 0 THEN 0 ELSE Sum[k - 1] + f[k] IN Sum[n]

(* What a bucket over the documents at some places of s has to say.        *)
BucketOver(s, places) ==
  [total |-> SumTo([i \in DOMAIN s |-> IF i \in places THEN s[i].amount ELSE 0], Len(s)),
   count |-> Cardinality(places)]

(* However the walk is cut into pages and whatever is indexed meanwhile,   *)
(* each bucket of an answer is the sum over the documents the index had    *)
(* when it was asked, that the parameters together want; so the total is   *)
(* that of the companies, of the years and of the types.                   *)
InsightsExact ==
  answered =>
    \A d \in Dimension, n \in Name :
      sums[d][n] =
        BucketOver(asked, {i \in DOMAIN asked : Wanted(asked[i], ask) /\ NameIn(d, asked[i]) = n})
=============================================================================
