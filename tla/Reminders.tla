----------------------------- MODULE Reminders ------------------------------
(***************************************************************************)
(* The list of coming deadlines (internal/server/reminders.go).  OpenSearch*)
(* finds the documents that have any date in the window, at most so many   *)
(* of them and those of its own choice, since the query names no order;    *)
(* each becomes a line with its soonest date in the window, or with the    *)
(* due date that its key facts give.  Documents come and go between the requests.                      *)
(***************************************************************************)
EXTENDS Integers, FiniteSets, SequencesExt

CONSTANTS
  Folio,      \* identities of documents
  Instant,    \* dates, in UTC, as numbers
  Actionable, \* reminderDocTypes
  DocType,    \* document types, Actionable among them
  SearchSize, \* reminderSearchSize
  Never       \* a due date that the key facts do not give

(* The index holds a finite number of documents.                           *)
ASSUME ReminderAssumption == SearchSize \in Nat /\ IsFiniteSet(Folio) /\ Instant \subseteq Nat

VARIABLES
  filed,  \* the documents, by identity
  window,  \* [now, until] of the last request
  shown,   \* the reminders of its answer
  upToDate \* it was answered, and no document has come or changed since

reminderVars == <<filed, window, shown, upToDate>>

Filing == [dates : SUBSET Instant, docType : DocType, due : Instant \cup {Never}]

ReminderTypeOK ==
  /\ \E S \in SUBSET Folio : filed \in [S -> Filing]
  /\ window \in [now : Instant, until : Instant]
  /\ \A i \in 1..Len(shown) : shown[i] \in [id : Folio, dueDate : Instant]
  /\ upToDate \in BOOLEAN

ReminderInit ==
  /\ filed = [p \in {} |-> Never]
  /\ window \in {w \in [now : Instant, until : Instant] : w.now <= w.until}
  /\ shown = <<>> /\ upToDate = FALSE

-----------------------------------------------------------------------------
InWindow(w, d) == w.now <= d /\ d <= w.until

(* buildReminderQuery                                                      *)
Matches(w, p) ==
  /\ filed[p].docType \in Actionable
  /\ \E d \in filed[p].dates : InWindow(w, d)

(* Mutant: the window is left to the query.                                *)
SoonestOfAll(w, dates) == CHOOSE d \in dates : \A e \in dates : d <= e

(* soonestFutureDate                                                       *)
Soonest(w, dates) ==
  CHOOSE d \in dates : InWindow(w, d) /\ \A e \in dates : InWindow(w, e) => d <= e

(* What the document asks for of its own accord has precedence.            *)
Reminder(w, p) ==
  [id |-> p, dueDate |-> IF filed[p].due # Never THEN filed[p].due
                         ELSE Soonest(w, filed[p].dates)]

(* sort.SliceStable, of lines that come in any order.                     *)
ByDueDate(list) == \A i, j \in DOMAIN list : i < j => list[i].dueDate <= list[j].dueDate

(* handleReminders                                                         *)
HandleReminders(w) ==
  LET found == {p \in DOMAIN filed : Matches(w, p)}
  IN  /\ \E hits \in SUBSET found :
           /\ \/ hits = found /\ Cardinality(hits) <= SearchSize
              \/ Cardinality(hits) = SearchSize
           /\ \E order \in SetToSeqs(hits) :
                /\ shown' = [i \in DOMAIN order |-> Reminder(w, order[i])]
                /\ ByDueDate(shown')
      /\ window' = w /\ upToDate' = TRUE
      /\ UNCHANGED filed

(* Index writes the dates, a summary that is asked for the key facts.      *)
IndexPaper(p, dates, type) ==
  /\ p \notin DOMAIN filed
  /\ filed' = [q \in DOMAIN filed \cup {p} |->
                   IF q = p THEN [dates |-> dates, docType |-> type, due |-> Never]
                   ELSE filed[q]]
  /\ shown' = <<>> /\ upToDate' = FALSE /\ UNCHANGED window

SummarizePaper(p, due) ==
  /\ p \in DOMAIN filed /\ filed[p].due = Never
  /\ filed' = [filed EXCEPT ![p].due = due]
  /\ shown' = <<>> /\ upToDate' = FALSE /\ UNCHANGED window

ReminderNext ==
  \/ \E w \in [now : Instant, until : Instant] : w.now <= w.until /\ HandleReminders(w)
  \/ \E p \in Folio :
       \/ \E dates \in SUBSET Instant, type \in DocType : IndexPaper(p, dates, type)
       \/ \E due \in Instant : SummarizePaper(p, due)

ReminderSpec == ReminderInit /\ [][ReminderNext]_reminderVars

-----------------------------------------------------------------------------
(* The list has every document with a deadline in the window, or as many   *)
(* as the search is allowed to find; it shows none twice and none that has *)
(* no deadline ahead, and it is in the order of the dates it shows: of a   *)
(* document whose key facts name none, the first in the window that was    *)
(* asked for, of the others that of the facts, wherever it falls.          *)
RemindersExact ==
  LET found == {p \in DOMAIN filed : Matches(window, p)}
      ids   == {shown[i].id : i \in 1..Len(shown)}
      n     == Cardinality(found)
  IN  upToDate =>
        /\ ids \subseteq found /\ Cardinality(ids) = Len(shown)
        /\ Len(shown) = IF n <= SearchSize THEN n ELSE SearchSize
        /\ \A i, j \in 1..Len(shown) : i < j => shown[i].dueDate <= shown[j].dueDate
        /\ \A i \in 1..Len(shown) :
             filed[shown[i].id].due = Never =>
               /\ InWindow(window, shown[i].dueDate)
               /\ \A d \in filed[shown[i].id].dates :
                    InWindow(window, d) => shown[i].dueDate <= d
=============================================================================
