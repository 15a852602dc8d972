---------------------------- MODULE ServerProofs ----------------------------
(***************************************************************************)
(* Theorems about parts of the server that share no state: Startup,        *)
(* Documents, Watcher, Thumbnails, Export, Reminders and Insights, each    *)
(* for every value of its constants.                                       *)
(***************************************************************************)
EXTENDS Startup, Documents, Watcher, Thumbnails, Export, Reminders, Insights,
        FiniteSetTheorems, TLAPS

-----------------------------------------------------------------------------
(* Startup                                                                 *)

Past(p, steps) == step[p] \in steps \cup {"verify", "listen", "drain"}

(* A process that is past an index has seen it there.                      *)
IndicesSeen(p) ==
  /\ Past(p, {"ask digests", "make digests", "ask ocr"}) => "documents" \in indices
  /\ Past(p, {"ask ocr"}) => "digests" \in indices

(* What no dependency has failed lost one index for each of its attempts,  *)
(* the documents' first; and an index that is there is not made again.     *)
LossesBounded(p) ==
  p \notin outage =>
    /\ step[p] = "make documents" => made[p] = 0
    /\ step[p] = "make digests" => made[p] \in {0, 1}
    /\ made[p] # 0 => "documents" \in indices
    /\ made[p] \notin {0, 1} => "digests" \in indices

ComesUp(p) == p \in Serving /\ step[p] = "failed" => p \in outage \cup signalled

StartsWell(p) == IndicesSeen(p) /\ LossesBounded(p) /\ ComesUp(p)

StartInv == StartTypeOK /\ \A p \in Process : StartsWell(p)

(* What the other processes do.                                            *)
LEMMA OthersStartWell ==
  ASSUME NEW p, StartsWell(p), step'[p] = step[p], made'[p] = made[p],
         indices \subseteq indices', outage \subseteq outage', signalled \subseteq signalled'
  PROVE  StartsWell(p)'
BY DEF StartsWell, IndicesSeen, LossesBounded, ComesUp, Past

(* A step of one process that leaves it well leaves all of them well.      *)
LEMMA OneStartsWell ==
  ASSUME StartInv, NEW p \in Process, NEW s \in StartStep, NEW n \in 0..(Attempts - 1),
         step' = [step EXCEPT ![p] = s], made' = [made EXCEPT ![p] = n],
         indices \subseteq indices', outage \subseteq outage', signalled \subseteq signalled',
         indices' \subseteq Index,
         {outage', signalled', handling', worker'} \subseteq SUBSET Process,
         StartsWell(p)'
  PROVE  StartInv'
<1>1. StartTypeOK'
  BY DEF StartInv, StartTypeOK
<1>2. ASSUME NEW q \in Process PROVE StartsWell(q)'
  <2>1. CASE q = p
    BY <2>1
  <2>2. CASE q # p
    <3>1. step'[q] = step[q] /\ made'[q] = made[q] /\ StartsWell(q)
      BY <2>2 DEF StartInv, StartTypeOK
    <3> QED
      BY <3>1, OthersStartWell
  <2> QED
    BY <2>1, <2>2
<1> QED
  BY <1>1, <1>2 DEF StartInv

(* A lost index costs one of the attempts, of which a server has another.  *)
LEMMA AttemptLost ==
  ASSUME StartInv, NEW p \in Process, AttemptFails(p)
  PROVE  \E s \in {"backoff", "failed"}, n \in {made[p], made[p] + 1} :
           /\ n \in 0..(Attempts - 1)
           /\ step' = [step EXCEPT ![p] = s] /\ made' = [made EXCEPT ![p] = n]
           /\ p \in Serving /\ made[p] \in {0, 1} => s = "backoff"
           /\ made[p] = 0 => n \in {0, 1}
<1>1. made \in [Process -> 0..(Attempts - 1)] /\ made[p] \in Int
  BY StartAssumption DEF StartInv, StartTypeOK
<1>2. CASE made[p] + 1 < AttemptsOf(p)
  <2>1. made[p] + 1 \in 0..(Attempts - 1)
    BY <1>1, <1>2, StartAssumption DEF AttemptsOf
  <2> QED
    BY <1>1, <1>2, <2>1 DEF AttemptFails, At
<1>3. CASE ~(made[p] + 1 < AttemptsOf(p))
  <2>1. made' = [made EXCEPT ![p] = made[p]]
    BY <1>1, <1>3 DEF AttemptFails
  <2>2. ~(p \in Serving /\ made[p] \in {0, 1})
    BY <1>1, <1>3, StartAssumption DEF AttemptsOf
  <2> QED
    BY <1>1, <1>3, <2>1, <2>2 DEF AttemptFails, At
<1> QED
  BY <1>2, <1>3

(* AskIndex and MakeIndex, for the one index and for the other.            *)
LEMMA InitializeStep == ASSUME StartInv, NEW p \in Process, Initialize(p) PROVE StartInv'
<1>a. StartTypeOK /\ StartsWell(p) /\ made[p] \in 0..(Attempts - 1)
  BY StartAssumption DEF StartInv, StartTypeOK
<1>b. UNCHANGED <<outage, signalled, handling, worker>>
  BY DEF Initialize, AskIndex, MakeIndex
<1> USE DEF Past
<1>0. ASSUME UNCHANGED made PROVE made' = [made EXCEPT ![p] = made[p]]
  BY <1>0, <1>a DEF StartTypeOK
<1>1. ASSUME AskIndex(p, "ask documents", "documents", "make documents", "ask digests")
      PROVE  StartInv'
  <2> DEFINE s == IF "documents" \in indices THEN "ask digests" ELSE "make documents"
  <2>1. s \in StartStep /\ step' = [step EXCEPT ![p] = s] /\ step'[p] = s
        /\ UNCHANGED <<made, indices>>
    BY <1>a, <1>b, <1>1 DEF AskIndex, At, StartStep, Initializing, StartTypeOK
  <2>2. IF "documents" \in indices THEN step'[p] = "ask digests" ELSE step'[p] = "make documents"
    BY <2>1
  <2> HIDE DEF s
  <2>3. StartsWell(p)'
    BY <1>a, <1>b, <2>1, <2>2 DEF StartsWell, IndicesSeen, LossesBounded, ComesUp
  <2> QED
    BY <1>a, <1>b, <1>0, <2>1, <2>3, OneStartsWell DEF StartTypeOK
<1>2. ASSUME AskIndex(p, "ask digests", "digests", "make digests", "ask ocr")
      PROVE  StartInv'
  <2> DEFINE s == IF "digests" \in indices THEN "ask ocr" ELSE "make digests"
  <2>1. s \in StartStep /\ step' = [step EXCEPT ![p] = s] /\ step'[p] = s
        /\ UNCHANGED <<made, indices>> /\ step[p] = "ask digests"
    BY <1>a, <1>b, <1>2 DEF AskIndex, At, StartStep, Initializing, StartTypeOK
  <2>2. IF "digests" \in indices THEN step'[p] = "ask ocr" ELSE step'[p] = "make digests"
    BY <2>1
  <2> HIDE DEF s
  <2>3. StartsWell(p)'
    BY <1>a, <1>b, <2>1, <2>2 DEF StartsWell, IndicesSeen, LossesBounded, ComesUp
  <2> QED
    BY <1>a, <1>b, <1>0, <2>1, <2>3, OneStartsWell DEF StartTypeOK
<1>3. ASSUME MakeIndex(p, "make documents", "documents", "ask digests") PROVE StartInv'
  <2>1. step[p] = "make documents" /\ indices' = indices \cup {"documents"}
    BY <1>a, <1>b, <1>3 DEF MakeIndex
  <2>2. CASE "documents" \notin indices
    <3>1. step' = [step EXCEPT ![p] = "ask digests"] /\ step'[p] = "ask digests" /\ UNCHANGED made
      BY <1>a, <1>b, <1>3, <2>2 DEF MakeIndex, At, StartTypeOK
    <3>2. StartsWell(p)'
      BY <1>a, <1>b, <2>1, <3>1 DEF StartsWell, IndicesSeen, LossesBounded, ComesUp
    <3> QED
      BY <1>a, <1>b, <1>0, <2>1, <3>1, <3>2, OneStartsWell DEF StartTypeOK, StartStep, Initializing, Index
  <2>3. CASE "documents" \in indices
    <3>1. PICK s \in {"backoff", "failed"}, n \in {made[p], made[p] + 1} :
            /\ n \in 0..(Attempts - 1)
            /\ step' = [step EXCEPT ![p] = s] /\ made' = [made EXCEPT ![p] = n]
            /\ p \in Serving /\ made[p] \in {0, 1} => s = "backoff"
            /\ made[p] = 0 => n \in {0, 1}
      BY <1>a, <1>b, <1>3, <2>3, AttemptLost DEF MakeIndex
    <3>2. step'[p] = s /\ made'[p] = n
      BY <1>a, <1>b, <3>1 DEF StartTypeOK
    <3>3. p \notin outage => made[p] = 0
      BY <1>a, <1>b, <2>1 DEF StartsWell, LossesBounded
    <3>4. StartsWell(p)'
      BY <1>a, <1>b, <2>1, <2>3, <3>1, <3>2, <3>3 DEF StartsWell, IndicesSeen, LossesBounded, ComesUp
    <3>5. s \in StartStep
      BY DEF StartStep
    <3> QED
      BY <1>a, <1>b, <2>1, <3>1, <3>4, <3>5, OneStartsWell DEF StartTypeOK, Index
  <2> QED
    BY <2>2, <2>3
<1>4. ASSUME MakeIndex(p, "make digests", "digests", "ask ocr") PROVE StartInv'
  <2>1. step[p] = "make digests" /\ indices' = indices \cup {"digests"} /\ "documents" \in indices
    BY <1>a, <1>b, <1>4 DEF MakeIndex, StartsWell, IndicesSeen
  <2>2. CASE "digests" \notin indices
    <3>1. step' = [step EXCEPT ![p] = "ask ocr"] /\ step'[p] = "ask ocr" /\ UNCHANGED made
      BY <1>a, <1>b, <1>4, <2>2 DEF MakeIndex, At, StartTypeOK
    <3>2. StartsWell(p)'
      BY <1>a, <1>b, <2>1, <3>1 DEF StartsWell, IndicesSeen, LossesBounded, ComesUp
    <3> QED
      BY <1>a, <1>b, <1>0, <2>1, <3>1, <3>2, OneStartsWell DEF StartTypeOK, StartStep, Initializing, Index
  <2>3. CASE "digests" \in indices
    <3>1. PICK s \in {"backoff", "failed"}, n \in {made[p], made[p] + 1} :
            /\ n \in 0..(Attempts - 1)
            /\ step' = [step EXCEPT ![p] = s] /\ made' = [made EXCEPT ![p] = n]
            /\ p \in Serving /\ made[p] \in {0, 1} => s = "backoff"
            /\ made[p] = 0 => n \in {0, 1}
      BY <1>a, <1>b, <1>4, <2>3, AttemptLost DEF MakeIndex
    <3>2. step'[p] = s /\ made'[p] = n
      BY <1>a, <1>b, <3>1 DEF StartTypeOK
    <3>3. p \notin outage => made[p] \in {0, 1}
      BY <1>a, <1>b, <2>1 DEF StartsWell, LossesBounded
    <3>4. StartsWell(p)'
      BY <1>a, <1>b, <2>1, <2>3, <3>1, <3>2, <3>3 DEF StartsWell, IndicesSeen, LossesBounded, ComesUp
    <3>5. s \in StartStep
      BY DEF StartStep
    <3> QED
      BY <1>a, <1>b, <2>1, <3>1, <3>4, <3>5, OneStartsWell DEF StartTypeOK, Index
  <2> QED
    BY <2>2, <2>3
<1> QED
  BY <1>1, <1>2, <1>3, <1>4 DEF Initialize

(* An outage excuses a process; the other steps make no attempt.           *)
LEMMA StartInvStep == ASSUME StartInv, [StartNext]_startVars PROVE StartInv'
<1> StartTypeOK
  BY DEF StartInv
<1>0. ASSUME NEW p \in Process
      PROVE  StartsWell(p) /\ made[p] \in 0..(Attempts - 1) /\ made = [made EXCEPT ![p] = made[p]]
  BY DEF StartInv, StartTypeOK
<1>1. ASSUME NEW p \in Process, StartAttempt(p) \/ Backoff(p) PROVE StartInv'
  <2>1. PICK s \in {"failed", "ask documents", "start"} :
          step' = [step EXCEPT ![p] = s] /\ (s = "failed" => p \in signalled)
    BY <1>1 DEF StartAttempt, Backoff, At
  <2>2. UNCHANGED <<indices, made, outage, signalled, handling, worker>>
    BY <1>1 DEF StartAttempt, Backoff
  <2>3. StartsWell(p)' /\ s \in StartStep
    BY <1>0, <2>1, <2>2 DEF StartTypeOK, StartStep, Initializing, StartsWell, IndicesSeen,
                            LossesBounded, ComesUp, Past
  <2> QED
    BY <1>0, <2>1, <2>2, <2>3, OneStartsWell DEF StartTypeOK
<1>2. ASSUME NEW p \in Process, Initialize(p) PROVE StartInv'
  BY <1>2, InitializeStep
<1>3. ASSUME NEW p \in Process, DependencyFails(p) PROVE StartInv'
  <2>1. PICK s \in {"backoff", "failed"}, n \in {made[p], made[p] + 1} :
          /\ n \in 0..(Attempts - 1)
          /\ step' = [step EXCEPT ![p] = s] /\ made' = [made EXCEPT ![p] = n]
    BY <1>3, AttemptLost DEF DependencyFails
  <2>2. outage' = outage \cup {p} /\ UNCHANGED <<indices, signalled, handling, worker>>
    BY <1>3 DEF DependencyFails
  <2>3. StartsWell(p)' /\ s \in StartStep
    BY <1>0, <2>1, <2>2 DEF StartTypeOK, StartStep, Initializing, StartsWell, IndicesSeen,
                            LossesBounded, ComesUp, Past
  <2> QED
    BY <2>1, <2>2, <2>3, OneStartsWell DEF StartTypeOK
<1>4. ASSUME NEW p \in Process, AskOcr(p) \/ Verify(p) \/ StartShutdown(p) PROVE StartInv'
  <2>1. PICK s \in StartStep :
          /\ step' = [step EXCEPT ![p] = s]
          /\ s \in {"verify", "ended", "listen", "drain"} \/ (s = "failed" /\ "documents" \notin indices)
          /\ Past(p, {"ask ocr"})
    BY <1>4 DEF AskOcr, Verify, StartShutdown, At, StartStep, Initializing, Past
  <2>2. UNCHANGED <<indices, made, outage, signalled>> /\ {handling', worker'} \subseteq SUBSET Process
    BY <1>4 DEF AskOcr, Verify, StartShutdown, CancelBackground, StartTypeOK
  <2>3. {"documents", "digests"} \subseteq indices
    BY <1>0, <2>1 DEF StartsWell, IndicesSeen, Past
  <2>4. StartsWell(p)'
    BY <1>0, <2>1, <2>2, <2>3 DEF StartTypeOK, StartsWell, IndicesSeen, LossesBounded, ComesUp, Past
  <2> QED
    BY <1>0, <2>1, <2>2, <2>4, OneStartsWell DEF StartTypeOK
<1>5. ASSUME NEW p \in Process, ServeFails(p) \/ Drained(p) PROVE StartInv'
  <2>1. PICK s \in {"ended", "failed"} :
          step' = [step EXCEPT ![p] = s] /\ (s = "failed" => p \in outage')
    BY <1>5 DEF ServeFails, Drained, At
  <2>2. /\ UNCHANGED <<indices, made, signalled>>
        /\ {outage', handling', worker'} \subseteq SUBSET Process /\ outage \subseteq outage'
    BY <1>5 DEF ServeFails, Drained, StartTypeOK
  <2>3. StartsWell(p)' /\ s \in StartStep
    BY <1>0, <2>1, <2>2 DEF StartTypeOK, StartStep, StartsWell, IndicesSeen, LossesBounded, ComesUp, Past
  <2> QED
    BY <1>0, <2>1, <2>2, <2>3, OneStartsWell DEF StartTypeOK
<1>6. ASSUME NEW p \in Process, TakeRequest(p) \/ Respond(p) \/ Signal(p) PROVE StartInv'
  <2>1. /\ UNCHANGED <<indices, step, made, outage>> /\ signalled \subseteq signalled'
        /\ {signalled', handling', worker'} \subseteq SUBSET Process
    BY <1>6 DEF TakeRequest, Respond, Signal, StartTypeOK
  <2>2. \A q \in Process : StartsWell(q)'
    BY <1>0, <2>1, OthersStartWell
  <2> QED
    BY <2>1, <2>2 DEF StartInv, StartTypeOK
<1>7. CASE UNCHANGED startVars
  BY <1>7 DEF startVars, StartInv, StartTypeOK, StartsWell, IndicesSeen, LossesBounded, ComesUp, Past
<1> QED
  BY <1>1, <1>2, <1>3, <1>4, <1>5, <1>6, <1>7 DEF StartNext

(* However many processes start at once, a server that no dependency fails *)
(* and that nobody stops comes up: initializeIndexer's three attempts are  *)
(* enough for the two indices that createIndex may lose to another process.*)
THEOREM ServersDoComeUp == StartSpec => []ServersComeUp
<1>1. StartInit => StartInv
  <2> SUFFICES ASSUME StartInit PROVE StartInv
    OBVIOUS
  <2>1. StartTypeOK
    BY StartAssumption DEF StartInit, StartTypeOK, StartStep, Initializing
  <2>2. ASSUME NEW p \in Process PROVE StartsWell(p)
    BY DEF StartInit, StartsWell, IndicesSeen, LossesBounded, ComesUp, Past
  <2> QED
    BY <2>1, <2>2 DEF StartInv
<1>2. StartInv /\ [StartNext]_startVars => StartInv'
  BY StartInvStep
<1>3. StartInv => ServersComeUp
  BY StartAssumption DEF StartInv, ServersComeUp, StartsWell, ComesUp
<1> QED
  BY <1>1, <1>2, <1>3, PTL DEF StartSpec

-----------------------------------------------------------------------------
(* Documents                                                               *)

(* A request that has not been overtaken has read the text that is there.  *)
ReadsAreFresh ==
  \A r \in Asking : request[r] # "idle" =>
    /\ doc # Nothing /\ read[r] # Nothing
    /\ r \notin since => read[r].text = doc.text

DocTyped ==
  /\ doc \in Document \cup {Nothing}
  /\ draft \in [Indexing -> [text : Text, docType : BOOLEAN] \cup {Nothing}]
  /\ request \in [Asking -> {"idle", "read", "persist"}]
  /\ read \in [Asking -> Document \cup {Nothing}]

DocInv == DocTyped /\ ReadsAreFresh /\ SummaryStaleOnlyByRace

(* The invariant of Documents is inductive.                                *)
LEMMA DocInvStep == ASSUME DocInv, [DocNext]_docVars PROVE DocInv'
<1>1. DocTyped'
  <2> USE DEF DocInv, DocTyped, Document
  <2>1. ASSUME NEW i \in Indexing, NEW t \in Text, StartIndex(i, t) PROVE DocTyped'
    BY <2>1 DEF StartIndex
  <2>2. ASSUME NEW i \in Indexing, WriteDocument(i) PROVE DocTyped'
    BY <2>2 DEF WriteDocument, Written
  <2>3. ASSUME NEW i \in Indexing, IndexDocFails(i) PROVE DocTyped'
    BY <2>3 DEF IndexDocFails
  <2>4. ASSUME NEW r \in Asking, ReadDocument(r) \/ AnswerUnchanged(r) \/ Summarize(r) PROVE DocTyped'
    BY <2>4 DEF ReadDocument, AnswerUnchanged, Summarize, EndsRequest
  <2>5. ASSUME NEW r \in Asking, PersistSummary(r) PROVE DocTyped'
    BY <2>5 DEF PersistSummary, EndsRequest, Persisted, ReadsAreFresh
  <2>6. CASE UNCHANGED docVars
    BY <2>6 DEF docVars
  <2> QED
    BY <2>1, <2>2, <2>3, <2>4, <2>5, <2>6 DEF DocNext
<1>2. ReadsAreFresh' /\ SummaryStaleOnlyByRace'
  <2> USE DEF DocInv, DocTyped, Document, ReadsAreFresh, SummaryStaleOnlyByRace
  <2>1. ASSUME NEW i \in Indexing, (\E t \in Text : StartIndex(i, t)) \/ IndexDocFails(i)
        PROVE  ReadsAreFresh' /\ SummaryStaleOnlyByRace'
    BY <2>1 DEF StartIndex, IndexDocFails
  <2>2. ASSUME NEW i \in Indexing, WriteDocument(i)
        PROVE  ReadsAreFresh' /\ SummaryStaleOnlyByRace'
    <3>1. doc' \in Document /\ doc'.summary = Nothing
      BY <2>2 DEF WriteDocument, Written
    <3> QED
      BY <2>2, <3>1, DocAssumption DEF WriteDocument
  <2>3. ASSUME NEW r \in Asking, ReadDocument(r) \/ AnswerUnchanged(r) \/ Summarize(r)
        PROVE  ReadsAreFresh' /\ SummaryStaleOnlyByRace'
    BY <2>3 DEF ReadDocument, AnswerUnchanged, Summarize, EndsRequest
  <2>4. ASSUME NEW r \in Asking, PersistSummary(r)
        PROVE  ReadsAreFresh' /\ SummaryStaleOnlyByRace'
    <3>1. doc \in Document /\ read[r] \in Document /\ (r \notin since => read[r].text = doc.text)
      BY <2>4 DEF PersistSummary
    <3>2. CASE doc' = Persisted(r) /\ raced' = (r \in since)
      <4>1. doc' \in Document /\ doc'.text = doc.text /\ doc'.summary = read[r].text
        BY <3>1, <3>2 DEF Persisted
      <4> QED
        BY <2>4, <3>1, <3>2, <4>1, DocAssumption DEF PersistSummary, EndsRequest
    <3>3. CASE UNCHANGED <<doc, raced>>
      BY <2>4, <3>3 DEF PersistSummary, EndsRequest
    <3> QED
      BY <2>4, <3>2, <3>3 DEF PersistSummary
  <2>5. CASE UNCHANGED docVars
    BY <2>5 DEF docVars
  <2> QED
    BY <2>1, <2>2, <2>3, <2>4, <2>5 DEF DocNext
<1> QED
  BY <1>1, <1>2 DEF DocInv

(* Unless the page was indexed anew between a request's Get and its Update,*)
(* the summary that a document carries was made of the text it carries.    *)
THEOREM SummaryIsOfText == DocSpec => []SummaryStaleOnlyByRace
<1>1. DocInit => DocInv
  BY DEF DocInit, DocInv, DocTyped, ReadsAreFresh, SummaryStaleOnlyByRace
<1>2. DocInv /\ [DocNext]_docVars => DocInv'
  BY DocInvStep
<1>3. DocInv => SummaryStaleOnlyByRace
  BY DEF DocInv
<1> QED
  BY <1>1, <1>2, <1>3, PTL DEF DocSpec

-----------------------------------------------------------------------------
(* Watcher                                                                 *)

WatchInv == timers \in [Timer -> {"none", "armed", "fired"}] /\ due \subseteq Path /\ NoEventLost

(* An event of a file re-arms its timer, and leaves those of the others.   *)
LEMMA ArmStep == ASSUME WatchInv, NEW p \in Path, HandleEvent(p) PROVE WatchInv'
<1> USE DEF WatchInv
<1>1. CASE p \notin present
  BY <1>1 DEF HandleEvent, NoEventLost
<1>2. CASE p \in present
  <2> DEFINE new == FreshTimer(p)
  <2>1. new \in Timer /\ new.path = p
    BY DEF HandleEvent, FreshTimer, Timer
  <2>2. timers' = [StopTimer(p) EXCEPT ![new] = "armed"] /\ due' = due \cup {p}
    BY <1>2 DEF HandleEvent, Arm
  <2> HIDE DEF new
  <2>3. timers' \in [Timer -> {"none", "armed", "fired"}]
    BY <2>1, <2>2 DEF StopTimer
  <2>4. timers'[new] # "none"
    BY <2>1, <2>2 DEF StopTimer
  <2>5. \A t \in Timer : t.path # p => timers'[t] = timers[t]
    BY <2>1, <2>2 DEF StopTimer
  <2>6. NoEventLost'
    BY <2>1, <2>2, <2>4, <2>5 DEF NoEventLost
  <2> QED
    BY <2>2, <2>3, <2>6
<1> QED
  BY <1>1, <1>2

(* Whatever timer was replaced, had fired already, or was deleted from     *)
(* pending by an older one, an event that was handled is followed by a     *)
(* processFile, for every number of files, timers and writes.              *)
THEOREM EventsAreKept == WatchSpec => []NoEventLost
<1>1. WatchInit => WatchInv
  BY DEF WatchInit, WatchInv, NoEventLost
<1>2. WatchInv /\ [WatchNext]_watchVars => WatchInv'
  <2> SUFFICES ASSUME WatchInv, [WatchNext]_watchVars PROVE WatchInv'
    OBVIOUS
  <2>1. ASSUME NEW p \in Path, WriteFile(p) PROVE WatchInv'
    BY <2>1 DEF WriteFile, WatchInv, NoEventLost
  <2>2. ASSUME NEW p \in Path, HandleEvent(p) PROVE WatchInv'
    BY <2>2, ArmStep
  <2>3. ASSUME NEW t \in Timer, Fire(t) PROVE WatchInv'
    BY <2>3 DEF Fire, WatchInv, NoEventLost
  <2>4. ASSUME NEW t \in Timer, Begin(t) PROVE WatchInv'
    <3>1. /\ due' = due \ {t.path}
          /\ timers' = [timers EXCEPT ![t] = "none"]
      BY <2>4 DEF Begin
    <3>2. \A u \in Timer : u.path # t.path => timers'[u] = timers[u]
      BY <3>1 DEF WatchInv
    <3> QED
      BY <3>1, <3>2 DEF WatchInv, NoEventLost
  <2>5. ASSUME NEW t \in Timer, CheckFile(t) \/ ProcessFile(t) \/ MoveToDone(t) PROVE WatchInv'
    BY <2>5 DEF CheckFile, ProcessFile, MoveToDone, WatchInv, NoEventLost
  <2>6. CASE StopWatching
    BY <2>6 DEF StopWatching, WatchInv, NoEventLost
  <2>7. CASE UNCHANGED watchVars
    BY <2>7 DEF watchVars, WatchInv, NoEventLost
  <2> QED
    BY <2>1, <2>2, <2>3, <2>4, <2>5, <2>6, <2>7 DEF WatchNext
<1>3. WatchInv => NoEventLost
  BY DEF WatchInv
<1> QED
  BY <1>1, <1>2, <1>3, PTL DEF WatchSpec

-----------------------------------------------------------------------------
(* Thumbnails                                                              *)

Walk == [step : {"idle", "hit", "make", "scroll", "done"}, snapshot : Seq(Doc),
         at : Nat, until : Nat, counts : ThumbCounts]

BatchTyped == indexed \in Seq(Doc) /\ thumb \subseteq Doc /\ batch \in Walk

(* Where a batch is in its snapshot: before a hit, at the end of a page,   *)
(* or at the end of the last one.                                          *)
BatchPlaced ==
  /\ batch.at <= batch.until /\ batch.until <= Len(batch.snapshot)
  /\ batch.step \in {"hit", "make"} => batch.at < batch.until
  /\ batch.step = "done" => batch.at = Len(batch.snapshot)

(* The documents that a batch has come by and that have no thumbnail.      *)
Missing == {batch.snapshot[i] : i \in 1..batch.at} \ thumb

(* BatchAccounts, at every step of the walk.                               *)
Counted ==
  /\ batch.counts.existing + batch.counts.generated + batch.counts.failed = batch.at
  /\ IsFiniteSet(Missing) /\ Cardinality(Missing) <= batch.counts.failed

ThumbInv == BatchTyped /\ BatchPlaced /\ Counted

(* A finite set can be laid out in a sequence.                             *)
LEMMA LaidOut == ASSUME NEW S \in SUBSET Doc PROVE SetToSeq(S) \in Seq(Doc)
<1>1. IsFiniteSet(S)
  BY ThumbAssumption, FS_Subset
<1>2. Cardinality(S) \in Nat /\ \E f \in [1..Cardinality(S) -> S] : IsInjective(f)
  BY <1>1, FS_CardinalityType DEF ExistsBijection, Bijection, Injection
<1>3. SetToSeq(S) \in [1..Cardinality(S) -> S]
  BY <1>2 DEF SetToSeq
<1> QED
  BY <1>2, <1>3

(* What a search returns after a page has been indexed.                    *)
LEMMA Inserted ==
  ASSUME NEW s \in Seq(Doc), NEW i \in 1..(Len(s) + 1), NEW d \in Doc
  PROVE  InsertAt(s, i, d) \in Seq(Doc)
<1>1. SubSeq(s, 1, i - 1) \in Seq(Doc) /\ SubSeq(s, i, Len(s)) \in Seq(Doc)
  OBVIOUS
<1>2. <<d>> \in Seq(Doc)
  OBVIOUS
<1> QED
  BY <1>1, <1>2 DEF InsertAt

(* A page of a scroll is within the snapshot, and empty only at its end.   *)
LEMMA PageEnds ==
  ASSUME NEW s \in Seq(Doc), NEW n \in Nat, n <= Len(s)
  PROVE  /\ PageEnd(s, n) \in Nat /\ n <= PageEnd(s, n) /\ PageEnd(s, n) <= Len(s)
         /\ ~ n < PageEnd(s, n) => n = Len(s)
<1> DEFINE m == Len(s)
<1>1. m \in Nat /\ HitsPerPage \in Nat \ {0} /\ n <= m
  BY ThumbAssumption
<1>2. PageEnd(s, n) = IF n + HitsPerPage < m THEN n + HitsPerPage ELSE m
  BY DEF PageEnd
<1> HIDE DEF m
<1>3. /\ PageEnd(s, n) \in Nat /\ n <= PageEnd(s, n) /\ PageEnd(s, n) <= m
      /\ ~ n < PageEnd(s, n) => n = m
  BY <1>1, <1>2
<1> QED
  BY <1>3 DEF m

(* Thumbnails are made beside the walk: fewer are missing.                 *)
LEMMA OthersMake ==
  ASSUME ThumbInv, UNCHANGED batch, thumb \subseteq thumb', thumb' \subseteq Doc,
         indexed' \in Seq(Doc)
  PROVE  ThumbInv'
<1>1. Missing' \in SUBSET Missing
  BY DEF Missing
<1>2. IsFiniteSet(Missing') /\ Cardinality(Missing') <= Cardinality(Missing)
  BY <1>1, FS_Subset DEF ThumbInv, Counted
<1>3. Cardinality(Missing) \in Nat /\ Cardinality(Missing') \in Nat /\ batch.counts.failed \in Nat
  BY <1>2, FS_CardinalityType DEF ThumbInv, Counted, BatchTyped, Walk, ThumbCounts
<1>4. Counted'
  BY <1>2, <1>3 DEF ThumbInv, Counted
<1> QED
  BY <1>4 DEF ThumbInv, BatchTyped, Walk, BatchPlaced

(* A hit is passed: it has a thumbnail, or counts as failed.               *)
LEMMA HitPassed ==
  ASSUME ThumbInv, batch.step \in {"hit", "make"}, NEW counts \in ThumbCounts, NextHit(counts),
         counts.existing + counts.generated + counts.failed = batch.at + 1,
         UNCHANGED indexed, thumb \subseteq thumb', thumb' \subseteq Doc,
         counts.failed >= batch.counts.failed,
         Hit \in thumb' \/ counts.failed = batch.counts.failed + 1
  PROVE  ThumbInv'
<1> DEFINE n == Len(batch.snapshot)
<1>1. /\ batch.snapshot \in Seq(Doc) /\ n \in Nat /\ batch.at \in Nat /\ batch.until \in Nat
      /\ batch.at < batch.until /\ batch.until <= n /\ batch.counts.failed \in Nat
      /\ counts.failed \in Nat
  BY DEF ThumbInv, BatchTyped, Walk, BatchPlaced, ThumbCounts
<1>2. batch' = [batch EXCEPT !.counts = counts, !.at = batch.at + 1,
                             !.step = IF batch.at + 1 < batch.until THEN "hit" ELSE "scroll"]
  BY DEF NextHit
<1>2a. /\ batch'.at = batch.at + 1 /\ batch'.until = batch.until /\ batch'.snapshot = batch.snapshot
      /\ batch'.counts = counts
      /\ batch'.step = IF batch.at + 1 < batch.until THEN "hit" ELSE "scroll"
  BY <1>2 DEF ThumbInv, BatchTyped, Walk
<1>3. BatchTyped'
  <2> DEFINE s == IF batch.at + 1 < batch.until THEN "hit" ELSE "scroll"
  <2>b. s \in {"hit", "scroll"} /\ batch.at + 1 \in Nat /\ batch \in Walk
    BY <1>1 DEF ThumbInv, BatchTyped
  <2>a. batch' = [batch EXCEPT !.counts = counts, !.at = batch.at + 1, !.step = s]
    BY <1>2
  <2> HIDE DEF s
  <2>1. batch' \in Walk
    BY <2>b, <2>a DEF Walk
  <2>2. indexed' \in Seq(Doc)
    BY DEF ThumbInv, BatchTyped
  <2> QED
    BY <2>1, <2>2 DEF BatchTyped
<1>4. BatchPlaced'
  <2>1. /\ batch.at + 1 <= batch.until /\ batch'.step \notin {"make", "done"}
        /\ batch'.step = "hit" => batch.at + 1 < batch.until
    BY <1>1, <1>2a
  <2> QED
    BY <1>1, <1>2a, <2>1 DEF BatchPlaced
<1>5. Missing' \subseteq Missing \cup ({Hit} \ thumb')
  <2>1. ASSUME NEW i \in 1..(batch.at + 1) PROVE i \in 1..batch.at \/ i = batch.at + 1
    BY <1>1
  <2> QED
    BY <1>2a, <2>1 DEF Missing, Hit
<1>6. /\ IsFiniteSet(Missing) /\ Cardinality(Missing) \in Nat
      /\ Cardinality(Missing) <= batch.counts.failed
  BY FS_CardinalityType DEF ThumbInv, Counted
<1>7. IsFiniteSet(Missing') /\ Cardinality(Missing') <= counts.failed
  <2>1. CASE Hit \in thumb'
    <3>1. Missing' \in SUBSET Missing
      BY <1>5, <2>1
    <3>2. IsFiniteSet(Missing') /\ Cardinality(Missing') <= Cardinality(Missing)
      BY <1>6, <3>1, FS_Subset
    <3>3. Cardinality(Missing') \in Nat
      BY <3>2, FS_CardinalityType
    <3> QED
      BY <1>1, <1>6, <3>2, <3>3
  <2>2. CASE Hit \notin thumb'
    <3> DEFINE more == Missing \cup {Hit}
    <3>1. IsFiniteSet(more) /\ Cardinality(more) \in {Cardinality(Missing), Cardinality(Missing) + 1}
      BY <1>6, FS_AddElement
    <3>2. Missing' \in SUBSET more
      BY <1>5
    <3> HIDE DEF more
    <3>3. IsFiniteSet(Missing') /\ Cardinality(Missing') <= Cardinality(more)
      BY <3>1, <3>2, FS_Subset
    <3>4. Cardinality(Missing') \in Nat
      BY <3>3, FS_CardinalityType
    <3> QED
      BY <1>1, <1>6, <2>2, <3>1, <3>3, <3>4
  <2> QED
    BY <2>1, <2>2
<1>8. Counted'
  BY <1>2a, <1>7 DEF Counted
<1> QED
  BY <1>3, <1>4, <1>8 DEF ThumbInv

(* A page of hits is read: it begins where the walk is.                    *)
LEMMA PageRead ==
  ASSUME NEW b \in Walk, b.at <= Len(b.snapshot), b.until = PageEnd(b.snapshot, b.at),
         batch' = Walks(b), indexed' \in Seq(Doc), thumb' \subseteq Doc
  PROVE  /\ BatchTyped' /\ BatchPlaced'
         /\ batch'.at = b.at /\ batch'.snapshot = b.snapshot /\ batch'.counts = b.counts
<1>1. /\ b.snapshot \in Seq(Doc) /\ b.at \in Nat /\ b.until \in Nat
  BY DEF Walk
<1>2. b.at <= b.until /\ b.until <= Len(b.snapshot) /\ (~ b.at < b.until => b.at = Len(b.snapshot))
  BY <1>1, PageEnds
<1>3. /\ batch' \in Walk /\ batch'.step = IF b.at < b.until THEN "hit" ELSE "done"
      /\ batch'.at = b.at /\ batch'.until = b.until
      /\ batch'.snapshot = b.snapshot /\ batch'.counts = b.counts
  BY DEF Walks, Walk
<1>4. BatchTyped'
  BY <1>3 DEF BatchTyped
<1>5. BatchPlaced'
  BY <1>1, <1>2, <1>3 DEF BatchPlaced
<1> QED
  BY <1>3, <1>4, <1>5

(* A batch that has not begun has come by nothing.                         *)
LEMMA NothingWalked ==
  ASSUME BatchTyped, BatchPlaced, batch.at = 0, batch.counts = NoneYet
  PROVE  ThumbInv
<1>1. Missing = {}
  BY DEF Missing
<1>2. IsFiniteSet(Missing) /\ Cardinality(Missing) = 0
  BY <1>1, FS_EmptySet
<1> QED
  BY <1>2 DEF ThumbInv, Counted, NoneYet

LEMMA ThumbInvInit == ThumbInit => ThumbInv
<1> SUFFICES ASSUME ThumbInit PROVE ThumbInv
  OBVIOUS
<1>1. indexed \in Seq(Doc) /\ thumb \subseteq Doc
  <2>1. indexed = <<>> \/ \E S \in SUBSET Doc : indexed = SetToSeq(S)
    BY DEF ThumbInit
  <2>2. thumb \subseteq Doc
    BY DEF ThumbInit
  <2>3. <<>> \in Seq(Doc)
    OBVIOUS
  <2> QED
    BY <2>1, <2>2, <2>3, LaidOut
<1>2. batch = [step |-> "idle", snapshot |-> <<>>, at |-> 0, until |-> 0, counts |-> NoneYet]
  BY DEF ThumbInit, NoBatch
<1>3. BatchTyped /\ BatchPlaced
  BY <1>1, <1>2 DEF BatchTyped, Walk, BatchPlaced, NoneYet, ThumbCounts
<1> QED
  BY <1>2, <1>3, NothingWalked

(* What the batch does.                                                    *)
LEMMA BatchStep == ASSUME ThumbInv, BatchSteps PROVE ThumbInv'
<1>1. indexed \in Seq(Doc) /\ thumb \subseteq Doc /\ batch.snapshot \in Seq(Doc)
  BY DEF ThumbInv, BatchTyped, Walk
<1>2. /\ batch.counts \in ThumbCounts /\ batch.at \in Nat
      /\ batch.counts.existing + batch.counts.generated + batch.counts.failed = batch.at
  BY DEF ThumbInv, BatchTyped, Walk, Counted
<1> DEFINE k == Checked
<1>a. /\ k \in ThumbCounts /\ k.existing = batch.counts.existing
       /\ k.generated = batch.counts.generated /\ k.failed = batch.counts.failed
  BY <1>2 DEF Checked, ThumbCounts
<1>b. CountFailure = [k EXCEPT !.failed = @ + 1]
  BY DEF CountFailure
<1> HIDE DEF k
<1>3. ASSUME StartBatch PROVE ThumbInv'
  <2> DEFINE b == [NoBatch EXCEPT !.snapshot = indexed, !.until = PageEnd(indexed, 0)]
  <2>1. 0 <= Len(indexed) /\ PageEnd(indexed, 0) \in Nat
    BY <1>1, PageEnds
  <2>2. /\ b \in Walk /\ b.at = 0 /\ b.snapshot = indexed /\ b.until = PageEnd(indexed, 0)
        /\ b.counts = NoneYet
    BY <1>1, <2>1 DEF NoBatch, NoneYet, Walk, ThumbCounts
  <2>3. batch' = Walks(b) /\ UNCHANGED <<indexed, thumb>>
    BY <1>3 DEF StartBatch
  <2> HIDE DEF b
  <2>4. BatchTyped' /\ BatchPlaced' /\ batch'.at = 0 /\ batch'.counts = NoneYet
    BY <1>1, <2>1, <2>2, <2>3, PageRead
  <2>5. Missing' = {}
    BY <2>4 DEF Missing
  <2>6. IsFiniteSet(Missing') /\ Cardinality(Missing') = 0
    BY <2>5, FS_EmptySet
  <2> QED
    BY <2>4, <2>6 DEF ThumbInv, Counted, NoneYet
<1>4. ASSUME OddHit PROVE ThumbInv'
  <2>1. /\ CountOdd \in ThumbCounts /\ CountOdd.failed = batch.counts.failed + 1
        /\ CountOdd.existing = batch.counts.existing /\ CountOdd.generated = batch.counts.generated
    BY <1>2 DEF CountOdd, ThumbCounts
  <2>2. /\ CountOdd.existing + CountOdd.generated + CountOdd.failed = batch.at + 1
        /\ CountOdd.failed >= batch.counts.failed
    BY <1>2, <2>1 DEF ThumbCounts
  <2>3. batch.step \in {"hit", "make"} /\ NextHit(CountOdd) /\ UNCHANGED <<indexed, thumb>>
    BY <1>4 DEF OddHit
  <2> QED
    BY <1>1, <2>1, <2>2, <2>3, HitPassed
<1>5. ASSUME CheckHit PROVE ThumbInv'
  <2>1. CASE Hit \in thumb
    <3> DEFINE c == [k EXCEPT !.existing = @ + 1]
    <3>1. /\ c \in ThumbCounts /\ c.failed = batch.counts.failed
          /\ c.existing = batch.counts.existing + 1 /\ c.generated = batch.counts.generated
      BY <1>a DEF ThumbCounts
    <3>2. batch.step \in {"hit", "make"} /\ NextHit(c) /\ UNCHANGED <<indexed, thumb>>
      BY <1>5, <2>1 DEF CheckHit, k
    <3> HIDE DEF c
    <3>3. c.existing + c.generated + c.failed = batch.at + 1 /\ c.failed >= batch.counts.failed
      BY <1>2, <3>1 DEF ThumbCounts
    <3> QED
      BY <1>1, <2>1, <3>1, <3>2, <3>3, HitPassed
  <2>2. CASE Hit \notin thumb
    <3>1. batch' = [batch EXCEPT !.step = "make"] /\ batch.step = "hit" /\ UNCHANGED <<indexed, thumb>>
      BY <1>5, <2>2 DEF CheckHit
    <3>2. BatchTyped' /\ BatchPlaced'
      BY <3>1 DEF ThumbInv, BatchTyped, Walk, BatchPlaced
    <3>3. Missing' = Missing /\ batch'.counts = batch.counts /\ batch'.at = batch.at
      BY <3>1 DEF Missing, ThumbInv, BatchTyped, Walk
    <3> QED
      BY <3>2, <3>3 DEF ThumbInv, Counted
  <2> QED
    BY <2>1, <2>2
<1>6. ASSUME MakeHit PROVE ThumbInv'
  <2> DEFINE c == [k EXCEPT !.generated = @ + 1]
  <2>1. /\ c \in ThumbCounts /\ c.failed = batch.counts.failed
        /\ c.existing = batch.counts.existing /\ c.generated = batch.counts.generated + 1
    BY <1>a DEF ThumbCounts
  <2>2. /\ batch.step \in {"hit", "make"} /\ NextHit(c) /\ UNCHANGED indexed
        /\ thumb' = thumb \cup {Hit}
    BY <1>6 DEF MakeHit, k
  <2>3. Hit \in Doc
    BY <2>2 DEF Hit, ThumbInv, BatchTyped, Walk, BatchPlaced
  <2> HIDE DEF c
  <2>4. c.existing + c.generated + c.failed = batch.at + 1 /\ c.failed >= batch.counts.failed
    BY <1>2, <2>1 DEF ThumbCounts
  <2> QED
    BY <1>1, <2>1, <2>2, <2>3, <2>4, HitPassed
<1>7. ASSUME HitFails PROVE ThumbInv'
  <2> DEFINE c == [k EXCEPT !.failed = @ + 1]
  <2>1. /\ c \in ThumbCounts /\ c.failed = batch.counts.failed + 1
        /\ c.existing = batch.counts.existing /\ c.generated = batch.counts.generated
    BY <1>a DEF ThumbCounts
  <2>2. batch.step \in {"hit", "make"} /\ NextHit(c) /\ UNCHANGED <<indexed, thumb>>
    BY <1>7, <1>b DEF HitFails
  <2> HIDE DEF c
  <2>3. c.existing + c.generated + c.failed = batch.at + 1 /\ c.failed >= batch.counts.failed
    BY <1>2, <2>1 DEF ThumbCounts
  <2> QED
    BY <1>1, <2>1, <2>2, <2>3, HitPassed
<1>8. ASSUME Scroll PROVE ThumbInv'
  <2>1. batch.at <= Len(batch.snapshot)
    BY <1>1, <1>2 DEF ThumbInv, BatchTyped, Walk, BatchPlaced
  <2> DEFINE b == [batch EXCEPT !.until = PageEnd(batch.snapshot, batch.at)]
  <2>2. PageEnd(batch.snapshot, batch.at) \in Nat
    BY <1>1, <1>2, <2>1, PageEnds
  <2>3. /\ b \in Walk /\ b.at = batch.at /\ b.snapshot = batch.snapshot
        /\ b.until = PageEnd(batch.snapshot, batch.at) /\ b.counts = batch.counts
    BY <2>2 DEF ThumbInv, BatchTyped, Walk
  <2>4. batch' = Walks(b) /\ UNCHANGED <<indexed, thumb>>
    BY <1>8 DEF Scroll
  <2> HIDE DEF b
  <2>5. /\ BatchTyped' /\ BatchPlaced' /\ batch'.at = batch.at
        /\ batch'.snapshot = batch.snapshot /\ batch'.counts = batch.counts
    BY <1>1, <2>1, <2>3, <2>4, PageRead
  <2>6. Missing' = Missing
    BY <2>4, <2>5 DEF Missing
  <2> QED
    BY <2>5, <2>6 DEF ThumbInv, Counted
<1>9. ASSUME ScrollFails PROVE ThumbInv'
  <2>1. /\ batch' = [step |-> "idle", snapshot |-> <<>>, at |-> 0, until |-> 0, counts |-> NoneYet]
        /\ UNCHANGED <<indexed, thumb>>
    BY <1>9 DEF ScrollFails, BrokenOff, NoBatch
  <2>2. BatchTyped' /\ BatchPlaced'
    BY <1>1, <2>1 DEF BatchTyped, Walk, BatchPlaced, NoneYet, ThumbCounts
  <2>3. Missing' = {}
    BY <2>1 DEF Missing
  <2>4. IsFiniteSet(Missing') /\ Cardinality(Missing') = 0
    BY <2>3, FS_EmptySet
  <2> QED
    BY <2>1, <2>2, <2>4 DEF ThumbInv, Counted, NoneYet
<1> QED
  BY <1>3, <1>4, <1>5, <1>6, <1>7, <1>8, <1>9 DEF BatchSteps

(* What uploads and requests do beside it.                                 *)
LEMMA BesideBatch ==
  ASSUME ThumbInv, NEW d \in Doc,
         \/ IndexPage(d) \/ UploadMakes(d) \/ AskExists(d) \/ ReadStored(d) \/ Generate(d)
         \/ NotGenerated(d) \/ StoreGenerated(d) \/ SendGenerated(d)
  PROVE  ThumbInv'
<1>1. indexed \in Seq(Doc) /\ thumb \subseteq Doc
  BY DEF ThumbInv, BatchTyped, Walk
<1>2. UNCHANGED batch
  BY DEF IndexPage, UploadMakes, AskExists, ReadStored, Generate, NotGenerated, StoreGenerated,
         SendGenerated
<1>3. thumb' \in {thumb, thumb \cup {d}}
  BY DEF IndexPage, UploadMakes, AskExists, ReadStored, Generate, NotGenerated, StoreGenerated,
         SendGenerated
<1>4. indexed' \in Seq(Doc)
  BY <1>1, Inserted DEF IndexPage, UploadMakes, AskExists, ReadStored, Generate, NotGenerated,
         StoreGenerated, SendGenerated
<1> QED
  BY <1>1, <1>2, <1>3, <1>4, OthersMake

LEMMA ThumbInvStep == ASSUME ThumbInv, [ThumbNext]_thumbVars PROVE ThumbInv'
<1>1. CASE UNCHANGED thumbVars
  BY <1>1 DEF thumbVars, ThumbInv, BatchTyped, BatchPlaced, Counted, Missing
<1>2. CASE ThumbNext
  BY <1>2, BatchStep, BesideBatch DEF ThumbNext
<1> QED
  BY <1>1, <1>2

(* processMissingThumbnails: however many documents there are, a batch     *)
(* that reports a result accounts for each of its snapshot once, and none  *)
(* that it does not count as failed is without a thumbnail.                *)
THEOREM BatchesAccount == ThumbSpec => []BatchAccounts
<1>1. ThumbInit => ThumbInv
  BY ThumbInvInit
<1>2. ThumbInv /\ [ThumbNext]_thumbVars => ThumbInv'
  BY ThumbInvStep
<1>3. ASSUME ThumbInv PROVE BatchAccounts
  <2> SUFFICES ASSUME batch.step = "done"
               PROVE  /\ batch.counts.existing + batch.counts.generated + batch.counts.failed
                           = Len(batch.snapshot)
                      /\ batch.counts.failed >= Cardinality(ToSet(batch.snapshot) \ thumb)
    BY DEF BatchAccounts
  <2>1. batch.at = Len(batch.snapshot) /\ batch.snapshot \in Seq(Doc)
    BY <1>3 DEF ThumbInv, BatchPlaced, BatchTyped, Walk
  <2>2. Missing = ToSet(batch.snapshot) \ thumb
    BY <2>1 DEF Missing, ToSet
  <2>3. /\ IsFiniteSet(Missing) /\ Cardinality(Missing) \in Nat /\ batch.counts.failed \in Nat
        /\ Cardinality(Missing) <= batch.counts.failed
    BY <1>3, FS_CardinalityType DEF ThumbInv, Counted, BatchTyped, Walk, ThumbCounts
  <2> QED
    BY <1>3, <2>1, <2>2, <2>3 DEF ThumbInv, Counted
<1> QED
  BY <1>1, <1>2, <1>3, PTL DEF ThumbSpec

-----------------------------------------------------------------------------
(* Export                                                                  *)

Distinct(s) == \A i, j \in DOMAIN s : s[i] = s[j] => i = j

ExportTyped ==
  /\ catalogue \in Seq(Item) /\ Distinct(catalogue)
  /\ matching \in Seq(Item) /\ Distinct(matching)
  /\ entries \in Seq(Item) /\ archive = entries
  /\ from \in Nat /\ from <= Len(matching) /\ total \in Nat /\ looked \in Nat

PageLen == Len(Hits)

(* How far the request is: the hits of whole pages, and those of this one. *)
Progress ==
  /\ exportAt \in {"idle", "count", "retrieve", "scroll", "sent", "too large"}
  /\ exportAt \in {"count", "sent"} => total = from /\ looked = 0
  /\ exportAt \in {"retrieve", "scroll"} => total = from + PageLen /\ looked <= PageLen
  /\ exportAt = "retrieve" => looked < PageLen
  /\ exportAt = "scroll" => looked = PageLen
  /\ exportAt = "sent" => from = Len(matching)
  /\ exportAt = "too large" => looked = 0 /\ total > MaxDocuments /\ total <= Len(matching)
  /\ exportAt \in {"idle", "count", "retrieve", "scroll", "sent"} => total <= MaxDocuments
  /\ exportAt = "idle" => /\ matching = <<>> /\ entries = <<>> /\ skipped = {}
                          /\ from = 0 /\ looked = 0 /\ total = 0

Seen == {matching[k] : k \in 1..(from + looked)}

(* What of the page could be retrieved is in its place.                    *)
Aligned ==
  exportAt = "retrieve" =>
    /\ retrieved \subseteq 1..PageLen
    /\ looked > 0 => retrieved = 1..PageLen
    /\ results \in [1..PageLen -> Item \cup {NoItem}]
    /\ \A i \in 1..PageLen :
         results[i] = IF i \in retrieved /\ Hits[i] \notin skipped THEN Hits[i] ELSE NoItem

(* Nothing counts as skipped before it has been retrieved.                 *)
SkippedSeen ==
  \A k \in DOMAIN matching : matching[k] \in skipped =>
    k <= from + looked \/ (exportAt = "retrieve" /\ k - from \in retrieved)

(* The manifest so far.                                                    *)
Listed ==
  /\ {entries[i] : i \in DOMAIN entries} = Seen \ skipped
  /\ \A i, j \in DOMAIN entries :
       i < j => \E k, l \in DOMAIN matching :
                  k < l /\ matching[k] = entries[i] /\ matching[l] = entries[j]
  /\ Len(entries) <= from + looked
  /\ Len(entries) <= MaxDocuments

ExportInv == ExportTyped /\ Progress /\ Aligned /\ SkippedSeen /\ Listed


(* The hits of a page are the next ones of the scroll.                     *)
LEMMA PageOfHits ==
  ASSUME matching \in Seq(Item), from \in Nat, from <= Len(matching)
  PROVE  /\ PageLen \in Nat /\ from + PageLen <= Len(matching)
         /\ Hits \in Seq(Item)
         /\ PageLen = 0 => from = Len(matching)
         /\ \A i \in 1..PageLen :
              from + i \in DOMAIN matching /\ Hits[i] = matching[from + i] /\ Hits[i] \in Item
<1> DEFINE n == Len(matching)
           u == IF from + ItemsPerPage < n THEN from + ItemsPerPage ELSE n
<1>1. n \in Nat /\ ItemsPerPage \in Nat \ {0} /\ from <= n
  BY ExportAssumption
<1>2. Hits = SubSeq(matching, from + 1, u)
  BY DEF Hits
<1> HIDE DEF n
<1>3. u \in Nat /\ from <= u /\ u <= n /\ (u = from => from = n)
  BY <1>1
<1> HIDE DEF u
<1>4. /\ Hits \in Seq(Item) /\ Len(Hits) = u - from
      /\ \A i \in 1..(u - from) : Hits[i] = matching[from + i] /\ from + i \in 1..n
  BY <1>1, <1>2, <1>3 DEF n
<1>5. PageLen = u - from
  BY <1>4 DEF PageLen
<1>6. PageLen \in Nat /\ from + PageLen <= n /\ (PageLen = 0 => from = n)
  BY <1>1, <1>3, <1>5
<1>7. DOMAIN matching = 1..n
  BY DEF n
<1>8. \A i \in 1..PageLen :
        from + i \in DOMAIN matching /\ Hits[i] = matching[from + i] /\ Hits[i] \in Item
  BY <1>4, <1>5, <1>7
<1> QED
  BY <1>4, <1>6, <1>8 DEF n

(* The index may change while the request has nothing to do with it.       *)
LEMMA OthersExport == ASSUME ExportInv, Others PROVE ExportInv'
<1>1. UNCHANGED <<exportAt, matching, from, retrieved, results, looked, total, entries, archive,
                  skipped>>
  BY DEF Others, requestVars
<1>2. catalogue' \in Seq(Item) /\ Distinct(catalogue)'
  <2>1. catalogue \in Seq(Item) /\ Distinct(catalogue)
    BY DEF ExportInv, ExportTyped
  <2>2. CASE catalogue' = catalogue
    BY <2>1, <2>2 DEF Distinct
  <2>3. ASSUME NEW d \in Item \ ToSet(catalogue), catalogue' = Append(catalogue, d)
        PROVE  catalogue' \in Seq(Item) /\ Distinct(catalogue)'
    <3> DEFINE last == Len(catalogue) + 1
    <3>1. /\ catalogue' \in Seq(Item) /\ DOMAIN catalogue' = DOMAIN catalogue \cup {last}
          /\ \A i \in DOMAIN catalogue : catalogue'[i] = catalogue[i]
          /\ catalogue'[last] = d
      BY <2>1, <2>3
    <3>2. \A i \in DOMAIN catalogue : catalogue[i] # d
      BY <2>3 DEF ToSet
    <3> HIDE DEF last
    <3> QED
      BY <2>1, <3>1, <3>2 DEF Distinct
  <2> QED
    BY <2>2, <2>3 DEF Others
<1>3. PageLen' = PageLen
  BY <1>1 DEF PageLen, Hits
<1>4. Seen' = Seen /\ Hits' = Hits
  BY <1>1 DEF Seen, Hits
<1>5. ExportTyped'
  BY <1>1, <1>2 DEF ExportInv, ExportTyped, Distinct
<1>6. Progress'
  BY <1>1, <1>3 DEF ExportInv, Progress
<1>7. Aligned' /\ SkippedSeen'
  BY <1>1, <1>3, <1>4 DEF ExportInv, Aligned, SkippedSeen
<1>8. Listed'
  BY <1>1, <1>4 DEF ExportInv, Listed
<1> QED
  BY <1>5, <1>6, <1>7, <1>8 DEF ExportInv

(* A request that has just begun, or has ended, has nothing.               *)
LEMMA NoExport ==
  ASSUME catalogue' \in Seq(Item), Distinct(catalogue)', exportAt' \in {"idle", "count"},
         matching' \in Seq(Item), Distinct(matching)', exportAt' = "idle" => matching' = <<>>,
         entries' = <<>>, archive' = <<>>, from' = 0, looked' = 0, total' = 0, skipped' = {}
  PROVE  ExportInv'
<1>1. Len(matching') \in Nat /\ MaxDocuments \in Nat
  BY ExportAssumption
<1>2. ExportTyped'
  <2>1. <<>> \in Seq(Item)
    OBVIOUS
  <2> QED
    BY <1>1, <2>1 DEF ExportTyped
<1>3. Progress'
  <2>1. CASE exportAt' = "idle"
    <3>1. total' <= MaxDocuments
      BY <1>1
    <3> QED
      BY <2>1, <3>1, Zenon DEF Progress
  <2>2. CASE exportAt' = "count"
    BY <1>1, <2>2 DEF Progress
  <2> QED
    BY <2>1, <2>2
<1>4. Aligned' /\ SkippedSeen'
  BY DEF Aligned, SkippedSeen
<1>5. Listed'
  <2>1. Seen' = {} /\ DOMAIN entries' = {} /\ Len(entries') = 0
    BY DEF Seen
  <2> QED
    BY <1>1, <2>1 DEF Listed
<1> QED
  BY <1>2, <1>3, <1>4, <1>5 DEF ExportInv

LEMMA ExportInvInit == ExportInit => ExportInv
<1> SUFFICES ASSUME ExportInit PROVE ExportInv
  OBVIOUS
<1>1. catalogue \in Seq(Item) /\ Distinct(catalogue)
  <2>1. catalogue = <<>> \/ \E S \in SUBSET Item : catalogue = SetToSeq(S)
    BY DEF ExportInit
  <2>2. <<>> \in Seq(Item) /\ Distinct(<<>>)
    BY DEF Distinct
  <2>3. ASSUME NEW S \in SUBSET Item
        PROVE  SetToSeq(S) \in Seq(Item) /\ Distinct(SetToSeq(S))
    <3>1. IsFiniteSet(S)
      BY ExportAssumption, FS_Subset
    <3>2. Cardinality(S) \in Nat /\ \E f \in [1..Cardinality(S) -> S] : IsInjective(f)
      BY <3>1, FS_CardinalityType DEF ExistsBijection, Bijection, Injection
    <3>3. SetToSeq(S) \in [1..Cardinality(S) -> S] /\ IsInjective(SetToSeq(S))
      BY <3>2 DEF SetToSeq
    <3>4. SetToSeq(S) \in Seq(Item)
      BY <3>2, <3>3
    <3> QED
      BY <3>3, <3>4 DEF Distinct, IsInjective
  <2> QED
    BY <2>1, <2>2, <2>3
<1>2. /\ exportAt = "idle" /\ matching = <<>> /\ entries = <<>> /\ archive = <<>>
      /\ from = 0 /\ looked = 0 /\ total = 0 /\ skipped = {}
  BY DEF ExportInit
<1>3. Len(matching) = 0 /\ MaxDocuments \in Nat
  BY <1>2, ExportAssumption
<1>4. ExportTyped
  <2>1. <<>> \in Seq(Item) /\ Distinct(<<>>)
    BY DEF Distinct
  <2> QED
    BY <1>1, <1>2, <1>3, <2>1 DEF ExportTyped
<1>5. Progress
  BY <1>2, <1>3 DEF Progress
<1>6. Aligned /\ SkippedSeen
  BY <1>2 DEF Aligned, SkippedSeen
<1>7. Listed
  <2>1. Seen = {} /\ DOMAIN entries = {} /\ Len(entries) = 0
    BY <1>2 DEF Seen
  <2> QED
    BY <1>2, <1>3, <2>1 DEF Listed
<1> QED
  BY <1>4, <1>5, <1>6, <1>7 DEF ExportInv

(* A page of hits is counted, refused, or there is none.                   *)
LEMMA CountStep == ASSUME ExportInv, CountHits PROVE ExportInv'
<1>1. /\ exportAt = "count" /\ total' = total + PageLen /\ looked' = 0
      /\ UNCHANGED <<catalogue, matching, from, entries, archive, skipped>>
  BY DEF CountHits, NewTotal, PageLen
<1>1a. exportAt' = IF Hits = <<>> THEN "sent"
                     ELSE IF total + PageLen > MaxDocuments THEN "too large" ELSE "retrieve"
  BY DEF CountHits, NewTotal, ExportGoes, PageLen
<1>1b. results' = [i \in 1..PageLen |-> NoItem] /\ retrieved' = {}
  BY DEF CountHits, PageLen
<1>2. /\ matching \in Seq(Item) /\ from \in Nat /\ from <= Len(matching)
      /\ total = from /\ looked = 0 /\ total <= MaxDocuments /\ MaxDocuments \in Nat
  BY <1>1, ExportAssumption DEF ExportInv, ExportTyped, Progress
<1>3. /\ PageLen \in Nat /\ from + PageLen <= Len(matching)
      /\ (Hits = <<>>) <=> (PageLen = 0)
      /\ PageLen = 0 => from = Len(matching)
  <2>1. Hits \in Seq(Item)
    BY <1>2, PageOfHits
  <2>2. (Hits = <<>>) <=> (PageLen = 0)
    BY <2>1 DEF PageLen
  <2> QED
    BY <1>2, <2>2, PageOfHits
<1>4. PageLen' = PageLen /\ Hits' = Hits
  BY <1>1 DEF PageLen, Hits
<1>5. ExportTyped'
  <2>1. total' \in Nat /\ looked' \in Nat
    BY <1>1, <1>2, <1>3
  <2> QED
    BY <1>1, <1>2, <2>1 DEF ExportInv, ExportTyped, Distinct
<1>6. Progress'
  <2>1. /\ Len(matching) \in Nat /\ total' = from + PageLen
        /\ from' = from /\ matching' = matching /\ looked' = 0
    BY <1>1, <1>2
  <2>2. CASE PageLen = 0
    <3>1. exportAt' = "sent" /\ total' = from /\ total' <= MaxDocuments /\ from = Len(matching)
      BY <1>1, <1>2, <1>3, <1>1a, <2>1, <2>2
    <3> QED
      BY <2>1, <3>1 DEF Progress
  <2>3. CASE PageLen # 0 /\ total' > MaxDocuments
    <3>1. exportAt' = "too large" /\ total' <= Len(matching)
      BY <1>1, <1>2, <1>3, <1>1a, <2>1, <2>3
    <3> QED
      BY <2>1, <2>3, <3>1 DEF Progress
  <2>4. CASE PageLen # 0 /\ ~(total' > MaxDocuments)
    <3>1. exportAt' = "retrieve" /\ total' <= MaxDocuments /\ looked' < PageLen /\ looked' <= PageLen
      BY <1>1, <1>2, <1>3, <1>1a, <2>1, <2>4
    <3> QED
      BY <1>4, <2>1, <3>1 DEF Progress
  <2> QED
    BY <2>2, <2>3, <2>4
<1>7. Aligned'
  <2>1. ~(looked' > 0)
    BY <1>1
  <2> QED
    BY <1>1, <1>3, <1>4, <1>1b, <2>1 DEF Aligned
<1>8. from' + looked' = from + looked /\ Seen' = Seen
  BY <1>1, <1>2 DEF Seen
<1>9. SkippedSeen'
  BY <1>1, <1>8 DEF ExportInv, SkippedSeen
<1>10. Listed'
  BY <1>1, <1>8 DEF ExportInv, Listed
<1> QED
  BY <1>5, <1>6, <1>7, <1>9, <1>10 DEF ExportInv

(* A retrieval ends: its result is in the place of its hit.                *)
LEMMA RetrieveStep == ASSUME ExportInv, NEW i \in Nat, Retrieve(i) PROVE ExportInv'
<1>1. /\ exportAt = "retrieve" /\ i \in (1..PageLen) \ retrieved /\ retrieved' = retrieved \cup {i}
      /\ UNCHANGED <<catalogue, exportAt, matching, from, looked, total, entries, archive>>
      /\ \/ results' = [results EXCEPT ![i] = Hits[i]] /\ skipped' = skipped
         \/ results' = results /\ skipped' = skipped \cup {Hits[i]}
  BY DEF Retrieve, PageLen, Slot
<1>2. /\ matching \in Seq(Item) /\ from \in Nat /\ from <= Len(matching) /\ Distinct(matching)
  BY DEF ExportInv, ExportTyped
<1>3. looked = 0
  <2>1. looked \in Nat /\ (looked > 0 => retrieved = 1..PageLen)
    BY <1>1 DEF ExportInv, ExportTyped, Aligned
  <2>2. retrieved # 1..PageLen
    BY <1>1
  <2> QED
    BY <2>1, <2>2
<1>4. /\ PageLen \in Nat
      /\ \A k \in 1..PageLen :
           from + k \in DOMAIN matching /\ Hits[k] = matching[from + k] /\ Hits[k] \in Item
  BY <1>2, PageOfHits
<1>5. PageLen' = PageLen /\ Hits' = Hits
  BY <1>1 DEF PageLen, Hits
<1>6. \A k \in 1..PageLen : Hits[k] = Hits[i] => k = i
  BY <1>1, <1>2, <1>4 DEF Distinct
<1>7. ExportTyped' /\ Progress'
  BY <1>1, <1>5 DEF ExportInv, ExportTyped, Progress, Distinct
<1>8. Hits[i] \notin skipped
  <2>1. from + i \in DOMAIN matching /\ ~(from + i <= from + looked) /\ (from + i) - from = i
    BY <1>1, <1>2, <1>3, <1>4
  <2> QED
    BY <1>1, <1>4, <2>1 DEF ExportInv, SkippedSeen
<1>9. Aligned'
  <2>1. /\ retrieved \subseteq 1..PageLen /\ results \in [1..PageLen -> Item \cup {NoItem}]
        /\ \A k \in 1..PageLen :
             results[k] = IF k \in retrieved /\ Hits[k] \notin skipped THEN Hits[k] ELSE NoItem
    BY <1>1 DEF ExportInv, Aligned
  <2>2. retrieved' \subseteq 1..PageLen /\ results' \in [1..PageLen -> Item \cup {NoItem}]
    BY <1>1, <1>4, <2>1
  <2>3. ASSUME NEW k \in 1..PageLen
        PROVE  results'[k] = IF k \in retrieved' /\ Hits[k] \notin skipped' THEN Hits[k] ELSE NoItem
    <3>1. CASE k = i
      BY <1>1, <1>8, <2>1, <3>1
    <3>2. CASE k # i
      BY <1>1, <1>6, <2>1, <3>2
    <3> QED
      BY <3>1, <3>2
  <2> QED
    BY <1>1, <1>3, <1>5, <2>2, <2>3 DEF Aligned
<1>10. SkippedSeen'
  <2> SUFFICES ASSUME NEW k \in DOMAIN matching, matching[k] \in skipped'
               PROVE  k <= from + looked \/ k - from \in retrieved'
    BY <1>1 DEF SkippedSeen
  <2>1. CASE matching[k] \in skipped
    BY <1>1, <2>1 DEF ExportInv, SkippedSeen
  <2>2. CASE matching[k] = Hits[i]
    <3>1. k = from + i
      BY <1>1, <1>2, <1>4, <2>2 DEF Distinct
    <3> QED
      BY <1>1, <1>2, <3>1
  <2> QED
    BY <1>1, <2>1, <2>2
<1>11. Listed'
  <2>1. Hits[i] \notin Seen
    <3> SUFFICES ASSUME NEW k \in 1..from, matching[k] = Hits[i] PROVE FALSE
      BY <1>3, <1>2 DEF Seen
    <3>1. k \in DOMAIN matching /\ matching[k] = matching[from + i] /\ from + i \in DOMAIN matching
      BY <1>1, <1>2, <1>4
    <3>2. k = from + i
      BY <1>2, <3>1 DEF Distinct
    <3> QED
      BY <1>1, <1>2, <3>2
  <2>2. Seen' = Seen /\ Seen \ skipped' = Seen \ skipped
    BY <1>1, <2>1 DEF Seen
  <2> QED
    BY <1>1, <2>2 DEF ExportInv, Listed
<1> QED
  BY <1>7, <1>9, <1>10, <1>11 DEF ExportInv

(* A result is written: it is that of the next hit of the scroll.          *)
LEMMA ArchiveStep == ASSUME ExportInv, Archive PROVE ExportInv'
<1> DEFINE m == from + looked + 1
           item == results[looked + 1]
<1>1. /\ exportAt = "retrieve" /\ retrieved = 1..PageLen /\ looked' = looked + 1
      /\ exportAt' = IF looked + 1 = PageLen THEN "scroll" ELSE "retrieve"
      /\ UNCHANGED <<catalogue, matching, from, retrieved, results, total, skipped>>
  BY DEF Archive, ExportGoes, PageLen
<1>2. IF item = NoItem THEN UNCHANGED <<archive, entries>>
      ELSE archive' = Append(archive, item) /\ entries' = Append(entries, item)
  BY DEF Archive, Writes
<1>3. /\ matching \in Seq(Item) /\ from \in Nat /\ from <= Len(matching) /\ Distinct(matching)
      /\ looked \in Nat /\ looked < PageLen /\ entries \in Seq(Item) /\ archive = entries
      /\ total = from + PageLen /\ total <= MaxDocuments /\ total \in Nat /\ MaxDocuments \in Nat
  BY <1>1, ExportAssumption DEF ExportInv, ExportTyped, Progress
<1>4. /\ PageLen \in Nat /\ from + PageLen <= Len(matching)
      /\ \A k \in 1..PageLen :
           from + k \in DOMAIN matching /\ Hits[k] = matching[from + k] /\ Hits[k] \in Item
  BY <1>3, PageOfHits
<1>5. PageLen' = PageLen /\ Hits' = Hits
  BY <1>1 DEF PageLen, Hits
<1>6. /\ looked + 1 \in 1..PageLen /\ m = from + (looked + 1) /\ m \in DOMAIN matching /\ m \in Nat
  BY <1>3, <1>4
<1>7. item = IF matching[m] \notin skipped THEN matching[m] ELSE NoItem
  BY <1>1, <1>4, <1>6 DEF ExportInv, Aligned
<1>8. matching[m] \in Item /\ NoItem \notin Item
  BY <1>4, <1>6, ExportAssumption
<1> HIDE DEF item
<1>9. \/ matching[m] \in skipped /\ entries' = entries /\ archive' = archive
      \/ /\ matching[m] \notin skipped
         /\ entries' = Append(entries, matching[m]) /\ archive' = Append(archive, matching[m])
  BY <1>2, <1>7, <1>8
<1>10. /\ entries' \in Seq(Item) /\ archive' = entries'
       /\ \/ matching[m] \in skipped /\ entries' = entries
          \/ /\ matching[m] \notin skipped
             /\ DOMAIN entries' = DOMAIN entries \cup {Len(entries) + 1}
             /\ Len(entries') = Len(entries) + 1
             /\ \A k \in DOMAIN entries : entries'[k] = entries[k]
             /\ entries'[Len(entries) + 1] = matching[m]
  <2> DEFINE d == matching[m]
             longer == Append(entries, d)
  <2>1. d \in Item
    BY <1>8
  <2> HIDE DEF d, m
  <2>2. /\ longer \in Seq(Item) /\ DOMAIN longer = DOMAIN entries \cup {Len(entries) + 1}
        /\ Len(longer) = Len(entries) + 1
        /\ \A k \in DOMAIN entries : longer[k] = entries[k]
        /\ longer[Len(entries) + 1] = d
    BY <1>3, <2>1
  <2>3. \/ d \in skipped /\ entries' = entries /\ archive' = archive
        \/ d \notin skipped /\ entries' = longer /\ archive' = longer
    BY <1>3, <1>9 DEF d
  <2> HIDE DEF longer
  <2>4. CASE d \in skipped /\ entries' = entries /\ archive' = archive
    BY <1>3, <2>4 DEF d
  <2>5. CASE d \notin skipped /\ entries' = longer /\ archive' = longer
    BY <2>2, <2>5 DEF d
  <2> QED
    BY <2>3, <2>4, <2>5
<1>11. ExportTyped'
  BY <1>1, <1>3, <1>10 DEF ExportInv, ExportTyped, Distinct
<1>12. Progress'
  BY <1>1, <1>3, <1>4, <1>5, <1>6 DEF Progress
<1>13. Aligned'
  BY <1>1, <1>5 DEF ExportInv, Aligned
<1>14. SkippedSeen'
  <2> SUFFICES ASSUME NEW k \in DOMAIN matching, matching[k] \in skipped
               PROVE  \/ k <= from + (looked + 1)
                      \/ exportAt' = "retrieve" /\ k - from \in retrieved
    BY <1>1 DEF SkippedSeen
  <2>1. k \in Nat
    BY <1>3
  <2>2. k <= from + looked \/ k - from \in 1..PageLen
    BY <1>1 DEF ExportInv, SkippedSeen
  <2>3. CASE k <= from + looked
    BY <1>3, <2>1, <2>3
  <2>4. CASE k - from \in 1..PageLen
    <3>1. CASE looked + 1 = PageLen
      BY <1>3, <1>4, <2>1, <2>4, <3>1
    <3>2. CASE looked + 1 # PageLen
      BY <1>1, <2>4, <3>2
    <3> QED
      BY <3>1, <3>2
  <2> QED
    BY <2>2, <2>3, <2>4
<1>15. Listed'
  <2> DEFINE e == Len(entries)
  <2>1. /\ {entries[k] : k \in DOMAIN entries} = Seen \ skipped
        /\ \A k, l \in DOMAIN entries :
             k < l => \E a, b \in DOMAIN matching :
                        a < b /\ matching[a] = entries[k] /\ matching[b] = entries[l]
        /\ e \in Nat /\ e <= from + looked /\ e <= MaxDocuments
    BY <1>3 DEF ExportInv, Listed
  <2>2. Seen' = Seen \cup {matching[m]}
    <3>1. 1..(from' + looked') = 1..(from + looked) \cup {m}
      BY <1>1, <1>3
    <3> QED
      BY <1>1, <3>1 DEF Seen
  <2>3. CASE matching[m] \in skipped /\ entries' = entries
    <3>1. Seen' \ skipped = Seen \ skipped
      BY <2>2, <2>3
    <3>2. e <= from + (looked + 1)
      BY <1>3, <2>1
    <3> QED
      BY <1>1, <2>1, <2>3, <3>1, <3>2 DEF Listed
  <2>4. CASE /\ matching[m] \notin skipped
             /\ DOMAIN entries' = DOMAIN entries \cup {e + 1}
             /\ Len(entries') = e + 1
             /\ \A k \in DOMAIN entries : entries'[k] = entries[k]
             /\ entries'[e + 1] = matching[m]
    <3>1. {entries'[k] : k \in DOMAIN entries'} = Seen' \ skipped'
      <4>1. {entries'[k] : k \in DOMAIN entries'} = {entries[k] : k \in DOMAIN entries} \cup {matching[m]}
        BY <2>4
      <4> QED
        BY <1>1, <2>1, <2>2, <2>4, <4>1
    <3>2. ASSUME NEW k \in DOMAIN entries', NEW l \in DOMAIN entries', k < l
          PROVE  \E a, b \in DOMAIN matching :
                   a < b /\ matching[a] = entries'[k] /\ matching[b] = entries'[l]
      <4>1. DOMAIN entries = 1..e
        BY <1>3
      <4> HIDE DEF e
      <4>2. k \in DOMAIN entries
        BY <2>1, <2>4, <3>2, <4>1
      <4>3. CASE l \in DOMAIN entries
        BY <2>1, <2>4, <3>2, <4>2, <4>3
      <4>4. CASE l = e + 1
        <5>1. entries[k] \in Seen
          BY <2>1, <4>2
        <5>2. PICK a \in 1..(from + looked) : entries[k] = matching[a]
          BY <5>1 DEF Seen
        <5>3. a \in DOMAIN matching /\ a < m
          BY <1>3, <1>4, <5>2
        <5> QED
          BY <1>6, <2>4, <4>2, <4>4, <5>2, <5>3
      <4> QED
        BY <2>4, <4>3, <4>4
    <3>3. e + 1 <= from + (looked + 1) /\ from + (looked + 1) <= MaxDocuments
      BY <1>3, <1>4, <2>1
    <3>4. e + 1 <= MaxDocuments
      BY <1>3, <2>1, <3>3
    <3> QED
      BY <1>1, <2>4, <3>1, <3>2, <3>3, <3>4 DEF Listed
  <2> QED
    BY <1>10, <2>3, <2>4
<1> QED
  BY <1>11, <1>12, <1>13, <1>14, <1>15 DEF ExportInv

(* The next page begins where this one ends.                               *)
LEMMA ScrollStep == ASSUME ExportInv, ExportScroll PROVE ExportInv'
<1>1. /\ exportAt = "scroll" /\ exportAt' = "count" /\ from' = from + PageLen /\ looked' = 0
      /\ UNCHANGED <<catalogue, matching, retrieved, results, total, entries, archive, skipped>>
  BY DEF ExportScroll, ExportGoes, PageLen
<1>2. /\ matching \in Seq(Item) /\ from \in Nat /\ from <= Len(matching)
      /\ looked = PageLen /\ total = from + PageLen /\ total <= MaxDocuments
  BY <1>1 DEF ExportInv, ExportTyped, Progress
<1>3. PageLen \in Nat /\ from + PageLen <= Len(matching)
  BY <1>2, PageOfHits
<1>4. from' + looked' = from + looked /\ from' \in Nat /\ from' <= Len(matching)
  BY <1>1, <1>2, <1>3
<1>5. ExportTyped' /\ Progress' /\ Aligned'
  BY <1>1, <1>2, <1>4 DEF ExportInv, ExportTyped, Progress, Aligned, Distinct
<1>6. SkippedSeen' /\ Listed'
  BY <1>1, <1>4 DEF ExportInv, SkippedSeen, Listed, Seen
<1> QED
  BY <1>5, <1>6 DEF ExportInv

LEMMA ExportInvStep == ASSUME ExportInv, [ExportNext]_exportVars PROVE ExportInv'
<1>1. catalogue \in Seq(Item) /\ Distinct(catalogue)
  BY DEF ExportInv, ExportTyped
<1>2. ASSUME StartExport PROVE ExportInv'
  <2>1. /\ exportAt = "idle" /\ exportAt' = "count" /\ matching' = catalogue
        /\ UNCHANGED <<catalogue, from, looked, total, entries, archive, skipped>>
    BY <1>2 DEF StartExport, ExportGoes
  <2>2. /\ entries = <<>> /\ archive = <<>> /\ from = 0 /\ looked = 0 /\ total = 0 /\ skipped = {}
    BY <2>1 DEF ExportInv, ExportTyped, Progress, Listed
  <2>3. Distinct(matching)' /\ Distinct(catalogue)'
    BY <1>1, <2>1 DEF Distinct
  <2> QED
    BY <1>1, <2>1, <2>2, <2>3, NoExport
<1>3. ASSUME EndExport PROVE ExportInv'
  <2>1. /\ exportAt' = "idle" /\ matching' = <<>> /\ entries' = <<>> /\ archive' = <<>>
        /\ from' = 0 /\ looked' = 0 /\ total' = 0 /\ skipped' = {} /\ UNCHANGED catalogue
    BY <1>3 DEF EndExport, ExportGoes
  <2>2. matching' \in Seq(Item) /\ Distinct(matching)' /\ Distinct(catalogue)'
    BY <1>1, <2>1 DEF Distinct
  <2> QED
    BY <1>1, <2>1, <2>2, NoExport
<1>4. ASSUME NEW i \in 1..ItemsPerPage, Retrieve(i) PROVE ExportInv'
  <2>1. i \in Nat
    BY ExportAssumption
  <2> QED
    BY <1>4, <2>1, RetrieveStep
<1>5. ASSUME UNCHANGED exportVars PROVE ExportInv'
  <2>1. UNCHANGED <<catalogue, exportAt, matching, from, retrieved, results, looked, total,
                    entries, archive, skipped>>
    BY <1>5 DEF exportVars, requestVars
  <2>2. PageLen' = PageLen /\ Hits' = Hits /\ Seen' = Seen
    BY <2>1 DEF PageLen, Hits, Seen
  <2>3. ExportTyped' /\ Progress'
    BY <2>1, <2>2 DEF ExportInv, ExportTyped, Progress, Distinct
  <2>4. Aligned' /\ SkippedSeen' /\ Listed'
    BY <2>1, <2>2 DEF ExportInv, Aligned, SkippedSeen, Listed
  <2> QED
    BY <2>3, <2>4 DEF ExportInv
<1> QED
  BY <1>2, <1>3, <1>4, <1>5, CountStep, ArchiveStep, ScrollStep, OthersExport DEF ExportNext

(* collectExportEntries, archiveScrollPage: however the retrievals of a    *)
(* page overlap and whatever is deleted meanwhile, the manifest and the    *)
(* archive have the documents that matched, in the order of the scroll,    *)
(* but for those that could not be retrieved, and never too many.          *)
THEOREM ExportsAreExact == ExportSpec => []ExportExact
<1>1. ExportInit => ExportInv
  BY ExportInvInit
<1>2. ExportInv /\ [ExportNext]_exportVars => ExportInv'
  BY ExportInvStep
<1>3. ASSUME ExportInv PROVE ExportExact
  <2>1. ASSUME exportAt = "sent" PROVE Lists(entries, matching, skipped) /\ archive = entries
    <3>1. /\ from + looked = Len(matching) /\ matching \in Seq(Item) /\ archive = entries
      BY <1>3, <2>1 DEF ExportInv, Progress, ExportTyped
    <3>2. DOMAIN matching = 1..(from + looked)
      BY <3>1
    <3>3. ToSet(entries) = ToSet(matching) \ skipped
      BY <1>3, <3>2 DEF ExportInv, Listed, Seen, ToSet
    <3> QED
      BY <1>3, <3>1, <3>3 DEF ExportInv, Listed, Lists
  <2>2. ASSUME exportAt = "too large" PROVE Len(matching) > MaxDocuments
    <3>1. total > MaxDocuments /\ total <= Len(matching) /\ total \in Nat /\ matching \in Seq(Item)
      BY <1>3, <2>2 DEF ExportInv, Progress, ExportTyped
    <3>2. Len(matching) \in Nat /\ MaxDocuments \in Nat
      BY <3>1, ExportAssumption
    <3> QED
      BY <3>1, <3>2
  <2>3. Len(archive) <= MaxDocuments
    BY <1>3 DEF ExportInv, ExportTyped, Listed
  <2> QED
    BY <2>1, <2>2, <2>3 DEF ExportExact
<1> QED
  BY <1>1, <1>2, <1>3, PTL DEF ExportSpec

-----------------------------------------------------------------------------
(* Reminders                                                               *)

FiledTyped ==
  /\ DOMAIN filed \subseteq Folio /\ \A p \in DOMAIN filed : filed[p].dates \subseteq Instant
  /\ window \in [now : Instant, until : Instant]

ReminderInv == FiledTyped /\ RemindersExact

(* Each set of naturals has a least one: else the numbers that are below   *)
(* all of it would map one to one to themselves but 0.                     *)
LEMMA LeastOf ==
  ASSUME NEW T, T \subseteq Nat, T # {} PROVE \E d \in T : \A e \in T : d <= e
<1> SUFFICES ASSUME \A d \in T : \E e \in T : ~(d <= e) PROVE FALSE
  OBVIOUS
<1> DEFINE B == {k \in Nat : \A e \in T : k <= e}
           next == [k \in B |-> k + 1]
<1>1. 0 \in B /\ \A k \in B : k \in Nat /\ k + 1 \in B
  <2>1. 0 \in B
    OBVIOUS
  <2>2. ASSUME NEW k \in B PROVE k \in Nat /\ k + 1 \in B
    <3>1. k \notin T
      BY <2>2
    <3>2. ASSUME NEW e \in T PROVE k + 1 <= e
      <4>1. e \in Nat /\ k \in Nat /\ k <= e /\ k # e
        BY <2>2, <3>1, <3>2
      <4> QED
        BY <4>1
    <3> QED
      BY <3>2
  <2> QED
    BY <2>1, <2>2
<1>2. IsFiniteSet(B)
  <2>1. PICK t \in T : TRUE
    OBVIOUS
  <2>2. t \in Nat /\ B \subseteq 0..t
    BY <2>1
  <2>3. IsFiniteSet(0..t)
    BY <2>2, FS_Interval
  <2> QED
    BY <2>2, <2>3, FS_Subset
<1> HIDE DEF B
<1>3. next \in Injection(B, B)
  <2>1. next \in [B -> B]
    BY <1>1
  <2>2. \A j, k \in B : next[j] = next[k] => j = k
    BY <1>1
  <2> QED
    BY <2>1, <2>2 DEF Injection, IsInjective
<1>4. next \in Surjection(B, B)
  BY <1>2, <1>3, FS_Injection
<1>5. PICK k \in B : next[k] = 0
  BY <1>1, <1>4 DEF Surjection
<1> QED
  BY <1>1, <1>5

(* What matches has a soonest date in the window.                          *)
LEMMA SoonestIsLeast ==
  ASSUME NEW w \in [now : Instant, until : Instant], NEW dates \in SUBSET Instant,
         NEW d0 \in dates, InWindow(w, d0)
  PROVE  /\ Soonest(w, dates) \in dates /\ InWindow(w, Soonest(w, dates))
         /\ \A e \in dates : InWindow(w, e) => Soonest(w, dates) <= e
<1> DEFINE T == {d \in dates : InWindow(w, d)}
<1>1. T \subseteq Nat /\ T # {}
  BY ReminderAssumption
<1>2. \E d \in T : \A e \in T : d <= e
  BY <1>1, LeastOf
<1>3. \E d \in dates : InWindow(w, d) /\ \A e \in dates : InWindow(w, e) => d <= e
  BY <1>2
<1> QED
  BY <1>3 DEF Soonest

(* The answer is exact for the documents there are when it is given.       *)
LEMMA AnswerStep ==
  ASSUME FiledTyped, NEW w \in [now : Instant, until : Instant], HandleReminders(w)
  PROVE  ReminderInv'
<1> DEFINE found == {p \in DOMAIN filed : Matches(w, p)}
           ids == {shown'[i].id : i \in 1..Len(shown')}
<1>1. /\ window' = w /\ filed' = filed
      /\ \E hits \in SUBSET found :
           /\ \/ hits = found /\ Cardinality(hits) <= SearchSize
              \/ Cardinality(hits) = SearchSize
           /\ \E order \in SetToSeqs(hits) :
                /\ shown' = [i \in DOMAIN order |-> Reminder(w, order[i])]
                /\ ByDueDate(shown')
  BY DEF HandleReminders
<1>2. PICK hits \in SUBSET found :
        /\ \/ hits = found /\ Cardinality(hits) <= SearchSize
           \/ Cardinality(hits) = SearchSize
        /\ \E order \in SetToSeqs(hits) :
             /\ shown' = [i \in DOMAIN order |-> Reminder(w, order[i])]
             /\ ByDueDate(shown')
  BY <1>1
<1>3. PICK order \in SetToSeqs(hits) :
        /\ shown' = [i \in DOMAIN order |-> Reminder(w, order[i])]
        /\ ByDueDate(shown')
  BY <1>2
<1>4. IsFiniteSet(found) /\ IsFiniteSet(hits)
  <2>1. found \in SUBSET Folio
    BY DEF FiledTyped
  <2> QED
    BY <1>2, <2>1, FS_Subset, ReminderAssumption
<1> DEFINE n == Cardinality(hits)
<1>5. /\ n \in Nat /\ order \in [1..n -> hits]
      /\ \A i, j \in 1..n : order[i] = order[j] => i = j
  BY <1>3, <1>4, FS_CardinalityType DEF SetToSeqs
<1> HIDE DEF n
<1>6. /\ DOMAIN shown' = 1..n /\ Len(shown') = n
      /\ \A i \in 1..n : shown'[i] = Reminder(w, order[i]) /\ shown'[i].id = order[i]
  <2>1. DOMAIN shown' = 1..n /\ \A i \in 1..n : shown'[i] = Reminder(w, order[i])
    BY <1>3, <1>5
  <2>2. Len(shown') = n
    BY <1>3, <1>5
  <2> QED
    BY <2>1, <2>2 DEF Reminder
<1>7. order \in Injection(1..n, hits) /\ IsFiniteSet(1..n) /\ Cardinality(1..n) = n
  BY <1>5, FS_Interval DEF Injection, IsInjective
<1>8. order \in Surjection(1..n, hits)
  BY <1>4, <1>7, FS_Injection DEF n
<1>9. ids = hits
  <2>1. ids \subseteq hits
    BY <1>5, <1>6
  <2>2. hits \subseteq ids
    BY <1>6, <1>8 DEF Surjection
  <2> QED
    BY <2>1, <2>2
<1>10. Cardinality(hits) = IF Cardinality(found) <= SearchSize THEN Cardinality(found) ELSE SearchSize
  <2>1. Cardinality(hits) <= Cardinality(found)
    BY <1>4, FS_Subset
  <2>2. Cardinality(found) \in Nat /\ SearchSize \in Nat /\ Cardinality(hits) \in Nat
    BY <1>4, FS_CardinalityType, ReminderAssumption
  <2> QED
    BY <1>2, <2>1, <2>2
<1>11. \A i, j \in 1..n : i < j => shown'[i].dueDate <= shown'[j].dueDate
  BY <1>3, <1>6 DEF ByDueDate
<1>12. ASSUME NEW i \in 1..n, filed[order[i]].due = Never
       PROVE  /\ InWindow(w, shown'[i].dueDate)
              /\ \A d \in filed[order[i]].dates : InWindow(w, d) => shown'[i].dueDate <= d
  <2>1. order[i] \in DOMAIN filed /\ Matches(w, order[i])
    BY <1>5
  <2>2. PICK d0 \in filed[order[i]].dates : InWindow(w, d0)
    BY <2>1 DEF Matches
  <2>3. filed[order[i]].dates \in SUBSET Instant
    BY <2>1 DEF FiledTyped
  <2>4. shown'[i].dueDate = Soonest(w, filed[order[i]].dates)
    BY <1>6, <1>12 DEF Reminder
  <2> QED
    BY <2>2, <2>3, <2>4, SoonestIsLeast
<1>13. FiledTyped'
  BY <1>1 DEF FiledTyped
<1>14. {p \in DOMAIN filed : Matches(window, p)}' = found
  BY <1>1 DEF Matches
<1>15. Cardinality(hits) = n
  BY DEF n
<1> HIDE DEF found, ids
<1>16. RemindersExact'
  <2>1. ids \subseteq found /\ Cardinality(ids) = Len(shown')
    BY <1>6, <1>9, <1>15
  <2>2. Len(shown') = IF Cardinality(found) <= SearchSize THEN Cardinality(found) ELSE SearchSize
    BY <1>6, <1>10, <1>15
  <2>3. \A i \in 1..Len(shown') :
          filed'[shown'[i].id].due = Never =>
            /\ InWindow(window', shown'[i].dueDate)
            /\ \A d \in filed'[shown'[i].id].dates :
                 InWindow(window', d) => shown'[i].dueDate <= d
    BY <1>1, <1>6, <1>12
  <2> QED
    BY <1>6, <1>11, <1>14, <2>1, <2>2, <2>3 DEF RemindersExact, ids
<1> QED
  BY <1>13, <1>16 DEF ReminderInv

(* handleReminders: however many documents OpenSearch finds and in         *)
(* whatever order, the list has them all or as many as the search may      *)
(* find, each once and in the order of the dates it shows, and of a        *)
(* document whose key facts name no due date it shows the soonest one in   *)
(* the window.                                                             *)
THEOREM RemindersAreExact == ReminderSpec => []RemindersExact
<1>1. ReminderInit => ReminderInv
  BY DEF ReminderInit, ReminderInv, FiledTyped, RemindersExact
<1>2. ReminderInv /\ [ReminderNext]_reminderVars => ReminderInv'
  <2> SUFFICES ASSUME ReminderInv, [ReminderNext]_reminderVars PROVE ReminderInv'
    OBVIOUS
  <2>1. FiledTyped
    BY DEF ReminderInv
  <2>2. ASSUME NEW w \in [now : Instant, until : Instant], HandleReminders(w) PROVE ReminderInv'
    BY <2>1, <2>2, AnswerStep
  <2>3. ASSUME NEW p \in Folio, NEW dates \in SUBSET Instant, NEW type \in DocType,
               IndexPaper(p, dates, type)
        PROVE  ReminderInv'
    <3>1. /\ upToDate' = FALSE /\ window' = window
          /\ filed' = [q \in DOMAIN filed \cup {p} |->
                         IF q = p THEN [dates |-> dates, docType |-> type, due |-> Never] ELSE filed[q]]
      BY <2>3 DEF IndexPaper
    <3>2. DOMAIN filed' \subseteq Folio /\ \A q \in DOMAIN filed' : filed'[q].dates \subseteq Instant
      BY <2>1, <3>1 DEF FiledTyped
    <3> QED
      BY <2>1, <3>1, <3>2 DEF ReminderInv, FiledTyped, RemindersExact
  <2>4. ASSUME NEW p \in Folio, NEW day \in Instant, SummarizePaper(p, day) PROVE ReminderInv'
    <3>1. /\ upToDate' = FALSE /\ window' = window /\ filed' = [filed EXCEPT ![p].due = day]
      BY <2>4 DEF SummarizePaper
    <3>2. DOMAIN filed' \subseteq Folio /\ \A q \in DOMAIN filed' : filed'[q].dates \subseteq Instant
      BY <2>1, <3>1 DEF FiledTyped
    <3> QED
      BY <2>1, <3>1, <3>2 DEF ReminderInv, FiledTyped, RemindersExact
  <2>5. ASSUME UNCHANGED reminderVars PROVE ReminderInv'
    <3>1. filed' = filed /\ window' = window /\ shown' = shown /\ upToDate' = upToDate
      BY <2>5 DEF reminderVars
    <3> QED
      BY <3>1 DEF ReminderInv, FiledTyped, RemindersExact, Matches
  <2> QED
    BY <2>2, <2>3, <2>4, <2>5 DEF ReminderNext
<1> QED
  BY <1>1, <1>2, PTL DEF ReminderSpec, ReminderInv

-----------------------------------------------------------------------------
(* Insights                                                                *)

LEMMA DaysOfYears ==
  /\ Day \subseteq Nat /\ Year \subseteq Nat /\ Unknown \notin Nat
  /\ \A t \in Nat, y \in Year : (t \div 2 = y) <=> (2 * y <= t /\ t <= 2 * y + 1)
<1>1. Year \subseteq Nat /\ Unknown \notin Nat
  BY InsightAssumption
<1>2. Day \subseteq Nat
  BY <1>1 DEF Day
<1>3. ASSUME NEW t \in Nat, NEW y \in Nat PROVE (t \div 2 = y) <=> (2 * y <= t /\ t <= 2 * y + 1)
  OBVIOUS
<1> QED
  BY <1>1, <1>2, <1>3

(* effectiveDateRange, buildInsightsQuery, insightsAccumulator.add: the    *)
(* range that is searched and the year that is looked at again let through *)
(* what the parameters together want and nothing else, and a range that is *)
(* answered without a search would have found nothing.                     *)
THEOREM FiltersLetThroughWanted ==
  ASSUME NEW paper, paper.date \in Nat \cup {Unknown}, NEW q \in Params
  PROVE  Wanted(paper, q) <=>
           /\ ~Impossible(Effective(q)) /\ InRange(paper, Effective(q))
           /\ ~(paper.amount = Unknown \/ (q.year # Unknown /\ YearOf(paper) # q.year))
<1> DEFINE r == Effective(q)
           d == paper.date
           y == q.year
           f == q.from
           t == q.to
           lo == 2 * y
           hi == 2 * y + 1
<1>1. /\ Day \subseteq Nat /\ Year \subseteq Nat /\ Unknown \notin Nat
      /\ \A e \in Nat, z \in Year : (e \div 2 = z) <=> (2 * z <= e /\ e <= 2 * z + 1)
  BY DaysOfYears
<1>2. /\ y \in Year \cup {Unknown} /\ f \in Day \cup {Unknown} /\ t \in Day \cup {Unknown}
      /\ d \in Nat \cup {Unknown}
  BY DEF Params
<1>3. YearOf(paper) = IF d = Unknown THEN Unknown ELSE d \div 2
  BY DEF YearOf
<1>4. CASE y = Unknown
  <2>1. r.gte = f /\ r.lte = t
    BY <1>4 DEF Effective
  <2> HIDE DEF r, d, y, f, t
  <2>2. \/ Unknown \in {f, t, d}
        \/ f \in Nat /\ t \in Nat /\ d \in Nat
    BY <1>1, <1>2
  <2> QED
    BY <1>1, <1>2, <1>4, <2>1, <2>2 DEF Wanted, Impossible, InRange, r, d, y, f, t
<1>5. CASE y # Unknown
  <2>1. /\ r.gte = IF f = Unknown \/ lo > f THEN lo ELSE f
        /\ r.lte = IF t = Unknown \/ hi < t THEN hi ELSE t
    BY <1>5 DEF Effective, Later, Earlier
  <2>2. y \in Nat /\ y \in Year
    BY <1>1, <1>2, <1>5
  <2>3. lo \in Nat /\ hi \in Nat /\ r.gte \in Nat /\ r.lte \in Nat
    <3>1. (f # Unknown => f \in Nat) /\ (t # Unknown => t \in Nat)
      BY <1>1, <1>2
    <3>2. lo \in Nat /\ hi \in Nat
      <4> HIDE DEF y
      <4> QED
        BY <2>2
    <3> HIDE DEF lo, hi, f, t
    <3> QED
      BY <2>1, <3>1, <3>2
  <2>4. CASE d = Unknown
    <3>1. ~Wanted(paper, q)
      BY <1>1, <1>3, <1>5, <2>2, <2>4 DEF Wanted
    <3>2. ~InRange(paper, r)
      BY <1>1, <2>3, <2>4 DEF InRange
    <3> QED
      BY <3>1, <3>2
  <2>5. CASE d # Unknown
    <3>1. d \in Nat /\ ((YearOf(paper) = y) <=> (lo <= d /\ d <= hi))
      BY <1>1, <1>2, <1>3, <2>2, <2>5
    <3>2. InRange(paper, r) <=> (r.gte <= d /\ d <= r.lte)
      <4>1. r.gte # Unknown /\ r.lte # Unknown
        BY <1>1, <2>3
      <4> HIDE DEF r
      <4>2. (d >= r.gte <=> r.gte <= d) /\ (d <= r.lte <=> d <= r.lte)
        BY <2>3, <3>1
      <4> QED
        BY <2>5, <4>1, <4>2 DEF InRange
    <3>3. /\ (r.gte <= d) <=> (lo <= d /\ (f = Unknown \/ f <= d))
          /\ (d <= r.lte) <=> (d <= hi /\ (t = Unknown \/ d <= t))
      <4>1. (f # Unknown => f \in Nat) /\ (t # Unknown => t \in Nat)
        BY <1>1, <1>2
      <4> HIDE DEF r, f, t, lo, hi
      <4> QED
        BY <2>1, <2>3, <3>1, <4>1
    <3>4. (r.gte <= d /\ d <= r.lte) => ~Impossible(r)
      <4> HIDE DEF r
      <4> QED
        BY <2>3, <3>1 DEF Impossible
    <3>5. Wanted(paper, q) <=>
            /\ paper.amount # Unknown /\ YearOf(paper) = y
            /\ f = Unknown \/ f <= d
            /\ t = Unknown \/ d <= t
      <4>1. (f # Unknown => f \in Nat) /\ (t # Unknown => t \in Nat)
        BY <1>1, <1>2
      <4> QED
        BY <1>5, <2>5, <3>1, <4>1 DEF Wanted
    <3> QED
      BY <1>5, <3>1, <3>2, <3>3, <3>4, <3>5
  <2> QED
    BY <2>4, <2>5
<1> QED
  BY <1>4, <1>5

(* Induction over the first n numbers, for a set of them.                  *)
LEMMA UpTo ==
  ASSUME NEW n \in Nat, NEW Good, 0 \in Good, \A k \in 1..n : k - 1 \in Good => k \in Good
  PROVE  0..n \subseteq Good
<1> DEFINE Bad == {k \in 0..n : k \notin Good}
<1> SUFFICES ASSUME Bad # {} PROVE FALSE
  OBVIOUS
<1>1. Bad \subseteq Nat
  OBVIOUS
<1>2. PICK k \in Bad : \A e \in Bad : k <= e
  <2> HIDE DEF Bad
  <2> QED BY <1>1, LeastOf
<1>3. k \in 1..n /\ k - 1 \in 0..n /\ ~(k <= k - 1)
  BY <1>2
<1>4. k - 1 \notin Bad
  <2> HIDE DEF Bad
  <2> QED BY <1>2, <1>3
<1> QED BY <1>2, <1>3, <1>4

(* The running sum that SumTo is defined by.                               *)
Runs(S, f, n) == S = [k \in 0..n |-> IF k = 0 THEN 0 ELSE S[k - 1] + f[k]]

(* There is one.                                                           *)
LEMMA SumRuns ==
  ASSUME NEW n \in Nat, NEW f PROVE \E S : Runs(S, f, n) /\ SumTo(f, n) = S[n]
<1> DEFINE Good == {k \in 0..n : \E S : Runs(S, f, k)}
<1>1. 0 \in Good
  <2> DEFINE S == [k \in 0..0 |-> 0]
  <2>1. Runs(S, f, 0)
    BY DEF Runs
  <2> QED BY <2>1
<1>2. ASSUME NEW m \in 1..n, m - 1 \in Good PROVE m \in Good
  <2>1. PICK S : Runs(S, f, m - 1)
    BY <1>2
  <2> DEFINE more == [k \in 0..m |-> IF k = m THEN S[m - 1] + f[m] ELSE S[k]]
  <2>2. ASSUME NEW k \in 0..m PROVE more[k] = IF k = 0 THEN 0 ELSE more[k - 1] + f[k]
    <3>1. CASE k = m
      <4>1. m # 0 /\ m - 1 \in 0..m /\ m - 1 # m
        OBVIOUS
      <4> QED BY <3>1, <4>1
    <3>2. CASE k # m
      <4>1. k \in 0..(m - 1) /\ (k # 0 => k - 1 \in 0..m /\ k - 1 # m)
        BY <3>2
      <4>2. S[k] = IF k = 0 THEN 0 ELSE S[k - 1] + f[k]
        BY <2>1, <4>1 DEF Runs
      <4> QED BY <3>2, <4>1, <4>2
    <3> QED BY <3>1, <3>2
  <2>3. more = [k \in 0..m |-> more[k]]
    OBVIOUS
  <2> HIDE DEF more
  <2>4. Runs(more, f, m)
    BY <2>2, <2>3 DEF Runs
  <2>5. m \in 0..n
    OBVIOUS
  <2> QED BY <2>4, <2>5
<1> HIDE DEF Good
<1>3. n \in Good
  <2>1. 0..n \subseteq Good
    BY <1>1, <1>2, UpTo
  <2> QED BY <2>1
<1>4. \E S : S = [k \in 0..n |-> IF k = 0 THEN 0 ELSE S[k - 1] + f[k]]
  BY <1>3 DEF Good, Runs
<1> DEFINE T == CHOOSE S : S = [k \in 0..n |-> IF k = 0 THEN 0 ELSE S[k - 1] + f[k]]
<1>5. SumTo(f, n) = T[n]
  BY DEF SumTo
<1>6. T = [k \in 0..n |-> IF k = 0 THEN 0 ELSE T[k - 1] + f[k]]
  BY <1>4
<1> HIDE DEF T
<1> QED BY <1>5, <1>6 DEF Runs

(* The sum of nothing.                                                     *)
LEMMA SumOfNone ==
  ASSUME NEW n \in Nat PROVE SumTo([i \in 1..n |-> 0], n) = 0
<1> DEFINE f == [i \in 1..n |-> 0]
<1>1. PICK S : Runs(S, f, n) /\ SumTo(f, n) = S[n]
  BY SumRuns
<1> DEFINE Good == {k \in 0..n : S[k] = 0}
<1>2. 0 \in Good
  BY <1>1 DEF Runs
<1>3. ASSUME NEW k \in 1..n, k - 1 \in Good PROVE k \in Good
  <2>1. k \in 0..n /\ k # 0 /\ f[k] = 0
    OBVIOUS
  <2>2. S[k] = S[k - 1] + f[k]
    BY <1>1, <2>1 DEF Runs
  <2> QED BY <1>3, <2>1, <2>2
<1> HIDE DEF Good
<1>4. 0..n \subseteq Good
  BY <1>2, <1>3, UpTo
<1>5. S[n] = 0
  BY <1>4 DEF Good
<1> QED BY <1>1, <1>5

(* A value that is one of the numbers and grows makes the sum grow by as   *)
(* much.                                                                   *)
LEMMA SumGrows ==
  ASSUME NEW n \in Nat, NEW f \in [1..n -> Int], NEW i \in 1..n, NEW a \in Int
  PROVE  SumTo([f EXCEPT ![i] = @ + a], n) = SumTo(f, n) + a
<1> DEFINE g == [f EXCEPT ![i] = f[i] + a]
<1>1. PICK S : Runs(S, f, n) /\ SumTo(f, n) = S[n]
  BY SumRuns
<1>2. PICK T : Runs(T, g, n) /\ SumTo(g, n) = T[n]
  BY SumRuns
<1> DEFINE Good == {k \in 0..n : S[k] \in Int /\ T[k] = S[k] + (IF i <= k THEN a ELSE 0)}
<1>3. 0 \in Good
  <2>1. S[0] = 0 /\ T[0] = 0
    BY <1>1, <1>2 DEF Runs
  <2>2. ~(i <= 0)
    OBVIOUS
  <2> QED BY <2>1, <2>2
<1>4. ASSUME NEW k \in 1..n, k - 1 \in Good PROVE k \in Good
  <2>1. k \in 0..n /\ k # 0 /\ f[k] \in Int /\ f[i] \in Int
    OBVIOUS
  <2>2. S[k] = S[k - 1] + f[k] /\ T[k] = T[k - 1] + g[k]
    BY <1>1, <1>2, <2>1 DEF Runs
  <2>3. S[k - 1] \in Int /\ T[k - 1] = S[k - 1] + (IF i <= k - 1 THEN a ELSE 0)
    BY <1>4
  <2>4. g[k] = IF k = i THEN f[k] + a ELSE f[k]
    OBVIOUS
  <2>5. S[k] \in Int /\ T[k] = S[k] + (IF i <= k THEN a ELSE 0)
    <3> HIDE DEF g, Good
    <3>1. CASE k = i
      <4>1. ~(i <= k - 1) /\ i <= k
        BY <3>1
      <4> QED BY <2>1, <2>2, <2>3, <2>4, <3>1, <4>1
    <3>2. CASE k # i
      <4>1. i <= k - 1 <=> i <= k
        BY <3>2
      <4> QED BY <2>1, <2>2, <2>3, <2>4, <3>2, <4>1
    <3> QED BY <3>1, <3>2
  <2> QED BY <2>1, <2>5
<1> HIDE DEF Good
<1>5. 0..n \subseteq Good
  BY <1>3, <1>4, UpTo
<1>6. S[n] \in Int /\ T[n] = S[n] + a
  <2>1. n \in Good /\ i <= n
    BY <1>5
  <2> QED BY <2>1 DEF Good
<1> QED BY <1>1, <1>2, <1>6

(* A bucket over no documents.                                             *)
LEMMA EmptyBucket ==
  ASSUME NEW s \in Seq(Paper) PROVE BucketOver(s, {}) = [total |-> 0, count |-> 0]
<1>1. Len(s) \in Nat /\ DOMAIN s = 1..Len(s)
  OBVIOUS
<1>2. [i \in DOMAIN s |-> IF i \in {} THEN s[i].amount ELSE 0] = [i \in 1..Len(s) |-> 0]
  BY <1>1
<1> QED BY <1>1, <1>2, SumOfNone, FS_EmptySet DEF BucketOver

(* A document more.                                                        *)
LEMMA BucketGrows ==
  ASSUME NEW s \in Seq(Paper), NEW places \in SUBSET DOMAIN s, NEW i \in DOMAIN s \ places,
         \A j \in places \cup {i} : s[j].amount \in Int
  PROVE  BucketOver(s, places \cup {i})
           = [total |-> BucketOver(s, places).total + s[i].amount,
              count |-> BucketOver(s, places).count + 1]
<1> DEFINE n == Len(s)
           f == [j \in 1..n |-> IF j \in places THEN s[j].amount ELSE 0]
           g == [j \in 1..n |-> IF j \in places \cup {i} THEN s[j].amount ELSE 0]
<1>1. n \in Nat /\ DOMAIN s = 1..n /\ i \in 1..n /\ i \notin places
  OBVIOUS
<1>2. f \in [1..n -> Int] /\ s[i].amount \in Int
  BY <1>1
<1>3. g = [f EXCEPT ![i] = @ + s[i].amount]
  <2>1. f[i] = 0 /\ g[i] = s[i].amount /\ 0 + s[i].amount = s[i].amount
    BY <1>1, <1>2
  <2>2. \A j \in 1..n : j # i => g[j] = f[j]
    OBVIOUS
  <2>3. f = [j \in 1..n |-> f[j]] /\ g = [j \in 1..n |-> g[j]]
    OBVIOUS
  <2> HIDE DEF f, g
  <2> QED BY <1>1, <2>1, <2>2, <2>3
<1>4. SumTo(g, n) = SumTo(f, n) + s[i].amount
  <2> HIDE DEF f, g, n
  <2> QED BY <1>1, <1>2, <1>3, SumGrows
<1>5. IsFiniteSet(places)
  <2>1. IsFiniteSet(1..n) /\ places \subseteq 1..n
    BY <1>1, FS_Interval
  <2> HIDE DEF n
  <2> QED BY <2>1, FS_Subset
<1>6. Cardinality(places \cup {i}) = Cardinality(places) + 1
  BY <1>1, <1>5, FS_AddElement
<1>7. /\ BucketOver(s, places) = [total |-> SumTo(f, n), count |-> Cardinality(places)]
      /\ BucketOver(s, places \cup {i}) = [total |-> SumTo(g, n), count |-> Cardinality(places \cup {i})]
  BY <1>1 DEF BucketOver
<1> HIDE DEF f, g, n
<1>8. BucketOver(s, places).total = SumTo(f, n) /\ BucketOver(s, places).count = Cardinality(places)
  BY <1>7
<1> QED BY <1>4, <1>6, <1>7, <1>8

(* The places up to m of what q wants under a name.                        *)
WantedBy(s, q, m, d, n) == {i \in 1..m : Wanted(s[i], q) /\ NameIn(d, s[i]) = n}

InsightTyped ==
  /\ papers \in Seq(Paper) /\ asked \in Seq(Paper)
  /\ ask \in Params \cup {Unknown} /\ answered \in BOOLEAN
  /\ drained \in 0..Len(asked)
  /\ ask = Unknown => asked = <<>> /\ ~answered /\ sums = NoSums

(* The buckets say what they have to of the places that were passed.       *)
Partial ==
  /\ sums \in [Dimension -> [Name -> {BucketOver(asked, W) : W \in SUBSET (DOMAIN asked)}]]
  /\ \A d \in Dimension, n \in Name :
       sums[d][n] = BucketOver(asked, WantedBy(asked, ask, drained, d, n))

(* Why the answer is exact: the buckets are partial sums all along, no hit *)
(* is passed by, and the walk ends when there is none left.                *)
InsightInv ==
  /\ InsightTyped /\ Partial
  /\ ask # Unknown =>
       IF answered THEN Impossible(Effective(ask)) \/ Unread = {} ELSE ~Impossible(Effective(ask))

(* What q wants is found.                                                  *)
LEMMA WantedIsFound ==
  ASSUME NEW x \in Paper, NEW q \in Params
  PROVE  /\ x.amount \in Int \cup {Unknown} /\ Unknown \notin Int
         /\ Wanted(x, q) => x.amount \in Int
         /\ Wanted(x, q) <=>
              /\ ~Impossible(Effective(q)) /\ InRange(x, Effective(q))
              /\ ~(x.amount = Unknown \/ (q.year # Unknown /\ YearOf(x) # q.year))
<1>1. x.amount \in Int \cup {Unknown} /\ x.date \in Nat \cup {Unknown} /\ Unknown \notin Int
  BY InsightAssumption
<1>2. Wanted(x, q) => x.amount # Unknown
  BY DEF Wanted
<1> QED BY <1>1, <1>2, FiltersLetThroughWanted

(* Before the walk nothing is added up.                                    *)
LEMMA NothingAdded ==
  /\ \A s \in Seq(Paper) : \A q : \A d \in Dimension, n \in Name :
       NoSums[d][n] = BucketOver(s, WantedBy(s, q, 0, d, n))
  /\ \A s \in Seq(Paper) :
       NoSums \in [Dimension -> [Name -> {BucketOver(s, W) : W \in SUBSET (DOMAIN s)}]]
<1>1. \A s, q, d, n : WantedBy(s, q, 0, d, n) = {}
  BY DEF WantedBy
<1>2. \A d \in Dimension, n \in Name : NoSums[d][n] = [total |-> 0, count |-> 0]
  BY DEF NoSums
<1>3. ASSUME NEW s \in Seq(Paper)
      PROVE  NoSums \in [Dimension -> [Name -> {BucketOver(s, W) : W \in SUBSET (DOMAIN s)}]]
  <2>1. [total |-> 0, count |-> 0] \in {BucketOver(s, W) : W \in SUBSET (DOMAIN s)}
    BY EmptyBucket
  <2> QED BY <2>1 DEF NoSums
<1> QED BY <1>1, <1>2, <1>3, EmptyBucket

LEMMA InsightInvInit == InsightInit => InsightInv
<1> SUFFICES ASSUME InsightInit PROVE InsightInv
  OBVIOUS
<1>1. InsightTyped
  <2>1. 0 \in 0..Len(<<>>) /\ <<>> \in Seq(Paper)
    OBVIOUS
  <2>2. papers = <<>> /\ asked = <<>> /\ drained = 0 /\ ask = Unknown /\ answered = FALSE /\ sums = NoSums
    BY DEF InsightInit
  <2> QED BY <2>1, <2>2 DEF InsightTyped
<1>2. asked \in Seq(Paper) /\ sums = NoSums /\ drained = 0
  BY DEF InsightInit
<1>3. Partial
  BY <1>2, NothingAdded DEF Partial
<1> QED BY <1>1, <1>3 DEF InsightInv, InsightInit

(* One hit: what was passed by on the way to it is not wanted.             *)
LEMMA DrainStep == ASSUME InsightInv, NEW i \in DOMAIN asked, DrainHit(i) PROVE InsightInv'
<1> DEFINE x == asked[i]
           W(m, d, n) == WantedBy(asked, ask, m, d, n)
<1>1. /\ papers' = papers /\ ask' = ask /\ asked' = asked /\ answered' = answered /\ drained' = i
      /\ ask # Unknown /\ answered = FALSE /\ sums' = Add(sums, x, ask.year)
      /\ i \in Unread /\ \A j \in Unread : i <= j
  BY DEF DrainHit, InsightInv, InsightTyped
<1>2. /\ asked \in Seq(Paper) /\ ask \in Params /\ drained \in 0..Len(asked)
      /\ Len(asked) \in Nat /\ i \in 1..Len(asked) /\ drained < i /\ x \in Paper
      /\ InRange(x, Effective(ask)) /\ ~Impossible(Effective(ask))
  <2>1. asked \in Seq(Paper) /\ ask \in Params /\ drained \in 0..Len(asked) /\ ~Impossible(Effective(ask))
    BY <1>1 DEF InsightInv, InsightTyped
  <2>2. Len(asked) \in Nat /\ i \in 1..Len(asked) /\ x \in Paper
    BY <2>1
  <2>3. i \in (drained + 1)..Len(asked) /\ InRange(x, Effective(ask))
    BY <1>1 DEF Unread
  <2> QED BY <2>1, <2>2, <2>3
<1>3. ASSUME NEW j \in (drained + 1)..(i - 1) PROVE ~Wanted(asked[j], ask)
  <2>1. j \in (drained + 1)..Len(asked) /\ j \in DOMAIN asked /\ ~(i <= j)
    BY <1>2
  <2>2. ~InRange(asked[j], Effective(ask))
    BY <1>1, <2>1 DEF Unread
  <2>3. asked[j] \in Paper
    BY <1>2, <2>1
  <2> QED BY <1>2, <2>2, <2>3, WantedIsFound
<1>4. ASSUME NEW d, NEW n
      PROVE  /\ W(drained, d, n) \in SUBSET DOMAIN asked /\ i \notin W(drained, d, n)
             /\ \A j \in W(drained, d, n) : asked[j].amount \in Int
             /\ W(i, d, n) = IF Wanted(x, ask) /\ NameIn(d, x) = n THEN W(drained, d, n) \cup {i}
                             ELSE W(drained, d, n)
  <2>1. W(drained, d, n) \in SUBSET DOMAIN asked /\ i \notin W(drained, d, n)
    BY <1>2 DEF WantedBy
  <2>2. \A j \in W(drained, d, n) : asked[j].amount \in Int
    <3> SUFFICES ASSUME NEW j \in W(drained, d, n) PROVE asked[j].amount \in Int
      OBVIOUS
    <3>1. Wanted(asked[j], ask) /\ asked[j] \in Paper
      BY <1>2, <2>1 DEF WantedBy
    <3> QED BY <1>2, <3>1, WantedIsFound
  <2>3. \A j \in 1..i : j \in 1..drained \/ j \in (drained + 1)..(i - 1) \/ j = i
    BY <1>2
  <2>4. \A j \in 1..drained : j \in 1..i
    BY <1>2
  <2> QED BY <1>2, <1>3, <2>1, <2>2, <2>3, <2>4 DEF WantedBy
<1>5. CASE ~Wanted(x, ask)
  <2>1. sums' = sums
    <3>1. x.amount = Unknown \/ (ask.year # Unknown /\ YearOf(x) # ask.year)
      BY <1>2, <1>5, WantedIsFound
    <3> QED BY <1>1, <3>1 DEF Add
  <2>2. \A d \in Dimension, n \in Name : sums'[d][n] = BucketOver(asked, W(i, d, n))
    BY <1>4, <1>5, <2>1 DEF InsightInv, Partial
  <2>3. Partial'
    BY <1>1, <2>1, <2>2 DEF InsightInv, Partial
  <2>4. InsightTyped'
    BY <1>1, <1>2 DEF InsightInv, InsightTyped
  <2> QED BY <1>1, <1>2, <2>3, <2>4 DEF InsightInv
<1>6. CASE Wanted(x, ask)
  <2> DEFINE More(d) == [sums[d] EXCEPT ![NameIn(d, x)] = [total |-> @.total + x.amount, count |-> @.count + 1]]
  <2>1. sums' = [d \in Dimension |-> More(d)]
    <3>1. ~(x.amount = Unknown \/ (ask.year # Unknown /\ YearOf(x) # ask.year))
      BY <1>2, <1>6, WantedIsFound
    <3> QED BY <1>1, <3>1 DEF Add
  <2>2. ASSUME NEW d \in Dimension, NEW n \in Name
        PROVE  /\ sums'[d][n] = BucketOver(asked, W(i, d, n))
               /\ W(i, d, n) \in SUBSET DOMAIN asked
    <3>1. sums[d][n] = BucketOver(asked, W(drained, d, n)) /\ DOMAIN sums[d] = Name
      BY DEF InsightInv, Partial
    <3>2. CASE NameIn(d, x) = n
      <4>1. sums'[d][n] = [total |-> sums[d][n].total + x.amount, count |-> sums[d][n].count + 1]
        BY <2>1, <3>1, <3>2
      <4>2. x.amount \in Int
        BY <1>2, <1>6, WantedIsFound
      <4>3. W(i, d, n) = W(drained, d, n) \cup {i}
        BY <1>4, <1>6, <3>2
      <4> DEFINE old == W(drained, d, n)
      <4>4. old \in SUBSET DOMAIN asked /\ i \in DOMAIN asked \ old /\ \A j \in old \cup {i} : asked[j].amount \in Int
        BY <1>2, <1>4, <4>2
      <4> HIDE DEF old
      <4>5. BucketOver(asked, old \cup {i})
              = [total |-> BucketOver(asked, old).total + x.amount, count |-> BucketOver(asked, old).count + 1]
        BY <1>2, <4>4, BucketGrows
      <4> QED BY <1>4, <3>1, <4>1, <4>3, <4>4, <4>5 DEF old
    <3>3. CASE NameIn(d, x) # n
      <4>1. sums'[d][n] = sums[d][n]
        BY <2>1, <3>1, <3>3
      <4> QED BY <1>4, <3>1, <3>3, <4>1
    <3> QED BY <3>2, <3>3
  <2>3. Partial'
    <3>1. \A d \in Dimension : sums'[d] \in [Name -> {BucketOver(asked, S) : S \in SUBSET (DOMAIN asked)}]
      <4> SUFFICES ASSUME NEW d \in Dimension
                   PROVE  sums'[d] \in [Name -> {BucketOver(asked, S) : S \in SUBSET (DOMAIN asked)}]
        OBVIOUS
      <4>1. DOMAIN sums[d] = Name /\ sums'[d] = More(d)
        BY <2>1 DEF InsightInv, Partial
      <4>2. sums'[d] = [n \in Name |-> sums'[d][n]]
        BY <4>1
      <4> QED BY <2>2, <4>2
    <3>2. sums' = [d \in Dimension |-> sums'[d]]
      BY <2>1
    <3>3. sums' \in [Dimension -> [Name -> {BucketOver(asked, S) : S \in SUBSET (DOMAIN asked)}]]
      BY <3>1, <3>2
    <3> QED BY <1>1, <2>2, <3>3 DEF Partial
  <2>4. InsightTyped'
    BY <1>1, <1>2 DEF InsightInv, InsightTyped
  <2> QED BY <1>1, <1>2, <2>3, <2>4 DEF InsightInv
<1> QED BY <1>5, <1>6

LEMMA InsightInvStep == ASSUME InsightInv, [InsightNext]_insightVars PROVE InsightInv'
<1>1. ASSUME NEW q \in Params, AskInsights(q) PROVE InsightInv'
  <2>1. /\ papers \in Seq(Paper) /\ ask = Unknown /\ ask' = q /\ asked' = papers /\ papers' = papers
        /\ answered' = Impossible(Effective(q)) /\ drained' = drained /\ sums' = sums
        /\ Unknown \notin Params
    BY <1>1, InsightAssumption DEF AskInsights, InsightInv, InsightTyped
  <2>2. drained = 0 /\ asked = <<>>
    BY <2>1 DEF InsightInv, InsightTyped
  <2>3. sums = NoSums
    BY <2>1 DEF InsightInv, InsightTyped
  <2>4. InsightTyped'
    BY <2>1, <2>2 DEF InsightTyped, Impossible
  <2>5. Partial'
    BY <2>1, <2>2, <2>3, NothingAdded DEF Partial
  <2> QED BY <2>1, <2>4, <2>5 DEF InsightInv
<1>2. ASSUME NEW i \in DOMAIN asked, DrainHit(i) PROVE InsightInv'
  BY <1>2, DrainStep
<1>3. CASE ScrollInsights
  <2>1. /\ UNCHANGED <<papers, ask, asked, drained, sums>> /\ answered' = (Unread = {}) /\ answered' \in BOOLEAN
        /\ answered = FALSE /\ ask # Unknown
    BY <1>3 DEF ScrollInsights, InsightInv, InsightTyped
  <2>2. InsightTyped'
    BY <2>1 DEF InsightInv, InsightTyped
  <2>3. Partial' /\ Unread' = Unread
    BY <2>1 DEF InsightInv, Partial, Unread
  <2> QED BY <2>1, <2>2, <2>3 DEF InsightInv
<1>4. CASE EndInsights
  <2>1. papers' = papers /\ ask' = Unknown /\ asked' = <<>> /\ answered' = FALSE /\ drained' = 0 /\ sums' = NoSums
    BY <1>4 DEF EndInsights
  <2>2. InsightTyped'
    <3>1. 0 \in 0..Len(<<>>) /\ <<>> \in Seq(Paper)
      OBVIOUS
    <3> QED BY <2>1, <3>1 DEF InsightInv, InsightTyped
  <2>3. Partial'
    <3>1. asked' \in Seq(Paper)
      BY <2>1
    <3> QED BY <2>1, <3>1, NothingAdded DEF Partial
  <2> QED BY <2>1, <2>2, <2>3 DEF InsightInv
<1>5. CASE ChangeIndex
  <2>1. UNCHANGED <<ask, asked, drained, sums, answered>>
    BY <1>5 DEF ChangeIndex
  <2>2. papers' \in Seq(Paper)
    <3>1. papers \in Seq(Paper)
      BY DEF InsightInv, InsightTyped
    <3>2. ASSUME NEW p \in Paper, papers' = Append(papers, p) PROVE papers' \in Seq(Paper)
      BY <3>1, <3>2
    <3>3. ASSUME NEW i \in DOMAIN papers, papers' = RemoveAt(papers, i) PROVE papers' \in Seq(Paper)
      BY <3>1, <3>3 DEF RemoveAt
    <3> QED BY <1>5, <3>2, <3>3 DEF ChangeIndex
  <2>3. InsightTyped'
    BY <2>1, <2>2 DEF InsightInv, InsightTyped
  <2>4. Partial' /\ Unread' = Unread
    BY <2>1 DEF InsightInv, Partial, Unread
  <2> QED BY <2>1, <2>3, <2>4 DEF InsightInv
<1>6. CASE UNCHANGED insightVars
  <2>1. UNCHANGED <<papers, ask, asked, drained, sums, answered>>
    BY <1>6 DEF insightVars
  <2> QED BY <2>1 DEF InsightInv, InsightTyped, Partial, Unread
<1> QED BY <1>1, <1>2, <1>3, <1>4, <1>5, <1>6 DEF InsightNext

(* InsightsExact: each bucket of an answer is the sum and the count of the *)
(* documents that the index had when it was asked and that the parameters  *)
(* together want, however many pages the walk had.                         *)
THEOREM InsightsAreExact == InsightSpec => []InsightsExact
<1>1. ASSUME InsightInv, answered PROVE InsightsExact
  <2>1. asked \in Seq(Paper) /\ ask \in Params /\ drained \in 0..Len(asked) /\ Len(asked) \in Nat
    BY <1>1 DEF InsightInv, InsightTyped
  <2>2. Impossible(Effective(ask)) \/ Unread = {}
    BY <1>1, <2>1, InsightAssumption DEF InsightInv
  <2>3. ASSUME NEW i \in DOMAIN asked, i \notin 1..drained PROVE ~Wanted(asked[i], ask)
    <3>1. asked[i] \in Paper /\ i \in (drained + 1)..Len(asked)
      BY <2>1, <2>3
    <3>2. Impossible(Effective(ask)) \/ ~InRange(asked[i], Effective(ask))
      BY <2>2, <3>1 DEF Unread
    <3> QED BY <2>1, <3>1, <3>2, WantedIsFound
  <2>4. \A j \in 1..drained : j \in DOMAIN asked
    BY <2>1
  <2> SUFFICES ASSUME NEW d \in Dimension, NEW n \in Name
               PROVE  sums[d][n] = BucketOver(asked, {i \in DOMAIN asked :
                                     Wanted(asked[i], ask) /\ NameIn(d, asked[i]) = n})
    BY DEF InsightsExact
  <2> DEFINE all == {i \in DOMAIN asked : Wanted(asked[i], ask) /\ NameIn(d, asked[i]) = n}
  <2>5. all = WantedBy(asked, ask, drained, d, n)
    BY <2>3, <2>4 DEF WantedBy
  <2>6. sums[d][n] = BucketOver(asked, WantedBy(asked, ask, drained, d, n))
    BY <1>1 DEF InsightInv, Partial
  <2> HIDE DEF all
  <2>7. sums[d][n] = BucketOver(asked, all)
    BY <2>5, <2>6
  <2> QED BY <2>7 DEF all
<1>2. InsightInv => InsightsExact
  <2>1. CASE answered
    BY <1>1, <2>1
  <2>2. CASE ~answered
    BY <2>2 DEF InsightsExact
  <2> QED BY <2>1, <2>2
<1>3. InsightInv /\ [InsightNext]_insightVars => InsightInv'
  BY InsightInvStep
<1> QED BY <1>2, <1>3, InsightInvInit, PTL DEF InsightSpec
=============================================================================
