---------------------------- MODULE SharesProofs ----------------------------
(***************************************************************************)
(* Theorems about Shares, for every set of tokens and requests, every      *)
(* limit and every expiry.  Only the scripted update decides: what a       *)
(* request has loaded and checked before it plays no part in the           *)
(* invariants below.                                                       *)
(***************************************************************************)
EXTENDS Shares, FiniteSetTheorems, TLAPS

(* What a request loads is a record.                                       *)
LEMMA Records ==
  /\ NoRecord \in Record
  /\ \A b \in BOOLEAN, n \in Nat : [revoked |-> b, viewCount |-> n] \in Record
BY DEF NoRecord, Record

(* Shares is type correct.                                                 *)
THEOREM TypeCorrect == Spec => []TypeOK
<1>1. ASSUME Init PROVE TypeOK
  <2>1. DatabaseOK
    BY <1>1, SharesAssumption DEF Init, DatabaseOK
  <2>2. RequestsOK
    BY <1>1, SharesAssumption, Records DEF Init, RequestsOK, BeforeView
  <2> QED BY <2>1, <2>2 DEF TypeOK
<1>2. ASSUME TypeOK, [Next]_vars PROVE DatabaseOK'
  <2> USE <1>2, SharesAssumption DEF TypeOK, DatabaseOK
  <2>1. ASSUME NEW s \in Share, Create(s) PROVE DatabaseOK'
    <3>1. CASE EnsureIndex(s)
      BY <3>1 DEF EnsureIndex, database
    <3>2. CASE CreateIndex(s)
      BY <3>2 DEF CreateIndex
    <3>3. CASE StoreRecord(s)
      BY <3>3 DEF StoreRecord
    <3> QED BY <2>1, <3>1, <3>2, <3>3 DEF Create
  <2>2. ASSUME NEW s \in Share, Revoke(s) PROVE DatabaseOK'
    BY <2>2 DEF Revoke, CloseShare, Waiting, requests
  <2>3. ASSUME NEW r \in Request, Serve(r) PROVE DatabaseOK'
    BY <2>3 DEF Serve, Start, Load, Check, Stamp, Reserve, ReserveAgain, TakeView, Deliver, database,
                  RequestsOK, BeforeView
  <2>4. CASE Tick
    BY <2>4 DEF Tick, database
  <2>5. CASE UNCHANGED vars
    BY <2>5 DEF vars, database
  <2> QED BY <2>1, <2>2, <2>3, <2>4, <2>5 DEF Next
<1>3. ASSUME TypeOK, [Next]_vars PROVE RequestsOK'
  <2> USE <1>3, SharesAssumption DEF TypeOK, RequestsOK, BeforeView
  <2>1. ASSUME NEW s \in Share, Create(s) \/ Revoke(s) PROVE RequestsOK'
    BY <2>1 DEF Create, EnsureIndex, CreateIndex, StoreRecord, Revoke, requests
  <2>2. ASSUME NEW r \in Request, NEW s \in Share, Start(r, s) PROVE RequestsOK'
    BY <2>2 DEF Start
  <2>3. ASSUME NEW r \in Request, Load(r) PROVE RequestsOK'
    <3>1. ASSUME share[r] \in stored PROVE [revoked |-> share[r] \in revoked, viewCount |-> views[share[r]]] \in Record
      <4>1. views[share[r]] \in Nat /\ (share[r] \in revoked) \in BOOLEAN
        BY <3>1 DEF DatabaseOK
      <4> QED BY <4>1, Records
    <3> QED BY <2>3, <3>1 DEF Load, Goto, Answer
  <2>4. ASSUME NEW r \in Request, Check(r) PROVE RequestsOK'
    BY <2>4 DEF Check, Goto, Answer, DatabaseOK
  <2>5. ASSUME NEW r \in Request, Stamp(r) PROVE RequestsOK'
    BY <2>5 DEF Stamp, ReadClock, Goto, DatabaseOK
  <2>6. ASSUME NEW r \in Request, Reserve(r) \/ ReserveAgain(r) PROVE RequestsOK'
    BY <2>6 DEF Reserve, ReserveAgain, Goto, Answer
  <2>7. ASSUME NEW r \in Request, Deliver(r) PROVE RequestsOK'
    BY <2>7 DEF Deliver, Answer
  <2>8. CASE Tick
    BY <2>8 DEF Tick, requests
  <2>9. CASE UNCHANGED vars
    BY <2>9 DEF vars, requests
  <2> QED
    BY <2>1, <2>2, <2>3, <2>4, <2>5, <2>6, <2>7, <2>8, <2>9 DEF Next, Serve
<1>4. TypeOK /\ [Next]_vars => TypeOK'
  BY <1>2, <1>3 DEF TypeOK
<1> QED BY <1>1, <1>4, PTL DEF Spec

-----------------------------------------------------------------------------
(* Why a revocation bars: who had no view when the share was revoked still *)
(* has none, and the record still says revoked.                            *)
BarInv ==
  \A r \in barred :
    /\ share[r] \in revoked
    /\ at[r] # "deliver" /\ answer[r] \notin {"page", "failed"}

(* RevocationBars: a request without a view when its share is revoked      *)
(* never delivers the page.                                                *)
THEOREM RevocationHolds == Spec => []RevocationBars
<1>1. ASSUME Init PROVE BarInv
  BY <1>1 DEF Init, BarInv
<1>2. ASSUME TypeOK, TypeOK', BarInv, [Next]_vars PROVE BarInv'
  <2> USE <1>2, SharesAssumption DEF TypeOK, DatabaseOK, RequestsOK, BeforeView, BarInv
  <2>1. ASSUME NEW s \in Share, Create(s) PROVE BarInv'
    BY <2>1 DEF Create, EnsureIndex, CreateIndex, StoreRecord, database, requests
  <2>2. ASSUME NEW s \in Share, Revoke(s) PROVE BarInv'
    BY <2>2 DEF Revoke, CloseShare, Waiting, requests
  <2>3. ASSUME NEW r \in Request, NEW s \in Share, Start(r, s) PROVE BarInv'
    BY <2>3 DEF Start, database
  <2>4. ASSUME NEW r \in Request, Load(r) \/ Check(r) PROVE BarInv'
    BY <2>4 DEF Load, Check, Goto, Answer, database
  <2>5. ASSUME NEW r \in Request, Stamp(r) PROVE BarInv'
    BY <2>5 DEF Stamp, Goto, database
  <2>6. ASSUME NEW r \in Request, Reserve(r) \/ ReserveAgain(r) PROVE BarInv'
    BY <2>6 DEF Reserve, ReserveAgain, TakeView, Noop, Goto, Answer
  <2>7. ASSUME NEW r \in Request, Deliver(r) PROVE BarInv'
    BY <2>7 DEF Deliver, Answer, database
  <2>8. CASE Tick
    BY <2>8 DEF Tick, database, requests
  <2>9. CASE UNCHANGED vars
    BY <2>9 DEF vars, database, requests
  <2> QED
    BY <2>1, <2>2, <2>3, <2>4, <2>5, <2>6, <2>7, <2>8, <2>9 DEF Next, Serve
<1>3. BarInv => RevocationBars
  BY DEF BarInv, RevocationBars
<1> QED BY <1>1, <1>2, <1>3, TypeCorrect, PTL DEF Spec

-----------------------------------------------------------------------------
(* Why expiry bars: the time sent with the script is that of the moment    *)
(* the passphrase was accepted, and the script compares it.                *)
ExpiryInv ==
  \A r \in Request :
    /\ at[r] = "reserve" => params[r] = unlocked[r]
    /\ at[r] = "deliver" \/ answer[r] \in {"page", "failed"} => unlocked[r] < ExpiresAt[share[r]]

(* The invariant holds at first and every step keeps it.                   *)
LEMMA ExpiryInvInductive ==
  /\ Init => ExpiryInv
  /\ TypeOK /\ TypeOK' /\ ExpiryInv /\ [Next]_vars => ExpiryInv'
<1>1. ASSUME Init PROVE ExpiryInv
  BY <1>1 DEF Init, ExpiryInv
<1>2. ASSUME TypeOK, TypeOK', ExpiryInv, [Next]_vars PROVE ExpiryInv'
  <2> USE <1>2, SharesAssumption DEF TypeOK, DatabaseOK, RequestsOK, BeforeView, ExpiryInv
  <2>1. ASSUME NEW s \in Share, Create(s) \/ Revoke(s) PROVE ExpiryInv'
    BY <2>1 DEF Create, EnsureIndex, CreateIndex, StoreRecord, Revoke, database, requests
  <2>2. ASSUME NEW r \in Request, NEW s \in Share, Start(r, s) PROVE ExpiryInv'
    BY <2>2 DEF Start, database
  <2>3. ASSUME NEW r \in Request, Load(r) \/ Check(r) PROVE ExpiryInv'
    BY <2>3 DEF Load, Check, Goto, Answer, database
  <2>4. ASSUME NEW r \in Request, Stamp(r) PROVE ExpiryInv'
    BY <2>4 DEF Stamp, ReadClock, Goto, database
  <2>5. ASSUME NEW r \in Request, Reserve(r) \/ ReserveAgain(r) PROVE ExpiryInv'
    <3>1. share[r] \in Share /\ ExpiresAt[share[r]] \in Nat /\ params[r] \in Nat
      BY <2>5 DEF Reserve, ReserveAgain
    <3> QED BY <2>5, <3>1 DEF Reserve, ReserveAgain, TakeView, Noop, Goto, Answer
  <2>6. ASSUME NEW r \in Request, Deliver(r) PROVE ExpiryInv'
    BY <2>6 DEF Deliver, Answer, database
  <2>7. CASE Tick
    BY <2>7 DEF Tick, database, requests
  <2>8. CASE UNCHANGED vars
    BY <2>8 DEF vars, database, requests
  <2> QED BY <2>1, <2>2, <2>3, <2>4, <2>5, <2>6, <2>7, <2>8 DEF Next, Serve
<1> QED BY <1>1, <1>2

(* ExpiryBars: a delivered page was asked for before the share expired.    *)
THEOREM ExpiryHolds == Spec => []ExpiryBars
<1>1. ExpiryInv => ExpiryBars
  BY DEF ExpiryInv, ExpiryBars, Granted
<1> QED BY <1>1, ExpiryInvInductive, TypeCorrect, PTL DEF Spec

-----------------------------------------------------------------------------
(* The requests that may show the page of a share are finitely many.       *)
LEMMA GrantedFinite ==
  ASSUME NEW s
  PROVE  /\ IsFiniteSet(Granted(s)) /\ Cardinality(Granted(s)) \in Nat
         /\ IsFiniteSet(Granted(s)') /\ Cardinality(Granted(s)') \in Nat
<1>1. Granted(s) \subseteq Request /\ Granted(s)' \subseteq Request
  BY DEF Granted
<1> QED BY <1>1, SharesAssumption, FS_Subset, FS_CardinalityType

(* A step that grants nothing new and leaves the counts alone keeps        *)
(* ViewsCounted.                                                           *)
LEMMA NothingGranted ==
  ASSUME TypeOK, ViewsCounted, views' = views,
         \A s \in Share : Granted(s)' \subseteq Granted(s)
  PROVE  ViewsCounted'
<1> SUFFICES ASSUME NEW s \in Share
             PROVE  /\ Cardinality(Granted(s)') <= views[s]
                    /\ MaxViews[s] > 0 => views[s] <= MaxViews[s]
  BY DEF ViewsCounted
<1>1. Cardinality(Granted(s)') <= Cardinality(Granted(s))
  BY GrantedFinite, FS_Subset
<1> QED
  BY <1>1, GrantedFinite DEF ViewsCounted, TypeOK, DatabaseOK

(* ViewsCounted: pages are delivered only for counted views, at most       *)
(* maxViews of them.                                                       *)
THEOREM ViewsHold == Spec => []ViewsCounted
<1>1. ASSUME Init PROVE ViewsCounted
  <2> SUFFICES ASSUME NEW s \in Share
               PROVE  /\ Cardinality(Granted(s)) <= views[s]
                      /\ MaxViews[s] > 0 => views[s] <= MaxViews[s]
    BY DEF ViewsCounted
  <2>1. Granted(s) = {}
    BY <1>1 DEF Init, Granted
  <2>2. views[s] = 0 /\ MaxViews[s] \in Nat
    BY <1>1, SharesAssumption DEF Init
  <2> QED BY <2>1, <2>2, FS_EmptySet
<1>2. ASSUME TypeOK, TypeOK', ViewsCounted, [Next]_vars PROVE ViewsCounted'
  <2> USE <1>2 DEF TypeOK, RequestsOK, BeforeView
  <2>1. ASSUME views' = views, \A s \in Share : Granted(s)' \subseteq Granted(s)
        PROVE  ViewsCounted'
    BY <2>1, NothingGranted DEF TypeOK
  <2>2. ASSUME NEW s \in Share, Create(s) PROVE ViewsCounted'
    BY <2>1, <2>2 DEF Create, EnsureIndex, CreateIndex, StoreRecord, database, requests, Granted
  <2>3. ASSUME NEW s \in Share, Revoke(s) PROVE ViewsCounted'
    BY <2>1, <2>3 DEF Revoke, CloseShare, requests, Granted
  <2>4. ASSUME NEW r \in Request, NEW s \in Share, Start(r, s) PROVE ViewsCounted'
    <3>1. \A t \in Share : Granted(t)' \subseteq Granted(t)
      BY <2>4, SharesAssumption DEF Start, Granted
    <3> QED BY <2>1, <2>4, <3>1 DEF Start, database
  <2>5. ASSUME NEW r \in Request, Load(r) \/ Check(r) \/ Stamp(r) PROVE ViewsCounted'
    <3>1. \A t \in Share : Granted(t)' \subseteq Granted(t)
      BY <2>5 DEF Load, Check, Stamp, Goto, Answer, Granted
    <3> QED BY <2>1, <2>5, <3>1 DEF Load, Check, Stamp, database
  <2>6. ASSUME NEW r \in Request, Reserve(r), views' = views PROVE ViewsCounted'
    <3>1. ~TakeView(r)
      BY <2>6 DEF Reserve, TakeView, DatabaseOK
    <3>2. \A t \in Share : Granted(t)' \subseteq Granted(t)
      BY <2>6, <3>1 DEF Reserve, Answer, Granted
    <3> QED BY <2>1, <2>6, <3>2
  <2>7. ASSUME NEW r \in Request, (Reserve(r) /\ views' # views) \/ ReserveAgain(r)
        PROVE  ViewsCounted'
    <3>1. /\ share[r] \in Share /\ ~Noop(r)
          /\ views' = [views EXCEPT ![share[r]] = views[share[r]] + 1]
          /\ share' = share
          /\ \A q \in Request : q # r => at'[q] = at[q] /\ answer'[q] = answer[q]
      BY <2>7 DEF Reserve, ReserveAgain, TakeView, Goto, Answer
    <3> SUFFICES ASSUME NEW s \in Share
                 PROVE  /\ Cardinality(Granted(s)') <= views'[s]
                        /\ MaxViews[s] > 0 => views'[s] <= MaxViews[s]
      BY DEF ViewsCounted
    <3>2. /\ views[s] \in Nat /\ MaxViews[s] \in Nat
          /\ Cardinality(Granted(s)) <= views[s]
          /\ MaxViews[s] > 0 => views[s] <= MaxViews[s]
      BY SharesAssumption DEF ViewsCounted, DatabaseOK
    <3>3. CASE s # share[r]
      <4>1. Granted(s)' \subseteq Granted(s)
        BY <3>1, <3>3 DEF Granted
      <4>2. views'[s] = views[s]
        BY <3>1, <3>3 DEF DatabaseOK
      <4>3. Cardinality(Granted(s)') <= Cardinality(Granted(s))
        BY <4>1, GrantedFinite, FS_Subset
      <4> QED BY <3>2, <4>2, <4>3, GrantedFinite
    <3>4. CASE s = share[r]
      <4>1. Granted(s)' \subseteq Granted(s) \cup {r}
        BY <3>1 DEF Granted
      <4>2. views'[s] = views[s] + 1 /\ (MaxViews[s] > 0 => views[s] < MaxViews[s])
        BY <3>1, <3>2, <3>4 DEF Noop, DatabaseOK
      <4>3. /\ IsFiniteSet(Granted(s) \cup {r})
            /\ Cardinality(Granted(s) \cup {r}) \in Nat
            /\ Cardinality(Granted(s) \cup {r}) <= Cardinality(Granted(s)) + 1
        <5>1. /\ IsFiniteSet(Granted(s) \cup {r})
              /\ Cardinality(Granted(s) \cup {r})
                   = IF r \in Granted(s) THEN Cardinality(Granted(s)) ELSE Cardinality(Granted(s)) + 1
          BY GrantedFinite, FS_AddElement
        <5> QED BY <5>1, GrantedFinite
      <4>4. Cardinality(Granted(s)') <= Cardinality(Granted(s) \cup {r})
        BY <4>1, <4>3, FS_Subset
      <4> QED BY <3>2, <4>2, <4>3, <4>4, GrantedFinite
    <3> QED BY <3>3, <3>4
  <2>8. ASSUME NEW r \in Request, Deliver(r) PROVE ViewsCounted'
    <3>1. \A t \in Share : Granted(t)' \subseteq Granted(t)
      BY <2>8 DEF Deliver, Answer, Granted
    <3> QED BY <2>1, <2>8, <3>1 DEF Deliver, database
  <2>9. CASE Tick
    BY <2>1, <2>9 DEF Tick, database, requests, Granted
  <2>10. CASE UNCHANGED vars
    BY <2>1, <2>10 DEF vars, database, requests, Granted
  <2> QED
    BY <2>2, <2>3, <2>4, <2>5, <2>6, <2>7, <2>8, <2>9, <2>10 DEF Next, Serve
<1> QED BY <1>1, <1>2, TypeCorrect, PTL DEF Spec

-----------------------------------------------------------------------------
(* RevocationIsFinal: only a view changes the count, and the script takes  *)
(* none from a revoked record.                                             *)
THEOREM RevocationStays == Spec => RevocationIsFinal
<1>1. ASSUME TypeOK, [Next]_vars
      PROVE  [\A s \in revoked : s \in revoked' /\ views'[s] = views[s]]_vars
  <2> USE <1>1, SharesAssumption DEF TypeOK, DatabaseOK, RequestsOK
  <2>1. ASSUME NEW t \in Share, Create(t) \/ Revoke(t)
        PROVE  \A s \in revoked : s \in revoked' /\ views'[s] = views[s]
    BY <2>1 DEF Create, EnsureIndex, CreateIndex, StoreRecord, Revoke, CloseShare, database
  <2>2. ASSUME NEW r \in Request, Reserve(r) \/ ReserveAgain(r)
        PROVE  \A s \in revoked : s \in revoked' /\ views'[s] = views[s]
    BY <2>2 DEF Reserve, ReserveAgain, TakeView, Noop
  <2>3. ASSUME NEW r \in Request, Serve(r), ~Reserve(r), ~ReserveAgain(r)
        PROVE  \A s \in revoked : s \in revoked' /\ views'[s] = views[s]
    BY <2>3 DEF Serve, Start, Load, Check, Stamp, Deliver, database
  <2>4. ASSUME Tick
        PROVE  \A s \in revoked : s \in revoked' /\ views'[s] = views[s]
    BY <2>4 DEF Tick, database
  <2> QED BY <2>1, <2>2, <2>3, <2>4 DEF Next
<1> QED BY <1>1, TypeCorrect, PTL DEF Spec, RevocationIsFinal

-----------------------------------------------------------------------------
(* The handlers implement ShareGrants                                      *)

(* What the refinement mapping says of one request and one share.          *)
LEMMA Mapped ==
  /\ Passed \subseteq Request \X Share /\ Admitted \subseteq Request \X Share
  /\ Passed' \subseteq Request \X Share /\ Admitted' \subseteq Request \X Share
  /\ \A r \in Request, s \in Share :
       /\ <<r, s>> \in Passed <=>
            at[r] = "reserve" /\ share[r] = s /\ unlocked[r] < ExpiresAt[s]
       /\ <<r, s>> \in Passed' <=>
            at'[r] = "reserve" /\ share'[r] = s /\ unlocked'[r] < ExpiresAt[s]
       /\ <<r, s>> \in Admitted <=>
            share[r] = s /\ (at[r] = "deliver" \/ answer[r] \in {"page", "failed"})
       /\ <<r, s>> \in Admitted' <=>
            share'[r] = s /\ (at'[r] = "deliver" \/ answer'[r] \in {"page", "failed"})
<1>1. /\ Passed \subseteq Request \X Share /\ Admitted \subseteq Request \X Share
      /\ Passed' \subseteq Request \X Share /\ Admitted' \subseteq Request \X Share
  BY DEF Passed, Admitted
<1>2. ASSUME NEW r \in Request, NEW s \in Share
      PROVE  /\ <<r, s>> \in Passed <=>
                 at[r] = "reserve" /\ share[r] = s /\ unlocked[r] < ExpiresAt[s]
             /\ <<r, s>> \in Passed' <=>
                 at'[r] = "reserve" /\ share'[r] = s /\ unlocked'[r] < ExpiresAt[s]
  BY DEF Passed
<1>3. ASSUME NEW r \in Request, NEW s \in Share
      PROVE  /\ <<r, s>> \in Admitted <=>
                 share[r] = s /\ (at[r] = "deliver" \/ answer[r] \in {"page", "failed"})
             /\ <<r, s>> \in Admitted' <=>
                 share'[r] = s /\ (at'[r] = "deliver" \/ answer'[r] \in {"page", "failed"})
  BY DEF Admitted, Granted
<1> QED BY <1>1, <1>2, <1>3

(* Sets of pairs are equal when they have the same pairs.                  *)
LEMMA SamePairs ==
  ASSUME NEW A \in SUBSET (Request \X Share), NEW B \in SUBSET (Request \X Share),
         \A r \in Request, s \in Share : <<r, s>> \in A <=> <<r, s>> \in B
  PROVE  A = B
<1>1. \A x \in Request \X Share : \E r \in Request, s \in Share : x = <<r, s>>
  OBVIOUS
<1> QED BY <1>1

(* A step in which nobody comes to or leaves the passphrase or the page.   *)
LEMMA NobodyMoves ==
  ASSUME \A r \in Request, s \in Share :
           /\ <<r, s>> \in Passed' <=> <<r, s>> \in Passed
           /\ <<r, s>> \in Admitted' <=> <<r, s>> \in Admitted
  PROVE  Passed' = Passed /\ Admitted' = Admitted
BY Mapped, SamePairs

(* What every step of Shares is to ShareGrants.                            *)
LEMMA GrantsStep ==
  ASSUME TypeOK, ExpiryInv, [Next]_vars
  PROVE  [Grants!Next]_Grants!vars
<1> USE SharesAssumption DEF TypeOK, DatabaseOK, RequestsOK, BeforeView
<1>1. ASSUME NEW s \in Share, Create(s) PROVE UNCHANGED Grants!vars
  <2>1. UNCHANGED <<now, revoked, views, at, share, answer, unlocked>>
    BY <1>1 DEF Create, EnsureIndex, CreateIndex, StoreRecord, database, requests
  <2>2. Passed' = Passed /\ Admitted' = Admitted
    BY <2>1, NobodyMoves, Mapped
  <2> QED BY <2>1, <2>2 DEF Grants!vars
<1>2. ASSUME NEW s \in Share, Revoke(s) PROVE [Grants!Close(s)]_Grants!vars
  <2>1. /\ UNCHANGED <<now, views, at, share, answer, unlocked>>
        /\ revoked' = revoked \cup {s} \/ revoked' = revoked
    BY <1>2 DEF Revoke, CloseShare, requests
  <2>2. Passed' = Passed /\ Admitted' = Admitted
    BY <2>1, NobodyMoves, Mapped
  <2> QED BY <2>1, <2>2 DEF Grants!Close, Grants!vars
<1>3. ASSUME NEW r \in Request, (\E s \in Share : Start(r, s)) \/ Load(r) \/ Check(r) \/ Deliver(r)
      PROVE  UNCHANGED Grants!vars
  <2>1. /\ UNCHANGED <<now, revoked, views, unlocked>>
        /\ at[r] \notin {"reserve"} /\ at'[r] \notin {"reserve"}
        /\ \A q \in Request \ {r} : at'[q] = at[q] /\ share'[q] = share[q] /\ answer'[q] = answer[q]
    BY <1>3 DEF Start, Load, Check, Deliver, Goto, Answer, database
  <2>2. \/ share'[r] = share[r] /\ ((at[r] = "deliver" \/ answer[r] \in {"page", "failed"})
                                    <=> (at'[r] = "deliver" \/ answer'[r] \in {"page", "failed"}))
        \/ /\ ~(at[r] = "deliver" \/ answer[r] \in {"page", "failed"})
           /\ ~(at'[r] = "deliver" \/ answer'[r] \in {"page", "failed"})
    <3>1. CASE \E s \in Share : Start(r, s)
      BY <3>1 DEF Start
    <3>2. CASE Load(r)
      BY <3>2 DEF Load, Goto, Answer
    <3>3. CASE Check(r)
      BY <3>3 DEF Check, Goto, Answer
    <3>4. CASE Deliver(r)
      BY <3>4 DEF Deliver, Answer
    <3> QED BY <1>3, <3>1, <3>2, <3>3, <3>4
  <2>3. Passed' = Passed /\ Admitted' = Admitted
    BY <2>1, <2>2, NobodyMoves, Mapped
  <2> QED BY <2>1, <2>3 DEF Grants!vars
<1>4. ASSUME NEW r \in Request, Stamp(r) PROVE [Grants!Pass(r, share[r])]_Grants!vars
  <2>1. /\ UNCHANGED <<now, revoked, views, share, answer>>
        /\ at[r] = "stamp" /\ at'[r] = "reserve" /\ unlocked'[r] = now
        /\ \A q \in Request \ {r} : at'[q] = at[q] /\ unlocked'[q] = unlocked[q]
    BY <1>4 DEF Stamp, Goto, database
  <2>2. share[r] \in Share
    BY <2>1
  <2>3. CASE now < ExpiresAt[share[r]]
    <3>1. Passed' = Passed \cup {<<r, share[r]>>}
      <4> DEFINE More == Passed \cup {<<r, share[r]>>}
      <4>1. \A q \in Request, s \in Share : <<q, s>> \in Passed' <=> <<q, s>> \in More
        <5> SUFFICES ASSUME NEW q \in Request, NEW s \in Share
                     PROVE  <<q, s>> \in Passed' <=> <<q, s>> \in More
          OBVIOUS
        <5>1. /\ <<q, s>> \in Passed <=>
                   at[q] = "reserve" /\ share[q] = s /\ unlocked[q] < ExpiresAt[s]
              /\ <<q, s>> \in Passed' <=>
                   at'[q] = "reserve" /\ share'[q] = s /\ unlocked'[q] < ExpiresAt[s]
          BY Mapped
        <5>2. CASE q = r
          <6>1. /\ at'[q] = "reserve" /\ at[q] = "stamp"
                /\ share'[q] = share[r] /\ unlocked'[q] < ExpiresAt[share[r]]
            BY <2>1, <2>2, <2>3, <5>2
          <6> QED BY <5>1, <5>2, <6>1
        <5>3. CASE q # r
          <6>1. at'[q] = at[q] /\ share'[q] = share[q] /\ unlocked'[q] = unlocked[q]
            BY <2>1, <2>2, <2>3, <5>3
          <6>2. <<q, s>> # <<r, share[r]>>
            BY <5>3
          <6> QED BY <5>1, <6>1, <6>2
        <5> QED BY <5>2, <5>3
      <4>2. More \in SUBSET (Request \X Share) /\ Passed' \in SUBSET (Request \X Share)
        BY <2>2, Mapped
      <4> HIDE DEF More
      <4>3. Passed' = More
        BY <4>1, <4>2, SamePairs
      <4> QED BY <4>3 DEF More
    <3>2. Admitted' = Admitted
      <4>1. \A q \in Request, s \in Share : <<q, s>> \in Admitted' <=> <<q, s>> \in Admitted
        <5> SUFFICES ASSUME NEW q \in Request, NEW s \in Share
                     PROVE  <<q, s>> \in Admitted' <=> <<q, s>> \in Admitted
          OBVIOUS
        <5>1. /\ <<q, s>> \in Admitted <=>
                   share[q] = s /\ (at[q] = "deliver" \/ answer[q] \in {"page", "failed"})
              /\ <<q, s>> \in Admitted' <=>
                   share'[q] = s /\ (at'[q] = "deliver" \/ answer'[q] \in {"page", "failed"})
          BY Mapped
        <5>2. share'[q] = share[q] /\ answer'[q] = answer[q]
          BY <2>1
        <5>3. CASE q = r
          <6>1. at'[q] = "reserve" /\ at[q] = "stamp"
            BY <2>1, <5>3
          <6> QED BY <5>1, <5>2, <6>1
        <5>4. CASE q # r
          <6>1. at'[q] = at[q]
            BY <2>1, <5>4
          <6> QED BY <5>1, <5>2, <6>1
        <5> QED BY <5>3, <5>4
      <4> QED BY <4>1, Mapped, SamePairs
    <3> QED BY <2>1, <2>3, <3>1, <3>2 DEF Grants!Pass
  <2>4. CASE ~(now < ExpiresAt[share[r]])
    <3>1. Passed' = Passed /\ Admitted' = Admitted
      BY <2>1, <2>4, NobodyMoves, Mapped
    <3> QED BY <2>1, <3>1 DEF Grants!vars
  <2> QED BY <2>3, <2>4
<1>5. ASSUME NEW r \in Request, Reserve(r)
      PROVE  Grants!TakeView(r, share[r]) \/ Grants!Leave(r, share[r])
  <2> DEFINE s == share[r]
             Fewer == Passed \ {<<r, s>>}
             More == Admitted \cup {<<r, s>>}
  <2>1. /\ UNCHANGED <<now, revoked, share, unlocked>>
        /\ at[r] = "reserve" /\ at'[r] \in {"deliver", "done"}
        /\ answer'[r] \in {"none", "error", "notFound"} /\ answer[r] = "none"
        /\ \A q \in Request \ {r} : at'[q] = at[q] /\ answer'[q] = answer[q]
    BY <1>5 DEF Reserve, Goto, Answer
  <2>2. s \in Share
    BY <2>1
  <2>3. Passed' = Fewer
    <3>1. \A q \in Request, t \in Share : <<q, t>> \in Passed' <=> <<q, t>> \in Fewer
      <4> SUFFICES ASSUME NEW q \in Request, NEW t \in Share
                   PROVE  <<q, t>> \in Passed' <=> <<q, t>> \in Fewer
        OBVIOUS
      <4>1. /\ <<q, t>> \in Passed <=>
                 at[q] = "reserve" /\ share[q] = t /\ unlocked[q] < ExpiresAt[t]
            /\ <<q, t>> \in Passed' <=>
                 at'[q] = "reserve" /\ share'[q] = t /\ unlocked'[q] < ExpiresAt[t]
        BY Mapped
      <4>2. CASE q = r
        <5>1. at'[q] # "reserve" /\ (at[q] = "reserve") /\ share[q] = s
          BY <2>1, <2>2, <4>2
        <5> QED BY <4>1, <4>2, <5>1
      <4>3. CASE q # r
        <5>1. at'[q] = at[q] /\ share'[q] = share[q] /\ unlocked'[q] = unlocked[q]
          BY <2>1, <2>2, <4>3
        <5>2. <<q, t>> # <<r, s>>
          BY <4>3
        <5> QED BY <4>1, <5>1, <5>2
      <4> QED BY <4>2, <4>3
    <3>2. Fewer \in SUBSET (Request \X Share) /\ Passed' \in SUBSET (Request \X Share)
      BY Mapped
    <3> HIDE DEF Fewer
    <3> QED BY <3>1, <3>2, SamePairs
  <2>4. CASE at'[r] = "deliver"
    <3>1. ~Noop(r) /\ views' = [views EXCEPT ![s] = views[s] + 1]
      BY <1>5, <2>4 DEF Reserve, TakeView, Answer
    <3>2. Admitted' = More
      <4>1. \A q \in Request, t \in Share : <<q, t>> \in Admitted' <=> <<q, t>> \in More
        <5> SUFFICES ASSUME NEW q \in Request, NEW t \in Share
                     PROVE  <<q, t>> \in Admitted' <=> <<q, t>> \in More
          OBVIOUS
        <5>1. /\ <<q, t>> \in Admitted <=>
                   share[q] = t /\ (at[q] = "deliver" \/ answer[q] \in {"page", "failed"})
              /\ <<q, t>> \in Admitted' <=>
                   share'[q] = t /\ (at'[q] = "deliver" \/ answer'[q] \in {"page", "failed"})
          BY Mapped
        <5>2. CASE q = r
          <6>1. at'[q] = "deliver" /\ at[q] = "reserve" /\ share'[q] = s /\ answer[q] = "none"
            BY <2>1, <2>2, <2>4, <5>2
          <6> QED BY <5>1, <5>2, <6>1
        <5>3. CASE q # r
          <6>1. at'[q] = at[q] /\ share'[q] = share[q] /\ answer'[q] = answer[q]
            BY <2>1, <2>2, <2>4, <5>3
          <6>2. <<q, t>> # <<r, s>>
            BY <5>3
          <6> QED BY <5>1, <6>1, <6>2
        <5> QED BY <5>2, <5>3
      <4>2. More \in SUBSET (Request \X Share) /\ Admitted' \in SUBSET (Request \X Share)
        BY <2>2, Mapped
      <4> HIDE DEF More
      <4> QED BY <4>1, <4>2, SamePairs
    <3>3. <<r, s>> \in Passed /\ s \notin revoked /\ (MaxViews[s] > 0 => views[s] < MaxViews[s])
      BY <2>1, <2>2, <3>1, Mapped DEF Noop, ExpiryInv
    <3> QED BY <2>1, <2>3, <3>1, <3>2, <3>3 DEF Grants!TakeView, Grants!Spend
  <2>5. CASE at'[r] = "done"
    <3>1. Admitted' = Admitted
      <4>1. \A q \in Request, t \in Share : <<q, t>> \in Admitted' <=> <<q, t>> \in Admitted
        <5> SUFFICES ASSUME NEW q \in Request, NEW t \in Share
                     PROVE  <<q, t>> \in Admitted' <=> <<q, t>> \in Admitted
          OBVIOUS
        <5>1. /\ <<q, t>> \in Admitted <=>
                   share[q] = t /\ (at[q] = "deliver" \/ answer[q] \in {"page", "failed"})
              /\ <<q, t>> \in Admitted' <=>
                   share'[q] = t /\ (at'[q] = "deliver" \/ answer'[q] \in {"page", "failed"})
          BY Mapped
        <5>2. CASE q = r
          <6>1. /\ at'[q] = "done" /\ at[q] = "reserve"
                /\ answer[q] = "none" /\ answer'[q] \notin {"page", "failed"}
            BY <2>1, <2>2, <2>5, <5>2
          <6> QED BY <5>1, <5>2, <6>1
        <5>3. CASE q # r
          <6>1. at'[q] = at[q] /\ share'[q] = share[q] /\ answer'[q] = answer[q]
            BY <2>1, <2>2, <2>5, <5>3
          <6> QED BY <5>1, <6>1
        <5> QED BY <5>2, <5>3
      <4> QED BY <4>1, Mapped, SamePairs
    <3>2. CASE views' = views
      BY <2>1, <2>3, <3>1, <3>2 DEF Grants!Leave
    <3>3. CASE views' # views
      <4>1. ~Noop(r) /\ views' = [views EXCEPT ![s] = views[s] + 1]
        BY <1>5, <3>3 DEF Reserve, TakeView
      <4>2. <<r, s>> \in Passed /\ s \notin revoked /\ (MaxViews[s] > 0 => views[s] < MaxViews[s])
        BY <2>1, <2>2, <4>1, Mapped DEF Noop, ExpiryInv
      <4> QED BY <2>1, <2>3, <3>1, <4>1, <4>2 DEF Grants!TakeView, Grants!Spend
    <3> QED BY <3>2, <3>3
  <2> QED BY <2>1, <2>4, <2>5
<1>6. ASSUME Tick PROVE Grants!Tick
  <2>1. now' = now + 1 /\ UNCHANGED <<revoked, views, at, share, answer, unlocked>>
    BY <1>6 DEF Tick, database, requests
  <2>2. Passed' = Passed /\ Admitted' = Admitted
    BY <2>1, NobodyMoves, Mapped
  <2> QED BY <2>1, <2>2 DEF Grants!Tick
<1>7. CASE UNCHANGED vars
  <2>1. UNCHANGED <<now, revoked, views, at, share, answer, unlocked>>
    BY <1>7 DEF vars, database, requests
  <2>2. Passed' = Passed /\ Admitted' = Admitted
    BY <2>1, NobodyMoves, Mapped
  <2> QED BY <2>1, <2>2 DEF Grants!vars
<1>8. ASSUME NEW r \in Request, ReserveAgain(r) PROVE Grants!WasteView(r, share[r])
  <2>1. /\ UNCHANGED <<now, revoked, at, share, answer, unlocked>> /\ at[r] = "reserve"
        /\ ~Noop(r) /\ views' = [views EXCEPT ![share[r]] = views[share[r]] + 1]
    BY <1>8 DEF ReserveAgain, TakeView
  <2>2. Passed' = Passed /\ Admitted' = Admitted
    BY <2>1, NobodyMoves, Mapped
  <2>3. /\ <<r, share[r]>> \in Passed /\ share[r] \notin revoked
        /\ MaxViews[share[r]] > 0 => views[share[r]] < MaxViews[share[r]]
    BY <2>1, Mapped DEF Noop, ExpiryInv
  <2> QED BY <2>1, <2>2, <2>3 DEF Grants!WasteView, Grants!Spend
<1>9. ASSUME NEW r \in Request, Stamp(r) \/ Reserve(r) \/ ReserveAgain(r) PROVE share[r] \in Share
  BY <1>9 DEF Stamp, Reserve, ReserveAgain
<1> QED
  BY <1>1, <1>2, <1>3, <1>4, <1>5, <1>6, <1>7, <1>8, <1>9 DEF Next, Serve, Grants!Next

(* Whatever interleaves, whatever answer is lost and however often the     *)
(* client sends an update again, pages are handed out as ShareGrants says: *)
(* each at the instant its view is taken, or a view is wasted.             *)
THEOREM HandlersImplementGrants == Spec => SharesImplementGrants
<1>1. Init => Grants!Init
  <2> SUFFICES ASSUME Init PROVE Grants!Init
    OBVIOUS
  <2>1. Passed = {} /\ Admitted = {}
    BY DEF Init, Passed, Admitted, Granted
  <2> QED BY <2>1 DEF Init, Grants!Init
<1>2. TypeOK /\ ExpiryInv /\ [Next]_vars => [Grants!Next]_Grants!vars
  BY GrantsStep
<1> QED
  BY <1>1, <1>2, ExpiryInvInductive, TypeCorrect, PTL
     DEF Spec, SharesImplementGrants, Grants!Spec
=============================================================================
