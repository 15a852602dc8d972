------------------------------- MODULE Shares -------------------------------
(***************************************************************************)
(* Share links (internal/server/shares.go): a token gives the public       *)
(* access to one page until it expires, is revoked, or has been viewed     *)
(* often enough.  The record of a token is a document in OpenSearch; the   *)
(* server reads it, decides, and takes a view with a scripted update that  *)
(* decides again on the document as it then is.                            *)
(*                                                                         *)
(* Every request is one goroutine and every OpenSearch call one step, so   *)
(* requests, revocations and the clock interleave between the calls.       *)
(* OpenSearch may fail a call without effect or lose the answer of one     *)
(* that took effect.  Its Go client then sends the request again by itself *)
(* (server.go, lines 146-155, leaves its retries on), so that one call may *)
(* take effect several times; and it reports every status that is not 2xx  *)
(* as an error (dedupe.go, line 142).                                      *)
(***************************************************************************)
EXTENDS Naturals, FiniteSets

CONSTANTS
  Share,       \* tokens, each from one call of handleCreateShare
  Request,     \* calls of handleServeShare
  ExpiresAt,   \* when each share expires
  MaxViews,    \* how often each share may be viewed, 0 for ever
  Protected,   \* the shares with a passphrase
  None,        \* no share
  ClientRetries,  \* how often OpenSearch's client sends one request again
  MaxTime      \* bound: the clock stops here

ASSUME SharesAssumption ==
  /\ ExpiresAt \in [Share -> Nat]
  /\ MaxViews \in [Share -> Nat]
  /\ Protected \subseteq Share
  /\ None \notin Share
  /\ IsFiniteSet(Request)
  /\ ClientRetries \in Nat /\ MaxTime \in Nat

VARIABLES
  now,         \* the clock
  index,       \* whether sharesIndex exists
  creating,    \* where each handleCreateShare is
  stored,      \* tokens that have a record
  revoked,     \* records whose field revoked is true
  views,       \* the field viewCount of each record
  at,          \* where each request is
  share,       \* the token of each request
  rec,         \* the record each request has loaded
  params,      \* the time each request has read last
  resends,     \* how often the client has sent each request's update again
  answer,      \* history: how each request was answered
  barred,      \* history: requests that had not taken a view when their share was revoked
  unlocked     \* history: when each request passed the passphrase

database == <<index, stored, revoked, views>>
requests == <<at, share, rec, params, resends, answer, unlocked>>
vars == <<now, creating, database, requests, barred>>

Record == [revoked : BOOLEAN, viewCount : Nat]
NoRecord == [revoked |-> FALSE, viewCount |-> 0]

BeforeView == {"load", "check", "stamp", "reserve"}

DatabaseOK ==
  /\ now \in 0..MaxTime
  /\ index \in {"absent", "present"}
  /\ creating \in [Share -> {"idle", "index", "unsure", "record", "created", "failed", "lost"}]
  /\ stored \subseteq Share /\ revoked \subseteq stored
  /\ views \in [Share -> Nat]
  /\ barred \subseteq Request
  /\ \A s \in Share : creating[s] = "created" => s \in stored

RequestsOK ==
  /\ at \in [Request -> BeforeView \cup {"new", "deliver", "done"}]
  /\ share \in [Request -> Share \cup {None}]
  /\ rec \in [Request -> Record]
  /\ params \in [Request -> Nat]
  /\ resends \in [Request -> 0..ClientRetries]
  /\ answer \in [Request -> {"none", "page", "failed", "notFound", "error"}]
  /\ unlocked \in [Request -> Nat]
  /\ \A r \in Request : at[r] = "new" <=> share[r] = None
  /\ \A r \in Request : at[r] = "done" <=> answer[r] # "none"

TypeOK == DatabaseOK /\ RequestsOK

Init ==
  /\ now = 0
  /\ index = "absent"
  /\ creating = [s \in Share |-> "idle"]
  /\ stored = {} /\ revoked = {}
  /\ views = [s \in Share |-> 0]
  /\ at = [r \in Request |-> "new"]
  /\ share = [r \in Request |-> None]
  /\ rec = [r \in Request |-> NoRecord]
  /\ params = [r \in Request |-> 0]
  /\ resends = [r \in Request |-> 0]
  /\ answer = [r \in Request |-> "none"]
  /\ barred = {}
  /\ unlocked = [r \in Request |-> 0]

-----------------------------------------------------------------------------
(* handleCreateShare                                                       *)

(* ensureSharesIndex asks whether the index exists; when the question gets *)
(* no answer at all it goes on to create the index.                        *)
EnsureIndex(s) ==
  /\ creating[s] = "idle"
  /\ \/ index = "present" /\ creating' = [creating EXCEPT ![s] = "record"]
     \/ index = "absent" /\ creating' = [creating EXCEPT ![s] = "index"]   \* 404
     \/ creating' = [creating EXCEPT ![s] = "unsure"]                       \* no answer
     \/ creating' = [creating EXCEPT ![s] = "failed"]                       \* another status
  /\ UNCHANGED <<now, database, requests, barred>>

ClientError(status) == status \notin 200..299

(* The client is asked for an error first, so that the branch for 400 with *)
(* resource_already_exists_exception (lines 87-91) is not reached.         *)
IndexEnsured(status) == ~ClientError(status) /\ status \in {200, 400}

(* The index may be there by now, created for another share or by this     *)
(* call itself, whose answer was lost and which the client has sent again: *)
(* OpenSearch answers 400.  Who was told before that there is no index has *)
(* lost a race.                                                            *)
CreateIndex(s) ==
  LET status == IF index = "present" THEN 400 ELSE 200
      refused == IF creating[s] = "index" THEN "lost" ELSE "failed" IN
  /\ creating[s] \in {"index", "unsure"}
  /\ \/ /\ index' = "present"
        /\ creating' = [creating EXCEPT ![s] = IF IndexEnsured(status) THEN "record" ELSE refused]
     \/ index' \in {index, "present"} /\ creating' = [creating EXCEPT ![s] = "failed"]
     \/ ClientRetries > 0 /\ index' = "present" /\ UNCHANGED creating
  /\ UNCHANGED <<now, stored, revoked, views, requests, barred>>

(* A create that is sent again finds its own record: 409, and a failure.   *)
StoreRecord(s) ==
  /\ creating[s] = "record"
  /\ \/ stored' = stored \cup {s} /\ creating' = [creating EXCEPT ![s] = "created"]
     \/ stored' \in {stored, stored \cup {s}} /\ creating' = [creating EXCEPT ![s] = "failed"]
  /\ UNCHANGED <<now, index, revoked, views, requests, barred>>

-----------------------------------------------------------------------------
(* handleRevokeShare                                                       *)

(* Mutant: the record is written anew, with the count of a new share.      *)
CloseShareWhole(s) ==
  /\ revoked' = revoked \cup {s}
  /\ views' = [views EXCEPT ![s] = 0]

(* A partial update: the other fields stay.                                *)
CloseShare(s) ==
  /\ revoked' = revoked \cup {s}
  /\ UNCHANGED views

Waiting(s) == {r \in Request : share[r] = s /\ at[r] \in BeforeView}

(* The update is applied, with or without an answer, or it is not: the     *)
(* document is missing, a view is taken at the same time, a lost call.     *)
Revoke(s) ==
  /\ \/ /\ s \in stored
        /\ CloseShare(s)
        /\ barred' = barred \cup Waiting(s)
     \/ UNCHANGED <<revoked, views, barred>>
  /\ UNCHANGED <<now, creating, index, stored, requests>>

-----------------------------------------------------------------------------
(* handleServeShare                                                        *)

Goto(r, place) ==
  /\ at' = [at EXCEPT ![r] = place]
  /\ UNCHANGED <<share, answer>>

Answer(r, a) ==
  /\ answer' = [answer EXCEPT ![r] = a]
  /\ at' = [at EXCEPT ![r] = "done"]
  /\ UNCHANGED share

(* The token is verified before anything else; one that is not verified is *)
(* answered like one that has no record.                                   *)
Start(r, s) ==
  /\ at[r] = "new"
  /\ at' = [at EXCEPT ![r] = "load"]
  /\ share' = [share EXCEPT ![r] = s]
  /\ barred' = IF s \in revoked THEN barred \cup {r} ELSE barred
  /\ UNCHANGED <<now, creating, database, rec, params, resends, answer, unlocked>>

Load(r) ==
  /\ at[r] = "load"
  /\ \/ /\ share[r] \in stored
        /\ rec' = [rec EXCEPT ![r] = [revoked |-> share[r] \in revoked,
                                      viewCount |-> views[share[r]]]]
        /\ Goto(r, "check")
     \/ share[r] \notin stored /\ Answer(r, "notFound") /\ UNCHANGED rec
     \/ Answer(r, "error") /\ UNCHANGED rec
  /\ UNCHANGED <<now, creating, database, params, resends, unlocked, barred>>

(* What the loaded record says at the time it is looked at.                *)
Closed(r) ==
  LET s == share[r] IN
  \/ rec[r].revoked
  \/ ExpiresAt[s] <= now
  \/ MaxViews[s] > 0 /\ rec[r].viewCount >= MaxViews[s]

(* The passphrase is sent or not, right or wrong.                          *)
Check(r) ==
  /\ at[r] = "check"
  /\ params' = [params EXCEPT ![r] = now]
  /\ \/ Closed(r) /\ Answer(r, "notFound")
     \/ ~Closed(r) /\ Goto(r, "stamp")
     \/ ~Closed(r) /\ share[r] \in Protected /\ Answer(r, "notFound")
  /\ UNCHANGED <<now, creating, database, rec, resends, unlocked, barred>>

(* Mutant: the time read for the first check is used again.                *)
ReadClockNot(r) == UNCHANGED params

ReadClock(r) == params' = [params EXCEPT ![r] = now]

(* The passphrase has been compared, which takes its time, and the clock   *)
(* is read anew.                                                           *)
Stamp(r) ==
  /\ at[r] = "stamp"
  /\ ReadClock(r)
  /\ unlocked' = [unlocked EXCEPT ![r] = now]
  /\ Goto(r, "reserve")
  /\ UNCHANGED <<now, creating, database, rec, resends, barred>>

(* Mutant: a script that does not look at the field revoked.               *)
NoopUnrevoked(r) ==
  LET s == share[r] IN
  \/ ExpiresAt[s] <= params[r]
  \/ MaxViews[s] > 0 /\ views[s] >= MaxViews[s]

(* Mutant: the view count is compared as the handler loaded it.            *)
NoopLoaded(r) ==
  LET s == share[r] IN
  \/ s \in revoked
  \/ ExpiresAt[s] <= params[r]
  \/ MaxViews[s] > 0 /\ rec[r].viewCount >= MaxViews[s]

(* When the script leaves the document alone.                              *)
Noop(r) ==
  LET s == share[r] IN
  \/ s \in revoked
  \/ ExpiresAt[s] <= params[r]
  \/ MaxViews[s] > 0 /\ views[s] >= MaxViews[s]

TakeView(r) ==
  /\ ~Noop(r)
  /\ views' = [views EXCEPT ![share[r]] = @ + 1]

(* reserveShareView.  The script runs on a version nobody else changes     *)
(* meanwhile (RetryOnConflict), or the call fails.                         *)
Reserve(r) ==
  /\ at[r] = "reserve"
  /\ \/ TakeView(r) /\ (Goto(r, "deliver") \/ Answer(r, "error"))
     \/ Noop(r) /\ Answer(r, "notFound") /\ UNCHANGED views
     \/ Answer(r, "error") /\ UNCHANGED views
  /\ UNCHANGED <<now, creating, index, stored, revoked, rec, params, resends, unlocked,
                 barred>>

(* The update takes a view, its answer is lost, and the client sends it    *)
(* again within the same call: nobody sees the page for that view.         *)
ReserveAgain(r) ==
  /\ at[r] = "reserve" /\ resends[r] < ClientRetries
  /\ TakeView(r)
  /\ resends' = [resends EXCEPT ![r] = @ + 1]
  /\ UNCHANGED <<now, creating, index, stored, revoked, at, share, rec, params, answer, unlocked,
                 barred>>

(* returnDocument: the view stays taken when the page cannot be read.      *)
Deliver(r) ==
  /\ at[r] = "deliver"
  /\ \E a \in {"page", "failed"} : Answer(r, a)
  /\ UNCHANGED <<now, creating, database, rec, params, resends, unlocked, barred>>

-----------------------------------------------------------------------------
Tick ==
  /\ now < MaxTime
  /\ now' = now + 1
  /\ UNCHANGED <<creating, database, requests, barred>>

Create(s) == EnsureIndex(s) \/ CreateIndex(s) \/ StoreRecord(s)

Serve(r) ==
  \/ \E s \in Share : Start(r, s)
  \/ Load(r) \/ Check(r) \/ Stamp(r) \/ Reserve(r) \/ ReserveAgain(r) \/ Deliver(r)

Next ==
  \/ \E s \in Share : Create(s) \/ Revoke(s)
  \/ \E r \in Request : Serve(r)
  \/ Tick

Spec == Init /\ [][Next]_vars

-----------------------------------------------------------------------------
(* Properties                                                              *)

(* Requests for s that may show the page, and those that asked for a view. *)
Granted(s) == {r \in Request : share[r] = s /\ (at[r] = "deliver" \/ answer[r] \in {"page", "failed"})}

(* A page is delivered only for a view that was counted, and never more    *)
(* often than maxViews allows, however many requests have read a record    *)
(* with a view left (lines 415-416: "Never deliver a page if accounting    *)
(* could not be committed").                                               *)
ViewsCounted ==
  \A s \in Share :
    /\ Cardinality(Granted(s)) <= views[s]
    /\ MaxViews[s] > 0 => views[s] <= MaxViews[s]

(* A request that has not taken its view when the share is revoked never   *)
(* delivers the page, even if it loaded the record before.                 *)
RevocationBars ==
  \A r \in barred : at[r] # "deliver" /\ answer[r] \notin {"page", "failed"}

(* A page is delivered only to a request that passed the passphrase before *)
(* the share expired, however long loading and hashing took.               *)
ExpiryBars ==
  \A s \in Share : \A r \in Granted(s) : unlocked[r] < ExpiresAt[s]

(* Revocation is final: no view in progress and no second revocation ever  *)
(* changes the record again.                                               *)
RevocationIsFinal ==
  [][\A s \in revoked : s \in revoked' /\ views'[s] = views[s]]_vars

(* Requests that passed the passphrase in time and have no view yet.       *)
Passed ==
  {rs \in Request \X Share :
     at[rs[1]] = "reserve" /\ share[rs[1]] = rs[2] /\ unlocked[rs[1]] < ExpiresAt[rs[2]]}

Admitted == {rs \in Request \X Share : rs[1] \in Granted(rs[2])}

Grants == INSTANCE ShareGrants WITH
  Visitor <- Request,
  Limit <- MaxViews,
  Deadline <- ExpiresAt,
  clock <- now,
  closed <- revoked,
  spent <- views,
  passed <- Passed,
  admitted <- Admitted

(* The handlers keep the promise of a share link: whatever was loaded,     *)
(* checked, revoked or lost in between, it is as if each page were handed  *)
(* out at the instant its view is taken.  Views may be wasted, but none is *)
(* taken after the last, of a revoked share, or for somebody who came late.*)
SharesImplementGrants == Grants!Spec

(* ensureSharesIndex is a no-op if the index exists (lines 61-63: "creates *)
(* sharesIndex if it does not already exist"): while no call fails, nobody *)
(* who was told that there is no index is refused because it was created   *)
(* for another share meanwhile.                                            *)
FirstSharesBothCreated ==
  (\A s \in Share : creating[s] # "failed") => \A s \in Share : creating[s] # "lost"
=============================================================================
