----------------------------- MODULE OcrClient ------------------------------
(***************************************************************************)
(* The OCR client (pkg/ocrclient/client.go): calls of Process from any     *)
(* number of goroutines share a semaphore; each sends its page, again      *)
(* after some failures, under one idempotency key, over connections that   *)
(* are dialled to addresses that were checked.                             *)
(*                                                                         *)
(* The OCR server is external.  It handles what reached it, perhaps after  *)
(* the client has given the request up, and answers a key it knows from    *)
(* memory, which is what the key is sent for.                              *)
(***************************************************************************)
EXTENDS Integers, FiniteSets, Sequences

CONSTANTS
  Caller,          \* goroutines that call Process
  MaxConcurrency,  \* capacity of sem
  MaxRetries,      \* maxRetries
  Address,         \* what the host name may resolve to
  Refused,         \* the addresses checkIP rejects, none if private targets are allowed
  MaxCalls         \* bound: calls of one goroutine

ASSUME OcrAssumption ==
  /\ IsFiniteSet(Caller)
  /\ MaxConcurrency \in Nat \ {0}
  /\ MaxRetries \in Nat /\ MaxCalls \in Nat
  /\ Refused \subseteq Address

VARIABLES
  slots,      \* len(sem)
  stage,      \* where each call is
  attempt, ctxDone, idemKey, calls,
  nextKey,    \* uuid.NewString never repeats itself
  arrived,    \* submissions the server has got and not handled
  recognised, \* submissions the server has done the work for
  ended       \* history: how the calls have returned

callVars == <<slots, stage, attempt, ctxDone, idemKey, calls, nextKey, ended>>
ocrVars == <<callVars, arrived, recognised>>

Stage == {"idle", "acquire", "attempt", "request", "backoff"}
HoldsSlot(c) == stage[c] \in {"attempt", "request", "backoff"}
Submission == [caller : Caller, call : Nat, key : Nat]

SlotsOK == slots \in Nat /\ stage \in [Caller -> Stage]

OcrTypeOK ==
  /\ SlotsOK
  /\ attempt \in [Caller -> 0..MaxRetries]
  /\ ctxDone \in [Caller -> BOOLEAN]
  /\ idemKey \in [Caller -> Nat] /\ calls \in [Caller -> Nat]
  /\ nextKey \in Nat
  /\ arrived \subseteq Submission /\ recognised \subseteq Submission
  /\ ended \in SUBSET [caller : Caller, call : Nat, how : {"text", "error", "timeout", "cancelled"},
                       attempt : Nat]

OcrInit ==
  /\ slots = 0
  /\ stage = [c \in Caller |-> "idle"]
  /\ attempt = [c \in Caller |-> 0]
  /\ ctxDone = [c \in Caller |-> FALSE]
  /\ idemKey = [c \in Caller |-> 0]
  /\ calls = [c \in Caller |-> 0]
  /\ nextKey = 1
  /\ arrived = {} /\ recognised = {} /\ ended = {}

-----------------------------------------------------------------------------
(* Process                                                                 *)

Goes(c, s) == stage' = [stage EXCEPT ![c] = s]

Server == <<arrived, recognised>>

CallProcess(c) ==
  /\ stage[c] = "idle" /\ calls[c] < MaxCalls
  /\ Goes(c, "acquire")
  /\ calls' = [calls EXCEPT ![c] = @ + 1]
  /\ UNCHANGED <<slots, attempt, ctxDone, idemKey, nextKey, ended, Server>>

(* The caller's context ends: the command is stopped, the server shuts     *)
(* down, or a deadline passes.                                             *)
ContextEnds(c) ==
  /\ stage[c] # "idle" /\ ~ctxDone[c]
  /\ ctxDone' = [ctxDone EXCEPT ![c] = TRUE]
  /\ UNCHANGED <<slots, stage, attempt, idemKey, calls, nextKey, ended, Server>>

(* Mutant: the slot is released only by a call that has an answer.         *)
ReleaseOnText(c, how) == slots' = IF how = "text" THEN slots - 1 ELSE slots

(* The deferred release of a call that has passed acquire.                 *)
Release(c, how) == slots' = IF HoldsSlot(c) THEN slots - 1 ELSE slots

(* Its variables are gone with it.                                         *)
Return(c, how) ==
  /\ Goes(c, "idle")
  /\ Release(c, how)
  /\ ended' = ended \cup {[caller |-> c, call |-> calls[c], how |-> how, attempt |-> attempt[c]]}
  /\ attempt' = [attempt EXCEPT ![c] = 0]
  /\ ctxDone' = [ctxDone EXCEPT ![c] = FALSE]
  /\ idemKey' = [idemKey EXCEPT ![c] = 0]
  /\ UNCHANGED <<calls, nextKey>>

(* When both are ready the select takes either: the context may have ended.*)
Acquire(c) ==
  /\ stage[c] = "acquire" /\ slots < MaxConcurrency
  /\ slots' = slots + 1
  /\ Goes(c, "attempt")
  /\ idemKey' = [idemKey EXCEPT ![c] = nextKey]
  /\ nextKey' = nextKey + 1
  /\ UNCHANGED <<attempt, ctxDone, calls, ended, Server>>

AcquireCancelled(c) ==
  /\ stage[c] = "acquire" /\ ctxDone[c]
  /\ Return(c, "cancelled") /\ UNCHANGED Server

(* ctx.Err() is looked at before each request.                             *)
Attempt(c) ==
  /\ stage[c] = "attempt"
  /\ IF ctxDone[c]
       THEN Return(c, "cancelled")
       ELSE /\ Goes(c, "request")
            /\ UNCHANGED <<slots, attempt, ctxDone, idemKey, calls, nextKey, ended>>
  /\ UNCHANGED Server

(* guardedDialContext checks every address before it dials any.            *)
Acceptable(ips) == \A i \in DOMAIN ips : ips[i] \notin Refused

(* The host is resolved for this connection and the page is sent to the    *)
(* first address that connects.  net/http may do so more than once in one  *)
(* request: the key makes a POST replayable.                               *)
Submit(c, ips) ==
  /\ stage[c] = "request" /\ Acceptable(ips)
  /\ arrived' = arrived \cup {[caller |-> c, call |-> calls[c], key |-> idemKey[c]]}
  /\ UNCHANGED <<callVars, recognised>>

(* An error that is not retried, or the last that is, ends the call.       *)
Fails(c, retryable, how) ==
  IF retryable /\ attempt[c] < MaxRetries
    THEN Goes(c, "backoff") /\ UNCHANGED <<slots, attempt, ctxDone, idemKey, calls, nextKey, ended>>
    ELSE Return(c, how)

(* The connection is refused or breaks, or the host's addresses are not    *)
(* acceptable: a url.Error.  What was sent may still be handled.           *)
NetworkFails(c) == stage[c] = "request" /\ Fails(c, TRUE, "error") /\ UNCHANGED Server

(* 429 and 5xx.                                                            *)
ServerBusy(c) ==
  /\ stage[c] = "request" /\ \E s \in arrived : s.key = idemKey[c]
  /\ Fails(c, TRUE, "error")
  /\ arrived' = {s \in arrived : s.key # idemKey[c]} /\ UNCHANGED recognised

(* Any other status, or an answer that cannot be decoded.                  *)
Rejected(c) == stage[c] = "request" /\ Fails(c, FALSE, "error") /\ UNCHANGED Server

(* The error of a client whose Timeout has passed is a timeout and, since  *)
(* Go 1.21, a context.DeadlineExceeded, which isRetryableErr looks at first.*)
TimesOut(c) == stage[c] = "request" /\ Fails(c, FALSE, "timeout") /\ UNCHANGED Server

RequestCancelled(c) ==
  /\ stage[c] = "request" /\ ctxDone[c]
  /\ Fails(c, FALSE, "cancelled") /\ UNCHANGED Server

Answered(c) ==
  /\ stage[c] = "request" /\ \E s \in recognised : s.key = idemKey[c]
  /\ Return(c, "text") /\ UNCHANGED Server

(* Mutant: doOnce makes a key for each request.                            *)
KeyOfRetryNew(c) == nextKey

(* idemKey is made once, before the loop.                                  *)
KeyOfRetry(c) == idemKey[c]

(* The backoff is over.  Both branches of the select may be ready.         *)
Retry(c) ==
  /\ stage[c] = "backoff"
  /\ Goes(c, "attempt")
  /\ attempt' = [attempt EXCEPT ![c] = @ + 1]
  /\ idemKey' = [idemKey EXCEPT ![c] = KeyOfRetry(c)]
  /\ nextKey' = IF KeyOfRetry(c) = nextKey THEN nextKey + 1 ELSE nextKey
  /\ UNCHANGED <<slots, ctxDone, calls, ended, Server>>

BackoffCancelled(c) ==
  /\ stage[c] = "backoff" /\ ctxDone[c]
  /\ Return(c, "cancelled") /\ UNCHANGED Server

-----------------------------------------------------------------------------
(* The server (external)                                                   *)

Recognise(s) ==
  /\ s \in arrived
  /\ arrived' = arrived \ {s}
  /\ recognised' = recognised \cup {s}
  /\ UNCHANGED callVars

-----------------------------------------------------------------------------
(* Two addresses at most.                                                  *)
Resolutions == {<<a>> : a \in Address} \cup {<<a, b>> : a, b \in Address}

Proceeds(c) ==
  \/ Acquire(c) \/ AcquireCancelled(c) \/ Attempt(c)
  \/ NetworkFails(c) \/ ServerBusy(c) \/ Rejected(c) \/ TimesOut(c) \/ RequestCancelled(c) \/ Answered(c)
  \/ Retry(c) \/ BackoffCancelled(c)

OcrNext ==
  \/ \E c \in Caller :
       \/ CallProcess(c) \/ ContextEnds(c) \/ Proceeds(c)
       \/ \E ips \in Resolutions : Submit(c, ips)
  \/ \E s \in arrived : Recognise(s)

OcrSpec == OcrInit /\ [][OcrNext]_ocrVars

(* Goroutines go on, requests end at the client's timeout at the latest,   *)
(* and goroutines that wait for the semaphore get it in the order in which *)
(* they came.                                                              *)
OcrFairness == \A c \in Caller : WF_ocrVars(Proceeds(c)) /\ SF_ocrVars(Acquire(c))

-----------------------------------------------------------------------------
(* Properties                                                              *)

(* Every way out of Process gives back the slot it took, once: the         *)
(* semaphore counts the calls that are past acquire, never more than its   *)
(* capacity.                                                               *)
SlotsAccounted ==
  /\ slots = Cardinality({c \in Caller : HoldsSlot(c)})
  /\ slots <= MaxConcurrency

(* However often a call is retried, and whenever its requests are handled, *)
(* the server does the work for it at most once; and what a caller is      *)
(* told was recognised was recognised for that very call.                  *)
WorkOncePerCall ==
  /\ \A s, t \in recognised : s.caller = t.caller /\ s.call = t.call => s = t
  /\ \A e \in ended : e.how = "text" =>
       \E s \in recognised : s.caller = e.caller /\ s.call = e.call

(* Every call of Process ends, whatever the server and the other callers   *)
(* do: requests have a timeout, and slots come back.                       *)
CallsEnd == \A c \in Caller : stage[c] = "acquire" ~> stage[c] = "idle"

(* The comment of isRetryableErr: the timeout of a request is retryable,   *)
(* so it cannot end a call that has attempts left.                         *)
TimeoutsAreRetried == \A e \in ended : e.how = "timeout" => e.attempt = MaxRetries
=============================================================================
