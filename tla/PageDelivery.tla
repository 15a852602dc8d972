---------------------------- MODULE PageDelivery ----------------------------
(***************************************************************************)
(* What an upload client owes its callers, with no buffer, no batches, no  *)
(* timer and no locks.  A page that it has taken waits until it leaves in  *)
(* one attempt, and only one: the pages of an attempt that succeeds are    *)
(* delivered, those of one that fails may be, and the failure is told to   *)
(* the caller at hand or, when there is none, is remembered until it is.   *)
(* A page is acknowledged while it waits, or with its delivery.            *)
(***************************************************************************)
CONSTANT Page

VARIABLES
  waiting,     \* pages taken and not yet sent
  delivered,   \* pages the server has dealt with
  lost,        \* pages of failed attempts nobody was told of
  told,        \* pages of failed attempts some caller was told of
  failed,      \* there is a failure to tell
  acked        \* pages whose caller was told that all is well

vars == <<waiting, delivered, lost, told, failed, acked>>

Init ==
  /\ waiting = {} /\ delivered = {}
  /\ lost = {} /\ told = {} /\ failed = FALSE
  /\ acked = {}

(* At most one page is acknowledged in a step, one of those in S.          *)
MayAck(S) == UNCHANGED acked \/ \E p \in S : acked' = acked \cup {p}

(* A page comes once.                                                      *)
Hold(p) ==
  /\ p \notin waiting \cup delivered \cup lost \cup told
  /\ waiting' = waiting \cup {p}
  /\ MayAck({p})
  /\ UNCHANGED <<delivered, lost, told, failed>>

(* All that was lost is told at once; only now may the failure be          *)
(* forgotten.                                                              *)
TellWith(S) ==
  /\ failed
  /\ lost' = {}
  /\ told' = told \cup lost \cup S
  /\ failed' \in BOOLEAN

Tell ==
  /\ TellWith({})
  /\ UNCHANGED <<waiting, delivered, acked>>

Deliver(S) ==
  /\ waiting' = waiting \ S
  /\ delivered' = delivered \cup S
  /\ MayAck(S)
  /\ TellWith({}) \/ UNCHANGED <<lost, told, failed>>

(* The answer may be lost when the pages are not.                          *)
Fail(S) ==
  /\ waiting' = waiting \ S
  /\ \E D \in SUBSET S : delivered' = delivered \cup D
  /\ UNCHANGED acked
  /\ \/ failed' = TRUE /\ lost' = lost \cup S /\ UNCHANGED told
     \/ told' = told \cup S /\ UNCHANGED <<lost, failed>>
     \/ TellWith(S)

Next ==
  \/ \E p \in Page : Hold(p)
  \/ \E S \in SUBSET waiting : Deliver(S) \/ Fail(S)
  \/ Tell

Spec == Init /\ [][Next]_vars
=============================================================================
