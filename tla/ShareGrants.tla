---------------------------- MODULE ShareGrants -----------------------------
(***************************************************************************)
(* What a share link promises, with no database, no records loaded earlier *)
(* and no answers that are lost on the way: a visitor shows the passphrase *)
(* before the deadline and is admitted later, at one instant at which the  *)
(* share is open and a view is left, and that view is gone from then on.   *)
(* Views may be lost with nobody admitted.  What is closed stays as it is. *)
(***************************************************************************)
EXTENDS Naturals

CONSTANTS
  Share,
  Visitor,
  Limit,       \* the views of each share, 0 for any number
  Deadline     \* when each share expires

VARIABLES
  clock,
  closed,      \* shares that are revoked
  spent,       \* views taken of each share
  passed,      \* <<visitor, share>>: has shown the passphrase in time
  admitted     \* <<visitor, share>>: gets the page

vars == <<clock, closed, spent, passed, admitted>>

Init ==
  /\ clock = 0
  /\ closed = {}
  /\ spent = [s \in Share |-> 0]
  /\ passed = {} /\ admitted = {}

Tick ==
  /\ clock' = clock + 1
  /\ UNCHANGED <<closed, spent, passed, admitted>>

Close(s) ==
  /\ closed' = closed \cup {s}
  /\ UNCHANGED <<clock, spent, passed, admitted>>

Pass(v, s) ==
  /\ clock < Deadline[s]
  /\ passed' = passed \cup {<<v, s>>}
  /\ UNCHANGED <<clock, closed, spent, admitted>>

(* The one moment that counts: everything that can keep a visitor out is   *)
(* decided in the step that takes the view.                                *)
Spend(v, s) ==
  /\ <<v, s>> \in passed
  /\ s \notin closed
  /\ Limit[s] > 0 => spent[s] < Limit[s]
  /\ spent' = [spent EXCEPT ![s] = @ + 1]
  /\ UNCHANGED <<clock, closed>>

TakeView(v, s) ==
  /\ Spend(v, s)
  /\ passed' = passed \ {<<v, s>>}
  /\ admitted' \in {admitted, admitted \cup {<<v, s>>}}

(* A view is wasted on a visitor who may still be admitted.                *)
WasteView(v, s) ==
  /\ Spend(v, s)
  /\ UNCHANGED <<passed, admitted>>

Leave(v, s) ==
  /\ passed' = passed \ {<<v, s>>}
  /\ UNCHANGED <<clock, closed, spent, admitted>>

Next ==
  \/ \E v \in Visitor, s \in Share : Leave(v, s) \/ Pass(v, s) \/ TakeView(v, s) \/ WasteView(v, s)
  \/ Tick
  \/ \E s \in Share : Close(s)

Spec == Init /\ [][Next]_vars
=============================================================================
