----------------------------- MODULE PageStore ------------------------------
(***************************************************************************)
(* What a page storage promises (pkg/storage/model/interface.go), without  *)
(* files, requests or retries: under its key a page is there whole or not  *)
(* at all, whatever fails in between.                                      *)
(*                                                                         *)
(* A page may be visible before it is settled on the disk.  Until then a   *)
(* power loss may bring back what the key named earlier, whole as well, or *)
(* nothing.  No call promises that a page is settled when it returns.      *)
(***************************************************************************)
CONSTANTS
  Key,     \* scan ID and sequence number
  Listable,\* the keys that ListPages is to list
  Bytes,   \* what pages are made of
  Unreadable, \* what pages of earlier processes may be that Retrieve makes nothing of
  NoPage

VARIABLES
  stored,  \* stored[k]: the page that Retrieve is to return, or NoPage
  listed,  \* what ListPages returns
  behind   \* behind[k]: what a power loss may bring back

vars == <<stored, listed, behind>>

Content == Bytes \cup Unreadable \cup {NoPage}

(* What is listed is there, and is all that is.                            *)
Lists == listed = {k \in Listable : stored[k] # NoPage}

(* A power loss brings back nothing but what is there.                     *)
Settled == behind \in [Key -> SUBSET Content]
           /\ \A k \in Key : behind[k] \subseteq {stored[k]}

(* Pages of earlier processes may be there, and be listed though Retrieve  *)
(* fails.  No call makes such a page.                                      *)
Init ==
  /\ stored \in [Key -> Content]
  /\ Settled
  /\ Lists

Becomes(k, what) ==
  /\ stored' = [stored EXCEPT ![k] = what]
  /\ behind' \in {behind, [behind EXCEPT ![k] = @ \cup {stored[k]}]}

Put(k, b) == Becomes(k, b)

Delete(k) == stored[k] # NoPage /\ Becomes(k, NoPage)

(* Some of what could come back no longer can.                             *)
Settle ==
  /\ behind' \in [Key -> SUBSET Content]
  /\ \A k \in Key : behind'[k] \subseteq behind[k]
  /\ UNCHANGED stored

PowerLoss ==
  /\ stored' \in [Key -> Content]
  /\ \A k \in Key : stored'[k] \in {stored[k]} \cup behind[k]
  /\ Settled'

Next ==
  /\ \/ Settle \/ PowerLoss
     \/ \E k \in Key : (\E b \in Bytes : Put(k, b)) \/ Delete(k)
  /\ Lists'

Spec == Init /\ [][Next]_vars
=============================================================================
