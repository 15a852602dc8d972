--------------------------- MODULE ContentClaims ---------------------------
(***************************************************************************)
(* What content-digest deduplication promises, with no index, no requests  *)
(* and no workers: a digest is claimed by at most one page at a time, a    *)
(* page is acknowledged as indexed only while it holds the claim on its    *)
(* digest, and the claim of an acknowledged page is never given up.  So at *)
(* most one page per content is ever acknowledged.                         *)
(***************************************************************************)
CONSTANTS
  Page,      \* page identifiers (scan ID and sequence number)
  Digest,    \* SHA-256 digests of page contents
  Content,   \* the digest of each page's bytes
  None       \* not a page

VARIABLES
  claim,     \* the page that holds each digest, or None
  acked      \* the pages reported to a caller as indexed

vars == <<claim, acked>>

Init ==
  /\ claim = [d \in Digest |-> None]
  /\ acked = {}

Claim(p) ==
  /\ claim[Content[p]] = None
  /\ claim' = [claim EXCEPT ![Content[p]] = p]
  /\ UNCHANGED acked

Acknowledge(p) ==
  /\ claim[Content[p]] = p
  /\ acked' = acked \cup {p}
  /\ UNCHANGED claim

Abandon(d) ==
  /\ claim[d] # None
  /\ claim[d] \notin acked
  /\ claim' = [claim EXCEPT ![d] = None]
  /\ UNCHANGED acked

Next ==
  \/ \E p \in Page : Claim(p) \/ Acknowledge(p)
  \/ \E d \in Digest : Abandon(d)

Spec == Init /\ [][Next]_vars

(* What a caller may rely on: no two pages with the same bytes are ever    *)
(* both acknowledged.                                                      *)
OneAckPerContent ==
  \A p, q \in acked : Content[p] = Content[q] => p = q
=============================================================================
