----------------------------- MODULE MCClients ------------------------------
(***************************************************************************)
(* The three clients of the server: two scans on one remote backend, an    *)
(* upload from the browser and its search view.  They share no state, so   *)
(* each behaviour follows one of them, chosen at the start, and the others *)
(* stay in their initial state: the sum of the state spaces, not their     *)
(* product.                                                                *)
(***************************************************************************)
EXTENDS RemoteScan, Uploads, SearchView

CONSTANTS p1, p2, p3, p4, s1, s2, d1, d2

VARIABLE focus

(* Two scans of the remote ingestion client.                               *)
MCScanOf == [p \in Page |-> IF p = p4 THEN s2 ELSE s1]
MCSize == [p \in Page |-> 1]
MCSessions == << <<p1, p2, p3>>, <<p4>> >>

(* Up to three files, of which the third has the bytes of the first.       *)
MCContent == [f \in File |-> IF f = 2 THEN d2 ELSE d1]

(* One term and one set of filters: a page of hits, or three with both, so *)
(* that the one in the middle can be skipped.                              *)
MCMatches == [q \in Query |-> IF q.term = Blank \/ q.filters = NoFilters THEN 1 ELSE 3]

clientsVars == <<allVars, uploadVars, searchVars, focus>>

ClientsInit ==
  /\ ScanInit /\ UploadInit /\ SearchInit
  /\ focus \in {"scan", "upload", "search"}

ClientsNext ==
  \/ focus = "scan" /\ ScanNext /\ UNCHANGED <<uploadVars, searchVars, focus>>
  \/ focus = "upload" /\ UploadNext /\ UNCHANGED <<allVars, searchVars, focus>>
  \/ focus = "search" /\ SearchNext /\ UNCHANGED <<allVars, uploadVars, focus>>

(* No fair action of a component is enabled in its initial state, so those *)
(* that do not move are owed nothing.                                      *)
ClientsSpec ==
  /\ ClientsInit /\ [][ClientsNext]_clientsVars
  /\ ScanFairness /\ SearchFairness
=============================================================================
