-------------------------- MODULE MCRemoteBackend --------------------------
(* Instances of RemoteBackend for TLC: four pages of two scans; a batch is  *)
(* full with three pages, or with the large page p2 and one other.         *)
EXTENDS RemoteBackend

CONSTANTS p1, p2, p3, p4, s1, s2

MCScanOf == [p \in Page |-> IF p = p4 THEN s2 ELSE s1]
MCSize == [p \in Page |-> IF p = p2 THEN 3 ELSE 1]
=============================================================================
