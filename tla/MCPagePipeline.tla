--------------------------- MODULE MCPagePipeline ---------------------------
(* Instances of PagePipeline for TLC: every page has the same bytes, which *)
(* is the case the protocol is about; digests do not interact.             *)
EXTENDS PagePipeline, TLC

CONSTANT d1

MCContent == [p \in Page |-> d1]
WorkerSymmetry == Permutations(Worker)
=============================================================================
