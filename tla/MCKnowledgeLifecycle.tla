------------------------ MODULE MCKnowledgeLifecycle -------------------------
(* KnowledgeLifecycle for TLC: requests, and the texts, are interchangeable. *)
EXTENDS KnowledgeLifecycle, TLC

Symmetry == Permutations(Requests) \cup Permutations(Contents)
=============================================================================
