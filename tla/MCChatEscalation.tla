-------------------------- MODULE MCChatEscalation ---------------------------
(* ChatEscalation for TLC: requests, and workers, are interchangeable.       *)
EXTENDS ChatEscalation, TLC

Symmetry == Permutations(Requests) \cup Permutations(Workers)
=============================================================================
