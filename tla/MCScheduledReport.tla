------------------------- MODULE MCScheduledReport --------------------------
(* ScheduledReport for TLC: the replicas are interchangeable.                *)
EXTENDS ScheduledReport, TLC

Symmetry == Permutations(Replicas)
=============================================================================
