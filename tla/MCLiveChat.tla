----------------------------- MODULE MCLiveChat -----------------------------
(* Instances of LiveChat for TLC, and its refinement of ChatSlot.            *)
EXTENDS LiveChat, TLC

Symmetry == Permutations(Requests) \cup Permutations(Specialists) \cup Permutations(Sessions)

StaffOps == {"release", "resolve", "status", "patch", "close", "reopen"}

InFlight(ops) == \E r \in Requests : req'[r].op \in ops

\* An action constraint, for the size of the instance: what staff do to the
\* ticket happens before its first chat, and a chat starts on a ticket in
\* progress.  Assignments and claims happen at any time.
StaffBeforeChat ==
    /\ InFlight(StaffOps) => ~InFlight({"start"}) /\ \A s \in Sessions : session'[s].status = "absent"
    /\ InFlight({"start"}) =>
          \A t \in Tickets : ticket'[t].status = "in_progress" /\ ~ticket'[t].stamped
=============================================================================
