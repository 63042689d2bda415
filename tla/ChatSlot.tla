------------------------------ MODULE ChatSlot ------------------------------
(***************************************************************************)
(* What live chat promises a ticket: a slot for one conversation.  It is   *)
(* taken only when it is empty, and a conversation is closed before        *)
(* another one takes its place.                                            *)
(***************************************************************************)
CONSTANTS Tickets, Sessions

VARIABLE slot  \* slot[t]: the live conversations of ticket t

Init == slot = [t \in Tickets |-> {}]

\* A conversation, new or resumed, takes the empty slot.
Open(t, s) ==
    /\ slot[t] = {}
    /\ slot' = [slot EXCEPT ![t] = {s}]

\* Conversations end, on one ticket or, in a sweep, on several at once.
Close == \E T \in SUBSET Tickets :
            slot' = [t \in Tickets |-> IF t \in T THEN {} ELSE slot[t]]

Next == Close \/ \E t \in Tickets, s \in Sessions : Open(t, s)

Spec == Init /\ [][Next]_slot
=============================================================================
