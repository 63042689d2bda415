----------------------------- MODULE OfferTurns -----------------------------
(***************************************************************************)
(* What the hand-off promises of an escalated ticket: it is offered to one *)
(* specialist at a time, never to its requester, and to another one only   *)
(* when a turn is over, so many times; then it may be offered to all.      *)
(* Once the request is late it is not offered anew, but only given up or   *)
(* accepted, and what was accepted stays so.                               *)
(***************************************************************************)
EXTENDS Naturals

CONSTANTS Tickets, Specialists, None, Requester, MaxTurns

VARIABLES
    stage,   \* stage[t]: how far the offer of t has come
    holder,  \* holder[t]: who has it, or None if it is everybody's
    turns    \* turns[t]: the turns that were begun

rotation == <<stage, holder, turns>>

\* "turn", "over" and "late": it is offered and its turn runs, or is over, or
\* the time for the request is.
Stages == {"none", "turn", "over", "late", "accepted", "given up"}

Init ==
    /\ stage = [t \in Tickets |-> "none"]
    /\ holder = [t \in Tickets |-> None]
    /\ turns = [t \in Tickets |-> 0]

Stays(t) == stage'[t] = stage[t] /\ holder'[t] = holder[t] /\ turns'[t] = turns[t]

FirstTurn(t) ==
    /\ stage[t] = "none" /\ stage'[t] \in {"turn", "over", "late"}
    /\ holder'[t] \in Specialists \ {Requester[t]}
    /\ turns'[t] = 1

\* A turn may be of no length.
NextTurn(t) ==
    /\ stage[t] = "over" /\ stage'[t] \in {"turn", "over"}
    /\ turns[t] < MaxTurns /\ turns'[t] = turns[t] + 1
    /\ holder'[t] \in Specialists \ {holder[t], Requester[t]}

Everybody(t) ==
    /\ stage[t] = "over" /\ stage'[t] = "over"
    /\ holder'[t] = None
    /\ turns'[t] = turns[t]

Age(t) ==
    /\ \/ stage[t] = "turn" /\ stage'[t] \in {"over", "late"}
       \/ stage[t] = "over" /\ stage'[t] = "late"
    /\ holder'[t] = holder[t] /\ turns'[t] = turns[t]

\* Also after it was given up, and by one who was in the middle of it.
Accept(t) ==
    /\ stage[t] # "none" /\ stage'[t] = "accepted"
    /\ holder'[t] \in Specialists \cup {holder[t]}
    /\ turns'[t] = turns[t]

GiveUp(t) ==
    /\ stage[t] \in {"over", "late"} /\ stage'[t] = "given up"
    /\ holder'[t] = holder[t] /\ turns'[t] = turns[t]

\* A sweep commits what it made of all its tickets, and time passes for all.
Next ==
    /\ stage' \in [Tickets -> Stages]
    /\ holder' \in [Tickets -> Specialists \cup {None}]
    /\ turns' \in [Tickets -> 0..MaxTurns]
    /\ \A t \in Tickets :
          Stays(t) \/ FirstTurn(t) \/ NextTurn(t) \/ Everybody(t) \/ Age(t) \/ Accept(t) \/ GiveUp(t)

Spec == Init /\ [][Next]_rotation
=============================================================================
