---------------------------- MODULE HandoffOffers ----------------------------
(***************************************************************************)
(* Live-handoff offers: an escalated ticket is offered to one available    *)
(* specialist, and a sweeper re-offers, broadens or gives up               *)
(* (services/specialist_handoff_service.py, specialist_presence_service.py,*)
(* api/v1/specialist_queue.py, scheduler.py _advance_handoff_offers_once). *)
(*                                                                         *)
(* A sweeper pass locks the offers it selects; accepting an offer reads it *)
(* without a lock, and only its write waits for the pass.                  *)
(***************************************************************************)
EXTENDS Naturals

CONSTANTS
    Tickets,      \* tickets escalated from chats, one offer each
    Specialists,  \* IT staff
    Sweepers,     \* scheduler processes
    None,         \* nobody
    Requester,    \* Requester[t]: the employee who asked, staff or not
    PresenceTTL,  \* SPECIALIST_PRESENCE_TTL_SECONDS, in ticks
    OfferTTL,     \* LIVE_OFFER_TTL_SECONDS, in ticks
    FallbackAge,  \* LIVE_HANDOFF_FALLBACK_SECONDS, in ticks
    MaxRounds     \* LIVE_OFFER_MAX_ROUNDS

ASSUME OfferAssumption ==
    /\ None \notin Specialists
    /\ PresenceTTL \in Nat /\ OfferTTL \in Nat /\ FallbackAge \in Nat
    /\ MaxRounds \in Nat \ {0}

VARIABLES
    present,  \* present[p]: declared "available" or "away"
    beat,     \* beat[p]: ticks since the last heartbeat, up to PresenceTTL + 1
    offer,    \* offer[t]: the committed offer row, and the age of its request
    owner,    \* owner[t]: the ticket's assigned_to
    routing,  \* tickets whose escalation has yet to create the offer
    accept,   \* accept[p]: the accept request of p, after its claim
    pass      \* pass[w]: the sweeper's pass in progress

vars == <<present, beat, offer, owner, routing, accept, pass>>

ActiveStates == {"offered", "broadened"}
States == ActiveStates \cup {"absent", "unrouted", "accepted", "fallback"}

\* since and asked are the ticks since offered_at and since created_at.
Offer == [state : States, to : Specialists \cup {None}, round : 0..MaxRounds - 1,
          since : 0..OfferTTL, asked : 0..FallbackAge]
NoOffer == [state |-> "absent", to |-> None, round |-> 0, since |-> 0, asked |-> 0]

Accept == [pc : {"idle", "load", "mark"}, ticket : Tickets \cup {None},
           to : Specialists \cup {None}]
NoAccept == [pc |-> "idle", ticket |-> None, to |-> None]

\* dirty: the session holds a change that no query has flushed.
Pass == [on : BOOLEAN, batch : SUBSET Tickets, locks : SUBSET Tickets, todo : SUBSET Tickets,
         draft : [Tickets -> Offer], dirty : BOOLEAN]
NoPass == [on |-> FALSE, batch |-> {}, locks |-> {}, todo |-> {},
           draft |-> [t \in Tickets |-> NoOffer], dirty |-> FALSE]

TypeOK ==
    /\ present \in [Specialists -> {"available", "away"}]
    /\ beat \in [Specialists -> 0..PresenceTTL + 1]
    /\ offer \in [Tickets -> Offer]
    /\ owner \in [Tickets -> Specialists \cup {None}]
    /\ routing \subseteq Tickets
    /\ accept \in [Specialists -> Accept]
    /\ pass \in [Sweepers -> Pass]

Init ==
    /\ present = [p \in Specialists |-> "away"]
    /\ beat = [p \in Specialists |-> PresenceTTL + 1]
    /\ offer = [t \in Tickets |-> NoOffer]
    /\ owner = [t \in Tickets |-> None]
    /\ routing = {}
    /\ accept = [p \in Specialists |-> NoAccept]
    /\ pass = [w \in Sweepers |-> NoPass]

-----------------------------------------------------------------------------
(* Presence and routing                                                     *)

Available == {p \in Specialists : present[p] = "available" /\ beat[p] <= PresenceTTL}

\* Whoever of these is ranked first gets the offer: the ranking counts all open
\* tickets, so it may be any of them.
Candidates(t, tried) == Available \ {tried, Requester[t]}

Active(t) == offer[t].state \in ActiveStates
Locked(t) == \E w \in Sweepers : t \in pass[w].locks

SetStatus(p, status) ==
    /\ present' = [present EXCEPT ![p] = status]
    /\ beat' = [beat EXCEPT ![p] = 0]
    /\ UNCHANGED <<offer, owner, routing, accept, pass>>

Heartbeat(p) ==
    /\ beat' = [beat EXCEPT ![p] = 0]
    /\ UNCHANGED <<present, offer, owner, routing, accept, pass>>

\* The ticket is committed first, the offer in a second transaction.
Escalate(t) ==
    /\ offer[t].state = "absent"
    /\ offer' = [offer EXCEPT ![t].state = "unrouted"]
    /\ routing' = routing \cup {t}
    /\ UNCHANGED <<present, beat, owner, accept, pass>>

CreateOffer(t) ==
    /\ t \in routing
    /\ \/ /\ Candidates(t, None) = {}
          /\ UNCHANGED offer
       \/ \E p \in Candidates(t, None) :
             offer' = [offer EXCEPT ![t] = [NoOffer EXCEPT !.state = "offered", !.to = p]]
    /\ routing' = routing \ {t}
    /\ UNCHANGED <<present, beat, owner, accept, pass>>

\* Whatever goes wrong in there is swallowed: the ticket stays without an offer.
CreateOfferFails(t) ==
    /\ t \in routing
    /\ routing' = routing \ {t}
    /\ UNCHANGED <<present, beat, offer, owner, accept, pass>>

-----------------------------------------------------------------------------
(* Claim, accept and release                                                *)

Claimable(p, t) == offer[t].state # "absent" /\ owner[t] \in {None, p}

Claim(p, t) ==
    /\ Claimable(p, t)
    /\ owner' = [owner EXCEPT ![t] = p]
    /\ UNCHANGED <<present, beat, offer, routing, accept, pass>>

\* accept_offer claims and commits before it looks at the offer.
AcceptClaim(p, t) ==
    /\ accept[p].pc = "idle"
    /\ Claimable(p, t)
    /\ owner' = [owner EXCEPT ![t] = p]
    /\ accept' = [accept EXCEPT ![p] = [pc |-> "load", ticket |-> t, to |-> None]]
    /\ UNCHANGED <<present, beat, offer, routing, pass>>

AcceptLoad(p) ==
    LET t == accept[p].ticket
    IN  /\ accept[p].pc = "load"
        /\ accept' = [accept EXCEPT ![p] =
               IF Active(t) THEN [pc |-> "mark", ticket |-> t, to |-> offer[t].to]
                            ELSE NoAccept]
        /\ UNCHANGED <<present, beat, offer, owner, routing, pass>>

\* The update waits for a pass that holds the row, then writes the columns
\* that differ from what was loaded.
AcceptMark(p) ==
    LET t == accept[p].ticket
    IN  /\ accept[p].pc = "mark"
        /\ ~Locked(t)
        /\ offer' = [offer EXCEPT ![t] =
               [@ EXCEPT !.state = "accepted",
                         !.to = IF accept[p].to = p THEN offer[t].to ELSE p]]
        /\ accept' = [accept EXCEPT ![p] = NoAccept]
        /\ UNCHANGED <<present, beat, owner, routing, pass>>

AcceptDies(p) ==
    /\ accept[p].pc # "idle"
    /\ accept' = [accept EXCEPT ![p] = NoAccept]
    /\ UNCHANGED <<present, beat, offer, owner, routing, pass>>

\* The ticket is handed back, perhaps by somebody who owned it when the request
\* loaded it (see LiveChat), or a lead gives it to somebody.
Release(t) ==
    /\ owner[t] # None
    /\ owner' = [owner EXCEPT ![t] = None]
    /\ UNCHANGED <<present, beat, offer, routing, accept, pass>>

Assign(p, t) ==
    /\ offer[t].state # "absent"
    /\ owner' = [owner EXCEPT ![t] = p]
    /\ UNCHANGED <<present, beat, offer, routing, accept, pass>>

-----------------------------------------------------------------------------
(* The sweeper                                                              *)

\* Mutant: the select loses its FOR UPDATE.
PassLoadUnlocked(w) ==
    LET batch == {t \in Tickets : Active(t)}
    IN  /\ ~pass[w].on
        /\ batch # {}
        /\ pass' = [pass EXCEPT ![w] = [on |-> TRUE, batch |-> batch, locks |-> {},
                                        todo |-> batch, draft |-> offer, dirty |-> FALSE]]
        /\ UNCHANGED <<present, beat, offer, owner, routing, accept>>

\* FOR UPDATE SKIP LOCKED.
PassLoad(w) ==
    LET batch == {t \in Tickets : Active(t) /\ ~Locked(t)}
    IN  /\ ~pass[w].on
        /\ batch # {}
        /\ pass' = [pass EXCEPT ![w] = [on |-> TRUE, batch |-> batch, locks |-> batch,
                                        todo |-> batch, draft |-> offer, dirty |-> FALSE]]
        /\ UNCHANGED <<present, beat, offer, owner, routing, accept>>

\* Mutant: the round cap is off by one.
DecisionOneRoundMore(t, o) ==
    IF o.asked >= FallbackAge THEN "fallback"
    ELSE IF o.since < OfferTTL THEN "hold"
    ELSE IF o.round < MaxRounds /\ Candidates(t, o.to) # {} THEN "reoffer"
    ELSE IF Available # {} THEN "broaden"
    ELSE "fallback"

\* decide_next.
Decision(t, o) ==
    IF o.asked >= FallbackAge THEN "fallback"
    ELSE IF o.since < OfferTTL THEN "hold"
    ELSE IF o.round + 1 < MaxRounds /\ Candidates(t, o.to) # {} THEN "reoffer"
    ELSE IF Available # {} THEN "broaden"
    ELSE "fallback"

\* What advance_once may make of an offer.  A re-offer keeps the state: a
\* broadened offer stays broadened.
Advanced(t, o) ==
    IF owner[t] # None THEN {[o EXCEPT !.state = "accepted"]}
    ELSE CASE Decision(t, o) = "hold" -> {o}
           [] Decision(t, o) = "reoffer" ->
                {[o EXCEPT !.to = p, !.since = 0, !.round = @ + 1] : p \in Candidates(t, o.to)}
           [] Decision(t, o) = "broaden" -> {[o EXCEPT !.state = "broadened", !.to = None]}
           [] OTHER -> {[o EXCEPT !.state = "fallback"]}

\* One offer of the batch.  Its queries flush what the offers before it changed.
PassAdvance(w) ==
    \E t \in pass[w].todo : \E next \in Advanced(t, pass[w].draft[t]) :
       /\ pass' = [pass EXCEPT
              ![w].todo = @ \ {t}, ![w].draft[t] = next,
              ![w].dirty = owner[t] # None \/ Decision(t, pass[w].draft[t]) # "hold"]
       /\ UNCHANGED <<present, beat, offer, owner, routing, accept>>

\* Mutant: the pass does not commit.
PassEndUncommitted(w) ==
    /\ pass[w].on /\ pass[w].todo = {}
    /\ pass' = [pass EXCEPT ![w] = NoPass]
    /\ UNCHANGED <<present, beat, offer, owner, routing, accept>>

\* The pass commits if its session is still dirty, and rolls back otherwise.
PassEnd(w) ==
    /\ pass[w].on /\ pass[w].todo = {}
    /\ offer' = IF pass[w].dirty
                THEN [t \in Tickets |-> IF t \in pass[w].batch THEN pass[w].draft[t] ELSE offer[t]]
                ELSE offer
    /\ pass' = [pass EXCEPT ![w] = NoPass]
    /\ UNCHANGED <<present, beat, owner, routing, accept>>

PassDies(w) ==
    /\ pass[w].on
    /\ pass' = [pass EXCEPT ![w] = NoPass]
    /\ UNCHANGED <<present, beat, offer, owner, routing, accept>>

\* A pass reads the clock once: time does not pass during one.
Tick ==
    LET ages(t) == Active(t) /\ (offer[t].since < OfferTTL \/ offer[t].asked < FallbackAge)
        older(n, cap) == IF n < cap THEN n + 1 ELSE n
    IN  /\ \A w \in Sweepers : ~pass[w].on
        /\ (\E t \in Tickets : ages(t)) \/ (\E p \in Specialists : beat[p] <= PresenceTTL)
        /\ offer' = [t \in Tickets |->
               IF ages(t) THEN [offer[t] EXCEPT !.since = older(@, OfferTTL),
                                                !.asked = older(@, FallbackAge)]
                          ELSE offer[t]]
        /\ beat' = [p \in Specialists |-> older(beat[p], PresenceTTL + 1)]
        /\ UNCHANGED <<present, owner, routing, accept, pass>>

Next ==
    \/ \E p \in Specialists : \/ \E status \in {"available", "away"} : SetStatus(p, status)
                              \/ Heartbeat(p)
                              \/ AcceptLoad(p) \/ AcceptMark(p) \/ AcceptDies(p)
                              \/ \E t \in Tickets : Claim(p, t) \/ AcceptClaim(p, t) \/ Assign(p, t)
    \/ \E t \in Tickets : Escalate(t) \/ CreateOffer(t) \/ CreateOfferFails(t) \/ Release(t)
    \/ \E w \in Sweepers : PassLoad(w) \/ PassAdvance(w) \/ PassEnd(w) \/ PassDies(w)
    \/ Tick

Spec == Init /\ [][Next]_vars

\* Every scheduler wakes up again and again and its passes run to their end;
\* time goes on between passes, and passes do not die for ever (the end of a
\* pass that rolls back looks like a death).
Fairness ==
    /\ \A w \in Sweepers : WF_vars(PassLoad(w) \/ PassAdvance(w) \/ PassEnd(w))
    /\ SF_vars(Tick)
    /\ <>[][\A w \in Sweepers : PassDies(w) => PassEnd(w)]_vars

FairSpec == Spec /\ Fairness

-----------------------------------------------------------------------------
(* Properties                                                               *)

\* An offer that was accepted, or given up, is never offered again: neither a
\* sweeper pass nor a re-offer in flight writes over an acceptance, which
\* itself may still come after the fallback.
ClosedStaysClosed ==
    [][\A t \in Tickets :
          /\ offer[t].state = "accepted" => offer'[t].state = "accepted"
          /\ offer[t].state = "fallback" => offer'[t].state \in {"fallback", "accepted"}]_vars

\* The specialist an offer is made to has it for the whole
\* LIVE_OFFER_TTL_SECONDS, however many schedulers advance the same table.
TurnIsWhole ==
    [][\A t \in Tickets :
          (Active(t) /\ offer[t].since < OfferTTL /\ offer'[t].state \in ActiveStates)
             => /\ offer'[t].to = offer[t].to
                /\ offer'[t].round = offer[t].round
                /\ offer'[t].state = offer[t].state]_vars

\* Every offer ends: accepted, or given up after LIVE_HANDOFF_FALLBACK_SECONDS
\* whoever is available and however often it is claimed and released.
OffersEnd == \A t \in Tickets : Active(t) ~> ~Active(t)
-----------------------------------------------------------------------------
(* The promise of OfferTurns                                                *)

\* A broadened offer that was made to somebody again counts as his turn,
\* though the listing of his offers does not show it.
Stage(t) ==
    CASE offer[t].state \in {"absent", "unrouted"} -> "none"
      [] offer[t].state = "accepted" -> "accepted"
      [] offer[t].state = "fallback" -> "given up"
      [] Active(t) /\ offer[t].asked >= FallbackAge -> "late"
      [] Active(t) /\ offer[t].asked < FallbackAge /\ offer[t].since >= OfferTTL -> "over"
      [] Active(t) /\ offer[t].asked < FallbackAge /\ offer[t].since < OfferTTL -> "turn"

Turns(t) == IF Stage(t) = "none" THEN 0 ELSE offer[t].round + 1

Rotation == INSTANCE OfferTurns WITH
    MaxTurns <- MaxRounds,
    stage <- [t \in Tickets |-> Stage(t)],
    holder <- [t \in Tickets |-> offer[t].to],
    turns <- [t \in Tickets |-> Turns(t)]

\* However the acceptances, the routing and the passes of all schedulers meet,
\* an offer goes round as decide_next says: from one specialist to another
\* when his turn is over, at most LIVE_OFFER_MAX_ROUNDS times, never to the
\* employee who asked, and not at all once LIVE_HANDOFF_FALLBACK_SECONDS are over.
OffersTakeTurns == Rotation!Spec
=============================================================================
