------------------------- MODULE HandoffOffers_proofs -------------------------
(***************************************************************************)
(* Safety of HandoffOffers for any number of tickets, specialists and      *)
(* schedulers, and any setting of the timeouts: a closed offer stays       *)
(* closed, and a specialist keeps an offer for his whole turn.             *)
(*                                                                         *)
(* The invariant is what FOR UPDATE SKIP LOCKED gives a pass: while it     *)
(* runs nobody else touches its offers, so that what it decided from the   *)
(* rows it loaded still fits them when it commits.  For the refinement of  *)
(* OfferTurns this is said exactly: each draft is what advance_once may    *)
(* make of the row as it is committed (DraftsOK).                          *)
(***************************************************************************)
EXTENDS HandoffOffers, TLAPS

\* What one step may make of an offer that is still in its turn.
InTurn(o, n) ==
    o.since < OfferTTL /\ n.state \in ActiveStates =>
       n.to = o.to /\ n.round = o.round /\ n.state = o.state

NotYet == {"absent", "unrouted"}

\* What a pass may rely on: its rows are as it loaded them.
PassOK(w) ==
    /\ ~pass[w].on => pass[w].locks = {}
    /\ pass[w].on => pass[w].batch = pass[w].locks
    /\ pass[w].todo \subseteq pass[w].locks
    /\ \A t \in pass[w].locks : /\ Active(t)
                                /\ t \in pass[w].todo => pass[w].draft[t] = offer[t]
                                /\ InTurn(offer[t], pass[w].draft[t])
                                /\ pass[w].draft[t].state \notin NotYet

PassesOK == \A w \in Sweepers : PassOK(w)
LocksDisjoint == \A v, w \in Sweepers : v # w => pass[v].locks \cap pass[w].locks = {}
RoutingOK == \A t \in routing : offer[t].state = "unrouted"
\* An acceptance that is about to write has found an offer.
AcceptsOK ==
    \A p \in Specialists :
       /\ accept[p].pc # "idle" => accept[p].ticket \in Tickets
       /\ accept[p].pc = "mark" => offer[accept[p].ticket].state \notin NotYet

IInv == TypeOK /\ AcceptsOK /\ PassesOK /\ LocksDisjoint /\ RoutingOK

-----------------------------------------------------------------------------
(* One offer                                                                *)

\* advance_once makes an offer of an offer, and ends a turn only when it is over.
LEMMA AdvancedFacts ==
    ASSUME NEW t, NEW o \in Offer, NEW n \in Advanced(t, o)
    PROVE  /\ n \in Offer /\ InTurn(o, n)
           /\ o.state \in ActiveStates => n.state \notin NotYet
<1>1. CASE owner[t] # None
      BY <1>1 DEF Advanced, Offer, InTurn, States, ActiveStates, NotYet
<1>2. CASE owner[t] = None /\ Decision(t, o) = "hold"
      BY <1>2 DEF Advanced, InTurn, ActiveStates, NotYet
<1>3. CASE owner[t] = None /\ Decision(t, o) = "reoffer"
  <2>1. o.since >= OfferTTL /\ o.round + 1 < MaxRounds
        BY <1>3, OfferAssumption DEF Decision, Offer
  <2>2. PICK p \in Specialists : n = [o EXCEPT !.to = p, !.since = 0, !.round = @ + 1]
        BY <1>3 DEF Advanced, Candidates, Available
  <2>3. o.round + 1 \in 0..MaxRounds - 1 /\ 0 \in 0..OfferTTL
        BY <2>1, OfferAssumption DEF Offer
  <2>4. n \in Offer /\ n.state = o.state
        BY <2>2, <2>3 DEF Offer
  <2>5. InTurn(o, n)
        BY <2>1, OfferAssumption DEF Offer, InTurn
  <2> QED
        BY <2>4, <2>5 DEF ActiveStates, NotYet
<1>4. CASE owner[t] = None /\ Decision(t, o) = "broaden"
  <2>1. o.since >= OfferTTL
        BY <1>4, OfferAssumption DEF Decision, Offer
  <2>2. n = [o EXCEPT !.state = "broadened", !.to = None]
        BY <1>4 DEF Advanced
  <2>3. n \in Offer /\ n.state = "broadened"
        BY <2>2 DEF Offer, States, ActiveStates
  <2>4. InTurn(o, n)
        BY <2>1, OfferAssumption DEF Offer, InTurn
  <2> QED
        BY <2>3, <2>4 DEF NotYet
<1>5. CASE owner[t] = None /\ Decision(t, o) \notin {"hold", "reoffer", "broaden"}
  <2>1. n = [o EXCEPT !.state = "fallback"]
        BY <1>5 DEF Advanced
  <2> QED
        BY <2>1 DEF Offer, InTurn, States, ActiveStates, NotYet
<1> QED
    BY <1>1, <1>2, <1>3, <1>4, <1>5

-----------------------------------------------------------------------------
(* Steps that leave the passes alone                                        *)

\* Such a step keeps the invariant if it writes no locked offer.
LEMMA RowStepPreserves ==
    ASSUME IInv, TypeOK', AcceptsOK', UNCHANGED pass,
           \A t \in Tickets : Locked(t) => offer'[t] = offer[t],
           \A t \in routing' : offer'[t].state = "unrouted"
    PROVE  IInv'
<1>1. ASSUME NEW w \in Sweepers, NEW t \in pass[w].locks
      PROVE  offer'[t] = offer[t]
  <2>1. t \in Tickets
        BY DEF IInv, TypeOK, Pass
  <2> QED
        BY <2>1 DEF Locked
<1>2. ASSUME NEW w \in Sweepers
      PROVE  PassOK(w)'
  <2>1. PassOK(w)
        BY DEF IInv, PassesOK
  <2> QED
        BY <1>1, <2>1 DEF PassOK, Active, InTurn
<1> QED
    BY <1>2 DEF IInv, PassesOK, LocksDisjoint, RoutingOK

\* A locked offer is active.
LEMMA LockedIsActive ==
    ASSUME IInv, NEW t \in Tickets, Locked(t)
    PROVE  Active(t)
BY DEF IInv, PassesOK, PassOK, Locked

\* Presence, claims, hand-backs and the part of an acceptance before its write.
LEMMA TicketStepPreserves ==
    ASSUME IInv, NEW p, NEW t,
           \/ /\ p \in Specialists
              /\ \/ \E status \in {"available", "away"} : SetStatus(p, status)
                 \/ Heartbeat(p) \/ AcceptLoad(p) \/ AcceptDies(p)
           \/ /\ p \in Specialists /\ t \in Tickets
              /\ Claim(p, t) \/ AcceptClaim(p, t) \/ Assign(p, t)
           \/ t \in Tickets /\ (Release(t) \/ CreateOfferFails(t))
    PROVE  IInv'
<1>1. UNCHANGED <<offer, pass>> /\ routing' \subseteq routing
      BY DEF SetStatus, Heartbeat, AcceptLoad, AcceptDies, Claim, AcceptClaim, Assign, Release,
             CreateOfferFails
<1>2. present' \in [Specialists -> {"available", "away"}]
      BY DEF IInv, TypeOK, SetStatus, Heartbeat, AcceptLoad, AcceptDies, Claim, AcceptClaim,
             Assign, Release, CreateOfferFails
<1>3. beat' \in [Specialists -> 0..PresenceTTL + 1]
      BY OfferAssumption DEF IInv, TypeOK, SetStatus, Heartbeat, AcceptLoad, AcceptDies, Claim,
             AcceptClaim, Assign, Release, CreateOfferFails
<1>4. owner' \in [Tickets -> Specialists \cup {None}]
      BY DEF IInv, TypeOK, SetStatus, Heartbeat, AcceptLoad, AcceptDies, Claim, AcceptClaim,
             Assign, Release, CreateOfferFails
<1>5. accept' \in [Specialists -> Accept]
  <2>1. NoAccept \in Accept
        BY DEF NoAccept, Accept
  <2>2. CASE p \in Specialists /\ AcceptLoad(p)
    <3>1. accept[p] \in Accept /\ accept[p].ticket \in Tickets
          BY <2>2 DEF IInv, TypeOK, AcceptsOK, AcceptLoad
    <3>2. Active(accept[p].ticket) =>
             [pc |-> "mark", ticket |-> accept[p].ticket, to |-> offer[accept[p].ticket].to] \in Accept
      <4>1. offer[accept[p].ticket].to \in Specialists \cup {None}
            BY <3>1 DEF IInv, TypeOK, Offer
      <4> QED
          BY <3>1, <4>1 DEF Accept
    <3> QED
          BY <2>1, <2>2, <3>2 DEF AcceptLoad, IInv, TypeOK
  <2>3. CASE p \in Specialists /\ t \in Tickets /\ AcceptClaim(p, t)
        BY <2>3 DEF AcceptClaim, Accept, IInv, TypeOK
  <2>4. CASE p \in Specialists /\ AcceptDies(p)
        BY <2>1, <2>4 DEF AcceptDies, IInv, TypeOK
  <2>5. CASE UNCHANGED accept
        BY <2>5 DEF IInv, TypeOK
  <2> QED
        BY <2>2, <2>3, <2>4, <2>5 DEF SetStatus, Heartbeat, Claim, Assign, Release,
           CreateOfferFails
<1>6. TypeOK'
      BY <1>1, <1>2, <1>3, <1>4, <1>5 DEF IInv, TypeOK
<1>7. AcceptsOK'
      BY <1>1, <1>5 DEF IInv, TypeOK, AcceptsOK, SetStatus, Heartbeat, AcceptLoad, AcceptDies,
         Claim, AcceptClaim, Assign, Release, CreateOfferFails, NoAccept, Active,
         ActiveStates, NotYet
<1> QED
    BY <1>1, <1>6, <1>7, RowStepPreserves DEF IInv, RoutingOK

\* The escalation of a chat, the first offer, the write of an acceptance and the clock.
LEMMA OfferStepPreserves ==
    ASSUME IInv, NEW p, NEW t,
           \/ t \in Tickets /\ (Escalate(t) \/ CreateOffer(t))
           \/ p \in Specialists /\ AcceptMark(p)
           \/ Tick
    PROVE  IInv'
<1>1. CASE t \in Tickets /\ Escalate(t)
  <2>1. offer' \in [Tickets -> Offer]
        BY <1>1 DEF Escalate, IInv, TypeOK, Offer, States
  <2>2. TypeOK' /\ AcceptsOK'
        BY <1>1, <2>1 DEF Escalate, IInv, TypeOK, AcceptsOK, NotYet
  <2>3. \A x \in Tickets : Locked(x) => offer'[x] = offer[x]
    <3>1. ~Active(t)
          BY <1>1 DEF Escalate, Active, ActiveStates
    <3> QED
          BY <1>1, <3>1, LockedIsActive DEF Escalate, IInv, TypeOK
  <2>4. \A x \in routing' : offer'[x].state = "unrouted"
        BY <1>1 DEF Escalate, IInv, TypeOK, RoutingOK
  <2> QED
        BY <1>1, <2>2, <2>3, <2>4, RowStepPreserves DEF Escalate
<1>2. CASE t \in Tickets /\ CreateOffer(t)
  <2>1. NoOffer \in Offer
        BY OfferAssumption DEF NoOffer, Offer, States
  <2>2. CASE UNCHANGED offer
        BY <1>2, <2>2, RowStepPreserves DEF CreateOffer, IInv, TypeOK, AcceptsOK, RoutingOK
  <2> SUFFICES ASSUME NEW q \in Specialists,
                      offer' = [offer EXCEPT ![t] = [NoOffer EXCEPT !.state = "offered", !.to = q]]
               PROVE  IInv'
      BY <1>2, <2>2 DEF CreateOffer, Candidates, Available
  <2> DEFINE new == [NoOffer EXCEPT !.state = "offered", !.to = q]
  <2>6. new \in Offer /\ new.state = "offered"
        BY <2>1 DEF NoOffer, Offer, States, ActiveStates
  <2>7. /\ offer' \in [Tickets -> Offer]
        /\ \A x \in Tickets : offer'[x] = offer[x] \/ offer'[x].state = "offered"
        BY <1>2, <2>6 DEF IInv, TypeOK
  <2>8. TypeOK'
        BY <1>2, <2>7 DEF CreateOffer, IInv, TypeOK
  <2>9. AcceptsOK'
        BY <1>2, <2>7 DEF CreateOffer, IInv, AcceptsOK, NotYet
  <2>3. TypeOK' /\ AcceptsOK'
        BY <2>8, <2>9
  <2>4. \A x \in Tickets : Locked(x) => offer'[x] = offer[x]
    <3>1. ~Active(t)
          BY <1>2 DEF CreateOffer, Active, ActiveStates, IInv, RoutingOK
    <3> QED
          BY <1>2, <3>1, LockedIsActive DEF CreateOffer, IInv, TypeOK
  <2>5. \A x \in routing' : offer'[x].state = "unrouted"
        BY <1>2 DEF CreateOffer, IInv, TypeOK, RoutingOK
  <2> QED
        BY <1>2, <2>3, <2>4, <2>5, RowStepPreserves DEF CreateOffer
<1>3. CASE p \in Specialists /\ AcceptMark(p)
  <2> DEFINE u == accept[p].ticket
  <2>1. u \in Tickets /\ ~Locked(u) /\ u \notin routing
        BY <1>3 DEF AcceptMark, IInv, AcceptsOK, RoutingOK, NotYet
  <2>2. offer' \in [Tickets -> Offer]
    <3>1. \A o \in Offer : \A q \in Specialists \cup {None} :
             [o EXCEPT !.state = "accepted", !.to = q] \in Offer
          BY DEF Offer, States
    <3> DEFINE q == IF accept[p].to = p THEN offer[u].to ELSE p
    <3>2. q \in Specialists \cup {None} /\ offer[u] \in Offer
          BY <1>3, <2>1 DEF IInv, TypeOK, Offer
    <3>3. offer' = [offer EXCEPT ![u] = [offer[u] EXCEPT !.state = "accepted", !.to = q]]
          BY <1>3 DEF AcceptMark
    <3>4. [offer[u] EXCEPT !.state = "accepted", !.to = q] \in Offer
          BY <3>1, <3>2
    <3> HIDE DEF q, u
    <3> QED
        BY <3>3, <3>4 DEF IInv, TypeOK
  <2>3. TypeOK' /\ AcceptsOK'
        BY <1>3, <2>1, <2>2 DEF AcceptMark, NoAccept, Accept, IInv, TypeOK, AcceptsOK, NotYet
  <2>4. \A x \in Tickets : Locked(x) => offer'[x] = offer[x]
        BY <1>3, <2>1 DEF AcceptMark, IInv, TypeOK
  <2>5. \A x \in routing' : offer'[x].state = "unrouted"
        BY <1>3, <2>1 DEF AcceptMark, IInv, TypeOK, RoutingOK
  <2> QED
        BY <1>3, <2>3, <2>4, <2>5, RowStepPreserves DEF AcceptMark
<1>4. CASE Tick
  <2> DEFINE ages(x) == Active(x) /\ (offer[x].since < OfferTTL \/ offer[x].asked < FallbackAge)
             older(n, cap) == IF n < cap THEN n + 1 ELSE n
  <2>1. \A cap \in Nat : \A n \in 0..cap : older(n, cap) \in 0..cap
        OBVIOUS
  <2>2. /\ \A x \in Tickets :
             offer'[x] = IF ages(x) THEN [offer[x] EXCEPT !.since = older(@, OfferTTL),
                                                          !.asked = older(@, FallbackAge)]
                                    ELSE offer[x]
        /\ offer' = [x \in Tickets |-> offer'[x]]
        BY <1>4 DEF Tick
  <2>3. \A x \in Tickets : offer'[x] \in Offer /\ offer'[x].state = offer[x].state
    <3> SUFFICES ASSUME NEW x \in Tickets
                 PROVE  offer'[x] \in Offer /\ offer'[x].state = offer[x].state
        OBVIOUS
    <3>1. offer[x] \in Offer
          BY DEF IInv, TypeOK
    <3>2. older(offer[x].since, OfferTTL) \in 0..OfferTTL
          BY <2>1, <3>1, OfferAssumption DEF Offer
    <3>3. older(offer[x].asked, FallbackAge) \in 0..FallbackAge
          BY <2>1, <3>1, OfferAssumption DEF Offer
    <3> HIDE DEF older, ages
    <3> QED
        BY <2>2, <3>1, <3>2, <3>3 DEF Offer
  <2>4. offer' \in [Tickets -> Offer]
        BY <2>2, <2>3
  <2>5. beat' \in [Specialists -> 0..PresenceTTL + 1]
    <3>1. PresenceTTL + 1 \in Nat
          BY OfferAssumption
    <3>2. \A x \in Specialists : older(beat[x], PresenceTTL + 1) \in 0..PresenceTTL + 1
          BY <2>1, <3>1 DEF IInv, TypeOK
    <3>3. beat' = [x \in Specialists |-> older(beat[x], PresenceTTL + 1)]
          BY <1>4 DEF Tick
    <3> QED
        BY <3>2, <3>3
  <2>6. TypeOK' /\ AcceptsOK'
        BY <1>4, <2>3, <2>4, <2>5 DEF Tick, IInv, TypeOK, AcceptsOK
  <2>7. \A x \in Tickets : ~Locked(x)
        BY <1>4 DEF Tick, Locked, IInv, PassesOK, PassOK
  <2>8. \A x \in routing' : offer'[x].state = "unrouted"
        BY <1>4, <2>3 DEF Tick, IInv, TypeOK, RoutingOK
  <2> QED
        BY <1>4, <2>6, <2>7, <2>8, RowStepPreserves DEF Tick
<1> QED
    BY <1>1, <1>2, <1>3, <1>4

-----------------------------------------------------------------------------
(* The passes                                                               *)

\* A step of the pass of w that leaves the offers alone: the other passes do
\* not see it.
LEMMA PassStepPreserves ==
    ASSUME IInv, NEW w \in Sweepers, NEW p \in Pass,
           pass' = [pass EXCEPT ![w] = p],
           UNCHANGED <<present, beat, offer, owner, routing, accept>>,
           PassOK(w)',
           \A v \in Sweepers \ {w} : pass[v].locks \cap p.locks = {}
    PROVE  IInv'
<1>1. pass'[w] = p /\ \A v \in Sweepers \ {w} : pass'[v] = pass[v]
      BY DEF IInv, TypeOK
<1>2. TypeOK' /\ AcceptsOK'
      BY DEF IInv, TypeOK, AcceptsOK
<1>3. ASSUME NEW v \in Sweepers
      PROVE  PassOK(v)'
  <2>1. CASE v = w
        BY <2>1
  <2>2. CASE v # w
        BY <1>1, <2>2 DEF IInv, PassesOK, PassOK, Active
  <2> QED
        BY <2>1, <2>2
<1>4. LocksDisjoint'
      BY <1>1 DEF IInv, LocksDisjoint
<1> QED
    BY <1>2, <1>3, <1>4 DEF IInv, PassesOK, RoutingOK

LEMMA NoPassType == NoPass \in Pass
<1>1. NoOffer \in Offer
      BY OfferAssumption DEF NoOffer, Offer, States
<1> QED
    BY <1>1 DEF NoPass, Pass

\* A pass begins, advances one of its offers, or dies.
LEMMA PassRunsPreserves ==
    ASSUME IInv, NEW w \in Sweepers, PassLoad(w) \/ PassAdvance(w) \/ PassDies(w)
    PROVE  IInv'
<1>1. CASE PassLoad(w)
  <2> DEFINE batch == {t \in Tickets : Active(t) /\ ~Locked(t)}
             p == [on |-> TRUE, batch |-> batch, locks |-> batch,
                   todo |-> batch, draft |-> offer, dirty |-> FALSE]
  <2>1. pass' = [pass EXCEPT ![w] = p]
        BY <1>1 DEF PassLoad
  <2>2. p \in Pass
        BY DEF Pass, IInv, TypeOK
  <2>3. UNCHANGED <<present, beat, offer, owner, routing, accept>>
        BY <1>1 DEF PassLoad
  <2>4. pass'[w] = p
        BY <2>1 DEF IInv, TypeOK
  <2>5. PassOK(w)'
        BY <2>3, <2>4 DEF PassOK, Active, InTurn, ActiveStates, NotYet
  <2>6. \A v \in Sweepers \ {w} : pass[v].locks \cap p.locks = {}
        BY DEF Locked
  <2> HIDE DEF p
  <2> QED
        BY <2>1, <2>2, <2>3, <2>5, <2>6, PassStepPreserves
<1>2. CASE PassAdvance(w)
  <2>0. PICK t \in pass[w].todo : \E n \in Advanced(t, pass[w].draft[t]) :
           /\ pass' = [pass EXCEPT
                  ![w].todo = @ \ {t}, ![w].draft[t] = n,
                  ![w].dirty = owner[t] # None \/ Decision(t, pass[w].draft[t]) # "hold"]
           /\ UNCHANGED <<present, beat, offer, owner, routing, accept>>
        BY <1>2 DEF PassAdvance
  <2>1. PICK n \in Advanced(t, pass[w].draft[t]) :
           /\ pass' = [pass EXCEPT
                  ![w].todo = @ \ {t}, ![w].draft[t] = n,
                  ![w].dirty = owner[t] # None \/ Decision(t, pass[w].draft[t]) # "hold"]
           /\ UNCHANGED <<present, beat, offer, owner, routing, accept>>
        BY <2>0
  <2> DEFINE d == owner[t] # None \/ Decision(t, pass[w].draft[t]) # "hold"
             p == [pass[w] EXCEPT !.todo = @ \ {t}, !.draft = [@ EXCEPT ![t] = n], !.dirty = d]
  <2>2. pass[w] \in Pass /\ PassOK(w)
        BY DEF IInv, TypeOK, PassesOK
  <2>3. t \in Tickets /\ t \in pass[w].locks /\ pass[w].on
        BY <2>2 DEF Pass, PassOK
  <2>4. pass[w].draft[t] = offer[t] /\ offer[t] \in Offer /\ offer[t].state \in ActiveStates
        BY <2>2, <2>3 DEF PassOK, Active, IInv, TypeOK
  <2>5. n \in Offer /\ InTurn(offer[t], n) /\ n.state \notin NotYet
        BY <2>4, AdvancedFacts
  <2>6. pass' = [pass EXCEPT ![w] = p]
        BY <2>1 DEF IInv, TypeOK
  <2>7. p \in Pass
        BY <2>2, <2>3, <2>5 DEF Pass
  <2>8. pass'[w] = p
        BY <2>6 DEF IInv, TypeOK
  <2>9. PassOK(w)'
    <3>1. /\ p.on /\ p.locks = pass[w].locks /\ p.batch = pass[w].batch
          /\ p.todo = pass[w].todo \ {t}
          /\ \A x \in Tickets : p.draft[x] = IF x = t THEN n ELSE pass[w].draft[x]
          BY <2>2, <2>3 DEF Pass
    <3>2. pass[w].locks \subseteq Tickets
          BY <2>2 DEF Pass
    <3> HIDE DEF p
    <3>3. ASSUME NEW x \in p.locks
          PROVE  /\ Active(x)
                 /\ x \in p.todo => p.draft[x] = offer[x]
                 /\ InTurn(offer[x], p.draft[x]) /\ p.draft[x].state \notin NotYet
          BY <2>2, <2>4, <2>5, <3>1, <3>2 DEF PassOK, Active
    <3>4. UNCHANGED offer
          BY <2>1
    <3> QED
        BY <2>2, <2>3, <2>8, <3>1, <3>3, <3>4 DEF PassOK, Active, InTurn
  <2>10. \A v \in Sweepers \ {w} : pass[v].locks \cap p.locks = {}
        BY <2>2 DEF IInv, LocksDisjoint, Pass
  <2> HIDE DEF p
  <2> QED
        BY <2>1, <2>6, <2>7, <2>9, <2>10, PassStepPreserves
<1>3. CASE PassDies(w)
  <2>1. PassOK(w)'
        BY <1>3 DEF PassDies, PassOK, NoPass, IInv, TypeOK
  <2> QED
        BY <1>3, <2>1, NoPassType, PassStepPreserves DEF PassDies, NoPass
<1> QED
    BY <1>1, <1>2, <1>3

\* What the commit of a pass does to each offer.
LEMMA PassEndFacts ==
    ASSUME IInv, NEW w \in Sweepers, PassEnd(w), NEW t \in Tickets
    PROVE  /\ offer'[t] \in Offer
           /\ offer'[t] # offer[t] => t \in pass[w].locks /\ offer'[t] = pass[w].draft[t]
<1>1. pass[w] \in Pass /\ PassOK(w) /\ pass[w].on /\ offer[t] \in Offer
      BY DEF IInv, TypeOK, PassesOK, PassEnd
<1> QED
    BY <1>1 DEF PassEnd, Pass, PassOK

\* A pass commits or rolls back: it writes its own offers only.
LEMMA PassEndPreserves ==
    ASSUME IInv, NEW w \in Sweepers, PassEnd(w)
    PROVE  IInv'
<1>1. offer' \in [Tickets -> Offer]
  <2>1. offer' = [t \in Tickets |-> offer'[t]]
        BY DEF PassEnd, IInv, TypeOK
  <2> QED
        BY <2>1, PassEndFacts
<1>2. pass'[w] = NoPass /\ \A v \in Sweepers \ {w} : pass'[v] = pass[v]
      BY DEF PassEnd, IInv, TypeOK
<1>3. TypeOK'
      BY <1>1, NoPassType DEF PassEnd, IInv, TypeOK
<1>4. \A t \in Tickets : offer'[t] # offer[t] =>
         /\ t \in pass[w].locks
         /\ offer[t].state \notin NotYet /\ offer'[t].state \notin NotYet
      BY PassEndFacts DEF IInv, PassesOK, PassOK, Active, ActiveStates, NotYet
<1>5. AcceptsOK'
      BY <1>4 DEF PassEnd, IInv, AcceptsOK
<1>6. ASSUME NEW v \in Sweepers
      PROVE  PassOK(v)'
  <2>1. CASE v = w
        BY <1>2, <2>1 DEF PassOK, NoPass
  <2>2. CASE v # w
    <3>1. pass'[v] = pass[v] /\ PassOK(v) /\ pass[v] \in Pass
          BY <1>2, <2>2 DEF IInv, PassesOK, TypeOK
    <3>2. \A t \in pass[v].locks : offer'[t] = offer[t]
          BY <1>4, <2>2, <3>1 DEF IInv, LocksDisjoint, Pass
    <3> QED
        BY <3>1, <3>2 DEF PassOK, Active, InTurn
  <2> QED
        BY <2>1, <2>2
<1>7. LocksDisjoint'
      BY <1>2 DEF IInv, LocksDisjoint, NoPass
<1>8. RoutingOK'
      BY <1>4 DEF PassEnd, IInv, TypeOK, RoutingOK, NotYet
<1> QED
    BY <1>3, <1>5, <1>6, <1>7, <1>8 DEF IInv, PassesOK

-----------------------------------------------------------------------------
(* The theorems                                                             *)

LEMMA InitInv == Init => IInv
<1> SUFFICES ASSUME Init PROVE IInv
    OBVIOUS
<1>1. NoOffer \in Offer /\ NoAccept \in Accept
      BY OfferAssumption DEF NoOffer, Offer, States, NoAccept, Accept
<1>2. PresenceTTL + 1 \in 0..PresenceTTL + 1
      BY OfferAssumption
<1>3. TypeOK
      BY <1>1, <1>2, NoPassType DEF Init, TypeOK
<1> QED
    BY <1>3 DEF Init, IInv, AcceptsOK, PassesOK, PassOK, LocksDisjoint, RoutingOK, NoAccept, NoPass

\* Every step keeps the invariant.
LEMMA StepInv == IInv /\ [Next]_vars => IInv'
<1> SUFFICES ASSUME IInv, [Next]_vars PROVE IInv'
    OBVIOUS
<1>1. CASE UNCHANGED vars
      BY <1>1 DEF vars, IInv, TypeOK, AcceptsOK, PassesOK, PassOK, LocksDisjoint, RoutingOK, Active,
         InTurn
<1>2. CASE Next
  <2>1. ASSUME NEW p \in Specialists,
               \/ \E status \in {"available", "away"} : SetStatus(p, status)
               \/ Heartbeat(p) \/ AcceptLoad(p) \/ AcceptDies(p)
        PROVE  IInv'
        BY <2>1, TicketStepPreserves
  <2>2. ASSUME NEW p \in Specialists, NEW t \in Tickets,
               Claim(p, t) \/ AcceptClaim(p, t) \/ Assign(p, t)
        PROVE  IInv'
        BY <2>2, TicketStepPreserves
  <2>3. ASSUME NEW t \in Tickets, Release(t) \/ CreateOfferFails(t)
        PROVE  IInv'
        BY <2>3, TicketStepPreserves
  <2>4. ASSUME NEW t \in Tickets, Escalate(t) \/ CreateOffer(t)
        PROVE  IInv'
        BY <2>4, OfferStepPreserves
  <2>5. ASSUME NEW p \in Specialists, AcceptMark(p)
        PROVE  IInv'
        BY <2>5, OfferStepPreserves
  <2>6. CASE Tick
        BY <2>6, OfferStepPreserves
  <2>7. ASSUME NEW w \in Sweepers, PassLoad(w) \/ PassAdvance(w) \/ PassDies(w)
        PROVE  IInv'
        BY <2>7, PassRunsPreserves
  <2>8. ASSUME NEW w \in Sweepers, PassEnd(w)
        PROVE  IInv'
        BY <2>8, PassEndPreserves
  <2> QED
      BY <1>2, <2>1, <2>2, <2>3, <2>4, <2>5, <2>6, <2>7, <2>8 DEF Next
<1> QED
    BY <1>1, <1>2

\* What one step may do to one offer.
OfferMoves(t) ==
    /\ offer[t].state = "accepted" => offer'[t].state = "accepted"
    /\ offer[t].state = "fallback" => offer'[t].state \in {"fallback", "accepted"}
    /\ Active(t) => InTurn(offer[t], offer'[t])

LEMMA StepMovesOffers ==
    ASSUME IInv, [Next]_vars, NEW t \in Tickets
    PROVE  OfferMoves(t)
<1>0. offer \in [Tickets -> Offer] /\ offer[t] \in Offer
      BY DEF IInv, TypeOK
<1>1. CASE offer'[t] = offer[t]
      BY <1>1 DEF OfferMoves, InTurn
<1>2. ASSUME NEW u \in Tickets, Escalate(u)
      PROVE  OfferMoves(t)
      BY <1>0, <1>2 DEF Escalate, OfferMoves, Active, ActiveStates, InTurn
<1>3. ASSUME NEW u \in Tickets, CreateOffer(u)
      PROVE  OfferMoves(t)
  <2>1. offer[u].state = "unrouted"
        BY <1>3 DEF CreateOffer, IInv, RoutingOK
  <2> QED
        BY <1>0, <1>3, <2>1 DEF CreateOffer, OfferMoves, Active, ActiveStates, InTurn
<1>4. ASSUME NEW p \in Specialists, AcceptMark(p)
      PROVE  OfferMoves(t)
      BY <1>0, <1>4 DEF AcceptMark, OfferMoves, ActiveStates, InTurn
<1>5. ASSUME NEW w \in Sweepers, PassEnd(w)
      PROVE  OfferMoves(t)
  <2>1. CASE offer'[t] # offer[t]
    <3>1. t \in pass[w].locks /\ offer'[t] = pass[w].draft[t]
          BY <1>5, <2>1, PassEndFacts
    <3>2. Active(t) /\ InTurn(offer[t], offer'[t])
          BY <3>1 DEF IInv, PassesOK, PassOK
    <3> QED
        BY <3>2 DEF OfferMoves, Active, ActiveStates
  <2> QED
      BY <1>1, <2>1
<1>6. CASE Tick
  <2>1. /\ offer'[t].state = offer[t].state /\ offer'[t].to = offer[t].to
        /\ offer'[t].round = offer[t].round
        BY <1>0, <1>6 DEF Tick, Offer
  <2> QED
      BY <2>1 DEF OfferMoves, InTurn
<1>7. CASE UNCHANGED offer
      BY <1>1, <1>7
<1> QED
    BY <1>2, <1>3, <1>4, <1>5, <1>6, <1>7 DEF Next, vars, SetStatus, Heartbeat, AcceptLoad,
       AcceptDies, Claim, AcceptClaim, Assign, Release, CreateOfferFails, PassLoad, PassAdvance,
       PassDies

\* A running pass owns the offers it works on.
THEOREM InductiveInvariant == Spec => []IInv
    BY InitInv, StepInv, PTL DEF Spec

\* Every value the requests and the passes write is within its column, and the
\* rounds of an offer stay below LIVE_OFFER_MAX_ROUNDS.
THEOREM TypeCorrect == Spec => []TypeOK
<1>1. IInv => TypeOK
      BY DEF IInv
<1> QED
    BY <1>1, InductiveInvariant, PTL

\* No acceptance and no fallback is ever undone by a sweeper pass, however many
\* run: FOR UPDATE keeps the acceptance's write behind the pass.
THEOREM AcceptanceIsFinal == Spec => ClosedStaysClosed
<1>1. IInv /\ [Next]_vars =>
         [\A t \in Tickets :
             /\ offer[t].state = "accepted" => offer'[t].state = "accepted"
             /\ offer[t].state = "fallback" => offer'[t].state \in {"fallback", "accepted"}]_vars
      BY StepMovesOffers DEF OfferMoves
<1> QED
    BY <1>1, InductiveInvariant, PTL DEF Spec, ClosedStaysClosed

\* No specialist loses an offer before LIVE_OFFER_TTL_SECONDS, except that it
\* is accepted or given up.
THEOREM TurnsAreWhole == Spec => TurnIsWhole
<1>1. IInv /\ [Next]_vars =>
         [\A t \in Tickets :
             (Active(t) /\ offer[t].since < OfferTTL /\ offer'[t].state \in ActiveStates)
                => /\ offer'[t].to = offer[t].to
                   /\ offer'[t].round = offer[t].round
                   /\ offer'[t].state = offer[t].state]_vars
      BY StepMovesOffers DEF OfferMoves, InTurn
<1> QED
    BY <1>1, InductiveInvariant, PTL DEF Spec, TurnIsWhole
-----------------------------------------------------------------------------
(* HandoffOffers implements OfferTurns                                      *)

\* What a pass may make of an offer.
Turned(t, o, n) ==
    \/ n = o
    \/ n = [o EXCEPT !.state = "accepted"]
    \/ /\ o.since >= OfferTTL /\ o.asked < FallbackAge /\ o.round + 1 < MaxRounds
       /\ \E p \in Specialists \ {o.to, Requester[t]} :
             n = [o EXCEPT !.to = p, !.since = 0, !.round = @ + 1]
    \/ /\ o.since >= OfferTTL /\ o.asked < FallbackAge
       /\ n = [o EXCEPT !.state = "broadened", !.to = None]
    \/ /\ o.since >= OfferTTL \/ o.asked >= FallbackAge
       /\ n = [o EXCEPT !.state = "fallback"]

\* What a pass drafted still follows from the row that it holds the lock of.
DraftsOK ==
    \A w \in Sweepers : \A t \in pass[w].locks : Turned(t, offer[t], pass[w].draft[t])

LEMMA AdvancedTurns ==
    ASSUME NEW t \in Tickets, NEW o \in Offer, NEW n \in Advanced(t, o)
    PROVE  Turned(t, o, n)
<1>1. o.since \in Nat /\ o.asked \in Nat /\ o.round \in Nat
      BY OfferAssumption DEF Offer
<1>2. CASE owner[t] # None
      BY <1>2 DEF Advanced, Turned
<1>3. CASE owner[t] = None /\ Decision(t, o) = "hold"
      BY <1>3 DEF Advanced, Turned
<1>4. CASE owner[t] = None /\ Decision(t, o) = "reoffer"
  <2>1. o.asked < FallbackAge /\ o.since >= OfferTTL /\ o.round + 1 < MaxRounds
        BY <1>1, <1>4, OfferAssumption DEF Decision
  <2>2. \E p \in Candidates(t, o.to) : n = [o EXCEPT !.to = p, !.since = 0, !.round = @ + 1]
        BY <1>4 DEF Advanced
  <2> QED
        BY <2>1, <2>2 DEF Candidates, Available, Turned
<1>5. CASE owner[t] = None /\ Decision(t, o) = "broaden"
  <2>1. o.asked < FallbackAge /\ o.since >= OfferTTL
        BY <1>1, <1>5, OfferAssumption DEF Decision
  <2> QED
        BY <1>5, <2>1 DEF Advanced, Turned
<1>6. CASE owner[t] = None /\ Decision(t, o) \notin {"hold", "reoffer", "broaden"}
  <2>1. o.since >= OfferTTL \/ o.asked >= FallbackAge
        BY <1>1, <1>6, OfferAssumption DEF Decision
  <2> QED
        BY <1>6, <2>1 DEF Advanced, Turned
<1> QED
    BY <1>2, <1>3, <1>4, <1>5, <1>6

\* A row that a pass holds before and after a step is not written by it.
LEMMA HeldOffersStay ==
    ASSUME IInv, [Next]_vars, NEW w \in Sweepers, NEW t \in pass[w].locks, t \in pass'[w].locks
    PROVE  offer'[t] = offer[t]
<1>0. /\ t \in Tickets /\ Locked(t) /\ Active(t)
      /\ offer \in [Tickets -> Offer] /\ pass \in [Sweepers -> Pass]
      BY LockedIsActive DEF IInv, TypeOK, Pass, Locked
<1>1. ASSUME NEW u \in Tickets, Escalate(u)
      PROVE  offer'[t] = offer[t]
      BY <1>0, <1>1 DEF Escalate, Active, ActiveStates
<1>2. ASSUME NEW u \in Tickets, CreateOffer(u)
      PROVE  offer'[t] = offer[t]
  <2>1. u # t
        BY <1>0, <1>2 DEF CreateOffer, IInv, RoutingOK, Active, ActiveStates
  <2> QED
        BY <1>0, <1>2, <2>1 DEF CreateOffer
<1>3. ASSUME NEW p \in Specialists, AcceptMark(p)
      PROVE  offer'[t] = offer[t]
      BY <1>0, <1>3 DEF AcceptMark
<1>4. ASSUME NEW v \in Sweepers, PassEnd(v)
      PROVE  offer'[t] = offer[t]
  <2>1. v # w
        BY <1>0, <1>4 DEF PassEnd, NoPass
  <2> QED
        BY <1>0, <1>4, <2>1, PassEndFacts DEF IInv, LocksDisjoint
<1>5. CASE Tick
      BY <1>0, <1>5 DEF Tick, Locked, IInv, PassesOK, PassOK
<1>6. CASE UNCHANGED offer
      BY <1>6
<1> QED
    BY <1>1, <1>2, <1>3, <1>4, <1>5, <1>6 DEF Next, vars, SetStatus, Heartbeat, AcceptLoad,
       AcceptDies, Claim, AcceptClaim, Assign, Release, CreateOfferFails, PassLoad, PassAdvance,
       PassDies

\* A pass changes its own drafts only, and an offer's draft once.
LEMMA DraftsStay ==
    ASSUME IInv, [Next]_vars, NEW w \in Sweepers, NEW t \in pass'[w].locks
    PROVE  \/ /\ t \in pass[w].locks
              /\ \/ pass'[w].draft[t] = pass[w].draft[t]
                 \/ pass'[w].draft[t] \in Advanced(t, offer[t])
           \/ pass'[w].draft[t] = offer[t] /\ offer' = offer
<1>0. pass \in [Sweepers -> Pass]
      BY DEF IInv, TypeOK
<1>1. ASSUME NEW v \in Sweepers, PassLoad(v)
      PROVE  \/ t \in pass[w].locks /\ pass'[w].draft[t] = pass[w].draft[t]
             \/ pass'[w].draft[t] = offer[t] /\ offer' = offer
      BY <1>0, <1>1 DEF PassLoad
<1>2. ASSUME NEW v \in Sweepers, PassAdvance(v)
      PROVE  /\ t \in pass[w].locks
             /\ \/ pass'[w].draft[t] = pass[w].draft[t]
                \/ pass'[w].draft[t] \in Advanced(t, offer[t])
  <2>1. PICK u \in pass[v].todo : \E n \in Advanced(u, pass[v].draft[u]) :
           pass' = [pass EXCEPT
               ![v].todo = @ \ {u}, ![v].draft[u] = n,
               ![v].dirty = owner[u] # None \/ Decision(u, pass[v].draft[u]) # "hold"]
        BY <1>2 DEF PassAdvance
  <2>2. PICK n \in Advanced(u, pass[v].draft[u]) :
           pass' = [pass EXCEPT
               ![v].todo = @ \ {u}, ![v].draft[u] = n,
               ![v].dirty = owner[u] # None \/ Decision(u, pass[v].draft[u]) # "hold"]
        BY <2>1
  <2>3. /\ pass'[w].locks = pass[w].locks
        /\ w # v => pass'[w] = pass[w]
        /\ pass'[v].draft = [pass[v].draft EXCEPT ![u] = n]
        BY <1>0, <2>2 DEF Pass
  <2>4. pass[v].draft[u] = offer[u]
        BY DEF IInv, PassesOK, PassOK
  <2>5. pass[w].draft \in [Tickets -> Offer] /\ t \in Tickets
        BY <1>0, <2>3 DEF Pass
  <2> QED
        BY <2>2, <2>3, <2>4, <2>5
<1>3. ASSUME NEW v \in Sweepers, PassEnd(v) \/ PassDies(v)
      PROVE  t \in pass[w].locks /\ pass'[w].draft[t] = pass[w].draft[t]
      BY <1>0, <1>3 DEF PassEnd, PassDies, NoPass
<1>4. CASE UNCHANGED pass
      BY <1>4
<1> QED
    BY <1>1, <1>2, <1>3, <1>4 DEF Next, vars, SetStatus, Heartbeat, AcceptLoad, AcceptMark,
       AcceptDies, Claim, AcceptClaim, Assign, Release, Escalate, CreateOffer, CreateOfferFails, Tick

LEMMA DraftsKept == IInv /\ DraftsOK /\ [Next]_vars => DraftsOK'
<1> SUFFICES ASSUME IInv, DraftsOK, [Next]_vars,
                    NEW w \in Sweepers, NEW t \in pass'[w].locks
             PROVE  Turned(t, offer'[t], pass'[w].draft[t])
    BY DEF DraftsOK, Turned
<1>1. CASE t \in pass[w].locks
  <2>1. offer'[t] = offer[t] /\ t \in Tickets /\ offer[t] \in Offer
        BY <1>1, HeldOffersStay DEF IInv, TypeOK, Pass
  <2>2. Turned(t, offer[t], pass[w].draft[t])
        BY <1>1 DEF DraftsOK
  <2>3. CASE pass'[w].draft[t] \in Advanced(t, offer[t])
        BY <2>1, <2>3, AdvancedTurns
  <2>4. CASE pass'[w].draft[t] = offer[t]
        BY <2>1, <2>4 DEF Turned
  <2> QED
        BY <2>1, <2>2, <2>3, <2>4, DraftsStay
<1>2. CASE t \notin pass[w].locks
      BY <1>2, DraftsStay DEF Turned
<1> QED
    BY <1>1, <1>2

StageOK(t) ==
    /\ Stage(t) \in Rotation!Stages
    /\ Stage(t) = "none" <=> offer[t].state \in NotYet
    /\ Stage(t) = "accepted" <=> offer[t].state = "accepted"
    /\ Stage(t) = "given up" <=> offer[t].state = "fallback"
    /\ Stage(t) = "late" <=> Active(t) /\ offer[t].asked >= FallbackAge
    /\ Stage(t) = "over" <=> /\ Active(t) /\ offer[t].asked < FallbackAge
                             /\ offer[t].since >= OfferTTL
    /\ Stage(t) = "turn" <=> /\ Active(t) /\ offer[t].asked < FallbackAge
                             /\ offer[t].since < OfferTTL

LEMMA StageFacts == TypeOK => \A t \in Tickets : StageOK(t)
<1> SUFFICES ASSUME TypeOK, NEW t \in Tickets PROVE StageOK(t)
    OBVIOUS
<1>1. offer[t].asked \in Nat /\ offer[t].since \in Nat /\ offer[t].state \in States
      BY OfferAssumption DEF TypeOK, Offer
<1>2. /\ offer[t].state \in NotYet => Stage(t) = "none"
      /\ offer[t].state = "accepted" => Stage(t) = "accepted"
      /\ offer[t].state = "fallback" => Stage(t) = "given up"
      BY DEF Stage, NotYet, Active, ActiveStates
<1>3. offer[t].asked >= FallbackAge \/ offer[t].asked < FallbackAge
      BY <1>1, OfferAssumption
<1>4. ~(offer[t].asked >= FallbackAge /\ offer[t].asked < FallbackAge)
      BY <1>1, OfferAssumption
<1>5. offer[t].since >= OfferTTL \/ offer[t].since < OfferTTL
      BY <1>1, OfferAssumption
<1>6. ~(offer[t].since >= OfferTTL /\ offer[t].since < OfferTTL)
      BY <1>1, OfferAssumption
<1>7. CASE ~Active(t)
  <2>1. offer[t].state \in NotYet \/ offer[t].state = "accepted" \/ offer[t].state = "fallback"
        BY <1>1, <1>7 DEF States, NotYet, Active
  <2> QED
        BY <1>2, <1>7, <2>1 DEF StageOK, NotYet, Rotation!Stages
<1>8. CASE Active(t)
  <2>1. offer[t].state \notin NotYet /\ offer[t].state # "accepted" /\ offer[t].state # "fallback"
        BY <1>8 DEF Active, ActiveStates, NotYet
  <2>2. CASE offer[t].asked >= FallbackAge
    <3>1. Stage(t) = "late"
          BY <1>4, <1>8, <2>1, <2>2 DEF Stage, NotYet
    <3> QED
          BY <1>4, <1>8, <2>1, <2>2, <3>1 DEF StageOK, Rotation!Stages
  <2>3. CASE offer[t].asked < FallbackAge /\ offer[t].since >= OfferTTL
    <3>1. Stage(t) = "over"
          BY <1>4, <1>6, <1>8, <2>1, <2>3 DEF Stage, NotYet
    <3> QED
          BY <1>4, <1>6, <1>8, <2>1, <2>3, <3>1 DEF StageOK, Rotation!Stages
  <2>4. CASE offer[t].asked < FallbackAge /\ offer[t].since < OfferTTL
    <3>1. Stage(t) = "turn"
          BY <1>4, <1>6, <1>8, <2>1, <2>4 DEF Stage, NotYet
    <3> QED
          BY <1>4, <1>6, <1>8, <2>1, <2>4, <3>1 DEF StageOK, Rotation!Stages
  <2> QED
        BY <1>3, <1>5, <2>2, <2>3, <2>4
<1> QED
    BY <1>7, <1>8

LEMMA StageFactsNext == TypeOK' => \A t \in Tickets : StageOK(t)'
<1>1. (TypeOK => \A t \in Tickets : StageOK(t))'
      BY StageFacts, PTL
<1> QED
    BY <1>1

\* The step of OfferTurns that one offer makes.
TurnStep(t) ==
    \/ Rotation!Stays(t) \/ Rotation!FirstTurn(t) \/ Rotation!NextTurn(t)
    \/ Rotation!Everybody(t) \/ Rotation!Age(t) \/ Rotation!Accept(t) \/ Rotation!GiveUp(t)

LEMMA QuietTurn ==
    ASSUME NEW t \in Tickets, offer'[t] = offer[t]
    PROVE  TurnStep(t)
<1>1. Stage(t)' = Stage(t) /\ Turns(t)' = Turns(t)
      BY DEF Stage, Turns, Active
<1> QED
    BY <1>1 DEF TurnStep, Rotation!Stays

\* The mapped turns and holder of an offer.
LEMMA TurnFacts ==
    ASSUME TypeOK, TypeOK', NEW t \in Tickets
    PROVE  /\ offer[t].state \notin NotYet => Turns(t) = offer[t].round + 1
           /\ offer[t].state \in NotYet => Turns(t) = 0
           /\ offer'[t].state \notin NotYet => Turns(t)' = offer'[t].round + 1
           /\ offer'[t].state \in NotYet => Turns(t)' = 0
BY StageFacts, StageFactsNext DEF Turns, StageOK

LEMMA TurnedSteps ==
    ASSUME TypeOK, TypeOK', NEW t \in Tickets, Active(t), Turned(t, offer[t], offer'[t])
    PROVE  TurnStep(t)
<1>0. /\ offer[t] \in Offer /\ offer'[t] \in Offer
      /\ StageOK(t) /\ StageOK(t)'
      /\ offer[t].state \notin NotYet /\ Turns(t) = offer[t].round + 1
      BY StageFacts, StageFactsNext, TurnFacts DEF TypeOK, Active, ActiveStates, NotYet
<1>1. CASE offer'[t] = offer[t]
      BY <1>1, QuietTurn
<1>2. CASE offer'[t] = [offer[t] EXCEPT !.state = "accepted"]
  <2>1. /\ offer'[t].state = "accepted" /\ offer'[t].to = offer[t].to
        /\ offer'[t].round = offer[t].round
        BY <1>0, <1>2 DEF Offer
  <2>2. Stage(t) # "none" /\ Stage(t)' = "accepted" /\ Turns(t)' = Turns(t)
        BY <1>0, <2>1, TurnFacts DEF StageOK, NotYet
  <2> QED
        BY <2>1, <2>2 DEF TurnStep, Rotation!Accept
<1>3. CASE /\ offer[t].since >= OfferTTL /\ offer[t].asked < FallbackAge
           /\ offer[t].round + 1 < MaxRounds
           /\ \E p \in Specialists \ {offer[t].to, Requester[t]} :
                 offer'[t] = [offer[t] EXCEPT !.to = p, !.since = 0, !.round = @ + 1]
  <2>1. PICK p \in Specialists \ {offer[t].to, Requester[t]} :
           offer'[t] = [offer[t] EXCEPT !.to = p, !.since = 0, !.round = @ + 1]
        BY <1>3
  <2>2. /\ offer'[t].state = offer[t].state /\ offer'[t].to = p
        /\ offer'[t].round = offer[t].round + 1 /\ offer'[t].asked = offer[t].asked
        BY <1>0, <2>1 DEF Offer
  <2>3. Stage(t) = "over"
        BY <1>0, <1>3 DEF StageOK
  <2>4. Stage(t)' \in {"turn", "over"}
    <3>1. Active(t)' /\ offer'[t].asked < FallbackAge /\ offer'[t].since \in Nat
          BY <1>0, <1>3, <2>2, OfferAssumption DEF Active, Offer
    <3>2. offer'[t].since < OfferTTL \/ offer'[t].since >= OfferTTL
          BY <3>1, OfferAssumption
    <3> QED
          BY <1>0, <3>1, <3>2 DEF StageOK
  <2>5. Turns(t)' = Turns(t) + 1 /\ Turns(t) < MaxRounds
        BY <1>0, <1>3, <2>2, TurnFacts
  <2> QED
        BY <2>2, <2>3, <2>4, <2>5 DEF TurnStep, Rotation!NextTurn
<1>4. CASE /\ offer[t].since >= OfferTTL /\ offer[t].asked < FallbackAge
           /\ offer'[t] = [offer[t] EXCEPT !.state = "broadened", !.to = None]
  <2>1. /\ offer'[t].state = "broadened" /\ offer'[t].to = None
        /\ offer'[t].round = offer[t].round /\ offer'[t].asked = offer[t].asked
        /\ offer'[t].since = offer[t].since
        BY <1>0, <1>4 DEF Offer
  <2>2. Stage(t) = "over"
        BY <1>0, <1>4 DEF StageOK
  <2>3. Stage(t)' = "over"
    <3>1. Active(t)'
          BY <2>1 DEF Active, ActiveStates
    <3> QED
          BY <1>0, <1>4, <2>1, <3>1 DEF StageOK
  <2>4. Turns(t)' = Turns(t)
        BY <1>0, <2>1, TurnFacts DEF NotYet
  <2> QED
        BY <2>1, <2>2, <2>3, <2>4 DEF TurnStep, Rotation!Everybody
<1>5. CASE /\ offer[t].since >= OfferTTL \/ offer[t].asked >= FallbackAge
           /\ offer'[t] = [offer[t] EXCEPT !.state = "fallback"]
  <2>1. /\ offer'[t].state = "fallback" /\ offer'[t].to = offer[t].to
        /\ offer'[t].round = offer[t].round
        BY <1>0, <1>5 DEF Offer
  <2>2. Stage(t) \in {"over", "late"}
    <3>1. offer[t].asked \in Nat
          BY <1>0, OfferAssumption DEF Offer
    <3>2. offer[t].asked < FallbackAge \/ offer[t].asked >= FallbackAge
          BY <3>1, OfferAssumption
    <3> QED
          BY <1>0, <1>5, <3>2 DEF StageOK
  <2>3. Stage(t)' = "given up" /\ Turns(t)' = Turns(t)
        BY <1>0, <2>1, TurnFacts DEF StageOK, NotYet
  <2> QED
        BY <2>1, <2>2, <2>3 DEF TurnStep, Rotation!GiveUp
<1> QED
    BY <1>1, <1>2, <1>3, <1>4, <1>5 DEF Turned

\* Time only adds to the ages of an offer.
LEMMA TickAges ==
    ASSUME TypeOK, TypeOK', Tick, NEW t \in Tickets
    PROVE  TurnStep(t)
<1>0. /\ offer[t] \in Offer /\ offer'[t] \in Offer
      /\ StageOK(t) /\ StageOK(t)' /\ Stage(t) \in Rotation!Stages
      BY StageFacts, StageFactsNext DEF TypeOK, StageOK
<1>1. /\ offer'[t].state = offer[t].state /\ offer'[t].to = offer[t].to
      /\ offer'[t].round = offer[t].round
      /\ offer'[t].since >= offer[t].since /\ offer'[t].asked >= offer[t].asked
  <2>1. /\ offer[t].since \in Nat /\ offer[t].asked \in Nat
        BY <1>0, OfferAssumption DEF Offer
  <2>2. CASE offer'[t] = offer[t]
        BY <2>1, <2>2
  <2>3. CASE offer'[t] # offer[t]
    <3>1. offer'[t] = [offer[t] EXCEPT
             !.since = IF @ < OfferTTL THEN @ + 1 ELSE @,
             !.asked = IF @ < FallbackAge THEN @ + 1 ELSE @]
          BY <2>3 DEF Tick
    <3> QED
        BY <1>0, <2>1, <3>1 DEF Offer
  <2> QED
      BY <2>2, <2>3
<1>2. Active(t)' <=> Active(t)
      BY <1>1 DEF Active
<1>3. Turns(t)' = Turns(t)
      BY <1>1, TurnFacts
<1>4. /\ offer[t].asked \in Nat /\ offer[t].since \in Nat
      /\ offer'[t].asked \in Nat /\ offer'[t].since \in Nat
      BY <1>0, OfferAssumption DEF Offer
<1>5. CASE ~Active(t)
  <2>1. Stage(t)' = Stage(t)
        BY <1>0, <1>1, <1>2, <1>5 DEF StageOK, Rotation!Stages
  <2> QED
        BY <1>1, <1>3, <2>1 DEF TurnStep, Rotation!Stays
<1>6. CASE Active(t)
  <2>1. \/ Stage(t)' = Stage(t)
        \/ Stage(t) = "turn" /\ Stage(t)' \in {"over", "late"}
        \/ Stage(t) = "over" /\ Stage(t)' = "late"
    <3>1. CASE offer'[t].asked >= FallbackAge
      <4>1. Stage(t)' = "late"
            BY <1>0, <1>2, <1>6, <3>1 DEF StageOK
      <4>2. Stage(t) \in {"turn", "over", "late"}
            BY <1>0, <1>6 DEF StageOK, Rotation!Stages, Active, ActiveStates, NotYet
      <4> QED
            BY <4>1, <4>2
    <3>2. CASE offer'[t].asked < FallbackAge
      <4>1. offer[t].asked < FallbackAge
            BY <1>1, <1>4, <3>2, OfferAssumption
      <4>2. CASE offer[t].since >= OfferTTL
        <5>1. offer'[t].since >= OfferTTL
              BY <1>1, <1>4, <4>2, OfferAssumption
        <5> QED
              BY <1>0, <1>2, <1>6, <3>2, <4>1, <4>2, <5>1 DEF StageOK
      <4>3. CASE offer[t].since < OfferTTL
        <5>1. Stage(t) = "turn"
              BY <1>0, <1>6, <4>1, <4>3 DEF StageOK
        <5>2. offer'[t].since < OfferTTL \/ offer'[t].since >= OfferTTL
              BY <1>4, OfferAssumption
        <5>3. Stage(t)' \in {"turn", "over"}
              BY <1>0, <1>2, <1>6, <3>2, <5>2 DEF StageOK
        <5> QED
              BY <5>1, <5>3
      <4> QED
            BY <1>4, <4>2, <4>3, OfferAssumption
    <3> QED
        BY <1>4, <3>1, <3>2, OfferAssumption
  <2> QED
        BY <1>1, <1>3, <2>1 DEF TurnStep, Rotation!Stays, Rotation!Age
<1> QED
    BY <1>5, <1>6

LEMMA StepTurns ==
    ASSUME IInv, IInv', DraftsOK, [Next]_vars, NEW t \in Tickets
    PROVE  TurnStep(t)
<1>0. /\ TypeOK /\ TypeOK' /\ offer \in [Tickets -> Offer] /\ offer[t] \in Offer
      /\ StageOK(t) /\ StageOK(t)' /\ Stage(t)' \in Rotation!Stages
      BY StageFacts, StageFactsNext DEF IInv, TypeOK, StageOK
<1>1. CASE offer'[t] = offer[t]
      BY <1>1, QuietTurn
<1>2. ASSUME NEW u \in Tickets, Escalate(u)
      PROVE  TurnStep(t)
  <2>1. CASE u = t
    <3>1. /\ offer[t].state \in NotYet /\ offer'[t].state \in NotYet
          /\ offer'[t].to = offer[t].to
          BY <1>0, <1>2, <2>1 DEF Escalate, NotYet, Offer
    <3>2. Stage(t) = "none" /\ Stage(t)' = "none" /\ Turns(t)' = Turns(t)
          BY <1>0, <3>1, TurnFacts DEF StageOK
    <3> QED
        BY <3>1, <3>2 DEF TurnStep, Rotation!Stays
  <2> QED
      BY <1>0, <1>1, <1>2, <2>1 DEF Escalate
<1>3. ASSUME NEW u \in Tickets, CreateOffer(u)
      PROVE  TurnStep(t)
  <2>1. CASE offer'[t] # offer[t]
    <3>1. PICK p \in Candidates(u, None) :
             offer' = [offer EXCEPT ![u] = [NoOffer EXCEPT !.state = "offered", !.to = p]]
          BY <1>3, <2>1 DEF CreateOffer
    <3>2. u = t /\ p \in Specialists \ {Requester[t]}
          BY <1>0, <2>1, <3>1 DEF Candidates, Available
    <3>3. /\ offer'[t].state = "offered" /\ offer'[t].to = p /\ offer'[t].round = 0
          BY <1>0, <3>1, <3>2 DEF NoOffer
    <3>4. offer[t].state \in NotYet
          BY <1>3, <3>2 DEF CreateOffer, IInv, RoutingOK, NotYet
    <3>5. Stage(t) = "none" /\ Stage(t)' \in {"turn", "over", "late"}
          BY <1>0, <3>3, <3>4 DEF StageOK, NotYet, Rotation!Stages
    <3>6. Turns(t)' = 1
          BY <1>0, <3>3, TurnFacts DEF NotYet
    <3> QED
        BY <3>2, <3>3, <3>5, <3>6 DEF TurnStep, Rotation!FirstTurn
  <2> QED
      BY <1>1, <2>1
<1>4. ASSUME NEW p \in Specialists, AcceptMark(p)
      PROVE  TurnStep(t)
  <2>1. CASE accept[p].ticket = t
    <3>1. offer[t].state \notin NotYet
          BY <1>4, <2>1 DEF AcceptMark, IInv, AcceptsOK
    <3>2. /\ offer'[t].state = "accepted" /\ offer'[t].round = offer[t].round
          /\ offer'[t].to \in Specialists \cup {offer[t].to}
          BY <1>0, <1>4, <2>1 DEF AcceptMark, Offer
    <3>3. Stage(t) # "none" /\ Stage(t)' = "accepted" /\ Turns(t)' = Turns(t)
          BY <1>0, <3>1, <3>2, TurnFacts DEF StageOK, NotYet
    <3> QED
        BY <3>2, <3>3 DEF TurnStep, Rotation!Accept
  <2> QED
      BY <1>0, <1>1, <1>4, <2>1 DEF AcceptMark
<1>5. ASSUME NEW w \in Sweepers, PassEnd(w)
      PROVE  TurnStep(t)
  <2>1. CASE offer'[t] # offer[t]
    <3>1. t \in pass[w].locks /\ offer'[t] = pass[w].draft[t]
          BY <1>5, <2>1, PassEndFacts
    <3>2. Active(t) /\ Turned(t, offer[t], offer'[t])
          BY <3>1 DEF IInv, PassesOK, PassOK, DraftsOK
    <3> QED
        BY <1>0, <3>2, TurnedSteps
  <2> QED
      BY <1>1, <2>1
<1>6. CASE Tick
      BY <1>0, <1>6, TickAges
<1>7. CASE UNCHANGED offer
      BY <1>1, <1>7
<1> QED
    BY <1>2, <1>3, <1>4, <1>5, <1>6, <1>7 DEF Next, vars, SetStatus, Heartbeat, AcceptLoad,
       AcceptDies, Claim, AcceptClaim, Assign, Release, CreateOfferFails, PassLoad, PassAdvance,
       PassDies

\* The steps of all offers together are a step of OfferTurns.
LEMMA StepRotates == IInv /\ IInv' /\ DraftsOK /\ [Next]_vars => Rotation!Next
<1> SUFFICES ASSUME IInv, IInv', DraftsOK, [Next]_vars PROVE Rotation!Next
    OBVIOUS
<1>1. \A t \in Tickets : TurnStep(t)
      BY StepTurns
<1>2. ASSUME NEW t \in Tickets
      PROVE  /\ Stage(t)' \in Rotation!Stages /\ offer'[t].to \in Specialists \cup {None}
             /\ Turns(t)' \in 0..MaxRounds
  <2>1. StageOK(t)' /\ offer'[t] \in Offer
        BY StageFactsNext DEF IInv, TypeOK
  <2>2. offer'[t].round \in 0..MaxRounds - 1
        BY <2>1 DEF Offer
  <2>3. Turns(t)' \in 0..MaxRounds
        BY <2>2, TurnFacts, OfferAssumption DEF IInv
  <2> QED
      BY <2>1, <2>3 DEF StageOK, Offer
<1> QED
    BY <1>1, <1>2 DEF TurnStep, Rotation!Next

\* Whatever the passes and acceptances in flight had loaded, every commit is
\* a step of decide_next: an offer goes round, is accepted or is given up, and
\* nobody gets it out of turn, twice in a row, or as its own requester.
THEOREM ImplementsOfferTurns == Spec => OffersTakeTurns
<1>1. Init => Rotation!Init
  <2> SUFFICES ASSUME Init PROVE Rotation!Init
      OBVIOUS
  <2>1. ASSUME NEW t \in Tickets
        PROVE  Stage(t) = "none" /\ Turns(t) = 0 /\ offer[t].to = None
    <3>1. offer[t].state = "absent" /\ offer[t].to = None
          BY DEF Init, NoOffer
    <3>2. Stage(t) = "none"
          BY <3>1 DEF Stage, Active, ActiveStates
    <3> QED
        BY <3>1, <3>2 DEF Turns
  <2> QED
      BY <2>1 DEF Rotation!Init
<1>2. Init => DraftsOK
  <2> SUFFICES ASSUME Init, NEW w \in Sweepers PROVE pass[w].locks = {}
      BY DEF DraftsOK
  <2> QED
      BY DEF Init, NoPass
<1>3. IInv /\ IInv' /\ DraftsOK /\ [Next]_vars => [Rotation!Next]_(Rotation!rotation)
      BY StepRotates
<1> QED
    BY <1>1, <1>2, <1>3, DraftsKept, InductiveInvariant, PTL DEF Spec, OffersTakeTurns, Rotation!Spec
=============================================================================
