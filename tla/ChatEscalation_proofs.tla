------------------------ MODULE ChatEscalation_proofs ------------------------
(***************************************************************************)
(* Proofs about ChatEscalation, for every set of requests and workers.     *)
(*                                                                         *)
(* Nobody can see all copies of the note, so the invariant says of each    *)
(* place a request may read next that it names every open ticket.  While   *)
(* a filed ticket has yet to reach its envelope that place is the request  *)
(* that filed it; until the envelope is saved, the envelope; and then the  *)
(* store, or the durable row when the store has nothing.                   *)
(***************************************************************************)
EXTENDS ChatEscalation, TLAPS

\* A request in flight has an object and a worker.
Held == \A r \in Requests : Active(r) => req[r].env \in Requests /\ req[r].on \in Workers

\* Until a request has made its object, the object is blank and nobody else's.
Unmade(r) == req[r].pc \in {"idle", "restore"}
Private ==
    \A r \in Requests : Unmade(r) =>
        /\ obj[r] = Blank
        /\ \A w \in Workers : cache[w] # r
        /\ \A q \in Requests \ {r} : req[q].env # r
Own == \A r \in Requests : req[r].pc \in {"restore", "keep"} => req[r].env = r

Committed == \A r \in Requests : req[r].pc = "record" => r \in tickets
RowOK == ~row.held => row.env = Blank
RedisOK == backend = "memory" => redis = NoCopy
Offered ==
    \A r \in Requests : req[r].pc = "offer" => Ticket(r) # None \/ dropped # {}

\* Every open ticket is t, if there is any.
Knows(t) == \A s \in Open : s = t

Recording == \E q \in Requests : req[q].pc = "record"
Pending == \E q \in Requests : req[q].pc \in {"record", "offer", "save"}

\* Without an excuse all requests in flight share one object, of one worker,
\* and it is the only one in a map.
Together ==
    /\ \A q, r \in Requests : Active(q) /\ Active(r) =>
          req[q].env = req[r].env /\ req[q].on = req[r].on
    /\ \A r \in Requests, w \in Workers : Active(r) /\ cache[w] # None =>
          cache[w] = req[r].env /\ w = req[r].on
    /\ \A v, w \in Workers : cache[v] # None /\ cache[w] # None => v = w
Copied ==
    backend = "redis" =>
        /\ \A w \in Workers : cache[w] = None
        /\ \A r \in Requests : Active(r) => req[r].env = r

RecorderKnows == \A q \in Requests : req[q].pc = "record" => Knows(q)
ObjectKnows ==
    ~Recording => \A r \in Requests : Active(r) /\ req[r].pc # "restore" => Knows(Ticket(r))
MapKnows ==
    ~Recording => \A w \in Workers : cache[w] # None => Knows(obj[cache[w]].ticket)
RedisKnows == ~Pending /\ redis.held => Knows(redis.env.ticket)
RowKnows ==
    ~Pending /\ ~redis.held /\ (\A w \in Workers : cache[w] = None) => Knows(row.env.ticket)

Missing == \A r \in Requests : req[r].pc = "restore" => ~redis.held

Clean ==
    /\ Together /\ Copied /\ Missing
    /\ RecorderKnows /\ ObjectKnows /\ MapKnows /\ RedisKnows /\ RowKnows

CopyOK(e) == e.ticket \in tickets \cup {None} /\ (e.waiting /\ e.ticket = None => dropped # {})
CopiesOK ==
    /\ \A r \in Requests : CopyOK(obj[r]) /\ CopyOK(req[r].note)
    /\ CopyOK(redis.env) /\ CopyOK(row.env)

Base ==
    TypeOK /\ Held /\ Private /\ Own /\ Committed /\ RowOK /\ RedisOK /\ Offered /\ CopiesOK

IInv == Base /\ (~excused => Clean)

-----------------------------------------------------------------------------
(* What the small steps do                                                  *)

LEMMA Blanks == Blank \in Envelope /\ NoCopy \in Copy /\ Blank.ticket = None /\ Blank.waiting = FALSE
BY DEF Blank, Envelope, NoCopy, Copy, Refs

LEMMA AtFacts ==
    ASSUME NEW pc \in Pcs
    PROVE  /\ At(pc) \in Req
           /\ At(pc).pc = pc /\ At(pc).env = None /\ At(pc).note = Blank
BY Blanks DEF At, Req, Kinds, Refs

LEMMA GotoFacts ==
    ASSUME TypeOK, NEW r \in Requests, NEW pc \in Pcs, Goto(r, pc)
    PROVE  /\ req' \in [Requests -> Req]
           /\ \A q \in Requests \ {r} : req'[q] = req[q]
           /\ req'[r].pc = pc /\ req'[r].env = req[r].env /\ req'[r].on = req[r].on
           /\ req'[r].note = req[r].note
BY DEF TypeOK, Goto, Req

LEMMA FinishFacts ==
    ASSUME TypeOK, NEW r \in Requests, Finish(r)
    PROVE  /\ req' \in [Requests -> Req]
           /\ \A q \in Requests \ {r} : req'[q] = req[q]
           /\ req'[r].pc = "done" /\ req'[r].env = None /\ req'[r].note = Blank
<1>1. "done" \in Pcs
  BY DEF Pcs
<1>2. At("done") \in Req /\ At("done").pc = "done" /\ At("done").env = None /\ At("done").note = Blank
  BY <1>1, AtFacts
<1> QED
  BY <1>2 DEF TypeOK, Finish

LEMMA EnterFacts ==
    ASSUME TypeOK, NEW r \in Requests, NEW pc \in Pcs, NEW k \in Kinds, NEW w \in Workers,
           NEW o \in Requests, Enter(r, pc, k, w, o)
    PROVE  /\ req' \in [Requests -> Req]
           /\ \A q \in Requests \ {r} : req'[q] = req[q]
           /\ req'[r].pc = pc /\ req'[r].env = o /\ req'[r].on = w /\ req'[r].note = Blank
<1> DEFINE new == [pc |-> pc, kind |-> k, on |-> w, env |-> o, note |-> Blank]
<1>1. new \in Req /\ new.pc = pc /\ new.env = o /\ new.on = w /\ new.note = Blank
  BY Blanks DEF Req, Refs
<1>2. req' = [req EXCEPT ![r] = new]
  BY DEF Enter
<1> HIDE DEF new
<1> QED
  BY <1>1, <1>2 DEF TypeOK

\* What ProceedFacts says, and what a request does that finds no copy.
Proceeds(r, w, o, objs) ==
    /\ req' \in [Requests -> Req]
    /\ \A q \in Requests \ {r} : req'[q] = req[q]
    /\ req'[r].pc \in {"working", "filing", "save", "done"} /\ req'[r].note = Blank
    /\ req'[r].pc = "done" => req'[r].env = None
    /\ req'[r].pc # "done" => req'[r].env = o /\ req'[r].on = w
    /\ obj' \in [Requests -> Envelope]
    /\ \A q \in Requests : /\ obj'[q].ticket = objs[q].ticket
                           /\ obj'[q].waiting => objs[q].waiting
                           /\ q # o => obj'[q] = objs[q]
Restores(r, w) ==
    /\ req' \in [Requests -> Req]
    /\ \A q \in Requests \ {r} : req'[q] = req[q]
    /\ req'[r].pc = "restore" /\ req'[r].env = r /\ req'[r].on = w /\ req'[r].note = Blank
    /\ obj' = obj

\* A request that has its envelope goes to work on it, or is done; a
\* cancellation may clear a wait in it.
LEMMA ProceedFacts ==
    ASSUME TypeOK, NEW r \in Requests, NEW k \in Kinds, NEW w \in Workers, NEW o \in Requests,
           NEW objs \in [Requests -> Envelope], NEW known, Proceed(r, k, w, o, objs, known)
    PROVE  Proceeds(r, w, o, objs)
<1>0. {"working", "filing", "save", "done"} \subseteq Pcs
  BY DEF Pcs
<1>1. ASSUME NEW pc \in {"working", "filing", "save"}, Enter(r, pc, k, w, o)
      PROVE  /\ req' \in [Requests -> Req]
             /\ \A q \in Requests \ {r} : req'[q] = req[q]
             /\ req'[r].pc = pc /\ req'[r].env = o /\ req'[r].on = w /\ req'[r].note = Blank
  BY <1>0, <1>1, EnterFacts
<1>2. CASE (k = "turn" /\ Enter(r, "working", k, w, o) /\ obj' = objs)
           \/ (k = "click" /\ objs[o].ticket = None /\ Enter(r, "filing", k, w, o) /\ obj' = objs)
  BY <1>1, <1>2 DEF Proceeds
<1>3. CASE Finish(r) /\ obj' = objs
  BY <1>3, FinishFacts DEF Proceeds
<1>4. CASE Enter(r, "save", k, w, o) /\ obj' = [objs EXCEPT ![o].waiting = FALSE]
  <2>1. obj' \in [Requests -> Envelope]
    BY <1>4 DEF Envelope
  <2>2. \A q \in Requests : /\ obj'[q].ticket = objs[q].ticket
                            /\ obj'[q].waiting => objs[q].waiting
                            /\ q # o => obj'[q] = objs[q]
    BY <1>4 DEF Envelope
  <2> QED
    BY <1>1, <1>4, <2>1, <2>2 DEF Proceeds
<1> QED
  BY <1>2, <1>3, <1>4 DEF Proceed

\* A save goes to the map of the worker or to Redis, and without an excuse to
\* the one that the deployment has.
LEMMA SaveFacts ==
    ASSUME TypeOK, NEW r \in Requests, Save(r), req[r].env \in Requests, req[r].on \in Workers
    PROVE  /\ cache' \in [Workers -> Refs] /\ redis' \in Copy /\ excused' \in BOOLEAN
           /\ excused => excused'
           /\ \A w \in Workers : cache'[w] \in {cache[w], req[r].env}
           /\ redis' = redis \/ redis'.env = obj[req[r].env]
           /\ backend = "memory" =>
                 redis' = redis /\ cache' = [cache EXCEPT ![req[r].on] = req[r].env]
           /\ backend = "redis" /\ ~excused' =>
                 cache' = cache /\ redis' = [held |-> TRUE, env |-> obj[req[r].env]]
<1>1. obj[req[r].env] \in Envelope
  BY DEF TypeOK
<1>2. [held |-> TRUE, env |-> obj[req[r].env]] \in Copy
  BY <1>1 DEF Copy
<1>3. CASE backend = "memory" /\ cache' = [cache EXCEPT ![req[r].on] = req[r].env]
           /\ UNCHANGED <<redis, excused>>
  BY <1>3 DEF TypeOK, Refs
<1>4. CASE backend = "redis" /\ redis' = [held |-> TRUE, env |-> obj[req[r].env]]
           /\ UNCHANGED <<cache, excused>>
  BY <1>2, <1>4 DEF TypeOK, Refs
<1>5. CASE backend = "redis" /\ cache' = [cache EXCEPT ![req[r].on] = req[r].env]
           /\ redis' \in {redis, [held |-> TRUE, env |-> obj[req[r].env]]} /\ excused' = TRUE
  <2>1. redis' \in Copy /\ (redis' = redis \/ redis'.env = obj[req[r].env])
    <3>1. CASE redis' = redis
      BY <3>1 DEF TypeOK
    <3>2. CASE redis' = [held |-> TRUE, env |-> obj[req[r].env]]
      BY <1>2, <3>2
    <3> QED
      BY <1>5, <3>1, <3>2
  <2> QED
    BY <1>5, <2>1 DEF TypeOK, Refs
<1> QED
  BY <1>3, <1>4, <1>5 DEF TypeOK, Save, Excuse
-----------------------------------------------------------------------------
(* The invariant of every behaviour                                         *)

LEMMA FailBase ==
    ASSUME Base, NEW r \in Requests, Fail(r)
    PROVE  Base'
<1>1. /\ req' \in [Requests -> Req]
      /\ \A q \in Requests \ {r} : req'[q] = req[q]
      /\ req'[r].pc = "done" /\ req'[r].env = None /\ req'[r].note = Blank
  BY FinishFacts DEF Base, Fail
<1>2. /\ UNCHANGED <<backend, obj, cache, redis, row, tickets, dropped, excused>>
      /\ ~Unmade(r)' /\ Blank.ticket = None /\ Blank.waiting = FALSE
  BY <1>1, Blanks DEF Fail, Unmade
<1>3. TypeOK'
  BY <1>1, <1>2 DEF Base, TypeOK
<1>4. Held'
  BY <1>1, <1>2 DEF Base, Held, Active, TypeOK
<1>5. Private'
  BY <1>1, <1>2, EscalationAssumption DEF Base, Private, Unmade, Refs, TypeOK
<1>6. Own'
  BY <1>1, <1>2 DEF Base, Own, TypeOK
<1>7. Committed'
  BY <1>1, <1>2 DEF Base, Committed, TypeOK
<1>8. RowOK'
  BY <1>1, <1>2 DEF Base, RowOK
<1>9. RedisOK'
  BY <1>1, <1>2 DEF Base, RedisOK
<1>10. Offered'
  BY <1>1, <1>2 DEF Base, Offered, Ticket, TypeOK
<1>11. CopiesOK'
  BY <1>1, <1>2 DEF Base, CopiesOK, CopyOK, TypeOK
<1> QED
  BY <1>3, <1>4, <1>5, <1>6, <1>7, <1>8, <1>9, <1>10, <1>11 DEF Base

LEMMA AnswerBase ==
    ASSUME Base, NEW r \in Requests, Answer(r)
    PROVE  Base'
<1> DEFINE e == req[r].env
<1>1. e \in Requests /\ Ticket(r) \in Refs /\ req[r].pc = "working"
  BY DEF Base, TypeOK, Held, Active, Answer, Ticket, Envelope
<1>2. PICK newTopic, confirmed \in BOOLEAN :
        LET t == IF newTopic THEN None ELSE Ticket(r)
        IN  /\ obj' = [obj EXCEPT ![e].ticket = t]
            /\ dropped' = IF newTopic THEN dropped \cup ({Ticket(r)} \ {None}) ELSE dropped
            /\ Goto(r, IF confirmed /\ t = None THEN "filing" ELSE "save")
  BY DEF Answer
<1> DEFINE t == IF newTopic THEN None ELSE Ticket(r)
<1>3. /\ obj' = [obj EXCEPT ![e].ticket = t]
      /\ obj' \in [Requests -> Envelope]
      /\ obj'[e].ticket = t /\ obj'[e].waiting = obj[e].waiting
      /\ \A q \in Requests \ {e} : obj'[q] = obj[q]
  BY <1>1, <1>2 DEF Base, TypeOK, Envelope, Refs
<1>4. /\ t \in {None, Ticket(r)}
      /\ dropped \subseteq dropped' /\ dropped' \subseteq Requests
      /\ t # Ticket(r) => dropped' # {}
  BY <1>1, <1>2 DEF Base, TypeOK, Refs
<1>5. /\ req' \in [Requests -> Req]
      /\ \A q \in Requests \ {r} : req'[q] = req[q]
      /\ req'[r].pc \in {"filing", "save"} /\ req'[r].env = e /\ req'[r].on = req[r].on
      /\ req'[r].note = req[r].note
  <2>1. PICK pc \in {"filing", "save"} : Goto(r, pc)
    BY <1>2
  <2>2. pc \in Pcs
    BY DEF Pcs
  <2> QED
    BY <2>1, <2>2, GotoFacts DEF Base
<1>6. UNCHANGED <<backend, cache, redis, row, tickets, excused>>
  BY DEF Answer
<1>7. Ticket(r) = obj[e].ticket
  BY DEF Ticket
<1> HIDE DEF t
<1>8. TypeOK'
  BY <1>1, <1>3, <1>4, <1>5, <1>6, <1>7 DEF Base, TypeOK
<1>9. Held'
  BY <1>1, <1>3, <1>4, <1>5, <1>6, <1>7 DEF Base, Held, Active, TypeOK
<1>10. Private'
  BY <1>1, <1>3, <1>4, <1>5, <1>6, <1>7, EscalationAssumption DEF Base, Private, Unmade, Refs, TypeOK
<1>11. Own'
  BY <1>1, <1>3, <1>4, <1>5, <1>6, <1>7 DEF Base, Own, TypeOK
<1>12. Committed'
  BY <1>1, <1>3, <1>4, <1>5, <1>6, <1>7 DEF Base, Committed, TypeOK
<1>13. RowOK'
  BY <1>1, <1>3, <1>4, <1>5, <1>6, <1>7 DEF Base, RowOK
<1>14. RedisOK'
  BY <1>1, <1>3, <1>4, <1>5, <1>6, <1>7 DEF Base, RedisOK
<1>15. Offered'
  BY <1>1, <1>3, <1>4, <1>5, <1>6, <1>7 DEF Base, Offered, Ticket, TypeOK
<1>16. CopiesOK'
  BY <1>1, <1>3, <1>4, <1>5, <1>6, <1>7 DEF Base, CopiesOK, CopyOK, TypeOK
<1> QED
  BY <1>8, <1>9, <1>10, <1>11, <1>12, <1>13, <1>14, <1>15, <1>16 DEF Base

LEMMA FileBase ==
    ASSUME Base, NEW r \in Requests, File(r)
    PROVE  Base'
<1>1. /\ req' \in [Requests -> Req]
      /\ \A q \in Requests \ {r} : req'[q] = req[q]
      /\ req'[r].pc \in {"record", "done"}
      /\ req'[r].pc = "record" => req'[r].env = req[r].env /\ req'[r].on = req[r].on
      /\ req'[r].pc = "done" => req'[r].env = None
      /\ req'[r].note \in {req[r].note, Blank}
  BY GotoFacts, FinishFacts DEF Base, File, Pcs
<1>2. /\ UNCHANGED <<backend, obj, cache, redis, row, dropped>>
      /\ tickets' = tickets \cup {r} /\ req[r].pc = "filing" /\ excused' \in BOOLEAN
      /\ Blank.ticket = None /\ Blank.waiting = FALSE
  BY Blanks DEF File, Excuse, Base, TypeOK
<1>3. TypeOK'
  BY <1>1, <1>2 DEF Base, TypeOK
<1>4. Held'
  BY <1>1, <1>2 DEF Base, Held, Active, TypeOK
<1>5. Private'
  BY <1>1, <1>2, EscalationAssumption DEF Base, Private, Unmade, Refs, TypeOK
<1>6. Own'
  BY <1>1, <1>2 DEF Base, Own, TypeOK
<1>7. Committed'
  BY <1>1, <1>2 DEF Base, Committed, TypeOK
<1>8. RowOK'
  BY <1>1, <1>2 DEF Base, RowOK
<1>9. RedisOK'
  BY <1>1, <1>2 DEF Base, RedisOK
<1>10. Offered'
  BY <1>1, <1>2 DEF Base, Offered, Ticket, TypeOK
<1>11. CopiesOK'
  BY <1>1, <1>2 DEF Base, CopiesOK, CopyOK, TypeOK
<1> QED
  BY <1>3, <1>4, <1>5, <1>6, <1>7, <1>8, <1>9, <1>10, <1>11 DEF Base

LEMMA RecordBase ==
    ASSUME Base, NEW r \in Requests, Record(r)
    PROVE  Base'
<1> DEFINE e == req[r].env
<1>1. e \in Requests /\ r \in Refs /\ r # None /\ req[r].pc = "record" /\ r \in tickets
  BY EscalationAssumption DEF Base, TypeOK, Held, Active, Committed, Record, Refs
<1>2. /\ obj' = [obj EXCEPT ![e].ticket = r]
      /\ obj' \in [Requests -> Envelope]
      /\ obj'[e].ticket = r /\ obj'[e].waiting = obj[e].waiting
      /\ \A q \in Requests \ {e} : obj'[q] = obj[q]
  BY <1>1 DEF Base, TypeOK, Envelope, Record
<1>3. /\ req' \in [Requests -> Req]
      /\ \A q \in Requests \ {r} : req'[q] = req[q]
      /\ req'[r].pc \in {"offer", "save"} /\ req'[r].env = e /\ req'[r].on = req[r].on
      /\ req'[r].note = req[r].note
  <2>1. PICK pc \in {"offer", "save"} : Goto(r, pc)
    BY DEF Record
  <2>2. pc \in Pcs
    BY DEF Pcs
  <2> QED
    BY <2>1, <2>2, GotoFacts DEF Base
<1>4. UNCHANGED <<backend, cache, redis, row, tickets, dropped, excused>>
  BY DEF Record
<1>5. TypeOK'
  BY <1>1, <1>2, <1>3, <1>4 DEF Base, TypeOK
<1>6. Held'
  BY <1>1, <1>2, <1>3, <1>4 DEF Base, Held, Active, TypeOK
<1>7. Private'
  BY <1>1, <1>2, <1>3, <1>4, EscalationAssumption DEF Base, Private, Unmade, Refs, TypeOK
<1>8. Own'
  BY <1>1, <1>2, <1>3, <1>4 DEF Base, Own, TypeOK
<1>9. Committed'
  BY <1>1, <1>2, <1>3, <1>4 DEF Base, Committed, TypeOK
<1>10. RowOK'
  BY <1>1, <1>2, <1>3, <1>4 DEF Base, RowOK
<1>11. RedisOK'
  BY <1>1, <1>2, <1>3, <1>4 DEF Base, RedisOK
<1>12. Offered'
  BY <1>1, <1>2, <1>3, <1>4 DEF Base, Offered, Ticket, TypeOK
<1>13. CopiesOK'
  BY <1>1, <1>2, <1>3, <1>4 DEF Base, CopiesOK, CopyOK, TypeOK
<1> QED
  BY <1>5, <1>6, <1>7, <1>8, <1>9, <1>10, <1>11, <1>12, <1>13 DEF Base

LEMMA OfferBase ==
    ASSUME Base, NEW r \in Requests, Offer(r)
    PROVE  Base'
<1> DEFINE e == req[r].env
<1>1. /\ e \in Requests /\ req[r].pc = "offer"
      /\ obj[e].ticket # None \/ dropped # {}
  BY DEF Base, Held, Active, Offer, Offered, Ticket
<1>2. /\ obj' = [obj EXCEPT ![e].waiting = TRUE]
      /\ obj' \in [Requests -> Envelope]
      /\ obj'[e].ticket = obj[e].ticket
      /\ \A q \in Requests \ {e} : obj'[q] = obj[q]
  BY <1>1 DEF Base, TypeOK, Envelope, Offer
<1>3. /\ req' \in [Requests -> Req]
      /\ \A q \in Requests \ {r} : req'[q] = req[q]
      /\ req'[r].pc = "save" /\ req'[r].env = e /\ req'[r].on = req[r].on
      /\ req'[r].note = req[r].note
  BY GotoFacts DEF Base, Offer, Pcs
<1>4. UNCHANGED <<backend, cache, redis, row, tickets, dropped, excused>>
  BY DEF Offer
<1>5. TypeOK'
  BY <1>1, <1>2, <1>3, <1>4 DEF Base, TypeOK
<1>6. Held'
  BY <1>1, <1>2, <1>3, <1>4 DEF Base, Held, Active, TypeOK
<1>7. Private'
  BY <1>1, <1>2, <1>3, <1>4, EscalationAssumption DEF Base, Private, Unmade, Refs, TypeOK
<1>8. Own'
  BY <1>1, <1>2, <1>3, <1>4 DEF Base, Own, TypeOK
<1>9. Committed'
  BY <1>1, <1>2, <1>3, <1>4 DEF Base, Committed, TypeOK
<1>10. RowOK'
  BY <1>1, <1>2, <1>3, <1>4 DEF Base, RowOK
<1>11. RedisOK'
  BY <1>1, <1>2, <1>3, <1>4 DEF Base, RedisOK
<1>12. Offered'
  BY <1>1, <1>2, <1>3, <1>4 DEF Base, Offered, Ticket, TypeOK
<1>13. CopiesOK'
  BY <1>1, <1>2, <1>3, <1>4 DEF Base, CopiesOK, CopyOK, TypeOK
<1> QED
  BY <1>5, <1>6, <1>7, <1>8, <1>9, <1>10, <1>11, <1>12, <1>13 DEF Base

LEMMA FormatBase ==
    ASSUME Base, NEW r \in Requests, Format(r)
    PROVE  Base'
<1>1. req[r].env \in Requests /\ req[r].pc = "format" /\ obj[req[r].env] \in Envelope
  BY DEF Base, TypeOK, Held, Active, Format
<1>2. /\ req' \in [Requests -> Req]
      /\ \A q \in Requests \ {r} : req'[q] = req[q]
      /\ req'[r].pc = "sync" /\ req'[r].env = req[r].env /\ req'[r].on = req[r].on
      /\ req'[r].note = obj[req[r].env]
  BY <1>1 DEF Base, TypeOK, Format, Req, Pcs
<1>3. UNCHANGED <<backend, obj, cache, redis, row, tickets, dropped, excused>>
  BY DEF Format
<1>4. TypeOK'
  BY <1>1, <1>2, <1>3 DEF Base, TypeOK
<1>5. Held'
  BY <1>1, <1>2, <1>3 DEF Base, Held, Active, TypeOK
<1>6. Private'
  BY <1>1, <1>2, <1>3, EscalationAssumption DEF Base, Private, Unmade, Refs, TypeOK
<1>7. Own'
  BY <1>1, <1>2, <1>3 DEF Base, Own, TypeOK
<1>8. Committed'
  BY <1>1, <1>2, <1>3 DEF Base, Committed, TypeOK
<1>9. RowOK'
  BY <1>1, <1>2, <1>3 DEF Base, RowOK
<1>10. RedisOK'
  BY <1>1, <1>2, <1>3 DEF Base, RedisOK
<1>11. Offered'
  BY <1>1, <1>2, <1>3 DEF Base, Offered, Ticket, TypeOK
<1>12. CopiesOK'
  BY <1>1, <1>2, <1>3 DEF Base, CopiesOK, CopyOK, TypeOK
<1> QED
  BY <1>4, <1>5, <1>6, <1>7, <1>8, <1>9, <1>10, <1>11, <1>12 DEF Base

LEMMA SyncTurnBase ==
    ASSUME Base, NEW r \in Requests, SyncTurn(r)
    PROVE  Base'
<1>1. /\ req' \in [Requests -> Req]
      /\ \A q \in Requests \ {r} : req'[q] = req[q]
      /\ req'[r].pc = "done" /\ req'[r].env = None /\ req'[r].note = Blank
  BY FinishFacts DEF Base, SyncTurn
<1>2. /\ UNCHANGED <<backend, obj, cache, redis, tickets, dropped>>
      /\ req[r].pc = "sync" /\ excused' \in BOOLEAN
      /\ Blank.ticket = None /\ Blank.waiting = FALSE
  BY Blanks DEF SyncTurn, Excuse, Base, TypeOK
<1>3. row' = row \/ (row'.held = TRUE /\ row'.env = req[r].note)
  BY DEF SyncTurn
<1>4. row' \in Copy
  <2>1. req[r].note \in Envelope /\ row \in Copy
    BY DEF Base, TypeOK, Req
  <2>2. [held |-> TRUE, env |-> req[r].note] \in Copy
    BY <2>1 DEF Copy
  <2> QED
    BY <2>1, <2>2 DEF SyncTurn
<1>5. TypeOK'
  BY <1>1, <1>2, <1>3, <1>4 DEF Base, TypeOK
<1>6. Held'
  BY <1>1, <1>2, <1>3, <1>4 DEF Base, Held, Active, TypeOK
<1>7. Private'
  BY <1>1, <1>2, <1>3, <1>4, EscalationAssumption DEF Base, Private, Unmade, Refs, TypeOK
<1>8. Own'
  BY <1>1, <1>2, <1>3, <1>4 DEF Base, Own, TypeOK
<1>9. Committed'
  BY <1>1, <1>2, <1>3, <1>4 DEF Base, Committed, TypeOK
<1>10. RowOK'
  BY <1>1, <1>2, <1>3, <1>4 DEF Base, RowOK
<1>11. RedisOK'
  BY <1>1, <1>2, <1>3, <1>4 DEF Base, RedisOK
<1>12. Offered'
  BY <1>1, <1>2, <1>3, <1>4 DEF Base, Offered, Ticket, TypeOK
<1>13. CopiesOK'
  BY <1>1, <1>2, <1>3, <1>4 DEF Base, CopiesOK, CopyOK, TypeOK
<1> QED
  BY <1>5, <1>6, <1>7, <1>8, <1>9, <1>10, <1>11, <1>12, <1>13 DEF Base

LEMMA EvictBase ==
    ASSUME Base, NEW w \in Workers, Evict(w)
    PROVE  Base'
<1>1. /\ cache' \in [Workers -> Refs]
      /\ \A v \in Workers : cache'[v] \in {cache[v], None}
      /\ UNCHANGED <<backend, obj, redis, row, req, tickets, dropped>> /\ excused' \in BOOLEAN
  BY DEF Evict, Excuse, Base, TypeOK, Refs
<1>2. TypeOK'
  BY <1>1 DEF Base, TypeOK
<1>3. Held'
  BY <1>1 DEF Base, Held, Active, TypeOK
<1>4. Private'
  BY <1>1, EscalationAssumption DEF Base, Private, Unmade, Refs, TypeOK
<1>5. Own'
  BY <1>1 DEF Base, Own, TypeOK
<1>6. Committed'
  BY <1>1 DEF Base, Committed, TypeOK
<1>7. RowOK'
  BY <1>1 DEF Base, RowOK
<1>8. RedisOK'
  BY <1>1 DEF Base, RedisOK
<1>9. Offered'
  BY <1>1 DEF Base, Offered, Ticket, TypeOK
<1>10. CopiesOK'
  BY <1>1 DEF Base, CopiesOK, CopyOK, TypeOK
<1> QED
  BY <1>2, <1>3, <1>4, <1>5, <1>6, <1>7, <1>8, <1>9, <1>10 DEF Base

LEMMA ExpireBase ==
    ASSUME Base, Expire
    PROVE  Base'
<1>1. /\ redis' = NoCopy /\ redis' \in Copy /\ NoCopy.env = Blank
      /\ Blank.ticket = None /\ Blank.waiting = FALSE
      /\ UNCHANGED <<backend, obj, cache, row, req, tickets, dropped>> /\ excused' \in BOOLEAN
  BY Blanks DEF Expire, Excuse, Base, TypeOK, NoCopy
<1>2. TypeOK'
  BY <1>1 DEF Base, TypeOK
<1>3. Held'
  BY <1>1 DEF Base, Held, Active, TypeOK
<1>4. Private'
  BY <1>1, EscalationAssumption DEF Base, Private, Unmade, Refs, TypeOK
<1>5. Own'
  BY <1>1 DEF Base, Own, TypeOK
<1>6. Committed'
  BY <1>1 DEF Base, Committed, TypeOK
<1>7. RowOK'
  BY <1>1 DEF Base, RowOK
<1>8. RedisOK'
  BY <1>1 DEF Base, RedisOK
<1>9. Offered'
  BY <1>1 DEF Base, Offered, Ticket, TypeOK
<1>10. CopiesOK'
  BY <1>1 DEF Base, CopiesOK, CopyOK, TypeOK
<1> QED
  BY <1>2, <1>3, <1>4, <1>5, <1>6, <1>7, <1>8, <1>9, <1>10 DEF Base

LEMMA CrashBase ==
    ASSUME Base, NEW w \in Workers, Crash(w)
    PROVE  Base'
<1>1. /\ cache' \in [Workers -> Refs]
      /\ \A v \in Workers : cache'[v] \in {cache[v], None}
      /\ UNCHANGED <<backend, obj, redis, row, tickets, dropped>> /\ excused' \in BOOLEAN
  BY DEF Crash, Excuse, Base, TypeOK, Refs
<1>2. /\ At("done") \in Req /\ At("done").pc = "done" /\ At("done").env = None
      /\ At("done").note = Blank /\ Blank.ticket = None /\ Blank.waiting = FALSE
  BY AtFacts, Blanks DEF Pcs
<1>3. /\ req' \in [Requests -> Req]
      /\ \A q \in Requests : req'[q] = req[q] \/ req'[q] = At("done")
  BY <1>2 DEF Crash, Base, TypeOK
<1>4. TypeOK'
  BY <1>1, <1>2, <1>3 DEF Base, TypeOK
<1>5. Held'
  BY <1>1, <1>2, <1>3 DEF Base, Held, Active, TypeOK
<1>6. Private'
  BY <1>1, <1>2, <1>3, EscalationAssumption DEF Base, Private, Unmade, Refs, TypeOK
<1>7. Own'
  BY <1>1, <1>2, <1>3 DEF Base, Own, TypeOK
<1>8. Committed'
  BY <1>1, <1>2, <1>3 DEF Base, Committed, TypeOK
<1>9. RowOK'
  BY <1>1, <1>2, <1>3 DEF Base, RowOK
<1>10. RedisOK'
  BY <1>1, <1>2, <1>3 DEF Base, RedisOK
<1>11. Offered'
  BY <1>1, <1>2, <1>3 DEF Base, Offered, Ticket, TypeOK
<1>12. CopiesOK'
  BY <1>1, <1>2, <1>3 DEF Base, CopiesOK, CopyOK, TypeOK
<1> QED
  BY <1>4, <1>5, <1>6, <1>7, <1>8, <1>9, <1>10, <1>11, <1>12 DEF Base

LEMMA SaveEnvelopeBase ==
    ASSUME Base, NEW r \in Requests, SaveEnvelope(r)
    PROVE  Base'
<1>1. req[r].env \in Requests /\ req[r].on \in Workers /\ req[r].pc = "save" /\ Save(r)
  BY DEF Base, Held, Active, SaveEnvelope
<1>2. /\ cache' \in [Workers -> Refs] /\ redis' \in Copy /\ excused' \in BOOLEAN
      /\ \A w \in Workers : cache'[w] \in {cache[w], req[r].env}
      /\ redis' = redis \/ redis'.env = obj[req[r].env]
      /\ backend = "memory" => redis' = redis
  BY <1>1, SaveFacts DEF Base
<1>3. /\ req' \in [Requests -> Req]
      /\ \A q \in Requests \ {r} : req'[q] = req[q]
      /\ req'[r].pc \in {"format", "done"}
      /\ req'[r].pc = "format" => req'[r].env = req[r].env /\ req'[r].on = req[r].on
      /\ req'[r].pc = "done" => req'[r].env = None
      /\ req'[r].note \in {req[r].note, Blank}
  BY GotoFacts, FinishFacts DEF Base, SaveEnvelope, Pcs
<1>4. /\ UNCHANGED <<backend, obj, row, tickets, dropped>>
      /\ Blank.ticket = None /\ Blank.waiting = FALSE
  BY Blanks DEF SaveEnvelope
<1>5. TypeOK'
  BY <1>1, <1>2, <1>3, <1>4 DEF Base, TypeOK
<1>6. Held'
  BY <1>1, <1>2, <1>3, <1>4 DEF Base, Held, Active, TypeOK
<1>7. Private'
  BY <1>1, <1>2, <1>3, <1>4, EscalationAssumption DEF Base, Private, Unmade, Refs, TypeOK
<1>8. Own'
  BY <1>1, <1>2, <1>3, <1>4 DEF Base, Own, TypeOK
<1>9. Committed'
  BY <1>1, <1>2, <1>3, <1>4 DEF Base, Committed, TypeOK
<1>10. RowOK'
  BY <1>1, <1>2, <1>3, <1>4 DEF Base, RowOK
<1>11. RedisOK'
  BY <1>1, <1>2, <1>3, <1>4 DEF Base, RedisOK
<1>12. Offered'
  BY <1>1, <1>2, <1>3, <1>4 DEF Base, Offered, Ticket, TypeOK
<1>13. CopiesOK'
  BY <1>1, <1>2, <1>3, <1>4 DEF Base, CopiesOK, CopyOK, TypeOK
<1> QED
  BY <1>5, <1>6, <1>7, <1>8, <1>9, <1>10, <1>11, <1>12, <1>13 DEF Base

LEMMA LoadFacts ==
    ASSUME Base, NEW r \in Requests, NEW k \in Kinds, NEW w \in Workers, Load(r, k, w)
    PROVE  /\ req[r].pc = "idle" /\ excused' \in BOOLEAN /\ (excused => excused')
           /\ UNCHANGED <<backend, cache, redis, row, tickets, dropped>>
           /\ \/ /\ Restores(r, w)
                 /\ ~excused' => /\ Others(r) = {}
                                 /\ backend = "memory" => cache[w] = None /\ ~Split(w)
                                 /\ backend = "redis" => ~redis.held
              \/ /\ cache[w] # None /\ Proceeds(r, w, cache[w], obj)
                 /\ ~excused' => backend = "memory" /\ ~Split(w)
              \/ /\ redis.held /\ Proceeds(r, w, r, [obj EXCEPT ![r] = redis.env])
                 /\ backend = "redis" /\ (~excused' => Others(r) = {})
<1>1. TypeOK
  BY DEF Base
<1>2. /\ req[r].pc = "idle" /\ excused' \in BOOLEAN /\ (excused => excused')
      /\ UNCHANGED <<backend, cache, redis, row, tickets, dropped>>
  BY <1>1 DEF Load, Excuse, TypeOK
<1>3. ASSUME Enter(r, "restore", k, w, r), obj' = obj PROVE Restores(r, w)
  <2>1. "restore" \in Pcs
    BY DEF Pcs
  <2> QED
    BY <1>1, <1>3, <2>1, EnterFacts DEF Restores
<1>4. ASSUME cache[w] # None, Proceed(r, k, w, cache[w], obj, TRUE)
      PROVE  Proceeds(r, w, cache[w], obj)
  <2>1. cache[w] \in Requests /\ obj \in [Requests -> Envelope]
    BY <1>1, <1>4 DEF TypeOK, Refs
  <2> QED
    BY <1>1, <1>4, <2>1, ProceedFacts
<1>5. ASSUME Proceed(r, k, w, r, [obj EXCEPT ![r] = redis.env], TRUE)
      PROVE  Proceeds(r, w, r, [obj EXCEPT ![r] = redis.env])
  <2>1. [obj EXCEPT ![r] = redis.env] \in [Requests -> Envelope]
    BY <1>1 DEF TypeOK, Copy
  <2> QED
    BY <1>1, <1>5, <2>1, ProceedFacts
<1>6. CASE backend = "memory" /\ LookInMap(r, k, w)
           /\ Excuse(Split(w) \/ (cache[w] = None /\ Others(r) # {}))
  BY <1>2, <1>3, <1>4, <1>6 DEF LookInMap, Excuse
<1>7. CASE backend = "redis" /\ LookInRedis(r, k, w) /\ Excuse(Others(r) # {})
  BY <1>2, <1>3, <1>5, <1>7 DEF LookInRedis, Excuse
<1>8. CASE backend = "redis" /\ LookInMap(r, k, w) /\ Excuse(TRUE)
  BY <1>2, <1>3, <1>4, <1>8 DEF LookInMap, Excuse
<1> QED
  BY <1>6, <1>7, <1>8 DEF Load

\* Going on with an envelope keeps the invariant, whatever else the step saves.
LEMMA ProceedBase ==
    ASSUME Base, NEW r \in Requests, NEW w \in Workers, NEW o \in Requests,
           NEW objs \in [Requests -> Envelope], Proceeds(r, w, o, objs),
           req[r].pc \in {"idle", "restore", "keep"},
           CopyOK(objs[r]), \A q \in Requests \ {r} : objs[q] = obj[q],
           \A q \in Requests \ {r} : Unmade(q) => o # q,
           \A q \in Requests \ {r} : req[q].pc = "offer" =>
               objs[req[q].env].ticket = obj[req[q].env].ticket,
           UNCHANGED <<backend, row, tickets, dropped>>,
           cache' \in [Workers -> Refs], redis' \in Copy, excused' \in BOOLEAN,
           \A v \in Workers : cache'[v] \in {cache[v], req[r].env},
           cache' = cache \/ req[r].pc = "keep",
           redis' = redis \/ CopyOK(redis'.env),
           backend = "memory" => redis' = redis
    PROVE  Base'
<1>1. /\ Blank.ticket = None /\ Blank.waiting = FALSE
      /\ req[r].pc = "keep" => req[r].env = r
  BY Blanks DEF Base, Own
<1>2. TypeOK'
  BY <1>1 DEF Base, TypeOK, Proceeds
<1>3. Held'
  BY <1>1 DEF Base, Held, Active, TypeOK, Proceeds
<1>4. Private'
  BY <1>1, EscalationAssumption DEF Base, Private, Unmade, Refs, TypeOK, Proceeds
<1>5. Own'
  BY <1>1 DEF Base, Own, TypeOK, Proceeds
<1>6. Committed'
  BY <1>1 DEF Base, Committed, TypeOK, Proceeds
<1>7. RowOK'
  BY <1>1 DEF Base, RowOK, Proceeds
<1>8. RedisOK'
  BY <1>1 DEF Base, RedisOK, Proceeds
<1>9. Offered'
  BY <1>1 DEF Base, Offered, Ticket, TypeOK, Proceeds, Held, Active
<1>10. CopiesOK'
  <2>1. \A q \in Requests : CopyOK(objs[q]) /\ CopyOK(req[q].note)
    BY DEF Base, CopiesOK
  <2>2. \A q \in Requests : CopyOK(obj'[q])
    BY <2>1 DEF CopyOK, Proceeds
  <2>3. \A q \in Requests : CopyOK(req'[q].note)
    BY <1>1, <2>1 DEF CopyOK, Proceeds
  <2>4. CopyOK(redis'.env) /\ CopyOK(row.env)
    BY DEF Base, CopiesOK
  <2> QED
    BY <2>2, <2>3, <2>4 DEF CopiesOK, CopyOK
<1> QED
  BY <1>2, <1>3, <1>4, <1>5, <1>6, <1>7, <1>8, <1>9, <1>10 DEF Base

LEMMA LoadBase ==
    ASSUME Base, NEW r \in Requests, NEW k \in Kinds, NEW w \in Workers, Load(r, k, w)
    PROVE  Base'
<1>1. /\ req[r].pc = "idle" /\ excused' \in BOOLEAN
      /\ UNCHANGED <<backend, cache, redis, row, tickets, dropped>>
  BY LoadFacts
<1>2. CASE Restores(r, w)
  <2>1. Blank.ticket = None /\ Blank.waiting = FALSE
    BY Blanks
  <2>2. TypeOK'
    BY <1>1, <1>2, <2>1 DEF Base, TypeOK, Restores
  <2>3. Held'
    BY <1>1, <1>2, <2>1 DEF Base, Held, Active, TypeOK, Restores
  <2>4. Private'
    BY <1>1, <1>2, <2>1, EscalationAssumption DEF Base, Private, Unmade, Refs, TypeOK, Restores
  <2>5. Own'
    BY <1>1, <1>2, <2>1 DEF Base, Own, TypeOK, Restores
  <2>6. Committed'
    BY <1>1, <1>2, <2>1 DEF Base, Committed, TypeOK, Restores
  <2>7. RowOK'
    BY <1>1, <1>2, <2>1 DEF Base, RowOK, Restores
  <2>8. RedisOK'
    BY <1>1, <1>2, <2>1 DEF Base, RedisOK, Restores
  <2>9. Offered'
    BY <1>1, <1>2, <2>1 DEF Base, Offered, Ticket, TypeOK, Restores
  <2>10. CopiesOK'
    BY <1>1, <1>2, <2>1 DEF Base, CopiesOK, CopyOK, TypeOK, Restores
  <2> QED
    BY <2>2, <2>3, <2>4, <2>5, <2>6, <2>7, <2>8, <2>9, <2>10 DEF Base
<1>3. CASE cache[w] # None /\ Proceeds(r, w, cache[w], obj)
  <2>1. cache[w] \in Requests /\ obj \in [Requests -> Envelope] /\ CopyOK(obj[r])
    BY <1>3 DEF Base, TypeOK, Refs, CopiesOK
  <2>2. \A q \in Requests \ {r} : Unmade(q) => cache[w] # q
    BY DEF Base, Private
  <2> QED
    BY <1>1, <1>3, <2>1, <2>2, ProceedBase DEF Base, TypeOK
<1>4. CASE Proceeds(r, w, r, [obj EXCEPT ![r] = redis.env])
  <2>1. [obj EXCEPT ![r] = redis.env] \in [Requests -> Envelope]
    BY DEF Base, TypeOK, Copy
  <2>2. CopyOK(redis.env)
    BY DEF Base, CopiesOK
  <2>3. CopyOK([obj EXCEPT ![r] = redis.env][r])
    BY <2>2 DEF Base, TypeOK
  <2>4. \A q \in Requests \ {r} : req[q].env # r
    BY <1>1 DEF Base, Private, Unmade
  <2>5. \A q \in Requests \ {r} : req[q].pc = "offer" =>
            [obj EXCEPT ![r] = redis.env][req[q].env].ticket = obj[req[q].env].ticket
    BY <2>4 DEF Base, Held, Active, TypeOK
  <2> QED
    BY <1>1, <1>4, <2>1, <2>3, <2>5, ProceedBase DEF Base, TypeOK
<1> QED
  BY <1>2, <1>3, <1>4, LoadFacts

LEMMA RestoreFacts ==
    ASSUME Base, NEW r \in Requests, Restore(r)
    PROVE  /\ req[r].pc = "restore" /\ req[r].env = r /\ req[r].on \in Workers
           /\ UNCHANGED <<backend, cache, redis, row, tickets, dropped, excused>>
           /\ \/ /\ row.held /\ obj' = [obj EXCEPT ![r] = row.env]
                 /\ obj' \in [Requests -> Envelope]
                 /\ req' \in [Requests -> Req]
                 /\ \A q \in Requests \ {r} : req'[q] = req[q]
                 /\ req'[r].pc = "keep" /\ req'[r].env = r /\ req'[r].on = req[r].on
                 /\ req'[r].note = req[r].note
              \/ ~row.held /\ Proceeds(r, req[r].on, r, obj)
<1>1. /\ req[r].pc = "restore" /\ req[r].env = r /\ req[r].on \in Workers
      /\ UNCHANGED <<backend, cache, redis, row, tickets, dropped, excused>>
  BY DEF Restore, Base, Own, Held, Active
<1>2. CASE row.held
  <2>1. obj' = [obj EXCEPT ![r] = row.env] /\ obj' \in [Requests -> Envelope]
    BY <1>2 DEF Restore, Base, TypeOK, Copy
  <2>2. "keep" \in Pcs /\ Goto(r, "keep")
    BY <1>2 DEF Restore, Pcs
  <2> QED
    BY <1>1, <1>2, <2>1, <2>2, GotoFacts DEF Base
<1>3. CASE ~row.held
  <2>1. Proceed(r, req[r].kind, req[r].on, r, obj, FALSE)
    BY <1>3 DEF Restore
  <2>2. TypeOK /\ obj \in [Requests -> Envelope] /\ req[r].kind \in Kinds
    BY DEF Base, TypeOK, Req
  <2> QED
    BY <1>1, <1>3, <2>1, <2>2, ProceedFacts
<1> QED
  BY <1>2, <1>3

LEMMA RestoreBase ==
    ASSUME Base, NEW r \in Requests, Restore(r)
    PROVE  Base'
<1>1. /\ req[r].pc = "restore" /\ req[r].env = r /\ req[r].on \in Workers
      /\ UNCHANGED <<backend, cache, redis, row, tickets, dropped, excused>>
  BY RestoreFacts
<1>2. CASE ~row.held /\ Proceeds(r, req[r].on, r, obj)
  <2>1. CopyOK(obj[r]) /\ obj \in [Requests -> Envelope]
    BY DEF Base, CopiesOK, TypeOK
  <2> QED
    BY <1>1, <1>2, <2>1, ProceedBase DEF Base, TypeOK
<1>3. CASE /\ row.held /\ obj' = [obj EXCEPT ![r] = row.env]
           /\ obj' \in [Requests -> Envelope]
           /\ req' \in [Requests -> Req]
           /\ \A q \in Requests \ {r} : req'[q] = req[q]
           /\ req'[r].pc = "keep" /\ req'[r].env = r /\ req'[r].on = req[r].on
           /\ req'[r].note = req[r].note
  <2>0. \A q \in Requests \ {r} : req[q].env # r
    BY <1>1 DEF Base, Private, Unmade
  <2>1. TypeOK'
    BY <1>1, <1>3 DEF Base, TypeOK
  <2>2. Held'
    BY <1>1, <1>3 DEF Base, Held, Active, TypeOK
  <2>3. Private'
    BY <1>1, <1>3, EscalationAssumption DEF Base, Private, Unmade, Refs, TypeOK
  <2>4. Own'
    BY <1>1, <1>3 DEF Base, Own, TypeOK
  <2>5. Committed'
    BY <1>1, <1>3 DEF Base, Committed, TypeOK
  <2>6. RowOK'
    BY <1>1, <1>3 DEF Base, RowOK
  <2>7. RedisOK'
    BY <1>1, <1>3 DEF Base, RedisOK
  <2>8. Offered'
    BY <1>1, <1>3, <2>0 DEF Base, Offered, Ticket, TypeOK, Held, Active
  <2>9. CopiesOK'
    BY <1>1, <1>3 DEF Base, CopiesOK, CopyOK, TypeOK
  <2> QED
    BY <2>1, <2>2, <2>3, <2>4, <2>5, <2>6, <2>7, <2>8, <2>9 DEF Base
<1> QED
  BY <1>2, <1>3, RestoreFacts

LEMMA KeepFacts ==
    ASSUME Base, NEW r \in Requests, Keep(r)
    PROVE  /\ req[r].pc = "keep" /\ req[r].env = r /\ req[r].on \in Workers
           /\ UNCHANGED <<backend, row, tickets, dropped>>
           /\ Save(r) /\ Proceeds(r, req[r].on, r, obj)
<1>1. /\ req[r].pc = "keep" /\ req[r].env = r /\ req[r].on \in Workers
      /\ UNCHANGED <<backend, row, tickets, dropped>>
      /\ Save(r) /\ Proceed(r, req[r].kind, req[r].on, r, obj, TRUE)
  BY DEF Keep, Base, Own, Held, Active
<1>2. TypeOK /\ obj \in [Requests -> Envelope] /\ req[r].kind \in Kinds
  BY DEF Base, TypeOK, Req
<1> QED
  BY <1>1, <1>2, ProceedFacts

LEMMA KeepBase ==
    ASSUME Base, NEW r \in Requests, Keep(r)
    PROVE  Base'
<1>1. /\ req[r].pc = "keep" /\ req[r].env = r /\ req[r].on \in Workers
      /\ UNCHANGED <<backend, row, tickets, dropped>>
      /\ Save(r) /\ Proceeds(r, req[r].on, r, obj)
  BY KeepFacts
<1>2. /\ cache' \in [Workers -> Refs] /\ redis' \in Copy /\ excused' \in BOOLEAN
      /\ \A w \in Workers : cache'[w] \in {cache[w], req[r].env}
      /\ redis' = redis \/ redis'.env = obj[req[r].env]
      /\ backend = "memory" => redis' = redis
  BY <1>1, SaveFacts DEF Base
<1>3. CopyOK(obj[r]) /\ obj \in [Requests -> Envelope]
  BY DEF Base, CopiesOK, TypeOK
<1>4. redis' = redis \/ CopyOK(redis'.env)
  BY <1>1, <1>2, <1>3 DEF CopyOK
<1>5. \A q \in Requests \ {r} : Unmade(q) => r # q
  OBVIOUS
<1> QED
  BY <1>1, <1>2, <1>3, <1>4, <1>5, ProceedBase

-----------------------------------------------------------------------------
(* What holds while nothing has happened that may hide a ticket             *)

LEMMA Alone ==
    ASSUME Base, Together, NEW r \in Requests, req[r].pc = "restore"
    PROVE  /\ \A q \in Requests \ {r} : ~Active(q)
           /\ \A w \in Workers : cache[w] = None
           /\ ~Pending /\ ~Recording
<1>1. Active(r) /\ Unmade(r) /\ req[r].env = r
  BY DEF Active, Unmade, Base, Own
<1>2. \A q \in Requests \ {r} : req[q].env # r
  BY <1>1 DEF Base, Private
<1>3. \A q \in Requests \ {r} : ~Active(q)
  BY <1>1, <1>2 DEF Together
<1>4. \A w \in Workers : cache[w] = None
  BY <1>1 DEF Base, Private, Together
<1>5. ~Pending /\ ~Recording
  BY <1>3 DEF Pending, Recording, Active
<1> QED
  BY <1>3, <1>4, <1>5

\* Nothing is open when a copy that knows every open ticket names none.
LEMMA NothingOpen ==
    ASSUME Base, Knows(None)
    PROVE  Open = {}
BY EscalationAssumption DEF Knows, Open, Base, TypeOK

LEMMA FailClean ==
    ASSUME Base, Clean, NEW r \in Requests, Fail(r), ~excused'
    PROVE  Clean'
<1>1. /\ req' \in [Requests -> Req]
      /\ \A q \in Requests \ {r} : req'[q] = req[q]
      /\ req'[r].pc = "done"
  BY FinishFacts DEF Base, Fail
<1>2. /\ UNCHANGED <<backend, obj, cache, redis, row, tickets, dropped>>
      /\ req[r].pc \in {"restore", "working", "filing"} /\ Open' = Open
  BY DEF Fail, Open
<1>3. (Recording => Recording') /\ (Pending => Pending')
  BY <1>1, <1>2 DEF Recording, Pending
<1>4. Together'
  BY <1>1, <1>2, <1>3 DEF Clean, Together, Active
<1>5. Copied'
  BY <1>1, <1>2, <1>3 DEF Clean, Copied, Active
<1>6. Missing'
  BY <1>1, <1>2, <1>3 DEF Clean, Missing
<1>7. RecorderKnows'
  BY <1>1, <1>2, <1>3 DEF Clean, RecorderKnows, Knows
<1>8. ObjectKnows'
  BY <1>1, <1>2, <1>3 DEF Clean, ObjectKnows, Knows, Ticket, Active
<1>9. MapKnows'
  BY <1>1, <1>2, <1>3 DEF Clean, MapKnows, Knows
<1>10. RedisKnows'
  BY <1>1, <1>2, <1>3 DEF Clean, RedisKnows, Knows
<1>11. RowKnows'
  BY <1>1, <1>2, <1>3 DEF Clean, RowKnows, Knows
<1> QED
  BY <1>4, <1>5, <1>6, <1>7, <1>8, <1>9, <1>10, <1>11 DEF Clean

LEMMA AnswerClean ==
    ASSUME Base, Clean, NEW r \in Requests, Answer(r), ~excused'
    PROVE  Clean'
<1> DEFINE e == req[r].env
<1>1. e \in Requests /\ Ticket(r) = obj[e].ticket /\ req[r].pc = "working" /\ Active(r)
  BY DEF Base, Held, Active, Answer, Ticket
<1>2. PICK newTopic, confirmed \in BOOLEAN :
        LET t == IF newTopic THEN None ELSE Ticket(r)
        IN  /\ obj' = [obj EXCEPT ![e].ticket = t]
            /\ dropped' = IF newTopic THEN dropped \cup ({Ticket(r)} \ {None}) ELSE dropped
            /\ Goto(r, IF confirmed /\ t = None THEN "filing" ELSE "save")
  BY DEF Answer
<1>3. /\ req' \in [Requests -> Req]
      /\ \A q \in Requests \ {r} : req'[q] = req[q]
      /\ req'[r].pc \in {"filing", "save"} /\ req'[r].env = e /\ req'[r].on = req[r].on
  <2>1. PICK pc \in {"filing", "save"} : Goto(r, pc)
    BY <1>2
  <2>2. pc \in Pcs
    BY DEF Pcs
  <2> QED
    BY <2>1, <2>2, GotoFacts DEF Base
<1>4. UNCHANGED <<backend, cache, redis, row, tickets>>
  BY DEF Answer
<1>5. (Recording => Recording') /\ (Pending => Pending')
  BY <1>1, <1>3 DEF Recording, Pending
<1>6. Open' \subseteq Open
  BY <1>2, <1>4 DEF Open
<1>7. \/ \A q \in Requests : obj'[q].ticket = obj[q].ticket
      \/ ~Recording' => Open' = {}
  <2>1. CASE newTopic
    <3>1. ~Recording => Knows(Ticket(r))
      BY <1>1 DEF Clean, ObjectKnows
    <3>2. Open' \cap {Ticket(r)} = {}
      BY <1>2, <1>4, <2>1, EscalationAssumption DEF Open, Base, TypeOK
    <3> QED
      BY <1>5, <1>6, <3>1, <3>2 DEF Knows
  <2>2. CASE ~newTopic
    BY <1>1, <1>2, <2>2 DEF Base, TypeOK, Envelope
  <2> QED
    BY <2>1, <2>2
<1>8. Pending' \/ ~Recording'
  BY DEF Pending, Recording
<1>9. Together'
  BY <1>1, <1>3, <1>4, <1>5, <1>6, <1>7, <1>8 DEF Clean, Together, Active
<1>10. Copied'
  BY <1>1, <1>3, <1>4, <1>5, <1>6, <1>7, <1>8 DEF Clean, Copied, Active
<1>11. Missing'
  BY <1>1, <1>3, <1>4, <1>5, <1>6, <1>7, <1>8 DEF Clean, Missing
<1>12. RecorderKnows'
  BY <1>1, <1>3, <1>4, <1>5, <1>6, <1>7, <1>8 DEF Clean, RecorderKnows, Knows
<1>13. ObjectKnows'
  <2>1. SUFFICES ASSUME ~Recording', NEW q \in Requests, Active(q)', req'[q].pc # "restore",
                        NEW s \in Open'
                 PROVE  s = Ticket(q)'
    BY DEF ObjectKnows, Knows
  <2>2. Active(q) /\ req[q].pc # "restore" /\ req'[q].env = req[q].env
    BY <1>1, <1>3, <2>1 DEF Active
  <2>3. s = obj[req[q].env].ticket
    BY <1>5, <1>6, <2>1, <2>2 DEF Clean, ObjectKnows, Knows, Ticket
  <2>4. req[q].env \in Requests
    BY <2>2 DEF Base, Held
  <2> QED
    BY <1>7, <2>1, <2>2, <2>3, <2>4 DEF Ticket
<1>14. MapKnows'
  <2>1. \A w \in Workers : cache[w] # None => cache[w] \in Requests
    BY DEF Base, TypeOK, Refs
  <2> QED
    BY <1>4, <1>5, <1>6, <1>7, <2>1 DEF Clean, MapKnows, Knows
<1>15. RedisKnows'
  BY <1>1, <1>3, <1>4, <1>5, <1>6, <1>7, <1>8 DEF Clean, RedisKnows, Knows
<1>16. RowKnows'
  BY <1>1, <1>3, <1>4, <1>5, <1>6, <1>7, <1>8 DEF Clean, RowKnows, Knows
<1> QED
  BY <1>9, <1>10, <1>11, <1>12, <1>13, <1>14, <1>15, <1>16 DEF Clean

LEMMA FileClean ==
    ASSUME Base, Clean, NEW r \in Requests, File(r), ~excused'
    PROVE  Clean'
<1>1. Excuse(FiledMeanwhile(r)) /\ Goto(r, "record") /\ "record" \in Pcs
  BY DEF File, Excuse, Pcs
<1>2. /\ req' \in [Requests -> Req]
      /\ \A q \in Requests \ {r} : req'[q] = req[q]
      /\ req'[r].pc = "record" /\ req'[r].env = req[r].env /\ req'[r].on = req[r].on
  BY <1>1, GotoFacts DEF Base
<1>3. /\ UNCHANGED <<backend, obj, cache, redis, row, dropped>>
      /\ tickets' = tickets \cup {r} /\ req[r].pc = "filing" /\ Active(r)
  BY DEF File, Active
<1>4. Ticket(r) = None /\ \A q \in Requests : req[q].pc # "record"
  BY <1>1, <1>3 DEF Excuse, FiledMeanwhile, Others, Active
<1>5. Knows(None)
  BY <1>3, <1>4 DEF Clean, ObjectKnows, Recording
<1>6. Open' \subseteq {r}
  BY <1>3, <1>5, NothingOpen DEF Open
<1>7. Recording' /\ Pending'
  BY <1>2 DEF Recording, Pending
<1>8. Together'
  BY <1>2, <1>3, <1>4, <1>6, <1>7 DEF Clean, Together, Active
<1>9. Copied'
  BY <1>2, <1>3, <1>4, <1>6, <1>7 DEF Clean, Copied, Active
<1>10. Missing'
  BY <1>2, <1>3, <1>4, <1>6, <1>7 DEF Clean, Missing
<1>11. RecorderKnows'
  BY <1>2, <1>3, <1>4, <1>6, <1>7 DEF Clean, RecorderKnows, Knows
<1>12. ObjectKnows'
  BY <1>2, <1>3, <1>4, <1>6, <1>7 DEF Clean, ObjectKnows, Knows, Ticket, Active
<1>13. MapKnows'
  BY <1>2, <1>3, <1>4, <1>6, <1>7 DEF Clean, MapKnows, Knows
<1>14. RedisKnows'
  BY <1>2, <1>3, <1>4, <1>6, <1>7 DEF Clean, RedisKnows, Knows
<1>15. RowKnows'
  BY <1>2, <1>3, <1>4, <1>6, <1>7 DEF Clean, RowKnows, Knows
<1> QED
  BY <1>8, <1>9, <1>10, <1>11, <1>12, <1>13, <1>14, <1>15 DEF Clean

LEMMA RecordClean ==
    ASSUME Base, Clean, NEW r \in Requests, Record(r), ~excused'
    PROVE  Clean'
<1> DEFINE e == req[r].env
<1>1. e \in Requests /\ req[r].pc = "record" /\ Active(r) /\ r \in Refs
  BY DEF Base, Held, Active, Record, Refs
<1>2. PICK pc \in {"offer", "save"} : Goto(r, pc)
  BY DEF Record
<1>3. /\ req' \in [Requests -> Req]
      /\ \A q \in Requests \ {r} : req'[q] = req[q]
      /\ req'[r].pc \in {"offer", "save"} /\ req'[r].env = e /\ req'[r].on = req[r].on
  BY <1>2, GotoFacts DEF Base, Pcs
<1>4. UNCHANGED <<backend, cache, redis, row, tickets, dropped>> /\ Open' = Open
  BY DEF Record, Open
<1>5. obj'[e].ticket = r
  BY <1>1 DEF Record, Base, TypeOK, Envelope
<1>6. \A s \in Open : s = r
  BY <1>1 DEF Clean, RecorderKnows, Knows
<1>7. /\ \A q \in Requests : Active(q) => req[q].env = e
      /\ \A w \in Workers : cache[w] # None => cache[w] = e
  BY <1>1 DEF Clean, Together
<1>8. Pending'
  BY <1>3 DEF Pending
<1>9. Together'
  BY <1>1, <1>3, <1>4, <1>5, <1>6, <1>7, <1>8 DEF Clean, Together, Active
<1>10. Copied'
  BY <1>1, <1>3, <1>4, <1>5, <1>6, <1>7, <1>8 DEF Clean, Copied, Active
<1>11. Missing'
  BY <1>1, <1>3, <1>4, <1>5, <1>6, <1>7, <1>8 DEF Clean, Missing
<1>12. RecorderKnows'
  BY <1>1, <1>3, <1>4, <1>5, <1>6, <1>7, <1>8 DEF Clean, RecorderKnows, Knows
<1>13. ObjectKnows'
  BY <1>1, <1>3, <1>4, <1>5, <1>6, <1>7, <1>8 DEF Clean, ObjectKnows, Knows, Ticket, Active
<1>14. MapKnows'
  BY <1>1, <1>3, <1>4, <1>5, <1>6, <1>7, <1>8 DEF Clean, MapKnows, Knows
<1>15. RedisKnows'
  BY <1>1, <1>3, <1>4, <1>5, <1>6, <1>7, <1>8 DEF Clean, RedisKnows, Knows
<1>16. RowKnows'
  BY <1>1, <1>3, <1>4, <1>5, <1>6, <1>7, <1>8 DEF Clean, RowKnows, Knows
<1> QED
  BY <1>9, <1>10, <1>11, <1>12, <1>13, <1>14, <1>15, <1>16 DEF Clean

LEMMA OfferClean ==
    ASSUME Base, Clean, NEW r \in Requests, Offer(r), ~excused'
    PROVE  Clean'
<1>1. req[r].pc = "offer" /\ Active(r) /\ req[r].env \in Requests
  BY DEF Base, Held, Active, Offer
<1>2. /\ req' \in [Requests -> Req]
      /\ \A q \in Requests \ {r} : req'[q] = req[q]
      /\ req'[r].pc = "save" /\ req'[r].env = req[r].env /\ req'[r].on = req[r].on
  BY GotoFacts DEF Base, Offer, Pcs
<1>3. UNCHANGED <<backend, cache, redis, row, tickets, dropped>> /\ Open' = Open
  BY DEF Offer, Open
<1>4. \A q \in Requests : obj'[q].ticket = obj[q].ticket
  BY <1>1 DEF Offer, Base, TypeOK, Envelope
<1>5. (Recording => Recording') /\ Pending'
  BY <1>1, <1>2 DEF Recording, Pending
<1>6. /\ \A q \in Requests : Active(q) => req[q].env \in Requests
      /\ \A w \in Workers : cache[w] # None => cache[w] \in Requests
  BY DEF Base, Held, TypeOK, Refs
<1>7. Together'
  BY <1>1, <1>2, <1>3, <1>4, <1>5, <1>6 DEF Clean, Together, Active
<1>8. Copied'
  BY <1>1, <1>2, <1>3, <1>4, <1>5, <1>6 DEF Clean, Copied, Active
<1>9. Missing'
  BY <1>1, <1>2, <1>3, <1>4, <1>5, <1>6 DEF Clean, Missing
<1>10. RecorderKnows'
  BY <1>1, <1>2, <1>3, <1>4, <1>5, <1>6 DEF Clean, RecorderKnows, Knows
<1>11. ObjectKnows'
  BY <1>1, <1>2, <1>3, <1>4, <1>5, <1>6 DEF Clean, ObjectKnows, Knows, Ticket, Active
<1>12. MapKnows'
  BY <1>1, <1>2, <1>3, <1>4, <1>5, <1>6 DEF Clean, MapKnows, Knows
<1>13. RedisKnows'
  BY <1>1, <1>2, <1>3, <1>4, <1>5, <1>6 DEF Clean, RedisKnows, Knows
<1>14. RowKnows'
  BY <1>1, <1>2, <1>3, <1>4, <1>5, <1>6 DEF Clean, RowKnows, Knows
<1> QED
  BY <1>7, <1>8, <1>9, <1>10, <1>11, <1>12, <1>13, <1>14 DEF Clean

\* Where a save goes that is no excuse.
SavedOK(r) ==
    \/ /\ backend = "memory" /\ redis' = redis /\ ~redis.held
       /\ cache'[req[r].on] = req[r].env
       /\ \A w \in Workers \ {req[r].on} : cache'[w] = cache[w]
    \/ /\ backend = "redis" /\ cache' = cache
       /\ redis'.held /\ redis'.env = obj[req[r].env]

LEMMA SavedFacts ==
    ASSUME Base, NEW r \in Requests, Save(r), req[r].env \in Requests, req[r].on \in Workers,
           ~excused'
    PROVE  SavedOK(r)
<1>1. CASE backend = "memory"
  <2>1. redis' = redis /\ cache' = [cache EXCEPT ![req[r].on] = req[r].env]
    BY <1>1, SaveFacts DEF Base
  <2>2. ~redis.held
    BY <1>1 DEF Base, RedisOK, NoCopy
  <2>3. cache \in [Workers -> Refs]
    BY DEF Base, TypeOK
  <2> QED
    BY <1>1, <2>1, <2>2, <2>3 DEF SavedOK
<1>2. CASE backend = "redis"
  BY <1>2, SaveFacts DEF Base, SavedOK
<1> QED
  BY <1>1, <1>2 DEF Base, TypeOK

LEMMA SaveEnvelopeClean ==
    ASSUME Base, Clean, NEW r \in Requests, SaveEnvelope(r), ~excused'
    PROVE  Clean'
<1>1. /\ req[r].env \in Requests /\ req[r].on \in Workers /\ req[r].pc = "save"
      /\ Active(r) /\ Save(r) /\ UNCHANGED <<backend, obj, row, tickets, dropped>>
  BY DEF Base, Held, Active, SaveEnvelope
<1>2. /\ req' \in [Requests -> Req]
      /\ \A q \in Requests \ {r} : req'[q] = req[q]
      /\ req'[r].pc \in {"format", "done"}
      /\ req'[r].pc = "format" => req'[r].env = req[r].env /\ req'[r].on = req[r].on
  BY GotoFacts, FinishFacts DEF Base, SaveEnvelope, Pcs
<1>3. SavedOK(r) /\ Open' = Open
  BY <1>1, SavedFacts DEF Open
<1>4. ~Recording' => ~Recording /\ Knows(obj[req[r].env].ticket)
  <2>1. ~Recording' => ~Recording
    BY <1>1, <1>2 DEF Recording
  <2> QED
    BY <1>1, <2>1 DEF Clean, ObjectKnows, Ticket
<1>5. ~Pending' => ~Recording'
  BY DEF Pending, Recording
<1>6. \A q \in Requests : req[q].pc # "restore"
  BY <1>1, Alone DEF Clean
<1>7. Together'
  BY <1>1, <1>2, <1>3, <1>4, <1>5, <1>6, EscalationAssumption DEF Clean, Together, Active, SavedOK
<1>8. Copied'
  BY <1>1, <1>2, <1>3, <1>4, <1>5, <1>6, EscalationAssumption DEF Clean, Copied, Active, SavedOK
<1>9. Missing'
  BY <1>1, <1>2, <1>3, <1>4, <1>5, <1>6 DEF Clean, Missing
<1>10. RecorderKnows'
  BY <1>1, <1>2, <1>3, <1>4, <1>5, <1>6 DEF Clean, RecorderKnows, Knows
<1>11. ObjectKnows'
  BY <1>1, <1>2, <1>3, <1>4, <1>5, <1>6 DEF Clean, ObjectKnows, Knows, Ticket, Active
<1>12. MapKnows'
  BY <1>1, <1>2, <1>3, <1>4, <1>5, <1>6, EscalationAssumption DEF Clean, MapKnows, Knows, SavedOK
<1>13. RedisKnows'
  BY <1>1, <1>2, <1>3, <1>4, <1>5, <1>6, EscalationAssumption DEF Clean, RedisKnows, Knows, SavedOK
<1>14. RowKnows'
  BY <1>1, <1>2, <1>3, <1>4, <1>5, <1>6, EscalationAssumption DEF Clean, RowKnows, Knows, SavedOK
<1> QED
  BY <1>7, <1>8, <1>9, <1>10, <1>11, <1>12, <1>13, <1>14 DEF Clean

LEMMA FormatClean ==
    ASSUME Base, Clean, NEW r \in Requests, Format(r), ~excused'
    PROVE  Clean'
<1>1. req[r].pc = "format" /\ Active(r)
  BY DEF Active, Format
<1>2. /\ \A q \in Requests \ {r} : req'[q] = req[q]
      /\ req'[r].pc = "sync" /\ req'[r].env = req[r].env /\ req'[r].on = req[r].on
  BY DEF Format, Base, TypeOK, Req
<1>3. UNCHANGED <<backend, obj, cache, redis, row, tickets, dropped>> /\ Open' = Open
  BY DEF Format, Open
<1>4. (Recording => Recording') /\ (Pending => Pending')
  BY <1>1, <1>2 DEF Recording, Pending
<1>5. Together'
  BY <1>1, <1>2, <1>3, <1>4 DEF Clean, Together, Active
<1>6. Copied'
  BY <1>1, <1>2, <1>3, <1>4 DEF Clean, Copied, Active
<1>7. Missing'
  BY <1>1, <1>2, <1>3, <1>4 DEF Clean, Missing
<1>8. RecorderKnows'
  BY <1>1, <1>2, <1>3, <1>4 DEF Clean, RecorderKnows, Knows
<1>9. ObjectKnows'
  BY <1>1, <1>2, <1>3, <1>4 DEF Clean, ObjectKnows, Knows, Ticket, Active
<1>10. MapKnows'
  BY <1>1, <1>2, <1>3, <1>4 DEF Clean, MapKnows, Knows
<1>11. RedisKnows'
  BY <1>1, <1>2, <1>3, <1>4 DEF Clean, RedisKnows, Knows
<1>12. RowKnows'
  BY <1>1, <1>2, <1>3, <1>4 DEF Clean, RowKnows, Knows
<1> QED
  BY <1>5, <1>6, <1>7, <1>8, <1>9, <1>10, <1>11, <1>12 DEF Clean

LEMMA SyncTurnClean ==
    ASSUME Base, Clean, NEW r \in Requests, SyncTurn(r), ~excused'
    PROVE  Clean'
<1>1. /\ req[r].pc = "sync" /\ Active(r)
      /\ UNCHANGED <<backend, obj, cache, redis, tickets, dropped>> /\ Open' = Open
  BY DEF Active, SyncTurn, Open
<1>2. /\ \A q \in Requests \ {r} : req'[q] = req[q]
      /\ req'[r].pc = "done"
  BY FinishFacts DEF Base, SyncTurn
<1>3. row' = row \/ row'.env.ticket = Ticket(r)
  <2>1. CASE /\ row' = [held |-> TRUE, env |-> req[r].note]
             /\ Excuse(req[r].note.ticket # Ticket(r))
    <3>1. row'.env = req[r].note
      BY <2>1
    <3> QED
      BY <2>1, <3>1 DEF Excuse
  <2> QED
    BY <2>1 DEF SyncTurn
<1>4. (Recording => Recording') /\ (Pending => Pending')
  BY <1>1, <1>2 DEF Recording, Pending
<1>5. ~Pending' => Knows(Ticket(r))
  BY <1>1, <1>4 DEF Clean, ObjectKnows, Pending, Recording
<1>6. Together'
  BY <1>1, <1>2, <1>3, <1>4, <1>5 DEF Clean, Together, Active
<1>7. Copied'
  BY <1>1, <1>2, <1>3, <1>4, <1>5 DEF Clean, Copied, Active
<1>8. Missing'
  BY <1>1, <1>2, <1>3, <1>4, <1>5 DEF Clean, Missing
<1>9. RecorderKnows'
  BY <1>1, <1>2, <1>3, <1>4, <1>5 DEF Clean, RecorderKnows, Knows
<1>10. ObjectKnows'
  BY <1>1, <1>2, <1>3, <1>4, <1>5 DEF Clean, ObjectKnows, Knows, Ticket, Active
<1>11. MapKnows'
  BY <1>1, <1>2, <1>3, <1>4, <1>5 DEF Clean, MapKnows, Knows
<1>12. RedisKnows'
  BY <1>1, <1>2, <1>3, <1>4, <1>5 DEF Clean, RedisKnows, Knows
<1>13. RowKnows'
  BY <1>1, <1>2, <1>3, <1>4, <1>5 DEF Clean, RowKnows, Knows
<1> QED
  BY <1>6, <1>7, <1>8, <1>9, <1>10, <1>11, <1>12, <1>13 DEF Clean

LEMMA EvictClean ==
    ASSUME Base, Clean, NEW w \in Workers, Evict(w), ~excused'
    PROVE  Clean'
<1>1. /\ cache[w] # None /\ ~Hidden(obj[cache[w]])
      /\ UNCHANGED <<backend, obj, redis, row, req, tickets, dropped>> /\ Open' = Open
  BY DEF Evict, Excuse, Open
<1>2. \A v \in Workers : cache'[v] \in {cache[v], None}
  BY DEF Evict, Base, TypeOK
<1>3. Recording' = Recording /\ Pending' = Pending
  BY <1>1 DEF Recording, Pending
<1>4. ~Recording => \A s \in Open : s = row.env.ticket
  <2>1. ~Recording => Knows(obj[cache[w]].ticket)
    BY <1>1 DEF Clean, MapKnows
  <2> QED
    BY <1>1, <2>1, NothingOpen DEF Hidden, Knows
<1>5. ~Pending => ~Recording
  BY DEF Pending, Recording
<1>6. Together'
  BY <1>1, <1>2, <1>3, <1>4, <1>5 DEF Clean, Together, Active
<1>7. Copied'
  BY <1>1, <1>2, <1>3, <1>4, <1>5 DEF Clean, Copied, Active
<1>8. Missing'
  BY <1>1, <1>2, <1>3, <1>4, <1>5 DEF Clean, Missing
<1>9. RecorderKnows'
  BY <1>1, <1>2, <1>3, <1>4, <1>5 DEF Clean, RecorderKnows, Knows
<1>10. ObjectKnows'
  BY <1>1, <1>2, <1>3, <1>4, <1>5 DEF Clean, ObjectKnows, Knows, Ticket, Active
<1>11. MapKnows'
  BY <1>1, <1>2, <1>3, <1>4, <1>5 DEF Clean, MapKnows, Knows
<1>12. RedisKnows'
  BY <1>1, <1>2, <1>3, <1>4, <1>5 DEF Clean, RedisKnows, Knows
<1>13. RowKnows'
  BY <1>1, <1>2, <1>3, <1>4, <1>5 DEF Clean, RowKnows, Knows
<1> QED
  BY <1>6, <1>7, <1>8, <1>9, <1>10, <1>11, <1>12, <1>13 DEF Clean

LEMMA ExpireClean ==
    ASSUME Base, Clean, Expire, ~excused'
    PROVE  Clean'
<1>1. /\ redis.held /\ ~Hidden(redis.env) /\ ~redis'.held
      /\ UNCHANGED <<backend, obj, cache, row, req, tickets, dropped>> /\ Open' = Open
  BY DEF Expire, Excuse, Open, NoCopy
<1>2. Recording' = Recording /\ Pending' = Pending
  BY <1>1 DEF Recording, Pending
<1>3. ~Pending => \A s \in Open : s = row.env.ticket
  <2>1. ~Pending => Knows(redis.env.ticket)
    BY <1>1 DEF Clean, RedisKnows
  <2> QED
    BY <1>1, <2>1, NothingOpen DEF Hidden, Knows
<1>4. Together'
  BY <1>1, <1>2, <1>3 DEF Clean, Together, Active
<1>5. Copied'
  BY <1>1, <1>2, <1>3 DEF Clean, Copied, Active
<1>6. Missing'
  BY <1>1, <1>2, <1>3 DEF Clean, Missing
<1>7. RecorderKnows'
  BY <1>1, <1>2, <1>3 DEF Clean, RecorderKnows, Knows
<1>8. ObjectKnows'
  BY <1>1, <1>2, <1>3 DEF Clean, ObjectKnows, Knows, Ticket, Active
<1>9. MapKnows'
  BY <1>1, <1>2, <1>3 DEF Clean, MapKnows, Knows
<1>10. RedisKnows'
  BY <1>1, <1>2, <1>3 DEF Clean, RedisKnows, Knows
<1>11. RowKnows'
  BY <1>1, <1>2, <1>3 DEF Clean, RowKnows, Knows
<1> QED
  BY <1>4, <1>5, <1>6, <1>7, <1>8, <1>9, <1>10, <1>11 DEF Clean

LEMMA CrashClean ==
    ASSUME Base, Clean, NEW w \in Workers, Crash(w), ~excused'
    PROVE  Clean'
<1>1. Dying(w) = {} /\ cache[w] # None /\ ~excused
  BY DEF Crash, Excuse, Base, TypeOK
<1>2. req' = req
  BY <1>1 DEF Crash, Base, TypeOK
<1>3. Evict(w)
  BY <1>1, <1>2 DEF Crash, Evict, Excuse
<1> QED
  BY <1>3, EvictClean

LEMMA LoadClean ==
    ASSUME Base, Clean, NEW r \in Requests, NEW k \in Kinds, NEW w \in Workers,
           Load(r, k, w), ~excused'
    PROVE  Clean'
<1>1. /\ req[r].pc = "idle" /\ ~Active(r)
      /\ UNCHANGED <<backend, cache, redis, row, tickets, dropped>> /\ Open' = Open
  BY LoadFacts DEF Active, Open
<1>2. ~Recording' => ~Recording
  BY <1>1, LoadFacts DEF Recording, Restores, Proceeds
<1>3. ~Pending' => ~Pending
  BY <1>1, LoadFacts DEF Pending, Restores, Proceeds
<1>4. CASE /\ Restores(r, w) /\ Others(r) = {}
           /\ backend = "memory" => cache[w] = None /\ ~Split(w)
           /\ backend = "redis" => ~redis.held
  <2>1. \A v \in Workers : cache[v] = None
    BY <1>4 DEF Split, Clean, Copied, Base, TypeOK
  <2>2. ~redis.held
    BY <1>4 DEF Base, TypeOK, RedisOK, NoCopy
  <2>3. \A q \in Requests \ {r} : ~Active(q) /\ req'[q] = req[q]
    BY <1>4 DEF Others, Restores
  <2>4. req'[r].pc = "restore" /\ req'[r].env = r /\ req'[r].on = w
    BY <1>4 DEF Restores
  <2>5. Together'
    BY <1>1, <1>2, <1>3, <2>1, <2>2, <2>3, <2>4 DEF Clean, Together, Active
  <2>6. Copied'
    BY <1>1, <1>2, <1>3, <2>1, <2>2, <2>3, <2>4 DEF Clean, Copied, Active
  <2>7. Missing'
    BY <1>1, <1>2, <1>3, <2>1, <2>2, <2>3, <2>4 DEF Clean, Missing
  <2>8. RecorderKnows'
    BY <1>1, <1>2, <1>3, <2>1, <2>2, <2>3, <2>4 DEF Clean, RecorderKnows, Knows
  <2>9. ObjectKnows'
    BY <1>1, <1>2, <1>3, <2>1, <2>2, <2>3, <2>4 DEF Clean, ObjectKnows, Knows, Ticket, Active
  <2>10. MapKnows'
    BY <1>1, <1>2, <1>3, <2>1, <2>2, <2>3, <2>4 DEF Clean, MapKnows, Knows
  <2>11. RedisKnows'
    BY <1>1, <1>2, <1>3, <2>1, <2>2, <2>3, <2>4 DEF Clean, RedisKnows, Knows
  <2>12. RowKnows'
    BY <1>1, <1>2, <1>3, <2>1, <2>2, <2>3, <2>4 DEF Clean, RowKnows, Knows
  <2> QED
    BY <2>5, <2>6, <2>7, <2>8, <2>9, <2>10, <2>11, <2>12 DEF Clean
<1>5. CASE cache[w] # None /\ Proceeds(r, w, cache[w], obj) /\ backend = "memory" /\ ~Split(w)
  <2>1. /\ \A q \in Requests \ {r} : req'[q] = req[q]
        /\ req'[r].pc \in {"working", "filing", "save", "done"}
        /\ req'[r].pc # "done" => req'[r].env = cache[w] /\ req'[r].on = w
        /\ \A q \in Requests : obj'[q].ticket = obj[q].ticket
    BY <1>5 DEF Proceeds
  <2>2. /\ \A q \in Requests : Active(q) => req[q].env \in Requests
        /\ \A v \in Workers : cache[v] # None => cache[v] \in Requests
    BY DEF Base, Held, TypeOK, Refs
  <2>3. \A q \in Requests : req[q].pc # "restore"
    BY <1>5, Alone DEF Clean
  <2>4. Together'
    BY <1>1, <1>2, <1>3, <1>5, <2>1, <2>2, <2>3 DEF Clean, Together, Active
  <2>5. Copied'
    BY <1>1, <1>2, <1>3, <1>5, <2>1, <2>2, <2>3 DEF Clean, Copied, Active
  <2>6. Missing'
    BY <1>1, <1>2, <1>3, <1>5, <2>1, <2>2, <2>3 DEF Clean, Missing
  <2>7. RecorderKnows'
    BY <1>1, <1>2, <1>3, <1>5, <2>1, <2>2, <2>3 DEF Clean, RecorderKnows, Knows
  <2>8. ObjectKnows'
    BY <1>1, <1>2, <1>5, <2>1, <2>2 DEF Clean, ObjectKnows, MapKnows, Knows, Ticket, Active
  <2>9. MapKnows'
    BY <1>1, <1>2, <1>3, <1>5, <2>1, <2>2, <2>3 DEF Clean, MapKnows, Knows
  <2>10. RedisKnows'
    BY <1>1, <1>2, <1>3, <1>5, <2>1, <2>2, <2>3 DEF Clean, RedisKnows, Knows
  <2>11. RowKnows'
    BY <1>1, <1>2, <1>3, <1>5, <2>1, <2>2, <2>3 DEF Clean, RowKnows, Knows
  <2> QED
    BY <2>4, <2>5, <2>6, <2>7, <2>8, <2>9, <2>10, <2>11 DEF Clean
<1>6. CASE /\ redis.held /\ Proceeds(r, w, r, [obj EXCEPT ![r] = redis.env])
           /\ backend = "redis" /\ Others(r) = {}
  <2>1. \A v \in Workers : cache[v] = None
    BY <1>6 DEF Clean, Copied
  <2>2. \A q \in Requests \ {r} : ~Active(q) /\ req'[q] = req[q]
    BY <1>6 DEF Others, Proceeds
  <2>3. /\ req'[r].pc \in {"working", "filing", "save", "done"}
        /\ req'[r].pc # "done" => req'[r].env = r
        /\ obj'[r].ticket = redis.env.ticket
    BY <1>6 DEF Proceeds, Base, TypeOK
  <2>4. ~Pending /\ ~Recording /\ ~Recording'
    BY <1>1, <2>2, <2>3 DEF Pending, Recording, Active
  <2>5. Knows(redis.env.ticket)
    BY <1>6, <2>4 DEF Clean, RedisKnows
  <2>6. Together'
    BY <1>1, <1>2, <1>3, <1>6, <2>1, <2>2, <2>3, <2>4, <2>5 DEF Clean, Together, Active
  <2>7. Copied'
    BY <1>1, <1>2, <1>3, <1>6, <2>1, <2>2, <2>3, <2>4, <2>5 DEF Clean, Copied, Active
  <2>8. Missing'
    BY <1>1, <1>2, <1>3, <1>6, <2>1, <2>2, <2>3, <2>4, <2>5 DEF Clean, Missing
  <2>9. RecorderKnows'
    BY <1>1, <1>2, <1>3, <1>6, <2>1, <2>2, <2>3, <2>4, <2>5 DEF Clean, RecorderKnows, Knows
  <2>10. ObjectKnows'
    BY <1>1, <1>2, <1>3, <1>6, <2>1, <2>2, <2>3, <2>4, <2>5 DEF Clean, ObjectKnows, Knows, Ticket, Active
  <2>11. MapKnows'
    BY <1>1, <1>2, <1>3, <1>6, <2>1, <2>2, <2>3, <2>4, <2>5 DEF Clean, MapKnows, Knows
  <2>12. RedisKnows'
    BY <1>1, <1>2, <1>3, <1>6, <2>1, <2>2, <2>3, <2>4, <2>5 DEF Clean, RedisKnows, Knows
  <2>13. RowKnows'
    BY <1>1, <1>2, <1>3, <1>6, <2>1, <2>2, <2>3, <2>4, <2>5 DEF Clean, RowKnows, Knows
  <2> QED
    BY <2>6, <2>7, <2>8, <2>9, <2>10, <2>11, <2>12, <2>13 DEF Clean
<1> QED
  BY <1>4, <1>5, <1>6, LoadFacts

LEMMA RestoreClean ==
    ASSUME Base, Clean, NEW r \in Requests, Restore(r), ~excused'
    PROVE  Clean'
<1>1. /\ req[r].pc = "restore" /\ req[r].env = r /\ ~redis.held
      /\ UNCHANGED <<backend, cache, redis, row, tickets, dropped>> /\ Open' = Open
  BY RestoreFacts DEF Clean, Missing, Open
<1>2. /\ \A q \in Requests \ {r} : ~Active(q)
      /\ \A w \in Workers : cache[w] = None
      /\ ~Pending /\ ~Recording
  BY <1>1, Alone DEF Clean
<1>3. Knows(row.env.ticket)
  BY <1>1, <1>2 DEF Clean, RowKnows
<1>4. /\ \A q \in Requests \ {r} : req'[q] = req[q]
      /\ req'[r].pc \in {"keep", "working", "filing", "save", "done"}
      /\ req'[r].pc # "done" => req'[r].env = r
  BY RestoreFacts DEF Proceeds
<1>5. Open = {} \/ obj'[r].ticket = row.env.ticket
  <2>1. CASE ~row.held
    BY <1>3, <2>1, NothingOpen, Blanks DEF Base, RowOK
  <2>2. CASE obj' = [obj EXCEPT ![r] = row.env]
    BY <2>2 DEF Base, TypeOK
  <2> QED
    BY <2>1, <2>2, RestoreFacts
<1>6. ~Recording'
  BY <1>2, <1>4 DEF Recording
<1>7. Together'
  BY <1>1, <1>2, <1>3, <1>4, <1>5, <1>6 DEF Clean, Together, Active
<1>8. Copied'
  BY <1>1, <1>2, <1>3, <1>4, <1>5, <1>6 DEF Clean, Copied, Active
<1>9. Missing'
  BY <1>1, <1>2, <1>3, <1>4, <1>5, <1>6 DEF Clean, Missing
<1>10. RecorderKnows'
  BY <1>1, <1>2, <1>3, <1>4, <1>5, <1>6 DEF Clean, RecorderKnows, Knows
<1>11. ObjectKnows'
  BY <1>1, <1>2, <1>3, <1>4, <1>5, <1>6 DEF Clean, ObjectKnows, Knows, Ticket, Active
<1>12. MapKnows'
  BY <1>1, <1>2, <1>3, <1>4, <1>5, <1>6 DEF Clean, MapKnows, Knows
<1>13. RedisKnows'
  BY <1>1, <1>2, <1>3, <1>4, <1>5, <1>6 DEF Clean, RedisKnows, Knows
<1>14. RowKnows'
  BY <1>1, <1>2, <1>3, <1>4, <1>5, <1>6 DEF Clean, RowKnows, Knows
<1> QED
  BY <1>7, <1>8, <1>9, <1>10, <1>11, <1>12, <1>13, <1>14 DEF Clean

LEMMA KeepClean ==
    ASSUME Base, Clean, NEW r \in Requests, Keep(r), ~excused'
    PROVE  Clean'
<1>1. /\ req[r].pc = "keep" /\ req[r].env = r /\ req[r].on \in Workers /\ Active(r)
      /\ UNCHANGED <<backend, row, tickets, dropped>> /\ Open' = Open
      /\ Save(r) /\ Proceeds(r, req[r].on, r, obj)
  BY KeepFacts DEF Active, Open
<1>2. /\ \A q \in Requests \ {r} : req'[q] = req[q]
      /\ req'[r].pc \in {"working", "filing", "save", "done"}
      /\ req'[r].pc # "done" => req'[r].env = r /\ req'[r].on = req[r].on
      /\ \A q \in Requests : obj'[q].ticket = obj[q].ticket
  BY <1>1 DEF Proceeds
<1>3. SavedOK(r)
  BY <1>1, SavedFacts
<1>4. ~Recording' => ~Recording /\ Knows(obj[r].ticket)
  <2>1. ~Recording' => ~Recording
    BY <1>1, <1>2 DEF Recording
  <2> QED
    BY <1>1, <2>1 DEF Clean, ObjectKnows, Ticket
<1>5. ~Pending' => ~Recording'
  BY DEF Pending, Recording
<1>6. \A q \in Requests : req[q].pc # "restore"
  BY <1>1, Alone DEF Clean
<1>7. /\ \A q \in Requests : Active(q) => req[q].env = r
      /\ \A w \in Workers : cache[w] # None => cache[w] = r
  BY <1>1 DEF Clean, Together
<1>8. Together'
  BY <1>1, <1>2, <1>3, <1>4, <1>5, <1>6, <1>7, EscalationAssumption DEF Clean, Together, Active, SavedOK
<1>9. Copied'
  BY <1>1, <1>2, <1>3, <1>4, <1>5, <1>6, <1>7, EscalationAssumption DEF Clean, Copied, Active, SavedOK
<1>10. Missing'
  BY <1>1, <1>2, <1>3, <1>4, <1>5, <1>6, <1>7 DEF Clean, Missing
<1>11. RecorderKnows'
  BY <1>1, <1>2, <1>3, <1>4, <1>5, <1>6, <1>7 DEF Clean, RecorderKnows, Knows
<1>12. ObjectKnows'
  BY <1>1, <1>2, <1>3, <1>4, <1>5, <1>6, <1>7 DEF Clean, ObjectKnows, Knows, Ticket, Active
<1>13. MapKnows'
  BY <1>1, <1>2, <1>3, <1>4, <1>5, <1>6, <1>7, EscalationAssumption DEF Clean, MapKnows, Knows, SavedOK
<1>14. RedisKnows'
  BY <1>1, <1>2, <1>3, <1>4, <1>5, <1>6, <1>7, EscalationAssumption DEF Clean, RedisKnows, Knows, SavedOK
<1>15. RowKnows'
  BY <1>1, <1>2, <1>3, <1>4, <1>5, <1>6, <1>7, EscalationAssumption DEF Clean, RowKnows, Knows, SavedOK
<1> QED
  BY <1>8, <1>9, <1>10, <1>11, <1>12, <1>13, <1>14, <1>15 DEF Clean

-----------------------------------------------------------------------------
(* Theorems                                                                 *)

LEMMA Starts == Init => IInv
<1> SUFFICES ASSUME Init PROVE IInv
  OBVIOUS
<1>1. /\ "idle" \in Pcs /\ At("idle") \in Req /\ At("idle").pc = "idle" /\ At("idle").env = None
      /\ At("idle").note = Blank
  BY AtFacts DEF Pcs
<1>2. /\ Blank \in Envelope /\ NoCopy \in Copy /\ NoCopy.env = Blank /\ ~NoCopy.held
      /\ [held |-> TRUE, env |-> Blank] \in Copy
      /\ Blank.ticket = None /\ Blank.waiting = FALSE
  BY Blanks DEF NoCopy, Copy
<1>3. /\ \A r \in Requests : req[r] = At("idle") /\ obj[r] = Blank
      /\ \A w \in Workers : cache[w] = None
      /\ redis = NoCopy /\ Open = {} /\ tickets = {}
      /\ row \in Copy /\ row.env = Blank
  <2>1. row \in Copy /\ row.env = Blank
    <3>1. CASE row = NoCopy
      BY <1>2, <3>1
    <3>2. CASE row = [held |-> TRUE, env |-> Blank]
      BY <1>2, <3>2
    <3> QED
      BY <3>1, <3>2 DEF Init
  <2> QED
    BY <2>1 DEF Init, Open
<1>4. TypeOK
  BY <1>1, <1>2, <1>3 DEF Init, TypeOK, Refs
<1>5. Base
  BY <1>1, <1>2, <1>3, <1>4, EscalationAssumption
     DEF Base, Held, Active, Private, Unmade, Own, Committed, RowOK, RedisOK, Offered, CopiesOK, CopyOK
<1>6. Clean
  BY <1>1, <1>2, <1>3
     DEF Clean, Together, Copied, Missing, RecorderKnows, ObjectKnows, MapKnows, RedisKnows,
         RowKnows, Knows, Active, Recording
<1> QED
  BY <1>5, <1>6 DEF IInv

LEMMA Steps == IInv /\ [Next]_vars => IInv'
<1> SUFFICES ASSUME IInv, [Next]_vars PROVE IInv'
  OBVIOUS
<1>1. Base /\ (~excused => Clean) /\ excused \in BOOLEAN
  BY DEF IInv, Base, TypeOK
<1>2. ASSUME NEW r \in Requests, Step(r) PROVE IInv'
  <2>1. ASSUME NEW k \in Kinds, NEW w \in Workers, Load(r, k, w) PROVE IInv'
    BY <1>1, <2>1, LoadFacts, LoadBase, LoadClean DEF IInv
  <2>2. CASE Restore(r)
    BY <1>1, <2>2, RestoreBase, RestoreClean DEF IInv, Restore
  <2>3. CASE Keep(r)
    <3>1. /\ Save(r) /\ req[r].env \in Requests /\ req[r].on \in Workers
      BY <1>1, <2>3 DEF Keep, Base, Held, Active
    <3>2. excused => excused'
      BY <1>1, <3>1, SaveFacts DEF Base
    <3> QED
      BY <1>1, <2>3, <3>2, KeepBase, KeepClean DEF IInv
  <2>4. CASE Fail(r)
    BY <1>1, <2>4, FailBase, FailClean DEF IInv, Fail
  <2>5. CASE Answer(r)
    BY <1>1, <2>5, AnswerBase, AnswerClean DEF IInv, Answer
  <2>6. CASE File(r)
    BY <1>1, <2>6, FileBase, FileClean DEF IInv, File, Excuse
  <2>7. CASE Record(r)
    BY <1>1, <2>7, RecordBase, RecordClean DEF IInv, Record
  <2>8. CASE Offer(r)
    BY <1>1, <2>8, OfferBase, OfferClean DEF IInv, Offer
  <2>9. CASE SaveEnvelope(r)
    <3>1. /\ Save(r) /\ req[r].env \in Requests /\ req[r].on \in Workers
      BY <1>1, <2>9 DEF SaveEnvelope, Base, Held, Active
    <3>2. excused => excused'
      BY <1>1, <3>1, SaveFacts DEF Base
    <3> QED
      BY <1>1, <2>9, <3>2, SaveEnvelopeBase, SaveEnvelopeClean DEF IInv
  <2>10. CASE Format(r)
    BY <1>1, <2>10, FormatBase, FormatClean DEF IInv, Format
  <2>11. CASE SyncTurn(r)
    BY <1>1, <2>11, SyncTurnBase, SyncTurnClean DEF IInv, SyncTurn, Excuse
  <2> QED
    BY <1>2, <2>1, <2>2, <2>3, <2>4, <2>5, <2>6, <2>7, <2>8, <2>9, <2>10, <2>11 DEF Step
<1>3. ASSUME NEW w \in Workers, Evict(w) PROVE IInv'
  BY <1>1, <1>3, EvictBase, EvictClean DEF IInv, Evict, Excuse
<1>4. ASSUME NEW w \in Workers, Crash(w) PROVE IInv'
  BY <1>1, <1>4, CrashBase, CrashClean DEF IInv, Crash, Excuse
<1>5. CASE Expire
  BY <1>1, <1>5, ExpireBase, ExpireClean DEF IInv, Expire, Excuse
<1>6. CASE UNCHANGED vars
  BY <1>1, <1>6 DEF IInv, vars, Base, TypeOK, Held, Private, Own, Committed, RowOK, RedisOK, Offered,
     CopiesOK, CopyOK, Clean, Together, Copied, Missing, RecorderKnows, ObjectKnows, MapKnows,
     RedisKnows, RowKnows, Knows, Open, Active, Unmade, Ticket, Recording, Pending
<1> QED
  BY <1>2, <1>3, <1>4, <1>5, <1>6 DEF Next

\* The invariant holds of every behaviour of the conversation.
THEOREM Invariance == Spec => []IInv
BY Starts, Steps, PTL DEF Spec

LEMMA KnownOpen == IInv => SecondTicketHasACause
<1> SUFFICES ASSUME IInv, ~excused PROVE \A s, t \in Open : s = t
  BY DEF SecondTicketHasACause
<1>1. Clean
  BY DEF IInv
<1>2. CASE Recording
  BY <1>1, <1>2 DEF Clean, RecorderKnows, Recording, Knows
<1>3. CASE ~Recording /\ \E r \in Requests : Active(r) /\ req[r].pc # "restore"
  BY <1>1, <1>3 DEF Clean, ObjectKnows, Knows
<1>4. CASE ~Recording /\ \A r \in Requests : Active(r) => req[r].pc = "restore"
  <2>1. ~Pending
    BY <1>4 DEF Pending, Active
  <2> QED
    BY <1>1, <1>4, <2>1 DEF Clean, MapKnows, RedisKnows, RowKnows, Knows
<1> QED
  BY <1>2, <1>3, <1>4

\* Every variable keeps its type.
THEOREM TypeCorrect == Spec => []TypeOK
<1>1. IInv => TypeOK
  BY DEF IInv, Base
<1> QED
  BY <1>1, Invariance, PTL

\* A conversation has a second open ticket only after something excused it:
\* request_live_agent and _handle_ticketing find the ticket that is there.
THEOREM TicketsAreReused == Spec => []SecondTicketHasACause
BY KnownOpen, Invariance, PTL

\* No copy of the envelope, nor the durable row, names a ticket never filed, and
\* a wait that names no ticket has been through a change of topic.
THEOREM CopiesNameTickets == Spec => []CopiesFollowTickets
<1>1. IInv => CopiesFollowTickets
  BY DEF IInv, Base, CopiesOK, CopyOK, CopiesFollowTickets, Copies
<1> QED
  BY <1>1, Invariance, PTL
=============================================================================
