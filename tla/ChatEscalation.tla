--------------------------- MODULE ChatEscalation ----------------------------
(***************************************************************************)
(* One support conversation and its ticket: the employee types messages,   *)
(* clicks "Connect with a specialist", cancels the wait, or has the page   *)
(* ask how the wait stands                                                 *)
(* (services/agents/chat_service.py, session_store.py,                     *)
(* services/support_session_service.py).                                   *)
(*                                                                         *)
(* What keeps a conversation to one ticket is a note of it in the          *)
(* conversation's envelope.  The memory store hands every request of a     *)
(* worker the same object; the Redis store hands each a copy, and falls    *)
(* back to a map of the worker when Redis does not answer.  A turn ends by *)
(* writing the note to the durable row, from which a lost envelope is      *)
(* rebuilt; a click and a cancellation write nothing there.                *)
(*                                                                         *)
(* A ticket is named by the request that files it, and so is an envelope   *)
(* object by the request that makes it.  What a turn says is decided in    *)
(* DiagnosticWorkflow, and what becomes of the offer in HandoffOffers.     *)
(***************************************************************************)
EXTENDS Naturals

CONSTANTS
    Requests,  \* the employee's requests, each served once
    Workers,   \* processes that serve the API (Dockerfile: --workers 2)
    None       \* no ticket, no object

ASSUME EscalationAssumption == None \notin Requests

VARIABLES
    backend,  \* CHAT_SESSION_BACKEND of the deployment
    obj,      \* obj[r]: the envelope object that r made
    cache,    \* cache[w]: the object in the memory map of w
    redis,    \* the copy in Redis
    row,      \* the support_sessions row and its metadata_json
    req,      \* req[r]: where the request is
    tickets,  \* the committed tickets of the conversation
    dropped,  \* those whose topic the employee has left
    excused   \* something has happened that may hide a ticket

vars == <<backend, obj, cache, redis, row, req, tickets, dropped, excused>>

Refs == Requests \cup {None}
Envelope == [ticket : Refs, waiting : BOOLEAN]
Blank == [ticket |-> None, waiting |-> FALSE]

Copy == [held : BOOLEAN, env : Envelope]
NoCopy == [held |-> FALSE, env |-> Blank]

\* env is the object the request works on, note what it will write to the row.
Kinds == {"turn", "click", "cancel", "poll"}
Pcs == {"idle", "restore", "keep", "working", "filing", "record", "offer", "save", "format",
        "sync", "done"}
Req == [pc : Pcs, kind : Kinds, on : Workers \cup {None}, env : Refs, note : Envelope]
At(pc) == [pc |-> pc, kind |-> "turn", on |-> None, env |-> None, note |-> Blank]

TypeOK ==
    /\ backend \in {"memory", "redis"}
    /\ obj \in [Requests -> Envelope]
    /\ cache \in [Workers -> Refs]
    /\ redis \in Copy
    /\ row \in Copy
    /\ req \in [Requests -> Req]
    /\ tickets \subseteq Requests
    /\ dropped \subseteq Requests
    /\ excused \in BOOLEAN

\* A new conversation, or one resumed after its envelope was lost.
Init ==
    /\ backend \in {"memory", "redis"}
    /\ obj = [r \in Requests |-> Blank]
    /\ cache = [w \in Workers |-> None]
    /\ redis = NoCopy
    /\ row \in {NoCopy, [held |-> TRUE, env |-> Blank]}
    /\ req = [r \in Requests |-> At("idle")]
    /\ tickets = {}
    /\ dropped = {}
    /\ excused = FALSE

Active(r) == req[r].pc \notin {"idle", "done"}
Others(r) == {q \in Requests \ {r} : Active(q)}
Goto(r, pc) == req' = [req EXCEPT ![r].pc = pc]
Finish(r) == req' = [req EXCEPT ![r] = At("done")]
Ticket(r) == obj[req[r].env].ticket
Excuse(cause) == excused' = (excused \/ cause)

-----------------------------------------------------------------------------
(* The store.  A memory map answers at once, so that the steps around it run *)
(* as one; letting others in between adds orders and hides none.             *)

\* A save that Redis does not take, or not in time, goes to the worker's own map.
Save(r) ==
    \/ /\ backend = "memory"
       /\ cache' = [cache EXCEPT ![req[r].on] = req[r].env]
       /\ UNCHANGED <<redis, excused>>
    \/ /\ backend = "redis"
       /\ redis' = [held |-> TRUE, env |-> obj[req[r].env]]
       /\ UNCHANGED <<cache, excused>>
    \/ /\ backend = "redis"
       /\ cache' = [cache EXCEPT ![req[r].on] = req[r].env]
       /\ redis' \in {redis, [held |-> TRUE, env |-> obj[req[r].env]]}
       /\ Excuse(TRUE)

Enter(r, pc, k, w, o) ==
    req' = [req EXCEPT ![r] = [pc |-> pc, kind |-> k, on |-> w, env |-> o, note |-> Blank]]

\* What each kind of request does once it has its envelope o, before it waits
\* for anything.  A conversation that has a state may be too thin to hand off.
Proceed(r, k, w, o, objs, known) ==
    \/ k = "turn" /\ Enter(r, "working", k, w, o) /\ obj' = objs
    \/ k = "click" /\ objs[o].ticket = None /\ Enter(r, "filing", k, w, o) /\ obj' = objs
    \/ k = "click" /\ (objs[o].ticket # None \/ known) /\ Finish(r) /\ obj' = objs
    \/ /\ k = "cancel" /\ objs[o].ticket # None
       /\ Enter(r, "save", k, w, o)
       /\ obj' = [objs EXCEPT ![o].waiting = FALSE]
    \/ k = "cancel" /\ objs[o].ticket = None /\ Finish(r) /\ obj' = objs
    \/ k = "poll" /\ Finish(r) /\ obj' = objs

\* A poll that finds an envelope reads it and changes nothing: it is no step.
LookInMap(r, k, w) ==
    IF cache[w] # None
    THEN k # "poll" /\ Proceed(r, k, w, cache[w], obj, TRUE)
    ELSE Enter(r, "restore", k, w, r) /\ UNCHANGED obj

LookInRedis(r, k, w) ==
    IF redis.held
    THEN k # "poll" /\ Proceed(r, k, w, r, [obj EXCEPT ![r] = redis.env], TRUE)
    ELSE Enter(r, "restore", k, w, r) /\ UNCHANGED obj

\* Another worker has the conversation in a map of its own.
Split(w) == \E v \in Workers \ {w} : cache[v] # None

\* It may hide a ticket when the request starts on a copy of its own while
\* another one is in flight; sharing an object does not.
Load(r, k, w) ==
    /\ req[r].pc = "idle"
    /\ \/ /\ backend = "memory"
          /\ LookInMap(r, k, w)
          /\ Excuse(Split(w) \/ (cache[w] = None /\ Others(r) # {}))
       \/ /\ backend = "redis"
          /\ LookInRedis(r, k, w)
          /\ Excuse(Others(r) # {})
       \/ /\ backend = "redis"
          /\ LookInMap(r, k, w)
          /\ Excuse(TRUE)
    /\ UNCHANGED <<backend, cache, redis, row, tickets, dropped>>

\* Mutant: the row restores everything but the ticket.
RestoreUnticketed(r) ==
    /\ req[r].pc = "restore"
    /\ IF row.held
       THEN /\ obj' = [obj EXCEPT ![r] = [row.env EXCEPT !.ticket = None]]
            /\ Goto(r, "keep")
       ELSE Proceed(r, req[r].kind, req[r].on, r, obj, FALSE)
    /\ UNCHANGED <<backend, cache, redis, row, tickets, dropped, excused>>

\* restore_chat_session.  A conversation with no row is new: a turn and a click
\* start an envelope that is not saved yet; there is nothing to cancel or report.
Restore(r) ==
    /\ req[r].pc = "restore"
    /\ IF row.held
       THEN /\ obj' = [obj EXCEPT ![r] = row.env]
            /\ Goto(r, "keep")
       ELSE Proceed(r, req[r].kind, req[r].on, r, obj, FALSE)
    /\ UNCHANGED <<backend, cache, redis, row, tickets, dropped, excused>>

Keep(r) ==
    /\ req[r].pc = "keep"
    /\ Save(r)
    /\ Proceed(r, req[r].kind, req[r].on, r, obj, TRUE)
    /\ UNCHANGED <<backend, row, tickets, dropped>>

-----------------------------------------------------------------------------
(* Turns and clicks                                                         *)

\* The database does not answer, the workflow raises, or the insert is refused.
Fail(r) ==
    /\ req[r].pc \in {"restore", "working", "filing"}
    /\ Finish(r)
    /\ UNCHANGED <<backend, obj, cache, redis, row, tickets, dropped, excused>>

\* The workflow's answer: a new topic takes the ticket out of the envelope, and
\* a confirmed escalation that finds none there files one.
Answer(r) ==
    /\ req[r].pc = "working"
    /\ \E newTopic, confirmed \in BOOLEAN :
          LET t == IF newTopic THEN None ELSE Ticket(r)
          IN  /\ obj' = [obj EXCEPT ![req[r].env].ticket = t]
              /\ dropped' = IF newTopic THEN dropped \cup ({Ticket(r)} \ {None}) ELSE dropped
              /\ Goto(r, IF confirmed /\ t = None THEN "filing" ELSE "save")
    /\ UNCHANGED <<backend, cache, redis, row, tickets, excused>>

\* A request filed after this one had looked for a ticket.
FiledMeanwhile(r) == Ticket(r) # None \/ \E q \in Others(r) : req[q].pc = "record"

\* Mutant: the ticket is noted and not committed.
FileUncommitted(r) ==
    /\ req[r].pc = "filing" /\ row.held
    /\ Goto(r, "record") /\ Excuse(FiledMeanwhile(r))
    /\ UNCHANGED <<backend, obj, cache, redis, row, tickets, dropped>>

\* The ticket refers to the durable row: with none there the insert is refused.
\* The answer to the commit may be lost, and the ticket is there all the same.
File(r) ==
    /\ req[r].pc = "filing" /\ row.held
    /\ tickets' = tickets \cup {r}
    /\ \/ Goto(r, "record") /\ Excuse(FiledMeanwhile(r))
       \/ Finish(r) /\ Excuse(TRUE)
    /\ UNCHANGED <<backend, obj, cache, redis, row, dropped>>

Record(r) ==
    /\ req[r].pc = "record"
    /\ obj' = [obj EXCEPT ![req[r].env].ticket = r]
    /\ Goto(r, IF req[r].kind = "click" THEN "offer" ELSE "save")
    /\ UNCHANGED <<backend, cache, redis, row, tickets, dropped, excused>>

\* A click offers the ticket to a specialist, or fails to, and then waits.
Offer(r) ==
    /\ req[r].pc = "offer"
    /\ obj' = [obj EXCEPT ![req[r].env].waiting = TRUE]
    /\ Goto(r, "save")
    /\ UNCHANGED <<backend, cache, redis, row, tickets, dropped, excused>>

\* Only a turn goes on to the durable row: sync_envelope, which a click calls,
\* leaves the metadata alone, and a cancellation calls nothing.
SaveEnvelope(r) ==
    /\ req[r].pc = "save"
    /\ Save(r)
    /\ IF req[r].kind = "turn" THEN Goto(r, "format") ELSE Finish(r)
    /\ UNCHANGED <<backend, obj, row, tickets, dropped>>

Format(r) ==
    /\ req[r].pc = "format"
    /\ req' = [req EXCEPT ![r] = [@ EXCEPT !.pc = "sync", !.note = obj[req[r].env]]]
    /\ UNCHANGED <<backend, obj, cache, redis, row, tickets, dropped, excused>>

\* sync_turn: a failure is swallowed.  What it writes may be older than what
\* the envelope has come to say since.
SyncTurn(r) ==
    /\ req[r].pc = "sync"
    /\ \/ /\ row' = [held |-> TRUE, env |-> req[r].note]
          /\ Excuse(req[r].note.ticket # Ticket(r))
       \/ UNCHANGED <<row, excused>>
    /\ Finish(r)
    /\ UNCHANGED <<backend, obj, cache, redis, tickets, dropped>>

-----------------------------------------------------------------------------
(* What the store and the processes lose                                    *)

\* A copy whose ticket the durable row does not have is not rebuilt.
Hidden(env) == env.ticket # None /\ ~(row.held /\ row.env.ticket = env.ticket)

\* The TTL, or the cap of 5000 conversations.
Evict(w) ==
    /\ cache[w] # None
    /\ cache' = [cache EXCEPT ![w] = None]
    /\ Excuse(Hidden(obj[cache[w]]))
    /\ UNCHANGED <<backend, obj, redis, row, req, tickets, dropped>>

Expire ==
    /\ redis.held
    /\ redis' = NoCopy
    /\ Excuse(Hidden(redis.env))
    /\ UNCHANGED <<backend, obj, cache, row, req, tickets, dropped>>

\* A worker that dies takes its map and its requests with it.
Dying(w) == {r \in Requests : Active(r) /\ req[r].on = w}

Crash(w) ==
    /\ Dying(w) # {} \/ cache[w] # None
    /\ cache' = [cache EXCEPT ![w] = None]
    /\ req' = [r \in Requests |-> IF r \in Dying(w) THEN At("done") ELSE req[r]]
    /\ Excuse(Dying(w) # {} \/ (cache[w] # None /\ Hidden(obj[cache[w]])))
    /\ UNCHANGED <<backend, obj, redis, row, tickets, dropped>>

Step(r) ==
    \/ \E k \in Kinds, w \in Workers : Load(r, k, w)
    \/ Restore(r) \/ Keep(r) \/ Fail(r)
    \/ Answer(r) \/ File(r) \/ Record(r) \/ Offer(r)
    \/ SaveEnvelope(r) \/ Format(r) \/ SyncTurn(r)

Next ==
    \/ \E r \in Requests : Step(r)
    \/ \E w \in Workers : Evict(w) \/ Crash(w)
    \/ Expire

Spec == Init /\ [][Next]_vars

-----------------------------------------------------------------------------
(* Properties                                                               *)

\* The tickets of the topic the conversation is on.
Open == tickets \ dropped

\* "Repeated clicks reuse the same ticket": a conversation has a second open
\* ticket only after something excused it: a request that started on a copy of
\* its own while another was in flight, or filed after another had; a copy lost
\* that the durable row did not have, or a row written from an older envelope;
\* a request that died in the middle; Redis not answering; two workers with
\* maps of their own.  Losing a copy, or overlapping on one object, is no excuse.
SecondTicketHasACause == excused \/ \A s, t \in Open : s = t

Copies == {obj[r] : r \in Requests} \cup {req[r].note : r \in Requests} \cup {redis.env, row.env}

\* Whatever overlaps, fails or is lost, no copy of the conversation names a
\* ticket that is not in the database, or waits for the specialist of a ticket
\* that it cannot name: one that does has been through a change of topic, which
\* drops the ticket and not the wait.
CopiesFollowTickets ==
    \A c \in Copies :
        /\ c.ticket \in tickets \cup {None}
        /\ c.waiting /\ c.ticket = None => dropped # {}
=============================================================================
