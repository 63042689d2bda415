------------------------------- MODULE LiveChat -------------------------------
(***************************************************************************)
(* Live chat between an employee and an IT specialist, and the ticket      *)
(* ownership it hangs on: services/specialist_chat_service.py, the claim,  *)
(* release and resolve operations of services/specialist_queue_service.py, *)
(* the assignment and the status changes of services/ticket_service.py,    *)
(* and the idle sweeper of services/scheduler.py.                          *)
(*                                                                         *)
(* Every HTTP request runs in one READ COMMITTED transaction.  What a      *)
(* request loads without a lock is a COPY that it keeps for the rest of    *)
(* the request: a later SELECT of the same row, even FOR UPDATE, returns   *)
(* the object already in the session's identity map, unrefreshed.  What it *)
(* writes at the end are only the columns whose value differs from that    *)
(* copy.  Both facts are modelled, by req[r].copy and by WriteChat and     *)
(* WriteTicket; nothing a request does is visible before its commit.       *)
(***************************************************************************)
EXTENDS Naturals, FiniteSets

CONSTANTS
    Tickets,      \* chat tickets of one requester
    Specialists,  \* IT specialists
    Employee,     \* the requester, on the other end of every chat
    Sessions,     \* ids of live-chat sessions; their number bounds the starts
    Requests,     \* HTTP requests that may be in flight at once
    Sweepers,     \* idle sweepers, one per running process
    None,         \* no specialist, no row, no lock holder
    IdleCutoff,   \* idle time below which the sweeper does not select a row
    IdleWarning,  \* idle_warning_seconds, in ticks
    IdleEnd,      \* idle_end_seconds, in ticks
    Traffic,      \* operations of Request.op that arrive in the behaviour
    ClientReasons, \* end reasons that clients pass to the end route
    StaffStatuses, \* statuses that staff set with update_status and PATCH
    MaxMessages,  \* bound on the participants' messages
    MaxCrashes    \* bound on the process restarts

ASSUME ThresholdsAssumption ==
    /\ IdleCutoff \in Nat /\ IdleWarning \in Nat /\ IdleEnd \in Nat
    /\ IdleCutoff <= IdleEnd
    /\ ClientReasons \subseteq
           {"resolved", "user_left", "specialist_ended", "idle_timeout", "session_error"}
    /\ StaffStatuses \subseteq
           {"new", "triaged", "in_progress", "waiting_for_user", "escalated", "resolved"}
    /\ MaxMessages \in Nat /\ MaxCrashes \in Nat

ASSUME IdentityAssumption ==
    /\ None \notin Tickets \cup Sessions \cup Specialists \cup Requests \cup Sweepers
    /\ Employee \notin Specialists \cup {None}
    /\ Requests \cap Sweepers = {}
    /\ Tickets \cap Sessions = {}

VARIABLES
    ticket,    \* ticket[t]: the committed assignment, status and resolution
    session,   \* session[s]: the committed chat row
    idle,      \* idle[s]: ticks since last_activity_at of a live chat, at most
               \* IdleEnd; not tracked, and 0, while the chat is not live
    sends,     \* messages posted so far
    req,       \* req[r]: the request's progress and what it loaded
    sweep,     \* sweep[w]: the rows a sweeper pass has locked, as loaded
    rowLock,   \* rowLock[x]: who holds the lock of row x
    crashes    \* process restarts so far

vars == <<ticket, session, idle, sends, req, sweep, rowLock, crashes>>

Live == {"active", "idle_warning"}
Ended == {"ended_by_user", "ended_by_specialist", "ended_by_timeout", "ended_by_system"}
EndReasons == {"resolved", "user_left", "specialist_ended", "idle_timeout", "session_error"}
QueueStatuses == {"new", "triaged", "in_progress", "waiting_for_user", "escalated"}
Resolved == {"resolved", "closed"}
TicketStatuses == QueueStatuses \cup Resolved

\* stamped: resolved_at is set.
TicketRow == [assigned : Specialists \cup {None}, status : TicketStatuses,
              stamped : BOOLEAN]
ChatRow == [ticket : Tickets \cup {None}, specialist : Specialists \cup {None},
            status : Live \cup Ended \cup {"absent"},
            reason : EndReasons \cup {"none"}]
AbsentChat == [ticket |-> None, specialist |-> None,
               status |-> "absent", reason |-> "none"]

Phases == {"idle", "start", "send", "end", "timeout", "warn", "write",
           "find", "lock", "finish"}
Request == [pc : Phases,
            op : {"none", "start", "send", "end", "poll", "assign", "release", "resolve",
                  "status", "patch", "close", "reopen"},
            actor : Specialists \cup {Employee, None},
            tid : Tickets \cup {None},
            row : Sessions \cup {None},
            copy : ChatRow,
            tcopy : TicketRow,
            target : TicketStatuses \cup {"none"},
            reason : EndReasons \cup {"none"}]

NoTicketCopy == [assigned |-> None, status |-> "new", stamped |-> FALSE]
NoRequest == [pc |-> "idle", op |-> "none", actor |-> None, tid |-> None,
              row |-> None, copy |-> AbsentChat, tcopy |-> NoTicketCopy,
              target |-> "none", reason |-> "none"]

\* A row of a sweeper pass: what it loaded and what the idle rules make of it.
SweptRow == [copy : ChatRow, verdict : {"none", "end", "warn"}]
NotSwept == [copy |-> AbsentChat, verdict |-> "none"]
NoPass == [s \in Sessions |-> NotSwept]

TypeOK ==
    /\ ticket \in [Tickets -> TicketRow]
    /\ session \in [Sessions -> ChatRow]
    /\ idle \in [Sessions -> 0..IdleEnd]
    /\ sends \in 0..MaxMessages
    /\ req \in [Requests -> Request]
    /\ sweep \in [Sweepers -> [Sessions -> SweptRow]]
    /\ rowLock \in [Tickets \cup Sessions -> Requests \cup Sweepers \cup {None}]
    /\ crashes \in 0..MaxCrashes

Init ==
    /\ ticket \in [Tickets -> [assigned : {None}, status : {"new", "triaged"},
                               stamped : {FALSE}]]
    /\ session = [s \in Sessions |-> AbsentChat]
    /\ idle = [s \in Sessions |-> 0]
    /\ sends = 0
    /\ req = [r \in Requests |-> NoRequest]
    /\ sweep = [w \in Sweepers |-> NoPass]
    /\ rowLock = [x \in Tickets \cup Sessions |-> None]
    /\ crashes = 0

-----------------------------------------------------------------------------
(* Rows, locks and the unique index                                         *)

StatusForReason(reason) ==
    CASE reason \in {"resolved", "specialist_ended"} -> "ended_by_specialist"
      [] reason = "user_left" -> "ended_by_user"
      [] reason = "idle_timeout" -> "ended_by_timeout"
      [] OTHER -> "ended_by_system"

IsParticipant(chat, actor) == actor \in {Employee, chat.specialist}

\* The columns an ORM flush writes: those that differ from the loaded copy.
WriteChat(row, copy, status, reason) ==
    [row EXCEPT !.status = IF status = copy.status THEN @ ELSE status,
                !.reason = IF reason = copy.reason THEN @ ELSE reason]

WriteTicket(row, copy, assigned, status, stamp) ==
    [assigned |-> IF assigned = copy.assigned THEN row.assigned ELSE assigned,
     status |-> IF status = copy.status THEN row.status ELSE status,
     stamped |-> stamp = "now" \/ (row.stamped /\ stamp # "null")]

EndedChat(row, copy, reason) == WriteChat(row, copy, StatusForReason(reason), reason)

\* Mutant: the partial index covers the active chats alone.
UniqueIndexOfActiveOnly(s, row) ==
    row.status = "active" =>
        \A z \in Sessions \ {s} :
            session[z].ticket = row.ticket => session[z].status # "active"

\* ix_specialist_chat_active_per_ticket: a row with a live status is refused
\* while another live row has its ticket.
UniqueIndexAdmits(s, row) ==
    row.status \in Live =>
        \A z \in Sessions \ {s} :
            session[z].ticket = row.ticket => session[z].status \notin Live

LiveChatOf(t) == {s \in Sessions : session[s].ticket = t /\ session[s].status \in Live}

Unlocked(x, me) == rowLock[x] \in {None, me}

\* The transaction is over: its locks go, and with them what it loaded.
Finished(r) ==
    /\ req' = [req EXCEPT ![r] = NoRequest]
    /\ rowLock' = [x \in Tickets \cup Sessions |-> IF rowLock[x] = r THEN None ELSE rowLock[x]]

-----------------------------------------------------------------------------
(* Ticket ownership                                                         *)

\* Mutant: the claim's WHERE clause forgets the assignee.
ClaimAnyTicket(sp, t) ==
    /\ rowLock[t] = None
    /\ ticket[t].status \in QueueStatuses
    /\ ticket' = [ticket EXCEPT ![t].assigned = sp, ![t].status = "in_progress"]
    /\ UNCHANGED <<session, idle, sends, req, sweep, rowLock, crashes>>

\* The queue's atomic claim: one UPDATE ... WHERE, then commit.
Claim(sp, t) ==
    /\ rowLock[t] = None
    /\ ticket[t].status \in QueueStatuses
    /\ ticket[t].assigned \in {None, sp}
    /\ ticket' = [ticket EXCEPT ![t].assigned = sp, ![t].status = "in_progress"]
    /\ UNCHANGED <<session, idle, sends, req, sweep, rowLock, crashes>>

\* A lead assigns or reassigns the ticket: load, overwrite, commit.
AssignLoad(r, sp, t) ==
    /\ "assign" \in Traffic /\ req[r].pc = "idle"
    /\ req' = [req EXCEPT ![r] = [NoRequest EXCEPT !.pc = "write", !.op = "assign",
                                      !.actor = sp, !.tid = t, !.tcopy = ticket[t]]]
    /\ UNCHANGED <<ticket, session, idle, sends, sweep, rowLock, crashes>>

\* update_status and PATCH take any status but "closed"; close and reopen look
\* at the status they loaded.
MaySet(op, status, current) ==
    CASE op = "close" -> status = "closed" /\ current # "closed"
      [] op = "reopen" -> status = "in_progress" /\ current \in Resolved
      [] OTHER -> status \in StaffStatuses

StaffLoad(r, t, op, status) ==
    /\ op \in Traffic /\ req[r].pc = "idle"
    /\ MaySet(op, status, ticket[t].status)
    /\ req' = [req EXCEPT ![r] = [NoRequest EXCEPT !.pc = "write", !.op = op, !.tid = t,
                                      !.tcopy = ticket[t], !.target = status]]
    /\ UNCHANGED <<ticket, session, idle, sends, sweep, rowLock, crashes>>

\* What a request writes into assigned_to and status.
Assigned(q) ==
    CASE q.op = "assign" -> q.actor
      [] q.op = "release" -> None
      [] OTHER -> q.tcopy.assigned

Status(q) ==
    CASE q.op = "assign" -> IF q.tcopy.status = "new" THEN "triaged" ELSE q.tcopy.status
      [] q.op = "release" -> "triaged"
      [] q.op = "resolve" -> "resolved"
      [] OTHER -> q.target

\* Mutant: close_ticket leaves resolved_at to the resolve operations.
StampNotByClose(q) ==
    CASE q.op = "resolve" \/ (q.op = "status" /\ q.target = "resolved") -> "now"
      [] q.op = "patch" /\ q.target = "resolved" /\ ~q.tcopy.stamped -> "now"
      [] q.op = "reopen" /\ q.tcopy.stamped -> "null"
      [] OTHER -> "keep"

\* What it writes into resolved_at: PATCH and close keep a time that they loaded.
Stamp(q) ==
    CASE q.op = "resolve" \/ (q.op = "status" /\ q.target = "resolved") -> "now"
      [] /\ q.op = "close" \/ (q.op = "patch" /\ q.target = "resolved")
         /\ ~q.tcopy.stamped -> "now"
      [] q.op = "reopen" /\ q.tcopy.stamped -> "null"
      [] OTHER -> "keep"

Written(row, q) == WriteTicket(row, q.tcopy, Assigned(q), Status(q), Stamp(q))

TicketCommit(r) ==
    LET t == req[r].tid
    IN  /\ req[r].pc = "write"
        /\ rowLock[t] = None
        /\ ticket' = [ticket EXCEPT ![t] = Written(@, req[r])]
        /\ Finished(r)
        /\ UNCHANGED <<session, idle, sends, sweep, crashes>>

-----------------------------------------------------------------------------
(* Starting a chat                                                          *)

\* The route loads the ticket and refuses anyone but its assignee.
StartLoad(r, sp, t) ==
    /\ "start" \in Traffic /\ req[r].pc = "idle"
    /\ ticket[t].assigned = sp
    /\ Cardinality({q \in Requests : req[q].pc = "start"})
           < Cardinality({s \in Sessions : session[s].status = "absent"})
    /\ req' = [req EXCEPT ![r] = [NoRequest EXCEPT !.pc = "start", !.op = "start",
                                      !.actor = sp, !.tid = t]]
    /\ UNCHANGED <<ticket, session, idle, sends, sweep, rowLock, crashes>>

NewChat(r) == [ticket |-> req[r].tid, specialist |-> req[r].actor,
               status |-> "active", reason |-> "none"]

StartInsert(r) ==
    /\ req[r].pc = "start"
    /\ \E s \in Sessions :
          /\ session[s].status = "absent" /\ rowLock[s] = None  \* a fresh id
          /\ IF UniqueIndexAdmits(s, NewChat(r))
             THEN /\ session' = [session EXCEPT ![s] = NewChat(r)]
                  /\ idle' = [idle EXCEPT ![s] = 0]
             ELSE UNCHANGED <<session, idle>>     \* resume the existing chat
    /\ Finished(r)
    /\ UNCHANGED <<ticket, sends, sweep, crashes>>

-----------------------------------------------------------------------------
(* Messages                                                                 *)

\* send_message loads the chat without a lock and refuses an ended one.
SendLoad(r, a, s) ==
    /\ "send" \in Traffic /\ req[r].pc = "idle"
    /\ sends < MaxMessages
    /\ session[s].status \in Live
    /\ IsParticipant(session[s], a)
    /\ req' = [req EXCEPT ![r] = [NoRequest EXCEPT !.pc = "send", !.op = "send",
                                      !.row = s, !.copy = session[s]]]
    /\ sends' = sends + 1
    /\ UNCHANGED <<ticket, session, idle, sweep, rowLock, crashes>>

\* The flush posts the message, bumps last_activity_at and, when the copy
\* says idle_warning, writes status = 'active'.
SendCommit(r) ==
    LET s == req[r].row
        row == WriteChat(session[s], req[r].copy, "active", req[r].copy.reason)
    IN  /\ req[r].pc = "send"
        /\ rowLock[s] = None
        /\ IF UniqueIndexAdmits(s, row)
           THEN /\ session' = [session EXCEPT ![s] = row]
                /\ idle' = [idle EXCEPT ![s] = 0]
           ELSE UNCHANGED <<session, idle>>
        /\ Finished(r)
        /\ UNCHANGED <<ticket, sends, sweep, crashes>>

-----------------------------------------------------------------------------
(* Ending a chat                                                            *)

\* Mutant: end() loads the chat without FOR UPDATE.
EndWithoutLock(r, a, s, reason) ==
    /\ "end" \in Traffic /\ req[r].pc = "idle"
    /\ session[s].status \in Live
    /\ IsParticipant(session[s], a)
    /\ req' = [req EXCEPT ![r] = [NoRequest EXCEPT !.pc = "end", !.op = "end",
                                      !.row = s, !.copy = session[s],
                                      !.reason = reason]]
    /\ UNCHANGED <<ticket, session, idle, sends, sweep, rowLock, crashes>>

\* end() called by the route: the first load is the locked one.
EndLock(r, a, s, reason) ==
    /\ "end" \in Traffic /\ req[r].pc = "idle"
    /\ rowLock[s] = None
    /\ session[s].status \in Live
    /\ IsParticipant(session[s], a)
    /\ req' = [req EXCEPT ![r] = [NoRequest EXCEPT !.pc = "end", !.op = "end",
                                      !.row = s, !.copy = session[s],
                                      !.reason = reason]]
    /\ rowLock' = [rowLock EXCEPT ![s] = r]
    /\ UNCHANGED <<ticket, session, idle, sends, sweep, crashes>>

EndCommit(r) ==
    LET s == req[r].row
    IN  /\ req[r].pc = "end"
        /\ session' = [session EXCEPT ![s] = EndedChat(@, req[r].copy, req[r].reason)]
        /\ idle' = [idle EXCEPT ![s] = 0]
        /\ Finished(r)
        /\ UNCHANGED <<ticket, sends, sweep, crashes>>

-----------------------------------------------------------------------------
(* Polling: get_state loads unlocked, then applies the idle rules           *)

Poll(r, s) ==
    /\ "poll" \in Traffic /\ req[r].pc = "idle"
    /\ session[s].status \in Live
    /\ \/ idle[s] >= IdleEnd
       \/ idle[s] >= IdleWarning /\ session[s].status = "active"
    /\ req' = [req EXCEPT ![r] =
           [NoRequest EXCEPT !.pc = IF idle[s] >= IdleEnd THEN "timeout" ELSE "warn",
                             !.op = "poll", !.row = s, !.copy = session[s],
                             !.reason = IF idle[s] >= IdleEnd THEN "idle_timeout" ELSE "none"]]
    /\ UNCHANGED <<ticket, session, idle, sends, sweep, rowLock, crashes>>

\* end() takes the row lock, but its select returns the copy it already has.
TimeoutLock(r) ==
    /\ req[r].pc = "timeout"
    /\ rowLock[req[r].row] = None
    /\ req' = [req EXCEPT ![r].pc = "end"]
    /\ rowLock' = [rowLock EXCEPT ![req[r].row] = r]
    /\ UNCHANGED <<ticket, session, idle, sends, sweep, crashes>>

WarnCommit(r) ==
    LET s == req[r].row
        row == WriteChat(session[s], req[r].copy, "idle_warning", req[r].copy.reason)
    IN  /\ req[r].pc = "warn"
        /\ rowLock[s] = None
        /\ IF UniqueIndexAdmits(s, row)
           THEN /\ session' = [session EXCEPT ![s] = row]
                /\ \E age \in 0..IdleEnd :
                      /\ session[s].status \in Live => age = idle[s]
                      /\ idle' = [idle EXCEPT ![s] = age]
           ELSE UNCHANGED <<session, idle>>
        /\ Finished(r)
        /\ UNCHANGED <<ticket, sends, sweep, crashes>>

-----------------------------------------------------------------------------
(* Release and resolve: end the ticket's live chat, then write the ticket   *)

HandBackLoad(r, sp, t, op) ==
    /\ op \in Traffic /\ req[r].pc = "idle"
    /\ ticket[t].assigned = sp
    /\ req' = [req EXCEPT ![r] = [NoRequest EXCEPT !.pc = "find", !.op = op,
                                      !.actor = sp, !.tid = t, !.tcopy = ticket[t],
                                      !.reason = IF op = "resolve" THEN "resolved"
                                                 ELSE "specialist_ended"]]
    /\ UNCHANGED <<ticket, session, idle, sends, sweep, rowLock, crashes>>

\* resolve has changed the ticket by now, and the select of the live chat
\* autoflushes it: the ticket row is locked from here on.
FindChat(r) ==
    LET t == req[r].tid
    IN  /\ req[r].pc = "find"
        /\ IF req[r].op = "resolve"
           THEN rowLock[t] = None /\ rowLock' = [rowLock EXCEPT ![t] = r]
           ELSE UNCHANGED rowLock
        /\ \/ /\ LiveChatOf(t) = {}
              /\ req' = [req EXCEPT ![r].pc = "finish"]
           \/ \E s \in LiveChatOf(t) :
                 req' = [req EXCEPT ![r].pc = "lock", ![r].row = s, ![r].copy = session[s]]
        /\ UNCHANGED <<ticket, session, idle, sends, sweep, crashes>>

\* end(): the lock, then the permission check on the copy.  A chat of another
\* specialist fails the whole transaction.
ChatLock(r) ==
    LET s == req[r].row
    IN  /\ req[r].pc = "lock"
        /\ rowLock[s] = None
        /\ IF IsParticipant(req[r].copy, req[r].actor)
           THEN /\ req' = [req EXCEPT ![r].pc = "finish"]
                /\ rowLock' = [rowLock EXCEPT ![s] = r]
           ELSE Finished(r)
        /\ UNCHANGED <<ticket, session, idle, sends, sweep, crashes>>

HandBackCommit(r) ==
    LET s == req[r].row
        t == req[r].tid
    IN  /\ req[r].pc = "finish"
        /\ Unlocked(t, r)
        /\ IF s = None
           THEN UNCHANGED <<session, idle>>
           ELSE /\ session' = [session EXCEPT ![s] = EndedChat(@, req[r].copy, req[r].reason)]
                /\ idle' = [idle EXCEPT ![s] = 0]
        /\ ticket' = [ticket EXCEPT ![t] = Written(@, req[r])]
        /\ Finished(r)
        /\ UNCHANGED <<sends, sweep, crashes>>

-----------------------------------------------------------------------------
(* The database's deadlock detector, and restarts                           *)

\* The row a request cannot proceed without, when another holds it.
WaitsFor(r) ==
    LET wanted == CASE req[r].pc = "finish" -> req[r].tid
                    [] req[r].pc \in {"send", "timeout", "warn", "lock"} -> req[r].row
                    [] req[r].pc = "write" -> req[r].tid
                    [] req[r].pc = "find" /\ req[r].op = "resolve" -> req[r].tid
                    [] OTHER -> None
    IN  {q \in Requests \ {r} : wanted # None /\ rowLock[wanted] = q}

\* A cycle of waits: the detector aborts one of the two transactions.
DeadlockAbort(r) ==
    /\ \E q \in WaitsFor(r) : r \in WaitsFor(q)
    /\ Finished(r)
    /\ UNCHANGED <<ticket, session, idle, sends, sweep, crashes>>

\* The process dies: nothing in flight commits, every lock is released.
Crash ==
    /\ crashes < MaxCrashes
    /\ crashes' = crashes + 1
    /\ req' = [r \in Requests |-> NoRequest]
    /\ sweep' = [w \in Sweepers |-> NoPass]
    /\ rowLock' = [x \in Tickets \cup Sessions |-> None]
    /\ UNCHANGED <<ticket, session, idle, sends>>

-----------------------------------------------------------------------------
(* Time and the idle sweeper                                                *)

Tick ==
    /\ \E s \in Sessions : session[s].status \in Live /\ idle[s] < IdleEnd
    /\ idle' = [s \in Sessions |-> IF session[s].status \in Live /\ idle[s] < IdleEnd
                                   THEN idle[s] + 1 ELSE idle[s]]
    /\ UNCHANGED <<ticket, session, sends, req, sweep, rowLock, crashes>>

\* Mutant: the sweeper selects the active chats and forgets the warned ones.
StaleActiveOnly ==
    {s \in Sessions :
        session[s].status = "active" /\ idle[s] >= IdleCutoff /\ rowLock[s] = None}

\* SELECT ... FOR UPDATE SKIP LOCKED of the live rows past the cutoff.
Stale == {s \in Sessions :
             session[s].status \in Live /\ idle[s] >= IdleCutoff /\ rowLock[s] = None}

\* evaluate_idle and the branches of the loop over the selected rows.
Verdict(s) ==
    CASE idle[s] >= IdleEnd -> "end"
      [] idle[s] < IdleEnd /\ idle[s] >= IdleWarning /\ session[s].status = "active" -> "warn"
      [] OTHER -> "none"

\* Mutant: the select of the sweeper lost its FOR UPDATE.
SweepWithoutLock(w) ==
    /\ sweep[w] = NoPass
    /\ Stale # {}
    /\ sweep' = [sweep EXCEPT ![w] =
           [s \in Sessions |-> IF s \in Stale
                               THEN [copy |-> session[s], verdict |-> Verdict(s)]
                               ELSE NotSwept]]
    /\ UNCHANGED <<ticket, session, idle, sends, req, rowLock, crashes>>

SweepLock(w) ==
    /\ sweep[w] = NoPass
    /\ Stale # {}
    /\ sweep' = [sweep EXCEPT ![w] =
           [s \in Sessions |-> IF s \in Stale
                               THEN [copy |-> session[s], verdict |-> Verdict(s)]
                               ELSE NotSwept]]
    /\ rowLock' = [x \in Tickets \cup Sessions |-> IF x \in Stale THEN w ELSE rowLock[x]]
    /\ UNCHANGED <<ticket, session, idle, sends, req, crashes>>

\* Mutant: a pass with nothing to write keeps its session open, and its locks.
SweepCommitIfChanged(w) ==
    /\ \E s \in Sessions : sweep[w][s].verdict # "none"
    /\ session' = [s \in Sessions |->
           LET copy == sweep[w][s].copy
           IN  CASE sweep[w][s].verdict = "end" -> EndedChat(session[s], copy, "idle_timeout")
                 [] sweep[w][s].verdict = "warn" ->
                        WriteChat(session[s], copy, "idle_warning", copy.reason)
                 [] OTHER -> session[s]]
    /\ idle' = [s \in Sessions |-> IF sweep[w][s].verdict = "end" THEN 0 ELSE idle[s]]
    /\ sweep' = [sweep EXCEPT ![w] = NoPass]
    /\ rowLock' = [x \in Tickets \cup Sessions |-> IF rowLock[x] = w THEN None ELSE rowLock[x]]
    /\ UNCHANGED <<ticket, sends, req, crashes>>

\* One commit for the whole pass; without anything to write the session closes.
SweepCommit(w) ==
    /\ sweep[w] # NoPass
    /\ session' = [s \in Sessions |->
           LET copy == sweep[w][s].copy
           IN  CASE sweep[w][s].verdict = "end" -> EndedChat(session[s], copy, "idle_timeout")
                 [] sweep[w][s].verdict = "warn" ->
                        WriteChat(session[s], copy, "idle_warning", copy.reason)
                 [] OTHER -> session[s]]
    /\ idle' = [s \in Sessions |-> IF sweep[w][s].verdict = "end" THEN 0 ELSE idle[s]]
    /\ sweep' = [sweep EXCEPT ![w] = NoPass]
    /\ rowLock' = [x \in Tickets \cup Sessions |-> IF rowLock[x] = w THEN None ELSE rowLock[x]]
    /\ UNCHANGED <<ticket, sends, req, crashes>>

-----------------------------------------------------------------------------
(* The specification                                                        *)

Arrive(r) ==
    \/ \E sp \in Specialists, t \in Tickets :
          \/ AssignLoad(r, sp, t)
          \/ StartLoad(r, sp, t)
          \/ \E op \in {"release", "resolve"} : HandBackLoad(r, sp, t, op)
    \/ \E t \in Tickets, op \in {"status", "patch", "close", "reopen"},
          status \in StaffStatuses \cup {"closed", "in_progress"} : StaffLoad(r, t, op, status)
    \/ \E s \in Sessions :
          \/ Poll(r, s)
          \/ \E a \in Specialists \cup {Employee} :
                \/ SendLoad(r, a, s)
                \/ \E reason \in ClientReasons :
                      EndLock(r, a, s, reason)

Proceed(r) ==
    \/ TicketCommit(r) \/ StartInsert(r) \/ SendCommit(r) \/ EndCommit(r)
    \/ TimeoutLock(r) \/ WarnCommit(r) \/ FindChat(r) \/ ChatLock(r)
    \/ HandBackCommit(r) \/ DeadlockAbort(r)

Next ==
    \/ \E sp \in Specialists, t \in Tickets : Claim(sp, t)
    \/ \E r \in Requests : Arrive(r) \/ Proceed(r)
    \/ \E w \in Sweepers : SweepLock(w) \/ SweepCommit(w)
    \/ Tick
    \/ Crash

Spec == Init /\ [][Next]_vars

\* A sweeper pass that gets hold of the lock of chat s.
SweepTakes(w, s) == SweepLock(w) /\ s \in Stale

\* Time passes; a request that arrived is served, and the lock queue lets it
\* through in the end; the sweeper runs every 30 seconds and commits.
Fairness ==
    /\ WF_vars(Tick)
    /\ \A r \in Requests : SF_vars(Proceed(r))
    /\ \A w \in Sweepers : WF_vars(SweepCommit(w))
    /\ \A s \in Sessions : SF_vars(\E w \in Sweepers : SweepTakes(w, s))

FairSpec == Spec /\ Fairness

-----------------------------------------------------------------------------
(* The ticket's slot for one conversation                                   *)

Slot == INSTANCE ChatSlot WITH slot <- [t \in Tickets |-> LiveChatOf(t)]

\* A chat is opened, or made live again, only on a ticket without a live chat.
OpensOnlyEmptySlots == Slot!Spec

-----------------------------------------------------------------------------
(* Properties                                                               *)

\* A ticket never has two live chats: neither concurrent starts nor a write
\* that makes an ended chat live again gets a second one past the index.
OneLiveChatPerTicket ==
    \A s, z \in Sessions :
        /\ s # z
        /\ session[s].ticket = session[z].ticket
        /\ session[s].status \in Live
        => session[z].status \notin Live

\* What the end route and the sweeper act on under the row's lock is the
\* committed row: nothing has changed it since they read it.
LockedCopyIsCurrent ==
    /\ \A r \in Requests : req[r].op = "end" =>
          rowLock[req[r].row] = r /\ session[req[r].row] = req[r].copy
    /\ \A w \in Sweepers, s \in Sessions : sweep[w][s] # NotSwept =>
          rowLock[s] = w /\ session[s] = sweep[w][s].copy

\* The row of an ended chat is written again only by a request that loaded the
\* chat, without a lock, when it was live: a message, a poll, a release or a
\* resolve.  The end route and the sweeper, which lock first, never do it.
EndedRewrittenOnlyByStaleReader ==
    [][\A s \in Sessions :
          session[s].status \in Ended /\ session'[s] # session[s] =>
              \E r \in Requests :
                 /\ req[r].row = s
                 /\ req[r].op \in {"send", "poll", "release", "resolve"}
                 /\ req[r].copy.status \in Live]_vars

\* The sweeper times out only a chat that is live and quiet for IdleEnd when
\* its pass commits: no message slips between its select and its commit.
SweeperTimesOutOnlyQuietChats ==
    [][\A w \in Sweepers, s \in Sessions :
          SweepCommit(w) /\ sweep[w][s].verdict = "end" =>
              session[s].status \in Live /\ idle[s] >= IdleEnd]_vars

\* A specialist who holds a ticket loses it to another one only by an explicit
\* assignment: a claim never takes over a claimed ticket.
TicketChangesHandsOnlyByAssignment ==
    [][\A t \in Tickets :
          /\ ticket[t].assigned # None
          /\ ticket'[t].assigned \notin {None, ticket[t].assigned}
          => \E r \in Requests :
                req[r].op = "assign" /\ req[r].tid = t /\ req[r].actor = ticket'[t].assigned]_vars

\* A request that commits on the ticket, having loaded another state of it.
Overtaken(t) ==
    \E r \in Requests : /\ req[r].tid = t /\ req'[r] # req[r]
                        /\ req[r].tcopy # ticket[t]

\* The resolution of a ticket stands: one that is resolved or closed has its time
\* of resolution, which the SLA reports count by, and goes back to work only by a
\* reopening, a status set by staff or a release.  The exceptions are requests
\* that overlap: a close over a reopening keeps the time that was just cleared,
\* and an assignment that found the ticket new puts a closed one back to triaged.
ResolutionStands ==
    [][\A t \in Tickets :
          /\ (/\ ticket[t].status \notin Resolved \/ ticket[t].stamped
              /\ ticket'[t].status \in Resolved /\ ~ticket'[t].stamped) => Overtaken(t)
          /\ (ticket[t].status \in Resolved /\ ticket'[t].status \notin Resolved) =>
                 \/ Overtaken(t)
                 \/ \E r \in Requests :
                       /\ req[r].tid = t /\ req'[r] # req[r]
                       /\ req[r].op \in {"reopen", "status", "patch", "release"}]_vars

\* A chat that nobody attends to ends: the sweeper ends it even when no tab
\* polls it, and messages that stop coming do not keep it open.
AbandonedChatEnds ==
    \A s \in Sessions : session[s].status \in Live ~> session[s].status \in Ended

\* No request waits for ever: the cycle of row locks that a release and a
\* resolve of one ticket can form is broken.
RequestsFinish ==
    \A r \in Requests : req[r].pc # "idle" ~> req[r].pc = "idle"
=============================================================================
