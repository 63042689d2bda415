--------------------------- MODULE LiveChat_proofs ---------------------------
(***************************************************************************)
(* For every number of tickets, chats, requests and sweepers: LiveChat is  *)
(* type correct, a ticket never has two live chats, what is read under a   *)
(* row lock stays current, an ended chat is rewritten only by a stale      *)
(* reader, a resolution stands, and LiveChat implements ChatSlot.          *)
(***************************************************************************)
EXTENDS LiveChat, TLAPS

(***************************************************************************)
(* The inductive invariant.  A request that is going to write a chat row   *)
(* loaded it live; the end route, a timing-out poll about to commit, and a *)
(* release that found a chat hold the row's lock, and so does a sweeper    *)
(* for every row of its pass.                                              *)
(***************************************************************************)
RequestOK(r) ==
    /\ req[r].pc \in {"send", "end", "timeout", "warn", "lock"} =>
          req[r].row \in Sessions /\ req[r].copy.status \in Live
    /\ req[r].pc = "finish" /\ req[r].row # None =>
          /\ req[r].row \in Sessions /\ req[r].copy.status \in Live
          /\ rowLock[req[r].row] = r
    /\ req[r].pc = "end" => rowLock[req[r].row] = r
    /\ req[r].pc \in {"end", "timeout", "find", "lock", "finish"} => req[r].reason \in EndReasons
    /\ req[r].pc \in {"start", "find", "lock", "finish"} =>
          req[r].tid \in Tickets /\ req[r].actor \in Specialists
    /\ req[r].pc = "write" =>
          /\ req[r].tid \in Tickets
          /\ \/ req[r].op = "assign" /\ req[r].actor \in Specialists
             \/ /\ req[r].op \in {"status", "patch", "close", "reopen"}
                /\ MaySet(req[r].op, req[r].target, req[r].tcopy.status)
    /\ req[r].pc = "find" => req[r].row = None
    /\ req[r].op = "end" => req[r].pc = "end"
    /\ req[r].pc = "send" => req[r].op = "send"
    /\ req[r].pc = "end" => req[r].op \in {"end", "poll"}
    /\ req[r].pc \in {"timeout", "warn"} => req[r].op = "poll"
    /\ req[r].pc \in {"find", "lock", "finish"} => req[r].op \in {"release", "resolve"}

SweepOK(w) ==
    \A s \in Sessions : sweep[w][s].verdict # "none" => sweep[w][s].copy.status \in Live

IInv ==
    /\ TypeOK
    /\ \A r \in Requests : RequestOK(r)
    /\ \A w \in Sweepers : SweepOK(w)
    /\ LockedCopyIsCurrent
    /\ OneLiveChatPerTicket

-----------------------------------------------------------------------------
(* Lemmas about rows, the index and the end of a transaction                *)

(***************************************************************************)
(* A reason of the typed list always gives an ended status.                *)
(***************************************************************************)
LEMMA EndedStatus ==
    ASSUME NEW reason \in EndReasons
    PROVE  StatusForReason(reason) \in Ended
BY DEF StatusForReason, EndReasons, Ended

(***************************************************************************)
(* Ending a chat whose copy is live leaves a well-typed, ended row of the  *)
(* same ticket and specialist, whatever the committed row was.             *)
(***************************************************************************)
LEMMA EndedChatEnds ==
    ASSUME NEW row \in ChatRow, NEW copy \in ChatRow, copy.status \in Live,
           NEW reason \in EndReasons
    PROVE  /\ EndedChat(row, copy, reason) \in ChatRow
           /\ EndedChat(row, copy, reason).status \in Ended
           /\ EndedChat(row, copy, reason).ticket = row.ticket
<1>1. StatusForReason(reason) \in Ended /\ StatusForReason(reason) # copy.status
  BY EndedStatus DEF Ended, Live
<1> QED
  BY <1>1 DEF EndedChat, WriteChat, ChatRow

(***************************************************************************)
(* A write that the unique index admits keeps one live chat per ticket.    *)
(***************************************************************************)
LEMMA AdmittedWrite ==
    ASSUME TypeOK, OneLiveChatPerTicket, NEW s \in Sessions, NEW row \in ChatRow,
           UniqueIndexAdmits(s, row), session' = [session EXCEPT ![s] = row]
    PROVE  OneLiveChatPerTicket'
BY DEF TypeOK, OneLiveChatPerTicket, UniqueIndexAdmits

(***************************************************************************)
(* Finishing touches the request's own slot and its own locks only.        *)
(***************************************************************************)
LEMMA FinishedFrame ==
    ASSUME TypeOK, NEW r \in Requests, Finished(r)
    PROVE  /\ req' \in [Requests -> Request]
           /\ rowLock' \in [Tickets \cup Sessions -> Requests \cup Sweepers \cup {None}]
           /\ req'[r] = NoRequest
           /\ \A q \in Requests \ {r} : req'[q] = req[q]
           /\ \A x \in Tickets \cup Sessions : rowLock[x] # r => rowLock'[x] = rowLock[x]
<1>1. NoRequest \in Request
  BY DEF NoRequest, Request, Phases, AbsentChat, ChatRow, NoTicketCopy, TicketRow,
         TicketStatuses, QueueStatuses, Resolved, EndReasons
<1> QED
  BY <1>1 DEF TypeOK, Finished

(***************************************************************************)
(* A step of one request that respects the other holders' locks preserves  *)
(* the invariant when it does so for that request and for the index.       *)
(***************************************************************************)
LEMMA RequestFrame ==
    ASSUME IInv, NEW r \in Requests, TypeOK', OneLiveChatPerTicket',
           \A q \in Requests \ {r} : req'[q] = req[q],
           sweep' = sweep,
           \A x \in Tickets \cup Sessions : rowLock[x] \notin {None, r} => rowLock'[x] = rowLock[x],
           \A z \in Sessions : rowLock[z] \notin {None, r} => session'[z] = session[z],
           RequestOK(r)',
           req'[r].op = "end" =>
               rowLock'[req'[r].row] = r /\ session'[req'[r].row] = req'[r].copy
    PROVE  IInv'
<1>1. ASSUME NEW q \in Requests
      PROVE  RequestOK(q)'
  <2>1. CASE q = r
    BY <2>1
  <2>2. CASE q # r
    <3>1. req'[q] = req[q] /\ RequestOK(q) /\ q # None
      BY <2>2, IdentityAssumption DEF IInv
    <3>2. req[q].pc \in {"end"} \/ (req[q].pc = "finish" /\ req[q].row # None) =>
             rowLock'[req[q].row] = q
      BY <3>1, <2>2 DEF RequestOK
    <3> QED
      BY <3>1, <3>2 DEF RequestOK
  <2> QED
    BY <2>1, <2>2
<1>2. ASSUME NEW w \in Sweepers
      PROVE  SweepOK(w)'
  BY DEF IInv, SweepOK
<1>3. LockedCopyIsCurrent'
  <2>1. ASSUME NEW q \in Requests, req'[q].op = "end"
        PROVE  rowLock'[req'[q].row] = q /\ session'[req'[q].row] = req'[q].copy
    <3>1. CASE q = r
      BY <3>1, <2>1
    <3>2. CASE q # r
      <4>1. req'[q] = req[q] /\ req[q].op = "end" /\ req[q].row \in Sessions /\ q # None
        BY <3>2, <2>1, IdentityAssumption DEF IInv, RequestOK
      <4>2. rowLock[req[q].row] = q /\ session[req[q].row] = req[q].copy
        BY <4>1 DEF IInv, LockedCopyIsCurrent
      <4> QED
        BY <4>1, <4>2, <3>2
    <3> QED
      BY <3>1, <3>2
  <2>2. ASSUME NEW w \in Sweepers, NEW s \in Sessions, sweep'[w][s] # NotSwept'
        PROVE  rowLock'[s] = w /\ session'[s] = sweep'[w][s].copy
    <3>1. rowLock[s] = w /\ session[s] = sweep[w][s].copy
      BY <2>2 DEF IInv, LockedCopyIsCurrent, NotSwept, AbsentChat
    <3>2. w \notin {None, r}
      BY IdentityAssumption
    <3> QED
      BY <3>1, <3>2
  <2> QED
    BY <2>1, <2>2 DEF LockedCopyIsCurrent
<1> QED
  BY <1>1, <1>2, <1>3 DEF IInv

(***************************************************************************)
(* The empty request record, and what a request loads, are well typed.     *)
(***************************************************************************)
LEMMA EmptyRecords ==
    /\ NoRequest \in Request
    /\ AbsentChat \in ChatRow
    /\ NotSwept \in SweptRow
    /\ NoPass \in [Sessions -> SweptRow]
BY DEF NoRequest, Request, Phases, AbsentChat, ChatRow, NoTicketCopy, TicketRow,
       TicketStatuses, QueueStatuses, Resolved, EndReasons, NotSwept, SweptRow, NoPass

(***************************************************************************)
(* A finished request has nothing left to respect: what remains to show of *)
(* a commit is that the other columns keep their type and that it writes   *)
(* no chat row that another holder has locked.                             *)
(***************************************************************************)
LEMMA FinishedStep ==
    ASSUME IInv, NEW r \in Requests, Finished(r), sweep' = sweep,
           ticket' \in [Tickets -> TicketRow], session' \in [Sessions -> ChatRow],
           idle' \in [Sessions -> 0..IdleEnd], sends' = sends, crashes' = crashes,
           OneLiveChatPerTicket',
           \A z \in Sessions : rowLock[z] \notin {None, r} => session'[z] = session[z]
    PROVE  IInv'
<1>1. /\ req' \in [Requests -> Request]
      /\ rowLock' \in [Tickets \cup Sessions -> Requests \cup Sweepers \cup {None}]
      /\ req'[r] = NoRequest
      /\ \A q \in Requests \ {r} : req'[q] = req[q]
      /\ \A x \in Tickets \cup Sessions : rowLock[x] # r => rowLock'[x] = rowLock[x]
  BY FinishedFrame DEF IInv
<1>2. TypeOK'
  BY <1>1 DEF IInv, TypeOK
<1>3. RequestOK(r)' /\ req'[r].op # "end"
  BY <1>1 DEF RequestOK, NoRequest
<1> QED
  BY <1>1, <1>2, <1>3, RequestFrame

(***************************************************************************)
(* A load, or a lock taken, changes the request and at most one lock.      *)
(***************************************************************************)
LEMMA LoadStep ==
    ASSUME IInv, NEW r \in Requests, NEW loaded \in Request,
           req' = [req EXCEPT ![r] = loaded],
           rowLock' = rowLock \/ \E x \in Tickets \cup Sessions :
               rowLock[x] = None /\ rowLock' = [rowLock EXCEPT ![x] = r],
           UNCHANGED <<ticket, session, idle, sweep, crashes>>, sends' \in 0..MaxMessages,
           RequestOK(r)',
           loaded.op = "end" => rowLock'[loaded.row] = r /\ session[loaded.row] = loaded.copy
    PROVE  IInv'
<1>1. /\ req' \in [Requests -> Request]
      /\ req'[r] = loaded
      /\ \A q \in Requests \ {r} : req'[q] = req[q]
  BY DEF IInv, TypeOK
<1>2. /\ rowLock' \in [Tickets \cup Sessions -> Requests \cup Sweepers \cup {None}]
      /\ \A x \in Tickets \cup Sessions : rowLock[x] \notin {None, r} => rowLock'[x] = rowLock[x]
  BY DEF IInv, TypeOK
<1>3. TypeOK' /\ OneLiveChatPerTicket'
  BY <1>1, <1>2 DEF IInv, TypeOK, OneLiveChatPerTicket
<1> QED
  BY <1>1, <1>2, <1>3, RequestFrame

-----------------------------------------------------------------------------
(* The steps of requests                                                    *)

(***************************************************************************)
(* Arriving requests preserve the invariant.                               *)
(***************************************************************************)
LEMMA ArriveStep ==
    ASSUME IInv, NEW r \in Requests, Arrive(r)
    PROVE  IInv'
<1> USE EmptyRecords
<1>1. ASSUME NEW sp \in Specialists, NEW t \in Tickets, AssignLoad(r, sp, t)
      PROVE  IInv'
  <2> DEFINE loaded == [NoRequest EXCEPT !.pc = "write", !.op = "assign",
                                      !.actor = sp, !.tid = t, !.tcopy = ticket[t]]
  <2>1. loaded \in Request
    BY DEF Request, Phases, IInv, TypeOK
  <2>2. req' = [req EXCEPT ![r] = loaded]
    BY <1>1 DEF AssignLoad
  <2>3. req'[r] = loaded
    BY <2>1, <2>2 DEF IInv, TypeOK
  <2>4. loaded.pc = "write" /\ loaded.op = "assign" /\ loaded.actor = sp /\ loaded.tid = t
    BY DEF NoRequest
  <2>5. RequestOK(r)'
    BY <2>3, <2>4 DEF RequestOK
  <2> HIDE DEF loaded
  <2> QED
    BY <1>1, <2>1, <2>2, <2>4, <2>5, LoadStep DEF AssignLoad, IInv, TypeOK
<1>2. ASSUME NEW sp \in Specialists, NEW t \in Tickets, StartLoad(r, sp, t)
      PROVE  IInv'
  <2> DEFINE loaded == [NoRequest EXCEPT !.pc = "start", !.op = "start",
                                      !.actor = sp, !.tid = t]
  <2>1. loaded \in Request
    BY DEF Request, Phases
  <2>2. req' = [req EXCEPT ![r] = loaded]
    BY <1>2 DEF StartLoad
  <2>3. req'[r] = loaded
    BY <2>1, <2>2 DEF IInv, TypeOK
  <2>4. loaded.pc = "start" /\ loaded.op = "start" /\ loaded.actor = sp /\ loaded.tid = t
    BY DEF NoRequest
  <2>5. RequestOK(r)'
    BY <2>3, <2>4 DEF RequestOK
  <2> HIDE DEF loaded
  <2> QED
    BY <1>2, <2>1, <2>2, <2>4, <2>5, LoadStep DEF StartLoad, IInv, TypeOK
<1>3. ASSUME NEW sp \in Specialists, NEW t \in Tickets, NEW op \in {"release", "resolve"},
             HandBackLoad(r, sp, t, op)
      PROVE  IInv'
  <2> DEFINE why == IF op = "resolve" THEN "resolved" ELSE "specialist_ended"
             loaded == [NoRequest EXCEPT !.pc = "find", !.op = op, !.actor = sp, !.tid = t,
                                      !.tcopy = ticket[t], !.reason = why]
  <2>1. why \in EndReasons
    BY DEF EndReasons
  <2>3. req' = [req EXCEPT ![r] = loaded]
    BY <1>3 DEF HandBackLoad
  <2> HIDE DEF why
  <2>2. loaded \in Request
    BY <2>1 DEF Request, Phases, IInv, TypeOK
  <2>4. req'[r] = loaded
    BY <2>2, <2>3 DEF IInv, TypeOK
  <2>5. /\ loaded.pc = "find" /\ loaded.op = op /\ loaded.actor = sp /\ loaded.tid = t
        /\ loaded.row = None /\ loaded.reason = why
    BY DEF NoRequest
  <2> HIDE DEF why, loaded
  <2>6. RequestOK(r)'
    BY <2>1, <2>4, <2>5 DEF RequestOK
  <2> QED
    BY <1>3, <2>2, <2>3, <2>5, <2>6, LoadStep DEF HandBackLoad, IInv, TypeOK
<1>4. ASSUME NEW s \in Sessions, Poll(r, s)
      PROVE  IInv'
  <2> DEFINE over == idle[s] >= IdleEnd
             phase == IF over THEN "timeout" ELSE "warn"
             why == IF over THEN "idle_timeout" ELSE "none"
             loaded == [NoRequest EXCEPT !.pc = phase, !.op = "poll", !.row = s,
                                         !.copy = session[s], !.reason = why]
  <2>1. /\ phase \in Phases /\ phase \in {"timeout", "warn"}
        /\ why \in EndReasons \cup {"none"}
        /\ phase = "timeout" => why = "idle_timeout"
    BY DEF Phases, EndReasons
  <2>2. req' = [req EXCEPT ![r] = loaded]
    BY <1>4 DEF Poll
  <2> HIDE DEF over, phase, why
  <2>3. loaded \in Request
    BY <2>1 DEF Request, IInv, TypeOK
  <2>4. req'[r] = loaded
    BY <2>3, <2>2 DEF IInv, TypeOK
  <2>5. /\ loaded.pc \in {"timeout", "warn"} /\ loaded.op = "poll"
        /\ loaded.row = s /\ loaded.copy = session[s]
        /\ loaded.pc = "timeout" => loaded.reason = "idle_timeout"
    BY <2>1 DEF NoRequest
  <2> HIDE DEF loaded
  <2>6. RequestOK(r)'
    BY <1>4, <2>4, <2>5 DEF RequestOK, Poll, EndReasons
  <2> QED
    BY <1>4, <2>3, <2>2, <2>5, <2>6, LoadStep DEF Poll, IInv, TypeOK
<1>5. ASSUME NEW s \in Sessions, NEW a \in Specialists \cup {Employee}, SendLoad(r, a, s)
      PROVE  IInv'
  <2> DEFINE loaded == [NoRequest EXCEPT !.pc = "send", !.op = "send",
                                      !.row = s, !.copy = session[s]]
  <2>1. loaded \in Request
    BY DEF Request, Phases, IInv, TypeOK
  <2>2. req' = [req EXCEPT ![r] = loaded]
    BY <1>5 DEF SendLoad
  <2>3. req'[r] = loaded
    BY <2>1, <2>2 DEF IInv, TypeOK
  <2>4. /\ loaded.pc = "send" /\ loaded.op = "send"
        /\ loaded.row = s /\ loaded.copy = session[s]
    BY DEF NoRequest
  <2> HIDE DEF loaded
  <2>5. RequestOK(r)'
    BY <1>5, <2>3, <2>4 DEF RequestOK, SendLoad
  <2>6. sends' \in 0..MaxMessages
    BY <1>5, ThresholdsAssumption DEF SendLoad, IInv, TypeOK
  <2> QED
    BY <1>5, <2>1, <2>2, <2>4, <2>5, <2>6, LoadStep DEF SendLoad
<1>6. ASSUME NEW s \in Sessions, NEW a \in Specialists \cup {Employee},
             NEW reason \in ClientReasons, EndLock(r, a, s, reason)
      PROVE  IInv'
  <2> DEFINE loaded == [NoRequest EXCEPT !.pc = "end", !.op = "end",
                                      !.row = s, !.copy = session[s], !.reason = reason]
  <2>1. reason \in EndReasons
    BY ThresholdsAssumption DEF EndReasons
  <2>2. loaded \in Request
    BY <2>1 DEF Request, Phases, IInv, TypeOK
  <2>3. req' = [req EXCEPT ![r] = loaded]
    BY <1>6 DEF EndLock
  <2>4. req'[r] = loaded
    BY <2>2, <2>3 DEF IInv, TypeOK
  <2>5. /\ loaded.pc = "end" /\ loaded.op = "end" /\ loaded.row = s
        /\ loaded.copy = session[s] /\ loaded.reason = reason
    BY DEF NoRequest
  <2> HIDE DEF loaded
  <2>6. rowLock[s] = None /\ rowLock' = [rowLock EXCEPT ![s] = r] /\ rowLock'[s] = r
    BY <1>6 DEF EndLock, IInv, TypeOK
  <2>7. RequestOK(r)'
    BY <1>6, <2>1, <2>4, <2>5, <2>6 DEF RequestOK, EndLock
  <2>8. sends' \in 0..MaxMessages
    BY <1>6 DEF EndLock, IInv, TypeOK
  <2> QED
    BY <1>6, <2>2, <2>3, <2>5, <2>6, <2>7, <2>8, LoadStep DEF EndLock
<1>7. ASSUME NEW t \in Tickets, NEW op \in {"status", "patch", "close", "reopen"},
             NEW status \in StaffStatuses \cup {"closed", "in_progress"},
             StaffLoad(r, t, op, status)
      PROVE  IInv'
  <2> DEFINE loaded == [NoRequest EXCEPT !.pc = "write", !.op = op, !.tid = t,
                                      !.tcopy = ticket[t], !.target = status]
  <2>1. status \in TicketStatuses
    BY ThresholdsAssumption DEF TicketStatuses, QueueStatuses, Resolved
  <2>2. loaded \in Request
    BY <2>1 DEF Request, Phases, IInv, TypeOK
  <2>3. req' = [req EXCEPT ![r] = loaded]
    BY <1>7 DEF StaffLoad
  <2>4. req'[r] = loaded
    BY <2>2, <2>3 DEF IInv, TypeOK
  <2>5. /\ loaded.pc = "write" /\ loaded.op = op /\ loaded.tid = t
        /\ loaded.tcopy = ticket[t] /\ loaded.target = status
    BY DEF NoRequest
  <2> HIDE DEF loaded
  <2>6. MaySet(loaded.op, loaded.target, loaded.tcopy.status)
    BY <1>7, <2>5 DEF StaffLoad
  <2>7. RequestOK(r)'
    BY <2>4, <2>5, <2>6 DEF RequestOK
  <2> QED
    BY <1>7, <2>2, <2>3, <2>5, <2>7, LoadStep DEF StaffLoad, IInv, TypeOK
<1> QED
  BY <1>1, <1>2, <1>3, <1>4, <1>5, <1>6, <1>7 DEF Arrive

(***************************************************************************)
(* What a flush writes is a well-typed row of the same ticket.             *)
(***************************************************************************)
LEMMA WriteTypes ==
    /\ \A row \in ChatRow, copy \in ChatRow, status \in Live \cup Ended,
          reason \in EndReasons \cup {"none"} :
          WriteChat(row, copy, status, reason) \in ChatRow
    /\ \A row \in TicketRow, copy \in TicketRow, sp \in Specialists \cup {None},
          status \in TicketStatuses, stamp \in {"now", "null", "keep"} :
          WriteTicket(row, copy, sp, status, stamp) \in TicketRow
<1>1. ASSUME NEW row \in ChatRow, NEW copy \in ChatRow, NEW status \in Live \cup Ended,
             NEW reason \in EndReasons \cup {"none"}
      PROVE  WriteChat(row, copy, status, reason) \in ChatRow
  <2>1. CASE status = copy.status /\ reason = copy.reason
    BY <2>1 DEF WriteChat, ChatRow
  <2>2. CASE status # copy.status /\ reason = copy.reason
    BY <2>2 DEF WriteChat, ChatRow
  <2>3. CASE status = copy.status /\ reason # copy.reason
    BY <2>3 DEF WriteChat, ChatRow
  <2>4. CASE status # copy.status /\ reason # copy.reason
    BY <2>4 DEF WriteChat, ChatRow
  <2> QED
    BY <2>1, <2>2, <2>3, <2>4
<1>2. ASSUME NEW row \in TicketRow, NEW copy \in TicketRow, NEW sp \in Specialists \cup {None},
             NEW status \in TicketStatuses, NEW stamp \in {"now", "null", "keep"}
      PROVE  WriteTicket(row, copy, sp, status, stamp) \in TicketRow
  <2> DEFINE owner == IF sp = copy.assigned THEN row.assigned ELSE sp
             state == IF status = copy.status THEN row.status ELSE status
             stamped == stamp = "now" \/ (row.stamped /\ stamp # "null")
  <2>1. owner \in Specialists \cup {None} /\ state \in TicketStatuses
    BY DEF TicketRow
  <2>2. stamped \in BOOLEAN
    OBVIOUS
  <2>3. WriteTicket(row, copy, sp, status, stamp) =
           [assigned |-> owner, status |-> state, stamped |-> stamped]
    BY DEF WriteTicket
  <2> HIDE DEF owner, state, stamped
  <2> QED
    BY <2>1, <2>2, <2>3 DEF TicketRow
<1> QED
  BY <1>1, <1>2

(***************************************************************************)
(* What the committing requests write into the ticket is well typed: an    *)
(* assignment a specialist, a staff operation a status that it may set.    *)
(***************************************************************************)
LEMMA WrittenType ==
    ASSUME NEW r \in Requests, TypeOK, RequestOK(r), req[r].pc \in {"write", "finish"},
           NEW row \in TicketRow
    PROVE  Written(row, req[r]) \in TicketRow
<1>1. /\ req[r].tcopy \in TicketRow
      /\ req[r].tcopy.assigned \in Specialists \cup {None}
      /\ req[r].tcopy.status \in TicketStatuses
      /\ req[r].target \in TicketStatuses \cup {"none"}
  BY DEF TypeOK, Request, TicketRow
<1>2. Assigned(req[r]) \in Specialists \cup {None}
  BY <1>1 DEF Assigned, RequestOK
<1>3. Status(req[r]) \in TicketStatuses
  <2>1. {"triaged", "resolved", "in_progress", "closed"} \cup StaffStatuses \subseteq TicketStatuses
    BY ThresholdsAssumption DEF TicketStatuses, QueueStatuses, Resolved
  <2> QED
    BY <1>1, <2>1 DEF Status, RequestOK, MaySet
<1>4. Stamp(req[r]) \in {"now", "null", "keep"}
  BY DEF Stamp
<1> QED
  BY <1>1, <1>2, <1>3, <1>4, WriteTypes DEF Written

(***************************************************************************)
(* A chat row that ends can only help the unique index.                    *)
(***************************************************************************)
LEMMA EndedWrite ==
    ASSUME TypeOK, OneLiveChatPerTicket, NEW s \in Sessions, NEW row \in ChatRow,
           row.status \in Ended, session' = [session EXCEPT ![s] = row]
    PROVE  OneLiveChatPerTicket'
<1>1. UniqueIndexAdmits(s, row)
  BY DEF UniqueIndexAdmits, Live, Ended
<1> QED
  BY <1>1, AdmittedWrite

(***************************************************************************)
(* The later steps of requests preserve the invariant.                     *)
(***************************************************************************)
LEMMA ProceedStep ==
    ASSUME IInv, NEW r \in Requests, Proceed(r)
    PROVE  IInv'
<1>0. /\ TypeOK /\ OneLiveChatPerTicket /\ RequestOK(r) /\ req[r] \in Request
      /\ req[r].copy \in ChatRow /\ req[r].tcopy \in TicketRow
      /\ req[r].reason \in EndReasons \cup {"none"}
  BY DEF IInv, TypeOK, Request
<1>1. CASE TicketCommit(r)
  <2> DEFINE row == Written(ticket[req[r].tid], req[r])
  <2>1. req[r].tid \in Tickets /\ req[r].pc = "write"
    BY <1>0, <1>1 DEF RequestOK, TicketCommit
  <2>2. row \in TicketRow
    BY <1>0, <2>1, WrittenType DEF TypeOK
  <2>3. ticket' = [ticket EXCEPT ![req[r].tid] = row]
    BY <1>1 DEF TicketCommit
  <2>4. ticket' \in [Tickets -> TicketRow]
    <3> HIDE DEF row
    <3> QED
      BY <1>0, <2>2, <2>3 DEF TypeOK
  <2> QED
    BY <1>0, <1>1, <2>4, FinishedStep DEF TicketCommit, TypeOK, OneLiveChatPerTicket
<1>2. CASE StartInsert(r)
  <2>1. NewChat(r) \in ChatRow
    BY <1>0, <1>2 DEF RequestOK, StartInsert, NewChat, ChatRow, Live
  <2>2. PICK s \in Sessions :
           /\ rowLock[s] = None
           /\ \/ /\ UniqueIndexAdmits(s, NewChat(r))
                 /\ session' = [session EXCEPT ![s] = NewChat(r)]
                 /\ idle' = [idle EXCEPT ![s] = 0]
              \/ UNCHANGED <<session, idle>>
    BY <1>2 DEF StartInsert
  <2>3. OneLiveChatPerTicket'
    BY <1>0, <2>1, <2>2, AdmittedWrite DEF OneLiveChatPerTicket
  <2>4. session' \in [Sessions -> ChatRow] /\ idle' \in [Sessions -> 0..IdleEnd]
    BY <1>0, <2>1, <2>2, ThresholdsAssumption DEF TypeOK
  <2>5. \A z \in Sessions : rowLock[z] \notin {None, r} => session'[z] = session[z]
    BY <1>0, <2>2 DEF TypeOK
  <2> QED
    BY <1>0, <1>2, <2>3, <2>4, <2>5, FinishedStep DEF StartInsert, TypeOK
<1>3. CASE SendCommit(r)
  <2> DEFINE row == WriteChat(session[req[r].row], req[r].copy, "active", req[r].copy.reason)
  <2>1. req[r].row \in Sessions
    BY <1>0, <1>3 DEF RequestOK, SendCommit
  <2>2. row \in ChatRow
    BY <1>0, <2>1, WriteTypes DEF TypeOK, ChatRow, Live
  <2>3. /\ rowLock[req[r].row] = None
        /\ \/ /\ UniqueIndexAdmits(req[r].row, row)
              /\ session' = [session EXCEPT ![req[r].row] = row]
              /\ idle' = [idle EXCEPT ![req[r].row] = 0]
           \/ UNCHANGED <<session, idle>>
    BY <1>3 DEF SendCommit
  <2> HIDE DEF row
  <2>4. OneLiveChatPerTicket'
    BY <1>0, <2>1, <2>2, <2>3, AdmittedWrite DEF OneLiveChatPerTicket
  <2>5. session' \in [Sessions -> ChatRow] /\ idle' \in [Sessions -> 0..IdleEnd]
    BY <1>0, <2>1, <2>2, <2>3, ThresholdsAssumption DEF TypeOK
  <2>6. \A z \in Sessions : rowLock[z] \notin {None, r} => session'[z] = session[z]
    BY <1>0, <2>3 DEF TypeOK
  <2> QED
    BY <1>0, <1>3, <2>4, <2>5, <2>6, FinishedStep DEF SendCommit, TypeOK
<1>4. CASE EndCommit(r)
  <2> DEFINE s == req[r].row
             row == EndedChat(session[s], req[r].copy, req[r].reason)
  <2>1. /\ s \in Sessions /\ rowLock[s] = r
        /\ req[r].copy.status \in Live /\ req[r].reason \in EndReasons
    BY <1>0, <1>4 DEF RequestOK, EndCommit
  <2>2. row \in ChatRow /\ row.status \in Ended
    BY <1>0, <2>1, EndedChatEnds DEF TypeOK
  <2>3. session' = [session EXCEPT ![s] = row] /\ idle' = [idle EXCEPT ![s] = 0]
    BY <1>4 DEF EndCommit
  <2> HIDE DEF row
  <2>4. OneLiveChatPerTicket'
    BY <1>0, <2>1, <2>2, <2>3, EndedWrite
  <2>5. session' \in [Sessions -> ChatRow] /\ idle' \in [Sessions -> 0..IdleEnd]
    <3>1. 0 \in 0..IdleEnd
      BY ThresholdsAssumption
    <3> QED
      BY <1>0, <2>1, <2>2, <2>3, <3>1 DEF TypeOK
  <2>6. \A z \in Sessions : rowLock[z] \notin {None, r} => session'[z] = session[z]
    BY <1>0, <2>1, <2>3 DEF TypeOK
  <2> QED
    BY <1>0, <1>4, <2>4, <2>5, <2>6, FinishedStep DEF EndCommit, TypeOK
<1>5. CASE TimeoutLock(r)
  <2> DEFINE loaded == [req[r] EXCEPT !.pc = "end"]
  <2>1. req[r].row \in Sessions /\ req[r].pc = "timeout" /\ req[r].op = "poll"
    BY <1>0, <1>5 DEF RequestOK, TimeoutLock
  <2>2. loaded \in Request
    BY <1>0 DEF Request, Phases
  <2>3. /\ loaded.pc = "end" /\ loaded.op = "poll" /\ loaded.row = req[r].row
        /\ loaded.copy = req[r].copy /\ loaded.reason = req[r].reason
    BY <1>0, <2>1 DEF Request
  <2>4. req' = [req EXCEPT ![r] = loaded] /\ req'[r] = loaded
    BY <1>0, <1>5 DEF TimeoutLock, TypeOK
  <2>5. /\ rowLock[req[r].row] = None
        /\ rowLock' = [rowLock EXCEPT ![req[r].row] = r] /\ rowLock'[req[r].row] = r
    BY <1>0, <1>5, <2>1 DEF TimeoutLock, TypeOK
  <2> HIDE DEF loaded
  <2>6. RequestOK(r)'
    BY <1>0, <2>1, <2>3, <2>4, <2>5 DEF RequestOK
  <2> QED
    BY <1>0, <1>5, <2>1, <2>2, <2>3, <2>4, <2>5, <2>6, LoadStep DEF TimeoutLock, TypeOK
<1>6. CASE WarnCommit(r)
  <2> DEFINE row == WriteChat(session[req[r].row], req[r].copy, "idle_warning", req[r].copy.reason)
  <2>1. req[r].row \in Sessions
    BY <1>0, <1>6 DEF RequestOK, WarnCommit
  <2>2. row \in ChatRow
    BY <1>0, <2>1, WriteTypes DEF TypeOK, ChatRow, Live
  <2>3. PICK age \in 0..IdleEnd :
           /\ rowLock[req[r].row] = None
           /\ \/ /\ UniqueIndexAdmits(req[r].row, row)
                 /\ session' = [session EXCEPT ![req[r].row] = row]
                 /\ idle' = [idle EXCEPT ![req[r].row] = age]
              \/ UNCHANGED <<session, idle>>
    <3>1. 0 \in 0..IdleEnd
      BY ThresholdsAssumption
    <3> QED
      BY <1>6, <3>1 DEF WarnCommit
  <2> HIDE DEF row
  <2>4. OneLiveChatPerTicket'
    BY <1>0, <2>1, <2>2, <2>3, AdmittedWrite DEF OneLiveChatPerTicket
  <2>5. session' \in [Sessions -> ChatRow] /\ idle' \in [Sessions -> 0..IdleEnd]
    BY <1>0, <2>1, <2>2, <2>3 DEF TypeOK
  <2>6. \A z \in Sessions : rowLock[z] \notin {None, r} => session'[z] = session[z]
    BY <1>0, <2>3 DEF TypeOK
  <2> QED
    BY <1>0, <1>6, <2>4, <2>5, <2>6, FinishedStep DEF WarnCommit, TypeOK
<1>7. CASE FindChat(r)
  <2>1. /\ req[r].pc = "find" /\ req[r].tid \in Tickets /\ req[r].row = None
        /\ req[r].actor \in Specialists /\ req[r].reason \in EndReasons
        /\ req[r].op \in {"release", "resolve"}
    BY <1>0, <1>7 DEF RequestOK, FindChat
  <2>2. rowLock' = rowLock \/ (rowLock[req[r].tid] = None
                                /\ rowLock' = [rowLock EXCEPT ![req[r].tid] = r])
    BY <1>7 DEF FindChat
  <2>3. CASE req' = [req EXCEPT ![r].pc = "finish"]
    <3> DEFINE loaded == [req[r] EXCEPT !.pc = "finish"]
    <3>1. loaded \in Request
      BY <1>0 DEF Request, Phases
    <3>2. /\ loaded.pc = "finish" /\ loaded.op = req[r].op /\ loaded.row = None
          /\ loaded.tid = req[r].tid /\ loaded.actor = req[r].actor
          /\ loaded.reason = req[r].reason
      BY <1>0, <2>1 DEF Request
    <3>3. req' = [req EXCEPT ![r] = loaded] /\ req'[r] = loaded
      BY <1>0, <2>3 DEF TypeOK
    <3> HIDE DEF loaded
    <3>4. RequestOK(r)'
      BY <2>1, <3>2, <3>3 DEF RequestOK
    <3> QED
      BY <1>0, <1>7, <2>1, <2>2, <3>1, <3>2, <3>3, <3>4, LoadStep DEF FindChat, TypeOK
  <2>4. ASSUME NEW s \in LiveChatOf(req[r].tid),
               req' = [req EXCEPT ![r].pc = "lock", ![r].row = s, ![r].copy = session[s]]
        PROVE  IInv'
    <3> DEFINE loaded == [req[r] EXCEPT !.pc = "lock", !.row = s, !.copy = session[s]]
    <3>1. s \in Sessions /\ session[s].status \in Live /\ session[s] \in ChatRow
      BY <1>0, <2>4 DEF LiveChatOf, TypeOK
    <3>2. loaded \in Request
      BY <1>0, <3>1 DEF Request, Phases
    <3>3. /\ loaded.pc = "lock" /\ loaded.op = req[r].op /\ loaded.row = s
          /\ loaded.tid = req[r].tid /\ loaded.actor = req[r].actor
          /\ loaded.reason = req[r].reason /\ loaded.copy = session[s]
      BY <1>0 DEF Request
    <3>4. req' = [req EXCEPT ![r] = loaded] /\ req'[r] = loaded
      BY <1>0, <2>4 DEF TypeOK
    <3> HIDE DEF loaded
    <3>5. RequestOK(r)'
      BY <2>1, <3>1, <3>3, <3>4 DEF RequestOK
    <3> QED
      BY <1>0, <1>7, <2>1, <2>2, <3>2, <3>3, <3>4, <3>5, LoadStep DEF FindChat, TypeOK
  <2> QED
    BY <1>7, <2>3, <2>4 DEF FindChat
<1>8. CASE ChatLock(r)
  <2>1. /\ req[r].pc = "lock" /\ req[r].tid \in Tickets /\ req[r].row \in Sessions
        /\ req[r].actor \in Specialists /\ req[r].reason \in EndReasons
        /\ req[r].op \in {"release", "resolve"} /\ req[r].copy.status \in Live
    BY <1>0, <1>8 DEF RequestOK, ChatLock
  <2>2. CASE IsParticipant(req[r].copy, req[r].actor)
    <3> DEFINE loaded == [req[r] EXCEPT !.pc = "finish"]
    <3>1. loaded \in Request
      BY <1>0 DEF Request, Phases
    <3>2. /\ loaded.pc = "finish" /\ loaded.op = req[r].op /\ loaded.row = req[r].row
          /\ loaded.tid = req[r].tid /\ loaded.actor = req[r].actor
          /\ loaded.reason = req[r].reason /\ loaded.copy = req[r].copy
      BY <1>0 DEF Request
    <3>3. req' = [req EXCEPT ![r] = loaded] /\ req'[r] = loaded
      BY <1>0, <1>8, <2>2 DEF ChatLock, TypeOK
    <3>4. /\ rowLock[req[r].row] = None
          /\ rowLock' = [rowLock EXCEPT ![req[r].row] = r] /\ rowLock'[req[r].row] = r
      BY <1>0, <1>8, <2>1, <2>2 DEF ChatLock, TypeOK
    <3> HIDE DEF loaded
    <3>5. RequestOK(r)'
      BY <2>1, <3>2, <3>3, <3>4 DEF RequestOK
    <3> QED
      BY <1>0, <1>8, <2>1, <3>1, <3>2, <3>3, <3>4, <3>5, LoadStep DEF ChatLock, TypeOK
  <2>3. CASE ~IsParticipant(req[r].copy, req[r].actor)
    BY <1>0, <1>8, <2>3, FinishedStep DEF ChatLock, TypeOK, OneLiveChatPerTicket
  <2> QED
    BY <2>2, <2>3
<1>9. CASE HandBackCommit(r)
  <2> DEFINE s == req[r].row
             row == EndedChat(session[s], req[r].copy, req[r].reason)
             handed == Written(ticket[req[r].tid], req[r])
  <2>1. /\ req[r].pc = "finish" /\ req[r].tid \in Tickets
        /\ req[r].reason \in EndReasons
        /\ s # None => s \in Sessions /\ rowLock[s] = r /\ req[r].copy.status \in Live
    BY <1>0, <1>9 DEF RequestOK, HandBackCommit
  <2>2. handed \in TicketRow
    BY <1>0, <2>1, WrittenType DEF TypeOK
  <2>3. ticket' = [ticket EXCEPT ![req[r].tid] = handed]
    BY <1>9 DEF HandBackCommit
  <2>4. ticket' \in [Tickets -> TicketRow]
    <3> HIDE DEF handed
    <3> QED
      BY <1>0, <2>2, <2>3 DEF TypeOK
  <2>5. CASE s = None
    BY <1>0, <1>9, <2>4, <2>5, FinishedStep DEF HandBackCommit, TypeOK, OneLiveChatPerTicket
  <2>6. CASE s # None
    <3>1. row \in ChatRow /\ row.status \in Ended
      BY <1>0, <2>1, <2>6, EndedChatEnds DEF TypeOK
    <3>2. session' = [session EXCEPT ![s] = row] /\ idle' = [idle EXCEPT ![s] = 0]
      BY <1>9, <2>6 DEF HandBackCommit
    <3> HIDE DEF row
    <3>3. OneLiveChatPerTicket'
      BY <1>0, <2>1, <2>6, <3>1, <3>2, EndedWrite
    <3>4. session' \in [Sessions -> ChatRow] /\ idle' \in [Sessions -> 0..IdleEnd]
      <4>1. 0 \in 0..IdleEnd
        BY ThresholdsAssumption
      <4> QED
        BY <1>0, <2>1, <2>6, <3>1, <3>2, <4>1 DEF TypeOK
    <3>5. \A z \in Sessions : rowLock[z] \notin {None, r} => session'[z] = session[z]
      BY <1>0, <2>1, <2>6, <3>2 DEF TypeOK
    <3> QED
      BY <1>0, <1>9, <2>4, <3>3, <3>4, <3>5, FinishedStep DEF HandBackCommit, TypeOK
  <2> QED
    BY <2>5, <2>6
<1>10. CASE DeadlockAbort(r)
  BY <1>0, <1>10, FinishedStep DEF DeadlockAbort, TypeOK, OneLiveChatPerTicket
<1> QED
  BY <1>1, <1>2, <1>3, <1>4, <1>5, <1>6, <1>7, <1>8, <1>9, <1>10 DEF Proceed

-----------------------------------------------------------------------------
(* The other steps                                                          *)

(***************************************************************************)
(* A sweeper's pass locks free rows and remembers them as they are.        *)
(***************************************************************************)
LEMMA SweepLockStep ==
    ASSUME IInv, NEW w \in Sweepers, SweepLock(w)
    PROVE  IInv'
<1> USE EmptyRecords
<1> DEFINE pass == [s \in Sessions |-> IF s \in Stale
                               THEN [copy |-> session[s], verdict |-> Verdict(s)]
                               ELSE NotSwept]
<1>1. /\ sweep' = [sweep EXCEPT ![w] = pass]
      /\ rowLock' = [x \in Tickets \cup Sessions |-> IF x \in Stale THEN w ELSE rowLock[x]]
      /\ UNCHANGED <<ticket, session, idle, sends, req, crashes>>
  BY DEF SweepLock
<1>2. \A s \in Stale : s \in Sessions /\ session[s].status \in Live /\ rowLock[s] = None
  BY DEF Stale
<1>3. \A s \in Sessions : Verdict(s) \in {"none", "end", "warn"}
  BY DEF Verdict
<1>4. pass \in [Sessions -> SweptRow]
  BY <1>3 DEF SweptRow, IInv, TypeOK
<1>5. /\ \A s \in Sessions : pass[s].verdict # "none" => s \in Stale
      /\ \A s \in Stale : pass[s].copy = session[s]
      /\ \A s \in Sessions : pass[s] # NotSwept => s \in Stale
  BY <1>2 DEF NotSwept
<1> HIDE DEF pass
<1>6. /\ sweep'[w] = pass
      /\ \A v \in Sweepers \ {w} : sweep'[v] = sweep[v]
      /\ \A s \in Stale : rowLock'[s] = w
      /\ \A x \in Tickets \cup Sessions : rowLock[x] # None => rowLock'[x] = rowLock[x]
  BY <1>1, <1>2, <1>4 DEF IInv, TypeOK
<1>7. TypeOK' /\ OneLiveChatPerTicket'
  BY <1>1, <1>4 DEF IInv, TypeOK, OneLiveChatPerTicket
<1>8. ASSUME NEW r \in Requests
      PROVE  RequestOK(r)'
  <2>1. req'[r] = req[r] /\ RequestOK(r) /\ r # None
    BY <1>1, IdentityAssumption DEF IInv
  <2>2. (req[r].pc = "end" \/ (req[r].pc = "finish" /\ req[r].row # None)) =>
           rowLock'[req[r].row] = r
    BY <1>6, <2>1 DEF RequestOK
  <2> QED
    BY <2>1, <2>2 DEF RequestOK
<1>9. ASSUME NEW v \in Sweepers
      PROVE  SweepOK(v)'
  BY <1>2, <1>5, <1>6 DEF IInv, SweepOK
<1>10. LockedCopyIsCurrent'
  <2>1. ASSUME NEW r \in Requests, req'[r].op = "end"
        PROVE  rowLock'[req'[r].row] = r /\ session'[req'[r].row] = req'[r].copy
    <3>1. req[r].op = "end" /\ req[r].row \in Sessions /\ r # None
      BY <1>1, <2>1, IdentityAssumption DEF IInv, RequestOK
    <3>2. rowLock[req[r].row] = r /\ session[req[r].row] = req[r].copy
      BY <3>1 DEF IInv, LockedCopyIsCurrent
    <3> QED
      BY <1>1, <1>6, <3>1, <3>2
  <2>2. ASSUME NEW v \in Sweepers, NEW s \in Sessions, sweep'[v][s] # NotSwept'
        PROVE  rowLock'[s] = v /\ session'[s] = sweep'[v][s].copy
    <3>1. CASE v = w
      BY <1>1, <1>5, <1>6, <2>2, <3>1 DEF NotSwept, AbsentChat
    <3>2. CASE v # w
      <4>1. rowLock[s] = v /\ session[s] = sweep[v][s].copy /\ v # None
        BY <1>6, <2>2, <3>2, IdentityAssumption
           DEF IInv, LockedCopyIsCurrent, NotSwept, AbsentChat
      <4> QED
        BY <1>1, <1>6, <3>2, <4>1
    <3> QED
      BY <3>1, <3>2
  <2> QED
    BY <2>1, <2>2 DEF LockedCopyIsCurrent
<1> QED
  BY <1>7, <1>8, <1>9, <1>10 DEF IInv

(***************************************************************************)
(* The sweeper's commit writes only rows that it has locked, and on those  *)
(* what it read is what is there.                                          *)
(***************************************************************************)
LEMMA SweepCommitRows ==
    ASSUME IInv, NEW w \in Sweepers, SweepCommit(w), NEW s \in Sessions
    PROVE  /\ session'[s] \in ChatRow
           /\ session'[s].ticket = session[s].ticket
           /\ session'[s].status \in Live => session[s].status \in Live
           /\ session'[s] # session[s] => rowLock[s] = w /\ session[s].status \in Live
<1> DEFINE copy == sweep[w][s].copy
           verdict == sweep[w][s].verdict
<1>1. copy \in ChatRow /\ session[s] \in ChatRow
  BY DEF IInv, TypeOK, SweptRow
<1>2. verdict # "none" =>
         rowLock[s] = w /\ session[s] = copy /\ copy.status \in Live
  BY DEF IInv, SweepOK, LockedCopyIsCurrent, NotSwept
<1>3. CASE verdict = "end"
  <2>1. session'[s] = EndedChat(session[s], copy, "idle_timeout")
    BY <1>3 DEF SweepCommit
  <2>2. "idle_timeout" \in EndReasons
    BY DEF EndReasons
  <2> QED
    BY <1>1, <1>2, <1>3, <2>1, <2>2, EndedChatEnds DEF Live, Ended
<1>4. CASE verdict = "warn"
  <2>1. session'[s] = WriteChat(session[s], copy, "idle_warning", copy.reason)
    BY <1>4 DEF SweepCommit
  <2>2. copy.reason \in EndReasons \cup {"none"}
    BY <1>1 DEF ChatRow
  <2>3. session'[s] \in ChatRow
    BY <1>1, <2>1, <2>2, WriteTypes DEF Live
  <2>4. session'[s].ticket = session[s].ticket
    BY <1>1, <2>1 DEF WriteChat, ChatRow
  <2> QED
    BY <1>2, <1>4, <2>3, <2>4
<1>5. CASE verdict \notin {"end", "warn"}
  <2>1. session'[s] = session[s]
    BY <1>5 DEF SweepCommit
  <2> QED
    BY <1>1, <2>1
<1> QED
  BY <1>3, <1>4, <1>5

(***************************************************************************)
(* The sweeper's commit preserves the invariant.                           *)
(***************************************************************************)
LEMMA SweepCommitStep ==
    ASSUME IInv, NEW w \in Sweepers, SweepCommit(w)
    PROVE  IInv'
<1> USE EmptyRecords
<1>1. /\ sweep' = [sweep EXCEPT ![w] = NoPass]
      /\ rowLock' = [x \in Tickets \cup Sessions |-> IF rowLock[x] = w THEN None ELSE rowLock[x]]
      /\ UNCHANGED <<ticket, sends, req, crashes>>
  BY DEF SweepCommit
<1>2. session' \in [Sessions -> ChatRow]
  <2>1. DOMAIN session' = Sessions /\ session' = [s \in DOMAIN session' |-> session'[s]]
    BY DEF SweepCommit
  <2> QED
    BY <2>1, SweepCommitRows
<1>3. idle' \in [Sessions -> 0..IdleEnd]
  <2>1. 0 \in 0..IdleEnd
    BY ThresholdsAssumption
  <2> QED
    BY <2>1 DEF SweepCommit, IInv, TypeOK
<1>4. TypeOK'
  BY <1>1, <1>2, <1>3 DEF IInv, TypeOK
<1>5. OneLiveChatPerTicket'
  BY SweepCommitRows DEF IInv, OneLiveChatPerTicket
<1>6. /\ sweep'[w] = NoPass
      /\ \A v \in Sweepers \ {w} : sweep'[v] = sweep[v]
      /\ \A x \in Tickets \cup Sessions : rowLock[x] # w => rowLock'[x] = rowLock[x]
      /\ \A s \in Sessions : rowLock[s] # w => session'[s] = session[s]
  BY <1>1, SweepCommitRows DEF IInv, TypeOK
<1>7. ASSUME NEW r \in Requests
      PROVE  RequestOK(r)'
  <2>1. req'[r] = req[r] /\ RequestOK(r) /\ r # w
    BY <1>1, IdentityAssumption DEF IInv
  <2>2. (req[r].pc = "end" \/ (req[r].pc = "finish" /\ req[r].row # None)) =>
           rowLock'[req[r].row] = r
    BY <1>6, <2>1 DEF RequestOK
  <2> QED
    BY <2>1, <2>2 DEF RequestOK
<1>8. ASSUME NEW v \in Sweepers
      PROVE  SweepOK(v)'
  BY <1>6 DEF IInv, SweepOK, NoPass, NotSwept
<1>9. LockedCopyIsCurrent'
  <2>1. ASSUME NEW r \in Requests, req'[r].op = "end"
        PROVE  rowLock'[req'[r].row] = r /\ session'[req'[r].row] = req'[r].copy
    <3>1. req[r].op = "end" /\ req[r].row \in Sessions /\ r # w
      BY <1>1, <2>1, IdentityAssumption DEF IInv, RequestOK
    <3>2. rowLock[req[r].row] = r /\ session[req[r].row] = req[r].copy
      BY <3>1 DEF IInv, LockedCopyIsCurrent
    <3> QED
      BY <1>1, <1>6, <3>1, <3>2
  <2>2. ASSUME NEW v \in Sweepers, NEW s \in Sessions, sweep'[v][s] # NotSwept'
        PROVE  rowLock'[s] = v /\ session'[s] = sweep'[v][s].copy
    <3>1. v # w
      BY <1>6, <2>2 DEF NoPass, NotSwept, AbsentChat
    <3>2. rowLock[s] = v /\ session[s] = sweep[v][s].copy
      BY <1>6, <2>2, <3>1 DEF IInv, LockedCopyIsCurrent, NotSwept, AbsentChat
    <3> QED
      BY <1>6, <3>1, <3>2
  <2> QED
    BY <2>1, <2>2 DEF LockedCopyIsCurrent
<1> QED
  BY <1>4, <1>5, <1>7, <1>8, <1>9 DEF IInv

(***************************************************************************)
(* The invariant holds initially.                                          *)
(***************************************************************************)
LEMMA InitInvariant == Init => IInv
<1> SUFFICES ASSUME Init PROVE IInv
  OBVIOUS
<1> USE EmptyRecords
<1>1. TypeOK
  <2>1. 0 \in 0..IdleEnd /\ 0 \in 0..MaxMessages /\ 0 \in 0..MaxCrashes
    BY ThresholdsAssumption
  <2>2. [assigned : {None}, status : {"new", "triaged"}, stamped : {FALSE}] \subseteq TicketRow
    BY DEF TicketRow, TicketStatuses, QueueStatuses
  <2> QED
    BY <2>1, <2>2 DEF Init, TypeOK
<1>2. \A r \in Requests : RequestOK(r)
  BY DEF Init, RequestOK, NoRequest
<1>3. (\A w \in Sweepers : SweepOK(w)) /\ LockedCopyIsCurrent /\ OneLiveChatPerTicket
  BY DEF Init, SweepOK, NoPass, NotSwept, NoRequest, AbsentChat, LockedCopyIsCurrent,
         OneLiveChatPerTicket, Live
<1> QED
  BY <1>1, <1>2, <1>3 DEF IInv

(***************************************************************************)
(* Every step preserves the invariant.                                     *)
(***************************************************************************)
LEMMA NextInvariant == IInv /\ [Next]_vars => IInv'
<1> SUFFICES ASSUME IInv, [Next]_vars PROVE IInv'
  OBVIOUS
<1> USE EmptyRecords
<1>1. ASSUME NEW sp \in Specialists, NEW t \in Tickets, Claim(sp, t)
      PROVE  IInv'
  <2> DEFINE claimed == [ticket[t] EXCEPT !.assigned = sp, !.status = "in_progress"]
  <2>1. claimed \in TicketRow
    BY DEF IInv, TypeOK, TicketRow, TicketStatuses, QueueStatuses
  <2>2. ticket' = [ticket EXCEPT ![t] = claimed]
    BY <1>1 DEF Claim, IInv, TypeOK
  <2> HIDE DEF claimed
  <2>3. /\ ticket' \in [Tickets -> TicketRow]
        /\ UNCHANGED <<session, idle, sends, req, sweep, rowLock, crashes>>
    BY <1>1, <2>1, <2>2 DEF Claim, IInv, TypeOK
  <2>4. TypeOK' /\ OneLiveChatPerTicket' /\ LockedCopyIsCurrent'
    BY <2>3 DEF IInv, TypeOK, OneLiveChatPerTicket, LockedCopyIsCurrent
  <2>5. (\A r \in Requests : RequestOK(r)') /\ \A w \in Sweepers : SweepOK(w)'
    BY <1>1 DEF Claim, IInv, RequestOK, SweepOK
  <2> QED
    BY <2>4, <2>5 DEF IInv
<1>2. CASE Tick
  <2>1. idle' \in [Sessions -> 0..IdleEnd]
    BY <1>2, ThresholdsAssumption DEF Tick, IInv, TypeOK
  <2>2. TypeOK' /\ OneLiveChatPerTicket' /\ LockedCopyIsCurrent'
    BY <1>2, <2>1 DEF Tick, IInv, TypeOK, OneLiveChatPerTicket, LockedCopyIsCurrent
  <2>3. (\A r \in Requests : RequestOK(r)') /\ \A w \in Sweepers : SweepOK(w)'
    BY <1>2 DEF Tick, IInv, RequestOK, SweepOK
  <2> QED
    BY <2>2, <2>3 DEF IInv
<1>3. CASE Crash
  <2>1. crashes' \in 0..MaxCrashes
    BY <1>3, ThresholdsAssumption DEF Crash, IInv, TypeOK
  <2>2. TypeOK' /\ OneLiveChatPerTicket'
    BY <1>3, <2>1 DEF Crash, IInv, TypeOK, OneLiveChatPerTicket
  <2>3. \A r \in Requests : RequestOK(r)'
    BY <1>3 DEF Crash, RequestOK, NoRequest
  <2>4. (\A w \in Sweepers : SweepOK(w)') /\ LockedCopyIsCurrent'
    BY <1>3 DEF Crash, SweepOK, LockedCopyIsCurrent, NoPass, NotSwept, AbsentChat, NoRequest
  <2> QED
    BY <2>2, <2>3, <2>4 DEF IInv
<1>4. CASE UNCHANGED vars
  <2>1. TypeOK' /\ OneLiveChatPerTicket' /\ LockedCopyIsCurrent'
    BY <1>4 DEF vars, IInv, TypeOK, OneLiveChatPerTicket, LockedCopyIsCurrent
  <2>2. (\A r \in Requests : RequestOK(r)') /\ \A w \in Sweepers : SweepOK(w)'
    BY <1>4 DEF vars, IInv, RequestOK, SweepOK
  <2> QED
    BY <2>1, <2>2 DEF IInv
<1> QED
  BY <1>1, <1>2, <1>3, <1>4, ArriveStep, ProceedStep, SweepLockStep, SweepCommitStep DEF Next

-----------------------------------------------------------------------------
(* The theorems                                                             *)

(***************************************************************************)
(* IInv is an invariant of LiveChat.                                       *)
(***************************************************************************)
THEOREM InductiveInvariant == Spec => []IInv
BY InitInvariant, NextInvariant, PTL DEF Spec

(***************************************************************************)
(* Type correctness: no request, poll or sweep writes a status or an end   *)
(* reason outside the columns' enumerations.                               *)
(***************************************************************************)
THEOREM TypeCorrect == Spec => []TypeOK
<1>1. IInv => TypeOK
  BY DEF IInv
<1> QED
  BY <1>1, InductiveInvariant, PTL

(***************************************************************************)
(* A ticket never has two live chats, whatever the number of specialists,  *)
(* requests and sweepers, and although stale writes revive ended chats.    *)
(***************************************************************************)
THEOREM OneLiveChat == Spec => []OneLiveChatPerTicket
<1>1. IInv => OneLiveChatPerTicket
  BY DEF IInv
<1> QED
  BY <1>1, InductiveInvariant, PTL

(***************************************************************************)
(* What the end route and the sweeper loaded under a row's lock is still   *)
(* the committed row when they act on it.                                  *)
(***************************************************************************)
THEOREM LockedCopyStaysCurrent == Spec => []LockedCopyIsCurrent
<1>1. IInv => LockedCopyIsCurrent
  BY DEF IInv
<1> QED
  BY <1>1, InductiveInvariant, PTL

(***************************************************************************)
(* An ended chat is rewritten only by a message, a poll, a release or a    *)
(* resolve that had loaded it live without a lock.                         *)
(***************************************************************************)
THEOREM EndedRewrittenByStaleReader == Spec => EndedRewrittenOnlyByStaleReader
<1> DEFINE ReadByStaleReader(s) ==
               \E r \in Requests :
                  /\ req[r].row = s
                  /\ req[r].op \in {"send", "poll", "release", "resolve"}
                  /\ req[r].copy.status \in Live
           Guarded == \A s \in Sessions :
                         session[s].status \in Ended /\ session'[s] # session[s] => ReadByStaleReader(s)
<1>1. IInv /\ [Next]_vars => Guarded
  <2> SUFFICES ASSUME IInv, [Next]_vars, NEW s \in Sessions,
                      session[s].status \in Ended, session'[s] # session[s]
               PROVE  ReadByStaleReader(s)
    OBVIOUS
  <2>1. ASSUME NEW w \in Sweepers, SweepLock(w) \/ SweepCommit(w)
        PROVE  FALSE
    BY <2>1, SweepCommitRows DEF SweepLock, Live, Ended
  <2>2. ASSUME NEW r \in Requests, Arrive(r)
        PROVE  FALSE
    BY <2>2 DEF Arrive, AssignLoad, StaffLoad, StartLoad, HandBackLoad, Poll, SendLoad, EndLock
  <2>3. ASSUME NEW r \in Requests, Proceed(r)
        PROVE  ReadByStaleReader(s)
    <3>1. RequestOK(r)
      BY DEF IInv
    <3>2. CASE StartInsert(r)
      BY <3>2 DEF StartInsert, IInv, TypeOK, Ended
    <3>3. CASE SendCommit(r) \/ WarnCommit(r)
      <4>1. req[r].pc \in {"send", "warn"} /\ req[r].row = s
        BY <3>3 DEF SendCommit, WarnCommit, IInv, TypeOK
      <4> QED
        BY <3>1, <4>1 DEF RequestOK
    <3>4. CASE EndCommit(r)
      <4>1. req[r].pc = "end" /\ req[r].row = s
        BY <3>4 DEF EndCommit, IInv, TypeOK
      <4>2. req[r].op # "end"
        BY <3>1, <4>1 DEF IInv, RequestOK, LockedCopyIsCurrent, Live, Ended
      <4> QED
        BY <3>1, <4>1, <4>2 DEF RequestOK
    <3>5. CASE HandBackCommit(r)
      <4>1. req[r].pc = "finish" /\ req[r].row = s /\ s # None
        BY <3>5, IdentityAssumption DEF HandBackCommit, IInv, TypeOK
      <4> QED
        BY <3>1, <4>1 DEF RequestOK
    <3>6. CASE TicketCommit(r) \/ TimeoutLock(r) \/ FindChat(r) \/ ChatLock(r) \/ DeadlockAbort(r)
      BY <3>6 DEF TicketCommit, TimeoutLock, FindChat, ChatLock, DeadlockAbort
    <3> QED
      BY <2>3, <3>2, <3>3, <3>4, <3>5, <3>6 DEF Proceed
  <2>4. ASSUME (\E sp \in Specialists, t \in Tickets : Claim(sp, t)) \/ Tick \/ Crash
               \/ UNCHANGED vars
        PROVE  FALSE
    BY <2>4 DEF Claim, Tick, Crash, vars
  <2> QED
    BY <2>1, <2>2, <2>3, <2>4 DEF Next
<1>2. IInv /\ [Next]_vars => [Guarded]_vars
  BY <1>1
<1> QED
  BY <1>2, InductiveInvariant, PTL DEF Spec, EndedRewrittenOnlyByStaleReader

-----------------------------------------------------------------------------
(* The resolution of a ticket                                               *)

(***************************************************************************)
(* What a request that loaded the row as it stands writes: the resolved    *)
(* status comes with its time, and leaves only by the operations that      *)
(* mean to take it back.                                                   *)
(***************************************************************************)
LEMMA CurrentWriteKeepsResolution ==
    ASSUME TypeOK, NEW r \in Requests, RequestOK(r), req[r].pc \in {"write", "finish"},
           NEW row \in TicketRow, req[r].tcopy = row
    PROVE  /\ (row.status \notin Resolved \/ row.stamped)
              /\ Written(row, req[r]).status \in Resolved
              => Written(row, req[r]).stamped
           /\ row.status \in Resolved /\ Written(row, req[r]).status \notin Resolved
              => req[r].op \in {"reopen", "status", "patch", "release"}
<1> DEFINE q == req[r]
<1>1. /\ Written(row, q).status = Status(q)
      /\ Written(row, q).stamped <=> Stamp(q) = "now" \/ (row.stamped /\ Stamp(q) # "null")
  BY DEF Written, WriteTicket
<1>2. \/ q.op = "assign" /\ Status(q) \in {"triaged", row.status} /\ Stamp(q) = "keep"
         /\ (row.status \in Resolved => Status(q) = row.status)
      \/ q.op = "release" /\ Status(q) = "triaged"
      \/ q.op = "resolve" /\ Status(q) = "resolved" /\ Stamp(q) = "now"
      \/ q.op = "close" /\ Status(q) = "closed" /\ Stamp(q) = IF row.stamped THEN "keep" ELSE "now"
      \/ q.op = "reopen" /\ Status(q) = "in_progress"
      \/ q.op = "status" /\ Status(q) \in StaffStatuses
         /\ (Status(q) = "resolved" => Stamp(q) = "now")
      \/ q.op = "patch" /\ Status(q) \in StaffStatuses
         /\ (Status(q) = "resolved" => Stamp(q) = IF row.stamped THEN "keep" ELSE "now")
  BY DEF RequestOK, MaySet, Status, Stamp, Resolved
<1>3. \A status \in StaffStatuses : status \in Resolved => status = "resolved"
  BY ThresholdsAssumption DEF Resolved
<1> QED
  BY <1>1, <1>2, <1>3 DEF Resolved

(***************************************************************************)
(* A ticket that is resolved or closed keeps its time of resolution and    *)
(* its status against everything but the operations that take them back    *)
(* and the requests that were overtaken.                                   *)
(***************************************************************************)
THEOREM ResolutionKept == Spec => ResolutionStands
<1> DEFINE TakenBack(t) == \E r \in Requests :
                              /\ req[r].tid = t /\ req'[r] # req[r]
                              /\ req[r].op \in {"reopen", "status", "patch", "release"}
           Kept(t) ==
               /\ (/\ ticket[t].status \notin Resolved \/ ticket[t].stamped
                   /\ ticket'[t].status \in Resolved /\ ~ticket'[t].stamped) => Overtaken(t)
               /\ (ticket[t].status \in Resolved /\ ticket'[t].status \notin Resolved) =>
                      \/ Overtaken(t)
                      \/ TakenBack(t)
           Guarded == \A t \in Tickets : Kept(t)
<1>1. IInv /\ [Next]_vars => Guarded
  <2> SUFFICES ASSUME IInv, [Next]_vars, NEW t \in Tickets PROVE Kept(t)
    OBVIOUS
  <2>1. TypeOK /\ ticket[t] \in TicketRow
    BY DEF IInv, TypeOK
  <2>2. CASE ticket'[t] = ticket[t]
    BY <2>2
  <2>3. ASSUME NEW sp \in Specialists, NEW u \in Tickets, Claim(sp, u)
        PROVE  Kept(t)
    <3>1. CASE u = t
      <4>1. ticket[t].status \notin Resolved
        BY <2>3, <3>1 DEF Claim, QueueStatuses, Resolved
      <4>2. ticket'[t].status = "in_progress"
        BY <2>1, <2>3, <3>1 DEF Claim, TypeOK, TicketRow
      <4> QED
        BY <4>1, <4>2 DEF Resolved
    <3>2. CASE u # t
      BY <2>1, <2>2, <2>3, <3>2 DEF Claim, TypeOK
    <3> QED
      BY <3>1, <3>2
  <2>4. ASSUME NEW r \in Requests, TicketCommit(r) \/ HandBackCommit(r), ticket'[t] # ticket[t]
        PROVE  Kept(t)
    <3>1. RequestOK(r) /\ req[r].pc \in {"write", "finish"} /\ req[r].tid \in Tickets
      BY <2>4 DEF IInv, RequestOK, TicketCommit, HandBackCommit
    <3>2. /\ req[r].tid = t
          /\ ticket'[t] = Written(ticket[t], req[r])
      BY <2>1, <2>4, <3>1 DEF TicketCommit, HandBackCommit, TypeOK
    <3>3. req'[r] # req[r]
      <4>1. req'[r].pc = "idle"
        BY <2>1, <2>4, FinishedFrame DEF TicketCommit, HandBackCommit, NoRequest
      <4> QED
        BY <3>1, <4>1
    <3>4. CASE req[r].tcopy # ticket[t]
      BY <3>2, <3>3, <3>4 DEF Overtaken
    <3>5. CASE req[r].tcopy = ticket[t]
      BY <2>1, <3>1, <3>2, <3>3, <3>5, CurrentWriteKeepsResolution
    <3> QED
      BY <3>4, <3>5
  <2>5. ASSUME NEW r \in Requests, Proceed(r), ~TicketCommit(r), ~HandBackCommit(r)
        PROVE  ticket' = ticket
    BY <2>5 DEF Proceed, StartInsert, SendCommit, EndCommit, TimeoutLock, WarnCommit, FindChat,
                ChatLock, DeadlockAbort
  <2>6. ASSUME NEW r \in Requests, Arrive(r)
        PROVE  ticket' = ticket
    BY <2>6 DEF Arrive, AssignLoad, StaffLoad, StartLoad, HandBackLoad, Poll, SendLoad, EndLock
  <2>7. ASSUME (\E w \in Sweepers : SweepLock(w) \/ SweepCommit(w)) \/ Tick \/ Crash
               \/ UNCHANGED vars
        PROVE  ticket' = ticket
    BY <2>7 DEF SweepLock, SweepCommit, Tick, Crash, vars
  <2> QED
    BY <2>2, <2>3, <2>4, <2>5, <2>6, <2>7 DEF Next
<1>2. IInv /\ [Next]_vars => [Guarded]_vars
  BY <1>1
<1> QED
  BY <1>2, InductiveInvariant, PTL DEF Spec, ResolutionStands

(***************************************************************************)
(* Only an assignment writes the name of a specialist over another's: a    *)
(* release clears it, and every other request leaves it as it is.          *)
(***************************************************************************)
LEMMA AssignedWrite ==
    ASSUME NEW r \in Requests, RequestOK(r), req[r].pc \in {"write", "finish"}, NEW row,
           Written(row, req[r]).assigned \notin {None, row.assigned}
    PROVE  req[r].op = "assign" /\ req[r].actor = Written(row, req[r]).assigned
<1>1. Written(row, req[r]).assigned =
         IF Assigned(req[r]) = req[r].tcopy.assigned THEN row.assigned ELSE Assigned(req[r])
  BY DEF Written, WriteTicket
<1> QED
  BY <1>1 DEF Assigned, RequestOK

(***************************************************************************)
(* A ticket goes from one specialist to another only by an assignment: a   *)
(* claim takes a ticket that nobody has.                                   *)
(***************************************************************************)
THEOREM HandsChangeByAssignment == Spec => TicketChangesHandsOnlyByAssignment
<1> DEFINE AssignedByLead(t) ==
               \E r \in Requests :
                  req[r].op = "assign" /\ req[r].tid = t /\ req[r].actor = ticket'[t].assigned
           Guarded ==
               \A t \in Tickets :
                  /\ ticket[t].assigned # None
                  /\ ticket'[t].assigned \notin {None, ticket[t].assigned}
                  => AssignedByLead(t)
<1>1. IInv /\ [Next]_vars => Guarded
  <2> SUFFICES ASSUME IInv, [Next]_vars, NEW t \in Tickets, ticket[t].assigned # None,
                      ticket'[t].assigned \notin {None, ticket[t].assigned}
               PROVE  AssignedByLead(t)
    OBVIOUS
  <2>1. TypeOK /\ ticket[t] \in TicketRow
    BY DEF IInv, TypeOK
  <2>2. ASSUME NEW sp \in Specialists, NEW u \in Tickets, Claim(sp, u)
        PROVE  FALSE
    <3>1. ticket'[t] = ticket[t] \/ (u = t /\ ticket'[t].assigned = sp)
      BY <2>1, <2>2 DEF Claim, TypeOK, TicketRow
    <3> QED
      BY <2>2, <3>1 DEF Claim
  <2>3. ASSUME NEW r \in Requests, TicketCommit(r) \/ HandBackCommit(r)
        PROVE  AssignedByLead(t)
    <3>1. RequestOK(r) /\ req[r].pc \in {"write", "finish"} /\ req[r].tid \in Tickets
      BY <2>3 DEF IInv, RequestOK, TicketCommit, HandBackCommit
    <3>2. /\ req[r].tid = t
          /\ ticket'[t] = Written(ticket[t], req[r])
      BY <2>1, <2>3, <3>1 DEF TicketCommit, HandBackCommit, TypeOK
    <3> QED
      BY <3>1, <3>2, AssignedWrite
  <2>4. ASSUME NEW r \in Requests, Proceed(r), ~TicketCommit(r), ~HandBackCommit(r)
        PROVE  ticket' = ticket
    BY <2>4 DEF Proceed, StartInsert, SendCommit, EndCommit, TimeoutLock, WarnCommit, FindChat,
                ChatLock, DeadlockAbort
  <2>5. ASSUME NEW r \in Requests, Arrive(r)
        PROVE  ticket' = ticket
    BY <2>5 DEF Arrive, AssignLoad, StaffLoad, StartLoad, HandBackLoad, Poll, SendLoad, EndLock
  <2>6. ASSUME (\E w \in Sweepers : SweepLock(w) \/ SweepCommit(w)) \/ Tick \/ Crash
               \/ UNCHANGED vars
        PROVE  ticket' = ticket
    BY <2>6 DEF SweepLock, SweepCommit, Tick, Crash, vars
  <2> QED
    BY <2>2, <2>3, <2>4, <2>5, <2>6 DEF Next
<1>2. IInv /\ [Next]_vars => [Guarded]_vars
  BY <1>1
<1> QED
  BY <1>2, InductiveInvariant, PTL DEF Spec, TicketChangesHandsOnlyByAssignment

-----------------------------------------------------------------------------
(* The sweeper's timeouts                                                   *)

\* A chat that a pass is about to end is quiet, and stays so under its lock.
Quiet == \A w \in Sweepers, s \in Sessions : sweep[w][s].verdict = "end" => idle[s] >= IdleEnd

(***************************************************************************)
(* A step that leaves the passes alone changes the idle time of a row that *)
(* a pass has locked in no other way than that time goes on.               *)
(***************************************************************************)
LEMMA LockedRowKeepsIdle ==
    ASSUME IInv, Quiet, sweep' = sweep,
           \A w \in Sweepers, s \in Sessions :
               rowLock[s] = w /\ idle[s] >= IdleEnd => idle'[s] >= IdleEnd
    PROVE  Quiet'
<1> SUFFICES ASSUME NEW w \in Sweepers, NEW s \in Sessions, sweep[w][s].verdict = "end"
             PROVE  idle'[s] >= IdleEnd
  BY DEF Quiet
<1>1. rowLock[s] = w
  BY DEF IInv, LockedCopyIsCurrent, NotSwept
<1> QED
  BY <1>1 DEF Quiet

(***************************************************************************)
(* Requests reset the idle time only of rows that no sweeper has locked.   *)
(***************************************************************************)
LEMMA RequestKeepsQuiet ==
    ASSUME IInv, Quiet, NEW r \in Requests, Arrive(r) \/ Proceed(r)
    PROVE  Quiet'
<1>1. /\ TypeOK /\ RequestOK(r)
      /\ \A w \in Sweepers : w # None /\ w # r
  BY IdentityAssumption DEF IInv
<1>2. CASE Arrive(r)
  <2>1. UNCHANGED <<sweep, idle>>
    BY <1>2 DEF Arrive, AssignLoad, StaffLoad, StartLoad, HandBackLoad, Poll, SendLoad, EndLock
  <2> QED
    BY <2>1, LockedRowKeepsIdle
<1>3. CASE Proceed(r)
  <2>1. sweep' = sweep
    BY <1>3 DEF Proceed, TicketCommit, StartInsert, SendCommit, EndCommit, TimeoutLock,
                WarnCommit, FindChat, ChatLock, HandBackCommit, DeadlockAbort
  <2>2. CASE idle' = idle
    BY <2>1, <2>2, LockedRowKeepsIdle
  <2>3. CASE idle' # idle
    <3>1. PICK s, n : (s \in Sessions => rowLock[s] \in {None, r}) /\ idle' = [idle EXCEPT ![s] = n]
      <4>1. CASE StartInsert(r)
        BY <2>3, <4>1 DEF StartInsert
      <4>2. CASE SendCommit(r)
        BY <2>3, <4>2 DEF SendCommit
      <4>3. CASE WarnCommit(r)
        BY <2>3, <4>3 DEF WarnCommit
      <4>4. CASE EndCommit(r)
        BY <1>1, <4>4 DEF EndCommit, RequestOK
      <4>5. CASE HandBackCommit(r)
        BY <1>1, <2>3, <4>5 DEF HandBackCommit, RequestOK
      <4>6. CASE TicketCommit(r) \/ TimeoutLock(r) \/ FindChat(r) \/ ChatLock(r) \/ DeadlockAbort(r)
        BY <2>3, <4>6 DEF TicketCommit, TimeoutLock, FindChat, ChatLock, DeadlockAbort
      <4> QED
        BY <1>3, <4>1, <4>2, <4>3, <4>4, <4>5, <4>6 DEF Proceed
    <3>2. \A z \in Sessions : z # s => idle'[z] = idle[z]
      BY <1>1, <3>1 DEF TypeOK
    <3> QED
      BY <1>1, <2>1, <3>1, <3>2, LockedRowKeepsIdle
  <2> QED
    BY <2>2, <2>3
<1> QED
  BY <1>2, <1>3

(***************************************************************************)
(* A chat whose end a pass has decided stays quiet until the pass commits. *)
(***************************************************************************)
LEMMA NextKeepsQuiet == IInv /\ Quiet /\ [Next]_vars => Quiet'
<1> SUFFICES ASSUME IInv, Quiet, [Next]_vars PROVE Quiet'
  OBVIOUS
<1>1. TypeOK
  BY DEF IInv
<1>2. ASSUME NEW w \in Sweepers, SweepLock(w)
      PROVE  Quiet'
  <2>1. /\ \A v \in Sweepers \ {w} : sweep'[v] = sweep[v]
        /\ \A s \in Sessions : sweep'[w][s].verdict = "end" => s \in Stale /\ Verdict(s) = "end"
        /\ idle' = idle
    BY <1>1, <1>2 DEF SweepLock, TypeOK, NotSwept
  <2>2. \A s \in Sessions : Verdict(s) = "end" => idle[s] >= IdleEnd
    BY DEF Verdict
  <2> QED
    BY <2>1, <2>2 DEF Quiet
<1>3. ASSUME NEW w \in Sweepers, SweepCommit(w)
      PROVE  Quiet'
  <2>1. /\ \A v \in Sweepers \ {w} : sweep'[v] = sweep[v]
        /\ \A s \in Sessions : sweep'[w][s].verdict = "none"
    BY <1>1, <1>3 DEF SweepCommit, TypeOK, NoPass, NotSwept
  <2>2. \A s \in Sessions : sweep[w][s].verdict # "end" => idle'[s] = idle[s]
    BY <1>3 DEF SweepCommit
  <2>3. \A v \in Sweepers \ {w}, s \in Sessions :
           sweep[v][s].verdict = "end" => sweep[w][s].verdict # "end"
    BY DEF IInv, LockedCopyIsCurrent, NotSwept
  <2> QED
    BY <2>1, <2>2, <2>3 DEF Quiet
<1>4. CASE Tick
  <2>1. sweep' = sweep /\ \A s \in Sessions : idle[s] >= IdleEnd => idle'[s] = idle[s]
    <3>1. \A s \in Sessions : idle[s] \in Nat
      BY <1>1 DEF TypeOK
    <3> QED
      BY <1>4, <3>1, ThresholdsAssumption DEF Tick
  <2> QED
    BY <2>1 DEF Quiet
<1>5. CASE Crash
  BY <1>5 DEF Crash, Quiet, NoPass, NotSwept
<1>6. CASE (\E sp \in Specialists, t \in Tickets : Claim(sp, t)) \/ UNCHANGED vars
  <2>1. UNCHANGED <<sweep, idle>>
    BY <1>6 DEF Claim, vars
  <2> QED
    BY <2>1 DEF Quiet
<1> QED
  BY <1>2, <1>3, <1>4, <1>5, <1>6, RequestKeepsQuiet DEF Next

(***************************************************************************)
(* The sweeper times out only a chat that is live, and quiet for IdleEnd,  *)
(* at its commit: what it selected under the row's lock has not changed.   *)
(***************************************************************************)
THEOREM SweeperTimesOutQuietChats == Spec => SweeperTimesOutOnlyQuietChats
<1> DEFINE Guarded == \A w \in Sweepers, s \in Sessions :
                         SweepCommit(w) /\ sweep[w][s].verdict = "end" =>
                             session[s].status \in Live /\ idle[s] >= IdleEnd
<1>1. Init => Quiet
  BY DEF Init, Quiet, NoPass, NotSwept
<1>2. IInv /\ Quiet => Guarded
  BY DEF IInv, SweepOK, LockedCopyIsCurrent, NotSwept, Quiet
<1>3. IInv /\ Quiet /\ [Next]_vars => [Guarded]_vars
  BY <1>2
<1> QED
  BY <1>1, <1>3, NextKeepsQuiet, InductiveInvariant, PTL DEF Spec, SweeperTimesOutOnlyQuietChats

-----------------------------------------------------------------------------
(* LiveChat implements ChatSlot                                             *)

SlotOf == [t \in Tickets |-> LiveChatOf(t)]

(***************************************************************************)
(* A step that makes no chat live closes slots, or changes nothing.        *)
(***************************************************************************)
LEMMA NoNewLiveChatCloses ==
    ASSUME OneLiveChatPerTicket,
           \A s \in Sessions : session'[s].status \in Live =>
               session[s].status \in Live /\ session'[s].ticket = session[s].ticket
    PROVE  Slot!Next
<1>1. \A t \in Tickets : LiveChatOf(t)' \subseteq LiveChatOf(t)
  BY DEF LiveChatOf
<1>2. \A t \in Tickets, s, z \in Sessions :
         s \in LiveChatOf(t) /\ z \in LiveChatOf(t) => s = z
  BY DEF LiveChatOf, OneLiveChatPerTicket
<1>3. \A t \in Tickets : LiveChatOf(t)' = {} \/ LiveChatOf(t)' = LiveChatOf(t)
  BY <1>1, <1>2 DEF LiveChatOf
<1>4. SlotOf' = [t \in Tickets |-> IF t \in {u \in Tickets : LiveChatOf(u)' = {}}
                                  THEN {} ELSE LiveChatOf(t)]
  BY <1>3 DEF SlotOf
<1>5. Slot!Close
  BY <1>4 DEF Slot!Close, SlotOf
<1> QED
  BY <1>5 DEF Slot!Next

(***************************************************************************)
(* A row that the unique index admits opens an empty slot, or opens none.  *)
(***************************************************************************)
LEMMA AdmittedRowOpensEmptySlot ==
    ASSUME TypeOK, OneLiveChatPerTicket, NEW s \in Sessions, NEW row \in ChatRow,
           UniqueIndexAdmits(s, row), session' = [session EXCEPT ![s] = row],
           session[s].status \in Live => row.ticket = session[s].ticket
    PROVE  Slot!Next \/ UNCHANGED SlotOf
<1>1. CASE row.status \notin Live \/ session[s].status \in Live
  BY <1>1, NoNewLiveChatCloses DEF TypeOK
<1>2. CASE row.status \in Live /\ session[s].status \notin Live
  <2>1. \A t \in Tickets : t # row.ticket => LiveChatOf(t)' = LiveChatOf(t)
    BY <1>2 DEF LiveChatOf, TypeOK
  <2>2. CASE row.ticket \in Tickets
    <3>1. LiveChatOf(row.ticket) = {}
      BY <1>2 DEF LiveChatOf, UniqueIndexAdmits
    <3>2. LiveChatOf(row.ticket)' = {s}
      <4>1. \A z \in Sessions \ {s} : session'[z] = session[z]
        BY DEF TypeOK
      <4>2. session'[s] = row
        BY DEF TypeOK
      <4>3. s \in LiveChatOf(row.ticket)'
        BY <1>2, <4>2 DEF LiveChatOf
      <4>4. \A z \in Sessions \ {s} : z \notin LiveChatOf(row.ticket)'
        BY <3>1, <4>1 DEF LiveChatOf
      <4> QED
        BY <4>3, <4>4 DEF LiveChatOf
    <3>3. Slot!Open(row.ticket, s)
      BY <2>1, <2>2, <3>1, <3>2 DEF Slot!Open
    <3> QED
      BY <2>2, <3>3 DEF Slot!Next
  <2>3. CASE row.ticket \notin Tickets
    BY <2>1, <2>3 DEF SlotOf
  <2> QED
    BY <2>2, <2>3
<1> QED
  BY <1>1, <1>2

(***************************************************************************)
(* A row of the same ticket that is being ended closes its slot.           *)
(***************************************************************************)
LEMMA EndedRowClosesSlot ==
    ASSUME TypeOK, OneLiveChatPerTicket, NEW s \in Sessions, NEW row,
           row.status \in Ended, session' = [session EXCEPT ![s] = row]
    PROVE  Slot!Next
BY NoNewLiveChatCloses DEF TypeOK, Live, Ended

(***************************************************************************)
(* Every step of LiveChat is a step of ChatSlot or leaves the slots alone. *)
(***************************************************************************)
LEMMA StepRefinesSlot == IInv /\ [Next]_vars => [Slot!Next]_SlotOf
<1> SUFFICES ASSUME IInv, [Next]_vars PROVE Slot!Next \/ UNCHANGED SlotOf
  OBVIOUS
<1>1. TypeOK /\ OneLiveChatPerTicket
  BY DEF IInv
<1>2. CASE UNCHANGED session
  BY <1>2 DEF SlotOf, LiveChatOf
<1>3. ASSUME NEW w \in Sweepers, SweepCommit(w)
      PROVE  Slot!Next
  BY <1>1, <1>3, SweepCommitRows, NoNewLiveChatCloses
<1>4. ASSUME NEW r \in Requests, Proceed(r), ~UNCHANGED session
      PROVE  Slot!Next \/ UNCHANGED SlotOf
  <2>1. /\ RequestOK(r) /\ req[r].copy \in ChatRow
        /\ req[r].reason \in EndReasons \cup {"none"}
    BY DEF IInv, TypeOK, Request
  <2>2. CASE StartInsert(r)
    <3>1. NewChat(r) \in ChatRow
      BY <2>1, <2>2 DEF RequestOK, StartInsert, NewChat, ChatRow, Live
    <3>2. PICK s \in Sessions :
             /\ session[s].status = "absent" /\ UniqueIndexAdmits(s, NewChat(r))
             /\ session' = [session EXCEPT ![s] = NewChat(r)]
      BY <1>4, <2>2 DEF StartInsert
    <3> QED
      BY <1>1, <3>1, <3>2, AdmittedRowOpensEmptySlot DEF Live
  <2>3. ASSUME NEW status \in Live, req[r].row \in Sessions,
               UniqueIndexAdmits(req[r].row, WriteChat(session[req[r].row], req[r].copy,
                                                       status, req[r].copy.reason)),
               session' = [session EXCEPT ![req[r].row] =
                              WriteChat(session[req[r].row], req[r].copy,
                                        status, req[r].copy.reason)]
        PROVE  Slot!Next \/ UNCHANGED SlotOf
    <3> DEFINE row == WriteChat(session[req[r].row], req[r].copy, status, req[r].copy.reason)
    <3>1. row \in ChatRow
      BY <1>1, <2>1, <2>3, WriteTypes DEF TypeOK, ChatRow
    <3>2. row.ticket = session[req[r].row].ticket
      BY <1>1, <2>3 DEF WriteChat, TypeOK, ChatRow
    <3> HIDE DEF row
    <3> QED
      BY <1>1, <2>3, <3>1, <3>2, AdmittedRowOpensEmptySlot DEF row
  <2>4. CASE SendCommit(r)
    <3>1. req[r].row \in Sessions
      BY <2>1, <2>4 DEF RequestOK, SendCommit
    <3> QED
      BY <1>4, <2>3, <2>4, <3>1 DEF SendCommit, Live
  <2>5. CASE WarnCommit(r)
    <3>1. req[r].row \in Sessions
      BY <2>1, <2>5 DEF RequestOK, WarnCommit
    <3> QED
      BY <1>4, <2>3, <2>5, <3>1 DEF WarnCommit, Live
  <2>6. CASE EndCommit(r) \/ HandBackCommit(r)
    <3> DEFINE row == EndedChat(session[req[r].row], req[r].copy, req[r].reason)
    <3>1. /\ req[r].row \in Sessions /\ req[r].copy.status \in Live
          /\ req[r].reason \in EndReasons
      BY <1>4, <2>1, <2>6 DEF RequestOK, EndCommit, HandBackCommit
    <3>2. session' = [session EXCEPT ![req[r].row] = row]
      BY <1>4, <2>6 DEF EndCommit, HandBackCommit
    <3>3. row.status \in Ended
      BY <1>1, <2>1, <3>1, EndedChatEnds DEF TypeOK
    <3> HIDE DEF row
    <3> QED
      BY <1>1, <3>1, <3>2, <3>3, EndedRowClosesSlot
  <2> QED
    BY <1>4, <2>2, <2>4, <2>5, <2>6
       DEF Proceed, TicketCommit, TimeoutLock, FindChat, ChatLock, DeadlockAbort
<1>5. ASSUME NEW r \in Requests, Arrive(r)
      PROVE  UNCHANGED session
  <2>1. CASE \E sp \in Specialists, t \in Tickets :
                \/ AssignLoad(r, sp, t) \/ StartLoad(r, sp, t)
                \/ \E op \in {"release", "resolve"} : HandBackLoad(r, sp, t, op)
    BY <2>1 DEF AssignLoad, StartLoad, HandBackLoad
  <2>2. CASE \E s \in Sessions :
                \/ Poll(r, s)
                \/ \E a \in Specialists \cup {Employee} :
                      \/ SendLoad(r, a, s)
                      \/ \E reason \in ClientReasons : EndLock(r, a, s, reason)
    BY <2>2 DEF Poll, SendLoad, EndLock
  <2>3. CASE \E t \in Tickets, op \in {"status", "patch", "close", "reopen"},
                status \in StaffStatuses \cup {"closed", "in_progress"} :
                StaffLoad(r, t, op, status)
    BY <2>3 DEF StaffLoad
  <2> QED
    BY <1>5, <2>1, <2>2, <2>3 DEF Arrive
<1>6. ASSUME \/ \E sp \in Specialists, t \in Tickets : Claim(sp, t)
             \/ \E w \in Sweepers : SweepLock(w)
             \/ Tick \/ Crash \/ UNCHANGED vars
      PROVE  UNCHANGED session
  BY <1>6 DEF Claim, SweepLock, Tick, Crash, vars
<1> QED
  BY <1>2, <1>3, <1>4, <1>5, <1>6 DEF Next

(***************************************************************************)
(* LiveChat implements ChatSlot: on every ticket a conversation is opened  *)
(* or revived only while no other one is live.                             *)
(***************************************************************************)
THEOREM ImplementsChatSlot == Spec => OpensOnlyEmptySlots
<1>1. Init => Slot!Init
  BY DEF Init, Slot!Init, LiveChatOf, AbsentChat, Live
<1> QED
  BY <1>1, StepRefinesSlot, InductiveInvariant, PTL
     DEF Spec, OpensOnlyEmptySlots, Slot!Spec, SlotOf
=============================================================================
