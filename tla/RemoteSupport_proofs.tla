------------------------ MODULE RemoteSupport_proofs ------------------------
(***************************************************************************)
(* Safety of RemoteSupport for every number of sessions and requests: no   *)
(* session reaches the provider before consent, an active session can be   *)
(* timed out, and only an overlapping request revives a finished session.  *)
(*                                                                         *)
(* The invariant says what a request may still rely on at its commit: what *)
(* it loaded is out of date, but provider_session_id and started_at are    *)
(* never cleared and grants are never deleted.                             *)
(***************************************************************************)
EXTENDS RemoteSupport, SequenceTheorems, TLAPS

Joined == {"connecting", "active", "paused"}
Consented == Joined \cup {"consent_granted", "completed"}

\* A row: consent before support, and an active session can be timed out.
RowOK(s) ==
    /\ row[s].pid # 0 \/ row[s].status \in Consented => consent[s] # <<>>
    /\ row[s].status \in Joined => row[s].pid # 0
    /\ row[s].status = "active" => row[s].started

\* What the checks of each operation made sure of, about the loaded copy.
Checked(q) ==
    /\ q.pc = "decide" => /\ q.copy.status = "consent_pending"
                          /\ q.status \in {"consent_granted", "consent_denied"}
    /\ q.pc \in {"create", "launch"} => q.copy.status = "consent_granted"
    /\ q.pc = "launch" => q.pid # 0
    /\ q.pc = "connect" => q.copy.status \in {"connecting", "paused"}
    /\ q.pc = "end" \/ (q.pc = "hangup" /\ q.status = "completed") =>
          q.copy.status \in {"active", "paused"}
    /\ q.pc = "sync" => q.copy.pid # 0 /\ q.status \in Allowed(q.copy.status)

\* The part of the copy that cannot go out of date.
StillTrue(q) ==
    /\ q.sid \in Sessions
    /\ q.copy.pid # 0 => row[q.sid].pid # 0
    /\ q.copy.started => row[q.sid].started
    /\ q.copy.status \in Joined => q.copy.pid # 0
    /\ q.copy.status = "active" => q.copy.started
    /\ q.copy.pid # 0 \/ q.copy.status \in Consented => consent[q.sid] # <<>>

RowsOK == \A s \in Sessions : RowOK(s)
RequestsOK == \A r \in Requests : req[r].pc # "idle" => Checked(req[r]) /\ StillTrue(req[r])

IInv == TypeOK /\ RowsOK /\ RequestsOK

-----------------------------------------------------------------------------
(* What the helpers return                                                  *)

\* Where each status can come from in the transition table.
LEMMA AllowedFacts ==
    \A from, to :
       to \in Allowed(from) =>
          /\ from \notin Terminal
          /\ to = "connecting" => from = "consent_granted"
          /\ to = "active" => from \in {"connecting", "paused"}
          /\ to = "completed" => from \in {"active", "paused"}
          /\ to = "paused" => from = "active"
          /\ to \in {"consent_granted", "consent_denied"} => from = "consent_pending"
    BY DEF Allowed, Terminal

\* The table leads to statuses only.
LEMMA AllowedAreStatuses == \A from, to : to \in Allowed(from) => to \in Statuses
    BY DEF Allowed, Statuses

\* The constants that the types of rows and requests need.
LEMMA LaunchBoundType == MaxLaunches \in Nat /\ None \notin Sessions
    BY PolicyAssumption

\* Loading a row whose checks passed establishes what the request relies on.
LEMMA LoadsPreserves ==
    ASSUME IInv, NEW r \in Requests, NEW s \in Sessions,
           NEW pc \in Phases \ {"idle", "launch"}, NEW status \in Statuses,
           Loads(r, s, pc, status),
           pc = "decide" => /\ row[s].status = "consent_pending"
                            /\ status \in {"consent_granted", "consent_denied"},
           pc = "create" => row[s].status = "consent_granted",
           pc = "connect" => row[s].status \in {"connecting", "paused"},
           pc = "end" \/ (pc = "hangup" /\ status = "completed") =>
              row[s].status \in {"active", "paused"},
           pc = "sync" => row[s].pid # 0 /\ status \in Allowed(row[s].status)
    PROVE  IInv'
<1> DEFINE q(i) == [pc |-> pc, sid |-> s, copy |-> row[s],
                    grant |-> i, pid |-> 0, status |-> status]
<1>1. PICK i \in 0..Len(consent[s]) :
          /\ req' = [req EXCEPT ![r] = q(i)]
          /\ UNCHANGED <<row, consent, open, opened, age, running, verdict>>
      BY DEF Loads
<1>2. i \in Nat
      BY DEF IInv, TypeOK
<1>4. q(i) \in Request
      BY <1>2, LaunchBoundType DEF Request, IInv, TypeOK
<1>5. TypeOK'
  <2>1. req' \in [Requests -> Request]
        BY <1>1, <1>4 DEF IInv, TypeOK
  <2> QED
        BY <1>1, <2>1 DEF IInv, TypeOK
<1>6. RowsOK'
      BY <1>1 DEF IInv, RowsOK, RowOK
<1>7. Checked(q(i)) /\ StillTrue(q(i))'
  <2>1. Checked(q(i))
        BY DEF Checked, Phases
  <2>2. StillTrue(q(i))
        BY DEF StillTrue, IInv, RowsOK, RowOK
  <2> QED
        BY <1>1, <2>1, <2>2 DEF StillTrue
<1>8. ASSUME NEW x \in Requests, req'[x].pc # "idle"
      PROVE  Checked(req[x])' /\ StillTrue(req[x])'
  <2>1. CASE x = r
        BY <1>1, <1>7, <2>1 DEF IInv, TypeOK
  <2>2. CASE x # r
    <3>1. req'[x] = req[x]
          BY <1>1, <2>2 DEF IInv, TypeOK
    <3>2. Checked(req[x]) /\ StillTrue(req[x])
          BY <1>8, <3>1 DEF IInv, RequestsOK
    <3> QED
          BY <1>1, <3>1, <3>2 DEF StillTrue
  <2> QED
        BY <2>1, <2>2
<1> QED
    BY <1>5, <1>6, <1>8 DEF IInv, RequestsOK, StillTrue

\* A step that clears neither provider_session_id, started_at nor a grant
\* leaves every other request's reliance intact.
NothingCleared ==
    \A s \in Sessions : /\ row[s].pid # 0 => row'[s].pid # 0
                        /\ row[s].started => row'[s].started
                        /\ consent[s] # <<>> => consent'[s] # <<>>

LEMMA OthersKeepReliance ==
    ASSUME IInv, NothingCleared, NEW r \in Requests,
           \A x \in Requests : x # r => req'[x] = req[x]
    PROVE  \A x \in Requests : x # r /\ req'[x].pc # "idle"
                               => Checked(req[x])' /\ StillTrue(req[x])'
<1> SUFFICES ASSUME NEW x \in Requests, x # r, req'[x].pc # "idle"
             PROVE  Checked(req[x])' /\ StillTrue(req[x])'
    OBVIOUS
<1>1. req'[x] = req[x] /\ Checked(req[x]) /\ StillTrue(req[x])
      BY DEF IInv, RequestsOK
<1> QED
    BY <1>1 DEF StillTrue, NothingCleared

\* No flush takes back started_at or provider_session_id.
LEMMA FlushKeeps ==
    ASSUME NEW current \in Row, NEW copy \in Row, NEW new \in Row,
           copy.started => current.started, copy.started => new.started,
           copy.pid # 0 => current.pid # 0, new.pid = copy.pid \/ new.pid # 0
    PROVE  LET f == Flush(current, copy, new)
           IN  /\ f \in Row
               /\ f.status \in {current.status, new.status}
               /\ current.pid # 0 \/ new.pid # 0 => f.pid # 0
               /\ f.pid \in {current.pid, new.pid}
               /\ current.started \/ new.started => f.started
<1>1. /\ current.started \in BOOLEAN /\ copy.started \in BOOLEAN /\ new.started \in BOOLEAN
      BY DEF Row
<1>2. CASE new.started = copy.started
      BY <1>1, <1>2 DEF Flush, Row
<1>3. CASE new.started # copy.started
  <2>1. new.started
        BY <1>1, <1>3
  <2> QED
        BY <1>1, <1>3, <2>1 DEF Flush, Row
<1> QED
    BY <1>2, <1>3

\* A commit writes over an unknown row: it is safe when what it writes is
\* safe by what the loaded copy still guarantees.
LEMMA CommitPreserves ==
    ASSUME IInv, NEW r \in Requests, req[r].pc # "idle",
           NEW s, s = req[r].sid,
           NEW new \in Row, Write(r, new), Finished(r),
           consent' \in [Sessions -> Seq({"active", "revoked"})],
           \A x \in Sessions : consent[x] # <<>> => consent'[x] # <<>>,
           running' \in [Sessions -> 0..MaxDuration + 1],
           UNCHANGED <<open, opened, age, verdict>>,
           new.pid = req[r].copy.pid \/ new.pid # 0,
           new.pid # 0 => consent[s] # <<>>,
           req[r].copy.started => new.started,
           new.status \in Consented => consent'[s] # <<>>,
           new.status \in Joined => new.pid # 0,
           new.status = "active" => new.started
    PROVE  IInv'
<1> DEFINE copy == req[r].copy
<1>1. /\ s \in Sessions /\ copy \in Row /\ row[s] \in Row /\ req[r] \in Request
      /\ StillTrue(req[r]) /\ RowOK(s)
  <2>1. StillTrue(req[r])
        BY DEF IInv, RequestsOK
  <2>2. s \in Sessions
        BY <2>1 DEF StillTrue
  <2>3. RowOK(s)
        BY <2>2 DEF IInv, RowsOK
  <2>4. req[r] \in Request /\ row[s] \in Row
        BY <2>2 DEF IInv, TypeOK
  <2> QED
        BY <2>1, <2>2, <2>3, <2>4 DEF Request
<1>2. row' = [row EXCEPT ![s] = Flush(row[s], copy, new)]
      BY DEF Write
<1>3. /\ row'[s] = Flush(row[s], copy, new)
      /\ \A x \in Sessions \ {s} : row'[x] = row[x]
      BY <1>1, <1>2 DEF IInv, TypeOK
<1>4. /\ row'[s] \in Row
      /\ row'[s].status \in {row[s].status, new.status}
      /\ row[s].pid # 0 \/ new.pid # 0 => row'[s].pid # 0
      /\ row'[s].pid \in {row[s].pid, new.pid}
      /\ row[s].started \/ new.started => row'[s].started
  <2>1. /\ copy.started => row[s].started
        /\ copy.pid # 0 => row[s].pid # 0
        BY <1>1 DEF StillTrue
  <2> QED
        BY <1>1, <1>3, <2>1, FlushKeeps
<1>6. NoRequest \in Request
      BY LaunchBoundType DEF NoRequest, Request, AbsentRow, Row, Phases
<1>7. TypeOK'
  <2>1. req' \in [Requests -> Request]
        BY <1>6 DEF Finished, IInv, TypeOK
  <2>2. row' \in [Sessions -> Row]
        BY <1>1, <1>2, <1>3, <1>4 DEF IInv, TypeOK
  <2> QED
        BY <2>1, <2>2 DEF IInv, TypeOK
<1>8. RowOK(s)'
  <2>1. row'[s].pid # 0 \/ row'[s].status \in Consented => consent'[s] # <<>>
        BY <1>1, <1>4 DEF RowOK
  <2>2. row'[s].status \in Joined => row'[s].pid # 0
        BY <1>1, <1>4 DEF RowOK
  <2>3. row'[s].status = "active" => row'[s].started
        BY <1>1, <1>4 DEF RowOK
  <2> QED
        BY <2>1, <2>2, <2>3 DEF RowOK
<1>9. RowsOK'
      BY <1>3, <1>8 DEF RowsOK, RowOK, IInv
<1>10. /\ req'[r].pc = "idle"
       /\ \A x \in Requests : x # r => req'[x] = req[x]
      BY DEF Finished, NoRequest, IInv, TypeOK
<1>11. NothingCleared
       BY <1>3, <1>4 DEF NothingCleared
<1>12. RequestsOK'
  <2>1. \A x \in Requests : x # r => req'[x] = req[x]
        BY <1>10
  <2>2. \A x \in Requests : x # r /\ req'[x].pc # "idle"
                            => Checked(req[x])' /\ StillTrue(req[x])'
        BY <1>11, <2>1, OthersKeepReliance
  <2> QED
       BY <1>10, <2>2 DEF RequestsOK
<1> QED
    BY <1>7, <1>9, <1>12 DEF IInv

\* A step of one request that leaves the row alone.
LEMMA AdvancePreserves ==
    ASSUME IInv, NEW r \in Requests, NEW q \in Request,
           req' = [req EXCEPT ![r] = q],
           q.pc # "idle" => Checked(q) /\ StillTrue(q),
           open' \subseteq 1..MaxLaunches, opened' \in 0..MaxLaunches,
           UNCHANGED <<row, consent, age, running, verdict>>
    PROVE  IInv'
<1>1. /\ req'[r] = q
      /\ \A x \in Requests : x # r => req'[x] = req[x]
      BY DEF IInv, TypeOK
<1>2. q.pc # "idle" => Checked(req[r])' /\ StillTrue(req[r])'
      BY <1>1 DEF StillTrue
<1>3. RequestsOK'
  <2>1. NothingCleared
        BY DEF NothingCleared
  <2> QED
        BY <1>1, <1>2, <2>1, OthersKeepReliance DEF RequestsOK
<1>4. TypeOK'
      BY DEF IInv, TypeOK
<1>5. RowsOK'
      BY DEF IInv, RowsOK, RowOK
<1> QED
    BY <1>3, <1>4, <1>5 DEF IInv

-----------------------------------------------------------------------------
(* Every step keeps the invariant                                           *)

\* No session yet: nothing is claimed.
LEMMA InitEstablishes == Init => IInv
<1> SUFFICES ASSUME Init PROVE IInv
    OBVIOUS
<1>1. AbsentRow \in Row /\ NoRequest \in Request
      BY LaunchBoundType DEF AbsentRow, Row, NoRequest, Request, Phases
<1>2. TypeOK
      BY <1>1, PolicyAssumption DEF Init, TypeOK, AgeCap
<1>3. RowsOK /\ RequestsOK
      BY DEF Init, RowsOK, RowOK, RequestsOK, AbsentRow, NoRequest, Consented, Joined
<1> QED
    BY <1>2, <1>3 DEF IInv

\* The operations load a row.
LEMMA ArrivePreserves == ASSUME IInv, NEW r \in Requests, Arrive(r) PROVE IInv'
<1> PICK s \in Sessions :
       \/ \E granted \in {"consent_granted", "consent_denied"} : DecideLoad(r, s, granted)
       \/ LaunchLoad(r, s) \/ ConnectLoad(r, s) \/ RevokeLoad(r, s) \/ EndLoad(r, s)
       \/ \E answer \in Answers : SyncLoad(r, s, answer)
    BY DEF Arrive
<1>1. ASSUME NEW granted \in {"consent_granted", "consent_denied"}, DecideLoad(r, s, granted)
      PROVE  IInv'
  <2>1. CASE Loads(r, s, "lapse", "expired")
        BY <2>1, LoadsPreserves DEF Phases, Statuses
  <2>2. CASE granted \in Allowed(row[s].status) /\ Loads(r, s, "decide", granted)
        BY <2>2, LoadsPreserves, AllowedFacts DEF Phases, Statuses
  <2> QED
        BY <1>1, <2>1, <2>2 DEF DecideLoad
<1>2. ASSUME LaunchLoad(r, s) PROVE IInv'
      BY <1>2, LoadsPreserves, AllowedFacts DEF LaunchLoad, Phases, Statuses
<1>3. ASSUME ConnectLoad(r, s) PROVE IInv'
      BY <1>3, LoadsPreserves, AllowedFacts DEF ConnectLoad, Phases, Statuses
<1>4. ASSUME RevokeLoad(r, s) PROVE IInv'
  <2>1. \E pc \in {"hangup", "revoke"} : Loads(r, s, pc, "terminated")
        BY <1>4 DEF RevokeLoad
  <2> QED
        BY <2>1, LoadsPreserves DEF Phases, Statuses
<1>5. ASSUME EndLoad(r, s) PROVE IInv'
  <2>1. /\ \E pc \in {"hangup", "end"} : Loads(r, s, pc, "completed")
        /\ row[s].status \in {"active", "paused"}
        BY <1>5, AllowedFacts DEF EndLoad
  <2> QED
        BY <2>1, LoadsPreserves DEF Phases, Statuses
<1>6. ASSUME NEW answer \in Answers, SyncLoad(r, s, answer) PROVE IInv'
      BY <1>6, LoadsPreserves, AllowedAreStatuses DEF SyncLoad, Phases
<1> QED
    BY <1>1, <1>2, <1>3, <1>4, <1>5, <1>6

\* What a request in flight may rely on.
LEMMA InFlight ==
    ASSUME IInv, NEW r \in Requests, req[r].pc # "idle"
    PROVE  /\ Checked(req[r]) /\ StillTrue(req[r])
           /\ req[r] \in Request /\ req[r].copy \in Row
           /\ req[r].sid \in Sessions
    BY DEF IInv, RequestsOK, StillTrue, TypeOK, Request

\* Row fields under a record update.
LEMMA RowFields == \A c \in Row : /\ c.status \in Statuses \cup {"absent"}
                                 /\ c.pid \in 0..MaxLaunches /\ c.started \in BOOLEAN
                                 /\ c.reason \in TerminationReasons \cup {"none"}
    BY DEF Row

\* Withdrawing a grant deletes none.
LEMMA WithdrawnGrants ==
    ASSUME NEW grants \in Seq({"active", "revoked"}), NEW i
    PROVE  LET after == [grants EXCEPT ![i] = "revoked"]
           IN  /\ after \in Seq({"active", "revoked"})
               /\ grants # <<>> => after # <<>>
<1> DEFINE after == [grants EXCEPT ![i] = "revoked"]
<1>1. CASE i \in 1..Len(grants)
  <2>1. after \in Seq({"active", "revoked"}) /\ Len(after) = Len(grants)
        BY <1>1, ExceptSeq
  <2>2. grants # <<>> => Len(grants) # 0
        BY EmptySeq
  <2> QED
        BY <2>1, <2>2, EmptySeq
<1>2. CASE i \notin 1..Len(grants)
  <2>1. DOMAIN grants = 1..Len(grants) /\ grants \in [1..Len(grants) -> {"active", "revoked"}]
        BY LenProperties
  <2>2. after = grants
        BY <1>2, <2>1
  <2> QED
        BY <2>2
<1> QED
    BY <1>1, <1>2

\* The operations commit what they decided.
LEMMA ProceedPreserves == ASSUME IInv, NEW r \in Requests, Proceed(r) PROVE IInv'
<1> DEFINE c == req[r].copy
<1>a. /\ consent \in [Sessions -> Seq({"active", "revoked"})]
      /\ running \in [Sessions -> 0..MaxDuration + 1]
      /\ req \in [Requests -> Request] /\ opened \in 0..MaxLaunches /\ open \subseteq 1..MaxLaunches
      BY DEF IInv, TypeOK
<1>b. 0 \in 0..MaxDuration + 1
      BY PolicyAssumption
<1>1. ASSUME DecideCommit(r) PROVE IInv'
  <2> DEFINE new == [c EXCEPT !.status = req[r].status]
  <2>1. req[r].pc = "decide" /\ req[r].pc # "idle" /\ Write(r, new) /\ Finished(r)
        BY <1>1 DEF DecideCommit
  <2>2. /\ Checked(req[r]) /\ StillTrue(req[r]) /\ c \in Row /\ req[r].sid \in Sessions
        BY <2>1, InFlight
  <2>3. /\ new \in Row /\ new.pid = c.pid /\ new.started = c.started
        /\ new.status = req[r].status /\ new.status \in {"consent_granted", "consent_denied"}
        BY <2>1, <2>2 DEF Checked, Row, Statuses
  <2>4. /\ consent' \in [Sessions -> Seq({"active", "revoked"})]
        /\ \A s \in Sessions : consent[s] # <<>> => consent'[s] # <<>>
        /\ new.status = "consent_granted" => consent'[req[r].sid] # <<>>
    <3>1. CASE req[r].status = "consent_granted"
      <4>1. consent' = [consent EXCEPT ![req[r].sid] = Append(consent[req[r].sid], "active")]
            BY <1>1, <3>1 DEF DecideCommit
      <4>2. /\ Append(consent[req[r].sid], "active") \in Seq({"active", "revoked"})
            /\ Append(consent[req[r].sid], "active") # <<>>
        <5>1. consent[req[r].sid] \in Seq({"active", "revoked"})
              BY <1>a, <2>2
        <5> QED
              BY <5>1, AppendProperties
      <4> QED
            BY <1>a, <2>2, <4>1, <4>2
    <3>2. CASE req[r].status # "consent_granted"
          BY <1>1, <1>a, <2>3, <3>2 DEF DecideCommit
    <3> QED
          BY <3>1, <3>2
  <2> QED
        BY <1>1, <1>a, <2>1, <2>2, <2>3, <2>4, CommitPreserves
           DEF DecideCommit, StillTrue, Consented, Joined
<1>2. ASSUME LapseCommit(r) PROVE IInv'
  <2> DEFINE new == [c EXCEPT !.status = "expired", !.reason = "consent_expired"]
  <2>1. req[r].pc # "idle" /\ Write(r, new) /\ Finished(r)
        BY <1>2 DEF LapseCommit
  <2>2. StillTrue(req[r]) /\ c \in Row
        BY <2>1, InFlight
  <2>3. new \in Row /\ new.pid = c.pid /\ new.started = c.started /\ new.status = "expired"
        BY <2>2 DEF Row, Statuses, TerminationReasons
  <2> QED
        BY <1>2, <1>a, <2>1, <2>2, <2>3, CommitPreserves
           DEF LapseCommit, StillTrue, Consented, Joined
<1>3. ASSUME LaunchCreate(r) PROVE IInv'
  <2> DEFINE q == [req[r] EXCEPT !.pc = "launch", !.pid = opened + 1]
  <2>1. req[r].pc = "create" /\ opened < MaxLaunches /\ req' = [req EXCEPT ![r] = q]
        BY <1>3, <1>a DEF LaunchCreate
  <2>2. Checked(req[r]) /\ StillTrue(req[r]) /\ req[r] \in Request
        BY <2>1, InFlight
  <2>3. opened + 1 \in 1..MaxLaunches /\ opened + 1 \in 0..MaxLaunches
        BY <1>a, <2>1, PolicyAssumption
  <2>4. /\ q \in Request
        /\ q.pc = "launch" /\ q.pid # 0
        /\ q.copy = c /\ q.sid = req[r].sid
    <3>1. \A x \in 0..MaxLaunches :
             LET p == [req[r] EXCEPT !.pc = "launch", !.pid = x]
             IN  /\ p \in Request
                 /\ p.pc = "launch" /\ p.pid = x
                 /\ p.copy = c /\ p.sid = req[r].sid
          BY <2>2 DEF Request, Phases
    <3>2. opened + 1 # 0
          BY <1>a
    <3> QED
          BY <2>3, <3>1, <3>2
  <2>5. Checked(q) /\ StillTrue(q)
        BY <2>1, <2>2, <2>4 DEF Checked, StillTrue
  <2>6. open' \subseteq 1..MaxLaunches /\ opened' \in 0..MaxLaunches
        BY <1>3, <1>a, <2>3 DEF LaunchCreate
  <2> QED
        BY <1>3, <2>1, <2>4, <2>5, <2>6, AdvancePreserves DEF LaunchCreate
<1>4. ASSUME LaunchCommit(r) PROVE IInv'
  <2> DEFINE new == [c EXCEPT !.status = "connecting", !.pid = req[r].pid]
  <2>1. req[r].pc = "launch" /\ Write(r, new) /\ Finished(r)
        BY <1>4 DEF LaunchCommit
  <2>2. /\ Checked(req[r]) /\ StillTrue(req[r]) /\ c \in Row /\ req[r] \in Request
        BY <2>1, InFlight
  <2>3. req[r].pid # 0 /\ consent[req[r].sid] # <<>>
        BY <2>1, <2>2 DEF Checked, StillTrue, Consented
  <2>4. /\ new \in Row /\ new.pid = req[r].pid /\ new.started = c.started
        /\ new.status = "connecting"
        BY <2>2 DEF Row, Statuses, Request
  <2> QED
        BY <1>4, <1>a, <2>1, <2>2, <2>3, <2>4, CommitPreserves
           DEF LaunchCommit, StillTrue, Consented, Joined
<1>5. ASSUME ConnectCommit(r) PROVE IInv'
  <2> DEFINE new == [c EXCEPT !.status = "active", !.started = TRUE]
  <2>1. req[r].pc = "connect" /\ Write(r, new) /\ Finished(r)
        BY <1>5 DEF ConnectCommit
  <2>2. Checked(req[r]) /\ StillTrue(req[r]) /\ c \in Row
        BY <2>1, InFlight
  <2>3. c.pid # 0 /\ consent[req[r].sid] # <<>>
        BY <2>1, <2>2 DEF Checked, StillTrue, Joined
  <2>4. new \in Row /\ new.pid = c.pid /\ new.started /\ new.status = "active"
        BY <2>2 DEF Row, Statuses
  <2>5. running' \in [Sessions -> 0..MaxDuration + 1]
        BY <1>5, <1>a, <1>b DEF ConnectCommit
  <2> QED
        BY <1>5, <1>a, <2>1, <2>2, <2>3, <2>4, <2>5, CommitPreserves
           DEF ConnectCommit, Consented, Joined
<1>6. ASSUME HangUp(r) PROVE IInv'
  <2> DEFINE next == IF req[r].status = "completed" THEN "end" ELSE "revoke"
             q == [req[r] EXCEPT !.pc = next]
  <2>1. req[r].pc = "hangup" /\ req' = [req EXCEPT ![r] = q]
        BY <1>6, <1>a DEF HangUp
  <2>2. Checked(req[r]) /\ StillTrue(req[r]) /\ req[r] \in Request
        BY <2>1, InFlight
  <2>3. q \in Request /\ Checked(q) /\ StillTrue(q)
        BY <2>1, <2>2 DEF Request, Phases, Checked, StillTrue
  <2>4. open' \subseteq 1..MaxLaunches /\ opened' \in 0..MaxLaunches
        BY <1>6, <1>a DEF HangUp
  <2> QED
        BY <1>6, <2>1, <2>3, <2>4, AdvancePreserves DEF HangUp
<1>7. ASSUME RevokeCommit(r) PROVE IInv'
  <2> DEFINE new == [c EXCEPT !.status = "terminated", !.reason = "employee_revoked"]
  <2>1. req[r].pc # "idle" /\ Write(r, new) /\ Finished(r)
        BY <1>7 DEF RevokeCommit
  <2>2. StillTrue(req[r]) /\ c \in Row /\ req[r].sid \in Sessions
        BY <2>1, InFlight
  <2>3. new \in Row /\ new.pid = c.pid /\ new.started = c.started /\ new.status = "terminated"
        BY <2>2 DEF Row, Statuses, TerminationReasons
  <2>4. /\ consent' \in [Sessions -> Seq({"active", "revoked"})]
        /\ \A s \in Sessions : consent[s] # <<>> => consent'[s] # <<>>
    <3>1. CASE req[r].grant = 0
          BY <1>7, <1>a, <3>1 DEF RevokeCommit
    <3>2. CASE req[r].grant # 0
      <4> DEFINE after == [consent[req[r].sid] EXCEPT ![req[r].grant] = "revoked"]
      <4>1. consent' = [consent EXCEPT ![req[r].sid] = after]
            BY <1>7, <3>2 DEF RevokeCommit
      <4>2. consent[req[r].sid] \in Seq({"active", "revoked"})
            BY <1>a, <2>2
      <4>3. /\ after \in Seq({"active", "revoked"})
            /\ consent[req[r].sid] # <<>> => after # <<>>
            BY <4>2, WithdrawnGrants
      <4> QED
            BY <1>a, <2>2, <4>1, <4>3
    <3> QED
          BY <3>1, <3>2
  <2> QED
        BY <1>7, <1>a, <2>1, <2>2, <2>3, <2>4, CommitPreserves
           DEF RevokeCommit, StillTrue, Consented, Joined
<1>8. ASSUME EndCommit(r) PROVE IInv'
  <2> DEFINE new == [c EXCEPT !.status = "completed", !.reason = "completed"]
  <2>1. req[r].pc = "end" /\ Write(r, new) /\ Finished(r)
        BY <1>8 DEF EndCommit
  <2>2. Checked(req[r]) /\ StillTrue(req[r]) /\ c \in Row
        BY <2>1, InFlight
  <2>3. consent[req[r].sid] # <<>>
        BY <2>1, <2>2 DEF Checked, StillTrue, Joined
  <2>4. new \in Row /\ new.pid = c.pid /\ new.started = c.started /\ new.status = "completed"
        BY <2>2 DEF Row, Statuses, TerminationReasons
  <2> QED
        BY <1>8, <1>a, <2>1, <2>2, <2>3, <2>4, CommitPreserves
           DEF EndCommit, StillTrue, Consented, Joined
<1>9. ASSUME SyncCommit(r) PROVE IInv'
  <2> DEFINE starts == req[r].status = "active" /\ ~c.started
             new == [c EXCEPT !.status = req[r].status, !.started = c.started \/ starts]
  <2>1. req[r].pc = "sync" /\ Write(r, new) /\ Finished(r)
        BY <1>9 DEF SyncCommit
  <2>2. Checked(req[r]) /\ StillTrue(req[r]) /\ c \in Row
        BY <2>1, InFlight
  <2>3. c.pid # 0 /\ consent[req[r].sid] # <<>> /\ req[r].status \in Statuses
        BY <2>1, <2>2, AllowedAreStatuses DEF Checked, StillTrue
  <2>4. c.started \in BOOLEAN
        BY <2>2 DEF Row
  <2>5. /\ new \in Row /\ new.pid = c.pid /\ new.status = req[r].status
        /\ new.started = (c.started \/ starts)
        BY <2>2, <2>3, <2>4 DEF Row
  <2>6. running' \in [Sessions -> 0..MaxDuration + 1]
        BY <1>9, <1>a, <1>b DEF SyncCommit
  <2> QED
        BY <1>9, <1>a, <2>1, <2>2, <2>3, <2>4, <2>5, <2>6, CommitPreserves
           DEF SyncCommit
<1> QED
    BY <1>1, <1>2, <1>3, <1>4, <1>5, <1>6, <1>7, <1>8, <1>9 DEF Proceed

\* A request that dies relies on nothing any more.
LEMMA DropPreserves == ASSUME IInv, NEW r \in Requests, Drop(r) PROVE IInv'
<1>1. NoRequest \in Request /\ NoRequest.pc = "idle"
      BY LaunchBoundType DEF NoRequest, Request, AbsentRow, Row, Phases
<1>2. opened \in 0..MaxLaunches /\ open \subseteq 1..MaxLaunches
      BY DEF IInv, TypeOK
<1> QED
    BY <1>1, <1>2, AdvancePreserves DEF Drop, Finished

\* A new session awaits consent and has nothing else.
LEMMA RequestPreserves ==
    ASSUME IInv, NEW s \in Sessions, RequestSession(s) PROVE IInv'
<1>1. /\ row \in [Sessions -> Row] /\ age \in [Sessions -> 0..AgeCap]
      /\ row[s].status = "absent"
      /\ row' = [row EXCEPT ![s] = [row[s] EXCEPT !.status = "consent_pending"]]
      /\ age' = [age EXCEPT ![s] = 0]
      /\ UNCHANGED <<consent, open, opened, running, req, verdict>>
      BY DEF RequestSession, IInv, TypeOK
<1>2. /\ [row[s] EXCEPT !.status = "consent_pending"] \in Row
      /\ row'[s].status = "consent_pending"
      /\ row'[s].pid = row[s].pid /\ row'[s].started = row[s].started
      BY <1>1 DEF Row, Statuses
<1>3. \A x \in Sessions \ {s} : row'[x] = row[x]
      BY <1>1
<1>4. 0 \in 0..AgeCap
      BY PolicyAssumption DEF AgeCap
<1>5. TypeOK'
  <2>1. row' \in [Sessions -> Row] /\ age' \in [Sessions -> 0..AgeCap]
        BY <1>1, <1>2, <1>4
  <2> QED
        BY <1>1, <2>1 DEF IInv, TypeOK
<1>6. RowsOK'
      BY <1>1, <1>2, <1>3 DEF RowsOK, RowOK, IInv, Consented, Joined
<1>7. RequestsOK'
      BY <1>1, <1>2, <1>3 DEF RequestsOK, StillTrue, IInv
<1> QED
    BY <1>5, <1>6, <1>7 DEF IInv

\* Time changes no row.
LEMMA TickPreserves == ASSUME IInv, Tick PROVE IInv'
<1>1. ConsentWindow \in Nat /\ LaunchTimeout \in Nat /\ MaxDuration \in Nat /\ AgeCap \in Nat
      BY PolicyAssumption DEF AgeCap
<1>2. age \in [Sessions -> 0..AgeCap] /\ running \in [Sessions -> 0..MaxDuration + 1]
      BY DEF IInv, TypeOK
<1>3. age' \in [Sessions -> 0..AgeCap]
      BY <1>1, <1>2 DEF Tick
<1>4. running' \in [Sessions -> 0..MaxDuration + 1]
      BY <1>1, <1>2 DEF Tick
<1>5. UNCHANGED <<row, consent, open, opened, req, verdict>>
      BY DEF Tick
<1> QED
    BY <1>3, <1>4, <1>5 DEF IInv, TypeOK, RowsOK, RowOK, RequestsOK, StillTrue

\* A verdict is one of the three reasons, or none.
LEMMA OverdueType == \A s \in Sessions : Overdue(s) \in SweepReasons \cup {"none"}
    BY DEF Overdue, SweepReasons

\* The selects of a pass, and its calls to the provider, change no row.
LEMMA SweepLoadPreserves == ASSUME IInv, SweepLoad PROVE IInv'
<1>1. verdict' \in [Sessions -> SweepReasons \cup {"none"}]
      BY OverdueType DEF SweepLoad
<1>2. open' \subseteq 1..MaxLaunches
      BY DEF SweepLoad, IInv, TypeOK
<1>3. UNCHANGED <<row, consent, opened, age, running, req>>
      BY DEF SweepLoad
<1> QED
    BY <1>1, <1>2, <1>3 DEF IInv, TypeOK, RowsOK, RowOK, RequestsOK, StillTrue

\* A row as a pass that commits leaves it.
LEMMA SweptRow ==
    ASSUME IInv, NEW s \in Sessions, Reasons \subseteq TerminationReasons
    PROVE  /\ Swept(s) \in Row
           /\ Swept(s).pid = row[s].pid /\ Swept(s).started = row[s].started
           /\ Swept(s) = row[s] \/ Swept(s).status \in {"terminated", "expired"}
<1>1. row[s] \in Row
      BY DEF IInv, TypeOK
<1>2. CASE verdict[s] = "none"
      BY <1>1, <1>2 DEF Swept
<1>3. CASE verdict[s] = "max_duration_exceeded"
  <2>1. verdict[s] \in TerminationReasons
        BY <1>3 DEF Reasons
  <2> QED
        BY <1>3, <2>1 DEF TerminationReasons
<1>4. CASE verdict[s] \notin {"none", "max_duration_exceeded"}
  <2>1. verdict[s] \in TerminationReasons
        BY <1>4 DEF Reasons
  <2>2. Swept(s) = [row[s] EXCEPT !.status = "expired", !.reason = verdict[s]]
        BY <1>4 DEF Swept
  <2> QED
        BY <1>1, <2>1, <2>2 DEF Row, Statuses
<1> QED
    BY <1>2, <1>3, <1>4

\* A pass only ends sessions, and clears nothing.
LEMMA SweepCommitPreserves == ASSUME IInv, SweepCommit PROVE IInv'
<1>1. /\ row \in [Sessions -> Row]
      /\ UNCHANGED <<consent, open, opened, age, running, req>>
      BY DEF SweepCommit, IInv, TypeOK
<1>2. \A s \in Sessions : /\ row'[s] \in Row
                          /\ row'[s].pid = row[s].pid /\ row'[s].started = row[s].started
                          /\ row'[s] = row[s] \/ row'[s].status \in {"terminated", "expired"}
      BY <1>1, SweptRow DEF SweepCommit
<1>3. row' \in [Sessions -> Row]
      BY <1>1, <1>2 DEF SweepCommit
<1>4. TypeOK'
      BY <1>1, <1>3 DEF SweepCommit, IInv, TypeOK
<1>5. RowsOK'
      BY <1>1, <1>2 DEF RowsOK, RowOK, IInv, Consented, Joined
<1>6. RequestsOK'
      BY <1>1, <1>2 DEF RequestsOK, StillTrue, IInv
<1> QED
    BY <1>4, <1>5, <1>6 DEF IInv

\* Every step keeps the invariant.
LEMMA StepPreserves == IInv /\ [Next]_vars => IInv'
<1> SUFFICES ASSUME IInv, [Next]_vars PROVE IInv'
    OBVIOUS
<1>1. CASE UNCHANGED vars
      BY <1>1 DEF vars, IInv, TypeOK, RowsOK, RowOK, RequestsOK, StillTrue
<1>2. ASSUME NEW s \in Sessions, RequestSession(s) PROVE IInv'
      BY <1>2, RequestPreserves
<1>3. ASSUME NEW r \in Requests, Arrive(r) \/ Proceed(r) \/ Drop(r) PROVE IInv'
      BY <1>3, ArrivePreserves, ProceedPreserves, DropPreserves
<1>4. CASE Tick
      BY <1>4, TickPreserves
<1>5. CASE SweepLoad \/ SweepCommit
      BY <1>5, SweepLoadPreserves, SweepCommitPreserves
<1> QED
    BY <1>1, <1>2, <1>3, <1>4, <1>5 DEF Next

-----------------------------------------------------------------------------
(* The theorems                                                             *)

\* The inductive invariant of the specification.
THEOREM InductiveInvariant == Spec => []IInv
    BY InitEstablishes, StepPreserves, PTL DEF Spec

\* Every status, reason and provider id stays within its column.
THEOREM TypeCorrect == Spec => []TypeOK
<1>1. IInv => TypeOK
      BY DEF IInv
<1> QED
    BY <1>1, InductiveInvariant, PTL

\* No interleaving of consent, launch, connection, poll and sweeper takes a
\* session to the provider before its employee agreed.
THEOREM ConsentComesFirst == Spec => []ConsentBeforeSupport
<1>1. IInv => ConsentBeforeSupport
      BY DEF IInv, RowsOK, RowOK, ConsentBeforeSupport, Consented, Joined
<1> QED
    BY <1>1, InductiveInvariant, PTL

\* Every active session is within the reach of the sweeper's duration rule.
THEOREM ActiveCanBeTimedOut == Spec => []ActiveIsTimed
<1>1. IInv => ActiveIsTimed
      BY DEF IInv, RowsOK, RowOK, ActiveIsTimed, Joined
<1> QED
    BY <1>1, InductiveInvariant, PTL

\* The body of RevivedOnlyByOverlap.
Overlap ==
    \A s \in Sessions :
       row[s].status \in Terminal /\ row'[s].status \notin Terminal
       => \E r \in Requests : /\ req[r].sid = s
                              /\ req[r].copy.status \notin Terminal

\* What a commit writes into a finished session is a final status, or the
\* request had loaded the session before it finished.
LEMMA ProceedOverlaps == ASSUME IInv, NEW r \in Requests, Proceed(r) PROVE Overlap
<1> DEFINE c == req[r].copy
<1>1. CASE LaunchCreate(r) \/ HangUp(r)
      BY <1>1 DEF LaunchCreate, HangUp, Overlap
<1>2. CASE ~(LaunchCreate(r) \/ HangUp(r))
  <2>1. PICK new : /\ Write(r, new) /\ req[r].pc # "idle"
                   /\ new.status \in Terminal \/ c.status \notin Terminal
    <3>1. ASSUME req[r].pc # "idle" PROVE Checked(req[r]) /\ c \in Row
          BY <3>1, InFlight
    <3>2. CASE DecideCommit(r)
          BY <3>1, <3>2 DEF DecideCommit, Checked, Terminal
    <3>3. CASE LapseCommit(r)
      <4> DEFINE new == [c EXCEPT !.status = "expired", !.reason = "consent_expired"]
      <4>1. Write(r, new) /\ req[r].pc # "idle"
            BY <3>3 DEF LapseCommit
      <4>2. new.status \in Terminal
            BY <3>1, <4>1 DEF Terminal, Row
      <4> QED
          BY <4>1, <4>2
    <3>4. CASE LaunchCommit(r)
          BY <3>1, <3>4 DEF LaunchCommit, Checked, Terminal
    <3>5. CASE ConnectCommit(r)
          BY <3>1, <3>5 DEF ConnectCommit, Checked, Terminal
    <3>6. CASE RevokeCommit(r)
      <4> DEFINE new == [c EXCEPT !.status = "terminated", !.reason = "employee_revoked"]
      <4>1. Write(r, new) /\ req[r].pc # "idle"
            BY <3>6 DEF RevokeCommit
      <4>2. new.status \in Terminal
            BY <3>1, <4>1 DEF Terminal, Row
      <4> QED
          BY <4>1, <4>2
    <3>7. CASE EndCommit(r)
      <4> DEFINE new == [c EXCEPT !.status = "completed", !.reason = "completed"]
      <4>1. Write(r, new) /\ req[r].pc # "idle"
            BY <3>7 DEF EndCommit
      <4>2. new.status \in Terminal
            BY <3>1, <4>1 DEF Terminal, Row
      <4> QED
          BY <4>1, <4>2
    <3>8. CASE SyncCommit(r)
          BY <3>1, <3>8, AllowedFacts DEF SyncCommit, Checked
    <3> QED
        BY <1>2, <3>2, <3>3, <3>4, <3>5, <3>6, <3>7, <3>8 DEF Proceed
  <2>2. req[r].sid \in Sessions
        BY <2>1, InFlight
  <2>3. /\ row'[req[r].sid].status \in {row[req[r].sid].status, new.status}
        /\ \A s \in Sessions : s # req[r].sid => row'[s] = row[s]
        BY <2>1, <2>2 DEF Write, Flush, IInv, TypeOK
  <2> QED
        BY <2>1, <2>2, <2>3 DEF Overlap
<1> QED
    BY <1>1, <1>2

\* Every step obeys RevivedOnlyByOverlap.
LEMMA StepOverlaps == IInv /\ [Next]_vars => Overlap
<1> SUFFICES ASSUME IInv, [Next]_vars PROVE Overlap
    OBVIOUS
<1>1. CASE UNCHANGED row
      BY <1>1 DEF Overlap
<1>2. ASSUME NEW s \in Sessions, RequestSession(s) PROVE Overlap
      BY <1>2 DEF RequestSession, Overlap, Terminal, IInv, TypeOK
<1>3. ASSUME NEW r \in Requests, Arrive(r) PROVE UNCHANGED row
      BY <1>3 DEF Arrive, DecideLoad, LaunchLoad, ConnectLoad, RevokeLoad, EndLoad,
                  SyncLoad, Loads
<1>4. ASSUME NEW r \in Requests, Proceed(r) PROVE Overlap
      BY <1>4, ProceedOverlaps
<1>5. CASE SweepCommit
  <2>1. ASSUME Reasons \subseteq TerminationReasons, NEW s \in Sessions
        PROVE  row'[s] = row[s] \/ row'[s].status \in Terminal
    <3>1. row'[s] = Swept(s)
          BY <1>5, <2>1 DEF SweepCommit
    <3> QED
          BY <2>1, <3>1, SweptRow DEF Terminal
  <2>2. CASE Reasons \subseteq TerminationReasons
        BY <2>1, <2>2 DEF Overlap
  <2>3. CASE ~(Reasons \subseteq TerminationReasons)
        BY <1>1, <1>5, <2>3 DEF SweepCommit
  <2> QED
        BY <2>2, <2>3
<1>6. UNCHANGED row \/ SweepCommit \/ (\E s \in Sessions : RequestSession(s))
      \/ (\E r \in Requests : Proceed(r))
      BY <1>3 DEF Next, vars, Drop, Tick, SweepLoad
<1> QED
    BY <1>1, <1>2, <1>4, <1>5, <1>6

\* A finished session is only revived by a request that overlapped its end.
THEOREM RevivalNeedsOverlap == Spec => RevivedOnlyByOverlap
<1>1. IInv /\ [Next]_vars => [Overlap]_vars
      BY StepOverlaps
<1> QED
    BY <1>1, InductiveInvariant, PTL DEF Spec, RevivedOnlyByOverlap, Overlap

-----------------------------------------------------------------------------
(* What the provider still holds                                            *)

\* The ids that rows and requests know are of sessions created so far.
PidsOK ==
    /\ open \subseteq 1..opened
    /\ \A s \in Sessions : row[s].pid \in 0..opened
    /\ \A r \in Requests : req[r].pid \in 0..opened /\ req[r].copy.pid \in 0..opened

\* A request about to end a session in use has hung up.
HungUpOK ==
    \A r \in Requests :
       req[r].pc \in {"revoke", "end"} /\ req[r].copy.status \in InUse
       => req[r].copy.pid \notin open

HInv == PidsOK /\ HungUpOK

\* No session has been created yet.
LEMMA InitHungUp == Init => HInv
    BY DEF Init, HInv, PidsOK, HungUpOK, AbsentRow, NoRequest

\* A request loads a known id, and comes to its commit without a hang-up only
\* when the row is not in use.
LEMMA LoadsHungUp ==
    ASSUME IInv, HInv, NEW r \in Requests, NEW s \in Sessions, NEW pc, NEW status,
           Loads(r, s, pc, status),
           pc \in {"revoke", "end"} => row[s].status \notin InUse
    PROVE  HInv'
<1>1. PICK i \in 0..Len(consent[s]) :
          req' = [req EXCEPT ![r] = [pc |-> pc, sid |-> s, copy |-> row[s],
                                     grant |-> i, pid |-> 0, status |-> status]]
      BY DEF Loads
<1>2. UNCHANGED <<row, open, opened>> /\ opened \in Nat
      BY DEF Loads, IInv, TypeOK
<1>3. /\ req'[r].pc = pc /\ req'[r].copy = row[s] /\ req'[r].pid = 0
      /\ \A x \in Requests : x # r => req'[x] = req[x]
      BY <1>1 DEF IInv, TypeOK
<1>4. PidsOK'
      BY <1>2, <1>3 DEF HInv, PidsOK
<1>5. HungUpOK'
      BY <1>2, <1>3 DEF HInv, HungUpOK
<1> QED
    BY <1>4, <1>5 DEF HInv

\* A request that is over relies on nothing.
LEMMA FinishedHungUp ==
    ASSUME IInv, HInv, NEW r \in Requests, Finished(r), UNCHANGED <<open, opened>>,
           \A s \in Sessions : row'[s].pid \in 0..opened
    PROVE  HInv'
<1>1. /\ req'[r].pc = "idle" /\ req'[r].copy.pid = 0 /\ req'[r].pid = 0
      /\ \A x \in Requests : x # r => req'[x] = req[x]
      BY DEF Finished, NoRequest, AbsentRow, IInv, TypeOK
<1>2. opened \in Nat
      BY DEF IInv, TypeOK
<1>3. PidsOK'
      BY <1>1, <1>2 DEF HInv, PidsOK
<1>4. HungUpOK'
      BY <1>1 DEF HInv, HungUpOK
<1> QED
    BY <1>3, <1>4 DEF HInv

\* A commit writes the id it loaded, or the one it was given.
LEMMA CommitHungUp ==
    ASSUME IInv, HInv, NEW r \in Requests, req[r].pc # "idle", NEW new,
           Write(r, new), Finished(r), UNCHANGED <<open, opened>>,
           new.pid \in {req[r].copy.pid, req[r].pid}
    PROVE  HInv'
<1>1. req[r].sid \in Sessions
      BY InFlight
<1>2. /\ row'[req[r].sid].pid \in {row[req[r].sid].pid, new.pid}
      /\ \A s \in Sessions : s # req[r].sid => row'[s] = row[s]
      BY <1>1 DEF Write, Flush, IInv, TypeOK
<1>3. \A s \in Sessions : row'[s].pid \in 0..opened
      BY <1>1, <1>2 DEF HInv, PidsOK
<1> QED
    BY <1>3, FinishedHungUp

\* A step that leaves the requests and the ids alone, and opens nothing.
LEMMA QuietHungUp ==
    ASSUME HInv, UNCHANGED <<req, opened>>, open' \subseteq open,
           \A s \in Sessions : row'[s].pid = row[s].pid
    PROVE  HInv'
    BY DEF HInv, PidsOK, HungUpOK

\* Whatever a request loads, it has to hang up before it ends a session in use.
LEMMA ArriveHungUp == ASSUME IInv, HInv, NEW r \in Requests, Arrive(r) PROVE HInv'
<1> PICK s \in Sessions :
       \/ \E granted \in {"consent_granted", "consent_denied"} : DecideLoad(r, s, granted)
       \/ LaunchLoad(r, s) \/ ConnectLoad(r, s) \/ RevokeLoad(r, s) \/ EndLoad(r, s)
       \/ \E answer \in Answers : SyncLoad(r, s, answer)
    BY DEF Arrive
<1>0. row[s].status \in InUse => row[s].pid # 0
      BY DEF IInv, RowsOK, RowOK, Joined, InUse
<1>1. ASSUME NEW granted \in {"consent_granted", "consent_denied"}, DecideLoad(r, s, granted)
      PROVE  HInv'
      BY <1>1, LoadsHungUp DEF DecideLoad
<1>2. ASSUME LaunchLoad(r, s) \/ ConnectLoad(r, s) PROVE HInv'
      BY <1>2, LoadsHungUp DEF LaunchLoad, ConnectLoad
<1>3. ASSUME RevokeLoad(r, s) PROVE HInv'
  <2>1. CASE row[s].pid # 0 /\ row[s].status \in {"connecting", "active", "paused"}
    <3>1. Loads(r, s, "hangup", "terminated")
          BY <1>3, <2>1 DEF RevokeLoad
    <3> QED
        BY <3>1, LoadsHungUp
  <2>2. CASE ~(row[s].pid # 0 /\ row[s].status \in {"connecting", "active", "paused"})
    <3>1. Loads(r, s, "revoke", "terminated")
          BY <1>3, <2>2 DEF RevokeLoad
    <3> QED
        BY <1>0, <2>2, <3>1, LoadsHungUp DEF InUse
  <2> QED
      BY <2>1, <2>2
<1>4. ASSUME EndLoad(r, s) PROVE HInv'
  <2>1. row[s].status \in InUse
        BY <1>4, AllowedFacts DEF EndLoad, InUse
  <2>2. Loads(r, s, "hangup", "completed")
        BY <1>0, <1>4, <2>1 DEF EndLoad
  <2> QED
      BY <2>2, LoadsHungUp
<1>5. ASSUME NEW answer \in Answers, SyncLoad(r, s, answer) PROVE HInv'
      BY <1>5, LoadsHungUp DEF SyncLoad
<1> QED
    BY <1>1, <1>2, <1>3, <1>4, <1>5

\* A new session has a new id; a hang-up closes the id that was loaded.
LEMMA ProceedHungUp == ASSUME IInv, HInv, NEW r \in Requests, Proceed(r) PROVE HInv'
<1> DEFINE c == req[r].copy
<1>1. /\ req \in [Requests -> Request] /\ opened \in Nat
      BY DEF IInv, TypeOK
<1>2. ASSUME LaunchCreate(r) PROVE HInv'
  <2>1. /\ req'[r].pc = "launch" /\ req'[r].pid = opened + 1 /\ req'[r].copy = c
        /\ \A x \in Requests : x # r => req'[x] = req[x]
        /\ opened' = opened + 1 /\ open' = open \cup {opened + 1} /\ UNCHANGED row
        BY <1>1, <1>2 DEF LaunchCreate, Request
  <2>2. PidsOK'
    <3>0. /\ opened \in Nat /\ open \subseteq 1..opened
          /\ opened' = opened + 1 /\ open' = open \cup {opened + 1}
          BY <1>1, <2>1 DEF HInv, PidsOK
    <3>1. open' \subseteq 1..opened' /\ 0..opened \subseteq 0..opened'
      <4>1. 1..opened \subseteq 1..(opened + 1) /\ 0..opened \subseteq 0..(opened + 1)
            /\ opened + 1 \in 1..(opened + 1)
            BY <3>0
      <4> QED
          BY <3>0, <4>1
    <3>2. \A s \in Sessions : row'[s].pid \in 0..opened'
          BY <2>1, <3>1 DEF HInv, PidsOK
    <3>3. \A x \in Requests : req'[x].pid \in 0..opened' /\ req'[x].copy.pid \in 0..opened'
      <4>1. opened + 1 \in 0..opened'
            BY <1>1, <2>1
      <4> QED
          BY <2>1, <3>1, <4>1 DEF HInv, PidsOK
    <3> QED
        BY <3>1, <3>2, <3>3 DEF PidsOK
  <2>3. \A x \in Requests : req[x].copy.pid # opened + 1
        BY <1>1 DEF HInv, PidsOK
  <2>4. HungUpOK'
        BY <2>1, <2>3 DEF HInv, HungUpOK
  <2> QED
      BY <2>2, <2>4 DEF HInv
<1>3. ASSUME HangUp(r) PROVE HInv'
  <2>1. /\ req'[r].pid = req[r].pid /\ req'[r].copy = c
        /\ \A x \in Requests : x # r => req'[x] = req[x]
        /\ open' = open \ {c.pid} /\ UNCHANGED <<row, opened>>
        BY <1>1, <1>3 DEF HangUp, Request
  <2>2. PidsOK'
        BY <2>1 DEF HInv, PidsOK
  <2>3. HungUpOK'
        BY <2>1 DEF HInv, HungUpOK
  <2> QED
      BY <2>2, <2>3 DEF HInv
<1>4. ASSUME ~(LaunchCreate(r) \/ HangUp(r)) PROVE HInv'
  <2>1. /\ req[r].pc # "idle" /\ Finished(r) /\ UNCHANGED <<open, opened>>
        BY <1>4 DEF Proceed, DecideCommit, LapseCommit, LaunchCommit, ConnectCommit,
                    RevokeCommit, EndCommit, SyncCommit
  <2>2. c \in Row
        BY <2>1, InFlight
  <2>3. \E new : Write(r, new) /\ new.pid \in {c.pid, req[r].pid}
    <3>1. CASE LaunchCommit(r)
      <4> DEFINE new == [c EXCEPT !.status = "connecting", !.pid = req[r].pid]
      <4>1. Write(r, new) /\ new.pid = req[r].pid
            BY <2>2, <3>1 DEF LaunchCommit, Row
      <4> QED
          BY <4>1
    <3>2. CASE DecideCommit(r)
      <4> DEFINE new == [c EXCEPT !.status = req[r].status]
      <4>1. Write(r, new) /\ new.pid = c.pid
            BY <2>2, <3>2 DEF DecideCommit, Row
      <4> QED
          BY <4>1
    <3>3. CASE LapseCommit(r) \/ RevokeCommit(r) \/ EndCommit(r)
      <4>1. PICK status, reason : Write(r, [c EXCEPT !.status = status, !.reason = reason])
            BY <3>3 DEF LapseCommit, RevokeCommit, EndCommit
      <4>2. [c EXCEPT !.status = status, !.reason = reason].pid = c.pid
            BY <2>2 DEF Row
      <4> QED
          BY <4>1, <4>2
    <3>4. CASE ConnectCommit(r) \/ SyncCommit(r)
      <4>1. PICK status, started : Write(r, [c EXCEPT !.status = status, !.started = started])
        <5>1. CASE ConnectCommit(r)
              BY <5>1 DEF ConnectCommit
        <5>2. CASE SyncCommit(r)
              BY <5>2 DEF SyncCommit
        <5> QED
            BY <3>4, <5>1, <5>2
      <4>2. [c EXCEPT !.status = status, !.started = started].pid = c.pid
            BY <2>2 DEF Row
      <4> QED
          BY <4>1, <4>2
    <3> QED
        BY <1>4, <3>1, <3>2, <3>3, <3>4 DEF Proceed
  <2> QED
      BY <2>1, <2>3, CommitHungUp
<1> QED
    BY <1>2, <1>3, <1>4

\* Every step keeps what the provider's side relies on.
LEMMA StepHungUp == IInv /\ HInv /\ [Next]_vars => HInv'
<1> SUFFICES ASSUME IInv, HInv, [Next]_vars PROVE HInv'
    OBVIOUS
<1>1. CASE UNCHANGED vars
      BY <1>1, QuietHungUp DEF vars
<1>2. ASSUME NEW s \in Sessions, RequestSession(s) PROVE HInv'
  <2>1. \A x \in Sessions : row'[x].pid = row[x].pid
        BY <1>2 DEF RequestSession, IInv, TypeOK, Row
  <2> QED
      BY <1>2, <2>1, QuietHungUp DEF RequestSession
<1>3. ASSUME NEW r \in Requests, Arrive(r) \/ Proceed(r) PROVE HInv'
      BY <1>3, ArriveHungUp, ProceedHungUp
<1>4. ASSUME NEW r \in Requests, Drop(r) PROVE HInv'
      BY <1>4, FinishedHungUp DEF Drop, HInv, PidsOK
<1>5. CASE Tick
      BY <1>5, QuietHungUp DEF Tick
<1>6. CASE SweepLoad
  <2>1. open' \subseteq open
        BY <1>6 DEF SweepLoad
  <2> QED
      BY <1>6, <2>1, QuietHungUp DEF SweepLoad
<1>7. CASE SweepCommit
  <2>1. \A s \in Sessions : row'[s].pid = row[s].pid
        BY <1>7, SweptRow DEF SweepCommit
  <2> QED
      BY <1>7, <2>1, QuietHungUp DEF SweepCommit
<1> QED
    BY <1>1, <1>2, <1>3, <1>4, <1>5, <1>6, <1>7 DEF Next

\* The exceptions of HungUpWhenFinished.
LeftOpen(s) ==
    \/ verdict[s] = "consent_expired"
    \/ \E r \in Requests :
          /\ req[r].sid = s /\ req'[r] # req[r]
          /\ req[r].pc \in {"lapse", "sync"} \/ req[r].copy # row[s]

\* The body of HungUpWhenFinished.
Hangs ==
    \A s \in Sessions :
       row[s].status \in InUse /\ row'[s].status \in Terminal /\ row'[s].pid \in open'
       => LeftOpen(s)

\* A commit that ends a session in use as it loaded it has hung up.
LEMMA ProceedHangs == ASSUME IInv, HInv, NEW r \in Requests, Proceed(r) PROVE Hangs
<1> DEFINE c == req[r].copy
           s == req[r].sid
<1>1. CASE LaunchCreate(r) \/ HangUp(r)
      BY <1>1 DEF LaunchCreate, HangUp, Hangs, InUse, Terminal
<1>2. ASSUME ~(LaunchCreate(r) \/ HangUp(r)) PROVE Hangs
  <2>1. req[r].pc \notin {"idle", "create", "hangup"} /\ Finished(r) /\ UNCHANGED open
        BY <1>2 DEF Proceed, DecideCommit, LapseCommit, LaunchCommit, ConnectCommit,
                    RevokeCommit, EndCommit, SyncCommit
  <2>2. Checked(req[r]) /\ c \in Row /\ s \in Sessions
        BY <2>1, InFlight
  <2>3. PICK new : Write(r, new)
        BY <1>2 DEF Proceed, DecideCommit, LapseCommit, LaunchCommit, ConnectCommit,
                    RevokeCommit, EndCommit, SyncCommit
  <2>4. \A x \in Sessions : x # s => row'[x] = row[x]
        BY <2>2, <2>3 DEF Write, IInv, TypeOK
  <2>5. req'[r] # req[r]
        BY <2>1 DEF Finished, NoRequest, IInv, TypeOK
  <2>6. ASSUME c = row[s], row[s].status \in InUse, row'[s].status \in Terminal,
               req[r].pc \notin {"lapse", "sync"}
        PROVE  row'[s].pid \notin open'
    <3>1. CASE DecideCommit(r)
          BY <2>2, <2>6, <3>1 DEF DecideCommit, Checked, InUse
    <3>2. CASE LaunchCommit(r)
          BY <2>2, <2>6, <3>2 DEF LaunchCommit, Checked, InUse
    <3>3. CASE ConnectCommit(r)
      <4>1. row' = [row EXCEPT ![s] = Flush(row[s], c, [c EXCEPT !.status = "active",
                                                                 !.started = TRUE])]
            BY <3>3 DEF ConnectCommit, Write
      <4>2. row'[s].status \in {"active", row[s].status}
            BY <2>2, <4>1 DEF Flush, Row, IInv, TypeOK
      <4> QED
          BY <2>6, <4>2 DEF InUse, Terminal
    <3>4. CASE RevokeCommit(r) \/ EndCommit(r)
      <4>1. PICK status, reason : Write(r, [c EXCEPT !.status = status, !.reason = reason])
            BY <3>4 DEF RevokeCommit, EndCommit
      <4>2. row'[s].pid = c.pid
            BY <2>2, <2>6, <4>1 DEF Write, Flush, Row, IInv, TypeOK
      <4>3. c.pid \notin open
            BY <2>6, <3>4 DEF RevokeCommit, EndCommit, HInv, HungUpOK
      <4> QED
          BY <2>1, <4>2, <4>3
    <3> QED
        BY <1>2, <2>6, <3>1, <3>2, <3>3, <3>4 DEF Proceed, LapseCommit, SyncCommit
  <2> QED
      BY <2>2, <2>4, <2>5, <2>6 DEF Hangs, LeftOpen, InUse, Terminal
<1> QED
    BY <1>1, <1>2

\* Every step obeys HungUpWhenFinished: of a pass, only the expiry of a request
\* for consent is ever committed.
LEMMA StepHangs == IInv /\ HInv /\ [Next]_vars => Hangs
<1> SUFFICES ASSUME IInv, HInv, [Next]_vars PROVE Hangs
    OBVIOUS
<1>1. CASE UNCHANGED row
      BY <1>1 DEF Hangs, InUse, Terminal
<1>2. ASSUME NEW s \in Sessions, RequestSession(s) PROVE Hangs
      BY <1>2 DEF RequestSession, Hangs, InUse, Terminal, IInv, TypeOK
<1>3. ASSUME NEW r \in Requests, Arrive(r) PROVE UNCHANGED row
      BY <1>3 DEF Arrive, DecideLoad, LaunchLoad, ConnectLoad, RevokeLoad, EndLoad,
                  SyncLoad, Loads
<1>4. ASSUME NEW r \in Requests, Proceed(r) PROVE Hangs
      BY <1>4, ProceedHangs
<1>5. CASE SweepCommit
  <2>1. ASSUME Reasons \subseteq TerminationReasons, NEW s \in Sessions
        PROVE  row'[s] = row[s] \/ LeftOpen(s)
    <3>1. row'[s] = Swept(s)
          BY <1>5, <2>1 DEF SweepCommit
    <3>2. verdict[s] \in TerminationReasons \cup {"none"} /\ verdict[s] \in SweepReasons \cup {"none"}
          BY <2>1 DEF Reasons, IInv, TypeOK
    <3>3. verdict[s] \in {"none", "consent_expired"}
          BY <3>2 DEF TerminationReasons, SweepReasons
    <3> QED
        BY <3>1, <3>3 DEF Swept, LeftOpen
  <2>2. CASE Reasons \subseteq TerminationReasons
        BY <2>1, <2>2 DEF Hangs, InUse, Terminal
  <2>3. CASE ~(Reasons \subseteq TerminationReasons)
        BY <1>1, <1>5, <2>3 DEF SweepCommit
  <2> QED
      BY <2>2, <2>3
<1>6. UNCHANGED row \/ SweepCommit \/ (\E s \in Sessions : RequestSession(s))
      \/ (\E r \in Requests : Proceed(r))
      BY <1>3 DEF Next, vars, Drop, Tick, SweepLoad
<1> QED
    BY <1>1, <1>2, <1>4, <1>5, <1>6

\* What revoke and end finish without an overlap is closed at the provider, for
\* every number of sessions, requests and launches.
THEOREM FinishedIsHungUp == Spec => HungUpWhenFinished
<1>1. Spec => []HInv
      BY InitHungUp, StepHungUp, InductiveInvariant, PTL DEF Spec
<1>2. IInv /\ HInv /\ [Next]_vars => [Hangs]_vars
      BY StepHangs
<1> QED
    BY <1>1, <1>2, InductiveInvariant, PTL DEF Spec, HungUpWhenFinished, Hangs, LeftOpen

-----------------------------------------------------------------------------
(* Provider sessions that the row forgets                                   *)

\* Before consent the provider has no session.
Fresh == {"absent", "requested", "consent_pending"}
FreshRow(copy) == copy.status \in Fresh => copy.pid = 0

FreshOK == /\ \A s \in Sessions : FreshRow(row[s])
           /\ \A r \in Requests : FreshRow(req[r].copy)

\* What a commit writes: launch_session names a new provider session and leaves
\* "consent_granted"; no other operation touches the id.
LEMMA CommitWrites ==
    ASSUME IInv, NEW r \in Requests, Proceed(r), ~(LaunchCreate(r) \/ HangUp(r))
    PROVE  /\ req[r].pc # "idle" /\ Finished(r)
           /\ \E new :
                 /\ Write(r, new)
                 /\ \/ /\ req[r].pc = "launch" /\ new.status = "connecting"
                       /\ req[r].copy.status = "consent_granted"
                    \/ /\ new.pid = req[r].copy.pid
                       /\ \/ new.status \in Terminal \cup {"active"}
                          \/ req[r].pc \in {"decide", "sync"} /\ new.status = req[r].status
<1> DEFINE c == req[r].copy
           Fits(new) ==
              \/ /\ req[r].pc = "launch" /\ new.status = "connecting"
                 /\ c.status = "consent_granted"
              \/ /\ new.pid = c.pid
                 /\ \/ new.status \in Terminal \cup {"active"}
                    \/ req[r].pc \in {"decide", "sync"} /\ new.status = req[r].status
<1>1. /\ req[r].pc # "idle" /\ Finished(r)
      BY DEF Proceed, DecideCommit, LapseCommit, LaunchCommit, ConnectCommit,
             RevokeCommit, EndCommit, SyncCommit
<1>2. c \in Row /\ Checked(req[r])
      BY <1>1, InFlight
<1>3. CASE DecideCommit(r)
  <2> DEFINE new == [c EXCEPT !.status = req[r].status]
  <2>1. Write(r, new) /\ req[r].pc = "decide"
        BY <1>3 DEF DecideCommit
  <2>2. new.pid = c.pid /\ new.status = req[r].status
        BY <1>2 DEF Row
  <2> QED
      BY <1>1, <2>1, <2>2
<1>4. CASE LapseCommit(r)
  <2> DEFINE new == [c EXCEPT !.status = "expired", !.reason = "consent_expired"]
  <2>1. Write(r, new)
        BY <1>4 DEF LapseCommit
  <2>2. new.pid = c.pid /\ new.status \in Terminal
        BY <1>2 DEF Row, Terminal
  <2> QED
      BY <1>1, <2>1, <2>2
<1>5. CASE LaunchCommit(r)
  <2> DEFINE new == [c EXCEPT !.status = "connecting", !.pid = req[r].pid]
  <2>1. Write(r, new) /\ req[r].pc = "launch"
        BY <1>5 DEF LaunchCommit
  <2>2. new.status = "connecting"
        BY <1>2 DEF Row
  <2> QED
      BY <1>1, <1>2, <2>1, <2>2 DEF Checked
<1>6. CASE ConnectCommit(r)
  <2> DEFINE new == [c EXCEPT !.status = "active", !.started = TRUE]
  <2>1. Write(r, new)
        BY <1>6 DEF ConnectCommit
  <2>2. new.pid = c.pid /\ new.status = "active"
        BY <1>2 DEF Row
  <2> QED
      BY <1>1, <2>1, <2>2
<1>7. CASE RevokeCommit(r)
  <2> DEFINE new == [c EXCEPT !.status = "terminated", !.reason = "employee_revoked"]
  <2>1. Write(r, new)
        BY <1>7 DEF RevokeCommit
  <2>2. new.pid = c.pid /\ new.status \in Terminal
        BY <1>2 DEF Row, Terminal
  <2> QED
      BY <1>1, <2>1, <2>2
<1>8. CASE EndCommit(r)
  <2> DEFINE new == [c EXCEPT !.status = "completed", !.reason = "completed"]
  <2>1. Write(r, new)
        BY <1>8 DEF EndCommit
  <2>2. new.pid = c.pid /\ new.status \in Terminal
        BY <1>2 DEF Row, Terminal
  <2> QED
      BY <1>1, <2>1, <2>2
<1>9. CASE SyncCommit(r)
  <2>1. PICK started : Write(r, [c EXCEPT !.status = req[r].status, !.started = started])
        BY <1>9 DEF SyncCommit
  <2> DEFINE new == [c EXCEPT !.status = req[r].status, !.started = started]
  <2>2. new.pid = c.pid /\ new.status = req[r].status /\ req[r].pc = "sync"
        BY <1>2, <1>9 DEF Row, SyncCommit
  <2> QED
      BY <1>1, <2>1, <2>2
<1> QED
    BY <1>3, <1>4, <1>5, <1>6, <1>7, <1>8, <1>9 DEF Proceed

\* What a decision or the provider's answer makes of a session is not fresh, and
\* a provider that has a session cannot answer that it was just granted.
LEMMA AnswersAreNotFresh ==
    ASSUME IInv, FreshOK, NEW r \in Requests, req[r].pc \in {"decide", "sync"}
    PROVE  /\ req[r].status \notin Fresh
           /\ req[r].pc = "sync" => req[r].status # "consent_granted"
           /\ req[r].pc = "decide" => req[r].copy.pid = 0
<1>1. Checked(req[r]) /\ FreshRow(req[r].copy)
      BY InFlight DEF FreshOK
<1>2. CASE req[r].pc = "decide"
      BY <1>1, <1>2 DEF Checked, FreshRow, Fresh
<1>3. CASE req[r].pc = "sync"
  <2>1. req[r].copy.status \notin Fresh /\ req[r].status \in Allowed(req[r].copy.status)
        BY <1>1, <1>3 DEF Checked, FreshRow
  <2> QED
      BY <1>3, <2>1 DEF Allowed, Fresh
<1> QED
    BY <1>2, <1>3

\* The columns of the session that a commit writes.
LEMMA CommittedRow ==
    ASSUME IInv, NEW r \in Requests, req[r].pc # "idle", NEW new, Write(r, new)
    PROVE  LET s == req[r].sid
               c == req[r].copy
           IN  /\ s \in Sessions
               /\ \A x \in Sessions : x # s => row'[x] = row[x]
               /\ row'[s].status = IF new.status = c.status THEN row[s].status ELSE new.status
               /\ row'[s].pid = IF new.pid = c.pid THEN row[s].pid ELSE new.pid
<1>1. req[r].sid \in Sessions
      BY InFlight
<1> QED
    BY <1>1 DEF Write, Flush, IInv, TypeOK

\* No session has reached the provider yet.
LEMMA InitFresh == Init => FreshOK
    BY DEF Init, FreshOK, FreshRow, AbsentRow, NoRequest

\* Every step leaves a session without consent without a provider session.
LEMMA StepFresh == IInv /\ FreshOK /\ [Next]_vars => FreshOK'
<1> SUFFICES ASSUME IInv, FreshOK, [Next]_vars PROVE FreshOK'
    OBVIOUS
<1>1. ASSUME UNCHANGED <<row, req>> PROVE FreshOK'
      BY <1>1 DEF FreshOK, FreshRow
<1>2. ASSUME NEW s \in Sessions, RequestSession(s) PROVE FreshOK'
  <2>1. /\ row[s].status = "absent" /\ row'[s].pid = row[s].pid
        /\ \A x \in Sessions : x # s => row'[x] = row[x]
        BY <1>2 DEF RequestSession, IInv, TypeOK, Row
  <2>2. \A x \in Sessions : FreshRow(row'[x])
        BY <2>1 DEF FreshOK, FreshRow, Fresh
  <2> QED
      BY <1>2, <2>2 DEF RequestSession, FreshOK, FreshRow
<1>3. ASSUME NEW r \in Requests, Arrive(r) PROVE FreshOK'
  <2>0. PICK s \in Sessions : \E pc, status : Loads(r, s, pc, status)
        BY <1>3 DEF Arrive, DecideLoad, LaunchLoad, ConnectLoad, RevokeLoad, EndLoad, SyncLoad
  <2>1. PICK pc, status : Loads(r, s, pc, status)
        BY <2>0
  <2>2. PICK i : req' = [req EXCEPT ![r] = [pc |-> pc, sid |-> s, copy |-> row[s],
                                            grant |-> i, pid |-> 0, status |-> status]]
        BY <2>1 DEF Loads
  <2>3. \A x \in Requests : req'[x].copy \in {req[x].copy, row[s]}
        BY <2>2 DEF IInv, TypeOK
  <2> QED
      BY <2>1, <2>3 DEF Loads, FreshOK, FreshRow
<1>4. ASSUME NEW r \in Requests, Finished(r), \A s \in Sessions : FreshRow(row'[s])
      PROVE  FreshOK'
  <2>1. \A x \in Requests : req'[x].copy \in {req[x].copy, AbsentRow}
        BY <1>4 DEF Finished, NoRequest, IInv, TypeOK
  <2>2. FreshRow(AbsentRow)
        BY DEF FreshRow, AbsentRow
  <2> QED
      BY <1>4, <2>1, <2>2 DEF FreshOK, FreshRow
<1>5. ASSUME NEW r \in Requests, Proceed(r) PROVE FreshOK'
  <2>1. CASE LaunchCreate(r) \/ HangUp(r)
    <3>0. req \in [Requests -> Request] /\ req[r] \in Request
          BY DEF IInv, TypeOK
    <3>1. \A x \in Requests : req'[x].copy = req[x].copy
      <4>1. PICK q : req' = [req EXCEPT ![r] = q] /\ q.copy = req[r].copy
        <5>1. CASE LaunchCreate(r)
          <6> DEFINE q == [req[r] EXCEPT !.pc = "launch", !.pid = opened + 1]
          <6>1. req' = [req EXCEPT ![r] = q]
                BY <3>0, <5>1 DEF LaunchCreate
          <6>2. q.copy = req[r].copy
                BY <3>0 DEF Request
          <6> QED
              BY <6>1, <6>2
        <5>2. CASE HangUp(r)
          <6>1. PICK pc : req' = [req EXCEPT ![r] = [req[r] EXCEPT !.pc = pc]]
                BY <3>0, <5>2 DEF HangUp
          <6>2. [req[r] EXCEPT !.pc = pc].copy = req[r].copy
                BY <3>0 DEF Request
          <6> QED
              BY <6>1, <6>2
        <5> QED
            BY <2>1, <5>1, <5>2
      <4> QED
          BY <3>0, <4>1
    <3> QED
        BY <2>1, <3>1 DEF LaunchCreate, HangUp, FreshOK, FreshRow
  <2>2. CASE ~(LaunchCreate(r) \/ HangUp(r))
    <3>1. PICK new :
             /\ Write(r, new)
             /\ \/ /\ req[r].pc = "launch" /\ new.status = "connecting"
                   /\ req[r].copy.status = "consent_granted"
                \/ /\ new.pid = req[r].copy.pid
                   /\ \/ new.status \in Terminal \cup {"active"}
                      \/ req[r].pc \in {"decide", "sync"} /\ new.status = req[r].status
          BY <1>5, <2>2, CommitWrites
    <3>2. req[r].pc # "idle" /\ Finished(r)
          BY <1>5, <2>2, CommitWrites
    <3>3. new.status \notin Fresh
          BY <3>1, AnswersAreNotFresh DEF Fresh, Terminal
    <3>4. FreshRow(row'[req[r].sid])
          BY <3>1, <3>2, <3>3, CommittedRow DEF FreshOK, FreshRow, Fresh
    <3>5. \A s \in Sessions : FreshRow(row'[s])
          BY <3>1, <3>2, <3>4, CommittedRow DEF FreshOK
    <3> QED
        BY <1>4, <3>2, <3>5
  <2> QED
      BY <2>1, <2>2
<1>6. ASSUME NEW r \in Requests, Drop(r) PROVE FreshOK'
      BY <1>4, <1>6 DEF Drop, FreshOK
<1>7. CASE SweepCommit
  <2>1. \A s \in Sessions : /\ row'[s].pid = row[s].pid
                            /\ row'[s] = row[s] \/ row'[s].status \in {"terminated", "expired"}
        BY <1>7, SweptRow DEF SweepCommit
  <2> QED
      BY <1>7, <2>1 DEF SweepCommit, FreshOK, FreshRow, Fresh
<1>8. CASE UNCHANGED vars \/ Tick \/ SweepLoad
      BY <1>1, <1>8 DEF vars, Tick, SweepLoad
<1> QED
    BY <1>2, <1>3, <1>5, <1>6, <1>7, <1>8 DEF Next

\* The body of SecondLaunchNeedsOverlap.
Forgets(s) == row[s].pid \in open' /\ row'[s].pid # row[s].pid
GrantedAgain(s) == /\ row[s].pid # 0 /\ row[s].status # "consent_granted"
                   /\ row'[s].status = "consent_granted"
LaunchedOver(s) ==
    \/ row[s].status = "consent_granted"
    \/ \E r \in Requests : /\ req[r].sid = s /\ req[r].pc = "launch"
                           /\ req'[r] # req[r] /\ req[r].copy # row[s]
DecidedOver(s) ==
    \E r \in Requests : /\ req[r].sid = s /\ req[r].pc = "decide"
                        /\ req'[r] # req[r] /\ req[r].copy # row[s]
Traced == \A s \in Sessions : /\ Forgets(s) => LaunchedOver(s)
                              /\ GrantedAgain(s) => DecidedOver(s)

\* Of the commits only a launch changes the provider's id, and only an answer
\* to the request for consent, which no session with an id awaits, grants.
LEMMA ProceedTraced == ASSUME IInv, FreshOK, NEW r \in Requests, Proceed(r) PROVE Traced
<1> DEFINE c == req[r].copy
           s == req[r].sid
<1>1. CASE LaunchCreate(r) \/ HangUp(r)
      BY <1>1 DEF LaunchCreate, HangUp, Traced, Forgets, GrantedAgain
<1>2. CASE ~(LaunchCreate(r) \/ HangUp(r))
  <2>1. PICK new :
           /\ Write(r, new)
           /\ \/ /\ req[r].pc = "launch" /\ new.status = "connecting"
                 /\ c.status = "consent_granted"
              \/ /\ new.pid = c.pid
                 /\ \/ new.status \in Terminal \cup {"active"}
                    \/ req[r].pc \in {"decide", "sync"} /\ new.status = req[r].status
        BY <1>2, CommitWrites
  <2>2. req[r].pc # "idle" /\ Finished(r)
        BY <1>2, CommitWrites
  <2>3. /\ s \in Sessions
        /\ \A x \in Sessions : x # s => row'[x] = row[x]
        /\ row'[s].status = IF new.status = c.status THEN row[s].status ELSE new.status
        /\ row'[s].pid = IF new.pid = c.pid THEN row[s].pid ELSE new.pid
        BY <2>1, <2>2, CommittedRow
  <2>4. req'[r] # req[r]
        BY <2>2 DEF Finished, NoRequest, IInv, TypeOK
  <2>5. Forgets(s) => LaunchedOver(s)
    <3>1. ASSUME Forgets(s) PROVE req[r].pc = "launch" /\ c.status = "consent_granted"
          BY <2>1, <2>3, <3>1 DEF Forgets
    <3>2. ASSUME Forgets(s), c = row[s] PROVE LaunchedOver(s)
          BY <3>1, <3>2 DEF LaunchedOver
    <3> QED
        BY <2>4, <3>1, <3>2 DEF LaunchedOver
  <2>6. GrantedAgain(s) => DecidedOver(s)
    <3>1. ASSUME GrantedAgain(s) PROVE new.status = "consent_granted" /\ row[s].pid # 0
          BY <2>3, <3>1 DEF GrantedAgain
    <3>2. ASSUME GrantedAgain(s) PROVE req[r].pc = "decide" /\ c.pid = 0
          BY <2>1, <3>1, <3>2, AnswersAreNotFresh DEF Terminal
    <3> QED
        BY <2>4, <3>1, <3>2 DEF DecidedOver
  <2> QED
      BY <2>3, <2>5, <2>6 DEF Traced, Forgets, GrantedAgain
<1> QED
    BY <1>1, <1>2

\* Every step obeys SecondLaunchNeedsOverlap.
LEMMA StepTraced == IInv /\ FreshOK /\ [Next]_vars => Traced
<1> SUFFICES ASSUME IInv, FreshOK, [Next]_vars PROVE Traced
    OBVIOUS
<1>1. CASE UNCHANGED row
      BY <1>1 DEF Traced, Forgets, GrantedAgain
<1>2. ASSUME NEW s \in Sessions, RequestSession(s) PROVE Traced
  <2>1. /\ row'[s].status = "consent_pending" /\ row'[s].pid = row[s].pid
        /\ \A x \in Sessions : x # s => row'[x] = row[x]
        BY <1>2 DEF RequestSession, IInv, TypeOK, Row
  <2> QED
      BY <2>1 DEF Traced, Forgets, GrantedAgain
<1>3. ASSUME NEW r \in Requests, Arrive(r) PROVE UNCHANGED row
      BY <1>3 DEF Arrive, DecideLoad, LaunchLoad, ConnectLoad, RevokeLoad, EndLoad,
                  SyncLoad, Loads
<1>4. ASSUME NEW r \in Requests, Proceed(r) PROVE Traced
      BY <1>4, ProceedTraced
<1>5. CASE SweepCommit
  <2>1. \A s \in Sessions : /\ row'[s].pid = row[s].pid
                            /\ row'[s] = row[s] \/ row'[s].status \in {"terminated", "expired"}
        BY <1>5, SweptRow DEF SweepCommit
  <2> QED
      BY <2>1 DEF Traced, Forgets, GrantedAgain
<1>6. UNCHANGED row \/ SweepCommit \/ (\E s \in Sessions : RequestSession(s))
      \/ (\E r \in Requests : Proceed(r))
      BY <1>3 DEF Next, vars, Drop, Tick, SweepLoad
<1> QED
    BY <1>1, <1>2, <1>4, <1>5, <1>6

\* A provider session that a launched session names is forgotten while it is open
\* only through a launch or a second consent that overlapped what it wrote over.
THEOREM ForgottenByOverlap == Spec => SecondLaunchNeedsOverlap
<1>1. Spec => []FreshOK
      BY InitFresh, StepFresh, InductiveInvariant, PTL DEF Spec
<1>2. IInv /\ FreshOK /\ [Next]_vars => [Traced]_vars
      BY StepTraced
<1> QED
    BY <1>1, <1>2, InductiveInvariant, PTL
       DEF Spec, SecondLaunchNeedsOverlap, Traced, Forgets, GrantedAgain, LaunchedOver, DecidedOver
=============================================================================
