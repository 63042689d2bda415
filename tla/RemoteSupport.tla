---------------------------- MODULE RemoteSupport ----------------------------
(***************************************************************************)
(* Attended remote support: consent, launch at an external provider,       *)
(* revocation, end, and the sweeper that enforces the time policies        *)
(* (services/remote_support/service.py, api/v1/remote_support.py).         *)
(*                                                                         *)
(* No operation locks the session row.  A request loads a copy, checks the *)
(* transition table against it, may call the provider, and at its commit   *)
(* writes the columns that it changed, over whatever is there by then.     *)
(***************************************************************************)
EXTENDS Naturals, Sequences, FiniteSets

CONSTANTS
    Sessions,      \* remote sessions, each of one agent and one employee
    Requests,      \* HTTP requests that may be in flight at once
    None,          \* no session
    ConsentWindow, \* CONSENT_WINDOW_MINUTES, in ticks
    LaunchTimeout, \* REMOTE_SESSION_TIMEOUT_MINUTES, in ticks
    MaxDuration,   \* max_duration_minutes of every session, in ticks
    Traffic,       \* the operations that arrive in the behaviour
    Answers,       \* statuses that the provider reports to a poll
    MaxLaunches    \* bound on the sessions opened at the provider

ASSUME PolicyAssumption ==
    /\ None \notin Sessions
    /\ ConsentWindow \in Nat /\ LaunchTimeout \in Nat /\ MaxDuration \in Nat
    /\ MaxLaunches \in Nat

VARIABLES
    row,      \* row[s]: the committed session row
    consent,  \* consent[s]: its grants, each "active" or "revoked"
    open,     \* sessions that the provider holds open
    opened,   \* provider sessions created so far; the next id is opened + 1
    age,      \* age[s]: ticks since the session was requested
    running,  \* running[s]: ticks since started_at
    req,      \* req[r]: the request's progress and what it loaded
    verdict   \* verdict[s]: what a sweeper pass in progress decided, or "none"

vars == <<row, consent, open, opened, age, running, req, verdict>>

Statuses == {"requested", "consent_pending", "consent_granted", "consent_denied",
             "connecting", "active", "paused", "completed", "terminated", "expired"}
Terminal == {"consent_denied", "completed", "terminated", "expired"}
TerminationReasons == {"completed", "employee_revoked", "employee_denied", "agent_ended",
                       "admin_terminated", "timeout", "consent_expired", "provider_error",
                       "policy_violation"}
SweepReasons == {"consent_expired", "stale_no_launch", "max_duration_exceeded"}

AgeCap == (IF ConsentWindow < LaunchTimeout THEN LaunchTimeout ELSE ConsentWindow) + 1

\* pid is provider_session_id, 0 when it is null.
Row == [status : Statuses \cup {"absent"}, pid : 0..MaxLaunches, started : BOOLEAN,
        reason : TerminationReasons \cup {"none"}]
AbsentRow == [status |-> "absent", pid |-> 0, started |-> FALSE, reason |-> "none"]

Phases == {"idle", "decide", "lapse", "create", "launch", "connect", "hangup",
           "revoke", "end", "sync"}
Request == [pc : Phases, sid : Sessions \cup {None}, copy : Row,
            grant : Nat, pid : 0..MaxLaunches, status : Statuses \cup {"none"}]
NoRequest == [pc |-> "idle", sid |-> None, copy |-> AbsentRow,
              grant |-> 0, pid |-> 0, status |-> "none"]

TypeOK ==
    /\ row \in [Sessions -> Row]
    /\ consent \in [Sessions -> Seq({"active", "revoked"})]
    /\ open \subseteq 1..MaxLaunches
    /\ opened \in 0..MaxLaunches
    /\ age \in [Sessions -> 0..AgeCap]
    /\ running \in [Sessions -> 0..MaxDuration + 1]
    /\ req \in [Requests -> Request]
    /\ verdict \in [Sessions -> SweepReasons \cup {"none"}]

Init ==
    /\ row = [s \in Sessions |-> AbsentRow]
    /\ consent = [s \in Sessions |-> <<>>]
    /\ open = {}
    /\ opened = 0
    /\ age = [s \in Sessions |-> 0]
    /\ running = [s \in Sessions |-> 0]
    /\ req = [r \in Requests |-> NoRequest]
    /\ verdict = [s \in Sessions |-> "none"]

-----------------------------------------------------------------------------
(* The transition table, the consent rows and the flush                     *)

Allowed(from) ==
    CASE from = "requested" -> {"consent_pending", "terminated"}
      [] from = "consent_pending" -> {"consent_granted", "consent_denied", "expired"}
      [] from = "consent_granted" -> {"connecting", "terminated"}
      [] from = "connecting" -> {"active", "terminated"}
      [] from = "active" -> {"paused", "completed", "terminated"}
      [] from = "paused" -> {"active", "completed", "terminated"}
      [] OTHER -> {}

\* active_consent: the latest grant that is not revoked, 0 if there is none.
IsActiveConsent(grants, i) ==
    \/ /\ i \in DOMAIN grants /\ grants[i] = "active"
       /\ \A j \in DOMAIN grants : grants[j] = "active" => j <= i
    \/ i = 0 /\ \A j \in DOMAIN grants : grants[j] # "active"

\* The columns a flush writes: those whose value differs from the loaded copy.
Flush(current, copy, new) ==
    [status  |-> IF new.status = copy.status THEN current.status ELSE new.status,
     pid     |-> IF new.pid = copy.pid THEN current.pid ELSE new.pid,
     started |-> IF new.started = copy.started THEN current.started ELSE new.started,
     reason  |-> IF new.reason = copy.reason THEN current.reason ELSE new.reason]

Write(r, new) == row' = [row EXCEPT ![req[r].sid] = Flush(@, req[r].copy, new)]

Arriving(r, op, s) ==
    /\ op \in Traffic
    /\ req[r].pc = "idle"
    /\ row[s].status # "absent"

Loads(r, s, pc, status) ==
    /\ \E i \in 0..Len(consent[s]) :
          /\ IsActiveConsent(consent[s], i)
          /\ req' = [req EXCEPT ![r] = [pc |-> pc, sid |-> s, copy |-> row[s],
                                        grant |-> i, pid |-> 0, status |-> status]]
    /\ UNCHANGED <<row, consent, open, opened, age, running, verdict>>

Finished(r) == req' = [req EXCEPT ![r] = NoRequest]

-----------------------------------------------------------------------------
(* Request and consent                                                      *)

\* request_session and send_consent_request share one transaction.
RequestSession(s) ==
    /\ row[s].status = "absent"
    /\ row' = [row EXCEPT ![s].status = "consent_pending"]
    /\ age' = [age EXCEPT ![s] = 0]
    /\ UNCHANGED <<consent, open, opened, running, req, verdict>>

\* The employee answers.  The deadline is looked at before the transition:
\* past it, the session expires whatever its status.
DecideLoad(r, s, granted) ==
    /\ Arriving(r, "decide", s)
    /\ IF age[s] > ConsentWindow
       THEN Loads(r, s, "lapse", "expired")
       ELSE /\ granted \in Allowed(row[s].status)
            /\ Loads(r, s, "decide", granted)

DecideCommit(r) ==
    /\ req[r].pc = "decide"
    /\ Write(r, [req[r].copy EXCEPT !.status = req[r].status])
    /\ consent' = IF req[r].status = "consent_granted"
                  THEN [consent EXCEPT ![req[r].sid] = Append(@, "active")]
                  ELSE consent
    /\ Finished(r)
    /\ UNCHANGED <<open, opened, age, running, verdict>>

LapseCommit(r) ==
    /\ req[r].pc = "lapse"
    /\ Write(r, [req[r].copy EXCEPT !.status = "expired", !.reason = "consent_expired"])
    /\ Finished(r)
    /\ UNCHANGED <<consent, open, opened, age, running, verdict>>

-----------------------------------------------------------------------------
(* Launch and connection                                                    *)

\* Mutant: launch_session forgets the transition check.
LaunchFromAnyStatus(r, s) ==
    /\ Arriving(r, "launch", s)
    /\ ~IsActiveConsent(consent[s], 0)
    /\ opened < MaxLaunches
    /\ Loads(r, s, "create", "connecting")

LaunchLoad(r, s) ==
    /\ Arriving(r, "launch", s)
    /\ "connecting" \in Allowed(row[s].status)
    /\ ~IsActiveConsent(consent[s], 0)
    /\ opened < MaxLaunches
    /\ Loads(r, s, "create", "connecting")

\* The provider opens its session while the transaction is still open.
LaunchCreate(r) ==
    /\ req[r].pc = "create"
    /\ opened < MaxLaunches
    /\ opened' = opened + 1
    /\ open' = open \cup {opened + 1}
    /\ req' = [req EXCEPT ![r].pc = "launch", ![r].pid = opened + 1]
    /\ UNCHANGED <<row, consent, age, running, verdict>>

LaunchCommit(r) ==
    /\ req[r].pc = "launch"
    /\ Write(r, [req[r].copy EXCEPT !.status = "connecting", !.pid = req[r].pid])
    /\ Finished(r)
    /\ UNCHANGED <<consent, open, opened, age, running, verdict>>

\* Mutant: mark_connected skips _assert_transition.
ConnectUnchecked(r, s) ==
    /\ Arriving(r, "connect", s)
    /\ Loads(r, s, "connect", "active")

ConnectLoad(r, s) ==
    /\ Arriving(r, "connect", s)
    /\ "active" \in Allowed(row[s].status)
    /\ Loads(r, s, "connect", "active")

\* Mutant: mark_connected does not stamp started_at.
ConnectWithoutStart(r) ==
    /\ req[r].pc = "connect"
    /\ Write(r, [req[r].copy EXCEPT !.status = "active"])
    /\ Finished(r)
    /\ UNCHANGED <<consent, open, opened, age, running, verdict>>

ConnectCommit(r) ==
    /\ req[r].pc = "connect"
    /\ Write(r, [req[r].copy EXCEPT !.status = "active", !.started = TRUE])
    /\ running' = [running EXCEPT ![req[r].sid] = 0]
    /\ Finished(r)
    /\ UNCHANGED <<consent, open, opened, age, verdict>>

-----------------------------------------------------------------------------
(* Revocation, end and the provider's view                                  *)

\* Mutant: the provider is told only of sessions that are active.
RevokeActiveOnly(r, s) ==
    /\ Arriving(r, "revoke", s)
    /\ Loads(r, s, IF row[s].pid # 0 /\ row[s].status = "active"
                   THEN "hangup" ELSE "revoke", "terminated")

RevokeLoad(r, s) ==
    /\ Arriving(r, "revoke", s)
    /\ Loads(r, s, IF /\ row[s].pid # 0
                      /\ row[s].status \in {"connecting", "active", "paused"}
                   THEN "hangup" ELSE "revoke", "terminated")

\* The end route never passes a reason: the target is always "completed".
EndLoad(r, s) ==
    /\ Arriving(r, "end", s)
    /\ "completed" \in Allowed(row[s].status)
    /\ Loads(r, s, IF row[s].pid # 0 THEN "hangup" ELSE "end", "completed")

\* The provider is told to terminate the session, before the commit.
HangUp(r) ==
    /\ req[r].pc = "hangup"
    /\ open' = open \ {req[r].copy.pid}
    /\ req' = [req EXCEPT ![r].pc = IF req[r].status = "completed" THEN "end" ELSE "revoke"]
    /\ UNCHANGED <<row, consent, opened, age, running, verdict>>

RevokeCommit(r) ==
    /\ req[r].pc = "revoke"
    /\ consent' = IF req[r].grant = 0 THEN consent
                  ELSE [consent EXCEPT ![req[r].sid][req[r].grant] = "revoked"]
    /\ Write(r, [req[r].copy EXCEPT !.status = "terminated", !.reason = "employee_revoked"])
    /\ Finished(r)
    /\ UNCHANGED <<open, opened, age, running, verdict>>

EndCommit(r) ==
    /\ req[r].pc = "end"
    /\ Write(r, [req[r].copy EXCEPT !.status = "completed", !.reason = "completed"])
    /\ Finished(r)
    /\ UNCHANGED <<consent, open, opened, age, running, verdict>>

\* A poll adopts the provider's status when the table allows it.
SyncLoad(r, s, answer) ==
    /\ Arriving(r, "sync", s)
    /\ row[s].pid # 0
    /\ answer \in Allowed(row[s].status)
    /\ Loads(r, s, "sync", answer)

SyncCommit(r) ==
    LET starts == req[r].status = "active" /\ ~req[r].copy.started
    IN  /\ req[r].pc = "sync"
        /\ Write(r, [req[r].copy EXCEPT !.status = req[r].status, !.started = @ \/ starts])
        /\ running' = IF starts THEN [running EXCEPT ![req[r].sid] = 0] ELSE running
        /\ Finished(r)
        /\ UNCHANGED <<consent, open, opened, age, verdict>>

\* A request that dies is rolled back, the provider's side of it is not.
Drop(r) ==
    /\ req[r].pc # "idle"
    /\ Finished(r)
    /\ UNCHANGED <<row, consent, open, opened, age, running, verdict>>

-----------------------------------------------------------------------------
(* Time and the sweeper                                                     *)

Tick ==
    LET ages(s) == row[s].status # "absent" /\ age[s] < AgeCap
        runs(s) == row[s].started /\ running[s] <= MaxDuration
    IN  /\ \E s \in Sessions : ages(s) \/ runs(s)
        /\ age' = [s \in Sessions |-> IF ages(s) THEN age[s] + 1 ELSE age[s]]
        /\ running' = [s \in Sessions |-> IF runs(s) THEN running[s] + 1 ELSE running[s]]
        /\ UNCHANGED <<row, consent, open, opened, req, verdict>>

\* Mutant: the first select is lost.
OverdueOnceGranted(s) ==
    CASE /\ row[s].status \in {"consent_granted", "connecting"} /\ ~row[s].started
         /\ age[s] > LaunchTimeout -> "stale_no_launch"
      [] /\ row[s].status \in {"connecting", "active", "paused"} /\ row[s].started
         /\ running[s] > MaxDuration -> "max_duration_exceeded"
      [] OTHER -> "none"

\* The three selects of sweep_sessions.
Overdue(s) ==
    CASE row[s].status = "consent_pending" /\ age[s] > ConsentWindow -> "consent_expired"
      [] /\ row[s].status \in {"consent_granted", "connecting"} /\ ~row[s].started
         /\ age[s] > LaunchTimeout -> "stale_no_launch"
      [] /\ row[s].status \in {"connecting", "active", "paused"} /\ row[s].started
         /\ running[s] > MaxDuration -> "max_duration_exceeded"
      [] OTHER -> "none"

\* termination_reason is an enumeration.  The stale sessions are flushed by the
\* third select: when that fails the provider is not told of the overlong ones.
SweepLoad ==
    LET overlong == {s \in Sessions : Overdue(s) = "max_duration_exceeded"}
        stale == {s \in Sessions : Overdue(s) = "stale_no_launch"}
    IN  /\ \A s \in Sessions : verdict[s] = "none"
        /\ \E s \in Sessions : Overdue(s) # "none"
        /\ verdict' = [s \in Sessions |-> Overdue(s)]
        /\ open' = IF stale # {} THEN open ELSE open \ {row[s].pid : s \in overlong}
        /\ UNCHANGED <<row, consent, opened, age, running, req>>

Swept(s) ==
    CASE verdict[s] = "none" -> row[s]
      [] verdict[s] = "max_duration_exceeded" ->
             [row[s] EXCEPT !.status = "terminated", !.reason = verdict[s]]
      [] OTHER -> [row[s] EXCEPT !.status = "expired", !.reason = verdict[s]]

Reasons == {verdict[s] : s \in Sessions} \ {"none"}

\* One commit for the whole pass: a reason outside the enumeration rolls all back.
SweepCommit ==
    /\ Reasons # {}
    /\ row' = IF Reasons \subseteq TerminationReasons
              THEN [s \in Sessions |-> Swept(s)] ELSE row
    /\ verdict' = [s \in Sessions |-> "none"]
    /\ UNCHANGED <<consent, open, opened, age, running, req>>

-----------------------------------------------------------------------------
(* The specification                                                        *)

Arrive(r) ==
    \E s \in Sessions :
       \/ \E granted \in {"consent_granted", "consent_denied"} : DecideLoad(r, s, granted)
       \/ LaunchLoad(r, s) \/ ConnectLoad(r, s) \/ RevokeLoad(r, s) \/ EndLoad(r, s)
       \/ \E answer \in Answers : SyncLoad(r, s, answer)

Proceed(r) ==
    \/ DecideCommit(r) \/ LapseCommit(r) \/ LaunchCreate(r) \/ LaunchCommit(r)
    \/ ConnectCommit(r) \/ HangUp(r) \/ RevokeCommit(r) \/ EndCommit(r) \/ SyncCommit(r)

Next ==
    \/ \E s \in Sessions : RequestSession(s)
    \/ \E r \in Requests : Arrive(r) \/ Proceed(r) \/ Drop(r)
    \/ Tick
    \/ SweepLoad
    \/ SweepCommit

Spec == Init /\ [][Next]_vars

\* Time passes, requests in flight are served, and the sweeper's loop runs on
\* whatever a pass does.
Fairness ==
    /\ WF_vars(Tick)
    /\ \A r \in Requests : WF_vars(Proceed(r))
    /\ WF_vars(SweepLoad) /\ WF_vars(SweepCommit)

FairSpec == Spec /\ Fairness

-----------------------------------------------------------------------------
(* Properties                                                               *)

\* The employee agreed at some time to every session that reached the provider,
\* was connected or completed: no interleaving of the unlocked operations
\* gets past the consent step of grant_consent and launch_session.
ConsentBeforeSupport ==
    \A s \in Sessions :
       (\/ row[s].pid # 0
        \/ row[s].status \in {"consent_granted", "connecting", "active", "completed"})
       => consent[s] # <<>>

\* An active session has a start time and a provider session, whichever of
\* mark_connected and the poll made it active: without them the duration
\* select of sweep_sessions would not see it or could not end it.
ActiveIsTimed ==
    \A s \in Sessions : row[s].status = "active" => row[s].started /\ row[s].pid # 0

\* A finished session comes back to life only through a request that loaded it
\* before it finished (the table has no way out of a terminal status).
RevivedOnlyByOverlap ==
    [][\A s \in Sessions :
          row[s].status \in Terminal /\ row'[s].status \notin Terminal
          => \E r \in Requests : /\ req[r].sid = s
                                 /\ req[r].copy.status \notin Terminal]_vars

\* A session in use that ends leaves nothing open at the provider: revoke and end
\* hang up before they commit.  It does only when the provider says that the
\* session is over, when a late answer to the request for consent expires it, or
\* when what ends it had loaded the row before it came to be as it is.
InUse == {"connecting", "active", "paused"}

HungUpWhenFinished ==
    [][\A s \in Sessions :
          row[s].status \in InUse /\ row'[s].status \in Terminal /\ row'[s].pid \in open'
          => \/ verdict[s] = "consent_expired"
             \/ \E r \in Requests :
                   /\ req[r].sid = s /\ req'[r] # req[r]
                   /\ req[r].pc \in {"lapse", "sync"} \/ req[r].copy # row[s]]_vars

\* A session loses sight of a provider session that stays open only if a second
\* launch overlaps the first, or follows one as the session was granted again; and
\* that takes two answers to the request for consent that overlap.
SecondLaunchNeedsOverlap ==
    [][\A s \in Sessions :
          /\ row[s].pid \in open' /\ row'[s].pid # row[s].pid
             => \/ row[s].status = "consent_granted"
                \/ \E r \in Requests : /\ req[r].sid = s /\ req[r].pc = "launch"
                                       /\ req'[r] # req[r] /\ req[r].copy # row[s]
          /\ /\ row[s].pid # 0 /\ row[s].status # "consent_granted"
             /\ row'[s].status = "consent_granted"
             => \E r \in Requests : /\ req[r].sid = s /\ req[r].pc = "decide"
                                    /\ req'[r] # req[r] /\ req[r].copy # row[s]]_vars

\* A session for which the sweeper has a reason that its column refuses.
Poisonous(s) == Overdue(s) \notin TerminationReasons \cup {"none"}

\* A request for consent does not stay pending: it is answered or it lapses
\* (consent-and-audit.md: "If the window lapses without a response"), unless
\* another session makes every pass of the sweeper roll back.
PendingIsResolved ==
    \A s \in Sessions :
       row[s].status = "consent_pending" ~>
          \/ row[s].status # "consent_pending"
          \/ \E z \in Sessions \ {s} : Poisonous(z)
=============================================================================
