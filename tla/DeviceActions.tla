----------------------------- MODULE DeviceActions -----------------------------
(***************************************************************************)
(* Actions on managed devices (services/agents/device_actions, the runtime *)
(* that dispatches their tools, api/v1/device_execution.py).  Staff ask    *)
(* for an action of the catalog; the service looks at the device and at    *)
(* its owner's consent, and a policy denies the action, runs it at once or *)
(* parks it for a lead.  The tool looks again before it calls Intune.      *)
(*                                                                         *)
(* The queue of parked actions is ApprovalQueue's; here a claim and a      *)
(* decision are single steps, and one process serves all requests.         *)
(***************************************************************************)
EXTENDS Naturals, FiniteSets

CONSTANTS
    Actions,  \* requests for an action on the device, each asked for once
    Leads,    \* requests of leads that decide on parked actions
    Flags     \* the configurations a process may be started with

Settings == [feature : BOOLEAN, autonomous : BOOLEAN, medium : BOOLEAN, mock : BOOLEAN]

ASSUME ActionsAssumption == Actions \cap Leads = {} /\ Flags \subseteq Settings

VARIABLES
    settings,  \* the flags of the running process
    device,    \* whether Intune manages the device, and the owner it names
    consent,   \* consent[s]: a granted consent of s that is not revoked
    act,       \* act[a]: the risk tier of the action and whether its text is clean
    row,       \* row[a]: the approval that parks the action
    job,       \* job[j]: a request for an action, or of a lead
    ran        \* ran[a]: the times the action took effect: 0, 1, or 2 for more

vars == <<settings, device, consent, act, row, job, ran>>

Jobs == Actions \cup Leads

\* What the compliance read names as the owner: nobody, a principal name, an id.
Device == [managed : BOOLEAN, owner : {"none", "upn", "id"}]

\* Whose consent is looked up: the owner's, or that of the employee the caller names.
Subjects == {"owner", "named"}

Act == [risk : {"off_catalog", "low", "medium", "high"}, clean : BOOLEAN]

Row == [status : {"absent", "pending", "executing", "approved", "failed", "rejected"},
        recovered : BOOLEAN]

\* stale: the device or a consent changed after the tool had looked at it.
Job == [pc : {"idle", "device", "consent", "decide", "claim", "call", "record", "done", "lost"},
        side : {"service", "tool"}, of : Actions, may : BOOLEAN,
        eligible : BOOLEAN, owner : {"none", "upn", "id"}, consented : BOOLEAN,
        stale : BOOLEAN, answer : {"none", "denied", "pending_approval", "executed", "error"}]

Fresh(a) == [pc |-> "idle", side |-> "service", of |-> a, may |-> FALSE,
             eligible |-> FALSE, owner |-> "none", consented |-> FALSE,
             stale |-> FALSE, answer |-> "none"]

TypeOK ==
    /\ settings \in Settings /\ device \in Device /\ consent \in [Subjects -> BOOLEAN]
    /\ act \in [Actions -> Act]
    /\ row \in [Actions -> Row]
    /\ job \in [Jobs -> Job]
    /\ ran \in [Actions -> 0..2]

Init ==
    /\ settings \in Flags /\ device \in Device /\ consent \in [Subjects -> BOOLEAN]
    /\ act \in [Actions -> Act]
    /\ row = [a \in Actions |-> [status |-> "absent", recovered |-> FALSE]]
    /\ job \in {f \in [Jobs -> {Fresh(a) : a \in Actions}] : \A a \in Actions : f[a].of = a}
    /\ ran = [a \in Actions |-> 0]

Free(j) == job[j].pc = "idle" \/ (j \in Leads /\ job[j].pc = "done")
At(j, side, pc) == job[j].pc = pc /\ job[j].side = side
Goto(j, pc) == job' = [job EXCEPT ![j].pc = pc]
Answered(j, x) ==
    job' = [job EXCEPT ![j] = [Fresh(job[j].of) EXCEPT !.pc = "done", !.answer = x]]
Start(j, a, may, pc) == job' = [job EXCEPT ![j] = [Fresh(a) EXCEPT !.pc = pc, !.may = may]]
Same == UNCHANGED <<settings, device, consent, act>>

-----------------------------------------------------------------------------
(* Asking, and the two looks at the facts                                    *)

\* POST /device-execution/actions; may: the asker holds integration:device_execute.
Ask(a, may) ==
    /\ Free(a) /\ row[a].status = "absent" /\ settings.feature
    /\ Start(a, a, may, "device")
    /\ Same /\ UNCHANGED <<row, ran>>

\* POST /agent-ops/approvals, past the service: a tool the runtime lacks is not parked.
Propose(a) ==
    /\ Free(a) /\ row[a].status = "absent" /\ settings.feature
    /\ row' = [row EXCEPT ![a].status = "pending"]
    /\ Same /\ UNCHANGED <<job, ran>>

\* _read_device; a read that fails finds the device ineligible and names nobody,
\* and the mock server knows every device.
ReadDevice(j) ==
    /\ job[j].pc = "device"
    /\ \E works \in BOOLEAN :
          job' = [job EXCEPT ![j] = [@ EXCEPT !.pc = "consent",
                     !.eligible = works /\ (settings.mock \/ device.managed),
                     !.owner = IF works THEN device.owner ELSE "none"]]
    /\ Same /\ UNCHANGED <<row, ran>>

\* Mutant: the employee that the caller names counts as well.
ConsentedByCaller(j) == consent["owner"] \/ consent["named"]

\* The subject whose consent counts; the tool is given no employee to fall back on.
Consented(j) ==
    CASE job[j].owner = "id"  -> consent["owner"]
      [] job[j].owner = "none" /\ job[j].side = "service" -> consent["named"]
      [] OTHER -> FALSE

\* employee_id is a UUID column: a principal name makes the query raise.
Unreadable(j) == ~settings.mock /\ job[j].owner = "upn"

ReadConsent(j) ==
    /\ job[j].pc = "consent" /\ ~Unreadable(j)
    /\ job' = [job EXCEPT ![j] = [@ EXCEPT !.pc = "decide",
                  !.owner = "none", !.consented = settings.mock \/ Consented(j)]]
    /\ Same /\ UNCHANGED <<row, ran>>

\* The tool's result, or its exception, as the runtime reports it.
Reports(j, outcome) ==
    IF j \in Leads
    THEN job' = [job EXCEPT ![j] =
                   [Fresh(job[j].of) EXCEPT !.pc = "record", !.answer = outcome]]
    ELSE Answered(j, outcome)

\* The read session does not open, or the query of the consents raises: the
\* service lets the exception out (500), the runtime makes it an error.
FactsRaise(j) ==
    /\ job[j].pc \in {"device", "consent"}
    /\ IF job[j].side = "tool" THEN Reports(j, "error") ELSE Answered(j, "none")
    /\ Same /\ UNCHANGED <<row, ran>>

-----------------------------------------------------------------------------
(* The policy and the three routes                                           *)

\* evaluate_device_action
Denies(j) ==
    act[job[j].of].risk = "off_catalog" \/ ~job[j].eligible \/ ~job[j].consented

\* Mutant: the text of the request is not scanned.
AutonomousUnscanned(j) ==
    LET x == act[job[j].of]
    IN  /\ ~Denies(j) /\ settings.autonomous
        /\ x.risk = "low" \/ (x.risk = "medium" /\ settings.medium)

Autonomous(j) ==
    LET x == act[job[j].of]
    IN  /\ ~Denies(j) /\ settings.autonomous /\ x.clean
        /\ x.risk = "low" \/ (x.risk = "medium" /\ settings.medium)

Deny(a) ==
    /\ At(a, "service", "decide") /\ Denies(a)
    /\ Answered(a, "denied")
    /\ Same /\ UNCHANGED <<row, ran>>

\* What the policy holds, and what its asker may not run.
Park(a) ==
    /\ At(a, "service", "decide") /\ ~Denies(a) /\ ~(Autonomous(a) /\ job[a].may)
    /\ row' = [row EXCEPT ![a].status = "pending"]
    /\ Answered(a, "pending_approval")
    /\ Same /\ UNCHANGED ran

EntersTool(j) ==
    job' = [job EXCEPT ![j] = [Fresh(job[j].of) EXCEPT !.pc = "device", !.side = "tool",
                                                       !.may = job[j].may]]

\* Mutant: what is dispatched is queued as well.
DispatchAndPark(a) ==
    /\ At(a, "service", "decide") /\ Autonomous(a) /\ job[a].may
    /\ EntersTool(a)
    /\ row' = [row EXCEPT ![a].status = "pending"]
    /\ Same /\ UNCHANGED ran

\* The token is minted, and the runtime checks the asker's permission.
Dispatch(a) ==
    /\ At(a, "service", "decide") /\ Autonomous(a) /\ job[a].may
    /\ EntersTool(a)
    /\ Same /\ UNCHANGED <<row, ran>>

\* DeviceExecutionTool.run: a denial is a result like any other.
Refuse(j) ==
    /\ At(j, "tool", "decide") /\ Denies(j)
    /\ Reports(j, "executed")
    /\ Same /\ UNCHANGED <<row, ran>>

\* With the token in the context, what is held for a lead runs as well.
Clear(j) ==
    /\ At(j, "tool", "decide") /\ ~Denies(j)
    /\ job' = [job EXCEPT ![j] = [@ EXCEPT !.pc = "call", !.eligible = FALSE, !.consented = FALSE]]
    /\ Same /\ UNCHANGED <<row, ran>>

\* The call to Intune.  A timeout or an exception of the call is a result and
\* says nothing of the effect; only a session that does not open is an error.
CallIntune(j) ==
    LET a == job[j].of
    IN  /\ job[j].pc = "call"
        /\ \/ ran' = [ran EXCEPT ![a] = IF @ < 2 THEN @ + 1 ELSE @] /\ Reports(j, "executed")
           \/ ran' = ran /\ \E x \in {"executed", "error"} : Reports(j, x)
        /\ Same /\ UNCHANGED row

-----------------------------------------------------------------------------
(* Leads                                                                     *)

\* POST /device-execution/approvals/{id}/approve looks at the facts first.
ApproveDevice(l, a, may) ==
    /\ Free(l) /\ row[a].status # "absent" /\ settings.feature
    /\ Start(l, a, may, "device")
    /\ Same /\ UNCHANGED <<row, ran>>

\* POST /agent-ops/approvals/{id}/approve does not, and does not ask for the feature.
ApproveOps(l, a, may) ==
    /\ Free(l) /\ row[a].status # "absent"
    /\ Start(l, a, may, "claim")
    /\ Same /\ UNCHANGED <<row, ran>>

RejectRow(a) ==
    IF row[a].status = "pending" THEN row' = [row EXCEPT ![a].status = "rejected"]
                                 ELSE row' = row

\* The facts that block an approval do not include the risk or the catalog.
Blocked(l) ==
    /\ l \in Leads /\ At(l, "service", "decide") /\ ~(job[l].eligible /\ job[l].consented)
    /\ RejectRow(job[l].of) /\ Answered(l, "none")
    /\ Same /\ UNCHANGED ran

Unblocked(l) ==
    /\ l \in Leads /\ At(l, "service", "decide") /\ job[l].eligible /\ job[l].consented
    /\ Start(l, job[l].of, job[l].may, "claim")
    /\ Same /\ UNCHANGED <<row, ran>>

Reject(a) ==
    /\ row[a].status = "pending"
    /\ RejectRow(a)
    /\ Same /\ UNCHANGED <<job, ran>>

\* The gates of the runtime: the tool exists, and the lead may use it.
Runs(l) == settings.feature /\ job[l].may

\* Phase 1 of the queue's approve, and the dispatch of phase 2 up to the tool.
Claim(l) ==
    LET a == job[l].of
    IN  /\ job[l].pc = "claim" /\ row[a].status = "pending"
        /\ row' = [row EXCEPT ![a].status = "executing"]
        /\ IF Runs(l) THEN EntersTool(l) ELSE Reports(l, "error")
        /\ Same /\ UNCHANGED ran

TooLate(l) ==
    /\ job[l].pc = "claim" /\ row[job[l].of].status # "pending"
    /\ Answered(l, "none")
    /\ Same /\ UNCHANGED <<row, ran>>

Record(l) ==
    /\ job[l].pc = "record"
    /\ row' = [row EXCEPT ![job[l].of].status =
                  IF job[l].answer = "executed" THEN "approved" ELSE "failed"]
    /\ Goto(l, "done")
    /\ Same /\ UNCHANGED ran

-----------------------------------------------------------------------------
(* The world, and a restart                                                  *)

InTool(j) == job[j].side = "tool" /\ job[j].pc \in {"consent", "decide", "call"}
Unsettle == job' = [j \in Jobs |-> IF InTool(j) THEN [job[j] EXCEPT !.stale = TRUE] ELSE job[j]]

DeviceChanges ==
    /\ device' \in Device \ {device} /\ Unsettle
    /\ UNCHANGED <<settings, consent, act, row, ran>>

\* A consent that a session asked for is granted, or revoked with the session.
ConsentChanges ==
    /\ \E s \in Subjects : consent' = [consent EXCEPT ![s] = ~@]
    /\ Unsettle
    /\ UNCHANGED <<settings, device, act, row, ran>>

PutBack(x) ==
    IF x.status = "executing" THEN [status |-> "pending", recovered |-> TRUE] ELSE x

\* The process dies and starts again, with other flags if somebody set them.
Restart ==
    /\ settings' \in Flags
    /\ row' = [a \in Actions |-> PutBack(row[a])]
    /\ job' = [j \in Jobs |->
          IF job[j].pc \in {"idle", "done", "lost"} THEN job[j]
          ELSE [Fresh(job[j].of) EXCEPT !.pc = IF j \in Leads THEN "idle" ELSE "lost"]]
    /\ UNCHANGED <<device, consent, act, ran>>

Next ==
    \/ \E a \in Actions :
          \/ \E may \in BOOLEAN : Ask(a, may) \/ \E l \in Leads : ApproveDevice(l, a, may)
                                                               \/ ApproveOps(l, a, may)
          \/ Propose(a) \/ Deny(a) \/ Park(a) \/ Dispatch(a) \/ Reject(a)
    \/ \E j \in Jobs : ReadDevice(j) \/ ReadConsent(j) \/ FactsRaise(j)
                       \/ Refuse(j) \/ Clear(j) \/ CallIntune(j)
    \/ \E l \in Leads : Blocked(l) \/ Unblocked(l) \/ Claim(l) \/ TooLate(l) \/ Record(l)
    \/ DeviceChanges \/ ConsentChanges \/ Restart

Spec == Init /\ [][Next]_vars

-----------------------------------------------------------------------------
(* Properties                                                                *)

\* The step is j's call, and it takes effect.
TakesEffect(j) == job[j].pc = "call" /\ job'[j] # job[j] /\ ran' # ran

\* An action that takes effect with no lead behind it is of low risk, or of
\* medium risk where that is allowed, its text is clean, autonomy is on, and
\* its asker may run it (policy.py, and the permission the runtime asks for).
UnattendedIsCleared ==
    [][\A a \in Actions : TakesEffect(a) =>
          /\ act[a].risk = "low" \/ (act[a].risk = "medium" /\ settings.medium)
          /\ act[a].clean /\ settings.autonomous /\ job[a].may]_vars

\* Whoever asks or approves, by whichever route, an action takes effect only
\* while the feature is on, though it was parked before it was turned off, and
\* on a managed device whose owner consents, unless that changed after the tool
\* looked or the servers are mocks (build_device_execution_tools; guardrails.py,
\* as_tool_provider).
EffectIsAllowed ==
    [][\A j \in Jobs : TakesEffect(j) =>
          /\ settings.feature
          /\ \/ job[j].stale \/ settings.mock
             \/ device.managed /\ device.owner # "none" /\ consent["owner"]]_vars

\* An action takes effect twice only if a restart put its approval back: the
\* route that runs it at once and the queue never both have it.
RunsOnceUnlessPutBack == \A a \in Actions : ran[a] = 2 => row[a].recovered

\* The jobs that are in the tool of a, and the asker's last word on it.
Holding(a) == {j \in Jobs : /\ job[j].of = a /\ job[j].side = "tool"
                            /\ job[j].pc \in {"device", "consent", "decide", "call"}}
Settled(a) == IF row[a].status = "absent" THEN job[a].pc \in {"done", "lost"}
                                          ELSE row[a].status # "pending"

Right(a) ==
    CASE row[a].recovered -> "lost"
      [] ~row[a].recovered /\ Holding(a) # {} -> "taken"
      [] ~row[a].recovered /\ Holding(a) = {} -> IF Settled(a) THEN "spent" ELSE "free"

By(a) == IF row[a].recovered THEN {} ELSE Holding(a)

Once == INSTANCE AtMostOnce WITH
    Works <- Actions, Holders <- Jobs,
    right <- [a \in Actions |-> Right(a)],
    by <- [a \in Actions |-> By(a)],
    done <- ran

\* All routes to an action's tool share one right to run it, as AtMostOnce
\* promises: dispatch at once, the queue behind it and the two approval routes
\* never hand it out twice, but for a restart (service.py request_action and
\* approve, ApprovalQueue.approve).
ActsAtMostOnce == Once!Spec
=============================================================================
