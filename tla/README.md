# Aditi IT Assist: verification project

TLA+ models of the parts of Aditi IT Assist (`src/backend/app`) in which several
requests, sweepers or processes work on the same rows, the TLC configurations
that check them on small instances, and TLAPS proofs of their safety properties
for every size.

The backend is a FastAPI application over PostgreSQL (SQLAlchemy, one
`AsyncSession` per request) and, optionally, Redis. Almost all of the state is
in rows that concurrent requests and background loops load, judge and write
back; what can go wrong is what happens between a load and the commit that
follows from it. Most modules model that. `DiagnosticWorkflow` models a
sequential protocol: the dialogue graph that decides, message after message, what
the agent does next. `DeviceActions` models one request whose facts may change
between the several looks that the code takes at them.

## 1. Modules

| Module | Models | Proofs |
| --- | --- | --- |
| `LiveChat` | live chat, the ticket's claim, assignment, release, resolution, status changes, closing and reopening, the idle sweeper | `LiveChat_proofs` |
| `ChatSlot` | the abstract promise of live chat: one conversation per ticket | (refinement in `LiveChat_proofs`) |
| `OfferTurns` | the abstract promise of the hand-off: an offer goes round in whole turns | (refinement in `HandoffOffers_proofs`) |
| `AtMostOnce` | the abstract promise of every claim of work: one holder at a time, done once | (refinements in `ApprovalQueue_proofs`, `AtMostOnce_proofs`) |
| `RemoteSupport` | attended remote sessions: consent, launch, revocation, end, poll, sweeper | `RemoteSupport_proofs` |
| `HandoffOffers` | presence, offers of escalated tickets, acceptance, the handoff sweeper | `HandoffOffers_proofs` |
| `ApprovalQueue` | the human-approval queue of agent actions, and its recovery after a restart | `ApprovalQueue_proofs` |
| `ChatEscalation` | one conversation's envelope in its stores, and the ticket it files | `ChatEscalation_proofs` |
| `DiagnosticWorkflow` | the dialogue graph of a conversation, its classifier of intents and the turn around it | `DiagnosticWorkflow_proofs` |
| `KnowledgeLifecycle` | an article's status, flags, versions, snapshots and index | `KnowledgeLifecycle_proofs` |
| `ScheduledReport` | the monthly report of every replica | `AtMostOnce_proofs` |
| `DeviceActions` | a request for an action on a device: facts, policy, the two approval routes, the tool | `AtMostOnce_proofs` |
| `MC*` | definitions the configurations need (symmetry sets, traffic, function-valued constants) | |

`PROJECT.json` maps every definition to the lines it models, lists the runs, a
mutation of the code for each property (a dropped lock, a lost select, an
off-by-one) under which the property fails, the hazards, the findings and the
theorems.

## 2. Inventory of the system

State is in PostgreSQL unless it says otherwise. "Hard" names what a test hardly
reaches.

### Work between people

**Live specialist chat** (`services/specialist_chat_service.py`,
`api/v1/specialist_chat.py`). State: `specialist_chat_sessions` (ticket,
specialist, status, reason, `last_activity_at`), messages, typing hints in
memory. Operations: start, send, poll (which applies the idle rules), end,
`sweep_idle`, `end_active_for_ticket`. Talks to: the ticket, the queue, remote
support. Hard: send and poll load without a lock and write a status; `end()`
locks but may get the copy it already had; two starts meet at a partial unique
index. Right when: one live chat per ticket, an ended chat stays ended, an
abandoned one ends, the sweeper ends quiet chats only. *Modelled:* `LiveChat`, but for typing hints, the transcript and the message that
announces a remote session.

**Specialist queue** (`services/specialist_queue_service.py`). State: the
ticket's assignee and status. Operations: claim (one conditional UPDATE),
release, resolve, listing. Hard: release and resolve decide on an unlocked copy
and lock ticket and chat in opposite orders. Right when: a claim never takes over
a claimed ticket, only its holder or an assignment takes a ticket away, nothing
waits for ever. *Modelled:* `LiveChat`.

**Live-handoff offers** (`services/specialist_handoff_service.py`,
`specialist_presence_service.py`). State: `live_handoff_offers` (state,
specialist, round, times), presence and heartbeats. Operations: `create_offer`,
`accept` (after a claim in a transaction of its own), `advance_once`, heartbeat,
available/away. Hard: several schedulers, an acceptance racing a re-offer,
failures that are swallowed, expiring presence. Right when: an acceptance is
final, a specialist keeps an offer for his turn, every offer ends.
*Modelled:* `HandoffOffers`.

**Attended remote support** (`services/remote_support/`). State:
`remote_support_sessions`, consent rows, and the provider's sessions outside.
Operations: request, grant, deny, launch, connected, revoke, end, status poll,
`sweep_sessions`. Hard: no row is ever locked; the provider is called between
load and commit; time policies. Right when: consent comes first and revoking it
ends the session, an active session can be timed out, unanswered requests
lapse. *Modelled:* `RemoteSupport`.

**Tickets** (`services/ticket_service.py`, `api/v1/tickets.py`). State: status,
assignee, time of resolution, other timestamps. Operations: create, update status,
PATCH, assign, close, reopen, request a live agent. Hard: each one overwrites an
unlocked copy, and decides about `resolved_at` on it. Right when: what is resolved or
closed has its time of resolution, and goes back to work only by an operation
that means it. *Partly:* all of the changes of assignee, status and `resolved_at` are
in `LiveChat`, the creation by a conversation is in `ChatEscalation`; comments,
events and the other properties are not modelled.

**Chat escalation and support sessions** (`services/agents/chat_service.py`,
`support_session_service.py`, `session_store.py`). State: the conversation's
envelope in Redis or memory (ticket, waiting state), its durable copy, the
ticket. Operations: a turn, request live agent, cancel waiting, the poll of the waiting
state (which may restore the envelope and save it), restore. Hard:
double clicks, a turn that saves over a later change, eviction of the envelope,
two workers with a store each. Right when: one conversation files one ticket, and says
nothing of a ticket that is not there. *Modelled:* `ChatEscalation`, but for the
lists of sessions and the transcript, which read.

**Change management** (`services/change_service.py`). State: a change, its
approvals and its status under `CHANGE_TRANSITIONS`. *Not modelled:* it does not run
against the migrated database (section 14).

### Work of agents

**Approval queue** (`services/agents/approvals.py`,
`repositories/pending_approval_repository.py`). State:
`pending_approval_records`. Operations: propose, approve (claim under a lock,
run the tool outside any transaction, record), reject, reconcile at start. Hard:
crashes between the phases, several workers, a rejection that takes no lock.
Right when: an action takes effect once, a decision is final, no claim is
stranded. *Modelled:* `ApprovalQueue`.

**Device actions, tool runtime** (`services/agents/device_actions/`, `tools/`,
`api/v1/device_execution.py`). State: none of its own; the flags, the device at
Intune, the consents, the parked actions. Operations: route a request (run, park, deny), propose
one past the policy, approve by either of two routes, reject. Hard: the facts are read
twice and may change in between, parked actions outlive the flags, and the two approval
routes check different things. Right when: what takes effect was allowed when and where the
tool looked, and runs unattended only if the policy clears it. *Modelled:*
`DeviceActions`, its races on one row in `ApprovalQueue`. **MCP sessions** (`mcp/`) are
transport.

**Background agent tasks** (`services/agents/tasks/`). State: tasks in memory.
Operations: enqueue by key, claim, run, retry, stop. *Not modelled:* off by default,
and its handlers change nothing.

**Diagnostic workflow** (`workflows/graph.py`, `workflows/nodes/`,
`services/agents/intent_classifier.py`, `chat_service.py`). State: the saved state of
the conversation (what was agreed, presented, tried, asked, offered), the session's
ticket. Operations: a turn, which runs triage, retrieval, resolution, escalation
and ticket draft in an order that the state decides. Hard: the flags of a turn are read
turns later, one message is read by several nodes and again by the service, with
different contexts, and a node that raises leaves the previous state. Right when:
steps follow agreement and do not repeat, nobody who asked for a human is given
more of them, a ticket is asked for and belongs to its topic. *Modelled:*
`DiagnosticWorkflow`.

**Classifiers, retrieval, LLM and web search** (`services/llm_service.py`,
`services/knowledge/retrieval.py`, ...). Scores, text and calls to outside services.
*Not modelled:* what they compute is text and floating-point numbers; their outcomes
are choices in `DiagnosticWorkflow`.

### Knowledge, reports, accounts

**Knowledge lifecycle** (`services/knowledge/management.py`, `lifecycle.py`,
`indexing.py`, `repositories/knowledge_repository.py`). State: an article's status,
published flag, tags, version and text; snapshots of its versions; its chunks in the
index. Operations: the transitions, update, delete, reindex. Hard: concurrent
transitions each judge a copy and write their own columns, snapshots and
chunks. Right when: no version is lost or rewritten, what is archived is not published
by a late reviewer, row, snapshot and index agree. *Modelled:* `KnowledgeLifecycle`.
**Knowledge improvement** (`improvement.py`) is not: routes only insert
candidates, and nothing calls their review or promotion.

**Monthly report** (`services/reporting/scheduled_report.py`). State: one row per
month. Operations: the daily pass: claim, build, send, record. Hard: replicas, crashes
between the commits, failures between the send and its record. Right when: one
report a month. *Modelled:* `ScheduledReport`.

**Sessions and tokens** (`api/v1/auth.py`, `core/token_store.py`). State: the
denylist in Redis or memory. *Not modelled:* authentication is the boundary of the models, whose
requests come from users already known.

**Scheduler** (`services/scheduler.py`, `main.py`). Runs the idle sweep, the
remote-session sweep, the handoff pass, the monthly report and the task runner in
every process. Its passes are actions of the modules of what they sweep; the loop of
the task runner is left out with the tasks.

**Not modelled, with reasons in `PROJECT.json`:** rate limiting (documented as
approximate), ingestion, assets and relationships, categories, escalation
e-mails, audit and action ledger (append-only), reporting and administration
(queries and plain updates), the earlier `remote_support_service.py` that no
route imports, and the frontend, which appears as requests in any order.

**How they meet.** A turn of `DiagnosticWorkflow` ends with or without a ticket to file;
`ChatEscalation` files it, from a turn or a click, and says what becomes of the
envelope; the ticket's commit is followed by an offer, which `HandoffOffers` routes until
somebody claims it; the claimer's chat and all that happens to the ticket afterwards
are `LiveChat`; a chat may ask for a remote session, `RemoteSupport`; a parked action
of `DeviceActions` waits in `ApprovalQueue`. The modules meet in rows whose other writers each
one admits as choices (`Release` in `HandoffOffers`, any message and any turn's
outcome in `ChatEscalation`), so none assumes more of its neighbours than their code.
`LiveChat` composes three services with the sweeper because they write the same two rows.

## 3. The database, as the models see it

Three facts about PostgreSQL and SQLAlchemy decide most of the races. The
modules state them once and use them everywhere.

1. A transaction is READ COMMITTED (the default; `core/database.py` sets nothing
   else). Its writes appear at its commit, all at once.
2. A request's loaded object is a *copy* (`req[r].copy`). The identity map keeps
   it: a second SELECT of the row in the same session, even `FOR UPDATE`, does not
   refresh it; only `services/admin/user_service.py` asks for that with
   `populate_existing`.
3. A flush writes *only the columns whose value differs from the copy*
   (`WriteChat`, `WriteTicket`, `Flush`). A request that "sets" a column to the
   value it had loaded leaves whatever another transaction wrote there.

A write of a row somebody else has locked waits; `SKIP LOCKED` leaves the row
out. Requests may fail anywhere before their commit.

A request whose first check refuses it changes nothing and is left out: its load
action is not enabled. Roles are left out too: a lead, admin or specialist who
may perform an operation is simply somebody who performs it.

## 4. LiveChat

**State.** `ticket[t]` and `session[s]` are the committed rows; `idle[s]` is the time
since `last_activity_at` of a live chat; `req[r]` is a request in flight with the
copies it loaded; `sweep[w]` is the pass of an idle sweeper; `rowLock` is the row
locks that outlive a single action.

**Actions.** `Claim` is the conditional UPDATE. Starting, sending, ending and
polling are a load and a commit each (`StartLoad`/`StartInsert`,
`SendLoad`/`SendCommit`, `EndLock`/`EndCommit`,
`Poll`/`TimeoutLock`/`EndCommit` or `WarnCommit`). What staff do to the ticket is a load
(`AssignLoad`, or `StaffLoad` with the status that `MaySet` allows) and
`TicketCommit`; `Assigned`, `Status` and `Stamp` say what each operation writes into
assignee, status and `resolved_at`. That a ticket is put in the queue for a live agent
(`TicketService.request_live_agent`) is no operation of its own: its one caller makes the ticket
in the same transaction, so that it is part of how a ticket begins. Release and resolve share
`HandBackLoad`, `FindChat`, `ChatLock`, `HandBackCommit`; resolve locks the ticket
first because the select of the chat autoflushes its change. The sweeper is
`SweepLock` and `SweepCommit`. `UniqueIndexAdmits` is the partial unique index
`ix_specialist_chat_active_per_ticket`; a refused start resumes the existing chat,
any other refused write fails its request. `DeadlockAbort` is the database's
deadlock detector, `Crash` a restart of the process.

**Runs.**

| Run | Instance | Shows |
| --- | --- | --- |
| `live_chat` | 1 ticket, 2 specialists, 2 chats, 2 requests, 1 sweeper; every operation | `OneLiveChatPerTicket`, `LockedCopyIsCurrent`, `EndedRewrittenOnlyByStaleReader`, `SweeperTimesOutOnlyQuietChats`, `TicketChangesHandsOnlyByAssignment`, `ResolutionStands`, and the refinement `OpensOnlyEmptySlots` |
| `live_chat_progress` | 1 chat, 2 requests, 1 restart; start, send, release, resolve; fairness | `AbandonedChatEnds`, `RequestsFinish` |

**Bounds.** One ticket is enough because no operation touches two; two chats let
one be revived while the other is live; two requests and a sweeper are three
transactions on one row, and every race found needs two. The idle time has three
values (quiet, warned, over), since the code only compares it with two
thresholds. `MaxMessages` bounds the messages (a message resets the clock, which is
all a second one could do again); the sweeper's batch limit of 200 rows is left
out, as two rows never reach it. All operations at any time are ten times the states, so
the action constraint `StaffBeforeChat` puts what staff do to the ticket before its first
chat, which then starts on a ticket in progress; a chat's operations meet each other and
an assignment in every order. A release or a resolve that finds a live chat is in
`live_chat_progress`, and the proofs have no constraint. Requests, specialists and chats are symmetric
in the safety run; the liveness run has no symmetry.

**Fairness** (`FairSpec`). `WF(Tick)`: time passes. `SF(Proceed(r))`: a request is
served, and as PostgreSQL queues lock waiters it gets its row eventually although the
row is locked again and again. `WF(SweepCommit(w))`, and
`SF` of "a pass takes chat s": the scheduler runs the sweep every 30 seconds for as
long as the process lives, and a row that is free over and over is not skipped at
every one of the passes. This last point is an assumption about timing: `SKIP LOCKED`
alone would let an adversary hold the row at each pass. It is a strong fairness of the
sweep and promises nothing about arrivals.

**Proved** for any constants that satisfy `ThresholdsAssumption` and
`IdentityAssumption`: `TypeCorrect`, `OneLiveChat`, `LockedCopyStaysCurrent`,
`EndedRewrittenByStaleReader`, `ResolutionKept`, `HandsChangeByAssignment`,
`SweeperTimesOutQuietChats`, and `ImplementsChatSlot`, the refinement of
`ChatSlot`: every safety property that the runs check, for any traffic. None of the properties is inductive alone. `IInv` adds, for each
request, what its program counter says of what it loaded (a request about to write
a chat loaded it live; one about to commit an end holds the row's lock), and for each
sweeper pass that a row it will change was loaded live. The index gives
`OneLiveChatPerTicket` for every write that makes a row live; for a write under a
lock, `LockedCopyIsCurrent` shows that the row can only become ended. The
refinement maps a ticket's slot to the set of its live chats: every step leaves it,
empties it, or fills an empty one. For `ResolutionStands` a write whose copy is current is
looked at operation by operation, and a write whose copy is not is the exception that
the property names. `Quiet`, inductive next to `IInv`, says that a chat whose end a
pass has decided stays quiet under its lock.

`ResolutionStands` excepts requests that overlap, and TLC reaches both of its exceptions:
a close that commits over a reopening leaves the ticket closed with no time of
resolution, and an assignment that had loaded the ticket as new puts a closed one
back to triaged.

*Only checked:* the two liveness properties.

## 5. RemoteSupport

**State.** `row[s]` with the status, provider id, `started_at` and reason;
`consent[s]`, its grants in order; `open` and `opened`, what the provider holds,
which no rollback undoes; `age` and `running`, the two clocks; `req[r]`;
`verdict`, a sweeper pass in progress.

**Actions.** Every operation is a load, which checks the transition table
(`Allowed`, the code's `_ALLOWED_TRANSITIONS`) against the copy, and a commit; calls to
the provider (`LaunchCreate`, `HangUp`) are steps between the two, as the code
awaits them. `DecideLoad` looks at the deadline before the table, as
`grant_consent` does. `Drop` is a request that fails with its provider call
done. `SweepLoad` is the three selects and the provider calls, `SweepCommit`
the one commit of the pass.

The column `termination_reason` is an enumeration in the ORM's model
(`models/remote_support.py:186`), and two of the sweeper's reasons are not in it. On a
schema that is created from the ORM, as `main.py:57` does in development, the flush
fails and the pass rolls back. The migration `002_enterprise_upgrade` (line 372), which
production runs, declares the column as text. The model follows the ORM;
`PendingIsResolved` excepts the sessions that live next to such a row
(`Poisonous`), which on the migrated schema never exist, and the other properties do not
depend on the choice: with text columns the sweeper's pass commits more, and what
it commits is a terminal status.

**Runs.**

| Run | Instance | Shows |
| --- | --- | --- |
| `remote_support` | 1 session, 2 overlapping requests of every kind, poll answers "active" and "completed" | `ConsentBeforeSupport`, `ActiveIsTimed`, `RevivedOnlyByOverlap`, `SecondLaunchNeedsOverlap`, `HungUpWhenFinished` |
| `remote_support_lapse` | 2 sessions, 1 request at a time, every provider answer, fairness | `PendingIsResolved`; without its exception TLC refutes it |

**Bounds.** Sessions interact only through the sweeper's single commit, which takes two
(`remote_support_lapse`). Two requests show every race of a load against a
commit. The windows are one tick each, so that each policy is reached, alone and
together with the others; two launches allow a second one to overlap the first.

**Fairness.** Time passes, a request in flight is served, and the sweeper's loop
runs again whatever a pass raised (`scheduler.py` catches and logs).

**Proved** under `PolicyAssumption`: `TypeCorrect`, `ConsentComesFirst`,
`ActiveCanBeTimedOut`, `RevivalNeedsOverlap`, `FinishedIsHungUp`, `ForgottenByOverlap`. What a
request loaded is out of date at its commit; `IInv` says what still holds of it. Provider id and start time are never
cleared and grants never deleted, so a copy that has them implies the row
has them (`StillTrue`), and the check of the load ties the status to be written to the
copy (`Checked`). With `RowsOK` this makes the unlocked write harmless for
consent and timing, whatever was committed in between. For
`HungUpWhenFinished` a second invariant (`HInv`) says which of the provider's sessions a request
has hung up between its load and its commit. For `SecondLaunchNeedsOverlap` a third (`FreshOK`)
says that no session that still awaits consent, in the table or in a copy, has a provider id:
so an answer that grants a session with one had loaded it earlier, and the provider's poll, which
needs an id, cannot grant. What overlapping requests do break is in the exceptions of
`RevivedOnlyByOverlap`, `SecondLaunchNeedsOverlap` and `HungUpWhenFinished`, and in the findings.

*Only checked:* `PendingIsResolved`.

## 6. HandoffOffers

**State.** Presence and heartbeat age of each specialist; `offer[t]` with the ages of
the offer and of the request; the ticket's owner; `routing`, tickets committed
without their offer yet; `accept[p]`, an acceptance between its transactions; `pass[w]`, a
sweeper's pass: its locks, what is left to do, its unsaved changes and whether the
session is dirty.

**Actions.** `Escalate` then `CreateOffer` or `CreateOfferFails` (the code swallows
every error there). An acceptance is `AcceptClaim`, `AcceptLoad`, `AcceptMark`. A pass is
`PassLoad` (`FOR UPDATE SKIP LOCKED`), one `PassAdvance` per offer (`advance_once`
with `decide_next` as `Decision`), and `PassEnd`, which commits only if the session is
still dirty. `Release` allows any owned ticket to be handed back at any time: who
may do so is the subject of `LiveChat`.

**Abstractions.** Specialists are ranked by open tickets and skills; the model offers to
any candidate, which includes the one ranked first. A pass reads the clock
once; `Tick` therefore happens between passes.

**Runs.**

| Run | Instance | Shows |
| --- | --- | --- |
| `handoff_offers` | 1 ticket, 2 specialists, 2 schedulers, fairness | `ClosedStaysClosed`, `TurnIsWhole`, `OffersEnd`, and the refinement `OffersTakeTurns` |

**Bounds.** Offers do not interact except inside a pass. `FallbackAge` 3 over `OfferTTL` 1
and two rounds allow offer, re-offer, broadening and fallback within one behaviour, in
every order the code has.

**Fairness.** Each scheduler loop wakes up again and runs its pass to the end;
time goes on (strong, since it waits for passes); passes do not die for ever (from some point on
none does). Nothing is assumed of people. `OffersEnd` rests on
the age cap alone and on the commit of each pass, which its mutant drops: what a pass
decided is then lost with its locks.
With two tickets it would not hold as checked here, since a pass whose last offer is held
loses what it did to the earlier ones: the commit looks only at what is not flushed
yet (a finding).

**Refinement.** `OfferTurns` says where an offer may go: from nobody to a first
specialist, from one whose turn is over to another, at most `MaxRounds` times, or to
everybody; once the request is late only to an end; and never to its requester. It knows no passes,
locks, copies or clocks. `OffersTakeTurns` maps an offer to its stage (its
state with what its two ages are compared with), its holder and the turns begun, and leaves out the
mark "broadened", which a re-offer keeps (a finding). In the run the requester is not
staff, so that both specialists can be asked; the proof has any `Requester`.

**Proved** under `OfferAssumption`: `TypeCorrect`, `AcceptanceIsFinal`, `TurnsAreWhole`,
`ImplementsOfferTurns`, for
any number of schedulers and tickets. `IInv` says what `SKIP LOCKED` gives a pass: its
locked offers are active and are disjoint from those of any other pass, what
it has not advanced is still the committed row, and what it drafted ends no turn
early. An acceptance waits for the pass, so it finds an offer when it writes. The
refinement needs more: a pass drafts one offer after another and commits them together, while
people come and go, so `DraftsOK` says of each draft that it is one move of the row as it still
is; the commit is then a move of each of its offers, and of no other.

*Only checked:* `OffersEnd`.

## 7. ApprovalQueue

**State.** `row[a]` (status, who decided, whether `recovered_at` is set), `req[r]` with
its worker, `up`, the workers running, and `ran[a]`, how often the action took
effect (2 stands for two or more).

**Actions.** `Propose`; `ClaimLoad` and `ClaimCommit` (phase 1, `FOR UPDATE`), `Execute`
(phase 2, no transaction), `PersistLoad` and `PersistCommit` (phase 3, no lock, no
look at the status); `RejectLoad` and `RejectCommit`; `Dies`, a request that fails at any
point; `Crash` and `Start` of a worker, which puts every `executing` row back
before it serves. The effect of a tool and what it reports are independent: a
remote call may time out after it worked, and a device tool that denies the action
returns a result, which the runtime counts as executed.

**Run.** `approval_queue`: one action, three leads, two workers (the production image
runs two). `RepeatIsMarked`, `DecidedOnce`, `ClaimIsNotStranded`, and the refinement
`RunsAtMostOnce` of `AtMostOnce` (section 13). One row suffices
because rows meet only in `PutBack`, which treats each alone; three
requests are needed for two approvals and a rejection to overlap. Restarts are
unbounded, since nothing in the state counts them.

**Fairness.** Only that a worker that is down is started again, as the supervisor of
uvicorn's workers does. Nothing is assumed of requests: `ClaimIsNotStranded` holds even
if every one of them dies.

**Proved** under `QueueAssumption`: `TypeCorrect`, `RepeatNeedsRecovery`,
`DecidedRowsStayDecided`, `ImplementsAtMostOnce`, for any number of actions, leads and workers. `IInv` says of a row
that no restart has put back: the approval working on it is alone, the row is
`executing` or was rejected meanwhile, and its tool has not run before that
approval's. The lock of phase 1 is what keeps two claims apart.

*Only checked:* `ClaimIsNotStranded`.

## 8. ChatEscalation

**State.** `backend`, the store that the deployment has; `obj[r]`, the envelope object
that request `r` made (ticket, waiting); `cache[w]`, the map of worker `w`; `redis`, the
stored copy; `row`, the durable row with the last note; `req[r]` with its kind (turn,
click, cancel, poll), worker, object and note; `tickets`, committed tickets, each named by the
request that filed it; `dropped`, those of a topic that was left; `excused`, a history
variable described below.

**Actions.** `Enter`; the load of the envelope (`LookInMap`, `LookInRedis`, which falls
back to the map), `Restore` from the durable row, `Keep`; `Answer` of a turn, which may drop
the ticket with its topic; `File`, whose answer may be lost after the commit; `Record`,
`Offer`, `SaveEnvelope`, `Format`, `SyncTurn`; `Fail`; `Evict`, `Expire` and `Crash`,
which take an envelope, a copy or a worker with its map. The memory store gives all requests of a
worker the same object; the Redis store gives each its own. A poll of the waiting state is
a step only if it finds no envelope, and then restores and keeps one as the other requests
do; one that finds it changes nothing.

**Run.** `chat_escalation`: three requests of any kind, two workers (the image runs two),
either store, and a conversation that may be new or resumed. Each request is served once;
two are enough for every race, and the third one is the request that pays for it
by filing another ticket. `SecondTicketHasACause` states the promise "repeated clicks reuse the same
ticket" with its exceptions: each `Excuse` names a cause, and without any one of
them TLC violates the property, so the list is exact for this instance.
`CopiesFollowTickets` has no exception but the change of topic, which drops the ticket and
not the wait.

**Proved** under `EscalationAssumption`, for any number of requests and workers:
`TypeCorrect`, `TicketsAreReused`, `CopiesNameTickets`. As nobody sees all copies of the
note, the invariant says of each place that a request may read next that it names
every open ticket; which place that is changes as a ticket goes from the request that
filed it to the object, to the store, and to the row. The steps that the code leaves
uncovered are the ones that set `excused`.

## 9. DiagnosticWorkflow

**State.** `saved`, the state of the session at the end of the last turn (agreed, awaiting an
answer, offered, asked for a human, steps presented, failed, counters, phase); `s`, the
working copy; `pc`, the node; `msg`; `turn`, what this turn presented; `reply`; `ticket`.

**Actions.** One per exit of a node: `Triage` in its stages, retrieval, resolution,
escalation, the draft, and the service's turn around them, which reads the message
again, saves and makes the ticket; the button; and a node that raises, after which
`saved` is what it was. A message is what the code's lists of phrases find in it:
`cues` for the detectors of the classifier, `words` for the nodes' own lists. `Reads` is the
classifier with its order of rules and its LLM, whose answers are any of `LlmReads`.
The two feature flags have their defaults (no fluid chat; the supervisor in
shadow mode, which on this path only logs).

**Abstractions.** A subtype is taken to change only by what the message tells; the code
classifies the message together with the statement and the symptom saved before, so that in a rare
case (a phrase of the last message hid one of the saved ones) a message that tells nothing could
start the steps afresh, and `StepsDoNotRepeat` does not speak of that. `EnoughContext` does not look
at the flags beside the category, and so lets the button make a ticket in a few states which the
code leaves only within a turn.

**Runs.** `diagnostic_workflow`: sixteen messages whose detections were computed from the
code's lists (a few say two things at once, as "yes please, it's still not working"), three
steps, an LLM that may answer three intents, `MaxTurns` 7, `MaxQuestions` 2, `MissLimit` 2. The
limits are smaller than the code's 10, 3 and 3 so that they are met; `MaxTurns` must
exceed 5 for an issue to run through agreement, three steps and the offer. Counters
saturate at the value they are compared with. `diagnostic_promise` has the code's own limits
and no LLM: *violated:* `PromisedTicketExists`. A deadlock is an error: an employee
may always say something.

**Proved** under the three assumptions of the module: `TypeCorrect`, `AdviceIsAgreed`,
`NoAdviceAfterAsking`, `AdviceIsNew`, `TicketsAreAskedFor`, `TicketsFollowTopics`, for any
knowledge base, messages, LLM and limits. `Carried` says what every stage of triage
preserves of the saved state, and the invariant what each later node may rely on.

## 10. KnowledgeLifecycle

**State.** `row[a]` (status, published flag, tagged, version, text, state of the
embedding), `snap[a][v]`, `chunks[a]`, and `req[r]` with its copy and what it will
write.

**Actions.** A load that checks the transition table and the rules of each operation
(`From`, `Moved`, `Published`, `Archived`, `Revised`), and one commit that writes the
columns that differ from the copy, takes the snapshot, which the unique index may refuse,
and rebuilds or drops the chunks. `update`, `reindex` and `delete` likewise. The
handler in `reindex` that marks an article "failed" has no step: an embedder that fails
answers with no vectors, which `Indexed` has, and an error of the database rolls the whole request
back, which is `Fails`.

**Run.** `knowledge_lifecycle`: one article (operations touch one), two texts, two
requests, versions up to 3: two revisions, and every pair of overlapping operations.
`HistoryIsKept`: no snapshot is rewritten and no version left without one. `ArchivedIsNotPublished`:
a publication does not overtake an archive. `PublishedTextIsKept`: a published text that is
replaced or taken back, be it by a request that loaded the article before it was published, stays in the
snapshot of its version. `DriftNeedsOverlap`: row, flags, snapshot and index disagree only
after an overlap.

The unique index is also more than the workflow wants. A publication takes the
snapshot of its version and leaves the article at that version; an archive or a new revision
of the published article takes the same snapshot again and is refused. The documentation, the
transition table and a unit test allow both (a finding). No property
states the refusal as a promise. But nothing else keeps
stale requests in order: in a variant of the model that lets an archive or a revision of a
published article through without a second snapshot, TLC finds that `PublishedTextIsKept` and
`DriftNeedsOverlap` still hold, and that overlapping requests violate the other two.

**Proved** for any number of articles, texts and requests: `TypeCorrect`,
`RevisionsAreKept`, `ArchiveIsNotUndone`, `DriftTakesTwo`, `PublishedTextStaysOnRecord`. No
request holds a lock; what survives is the version. A version is left only with its snapshot
taken, so a request that finds room for the snapshot of the version it loaded has the
current version, and nobody has archived it. For the published texts one more invariant
(`SeedsOK`) is needed: a published article without a snapshot is a seeded one, and every request
in flight on it has a copy with its text, so the first one that takes it away puts that text on record.

## 11. ScheduledReport

**State.** The `month` that is due and whether its day has come (`open`), `period[m]`, the row (absent,
"sending", "failed", "sent"), `lock[m]`, `copies[m]`, how many mails the server took (up to
two), `run[r]`, the pass of a replica, and `doubtful[m]`: a send raised although the mail was
taken.

**Actions.** The look at the month, the insert or the locked update of the claim, the report,
the send with its four outcomes, the commit of the outcome, and a stop of a replica
anywhere.

**Run.** `scheduled_report`: three replicas, three months. Two
replicas race, the third one finds what they left. `MailedOnce`, and the refinement
`MailsAtMostOnce` of `AtMostOnce`. The names of this module say "report" so
that `AtMostOnce_proofs` can extend it together with `DeviceActions`.

**Proved** under `ReportAssumption`: `ReportTypeCorrect`, `ReportIsMailedOnce`,
`ReportImplementsAtMostOnce`. A replica holds a
month from the commit of its claim to the commit of its outcome, and the row says
"sending" all that time; "failed" can be claimed only by the one replica that has
the lock. The one exception of `MailedOnce` is a doubtful send.

## 12. DeviceActions

**State.** `settings`, the flags a process was started with; `device` (managed, and how
Intune names its owner) and `consent`, which change at any time; `act[a]`, the risk of the
action and whether the text of its request is clean; `row[a]`, the approval that parks it;
`job[j]`, a request for an action or a lead's request, with what it has read; `ran[a]`, how
often the action took effect (2 for more).

**Actions.** `Ask`, then `ReadDevice` and `ReadConsent` (`GuardrailFacts`), then one of the
routes `Deny`, `Park`, `Dispatch`; the tool looks at both facts again and takes `Refuse` or
`Clear` and `CallIntune`, whose answer says nothing sure of its effect. `Propose` parks an action past the
policy. `ApproveDevice` looks at the facts first (`Blocked`, `Unblocked`), `ApproveOps` of
the shared queue does not and is not closed by the feature flag either; both reach `Claim`,
where the runtime's gates are, and end in `Record`. `FactsRaise` is a look that fails.
`Restart` drops what is in flight, takes any flags, and puts executing rows back.
The policy is the predicates `Denies` and `Autonomous`; its third answer is the rest.

**Run.** `device_actions`: one action of any risk and text, one lead, five
settings of the flags (autonomy for low risk, for medium too, none, feature off, mock
servers), which may change at each restart. `UnattendedIsCleared` and `EffectIsAllowed` speak of the
step at which the action takes effect: the text and the risk were judged when it was asked for,
the facts when the tool looked, the feature when the process started. `RunsOnceUnlessPutBack` says that an
asker's own run and the queue never both have the action. A claim and a decision are
single steps here; two leads on one row, and several workers, are `ApprovalQueue`. One action is
enough because actions meet in nothing; a request sent twice is two actions, which only
Intune's idempotency key joins. The run also checks the refinement `ActsAtMostOnce` of
`AtMostOnce`. There is no fairness.

**Proved** under `ActionsAssumption`, for any actions, leads and flags: `DevicesTypeCorrect`,
`RepeatNeedsRestart`, `UnattendedWasCleared`, `EffectWasAllowed`,
`DevicesImplementAtMostOnce`. The invariant has two halves. `RightsInv` says who may run an
action: while its asker's request is under way it has no row, so no lead can take it up; a lead
between claim and record is alone with the row; and without a restart that put the row
back the action has run at most once, and not before one of these entered the tool.
`LookedInv` says what a job in the tool may rely on: an asker's job was cleared by the policy,
and what the tool itself has read of the device and the consent is still true unless the job
is marked stale. The steps at which the device, the consent or the flags change
set exactly that mark or end the job, which is why the second look of the tool is enough by every
route and the first look is not needed for safety.

## 13. One promise for three claims

Three parts of the system let several processes compete for a piece of work that must not be
done twice: leads for an approval, an asker and the leads for a device action, replicas
for a month's report. They do it with different means (a row lock with a second commit, a row that
exists only once the asker has let go, a locked and committed claim), and all three
have a way in which the protection ends. `AtMostOnce` states the common promise: the right to
a work is *free*, *taken* by one holder, *spent* by doing the work, or *lost*; a free right is
taken by one, only its holder uses it, a spent right is never free again, and only a lost
one lets the work be done again.

| Module | taken by | spent | lost |
| --- | --- | --- | --- |
| `ApprovalQueue` | the request between the commit of its claim and its tool | the tool ran, or the row was decided | the reset at start put an executing row back |
| `DeviceActions` | the job in the tool | the asker's job or the lead's is done with it | the restart put the row back |
| `ScheduledReport` | the replica between its claim and its send | the report was mailed, or the row stays "sending" | a send raised after the mail was taken |

The three refinements (`RunsAtMostOnce`, `ActsAtMostOnce`, `MailsAtMostOnce`) say more than the
counts that the invariants bound: also between two effects, and when nothing took effect, the
right goes from one holder to the next only by way of a commit that frees it. A mutant
of each (a dropped lock; a job that acts and also parks its action) breaks it.

## 14. What was found

All findings are listed with their lines, and the texts they disagree with, in
`PROJECT.json`. Shown by a run of its own:

- A draft says "I'm creating your support ticket" and none is created
  (`PromisedTicketExists` in `diagnostic_promise`).

Shown as the exceptions that a property needs, each of which TLC reaches:

- On the schema created from the ORM, one stale remote session makes every later sweep
  roll back, and no other session's consent request lapses any more (`PendingIsResolved`).
- A message or a poll that loaded a chat before it ended makes it live again
  (`EndedRewrittenOnlyByStaleReader`); a close over a reopening leaves a ticket without its time of
  resolution (`ResolutionStands`).
- A launch that overlaps a revocation commits "connecting" over it
  (`RevivedOnlyByOverlap`); a late consent POST expires a running session and leaves it open
  at the provider (`HungUpWhenFinished`); the second of two overlapping consents lets a launched
  session be launched again, and the first provider session is lost sight of
  (`SecondLaunchNeedsOverlap`).
- Two overlapping clicks, an envelope lost before the durable row has the ticket, and two workers
  with the default store each file a second ticket (`SecondTicketHasACause`); a new topic leaves
  the wait for a ticket that it drops (`CopiesFollowTickets`).
- The reset at start takes rows that another worker is executing (`RepeatIsMarked`); a rejection
  writes over an approval in progress (`DecidedOnce`).
- An update that loaded an approved article rewrites the published one, and the index keeps
  the text of a copy (`DriftNeedsOverlap`).
- A ticket made after a change of topic is forgotten at the next question
  (`TicketFollowsTopic`); a complaint about another system counts as feedback on steps
  that were never given for it (`StepsAreAgreed`).
- A send that raises after the mail was taken is repeated (`MailedOnce`).
- A device action takes effect although the device or the consent changed after the tool
  looked (`EffectIsAllowed`).

Met while modelling: a published article can be neither archived nor revised, as both take
again the snapshot that its publication took (section 10); a device action whose tool refused it or timed out is answered as
executed, and outside the mock servers the consent of a device's owner cannot be found by
the principal name that Intune gives; a release takes a ticket from an assignee it never saw; the live-chat
bridge passes a wrong foreign key; a ticket escalated while nobody is available never gets
an offer; a re-offer of a broadened offer is not listed; a handoff pass can lose what it
did; a click before any turn is refused by a foreign key; change management stores
enum names that its migration does not declare, and loads relationships lazily under an
asynchronous session.

## 15. What is proved, checked, left out

Every safety property of the passing runs is proved for all sizes, the five refinements of
abstract specifications among them, and so are the type invariants of all nine
modules, which is why the runs do not list them again. Each proof has the same
shape: an invariant (`IInv`) that says what each program counter knows of the copy it loaded,
one lemma per action or group of actions, and the property from the invariant, as a consequence
or as what one step may do. A refinement takes each step of the detailed module to a step of the
abstract one or to none. The proofs assume only what the modules' `ASSUME`s say of
the constants.

Model-checked only: the liveness properties (`AbandonedChatEnds`, `RequestsFinish`,
`PendingIsResolved`, `OffersEnd`, `ClaimIsNotStranded`), since the prover handles neither fairness nor
`ENABLED`; the refuted promise of `diagnostic_promise`; and the mutations, each of which a
run refutes. No module declares a recursive operator.

Not modelled, and why:

- *Change management:* against a migrated database it refuses every insert; a model would
  describe what the code means and not what it does.
- *Background tasks:* off by default, and their handlers change nothing. *Review of knowledge
  candidates:* called by no route.
- *Sessions, tokens, permissions, rate limiting:* the boundary of the models.
- *Entries of the device catalog, MCP transport, retrieval, ranking, confidence, templates, seeded
  articles, playbooks, e-mails, reports and exports:* tables, text and scores without
  state; their outcomes are choices where a module depends on them.
- *Fluid chat and the primary mode of the supervisor:* off by default; with them the graph
  of `DiagnosticWorkflow` is another one. This is the extension that would add most.
- *Ingestion, assets, relationships, categories, administration:* plain records with no
  protocol between requests. *Audit and action ledger:* append-only.
- *The earlier `remote_support_service.py`:* imported by no route.
- *The frontend:* requests in any order.

Further work that the present modules are ready for: an abstract specification of what an
employee's consent allows for `RemoteSupport`; a composition of `ChatEscalation` with `HandoffOffers` in which a crash separates the ticket
from its offer.

## 16. Running it

    tlc -workers 2 -config LiveChat.cfg MCLiveChat.tla
    tlapm LiveChat_proofs.tla

The largest runs are `remote_support` (1.6 million distinct states), `chat_escalation` (1.0
million), `device_actions` (0.6 million) and `live_chat` (0.5 million); none takes more than about
three minutes. A
`CHECK_DEADLOCK FALSE` stands where the system may really come to rest: every chat ended
and the bounded messages spent, every article deleted, every request served.
