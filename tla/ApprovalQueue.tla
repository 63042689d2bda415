---------------------------- MODULE ApprovalQueue ----------------------------
(***************************************************************************)
(* The human-approval queue: a write action that an agent proposed waits   *)
(* for a lead, who approves it, which runs its tool, or rejects it         *)
(* (services/agents/approvals.py, repositories/pending_approval_repository *)
(* .py, device_actions/service.py approve, main.py lifespan).              *)
(*                                                                         *)
(* An approval claims the row under FOR UPDATE, runs the tool with no      *)
(* transaction open, and records the outcome in another transaction.  A    *)
(* rejection reads the row without a lock.  A worker that starts puts      *)
(* every claimed row back, whoever holds the claim.                        *)
(***************************************************************************)
EXTENDS Naturals

CONSTANTS
    Approvals,  \* the rows of pending_approval_records
    Requests,   \* requests of leads that may be in flight together
    Workers,    \* processes that serve the API (uvicorn --workers)
    None        \* no row, nobody

ASSUME QueueAssumption == None \notin Approvals \cup Requests

VARIABLES
    row,  \* row[a]: status, decided_by and whether recovered_at is set
    req,  \* req[r]: the request, its worker and what it has read
    up,   \* the workers that run
    ran   \* ran[a]: the times the action took effect: 0, 1, or 2 for more

vars == <<row, req, up, ran>>

Terminal == {"approved", "rejected", "failed", "invalid"}
Statuses == Terminal \cup {"pending", "executing"}

Row == [status : Statuses \cup {"absent"}, by : Requests \cup {None}, recovered : BOOLEAN]

\* seen is the status that the last phase of an approval loaded.
Req == [pc : {"idle", "claim", "execute", "load", "persist", "reject"}, row : Approvals \cup {None},
        worker : Workers \cup {None}, outcome : {"approved", "failed"}, seen : Statuses]
NoReq == [pc |-> "idle", row |-> None, worker |-> None, outcome |-> "failed", seen |-> "pending"]

TypeOK ==
    /\ row \in [Approvals -> Row]
    /\ req \in [Requests -> Req]
    /\ up \subseteq Workers
    /\ ran \in [Approvals -> 0..2]

Init ==
    /\ row = [a \in Approvals |-> [status |-> "absent", by |-> None, recovered |-> FALSE]]
    /\ req = [r \in Requests |-> NoReq]
    /\ up = Workers
    /\ ran = [a \in Approvals |-> 0]

-----------------------------------------------------------------------------
(* Proposals and approvals                                                  *)

\* Unknown tools and bad arguments are kept as "invalid".
Propose(a) ==
    /\ row[a].status = "absent"
    /\ \E s \in {"pending", "invalid"} : row' = [row EXCEPT ![a].status = s]
    /\ UNCHANGED <<req, up, ran>>

Goto(r, pc) == req' = [req EXCEPT ![r].pc = pc]
Finished(r) == req' = [req EXCEPT ![r] = NoReq]

\* The row lock of phase 1, kept until its commit.
Locked(a) == \E r \in Requests : req[r].pc = "claim" /\ req[r].row = a

Begin(r, a, w, pc) ==
    /\ req[r].pc = "idle" /\ w \in up
    /\ req' = [req EXCEPT ![r] = [@ EXCEPT !.pc = pc, !.row = a, !.worker = w]]

\* Mutant: the claim does not take the row lock.
ClaimLoadUnlocked(r, a, w) ==
    /\ row[a].status = "pending"
    /\ Begin(r, a, w, "claim")
    /\ UNCHANGED <<row, up, ran>>

\* Phase 1 on a row that is not pending returns it as it is: nothing changes.
ClaimLoad(r, a, w) ==
    /\ row[a].status = "pending" /\ ~Locked(a)
    /\ Begin(r, a, w, "claim")
    /\ UNCHANGED <<row, up, ran>>

ClaimCommit(r) ==
    /\ req[r].pc = "claim"
    /\ row' = [row EXCEPT ![req[r].row].status = "executing"]
    /\ Goto(r, "execute")
    /\ UNCHANGED <<up, ran>>

Outcome(executed) == IF executed THEN "approved" ELSE "failed"

\* Phase 2.  What the tool reports does not say whether it took effect: a
\* remote call may fail or time out after the work is done, and a device tool
\* that denies the action or catches an error has, to the runtime, executed.
Execute(r) ==
    /\ req[r].pc = "execute"
    /\ \E effect, executed \in BOOLEAN :
          /\ ran' = IF effect /\ ran[req[r].row] < 2
                    THEN [ran EXCEPT ![req[r].row] = @ + 1] ELSE ran
          /\ req' = [req EXCEPT ![r] = [@ EXCEPT !.pc = "load", !.outcome = Outcome(executed)]]
    /\ UNCHANGED <<row, up>>

\* Phase 3, a transaction of its own: no lock, and no look at the status.
PersistLoad(r) ==
    /\ req[r].pc = "load"
    /\ req' = [req EXCEPT ![r] = [@ EXCEPT !.pc = "persist", !.seen = row[req[r].row].status]]
    /\ UNCHANGED <<row, up, ran>>

\* The UPDATE has the columns that differ from what was loaded.
PersistCommit(r) ==
    LET a == req[r].row
        o == req[r].outcome
    IN  /\ req[r].pc = "persist" /\ ~Locked(a)
        /\ row' = [row EXCEPT ![a] =
                     [@ EXCEPT !.status = IF req[r].seen = o THEN row[a].status ELSE o, !.by = r]]
        /\ Finished(r)
        /\ UNCHANGED <<up, ran>>

-----------------------------------------------------------------------------
(* Rejections, failures, restarts                                           *)

\* Mutant: reject writes whatever the status is.
RejectLoadUnchecked(r, a, w) ==
    /\ row[a].status # "absent"
    /\ Begin(r, a, w, "reject")
    /\ UNCHANGED <<row, up, ran>>

\* The reject routes, and the device route whose consent or eligibility check fails.
RejectLoad(r, a, w) ==
    /\ row[a].status = "pending"
    /\ Begin(r, a, w, "reject")
    /\ UNCHANGED <<row, up, ran>>

RejectCommit(r) ==
    LET a == req[r].row
    IN  /\ req[r].pc = "reject" /\ ~Locked(a)
        /\ row' = [row EXCEPT ![a] = [@ EXCEPT !.status = "rejected", !.by = r]]
        /\ Finished(r)
        /\ UNCHANGED <<up, ran>>

\* A request fails at any point, a lost database connection for one.
Dies(r) == req[r].pc # "idle" /\ Finished(r) /\ UNCHANGED <<row, up, ran>>

Crash(w) ==
    /\ w \in up
    /\ up' = up \ {w}
    /\ req' = [r \in Requests |-> IF req[r].worker = w THEN NoReq ELSE req[r]]
    /\ UNCHANGED <<row, ran>>

PutBack(x) ==
    IF x.status = "executing" THEN [x EXCEPT !.status = "pending", !.recovered = TRUE] ELSE x

\* Mutant: a row is put back once only.
StartOnce(w) ==
    /\ w \notin up
    /\ up' = up \cup {w}
    /\ row' = [a \in Approvals |-> IF row[a].recovered THEN row[a] ELSE PutBack(row[a])]
    /\ UNCHANGED <<req, ran>>

\* reconcile_on_startup, before the worker serves requests.
Start(w) ==
    /\ w \notin up
    /\ up' = up \cup {w}
    /\ row' = [a \in Approvals |-> PutBack(row[a])]
    /\ UNCHANGED <<req, ran>>

Next ==
    \/ \E a \in Approvals : Propose(a)
    \/ \E r \in Requests :
          \/ \E a \in Approvals, w \in Workers : ClaimLoad(r, a, w) \/ RejectLoad(r, a, w)
          \/ ClaimCommit(r) \/ Execute(r) \/ PersistLoad(r) \/ PersistCommit(r)
          \/ RejectCommit(r) \/ Dies(r)
    \/ \E w \in Workers : Crash(w) \/ Start(w)

Spec == Init /\ [][Next]_vars

\* The supervisor starts a worker again when it dies; requests promise nothing.
FairSpec == Spec /\ \A w \in Workers : WF_vars(Start(w))

-----------------------------------------------------------------------------
(* Properties                                                               *)

\* An action takes effect a second time only if its row carries the mark that
\* tells approvers it was put back after a claim (approve and its row lock).
RepeatIsMarked == \A a \in Approvals : ran[a] = 2 => row[a].recovered

\* A decided row is never opened again, an invalid one never decided, and
\* unless a restart had put the row back its decision is written over only
\* where a rejection met an approval: two approvals never both decide
\* (approve's claim; reject, which does not take the lock).
DecidedOnce ==
    [][\A a \in Approvals :
          row[a].status \in Terminal /\ row'[a] # row[a] =>
             /\ row[a].status # "invalid" /\ row'[a].status \in Terminal
             /\ \/ row[a].recovered
                \/ "rejected" \in {row[a].status, row'[a].status}]_vars

\* A row that is claimed while a worker is down is put back or decided, even
\* if nobody holds the claim any more (reconcile_on_startup).
ClaimIsNotStranded ==
    \A a \in Approvals, w \in Workers :
       row[a].status = "executing" /\ w \notin up ~> row[a].status # "executing"

\* The requests whose tool is about to run.
Executing(a) == {r \in Requests : req[r].pc = "execute" /\ req[r].row = a}

\* Pending is the right to run the tool, until a restart puts a claim back.
Right(a) ==
    CASE row[a].recovered -> "lost"
      [] ~row[a].recovered /\ Executing(a) # {} -> "taken"
      [] ~row[a].recovered /\ Executing(a) = {} ->
            IF row[a].status \in {"absent", "pending"} THEN "free" ELSE "spent"

By(a) == IF row[a].recovered THEN {} ELSE Executing(a)

Once == INSTANCE AtMostOnce WITH
    Works <- Approvals, Holders <- Requests,
    right <- [a \in Approvals |-> Right(a)],
    by <- [a \in Approvals |-> By(a)],
    done <- ran

\* The queue keeps the promise of AtMostOnce: the claim of a pending row is
\* the only right to run its tool, a decision, a failure or a restart of the
\* claimant ends it, and only putting the row back gives it away a second time
\* (approve's three phases, reject, reconcile_on_startup).
RunsAtMostOnce == Once!Spec
=============================================================================
