------------------------ MODULE ApprovalQueue_proofs -------------------------
(***************************************************************************)
(* Safety of ApprovalQueue for any number of approvals, leads and workers: *)
(* an action takes effect twice only on a row marked as recovered, and a   *)
(* decided row is not opened again.                                        *)
(*                                                                         *)
(* The invariant says what the row lock and the claim give an approval     *)
(* until a restart puts its row back: it is alone with the row, which is   *)
(* executing or was rejected meanwhile, and its tool has not run before.   *)
(***************************************************************************)
EXTENDS ApprovalQueue, TLAPS

Working(r, a) == req[r].row = a /\ req[r].pc \in {"execute", "load", "persist"}

RequestsOK ==
    \A r \in Requests : req[r].pc # "idle" =>
       req[r].row \in Approvals /\ row[req[r].row].status \notin {"absent", "invalid"}

\* A claim's lock: the row is pending until the claim commits, and nobody else has it.
ClaimsOK ==
    \A r \in Requests : req[r].pc = "claim" =>
       /\ row[req[r].row].status = "pending"
       /\ \A s \in Requests : req[s].pc = "claim" /\ req[s].row = req[r].row => s = r

\* A row that no restart has put back.
RowOK(a) ==
    ~row[a].recovered =>
       /\ ran[a] < 2
       /\ row[a].status = "pending" => ran[a] = 0
       /\ row[a].status = "absent" => ran[a] = 0
       /\ \A r \in Requests : Working(r, a) =>
             /\ row[a].status \in {"executing", "rejected"}
             /\ req[r].pc = "execute" => ran[a] = 0
             /\ \A s \in Requests : Working(s, a) => s = r

RowsOK == \A a \in Approvals : RowOK(a)

IInv == TypeOK /\ RequestsOK /\ ClaimsOK /\ RowsOK

-----------------------------------------------------------------------------
LEMMA InitIInv == Init => IInv
<1> SUFFICES ASSUME Init PROVE IInv
    OBVIOUS
<1>1. TypeOK
      BY DEF Init, TypeOK, Row, Req, NoReq, Statuses, Terminal
<1>2. \A r \in Requests : req[r].pc = "idle"
      BY DEF Init, NoReq
<1>3. RequestsOK /\ ClaimsOK
      BY <1>2 DEF RequestsOK, ClaimsOK
<1>4. RowsOK
      BY <1>2 DEF Init, RowsOK, RowOK, Working
<1> QED
    BY <1>1, <1>3, <1>4 DEF IInv

\* A proposal touches a row that no request has.
LEMMA ProposeStep ==
    ASSUME IInv, NEW a \in Approvals, Propose(a)
    PROVE  IInv'
<1> USE DEF IInv
<1>0. PICK s \in {"pending", "invalid"} : row' = [row EXCEPT ![a].status = s]
      BY DEF Propose
<1>1. TypeOK'
      BY <1>0 DEF Propose, TypeOK, Row, Statuses, Terminal
<1>2. RequestsOK'
      BY <1>0 DEF Propose, RequestsOK, TypeOK
<1>3. \A r \in Requests : req[r].pc = "claim" => req[r].row # a
      BY DEF Propose, ClaimsOK
<1>4. ClaimsOK'
      BY <1>0, <1>3 DEF Propose, ClaimsOK, RequestsOK, TypeOK
<1>5. \A b \in Approvals : RowOK(b)'
      BY <1>0 DEF Propose, RowsOK, RowOK, Working, TypeOK, Row
<1> QED
    BY <1>1, <1>2, <1>4, <1>5 DEF RowsOK

\* A load leaves the rows alone; only a claim's lock is new.
LEMMA ClaimLoadStep ==
    ASSUME IInv, NEW r \in Requests, NEW a \in Approvals, NEW w \in Workers, ClaimLoad(r, a, w)
    PROVE  IInv'
<1> USE DEF IInv
<1>0. req' = [req EXCEPT ![r] = [@ EXCEPT !.pc = "claim", !.row = a, !.worker = w]]
      BY DEF ClaimLoad, Begin
<1>1. TypeOK'
      BY <1>0 DEF ClaimLoad, TypeOK, Req
<1>2. /\ req'[r].pc = "claim" /\ req'[r].row = a
      /\ \A s \in Requests : s # r => req'[s] = req[s]
      BY <1>0 DEF TypeOK, Req
<1>3. RequestsOK'
      BY <1>2 DEF ClaimLoad, RequestsOK
<1>4. ClaimsOK'
      BY <1>2 DEF ClaimLoad, ClaimsOK, Locked
<1>5. \A b \in Approvals : RowOK(b)'
      BY <1>2 DEF ClaimLoad, RowsOK, RowOK, Working
<1> QED
    BY <1>1, <1>3, <1>4, <1>5 DEF RowsOK

LEMMA RejectLoadStep ==
    ASSUME IInv, NEW r \in Requests, NEW a \in Approvals, NEW w \in Workers, RejectLoad(r, a, w)
    PROVE  IInv'
<1> USE DEF IInv
<1>0. req' = [req EXCEPT ![r] = [@ EXCEPT !.pc = "reject", !.row = a, !.worker = w]]
      BY DEF RejectLoad, Begin
<1>1. TypeOK'
      BY <1>0 DEF RejectLoad, TypeOK, Req
<1>2. /\ req'[r].pc = "reject" /\ req'[r].row = a
      /\ \A s \in Requests : s # r => req'[s] = req[s]
      BY <1>0 DEF TypeOK, Req
<1>3. RequestsOK' /\ ClaimsOK'
      BY <1>2 DEF RejectLoad, RequestsOK, ClaimsOK
<1>4. \A b \in Approvals : RowOK(b)'
      BY <1>2 DEF RejectLoad, RowsOK, RowOK, Working
<1> QED
    BY <1>1, <1>3, <1>4 DEF RowsOK

\* The claim becomes the only work on a row whose tool has not run.
LEMMA ClaimCommitStep ==
    ASSUME IInv, NEW r \in Requests, ClaimCommit(r)
    PROVE  IInv'
<1> USE DEF IInv
<1> DEFINE a == req[r].row
<1>0. a \in Approvals /\ row[a].status = "pending"
      BY DEF ClaimCommit, RequestsOK, ClaimsOK
<1>1. TypeOK'
  <2>1. row' \in [Approvals -> Row]
        BY <1>0 DEF ClaimCommit, TypeOK, Row, Statuses
  <2>2. req' \in [Requests -> Req]
        BY DEF ClaimCommit, Goto, TypeOK, Req
  <2> QED
      BY <2>1, <2>2 DEF ClaimCommit, TypeOK
<1>2. /\ req'[r].pc = "execute" /\ req'[r].row = a
      /\ \A s \in Requests : s # r => req'[s] = req[s]
      BY DEF ClaimCommit, Goto, TypeOK, Req
<1>3. /\ row'[a].status = "executing" /\ row'[a].recovered = row[a].recovered
      /\ \A b \in Approvals : b # a => row'[b] = row[b]
      BY <1>0 DEF ClaimCommit, TypeOK, Row
<1>4. RequestsOK'
      BY <1>0, <1>2, <1>3 DEF RequestsOK
<1>5. ClaimsOK'
      BY <1>2, <1>3 DEF ClaimCommit, ClaimsOK, RequestsOK
<1>6. \A b \in Approvals : RowOK(b)'
      BY <1>0, <1>2, <1>3 DEF ClaimCommit, RowsOK, RowOK, Working
<1> QED
    BY <1>1, <1>4, <1>5, <1>6 DEF RowsOK

\* The tool of a row that no restart put back runs for the first time.
LEMMA ExecuteStep ==
    ASSUME IInv, NEW r \in Requests, Execute(r)
    PROVE  IInv'
<1> USE DEF IInv
<1> DEFINE a == req[r].row
<1>0. a \in Approvals
      BY DEF Execute, RequestsOK
<1>1. PICK effect \in BOOLEAN, executed \in BOOLEAN :
         /\ ran' = IF effect /\ ran[a] < 2 THEN [ran EXCEPT ![a] = @ + 1] ELSE ran
         /\ req' = [req EXCEPT ![r] = [@ EXCEPT !.pc = "load", !.outcome = Outcome(executed)]]
      BY DEF Execute
<1>2. TypeOK'
  <2>1. ran' \in [Approvals -> 0..2]
        BY <1>0, <1>1 DEF TypeOK
  <2>2. Outcome(executed) \in {"approved", "failed"}
        BY DEF Outcome
  <2>3. req' \in [Requests -> Req]
        BY <1>1, <2>2 DEF TypeOK, Req
  <2> QED
      BY <2>1, <2>3 DEF Execute, TypeOK
<1>3. /\ req'[r].pc = "load" /\ req'[r].row = a
      /\ \A s \in Requests : s # r => req'[s] = req[s]
      BY <1>1 DEF TypeOK, Req
<1>4. RequestsOK' /\ ClaimsOK'
      BY <1>0, <1>3 DEF Execute, RequestsOK, ClaimsOK
<1>5. ASSUME NEW b \in Approvals, b # a PROVE RowOK(b)'
  <2>1. ran'[b] = ran[b]
        BY <1>1, <1>5 DEF TypeOK
  <2> QED
      BY <1>3, <1>5, <2>1 DEF Execute, RowsOK, RowOK, Working
<1>6. ASSUME NEW b \in Approvals, b = a PROVE RowOK(b)'
  <2>1. Working(r, b)
        BY <1>6 DEF Execute, Working
  <2>2. ~row[b].recovered => ran[b] = 0 /\ ran'[b] < 2
        BY <1>1, <1>6, <2>1 DEF Execute, RowsOK, RowOK, TypeOK
  <2> QED
      BY <1>3, <1>6, <2>1, <2>2 DEF Execute, RowsOK, RowOK, Working
<1> QED
    BY <1>2, <1>4, <1>5, <1>6 DEF RowsOK

LEMMA PersistLoadStep ==
    ASSUME IInv, NEW r \in Requests, PersistLoad(r)
    PROVE  IInv'
<1> USE DEF IInv
<1> DEFINE a == req[r].row
<1>0. a \in Approvals /\ row[a].status \in Statuses
      BY DEF PersistLoad, RequestsOK, TypeOK, Row
<1>1. TypeOK'
      BY <1>0 DEF PersistLoad, TypeOK, Req
<1>2. /\ req'[r].pc = "persist" /\ req'[r].row = a
      /\ \A s \in Requests : s # r => req'[s] = req[s]
      BY DEF PersistLoad, TypeOK, Req
<1>3. RequestsOK' /\ ClaimsOK'
      BY <1>0, <1>2 DEF PersistLoad, RequestsOK, ClaimsOK
<1>4. \A b \in Approvals : RowOK(b)'
      BY <1>2 DEF PersistLoad, RowsOK, RowOK, Working
<1> QED
    BY <1>1, <1>3, <1>4 DEF RowsOK

\* Recording a decision ends the request that makes it.
LEMMA DecisionStep ==
    ASSUME IInv, NEW r \in Requests, NEW a \in Approvals, NEW s \in Statuses,
           req[r].pc \in {"persist", "reject"}, req[r].row = a, ~Locked(a),
           s \in {"approved", "failed", "rejected", row[a].status, req[r].outcome},
           req[r].pc = "reject" => s = "rejected",
           row' = [row EXCEPT ![a] = [@ EXCEPT !.status = s, !.by = r]],
           Finished(r), UNCHANGED <<up, ran>>
    PROVE  IInv'
<1> USE DEF IInv
<1>1. /\ req'[r] = NoReq
      /\ \A q \in Requests : q # r => req'[q] = req[q]
      BY DEF Finished, TypeOK
<1>2. /\ row'[a].status = s /\ row'[a].recovered = row[a].recovered
      /\ \A b \in Approvals : b # a => row'[b] = row[b]
      BY DEF TypeOK, Row
<1>3. TypeOK'
  <2>1. NoReq \in Req
        BY DEF NoReq, Req, Statuses
  <2> QED
      BY <2>1 DEF Finished, TypeOK, Row
<1>4. RequestsOK'
  <2>1. s \notin {"absent", "invalid"}
        BY DEF RequestsOK, TypeOK, Req
  <2> QED
      BY <1>1, <1>2, <2>1 DEF RequestsOK, NoReq
<1>5. ClaimsOK'
      BY <1>1, <1>2 DEF ClaimsOK, RequestsOK, NoReq, Locked
<1>6. \A b \in Approvals, q \in Requests : Working(q, b)' => Working(q, b) /\ q # r
      BY <1>1 DEF Working, NoReq
<1>7. ASSUME NEW b \in Approvals, b # a PROVE RowOK(b)'
      BY <1>1, <1>2, <1>6, <1>7 DEF RowsOK, RowOK, Working
<1>8. ASSUME ~row[a].recovered
      PROVE  /\ s # "pending" /\ s # "absent" /\ ran[a] < 2
             /\ \A q \in Requests : q # r /\ Working(q, a) => s = "rejected"
  <2>1. CASE req[r].pc = "reject"
        BY <1>8, <2>1 DEF RowsOK, RowOK
  <2>2. CASE req[r].pc = "persist"
    <3>1. Working(r, a)
          BY <2>2 DEF Working
    <3>2. req[r].outcome \in {"approved", "failed"}
          BY DEF TypeOK, Req
    <3> QED
        BY <1>8, <3>1, <3>2 DEF RowsOK, RowOK, Terminal
  <2> QED
      BY <2>1, <2>2
<1>9. RowOK(a)'
      BY <1>1, <1>2, <1>6, <1>8 DEF RowsOK, RowOK, Working
<1> QED
    BY <1>3, <1>4, <1>5, <1>7, <1>9 DEF RowsOK

LEMMA PersistCommitStep ==
    ASSUME IInv, NEW r \in Requests, PersistCommit(r)
    PROVE  IInv'
<1>1. PICK a \in Approvals : a = req[r].row
      BY DEF PersistCommit, IInv, RequestsOK
<1>2. PICK s \in Statuses : s = IF req[r].seen = req[r].outcome THEN row[a].status ELSE req[r].outcome
  <2>1. row[a].status \in Statuses
        BY <1>1 DEF PersistCommit, IInv, TypeOK, Row, RequestsOK
  <2>2. req[r].outcome \in Statuses
        BY DEF IInv, TypeOK, Req, Statuses, Terminal
  <2> QED
      BY <2>1, <2>2
<1> QED
    BY <1>1, <1>2, DecisionStep DEF PersistCommit

LEMMA RejectCommitStep ==
    ASSUME IInv, NEW r \in Requests, RejectCommit(r)
    PROVE  IInv'
<1>1. PICK a \in Approvals : a = req[r].row
      BY DEF RejectCommit, IInv, RequestsOK
<1>2. "rejected" \in Statuses
      BY DEF Statuses, Terminal
<1> QED
    BY <1>1, <1>2, DecisionStep DEF RejectCommit

\* Requests that go away only release what they held.
LEMMA LossStep ==
    ASSUME IInv, UNCHANGED <<row, ran>>, up' \subseteq Workers,
           \A q \in Requests : req'[q] = req[q] \/ req'[q] = NoReq,
           req' \in [Requests -> Req]
    PROVE  IInv'
<1> USE DEF IInv
<1>1. TypeOK'
      BY DEF TypeOK
<1>2. RequestsOK' /\ ClaimsOK'
      BY DEF RequestsOK, ClaimsOK, NoReq
<1>3. \A b \in Approvals, q \in Requests : Working(q, b)' => Working(q, b) /\ req'[q] = req[q]
      BY DEF Working, NoReq
<1>4. \A b \in Approvals : RowOK(b)'
      BY <1>3 DEF RowsOK, RowOK
<1> QED
    BY <1>1, <1>2, <1>4 DEF RowsOK

LEMMA NoReqType == NoReq \in Req
    BY DEF NoReq, Req, Statuses

LEMMA DiesStep ==
    ASSUME IInv, NEW r \in Requests, Dies(r)
    PROVE  IInv'
<1>1. req' \in [Requests -> Req] /\ \A q \in Requests : req'[q] = req[q] \/ req'[q] = NoReq
      BY NoReqType DEF Dies, Finished, IInv, TypeOK
<1> QED
    BY <1>1, LossStep DEF Dies, IInv, TypeOK

LEMMA CrashStep ==
    ASSUME IInv, NEW w \in Workers, Crash(w)
    PROVE  IInv'
<1>1. req' \in [Requests -> Req] /\ \A q \in Requests : req'[q] = req[q] \/ req'[q] = NoReq
      BY NoReqType DEF Crash, IInv, TypeOK
<1> QED
    BY <1>1, LossStep DEF Crash, IInv, TypeOK

\* A row that is put back is marked, and only claimed rows are put back.
LEMMA StartStep ==
    ASSUME IInv, NEW w \in Workers, Start(w)
    PROVE  IInv'
<1> USE DEF IInv
<1>1. \A a \in Approvals :
         /\ row'[a] \in Row
         /\ row[a].status # "executing" => row'[a] = row[a]
         /\ row[a].status = "executing" => row'[a].status = "pending" /\ row'[a].recovered
      BY DEF Start, PutBack, TypeOK, Row, Statuses
<1>2. TypeOK'
      BY <1>1 DEF Start, TypeOK
<1>3. RequestsOK'
      BY <1>1 DEF Start, RequestsOK
<1>4. ClaimsOK'
      BY <1>1 DEF Start, ClaimsOK, RequestsOK
<1>5. \A b \in Approvals : RowOK(b)'
      BY <1>1 DEF Start, RowsOK, RowOK, Working
<1> QED
    BY <1>2, <1>3, <1>4, <1>5 DEF RowsOK

LEMMA StutterStep == IInv /\ UNCHANGED vars => IInv'
    BY DEF vars, IInv, TypeOK, RequestsOK, ClaimsOK, RowsOK, RowOK, Working

LEMMA NextIInv == IInv /\ [Next]_vars => IInv'
<1> SUFFICES ASSUME IInv, [Next]_vars PROVE IInv'
    OBVIOUS
<1>1. CASE \E a \in Approvals : Propose(a)
      BY <1>1, ProposeStep
<1>2. CASE \E r \in Requests, a \in Approvals, w \in Workers : ClaimLoad(r, a, w) \/ RejectLoad(r, a, w)
      BY <1>2, ClaimLoadStep, RejectLoadStep
<1>3. CASE \E r \in Requests : ClaimCommit(r) \/ Execute(r) \/ PersistLoad(r) \/ PersistCommit(r)
      BY <1>3, ClaimCommitStep, ExecuteStep, PersistLoadStep, PersistCommitStep
<1>4. CASE \E r \in Requests : RejectCommit(r) \/ Dies(r)
      BY <1>4, RejectCommitStep, DiesStep
<1>5. CASE \E w \in Workers : Crash(w) \/ Start(w)
      BY <1>5, CrashStep, StartStep
<1>6. CASE UNCHANGED vars
      BY <1>6, StutterStep
<1> QED
    BY <1>1, <1>2, <1>3, <1>4, <1>5, <1>6 DEF Next

\* The invariant holds throughout.
THEOREM InductiveInvariant == Spec => []IInv
    BY InitIInv, NextIInv, PTL DEF Spec

\* The columns and the requests stay within their types.
THEOREM TypeCorrect == Spec => []TypeOK
<1>1. IInv => TypeOK
      BY DEF IInv
<1> QED
    BY <1>1, InductiveInvariant, PTL

\* However many leads approve, reject and retry, and whatever fails, an action
\* takes effect twice only on a row that reconcile_on_startup has marked.
THEOREM RepeatNeedsRecovery == Spec => []RepeatIsMarked
<1>1. IInv => RepeatIsMarked
      BY DEF IInv, RowsOK, RowOK, RepeatIsMarked
<1> QED
    BY <1>1, InductiveInvariant, PTL

-----------------------------------------------------------------------------
(* Decisions                                                                *)

DecisionHolds(a) ==
    row[a].status \in Terminal /\ row'[a] # row[a] =>
       /\ row[a].status # "invalid" /\ row'[a].status \in Terminal
       /\ \/ row[a].recovered
          \/ "rejected" \in {row[a].status, row'[a].status}

LEMMA DecisionKept ==
    ASSUME IInv, [Next]_vars, NEW a \in Approvals
    PROVE  DecisionHolds(a)
<1> USE DEF IInv
<1>1. ASSUME NEW b \in Approvals, Propose(b) PROVE DecisionHolds(a)
      BY <1>1 DEF Propose, DecisionHolds, Terminal, TypeOK, Row
<1>2. ASSUME NEW r \in Requests, NEW b \in Approvals, NEW w \in Workers,
             ClaimLoad(r, b, w) \/ RejectLoad(r, b, w)
      PROVE  DecisionHolds(a)
      BY <1>2 DEF ClaimLoad, RejectLoad, DecisionHolds
<1>3. ASSUME NEW r \in Requests, ClaimCommit(r) PROVE DecisionHolds(a)
  <2>1. row[req[r].row].status = "pending"
        BY <1>3 DEF ClaimCommit, ClaimsOK
  <2>2. a # req[r].row => row'[a] = row[a]
        BY <1>3 DEF ClaimCommit, TypeOK
  <2> QED
      BY <2>1, <2>2 DEF DecisionHolds, Terminal
<1>4. ASSUME NEW r \in Requests, Execute(r) \/ PersistLoad(r) PROVE DecisionHolds(a)
      BY <1>4 DEF Execute, PersistLoad, DecisionHolds
<1>5. ASSUME NEW r \in Requests, PersistCommit(r) PROVE DecisionHolds(a)
  <2>1. a # req[r].row => row'[a] = row[a]
        BY <1>5 DEF PersistCommit, TypeOK
  <2>2. a = req[r].row => row'[a].status \in {row[a].status, req[r].outcome}
        BY <1>5 DEF PersistCommit, TypeOK, Row
  <2>3. a = req[r].row /\ ~row[a].recovered => row[a].status \in {"executing", "rejected"}
        BY <1>5 DEF PersistCommit, RowsOK, RowOK, Working
  <2>4. req[r].outcome \in {"approved", "failed"}
        BY DEF TypeOK, Req
  <2>5. a = req[r].row => row[a].status # "invalid"
        BY <1>5 DEF PersistCommit, RequestsOK
  <2> QED
      BY <2>1, <2>2, <2>3, <2>4, <2>5 DEF DecisionHolds, Terminal
<1>6. ASSUME NEW r \in Requests, RejectCommit(r) PROVE DecisionHolds(a)
  <2>1. a = req[r].row => row[a].status # "invalid"
        BY <1>6 DEF RejectCommit, RequestsOK
  <2> QED
      BY <1>6, <2>1 DEF RejectCommit, DecisionHolds, Terminal, TypeOK, Row
<1>7. ASSUME NEW r \in Requests, Dies(r) PROVE DecisionHolds(a)
      BY <1>7 DEF Dies, DecisionHolds
<1>8. ASSUME NEW w \in Workers, Crash(w) PROVE DecisionHolds(a)
      BY <1>8 DEF Crash, DecisionHolds
<1>9. ASSUME NEW w \in Workers, Start(w) PROVE DecisionHolds(a)
      BY <1>9 DEF Start, PutBack, DecisionHolds, Terminal
<1>10. CASE UNCHANGED vars
      BY <1>10 DEF vars, DecisionHolds
<1> QED
    BY <1>1, <1>2, <1>3, <1>4, <1>5, <1>6, <1>7, <1>8, <1>9, <1>10 DEF Next

\* A decided row is never opened again, and until a restart puts a row back
\* only a rejection and another decision may write over each other.
THEOREM DecidedRowsStayDecided == Spec => DecidedOnce
<1>1. IInv /\ [Next]_vars => \A a \in Approvals : DecisionHolds(a)
      BY DecisionKept
<1>2. IInv /\ [Next]_vars =>
         [\A a \in Approvals :
             row[a].status \in Terminal /\ row'[a] # row[a] =>
                /\ row[a].status # "invalid" /\ row'[a].status \in Terminal
                /\ \/ row[a].recovered
                   \/ "rejected" \in {row[a].status, row'[a].status}]_vars
      BY <1>1 DEF DecisionHolds
<1> QED
    BY <1>2, InductiveInvariant, PTL DEF Spec, DecidedOnce

-----------------------------------------------------------------------------
(* ApprovalQueue implements AtMostOnce                                      *)

Kept(a) == Right(a)' = Right(a) /\ By(a)' = By(a)
Quiet(a) == Kept(a) \/ (Right(a)' \in Once!After(Right(a)) /\ By(a)' = {})

\* On a row that no restart put back, at most one tool is about to run.
LEMMA OneExecutes ==
    ASSUME IInv, NEW a \in Approvals, ~row[a].recovered, Executing(a) # {}
    PROVE  /\ row[a].status \in {"executing", "rejected"} /\ ran[a] = 0
           /\ \E r \in Requests : Executing(a) = {r}
<1>1. PICK r \in Requests : req[r].pc = "execute" /\ req[r].row = a
      BY DEF Executing
<1>2. /\ row[a].status \in {"executing", "rejected"} /\ ran[a] = 0
      /\ \A s \in Requests : Working(s, a) => s = r
      BY <1>1 DEF IInv, RowsOK, RowOK, Working
<1>3. Executing(a) = {r}
      BY <1>1, <1>2 DEF Executing, Working
<1> QED
    BY <1>2, <1>3

\* What hands out no right and opens no row again interrupts at most.
LEMMA QuietRow ==
    ASSUME IInv, NEW a \in Approvals, Executing(a)' \subseteq Executing(a),
           row[a].recovered => row'[a].recovered,
           ~row'[a].recovered /\ row[a].status \notin {"absent", "pending"} =>
              row'[a].status \notin {"absent", "pending"}
    PROVE  Quiet(a)
<1>1. CASE row'[a].recovered
      BY <1>1 DEF Quiet, Kept, Right, By, Once!After
<1>2. CASE ~row'[a].recovered /\ Executing(a) = {}
      BY <1>2 DEF Quiet, Kept, Right, By, Once!After
<1>3. CASE ~row'[a].recovered /\ Executing(a)' = Executing(a) /\ Executing(a) # {}
      BY <1>3 DEF Quiet, Kept, Right, By
<1>4. CASE ~row'[a].recovered /\ Executing(a)' # Executing(a) /\ Executing(a) # {}
  <2>1. row[a].status \in {"executing", "rejected"} /\ Executing(a)' = {}
        BY <1>4, OneExecutes
  <2> QED
      BY <1>4, <2>1 DEF Quiet, Right, By, Once!After
<1> QED
    BY <1>1, <1>2, <1>3, <1>4

LEMMA QuietStep ==
    ASSUME \A a \in Approvals : Quiet(a), ran' = ran
    PROVE  Once!Next
<1>1. \A a \in Approvals : Right(a)' \in Once!Rights /\ By(a)' \in SUBSET Requests
      BY DEF Right, By, Executing, Once!Rights
<1>2. Once!Interrupt
      BY <1>1 DEF Once!Interrupt, Quiet, Kept
<1> QED
    BY <1>2 DEF Once!Next

\* Requests that go on, or away, short of a tool.
LEMMA NoNewTool ==
    ASSUME \A r \in Requests : req'[r] = req[r] \/ req'[r].pc # "execute"
    PROVE  \A a \in Approvals : Executing(a)' \subseteq Executing(a)
    BY DEF Executing

LEMMA ClaimTakes ==
    ASSUME IInv, NEW r \in Requests, ClaimCommit(r)
    PROVE  Once!Next
<1>0. PICK a \in Approvals : a = req[r].row
      BY DEF IInv, ClaimCommit, RequestsOK
<1>1. row[a].status = "pending"
      BY <1>0 DEF IInv, ClaimCommit, ClaimsOK
<1>2. /\ req'[r].pc = "execute" /\ req'[r].row = a
      /\ \A s \in Requests : s # r => req'[s] = req[s]
      BY <1>0 DEF ClaimCommit, Goto, IInv, TypeOK, Req
<1>3. /\ row'[a].status = "executing" /\ row'[a].recovered = row[a].recovered
      /\ \A b \in Approvals : b # a => row'[b] = row[b]
      BY <1>0 DEF ClaimCommit, IInv, TypeOK, Row
<1>4. \A b \in Approvals : b # a => Executing(b)' = Executing(b)
      BY <1>0, <1>2 DEF Executing, ClaimCommit
<1>5. \A b \in Approvals : b # a => Kept(b)
      BY <1>3, <1>4 DEF Kept, Right, By
<1>6. CASE row[a].recovered
  <2>1. Kept(a)
        BY <1>3, <1>6 DEF Kept, Right, By
  <2> QED
      BY <1>5, <2>1, QuietStep DEF ClaimCommit, Quiet
<1>7. CASE ~row[a].recovered
  <2>1. Executing(a) = {}
        BY <1>1, <1>7, OneExecutes
  <2>2. Executing(a)' = {r}
        BY <1>2, <2>1 DEF Executing
  <2>3. Right(a) = "free" /\ Right(a)' = "taken" /\ By(a)' = {r}
        BY <1>1, <1>3, <1>7, <2>1, <2>2 DEF Right, By
  <2>4. Once!Take(a, r)
        BY <1>1, <1>5, <2>3 DEF Once!Take, Kept, ClaimCommit
  <2> QED
      BY <1>1, <2>4 DEF Once!Next
<1> QED
    BY <1>6, <1>7

LEMMA ExecuteUses ==
    ASSUME IInv, NEW r \in Requests, Execute(r)
    PROVE  Once!Next
<1>0. PICK a \in Approvals : a = req[r].row
      BY DEF Execute, IInv, RequestsOK
<1>1. /\ req'[r].pc = "load"
      /\ \A s \in Requests : s # r => req'[s] = req[s]
      /\ row' = row
      BY DEF Execute, IInv, TypeOK, Req
<1>2. \A b \in Approvals : Executing(b)' \subseteq Executing(b)
      BY <1>1, NoNewTool
<1>3. CASE ran' = ran
  <2>1. \A b \in Approvals : Quiet(b)
        BY <1>1, <1>2, QuietRow
  <2> QED
      BY <1>3, <2>1, QuietStep
<1>4. CASE ran' # ran
  <2>1. ran' = [ran EXCEPT ![a] = @ + 1]
        BY <1>0, <1>4 DEF Execute
  <2>2. \A b \in Approvals : b # a => Executing(b)' = Executing(b)
        BY <1>0, <1>1 DEF Executing
  <2>3. \A b \in Approvals : b # a => Kept(b)
        BY <1>1, <2>2 DEF Kept, Right, By
  <2>4. CASE row[a].recovered
    <3>1. Kept(a) /\ Right(a) = "lost"
          BY <1>1, <2>4 DEF Kept, Right, By
    <3>2. Once!Repeat(a)
          BY <1>0, <2>1, <2>3, <3>1 DEF Once!Repeat, Kept
    <3> QED
        BY <1>0, <3>2 DEF Once!Next
  <2>5. CASE ~row[a].recovered
    <3>1. r \in Executing(a)
          BY <1>0 DEF Execute, Executing
    <3>2. Executing(a) = {r} /\ row[a].status \in {"executing", "rejected"}
          BY <1>0, <2>5, <3>1, OneExecutes
    <3>3. Executing(a)' = {}
          BY <1>0, <1>1, <3>2 DEF Executing
    <3>4. /\ Right(a) = "taken" /\ By(a) = {r}
          /\ Right(a)' = "spent" /\ By(a)' = {}
          BY <1>1, <2>5, <3>2, <3>3 DEF Right, By
    <3>5. Once!Use(a, r)
          BY <1>0, <2>1, <2>3, <3>4 DEF Once!Use, Kept
    <3> QED
        BY <1>0, <3>5 DEF Once!Next
  <2> QED
      BY <2>4, <2>5
<1> QED
    BY <1>3, <1>4

\* Every other step leaves the rights where they are or takes some away.
LEMMA OtherStepsAreQuiet ==
    ASSUME IInv,
           \/ \E a \in Approvals : Propose(a)
           \/ \E r \in Requests :
                 \/ \E a \in Approvals, w \in Workers : ClaimLoad(r, a, w) \/ RejectLoad(r, a, w)
                 \/ PersistLoad(r) \/ PersistCommit(r) \/ RejectCommit(r) \/ Dies(r)
           \/ \E w \in Workers : Crash(w) \/ Start(w)
           \/ UNCHANGED vars
    PROVE  Once!Next
<1> USE DEF IInv
<1>1. ran' = ran
      BY DEF Propose, ClaimLoad, RejectLoad, PersistLoad, PersistCommit, RejectCommit, Dies,
             Crash, Start, vars
<1>2. \A q \in Requests : req'[q] = req[q] \/ req'[q].pc # "execute"
  <2>1. ASSUME NEW r \in Requests, NEW a \in Approvals, NEW w \in Workers,
               ClaimLoad(r, a, w) \/ RejectLoad(r, a, w)
        PROVE  req'[r].pc # "execute" /\ \A q \in Requests : q # r => req'[q] = req[q]
        BY <2>1 DEF ClaimLoad, RejectLoad, Begin, TypeOK, Req
  <2>2. ASSUME NEW r \in Requests, PersistLoad(r)
        PROVE  req'[r].pc # "execute" /\ \A q \in Requests : q # r => req'[q] = req[q]
        BY <2>2 DEF PersistLoad, TypeOK, Req
  <2>3. ASSUME NEW r \in Requests, PersistCommit(r) \/ RejectCommit(r) \/ Dies(r)
        PROVE  req'[r].pc # "execute" /\ \A q \in Requests : q # r => req'[q] = req[q]
    <3>1. Finished(r)
          BY <2>3 DEF PersistCommit, RejectCommit, Dies
    <3> QED
        BY <3>1 DEF Finished, NoReq, TypeOK
  <2> QED
      BY <2>1, <2>2, <2>3 DEF Propose, Crash, Start, NoReq, vars
<1>3. ASSUME NEW a \in Approvals
      PROVE  /\ row[a].recovered => row'[a].recovered
             /\ ~row'[a].recovered /\ row[a].status \notin {"absent", "pending"} =>
                   row'[a].status \notin {"absent", "pending"}
  <2>1. ASSUME NEW b \in Approvals, Propose(b)
        PROVE  row'[a].recovered = row[a].recovered
               /\ (row[a].status # "absent" => row'[a] = row[a])
        BY <2>1 DEF Propose, TypeOK, Row
  <2>2. ASSUME NEW r \in Requests, PersistCommit(r)
        PROVE  row'[a].recovered = row[a].recovered
               /\ row'[a].status \in {row[a].status, "approved", "failed"}
    <3>1. req[r].outcome \in {"approved", "failed"}
          BY DEF TypeOK, Req
    <3> QED
        BY <2>2, <3>1 DEF PersistCommit, TypeOK, Row
  <2>3. ASSUME NEW r \in Requests, RejectCommit(r)
        PROVE  row'[a].recovered = row[a].recovered
               /\ row'[a].status \in {row[a].status, "rejected"}
        BY <2>3 DEF RejectCommit, TypeOK, Row
  <2>4. ASSUME NEW w \in Workers, Start(w)
        PROVE  row'[a] = row[a] \/ row'[a].recovered
        BY <2>4 DEF Start, PutBack, TypeOK, Row
  <2> QED
      BY <2>1, <2>2, <2>3, <2>4 DEF ClaimLoad, RejectLoad, PersistLoad, Dies, Crash, vars
<1>4. \A a \in Approvals : Quiet(a)
      BY <1>2, <1>3, NoNewTool, QuietRow
<1> QED
    BY <1>1, <1>4, QuietStep

\* The queue keeps the promise of AtMostOnce for every action: until a restart
\* puts its row back, the claim is the one right to run its tool, and running
\* it, a decision or a failure uses the right up.
THEOREM ImplementsAtMostOnce == Spec => RunsAtMostOnce
<1>1. Init => Once!Init
  <2> SUFFICES ASSUME Init PROVE Once!Init
      OBVIOUS
  <2>1. \A a \in Approvals : Executing(a) = {}
        BY DEF Init, Executing, NoReq
  <2>2. \A a \in Approvals : Right(a) = "free" /\ By(a) = {}
        BY <2>1 DEF Init, Right, By
  <2> QED
      BY <2>2 DEF Init, Once!Init
<1>2. IInv /\ [Next]_vars => [Once!Next]_(Once!once)
  <2> SUFFICES ASSUME IInv, [Next]_vars PROVE Once!Next
      OBVIOUS
  <2>1. CASE \E r \in Requests : ClaimCommit(r)
        BY <2>1, ClaimTakes
  <2>2. CASE \E r \in Requests : Execute(r)
        BY <2>2, ExecuteUses
  <2> QED
      BY <2>1, <2>2, OtherStepsAreQuiet DEF Next
<1> QED
    BY <1>1, <1>2, InductiveInvariant, PTL DEF Spec, RunsAtMostOnce, Once!Spec
=============================================================================
