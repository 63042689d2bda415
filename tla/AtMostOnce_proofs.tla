------------------------- MODULE AtMostOnce_proofs ---------------------------
(***************************************************************************)
(* Safety of ScheduledReport and of DeviceActions, and that both keep the  *)
(* promise of AtMostOnce, for every set of replicas, months, actions,      *)
(* leads and flags.  ApprovalQueue_proofs has the same of the queue.       *)
(*                                                                         *)
(* The report: a replica holds a month from the commit of its claim to the *)
(* commit of the outcome.  The row says "sending" all that time, which is  *)
(* what keeps every other replica from claiming the month; and a row that  *)
(* says "failed" can be claimed by one replica only, the one with its lock.*)
(*                                                                         *)
(* Device actions: while its asker is busy with an action no approval      *)
(* parks it, and between its claim and its outcome a lead is alone with    *)
(* the row; so whoever is in the tool has the only right to run it.  What  *)
(* the policy and the tool have looked at holds for as long as they rely   *)
(* on it, because a change marks the look as stale and a restart ends all. *)
(***************************************************************************)
EXTENDS ScheduledReport, DeviceActions, TLAPS

-----------------------------------------------------------------------------
(* The report: its invariant                                                *)

Holds == {"build", "send", "finish", "fail"}

Busy == \A r \in Replicas : run[r].pc # "idle" => run[r].for \in Months
Claimed == \A r \in Replicas : run[r].pc \in Holds => period[run[r].for] = "sending"
OneHolder ==
    \A r, q \in Replicas :
        run[r].pc \in Holds /\ run[q].pc \in Holds /\ run[r].for = run[q].for => r = q
Locked ==
    \A r \in Replicas : run[r].pc = "claim" => lock[run[r].for] = r /\ period[run[r].for] = "failed"

\* Without a doubtful send, what was mailed is what the row and its holder know.
MailCounted ==
    \A m \in Months : ~doubtful[m] =>
        copies[m] <= 1 /\ (period[m] \in {"none", "failed"} => copies[m] = 0)
Unsent ==
    \A r \in Replicas :
        run[r].pc \in Holds \ {"finish"} /\ ~doubtful[run[r].for] => copies[run[r].for] = 0
Mailing ==
    /\ \A m \in Months : period[m] = "sent" => copies[m] > 0
    /\ \A r \in Replicas : run[r].pc = "finish" => copies[run[r].for] > 0

Known == MailCounted /\ Unsent /\ Mailing

ReportInv == ReportTypeOK /\ Busy /\ Claimed /\ OneHolder /\ Locked /\ Known

-----------------------------------------------------------------------------
LEMMA ReportStarts == ReportInit => ReportInv
<1> SUFFICES ASSUME ReportInit PROVE ReportInv
  OBVIOUS
<1>1. 1 \in Months /\ Idle \in [pc : Pcs, for : Months \cup {0}] /\ Idle.pc = "idle"
  BY ReportAssumption DEF Months, Idle, Pcs
<1>2. ReportTypeOK
  <2>1. run \in [Replicas -> [pc : Pcs, for : Months \cup {0}]]
    BY <1>1 DEF ReportInit
  <2>2. /\ period \in [Months -> Statuses] /\ copies \in [Months -> 0..2]
        /\ lock \in [Months -> Replicas \cup {None}] /\ doubtful \in [Months -> BOOLEAN]
    BY DEF ReportInit, Statuses
  <2> QED
    BY <1>1, <2>1, <2>2 DEF ReportInit, ReportTypeOK
<1>3. \A r \in Replicas : run[r].pc = "idle"
  BY <1>1 DEF ReportInit
<1>4. \A m \in Months : period[m] = "none" /\ copies[m] = 0
  BY DEF ReportInit
<1>5. Busy /\ Claimed /\ OneHolder /\ Locked /\ Known
  BY <1>3, <1>4 DEF Busy, Claimed, OneHolder, Locked, Known, MailCounted, Unsent, Mailing, Holds
<1> QED
  BY <1>2, <1>5 DEF ReportInv

LEMMA MovesFacts ==
    ASSUME ReportTypeOK, NEW r \in Replicas, NEW pc \in Pcs, Moves(r, pc)
    PROVE  /\ run' \in [Replicas -> [pc : Pcs, for : Months \cup {0}]]
           /\ \A q \in Replicas \ {r} : run'[q] = run[q]
           /\ run'[r].pc = pc /\ run'[r].for = run[r].for
<1> DEFINE new == [pc |-> pc, for |-> run[r].for]
<1>1. new \in [pc : Pcs, for : Months \cup {0}] /\ new.pc = pc /\ new.for = run[r].for
  BY DEF ReportTypeOK
<1>2. run' = [run EXCEPT ![r] = new]
  BY DEF Moves, For
<1> HIDE DEF new
<1> QED
  BY <1>1, <1>2 DEF ReportTypeOK

LEMMA DoneFacts ==
    ASSUME ReportTypeOK, NEW r \in Replicas, Done(r)
    PROVE  /\ run' \in [Replicas -> [pc : Pcs, for : Months \cup {0}]]
           /\ \A q \in Replicas \ {r} : run'[q] = run[q]
           /\ run'[r].pc = "idle"
<1>1. Idle \in [pc : Pcs, for : Months \cup {0}] /\ Idle.pc = "idle"
  BY DEF Idle, Pcs
<1> QED
  BY <1>1 DEF ReportTypeOK, Done

LEMMA PassKeeps ==
    ASSUME ReportInv, NEW r \in Replicas, Pass(r)
    PROVE  ReportInv'
<1>1. /\ run[r].pc = "idle" /\ month \in Months
      /\ run' \in [Replicas -> [pc : Pcs, for : Months \cup {0}]]
      /\ \A q \in Replicas \ {r} : run'[q] = run[q]
      /\ run'[r].pc = "look" /\ run'[r].for = month
      /\ UNCHANGED <<month, open, period, lock, copies, doubtful>>
  <2>1. "look" \in Pcs /\ month \in Months
    BY DEF Pcs, ReportInv, ReportTypeOK
  <2> QED
    BY <2>1 DEF Pass, ReportInv, ReportTypeOK
<1>2. ReportTypeOK'
  BY <1>1 DEF ReportInv, ReportTypeOK, Statuses
<1>3. Busy'
  BY <1>1 DEF ReportInv, Busy
<1>4. Claimed'
  BY <1>1 DEF ReportInv, Claimed, OneHolder, Holds, Busy, ReportTypeOK
<1>5. OneHolder'
  BY <1>1 DEF ReportInv, OneHolder, Claimed, Holds, ReportTypeOK
<1>6. Locked'
  BY <1>1 DEF ReportInv, Locked, Claimed, Holds, Busy, ReportTypeOK
<1>7. MailCounted'
  BY <1>1 DEF ReportInv, Known, MailCounted, Unsent, Claimed, Holds, Locked, ReportTypeOK
<1>8. Unsent'
  BY <1>1 DEF ReportInv, Known, Unsent, MailCounted, OneHolder, Busy, Holds, ReportTypeOK
<1>9. Mailing'
  BY <1>1 DEF ReportInv, Known, Mailing, Busy, OneHolder, Holds, ReportTypeOK
<1> QED
  BY <1>2, <1>3, <1>4, <1>5, <1>6, <1>7, <1>8, <1>9 DEF ReportInv, Known

LEMMA LookKeeps ==
    ASSUME ReportInv, NEW r \in Replicas, Look(r)
    PROVE  ReportInv'
<1>1. /\ run[r].pc = "look" /\ run[r].for \in Months
      /\ run' \in [Replicas -> [pc : Pcs, for : Months \cup {0}]]
      /\ \A q \in Replicas \ {r} : run'[q] = run[q]
      /\ run'[r].pc \in {"insert", "claim", "idle"}
      /\ run'[r].pc # "idle" => run'[r].for = run[r].for
      /\ UNCHANGED <<month, open, period, copies, doubtful>>
  BY MovesFacts, DoneFacts DEF Look, ReportInv, Busy, Pcs
<1>2. /\ lock' \in [Months -> Replicas \cup {None}]
      /\ \A m \in Months : lock[m] # None => lock'[m] = lock[m]
      /\ run'[r].pc = "claim" => period[run[r].for] = "failed" /\ lock'[run[r].for] = r
  <2>1. CASE UNCHANGED lock /\ run'[r].pc # "claim"
    BY <2>1 DEF ReportInv, ReportTypeOK
  <2>2. CASE period[run[r].for] = "failed" /\ lock' = [lock EXCEPT ![run[r].for] = r]
    BY <1>1, <2>2 DEF Look, For, ReportInv, ReportTypeOK
  <2> QED
    BY <2>1, <2>2, MovesFacts, DoneFacts DEF Look, For, ReportInv, Pcs
<1>3. ReportTypeOK'
  BY <1>1, <1>2, ReportAssumption DEF ReportInv, ReportTypeOK, Statuses
<1>4. Busy'
  BY <1>1, <1>2, ReportAssumption DEF ReportInv, Busy
<1>5. Claimed'
  BY <1>1, <1>2, ReportAssumption DEF ReportInv, Claimed, OneHolder, Holds, Busy, ReportTypeOK
<1>6. OneHolder'
  BY <1>1, <1>2, ReportAssumption DEF ReportInv, OneHolder, Claimed, Holds, ReportTypeOK
<1>7. Locked'
  BY <1>1, <1>2, ReportAssumption DEF ReportInv, Locked, Claimed, Holds, Busy, ReportTypeOK
<1>8. MailCounted'
  BY <1>1, <1>2, ReportAssumption DEF ReportInv, Known, MailCounted, Unsent, Claimed, Holds, Locked, ReportTypeOK
<1>9. Unsent'
  BY <1>1, <1>2, ReportAssumption DEF ReportInv, Known, Unsent, MailCounted, OneHolder, Busy, Holds, ReportTypeOK
<1>10. Mailing'
  BY <1>1, <1>2, ReportAssumption DEF ReportInv, Known, Mailing, Busy, OneHolder, Holds, ReportTypeOK
<1> QED
  BY <1>3, <1>4, <1>5, <1>6, <1>7, <1>8, <1>9, <1>10 DEF ReportInv, Known

LEMMA InsertKeeps ==
    ASSUME ReportInv, NEW r \in Replicas, Insert(r)
    PROVE  ReportInv'
<1>1. /\ run[r].pc = "insert" /\ run[r].for \in Months
      /\ run' \in [Replicas -> [pc : Pcs, for : Months \cup {0}]]
      /\ \A q \in Replicas \ {r} : run'[q] = run[q]
      /\ run'[r].pc \in {"build", "idle"}
      /\ run'[r].pc # "idle" => run'[r].for = run[r].for
      /\ UNCHANGED <<month, open, lock, copies, doubtful>>
  BY MovesFacts, DoneFacts DEF Insert, ReportInv, Busy, Pcs
<1>2. /\ period' \in [Months -> Statuses]
      /\ \A m \in Months : period'[m] = period[m] \/ (period[m] = "none" /\ period'[m] = "sending")
      /\ run'[r].pc = "build" => period[run[r].for] = "none" /\ period'[run[r].for] = "sending"
  <2>1. CASE UNCHANGED period /\ run'[r].pc # "build"
    BY <2>1 DEF ReportInv, ReportTypeOK
  <2>2. CASE period[run[r].for] = "none" /\ period' = [period EXCEPT ![run[r].for] = "sending"]
    BY <1>1, <2>2 DEF ReportInv, ReportTypeOK, Statuses
  <2> QED
    BY <2>1, <2>2, MovesFacts, DoneFacts DEF Insert, For, ReportInv, Pcs
<1>3. ReportTypeOK'
  BY <1>1, <1>2 DEF ReportInv, ReportTypeOK, Statuses
<1>4. Busy'
  BY <1>1, <1>2 DEF ReportInv, Busy
<1>5. Claimed'
  BY <1>1, <1>2 DEF ReportInv, Claimed, OneHolder, Holds, Busy, ReportTypeOK
<1>6. OneHolder'
  BY <1>1, <1>2 DEF ReportInv, OneHolder, Claimed, Holds, ReportTypeOK
<1>7. Locked'
  BY <1>1, <1>2 DEF ReportInv, Locked, Claimed, Holds, Busy, ReportTypeOK
<1>8. MailCounted'
  BY <1>1, <1>2 DEF ReportInv, Known, MailCounted, Unsent, Claimed, Holds, Locked, ReportTypeOK
<1>9. Unsent'
  BY <1>1, <1>2 DEF ReportInv, Known, Unsent, MailCounted, OneHolder, Busy, Holds, ReportTypeOK
<1>10. Mailing'
  BY <1>1, <1>2 DEF ReportInv, Known, Mailing, Busy, OneHolder, Holds, ReportTypeOK
<1> QED
  BY <1>3, <1>4, <1>5, <1>6, <1>7, <1>8, <1>9, <1>10 DEF ReportInv, Known

LEMMA ClaimKeeps ==
    ASSUME ReportInv, NEW r \in Replicas, Reclaim(r)
    PROVE  ReportInv'
<1>1. /\ run[r].pc = "claim" /\ run[r].for \in Months
      /\ run' \in [Replicas -> [pc : Pcs, for : Months \cup {0}]]
      /\ \A q \in Replicas \ {r} : run'[q] = run[q]
      /\ run'[r].pc = "build" /\ run'[r].for = run[r].for
      /\ UNCHANGED <<month, open, copies, doubtful>>
  BY MovesFacts, DoneFacts DEF Reclaim, ReportInv, Busy, Pcs
<1>2. /\ period' \in [Months -> Statuses] /\ lock' \in [Months -> Replicas \cup {None}]
      /\ period[run[r].for] = "failed" /\ lock[run[r].for] = r
      /\ period'[run[r].for] = "sending"
      /\ \A m \in Months \ {run[r].for} : period'[m] = period[m] /\ lock'[m] = lock[m]
  BY <1>1 DEF Reclaim, For, ReportInv, ReportTypeOK, Statuses, Locked
<1>3. ReportTypeOK'
  BY <1>1, <1>2 DEF ReportInv, ReportTypeOK, Statuses
<1>4. Busy'
  BY <1>1, <1>2 DEF ReportInv, Busy
<1>5. Claimed'
  BY <1>1, <1>2 DEF ReportInv, Claimed, OneHolder, Holds, Busy, ReportTypeOK
<1>6. OneHolder'
  BY <1>1, <1>2 DEF ReportInv, OneHolder, Claimed, Holds, ReportTypeOK
<1>7. Locked'
  BY <1>1, <1>2 DEF ReportInv, Locked, Claimed, Holds, Busy, ReportTypeOK
<1>8. MailCounted'
  BY <1>1, <1>2 DEF ReportInv, Known, MailCounted, Unsent, Claimed, Holds, Locked, ReportTypeOK
<1>9. Unsent'
  BY <1>1, <1>2 DEF ReportInv, Known, Unsent, MailCounted, OneHolder, Busy, Holds, ReportTypeOK
<1>10. Mailing'
  BY <1>1, <1>2 DEF ReportInv, Known, Mailing, Busy, OneHolder, Holds, ReportTypeOK
<1> QED
  BY <1>3, <1>4, <1>5, <1>6, <1>7, <1>8, <1>9, <1>10 DEF ReportInv, Known

LEMMA BuildKeeps ==
    ASSUME ReportInv, NEW r \in Replicas, Build(r)
    PROVE  ReportInv'
<1>1. /\ run[r].pc = "build" /\ run[r].for \in Months
      /\ run' \in [Replicas -> [pc : Pcs, for : Months \cup {0}]]
      /\ \A q \in Replicas \ {r} : run'[q] = run[q]
      /\ run'[r].pc \in {"send", "fail"} /\ run'[r].for = run[r].for
      /\ UNCHANGED <<month, open, period, lock, copies, doubtful>>
  BY MovesFacts, DoneFacts DEF Build, ReportInv, Busy, Pcs
<1>2. ReportTypeOK'
  BY <1>1 DEF ReportInv, ReportTypeOK, Statuses
<1>3. Busy'
  BY <1>1 DEF ReportInv, Busy
<1>4. Claimed'
  BY <1>1 DEF ReportInv, Claimed, OneHolder, Holds, Busy, ReportTypeOK
<1>5. OneHolder'
  BY <1>1 DEF ReportInv, OneHolder, Claimed, Holds, ReportTypeOK
<1>6. Locked'
  BY <1>1 DEF ReportInv, Locked, Claimed, Holds, Busy, ReportTypeOK
<1>7. MailCounted'
  BY <1>1 DEF ReportInv, Known, MailCounted, Unsent, Claimed, Holds, Locked, ReportTypeOK
<1>8. Unsent'
  BY <1>1 DEF ReportInv, Known, Unsent, MailCounted, OneHolder, Busy, Holds, ReportTypeOK
<1>9. Mailing'
  BY <1>1 DEF ReportInv, Known, Mailing, Busy, OneHolder, Holds, ReportTypeOK
<1> QED
  BY <1>2, <1>3, <1>4, <1>5, <1>6, <1>7, <1>8, <1>9 DEF ReportInv, Known

LEMMA SendKeeps ==
    ASSUME ReportInv, NEW r \in Replicas, Send(r)
    PROVE  ReportInv'
<1>1. /\ run[r].pc = "send" /\ run[r].for \in Months
      /\ run' \in [Replicas -> [pc : Pcs, for : Months \cup {0}]]
      /\ \A q \in Replicas \ {r} : run'[q] = run[q]
      /\ run'[r].pc \in {"finish", "fail"} /\ run'[r].for = run[r].for
      /\ UNCHANGED <<month, open, period, lock>>
  BY MovesFacts, DoneFacts DEF Send, ReportInv, Busy, Pcs
<1> DEFINE m0 == run[r].for
<1>2. copies[m0] \in 0..2 /\ m0 \in Months /\ "finish" \in Pcs /\ "fail" \in Pcs
  BY <1>1 DEF ReportInv, ReportTypeOK, Pcs
<1>3. UNCHANGED copies \/ Mailed(m0)
  BY DEF Send, For
<1>4. /\ copies' \in [Months -> 0..2]
      /\ \A m \in Months \ {m0} : copies'[m] = copies[m]
      /\ copies[m0] > 0 => copies'[m0] > 0
  BY <1>2, <1>3 DEF Mailed, ReportInv, ReportTypeOK
<1>5. /\ doubtful' \in [Months -> BOOLEAN]
      /\ \A m \in Months \ {m0} : doubtful'[m] = doubtful[m]
  BY <1>2 DEF Send, For, ReportInv, ReportTypeOK
<1>6. /\ run'[r].pc = "finish" => /\ copies'[m0] > 0 /\ (copies[m0] = 0 => copies'[m0] = 1)
                                 /\ doubtful'[m0] = doubtful[m0]
      /\ run'[r].pc = "fail" /\ ~doubtful'[m0] => copies'[m0] = copies[m0] /\ ~doubtful[m0]
  <2>1. CASE Mailed(m0) /\ Moves(r, "finish") /\ UNCHANGED doubtful
    <3>1. run'[r].pc = "finish"
      BY <1>2, <2>1, MovesFacts DEF ReportInv
    <3>2. copies'[m0] > 0 /\ (copies[m0] = 0 => copies'[m0] = 1)
      BY <1>2, <2>1 DEF Mailed, ReportInv, ReportTypeOK
    <3> QED
      BY <2>1, <3>1, <3>2
  <2>2. CASE Moves(r, "fail") /\ UNCHANGED <<copies, doubtful>>
    <3>1. run'[r].pc = "fail"
      BY <1>2, <2>2, MovesFacts DEF ReportInv
    <3> QED
      BY <2>2, <3>1
  <2>3. CASE Mailed(m0) /\ Moves(r, "fail") /\ doubtful' = [doubtful EXCEPT ![m0] = TRUE]
    <3>1. run'[r].pc = "fail"
      BY <1>2, <2>3, MovesFacts DEF ReportInv
    <3>2. doubtful'[m0]
      BY <1>2, <2>3 DEF ReportInv, ReportTypeOK
    <3> QED
      BY <3>1, <3>2
  <2> QED
    BY <2>1, <2>2, <2>3 DEF Send, For
<1> HIDE DEF m0
<1>7. m0 = run[r].for
  BY DEF m0
<1>8. ReportTypeOK'
  BY <1>1, <1>4, <1>5, <1>6, <1>7 DEF ReportInv, ReportTypeOK, Statuses
<1>9. Busy'
  BY <1>1, <1>4, <1>5, <1>6, <1>7 DEF ReportInv, Busy
<1>10. Claimed'
  BY <1>1, <1>4, <1>5, <1>6, <1>7 DEF ReportInv, Claimed, OneHolder, Holds, Busy, ReportTypeOK
<1>11. OneHolder'
  BY <1>1, <1>4, <1>5, <1>6, <1>7 DEF ReportInv, OneHolder, Claimed, Holds, ReportTypeOK
<1>12. Locked'
  BY <1>1, <1>4, <1>5, <1>6, <1>7 DEF ReportInv, Locked, Claimed, Holds, Busy, ReportTypeOK
<1>13. MailCounted'
  BY <1>1, <1>4, <1>5, <1>6, <1>7 DEF ReportInv, Known, MailCounted, Unsent, Claimed, Holds, Locked, ReportTypeOK
<1>14. Unsent'
  BY <1>1, <1>4, <1>5, <1>6, <1>7 DEF ReportInv, Known, Unsent, MailCounted, OneHolder, Busy, Holds, ReportTypeOK
<1>15. Mailing'
  BY <1>1, <1>4, <1>5, <1>6, <1>7 DEF ReportInv, Known, Mailing, Busy, OneHolder, Holds, ReportTypeOK
<1> QED
  BY <1>8, <1>9, <1>10, <1>11, <1>12, <1>13, <1>14, <1>15 DEF ReportInv, Known

LEMMA FinishKeeps ==
    ASSUME ReportInv, NEW r \in Replicas, Finish(r)
    PROVE  ReportInv'
<1>1. /\ run[r].pc = "finish" /\ run[r].for \in Months
      /\ run' \in [Replicas -> [pc : Pcs, for : Months \cup {0}]]
      /\ \A q \in Replicas \ {r} : run'[q] = run[q]
      /\ run'[r].pc = "idle"
      /\ UNCHANGED <<month, open, lock, copies, doubtful>>
  BY MovesFacts, DoneFacts DEF Finish, ReportInv, Busy, Pcs
<1>2. /\ period' \in [Months -> Statuses]
      /\ period'[run[r].for] = "sent"
      /\ \A m \in Months \ {run[r].for} : period'[m] = period[m]
  BY <1>1 DEF Finish, For, ReportInv, ReportTypeOK, Statuses
<1>3. ReportTypeOK'
  BY <1>1, <1>2 DEF ReportInv, ReportTypeOK, Statuses
<1>4. Busy'
  BY <1>1, <1>2 DEF ReportInv, Busy
<1>5. Claimed'
  BY <1>1, <1>2 DEF ReportInv, Claimed, OneHolder, Holds, Busy, ReportTypeOK
<1>6. OneHolder'
  BY <1>1, <1>2 DEF ReportInv, OneHolder, Claimed, Holds, ReportTypeOK
<1>7. Locked'
  BY <1>1, <1>2 DEF ReportInv, Locked, Claimed, Holds, Busy, ReportTypeOK
<1>8. MailCounted'
  BY <1>1, <1>2 DEF ReportInv, Known, MailCounted, Unsent, Claimed, Holds, Locked, ReportTypeOK
<1>9. Unsent'
  BY <1>1, <1>2 DEF ReportInv, Known, Unsent, MailCounted, OneHolder, Busy, Holds, ReportTypeOK
<1>10. Mailing'
  BY <1>1, <1>2 DEF ReportInv, Known, Mailing, Busy, OneHolder, Holds, ReportTypeOK
<1> QED
  BY <1>3, <1>4, <1>5, <1>6, <1>7, <1>8, <1>9, <1>10 DEF ReportInv, Known

LEMMA FailKeeps ==
    ASSUME ReportInv, NEW r \in Replicas, Fail(r)
    PROVE  ReportInv'
<1>1. /\ run[r].pc = "fail" /\ run[r].for \in Months
      /\ run' \in [Replicas -> [pc : Pcs, for : Months \cup {0}]]
      /\ \A q \in Replicas \ {r} : run'[q] = run[q]
      /\ run'[r].pc = "idle"
      /\ UNCHANGED <<month, open, lock, copies, doubtful>>
  BY MovesFacts, DoneFacts DEF Fail, ReportInv, Busy, Pcs
<1>2. /\ period' \in [Months -> Statuses]
      /\ period'[run[r].for] = "failed"
      /\ \A m \in Months \ {run[r].for} : period'[m] = period[m]
  BY <1>1 DEF Fail, For, ReportInv, ReportTypeOK, Statuses
<1>3. ReportTypeOK'
  BY <1>1, <1>2 DEF ReportInv, ReportTypeOK, Statuses
<1>4. Busy'
  BY <1>1, <1>2 DEF ReportInv, Busy
<1>5. Claimed'
  BY <1>1, <1>2 DEF ReportInv, Claimed, OneHolder, Holds, Busy, ReportTypeOK
<1>6. OneHolder'
  BY <1>1, <1>2 DEF ReportInv, OneHolder, Claimed, Holds, ReportTypeOK
<1>7. Locked'
  BY <1>1, <1>2 DEF ReportInv, Locked, Claimed, Holds, Busy, ReportTypeOK
<1>8. MailCounted'
  BY <1>1, <1>2 DEF ReportInv, Known, MailCounted, Unsent, Claimed, Holds, Locked, ReportTypeOK
<1>9. Unsent'
  BY <1>1, <1>2 DEF ReportInv, Known, Unsent, MailCounted, OneHolder, Busy, Holds, ReportTypeOK
<1>10. Mailing'
  BY <1>1, <1>2 DEF ReportInv, Known, Mailing, Busy, OneHolder, Holds, ReportTypeOK
<1> QED
  BY <1>3, <1>4, <1>5, <1>6, <1>7, <1>8, <1>9, <1>10 DEF ReportInv, Known

LEMMA StopKeeps ==
    ASSUME ReportInv, NEW r \in Replicas, Stop(r)
    PROVE  ReportInv'
<1>1. /\ run[r].pc # "idle" /\ run[r].for \in Months
      /\ run' \in [Replicas -> [pc : Pcs, for : Months \cup {0}]]
      /\ \A q \in Replicas \ {r} : run'[q] = run[q]
      /\ run'[r].pc = "idle"
      /\ UNCHANGED <<month, open, period, copies, doubtful>>
  BY MovesFacts, DoneFacts DEF Stop, ReportInv, Busy, Pcs
<1>2. /\ lock' \in [Months -> Replicas \cup {None}]
      /\ \A m \in Months : lock[m] # r => lock'[m] = lock[m]
  BY DEF Stop, ReportInv, ReportTypeOK
<1>3. ReportTypeOK'
  BY <1>1, <1>2 DEF ReportInv, ReportTypeOK, Statuses
<1>4. Busy'
  BY <1>1, <1>2 DEF ReportInv, Busy
<1>5. Claimed'
  BY <1>1, <1>2 DEF ReportInv, Claimed, OneHolder, Holds, Busy, ReportTypeOK
<1>6. OneHolder'
  BY <1>1, <1>2 DEF ReportInv, OneHolder, Claimed, Holds, ReportTypeOK
<1>7. Locked'
  BY <1>1, <1>2 DEF ReportInv, Locked, Claimed, Holds, Busy, ReportTypeOK
<1>8. MailCounted'
  BY <1>1, <1>2 DEF ReportInv, Known, MailCounted, Unsent, Claimed, Holds, Locked, ReportTypeOK
<1>9. Unsent'
  BY <1>1, <1>2 DEF ReportInv, Known, Unsent, MailCounted, OneHolder, Busy, Holds, ReportTypeOK
<1>10. Mailing'
  BY <1>1, <1>2 DEF ReportInv, Known, Mailing, Busy, OneHolder, Holds, ReportTypeOK
<1> QED
  BY <1>3, <1>4, <1>5, <1>6, <1>7, <1>8, <1>9, <1>10 DEF ReportInv, Known

LEMMA ReportSteps == ReportInv /\ [ReportNext]_reportVars => ReportInv'
<1> SUFFICES ASSUME ReportInv, [ReportNext]_reportVars PROVE ReportInv'
  OBVIOUS
<1>1. ASSUME NEW r \in Replicas, Step(r) PROVE ReportInv'
  BY <1>1, PassKeeps, LookKeeps, InsertKeeps, ClaimKeeps, BuildKeeps, SendKeeps, FinishKeeps,
     FailKeeps, StopKeeps DEF Step
<1>2. CASE Calendar
  <2>1. month' \in Months /\ open' \in BOOLEAN
    <3>1. month + 1 \in Months \/ ~(month < LastMonth)
      BY ReportAssumption DEF ReportInv, ReportTypeOK, Months
    <3> QED
      BY <1>2, <3>1 DEF Calendar, ReportInv, ReportTypeOK
  <2>2. UNCHANGED <<period, lock, run, copies, doubtful>>
    BY <1>2 DEF Calendar
  <2> QED
    BY <2>1, <2>2 DEF ReportInv, ReportTypeOK, Busy, Claimed, OneHolder, Locked, Known, MailCounted, Unsent, Mailing
<1>3. CASE UNCHANGED reportVars
  BY <1>3 DEF reportVars, ReportInv, ReportTypeOK, Busy, Claimed, OneHolder, Locked, Known, MailCounted, Unsent, Mailing
<1> QED
  BY <1>1, <1>2, <1>3 DEF ReportNext

\* The invariant holds of every behaviour of the replicas.
THEOREM ReportInvariance == ReportSpec => []ReportInv
BY ReportStarts, ReportSteps, PTL DEF ReportSpec

\* Every variable keeps its type.
THEOREM ReportTypeCorrect == ReportSpec => []ReportTypeOK
<1>1. ReportInv => ReportTypeOK
  BY DEF ReportInv
<1> QED
  BY <1>1, ReportInvariance, PTL

\* The report of a month is mailed once, unless a send raised after the mail
\* had been taken: the claim that ScheduledReportService commits is its lock.
THEOREM ReportIsMailedOnce == ReportSpec => []MailedOnce
<1>1. ReportInv => MailedOnce
  BY DEF ReportInv, Known, MailCounted, Mailing, MailedOnce, ReportTypeOK
<1> QED
  BY <1>1, ReportInvariance, PTL

-----------------------------------------------------------------------------
(* ScheduledReport implements AtMostOnce                                    *)

SendKept(m) == SendRight(m)' = SendRight(m) /\ SentBy(m)' = SentBy(m)
SendQuiet(m) ==
    SendKept(m) \/ (SendRight(m)' \in Mails!After(SendRight(m)) /\ SentBy(m)' = {})

\* Without a doubtful send, whoever is about to mail a month is alone with it,
\* and it was not mailed before.
LEMMA OneSender ==
    ASSUME ReportInv, NEW m \in Months, ~doubtful[m], NEW r \in Sending(m)
    PROVE  Sending(m) = {r} /\ period[m] = "sending" /\ copies[m] = 0
<1>1. r \in Replicas /\ run[r].pc \in {"build", "send", "fail"} /\ run[r].for = m
  BY DEF Sending, For
<1>2. period[m] = "sending" /\ copies[m] = 0
  BY <1>1 DEF ReportInv, Claimed, Known, Unsent, Holds
<1>3. \A q \in Sending(m) : q = r
  BY <1>1 DEF Sending, For, ReportInv, OneHolder, Holds
<1> QED
  BY <1>2, <1>3

\* What claims no month and frees none that nobody holds interrupts at most.
LEMMA QuietMonth ==
    ASSUME ReportInv, NEW m \in Months, Sending(m)' \subseteq Sending(m),
           doubtful[m] => doubtful'[m],
           ~doubtful'[m] /\ Sending(m) = {} /\ period[m] \notin {"none", "failed"} =>
              period'[m] \notin {"none", "failed"}
    PROVE  SendQuiet(m)
<1>1. CASE doubtful'[m]
  BY <1>1 DEF SendQuiet, SendKept, SendRight, SentBy, Mails!After
<1>2. CASE ~doubtful'[m] /\ Sending(m) = {}
  BY <1>2 DEF SendQuiet, SendKept, SendRight, SentBy, Mails!After
<1>3. CASE ~doubtful'[m] /\ Sending(m)' = Sending(m) /\ Sending(m) # {}
  BY <1>3 DEF SendQuiet, SendKept, SendRight, SentBy
<1>4. CASE ~doubtful'[m] /\ Sending(m)' # Sending(m) /\ Sending(m) # {}
  <2>1. Sending(m)' = {}
    BY <1>4, OneSender
  <2> QED
    BY <1>4, <2>1 DEF SendQuiet, SendRight, SentBy, Mails!After
<1> QED
  BY <1>1, <1>2, <1>3, <1>4

LEMMA QuietMonths ==
    ASSUME \A m \in Months : SendQuiet(m), copies' = copies
    PROVE  Mails!Next
<1>1. \A m \in Months : SendRight(m)' \in Mails!Rights /\ SentBy(m)' \in SUBSET Replicas
  BY DEF SendRight, SentBy, Sending, Mails!Rights
<1>2. Mails!Interrupt
  BY <1>1 DEF Mails!Interrupt, SendQuiet, SendKept
<1> QED
  BY <1>2 DEF Mails!Next

\* The commit of a claim, first or repeated, takes the right to send.
LEMMA ClaimTakesMonth ==
    ASSUME ReportInv, NEW r \in Replicas, NEW m \in Months, run[r].for = m,
           run[r].pc \in {"insert", "claim"}, period[m] \in {"none", "failed"},
           period' = [period EXCEPT ![m] = "sending"], Moves(r, "build"),
           UNCHANGED <<copies, doubtful>>
    PROVE  Mails!Next
<1>1. /\ \A q \in Replicas \ {r} : run'[q] = run[q]
      /\ run'[r].pc = "build" /\ run'[r].for = m
  BY MovesFacts DEF ReportInv, Pcs
<1>2. period'[m] = "sending" /\ \A k \in Months \ {m} : period'[k] = period[k]
  BY DEF ReportInv, ReportTypeOK
<1>3. Sending(m) = {}
  BY DEF Sending, For, ReportInv, Claimed, Holds
<1>4. Sending(m)' = {r} /\ \A k \in Months \ {m} : Sending(k)' = Sending(k)
  <2>1. \A q \in Replicas : q \in Sending(m)' <=> q = r
    BY <1>1, <1>3 DEF Sending, For
  <2>2. \A k \in Months \ {m}, q \in Replicas : q \in Sending(k)' <=> q \in Sending(k)
    BY <1>1 DEF Sending, For
  <2> QED
    BY <2>1, <2>2 DEF Sending
<1>5. \A k \in Months \ {m} : SendKept(k)
  BY <1>2, <1>4 DEF SendKept, SendRight, SentBy
<1>6. CASE doubtful[m]
  <2>1. SendKept(m)
    BY <1>6 DEF SendKept, SendRight, SentBy
  <2> QED
    BY <1>5, <2>1, QuietMonths DEF SendQuiet
<1>7. CASE ~doubtful[m]
  <2>1. SendRight(m) = "free" /\ SendRight(m)' = "taken" /\ SentBy(m)' = {r}
    BY <1>2, <1>3, <1>4, <1>7 DEF SendRight, SentBy
  <2>2. Mails!Take(m, r)
    BY <1>5, <2>1 DEF Mails!Take, SendKept
  <2> QED
    BY <2>2 DEF Mails!Next
<1> QED
  BY <1>6, <1>7

\* A mail uses the right up, or repeats one whose first mail was doubtful.
LEMMA MailUses ==
    ASSUME ReportInv, NEW r \in Replicas, NEW m \in Months, run[r].for = m,
           run[r].pc = "send", period' = period, copies' = [copies EXCEPT ![m] = @ + 1],
           NEW pc \in {"finish", "fail"}, Moves(r, pc),
           IF pc = "fail" THEN doubtful' = [doubtful EXCEPT ![m] = TRUE]
                          ELSE doubtful' = doubtful
    PROVE  Mails!Next
<1>1. /\ \A q \in Replicas \ {r} : run'[q] = run[q]
      /\ run'[r].pc = pc /\ run'[r].for = m
  BY MovesFacts DEF ReportInv, Pcs
<1>2. /\ doubtful[m] \/ pc = "fail" <=> doubtful'[m]
      /\ \A k \in Months \ {m} : doubtful'[k] = doubtful[k]
  BY DEF ReportInv, ReportTypeOK
<1>3. \A k \in Months \ {m} : Sending(k)' = Sending(k)
  BY <1>1 DEF Sending, For
<1>4. \A k \in Months \ {m} : SendKept(k)
  BY <1>2, <1>3 DEF SendKept, SendRight, SentBy
<1>5. CASE doubtful[m]
  <2>1. SendKept(m) /\ SendRight(m) = "lost"
    BY <1>2, <1>5 DEF SendKept, SendRight, SentBy
  <2>2. Mails!Repeat(m)
    BY <1>4, <2>1 DEF Mails!Repeat, SendKept
  <2> QED
    BY <2>2 DEF Mails!Next
<1>6. CASE ~doubtful[m]
  <2>1. r \in Sending(m)
    BY DEF Sending, For
  <2>2. Sending(m) = {r} /\ period[m] = "sending"
    BY <1>6, <2>1, OneSender
  <2>3. SendRight(m) = "taken" /\ SentBy(m) = {r}
    BY <1>6, <2>2 DEF SendRight, SentBy
  <2>4. SendRight(m)' \in {"spent", "lost"} /\ SentBy(m)' = {}
    <3>1. CASE pc = "fail"
      BY <1>2, <3>1 DEF SendRight, SentBy
    <3>2. CASE pc = "finish"
      <4>1. Sending(m)' = {}
        BY <1>1, <2>2, <3>2 DEF Sending, For
      <4> QED
        BY <1>2, <1>6, <2>2, <3>2, <4>1 DEF SendRight, SentBy
    <3> QED
      BY <3>1, <3>2
  <2>5. Mails!Use(m, r)
    BY <1>4, <2>3, <2>4 DEF Mails!Use, SendKept
  <2> QED
    BY <2>5 DEF Mails!Next
<1> QED
  BY <1>5, <1>6

LEMMA SendStep ==
    ASSUME ReportInv, NEW r \in Replicas, Send(r)
    PROVE  Mails!Next \/ UNCHANGED <<period, copies, doubtful>>
<1>0. PICK m \in Months : m = run[r].for
  BY DEF Send, ReportInv, Busy
<1>1. copies[m] \in 0..2 /\ copies \in [Months -> 0..2]
  BY DEF ReportInv, ReportTypeOK
<1>2. CASE copies[m] < 2 /\ Mailed(m) /\ Moves(r, "finish") /\ UNCHANGED doubtful
  <2>1. copies' = [copies EXCEPT ![m] = @ + 1]
    BY <1>2 DEF Mailed
  <2> QED
    BY <1>0, <1>2, <2>1, MailUses DEF Send
<1>3. CASE copies[m] < 2 /\ Mailed(m) /\ Moves(r, "fail") /\ doubtful' = [doubtful EXCEPT ![m] = TRUE]
  <2>1. copies' = [copies EXCEPT ![m] = @ + 1]
    BY <1>3 DEF Mailed
  <2> QED
    BY <1>0, <1>3, <2>1, MailUses DEF Send
<1>4. CASE copies[m] = 2 /\ Mailed(m)
  <2>1. copies' = copies
    BY <1>1, <1>4 DEF Mailed
  <2>2. doubtful[m]
    BY <1>1, <1>4 DEF ReportInv, Known, MailCounted
  <2>3. doubtful' = doubtful \/ doubtful' = [doubtful EXCEPT ![m] = TRUE]
    BY <1>0 DEF Send, For
  <2>4. doubtful[m] = TRUE /\ doubtful \in [Months -> BOOLEAN]
    BY <2>2 DEF ReportInv, ReportTypeOK
  <2>5. doubtful' = doubtful
    BY <2>3, <2>4
  <2> QED
    BY <2>1, <2>5 DEF Send
<1>5. CASE UNCHANGED <<copies, doubtful>>
  BY <1>5 DEF Send
<1> QED
  BY <1>0, <1>1, <1>2, <1>3, <1>4, <1>5 DEF Send, For

\* A step in which nobody comes to hold a month, no mail is sent, and only a
\* holder marks its month as failed.
LEMMA QuietPass ==
    ASSUME ReportInv, UNCHANGED <<copies, doubtful>>,
           \A q \in Replicas :
              \/ run'[q] = run[q]
              \/ run'[q].pc \notin {"build", "send", "fail"}
              \/ run[q].pc \in {"build", "send"} /\ run'[q].for = run[q].for,
           \A m \in Months :
              \/ period'[m] \in {period[m], "sent"}
              \/ Sending(m) # {}
    PROVE  Mails!Next
<1>1. \A m \in Months : Sending(m)' \subseteq Sending(m)
  BY DEF Sending, For
<1>2. \A m \in Months : SendQuiet(m)
  BY <1>1, QuietMonth
<1> QED
  BY <1>2, QuietMonths

LEMMA StepSends ==
    ASSUME ReportInv, NEW r \in Replicas, Step(r)
    PROVE  Mails!Next
<1> USE DEF ReportInv
<1>1. CASE Pass(r)
  <2>1. /\ \A q \in Replicas : run'[q] = run[q] \/ run'[q].pc = "look"
        /\ UNCHANGED <<period, copies, doubtful>>
    BY <1>1 DEF Pass, ReportTypeOK
  <2> QED
    BY <2>1, QuietPass
<1>2. CASE Look(r)
  <2>1. \A q \in Replicas : run'[q] = run[q] \/ run'[q].pc \in {"insert", "claim", "idle"}
    BY <1>2, MovesFacts, DoneFacts DEF Look, Pcs
  <2> QED
    BY <1>2, <2>1, QuietPass DEF Look
<1>3. CASE Insert(r) \/ Reclaim(r)
  <2>0. PICK m \in Months : m = run[r].for
    BY <1>3 DEF Insert, Reclaim, Busy
  <2>1. CASE Insert(r) /\ period[m] # "none"
    <3>1. Done(r) /\ UNCHANGED <<period, copies, doubtful>>
      BY <2>0, <2>1 DEF Insert, For
    <3>2. \A q \in Replicas : run'[q] = run[q] \/ run'[q].pc = "idle"
      BY <3>1, DoneFacts
    <3> QED
      BY <3>1, <3>2, QuietPass
  <2>2. CASE Insert(r) /\ period[m] = "none"
    BY <2>0, <2>2, ClaimTakesMonth DEF Insert, For
  <2>3. CASE Reclaim(r)
    <3>1. period[m] = "failed" /\ run[r].pc = "claim"
      BY <2>0, <2>3 DEF Locked, Reclaim
    <3> QED
      BY <2>0, <2>3, <3>1, ClaimTakesMonth DEF Reclaim, For
  <2> QED
    BY <1>3, <2>1, <2>2, <2>3
<1>4. CASE Build(r) \/ Send(r)
  <2>1. /\ run[r].pc \in {"build", "send"} /\ run'[r].for = run[r].for
        /\ \A q \in Replicas \ {r} : run'[q] = run[q]
    BY <1>4, MovesFacts DEF Build, Send, Pcs
  <2>2. CASE UNCHANGED <<period, copies, doubtful>>
    BY <2>1, <2>2, QuietPass
  <2> QED
    BY <1>4, <2>2, SendStep DEF Build
<1>5. CASE Finish(r)
  <2>1. \A q \in Replicas : run'[q] = run[q] \/ run'[q].pc = "idle"
    BY <1>5, DoneFacts DEF Finish
  <2>2. \A m \in Months : period'[m] \in {period[m], "sent"}
    BY <1>5 DEF Finish, ReportTypeOK
  <2> QED
    BY <1>5, <2>1, <2>2, QuietPass DEF Finish
<1>6. CASE Fail(r)
  <2>1. \A q \in Replicas : run'[q] = run[q] \/ run'[q].pc = "idle"
    BY <1>6, DoneFacts DEF Fail
  <2>2. \A m \in Months : m # run[r].for => period'[m] = period[m]
    BY <1>6 DEF Fail, For, ReportTypeOK
  <2>3. \A m \in Months : m = run[r].for => r \in Sending(m)
    BY <1>6 DEF Fail, Sending, For
  <2> QED
    BY <1>6, <2>1, <2>2, <2>3, QuietPass DEF Fail
<1>7. CASE Stop(r)
  <2>1. \A q \in Replicas : run'[q] = run[q] \/ run'[q].pc = "idle"
    BY <1>7, DoneFacts DEF Stop
  <2> QED
    BY <1>7, <2>1, QuietPass DEF Stop
<1> QED
  BY <1>1, <1>2, <1>3, <1>4, <1>5, <1>6, <1>7 DEF Step

\* Whoever overlaps or stops on the way, the month is claimed as AtMostOnce
\* has it: one replica at a time may mail the report, and a claim that was not
\* given back with "failed" keeps the month for good.
THEOREM ReportImplementsAtMostOnce == ReportSpec => MailsAtMostOnce
<1>1. ReportInit => Mails!Init
  <2> SUFFICES ASSUME ReportInit PROVE Mails!Init
    OBVIOUS
  <2>1. \A m \in Months : Sending(m) = {}
    BY DEF ReportInit, Sending, Idle
  <2>2. \A m \in Months : SendRight(m) = "free" /\ SentBy(m) = {}
    BY <2>1 DEF ReportInit, SendRight, SentBy
  <2> QED
    BY <2>2 DEF ReportInit, Mails!Init
<1>2. ReportInv /\ [ReportNext]_reportVars => [Mails!Next]_(Mails!once)
  <2> SUFFICES ASSUME ReportInv, [ReportNext]_reportVars PROVE Mails!Next
    OBVIOUS
  <2>1. CASE Calendar
    BY <2>1, QuietPass DEF Calendar
  <2>2. CASE UNCHANGED reportVars
    BY <2>2, QuietPass DEF reportVars
  <2> QED
    BY <2>1, <2>2, StepSends DEF ReportNext
<1> QED
  BY <1>1, <1>2, ReportInvariance, PTL DEF ReportSpec, MailsAtMostOnce, Mails!Spec

-----------------------------------------------------------------------------
(* Device actions: the invariant                                            *)

Asking(a) == job[a].pc \notin {"idle", "done", "lost"}
Working(l) == job[l].side = "tool" \/ job[l].pc = "record"

\* Only in the tool is Intune called.
Placed ==
    \A j \in Jobs :
       /\ job[j].side = "tool" => job[j].pc \in {"device", "consent", "decide", "call"}
       /\ job[j].pc = "call" => job[j].side = "tool"

\* While an action is asked for no approval parks it.
AskersOK ==
    \A a \in Actions :
       /\ job[a].of = a /\ job[a].pc \notin {"claim", "record"}
       /\ Asking(a) => row[a].status = "absent" /\ settings.feature

\* Between its claim and its outcome a lead is alone with the row.
LeadsOK ==
    \A l \in Leads :
       /\ job[l].pc # "idle" => row[job[l].of].status # "absent"
       /\ Working(l) => /\ row[job[l].of].status = "executing"
                        /\ \A m \in Leads : Working(m) /\ job[m].of = job[l].of => m = l

\* What may still run for the first time has not run.
Unrun(a) ==
    \/ row[a].status = "pending"
    \/ row[a].status = "absent" /\ job[a].pc \notin {"done", "lost"}
    \/ \E l \in Leads : job[l].of = a /\ job[l].side = "tool"
Counted ==
    \A a \in Actions : ~row[a].recovered => ran[a] < 2 /\ (Unrun(a) => ran[a] = 0)

\* What the policy and the token have settled of an asker in the tool.
Cleared ==
    \A a \in Actions : job[a].side = "tool" =>
       /\ act[a].risk = "low" \/ (act[a].risk = "medium" /\ settings.medium)
       /\ act[a].clean /\ settings.autonomous /\ job[a].may

\* What a job in the tool has read is what is, unless that changed.
Owned == device.owner # "none" /\ consent["owner"]
Looked(j) ==
    /\ job[j].pc = "consent" => /\ job[j].eligible => device.managed
                                /\ job[j].owner \in {"none", device.owner}
    /\ job[j].pc = "decide" => /\ job[j].eligible => device.managed
                               /\ job[j].consented => Owned
    /\ job[j].pc = "call" => device.managed /\ Owned
Allowed ==
    \A j \in Jobs : job[j].side = "tool" =>
       settings.feature /\ (job[j].stale \/ settings.mock \/ Looked(j))

Rights == AskersOK /\ LeadsOK /\ Counted

-----------------------------------------------------------------------------
(* How the helpers move a job                                               *)

LEMMA FreshFacts ==
    ASSUME NEW a \in Actions
    PROVE  /\ Fresh(a) \in Job
           /\ Fresh(a).pc = "idle" /\ Fresh(a).side = "service" /\ Fresh(a).of = a
BY DEF Fresh, Job

LEMMA AnsweredFacts ==
    ASSUME TypeOK, NEW j \in Jobs, Answered(j, "none") \/ Answered(j, "denied")
              \/ Answered(j, "pending_approval") \/ Answered(j, "executed") \/ Answered(j, "error")
    PROVE  /\ job' \in [Jobs -> Job]
           /\ \A k \in Jobs \ {j} : job'[k] = job[k]
           /\ job'[j].pc = "done" /\ job'[j].side = "service" /\ job'[j].of = job[j].of
<1>1. PICK x \in {"none", "denied", "pending_approval", "executed", "error"} : Answered(j, x)
  OBVIOUS
<1>2. job[j].of \in Actions
  BY DEF TypeOK, Job
<1> DEFINE new == [Fresh(job[j].of) EXCEPT !.pc = "done", !.answer = x]
<1>3. new \in Job /\ new.pc = "done" /\ new.side = "service" /\ new.of = job[j].of
  BY <1>2 DEF Fresh, Job
<1>4. job' = [job EXCEPT ![j] = new]
  BY <1>1 DEF Answered
<1> HIDE DEF new
<1> QED
  BY <1>3, <1>4 DEF TypeOK

LEMMA ReportsFacts ==
    ASSUME TypeOK, NEW j \in Jobs, Reports(j, "executed") \/ Reports(j, "error")
    PROVE  /\ job' \in [Jobs -> Job]
           /\ \A k \in Jobs \ {j} : job'[k] = job[k]
           /\ job'[j].pc = (IF j \in Leads THEN "record" ELSE "done")
           /\ job'[j].side = "service" /\ job'[j].of = job[j].of
<1>1. PICK x \in {"executed", "error"} : Reports(j, x)
  OBVIOUS
<1>2. job[j].of \in Actions
  BY DEF TypeOK, Job
<1>3. CASE j \in Leads
  <2> DEFINE new == [Fresh(job[j].of) EXCEPT !.pc = "record", !.answer = x]
  <2>1. new \in Job /\ new.pc = "record" /\ new.side = "service" /\ new.of = job[j].of
    BY <1>2 DEF Fresh, Job
  <2>2. job' = [job EXCEPT ![j] = new]
    BY <1>1, <1>3 DEF Reports
  <2> HIDE DEF new
  <2> QED
    BY <1>3, <2>1, <2>2 DEF TypeOK
<1>4. CASE j \notin Leads
  BY <1>1, <1>4, AnsweredFacts DEF Reports
<1> QED
  BY <1>3, <1>4

LEMMA StartFacts ==
    ASSUME TypeOK, NEW j \in Jobs, NEW a \in Actions, NEW may \in BOOLEAN,
           NEW pc \in {"device", "claim"}, Start(j, a, may, pc)
    PROVE  /\ job' \in [Jobs -> Job]
           /\ \A k \in Jobs \ {j} : job'[k] = job[k]
           /\ job'[j].pc = pc /\ job'[j].side = "service" /\ job'[j].of = a
<1> DEFINE new == [Fresh(a) EXCEPT !.pc = pc, !.may = may]
<1>1. new \in Job /\ new.pc = pc /\ new.side = "service" /\ new.of = a
  BY DEF Fresh, Job
<1>2. job' = [job EXCEPT ![j] = new]
  BY DEF Start
<1> HIDE DEF new
<1> QED
  BY <1>1, <1>2 DEF TypeOK

LEMMA EntersToolFacts ==
    ASSUME TypeOK, NEW j \in Jobs, EntersTool(j)
    PROVE  /\ job' \in [Jobs -> Job]
           /\ \A k \in Jobs \ {j} : job'[k] = job[k]
           /\ job'[j].pc = "device" /\ job'[j].side = "tool" /\ job'[j].of = job[j].of
           /\ job'[j].may = job[j].may
<1>1. job[j].of \in Actions /\ job[j].may \in BOOLEAN
  BY DEF TypeOK, Job
<1> DEFINE new == [Fresh(job[j].of) EXCEPT !.pc = "device", !.side = "tool", !.may = job[j].may]
<1>2. /\ new \in Job /\ new.pc = "device" /\ new.side = "tool" /\ new.of = job[j].of
      /\ new.may = job[j].may
  BY <1>1 DEF Fresh, Job
<1>3. job' = [job EXCEPT ![j] = new]
  BY DEF EntersTool
<1> HIDE DEF new
<1> QED
  BY <1>2, <1>3 DEF TypeOK

\* The three steps that go on where the job is.
LEMMA OnwardFacts ==
    ASSUME TypeOK, NEW j \in Jobs, ReadDevice(j) \/ ReadConsent(j) \/ Clear(j)
    PROVE  /\ job' \in [Jobs -> Job]
           /\ \A k \in Jobs \ {j} : job'[k] = job[k]
           /\ job[j].pc \in {"device", "consent", "decide"}
           /\ job'[j].pc \in {"consent", "decide", "call"}
           /\ job'[j].pc = "call" => job[j].side = "tool"
           /\ job'[j].side = job[j].side /\ job'[j].of = job[j].of
           /\ job'[j].may = job[j].may /\ job'[j].stale = job[j].stale
           /\ UNCHANGED <<settings, device, consent, act, row, ran>>
<1>0. job[j] \in Job /\ settings.mock \in BOOLEAN /\ device \in Device
  BY DEF TypeOK, Settings
<1>1. CASE ReadDevice(j)
  <2>1. PICK works \in BOOLEAN :
           job' = [job EXCEPT ![j] = [@ EXCEPT !.pc = "consent",
                     !.eligible = works /\ (settings.mock \/ device.managed),
                     !.owner = IF works THEN device.owner ELSE "none"]]
    BY <1>1 DEF ReadDevice
  <2>2. PICK e \in BOOLEAN : e = (works /\ (settings.mock \/ device.managed))
    BY <1>0 DEF Device
  <2>3. PICK o \in {"none", "upn", "id"} : o = IF works THEN device.owner ELSE "none"
    BY <1>0 DEF Device
  <2>4. job' = [job EXCEPT ![j] = [@ EXCEPT !.pc = "consent", !.eligible = e, !.owner = o]]
    BY <2>1, <2>2, <2>3
  <2>5. job[j].pc = "device" /\ UNCHANGED <<settings, device, consent, act, row, ran>>
    BY <1>1 DEF ReadDevice, Same
  <2> QED
    BY <1>0, <2>4, <2>5 DEF TypeOK, Job
<1>2. CASE ReadConsent(j)
  <2>1. PICK c \in BOOLEAN : c = (settings.mock \/ Consented(j))
    BY <1>0
  <2>2. job' = [job EXCEPT ![j] = [@ EXCEPT !.pc = "decide", !.owner = "none", !.consented = c]]
    BY <1>2, <2>1 DEF ReadConsent
  <2>3. job[j].pc = "consent" /\ UNCHANGED <<settings, device, consent, act, row, ran>>
    BY <1>2 DEF ReadConsent, Same
  <2> QED
    BY <1>0, <2>2, <2>3 DEF TypeOK, Job
<1>3. CASE Clear(j)
  BY <1>0, <1>3 DEF Clear, At, Same, TypeOK, Job
<1> QED
  BY <1>1, <1>2, <1>3

-----------------------------------------------------------------------------
(* Who may run what: TypeOK, Placed and Rights                              *)

RightsInv == TypeOK /\ Placed /\ Rights

LEMMA Apart == \A a \in Actions, l \in Leads : a # l
BY ActionsAssumption

LEMMA Owns ==
    ASSUME TypeOK
    PROVE  \A j \in Jobs : job[j].of \in Actions /\ row[job[j].of] \in Row
BY DEF TypeOK, Job

LEMMA OnwardRights ==
    ASSUME RightsInv, NEW j \in Jobs, ReadDevice(j) \/ ReadConsent(j) \/ Clear(j)
    PROVE  RightsInv'
<1> USE DEF RightsInv, Rights
<1>1. /\ job' \in [Jobs -> Job]
      /\ \A k \in Jobs \ {j} : job'[k] = job[k]
      /\ job[j].pc \in {"device", "consent", "decide"}
      /\ job'[j].pc \in {"consent", "decide", "call"}
      /\ job'[j].pc = "call" => job[j].side = "tool"
      /\ job'[j].side = job[j].side /\ job'[j].of = job[j].of
      /\ UNCHANGED <<settings, device, consent, act, row, ran>>
  BY OnwardFacts
<1>2. TypeOK' /\ Placed'
  BY <1>1 DEF TypeOK, Placed
<1>3. AskersOK'
  BY <1>1 DEF AskersOK, Asking, Jobs
<1>4. LeadsOK'
  BY <1>1 DEF LeadsOK, Working, Jobs
<1>5. Counted'
  BY <1>1 DEF Counted, Unrun, Jobs
<1> QED
  BY <1>2, <1>3, <1>4, <1>5

\* A job that leaves the tool, or that ends, and has changed nothing.
LEMMA EndsRights ==
    ASSUME RightsInv, NEW j \in Jobs, job' \in [Jobs -> Job],
           \A k \in Jobs \ {j} : job'[k] = job[k],
           job'[j].side = "service", job'[j].of = job[j].of, job[j].pc # "idle",
           \/ job'[j].pc = "done"
           \/ job'[j].pc = "record" /\ j \in Leads /\ job[j].side = "tool",
           UNCHANGED <<settings, device, consent, act, row, ran>>
    PROVE  RightsInv'
<1> USE DEF RightsInv, Rights
<1>1. TypeOK' /\ Placed'
  BY DEF TypeOK, Placed
<1>2. AskersOK'
  BY Apart DEF AskersOK, Asking, Jobs
<1>3. LeadsOK'
  BY DEF LeadsOK, Working, Jobs
<1>4. Counted'
  <2>1. \A b \in Actions : job'[b].pc \notin {"done", "lost"} => job'[b] = job[b]
    BY Apart DEF Jobs
  <2>2. \A l \in Leads : job'[l].side = "tool" => job'[l] = job[l]
    BY DEF Jobs
  <2>3. \A b \in Actions : Unrun(b)' => Unrun(b)
    BY <2>1, <2>2 DEF Unrun
  <2> QED
    BY <2>3 DEF Counted
<1> QED
  BY <1>1, <1>2, <1>3, <1>4

LEMMA QuietEnds ==
    ASSUME RightsInv, NEW j \in Jobs,
           \/ FactsRaise(j) \/ Refuse(j) \/ (j \in Actions /\ Deny(j)) \/ (j \in Leads /\ TooLate(j))
           \/ CallIntune(j) /\ ran' = ran
    PROVE  RightsInv'
<1>1. UNCHANGED <<settings, device, consent, act, row, ran>>
  BY DEF FactsRaise, Refuse, Deny, TooLate, CallIntune, Same
<1>2. job[j].pc # "idle"
  BY DEF FactsRaise, Refuse, Deny, TooLate, CallIntune, At
<1>3. CASE /\ job[j].side = "tool"
           /\ Reports(j, "executed") \/ Reports(j, "error")
  BY <1>1, <1>2, <1>3, ReportsFacts, EndsRights DEF RightsInv
<1>4. CASE Answered(j, "none") \/ Answered(j, "denied")
  BY <1>1, <1>2, <1>4, AnsweredFacts, EndsRights DEF RightsInv
<1>5. CASE FactsRaise(j) \/ Deny(j) \/ TooLate(j)
  <2>1. job[j].side \in {"service", "tool"}
    BY DEF RightsInv, TypeOK, Job
  <2> QED
    BY <1>3, <1>4, <1>5, <2>1 DEF FactsRaise, Deny, TooLate
<1>6. CASE Refuse(j)
  BY <1>3, <1>6 DEF Refuse, At
<1>7. CASE CallIntune(j)
  <2>1. job[j].side = "tool"
    BY <1>7 DEF CallIntune, RightsInv, Placed
  <2>2. Reports(j, "executed") \/ Reports(j, "error")
    BY <1>7 DEF CallIntune
  <2> QED
    BY <1>3, <2>1, <2>2
<1> QED
  BY <1>5, <1>6, <1>7

\* A new round of a job starts outside the tool.
LEMMA StartRights ==
    ASSUME RightsInv, NEW j \in Jobs, NEW a \in Actions, NEW may \in BOOLEAN,
           NEW pc \in {"device", "claim"}, Start(j, a, may, pc),
           \/ j = a /\ pc = "device" /\ job[a].pc = "idle" /\ row[a].status = "absent"
                    /\ settings.feature
           \/ j \in Leads /\ row[a].status # "absent",
           UNCHANGED <<settings, device, consent, act, row, ran>>
    PROVE  RightsInv'
<1> USE DEF RightsInv, Rights
<1>1. /\ job' \in [Jobs -> Job]
      /\ \A k \in Jobs \ {j} : job'[k] = job[k]
      /\ job'[j].pc = pc /\ job'[j].side = "service" /\ job'[j].of = a
  BY StartFacts
<1>2. TypeOK' /\ Placed'
  BY <1>1 DEF TypeOK, Placed
<1>3. AskersOK'
  BY <1>1, Apart DEF AskersOK, Asking, Jobs
<1>4. LeadsOK'
  BY <1>1, Apart DEF LeadsOK, Working, Jobs
<1>5. Counted'
  BY <1>1, Apart DEF Counted, Unrun, Jobs
<1> QED
  BY <1>2, <1>3, <1>4, <1>5

LEMMA Starts ==
    ASSUME RightsInv, NEW a \in Actions, NEW may \in BOOLEAN,
           \/ Ask(a, may)
           \/ \E l \in Leads : ApproveDevice(l, a, may) \/ ApproveOps(l, a, may)
    PROVE  RightsInv'
<1>1. CASE Ask(a, may)
  <2>1. job[a].pc = "idle"
    BY <1>1, Apart DEF Ask, Free
  <2> QED
    BY <1>1, <2>1, StartRights DEF Ask, Same, Jobs
<1>2. ASSUME NEW l \in Leads, ApproveDevice(l, a, may) \/ ApproveOps(l, a, may)
      PROVE  RightsInv'
  BY <1>2, StartRights DEF ApproveDevice, ApproveOps, Same, Jobs
<1> QED
  BY <1>1, <1>2

LEMMA UnblockedRights ==
    ASSUME RightsInv, NEW l \in Leads, Unblocked(l)
    PROVE  RightsInv'
<1>1. job[l].of \in Actions /\ job[l].may \in BOOLEAN /\ row[job[l].of].status # "absent"
  BY DEF Unblocked, At, RightsInv, Rights, LeadsOK, TypeOK, Job, Jobs
<1> QED
  BY <1>1, StartRights DEF Unblocked, Same, Jobs

\* The approval appears while no lead has the action and its asker is through.
LEMMA ParkRights ==
    ASSUME RightsInv, NEW a \in Actions, Park(a) \/ Propose(a)
    PROVE  RightsInv'
<1> USE DEF RightsInv, Rights
<1>1. /\ job' \in [Jobs -> Job]
      /\ \A k \in Jobs \ {a} : job'[k] = job[k]
      /\ job'[a].pc \in {"idle", "done"} /\ job'[a].side = "service" /\ job'[a].of = a
  <2>1. CASE Park(a)
    BY <2>1, AnsweredFacts DEF Park, AskersOK, Jobs
  <2>2. CASE Propose(a)
    BY <2>2, Apart DEF Propose, Free, TypeOK, Jobs, Placed, AskersOK, Job
  <2> QED
    BY <2>1, <2>2
<1>2. row[a].status = "absent" /\ (job[a].pc = "idle" \/ job[a].pc = "decide")
  BY Apart DEF Park, Propose, Free, At, AskersOK, Asking
<1>3. /\ row' = [row EXCEPT ![a].status = "pending"]
      /\ UNCHANGED <<settings, device, consent, act, ran>>
  BY DEF Park, Propose, Same
<1>4. /\ row' \in [Actions -> Row]
      /\ row'[a].status = "pending" /\ row'[a].recovered = row[a].recovered
      /\ \A b \in Actions \ {a} : row'[b] = row[b]
  BY <1>3 DEF TypeOK, Row
<1>5. \A l \in Leads : job'[l] = job[l] /\ (job[l].of = a => job[l].pc = "idle")
  BY <1>1, <1>2, Apart DEF LeadsOK, Jobs
<1>6. TypeOK' /\ Placed'
  BY <1>1, <1>3, <1>4 DEF TypeOK, Placed
<1>7. AskersOK'
  <2>1. ASSUME NEW b \in Actions, b # a
        PROVE  /\ job'[b].of = b /\ job'[b].pc \notin {"claim", "record"}
               /\ Asking(b)' => row'[b].status = "absent" /\ settings'.feature
    <3>1. job'[b] = job[b] /\ row'[b] = row[b] /\ settings' = settings
      BY <1>1, <1>3, <1>4, <2>1 DEF Jobs
    <3> QED
      BY <3>1 DEF AskersOK, Asking
  <2>2. job'[a].of = a /\ job'[a].pc \in {"idle", "done"}
    BY <1>1
  <2> QED
    BY <2>1, <2>2 DEF AskersOK, Asking
<1>8. LeadsOK'
  BY <1>4, <1>5, Owns DEF LeadsOK, Working, Jobs, Placed
<1>9. Counted'
  <2>1. ASSUME NEW b \in Actions, b # a, ~row'[b].recovered
        PROVE  ran'[b] < 2 /\ (Unrun(b)' => ran'[b] = 0)
    <3>1. job'[b] = job[b] /\ row'[b] = row[b] /\ ran'[b] = ran[b]
      BY <1>1, <1>3, <1>4, <2>1 DEF Jobs
    <3>2. Unrun(b)' => Unrun(b)
      BY <1>5, <3>1 DEF Unrun
    <3> QED
      BY <2>1, <3>1, <3>2 DEF Counted
  <2>2. ~row[a].recovered => ran[a] = 0
    BY <1>2 DEF Counted, Unrun
  <2> QED
    BY <1>3, <1>4, <2>1, <2>2 DEF Counted
<1> QED
  BY <1>6, <1>7, <1>8, <1>9

LEMMA DispatchRights ==
    ASSUME RightsInv, NEW a \in Actions, Dispatch(a)
    PROVE  RightsInv'
<1> USE DEF RightsInv, Rights
<1>1. /\ job' \in [Jobs -> Job]
      /\ \A k \in Jobs \ {a} : job'[k] = job[k]
      /\ job'[a].pc = "device" /\ job'[a].side = "tool" /\ job'[a].of = job[a].of
      /\ job[a].pc = "decide"
      /\ UNCHANGED <<settings, device, consent, act, row, ran>>
  BY EntersToolFacts DEF Dispatch, Same, At, Jobs
<1>2. TypeOK' /\ Placed'
  BY <1>1 DEF TypeOK, Placed
<1>3. AskersOK'
  BY <1>1, Apart DEF AskersOK, Asking, Jobs
<1>4. \A l \in Leads : job'[l] = job[l]
  BY <1>1, Apart DEF Jobs
<1>5. LeadsOK'
  BY <1>1, <1>4 DEF LeadsOK, Working
<1>6. \A b \in Actions : Unrun(b)' => Unrun(b)
  BY <1>1, <1>4 DEF Unrun, Jobs
<1>7. Counted'
  BY <1>1, <1>6 DEF Counted
<1> QED
  BY <1>2, <1>3, <1>5, <1>7

\* A lead, or the check before the queue, turns down what waits.
LEMMA RejectRights ==
    ASSUME RightsInv, NEW a \in Actions, RejectRow(a),
           job' \in [Jobs -> Job],
           \A k \in Jobs : \/ job'[k] = job[k]
                           \/ /\ k \in Leads /\ job[k].pc # "idle" /\ job'[k].pc = "done"
                              /\ job'[k].side = "service" /\ job'[k].of = job[k].of,
           UNCHANGED <<settings, device, consent, act, ran>>
    PROVE  RightsInv'
<1> USE DEF RightsInv, Rights
<1>1. /\ row' \in [Actions -> Row]
      /\ \A b \in Actions : /\ row'[b].recovered = row[b].recovered
                            /\ \/ row'[b] = row[b]
                               \/ row[b].status = "pending" /\ row'[b].status = "rejected"
  <2>1. CASE row[a].status = "pending"
    <3>1. row' = [row EXCEPT ![a].status = "rejected"]
      BY <2>1 DEF RejectRow
    <3> QED
      BY <2>1, <3>1 DEF TypeOK, Row
  <2>2. CASE row[a].status # "pending"
    BY <2>2 DEF RejectRow, TypeOK
  <2> QED
    BY <2>1, <2>2
<1>2. TypeOK' /\ Placed'
  BY <1>1 DEF TypeOK, Placed
<1>3. \A b \in Actions : job'[b] = job[b]
  BY Apart DEF Jobs
<1>4. AskersOK'
  BY <1>1, <1>3 DEF AskersOK, Asking
<1>5. LeadsOK'
  BY <1>1, Owns DEF LeadsOK, Working, Jobs
<1>6. \A l \in Leads : job'[l].side = "tool" => job'[l] = job[l]
  BY DEF Jobs
<1>7. \A b \in Actions : Unrun(b)' => Unrun(b)
  BY <1>1, <1>3, <1>6 DEF Unrun
<1>8. Counted'
  BY <1>1, <1>7 DEF Counted
<1> QED
  BY <1>2, <1>4, <1>5, <1>8

LEMMA Rejections ==
    ASSUME RightsInv,
           (\E a \in Actions : Reject(a)) \/ (\E l \in Leads : Blocked(l))
    PROVE  RightsInv'
<1>1. ASSUME NEW a \in Actions, Reject(a) PROVE RightsInv'
  BY <1>1, RejectRights DEF Reject, Same, RightsInv, TypeOK
<1>2. ASSUME NEW l \in Leads, Blocked(l) PROVE RightsInv'
  <2>1. PICK a \in Actions : a = job[l].of
    BY DEF RightsInv, TypeOK, Job, Jobs
  <2>2. /\ job' \in [Jobs -> Job]
        /\ \A k \in Jobs \ {l} : job'[k] = job[k]
        /\ job'[l].pc = "done" /\ job'[l].side = "service" /\ job'[l].of = job[l].of
    BY <1>2, AnsweredFacts DEF Blocked, RightsInv, Jobs
  <2> QED
    BY <1>2, <2>1, <2>2, RejectRights DEF Blocked, At, Same
<1> QED
  BY <1>1, <1>2

\* A claim finds the row pending, so nobody is at work on it.
LEMMA ClaimRights ==
    ASSUME RightsInv, NEW l \in Leads, Claim(l)
    PROVE  RightsInv'
<1> USE DEF RightsInv, Rights
<1>0. PICK a \in Actions : a = job[l].of
  BY DEF TypeOK, Job, Jobs
<1>1. /\ job' \in [Jobs -> Job]
      /\ \A k \in Jobs \ {l} : job'[k] = job[k]
      /\ job'[l].of = a
      /\ job'[l].side = "tool" <=> job'[l].pc = "device"
      /\ job'[l].pc \in {"device", "record"}
  BY <1>0, EntersToolFacts, ReportsFacts DEF Claim, Jobs
<1>2. /\ row' \in [Actions -> Row] /\ row[a].status = "pending"
      /\ row'[a].status = "executing" /\ row'[a].recovered = row[a].recovered
      /\ \A b \in Actions \ {a} : row'[b] = row[b]
      /\ UNCHANGED <<settings, device, consent, act, ran>>
  BY <1>0 DEF Claim, Same, TypeOK, Row
<1>3. TypeOK' /\ Placed'
  BY <1>1, <1>2 DEF TypeOK, Placed
<1>4. \A b \in Actions : job'[b] = job[b]
  BY <1>1, Apart DEF Jobs
<1>5. AskersOK'
  BY <1>2, <1>4 DEF AskersOK, Asking
<1>6. \A m \in Leads : m # l => job'[m] = job[m] /\ (Working(m) => job[m].of # a)
  BY <1>1, <1>2 DEF LeadsOK, Jobs
<1>7. LeadsOK'
  BY <1>1, <1>2, <1>6, Owns DEF LeadsOK, Working, Jobs
<1>8. \A b \in Actions : Unrun(b)' => Unrun(b)
  BY <1>1, <1>2, <1>4, <1>6 DEF Unrun, Working
<1>9. Counted'
  BY <1>2, <1>8 DEF Counted
<1> QED
  BY <1>3, <1>5, <1>7, <1>9

\* Only the lead that claimed the row records its outcome.
LEMMA RecordRights ==
    ASSUME RightsInv, NEW l \in Leads, Record(l)
    PROVE  RightsInv'
<1> USE DEF RightsInv, Rights
<1>0. PICK a \in Actions : a = job[l].of
  BY DEF TypeOK, Job, Jobs
<1>1. /\ job' \in [Jobs -> Job]
      /\ \A k \in Jobs \ {l} : job'[k] = job[k]
      /\ job'[l].of = a /\ job'[l].pc = "done" /\ job'[l].side = job[l].side
      /\ job[l].pc = "record"
  BY <1>0 DEF Record, Goto, TypeOK, Job, Jobs
<1>2. PICK s \in {"approved", "failed"} : row' = [row EXCEPT ![a].status = s]
  BY <1>0 DEF Record
<1>3. /\ row' \in [Actions -> Row] /\ row'[a].status = s
      /\ row'[a].recovered = row[a].recovered
      /\ \A b \in Actions \ {a} : row'[b] = row[b]
      /\ UNCHANGED <<settings, device, consent, act, ran>>
  <2>1. UNCHANGED <<settings, device, consent, act, ran>>
    BY DEF Record, Same
  <2> QED
    BY <1>2, <2>1 DEF TypeOK, Row
<1>4. row[a].status = "executing" /\ \A m \in Leads : Working(m) /\ job[m].of = a => m = l
  BY <1>0, <1>1 DEF LeadsOK, Working
<1>5. job[l].side = "service"
  BY <1>1 DEF Placed, Jobs, TypeOK, Job
<1>6. TypeOK' /\ Placed'
  BY <1>1, <1>3, <1>5 DEF TypeOK, Placed
<1>7. \A b \in Actions : job'[b] = job[b]
  BY <1>1, Apart DEF Jobs
<1>8. AskersOK'
  BY <1>3, <1>4, <1>7 DEF AskersOK, Asking
<1>9. LeadsOK'
  BY <1>1, <1>3, <1>4, <1>5, Owns DEF LeadsOK, Working, Jobs
<1>10. \A b \in Actions : Unrun(b)' => Unrun(b)
  BY <1>1, <1>3, <1>4, <1>5, <1>7 DEF Unrun, Working, Jobs
<1>11. Counted'
  BY <1>3, <1>10 DEF Counted
<1> QED
  BY <1>6, <1>8, <1>9, <1>11

\* The call takes effect: it was the right to run, and nobody else has it.
LEMMA EffectRights ==
    ASSUME RightsInv, NEW j \in Jobs, CallIntune(j), ran' # ran
    PROVE  RightsInv'
<1> USE DEF RightsInv, Rights
<1>0. PICK a \in Actions : a = job[j].of
  BY DEF TypeOK, Job
<1>1. job[j].pc = "call" /\ job[j].side = "tool"
  BY DEF CallIntune, Placed
<1>2. /\ job' \in [Jobs -> Job]
      /\ \A k \in Jobs \ {j} : job'[k] = job[k]
      /\ job'[j].pc = (IF j \in Leads THEN "record" ELSE "done")
      /\ job'[j].side = "service" /\ job'[j].of = a
  BY <1>0, ReportsFacts DEF CallIntune
<1>3. ran' = [ran EXCEPT ![a] = IF @ < 2 THEN @ + 1 ELSE @]
  BY <1>0 DEF CallIntune
<1>4. /\ ran' \in [Actions -> 0..2]
      /\ ran[a] = 0 => ran'[a] = 1
      /\ \A b \in Actions \ {a} : ran'[b] = ran[b]
  BY <1>3 DEF TypeOK
<1>5. UNCHANGED <<settings, device, consent, act, row>>
  BY DEF CallIntune, Same
<1>6. TypeOK' /\ Placed'
  BY <1>2, <1>4, <1>5 DEF TypeOK, Placed
<1>7. AskersOK'
  BY <1>0, <1>2, <1>5, Apart DEF AskersOK, Asking, Jobs
<1>8. LeadsOK'
  BY <1>0, <1>1, <1>2, <1>5 DEF LeadsOK, Working, Jobs
<1>9. ~row[a].recovered => ran[a] = 0
  <2>1. CASE j \in Leads
    BY <1>0, <1>1, <2>1 DEF Counted, Unrun
  <2>2. CASE j \in Actions
    BY <1>0, <1>1, <2>2 DEF Counted, Unrun, AskersOK, Asking
  <2> QED
    BY <2>1, <2>2 DEF Jobs
<1>10. ~Unrun(a)'
  <2>1. CASE j \in Leads
    <3>1. row[a].status = "executing"
      BY <1>0, <1>1, <2>1 DEF LeadsOK, Working
    <3>2. \A l \in Leads : ~(job'[l].of = a /\ job'[l].side = "tool")
      BY <1>0, <1>1, <1>2, <2>1 DEF LeadsOK, Working, Jobs
    <3> QED
      BY <1>5, <3>1, <3>2 DEF Unrun
  <2>2. CASE j \in Actions
    <3>1. j = a /\ row[a].status = "absent" /\ job'[a].pc = "done"
      BY <1>0, <1>1, <1>2, <2>2, Apart DEF AskersOK, Asking
    <3>2. \A l \in Leads : ~(job'[l].of = a /\ job'[l].side = "tool")
      BY <1>2, <2>2, <3>1, Apart DEF LeadsOK, Placed, Jobs
    <3> QED
      BY <1>5, <3>1, <3>2 DEF Unrun
  <2> QED
    BY <2>1, <2>2 DEF Jobs
<1>11. \A b \in Actions \ {a} : Unrun(b)' => Unrun(b)
  BY <1>0, <1>2, <1>5, Apart DEF Unrun, Jobs, AskersOK
<1>12. Counted'
  BY <1>4, <1>5, <1>9, <1>10, <1>11 DEF Counted
<1> QED
  BY <1>6, <1>7, <1>8, <1>12

LEMMA WorldFacts ==
    ASSUME TypeOK, Unsettle
    PROVE  /\ job' \in [Jobs -> Job]
           /\ \A j \in Jobs : /\ job'[j].pc = job[j].pc /\ job'[j].side = job[j].side
                              /\ job'[j].of = job[j].of /\ job'[j].may = job[j].may
                              /\ ~InTool(j) => job'[j] = job[j]
                              /\ InTool(j) => job'[j].stale
<1>1. ASSUME NEW j \in Jobs
      PROVE  /\ job'[j] \in Job
             /\ job'[j].pc = job[j].pc /\ job'[j].side = job[j].side
             /\ job'[j].of = job[j].of /\ job'[j].may = job[j].may
             /\ ~InTool(j) => job'[j] = job[j]
             /\ InTool(j) => job'[j].stale
  <2>1. CASE InTool(j)
    <3>1. job[j] \in Job /\ job'[j] = [job[j] EXCEPT !.stale = TRUE]
      BY <2>1 DEF Unsettle, TypeOK
    <3> QED
      BY <2>1, <3>1 DEF Job
  <2>2. CASE ~InTool(j)
    BY <2>2 DEF Unsettle, TypeOK
  <2> QED
    BY <2>1, <2>2
<1>2. job' \in [Jobs -> Job]
  BY <1>1 DEF Unsettle
<1> QED
  BY <1>1, <1>2

LEMMA WorldRights ==
    ASSUME RightsInv, DeviceChanges \/ ConsentChanges
    PROVE  RightsInv'
<1> USE DEF RightsInv, Rights
<1>1. /\ job' \in [Jobs -> Job]
      /\ \A j \in Jobs : /\ job'[j].pc = job[j].pc /\ job'[j].side = job[j].side
                         /\ job'[j].of = job[j].of
      /\ UNCHANGED <<settings, act, row, ran>>
  BY WorldFacts DEF DeviceChanges, ConsentChanges
<1>2. device' \in Device /\ consent' \in [Subjects -> BOOLEAN]
  BY DEF DeviceChanges, ConsentChanges, TypeOK
<1>3. TypeOK' /\ Placed'
  BY <1>1, <1>2 DEF TypeOK, Placed
<1>4. AskersOK'
  BY <1>1 DEF AskersOK, Asking, Jobs
<1>5. LeadsOK'
  BY <1>1 DEF LeadsOK, Working, Jobs
<1>6. Counted'
  BY <1>1 DEF Counted, Unrun, Jobs
<1> QED
  BY <1>3, <1>4, <1>5, <1>6

\* A restart ends every job, and marks the rows that it puts back.
LEMMA RestartFacts ==
    ASSUME TypeOK, Placed, Restart
    PROVE  /\ job' \in [Jobs -> Job]
           /\ \A j \in Jobs :
                 /\ job'[j].of = job[j].of /\ job'[j].side = "service"
                 /\ job'[j].pc \in {"idle", "done", "lost"}
                 /\ job'[j].pc = "idle" => j \in Leads \/ job[j].pc = "idle"
                 /\ job'[j].pc # "idle" => job[j].pc # "idle"
           /\ row' \in [Actions -> Row]
           /\ \A a \in Actions :
                 /\ row[a].status = "executing" => row'[a].recovered /\ row'[a].status = "pending"
                 /\ row[a].status # "executing" => row'[a] = row[a]
<1>1. ASSUME NEW j \in Jobs
      PROVE  /\ job'[j] \in Job
             /\ job'[j].of = job[j].of /\ job'[j].side = "service"
             /\ job'[j].pc \in {"idle", "done", "lost"}
             /\ job'[j].pc = "idle" => j \in Leads \/ job[j].pc = "idle"
             /\ job'[j].pc # "idle" => job[j].pc # "idle"
  <2>1. CASE job[j].pc \in {"idle", "done", "lost"}
    <3>1. job[j] \in Job /\ job'[j] = job[j] /\ job[j].side # "tool"
      BY <2>1 DEF Restart, TypeOK, Placed
    <3> QED
      BY <2>1, <3>1 DEF Job
  <2>2. CASE job[j].pc \notin {"idle", "done", "lost"}
    <3>1. job[j].of \in Actions
      BY DEF TypeOK, Job
    <3>2. PICK p \in {"idle", "lost"} : p = IF j \in Leads THEN "idle" ELSE "lost"
      OBVIOUS
    <3>3. job'[j] = [Fresh(job[j].of) EXCEPT !.pc = p]
      BY <2>2, <3>2 DEF Restart
    <3> QED
      BY <2>2, <3>1, <3>2, <3>3 DEF Fresh, Job
  <2> QED
    BY <2>1, <2>2
<1>2. job' \in [Jobs -> Job]
  BY <1>1 DEF Restart
<1>3. ASSUME NEW a \in Actions
      PROVE  /\ row'[a] \in Row
             /\ row[a].status = "executing" => row'[a].recovered /\ row'[a].status = "pending"
             /\ row[a].status # "executing" => row'[a] = row[a]
  BY DEF Restart, PutBack, TypeOK, Row
<1>4. row' \in [Actions -> Row]
  BY <1>3 DEF Restart
<1> QED
  BY <1>1, <1>2, <1>3, <1>4

LEMMA RestartRights ==
    ASSUME RightsInv, Restart
    PROVE  RightsInv'
<1> USE DEF RightsInv, Rights
<1>1. settings' \in Settings /\ UNCHANGED <<device, consent, act, ran>>
  BY ActionsAssumption DEF Restart
<1>2. TypeOK' /\ Placed'
  BY <1>1, RestartFacts DEF TypeOK, Placed
<1>3. AskersOK'
  BY RestartFacts DEF AskersOK, Asking, Jobs
<1>4. LeadsOK'
  BY RestartFacts, Owns DEF LeadsOK, Working, Jobs
<1>5. Counted'
  BY <1>1, RestartFacts, Apart DEF Counted, Unrun, Jobs
<1> QED
  BY <1>2, <1>3, <1>4, <1>5

LEMMA NextRights ==
    ASSUME RightsInv, [Next]_vars
    PROVE  RightsInv'
<1>1. ASSUME NEW a \in Actions, NEW may \in BOOLEAN,
             Ask(a, may) \/ \E l \in Leads : ApproveDevice(l, a, may) \/ ApproveOps(l, a, may)
      PROVE  RightsInv'
  BY <1>1, Starts
<1>2. ASSUME NEW a \in Actions, Propose(a) \/ Deny(a) \/ Park(a) \/ Dispatch(a) \/ Reject(a)
      PROVE  RightsInv'
  BY <1>2, ParkRights, QuietEnds, DispatchRights, Rejections DEF Jobs
<1>3. ASSUME NEW j \in Jobs, ReadDevice(j) \/ ReadConsent(j) \/ FactsRaise(j)
                             \/ Refuse(j) \/ Clear(j) \/ CallIntune(j)
      PROVE  RightsInv'
  BY <1>3, OnwardRights, QuietEnds, EffectRights
<1>4. ASSUME NEW l \in Leads, Blocked(l) \/ Unblocked(l) \/ Claim(l) \/ TooLate(l) \/ Record(l)
      PROVE  RightsInv'
  BY <1>4, Rejections, UnblockedRights, ClaimRights, QuietEnds, RecordRights DEF Jobs
<1>5. CASE DeviceChanges \/ ConsentChanges \/ Restart
  BY <1>5, WorldRights, RestartRights
<1>6. CASE UNCHANGED vars
  BY <1>6 DEF vars, RightsInv, TypeOK, Placed, Rights, AskersOK, Asking, LeadsOK, Working,
              Counted, Unrun
<1> QED
  BY <1>1, <1>2, <1>3, <1>4, <1>5, <1>6 DEF Next

-----------------------------------------------------------------------------
(* What has been looked at: Cleared and Allowed                             *)

LookedInv == Cleared /\ Allowed

\* Nobody enters the tool, and what those inside rely on stays.
LEMMA NobodyEnters ==
    ASSUME LookedInv,
           \A j \in Jobs : job'[j].side = "tool" => job'[j] = job[j],
           UNCHANGED <<settings, device, consent, act>>
    PROVE  LookedInv'
BY DEF LookedInv, Cleared, Allowed, Looked, Owned, Jobs

LEMMA AnswerLeaves ==
    ASSUME RightsInv, LookedInv, NEW j \in Jobs, UNCHANGED <<settings, device, consent, act>>,
           \/ Answered(j, "none") \/ Answered(j, "denied") \/ Answered(j, "pending_approval")
           \/ Reports(j, "executed") \/ Reports(j, "error")
    PROVE  LookedInv'
<1>1. \A k \in Jobs : job'[k].side = "tool" => job'[k] = job[k]
  BY AnsweredFacts, ReportsFacts DEF RightsInv
<1> QED
  BY <1>1, NobodyEnters

LEMMA StartOutside ==
    ASSUME RightsInv, LookedInv, NEW j \in Jobs, NEW a \in Actions, NEW may \in BOOLEAN,
           NEW pc \in {"device", "claim"}, Start(j, a, may, pc),
           UNCHANGED <<settings, device, consent, act>>
    PROVE  LookedInv'
<1>1. \A k \in Jobs : job'[k].side = "tool" => job'[k] = job[k]
  BY StartFacts DEF RightsInv
<1> QED
  BY <1>1, NobodyEnters

\* Entering the tool, with nothing looked at yet.
LEMMA EntryLooked ==
    ASSUME RightsInv, LookedInv, NEW j \in Jobs, EntersTool(j),
           UNCHANGED <<settings, device, consent, act>>, settings.feature,
           j \in Actions =>
              /\ act[j].risk = "low" \/ (act[j].risk = "medium" /\ settings.medium)
              /\ act[j].clean /\ settings.autonomous /\ job[j].may
    PROVE  LookedInv'
<1>1. /\ \A k \in Jobs \ {j} : job'[k] = job[k]
      /\ job'[j].pc = "device" /\ job'[j].may = job[j].may
  BY EntersToolFacts DEF RightsInv
<1>2. Cleared'
  BY <1>1 DEF LookedInv, Cleared, Jobs
<1>3. ASSUME NEW k \in Jobs, job'[k].side = "tool"
      PROVE  settings'.feature /\ (job'[k].stale \/ settings'.mock \/ Looked(k)')
  <2>1. CASE k = j
    BY <1>1, <2>1 DEF Looked
  <2>2. CASE k # j
    BY <1>1, <1>3, <2>2 DEF LookedInv, Allowed, Looked, Owned
  <2> QED
    BY <2>1, <2>2
<1>4. Allowed'
  BY <1>3 DEF Allowed
<1> QED
  BY <1>2, <1>4 DEF LookedInv

\* What a job in the tool reads is what is.
LEMMA OnwardLooked ==
    ASSUME RightsInv, LookedInv, NEW j \in Jobs, ReadDevice(j) \/ ReadConsent(j) \/ Clear(j)
    PROVE  LookedInv'
<1>0. TypeOK /\ job[j] \in Job /\ device \in Device
  BY DEF RightsInv, TypeOK
<1>1. /\ \A k \in Jobs \ {j} : job'[k] = job[k]
      /\ job'[j].side = job[j].side /\ job'[j].may = job[j].may /\ job'[j].stale = job[j].stale
      /\ UNCHANGED <<settings, device, consent, act>>
  BY <1>0, OnwardFacts
<1>2. Cleared'
  BY <1>1 DEF LookedInv, Cleared, Jobs
<1>3. ASSUME job[j].side = "tool", job[j].stale \/ settings.mock \/ Looked(j)
      PROVE  job[j].stale \/ settings.mock \/ Looked(j)'
  <2>1. CASE ReadDevice(j)
    <3>1. PICK works \in BOOLEAN :
             job' = [job EXCEPT ![j] = [@ EXCEPT !.pc = "consent",
                       !.eligible = works /\ (settings.mock \/ device.managed),
                       !.owner = IF works THEN device.owner ELSE "none"]]
      BY <2>1 DEF ReadDevice
    <3>2. /\ job'[j].pc = "consent"
          /\ job'[j].eligible = (works /\ (settings.mock \/ device.managed))
          /\ job'[j].owner = IF works THEN device.owner ELSE "none"
      BY <1>0, <3>1 DEF TypeOK, Job
    <3>3. settings.mock \/ (job'[j].eligible => device.managed)
      BY <3>2
    <3>4. job'[j].owner \in {"none", device.owner}
      BY <3>2
    <3> QED
      BY <1>1, <3>2, <3>3, <3>4 DEF Looked
  <2>2. CASE ReadConsent(j)
    <3>1. /\ job'[j].pc = "decide" /\ job'[j].eligible = job[j].eligible
          /\ job'[j].consented = (settings.mock \/ Consented(j))
          /\ job[j].pc = "consent"
      BY <1>0, <2>2 DEF ReadConsent, TypeOK, Job
    <3>2. Consented(j) => job[j].owner = "id" /\ consent["owner"]
      BY <1>3 DEF Consented
    <3> QED
      BY <1>1, <1>3, <3>1, <3>2 DEF Looked, Owned
  <2>3. CASE Clear(j)
    <3>1. job'[j].pc = "call" /\ job[j].pc = "decide" /\ job[j].eligible /\ job[j].consented
      BY <1>0, <2>3 DEF Clear, At, Denies, TypeOK, Job
    <3> QED
      BY <1>1, <1>3, <3>1 DEF Looked, Owned
  <2> QED
    BY <2>1, <2>2, <2>3
<1>4. ASSUME NEW k \in Jobs, job'[k].side = "tool"
      PROVE  settings'.feature /\ (job'[k].stale \/ settings'.mock \/ Looked(k)')
  <2>1. CASE k = j
    BY <1>1, <1>3, <1>4, <2>1 DEF LookedInv, Allowed
  <2>2. CASE k # j
    BY <1>1, <1>4, <2>2 DEF LookedInv, Allowed, Looked, Owned
  <2> QED
    BY <2>1, <2>2
<1> QED
  BY <1>2, <1>4 DEF LookedInv, Allowed

\* Whoever had looked is told that its look is stale.
LEMMA WorldLooked ==
    ASSUME RightsInv, LookedInv, DeviceChanges \/ ConsentChanges
    PROVE  LookedInv'
<1>1. /\ \A j \in Jobs : /\ job'[j].pc = job[j].pc /\ job'[j].side = job[j].side
                         /\ job'[j].may = job[j].may
                         /\ ~InTool(j) => job'[j] = job[j]
                         /\ InTool(j) => job'[j].stale
      /\ UNCHANGED <<settings, act>>
  BY WorldFacts DEF DeviceChanges, ConsentChanges, RightsInv
<1>2. Cleared'
  BY <1>1 DEF LookedInv, Cleared, Jobs
<1>3. \A j \in Jobs : job[j].side = "tool" /\ ~InTool(j) => job[j].pc = "device"
  BY DEF RightsInv, Placed, InTool
<1>4. Allowed'
  BY <1>1, <1>3 DEF LookedInv, Allowed, Looked
<1> QED
  BY <1>2, <1>4 DEF LookedInv

LEMMA NextLooked ==
    ASSUME RightsInv, LookedInv, [Next]_vars
    PROVE  LookedInv'
<1> USE DEF Same
<1>1. ASSUME NEW a \in Actions, NEW may \in BOOLEAN,
             Ask(a, may) \/ \E l \in Leads : ApproveDevice(l, a, may) \/ ApproveOps(l, a, may)
      PROVE  LookedInv'
  BY <1>1, StartOutside DEF Ask, ApproveDevice, ApproveOps, Jobs
<1>2. ASSUME NEW a \in Actions, Propose(a) \/ Reject(a)
      PROVE  LookedInv'
  BY <1>2, NobodyEnters DEF Propose, Reject
<1>3. ASSUME NEW a \in Actions, Deny(a) \/ Park(a)
      PROVE  LookedInv'
  BY <1>3, AnswerLeaves DEF Deny, Park, Jobs
<1>4. ASSUME NEW a \in Actions, Dispatch(a)
      PROVE  LookedInv'
  <2>1. settings.feature /\ job[a].of = a
    BY <1>4 DEF Dispatch, At, RightsInv, Rights, AskersOK, Asking
  <2> QED
    BY <1>4, <2>1, EntryLooked DEF Dispatch, Autonomous, Jobs
<1>5. ASSUME NEW j \in Jobs, ReadDevice(j) \/ ReadConsent(j) \/ Clear(j)
      PROVE  LookedInv'
  BY <1>5, OnwardLooked
<1>6. ASSUME NEW j \in Jobs, FactsRaise(j) \/ Refuse(j) \/ CallIntune(j)
      PROVE  LookedInv'
  BY <1>6, AnswerLeaves DEF FactsRaise, Refuse, CallIntune
<1>7. ASSUME NEW l \in Leads, Blocked(l) \/ TooLate(l)
      PROVE  LookedInv'
  BY <1>7, AnswerLeaves DEF Blocked, TooLate, Jobs
<1>8. ASSUME NEW l \in Leads, Unblocked(l)
      PROVE  LookedInv'
  <2>1. job[l].of \in Actions /\ job[l].may \in BOOLEAN
    BY DEF RightsInv, TypeOK, Job, Jobs
  <2> QED
    BY <1>8, <2>1, StartOutside DEF Unblocked, Jobs
<1>9. ASSUME NEW l \in Leads, Claim(l)
      PROVE  LookedInv'
  <2>1. CASE Runs(l)
    BY <1>9, <2>1, Apart, EntryLooked DEF Claim, Runs, Jobs
  <2>2. CASE ~Runs(l)
    BY <1>9, <2>2, AnswerLeaves DEF Claim, Jobs
  <2> QED
    BY <2>1, <2>2
<1>10. ASSUME NEW l \in Leads, Record(l)
       PROVE  LookedInv'
  <2>1. job[l].pc = "record" /\ job' = [job EXCEPT ![l].pc = "done"]
    BY <1>10 DEF Record, Goto
  <2>2. job[l].side # "tool"
    BY <2>1 DEF RightsInv, Placed, Jobs
  <2>3. \A k \in Jobs : job'[k].side = "tool" => job'[k] = job[k]
    BY <2>1, <2>2 DEF RightsInv, TypeOK, Job
  <2> QED
    BY <1>10, <2>3, NobodyEnters DEF Record
<1>11. CASE DeviceChanges \/ ConsentChanges
  BY <1>11, WorldLooked
<1>12. CASE Restart
  <2>1. \A j \in Jobs : job'[j].side # "tool"
    BY <1>12, RestartFacts DEF RightsInv
  <2> QED
    BY <2>1 DEF LookedInv, Cleared, Allowed, Jobs
<1>13. CASE UNCHANGED vars
  BY <1>13, NobodyEnters DEF vars
<1> QED
  BY <1>1, <1>2, <1>3, <1>4, <1>5, <1>6, <1>7, <1>8, <1>9, <1>10, <1>11, <1>12, <1>13 DEF Next

-----------------------------------------------------------------------------
(* The theorems about device actions                                        *)

LEMMA DevicesInit == Init => RightsInv /\ LookedInv
<1> SUFFICES ASSUME Init PROVE RightsInv /\ LookedInv
  OBVIOUS
<1>1. /\ job \in [Jobs -> {Fresh(a) : a \in Actions}]
      /\ \A a \in Actions : job[a].of = a
  BY DEF Init
<1>2. \A j \in Jobs : job[j] \in Job /\ job[j].pc = "idle" /\ job[j].side = "service"
  BY <1>1, FreshFacts
<1>3. TypeOK
  BY <1>1, <1>2, ActionsAssumption DEF Init, TypeOK, Row
<1>4. Placed /\ AskersOK /\ LeadsOK
  BY <1>1, <1>2 DEF Placed, AskersOK, Asking, LeadsOK, Working, Jobs
<1>5. Counted
  BY DEF Init, Counted
<1>6. Cleared /\ Allowed
  BY <1>2 DEF Cleared, Allowed, Jobs
<1> QED
  BY <1>3, <1>4, <1>5, <1>6 DEF RightsInv, Rights, LookedInv

\* The invariant holds throughout.
THEOREM DevicesInvariance == Spec => [](RightsInv /\ LookedInv)
<1>1. (RightsInv /\ LookedInv) /\ [Next]_vars => (RightsInv /\ LookedInv)'
  BY NextRights, NextLooked
<1> QED
  BY <1>1, DevicesInit, PTL DEF Spec

\* Flags, facts, rows and jobs stay within their types.
THEOREM DevicesTypeCorrect == Spec => []TypeOK
<1>1. RightsInv => TypeOK
  BY DEF RightsInv
<1> QED
  BY <1>1, DevicesInvariance, PTL

\* However often an action is proposed and approved, and by whichever route, it
\* takes effect twice only after a restart put its claimed approval back.
THEOREM RepeatNeedsRestart == Spec => []RunsOnceUnlessPutBack
<1>1. RightsInv => RunsOnceUnlessPutBack
  BY DEF RightsInv, Rights, Counted, RunsOnceUnlessPutBack
<1> QED
  BY <1>1, DevicesInvariance, PTL

\* What runs without a lead was within the risk the settings allow, its text
\* was clean, autonomy was on, and its asker might run it, whatever changed or
\* restarted since the policy said so.
THEOREM UnattendedWasCleared == Spec => UnattendedIsCleared
<1>1. RightsInv /\ LookedInv =>
         \A a \in Actions : TakesEffect(a) =>
            /\ act[a].risk = "low" \/ (act[a].risk = "medium" /\ settings.medium)
            /\ act[a].clean /\ settings.autonomous /\ job[a].may
  BY DEF TakesEffect, RightsInv, Placed, LookedInv, Cleared, Jobs
<1> QED
  BY <1>1, DevicesInvariance, PTL DEF Spec, UnattendedIsCleared

\* By every route the tool's own look stands between a request and Intune: the
\* feature is on, and unless the facts changed since that look, or the servers
\* are mocks, the device is managed and its owner consents.
THEOREM EffectWasAllowed == Spec => EffectIsAllowed
<1>1. RightsInv /\ LookedInv =>
         \A j \in Jobs : TakesEffect(j) =>
            /\ settings.feature
            /\ \/ job[j].stale \/ settings.mock
               \/ device.managed /\ device.owner # "none" /\ consent["owner"]
  BY DEF TakesEffect, RightsInv, Placed, LookedInv, Allowed, Looked, Owned
<1> QED
  BY <1>1, DevicesInvariance, PTL DEF Spec, EffectIsAllowed

-----------------------------------------------------------------------------
(* DeviceActions implements AtMostOnce                                      *)

Kept(a) == Right(a)' = Right(a) /\ By(a)' = By(a)
Quiet(a) == Kept(a) \/ (Right(a)' \in Once!After(Right(a)) /\ By(a)' = {})

LEMMA Held ==
    ASSUME RightsInv, RightsInv'
    PROVE  \A a \in Actions, j \in Jobs :
              /\ j \in Holding(a) <=> job[j].of = a /\ job[j].side = "tool"
              /\ j \in Holding(a)' <=> job'[j].of = a /\ job'[j].side = "tool"
BY DEF RightsInv, Placed, Holding

\* The asker and the leads of an action are never in its tool together.
LEMMA OneHolds ==
    ASSUME RightsInv, NEW a \in Actions, NEW j \in Holding(a)
    PROVE  Holding(a) = {j} /\ (~row[a].recovered => ran[a] = 0)
<1>1. j \in Jobs /\ job[j].of = a /\ job[j].side = "tool"
  BY DEF Holding
<1>2. ASSUME NEW k \in Holding(a) PROVE k = j
  <2>1. k \in Jobs /\ job[k].of = a /\ job[k].side = "tool"
    BY DEF Holding
  <2>2. \A b \in Actions : job[b].of = a /\ job[b].side = "tool" =>
           b = a /\ row[a].status = "absent"
    BY DEF RightsInv, Placed, Rights, AskersOK, Asking, Jobs
  <2>3. \A l \in Leads : job[l].of = a /\ job[l].side = "tool" =>
           row[a].status = "executing"
           /\ \A m \in Leads : job[m].of = a /\ job[m].side = "tool" => m = l
    BY DEF RightsInv, Rights, LeadsOK, Working
  <2> QED
    BY <1>1, <2>1, <2>2, <2>3 DEF Jobs
<1>3. ~row[a].recovered => ran[a] = 0
  <2>1. Unrun(a)
    BY <1>1 DEF Unrun, RightsInv, Placed, Rights, AskersOK, Asking, Jobs
  <2> QED
    BY <2>1 DEF RightsInv, Rights, Counted
<1> QED
  BY <1>2, <1>3

\* What lets nobody into the tool and reopens nothing interrupts at most.
LEMMA QuietAction ==
    ASSUME RightsInv, NEW a \in Actions, Holding(a)' \subseteq Holding(a),
           row[a].recovered => row'[a].recovered,
           ~row'[a].recovered /\ Settled(a) => Settled(a)'
    PROVE  Quiet(a)
<1>1. CASE row'[a].recovered
  BY <1>1 DEF Quiet, Kept, Right, By, Once!After
<1>2. CASE ~row'[a].recovered /\ Holding(a) = {}
  BY <1>2 DEF Quiet, Kept, Right, By, Once!After
<1>3. CASE ~row'[a].recovered /\ Holding(a)' = Holding(a) /\ Holding(a) # {}
  BY <1>3 DEF Quiet, Kept, Right, By
<1>4. CASE ~row'[a].recovered /\ Holding(a)' # Holding(a) /\ Holding(a) # {}
  <2>1. Holding(a)' = {}
    BY <1>4, OneHolds
  <2> QED
    BY <1>4, <2>1 DEF Quiet, Right, By, Once!After
<1> QED
  BY <1>1, <1>2, <1>3, <1>4

\* A step in which nobody enters the tool.  A row may be put back; otherwise an
\* approval that was not waiting does not wait again, and an asker that was
\* through stays through.
LEMMA QuietJobs ==
    ASSUME RightsInv, RightsInv', ran' = ran,
           \A j \in Jobs : job'[j].side = "tool" => job[j].side = "tool" /\ job'[j].of = job[j].of,
           \A a \in Actions :
              \/ row'[a].recovered
              \/ /\ row'[a].recovered = row[a].recovered
                 /\ row[a].status \notin {"absent", "pending"} =>
                       row'[a].status \notin {"absent", "pending"}
                 /\ row[a].status = "absent" /\ job[a].pc \in {"done", "lost"} =>
                       row'[a].status = "absent" /\ job'[a].pc \in {"done", "lost"}
    PROVE  Once!Next
<1>1. \A a \in Actions : Holding(a)' \subseteq Holding(a)
  <2>1. \A a \in Actions : Holding(a)' \subseteq Jobs
    BY DEF Holding, Jobs
  <2> QED
    BY <2>1, Held
<1>2. \A a \in Actions : ~row'[a].recovered /\ Settled(a) => Settled(a)'
  BY DEF Settled
<1>3. \A a \in Actions : Quiet(a)
  BY <1>1, <1>2, QuietAction
<1>4. \A a \in Actions : Right(a)' \in Once!Rights /\ By(a)' \in SUBSET Jobs
  BY DEF Right, By, Holding, Once!Rights, Jobs
<1>5. Once!Interrupt
  BY <1>3, <1>4 DEF Once!Interrupt, Quiet, Kept
<1> QED
  BY <1>5 DEF Once!Next

\* One job enters the tool of an action that nobody holds and that is not settled.
LEMMA EntryTakes ==
    ASSUME RightsInv, RightsInv', ran' = ran, NEW a \in Actions, NEW j \in Jobs,
           job[j].of = a, job[j].side # "tool", EntersTool(j),
           row'[a].recovered = row[a].recovered,
           \A b \in Actions \ {a} : row'[b] = row[b],
           \/ row[a].status = "pending" /\ j \in Leads
           \/ row[a].status = "absent" /\ j = a /\ job[a].pc = "decide"
    PROVE  Once!Next
<1>1. /\ \A k \in Jobs \ {j} : job'[k] = job[k]
      /\ job'[j].of = a /\ job'[j].side = "tool"
  BY EntersToolFacts DEF RightsInv
<1>2. Holding(a) = {}
  <2>1. \A k \in Actions : ~(job[k].of = a /\ job[k].side = "tool")
    BY DEF RightsInv, Rights, AskersOK, Asking, Placed, Jobs
  <2>2. \A k \in Leads : ~(job[k].of = a /\ job[k].side = "tool")
    BY DEF RightsInv, Rights, LeadsOK, Working
  <2> QED
    BY <2>1, <2>2 DEF Holding, Jobs
<1>3. Holding(a)' = {j}
  <2>1. \A k \in Jobs : k \in Holding(a)' <=> k = j
    BY <1>1, <1>2, Held
  <2>2. Holding(a)' \subseteq Jobs
    BY DEF Holding, Jobs
  <2> QED
    BY <2>1, <2>2
<1>4. \A b \in Actions \ {a} : Holding(b)' = Holding(b)
  <2>1. \A b \in Actions \ {a} : \A k \in Jobs : k \in Holding(b)' <=> k \in Holding(b)
    BY <1>1, Held
  <2>2. \A b \in Actions : Holding(b)' \subseteq Jobs /\ Holding(b) \subseteq Jobs
    BY DEF Holding, Jobs
  <2> QED
    BY <2>1, <2>2
<1>5. \A b \in Actions \ {a} : Settled(b)' = Settled(b)
  BY <1>1, Apart DEF Settled, Jobs
<1>6. \A b \in Actions \ {a} : Kept(b)
  BY <1>4, <1>5 DEF Kept, Right, By
<1>7. CASE row[a].recovered
  <2>1. Kept(a)
    BY <1>7 DEF Kept, Right, By
  <2>2. \A b \in Actions : Right(b)' \in Once!Rights /\ By(b)' \in SUBSET Jobs
    BY DEF Right, By, Holding, Once!Rights, Jobs
  <2>3. Once!Interrupt
    BY <1>6, <2>1, <2>2 DEF Once!Interrupt, Kept
  <2> QED
    BY <2>3 DEF Once!Next
<1>8. CASE ~row[a].recovered
  <2>1. ~Settled(a)
    BY DEF Settled
  <2>2. Right(a) = "free" /\ Right(a)' = "taken" /\ By(a)' = {j}
    BY <1>2, <1>3, <1>8, <2>1 DEF Right, By
  <2>3. Once!Take(a, j)
    BY <1>6, <2>2 DEF Once!Take, Kept
  <2> QED
    BY <2>3 DEF Once!Next
<1> QED
  BY <1>7, <1>8

\* The effect uses the right up, or repeats what a restart made repeatable.
LEMMA EffectUses ==
    ASSUME RightsInv, RightsInv', NEW j \in Jobs, CallIntune(j), ran' # ran
    PROVE  Once!Next
<1>0. PICK a \in Actions : a = job[j].of
  BY DEF RightsInv, TypeOK, Job
<1>1. job[j].side = "tool" /\ row' = row
  BY DEF CallIntune, RightsInv, Placed
<1>2. /\ \A k \in Jobs \ {j} : job'[k] = job[k]
      /\ job'[j].pc = (IF j \in Leads THEN "record" ELSE "done")
      /\ job'[j].side = "service" /\ job'[j].of = a
  BY <1>0, ReportsFacts DEF CallIntune, RightsInv
<1>3. ran' = [ran EXCEPT ![a] = @ + 1]
  <2>1. ran' = [ran EXCEPT ![a] = IF @ < 2 THEN @ + 1 ELSE @]
    BY <1>0 DEF CallIntune
  <2>2. ran[a] < 2
    BY <2>1 DEF RightsInv, TypeOK
  <2> QED
    BY <2>1, <2>2
<1>4. \A b \in Actions : Holding(b)' \subseteq Jobs /\ Holding(b) \subseteq Jobs
  BY DEF Holding, Jobs
<1>5. \A b \in Actions \ {a} : Holding(b)' = Holding(b)
  <2>1. \A b \in Actions \ {a} : \A k \in Jobs : k \in Holding(b)' <=> k \in Holding(b)
    BY <1>0, <1>2, Held
  <2> QED
    BY <1>4, <2>1
<1>6. \A b \in Actions \ {a} : job'[b] = job[b]
  BY <1>0, <1>2 DEF RightsInv, Rights, AskersOK, Jobs
<1>7. \A b \in Actions \ {a} : Kept(b)
  BY <1>1, <1>5, <1>6 DEF Kept, Right, By, Settled
<1>8. CASE row[a].recovered
  <2>1. Kept(a) /\ Right(a) = "lost"
    BY <1>1, <1>8 DEF Kept, Right, By
  <2>2. Once!Repeat(a)
    BY <1>3, <1>7, <2>1 DEF Once!Repeat, Kept
  <2> QED
    BY <2>2 DEF Once!Next
<1>9. CASE ~row[a].recovered
  <2>1. Holding(a) = {j}
    <3>1. j \in Holding(a)
      BY <1>0, <1>1, Held
    <3> QED
      BY <3>1, OneHolds
  <2>2. Holding(a)' = {}
    <3>1. \A k \in Jobs : k \notin Holding(a)'
      BY <1>2, <2>1, Held
    <3> QED
      BY <1>4, <3>1
  <2>3. Settled(a)'
    <3>1. CASE j \in Leads
      <4>1. row[a].status = "executing"
        BY <1>0, <1>1, <3>1 DEF RightsInv, Rights, LeadsOK, Working
      <4> QED
        BY <1>1, <4>1 DEF Settled
    <3>2. CASE j \in Actions
      <4>1. j = a /\ row[a].status = "absent" /\ job'[a].pc = "done"
        BY <1>0, <1>1, <1>2, <3>2, Apart DEF RightsInv, Rights, AskersOK, Asking, Placed
      <4> QED
        BY <1>1, <4>1 DEF Settled
    <3> QED
      BY <3>1, <3>2 DEF Jobs
  <2>4. Right(a) = "taken" /\ By(a) = {j} /\ Right(a)' = "spent" /\ By(a)' = {}
    BY <1>1, <1>9, <2>1, <2>2, <2>3 DEF Right, By
  <2>5. Once!Use(a, j)
    BY <1>3, <1>7, <2>4 DEF Once!Use, Kept
  <2> QED
    BY <2>5 DEF Once!Next
<1> QED
  BY <1>8, <1>9

\* A job that goes on, ends or starts, with the rows left alone.
LEMMA QuietWork ==
    ASSUME RightsInv, RightsInv', UNCHANGED <<row, ran>>, NEW j \in Jobs,
           \A k \in Jobs \ {j} : job'[k] = job[k],
           \/ job'[j].side = "service"
           \/ job'[j].side = job[j].side /\ job'[j].of = job[j].of,
           j \in Leads \/ job[j].pc \notin {"done", "lost"} \/ job'[j].pc = "done"
    PROVE  Once!Next
<1>1. \A k \in Jobs : job'[k].side = "tool" => job[k].side = "tool" /\ job'[k].of = job[k].of
  OBVIOUS
<1>2. \A a \in Actions : job[a].pc \in {"done", "lost"} => job'[a].pc \in {"done", "lost"}
  BY Apart DEF Jobs
<1> QED
  BY <1>1, <1>2, QuietJobs

LEMMA NextOnce ==
    ASSUME RightsInv, RightsInv', [Next]_vars
    PROVE  Once!Next
<1>0. TypeOK
  BY DEF RightsInv
<1>1. ASSUME NEW a \in Actions, NEW may \in BOOLEAN, Ask(a, may)
      PROVE  Once!Next
  <2>1. job[a].pc = "idle" /\ UNCHANGED <<row, ran>>
    BY <1>1, Apart DEF Ask, Free
  <2>2. /\ \A k \in Jobs \ {a} : job'[k] = job[k]
        /\ job'[a].side = "service"
    BY <1>0, <1>1, StartFacts DEF Ask, Jobs
  <2> QED
    BY <2>1, <2>2, QuietWork DEF Jobs
<1>2. ASSUME NEW l \in Leads, NEW a \in Actions, NEW may \in BOOLEAN,
             ApproveDevice(l, a, may) \/ ApproveOps(l, a, may) \/ Unblocked(l)
      PROVE  Once!Next
  <2>1. job[l].of \in Actions /\ job[l].may \in BOOLEAN /\ UNCHANGED <<row, ran>>
    BY <1>0, <1>2 DEF TypeOK, Job, Jobs, ApproveDevice, ApproveOps, Unblocked
  <2>2. /\ \A k \in Jobs \ {l} : job'[k] = job[k]
        /\ job'[l].side = "service"
    BY <1>0, <1>2, <2>1, StartFacts DEF ApproveDevice, ApproveOps, Unblocked, Jobs
  <2> QED
    BY <2>1, <2>2, QuietWork DEF Jobs
<1>3. ASSUME NEW j \in Jobs, ReadDevice(j) \/ ReadConsent(j) \/ Clear(j)
      PROVE  Once!Next
  <2>1. /\ \A k \in Jobs \ {j} : job'[k] = job[k]
        /\ job'[j].side = job[j].side /\ job'[j].of = job[j].of
        /\ job[j].pc \notin {"done", "lost"} /\ UNCHANGED <<row, ran>>
    BY <1>0, <1>3, OnwardFacts
  <2> QED
    BY <2>1, QuietWork
<1>4. ASSUME NEW j \in Jobs, FactsRaise(j) \/ Refuse(j) \/ (CallIntune(j) /\ ran' = ran)
      PROVE  Once!Next
  <2>1. Reports(j, "executed") \/ Reports(j, "error") \/ Answered(j, "none")
    BY <1>4 DEF FactsRaise, Refuse, CallIntune
  <2>2. job[j].pc \notin {"done", "lost"} /\ UNCHANGED <<row, ran>>
    BY <1>4 DEF FactsRaise, Refuse, CallIntune, At
  <2>3. (\A k \in Jobs \ {j} : job'[k] = job[k]) /\ job'[j].side = "service"
    BY <1>0, <2>1, ReportsFacts, AnsweredFacts
  <2> QED
    BY <2>2, <2>3, QuietWork
<1>5. ASSUME NEW j \in Jobs, CallIntune(j), ran' # ran
      PROVE  Once!Next
  BY <1>5, EffectUses
<1>6. ASSUME NEW j \in Jobs, Deny(j) \/ (j \in Leads /\ TooLate(j))
      PROVE  Once!Next
  <2>1. job[j].pc \notin {"done", "lost"} /\ UNCHANGED <<row, ran>>
    BY <1>6 DEF Deny, TooLate, At
  <2>2. (\A k \in Jobs \ {j} : job'[k] = job[k]) /\ job'[j].side = "service"
    BY <1>0, <1>6, AnsweredFacts DEF Deny, TooLate
  <2> QED
    BY <2>1, <2>2, QuietWork
<1>7. ASSUME NEW a \in Actions, Park(a) \/ Propose(a)
      PROVE  Once!Next
  <2>1. /\ row[a].status = "absent" /\ job[a].pc \notin {"done", "lost"}
        /\ row' = [row EXCEPT ![a].status = "pending"] /\ ran' = ran
    BY <1>7, Apart DEF Park, Propose, Free, At, RightsInv, Rights, AskersOK, Asking
  <2>2. \A k \in Jobs : \/ job'[k] = job[k]
                        \/ k = a /\ job'[k].side = "service" /\ job'[k].pc = "done"
    BY <1>0, <1>7, AnsweredFacts DEF Park, Propose, Jobs
  <2>3. \A k \in Jobs : job'[k].side = "tool" => job[k].side = "tool" /\ job'[k].of = job[k].of
    BY <2>2
  <2>4. \A b \in Actions : /\ row'[b].recovered = row[b].recovered
                           /\ b # a => row'[b] = row[b] /\ job'[b] = job[b]
    BY <1>0, <2>1, <2>2 DEF TypeOK, Row, Jobs
  <2> QED
    BY <2>1, <2>3, <2>4, QuietJobs
<1>8. ASSUME NEW a \in Actions, Dispatch(a)
      PROVE  Once!Next
  <2>1. /\ job[a].of = a /\ job[a].side # "tool" /\ job[a].pc = "decide"
        /\ row[a].status = "absent" /\ EntersTool(a) /\ row' = row /\ ran' = ran
    BY <1>8 DEF Dispatch, At, RightsInv, Rights, AskersOK, Asking
  <2> QED
    BY <2>1, EntryTakes DEF Jobs
<1>9. ASSUME NEW a \in Actions, RejectRow(a), ran' = ran,
             \A k \in Jobs : job'[k] = job[k] \/ (k \in Leads /\ job'[k].side = "service")
      PROVE  Once!Next
  <2>1. \A b \in Actions : /\ row'[b].recovered = row[b].recovered
                           /\ \/ row'[b] = row[b]
                              \/ row[b].status = "pending" /\ row'[b].status = "rejected"
    <3>1. CASE row[a].status = "pending"
      <4>1. row' = [row EXCEPT ![a].status = "rejected"]
        BY <1>9, <3>1 DEF RejectRow
      <4> QED
        BY <1>0, <3>1, <4>1 DEF TypeOK, Row
    <3>2. CASE row[a].status # "pending"
      BY <1>9, <3>2 DEF RejectRow
    <3> QED
      BY <3>1, <3>2
  <2>2. \A b \in Actions : job'[b] = job[b]
    BY <1>9, Apart DEF Jobs
  <2>3. \A k \in Jobs : job'[k].side = "tool" => job[k].side = "tool" /\ job'[k].of = job[k].of
    BY <1>9
  <2> QED
    BY <1>9, <2>1, <2>2, <2>3, QuietJobs
<1>10. ASSUME NEW a \in Actions, Reject(a) PROVE Once!Next
  BY <1>9, <1>10 DEF Reject
<1>11. ASSUME NEW l \in Leads, Blocked(l) PROVE Once!Next
  <2>1. PICK a \in Actions : a = job[l].of
    BY <1>0 DEF TypeOK, Job, Jobs
  <2>2. (\A k \in Jobs \ {l} : job'[k] = job[k]) /\ job'[l].side = "service"
    BY <1>0, <1>11, AnsweredFacts DEF Blocked, Jobs
  <2> QED
    BY <1>9, <1>11, <2>1, <2>2 DEF Blocked
<1>12. ASSUME NEW l \in Leads, Claim(l) PROVE Once!Next
  <2>1. PICK a \in Actions : a = job[l].of
    BY <1>0 DEF TypeOK, Job, Jobs
  <2>2. /\ row[a].status = "pending" /\ job[l].side # "tool" /\ ran' = ran
        /\ row'[a].recovered = row[a].recovered /\ row'[a].status = "executing"
        /\ \A b \in Actions \ {a} : row'[b] = row[b]
    BY <1>0, <1>12, <2>1 DEF Claim, RightsInv, Placed, TypeOK, Row, Jobs
  <2>3. CASE Runs(l)
    <3>1. EntersTool(l)
      BY <1>12, <2>3 DEF Claim
    <3> QED
      BY <2>1, <2>2, <3>1, EntryTakes DEF Jobs
  <2>4. CASE ~Runs(l)
    <3>1. (\A k \in Jobs \ {l} : job'[k] = job[k]) /\ job'[l].side = "service"
      BY <1>0, <1>12, <2>4, ReportsFacts DEF Claim, Jobs
    <3>2. \A k \in Jobs : job'[k].side = "tool" => job[k].side = "tool" /\ job'[k].of = job[k].of
      BY <3>1
    <3>3. \A b \in Actions : job'[b] = job[b]
      BY <3>1, Apart DEF Jobs
    <3> QED
      BY <2>2, <3>2, <3>3, QuietJobs
  <2> QED
    BY <2>3, <2>4
<1>13. ASSUME NEW l \in Leads, Record(l) PROVE Once!Next
  <2>1. PICK a \in Actions : a = job[l].of
    BY <1>0 DEF TypeOK, Job, Jobs
  <2>2. PICK s \in {"approved", "failed"} : row' = [row EXCEPT ![a].status = s]
    BY <1>13, <2>1 DEF Record
  <2>3. row[a].status = "executing" /\ ran' = ran
    BY <1>13, <2>1 DEF Record, RightsInv, Rights, LeadsOK, Working
  <2>4. \A b \in Actions : /\ row'[b].recovered = row[b].recovered
                           /\ b # a => row'[b] = row[b]
                           /\ b = a => row'[b].status = s
    BY <1>0, <2>2 DEF TypeOK, Row
  <2>5. \A k \in Jobs : job'[k].side = job[k].side /\ job'[k].of = job[k].of
    BY <1>0, <1>13 DEF Record, Goto, TypeOK, Job
  <2>6. \A b \in Actions : job'[b] = job[b]
    BY <1>0, <1>13, Apart DEF Record, Goto, TypeOK, Jobs
  <2> QED
    BY <2>3, <2>4, <2>5, <2>6, QuietJobs
<1>14. CASE DeviceChanges \/ ConsentChanges
  <2>1. /\ \A j \in Jobs : /\ job'[j].pc = job[j].pc /\ job'[j].side = job[j].side
                           /\ job'[j].of = job[j].of
        /\ UNCHANGED <<row, ran>>
    BY <1>0, <1>14, WorldFacts DEF DeviceChanges, ConsentChanges
  <2> QED
    BY <2>1, QuietJobs DEF Jobs
<1>15. CASE Restart
  <2>1. ran' = ran /\ \A j \in Jobs : job'[j].side # "tool"
    BY <1>0, <1>15, RestartFacts DEF Restart, RightsInv
  <2>2. \A a \in Actions : row'[a].recovered \/ row'[a] = row[a]
    BY <1>0, <1>15, RestartFacts DEF RightsInv
  <2>3. \A a \in Actions : job[a].pc \in {"done", "lost"} => job'[a].pc \in {"done", "lost"}
    BY <1>0, <1>15, RestartFacts, Apart DEF RightsInv, Jobs
  <2> QED
    BY <2>1, <2>2, <2>3, QuietJobs
<1>16. CASE UNCHANGED vars
  BY <1>16, QuietJobs DEF vars
<1>17. ASSUME NEW a \in Actions,
              Propose(a) \/ Deny(a) \/ Park(a) \/ Dispatch(a) \/ Reject(a)
       PROVE  Once!Next
  BY <1>17, <1>6, <1>7, <1>8, <1>10 DEF Jobs
<1>18. ASSUME NEW j \in Jobs, ReadDevice(j) \/ ReadConsent(j) \/ FactsRaise(j)
                              \/ Refuse(j) \/ Clear(j) \/ CallIntune(j)
       PROVE  Once!Next
  BY <1>18, <1>3, <1>4, <1>5
<1>19. ASSUME NEW l \in Leads,
              Blocked(l) \/ Unblocked(l) \/ Claim(l) \/ TooLate(l) \/ Record(l)
       PROVE  Once!Next
  <2>1. Actions # {}
    BY <1>0 DEF TypeOK, Job, Jobs
  <2> QED
    BY <1>19, <2>1, <1>2, <1>6, <1>11, <1>12, <1>13 DEF Jobs
<1> QED
  BY <1>1, <1>2, <1>14, <1>15, <1>16, <1>17, <1>18, <1>19 DEF Next

\* Dispatch at once, the queue and both approval routes share one right to run
\* an action, as AtMostOnce has it.
THEOREM DevicesImplementAtMostOnce == Spec => ActsAtMostOnce
<1>1. Init => Once!Init
  <2> SUFFICES ASSUME Init PROVE Once!Init
    OBVIOUS
  <2>1. \A j \in Jobs : job[j].pc = "idle" /\ job[j].side = "service"
    BY FreshFacts DEF Init
  <2>2. \A a \in Actions : Holding(a) = {} /\ ~Settled(a)
    BY <2>1 DEF Init, Holding, Settled, Jobs
  <2>3. \A a \in Actions : Right(a) = "free" /\ By(a) = {}
    BY <2>2 DEF Init, Right, By
  <2> QED
    BY <2>3 DEF Init, Once!Init
<1>2. RightsInv /\ RightsInv' /\ [Next]_vars => [Once!Next]_(Once!once)
  BY NextOnce
<1> QED
  BY <1>1, <1>2, DevicesInvariance, PTL DEF Spec, ActsAtMostOnce, Once!Spec
=============================================================================
