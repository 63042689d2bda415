--------------------------- MODULE ScheduledReport ---------------------------
(***************************************************************************)
(* The monthly report (services/reporting/scheduled_report.py): every      *)
(* replica of the API looks once a day, from a day of the month on, whether *)
(* the report of the month before has been mailed, and mails it if not.    *)
(*                                                                         *)
(* The claim of a month is a row of its own, committed before the report   *)
(* is built and sent; the outcome is committed after.  A replica may stop  *)
(* between any two of these commits, and a send may raise although the     *)
(* mail server has taken the message.                                      *)
(***************************************************************************)
EXTENDS Naturals

CONSTANTS
    Replicas,   \* processes that run the scheduler
    LastMonth,  \* bound on the months that pass
    None        \* no lock

ASSUME ReportAssumption == LastMonth \in Nat \ {0} /\ None \notin Replicas

VARIABLES
    month,     \* the month whose report is due
    open,      \* the day of the month has come (should_send)
    period,    \* period[m]: status of the scheduled_report_runs row of m
    lock,      \* lock[m]: the replica whose select holds that row
    run,       \* run[r]: where the pass of r is, and its month
    copies,    \* copies[m]: times the report of m was mailed, up to two
    doubtful   \* doubtful[m]: a send of m raised after the mail was taken

reportVars == <<month, open, period, lock, run, copies, doubtful>>

Months == 1..LastMonth
Statuses == {"none", "sending", "sent", "failed"}
Pcs == {"idle", "look", "insert", "claim", "build", "send", "finish", "fail"}

ReportTypeOK ==
    /\ month \in Months
    /\ open \in BOOLEAN
    /\ period \in [Months -> Statuses]
    /\ lock \in [Months -> Replicas \cup {None}]
    /\ run \in [Replicas -> [pc : Pcs, for : Months \cup {0}]]
    /\ copies \in [Months -> 0..2]
    /\ doubtful \in [Months -> BOOLEAN]

Idle == [pc |-> "idle", for |-> 0]

ReportInit ==
    /\ month = 1
    /\ open = FALSE
    /\ period = [m \in Months |-> "none"]
    /\ lock = [m \in Months |-> None]
    /\ run = [r \in Replicas |-> Idle]
    /\ copies = [m \in Months |-> 0]
    /\ doubtful = [m \in Months |-> FALSE]

For(r) == run[r].for
Moves(r, pc) == run' = [run EXCEPT ![r] = [pc |-> pc, for |-> For(r)]]
Done(r) == run' = [run EXCEPT ![r] = Idle]

\* The daily pass works for the month that is due when it starts, however long
\* it takes.
Pass(r) ==
    /\ run[r].pc = "idle" /\ open
    /\ run' = [run EXCEPT ![r] = [pc |-> "look", for |-> month]]
    /\ UNCHANGED <<month, open, period, lock, copies, doubtful>>

\* Mutant: the row is read without FOR UPDATE.
LookUnlocked(r) ==
    /\ run[r].pc = "look"
    /\ CASE period[For(r)] = "none" -> Moves(r, "insert")
         [] period[For(r)] = "failed" -> Moves(r, "claim")
         [] OTHER -> Done(r)
    /\ UNCHANGED <<month, open, period, lock, copies, doubtful>>

\* _claim_period: the select waits for the lock of the row, if there is one.
Look(r) ==
    /\ run[r].pc = "look" /\ lock[For(r)] = None
    /\ \/ period[For(r)] = "none" /\ Moves(r, "insert") /\ UNCHANGED lock
       \/ period[For(r)] = "failed" /\ Moves(r, "claim") /\ lock' = [lock EXCEPT ![For(r)] = r]
       \/ period[For(r)] \in {"sending", "sent"} /\ Done(r) /\ UNCHANGED lock
    /\ UNCHANGED <<month, open, period, copies, doubtful>>

\* The unique index admits the first row of a month.
Insert(r) ==
    /\ run[r].pc = "insert"
    /\ \/ /\ period[For(r)] = "none"
          /\ period' = [period EXCEPT ![For(r)] = "sending"]
          /\ Moves(r, "build")
       \/ period[For(r)] # "none" /\ Done(r) /\ UNCHANGED period
    /\ UNCHANGED <<month, open, lock, copies, doubtful>>

Reclaim(r) ==
    /\ run[r].pc = "claim"
    /\ period' = [period EXCEPT ![For(r)] = "sending"]
    /\ lock' = [lock EXCEPT ![For(r)] = None]
    /\ Moves(r, "build")
    /\ UNCHANGED <<month, open, copies, doubtful>>

\* The report is built, or building it raises.
Build(r) ==
    /\ run[r].pc = "build"
    /\ Moves(r, "send") \/ Moves(r, "fail")
    /\ UNCHANGED <<month, open, period, lock, copies, doubtful>>

Mailed(m) == copies' = [copies EXCEPT ![m] = IF @ < 2 THEN @ + 1 ELSE @]

Send(r) ==
    /\ run[r].pc = "send"
    /\ \/ Mailed(For(r)) /\ Moves(r, "finish") /\ UNCHANGED doubtful
       \/ Moves(r, "fail") /\ UNCHANGED <<copies, doubtful>>
       \/ /\ Mailed(For(r))
          /\ Moves(r, "fail")
          /\ doubtful' = [doubtful EXCEPT ![For(r)] = TRUE]
    /\ UNCHANGED <<month, open, period, lock>>

Finish(r) ==
    /\ run[r].pc = "finish"
    /\ period' = [period EXCEPT ![For(r)] = "sent"]
    /\ Done(r)
    /\ UNCHANGED <<month, open, lock, copies, doubtful>>

Fail(r) ==
    /\ run[r].pc = "fail"
    /\ period' = [period EXCEPT ![For(r)] = "failed"]
    /\ Done(r)
    /\ UNCHANGED <<month, open, lock, copies, doubtful>>

\* A pass ends where it is, and its transaction with it: the process dies, a
\* commit is refused or its answer lost, or a query of the report fails, after
\* which the transaction takes no "failed" either.
Stop(r) ==
    /\ run[r].pc # "idle"
    /\ Done(r)
    /\ lock' = [m \in Months |-> IF lock[m] = r THEN None ELSE lock[m]]
    /\ UNCHANGED <<month, open, period, copies, doubtful>>

\* The day comes, or the month ends.
Calendar ==
    /\ \/ ~open /\ open' = TRUE /\ UNCHANGED month
       \/ open /\ month < LastMonth /\ open' = FALSE /\ month' = month + 1
    /\ UNCHANGED <<period, lock, run, copies, doubtful>>

Step(r) ==
    \/ Pass(r) \/ Look(r) \/ Insert(r) \/ Reclaim(r) \/ Build(r)
    \/ Send(r) \/ Finish(r) \/ Fail(r) \/ Stop(r)

ReportNext == Calendar \/ \E r \in Replicas : Step(r)

ReportSpec == ReportInit /\ [][ReportNext]_reportVars

-----------------------------------------------------------------------------
\* "Exactly one successful send per month, across any number of replicas": a
\* report is mailed a second time only when a send raised after the mail had
\* been taken, and a month that says "sent" was mailed, whoever overlaps or
\* stops on the way.
MailedOnce ==
    \A m \in Months :
        /\ copies[m] <= 1 \/ doubtful[m]
        /\ period[m] = "sent" => copies[m] > 0

\* The replicas that have claimed m and not yet sent it or given up.
Sending(m) == {r \in Replicas : run[r].pc \in {"build", "send", "fail"} /\ For(r) = m}

\* No row, or a failed one, is the right to send, unless a send may have failed
\* after the mail was taken.
SendRight(m) ==
    CASE doubtful[m] -> "lost"
      [] ~doubtful[m] /\ Sending(m) # {} -> "taken"
      [] ~doubtful[m] /\ Sending(m) = {} ->
            IF period[m] \in {"none", "failed"} THEN "free" ELSE "spent"

SentBy(m) == IF doubtful[m] THEN {} ELSE Sending(m)

Mails == INSTANCE AtMostOnce WITH
    Works <- Months, Holders <- Replicas,
    right <- [m \in Months |-> SendRight(m)],
    by <- [m \in Months |-> SentBy(m)],
    done <- copies

\* The claim of a month keeps the promise of AtMostOnce: one replica at a time
\* may send, a claimant that stops keeps the month from everybody, and it is
\* free again only for a send that failed (_claim_period, _run_once).
MailsAtMostOnce == Mails!Spec
=============================================================================
