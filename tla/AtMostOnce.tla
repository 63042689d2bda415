----------------------------- MODULE AtMostOnce -----------------------------
(***************************************************************************)
(* What the claims of this system promise a piece of work: one holder at a *)
(* time has the right to do it, and to do it uses the right up.  What was  *)
(* interrupted may be free again only if it was not done, unless that can  *)
(* no longer be told: such a work is lost to the promise and may be done   *)
(* again.                                                                  *)
(***************************************************************************)
EXTENDS Naturals

CONSTANTS Works, Holders

VARIABLES
    right,  \* right[w]: the right to do w
    by,     \* by[w]: who has it
    done    \* done[w]: the times w was done

once == <<right, by, done>>

Rights == {"free", "taken", "spent", "lost"}

Init ==
    /\ right = [w \in Works |-> "free"]
    /\ by = [w \in Works |-> {}]
    /\ done = [w \in Works |-> 0]

Take(w, h) ==
    /\ right[w] = "free"
    /\ right' = [right EXCEPT ![w] = "taken"]
    /\ by' = [by EXCEPT ![w] = {h}]
    /\ UNCHANGED done

Use(w, h) ==
    /\ right[w] = "taken" /\ by[w] = {h}
    /\ \E x \in {"spent", "lost"} : right' = [right EXCEPT ![w] = x]
    /\ by' = [by EXCEPT ![w] = {}]
    /\ done' = [done EXCEPT ![w] = @ + 1]

\* Where an interruption leaves a right; what is spent is never free again.
After(x) ==
    CASE x \in {"free", "taken"} -> {"free", "spent", "lost"}
      [] x = "spent" -> {"spent", "lost"}
      [] x = "lost" -> {"lost"}

\* A holder gives up, or fails, or a failure or a restart meets several.
Interrupt ==
    /\ right' \in [Works -> Rights] /\ by' \in [Works -> SUBSET Holders]
    /\ \A w \in Works :
          \/ right'[w] = right[w] /\ by'[w] = by[w]
          \/ right'[w] \in After(right[w]) /\ by'[w] = {}
    /\ UNCHANGED done

Repeat(w) ==
    /\ right[w] = "lost"
    /\ done' = [done EXCEPT ![w] = @ + 1]
    /\ UNCHANGED <<right, by>>

Next ==
    \/ \E w \in Works : Repeat(w) \/ \E h \in Holders : Take(w, h) \/ Use(w, h)
    \/ Interrupt

Spec == Init /\ [][Next]_once
=============================================================================
