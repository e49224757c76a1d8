------------------------------- MODULE StepCalls -------------------------------
(***************************************************************************)
(* What a step executor with a time limit promises to its caller: calls    *)
(* are made one after the other, every call has one outcome, which is      *)
(* final, a call is interrupted only when its own time is over, and one    *)
(* that succeeds has used up its time too, because it waits for its timer. *)
(***************************************************************************)
EXTENDS Integers

CONSTANT MaxCalls   \* the number of calls of a run

VARIABLES
  made,      \* the number of calls made
  outcome,   \* how each call ended, or "none"
  over       \* the calls whose time is over

vars == <<made, outcome, over>>

Init ==
  /\ made = 0
  /\ outcome = [c \in 1 .. MaxCalls |-> "none"]
  /\ over = {}

Waiting == made > 0 /\ outcome[made] = "none"

(* A call is made; it may fail at once.                                    *)
Make ==
  /\ made < MaxCalls /\ ~Waiting
  /\ made' = made + 1
  /\ outcome' \in {outcome, [outcome EXCEPT ![made'] = "error"]}
  /\ UNCHANGED over

(* The call ends.                                                          *)
End(how) ==
  /\ Waiting
  /\ how \in {"interrupted", "ok"} => made \in over
  /\ outcome' = [outcome EXCEPT ![made] = how]
  /\ UNCHANGED <<made, over>>

(* The time of a call is over, also of one that has ended before.          *)
TimeIsOver(c) ==
  /\ c \notin over
  /\ over' = over \cup {c}
  /\ UNCHANGED <<made, outcome>>

Next ==
  \/ Make
  \/ \E how \in {"error", "trap", "interrupted", "ok"} : End(how)
  \/ \E c \in 1 .. made : TimeIsOver(c)

Spec == Init /\ [][Next]_vars

================================================================================
