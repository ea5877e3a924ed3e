-------------------------- MODULE FamilyAcquisition --------------------------
(***************************************************************************)
(* What the Tool Execution Layer promises Research Executor of one bounded *)
(* request: it runs one family at most budget + 1 times, may move once to  *)
(* a second family with a budget of its own, never returns to the first,   *)
(* and answers exactly once.                                               *)
(***************************************************************************)
EXTENDS Integers

CONSTANTS Family, NoFamily

VARIABLES
    budget,     \* retry budget of the request
    runs,       \* how many times each family has been run
    current,    \* the family of the latest run
    answered

Used == {f \in Family : runs[f] > 0}

Init ==
    /\ budget \in Nat
    /\ runs = [f \in Family |-> 0]
    /\ current = NoFamily
    /\ answered = FALSE

Run(f) ==
    /\ ~answered
    /\ runs[f] <= budget
    /\ f = current \/ (f \notin Used /\ \A g, h \in Used : g = h)
    /\ runs' = [runs EXCEPT ![f] = @ + 1]
    /\ current' = f
    /\ UNCHANGED <<budget, answered>>

Answer ==
    /\ ~answered
    /\ answered' = TRUE
    /\ UNCHANGED <<budget, runs, current>>

Next == Answer \/ \E f \in Family : Run(f)

SafetySpec == Init /\ [][Next]_<<budget, runs, current, answered>>

Spec == SafetySpec /\ WF_<<budget, runs, current, answered>>(Answer)
=============================================================================
