----------------------------- MODULE CloudBudget -----------------------------
(***************************************************************************)
(* What LLM_DAILY_CALL_LIMIT promises, whoever calls and in whatever order: *)
(* every cloud call is charged to a day, and a day pays for Limit calls at  *)
(* most.                                                                    *)
(***************************************************************************)
EXTENDS Naturals

CONSTANTS Days, Limit

VARIABLE spent      \* cloud calls charged to each day

Init == spent = [d \in Days |-> 0]

Call(d) ==
    /\ spent[d] < Limit
    /\ spent' = [spent EXCEPT ![d] = @ + 1]

Next == \E d \in Days : Call(d)

Spec == Init /\ [][Next]_spent
=============================================================================
