----------------------------- MODULE TaskPromise -----------------------------
(****************************************************************************)
(* What the task platform promises about retries, without leases, workers   *)
(* or statuses: a task has a budget of executions, it goes out for          *)
(* execution only while it is waiting, every dispatch spends one unit, and  *)
(* it comes back only while there is budget left.                           *)
(****************************************************************************)
EXTENDS Naturals

CONSTANT Keys

VARIABLES
    phase,      \* "absent", "waiting" or "out" (executing or ended)
    spent,      \* dispatches so far
    budget      \* max_attempts

promise == <<phase, spent, budget>>

Init ==
    /\ phase = [k \in Keys |-> "absent"]
    /\ spent = [k \in Keys |-> 0]
    /\ budget \in [Keys -> Nat \ {0}]

(* The budget of k is drawn afresh. *)
NewBudget(k) ==
    /\ budget' \in [Keys -> Nat \ {0}]
    /\ \A j \in Keys \ {k} : budget'[j] = budget[j]

Submit(k) ==
    /\ phase[k] = "absent"
    /\ phase' = [phase EXCEPT ![k] = "waiting"]
    /\ spent' = [spent EXCEPT ![k] = 0]
    /\ NewBudget(k)

Dispatch(k) ==
    /\ phase[k] = "waiting"
    /\ spent[k] < budget[k]
    /\ phase' = [phase EXCEPT ![k] = "out"]
    /\ spent' = [spent EXCEPT ![k] = @ + 1]
    /\ UNCHANGED budget

(* Cancelled, or taken over, while waiting. *)
Withdraw(k) ==
    /\ phase[k] = "waiting"
    /\ phase' = [phase EXCEPT ![k] = "out"]
    /\ UNCHANGED <<spent, budget>>

Remove(k) ==
    /\ phase[k] # "absent"
    /\ phase' = [phase EXCEPT ![k] = "absent"]
    /\ spent' = [spent EXCEPT ![k] = 0]
    /\ NewBudget(k)

(* A restart brings several tasks back at once. *)
Return ==
    \E back \in SUBSET {k \in Keys : phase[k] = "out" /\ spent[k] < budget[k]} :
        /\ phase' = [k \in Keys |-> IF k \in back THEN "waiting" ELSE phase[k]]
        /\ UNCHANGED <<spent, budget>>

Next ==
    \/ \E k \in Keys : Submit(k) \/ Dispatch(k) \/ Withdraw(k) \/ Remove(k)
    \/ Return

Spec == Init /\ [][Next]_promise
=============================================================================
