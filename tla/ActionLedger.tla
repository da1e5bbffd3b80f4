----------------------------- MODULE ActionLedger -----------------------------
(***************************************************************************)
(* What first-approver-wins promises of the actions approved on Telegram:  *)
(* one action at a time runs, an action settles at most once, and only a   *)
(* restart of the operator opens it again.                                 *)
(***************************************************************************)
CONSTANT Actions
VARIABLE ledger

States == {"open", "running", "done", "failed", "void"}

Init == ledger = [a \in Actions |-> "open"]

Move(a, from, to) ==
    /\ ledger[a] = from
    /\ ledger' = [ledger EXCEPT ![a] = to]

\* The first approver of a wins; no other action is running.
Claim(a) ==
    /\ \A b \in Actions : ledger[b] # "running"
    /\ Move(a, "open", "running")

Settle(a) == Move(a, "running", "done") \/ Move(a, "running", "failed")

\* The approval of an action nobody handles.
Waive(a) ==
    /\ \A b \in Actions : ledger[b] # "running"
    /\ Move(a, "open", "void")

Restart == ledger' = [a \in Actions |-> "open"]

Next == \/ \E a \in Actions : Claim(a) \/ Settle(a) \/ Waive(a)
        \/ Restart

Spec == Init /\ [][Next]_ledger
=============================================================================
