---------------------------- MODULE BudgetLedger ----------------------------
(***************************************************************************)
(* What a spending pipeline promises about a project's budget: a run first  *)
(* holds its estimate, within the limit, and what it holds is either given  *)
(* back or spent. Money once spent stays spent. The translation, speech and *)
(* render workers implement it with a reservation row and a usage row per   *)
(* run, written by separate statements.                                     *)
(***************************************************************************)
EXTENDS Naturals, Functions

CONSTANTS Runs, DailyLimit

VARIABLES account,  \* what each run does to the budget
          kindOf,   \* the pipeline of a run: each has a budget of its own
          cost      \* the estimated cost of a run

Held(k) == {r \in Runs : kindOf[r] = k /\ account[r] # "free"}
Total(S) == FoldFunctionOnSet(+, 0, cost, S)

Init == account = [r \in Runs |-> "free"]

Hold(r) ==
  /\ account[r] = "free"
  /\ Total(Held(kindOf[r])) + cost[r] <= DailyLimit
  /\ account' = [account EXCEPT ![r] = "held"]

GiveBack(r) == account[r] = "held" /\ account' = [account EXCEPT ![r] = "free"]
Spend(r)    == account[r] = "held" /\ account' = [account EXCEPT ![r] = "spent"]

Next == (\E r \in Runs : Hold(r) \/ GiveBack(r) \/ Spend(r)) /\ UNCHANGED <<kindOf, cost>>

Spec == Init /\ [][Next]_<<account, kindOf, cost>>
=============================================================================
