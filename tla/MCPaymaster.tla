---------------------------- MODULE MCPaymaster ----------------------------
(* Paymaster on small instances: two dApps with budgets in one token.       *)
EXTENDS Paymaster, TLC

\* Budgets and feeds are only told apart by what they hold and answer.
BudgetSymmetry == Permutations(DApps) \cup Permutations(Feeds)

=============================================================================
