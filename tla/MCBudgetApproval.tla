-------------------------- MODULE MCBudgetApproval --------------------------
EXTENDS BudgetApproval, TLC

RequestSymmetry == Permutations(Requests)
=============================================================================
