------------------------------ MODULE MCBilling ------------------------------
EXTENDS Billing, TLC

HandlerSymmetry == Permutations(Handlers)
=============================================================================
