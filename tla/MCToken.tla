------------------------------ MODULE MCToken -------------------------------
(* Accounts, all of them block producers, and dapps can be renamed.        *)
EXTENDS Token

Symmetry == Permutations(Account) \cup Permutations(DappName)
=============================================================================
