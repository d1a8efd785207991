------------------------ MODULE MCAccountRecovery ------------------------
(* A genesis account and one that it may create; the second of three      *)
(* authorities names the account that is created, the third is open.  As  *)
(* a bobserver the second account comes before the first.                 *)
EXTENDS AccountRecovery, TLC

CONSTANTS a1, a2, k1, k2, open

MCRank == a1 :> 2 @@ a2 :> 1
MCAccountAuths == k1 :> {} @@ k2 :> {a2} @@ open :> {}
==========================================================================
