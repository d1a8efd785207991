------------------------------ MODULE MCLedger ------------------------------
(* Two users, the null account, and a fund.                                *)
EXTENDS Ledger, TLC

CONSTANTS alice, bob, null

MCRank == alice :> 1 @@ bob :> 2 @@ null :> 3
=============================================================================
