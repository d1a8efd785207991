------------------------- MODULE MCTransactionPool -------------------------
(***************************************************************************)
(* Transactions: tb needs ta, tc spends the coin that ta spends, td is one *)
(* by itself.  ta expires before tb, so that a block can leave it out and  *)
(* still be in time for tb.                                                *)
(***************************************************************************)
EXTENDS TransactionPool

CONSTANTS ta, tb, tc, td

MCExpiration == ta :> 5 @@ tb :> 6 @@ tc :> 4 @@ td :> 7
MCSize       == ta :> 1 @@ tb :> 1 @@ tc :> 2 @@ td :> 1
MCNeeds      == ta :> {} @@ tb :> {ta} @@ tc :> {} @@ td :> {}
MCSpends     == ta :> "x" @@ tb :> "y" @@ tc :> "x" @@ td :> "z"
=============================================================================
