--------------------------- MODULE MCTransactions ---------------------------
(* Two accounts whose nonces coincide, a transaction and its replacement.   *)
EXTENDS Transactions, TLC
CONSTANTS alice, bob, mint1, mint2, redeem1, error1
MCSender == (mint1 :> alice) @@ (mint2 :> alice) @@ (redeem1 :> bob)
MCNonce == (mint1 :> 1) @@ (mint2 :> 1) @@ (redeem1 :> 1)
MCType == (mint1 :> "mint") @@ (mint2 :> "mint") @@ (redeem1 :> "redeem")
              @@ (error1 :> "mint")
=============================================================================
