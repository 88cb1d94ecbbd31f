------------------------------ MODULE MC_Mempool ------------------------------
(***************************************************************************)
(* Model values for Mempool.  Four transactions, three inputs, two         *)
(* senders:                                                                *)
(*   tx 1: sender A, input 1, network fee 3 (normal priority)              *)
(*   tx 2: sender A, input 2, network fee 1 (low priority)                 *)
(*   tx 3: sender B, input 3, network fee 1, system fee 1 (low priority;  *)
(*         ties with tx 2 on both fees: the hash tie-break ranks 2 first) *)
(*   tx 4: sender B, input 3, network fee 2 (normal; conflicts with 3)     *)
(* Balances 2 and 4 make some fee sums affordable and others not.          *)
(***************************************************************************)
EXTENDS Mempool

CONSTANTS A, B

MCTxs == 1..4
MCSenders == {A, B}
MCInputRefs == 1..3
MCSender == (1 :> A) @@ (2 :> A) @@ (3 :> B) @@ (4 :> B)
MCSystemFee == (1 :> 0) @@ (2 :> 0) @@ (3 :> 1) @@ (4 :> 0)
MCNetworkFee == (1 :> 3) @@ (2 :> 1) @@ (3 :> 1) @@ (4 :> 2)
MCFeePerByte == MCNetworkFee
MCTxInputs == (1 :> {1}) @@ (2 :> {2}) @@ (3 :> {3}) @@ (4 :> {3})
MCBalances == {2, 4}
\* A Remove of a tx that is in verifiedMap but not in the list can drive a
\* feeSum below zero (see README); -2 lets that happen once per sender.
MCFeeSumFloor == -2

=============================================================================
