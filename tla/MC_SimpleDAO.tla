----------------------------- MODULE MC_SimpleDAO -----------------------------
(* Blocks b1 with txs t1 and t2, and b2 with t3; t1 and t3 both name c1 *)
(* in a Conflicts attribute.  A version with a label byte and every flag *)
(* flipped against NewSimple's.  The small run keeps b1 only.            *)
EXTENDS SimpleDAO, TLC

CONSTANTS b1, b2, t1, t2, t3, c1

MCBlocks == {b1, b2}
MCOneBlock == {b1}
MCBlockTxs == (b1 :> <<t1, t2>>) @@ (b2 :> <<t3>>)
MCIndex == (b1 :> 1) @@ (b2 :> 2)
MCConflictsOf == (t1 :> <<c1>>) @@ (t2 :> <<>>) @@ (t3 :> <<c1>>)
MCVersions ==
    {[Value |-> <<51>>, StoragePrefix |-> 0, StateRootInHeader |-> TRUE,
      P2PSigExtensions |-> FALSE, KeepOnlyLatestState |-> TRUE]}
=============================================================================
