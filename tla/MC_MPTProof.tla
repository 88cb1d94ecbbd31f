----------------------------- MODULE MC_MPTProof -----------------------------
(* A trie over the nibbles {0, 1} with a branch, a nested branch holding  *)
(* a value in its lastChild slot, an extension and three leaves.          *)
EXTENDS MPTProof, TLC

CONSTANTS va, vb, vc

MCKV == <<0, 1>> :> va @@ <<0>> :> vb @@ <<1, 1>> :> vc
\* Every path of up to two nibbles: in the trie, a prefix of one, or off it.
MCKeys == {<<>>} \cup {<<x>> : x \in {0, 1}} \cup {<<x, y>> : x, y \in {0, 1}}
=============================================================================
