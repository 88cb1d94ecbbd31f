\* GetProof and Traverse, in any order, over a complete store or one that
\* lost a node: proofs verify, the root hash stays, traversal order is
\* pre-order.
CONSTANTS
    va = va  vb = vb  vc = vc
    Nibbles = {0, 1}
    KV <- MCKV
    Keys <- MCKeys
    NoVal = NoVal
SPECIFICATION Spec
INVARIANTS ProofsVerify RootStable TraverseOrder
