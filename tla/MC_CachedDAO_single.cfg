\* Cached DAO over a Simple, as block processing uses it: every object
\* write, contract read, migration and Persist keeps the contract cache
\* equal to the store below it, and the Cached refines TxnKV over the Simple.
CONSTANTS
    a1 = a1  v1 = v1  v2 = v2  h1 = h1  k1 = k1  tA = tA  tB = tB
    Build <- MCSingle
    Writers = {2}
    Accts = {a1}
    AcctVals = {v1}
    Contracts = {h1}
    ContractVals = {k1}
    Tokens = {tA, tB}
    MaxLog = 1
    NoVal = NoVal  Absent = Absent  Tomb = Tomb  Nil = Nil
SPECIFICATION Spec
INVARIANT ContractCacheCoherent
PROPERTY CachedScopeRefinement
