\* Migration of NEP5 balances, then Persist of the migrating Cached: the
\* stale balance cache is written back over the migrated balances.
CONSTANTS
    a1 = a1  v1 = v1  v2 = v2  h1 = h1  k1 = k1  tA = tA  tB = tB
    Build <- MCSingle
    Writers = {2}
    Accts = {a1}
    AcctVals = {v1}
    Contracts = {h1}
    ContractVals = {k1}
    Tokens = {tA, tB}
    MaxLog = 1
    NoVal = NoVal  Absent = Absent  Tomb = Tomb  Nil = Nil
SPECIFICATION Spec
INVARIANT MigrationDurable
