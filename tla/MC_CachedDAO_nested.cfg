\* Cached DAO: a Cached over a Cached over the Simple, as block processing
\* and its interop DAO stack them; Persist of the interop DAO takes the
\* walk (no accounts: the walk does not depend on the objects).
CONSTANTS
    a1 = a1  v1 = v1  v2 = v2  h1 = h1  k1 = k1  tA = tA  tB = tB
    Build <- MCNested
    Writers = {2}
    Accts = {}
    AcctVals = {}
    Contracts = {h1}
    ContractVals = {k1}
    Tokens = {tA, tB}
    MaxLog = 1
    NoVal = NoVal  Absent = Absent  Tomb = Tomb  Nil = Nil
SPECIFICATION Spec
INVARIANT TypeOK
