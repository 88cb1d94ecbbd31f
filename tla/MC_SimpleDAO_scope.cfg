\* Simple DAO, one block of two txs: every operation on a DAO and its
\* wrapped DAO, persisted at either level or discarded, implements the
\* transactional scope of TxnKV, and every version stored decodes back.
CONSTANTS
    b1 = b1  b2 = b2  t1 = t1  t2 = t2  t3 = t3  c1 = c1
    Blocks <- MCOneBlock
    BlockTxs <- MCBlockTxs
    Index <- MCIndex
    ConflictsOf <- MCConflictsOf
    Versions <- MCVersions
    StateRootInHeader = FALSE
    P2PSigExtensions = TRUE
    MaxDepth = 2
    MaxAers = 1
    NoVal = NoVal  Absent = Absent  Tomb = Tomb
SPECIFICATION Spec
INVARIANT VersionRoundTrip
PROPERTY ScopeRefinement
