\* DeleteBlock of a block with two txs leaves the second tx on record.
CONSTANTS
    b1 = b1  b2 = b2  t1 = t1  t2 = t2  t3 = t3  c1 = c1
    Blocks <- MCBlocks
    BlockTxs <- MCBlockTxs
    Index <- MCIndex
    ConflictsOf <- MCConflictsOf
    Versions = {}
    StateRootInHeader = FALSE
    P2PSigExtensions = TRUE
    MaxDepth = 1
    MaxAers = 2
    NoVal = NoVal  Absent = Absent  Tomb = Tomb
SPECIFICATION Spec
INVARIANT DeletedBlockForgotten
