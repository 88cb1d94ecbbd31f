\* Capacity 4 holds all four transactions: the pool is never full, so the
\* index and fee accounting are checked without the capacity paths.
CONSTANTS
  A = A
  B = B
  Txs <- MCTxs
  Senders <- MCSenders
  InputRefs <- MCInputRefs
  Sender <- MCSender
  SystemFee <- MCSystemFee
  NetworkFee <- MCNetworkFee
  FeePerByte <- MCFeePerByte
  TxInputs <- MCTxInputs
  LowPriorityThreshold = 2
  Capacity = 4
  Balances <- MCBalances
  FeeSumFloor <- MCFeeSumFloor
  Verifiers = {V1}
SPECIFICATION Spec
INVARIANTS PoolConsistent InputIndexExact NoDoubleSpend FeeSumExact Solvent
