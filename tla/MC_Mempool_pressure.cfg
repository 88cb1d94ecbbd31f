\* Capacity 2 with four transactions: the pool fills, evicts and rejects.
CONSTANTS
  A = A
  B = B
  Txs <- MCTxs
  Senders <- MCSenders
  InputRefs <- MCInputRefs
  Sender <- MCSender
  SystemFee <- MCSystemFee
  NetworkFee <- MCNetworkFee
  FeePerByte <- MCFeePerByte
  TxInputs <- MCTxInputs
  LowPriorityThreshold = 2
  Capacity = 2
  Balances <- MCBalances
  FeeSumFloor <- MCFeeSumFloor
  Verifiers = {V1}
SPECIFICATION Spec
INVARIANTS TypeOK SortedByPriority
