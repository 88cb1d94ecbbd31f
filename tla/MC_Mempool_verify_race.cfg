\* Expected violation: two Verify calls for senders the pool has not seen
\* hold the read lock together and both go on to write mp.fees.
CONSTANTS
  A = A
  B = B
  Txs <- MCTxs
  Senders <- MCSenders
  InputRefs <- MCInputRefs
  Sender <- MCSender
  SystemFee <- MCSystemFee
  NetworkFee <- MCNetworkFee
  FeePerByte <- MCFeePerByte
  TxInputs <- MCTxInputs
  LowPriorityThreshold = 2
  Capacity = 4
  Balances <- MCBalances
  FeeSumFloor <- MCFeeSumFloor
  Verifiers = {V1, V2}
SPECIFICATION Spec
INVARIANT FeesWrittenExclusively
