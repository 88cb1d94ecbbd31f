\* One peer against an honest remote.
CONSTANTS
  PH = PH
  PP = PP
  PD = PD
  Producers <- MCProducers
  ProducerQueue <- MCProducerQueue
  QueueSize <- MCQueueSize
  WireCap = 1
  InboxCap = 1
  MaxPingsOutstanding = 2
  RemoteKinds = {FALSE}
SPECIFICATION Spec
\* A disconnected peer whose handshake never completed stops for good.
CHECK_DEADLOCK FALSE
INVARIANTS
  RemoteSeesHandshakeFirst
  HonestPeersAgree
