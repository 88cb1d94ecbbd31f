\* One producer on sendQ; the remote is honest or misbehaving, and may stop
\* reading or sending at any time.
CONSTANTS
  PH = PH
  PP = PP
  PD = PD
  Producers <- MCOneProducer
  ProducerQueue <- MCOneProducerQueue
  QueueSize <- MCQueueSize
  WireCap = 1
  InboxCap = 1
  MaxPingsOutstanding = 1
  RemoteKinds = {FALSE, TRUE}
SPECIFICATION Spec
\* A disconnected peer whose handshake never completed stops for good.
CHECK_DEADLOCK FALSE
PROPERTIES
  EnqueueReturns
  SessionWindsDown
