----------------------------- MODULE MC_TCPPeer -----------------------------
(* One producer per send queue, channels of one slot, a socket buffer of  *)
(* one message each way.                                                   *)
EXTENDS TCPPeer, TLC

CONSTANTS PH, PP, PD

MCProducers == {PH, PP, PD}
MCProducerQueue == (PH :> "hp") @@ (PP :> "p2p") @@ (PD :> "def")
MCOneProducer == {PD}
MCOneProducerQueue == PD :> "def"
MCQueueSize == [q \in Queues |-> 1]
=============================================================================
