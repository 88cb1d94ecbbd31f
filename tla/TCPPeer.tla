------------------------------- MODULE TCPPeer -------------------------------
(***************************************************************************)
(* One connection of src/pkg/network/tcp_peer.go and its goroutines: the   *)
(* reader (handleConn, dispatching through the server's handleMessage),    *)
(* the writer (handleQueues), server goroutines enqueuing packets          *)
(* (Producers), the server's ping loop (the Pinger) and the ping timer's   *)
(* callback.  The remote end is the environment, honest or, when          *)
(* misbehave holds, sending anything at any time.  A message is its command;*)
(* payload is named by the queue it went through.  The socket is two FIFO  *)
(* sequences: wire (our unread output; full means conn.Write blocks) and   *)
(* inbox (the remote's unread output).                                     *)
(***************************************************************************)
EXTENDS Integers, Sequences, FiniteSets

CONSTANTS
  Producers,            \* server goroutines that enqueue packets
  ProducerQueue,        \* [Producers -> Queues]: the Enqueue*Packet they call
  QueueSize,            \* [Queues -> Nat \ {0}]: channel capacities
  WireCap,              \* unread messages before conn.Write blocks
  InboxCap,             \* unread remote messages in flight
  MaxPingsOutstanding,  \* model bound on pingSent
  RemoteKinds           \* SUBSET BOOLEAN: TRUE for a remote that may send
                        \* anything at any time, FALSE for an honest one

Queues == {"hp", "p2p", "def"}
Stages == {"versionSent", "versionReceived", "verAckSent", "verAckReceived"}
Inbound == {"version", "verack", "pong", "payload"}
Errors == {"errWrite", "errRead", "errPingPong", "errUnexpectedPong",
           "errHandshake", "errProtocol"}

ASSUME ProducerQueue \in [Producers -> Queues]
ASSUME RemoteKinds \subseteq BOOLEAN /\ RemoteKinds # {}

VARIABLES
  handShake,   \* p.handShake, as the set of stage bits that are set
  done,        \* p.done is closed
  dropErr,     \* the error sent to server.unregister, "none" before
  connClosed,  \* p.conn.Close() was called
  connBroken,  \* the network failed: reads and writes return errors
  queue,       \* [Queues -> Seq]: hpSendQ, p2pSendQ, sendQ
  wpc,         \* writer position in handleQueues
  wmsg,        \* writer's msg
  skip,        \* p2pSkipCounter % p2pSkipDivisor
  wire,        \* written to the socket, not yet read by the remote
  rpc,         \* reader position in handleConn
  inbox,       \* sent by the remote, not yet read by us
  ppc,         \* [Producers -> {"idle", "blocked"}]
  ipc,         \* Pinger: "idle" or "enqueue" (inside SendPing's EnqueueMessage)
  pingSent,    \* p.pingSent
  pingTimer,   \* p.pingTimer: "none" (nil), "armed", "fired"
  timerCb,     \* the timer's callback goroutine is running
  rsent,       \* handshake messages the remote has sent
  rread,       \* handshake messages of ours the remote has read
  owed,        \* pings the remote has read and not answered
  remoteErr,   \* the remote read a non-handshake message before our VerAck
  misbehave    \* this connection's remote is not an honest neo-go node

vars == <<handShake, done, dropErr, connClosed, connBroken, queue, wpc, wmsg,
          skip, wire, rpc, inbox, ppc, ipc, pingSent, pingTimer, timerCb, rsent,
          rread, owed, remoteErr, misbehave>>

writerVars == <<wpc, wmsg, skip>>
pingVars == <<pingSent, pingTimer, timerCb>>
remoteVars == <<rsent, rread, owed, remoteErr, misbehave>>
discVars == <<done, dropErr, connClosed>>

-----------------------------------------------------------------------------

\* Mutant: only the two version bits are compared.
HandshakedVersionOnly == {"versionSent", "versionReceived"} \subseteq handShake

\* Handshaked(): all four stage bits are set.
Handshaked == handShake = Stages

ConnUp == ~connClosed /\ ~connBroken

CanWrite == ConnUp /\ Len(wire) < WireCap

\* Disconnect(err): finale.Do closes done and the connection and hands err
\* to the server; later calls change nothing.
Disconnect(err) ==
  /\ done' = TRUE
  /\ connClosed' = TRUE
  /\ dropErr' = IF done THEN dropErr ELSE err

\* The reader leaves its loop with err and calls Disconnect(err).
ReaderFails(err) == rpc' = "exit" /\ Disconnect(err)

-----------------------------------------------------------------------------
(* Reader: handleConn and the handshake methods it reaches.                *)

\* SendVersion, called once by handleConn before the read loop; the stage
\* bit is set only when writeMsg succeeds.
SendVersion ==
  /\ rpc = "start"
  /\ "versionSent" \notin handShake
  /\ \/ /\ CanWrite
        /\ wire' = Append(wire, "version")
        /\ handShake' = handShake \cup {"versionSent"}
        /\ rpc' = "loop"
        /\ UNCHANGED discVars
     \/ /\ ~ConnUp
        /\ ReaderFails("errWrite")
        /\ UNCHANGED <<handShake, wire>>
  /\ UNCHANGED <<connBroken, queue, writerVars, inbox, ppc, ipc, pingVars,
                 remoteVars>>

\* msg.Decode fails once the connection is closed or broken.
ReadFails ==
  /\ rpc = "loop"
  /\ ~ConnUp
  /\ ReaderFails("errRead")
  /\ UNCHANGED <<handShake, connBroken, queue, writerVars, wire, inbox, ppc,
                 ipc, pingVars, remoteVars>>

\* Before the handshake the server passes Version to HandleVersion: a second
\* Version is an invalid handshake.  On success the server's version handler
\* goes on to SendVersionAck (rpc "verack").
HandleVersion ==
  /\ rpc = "loop" /\ ConnUp /\ inbox # <<>> /\ Head(inbox) = "version"
  /\ ~Handshaked
  /\ inbox' = Tail(inbox)
  /\ \/ /\ "versionReceived" \notin handShake
        /\ handShake' = handShake \cup {"versionReceived"}
        /\ rpc' = "verack"
        /\ UNCHANGED discVars
     \/ /\ "versionReceived" \in handShake
        /\ ReaderFails("errHandshake")
        /\ UNCHANGED handShake
  /\ UNCHANGED <<connBroken, queue, writerVars, wire, ppc, ipc, pingVars,
                 remoteVars>>

\* Mutant: the wrong stage bit is tested for the received Version.
VersionAckAllowedWrongBit(hs) ==
  /\ "verAckReceived" \in hs /\ "versionSent" \in hs /\ "verAckSent" \notin hs

\* SendVersionAck's three precondition checks.
VersionAckAllowed(hs) ==
  /\ "versionReceived" \in hs /\ "versionSent" \in hs /\ "verAckSent" \notin hs

SendVersionAck ==
  /\ rpc = "verack"
  /\ IF VersionAckAllowed(handShake)
       THEN \/ /\ CanWrite
               /\ wire' = Append(wire, "verack")
               /\ handShake' = handShake \cup {"verAckSent"}
               /\ rpc' = "loop"
               /\ UNCHANGED discVars
            \/ /\ ~ConnUp
               /\ ReaderFails("errWrite")
               /\ UNCHANGED <<handShake, wire>>
       ELSE ReaderFails("errHandshake") /\ UNCHANGED <<handShake, wire>>
  /\ UNCHANGED <<connBroken, queue, writerVars, inbox, ppc, ipc, pingVars,
                 remoteVars>>

\* HandleVersionAck's three precondition checks.
VersionAckReceivable(hs) ==
  /\ "versionSent" \in hs /\ "versionReceived" \in hs /\ "verAckReceived" \notin hs

\* Before the handshake the server passes VerAck to HandleVersionAck (and on
\* success starts StartProtocol, not modelled).
HandleVersionAck ==
  /\ rpc = "loop" /\ ConnUp /\ inbox # <<>> /\ Head(inbox) = "verack"
  /\ ~Handshaked
  /\ inbox' = Tail(inbox)
  /\ \/ /\ VersionAckReceivable(handShake)
        /\ handShake' = handShake \cup {"verAckReceived"}
        /\ UNCHANGED <<rpc, discVars>>
     \/ /\ ~VersionAckReceivable(handShake)
        /\ ReaderFails("errHandshake")
        /\ UNCHANGED handShake
  /\ UNCHANGED <<connBroken, queue, writerVars, wire, ppc, ipc, pingVars,
                 remoteVars>>

\* More pongs than pings: pingSent dropped below zero.
Unexpected(n) == n < 0

\* HandlePong, reached through the server only once handshaked.  A timer
\* that already fired cannot be stopped: errPingPong.  Otherwise the timer
\* is dropped and pingSent decremented; below zero is errUnexpectedPong.
HandlePong ==
  /\ rpc = "loop" /\ ConnUp /\ inbox # <<>> /\ Head(inbox) = "pong"
  /\ Handshaked
  /\ inbox' = Tail(inbox)
  /\ \/ /\ pingTimer = "fired"
        /\ ReaderFails("errPingPong")
        /\ UNCHANGED <<pingSent, pingTimer>>
     \/ /\ pingTimer # "fired"
        /\ pingTimer' = "none"
        /\ pingSent' = pingSent - 1
        /\ IF Unexpected(pingSent - 1) THEN ReaderFails("errUnexpectedPong")
                               ELSE UNCHANGED <<rpc, discVars>>
  /\ UNCHANGED <<handShake, connBroken, queue, writerVars, wire, ppc, ipc,
                 timerCb, remoteVars>>

\* Other commands are served by the server once handshaked; before that
\* it rejects all but Version and VerAck, after it rejects those two.
HandleOther ==
  /\ rpc = "loop" /\ ConnUp /\ inbox # <<>>
  /\ \/ Head(inbox) = "payload"
     \/ Head(inbox) = "pong" /\ ~Handshaked
     \/ Head(inbox) \in {"version", "verack"} /\ Handshaked
  /\ inbox' = Tail(inbox)
  /\ IF Handshaked /\ Head(inbox) = "payload"
       THEN UNCHANGED <<rpc, discVars>>
       ELSE ReaderFails("errProtocol")
  /\ UNCHANGED <<handShake, connBroken, queue, writerVars, wire, ppc, ipc,
                 pingVars, remoteVars>>

-----------------------------------------------------------------------------
(* Writer: one iteration of handleQueues is Poll HP, Poll P2P, Block,     *)
(* Write.  A select with several ready cases picks any of them.            *)

\* Take the head of queue q as the writer's msg and go to the write.
Take(q) ==
  /\ queue[q] # <<>>
  /\ wmsg' = Head(queue[q])
  /\ queue' = [queue EXCEPT ![q] = Tail(@)]
  /\ wpc' = "write"

WriterExits == done /\ wpc' = "exit" /\ UNCHANGED <<queue, wmsg>>

\* First select: done, hpSendQ, or default.
PollHP ==
  /\ wpc = "hp"
  /\ \/ WriterExits
     \/ Take("hp")
     \/ ~done /\ queue["hp"] = <<>> /\ wpc' = "p2p" /\ UNCHANGED <<queue, wmsg>>
  /\ UNCHANGED <<handShake, discVars, connBroken, skip, wire, rpc, inbox, ppc,
                 ipc, pingVars, remoteVars>>

\* Second select, skipped when p2pSkipCounter % p2pSkipDivisor = 0.
PollP2P ==
  /\ wpc = "p2p"
  /\ \/ skip = 0 /\ wpc' = "block" /\ UNCHANGED <<queue, wmsg>>
     \/ /\ skip # 0
        /\ \/ WriterExits
           \/ Take("hp")
           \/ Take("p2p")
           \/ /\ ~done /\ queue["hp"] = <<>> /\ queue["p2p"] = <<>>
              /\ wpc' = "block" /\ UNCHANGED <<queue, wmsg>>
  /\ UNCHANGED <<handShake, discVars, connBroken, skip, wire, rpc, inbox, ppc,
                 ipc, pingVars, remoteVars>>

\* Mutant: the third select without its <-p.done case.
BlockNoDone ==
  /\ wpc = "block"
  /\ \E q \in Queues : Take(q)
  /\ UNCHANGED <<handShake, discVars, connBroken, skip, wire, rpc, inbox, ppc,
                 ipc, pingVars, remoteVars>>

\* Third select blocks until done or any queue has a packet.
Block ==
  /\ wpc = "block"
  /\ \/ WriterExits
     \/ \E q \in Queues : Take(q)
  /\ UNCHANGED <<handShake, discVars, connBroken, skip, wire, rpc, inbox, ppc,
                 ipc, pingVars, remoteVars>>

\* conn.Write(msg): blocks while the remote does not read; an error ends
\* the loop and Disconnect(err) follows.  The uint32 p2pSkipCounter is
\* kept mod 4, exact because 2^32 is a multiple of 4.
Write ==
  /\ wpc = "write"
  /\ \/ /\ CanWrite
        /\ wire' = Append(wire, wmsg)
        /\ skip' = (skip + 1) % 4
        /\ wpc' = "hp"
        /\ UNCHANGED discVars
     \/ /\ ~ConnUp
        /\ wpc' = "exit"
        /\ Disconnect("errWrite")
        /\ UNCHANGED <<wire, skip>>
  /\ UNCHANGED <<handShake, connBroken, queue, wmsg, rpc, inbox, ppc, ipc,
                 pingVars, remoteVars>>

-----------------------------------------------------------------------------
(* Callers of putPacketIntoQueue.                                           *)

\* The Handshaked() check; before the handshake it returns
\* errStateMismatch without a state change, which is not a step.
Enqueue(p) ==
  /\ ppc[p] = "idle"
  /\ Handshaked
  /\ ppc' = [ppc EXCEPT ![p] = "blocked"]
  /\ UNCHANGED <<handShake, discVars, connBroken, queue, writerVars, wire,
                 rpc, inbox, ipc, pingVars, remoteVars>>

\* The select: the packet goes into the channel, or done is closed and the
\* call returns errGone; with both ready either may win.
EnqueueDone(p) ==
  LET q == ProducerQueue[p] IN
  /\ ppc[p] = "blocked"
  /\ \/ Len(queue[q]) < QueueSize[q] /\ queue' = [queue EXCEPT ![q] = Append(@, q)]
     \/ done /\ UNCHANGED queue
  /\ ppc' = [ppc EXCEPT ![p] = "idle"]
  /\ UNCHANGED <<handShake, discVars, connBroken, writerVars, wire, rpc,
                 inbox, ipc, pingVars, remoteVars>>

\* Mutant: the timer is never armed.
ArmTimerNever(t) == t

\* p.pingTimer is armed by SendPing only when it is nil.
ArmTimer(t) == IF t = "none" THEN "armed" ELSE t

\* SendPing: accounting under the lock, then EnqueueMessage into sendQ.
SendPing ==
  /\ ipc = "idle"
  /\ Handshaked
  /\ pingSent < MaxPingsOutstanding
  /\ pingSent' = pingSent + 1
  /\ pingTimer' = ArmTimer(pingTimer)
  /\ ipc' = "enqueue"
  /\ UNCHANGED <<handShake, discVars, connBroken, queue, writerVars, wire,
                 rpc, inbox, ppc, timerCb, remoteVars>>

PingEnqueued ==
  /\ ipc = "enqueue"
  /\ \/ Len(queue["def"]) < QueueSize["def"]
        /\ queue' = [queue EXCEPT !["def"] = Append(@, "ping")]
     \/ done /\ UNCHANGED queue
  /\ ipc' = "idle"
  /\ UNCHANGED <<handShake, discVars, connBroken, writerVars, wire, rpc,
                 inbox, ppc, pingVars, remoteVars>>

\* PingTimeout passes: Stop() can no longer succeed, and the AfterFunc
\* callback goroutine is started.
TimerExpires ==
  /\ pingTimer = "armed"
  /\ pingTimer' = "fired"
  /\ timerCb' = TRUE
  /\ UNCHANGED <<handShake, discVars, connBroken, queue, writerVars, wire,
                 rpc, inbox, ppc, ipc, pingSent, remoteVars>>

\* The callback: Disconnect(errPingPong).
TimerCallback ==
  /\ timerCb
  /\ timerCb' = FALSE
  /\ Disconnect("errPingPong")
  /\ UNCHANGED <<handShake, connBroken, queue, writerVars, wire, rpc, inbox,
                 ppc, ipc, pingSent, pingTimer, remoteVars>>

-----------------------------------------------------------------------------
(* The remote end and the network.                                          *)

\* What an honest neo-go peer may send next.
HonestMay(m) ==
  CASE m = "version" -> "version" \notin rsent
    [] m = "verack"  -> "version" \in rsent /\ "version" \in rread
                         /\ "verack" \notin rsent
    [] m = "pong"    -> owed > 0
    [] m = "payload" -> "verack" \in rsent /\ "verack" \in rread

RemoteSend(m) ==
  /\ ~connBroken /\ ~connClosed
  /\ Len(inbox) < InboxCap
  /\ misbehave \/ HonestMay(m)
  /\ inbox' = Append(inbox, m)
  /\ rsent' = rsent \cup ({m} \cap {"version", "verack"})
  /\ owed' = IF m = "pong" /\ owed > 0 THEN owed - 1 ELSE owed
  /\ UNCHANGED <<handShake, discVars, connBroken, queue, writerVars, wire,
                 rpc, ppc, ipc, pingVars, rread, remoteErr, misbehave>>

\* The remote reads our next message; a neo-go peer rejects anything but
\* Version and VerAck before it has our VerAck.
RemoteRead ==
  /\ ~connBroken
  /\ wire # <<>>
  /\ LET m == Head(wire) IN
     /\ wire' = Tail(wire)
     /\ rread' = rread \cup ({m} \cap {"version", "verack"})
     /\ owed' = IF m = "ping" THEN owed + 1 ELSE owed
     /\ remoteErr' = (remoteErr \/ (m \notin {"version", "verack"} /\ "verack" \notin rread))
  /\ UNCHANGED <<handShake, discVars, connBroken, queue, writerVars, rpc,
                 inbox, ppc, ipc, pingVars, rsent, misbehave>>

ConnFails ==
  /\ ~connBroken
  /\ connBroken' = TRUE
  /\ UNCHANGED <<handShake, discVars, queue, writerVars, wire, rpc, inbox,
                 ppc, ipc, pingVars, remoteVars>>

-----------------------------------------------------------------------------

\* NewTCPPeer, with handleConn and handleQueues started.
Init ==
  /\ handShake = {} /\ done = FALSE /\ dropErr = "none"
  /\ connClosed = FALSE /\ connBroken = FALSE
  /\ queue = [q \in Queues |-> <<>>]
  /\ wpc = "hp" /\ wmsg = "none" /\ skip = 0
  /\ wire = <<>> /\ rpc = "start" /\ inbox = <<>>
  /\ ppc = [p \in Producers |-> "idle"] /\ ipc = "idle"
  /\ pingSent = 0 /\ pingTimer = "none" /\ timerCb = FALSE
  /\ rsent = {} /\ rread = {} /\ owed = 0 /\ remoteErr = FALSE
  /\ misbehave \in RemoteKinds

Reader == SendVersion \/ ReadFails \/ HandleVersion \/ SendVersionAck
            \/ HandleVersionAck \/ HandlePong \/ HandleOther
Writer == PollHP \/ PollP2P \/ Block \/ Write

Next ==
  \/ Reader
  \/ Writer
  \/ \E p \in Producers : Enqueue(p) \/ EnqueueDone(p)
  \/ SendPing \/ PingEnqueued \/ TimerExpires \/ TimerCallback
  \/ \E m \in Inbound : RemoteSend(m)
  \/ RemoteRead \/ ConnFails

\* Every goroutine of ours is weakly fair; a blocked channel send is served
\* in FIFO order by the Go runtime, hence strong fairness for it; the ping
\* loop fires on a ticker and the timer callback when its time is up.  The
\* remote and the network get no fairness: they may stop at any time.
Fairness ==
  /\ WF_vars(Reader) /\ WF_vars(Writer)
  /\ \A p \in Producers : SF_vars(EnqueueDone(p))
  /\ WF_vars(SendPing) /\ SF_vars(PingEnqueued) /\ WF_vars(TimerExpires)
  /\ WF_vars(TimerCallback)

Spec == Init /\ [][Next]_vars /\ Fairness

-----------------------------------------------------------------------------
(* Properties.                                                              *)

TypeOK ==
  /\ handShake \subseteq Stages
  /\ done \in BOOLEAN /\ connClosed \in BOOLEAN /\ connBroken \in BOOLEAN
  /\ dropErr \in Errors \cup {"none"}
  /\ \A q \in Queues : /\ queue[q] \in Seq({q, "ping"})
                      /\ Len(queue[q]) <= QueueSize[q]
  /\ wpc \in {"hp", "p2p", "block", "write", "exit"}
  /\ skip \in 0..3
  /\ Len(wire) <= WireCap /\ Len(inbox) <= InboxCap
  /\ rpc \in {"start", "loop", "verack", "exit"}
  /\ ppc \in [Producers -> {"idle", "blocked"}]
  /\ pingSent \in -1..MaxPingsOutstanding
  /\ pingTimer \in {"none", "armed", "fired"}
  /\ timerCb \in BOOLEAN
  /\ misbehave \in RemoteKinds

\* Nothing but Version and VerAck reaches the remote before our VerAck: no
\* queued packet or ping can overtake the handshake, although the writer
\* runs from the start and enqueuing only checks Handshaked().
RemoteSeesHandshakeFirst == ~remoteErr

\* Between two honest peers the handshake and ping accounting never fail:
\* no invalid-handshake, out-of-order or unexpected-pong disconnect.
HonestPeersAgree ==
  ~misbehave => dropErr \notin {"errHandshake", "errProtocol", "errUnexpectedPong"}

\* Every outstanding ping of a live peer has a timeout running (SendPing
\* documents "accounting of outstanding pings and timeouts").
OutstandingPingTimed ==
  (pingSent > 0 /\ ~done) => pingTimer # "none"

\* A pong handled after the ping timeout fired ends the session as an
\* unexpected pong (the keepalive scenario of the peer session contract);
\* HandlePong finds the timer not stoppable first.
PongAfterTimeoutUnexpected ==
  [][ (/\ rpc = "loop" /\ ~done /\ pingTimer = "fired"
       /\ inbox # <<>> /\ Head(inbox) = "pong" /\ inbox' = Tail(inbox))
      => dropErr' = "errUnexpectedPong" ]_vars

\* A server goroutine blocked in putPacketIntoQueue eventually returns,
\* even when an honest remote stops reading and conn.Write blocks for ever:
\* the ping timeout disconnects and closes done.  (A misbehaving remote can
\* stop the timer with a pong nobody asked for, see HandlePong.)
EnqueueReturns ==
  \A p \in Producers : (~misbehave /\ ppc[p] = "blocked") ~> ppc[p] = "idle"

\* Disconnect cancels the session: once done is closed, both goroutines of
\* the peer, the reader in handleConn and the writer in handleQueues, return
\* (spec section 5, Cancellation), even if the remote never reads or writes
\* again and the writer is blocked in conn.Write or in its third select.
SessionWindsDown == done ~> (rpc = "exit" /\ wpc = "exit")

=============================================================================
