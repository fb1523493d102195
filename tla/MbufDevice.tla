----------------------------- MODULE MbufDevice -----------------------------
(***************************************************************************)
(* dpdk::Device (src/network/dpdk/device.{h,cpp}), RxPacket and TxPacket   *)
(* (packet.h), with ArpHandler, the one user of the send queue: who owns   *)
(* each mbuf of the pool that the processes share.                         *)
(*                                                                         *)
(* The worker holds at most one RxPacket (raw_packet of run_worker) and    *)
(* the TxPackets of the handler it is in.  A handler that throws ends the  *)
(* worker: its packets are released, tcp::Client's destructor may still    *)
(* send a RST (an exception there ends the process), then ~Device runs.    *)
(* The pool is created by the dpdk_master process and outlives the         *)
(* gateway, which may be started again.  The NIC is external: it takes     *)
(* mbufs from the pool for what it receives, and gives back what it sent.  *)
(***************************************************************************)
EXTENDS Naturals, FiniteSets, Sequences, Functions

CONSTANTS
  Mbufs,               \* the buffers of the pool
  kReceiveBurstSize,
  kSendBurstSize,
  MaxTxPackets,        \* TxPackets a handler holds at once: connect holds two
  MaxRestarts          \* how often the gateway is started again

VARIABLES
  pool,                \* free buffers
  rx_ring, tx_ring,    \* received, not yet polled; given to the NIC to send
  receive_mbufs, current_recieve_mbuf_idx, send_mbufs,
  rx_packet, tx_packets,
  lost,                \* released from a TxPacket, not taken by the NIC
  unread,              \* in receive_mbufs of a Device that was destroyed
  abandoned,           \* held by a process that died without unwinding
  worker,              \* "running", "unwinding" or "down"
  restarts

received == <<receive_mbufs, current_recieve_mbuf_idx>>
packets == <<rx_packet, tx_packets>>
gone == <<lost, unread, abandoned>>
process == <<worker, restarts>>
vars == <<pool, rx_ring, tx_ring, received, send_mbufs, packets, gone, process>>

ASSUME DeviceAssumption ==
  /\ IsFiniteSet(Mbufs)
  /\ kReceiveBurstSize \in Nat \ {0}
  /\ kSendBurstSize \in Nat \ {0}
  /\ MaxTxPackets \in Nat
  /\ MaxRestarts \in Nat

Init ==
  /\ pool = Mbufs
  /\ rx_ring = <<>> /\ tx_ring = <<>>
  /\ receive_mbufs = <<>> /\ current_recieve_mbuf_idx = 0
  /\ send_mbufs = <<>>
  /\ rx_packet = {} /\ tx_packets = {}
  /\ lost = {} /\ unread = {} /\ abandoned = {}
  /\ worker = "running" /\ restarts = 0

Minimum(m, n) == IF m < n THEN m ELSE n

-----------------------------------------------------------------------------
\* The NIC.
NicReceives ==
  /\ \E m \in pool :
       /\ pool' = pool \ {m}
       /\ rx_ring' = Append(rx_ring, m)
  /\ UNCHANGED <<tx_ring, received, send_mbufs, packets, gone, process>>

NicTransmits ==
  /\ tx_ring # <<>>
  /\ pool' = pool \cup {Head(tx_ring)}
  /\ tx_ring' = Tail(tx_ring)
  /\ UNCHANGED <<rx_ring, received, send_mbufs, packets, gone, process>>

-----------------------------------------------------------------------------
\* How the worker ends.

\* What receive_mbufs holds that no RxPacket has taken.
Rest == SubSeq(receive_mbufs, current_recieve_mbuf_idx + 1, Len(receive_mbufs))
Unread == Range(Rest)

\* An exception leaves run_worker's loop: the packets still held are released.
Throw(held, queue) ==
  /\ pool' = pool \cup held
  /\ rx_packet' = {} /\ tx_packets' = {}
  /\ send_mbufs' = queue
  /\ worker' = "unwinding"
  /\ UNCHANGED <<received, unread, abandoned, restarts>>

\* An exception during unwinding, from a noexcept destructor: std::terminate.
Terminate(held) ==
  /\ abandoned' = abandoned \cup held \cup Unread \cup Range(send_mbufs)
  /\ rx_packet' = {} /\ tx_packets' = {}
  /\ receive_mbufs' = <<>> /\ current_recieve_mbuf_idx' = 0 /\ send_mbufs' = <<>>
  /\ worker' = "down"
  /\ UNCHANGED <<pool, unread, restarts>>

\* The process is killed.
Crash ==
  /\ worker # "down"
  /\ Terminate(rx_packet \cup tx_packets)
  /\ UNCHANGED <<rx_ring, tx_ring, lost>>

\* is_stopped() between two packets.
Stop ==
  /\ worker = "running" /\ rx_packet = {} /\ tx_packets = {}
  /\ worker' = "unwinding"
  /\ UNCHANGED <<pool, rx_ring, tx_ring, received, send_mbufs, packets, gone, restarts>>

\* ~Device with the loop that its FIXME has commented out.
DestroyFreeingAll ==
  /\ worker = "unwinding" /\ tx_packets = {}
  /\ pool' = pool \cup Range(send_mbufs) \cup Range(receive_mbufs)
  /\ receive_mbufs' = <<>> /\ current_recieve_mbuf_idx' = 0 /\ send_mbufs' = <<>>
  /\ worker' = "down"
  /\ UNCHANGED <<rx_ring, tx_ring, packets, gone, restarts>>

\* ~Device: the send queue is freed, the rest of receive_mbufs is not.  ~Dpdk
\* has called rte_eal_cleanup before it destroys its devices, so that a free
\* may also end the process: that outcome is Crash.
Destroy ==
  /\ worker = "unwinding" /\ tx_packets = {}
  /\ pool' = pool \cup Range(send_mbufs)
  /\ unread' = unread \cup Unread
  /\ receive_mbufs' = <<>> /\ current_recieve_mbuf_idx' = 0 /\ send_mbufs' = <<>>
  /\ worker' = "down"
  /\ UNCHANGED <<rx_ring, tx_ring, packets, lost, abandoned, restarts>>

\* The gateway is started again: a new Device on the same pool and queue.
Restart ==
  /\ worker = "down"
  /\ restarts < MaxRestarts
  /\ restarts' = restarts + 1
  /\ worker' = "running"
  /\ UNCHANGED <<pool, rx_ring, tx_ring, received, send_mbufs, packets, gone>>

-----------------------------------------------------------------------------
\* A receive that polls for every packet, whatever the last burst has left.
ReceivePollingAlways ==
  /\ worker = "running" /\ rx_packet = {} /\ tx_packets = {}
  /\ LET n == Minimum(Len(rx_ring), kReceiveBurstSize)
     IN /\ receive_mbufs' = SubSeq(rx_ring, 1, n)
        /\ rx_ring' = SubSeq(rx_ring, n + 1, Len(rx_ring))
        /\ rx_packet' = IF n > 0 THEN {rx_ring[1]} ELSE {}
        /\ current_recieve_mbuf_idx' = Minimum(n, 1)
  /\ UNCHANGED <<pool, tx_ring, send_mbufs, tx_packets, gone, process>>

\* A receive whose index is not reset when a burst comes.
ReceiveIndexKept ==
  /\ worker = "running" /\ rx_packet = {} /\ tx_packets = {}
  /\ LET polls == current_recieve_mbuf_idx = Len(receive_mbufs)
         n == IF polls THEN Minimum(Len(rx_ring), kReceiveBurstSize) ELSE 0
         burst == IF polls THEN SubSeq(rx_ring, 1, n) ELSE receive_mbufs
         at == current_recieve_mbuf_idx
     IN /\ receive_mbufs' = burst
        /\ rx_ring' = SubSeq(rx_ring, n + 1, Len(rx_ring))
        /\ rx_packet' = IF at < Len(burst) THEN {burst[at + 1]} ELSE {}
        /\ current_recieve_mbuf_idx' = IF at < Len(burst) THEN at + 1 ELSE at
  /\ UNCHANGED <<pool, tx_ring, send_mbufs, tx_packets, gone, process>>

\* receive(): a burst when the last one is used up, then its next packet.
\* clear_receive_queue is this and ReleaseRx until nothing comes.
Receive ==
  /\ worker = "running" /\ rx_packet = {} /\ tx_packets = {}
  /\ LET polls == current_recieve_mbuf_idx = Len(receive_mbufs)
         n == IF polls THEN Minimum(Len(rx_ring), kReceiveBurstSize) ELSE 0
         burst == IF polls THEN SubSeq(rx_ring, 1, n) ELSE receive_mbufs
         at == IF polls THEN 0 ELSE current_recieve_mbuf_idx
     IN /\ receive_mbufs' = burst
        /\ rx_ring' = SubSeq(rx_ring, n + 1, Len(rx_ring))
        /\ \/ /\ at < Len(burst)
              /\ rx_packet' = {burst[at + 1]}
              /\ current_recieve_mbuf_idx' = at + 1
           \/ /\ at = Len(burst)
              /\ current_recieve_mbuf_idx' = at
              /\ UNCHANGED rx_packet
  /\ UNCHANGED <<pool, tx_ring, send_mbufs, tx_packets, gone, process>>

\* ~RxPacket, at the end of the loop's body.
ReleaseRx ==
  /\ worker = "running" /\ rx_packet # {} /\ tx_packets = {}
  /\ pool' = pool \cup rx_packet
  /\ rx_packet' = {}
  /\ UNCHANGED <<rx_ring, tx_ring, received, send_mbufs, tx_packets, gone, process>>

-----------------------------------------------------------------------------
\* get_send_buffer(): rte_pktmbuf_alloc; "Nullptr in tx_packet" when the pool
\* is empty.  tcp::Client calls it while it handles a packet, when it
\* connects, and from its destructor.
GetSendBuffer ==
  /\ worker # "down"
  /\ Cardinality(tx_packets) < MaxTxPackets
  /\ \/ /\ \E m \in pool :
             /\ pool' = pool \ {m}
             /\ tx_packets' = tx_packets \cup {m}
        /\ UNCHANGED <<received, send_mbufs, rx_packet, unread, abandoned, process>>
     \/ pool = {} /\ worker = "running" /\ Throw(rx_packet \cup tx_packets, send_mbufs)
     \/ pool = {} /\ worker = "unwinding" /\ Terminate(tx_packets)
  /\ UNCHANGED <<rx_ring, tx_ring, lost>>

\* A send whose REQUIRE on the burst is gone.
SendPacketUnchecked(m) ==
  /\ worker # "down" /\ m \in tx_packets
  /\ tx_packets' = tx_packets \ {m}
  /\ \/ tx_ring' = Append(tx_ring, m) /\ UNCHANGED lost
     \/ lost' = lost \cup {m} /\ UNCHANGED tx_ring
  /\ UNCHANGED <<pool, rx_ring, received, send_mbufs, rx_packet, unread, abandoned, process>>

\* enqueue_for_send(TxPacket, size): the packet is released first, so a burst
\* that the NIC does not take leaves the mbuf without an owner.
SendPacket(m) ==
  /\ worker # "down" /\ m \in tx_packets
  /\ \/ /\ tx_ring' = Append(tx_ring, m)
        /\ tx_packets' = tx_packets \ {m}
        /\ UNCHANGED <<pool, received, send_mbufs, rx_packet, gone, process>>
     \/ /\ lost' = lost \cup {m}
        /\ \/ worker = "running" /\ Throw(rx_packet \cup (tx_packets \ {m}), send_mbufs)
           \/ worker = "unwinding" /\ Terminate(tx_packets \ {m})
        /\ UNCHANGED tx_ring
  /\ UNCHANGED rx_ring

\* ~TxPacket of a buffer that was not sent.
DropTx(m) ==
  /\ worker # "down" /\ m \in tx_packets
  /\ pool' = pool \cup {m}
  /\ tx_packets' = tx_packets \ {m}
  /\ UNCHANGED <<rx_ring, tx_ring, received, send_mbufs, rx_packet, gone, process>>

-----------------------------------------------------------------------------
\* flush_send_queue: what the NIC did not take moves to the front.
AfterBurst(queue, sent) == SubSeq(queue, sent + 1, Len(queue))

\* How much of a queue rte_eth_tx_burst may take.
Bursts(queue) == 0 .. Len(queue)

\* The flush at the start of enqueue_for_send(size): only a full queue.
FlushedFirst(queue) == IF Len(queue) = kSendBurstSize THEN Bursts(queue) ELSE {0}

\* ArpHandler::handle_packet for a request of this host's address:
\* enqueue_for_send(size), which throws on an empty pool, then the flush.
\* Every other ARP packet changes nothing.
ArpReply ==
  /\ worker = "running" /\ rx_packet # {} /\ tx_packets = {}
  /\ \E first \in FlushedFirst(send_mbufs) :
       LET left == AfterBurst(send_mbufs, first)
           sent == SubSeq(send_mbufs, 1, first)
       IN \/ \E m \in pool :
               LET queue == Append(left, m)
               IN /\ \E n \in Bursts(queue) :
                       /\ tx_ring' = tx_ring \o sent \o SubSeq(queue, 1, n)
                       /\ send_mbufs' = AfterBurst(queue, n)
                  /\ pool' = pool \ {m}
                  /\ UNCHANGED <<received, packets, unread, abandoned, process>>
          \/ /\ pool = {}
             /\ tx_ring' = tx_ring \o sent
             /\ Throw(rx_packet, left)
  /\ UNCHANGED <<rx_ring, lost>>

-----------------------------------------------------------------------------
Next ==
  \/ NicReceives
  \/ NicTransmits
  \/ Crash
  \/ Stop
  \/ Destroy
  \/ Restart
  \/ Receive
  \/ ReleaseRx
  \/ GetSendBuffer
  \/ \E m \in Mbufs : SendPacket(m) \/ DropTx(m)
  \/ ArpReply

Spec == Init /\ [][Next]_vars

\* The worker polls again and again, and its handlers end: connect and the
\* handler of a frame send a few packets and leave no TxPacket behind, so that
\* the loop comes to the end of its body and to its next receive().
FairSpec ==
  /\ Spec
  /\ []<>(tx_packets = {})
  /\ SF_vars(ReleaseRx)
  /\ SF_vars(Receive)

-----------------------------------------------------------------------------
\* The state has the types of the code; the index never passes the burst.
TypeOK ==
  /\ \A S \in {pool, rx_packet, tx_packets, lost, unread, abandoned} : S \subseteq Mbufs
  /\ \A q \in {rx_ring, tx_ring, receive_mbufs, send_mbufs} : Range(q) \subseteq Mbufs
  /\ current_recieve_mbuf_idx \in 0 .. Len(receive_mbufs)
  /\ Len(receive_mbufs) <= kReceiveBurstSize
  /\ worker \in {"running", "unwinding", "down"}
  /\ restarts \in 0 .. MaxRestarts

\* How many places hold the mbuf m.
In(m, S) == IF m \in S THEN 1 ELSE 0
Times(m, q) == Cardinality({i \in DOMAIN q : q[i] = m})
Holders(m) ==
  In(m, pool) + In(m, rx_packet) + In(m, tx_packets) + In(m, lost) + In(m, unread) + In(m, abandoned)
    + Times(m, rx_ring) + Times(m, tx_ring) + Times(m, send_mbufs) + Times(m, Rest)

\* Every mbuf has exactly one owner at any time: none is freed twice, sent
\* while it is queued, or dropped unseen, over partial bursts, exceptions in
\* handlers and in unwinding, and restarts.  The entries of receive_mbufs
\* before the index are no longer owned: the loop that ~Device has commented
\* out ("FIXME segfaults") would free them a second time.
OneOwner == \A m \in Mbufs : Holders(m) = 1

\* What a gateway that is not killed takes from the pool for ever is bounded
\* at each start: the packets of a burst after the first (~Device does not
\* free them) and two failed sends, one that throws out of the loop and the
\* RST of ~Client after it.
LeakPerStart ==
  /\ Cardinality(unread) <= (restarts + 1) * (kReceiveBurstSize - 1)
  /\ Cardinality(lost) <= 2 * (restarts + 1)

\* A frame that the NIC has received is handed to the worker, in spite of
\* bursts, partly used ones included, unless the worker ends.
FramesArrive ==
  \A m \in Mbufs : (worker = "running" /\ m \in Range(rx_ring)) ~> (m \in rx_packet \/ worker # "running")
=============================================================================
