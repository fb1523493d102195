--------------------------- MODULE TcpFramesProofs ---------------------------
(***************************************************************************)
(* What tcp::Client guarantees for every width, window, segment size and   *)
(* initial number, and every sequence of received segments; and what the   *)
(* frames are worth that it and ArpHandler send, for every payload size    *)
(* and send buffer.                                                        *)
(*                                                                         *)
(* The invariant of the first half, IInv, is TypeOK, SendAccounting and    *)
(* the state before connect().  The second half goes through the views of  *)
(* PacketView; its invariant, FramesInv, says which payload sizes are sent *)
(* and that every ARP frame is a reply of this host.                       *)
(***************************************************************************)
EXTENDS TcpFrames, TLAPS

-----------------------------------------------------------------------------
(* Sequence-number arithmetic. *)

\* Numbers stay in the sequence space.
LEMMA SeqPlusClosed ==
  ASSUME NEW a \in SeqNumbers, NEW n \in 0 .. Half - 1
  PROVE  SeqPlus(a, n) \in SeqNumbers
BY HalfAssumption DEF SeqPlus, Wrap, SeqNumbers, Modulus

\* Also when a size has wrapped.
LEMMA SeqPlusWrapped ==
  ASSUME NEW a \in SeqNumbers, NEW n \in 0 .. Modulus - 1
  PROVE  SeqPlus(a, n) \in SeqNumbers
BY HalfAssumption DEF SeqPlus, Wrap, SeqNumbers, Modulus

LEMMA SeqMinusClosed ==
  ASSUME NEW a \in SeqNumbers, NEW b \in SeqNumbers
  PROVE  SeqMinus(a, b) \in SeqNumbers
BY HalfAssumption DEF SeqMinus, Wrap, SeqNumbers, Modulus

\* Advancing twice is advancing by the sum: send adds to seq what it adds to
\* unacknowledged_bytes.
LEMMA SeqPlusSum ==
  ASSUME NEW a \in SeqNumbers, NEW m \in 0 .. Half - 1, NEW n \in 0 .. Half - 1
  PROVE  SeqPlus(SeqPlus(a, m), n) = SeqPlus(a, m + n)
BY HalfAssumption DEF SeqPlus, Wrap, SeqNumbers, Modulus

\* Moving the base of the flight forward by what was acknowledged keeps its
\* end: process_packet subtracts bytes_acked and stores received_ack.
LEMMA FlightEndKept ==
  ASSUME NEW base \in SeqNumbers, NEW received \in SeqNumbers, NEW u \in 0 .. Half - 1,
         SeqMinus(received, base) <= u
  PROVE  /\ u - SeqMinus(received, base) \in 0 .. Half - 1
         /\ SeqPlus(received, u - SeqMinus(received, base)) = SeqPlus(base, u)
BY HalfAssumption DEF SeqPlus, SeqMinus, Wrap, SeqNumbers, Modulus

\* A number is not after one less than half the space further on.
LEMMA ForwardIsLeq ==
  ASSUME NEW a \in SeqNumbers, NEW n \in 0 .. Half - 1
  PROVE  SeqLeq(a, SeqPlus(a, n))
BY HalfAssumption DEF SeqLeq, SeqGreater, SeqLess, SeqMinus, SeqPlus, Wrap, SeqNumbers, Modulus

-----------------------------------------------------------------------------
(* Received segments, and what is sent in answer. *)

SentType == Seq([flags : Flags, seq : SeqNumbers, ack : SeqNumbers, len : Nat])

\* The fields process_packet reads are of their types.
LEMMA SegmentFields ==
  ASSUME NEW p \in AnySegment
  PROVE  /\ p.seq \in SeqNumbers /\ p.ack \in SeqNumbers
         /\ p.window \in Windows /\ p.len \in 0 .. Modulus - 1
         /\ p.options.shift \in Scales
<1>1. 0 \in SeqNumbers /\ 0 \in Windows /\ 0 \in 0 .. Modulus - 1 /\ 0 \in Scales
  BY HalfAssumption, WindowAssumption DEF SeqNumbers, Modulus
<1>2. \A o \in Options \cup NoOptions : o.shift \in Scales
  BY <1>1, Zenon DEF Options, NoOptions
<1>3. \A len \in Sizes : len \in 0 .. Modulus - 1
  <2>1. \A len \in RecvSizes : len \in 0 .. Half - 1
    BY WindowAssumption, Zenon
  <2>2. \A k \in Shortfalls : k \in 1 .. Half
    BY WindowAssumption, Zenon
  <2>3. QED
    BY <2>1, <2>2, HalfAssumption DEF Sizes, Modulus
<1>4. CASE p \in SynAckSegments
  BY <1>1, <1>2, <1>3, <1>4, Zenon DEF SynAckSegments
<1>5. CASE p \in AckSegments
  BY <1>1, <1>2, <1>3, <1>5, Zenon DEF AckSegments
<1>6. CASE p \in RstSegments
  BY <1>1, <1>2, <1>6, Zenon DEF RstSegments
<1>7. QED
  BY <1>4, <1>5, <1>6, Zenon DEF AnySegment

\* The window taken over from a header is positive and below half the space.
LEMMA WindowInRange ==
  ASSUME NEW p \in AnySegment, TypeOK
  PROVE  WindowAfter(p) \in 1 .. Half - 1
<1>1. p.window \in Windows /\ peer_window_scale \in Scales
  BY SegmentFields, Zenon DEF TypeOK
<1>2. PeerWindow(p) \in 0 .. Half - 1
  BY <1>1, WindowAssumption, Zenon DEF PeerWindow
<1>3. QED
  BY <1>2, HalfAssumption DEF WindowAfter, TypeOK

\* What Throw and Return leave behind is well typed.
LEMMA ThrowType ==
  ASSUME NEW e \in Faults, Throw(e)
  PROVE  fault' \in Faults /\ life' \in Lives /\ sent' \in SentType
BY DEF Throw, Lives, SentType

LEMMA ReturnType ==
  ASSUME TypeOK, NEW segments \in SentType, NEW n, Return(segments, n)
  PROVE  fault' \in Faults /\ life' \in Lives /\ sent' \in SentType
<1>1. "Not enough space" \in Faults /\ "unwinding" \in Lives
  BY Zenon DEF Faults, Lives
<1>2. QED
  BY <1>1, Zenon DEF Return, TypeOK

(***************************************************************************)
(* SendSegment: whichever way it goes, the two counters move together, by  *)
(* n (0 when it throws before the counters move), and only within w.       *)
(***************************************************************************)
LEMMA SendSegmentEffect ==
  ASSUME TypeOK,
         NEW flags \in Flags, NEW len \in Nat,
         NEW s \in SeqNumbers, NEW a \in SeqNumbers,
         NEW u \in 0 .. Half - 1, NEW w \in 1 .. Half - 1, NEW pushed,
         SendSegment(flags, len, s, a, u, w, pushed)
  PROVE  /\ \E n \in 0 .. Half - 1 :
              /\ seq' = SeqPlus(s, n)
              /\ unacknowledged_bytes' = u + n
              /\ u + n \in 0 .. Half - 1
              /\ n > 0 => u + n <= w
         /\ fault' \in Faults /\ life' \in Lives /\ sent' \in SentType
<1> USE HalfAssumption
<1>1. SeqPlus(s, 0) = s
  BY DEF SeqPlus, Wrap, SeqNumbers, Modulus
<1>2. CASE /\ seq' = s
           /\ unacknowledged_bytes' = u
           /\ \E e \in Faults : Throw(e)
  BY <1>1, <1>2, ThrowType
<1>3. CASE /\ u + len <= w
           /\ seq' = SeqPlus(s, len)
           /\ unacknowledged_bytes' = u + len
           /\ \/ Return(<<Segment(flags, s, a, len)>>, pushed)
              \/ Throw("failed to send")
  <2>0. u + len <= w
    BY <1>3, Zenon
  <2>1. len \in 0 .. Half - 1 /\ u + len \in 0 .. Half - 1
    BY <2>0
  <2>2. <<Segment(flags, s, a, len)>> \in SentType
    BY DEF SentType, Segment
  <2>3. "failed to send" \in Faults
    BY DEF Faults
  <2>4. fault' \in Faults /\ life' \in Lives /\ sent' \in SentType
    BY <1>3, <2>2, <2>3, ThrowType, ReturnType, Zenon
  <2>5. QED
    BY <1>3, <2>1, <2>4, Zenon
<1>4. {"Nullptr in tx_packet", "window is full"} \subseteq Faults
  BY DEF Faults
<1>5. QED
  BY <1>2, <1>3, <1>4, Zenon DEF SendSegment

-----------------------------------------------------------------------------
(* The invariant. *)

\* The state connect() starts from.
BeforeConnect ==
  state = "Offline" /\ life = "running" =>
    unacknowledged_bytes = 0 /\ seq = last_ack_number

IInv == TypeOK /\ SendAccounting /\ BeforeConnect

\* The constructor establishes the invariant.
LEMMA InitIInv == Init => IInv
<1> SUFFICES ASSUME Init PROVE IInv
  BY Zenon
<1> USE HalfAssumption, WindowAssumption
<1>1. state = "Offline" /\ fault = "none" /\ life = "running" /\ sent = <<>>
  BY DEF Init
<1>2. state \in States /\ fault \in Faults /\ life \in Lives
  BY <1>1, Zenon DEF States, Faults, Lives
<1>3. /\ seq \in SeqNumbers /\ ack \in SeqNumbers /\ last_ack_number \in SeqNumbers
      /\ peer_window_scale \in Scales
  BY DEF Init, SeqNumbers, Modulus
<1>4. unacknowledged_bytes \in 0 .. Half - 1 /\ send_wnd \in 1 .. Half - 1
  BY Zenon DEF Init
<1>5. TypeOK
  BY <1>1, <1>2, <1>3, <1>4 DEF TypeOK
<1>6. SendAccounting
  BY <1>1, Zenon DEF SendAccounting
<1>7. BeforeConnect
  BY DEF Init, BeforeConnect
<1>8. QED
  BY <1>5, <1>6, <1>7, Zenon DEF IInv

\* connect(): the SYN is counted as sent and not yet in seq.
LEMMA ConnectIInv == IInv /\ Connect => IInv'
<1> SUFFICES ASSUME IInv, Connect PROVE IInv'
  OBVIOUS
<1> USE HalfAssumption, WindowAssumption
<1>1. TypeOK /\ BeforeConnect /\ state = "Offline" /\ life = "running"
  BY Zenon DEF IInv, Connect
<1>2. CASE UNCHANGED conn /\ Throw("Nullptr in tx_packet")
  <2>1. "Nullptr in tx_packet" \in Faults
    BY DEF Faults
  <2>2. fault' \in Faults /\ life' \in Lives /\ sent' \in SentType
    BY <1>2, <2>1, ThrowType, Zenon
  <2>3. TypeOK'
    BY <1>1, <1>2, <2>2, Zenon DEF TypeOK, conn, SentType
  <2>4. state' = "Offline" /\ life' = "unwinding"
    BY <1>1, <1>2, Zenon DEF conn, Throw
  <2>5. QED
    BY <2>3, <2>4, Zenon DEF IInv, SendAccounting, BeforeConnect
<1>3. CASE /\ state' = "Connecting"
           /\ UNCHANGED <<seq, ack, last_ack_number, send_wnd, peer_window_scale>>
           /\ unacknowledged_bytes' = 1
           /\ Return(<<Segment("SYN", seq, ack, 0)>>, 0)
  <2>1. <<Segment("SYN", seq, ack, 0)>> \in SentType
    BY <1>1 DEF Segment, SentType, TypeOK, Flags
  <2>2. fault' \in Faults /\ life' \in Lives /\ sent' \in SentType
    BY <1>1, <1>3, <2>1, ReturnType, Zenon
  <2>3. 1 \in 0 .. Half - 1
    OBVIOUS
  <2>4. TypeOK'
    BY <1>1, <1>3, <2>2, <2>3, Zenon DEF TypeOK, SentType, States
  <2>5. SeqPlus(seq', 1) = SeqPlus(last_ack_number', unacknowledged_bytes')
    BY <1>1, <1>3 DEF BeforeConnect
  <2>6. QED
    BY <1>3, <2>4, <2>5, Zenon DEF IInv, SendAccounting, BeforeConnect
<1>4. CASE /\ state' = "Connecting"
           /\ UNCHANGED <<seq, ack, last_ack_number, send_wnd, peer_window_scale>>
           /\ UNCHANGED unacknowledged_bytes
           /\ \E e \in {"Nullptr in tx_packet", "failed to send"} : Throw(e)
  <2>1. {"Nullptr in tx_packet", "failed to send"} \subseteq Faults
    BY DEF Faults
  <2>2. fault' \in Faults /\ life' \in Lives /\ sent' \in SentType
    BY <1>4, <2>1, ThrowType, Zenon
  <2>3. TypeOK'
    BY <1>1, <1>4, <2>2, Zenon DEF TypeOK, SentType, States
  <2>4. life' = "unwinding"
    BY <1>4, Zenon DEF Throw
  <2>5. QED
    BY <1>4, <2>3, <2>4, Zenon DEF IInv, SendAccounting, BeforeConnect
<1>5. QED
  BY <1>2, <1>3, <1>4, Zenon DEF Connect

\* A payload of the layer above: seq and unacknowledged_bytes move together.
LEMMA SendIInv ==
  ASSUME NEW len \in SendSizes, IInv, Send(len)
  PROVE  IInv'
<1> USE HalfAssumption
<1>0. len \in Nat /\ "PSH_ACK" \in Flags
  BY WindowAssumption, Zenon DEF Flags
<1>1. /\ TypeOK /\ SendAccounting
      /\ life = "running" /\ state \in {"Connecting", "Connected"}
  BY Zenon DEF IInv, Send, TypeOK, States
<1>2. PICK n \in 0 .. Half - 1 :
        /\ seq' = SeqPlus(seq, n)
        /\ unacknowledged_bytes' = unacknowledged_bytes + n
        /\ unacknowledged_bytes + n \in 0 .. Half - 1
  BY <1>0, <1>1, SendSegmentEffect DEF Send, TypeOK
<1>3. fault' \in Faults /\ life' \in Lives /\ sent' \in SentType
  BY <1>0, <1>1, SendSegmentEffect, Zenon DEF Send, TypeOK
<1>4. UNCHANGED <<state, ack, last_ack_number, send_wnd, peer_window_scale>>
  BY Zenon DEF Send
<1>5. seq' \in SeqNumbers
  BY <1>1, <1>2, SeqPlusClosed, Zenon DEF TypeOK
<1>6. TypeOK'
  BY <1>1, <1>2, <1>3, <1>4, <1>5, Zenon DEF TypeOK, SentType
<1>7. ASSUME state = "Connected"
      PROVE  seq' = SeqPlus(last_ack_number', unacknowledged_bytes')
  BY <1>1, <1>2, <1>4, <1>7, SeqPlusSum DEF TypeOK, SendAccounting
<1>8. ASSUME state = "Connecting"
      PROVE  SeqPlus(seq', 1) = SeqPlus(last_ack_number', unacknowledged_bytes')
  BY <1>1, <1>2, <1>4, <1>8
  DEF TypeOK, SendAccounting, SeqPlus, Wrap, SeqNumbers, Modulus
<1>9. QED
  BY <1>1, <1>4, <1>6, <1>7, <1>8, Zenon DEF IInv, SendAccounting, BeforeConnect

\* process_packet throws, or returns early, before it changes a counter.
LEMMA RejectIInv ==
  ASSUME NEW p \in AnySegment, IInv,
         RejectPacket(p) \/ IgnoreOldPacket(p) \/ RejectAck(p)
  PROVE  IInv'
<1>1. TypeOK /\ life = "running" /\ state # "Offline"
  BY Zenon DEF IInv, RejectPacket, IgnoreOldPacket, RejectAck, Receiving
<1>2. UNCHANGED <<state, seq, ack, last_ack_number, unacknowledged_bytes, peer_window_scale>>
  BY Zenon DEF RejectPacket, IgnoreOldPacket, RejectAck, conn
<1>3. send_wnd' \in 1 .. Half - 1
  BY <1>1, WindowInRange, Zenon DEF RejectPacket, IgnoreOldPacket, RejectAck, conn, TypeOK
<1>4. fault' \in Faults /\ life' \in Lives /\ sent' \in SentType
  <2>1. CASE Return(<<>>, p.len)
    <3>1. <<>> \in SentType
      BY DEF SentType
    <3>2. QED
      BY <1>1, <2>1, <3>1, ReturnType, Zenon
  <2>2. CASE \E e \in {"Tcp packet is not valid", "rst received", "Misses are not supported",
                       "ack is not expected to decrease",
                       "Unexpected bytes got acknowledged"} : Throw(e)
    <3>1. {"Tcp packet is not valid", "rst received", "Misses are not supported",
           "ack is not expected to decrease",
           "Unexpected bytes got acknowledged"} \subseteq Faults
      BY Zenon DEF Faults
    <3>2. QED
      BY <2>2, <3>1, ThrowType, Zenon
  <2>3. QED
    BY <2>1, <2>2, Zenon DEF RejectPacket, IgnoreOldPacket, RejectAck
<1>5. TypeOK'
  BY <1>1, <1>2, <1>3, <1>4, Zenon DEF TypeOK, SentType
<1>6. QED
  BY <1>1, <1>2, <1>5 DEF IInv, SendAccounting, BeforeConnect

\* What AckOk gives the three accepting paths: the flight keeps its end.
LEMMA AcceptedFlight ==
  ASSUME NEW p \in AnySegment, TypeOK, AckOk(p)
  PROVE  /\ unacknowledged_bytes - BytesAcked(p) \in 0 .. Half - 1
         /\ unacknowledged_bytes - BytesAcked(p) <= unacknowledged_bytes
         /\ SeqPlus(p.ack, unacknowledged_bytes - BytesAcked(p))
              = SeqPlus(last_ack_number, unacknowledged_bytes)
<1>1. p.ack \in SeqNumbers /\ last_ack_number \in SeqNumbers
  BY SegmentFields, Zenon DEF TypeOK
<1>2. SeqMinus(p.ack, last_ack_number) \in SeqNumbers
  BY <1>1, SeqMinusClosed, Zenon
<1>3. /\ unacknowledged_bytes \in 0 .. Half - 1
      /\ SeqMinus(p.ack, last_ack_number) <= unacknowledged_bytes
  BY Zenon DEF AckOk, BytesAcked, TypeOK
<1>4. /\ unacknowledged_bytes - SeqMinus(p.ack, last_ack_number) \in 0 .. Half - 1
      /\ SeqPlus(p.ack, unacknowledged_bytes - SeqMinus(p.ack, last_ack_number))
           = SeqPlus(last_ack_number, unacknowledged_bytes)
  BY <1>1, <1>3, FlightEndKept, Zenon
<1>5. unacknowledged_bytes - SeqMinus(p.ack, last_ack_number) <= unacknowledged_bytes
  BY <1>2, <1>3, HalfAssumption DEF SeqNumbers, Modulus
<1>6. QED
  BY <1>4, <1>5, Zenon DEF BytesAcked

\* An acknowledgment that needs no answer.
LEMMA AckOnlyIInv ==
  ASSUME NEW p \in AnySegment, IInv, AcceptAckOnly(p)
  PROVE  IInv'
<1>1. TypeOK /\ SendAccounting /\ AckOk(p) /\ life = "running" /\ state # "Offline"
  BY Zenon DEF IInv, AcceptAckOnly, Receiving
<1>2. /\ UNCHANGED <<state, seq, ack, peer_window_scale>>
      /\ last_ack_number' = p.ack
      /\ unacknowledged_bytes' = unacknowledged_bytes - BytesAcked(p)
      /\ send_wnd' = WindowAfter(p)
  BY DEF AcceptAckOnly
<1>3. <<>> \in SentType
  BY DEF SentType
<1>4. fault' \in Faults /\ life' \in Lives /\ sent' \in SentType
  BY <1>1, <1>3, ReturnType, Zenon DEF AcceptAckOnly
<1>5. TypeOK'
  BY <1>1, <1>2, <1>4, SegmentFields, WindowInRange, AcceptedFlight, Zenon DEF TypeOK, SentType
<1>6. SeqPlus(last_ack_number', unacknowledged_bytes')
        = SeqPlus(last_ack_number, unacknowledged_bytes)
  BY <1>1, <1>2, AcceptedFlight
<1>7. QED
  BY <1>1, <1>2, <1>5, <1>6, Zenon DEF IInv, SendAccounting, BeforeConnect

\* In-order payload on a connection: the ACK that answers it carries no bytes.
LEMMA PayloadIInv ==
  ASSUME NEW p \in AnySegment, IInv, AcceptPayload(p)
  PROVE  IInv'
<1> DEFINE u == unacknowledged_bytes - BytesAcked(p)
<1>1. /\ TypeOK /\ SendAccounting /\ AckOk(p) /\ state = "Connected"
      /\ UNCHANGED <<state, peer_window_scale>>
      /\ last_ack_number' = p.ack /\ ack' = SeqPlus(p.seq, p.len)
      /\ send_wnd' = WindowAfter(p)
      /\ SendSegment("ACK", 0, seq, ack', u, send_wnd', p.len)
  BY Zenon DEF IInv, AcceptPayload, Receiving
<1>2. send_wnd' \in 1 .. Half - 1 /\ u \in 0 .. Half - 1 /\ last_ack_number' \in SeqNumbers
  BY <1>1, WindowInRange, AcceptedFlight, SegmentFields, Zenon
<1>3. ack' \in SeqNumbers
  <2>1. p.len \in 0 .. Modulus - 1 /\ p.seq \in SeqNumbers
    BY SegmentFields, Zenon
  <2>2. QED
    BY <1>1, <2>1, SeqPlusWrapped, Zenon
<1>4. "ACK" \in Flags /\ 0 \in Nat /\ seq \in SeqNumbers
  <2>1. "ACK" \in Flags /\ 0 \in Nat
    BY Zenon DEF Flags
  <2>2. QED
    BY <1>1, <2>1, Zenon DEF TypeOK
<1> HIDE DEF u
<1>5. PICK n \in 0 .. Half - 1 :
        seq' = SeqPlus(seq, n) /\ unacknowledged_bytes' = u + n /\ u + n \in 0 .. Half - 1
  <2>1. TypeOK /\ SendSegment("ACK", 0, seq, ack', u, send_wnd', p.len)
    BY <1>1, Zenon
  <2>2. QED
    BY <1>2, <1>3, <1>4, <2>1, SendSegmentEffect
<1>6. fault' \in Faults /\ life' \in Lives /\ sent' \in SentType
  BY <1>1, <1>2, <1>3, <1>4, SendSegmentEffect, Zenon
<1>7. seq' \in SeqNumbers
  BY <1>4, <1>5, SeqPlusClosed, Zenon
<1>8. TypeOK'
  BY <1>1, <1>2, <1>3, <1>5, <1>6, <1>7, Zenon DEF TypeOK, SentType
<1>9. seq = SeqPlus(p.ack, u)
  BY <1>1, AcceptedFlight, Zenon DEF SendAccounting, u
<1>10. seq' = SeqPlus(last_ack_number', unacknowledged_bytes')
  BY <1>1, <1>2, <1>5, <1>9, SeqPlusSum, Zenon
<1>11. QED
  BY <1>1, <1>8, <1>10, Zenon DEF IInv, SendAccounting, BeforeConnect

\* The SYN-ACK: seq catches up with the SYN that was already counted.
LEMMA SynAckIInv ==
  ASSUME NEW p \in AnySegment, IInv, AcceptSynAck(p)
  PROVE  IInv'
<1> DEFINE u == unacknowledged_bytes - BytesAcked(p)
<1> DEFINE s == SeqPlus(seq, 1)
<1>1. /\ TypeOK /\ SendAccounting /\ AckOk(p) /\ state = "Connecting" /\ life = "running"
      /\ state' = "Connected"
      /\ last_ack_number' = p.ack /\ ack' = SeqPlus(p.seq, 1)
      /\ send_wnd' = WindowAfter(p)
  BY Zenon DEF IInv, AcceptSynAck, Receiving, CompletesHandshake
<1>2. 1 \in 0 .. Half - 1
  BY HalfAssumption, WindowAssumption
<1>3. send_wnd' \in 1 .. Half - 1 /\ u \in 0 .. Half - 1 /\ last_ack_number' \in SeqNumbers
  BY <1>1, WindowInRange, AcceptedFlight, SegmentFields, Zenon
<1>4. ack' \in SeqNumbers /\ s \in SeqNumbers
  BY <1>1, <1>2, SegmentFields, SeqPlusClosed, Zenon DEF TypeOK
<1>5. s = SeqPlus(p.ack, u)
  BY <1>1, AcceptedFlight DEF SendAccounting
<1>6. peer_window_scale' \in Scales
  BY <1>1, SegmentFields, Zenon DEF AcceptSynAck, TypeOK
<1>7. \/ /\ seq' = s /\ unacknowledged_bytes' = u
         /\ Throw("Invalid length field")
      \/ SendSegment("ACK", 0, s, ack', u, send_wnd', p.len)
  BY Zenon DEF AcceptSynAck
<1> HIDE DEF u, s
<1>8. /\ \E n \in 0 .. Half - 1 :
           seq' = SeqPlus(s, n) /\ unacknowledged_bytes' = u + n /\ u + n \in 0 .. Half - 1
      /\ fault' \in Faults /\ life' \in Lives /\ sent' \in SentType
  <2>1. CASE seq' = s /\ unacknowledged_bytes' = u /\ Throw("Invalid length field")
    <3>1. "Invalid length field" \in Faults
      BY DEF Faults
    <3>2. fault' \in Faults /\ life' \in Lives /\ sent' \in SentType
      BY <2>1, <3>1, ThrowType, Zenon
    <3>3. SeqPlus(s, 0) = s
      BY <1>4, HalfAssumption DEF SeqPlus, Wrap, SeqNumbers, Modulus
    <3>4. 0 \in 0 .. Half - 1 /\ u + 0 = u
      BY <1>3, HalfAssumption
    <3>5. QED
      BY <1>3, <2>1, <3>2, <3>3, <3>4, Zenon
  <2>2. CASE SendSegment("ACK", 0, s, ack', u, send_wnd', p.len)
    <3>1. "ACK" \in Flags /\ 0 \in Nat
      BY Zenon DEF Flags
    <3>2. QED
      BY <1>1, <1>3, <1>4, <2>2, <3>1, SendSegmentEffect
  <2>3. QED
    BY <1>7, <2>1, <2>2, Zenon
<1>9. PICK n \in 0 .. Half - 1 :
        seq' = SeqPlus(s, n) /\ unacknowledged_bytes' = u + n /\ u + n \in 0 .. Half - 1
  BY <1>8, Zenon
<1>10. seq' \in SeqNumbers
  BY <1>4, <1>9, SeqPlusClosed, Zenon
<1>11. state' \in States
  BY <1>1, Zenon DEF States
<1>12. TypeOK'
  BY <1>3, <1>4, <1>6, <1>8, <1>9, <1>10, <1>11, Zenon DEF TypeOK, SentType
<1>13. seq' = SeqPlus(last_ack_number', unacknowledged_bytes')
  BY <1>1, <1>3, <1>5, <1>9, SeqPlusSum, Zenon
<1>14. QED
  BY <1>1, <1>12, <1>13 DEF IInv, SendAccounting, BeforeConnect

\* The end of the worker loop and the destructor.
LEMMA EndIInv ==
  ASSUME IInv, Stop \/ Destroy
  PROVE  IInv'
<1>1. /\ TypeOK
      /\ UNCHANGED <<seq, ack, last_ack_number, unacknowledged_bytes, send_wnd,
                     peer_window_scale, fault>>
  BY Zenon DEF IInv, Stop, Destroy, conn
<1>2. life' \in {"unwinding", "destroyed", "terminated"}
  BY Zenon DEF Stop, Destroy
<1>3. state' = state \/ state' = "Offline"
  BY Zenon DEF Stop, Destroy, conn
<1>4. sent' = <<>> \/ sent' = <<Segment("RST", seq, ack, 0)>>
  BY DEF Stop, Destroy
<1>5. sent' \in SentType
  <2>1. "RST" \in Flags
    BY Zenon DEF Flags
  <2>2. Segment("RST", seq, ack, 0)
          \in [flags : Flags, seq : SeqNumbers, ack : SeqNumbers, len : Nat]
    BY <1>1, <2>1, Zenon DEF Segment, TypeOK
  <2>3. <<>> \in SentType /\ <<Segment("RST", seq, ack, 0)>> \in SentType
    BY <2>2 DEF SentType
  <2>4. QED
    BY <1>4, <2>3, Zenon
<1>6. TypeOK'
  BY <1>1, <1>2, <1>3, <1>5, Zenon DEF TypeOK, SentType, States, Lives
<1>7. QED
  BY <1>1, <1>2, <1>3, <1>6, Zenon DEF IInv, SendAccounting, BeforeConnect

\* Every step preserves the invariant.
LEMMA NextIInv == IInv /\ [Next]_vars => IInv'
<1> SUFFICES ASSUME IInv, [Next]_vars PROVE IInv'
  OBVIOUS
<1>1. CASE Connect
  BY <1>1, ConnectIInv, Zenon
<1>2. CASE \E len \in SendSizes : Send(len)
  BY <1>2, SendIInv, Zenon
<1>3. CASE \E p \in AnySegment : ProcessPacket(p)
  BY <1>3, RejectIInv, SynAckIInv, PayloadIInv, AckOnlyIInv, Zenon DEF ProcessPacket
<1>4. CASE Stop \/ Destroy
  BY <1>4, EndIInv, Zenon
<1>5. CASE UNCHANGED vars
  BY <1>5, Zenon DEF vars, conn, IInv, TypeOK, SendAccounting, BeforeConnect
<1>6. QED
  BY <1>1, <1>2, <1>3, <1>4, <1>5, Zenon DEF Next

\* IInv holds in every reachable state.
LEMMA Invariance == Spec => []IInv
BY InitIInv, NextIInv, PTL DEF Spec

-----------------------------------------------------------------------------
(***************************************************************************)
(* The members of tcp::Client keep their types; in particular the bytes in *)
(* flight stay below half the sequence space, so that comparing sequence   *)
(* numbers is never ambiguous for them.                                    *)
(***************************************************************************)
THEOREM TypeCorrect == Spec => []TypeOK
BY Invariance, PTL DEF IInv

(***************************************************************************)
(* SendAccounting: seq = last_ack_number + unacknowledged_bytes on every   *)
(* connection, whatever is received and wherever an exception leaves.      *)
(***************************************************************************)
THEOREM SendAccountingHolds == Spec => []SendAccounting
BY Invariance, PTL DEF IInv

(***************************************************************************)
(* WindowRespected: a step that puts bytes in flight ends within the send  *)
(* window then in force, for every window and scale the peer announces.    *)
(***************************************************************************)
THEOREM WindowIsRespected == Spec => WindowRespected
<1> DEFINE A == unacknowledged_bytes' > unacknowledged_bytes
                  => unacknowledged_bytes' <= send_wnd'
<1>1. IInv /\ [Next]_vars => [A]_vars
  <2> SUFFICES ASSUME IInv, Next, unacknowledged_bytes' > unacknowledged_bytes
               PROVE  unacknowledged_bytes' <= send_wnd'
    BY Zenon
  <2> USE HalfAssumption, WindowAssumption
  <2>1. TypeOK /\ unacknowledged_bytes \in 0 .. Half - 1
    BY DEF IInv, TypeOK
  <2>2. CASE Connect
    <3>1. CASE UNCHANGED unacknowledged_bytes
      BY <2>1, <3>1
    <3>2. CASE unacknowledged_bytes' = 1 /\ send_wnd' = send_wnd
      BY <2>1, <3>2 DEF TypeOK
    <3>3. QED
      BY <2>2, <3>1, <3>2, Zenon DEF Connect, conn
  <2>3. ASSUME NEW flags \in Flags, NEW len \in Nat, NEW s \in SeqNumbers,
               NEW u \in 0 .. Half - 1, u <= unacknowledged_bytes,
               ack' \in SeqNumbers, send_wnd' \in 1 .. Half - 1, NEW pushed,
               SendSegment(flags, len, s, ack', u, send_wnd', pushed)
        PROVE  unacknowledged_bytes' <= send_wnd'
    <3>1. PICK n \in 0 .. Half - 1 :
            unacknowledged_bytes' = u + n /\ (n > 0 => u + n <= send_wnd')
      BY <2>1, <2>3, SendSegmentEffect, Zenon
    <3>2. n > 0
      BY <2>1, <2>3, <3>1
    <3>3. QED
      BY <3>1, <3>2, Zenon
  <2>4. ASSUME NEW len \in SendSizes, Send(len)
        PROVE  unacknowledged_bytes' <= send_wnd'
    <3>1. "PSH_ACK" \in Flags /\ len \in Nat
      BY Zenon DEF Flags
    <3>2. send_wnd' = send_wnd /\ ack' = ack
      BY <2>4, Zenon DEF Send
    <3>3. /\ send_wnd \in 1 .. Half - 1 /\ ack \in SeqNumbers /\ seq \in SeqNumbers
          /\ unacknowledged_bytes <= unacknowledged_bytes
      BY <2>1 DEF TypeOK
    <3>4. SendSegment("PSH_ACK", len, seq, ack', unacknowledged_bytes, send_wnd', 0)
      BY <2>4, <3>2, Zenon DEF Send
    <3>5. QED
      BY <2>1, <2>3, <3>1, <3>2, <3>3, <3>4, Zenon
  <2>5. ASSUME NEW p \in AnySegment, ProcessPacket(p)
        PROVE  unacknowledged_bytes' <= send_wnd'
    <3>1. send_wnd' \in 1 .. Half - 1 /\ ack' \in SeqNumbers
      BY <2>5, NextIInv, Zenon DEF IInv, TypeOK, Next
    <3>2. ASSUME AckOk(p)
          PROVE  /\ unacknowledged_bytes - BytesAcked(p) \in 0 .. Half - 1
                 /\ unacknowledged_bytes - BytesAcked(p) <= unacknowledged_bytes
      BY <2>1, <3>2, AcceptedFlight, Zenon
    <3>3. seq \in SeqNumbers /\ SeqPlus(seq, 1) \in SeqNumbers
      BY <2>1, SeqPlusClosed DEF TypeOK
    <3>4. "ACK" \in Flags /\ 0 \in Nat
      BY DEF Flags
    <3>5. CASE RejectPacket(p) \/ IgnoreOldPacket(p) \/ RejectAck(p)
      <4>1. unacknowledged_bytes' = unacknowledged_bytes
        BY <3>5, Zenon DEF RejectPacket, IgnoreOldPacket, RejectAck, conn
      <4>2. QED
        BY <2>1, <4>1
    <3>6. CASE AcceptAckOnly(p)
      <4>1. AckOk(p) /\ unacknowledged_bytes' = unacknowledged_bytes - BytesAcked(p)
        BY <3>6, Zenon DEF AcceptAckOnly
      <4>2. QED
        BY <2>1, <3>2, <4>1
    <3>7. CASE AcceptPayload(p)
      <4>1. AckOk(p) /\ SendSegment("ACK", 0, seq, ack',
                                    unacknowledged_bytes - BytesAcked(p), send_wnd', p.len)
        BY <3>7 DEF AcceptPayload
      <4>2. QED
        BY <2>3, <3>1, <3>2, <3>3, <3>4, <4>1, Zenon
    <3>8. CASE AcceptSynAck(p)
      <4>1. AckOk(p)
        BY <3>8, Zenon DEF AcceptSynAck
      <4>2. CASE unacknowledged_bytes' = unacknowledged_bytes - BytesAcked(p)
        BY <2>1, <3>2, <4>1, <4>2
      <4>3. CASE SendSegment("ACK", 0, SeqPlus(seq, 1), ack',
                             unacknowledged_bytes - BytesAcked(p), send_wnd', p.len)
        BY <2>3, <3>1, <3>2, <3>3, <3>4, <4>1, <4>3, Zenon
      <4>4. QED
        BY <3>8, <4>2, <4>3, Zenon DEF AcceptSynAck
    <3>9. QED
      BY <2>5, <3>5, <3>6, <3>7, <3>8, Zenon DEF ProcessPacket
  <2>6. CASE Stop \/ Destroy
    <3>1. unacknowledged_bytes' = unacknowledged_bytes
      BY <2>6, Zenon DEF Stop, Destroy, conn
    <3>2. QED
      BY <2>1, <3>1
  <2>7. QED
    BY <2>2, <2>4, <2>5, <2>6, Zenon DEF Next
<1>2. QED
  BY <1>1, Invariance, PTL DEF Spec, WindowRespected

\* A packet whose payload size has wrapped ends the session: the answer to it
\* throws, or the push does.
LEMMA WrappedSizeThrows ==
  ASSUME NEW p, p.len \in Nat, p.len >= Half, AcceptPayload(p)
  PROVE  life' # "running"
<1>1. ~ (p.len < Half)
  BY HalfAssumption
<1>2. QED
  BY <1>1, Zenon DEF AcceptPayload, SendSegment, Throw, Return

(***************************************************************************)
(* AckNeverRegresses: what a client that goes on acknowledges only moves   *)
(* forward, from any acknowledgment number other than 0, whatever segments *)
(* arrive, those with a total_length below their headers included.         *)
(***************************************************************************)
THEOREM AckMovesForward == Spec => AckNeverRegresses
<1>1. IInv /\ [Next]_vars => [ack # 0 /\ life' = "running" => SeqLeq(ack, ack')]_vars
  <2> SUFFICES ASSUME IInv, Next, ack # 0, life' = "running"
               PROVE  SeqLeq(ack, ack')
    OBVIOUS
  <2>1. TypeOK
    BY Zenon DEF IInv
  <2>2. ASSUME NEW p \in AnySegment, AcceptPayload(p) \/ AcceptSynAck(p)
        PROVE  SeqLeq(ack, ack')
    <3>1. p.seq = ack
      BY <2>2, Zenon DEF AcceptPayload, AcceptSynAck, InSequence, Expected
    <3>2. p.len \in 0 .. Modulus - 1
      BY SegmentFields, Zenon
    <3>3. AcceptPayload(p) => p.len \in 0 .. Half - 1
      <4>1. p.len \in Nat
        BY <3>2
      <4>2. AcceptPayload(p) => ~ (p.len >= Half)
        BY <4>1, WrappedSizeThrows, Zenon
      <4>3. QED
        BY <4>1, <4>2, HalfAssumption
    <3>4. 1 \in 0 .. Half - 1
      BY HalfAssumption, WindowAssumption
    <3>5. \/ p.len \in 0 .. Half - 1 /\ ack' = SeqPlus(ack, p.len)
          \/ ack' = SeqPlus(ack, 1)
      BY <2>2, <3>1, <3>3, Zenon DEF AcceptPayload, AcceptSynAck
    <3>6. QED
      BY <2>1, <3>4, <3>5, ForwardIsLeq, Zenon DEF TypeOK
  <2>3. CASE ack' = ack
    BY <2>3, Zenon DEF SeqLeq, SeqGreater
  <2>4. QED
    BY <2>2, <2>3, Zenon
    DEF Next, Connect, Send, ProcessPacket, RejectPacket, IgnoreOldPacket, RejectAck,
        AcceptAckOnly, Stop, Destroy, conn
<1>2. QED
  BY <1>1, Invariance, PTL DEF Spec, AckNeverRegresses

-----------------------------------------------------------------------------
(* The views. *)

\* A 16-bit field reads back the value stored in it.
LEMMA BigEndianRoundTrip == \A v \in Nat : v < 65536 => Value(BE(v)) = v
<1> SUFFICES ASSUME NEW v \in Nat, v < 65536 PROVE Value(BE(v)) = v
  OBVIOUS
<1>1. 2^8 = 256 /\ 2^16 = 65536
  BY SMT
<1>2. v % 65536 = v /\ v = 256 * (v \div 256) + (v % 256)
  OBVIOUS
<1>3. BE(v) = <<v \div 256, v % 256>>
  BY <1>1, <1>2 DEF BE
<1>4. QED
  BY <1>1, <1>2, <1>3 DEF Value

\* The options block is a whole number of header words.
LEMMA OptionsBlockWords == Len(kDefaultOptionsBlock) = 12
BY DEF kDefaultOptionsBlock, BE

\* A payload that leaves total_length within its 16 bits, behind headers of at
\* most 52 bytes.
Fits(n) == n \in Nat /\ n + 52 < 2^16

\* resize_payload over headers that init has written: is_valid, payload() and
\* data_offset() agree on the sizes, before and after padding.
TcpFields == {"type", "protocol", "size", "ihl", "total_length", "data_offset_scaled",
              "flags", "seq", "ack", "options"}

LEMMA ResizedPackets ==
  ASSUME NEW b, DOMAIN b = TcpFields, b.ihl = 5,
         NEW words \in {5, 8}, b.data_offset_scaled = words, 4 * words = TcpHeader + Len(b.options),
         NEW n, Fits(n)
  PROVE  LET f == ResizePayload(b, n)
         IN /\ IsValid(f) /\ Payload(f) = n
            /\ IsValid(Padded(f)) /\ Payload(Padded(f)) = n
            /\ DataOffset(Padded(f)) = TcpHeader + Len(Padded(f).options)
            /\ Padded(f).options = b.options
<1> DEFINE f == ResizePayload(b, n)
           ip == 20 + 4 * words + n
<1>1. n \in Nat /\ words \in Nat /\ ip \in Nat /\ ip < 65536
  <2>1. 2^16 = 65536
    BY SMT
  <2>2. QED
    BY <2>1 DEF Fits
<1>2. /\ f.ihl = 5 /\ f.data_offset_scaled = words
      /\ f.total_length = BE(ip) /\ f.size = 14 + ip
      /\ DOMAIN f = TcpFields /\ f.options = b.options
  <2>1. PICK e : e = ResizeEthernet(b, ip)
    BY Zenon
  <2>2. /\ e.ihl = 5 /\ e.data_offset_scaled = words /\ e.size = 14 + ip
        /\ e.options = b.options /\ DOMAIN e = TcpFields
    BY <2>1 DEF ResizeEthernet, EthernetHeader, TcpFields
  <2>3. f = [e EXCEPT !.total_length = BE(e.size - 14)]
    <3>1. 4 * b.ihl + (4 * b.data_offset_scaled + n) = ip
      BY <1>1
    <3>2. QED
      BY <2>1, <3>1, Zenon
      DEF ResizePayload, ResizeIp, EthPayload, IpHeaderSize, DataOffset, EthernetHeader
  <2>4. e.size - 14 = ip
    BY <1>1, <2>2
  <2>5. QED
    BY <2>2, <2>3, <2>4 DEF TcpFields
<1> HIDE DEF f
<1>3. /\ Padded(f).ihl = 5 /\ Padded(f).data_offset_scaled = words
      /\ Padded(f).total_length = BE(ip)
      /\ Padded(f).size = IF 14 + ip < 60 THEN 60 ELSE 14 + ip
      /\ Padded(f).options = b.options
  BY <1>2 DEF Padded, MinimumFrame, TcpFields
<1>4. Value(BE(ip)) = ip
  BY <1>1, BigEndianRoundTrip
<1>5. IsValid(f) /\ Payload(f) = n
  BY <1>1, <1>2, <1>4
  DEF IsValid, Payload, IpPayload, SizeMinus, EthPayload, IpHeaderSize, DataOffset, EthernetHeader
<1>6. IsValid(Padded(f)) /\ Payload(Padded(f)) = n
  BY <1>1, <1>3, <1>4
  DEF IsValid, Payload, IpPayload, SizeMinus, EthPayload, IpHeaderSize, DataOffset, EthernetHeader
<1>7. DataOffset(Padded(f)) = TcpHeader + Len(Padded(f).options)
  BY <1>3 DEF DataOffset
<1>8. QED
  BY <1>3, <1>5, <1>6, <1>7, Zenon DEF f

\* The headers that init writes, with and without options.
LEMMA InitHeaders ==
  ASSUME NEW room, NEW flags, NEW s, NEW a
  PROVE  /\ LET b == InitTcp(room, flags, s, a, TRUE)
            IN /\ DOMAIN b = TcpFields /\ b.ihl = 5 /\ b.data_offset_scaled = 8
               /\ b.options = kDefaultOptionsBlock /\ 4 * 8 = TcpHeader + Len(b.options)
         /\ LET b == InitTcp(room, flags, s, a, FALSE)
            IN /\ DOMAIN b = TcpFields /\ b.ihl = 5 /\ b.data_offset_scaled = 5
               /\ b.options = <<>> /\ 4 * 5 = TcpHeader + Len(b.options)
<1>1. ASSUME NEW b, b = InitTcp(room, flags, s, a, TRUE)
      PROVE  /\ DOMAIN b = TcpFields /\ b.ihl = 5 /\ b.data_offset_scaled = 8
             /\ b.options = kDefaultOptionsBlock /\ 4 * 8 = TcpHeader + Len(b.options)
  <2>1. b.ihl = 5 /\ b.options = kDefaultOptionsBlock /\ DOMAIN b = TcpFields
    BY <1>1 DEF InitTcp, InitIp, TcpFields
  <2>2. b.data_offset_scaled = TcpHeader \div 4 + Len(kDefaultOptionsBlock) \div 4
    BY <1>1 DEF InitTcp
  <2>3. QED
    BY <2>1, <2>2, OptionsBlockWords DEF TcpHeader
<1>2. ASSUME NEW b, b = InitTcp(room, flags, s, a, FALSE)
      PROVE  /\ DOMAIN b = TcpFields /\ b.ihl = 5 /\ b.data_offset_scaled = 5
             /\ b.options = <<>> /\ 4 * 5 = TcpHeader + Len(b.options)
  <2>1. b.ihl = 5 /\ b.options = <<>> /\ DOMAIN b = TcpFields
    BY <1>2 DEF InitTcp, InitIp, TcpFields
  <2>2. b.data_offset_scaled = TcpHeader \div 4 + 0
    BY <1>2 DEF InitTcp
  <2>3. QED
    BY <2>1, <2>2 DEF TcpHeader
<1>3. QED
  BY <1>1, <1>2, Zenon

(***************************************************************************)
(* A packet that init and resize_payload have built is valid for is_valid, *)
(* and payload() has the size asked for, before and after the NIC pads the *)
(* frame to 60 bytes: total_length, which padding leaves alone, is below   *)
(* is_valid's bound whenever there is padding; and data_offset() is where  *)
(* the options end.                                                        *)
(***************************************************************************)
THEOREM BuiltPacketsAreValid ==
  ASSUME NEW room, NEW flags, NEW s, NEW a, NEW options \in BOOLEAN, NEW n, Fits(n)
  PROVE  LET f == ResizePayload(InitTcp(room, flags, s, a, options), n)
         IN /\ IsValid(f) /\ Payload(f) = n
            /\ IsValid(Padded(f)) /\ Payload(Padded(f)) = n
            /\ DataOffset(Padded(f)) = TcpHeader + Len(Padded(f).options)
            /\ Padded(f).options = IF options THEN kDefaultOptionsBlock ELSE <<>>
<1>1. CASE options = TRUE
  <2>1. PICK b : b = InitTcp(room, flags, s, a, TRUE)
    BY Zenon
  <2>2. /\ DOMAIN b = TcpFields /\ b.ihl = 5 /\ b.data_offset_scaled = 8
        /\ b.options = kDefaultOptionsBlock /\ 4 * 8 = TcpHeader + Len(b.options)
    BY <2>1, InitHeaders, Zenon
  <2>3. QED
    BY <1>1, <2>1, <2>2, ResizedPackets, Zenon
<1>2. CASE options = FALSE
  <2>1. PICK b : b = InitTcp(room, flags, s, a, FALSE)
    BY Zenon
  <2>2. /\ DOMAIN b = TcpFields /\ b.ihl = 5 /\ b.data_offset_scaled = 5
        /\ b.options = <<>> /\ 4 * 5 = TcpHeader + Len(b.options)
    BY <2>1, InitHeaders, Zenon
  <2>3. QED
    BY <1>2, <2>1, <2>2, ResizedPackets, Zenon
<1>3. QED
  BY <1>1, <1>2, Zenon

-----------------------------------------------------------------------------
\* What parse_options returns is what a table of its results that agrees with the
\* loop has at offset 0, once there is such a table.
LEMMA ParseTable ==
  ASSUME NEW bytes, NEW table, table = [i \in 0 .. Len(bytes) |-> ParseFrom(bytes, table, i)]
  PROVE  \E g : g = [i \in 0 .. Len(bytes) |-> ParseFrom(bytes, g, i)] /\ ParseOptions(bytes) = g[0]
<1> DEFINE found == CHOOSE g : g = [i \in 0 .. Len(bytes) |-> ParseFrom(bytes, g, i)]
<1>1. found = [i \in 0 .. Len(bytes) |-> ParseFrom(bytes, found, i)]
  BY Zenon
<1>2. ParseOptions(bytes) = found[0]
  BY Zenon DEF ParseOptions
<1> HIDE DEF found
<1>3. QED
  BY <1>1, <1>2, Zenon

\* A segment without options.
LEMMA NoOptionsParsed == ParseOptions(<<>>).kind # BadOptions
<1> DEFINE table == [i \in 0 .. Len(<<>>) |-> NoScaleFound]
<1>1. \A g, i : i \in 0 .. Len(<<>>) => ParseFrom(<<>>, g, i) = NoScaleFound
  BY DEF ParseFrom
<1>2. table = [i \in 0 .. Len(<<>>) |-> ParseFrom(<<>>, table, i)]
  BY <1>1, Zenon
<1>3. PICK g : /\ g = [i \in 0 .. Len(<<>>) |-> ParseFrom(<<>>, g, i)]
               /\ ParseOptions(<<>>) = g[0]
  BY <1>2, ParseTable, Zenon
<1>4. 0 \in 0 .. Len(<<>>)
  OBVIOUS
<1>5. g[0] = ParseFrom(<<>>, g, 0)
  BY <1>3, <1>4, Zenon
<1>6. ParseOptions(<<>>) = NoScaleFound
  BY <1>1, <1>3, <1>4, <1>5, Zenon
<1>7. NoScaleFound.kind # BadOptions
  BY Zenon DEF NoScaleFound, BadOptions
<1>8. QED
  BY <1>6, <1>7, Zenon

\* The options of a SYN: results for all offsets, those that no turn reaches too.
LEMMA DefaultOptionsParsed == ParseOptions(kDefaultOptionsBlock).kind # BadOptions
<1> DEFINE b == kDefaultOptionsBlock
           table == [i \in 0 .. 12 |-> IF i \in {2, 3, 7} THEN Malformed
                                       ELSE IF i \in {0, 1, 4, 6} THEN ScaleFound(0)
                                       ELSE NoScaleFound]
<1>1. BE(1460) = <<5, 180>>
  <2>1. 2^8 = 256 /\ 2^16 = 65536
    BY SMT
  <2>2. 1460 % 65536 = 1460 /\ 1460 \div 256 = 5 /\ 1460 % 256 = 180
    BY SMT
  <2>3. QED
    BY <2>1, <2>2 DEF BE
<1>2. /\ Len(b) = 12 /\ b[1] = 2 /\ b[2] = 4 /\ b[3] = 5 /\ b[4] = 180 /\ b[5] = 4 /\ b[6] = 2
      /\ b[7] = 3 /\ b[8] = 3 /\ b[9] = 0 /\ b[10] = 0 /\ b[11] = 0 /\ b[12] = 0
  BY <1>1 DEF kDefaultOptionsBlock
<1> HIDE DEF b
<1>3. /\ NoScaleFound # ScaleFound(0) /\ Malformed # NoScaleFound
      /\ NoScaleFound.kind # BadOptions /\ ScaleFound(0).kind # BadOptions
  BY Zenon DEF NoScaleFound, ScaleFound, Malformed, BadOptions
<1>4. \A g :
        /\ ParseFrom(b, g, 2) = Malformed /\ ParseFrom(b, g, 7) = Malformed
        /\ ParseFrom(b, g, 0) = g[4] /\ ParseFrom(b, g, 1) = g[6] /\ ParseFrom(b, g, 3) = g[7]
        /\ ParseFrom(b, g, 4) = g[6] /\ ParseFrom(b, g, 5) = g[8]
        /\ ParseFrom(b, g, 6) = IF g[9] = NoScaleFound THEN ScaleFound(0) ELSE g[9]
        /\ \A i \in 8 .. 12 : ParseFrom(b, g, i) = NoScaleFound
  BY <1>2 DEF ParseFrom, OptionStep
<1>5. table = [i \in 0 .. Len(b) |-> ParseFrom(b, table, i)]
  <2>1. \A i \in 0 .. 12 : table[i] = ParseFrom(b, table, i)
    <3>1. /\ table[9] = NoScaleFound /\ table[8] = NoScaleFound /\ table[6] = ScaleFound(0)
          /\ table[7] = Malformed /\ table[4] = ScaleFound(0) 
      OBVIOUS
    <3>2. QED
      BY <1>4, <3>1
  <2>2. table = [i \in 0 .. 12 |-> table[i]]
    BY Zenon
  <2> HIDE DEF table
  <2>3. QED
    BY <1>2, <2>1, <2>2
<1> HIDE DEF table
<1>6. PICK g : /\ g = [i \in 0 .. Len(b) |-> ParseFrom(b, g, i)]
               /\ ParseOptions(b) = g[0]
  BY <1>5, ParseTable, Zenon
<1>7. \A i \in 0 .. 12 : g[i] = ParseFrom(b, g, i)
  BY <1>2, <1>6
<1>8. g[9] = NoScaleFound /\ g[6] = ScaleFound(0) /\ g[4] = g[6] /\ g[0] = g[4]
  BY <1>4, <1>7
<1>9. QED
  BY <1>3, <1>6, <1>8 DEF b

-----------------------------------------------------------------------------
(* The frames of the dispatch. *)

SentSizes == \A i \in DOMAIN sent : sent[i].len \in SendSizes \cup {0}
OwnReplies == \A i \in DOMAIN replies : \E h : replies[i] = ArpReply("gateway", h)
FramesInv == SentSizes /\ OwnReplies

\* A step sends nothing, or one segment.
LEMMA ThrowSizes == \A what : Throw(what) => SentSizes'
BY DEF Throw, SentSizes

LEMMA ReturnSizes ==
  /\ \A n : Return(<<>>, n) => SentSizes'
  /\ \A flags, s, a, n : \A len \in SendSizes \cup {0} :
       Return(<<Segment(flags, s, a, len)>>, n) => SentSizes'
<1>1. ASSUME NEW n, Return(<<>>, n)
      PROVE  SentSizes'
  <2>1. sent' = <<>>
    BY <1>1, Zenon DEF Return
  <2>2. QED
    BY <2>1 DEF SentSizes
<1>2. ASSUME NEW flags, NEW s, NEW a, NEW n, NEW len \in SendSizes \cup {0},
             Return(<<Segment(flags, s, a, len)>>, n)
      PROVE  SentSizes'
  <2>1. sent' = <<Segment(flags, s, a, len)>>
    BY <1>2, Zenon DEF Return
  <2>2. Segment(flags, s, a, len).len = len
    BY DEF Segment
  <2>3. QED
    BY <2>1, <2>2 DEF SentSizes
<1>3. QED
  BY <1>1, <1>2, Zenon

LEMMA SendSizesKept ==
  ASSUME NEW flags, NEW len \in SendSizes \cup {0}, NEW s, NEW a, NEW u, NEW w, NEW n,
         SendSegment(flags, len, s, a, u, w, n)
  PROVE  SentSizes'
BY ThrowSizes, ReturnSizes, Zenon DEF SendSegment

LEMMA ProcessSizes ==
  ASSUME NEW p, ProcessPacket(p)
  PROVE  SentSizes'
<1>0. 0 \in SendSizes \cup {0}
  OBVIOUS
<1>1. CASE RejectPacket(p)
  BY <1>1, ThrowSizes, Zenon DEF RejectPacket
<1>2. CASE IgnoreOldPacket(p)
  BY <1>2, ReturnSizes, Zenon DEF IgnoreOldPacket
<1>3. CASE RejectAck(p)
  BY <1>3, ThrowSizes, Zenon DEF RejectAck
<1>4. CASE AcceptSynAck(p)
  BY <1>0, <1>4, ThrowSizes, SendSizesKept, Zenon DEF AcceptSynAck
<1>5. CASE AcceptPayload(p)
  BY <1>0, <1>5, SendSizesKept, Zenon DEF AcceptPayload
<1>6. CASE AcceptAckOnly(p)
  BY <1>6, ReturnSizes, Zenon DEF AcceptAckOnly
<1>7. QED
  BY <1>1, <1>2, <1>3, <1>4, <1>5, <1>6, Zenon DEF ProcessPacket

LEMMA ArpFramesKept ==
  ASSUME NEW f, HandleArp(f)
  PROVE  FramesInv'
<1>1. SentSizes'
  BY ThrowSizes, ReturnSizes, Zenon DEF HandleArp
<1>2. replies' = <<>> \/ replies' = <<ArpReply("gateway", f.sender)>>
  BY Zenon DEF HandleArp
<1>3. OwnReplies'
  BY <1>2 DEF OwnReplies
<1>4. QED
  BY <1>1, <1>3 DEF FramesInv

LEMMA FramesInvariance == FramesSpec => []FramesInv
<1>0. ASSUME replies' = <<>>
      PROVE  OwnReplies'
  BY <1>0 DEF OwnReplies
<1>1. FramesInit => FramesInv
  BY DEF FramesInit, Init, FramesInv, SentSizes, OwnReplies
<1>2. FramesInv /\ [FramesNext]_frameVars => FramesInv'
  <2> SUFFICES ASSUME FramesInv, [FramesNext]_frameVars
               PROVE  FramesInv'
    OBVIOUS
  <2>1. ASSUME NEW p, NEW list, HandleTcp(p, list)
        PROVE  FramesInv'
    BY <1>0, <2>1, ProcessSizes, Zenon DEF HandleTcp, FramesInv
  <2>2. ASSUME NEW f, Skip(f)
        PROVE  FramesInv'
    BY <1>0, <2>2, ReturnSizes, Zenon DEF Skip, FramesInv
  <2>3. CASE ReceiveFrame
    BY <2>1, <2>2, <2>3, ArpFramesKept, Zenon DEF ReceiveFrame
  <2>4. CASE Connect /\ replies' = <<>>
    <3>1. 0 \in SendSizes \cup {0}
      OBVIOUS
    <3>2. SentSizes'
      BY <2>4, <3>1, ThrowSizes, ReturnSizes, Zenon DEF Connect
    <3>3. QED
      BY <1>0, <2>4, <3>2, Zenon DEF FramesInv
  <2>5. ASSUME NEW len \in SendSizes, Send(len), replies' = <<>>
        PROVE  FramesInv'
    <3>1. len \in SendSizes \cup {0}
      BY Zenon
    <3>2. SentSizes'
      BY <2>5, <3>1, SendSizesKept, Zenon DEF Send
    <3>3. QED
      BY <1>0, <2>5, <3>2, Zenon DEF FramesInv
  <2>6. CASE (Stop \/ Destroy) /\ replies' = <<>>
    <3>1. CASE sent' = <<>>
      BY <1>0, <2>6, <3>1 DEF FramesInv, SentSizes
    <3>2. CASE sent' = <<Segment("RST", seq, ack, 0)>>
      <4>1. Segment("RST", seq, ack, 0).len = 0
        BY DEF Segment
      <4>2. SentSizes'
        BY <3>2, <4>1 DEF SentSizes
      <4>3. QED
        BY <1>0, <2>6, <4>2, Zenon DEF FramesInv
    <3>3. QED
      BY <2>6, <3>1, <3>2, Zenon DEF Stop, Destroy
  <2>7. CASE UNCHANGED frameVars
    BY <2>7 DEF frameVars, vars, FramesInv, SentSizes, OwnReplies
  <2>8. QED
    BY <2>3, <2>4, <2>5, <2>6, <2>7, Zenon DEF FramesNext
<1>3. QED
  BY <1>1, <1>2, PTL DEF FramesSpec

(***************************************************************************)
(* Every frame that tcp::Client and ArpHandler send is one that the views  *)
(* read back as it was meant, padded or not, whatever the payload sizes    *)
(* and the send buffer are and whatever frames came before.                *)
(***************************************************************************)
THEOREM FramesReadBack == FramesSpec => []FramesRoundTrip
<1>1. ASSUME NEW n \in SendSizes \cup {0}
      PROVE  Fits(Bytes[n])
  <2>1. 2^16 = 65536
    BY SMT
  <2>2. n \in DOMAIN Bytes
    BY WindowAssumption, FramesAssumption, Zenon
  <2>3. Headers = 66
    BY OptionsBlockWords DEF Headers, EthernetHeader, TcpHeader
  <2>4. Bytes[n] \in Nat /\ Room \in Nat /\ Room < 65536
    BY <2>1, <2>2, FramesAssumption
  <2>5. n = 0 \/ 66 + Bytes[n] <= Room
    BY <2>3, FramesAssumption
  <2>6. QED
    BY <2>1, <2>4, <2>5, FramesAssumption DEF Fits
<1>2. ASSUME NEW seg, seg.len \in SendSizes \cup {0}
      PROVE  LET f == Padded(Sent(seg))
             IN /\ IsValid(f) /\ Payload(f) = Bytes[seg.len]
                /\ DataOffset(f) = TcpHeader + Len(f.options)
                /\ ParseOptions(f.options).kind # BadOptions
  <2>1. PICK n : n = Bytes[seg.len] /\ Fits(n)
    BY <1>1, <1>2, Zenon
  <2>2. PICK b : b = InitTcp(Room, seg.flags, seg.seq, seg.ack, seg.flags = "SYN")
    BY Zenon
  <2>3. PICK f : f = Padded(ResizePayload(b, n)) /\ f = Padded(Sent(seg))
    BY <2>1, <2>2, Zenon DEF Sent
  <2>4. PICK words \in {5, 8} :
          /\ DOMAIN b = TcpFields /\ b.ihl = 5 /\ b.data_offset_scaled = words
          /\ 4 * words = TcpHeader + Len(b.options) /\ b.options \in {<<>>, kDefaultOptionsBlock}
    <3>1. DOMAIN b = TcpFields /\ b.ihl = 5
      BY <2>2 DEF InitTcp, InitIp, TcpFields
    <3>2. CASE seg.flags = "SYN"
      <4>1. /\ b.data_offset_scaled = TcpHeader \div 4 + Len(kDefaultOptionsBlock) \div 4
            /\ b.options = kDefaultOptionsBlock
        BY <2>2, <3>2 DEF InitTcp
      <4>2. b.data_offset_scaled = 8 /\ 4 * 8 = TcpHeader + Len(b.options)
        BY <4>1, OptionsBlockWords DEF TcpHeader
      <4>3. QED
        BY <3>1, <4>1, <4>2, Zenon
    <3>3. CASE seg.flags # "SYN"
      <4>1. b.data_offset_scaled = TcpHeader \div 4 + 0 /\ b.options = <<>>
        BY <2>2, <3>3 DEF InitTcp
      <4>2. b.data_offset_scaled = 5 /\ 4 * 5 = TcpHeader + Len(b.options)
        BY <4>1 DEF TcpHeader
      <4>3. QED
        BY <3>1, <4>1, <4>2, Zenon
    <3>4. QED
      BY <3>2, <3>3, Zenon
  <2>5. /\ IsValid(f) /\ Payload(f) = n
        /\ DataOffset(f) = TcpHeader + Len(f.options)
        /\ f.options = b.options
    <3>1. LET g == ResizePayload(b, n)
          IN /\ IsValid(Padded(g)) /\ Payload(Padded(g)) = n
             /\ DataOffset(Padded(g)) = TcpHeader + Len(Padded(g).options)
             /\ Padded(g).options = b.options
      BY <2>1, <2>4, ResizedPackets, Zenon
    <3>2. QED
      BY <2>3, <3>1, Zenon
  <2>6. ParseOptions(f.options).kind # BadOptions
    BY <2>4, <2>5, NoOptionsParsed, DefaultOptionsParsed, Zenon
  <2>7. QED
    BY <2>1, <2>3, <2>5, <2>6, Zenon
<1>3. ASSUME NEW h
      PROVE  LET r == ArpReply("gateway", h)
             IN ArpIsValid(Padded(r)) /\ Padded(r).operation = "Reply"
  BY DEF ArpReply, InitEthernet, PredictSize, Padded, MinimumFrame, ArpIsValid, EthPayload,
         EthernetHeader, ArpHeader
<1>4. FramesInv => FramesRoundTrip
  <2> SUFFICES ASSUME FramesInv
               PROVE  FramesRoundTrip
    OBVIOUS
  <2>1. \A i \in DOMAIN replies :
          ArpIsValid(Padded(replies[i])) /\ Padded(replies[i]).operation = "Reply"
    BY <1>3, Zenon DEF FramesInv, OwnReplies
  <2>2. \A i \in DOMAIN sent : sent[i].len \in SendSizes \cup {0}
    BY DEF FramesInv, SentSizes
  <2>3. QED
    BY <1>2, <2>1, <2>2, Zenon DEF FramesRoundTrip
<1>5. QED
  BY <1>4, FramesInvariance, PTL
=============================================================================
