-------------------------- MODULE TcpNumbersProofs --------------------------
(***************************************************************************)
(* NumbersInv is kept by the steps of the client, so that it holds of      *)
(* every session: no acknowledgment is ahead of what the client sent.      *)
(* With it, BytesInv is kept by what the server sends on its own account   *)
(* and by the network.                                                     *)
(***************************************************************************)
EXTENDS TcpSessionProofs


SendFaults == {"Nullptr in tx_packet", "window is full", "failed to send", "Not enough space"}

\* The push of an empty payload does not throw.
LEMMA ReturnNothing ==
  ASSUME NEW segments, Return(segments, 0)
  PROVE  sent' = segments /\ UNCHANGED <<life, fault>>
<1>1. sent' = segments
  BY Zenon DEF Return
<1>2. 0 < Half /\ ~ (0 >= Half) /\ ~ (0 > 0)
  BY HalfAssumption
<1>3. QED
  BY <1>1, <1>2, Zenon DEF Return

\* send() returns with the counters advanced and one segment out, or throws;
\* or the segment is out and the push that follows throws.
LEMMA SendOutcome ==
  ASSUME NEW flags, NEW len, NEW s, NEW a, NEW u, NEW w, NEW n, SendSegment(flags, len, s, a, u, w, n)
  PROVE  \/ /\ life' = "unwinding" /\ fault' \in SendFaults
            /\ \/ sent' = <<>> /\ fault' # "Not enough space"
               \/ sent' = <<Segment(flags, s, a, len)>>
            /\ seq' \in {s, SeqPlus(s, len)}
         \/ /\ UNCHANGED <<life, fault>>
            /\ sent' = <<Segment(flags, s, a, len)>>
            /\ seq' = SeqPlus(s, len)
            /\ unacknowledged_bytes' = u + len
BY Zenon DEF SendSegment, Throw, Return, SendFaults

\* The wire after a handler that sent nothing, or one segment.
LEMMA TransmitNothing ==
  ASSUME SessionTypes, Transmit, sent' = <<>>
  PROVE  toServer' = toServer /\ Range(sent') = {}
<1>1. toServer \o <<>> = toServer
  BY DEF SessionTypes
<1>2. QED
  BY <1>1 DEF Transmit, Range

LEMMA TransmitOne ==
  ASSUME SessionTypes, Transmit, NEW q \in ClientSegments, sent' = <<q>>
  PROVE  /\ toServer' \in Seq(ClientSegments)
         /\ Range(toServer') = Range(toServer) \cup {q}
         /\ Range(sent') = {q}
<1>1. <<q>> \in Seq(ClientSegments) /\ Range(<<q>>) = {q}
  BY DEF Range
<1>2. toServer \in Seq(ClientSegments) /\ toServer' = toServer \o <<q>>
  BY DEF Transmit, SessionTypes
<1> DEFINE r == <<q>>
<1>3. r \in Seq(ClientSegments) /\ Range(r) = {q} /\ toServer' = toServer \o r /\ sent' = r
  BY <1>1, <1>2
<1> HIDE DEF r
<1>4. QED
  BY <1>2, <1>3, WireJoined

\* What the client that runs sends is a segment of its own.
LEMMA FromRunning ==
  ASSUME SessionTypes', Started', NEW q, NEW k \in 0 .. 1 + ClientBytes,
         q.len \in Nat, q.seq = SeqPlus(iss', k), k + q.len <= 1 + written',
         q.flags = "SYN" => k = 0,
         q.flags = "RST" => life' = "destroyed"
  PROVE  FromClient(q)'
<1>1. iss' \in Clients'
  BY DEF Clients
<1>2. written' \in 0 .. ClientBytes /\ ClientBytes \in Nat
  BY SessionAssumption, Zenon DEF SessionTypes
<1>3. k + q.len <= 1 + ClientBytes
  BY <1>2
<1>4. QED
  BY <1>1, <1>3 DEF FromClient

LEMMA ConnectNumbers ==
  ASSUME NumbersInv, ClientConnect
  PROVE  NumbersInv'
<1> USE SessionAssumption
<1>1. SessionTypes /\ ClientCounts /\ HonestAcksFit /\ Connect /\ Transmit
  BY DEF NumbersInv, ClientConnect
<1>2. UNCHANGED <<srv, iss, toClient, pushed, refused, written, past>>
  BY DEF ClientConnect, counters
<1>3. /\ life = "running" /\ state = "Offline"
      /\ seq = iss /\ last_ack_number = iss /\ unacknowledged_bytes = 0 /\ written = 0
  BY <1>1, Zenon DEF Connect, ClientCounts, Started
<1>4. /\ UNCHANGED <<seq, ack, last_ack_number>>
      /\ \/ life' = "unwinding" /\ sent' = <<>> /\ state' \in {"Offline", "Connecting"}
            /\ fault' \in SendFaults
         \/ life' = "running" /\ state' = "Connecting" /\ unacknowledged_bytes' = 1
            /\ sent' = <<Segment("SYN", seq, ack, 0)>> /\ fault' = fault
  BY <1>1, ReturnNothing, Zenon DEF Connect, Throw, conn, SendFaults
<1>5. HonestAcksFit'
  BY <1>1, <1>2, <1>4, Zenon DEF HonestAcksFit, SendFaults
<1>6. Started' /\ SessionGoesOn
  BY <1>1, <1>2, <1>3, <1>4 DEF SessionGoesOn, Started, SessionTypes
<1>7. iss \in SeqNumbers /\ SeqPlus(iss, 0) = iss
  <2>1. iss \in SeqNumbers
    BY <1>1, Zenon DEF SessionTypes
  <2>2. 0 \in Nat /\ 0 + 0 <= 1 + ClientBytes
    OBVIOUS
  <2>3. QED
    BY <2>1, <2>2, NumbersCount, Zenon
<1>8. ClientCounts'
  BY <1>2, <1>3, <1>4, <1>6, <1>7 DEF ClientCounts
<1>9. CASE life' = "unwinding" /\ sent' = <<>>
  <2>1. toServer' = toServer /\ Range(sent') = {}
    BY <1>1, <1>9, TransmitNothing
  <2>2. SessionTypes'
    BY <1>1, <1>2, <1>4, <1>9, <2>1, Zenon DEF SessionTypes, States, Lives
  <2>3. QED
    BY <1>2, <1>5, <1>6, <1>8, <2>1, <2>2, ClientStep, Zenon
<1>10. CASE life' = "running" /\ state' = "Connecting" /\ sent' = <<Segment("SYN", seq, ack, 0)>>
  <2>1. PICK q : q = Segment("SYN", seq, ack, 0)
    BY Zenon
  <2>2. q \in ClientSegments /\ q.seq = SeqPlus(iss', 0) /\ q.len = 0 /\ q.flags = "SYN"
    BY <1>1, <1>2, <1>3, <1>7, <2>1, Zenon DEF SessionTypes, Segment, ClientSegments
  <2>3. /\ toServer' \in Seq(ClientSegments)
        /\ Range(toServer') = Range(toServer) \cup {q} /\ Range(sent') = {q}
    BY <1>1, <1>10, <2>1, <2>2, TransmitOne, Zenon
  <2>4. SessionTypes'
    BY <1>1, <1>2, <1>4, <1>10, <2>3 DEF SessionTypes, States, Lives
  <2>5. FromClient(q)'
    <3>1. 0 \in 0 .. 1 + ClientBytes /\ q.len \in Nat /\ 0 + q.len <= 1 + written'
      BY <1>2, <1>3, <2>2
    <3>2. QED
      BY <1>6, <2>2, <2>4, <3>1, FromRunning, Zenon
  <2>6. QED
    BY <1>2, <1>5, <1>6, <1>8, <2>3, <2>4, <2>5, ClientStep
<1>11. QED
  BY <1>4, <1>9, <1>10

\* A step of a started client, which sends nothing or one segment: its k-th
\* number, and not beyond what the layers above have written.
SendsOwn ==
  \/ sent' = <<>>
  \/ \E q \in ClientSegments, k \in 0 .. 1 + ClientBytes :
       /\ sent' = <<q>>
       /\ q.seq = SeqPlus(iss, k) /\ k + q.len <= 1 + written'
       /\ q.flags # "SYN" /\ (q.flags = "RST" => life' = "destroyed")

LEMMA ClientSends ==
  ASSUME NumbersInv, SessionGoesOn, UNCHANGED srv, Transmit, SendsOwn, Started',
         state' \in States, life' \in Lives, ack' \in Int,
         seq' \in SeqNumbers, last_ack_number' \in SeqNumbers, written' \in 0 .. ClientBytes,
         toClient' \in Seq(ServerSegments), pushed' \in Seq(Nat \X Nat),
         Range(toClient') \subseteq Range(toClient), ClientCounts', HonestAcksFit'
  PROVE  NumbersInv'
<1>1. SessionTypes
  BY DEF NumbersInv
<1>2. ASSUME toServer' \in Seq(ClientSegments)
      PROVE  SessionTypes'
  BY <1>1, <1>2 DEF SessionTypes, SessionGoesOn
<1>3. CASE sent' = <<>>
  <2>1. toServer' = toServer /\ Range(sent') = {}
    BY <1>1, <1>3, TransmitNothing
  <2>2. SessionTypes'
    BY <1>1, <1>2, <2>1 DEF SessionTypes
  <2>3. QED
    BY <2>1, <2>2, ClientStep
<1>4. CASE sent' # <<>>
  <2>1. PICK q \in ClientSegments, k \in 0 .. 1 + ClientBytes :
          /\ sent' = <<q>>
          /\ q.seq = SeqPlus(iss, k) /\ k + q.len <= 1 + written'
          /\ q.flags # "SYN" /\ (q.flags = "RST" => life' = "destroyed")
    BY <1>4 DEF SendsOwn
  <2>2. /\ toServer' \in Seq(ClientSegments)
        /\ Range(toServer') = Range(toServer) \cup {q} /\ Range(sent') = {q}
    BY <1>1, <2>1, TransmitOne, Zenon
  <2>3. SessionTypes'
    BY <1>2, <2>2
  <2>4. q.len \in Nat /\ iss' = iss
    BY DEF ClientSegments, SessionGoesOn
  <2>5. FromClient(q)'
    BY <2>1, <2>3, <2>4, FromRunning, Zenon
  <2>6. QED
    BY <2>2, <2>3, <2>5, ClientStep, Zenon
<1>5. QED
  BY <1>3, <1>4

\* An answer, or a payload, that the client numbers k.
LEMMA SegmentSent ==
  ASSUME NEW flags \in {"ACK", "PSH_ACK", "RST"}, NEW len \in Nat, NEW k \in 0 .. 1 + ClientBytes,
         NEW s \in SeqNumbers, s = SeqPlus(iss, k), NEW a \in Int,
         sent' = <<Segment(flags, s, a, len)>>, k + len <= 1 + written',
         flags = "RST" => life' = "destroyed"
  PROVE  SendsOwn
<1>1. PICK q : q = Segment(flags, s, a, len)
  OBVIOUS
<1>2. /\ q \in ClientSegments /\ q.seq = SeqPlus(iss, k) /\ q.len = len /\ q.flags = flags
  BY <1>1 DEF Segment, ClientSegments
<1>3. QED
  BY <1>1, <1>2 DEF SendsOwn

LEMMA SendNumbers ==
  ASSUME NumbersInv, ClientSend
  PROVE  NumbersInv'
<1> USE SessionAssumption
<1>1. SessionTypes /\ ClientCounts /\ HonestAcksFit /\ Transmit
  BY Zenon DEF NumbersInv, ClientSend
<1>2. PICK len \in SendSizes :
        written + len <= ClientBytes /\ Send(len) /\ written' = written + len
  BY Zenon DEF ClientSend
<1>3. UNCHANGED <<srv, iss, toClient, pushed, refused, past, state, ack, last_ack_number>>
      /\ state = "Connected" /\ life = "running"
  BY <1>2 DEF ClientSend, Send, counters
<1>4. len \in Nat /\ written \in Nat /\ written' \in 0 .. ClientBytes /\ iss \in SeqNumbers
  <2>1. len \in Nat
    BY <1>2, WindowAssumption, Zenon
  <2>2. written \in 0 .. ClientBytes /\ iss \in SeqNumbers
    BY <1>1, Zenon DEF SessionTypes
  <2>3. QED
    BY <1>2, <2>1, <2>2
<1>5. seq = SeqPlus(iss, 1 + written) /\ seq \in SeqNumbers
  BY <1>1, <1>3, Zenon DEF ClientCounts, SessionTypes
<1>6. SeqPlus(seq, len) = SeqPlus(iss, 1 + written') /\ SeqPlus(seq, len) \in SeqNumbers
  <2>1. 1 + written \in Nat /\ 1 + written + len <= 1 + ClientBytes /\ 1 + written + len = 1 + written'
    BY <1>2, <1>4
  <2>2. 1 + written' \in Nat /\ 0 \in Nat /\ (1 + written') + 0 <= 1 + ClientBytes
    BY <1>2, <1>4
  <2>3. SeqPlus(iss, 1 + written') \in SeqNumbers
    BY <1>4, <2>2, NumbersCount, Zenon
  <2>4. SeqPlus(SeqPlus(iss, 1 + written), len) = SeqPlus(iss, 1 + written + len)
    BY <1>4, <2>1, NumbersCount
  <2>5. QED
    BY <1>5, <2>1, <2>3, <2>4, Zenon
<1>7. \/ /\ life' = "unwinding" /\ fault' \in SendFaults
         /\ sent' = <<>> \/ sent' = <<Segment("PSH_ACK", seq, ack, len)>>
         /\ seq' \in {seq, SeqPlus(seq, len)}
      \/ /\ UNCHANGED <<life, fault>>
         /\ sent' = <<Segment("PSH_ACK", seq, ack, len)>>
         /\ seq' = SeqPlus(seq, len)
         /\ unacknowledged_bytes' = unacknowledged_bytes + len
  BY <1>2, SendOutcome, Zenon DEF Send
<1>8. Started' /\ SessionGoesOn
  BY <1>1, <1>2, <1>3, <1>4 DEF SessionGoesOn, Started
<1>9. HonestAcksFit'
  BY <1>1, <1>3, <1>7, Zenon DEF HonestAcksFit, SendFaults
<1>10. seq' \in SeqNumbers /\ \E k \in 0 .. 1 + written' : seq' = SeqPlus(iss, k)
  <2>1. 1 + written \in 0 .. 1 + written' /\ 1 + written' \in 0 .. 1 + written'
    BY <1>2, <1>4
  <2>2. seq' = seq \/ seq' = SeqPlus(seq, len)
    BY <1>7, Zenon
  <2>3. QED
    BY <1>5, <1>6, <2>1, <2>2, Zenon
<1>11. ClientCounts'
  <2>1. CASE life' = "unwinding"
    BY <1>3, <1>8, <1>10, <2>1, Zenon DEF ClientCounts
  <2>2. CASE life' = "running" /\ seq' = SeqPlus(seq, len)
             /\ unacknowledged_bytes' = unacknowledged_bytes + len
    <3>1. PICK a \in 0 .. 1 + written :
            last_ack_number = SeqPlus(iss, a) /\ unacknowledged_bytes = 1 + written - a
      BY <1>1, <1>3 DEF ClientCounts, Started
    <3>2. a \in 0 .. 1 + written' /\ unacknowledged_bytes' = 1 + written' - a
      BY <1>2, <1>4, <2>2, <3>1
    <3>3. QED
      BY <1>3, <1>6, <1>8, <1>10, <2>2, <3>1, <3>2, Zenon DEF ClientCounts
  <2>3. QED
    BY <1>3, <1>7, <2>1, <2>2, Zenon
<1>12. SendsOwn
  <2>1. 1 + written \in 0 .. 1 + ClientBytes /\ 1 + written + len <= 1 + written'
    BY <1>2, <1>4
  <2>2. ack \in Int
    BY <1>1 DEF SessionTypes
  <2>3. CASE sent' = <<>>
    BY <2>3 DEF SendsOwn
  <2>4. CASE sent' = <<Segment("PSH_ACK", seq, ack, len)>>
    BY <1>4, <1>5, <2>1, <2>2, <2>4, SegmentSent, Zenon
  <2>5. QED
    BY <1>7, <2>3, <2>4, Zenon
<1>13. state' \in States /\ life' \in Lives
  BY <1>3, <1>7, Zenon DEF States, Lives
<1>14. QED
  BY <1>1, <1>3, <1>4, <1>8, <1>9, <1>10, <1>11, <1>12, <1>13, ClientSends DEF SessionTypes

\* process_packet.  Each way through it, for a segment p of the wire.
LEMMA ReceiveCounts ==
  ASSUME NumbersInv, NEW p \in Range(toClient), ProcessPacket(p),
         UNCHANGED <<iss, past, written, srv>>
  PROVE  /\ Started' /\ SessionGoesOn /\ SendsOwn
         /\ state' \in States /\ life' \in Lives /\ ack' \in Int
         /\ seq' \in SeqNumbers /\ last_ack_number' \in SeqNumbers
         /\ ClientCounts' /\ HonestAcksFit'
<1> USE SessionAssumption
<1>1. SessionTypes /\ ClientCounts /\ HonestAcksFit
  BY DEF NumbersInv
<1>2. p \in ServerSegments
  BY <1>1, InWire, Zenon DEF SessionTypes
<1>3. p.seq \in Int /\ p.ack \in SeqNumbers /\ p.len \in Nat
  BY <1>2 DEF ServerSegments
<1>4. life = "running" /\ state # "Offline" /\ Started
  BY Zenon DEF ProcessPacket, RejectPacket, IgnoreOldPacket, RejectAck, AcceptSynAck, AcceptPayload,
         AcceptAckOnly, Receiving, Started
<1>5. /\ {seq, last_ack_number, iss} \subseteq SeqNumbers /\ ack \in Int
      /\ written \in 0 .. ClientBytes /\ state \in States
  BY <1>1, Zenon DEF SessionTypes
<1>6. SeqPlus(p.seq, 1) \in Int /\ SeqPlus(p.seq, p.len) \in Int
  BY <1>3, HalfAssumption DEF SeqPlus, Wrap, Modulus
<1>7. ASSUME state' \in {state, "Connected"}, life' \in {"running", "unwinding"}
      PROVE  Started' /\ SessionGoesOn /\ state' \in States /\ life' \in Lives
  BY <1>4, <1>5, <1>7 DEF SessionGoesOn, Started, States, Lives
<1>8. CASE RejectPacket(p) \/ IgnoreOldPacket(p) \/ RejectAck(p)
  <2>1. /\ UNCHANGED <<state, seq, ack, last_ack_number, unacknowledged_bytes>>
        /\ sent' = <<>> /\ life' \in {"running", "unwinding"}
    BY <1>4, <1>8, Zenon DEF RejectPacket, IgnoreOldPacket, RejectAck, Throw, Return, conn
  <2>2. HonestAcksFit'
    <3>1. CASE RejectAck(p)
      <4>1. ~ Resets(p) /\ p.flags # "RST"
        BY <3>1, Zenon DEF RejectAck, InSequence, Resets
      <4>2. past = {} => ~ (SeqLeq(last_ack_number, p.ack) /\ BytesAcked(p) > unacknowledged_bytes)
        <5>1. SUFFICES ASSUME past = {}, SeqLeq(last_ack_number, p.ack)
                       PROVE  ~ (BytesAcked(p) > unacknowledged_bytes)
          BY Zenon
        <5>2. BytesAcked(p) <= unacknowledged_bytes
          BY <1>4, <4>1, <5>1, HonestAck, Zenon
        <5>3. BytesAcked(p) \in Int /\ unacknowledged_bytes \in Int
          BY <1>1, <1>3, <1>4, <1>5, HalfAssumption
          DEF BytesAcked, SeqMinus, Wrap, SeqNumbers, Modulus, ClientCounts
        <5>4. QED
          BY <5>2, <5>3
      <4>3. QED
        BY <3>1, <4>2, Zenon DEF RejectAck, Throw, HonestAcksFit
    <3>2. CASE RejectPacket(p) \/ IgnoreOldPacket(p)
      BY <1>1, <3>2, Zenon DEF RejectPacket, IgnoreOldPacket, Throw, Return, HonestAcksFit
    <3>3. QED
      BY <1>8, <3>1, <3>2
  <2>3. Started' /\ SessionGoesOn /\ state' \in States /\ life' \in Lives
    BY <1>7, <2>1, Zenon
  <2>4. ClientCounts'
    BY <1>1, <1>4, <2>1, <2>3, Zenon DEF ClientCounts
  <2>5. QED
    BY <1>5, <2>1, <2>2, <2>3, <2>4 DEF SendsOwn
<1>9. CASE AcceptSynAck(p) \/ AcceptPayload(p) \/ AcceptAckOnly(p)
  <2>1. p.flags # "RST" /\ AckOk(p)
    BY <1>9, Zenon DEF AcceptSynAck, AcceptPayload, AcceptAckOnly, InSequence, Resets
  <2>2. PICK b \in 1 .. 1 + written :
          /\ p.ack = SeqPlus(iss, b)
          /\ unacknowledged_bytes - BytesAcked(p) = 1 + written - b
    BY <1>4, <2>1, AcceptedAck, Zenon
  <2> DEFINE u == unacknowledged_bytes - BytesAcked(p)
             s == SeqPlus(iss, 1 + written)
  <2>3. s \in SeqNumbers /\ SeqPlus(s, 0) = s
    <3>1. 1 + written \in Nat /\ 0 \in Nat /\ 1 + written + 0 <= 1 + ClientBytes
          /\ 1 + written + 0 = 1 + written
      BY <1>5
    <3>2. QED
      BY <1>5, <3>1, NumbersCount, Zenon
  <2>4. 1 + written \in 0 .. 1 + ClientBytes /\ 1 + written + 0 <= 1 + written'
    BY <1>5
  <2>5. last_ack_number' = p.ack
    BY <1>9, Zenon DEF AcceptSynAck, AcceptPayload, AcceptAckOnly
  <2>6. ASSUME state' = "Connected", ack' \in Int,
               \/ /\ life' = "unwinding" /\ fault' # "Unexpected bytes got acknowledged"
                  /\ sent' = <<>> \/ sent' = <<Segment("ACK", s, ack', 0)>>
                  /\ seq' = s
               \/ /\ UNCHANGED <<life, fault>> /\ sent' = <<Segment("ACK", s, ack', 0)>>
                  /\ seq' = s /\ unacknowledged_bytes' = u + 0
        PROVE  /\ Started' /\ SessionGoesOn /\ SendsOwn
               /\ state' \in States /\ life' \in Lives /\ seq' \in SeqNumbers
               /\ ClientCounts' /\ HonestAcksFit'
    <3>1. Started' /\ SessionGoesOn /\ state' \in States /\ life' \in Lives
      BY <1>4, <1>7, <2>6, Zenon
    <3>2. HonestAcksFit'
      BY <1>1, <2>6, Zenon DEF HonestAcksFit
    <3>3. SendsOwn
      <4>1. CASE sent' = <<>>
        BY <4>1, Zenon DEF SendsOwn
      <4>2. CASE sent' = <<Segment("ACK", s, ack', 0)>>
        BY <2>3, <2>4, <2>6, <4>2, SegmentSent, Zenon
      <4>3. QED
        BY <2>6, <4>1, <4>2, Zenon
    <3>4. u + 0 = 1 + written - b
      BY <1>5, <2>2
    <3>5. seq' = s /\ written' = written /\ iss' = iss
      BY <2>6, Zenon
    <3>6. ClientCounts'
      <4>1. b \in 0 .. 1 + written /\ 1 + written \in 0 .. 1 + written
        BY <1>5
      <4>2. life' = "running" => last_ack_number' = SeqPlus(iss, b)
                                 /\ unacknowledged_bytes' = 1 + written - b
        BY <2>2, <2>5, <2>6, <3>4, Zenon
      <4>3. seq' = SeqPlus(iss, 1 + written)
        BY <3>5, Zenon
      <4>4. QED
        BY <2>6, <3>1, <3>5, <4>1, <4>2, <4>3, Zenon DEF ClientCounts
    <3>7. QED
      BY <2>3, <3>1, <3>2, <3>3, <3>5, <3>6, Zenon
  <2>7. last_ack_number' \in SeqNumbers
    BY <1>3, <2>5
  <2>8. CASE AcceptSynAck(p)
    <3>1. state = "Connecting" /\ state' = "Connected" /\ ack' = SeqPlus(p.seq, 1)
      BY <2>8, Zenon DEF AcceptSynAck, CompletesHandshake
    <3>2. SeqPlus(seq, 1) = s
      BY <1>1, <1>4, <3>1 DEF ClientCounts
    <3>3. CASE /\ p.options.kind = BadOptions
               /\ seq' = SeqPlus(seq, 1) /\ Throw("Invalid length field")
      BY <1>6, <2>6, <2>7, <3>1, <3>2, <3>3, Zenon DEF Throw
    <3>4. CASE SendSegment("ACK", 0, SeqPlus(seq, 1), ack', u, send_wnd', p.len)
      <4>1. \/ /\ life' = "unwinding" /\ fault' \in SendFaults
               /\ sent' = <<>> \/ sent' = <<Segment("ACK", s, ack', 0)>>
               /\ seq' \in {s, SeqPlus(s, 0)}
            \/ /\ UNCHANGED <<life, fault>>
               /\ sent' = <<Segment("ACK", s, ack', 0)>>
               /\ seq' = SeqPlus(s, 0) /\ unacknowledged_bytes' = u + 0
        BY <3>2, <3>4, SendOutcome, Zenon
      <4>2. QED
        BY <1>6, <2>3, <2>6, <2>7, <3>1, <4>1, Zenon DEF SendFaults
    <3>5. QED
      BY <2>8, <3>3, <3>4, Zenon DEF AcceptSynAck
  <2>9. CASE AcceptPayload(p)
    <3>1. state = "Connected" /\ state' = "Connected" /\ ack' = SeqPlus(p.seq, p.len)
      BY <2>9, Zenon DEF AcceptPayload
    <3>2. seq = s
      BY <1>1, <1>4, <3>1, Zenon DEF ClientCounts
    <3>3. SendSegment("ACK", 0, s, ack', u, send_wnd', p.len)
      BY <2>9, <3>2, Zenon DEF AcceptPayload
    <3>4. \/ /\ life' = "unwinding" /\ fault' \in SendFaults
             /\ sent' = <<>> \/ sent' = <<Segment("ACK", s, ack', 0)>>
             /\ seq' \in {s, SeqPlus(s, 0)}
          \/ /\ UNCHANGED <<life, fault>>
             /\ sent' = <<Segment("ACK", s, ack', 0)>>
             /\ seq' = SeqPlus(s, 0) /\ unacknowledged_bytes' = u + 0
      BY <3>3, SendOutcome, Zenon
    <3>5. QED
      BY <1>6, <2>3, <2>6, <2>7, <3>1, <3>4, Zenon DEF SendFaults
  <2>10. CASE AcceptAckOnly(p)
    <3>1. /\ UNCHANGED <<state, seq, ack>> /\ sent' = <<>> /\ unacknowledged_bytes' = u
          /\ UNCHANGED <<life, fault>> \/ (life' = "unwinding" /\ fault' = "Not enough space")
      BY <2>10, Zenon DEF AcceptAckOnly, Return
    <3>2. Started' /\ SessionGoesOn /\ state' \in States /\ life' \in Lives
      BY <1>4, <1>7, <3>1, Zenon
    <3>3. HonestAcksFit'
      BY <1>1, <3>1, Zenon DEF HonestAcksFit
    <3>4. ClientCounts'
      <4>1. b \in 0 .. 1 + written
        BY <1>5
      <4>2. QED
        BY <1>1, <1>4, <2>2, <2>5, <3>1, <3>2, <4>1, Zenon DEF ClientCounts
    <3>5. QED
      BY <1>5, <2>7, <3>1, <3>2, <3>3, <3>4, Zenon DEF SendsOwn
  <2>11. QED
    BY <1>9, <2>8, <2>9, <2>10
<1>10. QED
  BY <1>8, <1>9 DEF ProcessPacket

\* Whatever a packet leads to, the bytes pushed are bytes of the server.
LEMMA BytesOfType ==
  ASSUME NEW p \in ServerSegments
  PROVE  BytesOf(p) \in Seq(Nat \X Nat)
<1>1. p.len \in Nat /\ p.inc \in Nat /\ p.first \in Nat
  BY DEF ServerSegments
<1>2. \A i \in 1 .. p.len : <<p.inc, p.first + i - 1>> \in Nat \X Nat
  BY <1>1
<1>3. BytesOf(p) \in [1 .. p.len -> Nat \X Nat]
  BY <1>2 DEF BytesOf
<1>4. QED
  BY <1>1, <1>3

LEMMA DeliveredType ==
  ASSUME NEW p \in ServerSegments, pushed \in Seq(Nat \X Nat), Deliver(p)
  PROVE  pushed' \in Seq(Nat \X Nat)
<1>1. pushed' = pushed \/ pushed' = pushed \o BytesOf(p)
  BY Zenon DEF Deliver
<1>2. BytesOf(p) \in Seq(Nat \X Nat)
  BY BytesOfType
<1>3. pushed \o BytesOf(p) \in Seq(Nat \X Nat)
  BY <1>2, WireJoined, Zenon
<1>4. QED
  BY <1>1, <1>3, Zenon

LEMMA ReceivePacketNumbers ==
  ASSUME NumbersInv, ClientReceive
  PROVE  NumbersInv'
<1>1. SessionTypes
  BY DEF NumbersInv
<1>2. PICK p : p = Head(toClient)
  OBVIOUS
<1>3. /\ p \in ServerSegments /\ p \in Range(toClient)
      /\ toClient' \in Seq(ServerSegments) /\ Range(toClient') \subseteq Range(toClient)
  BY <1>1, <1>2, WireTaken, Zenon DEF SessionTypes, ClientReceive
<1>4. ProcessPacket(p) /\ Deliver(p) /\ Transmit /\ UNCHANGED <<iss, past, written, srv>>
  BY <1>2, Zenon DEF ClientReceive, counters
<1>5. pushed' \in Seq(Nat \X Nat)
  BY <1>1, <1>3, <1>4, DeliveredType DEF SessionTypes
<1>6. written' \in 0 .. ClientBytes
  BY <1>1, <1>4, Zenon DEF SessionTypes
<1>7. QED
  BY <1>3, <1>4, <1>5, <1>6, ReceiveCounts, ClientSends, Zenon

\* The session ends: by a stop, by ~Client or without it.
LEMMA EndNumbers ==
  ASSUME NumbersInv, ClientStop \/ ClientDestroy \/ ClientKill
  PROVE  NumbersInv'
<1> USE SessionAssumption
<1>1. SessionTypes /\ ClientCounts /\ HonestAcksFit
  BY Zenon DEF NumbersInv
<1>2. /\ UNCHANGED <<srv, iss, past, written, toClient, pushed, refused, seq, ack, last_ack_number, fault>>
      /\ life' \in {"unwinding", "destroyed", "terminated"} /\ life \in {"running", "unwinding"}
      /\ state' = state \/ state' = "Offline"
  <2>1. CASE ClientStop
    BY <2>1, Zenon DEF ClientStop, Stop, session, counters, conn
  <2>2. CASE ClientDestroy
    BY <2>2, Zenon DEF ClientDestroy, Destroy, session, counters, conn
  <2>3. CASE ClientKill
    BY <2>3, Zenon DEF ClientKill, session, counters, conn
  <2>4. QED
    BY <2>1, <2>2, <2>3
<1>3. Started' /\ SessionGoesOn
  BY <1>1, <1>2 DEF Started, SessionGoesOn, SessionTypes
<1>4. ClientCounts' /\ HonestAcksFit'
  <2>1. ClientCounts'
    BY <1>1, <1>2, <1>3, Zenon DEF ClientCounts
  <2>2. QED
    BY <1>1, <1>2, <2>1, Zenon DEF HonestAcksFit
<1>5. SendsOwn /\ Transmit
  <2>1. CASE sent' = <<>>
    <3>1. toServer \o <<>> = toServer
      BY <1>1 DEF SessionTypes
    <3>2. QED
      BY <2>1, <3>1, Zenon DEF SendsOwn, Transmit, ClientStop, ClientDestroy, ClientKill, session
  <2>2. CASE ClientDestroy /\ sent' # <<>>
    <3>1. state = "Connected" /\ life' = "destroyed" /\ sent' = <<Segment("RST", seq, ack, 0)>>
      BY <2>2, Zenon DEF ClientDestroy, Destroy
    <3>2. PICK k \in 0 .. 1 + written : seq = SeqPlus(iss, k)
      BY <1>1, <3>1, Zenon DEF ClientCounts
    <3>3. k \in 0 .. 1 + ClientBytes /\ k + 0 <= 1 + written' /\ seq \in SeqNumbers /\ ack \in Int
      BY <1>1, <1>2 DEF SessionTypes
    <3>4. QED
      BY <2>2, <3>1, <3>2, <3>3, SegmentSent, Zenon DEF ClientDestroy
  <2>3. QED
    BY <2>1, <2>2, Zenon DEF ClientStop, ClientKill, Stop
<1>6. state' \in States /\ life' \in Lives
  BY <1>1, <1>2, Zenon DEF SessionTypes, States, Lives
<1>7. QED
  BY <1>1, <1>2, <1>3, <1>4, <1>5, <1>6, ClientSends, Zenon DEF SessionTypes

\* A new client: everything on the wires is of the clients before.
LEMMA RestartNumbers ==
  ASSUME NumbersInv, ClientRestart
  PROVE  NumbersInv'
<1> USE SessionAssumption
<1>1. SessionTypes /\ NumbersApart /\ ServerKnows
  BY Zenon DEF NumbersInv
<1>2. PICK s \in RestartSeqs : Fresh(s) /\ seq' = s /\ iss' = s /\ last_ack_number' = s
  BY Zenon DEF ClientRestart
<1>3. /\ past' = past \cup {iss} /\ UNCHANGED <<srv, toServer>>
      /\ state' = "Offline" /\ life' = "running" /\ ack' = 0 /\ unacknowledged_bytes' = 0
      /\ pushed' = <<>> /\ written' = 0
  BY DEF ClientRestart
<1>4. s \in SeqNumbers /\ iss \in SeqNumbers /\ past \subseteq SeqNumbers
  BY <1>1 DEF SessionTypes
<1>5. \A i \in SeqNumbers : i \in Numbers(i)
  <2>1. 0 \in 0 .. ClientBytes + 1 /\ 0 \in Nat /\ 0 + 0 <= 1 + ClientBytes
    OBVIOUS
  <2>2. \A i \in SeqNumbers : SeqPlus(i, 0) = i
    BY <2>1, NumbersCount, Zenon
  <2>3. QED
    BY <2>1, <2>2, Zenon DEF Numbers
<1>6. s \notin Clients /\ Clients' = Clients \cup {s} /\ iss' \notin past'
  BY <1>2, <1>3, <1>4, <1>5, Zenon DEF Fresh, Clients
<1>7. NumbersApart'
  <2>1. \A i \in Clients : Numbers(s) \cap Numbers(i) = {}
    BY <1>2, Zenon DEF Fresh, Clients
  <2>2. \A i, j \in Clients \cup {s} : i # j => Numbers(i) \cap Numbers(j) = {}
    BY <1>1, <2>1 DEF NumbersApart
  <2>3. QED
    BY <1>6, <2>2, Zenon DEF NumbersApart
<1>8. ~ Started' /\ ClientCounts' /\ HonestAcksFit'
  BY <1>2, <1>3, Zenon DEF Started, ClientCounts, HonestAcksFit
<1>9. toClient' \in Seq(ServerSegments) /\ Range(toClient') \subseteq Range(toClient)
  <2>1. PICK k \in 0 .. Len(toClient) : toClient' = SubSeq(toClient, k + 1, Len(toClient))
    BY Zenon DEF ClientRestart
  <2>2. toClient \in Seq(ServerSegments)
    BY <1>1, Zenon DEF SessionTypes
  <2>3. k + 1 \in Nat \ {0} /\ Len(toClient) \in Nat /\ Len(toClient) <= Len(toClient)
    BY <2>2
  <2>4. QED
    BY <2>1, <2>2, <2>3, WirePart, Zenon
<1>10. SessionTypes'
  <2>1. 0 \in 0 .. ClientBytes /\ 0 \in Int /\ <<>> \in Seq(Nat \X Nat)
    OBVIOUS
  <2>2. QED
    BY <1>1, <1>2, <1>3, <1>4, <1>9, <2>1, Zenon DEF SessionTypes, States, Lives
<1>11. ServerKnows'
  <2>1. Open' = Open /\ srv' = srv
    BY <1>3, Zenon DEF Open
  <2>2. QED
    BY <1>1, <1>2, <1>6, <2>1, Zenon DEF ServerKnows
<1>12. ASSUME NEW q \in Range(toServer') PROVE FromClient(q)'
  <2>1. FromClient(q)
    BY <1>3, <1>12, Zenon DEF NumbersInv
  <2>2. QED
    BY <1>2, <1>6, <2>1, Zenon DEF FromClient
<1>13. ASSUME NEW p \in Range(toClient'), p.flags # "RST" PROVE Acknowledges(p)'
  <2>1. Acknowledges(p)
    BY <1>9, <1>13, Zenon DEF NumbersInv
  <2>2. QED
    BY <1>2, <1>6, <2>1, Zenon DEF Acknowledges
<1>14. QED
  BY <1>7, <1>8, <1>10, <1>11, <1>12, <1>13, Zenon DEF NumbersInv, Range

LEMMA NumbersStutter ==
  ASSUME NumbersInv, UNCHANGED allVars
  PROVE  NumbersInv'
<1>1. UNCHANGED <<vars, srv, iss, past, written, pushed, refused, toClient, toServer>>
  BY Zenon DEF allVars, session, counters
<1>2. SessionTypes'
  BY <1>1, Zenon DEF NumbersInv, SessionTypes, vars, conn
<1>3. ServerKnows' /\ ConnectionKept
  BY <1>1 DEF NumbersInv, ServerKnows, ConnectionKept, Ours, Open, Clients, Started, vars, conn
<1>4. QED
  BY <1>1, <1>2, <1>3, ServerStep, Zenon

LEMMA NumbersNext ==
  ASSUME NumbersInv, [SessionNext]_allVars
  PROVE  NumbersInv'
<1>1. CASE ClientConnect
  BY <1>1, ConnectNumbers
<1>2. CASE ClientSend
  BY <1>2, SendNumbers
<1>3. CASE ClientReceive
  BY <1>3, ReceivePacketNumbers
<1>4. CASE ClientStop \/ ClientDestroy \/ ClientKill
  BY <1>4, EndNumbers
<1>5. CASE ClientRestart
  BY <1>5, RestartNumbers
<1>6. CASE ServerListen
  BY <1>6, ListenNumbers
<1>7. CASE ServerReceive
  BY <1>7, ReceiveNumbers
<1>8. CASE ServerWrite
  BY <1>8, WriteNumbers
<1>9. CASE ServerClose
  BY <1>9, CloseNumbers
<1>10. CASE ServerRetransmit
  BY <1>10, RetransmitNumbers
<1>11. CASE NetworkFault
  BY <1>11, FaultNumbers
<1>12. CASE UNCHANGED allVars
  BY <1>12, NumbersStutter
<1>13. QED
  BY <1>1, <1>2, <1>3, <1>4, <1>5, <1>6, <1>7, <1>8, <1>9, <1>10, <1>11, <1>12, Zenon DEF SessionNext

LEMMA NumbersInvariance == SessionSpec => []NumbersInv
<1>1. NumbersInv /\ [SessionNext]_allVars => NumbersInv'
  BY NumbersNext
<1>2. QED
  BY <1>1, NumbersInit, PTL DEF SessionSpec

(***************************************************************************)
(* A server that acknowledges only what it received never trips the check  *)
(* "Unexpected bytes got acknowledged" (client.cpp:77) of the first        *)
(* client, for any number of bytes and any loss, duplication and order.    *)
(***************************************************************************)
THEOREM HonestAcksAlwaysFit == SessionSpec => []HonestAcksFit
<1>1. NumbersInv => HonestAcksFit
  BY DEF NumbersInv
<1>2. QED
  BY <1>1, NumbersInvariance, PTL

-----------------------------------------------------------------------------
(* BytesInv, given NumbersInv: the first states, and the steps in which    *)
(* nothing is received.                                                    *)

LEMMA BytesInit == SessionInit => BytesInv
<1> SUFFICES ASSUME SessionInit PROVE BytesInv
  BY Zenon
<1>1. /\ srv.phase = "listen" /\ state = "Offline" /\ ack = 0 /\ pushed = <<>> /\ refused = <<>>
      /\ ~ Open /\ ~ Ours /\ Range(toServer) = {} /\ Range(toClient) = {}
  BY DEF SessionInit, Init, Open, Ours, Range
<1>2. ServerCounts /\ ClientKnows
  BY <1>1 DEF ServerCounts, ClientKnows
<1>3. NoByteSkipped /\ AckedBytesWereDelivered
  BY <1>1, Zenon DEF NoByteSkipped, AckedBytesWereDelivered
<1>4. QED
  BY <1>1, <1>2, <1>3 DEF BytesInv

\* The client's side of an acknowledgment stays true as bytes are added.
LEMMA AckedByClientKept ==
  ASSUME NEW q, AckedByClient(q), srv'.inc \in Nat, srv.inc \in Nat, srv.inc <= srv'.inc,
         Ours' => srv'.inc # srv.inc \/ Ours,
         Ours /\ state # "Connecting" => state' # "Connecting",
         Taken \subseteq Taken'
  PROVE  AckedByClient(q)'
<1>1. PICK c \in 1 .. srv.inc, i \in 1 .. ServerBytes + 1 :
        /\ q.ack = NumberOf(c, i)
        /\ Ours /\ c = srv.inc => state # "Connecting" /\ Delivered(i)
  BY DEF AckedByClient
<1>2. c \in 1 .. srv'.inc
  OBVIOUS
<1>3. ASSUME Ours', c = srv'.inc PROVE state' # "Connecting" /\ Delivered(i)'
  <2>1. srv'.inc = srv.inc /\ Ours
    BY <1>3
  <2>2. QED
    BY <1>1, <1>3, <2>1, Zenon DEF Delivered
<1>4. QED
  BY <1>1, <1>2, <1>3, Zenon DEF AckedByClient

LEMMA AckedBytesKept ==
  ASSUME AckedBytesWereDelivered, UNCHANGED <<srv, iss>>, Taken \subseteq Taken',
         refused' # <<>> => life' # "running"
  PROVE  AckedBytesWereDelivered'
BY Zenon DEF AckedBytesWereDelivered, Ours, Open

LEMMA SkippedKept ==
  ASSUME NoByteSkipped, UNCHANGED pushed, srv'.inc = srv.inc, Ours' => Ours
  PROVE  NoByteSkipped'
BY DEF NoByteSkipped, Own

\* Without a push nothing is taken.
LEMMA TakenKept ==
  ASSUME UNCHANGED <<pushed, refused>>
  PROVE  Taken' = Taken
BY Zenon DEF Taken, Range

\* A step of the client.
LEMMA ClientBytesStep ==
  ASSUME SessionTypes, BytesInv, UNCHANGED <<srv, iss>>,
         Ours /\ state # "Connecting" => state' # "Connecting",
         Taken \subseteq Taken', refused' # <<>> => life' # "running",
         Range(toClient') \subseteq Range(toClient),
         Range(toServer') \subseteq Range(toServer) \cup Range(sent'),
         \A q \in Range(sent') : q.flags \notin {"SYN", "RST"} => AckedByClient(q)',
         ClientKnows', NoByteSkipped',
         \A i \in DOMAIN pushed' : pushed'[i][1] \in 1 .. srv.inc
  PROVE  BytesInv'
<1>1. srv.inc \in Nat
  BY SrvFields, Zenon
<1>2. Ours' = Ours /\ Open' = Open /\ DataEnd' = DataEnd
  BY Zenon DEF Ours, Open, DataEnd
<1>3. ServerCounts'
  BY <1>2, Zenon DEF BytesInv, ServerCounts
<1>4. \A p \in Range(toClient') : p.flags # "RST" => SentByServer(p)'
  BY <1>2, Zenon DEF BytesInv, SentByServer
<1>5. ASSUME NEW q \in Range(toServer'), q.flags \notin {"SYN", "RST"} PROVE AckedByClient(q)'
  <2>1. CASE q \in Range(toServer)
    <3>1. AckedByClient(q)
      BY <1>5, <2>1, Zenon DEF BytesInv
    <3>2. QED
      BY <1>1, <1>2, <3>1, AckedByClientKept
  <2>2. QED
    BY <1>5, <2>1, Zenon
<1>6. AckedBytesWereDelivered'
  BY AckedBytesKept, Zenon DEF BytesInv
<1>7. QED
  BY <1>3, <1>4, <1>5, <1>6, Zenon DEF BytesInv, Range

\* A step of the server that keeps its connection, or closes it.
LEMMA ServerBytesStep ==
  ASSUME SessionTypes, BytesInv, UNCHANGED <<vars, iss, pushed, refused>>, ConnectionKept,
         srv'.inc = srv.inc, Ours' => Ours, Open' => Open,
         Open' => DataEnd \in Nat /\ DataEnd' \in Nat /\ DataEnd <= DataEnd',
         ServerCounts', AckedBytesWereDelivered',
         Ours' /\ state = "Connecting" => srv'.phase = "synrcvd",
         Range(toServer') \subseteq Range(toServer),
         \A p \in Range(toClient') : p \in Range(toClient) \/ p.flags = "RST" \/ SentByServer(p)'
  PROVE  BytesInv'
<1>1. srv.inc \in Nat
  BY SrvFields, Zenon
<1>2. UNCHANGED <<state, life, ack>> /\ Started' = Started
  BY Zenon DEF vars, conn, Started
<1>3. ASSUME NEW p \in Range(toClient'), p.flags # "RST" PROVE SentByServer(p)'
  <2>1. CASE p \in Range(toClient)
    <3>0. p \in ServerSegments
      BY <2>1, InWire, Zenon DEF SessionTypes
    <3>1. SentByServer(p) /\ p.first \in Nat /\ p.len \in Nat
      BY <1>3, <2>1, <3>0, Zenon DEF BytesInv, ServerSegments
    <3>2. QED
      BY <3>1 DEF SentByServer
  <2>2. QED
    BY <1>3, <2>1, Zenon
<1>4. ASSUME NEW q \in Range(toServer'), q.flags \notin {"SYN", "RST"} PROVE AckedByClient(q)'
  <2>1. AckedByClient(q)
    BY <1>4, Zenon DEF BytesInv
  <2>2. QED
    BY <1>1, <1>2, <2>1, AckedByClientKept, TakenKept
<1>5. ClientKnows'
  <2>1. ASSUME state = "Connected", life = "running"
        PROVE  Ours' /\ \E i \in 1 .. DataEnd' : ack = NumberOf(srv'.inc, i) /\ Delivered(i)'
    <3>1. Ours /\ Ours' /\ Open'
      BY <1>2, <2>1, Zenon DEF BytesInv, ClientKnows, ConnectionKept, Ours
    <3>2. PICK i \in 1 .. DataEnd : ack = NumberOf(srv.inc, i) /\ Delivered(i)
      BY <2>1, Zenon DEF BytesInv, ClientKnows
    <3>3. i \in 1 .. DataEnd' /\ Delivered(i)'
      BY <3>1, <3>2, TakenKept, SMTT(30) DEF Delivered
    <3>4. QED
      BY <3>1, <3>2, <3>3, Zenon
  <2>2. QED
    BY <1>2, <2>1, Zenon DEF BytesInv, ClientKnows
<1>6. NoByteSkipped'
  <2>1. NoByteSkipped
    BY Zenon DEF BytesInv
  <2>2. QED
    BY <2>1, SkippedKept, Zenon
<1>7. QED
  BY <1>3, <1>4, <1>5, <1>6, Zenon DEF BytesInv, Range

\* The end of the data is a count.
LEMMA DataEndCounts ==
  ASSUME SessionTypes, ServerCounts, Open
  PROVE  /\ DataEnd \in Nat /\ 1 <= DataEnd /\ DataEnd <= ServerBytes + 1
         /\ srv.inc \in 1 .. MaxConnections /\ srv.nxt \in Counts
BY SessionAssumption, SrvFields DEF DataEnd, ServerCounts, Open, Counts

\* The steps of the server that send one segment: of count i, len bytes.
LEMMA SendsBytes ==
  ASSUME NumbersInv, BytesInv, NumbersStayPositive, Open, Open',
         UNCHANGED <<vars, iss, pushed, refused, toServer>>,
         srv'.irs = srv.irs /\ srv'.inc = srv.inc /\ srv'.una = srv.una,
         DataEnd' \in Nat /\ DataEnd <= DataEnd',
         srv.phase = "synrcvd" => srv'.phase = "synrcvd",
         ServerCounts',
         NEW flags \in ServerFlags, NEW i \in Counts, NEW len \in Nat,
         toClient' = Append(toClient, FromServer(srv, flags, i, len)),
         flags = "SYN_ACK" => i = 0 /\ len = 0,
         len > 0 => i >= 1 /\ i + len <= DataEnd' /\ i + len <= ServerBytes + 1
  PROVE  BytesInv'
<1>1. SessionTypes
  BY Zenon DEF NumbersInv
<1>2. PICK p : p = FromServer(srv, flags, i, len)
  BY Zenon
<1>3. i \in Nat /\ srv.inc \in 1 .. MaxConnections /\ DataEnd \in Nat
  BY <1>1, SessionAssumption, DataEndCounts, SMTT(30) DEF BytesInv, Counts
<1>4. /\ p \in ServerSegments /\ p.inc = srv.inc /\ p.first = i /\ p.len = len
      /\ p.seq = NumberOf(srv.inc, i) /\ p.flags = flags
  BY <1>1, <1>2, <1>3, SrvFields, FromServerFields
<1>5. SentByServer(p)'
  BY <1>3, <1>4 DEF SentByServer, Counts
<1>6. Range(toClient') \subseteq Range(toClient) \cup {p}
  <2>1. toClient' = Append(toClient, p) /\ toClient \in Seq(ServerSegments)
    BY <1>1, <1>2, Zenon DEF SessionTypes
  <2>2. QED
    BY <1>4, <2>1, WireGrows, Zenon
<1>7. Ours' = Ours /\ ConnectionKept
  BY DEF Ours, ConnectionKept
<1>8. AckedBytesWereDelivered'
  <2>1. life' = life
    BY Zenon DEF vars
  <2>2. QED
    BY <1>7, <2>1, TakenKept, Zenon DEF BytesInv, AckedBytesWereDelivered
<1>9. Ours' /\ state = "Connecting" => srv'.phase = "synrcvd"
  BY <1>7, Zenon DEF BytesInv, ClientKnows
<1>10. QED
  BY <1>1, <1>3, <1>5, <1>6, <1>7, <1>8, <1>9, ServerBytesStep, Zenon

LEMMA WriteBytes ==
  ASSUME NumbersInv, BytesInv, ServerWrite, NumbersStayPositive
  PROVE  BytesInv'
<1> USE SessionAssumption
<1>1. SessionTypes /\ ServerCounts /\ srv.phase = "estab" /\ Open
  BY Zenon DEF NumbersInv, BytesInv, ServerWrite, Open
<1>2. PICK len \in RecvSizes \ {0} :
        /\ srv.nxt + len <= ServerBytes + 1
        /\ toClient' = Append(toClient, FromServer(srv, "PSH_ACK", srv.nxt, len))
        /\ srv' = [srv EXCEPT !.nxt = @ + len]
  BY Zenon DEF ServerWrite
<1>3. len \in Nat /\ srv.nxt \in Nat /\ srv.una \in Nat /\ srv.nxt \in Counts
  BY <1>1, WindowAssumption, SrvFields, DataEndCounts
<1>4. /\ srv'.phase = srv.phase /\ srv'.irs = srv.irs /\ srv'.inc = srv.inc
      /\ srv'.una = srv.una /\ srv'.nxt = srv.nxt + len
  BY <1>1, <1>2, Zenon DEF SessionTypes, Servers
<1>5. Open' /\ DataEnd = srv.nxt /\ DataEnd' = srv.nxt + len
  BY <1>1, <1>4, Zenon DEF Open, DataEnd
<1>6. ServerCounts'
  BY <1>1, <1>2, <1>3, <1>4 DEF ServerCounts, Open
<1>7. srv.nxt >= 1
  BY <1>1, <1>3 DEF ServerCounts
<1>8. UNCHANGED <<vars, iss, pushed, refused, toServer>> /\ "PSH_ACK" \in ServerFlags
  BY Zenon DEF ServerWrite, ServerFlags
<1>9. DataEnd' \in Nat /\ DataEnd <= DataEnd'
  BY <1>3, <1>5
<1>10. /\ srv.phase # "synrcvd" /\ srv.nxt >= 1
       /\ srv.nxt + len <= DataEnd' /\ srv.nxt + len <= ServerBytes + 1
  BY <1>1, <1>2, <1>3, <1>5, <1>7
<1>11. srv'.irs = srv.irs /\ srv'.inc = srv.inc /\ srv'.una = srv.una
  BY <1>4, Zenon
<1>12. toClient' = Append(toClient, FromServer(srv, "PSH_ACK", srv.nxt, len))
  BY <1>2, Zenon
<1>13. QED
  BY <1>1, <1>3, <1>5, <1>6, <1>8, <1>9, <1>10, <1>11, <1>12, SendsBytes, Zenon

LEMMA CloseBytes ==
  ASSUME NumbersInv, BytesInv, ServerClose, NumbersStayPositive
  PROVE  BytesInv'
<1> USE SessionAssumption
<1>1. SessionTypes /\ ServerCounts /\ srv.phase = "estab" /\ Open
  BY Zenon DEF NumbersInv, BytesInv, ServerClose, Open
<1>2. /\ toClient' = Append(toClient, FromServer(srv, "FIN_ACK", srv.nxt, 0))
      /\ srv' = [srv EXCEPT !.phase = "finwait", !.nxt = @ + 1]
  BY Zenon DEF ServerClose
<1>3. srv.nxt \in Nat /\ srv.una \in Nat /\ srv.nxt \in Counts
  BY <1>1, SrvFields, DataEndCounts, Zenon
<1>4. /\ srv'.phase = "finwait" /\ srv'.irs = srv.irs /\ srv'.inc = srv.inc
      /\ srv'.una = srv.una /\ srv'.nxt = srv.nxt + 1
  BY <1>1, <1>2, Zenon DEF SessionTypes, Servers
<1>5. Open' /\ DataEnd = srv.nxt /\ DataEnd' = srv.nxt
  <2>1. Open' /\ DataEnd = srv.nxt
    BY <1>1, <1>4, Zenon DEF Open, DataEnd
  <2>2. DataEnd' = (srv.nxt + 1) - 1
    BY <1>4, Zenon DEF DataEnd
  <2>3. QED
    BY <1>3, <2>1, <2>2
<1>6. ServerCounts'
  BY <1>1, <1>3, <1>4 DEF ServerCounts, Open
<1>7. UNCHANGED <<vars, iss, pushed, refused, toServer>> /\ "FIN_ACK" \in ServerFlags
  BY Zenon DEF ServerClose, ServerFlags
<1>8. DataEnd' \in Nat /\ DataEnd <= DataEnd'
  BY <1>3, <1>5
<1>9. srv'.irs = srv.irs /\ srv'.inc = srv.inc /\ srv'.una = srv.una /\ srv.phase # "synrcvd"
  BY <1>1, <1>4
<1>10. toClient' = Append(toClient, FromServer(srv, "FIN_ACK", srv.nxt, 0))
  BY <1>2, Zenon
<1>11. QED
  BY <1>1, <1>3, <1>5, <1>6, <1>7, <1>8, <1>9, <1>10, SendsBytes, SMTT(30)

LEMMA RetransmitBytes ==
  ASSUME NumbersInv, BytesInv, ServerRetransmit, NumbersStayPositive
  PROVE  BytesInv'
<1> USE SessionAssumption
<1>1. SessionTypes /\ ServerCounts
  BY Zenon DEF NumbersInv, BytesInv
<1>2. UNCHANGED <<vars, srv, iss, pushed, refused, toServer>> /\ Open /\ Open'
  BY <1>1, RetransmitEffect, SMTT(30)
<1>3. PICK flags \in {"SYN_ACK", "PSH_ACK", "FIN_ACK"}, i \in Nat, len \in Nat :
        /\ toClient' = Append(toClient, FromServer(srv, flags, i, len))
        /\ flags = "SYN_ACK" => i = 0 /\ len = 0
        /\ len > 0 => srv.phase \in {"estab", "finwait"} /\ i = srv.una /\ i + len <= DataEnd
        /\ flags = "FIN_ACK" => srv.phase = "finwait" /\ i = DataEnd /\ len = 0
        /\ flags = "PSH_ACK" => len > 0
  BY <1>1, RetransmitEffect, Zenon
<1>4. flags \in ServerFlags
  BY Zenon DEF ServerFlags
<1>5. DataEnd' = DataEnd /\ ServerCounts'
  BY <1>1, <1>2, Zenon DEF DataEnd, ServerCounts, Open
<1>6. DataEnd \in Nat /\ DataEnd <= ServerBytes + 1 /\ srv.una \in Nat
  BY <1>1, <1>2, DataEndCounts, SrvFields, Zenon
<1>7. len > 0 => i >= 1 /\ i + len <= DataEnd' /\ i + len <= ServerBytes + 1
  BY <1>1, <1>3, <1>5, <1>6, SMTT(30) DEF ServerCounts
<1>8. i \in Counts
  BY <1>3, <1>6, <1>7 DEF Counts
<1>9. QED
  BY <1>2, <1>3, <1>4, <1>5, <1>6, <1>7, <1>8, SendsBytes, SMTT(30)

\* Segments that are taken off the wires, or repeated.
LEMMA WiresBytes ==
  ASSUME SessionTypes, BytesInv, UNCHANGED <<vars, srv, iss, pushed, refused>>,
         Range(toClient') \subseteq Range(toClient), Range(toServer') \subseteq Range(toServer)
  PROVE  BytesInv'
<1>1. /\ Open' = Open /\ Ours' = Ours /\ DataEnd' = DataEnd /\ ConnectionKept
      /\ srv'.inc = srv.inc /\ srv'.phase = srv.phase
  BY DEF Open, Ours, DataEnd, ConnectionKept
<1>2. ServerCounts' /\ AckedBytesWereDelivered'
  <2>1. life' = life
    BY Zenon DEF vars
  <2>2. QED
    BY <1>1, <2>1, TakenKept, Zenon DEF BytesInv, ServerCounts, AckedBytesWereDelivered
<1>3. Open => DataEnd \in Nat /\ DataEnd <= DataEnd
  BY DataEndCounts DEF BytesInv
<1>4. Ours /\ state = "Connecting" => srv.phase = "synrcvd"
  BY Zenon DEF BytesInv, ClientKnows
<1>5. QED
  BY <1>1, <1>2, <1>3, <1>4, ServerBytesStep, Zenon

LEMMA FaultBytes ==
  ASSUME NumbersInv, BytesInv, NetworkFault
  PROVE  BytesInv'
<1>1. SessionTypes
  BY Zenon DEF NumbersInv
<1>2. UNCHANGED <<vars, srv, iss, pushed, refused>>
  BY Zenon DEF NetworkFault
<1>3. Range(toClient') \subseteq Range(toClient) /\ Range(toServer') \subseteq Range(toServer)
  BY <1>1, FaultWires
<1>4. QED
  BY <1>1, <1>2, <1>3, WiresBytes, Zenon
=============================================================================
