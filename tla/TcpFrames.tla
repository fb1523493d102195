------------------------------ MODULE TcpFrames -----------------------------
(***************************************************************************)
(* run_worker's dispatch of received frames (service.cpp:44-64): ARP goes  *)
(* to ArpHandler, TCP over IPv4 to tcp::Client through the views of module *)
(* PacketView, anything else is skipped.  Nothing filters on addresses or  *)
(* ports, so the frames are those of any peer and any flow: every segment  *)
(* of TcpClient's AnySegment, with and without IP options and padding, its *)
(* total_length possibly below its headers, and SYN-ACKs with every list   *)
(* of TCP options of a few items, malformed ones among them.               *)
(*                                                                         *)
(* Sequence numbers count units of payload; Bytes says how many bytes a    *)
(* payload of so many units has.                                           *)
(***************************************************************************)
EXTENDS TcpClient, PacketView, Functions

CONSTANTS
  Bytes,         \* bytes of a payload, by its size in units
  Room,          \* of a send buffer
  MaxOptions     \* items in the option list of a SYN-ACK

VARIABLES
  announced,     \* the option list of the SYN-ACK just processed
  replies        \* the ARP frames the last step sent

frameVars == <<vars, announced, replies>>

\* A peer's options, as items, and as bytes.  Three are malformed: a length
\* below 2, one that runs past the header, and a kind byte without a length.
Items == [kind : {"nop", "end", "mss", "sack", "timestamps", "short", "long", "lone"}, shift : {0}]
           \cup [kind : {"scale"}, shift : Scales]
Encoded(o) ==
  CASE o.kind = "nop" -> <<1>>
    [] o.kind = "end" -> <<0>>
    [] o.kind = "mss" -> <<2, 4, 3, 3>>
    [] o.kind = "sack" -> <<4, 2>>
    [] o.kind = "timestamps" -> <<8, 10, 3, 3, 1, 0, 3, 3, 0, 0>>
    [] o.kind = "short" -> <<5, 1>>
    [] o.kind = "long" -> <<5, 100>>
    [] o.kind = "lone" -> <<5>>
    [] o.kind = "scale" -> <<3, 3, o.shift>>
OptionBytes(list) ==
  LET bytes[n \in 0 .. Len(list)] == IF n = 0 THEN <<>> ELSE bytes[n - 1] \o Encoded(list[n])
      all == bytes[Len(list)]
  IN all \o [i \in 1 .. (4 - (Len(all) % 4)) % 4 |-> 0]

\* What the list says: up to its end, the last scale, if all is well formed.
Said(list) ==
  LET said == {i \in DOMAIN list : \A j \in 1 .. i : list[j].kind # "end"}
      scales == {i \in said : list[i].kind = "scale"}
      last == CHOOSE i \in scales : \A j \in scales : j <= i
  IN IF \E i \in said : list[i].kind \in {"short", "long", "lone"} THEN Malformed
     ELSE IF scales = {} THEN NoScaleFound ELSE ScaleFound(list[last].shift)

\* A payload is written to what a send buffer has left behind the headers, a
\* SYN's options included; the size of an mbuf is a 16-bit number.
Headers == EthernetHeader + 20 + TcpHeader + Len(kDefaultOptionsBlock)

ASSUME FramesAssumption ==
  /\ SendSizes \cup RecvSizes \cup Shortfalls \subseteq DOMAIN Bytes /\ IsInjective(Bytes)
  /\ Bytes[0] = 0 /\ \A n \in DOMAIN Bytes : Bytes[n] \in Nat
  /\ Room \in Nat /\ Room < 2^16 /\ MaxOptions \in Nat
  /\ \A n \in SendSizes : Headers + Bytes[n] <= Room

-----------------------------------------------------------------------------
\* The peer.  A segment in a frame, the IP header with or without options.
ListFor(options) ==
  CASE options.kind = "scale" -> <<[kind |-> "scale", shift |-> options.shift]>>
    [] options.kind = BadOptions -> <<[kind |-> "short", shift |-> 0]>>
    [] OTHER -> <<>>
Lacks(len) == IF len < Half THEN 0 ELSE Bytes[Modulus - len]
FrameOf(p, ihl, list) ==
  LET options == OptionBytes(list)
      headers == 4 * ihl + TcpHeader + Len(options)
      size == headers + IF p.len < Half THEN Bytes[p.len] ELSE 0
      ip == size - Lacks(p.len)
  IN [type |-> "Ipv4", protocol |-> "Tcp", size |-> EthernetHeader + size,
      ihl |-> ihl, total_length |-> BE(IF p.valid THEN ip ELSE MinimumFrame + ip),
      data_offset_scaled |-> (TcpHeader + Len(options)) \div 4,
      flags |-> p.flags, seq |-> p.seq, ack |-> p.ack, window |-> p.window,
      options |-> options]

\* A SYN-ACK's options and its payload are looked at one after the other: a
\* frame has either.
Plain == {p \in AnySegment : p.len = 0 \/ p.options \in NoOptions}
PlainFrames == {FrameOf(p, ihl, ListFor(p.options)) : p \in Plain, ihl \in {5, 6}}

\* SYN-ACKs that a connecting client, which alone looks at options, accepts.
\* A lone kind byte is the last of its list.
OptionLists ==
  {list \in UNION {[1 .. n -> Items] : n \in 0 .. MaxOptions} :
     \A i \in 1 .. Len(list) - 1 : list[i].kind # "lone"}
Answer ==
  [valid |-> TRUE, flags |-> "SYN_ACK", seq |-> 0, ack |-> SeqPlus(seq, 1),
   window |-> 0, len |-> 0, options |-> [kind |-> NoScale, shift |-> 0]]

Hosts == {"gateway", "other"}
ArpFrames ==
  [type : {"Arp"}, size : {EthernetHeader + 20, MinimumFrame}, ethernet : BOOLEAN,
   operation : {"Request", "Reply", "other"}, sender : Hosts, target : Hosts]
OtherFrames ==
  [type : {"Ipv6"}, size : {MinimumFrame}] \cup [type : {"Ipv4"}, protocol : {"Udp"}, size : {MinimumFrame}]

-----------------------------------------------------------------------------
\* process_packet's view of a frame.  A size that has wrapped is taken modulo
\* the number space (SeqNumber::operator+ takes 32 bits of it).
UnitsOf(bytes) == CHOOSE n \in DOMAIN Bytes : Bytes[n] = bytes
Units(bytes) == IF bytes < 2^16 THEN UnitsOf(bytes) ELSE Modulus - UnitsOf(SizeT - bytes)
SegmentOf(f) ==
  [valid |-> IsValid(f), flags |-> f.flags, seq |-> f.seq, ack |-> f.ack,
   window |-> f.window, options |-> ParseOptions(f.options),
   len |-> IF IsValid(f) THEN Units(Payload(f)) ELSE 0]

\* What the frames of all segments show.
PlainSegments == {SegmentOf(Padded(f)) : f \in PlainFrames}

HandleTcp(p, list) ==
  /\ ProcessPacket(p)
  /\ announced' = list
  /\ replies' = <<>>

\* ArpHandler::handle_packet
HandleArp(f) ==
  /\ Receiving(f)
  /\ announced' = <<>>
  /\ UNCHANGED conn
  /\ \/ /\ ArpIsValid(f) /\ f.operation = "Request" /\ f.target = "gateway"
        /\ \/ Return(<<>>, 0) /\ replies' = <<ArpReply("gateway", f.sender)>>
           \/ NicMayFail /\ Throw("Failed to allocate mbuf") /\ replies' = <<>>
     \/ /\ ~ (ArpIsValid(f) /\ f.operation = "Request" /\ f.target = "gateway")
        /\ Return(<<>>, 0) /\ replies' = <<>>

Skip(f) ==
  /\ Receiving(f)
  /\ announced' = <<>> /\ replies' = <<>>
  /\ UNCHANGED conn
  /\ Return(<<>>, 0)

ReceiveFrame ==
  \/ \E p \in PlainSegments : HandleTcp(p, <<>>)
  \/ /\ state = "Connecting"
     /\ \E list \in OptionLists : HandleTcp(SegmentOf(Padded(FrameOf(Answer, 5, list))), list)
  \/ \E f \in ArpFrames : HandleArp(f)
  \/ \E f \in OtherFrames : Skip(f)

-----------------------------------------------------------------------------
FramesInit == Init /\ announced = <<>> /\ replies = <<>>

FramesNext ==
  \/ ReceiveFrame
  \/ /\ Connect \/ (\E len \in SendSizes : Send(len)) \/ Stop \/ Destroy
     /\ announced' = <<>> /\ replies' = <<>>

FramesSpec == FramesInit /\ [][FramesNext]_frameVars

-----------------------------------------------------------------------------
(***************************************************************************)
(* A frame that the client sends, padded to the least a NIC puts on the    *)
(* wire, is a valid packet with the segment that was meant in it: the      *)
(* sizes that init, resize_payload and is_valid go by agree, with the      *)
(* options of a SYN and with payloads shorter than the padding.            *)
(***************************************************************************)
Sent(s) == ResizePayload(InitTcp(Room, s.flags, s.seq, s.ack, s.flags = "SYN"), Bytes[s.len])
FramesRoundTrip ==
  /\ \A i \in DOMAIN sent :
       LET f == Padded(Sent(sent[i]))
       IN /\ IsValid(f) /\ Payload(f) = Bytes[sent[i].len]
          /\ DataOffset(f) = TcpHeader + Len(f.options)
          /\ ParseOptions(f.options).kind # BadOptions
  /\ \A i \in DOMAIN replies : ArpIsValid(Padded(replies[i])) /\ Padded(replies[i]).operation = "Reply"

(***************************************************************************)
(* peer_window_scale is what the SYN-ACK announces, wherever the option is *)
(* in the list, behind what padding, and with whatever bytes inside other  *)
(* options look like one; and only a malformed list ends the session.      *)
(***************************************************************************)
ScaleAsAnnounced ==
  state = "Connected" /\ announced # <<>> =>
    /\ Said(announced).kind # BadOptions => peer_window_scale = Said(announced).shift
    /\ fault = "Invalid length field" <=> Said(announced).kind = BadOptions
=============================================================================
