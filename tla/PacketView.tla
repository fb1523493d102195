----------------------------- MODULE PacketView -----------------------------
(***************************************************************************)
(* The views the gateway reads and builds frames through: Ethernet         *)
(* (src/network/eth_ip/ethernet.cpp), IPv4 (ip.cpp), TCP                   *)
(* (src/network/tcp/packet_view.cpp, model.h) and ARP (src/network/arp).   *)
(*                                                                         *)
(* A frame is a record: the size of the bytes the view is over, the header *)
(* fields that say how they are cut, and the option bytes.  Sizes are in   *)
(* bytes and as in the code.                                               *)
(***************************************************************************)
EXTENDS Integers, Sequences

CONSTANT
  SizeT          \* size_t is unsigned, modulo this number

ASSUME SizeTAssumption == SizeT \in Nat /\ SizeT > 2^18

EthernetHeader == 14
TcpHeader == 20
ArpHeader == 28

\* The least a NIC puts on the wire: shorter frames are padded.
MinimumFrame == 60
Padded(f) == [f EXCEPT !.size = IF @ < MinimumFrame THEN MinimumFrame ELSE @]

\* BE<uint16_t>: a field holds the two bytes of the value, the high one first;
\* what does not fit is cut off.
BE(v) == <<(v % 2^16) \div 2^8, v % 2^8>>
Value(be) == 2^8 * be[1] + be[2]

EthPayload(f) == f.size - EthernetHeader
IpHeaderSize(f) == 4 * f.ihl
DataOffset(f) == 4 * f.data_offset_scaled

IsValid(f) ==
  /\ Value(f.total_length) < 60 \/ Value(f.total_length) = EthPayload(f)
  /\ IpHeaderSize(f) <= EthPayload(f)

\* payload().size() of the IP and of the TCP view: total_length less the
\* headers, which is_valid does not compare with it, as unsigned numbers.
SizeMinus(a, b) == IF b <= a THEN a - b ELSE SizeT - (b - a)
IpPayload(f) == SizeMinus(Value(f.total_length), IpHeaderSize(f))
Payload(f) == SizeMinus(IpPayload(f), DataOffset(f))

-----------------------------------------------------------------------------
\* kDefaultOptionsBlock: MSS 1460, SACK permitted, window scale 0, padding.
kDefaultOptionsBlock ==
  LET mss == BE(1460) IN <<2, 4, mss[1], mss[2], 4, 2, 3, 3, 0, 0, 0, 0>>

\* init of the three views, over a send buffer of `room` bytes.
InitEthernet(room, type) == [type |-> type, size |-> room]
InitIp(room, protocol) ==
  LET eth == InitEthernet(room, "Ipv4")
  IN [type |-> eth.type, size |-> eth.size, protocol |-> protocol,
      ihl |-> 5, total_length |-> BE(EthPayload(eth))]
InitTcp(room, flags, seq, ack, options) ==
  LET ip == InitIp(room, "Tcp")
  IN [type |-> ip.type, size |-> ip.size, protocol |-> ip.protocol,
      ihl |-> ip.ihl, total_length |-> ip.total_length,
      data_offset_scaled |-> TcpHeader \div 4 + IF options THEN Len(kDefaultOptionsBlock) \div 4 ELSE 0,
      flags |-> flags, seq |-> seq, ack |-> ack,
      options |-> IF options THEN kDefaultOptionsBlock ELSE <<>>]

\* resize_payload of the three views: total_length follows the size.
ResizeEthernet(f, n) == [f EXCEPT !.size = EthernetHeader + n]
ResizeIp(f, n) ==
  LET eth == ResizeEthernet(f, IpHeaderSize(f) + n)
  IN [eth EXCEPT !.total_length = BE(EthPayload(eth))]

\* A resize_payload that forgets the options.
ResizePayloadNoOptions(f, n) == ResizeIp(f, TcpHeader + n)

ResizePayload(f, n) == ResizeIp(f, DataOffset(f) + n)

-----------------------------------------------------------------------------
\* parse_options' three results.
NoScaleFound == [kind |-> "no scale", shift |-> 0]
ScaleFound(shift) == [kind |-> "scale", shift |-> shift]
Malformed == [kind |-> "bad options", shift |-> 0]

\* A parser that takes the kind byte for part of the length.
OptionStepShort(bytes, i) == bytes[i + 2] - 1

\* From the option at offset i to the next.
OptionStep(bytes, i) == bytes[i + 2]

\* One turn of parse_options' loop, at offset i: found is its result from each
\* offset on.  The two REQUIREs are one result.
ParseFrom(bytes, found, i) ==
  IF i = Len(bytes) THEN NoScaleFound
  ELSE IF bytes[i + 1] = 0 THEN NoScaleFound
  ELSE IF bytes[i + 1] = 1 THEN found[i + 1]
  ELSE IF i + 2 > Len(bytes) THEN Malformed
  ELSE IF OptionStep(bytes, i) < 2 \/ i + OptionStep(bytes, i) > Len(bytes) THEN Malformed
  ELSE LET later == found[i + OptionStep(bytes, i)]
       IN IF later = NoScaleFound /\ bytes[i + 1] = 3 /\ bytes[i + 2] = 3
          THEN ScaleFound(bytes[i + 3])
          ELSE later

\* parse_options over the bytes between the header and data_offset: the last
\* window-scale option wins.
ParseOptions(bytes) ==
  LET found[i \in 0 .. Len(bytes)] == ParseFrom(bytes, found, i)
  IN found[0]

-----------------------------------------------------------------------------
\* arp::PacketView
PredictSize(payload) == EthernetHeader + payload
ArpReply(sender, target) ==
  LET eth == InitEthernet(PredictSize(ArpHeader), "Arp")
  IN [type |-> eth.type, size |-> eth.size, ethernet |-> TRUE,
      operation |-> "Reply", sender |-> sender, target |-> target]

\* is_valid: `ethernet` stands for the four fields that say Ethernet and IPv4.
ArpIsValid(f) ==
  /\ EthPayload(f) >= ArpHeader
  /\ f.ethernet
  /\ f.operation \in {"Request", "Reply"}
=============================================================================
