------------------------------ MODULE TcpClient ------------------------------
(***************************************************************************)
(* tcp::Client (src/network/tcp/client.{h,cpp}): the TCP client of the     *)
(* gateway, driven by any sequence of received segments.                   *)
(*                                                                         *)
(* A received packet comes through tls12::Client::process_packet, which    *)
(* appends the payload to its stream once this class has returned: the     *)
(* push is the end of the same step, since it may throw.                   *)
(*                                                                         *)
(* The variables are the members of the class.  Three more describe the    *)
(* process around it:                                                      *)
(*   fault  the message of the exception that left a handler, or "none";   *)
(*   life   running; unwinding towards ~Client (after an exception, or     *)
(*          after the worker loop ended); destroyed; terminated            *)
(*          (std::terminate: an exception left the destructor);            *)
(*   sent   the segments the last step handed to the NIC.                  *)
(* ip_id, addresses and checksums are data no property looks at.           *)
(***************************************************************************)
EXTENDS SeqNumber, Sequences

CONSTANTS
  kWindowSize,    \* send window before the peer has announced one
  InitialSeqs,    \* the values the random initial sequence number may take
  SendSizes,      \* payload sizes the layer above asks to send
  RecvSizes,      \* payload sizes of received segments, 0 included
  Shortfalls,     \* by how much a total_length may be below its headers
  Windows,        \* values of the header's window field, 0 included
  Scales,         \* shifts a peer may announce, 0 included
  NicMayFail,     \* whether mbuf allocation and rte_eth_tx_burst may fail
  PushMayFail     \* whether the stream above may lack space for a payload

VARIABLES
  state, seq, ack, last_ack_number, unacknowledged_bytes,
  send_wnd, peer_window_scale,
  fault, life, sent

conn == <<state, seq, ack, last_ack_number, unacknowledged_bytes,
          send_wnd, peer_window_scale>>
vars == <<conn, fault, life, sent>>

States == {"Offline", "Connecting", "Connected"}
Lives == {"running", "unwinding", "destroyed", "terminated"}

Flags == {"SYN", "SYN_ACK", "ACK", "PSH_ACK", "FIN_ACK", "RST", "RST_ACK"}

\* What parse_options makes of the option bytes of a SYN-ACK: a shift, no
\* window-scale option, or an exception on a malformed length.
NoScale == "no scale"
BadOptions == "bad options"
Options == [kind : {"scale"}, shift : Scales] \cup [kind : {NoScale, BadOptions}, shift : {0}]

Faults == {"none", "Tcp packet is not valid", "rst received",
           "Misses are not supported", "ack is not expected to decrease",
           "Unexpected bytes got acknowledged", "Invalid length field",
           "window is full", "Nullptr in tx_packet", "failed to send",
           "Failed to allocate mbuf", "Not enough space"}

ShiftLeft(w, s) == w * 2^s

(***************************************************************************)
(* RFC 7323 limits the shift to 14, so a window is below 2^30, and a       *)
(* segment is at most an IP packet: both are below half the number space,  *)
(* and so is what the few bytes of the headers lack.                       *)
(***************************************************************************)
ASSUME WindowAssumption ==
  /\ kWindowSize \in 1 .. Half - 1
  /\ InitialSeqs \subseteq SeqNumbers
  /\ SendSizes \subseteq Nat /\ Windows \subseteq Nat
  /\ RecvSizes \subseteq 0 .. Half - 1
  /\ 0 \in RecvSizes \cap Windows \cap Scales
  /\ \A w \in Windows, s \in Scales : ShiftLeft(w, s) \in 0 .. Half - 1
  /\ Shortfalls \subseteq 1 .. Half
  /\ NicMayFail \in BOOLEAN /\ PushMayFail \in BOOLEAN

-----------------------------------------------------------------------------
\* Client::Client
Init ==
  /\ state = "Offline"
  /\ seq \in InitialSeqs
  /\ ack = 0
  /\ last_ack_number = seq
  /\ unacknowledged_bytes = 0
  /\ send_wnd = kWindowSize
  /\ peer_window_scale = 0
  /\ fault = "none"
  /\ life = "running"
  /\ sent = <<>>

Segment(flags, s, a, len) == [flags |-> flags, seq |-> s, ack |-> a, len |-> len]

\* A REQUIRE fails: the exception leaves the handler, and run_worker's frame.
Throw(what) ==
  /\ fault' = what
  /\ life' = "unwinding"
  /\ sent' = <<>>

\* A push that does not look at the space that is left.
ReturnUnchecked(segments, n) ==
  /\ sent' = segments
  /\ UNCHANGED <<fault, life>>

(***************************************************************************)
(* The handler returns and a payload of n is pushed.  payload().size() is  *)
(* an unsigned difference: when total_length is below the headers it wraps *)
(* to a number that no stream has space for, and that the sequence numbers *)
(* take modulo 2^32, as one from Half up.                                  *)
(***************************************************************************)
Return(segments, n) ==
  /\ sent' = segments
  /\ \/ /\ n < Half
        /\ UNCHANGED <<fault, life>>
     \/ /\ n >= Half \/ (PushMayFail /\ n > 0)
        /\ fault' = "Not enough space"
        /\ life' = "unwinding"

\* A send that advances seq before it has checked the window.
SendSegmentSeqFirst(flags, len, s, a, u, w, n) ==
  \/ u + len > w /\ seq' = SeqPlus(s, len) /\ unacknowledged_bytes' = u
     /\ Throw("window is full")
  \/ u + len <= w /\ seq' = SeqPlus(s, len) /\ unacknowledged_bytes' = u + len
     /\ Return(<<Segment(flags, s, a, len)>>, n)

(***************************************************************************)
(* send(get_send_buffer(flags), len), when seq, ack, unacknowledged_bytes  *)
(* and send_wnd hold s, a, u and w.  The buffer, and the header with s and *)
(* a in it, come first; then the window check; the counters advance before *)
(* the NIC is asked, so a failed burst leaves them advanced.  n is the     *)
(* payload of the packet that is being answered.                           *)
(***************************************************************************)
SendSegment(flags, len, s, a, u, w, n) ==
  \/ /\ NicMayFail
     /\ seq' = s
     /\ unacknowledged_bytes' = u
     /\ Throw("Nullptr in tx_packet")
  \/ /\ u + len > w
     /\ seq' = s
     /\ unacknowledged_bytes' = u
     /\ Throw("window is full")
  \/ /\ u + len <= w
     /\ seq' = SeqPlus(s, len)
     /\ unacknowledged_bytes' = u + len
     /\ \/ Return(<<Segment(flags, s, a, len)>>, n)
        \/ NicMayFail /\ Throw("failed to send")

-----------------------------------------------------------------------------
\* A connect that does not count the SYN.
ConnectUncounted ==
  /\ life = "running"
  /\ state = "Offline"
  /\ state' = "Connecting"
  /\ Return(<<Segment("SYN", seq, ack, 0)>>, 0)
  /\ UNCHANGED <<seq, ack, last_ack_number, unacknowledged_bytes, send_wnd,
                 peer_window_scale>>

(***************************************************************************)
(* connect(): a buffer that is not used, then the SYN; the count of        *)
(* unacknowledged bytes is set to 1 (the SYN) once send has returned.      *)
(***************************************************************************)
Connect ==
  /\ life = "running"
  /\ state = "Offline"
  /\ \/ /\ NicMayFail
        /\ Throw("Nullptr in tx_packet")
        /\ UNCHANGED conn
     \/ /\ state' = "Connecting"
        /\ UNCHANGED <<seq, ack, last_ack_number, send_wnd, peer_window_scale>>
        /\ \/ /\ unacknowledged_bytes' = 1
              /\ Return(<<Segment("SYN", seq, ack, 0)>>, 0)
           \/ /\ NicMayFail
              /\ UNCHANGED unacknowledged_bytes
              /\ \E e \in {"Nullptr in tx_packet", "failed to send"} : Throw(e)

\* A payload of the layer above: get_send_buffer(PSH_ACK), then send.
Send(len) ==
  /\ life = "running"
  /\ state # "Offline"
  /\ SendSegment("PSH_ACK", len, seq, ack, unacknowledged_bytes, send_wnd, 0)
  /\ UNCHANGED <<state, ack, last_ack_number, send_wnd, peer_window_scale>>

-----------------------------------------------------------------------------
(***************************************************************************)
(* process_packet, one action per way through it.  A received segment p    *)
(* has fields valid, flags, seq, ack, window, len and options.             *)
(***************************************************************************)
Resets(p) == p.flags \in {"RST", "RST_ACK"}

\* A process_packet without the check for misses, and one that makes no
\* exception for the first segment.
ExpectedAny(p) == TRUE
ExpectedExactly(p) == p.seq = ack

\* Lines 65-68: an old segment returns early, a later one is a miss; ack = 0
\* stands for "the peer's numbers are not known yet".
Old(p) == SeqLess(p.seq, ack) /\ ack # 0
Expected(p) == p.seq = ack \/ ack = 0

PeerWindow(p) == ShiftLeft(p.window, peer_window_scale)
WindowAfter(p) == IF PeerWindow(p) > 0 THEN PeerWindow(p) ELSE send_wnd

BytesAcked(p) == SeqMinus(p.ack, last_ack_number)

\* An acknowledgment check without its upper end.
AckOkAnyBytes(p) == SeqLeq(last_ack_number, p.ack)
AckOk(p) == SeqLeq(last_ack_number, p.ack) /\ BytesAcked(p) <= unacknowledged_bytes

Receiving(p) == life = "running" /\ state # "Offline"

RejectPacket(p) ==
  /\ Receiving(p)
  /\ \/ ~ p.valid /\ Throw("Tcp packet is not valid")
     \/ p.valid /\ Resets(p) /\ Throw("rst received")
     \/ /\ p.valid /\ ~ Resets(p) /\ ~ Old(p) /\ ~ Expected(p)
        /\ Throw("Misses are not supported")
  /\ UNCHANGED conn

IgnoreOldPacket(p) ==
  /\ Receiving(p)
  /\ p.valid /\ ~ Resets(p) /\ Old(p)
  /\ Return(<<>>, p.len)
  /\ UNCHANGED conn

\* A process_packet that forgets lines 65-68.
InSequenceAnyOrder(p) == p.valid /\ ~ Resets(p)
InSequence(p) == p.valid /\ ~ Resets(p) /\ ~ Old(p) /\ Expected(p)

\* The window is taken over before the acknowledgment is checked.
RejectAck(p) ==
  /\ Receiving(p)
  /\ InSequence(p)
  /\ send_wnd' = WindowAfter(p)
  /\ \/ /\ ~ SeqLeq(last_ack_number, p.ack)
        /\ Throw("ack is not expected to decrease")
     \/ /\ SeqLeq(last_ack_number, p.ack)
        /\ BytesAcked(p) > unacknowledged_bytes
        /\ Throw("Unexpected bytes got acknowledged")
  /\ UNCHANGED <<state, seq, ack, last_ack_number, unacknowledged_bytes, peer_window_scale>>

CompletesHandshake(p) == state = "Connecting" /\ p.flags = "SYN_ACK"

AcceptSynAck(p) ==
  /\ Receiving(p)
  /\ InSequence(p) /\ AckOk(p) /\ CompletesHandshake(p)
  /\ send_wnd' = WindowAfter(p)
  /\ last_ack_number' = p.ack
  /\ state' = "Connected"
  /\ ack' = SeqPlus(p.seq, 1)
  /\ \/ /\ p.options.kind = BadOptions
        /\ seq' = SeqPlus(seq, 1)
        /\ unacknowledged_bytes' = unacknowledged_bytes - BytesAcked(p)
        /\ UNCHANGED peer_window_scale
        /\ Throw("Invalid length field")
     \/ /\ p.options.kind # BadOptions
        /\ peer_window_scale' =
             IF p.options.kind = NoScale THEN peer_window_scale ELSE p.options.shift
        /\ SendSegment("ACK", 0, SeqPlus(seq, 1), ack',
                       unacknowledged_bytes - BytesAcked(p), send_wnd', p.len)

\* Payload taken over and never acknowledged.
AcceptPayloadSilently(p) ==
  /\ Receiving(p)
  /\ InSequence(p) /\ AckOk(p)
  /\ state = "Connected" /\ p.len > 0
  /\ ack' = SeqPlus(p.seq, p.len)
  /\ Return(<<>>, p.len)
  /\ UNCHANGED <<state, seq, last_ack_number, unacknowledged_bytes, send_wnd,
                 peer_window_scale>>

AcceptPayload(p) ==
  /\ Receiving(p)
  /\ InSequence(p) /\ AckOk(p)
  /\ state = "Connected" /\ p.len > 0
  /\ send_wnd' = WindowAfter(p)
  /\ last_ack_number' = p.ack
  /\ ack' = SeqPlus(p.seq, p.len)
  /\ SendSegment("ACK", 0, seq, ack', unacknowledged_bytes - BytesAcked(p), send_wnd', p.len)
  /\ UNCHANGED <<state, peer_window_scale>>

\* Nothing to answer: no payload, or a payload before the SYN-ACK, which is
\* pushed all the same.
AcceptAckOnly(p) ==
  /\ Receiving(p)
  /\ InSequence(p) /\ AckOk(p) /\ ~ CompletesHandshake(p)
  /\ state = "Connecting" \/ p.len = 0
  /\ send_wnd' = WindowAfter(p)
  /\ last_ack_number' = p.ack
  /\ unacknowledged_bytes' = unacknowledged_bytes - BytesAcked(p)
  /\ Return(<<>>, p.len)
  /\ UNCHANGED <<state, seq, ack, peer_window_scale>>

ProcessPacket(p) ==
  \/ RejectPacket(p)
  \/ IgnoreOldPacket(p)
  \/ RejectAck(p)
  \/ AcceptSynAck(p)
  \/ AcceptPayload(p)
  \/ AcceptAckOnly(p)

-----------------------------------------------------------------------------
\* The worker loop ends because the launcher was told to stop.
Stop ==
  /\ life = "running"
  /\ state # "Offline"
  /\ life' = "unwinding"
  /\ sent' = <<>>
  /\ UNCHANGED <<conn, fault>>

\* ~Client: send_rst() when Connected.  An exception here ends the process.
Destroy ==
  /\ life = "unwinding"
  /\ UNCHANGED <<seq, ack, last_ack_number, unacknowledged_bytes, send_wnd,
                 peer_window_scale, fault>>
  /\ \/ /\ state # "Connected"
        /\ life' = "destroyed" /\ sent' = <<>>
        /\ UNCHANGED state
     \/ /\ state = "Connected"
        /\ unacknowledged_bytes <= send_wnd
        /\ state' = "Offline"
        /\ life' = "destroyed"
        /\ sent' = <<Segment("RST", seq, ack, 0)>>
     \/ /\ state = "Connected"
        /\ NicMayFail \/ unacknowledged_bytes > send_wnd
        /\ life' = "terminated" /\ sent' = <<>>
        /\ UNCHANGED state

-----------------------------------------------------------------------------
\* The segments any peer, or any other flow on the wire, may present: nothing
\* filters on addresses or ports.  FIN, PSH and URG are never looked at, nor
\* are the numbers of an RST or the options of anything but a SYN-ACK.
Sizes == RecvSizes \cup {Modulus - k : k \in Shortfalls}
NoOptions == [kind : {NoScale}, shift : {0}]
SynAckSegments ==
  [valid : {TRUE}, flags : {"SYN_ACK"}, seq : SeqNumbers, ack : SeqNumbers,
   window : Windows, len : Sizes, options : Options]
AckSegments ==
  [valid : {TRUE}, flags : {"ACK"}, seq : SeqNumbers, ack : SeqNumbers,
   window : Windows, len : Sizes, options : NoOptions]
RstSegments ==
  [valid : BOOLEAN, flags : {"RST", "RST_ACK"}, seq : {0}, ack : {0},
   window : {0}, len : {0}, options : NoOptions]
AnySegment == SynAckSegments \cup AckSegments \cup RstSegments

Next ==
  \/ Connect
  \/ \E len \in SendSizes : Send(len)
  \/ \E p \in AnySegment : ProcessPacket(p)
  \/ Stop
  \/ Destroy

Spec == Init /\ [][Next]_vars

-----------------------------------------------------------------------------
\* The members of tcp::Client stay in their ranges: unacknowledged_bytes, an
\* unsigned number from which process_packet subtracts, never wraps.
TypeOK ==
  /\ state \in States
  /\ seq \in SeqNumbers
  /\ ack \in SeqNumbers
  /\ last_ack_number \in SeqNumbers
  /\ unacknowledged_bytes \in 0 .. Half - 1
  /\ send_wnd \in 1 .. Half - 1
  /\ peer_window_scale \in Scales
  /\ fault \in Faults
  /\ life \in Lives
  /\ sent \in Seq([flags : Flags, seq : SeqNumbers, ack : SeqNumbers, len : Nat])

(***************************************************************************)
(* Send accounting: seq is exactly unacknowledged_bytes past the last      *)
(* number the peer acknowledged.  Until the SYN-ACK is processed seq does  *)
(* not count the SYN while unacknowledged_bytes does, hence the 1.  This   *)
(* is what makes the bytes_acked check of process_packet mean "nothing     *)
(* beyond what was sent", whatever segments arrive and wherever a handler  *)
(* throws after it has moved a counter.                                    *)
(***************************************************************************)
SendAccounting ==
  /\ state = "Connecting" /\ life = "running" =>
       SeqPlus(seq, 1) = SeqPlus(last_ack_number, unacknowledged_bytes)
  /\ state = "Connected" =>
       seq = SeqPlus(last_ack_number, unacknowledged_bytes)

(***************************************************************************)
(* No step puts bytes in flight beyond the window in force when it ends:   *)
(* the check in send uses the window of the packet being answered.         *)
(***************************************************************************)
WindowRespected ==
  [][unacknowledged_bytes' > unacknowledged_bytes => unacknowledged_bytes' <= send_wnd']_vars

(***************************************************************************)
(* A client that goes on never moves its acknowledgment number backwards   *)
(* in sequence space, as long as it is not 0, the value process_packet     *)
(* takes for "not known yet".  A total_length below the headers, which     *)
(* is_valid accepts, does move it back (client.cpp:97 adds the wrapped     *)
(* size) and may even be answered; but then push_bytes throws, in the same *)
(* packet, and the session is over.                                        *)
(***************************************************************************)
AckNeverRegresses ==
  [][ack # 0 /\ life' = "running" => SeqLeq(ack, ack')]_vars
=============================================================================
