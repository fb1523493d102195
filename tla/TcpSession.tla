----------------------------- MODULE TcpSession -----------------------------
(***************************************************************************)
(* Sessions of tcp::Client with one server over a network that may lose,   *)
(* duplicate and reorder segments, and over restarts of the gateway, which *)
(* uses the same addresses and ports again (service.cpp:33-38).            *)
(*                                                                         *)
(* The server is not part of the repository: it is the least a TCP peer    *)
(* does (accept in order and inside its window, acknowledge cumulatively,  *)
(* answer anything else with its current acknowledgment, retransmit what   *)
(* is not acknowledged, close with a FIN).  It counts the bytes of each    *)
(* connection from 0, the SYN, through 1 .. ServerBytes; a data segment    *)
(* carries the connection and the count of its first byte, so that what    *)
(* the client delivers can be compared with what the server wrote however  *)
(* the sequence numbers wrap.                                              *)
(*                                                                         *)
(* `pushed` is what tls12::Client::process_packet appends to its stream:   *)
(* the payload of every packet tcp::Client::process_packet returned from,  *)
(* unless the stream has no space for it: `refused` is such a payload.     *)
(***************************************************************************)
EXTENDS TcpClient, FiniteSets, Functions

CONSTANTS
  ServerISS,       \* the initial sequence number of the first connection
  ServerBytes,     \* how many bytes the server's application writes
  ServerWindow,    \* the server's receive buffer
  ServerBuffers,   \* whether received bytes stay there until the server reads
  ServerMayClose,
  ClientBytes,     \* how many bytes the layers above the client send
  RestartSeqs,     \* the initial numbers a restarted client may draw
  MaxRestarts,
  MaxConnections,  \* connections the server accepts, one after the other
  MaxFaults,       \* segments lost, duplicated or overtaken, and restarts, in all
  MaxRetransmits   \* retransmissions of the server, in all

VARIABLES
  srv,             \* the server and its current connection
  iss,             \* the initial number of the client that runs
  toClient,        \* segments on the wire, oldest first
  toServer,
  pushed,          \* the server's bytes in the order the TLS stream got them
  refused,         \* those of the packet that push_bytes threw on
  written,         \* bytes the layers above have sent
  past,            \* the initial numbers of the clients before, one per restart
  faults, retransmits

counters == <<past, faults, retransmits>>
session == <<srv, iss, toClient, toServer, pushed, refused, written, counters>>
allVars == <<vars, session>>

ASSUME SessionAssumption ==
  /\ ServerISS \in SeqNumbers
  /\ ServerBytes \in Nat /\ ServerBytes + 1 < Half
  /\ ServerWindow \in Windows \ {0}
  /\ ServerBuffers => 0 .. ServerWindow \subseteq Windows
  /\ {ServerBuffers, ServerMayClose} \subseteq BOOLEAN
  /\ RestartSeqs \subseteq SeqNumbers
  /\ ClientBytes \in Nat /\ ClientBytes + 1 < Half
  /\ {MaxRestarts, MaxConnections, MaxFaults, MaxRetransmits} \subseteq Nat

SessionInit ==
  /\ Init
  /\ srv = [phase |-> "listen", inc |-> 0, irs |-> 0, got |-> 0, unread |-> 0, una |-> 0, nxt |-> 0]
  /\ iss = seq
  /\ toClient = <<>> /\ toServer = <<>>
  /\ pushed = <<>> /\ refused = <<>>
  /\ written = 0
  /\ past = {} /\ faults = 0 /\ retransmits = 0

-----------------------------------------------------------------------------
\* The client.  What a handler sends goes onto the wire.
Transmit == toServer' = toServer \o sent'

ClientConnect ==
  /\ Connect
  /\ Transmit
  /\ UNCHANGED <<srv, iss, toClient, pushed, refused, written, counters>>

ClientSend ==
  \E len \in SendSizes :
    /\ state = "Connected"
    /\ written + len <= ClientBytes
    /\ Send(len)
    /\ Transmit
    /\ written' = written + len
    /\ UNCHANGED <<srv, iss, toClient, pushed, refused, counters>>

\* A payload view that starts one byte late.
BytesOfLate(p) == [i \in 1 .. p.len |-> <<p.inc, p.first + i>>]
BytesOf(p) == [i \in 1 .. p.len |-> <<p.inc, p.first + i - 1>>]

\* The payload is pushed whenever process_packet returned: after an old
\* segment too, not after an exception.  push_bytes takes all of it or throws.
Deliver(p) ==
  \/ /\ life' = "running"
     /\ pushed' = pushed \o BytesOf(p)
     /\ UNCHANGED refused
  \/ /\ life' # "running" /\ fault' = "Not enough space"
     /\ refused' = BytesOf(p)
     /\ UNCHANGED pushed
  \/ /\ life' # "running" /\ fault' # "Not enough space"
     /\ UNCHANGED <<pushed, refused>>

ClientReceive ==
  /\ toClient # <<>>
  /\ LET p == Head(toClient) IN
       /\ ProcessPacket(p)
       /\ Deliver(p)
  /\ toClient' = Tail(toClient)
  /\ Transmit
  /\ UNCHANGED <<srv, iss, written, counters>>

ClientStop ==
  /\ Stop
  /\ UNCHANGED session

ClientDestroy ==
  /\ Destroy
  /\ Transmit
  /\ UNCHANGED <<srv, iss, toClient, pushed, refused, written, counters>>

MayFault == faults + Cardinality(past) < MaxFaults
MayRestart == MayFault /\ Cardinality(past) < MaxRestarts

\* The process ends without ~Client.
ClientKill ==
  /\ MayRestart
  /\ life \in {"running", "unwinding"}
  /\ life' = "terminated" /\ sent' = <<>>
  /\ UNCHANGED <<conn, fault, session>>

\* The numbers of the session that starts at i: the SYN's, those of its bytes
\* and the one after.
Numbers(i) == {SeqPlus(i, k) : k \in 0 .. ClientBytes + 1}

\* The random number starts a session whose numbers, of 2^32, are not among
\* the few that the sessions before have used.
Fresh(s) == \A i \in past \cup {iss} : Numbers(s) \cap Numbers(i) = {}

\* A new process: clear_receive_queue takes what the NIC has received so far,
\* and a new tcp::Client is constructed.
ClientRestart ==
  /\ MayRestart
  /\ life \in {"destroyed", "terminated"}
  /\ past' = past \cup {iss}
  /\ \E k \in 0 .. Len(toClient) : toClient' = SubSeq(toClient, k + 1, Len(toClient))
  /\ \E s \in RestartSeqs : Fresh(s) /\ seq' = s /\ iss' = s /\ last_ack_number' = s
  /\ state' = "Offline" /\ ack' = 0 /\ unacknowledged_bytes' = 0
  /\ send_wnd' = kWindowSize /\ peer_window_scale' = 0
  /\ fault' = "none" /\ life' = "running" /\ sent' = <<>>
  /\ pushed' = <<>> /\ refused' = <<>> /\ written' = 0
  /\ UNCHANGED <<srv, toServer, faults, retransmits>>

-----------------------------------------------------------------------------
\* The server.  The numbers of its connections follow each other, as RFC 793
\* wants them to; the last number of each may be a FIN's.
Stride == ServerBytes + 3
NumberOf(inc, i) == SeqPlus(ServerISS, (inc - 1) * Stride + i)

Rcv(s) == SeqPlus(s.irs, 1 + s.got)

FromServer(s, flags, i, len) ==
  [valid |-> TRUE, flags |-> flags, seq |-> NumberOf(s.inc, i), ack |-> Rcv(s),
   window |-> ServerWindow - s.unread, len |-> len,
   options |-> [kind |-> NoScale, shift |-> 0], inc |-> s.inc, first |-> i]

Open == srv.phase \in {"synrcvd", "estab", "finwait"}

\* The counts an acknowledgment a may stand for, given what is in flight.
AckedUpTo(a) == {i \in srv.una + 1 .. srv.nxt : NumberOf(srv.inc, i) = a}

\* Without a connection, a SYN starts one and anything else is answered by a
\* reset.
ServerListen ==
  /\ srv.phase \in {"listen", "closed"}
  /\ toServer # <<>>
  /\ LET p == Head(toServer)
         s == [phase |-> "synrcvd", inc |-> srv.inc + 1, irs |-> p.seq, got |-> 0,
               unread |-> 0, una |-> 0, nxt |-> 1]
     IN \/ /\ p.flags = "SYN" /\ srv.inc < MaxConnections
           /\ srv' = s
           /\ toClient' = Append(toClient, FromServer(s, "SYN_ACK", 0, 0))
        \/ /\ p.flags = "SYN" /\ srv.inc = MaxConnections
           /\ UNCHANGED <<srv, toClient>>
        \/ /\ p.flags # "SYN"
           /\ toClient' = IF p.flags = "RST" THEN toClient
                          ELSE Append(toClient, FromServer(srv, "RST", srv.nxt, 0))
           /\ UNCHANGED srv
  /\ toServer' = Tail(toServer)
  /\ UNCHANGED <<vars, iss, pushed, refused, written, counters>>

ServerReceive ==
  /\ Open
  /\ toServer # <<>>
  /\ LET p == Head(toServer)
         up == IF p.flags \in {"SYN", "RST"} THEN {} ELSE AckedUpTo(p.ack)
         una == IF up = {} THEN srv.una ELSE CHOOSE i \in up : TRUE
         inOrder == p.seq = Rcv(srv) /\ p.len <= ServerWindow - srv.unread
         len == IF inOrder THEN p.len ELSE 0
         phase == IF p.flags = "RST" /\ inOrder THEN "closed"
                  ELSE IF srv.phase = "synrcvd" /\ una > 0 THEN "estab" ELSE srv.phase
         s == [srv EXCEPT !.phase = phase, !.una = una, !.got = @ + len,
                          !.unread = @ + IF ServerBuffers THEN len ELSE 0]
     IN /\ srv' = s
        /\ toClient' = IF (p.len > 0 \/ ~ inOrder) /\ p.flags # "RST"
                       THEN Append(toClient, FromServer(s, "ACK", s.nxt, 0))
                       ELSE toClient
  /\ toServer' = Tail(toServer)
  /\ UNCHANGED <<vars, iss, pushed, refused, written, counters>>

ServerWrite ==
  /\ srv.phase = "estab"
  /\ \E len \in RecvSizes \ {0} :
       /\ srv.nxt + len <= ServerBytes + 1
       /\ toClient' = Append(toClient, FromServer(srv, "PSH_ACK", srv.nxt, len))
       /\ srv' = [srv EXCEPT !.nxt = @ + len]
  /\ UNCHANGED <<vars, iss, toServer, pushed, refused, written, counters>>

\* The FIN takes a number of its own.
ServerClose ==
  /\ ServerMayClose /\ srv.phase = "estab"
  /\ toClient' = Append(toClient, FromServer(srv, "FIN_ACK", srv.nxt, 0))
  /\ srv' = [srv EXCEPT !.phase = "finwait", !.nxt = @ + 1]
  /\ UNCHANGED <<vars, iss, toServer, pushed, refused, written, counters>>

DataEnd == IF srv.phase = "finwait" THEN srv.nxt - 1 ELSE srv.nxt

\* The SYN-ACK again, or unacknowledged bytes again: not necessarily in the
\* pieces they were first sent in.
ServerRetransmit ==
  /\ retransmits < MaxRetransmits
  /\ retransmits' = retransmits + 1
  /\ \/ /\ srv.phase = "synrcvd"
        /\ toClient' = Append(toClient, FromServer(srv, "SYN_ACK", 0, 0))
     \/ /\ srv.phase \in {"estab", "finwait"}
        /\ \E len \in RecvSizes \ {0} :
             /\ srv.una + len <= DataEnd
             /\ toClient' = Append(toClient, FromServer(srv, "PSH_ACK", srv.una, len))
     \/ /\ srv.phase = "finwait" /\ srv.una = DataEnd
        /\ toClient' = Append(toClient, FromServer(srv, "FIN_ACK", DataEnd, 0))
  /\ UNCHANGED <<vars, srv, iss, toServer, pushed, refused, written, past, faults>>

-----------------------------------------------------------------------------
\* The network.
Without(q, i) == SubSeq(q, 1, i - 1) \o SubSeq(q, i + 1, Len(q))
Lossy(q) == {Without(q, i) : i \in DOMAIN q}
Duplicating(q) == {Append(q, q[i]) : i \in DOMAIN q}
Overtaking(q) == {Append(Without(q, i), q[i]) : i \in 1 .. Len(q) - 1}
Disturbed(q) == Lossy(q) \cup Duplicating(q) \cup Overtaking(q)

NetworkFault ==
  /\ MayFault
  /\ faults' = faults + 1
  /\ \/ toClient' \in Disturbed(toClient) /\ UNCHANGED toServer
     \/ toServer' \in Disturbed(toServer) /\ UNCHANGED toClient
  /\ UNCHANGED <<vars, srv, iss, pushed, refused, written, past, retransmits>>

SessionNext ==
  \/ ClientConnect
  \/ ClientSend
  \/ ClientReceive
  \/ ClientStop
  \/ ClientDestroy
  \/ ClientKill
  \/ ClientRestart
  \/ ServerListen
  \/ ServerReceive
  \/ ServerWrite
  \/ ServerClose
  \/ ServerRetransmit
  \/ NetworkFault

SessionSpec == SessionInit /\ [][SessionNext]_allVars
-----------------------------------------------------------------------------
\* The connection the server has is with the client that runs.
Ours == Open /\ srv.irs = iss
Own(i) == pushed[i][1] = srv.inc

(***************************************************************************)
(* "Misses are not supported" (client.cpp:68): a byte of the connection    *)
(* reaches the TLS stream only after every byte the server wrote before    *)
(* it, whatever the network loses, duplicates or reorders.                 *)
(***************************************************************************)
NoByteSkipped ==
  Ours => \A i \in DOMAIN pushed : Own(i) =>
            \A k \in 1 .. pushed[i][2] - 1 : \E j \in 1 .. i - 1 : pushed[j] = <<srv.inc, k>>

\* The payloads of the packets that tcp::Client::process_packet returned from.
Taken == Range(pushed) \cup Range(refused)

(***************************************************************************)
(* What the server has seen acknowledged is in the TLS stream, or in the   *)
(* one packet the stream had no space for: the ACK of lines 96-99 leaves   *)
(* the client before tls12::Client::process_packet pushes the payload, the *)
(* server will not send it again, and a client that goes on has lost none. *)
(***************************************************************************)
AckedBytesWereDelivered ==
  /\ Ours => \A k \in 1 .. srv.una - 1 : <<srv.inc, k>> \in Taken
  /\ refused # <<>> => life # "running"

(***************************************************************************)
(* A server that acknowledges only what it received never trips "Unexpected*)
(* bytes got acknowledged" (line 77), however its acknowledgments are      *)
(* delayed, repeated or overtaken; before a restart.                       *)
(***************************************************************************)
HonestAcksFit == past = {} => fault # "Unexpected bytes got acknowledged"

(***************************************************************************)
(* Until the SYN-ACK ack is 0, and process_packet takes any sequence number*)
(* (line 68).  Segments of the session before a restart carry payloads     *)
(* then; only the check of their acknowledgments keeps these out of the    *)
(* TLS stream.                                                             *)
(***************************************************************************)
NothingBeforeHandshake == state = "Connecting" => pushed = <<>>

(***************************************************************************)
(* While the client is connected its acknowledgment number is the number   *)
(* of a byte that the server has sent, or sends next, on this connection:  *)
(* never of one before a restart, and never beyond a FIN.                  *)
(***************************************************************************)
AckIsOurs ==
  state = "Connected" /\ life = "running" =>
    Ours /\ \E i \in 1 .. DataEnd : ack = NumberOf(srv.inc, i)
=============================================================================
