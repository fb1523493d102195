------------------------------ MODULE Gateway -------------------------------
(***************************************************************************)
(* The gateway's worker, run_worker (src/gateway/ws_demo/service.cpp), with*)
(* its three clients on top of each other: tcp::Client (TcpSession, with   *)
(* the network and the server's TCP), tls12::Client (TlsClient) and        *)
(* wss::Client (WsClient), and a server that answers each of the client's  *)
(* three writes: ClientHello, the segment with Finished, upgrade request.  *)
(*                                                                         *)
(* A byte of the TCP session is a cell of the TLS stream, and a decrypted  *)
(* cell is a cell of the WebSocket stream.  What one layer hands to the    *)
(* next, and the exceptions that cross them, are the joint steps here;     *)
(* what a layer does with it is its own module's.                          *)
(***************************************************************************)
EXTENDS TcpSession, SequencesExt

CONSTANTS
  Script,          \* the server's TLS records
  SegmentEnds,     \* where in its stream the server may end a segment
  TlsCapacity,
  Response, Frames, \* what the application records decrypt to
  WsCapacity,
  MaxInFlight      \* segments to the client on the wire, when the server writes

VARIABLES
  handshake_state, tls_stream, transcript, plain,
  read_sequence_number, write_sequence_number, sealed, tls_pc, tls_fault,
  ws_state, ws_stream, inbox, messages, ws_pc, ws_fault

tls == <<handshake_state, tls_stream, transcript, plain, read_sequence_number,
         write_sequence_number, sealed, tls_fault>>
ws == <<ws_state, ws_stream, messages, ws_fault>>
layers == <<tls, tls_pc, ws, inbox, ws_pc>>
gatewayVars == <<allVars, layers>>

Tls == INSTANCE TlsClient WITH
  Capacity <- TlsCapacity, MaxSegment <- Max(RecvSizes), MaxDuplicates <- 0,
  MaxFlushes <- 1, SendMayFail <- NicMayFail,
  stream <- tls_stream, pc <- tls_pc, fault <- tls_fault,
  arrived <- Len(pushed), duplicates <- 0

\* The application data sealed in the records, and decrypt: a cell of it is a
\* cell of the WebSocket stream.
Sealed == FlattenSeq(Tls!ApplicationBodies)
PlainSize == Len(FlattenSeq(plain))

Ws == INSTANCE WsClient WITH
  Capacity <- WsCapacity, MaxPlain <- ServerBytes, SendMayFail <- NicMayFail,
  state <- ws_state, stream <- ws_stream, pc <- ws_pc, fault <- ws_fault,
  arrived <- PlainSize, tls_complete <- handshake_state = "ServerFinished"

Opened == [c \in Range(Sealed) |-> Ws!PlainStream[SelectInSeq(Sealed, LAMBDA x : x = c)]]
Decrypted(cells) == [i \in DOMAIN cells |-> Opened[cells[i]]]

ASSUME GatewayAssumption ==
  /\ ServerBytes = Len(Tls!ServerStream)
  /\ Len(Sealed) = Len(Ws!PlainStream)
  /\ SendSizes = {1} /\ ClientBytes = 3
  /\ MaxInFlight \in Nat
  /\ MaxRestarts = 0 /\ ~ PushMayFail

GatewayInit == SessionInit /\ Tls!Init /\ Ws!Init

-----------------------------------------------------------------------------
\* The worker.  It polls the NIC when the loop of service.cpp:66-70 has ended.
Running == life = "running"
Polling == Running /\ tls_pc = "poll" /\ ws_pc = "poll"
Thrown == tls_pc = "thrown" \/ ws_pc = "thrown"

\* The constructors, down to tcp.connect().
GatewayConnect ==
  /\ ClientConnect
  /\ UNCHANGED layers

\* process_packet of TCP, and of TLS if that returned: the TLS stream is here,
\* and whether it has space is its own to say (PushMayFail is FALSE).
Cells(bytes) == [i \in DOMAIN bytes |-> Tls!ServerStream[bytes[i][2]]]
GatewayReceive ==
  /\ Polling
  /\ ClientReceive
  /\ \/ /\ life' = "running"
        /\ Tls!PushPayload(Cells(BytesOf(Head(toClient))))
     \/ /\ life' # "running"
        /\ UNCHANGED <<tls_stream, tls_pc, tls_fault>>
  /\ UNCHANGED <<handshake_state, transcript, plain, read_sequence_number,
                 write_sequence_number, sealed, ws, inbox, ws_pc>>

\* One write of the layers above, as one segment.
Write ==
  /\ Send(1)
  /\ Transmit
  /\ written' = written + 1
  /\ UNCHANGED <<srv, iss, toClient, pushed, refused, counters>>

\* tls->receive(), called by next_message: what it returns is pushed into the
\* WebSocket stream, and it is called again, until it returns nothing.
TlsWrites ==
  \/ handshake_state = "ClientHelloToSend" /\ handshake_state' = "ServerHello"
  \/ handshake_state = "ServerHelloDone" /\ handshake_state' = "ClientFinished"
  \/ tls_fault' = "send"
Returned == Decrypted(FlattenSeq(SubSeq(plain', Len(plain) + 1, Len(plain'))))

\* A next_message that keeps only the last result.
TakeOverLast == inbox' = IF Returned = <<>> THEN inbox ELSE Returned
TakeOver == inbox' = inbox \o Returned
GatewayTls ==
  /\ Running /\ tls_pc = "receive"
  /\ \/ /\ UNCHANGED <<vars, session>>
        /\ Tls!Receive
        /\ ~ TlsWrites
     \/ /\ Write
        /\ Tls!Receive
        /\ TlsWrites
        /\ tls_fault' = "send" <=> life' # "running"
  /\ TakeOver
  /\ ws_pc' = IF tls_pc' = "poll" THEN "next" ELSE ws_pc
  /\ UNCHANGED ws

\* The rest of next_message, and run_worker's loop: after a message it calls
\* next_message, and that receive(), again.  The upgrade request is a record.
GatewayWs ==
  /\ Running /\ tls_pc = "poll" /\ ws_pc = "next"
  /\ \/ /\ ws_state = "Init" /\ handshake_state = "ServerFinished"
        /\ Write
        /\ Tls!Flush
        /\ tls_fault' = "send" <=> life' # "running"
        /\ Ws!NextMessage
        /\ ws_fault' = "send" <=> life' # "running"
     \/ /\ ws_state # "Init" \/ handshake_state # "ServerFinished"
        /\ UNCHANGED <<vars, session, tls>>
        /\ Ws!NextMessage
  /\ tls_pc' = IF tls_fault' # "none" THEN "thrown"
               ELSE IF ws_pc' = "next" THEN "receive" ELSE "poll"

\* is_stopped(), or an exception of the upper layers leaves run_worker.
GatewayStop ==
  /\ Polling \/ Thrown
  /\ ClientStop
  /\ UNCHANGED layers

GatewayDestroy ==
  /\ ClientDestroy
  /\ UNCHANGED layers

-----------------------------------------------------------------------------
\* The server answers what it has got: it sends its first flight, then
\* ChangeCipherSpec and Finished, then application data.
HandshakeEnd == Len(Tls!ServerStream)
  - Len(FlattenSeq([i \in DOMAIN Tls!ApplicationRecords |-> Tls!CellsOf(Tls!ApplicationRecords[i])]))
Answer(got) ==
  CASE got = 0 -> 0
    [] got = 1 -> Tls!FirstFlight
    [] got = 2 -> HandshakeEnd
    [] OTHER -> ServerBytes

ServerAnswers ==
  /\ ServerWrite
  /\ srv'.nxt - 1 <= Answer(srv.got)
  /\ srv'.nxt - 1 \in SegmentEnds
  /\ Len(toClient) < MaxInFlight
  /\ UNCHANGED layers

\* The application reads what was received, and the window opens again.
ServerRead ==
  /\ Open /\ srv.unread > 0
  /\ srv' = [srv EXCEPT !.unread = 0]
  /\ \/ UNCHANGED toClient
     \/ toClient' = Append(toClient, FromServer(srv', "ACK", srv.nxt, 0))
  /\ UNCHANGED <<vars, iss, toServer, pushed, refused, written, counters>>

ServerTcp ==
  /\ \/ ServerListen
     \/ ServerReceive
     \/ ServerRead
     \/ ServerClose
     \/ ServerRetransmit /\ Last(toClient').len = 0
  /\ UNCHANGED layers

GatewayNext ==
  \/ GatewayConnect
  \/ GatewayReceive
  \/ GatewayTls
  \/ GatewayWs
  \/ GatewayStop
  \/ GatewayDestroy
  \/ ServerAnswers
  \/ ServerTcp

GatewaySpec == GatewayInit /\ [][GatewayNext]_gatewayVars

\* The worker thread runs, the server does, and the network delivers.
FairGatewaySpec ==
  /\ GatewaySpec
  /\ WF_gatewayVars(GatewayConnect \/ GatewayReceive \/ GatewayTls \/ GatewayWs)
  /\ WF_gatewayVars((ServerListen \/ ServerReceive) /\ UNCHANGED layers)
  /\ WF_gatewayVars(ServerAnswers)

-----------------------------------------------------------------------------
(***************************************************************************)
(* Every packet the worker hands up reaches the TLS client as TlsClient's  *)
(* environment says packets may: in order, once, and no part of an answer  *)
(* before the client has written what it answers.  Whatever run Tls shows  *)
(* of TlsClient holds for it on top of tcp::Client.                        *)
(***************************************************************************)
TlsServed == Tls!Spec

(***************************************************************************)
(* And the WebSocket client, on top of both, is WsClient: records reach it *)
(* in order and once, all those of a packet together before it looks at    *)
(* its stream, and none before its upgrade request is out.                 *)
(***************************************************************************)
Given == IF ws_pc = "next" THEN inbox ELSE <<>>
WsView == INSTANCE WsClient WITH
  Capacity <- WsCapacity, MaxPlain <- ServerBytes, SendMayFail <- NicMayFail,
  state <- ws_state, stream <- ws_stream, pc <- ws_pc, fault <- ws_fault,
  inbox <- Given, arrived <- PlainSize - Len(inbox) + Len(Given),
  tls_complete <- handshake_state = "ServerFinished"
WsServed == WsView!Spec

(***************************************************************************)
(* With a server that sends one handshake message per record, no alert, no *)
(* frame of 125 bytes and no data behind a control frame, and a network    *)
(* that delivers, no check of any layer fails: only the NIC ends a session,*)
(* or a segment that follows the server's FIN, whose number the client     *)
(* never counts ("Misses are not supported", tcp/client.cpp:68).           *)
(***************************************************************************)
NicFaults == {"none", "Nullptr in tx_packet", "failed to send"}
CleanSession ==
  /\ fault \in NicFaults \/ (fault = "Misses are not supported" /\ srv.phase \in {"finwait", "closed"})
  /\ tls_fault \in {"none", "send"}
  /\ ws_fault \in {"none", "send"}

(***************************************************************************)
(* When the worker polls the NIC (service.cpp:45), process_payload has had *)
(* every message that the segments received so far complete, each once and *)
(* in order: nothing complete waits in the stream of any layer.            *)
(***************************************************************************)
Ends(lengths) == [k \in DOMAIN lengths |-> FoldSeq(+, 0, SubSeq(lengths, 1, k))]
\* ... of the TLS records, of the application data in them, and of the frames.
RecordEnds == Ends([k \in DOMAIN Script |-> Len(Tls!CellsOf(k))])
DataEnds == Ends([k \in DOMAIN Tls!ApplicationBodies |-> Len(Tls!ApplicationBodies[k])])
FrameEnds == Ends([k \in 1 .. Len(Frames) + 1 |-> Len(Ws!CellsOf(k - 1))])
Within(ends, n) == Cardinality({k \in DOMAIN ends : ends[k] <= n})
Completed(received) ==
  LET records == Within(RecordEnds, received) - (Len(Script) - Len(Tls!ApplicationRecords))
      data == IF records <= 0 THEN 0 ELSE DataEnds[records]
  IN Ws!Sent(Max({0, Within(FrameEnds, data) - 1}))
PromptDelivery == Polling => messages = Completed(Len(pushed))

(***************************************************************************)
(* A session that neither side ends gets to where it should: every byte of *)
(* both sides is acknowledged and every message has reached                *)
(* process_payload.                                                        *)
(***************************************************************************)
Served ==
  <>[](\/ ~ Running
       \/ srv.phase = "finwait"
       \/ /\ messages = Ws!Sent(Len(Frames))
          /\ unacknowledged_bytes = 0 /\ srv.una = ServerBytes + 1)
=============================================================================
