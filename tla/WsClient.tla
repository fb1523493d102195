------------------------------ MODULE WsClient ------------------------------
(***************************************************************************)
(* wss::Client (src/network/wss/client.{h,cpp}, model.h) and the loop of   *)
(* run_worker that drives it: from decrypted TLS records to WebSocket      *)
(* messages.                                                               *)
(*                                                                         *)
(* The server's plaintext is the HTTP response, Response cells long, and   *)
(* then Frames.  A frame has an opcode, the kind of its length field and a *)
(* number of payload cells; its header is one cell, and one or two more    *)
(* for an extended length.  A cell is <<frame, offset>>, the response is   *)
(* frame 0.  Each step of pc = "next" is one call of next_message, which   *)
(* first takes over every record the TLS client has decrypted (inbox).     *)
(***************************************************************************)
EXTENDS Naturals, SequencesExt

CONSTANTS
  Response,      \* cells of the HTTP response
  Frames,        \* the server's frames: [op, length, size]
  Capacity,      \* of the stream member
  MaxPlain,      \* the most cells of plaintext one TCP packet completes
  SendMayFail    \* whether the upgrade request's flush may throw

VARIABLES
  state,         \* wss::Client::State
  stream,
  inbox,         \* decrypted, not yet taken over by next_message
  tls_complete,  \* tls->is_handshake_complete()
  messages,      \* what process_payload was called with
  pc, fault,
  arrived        \* cells of the server's plaintext that have arrived

vars == <<state, stream, inbox, tls_complete, messages, pc, fault, arrived>>

\* The kinds of length field: below 125, exactly 125, 126 and 127.
HeaderOf(length) ==
  CASE length \in {"short", "125"} -> 1
    [] length = "16" -> 2
    [] length = "64" -> 3

\* A FrameBasicHeader::type() that takes 126 for 127.
HeaderReadNo16(length) == IF length = "short" THEN 1 ELSE 3

\* FrameBasicHeader::type() as it is: 125 is read as a 64-bit length.
HeaderRead(length) == IF length = "125" THEN 3 ELSE HeaderOf(length)

CellsOf(k) ==
  IF k = 0 THEN [j \in 1 .. Response |-> <<0, j>>]
  ELSE [j \in 1 .. HeaderOf(Frames[k].length) + Frames[k].size |-> <<k, j>>]
PlainStream == FlattenSeq([k \in 1 .. Len(Frames) + 1 |-> CellsOf(k - 1)])

DataOps == {"Text", "Binary"}
Ops == DataOps \cup {"Continuation", "Close", "Ping", "Pong"}

ASSUME WsAssumption ==
  /\ Response \in Nat \ {0}
  /\ \A k \in DOMAIN Frames : Frames[k].op \in Ops /\ Frames[k].size \in Nat
  /\ {Capacity, MaxPlain} \subseteq Nat
  /\ SendMayFail \in BOOLEAN

\* A client that starts one state late.
InitLate ==
  /\ state = "HttpHandshake"
  /\ stream = <<>> /\ inbox = <<>> /\ messages = <<>>
  /\ tls_complete = FALSE
  /\ pc = "poll" /\ fault = "none"
  /\ arrived = 0

Init ==
  /\ state = "Init"
  /\ stream = <<>>
  /\ inbox = <<>>
  /\ tls_complete = FALSE
  /\ messages = <<>>
  /\ pc = "poll"
  /\ fault = "none"
  /\ arrived = 0

Throw(what) == fault' = what /\ pc' = "thrown"

-----------------------------------------------------------------------------
\* Packets, as the TLS client turns them into plaintext.
TlsCompletes ==
  /\ pc = "poll" /\ ~ tls_complete
  /\ tls_complete' = TRUE
  /\ pc' = "next"
  /\ UNCHANGED <<state, stream, inbox, messages, fault, arrived>>

\* The server answers the upgrade request, and goes on with frames.
Decrypt ==
  /\ pc = "poll" /\ state # "Init"
  /\ \E n \in 1 .. MaxPlain :
       /\ arrived + n <= Len(PlainStream)
       /\ inbox' = SubSeq(PlainStream, arrived + 1, arrived + n)
       /\ arrived' = arrived + n
  /\ pc' = "next"
  /\ UNCHANGED <<state, stream, tls_complete, messages, fault>>

DecryptNothing ==
  /\ pc = "poll"
  /\ pc' = "next"
  /\ UNCHANGED <<state, stream, inbox, tls_complete, messages, fault, arrived>>

-----------------------------------------------------------------------------
(***************************************************************************)
(* peek_header: what the first cells of s are read as.  A frame's first    *)
(* cell is read as it is, but for the size of a 125-byte frame, which is   *)
(* read from its payload; any other cell is read as anything.              *)
(***************************************************************************)
Readings(s) ==
  LET k == s[1][1]
      read == HeaderRead(Frames[k].length)
  IN IF k # 0 /\ s[1][2] = 1
     THEN {[op |-> Frames[k].op, header |-> read, size |-> n] :
            n \in IF read = HeaderOf(Frames[k].length) THEN {Frames[k].size} ELSE 0 .. Capacity}
     ELSE [op : {"Text", "Ping", "masked", "invalid"}, header : 1 .. 3, size : 0 .. Capacity]

\* extract_payload and the end of next_message, on the content s.
Extract(s) ==
  \/ /\ \/ s = <<>>
        \/ /\ s # <<>>
           /\ \E h \in Readings(s) : h.header + h.size > Len(s)
     /\ stream' = s
     /\ pc' = "poll"
     /\ UNCHANGED <<messages, fault>>
  \/ /\ s # <<>>
     /\ \E h \in Readings(s) :
          /\ h.header + h.size <= Len(s)
          /\ stream' = SubSeq(s, h.header + h.size + 1, Len(s))
          /\ \/ /\ h.op = "masked" /\ Throw("mask")
                /\ UNCHANGED messages
             \/ /\ h.op = "invalid" /\ Throw("code")
                /\ UNCHANGED messages
             \/ /\ h.op \in DataOps
                /\ messages' = Append(messages, SubSeq(s, h.header + 1, h.header + h.size))
                /\ UNCHANGED <<pc, fault>>
             \/ /\ h.op \notin DataOps \cup {"masked", "invalid"}
                /\ pc' = "poll"
                /\ UNCHANGED <<messages, fault>>

\* An accept_handshake that drops what came with the response.
AfterResponseAll(s) == <<>>

\* accept_handshake: the response's first and last cell are found, and all up
\* to the last is dropped.
Found(s) == {<<0, 1>>, <<0, Response>>} \subseteq Range(s)
AfterResponse(s) == SubSeq(s, SelectInSeq(s, LAMBDA c : c = <<0, Response>>) + 1, Len(s))

NextMessage ==
  /\ pc = "next"
  /\ LET s == stream \o inbox IN
     \/ /\ Len(s) > Capacity
        /\ Throw("Not enough space")
        /\ UNCHANGED <<state, stream, messages>>
     \/ /\ Len(s) <= Capacity
        /\ tls_complete /\ state = "Init"
        /\ \/ state' = "HttpHandshake" /\ Extract(s)
           \/ SendMayFail /\ Throw("send") /\ stream' = s /\ UNCHANGED <<state, messages>>
     \/ /\ Len(s) <= Capacity
        /\ tls_complete /\ state = "HttpHandshake"
        /\ \/ Found(s) /\ state' = "Connected" /\ Extract(AfterResponse(s))
           \/ ~ Found(s) /\ stream' = s /\ pc' = "poll" /\ UNCHANGED <<state, messages, fault>>
     \/ /\ Len(s) <= Capacity
        /\ ~ tls_complete \/ state = "Connected"
        /\ Extract(s)
        /\ UNCHANGED state
  /\ inbox' = <<>>
  /\ UNCHANGED <<tls_complete, arrived>>

Next == TlsCompletes \/ Decrypt \/ DecryptNothing \/ NextMessage

Spec == Init /\ [][Next]_vars

-----------------------------------------------------------------------------
\* The stream of wss::Client never exceeds its capacity, and the upgrade
\* request never leaves before the TLS handshake is complete.
TypeOK ==
  /\ state \in {"Init", "HttpHandshake", "Connected"}
  /\ Len(stream) <= Capacity
  /\ state # "Init" => tls_complete
  /\ pc \in {"poll", "next", "thrown"}
  /\ pc = "thrown" <=> fault # "none"
  /\ inbox # <<>> => pc = "next"

\* The payloads of the server's data frames.
Payload(k) == SubSeq(CellsOf(k), HeaderOf(Frames[k].length) + 1, Len(CellsOf(k)))
Sent(last) ==
  LET k == SelectSeq([i \in 1 .. last |-> i], LAMBDA i : Frames[i].op \in DataOps)
  IN [i \in DOMAIN k |-> Payload(k[i])]

\* The frames before the first of exactly 125 bytes.
Readable ==
  LET bad == {k \in DOMAIN Frames : Frames[k].length = "125"}
  IN IF bad = {} THEN Len(Frames) ELSE Min(bad) - 1

\* No byte of that frame has arrived.
InStep == arrived <= Len(FlattenSeq([k \in 1 .. Readable + 1 |-> CellsOf(k - 1)]))

(***************************************************************************)
(* process_payload gets the payloads of the server's text and binary       *)
(* frames, each once, whole and in order, however TLS records and TCP      *)
(* segments cut the response and the frames: up to the first frame of      *)
(* exactly 125 bytes, which FrameBasicHeader::type() misreads.             *)
(***************************************************************************)
MessagesAsSent ==
  LET sent == Sent(Readable)
  IN IsPrefix(messages, sent) \/ IsPrefix(sent, messages)

(***************************************************************************)
(* "No payload. Going to next packet" (service.cpp:70): when the worker    *)
(* goes back to the NIC, no complete data frame waits in the stream.       *)
(***************************************************************************)
WholeFrame(s) ==
  s # <<>> /\ LET k == s[1][1] IN k # 0 /\ s[1][2] = 1 /\ Len(CellsOf(k)) <= Len(s)
CompleteFrame(s) == WholeFrame(s) /\ Frames[s[1][1]].op \in DataOps
NoPayloadWaits == InStep /\ pc = "poll" => ~ CompleteFrame(stream)

(***************************************************************************)
(* Before a frame of 125 bytes the client stays on frame boundaries, where *)
(* no mask bit is set and every opcode is valid (client.cpp:17-18); and    *)
(* the largest frame, or the response, and one packet's plaintext less one *)
(* byte is all the space the stream needs (stream.cpp:41), unless whole    *)
(* frames wait in it.  They do when several control or continuation frames *)
(* come with a packet, since each call of next_message that takes one      *)
(* returns nothing and ends the packet (client.cpp:105): then, and only    *)
(* then, "Not enough space" ends a session with a well-behaved server.     *)
(***************************************************************************)
NoFaultInStep ==
  InStep => \/ fault \in {"none", "send"}
            \/ fault = "Not enough space" /\ WholeFrame(stream)
=============================================================================
