----------------------------- MODULE TlsClient ------------------------------
(***************************************************************************)
(* tls12::Client (src/network/tls12/client.{h,cpp}): the TLS 1.2 client,   *)
(* from the payloads of TCP segments to decrypted application records.     *)
(*                                                                         *)
(* The server's byte stream is the records of Script.  A record is a header*)
(* of two cells (content type and version; size) and a body of one cell    *)
(* per handshake message or piece of application data; application data is *)
(* sealed between an explicit IV and a tag, one cell each.  A cell is      *)
(* <<record, offset>>.  The stream member holds cells: it is the bounded   *)
(* queue that base::Stream implements (module Stream), and process_packet  *)
(* shifts it before every push, so that only its content counts.           *)
(*                                                                         *)
(* receive() runs inside wss::Client::next_message, which calls it until   *)
(* it returns nothing: pc is "receive" while that goes on, one step per    *)
(* call, recursive calls included, and "poll" while the worker waits for   *)
(* the next packet.                                                        *)
(***************************************************************************)
EXTENDS Naturals, SequencesExt

CONSTANTS
  Script,          \* the server's records, in order: [type, body]
  Capacity,        \* of the stream member
  MaxSegment,      \* the most cells a segment carries
  SegmentEnds,     \* where in its stream the server may end a segment
  MaxDuplicates,   \* old segments that arrive again
  MaxFlushes,      \* records the layer above sends
  SendMayFail      \* whether tcp.send may throw

VARIABLES
  handshake_state,
  stream,
  transcript,      \* what handshake_hash was fed
  plain,           \* the ciphertexts receive() decrypted and returned
  read_sequence_number, write_sequence_number,
  sealed,          \* the records the client has encrypted
  pc, fault,
  arrived,         \* cells of the server's stream that have arrived
  duplicates

opened == <<plain, read_sequence_number>>
sealing == <<write_sequence_number, sealed>>
client == <<handshake_state, stream, transcript, opened, sealing>>
environment == <<arrived, duplicates>>
vars == <<client, pc, fault, environment>>

HeaderSize == 2
IvSize == 1
TagSize == 1

CellsOf(k) == [j \in 1 .. HeaderSize + Len(Script[k].body) |-> <<k, j - 1>>]
ServerStream == FlattenSeq([k \in DOMAIN Script |-> CellsOf(k)])

\* How much the server sends before it waits for the client's Finished.
FirstFlight ==
  LET done == CHOOSE k \in DOMAIN Script : "ServerHelloDone" \in Range(Script[k].body)
  IN Len(FlattenSeq([k \in 1 .. done |-> CellsOf(k)]))

MaxRecord == HeaderSize + Max({Len(Script[k].body) : k \in DOMAIN Script})

ASSUME TlsAssumption ==
  /\ \A k \in DOMAIN Script : Script[k].type \in {"Handshake", "ChangeCipher", "ApplicationData"}
  /\ \E k \in DOMAIN Script : "ServerHelloDone" \in Range(Script[k].body)
  /\ {Capacity, MaxSegment, MaxDuplicates, MaxFlushes} \subseteq Nat
  /\ SegmentEnds \subseteq Nat
  /\ SendMayFail \in BOOLEAN

HandshakeStates ==
  {"ClientHelloToSend", "ServerHello", "ServerCertificate", "ServerKeyExchange",
   "ServerHelloDone", "ClientFinished", "ServerFinished"}

\* The client's messages that enter the hash, as one value each.
kClientHelloMessage == "ClientHello"
kX25519KeyExchangeMessage == "ClientKeyExchange"

\* The constructor, tcp.connect() included: the SYN is out.
Init ==
  /\ handshake_state = "ClientHelloToSend"
  /\ stream = <<>>
  /\ transcript = <<>>
  /\ plain = <<>>
  /\ read_sequence_number = 0
  /\ write_sequence_number = 0
  /\ sealed = <<>>
  /\ pc = "poll"
  /\ fault = "none"
  /\ arrived = 0 /\ duplicates = 0

Throw(what) == fault' = what /\ pc' = "thrown"

-----------------------------------------------------------------------------
\* A process_packet that starts the stream afresh.
PushPayloadFresh(cells) ==
  /\ stream' = cells
  /\ pc' = "receive"
  /\ UNCHANGED fault

\* process_packet once tcp.process_packet has returned: shift, then push.
PushPayload(cells) ==
  \/ /\ Len(stream) + Len(cells) <= Capacity
     /\ stream' = stream \o cells
     /\ pc' = "receive"
     /\ UNCHANGED fault
  \/ /\ Len(stream) + Len(cells) > Capacity
     /\ Throw("Not enough space")
     /\ UNCHANGED stream

Allowed ==
  CASE handshake_state = "ClientHelloToSend" -> 0
    [] handshake_state \in {"ClientFinished", "ServerFinished"} -> Len(ServerStream)
    [] OTHER -> FirstFlight

ProcessPacket ==
  /\ pc = "poll"
  /\ \E n \in 1 .. MaxSegment :
       /\ arrived + n <= Allowed
       /\ arrived + n \in SegmentEnds
       /\ PushPayload(SubSeq(ServerStream, arrived + 1, arrived + n))
       /\ arrived' = arrived + n
  /\ UNCHANGED <<handshake_state, transcript, opened, sealing, duplicates>>

\* The SYN-ACK, and acknowledgments of what the client sent.
ProcessEmptyPacket ==
  /\ pc = "poll"
  /\ PushPayload(<<>>)
  /\ UNCHANGED <<handshake_state, transcript, opened, sealing, arrived, duplicates>>

\* tcp.process_packet returns early on a segment that starts before ack, also
\* when it reaches beyond it; its payload is pushed all the same.
ProcessOldPacket ==
  /\ pc = "poll"
  /\ duplicates < MaxDuplicates
  /\ duplicates' = duplicates + 1
  /\ \E from \in 1 .. arrived, n \in 1 .. MaxSegment :
       /\ from + n - 1 <= Allowed
       /\ PushPayload(SubSeq(ServerStream, from, from + n - 1))
  /\ UNCHANGED <<handshake_state, transcript, opened, sealing, arrived>>

-----------------------------------------------------------------------------
\* Reading the stream.  A header whose cells are not a header's shows some
\* other bytes: its version is wrong, or its size is anything.
HasHeader == Len(stream) >= HeaderSize
RightVersion == stream[1][2] = 0
ContentType == Script[stream[1][1]].type
SizesOfHeader(at) ==
  LET c == stream[at + 1]
  IN IF c[2] = 1 THEN {Len(Script[c[1]].body)} ELSE 0 .. Capacity

Drop(n) == SubSeq(stream, n + 1, Len(stream))

\* What a body cell says: a handshake message or a piece of data.
Says(c) == IF c[2] >= HeaderSize THEN Script[c[1]].body[c[2] - HeaderSize + 1] ELSE "header"
SaysAll(cells) == [i \in DOMAIN cells |-> Says(cells[i])]

\* receive() returned nothing: next_message goes on without TLS.
ReturnNothing == pc' = "poll" /\ UNCHANGED fault

SendClientHello ==
  /\ pc = "receive"
  /\ handshake_state = "ClientHelloToSend" /\ stream = <<>>
  /\ \/ /\ transcript' = Append(transcript, kClientHelloMessage)
        /\ handshake_state' = "ServerHello" /\ ReturnNothing
     \/ /\ SendMayFail /\ Throw("send") /\ UNCHANGED handshake_state
        /\ transcript' \in {transcript, Append(transcript, kClientHelloMessage)}
  /\ UNCHANGED <<stream, opened, sealing, environment>>

Waiting == ~ (handshake_state = "ClientHelloToSend" /\ stream = <<>>)

AwaitRecord ==
  /\ pc = "receive" /\ Waiting
  /\ \/ ~ HasHeader
     \/ /\ HasHeader /\ RightVersion
        /\ \E n \in SizesOfHeader(1) : HeaderSize + n > Len(stream)
  /\ ReturnNothing
  /\ UNCHANGED <<client, environment>>

RejectRecord ==
  /\ pc = "receive" /\ Waiting /\ HasHeader /\ ~ RightVersion
  /\ Throw("wrong protocol")
  /\ UNCHANGED <<client, environment>>

\* A record with n cells of body is complete, and is this state's to handle.
Handles(s, n) ==
  /\ pc = "receive" /\ Waiting
  /\ handshake_state = s
  /\ HasHeader /\ RightVersion
  /\ n \in SizesOfHeader(1) /\ HeaderSize + n <= Len(stream)

\* A receive() that stops after each handshake record.
ReturnAfterEach == ReturnNothing

\* Lines 61-64: on to the next record as long as a header is there.
ReturnAfter ==
  /\ pc' = IF Len(stream') >= HeaderSize THEN "receive" ELSE "poll"
  /\ UNCHANGED fault

-----------------------------------------------------------------------------
\* Shows without the check of the message's type.
ShowsAny(message) == Drop(HeaderSize) # <<>>

\* process_handshake: each state expects one message behind the header.
Body == Drop(HeaderSize)
Expected ==
  [ServerHello |-> "ServerHello", ServerCertificate |-> "Certificate",
   ServerKeyExchange |-> "ServerKeyExchange", ServerHelloDone |-> "ServerHelloDone"]
Shows(message) == Body # <<>> /\ Says(Body[1]) = message

\* Takes k cells of the body, hashes them, and hashes what the client sends.
Take(k, sends) ==
  /\ stream' = SubSeq(Body, k + 1, Len(Body))
  /\ transcript' = transcript \o SaysAll(SubSeq(Body, 1, k)) \o sends

\* ServerHello and Certificate are taken as the whole record; the former is
\* known by its cipher suite, which no other message has in that place ...
ProcessServerHello(n) ==
  /\ Handles("ServerHello", n) /\ Shows("ServerHello")
  /\ Take(n, <<>>)
  /\ handshake_state' = "ServerCertificate"
  /\ ReturnAfter
  /\ UNCHANGED <<opened, sealing, environment>>

ProcessServerCertificate(n) ==
  /\ Handles("ServerCertificate", n) /\ Shows("Certificate")
  /\ Take(n, <<>>)
  /\ handshake_state' = "ServerKeyExchange"
  /\ ReturnAfter
  /\ UNCHANGED <<opened, sealing, environment>>

\* A ServerKeyExchange that is parsed and not hashed.
ProcessServerKeyExchangeUnhashed(n) ==
  /\ Handles("ServerKeyExchange", n) /\ Shows("ServerKeyExchange")
  /\ stream' = SubSeq(Body, 2, Len(Body))
  /\ handshake_state' = "ServerHelloDone"
  /\ ReturnAfter
  /\ UNCHANGED <<transcript, opened, sealing, environment>>

\* ... the others as the one message.
ProcessServerKeyExchange(n) ==
  /\ Handles("ServerKeyExchange", n) /\ Shows("ServerKeyExchange")
  /\ Take(1, <<>>)
  /\ handshake_state' = "ServerHelloDone"
  /\ ReturnAfter
  /\ UNCHANGED <<opened, sealing, environment>>

\* A ServerHelloDone whose transaction is not committed and whose parser
\* reports that it needs more.
ProcessServerHelloDoneAgain(n) ==
  /\ Handles("ServerHelloDone", n) /\ Shows("ServerHelloDone")
  /\ UNCHANGED vars

\* An encrypt() that advances the counter before it uses it.
EncryptLate ==
  /\ sealed' = Append(sealed, [explicit_iv |-> write_sequence_number, number |-> write_sequence_number + 1])
  /\ write_sequence_number' = write_sequence_number + 1

\* explicit_iv = write_sequence_number, and encrypt(): the nonce and the
\* additional data take the counter before it is advanced.
Encrypt ==
  /\ sealed' = Append(sealed, [explicit_iv |-> write_sequence_number, number |-> write_sequence_number])
  /\ write_sequence_number' = write_sequence_number + 1

\* ServerHelloDone, then ClientKeyExchange, ChangeCipherSpec and Finished in
\* one segment; only the key exchange is hashed, only Finished encrypted.  The
\* buffer for it, or the burst, may fail.
ProcessServerHelloDone(n) ==
  /\ Handles("ServerHelloDone", n) /\ Shows("ServerHelloDone")
  /\ \/ /\ Take(1, <<kX25519KeyExchangeMessage>>) /\ Encrypt
        /\ \/ handshake_state' = "ClientFinished" /\ ReturnAfter
           \/ SendMayFail /\ Throw("send") /\ UNCHANGED handshake_state
     \/ /\ Take(1, <<>>) /\ UNCHANGED sealing
        /\ SendMayFail /\ Throw("send") /\ UNCHANGED handshake_state
  /\ UNCHANGED <<opened, environment>>

\* No byte behind the header: the header is gone, the state stays; only
\* ServerHello insists.
ProcessShortMessage(n) ==
  /\ \E s \in DOMAIN Expected : Handles(s, n)
  /\ Body = <<>>
  /\ \/ handshake_state = "ServerHello" /\ Throw("") /\ UNCHANGED stream
     \/ handshake_state # "ServerHello" /\ stream' = Body /\ ReturnAfter
  /\ UNCHANGED <<handshake_state, transcript, opened, sealing, environment>>

\* Another message than the expected one.  What an exception leaves in the
\* stream goes down with the client.
RejectMessage(n) ==
  /\ \E s \in DOMAIN Expected : Handles(s, n) /\ Body # <<>> /\ ~ Shows(Expected[s])
  /\ Throw("unexpected message")
  /\ UNCHANGED <<client, environment>>

(***************************************************************************)
(* process_server_finished: ChangeCipherSpec and the record after it, or   *)
(* nothing.  The first record is complete here; while the second is not,   *)
(* the transaction is dropped, and receive() calls itself on the same      *)
(* stream again (line 62).                                                 *)
(***************************************************************************)
Second(n) == HeaderSize + n
HasSecond(n) == Len(stream) >= Second(n) + HeaderSize
SecondIsFinished(n) ==
  LET c == stream[Second(n) + 1] IN c[2] = 0 /\ Script[c[1]].type = "Handshake"

\* A byte that is not the ChangeCipherSpec's own may be 1 as well.
ProcessServerFinished(n) ==
  /\ Handles("ClientFinished", n)
  /\ ContentType = "ChangeCipher"
  /\ \/ /\ HasSecond(n) /\ SecondIsFinished(n)
        /\ \E m \in SizesOfHeader(Second(n) + 1) :
             /\ Second(n) + HeaderSize + m <= Len(stream)
             /\ stream' = Drop(Second(n) + HeaderSize + m)
        /\ handshake_state' = "ServerFinished"
        /\ ReturnAfter
     \/ /\ \/ ~ HasSecond(n)
           \/ /\ HasSecond(n) /\ SecondIsFinished(n)
              /\ \E m \in SizesOfHeader(Second(n) + 1) : Second(n) + HeaderSize + m > Len(stream)
        /\ UNCHANGED <<handshake_state, stream, pc, fault>>
  /\ UNCHANGED <<transcript, opened, sealing, environment>>

RejectFinished(n) ==
  /\ Handles("ClientFinished", n)
  /\ \/ /\ ContentType # "ChangeCipher" \/ (HasSecond(n) /\ ~ SecondIsFinished(n))
        /\ Throw("unexpected message")
     \/ /\ ContentType = "ChangeCipher" /\ ~ Shows("1")
        /\ Throw("Incorrect ChangeCipher message")
  /\ UNCHANGED <<client, environment>>

-----------------------------------------------------------------------------
\* After the handshake: the header is popped, then the explicit IV, then as
\* much as the record has left; that is decrypted in place, returned without
\* the tag, and next_message calls receive() again.
Ciphertext(n) == SubSeq(Body, IvSize + 1, n)

HandlesData(n) == Handles("ServerFinished", n) /\ ContentType = "ApplicationData"

\* A record that is returned with its tag, and one that is not counted.
ReceiveApplicationDataTag(n) ==
  /\ HandlesData(n) /\ n > IvSize + TagSize
  /\ stream' = Drop(HeaderSize + n)
  /\ plain' = Append(plain, Ciphertext(n))
  /\ read_sequence_number' = read_sequence_number + 1
  /\ UNCHANGED <<handshake_state, transcript, sealing, pc, fault, environment>>
ReceiveApplicationDataUncounted(n) ==
  /\ HandlesData(n) /\ n > IvSize + TagSize
  /\ stream' = Drop(HeaderSize + n)
  /\ plain' = Append(plain, SubSeq(Ciphertext(n), 1, n - IvSize - TagSize))
  /\ UNCHANGED <<read_sequence_number, handshake_state, transcript, sealing, pc, fault, environment>>

ReceiveApplicationData(n) ==
  /\ HandlesData(n) /\ n > IvSize + TagSize
  /\ stream' = Drop(HeaderSize + n)
  /\ plain' = Append(plain, SubSeq(Ciphertext(n), 1, n - IvSize - TagSize))
  /\ read_sequence_number' = read_sequence_number + 1
  /\ UNCHANGED <<handshake_state, transcript, sealing, pc, fault, environment>>

\* decrypt() wants more than a tag.
RejectEmptyRecord(n) ==
  /\ HandlesData(n) /\ n >= IvSize /\ n <= IvSize + TagSize
  /\ stream' = Drop(HeaderSize + n)
  /\ Throw("Ciphertext too small")
  /\ UNCHANGED <<handshake_state, transcript, opened, sealing, environment>>

\* No room for an IV: it is popped from what follows the record, if anything
\* does, and record_size less the IV's size, which wraps, is more than there
\* can be.
ReceiveShortRecord(n) ==
  /\ HandlesData(n) /\ n < IvSize
  /\ stream' = IF Len(Body) < IvSize THEN Body ELSE Drop(HeaderSize + IvSize)
  /\ ReturnNothing
  /\ UNCHANGED <<handshake_state, transcript, opened, sealing, environment>>

RejectContentType(n) ==
  /\ Handles("ServerFinished", n)
  /\ ContentType # "ApplicationData"
  /\ Throw("Expected application data after handshake")
  /\ UNCHANGED <<client, environment>>

Receive ==
  \/ SendClientHello
  \/ AwaitRecord
  \/ RejectRecord
  \/ \E n \in 0 .. Capacity :
       \/ ProcessServerHello(n)
       \/ ProcessServerCertificate(n)
       \/ ProcessServerKeyExchange(n)
       \/ ProcessServerHelloDone(n)
       \/ ProcessShortMessage(n)
       \/ RejectMessage(n)
       \/ ProcessServerFinished(n)
       \/ RejectFinished(n)
       \/ ReceiveApplicationData(n)
       \/ RejectEmptyRecord(n)
       \/ ReceiveShortRecord(n)
       \/ RejectContentType(n)

\* push_bytes and flush() of the layer above, once receive() has returned
\* nothing: the whole send_buffer goes out as one record.
Flush ==
  /\ handshake_state = "ServerFinished"
  /\ \/ Encrypt /\ UNCHANGED fault
     \/ SendMayFail /\ fault' = "send" /\ (Encrypt \/ UNCHANGED sealing)
  /\ UNCHANGED <<handshake_state, stream, transcript, opened, environment>>

\* The Finished is the first record that is sealed.
SendMessage ==
  /\ pc = "poll"
  /\ Len(sealed) <= MaxFlushes
  /\ Flush
  /\ pc' = IF fault' = "none" THEN pc ELSE "thrown"

Next == ProcessPacket \/ ProcessEmptyPacket \/ ProcessOldPacket \/ Receive \/ SendMessage

Spec == Init /\ [][Next]_vars

\* The worker thread runs.
FairSpec == Spec /\ WF_vars(Receive)

-----------------------------------------------------------------------------
Cell == (DOMAIN Script) \X (0 .. MaxRecord - 1)

\* The stream of tls12::Client never exceeds its capacity, and each record
\* that was decrypted has advanced read_sequence_number, the nonce, by one.
TypeOK ==
  /\ handshake_state \in HandshakeStates
  /\ Len(stream) <= Capacity /\ Range(stream) \subseteq Cell
  /\ read_sequence_number = Len(plain)
  /\ pc \in {"poll", "receive", "thrown"}
  /\ pc = "thrown" <=> fault # "none"
  /\ arrived \in 0 .. Len(ServerStream)

(***************************************************************************)
(* The hash behind the client's Finished covers the handshake as the       *)
(* server sent it: every message of its first flight, once and in order,   *)
(* between ClientHello and ClientKeyExchange.  This, like what follows, is *)
(* said as long as no segment has arrived twice ...                        *)
(***************************************************************************)
HandshakeMessages ==
  <<kClientHelloMessage>>
  \o SaysAll(SelectSeq(SubSeq(ServerStream, 1, FirstFlight), LAMBDA c : c[2] >= HeaderSize))
  \o <<kX25519KeyExchangeMessage>>
TranscriptExact ==
  duplicates = 0 /\ handshake_state \in {"ClientFinished", "ServerFinished"} => transcript = HandshakeMessages

(***************************************************************************)
(* ... which spoils the hash, and may end the session, but does            *)
(* never let the client send its Finished without having seen each message *)
(* of the server's flight after the one before it.                         *)
(***************************************************************************)
After(i, message) == {j \in i + 1 .. Len(transcript) : transcript[j] = message}
NoMessageSkipped ==
  handshake_state \in {"ClientFinished", "ServerFinished"} =>
    \E h \in After(0, "ServerHello") :
      \E c \in After(h, "Certificate") :
        \E k \in After(c, "ServerKeyExchange") : After(k, "ServerHelloDone") # {}

(***************************************************************************)
(* receive() returns the contents of the application records, each once,   *)
(* in order, whole and without IV and tag, however the server's stream is  *)
(* cut into segments; no record is shorter than its IV.                    *)
(***************************************************************************)
ApplicationRecords ==
  SelectSeq([i \in DOMAIN Script |-> i], LAMBDA i : Script[i].type = "ApplicationData")
HasData(k) == Len(Script[k].body) > IvSize + TagSize
ApplicationBodies ==
  LET k == SelectSeq(ApplicationRecords, HasData)
  IN [i \in DOMAIN k |-> SubSeq(CellsOf(k[i]), HeaderSize + IvSize + 1, Len(CellsOf(k[i])) - TagSize)]
PlainIsSent == duplicates = 0 => IsPrefix(plain, ApplicationBodies)

(***************************************************************************)
(* When the worker goes "to next packet" (service.cpp:70), the stream      *)
(* starts with a header and holds no complete record.  This is also what   *)
(* keeps the stream below one record plus one segment ...                  *)
(***************************************************************************)
NothingLeftBehind ==
  duplicates = 0 /\ pc = "poll" /\ HasHeader =>
    RightVersion /\ \A n \in SizesOfHeader(1) : HeaderSize + n > Len(stream)

(***************************************************************************)
(* ... so that no check of the client fails for a TLS 1.2 server with one  *)
(* handshake message per record, no alert and no record shorter than its   *)
(* IV: not "Not enough space" (stream.cpp:41), when the capacity is the    *)
(* largest record and the largest segment less one byte, nor the checks of *)
(* version, message and content type, since the first bytes looked at are  *)
(* always a record's header.  "Ciphertext too small" (client.cpp:147) is   *)
(* for a record without data, and for no other.                            *)
(***************************************************************************)
NoFaultInOrder ==
  duplicates = 0 =>
    \/ fault \in {"none", "send"}
    \/ fault = "Ciphertext too small" /\ ~ HasData(ApplicationRecords[Len(plain) + 1])

(***************************************************************************)
(* Every record the client encrypts, its Finished and what flush() sends,  *)
(* carries the explicit IV it was encrypted with, and no two the same: the *)
(* counter is read for the IV before encrypt() and advanced inside, and a  *)
(* send that fails in between ends the session.                            *)
(***************************************************************************)
NoncesAreFresh ==
  /\ \A i \in DOMAIN sealed : sealed[i].explicit_iv = sealed[i].number
  /\ \A i, j \in DOMAIN sealed : i # j => sealed[i].number # sealed[j].number

(***************************************************************************)
(* The records of a TLS 1.2 server never trip the check of the version,    *)
(* "wrong protocol" (client.cpp:55).                                       *)
(***************************************************************************)
RightProtocol == fault # "wrong protocol"

(***************************************************************************)
(* The worker comes back to the NIC: every packet's receive() calls end.   *)
(***************************************************************************)
WorkerComesBack == pc = "receive" ~> (pc # "receive" \/ duplicates > 0)
=============================================================================
