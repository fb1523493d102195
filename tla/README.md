# A TLA+ model of the DPDK WebSocket gateway

The repository holds two programs. `dpdk_master` initialises the network ports.
`gateway` talks to a WebSocket server over TLS 1.2 with a TCP/IP stack of its own, on
frames that it polls from a DPDK queue. This directory models both: what is modelled
is checked by TLC on small instances, and the safety of TCP client, TCP sessions over a
faulty network, packets, stream, mbuf ownership and leaks, process lifetimes and record
numbers is proved with TLAPS for every value of the constants.

Paths below are relative to `src/src/`.

## The system

| Part | Source | State | Operations |
|---|---|---|---|
| sequence numbers | `network/tcp/seq_number.h` | a 32-bit number | `+`, `-`, serial comparison |
| TCP client | `network/tcp/client.{h,cpp}` | state, `seq`, `ack`, `last_ack_number`, bytes in flight, window and its scale | `connect`, `send`, `process_packet`, `send_rst`, destructor |
| stream | `base/stream/` | buffer, read and write position | push, peek, pop, shift, `ReadTransaction` |
| TLS client | `network/tls12/` | handshake state, stream, hash, sequence numbers | `process_packet`, `receive` and the handlers it calls |
| WebSocket client | `network/wss/` | state, stream | `process_packet`, `next_message` |
| device | `network/dpdk/device.*`, `packet.h`, `sender.*` | last burst and an index into it, send queue | `receive`, `get_send_buffer`, `enqueue_for_send`, `flush_send_queue`, destructor |
| packet views | `network/tcp/packet_view.*`, `network/eth_ip/` | the bytes of a frame | `init`, `resize_payload`, `is_valid`, `payload`, `parse_options` |
| ARP | `network/arp/` | none | the reply to a request |
| worker loop | `gateway/ws_demo/service.cpp` | the objects above | poll, dispatch, drain messages |
| DPDK start | `network/dpdk/dpdk.*`, `base/thread/` | `initialized`, the watcher's flag | constructor under a timeout, destructor |
| master | `network/dpdk/master_serivce.cpp` | pools and ports | `init`, wait for a signal, destructor |
| launcher | `base/launcher/tool_launcher.h` | stop flag, pipe | `run`, the signal handler |
| conversions | `base/type`, `network/type` | none | byte order, addresses |
| logger, clocks, serialisers, argument parser | `base/` | output only | |

The worker is one thread. It polls a frame, gives ARP to `ArpHandler`, and hands any
TCP packet to the WebSocket client. That calls down: `wss` → `tls12` →
`tcp::Client::process_packet`. It then asks `next_message` until nothing comes back.
Answers go out from inside these calls. There is no timer, no retransmission and no
receive reassembly. Every unexpected condition is an exception, which ends the session
and runs the destructors.

What is hard here:

- segments that are lost, repeated, reordered or cut anywhere, under layers that each
  have framing of their own;
- an exception half-way through a handler, followed by destructors that use what it left;
- counters modulo 2^32, and a value of theirs (`ack == 0`) with a second meaning;
- views into a buffer that moves;
- mbufs shared with the NIC and with another process that outlives this one;
- signals at any moment, and a watcher thread that ends the process.

`PROJECT.json` lists these as hazards, each at its line.

## The modules

| Module | Models | Checked or proved with |
|---|---|---|
| `SeqNumber` | `SeqNumber`, for a number space of `2 * Half` | all TCP runs, lemmas in `TcpFramesProofs` and `TcpSessionProofs` |
| `TcpClient` | `tcp::Client` against any segment | `TcpFrames`, `TcpFramesProofs` |
| `PacketView` | Ethernet, IP, TCP and ARP views, `parse_options` | `TcpFrames`, `TcpFramesProofs` |
| `TcpFrames` | the worker's dispatch: `TcpClient` and `ArpHandler` behind `PacketView` | `MCTcpFrames`, `TcpFramesProofs` |
| `TcpSession` | `TcpClient` with a server, a network and restarts | `MCTcpSession`, `TcpSessionProofs`, `TcpNumbersProofs`, `TcpBytesProofs` |
| `ByteQueue` | abstract: a bounded queue of bytes | refined by `Stream` |
| `Stream` | `base::Stream` and `ReadTransaction` | `Stream.cfg`, `StreamProofs` |
| `TlsClient` | `tls12::Client` over any cutting of the server's stream | `MCTlsClient`, `TlsClientProofs`, refined by `Gateway` |
| `WsClient` | `wss::Client` and the loop of `run_worker` | `MCWsClient`, refined by `Gateway` |
| `Gateway` | the worker: `TcpSession`, `TlsClient` and `WsClient` composed | `MCGateway` |
| `MbufDevice` | `Device`, `RxPacket`, `TxPacket`, `ArpHandler`, restarts | `MCMbufDevice`, `MbufDeviceProofs` |
| `Processes` | both programs, `ToolLauncher`, `execute_with_timeout` | `Processes.cfg`, `ProcessesProofs` |

Variables have the names of the members. One action is one way through a handler, with
all that the handler changes.

**TcpClient.** `process_packet` is six actions: reject, ignore an old packet, reject the
acknowledgment, SYN-ACK, payload, bare acknowledgment. `life` follows the object from
running through unwinding to its end; `fault` is the message of the `REQUIRE` that
threw. `SendSegment` is `get_send_buffer` and `send`, with the counters moved before the
NIC is asked. A window shift is limited to what RFC 7323 allows (`WindowAssumption`).
Nothing filters packets by address or port, so any segment may arrive at any time.
When the handler returns, `tls12::Client::process_packet` pushes the payload, and the push
may throw "Not enough space" (`Return`, `PushMayFail`). A payload size from `Half` up stands
for one that has wrapped (see below), which no stream has space for. In `Gateway` that
exception comes from the stream of `TlsClient`, so `PushMayFail` is `FALSE` there.

**PacketView, TcpFrames.** A frame is a record with its size, the header fields that cut
it, and the option bytes; sizes are in bytes as in the code, and `total_length` is the two
bytes of a `BE<uint16_t>`. `init` and `resize_payload` are one operator per view, each
calling the one below as in the code. `ParseOptions` is the loop of
`parse_options` as a recursive function over offsets, `ParseFrom` one turn of it.
`TcpFrames` puts the views between the wire and `TcpClient`: frames of any peer, with and
without IP options, padded to the 60 bytes of Ethernet, and SYN-ACKs with every list of a
few options, one that runs past the header and a kind byte without a length among them.
`is_valid` does not compare `total_length` with the headers, and `payload().size()` is a
difference of unsigned numbers: `Shortfalls` are the units by which a frame's `total_length`
is below its headers, and `SizeMinus` wraps at `SizeT`, 2^20 for the 2^64 of `size_t`. What
the options say is defined on the list (`Said`), not on bytes, and is what the parser is compared with.
Sequence numbers count units there, and `Bytes` gives the bytes of a payload. A payload is
written to what a send buffer has left behind the headers, and the size of an mbuf is a
16-bit number (`FramesAssumption`).

**TcpSession.** The server and the network are external, and modelled as the least a TCP
peer does: it accepts in order and inside its window, retransmits in other pieces than it
first sent, answers strangers with a reset, and may close. Each data segment carries the
connection and the position of its bytes in the server's stream, so that what is
delivered can be compared with what was written however the numbers wrap. `pushed` is what
the TLS stream took, `refused` the payload that it had no space for. The gateway may
be killed, or end, at any moment, and be started again: `clear_receive_queue` drops some
of what is on the way, the rest reaches a new client on the same ports. Its initial
number is random; `Fresh` says that the numbers of the new client are apart from those of
every client before it (`past`). That two draws from 2^32 numbers fall within a session's
length of each other is possible, but rare, and left out.

**Stream.** `view` is the last view handed out, with the bytes it showed then. Callers
give a view up before a push or a shift, as those in `tls12` and `wss` do.

**TlsClient, WsClient.** The server's stream is a sequence of cells. A header is one or
a few cells, a handshake message or a piece of data is one, and a cell knows its record
or frame. Reading a cell that is not a header as one gives any value. So all framing is
kept and no byte is spelled out. `transcript` is what was hashed; keys and ciphers have
no state of interest. Application records have a cell for the explicit IV and one for the
tag; `sealed` lists what `encrypt` was called with. In `WsClient` the records are those that
`TlsClient` returns.

**Gateway.** The state of the three modules side by side; a byte of the TCP session is a
cell of TLS, a decrypted cell is one of WebSocket. A step of `GatewayReceive`, `GatewayTls`
or `GatewayWs` is a step of TCP (`process_packet`, `send`) joined with one of the layers above
it, and an exception in any layer ends all. The server answers what it got: a ClientHello
with its first flight, the client's Finished with its own, the upgrade request with data.
`TlsClient` and `WsClient` are checked by themselves with an environment that is assumed;
`TlsServed` and `WsServed` say that the composition implements their specifications, so
that environment is what TCP, and TLS on top of it, really provide.

**MbufDevice.** The state is who holds each mbuf. What can never come back is kept apart
by cause: `lost` by a send that the NIC refused, `unread` in a destroyed `Device`,
`abandoned` by a killed process.

**Processes.** `pc` is where each main thread is. A handler has two effects, with steps
of other threads between them. The operator is external and does what the help text of
`dpdk_master` asks for (`network/dpdk/master_service.h:14-18`). The read past the end of
`reta_readback` (`network/dpdk/master_serivce.cpp:126-128`), undefined for tables of
fewer than 193 entries, may end the master or do nothing.

## The runs

| Run | States | Shows |
|---|---|---|
| `TcpFrames` | 37,868 | `seq` and the bytes in flight agree in every state; `ack` never goes back in a client that goes on; the window scale is the one announced; what is sent reads back as it was meant |
| `TcpSessionLossy` | 2,878,819 | with loss, repetition, reordering and a restart: no gap in the bytes delivered, nothing acknowledged that was not delivered or refused by the full stream that ends the session, no honest acknowledgment refused as too large, nothing of the session before the restart |
| `TcpSessionSentinel` | violation | a lost segment goes unnoticed when `ack` wraps to 0 |
| `StreamQueue` | 2,112 | `Stream` implements `ByteQueue`; views stay true; an emptied stream has its whole capacity |
| `Tls` | 109,127 | the hash covers the handshake exactly; records come out whole and in order; nothing complete is left behind; no record number is used twice; the worker comes back (liveness) |
| `TlsOldSegment` | violation | a repeated segment is pushed to the TLS stream twice |
| `TlsFinishedCut` | violation | `receive()` recurses without end when a segment ends between ChangeCipherSpec and the end of Finished |
| `Ws` | 1,982 | messages are delivered as sent, with the packet that completes them; the stream overflows only with whole frames in it that control frames held up |
| `WsPing` | violation | a message behind a control frame waits for the next packet |
| `Gateway` | 32,066 | TLS and WebSocket are served as their modules assume (refinement); no check of any layer fails; a message comes out with the segment that completes it; the session gets to its end (liveness) |
| `Mbuf` | 11,316 | each mbuf has one owner; what a start can leak is bounded; received frames reach the worker (liveness) |
| `Processes` | 5,017 | both programs stop when told to; a hanging initialisation ends (liveness); the watcher never ends a gateway that has gone on; the gateway's port is live |

Most properties of `Tls` are said while no segment has arrived twice, since
`TlsOldSegment` shows what happens then; `NoMessageSkipped` holds in that case too. The
ends of segments in `Tls` leave out the cut that `TlsFinishedCut` is about.
`NoFaultInOrder` and `CleanSession` are about a server with one handshake message per
record, no alert and, in `Tls`, no record shorter than its IV; in `Gateway` also about
frames of other than 125 bytes and no data behind a control frame. An acknowledgment that a
later one has overtaken is refused ("ack is not expected to decrease",
`network/tcp/client.cpp:75`) and ends the session: `HonestAcksFit` is about the other check,
for bytes that were never sent. `Ws` speaks
of what comes before the first frame of exactly 125 bytes, whose length
`FrameBasicHeader::type()` misreads (`network/wss/model.h:42`, `payload_len < 125`).

`CHECK_DEADLOCK FALSE` is set where the system ends: a session after an exception, a
script that is used up, a process that has exited. `StreamQueue` checks for deadlock.

### Where the code disagrees with itself

1. `network/tcp/client.cpp:65-68`. `ack == 0` stands for "not known yet", and is also an
   ordinary value. When the server's numbers wrap exactly there, the next segment is
   accepted whatever its number, in spite of "Misses are not supported".
2. `network/tls12/client.cpp:78-79`. `tcp.process_packet` returns early on an old segment
   and does not say so. Its payload is pushed again, and the check "wrong protocol" fails
   for a server that did nothing wrong.
3. `network/tls12/client.cpp:59-62`. `process_server_finished` drops its transaction when
   Finished is incomplete; `receive()` then calls itself on an unchanged stream. The step
   changes nothing, so TLC reports the counterexample as stuttering: `pc` stays `receive`.
4. `network/wss/client.cpp:100-105`. `next_message` returns nothing after a control frame,
   and `run_worker` takes that for an empty stream ("No payload. Going to next packet",
   `gateway/ws_demo/service.cpp:70`).

### Bounds

- `TcpFrames`: 6 sequence numbers, all of them as `seq` and `ack` of a segment. Numbers
  wrap after a few bytes. The window may be smaller than what is in flight, or 0. Option
  lists have up to three items, enough for a scale before, after and inside of others and
  for two of them. Payloads are 0, 5 and 20 bytes: padded, and exactly at the bound of
  `is_valid`. A `total_length` is below both headers, or below the IP header alone. A SYN-ACK
  with a payload has no options (`Plain`): the two are looked at one after the other. Shifts
  are 0 and 1; the parser does not look at the value.
- `TcpSession*`: 14 and 10 numbers, two and three bytes of the server. The lossy run has
  two events, each a fault or a restart: enough to lose a segment and let an old one
  arrive in its place, or to repeat a segment into the session after a restart. There the
  server may close, a restarted client draws one number, and the server's numbers do not
  reach 0; in `TcpSessionSentinel` they do. A NIC that
  fails is left to `TcpFrames` and `Gateway`, and to the proofs, which are for both; here a
  full stream, a reset or a failed check ends a client. A server that buffers, so that its window
  closes and opens again (`ServerRead`), is part of `Gateway`.
- `StreamQueue`: capacity 4, pushes up to 3. A push may fit, not fit before a shift, or
  never fit.
- `Tls`: one record of each kind, one of them with a body of two cells, two of data and
  one with nothing but IV and tag.
  A segment has up to six cells, so it can hold several records or part of one. The
  stream's capacity is the largest record plus a segment less one, the least that works.
- `Ws`: a frame with each kind of length, one without payload, a continuation, pings
  until the stream may be full, since a packet takes out one of them, and 125 bytes followed
  by more. Capacity as above.
- `Gateway`: 34 cells of the server in six segments that end inside a header, inside a
  body and after a record; at most two segments to the client on the way; the client's
  three writes; one retransmission of a SYN-ACK or FIN; a NIC that may fail. The
  server's window is as large as what the client writes, closes and opens again. The network
  neither loses nor repeats, since `TlsOldSegment` has shown what a repetition does.
- `Mbuf`: three mbufs, receive bursts of 2 and send bursts of 1, so that bursts are partly
  used and partly sent; one restart.
- `Processes`: two ports with several queues, one with a small table; two starts of the
  gateway, two signals to each process.

### Fairness

- The worker's steps are weakly fair: it is a busy loop on a bound CPU.
- In `Gateway` the server's answers and the network's deliveries are fair too, where the
  question is what the client makes of them; a close, a stop and a failing NIC are not.
  A lossy network is never fair: no run asks for liveness over one.
- `Mbuf` assumes that handlers end (`[]<>(tx_packets = {})`), and strong fairness of
  `Receive` and `ReleaseRx`, which the NIC's steps never disable for good.
- `Processes`: each thread and handler runs, and DPDK's calls return, except for the
  gateway's initialisation, which has no fairness. That the handling of a packet returns
  is assumed there; it is `WorkerComesBack` in `Tls`, and fails in `TlsFinishedCut`.

## The proofs

**TcpFramesProofs**, for every `Half`, window, shift and payload size that satisfies
`HalfAssumption`, `WindowAssumption` and `FramesAssumption`:

- `TypeCorrect`, `SendAccountingHolds`, `WindowIsRespected`, `AckMovesForward` of `TcpClient`
  against any segment. `AckMovesForward` is about steps after which the client still runs: a
  payload size that has wrapped moves `ack` back, and its push then ends the session;
- `BuiltPacketsAreValid`: what `init` and `resize_payload` build is valid, with the payload,
  data offset and options asked for, also after padding, as long as `total_length` fits its
  16 bits;
- `FramesReadBack`: so is every frame that the worker sends in any behaviour of `TcpFrames`,
  the ARP replies included.

The inductive invariant of the first four is `TypeOK /\ SendAccounting /\ BeforeConnect`.
`SendAccounting` is not inductive by itself. It needs the ranges of `TypeOK`, since its sums
are modulo `2 * Half`, and `BeforeConnect` (before `connect` nothing is in flight and `seq` is
`last_ack_number`) for the step that sends the SYN. Sums of numbers (`SeqPlusSum`), and that
moving the base of the flight keeps its end (`FlightEndKept`), carry the proof.
`SendSegmentEffect` says that both counters move by the same amount whichever way `send`
ends, exceptions included.

`BuiltPacketsAreValid` rests on `BigEndianRoundTrip`: a 16-bit field reads back the value
stored in it. `FramesReadBack` adds the invariant that only sizes of `SendSizes`, or 0, are
sent and that replies are those of `ArpReply`, and the value of `ParseOptions` on the two
option blocks that the client builds. A recursive function is a `CHOOSE` to the prover, so the
lemma `ParseTable` takes a table of the loop's results as the witness.

**TcpSessionProofs, TcpNumbersProofs, TcpBytesProofs**, for every number of bytes, faults,
retransmissions, connections and restarts:

- `HonestAcksAlwaysFit`, `BytesArriveInOrder`, `AckedBytesAreDelivered`,
  `StreamEmptyBeforeHandshake`, `AckIsAlwaysOurs`.

`HonestAcksAlwaysFit` says that the first client never refuses an honest server's
acknowledgment with "Unexpected bytes got acknowledged" (`client.cpp:77`); what line 75 refuses
is not its subject. `AckedBytesAreDelivered` says that what is acknowledged is in `pushed`,
or in `refused`, and then the client has stopped.

A network that loses, repeats and reorders leaves nothing to say about the order of the two
wires, so the invariants say what each segment on a wire may still claim, whenever it was
sent. They come in two layers.

- `NumbersInv` is about the client's numbers. The intervals of all clients are apart, a
  segment of a client lies in the interval of one of them, the server's connection belongs
  to one, and what a server's segment acknowledges is the SYN and some bytes of one; if it
  is the client that runs, no more than it wrote. So no acknowledgment is ahead of `seq`.
- `BytesInv` is about the server's numbers, which are cut into one stretch per connection.
  Each data segment has the number of its bytes; an acknowledgment that is on its way, or
  that the server has taken, is of bytes in `pushed` or `refused`; the `ack` of a connected
  client that runs is a number of its own connection with all bytes before it in `pushed`. Its proof needs the first layer
  to know that a SYN-ACK that acknowledges the running client's SYN is of the connection
  which that SYN opened.

`SessionAssumption` asks that the bytes of either side fit in half the number space, without
which serial comparison means nothing. The four theorems of `TcpBytesProofs` also assume
`NumbersStayPositive`: the server's numbers do not reach 0, the value that `process_packet` takes
for "not known yet". `TcpSessionSentinel` shows that `NoByteSkipped` fails without it.

**StreamProofs**, for every capacity, alphabet and bound on pushes:

- `TypeCorrect`, `ViewsStayTrue`, `EmptiedIsRewound`, and `StreamImplementsQueue`, the
  refinement of `ByteQueue` with `content` as the abstract queue.

The inductive invariant is
`TypeOK /\ PositionsOK /\ ViewInside /\ TxnInside /\ ViewStable`: the read position is
never past the write position and an empty stream is at 0, the view lies inside the
buffer, and a transaction inside the content.

**TlsClientProofs**, for every script, cutting, number of repetitions and failing sends:
`NoncesAlwaysFresh`. The inductive invariant is that the counter is the number of records
sealed and that the i-th has number i - 1; `StepSeals` shows that every step
encrypts one record or leaves both alone.

**MbufDeviceProofs**, for every finite pool, burst size and number of restarts:
`TypeCorrect`, `OneOwnerAlways` and `LeakIsBounded`. "One owner" is a sum over the ten places a buffer can be in, four of them
sequences, so the lemmas are about counting: how often a buffer occurs in a sequence adds up over
concatenation, and each action takes a count from one place and adds it to another. The
inductive invariant is `Types /\ OneOwner` and that the worker holds no received packet
while it unwinds, without which a second exception would give one back twice.
`LeakIsBounded` is a second layer, `LeakInv`: a burst that is not empty has had its first
packet taken (`BurstTaken`), so that `~Device` leaves at most the others behind, and a
failed send always brings the worker a stage nearer to its end (`Stage`), so that a start
has at most two of them (`Leaked`).

**ProcessesProofs**, for every number of ports, starts and signals: `NoLateExitAlways`,
`StartedHasPoolAlways`, `GatewayOnLivePortAlways`. The invariant says where `init()` is: the ports
before the current one are recorded at their own index with their own pool (`Recorded`),
exactly these exist and run (`Built`), the watcher lives only inside `execute_with_timeout`
(`WatcherInside`), and a gateway runs only under a master that serves (`MasterServes`, from
the operator's side of the contract).

`WindowIsRespected` is proved only: it needs no run of its own beside the proof.

Only model-checked:

- all liveness (`WorkerComesBack`, `FramesArrive`, `StopEnds`, `InitResolves`, `Served`), since
  fairness and `ENABLED` are out of TLAPS's reach;
- the properties of `Gateway`, and its refinements `TlsServed` and `WsServed`, whose mapping
  is made of operators on the whole cell streams;
- `ScaleAsAnnounced`: what `ParseOptions` computes for every list is an induction over the
  option bytes;
- `TranscriptExact`, `PlainIsSent`, `NothingLeftBehind`, `NoFaultInOrder` of `TlsClient` and
  `MessagesAsSent`, `NoPayloadWaits`, `NoFaultInStep` of `WsClient`: they compare with streams
  that are flattened from records or frames, again an induction over data;
- `NoMessageSkipped`, which is about the scripts of the run: after many repetitions a record
  may be read with any size, and the statement for all constants would have to say which;
- the type invariants of `TlsClient` and `WsClient`.

## Not modelled

- The primitives of OpenSSL, key derivation and the bytes of messages.
- The byte layout of headers other than `total_length` and the options, checksums (those of
  received packets are never looked at), and address parsing.
- Window shifts above 14, which RFC 7323 forbids and `process_packet` does not check: the
  result is outside 32 bits, or undefined.
- A data offset below 5 (`network/tcp/packet_view.cpp:106`): `parse_options` then reads on past
  the header. What it can find there is a scale, none, or an exception, and `TcpClient` lets
  any SYN-ACK have each of these. A TCP header that is not inside the frame.
- Handshake messages that share a record: the client takes one message per record.
- `send_client_certificate`, `ArpHandler::send_request`, `Device::stats`,
  `get_last_receive_time_point` and the template `enqueue_for_send`: nothing calls them.
- What the redirection table sends to which queue; the hash is the NIC's. (The comment at
  `network/dpdk/master_serivce.cpp:104` says "round-robin across available queues"; the
  code uses queues 0 and 1.)
- Logger, formatters, serialisers, argument parser, clocks: output and conversion.
