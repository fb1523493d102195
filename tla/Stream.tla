------------------------------- MODULE Stream -------------------------------
(***************************************************************************)
(* base::Stream (src/base/stream/stream.{h,cpp}): a byte buffer with a     *)
(* read and a write position, the receive and send buffers of tls12::Client*)
(* and wss::Client, and the ReadTransaction over it.                       *)
(*                                                                         *)
(* peek and pop hand out a view into the buffer: `view` is the last one,   *)
(* with the bytes it showed.  Its holder gives it up (NoView) when shift   *)
(* or a push runs, which is what every caller in tls12 and wss does.       *)
(* `txn` is read_it of a live ReadTransaction.                             *)
(***************************************************************************)
EXTENDS Integers, Sequences

CONSTANTS
  Capacity,     \* buffer_size
  Byte,         \* the values a byte may take
  MaxPush       \* the longest push that is tried

ASSUME StreamAssumption ==
  /\ Capacity \in Nat \ {0}
  /\ MaxPush \in Nat
  /\ Byte # {}

VARIABLES buffer, read, write, view, txn, refused

vars == <<buffer, read, write, view, txn, refused>>

Positions == 0 .. Capacity - 1
NoView == [at |-> 0, bytes |-> <<>>]
NoTxn == -1

\* std::vector value-initialises the buffer: every byte the same.
Init ==
  /\ \E b \in Byte : buffer = [i \in Positions |-> b]
  /\ read = 0 /\ write = 0
  /\ view = NoView
  /\ txn = NoTxn
  /\ refused = FALSE

size == write - read
available_suffix_bytes == Capacity - write

Window(from, n) == [i \in 1 .. n |-> buffer[from + i - 1]]

-----------------------------------------------------------------------------
\* A push that writes past the end.
PushBytesUnchecked(bytes) ==
  /\ txn = NoTxn
  /\ write' = write + Len(bytes)
  /\ view' = NoView
  /\ refused' = FALSE
  /\ UNCHANGED <<buffer, read, txn>>

\* push_bytes, push<Object>: REQUIRE throws when the suffix is too short.
PushBytes(bytes) ==
  /\ txn = NoTxn
  /\ available_suffix_bytes >= Len(bytes)
  /\ buffer' = [i \in Positions |->
                  IF i \in write .. write + Len(bytes) - 1
                  THEN bytes[i - write + 1] ELSE buffer[i]]
  /\ write' = write + Len(bytes)
  /\ view' = NoView
  /\ refused' = FALSE
  /\ UNCHANGED <<read, txn>>

RefusePush(bytes) ==
  /\ txn = NoTxn
  /\ available_suffix_bytes < Len(bytes)
  /\ refused' = TRUE
  /\ UNCHANGED <<buffer, read, write, view, txn>>

Peek(n) ==
  /\ txn = NoTxn
  /\ n <= size
  /\ view' = [at |-> read, bytes |-> Window(read, n)]
  /\ refused' = FALSE
  /\ UNCHANGED <<buffer, read, write, txn>>

\* A shift_read that rewinds the positions and the buffer with them.
ShiftReadCompacting(n) ==
  /\ read' = 0
  /\ write' = size - n
  /\ buffer' = [i \in Positions |->
                  IF i < size - n THEN buffer[read + n + i] ELSE buffer[i]]

\* A shift_read that never rewinds.
ShiftReadForward(n) ==
  /\ read' = read + n
  /\ UNCHANGED <<write, buffer>>

ShiftRead(n) ==
  /\ read' = IF read + n = write THEN 0 ELSE read + n
  /\ write' = IF read + n = write THEN 0 ELSE write
  /\ buffer' = buffer

Pop(n) ==
  /\ txn = NoTxn
  /\ n <= size
  /\ view' = [at |-> read, bytes |-> Window(read, n)]
  /\ ShiftRead(n)
  /\ refused' = FALSE
  /\ UNCHANGED txn

\* A shift that moves the positions and not the bytes.
ShiftUncopied ==
  /\ txn = NoTxn
  /\ write' = size
  /\ read' = 0
  /\ view' = NoView
  /\ refused' = FALSE
  /\ UNCHANGED <<buffer, txn>>

Shift ==
  /\ txn = NoTxn
  /\ buffer' = [i \in Positions |-> IF i < size THEN buffer[read + i] ELSE buffer[i]]
  /\ write' = size
  /\ read' = 0
  /\ view' = NoView
  /\ refused' = FALSE
  /\ UNCHANGED txn

-----------------------------------------------------------------------------
\* ReadTransaction: pops from a view of the whole content; only commit moves
\* the stream.  It is a local variable of its user, who does nothing else
\* with the stream while it lives.
BeginTransaction ==
  /\ txn = NoTxn
  /\ txn' = 0
  /\ view' = [at |-> read, bytes |-> Window(read, size)]
  /\ refused' = FALSE
  /\ UNCHANGED <<buffer, read, write>>

TransactionPop(n) ==
  /\ txn # NoTxn
  /\ txn + n <= Len(view.bytes)
  /\ txn' = txn + n
  /\ UNCHANGED <<buffer, read, write, view, refused>>

Commit ==
  /\ txn # NoTxn
  /\ txn <= size
  /\ ShiftRead(txn)
  /\ view' = [at |-> read, bytes |-> Window(read, txn)]
  /\ txn' = NoTxn
  /\ UNCHANGED refused

Abandon ==
  /\ txn # NoTxn
  /\ txn' = NoTxn
  /\ UNCHANGED <<buffer, read, write, view, refused>>

Chunks == UNION {[1 .. n -> Byte] : n \in 0 .. MaxPush}

Next ==
  \/ \E bytes \in Chunks : PushBytes(bytes) \/ RefusePush(bytes)
  \/ \E n \in 0 .. Capacity : Peek(n) \/ Pop(n) \/ TransactionPop(n)
  \/ Shift
  \/ BeginTransaction
  \/ Commit
  \/ Abandon

Spec == Init /\ [][Next]_vars

-----------------------------------------------------------------------------
\* The positions of base::Stream stay inside the buffer, and a view and a
\* transaction within what push_bytes has let in.
TypeOK ==
  /\ buffer \in [Positions -> Byte]
  /\ read \in 0 .. Capacity
  /\ write \in 0 .. Capacity
  /\ view.at \in 0 .. Capacity
  /\ view.bytes \in Seq(Byte)
  /\ txn \in {NoTxn} \cup 0 .. Capacity
  /\ refused \in BOOLEAN

content == Window(read, size)

\* base::Stream behaves as a bounded queue of bytes: shift, the rewinding of
\* an emptied buffer, a refused push and an abandoned transaction change no
\* content; pushes and pops change it as they say.
Queue == INSTANCE ByteQueue WITH Chunk <- Chunks
QueueSpec == Queue!Spec

(***************************************************************************)
(* A view handed out by peek, pop or a transaction still shows the bytes   *)
(* it showed, also after the pops that followed and after the buffer was   *)
(* emptied and rewound: tls12::Client::receive reads `header` after it has *)
(* popped it, and decrypts the record it popped in place.                  *)
(***************************************************************************)
ViewStable == view.bytes = Window(view.at, Len(view.bytes))

(***************************************************************************)
(* An empty stream can take a push of its whole capacity at once, without  *)
(* a shift: the last pop has rewound both positions.  flush() of the TLS   *)
(* client relies on it: it never shifts send_buffer.                       *)
(***************************************************************************)
EmptyIsRewound == size = 0 => available_suffix_bytes = Capacity
=============================================================================
