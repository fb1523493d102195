---------------------------- MODULE StreamProofs ----------------------------
(***************************************************************************)
(* base::Stream, for every capacity: the positions stay in order, views    *)
(* stay true, an emptied buffer is rewound, and the stream implements the  *)
(* bounded queue of ByteQueue.                                             *)
(***************************************************************************)
EXTENDS Stream, SequenceTheorems, TLAPS

\* What every operation keeps about the positions ...
PositionsOK ==
  /\ read <= write
  /\ read = write => write = 0
\* ... and about the last view and an open transaction.
ViewInside == view.at + Len(view.bytes) <= Capacity
TxnInside == txn # NoTxn => txn <= size /\ Len(view.bytes) = size

IInv == TypeOK /\ PositionsOK /\ ViewInside /\ TxnInside /\ ViewStable

\* A finite function on an initial segment is a sequence.
LEMMA FunctionIsSeq ==
  ASSUME NEW S, NEW n \in Nat, NEW f \in [1 .. n -> S]
  PROVE  f \in Seq(S) /\ Len(f) = n
<1>1. f \in Seq(S)
  BY SeqDef
<1>2. QED
  BY <1>1, LenProperties

\* The part of a buffer that Window shows, for the buffer of any state.
Part(b, from, n) == [i \in 1 .. n |-> b[from + i - 1]]

LEMMA PartIsSeq ==
  ASSUME NEW b \in [Positions -> Byte], NEW from \in Nat, NEW n \in Nat,
         from + n <= Capacity
  PROVE  /\ Part(b, from, n) \in Seq(Byte)
         /\ Len(Part(b, from, n)) = n
         /\ \A i \in 1 .. n : Part(b, from, n)[i] = b[from + i - 1]
<1>1. \A i \in 1 .. n : from + i - 1 \in Positions
  BY StreamAssumption DEF Positions
<1>2. Part(b, from, n) \in [1 .. n -> Byte]
  BY <1>1 DEF Part
<1>3. QED
  BY <1>2, FunctionIsSeq DEF Part

LEMMA ChunkIsSeq ==
  ASSUME NEW bytes \in Chunks
  PROVE  bytes \in Seq(Byte) /\ Len(bytes) \in 0 .. MaxPush
<1>1. PICK n \in 0 .. MaxPush : bytes \in [1 .. n -> Byte]
  BY DEF Chunks
<1>2. n \in Nat
  BY StreamAssumption
<1>3. QED
  BY <1>1, <1>2, FunctionIsSeq

LEMMA NoViewOK ==
  /\ NoView.at = 0
  /\ NoView.bytes = <<>>
  /\ Len(NoView.bytes) = 0
  /\ NoView.bytes \in Seq(Byte)
  /\ NoView.bytes = Window(NoView.at, Len(NoView.bytes))
BY DEF NoView, Window

\* Content before and after a step, as parts of the two buffers.
LEMMA ContentIsPart ==
  ASSUME IInv
  PROVE  /\ content = Part(buffer, read, size)
         /\ content \in Seq(Byte) /\ Len(content) = size
         /\ size \in Nat /\ read \in Nat /\ write \in Nat /\ write <= Capacity
<1>1. /\ size \in Nat /\ read \in Nat /\ read + size <= Capacity
      /\ write \in Nat /\ write <= Capacity
  BY StreamAssumption DEF IInv, TypeOK, PositionsOK, size
<1>2. content = Part(buffer, read, size)
  BY DEF content, Window, Part
<1>3. buffer \in [Positions -> Byte]
  BY DEF IInv, TypeOK
<1>4. QED
  BY <1>1, <1>2, <1>3, PartIsSeq

-----------------------------------------------------------------------------
LEMMA InitIInv == Init => IInv
<1> SUFFICES ASSUME Init
             PROVE  IInv
  OBVIOUS
<1>1. TypeOK
  <2>1. buffer \in [Positions -> Byte]
    BY DEF Init
  <2>2. read \in 0 .. Capacity /\ write \in 0 .. Capacity /\ 0 \in 0 .. Capacity
    BY StreamAssumption DEF Init
  <2>3. view.at = 0 /\ view.bytes \in Seq(Byte)
    BY NoViewOK DEF Init
  <2>4. txn \in {NoTxn} \cup 0 .. Capacity /\ refused \in BOOLEAN
    BY DEF Init
  <2>5. QED
    BY <2>1, <2>2, <2>3, <2>4 DEF TypeOK
<1>2. PositionsOK /\ ViewInside
  BY NoViewOK, StreamAssumption DEF Init, PositionsOK, ViewInside
<1>3. TxnInside
  BY DEF Init, TxnInside
<1>4. ViewStable
  BY NoViewOK DEF Init, ViewStable
<1>5. QED
  BY <1>1, <1>2, <1>3, <1>4 DEF IInv

\* push_bytes appends.
LEMMA PushEffect ==
  ASSUME IInv, NEW bytes \in Chunks, PushBytes(bytes)
  PROVE  IInv' /\ content' = content \o bytes /\ Len(content) + Len(bytes) <= Capacity
<1>1. bytes \in Seq(Byte) /\ Len(bytes) \in Nat
  BY ChunkIsSeq, StreamAssumption
<1>2. /\ buffer \in [Positions -> Byte]
      /\ read \in Nat /\ write \in Nat /\ read <= write /\ size \in Nat
      /\ size = write - read
      /\ write + Len(bytes) <= Capacity
      /\ Capacity \in Nat
  BY <1>1, ContentIsPart, StreamAssumption
  DEF IInv, TypeOK, PositionsOK, PushBytes, available_suffix_bytes, size
<1>3. \A i \in write .. write + Len(bytes) - 1 : bytes[i - write + 1] \in Byte
  BY <1>1, <1>2, ElementOfSeq
<1>4. buffer' \in [Positions -> Byte]
  BY <1>2, <1>3 DEF PushBytes
<1>5. read' = read /\ write' = write + Len(bytes)
  BY DEF PushBytes
<1>6. content' = Part(buffer', read', write' - read')
  BY DEF content, Window, Part, size
<1>7. /\ content' \in Seq(Byte) /\ Len(content') = size + Len(bytes)
      /\ \A i \in 1 .. size + Len(bytes) : content'[i] = buffer'[read + i - 1]
  <2>1. write' - read' = size + Len(bytes)
    BY <1>1, <1>2, <1>5
  <2>2. read + (size + Len(bytes)) <= Capacity
    BY <1>1, <1>2
  <2>3. content' = Part(buffer', read, size + Len(bytes))
    BY <1>5, <1>6, <2>1
  <2>4. size + Len(bytes) \in Nat /\ read \in Nat
    BY <1>1, <1>2
  <2>5. QED
    BY <1>4, <2>2, <2>3, <2>4, PartIsSeq
<1>8. content' = content \o bytes
  <2>1. /\ content \in Seq(Byte) /\ Len(content) = size
        /\ \A i \in 1 .. size : content[i] = buffer[read + i - 1]
    <3>1. content = Part(buffer, read, size) /\ read + size <= Capacity
      BY <1>1, <1>2, ContentIsPart
    <3>2. QED
      BY <1>2, <3>1, PartIsSeq
  <2>2. /\ content \o bytes \in Seq(Byte)
        /\ Len(content \o bytes) = size + Len(bytes)
        /\ \A i \in 1 .. size + Len(bytes) :
             (content \o bytes)[i] = IF i <= size THEN content[i] ELSE bytes[i - size]
    BY <1>1, <2>1, ConcatProperties
  <2>3. ASSUME NEW i \in 1 .. size + Len(bytes)
        PROVE  content'[i] = (content \o bytes)[i]
    <3>1. read + i - 1 \in Positions
      BY <1>1, <1>2 DEF Positions
    <3>2. content'[i] = IF read + i - 1 \in write .. write + Len(bytes) - 1
                        THEN bytes[(read + i - 1) - write + 1] ELSE buffer[read + i - 1]
      BY <1>7, <3>1 DEF PushBytes
    <3>3. CASE i <= size
      <4>1. ~ (read + i - 1 \in write .. write + Len(bytes) - 1)
        BY <1>1, <1>2, <3>3
      <4>2. i \in 1 .. size
        BY <1>2, <3>3
      <4>3. QED
        BY <2>1, <2>2, <3>2, <3>3, <4>1, <4>2
    <3>4. CASE ~ (i <= size)
      <4>1. read + i - 1 \in write .. write + Len(bytes) - 1
        BY <1>1, <1>2, <3>4
      <4>2. (read + i - 1) - write + 1 = i - size
        BY <1>1, <1>2
      <4>3. QED
        BY <2>2, <3>2, <3>4, <4>1, <4>2
    <3>5. QED
      BY <3>3, <3>4
  <2>4. QED
    BY <1>7, <2>2, <2>3, SeqEqual
<1>9. IInv'
  <2>1. TypeOK'
    <3>1. read' \in 0 .. Capacity /\ write' \in 0 .. Capacity /\ 0 \in 0 .. Capacity
      BY <1>1, <1>2, <1>5
    <3>2. view'.at = 0 /\ view'.bytes \in Seq(Byte)
      BY NoViewOK DEF PushBytes
    <3>3. txn' = txn /\ refused' \in BOOLEAN
      BY DEF PushBytes
    <3>4. txn' \in {NoTxn} \cup 0 .. Capacity
      BY <3>3 DEF IInv, TypeOK
    <3>5. QED
      BY <1>4, <3>1, <3>2, <3>3, <3>4 DEF TypeOK
  <2>2. PositionsOK'
    BY <1>1, <1>2, <1>5 DEF IInv, PositionsOK
  <2>3. ViewInside' /\ TxnInside'
    BY <1>2, NoViewOK DEF PushBytes, ViewInside, TxnInside
  <2>4. ViewStable'
    BY NoViewOK DEF PushBytes, ViewStable, NoView, Window
  <2>5. QED
    BY <2>1, <2>2, <2>3, <2>4 DEF IInv
<1>10. Len(content) + Len(bytes) <= Capacity
  BY <1>1, <1>2, ContentIsPart
<1>11. QED
  BY <1>8, <1>9, <1>10

\* shift_read drops from the front, the rewinding included.
LEMMA ShiftReadEffect ==
  ASSUME IInv, NEW n \in Nat, n <= size, ShiftRead(n)
  PROVE  /\ read' \in 0 .. Capacity /\ write' \in 0 .. Capacity
         /\ buffer' = buffer
         /\ PositionsOK'
         /\ content' = SubSeq(content, n + 1, Len(content))
<1>1. /\ buffer \in [Positions -> Byte]
      /\ read \in Nat /\ write \in Nat /\ read <= write /\ size \in Nat
      /\ size = write - read /\ write <= Capacity /\ Capacity \in Nat
  BY ContentIsPart, StreamAssumption DEF IInv, TypeOK, PositionsOK, size
<1>2. /\ buffer' = buffer
      /\ read' = IF read + n = write THEN 0 ELSE read + n
      /\ write' = IF read + n = write THEN 0 ELSE write
  BY DEF ShiftRead
<1>3. /\ read' \in 0 .. Capacity /\ write' \in 0 .. Capacity
      /\ read' <= write' /\ (read' = write' => write' = 0)
      /\ write' - read' = size - n
      /\ size - n \in Nat /\ read' \in Nat /\ read' + (size - n) <= Capacity
      /\ n < size => read' = read + n
  BY <1>1, <1>2
<1>4. content' = Part(buffer, read', size - n)
  BY <1>2, <1>3 DEF content, Window, Part, size
<1>5. /\ content' \in Seq(Byte) /\ Len(content') = size - n
      /\ \A i \in 1 .. size - n : content'[i] = buffer[read' + i - 1]
  <2>1. buffer \in [Positions -> Byte]
    BY <1>1
  <2>2. read' \in Nat /\ size - n \in Nat /\ read' + (size - n) <= Capacity
    BY <1>3
  <2>3. QED
    BY <1>4, <2>1, <2>2, PartIsSeq
<1>6. /\ content \in Seq(Byte) /\ Len(content) = size
      /\ \A i \in 1 .. size : content[i] = buffer[read + i - 1]
  <2>1. content = Part(buffer, read, size) /\ read + size <= Capacity
    BY <1>1, ContentIsPart
  <2>2. QED
    BY <1>1, <2>1, PartIsSeq
<1>7. /\ SubSeq(content, n + 1, size) \in Seq(Byte)
      /\ Len(SubSeq(content, n + 1, size)) = size - n
      /\ \A i \in 1 .. size - n : SubSeq(content, n + 1, size)[i] = content[n + i]
  <2>1. \A i \in n + 1 .. size : content[i] \in Byte
    BY <1>1, <1>6, ElementOfSeq
  <2>2. n + 1 \in Int /\ size \in Int
    BY <1>1
  <2>3. /\ SubSeq(content, n + 1, size) \in Seq(Byte)
        /\ Len(SubSeq(content, n + 1, size)) =
             IF n + 1 <= size THEN size - (n + 1) + 1 ELSE 0
        /\ \A i \in 1 .. size - (n + 1) + 1 :
             SubSeq(content, n + 1, size)[i] = content[(n + 1) + i - 1]
    BY <2>1, <2>2, SubSeqProperties
  <2>4. size - (n + 1) + 1 = size - n /\ \A i \in Int : (n + 1) + i - 1 = n + i
    BY <1>1
  <2>5. (IF n + 1 <= size THEN size - (n + 1) + 1 ELSE 0) = size - n
    BY <1>1
  <2>6. QED
    BY <2>3, <2>4, <2>5
<1>8. ASSUME NEW i \in 1 .. size - n
      PROVE  content'[i] = SubSeq(content, n + 1, size)[i]
  <2>1. n < size /\ n + i \in 1 .. size /\ read + (n + i) - 1 = (read + n) + i - 1
    BY <1>1
  <2>2. content'[i] = buffer[(read + n) + i - 1]
    BY <1>3, <1>5, <2>1
  <2>3. content[n + i] = buffer[(read + n) + i - 1]
    BY <1>6, <2>1
  <2>4. QED
    BY <1>7, <2>2, <2>3
<1>9. content' = SubSeq(content, n + 1, size)
  BY <1>5, <1>7, <1>8, SeqEqual
<1>10. QED
  BY <1>2, <1>3, <1>6, <1>9 DEF PositionsOK

\* A view of the first n bytes is inside the buffer and true, as long as the
\* buffer does not change.
LEMMA FreshView ==
  ASSUME IInv, NEW n \in Nat, n <= size, buffer' = buffer,
         view' = [at |-> read, bytes |-> Window(read, n)]
  PROVE  /\ view'.at \in 0 .. Capacity /\ view'.bytes \in Seq(Byte)
         /\ ViewInside' /\ ViewStable'
         /\ Len(view'.bytes) = n
<1>1. /\ buffer \in [Positions -> Byte]
      /\ read \in 0 .. Capacity /\ read \in Nat /\ read + n <= Capacity
  BY ContentIsPart, StreamAssumption DEF IInv, TypeOK, PositionsOK, size
<1>2. Window(read, n) = Part(buffer, read, n)
  BY DEF Window, Part
<1>3. Window(read, n) \in Seq(Byte) /\ Len(Window(read, n)) = n
  BY <1>1, <1>2, PartIsSeq
<1>4. view'.at = read /\ view'.bytes = Window(read, n)
  OBVIOUS
<1>5. ViewStable'
  BY <1>3, <1>4 DEF ViewStable, Window
<1>6. QED
  BY <1>1, <1>3, <1>4, <1>5 DEF ViewInside

\* shift moves the content to the front of the buffer and changes none of it.
LEMMA ShiftEffect ==
  ASSUME IInv, Shift
  PROVE  IInv' /\ content' = content
<1>1. /\ buffer \in [Positions -> Byte]
      /\ read \in Nat /\ write \in Nat /\ read <= write /\ size \in Nat
      /\ size = write - read /\ write <= Capacity /\ Capacity \in Nat
  BY ContentIsPart, StreamAssumption DEF IInv, TypeOK, PositionsOK, size
<1>2. read' = 0 /\ write' = size
  BY DEF Shift
<1>3. buffer' \in [Positions -> Byte]
  <2>1. \A i \in Positions : i < size => read + i \in Positions
    BY <1>1 DEF Positions
  <2>2. QED
    BY <1>1, <2>1 DEF Shift
<1>4. content' = content
  <2>1. content' = Part(buffer', 0, size)
    BY <1>1, <1>2 DEF content, Window, Part, size
  <2>2. 0 \in Nat /\ size \in Nat /\ 0 + size <= Capacity
    BY <1>1
  <2>3. /\ content' \in Seq(Byte) /\ Len(content') = size
        /\ \A i \in 1 .. size : content'[i] = buffer'[0 + i - 1]
    BY <1>3, <2>1, <2>2, PartIsSeq
  <2>4. content = Part(buffer, read, size) /\ read + size <= Capacity
    BY <1>1, ContentIsPart
  <2>5. /\ content \in Seq(Byte) /\ Len(content) = size
        /\ \A i \in 1 .. size : content[i] = buffer[read + i - 1]
    BY <1>1, <2>4, PartIsSeq
  <2>6. ASSUME NEW i \in 1 .. size
        PROVE  content'[i] = content[i]
    <3>1. 0 + i - 1 \in Positions /\ 0 + i - 1 < size /\ read + (0 + i - 1) = read + i - 1
      BY <1>1 DEF Positions
    <3>2. buffer'[0 + i - 1] = buffer[read + (0 + i - 1)]
      BY <3>1 DEF Shift
    <3>3. QED
      BY <2>3, <2>5, <3>1, <3>2
  <2>7. QED
    BY <2>3, <2>5, <2>6, SeqEqual
<1>5. IInv'
  <2>1. read' \in 0 .. Capacity /\ write' \in 0 .. Capacity /\ 0 \in 0 .. Capacity
    BY <1>1, <1>2
  <2>2. view'.at = 0 /\ view'.bytes \in Seq(Byte) /\ Len(view'.bytes) = 0
    BY NoViewOK DEF Shift
  <2>3. txn' = NoTxn /\ refused' \in BOOLEAN
    BY DEF Shift
  <2>4. TypeOK'
    BY <1>3, <2>1, <2>2, <2>3 DEF TypeOK
  <2>5. PositionsOK'
    BY <1>1, <1>2 DEF PositionsOK
  <2>6. ViewInside' /\ TxnInside'
    BY <1>1, <2>2, <2>3 DEF ViewInside, TxnInside
  <2>7. ViewStable'
    BY DEF Shift, ViewStable, NoView, Window
  <2>8. QED
    BY <2>4, <2>5, <2>6, <2>7 DEF IInv
<1>6. QED
  BY <1>4, <1>5

-----------------------------------------------------------------------------
(***************************************************************************)
(* Every step keeps IInv, and is a push, a pop or no step of the queue.    *)
(***************************************************************************)
LEMMA StepEffect ==
  ASSUME IInv, [Next]_vars
  PROVE  IInv' /\ [Queue!Next]_content
<1>0. /\ size \in Nat /\ size = write - read /\ Len(content) = size /\ size <= Capacity
      /\ Capacity \in Nat
  BY ContentIsPart, StreamAssumption DEF IInv, TypeOK, PositionsOK, size
<1>1. CASE \E bytes \in Chunks : PushBytes(bytes)
  <2>1. PICK bytes \in Chunks : PushBytes(bytes)
    BY <1>1
  <2>2. IInv' /\ Queue!Push(bytes)
    BY <2>1, PushEffect DEF Queue!Push
  <2>3. QED
    BY <2>2 DEF Queue!Next
<1>2. CASE \E bytes \in Chunks : RefusePush(bytes)
  <2>1. UNCHANGED <<buffer, read, write, view, txn>> /\ refused' \in BOOLEAN
    BY <1>2 DEF RefusePush
  <2>2. IInv' /\ content' = content
    BY <2>1 DEF IInv, TypeOK, PositionsOK, ViewInside, TxnInside, ViewStable, content, Window, size
  <2>3. QED
    BY <2>2
<1>3. CASE \E n \in 0 .. Capacity : Peek(n)
  <2>1. PICK n \in 0 .. Capacity : Peek(n)
    BY <1>3
  <2>2. n \in Nat /\ n <= size /\ UNCHANGED <<buffer, read, write, txn>>
        /\ txn' = NoTxn /\ refused' \in BOOLEAN
    <3>1. n \in Nat
      BY <1>0
    <3>2. QED
      BY <2>1, <3>1 DEF Peek
  <2>3. view' = [at |-> read, bytes |-> Window(read, n)]
    BY <2>1 DEF Peek
  <2>4. /\ view'.at \in 0 .. Capacity /\ view'.bytes \in Seq(Byte)
        /\ ViewInside' /\ ViewStable'
    BY <2>2, <2>3, FreshView
  <2>5. TypeOK' /\ PositionsOK' /\ TxnInside'
    BY <2>2, <2>4 DEF IInv, TypeOK, PositionsOK, TxnInside
  <2>6. content' = content
    BY <2>2 DEF content, Window, size
  <2>7. QED
    BY <2>4, <2>5, <2>6 DEF IInv
<1>4. CASE \E n \in 0 .. Capacity : Pop(n)
  <2>1. PICK n \in 0 .. Capacity : Pop(n)
    BY <1>4
  <2>2. n \in Nat /\ n <= size /\ ShiftRead(n) /\ txn' = NoTxn /\ refused' \in BOOLEAN
        /\ view' = [at |-> read, bytes |-> Window(read, n)]
    <3>1. n \in Nat
      BY <1>0
    <3>2. QED
      BY <2>1, <3>1 DEF Pop
  <2>3. /\ read' \in 0 .. Capacity /\ write' \in 0 .. Capacity
        /\ buffer' = buffer
        /\ PositionsOK'
        /\ content' = SubSeq(content, n + 1, Len(content))
    BY <2>2, ShiftReadEffect
  <2>4. /\ view'.at \in 0 .. Capacity /\ view'.bytes \in Seq(Byte)
        /\ ViewInside' /\ ViewStable'
    BY <2>2, <2>3, FreshView
  <2>5. TypeOK' /\ TxnInside'
    BY <2>2, <2>3, <2>4 DEF IInv, TypeOK, TxnInside
  <2>6. Queue!Pop(n)
    BY <1>0, <2>2, <2>3 DEF Queue!Pop
  <2>7. QED
    BY <2>3, <2>4, <2>5, <2>6 DEF IInv, Queue!Next
<1>5. CASE Shift
  BY <1>5, ShiftEffect
<1>6. CASE BeginTransaction
  <2>1. UNCHANGED <<buffer, read, write>> /\ txn' = 0 /\ refused' \in BOOLEAN
        /\ view' = [at |-> read, bytes |-> Window(read, size)]
    BY <1>6 DEF BeginTransaction
  <2>2. /\ view'.at \in 0 .. Capacity /\ view'.bytes \in Seq(Byte)
        /\ ViewInside' /\ ViewStable' /\ Len(view'.bytes) = size
    BY <1>0, <2>1, FreshView
  <2>3. size' = size /\ content' = content
    BY <2>1 DEF size, content, Window
  <2>4. 0 \in 0 .. Capacity
    BY <1>0
  <2>5. TypeOK' /\ PositionsOK'
    BY <2>1, <2>2, <2>4 DEF IInv, TypeOK, PositionsOK
  <2>6. TxnInside'
    BY <1>0, <2>1, <2>2, <2>3 DEF TxnInside
  <2>7. QED
    BY <2>2, <2>3, <2>5, <2>6 DEF IInv
<1>7. CASE \E n \in 0 .. Capacity : TransactionPop(n)
  <2>1. PICK n \in 0 .. Capacity : TransactionPop(n)
    BY <1>7
  <2>2. UNCHANGED <<buffer, read, write, view, refused>>
        /\ txn # NoTxn /\ txn' = txn + n /\ txn + n <= Len(view.bytes)
    BY <2>1 DEF TransactionPop
  <2>3. txn \in 0 .. Capacity /\ Len(view.bytes) = size
    BY <2>2 DEF IInv, TypeOK, TxnInside
  <2>4. txn' \in 0 .. Capacity /\ txn' <= size
    BY <1>0, <2>2, <2>3
  <2>5. size' = size /\ content' = content
    BY <2>2 DEF size, content, Window
  <2>6. TypeOK' /\ PositionsOK' /\ ViewInside'
    BY <2>2, <2>4 DEF IInv, TypeOK, PositionsOK, ViewInside
  <2>7. ViewStable'
    BY <2>2 DEF IInv, ViewStable, Window
  <2>8. TxnInside'
    BY <2>2, <2>3, <2>4, <2>5 DEF TxnInside
  <2>9. QED
    BY <2>5, <2>6, <2>7, <2>8 DEF IInv
<1>8. CASE Commit
  <2>1. txn # NoTxn /\ txn <= size /\ ShiftRead(txn) /\ txn' = NoTxn /\ refused' = refused
        /\ view' = [at |-> read, bytes |-> Window(read, txn)]
    BY <1>8 DEF Commit
  <2>2. txn \in 0 .. Capacity
    BY <2>1 DEF IInv, TypeOK
  <2>3. txn \in Nat
    BY <1>0, <2>2
  <2>4. /\ read' \in 0 .. Capacity /\ write' \in 0 .. Capacity
        /\ buffer' = buffer
        /\ PositionsOK'
        /\ content' = SubSeq(content, txn + 1, Len(content))
    BY <2>1, <2>3, ShiftReadEffect
  <2>5. /\ view'.at \in 0 .. Capacity /\ view'.bytes \in Seq(Byte)
        /\ ViewInside' /\ ViewStable'
    BY <2>1, <2>3, <2>4, FreshView
  <2>6. TypeOK' /\ TxnInside'
    BY <2>1, <2>4, <2>5 DEF IInv, TypeOK, TxnInside
  <2>7. Queue!Pop(txn)
    BY <1>0, <2>1, <2>4 DEF Queue!Pop
  <2>8. QED
    BY <2>2, <2>4, <2>5, <2>6, <2>7 DEF IInv, Queue!Next
<1>9. CASE Abandon
  <2>1. UNCHANGED <<buffer, read, write, view, refused>> /\ txn' = NoTxn
    BY <1>9 DEF Abandon
  <2>2. IInv' /\ content' = content
    BY <2>1 DEF IInv, TypeOK, PositionsOK, ViewInside, TxnInside, ViewStable, content, Window, size
  <2>3. QED
    BY <2>2
<1>10. CASE UNCHANGED vars
  <2>1. IInv' /\ content' = content
    BY <1>10 DEF vars, IInv, TypeOK, PositionsOK, ViewInside, TxnInside, ViewStable, content,
                 Window, size
  <2>2. QED
    BY <2>1
<1>11. QED
  BY <1>1, <1>2, <1>3, <1>4, <1>5, <1>6, <1>7, <1>8, <1>9, <1>10 DEF Next

LEMMA Invariance == Spec => []IInv
<1>1. IInv /\ [Next]_vars => IInv'
  BY StepEffect
<1>2. QED
  BY <1>1, InitIInv, PTL DEF Spec

\* The positions stay inside the buffer: no push or pop of Stream reaches
\* past its end.
THEOREM TypeCorrect == Spec => []TypeOK
<1>1. IInv => TypeOK
  BY DEF IInv
<1>2. QED
  BY <1>1, Invariance, PTL

\* ViewStable: what pop and peek handed out is still what the buffer holds
\* there, until the next push or shift.
THEOREM ViewsStayTrue == Spec => []ViewStable
<1>1. IInv => ViewStable
  BY DEF IInv
<1>2. QED
  BY <1>1, Invariance, PTL

\* EmptyIsRewound: an emptied stream has its whole capacity for the next push.
THEOREM EmptiedIsRewound == Spec => []EmptyIsRewound
<1>1. IInv => EmptyIsRewound
  <2> SUFFICES ASSUME IInv, size = 0
               PROVE  available_suffix_bytes = Capacity
    BY DEF EmptyIsRewound
  <2>1. write = 0
    BY DEF IInv, TypeOK, PositionsOK, size
  <2>2. QED
    BY <2>1, StreamAssumption DEF available_suffix_bytes
<1>2. QED
  BY <1>1, Invariance, PTL

\* QueueSpec: base::Stream implements the bounded first-in first-out queue
\* its users take it for.
THEOREM StreamImplementsQueue == Spec => QueueSpec
<1>1. Init => Queue!Init
  <2> SUFFICES ASSUME Init
               PROVE  content = <<>>
    BY DEF Queue!Init
  <2>1. IInv /\ size = 0
    BY InitIInv DEF Init, size
  <2>2. content \in Seq(Byte) /\ Len(content) = 0
    BY <2>1, ContentIsPart
  <2>3. QED
    BY <2>2, EmptySeq
<1>2. IInv /\ [Next]_vars => [Queue!Next]_content
  BY StepEffect
<1>3. QED
  BY <1>1, <1>2, Invariance, PTL DEF Spec, QueueSpec, Queue!Spec
=============================================================================
