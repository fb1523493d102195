-------------------------- MODULE MbufDeviceProofs ---------------------------
(***************************************************************************)
(* Every mbuf has one owner, for every pool, burst size and number of      *)
(* restarts.  The argument counts: Times(m, q) adds up over concatenation, *)
(* so that each action moves a count from one place to another.            *)
(***************************************************************************)
EXTENDS MbufDevice, FiniteSetTheorems, SequenceTheorems, TLAPS

\* The places of m in a sequence.
At(m, q) == {i \in DOMAIN q : q[i] = m}

LEMMA AtFinite ==
  ASSUME NEW m, NEW q \in Seq(Mbufs)
  PROVE  IsFiniteSet(At(m, q)) /\ Times(m, q) = Cardinality(At(m, q)) /\ Times(m, q) \in Nat
<1>1. IsFiniteSet(1 .. Len(q))
  BY FS_Interval
<1>2. At(m, q) \in SUBSET (1 .. Len(q))
  BY DEF At
<1>3. IsFiniteSet(At(m, q))
  BY <1>1, <1>2, FS_Subset
<1>4. Times(m, q) = Cardinality(At(m, q))
  BY DEF Times, At
<1>5. QED
  BY <1>3, <1>4, FS_CardinalityType

LEMMA InNat == \A m, S : In(m, S) \in Nat
BY DEF In

LEMMA TimesEmpty == \A m : Times(m, <<>>) = 0
<1> TAKE m
<1>1. {i \in DOMAIN <<>> : <<>>[i] = m} = {}
  OBVIOUS
<1>2. QED
  BY <1>1, FS_EmptySet DEF Times

\* A sequence that does not hold m counts nothing, and only such a sequence.
LEMMA TimesZero ==
  ASSUME NEW m, NEW q \in Seq(Mbufs)
  PROVE  Times(m, q) = 0 <=> m \notin Range(q)
<1>1. At(m, q) = {} <=> m \notin Range(q)
  BY DEF At, Range
<1>2. QED
  BY <1>1, AtFinite, FS_EmptySet

LEMMA TimesOne ==
  ASSUME NEW m, NEW x \in Mbufs
  PROVE  <<x>> \in Seq(Mbufs) /\ Times(m, <<x>>) = In(m, {x})
<1>0. <<x>> \in Seq(Mbufs) /\ Times(m, <<x>>) = Cardinality(At(m, <<x>>))
  BY DEF Times, At
<1>1. CASE x = m
  <2>1. At(m, <<x>>) = {1}
    BY <1>1 DEF At
  <2>2. QED
    BY <1>0, <1>1, <2>1, FS_Singleton DEF In
<1>2. CASE x # m
  <2>1. At(m, <<x>>) = {}
    BY <1>2 DEF At
  <2>2. QED
    BY <1>0, <1>2, <2>1, FS_EmptySet DEF In
<1>3. QED
  BY <1>1, <1>2

LEMMA TimesConcat ==
  ASSUME NEW m, NEW q \in Seq(Mbufs), NEW r \in Seq(Mbufs)
  PROVE  q \o r \in Seq(Mbufs) /\ Times(m, q \o r) = Times(m, q) + Times(m, r)
<1> DEFINE B == {i \in Len(q) + 1 .. Len(q) + Len(r) : r[i - Len(q)] = m}
           f == [i \in At(m, r) |-> i + Len(q)]
<1>1. /\ q \o r \in Seq(Mbufs) /\ Len(q \o r) = Len(q) + Len(r)
      /\ \A i \in 1 .. Len(q) + Len(r) : (q \o r)[i] = IF i <= Len(q) THEN q[i] ELSE r[i - Len(q)]
  BY ConcatProperties
<1>2. At(m, q \o r) = At(m, q) \cup B
  BY <1>1 DEF At
<1>3. At(m, q) \cap B = {}
  BY DEF At
<1>4. f \in Bijection(At(m, r), B)
  <2>1. f \in [At(m, r) -> B]
    BY DEF At
  <2>2. \A i, j \in At(m, r) : f[i] = f[j] => i = j
    BY DEF At
  <2>3. \A i \in B : i - Len(q) \in At(m, r) /\ f[i - Len(q)] = i
    BY DEF At
  <2>4. QED
    BY <2>1, <2>2, <2>3 DEF Bijection, Injection, Surjection, IsInjective
<1>5. IsFiniteSet(B) /\ Cardinality(B) = Cardinality(At(m, r))
  BY <1>4, AtFinite, FS_Bijection DEF ExistsBijection
<1>6. Cardinality(At(m, q) \cup B) = Cardinality(At(m, q)) + Cardinality(B)
  <2> HIDE DEF B
  <2>1. Cardinality(At(m, q) \cup B) = Cardinality(At(m, q)) + Cardinality(B) - Cardinality({})
    BY <1>3, <1>5, AtFinite, FS_Union
  <2>2. Cardinality(At(m, q)) \in Nat /\ Cardinality(B) \in Nat
    BY <1>5, AtFinite, FS_CardinalityType
  <2>3. QED
    BY <2>1, <2>2, FS_EmptySet
<1>7. QED
  BY <1>1, <1>2, <1>5, <1>6, AtFinite, Zenon

LEMMA TimesAppend ==
  ASSUME NEW m, NEW q \in Seq(Mbufs), NEW x \in Mbufs
  PROVE  Append(q, x) \in Seq(Mbufs) /\ Times(m, Append(q, x)) = Times(m, q) + In(m, {x})
<1>1. Append(q, x) = q \o <<x>>
  BY AppendIsConcat
<1>2. <<x>> \in Seq(Mbufs) /\ Times(m, <<x>>) = In(m, {x})
  BY TimesOne
<1>3. q \o <<x>> \in Seq(Mbufs) /\ Times(m, q \o <<x>>) = Times(m, q) + Times(m, <<x>>)
  BY <1>2, TimesConcat, Zenon
<1>4. QED
  BY <1>1, <1>2, <1>3

\* A sequence that is cut in two.
LEMMA TimesSplit ==
  ASSUME NEW m, NEW q \in Seq(Mbufs), NEW k \in 0 .. Len(q)
  PROVE  /\ SubSeq(q, 1, k) \in Seq(Mbufs) /\ SubSeq(q, k + 1, Len(q)) \in Seq(Mbufs)
         /\ Times(m, q) = Times(m, SubSeq(q, 1, k)) + Times(m, SubSeq(q, k + 1, Len(q)))
<1> DEFINE a == SubSeq(q, 1, k)
           b == SubSeq(q, k + 1, Len(q))
<1>1. a \in Seq(Mbufs) /\ b \in Seq(Mbufs)
  BY SubSeqProperties
<1>2. a \o b = q
  <2>1. 1 \in 1 .. Len(q) + 1 /\ k \in 1 - 1 .. Len(q) /\ Len(q) \in k .. Len(q)
    OBVIOUS
  <2>2. a \o b = SubSeq(q, 1, Len(q))
    BY <2>1, ConcatAdjacentSubSeq, Zenon
  <2>3. QED
    BY <2>2, SubSeqFull, Zenon
<1> HIDE DEF a, b
<1>3. Times(m, a \o b) = Times(m, a) + Times(m, b)
  BY <1>1, TimesConcat
<1>4. QED
  BY <1>1, <1>2, <1>3, Zenon DEF a, b

LEMMA TimesTail ==
  ASSUME NEW m, NEW q \in Seq(Mbufs), q # <<>>
  PROVE  /\ Head(q) \in Mbufs /\ Tail(q) \in Seq(Mbufs)
         /\ Times(m, q) = In(m, {Head(q)}) + Times(m, Tail(q))
<1>1. Head(q) \in Mbufs /\ Tail(q) \in Seq(Mbufs)
  BY HeadTailProperties
<1>2. q = <<Head(q)>> \o Tail(q)
  OBVIOUS
<1>3. <<Head(q)>> \in Seq(Mbufs) /\ Times(m, <<Head(q)>>) = In(m, {Head(q)})
  BY <1>1, TimesOne
<1>4. Times(m, <<Head(q)>> \o Tail(q)) = Times(m, <<Head(q)>>) + Times(m, Tail(q))
  BY <1>1, <1>3, TimesConcat, Zenon
<1>5. QED
  BY <1>1, <1>2, <1>3, <1>4, Zenon

\* The rest of a sequence, when its next element is taken.
LEMMA TimesNext ==
  ASSUME NEW m, NEW q \in Seq(Mbufs), NEW k \in 0 .. Len(q) - 1
  PROVE  /\ q[k + 1] \in Mbufs
         /\ Times(m, SubSeq(q, k + 1, Len(q))) =
              In(m, {q[k + 1]}) + Times(m, SubSeq(q, (k + 1) + 1, Len(q)))
<1> DEFINE b == SubSeq(q, (k + 1) + 1, Len(q))
           x == q[k + 1]
<1>1. x \in Mbufs
  OBVIOUS
<1>2. b \in Seq(Mbufs)
  BY SubSeqProperties
<1>3. SubSeq(q, k + 1, Len(q)) = <<x>> \o b
  BY SubSeqRecursiveFirst
<1> HIDE DEF b, x
<1>4. <<x>> \in Seq(Mbufs) /\ Times(m, <<x>>) = In(m, {x})
  BY <1>1, TimesOne
<1>5. Times(m, <<x>> \o b) = Times(m, <<x>>) + Times(m, b)
  BY <1>2, <1>4, TimesConcat, Zenon
<1>6. QED
  BY <1>1, <1>3, <1>4, <1>5, Zenon DEF b, x

-----------------------------------------------------------------------------
Types ==
  /\ pool \subseteq Mbufs /\ rx_packet \subseteq Mbufs /\ tx_packets \subseteq Mbufs
  /\ rx_ring \in Seq(Mbufs) /\ tx_ring \in Seq(Mbufs)
  /\ receive_mbufs \in Seq(Mbufs) /\ send_mbufs \in Seq(Mbufs)
  /\ current_recieve_mbuf_idx \in 0 .. Len(receive_mbufs)

\* Unwinding starts with the RxPacket released.
Inv == Types /\ OneOwner /\ (worker = "unwinding" => rx_packet = {})

\* What the state says of the places of one mbuf.
CountFacts(m) ==
  /\ Times(m, rx_ring) \in Nat /\ Times(m, tx_ring) \in Nat
  /\ Times(m, send_mbufs) \in Nat /\ Times(m, Rest) \in Nat
  /\ In(m, pool) \in Nat /\ In(m, rx_packet) \in Nat /\ In(m, tx_packets) \in Nat
  /\ In(m, lost) \in Nat /\ In(m, unread) \in Nat /\ In(m, abandoned) \in Nat
  /\ In(m, pool) + In(m, rx_packet) + In(m, tx_packets) + In(m, lost) + In(m, unread) + In(m, abandoned)
       + Times(m, rx_ring) + Times(m, tx_ring) + Times(m, send_mbufs) + Times(m, Rest) = 1

LEMMA Counts ==
  ASSUME Inv, NEW m \in Mbufs
  PROVE  /\ CountFacts(m)
         /\ Times(m, send_mbufs) = 0 <=> m \notin Range(send_mbufs)
         /\ Times(m, Rest) = 0 <=> m \notin Unread
<1>1. Rest \in Seq(Mbufs)
  BY TimesSplit DEF Inv, Types, Rest
<1>2. Holders(m) = 1
  BY DEF Inv, OneOwner
<1>3. /\ Times(m, rx_ring) \in Nat /\ Times(m, tx_ring) \in Nat
      /\ Times(m, send_mbufs) \in Nat /\ Times(m, Rest) \in Nat
  BY <1>1, AtFinite DEF Inv, Types
<1>4. QED
  BY <1>1, <1>2, <1>3, TimesZero, InNat DEF Inv, Types, Holders, CountFacts, Unread

\* No two places hold the same mbuf.
LEMMA Exclusive ==
  ASSUME NEW m, CountFacts(m)
  PROVE  /\ In(m, pool) + Times(m, tx_ring) <= 1 /\ In(m, pool) + Times(m, send_mbufs) <= 1
         /\ In(m, unread) + Times(m, Rest) <= 1
         /\ In(m, pool) + In(m, rx_packet) + In(m, tx_packets) + In(m, lost)
              + Times(m, rx_ring) + Times(m, tx_ring) + Times(m, send_mbufs) <= 1
         /\ In(m, abandoned) + In(m, rx_packet) + In(m, tx_packets) + In(m, lost)
              + Times(m, send_mbufs) + Times(m, Rest) <= 1
BY DEF CountFacts

\* The places of an mbuf that a step leaves alone.
LEMMA RestKept == UNCHANGED received => UNCHANGED Rest
BY DEF received, Rest

LEMMA InvInit == Init => Inv
<1> SUFFICES ASSUME Init
             PROVE  Inv
  OBVIOUS
<1>1. Types /\ worker = "running"
  BY DEF Init, Types
<1>2. Rest = <<>>
  BY DEF Init, Rest
<1>3. ASSUME NEW m \in Mbufs
      PROVE  Holders(m) = 1
  BY <1>2, TimesEmpty DEF Init, Holders, In
<1>4. QED
  BY <1>1, <1>3 DEF Inv, OneOwner

-----------------------------------------------------------------------------
\* The NIC, and the end of the worker.
LEMMA InvNic ==
  ASSUME Inv, NicReceives \/ NicTransmits
  PROVE  Inv'
<1>1. CASE NicReceives
  <2>1. PICK x \in pool : pool' = pool \ {x} /\ rx_ring' = Append(rx_ring, x)
    BY <1>1 DEF NicReceives
  <2>2. UNCHANGED <<tx_ring, received, send_mbufs, packets, gone, process>>
    BY <1>1 DEF NicReceives
  <2>3. x \in Mbufs /\ rx_ring \in Seq(Mbufs)
    BY <2>1 DEF Inv, Types
  <2>4. ASSUME NEW m \in Mbufs
        PROVE  Holders(m)' = 1
    <3>1. Times(m, rx_ring') = Times(m, rx_ring) + In(m, {x})
      BY <2>1, <2>3, TimesAppend
    <3>2. In(m, pool') + In(m, {x}) = In(m, pool)
      BY <2>1 DEF In
    <3>3. QED
      BY <2>2, <3>1, <3>2, Counts, RestKept DEF CountFacts, Holders, In, packets, gone
  <2>5. Types'
    BY <2>1, <2>2, <2>3, TimesAppend DEF Inv, Types, received, packets
  <2>6. QED
    BY <2>2, <2>4, <2>5 DEF Inv, OneOwner, packets, process
<1>2. CASE NicTransmits
  <2>1. /\ tx_ring # <<>> /\ pool' = pool \cup {Head(tx_ring)} /\ tx_ring' = Tail(tx_ring)
        /\ UNCHANGED <<rx_ring, received, send_mbufs, packets, gone, process>>
    BY <1>2 DEF NicTransmits
  <2>2. Head(tx_ring) \in Mbufs /\ Tail(tx_ring) \in Seq(Mbufs)
    BY <2>1, TimesTail DEF Inv, Types
  <2>3. ASSUME NEW m \in Mbufs
        PROVE  Holders(m)' = 1
    <3> DEFINE x == Head(tx_ring)
    <3>1. Times(m, tx_ring) = In(m, {x}) + Times(m, tx_ring')
      BY <2>1, TimesTail DEF Inv, Types
    <3>2. Times(m, tx_ring') \in Nat
      BY <2>1, <2>2, AtFinite, Zenon
    <3>3. /\ pool' = pool \cup {x} /\ UNCHANGED <<rx_ring, send_mbufs, packets, gone, Rest>>
          /\ CountFacts(m)
      BY <2>1, Counts, RestKept
    <3> HIDE DEF x
    <3>4. In(m, {x}) \in Nat
      BY InNat
    <3>5. ~ (m \in pool /\ m = x)
      BY <3>1, <3>2, <3>3, Exclusive DEF In
    <3>6. In(m, pool') = In(m, pool) + In(m, {x})
      BY <3>3, <3>5 DEF In
    <3>7. QED
      BY <3>1, <3>2, <3>3, <3>4, <3>6 DEF CountFacts, Holders, packets, gone
  <2>4. Types'
    BY <2>1, <2>2 DEF Inv, Types, received, packets
  <2>5. QED
    BY <2>1, <2>3, <2>4 DEF Inv, OneOwner, packets, process
<1>3. QED
  BY <1>1, <1>2

\* An exception in the loop: pool takes what the worker holds, and every other
\* place that changes gains from those that lose.
BalancedThrow(held, queue) ==
  /\ Throw(held, queue) /\ held \subseteq Mbufs
  /\ queue \in Seq(Mbufs) /\ rx_ring' \in Seq(Mbufs) /\ tx_ring' \in Seq(Mbufs)
  /\ \A m \in Mbufs :
       Times(m, rx_ring') + Times(m, tx_ring') + Times(m, queue) + In(m, held) + In(m, lost')
         = Times(m, rx_ring) + Times(m, tx_ring) + Times(m, send_mbufs)
           + In(m, rx_packet) + In(m, tx_packets) + In(m, lost)

LEMMA InvThrow ==
  ASSUME Inv, NEW held, NEW queue, BalancedThrow(held, queue)
  PROVE  Inv'
<1>1. /\ pool' = pool \cup held /\ rx_packet' = {} /\ tx_packets' = {}
      /\ send_mbufs' = queue /\ UNCHANGED <<received, unread, abandoned>>
  BY DEF BalancedThrow, Throw
<1>2. ASSUME NEW m \in Mbufs
      PROVE  Holders(m)' = 1
  <2>1. /\ Times(m, queue) \in Nat /\ Times(m, rx_ring') \in Nat /\ Times(m, tx_ring') \in Nat
        /\ Times(m, rx_ring') + Times(m, tx_ring') + Times(m, queue) + In(m, held) + In(m, lost')
             = Times(m, rx_ring) + Times(m, tx_ring) + Times(m, send_mbufs)
               + In(m, rx_packet) + In(m, tx_packets) + In(m, lost)
    BY AtFinite DEF BalancedThrow
  <2>2. CountFacts(m) /\ In(m, held) \in Nat /\ In(m, lost') \in Nat /\ UNCHANGED Rest
    BY <1>1, Counts, InNat, RestKept
  <2>3. In(m, rx_packet') = 0 /\ In(m, tx_packets') = 0
    BY <1>1 DEF In
  <2>4. In(m, pool) + In(m, held) <= 1
    BY <2>1, <2>2 DEF CountFacts
  <2>5. In(m, pool') = In(m, pool) + In(m, held)
    BY <1>1, <2>4 DEF In
  <2>6. UNCHANGED <<unread, abandoned>> /\ send_mbufs' = queue
    BY <1>1
  <2>7. QED
    BY <2>1, <2>2, <2>3, <2>5, <2>6 DEF CountFacts, Holders
<1>3. Types'
  BY <1>1 DEF BalancedThrow, Inv, Types, received
<1>4. QED
  BY <1>1, <1>2, <1>3 DEF Inv, OneOwner

\* The process ends without unwinding: abandoned takes what it holds.
LEMMA InvTerminate ==
  ASSUME Inv, NEW held, Terminate(held), UNCHANGED <<rx_ring, tx_ring>>,
         \A m \in Mbufs : In(m, held) + In(m, lost') = In(m, rx_packet) + In(m, tx_packets) + In(m, lost)
  PROVE  Inv'
<1>1. /\ abandoned' = abandoned \cup held \cup Unread \cup Range(send_mbufs)
      /\ rx_packet' = {} /\ tx_packets' = {}
      /\ receive_mbufs' = <<>> /\ current_recieve_mbuf_idx' = 0 /\ send_mbufs' = <<>>
      /\ UNCHANGED <<pool, unread>>
  BY DEF Terminate
<1>2. Rest' = <<>>
  BY <1>1 DEF Rest
<1>3. ASSUME NEW m \in Mbufs
      PROVE  Holders(m)' = 1
  <2>1. Times(m, Rest') = 0 /\ Times(m, send_mbufs') = 0
    BY <1>1, <1>2, TimesEmpty
  <2>2. In(m, rx_packet') = 0 /\ In(m, tx_packets') = 0
    BY <1>1 DEF In
  <2>3. /\ CountFacts(m) /\ In(m, held) \in Nat /\ In(m, lost') \in Nat
        /\ Times(m, send_mbufs) = 0 <=> m \notin Range(send_mbufs)
        /\ Times(m, Rest) = 0 <=> m \notin Unread
    BY Counts, InNat
  <2>4. In(m, held) + In(m, lost') = In(m, rx_packet) + In(m, tx_packets) + In(m, lost)
    OBVIOUS
  <2>5. In(m, abandoned) + In(m, held) + Times(m, send_mbufs) + Times(m, Rest) <= 1
    BY <2>3, <2>4 DEF CountFacts
  <2>6. In(m, abandoned') = In(m, abandoned) + In(m, held) + Times(m, send_mbufs) + Times(m, Rest)
    BY <1>1, <2>3, <2>5 DEF In, CountFacts
  <2>7. UNCHANGED <<pool, unread>>
    BY <1>1
  <2>8. QED
    BY <2>1, <2>2, <2>3, <2>4, <2>6, <2>7 DEF CountFacts, Holders
<1>4. Types'
  BY <1>1 DEF Inv, Types
<1>5. QED
  BY <1>1, <1>3, <1>4 DEF Inv, OneOwner

LEMMA InvEnd ==
  ASSUME Inv, Crash \/ Stop \/ Destroy \/ Restart
  PROVE  Inv'
<1>1. CASE Crash
  <2>1. Terminate(rx_packet \cup tx_packets) /\ UNCHANGED <<rx_ring, tx_ring, lost>>
    BY <1>1 DEF Crash
  <2>2. ASSUME NEW m \in Mbufs
        PROVE  In(m, rx_packet \cup tx_packets) = In(m, rx_packet) + In(m, tx_packets)
    <3>1. ~ (m \in rx_packet /\ m \in tx_packets)
      BY Counts DEF CountFacts, In
    <3>2. QED
      BY <3>1 DEF In
  <2>3. \A m \in Mbufs : In(m, rx_packet \cup tx_packets) + In(m, lost')
                           = In(m, rx_packet) + In(m, tx_packets) + In(m, lost)
    BY <2>1, <2>2, Zenon
  <2>4. QED
    BY <2>1, <2>3, InvTerminate
<1>2. CASE Stop
  BY <1>2, RestKept DEF Stop, Inv, Types, OneOwner, Holders, received, packets, gone
<1>3. CASE Restart
  BY <1>3, RestKept DEF Restart, Inv, Types, OneOwner, Holders, received, packets, gone
<1>4. CASE Destroy
  <2>1. /\ pool' = pool \cup Range(send_mbufs) /\ unread' = unread \cup Unread
        /\ receive_mbufs' = <<>> /\ current_recieve_mbuf_idx' = 0 /\ send_mbufs' = <<>>
        /\ worker' = "down"
        /\ UNCHANGED <<rx_ring, tx_ring, packets, lost, abandoned>>
    BY <1>4 DEF Destroy
  <2>2. Rest' = <<>>
    BY <2>1 DEF Rest
  <2>3. ASSUME NEW m \in Mbufs
        PROVE  Holders(m)' = 1
    <3>1. Times(m, Rest') = 0 /\ Times(m, send_mbufs') = 0
      BY <2>1, <2>2, TimesEmpty
    <3>2. /\ CountFacts(m)
          /\ Times(m, send_mbufs) = 0 <=> m \notin Range(send_mbufs)
          /\ Times(m, Rest) = 0 <=> m \notin Unread
      BY Counts
    <3>3. In(m, pool) + Times(m, send_mbufs) <= 1 /\ In(m, unread) + Times(m, Rest) <= 1
      BY <3>2, Exclusive
    <3>4. /\ In(m, pool') = In(m, pool) + Times(m, send_mbufs)
          /\ In(m, unread') = In(m, unread) + Times(m, Rest)
      BY <2>1, <3>2, <3>3 DEF In, CountFacts
    <3>5. UNCHANGED <<rx_ring, tx_ring, packets, lost, abandoned>>
      BY <2>1
    <3>6. QED
      BY <3>1, <3>2, <3>4, <3>5 DEF CountFacts, Holders, packets
  <2>4. Range(send_mbufs) \subseteq Mbufs
    BY DEF Inv, Types, Range
  <2>5. Types'
    BY <2>1, <2>4 DEF Inv, Types, packets
  <2>6. QED
    BY <2>1, <2>3, <2>5 DEF Inv, OneOwner
<1>5. QED
  BY <1>1, <1>2, <1>3, <1>4

-----------------------------------------------------------------------------
\* The receiving side: a packet moves from the rest of the burst to rx_packet.
LEMMA InvReceive ==
  ASSUME Inv, Receive
  PROVE  Inv'
<1> DEFINE polls == current_recieve_mbuf_idx = Len(receive_mbufs)
           n == IF polls THEN Minimum(Len(rx_ring), kReceiveBurstSize) ELSE 0
           burst == IF polls THEN SubSeq(rx_ring, 1, n) ELSE receive_mbufs
           at == IF polls THEN 0 ELSE current_recieve_mbuf_idx
           left == SubSeq(burst, at + 1, Len(burst))
<1>1. /\ rx_packet = {} /\ worker = "running"
      /\ receive_mbufs' = burst /\ rx_ring' = SubSeq(rx_ring, n + 1, Len(rx_ring))
      /\ \/ at < Len(burst) /\ rx_packet' = {burst[at + 1]} /\ current_recieve_mbuf_idx' = at + 1
         \/ at = Len(burst) /\ rx_packet' = {} /\ current_recieve_mbuf_idx' = at
      /\ UNCHANGED <<pool, tx_ring, send_mbufs, tx_packets, gone, process>>
  BY Zenon DEF Receive
<1>2. n \in 0 .. Len(rx_ring)
  BY DeviceAssumption DEF Inv, Types, Minimum
<1>3. rx_ring' \in Seq(Mbufs) /\ burst \in Seq(Mbufs) /\ at \in 0 .. Len(burst)
  BY <1>1, <1>2, TimesSplit DEF Inv, Types
<1>4. ASSUME NEW m \in Mbufs
      PROVE  Times(m, rx_ring) + Times(m, Rest) = Times(m, rx_ring') + Times(m, left)
  <2>1. CASE polls
    <3>1. Rest = <<>>
      BY <2>1 DEF Rest, Inv, Types
    <3>2. left = burst
      BY <1>3, <2>1, SubSeqFull
    <3>3. Times(m, rx_ring) = Times(m, burst) + Times(m, rx_ring')
      BY <1>1, <1>2, <2>1, TimesSplit DEF Inv, Types
    <3>4. Times(m, Rest) = 0 /\ Times(m, left) = Times(m, burst)
      BY <3>1, <3>2, TimesEmpty, Zenon
    <3>5. Times(m, burst) \in Nat /\ Times(m, rx_ring') \in Nat
      BY <1>3, AtFinite, Zenon
    <3> HIDE DEF left, burst
    <3>6. QED
      BY <3>3, <3>4, <3>5
  <2>2. CASE ~ polls
    <3>1. left = Rest
      BY <2>2, Zenon DEF Rest
    <3>2. rx_ring' = rx_ring
      BY <1>1, <2>2, SubSeqFull DEF Inv, Types
    <3>3. QED
      BY <3>1, <3>2, Zenon
  <2>3. QED
    BY <2>1, <2>2, Zenon
<1> HIDE DEF n, burst, at
<1>5. ASSUME NEW m \in Mbufs
      PROVE  Times(m, left) = In(m, rx_packet') + Times(m, Rest')
  <2>1. CASE at < Len(burst)
    <3>1. at \in 0 .. Len(burst) - 1
      BY <1>3, <2>1
    <3>2. Times(m, left) = In(m, {burst[at + 1]}) + Times(m, SubSeq(burst, (at + 1) + 1, Len(burst)))
      BY <1>3, <3>1, TimesNext
    <3>3. rx_packet' = {burst[at + 1]} /\ Rest' = SubSeq(burst, (at + 1) + 1, Len(burst))
      BY <1>1, <1>3, <2>1 DEF Rest
    <3>4. QED
      BY <3>2, <3>3
  <2>2. CASE at = Len(burst)
    <3>1. rx_packet' = {} /\ Rest' = left
      BY <1>1, <1>3, <2>2 DEF Rest
    <3>2. In(m, rx_packet') = 0 /\ Times(m, left) \in Nat
      BY <1>3, <3>1, TimesSplit, AtFinite, Zenon DEF In
    <3>3. QED
      BY <3>1, <3>2
  <2>3. QED
    BY <1>3, <2>1, <2>2
<1>6. Types'
  <2>1. rx_packet' \subseteq Mbufs
    BY <1>1, <1>3
  <2>2. QED
    BY <1>1, <1>3, <2>1 DEF Inv, Types
<1>7. ASSUME NEW m \in Mbufs
      PROVE  Holders(m)' = 1
  <2>1. Times(m, rx_ring) + Times(m, Rest) = Times(m, rx_ring') + (In(m, rx_packet') + Times(m, Rest'))
    BY <1>4, <1>5
  <2>2. Rest' \in Seq(Mbufs)
    BY <1>6, TimesSplit, Zenon DEF Types, Rest
  <2>3. Times(m, rx_ring') \in Nat /\ Times(m, Rest') \in Nat /\ In(m, rx_packet') \in Nat
    BY <1>3, <2>2, AtFinite, InNat
  <2>4. CountFacts(m) /\ In(m, rx_packet) = 0
    BY <1>1, Counts DEF In
  <2>5. UNCHANGED <<pool, tx_ring, send_mbufs, tx_packets, gone>>
    BY <1>1
  <2>6. QED
    BY <2>1, <2>3, <2>4, <2>5 DEF CountFacts, Holders, gone
<1>8. QED
  BY <1>1, <1>6, <1>7 DEF Inv, OneOwner, process

\* A packet that is given back to the pool.
LEMMA InvRelease ==
  ASSUME Inv, ReleaseRx \/ \E x \in Mbufs : DropTx(x)
  PROVE  Inv'
<1>1. CASE ReleaseRx
  <2>1. /\ worker = "running" /\ pool' = pool \cup rx_packet /\ rx_packet' = {}
        /\ UNCHANGED <<rx_ring, tx_ring, send_mbufs, tx_packets, gone, process>>
        /\ UNCHANGED <<received, Rest>>
    BY <1>1, RestKept DEF ReleaseRx
  <2>2. ASSUME NEW m \in Mbufs
        PROVE  Holders(m)' = 1
    <3>1. CountFacts(m)
      BY Counts
    <3>2. In(m, pool) + In(m, rx_packet) <= 1
      BY <3>1 DEF CountFacts
    <3>3. In(m, pool') = In(m, pool) + In(m, rx_packet) /\ In(m, rx_packet') = 0
      BY <2>1, <3>2 DEF In
    <3>4. QED
      BY <2>1, <3>1, <3>3 DEF CountFacts, Holders, gone
  <2>3. QED
    BY <2>1, <2>2 DEF Inv, Types, OneOwner, received, process
<1>2. ASSUME NEW x \in Mbufs, DropTx(x)
      PROVE  Inv'
  <2>1. /\ x \in tx_packets /\ pool' = pool \cup {x} /\ tx_packets' = tx_packets \ {x}
        /\ UNCHANGED <<rx_ring, tx_ring, send_mbufs, rx_packet, gone, process>>
        /\ UNCHANGED <<received, Rest>>
    BY <1>2, RestKept DEF DropTx
  <2>2. ASSUME NEW m \in Mbufs
        PROVE  Holders(m)' = 1
    <3>1. CountFacts(m)
      BY Counts
    <3>2. In(m, pool) + In(m, tx_packets) <= 1
      BY <3>1 DEF CountFacts
    <3>3. In(m, pool') + In(m, tx_packets') = In(m, pool) + In(m, tx_packets)
      BY <2>1, <3>2 DEF In
    <3>4. In(m, pool') \in Nat /\ In(m, tx_packets') \in Nat
      BY InNat
    <3>5. QED
      BY <2>1, <3>1, <3>3, <3>4 DEF CountFacts, Holders, gone
  <2>3. QED
    BY <2>1, <2>2 DEF Inv, Types, OneOwner, received, process
<1>3. QED
  BY <1>1, <1>2

-----------------------------------------------------------------------------
\* The sending side.  What the worker holds, without the packet that was lost.
LEMMA HeldBut ==
  ASSUME Inv, NEW m \in Mbufs, NEW x, x \in tx_packets
  PROVE  /\ In(m, rx_packet \cup tx_packets) = In(m, rx_packet) + In(m, tx_packets)
         /\ In(m, rx_packet \cup (tx_packets \ {x})) + In(m, lost \cup {x})
              = In(m, rx_packet) + In(m, tx_packets) + In(m, lost)
         /\ rx_packet = {} => In(m, tx_packets \ {x}) + In(m, lost \cup {x})
                                = In(m, rx_packet) + In(m, tx_packets) + In(m, lost)
<1>1. In(m, rx_packet) + In(m, tx_packets) + In(m, lost) <= 1
  BY Counts DEF CountFacts
<1>2. QED
  BY <1>1 DEF In

LEMMA HeldAll ==
  ASSUME Inv, NEW m \in Mbufs
  PROVE  In(m, rx_packet \cup tx_packets) = In(m, rx_packet) + In(m, tx_packets)
<1>1. In(m, rx_packet) + In(m, tx_packets) <= 1
  BY Counts DEF CountFacts
<1>2. QED
  BY <1>1 DEF In

LEMMA InvGetSendBuffer ==
  ASSUME Inv, GetSendBuffer
  PROVE  Inv'
<1>1. UNCHANGED <<rx_ring, tx_ring, lost>>
  BY DEF GetSendBuffer
<1>2. ASSUME NEW x \in pool, pool' = pool \ {x}, tx_packets' = tx_packets \cup {x},
             UNCHANGED <<received, send_mbufs, rx_packet, unread, abandoned, process>>
      PROVE  Inv'
  <2>1. ASSUME NEW m \in Mbufs
        PROVE  Holders(m)' = 1
    <3>1. CountFacts(m) /\ UNCHANGED Rest
      BY <1>2, Counts, RestKept
    <3>2. In(m, pool) + In(m, tx_packets) <= 1
      BY <3>1 DEF CountFacts
    <3>3. In(m, pool') + In(m, tx_packets') = In(m, pool) + In(m, tx_packets)
      BY <1>2, <3>2 DEF In
    <3>4. In(m, pool') \in Nat /\ In(m, tx_packets') \in Nat
      BY InNat
    <3>5. UNCHANGED <<rx_ring, tx_ring, lost, send_mbufs, rx_packet, unread, abandoned>>
      BY <1>1, <1>2
    <3>6. QED
      BY <3>1, <3>3, <3>4, <3>5 DEF CountFacts, Holders
  <2>2. QED
    BY <1>1, <1>2, <2>1 DEF Inv, Types, OneOwner, received, process
<1>3. CASE Throw(rx_packet \cup tx_packets, send_mbufs)
  <2>1. \A m \in Mbufs :
          Times(m, rx_ring') + Times(m, tx_ring') + Times(m, send_mbufs)
              + In(m, rx_packet \cup tx_packets) + In(m, lost')
            = Times(m, rx_ring) + Times(m, tx_ring) + Times(m, send_mbufs)
              + In(m, rx_packet) + In(m, tx_packets) + In(m, lost)
    <3> TAKE m \in Mbufs
    <3>1. CountFacts(m) /\ In(m, rx_packet \cup tx_packets) = In(m, rx_packet) + In(m, tx_packets)
      BY Counts, HeldAll, Zenon
    <3>2. QED
      BY <1>1, <3>1 DEF CountFacts
  <2>2. BalancedThrow(rx_packet \cup tx_packets, send_mbufs)
    BY <1>1, <1>3, <2>1, Zenon DEF BalancedThrow, Inv, Types
  <2>3. QED
    BY <2>2, InvThrow
<1>4. CASE worker = "unwinding" /\ Terminate(tx_packets)
  <2>1. ASSUME NEW m \in Mbufs
        PROVE  In(m, tx_packets) + In(m, lost') = In(m, rx_packet) + In(m, tx_packets) + In(m, lost)
    <3>1. In(m, rx_packet) = 0 /\ CountFacts(m)
      BY <1>4, Counts DEF Inv, In
    <3>2. QED
      BY <1>1, <3>1 DEF CountFacts
  <2>2. QED
    BY <1>1, <1>4, <2>1, InvTerminate
<1>5. QED
  BY <1>2, <1>3, <1>4 DEF GetSendBuffer

LEMMA InvSendPacket ==
  ASSUME Inv, NEW x \in Mbufs, SendPacket(x)
  PROVE  Inv'
<1>1. UNCHANGED rx_ring /\ x \in tx_packets
  BY DEF SendPacket
<1>2. CASE /\ tx_ring' = Append(tx_ring, x) /\ tx_packets' = tx_packets \ {x}
           /\ UNCHANGED <<pool, received, send_mbufs, rx_packet, gone, process>>
  <2>1. tx_ring' \in Seq(Mbufs)
    BY <1>2, TimesAppend DEF Inv, Types
  <2>2. ASSUME NEW m \in Mbufs
        PROVE  Holders(m)' = 1
    <3>1. CountFacts(m) /\ UNCHANGED Rest
      BY <1>2, Counts, RestKept
    <3>2. Times(m, tx_ring') = Times(m, tx_ring) + In(m, {x})
      BY <1>2, TimesAppend DEF Inv, Types
    <3>3. In(m, tx_packets') + In(m, {x}) = In(m, tx_packets)
      BY <1>1, <1>2 DEF In
    <3>4. In(m, tx_packets') \in Nat /\ In(m, {x}) \in Nat
      BY InNat
    <3>5. UNCHANGED <<rx_ring, pool, send_mbufs, rx_packet, gone>>
      BY <1>1, <1>2
    <3>6. QED
      BY <3>1, <3>2, <3>3, <3>4, <3>5 DEF CountFacts, Holders, gone
  <2>3. QED
    BY <1>1, <1>2, <2>1, <2>2 DEF Inv, Types, OneOwner, received, process
<1>3. CASE /\ lost' = lost \cup {x} /\ UNCHANGED tx_ring
           /\ Throw(rx_packet \cup (tx_packets \ {x}), send_mbufs)
  <2> DEFINE held == rx_packet \cup (tx_packets \ {x})
  <2>1. \A m \in Mbufs :
          Times(m, rx_ring') + Times(m, tx_ring') + Times(m, send_mbufs) + In(m, held) + In(m, lost')
            = Times(m, rx_ring) + Times(m, tx_ring) + Times(m, send_mbufs)
              + In(m, rx_packet) + In(m, tx_packets) + In(m, lost)
    <3> TAKE m \in Mbufs
    <3>1. CountFacts(m) /\ In(m, held) \in Nat /\ In(m, lost') \in Nat
      BY Counts, InNat
    <3>2. In(m, held) + In(m, lost') = In(m, rx_packet) + In(m, tx_packets) + In(m, lost)
      BY <1>1, <1>3, HeldBut, Zenon
    <3>3. UNCHANGED <<rx_ring, tx_ring>>
      BY <1>1, <1>3
    <3> HIDE DEF held
    <3>4. QED
      BY <3>1, <3>2, <3>3 DEF CountFacts
  <2>2. BalancedThrow(held, send_mbufs)
    BY <1>1, <1>3, <2>1, Zenon DEF BalancedThrow, Inv, Types
  <2>3. QED
    BY <2>2, InvThrow
<1>4. CASE /\ lost' = lost \cup {x} /\ UNCHANGED tx_ring
           /\ worker = "unwinding" /\ Terminate(tx_packets \ {x})
  <2>1. \A m \in Mbufs : In(m, tx_packets \ {x}) + In(m, lost')
                           = In(m, rx_packet) + In(m, tx_packets) + In(m, lost)
    BY <1>1, <1>4, HeldBut DEF Inv
  <2>2. QED
    BY <1>1, <1>4, <2>1, InvTerminate, Zenon
<1>5. QED
  BY <1>2, <1>3, <1>4 DEF SendPacket

\* A burst moves the front of a queue to the NIC.
LEMMA BurstMoves ==
  ASSUME NEW m, NEW q \in Seq(Mbufs), NEW n \in Bursts(q)
  PROVE  /\ SubSeq(q, 1, n) \in Seq(Mbufs) /\ AfterBurst(q, n) \in Seq(Mbufs)
         /\ Times(m, q) = Times(m, SubSeq(q, 1, n)) + Times(m, AfterBurst(q, n))
BY TimesSplit DEF Bursts, AfterBurst

LEMMA InvArpReply ==
  ASSUME Inv, ArpReply
  PROVE  Inv'
<1>1. UNCHANGED <<rx_ring, lost>> /\ tx_packets = {}
  BY DEF ArpReply
<1>2. PICK first \in FlushedFirst(send_mbufs) :
        LET left == AfterBurst(send_mbufs, first)
            sent == SubSeq(send_mbufs, 1, first)
        IN \/ \E x \in pool :
                LET queue == Append(left, x)
                IN /\ \E n \in Bursts(queue) :
                        /\ tx_ring' = tx_ring \o sent \o SubSeq(queue, 1, n)
                        /\ send_mbufs' = AfterBurst(queue, n)
                   /\ pool' = pool \ {x}
                   /\ UNCHANGED <<received, packets, unread, abandoned, process>>
           \/ /\ tx_ring' = tx_ring \o sent
              /\ Throw(rx_packet, left)
  BY Zenon DEF ArpReply
<1> DEFINE left == AfterBurst(send_mbufs, first)
           sent == SubSeq(send_mbufs, 1, first)
<1>3. first \in Bursts(send_mbufs)
  BY DEF FlushedFirst, Bursts, Inv, Types
<1>4. sent \in Seq(Mbufs) /\ left \in Seq(Mbufs)
  BY <1>3, BurstMoves, Zenon DEF Inv, Types
<1>5. tx_ring \o sent \in Seq(Mbufs)
  BY <1>4, TimesConcat DEF Inv, Types
<1>6. ASSUME NEW m \in Mbufs
      PROVE  /\ Times(m, sent) \in Nat /\ Times(m, left) \in Nat
             /\ Times(m, send_mbufs) = Times(m, sent) + Times(m, left)
             /\ Times(m, tx_ring \o sent) = Times(m, tx_ring) + Times(m, sent)
  <2>1. send_mbufs \in Seq(Mbufs) /\ tx_ring \in Seq(Mbufs)
    BY DEF Inv, Types
  <2>2. Times(m, send_mbufs) = Times(m, sent) + Times(m, left)
    BY <1>3, <2>1, BurstMoves
  <2> HIDE DEF left, sent
  <2>3. Times(m, tx_ring \o sent) = Times(m, tx_ring) + Times(m, sent)
    BY <1>4, <2>1, TimesConcat
  <2>4. Times(m, sent) \in Nat /\ Times(m, left) \in Nat
    BY <1>4, AtFinite
  <2>5. QED
    BY <2>2, <2>3, <2>4
<1> HIDE DEF left, sent
<1>7. ASSUME tx_ring' = tx_ring \o sent, Throw(rx_packet, left)
      PROVE  Inv'
  <2>1. \A m \in Mbufs :
          Times(m, rx_ring') + Times(m, tx_ring') + Times(m, left) + In(m, rx_packet) + In(m, lost')
            = Times(m, rx_ring) + Times(m, tx_ring) + Times(m, send_mbufs)
              + In(m, rx_packet) + In(m, tx_packets) + In(m, lost)
    <3> TAKE m \in Mbufs
    <3>1. CountFacts(m) /\ In(m, tx_packets) = 0
      BY <1>1, Counts DEF In
    <3>2. /\ Times(m, sent) \in Nat /\ Times(m, left) \in Nat
          /\ Times(m, send_mbufs) = Times(m, sent) + Times(m, left)
          /\ Times(m, tx_ring') = Times(m, tx_ring) + Times(m, sent)
      BY <1>6, <1>7
    <3>3. UNCHANGED <<rx_ring, lost>>
      BY <1>1
    <3>4. QED
      BY <3>1, <3>2, <3>3 DEF CountFacts
  <2>2. BalancedThrow(rx_packet, left)
    BY <1>1, <1>4, <1>5, <1>7, <2>1 DEF BalancedThrow, Inv, Types
  <2>3. QED
    BY <2>2, InvThrow
<1>8. ASSUME NEW x \in pool, NEW n \in Bursts(Append(left, x)),
             tx_ring' = tx_ring \o sent \o SubSeq(Append(left, x), 1, n),
             send_mbufs' = AfterBurst(Append(left, x), n),
             pool' = pool \ {x},
             UNCHANGED <<received, packets, unread, abandoned, process>>
      PROVE  Inv'
  <2> DEFINE queue == Append(left, x)
             out == SubSeq(queue, 1, n)
  <2>1. queue \in Seq(Mbufs) /\ x \in Mbufs
    BY <1>4, TimesAppend DEF Inv, Types
  <2>2. out \in Seq(Mbufs) /\ send_mbufs' \in Seq(Mbufs)
    BY <1>8, <2>1, BurstMoves, Zenon
  <2>3. tx_ring' \in Seq(Mbufs)
    BY <1>5, <1>8, <2>2, TimesConcat, Zenon
  <2>4. ASSUME NEW m \in Mbufs
        PROVE  Holders(m)' = 1
    <3>1. Times(m, queue) = Times(m, left) + In(m, {x})
      BY <1>4, <2>1, TimesAppend
    <3>2. Times(m, queue) = Times(m, out) + Times(m, send_mbufs')
      BY <1>8, <2>1, BurstMoves, Zenon
    <3>3. Times(m, tx_ring') = Times(m, tx_ring \o sent) + Times(m, out)
      BY <1>5, <1>8, <2>2, TimesConcat, Zenon
    <3>4. Times(m, out) \in Nat /\ Times(m, send_mbufs') \in Nat
      BY <2>2, AtFinite, Zenon
    <3>5. In(m, pool') + In(m, {x}) = In(m, pool) /\ In(m, pool') \in Nat /\ In(m, {x}) \in Nat
      BY <1>8 DEF In
    <3>6. CountFacts(m) /\ UNCHANGED Rest
      BY <1>8, Counts, RestKept
    <3>7. /\ Times(m, sent) \in Nat /\ Times(m, left) \in Nat
          /\ Times(m, send_mbufs) = Times(m, sent) + Times(m, left)
          /\ Times(m, tx_ring \o sent) = Times(m, tx_ring) + Times(m, sent)
      BY <1>6
    <3>8. UNCHANGED <<rx_ring, lost, packets, unread, abandoned>>
      BY <1>1, <1>8
    <3>9. Times(m, tx_ring') + Times(m, send_mbufs') + In(m, pool')
            = Times(m, tx_ring) + Times(m, send_mbufs) + In(m, pool)
      <4> HIDE DEF queue, out
      <4>1. QED
        BY <3>1, <3>2, <3>3, <3>4, <3>5, <3>6, <3>7 DEF CountFacts
    <3>10. Times(m, tx_ring') \in Nat
      BY <2>3, AtFinite
    <3>11. QED
      BY <3>4, <3>5, <3>6, <3>8, <3>9, <3>10 DEF CountFacts, Holders, packets
  <2>5. Types'
    BY <1>1, <1>8, <2>2, <2>3, Zenon DEF Inv, Types, received, packets
  <2>6. QED
    BY <1>8, <2>4, <2>5 DEF Inv, OneOwner, packets, process
<1>9. QED
  BY <1>2, <1>7, <1>8, Zenon DEF left, sent

-----------------------------------------------------------------------------
LEMMA InvNext == Inv /\ [Next]_vars => Inv'
<1> SUFFICES ASSUME Inv, [Next]_vars
             PROVE  Inv'
  OBVIOUS
<1>1. CASE UNCHANGED vars
  BY <1>1, RestKept DEF vars, Inv, Types, OneOwner, Holders, received, packets, gone, process
<1>2. CASE Next
  BY <1>2, InvNic, InvEnd, InvReceive, InvRelease, InvGetSendBuffer, InvSendPacket, InvArpReply DEF Next
<1>3. QED
  BY <1>1, <1>2

(***************************************************************************)
(* Every mbuf of the pool has exactly one owner (device.cpp, packet.h),    *)
(* however large pool and bursts are, over partial bursts, exceptions in   *)
(* handlers and in unwinding, kills and restarts.                          *)
(***************************************************************************)
THEOREM OneOwnerAlways == Spec => []OneOwner
<1>1. Inv => OneOwner
  BY DEF Inv
<1>2. QED
  BY <1>1, InvInit, InvNext, PTL DEF Spec

-----------------------------------------------------------------------------
(***************************************************************************)
(* What the starts of the gateway leave behind.  A burst is not empty only *)
(* once its first packet is taken, so that ~Device leaves at most the      *)
(* others behind; a failed send always brings the worker one step nearer   *)
(* to its end, so that there are two of them in one start.                 *)
(***************************************************************************)
Stage == IF worker = "running" THEN 0 ELSE IF worker = "unwinding" THEN 1 ELSE 2
Ends == IF worker = "down" THEN restarts + 1 ELSE restarts

Started ==
  /\ worker \in {"running", "unwinding", "down"}
  /\ restarts \in 0 .. MaxRestarts
  /\ lost \subseteq Mbufs /\ unread \subseteq Mbufs /\ abandoned \subseteq Mbufs

BurstTaken ==
  /\ Len(receive_mbufs) <= kReceiveBurstSize
  /\ receive_mbufs # <<>> => current_recieve_mbuf_idx >= 1

Leaked ==
  /\ Cardinality(unread) <= Ends * (kReceiveBurstSize - 1)
  /\ Cardinality(lost) <= 2 * restarts + Stage

LeakInv == Inv /\ Started /\ BurstTaken /\ Leaked

\* A queue holds at most as many mbufs as it is long.
LEMMA RangeSize ==
  ASSUME NEW q \in Seq(Mbufs)
  PROVE  Range(q) \subseteq Mbufs /\ IsFiniteSet(Range(q)) /\ Cardinality(Range(q)) <= Len(q)
<1>1. Range(q) \subseteq Mbufs /\ q \in Surjection(1 .. Len(q), Range(q))
  <2>1. q \in [1 .. Len(q) -> Range(q)] /\ DOMAIN q = 1 .. Len(q)
    BY DEF Range
  <2>2. \A x \in Range(q) : \E i \in 1 .. Len(q) : q[i] = x
    BY <2>1, Zenon DEF Range
  <2>3. \A i \in 1 .. Len(q) : q[i] \in Mbufs
    OBVIOUS
  <2>4. QED
    BY <2>1, <2>2, <2>3, Zenon DEF Surjection
<1>2. Len(q) \in Nat /\ 1 \in Int /\ Len(q) \in Int
  OBVIOUS
<1>3. /\ IsFiniteSet(1 .. Len(q))
      /\ Cardinality(1 .. Len(q)) = IF 1 > Len(q) THEN 0 ELSE Len(q) - 1 + 1
  BY <1>2, FS_Interval, Zenon
<1>4. Cardinality(1 .. Len(q)) = Len(q)
  BY <1>2, <1>3
<1>5. IsFiniteSet(Range(q)) /\ Cardinality(Range(q)) <= Cardinality(1 .. Len(q))
  BY <1>1, <1>3, FS_Surjection
<1>6. QED
  BY <1>1, <1>4, <1>5

\* The sizes of what is leaked.
LEMMA LeakSizes ==
  ASSUME Started
  PROVE  /\ IsFiniteSet(lost) /\ IsFiniteSet(unread)
         /\ Cardinality(lost) \in Nat /\ Cardinality(unread) \in Nat
<1>1. IsFiniteSet(lost) /\ IsFiniteSet(unread)
  BY DeviceAssumption, FS_Subset DEF Started
<1>2. QED
  BY <1>1, FS_CardinalityType

LEMMA AnotherStart ==
  ASSUME NEW n \in Nat, NEW k \in Nat
  PROVE  n * k \in Nat /\ (n + 1) * k = n * k + k /\ n * k <= (n + 1) * k
OBVIOUS

\* What is left of a burst.
LEMMA RestOfBurst ==
  ASSUME Inv, BurstTaken
  PROVE  /\ Unread \subseteq Mbufs /\ IsFiniteSet(Unread) /\ Cardinality(Unread) \in Nat
         /\ Cardinality(Unread) <= kReceiveBurstSize - 1
<1>1. /\ receive_mbufs \in Seq(Mbufs)
      /\ current_recieve_mbuf_idx \in 0 .. Len(receive_mbufs)
  BY DEF Inv, Types
<1>2. Rest \in Seq(Mbufs) /\ Len(Rest) = Len(receive_mbufs) - current_recieve_mbuf_idx
  BY <1>1, SubSeqProperties DEF Rest
<1>3. Len(Rest) <= kReceiveBurstSize - 1
  <2>1. CASE receive_mbufs = <<>>
    BY <1>1, <1>2, <2>1, DeviceAssumption
  <2>2. CASE receive_mbufs # <<>>
    BY <1>1, <1>2, <2>2, DeviceAssumption DEF BurstTaken
  <2>3. QED
    BY <2>1, <2>2
<1>4. /\ Unread \subseteq Mbufs /\ IsFiniteSet(Unread)
      /\ Cardinality(Unread) <= Len(Rest) /\ Cardinality(Unread) \in Nat
  BY <1>2, RangeSize, FS_CardinalityType DEF Unread
<1>5. QED
  BY <1>2, <1>3, <1>4, DeviceAssumption

-----------------------------------------------------------------------------
\* Nothing is leaked, and the worker stays or comes nearer to its end.
Quiet ==
  /\ UNCHANGED <<lost, unread, restarts>>
  /\ worker' = worker \/ (worker = "running" /\ worker' = "unwinding") \/ worker' = "down"

\* A send fails.
Fails ==
  /\ \E x \in Mbufs : lost' = lost \cup {x}
  /\ UNCHANGED <<unread, restarts>>
  /\ \/ worker = "running" /\ worker' = "unwinding"
     \/ worker = "unwinding" /\ worker' = "down"

LEMMA QuietLeaks ==
  ASSUME Started, Leaked, Quiet
  PROVE  Leaked'
<1>1. PICK k \in Nat : k = kReceiveBurstSize - 1
  BY DeviceAssumption
<1>2. restarts \in Nat /\ Cardinality(unread) \in Nat /\ Cardinality(lost) \in Nat
  BY LeakSizes, DeviceAssumption DEF Started
<1>3. restarts * k \in Nat /\ restarts * k <= (restarts + 1) * k /\ (restarts + 1) * k \in Nat
  BY <1>2, AnotherStart
<1>4. Cardinality(unread) <= Ends' * k
  BY <1>1, <1>2, <1>3 DEF Leaked, Quiet, Ends, Started
<1>5. Cardinality(lost) <= 2 * restarts + Stage'
  BY <1>2 DEF Leaked, Quiet, Stage, Started
<1>6. QED
  BY <1>1, <1>4, <1>5 DEF Leaked, Quiet

LEMMA FailureLeaks ==
  ASSUME Started, Leaked, Fails
  PROVE  Leaked' /\ lost' \subseteq Mbufs
<1>1. PICK k \in Nat : k = kReceiveBurstSize - 1
  BY DeviceAssumption
<1>2. restarts \in Nat /\ Cardinality(unread) \in Nat /\ Cardinality(lost) \in Nat
  BY LeakSizes, DeviceAssumption DEF Started
<1>3. restarts * k \in Nat /\ restarts * k <= (restarts + 1) * k /\ (restarts + 1) * k \in Nat
  BY <1>2, AnotherStart
<1>4. PICK x \in Mbufs : lost' = lost \cup {x}
  BY DEF Fails
<1>5. Cardinality(lost') <= Cardinality(lost) + 1 /\ Cardinality(lost') \in Nat
  <2>1. /\ IsFiniteSet(lost \cup {x})
        /\ Cardinality(lost \cup {x}) = IF x \in lost THEN Cardinality(lost) ELSE Cardinality(lost) + 1
    BY LeakSizes, FS_AddElement, Zenon
  <2>2. QED
    BY <1>2, <1>4, <2>1
<1>6. Cardinality(unread) <= Ends' * k
  BY <1>1, <1>2, <1>3 DEF Leaked, Fails, Ends, Started
<1>7. Cardinality(lost') <= 2 * restarts + Stage'
  BY <1>2, <1>5 DEF Leaked, Fails, Stage, Started
<1>8. QED
  BY <1>1, <1>4, <1>6, <1>7 DEF Leaked, Fails, Started

LEMMA DestroyLeaks ==
  ASSUME LeakInv, Destroy
  PROVE  Leaked' /\ unread' \subseteq Mbufs
<1>1. PICK k \in Nat : k = kReceiveBurstSize - 1
  BY DeviceAssumption
<1>2. /\ restarts \in Nat /\ Cardinality(unread) \in Nat /\ Cardinality(lost) \in Nat
      /\ IsFiniteSet(unread)
  BY LeakSizes, DeviceAssumption DEF LeakInv, Started
<1>3. restarts * k \in Nat /\ (restarts + 1) * k = restarts * k + k
  BY <1>2, AnotherStart
<1>4. /\ worker = "unwinding" /\ worker' = "down" /\ unread' = unread \cup Unread
      /\ UNCHANGED <<lost, restarts>>
  BY DEF Destroy
<1>5. /\ Unread \subseteq Mbufs /\ IsFiniteSet(Unread) /\ Cardinality(Unread) \in Nat
      /\ Cardinality(Unread) <= k
  BY <1>1, RestOfBurst DEF LeakInv
<1>6. Cardinality(unread') <= Cardinality(unread) + Cardinality(Unread)
  <2>1. Cardinality(unread \cup Unread)
          = Cardinality(unread) + Cardinality(Unread) - Cardinality(unread \cap Unread)
    BY <1>2, <1>5, FS_Union, Zenon
  <2>2. unread \cap Unread \in SUBSET unread
    OBVIOUS
  <2>3. Cardinality(unread \cap Unread) \in Nat
    BY <1>2, <2>2, FS_Subset, FS_CardinalityType, Zenon
  <2>4. QED
    BY <1>2, <1>4, <1>5, <2>1, <2>3
<1>7. Cardinality(unread) <= restarts * k /\ Cardinality(lost) <= 2 * restarts + 1
  BY <1>1, <1>4 DEF LeakInv, Leaked, Ends, Stage
<1>8. unread' \subseteq Mbufs
  BY <1>4, <1>5 DEF LeakInv, Started
<1>9. IsFiniteSet(unread') /\ Cardinality(unread') \in Nat
  BY <1>8, DeviceAssumption, FS_Subset, FS_CardinalityType
<1>10. Cardinality(unread') <= (restarts + 1) * k
  BY <1>2, <1>3, <1>5, <1>6, <1>7, <1>9
<1>11. Ends' = restarts + 1 /\ Stage' = 2
  BY <1>4 DEF Ends, Stage
<1>12. QED
  BY <1>1, <1>2, <1>4, <1>7, <1>8, <1>10, <1>11 DEF Leaked

LEMMA RestartLeaks ==
  ASSUME Started, Leaked, Restart
  PROVE  Leaked'
<1>1. /\ worker = "down" /\ worker' = "running" /\ restarts' = restarts + 1
      /\ UNCHANGED <<lost, unread>>
  BY DEF Restart, gone
<1>2. restarts \in Nat /\ Ends' = Ends /\ 2 * restarts' + Stage' = 2 * restarts + Stage
  BY <1>1, DeviceAssumption DEF Started, Ends, Stage
<1>3. QED
  BY <1>1, <1>2 DEF Leaked

-----------------------------------------------------------------------------
\* What the ways to end, and receive(), leave in receive_mbufs.
LEMMA TerminateEnds ==
  ASSUME LeakInv, NEW held \in SUBSET Mbufs, Terminate(held)
  PROVE  /\ abandoned' \subseteq Mbufs /\ UNCHANGED <<unread, restarts>> /\ worker' = "down"
         /\ BurstTaken'
<1>1. Unread \subseteq Mbufs
  BY RestOfBurst DEF LeakInv
<1>2. Range(send_mbufs) \subseteq Mbufs
  BY RangeSize DEF LeakInv, Inv, Types
<1>3. receive_mbufs' = <<>>
  BY DEF Terminate
<1>4. BurstTaken'
  BY <1>3, DeviceAssumption DEF BurstTaken
<1>5. QED
  BY <1>1, <1>2, <1>4 DEF Terminate, LeakInv, Started

LEMMA ReceiveBurst ==
  ASSUME LeakInv, Receive
  PROVE  BurstTaken'
<1> DEFINE polls == current_recieve_mbuf_idx = Len(receive_mbufs)
           n == IF polls THEN Minimum(Len(rx_ring), kReceiveBurstSize) ELSE 0
           burst == IF polls THEN SubSeq(rx_ring, 1, n) ELSE receive_mbufs
           at == IF polls THEN 0 ELSE current_recieve_mbuf_idx
<1>1. /\ receive_mbufs' = burst
      /\ \/ at < Len(burst) /\ current_recieve_mbuf_idx' = at + 1
         \/ at = Len(burst) /\ current_recieve_mbuf_idx' = at
  BY Zenon DEF Receive
<1>2. n \in 0 .. Len(rx_ring) /\ n <= kReceiveBurstSize
  BY DeviceAssumption DEF LeakInv, Inv, Types, Minimum
<1>3. burst \in Seq(Mbufs) /\ at \in Nat /\ Len(burst) <= kReceiveBurstSize
  <2>1. CASE polls
    BY <1>2, <2>1, SubSeqProperties DEF LeakInv, Inv, Types
  <2>2. CASE ~ polls
    BY <2>2 DEF LeakInv, Inv, Types, BurstTaken
  <2>3. QED
    BY <2>1, <2>2
<1> HIDE DEF n, burst, at
<1>4. burst # <<>> => current_recieve_mbuf_idx' >= 1
  BY <1>1, <1>3
<1>5. QED
  BY <1>1, <1>3, <1>4 DEF BurstTaken

-----------------------------------------------------------------------------
\* One step: what it does to the process, to the burst and to what is leaked.
LeaksKept == Started' /\ BurstTaken' /\ Leaked'

LEMMA QuietKeeps ==
  ASSUME LeakInv, Quiet, abandoned' \subseteq Mbufs, BurstTaken'
  PROVE  LeaksKept
<1>1. Leaked'
  BY QuietLeaks DEF LeakInv
<1>2. Started'
  BY DEF LeakInv, Quiet, Started
<1>3. QED
  BY <1>1, <1>2 DEF LeaksKept

LEMMA BurstKept ==
  ASSUME LeakInv, UNCHANGED received
  PROVE  BurstTaken'
BY DEF LeakInv, BurstTaken, received

LEMMA ThrowKeeps ==
  ASSUME LeakInv, NEW held, NEW queue, Throw(held, queue), worker = "running"
  PROVE  /\ UNCHANGED lost => LeaksKept
         /\ (\E x \in Mbufs : lost' = lost \cup {x}) => LeaksKept
<1>1. /\ worker' = "unwinding" /\ UNCHANGED <<unread, abandoned, restarts>> /\ BurstTaken'
      /\ abandoned' \subseteq Mbufs
  BY BurstKept DEF Throw, LeakInv, Started
<1>2. ASSUME UNCHANGED lost
      PROVE  LeaksKept
  BY <1>1, <1>2, QuietKeeps DEF Quiet
<1>3. ASSUME NEW x \in Mbufs, lost' = lost \cup {x}
      PROVE  LeaksKept
  <2>1. Fails
    BY <1>1, <1>3 DEF Fails
  <2>2. Leaked' /\ lost' \subseteq Mbufs
    BY <2>1, FailureLeaks DEF LeakInv
  <2>3. QED
    BY <1>1, <2>2 DEF LeaksKept, Started, LeakInv
<1>4. QED
  BY <1>2, <1>3

LEMMA TerminateKeeps ==
  ASSUME LeakInv, NEW held \in SUBSET Mbufs, Terminate(held)
  PROVE  /\ UNCHANGED lost => LeaksKept
         /\ worker = "unwinding" /\ (\E x \in Mbufs : lost' = lost \cup {x}) => LeaksKept
<1>1. /\ worker' = "down" /\ UNCHANGED <<unread, restarts>> /\ BurstTaken'
      /\ abandoned' \subseteq Mbufs
  BY TerminateEnds
<1>2. ASSUME UNCHANGED lost
      PROVE  LeaksKept
  BY <1>1, <1>2, QuietKeeps DEF Quiet
<1>3. ASSUME NEW x \in Mbufs, lost' = lost \cup {x}, worker = "unwinding"
      PROVE  LeaksKept
  <2>1. Fails
    BY <1>1, <1>3 DEF Fails
  <2>2. Leaked' /\ lost' \subseteq Mbufs
    BY <2>1, FailureLeaks DEF LeakInv
  <2>3. QED
    BY <1>1, <2>2 DEF LeaksKept, Started, LeakInv
<1>4. QED
  BY <1>2, <1>3

\* The NIC, the release of packets, the stop, and a restart.
LEMMA PlainKeeps ==
  ASSUME LeakInv,
         \/ NicReceives \/ NicTransmits \/ Stop \/ ReleaseRx \/ UNCHANGED vars
         \/ \E x \in Mbufs : DropTx(x)
  PROVE  LeaksKept
<1>1. UNCHANGED <<received, gone>> /\ Quiet
  BY Zenon DEF NicReceives, NicTransmits, Stop, ReleaseRx, DropTx, vars, gone, process, Quiet
<1>2. abandoned' \subseteq Mbufs
  BY <1>1 DEF gone, LeakInv, Started
<1>3. QED
  BY <1>1, <1>2, BurstKept, QuietKeeps

LEMMA EndKeeps ==
  ASSUME LeakInv, Crash \/ Destroy \/ Restart
  PROVE  LeaksKept
<1>1. CASE Crash
  <2>1. rx_packet \cup tx_packets \in SUBSET Mbufs
    BY DEF LeakInv, Inv, Types
  <2>2. QED
    BY <1>1, <2>1, TerminateKeeps DEF Crash
<1>2. CASE Destroy
  <2>1. receive_mbufs' = <<>> /\ worker' = "down" /\ UNCHANGED <<lost, abandoned, restarts>>
    BY <1>2 DEF Destroy
  <2>2. BurstTaken'
    BY <2>1, DeviceAssumption DEF BurstTaken
  <2>3. Leaked' /\ unread' \subseteq Mbufs
    BY <1>2, DestroyLeaks
  <2>4. QED
    BY <2>1, <2>2, <2>3 DEF LeaksKept, Started, LeakInv
<1>3. CASE Restart
  <2>1. /\ worker' = "running" /\ restarts' = restarts + 1 /\ restarts < MaxRestarts
        /\ UNCHANGED <<received, gone>>
    BY <1>3 DEF Restart
  <2>2. BurstTaken' /\ Leaked'
    BY <1>3, <2>1, BurstKept, RestartLeaks DEF LeakInv
  <2>3. Started'
    BY <2>1, DeviceAssumption DEF Started, LeakInv, gone
  <2>4. QED
    BY <2>2, <2>3 DEF LeaksKept
<1>4. QED
  BY <1>1, <1>2, <1>3

LEMMA ReceiveKeeps ==
  ASSUME LeakInv, Receive
  PROVE  LeaksKept
<1>1. UNCHANGED <<gone, process>>
  BY Zenon DEF Receive
<1>2. Quiet /\ abandoned' \subseteq Mbufs
  BY <1>1 DEF Quiet, gone, process, LeakInv, Started
<1>3. QED
  BY <1>2, ReceiveBurst, QuietKeeps

LEMMA GetSendBufferKeeps ==
  ASSUME LeakInv, GetSendBuffer
  PROVE  LeaksKept
<1>1. UNCHANGED lost
  BY DEF GetSendBuffer
<1>2. CASE UNCHANGED <<received, send_mbufs, rx_packet, unread, abandoned, process>>
  <2>1. Quiet /\ abandoned' \subseteq Mbufs
    BY <1>1, <1>2 DEF Quiet, process, LeakInv, Started
  <2>2. QED
    BY <1>2, <2>1, BurstKept, QuietKeeps
<1>3. CASE worker = "running" /\ Throw(rx_packet \cup tx_packets, send_mbufs)
  BY <1>1, <1>3, ThrowKeeps
<1>4. CASE worker = "unwinding" /\ Terminate(tx_packets)
  <2>1. tx_packets \in SUBSET Mbufs
    BY DEF LeakInv, Inv, Types
  <2>2. QED
    BY <1>1, <1>4, <2>1, TerminateKeeps
<1>5. QED
  BY <1>2, <1>3, <1>4 DEF GetSendBuffer

LEMMA SendPacketKeeps ==
  ASSUME LeakInv, NEW x \in Mbufs, SendPacket(x)
  PROVE  LeaksKept
<1>1. CASE UNCHANGED <<pool, received, send_mbufs, rx_packet, gone, process>>
  <2>1. Quiet /\ abandoned' \subseteq Mbufs /\ UNCHANGED received
    BY <1>1 DEF Quiet, gone, process, LeakInv, Started
  <2>2. QED
    BY <2>1, BurstKept, QuietKeeps
<1>2. CASE /\ lost' = lost \cup {x} /\ worker = "running"
           /\ Throw(rx_packet \cup (tx_packets \ {x}), send_mbufs)
  BY <1>2, ThrowKeeps
<1>3. CASE lost' = lost \cup {x} /\ worker = "unwinding" /\ Terminate(tx_packets \ {x})
  <2>1. tx_packets \ {x} \in SUBSET Mbufs
    BY DEF LeakInv, Inv, Types
  <2>2. QED
    BY <1>3, <2>1, TerminateKeeps
<1>4. QED
  BY <1>1, <1>2, <1>3 DEF SendPacket

LEMMA ArpReplyKeeps ==
  ASSUME LeakInv, ArpReply
  PROVE  LeaksKept
<1>1. /\ UNCHANGED lost /\ worker = "running"
      /\ \/ UNCHANGED <<received, packets, unread, abandoned, process>>
         \/ \E queue : Throw(rx_packet, queue)
  BY Zenon DEF ArpReply
<1>2. CASE UNCHANGED <<received, packets, unread, abandoned, process>>
  <2>1. Quiet /\ abandoned' \subseteq Mbufs
    BY <1>1, <1>2 DEF Quiet, process, LeakInv, Started
  <2>2. QED
    BY <1>2, <2>1, BurstKept, QuietKeeps
<1>3. CASE \E queue : Throw(rx_packet, queue)
  BY <1>1, <1>3, ThrowKeeps
<1>4. QED
  BY <1>1, <1>2, <1>3

LEMMA LeakInvariance == Spec => []LeakInv
<1>1. Init => LeakInv
  <2> SUFFICES ASSUME Init
               PROVE  LeakInv
    OBVIOUS
  <2>1. /\ receive_mbufs = <<>> /\ worker = "running" /\ restarts = 0
        /\ lost = {} /\ unread = {} /\ abandoned = {}
    BY DEF Init
  <2>2. Started /\ BurstTaken
    BY <2>1, DeviceAssumption DEF Started, BurstTaken
  <2>3. Cardinality({}) = 0 /\ Ends = 0 /\ Stage = 0
    BY <2>1, FS_EmptySet DEF Ends, Stage
  <2>4. Leaked
    BY <2>1, <2>3, DeviceAssumption DEF Leaked
  <2>5. QED
    BY <2>2, <2>4, InvInit DEF LeakInv
<1>2. LeakInv /\ [Next]_vars => LeakInv'
  <2> SUFFICES ASSUME LeakInv, [Next]_vars
               PROVE  LeakInv'
    OBVIOUS
  <2>1. Inv'
    BY InvNext DEF LeakInv
  <2>2. LeaksKept
    BY PlainKeeps, EndKeeps, ReceiveKeeps, GetSendBufferKeeps, SendPacketKeeps, ArpReplyKeeps, Zenon
    DEF Next
  <2>3. QED
    BY <2>1, <2>2 DEF LeakInv, LeaksKept
<1>3. QED
  BY <1>1, <1>2, PTL DEF Spec

(***************************************************************************)
(* The mbufs that device.h's members and the packets hold are the pool's,  *)
(* and current_recieve_mbuf_idx never passes a burst, which is never       *)
(* longer than kReceiveBurstSize.                                          *)
(***************************************************************************)
THEOREM TypeCorrect == Spec => []TypeOK
<1>1. LeakInv => TypeOK
  <2> SUFFICES ASSUME LeakInv
               PROVE  TypeOK
    OBVIOUS
  <2>1. \A q \in {rx_ring, tx_ring, receive_mbufs, send_mbufs} : Range(q) \subseteq Mbufs
    BY RangeSize DEF LeakInv, Inv, Types
  <2>2. QED
    BY <2>1 DEF LeakInv, Inv, Types, Started, BurstTaken, TypeOK
<1>2. QED
  BY <1>1, LeakInvariance, PTL

(***************************************************************************)
(* What a gateway that is not killed never gives back is bounded by the    *)
(* number of its starts, for every pool and burst size: the rest of one    *)
(* burst, which ~Device does not free, and two mbufs of failed sends.      *)
(***************************************************************************)
THEOREM LeakIsBounded == Spec => []LeakPerStart
<1>1. LeakInv => LeakPerStart
  <2> SUFFICES ASSUME LeakInv
               PROVE  LeakPerStart
    OBVIOUS
  <2>1. PICK k \in Nat : k = kReceiveBurstSize - 1
    BY DeviceAssumption
  <2>2. restarts \in Nat /\ Cardinality(unread) \in Nat /\ Cardinality(lost) \in Nat
    BY LeakSizes, DeviceAssumption DEF LeakInv, Started
  <2>3. restarts * k \in Nat /\ restarts * k <= (restarts + 1) * k /\ (restarts + 1) * k \in Nat
    BY <2>2, AnotherStart
  <2>4. Cardinality(unread) <= (restarts + 1) * k
    BY <2>1, <2>2, <2>3 DEF LeakInv, Leaked, Ends
  <2>5. Cardinality(lost) <= 2 * (restarts + 1)
    BY <2>2 DEF LeakInv, Leaked, Stage
  <2>6. QED
    BY <2>1, <2>4, <2>5 DEF LeakPerStart
<1>2. QED
  BY <1>1, LeakInvariance, PTL
=============================================================================
