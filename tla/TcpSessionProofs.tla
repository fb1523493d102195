-------------------------- MODULE TcpSessionProofs --------------------------
(***************************************************************************)
(* The safety of sessions of tcp::Client over a network that loses,        *)
(* duplicates and reorders segments, and over restarts: for every number   *)
(* of bytes, faults, connections and restarts.                             *)
(*                                                                         *)
(* Nothing here depends on the order of the segments on the two wires:     *)
(* the invariants say what every segment on a wire, whenever it was sent,  *)
(* may still claim.  There are two layers.                                 *)
(*   NumbersInv  the client's numbers: which session a segment belongs to, *)
(*               and that no acknowledgment is ahead of what was sent.     *)
(*   BytesInv    the server's numbers: that ack, and every acknowledgment  *)
(*               on its way, is of bytes that the TLS stream has.          *)
(*                                                                         *)
(* This module has the two invariants, the facts about wires and numbers   *)
(* that they rest on, and that the steps of the server and of the network  *)
(* keep NumbersInv.  The other steps, and the theorems, follow in          *)
(* TcpNumbersProofs and TcpBytesProofs.                                    *)
(***************************************************************************)
EXTENDS TcpSession, TLAPS

Phases == {"listen", "closed", "synrcvd", "estab", "finwait"}

ClientSegments ==
  [flags : {"SYN", "ACK", "PSH_ACK", "RST"}, seq : SeqNumbers, ack : Int, len : Nat]
ServerFlags == {"SYN_ACK", "ACK", "PSH_ACK", "FIN_ACK", "RST"}
ServerSegments ==
  [valid : {TRUE}, flags : ServerFlags,
   seq : Int, ack : SeqNumbers, window : Int, len : Nat,
   options : [kind : {NoScale}, shift : {0}], inc : Nat, first : Nat]

Servers ==
  [phase : Phases, inc : 0 .. MaxConnections, irs : SeqNumbers,
   got : 0 .. ClientBytes, unread : Nat, una : Nat, nxt : Nat]

SessionTypes ==
  /\ state \in States /\ life \in Lives
  /\ {seq, last_ack_number, iss} \subseteq SeqNumbers /\ ack \in Int
  /\ past \subseteq SeqNumbers
  /\ written \in 0 .. ClientBytes
  /\ srv \in Servers
  /\ toClient \in Seq(ServerSegments)
  /\ toServer \in Seq(ClientSegments)
  /\ pushed \in Seq(Nat \X Nat)

\* The initial numbers of all clients so far.
Clients == past \cup {iss}

NumbersApart ==
  /\ iss \notin past
  /\ \A i, j \in Clients : i # j => Numbers(i) \cap Numbers(j) = {}

\* The client that runs has tried to send its SYN.
Started == ~ (state = "Offline" /\ life = "running")

\* Of the 1 + written numbers of the SYN and the bytes, a are acknowledged.
ClientCounts ==
  /\ ~ Started => seq = iss /\ last_ack_number = iss /\ unacknowledged_bytes = 0 /\ written = 0
  /\ Started /\ life = "running" =>
       \E a \in 0 .. 1 + written :
         last_ack_number = SeqPlus(iss, a) /\ unacknowledged_bytes = 1 + written - a
  /\ state = "Connecting" /\ life = "running" => seq = iss /\ written = 0
  /\ state = "Connected" /\ life = "running" => seq = SeqPlus(iss, 1 + written)
  /\ state = "Connected" => \E k \in 0 .. 1 + written : seq = SeqPlus(iss, k)

\* A segment of the client that started at i.  One of the client that runs
\* is not ahead of it, and a reset is its last.
FromClient(q) ==
  \E i \in Clients, k \in 0 .. 1 + ClientBytes :
    /\ q.seq = SeqPlus(i, k)
    /\ k + q.len <= 1 + ClientBytes
    /\ q.flags = "SYN" => k = 0
    /\ i = iss => /\ Started
                  /\ k + q.len <= 1 + written
                  /\ q.flags = "RST" => life = "destroyed"

ServerKnows ==
  Open => /\ srv.irs \in Clients
          /\ srv.irs = iss => Started /\ srv.got <= written

\* A segment of the server acknowledges the SYN and g bytes of a client; as
\* long as the one that runs has not reset the connection, it has only one.
Acknowledges(p) ==
  \E i \in Clients, g \in 0 .. ClientBytes :
    /\ p.ack = SeqPlus(i, 1 + g)
    /\ i = iss => /\ Started
                  /\ g <= written
                  /\ life # "destroyed" => Ours /\ p.inc = srv.inc

NumbersInv ==
  /\ SessionTypes
  /\ NumbersApart
  /\ ClientCounts
  /\ \A q \in Range(toServer) : FromClient(q)
  /\ ServerKnows
  /\ \A p \in Range(toClient) : p.flags # "RST" => Acknowledges(p)
  /\ HonestAcksFit

\* The server's numbers do not reach 0, the value that process_packet takes
\* for "not known yet" (run TcpSessionSentinel shows what happens if they do).
NumbersStayPositive ==
  0 < ServerISS /\ ServerISS + MaxConnections * Stride <= Modulus

ServerCounts ==
  /\ Open => srv.inc >= 1
  /\ srv.phase = "synrcvd" => srv.una = 0 /\ srv.nxt = 1
  /\ srv.phase = "estab" =>
       1 <= srv.una /\ srv.una <= srv.nxt /\ srv.nxt <= ServerBytes + 1
  /\ srv.phase = "finwait" =>
       1 <= srv.una /\ srv.una <= srv.nxt /\ 2 <= srv.nxt /\ srv.nxt <= ServerBytes + 2

SentByServer(p) ==
  /\ p.inc \in 1 .. srv.inc
  /\ p.first <= ServerBytes + 2
  /\ p.seq = NumberOf(p.inc, p.first)
  /\ p.flags = "SYN_ACK" => p.first = 0 /\ p.len = 0
  /\ p.len > 0 => /\ p.first >= 1
                  /\ p.first + p.len <= ServerBytes + 1
                  /\ p.inc = srv.inc /\ Open => p.first + p.len <= DataEnd

\* The bytes before i of the server's connection are in the TLS stream, or in
\* the payload it had no space for.
Delivered(i) == \A k \in 1 .. i - 1 : <<srv.inc, k>> \in Taken

AckedByClient(q) ==
  \E c \in 1 .. srv.inc, i \in 1 .. ServerBytes + 1 :
    /\ q.ack = NumberOf(c, i)
    /\ Ours /\ c = srv.inc => state # "Connecting" /\ Delivered(i)

ClientKnows ==
  /\ state # "Connected" /\ life = "running" => ack = 0
  /\ state = "Connected" /\ life = "running" =>
       Ours /\ \E i \in 1 .. DataEnd : ack = NumberOf(srv.inc, i) /\ Delivered(i)
  /\ ~ Started \/ state = "Connecting" => pushed = <<>>
  /\ Ours /\ state = "Connecting" => srv.phase = "synrcvd"

BytesInv ==
  /\ ServerCounts
  /\ \A p \in Range(toClient) : p.flags # "RST" => SentByServer(p)
  /\ \A q \in Range(toServer) : q.flags \notin {"SYN", "RST"} => AckedByClient(q)
  /\ ClientKnows
  /\ \A i \in DOMAIN pushed : pushed[i][1] \in 1 .. srv.inc
  /\ NoByteSkipped
  /\ AckedBytesWereDelivered

-----------------------------------------------------------------------------
(* The wires.  A wire is looked at as the set of its segments. *)

LEMMA InWire ==
  ASSUME NEW S, NEW q \in Seq(S), NEW x \in Range(q)
  PROVE  x \in S
BY DEF Range

\* A received segment was on the wire, and the others stay there.
LEMMA WireTaken ==
  ASSUME NEW S, NEW q \in Seq(S), q # <<>>
  PROVE  /\ Head(q) \in S /\ Head(q) \in Range(q)
         /\ Tail(q) \in Seq(S) /\ Range(Tail(q)) \subseteq Range(q)
BY DEF Range

\* Sending adds a segment.
LEMMA WireAdded ==
  ASSUME NEW S, NEW q \in Seq(S), NEW x \in S
  PROVE  Append(q, x) \in Seq(S) /\ Range(Append(q, x)) = Range(q) \cup {x}
<1>1. Append(q, x) \in Seq(S) /\ Len(Append(q, x)) = Len(q) + 1
  OBVIOUS
<1>2. /\ \A i \in 1 .. Len(q) : Append(q, x)[i] = q[i]
      /\ Append(q, x)[Len(q) + 1] = x
  OBVIOUS
<1>3. 1 .. Len(q) + 1 = (1 .. Len(q)) \cup {Len(q) + 1}
  OBVIOUS
<1>4. QED
  BY <1>1, <1>2, <1>3 DEF Range

LEMMA WireGrows ==
  ASSUME NEW S, NEW q \in Seq(S), NEW x \in S, NEW r, r = q \/ r = Append(q, x)
  PROVE  r \in Seq(S) /\ Range(r) \subseteq Range(q) \cup {x}
<1>1. CASE r = q
  BY <1>1
<1>2. CASE r = Append(q, x)
  BY <1>2, WireAdded
<1>3. QED
  BY <1>1, <1>2

LEMMA WireJoined ==
  ASSUME NEW S, NEW q \in Seq(S), NEW r \in Seq(S)
  PROVE  q \o r \in Seq(S) /\ Range(q \o r) = Range(q) \cup Range(r)
<1>1. q \o r \in Seq(S) /\ Len(q \o r) = Len(q) + Len(r)
  OBVIOUS
<1>2. \A i \in 1 .. Len(q) : (q \o r)[i] = q[i]
  OBVIOUS
<1>3. \A i \in 1 .. Len(r) : (q \o r)[Len(q) + i] = r[i]
  OBVIOUS
<1>4. \A i \in 1 .. Len(q \o r) : i \in 1 .. Len(q) \/ i - Len(q) \in 1 .. Len(r)
  BY <1>1
<1>5. Range(q \o r) \subseteq Range(q) \cup Range(r)
  <2>1. SUFFICES ASSUME NEW i \in 1 .. Len(q \o r)
                 PROVE  (q \o r)[i] \in Range(q) \cup Range(r)
    BY <1>1 DEF Range
  <2>2. CASE i \in 1 .. Len(q)
    BY <2>2, <1>2 DEF Range
  <2>3. CASE i - Len(q) \in 1 .. Len(r)
    <3>1. (q \o r)[i] = r[i - Len(q)]
      BY <2>3, <1>3
    <3>2. QED
      BY <3>1, <2>3 DEF Range
  <2>4. QED
    BY <2>2, <2>3, <1>4
<1>6. Range(q) \subseteq Range(q \o r)
  BY <1>1, <1>2 DEF Range
<1>7. Range(r) \subseteq Range(q \o r)
  <2>1. \A i \in 1 .. Len(r) : Len(q) + i \in 1 .. Len(q \o r)
    BY <1>1
  <2>2. \A i \in 1 .. Len(r) : (q \o r)[Len(q) + i] \in Range(q \o r)
    BY <2>1, <1>1 DEF Range
  <2>3. \A i \in 1 .. Len(r) : r[i] \in Range(q \o r)
    BY <2>2, <1>3
  <2>4. QED
    BY <2>3 DEF Range
<1>8. QED
  BY <1>1, <1>5, <1>6, <1>7

\* A part of a wire: what a lost segment, or a NIC that was emptied, leaves.
LEMMA WirePart ==
  ASSUME NEW S, NEW q \in Seq(S), NEW m \in Nat \ {0}, NEW n \in Nat, n <= Len(q)
  PROVE  SubSeq(q, m, n) \in Seq(S) /\ Range(SubSeq(q, m, n)) \subseteq Range(q)
<1> DEFINE r == SubSeq(q, m, n)
<1>1. r \in Seq(S) /\ \A i \in 1 .. Len(r) : m + i - 1 \in 1 .. Len(q) /\ r[i] = q[m + i - 1]
  OBVIOUS
<1>2. DOMAIN r = 1 .. Len(r)
  BY <1>1
<1> HIDE DEF r
<1>3. r \in Seq(S) /\ Range(r) \subseteq Range(q)
  BY <1>1, <1>2 DEF Range
<1>4. QED
  BY <1>3 DEF r

\* Whatever the network does to a wire, no segment appears that was not there.
LEMMA WireDisturbed ==
  ASSUME NEW S, NEW q \in Seq(S), NEW r \in Disturbed(q)
  PROVE  r \in Seq(S) /\ Range(r) \subseteq Range(q)
<1>1. \A i \in 1 .. Len(q) : Without(q, i) \in Seq(S) /\ Range(Without(q, i)) \subseteq Range(q)
  <2>1. TAKE i \in 1 .. Len(q)
  <2>2. /\ SubSeq(q, 1, i - 1) \in Seq(S) /\ Range(SubSeq(q, 1, i - 1)) \subseteq Range(q)
        /\ SubSeq(q, i + 1, Len(q)) \in Seq(S) /\ Range(SubSeq(q, i + 1, Len(q))) \subseteq Range(q)
    <3>1. i - 1 \in Nat /\ i - 1 <= Len(q) /\ i + 1 \in Nat \ {0} /\ Len(q) \in Nat
      OBVIOUS
    <3>2. QED
      BY <3>1, WirePart
  <2>3. Without(q, i) = SubSeq(q, 1, i - 1) \o SubSeq(q, i + 1, Len(q))
    BY DEF Without
  <2> DEFINE a == SubSeq(q, 1, i - 1)
             b == SubSeq(q, i + 1, Len(q))
  <2>4. a \o b \in Seq(S) /\ Range(a \o b) = Range(a) \cup Range(b)
    <3>1. a \in Seq(S) /\ b \in Seq(S)
      BY <2>2
    <3> HIDE DEF a, b
    <3>2. QED
      BY <3>1, WireJoined
  <2>5. QED
    BY <2>2, <2>3, <2>4
<1>2. \A i \in 1 .. Len(q) : q[i] \in S /\ q[i] \in Range(q)
  BY DEF Range
<1>3. CASE r \in Lossy(q)
  BY <1>1, <1>3 DEF Lossy
<1>4. CASE r \in Duplicating(q)
  <2>1. PICK i \in 1 .. Len(q) : r = Append(q, q[i])
    BY <1>4 DEF Duplicating
  <2>2. QED
    BY <1>2, <2>1, WireAdded
<1>5. CASE r \in Overtaking(q)
  <2>1. PICK i \in 1 .. Len(q) : r = Append(Without(q, i), q[i])
    BY <1>5 DEF Overtaking
  <2>2. QED
    BY <1>1, <1>2, <2>1, WireAdded
<1>6. QED
  BY <1>3, <1>4, <1>5 DEF Disturbed

-----------------------------------------------------------------------------
(* The numbers of the clients. *)

\* The numbers of a session are in the sequence space, and counting on stays
\* in the session.
LEMMA NumbersCount ==
  ASSUME NEW i \in SeqNumbers, NEW k \in Nat, NEW n \in Nat, k + n <= 1 + ClientBytes
  PROVE  /\ SeqPlus(i, k) \in SeqNumbers
         /\ SeqPlus(i, 0) = i
         /\ SeqPlus(SeqPlus(i, k), n) = SeqPlus(i, k + n)
         /\ SeqMinus(SeqPlus(i, k + n), SeqPlus(i, k)) = n
BY HalfAssumption, SessionAssumption DEF SeqPlus, SeqMinus, Wrap, SeqNumbers, Modulus

\* Within a session the comparison of sequence numbers is that of the counts.
LEMMA NumbersOrdered ==
  ASSUME NEW i \in SeqNumbers, NEW a \in 0 .. 1 + ClientBytes, NEW b \in 0 .. 1 + ClientBytes,
         SeqLeq(SeqPlus(i, a), SeqPlus(i, b))
  PROVE  a <= b
BY HalfAssumption, SessionAssumption
DEF SeqLeq, SeqGreater, SeqLess, SeqPlus, SeqMinus, Wrap, SeqNumbers, Modulus

\* A number belongs to one session, and to one place in it.
LEMMA OneSession ==
  ASSUME SessionTypes, NumbersApart,
         NEW i \in Clients, NEW j \in Clients,
         NEW k \in 0 .. 1 + ClientBytes, NEW m \in 0 .. 1 + ClientBytes,
         SeqPlus(i, k) = SeqPlus(j, m)
  PROVE  i = j /\ k = m
<1>1. i = j
  <2>1. SeqPlus(i, k) \in Numbers(i) /\ SeqPlus(j, m) \in Numbers(j)
    BY SessionAssumption DEF Numbers
  <2>2. QED
    BY <2>1 DEF NumbersApart
<1>2. i \in SeqNumbers
  BY DEF SessionTypes, Clients
<1>3. k = m
  BY <1>1, <1>2, HalfAssumption, SessionAssumption
  DEF SeqPlus, Wrap, SeqNumbers, Modulus
<1>4. QED
  BY <1>1, <1>3

\* An acknowledgment that process_packet accepts is of the connection with
\* the client that runs, and of a number that it has sent.
LEMMA AcceptedAck ==
  ASSUME NumbersInv, Started, life = "running",
         NEW p \in Range(toClient), p.flags # "RST", AckOk(p)
  PROVE  /\ Ours /\ p.inc = srv.inc
         /\ \E b \in 1 .. 1 + written :
              /\ p.ack = SeqPlus(iss, b)
              /\ unacknowledged_bytes - BytesAcked(p) = 1 + written - b
<1> USE SessionAssumption
<1>1. PICK a \in 0 .. 1 + written :
        last_ack_number = SeqPlus(iss, a) /\ unacknowledged_bytes = 1 + written - a
  BY DEF NumbersInv, ClientCounts
<1>2. PICK i \in Clients, g \in 0 .. ClientBytes :
        /\ p.ack = SeqPlus(i, 1 + g)
        /\ i = iss => /\ Started
                      /\ g <= written
                      /\ life # "destroyed" => Ours /\ p.inc = srv.inc
  BY DEF NumbersInv, Acknowledges
<1> DEFINE n == BytesAcked(p)
<1>3. iss \in SeqNumbers /\ last_ack_number \in SeqNumbers /\ written \in 0 .. ClientBytes
      /\ i \in SeqNumbers
  BY DEF NumbersInv, SessionTypes, Clients
<1>4. p.ack \in SeqNumbers
  BY <1>2, <1>3, NumbersCount
<1>5. n \in Nat /\ n <= 1 + written - a /\ p.ack = SeqPlus(last_ack_number, n)
  BY <1>1, <1>3, <1>4, HalfAssumption
  DEF AckOk, BytesAcked, SeqMinus, SeqPlus, Wrap, SeqNumbers, Modulus
<1>6. p.ack = SeqPlus(iss, a + n) /\ a + n \in 0 .. 1 + ClientBytes
  <2>1. a \in Nat /\ n \in Nat /\ a + n <= 1 + ClientBytes
    BY <1>3, <1>5
  <2> HIDE DEF n
  <2>2. SeqPlus(SeqPlus(iss, a), n) = SeqPlus(iss, a + n)
    BY <1>3, <2>1, NumbersCount
  <2>3. a + n \in 0 .. 1 + ClientBytes
    BY <2>1
  <2>4. QED
    BY <1>1, <1>5, <2>2, <2>3, Zenon
<1>7. i = iss /\ 1 + g = a + n
  BY <1>2, <1>3, <1>6, OneSession DEF NumbersInv, Clients
<1>8. a + n \in 1 .. 1 + written /\ unacknowledged_bytes - n = 1 + written - (a + n)
  BY <1>1, <1>2, <1>3, <1>5, <1>7
<1>9. QED
  BY <1>2, <1>6, <1>7, <1>8, Zenon

\* Before a restart every acknowledgment is of the client's own numbers.
LEMMA HonestAck ==
  ASSUME NumbersInv, Started, life = "running", past = {},
         NEW p \in Range(toClient), p.flags # "RST", SeqLeq(last_ack_number, p.ack)
  PROVE  BytesAcked(p) <= unacknowledged_bytes
<1> USE SessionAssumption
<1>1. PICK a \in 0 .. 1 + written :
        last_ack_number = SeqPlus(iss, a) /\ unacknowledged_bytes = 1 + written - a
  BY Zenon DEF NumbersInv, ClientCounts
<1>2. PICK g \in 0 .. ClientBytes : p.ack = SeqPlus(iss, 1 + g) /\ g <= written
  BY Zenon DEF NumbersInv, Acknowledges, Clients
<1>3. iss \in SeqNumbers /\ written \in 0 .. ClientBytes
  BY Zenon DEF NumbersInv, SessionTypes
<1>4. a <= 1 + g
  BY <1>1, <1>2, <1>3, NumbersOrdered
<1>5. BytesAcked(p) = 1 + g - a
  <2> DEFINE n == 1 + g - a
  <2>1. n \in Nat /\ a + n = 1 + g /\ a + n <= 1 + ClientBytes
    BY <1>3, <1>4
  <2>2. QED
    BY <1>1, <1>2, <1>3, <2>1, NumbersCount DEF BytesAcked
<1>6. QED
  BY <1>1, <1>2, <1>3, <1>5

-----------------------------------------------------------------------------
(* NumbersInv is inductive. *)

LEMMA NumbersInit == SessionInit => NumbersInv
<1> SUFFICES ASSUME SessionInit PROVE NumbersInv
  OBVIOUS
<1> USE SessionAssumption, WindowAssumption, HalfAssumption
<1>1. SessionTypes
  BY DEF SessionInit, Init, SessionTypes, States, Lives, Phases, SeqNumbers, Modulus, Servers
<1>2. NumbersApart
  BY Zenon DEF SessionInit, NumbersApart, Clients
<1>3. ClientCounts
  BY Zenon DEF SessionInit, Init, ClientCounts, Started
<1>4. ServerKnows
  BY Zenon DEF SessionInit, ServerKnows, Open
<1>5. Range(toServer) = {} /\ Range(toClient) = {}
  BY DEF SessionInit, Range
<1>6. HonestAcksFit
  BY Zenon DEF SessionInit, Init, HonestAcksFit
<1>7. QED
  BY <1>1, <1>2, <1>3, <1>4, <1>5, <1>6, Zenon DEF NumbersInv

\* Every step but a restart: the session goes on.
SessionGoesOn ==
  /\ UNCHANGED <<iss, past>>
  /\ written <= written'
  /\ Started => Started'
  /\ life = "destroyed" => life' = "destroyed"

LEMMA FromClientKept ==
  ASSUME SessionTypes, SessionTypes', SessionGoesOn, NEW q \in ClientSegments, FromClient(q)
  PROVE  FromClient(q)'
<1>1. PICK i \in Clients, k \in 0 .. 1 + ClientBytes :
        /\ q.seq = SeqPlus(i, k)
        /\ k + q.len <= 1 + ClientBytes
        /\ q.flags = "SYN" => k = 0
        /\ i = iss => /\ Started
                      /\ k + q.len <= 1 + written
                      /\ q.flags = "RST" => life = "destroyed"
  BY Zenon DEF FromClient
<1>2. k \in Nat /\ q.len \in Nat /\ written \in Nat /\ written' \in Nat /\ written <= written'
  BY SessionAssumption DEF SessionTypes, ClientSegments, SessionGoesOn
<1>3. Clients' = Clients /\ iss' = iss
  BY DEF SessionGoesOn, Clients
<1>4. i = iss => Started' /\ k + q.len <= 1 + written' /\ (q.flags = "RST" => life' = "destroyed")
  BY <1>1, <1>2 DEF SessionGoesOn
<1>5. QED
  BY <1>1, <1>3, <1>4 DEF FromClient

\* As long as the client has not ended, the server keeps its connection.
ConnectionKept == Ours /\ life' # "destroyed" => Ours' /\ srv'.inc = srv.inc

LEMMA AcknowledgesKept ==
  ASSUME SessionTypes, SessionTypes', SessionGoesOn, ConnectionKept, NEW p, Acknowledges(p)
  PROVE  Acknowledges(p)'
<1>1. PICK i \in Clients, g \in 0 .. ClientBytes :
        /\ p.ack = SeqPlus(i, 1 + g)
        /\ i = iss => /\ Started
                      /\ g <= written
                      /\ life # "destroyed" => Ours /\ p.inc = srv.inc
  BY Zenon DEF Acknowledges
<1>2. g \in Nat /\ written \in Nat /\ written' \in Nat /\ written <= written'
  BY SessionAssumption DEF SessionTypes, SessionGoesOn
<1>3. Clients' = Clients /\ iss' = iss
  BY Zenon DEF SessionGoesOn, Clients
<1>4. i = iss => Started' /\ g <= written' /\ (life' # "destroyed" => Ours' /\ p.inc = srv'.inc)
  BY <1>1, <1>2 DEF SessionGoesOn, ConnectionKept
<1>5. QED
  BY <1>1, <1>3, <1>4 DEF Acknowledges

LEMMA NumbersApartKept ==
  ASSUME NumbersApart, UNCHANGED <<iss, past>>
  PROVE  NumbersApart'
BY Zenon DEF NumbersApart, Clients, Numbers

(***************************************************************************)
(* A step of the client: the server's state is as it was, and what is new  *)
(* on the wire was sent in this step.                                      *)
(***************************************************************************)
LEMMA ClientStep ==
  ASSUME NumbersInv, SessionGoesOn, UNCHANGED srv,
         SessionTypes', ClientCounts', HonestAcksFit',
         Range(toClient') \subseteq Range(toClient),
         Range(toServer') \subseteq Range(toServer) \cup Range(sent'),
         \A q \in Range(sent') : FromClient(q)'
  PROVE  NumbersInv'
<1>1. SessionTypes
  BY DEF NumbersInv
<1>2. NumbersApart'
  BY NumbersApartKept DEF NumbersInv, SessionGoesOn
<1>3. ASSUME NEW q \in Range(toServer') PROVE FromClient(q)'
  <2>1. CASE q \in Range(toServer)
    <3>1. q \in ClientSegments
      BY <1>1, <2>1, InWire, Zenon DEF SessionTypes
    <3>2. QED
      BY <1>1, <2>1, <3>1, FromClientKept, Zenon DEF NumbersInv
  <2>2. QED
    BY <1>3, <2>1, Zenon
<1>4. Open' = Open /\ Ours' = Ours
  BY DEF Open, Ours, SessionGoesOn
<1>5. ServerKnows'
  <2>1. written \in Nat /\ written' \in Nat /\ srv.got \in Nat
    BY <1>1, SessionAssumption DEF SessionTypes, Servers
  <2>2. QED
    BY <1>4, <2>1 DEF NumbersInv, ServerKnows, Clients, SessionGoesOn
<1>6. ASSUME NEW p \in Range(toClient'), p.flags # "RST" PROVE Acknowledges(p)'
  <2>1. ConnectionKept
    BY <1>4, Zenon DEF ConnectionKept
  <2>2. QED
    BY <1>1, <1>6, <2>1, AcknowledgesKept DEF NumbersInv
<1>7. QED
  BY <1>2, <1>3, <1>5, <1>6, Zenon DEF NumbersInv, Range

(***************************************************************************)
(* A step of the server or of the network: the client is as it was, and    *)
(* what the server sends is a reset, or acknowledges what it has received. *)
(***************************************************************************)
LEMMA ServerStep ==
  ASSUME NumbersInv, UNCHANGED <<vars, iss, past, written>>,
         SessionTypes', ServerKnows', ConnectionKept,
         Range(toServer') \subseteq Range(toServer),
         \A p \in Range(toClient') :
           \/ p \in Range(toClient)
           \/ p.flags = "RST"
           \/ Open' /\ p.ack = Rcv(srv') /\ p.inc = srv'.inc
  PROVE  NumbersInv'
<1>1. SessionTypes
  BY Zenon DEF NumbersInv
<1>2. SessionGoesOn
  BY <1>1, SessionAssumption DEF SessionGoesOn, Started, vars, conn, SessionTypes
<1>3. NumbersApart' /\ ClientCounts' /\ HonestAcksFit'
  <2>1. NumbersApart'
    BY NumbersApartKept, Zenon DEF NumbersInv
  <2>2. ClientCounts'
    BY DEF NumbersInv, ClientCounts, Started, vars, conn
  <2>3. HonestAcksFit'
    BY Zenon DEF NumbersInv, HonestAcksFit, vars
  <2>4. QED
    BY <2>1, <2>2, <2>3
<1>4. ASSUME NEW q \in Range(toServer') PROVE FromClient(q)'
  <2>0. q \in Range(toServer)
    BY Zenon
  <2>1. q \in ClientSegments
    BY <1>1, <2>0, InWire, Zenon DEF SessionTypes
  <2>2. QED
    BY <1>1, <1>2, <2>0, <2>1, FromClientKept, Zenon DEF NumbersInv
<1>5. ASSUME NEW p \in Range(toClient'), p.flags # "RST" PROVE Acknowledges(p)'
  <2>1. CASE p \in Range(toClient)
    BY <1>1, <1>2, <1>5, <2>1, AcknowledgesKept, Zenon DEF NumbersInv
  <2>2. CASE Open' /\ p.ack = Rcv(srv') /\ p.inc = srv'.inc
    <3>1. srv'.irs \in Clients' /\ srv'.got \in 0 .. ClientBytes
      BY <2>2, SessionAssumption, Zenon DEF ServerKnows, SessionTypes, Servers
    <3>2. srv'.irs = iss' => Started' /\ srv'.got <= written' /\ Ours'
      BY <2>2, Zenon DEF ServerKnows, Ours
    <3>3. QED
      BY <2>2, <3>1, <3>2, Zenon DEF Acknowledges, Rcv
  <2>3. QED
    BY <1>5, <2>1, <2>2, Zenon
<1>6. QED
  BY <1>3, <1>4, <1>5, Zenon DEF NumbersInv, Range

\* What the server sends, in a state s.
ServerTyped(s) ==
  s.irs \in SeqNumbers /\ s.got \in 0 .. ClientBytes /\ s.unread \in Nat /\ s.inc \in Nat

LEMMA FromServerFields ==
  ASSUME NEW s, ServerTyped(s), NEW flags \in ServerFlags, NEW i \in Nat, NEW len \in Nat,
         NEW p, p = FromServer(s, flags, i, len)
  PROVE  /\ p \in ServerSegments
         /\ p.flags = flags /\ p.ack = Rcv(s) /\ p.inc = s.inc
         /\ p.first = i /\ p.len = len /\ p.seq = NumberOf(s.inc, i)
<1> USE DEF ServerTyped
<1>1. Rcv(s) \in SeqNumbers
  <2>1. 1 + s.got \in Nat /\ 1 + s.got + 0 <= 1 + ClientBytes
    BY SessionAssumption
  <2>2. QED
    BY <2>1, NumbersCount, Zenon DEF Rcv
<1>2. NumberOf(s.inc, i) \in Int
  <2>1. (s.inc - 1) * Stride \in Int /\ ServerISS \in Int /\ Modulus \in Int
    BY SessionAssumption, HalfAssumption DEF Stride, SeqNumbers, Modulus
  <2>2. QED
    BY <2>1 DEF NumberOf, SeqPlus, Wrap, Modulus
<1>3. ServerWindow - s.unread \in Int
  <2>1. ServerWindow \in Nat /\ s.unread \in Nat
    BY SessionAssumption, WindowAssumption, Zenon
  <2>2. QED
    BY <2>1
<1>4. QED
  BY <1>1, <1>2, <1>3, Zenon DEF FromServer, ServerSegments

LEMMA SrvFields ==
  ASSUME SessionTypes
  PROVE  /\ ServerTyped(srv)
         /\ srv.irs \in SeqNumbers /\ srv.got \in 0 .. ClientBytes /\ srv.got \in Nat
         /\ srv.unread \in Nat /\ srv.inc \in Nat /\ srv.inc \in 0 .. MaxConnections
         /\ srv.una \in Nat /\ srv.nxt \in Nat /\ srv.phase \in Phases
BY SessionAssumption DEF SessionTypes, Servers, ServerTyped

LEMMA ListenNumbers ==
  ASSUME NumbersInv, ServerListen
  PROVE  NumbersInv'
<1> USE SessionAssumption, HalfAssumption
<1> DEFINE q == Head(toServer)
<1>1. SessionTypes
  BY Zenon DEF NumbersInv
<1>2. /\ q \in ClientSegments /\ q \in Range(toServer)
      /\ toServer' \in Seq(ClientSegments) /\ Range(toServer') \subseteq Range(toServer)
  BY <1>1, WireTaken, Zenon DEF SessionTypes, ServerListen
<1>3. FromClient(q)
  BY <1>2, Zenon DEF NumbersInv
<1>4. UNCHANGED <<vars, iss, past, written, pushed, refused>> /\ ~ Open
  BY Zenon DEF ServerListen, counters, Open
<1>5. ConnectionKept
  BY <1>4, Zenon DEF ConnectionKept, Ours
<1>6. CASE q.flags = "SYN" /\ srv.inc < MaxConnections /\ srv' # srv
  <2> DEFINE s == [phase |-> "synrcvd", inc |-> srv.inc + 1, irs |-> q.seq, got |-> 0,
                   unread |-> 0, una |-> 0, nxt |-> 1]
             p == FromServer(s, "SYN_ACK", 0, 0)
  <2>1. srv' = s /\ toClient' = Append(toClient, p)
    BY <1>6, Zenon DEF ServerListen
  <2>2. q.seq \in Clients /\ q.seq \in SeqNumbers /\ (q.seq = iss => Started)
    <3>1. PICK i \in Clients : q.seq = SeqPlus(i, 0) /\ (i = iss => Started)
      BY <1>3, <1>6, Zenon DEF FromClient
    <3>0. 0 \in Nat /\ 0 + 0 <= 1 + ClientBytes
      OBVIOUS
    <3>2. i \in SeqNumbers /\ SeqPlus(i, 0) = i
      BY <1>1, <3>0, NumbersCount, Zenon DEF SessionTypes, Clients
    <3>3. QED
      BY <3>1, <3>2, Zenon
  <2>3. srv.inc \in Nat /\ srv.inc + 1 \in 0 .. MaxConnections
    BY <1>1, <1>6, SrvFields
  <2>4. ServerTyped(s) /\ "SYN_ACK" \in ServerFlags
    BY <2>2, <2>3 DEF ServerTyped, ServerFlags
  <2>5. p \in ServerSegments /\ p.ack = Rcv(s) /\ p.inc = s.inc
    BY <2>4, FromServerFields
  <2>6. toClient' \in Seq(ServerSegments) /\ Range(toClient') = Range(toClient) \cup {p}
    <3> HIDE DEF p
    <3>1. QED
      BY <1>1, <2>1, <2>5, WireAdded DEF SessionTypes
  <2>7. SessionTypes'
    <3>1. srv' \in Servers
      BY <2>1, <2>2, <2>3 DEF Phases, Servers
    <3>2. QED
      BY <1>1, <1>2, <1>4, <2>6, <3>1, Zenon DEF SessionTypes, vars, conn
  <2>8. ServerKnows' /\ Open'
    <3>1. written \in Nat
      BY <1>1 DEF SessionTypes
    <3>2. QED
      BY <1>4, <2>1, <2>2, <3>1 DEF ServerKnows, Open, Clients, Started, vars, conn
  <2>9. QED
    BY <1>2, <1>4, <1>5, <2>1, <2>5, <2>6, <2>7, <2>8, ServerStep, Zenon
<1>7. CASE srv' = srv
  <2> DEFINE p == FromServer(srv, "RST", srv.nxt, 0)
  <2>1. p \in ServerSegments /\ p.flags = "RST"
    <3>1. "RST" \in ServerFlags
      BY Zenon DEF ServerFlags
    <3>2. QED
      BY <1>1, <3>1, SrvFields, FromServerFields
  <2>2. toClient' = toClient \/ toClient' = Append(toClient, p)
    <3>1. srv.inc # srv.inc + 1
      BY <1>1, SrvFields
    <3>2. QED
      BY <1>7, <3>1 DEF ServerListen
  <2>3. toClient' \in Seq(ServerSegments) /\ Range(toClient') \subseteq Range(toClient) \cup {p}
    <3> HIDE DEF p
    <3>1. QED
      BY <1>1, <2>1, <2>2, WireGrows, Zenon DEF SessionTypes
  <2>4. SessionTypes'
    BY <1>1, <1>2, <1>4, <1>7, <2>3, Zenon DEF SessionTypes, vars, conn
  <2>5. ServerKnows'
    BY <1>4, <1>7, Zenon DEF ServerKnows, Open
  <2>6. QED
    BY <1>2, <1>4, <1>5, <2>1, <2>3, <2>4, <2>5, ServerStep, Zenon
<1>8. QED
  BY <1>6, <1>7 DEF ServerListen

\* What a segment in order is, and how far ServerReceive moves the count.
LEMMA InOrder ==
  ASSUME NumbersInv, Open, NEW q \in Range(toServer), q.seq = Rcv(srv)
  PROVE  /\ srv.got + q.len <= ClientBytes
         /\ srv.irs = iss => srv.got + q.len <= written
         /\ srv.irs = iss /\ q.flags = "RST" => life = "destroyed"
<1> USE SessionAssumption
<1>1. SessionTypes /\ NumbersApart /\ FromClient(q) /\ srv.irs \in Clients
  BY Zenon DEF NumbersInv, ServerKnows
<1>2. PICK i \in Clients, k \in 0 .. 1 + ClientBytes :
        /\ q.seq = SeqPlus(i, k)
        /\ k + q.len <= 1 + ClientBytes
        /\ i = iss => /\ k + q.len <= 1 + written
                      /\ q.flags = "RST" => life = "destroyed"
  BY <1>1, Zenon DEF FromClient
<1>3. srv.got \in 0 .. ClientBytes /\ q.len \in Nat /\ written \in Nat
  <2>1. q \in ClientSegments
    BY <1>1, InWire, Zenon DEF SessionTypes
  <2>2. q.len \in Nat
    BY <2>1, Zenon DEF ClientSegments
  <2>3. srv.got \in 0 .. ClientBytes
    BY <1>1, SrvFields, Zenon
  <2>4. written \in 0 .. ClientBytes
    BY <1>1, Zenon DEF SessionTypes
  <2>5. QED
    BY <2>2, <2>3, <2>4
<1>4. i = srv.irs /\ k = 1 + srv.got
  <2>1. SeqPlus(i, k) = SeqPlus(srv.irs, 1 + srv.got)
    BY <1>2, Zenon DEF Rcv
  <2>2. 1 + srv.got \in 0 .. 1 + ClientBytes
    BY <1>3
  <2>3. QED
    BY <1>1, <2>1, <2>2, OneSession
<1>5. QED
  BY <1>2, <1>3, <1>4

\* What a received segment changes: got, una and the phase.  Nothing is
\* accepted beyond what the client sent, and a reset is the client's last.
LEMMA ReceiveEffect ==
  ASSUME NumbersInv, ServerReceive
  PROVE  /\ Head(toServer) \in Range(toServer) /\ Head(toServer) \in ClientSegments
         /\ toServer' \in Seq(ClientSegments) /\ Range(toServer') \subseteq Range(toServer)
         /\ SessionTypes' /\ ServerKnows' /\ ConnectionKept
         /\ UNCHANGED <<vars, iss, past, written, pushed, refused>>
         /\ srv'.irs = srv.irs /\ srv'.inc = srv.inc /\ srv'.nxt = srv.nxt
         /\ \/ srv'.una = srv.una
            \/ /\ Head(toServer).flags \notin {"SYN", "RST"}
               /\ srv'.una \in AckedUpTo(Head(toServer).ack)
         /\ srv'.phase \in {srv.phase, "closed"} \/ srv'.phase = "estab"
         /\ srv'.phase = "estab" /\ srv.phase # "estab" => srv.phase = "synrcvd" /\ srv'.una > 0
         /\ srv'.phase = "synrcvd" => srv'.una <= 0
         /\ \/ toClient' = toClient
            \/ Open' /\ toClient' = Append(toClient, FromServer(srv', "ACK", srv'.nxt, 0))
<1> USE SessionAssumption
<1> DEFINE q == Head(toServer)
           up == IF q.flags \in {"SYN", "RST"} THEN {} ELSE AckedUpTo(q.ack)
           una == IF up = {} THEN srv.una ELSE CHOOSE i \in up : TRUE
           inOrder == q.seq = Rcv(srv) /\ q.len <= ServerWindow - srv.unread
           len == IF inOrder THEN q.len ELSE 0
           phase == IF q.flags = "RST" /\ inOrder THEN "closed"
                    ELSE IF srv.phase = "synrcvd" /\ una > 0 THEN "estab" ELSE srv.phase
           got == srv.got + len
           unread == srv.unread + IF ServerBuffers THEN len ELSE 0
           s == [srv EXCEPT !.phase = phase, !.una = una, !.got = got, !.unread = unread]
<1>1. SessionTypes /\ Open
  BY Zenon DEF NumbersInv, ServerReceive
<1>2. /\ q \in ClientSegments /\ q \in Range(toServer)
      /\ toServer' \in Seq(ClientSegments) /\ Range(toServer') \subseteq Range(toServer)
  BY <1>1, WireTaken, Zenon DEF SessionTypes, ServerReceive
<1>3. UNCHANGED <<vars, iss, past, written, pushed, refused>>
  BY Zenon DEF ServerReceive, counters
<1>4. /\ srv' = s
      /\ toClient' = IF (q.len > 0 \/ ~ inOrder) /\ q.flags # "RST"
                     THEN Append(toClient, FromServer(srv', "ACK", srv'.nxt, 0))
                     ELSE toClient
  BY DEF ServerReceive
<1>5. q.len \in Nat /\ len \in Nat /\ len <= q.len
  <2>1. q.len \in Nat
    BY <1>2, Zenon DEF ClientSegments
  <2> HIDE DEF inOrder
  <2>2. QED
    BY <2>1
<1>6. una = srv.una \/ (q.flags \notin {"SYN", "RST"} /\ una \in AckedUpTo(q.ack))
  BY Zenon
<1>7. una \in Nat
  BY <1>1, <1>6, SrvFields DEF AckedUpTo
<1>8. /\ got \in 0 .. ClientBytes
      /\ srv.irs = iss => got <= written
  <2>1. CASE inOrder
    <3>1. got = srv.got + q.len /\ q.seq = Rcv(srv)
      BY <2>1, Zenon
    <3>2. /\ srv.got + q.len <= ClientBytes
          /\ srv.irs = iss => srv.got + q.len <= written
      BY <1>1, <1>2, <3>1, InOrder, Zenon
    <3>3. srv.got + q.len \in Nat
      <4>1. srv.got \in Nat /\ q.len \in Nat
        BY <1>1, <1>5, SrvFields, Zenon
      <4>2. QED
        BY <4>1
    <3> HIDE DEF got
    <3>4. QED
      BY <3>1, <3>2, <3>3
  <2>2. CASE ~ inOrder
    BY <1>1, <2>2, SrvFields DEF NumbersInv, ServerKnows
  <2>3. QED
    BY <2>1, <2>2, Zenon
<1>9. phase \in Phases /\ (phase # "closed" => phase \in {"synrcvd", "estab", "finwait"})
  BY <1>1, SrvFields, Zenon DEF Phases, Open
<1>10. phase = "closed" /\ srv.irs = iss => life = "destroyed"
  <2>1. phase = "closed" => q.flags = "RST" /\ inOrder
    BY <1>1, Zenon DEF Open
  <2>2. QED
    BY <1>1, <1>2, <2>1, InOrder, Zenon
<1>11. unread \in Nat
  BY <1>1, <1>5, SrvFields
<1>12. srv \in Servers
  BY <1>1 DEF SessionTypes
<1>13. /\ srv' \in Servers
       /\ srv'.irs = srv.irs /\ srv'.inc = srv.inc /\ srv'.nxt = srv.nxt
       /\ srv'.una = una /\ srv'.phase = phase /\ srv'.got = got /\ srv'.unread = unread
  <2> HIDE DEF una, got, unread, phase
  <2>1. QED
    BY <1>4, <1>7, <1>8, <1>9, <1>11, <1>12, Zenon DEF Servers
<1>14. Open' <=> phase # "closed"
  BY <1>9, <1>13, Zenon DEF Open
<1>15. ServerKnows'
  <2> HIDE DEF got, phase, una
  <2>1. QED
    BY <1>1, <1>3, <1>8, <1>13 DEF NumbersInv, ServerKnows, Clients, Started, vars, conn
<1>16. ConnectionKept
  <2> HIDE DEF got, phase, una
  <2>1. QED
    BY <1>3, <1>10, <1>13, <1>14, Zenon DEF ConnectionKept, Ours, vars
<1>17. \/ toClient' = toClient
       \/ Open' /\ toClient' = Append(toClient, FromServer(srv', "ACK", srv'.nxt, 0))
  <2>1. phase = "closed" => q.flags = "RST"
    BY <1>1 DEF Open
  <2>2. QED
    BY <1>4, <1>14, <2>1, Zenon
<1>18. SessionTypes'
  <2> DEFINE p == FromServer(srv', "ACK", srv'.nxt, 0)
  <2>1. ServerTyped(srv') /\ srv'.nxt \in Nat /\ "ACK" \in ServerFlags
    BY <1>13, SMTT(30) DEF ServerTyped, ServerFlags, Servers
  <2>2. p \in ServerSegments
    BY <2>1, FromServerFields
  <2>3. toClient' \in Seq(ServerSegments)
    <3> HIDE DEF p
    <3>1. toClient' = toClient \/ toClient' = Append(toClient, p)
      BY <1>17, Zenon DEF p
    <3>2. QED
      BY <1>1, <2>2, <3>1, WireGrows, Zenon DEF SessionTypes
  <2>4. QED
    BY <1>1, <1>2, <1>3, <1>13, <2>3, Zenon DEF SessionTypes, vars, conn
<1>19. /\ phase \in {srv.phase, "closed"} \/ phase = "estab"
       /\ phase = "estab" /\ srv.phase # "estab" => srv.phase = "synrcvd" /\ una > 0
       /\ phase = "synrcvd" => una <= 0
  <2> HIDE DEF una
  <2>1. \/ phase = "closed"
        \/ phase = "estab" /\ srv.phase = "synrcvd" /\ una > 0
        \/ phase = srv.phase /\ ~ (srv.phase = "synrcvd" /\ una > 0)
    BY Zenon
  <2> HIDE DEF phase
  <2>2. QED
    BY <1>7, <2>1
<1>20. QED
  <2> HIDE DEF una, phase, got, unread
  <2>1. QED
    BY <1>2, <1>3, <1>6, <1>13, <1>15, <1>16, <1>17, <1>18, <1>19, Zenon

LEMMA ReceiveNumbers ==
  ASSUME NumbersInv, ServerReceive
  PROVE  NumbersInv'
<1> DEFINE p == FromServer(srv', "ACK", srv'.nxt, 0)
<1>1. /\ SessionTypes' /\ ServerKnows' /\ ConnectionKept
      /\ UNCHANGED <<vars, iss, past, written>>
      /\ Range(toServer') \subseteq Range(toServer)
      /\ toClient' = toClient \/ (Open' /\ toClient' = Append(toClient, p))
  BY ReceiveEffect, Zenon
<1>2. ServerTyped(srv') /\ srv'.nxt \in Nat /\ "ACK" \in ServerFlags
  BY <1>1 DEF SessionTypes, ServerTyped, ServerFlags, Servers
<1>3. p \in ServerSegments /\ p.ack = Rcv(srv') /\ p.inc = srv'.inc
  BY <1>2, FromServerFields
<1>4. Range(toClient') \subseteq Range(toClient) \cup {p}
  <2> HIDE DEF p
  <2>1. QED
    BY <1>1, <1>3, WireGrows, SMTT(30) DEF NumbersInv, SessionTypes
<1>5. toClient' = toClient \/ Open'
  BY <1>1, Zenon
<1>6. QED
  BY <1>1, <1>3, <1>4, <1>5, ServerStep, Zenon

\* The steps of the server that send: data, a FIN, or something again.
LEMMA SendsNumbers ==
  ASSUME NumbersInv, Open, Open', UNCHANGED <<vars, iss, past, written, pushed, refused, toServer>>,
         srv' \in Servers,
         srv'.irs = srv.irs /\ srv'.got = srv.got /\ srv'.inc = srv.inc,
         NEW flags \in ServerFlags, NEW i \in Nat, NEW len \in Nat,
         toClient' = Append(toClient, FromServer(srv, flags, i, len))
  PROVE  NumbersInv'
<1> DEFINE p == FromServer(srv, flags, i, len)
<1>1. SessionTypes
  BY Zenon DEF NumbersInv
<1>2. p \in ServerSegments /\ p.ack = Rcv(srv) /\ p.inc = srv.inc
  BY <1>1, SrvFields, FromServerFields, SMTT(30)
<1>3. toClient' \in Seq(ServerSegments) /\ Range(toClient') \subseteq Range(toClient) \cup {p}
  <2> HIDE DEF p
  <2>1. toClient' = Append(toClient, p)
    BY Zenon DEF p
  <2>2. QED
    BY <1>1, <1>2, <2>1, WireGrows, Zenon DEF SessionTypes
<1>4. srv'.irs = srv.irs /\ srv'.got = srv.got /\ srv'.inc = srv.inc
  BY Zenon
<1>5. SessionTypes'
  BY <1>1, <1>3 DEF SessionTypes, vars, conn
<1>6. ServerKnows'
  BY <1>4, Zenon DEF NumbersInv, ServerKnows, Clients, Started, vars, conn
<1>7. ConnectionKept
  BY <1>4, Zenon DEF ConnectionKept, Ours
<1>8. p.ack = Rcv(srv') /\ p.inc = srv'.inc
  BY <1>2, <1>4 DEF Rcv
<1>9. QED
  BY <1>3, <1>5, <1>6, <1>7, <1>8, ServerStep, Zenon

LEMMA WriteNumbers ==
  ASSUME NumbersInv, ServerWrite
  PROVE  NumbersInv'
<1>1. PICK len \in RecvSizes \ {0} :
        /\ toClient' = Append(toClient, FromServer(srv, "PSH_ACK", srv.nxt, len))
        /\ srv' = [srv EXCEPT !.nxt = @ + len]
  BY Zenon DEF ServerWrite
<1>2. len \in Nat /\ srv.nxt \in Nat /\ srv.nxt + len \in Nat
  BY WindowAssumption, SrvFields DEF NumbersInv
<1>3. /\ srv' \in Servers /\ srv'.irs = srv.irs /\ srv'.got = srv.got /\ srv'.inc = srv.inc
      /\ Open /\ Open'
  BY <1>1, <1>2, Zenon DEF ServerWrite, Open, NumbersInv, SessionTypes, Servers
<1>4. UNCHANGED <<vars, iss, past, written, pushed, refused, toServer>> /\ "PSH_ACK" \in ServerFlags
  BY DEF ServerWrite, counters, ServerFlags
<1>5. QED
  BY <1>1, <1>2, <1>3, <1>4, SendsNumbers

LEMMA CloseNumbers ==
  ASSUME NumbersInv, ServerClose
  PROVE  NumbersInv'
<1>1. /\ toClient' = Append(toClient, FromServer(srv, "FIN_ACK", srv.nxt, 0))
      /\ srv' = [srv EXCEPT !.phase = "finwait", !.nxt = @ + 1]
      /\ srv.phase = "estab"
  BY Zenon DEF ServerClose
<1>2. srv.nxt \in Nat /\ srv.nxt + 1 \in Nat
  BY SrvFields DEF NumbersInv
<1>3. /\ srv' \in Servers /\ srv'.irs = srv.irs /\ srv'.got = srv.got /\ srv'.inc = srv.inc
      /\ Open /\ Open'
  BY <1>1, <1>2, Zenon DEF Open, NumbersInv, SessionTypes, Servers, Phases
<1>4. UNCHANGED <<vars, iss, past, written, pushed, refused, toServer>> /\ "FIN_ACK" \in ServerFlags
  BY Zenon DEF ServerClose, counters, ServerFlags
<1>5. QED
  BY <1>1, <1>2, <1>3, <1>4, SendsNumbers

\* Whatever is sent again, it is one segment with the numbers of srv.
LEMMA RetransmitEffect ==
  ASSUME SessionTypes, ServerRetransmit
  PROVE  /\ UNCHANGED <<vars, srv, iss, past, written, pushed, refused, toServer>>
         /\ Open /\ Open'
         /\ \E flags \in {"SYN_ACK", "PSH_ACK", "FIN_ACK"}, i \in Nat, len \in Nat :
              /\ toClient' = Append(toClient, FromServer(srv, flags, i, len))
              /\ flags = "SYN_ACK" => i = 0 /\ len = 0
              /\ len > 0 => srv.phase \in {"estab", "finwait"} /\ i = srv.una /\ i + len <= DataEnd
              /\ flags = "FIN_ACK" => srv.phase = "finwait" /\ i = DataEnd /\ len = 0
              /\ flags = "PSH_ACK" => len > 0
<1>1. UNCHANGED <<vars, srv, iss, past, written, pushed, refused, toServer>>
  BY Zenon DEF ServerRetransmit
<1>2. Open /\ Open'
  BY <1>1, Zenon DEF ServerRetransmit, Open
<1>3. CASE /\ srv.phase = "synrcvd"
           /\ toClient' = Append(toClient, FromServer(srv, "SYN_ACK", 0, 0))
  BY <1>1, <1>2, <1>3
<1>4. CASE /\ srv.phase \in {"estab", "finwait"}
           /\ \E len \in RecvSizes \ {0} :
                /\ srv.una + len <= DataEnd
                /\ toClient' = Append(toClient, FromServer(srv, "PSH_ACK", srv.una, len))
  <2>1. PICK len \in RecvSizes \ {0} :
          /\ srv.una + len <= DataEnd
          /\ toClient' = Append(toClient, FromServer(srv, "PSH_ACK", srv.una, len))
    BY <1>4, Zenon
  <2>2. len \in Nat /\ srv.una \in Nat
    BY WindowAssumption, SrvFields
  <2>3. QED
    BY <1>1, <1>2, <1>4, <2>1, <2>2
<1>5. CASE /\ srv.phase = "finwait" /\ srv.una = DataEnd
           /\ toClient' = Append(toClient, FromServer(srv, "FIN_ACK", DataEnd, 0))
  <2>1. DataEnd \in Nat
    BY <1>5, SrvFields, Zenon
  <2>2. QED
    BY <1>1, <1>2, <1>5, <2>1
<1>6. QED
  BY <1>3, <1>4, <1>5, Zenon DEF ServerRetransmit

LEMMA RetransmitNumbers ==
  ASSUME NumbersInv, ServerRetransmit
  PROVE  NumbersInv'
<1>1. SessionTypes
  BY Zenon DEF NumbersInv
<1>2. PICK flags \in {"SYN_ACK", "PSH_ACK", "FIN_ACK"}, i \in Nat, len \in Nat :
        toClient' = Append(toClient, FromServer(srv, flags, i, len))
  BY <1>1, RetransmitEffect
<1>3. flags \in ServerFlags
  BY Zenon DEF ServerFlags
<1>4. UNCHANGED <<vars, srv, iss, past, written, pushed, refused, toServer>> /\ Open /\ Open'
  BY <1>1, RetransmitEffect
<1>5. srv' \in Servers /\ srv'.irs = srv.irs /\ srv'.got = srv.got /\ srv'.inc = srv.inc
  BY <1>1, <1>4, Zenon DEF SessionTypes
<1>6. QED
  BY <1>2, <1>3, <1>4, <1>5, SendsNumbers, Zenon

LEMMA FaultWires ==
  ASSUME SessionTypes, NetworkFault
  PROVE  /\ toClient' \in Seq(ServerSegments) /\ Range(toClient') \subseteq Range(toClient)
         /\ toServer' \in Seq(ClientSegments) /\ Range(toServer') \subseteq Range(toServer)
<1>1. toClient \in Seq(ServerSegments) /\ toServer \in Seq(ClientSegments)
  BY Zenon DEF SessionTypes
<1>2. CASE toClient' \in Disturbed(toClient) /\ UNCHANGED toServer
  BY <1>1, <1>2, WireDisturbed
<1>3. CASE toServer' \in Disturbed(toServer) /\ UNCHANGED toClient
  BY <1>1, <1>3, WireDisturbed, Zenon
<1>4. QED
  BY <1>2, <1>3, Zenon DEF NetworkFault

LEMMA FaultNumbers ==
  ASSUME NumbersInv, NetworkFault
  PROVE  NumbersInv'
<1>1. SessionTypes
  BY Zenon DEF NumbersInv
<1>2. UNCHANGED <<vars, srv, iss, past, written, pushed, refused>>
  BY DEF NetworkFault
<1>3. /\ toClient' \in Seq(ServerSegments) /\ Range(toClient') \subseteq Range(toClient)
      /\ toServer' \in Seq(ClientSegments) /\ Range(toServer') \subseteq Range(toServer)
  BY <1>1, FaultWires, Zenon
<1>4. SessionTypes'
  BY <1>1, <1>2, <1>3, Zenon DEF SessionTypes, vars, conn
<1>5. ServerKnows' /\ ConnectionKept
  BY <1>2 DEF NumbersInv, ServerKnows, ConnectionKept, Ours, Open, Clients, Started, vars, conn
<1>6. QED
  BY <1>2, <1>3, <1>4, <1>5, ServerStep, Zenon

-----------------------------------------------------------------------------
(* The numbers of the server. *)

Counts == 0 .. ServerBytes + 2

LEMMA ProductOrdered ==
  ASSUME NEW a \in Nat, NEW b \in Nat, NEW n \in Nat, a < b
  PROVE  a * n + n <= b * n
<1>1. PICK d \in Nat : b = a + 1 + d
  <2>1. b - a - 1 \in Nat /\ b = a + 1 + (b - a - 1)
    OBVIOUS
  <2>2. QED
    BY <2>1
<1>2. b * n = a * n + n + d * n
  BY <1>1
<1>3. a * n \in Nat /\ d * n \in Nat
  OBVIOUS
<1>4. QED
  BY <1>2, <1>3

\* Where the numbers do not wrap, a number is a sum.
LEMMA NumberIsSum ==
  ASSUME NumbersStayPositive, NEW c \in 1 .. MaxConnections, NEW i \in Counts
  PROVE  /\ (c - 1) * Stride \in Nat
         /\ NumberOf(c, i) = ServerISS + (c - 1) * Stride + i
         /\ 0 < NumberOf(c, i) /\ NumberOf(c, i) < Modulus
         /\ NumberOf(c, i) \in SeqNumbers
<1> USE SessionAssumption, HalfAssumption
<1> DEFINE x == (c - 1) * Stride
           y == MaxConnections * Stride
<1>1. Stride \in Nat /\ i \in Nat /\ i < Stride /\ ServerISS \in Nat /\ Modulus \in Nat
  BY DEF Stride, Counts, SeqNumbers, Modulus
<1>2. c - 1 \in Nat /\ MaxConnections \in Nat /\ c - 1 < MaxConnections
  OBVIOUS
<1>3. x \in Nat /\ y \in Nat /\ x + Stride <= y
  BY <1>1, <1>2, ProductOrdered
<1>4. 0 < ServerISS /\ ServerISS + y <= Modulus
  BY Zenon DEF NumbersStayPositive
<1>5. NumberOf(c, i) = Wrap(ServerISS + (x + i))
  BY Zenon DEF NumberOf, SeqPlus
<1> HIDE DEF x, y
<1>6. NumberOf(c, i) = ServerISS + x + i /\ ServerISS + x + i < Modulus /\ 0 < ServerISS + x + i
  BY <1>1, <1>3, <1>4, <1>5 DEF Wrap
<1>7. QED
  BY <1>1, <1>3, <1>6 DEF x, SeqNumbers, Modulus

\* A number is the number of one byte of one connection.
LEMMA NumberUnique ==
  ASSUME NumbersStayPositive, NEW c \in 1 .. MaxConnections, NEW d \in 1 .. MaxConnections,
         NEW i \in Counts, NEW j \in Counts, NumberOf(c, i) = NumberOf(d, j)
  PROVE  c = d /\ i = j
<1> USE SessionAssumption
<1>1. /\ (c - 1) * Stride \in Nat /\ (d - 1) * Stride \in Nat /\ ServerISS \in Nat
      /\ ServerISS + (c - 1) * Stride + i = ServerISS + (d - 1) * Stride + j
  BY NumberIsSum DEF SeqNumbers
<1>2. (c - 1) * Stride + i = (d - 1) * Stride + j
  BY <1>1 DEF Counts
<1>3. Stride \in Nat /\ i \in Nat /\ j \in Nat /\ i < Stride /\ j < Stride
  BY DEF Stride, Counts
<1>4. c - 1 \in Nat /\ d - 1 \in Nat
  OBVIOUS
<1>5. ~ (c - 1 < d - 1)
  <2>1. c - 1 < d - 1 => (c - 1) * Stride + Stride <= (d - 1) * Stride
    BY <1>3, <1>4, ProductOrdered, Zenon
  <2>2. QED
    BY <1>1, <1>2, <1>3, <2>1
<1>6. ~ (d - 1 < c - 1)
  <2>1. d - 1 < c - 1 => (d - 1) * Stride + Stride <= (c - 1) * Stride
    BY <1>3, <1>4, ProductOrdered, Zenon
  <2>2. QED
    BY <1>1, <1>2, <1>3, <2>1
<1>7. c = d
  BY <1>5, <1>6
<1>8. QED
  BY <1>1, <1>2, <1>3, <1>7

\* Within a connection, sums and comparisons are those of the counts.
LEMMA NumberOnward ==
  ASSUME NumbersStayPositive, NEW c \in 1 .. MaxConnections, NEW i \in Counts, NEW n \in Nat,
         i + n \in Counts
  PROVE  SeqPlus(NumberOf(c, i), n) = NumberOf(c, i + n)
<1> DEFINE x == (c - 1) * Stride
<1>1. /\ x \in Nat /\ ServerISS \in Nat /\ i \in Nat
      /\ NumberOf(c, i) = ServerISS + x + i
      /\ NumberOf(c, i + n) = ServerISS + x + (i + n)
      /\ 0 < NumberOf(c, i + n) /\ NumberOf(c, i + n) < Modulus
  BY NumberIsSum, SessionAssumption DEF Counts, SeqNumbers
<1> HIDE DEF x
<1>2. QED
  BY <1>1, HalfAssumption DEF SeqPlus, Wrap, Modulus

LEMMA NumberOrdered ==
  ASSUME NumbersStayPositive, NEW c \in 1 .. MaxConnections, NEW i \in Counts, NEW j \in Counts,
         j >= 1, SeqLess(NumberOf(c, i), NumberOf(c, j))
  PROVE  i < j
<1> DEFINE x == (c - 1) * Stride
<1>1. /\ x \in Nat /\ ServerISS \in Nat
      /\ NumberOf(c, i) = ServerISS + x + i
      /\ NumberOf(c, j) = ServerISS + x + j
  BY NumberIsSum, SessionAssumption DEF SeqNumbers
<1>2. i \in Nat /\ j \in Nat /\ i <= ServerBytes + 2 /\ ServerBytes \in Nat /\ ServerBytes + 1 < Half
  BY SessionAssumption DEF Counts
<1> HIDE DEF x
<1>3. QED
  BY <1>1, <1>2, HalfAssumption DEF SeqLess, SeqMinus, Wrap, Modulus
=============================================================================
