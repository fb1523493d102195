--------------------------- MODULE TcpBytesProofs ---------------------------
(***************************************************************************)
(* BytesInv is kept by the steps in which the server receives a segment    *)
(* and by those of the client, given NumbersInv: the TLS stream has every  *)
(* byte that was acknowledged, in order and without gaps.                  *)
(***************************************************************************)
EXTENDS TcpNumbersProofs

LEMMA ListenBytes ==
  ASSUME NumbersInv, BytesInv, ServerListen, NumbersStayPositive
  PROVE  BytesInv'
<1> USE SessionAssumption
<1> DEFINE q == Head(toServer)
<1>1. SessionTypes
  BY DEF NumbersInv
<1>2. Range(toServer') \subseteq Range(toServer) /\ q \in ClientSegments
  BY <1>1, WireTaken DEF SessionTypes, ServerListen
<1>3. UNCHANGED <<vars, iss, pushed, refused>> /\ ~ Open
  BY Zenon DEF ServerListen, Open
<1>4. srv.inc \in Nat /\ srv.nxt \in Nat /\ ServerTyped(srv)
  BY <1>1, SrvFields
<1>5. UNCHANGED <<state, life, ack>> /\ Started' = Started
  BY <1>3 DEF vars, conn, Started
<1>6. ~ (state = "Connected" /\ life = "running")
  BY <1>3 DEF BytesInv, ClientKnows, Ours
<1>7. CASE q.flags = "SYN" /\ srv.inc < MaxConnections /\ srv' # srv
  <2> DEFINE s == [phase |-> "synrcvd", inc |-> srv.inc + 1, irs |-> q.seq, got |-> 0,
                   unread |-> 0, una |-> 0, nxt |-> 1]
  <2>1. srv' = s /\ toClient' = Append(toClient, FromServer(srv', "SYN_ACK", 0, 0))
    BY <1>7 DEF ServerListen
  <2>2. srv'.phase = "synrcvd" /\ srv'.inc = srv.inc + 1 /\ srv'.una = 0 /\ srv'.nxt = 1
    BY <2>1
  <2>3. PICK p : p = FromServer(srv', "SYN_ACK", 0, 0)
    OBVIOUS
  <2>4. /\ p \in ServerSegments /\ p.inc = srv'.inc /\ p.first = 0 /\ p.len = 0
        /\ p.seq = NumberOf(srv'.inc, 0)
    <3>1. ServerTyped(srv') /\ "SYN_ACK" \in ServerFlags
      <4>1. q.seq \in SeqNumbers /\ 0 \in 0 .. ClientBytes /\ srv.inc + 1 \in Nat
        BY <1>2, <1>4 DEF ClientSegments
      <4>2. QED
        BY <2>1, <4>1, Zenon DEF ServerTyped, ServerFlags
    <3>2. QED
      BY <2>3, <3>1, FromServerFields
  <2>5. Range(toClient') = Range(toClient) \cup {p}
    BY <1>1, <2>1, <2>3, <2>4, WireAdded DEF SessionTypes
  <2>6. ServerCounts' /\ AckedBytesWereDelivered'
    <3>1. refused' # <<>> => life' # "running"
      BY <1>3, <1>5, Zenon DEF BytesInv, AckedBytesWereDelivered
    <3>2. QED
      BY <1>4, <2>2, <3>1 DEF ServerCounts, AckedBytesWereDelivered
  <2>7. ASSUME NEW x \in Range(toClient'), x.flags # "RST" PROVE SentByServer(x)'
    <3>1. CASE x = p
      BY <1>4, <2>2, <2>4, <3>1 DEF SentByServer
    <3>2. CASE x \in Range(toClient)
      <4>1. SentByServer(x)
        BY <2>7, <3>2 DEF BytesInv
      <4>2. x.inc \in 1 .. srv'.inc /\ x.inc # srv'.inc
        BY <1>4, <2>2, <4>1 DEF SentByServer
      <4>3. QED
        BY <4>1, <4>2, Zenon DEF SentByServer
    <3>3. QED
      BY <2>5, <2>7, <3>1, <3>2, Zenon
  <2>8. ASSUME NEW x \in Range(toServer'), x.flags \notin {"SYN", "RST"} PROVE AckedByClient(x)'
    <3>1. AckedByClient(x)
      BY <1>2, <2>8 DEF BytesInv
    <3>2. QED
      BY <1>3, <1>4, <1>5, <2>2, <3>1, AckedByClientKept, TakenKept
  <2>9. ClientKnows'
    BY <1>3, <1>5, <1>6, <2>2, Zenon DEF BytesInv, ClientKnows
  <2>10. \A i \in DOMAIN pushed : pushed[i][1] \in 1 .. srv'.inc /\ pushed[i][1] # srv'.inc
    BY <1>4, <2>2 DEF BytesInv
  <2>11. NoByteSkipped'
    BY <1>3, <2>10 DEF NoByteSkipped, Own
  <2>12. QED
    BY <1>3, <2>6, <2>7, <2>8, <2>9, <2>10, <2>11, Zenon DEF BytesInv, Range
<1>8. CASE srv' = srv
  <2>1. PICK p : p = FromServer(srv, "RST", srv.nxt, 0)
    OBVIOUS
  <2>2. p \in ServerSegments /\ p.flags = "RST"
    <3>1. "RST" \in ServerFlags
      BY DEF ServerFlags
    <3>2. QED
      BY <1>4, <2>1, <3>1, FromServerFields
  <2>3. toClient' = toClient \/ toClient' = Append(toClient, p)
    <3>1. srv.inc # srv.inc + 1
      BY <1>4
    <3>2. QED
      BY <1>8, <2>1, <3>1 DEF ServerListen
  <2>4. Range(toClient') \subseteq Range(toClient) \cup {p}
    BY <1>1, <2>2, <2>3, WireGrows, Zenon DEF SessionTypes
  <2>5. /\ Open' = Open /\ Ours' = Ours /\ ConnectionKept /\ ServerCounts'
        /\ AckedBytesWereDelivered'
    BY <1>3, <1>5, <1>8, TakenKept, Zenon
    DEF BytesInv, Open, Ours, ConnectionKept, ServerCounts, AckedBytesWereDelivered
  <2>6. QED
    BY <1>1, <1>2, <1>3, <1>8, <2>2, <2>4, <2>5, ServerBytesStep, Zenon DEF Ours
<1>9. QED
  BY <1>7, <1>8, Zenon DEF ServerListen

\* An acknowledgment that the server takes is of bytes that were delivered.
LEMMA AckTaken ==
  ASSUME NumbersStayPositive, SessionTypes, BytesInv, Open, Ours,
         NEW q \in Range(toServer), q.flags \notin {"SYN", "RST"}, NEW i \in AckedUpTo(q.ack)
  PROVE  state # "Connecting" /\ Delivered(i)
<1> USE SessionAssumption
<1>1. PICK c \in 1 .. srv.inc, j \in 1 .. ServerBytes + 1 :
        /\ q.ack = NumberOf(c, j)
        /\ Ours /\ c = srv.inc => state # "Connecting" /\ Delivered(j)
  BY DEF BytesInv, AckedByClient
<1>2. i \in Nat /\ i <= srv.nxt /\ NumberOf(srv.inc, i) = q.ack
  BY SrvFields DEF AckedUpTo
<1>3. srv.inc \in 1 .. MaxConnections /\ srv.nxt \in Counts
  BY DataEndCounts DEF BytesInv
<1>4. i \in Counts /\ j \in Counts /\ c \in 1 .. MaxConnections
  BY <1>2, <1>3 DEF Counts
<1>5. c = srv.inc /\ j = i
  BY <1>1, <1>2, <1>3, <1>4, NumberUnique
<1>6. QED
  BY <1>1, <1>5, Zenon

LEMMA ReceiveBytes ==
  ASSUME NumbersInv, BytesInv, ServerReceive, NumbersStayPositive
  PROVE  BytesInv'
<1> USE SessionAssumption
<1> DEFINE q == Head(toServer)
<1>1. SessionTypes /\ SessionTypes' /\ Open /\ ServerCounts
  BY ReceiveEffect, Zenon DEF NumbersInv, BytesInv, ServerReceive
<1>2. /\ q \in Range(toServer) /\ Range(toServer') \subseteq Range(toServer)
      /\ UNCHANGED <<vars, iss, pushed, refused>> /\ ConnectionKept
      /\ srv'.irs = srv.irs /\ srv'.inc = srv.inc /\ srv'.nxt = srv.nxt
  BY ReceiveEffect
<1>3. srv'.una = srv.una \/ (q.flags \notin {"SYN", "RST"} /\ srv'.una \in AckedUpTo(q.ack))
  BY ReceiveEffect
<1>4. /\ srv'.phase \in {srv.phase, "closed", "estab"}
      /\ srv'.phase = "estab" /\ srv.phase # "estab" => srv.phase = "synrcvd" /\ srv'.una > 0
      /\ srv'.phase = "synrcvd" => srv'.una <= 0
  BY ReceiveEffect, Zenon
<1>5. /\ srv.una \in Nat /\ srv.nxt \in Nat /\ srv'.una \in Nat
      /\ srv.inc \in Nat /\ srv'.inc \in Nat /\ srv'.nxt \in Nat
  BY <1>1, SrvFields DEF SessionTypes, Servers
<1>6. srv.una <= srv'.una /\ (Open => srv.una <= srv.nxt) /\ (Open => srv'.una <= srv'.nxt)
  BY <1>1, <1>2, <1>3, <1>5 DEF ServerCounts, Open, AckedUpTo
<1>7. Open' => /\ srv.phase = srv'.phase \/ (srv.phase = "synrcvd" /\ srv'.phase = "estab")
               /\ DataEnd' = DataEnd
  BY <1>1, <1>2, <1>4, Zenon DEF Open, DataEnd
<1>8. ServerCounts'
  BY <1>1, <1>2, <1>4, <1>5, <1>6 DEF ServerCounts, Open
<1>9. (Open' => Open) /\ (Ours' => Ours)
  BY <1>1, <1>2, Zenon DEF Ours
<1>10. srv'.una # srv.una /\ Ours => state # "Connecting" /\ Delivered(srv'.una)
  BY <1>1, <1>2, <1>3, AckTaken, Zenon
<1>11. AckedBytesWereDelivered'
  <2>0. life' = life /\ Taken' = Taken
    BY <1>2, TakenKept, Zenon DEF vars
  <2>1. SUFFICES ASSUME Ours'
                 PROVE  \A k \in 1 .. srv'.una - 1 : <<srv'.inc, k>> \in Taken
    BY <1>2, <2>0, Zenon DEF BytesInv, AckedBytesWereDelivered
  <2>2. CASE srv'.una = srv.una
    BY <1>2, <1>9, <2>1, <2>2, Zenon DEF BytesInv, AckedBytesWereDelivered
  <2>3. CASE srv'.una # srv.una
    BY <1>2, <1>9, <1>10, <2>1, <2>3, Zenon DEF Delivered
  <2>4. QED
    BY <2>2, <2>3, Zenon
<1>12. Ours' /\ state = "Connecting" => srv'.phase = "synrcvd"
  <2>1. SUFFICES ASSUME Ours', state = "Connecting" PROVE srv'.phase = "synrcvd"
    OBVIOUS
  <2>2. Ours /\ Open' /\ srv.phase = "synrcvd" /\ srv.una = 0 /\ srv'.una = srv.una
    BY <1>9, <1>10, <2>1, Zenon DEF BytesInv, ClientKnows, ServerCounts, Ours
  <2>3. QED
    BY <1>4, <1>7, <2>2
<1>13. DataEnd \in Nat /\ DataEnd <= DataEnd
  BY <1>1, DataEndCounts
<1>14. PICK p : p = FromServer(srv', "ACK", srv'.nxt, 0)
  OBVIOUS
<1>15. /\ p \in ServerSegments /\ p.inc = srv'.inc /\ p.first = srv'.nxt /\ p.len = 0
       /\ p.seq = NumberOf(srv'.inc, srv'.nxt) /\ p.flags = "ACK"
  <2>1. ServerTyped(srv') /\ "ACK" \in ServerFlags
    BY <1>1 DEF SessionTypes, Servers, ServerTyped, ServerFlags
  <2>2. QED
    BY <1>5, <1>14, <2>1, FromServerFields
<1>16. SentByServer(p)'
  <2>1. srv'.inc \in 1 .. MaxConnections /\ srv'.nxt \in Counts
    BY <1>1, <1>2, DataEndCounts
  <2>2. QED
    BY <1>15, <2>1 DEF SentByServer, Counts
<1>17. Range(toClient') \subseteq Range(toClient) \cup {p}
  <2>1. toClient' = toClient \/ toClient' = Append(toClient, p)
    BY <1>14, ReceiveEffect
  <2>2. QED
    BY <1>1, <1>15, <2>1, WireGrows, Zenon DEF SessionTypes
<1>18. QED
  BY <1>1, <1>2, <1>7, <1>8, <1>9, <1>11, <1>12, <1>13, <1>16, <1>17, ServerBytesStep, Zenon

\* A stream after b was appended to q.
LEMMA Appended ==
  ASSUME NEW S, NEW q \in Seq(S), NEW m \in Nat, NEW b \in [1 .. m -> S]
  PROVE  /\ DOMAIN q = 1 .. Len(q) /\ Len(q) \in Nat
         /\ q \o b \in Seq(S) /\ DOMAIN (q \o b) = 1 .. Len(q) + m
         /\ \A i \in 1 .. Len(q) : (q \o b)[i] = q[i]
         /\ \A i \in 1 .. m : (q \o b)[Len(q) + i] = b[i]
<1>1. b \in Seq(S) /\ Len(b) = m
  OBVIOUS
<1>2. QED
  BY <1>1

LEMMA PushedPlace ==
  ASSUME NEW n \in Nat, NEW f \in Nat, NEW len \in Nat, NEW m \in 0 .. len,
         NEW k \in 1 .. f + m - 1, ~ k < f
  PROVE  k - f + 1 \in 1 .. len /\ n + (k - f + 1) \in 1 .. n + m /\ f + (k - f + 1) - 1 = k
OBVIOUS

LEMMA PushedBetween ==
  ASSUME NEW n \in Nat, NEW f \in Nat, NEW len \in Nat, NEW i \in 1 .. n + len, i \notin 1 .. n,
         NEW k \in 1 .. (f + (i - n) - 1) - 1
  PROVE  /\ k \in 1 .. f + (i - n - 1) - 1 /\ len > 0
         /\ i - n - 1 \in 0 .. len /\ n + (i - n - 1) = i - 1
OBVIOUS

\* Pushing the payload of p leaves no gap if what precedes it is there.
LEMMA PushBytes ==
  ASSUME SessionTypes, BytesInv, NEW p \in ServerSegments, UNCHANGED <<srv, iss>>,
         pushed' = pushed \o BytesOf(p), refused = <<>>, refused' = <<>>, p.inc \in 1 .. srv.inc,
         NEW e, e = p.first + p.len,
         Ours /\ p.inc = srv.inc /\ p.len > 0 => p.first >= 1 /\ Delivered(p.first)
  PROVE  /\ Taken \subseteq Taken'
         /\ NoByteSkipped'
         /\ \A i \in DOMAIN pushed' : pushed'[i][1] \in 1 .. srv.inc
         /\ Ours /\ p.inc = srv.inc /\ p.len > 0 => Delivered(e)'
<1> DEFINE n == Len(pushed)
           f == p.first
<1>0. Taken = Range(pushed) /\ Range(pushed') \subseteq Taken'
  BY DEF Taken, Range
<1>1. p.len \in Nat /\ f \in Nat /\ n \in Nat /\ pushed \in Seq(Nat \X Nat) /\ srv.inc \in Nat
  BY SrvFields DEF ServerSegments, SessionTypes
<1>2. /\ DOMAIN pushed = 1 .. n /\ DOMAIN pushed' = 1 .. n + p.len
      /\ \A i \in 1 .. n : pushed'[i] = pushed[i]
      /\ \A i \in 1 .. p.len : pushed'[n + i] = <<p.inc, f + i - 1>>
  <2>1. \A i \in 1 .. p.len : <<p.inc, f + i - 1>> \in Nat \X Nat
    BY <1>1 DEF ServerSegments
  <2>2. BytesOf(p) \in [1 .. p.len -> Nat \X Nat] /\ \A i \in 1 .. p.len : BytesOf(p)[i] = <<p.inc, f + i - 1>>
    BY <2>1, Zenon DEF BytesOf
  <2>3. PICK b : b = BytesOf(p)
    BY Zenon
  <2>4. PICK q : q = pushed
    BY Zenon
  <2>5. /\ DOMAIN q = 1 .. Len(q) /\ DOMAIN (q \o b) = 1 .. Len(q) + p.len
        /\ \A i \in 1 .. Len(q) : (q \o b)[i] = q[i]
        /\ \A i \in 1 .. p.len : (q \o b)[Len(q) + i] = b[i]
    BY <1>1, <2>2, <2>3, <2>4, Appended
  <2>6. pushed' = q \o b
    BY <2>3, <2>4, Zenon
  <2>7. QED
    BY <2>2, <2>3, <2>4, <2>5, <2>6, Zenon
<1>3. \A i \in 1 .. n + p.len : i \in 1 .. n \/ (i - n \in 1 .. p.len /\ n + (i - n) = i)
  BY <1>1
<1>4. ASSUME NEW i \in 1 .. n + p.len, i \notin 1 .. n
      PROVE  pushed'[i] = <<p.inc, f + (i - n) - 1>>
  <2>1. i - n \in 1 .. p.len /\ n + (i - n) = i
    BY <1>3, <1>4, Zenon
  <2>2. QED
    BY <1>2, <2>1, Zenon
<1>5. Taken \subseteq Taken'
  <2>1. 1 .. n \subseteq 1 .. n + p.len
    BY <1>1, SMTT(30)
  <2>2. Range(pushed) \subseteq Range(pushed')
    BY <1>2, <2>1, Zenon DEF Range
  <2>3. QED
    BY <1>0, <2>2, Zenon
<1>6. ASSUME NEW i \in 1 .. n + p.len PROVE pushed'[i][1] \in 1 .. srv.inc
  <2>1. CASE i \in 1 .. n
    BY <1>2, <2>1, Zenon DEF BytesInv
  <2>2. CASE i \notin 1 .. n
    <3>1. pushed'[i] = <<p.inc, f + (i - n) - 1>>
      BY <1>4, <2>2, Zenon
    <3>2. QED
      BY <3>1
  <2>3. QED
    BY <2>1, <2>2, Zenon
<1>7. ASSUME Ours, p.inc = srv.inc, p.len > 0, NEW m \in 0 .. p.len, NEW k \in 1 .. f + m - 1
      PROVE  \E j \in 1 .. n + m : pushed'[j] = <<srv.inc, k>>
  <2>1. CASE k < f
    <3>1. <<srv.inc, k>> \in Taken
      BY <1>1, <1>7, <2>1 DEF Delivered
    <3>2. PICK j \in 1 .. n : pushed[j] = <<srv.inc, k>>
      BY <1>0, <1>2, <3>1, Zenon DEF Range
    <3>3. j \in 1 .. n + m
      BY <1>1
    <3>4. QED
      BY <1>2, <3>2, <3>3, Zenon
  <2>2. CASE ~ k < f
    <3>1. k - f + 1 \in 1 .. p.len /\ n + (k - f + 1) \in 1 .. n + m /\ f + (k - f + 1) - 1 = k
      <4>1. PICK g \in Nat, l \in Nat : g = p.first /\ l = p.len
        BY <1>1, Zenon
      <4>2. m \in 0 .. l /\ k \in 1 .. g + m - 1 /\ ~ k < g
        BY <2>2, <4>1, Zenon
      <4>3. k - g + 1 \in 1 .. l /\ n + (k - g + 1) \in 1 .. n + m /\ g + (k - g + 1) - 1 = k
        BY <1>1, <4>2, PushedPlace
      <4>4. QED
        BY <4>1, <4>3, Zenon
    <3>2. pushed'[n + (k - f + 1)] = <<p.inc, f + (k - f + 1) - 1>>
      BY <1>2, <3>1, Zenon
    <3>3. QED
      BY <1>7, <3>1, <3>2, Zenon
  <2>3. QED
    BY <2>1, <2>2, Zenon
<1>8. NoByteSkipped'
  <2>1. SUFFICES ASSUME Ours', NEW i \in 1 .. n + p.len, pushed'[i][1] = srv.inc,
                        NEW k \in 1 .. pushed'[i][2] - 1
                 PROVE  \E j \in 1 .. i - 1 : pushed'[j] = <<srv.inc, k>>
    BY <1>2, Zenon DEF NoByteSkipped, Own
  <2>2. Ours
    BY <2>1, Zenon DEF Ours, Open
  <2>3. CASE i \in 1 .. n
    <3>1. pushed'[i] = pushed[i]
      BY <1>2, <2>3, Zenon
    <3>2. PICK j \in 1 .. i - 1 : pushed[j] = <<srv.inc, k>>
      BY <1>2, <2>1, <2>2, <2>3, <3>1, Zenon DEF BytesInv, NoByteSkipped, Own
    <3>3. j \in 1 .. n
      BY <1>1, <2>3
    <3>4. QED
      BY <1>2, <3>2, <3>3, Zenon
  <2>4. CASE i \notin 1 .. n
    <3>1. pushed'[i] = <<p.inc, f + (i - n) - 1>>
      BY <1>4, <2>4, Zenon
    <3>2. p.inc = srv.inc /\ k \in 1 .. (f + (i - n) - 1) - 1
      <4>1. pushed'[i][1] = p.inc /\ pushed'[i][2] = f + (i - n) - 1
        BY <3>1
      <4>2. QED
        BY <2>1, <4>1, Zenon
    <3>3. /\ k \in 1 .. f + (i - n - 1) - 1 /\ p.len > 0
          /\ i - n - 1 \in 0 .. p.len /\ n + (i - n - 1) = i - 1
      <4>1. PICK fst \in Nat, old \in Nat, len \in Nat : fst = f /\ old = n /\ len = p.len
        BY <1>1, Zenon
      <4> HIDE DEF f, n
      <4>2. i \in 1 .. old + len /\ i \notin 1 .. old /\ k \in 1 .. (fst + (i - old) - 1) - 1
        BY <2>4, <3>2, <4>1, Zenon
      <4>3. /\ k \in 1 .. fst + (i - old - 1) - 1 /\ len > 0
            /\ i - old - 1 \in 0 .. len /\ old + (i - old - 1) = i - 1
        BY <4>2, PushedBetween
      <4>4. QED
        BY <4>1, <4>3, Zenon
    <3>4. \E j \in 1 .. n + (i - n - 1) : pushed'[j] = <<srv.inc, k>>
      BY <1>7, <2>2, <3>2, <3>3, Zenon
    <3>5. QED
      BY <3>3, <3>4, Zenon
  <2>5. QED
    BY <2>3, <2>4, Zenon
<1>9. ASSUME Ours, p.inc = srv.inc, p.len > 0 PROVE Delivered(e)'
  <2>0. srv' = srv
    OBVIOUS
  <2>1. SUFFICES ASSUME NEW k \in 1 .. e - 1 PROVE <<srv.inc, k>> \in Range(pushed')
    BY <1>0, <2>0, Zenon DEF Delivered
  <2>2. p.len \in 0 .. p.len /\ k \in 1 .. f + p.len - 1
    BY <1>1
  <2>3. PICK j \in 1 .. n + p.len : pushed'[j] = <<srv.inc, k>>
    BY <1>7, <1>9, <2>2, Zenon
  <2>4. QED
    BY <1>2, <2>3, Zenon DEF Range
<1>10. QED
  BY <1>2, <1>5, <1>6, <1>8, <1>9, Zenon

\* A payload without space in the stream: the last that the client takes.
LEMMA RefuseBytes ==
  ASSUME SessionTypes, BytesInv, NEW p \in ServerSegments, UNCHANGED <<srv, iss, pushed>>,
         refused = <<>>, refused' = BytesOf(p), NEW e, e = p.first + p.len,
         Ours /\ p.inc = srv.inc /\ p.len > 0 => p.first >= 1 /\ Delivered(p.first)
  PROVE  /\ Taken \subseteq Taken'
         /\ NoByteSkipped'
         /\ \A i \in DOMAIN pushed' : pushed'[i][1] \in 1 .. srv.inc
         /\ Ours /\ p.inc = srv.inc /\ p.len > 0 => Delivered(e)'
<1> DEFINE f == p.first
<1>1. Taken = Range(pushed) /\ Taken' = Range(pushed) \cup Range(BytesOf(p))
  BY DEF Taken, Range
<1>2. NoByteSkipped'
  <2>1. NoByteSkipped /\ Ours' = Ours
    BY Zenon DEF BytesInv, Ours, Open
  <2>2. QED
    BY <2>1, SkippedKept, Zenon
<1>3. \A i \in DOMAIN pushed' : pushed'[i][1] \in 1 .. srv.inc
  BY Zenon DEF BytesInv
<1>4. ASSUME Ours, p.inc = srv.inc, p.len > 0 PROVE Delivered(e)'
  <2>1. p.len \in Nat /\ f \in Nat /\ f >= 1 /\ Delivered(f)
    BY <1>4 DEF ServerSegments
  <2>2. SUFFICES ASSUME NEW k \in 1 .. e - 1 PROVE <<srv.inc, k>> \in Taken'
    BY Zenon DEF Delivered
  <2>3. CASE k < f
    <3>1. k \in 1 .. f - 1
      BY <2>1, <2>3
    <3>2. QED
      BY <1>1, <2>1, <3>1, Zenon DEF Delivered
  <2>4. CASE ~ k < f
    <3>1. k - f + 1 \in 1 .. p.len /\ f + (k - f + 1) - 1 = k
      BY <2>1, <2>4
    <3>2. BytesOf(p)[k - f + 1] = <<srv.inc, k>> /\ k - f + 1 \in DOMAIN BytesOf(p)
      BY <1>4, <3>1, Zenon DEF BytesOf
    <3>3. QED
      BY <1>1, <3>2, Zenon DEF Range
  <2>5. QED
    BY <2>3, <2>4, Zenon
<1>5. QED
  BY <1>1, <1>2, <1>3, <1>4, Zenon

LEMMA DeliveredBefore ==
  ASSUME NEW i \in Nat, NEW j \in Nat, i <= j, Delivered(j)
  PROVE  Delivered(i)
<1>1. 1 .. i - 1 \subseteq 1 .. j - 1
  OBVIOUS
<1>2. QED
  BY <1>1 DEF Delivered

LEMMA DeliveredKept ==
  ASSUME UNCHANGED srv, Taken \subseteq Taken', NEW i, Delivered(i)
  PROVE  Delivered(i)'
BY DEF Delivered

(***************************************************************************)
(* A segment that process_packet returns from, whether or not the stream   *)
(* has space for it.  What precedes its payload was delivered; either      *)
(* nothing is answered, or the answer acknowledges the segment to its end. *)
(***************************************************************************)
Returned == life' = "running" \/ fault' = "Not enough space"

TakesSilently(p) ==
  /\ UNCHANGED <<state, ack>> /\ sent' = <<>>
  /\ state = "Connecting" => p.len = 0

Answers(p) ==
  /\ Ours /\ p.inc = srv.inc /\ state' = "Connected"
  /\ \E s : sent' = <<Segment("ACK", s, ack', 0)>>
  /\ \E i \in 1 .. DataEnd :
       /\ ack' = NumberOf(srv.inc, i)
       /\ IF p.len > 0 THEN i = p.first + p.len ELSE i = 1

LEMMA PacketTaken ==
  ASSUME NumbersStayPositive, NumbersInv, BytesInv, NEW p \in Range(toClient), ProcessPacket(p),
         UNCHANGED <<srv, iss>>, Returned
  PROVE  /\ SentByServer(p) /\ life = "running" /\ Started /\ Started' /\ state # "Offline"
         /\ Ours /\ p.inc = srv.inc /\ p.len > 0 => p.first >= 1 /\ Delivered(p.first)
         /\ TakesSilently(p) \/ Answers(p)
<1> USE SessionAssumption
<1>1. SessionTypes /\ ServerCounts /\ ClientKnows
  BY Zenon DEF NumbersInv, BytesInv
<1>2. p \in ServerSegments
  BY <1>1, InWire, Zenon DEF SessionTypes
<1>3. p.seq \in Int /\ p.len \in Nat /\ p.first \in Nat
  BY <1>2 DEF ServerSegments
<1>4. life = "running" /\ state # "Offline" /\ Started /\ state \in States
  BY <1>1, Zenon DEF ProcessPacket, RejectPacket, IgnoreOldPacket, RejectAck, AcceptSynAck,
         AcceptPayload, AcceptAckOnly, Receiving, Started, SessionTypes
<1>5. \/ IgnoreOldPacket(p) \/ AcceptAckOnly(p)
      \/ AcceptSynAck(p) /\ p.options.kind # BadOptions
      \/ AcceptPayload(p)
  BY Zenon DEF Returned, ProcessPacket, RejectPacket, RejectAck, AcceptSynAck, Throw
<1>6. p.flags # "RST" /\ SentByServer(p) /\ ~ Resets(p)
  <2>1. ~ Resets(p)
    BY <1>5, Zenon DEF IgnoreOldPacket, AcceptAckOnly, AcceptSynAck, AcceptPayload, InSequence
  <2>2. p.flags # "RST"
    BY <2>1, Zenon DEF Resets
  <2>3. QED
    BY <2>1, <2>2, Zenon DEF BytesInv
<1>7. p.first \in Counts /\ srv.inc \in Nat /\ srv.inc <= MaxConnections
      /\ p.inc \in 1 .. MaxConnections /\ p.inc \in 1 .. srv.inc
  <2>1. srv.inc \in Nat /\ srv.inc <= MaxConnections /\ MaxConnections \in Nat
    BY <1>1, SrvFields
  <2>2. QED
    BY <1>3, <1>6, <2>1 DEF SentByServer, Counts
<1>8. Ours => DataEnd \in Nat /\ 1 <= DataEnd /\ DataEnd <= ServerBytes + 1
              /\ srv.inc \in 1 .. MaxConnections
  BY <1>1, DataEndCounts, Zenon DEF Ours
<1>9. state = "Connected" =>
        Ours /\ \E i \in 1 .. DataEnd : ack = NumberOf(srv.inc, i) /\ Delivered(i)
  BY <1>1, <1>4, Zenon DEF ClientKnows
<1>10. state = "Connecting" \/ state = "Connected"
  BY <1>4, Zenon DEF States
<1>11. state = "Connecting" => ack = 0
  BY <1>1, <1>4, Zenon DEF ClientKnows
<1>12. ASSUME AckOk(p) PROVE Ours /\ p.inc = srv.inc
  BY <1>4, <1>6, <1>12, AcceptedAck, Zenon
<1>13. ASSUME state = "Connecting", AckOk(p) PROVE p.len = 0
  <2>1. Ours /\ p.inc = srv.inc
    BY <1>12, <1>13, Zenon
  <2>2. srv.phase = "synrcvd" /\ DataEnd = 1 /\ Open
    BY <1>1, <1>13, <2>1, Zenon DEF ClientKnows, ServerCounts, DataEnd, Ours
  <2>3. p.len > 0 => p.first >= 1 /\ p.first + p.len <= DataEnd
    BY <1>6, <2>1, <2>2, Zenon DEF SentByServer
  <2>4. QED
    BY <1>3, <2>2, <2>3
<1>14. Started'
  <2>1. state' \in {state, "Connected"}
    BY <1>5, Zenon DEF IgnoreOldPacket, AcceptAckOnly, AcceptSynAck, AcceptPayload, conn
  <2>2. QED
    BY <1>4, <2>1 DEF Started
<1>15. CASE IgnoreOldPacket(p)
  <2>1. UNCHANGED <<state, ack>> /\ sent' = <<>> /\ SeqLess(p.seq, ack) /\ ack # 0
    BY <1>15, Zenon DEF IgnoreOldPacket, Old, Return, conn
  <2>2. state = "Connected"
    BY <1>10, <1>11, <2>1, Zenon
  <2>3. PICK i \in 1 .. DataEnd : ack = NumberOf(srv.inc, i) /\ Delivered(i)
    BY <1>9, <2>2, Zenon
  <2>4. i \in Nat /\ i >= 1 /\ i \in Counts
    BY <1>8, <1>9, <2>2 DEF Counts
  <2>5. p.inc = srv.inc => p.first < i
    BY <1>6, <1>7, <2>1, <2>3, <2>4, NumberOrdered, Zenon DEF SentByServer
  <2>6. p.inc = srv.inc => Delivered(p.first)
    BY <1>3, <2>3, <2>4, <2>5, DeliveredBefore
  <2>7. p.len > 0 => p.first >= 1
    BY <1>6, Zenon DEF SentByServer
  <2>8. QED
    BY <1>4, <1>6, <1>14, <2>1, <2>2, <2>6, <2>7, Zenon DEF TakesSilently
<1>16. CASE AcceptAckOnly(p)
  <2>1. UNCHANGED <<state, ack>> /\ sent' = <<>> /\ AckOk(p) /\ (state = "Connecting" \/ p.len = 0)
    BY <1>16, Zenon DEF AcceptAckOnly, Return
  <2>2. p.len = 0
    BY <1>13, <2>1, Zenon
  <2>3. QED
    BY <1>4, <1>6, <1>14, <2>1, <2>2 DEF TakesSilently
<1>17. CASE AcceptSynAck(p) /\ p.options.kind # BadOptions
  <2>1. /\ state = "Connecting" /\ p.flags = "SYN_ACK" /\ AckOk(p)
        /\ state' = "Connected" /\ ack' = SeqPlus(p.seq, 1)
        /\ SendSegment("ACK", 0, SeqPlus(seq, 1), ack', unacknowledged_bytes - BytesAcked(p), send_wnd', p.len)
    BY <1>17, Zenon DEF AcceptSynAck, CompletesHandshake
  <2>2. Ours /\ p.inc = srv.inc /\ p.len = 0 /\ p.first = 0
    BY <1>6, <1>12, <2>1, Zenon DEF SentByServer
  <2>3. ack' = NumberOf(srv.inc, 1)
    <3>1. p.seq = NumberOf(srv.inc, 0) /\ 0 \in Counts /\ 1 \in Nat /\ 0 + 1 \in Counts /\ 0 + 1 = 1
      BY <1>6, <2>2 DEF SentByServer, Counts
    <3>2. SeqPlus(NumberOf(srv.inc, 0), 1) = NumberOf(srv.inc, 0 + 1)
      BY <1>8, <2>2, <3>1, NumberOnward, Zenon
    <3>3. QED
      BY <2>1, <3>1, <3>2, Zenon
  <2>4. sent' = <<Segment("ACK", SeqPlus(seq, 1), ack', 0)>>
    BY <2>1, SendOutcome, Zenon DEF Returned
  <2>5. 1 \in 1 .. DataEnd /\ ~ (p.len > 0)
    BY <1>8, <2>2
  <2>6. QED
    BY <1>4, <1>6, <1>14, <2>1, <2>2, <2>3, <2>4, <2>5, Zenon DEF Answers
<1>18. CASE AcceptPayload(p)
  <2>1. /\ state = "Connected" /\ p.len > 0 /\ AckOk(p) /\ Expected(p)
        /\ UNCHANGED state /\ ack' = SeqPlus(p.seq, p.len)
        /\ SendSegment("ACK", 0, seq, ack', unacknowledged_bytes - BytesAcked(p), send_wnd', p.len)
    BY <1>18, Zenon DEF AcceptPayload, InSequence
  <2>2. Ours /\ p.inc = srv.inc /\ Open
    BY <1>12, <2>1, Zenon DEF Ours
  <2>3. PICK i \in 1 .. DataEnd : ack = NumberOf(srv.inc, i) /\ Delivered(i)
    BY <1>9, <2>1, Zenon
  <2>4. i \in Counts /\ srv.inc \in 1 .. MaxConnections
    BY <1>8, <2>2 DEF Counts
  <2>5. p.seq = ack
    <3>1. 0 < ack
      BY <2>3, <2>4, NumberIsSum, Zenon
    <3>2. QED
      BY <2>1, <3>1 DEF Expected
  <2>6. p.first = i
    <3>1. NumberOf(srv.inc, p.first) = NumberOf(srv.inc, i)
      BY <1>6, <2>2, <2>3, <2>5, Zenon DEF SentByServer
    <3>2. QED
      BY <1>7, <2>4, <3>1, NumberUnique, Zenon
  <2>7. p.first >= 1 /\ p.first + p.len <= DataEnd
    BY <1>6, <2>1, <2>2, Zenon DEF SentByServer
  <2>8. p.first + p.len \in 1 .. DataEnd /\ p.first + p.len \in Counts
    <3>1. PICK j \in Nat : j = p.first + p.len /\ 1 <= j /\ j <= DataEnd
      BY <1>3, <2>7
    <3>2. DataEnd \in Nat /\ DataEnd <= ServerBytes + 1
      BY <1>8, <2>2, Zenon
    <3>3. j \in 1 .. DataEnd /\ j \in Counts
      BY <3>1, <3>2, SessionAssumption DEF Counts
    <3>4. QED
      BY <3>1, <3>3, Zenon
  <2>9. ack' = NumberOf(srv.inc, p.first + p.len)
    <3>1. SeqPlus(NumberOf(srv.inc, p.first), p.len) = NumberOf(srv.inc, p.first + p.len)
      BY <1>3, <1>7, <2>4, <2>8, NumberOnward, Zenon
    <3>2. p.seq = NumberOf(srv.inc, p.first)
      BY <1>6, <2>2, Zenon DEF SentByServer
    <3>3. QED
      BY <2>1, <3>1, <3>2, Zenon
  <2>10. sent' = <<Segment("ACK", seq, ack', 0)>>
    BY <2>1, SendOutcome, Zenon DEF Returned
  <2>11. Answers(p)
    BY <2>1, <2>2, <2>8, <2>9, <2>10, Zenon DEF Answers
  <2>12. QED
    BY <1>4, <1>6, <1>14, <2>3, <2>6, <2>7, <2>11, Zenon
<1>19. QED
  BY <1>5, <1>15, <1>16, <1>17, <1>18, Zenon

\* What a handler sends is all that is new on the wire.
Sends(q) == sent' = <<q>> /\ (q.flags \notin {"SYN", "RST"} => AckedByClient(q)')

LEMMA TransmitBytes ==
  ASSUME SessionTypes, Transmit, sent' = <<>> \/ \E q : Sends(q)
  PROVE  /\ Range(toServer') \subseteq Range(toServer) \cup Range(sent')
         /\ \A q \in Range(sent') : q.flags \notin {"SYN", "RST"} => AckedByClient(q)'
<1>1. CASE sent' = <<>>
  <2>1. toServer' = toServer /\ Range(sent') = {}
    BY <1>1, TransmitNothing, Zenon
  <2>2. QED
    BY <2>1
<1>2. ASSUME NEW q, Sends(q)
      PROVE  /\ Range(toServer') \subseteq Range(toServer) \cup Range(sent')
             /\ \A r \in Range(sent') : r.flags \notin {"SYN", "RST"} => AckedByClient(r)'
  <2>1. PICK w : w = toServer
    OBVIOUS
  <2>2. PICK r : r = <<q>>
    BY Zenon
  <2>3. /\ w \in Seq(ClientSegments \cup {q})
        /\ r \in Seq(ClientSegments \cup {q}) /\ Range(r) = {q}
    BY <2>1, <2>2 DEF SessionTypes, Range
  <2>4. toServer' = w \o r /\ sent' = r
    BY <1>2, <2>1, <2>2, Zenon DEF Transmit, Sends
  <2>5. Range(toServer') = Range(toServer) \cup {q} /\ Range(sent') = {q}
    <3>1. Range(w \o r) = Range(w) \cup Range(r)
      BY <2>3, WireJoined
    <3>2. QED
      BY <2>1, <2>3, <2>4, <3>1, Zenon
  <2>6. QED
    BY <1>2, <2>5 DEF Sends
<1>3. QED
  BY <1>1, <1>2, Zenon

\* A step of the client that pushes nothing.
LEMMA QuietBytes ==
  ASSUME SessionTypes, BytesInv, UNCHANGED <<srv, iss, pushed, refused>>, Transmit,
         Range(toClient') \subseteq Range(toClient),
         sent' = <<>> \/ \E q : Sends(q),
         Ours /\ state # "Connecting" => state' # "Connecting", ClientKnows',
         life' = "running" => life = "running"
  PROVE  BytesInv'
<1>1. NoByteSkipped' /\ Taken \subseteq Taken'
      /\ \A i \in DOMAIN pushed' : pushed'[i][1] \in 1 .. srv.inc
  <2>1. NoByteSkipped /\ Ours' = Ours
    BY Zenon DEF BytesInv, Ours, Open
  <2>2. QED
    BY <2>1, SkippedKept, TakenKept, Zenon DEF BytesInv
<1>2. /\ Range(toServer') \subseteq Range(toServer) \cup Range(sent')
      /\ \A q \in Range(sent') : q.flags \notin {"SYN", "RST"} => AckedByClient(q)'
  BY TransmitBytes, Zenon
<1>3. refused' # <<>> => life' # "running"
  BY Zenon DEF BytesInv, AckedBytesWereDelivered
<1>4. QED
  BY <1>1, <1>2, <1>3, ClientBytesStep, Zenon

LEMMA ConnectBytes ==
  ASSUME NumbersInv, BytesInv, ClientConnect
  PROVE  BytesInv'
<1>1. SessionTypes /\ ServerKnows /\ ClientKnows /\ Transmit
  BY DEF NumbersInv, BytesInv, ClientConnect
<1>2. UNCHANGED <<srv, iss, toClient, pushed, refused>>
  BY DEF ClientConnect
<1>3. ~ Started /\ life = "running" /\ state = "Offline"
  BY Zenon DEF ClientConnect, Connect, Started
<1>4. ~ Ours /\ pushed = <<>> /\ ack = 0
  BY <1>1, <1>3, Zenon DEF ServerKnows, Ours, ClientKnows
<1>5. /\ UNCHANGED ack /\ state' \in {"Offline", "Connecting"}
      /\ sent' = <<>> \/ sent' = <<Segment("SYN", seq, ack, 0)>>
  BY <1>3, Zenon DEF ClientConnect, Connect, Throw, Return, conn
<1>6. Ours' = Ours
  BY <1>2, Zenon DEF Ours, Open
<1>7. ClientKnows'
  BY <1>2, <1>4, <1>5, <1>6, Zenon DEF ClientKnows
<1>8. sent' = <<>> \/ \E q : Sends(q)
  <2>1. PICK q : q = Segment("SYN", seq, ack, 0)
    BY Zenon
  <2>2. q.flags = "SYN"
    BY <2>1 DEF Segment
  <2>3. sent' = <<q>> => Sends(q)
    BY <2>2 DEF Sends
  <2>4. QED
    BY <1>5, <2>1, <2>3, Zenon
<1>9. QED
  BY <1>1, <1>2, <1>3, <1>4, <1>7, <1>8, QuietBytes, Zenon

\* An acknowledgment of the connection that the client has.
LEMMA AckSent ==
  ASSUME SessionTypes, BytesInv, Ours, UNCHANGED <<srv, iss>>, state' # "Connecting",
         NEW q, NEW i \in 1 .. DataEnd, q.ack = NumberOf(srv.inc, i), Delivered(i)'
  PROVE  AckedByClient(q)'
<1>1. DataEnd \in Nat /\ DataEnd <= ServerBytes + 1 /\ srv.inc \in Nat /\ srv.inc >= 1
  BY DataEndCounts DEF BytesInv, Ours
<1>2. i \in 1 .. ServerBytes + 1 /\ srv.inc \in 1 .. srv.inc /\ srv' = srv
  BY <1>1, SessionAssumption
<1>3. QED
  BY <1>2, Zenon DEF AckedByClient

LEMMA SendBytes ==
  ASSUME NumbersInv, BytesInv, ClientSend
  PROVE  BytesInv'
<1>1. SessionTypes /\ ClientKnows /\ Transmit
  BY DEF NumbersInv, BytesInv, ClientSend
<1>2. PICK len \in SendSizes : Send(len)
  BY Zenon DEF ClientSend
<1>3. UNCHANGED <<srv, iss, toClient, pushed, refused, state, ack>> /\ state = "Connected" /\ life = "running"
  BY <1>2 DEF ClientSend, Send
<1>4. PICK i \in 1 .. DataEnd : Ours /\ ack = NumberOf(srv.inc, i) /\ Delivered(i)
  BY <1>1, <1>3, Zenon DEF ClientKnows
<1>5. Delivered(i)' /\ DataEnd' = DataEnd /\ Ours'
  BY <1>3, <1>4, TakenKept, Zenon DEF Delivered, DataEnd, Ours, Open
<1>6. sent' = <<>> \/ sent' = <<Segment("PSH_ACK", seq, ack, len)>>
  BY <1>2, SendOutcome, Zenon DEF Send
<1>7. sent' = <<>> \/ \E q : Sends(q)
  <2>1. PICK q : q = Segment("PSH_ACK", seq, ack, len)
    OBVIOUS
  <2>2. q.ack = NumberOf(srv.inc, i)
    BY <1>4, <2>1, Zenon DEF Segment
  <2>3. AckedByClient(q)'
    BY <1>1, <1>3, <1>4, <1>5, <2>2, AckSent, Zenon
  <2>4. QED
    BY <1>6, <2>1, <2>3, Zenon DEF Sends
<1>8. ClientKnows'
  <2>1. ack' = NumberOf(srv'.inc, i) /\ i \in 1 .. DataEnd'
    BY <1>3, <1>4, <1>5, Zenon
  <2>2. QED
    BY <1>3, <1>5, <2>1, Zenon DEF ClientKnows, Started
<1>9. QED
  BY <1>1, <1>3, <1>7, <1>8, QuietBytes, Zenon

\* A received segment: rejected, taken silently, or answered.
LEMMA ReceivePacketBytes ==
  ASSUME NumbersStayPositive, NumbersInv, BytesInv, ClientReceive
  PROVE  BytesInv'
<1>1. SessionTypes /\ ClientKnows /\ Transmit
  BY Zenon DEF NumbersInv, BytesInv, ClientReceive
<1>2. PICK p : p = Head(toClient)
  OBVIOUS
<1>3. p \in ServerSegments /\ p \in Range(toClient) /\ Range(toClient') \subseteq Range(toClient)
  BY <1>1, <1>2, WireTaken, Zenon DEF SessionTypes, ClientReceive
<1>4. ProcessPacket(p) /\ UNCHANGED <<srv, iss>> /\ Deliver(p)
  BY <1>2, Zenon DEF ClientReceive
<1>5. Ours' = Ours /\ DataEnd' = DataEnd
  BY <1>4, Zenon DEF Ours, Open, DataEnd
<1>6. life = "running" /\ state # "Offline" /\ state' \in {state, "Connected"} /\ life' \in {life, "unwinding"}
  BY <1>4, Zenon DEF ProcessPacket, RejectPacket, IgnoreOldPacket, RejectAck, AcceptSynAck,
         AcceptPayload, AcceptAckOnly, Receiving, SendSegment, Throw, Return, conn
<1>7. state # "Connecting" => state' # "Connecting"
  BY <1>6, Zenon
<1>0. refused = <<>>
  BY <1>6, Zenon DEF BytesInv, AckedBytesWereDelivered
<1>8. CASE life' # "running" /\ fault' # "Not enough space"
  <2>1. sent' = <<>>
    BY <1>4, <1>6, <1>8, Zenon DEF ProcessPacket, RejectPacket, IgnoreOldPacket, RejectAck,
           AcceptSynAck, AcceptPayload, AcceptAckOnly, SendSegment, Throw, Return
  <2>2. UNCHANGED <<pushed, refused>>
    BY <1>4, <1>8, Zenon DEF Deliver
  <2>3. ClientKnows'
    BY <1>1, <1>4, <1>5, <1>6, <1>8, <2>2, Zenon DEF ClientKnows, Started
  <2>4. QED
    BY <1>1, <1>3, <1>4, <1>6, <1>7, <2>1, <2>2, <2>3, QuietBytes, Zenon
<1>9. CASE life' = "running" \/ fault' = "Not enough space"
  <2>1. /\ SentByServer(p) /\ Started'
        /\ Ours /\ p.inc = srv.inc /\ p.len > 0 => p.first >= 1 /\ Delivered(p.first)
        /\ TakesSilently(p) \/ Answers(p)
    BY <1>3, <1>4, <1>9, PacketTaken, Zenon DEF Returned
  <2>2. PICK e : e = p.first + p.len
    BY Zenon
  <2>3. /\ p.inc \in 1 .. srv.inc /\ p.len \in Nat
        /\ \/ life' = "running" /\ pushed' = pushed \o BytesOf(p) /\ refused' = <<>>
           \/ life' # "running" /\ pushed' = pushed /\ refused' = BytesOf(p)
    BY <1>0, <1>3, <1>4, <1>9, <2>1, Zenon DEF SentByServer, Deliver, ServerSegments
  <2>4. /\ Taken \subseteq Taken' /\ NoByteSkipped'
        /\ \A i \in DOMAIN pushed' : pushed'[i][1] \in 1 .. srv.inc
        /\ Ours /\ p.inc = srv.inc /\ p.len > 0 => Delivered(e)'
    <3>1. CASE pushed' = pushed \o BytesOf(p) /\ refused' = <<>>
      BY <1>0, <1>1, <1>3, <1>4, <2>1, <2>2, <2>3, <3>1, PushBytes, Zenon
    <3>2. CASE pushed' = pushed /\ refused' = BytesOf(p)
      BY <1>0, <1>1, <1>3, <1>4, <2>1, <2>2, <3>2, RefuseBytes, Zenon
    <3>3. QED
      BY <2>3, <3>1, <3>2, Zenon
  <2>5. (sent' = <<>> \/ \E q : Sends(q)) /\ ClientKnows'
    <3>1. CASE TakesSilently(p)
      <4>1. UNCHANGED <<state, ack>> /\ sent' = <<>> /\ (state = "Connecting" => p.len = 0)
        BY <3>1, Zenon DEF TakesSilently
      <4>2. state = "Connecting" => pushed' = <<>>
        <5>1. p.len = 0 => BytesOf(p) = <<>>
          BY <2>3 DEF BytesOf
        <5>2. state = "Connecting" => pushed = <<>>
          BY <1>1, Zenon DEF ClientKnows
        <5>3. <<>> \o <<>> = <<>>
          OBVIOUS
        <5>4. QED
          BY <2>3, <4>1, <5>1, <5>2, <5>3, Zenon
      <4>3. ASSUME state = "Connected"
            PROVE  Ours' /\ \E i \in 1 .. DataEnd' : ack' = NumberOf(srv'.inc, i) /\ Delivered(i)'
        <5>1. PICK i \in 1 .. DataEnd : Ours /\ ack = NumberOf(srv.inc, i) /\ Delivered(i)
          BY <1>1, <1>6, <4>3, Zenon DEF ClientKnows
        <5>2. Delivered(i)'
          BY <1>4, <2>4, <5>1, DeliveredKept, Zenon
        <5>3. QED
          BY <1>4, <1>5, <4>1, <5>1, <5>2, Zenon
      <4>4. ClientKnows'
        BY <1>1, <1>4, <1>5, <1>6, <1>9, <2>1, <4>1, <4>2, <4>3, Zenon DEF ClientKnows
      <4>5. QED
        BY <4>1, <4>4, Zenon
    <3>2. CASE Answers(p)
      <4>1. Ours /\ p.inc = srv.inc /\ state' = "Connected"
        BY <3>2, Zenon DEF Answers
      <4>2. PICK s : sent' = <<Segment("ACK", s, ack', 0)>>
        BY <3>2, Zenon DEF Answers
      <4>3. PICK i \in 1 .. DataEnd :
              ack' = NumberOf(srv.inc, i) /\ IF p.len > 0 THEN i = p.first + p.len ELSE i = 1
        BY <3>2, Zenon DEF Answers
      <4>4. Delivered(i)'
        <5>1. CASE p.len > 0
          BY <2>2, <2>4, <4>1, <4>3, <5>1, Zenon
        <5>2. CASE ~ (p.len > 0)
          <6>1. i = 1 /\ 1 .. i - 1 = {}
            BY <4>3, <5>2
          <6>2. QED
            BY <6>1, Zenon DEF Delivered
        <5>3. QED
          BY <5>1, <5>2, Zenon
      <4>5. \E q : Sends(q)
        <5>1. PICK q : q = Segment("ACK", s, ack', 0)
          BY Zenon
        <5>2. q.ack = NumberOf(srv.inc, i)
          BY <4>3, <5>1, Zenon DEF Segment
        <5>3. AckedByClient(q)'
          BY <1>1, <1>4, <4>1, <4>4, <5>2, AckSent, Zenon
        <5>4. QED
          BY <4>2, <5>1, <5>3, Zenon DEF Sends
      <4>6. ClientKnows'
        <5>1. ack' = NumberOf(srv'.inc, i) /\ i \in 1 .. DataEnd'
          BY <1>4, <1>5, <4>3, Zenon
        <5>2. QED
          BY <1>5, <2>1, <4>1, <4>4, <5>1, Zenon DEF ClientKnows
      <4>7. QED
        BY <4>5, <4>6, Zenon
    <3>3. QED
      BY <2>1, <3>1, <3>2, Zenon
  <2>6. /\ Range(toServer') \subseteq Range(toServer) \cup Range(sent')
        /\ \A q \in Range(sent') : q.flags \notin {"SYN", "RST"} => AckedByClient(q)'
    BY <1>1, <2>5, TransmitBytes, Zenon
  <2>7. refused' # <<>> => life' # "running"
    BY <2>3, Zenon
  <2>8. QED
    BY <1>1, <1>3, <1>4, <1>7, <2>4, <2>5, <2>6, <2>7, ClientBytesStep
<1>10. QED
  BY <1>8, <1>9, Zenon

\* The session ends: the stream keeps what it has, and a reset acknowledges
\* nothing.
LEMMA EndBytes ==
  ASSUME NumbersInv, BytesInv, ClientStop \/ ClientDestroy \/ ClientKill
  PROVE  BytesInv'
<1>1. SessionTypes /\ ClientKnows
  BY Zenon DEF NumbersInv, BytesInv
<1>2. /\ UNCHANGED <<srv, iss, toClient, pushed, refused, ack>>
      /\ life' \in {"unwinding", "destroyed", "terminated"}
      /\ state' = state \/ state' = "Offline"
  BY Zenon DEF ClientStop, ClientDestroy, ClientKill, Stop, Destroy, session, conn
<1>3. Ours' = Ours /\ Started'
  BY <1>2, Zenon DEF Ours, Open, Started
<1>4. ClientKnows'
  BY <1>1, <1>2, <1>3, Zenon DEF ClientKnows
<1>5. Transmit /\ (sent' = <<>> \/ \E q : Sends(q))
  <2>1. CASE sent' = <<>>
    <3>1. toServer \o <<>> = toServer
      BY <1>1 DEF SessionTypes
    <3>2. QED
      BY <2>1, <3>1, Zenon DEF Transmit, ClientStop, ClientDestroy, ClientKill, session
  <2>2. CASE ClientDestroy /\ sent' # <<>>
    <3>1. PICK q : q = Segment("RST", seq, ack, 0)
      BY Zenon
    <3>2. sent' = <<q>> /\ q.flags = "RST" /\ Transmit
      BY <2>2, <3>1, Zenon DEF ClientDestroy, Destroy, Segment
    <3>3. QED
      BY <3>2 DEF Sends
  <2>3. QED
    BY <2>1, <2>2, Zenon DEF ClientStop, ClientKill, Stop
<1>6. QED
  BY <1>1, <1>2, <1>4, <1>5, QuietBytes, Zenon

\* A new client has no connection yet, and an empty stream.
LEMMA RestartBytes ==
  ASSUME NumbersInv, NumbersInv', BytesInv, ClientRestart
  PROVE  BytesInv'
<1>1. SessionTypes /\ ServerCounts
  BY Zenon DEF NumbersInv, BytesInv
<1>2. UNCHANGED <<srv, toServer>> /\ state' = "Offline" /\ life' = "running" /\ ack' = 0
      /\ pushed' = <<>> /\ refused' = <<>>
  BY Zenon DEF ClientRestart
<1>3. ~ Ours' /\ ~ Started'
  <2>1. ~ Started'
    BY <1>2, Zenon DEF Started
  <2>2. QED
    BY <2>1, Zenon DEF NumbersInv, ServerKnows, Ours
<1>4. Open' = Open /\ DataEnd' = DataEnd
  BY <1>2, Zenon DEF Open, DataEnd
<1>5. Range(toClient') \subseteq Range(toClient)
  <2>1. PICK k \in 0 .. Len(toClient) : toClient' = SubSeq(toClient, k + 1, Len(toClient))
    BY Zenon DEF ClientRestart
  <2>2. toClient \in Seq(ServerSegments)
    BY <1>1, Zenon DEF SessionTypes
  <2>3. k + 1 \in Nat \ {0} /\ Len(toClient) \in Nat /\ Len(toClient) <= Len(toClient)
    BY <2>2
  <2>4. QED
    BY <2>1, <2>2, <2>3, WirePart, Zenon
<1>6. ServerCounts'
  BY <1>1, <1>2, <1>4, Zenon DEF ServerCounts
<1>7. \A p \in Range(toClient') : p.flags # "RST" => SentByServer(p)'
  BY <1>2, <1>4, <1>5, Zenon DEF BytesInv, SentByServer
<1>8. ASSUME NEW q \in Range(toServer'), q.flags \notin {"SYN", "RST"} PROVE AckedByClient(q)'
  <2>1. AckedByClient(q)
    BY <1>2, <1>8, Zenon DEF BytesInv
  <2>2. QED
    BY <1>2, <1>3, <2>1, Zenon DEF AckedByClient
<1>9. ClientKnows' /\ NoByteSkipped' /\ AckedBytesWereDelivered'
  BY <1>2, <1>3, Zenon DEF ClientKnows, NoByteSkipped, AckedBytesWereDelivered
<1>10. \A i \in DOMAIN pushed' : pushed'[i][1] \in 1 .. srv'.inc
  BY <1>2
<1>11. QED
  BY <1>6, <1>7, <1>8, <1>9, <1>10, Zenon DEF BytesInv, Range

LEMMA BytesNext ==
  ASSUME NumbersStayPositive, NumbersInv, NumbersInv', BytesInv, [SessionNext]_allVars
  PROVE  BytesInv'
<1>1. CASE ClientConnect
  BY <1>1, ConnectBytes, Zenon
<1>2. CASE ClientSend
  BY <1>2, SendBytes, Zenon
<1>3. CASE ClientReceive
  BY <1>3, ReceivePacketBytes, Zenon
<1>4. CASE ClientStop \/ ClientDestroy \/ ClientKill
  BY <1>4, EndBytes, Zenon
<1>5. CASE ClientRestart
  BY <1>5, RestartBytes, Zenon
<1>6. CASE ServerListen
  BY <1>6, ListenBytes, Zenon
<1>7. CASE ServerReceive
  BY <1>7, ReceiveBytes, Zenon
<1>8. CASE ServerWrite
  BY <1>8, WriteBytes
<1>9. CASE ServerClose
  BY <1>9, CloseBytes, Zenon
<1>10. CASE ServerRetransmit
  BY <1>10, RetransmitBytes, Zenon
<1>11. CASE NetworkFault
  BY <1>11, FaultBytes, Zenon
<1>12. CASE UNCHANGED allVars
  <2>1. SessionTypes
    BY Zenon DEF NumbersInv
  <2>2. UNCHANGED <<vars, srv, iss, pushed, refused, toClient, toServer>>
    BY <1>12 DEF allVars, session
  <2>3. QED
    BY <2>1, <2>2, WiresBytes, Zenon
<1>13. QED
  BY <1>1, <1>2, <1>3, <1>4, <1>5, <1>6, <1>7, <1>8, <1>9, <1>10, <1>11, <1>12, Zenon DEF SessionNext

LEMMA BytesInvariance ==
  ASSUME NumbersStayPositive
  PROVE  SessionSpec => []BytesInv
<1>1. NumbersInv /\ NumbersInv' /\ BytesInv /\ [SessionNext]_allVars => BytesInv'
  BY BytesNext
<1>2. SessionInit => BytesInv
  BY BytesInit
<1>3. QED
  BY <1>1, <1>2, NumbersInvariance, PTL DEF SessionSpec

(***************************************************************************)
(* No byte of the connection reaches the TLS stream before the bytes that  *)
(* precede it ("Misses are not supported", client.cpp:68): for any number  *)
(* of bytes, losses, duplicates, overtakings, retransmissions and restarts,*)
(* if the server's numbers do not reach 0.                                 *)
(***************************************************************************)
THEOREM BytesArriveInOrder ==
  ASSUME NumbersStayPositive
  PROVE  SessionSpec => []NoByteSkipped
<1>1. BytesInv => NoByteSkipped
  BY DEF BytesInv
<1>2. QED
  BY <1>1, BytesInvariance, PTL

(***************************************************************************)
(* What the server has seen acknowledged by the ACK of client.cpp:96-99    *)
(* was pushed into the TLS stream, or was in the payload whose push threw  *)
(* "Not enough space" and ended the session (stream.cpp:41): if the        *)
(* server's numbers do not reach 0.                                        *)
(***************************************************************************)
THEOREM AckedBytesAreDelivered ==
  ASSUME NumbersStayPositive
  PROVE  SessionSpec => []AckedBytesWereDelivered
<1>1. BytesInv => AckedBytesWereDelivered
  BY DEF BytesInv
<1>2. QED
  BY <1>1, BytesInvariance, PTL

(***************************************************************************)
(* While ack is 0 and any sequence number is taken (client.cpp:68), no     *)
(* payload gets through, not even one meant for the client before a        *)
(* restart.                                                                *)
(***************************************************************************)
THEOREM StreamEmptyBeforeHandshake ==
  ASSUME NumbersStayPositive
  PROVE  SessionSpec => []NothingBeforeHandshake
<1>1. BytesInv => NothingBeforeHandshake
  BY DEF BytesInv, ClientKnows, NothingBeforeHandshake
<1>2. QED
  BY <1>1, BytesInvariance, PTL

(***************************************************************************)
(* A connected client acknowledges a byte of its own connection: ack       *)
(* (client.cpp:84 and 97) is never a number of one before, or beyond a FIN.*)
(***************************************************************************)
THEOREM AckIsAlwaysOurs ==
  ASSUME NumbersStayPositive
  PROVE  SessionSpec => []AckIsOurs
<1>1. BytesInv => AckIsOurs
  BY DEF BytesInv, ClientKnows, AckIsOurs
<1>2. QED
  BY <1>1, BytesInvariance, PTL
=============================================================================
