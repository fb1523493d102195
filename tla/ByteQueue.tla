----------------------------- MODULE ByteQueue ------------------------------
(***************************************************************************)
(* What base::Stream promises its users: a bounded first-in first-out      *)
(* queue of bytes.  Appending keeps what is there, popping takes from the  *)
(* front, and nothing else changes the content.                            *)
(***************************************************************************)
EXTENDS Naturals, Sequences

CONSTANTS
  Capacity,   \* the most the queue holds
  Chunk       \* the byte sequences users push

VARIABLE content

Init == content = <<>>

Push(bytes) ==
  /\ Len(content) + Len(bytes) <= Capacity
  /\ content' = content \o bytes

Pop(n) ==
  /\ n <= Len(content)
  /\ content' = SubSeq(content, n + 1, Len(content))

Next ==
  \/ \E bytes \in Chunk : Push(bytes)
  \/ \E n \in 0 .. Capacity : Pop(n)

Spec == Init /\ [][Next]_content
=============================================================================
