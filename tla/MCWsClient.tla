----------------------------- MODULE MCWsClient -----------------------------
(***************************************************************************)
(* Scripts of a few frames: one with each kind of header, a ping and a     *)
(* continuation behind the last message, more pings than the stream can    *)
(* hold when each packet takes out only one, and a frame of 125 bytes      *)
(* behind these; and one with a ping between two texts.                    *)
(***************************************************************************)
EXTENDS WsClient

Frame(op, length, size) == [op |-> op, length |-> length, size |-> size]

AllFrames ==
  <<Frame("Text", "short", 1), Frame("Binary", "16", 2), Frame("Text", "short", 0),
    Frame("Text", "64", 3), Frame("Ping", "short", 1), Frame("Continuation", "short", 1)>>
  \o [i \in 1 .. 12 |-> Frame("Ping", "short", 0)]
  \o <<Frame("Text", "125", 3), Frame("Text", "short", 2), Frame("Text", "short", 1)>>
PingBetween == <<Frame("Text", "short", 1), Frame("Ping", "short", 0), Frame("Text", "short", 2)>>

MaxFrame == Max({Len(CellsOf(k)) : k \in 0 .. Len(Frames)})

MCMaxPlain == 4
\* The smallest capacity that can work: see NoFaultInStep.
TightCapacity == MaxFrame - 1 + MCMaxPlain
=============================================================================
