----------------------------- MODULE MCGateway ------------------------------
(***************************************************************************)
(* A server whose messages take one cell each; its response and the first  *)
(* frame share a record, the second frame is cut by a record's end.        *)
(***************************************************************************)
EXTENDS Gateway

Record(type, body) == [type |-> type, body |-> body]
MCScript ==
  <<Record("Handshake", <<"ServerHello">>),
    Record("Handshake", <<"Certificate">>),
    Record("Handshake", <<"ServerKeyExchange">>),
    Record("Handshake", <<"ServerHelloDone">>),
    Record("ChangeCipher", <<"1">>),
    Record("Handshake", <<"Finished">>),
    Record("ApplicationData", <<"iv", "a", "b", "c", "d", "e", "tag">>),
    Record("ApplicationData", <<"iv", "f", "g", "h", "tag">>)>>

Frame(op, length, size) == [op |-> op, length |-> length, size |-> size]
MCFrames == <<Frame("Text", "short", 1), Frame("Binary", "16", 1), Frame("Ping", "short", 0)>>

\* Segments end inside a header, inside a body and after a record, not between
\* ChangeCipherSpec, which ends at 15, and the end of Finished.
Cuts == {4, 12, 18, 24, 31, 34}
=============================================================================
