---------------------------- MODULE MCTlsClient -----------------------------
(***************************************************************************)
(* A server with a two-cell certificate, one message per record, two       *)
(* application records with data and one without.                          *)
(***************************************************************************)
EXTENDS TlsClient

Record(type, body) == [type |-> type, body |-> body]
MCScript ==
  <<Record("Handshake", <<"ServerHello">>),
    Record("Handshake", <<"Certificate", "chain">>),
    Record("Handshake", <<"ServerKeyExchange">>),
    Record("Handshake", <<"ServerHelloDone">>),
    Record("ChangeCipher", <<"1">>),
    Record("Handshake", <<"Finished">>),
    Record("ApplicationData", <<"iv", "a", "b", "tag">>),
    Record("ApplicationData", <<"iv", "c", "tag">>),
    Record("ApplicationData", <<"iv", "tag">>)>>

EndOf(k) == Len(FlattenSeq([i \in 1 .. k |-> CellsOf(i)]))

\* Segments may end anywhere ...
AnyEnd == 0 .. Len(ServerStream)

\* ... or anywhere but between the last byte of ChangeCipherSpec and the last
\* byte of Finished.
FinishedWhole == AnyEnd \ (EndOf(5) .. EndOf(6) - 1)

\* The smallest capacity that can work: see NoFaultInOrder.
MCMaxSegment == 6
MCCapacity == MaxRecord - 1 + MCMaxSegment
=============================================================================
