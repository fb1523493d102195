-------------------------- MODULE TlsClientProofs ----------------------------
(***************************************************************************)
(* The nonces of tls12::Client, for every server, segmentation and number  *)
(* of records sent.                                                        *)
(***************************************************************************)
EXTENDS TlsClient, TLAPS

SealedRecord == [explicit_iv : Nat, number : Nat]

\* The i-th record was encrypted under number i - 1, and the counter is the
\* number of records: what encrypt() uses next has not been used.
Inv ==
  /\ sealed \in Seq(SealedRecord)
  /\ write_sequence_number = Len(sealed)
  /\ \A i \in DOMAIN sealed : sealed[i] = [explicit_iv |-> i - 1, number |-> i - 1]

LEMMA InvInit == Init => Inv
BY DEF Init, Inv, SealedRecord

\* encrypt() advances the counter with the record.
LEMMA InvEncrypt ==
  ASSUME Inv, Encrypt
  PROVE  Inv'
<1> DEFINE r == [explicit_iv |-> write_sequence_number, number |-> write_sequence_number]
<1>1. write_sequence_number \in Nat /\ r \in SealedRecord
  BY DEF Inv, SealedRecord
<1>2. sealed' = Append(sealed, r) /\ write_sequence_number' = write_sequence_number + 1
  BY DEF Encrypt
<1> HIDE DEF r
<1>3. /\ sealed' \in Seq(SealedRecord) /\ Len(sealed') = Len(sealed) + 1
      /\ \A i \in DOMAIN sealed : sealed'[i] = sealed[i]
      /\ sealed'[Len(sealed) + 1] = r
  BY <1>1, <1>2 DEF Inv
<1>4. \A i \in DOMAIN sealed' : i \in DOMAIN sealed \/ i = Len(sealed) + 1
  BY <1>3 DEF Inv
<1>5. r = [explicit_iv |-> (Len(sealed) + 1) - 1, number |-> (Len(sealed) + 1) - 1]
  BY <1>1 DEF r, Inv
<1>6. \A i \in DOMAIN sealed' : sealed'[i] = [explicit_iv |-> i - 1, number |-> i - 1]
  BY <1>3, <1>4, <1>5 DEF Inv
<1>7. QED
  BY <1>1, <1>2, <1>3, <1>6 DEF Inv

\* No step but the client's Finished and flush() seals anything.
LEMMA StepSeals ==
  ASSUME [Next]_vars
  PROVE  Encrypt \/ UNCHANGED sealing
<1>1. CASE UNCHANGED vars
  BY <1>1 DEF vars, client
<1>2. CASE ProcessPacket \/ ProcessEmptyPacket \/ ProcessOldPacket
  BY <1>2 DEF ProcessPacket, ProcessEmptyPacket, ProcessOldPacket
<1>3. CASE SendClientHello \/ AwaitRecord \/ RejectRecord
  BY <1>3 DEF SendClientHello, AwaitRecord, RejectRecord, client
<1>4. CASE SendMessage
  BY <1>4 DEF SendMessage, Flush
<1>5. ASSUME NEW n \in 0 .. Capacity,
             \/ ProcessServerHello(n) \/ ProcessServerCertificate(n) \/ ProcessServerKeyExchange(n)
             \/ ProcessShortMessage(n) \/ RejectMessage(n)
             \/ ProcessServerFinished(n) \/ RejectFinished(n)
      PROVE  UNCHANGED sealing
  BY <1>5 DEF ProcessServerHello, ProcessServerCertificate, ProcessServerKeyExchange,
              ProcessShortMessage, RejectMessage, ProcessServerFinished, RejectFinished, client
<1>6. ASSUME NEW n \in 0 .. Capacity,
             \/ ReceiveApplicationData(n) \/ RejectEmptyRecord(n)
             \/ ReceiveShortRecord(n) \/ RejectContentType(n)
      PROVE  UNCHANGED sealing
  BY <1>6 DEF ReceiveApplicationData, RejectEmptyRecord, ReceiveShortRecord, RejectContentType, client
<1>7. ASSUME NEW n \in 0 .. Capacity, ProcessServerHelloDone(n)
      PROVE  Encrypt \/ UNCHANGED sealing
  BY <1>7 DEF ProcessServerHelloDone
<1>8. QED
  BY <1>1, <1>2, <1>3, <1>4, <1>5, <1>6, <1>7 DEF Next, Receive

(***************************************************************************)
(* Every record the client encrypts carries the explicit IV it was         *)
(* encrypted with, and no two carry the same (encrypt, client.cpp:128).    *)
(***************************************************************************)
THEOREM NoncesAlwaysFresh == Spec => []NoncesAreFresh
<1>1. Inv /\ [Next]_vars => Inv'
  <2> SUFFICES ASSUME Inv, [Next]_vars
               PROVE  Inv'
    OBVIOUS
  <2>1. CASE Encrypt
    BY <2>1, InvEncrypt
  <2>2. CASE UNCHANGED sealing
    BY <2>2 DEF sealing, Inv
  <2>3. QED
    BY <2>1, <2>2, StepSeals
<1>2. Inv => NoncesAreFresh
  BY DEF Inv, NoncesAreFresh
<1>3. QED
  BY <1>1, <1>2, InvInit, PTL DEF Spec
=============================================================================
