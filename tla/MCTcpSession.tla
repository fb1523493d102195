---------------------------- MODULE MCTcpSession ----------------------------
(***************************************************************************)
(* Small sessions for TLC.  The numbers wrap within a session: the client  *)
(* starts one below Modulus, so that its first bytes are numbered 0, 1 ... *)
(***************************************************************************)
EXTENDS TcpSession
=============================================================================
