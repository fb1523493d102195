---------------------------- MODULE MCMbufDevice ----------------------------
(***************************************************************************)
(* An instance of MbufDevice for TLC.  Without symmetry, which liveness    *)
(* does not allow.                                                         *)
(***************************************************************************)
EXTENDS MbufDevice

CONSTANTS m1, m2, m3

ThreeMbufs == {m1, m2, m3}
=============================================================================
