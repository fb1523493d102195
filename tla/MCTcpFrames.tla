---------------------------- MODULE MCTcpFrames -----------------------------
(***************************************************************************)
(* tcp::Client behind run_worker's dispatch, on a sequence space of 6      *)
(* numbers: all wrap-arounds, windows that open, shrink and close, and a   *)
(* NIC that fails at any call happen within a few steps.  A payload of one *)
(* unit is shorter than the padding of its frame, one of two units makes   *)
(* the frame exactly as long as is_valid's bound.  A total_length that     *)
(* lacks one unit is below the two headers, one that lacks three is below  *)
(* the IP header alone.                                                    *)
(***************************************************************************)
EXTENDS TcpFrames

MCBytes == [n \in 0 .. 3 |-> <<0, 5, 20, 22>>[n + 1]]
=============================================================================
