----------------------------- MODULE MCRawRead -----------------------------
(* What the uninitialised len of grnvs_read may hold: a negative number,   *)
(* the 0 of a timeout, and what could be the length of a frame.            *)
EXTENDS RawReadCaller

AnyNumber == {-1, 0, 2}
=============================================================================
