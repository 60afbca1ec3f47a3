---------------------------- MODULE MCFromReader ----------------------------
(***************************************************************************)
(* Elements that take more memory than bytes of the source, one byte of    *)
(* both, and memory only.                                                  *)
(***************************************************************************)
EXTENDS FromReader

MCElements == {[wire |-> 2, mem |-> 3], OneByte, [wire |-> 0, mem |-> 2]}
=============================================================================
