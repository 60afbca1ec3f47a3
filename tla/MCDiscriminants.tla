-------------------------- MODULE MCDiscriminants --------------------------
(***************************************************************************)
(* Discriminants in and out of order, too large, counted on from, and      *)
(* written with an operator.  They are of a type two bits wider than a tag *)
(* and signed, or unsigned as a tag is.  Where a tag has two bits,         *)
(* 3 << 1 is written as 1 << 1 is.                                         *)
(***************************************************************************)
EXTENDS Discriminants

MCReprs == {Signed(TagBits + 2), Unsigned(TagBits)}
MCExpressions == {Literal(n) : n \in {0, 3, 6}} \cup {Shift(1, 1), Shift(3, 1)}
=============================================================================
