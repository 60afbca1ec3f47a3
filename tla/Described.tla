------------------------------ MODULE Described ------------------------------
(***************************************************************************)
(* The exchange of Exchange, watched by a reader that knows the schema of  *)
(* the type and not the type.                                              *)
(***************************************************************************)
EXTENDS Exchange, SchemaTypes

\* The schema describes the encoding: a reader that knows the definitions of a
\* type and not the type finds the end of an object where the decoder finds it,
\* whatever bytes the decoder accepts, and misses the end of one that is cut.
SchemaDescribes ==
    pc = "decoded" /\ HasSchema(ty) =>
        LET skimmed == Skim(Definitions(ty), Declaration(ty), wire)
        IN  /\ IsOk(answer) => IsOk(skimmed) /\ skimmed.rest = <<>>
            /\ Sent /\ Len(wire) < Len(out) => skimmed.err = "UnexpectedLength"
=============================================================================
