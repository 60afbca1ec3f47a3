------------------------------ MODULE WriteOne ------------------------------
(***************************************************************************)
(* What serializing one object to a writer promises, whatever the writer   *)
(* is and however many bytes it takes at a time: at any moment a beginning *)
(* of the encoding has reached it, all of it when the answer is Ok or the  *)
(* object's own error, and less than all when the writer is to blame.      *)
(* Writers implements it.                                                  *)
(***************************************************************************)
EXTENDS Integers, Sequences

VARIABLES
    bytes,      \* the encoding, up to where the object cannot be serialized
    ending,     \* the error the serialization ends with, or "none"
    reached,    \* bytes that have reached the writer
    answer      \* "none" while serializing

vars == <<bytes, ending, reached, answer>>

Init == reached = <<>> /\ answer = "none"

\* More of the encoding has reached the writer.
Reach ==
    /\ answer = "none"
    /\ \E n \in Len(reached)..Len(bytes) : reached' = SubSeq(bytes, 1, n)
    /\ UNCHANGED <<bytes, ending, answer>>

\* All of it has.
Succeed ==
    /\ answer = "none" /\ reached = bytes
    /\ answer' = IF ending = "none" THEN "ok" ELSE ending
    /\ UNCHANGED <<bytes, ending, reached>>

\* The writer is full, fails, or cannot count on.
GiveUp ==
    /\ answer = "none"
    /\ \E n \in Len(reached)..Len(bytes) - 1 : reached' = SubSeq(bytes, 1, n)
    /\ answer' \in {"WriteZero", "Io", "OutOfMemory"}
    /\ UNCHANGED <<bytes, ending>>

Next == Reach \/ Succeed \/ GiveUp

Spec == Init /\ [][Next]_vars

\* And there is an answer at last.
Ends == <>(answer # "none")
=============================================================================
