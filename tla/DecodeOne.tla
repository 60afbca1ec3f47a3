------------------------------ MODULE DecodeOne ------------------------------
(***************************************************************************)
(* What decoding one length-prefixed sequence out of a byte source         *)
(* promises, whatever the source is and however it hands out its bytes:    *)
(* the answer is a function of the source alone, unless a call on the      *)
(* source fails, and nothing beyond the value and one probing byte is      *)
(* taken.  FromReader implements it.                                       *)
(*                                                                         *)
(* A byte is named by its position in the source, so a delivered value is  *)
(* the sequence of the positions its bytes came from, and how many         *)
(* elements they make.                                                     *)
(***************************************************************************)
EXTENDS Integers, Sequences

CONSTANTS
    LenBytes,   \* bytes of the length prefix
    Wires,      \* bytes that elements take in the source
    Lens,       \* the lengths a prefix may announce
    MaxSrc      \* longest source

VARIABLES
    wire,       \* bytes of an element
    total,      \* bytes in the source
    declared,   \* length its prefix announces
    taken,      \* bytes taken from the source so far
    failed,     \* how a call on the source failed: "none", "io", "interrupted"
    value,      \* the decoded value, <<>> until there is one
    res         \* the answer, "none" while decoding

vars == <<wire, total, declared, taken, failed, value, res>>

\* Length of the encoding the source starts with.
Frame == LenBytes + declared * wire

\* The announced elements, and their bytes.
Payload == <<declared, [i \in 1..declared * wire |-> LenBytes + i]>>

\* The answer when no call on the source fails.
Verdict == IF total < Frame THEN "UnexpectedLength"
           ELSE IF total > Frame THEN "NotAllBytesRead" ELSE "ok"

Init ==
    /\ wire \in Wires
    /\ total \in 0..MaxSrc
    /\ declared \in Lens
    /\ taken = 0
    /\ failed = "none"
    /\ value = <<>>
    /\ res = "none"

\* Bytes are taken in order; at most one beyond the value, to probe for the end.
Take ==
    /\ res = "none"
    /\ \E t \in taken + 1..Frame + 1 : t <= total /\ taken' = t
    /\ UNCHANGED <<wire, total, declared, failed, value, res>>

Answer ==
    /\ res = "none"
    /\ res' = Verdict
    /\ Verdict = "ok" => taken = total
    /\ value' = IF Verdict = "ok" THEN Payload ELSE <<>>
    /\ UNCHANGED <<wire, total, declared, taken, failed>>

\* A call on the source fails; past the value that reads as trailing input.
Fail ==
    /\ res = "none"
    /\ \/ failed' = "io" /\ res' = "Io" /\ taken <= Frame
       \/ failed' = "io" /\ res' = "NotAllBytesRead" /\ taken = Frame
       \/ failed' = "interrupted" /\ res' = "Interrupted" /\ taken < Frame
    /\ UNCHANGED <<wire, total, declared, taken, value>>

Next == Take \/ Answer \/ Fail

Spec == Init /\ [][Next]_vars
=============================================================================
