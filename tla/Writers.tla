------------------------------ MODULE Writers ------------------------------
(***************************************************************************)
(* Serializing one object.  Its serialize hands buffers to write_all of a  *)
(* Vec (to_vec), of a &mut [u8] or a writer of the user (to_writer), or of *)
(* the LengthWriter (object_length), until the object ends or cannot be    *)
(* serialized, or the writer fails.                                        *)
(***************************************************************************)
EXTENDS Integers, Sequences

CONSTANTS
    MaxRoom,        \* bound: room in a &mut [u8]
    WriterMaxUsize  \* usize::MAX of the machine that serializes

ASSUME WritersAssumption == MaxRoom \in Nat /\ WriterMaxUsize \in Nat

VARIABLES
    bytes, ends,    \* the buffers, one after the other, and where each one ends
    ending,         \* the error the serialization ends with, or "none"
    sink,           \* the writer: "vec", "slice", "stream" or "length"
    room,           \* what is left of the slice
    buffer, taken,  \* buffers that are written; bytes taken of the next one
    out, length,    \* bytes in the writer; count of the LengthWriter
    outcome         \* the answer, "none yet" before there is one

object == <<bytes, ends, ending, sink>>
writing == <<room, buffer, taken, out, length, outcome>>

\* An object is about to be serialized, e: its buffers, one after the other, where
\* each one ends, and the error behind the last.
Begin(e) ==
    /\ bytes = e.bytes /\ ends = e.ends /\ ending = e.err
    /\ sink \in {"vec", "slice", "stream", "length"}
    /\ room \in IF sink = "slice" THEN 0..MaxRoom ELSE {0}
    /\ buffer = 0 /\ taken = 0 /\ out = <<>> /\ length = 0
    /\ outcome = "none yet"

\* How many bytes have been handed out, and what is left of the buffer.
At == (IF buffer = 0 THEN 0 ELSE ends[buffer]) + taken
Left == SubSeq(bytes, At + 1, ends[buffer + 1])

WritesTo(kind) == outcome = "none yet" /\ buffer < Len(ends) /\ sink = kind

NextBuffer == buffer' = buffer + 1 /\ taken' = 0

\* A Vec takes it all.
WriteVec ==
    /\ WritesTo("vec")
    /\ out' = out \o Left
    /\ NextBuffer
    /\ UNCHANGED <<object, room, length, outcome>>

\* Broken variant: a short write passes for a write.
WriteSliceShort ==
    /\ WritesTo("slice")
    /\ LET n == IF room < Len(Left) THEN room ELSE Len(Left)
       IN  out' = out \o SubSeq(Left, 1, n) /\ room' = room - n
    /\ NextBuffer
    /\ UNCHANGED <<object, length, outcome>>

\* A slice takes what it has room for, and that is an error when it is less.
WriteSlice ==
    /\ WritesTo("slice")
    /\ \/ /\ Len(Left) <= room
          /\ out' = out \o Left /\ room' = room - Len(Left)
          /\ NextBuffer /\ UNCHANGED outcome
       \/ /\ Len(Left) > room
          /\ out' = out \o SubSeq(Left, 1, room) /\ room' = 0
          /\ outcome' = "WriteZero" /\ UNCHANGED <<buffer, taken>>
    /\ UNCHANGED <<object, length>>

\* write_all of a writer of the user, the provided loop: nothing is asked of it
\* for an empty buffer.
StreamSkip ==
    /\ WritesTo("stream") /\ Left = <<>>
    /\ NextBuffer
    /\ UNCHANGED <<object, room, out, length, outcome>>

\* Broken variant: the loop goes on with the same bytes.
StreamWriteAgain ==
    /\ WritesTo("stream")
    /\ \E n \in 1..Len(Left) :
         /\ out' = out \o SubSeq(Left, 1, n)
         /\ IF n = Len(Left) THEN NextBuffer ELSE UNCHANGED <<buffer, taken>>
    /\ Len(out') <= Len(bytes)
    /\ UNCHANGED <<object, room, length, outcome>>

\* It takes n bytes, and the loop goes on with the others.
StreamWrite ==
    /\ WritesTo("stream")
    /\ \E n \in 1..Len(Left) :
         /\ out' = out \o SubSeq(Left, 1, n)
         /\ IF n = Len(Left) THEN NextBuffer ELSE taken' = taken + n /\ UNCHANGED buffer
    /\ UNCHANGED <<object, room, length, outcome>>

\* It takes nothing, or fails.  (An interruption leaves everything as it is.)
StreamFails ==
    /\ WritesTo("stream") /\ Left # <<>>
    /\ outcome' \in {"WriteZero", "Io"}
    /\ UNCHANGED <<object, room, buffer, taken, out, length>>

\* Broken variant: the count wraps.
WriteLengthWrapping ==
    /\ WritesTo("length")
    /\ length' = (length + Len(Left)) % (WriterMaxUsize + 1)
    /\ NextBuffer
    /\ UNCHANGED <<object, room, out, outcome>>

\* LengthWriter counts, up to usize::MAX.
WriteLength ==
    /\ WritesTo("length")
    /\ \/ /\ length + Len(Left) <= WriterMaxUsize
          /\ length' = length + Len(Left)
          /\ NextBuffer /\ UNCHANGED outcome
       \/ /\ length + Len(Left) > WriterMaxUsize
          /\ outcome' = "OutOfMemory" /\ UNCHANGED <<buffer, taken, length>>
    /\ UNCHANGED <<object, room, out>>

SerializeEnds ==
    /\ outcome = "none yet" /\ buffer = Len(ends)
    /\ outcome' = IF ending = "none" THEN "ok" ELSE ending
    /\ UNCHANGED <<object, room, buffer, taken, out, length>>

Write ==
    \/ WriteVec \/ WriteSlice \/ StreamSkip \/ StreamWrite \/ StreamFails \/ WriteLength
    \/ SerializeEnds

-----------------------------------------------------------------------------
(* Properties.                                                             *)

\* When a writer runs out of room or a value cannot be written, what was
\* written is the beginning of the encoding, cut where the room ended; a writer
\* that answers Ok wrote all of it.
PrefixOnFailure ==
    outcome # "none yet" /\ sink # "length" =>
        /\ out = SubSeq(bytes, 1, Len(out))
        /\ outcome = "ok" => out = bytes
        /\ outcome \in {"WriteZero", "Io"} => Len(out) < Len(bytes)
        /\ sink = "slice" /\ outcome = "WriteZero" => room = 0

\* object_length counts the bytes that to_vec would write, and fails when the
\* serialization does or when usize cannot count them.
LengthAgrees ==
    outcome # "none yet" /\ sink = "length" =>
        /\ outcome = IF Len(bytes) > WriterMaxUsize THEN "OutOfMemory"
                     ELSE IF ending # "none" THEN ending ELSE "ok"
        /\ outcome = "ok" => length = Len(bytes)

Promise == INSTANCE WriteOne WITH
    answer <- IF outcome = "none yet" THEN "none" ELSE outcome,
    reached <- IF sink = "length" THEN SubSeq(bytes, 1, length) ELSE out

\* Every writer keeps the promise of WriteOne, byte by byte, and answers.
WritesPromised == Promise!Spec /\ Promise!Ends
=============================================================================
