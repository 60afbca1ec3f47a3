----------------------------- MODULE FromReader -----------------------------
(***************************************************************************)
(* Decoding one Vec<T> out of a reader: from_reader / try_from_reader,     *)
(* from_slice / try_from_slice, Vec::<T>::deserialize_reader, the bulk     *)
(* read of u8 (vec_from_reader) and the element-by-element read, call by   *)
(* call on the underlying Read.                                            *)
(*                                                                         *)
(* The reader is the environment: a stream hands out any non-empty part of *)
(* what is asked for, may be interrupted, may fail for good, and answers 0 *)
(* at its end; a slice hands out all it can.  A byte is named by its       *)
(* position in the source; 0 is the byte a buffer is zero-filled with.     *)
(* An element takes some bytes of the source, none when all its fields are *)
(* skipped, and others in memory.  Memory can be had for what is reserved. *)
(***************************************************************************)
EXTENDS Integers, Sequences

CONSTANTS
    LenBytes,       \* bytes of the length prefix: 4 in the code
    Elements,       \* elements read on their own: [wire, mem], the bytes one
                    \* takes in the source, and its size_of
    Chunk,          \* the first buffer of a bulk read: 1024 * 1024 in the code
    Budget,         \* bytes of memory reserved ahead for elements: 4096 in the code
    MaxUsize,       \* usize::MAX
    Lens,           \* lengths a prefix may announce
    MaxSrc,         \* bound: longest source
    MaxInterrupts   \* bound: interrupted calls in one decoding

OneByte == [wire |-> 1, mem |-> 1]      \* a u8

\* usize holds every u32, so the try_into of vec_from_reader cannot fail; check_zst
\* has refused elements that take no memory.
ASSUME ConstantsAssumption ==
    /\ LenBytes \in Nat \ {0} /\ Elements \subseteq [wire : Nat, mem : Nat \ {0}]
    /\ Chunk \in Nat \ {0} /\ Budget \in Nat
    /\ MaxUsize \in Nat \ {0} /\ Chunk <= MaxUsize /\ Lens \subseteq 0..MaxUsize
    /\ MaxSrc \in Nat /\ MaxInterrupts \in Nat

VARIABLES
    bulk,       \* T is u8: vec_from_reader answers Some
    elem,       \* the element type T
    entry,      \* "from_reader" or "from_slice"
    source,     \* what implements Read: "stream" or "slice"
    total,      \* bytes in the source
    declared,   \* length its prefix announces
    off,        \* bytes taken from the source
    pc,         \* "len", "body" (bulk), "element", "tail", "done"
    buf,        \* bytes received by the read_exact in progress
    want,       \* bytes it still lacks
    vec,        \* the Vec being built, as bytes
    count,      \* elements pushed, unless they are read in bulk
    pos,        \* its bytes that were received
    alloc,      \* its capacity in bytes of memory
    interrupts, \* interrupted calls so far
    failed,     \* the failure of the reader that ended the decoding
    res         \* the answer, "none" while decoding

input == <<bulk, elem, entry, source, total, declared>>
vars == <<bulk, elem, entry, source, total, declared, off, pc, buf, want, vec, count, pos,
          alloc, interrupts, failed, res>>

\* Bytes of the announced elements.
PayloadLen == declared * elem.wire

Min(a, b) == IF a < b THEN a ELSE b
Max(a, b) == IF a < b THEN b ELSE a

Available == total - off
Exacts == {"len", "element", "tail"}    \* phases that are a read_exact

\* read_exact into a buffer of n bytes is called.
CallReadExact(n) == want' = n /\ buf' = <<>>

Init ==
    /\ bulk \in BOOLEAN
    /\ elem \in IF bulk THEN {OneByte} ELSE Elements
    /\ entry \in {"from_reader", "from_slice"}
    /\ source \in {"stream", "slice"}
    /\ entry = "from_slice" => source = "slice"
    /\ total \in 0..MaxSrc
    /\ declared \in Lens
    /\ off = 0 /\ pc = "len" /\ buf = <<>> /\ want = LenBytes
    /\ vec = <<>> /\ count = 0 /\ pos = 0 /\ alloc = 0
    /\ interrupts = 0 /\ failed = "none" /\ res = "none"

-----------------------------------------------------------------------------
(* The end of the decoding, and of the reader.                             *)

Finish(r) ==
    /\ pc' = "done"
    /\ res' = r
    /\ UNCHANGED <<input, buf, want, vec, count, pos, alloc, interrupts>>

\* The value is complete: from_slice looks at what is left, from_reader probes
\* for one more byte.
EnterTail ==
    /\ pc' = "tail"
    /\ CallReadExact(1)

\* read_exact meets the end of the source: too short a value, or the end that
\* from_reader is looking for.  A slice that is too short is left as it is.
EndOfInput ==
    /\ pc \in Exacts /\ want > 0
    /\ pc = "tail" => entry = "from_reader"
    /\ off = total \/ (source = "slice" /\ want > Available)
    /\ Finish(IF pc = "tail" THEN "ok" ELSE "UnexpectedLength")
    /\ UNCHANGED <<off, failed>>

\* The reader fails for good: the error is passed on, except after the value,
\* where anything but the end of the source means that bytes are left.
ReaderError ==
    /\ source = "stream"
    /\ pc = "body" \/ (pc \in Exacts /\ want > 0)
    /\ pc = "body" => pos < declared
    /\ failed' = "io"
    /\ Finish(IF pc = "tail" THEN "NotAllBytesRead" ELSE "Io")
    /\ UNCHANGED off

-----------------------------------------------------------------------------
(* read_exact: the provided implementation loops, the one of &[u8] copies. *)

\* The next n bytes arrive in the buffer.
Receive(n) ==
    /\ buf' = [i \in 1..Len(buf) + n |-> IF i <= Len(buf) THEN buf[i]
                                         ELSE off + (i - Len(buf))]
    /\ want' = want - n
    /\ off' = off + n
    /\ UNCHANGED <<input, pc, vec, count, pos, alloc, interrupts, failed, res>>

\* read answers Ok(n).
ReadSome ==
    /\ pc \in Exacts /\ source = "stream"
    /\ \E n \in 1..Min(want, Available) : Receive(n)

\* read is interrupted: the loop calls it again.
ReadInterrupted ==
    /\ pc \in Exacts /\ source = "stream" /\ want > 0
    /\ interrupts < MaxInterrupts
    /\ interrupts' = interrupts + 1
    /\ UNCHANGED <<input, off, pc, buf, want, vec, count, pos, alloc, failed, res>>

ReadSlice ==
    /\ pc \in Exacts /\ source = "slice" /\ want > 0
    /\ pc = "tail" => entry = "from_reader"
    /\ want <= Available
    /\ Receive(want)

-----------------------------------------------------------------------------
(* Vec::deserialize_reader once the length is known.                       *)

\* Broken variant: the whole announced length is reserved ahead.
CautiousUncapped(len) == Max(len, 1)

\* hint::cautious, in elements.
Cautious(len) == Max(Min(len, Budget \div elem.mem), 1)

\* The capacity of a Vec that needs so many bytes: RawVec grows by doubling.
Grown(need) == IF need <= alloc THEN alloc ELSE Max(2 * alloc, need)

LengthRead ==
    /\ pc = "len" /\ want = 0
    /\ IF declared = 0
       THEN EnterTail /\ UNCHANGED <<vec, alloc>>
       ELSE IF bulk
       THEN /\ pc' = "body"
            /\ vec' = [i \in 1..Min(declared, Chunk) |-> 0]
            /\ alloc' = Min(declared, Chunk)
            /\ UNCHANGED <<buf, want>>
       ELSE /\ pc' = "element"
            /\ alloc' = Cautious(declared) * elem.mem
            /\ CallReadExact(elem.wire)
            /\ UNCHANGED vec
    /\ UNCHANGED <<input, off, count, pos, interrupts, failed, res>>

\* One more element is in the Vec.
Push ==
    /\ vec' = [i \in 1..pos + elem.wire |-> IF i <= pos THEN vec[i] ELSE buf[i - pos]]
    /\ pos' = pos + elem.wire
    /\ count' = count + 1
    /\ alloc' = Grown((count + 1) * elem.mem)

\* Broken variant: the loop stops one element late.
ElementReadLate ==
    /\ pc = "element" /\ want = 0
    /\ Push
    /\ IF count = declared
       THEN EnterTail
       ELSE pc' = "element" /\ CallReadExact(elem.wire)
    /\ UNCHANGED <<input, off, interrupts, failed, res>>

\* One element is complete and pushed.
ElementRead ==
    /\ pc = "element" /\ want = 0
    /\ Push
    /\ IF count + 1 = declared
       THEN EnterTail
       ELSE pc' = "element" /\ CallReadExact(elem.wire)
    /\ UNCHANGED <<input, off, interrupts, failed, res>>

-----------------------------------------------------------------------------
(* vec_from_reader of u8: one iteration of its loop per action.            *)

\* Broken variants: the resize of a full buffer is forgotten, or wraps around.
RoomyLenFixed == Len(vec)
RoomyLenWrapping == IF pos = Len(vec)
                    THEN Min((2 * Len(vec)) % (MaxUsize + 1), declared)
                    ELSE Len(vec)

\* Length of the buffer the iteration reads into: a full one is resized first.
RoomyLen == IF pos = Len(vec)
            THEN Min(Min(2 * Len(vec), MaxUsize), declared)
            ELSE Len(vec)

\* Broken variant: every read starts over at the front of the buffer.
FilledFromFront(n) ==
    [i \in 1..RoomyLen |-> IF i <= n THEN off + i
                           ELSE IF i <= Len(vec) THEN vec[i] ELSE 0]

\* vec with its first n bytes kept or received, zeros up to RoomyLen.
Filled(n) ==
    [i \in 1..RoomyLen |-> IF i <= pos THEN vec[i]
                           ELSE IF i <= pos + n THEN off + (i - pos) ELSE 0]

BodyRead ==
    /\ pc = "body" /\ pos < declared
    /\ LET most == Min(RoomyLen - pos, Available)
       IN  \E n \in (IF source = "slice" THEN {most} ELSE 1..most) :
             /\ n > 0
             /\ vec' = Filled(n)
             /\ alloc' = Grown(RoomyLen)
             /\ pos' = pos + n
             /\ off' = off + n
    /\ UNCHANGED <<input, pc, buf, want, count, interrupts, failed, res>>

\* read answers Ok(0): the source is at its end, or there was no room to read.
BodyEnd ==
    /\ pc = "body" /\ pos < declared
    /\ off = total \/ RoomyLen = pos
    /\ Finish("UnexpectedLength")
    /\ UNCHANGED <<off, failed>>

\* read is interrupted: the `?` passes the error on.
BodyInterrupted ==
    /\ pc = "body" /\ pos < declared /\ source = "stream"
    /\ interrupts < MaxInterrupts
    /\ failed' = "interrupted"
    /\ Finish("Interrupted")
    /\ UNCHANGED off

BodyDone ==
    /\ pc = "body" /\ pos >= declared
    /\ EnterTail
    /\ UNCHANGED <<input, off, vec, count, pos, alloc, interrupts, failed, res>>

-----------------------------------------------------------------------------
(* After the value.                                                        *)

\* from_reader got one more byte.
TailByte ==
    /\ pc = "tail" /\ want = 0
    /\ Finish("NotAllBytesRead")
    /\ UNCHANGED <<off, failed>>

\* from_slice looks at the rest of its slice.
TailOfSlice ==
    /\ pc = "tail" /\ entry = "from_slice"
    /\ Finish(IF Available = 0 THEN "ok" ELSE "NotAllBytesRead")
    /\ UNCHANGED <<off, failed>>

\* The call has returned.
Returned == pc = "done" /\ UNCHANGED vars

Step ==
    \/ EndOfInput \/ ReaderError
    \/ ReadSome \/ ReadInterrupted \/ ReadSlice
    \/ LengthRead \/ ElementRead
    \/ BodyRead \/ BodyEnd \/ BodyInterrupted \/ BodyDone
    \/ TailByte \/ TailOfSlice

Next == Step \/ Returned

Spec == Init /\ [][Next]_vars

\* The decoding thread keeps running, and every call on the reader returns.
FairSpec == Spec /\ WF_vars(Step)

-----------------------------------------------------------------------------
(* Properties.                                                             *)

Answers == {"none", "ok", "UnexpectedLength", "NotAllBytesRead", "Io", "Interrupted"}

\* The variables have their types and stay within the input: no byte is taken
\* beyond the source, none is received beyond the announced elements, and the
\* slice vec[pos..] of the bulk read is in range.
TypeOK ==
    /\ bulk \in BOOLEAN /\ elem \in IF bulk THEN {OneByte} ELSE Elements
    /\ entry \in {"from_reader", "from_slice"}
    /\ source \in {"stream", "slice"}
    /\ entry = "from_slice" => source = "slice"
    /\ total \in 0..MaxSrc /\ declared \in Lens /\ off \in 0..total
    /\ pc \in {"len", "body", "element", "tail", "done"}
    /\ buf \in Seq(Nat) /\ want \in Nat
    /\ count \in 0..declared
    /\ vec \in Seq(Nat) /\ pos \in 0..Len(vec) /\ pos <= PayloadLen
    /\ alloc \in Nat
    /\ interrupts \in 0..MaxInterrupts
    /\ failed \in {"none", "io", "interrupted"}
    /\ res \in Answers

\* However the reader splits, interrupts or short-reads, the bytes received so
\* far are the bytes of the value in their order, none lost and none twice, and
\* the rest of the buffer is still zero (Vec, vec_from_reader, read_exact).
InOrder ==
    /\ \A i \in 1..Len(vec) : vec[i] = IF i <= pos THEN LenBytes + i ELSE 0
    /\ \A i \in 1..Len(buf) : pc = "element" => buf[i] = LenBytes + pos + i
    /\ pc = "len" => off = Len(buf)
    /\ pc = "body" => off = LenBytes + pos
    /\ pc = "element" => off = LenBytes + pos + Len(buf)
    /\ pc = "tail" => off = LenBytes + PayloadLen + Len(buf)

\* The elements received, and the memory they take.
Received == IF bulk THEN pos ELSE count
Occupied == Received * elem.mem

\* A length prefix alone never makes the decoder reserve more than a fixed
\* amount of memory: beyond it, at most twice what the elements take that were
\* really decoded, and every one of them was taken from the source (the growth
\* of vec_from_reader, hint::cautious).  How much memory a byte of the source
\* stands for is up to the type, and nothing bounds it where wire is 0.
AllocBounded ==
    /\ alloc <= Max(Max(Max(Chunk, Budget), elem.mem), 2 * Occupied)
    /\ pos = Received * elem.wire

\* What the decoder promises: see DecodeOne.
Promise == INSTANCE DecodeOne WITH
    wire <- elem.wire, Wires <- {e.wire : e \in Elements \cup {OneByte}},
    taken <- off, value <- IF res = "ok" THEN <<Received, vec>> ELSE <<>>

\* The code keeps that promise: for every way the reader behaves the answer is
\* the one the source determines, the value is complete and in order, and at
\* most one byte beyond it is taken.
Implements == Promise!Spec

\* Every decoding returns: no loop of read_exact, of vec_from_reader or over the
\* elements goes on without progress.
Terminates == <>(pc = "done")

\* "An error of the ErrorKind::Interrupted kind is non-fatal and the read
\* operation should be retried if there is nothing else to do" (nostd_io.rs).
InterruptionNotFatal == res # "Interrupted"
=============================================================================
