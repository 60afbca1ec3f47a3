------------------------------ MODULE Exchange ------------------------------
(***************************************************************************)
(* One value from the process that serializes it to the one that reads it  *)
(* back.  What Writers wrote arrives whole, cut short or followed by other *)
(* bytes, or the bytes come from somewhere else; the reader decodes them   *)
(* with from_slice, serializes what it got in a process whose hash tables  *)
(* iterate in another order, and decodes that again.                       *)
(***************************************************************************)
EXTENDS Writers, Serialize, Deserialize

CONSTANTS
    Samples,    \* pairs of a type and a value of it
    Foreign,    \* types decoded from bytes of unknown origin
    MaxForeign, \* bound: how many such bytes
    Trailing    \* bound: bytes that may follow an encoding

\* The bytes of an encoding; an encoding, as Writers has it.
Bytes(encoding) == FlattenSeq(encoding.chunks)
Encoded(encoding) ==
    [bytes |-> Bytes(encoding),
     ends |-> [i \in DOMAIN encoding.chunks |-> Len(FlattenSeq(SubSeq(encoding.chunks, 1, i)))],
     err |-> encoding.err]

\* A usize of the machine that serializes fills the wire.
ASSUME ExchangeAssumption ==
    /\ \A sample \in Samples : sample[1] \in Types /\ sample[2] \in Values[sample[1]]
    /\ Foreign \subseteq Types
    /\ WriterMaxUsize = Pow[WideBytes] - 1
    /\ MaxForeign \in Nat /\ Trailing \in Nat

VARIABLES
    origin,     \* of the bytes: "writer", or "foreign" with no known value
    ty, val,    \* the value that is serialized and its type
    order,      \* iteration order of the writer's hash tables
    wire,       \* the bytes that arrive
    strict,     \* the reader was built with de_strict_order
    answer,     \* the answer of from_slice
    echo,       \* the answer serialized again
    answer2,    \* and decoded again
    pc          \* "write", "arrived", "decoded", "echoed"

value == <<origin, ty, val, order, object>>
reading == <<wire, strict, answer, echo, answer2>>
vars == <<value, writing, reading, pc>>

None == [err |-> "none yet"]

\* A sample is about to be serialized, or nothing is and bytes of another
\* origin will arrive.
InitWriter ==
    /\ origin = "writer"
    /\ \E sample \in Samples : ty = sample[1] /\ val = sample[2]
    /\ order \in Orders
    /\ \E e \in {Encoded(Ser[ty][order][val])} : Begin(e)

InitForeign ==
    /\ origin = "foreign"
    /\ ty \in Foreign /\ val = <<>>
    /\ order = CHOOSE o \in Orders : TRUE
    /\ sink = "vec" /\ Begin(Encoded(Writes(<<>>)))

Init ==
    /\ pc = "write" /\ wire = <<>> /\ strict = FALSE
    /\ answer = None /\ echo = None /\ answer2 = None
    /\ InitWriter \/ InitForeign

-----------------------------------------------------------------------------
(* The writer, and what arrives.                                           *)

Serializing ==
    /\ Write
    /\ UNCHANGED <<origin, ty, val, order, reading, pc>>

\* What to_vec answered, whole, cut, or with other bytes behind it; or any bytes.
Arrive ==
    /\ pc = "write" /\ outcome = "ok" /\ sink = "vec"
    /\ wire' \in IF origin = "foreign" THEN BoundedSeq(Byte, MaxForeign)
                 ELSE {SubSeq(out, 1, n) : n \in 0..Len(out)}
                         \cup {out \o t : t \in BoundedSeq(Byte, Trailing)}
    /\ strict' \in BOOLEAN
    /\ pc' = "arrived"
    /\ UNCHANGED <<value, writing, answer, echo, answer2>>

-----------------------------------------------------------------------------
(* The reader.                                                             *)

Decode ==
    /\ pc = "arrived"
    /\ answer' = FromSlice(ty, wire, strict)
    /\ pc' = "decoded"
    /\ UNCHANGED <<value, writing, wire, strict, echo, answer2>>

\* The decoded value, serialized where hash tables iterate in any order.
Echo ==
    /\ pc = "decoded" /\ IsOk(answer) /\ answer.val \in Values[ty]
    /\ echo' \in {Ser[ty][o][answer.val] : o \in Orders}
    /\ answer2' = IF echo'.err = "none" THEN FromSlice(ty, Bytes(echo'), strict) ELSE None
    /\ pc' = "echoed"
    /\ UNCHANGED <<value, writing, wire, strict, answer>>

\* Nothing more is asked.
Over ==
    /\ \/ pc = "write" /\ outcome # "none yet" /\ (outcome # "ok" \/ sink # "vec")
       \/ pc = "decoded" /\ ~(IsOk(answer) /\ answer.val \in Values[ty])
       \/ pc = "echoed"
    /\ UNCHANGED vars

Next == Serializing \/ Arrive \/ Decode \/ Echo \/ Over

\* The thread that serializes runs.
Spec == Init /\ [][Next]_vars /\ WF_vars(Serializing)

-----------------------------------------------------------------------------
(* Properties.                                                             *)

\* What a value of type T looks like on the other side, received being what its
\* parts look like: skipped fields are defaults, or what the init method makes of
\* them.
ReceivedOf(T, received, v) ==
    CASE T.k \in {"option", "vec", "slice", "array", "third"} ->
           [i \in DOMAIN v |-> received[T.of][v[i]]]
      [] T.k = "result"  -> <<v[1], received[IF v[1] = 0 THEN T.err ELSE T.ok][v[2]]>>
      [] T.k \in {"tuple", "struct"} ->
           LET fields == [i \in DOMAIN v |-> received[T.of[i]][v[i]]]
           IN  IF T.k = "struct" /\ T.init THEN InitMethod(T, fields) ELSE fields
      [] T.k = "enum"    ->
           LET variant == T.of[v[1]]
               fields == received[variant][v[2]]
           IN  <<v[1], IF T.init THEN InitMethod(variant, fields) ELSE fields>>
      [] T.k = "map"     -> [key \in DOMAIN v |-> received[T.of][v[key]]]
      [] T.k = "indexmap" -> [i \in DOMAIN v |-> <<v[i][1], received[T.of][v[i][2]]>>]
      [] T.k = "refcell" -> <<FALSE, received[T.of][v[2]]>>
      [] T.k = "skip"    -> Default(T.of)
      [] OTHER -> v

Received[T \in Types] ==
    [v \in Values[T] |-> ReceivedOf(T, [U \in PartsOf(T) |-> Received[U]], v)]

\* The reader has room for a value of type T when it has for what it is made of:
\* no usize is beyond its usize::MAX, and there is no Box<[()]>.
ReadableOf(T, readable, v) ==
    /\ T.k = "usize" => v <= MaxUsize
    /\ T.k = "isize" => v \in Isize
    /\ T.k = "slice" => ~ZeroSized[T.of]
    /\ T.k # "skip" => \A c \in Components(T, v) : readable[c[1]][c[2]]

Readable[T \in Types] ==
    [v \in Values[T] |-> ReadableOf(T, [U \in PartsOf(T) |-> Readable[U]], v)]

Sent == origin = "writer" /\ pc \in {"arrived", "decoded", "echoed"}
Whole == Sent /\ wire = out

\* The state is well formed, and a decoded value is a value of its type: no
\* zero NonZero, no invalid text, no usize out of range, no repeated key.
TypeOK ==
    /\ pc \in {"write", "arrived", "decoded", "echoed"}
    /\ sink \in {"vec", "slice", "stream", "length"} /\ room \in 0..MaxRoom
    /\ length \in 0..WriterMaxUsize /\ strict \in BOOLEAN
    /\ \A i \in DOMAIN out : out[i] \in Byte
    /\ pc \in {"decoded", "echoed"} /\ IsOk(answer) =>
         answer.val \in Values[ty] /\ Readable[ty][answer.val]

\* from_slice(to_vec(v)) is v, whatever the features of the reader, except for
\* the values its machine refuses; a skipped field comes back as its default, or
\* as the init method sets it.
RoundTrip ==
    Whole /\ pc # "arrived" =>
        IF ~Readable[ty][val] THEN answer.err \in {"Overflow", "ZeroSized"}
        ELSE IsOk(answer) /\ answer.val = Received[ty][val]

\* An encoding does not depend on the iteration order of hash tables: two
\* processes that hold equal values write equal bytes.
Agreement ==
    pc = "write" /\ origin = "writer" /\ outcome = "ok" /\ sink # "length" =>
        \A o \in Orders : Bytes(Ser[ty][o][val]) = out

\* Types that hold an ObjectId, which answers for itself when it is cut.
HoldsObjectId[T \in Types] ==
    T.k = "objectid" \/ (T.k # "skip" /\ \E U \in PartsOf(T) : HoldsObjectId[U])

\* An object ends where its bytes say.  deserialize leaves exactly what follows
\* it in the buffer, so that objects can be read one after the other; a cut
\* object is an unexpected length, or the end of the file where it may be an
\* ObjectId that was cut; trailing bytes are refused by from_slice.
SelfDelimiting ==
    Sent /\ pc = "decoded" /\ Readable[ty][val] =>
        /\ Len(wire) < Len(out) =>
             answer.err = "UnexpectedLength" \/ (HoldsObjectId[ty] /\ answer.err = "UnexpectedEof")
        /\ Len(wire) > Len(out) =>
             /\ answer.err = "NotAllBytesRead"
             /\ Dec[ty][strict][wire].rest = SubSeq(wire, Len(out) + 1, Len(wire))

\* Types that hold an IndexMap or IndexSet, whose duplicates are not refused.
Indexed[T \in Types] ==
    \/ T.k \in {"indexset", "indexmap"}
    \/ T.k # "skip" /\ \E U \in PartsOf(T) : Indexed[U]

\* With de_strict_order, an object has one encoding: bytes that are accepted
\* are what the decoded value is serialized to, on any machine.
Canonical ==
    pc = "echoed" /\ strict /\ ~Indexed[ty] =>
        echo.err = "none" /\ Bytes(echo) = wire

\* Without it other encodings of maps and sets are accepted, but what was
\* decoded is a value that survives every further exchange, with a strict or
\* a lax reader.
NormalForm ==
    pc = "echoed" =>
        /\ IsOk(answer2) /\ answer2.val = answer.val
        /\ FromSlice(ty, Bytes(echo), TRUE) = answer2
=============================================================================
