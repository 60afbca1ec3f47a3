----------------------------- MODULE Serialize -----------------------------
(***************************************************************************)
(* BorshSerialize: what a value of each type writes.  An encoding is the   *)
(* sequence of buffers handed to write_all, one after the other, and the   *)
(* error the serialization ends with; what was written before an error     *)
(* stays written.                                                          *)
(*                                                                         *)
(* order is the iteration order of the hash tables of the process: the      *)
(* place in the table of the smallest of its elements, of the second        *)
(* smallest, and so on.  ser are the implementations for the types a type   *)
(* is built from.                                                           *)
(***************************************************************************)
EXTENDS WireTypes

Orders == {o \in [1..MaxKeys -> 1..MaxKeys] : \A i, j \in 1..MaxKeys : o[i] = o[j] => i = j}

\* Some buffers and no error; an error and no buffer.
Writes(chunks) == [chunks |-> chunks, err |-> "none"]
Fails(e) == [chunks |-> <<>>, err |-> e]
OneChunk(bytes) == Writes(<<bytes>>)

\* The ? operator: the second part is not reached when the first one fails.
Then(a, b) == IF a.err # "none" THEN a
              ELSE [chunks |-> a.chunks \o b.chunks, err |-> b.err]

\* Parts up to the first one that fails.
InSequence(parts) ==
    LET failing == {i \in DOMAIN parts : parts[i].err # "none"}
        n == IF failing = {} THEN Len(parts) ELSE Min(failing)
    IN  [chunks |-> FlattenSeq([i \in 1..n |-> parts[i].chunks]),
         err |-> IF failing = {} THEN "none" ELSE parts[n].err]

\* to_le_bytes of a number of w bytes; a negative one wraps.
LittleEndian(v, w) == [i \in 1..w |-> ((v % Pow[w]) \div Pow[i - 1]) % Base]

SerByte(v) == OneChunk(<<v>>)
SerInt(v, w) == OneChunk(LittleEndian(v, w))

\* as i64, as u64: no value is lost.
SerUsize(v) == SerInt(v, WideBytes)

SerFloat(T, v) == IF IsNaN(T, v) THEN Fails("NaN") ELSE SerInt(v, T.w)

\* The bytes of an ObjectId, as an array.
SerObjectId(v) == OneChunk(v)

\* A length; more elements than a u32 counts are refused.
SerLen(n) == IF n > MaxLen THEN Fails("TooLong") ELSE SerInt(n, LenBytes)

CheckZst(T) == IF ZeroSized[T] THEN Fails("ZeroSized") ELSE Writes(<<>>)

SerOption(T, ser, v) == IF v = <<>> THEN SerByte(0) ELSE Then(SerByte(1), ser[T.of][v[1]])

SerResult(T, ser, v) == Then(SerByte(v[1]), ser[IF v[1] = 0 THEN T.err ELSE T.ok][v[2]])

\* str and String: the bytes in one go.
SerString(v) == Then(SerLen(Len(v)), OneChunk(v))

\* serialize_slice: the bytes of a [u8] in one go, else element by element.
SerElements(U, ser, v) ==
    IF U = U8 THEN OneChunk(v) ELSE InSequence([i \in DOMAIN v |-> ser[U][v[i]]])

SerSlice(U, ser, v) == Then(SerLen(Len(v)), SerElements(U, ser, v))

SerVec(U, ser, v) == Then(CheckZst(U), SerSlice(U, ser, v))

\* Elements or keys of a type, none of them without a size: their number and
\* what each of them writes.
SerItems(U, parts) == Then(CheckZst(U), Then(SerLen(Len(parts)), InSequence(parts)))

\* IndexSet and IndexMap: in insertion order.
SerIndexSet(T, ser, v) == SerItems(T.of, [i \in DOMAIN v |-> ser[T.of][v[i]]])

SerPair(T, ser, key, v) == Then(ser[T.key][key], ser[T.of][v])

SerIndexMap(T, ser, v) ==
    SerItems(T.key, [i \in DOMAIN v |-> SerPair(T, ser, v[i][1], v[i][2])])

\* Elements of a set as a BTree yields them, and as a hash table does.
Ascending(K, S) == InOrder(S, {p \in S \X S : Less(K, p[1], p[2])})
HashOrder(K, S, order) ==
    LET sorted == Ascending(K, S)
        ranks == DOMAIN sorted
        places == InOrder(ranks, {p \in ranks \X ranks : order[p[1]] < order[p[2]]})
    IN  [i \in ranks |-> sorted[places[i]]]

\* Broken variant: the hash table is written as it is iterated.
IterateUnsorted(K, S, hash, order) ==
    IF hash THEN HashOrder(K, S, order) ELSE Ascending(K, S)

\* Broken variant: numbers are sorted as the unsigned ones they are written as.
IterateByBytes(K, S, hash, order) ==
    IF K.k = "int" THEN InOrder(S, {p \in S \X S : p[1] % Pow[K.w] < p[2] % Pow[K.w]})
    ELSE Ascending(K, S)

\* A hash table is collected and sorted; a BTree is iterated as it is.
Iterate(K, S, hash, order) ==
    IF hash THEN Ascending(K, ToSet(HashOrder(K, S, order))) ELSE Ascending(K, S)

SerSet(T, ser, order, v) ==
    LET items == Iterate(T.of, v, T.hash, order)
    IN  SerItems(T.of, [i \in DOMAIN items |-> ser[T.of][items[i]]])

SerMap(T, ser, order, v) ==
    LET keys == Iterate(T.key, DOMAIN v, T.hash, order)
    IN  SerItems(T.key, [i \in DOMAIN keys |-> SerPair(T, ser, keys[i], v[keys[i]])])

SerArray(T, ser, v) == IF T.n = 0 THEN Writes(<<>>) ELSE SerElements(T.of, ser, v)

\* Tuples and ranges.
SerTuple(T, ser, v) == InSequence([i \in DOMAIN v |-> ser[T.of[i]][v[i]]])

\* Derived structs, and the fields of a variant: one field after the other.
SerStruct(T, ser, v) == InSequence([i \in DOMAIN v |-> ser[T.of[i]][v[i]]])

\* A field under #[borsh(skip)].
SerSkipped == Writes(<<>>)

\* The user's function that serialize_with names: it writes what is wrapped.
SerializeWith(T, ser, v) == ser[T.of][v[1]]

\* Derived enums, SocketAddr and IpAddr: the tag of the variant, its fields.
SerEnum(T, ser, v) == Then(SerByte(T.tags[v[1]]), ser[T.of[v[1]]][v[2]])

SerRefCell(T, ser, v) == IF v[1] THEN Fails("Borrowed") ELSE ser[T.of][v[2]]

\* BorshSerialize::serialize.
Serialize(T, ser, order, v) ==
    CASE T.k \in {"uint", "int"} -> SerInt(v, T.w)
      [] T.k = "nonzero"  -> ser[T.of][v]
      [] T.k \in {"usize", "isize"} -> SerUsize(v)
      [] T.k = "float"    -> SerFloat(T, v)
      [] T.k = "bool"     -> SerByte(v)
      [] T.k = "objectid" -> SerObjectId(v)
      [] T.k = "option"   -> SerOption(T, ser, v)
      [] T.k = "result"   -> SerResult(T, ser, v)
      [] T.k = "string"   -> SerString(v)
      [] T.k = "slice"    -> SerSlice(T.of, ser, v)
      [] T.k = "vec"      -> SerVec(T.of, ser, v)
      [] T.k = "array"    -> SerArray(T, ser, v)
      [] T.k = "tuple"    -> SerTuple(T, ser, v)
      [] T.k = "struct"   -> SerStruct(T, ser, v)
      [] T.k = "enum"     -> SerEnum(T, ser, v)
      [] T.k = "set"      -> SerSet(T, ser, order, v)
      [] T.k = "map"      -> SerMap(T, ser, order, v)
      [] T.k = "indexset" -> SerIndexSet(T, ser, v)
      [] T.k = "indexmap" -> SerIndexMap(T, ser, v)
      [] T.k = "refcell"  -> SerRefCell(T, ser, v)
      [] T.k = "skip"     -> SerSkipped
      [] T.k = "third"    -> SerializeWith(T, ser, v)

\* The implementation for each type, given the ones for its parts.
Ser[T \in Types] ==
    [order \in Orders |-> [v \in Values[T] |->
        Serialize(T, [U \in PartsOf(T) |-> Ser[U][order]], order, v)]]
=============================================================================
