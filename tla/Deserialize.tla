---------------------------- MODULE Deserialize ----------------------------
(***************************************************************************)
(* BorshDeserialize over a slice: what each type reads from the bytes that *)
(* are left and the value it builds.  strict: the decoder was built with   *)
(* the feature de_strict_order.  A decoder is a function of the bytes that *)
(* are left; dec are the ones of the types a type is built from.           *)
(***************************************************************************)
EXTENDS WireTypes

Got(v, rest) == [err |-> "none", val |-> v, rest |-> rest]
Bad(e) == [err |-> e]

IsOk(r) == r.err = "none"

\* The value r was read with, turned into another one.
Map(r, F(_)) == IF IsOk(r) THEN Got(F(r.val), r.rest) ELSE r

\* The value that follows r's, given r's.
AndThen(r, F(_, _)) == IF IsOk(r) THEN F(r.val, r.rest) ELSE r

\* read_exact of n bytes, the end of the slice reported as InvalidData.
ReadExact(s, n) == IF Len(s) < n THEN Bad("UnexpectedLength")
                   ELSE Got(SubSeq(s, 1, n), SubSeq(s, n + 1, Len(s)))

\* Broken variant: the bytes are taken in the order of the machine.
FromBigEndian(bytes) ==
    LET upTo[n \in 0..Len(bytes)] == IF n = 0 THEN 0 ELSE upTo[n - 1] * Base + bytes[n]
    IN  upTo[Len(bytes)]

\* from_le_bytes.
FromLittleEndian(bytes) ==
    LET upTo[n \in 0..Len(bytes)] ==
            IF n = 0 THEN 0 ELSE upTo[n - 1] + bytes[n] * Pow[n - 1]
    IN  upTo[Len(bytes)]

DecByte(s) == Map(ReadExact(s, 1), LAMBDA bytes : bytes[1])
DecUint(s, w) == Map(ReadExact(s, w), FromLittleEndian)
DecInt(s, w) ==
    Map(DecUint(s, w), LAMBDA u : IF u < Pow[w] \div 2 THEN u ELSE u - Pow[w])

DecUsize(s) ==
    AndThen(DecUint(s, WideBytes),
            LAMBDA v, rest : IF v > MaxUsize THEN Bad("Overflow") ELSE Got(v, rest))

DecIsize(s) ==
    AndThen(DecInt(s, WideBytes),
            LAMBDA v, rest : IF v \notin Isize THEN Bad("Overflow") ELSE Got(v, rest))

DecFloat(T, s) ==
    AndThen(DecUint(s, T.w), LAMBDA v, rest : IF IsNaN(T, v) THEN Bad("NaN") ELSE Got(v, rest))

DecBool(s) ==
    AndThen(DecByte(s), LAMBDA b, rest : IF b > 1 THEN Bad("BadTag") ELSE Got(b, rest))

\* ObjectId: its read_exact keeps the error of the reader.
DecObjectId(T, s) ==
    IF Len(s) < T.w THEN Bad("UnexpectedEof") ELSE Got(SubSeq(s, 1, T.w), SubSeq(s, T.w + 1, Len(s)))

\* Broken variant: zero is let through.
DecNonZeroUnchecked(T, dec, s) == dec[T.of][s]

DecNonZero(T, dec, s) ==
    AndThen(dec[T.of][s],
            LAMBDA v, rest : IF v = 0 THEN Bad("ZeroValue") ELSE Got(v, rest))

DecOption(T, dec, s) ==
    AndThen(DecByte(s), LAMBDA flag, rest :
        IF flag = 0 THEN Got(<<>>, rest)
        ELSE IF flag = 1 THEN Map(dec[T.of][rest], LAMBDA v : <<v>>)
        ELSE Bad("BadTag"))

DecResult(T, dec, s) ==
    AndThen(DecByte(s), LAMBDA flag, rest :
        IF flag > 1 THEN Bad("BadTag")
        ELSE Map(dec[IF flag = 0 THEN T.err ELSE T.ok][rest], LAMBDA v : <<flag, v>>))

\* The values of the decoders ds one after the other.
DecEach(ds, s) ==
    LET upTo[n \in 0..Len(ds)] ==
            IF n = 0 THEN Got(<<>>, s)
            ELSE AndThen(upTo[n - 1], LAMBDA vs, rest :
                     Map(ds[n][rest], LAMBDA v : Append(vs, v)))
    IN  upTo[Len(ds)]

\* Broken variant: the bytes that never came are zeros.
BulkPadded(s, len) ==
    LET n == IF len < Len(s) THEN len ELSE Len(s)
    IN  Got([i \in 1..len |-> IF i <= n THEN s[i] ELSE 0], SubSeq(s, n + 1, Len(s)))

\* u8::vec_from_reader, its calls left to FromReader.
Bulk(s, len) == ReadExact(s, len)

CheckedZst(T, r) == IF ZeroSized[T] THEN Bad("ZeroSized") ELSE r

\* A length, and as many values of the decoder d.
DecCounted(d, s) ==
    AndThen(DecUint(s, LenBytes), LAMBDA len, rest : DecEach([i \in 1..len |-> d], rest))

\* A length, and as many bytes.
DecBytes(s) == AndThen(DecUint(s, LenBytes), LAMBDA len, rest : Bulk(rest, len))

\* Vec<U>.
DecVec(U, dec, s) == CheckedZst(U, IF U = U8 THEN DecBytes(s) ELSE DecCounted(dec[U], s))

DecString(s) ==
    AndThen(DecBytes(s),
            LAMBDA v, rest : IF ValidText(v) THEN Got(v, rest) ELSE Bad("BadText"))

DecArray(T, dec, s) == DecEach([i \in 1..T.n |-> dec[T.of]], s)

DecTuple(T, dec, s) == DecEach([i \in DOMAIN T.of |-> dec[T.of[i]]], s)

\* The user's function that deserialize_with names.
DeserializeWith(T, dec, s) == Map(dec[T.of][s], LAMBDA v : <<v>>)

\* A skipped field takes nothing and is given its default.
DecSkipped(T, s) == Got(Default(T.of), s)

\* The fields of a struct or a variant, in their order.
DecFields(T, dec, s) == DecEach([i \in DOMAIN T.of |-> dec[T.of[i]]], s)

\* The method of init is called when all the fields are there.
DecStruct(T, dec, s) ==
    Map(DecFields(T, dec, s), LAMBDA v : IF T.init THEN InitMethod(T, v) ELSE v)

\* deserialize_variant: the first variant whose tag is the one that was read.
DecEnum(T, dec, s) ==
    AndThen(DecByte(s), LAMBDA tag, rest :
        LET matching == {i \in DOMAIN T.tags : T.tags[i] = tag}
            variant == Min(matching)
        IN  IF matching = {} THEN Bad("BadTag")
            ELSE Map(dec[T.of[variant]][rest], LAMBDA v :
                     <<variant, IF T.init THEN InitMethod(T.of[variant], v) ELSE v>>))

\* Broken variant: a repeated key passes for ascending.
AscendingKeysWeak(K, keys) ==
    \A i \in 1..Len(keys) - 1 : ~Less(K, keys[i + 1], keys[i])

\* The check of de_strict_order on every two neighbours.
AscendingKeys(K, keys) == \A i \in 1..Len(keys) - 1 : Less(K, keys[i], keys[i + 1])

KeysOf(pairs) == [i \in DOMAIN pairs |-> pairs[i][1]]

\* collect: of the entries of one key the last one is kept.
LastValues(pairs) ==
    [key \in ToSet(KeysOf(pairs)) |->
        pairs[Max({i \in DOMAIN pairs : pairs[i][1] = key})][2]]

DecSet(T, dec, strict, s) ==
    AndThen(DecVec(T.of, dec, s), LAMBDA vec, rest :
        IF strict /\ ~AscendingKeys(T.of, vec) THEN Bad("WrongOrder")
        ELSE Got(ToSet(vec), rest))

\* A pair of the vector of a map.
DecPair(T, dec) ==
    [s \in Seq(Byte) |-> AndThen(dec[T.key][s], LAMBDA key, rest :
        Map(dec[T.of][rest], LAMBDA v : <<key, v>>))]

\* check_zst of the keys; a pair with a key of some size has a size itself.
DecPairs(T, dec, s) == CheckedZst(T.key, DecCounted(DecPair(T, dec), s))

DecMap(T, dec, strict, s) ==
    AndThen(DecPairs(T, dec, s), LAMBDA pairs, rest :
        IF strict /\ ~AscendingKeys(T.key, KeysOf(pairs)) THEN Bad("WrongOrder")
        ELSE Got(LastValues(pairs), rest))

\* The elements of s without the later ones equal to an earlier one.
FirstOnes(s) ==
    LET first == {i \in DOMAIN s : \A j \in 1..i - 1 : s[j] # s[i]}
        places == InOrder(first, {p \in first \X first : p[1] < p[2]})
    IN  [i \in DOMAIN places |-> s[places[i]]]

DecIndexSet(T, dec, s) == Map(DecVec(T.of, dec, s), FirstOnes)

\* A repeated key keeps the place of its first entry, the value of its last.
DecIndexMap(T, dec, s) ==
    Map(DecPairs(T, dec, s), LAMBDA pairs :
        LET keys == FirstOnes(KeysOf(pairs))
        IN  [i \in DOMAIN keys |-> <<keys[i], LastValues(pairs)[keys[i]]>>])

DecRefCell(T, dec, s) == Map(dec[T.of][s], LAMBDA v : <<FALSE, v>>)

\* BorshDeserialize::deserialize_reader.
Deserialize(T, dec, strict, s) ==
    CASE T.k = "uint"     -> DecUint(s, T.w)
      [] T.k = "int"      -> DecInt(s, T.w)
      [] T.k = "nonzero"  -> DecNonZero(T, dec, s)
      [] T.k = "usize"    -> DecUsize(s)
      [] T.k = "isize"    -> DecIsize(s)
      [] T.k = "float"    -> DecFloat(T, s)
      [] T.k = "bool"     -> DecBool(s)
      [] T.k = "objectid" -> DecObjectId(T, s)
      [] T.k = "option"   -> DecOption(T, dec, s)
      [] T.k = "result"   -> DecResult(T, dec, s)
      [] T.k = "string"   -> DecString(s)
      [] T.k \in {"vec", "slice"} -> DecVec(T.of, dec, s)
      [] T.k = "array"    -> DecArray(T, dec, s)
      [] T.k = "tuple"    -> DecTuple(T, dec, s)
      [] T.k = "struct"   -> DecStruct(T, dec, s)
      [] T.k = "enum"     -> DecEnum(T, dec, s)
      [] T.k = "set"      -> DecSet(T, dec, strict, s)
      [] T.k = "map"      -> DecMap(T, dec, strict, s)
      [] T.k = "indexset" -> DecIndexSet(T, dec, s)
      [] T.k = "indexmap" -> DecIndexMap(T, dec, s)
      [] T.k = "refcell"  -> DecRefCell(T, dec, s)
      [] T.k = "skip"     -> DecSkipped(T, s)
      [] T.k = "third"    -> DeserializeWith(T, dec, s)

\* The implementation for each type, given the ones for its parts.
Dec[T \in Types] ==
    [strict \in BOOLEAN |-> [s \in Seq(Byte) |->
        Deserialize(T, [U \in PartsOf(T) |-> Dec[U][strict]], strict, s)]]

\* from_slice: all the bytes must be taken.
FromSlice(T, s, strict) ==
    AndThen(Dec[T][strict][s], LAMBDA v, rest :
        IF rest # <<>> THEN Bad("NotAllBytesRead") ELSE Got(v, rest))
=============================================================================
