----------------------------- MODULE WireTypes -----------------------------
(***************************************************************************)
(* The types borsh encodes and the values they hold, seen as the codec     *)
(* sees them.  A type is a record whose field k is its kind; Box, Rc, Arc, *)
(* Cow, Cell and & are written and read as the type they hold, VecDeque,   *)
(* LinkedList and Bytes as Vec, ranges as tuples.  What a variant of an    *)
(* enum holds is a struct; init says that the type is derived with         *)
(* #[borsh(init = ...)].                                                   *)
(*                                                                         *)
(*   kind                         value                                    *)
(*   uint int usize isize         a number                                 *)
(*   nonzero                      a number of the type it is of            *)
(*   float                        its bits, a number                       *)
(*   bool                         0 or 1                                   *)
(*   objectid                     its bytes, a bson ObjectId of w of them  *)
(*   option                       <<>> or <<v>>                            *)
(*   result                       <<0, error>> or <<1, ok>>                *)
(*   string vec slice array       a sequence (slice: Box<[T]>)             *)
(*   tuple struct                 the sequence of the fields               *)
(*   enum                         <<variant, fields>>                      *)
(*   set map (hash: BOOLEAN)      a set; a function on the keys            *)
(*   indexset indexmap            a sequence of elements, of pairs         *)
(*   refcell                      <<mutably borrowed, v>>                  *)
(*   skip                         v, of a field under #[borsh(skip)]       *)
(*   third                        <<v>>, of a field of a foreign type that *)
(*                                wraps v and has no implementations:      *)
(*                                serialize_with, deserialize_with and     *)
(*                                with_funcs name functions in their place *)
(***************************************************************************)
EXTENDS Integers, Sequences, SequencesExt, FiniteSets, FiniteSetsExt

CONSTANTS
    Base,       \* number of bytes values: 256 in the code
    LenBytes,   \* bytes of a length, a u32: 4 in the code
    WideBytes,  \* bytes usize and isize take on the wire: 8 in the code
    MaxUsize,   \* usize::MAX of the machine that decodes
    Depth,      \* bound: the types, and how deep each one is nested
    Keys,       \* those of them that are elements of sets or keys of maps
    Values,     \* bound: the values of each type that are exchanged
    MaxKeys,    \* bound: elements of a set or a map
    Less(_, _, _),      \* Ord of a type of keys
    Default(_),         \* core::default::Default of a type
    InitField(_, _, _)  \* what the method of init makes of a skipped field

Types == DOMAIN Depth
Byte == 0..Base - 1

\* How many different sequences of n bytes there are.
Pow[n \in Nat] == IF n = 0 THEN 1 ELSE Base * Pow[n - 1]

MaxLen == Pow[LenBytes] - 1         \* u32::MAX

\* usize holds a length, and a 64-bit word holds a usize.
ASSUME WireAssumption ==
    /\ Base \in Nat /\ Base > 2 /\ LenBytes \in Nat \ {0} /\ WideBytes \in Nat \ {0}
    /\ MaxUsize \in Nat /\ MaxLen <= MaxUsize /\ MaxUsize < Pow[WideBytes] /\ MaxKeys \in Nat

\* Numbers of w bytes with a sign; isize of the machine that decodes.
Signed(w) == -(Pow[w] \div 2)..Pow[w] \div 2 - 1
Isize == -(MaxUsize \div 2) - 1..MaxUsize \div 2

U8 == [k |-> "uint", w |-> 1]

\* One bit pattern of a float, all ones, is a NaN.
IsNaN(T, bits) == bits = Pow[T.w] - 1

\* Text in which the highest byte occurs is not UTF-8 (not ASCII).
ValidText(bytes) == \A i \in DOMAIN bytes : bytes[i] # Base - 1

Simple == {"uint", "int", "usize", "isize", "float", "bool", "string", "objectid"}
Single == {"nonzero", "option", "vec", "slice", "array", "set", "indexset", "refcell", "skip", "third"}
Kinds == Simple \cup Single \cup {"result", "tuple", "struct", "enum", "map", "indexmap"}

\* The types a type is built from.
PartsOf(T) ==
    CASE T.k \in Simple   -> {}
      [] T.k \in Single   -> {T.of}
      [] T.k = "result"   -> {T.err, T.ok}
      [] T.k \in {"map", "indexmap"} -> {T.key, T.of}
      [] T.k \in {"tuple", "struct", "enum"} -> {T.of[i] : i \in DOMAIN T.of}

\* A type of integers, which NonZero and the order of keys are about.
Integral == {"uint", "int", "usize", "isize"}

\* The discriminants of an enum are different bytes.
IsEnum(T) ==
    /\ T.tags \in Seq(Byte) /\ DOMAIN T.tags = DOMAIN T.of
    /\ \A i, j \in DOMAIN T.tags : T.tags[i] = T.tags[j] => i = j
    /\ \A i \in DOMAIN T.of : T.of[i].k = "struct" /\ ~T.of[i].init

\* A type is deeper than its parts.  Keys are compared as they are written: they
\* hold no skipped fields and are not changed by init.
ASSUME TypesAssumption ==
    /\ Depth \in [Types -> Nat] /\ Keys \subseteq Types
    /\ \A T \in Types :
         /\ T.k \in Kinds
         /\ PartsOf(T) \subseteq Types /\ \A U \in PartsOf(T) : Depth[U] < Depth[T]
         /\ T.k \in {"uint", "int", "float", "objectid"} => T.w \in Nat \ {0}
         /\ T.k = "nonzero" => T.of.k \in Integral
         /\ T.k = "array" => T.n \in Nat
         /\ T.k \in {"set", "map"} => T.hash \in BOOLEAN
         /\ T.k \in {"tuple", "struct", "enum"} => T.of \in Seq(Types)
         /\ T.k \in {"struct", "enum"} => T.init \in BOOLEAN
         /\ T.k = "enum" => IsEnum(T)
         /\ T.k \in {"set", "indexset"} => T.of \in Keys
         /\ T.k \in {"map", "indexmap"} => T.key \in Keys
    /\ \A K \in Keys :
         /\ PartsOf(K) \subseteq Keys /\ K.k \notin {"skip", "refcell"}
         /\ K.k \in {"struct", "enum"} => ~K.init

\* The values that v, a value of type T, is made of, each with its type.
Components(T, v) ==
    CASE T.k \in Simple -> {}
      [] T.k \in {"nonzero", "skip"} -> {<<T.of, v>>}
      [] T.k \in {"option", "vec", "slice", "array", "indexset", "third"} ->
           {<<T.of, v[i]>> : i \in DOMAIN v}
      [] T.k = "result"  -> {<<IF v[1] = 0 THEN T.err ELSE T.ok, v[2]>>}
      [] T.k \in {"tuple", "struct"} -> {<<T.of[i], v[i]>> : i \in DOMAIN v}
      [] T.k = "enum"    -> {<<T.of[v[1]], v[2]>>}
      [] T.k = "set"     -> {<<T.of, x>> : x \in v}
      [] T.k = "map"     -> {<<T.key, x>> : x \in DOMAIN v} \cup {<<T.of, v[x]>> : x \in DOMAIN v}
      [] T.k = "indexmap" ->
           {<<T.key, v[i][1]>> : i \in DOMAIN v} \cup {<<T.of, v[i][2]>> : i \in DOMAIN v}
      [] T.k = "refcell" -> {<<T.of, v[2]>>}

IsFunction(f) == f = [x \in DOMAIN f |-> f[x]]
IsSequence(s) == IsFunction(s) /\ Len(s) \in Nat /\ DOMAIN s = 1..Len(s)
IsPair(v) == v = <<v[1], v[2]>>
Few(S) == IsFiniteSet(S) /\ Cardinality(S) <= MaxKeys

\* v has the form of a value of type T.  (A usize may come from a wider machine.)
HasForm(T, v) ==
    CASE T.k \in {"uint", "float"} -> v \in 0..Pow[T.w] - 1
      [] T.k = "int"     -> v \in Signed(T.w)
      [] T.k = "nonzero" -> v # 0
      [] T.k = "usize"   -> v \in 0..Pow[WideBytes] - 1
      [] T.k = "isize"   -> v \in Signed(WideBytes)
      [] T.k = "bool"    -> v \in {0, 1}
      [] T.k = "objectid" -> v \in Seq(Byte) /\ Len(v) = T.w
      [] T.k = "option"  -> v = <<>> \/ v = <<v[1]>>
      [] T.k = "result"  -> IsPair(v) /\ v[1] \in {0, 1}
      [] T.k = "string"  -> v \in Seq(Byte) /\ ValidText(v)
      [] T.k \in {"vec", "slice"} -> IsSequence(v)
      [] T.k = "array"   -> IsSequence(v) /\ Len(v) = T.n
      [] T.k \in {"tuple", "struct"} -> IsSequence(v) /\ Len(v) = Len(T.of)
      [] T.k = "enum"    -> IsPair(v) /\ v[1] \in DOMAIN T.of
      [] T.k = "set"     -> Few(v)
      [] T.k = "map"     -> IsFunction(v) /\ Few(DOMAIN v)
      [] T.k = "indexset" -> IsSequence(v) /\ \A i, j \in DOMAIN v : v[i] = v[j] => i = j
      [] T.k = "indexmap" ->
           /\ IsSequence(v) /\ \A i \in DOMAIN v : IsPair(v[i])
           /\ \A i, j \in DOMAIN v : v[i][1] = v[j][1] => i = j
      [] T.k = "refcell" -> IsPair(v) /\ v[1] \in BOOLEAN
      [] T.k = "skip"    -> TRUE
      [] T.k = "third"   -> v = <<v[1]>>

\* The values of a type are values of it; keys are totally ordered.
ASSUME ValuesAssumption ==
    /\ DOMAIN Values = Types
    /\ \A T \in Types : \A v \in Values[T] :
         HasForm(T, v) /\ \A c \in Components(T, v) : c[2] \in Values[c[1]]
    /\ \A K \in Keys : \A a, b \in Values[K] :
         /\ ~Less(K, a, a) /\ (a = b \/ Less(K, a, b) \/ Less(K, b, a))
         /\ \A c \in Values[K] : Less(K, a, b) /\ Less(K, b, c) => Less(K, a, c)

\* size_of::<T>() == 0: what check_zst refuses as an element or a key.
ZeroSized[T \in Types] ==
    CASE T.k = "array" -> T.n = 0 \/ ZeroSized[T.of]
      [] T.k \in {"tuple", "struct"} -> \A i \in DOMAIN T.of : ZeroSized[T.of[i]]
      [] T.k = "enum"  -> Len(T.of) = 1 /\ ZeroSized[T.of[1]]
      [] T.k \in {"skip", "third"} -> ZeroSized[T.of]
      [] OTHER -> FALSE

\* The method a derived type names with init, called on a value that was decoded:
\* one that sets the skipped fields.
InitMethod(T, v) ==
    [i \in DOMAIN v |-> IF T.of[i].k = "skip" THEN InitField(T, i, v) ELSE v[i]]

\* The elements of S in the order of R, a total order given by its pairs.
InOrder(S, R) ==
    CHOOSE s \in [1..Cardinality(S) -> S] : \A i, j \in DOMAIN s : i < j => <<s[i], s[j]>> \in R
=============================================================================
