----------------------------- MODULE MCExchange -----------------------------
(***************************************************************************)
(* Types and values for Exchange, with 4 byte values, 1-byte lengths (at   *)
(* most 3 elements) and a 2-byte wire for usize.                           *)
(***************************************************************************)
EXTENDS Described

I8 == [k |-> "int", w |-> 1]
U16 == [k |-> "uint", w |-> 2]
Usize == [k |-> "usize"]
ISize == [k |-> "isize"]
NonZero(T) == [k |-> "nonzero", of |-> T]
NonZeroU8 == NonZero(U8)
F8 == [k |-> "float", w |-> 1]
Bool == [k |-> "bool"]
Text == [k |-> "string"]
ObjectId == [k |-> "objectid", w |-> 2]
Option(T) == [k |-> "option", of |-> T]
Result(T, E) == [k |-> "result", ok |-> T, err |-> E]
VecOf(T) == [k |-> "vec", of |-> T]
Slice(T) == [k |-> "slice", of |-> T]
Array(T, n) == [k |-> "array", of |-> T, n |-> n]
Tuple(Ts) == [k |-> "tuple", of |-> Ts]
SetOf(T, hash) == [k |-> "set", of |-> T, hash |-> hash]
MapOf(K, T, hash) == [k |-> "map", key |-> K, of |-> T, hash |-> hash]
IndexSet(T) == [k |-> "indexset", of |-> T]
IndexMap(K, T) == [k |-> "indexmap", key |-> K, of |-> T]
RefCell(T) == [k |-> "refcell", of |-> T]
Third(T) == [k |-> "third", of |-> T]
Skip(T) == [k |-> "skip", of |-> T]
Derive(fields, init) == [k |-> "struct", of |-> fields, init |-> init]
EnumOf(tags, variants, init) ==
    [k |-> "enum", tags |-> tags, init |-> init,
     of |-> [i \in DOMAIN variants |-> Derive(variants[i], FALSE)]]

\* Structs with skipped fields; enums with discriminants out of order.
Struct == Derive(<<U8, Skip(U16), Bool>>, FALSE)
WithInit == Derive(<<U8, Skip(U16)>>, TRUE)
Enum == EnumOf(<<2, 0, 3>>, <<<<>>, <<Skip(U8), NonZeroU8>>, <<Option(U8)>>>>, FALSE)
EnumInit == EnumOf(<<1, 0>>, <<<<U8, Skip(U8)>>, <<>>>>, TRUE)
\* Fields of a foreign type, in a struct and in a variant.
WithThird(hash) == Derive(<<U8, Third(MapOf(I8, Bool, hash)), Skip(U8)>>, TRUE)
EnumThird == EnumOf(<<3, 1>>, <<<<U8, U8>>, <<U8, Third(VecOf(I8))>>>>, FALSE)
IpAddr == IpAddrOf(2, 3)
SocketAddr ==
    EnumOf(<<0, 1>>, <<<<Array(U8, 2), U8>>, <<Array(U8, 3), U8, Skip(U16), Skip(U16)>>>>, FALSE)

Scalars == {<<I8, v>> : v \in -2..1} \cup {<<U16, v>> : v \in {0, 1, 4, 6, 15}}
    \cup {<<NonZeroU8, 1>>, <<NonZeroU8, 3>>} \cup {<<Usize, v>> : v \in {0, 5, 9, 10, 15}}
    \cup {<<ISize, v>> : v \in {-8, -6, -5, -1, 0, 4, 5}}
    \cup {<<NonZero(I8), -2>>, <<NonZero(Usize), 9>>, <<NonZero(Usize), 10>>}
    \cup {<<F8, v>> : v \in 0..3} \cup {<<Bool, 0>>, <<Bool, 1>>}

Composites == {
    <<Option(U16), <<>>>>, <<Option(U16), <<7>>>>, <<Option(Option(Bool)), <<<<>>>>>>,
    <<IpAddr, <<1, <<<<<<1, 0>>>>>>>>>>, <<IpAddr, <<2, <<<<<<2, 1, 3>>>>>>>>>>,
    <<ObjectId, <<3, 1>>>>, <<VecOf(ObjectId), <<<<0, 2>>, <<1, 1>>>>>>,
    <<Tuple(<<Text, ObjectId, U16>>), <<<<1, 2>>, <<0, 3>>, 7>>>>,
    <<Result(U8, U16), <<0, 9>>>>, <<Result(U8, U16), <<1, 2>>>>,
    <<Text, <<0, 2, 1>>>>, <<Text, <<>>>>, <<Text, <<1, 1, 1, 1>>>>,
    <<VecOf(U8), <<>>>>, <<VecOf(U8), <<3, 1, 2>>>>, <<VecOf(U8), <<1, 1, 1, 1>>>>,
    <<VecOf(U16), <<4, 15>>>>, <<VecOf(Unit), <<<<>>, <<>>>>>>, <<Slice(Unit), <<<<>>, <<>>>>>>,
    <<Slice(I8), <<-2, 1>>>>, <<VecOf(Struct), <<<<1, 9, 1>>, <<2, 8, 0>>>>>>,
    <<VecOf(Struct), <<<<1, 0, 1>>, <<2, 0, 0>>>>>>,
    <<Array(U8, 2), <<3, 0>>>>, <<Array(U16, 2), <<3, 9>>>>, <<Array(U16, 0), <<>>>>,
    <<WithInit, <<3, 5>>>>, <<VecOf(WithInit), <<<<2, 5>>, <<1, 1>>>>>>,
    <<VecOf(WithInit), <<<<2, 2>>, <<1, 1>>>>>>,
    <<EnumInit, <<1, <<3, 0>>>>>>, <<EnumInit, <<2, <<>>>>>>,
    <<EnumThird, <<1, <<3, 0>>>>>>, <<EnumThird, <<2, <<3, <<<<1, -2>>>>>>>>>>,
    <<Struct, <<3, 5, 1>>>>, <<Enum, <<1, <<>>>>>>, <<Enum, <<2, <<3, 1>>>>>>,
    <<Enum, <<3, <<<<2>>>>>>>>, <<SocketAddr, <<1, <<<<1, 0>>, 3>>>>>>,
    <<SocketAddr, <<2, <<<<1, 0, 2>>, 3, 7, 9>>>>>>,
    <<Tuple(<<U16, VecOf(F8), U8>>), <<9, <<1, 3, 0>>, 2>>>>,
    <<VecOf(RefCell(U8)), <<<<FALSE, 2>>, <<FALSE, 1>>>>>>,
    <<VecOf(RefCell(U8)), <<<<FALSE, 2>>, <<TRUE, 1>>, <<FALSE, 3>>>>>>,
    <<Tuple(<<Array(VecOf(U8), 3), Array(VecOf(U16), 2)>>),
      <<<<<<1, 2, 3>>, <<0>>, <<2, 1>>>>, <<<<7, 1>>, <<4>>>>>>>> }

\* The last fields are skipped.
TwoThirds(a, b) ==
    << <<3, <<[x \in {-2, 1} |-> IF x = 1 THEN 0 ELSE 1]>>, a>>, <<2, <<[x \in {} |-> 0]>>, b>> >>

Keyed(hash) == {
    <<SetOf(I8, hash), {}>>, <<SetOf(I8, hash), {-2, 0, 1}>>,
    <<SetOf(U16, hash), {1, 4, 8}>>, <<SetOf(Text, hash), {<<1>>, <<0, 2>>, <<>>}>>,
    <<SetOf(ObjectId, hash), {<<1, 0>>, <<0, 3>>}>>,
    <<SetOf(Unit, hash), {<<>>}>>, <<MapOf(Unit, U8, hash), [x \in {<<>>} |-> 1]>>,
    <<SetOf(U16, hash), {0, 1, 2, 3}>>,
    <<VecOf(WithThird(hash)), TwoThirds(0, 1)>>, <<VecOf(WithThird(hash)), TwoThirds(3, 2)>>,
    <<MapOf(I8, F8, hash), [x \in {-1, 1} |-> IF x = 1 THEN 2 ELSE 0]>>,
    <<MapOf(I8, F8, hash), [x \in {-1, 0, 1} |-> IF x = 0 THEN 3 ELSE 0]>>,
    <<MapOf(U16, VecOf(U8), hash), [x \in {4, 3} |-> <<x % 4>>]>>,
    <<MapOf(Tuple(<<Bool, I8>>), Unit, hash), [x \in {<<1, -2>>, <<0, 1>>} |-> <<>>]>> }

Indexes == {
    <<IndexSet(U16), <<9, 2, 4>>>>, <<IndexMap(I8, U8), <<<<1, 3>>, <<-2, 0>>>>>>,
    <<IndexMap(Unit, U8), <<<<<<>>, 2>>>>>>, <<IndexSet(Text), <<<<2>>, <<>>>>>> }

MCSamples == Scalars \cup Composites \cup Keyed(TRUE) \cup Keyed(FALSE) \cup Indexes

MCForeign == {
    U16, I8, NonZeroU8, NonZero(I8), NonZero(Usize), Usize, ISize, F8, Bool, Text, Unit, Option(ObjectId), Option(U8), Option(Option(Bool)),
    Result(Bool, NonZeroU8), VecOf(U8), VecOf(Bool), VecOf(Unit), Array(Bool, 2), Struct,
    WithInit, Enum, EnumInit, WithThird(TRUE), EnumThird, SocketAddr, SetOf(U8, TRUE), SetOf(I8, FALSE), SetOf(VecOf(Bool), TRUE),
    MapOf(I8, U8, TRUE), MapOf(U8, Bool, FALSE), IndexSet(U8), IndexMap(I8, U8),
    Tuple(<<SetOf(U8, FALSE), Option(Bool)>>) }

-----------------------------------------------------------------------------
(* The types there are, their values, and how they are compared.           *)

RECURSIVE Nesting(_), Within(_)
Nesting(T) == IF PartsOf(T) = {} THEN 0 ELSE 1 + Max({Nesting(U) : U \in PartsOf(T)})
Within(T) == {T} \cup UNION {Within(U) : U \in PartsOf(T)}

\* Numbers by value, sequences lexicographically.
RECURSIVE MCLess(_, _, _)
MCLess(T, a, b) ==
    IF T.k \in {"string", "objectid", "vec", "tuple"}
    THEN \E i \in DOMAIN b :
            /\ \A j \in 1..i - 1 : j \in DOMAIN a /\ a[j] = b[j]
            /\ i \in DOMAIN a => MCLess(IF T.k \in {"string", "objectid"} THEN U8 ELSE IF T.k = "vec" THEN T.of
                                        ELSE T.of[i], a[i], b[i])
    ELSE a < b

RECURSIVE MCDefault(_)
MCDefault(T) == IF T.k = "tuple" THEN [i \in DOMAIN T.of |-> MCDefault(T.of[i])]
                ELSE IF T.k \in {"uint", "int", "bool"} THEN 0 ELSE <<>>

\* The method of init computes the skipped fields from the first field.
MCInitField(T, i, v) == v[1]

Seqs(S, n) == UNION {[1..m -> S] : m \in 0..n}
Injective(s) == \A i, j \in DOMAIN s : s[i] = s[j] => i = j

RECURSIVE Product(_)
Product(sets) ==
    IF sets = <<>> THEN {<<>>} ELSE {<<x>> \o s : x \in Head(sets), s \in Product(Tail(sets))}

\* Every value of type T that a reader may be sent, told without the decoder.
RECURSIVE All(_)
AllFields(T) ==
    LET fields == Product([i \in DOMAIN T.of |-> All(T.of[i])])
        computed(v) == [i \in DOMAIN v |-> IF T.of[i].k = "skip" THEN MCInitField(T, i, v) ELSE v[i]]
    IN  IF T.init THEN {computed(v) : v \in fields} ELSE fields
All(T) ==
    CASE T.k = "uint"    -> 0..Pow[T.w] - 1
      [] T.k = "int"     -> Signed(T.w)
      [] T.k = "nonzero" -> All(T.of) \ {0}
      [] T.k = "usize"   -> 0..MaxUsize
      [] T.k = "isize"   -> Isize
      [] T.k = "float"   -> 0..Pow[T.w] - 2
      [] T.k = "bool"    -> {0, 1}
      [] T.k = "objectid" -> [1..T.w -> Byte]
      [] T.k = "option"  -> {<<>>} \cup {<<x>> : x \in All(T.of)}
      [] T.k = "result"  -> ({0} \X All(T.err)) \cup ({1} \X All(T.ok))
      [] T.k = "string"  -> Seqs(0..Base - 2, MaxLen)
      [] T.k = "vec"     -> Seqs(All(T.of), MaxLen)
      [] T.k = "array"   -> [1..T.n -> All(T.of)]
      [] T.k = "tuple"   -> Product([i \in DOMAIN T.of |-> All(T.of[i])])
      [] T.k = "struct"  -> AllFields(T)
      [] T.k = "enum"    ->
           UNION {{<<i, v>> : v \in AllFields([T.of[i] EXCEPT !.init = T.init])} : i \in DOMAIN T.of}
      [] T.k = "set"     -> {ToSet(s) : s \in Seqs(All(T.of), MaxLen)}
      [] T.k = "map"     ->
           UNION {[S -> All(T.of)] : S \in {ToSet(s) : s \in Seqs(All(T.key), MaxLen)}}
      [] T.k = "indexset" -> {s \in Seqs(All(T.of), MaxLen) : Injective(s)}
      [] T.k = "indexmap" ->
           {s \in Seqs(All(T.key) \X All(T.of), MaxLen) : Injective([i \in DOMAIN s |-> s[i][1]])}
      [] T.k = "refcell" -> {FALSE} \X All(T.of)
      [] T.k = "skip"    -> {MCDefault(T.of)}
      [] T.k = "third"   -> {<<x>> : x \in All(T.of)}

\* The values of type T that v, a value of type S, is made of.
RECURSIVE Inside(_, _, _)
Inside(T, S, v) ==
    IF T = S THEN {v}
    ELSE IF T \notin Within(S) THEN {}
    ELSE UNION {Inside(T, c[1], c[2]) : c \in Components(S, v)}

\* Every value that few bytes stand for, and what it is made of: init gives skipped
\* fields values that are not read.
Read(T) ==
    LET computed == {U \in MCForeign : U.k \in {"struct", "enum"} /\ U.init /\ T \in Within(U)}
    IN  (IF \E U \in MCForeign : T \in Within(U) THEN All(T) ELSE {})
            \cup UNION {UNION {Inside(T, U, v) : v \in All(U)} : U \in computed}

\* TLC evaluates a definition once, and what is substituted for a constant at every
\* use of the constant.
Nested == [T \in UNION {Within(U) : U \in MCForeign \cup {s[1] : s \in MCSamples}} |-> Nesting(T)]
Held == [T \in DOMAIN Nested |-> Read(T) \cup UNION {Inside(T, s[1], s[2]) : s \in MCSamples}]
KeysWithin == UNION {Within(IF "key" \in DOMAIN T THEN T.key ELSE T.of) :
                 T \in {U \in DOMAIN Nested : U.k \in {"set", "map", "indexset", "indexmap"}}}
MCDepth == Nested
MCKeys == KeysWithin
MCValues == Held
=============================================================================
