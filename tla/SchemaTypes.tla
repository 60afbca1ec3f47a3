---------------------------- MODULE SchemaTypes ----------------------------
(***************************************************************************)
(* BorshSchema of the types of WireTypes: the declaration of a type, its   *)
(* definition, the types whose definitions are added with it, and the      *)
(* encodings these definitions describe.                                   *)
(*                                                                         *)
(* A declaration is a tuple that starts with the word the code's string    *)
(* starts with; different strings are different tuples.  Definitions are   *)
(* records as in Schema, the variants of an enum with their tags.  The     *)
(* inner struct the derive makes of a variant is a type of kind "variant". *)
(***************************************************************************)
EXTENDS Deserialize, TLC

\* What has an implementation: IndexSet, IndexMap and ObjectId have none.  (SocketAddr has
\* none either; here it is the derived enum that is encoded like it.)
RECURSIVE HasSchema(_)
HasSchema(T) ==
    CASE T.k \in {"indexset", "indexmap", "objectid"} -> FALSE
      [] T.k = "result" -> HasSchema(T.ok) /\ HasSchema(T.err)
      [] T.k \in {"tuple", "struct", "enum"} -> \A i \in DOMAIN T.of : HasSchema(T.of[i])
      [] T.k = "skip" -> TRUE
      [] "of" \in DOMAIN T -> HasSchema(T.of) /\ ("key" \in DOMAIN T => HasSchema(T.key))
      [] OTHER -> TRUE

Unit == [k |-> "tuple", of |-> <<>>]

\* The fields of a struct that are not skipped.
Kept(fields) == SelectSeq(fields, LAMBDA F : F.k # "skip")

Variant(T, i) == [k |-> "variant", enum |-> T, i |-> i, of |-> T.of[i].of]

RECURSIVE Declaration(_)
Declaration(T) ==
    CASE T.k = "uint"    -> <<"u", T.w>>
      [] T.k = "int"     -> <<"i", T.w>>
      [] T.k = "nonzero" ->
           IF T.of.k = "usize" THEN <<"NonZeroUsize">> ELSE <<"NonZero", Declaration(T.of)>>
      [] T.k = "usize"   -> <<"u", WideBytes>>
      [] T.k = "isize"   -> <<"i", WideBytes>>
      [] T.k = "float"   -> <<"f", T.w>>
      [] T.k = "bool"    -> <<"bool">>
      [] T.k = "string"  -> <<"String">>
      [] T.k = "option"  -> <<"Option", Declaration(T.of)>>
      [] T.k = "result"  -> <<"Result", Declaration(T.ok), Declaration(T.err)>>
      [] T.k \in {"vec", "slice"} -> <<"Vec", Declaration(T.of)>>
      [] T.k = "array"   -> <<"[;]", Declaration(T.of), T.n>>
      [] T.k = "set"     -> <<IF T.hash THEN "HashSet" ELSE "BTreeSet", Declaration(T.of)>>
      [] T.k = "map"     -> <<IF T.hash THEN "HashMap" ELSE "BTreeMap",
                              Declaration(T.key), Declaration(T.of)>>
      [] T.k = "refcell" -> Declaration(T.of)
      [] T.k = "third"   -> <<"ThirdParty", Declaration(T.of)>>
      [] T.k = "tuple"   ->
           IF T.of = <<>> THEN <<"()">>
           ELSE <<"(,)", [i \in DOMAIN T.of |-> Declaration(T.of[i])]>>
      [] T.k = "struct"  ->
           LET kept == Kept(T.of)
           IN  <<"struct", [i \in DOMAIN kept |-> Declaration(kept[i])]>>
      [] T.k = "enum"    -> <<"enum", T.tags, [i \in DOMAIN T.of |-> Declaration(T.of[i])]>>
      [] T.k = "variant" -> <<"variant", Declaration(T.enum), T.i>>

\* The elements of the vector of a map.
Pair(K, T) == [k |-> "tuple", of |-> <<K, T>>]

Declarations(Ts) == [i \in DOMAIN Ts |-> Declaration(Ts[i])]

Primitive(n) == [k |-> "primitive", size |-> n]
Sequence(width, lo, hi, d) ==
    [k |-> "sequence", width |-> width, lo |-> lo, hi |-> hi, of |-> d]
\* DEFAULT_LENGTH_WIDTH and DEFAULT_LENGTH_RANGE.
Dynamic(d) == Sequence(LenBytes, 0, MaxLen, d)
Fields(ds) == [k |-> "tuple", of |-> ds]
Enumeration(tags, ds) == [k |-> "enum", width |-> 1, tags |-> tags, of |-> ds]

DefPrimitive(T) ==
    Primitive(CASE T.k \in {"usize", "isize"} -> WideBytes [] T.k = "bool" -> 1 [] OTHER -> T.w)
DefString == Dynamic(Declaration(U8))
DefArray(T) == Sequence(0, T.n, T.n, Declaration(T.of))
DefOption(T) == Enumeration(<<0, 1>>, Declarations(<<Unit, T.of>>))

\* Broken variant: the tags in the order of the variants.
DefResultInOrder(T) == Enumeration(<<0, 1>>, Declarations(<<T.ok, T.err>>))

DefResult(T) == Enumeration(<<1, 0>>, Declarations(<<T.ok, T.err>>))
DefVec(T) == Dynamic(Declaration(T.of))
DefHashes(T) == Dynamic(Declaration(IF T.k = "map" THEN Pair(T.key, T.of) ELSE T.of))
DefBTrees(T) == Dynamic(Declaration(IF T.k = "map" THEN Pair(T.key, T.of) ELSE T.of))

\* Tuples and ranges.
DefTuple(T) == IF T.of = <<>> THEN Primitive(0) ELSE Fields(Declarations(T.of))

\* What is derived: a struct, a variant made a struct, the enum of its variants;
\* and the foreign type that with_funcs describes.
DefStruct(T) == Fields(Declarations(Kept(T.of)))
DefThird(T) == Fields(<<Declaration(T.of)>>)
DefEnum(T) == Enumeration(T.tags, [i \in DOMAIN T.of |-> Declaration(Variant(T, i))])

\* IpAddr: a derived enum of two derived structs of octets.
IpAddrOf(v4, v6) ==
    LET struct(T) == [k |-> "struct", init |-> FALSE, of |-> <<T>>]
        octets(n) == struct([k |-> "array", of |-> U8, n |-> n])
    IN  [k |-> "enum", tags |-> <<0, 1>>, init |-> FALSE,
         of |-> <<struct(octets(v4)), struct(octets(v6))>>]

DefinitionOf(T) ==
    CASE T.k \in {"uint", "int", "usize", "isize", "float", "bool"} -> DefPrimitive(T)
      [] T.k = "nonzero" -> DefPrimitive(T.of)
      [] T.k = "string"  -> DefString
      [] T.k = "array"   -> DefArray(T)
      [] T.k = "option"  -> DefOption(T)
      [] T.k = "result"  -> DefResult(T)
      [] T.k \in {"vec", "slice"} -> DefVec(T)
      [] T.k \in {"set", "map"} -> IF T.hash THEN DefHashes(T) ELSE DefBTrees(T)
      [] T.k = "tuple"   -> DefTuple(T)
      [] T.k \in {"struct", "variant"} -> DefStruct(T)
      [] T.k = "third"   -> DefThird(T)
      [] T.k = "enum"    -> DefEnum(T)

\* The types whose definitions are added after, for an enum before, a type's own.
Members(T) ==
    CASE T.k = "string" -> <<U8>>
      [] T.k = "option" -> <<T.of, Unit>>
      [] T.k = "result" -> <<T.ok, T.err>>
      [] T.k \in {"vec", "slice", "array", "set", "third"} -> <<T.of>>
      [] T.k = "map" -> <<Pair(T.key, T.of)>>
      [] T.k = "tuple" -> T.of
      [] T.k \in {"struct", "variant"} -> Kept(T.of)
      [] T.k = "enum" -> [i \in DOMAIN T.of |-> Variant(T, i)]
      [] OTHER -> <<>>

\* add_definitions_recursively; a RefCell stands for what it holds.
RECURSIVE Definitions(_)
Definitions(T) ==
    IF T.k = "refcell" THEN Definitions(T.of)
    ELSE FoldLeft(LAMBDA defs, M : defs @@ Definitions(M),
                  Declaration(T) :> DefinitionOf(T), Members(T))

\* What a reader that knows definitions S and no type takes for an object of
\* declaration d, as the documentation of Definition describes encodings.
RECURSIVE Skim(_, _, _)
SkimEach(S, ds, s) ==
    FoldLeft(LAMBDA r, d : AndThen(r, LAMBDA v, rest : Skim(S, d, rest)), Got(0, s), ds)
Skim(S, d, s) ==
    LET def == S[d]
    IN  CASE def.k = "primitive" -> ReadExact(s, def.size)
          [] def.k = "sequence" ->
               AndThen(IF def.width = 0 THEN Got(def.lo, s) ELSE DecUint(s, def.width),
                       LAMBDA len, rest :
                           IF len \notin def.lo..def.hi THEN Bad("BadLength")
                           ELSE SkimEach(S, [i \in 1..len |-> def.of], rest))
          [] def.k = "tuple" -> SkimEach(S, def.of, s)
          [] def.k = "enum" ->
               AndThen(DecUint(s, def.width), LAMBDA tag, rest :
                   LET matching == {i \in DOMAIN def.tags : def.tags[i] = tag}
                   IN  IF matching = {} THEN Bad("BadTag")
                       ELSE Skim(S, def.of[Min(matching)], rest))
=============================================================================
