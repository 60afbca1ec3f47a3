--------------------------- MODULE MCSchemaChecks ---------------------------
(***************************************************************************)
(* Containers of up to three declarations.  Every definition may name any  *)
(* of them, so that types contain themselves, share members and miss       *)
(* definitions.  A byte has two values and usize counts to 15, so that     *)
(* lengths do not fit their tags and sizes do not fit usize.               *)
(***************************************************************************)
EXTENDS SchemaChecks

CONSTANTS a, b, c

Primitive(n) == [k |-> "primitive", size |-> n]
Sequence(width, lo, hi, d) ==
    [k |-> "sequence", width |-> width, lo |-> lo, hi |-> hi, of |-> d]
EnumOf(width, ds) == [k |-> "enum", width |-> width, of |-> ds]
StructOf(ds) == [k |-> "tuple", of |-> ds]

Primitives == {Primitive(0), Primitive(1), Primitive(3)}
ArraysOf(ds) == {Sequence(0, n, n, d) : n \in {0, 2}, d \in ds}
Dynamics(ds) == {Sequence(1, 0, 1, d) : d \in ds} \cup {Sequence(2, 0, 5, d) : d \in ds}
Odd(ds) == {Sequence(0, 1, 2, d) : d \in ds}
    \cup {Sequence(1, 0, 2, d) : d \in ds} \cup {Sequence(8, 0, 20, d) : d \in ds}
    \cup {Sequence(3, 0, 1, d) : d \in ds} \cup {Sequence(1, 1, 0, d) : d \in ds}
    \cup {Sequence(9, 0, 1, d) : d \in ds} \cup {Sequence(0, 0, 20, d) : d \in ds}
Structs(ds) == {StructOf(<<>>)} \cup {StructOf(<<d>>) : d \in ds} \cup {StructOf(<<d, e>>) : d, e \in ds}
Enums(ds) == {EnumOf(w, <<d, e>>) : w \in {0, 1}, d, e \in ds} \cup {EnumOf(9, <<d>>) : d \in ds}

\* The root is of any kind, over any declarations; the others are simpler.
OfRoot == ArraysOf({b}) \cup Dynamics({a, b}) \cup Odd({b}) \cup Structs({a, b, c})
    \cup Enums({a, b, c})
OfB == Primitives \cup ArraysOf({a, c}) \cup Dynamics({c}) \cup Odd({c})
    \cup Structs({a, c}) \cup Enums({b, c})
OfC == Primitives \cup ArraysOf({a, c}) \cup {StructOf(<<>>), StructOf(<<b>>)}
    \cup {EnumOf(1, <<b>>), EnumOf(0, <<a>>), Sequence(1, 0, 1, b)}

MCContainers ==
    {(a :> x) @@ (b :> y) @@ (c :> z) : x \in OfRoot, y \in OfB, z \in OfC}
        \cup {(a :> x) @@ (b :> y) : x \in OfRoot, y \in OfB}
        \cup {(a :> x) @@ (c :> z) : x \in OfRoot, z \in OfC}
=============================================================================
