--------------------------- MODULE MCSchemaBuild ---------------------------
(***************************************************************************)
(* Programs for SchemaBuild.  In one family two versions of a struct O     *)
(* hold two versions of a struct I, under a tuple or a struct; in the      *)
(* other two structs, an enum and an Option hold each other.               *)
(***************************************************************************)
EXTENDS SchemaBuild

SeqsUpTo(S, n) == UNION {[1..k -> S] : k \in 0..n}

Type(kind, name, shape, of) == [kind |-> kind, name |-> name, shape |-> shape, of |-> of]
Struct(name, of) == Type("struct", <<name>>, "struct", of)
Enum(name, of) == Type("enum", <<name>>, "enum", of)
Prim(name) == Type("builtin", <<name>>, name, <<>>)

\* Tuple and Option are named after what they hold.
TupleType(names, of) == Type("builtin", <<"(,)">> \o FlattenSeq(names), "tuple", of)
OptionOf(name, of) == Type("builtin", <<"Option">> \o name, "Option", of)

\* 1 the root, 2 and 3 two structs O, 4 and 5 two structs I, 6 and 7 primitives.
Versions ==
    LET of1 == {<<2, 3>>, <<3, 2>>, <<4, 5>>, <<2, 5>>, <<4, 2>>}
        of2 == {<<4>>, <<5>>, <<2>>, <<4, 2>>, <<6>>}
        of3 == {<<5>>, <<4>>, <<3>>, <<6>>, <<2>>}
        of4 == {<<6>>, <<2>>, <<>>}
        of5 == {<<7>>, <<6>>, <<3>>}
        inner == <<Prim("u8"), Prim("u16")>>
        name(i) == IF i < 4 THEN <<"O">> ELSE <<"I">>
        root(of, tuple) == IF tuple THEN TupleType([i \in DOMAIN of |-> name(of[i])], of)
                           ELSE Struct("R", of)
    IN  {<<root(a, tuple), Struct("O", b), Struct("O", c), Struct("I", d), Struct("I", e)>> \o inner :
            a \in of1, tuple \in BOOLEAN, b \in of2, c \in of3, d \in of4, e \in of5}

\* 1 and 2 structs, 3 an enum with one or two variants, 4 and 6, 5 an Option,
\* 7 the unit type.
Recursive ==
    LET option(x) == OptionOf(<<<<"S", "T", "E">>[x]>>, <<x, 7>>)
    IN  {<<Struct("S", a), Struct("T", b), Enum("E", c), Struct("EA", d), option(e),
           Struct("EB", f), Prim("()")>> :
            a \in SeqsUpTo({1, 2, 3, 5}, 2), b \in SeqsUpTo({1, 3, 5}, 1), c \in {<<4>>, <<4, 6>>},
            d \in SeqsUpTo({1, 3, 5}, 1), e \in 1..3, f \in {<<>>, <<3>>}}

Uses(family, roots) ==
    {[types |-> ts, sender |-> r[1], receiver |-> r[2]] : ts \in family, r \in roots}

MCPrograms ==
    Uses(Versions, {<<1, 1>>, <<2, 3>>, <<4, 5>>}) \cup Uses(Recursive, {<<1, 1>>, <<3, 5>>})

\* Two structs O with one definition, whose members clash.
SilentPrograms == Uses(Versions, {<<1, 1>>})
=============================================================================
