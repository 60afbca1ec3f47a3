------------------------------ MODULE MCDerive ------------------------------
(***************************************************************************)
(* Structs of two fields, enums of one or two variants, pairs of items of  *)
(* which one holds the other, and the attributes of items.  Where a bound  *)
(* or a parameter is given, it is given as it should be.                   *)
(*                                                                         *)
(* The tags of an enum depend on the expressions of its variants only, and *)
(* what else is generated for it on the rest: first the tags of an enum    *)
(* are assigned, with no program to expand, or a program is expanded, with *)
(* the tags of an enum of no variants.                                     *)
(***************************************************************************)
EXTENDS Rustc, MCDiscriminants

T == Param("T")
U == Param("U")

F(id, ty, attrs) == [id |-> id, ty |-> ty, attrs |-> attrs]

\* What a field of this type needs, and what its declaration should name.
RECURSIVE Atoms(_)
Atoms(ty) ==
    CASE ty.k = "param" -> <<ty>>
      [] ty.k \in {"assoc", "qself"} -> <<Assoc(ty.p)>>
      [] ty.k = "phantom" -> <<>>
      [] OTHER -> FlattenSeq([i \in DOMAIN ty.of |-> Atoms(ty.of[i])])

\* What is to be given for the first argument of a map or a Box.
KeyBounds(ty) ==
    LET traits == CASE ty.p = "tree" -> {"ord"} [] ty.p = "hash" -> {"ord", "hash"} [] OTHER -> {"clone"}
    IN  IF ty.k = "demanding" THEN {Predicate(a, t) : a \in ToSet(Atoms(ty.of[1])), t \in traits} ELSE {}

Given(ty, trait) == <<{Predicate(a, trait) : a \in ToSet(Atoms(ty))} \cup KeyBounds(ty)>>
Meta(key) == [key |-> key]
Bound(s, d) == [key |-> "bound", ser |-> s, de |-> d]
SchemaMeta(params, funcs) == [key |-> "schema", params |-> params, funcs |-> funcs]
Entries(ty) == <<[i \in DOMAIN Atoms(ty) |-> <<Atoms(ty)[i].p, Atoms(ty)[i]>>]>>
Funcs(a, b) == <<[declaration |-> a, definitions |-> b]>>

AttributesFor(ty) ==
    LET skip == Meta("skip")
        bound == Bound(Given(ty, "ser"), Given(ty, "de"))
    IN  { <<>>, <<<<skip>>>>, <<<<Meta("serialize_with")>>>>,
          <<<<Meta("serialize_with"), Meta("deserialize_with"), SchemaMeta(<<>>, Funcs(TRUE, TRUE))>>>>,
          <<<<bound>>>>, <<<<Bound(<<>>, Given(ty, "de"))>>>>, <<<<skip, Bound(<<>>, <<{}>>)>>>>,
          <<<<Bound(Given(ty, "ser"), <<>>), Bound(<<>>, Given(ty, "de"))>>>>,
          <<<<SchemaMeta(Entries(ty), <<>>), bound>>>>, <<<<SchemaMeta(<<>>, Funcs(TRUE, FALSE))>>>>,
          <<<<skip, Meta("deserialize_with")>>>>, <<<<SchemaMeta(Entries(ty), <<>>), skip>>>>,
          <<<<skip, SchemaMeta(<<>>, Funcs(TRUE, TRUE))>>>>,
          <<<<Meta("rename")>>>>, <<<<skip>>, <<skip>>>> }

FirstTypes ==
    { Prim("a"), T, Generic(<<T>>), Generic(<<T, U>>), Compound(<<U, T>>), Phantom(T), Generic(<<Phantom(T)>>),
      Assoc("T"), QSelf("T"), Generic(<<Assoc("T")>>), ArrayN(T), Borrowed,
      Demanding("tree", <<T, U>>), Demanding("hash", <<Generic(<<T>>)>>), Demanding("box", <<T>>) }
FirstFields == UNION {{F(1, ty, a) : a \in AttributesFor(ty)} : ty \in FirstTypes}
SecondFields ==
    {F(2, ty, <<>>) : ty \in {Prim("b"), T, U, Assoc("U"), Phantom(U), Assoc("T")}}
        \cup {F(2, U, <<<<Meta("skip")>>>>), F(2, Compound(<<T, U>>), <<<<Meta("skip")>>>>)}

\* A type and those in it, and how deep it is nested.
RECURSIVE TypesIn(_)
TypesIn(ty) == {ty} \cup UNION {TypesIn(ty.of[i]) : i \in DOMAIN ty.of}

RECURSIVE DepthOf(_)
DepthOf(ty) == Max({0} \cup {DepthOf(ty.of[i]) + 1 : i \in DOMAIN ty.of})

\* The parameters are those the fields mention, the predicates those they need.
MakeItem(name, isEnum, attrs, shape, more) ==
    LET fields == FlattenSeq(shape)
        types == {fields[i].ty : i \in DOMAIN fields}
        inside == UNION {TypesIn(ty) : ty \in types}
        mentioned == {ty.p : ty \in {u \in inside : u.k \in {"param", "assoc", "qself"}}}
    IN  [name |-> name, enum |-> isEnum, attrs |-> attrs, variants |-> shape,
         params |-> SelectSeq(<<"T", "U">>, LAMBDA p : p \in mentioned),
         lifetime |-> Borrowed \in inside,
         where |-> {Predicate(Param(p), "user") :
                        p \in {q \in mentioned : \E ty \in inside : ty.k \in {"assoc", "qself"}}}
                   \cup {q \in more : {q.ty.p} \cup q.also \subseteq mentioned}]

Into == [Predicate(T, "into") EXCEPT !.also = {"U"}]

Shapes(f1, f2) == {<<FALSE, <<<<f1, f2>>>>>>, <<TRUE, <<<<f1>>, <<f2>>>>>>, <<TRUE, <<<<f1, f2>>, <<>>>>>>}

Single ==
    UNION {UNION {{<<<<MakeItem(<<1>>, s[1], <<>>, s[2], more)>>, TRUE>> :
                        s \in Shapes(f1, f2), more \in {{}, KeyBounds(f1.ty)}} :
                     f1 \in FirstFields} : f2 \in SecondFields}

Related ==
    {<<<<MakeItem(<<1>>, TRUE, <<>>, <<<<F(1, ty, <<>>)>>, <<F(2, U, <<>>)>>>>, {Into})>>, TRUE>> :
        ty \in {T, Generic(<<T, U>>)}}

InnerTypes == {T, Generic(<<T>>), Phantom(T), Assoc("T"), Compound(<<T, U>>), ArrayN(U), Demanding("tree", <<T>>)}
Inners ==
    {MakeItem(<<1>>, isEnum, <<>>, IF isEnum THEN <<<<f>>, <<F(2, Prim("a"), <<>>)>>>> ELSE <<<<f>>>>, KeyBounds(f.ty)) :
        isEnum \in BOOLEAN,
        f \in UNION {{F(1, ty, a) : a \in {<<>>, <<<<Meta("skip")>>>>, <<<<Bound(Given(ty, "ser"), Given(ty, "de"))>>>>}} :
                        ty \in InnerTypes}}

Holders(inner) ==
    LET with(a) == ItemType(<<1>>, [i \in DOMAIN inner.params |-> a])
    IN  {F(1, with(a), attrs) : a \in {T, Prim("a"), Generic(<<U>>), Assoc("U")}, attrs \in {<<>>, <<<<Meta("skip")>>>>}}
        \cup {F(1, Generic(<<with(T)>>), <<>>), F(1, Compound(<<with(U), T>>), <<>>)}

Nested ==
    UNION {{<<<<inner, MakeItem(<<2>>, isEnum, <<>>, <<<<f>>>>, more)>>, TRUE>> :
                  f \in Holders(inner), isEnum \in BOOLEAN,
                  more \in {{}, {Predicate(p, "ord") : p \in {q \in {T, U} : \E w \in inner.where : w.trait = "ord"}}}} :
              inner \in Inners}

WithItemAttributes ==
    {<<<<MakeItem(<<1>>, isEnum, attrs, <<<<F(1, T, <<>>)>>>>, {})>>, found>> :
        isEnum \in BOOLEAN, found \in BOOLEAN,
        attrs \in {<<>>, <<<<"crate">>>>, <<<<"init">>>>, <<<<"crate", "use_discriminant">>>>, <<<<"skip">>>>,
                   <<<<"crate">>, <<"init">>>>}}

NoProgram == <<<<>>, TRUE>>
MCPrograms == Single \cup Related \cup Nested \cup WithItemAttributes \cup {NoProgram}

\* The types of the fields, and those in them.
MCDepth ==
    LET types == InnerTypes \cup {f.ty : f \in FirstFields \cup SecondFields
                                                  \cup UNION {Holders(inner) : inner \in Inners}}
    IN  [ty \in UNION {TypesIn(u) : u \in types} |-> DepthOf(ty)]

MacrosInit ==
    \/ program = <<>> /\ DeriveInit /\ Init
    \/ DeriveInit /\ variants = <<>> /\ repr = U8 /\ attribute = "absent" /\ Init

MacrosNext ==
    \/ Next /\ UNCHANGED derivation
    \/ (pc = "rejected" \/ got # 0 \/ (pc = "run" /\ variants = <<>>)) /\ DeriveNext /\ UNCHANGED vars

MacrosSpec == MacrosInit /\ [][MacrosNext]_<<vars, derivation>>
=============================================================================
