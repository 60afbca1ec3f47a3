------------------------------- MODULE Rustc --------------------------------
(***************************************************************************)
(* What rustc makes of the impls that Derive generates: the predicates a   *)
(* type implements a trait under, and the names of generic types.  Its     *)
(* operators are recursive over types.                                     *)
(***************************************************************************)
EXTENDS Derive

\* A qualified path names the associated type.
Resolved(q) == IF q.ty.k = "qself" THEN Predicate(Assoc(q.ty.p), q.trait) ELSE q

\* The where clause.
Where(impl) == {Resolved(q) : q \in impl.item.where \cup impl.derived \cup impl.overrides}

\* An argument put for a parameter; what is associated with a closed type is closed.
RECURSIVE Subst(_, _)
Subst(ty, args) ==
    CASE ty.k = "param" /\ ty.p \in DOMAIN args -> args[ty.p]
      [] ty.k \in {"assoc", "qself"} /\ ty.p \in DOMAIN args ->
            IF args[ty.p].k = "param" THEN Assoc(args[ty.p].p) ELSE Prim("associated")
      [] OTHER -> [ty EXCEPT !.of = [i \in DOMAIN ty.of |-> Subst(ty.of[i], args)]]

Arguments(it, args) == [p \in Names(it) |-> args[CHOOSE i \in DOMAIN args : it.params[i] = p]]

NoImpl == Predicate(Prim("none"), "none")

\* What a container asks of its first argument besides the trait that is derived:
\* a map that its keys can be compared, and hashed, a Box to be made of an owned X.
\* (Eq comes with Ord, ToOwned with Clone.)
Asked(trait, container) ==
    CASE container = "tree" /\ trait = "de" -> {"ord"}
      [] container = "hash" /\ trait = "de" -> {"ord", "hash"}
      [] container = "hash" /\ trait = "ser" -> {"ord"}
      [] container = "box" /\ trait = "de" -> {"clone"}
      [] OTHER -> {}

AskedTraits == {"ord", "hash", "clone"}

\* The predicates on type parameters that a type implements a trait under.  The
\* user's trait is needed to speak of an associated type.  The items derive the
\* three traits and nothing else.
RECURSIVE Needs(_, _)
Needs(trait, ty) ==
    CASE ty.k \in {"prim", "phantom", "borrowed"} -> {}
      [] ty.k = "param" -> {Predicate(ty, trait)}
      [] ty.k \in {"assoc", "qself"} -> {Predicate(Assoc(ty.p), trait), Predicate(Param(ty.p), "user")}
      [] ty.k = "item" ->
            LET found == {impl \in Generated(trait) : impl.item.name = ty.p}
            IN  IF trait \in AskedTraits THEN {Predicate(ty, trait)}
                ELSE IF found = {} THEN {NoImpl}
                ELSE UNION {UNION {Needs(q.trait, Subst(q.ty, Arguments(impl.item, ty.of))) :
                                        q \in {w \in Where(impl) : w.also = {}}} : impl \in found}
      [] trait = "default" /\ (ty.k = "generic" \/ ty.p \in {"tree", "hash"}) -> {}
      [] trait = "default" /\ ty.k = "array" -> {NoImpl}
      [] ty.k = "demanding" ->
            IF ty.p = "hash" /\ trait \in {"ord", "hash"} THEN {Predicate(ty, trait)}
            ELSE UNION {Needs(trait, ty.of[i]) : i \in DOMAIN ty.of}
                    \cup UNION {Needs(asked, ty.of[1]) : asked \in Asked(trait, ty.p)}
      [] OTHER -> UNION {Needs(trait, ty.of[i]) : i \in DOMAIN ty.of}

-----------------------------------------------------------------------------
(* Properties.                                                             *)

\* Types whose bounds can be read off their syntax: an associated type is the
\* whole of the field, and generic items are bound by what their arguments are.
RECURSIVE Figured(_, _)
Figured(trait, ty) ==
    CASE ty.k = "assoc" -> TRUE
      [] ty.k = "qself" -> FALSE
      [] ty.k = "array" -> trait # "default" /\ Figured(trait, ty.of[1])
      [] ty.k = "item" ->
            /\ \A i \in DOMAIN ty.of : ~Holds(ty.of[i], "assoc") /\ Figured(trait, ty.of[i])
            /\ \E impl \in Generated(trait) :
                 /\ impl.item.name = ty.p
                 /\ \A q \in Where(impl) : q.ty.k = "param" /\ q.trait \in {trait} \cup AskedTraits
      [] OTHER -> \A i \in DOMAIN ty.of : ~Holds(ty.of[i], "assoc") /\ Figured(trait, ty.of[i])

FieldNamed(it, id) == CHOOSE f \in {FieldsOf(it)[i] : i \in DOMAIN FieldsOf(it)} : f.id = id

\* The user has said what is to be bound.
Overridden(impl, call) ==
    /\ call.field # 0
    /\ LET f == FieldNamed(impl.item, call.field)
       IN  IF impl.derive = "schema" THEN ParamsOf(f) # <<>> ELSE BoundOf(f, impl.derive) # <<>>

\* What a container asks of its keys, which no derive guesses, is in a where clause
\* that the user wrote.
AskedForIsGiven(impl, call) ==
    \A q \in Needs(call.trait, call.ty) :
        q.trait \in AskedTraits => q \in impl.item.where \cup impl.overrides

\* What the generated code calls is there: the guessed bounds suffice for every
\* field whose type is figured and whose bounds are not given, provided that what
\* maps ask of their keys is given, and for every struct that was written for a
\* variant.
BoundsSuffice ==
    Done => \A impl \in {impls[i] : i \in DOMAIN impls} :
        \A call \in Calls(impl) :
            LET guessed == /\ Figured(call.trait, call.ty) /\ AskedForIsGiven(impl, call)
                           /\ ~Overridden(impl, call)
            IN  call.op = "trait" /\ (call.field = 0 \/ guessed)
                    => Needs(call.trait, call.ty) \subseteq Where(impl)

\* And none is guessed that no call needs: PhantomData<T> and a skipped field
\* ask nothing of T.  (A generic item may not need what its arguments are; a
\* function of the user may not either; Default is asked of what a Vec holds.)
NoNeedlessBounds ==
    Done => \A impl \in {impls[i] : i \in DOMAIN impls} :
        LET plain == \A i \in DOMAIN FieldsOf(impl.item) :
                        LET f == FieldsOf(impl.item)[i]
                        IN  f.attrs \in {<<>>, <<<<[key |-> "skip"]>>>>} /\ ~Holds(f.ty, "qself") /\ ~Holds(f.ty, "item")
        IN  plain => \A q \in impl.derived :
                q.trait = "default" \/ \E call \in Calls(impl) : q \in Needs(call.trait, call.ty)

-----------------------------------------------------------------------------
(* Instances of a generic item, and what their schemas are called.         *)

\* Two closed types, which have one associated type, and two lengths.
Instances(it) == [types : [Names(it) -> {Prim("a"), Prim("b")}], n : {"0", "1"}]

\* The name of an instance of a type.
RECURSIVE Declaration(_, _)
Declaration(ty, e) ==
    LET inside == [i \in DOMAIN ty.of |-> Declaration(ty.of[i], e)]
    IN  CASE ty.k = "param" -> e.types[ty.p]
          [] ty.k \in {"assoc", "qself"} -> Prim("associated")
          [] ty.k = "phantom" -> Ty("compound", "", <<>>)
          [] ty.k = "array" -> Ty("array", e.n, inside)
          [] ty.k = "item" ->
                LET impl == CHOOSE x \in Generated("schema") : x.item.name = ty.p
                    args == Arguments(impl.item, ty.of)
                IN  ItemType(ty.p, [i \in DOMAIN impl.declared |->
                                        Declaration(Subst(impl.declared[i], args), e)])
          [] OTHER -> Ty(ty.k, ty.p, inside)

\* Two instances of an item with one name have one definition, unless the item
\* has a const parameter, which its name leaves out, or an associated type
\* below the top of a field, whose parameters are not in the name.
NamesTellApart ==
    Done => \A impl \in Generated("schema") :
        /\ \A call \in Calls(impl) : NoImpl \notin Needs("schema", call.ty)
        /\ WellFormed(impl.item)
        /\ \A i \in DOMAIN FieldsOf(impl.item) :
             LET f == FieldsOf(impl.item)[i]
             IN  ~Skipped(f) => /\ ~Holds(f.ty, "array")
                                /\ ParamsOf(f) # <<>> \/ f.ty.k = "assoc" \/ ~Holds(f.ty, "assoc")
        => \A e1, e2 \in Instances(impl.item) :
             LET name(e) == [i \in DOMAIN impl.declared |-> Declaration(impl.declared[i], e)]
                 definition(e) == [i \in DOMAIN impl.body |-> Declaration(impl.body[i].ty, e)]
             IN  name(e1) = name(e2) => definition(e1) = definition(e2)
=============================================================================
