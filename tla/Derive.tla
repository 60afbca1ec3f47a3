------------------------------- MODULE Derive -------------------------------
(***************************************************************************)
(* The derive macros: BorshSerialize, BorshDeserialize and BorshSchema are *)
(* expanded for each item of a program, field by field.  A macro sees the  *)
(* tokens of one item and nothing else: from the syntax of its fields it   *)
(* must guess the where clause that rustc will need.  The derive of a      *)
(* schema for an enum writes one more struct per variant, which is derived *)
(* in its turn.                                                            *)
(*                                                                         *)
(* A type of a field is [k, p, of]: its kind, a name, the types in it.     *)
(* Optional values are sequences of at most one element.                   *)
(***************************************************************************)
EXTENDS Integers, Sequences, SequencesExt, FiniteSetsExt

CONSTANTS
    Programs,   \* pairs: items, in an order they can be compiled in, and
                \* whether Cargo.toml names borsh
    Depth       \* how deep the types they mention are nested

VARIABLES
    program, cargo,
    todo,       \* expansions still to be done: [item, derive]
    stage,      \* of the first one: "attributes" or "fields"
    at,         \* how many of its fields have been processed
    visitor,    \* FindTyParams for the bounds of the trait
    defaults,   \* FindTyParams for Default, which skipped fields need
    overrides,  \* predicates of bound(...)
    body,       \* calls of the generated code
    impls       \* what has been generated

source == <<program, cargo>>
working == <<stage, at, visitor, defaults, overrides, body>>
derivation == <<source, todo, working, impls>>

-----------------------------------------------------------------------------
(* Syntax.                                                                 *)

Ty(kind, name, inside) == [k |-> kind, p |-> name, of |-> inside]
Prim(n) == Ty("prim", n, <<>>)
Param(p) == Ty("param", p, <<>>)            \* T
Assoc(p) == Ty("assoc", p, <<>>)            \* T::Assoc
QSelf(p) == Ty("qself", p, <<>>)            \* <T as Trait>::Assoc
Generic(args) == Ty("generic", "", args)    \* Vec<X>, Option<X>, Result<X, Y>
Compound(of) == Ty("compound", "", of)      \* (X, Y), &X, [X; 2]
ArrayN(of) == Ty("array", "N", <<of>>)      \* [X; N]
Phantom(of) == Ty("phantom", "", <<of>>)    \* PhantomData<X>
Borrowed == Ty("borrowed", "", <<>>)        \* Cow<'a, str>
\* "tree": BTreeMap<X, Y>, BTreeSet<X>; "hash": HashMap<X, Y>, HashSet<X>; "box": Box<X>
Demanding(name, args) == Ty("demanding", name, args)
ItemType(name, args) == Ty("item", name, args)

\* A predicate, and the parameters its trait mentions: T: Trait, T: Into<U>.
Predicate(ty, trait) == [ty |-> ty, trait |-> trait, also |-> {}]

Types == DOMAIN Depth

\* Types are finite, and a parameter or a type associated with one is a leaf.
ASSUME TypesAssumption ==
    /\ Depth \in [Types -> Nat]
    /\ \A ty \in Types :
         /\ ty.of \in Seq(Types)
         /\ \A i \in DOMAIN ty.of : Depth[ty.of[i]] < Depth[ty]
         /\ ty.k \in {"param", "assoc", "qself"} => ty.of = <<>>

\* A type and what is in it.
Inside[ty \in Types] == {ty} \cup UNION {Inside[ty.of[i]] : i \in DOMAIN ty.of}

\* What is in it, and not in a PhantomData.
Shown[ty \in Types] ==
    IF ty.k = "phantom" THEN {} ELSE {ty} \cup UNION {Shown[ty.of[i]] : i \in DOMAIN ty.of}

\* The type parameters a type mentions.
Mentioned(ty) == {u.p : u \in {w \in Inside[ty] : w.k \in {"param", "assoc", "qself"}}}

Holds(ty, kind) == \E u \in Inside[ty] : u.k = kind

\* The elements of a sequence at some of its places, in their order.
Picked(s, places) ==
    LET picked[n \in 0..Len(s)] == IF n = 0 THEN <<>>
                                   ELSE IF n \in places THEN Append(picked[n - 1], s[n]) ELSE picked[n - 1]
    IN  picked[Len(s)]

FieldsOf(item) == FlattenSeq(item.variants)
Names(item) == {item.params[i] : i \in DOMAIN item.params}

-----------------------------------------------------------------------------
(* FindTyParams.                                                           *)

NewVisitor == [relevant |-> {}, usage |-> <<>>]

\* visit_type: the parameters that are met as a path of one segment.  What is
\* below a PhantomData is not visited; a qualified path shows its self type.
Visited(ty) == {u.p : u \in {w \in Shown[ty] : w.k \in {"param", "qself"}}}

\* param_associated_type_insert.
InsertUsage(v, p, ty) == [v EXCEPT !.usage = Append(@, <<p, ty>>)]

\* Broken variant: the arguments of a type are not visited.
VisitShallow(v, item, ty) ==
    IF ty.k = "param" THEN [v EXCEPT !.relevant = @ \cup {ty.p}] ELSE v

\* visit_type_top_level.
VisitField(v, item, ty) ==
    LET seen == [v EXCEPT !.relevant = @ \cup (Visited(ty) \cap Names(item))]
    IN  IF ty.k = "assoc" /\ ty.p \in Names(item) THEN InsertUsage(seen, ty.p, ty) ELSE seen

\* The types recorded for one parameter, the parameter first.
OfParam(v, p) ==
    LET types == [i \in DOMAIN v.usage |-> v.usage[i][2]]
    IN  (IF p \in v.relevant THEN <<Param(p)>> ELSE <<>>)
            \o Picked(types, {i \in DOMAIN v.usage : v.usage[i][1] = p})

\* process_for_bounds: in the order of the parameters, none twice.
ForBounds(v, item) ==
    LET types == FlattenSeq([i \in DOMAIN item.params |-> OfParam(v, item.params[i])])
    IN  Picked(types, {i \in DOMAIN types : \A j \in 1..(i - 1) : types[j] # types[i]})

\* process_for_params.
ForParams(v, item) == {p \in Names(item) : OfParam(v, p) # <<>>}

-----------------------------------------------------------------------------
(* Attributes of a field: a sequence of #[borsh(...)], each a sequence of  *)
(* metas.                                                                  *)

FieldKeys == {"bound", "deserialize_with", "schema", "serialize_with", "skip"}

\* A key that is given again replaces what was given before.
MetaOf(field, key) ==
    IF field.attrs = <<>> THEN <<>>
    ELSE LET given == {i \in DOMAIN field.attrs[1] : field.attrs[1][i].key = key}
         IN  IF given = {} THEN <<>> ELSE <<field.attrs[1][Max(given)]>>

Skipped(field) == MetaOf(field, "skip") # <<>>
BoundOf(field, derive) ==
    LET given == MetaOf(field, "bound")
    IN  IF given = <<>> THEN <<>> ELSE IF derive = "ser" THEN given[1].ser ELSE given[1].de
ParamsOf(field) == LET given == MetaOf(field, "schema") IN IF given = <<>> THEN <<>> ELSE given[1].params
FuncsOf(field) == LET given == MetaOf(field, "schema") IN IF given = <<>> THEN <<>> ELSE given[1].funcs

\* Broken variant: only the parts of an attribute are looked at, each alone.
FieldErrorUnchecked(field) ==
    \/ Len(field.attrs) > 1
    \/ field.attrs # <<>> /\ \E i \in DOMAIN field.attrs[1] : field.attrs[1][i].key \notin FieldKeys

\* field::Attributes::parse: one attribute, known keys, both functions of
\* with_funcs or none, and nothing about how a skipped field is written.
FieldError(field) ==
    \/ Len(field.attrs) > 1
    \/ field.attrs # <<>> /\ \E i \in DOMAIN field.attrs[1] :
          LET meta == field.attrs[1][i]
          IN  \/ meta.key \notin FieldKeys
              \/ meta.key = "schema" /\ meta.funcs # <<>> /\ meta.funcs[1].declaration # meta.funcs[1].definitions
    \/ Skipped(field) /\ \/ MetaOf(field, "serialize_with") # <<>> \/ MetaOf(field, "deserialize_with") # <<>>
                         \/ ParamsOf(field) # <<>> \/ FuncsOf(field) # <<>>

ItemKeys == {"crate", "init", "use_discriminant"}

ItemHas(item, key) == item.attrs # <<>> /\ Contains(item.attrs[1], key)

\* check_attributes, and the crate name: given, or found in Cargo.toml.
ItemError(item) ==
    \/ Len(item.attrs) > 1
    \/ item.attrs # <<>> /\ \E i \in DOMAIN item.attrs[1] : item.attrs[1][i] \notin ItemKeys
    \/ ItemHas(item, "use_discriminant") /\ ~item.enum
    \/ ~ItemHas(item, "crate") /\ ~cargo

-----------------------------------------------------------------------------
(* What is generated.  A call is of a method of a trait for a type, of a   *)
(* function of the user, or of Default::default; an impl keeps its item,   *)
(* the predicates it has derived, and in which order the declaration names *)
(* its parameters.                                                         *)

Derives == <<"ser", "de", "schema">>

Call(op, trait, field) == [op |-> op, trait |-> trait, ty |-> field.ty, field |-> field.id]

\* A call of the trait, or of the function given in its place.
CallFor(field, derive) ==
    LET replaced == CASE derive = "ser" -> MetaOf(field, "serialize_with") # <<>>
                      [] derive = "de" -> MetaOf(field, "deserialize_with") # <<>>
                      [] derive = "schema" -> FuncsOf(field) # <<>> /\ FuncsOf(field)[1].declaration
    IN  Call(IF replaced THEN "function" ELSE "trait", derive, field)

Impl(item, derive, accepted, derived, calls, declared) ==
    [item |-> item, derive |-> derive, accepted |-> accepted, derived |-> derived,
     overrides |-> overrides, body |-> calls, declared |-> declared]

\* The name of the struct written for a variant, and of the enum.
VariantName(item, v) == <<item.name, v>>

\* Broken variant: the fields that are not skipped decide which parameters stay.
KeptParamsUnskipped(item, v) ==
    LET fields == item.variants[v]
    IN  UNION {ForParams(VisitField(NewVisitor, item, fields[i].ty), item) :
                  i \in {j \in DOMAIN fields : ~Skipped(fields[j])}}

\* visit_struct_fields_unconditional: skipped or not, a field of the struct
\* needs its parameters declared.
KeptParams(item, v) ==
    LET fields == item.variants[v]
    IN  UNION {ForParams(VisitField(NewVisitor, item, fields[i].ty), item) : i \in DOMAIN fields}

\* Predicates on types in which one of the kept parameters is visited.
KeptPredicates(item, kept) ==
    {q \in item.where : Visited(q.ty) \cap kept # {} \/ (q.ty.k = "assoc" /\ q.ty.p \in kept)}

\* inner_struct_definition: lifetimes and const parameters are kept.
InnerStruct(item, v) ==
    LET kept == KeptParams(item, v)
    IN  [name |-> VariantName(item, v), enum |-> FALSE, attrs |-> <<<<"crate">>>>,
         variants |-> <<item.variants[v]>>,
         params |-> Picked(item.params, {i \in DOMAIN item.params : item.params[i] \in kept}),
         lifetime |-> item.lifetime, where |-> KeptPredicates(item, kept)]

InnerType(item, v) ==
    LET inner == InnerStruct(item, v)
    IN  ItemType(inner.name, [i \in DOMAIN inner.params |-> Param(inner.params[i])])

-----------------------------------------------------------------------------
(* Actions: those of one expansion, in the order of the code.              *)

DeriveInit ==
    /\ \E p \in Programs : program = p[1] /\ cargo = p[2]
    /\ todo = FlattenSeq([i \in DOMAIN program |->
                 [d \in DOMAIN Derives |-> [item |-> program[i], derive |-> Derives[d]]]])
    /\ stage = "attributes" /\ at = 0
    /\ visitor = NewVisitor /\ defaults = NewVisitor /\ overrides = {} /\ body = <<>>
    /\ impls = <<>>

item == Head(todo).item
derive == Head(todo).derive
field == FieldsOf(item)[at + 1]

Expanding(where) == todo # <<>> /\ stage = where
AtField(d) == Expanding("fields") /\ derive = d /\ at < Len(FieldsOf(item))

\* An expansion is over, and what it generated, or its compile_error!, is left.
Leave(impl, more) ==
    /\ impls' = Append(impls, impl)
    /\ todo' = more \o Tail(todo)
    /\ stage' = "attributes" /\ at' = 0
    /\ visitor' = NewVisitor /\ defaults' = NewVisitor /\ overrides' = {} /\ body' = <<>>
    /\ UNCHANGED source

Reject == Leave(Impl(item, derive, FALSE, {}, <<>>, <<>>), <<>>)

\* check_attrs_get_cratename.
CheckItem ==
    /\ Expanding("attributes") /\ ~ItemError(item)
    /\ stage' = "fields"
    /\ UNCHANGED <<source, todo, at, visitor, defaults, overrides, body, impls>>
RejectItem == Expanding("attributes") /\ ItemError(item) /\ Reject

\* The attributes of a field are parsed before anything is done with it.
RejectField ==
    /\ \E d \in {"ser", "de", "schema"} : AtField(d)
    /\ FieldError(field)
    /\ Reject

Override(d) ==
    overrides' = overrides \cup (IF BoundOf(field, d) = <<>> THEN {} ELSE BoundOf(field, d)[1])

\* Broken variant: the type of a skipped field is visited.
SerializeFieldSkipped ==
    /\ AtField("ser") /\ ~FieldError(field)
    /\ Override("ser")
    /\ body' = IF Skipped(field) THEN body ELSE Append(body, CallFor(field, "ser"))
    /\ visitor' = IF BoundOf(field, "ser") # <<>> THEN visitor ELSE VisitField(visitor, item, field.ty)
    /\ at' = at + 1
    /\ UNCHANGED <<source, todo, stage, defaults, impls>>

\* process_field of serialize: an override is collected from a skipped field, too.
SerializeField ==
    /\ AtField("ser") /\ ~FieldError(field)
    /\ Override("ser")
    /\ body' = IF Skipped(field) THEN body ELSE Append(body, CallFor(field, "ser"))
    /\ visitor' = IF Skipped(field) \/ BoundOf(field, "ser") # <<>> THEN visitor
                  ELSE VisitField(visitor, item, field.ty)
    /\ at' = at + 1
    /\ UNCHANGED <<source, todo, stage, defaults, impls>>

\* Broken variant: a skipped field adds no bound.
DeserializeFieldBare ==
    /\ AtField("de") /\ ~FieldError(field)
    /\ Override("de")
    /\ body' = Append(body, IF Skipped(field) THEN Call("trait", "default", field) ELSE CallFor(field, "de"))
    /\ visitor' = IF Skipped(field) \/ BoundOf(field, "de") # <<>> THEN visitor
                  ELSE VisitField(visitor, item, field.ty)
    /\ at' = at + 1
    /\ UNCHANGED <<source, todo, stage, defaults, impls>>

\* process_field of deserialize: a skipped field needs Default.
DeserializeField ==
    /\ AtField("de") /\ ~FieldError(field)
    /\ Override("de")
    /\ body' = Append(body, IF Skipped(field) THEN Call("trait", "default", field) ELSE CallFor(field, "de"))
    /\ LET visited(v) == IF BoundOf(field, "de") # <<>> THEN v ELSE VisitField(v, item, field.ty)
       IN  IF Skipped(field) THEN defaults' = visited(defaults) /\ UNCHANGED visitor
           ELSE visitor' = visited(visitor) /\ UNCHANGED defaults
    /\ at' = at + 1
    /\ UNCHANGED <<source, todo, stage, impls>>

\* Broken variant: a skipped field is declared.
SchemaFieldSkipped ==
    /\ AtField("schema") /\ ~FieldError(field)
    /\ body' = IF item.enum THEN body ELSE Append(body, CallFor(field, "schema"))
    /\ visitor' = IF ParamsOf(field) = <<>> THEN VisitField(visitor, item, field.ty)
                  ELSE [visitor EXCEPT !.usage = @ \o ParamsOf(field)[1]]
    /\ at' = at + 1
    /\ UNCHANGED <<source, todo, stage, defaults, overrides, impls>>

\* visit_field and process_field of schema: params(...) takes the place of the
\* types that are visited.  An enum leaves its fields to the inner structs.
SchemaField ==
    /\ AtField("schema") /\ ~FieldError(field)
    /\ body' = IF Skipped(field) \/ item.enum THEN body ELSE Append(body, CallFor(field, "schema"))
    /\ visitor' = IF Skipped(field) THEN visitor
                  ELSE IF ParamsOf(field) = <<>> THEN VisitField(visitor, item, field.ty)
                  ELSE [visitor EXCEPT !.usage = @ \o ParamsOf(field)[1]]
    /\ at' = at + 1
    /\ UNCHANGED <<source, todo, stage, defaults, overrides, impls>>

Bounds(v, trait) == LET types == ForBounds(v, item) IN {Predicate(types[i], trait) : i \in DOMAIN types}

\* GenericsOutput::extend, of serialize and deserialize.
FinishCodec ==
    /\ Expanding("fields") /\ derive # "schema" /\ at = Len(FieldsOf(item))
    /\ Leave(Impl(item, derive, TRUE, Bounds(visitor, derive) \cup Bounds(defaults, "default"), body, <<>>), <<>>)

\* GenericsOutput::result of schema; the structs of an enum are derived next.
FinishSchema ==
    /\ Expanding("fields") /\ derive = "schema" /\ at = Len(FieldsOf(item))
    /\ LET inner == [v \in DOMAIN item.variants |->
                        [op |-> "trait", trait |-> "schema", ty |-> InnerType(item, v), field |-> 0]]
           more == [v \in DOMAIN item.variants |-> [item |-> InnerStruct(item, v), derive |-> "schema"]]
       IN  Leave(Impl(item, derive, TRUE, Bounds(visitor, "schema"),
                      IF item.enum THEN inner ELSE body, ForBounds(visitor, item)),
                 IF item.enum THEN more ELSE <<>>)

Expanded == todo = <<>> /\ UNCHANGED derivation

DeriveNext ==
    \/ CheckItem \/ RejectItem \/ RejectField
    \/ SerializeField \/ DeserializeField \/ SchemaField
    \/ FinishCodec \/ FinishSchema \/ Expanded

DeriveSpec == DeriveInit /\ [][DeriveNext]_derivation

-----------------------------------------------------------------------------
(* The programs.                                                           *)

IsSeq(s) == s \in Seq(ToSet(s))

\* What syn parses.
IsField(f) ==
    /\ f.ty \in Types
    /\ IsSeq(f.attrs) /\ \A i \in DOMAIN f.attrs : IsSeq(f.attrs[i])
    /\ ParamsOf(f) # <<>> => IsSeq(ParamsOf(f)[1])

IsItem(it) ==
    /\ it.enum \in BOOLEAN /\ it.lifetime \in BOOLEAN
    /\ IsSeq(it.params) /\ IsSeq(it.variants)
    /\ \A v \in DOMAIN it.variants : /\ IsSeq(it.variants[v])
                                     /\ \A j \in DOMAIN it.variants[v] : IsField(it.variants[v][j])
    /\ \A q \in it.where : q.ty \in Types

\* An item rustc accepts: type parameters and lifetimes are declared and used.
WellFormed(it) ==
    LET types == {FieldsOf(it)[i].ty : i \in DOMAIN FieldsOf(it)}
    IN  /\ UNION {Mentioned(ty) : ty \in types} = Names(it)
        /\ \A q \in it.where : Mentioned(q.ty) \cup q.also \subseteq Names(it)
        /\ it.lifetime => \E ty \in types : Holds(ty, "borrowed")

\* The programs are such, as far as they are the user's; a struct written for a
\* variant is in a block of its own.
ASSUME ProgramsAreRust ==
    \A p \in Programs :
        /\ IsSeq(p[1])
        /\ \A i \in DOMAIN p[1] : IsItem(p[1][i]) /\ WellFormed(p[1][i])
        /\ \A i, j \in DOMAIN p[1] :
             /\ p[1][i].name = p[1][j].name => i = j
             /\ \A v \in DOMAIN p[1][j].variants : p[1][i].name # VariantName(p[1][j], v)

-----------------------------------------------------------------------------
(* Properties.                                                             *)

Calls(impl) == {impl.body[i] : i \in DOMAIN impl.body}
Generated(d) == {impls[i] : i \in {j \in DOMAIN impls : impls[j].derive = d /\ impls[j].accepted}}

Done == todo = <<>>

\* The impls of an item, and of the structs written for its variants.
Of(it, d) == {impl \in Generated(d) : impl.item.name = it.name}
Inner(it, v) == {impl \in Generated("schema") : impl.item.name = VariantName(it, v)}

One(S) == CHOOSE x \in S : TRUE

Called(impl) == [i \in DOMAIN impl.body |-> impl.body[i].field]

\* The fields that are read, and not made with Default::default.
Read(impl) == Picked(Called(impl), {i \in DOMAIN impl.body : impl.body[i].trait = "de"})

\* The fields a schema names.
Named(it) ==
    IF it.enum THEN FlattenSeq([v \in DOMAIN it.variants |-> Called(One(Inner(it, v)))])
    ELSE Called(One(Of(it, "schema")))

\* The three derives agree on an item: all accept it or none; serialize writes
\* the fields that deserialize reads, in the same order, and the schema names
\* them, in the structs of the variants where it is an enum.
DerivesAgree ==
    Done => \A i \in DOMAIN program :
        LET it == program[i]
        IN  /\ (Of(it, "ser") = {}) = (Of(it, "de") = {}) /\ (Of(it, "de") = {}) = (Of(it, "schema") = {})
            /\ Of(it, "ser") # {} =>
                 /\ it.enum => \A v \in DOMAIN it.variants : Inner(it, v) # {}
                 /\ Called(One(Of(it, "ser"))) = Read(One(Of(it, "de")))
                 /\ Called(One(Of(it, "ser"))) = Named(it)
                 /\ Called(One(Of(it, "de"))) = [j \in DOMAIN FieldsOf(it) |-> FieldsOf(it)[j].id]

\* A function takes the place of the calls that a derive generates for a field.
Replaces(f, d) ==
    CASE d = "ser" -> MetaOf(f, "serialize_with") # <<>>
      [] d = "de" -> MetaOf(f, "deserialize_with") # <<>>
      [] d = "schema" -> FuncsOf(f) # <<>> /\ (FuncsOf(f)[1].declaration \/ FuncsOf(f)[1].definitions)

\* Nothing the user wrote goes unused: in an item that is accepted, the given
\* functions are called and the given bounds are in the where clause.  (Of a key
\* that is given twice the last counts.)
NothingIgnored ==
    Done => \A d \in {"ser", "de", "schema"} : \A impl \in Generated(d) : ~impl.item.enum \/ d # "schema" =>
        \A i \in DOMAIN FieldsOf(impl.item) :
            LET f == FieldsOf(impl.item)[i]
            IN  /\ Replaces(f, d) => \E call \in Calls(impl) : call.field = f.id /\ call.op = "function"
                /\ d # "schema" /\ BoundOf(f, d) # <<>> => BoundOf(f, d)[1] \subseteq impl.overrides
                /\ d = "schema" /\ ParamsOf(f) # <<>> =>
                     \A entry \in {ParamsOf(f)[1][j] : j \in DOMAIN ParamsOf(f)[1]} :
                         entry[1] \in Names(impl.item) => Predicate(entry[2], "schema") \in impl.derived

\* The struct written for a variant compiles, where no PhantomData hides a
\* parameter, no associated type is below the top of a field, no predicate
\* relates two parameters, and a lifetime is used by every variant.
InnerStructsCompile ==
    Done => \A i \in DOMAIN program : program[i].enum =>
        \A impl \in Generated("schema") : \A v \in DOMAIN program[i].variants :
            LET types == {f.ty : f \in {program[i].variants[v][j] : j \in DOMAIN program[i].variants[v]}}
            IN  /\ impl.item.name = VariantName(program[i], v)
                /\ \A ty \in types : ~Holds(ty, "phantom") /\ (ty.k = "assoc" \/ ~Holds(ty, "assoc"))
                /\ \A q \in program[i].where : Cardinality(Mentioned(q.ty) \cup q.also) <= 1
                /\ program[i].lifetime => \E ty \in types : Holds(ty, "borrowed")
                => WellFormed(impl.item)
=============================================================================
