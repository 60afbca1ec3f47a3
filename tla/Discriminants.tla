--------------------------- MODULE Discriminants ---------------------------
(***************************************************************************)
(* The tags of a derived enum: the attributes are checked, Discriminants   *)
(* assigns each variant the text of an expression, the macros paste the    *)
(* text in the generated code, rustc evaluates it, and the generated code  *)
(* writes a variant's tag and finds the variant of a tag it reads.  The    *)
(* text is evaluated twice, at two types: as the discriminant, where the   *)
(* enum is defined, and as the tag, a u8, where the macros pasted it.      *)
(*                                                                         *)
(* An expression is [op, a, b, plus]: the text `a + 1 + ... + 1` with as   *)
(* many + 1 as plus says, or `a << b + 1 + ... + 1`.  A variant with no    *)
(* expression has Inherits.                                                *)
(***************************************************************************)
EXTENDS Integers, Sequences, SequencesExt

CONSTANTS
    TagBits,        \* bits of a u8: 8
    Reprs,          \* types a discriminant may have: isize, or what repr names
    Expressions,    \* what may be written after a variant's name
    MaxVariants     \* bound: variants of the enum

Literal(n) == [op |-> "literal", a |-> n, b |-> 0, plus |-> 0]
Shift(n, m) == [op |-> "<<", a |-> n, b |-> m, plus |-> 0]
Inherits == [op |-> "none", a |-> 0, b |-> 0, plus |-> 0]

\* A type of integers of n bits, without and with a sign.
Unsigned(n) == [bits |-> n, min |-> 0, max |-> 2 ^ n - 1]
Signed(n) == [bits |-> n, min |-> -(2 ^ (n - 1)), max |-> 2 ^ (n - 1) - 1]

U8 == Unsigned(TagBits)

\* What is left of x in as many bits as t has.
Wrapped(x, t) == t.min + ((x - t.min) % (t.max - t.min + 1))

\* Text that is an expression of type t: a number is one of t, a sum does not
\* overflow, and no shift is by all the bits.
Fits(e, t) ==
    /\ e.a \in t.min..t.max
    /\ IF e.op = "literal" THEN e.a + e.plus <= t.max ELSE e.b + e.plus < t.bits

\* Its value: + binds tighter than <<, and << drops the bits that do not fit.
Value(e, t) ==
    IF e.op = "literal" THEN e.a + e.plus ELSE Wrapped(e.a * 2 ^ (e.b + e.plus), t)

\* (That powers of two are numbers is said for the provers.)
ASSUME DiscriminantsAssumption ==
    /\ TagBits \in Nat \ {0} /\ MaxVariants \in Nat
    /\ \A n \in 0..TagBits : 2 ^ n \in Nat \ {0}
    /\ \A t \in Reprs :
         /\ t.bits \in Nat /\ t.min \in Int /\ t.max \in Int /\ t.min <= 0 /\ 0 <= t.max
         /\ \A n \in 0..t.bits : 2 ^ n \in Nat
    /\ \A e \in Expressions : e \in [op : {"literal", "<<"}, a : Int, b : Nat, plus : {0}]

VARIABLES
    variants,   \* the expression of each variant
    repr,       \* the type of its discriminants
    attribute,  \* use_discriminant: "absent", "true", "false"
    map,        \* the text Discriminants has assigned, variant by variant
    next,       \* next_discriminant_if_not_specified
    tags,       \* the text pasted for each variant
    sent,       \* the variant that is serialized, 0 for none yet
    got,        \* the variant it is read as, 0 for none yet
    pc          \* "attributes", "assign", "paste", "compile", "run", "rejected"

enum == <<variants, repr, attribute>>
vars == <<enum, map, next, tags, sent, got, pc>>

\* The variant that variant i counts on from: the last one up to it with an
\* expression, or none, 0.
CountsFrom(vs, i, j) ==
    /\ j \in 0..i
    /\ j = 0 \/ vs[j] # Inherits
    /\ \A k \in j + 1..i : vs[k] = Inherits

\* The discriminants rustc assigns to the variants.
Compiler(vs, t) ==
    [i \in DOMAIN vs |-> LET j == CHOOSE k \in 0..i : CountsFrom(vs, i, k)
                         IN  IF j = 0 THEN i - 1 ELSE Value(vs[j], t) + (i - j)]

Explicit(vs) == \E i \in DOMAIN vs : vs[i] # Inherits

\* An enum rustc accepts: its discriminants are of their type, and none occurs
\* twice.
Accepted(vs, t) ==
    /\ \A i \in DOMAIN vs : vs[i] # Inherits => Fits(vs[i], t)
    /\ \A i \in DOMAIN vs : Compiler(vs, t)[i] <= t.max
    /\ IsInjective(Compiler(vs, t))

Init ==
    /\ variants \in BoundedSeq(Expressions \cup {Inherits}, MaxVariants)
    /\ repr \in Reprs
    /\ Accepted(variants, repr)
    /\ attribute \in {"absent", "true", "false"}
    /\ map = <<>> /\ next = Literal(0) /\ tags = <<>>
    /\ sent = 0 /\ got = 0 /\ pc = "attributes"

-----------------------------------------------------------------------------
(* The macros.                                                             *)

\* contains_use_discriminant; variants that say their discriminant need an
\* attribute that says whether it is the tag.
CheckAttributes ==
    /\ pc = "attributes"
    /\ pc' = IF Len(variants) > U8.max + 1 \/ (Explicit(variants) /\ attribute = "absent")
             THEN "rejected" ELSE "assign"
    /\ UNCHANGED <<enum, map, next, tags, sent, got>>

\* Broken variant: only variants without an expression are counted.
AssignCounting ==
    /\ pc = "assign" /\ Len(map) < Len(variants)
    /\ LET e == variants[Len(map) + 1]
       IN  /\ map' = Append(map, IF e = Inherits THEN next ELSE e)
           /\ next' = IF e = Inherits THEN [next EXCEPT !.plus = @ + 1] ELSE next
    /\ UNCHANGED <<enum, tags, sent, got, pc>>

\* A round of the loop of Discriminants::new: the text of the variant, and the
\* same text followed by + 1 for the next one.
Assign ==
    /\ pc = "assign" /\ Len(map) < Len(variants)
    /\ LET e == variants[Len(map) + 1]
           this == IF e = Inherits THEN next ELSE e
       IN  map' = Append(map, this) /\ next' = [this EXCEPT !.plus = @ + 1]
    /\ UNCHANGED <<enum, tags, sent, got, pc>>

\* Broken variant: the last variant is left out of the map.
AssignedEarly ==
    /\ pc = "assign" /\ Len(map) + 1 >= Len(variants)
    /\ pc' = "paste"
    /\ UNCHANGED <<enum, map, next, tags, sent, got>>

\* The map is complete.
Assigned ==
    /\ pc = "assign" /\ Len(map) = Len(variants)
    /\ pc' = "paste"
    /\ UNCHANGED <<enum, map, next, tags, sent, got>>

\* Discriminants::get for the next variant: its index must be a u8.
Paste ==
    /\ pc = "paste" /\ Len(tags) < Len(variants)
    /\ LET idx == Len(tags)
       IN  IF idx > U8.max THEN pc' = "rejected" /\ UNCHANGED tags
           ELSE /\ tags' = Append(tags, IF attribute = "true" THEN map[idx + 1] ELSE Literal(idx))
                /\ UNCHANGED pc
    /\ UNCHANGED <<enum, map, next, sent, got>>

\* rustc refuses a text that is no u8.
Compile ==
    /\ pc = "paste" /\ Len(tags) = Len(variants)
    /\ pc' = IF \A i \in DOMAIN tags : Fits(tags[i], U8) THEN "run" ELSE "rejected"
    /\ UNCHANGED <<enum, map, next, tags, sent, got>>

-----------------------------------------------------------------------------
(* The generated code.                                                     *)

\* What is written for a variant.
Tag(i) == Value(tags[i], U8)

Serialize ==
    /\ pc = "run" /\ sent = 0
    /\ sent' \in DOMAIN variants
    /\ UNCHANGED <<enum, map, next, tags, got, pc>>

\* The chain of ifs of deserialize_variant: the first one that matches.
DeserializeVariant ==
    /\ sent # 0 /\ got = 0
    /\ got' \in DOMAIN tags
    /\ Tag(got') = Tag(sent)
    /\ \A i \in 1..got' - 1 : Tag(i) # Tag(sent)
    /\ UNCHANGED <<enum, map, next, tags, sent, pc>>

Over == (pc = "rejected" \/ got # 0 \/ (pc = "run" /\ variants = <<>>)) /\ UNCHANGED vars

Next ==
    \/ CheckAttributes \/ Assign \/ Assigned \/ Paste \/ Compile
    \/ Serialize \/ DeserializeVariant \/ Over

Spec == Init /\ [][Next]_vars

-----------------------------------------------------------------------------
(* Properties.                                                             *)

\* The state is well formed: get finds every variant in the map, and a tag in
\* compiled code is a byte.
TypeOK ==
    /\ pc \in {"attributes", "assign", "paste", "run", "rejected"}
    /\ Len(map) <= Len(variants) /\ Len(tags) <= Len(variants)
    /\ pc \in {"paste", "run"} => Len(map) = Len(variants)
    /\ sent \in 0..Len(variants) /\ got \in 0..Len(variants)
    /\ pc = "run" => \A i \in DOMAIN tags : Tag(i) \in 0..U8.max

\* "Calculates the discriminant that will be assigned by the compiler".
TagsAreDiscriminants ==
    pc = "run" /\ attribute = "true" =>
        \A i \in DOMAIN variants : Tag(i) = Compiler(variants, repr)[i]

\* No variant without an expression counts on from one with an operator in it.
Countable ==
    \A i \in DOMAIN map : map[i].plus = 0 \/ map[i].op = "literal"

\* No shift drops bits: what is written is a number of both types.
Kept ==
    \A i \in DOMAIN variants : variants[i].op = "<<" =>
        LET exact == variants[i].a * 2 ^ variants[i].b
        IN  0 <= exact /\ exact <= U8.max /\ exact <= repr.max

\* Both evaluations of a text have one result.
Alike == Countable /\ (Kept \/ repr = U8)

\* Under use_discriminant=true the tag is the discriminant of the compiler, where
\* variants count on from plain numbers only and no shift drops bits, or where
\* the discriminants are bytes themselves.
CountedTags == Alike => TagsAreDiscriminants

\* A variant is read as itself: no two variants share a tag, the discriminants
\* being distinct, or the indices below 256.
VariantSurvives ==
    got # 0 /\ (Alike \/ attribute # "true") => got = sent
=============================================================================
