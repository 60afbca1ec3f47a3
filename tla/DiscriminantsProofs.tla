------------------------ MODULE DiscriminantsProofs ------------------------
(***************************************************************************)
(* The tags of a derived enum, for any number of variants, any expressions *)
(* and any widths of a tag and a discriminant.                             *)
(***************************************************************************)
EXTENDS Discriminants, TLAPS

-----------------------------------------------------------------------------
(* The inductive invariant.                                                *)

Written == Expressions \cup {Inherits}
Texts == [op : {"literal", "<<", "none"}, a : Int, b : Nat, plus : Nat]

\* The enum is one rustc accepts.
EnumOK ==
    /\ variants \in Seq(Written)
    /\ repr \in Reprs
    /\ IsInjective(Compiler(variants, repr))
    /\ attribute \in {"absent", "true", "false"}

\* The text of variant i, counted on from variant j.
Text(i, j) ==
    IF j = 0 THEN [op |-> "literal", a |-> 0, b |-> 0, plus |-> i - 1]
    ELSE [op |-> variants[j].op, a |-> variants[j].a, b |-> variants[j].b, plus |-> i - j]

Counted(i, e) == \E j \in 0..i : CountsFrom(variants, i, j) /\ e = Text(i, j)

\* What the loop of Discriminants::new has assigned, and will assign next.
MapOK ==
    /\ map \in Seq(Texts) /\ Len(map) <= Len(variants)
    /\ \A i \in 1..Len(map) : Counted(i, map[i])
    /\ next \in Texts
    /\ Len(map) = 0 => next = Literal(0)
    /\ Len(map) > 0 => next = [map[Len(map)] EXCEPT !.plus = @ + 1]

\* What has been pasted.
TagsOK ==
    /\ tags \in Seq(Texts) /\ Len(tags) <= Len(variants)
    /\ tags # <<>> => Len(map) = Len(variants)
    /\ \A i \in 1..Len(tags) : tags[i] = IF attribute = "true" THEN map[i] ELSE Literal(i - 1)

PhaseOK ==
    /\ pc \in {"attributes", "assign", "paste", "run", "rejected"}
    /\ pc \in {"attributes", "assign"} => tags = <<>>
    /\ pc \in {"paste", "run"} => Len(map) = Len(variants)
    /\ pc = "run" => Len(tags) = Len(variants)
    /\ pc = "run" => \A i \in 1..Len(tags) : Fits(tags[i], U8)

\* A variant is on its way, or has been read.
TransferOK ==
    /\ sent \in 0..Len(variants) /\ got \in 0..Len(variants)
    /\ sent # 0 => pc = "run"
    /\ got # 0 => sent # 0 /\ Tag(got) = Tag(sent)

IInv == EnumOK /\ MapOK /\ TagsOK /\ PhaseOK /\ TransferOK

-----------------------------------------------------------------------------
(* Expressions and counting.                                               *)

\* Bounds of a type of integers: 0 is one of them.
LEMMA TypeBounds ==
    ASSUME NEW t, t = U8 \/ t \in Reprs
    PROVE  t.min \in Int /\ t.max \in Int /\ t.min <= 0 /\ 0 <= t.max
<1>1. CASE t \in Reprs
  BY <1>1, DiscriminantsAssumption
<1>2. CASE t = U8
  <2>1. TagBits \in 0..TagBits /\ 2 ^ TagBits \in Nat \ {0}
    BY DiscriminantsAssumption
  <2>2. t.min = 0 /\ t.max = 2 ^ TagBits - 1
    BY <1>2 DEF U8, Unsigned
  <2>. QED
    BY <2>1, <2>2
<1>. QED
  BY <1>1, <1>2

\* The remainder of a division by a positive number.
LEMMA Remainder ==
    ASSUME NEW x \in Int, NEW m \in Nat \ {0}
    PROVE  /\ x % m \in 0..m - 1
           /\ x \in 0..m - 1 => x % m = x
OBVIOUS

\* What wraps around is a number of the type, and one of the type does not.
LEMMA WrappedIs ==
    ASSUME NEW t, t = U8 \/ t \in Reprs, NEW x \in Int
    PROVE  /\ Wrapped(x, t) \in t.min..t.max
           /\ x \in t.min..t.max => Wrapped(x, t) = x
<1>. DEFINE m == t.max - t.min + 1
            y == x - t.min
<1>1. t.min \in Int /\ t.max \in Int /\ m \in Nat \ {0} /\ y \in Int
  BY TypeBounds
<1>2. Wrapped(x, t) = t.min + (y % m)
  BY DEF Wrapped
<1>3. x \in t.min..t.max => y \in 0..m - 1
  BY <1>1
<1>4. m = t.max - t.min + 1 /\ y = x - t.min
  OBVIOUS
<1>. HIDE DEF m, y
<1>5. y % m \in 0..m - 1 /\ (y \in 0..m - 1 => y % m = y)
  BY <1>1, Remainder
<1>. QED
  BY <1>1, <1>2, <1>3, <1>4, <1>5

\* A text that is a u8 has the value of one.
LEMMA TagInRange ==
    ASSUME NEW e \in Texts, Fits(e, U8)
    PROVE  Value(e, U8) \in 0..U8.max
<1>1. U8.min = 0 /\ U8.bits = TagBits /\ U8.max \in Int
  BY TypeBounds DEF U8, Unsigned
<1>2. e.a \in Int /\ e.b \in Nat /\ e.plus \in Nat
  BY DEF Texts
<1>3. CASE e.op = "literal"
  BY <1>1, <1>2, <1>3 DEF Fits, Value
<1>4. CASE e.op # "literal"
  <2>1. e.b + e.plus \in 0..TagBits
    BY <1>1, <1>2, <1>4, DiscriminantsAssumption DEF Fits
  <2>2. 2 ^ (e.b + e.plus) \in Nat
    BY <2>1, DiscriminantsAssumption
  <2>3. e.a * 2 ^ (e.b + e.plus) \in Int
    BY <1>2, <2>2
  <2>4. Value(e, U8) = Wrapped(e.a * 2 ^ (e.b + e.plus), U8)
    BY <1>4 DEF Value
  <2>. QED
    BY <1>1, <2>3, <2>4, WrappedIs
<1>. QED
  BY <1>3, <1>4

\* What a user writes after a variant is a text with nothing added to it.
LEMMA WrittenIsText ==
    ASSUME NEW e \in Written
    PROVE  e \in Texts /\ e.plus = 0
BY DiscriminantsAssumption DEF Written, Texts, Inherits

\* A variant counts on from one variant only.
LEMMA CountsFromOne ==
    ASSUME NEW i \in Nat, NEW j, NEW k, CountsFrom(variants, i, j), CountsFrom(variants, i, k)
    PROVE  j = k
BY DEF CountsFrom

\* The discriminant of a variant, by the variant it counts on from.
LEMMA CompilerCounts ==
    ASSUME EnumOK, NEW i \in 1..Len(variants), NEW j \in 0..i, CountsFrom(variants, i, j)
    PROVE  Compiler(variants, repr)[i] = IF j = 0 THEN i - 1 ELSE Value(variants[j], repr) + (i - j)
<1>1. i \in DOMAIN variants /\ i \in Nat
  BY DEF EnumOK
<1>2. j = CHOOSE k \in 0..i : CountsFrom(variants, i, k)
  BY <1>1, CountsFromOne
<1>3. Compiler(variants, repr)[i] =
        LET f == CHOOSE k \in 0..i : CountsFrom(variants, i, k)
        IN  IF f = 0 THEN i - 1 ELSE Value(variants[f], repr) + (i - f)
  BY <1>1 DEF Compiler
<1>. QED
  BY <1>2, <1>3

\* A shift that drops no bits has one value at both types.
LEMMA KeptValue ==
    ASSUME EnumOK, NEW i \in 1..Len(variants), variants[i] \in Expressions,
           variants[i].op # "literal", Kept \/ repr = U8, Fits(variants[i], U8)
    PROVE  Value(variants[i], U8) = Value(variants[i], repr)
<1>. DEFINE e == variants[i]
            x == e.a * 2 ^ (e.b + e.plus)
<1>1. e.a \in Int /\ e.b \in Nat /\ e.plus = 0 /\ e.op = "<<"
  BY DiscriminantsAssumption
<1>2. Value(e, U8) = Wrapped(x, U8) /\ Value(e, repr) = Wrapped(x, repr)
  BY <1>1 DEF Value
<1>3. CASE repr = U8
  BY <1>2, <1>3
<1>4. CASE Kept
  <2>1. e.b + e.plus = e.b /\ e.b \in 0..TagBits
    <3>1. U8.bits = TagBits
      BY DEF U8, Unsigned
    <3>. QED
      BY <1>1, <3>1, DiscriminantsAssumption DEF Fits
  <2>2. 2 ^ e.b \in Nat
    BY <2>1, DiscriminantsAssumption
  <2>3. x = e.a * 2 ^ e.b /\ x \in Int
    BY <1>1, <2>1, <2>2
  <2>4. i \in DOMAIN variants /\ repr \in Reprs
    BY DEF EnumOK
  <2>5. 0 <= x /\ x <= U8.max /\ x <= repr.max
    BY <1>1, <1>4, <2>3, <2>4 DEF Kept
  <2>. HIDE DEF x
  <2>6. x \in U8.min..U8.max /\ x \in repr.min..repr.max
    BY <2>3, <2>4, <2>5, TypeBounds
  <2>7. \A t : (t = U8 \/ t \in Reprs) /\ x \in t.min..t.max => Wrapped(x, t) = x
    BY <2>3, WrappedIs
  <2>8. Wrapped(x, U8) = x /\ Wrapped(x, repr) = x
    BY <2>4, <2>6, <2>7
  <2>. QED
    BY <1>2, <2>8
<1>. QED
  BY <1>3, <1>4

\* A text that is a plain number, or to which nothing was added, has as a tag the
\* value of the compiler's discriminant, unless a shift drops bits.
LEMMA TextValue ==
    ASSUME EnumOK, Kept \/ repr = U8, NEW i \in 1..Len(variants), NEW e, Counted(i, e),
           e.plus = 0 \/ e.op = "literal", Fits(e, U8)
    PROVE  Value(e, U8) = Compiler(variants, repr)[i]
<1>1. PICK j \in 0..i : CountsFrom(variants, i, j) /\ e = Text(i, j)
  BY DEF Counted
<1>2. Compiler(variants, repr)[i] = IF j = 0 THEN i - 1 ELSE Value(variants[j], repr) + (i - j)
  BY <1>1, CompilerCounts
<1>3. CASE j = 0
  BY <1>1, <1>2, <1>3 DEF Text, Value
<1>4. CASE j # 0
  <2>1. j \in 1..Len(variants) /\ variants[j] \in Written /\ variants[j] # Inherits
    BY <1>1, <1>4 DEF EnumOK, CountsFrom
  <2>2. variants[j] \in Expressions /\ variants[j] \in Texts /\ variants[j].plus = 0
    BY <2>1, WrittenIsText DEF Written
  <2>3. /\ e.op = variants[j].op /\ e.a = variants[j].a /\ e.b = variants[j].b
        /\ e.plus = i - j
    BY <1>1, <1>4 DEF Text
  <2>4. CASE e.op = "literal"
    <3>1. e.a \in Int /\ i - j \in Int
      BY <2>2, <2>3 DEF Texts
    <3>2. Value(e, U8) = e.a + (i - j) /\ Value(variants[j], repr) = e.a
      BY <2>2, <2>3, <2>4, <3>1 DEF Value
    <3>. QED
      BY <3>1, <3>2, <1>2, <1>4
  <2>5. CASE e.plus = 0 /\ e.op # "literal"
    <3>1. j = i
      BY <2>3, <2>5
    <3>2. Fits(variants[i], U8) /\ Value(e, U8) = Value(variants[i], U8)
      BY <2>2, <2>3, <2>5, <3>1 DEF Fits, Value
    <3>3. Value(variants[i], U8) = Value(variants[i], repr)
      BY <2>2, <2>3, <2>5, <3>1, <3>2, KeptValue
    <3>4. Value(variants[i], U8) \in Int
      <4>1. Value(variants[i], U8) \in 0..U8.max /\ U8.max \in Int
        BY <2>2, <3>1, <3>2, TagInRange, TypeBounds
      <4>. QED
        BY <4>1
    <3>. QED
      BY <1>2, <1>4, <3>1, <3>2, <3>3, <3>4
  <2>. QED
    BY <2>4, <2>5
<1>. QED
  BY <1>3, <1>4

-----------------------------------------------------------------------------
(* The invariant is inductive.                                             *)

\* It holds before the macro runs.
LEMMA InitIInv == Init => IInv
<1>. SUFFICES ASSUME Init PROVE IInv
  OBVIOUS
<1>1. PICK n \in 0..MaxVariants : variants \in [1..n -> Written]
  BY DEF Init, BoundedSeq, SeqOf, Written
<1>2. variants \in Seq(Written) /\ Len(variants) \in Nat
  BY <1>1, DiscriminantsAssumption
<1>3. EnumOK
  BY <1>2 DEF Init, EnumOK, Accepted
<1>4. MapOK /\ TagsOK
  BY <1>2 DEF Init, MapOK, TagsOK, Literal, Texts
<1>5. PhaseOK /\ TransferOK
  BY <1>2 DEF Init, PhaseOK, TransferOK, Tag
<1>. QED
  BY <1>3, <1>4, <1>5 DEF IInv

\* The text of the next variant, written or counted on, is the right one.
LEMMA AssignedText ==
    ASSUME EnumOK, MapOK, Len(map) < Len(variants), NEW this,
           this = IF variants[Len(map) + 1] = Inherits THEN next ELSE variants[Len(map) + 1]
    PROVE  this \in Texts /\ Counted(Len(map) + 1, this)
<1>. DEFINE i == Len(map) + 1
<1>1. /\ Len(map) \in Nat /\ i \in 1..Len(variants) /\ Len(variants) \in Nat
      /\ variants[i] \in Written
  BY DEF EnumOK, MapOK
<1>2. CASE variants[i] # Inherits
  <2>1. this = variants[i] /\ this \in Texts /\ this.plus = 0
    BY <1>1, <1>2, WrittenIsText
  <2>2. CountsFrom(variants, i, i)
    BY <1>1, <1>2 DEF CountsFrom
  <2>3. this = Text(i, i)
    BY <1>1, <2>1 DEF Text, Texts
  <2>. QED
    BY <1>1, <2>1, <2>2, <2>3 DEF Counted
<1>3. CASE variants[i] = Inherits
  <2>1. this = next /\ this \in Texts
    BY <1>3 DEF MapOK
  <2>2. CASE Len(map) = 0
    <3>1. i = 1 /\ this = Text(i, 0)
      BY <2>1, <2>2 DEF MapOK, Literal, Text
    <3>2. CountsFrom(variants, i, 0)
      BY <1>3, <3>1 DEF CountsFrom
    <3>. QED
      BY <1>1, <2>1, <3>1, <3>2 DEF Counted
  <2>3. CASE Len(map) > 0
    <3>1. Len(map) \in 1..Len(map) /\ Counted(Len(map), map[Len(map)]) /\ map[Len(map)] \in Texts
      BY <1>1, <2>3 DEF MapOK
    <3>2. PICK j \in 0..Len(map) :
            CountsFrom(variants, Len(map), j) /\ map[Len(map)] = Text(Len(map), j)
      BY <3>1 DEF Counted
    <3>3. CountsFrom(variants, i, j)
      BY <1>1, <1>3, <3>2 DEF CountsFrom
    <3>4. this = [map[Len(map)] EXCEPT !.plus = @ + 1]
      BY <2>1, <2>3 DEF MapOK
    <3>5. this = Text(i, j)
      BY <1>1, <3>2, <3>4 DEF Text
    <3>6. j \in 0..i
      BY <1>1, <3>2
    <3>. QED
      BY <2>1, <3>3, <3>5, <3>6 DEF Counted
  <2>. QED
    BY <1>1, <2>2, <2>3
<1>. QED
  BY <1>2, <1>3

\* A round of the loop.
LEMMA AssignIInv == IInv /\ Assign => IInv'
<1>. SUFFICES ASSUME IInv, Assign PROVE IInv'
  OBVIOUS
<1>. USE DEF IInv
<1>1. PICK this : /\ this = IF variants[Len(map) + 1] = Inherits THEN next ELSE variants[Len(map) + 1]
                  /\ map' = Append(map, this) /\ next' = [this EXCEPT !.plus = @ + 1]
  BY DEF Assign
<1>2. this \in Texts /\ Counted(Len(map) + 1, this)
  BY <1>1, AssignedText DEF Assign
<1>3. /\ map' \in Seq(Texts) /\ Len(map') = Len(map) + 1 /\ Len(map) \in Nat /\ Len(variants) \in Nat
      /\ \A i \in 1..Len(map) : map'[i] = map[i]
      /\ map'[Len(map) + 1] = this
  BY <1>1, <1>2 DEF MapOK, EnumOK
<1>4. variants' = variants /\ repr' = repr /\ attribute' = attribute
  BY DEF Assign, enum
<1>5. EnumOK'
  BY <1>4 DEF EnumOK
<1>6. \A i, e : Counted(i, e)' <=> Counted(i, e)
  BY <1>4 DEF Counted, Text
<1>7. \A i \in 1..Len(map') : Counted(i, map'[i])
  BY <1>2, <1>3 DEF MapOK
<1>8. next' \in Texts /\ next' = [map'[Len(map')] EXCEPT !.plus = @ + 1]
  <2>1. [this EXCEPT !.plus = @ + 1] \in Texts
    BY <1>2 DEF Texts
  <2>. QED
    BY <1>1, <1>3, <2>1
<1>9. MapOK'
  BY <1>3, <1>4, <1>6, <1>7, <1>8 DEF MapOK, Assign
<1>10. TagsOK' /\ PhaseOK' /\ TransferOK'
  BY <1>3, <1>4 DEF TagsOK, PhaseOK, TransferOK, Tag, Assign
<1>. QED
  BY <1>5, <1>9, <1>10

\* Pasting the tag of the next variant.
LEMMA PasteIInv == IInv /\ Paste => IInv'
<1>. SUFFICES ASSUME IInv, Paste PROVE IInv'
  OBVIOUS
<1>. USE DEF IInv
<1>1. variants' = variants /\ repr' = repr /\ attribute' = attribute /\ map' = map /\ next' = next /\ sent' = sent /\ got' = got
  BY DEF Paste, enum
<1>2. EnumOK' /\ MapOK'
  BY <1>1 DEF EnumOK, MapOK, Counted, Text
<1>3. CASE pc' = "rejected" /\ tags' = tags
  BY <1>1, <1>2, <1>3 DEF TagsOK, PhaseOK, TransferOK, Tag, Paste
<1>4. CASE /\ tags' = Append(tags, IF attribute = "true" THEN map[Len(tags) + 1] ELSE Literal(Len(tags)))
           /\ pc' = pc
  <2>. DEFINE new == IF attribute = "true" THEN map[Len(tags) + 1] ELSE Literal(Len(tags))
  <2>1. Len(tags) \in Nat /\ Len(map) = Len(variants) /\ Len(tags) < Len(variants) /\ Len(variants) \in Nat
    BY DEF Paste, TagsOK, PhaseOK, EnumOK
  <2>2. new \in Texts
    <3>1. map[Len(tags) + 1] \in Texts
      BY <2>1 DEF MapOK
    <3>2. Literal(Len(tags)) \in Texts
      BY <2>1 DEF Literal, Texts
    <3>. QED
      BY <3>1, <3>2
  <2>3. /\ tags' \in Seq(Texts) /\ Len(tags') = Len(tags) + 1
        /\ \A i \in 1..Len(tags) : tags'[i] = tags[i]
        /\ tags'[Len(tags) + 1] = new
    BY <1>4, <2>1, <2>2 DEF TagsOK
  <2>4. \A i \in 1..Len(tags') : tags'[i] = IF attribute = "true" THEN map[i] ELSE Literal(i - 1)
    BY <2>1, <2>3 DEF TagsOK
  <2>5. TagsOK'
    BY <1>1, <2>1, <2>3, <2>4 DEF TagsOK
  <2>6. PhaseOK' /\ TransferOK'
    BY <1>1, <1>4, <2>1 DEF PhaseOK, TransferOK, Tag, Paste
  <2>. QED
    BY <1>2, <2>5, <2>6
<1>. QED
  BY <1>2, <1>3, <1>4 DEF Paste

\* The other steps.
LEMMA OtherIInv ==
    IInv /\ (CheckAttributes \/ Assigned \/ Compile \/ Serialize \/ DeserializeVariant \/ UNCHANGED vars) => IInv'
<1>. SUFFICES ASSUME IInv, CheckAttributes \/ Assigned \/ Compile \/ Serialize \/ DeserializeVariant \/ UNCHANGED vars
              PROVE  IInv'
  OBVIOUS
<1>. USE DEF IInv
<1>1. /\ variants' = variants /\ repr' = repr /\ attribute' = attribute /\ map' = map /\ next' = next /\ tags' = tags
  BY DEF CheckAttributes, Assigned, Compile, Serialize, DeserializeVariant, vars, enum
<1>2. EnumOK' /\ MapOK' /\ TagsOK'
  BY <1>1 DEF EnumOK, MapOK, TagsOK, Counted, Text
<1>3. Len(tags) \in Nat /\ Len(variants) \in Nat /\ DOMAIN tags = 1..Len(tags) /\ DOMAIN variants = 1..Len(variants)
  BY DEF TagsOK, EnumOK
<1>4. CheckAttributes => PhaseOK' /\ TransferOK'
  BY <1>1, <1>3 DEF CheckAttributes, PhaseOK, TransferOK, Tag
<1>5. Assigned => PhaseOK' /\ TransferOK'
  BY <1>1, <1>3 DEF Assigned, PhaseOK, TransferOK, Tag
<1>6. Compile => PhaseOK' /\ TransferOK'
  BY <1>1, <1>3 DEF Compile, PhaseOK, TransferOK, Tag
<1>7. Serialize => PhaseOK' /\ TransferOK'
  BY <1>1, <1>3 DEF Serialize, PhaseOK, TransferOK, Tag
<1>8. DeserializeVariant => PhaseOK' /\ TransferOK'
  BY <1>1, <1>3 DEF DeserializeVariant, PhaseOK, TransferOK, Tag
<1>9. UNCHANGED vars => PhaseOK' /\ TransferOK'
  BY <1>1, <1>3 DEF vars, PhaseOK, TransferOK, Tag
<1>. QED
  BY <1>2, <1>4, <1>5, <1>6, <1>7, <1>8, <1>9

\* The invariant holds in every reachable state: every variant has the text that
\* counts on from the last expression, and a tag is that text or an index.
THEOREM Invariance == Spec => []IInv
<1>1. IInv /\ [Next]_vars => IInv'
  BY AssignIInv, PasteIInv, OtherIInv DEF Next, Over
<1>. QED
  BY InitIInv, <1>1, PTL DEF Spec

-----------------------------------------------------------------------------
(* What follows.                                                           *)

\* Discriminants::get finds every variant; a tag in compiled code is a byte.
THEOREM TypeCorrect == Spec => []TypeOK
<1>1. ASSUME IInv, pc = "run", NEW i \in DOMAIN tags PROVE Tag(i) \in 0..U8.max
  <2>1. tags[i] \in Texts /\ Fits(tags[i], U8)
    BY <1>1 DEF IInv, TagsOK, PhaseOK
  <2>. QED
    BY <2>1, TagInRange DEF Tag
<1>2. IInv => TypeOK
  BY <1>1 DEF IInv, EnumOK, MapOK, TagsOK, PhaseOK, TransferOK, TypeOK
<1>. QED
  BY Invariance, <1>2, PTL

\* The tag of each variant of compiled code.
LEMMA TagValues ==
    ASSUME IInv, pc = "run", NEW i \in 1..Len(variants)
    PROVE  /\ attribute # "true" => Tag(i) = i - 1
           /\ attribute = "true" /\ Alike => Tag(i) = Compiler(variants, repr)[i]
<1>1. i \in 1..Len(tags) /\ i \in 1..Len(map) /\ i \in DOMAIN map
  BY DEF IInv, PhaseOK, MapOK
<1>2. CASE attribute # "true"
  <2>1. tags[i] = Literal(i - 1)
    BY <1>1, <1>2 DEF IInv, TagsOK
  <2>2. Value(Literal(i - 1), U8) = i - 1 + 0
    BY DEF Literal, Value
  <2>. QED
    BY <2>1, <2>2, <1>1, <1>2 DEF Tag
<1>3. CASE attribute = "true" /\ Alike
  <2>1. tags[i] = map[i] /\ Counted(i, map[i]) /\ (map[i].plus = 0 \/ map[i].op = "literal")
    BY <1>1, <1>3 DEF IInv, TagsOK, MapOK, Alike, Countable
  <2>2. Fits(tags[i], U8)
    BY <1>1 DEF IInv, PhaseOK
  <2>. QED
    BY <2>1, <2>2, <1>3, TextValue DEF IInv, Tag, Alike
<1>. QED
  BY <1>2, <1>3

\* With use_discriminant = true the tags are the discriminants of the compiler,
\* where variants count on from plain numbers only and no shift drops bits.
THEOREM TagsAreCounted == Spec => []CountedTags
<1>1. IInv => CountedTags
  BY TagValues DEF IInv, EnumOK, CountedTags, TagsAreDiscriminants
<1>. QED
  BY Invariance, <1>1, PTL

\* A variant is read as itself, under the same conditions or by its index.
THEOREM VariantsSurvive == Spec => []VariantSurvives
<1>1. IInv => VariantSurvives
  <2>. SUFFICES ASSUME IInv, got # 0, Alike \/ attribute # "true" PROVE got = sent
    BY DEF VariantSurvives
  <2>1. /\ got \in 1..Len(variants) /\ sent \in 1..Len(variants) /\ pc = "run"
        /\ Tag(got) = Tag(sent)
    BY DEF IInv, TransferOK
  <2>2. CASE attribute # "true"
    BY <2>1, <2>2, TagValues
  <2>3. CASE attribute = "true" /\ Alike
    <3>1. Compiler(variants, repr)[got] = Compiler(variants, repr)[sent]
      BY <2>1, <2>3, TagValues
    <3>2. DOMAIN Compiler(variants, repr) = 1..Len(variants)
      BY DEF Compiler, IInv, EnumOK
    <3>. QED
      BY <2>1, <3>1, <3>2 DEF IInv, EnumOK, IsInjective
  <2>. QED
    BY <2>2, <2>3
<1>. QED
  BY Invariance, <1>1, PTL
=============================================================================
