----------------------------- MODULE CodecProofs -----------------------------
(***************************************************************************)
(* What the codec reads is what it wrote, and what it writes is what it    *)
(* read, for every type, every value and every width of a byte, a length   *)
(* and a usize.                                                            *)
(*                                                                         *)
(* An encoding fits a decoder (Fits) when the decoder, given its bytes and *)
(* whatever follows them, answers with the value and leaves what follows;  *)
(* or refuses them, when its machine has no room for the value; and misses *)
(* bytes when it is given only a beginning.  Parts that are serialized one *)
(* behind the other fit decoders that run one behind the other (FitsBoth,  *)
(* FitsEach); so each kind of type fits when its parts do (UintFits to     *)
(* IndexMapFits), and CodecFits follows by induction over the depth of     *)
(* types, for which Ser, Dec, Received and Readable are first shown to be  *)
(* functions of the parts (SerIs to ReadableIs).                           *)
(*                                                                         *)
(* The other way, from bytes of any origin: a value that a decoder gave is *)
(* undone (Undone) when it is written without an error, and, where a type  *)
(* has one encoding only, as the bytes that were read.  Each kind of type  *)
(* goes back when its parts do (UintBack to IndexMapBack), and AllSettle   *)
(* follows by the same induction.                                          *)
(***************************************************************************)
EXTENDS Exchange, SequenceTheorems, FiniteSetTheorems, WellFoundedInduction, TLAPS

\* s is a sequence of something.
IsSeq(s) == s \in Seq(ToSet(s))

-----------------------------------------------------------------------------
(* Numbers up to a number, and sequences.                                  *)

\* Every set of natural numbers has a least one.
LEMMA LeastNumber ==
    ASSUME NEW T \in SUBSET Nat, T # {}
    PROVE  \E m \in T : \A k \in T : m <= k
<1>. DEFINE R == {ss \in Nat \X Nat : ss[1] < ss[2]}
<1>1. R = OpToRel(<, Nat)
  BY DEF OpToRel
<1>2. IsWellFoundedOn(R, Nat)
  BY <1>1, NatLessThanWellFounded
<1>3. \E m \in T : \A k \in T : ~(<<k, m>> \in R)
  <2>. HIDE DEF R
  <2>. QED BY <1>2, WFMin
<1>4. PICK m \in T : \A k \in T : ~(<<k, m>> \in R)
  BY <1>3
<1>5. ASSUME NEW k \in T PROVE m <= k
  <2>1. <<k, m>> \in Nat \X Nat /\ <<k, m>>[1] = k /\ <<k, m>>[2] = m
    OBVIOUS
  <2>2. ~(k < m)
    BY <1>4, <2>1
  <2>. QED
    BY <2>2
<1>. QED
  BY <1>5

\* What holds at 0 and is passed on to the next holds up to n.
LEMMA UpTo ==
    ASSUME NEW n \in Nat, NEW T \in SUBSET (0..n), 0 \in T,
           \A i \in 0..n : i > 0 /\ i - 1 \in T => i \in T
    PROVE  T = 0..n
<1>. DEFINE U == (0..n) \ T
<1>1. SUFFICES ASSUME U # {} PROVE FALSE
  OBVIOUS
<1>2. PICK m \in U : \A k \in U : m <= k
  <2>. U \in SUBSET Nat
    OBVIOUS
  <2>. HIDE DEF U
  <2>. QED
    BY <1>1, LeastNumber
<1>3. m - 1 \in T
  BY <1>2
<1>. QED
  BY <1>2, <1>3

\* f accumulates over 1..n: from base, with one function per step.
Steps(f, n, base, step) == f[0] = base /\ \A i \in 1..n : f[i] = step[i][f[i - 1]]

\* A function may be defined by its value at 0 and a step.
LEMMA PrefixRecursion ==
    ASSUME NEW V, NEW base \in V, NEW n \in Nat, NEW step \in [0..n -> [V -> V]]
    PROVE  \E f \in [0..n -> V] : Steps(f, n, base, step)
<1>. DEFINE Upto(m, f) == f[0] = base /\ \A i \in 1..m : f[i] = step[i][f[i - 1]]
<1>. DEFINE T == {m \in 0..n : \E f \in [0..m -> V] : Upto(m, f)}
<1>1. 0 \in T
  <2>. DEFINE g == [i \in 0..0 |-> base]
  <2>1. g \in [0..0 -> V] /\ g[0] = base /\ 0 \in 0..n
    OBVIOUS
  <2>2. \A i \in 1..0 : g[i] = step[i][g[i - 1]]
    OBVIOUS
  <2>. HIDE DEF g
  <2>. QED
    BY <2>1, <2>2
<1>2. ASSUME NEW m \in 0..n, m > 0, m - 1 \in T PROVE m \in T
  <2>1. PICK f \in [0..(m - 1) -> V] : Upto(m - 1, f)
    BY <1>2
  <2>. DEFINE g == [i \in 0..m |-> IF i < m THEN f[i] ELSE step[m][f[m - 1]]]
  <2>2. f[m - 1] \in V /\ step[m][f[m - 1]] \in V
    BY <1>2
  <2>3. g \in [0..m -> V]
    BY <2>2
  <2>4. g[0] = base
    BY <1>2, <2>1
  <2>5. ASSUME NEW i \in 1..m PROVE g[i] = step[i][g[i - 1]]
    <3>1. CASE i < m
      BY <2>1, <3>1
    <3>2. CASE i = m
      BY <1>2, <3>2
    <3>. QED
      BY <3>1, <3>2
  <2>. QED
    BY <2>3, <2>4, <2>5
<1>3. T = 0..n
  <2>. HIDE DEF T
  <2>1. T \subseteq 0..n
    BY DEF T
  <2>. QED
    BY <1>1, <1>2, <2>1, UpTo
<1>. QED
  BY <1>3 DEF Steps

\* A sequence is one of its elements.
LEMMA AsSeq ==
    ASSUME NEW V, NEW s \in Seq(V)
    PROVE  /\ IsSeq(s) /\ ToSet(s) \subseteq V
           /\ Len(s) \in Nat /\ DOMAIN s = 1..Len(s) /\ \A i \in 1..Len(s) : s[i] \in V
<1>1. /\ Len(s) \in Nat /\ DOMAIN s = 1..Len(s) /\ s \in [1..Len(s) -> V]
      /\ \A i \in 1..Len(s) : s[i] \in V
  BY LenProperties
<1>2. s \in [1..Len(s) -> ToSet(s)]
  BY <1>1 DEF ToSet
<1>3. s \in Seq(ToSet(s))
  BY <1>1, <1>2, IsASeq
<1>. QED
  BY <1>1, <1>3 DEF IsSeq, ToSet

\* The elements of a sequence are at its places.
LEMMA SeqIs ==
    ASSUME NEW s, IsSeq(s)
    PROVE  /\ Len(s) \in Nat /\ DOMAIN s = 1..Len(s)
           /\ \A i \in 1..Len(s) : s[i] \in ToSet(s)
           /\ \A x \in ToSet(s) : \E i \in 1..Len(s) : x = s[i]
<1>1. s \in Seq(ToSet(s))
  BY DEF IsSeq
<1>2. DOMAIN s = 1..Len(s) /\ Len(s) \in Nat
  BY <1>1, LenProperties
<1>. QED
  BY <1>2 DEF ToSet

\* One more element.
LEMMA AppendIs ==
    ASSUME NEW s, IsSeq(s), NEW x
    PROVE  /\ IsSeq(Append(s, x)) /\ ToSet(Append(s, x)) = ToSet(s) \cup {x}
           /\ Len(Append(s, x)) = Len(s) + 1
           /\ \A i \in 1..Len(s) : Append(s, x)[i] = s[i]
           /\ Append(s, x)[Len(s) + 1] = x
<1>. DEFINE V == ToSet(s) \cup {x}
            t == Append(s, x)
<1>1. s \in Seq(V) /\ x \in V
  BY SeqMonotonic DEF IsSeq
<1>2. /\ t \in Seq(V) /\ Len(t) = Len(s) + 1
      /\ \A i \in 1..Len(s) : t[i] = s[i]
      /\ t[Len(s) + 1] = x
  <2>. HIDE DEF V
  <2>. QED
    BY <1>1, AppendProperties
<1>3. IsSeq(t) /\ ToSet(t) \subseteq V /\ DOMAIN t = 1..Len(t)
  <2>. HIDE DEF V, t
  <2>. QED
    BY <1>2, AsSeq
<1>4. ToSet(s) \subseteq ToSet(t)
  <2>1. ASSUME NEW y \in ToSet(s) PROVE y \in ToSet(t)
    <3>1. PICK i \in 1..Len(s) : y = s[i] /\ Len(s) \in Nat
      BY SeqIs
    <3>2. i \in DOMAIN t /\ t[i] = y
      <4>. HIDE DEF t
      <4>. QED
        BY <1>2, <1>3, <3>1
    <3>. QED
      BY <3>2 DEF ToSet
  <2>. QED
    BY <2>1
<1>5. x \in ToSet(t)
  <2>1. Len(s) \in Nat
    BY SeqIs
  <2>2. Len(s) + 1 \in DOMAIN t
    <3>. HIDE DEF t
    <3>. QED
      BY <1>2, <1>3, <2>1
  <2>. QED
    BY <1>2, <2>2 DEF ToSet
<1>. QED
  BY <1>2, <1>3, <1>4, <1>5

\* One sequence behind another.
LEMMA ConcatIs ==
    ASSUME NEW s, IsSeq(s), NEW t, IsSeq(t)
    PROVE  /\ IsSeq(s \o t) /\ ToSet(s \o t) = ToSet(s) \cup ToSet(t)
           /\ Len(s \o t) = Len(s) + Len(t)
           /\ \A i \in 1..Len(s) : (s \o t)[i] = s[i]
           /\ \A i \in 1..Len(t) : (s \o t)[Len(s) + i] = t[i]
<1>. DEFINE V == ToSet(s) \cup ToSet(t)
            c == s \o t
<1>1. s \in Seq(V) /\ t \in Seq(V) /\ Len(s) \in Nat /\ Len(t) \in Nat
  BY SeqMonotonic, SeqIs DEF IsSeq
<1>2. /\ c \in Seq(V) /\ Len(c) = Len(s) + Len(t)
      /\ \A i \in 1..(Len(s) + Len(t)) : c[i] = IF i <= Len(s) THEN s[i] ELSE t[i - Len(s)]
  <2>. HIDE DEF V
  <2>. QED
    BY <1>1, ConcatProperties
<1>3. IsSeq(c) /\ ToSet(c) \subseteq V /\ DOMAIN c = 1..Len(c)
  <2>. HIDE DEF V, c
  <2>. QED
    BY <1>2, AsSeq
<1>4. /\ \A i \in 1..Len(s) : c[i] = s[i] /\ i \in DOMAIN c
      /\ \A i \in 1..Len(t) : c[Len(s) + i] = t[i] /\ Len(s) + i \in DOMAIN c
  <2>. HIDE DEF c, V
  <2>. QED
    BY <1>1, <1>2, <1>3
<1>5. V \subseteq ToSet(c)
  <2>1. ASSUME NEW y \in ToSet(s) PROVE y \in ToSet(c)
    <3>1. PICK i \in 1..Len(s) : y = s[i]
      BY SeqIs
    <3>. QED
      BY <1>4, <3>1 DEF ToSet
  <2>2. ASSUME NEW y \in ToSet(t) PROVE y \in ToSet(c)
    <3>1. PICK i \in 1..Len(t) : y = t[i]
      BY SeqIs
    <3>. QED
      BY <1>4, <3>1 DEF ToSet
  <2>. QED
    BY <2>1, <2>2
<1>. QED
  BY <1>1, <1>2, <1>3, <1>4, <1>5

\* f[n] is the first n sequences, one behind another.
IsFlat(seqs, f) ==
    /\ f \in [0..Len(seqs) -> Seq(UNION {ToSet(seqs[i]) : i \in 1..Len(seqs)})] /\ f[0] = <<>>
    /\ \A n \in 1..Len(seqs) : f[n] = f[n - 1] \o seqs[n]

\* There is such a function, and FlattenSeq is its last value.
LEMMA FlattenIs ==
    ASSUME NEW seqs, IsSeq(seqs), \A i \in 1..Len(seqs) : IsSeq(seqs[i])
    PROVE  \E f : IsFlat(seqs, f) /\ FlattenSeq(seqs) = f[Len(seqs)]
<1>. DEFINE n == Len(seqs)
            U == UNION {ToSet(seqs[i]) : i \in 1..n}
            V == Seq(U)
            step == [i \in 0..n |-> [q \in V |-> IF i # 0 THEN q \o seqs[i] ELSE q]]
            Body(f) == [i \in 1..n |-> IF i = 1 THEN seqs[i] ELSE f[i - 1] \o seqs[i]]
<1>1. n \in Nat /\ <<>> \in V
  BY SeqIs, EmptySeq
<1>2. \A i \in 1..n : seqs[i] \in V
  <2>1. ASSUME NEW i \in 1..n PROVE seqs[i] \in V
    <3>1. seqs[i] \in Seq(ToSet(seqs[i])) /\ ToSet(seqs[i]) \subseteq U
      BY DEF IsSeq
    <3>. HIDE DEF U
    <3>. QED
      BY <3>1, SeqMonotonic
  <2>. QED
    BY <2>1
<1>3. \A i \in 1..n : \A q \in V : q \o seqs[i] \in V
  <2>. HIDE DEF U
  <2>. QED
    BY <1>2, ConcatProperties
<1>4. step \in [0..n -> [V -> V]]
  <2>. HIDE DEF V
  <2>. QED
    BY <1>1, <1>3
<1>5. PICK f \in [0..n -> V] : f[0] = <<>> /\ \A i \in 1..n : f[i] = step[i][f[i - 1]]
  <2>. DEFINE base == <<>>
  <2>1. base \in V
    BY <1>1
  <2>. HIDE DEF step, n, base, V
  <2>2. \E f \in [0..n -> V] : Steps(f, n, base, step)
    BY <1>1, <1>4, <2>1, PrefixRecursion
  <2>. QED
    BY <2>2 DEF base, Steps
<1>6. ASSUME NEW i \in 1..n PROVE f[i] = f[i - 1] \o seqs[i]
  <2>1. i - 1 \in 0..n /\ i \in 0..n /\ i # 0
    BY <1>1
  <2>2. f[i] = step[i][f[i - 1]] /\ f[i - 1] \in V
    <3>. HIDE DEF step, n, V
    <3>. QED
      BY <1>5, <2>1
  <2>. QED
    BY <2>1, <2>2
<1>7. IsFlat(seqs, f)
  BY <1>5, <1>6 DEF IsFlat
<1>8. CASE n = 0
  <2>1. seqs = <<>> /\ FlattenSeq(seqs) = seqs
    <3>1. seqs \in Seq(ToSet(seqs))
      BY DEF IsSeq
    <3>. QED
      BY <1>8, <3>1, EmptySeq DEF FlattenSeq
  <2>. QED
    BY <1>5, <1>7, <1>8, <2>1
<1>9. CASE n # 0
  <2>. DEFINE h == [i \in 1..n |-> f[i]]
  <2>1. FlattenSeq(seqs) = (CHOOSE g : g = Body(g))[n]
    BY <1>9 DEF FlattenSeq
  <2>2. ASSUME NEW i \in 1..n
        PROVE  f[i] = IF i = 1 THEN seqs[i] ELSE f[i - 1] \o seqs[i]
    <3>1. CASE i = 1
      <4>1. f[1] = <<>> \o seqs[1] /\ seqs[1] \in V
        BY <1>2, <1>5, <1>6, <3>1
      <4>2. f[1] = seqs[1]
        <5>. HIDE DEF U
        <5>. QED
          BY <4>1, ConcatEmptySeq
      <4>. QED
        BY <3>1, <4>2
    <3>2. CASE i # 1
      BY <1>6, <3>2
    <3>. QED
      BY <3>1, <3>2
  <2>3. h = Body(h)
    <3>1. ASSUME NEW i \in 1..n PROVE h[i] = Body(h)[i]
      <4>1. CASE i = 1
        BY <2>2, <4>1
      <4>2. CASE i # 1
        <5>1. i - 1 \in 1..n
          BY <1>1, <4>2
        <5>2. h[i - 1] = f[i - 1]
          BY <5>1
        <5>. QED
          BY <2>2, <4>2, <5>2
      <4>. QED
        BY <4>1, <4>2
    <3>. QED
      BY <3>1
  <2>4. ASSUME NEW g, g = Body(g) PROVE g[n] = f[n]
    <3>. DEFINE T == {i \in 0..n : i # 0 => g[i] = f[i]}
    <3>1. ASSUME NEW i \in 1..n PROVE g[i] = IF i = 1 THEN seqs[i] ELSE g[i - 1] \o seqs[i]
      BY <2>4
    <3>2. T = 0..n
      <4>1. 0 \in T
        BY <1>1
      <4>2. ASSUME NEW i \in 0..n, i > 0, i - 1 \in T PROVE i \in T
        <5>1. i \in 1..n
          BY <1>1, <4>2
        <5>2. CASE i = 1
          BY <2>2, <3>1, <5>1, <5>2
        <5>3. CASE i # 1
          <6>1. g[i - 1] = f[i - 1]
            BY <1>1, <4>2, <5>3
          <6>. QED
            BY <2>2, <3>1, <5>1, <5>3, <6>1
        <5>. QED
          BY <5>2, <5>3
      <4>3. T \in SUBSET (0..n)
        OBVIOUS
      <4>. HIDE DEF T, n
      <4>. QED
        BY <1>1, <4>1, <4>2, <4>3, UpTo
    <3>. QED
      BY <1>1, <1>9, <3>2
  <2>5. (CHOOSE g : g = Body(g))[n] = f[n]
    <3>. HIDE DEF Body, n, h
    <3>1. (CHOOSE g : g = Body(g)) = Body(CHOOSE g : g = Body(g))
      BY <2>3
    <3>. QED
      BY <2>4, <3>1
  <2>. QED
    BY <1>7, <2>1, <2>5
<1>. QED
  BY <1>1, <1>8, <1>9

\* A function on 1..n is a sequence.
LEMMA FunctionIsSeq ==
    ASSUME NEW n \in Nat, NEW s, s = [i \in 1..n |-> s[i]]
    PROVE  IsSeq(s) /\ Len(s) = n
<1>1. s \in [1..n -> ToSet(s)] /\ DOMAIN s = 1..n
  BY DEF ToSet
<1>2. s \in Seq(ToSet(s))
  BY <1>1, IsASeq
<1>3. Len(s) \in Nat /\ DOMAIN s = 1..Len(s)
  BY <1>2, LenProperties
<1>. QED
  BY <1>1, <1>2, <1>3 DEF IsSeq

\* Sequences that have the same elements at the same places are equal.
LEMMA SameSeq ==
    ASSUME NEW s, IsSeq(s), NEW t, IsSeq(t), Len(s) = Len(t), \A i \in 1..Len(s) : s[i] = t[i]
    PROVE  s = t
<1>. DEFINE V == ToSet(s) \cup ToSet(t)
<1>1. s \in Seq(V) /\ t \in Seq(V)
  BY SeqMonotonic DEF IsSeq
<1>. HIDE DEF V
<1>. QED
  BY <1>1, SeqEqual

\* The sequences, one behind another, are a sequence of the elements.
LEMMA FlatType ==
    ASSUME NEW V, NEW seqs \in Seq(Seq(V))
    PROVE  /\ IsSeq(seqs) /\ \A i \in 1..Len(seqs) : IsSeq(seqs[i]) /\ seqs[i] \in Seq(V)
           /\ FlattenSeq(seqs) \in Seq(V)
<1>1. IsSeq(seqs) /\ \A i \in 1..Len(seqs) : IsSeq(seqs[i]) /\ seqs[i] \in Seq(V)
  BY AsSeq
<1>2. PICK f : IsFlat(seqs, f) /\ FlattenSeq(seqs) = f[Len(seqs)]
  BY <1>1, FlattenIs
<1>. DEFINE T == {n \in 0..Len(seqs) : f[n] \in Seq(V)}
<1>3. Len(seqs) \in Nat
  BY <1>1, SeqIs
<1>4. T = 0..Len(seqs)
  <2>1. 0 \in T
    <3>1. f[0] = <<>> /\ 0 \in 0..Len(seqs)
      BY <1>2, <1>3 DEF IsFlat
    <3>2. f[0] \in Seq(V)
      BY <3>1, EmptySeq
    <3>. QED
      BY <3>1, <3>2
  <2>2. ASSUME NEW n \in 0..Len(seqs), n > 0, n - 1 \in T PROVE n \in T
    <3>0. n \in 1..Len(seqs) /\ f[n - 1] \in Seq(V)
      BY <1>3, <2>2
    <3>1. n \in 1..Len(seqs) /\ f[n - 1] \in Seq(V) /\ f[n] = f[n - 1] \o seqs[n]
      BY <1>2, <3>0 DEF IsFlat
    <3>2. f[n] \in Seq(V)
      BY <1>1, <3>1, ConcatProperties
    <3>. QED
      BY <3>2
  <2>3. T \in SUBSET (0..Len(seqs))
    OBVIOUS
  <2>. HIDE DEF T
  <2>. QED
    BY <1>3, <2>1, <2>2, <2>3, UpTo
<1>5. f[Len(seqs)] \in Seq(V)
  BY <1>3, <1>4
<1>. QED
  BY <1>1, <1>2, <1>5

\* Nothing, flattened.
LEMMA FlatNone == FlattenSeq(<<>>) = <<>>
BY DEF FlattenSeq

\* One more sequence goes behind the others.
LEMMA FlatAppend ==
    ASSUME NEW V, NEW seqs \in Seq(Seq(V)), NEW x \in Seq(V)
    PROVE  FlattenSeq(Append(seqs, x)) = FlattenSeq(seqs) \o x
<1>. DEFINE more == Append(seqs, x)
            n == Len(seqs)
<1>1. /\ more \in Seq(Seq(V)) /\ n \in Nat /\ Len(more) = n + 1
      /\ \A i \in 1..n : more[i] = seqs[i]
      /\ more[n + 1] = x
  BY AppendProperties, LenProperties
<1>. HIDE DEF more
<1>2. PICK f : IsFlat(seqs, f) /\ FlattenSeq(seqs) = f[n]
  BY FlatType, FlattenIs
<1>3. PICK g : IsFlat(more, g) /\ FlattenSeq(more) = g[n + 1]
  BY <1>1, FlatType, FlattenIs
<1>. DEFINE T == {i \in 0..n : f[i] = g[i]}
<1>4. T = 0..n
  <2>1. 0 \in T
    BY <1>1, <1>2, <1>3 DEF IsFlat
  <2>2. ASSUME NEW i \in 0..n, i > 0, i - 1 \in T PROVE i \in T
    <3>1. i \in 1..n /\ i \in 1..Len(more) /\ f[i - 1] = g[i - 1] /\ more[i] = seqs[i]
      BY <1>1, <2>2
    <3>2. f[i] = f[i - 1] \o seqs[i]
      BY <1>2, <3>1 DEF IsFlat
    <3>3. g[i] = g[i - 1] \o more[i]
      BY <1>3, <3>1 DEF IsFlat
    <3>. QED
      BY <3>1, <3>2, <3>3
  <2>3. T \in SUBSET (0..n)
    OBVIOUS
  <2>. HIDE DEF T, n
  <2>. QED
    BY <1>1, <2>1, <2>2, <2>3, UpTo
<1>5. f[n] = g[n]
  <2>1. n \in T
    <3>. HIDE DEF T, n
    <3>. QED
      BY <1>1, <1>4
  <2>. QED
    BY <2>1
<1>6. g[n + 1] = g[n] \o x
  <2>1. n + 1 \in 1..Len(more) /\ (n + 1) - 1 = n
    BY <1>1
  <2>2. g[n + 1] = g[(n + 1) - 1] \o more[n + 1]
    BY <1>3, <2>1 DEF IsFlat
  <2>. QED
    BY <1>1, <2>1, <2>2
<1>. QED
  BY <1>2, <1>3, <1>5, <1>6 DEF more

\* One sequence is all there is.
LEMMA FlatOne ==
    ASSUME NEW V, NEW x \in Seq(V)
    PROVE  FlattenSeq(<<x>>) = x
<1>1. <<>> \in Seq(Seq(V)) /\ Append(<<>>, x) = <<x>>
  BY EmptySeq
<1>2. FlattenSeq(<<x>>) = <<>> \o x
  BY <1>1, FlatAppend, FlatNone
<1>. QED
  BY <1>2, ConcatEmptySeq

\* The first n elements of a sequence.
LEMMA FirstN ==
    ASSUME NEW V, NEW s \in Seq(V), NEW n \in 0..Len(s)
    PROVE  /\ SubSeq(s, 1, n) \in Seq(V) /\ Len(SubSeq(s, 1, n)) = n
           /\ \A i \in 1..n : SubSeq(s, 1, n)[i] = s[i]
<1>1. Len(s) \in Nat /\ \A i \in 1..n : s[i] \in V
  BY LenProperties
<1>2. n \in Int /\ 1 \in Int /\ (IF 1 <= n THEN n - 1 + 1 ELSE 0) = n /\ n - 1 + 1 = n
      /\ \A i \in 1..n : 1 + i - 1 = i
  BY <1>1
<1>. QED
  BY <1>1, <1>2, SubSeqProperties

\* One more of them.
LEMMA FirstNext ==
    ASSUME NEW V, NEW s \in Seq(V), NEW n \in 1..Len(s)
    PROVE  SubSeq(s, 1, n) = Append(SubSeq(s, 1, n - 1), s[n])
<1>1. Len(s) \in Nat /\ n - 1 \in 0..Len(s) /\ n \in 0..Len(s) /\ s[n] \in V
  BY LenProperties
<1>. DEFINE a == SubSeq(s, 1, n)
            b == Append(SubSeq(s, 1, n - 1), s[n])
<1>2. a \in Seq(V) /\ Len(a) = n /\ \A i \in 1..n : a[i] = s[i]
  BY <1>1, FirstN
<1>3. /\ SubSeq(s, 1, n - 1) \in Seq(V) /\ Len(SubSeq(s, 1, n - 1)) = n - 1
      /\ \A i \in 1..n - 1 : SubSeq(s, 1, n - 1)[i] = s[i]
  BY <1>1, FirstN
<1>4. /\ b \in Seq(V) /\ Len(b) = n /\ b[n] = s[n]
      /\ \A i \in 1..n - 1 : b[i] = s[i]
  BY <1>1, <1>3, AppendProperties
<1>. HIDE DEF a, b
<1>5. \A i \in 1..n : a[i] = b[i]
  BY <1>1, <1>2, <1>4
<1>6. a = b
  BY <1>2, <1>4, <1>5, SeqEqual
<1>. QED
  BY <1>6 DEF a, b

\* A sequence behind another one, flattened.
LEMMA FlatConcat ==
    ASSUME NEW V, NEW a \in Seq(Seq(V)), NEW b \in Seq(Seq(V))
    PROVE  FlattenSeq(a \o b) = FlattenSeq(a) \o FlattenSeq(b)
<1>. DEFINE B(n) == SubSeq(b, 1, n)
            T == {n \in 0..Len(b) : FlattenSeq(a \o B(n)) = FlattenSeq(a) \o FlattenSeq(B(n))}
<1>1. Len(b) \in Nat /\ \A n \in 0..Len(b) : B(n) \in Seq(Seq(V))
  BY FirstN, LenProperties
<1>2. 0 \in T
  <2>1. B(0) = <<>>
    BY SubSeqEmpty
  <2>2. a \o <<>> = a /\ FlattenSeq(a) \o <<>> = FlattenSeq(a)
    BY ConcatEmptySeq, FlatType
  <2>3. FlattenSeq(a \o B(0)) = FlattenSeq(a) \o FlattenSeq(B(0))
    <3>. HIDE DEF B
    <3>. QED
      BY <2>1, <2>2, FlatNone
  <2>4. 0 \in 0..Len(b)
    BY <1>1
  <2>. QED
    BY <2>3, <2>4
<1>3. ASSUME NEW n \in 0..Len(b), n > 0, n - 1 \in T PROVE n \in T
  <2>1. n \in 1..Len(b) /\ n - 1 \in 0..Len(b) /\ b[n] \in Seq(V)
    BY <1>1, <1>3, LenProperties
  <2>2. B(n) = Append(B(n - 1), b[n]) /\ B(n - 1) \in Seq(Seq(V))
    BY <1>1, <2>1, FirstNext
  <2>3. B(n) = B(n - 1) \o <<b[n]>> /\ <<b[n]>> \in Seq(Seq(V))
    BY <2>1, <2>2, AppendIsConcat
  <2>. DEFINE c == B(n - 1)
  <2>. HIDE DEF B
  <2>4. a \o B(n) = Append(a \o c, b[n]) /\ a \o c \in Seq(Seq(V))
    <3>1. a \o (c \o <<b[n]>>) = (a \o c) \o <<b[n]>>
      <4>. DEFINE W == Seq(V)
                  x == <<b[n]>>
      <4>1. a \in Seq(W) /\ c \in Seq(W) /\ x \in Seq(W)
        BY <2>2, <2>3
      <4>. HIDE DEF W, x, c
      <4>2. a \o (c \o x) = (a \o c) \o x
        BY <4>1, ConcatAssociative
      <4>. QED
        BY <4>2 DEF x
    <3>2. a \o c \in Seq(Seq(V))
      BY <2>2, ConcatProperties
    <3>. QED
      BY <2>1, <2>3, <3>1, <3>2, AppendIsConcat
  <2>5. FlattenSeq(a \o B(n)) = FlattenSeq(a \o c) \o b[n]
    BY <2>1, <2>4, FlatAppend
  <2>6. FlattenSeq(B(n)) = FlattenSeq(c) \o b[n]
    BY <2>1, <2>2, FlatAppend
  <2>7. FlattenSeq(a \o c) = FlattenSeq(a) \o FlattenSeq(c)
    BY <1>3
  <2>8. (FlattenSeq(a) \o FlattenSeq(c)) \o b[n] = FlattenSeq(a) \o (FlattenSeq(c) \o b[n])
    <3>. DEFINE x == FlattenSeq(a)
                y == FlattenSeq(c)
                z == b[n]
    <3>1. x \in Seq(V) /\ y \in Seq(V) /\ z \in Seq(V)
      BY <2>1, <2>2, FlatType
    <3>. HIDE DEF x, y, z
    <3>2. (x \o y) \o z = x \o (y \o z)
      BY <3>1, ConcatAssociative
    <3>. QED
      BY <3>2 DEF x, y, z
  <2>. QED
    BY <2>5, <2>6, <2>7, <2>8
<1>4. T = 0..Len(b)
  <2>1. T \in SUBSET (0..Len(b))
    OBVIOUS
  <2>. HIDE DEF T
  <2>. QED
    BY <1>1, <1>2, <1>3, <2>1, UpTo
<1>5. B(Len(b)) = b
  BY SubSeqFull
<1>6. Len(b) \in T
  <2>. HIDE DEF T
  <2>. QED
    BY <1>1, <1>4
<1>7. FlattenSeq(a \o B(Len(b))) = FlattenSeq(a) \o FlattenSeq(B(Len(b)))
  BY <1>6
<1>. HIDE DEF B
<1>. QED
  BY <1>5, <1>7

\* The first n sequences of some, flattened.
Flat(seqs, n) == FlattenSeq(SubSeq(seqs, 1, n))

\* From one to the next.
LEMMA FlatStep ==
    ASSUME NEW V, NEW seqs \in Seq(Seq(V))
    PROVE  /\ Flat(seqs, 0) = <<>> /\ Flat(seqs, Len(seqs)) = FlattenSeq(seqs)
           /\ \A n \in 0..Len(seqs) : Flat(seqs, n) \in Seq(V)
           /\ \A n \in 1..Len(seqs) : Flat(seqs, n) = Flat(seqs, n - 1) \o seqs[n]
<1>1. Flat(seqs, 0) = <<>>
  <2>1. SubSeq(seqs, 1, 0) = <<>>
    BY SubSeqEmpty
  <2>. QED
    BY <2>1, FlatNone DEF Flat
<1>2. Flat(seqs, Len(seqs)) = FlattenSeq(seqs)
  BY SubSeqFull DEF Flat
<1>3. ASSUME NEW n \in 0..Len(seqs) PROVE Flat(seqs, n) \in Seq(V)
  BY FirstN, FlatType DEF Flat
<1>4. ASSUME NEW n \in 1..Len(seqs) PROVE Flat(seqs, n) = Flat(seqs, n - 1) \o seqs[n]
  <2>1. n - 1 \in 0..Len(seqs) /\ seqs[n] \in Seq(V)
    BY LenProperties
  <2>2. SubSeq(seqs, 1, n - 1) \in Seq(Seq(V))
    BY <2>1, FirstN
  <2>. QED
    BY <2>1, <2>2, FirstNext, FlatAppend DEF Flat
<1>. QED
  BY <1>1, <1>2, <1>3, <1>4

\* Flattening twice is flattening the parts first.
LEMMA FlatTwice ==
    ASSUME NEW V, NEW css \in Seq(Seq(Seq(V))), NEW bs \in Seq(Seq(V)), Len(bs) = Len(css),
           \A i \in 1..Len(css) : bs[i] = FlattenSeq(css[i])
    PROVE  FlattenSeq(FlattenSeq(css)) = FlattenSeq(bs)
<1>. DEFINE T == {n \in 0..Len(css) : FlattenSeq(Flat(css, n)) = Flat(bs, n)}
<1>1. Len(css) \in Nat
  BY LenProperties
<1>2. 0 \in T
  <2>1. Flat(css, 0) = <<>> /\ Flat(bs, 0) = <<>> /\ 0 \in 0..Len(css)
    <3>. DEFINE W == Seq(V)
    <3>1. css \in Seq(Seq(W))
      OBVIOUS
    <3>. HIDE DEF W
    <3>2. Flat(css, 0) = <<>>
      BY <3>1, FlatStep
    <3>3. Flat(bs, 0) = <<>>
      BY FlatStep
    <3>. QED
      BY <1>1, <3>2, <3>3
  <2>2. FlattenSeq(Flat(css, 0)) = Flat(bs, 0)
    BY <2>1, FlatNone
  <2>. QED
    BY <2>1, <2>2
<1>3. ASSUME NEW n \in 0..Len(css), n > 0, n - 1 \in T PROVE n \in T
  <2>1. n \in 1..Len(css) /\ n \in 1..Len(bs) /\ n - 1 \in 0..Len(css) /\ css[n] \in Seq(Seq(V))
    BY <1>1, <1>3, LenProperties
  <2>2. Flat(css, n) = Flat(css, n - 1) \o css[n] /\ Flat(css, n - 1) \in Seq(Seq(V))
    BY <2>1, FlatStep
  <2>3. Flat(bs, n) = Flat(bs, n - 1) \o bs[n]
    BY <2>1, FlatStep
  <2>4. FlattenSeq(Flat(css, n)) = FlattenSeq(Flat(css, n - 1)) \o FlattenSeq(css[n])
    BY <2>1, <2>2, FlatConcat
  <2>. QED
    BY <1>3, <2>1, <2>3, <2>4
<1>4. T = 0..Len(css)
  <2>1. T \in SUBSET (0..Len(css))
    OBVIOUS
  <2>. HIDE DEF T
  <2>. QED
    BY <1>1, <1>2, <1>3, <2>1, UpTo
<1>5. FlattenSeq(Flat(css, Len(css))) = Flat(bs, Len(css))
  BY <1>1, <1>4
<1>. QED
  BY <1>5, FlatStep

-----------------------------------------------------------------------------
(* Decoders.  d is a function of the bytes that are left.                  *)

\* What is answered for bytes that are cut; the second is of an ObjectId alone.
CutErrors == {"UnexpectedLength", "UnexpectedEof"}

\* d reads w from b: it leaves what follows b, and misses what b lacks.
Reads(d, b, w) ==
    /\ \A t \in Seq(Byte) : d[b \o t] = Got(w, t)
    /\ \A n \in 0..Len(b) - 1 : d[SubSeq(b, 1, n)].err \in CutErrors

\* The machine of the reader has no room for what b encodes.
Refuses(d, b) == \A t \in Seq(Byte) : d[b \o t].err \in {"Overflow", "ZeroSized"}

\* d answers for b as it should, ok being whether the reader has room for w.
Codes(d, b, ok, w) == (ok => Reads(d, b, w)) /\ (~ok => Refuses(d, b))

\* Errors of writers, which no serialization ends with.
Reserved == {"none yet", "ok", "WriteZero", "Io", "OutOfMemory"}

\* An encoding is buffers of bytes and an error that no writer answers with.
IsEnc(e) == e.chunks \in Seq(Seq(Byte)) /\ e.err \notin Reserved

\* What is written as e is read as w by d, or refused.
Fits(e, d, ok, w) == IsEnc(e) /\ (e.err = "none" => Codes(d, Bytes(e), ok, w))

\* d makes w of the w1 that d1 reads.
Follows(d, d1, w1, w) ==
    \A s \in Seq(Byte) :
        /\ d1[s].err # "none" => d[s].err = d1[s].err
        /\ \A r \in Seq(Byte) : d1[s] = Got(w1, r) => d[s] = Got(w, r)

\* d makes w of the w1 that d1 reads and the w2 that d2 reads behind it.
Link(d, d1, w1, d2, w2, w) ==
    \A s \in Seq(Byte) :
        /\ d1[s].err # "none" => d[s].err = d1[s].err
        /\ \A r \in Seq(Byte) : d1[s] = Got(w1, r) =>
             /\ d2[r].err # "none" => d[s].err = d2[r].err
             /\ \A q \in Seq(Byte) : d2[r] = Got(w2, q) => d[s] = Got(w, q)

\* The bytes of an encoding are bytes.
LEMMA EncBytes == ASSUME NEW e, IsEnc(e) PROVE Bytes(e) \in Seq(Byte)
BY FlatType DEF IsEnc, Bytes

\* The bytes of a part behind another.
LEMMA ThenBytes ==
    ASSUME NEW a, IsEnc(a), NEW b, IsEnc(b)
    PROVE  /\ IsEnc(Then(a, b))
           /\ Then(a, b).err = "none" <=> a.err = "none" /\ b.err = "none"
           /\ Then(a, b).err = "none" => Bytes(Then(a, b)) = Bytes(a) \o Bytes(b)
<1>1. CASE a.err # "none"
  BY <1>1 DEF Then
<1>2. CASE a.err = "none"
  <2>1. Then(a, b).chunks = a.chunks \o b.chunks /\ Then(a, b).err = b.err
    BY <1>2 DEF Then
  <2>2. a.chunks \o b.chunks \in Seq(Seq(Byte))
    <3>. DEFINE W == Seq(Byte)
    <3>1. a.chunks \in Seq(W) /\ b.chunks \in Seq(W)
      BY DEF IsEnc
    <3>. HIDE DEF W
    <3>2. a.chunks \o b.chunks \in Seq(W)
      BY <3>1, ConcatProperties
    <3>. QED
      BY <3>2 DEF W
  <2>3. FlattenSeq(a.chunks \o b.chunks) = FlattenSeq(a.chunks) \o FlattenSeq(b.chunks)
    BY FlatConcat DEF IsEnc
  <2>. QED
    BY <1>2, <2>1, <2>2, <2>3 DEF IsEnc, Bytes
<1>. QED
  BY <1>1, <1>2

\* A beginning of two sequences is one of the first, or goes into the second.
LEMMA ConcatFirst ==
    ASSUME NEW V, NEW a \in Seq(V), NEW b \in Seq(V), NEW n \in 0..(Len(a) + Len(b)) - 1
    PROVE  /\ n < Len(a) => SubSeq(a \o b, 1, n) = SubSeq(a, 1, n) /\ n \in 0..Len(a) - 1
           /\ n >= Len(a) => /\ SubSeq(a \o b, 1, n) = a \o SubSeq(b, 1, n - Len(a))
                             /\ n - Len(a) \in 0..Len(b) - 1
<1>1. /\ Len(a) \in Nat /\ Len(b) \in Nat /\ a \o b \in Seq(V) /\ Len(a \o b) = Len(a) + Len(b)
      /\ \A i \in 1..Len(a) + Len(b) : (a \o b)[i] = IF i <= Len(a) THEN a[i] ELSE b[i - Len(a)]
  BY LenProperties, ConcatProperties
<1>2. n \in Nat /\ n \in 0..Len(a \o b)
  BY <1>1
<1>. DEFINE c == SubSeq(a \o b, 1, n)
<1>3. c \in Seq(V) /\ Len(c) = n /\ \A i \in 1..n : c[i] = (a \o b)[i]
  BY <1>1, <1>2, FirstN
<1>4. CASE n < Len(a)
  <2>. DEFINE x == SubSeq(a, 1, n)
  <2>1. n \in 0..Len(a) /\ n \in 0..Len(a) - 1
    BY <1>1, <1>2, <1>4
  <2>2. x \in Seq(V) /\ Len(x) = n /\ \A i \in 1..n : x[i] = a[i]
    BY <2>1, FirstN
  <2>. HIDE DEF c, x
  <2>3. \A i \in 1..n : c[i] = x[i]
    BY <1>1, <1>2, <1>3, <1>4, <2>2
  <2>4. c = x
    BY <1>3, <2>2, <2>3, SeqEqual
  <2>. QED
    BY <1>4, <2>1, <2>4 DEF c, x
<1>5. CASE n >= Len(a)
  <2>. DEFINE m == n - Len(a)
              y == SubSeq(b, 1, m)
              x == a \o y
  <2>1. m \in 0..Len(b) /\ m \in 0..Len(b) - 1 /\ Len(a) + m = n
    BY <1>1, <1>2, <1>5
  <2>. HIDE DEF m
  <2>2. y \in Seq(V) /\ Len(y) = m /\ \A i \in 1..m : y[i] = b[i]
    BY <2>1, FirstN
  <2>. HIDE DEF y
  <2>3. x \in Seq(V) /\ Len(x) = n /\ \A i \in 1..n : x[i] = IF i <= Len(a) THEN a[i] ELSE y[i - Len(a)]
    BY <2>1, <2>2, ConcatProperties
  <2>. HIDE DEF c, x
  <2>4. ASSUME NEW i \in 1..n PROVE c[i] = x[i]
    <3>1. CASE i <= Len(a)
      BY <1>1, <1>2, <1>3, <2>3, <3>1
    <3>2. CASE i > Len(a)
      <4>1. i - Len(a) \in 1..m /\ i \in 1..Len(a) + Len(b)
        BY <1>1, <1>2, <2>1, <3>2
      <4>. QED
        BY <1>1, <1>3, <2>2, <2>3, <3>2, <4>1
    <3>. QED
      BY <1>1, <1>2, <3>1, <3>2
  <2>5. c = x
    BY <1>3, <2>3, <2>4, SeqEqual
  <2>. QED
    BY <1>1, <1>2, <1>5, <2>1, <2>5 DEF c, x, y, m
<1>. QED
  BY <1>1, <1>2, <1>4, <1>5

\* One decoder behind another.
LEMMA CodesBoth ==
    ASSUME NEW d, NEW d1, NEW d2, NEW w, NEW w1, NEW w2, Link(d, d1, w1, d2, w2, w),
           NEW ok1, NEW ok2, NEW b1 \in Seq(Byte), NEW b2 \in Seq(Byte),
           Codes(d1, b1, ok1, w1), Codes(d2, b2, ok2, w2)
    PROVE  Codes(d, b1 \o b2, ok1 /\ ok2, w)
<1>. DEFINE b == b1 \o b2
<1>1. b \in Seq(Byte) /\ Len(b) = Len(b1) + Len(b2)
  BY ConcatProperties
<1>2. \A t \in Seq(Byte) : b2 \o t \in Seq(Byte) /\ b \o t = b1 \o (b2 \o t)
  BY ConcatProperties, ConcatAssociative
<1>3. \A t \in Seq(Byte) : b \o t \in Seq(Byte)
  BY <1>1, ConcatProperties
<1>4. CASE ok1 /\ ok2
  <2>1. Reads(d1, b1, w1) /\ Reads(d2, b2, w2)
    BY <1>4 DEF Codes
  <2>2. ASSUME NEW t \in Seq(Byte) PROVE d[b \o t] = Got(w, t)
    <3>1. d1[b \o t] = Got(w1, b2 \o t)
      BY <1>2, <2>1 DEF Reads
    <3>2. d2[b2 \o t] = Got(w2, t)
      BY <2>1 DEF Reads
    <3>3. b \o t \in Seq(Byte) /\ b2 \o t \in Seq(Byte)
      BY <1>2, <1>3
    <3>. HIDE DEF b
    <3>. QED
      BY <3>1, <3>2, <3>3 DEF Link
  <2>3. ASSUME NEW n \in 0..Len(b) - 1 PROVE d[SubSeq(b, 1, n)].err \in CutErrors
    <3>. DEFINE s == SubSeq(b, 1, n)
    <3>1. s \in Seq(Byte)
      <4>1. n \in 0..Len(b)
        BY <1>1, LenProperties
      <4>. HIDE DEF b
      <4>. QED
        BY <1>1, <4>1, FirstN
    <3>2. n \in 0..(Len(b1) + Len(b2)) - 1 /\ Len(b1) \in Nat /\ Len(b2) \in Nat
      BY <1>1, LenProperties
    <3>3. CASE n < Len(b1)
      <4>1. s = SubSeq(b1, 1, n) /\ n \in 0..Len(b1) - 1
        BY <3>2, <3>3, ConcatFirst
      <4>2. d1[s].err \in CutErrors
        BY <2>1, <4>1 DEF Reads
      <4>. HIDE DEF s
      <4>3. d1[s].err # "none" => d[s].err = d1[s].err
        BY <3>1 DEF Link
      <4>4. d[s].err \in CutErrors
        BY <4>2, <4>3 DEF CutErrors
      <4>. QED
        BY <4>4 DEF s
    <3>4. CASE n >= Len(b1)
      <4>. DEFINE m == n - Len(b1)
                  r == SubSeq(b2, 1, m)
      <4>1. s = b1 \o r /\ m \in 0..Len(b2) - 1
        BY <3>2, <3>4, ConcatFirst
      <4>2. r \in Seq(Byte)
        <5>1. m \in 0..Len(b2)
          BY <3>2, <4>1
        <5>. HIDE DEF m
        <5>. QED
          BY <5>1, FirstN
      <4>3. d1[s] = Got(w1, r)
        BY <2>1, <4>1, <4>2 DEF Reads
      <4>4. d2[r].err \in CutErrors
        <5>. HIDE DEF m
        <5>. QED
          BY <2>1, <4>1 DEF Reads
      <4>. HIDE DEF r, s
      <4>5. d2[r].err # "none" => d[s].err = d2[r].err
        BY <3>1, <4>2, <4>3 DEF Link
      <4>6. d[s].err \in CutErrors
        BY <4>4, <4>5 DEF CutErrors
      <4>. QED
        BY <4>6 DEF s
    <3>. QED
      BY <3>2, <3>3, <3>4
  <2>. QED
    BY <1>4, <2>2, <2>3 DEF Codes, Reads
<1>5. CASE ~ok1
  <2>1. ASSUME NEW t \in Seq(Byte) PROVE d[b \o t].err \in {"Overflow", "ZeroSized"}
    <3>1. d1[b \o t].err \in {"Overflow", "ZeroSized"}
      BY <1>2, <1>5 DEF Codes, Refuses
    <3>. HIDE DEF b
    <3>2. b \o t \in Seq(Byte)
      BY <1>3
    <3>. QED
      BY <3>1, <3>2 DEF Link
  <2>. QED
    BY <1>5, <2>1 DEF Codes, Refuses
<1>6. CASE ok1 /\ ~ok2
  <2>1. ASSUME NEW t \in Seq(Byte) PROVE d[b \o t].err \in {"Overflow", "ZeroSized"}
    <3>1. d1[b \o t] = Got(w1, b2 \o t)
      BY <1>2, <1>6 DEF Codes, Reads
    <3>2. d2[b2 \o t].err \in {"Overflow", "ZeroSized"}
      BY <1>6 DEF Codes, Refuses
    <3>. HIDE DEF b
    <3>3. b \o t \in Seq(Byte) /\ b2 \o t \in Seq(Byte)
      BY <1>2, <1>3
    <3>. QED
      BY <3>1, <3>2, <3>3 DEF Link
  <2>. QED
    BY <1>6, <2>1 DEF Codes, Refuses
<1>. QED
  BY <1>4, <1>5, <1>6

\* A value made of another.
LEMMA CodesAfter ==
    ASSUME NEW d, NEW d1, NEW w, NEW w1, Follows(d, d1, w1, w),
           NEW ok, NEW b \in Seq(Byte), Codes(d1, b, ok, w1)
    PROVE  Codes(d, b, ok, w)
<1>1. \A t \in Seq(Byte) : b \o t \in Seq(Byte)
  BY ConcatProperties
<1>2. \A n \in 0..Len(b) - 1 : SubSeq(b, 1, n) \in Seq(Byte)
  <2>1. \A n \in 0..Len(b) - 1 : n \in 0..Len(b)
    BY LenProperties
  <2>. QED
    BY <2>1, FirstN
<1>3. CASE ok
  BY <1>1, <1>2, <1>3 DEF Codes, Reads, Follows, CutErrors
<1>4. CASE ~ok
  <2>1. ASSUME NEW t \in Seq(Byte) PROVE d[b \o t].err \in {"Overflow", "ZeroSized"}
    BY <1>1, <1>4 DEF Codes, Refuses, Follows
  <2>. QED
    BY <1>4, <2>1 DEF Codes, Refuses
<1>. QED
  BY <1>3, <1>4

\* Two parts, the second behind the first: what is serialized fits what is read when
\* each part does.
LEMMA FitsBoth ==
    ASSUME NEW d, NEW d1, NEW d2, NEW w, NEW w1, NEW w2, Link(d, d1, w1, d2, w2, w),
           NEW e1, NEW e2, NEW ok1, NEW ok2, Fits(e1, d1, ok1, w1), Fits(e2, d2, ok2, w2)
    PROVE  Fits(Then(e1, e2), d, ok1 /\ ok2, w)
<1>. DEFINE e == Then(e1, e2)
<1>1. IsEnc(e1) /\ IsEnc(e2)
  BY DEF Fits
<1>2. IsEnc(e)
  BY <1>1, ThenBytes
<1>3. ASSUME e.err = "none" PROVE Codes(d, Bytes(e), ok1 /\ ok2, w)
  <2>1. e1.err = "none" /\ e2.err = "none" /\ Bytes(e) = Bytes(e1) \o Bytes(e2)
    BY <1>1, <1>3, ThenBytes
  <2>2. Codes(d1, Bytes(e1), ok1, w1) /\ Codes(d2, Bytes(e2), ok2, w2)
    BY <2>1 DEF Fits
  <2>3. Bytes(e1) \in Seq(Byte) /\ Bytes(e2) \in Seq(Byte)
    BY <1>1, EncBytes
  <2>4. Codes(d, Bytes(e1) \o Bytes(e2), ok1 /\ ok2, w)
    BY <2>2, <2>3, CodesBoth
  <2>. QED
    BY <2>1, <2>4
<1>. QED
  BY <1>2, <1>3 DEF Fits

\* One part, whose value is turned into another one.
LEMMA FitsAfter ==
    ASSUME NEW d, NEW d1, NEW w, NEW w1, Follows(d, d1, w1, w),
           NEW ok, NEW e, Fits(e, d1, ok, w1)
    PROVE  Fits(e, d, ok, w)
BY EncBytes, CodesAfter DEF Fits

-----------------------------------------------------------------------------
(* Parts in sequence.                                                      *)

\* A function on 1..n is a sequence of what it yields.
LEMMA FunctionInSeq ==
    ASSUME NEW n \in Nat, NEW V, NEW s, s = [i \in 1..n |-> s[i]], \A i \in 1..n : s[i] \in V
    PROVE  s \in Seq(V) /\ Len(s) = n
<1>1. IsSeq(s) /\ Len(s) = n
  BY FunctionIsSeq
<1>2. ToSet(s) \subseteq V
  BY DEF ToSet
<1>. QED
  BY <1>1, <1>2, SeqMonotonic DEF IsSeq

\* Min of a set of natural numbers.
LEMMA LeastIs ==
    ASSUME NEW S \in SUBSET Nat, S # {}
    PROVE  Min(S) \in S /\ \A k \in S : Min(S) <= k
BY LeastNumber DEF Min

\* What is written is what the parts write, when none fails.
LEMMA InSequenceIs ==
    ASSUME NEW n \in Nat, NEW parts, parts = [i \in 1..n |-> parts[i]],
           \A i \in 1..n : IsEnc(parts[i])
    PROVE  /\ IsEnc(InSequence(parts))
           /\ InSequence(parts).err = "none" <=> \A i \in 1..n : parts[i].err = "none"
           /\ InSequence(parts).err = "none" =>
                Bytes(InSequence(parts)) = FlattenSeq([i \in 1..n |-> Bytes(parts[i])])
<1>. DEFINE failing == {i \in DOMAIN parts : parts[i].err # "none"}
            m == IF failing = {} THEN Len(parts) ELSE Min(failing)
            css == [i \in 1..m |-> parts[i].chunks]
            bs == [i \in 1..n |-> Bytes(parts[i])]
<1>1. DOMAIN parts = 1..n /\ Len(parts) = n
  BY FunctionIsSeq
<1>2. /\ InSequence(parts).chunks = FlattenSeq(css)
      /\ InSequence(parts).err = IF failing = {} THEN "none" ELSE parts[m].err
  BY DEF InSequence
<1>3. failing # {} => m \in failing
  <2>1. failing \in SUBSET Nat
    BY <1>1
  <2>. HIDE DEF failing
  <2>. QED
    BY <2>1, LeastIs
<1>4. m \in 0..n /\ (failing = {} => m = n)
  <2>1. CASE failing = {}
    BY <1>1, <2>1
  <2>2. CASE failing # {}
    <3>1. m \in failing
      BY <1>3, <2>2
    <3>. HIDE DEF m
    <3>2. m \in 1..n
      BY <1>1, <3>1
    <3>. QED
      BY <2>2, <3>2
  <2>. QED
    BY <2>1, <2>2
<1>. HIDE DEF m
<1>5. css \in Seq(Seq(Seq(Byte))) /\ Len(css) = m
  <2>. DEFINE W == Seq(Seq(Byte))
  <2>0. \A i \in 1..m : i \in 1..n
    BY <1>4
  <2>1. \A i \in 1..m : css[i] \in W
    BY <2>0 DEF IsEnc
  <2>2. css = [i \in 1..m |-> css[i]] /\ m \in Nat
    BY <1>4
  <2>. HIDE DEF W, css
  <2>3. css \in Seq(W) /\ Len(css) = m
    BY <2>1, <2>2, FunctionInSeq
  <2>. QED
    BY <2>3 DEF W
<1>6. FlattenSeq(css) \in Seq(Seq(Byte))
  <2>. DEFINE W == Seq(Byte)
  <2>1. css \in Seq(Seq(W))
    BY <1>5
  <2>. HIDE DEF W, css
  <2>2. FlattenSeq(css) \in Seq(W)
    BY <2>1, FlatType
  <2>. QED
    BY <2>2 DEF W
<1>7. InSequence(parts).err \notin Reserved
  <2>1. CASE failing = {}
    BY <1>2, <2>1 DEF Reserved
  <2>2. CASE failing # {}
    BY <1>1, <1>2, <1>3, <2>2 DEF IsEnc
  <2>. QED
    BY <2>1, <2>2
<1>8. InSequence(parts).err = "none" <=> failing = {}
  BY <1>2, <1>3
<1>9. failing = {} <=> \A i \in 1..n : parts[i].err = "none"
  BY <1>1
<1>10. ASSUME failing = {} PROVE FlattenSeq(FlattenSeq(css)) = FlattenSeq(bs)
  <2>1. m = n
    BY <1>4, <1>10
  <2>2. \A i \in 1..n : bs[i] = FlattenSeq(css[i]) /\ bs[i] \in Seq(Byte)
    BY <2>1, EncBytes DEF Bytes
  <2>3. bs = [i \in 1..n |-> bs[i]]
    OBVIOUS
  <2>4. bs \in Seq(Seq(Byte)) /\ Len(bs) = n
    <3>. DEFINE W == Seq(Byte)
    <3>. HIDE DEF bs
    <3>1. \A i \in 1..n : bs[i] \in W
      BY <2>2
    <3>. HIDE DEF W
    <3>2. bs \in Seq(W) /\ Len(bs) = n
      BY <2>3, <3>1, FunctionInSeq
    <3>. QED
      BY <3>2 DEF W
  <2>. HIDE DEF bs, css
  <2>5. Len(bs) = Len(css) /\ \A i \in 1..Len(css) : bs[i] = FlattenSeq(css[i])
    BY <1>5, <2>1, <2>2, <2>4
  <2>. QED
    BY <1>5, <2>4, <2>5, FlatTwice
<1>. QED
  BY <1>2, <1>6, <1>7, <1>8, <1>9, <1>10 DEF IsEnc, Bytes

\* The first m decoders, and one step of DecEach.
FirstOf(ds, m) == [i \in 1..m |-> ds[i]]
EachStep(r, d) ==
    IF r.err = "none"
    THEN IF d[r.rest].err = "none" THEN Got(Append(r.val, d[r.rest].val), d[r.rest].rest)
         ELSE d[r.rest]
    ELSE r

\* What DecEach reads is read step by step.
IsEach(ds, n, s, f) ==
    /\ f[0] = Got(<<>>, s)
    /\ \A i \in 1..n : f[i] = EachStep(f[i - 1], ds[i])

\* DecEach is the last of such answers.
HasEach(ds, es, n, s) == \E f : IsEach(ds, n, s, f) /\ DecEach(es, s) = f[n]

\* DecEach goes from decoder to decoder.
LEMMA EachIs ==
    ASSUME NEW n \in Nat, NEW ds, ds = [i \in 1..n |-> ds[i]], NEW s
    PROVE  HasEach(ds, ds, n, s)
<1>. DEFINE Body(f, i) == IF i = 0 THEN Got(<<>>, s) ELSE EachStep(f[i - 1], ds[i])
            On(m, f) == f = [i \in 0..m |-> Body(f, i)]
            T == {m \in 0..n : \E f : On(m, f)}
<1>1. Len(ds) = n
  BY FunctionIsSeq
<1>2. DecEach(ds, s) = (CHOOSE f : On(n, f))[n]
  BY <1>1 DEF DecEach, EachStep, AndThen, Map, IsOk
<1>3. 0 \in T
  <2>. DEFINE f == [i \in 0..0 |-> Got(<<>>, s)]
  <2>0. f[0] = Got(<<>>, s) /\ \A i \in 0..0 : i = 0
    OBVIOUS
  <2>1. On(0, f)
    <3>1. f = [i \in 0..0 |-> f[i]]
      OBVIOUS
    <3>. HIDE DEF f
    <3>. QED
      BY <2>0, <3>1
  <2>2. \E g : On(0, g)
    <3>. HIDE DEF On, f
    <3>. QED
      BY <2>1
  <2>. QED
    BY <2>2
<1>4. ASSUME NEW m \in 0..n, m > 0, m - 1 \in T PROVE m \in T
  <2>1. PICK g : On(m - 1, g)
    BY <1>4
  <2>. DEFINE f == [i \in 0..m |-> IF i < m THEN g[i] ELSE Body(g, m)]
  <2>2. ASSUME NEW i \in 0..m PROVE f[i] = Body(f, i)
    <3>1. CASE i = 0
      <4>1. g[0] = Got(<<>>, s)
        BY <1>4, <2>1
      <4>. QED
        BY <1>4, <3>1, <4>1
    <3>2. CASE i # 0
      <4>1. i - 1 \in 0..m /\ i - 1 < m
        BY <3>2
      <4>2. f[i - 1] = g[i - 1]
        BY <4>1
      <4>3. CASE i < m
        <5>1. i \in 0..(m - 1)
          BY <4>3
        <5>2. g[i] = Body(g, i)
          <6>. HIDE DEF Body
          <6>. QED
            BY <2>1, <5>1
        <5>3. f[i] = g[i]
          BY <4>3
        <5>. QED
          BY <3>2, <4>2, <5>2, <5>3
      <4>4. CASE i = m
        <5>1. f[i] = Body(g, m)
          BY <4>4
        <5>. QED
          BY <3>2, <4>2, <4>4, <5>1
      <4>. QED
        BY <4>3, <4>4
    <3>. QED
      BY <3>1, <3>2
  <2>3. On(m, f)
    <3>1. f = [i \in 0..m |-> f[i]]
      OBVIOUS
    <3>. HIDE DEF f, Body
    <3>. QED
      BY <2>2, <3>1
  <2>. QED
    BY <2>3
<1>5. T = 0..n
  <2>1. T \in SUBSET (0..n)
    OBVIOUS
  <2>. HIDE DEF T
  <2>. QED
    BY <1>3, <1>4, <2>1, UpTo
<1>6. \E f : On(n, f)
  BY <1>5
<1>. DEFINE h == CHOOSE f : On(n, f)
<1>7. On(n, h)
  <2>. HIDE DEF On
  <2>. QED
    BY <1>6
<1>8. IsEach(ds, n, s, h)
  <2>1. ASSUME NEW i \in 0..n PROVE h[i] = Body(h, i)
    <3>. HIDE DEF h, Body
    <3>. QED
      BY <1>7
  <2>. HIDE DEF h
  <2>2. h[0] = Got(<<>>, s)
    BY <2>1
  <2>3. ASSUME NEW i \in 1..n PROVE h[i] = EachStep(h[i - 1], ds[i])
    <3>1. i \in 0..n /\ i # 0
      OBVIOUS
    <3>. QED
      BY <2>1, <3>1
  <2>. QED
    BY <2>2, <2>3 DEF IsEach
<1>. HIDE DEF h, On
<1>9. DecEach(ds, s) = h[n]
  BY <1>2 DEF h
<1>. QED
  BY <1>8, <1>9 DEF HasEach

\* The first m decoders are the first m - 1 and the m-th.
LEMMA EachUnfold ==
    ASSUME NEW n \in Nat, NEW ds, NEW s
    PROVE  /\ DecEach(FirstOf(ds, 0), s) = Got(<<>>, s)
           /\ \A m \in 1..n : DecEach(FirstOf(ds, m), s) =
                                EachStep(DecEach(FirstOf(ds, m - 1), s), ds[m])
<1>1. ASSUME NEW m \in Nat
      PROVE  \E f : IsEach(ds, m, s, f) /\ DecEach(FirstOf(ds, m), s) = f[m]
  <2>. DEFINE es == FirstOf(ds, m)
  <2>1. es = [i \in 1..m |-> es[i]] /\ \A i \in 1..m : es[i] = ds[i]
    BY DEF FirstOf
  <2>. HIDE DEF es
  <2>2. PICK f : IsEach(es, m, s, f) /\ DecEach(es, s) = f[m]
    <3>1. HasEach(es, es, m, s)
      BY <2>1, EachIs
    <3>. QED
      BY <3>1 DEF HasEach
  <2>3. IsEach(ds, m, s, f)
    <3>1. f[0] = Got(<<>>, s) /\ \A i \in 1..m : f[i] = EachStep(f[i - 1], es[i])
      BY <2>2 DEF IsEach
    <3>2. ASSUME NEW i \in 1..m PROVE f[i] = EachStep(f[i - 1], ds[i])
      BY <2>1, <3>1
    <3>. QED
      BY <3>1, <3>2 DEF IsEach
  <2>. QED
    BY <2>2, <2>3 DEF es
<1>2. DecEach(FirstOf(ds, 0), s) = Got(<<>>, s)
  BY <1>1 DEF IsEach
<1>3. ASSUME NEW m \in 1..n
      PROVE  DecEach(FirstOf(ds, m), s) = EachStep(DecEach(FirstOf(ds, m - 1), s), ds[m])
  <2>1. m \in Nat /\ m - 1 \in Nat
    OBVIOUS
  <2>2. PICK f : IsEach(ds, m, s, f) /\ DecEach(FirstOf(ds, m), s) = f[m]
    BY <1>1, <2>1
  <2>3. PICK g : IsEach(ds, m - 1, s, g) /\ DecEach(FirstOf(ds, m - 1), s) = g[m - 1]
    BY <1>1, <2>1
  <2>. DEFINE T == {i \in 0..(m - 1) : f[i] = g[i]}
  <2>4. T = 0..(m - 1)
    <3>1. 0 \in T
      BY <2>1, <2>2, <2>3 DEF IsEach
    <3>2. ASSUME NEW i \in 0..(m - 1), i > 0, i - 1 \in T PROVE i \in T
      <4>1. i \in 1..m /\ i \in 1..(m - 1) /\ f[i - 1] = g[i - 1]
        BY <3>2
      <4>2. f[i] = EachStep(f[i - 1], ds[i]) /\ g[i] = EachStep(g[i - 1], ds[i])
        BY <2>2, <2>3, <4>1 DEF IsEach
      <4>. QED
        BY <4>1, <4>2
    <3>3. T \in SUBSET (0..(m - 1))
      OBVIOUS
    <3>. HIDE DEF T
    <3>. QED
      BY <2>1, <3>1, <3>2, <3>3, UpTo
  <2>5. f[m - 1] = g[m - 1]
    BY <2>1, <2>4
  <2>. QED
    BY <2>2, <2>3, <2>5 DEF IsEach
<1>. QED
  BY <1>2, <1>3

\* A function on nothing is the empty sequence.
LEMMA FirstNone == ASSUME NEW ws PROVE FirstOf(ws, 0) = <<>>
<1>. DEFINE s == FirstOf(ws, 0)
<1>1. s = [i \in 1..0 |-> s[i]]
  BY DEF FirstOf
<1>. HIDE DEF s
<1>2. IsSeq(s) /\ Len(s) = 0
  BY <1>1, FunctionIsSeq
<1>3. s = <<>>
  BY <1>2, EmptySeq DEF IsSeq
<1>. QED
  BY <1>3 DEF s

\* The first elements of a function, and one more.
LEMMA FirstAppend ==
    ASSUME NEW ws, NEW m \in Nat \ {0}
    PROVE  Append(FirstOf(ws, m - 1), ws[m]) = FirstOf(ws, m)
<1>. DEFINE a == FirstOf(ws, m - 1)
            b == FirstOf(ws, m)
            c == Append(a, ws[m])
<1>1. a = [i \in 1..(m - 1) |-> a[i]] /\ b = [i \in 1..m |-> b[i]]
  BY DEF FirstOf
<1>2. (\A i \in 1..(m - 1) : a[i] = ws[i]) /\ (\A i \in 1..m : b[i] = ws[i])
  BY DEF FirstOf
<1>. HIDE DEF a, b
<1>3. IsSeq(a) /\ Len(a) = m - 1 /\ IsSeq(b) /\ Len(b) = m
  BY <1>1, FunctionIsSeq
<1>4. IsSeq(c) /\ Len(c) = m /\ (\A i \in 1..(m - 1) : c[i] = a[i]) /\ c[m] = ws[m]
  BY <1>3, AppendIs
<1>. HIDE DEF c
<1>5. \A i \in 1..m : c[i] = b[i]
  BY <1>2, <1>4
<1>6. c = b
  BY <1>3, <1>4, <1>5, SameSeq
<1>. QED
  BY <1>6 DEF a, b, c

\* The fields of an answer.
LEMMA GotIs == \A v, r : Got(v, r).err = "none" /\ Got(v, r).val = v /\ Got(v, r).rest = r
BY DEF Got

\* The error of an answer.
LEMMA BadIs == \A e : Bad(e).err = e
BY DEF Bad

\* A decoder that fails ends it.
LEMMA EachStepGot ==
    ASSUME NEW a, NEW r, NEW d
    PROVE  d[r].err # "none" => EachStep(Got(a, r), d) = d[r]
BY GotIs DEF EachStep

\* One value more.
Push(vs, v) == Append(vs, v)

\* A decoder that succeeds adds its value.
LEMMA EachStepMore ==
    ASSUME NEW a, NEW r, NEW d, NEW v, NEW q, d[r] = Got(v, q)
    PROVE  EachStep(Got(a, r), d) = Got(Push(a, v), q)
BY GotIs DEF EachStep, Push

\* DecEach, as a function of the bytes.
EachOf(ds) == [s \in Seq(Byte) |-> DecEach(ds, s)]

\* One decoder more.
LEMMA EachLink ==
    ASSUME NEW n \in Nat, NEW ds, NEW ws, NEW m \in 1..n
    PROVE  Link(EachOf(FirstOf(ds, m)), EachOf(FirstOf(ds, m - 1)), FirstOf(ws, m - 1),
                ds[m], ws[m], FirstOf(ws, m))
<1>. DEFINE d == EachOf(FirstOf(ds, m))
            d1 == EachOf(FirstOf(ds, m - 1))
<1>1. ASSUME NEW s \in Seq(Byte) PROVE d[s] = EachStep(d1[s], ds[m])
  <2>1. DecEach(FirstOf(ds, m), s) = EachStep(DecEach(FirstOf(ds, m - 1), s), ds[m])
    BY EachUnfold
  <2>2. d[s] = DecEach(FirstOf(ds, m), s) /\ d1[s] = DecEach(FirstOf(ds, m - 1), s)
    BY DEF EachOf
  <2>. QED
    BY <2>1, <2>2
<1>2. Append(FirstOf(ws, m - 1), ws[m]) = FirstOf(ws, m)
  <2>1. m \in Nat \ {0}
    OBVIOUS
  <2>. QED
    BY <2>1, FirstAppend
<1>. HIDE DEF d, d1
<1>3. ASSUME NEW s \in Seq(Byte), d1[s].err # "none" PROVE d[s].err = d1[s].err
  BY <1>1, <1>3 DEF EachStep
<1>4. ASSUME NEW s \in Seq(Byte), NEW r \in Seq(Byte), d1[s] = Got(FirstOf(ws, m - 1), r),
             ds[m][r].err # "none"
      PROVE  d[s].err = ds[m][r].err
  BY <1>1, <1>4, EachStepGot
<1>5. ASSUME NEW s \in Seq(Byte), NEW r \in Seq(Byte), d1[s] = Got(FirstOf(ws, m - 1), r),
             NEW q \in Seq(Byte), ds[m][r] = Got(ws[m], q)
      PROVE  d[s] = Got(FirstOf(ws, m), q)
  <2>. DEFINE a == FirstOf(ws, m - 1)
              v == ws[m]
              dm == ds[m]
  <2>1. d[s] = EachStep(Got(a, r), dm)
    BY <1>1, <1>5
  <2>2. dm[r] = Got(v, q) /\ Push(a, v) = FirstOf(ws, m)
    BY <1>2, <1>5 DEF Push
  <2>. HIDE DEF a, v, dm
  <2>3. d[s] = Got(Push(a, v), q)
    BY <2>1, <2>2, EachStepMore
  <2>. QED
    BY <2>2, <2>3
<1>6. Link(d, d1, FirstOf(ws, m - 1), ds[m], ws[m], FirstOf(ws, m))
  BY <1>3, <1>4, <1>5 DEF Link
<1>. QED
  BY <1>6 DEF d, d1

\* Nothing is read from nothing.
LEMMA CodesNone ==
    ASSUME NEW d, NEW w, \A s \in Seq(Byte) : d[s] = Got(w, s)
    PROVE  Codes(d, <<>>, TRUE, w)
<1>1. \A t \in Seq(Byte) : <<>> \o t = t
  BY ConcatEmptySeq
<1>2. 0..Len(<<>>) - 1 = {}
  BY EmptySeq
<1>. QED
  BY <1>1, <1>2 DEF Codes, Reads

\* Decoders in sequence read what each one reads, in sequence.
LEMMA CodesEach ==
    ASSUME NEW n \in Nat, NEW ds, NEW ws, NEW ok \in SUBSET Nat, NEW bs \in Seq(Seq(Byte)), Len(bs) = n,
           \A i \in 1..n : Codes(ds[i], bs[i], i \in ok, ws[i])
    PROVE  Codes(EachOf(FirstOf(ds, n)), FlattenSeq(bs), 1..n \subseteq ok, FirstOf(ws, n))
<1>. DEFINE P(m) == Codes(EachOf(FirstOf(ds, m)), Flat(bs, m), 1..m \subseteq ok, FirstOf(ws, m))
            T == {m \in 0..n : P(m)}
<1>1. 0 \in T
  <2>. DEFINE d == EachOf(FirstOf(ds, 0))
  <2>1. \A s \in Seq(Byte) : d[s] = Got(<<>>, s)
    BY EachUnfold DEF EachOf
  <2>2. Flat(bs, 0) = <<>> /\ FirstOf(ws, 0) = <<>>
    BY FlatStep, FirstNone
  <2>3. 1..0 \subseteq ok
    OBVIOUS
  <2>. HIDE DEF d
  <2>4. Codes(d, <<>>, TRUE, <<>>)
    BY <2>1, CodesNone
  <2>5. Codes(d, Flat(bs, 0), 1..0 \subseteq ok, FirstOf(ws, 0))
    BY <2>2, <2>3, <2>4 DEF Codes
  <2>6. P(0)
    BY <2>5 DEF d
  <2>. HIDE DEF P
  <2>. QED
    BY <2>6
<1>2. ASSUME NEW m \in 0..n, m > 0, m - 1 \in T PROVE m \in T
  <2>1. m \in 1..n /\ m \in 1..Len(bs) /\ m - 1 \in 0..Len(bs) /\ P(m - 1)
    BY <1>2
  <2>2. Flat(bs, m) = Flat(bs, m - 1) \o bs[m] /\ Flat(bs, m - 1) \in Seq(Byte) /\ bs[m] \in Seq(Byte)
    BY <2>1, FlatStep, LenProperties
  <2>. DEFINE d == EachOf(FirstOf(ds, m))
              d1 == EachOf(FirstOf(ds, m - 1))
  <2>3. Link(d, d1, FirstOf(ws, m - 1), ds[m], ws[m], FirstOf(ws, m))
    BY <2>1, EachLink
  <2>4. Codes(d1, Flat(bs, m - 1), 1..(m - 1) \subseteq ok, FirstOf(ws, m - 1))
    BY <2>1
  <2>5. Codes(ds[m], bs[m], m \in ok, ws[m])
    BY <2>1
  <2>6. Codes(d, Flat(bs, m - 1) \o bs[m], 1..(m - 1) \subseteq ok /\ m \in ok, FirstOf(ws, m))
    <3>. DEFINE ok1 == 1..(m - 1) \subseteq ok
                ok2 == m \in ok
                w1 == FirstOf(ws, m - 1)
                w == FirstOf(ws, m)
                d2 == ds[m]
                w2 == ws[m]
                b1 == Flat(bs, m - 1)
                b2 == bs[m]
    <3>1. Codes(d1, b1, ok1, w1) /\ Codes(d2, b2, ok2, w2) /\ Link(d, d1, w1, d2, w2, w)
      BY <2>3, <2>4, <2>5
    <3>2. b1 \in Seq(Byte) /\ b2 \in Seq(Byte)
      BY <2>2
    <3>. HIDE DEF d, d1, ok1, ok2, w1, w, d2, w2, b1, b2
    <3>3. Codes(d, b1 \o b2, ok1 /\ ok2, w)
      BY <3>1, <3>2, CodesBoth
    <3>. QED
      BY <3>3 DEF ok1, ok2, w, b1, b2
  <2>7. (1..(m - 1) \subseteq ok /\ m \in ok) <=> 1..m \subseteq ok
    BY <2>1
  <2>8. Codes(d, Flat(bs, m), 1..m \subseteq ok, FirstOf(ws, m))
    <3>. HIDE DEF d
    <3>. QED
      BY <2>2, <2>6, <2>7 DEF Codes
  <2>9. P(m)
    BY <2>8
  <2>. HIDE DEF P
  <2>. QED
    BY <2>9
<1>3. T = 0..n
  <2>1. T \in SUBSET (0..n)
    OBVIOUS
  <2>. HIDE DEF T
  <2>. QED
    BY <1>1, <1>2, <2>1, UpTo
<1>4. P(n)
  <2>. HIDE DEF P
  <2>. QED
    BY <1>3
<1>. QED
  BY <1>4, FlatStep

\* Parts serialized in sequence fit decoders in sequence.
LEMMA FitsEach ==
    ASSUME NEW n \in Nat, NEW es, es = [i \in 1..n |-> es[i]], NEW ds, NEW ws, NEW ok \in SUBSET Nat,
           \A i \in 1..n : Fits(es[i], ds[i], i \in ok, ws[i])
    PROVE  Fits(InSequence(es), EachOf(FirstOf(ds, n)), 1..n \subseteq ok, FirstOf(ws, n))
<1>. DEFINE bs == [i \in 1..n |-> Bytes(es[i])]
<1>1. \A i \in 1..n : IsEnc(es[i])
  BY DEF Fits
<1>2. /\ IsEnc(InSequence(es))
      /\ InSequence(es).err = "none" <=> \A i \in 1..n : es[i].err = "none"
      /\ InSequence(es).err = "none" => Bytes(InSequence(es)) = FlattenSeq(bs)
  BY <1>1, InSequenceIs
<1>3. ASSUME InSequence(es).err = "none"
      PROVE  Codes(EachOf(FirstOf(ds, n)), FlattenSeq(bs), 1..n \subseteq ok, FirstOf(ws, n))
  <2>1. \A i \in 1..n : bs[i] = Bytes(es[i])
    OBVIOUS
  <2>2. \A i \in 1..n : Codes(ds[i], bs[i], i \in ok, ws[i])
    BY <1>2, <1>3, <2>1 DEF Fits
  <2>3. bs = [i \in 1..n |-> bs[i]]
    OBVIOUS
  <2>4. \A i \in 1..n : bs[i] \in Seq(Byte)
    BY <1>1, <2>1, EncBytes
  <2>5. bs \in Seq(Seq(Byte)) /\ Len(bs) = n
    <3>. DEFINE W == Seq(Byte)
    <3>1. \A i \in 1..n : bs[i] \in W
      BY <2>4
    <3>. HIDE DEF W, bs
    <3>2. bs \in Seq(W) /\ Len(bs) = n
      BY <2>3, <3>1, FunctionInSeq
    <3>. QED
      BY <3>2 DEF W
  <2>. HIDE DEF bs
  <2>. QED
    BY <2>2, <2>5, CodesEach
<1>. QED
  BY <1>2, <1>3 DEF Fits

-----------------------------------------------------------------------------
(* Numbers.                                                                *)

\* Products of natural numbers.
LEMMA Times ==
    ASSUME NEW d \in Nat, NEW j \in Nat, NEW k \in Nat
    PROVE  d * k \in Nat /\ (j <= k => d * j <= d * k) /\ (k >= 1 => d * k >= d)
<1>1. \A a, b \in Nat : a * b \in Nat
  OBVIOUS
<1>2. ASSUME j <= k PROVE d * j <= d * k
  <2>1. k - j \in Nat /\ d * k = d * j + d * (k - j)
    BY <1>2
  <2>2. d * (k - j) \in Nat
    BY <1>1, <2>1
  <2>3. d * j \in Nat /\ d * k \in Nat
    BY <1>1
  <2>. QED
    BY <2>1, <2>2, <2>3
<1>3. ASSUME k >= 1 PROVE d * k >= d
  <2>1. k - 1 \in Nat /\ d * k = d + d * (k - 1)
    BY <1>3
  <2>2. d * (k - 1) \in Nat
    BY <1>1, <2>1
  <2>. QED
    BY <2>1, <2>2
<1>. QED
  BY <1>1, <1>2, <1>3

\* Quotient and remainder.
LEMMA DivMod ==
    ASSUME NEW a \in Int, NEW d \in Nat \ {0}
    PROVE  a \div d \in Int /\ a % d \in 0..d - 1 /\ a = d * (a \div d) + (a % d)
OBVIOUS

\* Quotient and remainder are the only ones.
LEMMA DivUnique ==
    ASSUME NEW a \in Int, NEW d \in Nat \ {0}, NEW q \in Int, NEW r \in 0..d - 1, a = d * q + r
    PROVE  a \div d = q /\ a % d = r
<1>. DEFINE p == a \div d
            m == a % d
<1>1. p \in Int /\ m \in 0..d - 1 /\ a = d * p + m
  BY DivMod
<1>. HIDE DEF p, m
<1>2. ASSUME p > q PROVE FALSE
  <2>1. p - q \in Nat /\ p - q >= 1 /\ d * (p - q) = r - m
    BY <1>1, <1>2
  <2>2. d * (p - q) >= d
    BY <2>1, Times
  <2>. QED
    BY <1>1, <2>1, <2>2
<1>3. ASSUME q > p PROVE FALSE
  <2>1. q - p \in Nat /\ q - p >= 1 /\ d * (q - p) = m - r
    BY <1>1, <1>3
  <2>2. d * (q - p) >= d
    BY <2>1, Times
  <2>. QED
    BY <1>1, <2>1, <2>2
<1>4. p = q
  BY <1>1, <1>2, <1>3
<1>5. m = r
  BY <1>1, <1>4
<1>. QED
  BY <1>4, <1>5 DEF p, m

\* One digit more.
LEMMA OneDigit ==
    ASSUME NEW x \in Nat, NEW p \in Nat \ {0}, NEW B \in Nat \ {0}
    PROVE  x % (B * p) = (x % p) + ((x \div p) % B) * p
<1>. DEFINE q == x \div p
            r == x % p
            c == q \div B
            e == q % B
<1>1. q \in Int /\ r \in 0..p - 1 /\ x = p * q + r
  BY DivMod
<1>2. c \in Int /\ e \in 0..B - 1 /\ q = B * c + e
  <2>. HIDE DEF q, r
  <2>. QED
    BY <1>1, DivMod
<1>. HIDE DEF q, r, c, e
<1>3. x = (B * p) * c + (r + e * p)
  <2>1. p * (B * c + e) = (B * p) * c + e * p
    BY <1>2
  <2>. QED
    BY <1>1, <1>2, <2>1
<1>4. B * p \in Nat \ {0}
  <2>1. B * p \in Nat /\ B * p >= B
    BY Times
  <2>. QED
    BY <2>1
<1>5. r + e * p \in 0..(B * p) - 1
  <2>1. e * p \in Nat
    BY <1>2, Times
  <2>2. p * e <= p * (B - 1)
    BY <1>2, Times
  <2>3. p * (B - 1) = B * p - p /\ p * e = e * p
    BY <1>2
  <2>. QED
    BY <1>1, <1>4, <2>1, <2>2, <2>3
<1>6. x % (B * p) = r + e * p
  <2>. DEFINE d == B * p
              k == r + e * p
  <2>1. x = d * c + k /\ d \in Nat \ {0} /\ k \in 0..d - 1
    BY <1>3, <1>4, <1>5
  <2>. HIDE DEF d, k
  <2>2. x % d = k
    BY <1>2, <2>1, DivUnique
  <2>. QED
    BY <2>2 DEF d, k
<1>. QED
  BY <1>6 DEF q, r, e

\* The powers of the base.
LEMMA PowIs ==
    /\ Pow[0] = 1
    /\ \A n \in Nat : Pow[n] \in Nat \ {0} /\ Pow[n + 1] = Base * Pow[n]
<1>. DEFINE Body(f, n) == IF n = 0 THEN 1 ELSE Base * f[n - 1]
            step == [x \in Nat |-> Base * x]
            Is(f, n) == f \in [0..n -> Nat] /\ f[0] = 1 /\ \A i \in 1..n : f[i] = Base * f[i - 1]
            G(n) == CHOOSE f : Is(f, n)
            h == [n \in Nat |-> G(n)[n]]
<1>0. Base \in Nat /\ Base > 2
  BY WireAssumption
<1>1. \A n \in Nat : Is(G(n), n)
  <2>1. ASSUME NEW n \in Nat PROVE \E f : Is(f, n)
    <3>. DEFINE steps == [i \in 0..n |-> step]
    <3>1. step \in [Nat -> Nat]
      BY <1>0, Times
    <3>2. steps \in [0..n -> [Nat -> Nat]] /\ 1 \in Nat
      BY <3>1
    <3>3. \E f \in [0..n -> Nat] : Steps(f, n, 1, steps)
      <4>. HIDE DEF steps
      <4>. QED
        BY <3>2, PrefixRecursion
    <3>4. PICK f \in [0..n -> Nat] : Steps(f, n, 1, steps)
      BY <3>3
    <3>5. ASSUME NEW i \in 1..n PROVE f[i] = Base * f[i - 1]
      <4>1. f[i - 1] \in Nat /\ i \in 0..n
        OBVIOUS
      <4>2. f[i] = steps[i][f[i - 1]]
        <5>. HIDE DEF steps
        <5>. QED
          BY <3>4 DEF Steps
      <4>. QED
        BY <4>1, <4>2
    <3>6. f[0] = 1
      BY <3>4 DEF Steps
    <3>. QED
      BY <3>5, <3>6
  <2>. HIDE DEF Is
  <2>2. ASSUME NEW n \in Nat PROVE Is(G(n), n)
    <3>1. \E f : Is(f, n)
      BY <2>1
    <3>. QED
      BY <3>1, Zenon
  <2>. HIDE DEF G
  <2>. QED
    BY <2>2
<1>. HIDE DEF G
<1>2. ASSUME NEW n \in Nat, NEW m \in Nat, m <= n PROVE G(n)[m] = G(m)[m]
  <2>. DEFINE T == {i \in 0..m : G(n)[i] = G(m)[i]}
  <2>1. 0 \in T
    <3>1. G(n)[0] = 1 /\ G(m)[0] = 1
      BY <1>1
    <3>2. 0 \in 0..m
      BY <1>2
    <3>. QED
      BY <3>1, <3>2
  <2>2. ASSUME NEW i \in 0..m, i > 0, i - 1 \in T PROVE i \in T
    <3>1. i \in 1..n /\ i \in 1..m /\ G(n)[i - 1] = G(m)[i - 1]
      BY <1>2, <2>2
    <3>2. G(n)[i] = Base * G(n)[i - 1] /\ G(m)[i] = Base * G(m)[i - 1]
      BY <1>1, <3>1
    <3>. QED
      BY <3>1, <3>2
  <2>3. T = 0..m
    <3>1. T \in SUBSET (0..m)
      OBVIOUS
    <3>. HIDE DEF T
    <3>. QED
      BY <2>1, <2>2, <3>1, UpTo
  <2>4. m \in T
    <3>. HIDE DEF T
    <3>. QED
      BY <2>3
  <2>. QED
    BY <2>4
<1>3. ASSUME NEW n \in Nat PROVE h[n] = Body(h, n)
  <2>1. CASE n = 0
    BY <1>1, <2>1
  <2>2. CASE n # 0
    <3>1. n - 1 \in Nat /\ n - 1 <= n /\ n \in 1..n
      BY <2>2
    <3>2. G(n)[n - 1] = G(n - 1)[n - 1]
      BY <1>2, <3>1
    <3>3. G(n)[n] = Base * G(n)[n - 1]
      BY <1>1, <3>1
    <3>. QED
      BY <2>2, <3>1, <3>2, <3>3
  <2>. QED
    BY <2>1, <2>2
<1>4. h = [n \in Nat |-> Body(h, n)]
  <2>1. h = [n \in Nat |-> h[n]]
    OBVIOUS
  <2>. HIDE DEF h, Body
  <2>. QED
    BY <1>3, <2>1
<1>5. Pow = [n \in Nat |-> Body(Pow, n)]
  <2>1. Pow = CHOOSE f : f = [n \in Nat |-> Body(f, n)]
    BY DEF Pow
  <2>. HIDE DEF h, Body
  <2>. QED
    BY <1>4, <2>1
<1>6. \A n \in Nat : Pow[n] = Body(Pow, n)
  <2>. HIDE DEF Body
  <2>. QED
    BY <1>5
<1>7. Pow[0] = 1
  BY <1>6
<1>8. ASSUME NEW n \in Nat PROVE Pow[n + 1] = Base * Pow[n]
  <2>1. n + 1 \in Nat /\ n + 1 # 0 /\ (n + 1) - 1 = n
    OBVIOUS
  <2>. QED
    BY <1>6, <2>1
<1>9. ASSUME NEW n \in Nat PROVE Pow[n] \in Nat \ {0}
  <2>. DEFINE T == {i \in 0..n : Pow[i] \in Nat \ {0}}
  <2>1. 0 \in T
    BY <1>7
  <2>2. ASSUME NEW i \in 0..n, i > 0, i - 1 \in T PROVE i \in T
    <3>1. i - 1 \in Nat /\ (i - 1) + 1 = i /\ Pow[i - 1] \in Nat \ {0}
      BY <2>2
    <3>2. Pow[i] = Base * Pow[i - 1]
      BY <1>8, <3>1
    <3>3. Base * Pow[i - 1] \in Nat /\ Base * Pow[i - 1] >= Base
      BY <1>0, <3>1, Times
    <3>4. Pow[i] \in Nat \ {0}
      BY <1>0, <3>2, <3>3
    <3>. QED
      BY <3>4
  <2>3. T = 0..n
    <3>1. T \in SUBSET (0..n)
      OBVIOUS
    <3>. HIDE DEF T
    <3>. QED
      BY <2>1, <2>2, <3>1, UpTo
  <2>. QED
    BY <2>3
<1>. QED
  BY <1>7, <1>8, <1>9

\* What a byte is.
LEMMA BaseIs == Base \in Nat /\ Base > 2 /\ Byte = 0..Base - 1 /\ 0 \in Byte /\ 1 \in Byte
BY WireAssumption DEF Byte

\* f[n] is the value of the first n bytes.
IsValue(s, f) ==
    /\ f \in [0..Len(s) -> Nat] /\ f[0] = 0
    /\ \A n \in 1..Len(s) : f[n] = f[n - 1] + s[n] * Pow[n - 1]

\* FromLittleEndian accumulates over the bytes.
HasValue(s) == \E f : IsValue(s, f) /\ FromLittleEndian(s) = f[Len(s)]

\* It does for every sequence of bytes.
LEMMA FromLittleEndianIs == ASSUME NEW s \in Seq(Byte) PROVE HasValue(s)
<1>. DEFINE n == Len(s)
            add == [i \in 0..n |-> IF i = 0 THEN 0 ELSE s[i] * Pow[i - 1]]
            step == [i \in 0..n |-> [x \in Nat |-> x + add[i]]]
            Body(f) == [i \in 0..n |-> IF i = 0 THEN 0 ELSE f[i - 1] + s[i] * Pow[i - 1]]
<1>1. n \in Nat /\ \A i \in 1..n : s[i] \in Nat
  <2>1. n \in Nat /\ \A i \in 1..n : s[i] \in Byte
    BY LenProperties
  <2>. QED
    BY <2>1, BaseIs
<1>2. \A i \in 1..n : s[i] * Pow[i - 1] \in Nat
  <2>1. ASSUME NEW i \in 1..n PROVE s[i] * Pow[i - 1] \in Nat
    <3>1. i - 1 \in Nat /\ s[i] \in Nat
      BY <1>1
    <3>2. Pow[i - 1] \in Nat
      BY <3>1, PowIs
    <3>. QED
      BY <3>1, <3>2, Times
  <2>. QED
    BY <2>1
<1>3. ASSUME NEW i \in 0..n PROVE add[i] \in Nat
  <2>1. CASE i = 0
    BY <2>1
  <2>2. CASE i # 0
    BY <1>1, <1>2, <2>2
  <2>. QED
    BY <2>1, <2>2
<1>4. step \in [0..n -> [Nat -> Nat]] /\ 0 \in Nat
  <2>. HIDE DEF add, n
  <2>. QED
    BY <1>3
<1>5. PICK f \in [0..n -> Nat] : Steps(f, n, 0, step)
  <2>. HIDE DEF step, n
  <2>. QED
    BY <1>1, <1>4, PrefixRecursion
<1>6. f[0] = 0
  BY <1>5 DEF Steps
<1>7. ASSUME NEW i \in 1..n PROVE f[i] = f[i - 1] + s[i] * Pow[i - 1]
  <2>1. f[i] = step[i][f[i - 1]]
    <3>. HIDE DEF step
    <3>. QED
      BY <1>5 DEF Steps
  <2>2. f[i - 1] \in Nat /\ i \in 0..n /\ i # 0
    BY <1>1
  <2>3. step[i][f[i - 1]] = f[i - 1] + add[i]
    <3>. HIDE DEF add, n
    <3>. QED
      BY <2>2
  <2>. QED
    BY <2>1, <2>2, <2>3
<1>8. f = Body(f)
  <2>1. ASSUME NEW i \in 0..n PROVE f[i] = Body(f)[i]
    BY <1>1, <1>6, <1>7
  <2>2. f = [i \in 0..n |-> f[i]] /\ Body(f) = [i \in 0..n |-> Body(f)[i]]
    OBVIOUS
  <2>. HIDE DEF Body, n
  <2>. QED
    BY <2>1, <2>2
<1>9. ASSUME NEW g, g = Body(g) PROVE g[n] = f[n]
  <2>. DEFINE T == {i \in 0..n : g[i] = f[i]}
  <2>1. ASSUME NEW i \in 0..n PROVE g[i] = IF i = 0 THEN 0 ELSE g[i - 1] + s[i] * Pow[i - 1]
    BY <1>9
  <2>2. 0 \in T
    BY <1>1, <1>6, <2>1
  <2>3. ASSUME NEW i \in 0..n, i > 0, i - 1 \in T PROVE i \in T
    <3>1. g[i] = g[i - 1] + s[i] * Pow[i - 1] /\ i \in 1..n /\ g[i - 1] = f[i - 1]
      BY <1>1, <2>1, <2>3
    <3>. QED
      BY <1>7, <3>1
  <2>4. T = 0..n
    <3>1. T \in SUBSET (0..n)
      OBVIOUS
    <3>. HIDE DEF T, n
    <3>. QED
      BY <1>1, <2>2, <2>3, <3>1, UpTo
  <2>5. n \in T
    <3>. HIDE DEF T
    <3>. QED
      BY <1>1, <2>4
  <2>. QED
    BY <2>5
<1>10. FromLittleEndian(s) = (CHOOSE g : g = Body(g))[n]
  BY DEF FromLittleEndian
<1>11. (CHOOSE g : g = Body(g))[n] = f[n]
  <2>. HIDE DEF Body, n
  <2>1. (CHOOSE g : g = Body(g)) = Body(CHOOSE g : g = Body(g))
    BY <1>8
  <2>. QED
    BY <1>9, <2>1
<1>12. IsValue(s, f)
  BY <1>6, <1>7 DEF IsValue
<1>. QED
  BY <1>10, <1>11, <1>12 DEF HasValue

\* What w bytes hold is less than Pow[w].
LEMMA ValueBound ==
    ASSUME NEW s \in Seq(Byte), NEW f, IsValue(s, f)
    PROVE  \A n \in 0..Len(s) : f[n] \in 0..Pow[n] - 1
<1>. DEFINE T == {n \in 0..Len(s) : f[n] \in 0..Pow[n] - 1}
<1>0. Len(s) \in Nat
  BY LenProperties
<1>1. 0 \in T
  BY <1>0, PowIs DEF IsValue
<1>2. ASSUME NEW n \in 0..Len(s), n > 0, n - 1 \in T PROVE n \in T
  <2>. DEFINE p == Pow[n - 1]
              x == f[n - 1]
  <2>1. n \in 1..Len(s) /\ n - 1 \in Nat /\ x \in 0..p - 1
    BY <1>0, <1>2
  <2>2. p \in Nat \ {0} /\ Pow[n] = Base * p
    <3>1. (n - 1) + 1 = n
      BY <2>1
    <3>. QED
      BY <2>1, <3>1, PowIs
  <2>3. f[n] = x + s[n] * p
    BY <2>1 DEF IsValue
  <2>4. s[n] \in 0..Base - 1 /\ Base \in Nat
    <3>1. s[n] \in Byte
      BY <2>1, ElementOfSeq
    <3>. QED
      BY <3>1, BaseIs
  <2>. HIDE DEF p, x
  <2>5. p * s[n] <= p * (Base - 1) /\ p * s[n] \in Nat
    BY <2>2, <2>4, Times
  <2>6. p * (Base - 1) = Base * p - p /\ p * s[n] = s[n] * p
    BY <2>2, <2>4
  <2>7. Base * p \in Nat
    BY <2>2, <2>4, Times
  <2>8. f[n] \in 0..Pow[n] - 1
    BY <2>1, <2>2, <2>3, <2>5, <2>6, <2>7
  <2>. QED
    BY <2>8
<1>3. T = 0..Len(s)
  <2>1. T \in SUBSET (0..Len(s))
    OBVIOUS
  <2>. HIDE DEF T
  <2>. QED
    BY <1>0, <1>1, <1>2, <2>1, UpTo
<1>. QED
  BY <1>3

\* The bytes of a number.
LEMMA LittleEndianIs ==
    ASSUME NEW v \in Int, NEW w \in Nat
    PROVE  LittleEndian(v, w) \in Seq(Byte) /\ Len(LittleEndian(v, w)) = w
<1>. DEFINE s == LittleEndian(v, w)
            x == v % Pow[w]
<1>1. x \in Nat
  <2>1. Pow[w] \in Nat \ {0}
    BY PowIs
  <2>. QED
    BY <2>1, DivMod
<1>2. \A i \in 1..w : s[i] = (x \div Pow[i - 1]) % Base
  BY DEF LittleEndian
<1>3. s = [i \in 1..w |-> s[i]]
  BY DEF LittleEndian
<1>. HIDE DEF s, x
<1>4. ASSUME NEW i \in 1..w PROVE s[i] \in Byte
  <2>1. i - 1 \in Nat
    OBVIOUS
  <2>2. Pow[i - 1] \in Nat \ {0}
    BY <2>1, PowIs
  <2>3. x \div Pow[i - 1] \in Int
    BY <1>1, <2>2, DivMod
  <2>4. (x \div Pow[i - 1]) % Base \in 0..Base - 1
    <3>. DEFINE y == x \div Pow[i - 1]
    <3>1. y \in Int /\ Base \in Nat \ {0}
      BY <2>3, BaseIs
    <3>. HIDE DEF y
    <3>2. y % Base \in 0..Base - 1
      BY <3>1, DivMod
    <3>. QED
      BY <3>2 DEF y
  <2>. QED
    BY <1>2, <2>4, BaseIs
<1>5. s \in Seq(Byte) /\ Len(s) = w
  BY <1>3, <1>4, FunctionInSeq
<1>. QED
  BY <1>5 DEF s

\* They are read back.
LEMMA ReadBack ==
    ASSUME NEW v \in Int, NEW w \in Nat
    PROVE  FromLittleEndian(LittleEndian(v, w)) = v % Pow[w]
<1>. DEFINE s == LittleEndian(v, w)
            x == v % Pow[w]
<1>1. x \in 0..Pow[w] - 1 /\ Pow[w] \in Nat \ {0}
  <2>1. Pow[w] \in Nat \ {0}
    BY PowIs
  <2>. QED
    BY <2>1, DivMod
<1>2. \A i \in 1..w : s[i] = (x \div Pow[i - 1]) % Base
  BY DEF LittleEndian
<1>3. s \in Seq(Byte) /\ Len(s) = w
  BY LittleEndianIs
<1>. HIDE DEF s, x
<1>4. PICK f : IsValue(s, f) /\ FromLittleEndian(s) = f[w]
  BY <1>3, FromLittleEndianIs DEF HasValue
<1>. DEFINE T == {n \in 0..w : f[n] = x % Pow[n]}
<1>5. 0 \in T
  <2>1. x % 1 = 0 /\ f[0] = 0
    BY <1>1, <1>4 DEF IsValue
  <2>. QED
    BY <2>1, PowIs
<1>6. ASSUME NEW n \in 0..w, n > 0, n - 1 \in T PROVE n \in T
  <2>. DEFINE p == Pow[n - 1]
  <2>1. n \in 1..w /\ n - 1 \in Nat /\ (n - 1) + 1 = n
    BY <1>6
  <2>2. p \in Nat \ {0} /\ Pow[n] = Base * p
    BY <2>1, PowIs
  <2>3. f[n] = f[n - 1] + s[n] * p /\ f[n - 1] = x % p
    BY <1>3, <1>4, <1>6, <2>1 DEF IsValue
  <2>4. s[n] = (x \div p) % Base
    BY <1>2, <2>1
  <2>. HIDE DEF p
  <2>5. x % (Base * p) = (x % p) + ((x \div p) % Base) * p
    <3>1. x \in Nat /\ Base \in Nat \ {0}
      BY <1>1, BaseIs
    <3>. QED
      BY <2>2, <3>1, OneDigit
  <2>6. f[n] = x % Pow[n]
    BY <2>2, <2>3, <2>4, <2>5
  <2>. QED
    BY <2>6
<1>7. T = 0..w
  <2>1. T \in SUBSET (0..w)
    OBVIOUS
  <2>. HIDE DEF T
  <2>. QED
    BY <1>5, <1>6, <2>1, UpTo
<1>8. f[w] = x % Pow[w]
  BY <1>7
<1>9. x % Pow[w] = x
  <2>. DEFINE p == Pow[w]
  <2>1. p \in Nat \ {0} /\ x \in 0..p - 1 /\ x = p * 0 + x
    BY <1>1
  <2>. HIDE DEF p
  <2>2. x % p = x
    BY <2>1, DivUnique
  <2>. QED
    BY <2>2 DEF p
<1>. QED
  BY <1>4, <1>8, <1>9 DEF s, x

-----------------------------------------------------------------------------
(* Bytes and numbers are read as they are written.                         *)

\* read_exact, DecByte, DecUint and DecInt as functions of the bytes.
ReadN(n) == [s \in Seq(Byte) |-> ReadExact(s, n)]
ByteOf == [s \in Seq(Byte) |-> DecByte(s)]
UintOf(w) == [s \in Seq(Byte) |-> DecUint(s, w)]
IntOf(w) == [s \in Seq(Byte) |-> DecInt(s, w)]

\* What is behind the first bytes.
LEMMA ConcatRest ==
    ASSUME NEW V, NEW a \in Seq(V), NEW t \in Seq(V)
    PROVE  /\ Len(a \o t) >= Len(a)
           /\ SubSeq(a \o t, 1, Len(a)) = a
           /\ SubSeq(a \o t, Len(a) + 1, Len(a \o t)) = t
<1>. DEFINE c == a \o t
            n == Len(a)
            m == Len(c)
            x == SubSeq(c, 1, n)
            y == SubSeq(c, n + 1, m)
<1>1. /\ c \in Seq(V) /\ n \in Nat /\ Len(t) \in Nat /\ m = n + Len(t)
      /\ \A i \in 1..m : c[i] = IF i <= n THEN a[i] ELSE t[i - n]
  BY ConcatProperties, LenProperties
<1>. HIDE DEF c, m
<1>2. x \in Seq(V) /\ Len(x) = n /\ \A i \in 1..n : x[i] = c[i]
  BY <1>1, FirstN DEF m
<1>3. x = a
  <2>. HIDE DEF x
  <2>1. \A i \in 1..n : x[i] = a[i]
    BY <1>1, <1>2
  <2>. QED
    BY <1>2, <2>1, SeqEqual
<1>4. \A i \in n + 1..m : c[i] \in V
  BY <1>1, ElementOfSeq DEF m
<1>5. y \in Seq(V) /\ Len(y) = Len(t) /\ \A i \in 1..Len(t) : y[i] = c[n + 1 + i - 1]
  <2>1. n + 1 \in Int /\ m \in Int /\ m - (n + 1) + 1 = Len(t)
        /\ (IF n + 1 <= m THEN m - (n + 1) + 1 ELSE 0) = Len(t)
    BY <1>1
  <2>. QED
    BY <1>4, <2>1, SubSeqProperties
<1>6. y = t
  <2>. HIDE DEF y
  <2>1. ASSUME NEW i \in 1..Len(t) PROVE y[i] = t[i]
    <3>1. n + 1 + i - 1 = n + i /\ n + i \in 1..m /\ ~(n + i <= n) /\ (n + i) - n = i
      BY <1>1
    <3>. QED
      BY <1>1, <1>5, <3>1
  <2>. QED
    BY <1>5, <2>1, SeqEqual
<1>. QED
  BY <1>1, <1>3, <1>6 DEF c, m

\* One buffer.
LEMMA OneChunkIs ==
    ASSUME NEW v \in Seq(Byte)
    PROVE  /\ IsEnc(OneChunk(v)) /\ OneChunk(v).err = "none" /\ Bytes(OneChunk(v)) = v
           /\ OneChunk(v).chunks = <<v>>
<1>1. OneChunk(v).err = "none" /\ OneChunk(v).chunks = <<v>>
  BY DEF OneChunk, Writes
<1>2. <<v>> \in Seq(Seq(Byte)) /\ FlattenSeq(<<v>>) = v
  BY FlatOne
<1>. QED
  BY <1>1, <1>2 DEF IsEnc, Bytes, Reserved

\* An error.
LEMMA FailsIs ==
    ASSUME NEW e, e \notin Reserved
    PROVE  IsEnc(Fails(e)) /\ Fails(e).err = e
<1>1. <<>> \in Seq(Seq(Byte))
  BY EmptySeq
<1>. QED
  BY <1>1 DEF IsEnc, Fails

\* What cannot be serialized fits every decoder.
LEMMA FitsFails ==
    ASSUME NEW e, e \notin Reserved, e # "none", NEW d, NEW ok, NEW w
    PROVE  Fits(Fails(e), d, ok, w)
BY FailsIs DEF Fits

\* d takes n bytes, or answers with e.
TakesOr(d, n, e) ==
    \A s \in Seq(Byte) :
        d[s] = IF Len(s) < n THEN Bad(e) ELSE Got(SubSeq(s, 1, n), SubSeq(s, n + 1, Len(s)))

\* A buffer is read back by what takes as many bytes.
LEMMA FitsTaken ==
    ASSUME NEW v \in Seq(Byte), NEW e \in CutErrors, NEW d, TakesOr(d, Len(v), e)
    PROVE  Fits(OneChunk(v), d, TRUE, v)
<1>1. ASSUME NEW t \in Seq(Byte) PROVE d[v \o t] = Got(v, t)
  <2>. DEFINE s == v \o t
  <2>1. s \in Seq(Byte) /\ Len(s) \in Nat /\ Len(v) \in Nat
    BY ConcatProperties, LenProperties
  <2>2. Len(s) >= Len(v) /\ SubSeq(s, 1, Len(v)) = v /\ SubSeq(s, Len(v) + 1, Len(s)) = t
    BY ConcatRest
  <2>. HIDE DEF s
  <2>3. ~(Len(s) < Len(v))
    BY <2>1, <2>2
  <2>4. d[s] = Got(SubSeq(s, 1, Len(v)), SubSeq(s, Len(v) + 1, Len(s)))
    BY <2>1, <2>3 DEF TakesOr
  <2>5. d[s] = Got(v, t)
    BY <2>2, <2>4
  <2>. QED
    BY <2>5 DEF s
<1>2. ASSUME NEW n \in 0..Len(v) - 1 PROVE d[SubSeq(v, 1, n)].err \in CutErrors
  <2>. DEFINE s == SubSeq(v, 1, n)
  <2>0. n \in 0..Len(v) /\ n < Len(v)
    BY LenProperties
  <2>1. s \in Seq(Byte) /\ Len(s) = n
    BY <2>0, FirstN
  <2>. HIDE DEF s
  <2>2. d[s] = Bad(e)
    BY <2>0, <2>1 DEF TakesOr
  <2>3. d[s].err \in CutErrors
    BY <2>2, BadIs
  <2>. QED
    BY <2>3 DEF s
<1>3. Codes(d, v, TRUE, v)
  BY <1>1, <1>2 DEF Codes, Reads
<1>. QED
  BY <1>3, OneChunkIs DEF Fits

\* read_exact takes as many bytes.
LEMMA FitsRead ==
    ASSUME NEW v \in Seq(Byte)
    PROVE  Fits(OneChunk(v), ReadN(Len(v)), TRUE, v)
<1>1. TakesOr(ReadN(Len(v)), Len(v), "UnexpectedLength")
  BY DEF TakesOr, ReadN, ReadExact
<1>. QED
  BY <1>1, FitsTaken DEF CutErrors

\* Map of what was read.
LEMMA MapIs ==
    ASSUME NEW d, NEW d1, NEW w, NEW w1,
           \A s \in Seq(Byte) : d1[s].err # "none" => d[s] = d1[s],
           \A s \in Seq(Byte) : \A r : d1[s] = Got(w1, r) => d[s] = Got(w, r)
    PROVE  Follows(d, d1, w1, w)
BY DEF Follows

\* An unsigned number of w bytes.
LEMMA FitsUint ==
    ASSUME NEW w \in Nat, NEW v \in 0..Pow[w] - 1
    PROVE  Fits(SerInt(v, w), UintOf(w), TRUE, v)
<1>. DEFINE b == LittleEndian(v, w)
<1>0. Pow[w] \in Nat \ {0}
  BY PowIs
<1>1. b \in Seq(Byte) /\ Len(b) = w /\ FromLittleEndian(b) = v % Pow[w]
  BY <1>0, LittleEndianIs, ReadBack
<1>2. v % Pow[w] = v
  <2>. DEFINE p == Pow[w]
  <2>1. v \in Int /\ p \in Nat \ {0} /\ v \in 0..p - 1 /\ v = p * 0 + v
    BY <1>0
  <2>. HIDE DEF p
  <2>2. v % p = v
    BY <2>1, DivUnique
  <2>. QED
    BY <2>2 DEF p
<1>3. SerInt(v, w) = OneChunk(b)
  BY DEF SerInt
<1>. HIDE DEF b
<1>4. Fits(OneChunk(b), ReadN(w), TRUE, b)
  BY <1>1, FitsRead
<1>5. Follows(UintOf(w), ReadN(w), b, v)
  <2>. DEFINE d == UintOf(w)
              d1 == ReadN(w)
  <2>1. \A s \in Seq(Byte) : d[s] = IF d1[s].err = "none" THEN Got(FromLittleEndian(d1[s].val), d1[s].rest) ELSE d1[s]
    BY DEF UintOf, ReadN, DecUint, Map, IsOk
  <2>2. FromLittleEndian(b) = v
    BY <1>1, <1>2
  <2>. HIDE DEF d, d1
  <2>3. ASSUME NEW s \in Seq(Byte), d1[s].err # "none" PROVE d[s] = d1[s]
    BY <2>1, <2>3
  <2>4. ASSUME NEW s \in Seq(Byte), NEW r, d1[s] = Got(b, r) PROVE d[s] = Got(v, r)
    BY <2>1, <2>2, <2>4, GotIs
  <2>5. Follows(d, d1, b, v)
    BY <2>3, <2>4, MapIs
  <2>. QED
    BY <2>5 DEF d, d1
<1>6. Fits(OneChunk(b), UintOf(w), TRUE, v)
  BY <1>4, <1>5, FitsAfter
<1>. QED
  BY <1>3, <1>6

\* What a signed number is as an unsigned one.
LEMMA Wrapped ==
    ASSUME NEW p \in Nat \ {0}, NEW v \in -(p \div 2)..p \div 2 - 1
    PROVE  LET u == v % p IN u \in 0..p - 1 /\ (IF u < p \div 2 THEN u ELSE u - p) = v
<1>. DEFINE h == p \div 2
            u == v % p
<1>1. h \in Nat /\ 2 * h <= p
  OBVIOUS
<1>. HIDE DEF h
<1>2. v \in -h..h - 1 /\ v \in Int
  BY <1>1 DEF h
<1>3. CASE v >= 0
  <2>1. v \in 0..p - 1 /\ v = p * 0 + v
    BY <1>1, <1>2, <1>3
  <2>2. u = v
    BY <1>2, <2>1, DivUnique
  <2>. QED
    BY <1>1, <1>2, <2>1, <2>2 DEF h
<1>4. CASE v < 0
  <2>1. v + p \in 0..p - 1 /\ v = p * (-1) + (v + p) /\ v + p >= h
    BY <1>1, <1>2, <1>4
  <2>2. u = v + p
    BY <1>2, <2>1, DivUnique
  <2>. QED
    BY <1>1, <1>2, <2>1, <2>2 DEF h
<1>. QED
  BY <1>2, <1>3, <1>4

\* A signed number of w bytes.
LEMMA FitsInt ==
    ASSUME NEW w \in Nat, NEW v \in Signed(w)
    PROVE  Fits(SerInt(v, w), IntOf(w), TRUE, v)
<1>. DEFINE p == Pow[w]
            u == v % p
<1>1. p \in Nat \ {0} /\ v \in -(p \div 2)..p \div 2 - 1
  BY PowIs DEF Signed
<1>2. u \in 0..p - 1 /\ (IF u < p \div 2 THEN u ELSE u - p) = v
  <2>. HIDE DEF p
  <2>. QED
    BY <1>1, Wrapped
<1>3. SerInt(v, w) = SerInt(u, w)
  <2>1. u % p = u
    <3>1. u \in Int /\ u = p * 0 + u
      BY <1>1, <1>2
    <3>. HIDE DEF u, p
    <3>. QED
      BY <1>1, <1>2, <3>1, DivUnique
  <2>2. LittleEndian(v, w) = LittleEndian(u, w)
    BY <2>1 DEF LittleEndian
  <2>. QED
    BY <2>2 DEF SerInt
<1>4. Fits(SerInt(u, w), UintOf(w), TRUE, u)
  <2>1. u \in 0..Pow[w] - 1
    BY <1>2
  <2>. HIDE DEF u
  <2>. QED
    BY <2>1, FitsUint
<1>5. Follows(IntOf(w), UintOf(w), u, v)
  <2>. DEFINE d == IntOf(w)
              d1 == UintOf(w)
  <2>1. \A s \in Seq(Byte) : d[s] = IF d1[s].err = "none"
                                    THEN Got(IF d1[s].val < p \div 2 THEN d1[s].val ELSE d1[s].val - p, d1[s].rest)
                                    ELSE d1[s]
    BY DEF UintOf, IntOf, DecInt, Map, IsOk
  <2>. HIDE DEF d, d1, p, u
  <2>3. ASSUME NEW s \in Seq(Byte), d1[s].err # "none" PROVE d[s] = d1[s]
    BY <2>1, <2>3
  <2>4. ASSUME NEW s \in Seq(Byte), NEW r, d1[s] = Got(u, r) PROVE d[s] = Got(v, r)
    BY <2>1, <1>2, <2>4, GotIs
  <2>5. Follows(d, d1, u, v)
    BY <2>3, <2>4, MapIs
  <2>. QED
    BY <2>5 DEF d, d1
<1>. HIDE DEF u, p
<1>6. Fits(SerInt(u, w), IntOf(w), TRUE, v)
  BY <1>4, <1>5, FitsAfter
<1>. QED
  BY <1>3, <1>6

\* A byte.
LEMMA FitsByte ==
    ASSUME NEW v \in Byte
    PROVE  Fits(SerByte(v), ByteOf, TRUE, v)
<1>. DEFINE b == <<v>>
<1>1. b \in Seq(Byte) /\ Len(b) = 1 /\ b[1] = v
  OBVIOUS
<1>2. SerByte(v) = OneChunk(b)
  BY DEF SerByte
<1>. HIDE DEF b
<1>3. Fits(OneChunk(b), ReadN(1), TRUE, b)
  BY <1>1, FitsRead
<1>4. Follows(ByteOf, ReadN(1), b, v)
  <2>. DEFINE d == ByteOf
              d1 == ReadN(1)
  <2>1. \A s \in Seq(Byte) : d[s] = IF d1[s].err = "none" THEN Got(d1[s].val[1], d1[s].rest) ELSE d1[s]
    BY DEF ByteOf, ReadN, DecByte, Map, IsOk
  <2>. HIDE DEF d, d1
  <2>3. ASSUME NEW s \in Seq(Byte), d1[s].err # "none" PROVE d[s] = d1[s]
    BY <2>1, <2>3
  <2>4. ASSUME NEW s \in Seq(Byte), NEW r, d1[s] = Got(b, r) PROVE d[s] = Got(v, r)
    BY <2>1, <1>1, <2>4, GotIs
  <2>5. Follows(d, d1, b, v)
    BY <2>3, <2>4, MapIs
  <2>. QED
    BY <2>5 DEF d, d1
<1>5. Fits(OneChunk(b), ByteOf, TRUE, v)
  BY <1>3, <1>4, FitsAfter
<1>. QED
  BY <1>2, <1>5

\* A length, which is an error when it is no u32.
LEMMA FitsLen ==
    ASSUME NEW n \in Nat
    PROVE  Fits(SerLen(n), UintOf(LenBytes), TRUE, n)
<1>1. Pow[LenBytes] \in Nat \ {0} /\ LenBytes \in Nat
  BY WireAssumption, PowIs
<1>2. CASE n > MaxLen
  BY <1>2, FitsFails DEF SerLen, Reserved
<1>3. CASE ~(n > MaxLen)
  <2>1. n \in 0..Pow[LenBytes] - 1
    BY <1>1, <1>3 DEF MaxLen
  <2>2. SerLen(n) = SerInt(n, LenBytes)
    BY <1>3 DEF SerLen
  <2>. QED
    BY <1>1, <2>1, <2>2, FitsUint
<1>. QED
  BY <1>2, <1>3

-----------------------------------------------------------------------------
(* Each kind of types.                                                     *)

\* Deserialize, as a function of the bytes.
DecOf(T, dec, st) == [s \in Seq(Byte) |-> Deserialize(T, dec, st, s)]

\* What a value is made of is read as it is written.
PartsFit(T, ser, dec, rd, rc, v) ==
    \A c \in Components(T, v) :
        Fits(ser[c[1]][c[2]], dec[c[1]], rd[c[1]][c[2]], rc[c[1]][c[2]])

\* What T serializes v to fits what T deserializes, given its parts.
KindFits(T, ser, dec, rd, rc, o, st, v) ==
    Fits(Serialize(T, ser, o, v), DecOf(T, dec, st), ReadableOf(T, rd, v), ReceivedOf(T, rc, v))

\* Fits, with another way to say when there is room and what is read.
LEMMA FitsSame ==
    ASSUME NEW e, NEW d, NEW ok, NEW ok2, NEW w, NEW w2, Fits(e, d, ok, w), ok <=> ok2, w = w2
    PROVE  Fits(e, d, ok2, w2)
BY DEF Fits, Codes

\* Numbers, bool and String are received as they are; only a usize or an isize may be
\* out of range.
LEMMA SimpleReadable ==
    ASSUME NEW T, NEW rd, NEW rc, NEW v, T.k \in Simple
    PROVE  /\ T.k \notin {"usize", "isize"} => ReadableOf(T, rd, v)
           /\ T.k = "usize" => (ReadableOf(T, rd, v) <=> v <= MaxUsize)
           /\ T.k = "isize" => (ReadableOf(T, rd, v) <=> v \in Isize)
           /\ ReceivedOf(T, rc, v) = v
<1>1. Components(T, v) = {}
  BY DEF Components, Simple
<1>2. T.k # "slice" /\ T.k # "skip"
  BY DEF Simple
<1>3. ReceivedOf(T, rc, v) = v
  BY DEF ReceivedOf, Simple
<1>. QED
  BY <1>1, <1>2, <1>3 DEF ReadableOf

\* u8 to u128.
LEMMA UintFits ==
    ASSUME NEW T \in Types, NEW ser, NEW dec, NEW rd, NEW rc, NEW o, NEW st, NEW v,
           HasForm(T, v), T.k = "uint"
    PROVE  KindFits(T, ser, dec, rd, rc, o, st, v)
<1>1. T.w \in Nat
  BY TypesAssumption
<1>2. v \in 0..Pow[T.w] - 1
  BY DEF HasForm
<1>3. Serialize(T, ser, o, v) = SerInt(v, T.w)
  BY DEF Serialize
<1>4. DecOf(T, dec, st) = UintOf(T.w)
  BY DEF DecOf, UintOf, Deserialize
<1>5. ReadableOf(T, rd, v) /\ ReceivedOf(T, rc, v) = v
  BY SimpleReadable DEF Simple
<1>6. Fits(SerInt(v, T.w), UintOf(T.w), TRUE, v)
  BY <1>1, <1>2, FitsUint
<1>. QED
  BY <1>3, <1>4, <1>5, <1>6, FitsSame DEF KindFits

\* i8 to i128.
LEMMA IntFits ==
    ASSUME NEW T \in Types, NEW ser, NEW dec, NEW rd, NEW rc, NEW o, NEW st, NEW v,
           HasForm(T, v), T.k = "int"
    PROVE  KindFits(T, ser, dec, rd, rc, o, st, v)
<1>1. T.w \in Nat
  BY TypesAssumption
<1>2. v \in Signed(T.w)
  BY DEF HasForm
<1>3. Serialize(T, ser, o, v) = SerInt(v, T.w)
  BY DEF Serialize
<1>4. DecOf(T, dec, st) = IntOf(T.w)
  BY DEF DecOf, IntOf, Deserialize
<1>5. ReadableOf(T, rd, v) /\ ReceivedOf(T, rc, v) = v
  BY SimpleReadable DEF Simple
<1>6. Fits(SerInt(v, T.w), IntOf(T.w), TRUE, v)
  BY <1>1, <1>2, FitsInt
<1>. QED
  BY <1>3, <1>4, <1>5, <1>6, FitsSame DEF KindFits

\* A number that the machine may not hold.
LEMMA FitsOrNot ==
    ASSUME NEW e, NEW d, NEW d1, NEW v, NEW ok, Fits(e, d1, TRUE, v),
           \A s \in Seq(Byte) : d1[s].err # "none" => d[s].err = d1[s].err,
           \A s \in Seq(Byte) : \A r \in Seq(Byte) : d1[s] = Got(v, r) =>
               /\ ok => d[s] = Got(v, r)
               /\ ~ok => d[s].err = "Overflow"
    PROVE  Fits(e, d, ok, v)
<1>1. CASE ok
  <2>1. Follows(d, d1, v, v)
    BY <1>1 DEF Follows
  <2>2. Fits(e, d, TRUE, v)
    BY <2>1, FitsAfter
  <2>. QED
    BY <1>1, <2>2, FitsSame
<1>2. CASE ~ok
  <2>1. IsEnc(e)
    BY DEF Fits
  <2>2. ASSUME e.err = "none" PROVE Refuses(d, Bytes(e))
    <3>1. Reads(d1, Bytes(e), v)
      BY <2>2 DEF Fits, Codes
    <3>2. Bytes(e) \in Seq(Byte)
      BY <2>1, EncBytes
    <3>3. ASSUME NEW t \in Seq(Byte) PROVE d[Bytes(e) \o t].err = "Overflow"
      <4>. DEFINE s == Bytes(e) \o t
      <4>1. s \in Seq(Byte)
        BY <3>2, ConcatProperties
      <4>2. d1[s] = Got(v, t)
        BY <3>1 DEF Reads
      <4>. HIDE DEF s
      <4>3. d[s].err = "Overflow"
        BY <1>2, <4>1, <4>2
      <4>. QED
        BY <4>3 DEF s
    <3>. QED
      BY <3>3 DEF Refuses
  <2>. QED
    BY <1>2, <2>1, <2>2 DEF Fits, Codes
<1>. QED
  BY <1>1, <1>2

\* usize, that the reader refuses beyond its usize::MAX.
LEMMA UsizeFits ==
    ASSUME NEW T \in Types, NEW ser, NEW dec, NEW rd, NEW rc, NEW o, NEW st, NEW v,
           HasForm(T, v), T.k = "usize"
    PROVE  KindFits(T, ser, dec, rd, rc, o, st, v)
<1>. DEFINE d == DecOf(T, dec, st)
            d1 == UintOf(WideBytes)
            e == SerInt(v, WideBytes)
            ok == v <= MaxUsize
<1>1. WideBytes \in Nat /\ MaxUsize \in Nat
  BY WireAssumption
<1>2. v \in 0..Pow[WideBytes] - 1
  BY DEF HasForm
<1>3. Serialize(T, ser, o, v) = e
  BY DEF Serialize, SerUsize
<1>4. \A s \in Seq(Byte) : d[s] = IF d1[s].err = "none"
          THEN IF d1[s].val > MaxUsize THEN Bad("Overflow") ELSE Got(d1[s].val, d1[s].rest)
          ELSE d1[s]
  BY DEF DecOf, UintOf, Deserialize, DecUsize, AndThen, IsOk
<1>5. (ReadableOf(T, rd, v) <=> ok) /\ ReceivedOf(T, rc, v) = v
  BY SimpleReadable DEF Simple
<1>6. Fits(e, d1, TRUE, v)
  BY <1>1, <1>2, FitsUint
<1>7. v \in Nat
  BY <1>1, <1>2, PowIs
<1>. HIDE DEF d, d1, e
<1>8. ASSUME NEW s \in Seq(Byte), d1[s].err # "none" PROVE d[s].err = d1[s].err
  BY <1>4, <1>8
<1>9. ASSUME NEW s \in Seq(Byte), NEW r \in Seq(Byte), d1[s] = Got(v, r)
      PROVE  (ok => d[s] = Got(v, r)) /\ (~ok => d[s].err = "Overflow")
  BY <1>1, <1>4, <1>7, <1>9, GotIs, BadIs
<1>. HIDE DEF ok
<1>10. Fits(e, d, ok, v)
  BY <1>6, <1>8, <1>9, FitsOrNot
<1>. QED
  BY <1>3, <1>5, <1>10, FitsSame DEF KindFits, d

\* isize, that the reader refuses out of its range.
LEMMA IsizeFits ==
    ASSUME NEW T \in Types, NEW ser, NEW dec, NEW rd, NEW rc, NEW o, NEW st, NEW v,
           HasForm(T, v), T.k = "isize"
    PROVE  KindFits(T, ser, dec, rd, rc, o, st, v)
<1>. DEFINE d == DecOf(T, dec, st)
            d1 == IntOf(WideBytes)
            e == SerInt(v, WideBytes)
            ok == v \in Isize
<1>1. WideBytes \in Nat /\ MaxUsize \in Nat
  BY WireAssumption
<1>2. v \in Signed(WideBytes)
  BY DEF HasForm
<1>3. Serialize(T, ser, o, v) = e
  BY DEF Serialize, SerUsize
<1>4. \A s \in Seq(Byte) : d[s] = IF d1[s].err = "none"
          THEN IF d1[s].val \notin Isize THEN Bad("Overflow") ELSE Got(d1[s].val, d1[s].rest)
          ELSE d1[s]
  BY DEF DecOf, IntOf, Deserialize, DecIsize, AndThen, IsOk
<1>5. (ReadableOf(T, rd, v) <=> ok) /\ ReceivedOf(T, rc, v) = v
  BY SimpleReadable DEF Simple
<1>6. Fits(e, d1, TRUE, v)
  BY <1>1, <1>2, FitsInt
<1>. HIDE DEF d, d1, e
<1>8. ASSUME NEW s \in Seq(Byte), d1[s].err # "none" PROVE d[s].err = d1[s].err
  BY <1>4, <1>8
<1>9. ASSUME NEW s \in Seq(Byte), NEW r \in Seq(Byte), d1[s] = Got(v, r)
      PROVE  (ok => d[s] = Got(v, r)) /\ (~ok => d[s].err = "Overflow")
  BY <1>4, <1>9, GotIs, BadIs
<1>. HIDE DEF ok
<1>10. Fits(e, d, ok, v)
  BY <1>6, <1>8, <1>9, FitsOrNot
<1>. QED
  BY <1>3, <1>5, <1>10, FitsSame DEF KindFits, d

\* f32 and f64, whose NaNs are not serialized.
LEMMA FloatFits ==
    ASSUME NEW T \in Types, NEW ser, NEW dec, NEW rd, NEW rc, NEW o, NEW st, NEW v,
           HasForm(T, v), T.k = "float"
    PROVE  KindFits(T, ser, dec, rd, rc, o, st, v)
<1>. DEFINE d == DecOf(T, dec, st)
            d1 == UintOf(T.w)
            e == SerFloat(T, v)
<1>1. T.w \in Nat
  BY TypesAssumption
<1>2. v \in 0..Pow[T.w] - 1
  BY DEF HasForm
<1>3. Serialize(T, ser, o, v) = e
  BY DEF Serialize
<1>4. \A s \in Seq(Byte) : d[s] = IF d1[s].err = "none"
          THEN IF IsNaN(T, d1[s].val) THEN Bad("NaN") ELSE Got(d1[s].val, d1[s].rest)
          ELSE d1[s]
  BY DEF DecOf, UintOf, Deserialize, DecFloat, AndThen, IsOk
<1>5. ReadableOf(T, rd, v) /\ ReceivedOf(T, rc, v) = v
  BY SimpleReadable DEF Simple
<1>6. Fits(SerInt(v, T.w), d1, TRUE, v)
  BY <1>1, <1>2, FitsUint
<1>7. Fits(e, d, TRUE, v)
  <2>. HIDE DEF d, d1
  <2>1. CASE IsNaN(T, v)
    BY <2>1, FitsFails DEF SerFloat, Reserved
  <2>2. CASE ~IsNaN(T, v)
    <3>1. e = SerInt(v, T.w)
      BY <2>2 DEF SerFloat
    <3>2. ASSUME NEW s \in Seq(Byte), d1[s].err # "none" PROVE d[s] = d1[s]
      BY <1>4, <3>2
    <3>3. ASSUME NEW s \in Seq(Byte), NEW r, d1[s] = Got(v, r) PROVE d[s] = Got(v, r)
      BY <1>4, <2>2, <3>3, GotIs
    <3>4. Follows(d, d1, v, v)
      BY <3>2, <3>3, MapIs
    <3>. QED
      BY <1>6, <3>1, <3>4, FitsAfter
  <2>. QED
    BY <2>1, <2>2
<1>. HIDE DEF d
<1>. QED
  BY <1>3, <1>5, <1>7, FitsSame DEF KindFits, d

\* bool.
LEMMA BoolFits ==
    ASSUME NEW T \in Types, NEW ser, NEW dec, NEW rd, NEW rc, NEW o, NEW st, NEW v,
           HasForm(T, v), T.k = "bool"
    PROVE  KindFits(T, ser, dec, rd, rc, o, st, v)
<1>. DEFINE d == DecOf(T, dec, st)
            d1 == ByteOf
            e == SerByte(v)
<1>2. v \in {0, 1} /\ v \in Byte
  BY BaseIs DEF HasForm
<1>3. Serialize(T, ser, o, v) = e
  BY DEF Serialize
<1>4. \A s \in Seq(Byte) : d[s] = IF d1[s].err = "none"
          THEN IF d1[s].val > 1 THEN Bad("BadTag") ELSE Got(d1[s].val, d1[s].rest)
          ELSE d1[s]
  BY DEF DecOf, ByteOf, Deserialize, DecBool, AndThen, IsOk
<1>5. ReadableOf(T, rd, v) /\ ReceivedOf(T, rc, v) = v
  BY SimpleReadable DEF Simple
<1>6. Fits(e, d1, TRUE, v)
  BY <1>2, FitsByte
<1>. HIDE DEF d, d1, e
<1>7. ASSUME NEW s \in Seq(Byte), d1[s].err # "none" PROVE d[s] = d1[s]
  BY <1>4, <1>7
<1>8. ASSUME NEW s \in Seq(Byte), NEW r, d1[s] = Got(v, r) PROVE d[s] = Got(v, r)
  BY <1>2, <1>4, <1>8, GotIs
<1>9. Follows(d, d1, v, v)
  BY <1>7, <1>8, MapIs
<1>10. Fits(e, d, TRUE, v)
  BY <1>6, <1>9, FitsAfter
<1>. QED
  BY <1>3, <1>5, <1>10, FitsSame DEF KindFits, d

\* An ObjectId, as long as its type says.
LEMMA ObjectIdFits ==
    ASSUME NEW T \in Types, NEW ser, NEW dec, NEW rd, NEW rc, NEW o, NEW st, NEW v,
           HasForm(T, v), T.k = "objectid"
    PROVE  KindFits(T, ser, dec, rd, rc, o, st, v)
<1>. DEFINE d == DecOf(T, dec, st)
<1>1. v \in Seq(Byte) /\ Len(v) = T.w
  BY DEF HasForm
<1>2. Serialize(T, ser, o, v) = OneChunk(v)
  BY DEF Serialize, SerObjectId
<1>3. TakesOr(d, T.w, "UnexpectedEof")
  BY DEF TakesOr, DecOf, Deserialize, DecObjectId
<1>4. ReadableOf(T, rd, v) /\ ReceivedOf(T, rc, v) = v
  BY SimpleReadable DEF Simple
<1>. HIDE DEF d
<1>5. Fits(OneChunk(v), d, TRUE, v)
  BY <1>1, <1>3, FitsTaken DEF CutErrors
<1>. QED
  BY <1>2, <1>4, <1>5, FitsSame DEF KindFits, d

-----------------------------------------------------------------------------
(* Counted parts.                                                          *)

\* DecCounted and DecBytes as functions of the bytes.
CountedOf(d) == [s \in Seq(Byte) |-> DecCounted(d, s)]
BytesOf == [s \in Seq(Byte) |-> DecBytes(s)]

\* A length and that many bytes.
LEMMA BytesFit ==
    ASSUME NEW v \in Seq(Byte)
    PROVE  Fits(Then(SerLen(Len(v)), OneChunk(v)), BytesOf, TRUE, v)
<1>. DEFINE n == Len(v)
            d1 == UintOf(LenBytes)
            d2 == ReadN(n)
            d == BytesOf
<1>0. n \in Nat
  BY LenProperties
<1>1. \A s \in Seq(Byte) : d[s] = IF d1[s].err = "none" THEN ReadExact(d1[s].rest, d1[s].val) ELSE d1[s]
  BY DEF BytesOf, UintOf, DecBytes, Bulk, AndThen, IsOk
<1>2. \A r \in Seq(Byte) : d2[r] = ReadExact(r, n)
  BY DEF ReadN
<1>3. Fits(SerLen(n), d1, TRUE, n)
  BY <1>0, FitsLen
<1>4. Fits(OneChunk(v), d2, TRUE, v)
  BY FitsRead
<1>. HIDE DEF d, d1, d2, n
<1>5. Link(d, d1, n, d2, v, v)
  <2>1. ASSUME NEW s \in Seq(Byte), d1[s].err # "none" PROVE d[s].err = d1[s].err
    BY <1>1, <2>1
  <2>2. ASSUME NEW s \in Seq(Byte), NEW r \in Seq(Byte), d1[s] = Got(n, r) PROVE d[s] = d2[r]
    BY <1>1, <1>2, <2>2, GotIs
  <2>. QED
    BY <2>1, <2>2 DEF Link
<1>6. Fits(Then(SerLen(n), OneChunk(v)), d, TRUE /\ TRUE, v)
  <2>. DEFINE e1 == SerLen(n)
              e2 == OneChunk(v)
              ok == TRUE
  <2>1. Fits(e1, d1, ok, n) /\ Fits(e2, d2, ok, v)
    BY <1>3, <1>4
  <2>. HIDE DEF e1, e2, ok
  <2>2. Fits(Then(e1, e2), d, ok /\ ok, v)
    BY <1>5, <2>1, FitsBoth
  <2>. QED
    BY <2>2 DEF e1, e2, ok
<1>. QED
  BY <1>6 DEF n, d

\* A length and that many parts.
LEMMA CountedFit ==
    ASSUME NEW n \in Nat, NEW es, es = [i \in 1..n |-> es[i]], NEW d0, NEW ws, NEW ok \in SUBSET Nat,
           \A i \in 1..n : Fits(es[i], d0, i \in ok, ws[i])
    PROVE  Fits(Then(SerLen(n), InSequence(es)), CountedOf(d0), 1..n \subseteq ok, FirstOf(ws, n))
<1>. DEFINE ds == [i \in 1..n |-> d0]
            d1 == UintOf(LenBytes)
            d2 == EachOf(FirstOf(ds, n))
            d == CountedOf(d0)
            w == FirstOf(ws, n)
            all == 1..n \subseteq ok
<1>1. FirstOf(ds, n) = ds /\ \A i \in 1..n : ds[i] = d0
  BY DEF FirstOf
<1>2. Fits(InSequence(es), d2, all, w)
  <2>1. \A i \in 1..n : Fits(es[i], ds[i], i \in ok, ws[i])
    BY <1>1
  <2>. HIDE DEF ds
  <2>. QED
    BY <2>1, FitsEach
<1>3. Fits(SerLen(n), d1, TRUE, n)
  BY FitsLen
<1>4. \A s \in Seq(Byte) : d[s] = IF d1[s].err = "none" THEN DecEach([i \in 1..d1[s].val |-> d0], d1[s].rest) ELSE d1[s]
  BY DEF CountedOf, UintOf, DecCounted, AndThen, IsOk
<1>5. \A r \in Seq(Byte) : d2[r] = DecEach([i \in 1..n |-> d0], r)
  BY <1>1 DEF EachOf
<1>. HIDE DEF d, d1, d2, ds, all, w
<1>6. Link(d, d1, n, d2, w, w)
  <2>1. ASSUME NEW s \in Seq(Byte), d1[s].err # "none" PROVE d[s].err = d1[s].err
    BY <1>4, <2>1
  <2>2. ASSUME NEW s \in Seq(Byte), NEW r \in Seq(Byte), d1[s] = Got(n, r) PROVE d[s] = d2[r]
    <3>1. d1[s].err = "none" /\ d1[s].val = n /\ d1[s].rest = r
      BY <2>2, GotIs
    <3>2. d[s] = DecEach([i \in 1..d1[s].val |-> d0], d1[s].rest)
      BY <1>4, <3>1
    <3>. QED
      BY <1>5, <3>1, <3>2
  <2>. QED
    BY <2>1, <2>2 DEF Link
<1>7. Fits(Then(SerLen(n), InSequence(es)), d, TRUE /\ all, w)
  <2>. DEFINE e1 == SerLen(n)
              e2 == InSequence(es)
              yes == TRUE
  <2>1. Fits(e1, d1, yes, n) /\ Fits(e2, d2, all, w)
    BY <1>2, <1>3
  <2>. HIDE DEF e1, e2, yes
  <2>2. Fits(Then(e1, e2), d, yes /\ all, w)
    BY <1>6, <2>1, FitsBoth
  <2>. QED
    BY <2>2 DEF e1, e2, yes
<1>. QED
  BY <1>7 DEF d, w, all

\* No buffer at all.
LEMMA NothingIs == IsEnc(Writes(<<>>)) /\ Writes(<<>>).err = "none" /\ Bytes(Writes(<<>>)) = <<>>
<1>1. <<>> \in Seq(Seq(Byte))
  BY EmptySeq
<1>. QED
  BY <1>1, FlatNone DEF IsEnc, Writes, Bytes, Reserved

\* What is written the same fits the same.
LEMMA FitsBytes ==
    ASSUME NEW e, NEW e2, NEW d, NEW ok, NEW w, Fits(e, d, ok, w), IsEnc(e2),
           e2.err = "none" => e.err = "none" /\ Bytes(e2) = Bytes(e)
    PROVE  Fits(e2, d, ok, w)
BY DEF Fits

\* Elements without a size are refused by both.
LEMMA CheckedFits ==
    ASSUME NEW U, NEW e, NEW d1, NEW ok, NEW w, Fits(e, d1, ok, w), NEW d,
           \A s \in Seq(Byte) : d[s] = CheckedZst(U, d1[s])
    PROVE  Fits(Then(CheckZst(U), e), d, ok, w)
<1>1. CASE ZeroSized[U]
  <2>1. Then(CheckZst(U), e) = Fails("ZeroSized")
    BY <1>1, FailsIs DEF CheckZst, Then, Reserved
  <2>. QED
    BY <2>1, FitsFails DEF Reserved
<1>2. CASE ~ZeroSized[U]
  <2>1. CheckZst(U) = Writes(<<>>)
    BY <1>2 DEF CheckZst
  <2>2. \A s \in Seq(Byte) : d[s] = d1[s]
    BY <1>2 DEF CheckedZst
  <2>3. IsEnc(e) /\ Bytes(e) \in Seq(Byte)
    BY EncBytes DEF Fits
  <2>4. IsEnc(Then(CheckZst(U), e))
    BY <2>1, <2>3, NothingIs, ThenBytes
  <2>5. Then(CheckZst(U), e).err = "none" => e.err = "none" /\ Bytes(Then(CheckZst(U), e)) = Bytes(e)
    <3>. DEFINE z == CheckZst(U)
                b == Bytes(e)
    <3>1. IsEnc(z) /\ z.err = "none" /\ Bytes(z) = <<>>
      BY <2>1, NothingIs
    <3>2. <<>> \o b = b
      BY <2>3, ConcatEmptySeq
    <3>. HIDE DEF z
    <3>3. Then(z, e).err = "none" => e.err = "none" /\ Bytes(Then(z, e)) = Bytes(z) \o b
      BY <2>3, <3>1, ThenBytes
    <3>4. Bytes(z) \o b = b
      BY <3>1, <3>2
    <3>. QED
      BY <3>3, <3>4 DEF z
  <2>6. Fits(Then(CheckZst(U), e), d1, ok, w)
    <3>. DEFINE e2 == Then(CheckZst(U), e)
    <3>1. IsEnc(e2) /\ (e2.err = "none" => e.err = "none" /\ Bytes(e2) = Bytes(e))
      BY <2>4, <2>5
    <3>. HIDE DEF e2
    <3>2. Fits(e2, d1, ok, w)
      BY <3>1, FitsBytes
    <3>. QED
      BY <3>2 DEF e2
  <2>7. Follows(d, d1, w, w)
    BY <2>2 DEF Follows
  <2>. QED
    BY <2>6, <2>7, FitsAfter
<1>. QED
  BY <1>1, <1>2

\* A Box<[T]> is written all the same.
LEMMA UncheckedFits ==
    ASSUME NEW U, NEW e, NEW d1, NEW ok, NEW w, Fits(e, d1, ok, w), NEW d,
           \A s \in Seq(Byte) : d[s] = CheckedZst(U, d1[s])
    PROVE  Fits(e, d, ~ZeroSized[U] /\ ok, w)
<1>1. CASE ZeroSized[U]
  <2>1. \A s \in Seq(Byte) : d[s].err = "ZeroSized"
    BY <1>1, BadIs DEF CheckedZst
  <2>2. IsEnc(e) /\ Bytes(e) \in Seq(Byte)
    BY EncBytes DEF Fits
  <2>3. Refuses(d, Bytes(e))
    <3>1. \A t \in Seq(Byte) : Bytes(e) \o t \in Seq(Byte)
      BY <2>2, ConcatProperties
    <3>. QED
      BY <2>1, <3>1 DEF Refuses
  <2>. QED
    BY <1>1, <2>2, <2>3 DEF Fits, Codes
<1>2. CASE ~ZeroSized[U]
  <2>1. \A s \in Seq(Byte) : d[s] = d1[s]
    BY <1>2 DEF CheckedZst
  <2>2. Follows(d, d1, w, w)
    BY <2>1 DEF Follows
  <2>3. Fits(e, d, ok, w)
    BY <2>2, FitsAfter
  <2>. QED
    BY <1>2, <2>3, FitsSame
<1>. QED
  BY <1>1, <1>2

-----------------------------------------------------------------------------
(* Elements.                                                               *)

\* Bytes that are written one by one.
LEMMA BytesApart ==
    ASSUME NEW v \in Seq(Byte), NEW parts, parts = [i \in 1..Len(v) |-> parts[i]],
           \A i \in 1..Len(v) : parts[i] = OneChunk(<<v[i]>>)
    PROVE  /\ IsEnc(InSequence(parts)) /\ InSequence(parts).err = "none"
           /\ Bytes(InSequence(parts)) = v
<1>. DEFINE n == Len(v)
            bs == [i \in 1..n |-> Bytes(parts[i])]
<1>0. n \in Nat /\ \A i \in 1..n : v[i] \in Byte
  BY LenProperties
<1>1. ASSUME NEW i \in 1..n
      PROVE  IsEnc(parts[i]) /\ parts[i].err = "none" /\ Bytes(parts[i]) = <<v[i]>>
  <2>1. <<v[i]>> \in Seq(Byte)
    BY <1>0
  <2>. DEFINE b == <<v[i]>>
  <2>2. parts[i] = OneChunk(b) /\ b \in Seq(Byte)
    BY <2>1
  <2>. HIDE DEF b
  <2>3. IsEnc(parts[i]) /\ parts[i].err = "none" /\ Bytes(parts[i]) = b
    BY <2>2, OneChunkIs
  <2>. QED
    BY <2>3 DEF b
<1>2. /\ IsEnc(InSequence(parts)) /\ InSequence(parts).err = "none"
      /\ Bytes(InSequence(parts)) = FlattenSeq(bs)
  BY <1>0, <1>1, InSequenceIs
<1>3. \A i \in 1..n : bs[i] = <<v[i]>> /\ bs[i] \in Seq(Byte)
  <2>1. ASSUME NEW i \in 1..n PROVE bs[i] = <<v[i]>> /\ bs[i] \in Seq(Byte)
    <3>1. bs[i] = Bytes(parts[i])
      OBVIOUS
    <3>2. <<v[i]>> \in Seq(Byte)
      BY <1>0
    <3>. HIDE DEF bs
    <3>3. bs[i] = <<v[i]>>
      BY <1>1, <3>1
    <3>. QED
      BY <3>2, <3>3
  <2>. QED
    BY <2>1
<1>4. bs \in Seq(Seq(Byte)) /\ Len(bs) = n
  <2>. DEFINE W == Seq(Byte)
  <2>1. bs = [i \in 1..n |-> bs[i]]
    OBVIOUS
  <2>2. \A i \in 1..n : bs[i] \in W
    BY <1>3
  <2>. HIDE DEF W, bs
  <2>3. bs \in Seq(W) /\ Len(bs) = n
    BY <1>0, <2>1, <2>2, FunctionInSeq
  <2>. QED
    BY <2>3 DEF W
<1>. HIDE DEF bs, n
<1>. DEFINE T == {m \in 0..n : Flat(bs, m) = SubSeq(v, 1, m)}
<1>5. 0 \in T
  <2>1. Flat(bs, 0) = <<>>
    BY <1>4, FlatStep
  <2>2. SubSeq(v, 1, 0) = <<>>
    BY SubSeqEmpty
  <2>3. Flat(bs, 0) = SubSeq(v, 1, 0)
    BY <2>1, <2>2, Zenon
  <2>4. 0 \in 0..n
    BY <1>0
  <2>. QED
    BY <2>3, <2>4
<1>6. ASSUME NEW m \in 0..n, m > 0, m - 1 \in T PROVE m \in T
  <2>1. m \in 1..n /\ m \in 1..Len(v) /\ m \in 1..Len(bs) /\ m - 1 \in 0..Len(v)
    BY <1>0, <1>4, <1>6 DEF n
  <2>2. Flat(bs, m) = Flat(bs, m - 1) \o bs[m] /\ Flat(bs, m - 1) = SubSeq(v, 1, m - 1)
    BY <1>4, <1>6, <2>1, FlatStep
  <2>3. SubSeq(v, 1, m) = Append(SubSeq(v, 1, m - 1), v[m]) /\ SubSeq(v, 1, m - 1) \in Seq(Byte)
    BY <2>1, FirstNext, FirstN
  <2>4. Append(SubSeq(v, 1, m - 1), v[m]) = SubSeq(v, 1, m - 1) \o <<v[m]>>
    BY <1>0, <2>1, <2>3, AppendIsConcat
  <2>. QED
    BY <1>3, <2>1, <2>2, <2>3, <2>4
<1>7. T = 0..n
  <2>1. T \in SUBSET (0..n)
    OBVIOUS
  <2>. HIDE DEF T
  <2>. QED
    BY <1>0, <1>5, <1>6, <2>1, UpTo
<1>8. Flat(bs, n) = SubSeq(v, 1, n)
  BY <1>0, <1>7
<1>9. FlattenSeq(bs) = v
  BY <1>4, <1>8, FlatStep, SubSeqFull DEF n
<1>. QED
  BY <1>2, <1>9

\* The bytes among the types are written as they are.
Plain(U, ser, rd, rc, v) ==
    U = U8 => \A i \in DOMAIN v :
        v[i] \in Byte /\ ser[U][v[i]] = OneChunk(<<v[i]>>) /\ rd[U][v[i]] /\ rc[U][v[i]] = v[i]

\* Each element fits, and bytes are bytes.
ElementsFit(U, ser, dec, rd, rc, v) ==
    /\ IsSequence(v) /\ Plain(U, ser, rd, rc, v)
    /\ \A i \in DOMAIN v : Fits(ser[U][v[i]], dec[U], rd[U][v[i]], rc[U][v[i]])

\* There is room for each element; each is received; what each is serialized to; the
\* two ways a Vec is read.
AllReadable(U, rd, v) == \A i \in DOMAIN v : rd[U][v[i]]
AllReceived(U, rc, v) == [i \in DOMAIN v |-> rc[U][v[i]]]
PartsOfAll(U, ser, v) == [i \in DOMAIN v |-> ser[U][v[i]]]
VecOfU(U, dec) == [s \in Seq(Byte) |-> IF U = U8 THEN DecBytes(s) ELSE DecCounted(dec[U], s)]

\* Bytes are written and received as they are.
LEMMA PlainBytes ==
    ASSUME NEW ser, NEW dec, NEW rd, NEW rc, NEW v, ElementsFit(U8, ser, dec, rd, rc, v)
    PROVE  /\ v \in Seq(Byte) /\ AllReceived(U8, rc, v) = v /\ AllReadable(U8, rd, v)
           /\ IsEnc(InSequence(PartsOfAll(U8, ser, v))) /\ InSequence(PartsOfAll(U8, ser, v)).err = "none"
           /\ Bytes(InSequence(PartsOfAll(U8, ser, v))) = v
<1>. DEFINE n == Len(v)
            parts == PartsOfAll(U8, ser, v)
<1>1. n \in Nat /\ DOMAIN v = 1..n /\ v = [i \in 1..n |-> v[i]]
  BY DEF ElementsFit, IsSequence, IsFunction
<1>2. \A i \in 1..n : v[i] \in Byte /\ ser[U8][v[i]] = OneChunk(<<v[i]>>) /\ rd[U8][v[i]] /\ rc[U8][v[i]] = v[i]
  BY <1>1 DEF ElementsFit, Plain
<1>3. v \in Seq(Byte)
  BY <1>1, <1>2, FunctionInSeq
<1>4. AllReadable(U8, rd, v)
  BY <1>1, <1>2 DEF AllReadable
<1>5. AllReceived(U8, rc, v) = v
  BY <1>1, <1>2 DEF AllReceived
<1>6. parts = [i \in 1..n |-> parts[i]] /\ \A i \in 1..n : parts[i] = OneChunk(<<v[i]>>)
  BY <1>1, <1>2 DEF PartsOfAll
<1>7. IsEnc(InSequence(parts)) /\ InSequence(parts).err = "none" /\ Bytes(InSequence(parts)) = v
  <2>. HIDE DEF parts
  <2>. QED
    BY <1>3, <1>6, BytesApart
<1>. QED
  BY <1>3, <1>4, <1>5, <1>7

\* They are read one by one.
LEMMA EachFit ==
    ASSUME NEW U, NEW ser, NEW dec, NEW rd, NEW rc, NEW v, ElementsFit(U, ser, dec, rd, rc, v)
    PROVE  /\ Fits(InSequence(PartsOfAll(U, ser, v)), EachOf([i \in 1..Len(v) |-> dec[U]]),
                   AllReadable(U, rd, v), AllReceived(U, rc, v))
           /\ Fits(Then(SerLen(Len(v)), InSequence(PartsOfAll(U, ser, v))), CountedOf(dec[U]),
                   AllReadable(U, rd, v), AllReceived(U, rc, v))
<1>. DEFINE n == Len(v)
            es == PartsOfAll(U, ser, v)
            ws == AllReceived(U, rc, v)
            ds == [i \in 1..n |-> dec[U]]
            ok == {i \in 1..n : rd[U][v[i]]}
            d0 == dec[U]
<1>1. n \in Nat /\ DOMAIN v = 1..n
  BY DEF ElementsFit, IsSequence
<1>2. /\ es = [i \in 1..n |-> es[i]] /\ \A i \in 1..n : es[i] = ser[U][v[i]]
      /\ ws = FirstOf(ws, n) /\ \A i \in 1..n : ws[i] = rc[U][v[i]]
      /\ ds = FirstOf(ds, n) /\ \A i \in 1..n : ds[i] = d0
      /\ ok \in SUBSET Nat
  BY <1>1 DEF PartsOfAll, AllReceived, FirstOf
<1>3. \A i \in 1..n : Fits(es[i], d0, i \in ok, ws[i])
  <2>1. ASSUME NEW i \in 1..n PROVE Fits(es[i], d0, i \in ok, ws[i])
    <3>1. Fits(ser[U][v[i]], dec[U], rd[U][v[i]], rc[U][v[i]])
      BY <1>1 DEF ElementsFit
    <3>2. i \in ok <=> rd[U][v[i]]
      OBVIOUS
    <3>. DEFINE ok1 == rd[U][v[i]]
                ok2 == i \in ok
                e == ser[U][v[i]]
                w == rc[U][v[i]]
    <3>3. Fits(e, d0, ok1, w) /\ (ok1 <=> ok2)
      BY <3>1, <3>2
    <3>. HIDE DEF ok1, ok2, e, w, d0
    <3>4. Fits(e, d0, ok2, w)
      BY <3>3, FitsSame
    <3>. QED
      BY <1>2, <3>4 DEF ok2, e, w
  <2>. QED
    BY <2>1
<1>4. 1..n \subseteq ok <=> AllReadable(U, rd, v)
  BY <1>1 DEF AllReadable
<1>. HIDE DEF es, ws, ds, ok, n, d0
<1>5. \A i \in 1..n : Fits(es[i], ds[i], i \in ok, ws[i])
  BY <1>2, <1>3
<1>6. Fits(InSequence(es), EachOf(ds), 1..n \subseteq ok, ws)
  <2>1. Fits(InSequence(es), EachOf(FirstOf(ds, n)), 1..n \subseteq ok, FirstOf(ws, n))
    BY <1>1, <1>2, <1>5, FitsEach
  <2>. QED
    BY <1>2, <2>1
<1>7. Fits(Then(SerLen(n), InSequence(es)), CountedOf(d0), 1..n \subseteq ok, ws)
  <2>1. Fits(Then(SerLen(n), InSequence(es)), CountedOf(d0), 1..n \subseteq ok, FirstOf(ws, n))
    BY <1>1, <1>2, <1>3, CountedFit
  <2>. QED
    BY <1>2, <2>1
<1>. DEFINE all == 1..n \subseteq ok
            all2 == AllReadable(U, rd, v)
            e1 == InSequence(es)
            e2 == Then(SerLen(n), InSequence(es))
            f1 == EachOf(ds)
            f2 == CountedOf(d0)
<1>8. Fits(e1, f1, all, ws) /\ Fits(e2, f2, all, ws) /\ (all <=> all2)
  BY <1>4, <1>6, <1>7
<1>. HIDE DEF all, all2, e1, e2, f1, f2
<1>9. Fits(e1, f1, all2, ws)
  BY <1>8, FitsSame
<1>10. Fits(e2, f2, all2, ws)
  BY <1>8, FitsSame
<1>. QED
  BY <1>9, <1>10 DEF all2, e1, e2, f1, f2, es, ws, ds, n, d0

\* A vector of them, written element by element or in one go.
LEMMA VecFit ==
    ASSUME NEW U, NEW ser, NEW dec, NEW rd, NEW rc, NEW v, ElementsFit(U, ser, dec, rd, rc, v)
    PROVE  /\ Fits(Then(SerLen(Len(v)), InSequence(PartsOfAll(U, ser, v))), VecOfU(U, dec),
                   AllReadable(U, rd, v), AllReceived(U, rc, v))
           /\ Fits(SerSlice(U, ser, v), VecOfU(U, dec), AllReadable(U, rd, v), AllReceived(U, rc, v))
<1>1. CASE U # U8
  <2>1. VecOfU(U, dec) = CountedOf(dec[U])
    BY <1>1 DEF VecOfU, CountedOf
  <2>2. SerSlice(U, ser, v) = Then(SerLen(Len(v)), InSequence(PartsOfAll(U, ser, v)))
    BY <1>1 DEF SerSlice, SerElements, PartsOfAll
  <2>. QED
    BY <2>1, <2>2, EachFit
<1>2. CASE U = U8
  <2>. DEFINE e1 == SerLen(Len(v))
              e2 == OneChunk(v)
              e3 == InSequence(PartsOfAll(U, ser, v))
              d == VecOfU(U, dec)
  <2>1. /\ v \in Seq(Byte) /\ AllReceived(U, rc, v) = v /\ AllReadable(U, rd, v)
        /\ IsEnc(e3) /\ e3.err = "none" /\ Bytes(e3) = v
    BY <1>2, PlainBytes
  <2>2. d = BytesOf
    BY <1>2 DEF VecOfU, BytesOf
  <2>3. SerSlice(U, ser, v) = Then(e1, e2)
    BY <1>2 DEF SerSlice, SerElements
  <2>4. Fits(Then(e1, e2), d, TRUE, v)
    BY <2>1, <2>2, BytesFit
  <2>5. IsEnc(e2) /\ e2.err = "none" /\ Bytes(e2) = v
    BY <2>1, OneChunkIs
  <2>6. IsEnc(e1)
    <3>1. Len(v) \in Nat
      BY <2>1, LenProperties
    <3>. QED
      BY <3>1, FitsLen DEF Fits
  <2>. HIDE DEF e1, e2, e3, d
  <2>7. Fits(Then(e1, e3), d, TRUE, v)
    <3>. DEFINE a == Then(e1, e2)
                b == Then(e1, e3)
    <3>1. IsEnc(b) /\ (b.err = "none" => a.err = "none" /\ Bytes(b) = Bytes(a))
      BY <2>1, <2>5, <2>6, ThenBytes
    <3>. HIDE DEF a, b
    <3>2. Fits(b, d, TRUE, v)
      BY <2>4, <3>1, FitsBytes DEF a
    <3>. QED
      BY <3>2 DEF b
  <2>8. Fits(Then(e1, e2), d, AllReadable(U, rd, v), AllReceived(U, rc, v))
    BY <2>1, <2>4, FitsSame
  <2>9. Fits(Then(e1, e3), d, AllReadable(U, rd, v), AllReceived(U, rc, v))
    BY <2>1, <2>7, FitsSame
  <2>. QED
    BY <2>3, <2>8, <2>9 DEF d, e1, e3
<1>. QED
  BY <1>1, <1>2

\* String: a length and bytes that are text.
LEMMA StringFits ==
    ASSUME NEW T \in Types, NEW ser, NEW dec, NEW rd, NEW rc, NEW o, NEW st, NEW v,
           HasForm(T, v), T.k = "string"
    PROVE  KindFits(T, ser, dec, rd, rc, o, st, v)
<1>. DEFINE d == DecOf(T, dec, st)
            d1 == BytesOf
            e == SerString(v)
<1>1. v \in Seq(Byte) /\ ValidText(v)
  BY DEF HasForm
<1>2. Serialize(T, ser, o, v) = e
  BY DEF Serialize
<1>3. \A s \in Seq(Byte) : d[s] = IF d1[s].err = "none"
          THEN IF ValidText(d1[s].val) THEN Got(d1[s].val, d1[s].rest) ELSE Bad("BadText")
          ELSE d1[s]
  BY DEF DecOf, BytesOf, Deserialize, DecString, AndThen, IsOk
<1>4. ReadableOf(T, rd, v) /\ ReceivedOf(T, rc, v) = v
  BY SimpleReadable DEF Simple
<1>5. Fits(e, d1, TRUE, v)
  BY <1>1, BytesFit DEF SerString
<1>. HIDE DEF d, d1, e
<1>6. ASSUME NEW s \in Seq(Byte), d1[s].err # "none" PROVE d[s] = d1[s]
  BY <1>3, <1>6
<1>7. ASSUME NEW s \in Seq(Byte), NEW r, d1[s] = Got(v, r) PROVE d[s] = Got(v, r)
  BY <1>1, <1>3, <1>7, GotIs
<1>8. Follows(d, d1, v, v)
  BY <1>6, <1>7, MapIs
<1>9. Fits(e, d, TRUE, v)
  BY <1>5, <1>8, FitsAfter
<1>. QED
  BY <1>2, <1>4, <1>9, FitsSame DEF KindFits, d

\* A type with one part, the same value.
LEMMA NonzeroFits ==
    ASSUME NEW T \in Types, NEW ser, NEW dec, NEW rd, NEW rc, NEW o, NEW st, NEW v,
           HasForm(T, v), T.k = "nonzero", PartsFit(T, ser, dec, rd, rc, v), rc[T.of][v] = v
    PROVE  KindFits(T, ser, dec, rd, rc, o, st, v)
<1>. DEFINE d == DecOf(T, dec, st)
            d1 == dec[T.of]
            e == ser[T.of][v]
            ok == rd[T.of][v]
<1>1. v # 0
  BY DEF HasForm
<1>2. Serialize(T, ser, o, v) = e
  BY DEF Serialize
<1>3. \A s \in Seq(Byte) : d[s] = IF d1[s].err = "none"
          THEN IF d1[s].val = 0 THEN Bad("ZeroValue") ELSE Got(d1[s].val, d1[s].rest)
          ELSE d1[s]
  BY DEF DecOf, Deserialize, DecNonZero, AndThen, IsOk
<1>4. Components(T, v) = {<<T.of, v>>}
  BY DEF Components, Simple
<1>5. (ReadableOf(T, rd, v) <=> ok) /\ ReceivedOf(T, rc, v) = v
  BY <1>4 DEF ReadableOf, ReceivedOf
<1>6. Fits(e, d1, ok, v)
  BY <1>4 DEF PartsFit
<1>. HIDE DEF d, d1, e, ok
<1>7. ASSUME NEW s \in Seq(Byte), d1[s].err # "none" PROVE d[s] = d1[s]
  BY <1>3, <1>7
<1>8. ASSUME NEW s \in Seq(Byte), NEW r, d1[s] = Got(v, r) PROVE d[s] = Got(v, r)
  BY <1>1, <1>3, <1>8, GotIs
<1>9. Follows(d, d1, v, v)
  BY <1>7, <1>8, MapIs
<1>10. Fits(e, d, ok, v)
  BY <1>6, <1>9, FitsAfter
<1>. QED
  BY <1>2, <1>5, <1>10, FitsSame DEF KindFits, d

\* A type of another crate, behind the bytes its value is made of.
LEMMA ThirdFits ==
    ASSUME NEW T \in Types, NEW ser, NEW dec, NEW rd, NEW rc, NEW o, NEW st, NEW v,
           HasForm(T, v), T.k = "third", PartsFit(T, ser, dec, rd, rc, v)
    PROVE  KindFits(T, ser, dec, rd, rc, o, st, v)
<1>. DEFINE d == DecOf(T, dec, st)
            d1 == dec[T.of]
            x == v[1]
            e == ser[T.of][x]
            ok == rd[T.of][x]
            y == rc[T.of][x]
            w == <<y>>
<1>1. v = <<x>> /\ DOMAIN v = {1}
  <2>1. v = <<x>>
    BY DEF HasForm
  <2>2. DOMAIN <<x>> = {1}
    OBVIOUS
  <2>. QED
    BY <2>1, <2>2
<1>2. Serialize(T, ser, o, v) = e
  BY DEF Serialize, SerializeWith
<1>3. \A s \in Seq(Byte) : d[s] = IF d1[s].err = "none" THEN Got(<<d1[s].val>>, d1[s].rest) ELSE d1[s]
  BY DEF DecOf, Deserialize, DeserializeWith, Map, IsOk
<1>4. Components(T, v) = {<<T.of, x>>}
  BY <1>1 DEF Components, Simple
<1>5. ReadableOf(T, rd, v) <=> ok
  BY <1>4 DEF ReadableOf
<1>6. ReceivedOf(T, rc, v) = w
  <2>1. ReceivedOf(T, rc, v) = [i \in DOMAIN v |-> rc[T.of][v[i]]]
    BY DEF ReceivedOf
  <2>2. [i \in {1} |-> rc[T.of][v[i]]] = <<rc[T.of][v[1]]>>
    OBVIOUS
  <2>. QED
    BY <1>1, <2>1, <2>2
<1>7. Fits(e, d1, ok, y)
  BY <1>4 DEF PartsFit
<1>. HIDE DEF d, d1, e, ok, y
<1>8. ASSUME NEW s \in Seq(Byte), d1[s].err # "none" PROVE d[s] = d1[s]
  BY <1>3, <1>8
<1>9. ASSUME NEW s \in Seq(Byte), NEW r, d1[s] = Got(y, r) PROVE d[s] = Got(w, r)
  BY <1>3, <1>9, GotIs
<1>. HIDE DEF w
<1>10. Follows(d, d1, y, w)
  BY <1>8, <1>9, MapIs
<1>11. Fits(e, d, ok, w)
  BY <1>7, <1>10, FitsAfter
<1>. QED
  BY <1>2, <1>5, <1>6, <1>11, FitsSame DEF KindFits, d

\* RefCell: an error while it is borrowed, and never borrowed when it is read.
LEMMA RefCellFits ==
    ASSUME NEW T \in Types, NEW ser, NEW dec, NEW rd, NEW rc, NEW o, NEW st, NEW v,
           HasForm(T, v), T.k = "refcell", PartsFit(T, ser, dec, rd, rc, v)
    PROVE  KindFits(T, ser, dec, rd, rc, o, st, v)
<1>. DEFINE d == DecOf(T, dec, st)
            d1 == dec[T.of]
            x == v[2]
            e == ser[T.of][x]
            ok == rd[T.of][x]
            y == rc[T.of][x]
            w == <<FALSE, y>>
<1>2. Serialize(T, ser, o, v) = IF v[1] THEN Fails("Borrowed") ELSE e
  BY DEF Serialize, SerRefCell
<1>3. \A s \in Seq(Byte) : d[s] = IF d1[s].err = "none" THEN Got(<<FALSE, d1[s].val>>, d1[s].rest) ELSE d1[s]
  BY DEF DecOf, Deserialize, DecRefCell, Map, IsOk
<1>4. Components(T, v) = {<<T.of, x>>}
  BY DEF Components, Simple
<1>5. ReadableOf(T, rd, v) <=> ok
  BY <1>4 DEF ReadableOf
<1>6. ReceivedOf(T, rc, v) = w
  BY DEF ReceivedOf
<1>7. Fits(e, d1, ok, y)
  BY <1>4 DEF PartsFit
<1>. HIDE DEF d, d1, e, ok, y
<1>8. ASSUME NEW s \in Seq(Byte), d1[s].err # "none" PROVE d[s] = d1[s]
  BY <1>3, <1>8
<1>9. ASSUME NEW s \in Seq(Byte), NEW r, d1[s] = Got(y, r) PROVE d[s] = Got(w, r)
  <2>1. d1[s].err = "none" /\ d1[s].val = y /\ d1[s].rest = r
    BY <1>9, GotIs
  <2>2. d[s] = Got(<<FALSE, d1[s].val>>, d1[s].rest)
    BY <1>3, <2>1
  <2>. QED
    BY <2>1, <2>2
<1>. HIDE DEF w
<1>10. Follows(d, d1, y, w)
  BY <1>8, <1>9, MapIs
<1>11. Fits(e, d, ok, w)
  BY <1>7, <1>10, FitsAfter
<1>12. Fits(Fails("Borrowed"), d, ok, w)
  BY FitsFails DEF Reserved
<1>13. Fits(Serialize(T, ser, o, v), d, ok, w)
  BY <1>2, <1>11, <1>12
<1>. QED
  BY <1>5, <1>6, <1>13, FitsSame DEF KindFits, d

\* A skipped field: nothing is written, and its default is read.
LEMMA SkipFits ==
    ASSUME NEW T \in Types, NEW ser, NEW dec, NEW rd, NEW rc, NEW o, NEW st, NEW v, T.k = "skip"
    PROVE  KindFits(T, ser, dec, rd, rc, o, st, v)
<1>. DEFINE d == DecOf(T, dec, st)
            w == Default(T.of)
<1>1. Serialize(T, ser, o, v) = Writes(<<>>)
  BY DEF Serialize, SerSkipped
<1>2. \A s \in Seq(Byte) : d[s] = Got(w, s)
  BY DEF DecOf, Deserialize, DecSkipped
<1>3. ReadableOf(T, rd, v) /\ ReceivedOf(T, rc, v) = w
  BY DEF ReadableOf, ReceivedOf
<1>. HIDE DEF d, w
<1>4. Codes(d, <<>>, TRUE, w)
  BY <1>2, CodesNone
<1>5. Fits(Writes(<<>>), d, TRUE, w)
  BY <1>4, NothingIs DEF Fits
<1>. QED
  BY <1>1, <1>3, <1>5, FitsSame DEF KindFits, d

\* A tag or a flag, and what it announces.
LEMMA TagFits ==
    ASSUME NEW t \in Byte, NEW e, NEW d1, NEW ok, NEW y, Fits(e, d1, ok, y), NEW d, NEW w,
           \A s \in Seq(Byte) : ByteOf[s].err # "none" => d[s] = ByteOf[s],
           \A s, r \in Seq(Byte) : ByteOf[s] = Got(t, r) /\ d1[r].err # "none" => d[s] = d1[r],
           \A s, r \in Seq(Byte) : \A q \in Seq(Byte) :
               ByteOf[s] = Got(t, r) /\ d1[r] = Got(y, q) => d[s] = Got(w, q)
    PROVE  Fits(Then(SerByte(t), e), d, ok, w)
<1>1. Fits(SerByte(t), ByteOf, TRUE, t)
  BY FitsByte
<1>2. Link(d, ByteOf, t, d1, y, w)
  BY DEF Link
<1>. DEFINE f == SerByte(t)
            b == ByteOf
            yes == TRUE
            both == yes /\ ok
<1>4. both <=> ok
  OBVIOUS
<1>6. Fits(f, b, yes, t) /\ Link(d, b, t, d1, y, w)
  BY <1>1, <1>2
<1>. HIDE DEF f, b, yes
<1>3. Fits(Then(f, e), d, both, w)
  BY <1>6, FitsBoth
<1>. HIDE DEF both
<1>5. Fits(Then(f, e), d, ok, w)
  <2>. DEFINE g == Then(f, e)
  <2>1. Fits(g, d, both, w)
    BY <1>3
  <2>. HIDE DEF g
  <2>2. Fits(g, d, ok, w)
    BY <1>4, <2>1, FitsSame
  <2>. QED
    BY <2>2 DEF g
<1>. QED
  BY <1>5 DEF f

\* Zero and one are bytes.
LEMMA ByteSmall == 0 \in Byte /\ 1 \in Byte /\ Byte \subseteq Nat
BY WireAssumption DEF Byte

\* Option: a flag and perhaps a value.
LEMMA OptionFits ==
    ASSUME NEW T \in Types, NEW ser, NEW dec, NEW rd, NEW rc, NEW o, NEW st, NEW v,
           HasForm(T, v), T.k = "option", PartsFit(T, ser, dec, rd, rc, v)
    PROVE  KindFits(T, ser, dec, rd, rc, o, st, v)
<1>. DEFINE d == DecOf(T, dec, st)
            d1 == dec[T.of]
            b == ByteOf
<1>1. Serialize(T, ser, o, v) = IF v = <<>> THEN SerByte(0) ELSE Then(SerByte(1), ser[T.of][v[1]])
  BY DEF Serialize, SerOption
<1>2. \A s \in Seq(Byte) : d[s] = DecOption(T, dec, s)
  BY DEF DecOf, Deserialize
<1>3. \A s \in Seq(Byte) : b[s] = DecByte(s)
  BY DEF ByteOf
<1>4. \A s \in Seq(Byte) : b[s].err # "none" => d[s] = b[s]
  BY <1>2, <1>3 DEF DecOption, AndThen, IsOk
<1>5. CASE v = <<>>
  <2>. DEFINE w == <<>>
  <2>1. Components(T, v) = {}
    <3>1. DOMAIN v = {}
      BY <1>5
    <3>. QED
      BY <3>1 DEF Components, Simple
  <2>2. ReadableOf(T, rd, v)
    BY <2>1 DEF ReadableOf
  <2>3. ReceivedOf(T, rc, v) = w
    <3>1. ReceivedOf(T, rc, v) = [i \in DOMAIN v |-> rc[T.of][v[i]]]
      BY DEF ReceivedOf
    <3>2. DOMAIN v = {} /\ [i \in {} |-> rc[T.of][v[i]]] = <<>>
      BY <1>5
    <3>. QED
      BY <3>1, <3>2
  <2>4. Fits(SerByte(0), b, TRUE, 0)
    BY FitsByte, ByteSmall
  <2>5. ASSUME NEW s \in Seq(Byte), NEW r, b[s] = Got(0, r) PROVE d[s] = Got(w, r)
    <3>1. b[s].err = "none" /\ b[s].val = 0 /\ b[s].rest = r
      BY <2>5, GotIs
    <3>2. d[s] = DecOption(T, dec, s) /\ b[s] = DecByte(s)
      BY <1>2, <1>3
    <3>. HIDE DEF b, d
    <3>. QED
      BY <3>1, <3>2 DEF DecOption, AndThen, IsOk
  <2>. HIDE DEF d, b, w
  <2>6. Follows(d, b, 0, w)
    BY <1>4, <2>5, MapIs
  <2>7. Fits(SerByte(0), d, TRUE, w)
    BY <2>4, <2>6, FitsAfter
  <2>. QED
    BY <1>1, <1>5, <2>2, <2>3, <2>7, FitsSame DEF KindFits, d
<1>6. CASE v # <<>>
  <2>. DEFINE x == v[1]
              e == ser[T.of][x]
              ok == rd[T.of][x]
              y == rc[T.of][x]
              w == <<y>>
  <2>1. v = <<x>> /\ DOMAIN v = {1}
    <3>1. v = <<x>>
      BY <1>6 DEF HasForm
    <3>2. DOMAIN <<x>> = {1}
      OBVIOUS
    <3>. QED
      BY <3>1, <3>2
  <2>2. Components(T, v) = {<<T.of, x>>}
    BY <2>1 DEF Components, Simple
  <2>3. ReadableOf(T, rd, v) <=> ok
    BY <2>2 DEF ReadableOf
  <2>4. ReceivedOf(T, rc, v) = w
    <3>1. ReceivedOf(T, rc, v) = [i \in DOMAIN v |-> rc[T.of][v[i]]]
      BY DEF ReceivedOf
    <3>2. [i \in {1} |-> rc[T.of][v[i]]] = <<rc[T.of][v[1]]>>
      OBVIOUS
    <3>. QED
      BY <2>1, <3>1, <3>2
  <2>5. Fits(e, d1, ok, y)
    BY <2>2 DEF PartsFit
  <2>6. Serialize(T, ser, o, v) = Then(SerByte(1), e)
    BY <1>1, <1>6
  <2>. HIDE DEF d, d1, b, e, ok, y
  <2>10. ASSUME NEW s \in Seq(Byte), NEW r, b[s] = Got(1, r)
        PROVE  d[s] = IF d1[r].err = "none" THEN Got(<<d1[r].val>>, d1[r].rest) ELSE d1[r]
    <3>1. b[s].err = "none" /\ b[s].val = 1 /\ b[s].rest = r
      BY <2>10, GotIs
    <3>2. d[s] = DecOption(T, dec, s) /\ b[s] = DecByte(s)
      BY <1>2, <1>3
    <3>. QED
      BY <3>1, <3>2 DEF DecOption, AndThen, IsOk, Map, d1
  <2>7. ASSUME NEW s \in Seq(Byte), NEW r \in Seq(Byte), b[s] = Got(1, r), d1[r].err # "none"
        PROVE  d[s] = d1[r]
    BY <2>10, <2>7
  <2>8. ASSUME NEW s \in Seq(Byte), NEW r \in Seq(Byte), NEW q \in Seq(Byte), b[s] = Got(1, r), d1[r] = Got(y, q)
        PROVE  d[s] = Got(w, q)
    <3>2. d1[r].err = "none" /\ d1[r].val = y /\ d1[r].rest = q
      BY <2>8, GotIs
    <3>3. d[s] = Got(<<d1[r].val>>, d1[r].rest)
      BY <2>8, <2>10, <3>2
    <3>. QED
      BY <3>2, <3>3
  <2>. HIDE DEF w
  <2>9. Fits(Then(SerByte(1), e), d, ok, w)
    BY <1>4, <2>5, <2>7, <2>8, TagFits, ByteSmall DEF b
  <2>. QED
    BY <2>3, <2>4, <2>6, <2>9, FitsSame DEF KindFits, d
<1>. QED
  BY <1>5, <1>6

\* Result: a flag and a value of one type or the other.
LEMMA ResultFits ==
    ASSUME NEW T \in Types, NEW ser, NEW dec, NEW rd, NEW rc, NEW o, NEW st, NEW v,
           HasForm(T, v), T.k = "result", PartsFit(T, ser, dec, rd, rc, v)
    PROVE  KindFits(T, ser, dec, rd, rc, o, st, v)
<1>. DEFINE d == DecOf(T, dec, st)
            b == ByteOf
            t == v[1]
            U == IF t = 0 THEN T.err ELSE T.ok
            d1 == dec[U]
            x == v[2]
            e == ser[U][x]
            ok == rd[U][x]
            y == rc[U][x]
            w == <<t, y>>
<1>1. t \in {0, 1} /\ t \in Byte
  BY ByteSmall DEF HasForm
<1>2. Serialize(T, ser, o, v) = Then(SerByte(t), e)
  BY DEF Serialize, SerResult
<1>3. \A s \in Seq(Byte) : d[s] = DecResult(T, dec, s)
  BY DEF DecOf, Deserialize
<1>4. \A s \in Seq(Byte) : b[s].err # "none" => d[s] = b[s]
  BY <1>3 DEF DecResult, AndThen, IsOk, ByteOf
<1>5. ASSUME NEW s \in Seq(Byte), NEW r, b[s] = Got(t, r)
      PROVE  d[s] = IF d1[r].err = "none" THEN Got(<<t, d1[r].val>>, d1[r].rest) ELSE d1[r]
  <2>1. b[s].err = "none" /\ b[s].val = t /\ b[s].rest = r
    BY <1>5, GotIs
  <2>2. ~(t > 1)
    BY <1>1
  <2>3. d[s] = DecResult(T, dec, s) /\ b[s] = DecByte(s)
    BY <1>3 DEF ByteOf
  <2>. HIDE DEF t, b, d
  <2>. QED
    BY <2>1, <2>2, <2>3 DEF DecResult, AndThen, IsOk, Map
<1>6. Components(T, v) = {<<U, x>>}
  BY DEF Components, Simple
<1>. HIDE DEF U
<1>7. ReadableOf(T, rd, v) <=> ok
  BY <1>6 DEF ReadableOf
<1>8. ReceivedOf(T, rc, v) = w
  BY DEF ReceivedOf, U
<1>9. Fits(e, d1, ok, y)
  BY <1>6 DEF PartsFit
<1>. HIDE DEF d, d1, b, e, ok, y, t
<1>10. ASSUME NEW s \in Seq(Byte), NEW r \in Seq(Byte), b[s] = Got(t, r), d1[r].err # "none"
       PROVE  d[s] = d1[r]
  BY <1>5, <1>10
<1>11. ASSUME NEW s \in Seq(Byte), NEW r \in Seq(Byte), NEW q \in Seq(Byte), b[s] = Got(t, r), d1[r] = Got(y, q)
       PROVE  d[s] = Got(w, q)
  <2>1. d1[r].err = "none" /\ d1[r].val = y /\ d1[r].rest = q
    BY <1>11, GotIs
  <2>2. d[s] = Got(<<t, d1[r].val>>, d1[r].rest)
    BY <1>5, <1>11, <2>1
  <2>. QED
    BY <2>1, <2>2
<1>. HIDE DEF w
<1>12. Fits(Then(SerByte(t), e), d, ok, w)
  BY <1>1, <1>4, <1>9, <1>10, <1>11, TagFits DEF b
<1>. QED
  BY <1>2, <1>7, <1>8, <1>12, FitsSame DEF KindFits, d

\* Vectors, boxed slices, arrays and index sets are sequences of one type.
LEMMA ListParts ==
    ASSUME NEW T \in Types, NEW ser, NEW dec, NEW rd, NEW rc, NEW v,
           HasForm(T, v), T.k \in {"vec", "slice", "array", "indexset"}, PartsFit(T, ser, dec, rd, rc, v),
           Plain(T.of, ser, rd, rc, v)
    PROVE  /\ ElementsFit(T.of, ser, dec, rd, rc, v)
           /\ T.k # "indexset" => ReceivedOf(T, rc, v) = AllReceived(T.of, rc, v)
           /\ T.k # "slice" => (ReadableOf(T, rd, v) <=> AllReadable(T.of, rd, v))
           /\ T.k = "slice" => (ReadableOf(T, rd, v) <=> ~ZeroSized[T.of] /\ AllReadable(T.of, rd, v))
<1>1. IsSequence(v)
  BY DEF HasForm
<1>2. Components(T, v) = {<<T.of, v[i]>> : i \in DOMAIN v}
  BY DEF Components, Simple
<1>3. ASSUME NEW i \in DOMAIN v
      PROVE  Fits(ser[T.of][v[i]], dec[T.of], rd[T.of][v[i]], rc[T.of][v[i]])
  <2>1. <<T.of, v[i]>> \in Components(T, v)
    BY <1>2, <1>3
  <2>. QED
    BY <2>1 DEF PartsFit
<1>4. ElementsFit(T.of, ser, dec, rd, rc, v)
  BY <1>1, <1>3 DEF ElementsFit
<1>5. (\A c \in Components(T, v) : rd[c[1]][c[2]]) <=> AllReadable(T.of, rd, v)
  <2>1. \A i \in DOMAIN v : <<T.of, v[i]>> \in Components(T, v)
    BY <1>2
  <2>2. \A c \in Components(T, v) : \E i \in DOMAIN v : c = <<T.of, v[i]>>
    BY <1>2
  <2>3. ASSUME NEW i \in DOMAIN v, \A c \in Components(T, v) : rd[c[1]][c[2]] PROVE rd[T.of][v[i]]
    <3>. DEFINE c == <<T.of, v[i]>>
    <3>1. rd[c[1]][c[2]]
      BY <2>1, <2>3
    <3>. QED
      BY <3>1
  <2>4. ASSUME AllReadable(T.of, rd, v), NEW c \in Components(T, v) PROVE rd[c[1]][c[2]]
    BY <2>2, <2>4 DEF AllReadable
  <2>. QED
    BY <2>3, <2>4 DEF AllReadable
<1>. DEFINE all == \A c \in Components(T, v) : rd[c[1]][c[2]]
<1>. HIDE DEF all
<1>6. T.k # "slice" => (ReadableOf(T, rd, v) <=> AllReadable(T.of, rd, v))
  BY <1>5 DEF ReadableOf, all
<1>7. T.k = "slice" => (ReadableOf(T, rd, v) <=> ~ZeroSized[T.of] /\ AllReadable(T.of, rd, v))
  BY <1>5 DEF ReadableOf, all
<1>8. T.k # "indexset" => ReceivedOf(T, rc, v) = AllReceived(T.of, rc, v)
  BY DEF ReceivedOf, AllReceived
<1>. QED
  BY <1>4, <1>6, <1>7, <1>8

\* Vec<T>, whose bytes are read in one go.
LEMMA VecFits ==
    ASSUME NEW T \in Types, NEW ser, NEW dec, NEW rd, NEW rc, NEW o, NEW st, NEW v,
           HasForm(T, v), T.k = "vec", PartsFit(T, ser, dec, rd, rc, v), Plain(T.of, ser, rd, rc, v)
    PROVE  KindFits(T, ser, dec, rd, rc, o, st, v)
<1>. DEFINE d == DecOf(T, dec, st)
            d1 == VecOfU(T.of, dec)
            e == SerSlice(T.of, ser, v)
            U == T.of
            ok == AllReadable(T.of, rd, v)
            w == AllReceived(T.of, rc, v)
<1>1. Serialize(T, ser, o, v) = Then(CheckZst(U), e)
  BY DEF Serialize, SerVec
<1>2. \A s \in Seq(Byte) : d[s] = CheckedZst(U, d1[s])
  BY DEF DecOf, Deserialize, DecVec, VecOfU
<1>3. ElementsFit(U, ser, dec, rd, rc, v) /\ ReceivedOf(T, rc, v) = w /\ (ReadableOf(T, rd, v) <=> ok)
  BY ListParts
<1>4. Fits(e, d1, ok, w)
  BY <1>3, VecFit
<1>. HIDE DEF d, d1, e, U, ok, w
<1>5. Fits(Then(CheckZst(U), e), d, ok, w)
  BY <1>2, <1>4, CheckedFits
<1>. QED
  BY <1>1, <1>3, <1>5, FitsSame DEF KindFits, d

\* Box<[T]>, of which there is none when T takes no space.
LEMMA SliceFits ==
    ASSUME NEW T \in Types, NEW ser, NEW dec, NEW rd, NEW rc, NEW o, NEW st, NEW v,
           HasForm(T, v), T.k = "slice", PartsFit(T, ser, dec, rd, rc, v), Plain(T.of, ser, rd, rc, v)
    PROVE  KindFits(T, ser, dec, rd, rc, o, st, v)
<1>. DEFINE d == DecOf(T, dec, st)
            d1 == VecOfU(T.of, dec)
            e == SerSlice(T.of, ser, v)
            U == T.of
            ok == AllReadable(T.of, rd, v)
            ok2 == ~ZeroSized[U] /\ ok
            w == AllReceived(T.of, rc, v)
<1>1. Serialize(T, ser, o, v) = e
  BY DEF Serialize
<1>2. \A s \in Seq(Byte) : d[s] = CheckedZst(U, d1[s])
  BY DEF DecOf, Deserialize, DecVec, VecOfU
<1>3. ElementsFit(U, ser, dec, rd, rc, v) /\ ReceivedOf(T, rc, v) = w /\ (ReadableOf(T, rd, v) <=> ok2)
  BY ListParts
<1>4. Fits(e, d1, ok, w)
  BY <1>3, VecFit
<1>. HIDE DEF d, d1, e, U, ok, w
<1>5. Fits(e, d, ok2, w)
  BY <1>2, <1>4, UncheckedFits
<1>. HIDE DEF ok2
<1>. QED
  BY <1>1, <1>3, <1>5, FitsSame DEF KindFits, d

\* [T; N], which has no length.
LEMMA ArrayFits ==
    ASSUME NEW T \in Types, NEW ser, NEW dec, NEW rd, NEW rc, NEW o, NEW st, NEW v,
           HasForm(T, v), T.k = "array", PartsFit(T, ser, dec, rd, rc, v), Plain(T.of, ser, rd, rc, v)
    PROVE  KindFits(T, ser, dec, rd, rc, o, st, v)
<1>. DEFINE d == DecOf(T, dec, st)
            U == T.of
            e == InSequence(PartsOfAll(T.of, ser, v))
            ok == AllReadable(T.of, rd, v)
            w == AllReceived(T.of, rc, v)
            e2 == Serialize(T, ser, o, v)
<1>1. IsSequence(v) /\ Len(v) = T.n /\ Len(v) \in Nat
  BY DEF HasForm, IsSequence
<1>2. d = EachOf([i \in 1..Len(v) |-> dec[U]])
  BY <1>1 DEF DecOf, Deserialize, DecArray, EachOf
<1>3. ElementsFit(U, ser, dec, rd, rc, v) /\ ReceivedOf(T, rc, v) = w /\ (ReadableOf(T, rd, v) <=> ok)
  BY ListParts
<1>4. Fits(e, d, ok, w)
  BY <1>2, <1>3, EachFit
<1>5. e2 = IF T.n = 0 THEN Writes(<<>>) ELSE IF U = U8 THEN OneChunk(v) ELSE e
  BY DEF Serialize, SerArray, SerElements, PartsOfAll
<1>6. Fits(e2, d, ok, w)
  <2>1. CASE T.n = 0
    <3>1. DOMAIN v = {}
      BY <1>1, <2>1 DEF IsSequence
    <3>2. \A s \in Seq(Byte) : d[s] = Got(<<>>, s)
      <4>1. ASSUME NEW s \in Seq(Byte) PROVE d[s] = Got(<<>>, s)
        <5>1. [i \in 1..Len(v) |-> dec[U]] = FirstOf([i \in 1..0 |-> dec[U]], 0)
          BY <1>1, <2>1 DEF FirstOf
        <5>2. DecEach(FirstOf([i \in 1..0 |-> dec[U]], 0), s) = Got(<<>>, s)
          <6>. DEFINE ds == [i \in 1..0 |-> dec[U]]
          <6>. HIDE DEF ds
          <6>1. DecEach(FirstOf(ds, 0), s) = Got(<<>>, s)
            BY EachUnfold
          <6>. QED
            BY <6>1 DEF ds
        <5>. QED
          BY <1>2, <5>1, <5>2 DEF EachOf
      <4>. QED
        BY <4>1
    <3>3. ok
      BY <3>1 DEF AllReadable
    <3>4. w = <<>>
      <4>1. [i \in {} |-> rc[U][v[i]]] = <<>>
        OBVIOUS
      <4>. QED
        BY <3>1, <4>1 DEF AllReceived
    <3>. HIDE DEF d, ok, w
    <3>5. Codes(d, <<>>, TRUE, <<>>)
      BY <3>2, CodesNone
    <3>6. Fits(Writes(<<>>), d, TRUE, <<>>)
      BY <3>5, NothingIs DEF Fits
    <3>7. Fits(Writes(<<>>), d, ok, w)
      BY <3>3, <3>4, <3>6, FitsSame
    <3>. QED
      BY <1>5, <2>1, <3>7
  <2>2. CASE T.n # 0 /\ U = U8
    <3>1. v \in Seq(Byte) /\ e.err = "none" /\ Bytes(e) = v
      BY <1>3, <2>2, PlainBytes
    <3>2. IsEnc(OneChunk(v)) /\ Bytes(OneChunk(v)) = v
      BY <3>1, OneChunkIs
    <3>. HIDE DEF d, ok, w, e
    <3>3. Fits(OneChunk(v), d, ok, w)
      BY <1>4, <3>1, <3>2, FitsBytes
    <3>. QED
      BY <1>5, <2>2, <3>3
  <2>3. CASE T.n # 0 /\ U # U8
    BY <1>4, <1>5, <2>3
  <2>. QED
    BY <2>1, <2>2, <2>3
<1>. HIDE DEF d, ok, w, e2
<1>7. Fits(e2, d, ReadableOf(T, rd, v), ReceivedOf(T, rc, v))
  BY <1>3, <1>6, FitsSame
<1>. QED
  BY <1>7 DEF KindFits, d, e2

\* Fields one after the other.
FieldsOf(T, rc, v) == [i \in DOMAIN v |-> rc[T.of[i]][v[i]]]
AllFields(T, rd, v) == \A i \in DOMAIN v : rd[T.of[i]][v[i]]
DecFieldsOf(T, dec) == [s \in Seq(Byte) |-> DecEach([i \in DOMAIN T.of |-> dec[T.of[i]]], s)]

\* The fields of a tuple or a struct.
LEMMA FieldsFit ==
    ASSUME NEW T \in Types, NEW ser, NEW dec, NEW rd, NEW rc, NEW v,
           HasForm(T, v), T.k \in {"tuple", "struct"}, PartsFit(T, ser, dec, rd, rc, v)
    PROVE  /\ Fits(InSequence([i \in DOMAIN v |-> ser[T.of[i]][v[i]]]), DecFieldsOf(T, dec),
                   AllFields(T, rd, v), FieldsOf(T, rc, v))
           /\ ReadableOf(T, rd, v) <=> AllFields(T, rd, v)
<1>. DEFINE n == Len(v)
            es == [i \in DOMAIN v |-> ser[T.of[i]][v[i]]]
            ws == FieldsOf(T, rc, v)
            ds == [i \in DOMAIN T.of |-> dec[T.of[i]]]
            ok == {i \in 1..n : rd[T.of[i]][v[i]]}
<1>1. n \in Nat /\ DOMAIN v = 1..n /\ DOMAIN T.of = 1..n
  <2>1. IsSequence(v) /\ Len(v) = Len(T.of)
    BY DEF HasForm
  <2>2. T.of \in Seq(Types)
    BY TypesAssumption
  <2>. QED
    BY <2>1, <2>2, LenProperties DEF IsSequence
<1>2. Components(T, v) = {<<T.of[i], v[i]>> : i \in DOMAIN v}
  BY DEF Components, Simple
<1>3. ASSUME NEW i \in DOMAIN v
      PROVE  Fits(ser[T.of[i]][v[i]], dec[T.of[i]], rd[T.of[i]][v[i]], rc[T.of[i]][v[i]])
  <2>1. <<T.of[i], v[i]>> \in Components(T, v)
    BY <1>2, <1>3
  <2>. QED
    BY <2>1 DEF PartsFit
<1>4. (\A c \in Components(T, v) : rd[c[1]][c[2]]) <=> AllFields(T, rd, v)
  <2>1. \A i \in DOMAIN v : <<T.of[i], v[i]>> \in Components(T, v)
    BY <1>2
  <2>2. \A c \in Components(T, v) : \E i \in DOMAIN v : c = <<T.of[i], v[i]>>
    BY <1>2
  <2>3. ASSUME NEW i \in DOMAIN v, \A c \in Components(T, v) : rd[c[1]][c[2]] PROVE rd[T.of[i]][v[i]]
    <3>. DEFINE c == <<T.of[i], v[i]>>
    <3>1. rd[c[1]][c[2]]
      BY <2>1, <2>3
    <3>. QED
      BY <3>1
  <2>4. ASSUME AllFields(T, rd, v), NEW c \in Components(T, v) PROVE rd[c[1]][c[2]]
    BY <2>2, <2>4 DEF AllFields
  <2>. QED
    BY <2>3, <2>4 DEF AllFields
<1>5. ReadableOf(T, rd, v) <=> AllFields(T, rd, v)
  <2>. DEFINE all == \A c \in Components(T, v) : rd[c[1]][c[2]]
  <2>. HIDE DEF all
  <2>. QED
    BY <1>4 DEF ReadableOf, all
<1>6. \A i \in 1..n : Fits(es[i], ds[i], i \in ok, ws[i])
  <2>1. ASSUME NEW i \in 1..n PROVE Fits(es[i], ds[i], i \in ok, ws[i])
    <3>. DEFINE ok1 == rd[T.of[i]][v[i]]
                ok2 == i \in ok
                e == ser[T.of[i]][v[i]]
                w == rc[T.of[i]][v[i]]
                d0 == dec[T.of[i]]
    <3>1. Fits(e, d0, ok1, w) /\ (ok1 <=> ok2)
      BY <1>1, <1>3
    <3>2. es[i] = e /\ ds[i] = d0 /\ ws[i] = w
      BY <1>1 DEF FieldsOf
    <3>. HIDE DEF ok1, ok2, e, w, d0
    <3>3. Fits(e, d0, ok2, w)
      BY <3>1, FitsSame
    <3>. QED
      BY <3>2, <3>3 DEF ok2
  <2>. QED
    BY <2>1
<1>7. /\ es = [i \in 1..n |-> es[i]] /\ ds = FirstOf(ds, n) /\ ws = FirstOf(ws, n)
      /\ ok \in SUBSET Nat
  BY <1>1 DEF FieldsOf, FirstOf
<1>8. 1..n \subseteq ok <=> AllFields(T, rd, v)
  BY <1>1 DEF AllFields
<1>9. DecFieldsOf(T, dec) = EachOf(ds)
  BY DEF DecFieldsOf, EachOf
<1>. HIDE DEF es, ws, ds, ok, n
<1>10. Fits(InSequence(es), EachOf(FirstOf(ds, n)), 1..n \subseteq ok, FirstOf(ws, n))
  BY <1>1, <1>6, <1>7, FitsEach
<1>. DEFINE all == 1..n \subseteq ok
            all2 == AllFields(T, rd, v)
            f == InSequence(es)
            d == EachOf(ds)
<1>11. Fits(f, d, all, ws) /\ (all <=> all2)
  BY <1>7, <1>8, <1>10
<1>. HIDE DEF all, all2, f, d
<1>12. Fits(f, d, all2, ws)
  BY <1>11, FitsSame
<1>. QED
  BY <1>5, <1>9, <1>12 DEF all2, f, d, es, ws

\* A tuple.
LEMMA TupleFits ==
    ASSUME NEW T \in Types, NEW ser, NEW dec, NEW rd, NEW rc, NEW o, NEW st, NEW v,
           HasForm(T, v), T.k = "tuple", PartsFit(T, ser, dec, rd, rc, v)
    PROVE  KindFits(T, ser, dec, rd, rc, o, st, v)
<1>. DEFINE e == InSequence([i \in DOMAIN v |-> ser[T.of[i]][v[i]]])
            d == DecFieldsOf(T, dec)
            ok == AllFields(T, rd, v)
            w == FieldsOf(T, rc, v)
<1>1. Serialize(T, ser, o, v) = e
  BY DEF Serialize, SerTuple
<1>2. DecOf(T, dec, st) = d
  BY DEF DecOf, Deserialize, DecTuple, DecFieldsOf
<1>3. ReceivedOf(T, rc, v) = w
  BY DEF ReceivedOf, FieldsOf
<1>4. Fits(e, d, ok, w) /\ (ReadableOf(T, rd, v) <=> ok)
  BY FieldsFit
<1>. HIDE DEF e, d, ok, w
<1>5. Fits(e, d, ReadableOf(T, rd, v), ReceivedOf(T, rc, v))
  BY <1>3, <1>4, FitsSame
<1>. QED
  BY <1>1, <1>2, <1>5 DEF KindFits

\* A struct, perhaps with an init method.
LEMMA StructFits ==
    ASSUME NEW T \in Types, NEW ser, NEW dec, NEW rd, NEW rc, NEW o, NEW st, NEW v,
           HasForm(T, v), T.k = "struct", PartsFit(T, ser, dec, rd, rc, v)
    PROVE  KindFits(T, ser, dec, rd, rc, o, st, v)
<1>. DEFINE e == InSequence([i \in DOMAIN v |-> ser[T.of[i]][v[i]]])
            d1 == DecFieldsOf(T, dec)
            d == DecOf(T, dec, st)
            ok == AllFields(T, rd, v)
            w1 == FieldsOf(T, rc, v)
            w == IF T.init THEN InitMethod(T, w1) ELSE w1
<1>1. Serialize(T, ser, o, v) = e
  BY DEF Serialize, SerStruct
<1>2. \A s \in Seq(Byte) : d[s] =
        IF d1[s].err = "none" THEN Got(IF T.init THEN InitMethod(T, d1[s].val) ELSE d1[s].val, d1[s].rest)
        ELSE d1[s]
  BY DEF DecOf, Deserialize, DecStruct, DecFields, DecFieldsOf, Map, IsOk
<1>3. ReceivedOf(T, rc, v) = w
  BY DEF ReceivedOf, FieldsOf
<1>4. Fits(e, d1, ok, w1) /\ (ReadableOf(T, rd, v) <=> ok)
  BY FieldsFit
<1>. HIDE DEF e, d, d1, ok, w1
<1>5. \A s \in Seq(Byte) : d1[s].err # "none" => d[s] = d1[s]
  BY <1>2
<1>6. ASSUME NEW s \in Seq(Byte), NEW r, d1[s] = Got(w1, r) PROVE d[s] = Got(w, r)
  <2>1. d1[s].err = "none" /\ d1[s].val = w1 /\ d1[s].rest = r
    BY <1>6, GotIs
  <2>2. d[s] = Got(IF T.init THEN InitMethod(T, d1[s].val) ELSE d1[s].val, d1[s].rest)
    BY <1>2, <2>1
  <2>. QED
    BY <2>1, <2>2
<1>. HIDE DEF w
<1>7. Follows(d, d1, w1, w)
  BY <1>5, <1>6, MapIs
<1>8. Fits(e, d, ok, w)
  BY <1>4, <1>7, FitsAfter
<1>9. Fits(e, d, ReadableOf(T, rd, v), ReceivedOf(T, rc, v))
  BY <1>3, <1>4, <1>8, FitsSame
<1>. QED
  BY <1>1, <1>9 DEF KindFits, d

\* An enum: the discriminant of a variant and the variant.
LEMMA EnumFits ==
    ASSUME NEW T \in Types, NEW ser, NEW dec, NEW rd, NEW rc, NEW o, NEW st, NEW v,
           HasForm(T, v), T.k = "enum", PartsFit(T, ser, dec, rd, rc, v)
    PROVE  KindFits(T, ser, dec, rd, rc, o, st, v)
<1>. DEFINE d == DecOf(T, dec, st)
            b == ByteOf
            n == v[1]
            t == T.tags[n]
            U == T.of[n]
            d1 == dec[U]
            x == v[2]
            e == ser[U][x]
            ok == rd[U][x]
            y == rc[U][x]
            w == <<n, IF T.init THEN InitMethod(U, y) ELSE y>>
<1>1. IsEnum(T) /\ n \in DOMAIN T.of
  BY TypesAssumption DEF HasForm
<1>2. n \in DOMAIN T.tags /\ t \in Byte /\ DOMAIN T.tags \subseteq Nat
  <2>1. T.tags \in Seq(Byte) /\ n \in DOMAIN T.tags
    BY <1>1 DEF IsEnum
  <2>. QED
    BY <2>1, ElementOfSeq, LenProperties
<1>3. Serialize(T, ser, o, v) = Then(SerByte(t), e)
  BY DEF Serialize, SerEnum
<1>4. \A s \in Seq(Byte) : d[s] = DecEnum(T, dec, s)
  BY DEF DecOf, Deserialize
<1>5. \A s \in Seq(Byte) : b[s].err # "none" => d[s] = b[s]
  BY <1>4 DEF DecEnum, AndThen, IsOk, ByteOf
<1>. DEFINE matching == {i \in DOMAIN T.tags : T.tags[i] = t}
<1>6. matching # {} /\ Min(matching) = n
  <2>1. matching = {n}
    BY <1>1, <1>2 DEF IsEnum
  <2>2. matching \in SUBSET Nat
    BY <1>2
  <2>. HIDE DEF matching
  <2>. QED
    BY <2>1, <2>2, LeastIs
<1>7. ASSUME NEW s \in Seq(Byte), NEW r, b[s] = Got(t, r)
      PROVE  d[s] = IF d1[r].err = "none"
                    THEN Got(<<n, IF T.init THEN InitMethod(U, d1[r].val) ELSE d1[r].val>>, d1[r].rest)
                    ELSE d1[r]
  <2>1. b[s].err = "none" /\ b[s].val = t /\ b[s].rest = r
    BY <1>7, GotIs
  <2>3. d[s] = DecEnum(T, dec, s) /\ b[s] = DecByte(s)
    BY <1>4 DEF ByteOf
  <2>. DEFINE m2 == {i \in DOMAIN T.tags : T.tags[i] = DecByte(s).val}
  <2>4. m2 = matching
    BY <2>1, <2>3
  <2>. HIDE DEF t, b, d, n, matching, m2
  <2>5. d[s] = IF m2 = {} THEN Bad("BadTag") ELSE
                 Map(dec[T.of[Min(m2)]][r], LAMBDA z : <<Min(m2), IF T.init THEN InitMethod(T.of[Min(m2)], z) ELSE z>>)
    BY <2>1, <2>3 DEF DecEnum, AndThen, IsOk, Map, m2
  <2>. QED
    BY <1>6, <2>4, <2>5 DEF Map, IsOk
<1>8. Components(T, v) = {<<U, x>>}
  BY DEF Components, Simple
<1>10. ReceivedOf(T, rc, v) = w
  BY DEF ReceivedOf
<1>. HIDE DEF U
<1>9. ReadableOf(T, rd, v) <=> ok
  BY <1>8 DEF ReadableOf
<1>11. Fits(e, d1, ok, y)
  BY <1>8 DEF PartsFit
<1>. HIDE DEF d, d1, b, e, ok, y, t, n
<1>12. ASSUME NEW s \in Seq(Byte), NEW r \in Seq(Byte), b[s] = Got(t, r), d1[r].err # "none"
       PROVE  d[s] = d1[r]
  BY <1>7, <1>12
<1>13. ASSUME NEW s \in Seq(Byte), NEW r \in Seq(Byte), NEW q \in Seq(Byte), b[s] = Got(t, r), d1[r] = Got(y, q)
       PROVE  d[s] = Got(w, q)
  <2>1. d1[r].err = "none" /\ d1[r].val = y /\ d1[r].rest = q
    BY <1>13, GotIs
  <2>2. d[s] = Got(<<n, IF T.init THEN InitMethod(U, d1[r].val) ELSE d1[r].val>>, d1[r].rest)
    BY <1>7, <1>13, <2>1
  <2>. QED
    BY <2>1, <2>2
<1>. HIDE DEF w
<1>14. Fits(Then(SerByte(t), e), d, ok, w)
  BY <1>2, <1>5, <1>11, <1>12, <1>13, TagFits DEF b
<1>15. Fits(Then(SerByte(t), e), d, ReadableOf(T, rd, v), ReceivedOf(T, rc, v))
  <2>. DEFINE g == Then(SerByte(t), e)
  <2>1. Fits(g, d, ok, w)
    BY <1>14
  <2>. HIDE DEF g
  <2>2. Fits(g, d, ReadableOf(T, rd, v), ReceivedOf(T, rc, v))
    BY <1>9, <1>10, <2>1, FitsSame
  <2>. QED
    BY <2>2 DEF g
<1>. QED
  BY <1>3, <1>15 DEF KindFits, d

-----------------------------------------------------------------------------
(* Keys in their order.                                                    *)

\* R, a set of pairs, orders the elements of S.
Ordering(S, R) ==
    /\ IsFiniteSet(S)
    /\ \A x \in S : <<x, x>> \notin R
    /\ \A x, y \in S : x = y \/ <<x, y>> \in R \/ <<y, x>> \in R
    /\ \A x, y, z \in S : <<x, y>> \in R /\ <<y, z>> \in R => <<x, z>> \in R

\* s lists S from the first to the last, n being its size.
Sorted(s, n, S, R) ==
    s \in [1..n -> S] /\ \A i, j \in 1..n : i < j => <<s[i], s[j]>> \in R

\* The elements before x.
Below(S, R, x) == {y \in S : <<y, x>> \in R}

\* The first n numbers.
LEMMA IntervalSize == ASSUME NEW n \in Nat PROVE IsFiniteSet(1..n) /\ Cardinality(1..n) = n
<1>1. \A a, b \in Int : IsFiniteSet(a..b) /\ Cardinality(a..b) = IF a > b THEN 0 ELSE b - a + 1
  BY FS_Interval
<1>. QED
  BY <1>1

\* The elements can be put in order: each at the place the number of smaller ones says.
LEMMA OrderExists ==
    ASSUME NEW S, NEW R, Ordering(S, R)
    PROVE  \E s : Sorted(s, Cardinality(S), S, R)
<1>. DEFINE n == Cardinality(S)
            rank == [x \in S |-> Cardinality(Below(S, R, x)) + 1]
<1>1. n \in Nat /\ IsFiniteSet(S)
  BY FS_CardinalityType DEF Ordering
<1>2. ASSUME NEW x \in S
      PROVE  IsFiniteSet(Below(S, R, x)) /\ Cardinality(Below(S, R, x)) \in Nat /\ rank[x] \in 1..n
  <2>1. Below(S, R, x) \in SUBSET (S \ {x})
    BY DEF Below, Ordering
  <2>2. IsFiniteSet(S \ {x}) /\ Cardinality(S \ {x}) = n - 1
    BY <1>1, FS_RemoveElement
  <2>. DEFINE b == Below(S, R, x)
              Q == S \ {x}
  <2>. HIDE DEF b, Q
  <2>3. IsFiniteSet(b) /\ Cardinality(b) <= Cardinality(Q)
    BY <2>1, <2>2, FS_Subset DEF b, Q
  <2>4. Cardinality(b) \in Nat
    BY <2>3, FS_CardinalityType
  <2>. QED
    BY <1>1, <2>2, <2>3, <2>4 DEF b, Q
<1>3. ASSUME NEW x \in S, NEW y \in S, <<x, y>> \in R PROVE rank[x] < rank[y]
  <2>. DEFINE a == Below(S, R, x)
              b == Below(S, R, y)
  <2>1. a \in SUBSET b /\ x \in b /\ x \notin a
    BY <1>3 DEF Below, Ordering
  <2>2. IsFiniteSet(b) /\ Cardinality(a) \in Nat /\ Cardinality(b) \in Nat
    BY <1>2
  <2>3. rank[x] = Cardinality(a) + 1 /\ rank[y] = Cardinality(b) + 1
    OBVIOUS
  <2>. HIDE DEF a, b, rank
  <2>4. Cardinality(a) <= Cardinality(b) /\ (Cardinality(b) = Cardinality(a) => b = a)
    BY <2>1, <2>2, FS_Subset
  <2>. QED
    BY <2>1, <2>2, <2>3, <2>4
<1>4. rank \in Injection(S, 1..n)
  <2>1. rank \in [S -> 1..n]
    BY <1>2
  <2>2. ASSUME NEW x \in S, NEW y \in S, rank[x] = rank[y] PROVE x = y
    <3>. HIDE DEF rank
    <3>1. rank[x] \in Int /\ rank[y] \in Int
      BY <2>1
    <3>2. <<x, y>> \notin R
      BY <1>3, <2>2, <3>1
    <3>3. <<y, x>> \notin R
      BY <1>3, <2>2, <3>1
    <3>. QED
      BY <3>2, <3>3 DEF Ordering
  <2>3. DOMAIN rank = S
    OBVIOUS
  <2>. HIDE DEF rank
  <2>. QED
    BY <2>1, <2>2, <2>3 DEF Injection, IsInjective
<1>. HIDE DEF rank, n
<1>5. rank \in Surjection(S, 1..n)
  <2>1. IsFiniteSet(1..n) /\ Cardinality(1..n) = n
    BY <1>1, IntervalSize
  <2>2. Cardinality(S) = Cardinality(1..n)
    BY <2>1 DEF n
  <2>. QED
    BY <1>4, <2>1, <2>2, FS_Injection
<1>6. \A i \in 1..n : \E x \in S : rank[x] = i
  BY <1>5 DEF Surjection
<1>. DEFINE s == [i \in 1..n |-> CHOOSE x \in S : rank[x] = i]
<1>7. \A i \in 1..n : s[i] \in S /\ rank[s[i]] = i
  BY <1>6
<1>8. s \in [1..n -> S]
  BY <1>7
<1>. HIDE DEF s
<1>9. ASSUME NEW i \in 1..n, NEW j \in 1..n, i < j PROVE <<s[i], s[j]>> \in R
  <2>1. s[i] \in S /\ s[j] \in S /\ rank[s[i]] = i /\ rank[s[j]] = j
    BY <1>7
  <2>2. s[i] # s[j]
    BY <1>9, <2>1
  <2>3. <<s[j], s[i]>> \notin R
    BY <1>3, <1>9, <2>1
  <2>. QED
    BY <2>1, <2>2, <2>3 DEF Ordering
<1>. QED
  BY <1>8, <1>9 DEF Sorted, n

\* All of them are there, each once.
LEMMA OrderOnto ==
    ASSUME NEW S, NEW R, Ordering(S, R), NEW s, Sorted(s, Cardinality(S), S, R)
    PROVE  /\ \A x \in S : \E i \in 1..Cardinality(S) : s[i] = x
           /\ \A i, j \in 1..Cardinality(S) : s[i] = s[j] => i = j
<1>. DEFINE n == Cardinality(S)
<1>1. n \in Nat /\ IsFiniteSet(S)
  BY FS_CardinalityType DEF Ordering
<1>2. s \in [1..n -> S] /\ DOMAIN s = 1..n
  BY DEF Sorted
<1>3. ASSUME NEW i \in 1..n, NEW j \in 1..n, s[i] = s[j] PROVE i = j
  <2>. HIDE DEF n
  <2>1. s[i] \in S /\ s[j] \in S /\ i \in Int /\ j \in Int
    BY <1>2
  <2>2. \A k, l \in 1..n : k < l => <<s[k], s[l]>> \in R
    BY DEF Sorted, n
  <2>3. <<s[i], s[i]>> \notin R
    BY <2>1 DEF Ordering
  <2>4. ~(i < j)
    BY <1>3, <2>2, <2>3
  <2>5. ~(j < i)
    BY <1>3, <2>2, <2>3
  <2>. QED
    BY <2>1, <2>4, <2>5
<1>4. s \in Injection(1..n, S)
  BY <1>2, <1>3 DEF Injection, IsInjective
<1>5. Cardinality(1..n) = Cardinality(S)
  BY <1>1, IntervalSize
<1>6. s \in Surjection(1..n, S)
  <2>. HIDE DEF n
  <2>. QED
    BY <1>1, <1>4, <1>5, FS_Injection
<1>. QED
  BY <1>3, <1>6 DEF Surjection

\* There is one such sequence.
LEMMA OrderUnique ==
    ASSUME NEW S, NEW R, Ordering(S, R), NEW s, Sorted(s, Cardinality(S), S, R),
           NEW t, Sorted(t, Cardinality(S), S, R)
    PROVE  s = t
<1>. DEFINE n == Cardinality(S)
            differ == {i \in 1..n : s[i] # t[i]}
<1>1. n \in Nat
  BY FS_CardinalityType DEF Ordering
<1>2. s \in [1..n -> S] /\ t \in [1..n -> S]
  BY DEF Sorted
<1>3. /\ \A i, j \in 1..n : i < j => <<s[i], s[j]>> \in R
      /\ \A i, j \in 1..n : i < j => <<t[i], t[j]>> \in R
  BY DEF Sorted
<1>4. /\ \A x \in S : \E i \in 1..n : s[i] = x
      /\ \A i, j \in 1..n : s[i] = s[j] => i = j
      /\ \A x \in S : \E i \in 1..n : t[i] = x
      /\ \A i, j \in 1..n : t[i] = t[j] => i = j
  BY OrderOnto
<1>. HIDE DEF n
<1>5. differ = {}
  <2>1. SUFFICES ASSUME differ # {} PROVE FALSE
    OBVIOUS
  <2>2. differ \in SUBSET Nat
    BY <1>1
  <2>3. PICK i \in differ : \A k \in differ : i <= k
    <3>. HIDE DEF differ
    <3>. QED
      BY <2>1, <2>2, LeastNumber
  <2>4. i \in 1..n /\ s[i] # t[i] /\ s[i] \in S /\ t[i] \in S
    BY <1>2, <2>3
  <2>5. \A k \in 1..n : k < i => s[k] = t[k]
    BY <1>1, <2>3, <2>4
  <2>6. <<t[i], s[i]>> \in R
    <3>1. PICK j \in 1..n : t[j] = s[i]
      BY <1>4, <2>4
    <3>2. j # i /\ ~(j < i)
      <4>1. j # i
        BY <2>4, <3>1
      <4>2. ASSUME j < i PROVE FALSE
        <5>1. s[j] = s[i]
          BY <2>5, <3>1, <4>2
        <5>. QED
          BY <1>4, <2>4, <4>1, <5>1
      <4>. QED
        BY <4>1, <4>2
    <3>3. i < j
      BY <1>1, <2>4, <3>2
    <3>. QED
      BY <1>3, <2>4, <3>1, <3>3
  <2>7. <<s[i], t[i]>> \in R
    <3>1. PICK j \in 1..n : s[j] = t[i]
      BY <1>4, <2>4
    <3>2. j # i /\ ~(j < i)
      <4>1. j # i
        BY <2>4, <3>1
      <4>2. ASSUME j < i PROVE FALSE
        <5>1. t[j] = t[i]
          BY <2>5, <3>1, <4>2
        <5>. QED
          BY <1>4, <2>4, <4>1, <5>1
      <4>. QED
        BY <4>1, <4>2
    <3>3. i < j
      BY <1>1, <2>4, <3>2
    <3>. QED
      BY <1>3, <2>4, <3>1, <3>3
  <2>. QED
    BY <2>4, <2>6, <2>7 DEF Ordering
<1>6. \A i \in 1..n : s[i] = t[i]
  BY <1>5
<1>7. s = [i \in 1..n |-> s[i]] /\ t = [i \in 1..n |-> t[i]]
  BY <1>2
<1>. QED
  BY <1>6, <1>7, Zenon

\* InOrder lists a finite ordered set, each element once, and nothing else does.
LEMMA InOrderIs ==
    ASSUME NEW S, NEW R, Ordering(S, R)
    PROVE  /\ Cardinality(S) \in Nat
           /\ Sorted(InOrder(S, R), Cardinality(S), S, R)
           /\ \A s : Sorted(s, Cardinality(S), S, R) => s = InOrder(S, R)
           /\ \A x \in S : \E i \in 1..Cardinality(S) : InOrder(S, R)[i] = x
           /\ \A i, j \in 1..Cardinality(S) : InOrder(S, R)[i] = InOrder(S, R)[j] => i = j
<1>. DEFINE n == Cardinality(S)
            s == InOrder(S, R)
<1>1. n \in Nat
  BY FS_CardinalityType DEF Ordering
<1>2. \E t \in [1..n -> S] : \A i, j \in DOMAIN t : i < j => <<t[i], t[j]>> \in R
  <2>1. PICK t : Sorted(t, n, S, R)
    BY OrderExists
  <2>2. t \in [1..n -> S] /\ DOMAIN t = 1..n
    BY <2>1 DEF Sorted
  <2>. QED
    BY <2>1, <2>2 DEF Sorted
<1>3. s \in [1..n -> S] /\ \A i, j \in DOMAIN s : i < j => <<s[i], s[j]>> \in R
  BY <1>2 DEF InOrder
<1>4. Sorted(s, n, S, R)
  BY <1>3 DEF Sorted
<1>. HIDE DEF s
<1>5. \A t : Sorted(t, n, S, R) => t = s
  BY <1>4, OrderUnique
<1>6. /\ \A x \in S : \E i \in 1..n : s[i] = x
      /\ \A i, j \in 1..n : s[i] = s[j] => i = j
  BY <1>4, OrderOnto
<1>. QED
  BY <1>1, <1>4, <1>5, <1>6 DEF s

\* The order of keys, and the order in which a hash table with the places o iterates.
KeyOrder(K, S) == {p \in S \X S : Less(K, p[1], p[2])}
PlaceOrder(S, o) == {p \in S \X S : o[p[1]] < o[p[2]]}

\* Keys are ordered.
LEMMA KeysOrdered ==
    ASSUME NEW K \in Keys, NEW S \in SUBSET Values[K], IsFiniteSet(S)
    PROVE  Ordering(S, KeyOrder(K, S))
<1>1. \A x, y \in S : <<x, y>> \in KeyOrder(K, S) <=> Less(K, x, y)
  BY DEF KeyOrder
<1>2. \A a, b \in Values[K] :
         /\ ~Less(K, a, a) /\ (a = b \/ Less(K, a, b) \/ Less(K, b, a))
         /\ \A c \in Values[K] : Less(K, a, b) /\ Less(K, b, c) => Less(K, a, c)
  BY ValuesAssumption
<1>3. \A a, b \in S :
         /\ ~Less(K, a, a) /\ (a = b \/ Less(K, a, b) \/ Less(K, b, a))
         /\ \A c \in S : Less(K, a, b) /\ Less(K, b, c) => Less(K, a, c)
  BY <1>2
<1>. DEFINE R == KeyOrder(K, S)
<1>. HIDE DEF R
<1>4. \A x \in S : <<x, x>> \notin R
  BY <1>1, <1>3 DEF R
<1>5. \A x, y \in S : x = y \/ <<x, y>> \in R \/ <<y, x>> \in R
  BY <1>1, <1>3 DEF R
<1>6. \A x, y, z \in S : <<x, y>> \in R /\ <<y, z>> \in R => <<x, z>> \in R
  BY <1>1, <1>3 DEF R
<1>. QED
  BY <1>4, <1>5, <1>6 DEF Ordering, R

\* Places in a hash table are.
LEMMA PlacesOrdered ==
    ASSUME NEW n \in Nat, n <= MaxKeys, NEW o \in Orders
    PROVE  Ordering(1..n, PlaceOrder(1..n, o))
<1>. DEFINE S == 1..n
            R == PlaceOrder(1..n, o)
<1>1. \A x \in S : o[x] \in Nat
  BY WireAssumption DEF Orders
<1>2. \A x, y \in S : o[x] = o[y] => x = y
  BY WireAssumption DEF Orders
<1>3. \A x, y \in S : <<x, y>> \in R <=> o[x] < o[y]
  BY DEF PlaceOrder
<1>4. IsFiniteSet(S)
  BY IntervalSize
<1>. HIDE DEF S, R
<1>5. \A x \in S : <<x, x>> \notin R
  BY <1>1, <1>3
<1>6. ASSUME NEW x \in S, NEW y \in S PROVE x = y \/ <<x, y>> \in R \/ <<y, x>> \in R
  <2>1. o[x] \in Nat /\ o[y] \in Nat
    BY <1>1
  <2>2. o[x] = o[y] \/ o[x] < o[y] \/ o[y] < o[x]
    BY <2>1
  <2>. QED
    BY <1>2, <1>3, <2>2
<1>7. ASSUME NEW x \in S, NEW y \in S, NEW z \in S, <<x, y>> \in R, <<y, z>> \in R PROVE <<x, z>> \in R
  <2>1. o[x] \in Nat /\ o[y] \in Nat /\ o[z] \in Nat /\ o[x] < o[y] /\ o[y] < o[z]
    BY <1>1, <1>3, <1>7
  <2>2. o[x] < o[z]
    BY <2>1
  <2>. QED
    BY <1>3, <2>2
<1>. QED
  BY <1>4, <1>5, <1>6, <1>7 DEF Ordering, S, R

\* A set of keys, from the least to the greatest.
LEMMA AscendingIs ==
    ASSUME NEW K \in Keys, NEW S \in SUBSET Values[K], IsFiniteSet(S)
    PROVE  LET s == Ascending(K, S) IN
           /\ IsSequence(s) /\ Len(s) = Cardinality(S) /\ s \in [1..Len(s) -> S] /\ ToSet(s) = S
           /\ \A i, j \in 1..Len(s) : s[i] = s[j] => i = j
           /\ \A i, j \in 1..Len(s) : i < j => Less(K, s[i], s[j])
           /\ AscendingKeys(K, s)
<1>. DEFINE s == Ascending(K, S)
            R == KeyOrder(K, S)
            n == Cardinality(S)
<1>1. s = InOrder(S, R)
  BY DEF Ascending, KeyOrder
<1>2. Ordering(S, R)
  BY KeysOrdered
<1>. HIDE DEF s, R, n
<1>3. /\ n \in Nat /\ Sorted(s, n, S, R)
      /\ \A x \in S : \E i \in 1..n : s[i] = x
      /\ \A i, j \in 1..n : s[i] = s[j] => i = j
  BY <1>1, <1>2, InOrderIs DEF n
<1>4. s \in [1..n -> S] /\ s = [i \in 1..n |-> s[i]] /\ DOMAIN s = 1..n
  BY <1>3 DEF Sorted
<1>5. Len(s) = n
  BY <1>3, <1>4, FunctionIsSeq
<1>6. IsSequence(s)
  BY <1>3, <1>4, <1>5 DEF IsSequence, IsFunction
<1>7. ToSet(s) = S
  <2>1. ToSet(s) = {s[i] : i \in 1..n}
    BY <1>4 DEF ToSet
  <2>2. ASSUME NEW x \in S PROVE x \in ToSet(s)
    BY <1>3, <2>1
  <2>3. ASSUME NEW x \in ToSet(s) PROVE x \in S
    BY <1>4, <2>1
  <2>. QED
    BY <2>2, <2>3
<1>8. \A i, j \in 1..n : i < j => Less(K, s[i], s[j])
  BY <1>3, <1>4 DEF Sorted, R, KeyOrder
<1>9. AscendingKeys(K, s)
  BY <1>3, <1>5, <1>8 DEF AscendingKeys
<1>. QED
  BY <1>3, <1>4, <1>5, <1>6, <1>7, <1>8, <1>9 DEF s, n

\* A hash table holds the elements of the set, in some order.
LEMMA HashOrderIs ==
    ASSUME NEW K \in Keys, NEW S \in SUBSET Values[K], Few(S), NEW o \in Orders
    PROVE  ToSet(HashOrder(K, S, o)) = S
<1>. DEFINE s == Ascending(K, S)
            n == Len(s)
            R == PlaceOrder(1..n, o)
            places == InOrder(1..n, R)
            f == [i \in 1..n |-> s[places[i]]]
<1>1. IsSequence(s) /\ n = Cardinality(S) /\ s \in [1..n -> S] /\ ToSet(s) = S /\ DOMAIN s = 1..n
  BY AscendingIs DEF Few
<1>2. HashOrder(K, S, o) = f
  <2>1. HashOrder(K, S, o) = [i \in DOMAIN s |-> s[InOrder(DOMAIN s, PlaceOrder(DOMAIN s, o))[i]]]
    BY DEF HashOrder, PlaceOrder
  <2>. QED
    BY <1>1, <2>1
<1>3. n \in Nat /\ n <= MaxKeys
  BY <1>1, FS_CardinalityType DEF Few, IsSequence
<1>. HIDE DEF s, n
<1>4. Ordering(1..n, R)
  BY <1>3, PlacesOrdered
<1>5. Cardinality(1..n) = n
  BY <1>3, IntervalSize
<1>. HIDE DEF R
<1>6. /\ \A i \in 1..n : places[i] \in 1..n
      /\ \A x \in 1..n : \E i \in 1..n : places[i] = x
  <2>. DEFINE P == 1..n
  <2>1. Ordering(P, R) /\ Cardinality(P) = n
    BY <1>4, <1>5
  <2>. HIDE DEF P
  <2>2. /\ Sorted(InOrder(P, R), Cardinality(P), P, R)
        /\ \A x \in P : \E i \in 1..Cardinality(P) : InOrder(P, R)[i] = x
    BY <2>1, InOrderIs
  <2>. QED
    BY <2>1, <2>2 DEF Sorted, P
<1>. HIDE DEF places
<1>7. \A x \in S : \E i \in 1..n : s[i] = x
  BY <1>1 DEF ToSet
<1>8. ToSet(f) = {f[i] : i \in 1..n}
  BY DEF ToSet
<1>9. ASSUME NEW x \in S PROVE \E i \in 1..n : f[i] = x
  <2>1. PICK j \in 1..n : s[j] = x
    BY <1>7
  <2>2. PICK i \in 1..n : places[i] = j
    BY <1>6
  <2>. QED
    BY <2>1, <2>2
<1>10. \A i \in 1..n : f[i] \in S
  BY <1>1, <1>6
<1>. HIDE DEF f
<1>11. ToSet(f) = S
  BY <1>8, <1>9, <1>10
<1>. QED
  BY <1>2, <1>11

\* What is written of a set does not depend on how it is stored.
LEMMA IterateIs ==
    ASSUME NEW K \in Keys, NEW S \in SUBSET Values[K], Few(S), NEW o \in Orders, NEW hash
    PROVE  Iterate(K, S, hash, o) = Ascending(K, S)
BY HashOrderIs DEF Iterate

\* BTreeSet and HashSet: the elements, from the least to the greatest, whatever the
\* reader checks of their order.
LEMMA SetFits ==
    ASSUME NEW T \in Types, NEW ser, NEW dec, NEW rd, NEW rc, NEW o \in Orders, NEW st \in BOOLEAN, NEW v,
           HasForm(T, v), T.k = "set", PartsFit(T, ser, dec, rd, rc, v), v \in SUBSET Values[T.of],
           \A x \in v : rc[T.of][x] = x, Plain(T.of, ser, rd, rc, Ascending(T.of, v))
    PROVE  KindFits(T, ser, dec, rd, rc, o, st, v)
<1>. DEFINE U == T.of
            s == Ascending(U, v)
            n == Len(s)
            d == DecOf(T, dec, st)
            d0 == VecOfU(U, dec)
            d1 == [z \in Seq(Byte) |-> DecVec(U, dec, z)]
            e == Then(SerLen(Len(s)), InSequence(PartsOfAll(U, ser, s)))
            ok == AllReadable(U, rd, s)
<1>1. U \in Keys /\ Few(v)
  BY TypesAssumption DEF HasForm
<1>2. /\ IsSequence(s) /\ s \in [1..n -> v] /\ DOMAIN s = 1..n /\ ToSet(s) = v /\ AscendingKeys(U, s)
  BY <1>1, AscendingIs DEF Few
<1>3. Serialize(T, ser, o, v) = Then(CheckZst(U), e)
  <2>1. Iterate(U, v, T.hash, o) = s
    BY <1>1, IterateIs
  <2>. DEFINE parts == PartsOfAll(U, ser, s)
  <2>2. Serialize(T, ser, o, v) = SerItems(U, parts)
    BY <2>1 DEF Serialize, SerSet, PartsOfAll
  <2>3. Len(parts) = Len(s)
    <3>1. n \in Nat /\ parts = [i \in 1..n |-> parts[i]]
      BY <1>2 DEF PartsOfAll, IsSequence
    <3>. HIDE DEF n, parts
    <3>2. Len(parts) = n
      BY <3>1, FunctionIsSeq
    <3>. QED
      BY <3>2 DEF n
  <2>. QED
    BY <2>2, <2>3 DEF SerItems
<1>4. Components(T, v) = {<<U, x>> : x \in v}
  BY DEF Components, Simple
<1>5. ASSUME NEW x \in v PROVE Fits(ser[U][x], dec[U], rd[U][x], rc[U][x])
  <2>1. <<U, x>> \in Components(T, v)
    BY <1>4
  <2>. QED
    BY <2>1 DEF PartsFit
<1>6. ElementsFit(U, ser, dec, rd, rc, s)
  <2>1. \A i \in DOMAIN s : s[i] \in v
    BY <1>2
  <2>. QED
    BY <1>2, <1>5, <2>1 DEF ElementsFit
<1>7. AllReceived(U, rc, s) = s
  <2>1. \A i \in 1..n : s[i] \in v /\ rc[U][s[i]] = s[i]
    BY <1>2
  <2>2. AllReceived(U, rc, s) = [i \in 1..n |-> rc[U][s[i]]] /\ s = [i \in 1..n |-> s[i]]
    BY <1>2 DEF AllReceived
  <2>. HIDE DEF s, n, U
  <2>. QED
    BY <2>1, <2>2
<1>8. ReadableOf(T, rd, v) <=> ok
  <2>1. (\A c \in Components(T, v) : rd[c[1]][c[2]]) <=> \A x \in v : rd[U][x]
    <3>1. \A x \in v : <<U, x>> \in Components(T, v)
      BY <1>4
    <3>2. \A c \in Components(T, v) : \E x \in v : c = <<U, x>>
      BY <1>4
    <3>3. ASSUME NEW x \in v, \A c \in Components(T, v) : rd[c[1]][c[2]] PROVE rd[U][x]
      <4>. DEFINE c == <<U, x>>
      <4>1. rd[c[1]][c[2]]
        BY <3>1, <3>3
      <4>. QED
        BY <4>1
    <3>4. ASSUME \A x \in v : rd[U][x], NEW c \in Components(T, v) PROVE rd[c[1]][c[2]]
      BY <3>2, <3>4
    <3>. QED
      BY <3>3, <3>4
  <2>2. ok <=> \A x \in v : rd[U][x]
    <3>1. \A x \in v : \E i \in DOMAIN s : s[i] = x
      BY <1>2 DEF ToSet
    <3>2. \A i \in DOMAIN s : s[i] \in v
      BY <1>2
    <3>. HIDE DEF s, U
    <3>. QED
      BY <3>1, <3>2 DEF AllReadable
  <2>. DEFINE all == \A c \in Components(T, v) : rd[c[1]][c[2]]
  <2>3. all <=> ok
    BY <2>1, <2>2
  <2>. HIDE DEF all, ok
  <2>. QED
    BY <2>3 DEF ReadableOf, all
<1>9. ReceivedOf(T, rc, v) = v
  BY DEF ReceivedOf
<1>10. \A z \in Seq(Byte) : d1[z] = CheckedZst(U, d0[z])
  BY DEF DecVec, VecOfU
<1>11. \A z \in Seq(Byte) : d[z] = IF d1[z].err = "none"
                                   THEN IF st /\ ~AscendingKeys(U, d1[z].val) THEN Bad("WrongOrder")
                                        ELSE Got(ToSet(d1[z].val), d1[z].rest)
                                   ELSE d1[z]
  BY DEF DecOf, Deserialize, DecSet, AndThen, IsOk
<1>. HIDE DEF s, n
<1>12. Fits(e, d0, ok, s)
  BY <1>6, <1>7, VecFit
<1>. HIDE DEF d, d0, d1, ok, U, e
<1>13. Fits(Then(CheckZst(U), e), d1, ok, s)
  BY <1>10, <1>12, CheckedFits
<1>14. \A z \in Seq(Byte) : d1[z].err # "none" => d[z] = d1[z]
  BY <1>11
<1>15. ASSUME NEW z \in Seq(Byte), NEW r, d1[z] = Got(s, r) PROVE d[z] = Got(v, r)
  <2>1. d1[z].err = "none" /\ d1[z].val = s /\ d1[z].rest = r
    BY <1>15, GotIs
  <2>. QED
    BY <1>2, <1>11, <2>1
<1>16. Follows(d, d1, s, v)
  BY <1>14, <1>15, MapIs
<1>. DEFINE f == Then(CheckZst(U), e)
<1>17. Fits(f, d1, ok, s)
  BY <1>13
<1>. HIDE DEF f
<1>18. Fits(f, d, ok, v)
  BY <1>16, <1>17, FitsAfter
<1>19. Fits(f, d, ReadableOf(T, rd, v), ReceivedOf(T, rc, v))
  BY <1>8, <1>9, <1>18, FitsSame
<1>. QED
  BY <1>3, <1>19 DEF KindFits, d, f

\* The greatest of one.
LEMMA GreatestOne == ASSUME NEW i \in Nat PROVE Max({i}) = i
<1>1. \E x \in {i} : \A y \in {i} : x >= y
  OBVIOUS
<1>. QED
  BY <1>1 DEF Max

\* What collect makes of the pairs of n keys and values.
Collected(pairs, keys, ys, n) ==
    /\ KeysOf(pairs) = [i \in 1..n |-> keys[i]]
    /\ DOMAIN LastValues(pairs) = {keys[i] : i \in 1..n}
    /\ \A i \in 1..n : LastValues(pairs)[keys[i]] = ys[i]
    /\ LastValues(pairs) = [x \in DOMAIN LastValues(pairs) |-> LastValues(pairs)[x]]

\* No key is repeated in pairs: none is dropped, none is overwritten.
LEMMA LastValuesIs ==
    ASSUME NEW n \in Nat, NEW keys, NEW ys, NEW pairs, DOMAIN pairs = 1..n, \A i \in 1..n : pairs[i] = <<keys[i], ys[i]>>,
           \A i, j \in 1..n : keys[i] = keys[j] => i = j
    PROVE  Collected(pairs, keys, ys, n)
<1>1. DOMAIN pairs = 1..n /\ \A i \in 1..n : pairs[i][1] = keys[i] /\ pairs[i][2] = ys[i]
  OBVIOUS
<1>2. KeysOf(pairs) = [i \in 1..n |-> keys[i]]
  BY <1>1 DEF KeysOf
<1>3. ToSet(KeysOf(pairs)) = {keys[i] : i \in 1..n}
  <2>. DEFINE f == KeysOf(pairs)
  <2>1. DOMAIN f = 1..n /\ \A i \in 1..n : f[i] = keys[i]
    BY <1>2
  <2>. HIDE DEF f
  <2>2. ToSet(f) = {f[i] : i \in 1..n}
    BY <2>1 DEF ToSet
  <2>3. ASSUME NEW x \in ToSet(f) PROVE x \in {keys[i] : i \in 1..n}
    BY <2>1, <2>2
  <2>4. ASSUME NEW x \in {keys[i] : i \in 1..n} PROVE x \in ToSet(f)
    BY <2>1, <2>2
  <2>. QED
    BY <2>3, <2>4 DEF f
<1>. DEFINE at(x) == {i \in DOMAIN pairs : pairs[i][1] = x}
            Q == ToSet(KeysOf(pairs))
<1>4. LastValues(pairs) = [x \in Q |-> pairs[Max(at(x))][2]]
  BY Zenon DEF LastValues
<1>5. ASSUME NEW i \in 1..n PROVE LastValues(pairs)[keys[i]] = ys[i]
  <2>1. at(keys[i]) = {i}
    <3>1. i \in at(keys[i])
      BY <1>1
    <3>2. ASSUME NEW j \in at(keys[i]) PROVE j = i
      <4>1. j \in 1..n /\ pairs[j][1] = keys[i]
        BY <1>1, <3>2
      <4>2. pairs[j][1] = keys[j]
        BY <1>1, <4>1
      <4>. QED
        BY <4>1, <4>2
    <3>. HIDE DEF at
    <3>. QED
      BY <3>1, <3>2
  <2>3. keys[i] \in Q
    BY <1>3
  <2>. HIDE DEF at, Q
  <2>2. Max(at(keys[i])) = i
    <3>1. Max({i}) = i
      BY GreatestOne
    <3>. QED
      BY <2>1, <3>1
  <2>4. LastValues(pairs)[keys[i]] = pairs[Max(at(keys[i]))][2]
    BY <1>4, <2>3
  <2>. QED
    BY <1>1, <2>2, <2>4
<1>6. DOMAIN LastValues(pairs) = Q /\ LastValues(pairs) = [x \in DOMAIN LastValues(pairs) |-> LastValues(pairs)[x]]
  <2>. HIDE DEF Q, at
  <2>. QED
    BY <1>4
<1>. QED
  BY <1>2, <1>3, <1>5, <1>6 DEF Collected

\* Pairs of a key and a value.
PairsOf(T, dec) == [s \in Seq(Byte) |-> DecPairs(T, dec, s)]
PairParts(T, ser, keys, xs, n) == [i \in 1..n |-> SerPair(T, ser, keys[i], xs[i])]
PairValues(T, rc, keys, xs, n) == [i \in 1..n |-> <<keys[i], rc[T.of][xs[i]]>>]
PairsReadable(T, rd, keys, xs, n) == \A i \in 1..n : rd[T.key][keys[i]] /\ rd[T.of][xs[i]]

\* A key and its value.
LEMMA PairFits ==
    ASSUME NEW T, NEW ser, NEW dec, NEW rd, NEW rc, NEW k, NEW x, rc[T.key][k] = k,
           Fits(ser[T.key][k], dec[T.key], rd[T.key][k], rc[T.key][k]),
           Fits(ser[T.of][x], dec[T.of], rd[T.of][x], rc[T.of][x])
    PROVE  Fits(SerPair(T, ser, k, x), DecPair(T, dec), rd[T.key][k] /\ rd[T.of][x], <<k, rc[T.of][x]>>)
<1>. DEFINE e1 == ser[T.key][k]
            e2 == ser[T.of][x]
            d1 == dec[T.key]
            d2 == dec[T.of]
            ok1 == rd[T.key][k]
            ok2 == rd[T.of][x]
            y == rc[T.of][x]
            w == <<k, y>>
            d == DecPair(T, dec)
<1>1. Fits(e1, d1, ok1, k) /\ Fits(e2, d2, ok2, y)
  OBVIOUS
<1>2. SerPair(T, ser, k, x) = Then(e1, e2)
  BY DEF SerPair
<1>3. \A s \in Seq(Byte) : d[s] = IF d1[s].err = "none"
                                  THEN IF d2[d1[s].rest].err = "none"
                                       THEN Got(<<d1[s].val, d2[d1[s].rest].val>>, d2[d1[s].rest].rest)
                                       ELSE d2[d1[s].rest]
                                  ELSE d1[s]
  BY DEF DecPair, AndThen, Map, IsOk
<1>. HIDE DEF e1, e2, d1, d2, ok1, ok2, y, d
<1>4. ASSUME NEW s \in Seq(Byte) PROVE d1[s].err # "none" => d[s].err = d1[s].err
  BY <1>3
<1>5. ASSUME NEW s \in Seq(Byte), NEW r \in Seq(Byte), d1[s] = Got(k, r)
      PROVE  d[s] = IF d2[r].err = "none" THEN Got(<<k, d2[r].val>>, d2[r].rest) ELSE d2[r]
  <2>1. d1[s].err = "none" /\ d1[s].val = k /\ d1[s].rest = r
    BY <1>5, GotIs
  <2>2. d[s] = IF d2[d1[s].rest].err = "none"
               THEN Got(<<d1[s].val, d2[d1[s].rest].val>>, d2[d1[s].rest].rest)
               ELSE d2[d1[s].rest]
    BY <1>3, <2>1
  <2>. QED
    BY <2>1, <2>2
<1>6. ASSUME NEW s \in Seq(Byte), NEW r \in Seq(Byte), NEW q \in Seq(Byte), d1[s] = Got(k, r), d2[r] = Got(y, q)
      PROVE  d[s] = Got(w, q)
  <2>1. d2[r].err = "none" /\ d2[r].val = y /\ d2[r].rest = q
    BY <1>6, GotIs
  <2>2. d[s] = Got(<<k, d2[r].val>>, d2[r].rest)
    BY <1>5, <1>6, <2>1
  <2>. QED
    BY <2>1, <2>2
<1>7. ASSUME NEW s \in Seq(Byte), NEW r \in Seq(Byte), d1[s] = Got(k, r), d2[r].err # "none"
      PROVE  d[s].err = d2[r].err
  BY <1>5, <1>7
<1>. HIDE DEF w
<1>8. Link(d, d1, k, d2, y, w)
  BY <1>4, <1>6, <1>7 DEF Link
<1>9. Fits(Then(e1, e2), d, ok1 /\ ok2, w)
  BY <1>1, <1>8, FitsBoth
<1>. QED
  BY <1>2, <1>9 DEF d, ok1, ok2, w, y

\* The pairs of a map, behind their number.
LEMMA PairsFit ==
    ASSUME NEW T, NEW ser, NEW dec, NEW rd, NEW rc, NEW n \in Nat, NEW keys, NEW xs,
           \A i \in 1..n :
               /\ rc[T.key][keys[i]] = keys[i]
               /\ Fits(ser[T.key][keys[i]], dec[T.key], rd[T.key][keys[i]], rc[T.key][keys[i]])
               /\ Fits(ser[T.of][xs[i]], dec[T.of], rd[T.of][xs[i]], rc[T.of][xs[i]])
    PROVE  Fits(SerItems(T.key, PairParts(T, ser, keys, xs, n)), PairsOf(T, dec),
                PairsReadable(T, rd, keys, xs, n), PairValues(T, rc, keys, xs, n))
<1>. DEFINE es == PairParts(T, ser, keys, xs, n)
            ws == PairValues(T, rc, keys, xs, n)
            d0 == DecPair(T, dec)
            ok == {i \in 1..n : rd[T.key][keys[i]] /\ rd[T.of][xs[i]]}
            all2 == PairsReadable(T, rd, keys, xs, n)
            d1 == CountedOf(d0)
            d == PairsOf(T, dec)
            U == T.key
<1>1. es = [i \in 1..n |-> es[i]] /\ ws = FirstOf(ws, n) /\ ok \in SUBSET Nat
  BY DEF PairParts, PairValues, FirstOf
<1>2. ASSUME NEW i \in 1..n PROVE Fits(es[i], d0, i \in ok, ws[i])
  <2>. DEFINE e == SerPair(T, ser, keys[i], xs[i])
              w == <<keys[i], rc[T.of][xs[i]]>>
              ok1 == rd[T.key][keys[i]] /\ rd[T.of][xs[i]]
              ok2 == i \in ok
  <2>1. Fits(e, d0, ok1, w)
    BY PairFits
  <2>2. (ok1 <=> ok2) /\ es[i] = e /\ ws[i] = w
    BY DEF PairParts, PairValues
  <2>. HIDE DEF e, w, ok1, ok2, d0
  <2>3. Fits(e, d0, ok2, w)
    BY <2>1, <2>2, FitsSame
  <2>. QED
    BY <2>2, <2>3 DEF ok2
<1>3. 1..n \subseteq ok <=> all2
  BY DEF PairsReadable
<1>4. \A s \in Seq(Byte) : d[s] = CheckedZst(U, d1[s])
  BY DEF PairsOf, DecPairs, CountedOf
<1>. HIDE DEF es, ws, d0, ok, d, all2, U
<1>5. Len(es) = n
  BY <1>1, FunctionIsSeq
<1>6. Fits(Then(SerLen(n), InSequence(es)), CountedOf(d0), 1..n \subseteq ok, FirstOf(ws, n))
  BY <1>1, <1>2, CountedFit
<1>. DEFINE all == 1..n \subseteq ok
            e == Then(SerLen(n), InSequence(es))
<1>7. Fits(e, d1, all, ws)
  BY <1>1, <1>6
<1>. HIDE DEF all, e, d1
<1>8. Fits(e, d1, all2, ws)
  BY <1>3, <1>7, FitsSame DEF all
<1>9. Fits(Then(CheckZst(U), e), d, all2, ws)
  BY <1>4, <1>8, CheckedFits
<1>10. SerItems(U, es) = Then(CheckZst(U), e)
  BY <1>5 DEF SerItems, e
<1>. QED
  BY <1>9, <1>10 DEF es, ws, d, all2, U

\* What the entries of a map are made of.
LEMMA MapParts ==
    ASSUME NEW T \in Types, T.k = "map", NEW ser, NEW dec, NEW rd, NEW rc, NEW v, PartsFit(T, ser, dec, rd, rc, v)
    PROVE  /\ \A k \in DOMAIN v :
                /\ Fits(ser[T.key][k], dec[T.key], rd[T.key][k], rc[T.key][k])
                /\ Fits(ser[T.of][v[k]], dec[T.of], rd[T.of][v[k]], rc[T.of][v[k]])
           /\ ReadableOf(T, rd, v) <=> \A k \in DOMAIN v : rd[T.key][k] /\ rd[T.of][v[k]]
<1>1. Components(T, v) = {<<T.key, x>> : x \in DOMAIN v} \cup {<<T.of, v[x]>> : x \in DOMAIN v}
  BY DEF Components, Simple
<1>2. \A k \in DOMAIN v : <<T.key, k>> \in Components(T, v) /\ <<T.of, v[k]>> \in Components(T, v)
  BY <1>1
<1>3. \A c \in Components(T, v) : \E k \in DOMAIN v : c = <<T.key, k>> \/ c = <<T.of, v[k]>>
  BY <1>1
<1>4. ASSUME NEW k \in DOMAIN v
      PROVE  /\ Fits(ser[T.key][k], dec[T.key], rd[T.key][k], rc[T.key][k])
             /\ Fits(ser[T.of][v[k]], dec[T.of], rd[T.of][v[k]], rc[T.of][v[k]])
  BY <1>2 DEF PartsFit
<1>. DEFINE all == \A c \in Components(T, v) : rd[c[1]][c[2]]
            each == \A k \in DOMAIN v : rd[T.key][k] /\ rd[T.of][v[k]]
<1>5. ASSUME all PROVE each
  <2>1. ASSUME NEW k \in DOMAIN v PROVE rd[T.key][k] /\ rd[T.of][v[k]]
    <3>. DEFINE a == <<T.key, k>>
                b == <<T.of, v[k]>>
    <3>1. rd[a[1]][a[2]] /\ rd[b[1]][b[2]]
      BY <1>2, <1>5
    <3>. QED
      BY <3>1
  <2>. QED
    BY <2>1
<1>6. ASSUME each PROVE all
  <2>1. ASSUME NEW c \in Components(T, v) PROVE rd[c[1]][c[2]]
    BY <1>3, <1>6
  <2>. QED
    BY <2>1
<1>7. all <=> each
  BY <1>5, <1>6
<1>. HIDE DEF each
<1>8. ReadableOf(T, rd, v) <=> each
  <2>. HIDE DEF all
  <2>. QED
    BY <1>7 DEF ReadableOf, all
<1>. QED
  BY <1>4, <1>8 DEF each

\* BTreeMap and HashMap: the pairs, from the least key to the greatest.
LEMMA MapFits ==
    ASSUME NEW T \in Types, NEW ser, NEW dec, NEW rd, NEW rc, NEW o \in Orders, NEW st \in BOOLEAN, NEW v,
           HasForm(T, v), T.k = "map", PartsFit(T, ser, dec, rd, rc, v), DOMAIN v \in SUBSET Values[T.key],
           \A k \in DOMAIN v : rc[T.key][k] = k
    PROVE  KindFits(T, ser, dec, rd, rc, o, st, v)
<1>. DEFINE K == T.key
            S == DOMAIN v
            keys == Ascending(K, S)
            n == Len(keys)
            xs == [i \in 1..n |-> v[keys[i]]]
            ys == [i \in 1..n |-> rc[T.of][xs[i]]]
            pairs == PairValues(T, rc, keys, xs, n)
            d == DecOf(T, dec, st)
            d1 == PairsOf(T, dec)
            e == SerItems(K, PairParts(T, ser, keys, xs, n))
            ok1 == PairsReadable(T, rd, keys, xs, n)
            w == ReceivedOf(T, rc, v)
<1>1. K \in Keys /\ Few(S) /\ IsFunction(v)
  BY TypesAssumption DEF HasForm
<1>2. /\ IsSequence(keys) /\ keys \in [1..n -> S] /\ DOMAIN keys = 1..n /\ ToSet(keys) = S
      /\ AscendingKeys(K, keys) /\ \A i, j \in 1..n : keys[i] = keys[j] => i = j
  BY <1>1, AscendingIs DEF Few
<1>3. n \in Nat /\ (\A i \in 1..n : keys[i] \in S) /\ \A x \in S : \E i \in 1..n : keys[i] = x
  BY <1>2 DEF IsSequence, ToSet
<1>4. Serialize(T, ser, o, v) = e
  <2>1. Iterate(K, S, T.hash, o) = keys
    BY <1>1, IterateIs
  <2>2. Serialize(T, ser, o, v) = SerItems(K, [i \in DOMAIN keys |-> SerPair(T, ser, keys[i], v[keys[i]])])
    BY <2>1 DEF Serialize, SerMap
  <2>3. [i \in DOMAIN keys |-> SerPair(T, ser, keys[i], v[keys[i]])] = PairParts(T, ser, keys, xs, n)
    <3>. HIDE DEF keys, n
    <3>. QED
      BY <1>2 DEF PairParts
  <2>. QED
    BY <2>2, <2>3
<1>5. /\ \A k \in S :
                /\ Fits(ser[T.key][k], dec[T.key], rd[T.key][k], rc[T.key][k])
                /\ Fits(ser[T.of][v[k]], dec[T.of], rd[T.of][v[k]], rc[T.of][v[k]])
      /\ ReadableOf(T, rd, v) <=> \A k \in S : rd[T.key][k] /\ rd[T.of][v[k]]
  BY MapParts
<1>. HIDE DEF keys, n
<1>6. \A i \in 1..n :
               /\ rc[T.key][keys[i]] = keys[i]
               /\ Fits(ser[T.key][keys[i]], dec[T.key], rd[T.key][keys[i]], rc[T.key][keys[i]])
               /\ Fits(ser[T.of][xs[i]], dec[T.of], rd[T.of][xs[i]], rc[T.of][xs[i]])
  BY <1>3, <1>5
<1>7. \A i \in 1..n : xs[i] = v[keys[i]] /\ ys[i] = rc[T.of][v[keys[i]]]
  OBVIOUS
<1>8. ReadableOf(T, rd, v) <=> ok1
  <2>1. ok1 <=> \A i \in 1..n : rd[T.key][keys[i]] /\ rd[T.of][v[keys[i]]]
    BY DEF PairsReadable
  <2>. HIDE DEF ok1, S
  <2>. QED
    BY <1>3, <1>5, <2>1
<1>9. pairs = [i \in 1..n |-> <<keys[i], ys[i]>>]
  BY DEF PairValues
<1>. HIDE DEF xs
<1>10. Fits(e, d1, ok1, pairs)
  BY <1>3, <1>6, PairsFit
<1>11. w = [k \in S |-> rc[T.of][v[k]]]
  BY DEF ReceivedOf
<1>. HIDE DEF ys, pairs, w
<1>12. /\ KeysOf(pairs) = [i \in 1..n |-> keys[i]]
       /\ DOMAIN LastValues(pairs) = {keys[i] : i \in 1..n}
       /\ \A i \in 1..n : LastValues(pairs)[keys[i]] = ys[i]
       /\ LastValues(pairs) = [x \in DOMAIN LastValues(pairs) |-> LastValues(pairs)[x]]
  <2>1. \A i, j \in 1..n : keys[i] = keys[j] => i = j
    BY <1>2
  <2>2. DOMAIN pairs = 1..n /\ \A i \in 1..n : pairs[i] = <<keys[i], ys[i]>>
    BY <1>9
  <2>3. Collected(pairs, keys, ys, n)
    BY <1>3, <2>1, <2>2, LastValuesIs
  <2>. QED
    BY <2>3 DEF Collected
<1>13. KeysOf(pairs) = keys
  <2>1. keys = [i \in 1..n |-> keys[i]]
    BY <1>2
  <2>. QED
    BY <1>12, <2>1
<1>14. LastValues(pairs) = w
  <2>. DEFINE lv == LastValues(pairs)
  <2>. HIDE DEF S
  <2>1. DOMAIN lv = S
    <3>1. ASSUME NEW x \in S PROVE x \in {keys[i] : i \in 1..n}
      BY <1>3
    <3>2. ASSUME NEW x \in {keys[i] : i \in 1..n} PROVE x \in S
      BY <1>3
    <3>. QED
      BY <1>12, <3>1, <3>2
  <2>2. ASSUME NEW x \in S PROVE lv[x] = rc[T.of][v[x]]
    BY <1>3, <1>7, <1>12
  <2>3. lv = [x \in S |-> lv[x]]
    BY <1>12, <2>1
  <2>. HIDE DEF lv
  <2>4. lv = w
    BY <1>11, <2>2, <2>3
  <2>. QED
    BY <2>4 DEF lv
<1>15. \A z \in Seq(Byte) : d[z] = IF d1[z].err = "none"
                                   THEN IF st /\ ~AscendingKeys(K, KeysOf(d1[z].val)) THEN Bad("WrongOrder")
                                        ELSE Got(LastValues(d1[z].val), d1[z].rest)
                                   ELSE d1[z]
  BY DEF DecOf, Deserialize, DecMap, AndThen, IsOk, PairsOf
<1>. HIDE DEF d, d1, ok1, K, e
<1>16. \A z \in Seq(Byte) : d1[z].err # "none" => d[z] = d1[z]
  BY <1>15
<1>17. ASSUME NEW z \in Seq(Byte), NEW r, d1[z] = Got(pairs, r) PROVE d[z] = Got(w, r)
  <2>1. d1[z].err = "none" /\ d1[z].val = pairs /\ d1[z].rest = r
    BY <1>17, GotIs
  <2>2. d[z] = IF st /\ ~AscendingKeys(K, KeysOf(d1[z].val)) THEN Bad("WrongOrder")
               ELSE Got(LastValues(d1[z].val), d1[z].rest)
    BY <1>15, <2>1
  <2>3. d[z] = Got(LastValues(pairs), r)
    BY <1>2, <1>13, <2>1, <2>2
  <2>. QED
    BY <1>14, <2>3
<1>18. Follows(d, d1, pairs, w)
  BY <1>16, <1>17, MapIs
<1>19. Fits(e, d, ok1, w)
  BY <1>10, <1>18, FitsAfter
<1>20. Fits(e, d, ReadableOf(T, rd, v), w)
  BY <1>8, <1>19, FitsSame
<1>. QED
  BY <1>4, <1>20 DEF KindFits, d, w

\* Nothing is dropped from a sequence without repetitions.
LEMMA FirstOnesIs ==
    ASSUME NEW n \in Nat, NEW s, s = [i \in 1..n |-> s[i]], \A i, j \in 1..n : s[i] = s[j] => i = j
    PROVE  FirstOnes(s) = s
<1>. DEFINE S == 1..n
            R == {p \in S \X S : p[1] < p[2]}
            id == [i \in 1..n |-> i]
            first == {i \in DOMAIN s : \A j \in 1..i - 1 : s[j] # s[i]}
<1>1. DOMAIN s = S
  OBVIOUS
<1>2. first = S
  <2>1. ASSUME NEW i \in S PROVE \A j \in 1..i - 1 : s[j] # s[i]
    <3>1. \A j \in 1..i - 1 : j \in 1..n /\ j # i
      OBVIOUS
    <3>. QED
      BY <3>1
  <2>. QED
    BY <1>1, <2>1
<1>3. \A x, y \in S : <<x, y>> \in R <=> x < y
  OBVIOUS
<1>4. S \in SUBSET Nat /\ IsFiniteSet(S) /\ Cardinality(S) = n
  BY IntervalSize
<1>5. Ordering(S, R)
  <2>. HIDE DEF S, R
  <2>1. \A x \in S : <<x, x>> \notin R
    BY <1>3, <1>4
  <2>2. ASSUME NEW x \in S, NEW y \in S PROVE x = y \/ <<x, y>> \in R \/ <<y, x>> \in R
    <3>1. x = y \/ x < y \/ y < x
      BY <1>4
    <3>. QED
      BY <1>3, <3>1
  <2>3. ASSUME NEW x \in S, NEW y \in S, NEW z \in S, <<x, y>> \in R, <<y, z>> \in R PROVE <<x, z>> \in R
    <3>1. x < y /\ y < z /\ x \in Nat /\ y \in Nat /\ z \in Nat
      BY <1>3, <1>4, <2>3
    <3>2. x < z
      BY <3>1
    <3>. QED
      BY <1>3, <3>2
  <2>. QED
    BY <1>4, <2>1, <2>2, <2>3 DEF Ordering
<1>6. Sorted(id, n, S, R)
  <2>1. id \in [1..n -> S] /\ \A i \in 1..n : id[i] = i
    OBVIOUS
  <2>. HIDE DEF id, R
  <2>. QED
    BY <1>3, <2>1 DEF Sorted
<1>. HIDE DEF S, R, id
<1>7. id = InOrder(S, R)
  BY <1>4, <1>5, <1>6, InOrderIs
<1>8. FirstOnes(s) = [i \in DOMAIN InOrder(first, {p \in first \X first : p[1] < p[2]}) |->
                         s[InOrder(first, {p \in first \X first : p[1] < p[2]})[i]]]
  BY DEF FirstOnes
<1>9. FirstOnes(s) = [i \in DOMAIN id |-> s[id[i]]]
  <2>. HIDE DEF first
  <2>. QED
    BY <1>2, <1>7, <1>8 DEF R
<1>10. DOMAIN id = 1..n /\ \A i \in 1..n : id[i] = i
  BY DEF id
<1>11. FirstOnes(s) = [i \in 1..n |-> s[i]]
  BY <1>9, <1>10
<1>. QED
  BY <1>11

\* IndexSet: its elements, in its own order.
LEMMA IndexSetFits ==
    ASSUME NEW T \in Types, NEW ser, NEW dec, NEW rd, NEW rc, NEW o, NEW st, NEW v,
           HasForm(T, v), T.k = "indexset", PartsFit(T, ser, dec, rd, rc, v), Plain(T.of, ser, rd, rc, v),
           \A i \in DOMAIN v : rc[T.of][v[i]] = v[i]
    PROVE  KindFits(T, ser, dec, rd, rc, o, st, v)
<1>. DEFINE U == T.of
            n == Len(v)
            d == DecOf(T, dec, st)
            d0 == VecOfU(U, dec)
            d1 == [z \in Seq(Byte) |-> DecVec(U, dec, z)]
            e == Then(SerLen(Len(v)), InSequence(PartsOfAll(U, ser, v)))
            ok == AllReadable(U, rd, v)
<1>1. n \in Nat /\ DOMAIN v = 1..n /\ v = [i \in 1..n |-> v[i]] /\ \A i, j \in 1..n : v[i] = v[j] => i = j
  BY DEF HasForm, IsSequence, IsFunction
<1>2. ElementsFit(U, ser, dec, rd, rc, v) /\ (ReadableOf(T, rd, v) <=> ok)
  BY ListParts
<1>3. ReceivedOf(T, rc, v) = v
  BY DEF ReceivedOf
<1>4. AllReceived(U, rc, v) = v
  <2>1. AllReceived(U, rc, v) = [i \in 1..n |-> rc[U][v[i]]]
    BY <1>1 DEF AllReceived
  <2>2. \A i \in 1..n : rc[U][v[i]] = v[i]
    BY <1>1
  <2>. HIDE DEF n, U
  <2>. QED
    BY <1>1, <2>1, <2>2
<1>5. Serialize(T, ser, o, v) = Then(CheckZst(U), e)
  <2>. DEFINE parts == PartsOfAll(U, ser, v)
  <2>2. Serialize(T, ser, o, v) = SerItems(U, parts)
    BY DEF Serialize, SerIndexSet, PartsOfAll
  <2>3. Len(parts) = Len(v)
    <3>1. parts = [i \in 1..n |-> parts[i]]
      BY <1>1 DEF PartsOfAll
    <3>. HIDE DEF n, parts
    <3>2. Len(parts) = n
      BY <1>1, <3>1, FunctionIsSeq
    <3>. QED
      BY <3>2 DEF n
  <2>. QED
    BY <2>2, <2>3 DEF SerItems
<1>6. \A z \in Seq(Byte) : d1[z] = CheckedZst(U, d0[z])
  BY DEF DecVec, VecOfU
<1>7. \A z \in Seq(Byte) : d[z] = IF d1[z].err = "none" THEN Got(FirstOnes(d1[z].val), d1[z].rest) ELSE d1[z]
  BY DEF DecOf, Deserialize, DecIndexSet, Map, IsOk
<1>8. Fits(e, d0, ok, v)
  BY <1>2, <1>4, VecFit
<1>9. FirstOnes(v) = v
  <2>. HIDE DEF n
  <2>. QED
    BY <1>1, FirstOnesIs
<1>. HIDE DEF d, d0, d1, ok, U, e, n
<1>10. Fits(Then(CheckZst(U), e), d1, ok, v)
  BY <1>6, <1>8, CheckedFits
<1>11. \A z \in Seq(Byte) : d1[z].err # "none" => d[z] = d1[z]
  BY <1>7
<1>12. ASSUME NEW z \in Seq(Byte), NEW r, d1[z] = Got(v, r) PROVE d[z] = Got(v, r)
  <2>1. d1[z].err = "none" /\ d1[z].val = v /\ d1[z].rest = r
    BY <1>12, GotIs
  <2>. QED
    BY <1>7, <1>9, <2>1
<1>13. Follows(d, d1, v, v)
  BY <1>11, <1>12, MapIs
<1>. DEFINE f == Then(CheckZst(U), e)
<1>14. Fits(f, d1, ok, v)
  BY <1>10
<1>. HIDE DEF f
<1>15. Fits(f, d, ok, v)
  BY <1>13, <1>14, FitsAfter
<1>16. Fits(f, d, ReadableOf(T, rd, v), ReceivedOf(T, rc, v))
  BY <1>2, <1>3, <1>15, FitsSame
<1>. QED
  BY <1>5, <1>16 DEF KindFits, d, f

\* IndexMap: its pairs, in its own order.
LEMMA IndexMapFits ==
    ASSUME NEW T \in Types, NEW ser, NEW dec, NEW rd, NEW rc, NEW o, NEW st, NEW v,
           HasForm(T, v), T.k = "indexmap", PartsFit(T, ser, dec, rd, rc, v),
           \A i \in DOMAIN v : rc[T.key][v[i][1]] = v[i][1]
    PROVE  KindFits(T, ser, dec, rd, rc, o, st, v)
<1>. DEFINE K == T.key
            n == Len(v)
            keys == [i \in 1..n |-> v[i][1]]
            xs == [i \in 1..n |-> v[i][2]]
            ys == [i \in 1..n |-> rc[T.of][xs[i]]]
            pairs == PairValues(T, rc, keys, xs, n)
            d == DecOf(T, dec, st)
            d1 == PairsOf(T, dec)
            e == SerItems(K, PairParts(T, ser, keys, xs, n))
            ok1 == PairsReadable(T, rd, keys, xs, n)
            w == ReceivedOf(T, rc, v)
<1>1. n \in Nat /\ DOMAIN v = 1..n /\ \A i, j \in 1..n : v[i][1] = v[j][1] => i = j
  BY DEF HasForm, IsSequence
<1>2. \A i, j \in 1..n : keys[i] = keys[j] => i = j
  BY <1>1
<1>3. Serialize(T, ser, o, v) = e
  <2>1. Serialize(T, ser, o, v) = SerItems(K, [i \in DOMAIN v |-> SerPair(T, ser, v[i][1], v[i][2])])
    BY DEF Serialize, SerIndexMap
  <2>2. [i \in DOMAIN v |-> SerPair(T, ser, v[i][1], v[i][2])] = PairParts(T, ser, keys, xs, n)
    <3>. HIDE DEF n
    <3>. QED
      BY <1>1 DEF PairParts
  <2>. QED
    BY <2>1, <2>2
<1>4. Components(T, v) = {<<T.key, v[i][1]>> : i \in DOMAIN v} \cup {<<T.of, v[i][2]>> : i \in DOMAIN v}
  BY DEF Components, Simple
<1>5. \A i \in DOMAIN v : <<T.key, v[i][1]>> \in Components(T, v) /\ <<T.of, v[i][2]>> \in Components(T, v)
  BY <1>4
<1>6. \A c \in Components(T, v) : \E i \in DOMAIN v : c = <<T.key, v[i][1]>> \/ c = <<T.of, v[i][2]>>
  BY <1>4
<1>7. ASSUME NEW i \in 1..n
      PROVE  /\ rc[T.key][keys[i]] = keys[i]
             /\ Fits(ser[T.key][keys[i]], dec[T.key], rd[T.key][keys[i]], rc[T.key][keys[i]])
             /\ Fits(ser[T.of][xs[i]], dec[T.of], rd[T.of][xs[i]], rc[T.of][xs[i]])
  <2>1. keys[i] = v[i][1] /\ xs[i] = v[i][2] /\ i \in DOMAIN v
    BY <1>1
  <2>. DEFINE a == <<T.key, v[i][1]>>
              b == <<T.of, v[i][2]>>
  <2>2. /\ Fits(ser[a[1]][a[2]], dec[a[1]], rd[a[1]][a[2]], rc[a[1]][a[2]])
        /\ Fits(ser[b[1]][b[2]], dec[b[1]], rd[b[1]][b[2]], rc[b[1]][b[2]])
    BY <1>5, <2>1 DEF PartsFit
  <2>3. a[1] = T.key /\ a[2] = v[i][1] /\ b[1] = T.of /\ b[2] = v[i][2]
    OBVIOUS
  <2>. HIDE DEF a, b, keys, xs, n
  <2>. QED
    BY <2>1, <2>2, <2>3
<1>8. ReadableOf(T, rd, v) <=> ok1
  <2>. DEFINE all == \A c \in Components(T, v) : rd[c[1]][c[2]]
              each == \A i \in DOMAIN v : rd[T.key][v[i][1]] /\ rd[T.of][v[i][2]]
  <2>1. ASSUME all PROVE each
    <3>1. ASSUME NEW i \in DOMAIN v PROVE rd[T.key][v[i][1]] /\ rd[T.of][v[i][2]]
      <4>. DEFINE a == <<T.key, v[i][1]>>
                  b == <<T.of, v[i][2]>>
      <4>1. rd[a[1]][a[2]] /\ rd[b[1]][b[2]]
        BY <1>5, <2>1
      <4>. QED
        BY <4>1
    <3>. QED
      BY <3>1
  <2>2. ASSUME each PROVE all
    <3>1. ASSUME NEW c \in Components(T, v) PROVE rd[c[1]][c[2]]
      BY <1>6, <2>2
    <3>. QED
      BY <3>1
  <2>3. ok1 <=> each
    <3>. HIDE DEF n
    <3>. QED
      BY <1>1 DEF PairsReadable
  <2>4. all <=> ok1
    BY <2>1, <2>2, <2>3
  <2>. HIDE DEF all, ok1
  <2>. QED
    BY <2>4 DEF ReadableOf, all
<1>9. pairs = [i \in 1..n |-> <<keys[i], ys[i]>>]
  BY DEF PairValues
<1>10. w = [i \in 1..n |-> <<keys[i], ys[i]>>]
  <2>1. w = [i \in DOMAIN v |-> <<v[i][1], rc[T.of][v[i][2]]>>]
    BY DEF ReceivedOf
  <2>. HIDE DEF n
  <2>. QED
    BY <1>1, <2>1
<1>. HIDE DEF xs, keys, n
<1>11. Fits(e, d1, ok1, pairs)
  BY <1>1, <1>7, PairsFit
<1>. HIDE DEF ys, pairs, w
<1>12. Collected(pairs, keys, ys, n)
  <2>2. DOMAIN pairs = 1..n /\ \A i \in 1..n : pairs[i] = <<keys[i], ys[i]>>
    BY <1>9
  <2>. QED
    BY <1>1, <1>2, <2>2, LastValuesIs
<1>13. KeysOf(pairs) = keys
  <2>1. keys = [i \in 1..n |-> keys[i]]
    BY DEF keys
  <2>. QED
    BY <1>12, <2>1 DEF Collected
<1>14. FirstOnes(keys) = keys
  <2>1. keys = [i \in 1..n |-> keys[i]]
    BY DEF keys
  <2>. QED
    BY <1>1, <1>2, <2>1, FirstOnesIs
<1>15. [i \in DOMAIN keys |-> <<keys[i], LastValues(pairs)[keys[i]]>>] = w
  <2>1. DOMAIN keys = 1..n
    BY DEF keys
  <2>2. \A i \in 1..n : LastValues(pairs)[keys[i]] = ys[i]
    BY <1>12 DEF Collected
  <2>. QED
    BY <1>10, <2>1, <2>2
<1>16. \A z \in Seq(Byte) : d[z] = IF d1[z].err = "none"
                                   THEN Got([i \in DOMAIN FirstOnes(KeysOf(d1[z].val)) |->
                                               <<FirstOnes(KeysOf(d1[z].val))[i],
                                                 LastValues(d1[z].val)[FirstOnes(KeysOf(d1[z].val))[i]]>>], d1[z].rest)
                                   ELSE d1[z]
  BY DEF DecOf, Deserialize, DecIndexMap, Map, IsOk, PairsOf
<1>. HIDE DEF d, d1, ok1, K, e
<1>17. \A z \in Seq(Byte) : d1[z].err # "none" => d[z] = d1[z]
  BY <1>16
<1>18. ASSUME NEW z \in Seq(Byte), NEW r, d1[z] = Got(pairs, r) PROVE d[z] = Got(w, r)
  <2>1. d1[z].err = "none" /\ d1[z].val = pairs /\ d1[z].rest = r
    BY <1>18, GotIs
  <2>2. FirstOnes(KeysOf(d1[z].val)) = keys
    BY <1>13, <1>14, <2>1
  <2>3. d[z] = Got([i \in DOMAIN keys |-> <<keys[i], LastValues(pairs)[keys[i]]>>], r)
    BY <1>16, <2>1, <2>2
  <2>. QED
    BY <1>15, <2>3
<1>19. Follows(d, d1, pairs, w)
  BY <1>17, <1>18, MapIs
<1>20. Fits(e, d, ok1, w)
  BY <1>11, <1>19, FitsAfter
<1>21. Fits(e, d, ReadableOf(T, rd, v), w)
  BY <1>8, <1>20, FitsSame
<1>. QED
  BY <1>3, <1>21 DEF KindFits, d, w

-----------------------------------------------------------------------------
(* The functions that are defined by recursion over the types.             *)

\* What holds of a type when it holds of its parts holds of every type: types are as
\* deep as they are.
LEMMA TypesInduction ==
    ASSUME NEW S \in SUBSET Types, \A T \in Types : PartsOf(T) \subseteq S => T \in S
    PROVE  S = Types
<1>. DEFINE depths == {Depth[T] : T \in Types \ S}
<1>1. SUFFICES ASSUME Types \ S # {} PROVE FALSE
  OBVIOUS
<1>2. depths \in SUBSET Nat /\ depths # {}
  BY <1>1, TypesAssumption
<1>3. PICK m \in depths : \A k \in depths : m <= k
  <2>. HIDE DEF depths
  <2>. QED
    BY <1>2, LeastNumber
<1>4. PICK T \in Types \ S : m = Depth[T]
  BY <1>3
<1>5. ASSUME NEW U \in PartsOf(T) PROVE U \in S
  <2>1. U \in Types /\ Depth[U] < Depth[T]
    BY <1>4, <1>5, TypesAssumption
  <2>2. Depth[U] \in Nat /\ Depth[T] \in Nat
    BY <1>4, <2>1, TypesAssumption
  <2>3. U \notin S => Depth[U] \in depths
    BY <2>1
  <2>. HIDE DEF depths
  <2>. QED
    BY <1>3, <1>4, <2>1, <2>2, <2>3
<1>. QED
  BY <1>4, <1>5

\* What a function says of the parts of a type, and what each of the functions
\* makes of it.
OfParts(h, T) == [U \in PartsOf(T) |-> h[U]]

\* What Ser, Dec, Received, Readable and Indexed are for T, p being what they are for
\* its parts.
SerRule(T, p) ==
    [o \in Orders |-> [v \in Values[T] |-> Serialize(T, [U \in PartsOf(T) |-> p[U][o]], o, v)]]
DecRule(T, p) ==
    [st \in BOOLEAN |-> [s \in Seq(Byte) |-> Deserialize(T, [U \in PartsOf(T) |-> p[U][st]], st, s)]]
ReceivedRule(T, p) == [v \in Values[T] |-> ReceivedOf(T, p, v)]
ReadableRule(T, p) == [v \in Values[T] |-> ReadableOf(T, p, v)]
IndexedRule(T, p) == T.k \in {"indexset", "indexmap"} \/ (T.k # "skip" /\ \E U \in PartsOf(T) : p[U])
HoldsRule(T, p) == T.k = "objectid" \/ (T.k # "skip" /\ \E U \in PartsOf(T) : p[U])

\* The right one of them.
Rule(x, T, p) ==
    CASE x = "ser" -> SerRule(T, p)
      [] x = "dec" -> DecRule(T, p)
      [] x = "received" -> ReceivedRule(T, p)
      [] x = "readable" -> ReadableRule(T, p)
      [] x = "indexed" -> IndexedRule(T, p)
      [] x = "holds" -> HoldsRule(T, p)

\* The types of little depth.
Shallow(n) == {T \in Types : Depth[T] < n}
Solves(x, h, S) == h = [T \in S |-> Rule(x, T, OfParts(h, T))]

\* It is so for each of them.
LEMMA SolvesIs ==
    ASSUME NEW x, NEW h, NEW S, Solves(x, h, S), NEW T \in S
    PROVE  h[T] = Rule(x, T, OfParts(h, T))
<1>. DEFINE g == [U \in S |-> Rule(x, U, OfParts(h, U))]
<1>1. h = g
  BY DEF Solves
<1>2. g[T] = Rule(x, T, OfParts(h, T))
  OBVIOUS
<1>. QED
  BY <1>1, <1>2

\* And it suffices that it is.
LEMMA SolvesIf ==
    ASSUME NEW x, NEW S, NEW h, h = [T \in S |-> h[T]], \A T \in S : h[T] = Rule(x, T, OfParts(h, T))
    PROVE  Solves(x, h, S)
BY DEF Solves

\* Only the parts matter.
LEMMA SameParts ==
    ASSUME NEW g, NEW h, NEW T, \A U \in PartsOf(T) : g[U] = h[U]
    PROVE  OfParts(g, T) = OfParts(h, T)
BY DEF OfParts

\* Parts are less deep.
LEMMA ShallowParts ==
    ASSUME NEW n \in Nat, NEW T \in Shallow(n), NEW U \in PartsOf(T)
    PROVE  n # 0 /\ U \in Shallow(n - 1) /\ U \in Shallow(n)
BY TypesAssumption DEF Shallow

\* There is such a function for the types of depth less than n, whatever n.
LEMMA SolveUpTo == ASSUME NEW x, NEW n \in Nat PROVE \E h : Solves(x, h, Shallow(n))
<1>. DEFINE S == {i \in 0..n : \E h : Solves(x, h, Shallow(i))}
<1>1. 0 \in S
  <2>. DEFINE h == [T \in {} |-> T]
  <2>1. Shallow(0) = {}
    BY TypesAssumption DEF Shallow
  <2>2. Solves(x, h, {})
    <3>1. h = [T \in {} |-> h[T]]
      OBVIOUS
    <3>. HIDE DEF h
    <3>. QED
      BY <3>1, SolvesIf
  <2>. QED
    BY <2>1, <2>2
<1>2. ASSUME NEW i \in 0..n, i > 0, i - 1 \in S PROVE i \in S
  <2>1. PICK h : Solves(x, h, Shallow(i - 1))
    BY <1>2
  <2>. DEFINE g == [T \in Shallow(i) |-> Rule(x, T, OfParts(h, T))]
  <2>2. ASSUME NEW T \in Shallow(i), NEW U \in PartsOf(T) PROVE h[U] = g[U]
    <3>1. U \in Shallow(i - 1) /\ U \in Shallow(i)
      BY <1>2, ShallowParts
    <3>2. h[U] = Rule(x, U, OfParts(h, U))
      BY <2>1, <3>1, SolvesIs
    <3>. QED
      BY <3>1, <3>2
  <2>3. ASSUME NEW T \in Shallow(i) PROVE g[T] = Rule(x, T, OfParts(g, T))
    <3>1. g[T] = Rule(x, T, OfParts(h, T))
      OBVIOUS
    <3>. HIDE DEF g
    <3>2. OfParts(h, T) = OfParts(g, T)
      BY <2>2, SameParts
    <3>. QED
      BY <3>1, <3>2
  <2>4. g = [T \in Shallow(i) |-> g[T]]
    OBVIOUS
  <2>. HIDE DEF g
  <2>5. Solves(x, g, Shallow(i))
    BY <2>3, <2>4, SolvesIf
  <2>. QED
    BY <2>5
<1>3. S \in SUBSET (0..n)
  OBVIOUS
<1>. HIDE DEF S
<1>4. S = 0..n
  BY <1>1, <1>2, <1>3, UpTo
<1>5. n \in S
  BY <1>4
<1>. QED
  BY <1>5 DEF S

\* There is no other.
LEMMA SolutionsAgree ==
    ASSUME NEW x, NEW m \in Nat, NEW n \in Nat, NEW g, Solves(x, g, Shallow(m)), NEW h, Solves(x, h, Shallow(n))
    PROVE  \A T \in Shallow(m) \cap Shallow(n) : g[T] = h[T]
<1>. DEFINE S == {T \in Types : T \in Shallow(m) /\ T \in Shallow(n) => g[T] = h[T]}
<1>1. ASSUME NEW T \in Types, PartsOf(T) \subseteq S PROVE T \in S
  <2>1. SUFFICES ASSUME T \in Shallow(m), T \in Shallow(n) PROVE g[T] = h[T]
    OBVIOUS
  <2>2. ASSUME NEW U \in PartsOf(T) PROVE g[U] = h[U]
    <3>1. U \in Shallow(m) /\ U \in Shallow(n)
      BY <2>1, ShallowParts
    <3>. QED
      BY <1>1, <3>1
  <2>3. OfParts(g, T) = OfParts(h, T)
    BY <2>2, SameParts
  <2>4. g[T] = Rule(x, T, OfParts(g, T))
    BY <2>1, SolvesIs
  <2>5. h[T] = Rule(x, T, OfParts(h, T))
    BY <2>1, SolvesIs
  <2>. QED
    BY <2>3, <2>4, <2>5
<1>2. S \in SUBSET Types
  OBVIOUS
<1>. HIDE DEF S
<1>3. S = Types
  BY <1>1, <1>2, TypesInduction
<1>4. \A T \in Shallow(m) : T \in Types
  BY DEF Shallow
<1>. QED
  BY <1>3, <1>4 DEF S

\* There is one for all types.
LEMMA Solution == ASSUME NEW x PROVE \E h : Solves(x, h, Types)
<1>. DEFINE sol(n) == CHOOSE h : Solves(x, h, Shallow(n))
            h == [T \in Types |-> sol(Depth[T] + 1)[T]]
<1>1. ASSUME NEW n \in Nat PROVE Solves(x, sol(n), Shallow(n))
  BY SolveUpTo
<1>. HIDE DEF sol
<1>2. ASSUME NEW T \in Types PROVE Depth[T] \in Nat /\ Depth[T] + 1 \in Nat /\ T \in Shallow(Depth[T] + 1)
  BY TypesAssumption DEF Shallow
<1>3. ASSUME NEW T \in Types PROVE h[T] = Rule(x, T, OfParts(h, T))
  <2>. DEFINE n == Depth[T] + 1
              g == sol(n)
  <2>1. n \in Nat /\ T \in Shallow(n)
    BY <1>2
  <2>. HIDE DEF n
  <2>2. Solves(x, g, Shallow(n))
    BY <1>1, <2>1
  <2>. HIDE DEF g
  <2>3. ASSUME NEW U \in PartsOf(T) PROVE h[U] = g[U]
    <3>. DEFINE m == Depth[U] + 1
                f == sol(m)
    <3>1. U \in Types /\ U \in Shallow(n)
      BY <2>1, ShallowParts, TypesAssumption
    <3>2. m \in Nat /\ U \in Shallow(m)
      BY <1>2, <3>1
    <3>3. h[U] = f[U]
      BY <3>1
    <3>. HIDE DEF m
    <3>4. Solves(x, f, Shallow(m))
      BY <1>1, <3>2
    <3>. HIDE DEF f, h
    <3>5. f[U] = g[U]
      BY <2>1, <2>2, <3>1, <3>2, <3>4, SolutionsAgree
    <3>. QED
      BY <3>3, <3>5
  <2>4. h[T] = g[T]
    BY DEF g, n
  <2>. HIDE DEF h
  <2>5. OfParts(h, T) = OfParts(g, T)
    BY <2>3, SameParts
  <2>6. g[T] = Rule(x, T, OfParts(g, T))
    BY <2>1, <2>2, SolvesIs
  <2>. QED
    BY <2>4, <2>5, <2>6
<1>4. h = [T \in Types |-> h[T]]
  OBVIOUS
<1>. HIDE DEF h
<1>. QED
  BY <1>3, <1>4, SolvesIf

\* Two equations with one solution.
LEMMA SerIs == ASSUME NEW T \in Types PROVE Ser[T] = SerRule(T, OfParts(Ser, T))
<1>1. PICK h : Solves("ser", h, Types)
  BY Solution
<1>2. \A g, U : SerRule(U, OfParts(g, U)) =
        [o \in Orders |-> [v \in Values[U] |-> Serialize(U, [P \in PartsOf(U) |-> g[P][o]], o, v)]]
  <2>1. ASSUME NEW g, NEW U, NEW o PROVE [P \in PartsOf(U) |-> OfParts(g, U)[P][o]] = [P \in PartsOf(U) |-> g[P][o]]
    BY DEF OfParts
  <2>. QED
    BY <2>1 DEF SerRule
<1>. DEFINE eq(g) == g = [U \in Types |-> [o \in Orders |-> [v \in Values[U] |->
                             Serialize(U, [P \in PartsOf(U) |-> g[P][o]], o, v)]]]
<1>3. eq(h)
  BY <1>1, <1>2 DEF Solves, Rule
<1>4. Ser = CHOOSE g : eq(g)
  BY DEF Ser
<1>5. eq(Ser)
  <2>. HIDE DEF eq
  <2>. QED
    BY <1>3, <1>4
<1>. DEFINE body(g, U) == [o \in Orders |-> [v \in Values[U] |->
                             Serialize(U, [P \in PartsOf(U) |-> g[P][o]], o, v)]]
<1>6. Ser = [U \in Types |-> body(Ser, U)]
  BY <1>5
<1>7. body(Ser, T) = SerRule(T, OfParts(Ser, T))
  BY <1>2
<1>. HIDE DEF body
<1>8. Ser[T] = body(Ser, T)
  BY <1>6
<1>. QED
  BY <1>7, <1>8

\* Dec of a type is made of Dec of its parts.
LEMMA DecIs == ASSUME NEW T \in Types PROVE Dec[T] = DecRule(T, OfParts(Dec, T))
<1>1. PICK h : Solves("dec", h, Types)
  BY Solution
<1>. DEFINE body(g, U) == [st \in BOOLEAN |-> [s \in Seq(Byte) |->
                             Deserialize(U, [P \in PartsOf(U) |-> g[P][st]], st, s)]]
            eq(g) == g = [U \in Types |-> body(g, U)]
<1>2. \A g, U : DecRule(U, OfParts(g, U)) = body(g, U)
  <2>1. ASSUME NEW g, NEW U, NEW st PROVE [P \in PartsOf(U) |-> OfParts(g, U)[P][st]] = [P \in PartsOf(U) |-> g[P][st]]
    BY DEF OfParts
  <2>. QED
    BY <2>1 DEF DecRule
<1>3. eq(h)
  BY <1>1, <1>2 DEF Solves, Rule
<1>4. Dec = CHOOSE g : eq(g)
  BY DEF Dec
<1>5. eq(Dec)
  <2>. HIDE DEF eq
  <2>. QED
    BY <1>3, <1>4
<1>6. body(Dec, T) = DecRule(T, OfParts(Dec, T))
  BY <1>2
<1>. HIDE DEF body
<1>7. Dec[T] = body(Dec, T)
  BY <1>5
<1>. QED
  BY <1>6, <1>7

\* So is Received.
LEMMA ReceivedIs == ASSUME NEW T \in Types PROVE Received[T] = ReceivedRule(T, OfParts(Received, T))
<1>1. PICK h : Solves("received", h, Types)
  BY Solution
<1>. DEFINE body(g, U) == [v \in Values[U] |-> ReceivedOf(U, [P \in PartsOf(U) |-> g[P]], v)]
            eq(g) == g = [U \in Types |-> body(g, U)]
<1>2. \A g, U : ReceivedRule(U, OfParts(g, U)) = body(g, U)
  BY DEF ReceivedRule, OfParts
<1>3. eq(h)
  BY <1>1, <1>2 DEF Solves, Rule
<1>4. Received = CHOOSE g : eq(g)
  BY DEF Received
<1>5. eq(Received)
  <2>. HIDE DEF eq
  <2>. QED
    BY <1>3, <1>4
<1>6. body(Received, T) = ReceivedRule(T, OfParts(Received, T))
  BY <1>2
<1>. HIDE DEF body
<1>7. Received[T] = body(Received, T)
  BY <1>5
<1>. QED
  BY <1>6, <1>7

\* And so is Readable.
LEMMA ReadableIs == ASSUME NEW T \in Types PROVE Readable[T] = ReadableRule(T, OfParts(Readable, T))
<1>1. PICK h : Solves("readable", h, Types)
  BY Solution
<1>. DEFINE body(g, U) == [v \in Values[U] |-> ReadableOf(U, [P \in PartsOf(U) |-> g[P]], v)]
            eq(g) == g = [U \in Types |-> body(g, U)]
<1>2. \A g, U : ReadableRule(U, OfParts(g, U)) = body(g, U)
  BY DEF ReadableRule, OfParts
<1>3. eq(h)
  BY <1>1, <1>2 DEF Solves, Rule
<1>4. Readable = CHOOSE g : eq(g)
  BY DEF Readable
<1>5. eq(Readable)
  <2>. HIDE DEF eq
  <2>. QED
    BY <1>3, <1>4
<1>6. body(Readable, T) = ReadableRule(T, OfParts(Readable, T))
  BY <1>2
<1>. HIDE DEF body
<1>7. Readable[T] = body(Readable, T)
  BY <1>5
<1>. QED
  BY <1>6, <1>7

-----------------------------------------------------------------------------
(* The codec.                                                              *)

\* The implementations of the parts of a type.
SerParts(T, o) == [U \in PartsOf(T) |-> Ser[U][o]]
DecParts(T, st) == [U \in PartsOf(T) |-> Dec[U][st]]

\* The four of them, for T and its values.
LEMMA Unfolded ==
    ASSUME NEW T \in Types
    PROVE  /\ \A o \in Orders : \A v \in Values[T] : Ser[T][o][v] = Serialize(T, SerParts(T, o), o, v)
           /\ \A st \in BOOLEAN : Dec[T][st] = DecOf(T, DecParts(T, st), st)
           /\ \A v \in Values[T] : Received[T][v] = ReceivedOf(T, OfParts(Received, T), v)
           /\ \A v \in Values[T] : Readable[T][v] = ReadableOf(T, OfParts(Readable, T), v)
<1>1. ASSUME NEW o \in Orders, NEW v \in Values[T] PROVE Ser[T][o][v] = Serialize(T, SerParts(T, o), o, v)
  <2>1. [U \in PartsOf(T) |-> OfParts(Ser, T)[U][o]] = SerParts(T, o)
    BY DEF OfParts, SerParts
  <2>2. Ser[T] = SerRule(T, OfParts(Ser, T))
    BY SerIs
  <2>3. SerRule(T, OfParts(Ser, T))[o][v] = Serialize(T, [U \in PartsOf(T) |-> OfParts(Ser, T)[U][o]], o, v)
    BY DEF SerRule
  <2>. QED
    BY <2>1, <2>2, <2>3
<1>2. ASSUME NEW st \in BOOLEAN PROVE Dec[T][st] = DecOf(T, DecParts(T, st), st)
  <2>1. [U \in PartsOf(T) |-> OfParts(Dec, T)[U][st]] = DecParts(T, st)
    BY DEF OfParts, DecParts
  <2>2. Dec[T] = DecRule(T, OfParts(Dec, T))
    BY DecIs
  <2>3. DecRule(T, OfParts(Dec, T))[st] =
          [s \in Seq(Byte) |-> Deserialize(T, [U \in PartsOf(T) |-> OfParts(Dec, T)[U][st]], st, s)]
    BY DEF DecRule
  <2>. QED
    BY <2>1, <2>2, <2>3 DEF DecOf
<1>3. ASSUME NEW v \in Values[T] PROVE Received[T][v] = ReceivedOf(T, OfParts(Received, T), v)
  BY ReceivedIs DEF ReceivedRule
<1>4. ASSUME NEW v \in Values[T] PROVE Readable[T][v] = ReadableOf(T, OfParts(Readable, T), v)
  BY ReadableIs DEF ReadableRule
<1>. QED
  BY <1>1, <1>2, <1>3, <1>4

\* The values a value is made of are values of the parts of its type.
LEMMA ComponentTypes ==
    ASSUME NEW T \in Types, NEW v \in Values[T]
    PROVE  HasForm(T, v) /\ \A c \in Components(T, v) : c[1] \in PartsOf(T) /\ c[2] \in Values[c[1]]
<1>1. HasForm(T, v) /\ \A c \in Components(T, v) : c[2] \in Values[c[1]]
  BY ValuesAssumption
<1>2. T.k \in Kinds
  BY TypesAssumption
<1>3. ASSUME NEW c \in Components(T, v) PROVE c[1] \in PartsOf(T)
  <2>1. CASE T.k \in Simple
    BY <1>3, <2>1 DEF Components, Simple
  <2>2. CASE T.k \in Single
    <3>1. PartsOf(T) = {T.of}
      BY <2>2 DEF PartsOf, Simple, Single
    <3>2. c[1] = T.of
      BY <1>3, <2>2 DEF Components, Simple, Single
    <3>. QED
      BY <3>1, <3>2
  <2>3. CASE T.k = "result"
    BY <1>3, <2>3 DEF Components, PartsOf, Simple, Single
  <2>4. CASE T.k \in {"map", "indexmap"}
    <3>1. PartsOf(T) = {T.key, T.of}
      BY <2>4 DEF PartsOf, Simple, Single
    <3>2. c[1] = T.key \/ c[1] = T.of
      BY <1>3, <2>4 DEF Components, Simple
    <3>. QED
      BY <3>1, <3>2
  <2>5. CASE T.k \in {"tuple", "struct"}
    <3>1. PartsOf(T) = {T.of[i] : i \in DOMAIN T.of}
      BY <2>5 DEF PartsOf, Simple, Single
    <3>2. DOMAIN v = DOMAIN T.of
      <4>1. T.of \in Seq(Types)
        BY <2>5, TypesAssumption
      <4>2. IsSequence(v) /\ Len(v) = Len(T.of)
        BY <1>1, <2>5 DEF HasForm
      <4>. QED
        BY <4>1, <4>2, LenProperties DEF IsSequence
    <3>3. PICK i \in DOMAIN v : c = <<T.of[i], v[i]>>
      BY <1>3, <2>5 DEF Components, Simple
    <3>. QED
      BY <3>1, <3>2, <3>3
  <2>6. CASE T.k = "enum"
    <3>1. PartsOf(T) = {T.of[i] : i \in DOMAIN T.of}
      BY <2>6 DEF PartsOf, Simple, Single
    <3>2. v[1] \in DOMAIN T.of
      BY <1>1, <2>6 DEF HasForm
    <3>3. c = <<T.of[v[1]], v[2]>>
      BY <1>3, <2>6 DEF Components, Simple
    <3>. QED
      BY <3>1, <3>2, <3>3
  <2>. QED
    BY <1>2, <2>1, <2>2, <2>3, <2>4, <2>5, <2>6 DEF Kinds
<1>. QED
  BY <1>1, <1>3

\* Nothing that is a key is changed on its way.
LEMMA KeyReceived ==
    ASSUME NEW K \in Keys, NEW v \in Values[K], NEW rc,
           \A U \in PartsOf(K) : \A x \in Values[U] : rc[U][x] = x
    PROVE  ReceivedOf(K, rc, v) = v
<1>1. /\ K \in Types /\ K.k \in Kinds /\ K.k \notin {"skip", "refcell"} /\ (K.k \in {"struct", "enum"} => ~K.init)
  BY TypesAssumption
<1>2. HasForm(K, v) /\ \A c \in Components(K, v) : c[1] \in PartsOf(K) /\ c[2] \in Values[c[1]]
  BY <1>1, ComponentTypes
<1>3. \A c \in Components(K, v) : rc[c[1]][c[2]] = c[2]
  BY <1>2
<1>4. ASSUME NEW a, NEW b, <<a, b>> \in Components(K, v) PROVE rc[a][b] = b
  <2>. DEFINE c == <<a, b>>
  <2>1. rc[c[1]][c[2]] = c[2]
    BY <1>3, <1>4
  <2>. QED
    BY <2>1
<1>5. CASE K.k \in {"option", "vec", "slice", "array", "third"}
  <2>1. ReceivedOf(K, rc, v) = [i \in DOMAIN v |-> rc[K.of][v[i]]]
    BY <1>5 DEF ReceivedOf
  <2>2. Components(K, v) = {<<K.of, v[i]>> : i \in DOMAIN v}
    BY <1>5 DEF Components, Simple
  <2>3. \A i \in DOMAIN v : rc[K.of][v[i]] = v[i]
    BY <1>4, <2>2
  <2>4. v = [i \in DOMAIN v |-> v[i]]
    <3>1. CASE K.k \in {"vec", "slice", "array"}
      BY <1>2, <3>1 DEF HasForm, IsSequence, IsFunction
    <3>2. CASE K.k = "option"
      <4>1. v = <<>> \/ v = <<v[1]>>
        BY <1>2, <3>2 DEF HasForm
      <4>2. CASE v = <<>>
        <5>1. <<>> = [i \in DOMAIN <<>> |-> <<>>[i]]
          OBVIOUS
        <5>. QED
          BY <4>2, <5>1
      <4>3. CASE v = <<v[1]>>
        <5>. DEFINE x == v[1]
        <5>. HIDE DEF x
        <5>1. <<x>> = [i \in DOMAIN <<x>> |-> <<x>>[i]]
          OBVIOUS
        <5>2. v = <<x>>
          BY <4>3 DEF x
        <5>. QED
          BY <5>1, <5>2
      <4>. QED
        BY <4>1, <4>2, <4>3
    <3>3. CASE K.k = "third"
      <4>. DEFINE x == v[1]
      <4>1. v = <<x>>
        BY <1>2, <3>3 DEF HasForm
      <4>. HIDE DEF x
      <4>2. <<x>> = [i \in DOMAIN <<x>> |-> <<x>>[i]]
        OBVIOUS
      <4>. QED
        BY <4>1, <4>2
    <3>. QED
      BY <1>5, <3>1, <3>2, <3>3
  <2>. QED
    BY <2>1, <2>3, <2>4
<1>6. CASE K.k = "result"
  <2>. DEFINE U == IF v[1] = 0 THEN K.err ELSE K.ok
  <2>1. ReceivedOf(K, rc, v) = <<v[1], rc[U][v[2]]>>
    BY <1>6 DEF ReceivedOf
  <2>2. Components(K, v) = {<<U, v[2]>>}
    BY <1>6 DEF Components, Simple
  <2>3. v = <<v[1], v[2]>>
    BY <1>2, <1>6 DEF HasForm, IsPair
  <2>. HIDE DEF U
  <2>4. rc[U][v[2]] = v[2]
    BY <1>4, <2>2
  <2>. QED
    BY <2>1, <2>3, <2>4
<1>7. CASE K.k \in {"tuple", "struct"}
  <2>1. ReceivedOf(K, rc, v) = [i \in DOMAIN v |-> rc[K.of[i]][v[i]]]
    BY <1>1, <1>7 DEF ReceivedOf
  <2>2. Components(K, v) = {<<K.of[i], v[i]>> : i \in DOMAIN v}
    BY <1>7 DEF Components, Simple
  <2>3. \A i \in DOMAIN v : rc[K.of[i]][v[i]] = v[i]
    BY <1>4, <2>2
  <2>4. v = [i \in DOMAIN v |-> v[i]]
    BY <1>2, <1>7 DEF HasForm, IsSequence, IsFunction
  <2>. QED
    BY <2>1, <2>3, <2>4
<1>8. CASE K.k = "enum"
  <2>. DEFINE U == K.of[v[1]]
  <2>1. ReceivedOf(K, rc, v) = <<v[1], rc[U][v[2]]>>
    BY <1>1, <1>8 DEF ReceivedOf
  <2>2. Components(K, v) = {<<U, v[2]>>}
    BY <1>8 DEF Components, Simple
  <2>3. v = <<v[1], v[2]>>
    BY <1>2, <1>8 DEF HasForm, IsPair
  <2>. HIDE DEF U
  <2>4. rc[U][v[2]] = v[2]
    BY <1>4, <2>2
  <2>. QED
    BY <2>1, <2>3, <2>4
<1>9. CASE K.k = "map"
  <2>1. ReceivedOf(K, rc, v) = [k \in DOMAIN v |-> rc[K.of][v[k]]]
    BY <1>9 DEF ReceivedOf
  <2>2. \A k \in DOMAIN v : <<K.of, v[k]>> \in Components(K, v)
    BY <1>9 DEF Components, Simple
  <2>3. \A k \in DOMAIN v : rc[K.of][v[k]] = v[k]
    BY <1>4, <2>2
  <2>4. v = [k \in DOMAIN v |-> v[k]]
    BY <1>2, <1>9 DEF HasForm, IsFunction
  <2>. QED
    BY <2>1, <2>3, <2>4
<1>10. CASE K.k = "indexmap"
  <2>1. ReceivedOf(K, rc, v) = [i \in DOMAIN v |-> <<v[i][1], rc[K.of][v[i][2]]>>]
    BY <1>10 DEF ReceivedOf
  <2>2. \A i \in DOMAIN v : <<K.of, v[i][2]>> \in Components(K, v)
    BY <1>10 DEF Components, Simple
  <2>3. \A i \in DOMAIN v : rc[K.of][v[i][2]] = v[i][2]
    BY <1>4, <2>2
  <2>4. v = [i \in DOMAIN v |-> v[i]] /\ \A i \in DOMAIN v : v[i] = <<v[i][1], v[i][2]>>
    BY <1>2, <1>10 DEF HasForm, IsSequence, IsFunction, IsPair
  <2>5. \A i \in DOMAIN v : <<v[i][1], rc[K.of][v[i][2]]>> = v[i]
    BY <2>3, <2>4
  <2>. QED
    BY <2>1, <2>4, <2>5
<1>11. CASE K.k \in {"uint", "int", "usize", "isize", "float", "bool", "string", "objectid", "nonzero", "set", "indexset"}
  BY <1>11 DEF ReceivedOf
<1>. QED
  BY <1>1, <1>5, <1>6, <1>7, <1>8, <1>9, <1>10, <1>11 DEF Kinds, Simple, Single

\* Keys hold no skipped field: they are received as they are.
LEMMA KeysReceived == \A K \in Keys : \A v \in Values[K] : Received[K][v] = v
<1>. DEFINE S == {T \in Types : T \in Keys => \A v \in Values[T] : Received[T][v] = v}
<1>1. ASSUME NEW T \in Types, PartsOf(T) \subseteq S PROVE T \in S
  <2>1. SUFFICES ASSUME T \in Keys, NEW v \in Values[T] PROVE Received[T][v] = v
    OBVIOUS
  <2>. DEFINE rc == OfParts(Received, T)
  <2>2. ASSUME NEW U \in PartsOf(T), NEW x \in Values[U] PROVE rc[U][x] = x
    <3>1. U \in Keys
      BY <2>1, TypesAssumption
    <3>2. Received[U][x] = x
      BY <1>1, <3>1
    <3>. QED
      BY <3>2 DEF OfParts
  <2>3. Received[T][v] = ReceivedOf(T, rc, v)
    BY <2>1, Unfolded
  <2>. HIDE DEF rc
  <2>4. ReceivedOf(T, rc, v) = v
    BY <2>1, <2>2, KeyReceived
  <2>. QED
    BY <2>3, <2>4
<1>2. S \in SUBSET Types
  OBVIOUS
<1>. HIDE DEF S
<1>3. S = Types
  BY <1>1, <1>2, TypesInduction
<1>. QED
  BY <1>3, TypesAssumption DEF S

\* A byte is written as itself.
LEMMA PlainByte ==
    ASSUME NEW o \in Orders, U8 \in Types, NEW x \in Values[U8]
    PROVE  x \in Byte /\ Ser[U8][o][x] = OneChunk(<<x>>) /\ Readable[U8][x] /\ Received[U8][x] = x
<1>1. U8.k = "uint" /\ U8.w = 1
  BY DEF U8
<1>2. HasForm(U8, x)
  BY ComponentTypes
<1>3. Pow[0] = 1 /\ Pow[1] = Base /\ Base \in Nat /\ Base > 2
  <2>1. Pow[0] = 1 /\ Pow[0 + 1] = Base * Pow[0]
    BY PowIs
  <2>. QED
    BY <2>1, WireAssumption
<1>4. x \in Byte /\ x \in Int
  <2>1. x \in 0..Pow[1] - 1
    BY <1>1, <1>2 DEF HasForm
  <2>. QED
    BY <1>3, <2>1 DEF Byte
<1>5. Ser[U8][o][x] = SerInt(x, 1)
  <2>1. Ser[U8][o][x] = Serialize(U8, SerParts(U8, o), o, x)
    BY Unfolded
  <2>. QED
    BY <1>1, <2>1 DEF Serialize
<1>6. LittleEndian(x, 1) = <<x>>
  <2>1. x % Base = x /\ x \div 1 = x
    BY <1>3, <1>4 DEF Byte
  <2>2. LittleEndian(x, 1) = [i \in 1..1 |-> ((x % Pow[1]) \div Pow[i - 1]) % Base]
    BY DEF LittleEndian
  <2>3. ASSUME NEW i \in 1..1 PROVE ((x % Pow[1]) \div Pow[i - 1]) % Base = x
    <3>1. i - 1 = 0
      OBVIOUS
    <3>. QED
      BY <1>3, <2>1, <3>1
  <2>4. [i \in 1..1 |-> x] = <<x>>
    OBVIOUS
  <2>5. LittleEndian(x, 1) = [i \in 1..1 |-> x]
    BY <2>2, <2>3
  <2>. QED
    BY <2>4, <2>5
<1>7. Readable[U8][x] /\ Received[U8][x] = x
  <2>1. Readable[U8][x] = ReadableOf(U8, OfParts(Readable, U8), x)
    BY Unfolded
  <2>2. Received[U8][x] = ReceivedOf(U8, OfParts(Received, U8), x)
    BY Unfolded
  <2>3. /\ ReadableOf(U8, OfParts(Readable, U8), x)
        /\ ReceivedOf(U8, OfParts(Received, U8), x) = x
    BY <1>1, SimpleReadable DEF Simple
  <2>. QED
    BY <2>1, <2>2, <2>3
<1>. QED
  BY <1>4, <1>5, <1>6, <1>7 DEF SerInt

\* Bytes among the parts of T are bytes.
LEMMA AllPlain ==
    ASSUME NEW T \in Types, NEW U \in PartsOf(T), NEW o \in Orders, NEW v, \A i \in DOMAIN v : v[i] \in Values[U]
    PROVE  Plain(U, SerParts(T, o), OfParts(Readable, T), OfParts(Received, T), v)
<1>1. SUFFICES ASSUME U = U8, NEW i \in DOMAIN v
      PROVE  /\ v[i] \in Byte /\ SerParts(T, o)[U][v[i]] = OneChunk(<<v[i]>>)
             /\ OfParts(Readable, T)[U][v[i]] /\ OfParts(Received, T)[U][v[i]] = v[i]
  BY DEF Plain
<1>2. U8 \in Types /\ v[i] \in Values[U8]
  BY <1>1, TypesAssumption
<1>. DEFINE x == v[i]
<1>. HIDE DEF x
<1>3. x \in Byte /\ Ser[U8][o][x] = OneChunk(<<x>>) /\ Readable[U8][x] /\ Received[U8][x] = x
  BY <1>2, PlainByte DEF x
<1>4. SerParts(T, o)[U] = Ser[U8][o] /\ OfParts(Readable, T)[U] = Readable[U8] /\ OfParts(Received, T)[U] = Received[U8]
  BY <1>1 DEF SerParts, OfParts
<1>. QED
  BY <1>3, <1>4 DEF x

\* What a value of type T writes is read back, or refused by a smaller machine.
Good(T) ==
    \A o \in Orders : \A st \in BOOLEAN : \A v \in Values[T] :
        Fits(Ser[T][o][v], Dec[T][st], Readable[T][v], Received[T][v])

\* What is serialized fits what is read for a type when it does for its parts.
LEMMA GoodStep == ASSUME NEW T \in Types, \A U \in PartsOf(T) : Good(U) PROVE Good(T)
<1>1. SUFFICES ASSUME NEW o \in Orders, NEW st \in BOOLEAN, NEW v \in Values[T]
      PROVE  Fits(Ser[T][o][v], Dec[T][st], Readable[T][v], Received[T][v])
  BY DEF Good
<1>. DEFINE ser == SerParts(T, o)
            dec == DecParts(T, st)
            rd == OfParts(Readable, T)
            rc == OfParts(Received, T)
<1>2. /\ Ser[T][o][v] = Serialize(T, ser, o, v) /\ Dec[T][st] = DecOf(T, dec, st)
      /\ Received[T][v] = ReceivedOf(T, rc, v) /\ Readable[T][v] = ReadableOf(T, rd, v)
  BY Unfolded
<1>3. HasForm(T, v) /\ \A c \in Components(T, v) : c[1] \in PartsOf(T) /\ c[2] \in Values[c[1]]
  BY ComponentTypes
<1>4. PartsFit(T, ser, dec, rd, rc, v)
  <2>1. ASSUME NEW U \in PartsOf(T), NEW x \in Values[U]
        PROVE  Fits(ser[U][x], dec[U], rd[U][x], rc[U][x])
    <3>1. ser[U] = Ser[U][o] /\ dec[U] = Dec[U][st] /\ rd[U] = Readable[U] /\ rc[U] = Received[U]
      BY DEF SerParts, DecParts, OfParts
    <3>2. Fits(Ser[U][o][x], Dec[U][st], Readable[U][x], Received[U][x])
      BY DEF Good
    <3>. QED
      BY <3>1, <3>2
  <2>. HIDE DEF ser, dec, rd, rc
  <2>. QED
    BY <1>3, <2>1 DEF PartsFit
<1>5. \A U \in PartsOf(T) : U \in Keys => \A x \in Values[U] : rc[U][x] = x
  BY KeysReceived DEF OfParts
<1>6. T.k \in Kinds
  BY TypesAssumption
<1>7. SUFFICES KindFits(T, ser, dec, rd, rc, o, st, v)
  BY <1>2 DEF KindFits
<1>8. ASSUME T.k \in {"vec", "slice", "array", "indexset"}
      PROVE  /\ T.of \in PartsOf(T) /\ \A i \in DOMAIN v : v[i] \in Values[T.of]
             /\ Plain(T.of, ser, rd, rc, v)
  <2>1. T.of \in PartsOf(T)
    BY <1>8 DEF PartsOf, Simple, Single
  <2>2. ASSUME NEW i \in DOMAIN v PROVE v[i] \in Values[T.of]
    <3>1. <<T.of, v[i]>> \in Components(T, v)
      BY <1>8 DEF Components, Simple
    <3>. QED
      BY <1>3, <3>1
  <2>. QED
    BY <2>1, <2>2, AllPlain
<1>. HIDE DEF ser, dec, rd, rc
<1>9. CASE T.k \in Simple
  BY <1>3, <1>9, UintFits, IntFits, UsizeFits, IsizeFits, FloatFits, BoolFits, StringFits, ObjectIdFits DEF Simple
<1>10. CASE T.k \in {"option", "refcell", "skip", "third", "result", "tuple", "struct", "enum"}
  BY <1>3, <1>4, <1>10, OptionFits, RefCellFits, SkipFits, ThirdFits, ResultFits, TupleFits, StructFits, EnumFits
<1>11. CASE T.k \in {"vec", "slice", "array"}
  BY <1>3, <1>4, <1>8, <1>11, VecFits, SliceFits, ArrayFits
<1>12. CASE T.k = "nonzero"
  <2>1. T.of \in PartsOf(T) /\ T.of \in Types /\ T.of.k \in Integral
    BY <1>12, TypesAssumption DEF PartsOf, Simple, Single
  <2>2. v \in Values[T.of]
    <3>1. <<T.of, v>> \in Components(T, v)
      BY <1>12 DEF Components, Simple
    <3>. QED
      BY <1>3, <3>1
  <2>3. rc[T.of] = Received[T.of]
    BY <2>1 DEF rc, OfParts
  <2>4. Received[T.of][v] = v
    <3>1. Received[T.of][v] = ReceivedOf(T.of, OfParts(Received, T.of), v)
      BY <2>1, <2>2, Unfolded
    <3>. QED
      BY <2>1, <3>1 DEF ReceivedOf, Integral
  <2>. QED
    BY <1>3, <1>4, <1>12, <2>3, <2>4, NonzeroFits
<1>13. CASE T.k = "set"
  <2>1. T.of \in PartsOf(T) /\ T.of \in Keys
    BY <1>13, TypesAssumption DEF PartsOf, Simple, Single
  <2>2. v \in SUBSET Values[T.of]
    <3>1. ASSUME NEW x \in v PROVE x \in Values[T.of]
      <4>1. <<T.of, x>> \in Components(T, v)
        BY <1>13 DEF Components, Simple
      <4>. QED
        BY <1>3, <4>1
    <3>. QED
      BY <3>1
  <2>3. \A x \in v : rc[T.of][x] = x
    BY <1>5, <2>1, <2>2
  <2>4. Plain(T.of, ser, rd, rc, Ascending(T.of, v))
    <3>. DEFINE s == Ascending(T.of, v)
    <3>1. IsFiniteSet(v)
      BY <1>3, <1>13 DEF HasForm, Few
    <3>2. s \in [1..Len(s) -> v]
      BY <2>1, <2>2, <3>1, AscendingIs
    <3>. HIDE DEF s
    <3>3. \A i \in DOMAIN s : s[i] \in Values[T.of]
      BY <2>2, <3>2
    <3>4. Plain(T.of, ser, rd, rc, s)
      BY <2>1, <3>3, AllPlain DEF ser, rd, rc
    <3>. QED
      BY <3>4 DEF s
  <2>. QED
    BY <1>3, <1>4, <1>13, <2>2, <2>3, <2>4, SetFits
<1>14. CASE T.k = "map"
  <2>1. T.key \in PartsOf(T) /\ T.key \in Keys
    BY <1>14, TypesAssumption DEF PartsOf, Simple, Single
  <2>2. DOMAIN v \in SUBSET Values[T.key]
    <3>1. ASSUME NEW x \in DOMAIN v PROVE x \in Values[T.key]
      <4>1. <<T.key, x>> \in Components(T, v)
        BY <1>14 DEF Components, Simple
      <4>. QED
        BY <1>3, <4>1
    <3>. QED
      BY <3>1
  <2>3. \A x \in DOMAIN v : rc[T.key][x] = x
    BY <1>5, <2>1, <2>2
  <2>. QED
    BY <1>3, <1>4, <1>14, <2>2, <2>3, MapFits
<1>15. CASE T.k = "indexset"
  <2>1. T.of \in PartsOf(T) /\ T.of \in Keys
    BY <1>15, TypesAssumption DEF PartsOf, Simple, Single
  <2>2. \A i \in DOMAIN v : rc[T.of][v[i]] = v[i]
    BY <1>5, <1>8, <1>15, <2>1
  <2>. QED
    BY <1>3, <1>4, <1>8, <1>15, <2>2, IndexSetFits
<1>16. CASE T.k = "indexmap"
  <2>1. T.key \in PartsOf(T) /\ T.key \in Keys
    BY <1>16, TypesAssumption DEF PartsOf, Simple, Single
  <2>2. ASSUME NEW i \in DOMAIN v PROVE rc[T.key][v[i][1]] = v[i][1]
    <3>1. <<T.key, v[i][1]>> \in Components(T, v)
      BY <1>16 DEF Components, Simple
    <3>2. v[i][1] \in Values[T.key]
      BY <1>3, <3>1
    <3>. QED
      BY <1>5, <2>1, <3>2
  <2>. QED
    BY <1>3, <1>4, <1>16, <2>2, IndexMapFits
<1>. QED
  BY <1>6, <1>9, <1>10, <1>11, <1>12, <1>13, <1>14, <1>15, <1>16 DEF Kinds, Single

\* deserialize reads what serialize wrote, for every type and every value: the value
\* as it is received, when the reader has room for it, and exactly its bytes; an object
\* that is cut is an unexpected length.  This is the round trip of the codec itself,
\* which ReadsBack and EndsItself carry over to the exchange.
THEOREM CodecFits == \A T \in Types : Good(T)
<1>. DEFINE S == {T \in Types : Good(T)}
<1>1. ASSUME NEW T \in Types, PartsOf(T) \subseteq S PROVE T \in S
  BY <1>1, GoodStep
<1>2. S \in SUBSET Types
  OBVIOUS
<1>. HIDE DEF S
<1>3. S = Types
  BY <1>1, <1>2, TypesInduction
<1>. QED
  BY <1>3 DEF S

\* Only the iteration of sets and maps looks at the order, and it sorts.
LEMMA OrderUnused ==
    ASSUME NEW T \in Types, NEW v \in Values[T], NEW ser, NEW o1 \in Orders, NEW o2 \in Orders
    PROVE  Serialize(T, ser, o1, v) = Serialize(T, ser, o2, v)
<1>1. T.k \in Kinds
  BY TypesAssumption
<1>2. HasForm(T, v) /\ \A c \in Components(T, v) : c[1] \in PartsOf(T) /\ c[2] \in Values[c[1]]
  BY ComponentTypes
<1>3. CASE T.k = "set"
  <2>1. T.of \in Keys /\ Few(v)
    BY <1>2, <1>3, TypesAssumption DEF HasForm
  <2>2. v \in SUBSET Values[T.of]
    <3>1. ASSUME NEW x \in v PROVE x \in Values[T.of]
      <4>1. <<T.of, x>> \in Components(T, v)
        BY <1>3 DEF Components, Simple
      <4>. QED
        BY <1>2, <4>1
    <3>. QED
      BY <3>1
  <2>3. Iterate(T.of, v, T.hash, o1) = Iterate(T.of, v, T.hash, o2)
    BY <2>1, <2>2, IterateIs
  <2>4. SerSet(T, ser, o1, v) = SerSet(T, ser, o2, v)
    BY <2>3 DEF SerSet
  <2>. QED
    BY <1>3, <2>4 DEF Serialize
<1>4. CASE T.k = "map"
  <2>1. T.key \in Keys /\ Few(DOMAIN v)
    BY <1>2, <1>4, TypesAssumption DEF HasForm
  <2>2. DOMAIN v \in SUBSET Values[T.key]
    <3>1. ASSUME NEW x \in DOMAIN v PROVE x \in Values[T.key]
      <4>1. <<T.key, x>> \in Components(T, v)
        BY <1>4 DEF Components, Simple
      <4>. QED
        BY <1>2, <4>1
    <3>. QED
      BY <3>1
  <2>3. Iterate(T.key, DOMAIN v, T.hash, o1) = Iterate(T.key, DOMAIN v, T.hash, o2)
    BY <2>1, <2>2, IterateIs
  <2>4. SerMap(T, ser, o1, v) = SerMap(T, ser, o2, v)
    BY <2>3 DEF SerMap
  <2>. QED
    BY <1>4, <2>4 DEF Serialize
<1>5. CASE T.k \in Simple \cup {"nonzero", "option", "result", "slice", "vec"}
  BY <1>5 DEF Serialize, Simple
<1>6. CASE T.k \in {"array", "tuple", "struct", "enum", "indexset", "indexmap", "refcell", "skip", "third"}
  BY <1>6 DEF Serialize
<1>. QED
  BY <1>1, <1>3, <1>4, <1>5, <1>6 DEF Kinds, Single

\* What is serialized does not depend on the order in which hash tables iterate.
LEMMA OrderFree == \A T \in Types : \A o1, o2 \in Orders : Ser[T][o1] = Ser[T][o2]
<1>. DEFINE S == {T \in Types : \A o1, o2 \in Orders : Ser[T][o1] = Ser[T][o2]}
<1>1. ASSUME NEW T \in Types, PartsOf(T) \subseteq S PROVE T \in S
  <2>1. SUFFICES ASSUME NEW o1 \in Orders, NEW o2 \in Orders PROVE Ser[T][o1] = Ser[T][o2]
    OBVIOUS
  <2>2. ASSUME NEW o \in Orders PROVE Ser[T][o] = [v \in Values[T] |-> Serialize(T, SerParts(T, o), o, v)]
    <3>1. [U \in PartsOf(T) |-> OfParts(Ser, T)[U][o]] = SerParts(T, o)
      BY DEF OfParts, SerParts
    <3>2. Ser[T] = SerRule(T, OfParts(Ser, T))
      BY SerIs
    <3>3. SerRule(T, OfParts(Ser, T))[o] =
            [v \in Values[T] |-> Serialize(T, [U \in PartsOf(T) |-> OfParts(Ser, T)[U][o]], o, v)]
      BY DEF SerRule
    <3>. QED
      BY <3>1, <3>2, <3>3
  <2>3. SerParts(T, o1) = SerParts(T, o2)
    <3>1. \A U \in PartsOf(T) : Ser[U][o1] = Ser[U][o2]
      BY <1>1
    <3>. QED
      BY <3>1 DEF SerParts
  <2>4. \A v \in Values[T] : Serialize(T, SerParts(T, o1), o1, v) = Serialize(T, SerParts(T, o2), o2, v)
    BY <2>3, OrderUnused
  <2>. QED
    BY <2>2, <2>4
<1>2. S \in SUBSET Types
  OBVIOUS
<1>. HIDE DEF S
<1>3. S = Types
  BY <1>1, <1>2, TypesInduction
<1>. QED
  BY <1>3 DEF S

-----------------------------------------------------------------------------
(* The way back: what is written for a value that was read.                *)

\* What d leaves of s is a part of it.
Proper(d, s) == d[s].err = "none" => d[s] = Got(d[s].val, d[s].rest) /\ d[s].rest \in Seq(Byte)

\* e was written without an error and, if cn, is what s holds in front of r.
Undone(cn, e, s, r) == IsEnc(e) /\ e.err = "none" /\ (cn => s = Bytes(e) \o r)

\* Nothing is written for nothing that was read.
LEMMA UndoneNothing ==
    ASSUME NEW cn, NEW s \in Seq(Byte)
    PROVE  Undone(cn, Writes(<<>>), s, s)
BY NothingIs, ConcatEmptySeq DEF Undone

\* What follows what follows.
LEMMA Regroup ==
    ASSUME NEW x \in Seq(Byte), NEW y \in Seq(Byte), NEW z \in Seq(Byte)
    PROVE  x \o (y \o z) = (x \o y) \o z
BY ConcatAssociative

\* Two parts that were read one behind the other are written one behind the other.
LEMMA UndoneBoth ==
    ASSUME NEW cn, NEW e1, NEW e2, NEW s \in Seq(Byte), NEW q \in Seq(Byte), NEW r \in Seq(Byte),
           Undone(cn, e1, s, q), Undone(cn, e2, q, r)
    PROVE  Undone(cn, Then(e1, e2), s, r)
<1>1. IsEnc(e1) /\ IsEnc(e2) /\ e1.err = "none" /\ e2.err = "none"
  BY DEF Undone
<1>2. IsEnc(Then(e1, e2)) /\ Then(e1, e2).err = "none" /\ Bytes(Then(e1, e2)) = Bytes(e1) \o Bytes(e2)
  BY <1>1, ThenBytes
<1>3. ASSUME cn PROVE s = Bytes(Then(e1, e2)) \o r
  <2>1. s = Bytes(e1) \o q /\ q = Bytes(e2) \o r
    BY <1>3 DEF Undone
  <2>2. Bytes(e1) \in Seq(Byte) /\ Bytes(e2) \in Seq(Byte)
    BY <1>1, EncBytes
  <2>3. Bytes(e1) \o (Bytes(e2) \o r) = (Bytes(e1) \o Bytes(e2)) \o r
    BY <2>1, <2>2, Regroup
  <2>. QED
    BY <1>2, <2>1, <2>3
<1>. QED
  BY <1>2, <1>3 DEF Undone

\* And any number of parts, each from where the last one ended.
LEMMA UndoneEach ==
    ASSUME NEW cn, NEW n \in Nat, NEW es, es = [i \in 1..n |-> es[i]], NEW at \in [0..n -> Seq(Byte)],
           \A i \in 1..n : Undone(cn, es[i], at[i - 1], at[i])
    PROVE  Undone(cn, InSequence(es), at[0], at[n])
<1>. DEFINE bs == [i \in 1..n |-> Bytes(es[i])]
<1>1. \A i \in 1..n : IsEnc(es[i]) /\ es[i].err = "none"
  BY DEF Undone
<1>2. IsEnc(InSequence(es)) /\ InSequence(es).err = "none" /\ Bytes(InSequence(es)) = FlattenSeq(bs)
  BY <1>1, InSequenceIs
<1>3. \A i \in 1..n : bs[i] \in Seq(Byte)
  BY <1>1, EncBytes
<1>4. bs \in Seq(Seq(Byte)) /\ Len(bs) = n
  <2>. DEFINE W == Seq(Byte)
  <2>1. bs = [i \in 1..n |-> bs[i]] /\ \A i \in 1..n : bs[i] \in W
    BY <1>3
  <2>. HIDE DEF W, bs
  <2>2. bs \in Seq(W) /\ Len(bs) = n
    BY <2>1, FunctionInSeq
  <2>. QED
    BY <2>2 DEF W
<1>5. ASSUME cn PROVE at[0] = FlattenSeq(bs) \o at[n]
  <2>1. ASSUME NEW i \in 1..n PROVE at[i - 1] = bs[i] \o at[i]
    BY <1>5 DEF Undone
  <2>. HIDE DEF bs
  <2>. DEFINE P(m) == at[0] = Flat(bs, m) \o at[m]
              T == {m \in 0..n : P(m)}
  <2>2. 0 \in T
    <3>1. Flat(bs, 0) = <<>> /\ at[0] \in Seq(Byte)
      BY <1>4, FlatStep
    <3>. QED
      BY <3>1, ConcatEmptySeq
  <2>3. ASSUME NEW m \in 0..n, m > 0, m - 1 \in T PROVE m \in T
    <3>1. m \in 1..n /\ m \in 1..Len(bs) /\ m - 1 \in 0..Len(bs) /\ m - 1 \in 0..n /\ P(m - 1)
      BY <1>4, <2>3
    <3>2. Flat(bs, m) = Flat(bs, m - 1) \o bs[m] /\ Flat(bs, m - 1) \in Seq(Byte) /\ bs[m] \in Seq(Byte)
      BY <1>3, <1>4, <3>1, FlatStep DEF bs
    <3>3. at[m - 1] = bs[m] \o at[m] /\ at[m] \in Seq(Byte)
      BY <2>1, <3>1
    <3>4. Flat(bs, m - 1) \o (bs[m] \o at[m]) = (Flat(bs, m - 1) \o bs[m]) \o at[m]
      BY <3>2, <3>3, Regroup
    <3>. QED
      BY <3>1, <3>2, <3>3, <3>4
  <2>4. T = 0..n
    <3>1. T \in SUBSET (0..n)
      OBVIOUS
    <3>. HIDE DEF T
    <3>. QED
      BY <2>2, <2>3, <3>1, UpTo
  <2>5. P(n)
    <3>. HIDE DEF P
    <3>. QED
      BY <2>4
  <2>6. Flat(bs, n) = FlattenSeq(bs)
    BY <1>4, FlatStep
  <2>. QED
    BY <2>5, <2>6
<1>. QED
  BY <1>2, <1>5 DEF Undone

\* The i-th decoder of ds reads vs[i], from at[i - 1] to at[i].
Trace(ds, n, vs, at) ==
    /\ at \in [0..n -> Seq(Byte)] /\ IsSeq(vs) /\ Len(vs) = n
    /\ \A i \in 1..n : ds[i][at[i - 1]] = Got(vs[i], at[i])

\* The values that the decoders ds read from s have such a trace.
HasTrace(ds, n, s, r) ==
    /\ r = Got(r.val, r.rest) /\ r.rest \in Seq(Byte) /\ IsSeq(r.val) /\ Len(r.val) = n
    /\ \E at : Trace(ds, n, r.val, at) /\ at[0] = s /\ at[n] = r.rest

\* What DecEach has read after m decoders.
TraceUpTo(ds, m, f) ==
    /\ IsSeq(f[m].val) /\ Len(f[m].val) = m /\ f[m].rest \in Seq(Byte) /\ f[m] = Got(f[m].val, f[m].rest)
    /\ \A i \in 1..m : f[i].rest \in Seq(Byte) /\ ds[i][f[i - 1].rest] = Got(f[m].val[i], f[i].rest)

\* One decoder more.
LEMMA TraceStep ==
    ASSUME NEW ds, NEW m \in Nat \ {0}, NEW f, TraceUpTo(ds, m - 1, f),
           f[m] = EachStep(f[m - 1], ds[m]), f[m].err = "none", \A q \in Seq(Byte) : Proper(ds[m], q)
    PROVE  TraceUpTo(ds, m, f)
<1>. DEFINE a == f[m - 1].val
            q == f[m - 1].rest
            v == ds[m][q].val
            r == ds[m][q].rest
<1>1. IsSeq(a) /\ Len(a) = m - 1 /\ q \in Seq(Byte) /\ f[m - 1].err = "none"
  BY GotIs DEF TraceUpTo
<1>2. ds[m][q].err = "none" /\ f[m] = Got(Push(a, v), r)
  BY <1>1 DEF EachStep, Push
<1>3. ds[m][q] = Got(v, r) /\ r \in Seq(Byte)
  BY <1>1, <1>2 DEF Proper
<1>. HIDE DEF v, r
<1>4. f[m].val = Push(a, v) /\ f[m].rest = r
  BY <1>2, GotIs
<1>5. /\ IsSeq(Push(a, v)) /\ Len(Push(a, v)) = m /\ Push(a, v)[m] = v
      /\ \A i \in 1..(m - 1) : Push(a, v)[i] = a[i]
  <2>1. Len(a) + 1 = m
    BY <1>1
  <2>. HIDE DEF a
  <2>. QED
    BY <1>1, <2>1, AppendIs DEF Push
<1>6. ASSUME NEW i \in 1..m
      PROVE  f[i].rest \in Seq(Byte) /\ ds[i][f[i - 1].rest] = Got(Push(a, v)[i], f[i].rest)
  <2>1. CASE i = m
    BY <1>3, <1>4, <1>5, <2>1
  <2>2. CASE i # m
    <3>1. i \in 1..(m - 1)
      BY <2>2
    <3>2. f[i].rest \in Seq(Byte) /\ ds[i][f[i - 1].rest] = Got(a[i], f[i].rest)
      BY <3>1 DEF TraceUpTo
    <3>. QED
      BY <1>5, <3>1, <3>2
  <2>. QED
    BY <2>1, <2>2
<1>7. f[m] = Got(f[m].val, f[m].rest)
  BY <1>2, <1>4
<1>8. IsSeq(f[m].val) /\ Len(f[m].val) = m /\ f[m].rest \in Seq(Byte)
  BY <1>3, <1>4, <1>5
<1>9. \A i \in 1..m : f[i].rest \in Seq(Byte) /\ ds[i][f[i - 1].rest] = Got(f[m].val[i], f[i].rest)
  BY <1>4, <1>6
<1>. QED
  BY <1>7, <1>8, <1>9 DEF TraceUpTo

\* Decoders that run one behind the other leave a trace.
LEMMA EachTrace ==
    ASSUME NEW n \in Nat, NEW ds, ds = [i \in 1..n |-> ds[i]], NEW s \in Seq(Byte),
           \A i \in 1..n : \A q \in Seq(Byte) : Proper(ds[i], q), DecEach(ds, s).err = "none"
    PROVE  HasTrace(ds, n, s, DecEach(ds, s))
<1>1. PICK f : IsEach(ds, n, s, f) /\ DecEach(ds, s) = f[n]
  <2>1. HasEach(ds, ds, n, s)
    BY EachIs
  <2>. QED
    BY <2>1 DEF HasEach
<1>2. f[0] = Got(<<>>, s) /\ \A i \in 1..n : f[i] = EachStep(f[i - 1], ds[i])
  BY <1>1 DEF IsEach
<1>3. \A i \in 0..n : f[i].err = "none"
  <2>. DEFINE T == {i \in 0..n : f[n - i].err = "none"}
  <2>1. 0 \in T
    <3>1. n - 0 = n
      OBVIOUS
    <3>. QED
      BY <1>1, <3>1
  <2>2. ASSUME NEW i \in 0..n, i > 0, i - 1 \in T PROVE i \in T
    <3>. DEFINE j == n - (i - 1)
    <3>1. j \in 1..n /\ j - 1 = n - i /\ f[j].err = "none"
      BY <2>2
    <3>2. f[j] = EachStep(f[j - 1], ds[j])
      BY <1>2, <3>1
    <3>. HIDE DEF j
    <3>3. f[j - 1].err = "none"
      BY <3>1, <3>2 DEF EachStep
    <3>. QED
      BY <3>1, <3>3
  <2>3. T = 0..n
    <3>1. T \in SUBSET (0..n)
      OBVIOUS
    <3>. HIDE DEF T
    <3>. QED
      BY <2>1, <2>2, <3>1, UpTo
  <2>4. ASSUME NEW i \in 0..n PROVE f[i].err = "none"
    <3>1. n - i \in T /\ n - (n - i) = i
      BY <2>3
    <3>. QED
      BY <3>1
  <2>. QED
    BY <2>4
<1>. DEFINE T == {m \in 0..n : TraceUpTo(ds, m, f)}
<1>4. 0 \in T
  <2>1. f[0].val = <<>> /\ f[0].rest = s
    BY <1>2, GotIs
  <2>2. IsSeq(<<>>) /\ Len(<<>>) = 0
    BY EmptySeq DEF IsSeq
  <2>3. \A i \in 1..0 : FALSE
    OBVIOUS
  <2>. QED
    BY <1>2, <2>1, <2>2, <2>3 DEF TraceUpTo
<1>5. ASSUME NEW m \in 0..n, m > 0, m - 1 \in T PROVE m \in T
  <2>1. m \in 1..n /\ m \in Nat \ {0} /\ TraceUpTo(ds, m - 1, f)
    BY <1>5
  <2>2. f[m] = EachStep(f[m - 1], ds[m]) /\ f[m].err = "none" /\ \A q \in Seq(Byte) : Proper(ds[m], q)
    BY <1>2, <1>3, <2>1
  <2>3. TraceUpTo(ds, m, f)
    BY <2>1, <2>2, TraceStep
  <2>. QED
    BY <2>3
<1>6. n \in T
  <2>1. T \in SUBSET (0..n)
    OBVIOUS
  <2>. HIDE DEF T
  <2>2. T = 0..n
    BY <1>4, <1>5, <2>1, UpTo
  <2>. QED
    BY <2>2
<1>7. TraceUpTo(ds, n, f)
  BY <1>6
<1>. DEFINE at == [i \in 0..n |-> f[i].rest]
<1>8. at \in [0..n -> Seq(Byte)]
  <2>1. ASSUME NEW i \in 0..n PROVE f[i].rest \in Seq(Byte)
    <3>1. CASE i = 0
      BY <1>2, <3>1, GotIs
    <3>2. CASE i # 0
      <4>1. i \in 1..n
        BY <3>2
      <4>. QED
        BY <1>7, <4>1 DEF TraceUpTo
    <3>. QED
      BY <3>1, <3>2
  <2>. QED
    BY <2>1
<1>9. ASSUME NEW i \in 1..n PROVE ds[i][at[i - 1]] = Got(f[n].val[i], at[i])
  <2>1. at[i - 1] = f[i - 1].rest /\ at[i] = f[i].rest
    OBVIOUS
  <2>2. ds[i][f[i - 1].rest] = Got(f[n].val[i], f[i].rest)
    BY <1>7 DEF TraceUpTo
  <2>. QED
    BY <2>1, <2>2
<1>10. at[0] = s /\ at[n] = f[n].rest
  BY <1>2, GotIs
<1>. HIDE DEF at
<1>11. Trace(ds, n, f[n].val, at)
  BY <1>7, <1>8, <1>9 DEF Trace, TraceUpTo
<1>. QED
  BY <1>1, <1>7, <1>10, <1>11 DEF HasTrace, TraceUpTo

\* Digits of one place, in a number and its remainder.
LEMMA TopDigit ==
    ASSUME NEW s \in Seq(Byte), NEW f, IsValue(s, f), NEW n \in 1..Len(s)
    PROVE  /\ Pow[n - 1] \in Nat \ {0} /\ f[n] \in Nat
           /\ f[n - 1] = f[n] % Pow[n - 1] /\ s[n] = f[n] \div Pow[n - 1]
<1>. DEFINE p == Pow[n - 1]
            x == f[n - 1]
<1>0. Len(s) \in Nat
  BY LenProperties
<1>1. n - 1 \in Nat /\ n - 1 \in 0..Len(s) /\ n \in 0..Len(s)
  BY <1>0
<1>2. p \in Nat \ {0} /\ x \in 0..p - 1 /\ f[n] \in Nat
  BY <1>1, PowIs, ValueBound DEF IsValue
<1>3. f[n] = x + s[n] * p
  BY DEF IsValue
<1>4. s[n] \in Int
  BY ElementOfSeq, BaseIs
<1>. HIDE DEF p, x
<1>5. f[n] = p * s[n] + x
  BY <1>2, <1>3, <1>4
<1>6. f[n] \div p = s[n] /\ f[n] % p = x
  <2>. DEFINE y == f[n]
              c == s[n]
  <2>1. y \in Int /\ p \in Nat \ {0} /\ c \in Int /\ x \in 0..p - 1 /\ y = p * c + x
    BY <1>2, <1>4, <1>5
  <2>. HIDE DEF y, c
  <2>2. y \div p = c /\ y % p = x
    BY <2>1, DivUnique
  <2>. QED
    BY <2>2 DEF y, c
<1>. QED
  BY <1>2, <1>6 DEF p, x

\* Numbers of as many bytes are different if the bytes are.
LEMMA SameNumber ==
    ASSUME NEW s \in Seq(Byte), NEW t \in Seq(Byte), Len(s) = Len(t),
           FromLittleEndian(s) = FromLittleEndian(t)
    PROVE  s = t
<1>. DEFINE n == Len(s)
<1>0. n \in Nat
  BY LenProperties
<1>1. PICK f : IsValue(s, f) /\ FromLittleEndian(s) = f[n]
  <2>1. HasValue(s)
    BY FromLittleEndianIs
  <2>. QED
    BY <2>1 DEF HasValue
<1>2. PICK g : IsValue(t, g) /\ FromLittleEndian(t) = g[n]
  <2>1. HasValue(t)
    BY FromLittleEndianIs
  <2>. QED
    BY <2>1 DEF HasValue
<1>. DEFINE T == {i \in 0..n : f[n - i] = g[n - i]}
<1>3. 0 \in T
  <2>1. n - 0 = n
    BY <1>0
  <2>2. f[n] = g[n]
    BY <1>1, <1>2
  <2>. HIDE DEF n
  <2>. QED
    BY <1>0, <2>1, <2>2
<1>4. ASSUME NEW i \in 0..n, i > 0, i - 1 \in T PROVE i \in T
  <2>. DEFINE j == n - (i - 1)
  <2>1. j \in 1..Len(s) /\ j \in 1..Len(t) /\ j - 1 = n - i /\ f[j] = g[j]
    BY <1>0, <1>4
  <2>. HIDE DEF j
  <2>2. f[j - 1] = f[j] % Pow[j - 1] /\ g[j - 1] = g[j] % Pow[j - 1]
    BY <1>1, <1>2, <2>1, TopDigit
  <2>. QED
    BY <2>1, <2>2
<1>5. T = 0..n
  <2>1. T \in SUBSET (0..n)
    OBVIOUS
  <2>. HIDE DEF T
  <2>. QED
    BY <1>0, <1>3, <1>4, <2>1, UpTo
<1>6. ASSUME NEW i \in 0..n PROVE f[i] = g[i]
  <2>1. n - i \in 0..n /\ n - (n - i) = i
    <3>. HIDE DEF n
    <3>. QED
      BY <1>0
  <2>2. n - i \in T
    <3>. HIDE DEF T, n
    <3>. QED
      BY <1>5, <2>1
  <2>. HIDE DEF n
  <2>. QED
    BY <2>1, <2>2
<1>7. ASSUME NEW i \in 1..n PROVE s[i] = t[i]
  <2>1. i \in 0..n /\ i \in 1..Len(t)
    BY <1>0
  <2>2. s[i] = f[i] \div Pow[i - 1] /\ t[i] = g[i] \div Pow[i - 1]
    BY <1>1, <1>2, <2>1, TopDigit
  <2>. QED
    BY <1>6, <2>1, <2>2
<1>. QED
  BY <1>7, SeqEqual

\* A number that is read is written with the bytes it was read from.
LEMMA WriteBack ==
    ASSUME NEW b \in Seq(Byte)
    PROVE  LET v == FromLittleEndian(b)
           IN  v \in 0..Pow[Len(b)] - 1 /\ LittleEndian(v, Len(b)) = b /\ v % Pow[Len(b)] = v
<1>. DEFINE v == FromLittleEndian(b)
            w == Len(b)
<1>0. w \in Nat
  BY LenProperties
<1>1. v \in 0..Pow[w] - 1
  <2>1. HasValue(b)
    BY FromLittleEndianIs
  <2>2. PICK f : IsValue(b, f) /\ v = f[w]
    BY <2>1 DEF HasValue
  <2>3. \A n \in 0..w : f[n] \in 0..Pow[n] - 1
    BY <2>2, ValueBound
  <2>. HIDE DEF v, w
  <2>. QED
    BY <1>0, <2>2, <2>3
<1>2. v % Pow[w] = v
  <2>. DEFINE p == Pow[w]
  <2>0. p \in Nat \ {0}
    BY <1>0, PowIs
  <2>. HIDE DEF v, w
  <2>1. v \in Int /\ v \in 0..p - 1 /\ v = p * 0 + v
    BY <1>1, <2>0
  <2>. HIDE DEF p
  <2>2. v % p = v
    BY <2>0, <2>1, DivUnique
  <2>. QED
    BY <2>2 DEF p
<1>. DEFINE c == LittleEndian(v, w)
<1>3. v \in Int
  <2>1. Pow[w] \in Nat
    BY <1>0, PowIs
  <2>. HIDE DEF v, w
  <2>. QED
    BY <1>1, <2>1
<1>4. c \in Seq(Byte) /\ Len(c) = w /\ FromLittleEndian(c) = v
  <2>. HIDE DEF v, w
  <2>. QED
    BY <1>0, <1>2, <1>3, LittleEndianIs, ReadBack
<1>5. c = b
  <2>. HIDE DEF c
  <2>. QED
    BY <1>4, SameNumber
<1>. QED
  BY <1>1, <1>2, <1>5

\* What read_exact takes is what it leaves out.
LEMMA ReadSplits ==
    ASSUME NEW s \in Seq(Byte), NEW n \in Nat, ReadExact(s, n).err = "none"
    PROVE  LET r == ReadExact(s, n)
           IN  /\ r = Got(r.val, r.rest) /\ r.rest \in Seq(Byte) /\ r.val \in Seq(Byte)
               /\ Len(r.val) = n /\ s = r.val \o r.rest
<1>1. Len(s) \in Nat
  BY LenProperties
<1>2. n <= Len(s)
  BY <1>1, BadIs DEF ReadExact
<1>3. ReadExact(s, n) = Got(SubSeq(s, 1, n), SubSeq(s, n + 1, Len(s)))
  BY <1>1, <1>2 DEF ReadExact
<1>4. n \in 0..Len(s)
  BY <1>1, <1>2
<1>5. SubSeq(s, 1, n) \in Seq(Byte) /\ Len(SubSeq(s, 1, n)) = n
  BY <1>4, FirstN
<1>6. SubSeq(s, n + 1, Len(s)) \in Seq(Byte)
  <2>1. \A i \in n + 1..Len(s) : s[i] \in Byte
    BY <1>1, ElementOfSeq
  <2>2. n + 1 \in Int /\ Len(s) \in Int
    BY <1>1
  <2>. QED
    BY <2>1, <2>2, SubSeqProperties
<1>7. SubSeq(s, 1, n) \o SubSeq(s, n + 1, Len(s)) = s
  <2>1. 1 \in 1..Len(s) + 1 /\ n \in 1 - 1..Len(s) /\ Len(s) \in n..Len(s)
    BY <1>1, <1>4
  <2>2. SubSeq(s, 1, n) \o SubSeq(s, n + 1, Len(s)) = SubSeq(s, 1, Len(s))
    BY <2>1, ConcatAdjacentSubSeq
  <2>3. SubSeq(s, 1, Len(s)) = s
    BY SubSeqFull
  <2>. QED
    BY <2>2, <2>3
<1>. QED
  BY <1>3, <1>5, <1>6, <1>7, GotIs

\* A number that was read.
ReadOk(s, r, v, e, good) ==
    /\ r = Got(v, r.rest) /\ r.rest \in Seq(Byte) /\ v \in good
    /\ Undone(TRUE, e, s, r.rest)

\* An unsigned number that was read is written as the bytes it was read from.
LEMMA UndoneUint ==
    ASSUME NEW s \in Seq(Byte), NEW w \in Nat, DecUint(s, w).err = "none"
    PROVE  LET r == DecUint(s, w) IN ReadOk(s, r, r.val, SerInt(r.val, w), 0..Pow[w] - 1)
<1>. DEFINE q == ReadExact(s, w)
            v == FromLittleEndian(q.val)
<1>1. DecUint(s, w) = IF q.err = "none" THEN Got(v, q.rest) ELSE q
  BY DEF DecUint, Map, IsOk
<1>. HIDE DEF v
<1>2. q.err = "none" /\ DecUint(s, w) = Got(v, q.rest)
  BY <1>1
<1>3. q.rest \in Seq(Byte) /\ q.val \in Seq(Byte) /\ Len(q.val) = w /\ s = q.val \o q.rest
  BY <1>2, ReadSplits
<1>4. v \in 0..Pow[w] - 1 /\ LittleEndian(v, w) = q.val
  BY <1>3, WriteBack DEF v
<1>. HIDE DEF q
<1>5. Undone(TRUE, SerInt(v, w), s, q.rest)
  BY <1>3, <1>4, OneChunkIs DEF SerInt, Undone
<1>6. DecUint(s, w).val = v /\ DecUint(s, w).rest = q.rest
  BY <1>2, GotIs
<1>7. ReadOk(s, DecUint(s, w), v, SerInt(v, w), 0..Pow[w] - 1)
  BY <1>2, <1>3, <1>4, <1>5, <1>6 DEF ReadOk
<1>. QED
  BY <1>6, <1>7

\* The same for a byte.
LEMMA UndoneByte ==
    ASSUME NEW s \in Seq(Byte), DecByte(s).err = "none"
    PROVE  LET r == DecByte(s) IN ReadOk(s, r, r.val, SerByte(r.val), Byte)
<1>. DEFINE q == ReadExact(s, 1)
            v == q.val[1]
<1>1. DecByte(s) = IF q.err = "none" THEN Got(v, q.rest) ELSE q
  BY DEF DecByte, Map, IsOk
<1>. HIDE DEF v
<1>2. q.err = "none" /\ DecByte(s) = Got(v, q.rest)
  BY <1>1
<1>3. q.rest \in Seq(Byte) /\ q.val \in Seq(Byte) /\ Len(q.val) = 1 /\ s = q.val \o q.rest
  BY <1>2, ReadSplits
<1>. HIDE DEF q
<1>4. v \in Byte /\ <<v>> = q.val
  <2>1. v \in Byte
    BY <1>3, ElementOfSeq DEF v
  <2>2. <<v>> \in Seq(Byte) /\ Len(<<v>>) = 1 /\ <<v>>[1] = v
    BY <2>1
  <2>3. \A i \in 1..1 : <<v>>[i] = q.val[i]
    BY <2>2 DEF v
  <2>. QED
    BY <1>3, <2>1, <2>2, <2>3, SeqEqual
<1>5. Undone(TRUE, SerByte(v), s, q.rest)
  BY <1>3, <1>4, OneChunkIs DEF SerByte, Undone
<1>6. DecByte(s).val = v /\ DecByte(s).rest = q.rest
  BY <1>2, GotIs
<1>7. ReadOk(s, DecByte(s), v, SerByte(v), Byte)
  BY <1>2, <1>3, <1>4, <1>5, <1>6 DEF ReadOk
<1>. QED
  BY <1>6, <1>7

\* A length that was read, written again.
LEMMA UndoneLen ==
    ASSUME NEW s \in Seq(Byte), DecUint(s, LenBytes).err = "none"
    PROVE  LET r == DecUint(s, LenBytes) IN ReadOk(s, r, r.val, SerLen(r.val), 0..MaxLen)
<1>1. LenBytes \in Nat
  BY WireAssumption
<1>. DEFINE r == DecUint(s, LenBytes)
<1>2. ReadOk(s, r, r.val, SerInt(r.val, LenBytes), 0..Pow[LenBytes] - 1)
  BY <1>1, UndoneUint
<1>3. Pow[LenBytes] \in Nat
  BY <1>1, PowIs
<1>. HIDE DEF r
<1>4. r.val \in 0..MaxLen /\ ~(r.val > MaxLen)
  BY <1>2, <1>3 DEF ReadOk, MaxLen
<1>5. SerLen(r.val) = SerInt(r.val, LenBytes)
  BY <1>4 DEF SerLen
<1>6. ReadOk(s, r, r.val, SerLen(r.val), 0..MaxLen)
  BY <1>2, <1>4, <1>5 DEF ReadOk
<1>. QED
  BY <1>6 DEF r

\* What holds of the bytes holds when nothing is said of them.
LEMMA UndoneIf ==
    ASSUME NEW cn, NEW e, NEW s, NEW r, Undone(TRUE, e, s, r)
    PROVE  Undone(cn, e, s, r)
BY DEF Undone

\* A length a u32 holds.
LEMMA LenWritten ==
    ASSUME NEW n \in 0..MaxLen
    PROVE  IsEnc(SerLen(n)) /\ SerLen(n).err = "none"
<1>1. LenBytes \in Nat
  BY WireAssumption
<1>2. Pow[LenBytes] \in Nat \ {0}
  BY <1>1, PowIs
<1>3. MaxLen \in Nat /\ n \in Int /\ ~(n > MaxLen)
  BY <1>2 DEF MaxLen
<1>4. SerLen(n) = OneChunk(LittleEndian(n, LenBytes))
  BY <1>3 DEF SerLen, SerInt
<1>5. LittleEndian(n, LenBytes) \in Seq(Byte)
  BY <1>1, <1>3, LittleEndianIs
<1>. QED
  BY <1>4, <1>5, OneChunkIs

\* x is v, but for the fields that are skipped and what init sets them to.
Alike(T, x, v) == x = v \/ T.k = "skip" \/ (T.k = "struct" /\ ~T.init /\ x = InitMethod(T, v))

\* A value like the one read from s is written with what was read.
BackAt(T, r, s, x, e, ok, w, cn) ==
    Alike(T, x, r.val) => ok /\ w = r.val /\ Undone(cn, e, s, r.rest)

\* d gives only objects, and such values are written with what it read.
Back(U, d, ser, rd, rc, cn) ==
    \A s \in Seq(Byte) :
        /\ Proper(d, s)
        /\ d[s].err = "none" => \A x \in Values[U] : BackAt(U, d[s], s, x, ser[x], rd[x], rc[x], cn)

\* The same for every part of T.
PartsBack(T, ser, dec, rd, rc, cn) ==
    \A U \in PartsOf(T) : Back(U, dec[U], ser[U], rd[U], rc[U], cn)

\* x is made of values of the parts of T.
OfType(T, x) ==
    HasForm(T, x) /\ \A c \in Components(T, x) : c[1] \in PartsOf(T) /\ c[2] \in Values[c[1]]

\* The same for one implementation, given those of the parts.
KindBackAt(T, ser, rd, rc, o, cn, s, r) ==
    r.err = "none" =>
        /\ r = Got(r.val, r.rest) /\ r.rest \in Seq(Byte)
        /\ \A x : OfType(T, x) =>
             BackAt(T, r, s, x, Serialize(T, ser, o, x), ReadableOf(T, rd, x), ReceivedOf(T, rc, x), cn)

\* Of whatever bytes.
KindBack(T, ser, dec, rd, rc, o, st, cn) ==
    \A s \in Seq(Byte) : KindBackAt(T, ser, rd, rc, o, cn, s, Deserialize(T, dec, st, s))

\* Only structs and skipped fields are changed on the way.
LEMMA OwnBack ==
    ASSUME NEW T, T.k \notin {"skip", "struct"}, NEW ser, NEW rd, NEW rc, NEW o, NEW cn, NEW s,
           NEW v, NEW q \in Seq(Byte),
           OfType(T, v) => /\ ReadableOf(T, rd, v) /\ ReceivedOf(T, rc, v) = v
                           /\ Undone(cn, Serialize(T, ser, o, v), s, q)
    PROVE  KindBackAt(T, ser, rd, rc, o, cn, s, Got(v, q))
<1>. DEFINE r == Got(v, q)
<1>1. r.val = v /\ r.rest = q
  BY GotIs
<1>. HIDE DEF r
<1>2. ASSUME NEW x, OfType(T, x), Alike(T, x, r.val)
      PROVE  ReadableOf(T, rd, x) /\ ReceivedOf(T, rc, x) = r.val /\ Undone(cn, Serialize(T, ser, o, x), s, r.rest)
  <2>1. x = v
    BY <1>1, <1>2 DEF Alike
  <2>. QED
    BY <1>1, <1>2, <2>1
<1>3. r = Got(r.val, r.rest)
  BY <1>1 DEF r
<1>4. KindBackAt(T, ser, rd, rc, o, cn, s, r)
  BY <1>1, <1>2, <1>3 DEF KindBackAt, BackAt
<1>. QED
  BY <1>4 DEF r

\* Nothing is said of what was refused.
LEMMA FailedBack ==
    ASSUME NEW T, NEW ser, NEW rd, NEW rc, NEW o, NEW cn, NEW s, NEW r, r.err # "none"
    PROVE  KindBackAt(T, ser, rd, rc, o, cn, s, r)
BY DEF KindBackAt

\* Of a simple type: what is read, and what is written for it.
LEMMA SimpleBack ==
    ASSUME NEW T, T.k \in Simple, NEW ser, NEW rd, NEW rc, NEW o, NEW cn, NEW s, NEW v, NEW q \in Seq(Byte),
           T.k = "usize" => v <= MaxUsize, T.k = "isize" => v \in Isize,
           OfType(T, v) => Undone(TRUE, Serialize(T, ser, o, v), s, q)
    PROVE  KindBackAt(T, ser, rd, rc, o, cn, s, Got(v, q))
<1>1. ReadableOf(T, rd, v) /\ ReceivedOf(T, rc, v) = v
  BY SimpleReadable
<1>2. T.k \notin {"skip", "struct"}
  BY DEF Simple
<1>3. OfType(T, v) => Undone(cn, Serialize(T, ser, o, v), s, q)
  BY UndoneIf
<1>. QED
  BY <1>1, <1>2, <1>3, OwnBack

\* An unsigned integer.
LEMMA UintBack ==
    ASSUME NEW T \in Types, T.k = "uint", NEW ser, NEW dec, NEW rd, NEW rc, NEW o, NEW st, NEW cn
    PROVE  KindBack(T, ser, dec, rd, rc, o, st, cn)
<1>. SUFFICES ASSUME NEW s \in Seq(Byte) PROVE KindBackAt(T, ser, rd, rc, o, cn, s, Deserialize(T, dec, st, s))
  BY DEF KindBack
<1>. DEFINE r == DecUint(s, T.w)
<1>1. Deserialize(T, dec, st, s) = r /\ T.w \in Nat /\ T.k \in Simple
  BY TypesAssumption DEF Deserialize, Simple
<1>2. ASSUME r.err = "none" PROVE KindBackAt(T, ser, rd, rc, o, cn, s, r)
  <2>1. ReadOk(s, r, r.val, SerInt(r.val, T.w), 0..Pow[T.w] - 1)
    BY <1>1, <1>2, UndoneUint
  <2>. HIDE DEF r
  <2>2. r = Got(r.val, r.rest) /\ r.rest \in Seq(Byte) /\ Undone(TRUE, SerInt(r.val, T.w), s, r.rest)
    BY <2>1 DEF ReadOk
  <2>3. \A v : Serialize(T, ser, o, v) = SerInt(v, T.w)
    BY DEF Serialize
  <2>4. KindBackAt(T, ser, rd, rc, o, cn, s, Got(r.val, r.rest))
    BY <1>1, <2>2, <2>3, SimpleBack
  <2>. QED
    BY <2>2, <2>4
<1>. QED
  BY <1>1, <1>2, FailedBack

\* A number with a sign that was read.
LEMMA UndoneInt ==
    ASSUME NEW s \in Seq(Byte), NEW w \in Nat \ {0}, DecInt(s, w).err = "none"
    PROVE  LET r == DecInt(s, w) IN ReadOk(s, r, r.val, SerInt(r.val, w), Int)
<1>. DEFINE q == DecUint(s, w)
            p == Pow[w]
            u == q.val
            v == IF u < p \div 2 THEN u ELSE u - p
<1>1. DecInt(s, w) = IF q.err = "none" THEN Got(v, q.rest) ELSE q
  BY DEF DecInt, Map, IsOk
<1>2. p \in Nat \ {0}
  BY PowIs
<1>. HIDE DEF v
<1>3. q.err = "none" /\ DecInt(s, w) = Got(v, q.rest)
  BY <1>1
<1>4. ReadOk(s, q, u, SerInt(u, w), 0..p - 1)
  BY <1>3, UndoneUint
<1>. HIDE DEF q, p
<1>5. u \in 0..p - 1 /\ q.rest \in Seq(Byte) /\ Undone(TRUE, SerInt(u, w), s, q.rest)
  BY <1>4 DEF ReadOk
<1>. HIDE DEF u
<1>6. v \in Int /\ v % p = u /\ u % p = u
  <2>1. u = p * 0 + u /\ u \in Int
    BY <1>2, <1>5
  <2>2. u % p = u
    BY <1>2, <1>5, <2>1, DivUnique
  <2>3. CASE v = u
    BY <2>1, <2>2, <2>3
  <2>4. CASE v = u - p
    <3>1. v \in Int /\ -1 \in Int /\ v = p * (-1) + u
      BY <1>2, <2>1, <2>4
    <3>. QED
      BY <1>2, <1>5, <2>2, <3>1, DivUnique
  <2>. QED
    BY <2>3, <2>4 DEF v
<1>7. SerInt(v, w) = SerInt(u, w)
  <2>1. LittleEndian(v, w) = LittleEndian(u, w)
    BY <1>6 DEF LittleEndian, p
  <2>. QED
    BY <2>1 DEF SerInt
<1>8. DecInt(s, w).val = v /\ DecInt(s, w).rest = q.rest
  BY <1>3, GotIs
<1>9. ReadOk(s, DecInt(s, w), v, SerInt(v, w), Int)
  BY <1>3, <1>5, <1>6, <1>7, <1>8 DEF ReadOk
<1>. QED
  BY <1>8, <1>9

\* A signed integer.
LEMMA IntBack ==
    ASSUME NEW T \in Types, T.k = "int", NEW ser, NEW dec, NEW rd, NEW rc, NEW o, NEW st, NEW cn
    PROVE  KindBack(T, ser, dec, rd, rc, o, st, cn)
<1>. SUFFICES ASSUME NEW s \in Seq(Byte) PROVE KindBackAt(T, ser, rd, rc, o, cn, s, Deserialize(T, dec, st, s))
  BY DEF KindBack
<1>. DEFINE r == DecInt(s, T.w)
<1>1. Deserialize(T, dec, st, s) = r /\ T.w \in Nat \ {0} /\ T.k \in Simple
  BY TypesAssumption DEF Deserialize, Simple
<1>2. ASSUME r.err = "none" PROVE KindBackAt(T, ser, rd, rc, o, cn, s, r)
  <2>1. ReadOk(s, r, r.val, SerInt(r.val, T.w), Int)
    BY <1>1, <1>2, UndoneInt
  <2>. HIDE DEF r
  <2>2. r = Got(r.val, r.rest) /\ r.rest \in Seq(Byte) /\ Undone(TRUE, SerInt(r.val, T.w), s, r.rest)
    BY <2>1 DEF ReadOk
  <2>3. \A v : Serialize(T, ser, o, v) = SerInt(v, T.w)
    BY DEF Serialize
  <2>4. KindBackAt(T, ser, rd, rc, o, cn, s, Got(r.val, r.rest))
    BY <1>1, <2>2, <2>3, SimpleBack
  <2>. QED
    BY <2>2, <2>4
<1>. QED
  BY <1>1, <1>2, FailedBack

\* A decoder that refuses some of the values another one reads.
LEMMA CheckedBack ==
    ASSUME NEW T, T.k \in Simple, NEW ser, NEW rd, NEW rc, NEW o, NEW cn, NEW s, NEW e, NEW good,
           NEW q, q.err = "none" => ReadOk(s, q, q.val, e, good),
           NEW r, r.err = "none" => q.err = "none" /\ r = Got(q.val, q.rest),
           r.err = "none" /\ q.val \in good => Serialize(T, ser, o, q.val) = e,
           r.err = "none" => (T.k = "usize" => q.val <= MaxUsize) /\ (T.k = "isize" => q.val \in Isize)
    PROVE  KindBackAt(T, ser, rd, rc, o, cn, s, r)
<1>1. ASSUME r.err = "none" PROVE KindBackAt(T, ser, rd, rc, o, cn, s, r)
  <2>1. r = Got(q.val, q.rest) /\ ReadOk(s, q, q.val, e, good)
    BY <1>1
  <2>2. q.val \in good /\ q.rest \in Seq(Byte) /\ Undone(TRUE, e, s, q.rest)
    BY <2>1 DEF ReadOk
  <2>3. Serialize(T, ser, o, q.val) = e
    BY <1>1, <2>2
  <2>4. KindBackAt(T, ser, rd, rc, o, cn, s, Got(q.val, q.rest))
    BY <1>1, <2>2, <2>3, SimpleBack
  <2>. QED
    BY <2>1, <2>4
<1>. QED
  BY <1>1, FailedBack

\* A usize, if the machine has room for it.
LEMMA UsizeBack ==
    ASSUME NEW T \in Types, T.k = "usize", NEW ser, NEW dec, NEW rd, NEW rc, NEW o, NEW st, NEW cn
    PROVE  KindBack(T, ser, dec, rd, rc, o, st, cn)
<1>. SUFFICES ASSUME NEW s \in Seq(Byte) PROVE KindBackAt(T, ser, rd, rc, o, cn, s, Deserialize(T, dec, st, s))
  BY DEF KindBack
<1>. DEFINE q == DecUint(s, WideBytes)
            r == DecUsize(s)
            good == 0..Pow[WideBytes] - 1
<1>1. Deserialize(T, dec, st, s) = r /\ T.k \in Simple /\ WideBytes \in Nat
  BY WireAssumption DEF Deserialize, Simple
<1>2. q.err = "none" => ReadOk(s, q, q.val, SerInt(q.val, WideBytes), good)
  BY <1>1, UndoneUint
<1>3. r = IF q.err = "none" THEN (IF q.val > MaxUsize THEN Bad("Overflow") ELSE Got(q.val, q.rest)) ELSE q
  BY DEF DecUsize, AndThen, IsOk
<1>4. \A v : Serialize(T, ser, o, v) = SerInt(v, WideBytes)
  BY DEF Serialize, SerUsize
<1>5. Pow[WideBytes] \in Nat /\ MaxUsize \in Nat
  BY <1>1, PowIs, WireAssumption
<1>6. q.val \in good => q.val \in Int
  BY <1>5
<1>7. q.err = "none" => q.val \in good
  BY <1>2 DEF ReadOk
<1>. HIDE DEF q, r, good
<1>8. r.err = "none" => q.err = "none" /\ r = Got(q.val, q.rest) /\ ~(q.val > MaxUsize)
  BY <1>3, BadIs
<1>9. r.err = "none" => q.val <= MaxUsize
  BY <1>5, <1>6, <1>7, <1>8
<1>10. KindBackAt(T, ser, rd, rc, o, cn, s, r)
  BY <1>1, <1>2, <1>4, <1>8, <1>9, CheckedBack
<1>. QED
  BY <1>1, <1>10

\* An isize, if the machine has room for it.
LEMMA IsizeBack ==
    ASSUME NEW T \in Types, T.k = "isize", NEW ser, NEW dec, NEW rd, NEW rc, NEW o, NEW st, NEW cn
    PROVE  KindBack(T, ser, dec, rd, rc, o, st, cn)
<1>. SUFFICES ASSUME NEW s \in Seq(Byte) PROVE KindBackAt(T, ser, rd, rc, o, cn, s, Deserialize(T, dec, st, s))
  BY DEF KindBack
<1>. DEFINE q == DecInt(s, WideBytes)
            r == DecIsize(s)
            good == Int
<1>1. Deserialize(T, dec, st, s) = r /\ T.k \in Simple /\ WideBytes \in Nat \ {0}
  BY WireAssumption DEF Deserialize, Simple
<1>2. q.err = "none" => ReadOk(s, q, q.val, SerInt(q.val, WideBytes), good)
  BY <1>1, UndoneInt
<1>3. r = IF q.err = "none" THEN (IF q.val \notin Isize THEN Bad("Overflow") ELSE Got(q.val, q.rest)) ELSE q
  BY DEF DecIsize, AndThen, IsOk
<1>4. \A v : Serialize(T, ser, o, v) = SerInt(v, WideBytes)
  BY DEF Serialize, SerUsize
<1>. HIDE DEF q, r, good
<1>5. r.err = "none" => q.err = "none" /\ r = Got(q.val, q.rest) /\ q.val \in Isize
  BY <1>3, BadIs
<1>6. r.err = "none" => (T.k = "usize" => q.val <= MaxUsize) /\ (T.k = "isize" => q.val \in Isize)
  BY <1>5
<1>7. r.err = "none" /\ q.val \in good => Serialize(T, ser, o, q.val) = SerInt(q.val, WideBytes)
  BY <1>4
<1>8. KindBackAt(T, ser, rd, rc, o, cn, s, r)
  <2>. DEFINE e == SerInt(q.val, WideBytes)
  <2>1. /\ q.err = "none" => ReadOk(s, q, q.val, e, good)
        /\ r.err = "none" /\ q.val \in good => Serialize(T, ser, o, q.val) = e
    BY <1>2, <1>7
  <2>. HIDE DEF e
  <2>. QED
    BY <1>1, <1>5, <1>6, <2>1, CheckedBack
<1>. QED
  BY <1>1, <1>8

\* A float: no NaN is accepted, every other pattern of bits is.
LEMMA FloatBack ==
    ASSUME NEW T \in Types, T.k = "float", NEW ser, NEW dec, NEW rd, NEW rc, NEW o, NEW st, NEW cn
    PROVE  KindBack(T, ser, dec, rd, rc, o, st, cn)
<1>. SUFFICES ASSUME NEW s \in Seq(Byte) PROVE KindBackAt(T, ser, rd, rc, o, cn, s, Deserialize(T, dec, st, s))
  BY DEF KindBack
<1>. DEFINE q == DecUint(s, T.w)
            r == DecFloat(T, s)
            good == 0..Pow[T.w] - 1
<1>1. Deserialize(T, dec, st, s) = r /\ T.k \in Simple /\ T.w \in Nat
  BY TypesAssumption DEF Deserialize, Simple
<1>2. q.err = "none" => ReadOk(s, q, q.val, SerInt(q.val, T.w), good)
  BY <1>1, UndoneUint
<1>3. r = IF q.err = "none" THEN (IF IsNaN(T, q.val) THEN Bad("NaN") ELSE Got(q.val, q.rest)) ELSE q
  BY DEF DecFloat, AndThen, IsOk
<1>4. \A v : ~IsNaN(T, v) => Serialize(T, ser, o, v) = SerInt(v, T.w)
  BY DEF Serialize, SerFloat
<1>. HIDE DEF q, r, good
<1>5. r.err = "none" => q.err = "none" /\ r = Got(q.val, q.rest) /\ ~IsNaN(T, q.val)
  BY <1>3, BadIs
<1>6. KindBackAt(T, ser, rd, rc, o, cn, s, r)
  BY <1>1, <1>2, <1>4, <1>5, CheckedBack
<1>. QED
  BY <1>1, <1>6

\* A bool: one byte, 0 or 1.
LEMMA BoolBack ==
    ASSUME NEW T \in Types, T.k = "bool", NEW ser, NEW dec, NEW rd, NEW rc, NEW o, NEW st, NEW cn
    PROVE  KindBack(T, ser, dec, rd, rc, o, st, cn)
<1>. SUFFICES ASSUME NEW s \in Seq(Byte) PROVE KindBackAt(T, ser, rd, rc, o, cn, s, Deserialize(T, dec, st, s))
  BY DEF KindBack
<1>. DEFINE q == DecByte(s)
            r == DecBool(s)
<1>1. Deserialize(T, dec, st, s) = r /\ T.k \in Simple
  BY DEF Deserialize, Simple
<1>2. q.err = "none" => ReadOk(s, q, q.val, SerByte(q.val), Byte)
  BY UndoneByte
<1>3. r = IF q.err = "none" THEN (IF q.val > 1 THEN Bad("BadTag") ELSE Got(q.val, q.rest)) ELSE q
  BY DEF DecBool, AndThen, IsOk
<1>4. \A v : Serialize(T, ser, o, v) = SerByte(v)
  BY DEF Serialize
<1>. HIDE DEF q, r
<1>5. r.err = "none" => q.err = "none" /\ r = Got(q.val, q.rest)
  BY <1>3, BadIs
<1>6. KindBackAt(T, ser, rd, rc, o, cn, s, r)
  BY <1>1, <1>2, <1>4, <1>5, CheckedBack
<1>. QED
  BY <1>1, <1>6

\* A part that was read from s, and r what its decoder gave.
Part(U, ser, rd, rc, cn, s, r) ==
    /\ r = Got(r.val, r.rest) /\ r.rest \in Seq(Byte)
    /\ \A x \in Values[U] : Alike(U, x, r.val) =>
         rd[U][x] /\ rc[U][x] = r.val /\ Undone(cn, ser[U][x], s, r.rest)

\* What was read with the decoder of a part.
LEMMA PartIs ==
    ASSUME NEW T, NEW ser, NEW dec, NEW rd, NEW rc, NEW cn, PartsBack(T, ser, dec, rd, rc, cn),
           NEW U \in PartsOf(T), NEW s \in Seq(Byte), dec[U][s].err = "none"
    PROVE  Part(U, ser, rd, rc, cn, s, dec[U][s])
<1>1. Back(U, dec[U], ser[U], rd[U], rc[U], cn)
  BY DEF PartsBack
<1>2. /\ dec[U][s] = Got(dec[U][s].val, dec[U][s].rest) /\ dec[U][s].rest \in Seq(Byte)
      /\ \A x \in Values[U] : BackAt(U, dec[U][s], s, x, ser[U][x], rd[U][x], rc[U][x], cn)
  BY <1>1 DEF Back, Proper
<1>. QED
  BY <1>2 DEF Part, BackAt

\* A part is like itself.
LEMMA PartSame ==
    ASSUME NEW U, NEW ser, NEW rd, NEW rc, NEW cn, NEW s, NEW r, Part(U, ser, rd, rc, cn, s, r),
           r.val \in Values[U]
    PROVE  rd[U][r.val] /\ rc[U][r.val] = r.val /\ Undone(cn, ser[U][r.val], s, r.rest)
BY DEF Part, Alike

\* A NonZero: the integer in it, which is not 0.
LEMMA NonzeroBack ==
    ASSUME NEW T \in Types, T.k = "nonzero", NEW ser, NEW dec, NEW rd, NEW rc, NEW o, NEW st, NEW cn,
           PartsBack(T, ser, dec, rd, rc, cn)
    PROVE  KindBack(T, ser, dec, rd, rc, o, st, cn)
<1>. SUFFICES ASSUME NEW s \in Seq(Byte) PROVE KindBackAt(T, ser, rd, rc, o, cn, s, Deserialize(T, dec, st, s))
  BY DEF KindBack
<1>. DEFINE q == dec[T.of][s]
            r == DecNonZero(T, dec, s)
<1>1. Deserialize(T, dec, st, s) = r /\ T.of \in PartsOf(T)
  BY DEF Deserialize, PartsOf, Single, Simple
<1>2. r = IF q.err = "none" THEN (IF q.val = 0 THEN Bad("ZeroValue") ELSE Got(q.val, q.rest)) ELSE q
  BY DEF DecNonZero, AndThen, IsOk
<1>3. ASSUME r.err = "none" PROVE KindBackAt(T, ser, rd, rc, o, cn, s, r)
  <2>. HIDE DEF r
  <2>1. q.err = "none" /\ r = Got(q.val, q.rest)
    BY <1>2, <1>3, BadIs
  <2>2. Part(T.of, ser, rd, rc, cn, s, q)
    BY <1>1, <2>1, PartIs
  <2>. HIDE DEF q
  <2>3. q.rest \in Seq(Byte)
    BY <2>2 DEF Part
  <2>4. ASSUME OfType(T, q.val)
        PROVE  /\ ReadableOf(T, rd, q.val) /\ ReceivedOf(T, rc, q.val) = q.val
               /\ Undone(cn, Serialize(T, ser, o, q.val), s, q.rest)
    <3>1. Components(T, q.val) = {<<T.of, q.val>>}
      BY DEF Components, Simple
    <3>2. q.val \in Values[T.of]
      BY <2>4, <3>1 DEF OfType
    <3>3. rd[T.of][q.val] /\ Undone(cn, ser[T.of][q.val], s, q.rest)
      BY <2>2, <3>2, PartSame
    <3>4. ReadableOf(T, rd, q.val)
      BY <3>1, <3>3 DEF ReadableOf
    <3>. QED
      BY <3>3, <3>4 DEF Serialize, ReceivedOf
  <2>5. KindBackAt(T, ser, rd, rc, o, cn, s, Got(q.val, q.rest))
    BY <2>3, <2>4, OwnBack
  <2>. QED
    BY <2>1, <2>5
<1>. QED
  BY <1>1, <1>3, FailedBack

\* A type of another crate: what it holds.
LEMMA ThirdBack ==
    ASSUME NEW T \in Types, T.k = "third", NEW ser, NEW dec, NEW rd, NEW rc, NEW o, NEW st, NEW cn,
           PartsBack(T, ser, dec, rd, rc, cn)
    PROVE  KindBack(T, ser, dec, rd, rc, o, st, cn)
<1>. SUFFICES ASSUME NEW s \in Seq(Byte) PROVE KindBackAt(T, ser, rd, rc, o, cn, s, Deserialize(T, dec, st, s))
  BY DEF KindBack
<1>. DEFINE q == dec[T.of][s]
            r == DeserializeWith(T, dec, s)
            y == q.val
            v == <<y>>
<1>1. Deserialize(T, dec, st, s) = r /\ T.of \in PartsOf(T)
  BY DEF Deserialize, PartsOf, Single, Simple
<1>2. r = IF q.err = "none" THEN Got(v, q.rest) ELSE q
  BY DEF DeserializeWith, Map, IsOk
<1>3. ASSUME r.err = "none" PROVE KindBackAt(T, ser, rd, rc, o, cn, s, r)
  <2>. HIDE DEF r
  <2>1. q.err = "none" /\ r = Got(v, q.rest)
    BY <1>2, <1>3
  <2>2. Part(T.of, ser, rd, rc, cn, s, q)
    BY <1>1, <2>1, PartIs
  <2>. HIDE DEF q
  <2>3. q.rest \in Seq(Byte)
    BY <2>2 DEF Part
  <2>4. ASSUME OfType(T, v)
        PROVE  /\ ReadableOf(T, rd, v) /\ ReceivedOf(T, rc, v) = v
               /\ Undone(cn, Serialize(T, ser, o, v), s, q.rest)
    <3>1. DOMAIN v = {1} /\ v[1] = y
      OBVIOUS
    <3>2. Components(T, v) = {<<T.of, v[i]>> : i \in DOMAIN v}
      BY DEF Components, Simple
    <3>. HIDE DEF v
    <3>3. Components(T, v) = {<<T.of, y>>}
      BY <3>1, <3>2
    <3>4. y \in Values[T.of]
      BY <2>4, <3>3 DEF OfType
    <3>5. rd[T.of][y] /\ rc[T.of][y] = y /\ Undone(cn, ser[T.of][y], s, q.rest)
      BY <2>2, <3>4, PartSame
    <3>. HIDE DEF y
    <3>6. ReadableOf(T, rd, v)
      BY <3>3, <3>5 DEF ReadableOf
    <3>7. ReceivedOf(T, rc, v) = [i \in DOMAIN v |-> rc[T.of][v[i]]]
      BY DEF ReceivedOf
    <3>8. [i \in DOMAIN v |-> rc[T.of][v[i]]] = v
      <4>1. [i \in {1} |-> rc[T.of][v[i]]] = [i \in {1} |-> y]
        BY <3>1, <3>5
      <4>2. [i \in {1} |-> y] = <<y>>
        OBVIOUS
      <4>. QED
        BY <3>1, <4>1, <4>2 DEF v
    <3>9. Serialize(T, ser, o, v) = ser[T.of][y]
      BY <3>1 DEF Serialize, SerializeWith
    <3>. QED
      BY <3>5, <3>6, <3>7, <3>8, <3>9
  <2>. HIDE DEF v
  <2>5. KindBackAt(T, ser, rd, rc, o, cn, s, Got(v, q.rest))
    BY <2>3, <2>4, OwnBack
  <2>. QED
    BY <2>1, <2>5
<1>. QED
  BY <1>1, <1>3, FailedBack

\* A RefCell comes back unborrowed, and such a one can be written.
LEMMA RefCellBack ==
    ASSUME NEW T \in Types, T.k = "refcell", NEW ser, NEW dec, NEW rd, NEW rc, NEW o, NEW st, NEW cn,
           PartsBack(T, ser, dec, rd, rc, cn)
    PROVE  KindBack(T, ser, dec, rd, rc, o, st, cn)
<1>. SUFFICES ASSUME NEW s \in Seq(Byte) PROVE KindBackAt(T, ser, rd, rc, o, cn, s, Deserialize(T, dec, st, s))
  BY DEF KindBack
<1>. DEFINE q == dec[T.of][s]
            r == DecRefCell(T, dec, s)
            y == q.val
            v == <<FALSE, y>>
<1>1. Deserialize(T, dec, st, s) = r /\ T.of \in PartsOf(T)
  BY DEF Deserialize, PartsOf, Single, Simple
<1>2. r = IF q.err = "none" THEN Got(v, q.rest) ELSE q
  BY DEF DecRefCell, Map, IsOk
<1>3. ASSUME r.err = "none" PROVE KindBackAt(T, ser, rd, rc, o, cn, s, r)
  <2>. HIDE DEF r
  <2>1. q.err = "none" /\ r = Got(v, q.rest)
    BY <1>2, <1>3
  <2>2. Part(T.of, ser, rd, rc, cn, s, q)
    BY <1>1, <2>1, PartIs
  <2>. HIDE DEF q
  <2>3. q.rest \in Seq(Byte)
    BY <2>2 DEF Part
  <2>4. ASSUME OfType(T, v)
        PROVE  /\ ReadableOf(T, rd, v) /\ ReceivedOf(T, rc, v) = v
               /\ Undone(cn, Serialize(T, ser, o, v), s, q.rest)
    <3>1. v[1] = FALSE /\ v[2] = y
      OBVIOUS
    <3>2. Components(T, v) = {<<T.of, v[2]>>}
      BY DEF Components, Simple
    <3>3. y \in Values[T.of]
      <4>. HIDE DEF v, y
      <4>1. <<T.of, y>> \in Components(T, v)
        BY <3>1, <3>2
      <4>. QED
        BY <2>4, <4>1 DEF OfType
    <3>4. rd[T.of][y] /\ rc[T.of][y] = y /\ Undone(cn, ser[T.of][y], s, q.rest)
      BY <2>2, <3>3, PartSame
    <3>. HIDE DEF y
    <3>5. ReceivedOf(T, rc, v) = v
      <4>1. ReceivedOf(T, rc, v) = <<FALSE, rc[T.of][v[2]]>>
        BY DEF ReceivedOf
      <4>2. rc[T.of][v[2]] = y
        BY <3>1, <3>4
      <4>. QED
        BY <4>1, <4>2
    <3>. HIDE DEF v
    <3>6. ReadableOf(T, rd, v)
      BY <3>1, <3>2, <3>4 DEF ReadableOf
    <3>7. Serialize(T, ser, o, v) = ser[T.of][y]
      BY <3>1 DEF Serialize, SerRefCell
    <3>. QED
      BY <3>4, <3>5, <3>6, <3>7
  <2>. HIDE DEF v
  <2>5. KindBackAt(T, ser, rd, rc, o, cn, s, Got(v, q.rest))
    BY <2>3, <2>4, OwnBack
  <2>. QED
    BY <2>1, <2>5
<1>. QED
  BY <1>1, <1>3, FailedBack

\* A skipped field: nothing is read or written, every value arrives as the default.
LEMMA SkipBack ==
    ASSUME NEW T \in Types, T.k = "skip", NEW ser, NEW dec, NEW rd, NEW rc, NEW o, NEW st, NEW cn
    PROVE  KindBack(T, ser, dec, rd, rc, o, st, cn)
<1>. SUFFICES ASSUME NEW s \in Seq(Byte) PROVE KindBackAt(T, ser, rd, rc, o, cn, s, Deserialize(T, dec, st, s))
  BY DEF KindBack
<1>. DEFINE r == Deserialize(T, dec, st, s)
<1>1. r = Got(Default(T.of), s)
  BY DEF Deserialize, DecSkipped
<1>. HIDE DEF r
<1>2. r.val = Default(T.of) /\ r.rest = s
  BY <1>1, GotIs
<1>3. ASSUME NEW x PROVE BackAt(T, r, s, x, Serialize(T, ser, o, x), ReadableOf(T, rd, x), ReceivedOf(T, rc, x), cn)
  <2>1. Serialize(T, ser, o, x) = Writes(<<>>)
    BY DEF Serialize, SerSkipped
  <2>2. Undone(cn, Writes(<<>>), s, s)
    BY UndoneNothing
  <2>3. ReadableOf(T, rd, x) /\ ReceivedOf(T, rc, x) = Default(T.of)
    BY DEF ReadableOf, ReceivedOf
  <2>. QED
    BY <1>2, <2>1, <2>2, <2>3 DEF BackAt
<1>4. r = Got(r.val, r.rest)
  BY <1>1, <1>2
<1>5. KindBackAt(T, ser, rd, rc, o, cn, s, r)
  BY <1>2, <1>3, <1>4 DEF KindBackAt
<1>. QED
  BY <1>5 DEF r

\* A byte that was read, as an encoding.
LEMMA ByteRead ==
    ASSUME NEW s \in Seq(Byte), NEW cn, DecByte(s).err = "none"
    PROVE  LET b == DecByte(s)
           IN  b = Got(b.val, b.rest) /\ b.val \in Byte /\ b.rest \in Seq(Byte)
               /\ Undone(cn, SerByte(b.val), s, b.rest)
<1>. DEFINE b == DecByte(s)
<1>1. ReadOk(s, b, b.val, SerByte(b.val), Byte)
  BY UndoneByte
<1>. HIDE DEF b
<1>2. b = Got(b.val, b.rest) /\ b.val \in Byte /\ b.rest \in Seq(Byte) /\ Undone(cn, SerByte(b.val), s, b.rest)
  BY <1>1, UndoneIf DEF ReadOk
<1>. QED
  BY <1>2 DEF b

\* An Option: 0, or 1 and the value.
LEMMA OptionBack ==
    ASSUME NEW T \in Types, T.k = "option", NEW ser, NEW dec, NEW rd, NEW rc, NEW o, NEW st, NEW cn,
           PartsBack(T, ser, dec, rd, rc, cn)
    PROVE  KindBack(T, ser, dec, rd, rc, o, st, cn)
<1>. SUFFICES ASSUME NEW s \in Seq(Byte) PROVE KindBackAt(T, ser, rd, rc, o, cn, s, Deserialize(T, dec, st, s))
  BY DEF KindBack
<1>. DEFINE b == DecByte(s)
            m == b.rest
            q == dec[T.of][m]
            r == DecOption(T, dec, s)
            y == q.val
            v == <<y>>
<1>1. Deserialize(T, dec, st, s) = r /\ T.of \in PartsOf(T)
  BY DEF Deserialize, PartsOf, Single, Simple
<1>2. r = IF b.err = "none"
          THEN IF b.val = 0 THEN Got(<<>>, m)
               ELSE IF b.val = 1 THEN (IF q.err = "none" THEN Got(v, q.rest) ELSE q)
               ELSE Bad("BadTag")
          ELSE b
  BY DEF DecOption, AndThen, Map, IsOk
<1>3. b.err = "none" => b.val \in Byte /\ m \in Seq(Byte) /\ Undone(cn, SerByte(b.val), s, m)
  BY ByteRead
<1>. HIDE DEF b, r, q, m
<1>4. ASSUME b.err = "none", b.val = 0 PROVE KindBackAt(T, ser, rd, rc, o, cn, s, r)
  <2>1. r = Got(<<>>, m) /\ m \in Seq(Byte)
    BY <1>2, <1>3, <1>4
  <2>2. DOMAIN <<>> = {}
    OBVIOUS
  <2>3. Components(T, <<>>) = {}
    <3>. DEFINE z == <<>>
    <3>1. Components(T, z) = {<<T.of, z[i]>> : i \in DOMAIN z}
      BY DEF Components, Simple
    <3>. QED
      BY <2>2, <3>1
  <2>4. ReadableOf(T, rd, <<>>)
    BY <2>3 DEF ReadableOf
  <2>5. ReceivedOf(T, rc, <<>>) = <<>>
    <3>. DEFINE z == <<>>
    <3>1. ReceivedOf(T, rc, z) = [i \in DOMAIN z |-> rc[T.of][z[i]]]
      BY DEF ReceivedOf
    <3>2. [i \in {} |-> rc[T.of][z[i]]] = <<>>
      BY <2>2
    <3>. QED
      BY <2>2, <3>1, <3>2
  <2>6. Serialize(T, ser, o, <<>>) = SerByte(0)
    BY DEF Serialize, SerOption
  <2>7. KindBackAt(T, ser, rd, rc, o, cn, s, Got(<<>>, m))
    BY <1>3, <1>4, <2>1, <2>4, <2>5, <2>6, OwnBack
  <2>. QED
    BY <2>1, <2>7
<1>5. ASSUME b.err = "none", b.val = 1, q.err = "none" PROVE KindBackAt(T, ser, rd, rc, o, cn, s, r)
  <2>1. r = Got(v, q.rest) /\ m \in Seq(Byte)
    BY <1>2, <1>3, <1>5
  <2>2. Part(T.of, ser, rd, rc, cn, m, q)
    BY <1>1, <1>5, <2>1, PartIs DEF q
  <2>3. q.rest \in Seq(Byte)
    BY <2>2 DEF Part
  <2>4. ASSUME OfType(T, v)
        PROVE  /\ ReadableOf(T, rd, v) /\ ReceivedOf(T, rc, v) = v
               /\ Undone(cn, Serialize(T, ser, o, v), s, q.rest)
    <3>1. DOMAIN v = {1} /\ v[1] = y /\ v # <<>>
      OBVIOUS
    <3>2. Components(T, v) = {<<T.of, v[i]>> : i \in DOMAIN v}
      BY DEF Components, Simple
    <3>. HIDE DEF v
    <3>3. Components(T, v) = {<<T.of, y>>}
      BY <3>1, <3>2
    <3>4. y \in Values[T.of]
      BY <2>4, <3>3 DEF OfType
    <3>5. rd[T.of][y] /\ rc[T.of][y] = y /\ Undone(cn, ser[T.of][y], m, q.rest)
      BY <2>2, <3>4, PartSame
    <3>. HIDE DEF y
    <3>6. ReadableOf(T, rd, v)
      BY <3>3, <3>5 DEF ReadableOf
    <3>7. ReceivedOf(T, rc, v) = [i \in DOMAIN v |-> rc[T.of][v[i]]]
      BY DEF ReceivedOf
    <3>8. [i \in DOMAIN v |-> rc[T.of][v[i]]] = v
      <4>1. [i \in {1} |-> rc[T.of][v[i]]] = [i \in {1} |-> y]
        BY <3>1, <3>5
      <4>2. [i \in {1} |-> y] = <<y>>
        OBVIOUS
      <4>. QED
        BY <3>1, <4>1, <4>2 DEF v
    <3>9. Serialize(T, ser, o, v) = Then(SerByte(1), ser[T.of][y])
      BY <3>1 DEF Serialize, SerOption
    <3>10. Undone(cn, Then(SerByte(1), ser[T.of][y]), s, q.rest)
      BY <1>3, <1>5, <2>1, <2>3, <3>5, UndoneBoth
    <3>. QED
      BY <3>6, <3>7, <3>8, <3>9, <3>10
  <2>. HIDE DEF v
  <2>5. KindBackAt(T, ser, rd, rc, o, cn, s, Got(v, q.rest))
    BY <2>3, <2>4, OwnBack
  <2>. QED
    BY <2>1, <2>5
<1>6. r.err = "none" => b.err = "none" /\ (b.val = 0 \/ (b.val = 1 /\ q.err = "none"))
  BY <1>2, BadIs
<1>7. KindBackAt(T, ser, rd, rc, o, cn, s, r)
  BY <1>4, <1>5, <1>6, FailedBack
<1>. QED
  BY <1>1, <1>7

\* A Result: 0 and the error, or 1 and the value.
LEMMA ResultBack ==
    ASSUME NEW T \in Types, T.k = "result", NEW ser, NEW dec, NEW rd, NEW rc, NEW o, NEW st, NEW cn,
           PartsBack(T, ser, dec, rd, rc, cn)
    PROVE  KindBack(T, ser, dec, rd, rc, o, st, cn)
<1>. SUFFICES ASSUME NEW s \in Seq(Byte) PROVE KindBackAt(T, ser, rd, rc, o, cn, s, Deserialize(T, dec, st, s))
  BY DEF KindBack
<1>. DEFINE b == DecByte(s)
            t == b.val
            m == b.rest
            U == IF t = 0 THEN T.err ELSE T.ok
            q == dec[U][m]
            r == DecResult(T, dec, s)
            y == q.val
            v == <<t, y>>
<1>1. Deserialize(T, dec, st, s) = r /\ U \in PartsOf(T)
  BY DEF Deserialize, PartsOf, Single, Simple
<1>2. r = IF b.err = "none"
          THEN IF t > 1 THEN Bad("BadTag") ELSE (IF q.err = "none" THEN Got(v, q.rest) ELSE q)
          ELSE b
  BY DEF DecResult, AndThen, Map, IsOk
<1>3. b.err = "none" => t \in Byte /\ m \in Seq(Byte) /\ Undone(cn, SerByte(t), s, m)
  BY ByteRead
<1>4. v[1] = t /\ v[2] = y
  OBVIOUS
<1>5. Components(T, v) = {<<U, v[2]>>}
  BY <1>4 DEF Components, Simple
<1>6. ReceivedOf(T, rc, v) = <<v[1], rc[U][v[2]]>>
  BY <1>4 DEF ReceivedOf
<1>7. Serialize(T, ser, o, v) = Then(SerByte(v[1]), ser[U][v[2]])
  BY <1>4 DEF Serialize, SerResult
<1>. HIDE DEF b, r, q, m, U
<1>8. ASSUME b.err = "none", q.err = "none", r = Got(v, q.rest) PROVE KindBackAt(T, ser, rd, rc, o, cn, s, r)
  <2>1. m \in Seq(Byte) /\ Undone(cn, SerByte(t), s, m)
    BY <1>3, <1>8
  <2>2. Part(U, ser, rd, rc, cn, m, q)
    BY <1>1, <1>8, <2>1, PartIs DEF q
  <2>3. q.rest \in Seq(Byte)
    BY <2>2 DEF Part
  <2>4. ASSUME OfType(T, v)
        PROVE  /\ ReadableOf(T, rd, v) /\ ReceivedOf(T, rc, v) = v
               /\ Undone(cn, Serialize(T, ser, o, v), s, q.rest)
    <3>1. y \in Values[U]
      <4>. HIDE DEF v, y
      <4>1. <<U, y>> \in Components(T, v)
        BY <1>4, <1>5
      <4>. QED
        BY <2>4, <4>1 DEF OfType
    <3>2. rd[U][y] /\ rc[U][y] = y /\ Undone(cn, ser[U][y], m, q.rest)
      BY <2>2, <3>1, PartSame
    <3>3. ReceivedOf(T, rc, v) = v
      <4>1. rc[U][v[2]] = y
        BY <1>4, <3>2
      <4>. QED
        BY <1>4, <1>6, <4>1
    <3>. HIDE DEF v, y
    <3>4. ReadableOf(T, rd, v)
      BY <1>4, <1>5, <3>2 DEF ReadableOf
    <3>5. Undone(cn, Then(SerByte(t), ser[U][y]), s, q.rest)
      BY <2>1, <2>3, <3>2, UndoneBoth
    <3>. QED
      BY <1>4, <1>7, <3>3, <3>4, <3>5
  <2>. HIDE DEF v
  <2>5. KindBackAt(T, ser, rd, rc, o, cn, s, Got(v, q.rest))
    BY <2>3, <2>4, OwnBack
  <2>. QED
    BY <1>8, <2>5
<1>9. r.err = "none" => b.err = "none" /\ q.err = "none" /\ r = Got(v, q.rest)
  <2>. HIDE DEF v
  <2>. QED
    BY <1>2, BadIs
<1>10. KindBackAt(T, ser, rd, rc, o, cn, s, r)
  BY <1>8, <1>9, FailedBack
<1>. QED
  BY <1>1, <1>10

\* Bytes that were read with their number in front.
BytesRead(s, r) ==
    /\ r = Got(r.val, r.rest) /\ r.rest \in Seq(Byte) /\ r.val \in Seq(Byte) /\ Len(r.val) \in 0..MaxLen
    /\ Undone(TRUE, Then(SerLen(Len(r.val)), OneChunk(r.val)), s, r.rest)

\* The reader of a String and of a Vec<u8> gives the bytes that the length counts.
LEMMA BytesBack ==
    ASSUME NEW s \in Seq(Byte), DecBytes(s).err = "none"
    PROVE  BytesRead(s, DecBytes(s))
<1>. DEFINE l == DecUint(s, LenBytes)
            q == ReadExact(l.rest, l.val)
            r == DecBytes(s)
<1>1. r = IF l.err = "none" THEN q ELSE l
  BY DEF DecBytes, AndThen, IsOk, Bulk
<1>2. l.err = "none" => ReadOk(s, l, l.val, SerLen(l.val), 0..MaxLen)
  BY UndoneLen
<1>3. MaxLen \in Nat
  <2>1. LenBytes \in Nat
    BY WireAssumption
  <2>2. Pow[LenBytes] \in Nat \ {0}
    BY <2>1, PowIs
  <2>. QED
    BY <2>2 DEF MaxLen
<1>4. l.err = "none" /\ q.err = "none" /\ r = q
  <2>1. r.err = "none"
    OBVIOUS
  <2>2. r = IF l.err = "none" THEN q ELSE l
    BY <1>1
  <2>. HIDE DEF l, q, r
  <2>. QED
    BY <2>1, <2>2
<1>5. l.val \in 0..MaxLen /\ l.val \in Nat /\ l.rest \in Seq(Byte) /\ Undone(TRUE, SerLen(l.val), s, l.rest)
  <2>1. ReadOk(s, l, l.val, SerLen(l.val), 0..MaxLen)
    BY <1>2, <1>4
  <2>. HIDE DEF l, q, r
  <2>2. l.val \in 0..MaxLen /\ l.rest \in Seq(Byte) /\ Undone(TRUE, SerLen(l.val), s, l.rest)
    BY <2>1 DEF ReadOk
  <2>3. \A n \in 0..MaxLen : n \in Nat
    BY <1>3
  <2>4. l.val \in Nat
    BY <2>2, <2>3
  <2>. QED
    BY <2>2, <2>4
<1>. HIDE DEF l, r
<1>6. /\ q = Got(q.val, q.rest) /\ q.rest \in Seq(Byte) /\ q.val \in Seq(Byte) /\ Len(q.val) = l.val
      /\ l.rest = q.val \o q.rest
  BY <1>4, <1>5, ReadSplits
<1>. HIDE DEF q
<1>7. Undone(TRUE, OneChunk(q.val), l.rest, q.rest)
  BY <1>6, OneChunkIs DEF Undone
<1>8. Undone(TRUE, Then(SerLen(Len(q.val)), OneChunk(q.val)), s, q.rest)
  BY <1>5, <1>6, <1>7, UndoneBoth
<1>9. BytesRead(s, q)
  BY <1>5, <1>6, <1>8 DEF BytesRead
<1>. QED
  BY <1>4, <1>9 DEF r

\* A String: the text that was accepted is the text that is written.
LEMMA StringBack ==
    ASSUME NEW T \in Types, T.k = "string", NEW ser, NEW dec, NEW rd, NEW rc, NEW o, NEW st, NEW cn
    PROVE  KindBack(T, ser, dec, rd, rc, o, st, cn)
<1>. SUFFICES ASSUME NEW s \in Seq(Byte) PROVE KindBackAt(T, ser, rd, rc, o, cn, s, Deserialize(T, dec, st, s))
  BY DEF KindBack
<1>. DEFINE q == DecBytes(s)
            r == DecString(s)
<1>1. Deserialize(T, dec, st, s) = r /\ T.k \in Simple
  BY DEF Deserialize, Simple
<1>2. r = IF q.err = "none" THEN (IF ValidText(q.val) THEN Got(q.val, q.rest) ELSE Bad("BadText")) ELSE q
  BY DEF DecString, AndThen, IsOk
<1>3. q.err = "none" => BytesRead(s, q)
  BY BytesBack
<1>4. \A v : Serialize(T, ser, o, v) = Then(SerLen(Len(v)), OneChunk(v))
  BY DEF Serialize, SerString
<1>. HIDE DEF q, r
<1>5. ASSUME r.err = "none" PROVE KindBackAt(T, ser, rd, rc, o, cn, s, r)
  <2>1. q.err = "none" /\ r = Got(q.val, q.rest)
    BY <1>2, <1>5, BadIs
  <2>2. q.rest \in Seq(Byte) /\ Undone(TRUE, Then(SerLen(Len(q.val)), OneChunk(q.val)), s, q.rest)
    BY <1>3, <2>1 DEF BytesRead
  <2>3. KindBackAt(T, ser, rd, rc, o, cn, s, Got(q.val, q.rest))
    BY <1>1, <1>4, <2>2, SimpleBack
  <2>. QED
    BY <2>1, <2>3
<1>. QED
  BY <1>1, <1>5, FailedBack

\* An ObjectId: the bytes that were taken.
LEMMA ObjectIdBack ==
    ASSUME NEW T \in Types, T.k = "objectid", NEW ser, NEW dec, NEW rd, NEW rc, NEW o, NEW st, NEW cn
    PROVE  KindBack(T, ser, dec, rd, rc, o, st, cn)
<1>. SUFFICES ASSUME NEW s \in Seq(Byte) PROVE KindBackAt(T, ser, rd, rc, o, cn, s, Deserialize(T, dec, st, s))
  BY DEF KindBack
<1>. DEFINE r == DecObjectId(T, s)
            v == SubSeq(s, 1, T.w)
            q == SubSeq(s, T.w + 1, Len(s))
<1>1. Deserialize(T, dec, st, s) = r /\ T.k \in Simple /\ T.k \notin {"usize", "isize"}
  BY DEF Deserialize, Simple
<1>2. ASSUME r.err = "none" PROVE KindBackAt(T, ser, rd, rc, o, cn, s, r)
  <2>1. T.w \in 0..Len(s) /\ r = Got(v, q)
    <3>1. T.w \in Nat /\ Len(s) \in Nat
      BY TypesAssumption, LenProperties
    <3>2. Len(s) < T.w => r = Bad("UnexpectedEof")
      BY DEF DecObjectId
    <3>3. ~(Len(s) < T.w)
      BY <1>2, <3>2, BadIs
    <3>. QED
      BY <3>1, <3>3 DEF DecObjectId
  <2>2. v \in Seq(Byte) /\ q \in Seq(Byte) /\ s = v \o q
    <3>1. T.w \in Nat /\ ReadExact(s, T.w) = Got(v, q)
      BY <2>1, LenProperties DEF ReadExact
    <3>. HIDE DEF v, q
    <3>2. ReadExact(s, T.w).err = "none" /\ ReadExact(s, T.w).val = v /\ ReadExact(s, T.w).rest = q
      BY <3>1, GotIs
    <3>. QED
      BY <3>1, <3>2, ReadSplits
  <2>3. \A x : Serialize(T, ser, o, x) = OneChunk(x)
    BY DEF Serialize, SerObjectId
  <2>. HIDE DEF v, q, r
  <2>4. Undone(TRUE, OneChunk(v), s, q)
    BY <2>2, OneChunkIs DEF Undone
  <2>5. KindBackAt(T, ser, rd, rc, o, cn, s, Got(v, q))
    BY <1>1, <2>2, <2>3, <2>4, SimpleBack
  <2>. QED
    BY <2>1, <2>5
<1>. HIDE DEF r
<1>. QED
  BY <1>1, <1>2, FailedBack

\* What is written is told from its bytes alone, not from its buffers.
LEMMA UndoneSame ==
    ASSUME NEW cn, NEW e, NEW s, NEW r, Undone(cn, e, s, r), NEW e2, IsEnc(e2), e2.err = "none",
           Bytes(e2) = Bytes(e)
    PROVE  Undone(cn, e2, s, r)
BY DEF Undone

\* A u8 is written as the byte it is.
AsByte(U, ser, rd, rc) ==
    U = U8 => \A x \in Values[U] :
        x \in Byte /\ ser[U][x] = OneChunk(<<x>>) /\ rd[U][x] /\ rc[U][x] = x

\* The elements of vs were read from at[0] on, one after the other.
Apart(d, vs, at) ==
    /\ IsSeq(vs) /\ at \in [0..Len(vs) -> Seq(Byte)]
    /\ \A i \in 1..Len(vs) : d[at[i - 1]] = Got(vs[i], at[i])

\* What is known of an element that was read.
Element(U, ser, rd, rc, x) == rd[U][x] /\ rc[U][x] = x /\ IsEnc(ser[U][x]) /\ ser[U][x].err = "none"

\* A sequence of elements of V.
LEMMA SeqInto ==
    ASSUME NEW vs, IsSeq(vs), NEW V, \A i \in 1..Len(vs) : vs[i] \in V
    PROVE  vs \in Seq(V) /\ Len(vs) \in Nat /\ DOMAIN vs = 1..Len(vs) /\ vs = [i \in 1..Len(vs) |-> vs[i]]
<1>1. Len(vs) \in Nat /\ DOMAIN vs = 1..Len(vs) /\ vs = [i \in DOMAIN vs |-> vs[i]]
  BY SeqIs DEF IsSeq
<1>2. vs = [i \in 1..Len(vs) |-> vs[i]]
  BY <1>1
<1>3. vs \in Seq(V)
  BY <1>1, <1>2, FunctionInSeq
<1>. QED
  BY <1>1, <1>2, <1>3

\* Every element that was read is written as it was read.
LEMMA EachBack ==
    ASSUME NEW U, NEW d, NEW ser, NEW rd, NEW rc, NEW cn, Back(U, d, ser[U], rd[U], rc[U], cn),
           NEW vs, NEW at, Apart(d, vs, at)
    PROVE  \A i \in 1..Len(vs) : vs[i] \in Values[U] =>
               Element(U, ser, rd, rc, vs[i]) /\ Undone(cn, ser[U][vs[i]], at[i - 1], at[i])
<1>. SUFFICES ASSUME NEW i \in 1..Len(vs), vs[i] \in Values[U]
              PROVE  Element(U, ser, rd, rc, vs[i]) /\ Undone(cn, ser[U][vs[i]], at[i - 1], at[i])
  OBVIOUS
<1>. DEFINE x == vs[i]
            q == at[i - 1]
            m == at[i]
<1>0. Len(vs) \in Nat
  BY SeqIs DEF Apart
<1>1. q \in Seq(Byte) /\ d[q] = Got(x, m)
  <2>1. i - 1 \in 0..Len(vs)
    BY <1>0
  <2>. QED
    BY <2>1 DEF Apart
<1>2. x \in Values[U]
  OBVIOUS
<1>. HIDE DEF x, q, m
<1>3. d[q].err = "none" /\ d[q].val = x /\ d[q].rest = m
  BY <1>1, GotIs
<1>4. BackAt(U, d[q], q, x, ser[U][x], rd[U][x], rc[U][x], cn)
  BY <1>1, <1>2, <1>3 DEF Back
<1>5. rd[U][x] /\ rc[U][x] = x /\ Undone(cn, ser[U][x], q, m)
  BY <1>3, <1>4 DEF BackAt, Alike
<1>6. Element(U, ser, rd, rc, x)
  BY <1>5 DEF Element, Undone
<1>. QED
  BY <1>5, <1>6 DEF x, q, m

\* Elements that are values of their type, written one after the other.
LEMMA ElementsUndone ==
    ASSUME NEW U, NEW d, NEW ser, NEW rd, NEW rc, NEW cn, Back(U, d, ser[U], rd[U], rc[U], cn),
           AsByte(U, ser, rd, rc),
           NEW vs, NEW at, Apart(d, vs, at), \A i \in 1..Len(vs) : vs[i] \in Values[U]
    PROVE  /\ Undone(cn, InSequence(PartsOfAll(U, ser, vs)), at[0], at[Len(vs)])
           /\ Undone(cn, SerElements(U, ser, vs), at[0], at[Len(vs)])
<1>. DEFINE n == Len(vs)
            es == [i \in 1..n |-> ser[U][vs[i]]]
<1>1. n \in Nat /\ DOMAIN vs = 1..n /\ at \in [0..n -> Seq(Byte)]
  BY SeqIs DEF Apart
<1>2. PartsOfAll(U, ser, vs) = es
  BY <1>1 DEF PartsOfAll
<1>3. \A i \in 1..n : Undone(cn, ser[U][vs[i]], at[i - 1], at[i])
  BY EachBack
<1>4. \A i \in 1..n : Undone(cn, es[i], at[i - 1], at[i])
  BY <1>3
<1>5. es = [i \in 1..n |-> es[i]] /\ \A i \in 1..n : es[i] = ser[U][vs[i]]
  OBVIOUS
<1>. HIDE DEF es, n
<1>6. Undone(cn, InSequence(es), at[0], at[n])
  BY <1>1, <1>4, <1>5, UndoneEach
<1>7. Undone(cn, SerElements(U, ser, vs), at[0], at[n])
  <2>1. CASE U # U8
    <3>1. SerElements(U, ser, vs) = InSequence(es)
      BY <1>2, <2>1 DEF SerElements, PartsOfAll
    <3>. QED
      BY <1>6, <3>1
  <2>2. CASE U = U8
    <3>1. \A i \in 1..n : vs[i] \in Byte /\ ser[U][vs[i]] = OneChunk(<<vs[i]>>)
      BY <2>2 DEF AsByte, n
    <3>2. vs \in Seq(Byte) /\ Len(vs) = n
      BY <3>1, SeqInto DEF Apart, n
    <3>3. \A i \in 1..Len(vs) : es[i] = OneChunk(<<vs[i]>>)
      BY <1>5, <3>1, <3>2
    <3>4. es = [i \in 1..Len(vs) |-> es[i]]
      BY <1>5, <3>2
    <3>5. Bytes(InSequence(es)) = vs
      BY <3>2, <3>3, <3>4, BytesApart
    <3>6. SerElements(U, ser, vs) = OneChunk(vs)
      BY <2>2 DEF SerElements
    <3>7. IsEnc(OneChunk(vs)) /\ OneChunk(vs).err = "none" /\ Bytes(OneChunk(vs)) = vs
      BY <3>2, OneChunkIs
    <3>. QED
      BY <1>6, <3>5, <3>6, <3>7, UndoneSame
  <2>. QED
    BY <2>1, <2>2
<1>. QED
  BY <1>2, <1>6, <1>7 DEF n

\* A counted sequence that was read from s.
CountedRead(d, s, r) ==
    /\ r = Got(r.val, r.rest) /\ r.rest \in Seq(Byte) /\ IsSeq(r.val) /\ Len(r.val) \in 0..MaxLen
    /\ \E at : Apart(d, r.val, at) /\ at[Len(r.val)] = r.rest
               /\ Undone(TRUE, SerLen(Len(r.val)), s, at[0])

\* The length says how many elements there are.
LEMMA CountedBack ==
    ASSUME NEW d, \A q \in Seq(Byte) : Proper(d, q), NEW s \in Seq(Byte), DecCounted(d, s).err = "none"
    PROVE  CountedRead(d, s, DecCounted(d, s))
<1>. DEFINE l == DecUint(s, LenBytes)
            n == l.val
            ds == [i \in 1..n |-> d]
            q == DecEach(ds, l.rest)
            r == DecCounted(d, s)
<1>1. r = IF l.err = "none" THEN q ELSE l
  BY DEF DecCounted, AndThen, IsOk
<1>2. l.err = "none" => ReadOk(s, l, n, SerLen(n), 0..MaxLen)
  BY UndoneLen
<1>3. \A k \in 0..MaxLen : k \in Nat
  <2>1. LenBytes \in Nat
    BY WireAssumption
  <2>2. Pow[LenBytes] \in Nat \ {0}
    BY <2>1, PowIs
  <2>. QED
    BY <2>2 DEF MaxLen
<1>4. r.err = "none"
  OBVIOUS
<1>5. ds = [i \in 1..n |-> ds[i]] /\ \A i \in 1..n : ds[i] = d
  OBVIOUS
<1>. HIDE DEF l, n, ds, r
<1>6. l.err = "none" /\ q.err = "none" /\ r = q
  <2>. HIDE DEF q
  <2>. QED
    BY <1>1, <1>4
<1>7. n \in 0..MaxLen /\ l.rest \in Seq(Byte) /\ Undone(TRUE, SerLen(n), s, l.rest)
  BY <1>2, <1>6 DEF ReadOk
<1>8. n \in Nat
  BY <1>3, <1>7
<1>9. \A i \in 1..n : \A p \in Seq(Byte) : Proper(ds[i], p)
  BY <1>5
<1>10. HasTrace(ds, n, l.rest, q)
  BY <1>5, <1>6, <1>7, <1>8, <1>9, EachTrace
<1>. HIDE DEF q
<1>11. PICK at : Trace(ds, n, q.val, at) /\ at[0] = l.rest /\ at[n] = q.rest
  BY <1>10 DEF HasTrace
<1>12. q = Got(q.val, q.rest) /\ q.rest \in Seq(Byte) /\ IsSeq(q.val) /\ Len(q.val) = n
  BY <1>10 DEF HasTrace
<1>13. Apart(d, q.val, at)
  BY <1>5, <1>11, <1>12 DEF Trace, Apart
<1>14. CountedRead(d, s, q)
  BY <1>7, <1>11, <1>12, <1>13 DEF CountedRead
<1>. QED
  BY <1>6, <1>14 DEF r

\* A Vec that was read from s.
VecRead(U, ser, rd, rc, cn, s, r) ==
    /\ r = Got(r.val, r.rest) /\ r.rest \in Seq(Byte) /\ IsSeq(r.val) /\ Len(r.val) \in 0..MaxLen
    /\ ~ZeroSized[U]
    /\ \A i \in 1..Len(r.val) : r.val[i] \in Values[U] => Element(U, ser, rd, rc, r.val[i])
    /\ (\A i \in 1..Len(r.val) : r.val[i] \in Values[U]) =>
         /\ Undone(cn, SerSlice(U, ser, r.val), s, r.rest)
         /\ Undone(cn, Then(SerLen(Len(r.val)), InSequence(PartsOfAll(U, ser, r.val))), s, r.rest)

\* A Vec<u8> is read at once, and is what it would be read byte by byte.
LEMMA VecBytesBack ==
    ASSUME NEW ser, NEW rd, NEW rc, NEW cn, AsByte(U8, ser, rd, rc), ~ZeroSized[U8],
           NEW s \in Seq(Byte), NEW r, BytesRead(s, r)
    PROVE  VecRead(U8, ser, rd, rc, cn, s, r)
<1>. DEFINE v == r.val
<1>1. /\ r = Got(v, r.rest) /\ r.rest \in Seq(Byte) /\ v \in Seq(Byte) /\ Len(v) \in 0..MaxLen
      /\ Undone(cn, Then(SerLen(Len(v)), OneChunk(v)), s, r.rest)
  BY UndoneIf DEF BytesRead
<1>2. IsSeq(v) /\ Len(v) \in Nat /\ DOMAIN v = 1..Len(v) /\ \A i \in 1..Len(v) : v[i] \in Byte
  BY <1>1, AsSeq
<1>. HIDE DEF v
<1>3. ASSUME NEW x \in Values[U8] PROVE Element(U8, ser, rd, rc, x) /\ ser[U8][x] = OneChunk(<<x>>)
  <2>1. x \in Byte /\ ser[U8][x] = OneChunk(<<x>>) /\ rd[U8][x] /\ rc[U8][x] = x
    BY DEF AsByte
  <2>2. <<x>> \in Seq(Byte)
    BY <2>1
  <2>3. IsEnc(OneChunk(<<x>>)) /\ OneChunk(<<x>>).err = "none"
    <3>. DEFINE b == <<x>>
    <3>1. b \in Seq(Byte)
      BY <2>2
    <3>. HIDE DEF b
    <3>2. IsEnc(OneChunk(b)) /\ OneChunk(b).err = "none"
      BY <3>1, OneChunkIs
    <3>. QED
      BY <3>2 DEF b
  <2>. QED
    BY <2>1, <2>3 DEF Element
<1>4. SerSlice(U8, ser, v) = Then(SerLen(Len(v)), OneChunk(v))
  BY DEF SerSlice, SerElements
<1>5. ASSUME \A i \in 1..Len(v) : v[i] \in Values[U8]
      PROVE  Undone(cn, Then(SerLen(Len(v)), InSequence(PartsOfAll(U8, ser, v))), s, r.rest)
  <2>. DEFINE es == [i \in 1..Len(v) |-> ser[U8][v[i]]]
              e == InSequence(es)
              l == SerLen(Len(v))
  <2>1. PartsOfAll(U8, ser, v) = es
    BY <1>2 DEF PartsOfAll
  <2>2. \A i \in 1..Len(v) : es[i] = OneChunk(<<v[i]>>)
    BY <1>3, <1>5
  <2>3. es = [i \in 1..Len(v) |-> es[i]]
    OBVIOUS
  <2>. HIDE DEF es
  <2>4. IsEnc(e) /\ e.err = "none" /\ Bytes(e) = v
    BY <1>1, <2>2, <2>3, BytesApart
  <2>5. IsEnc(OneChunk(v)) /\ OneChunk(v).err = "none" /\ Bytes(OneChunk(v)) = v
    BY <1>1, OneChunkIs
  <2>6. IsEnc(l) /\ l.err = "none"
    BY <1>1, LenWritten
  <2>. HIDE DEF e, l
  <2>7. /\ IsEnc(Then(l, e)) /\ Then(l, e).err = "none" /\ Bytes(Then(l, e)) = Bytes(l) \o v
        /\ Bytes(Then(l, OneChunk(v))) = Bytes(l) \o v
    BY <2>4, <2>5, <2>6, ThenBytes
  <2>8. Undone(cn, Then(l, e), s, r.rest)
    <3>1. Undone(cn, Then(l, OneChunk(v)), s, r.rest)
      BY <1>1 DEF l
    <3>. QED
      BY <2>7, <3>1, UndoneSame
  <2>. QED
    BY <2>1, <2>8 DEF e, l
<1>6. r = Got(r.val, r.rest) /\ r.rest \in Seq(Byte)
  BY <1>1 DEF v
<1>. QED
  BY <1>1, <1>2, <1>3, <1>4, <1>5, <1>6 DEF VecRead, v

\* What the reader of a Vec gave, by whichever of its ways.
LEMMA VecBackRead ==
    ASSUME NEW U, NEW dec, NEW ser, NEW rd, NEW rc, NEW cn, Back(U, dec[U], ser[U], rd[U], rc[U], cn),
           AsByte(U, ser, rd, rc), NEW s \in Seq(Byte), DecVec(U, dec, s).err = "none"
    PROVE  VecRead(U, ser, rd, rc, cn, s, DecVec(U, dec, s))
<1>1. ~ZeroSized[U]
  BY BadIs DEF DecVec, CheckedZst
<1>2. DecVec(U, dec, s) = IF U = U8 THEN DecBytes(s) ELSE DecCounted(dec[U], s)
  BY <1>1 DEF DecVec, CheckedZst
<1>3. CASE U = U8
  <2>1. BytesRead(s, DecBytes(s))
    BY <1>2, <1>3, BytesBack
  <2>. QED
    BY <1>1, <1>2, <1>3, <2>1, VecBytesBack
<1>4. CASE U # U8
  <2>. DEFINE r == DecCounted(dec[U], s)
  <2>1. DecVec(U, dec, s) = r /\ r.err = "none"
    BY <1>2, <1>4
  <2>2. \A q \in Seq(Byte) : Proper(dec[U], q)
    BY DEF Back
  <2>3. CountedRead(dec[U], s, r)
    BY <2>1, <2>2, CountedBack
  <2>. HIDE DEF r
  <2>. DEFINE v == r.val
              n == Len(v)
  <2>4. PICK at : Apart(dec[U], v, at) /\ at[n] = r.rest /\ Undone(TRUE, SerLen(n), s, at[0])
    BY <2>3 DEF CountedRead
  <2>5. r = Got(v, r.rest) /\ r.rest \in Seq(Byte) /\ IsSeq(v) /\ n \in 0..MaxLen /\ n \in Nat
    BY <2>3, SeqIs DEF CountedRead
  <2>. HIDE DEF v
  <2>6. \A i \in 1..n : v[i] \in Values[U] => Element(U, ser, rd, rc, v[i])
    BY <2>4, EachBack
  <2>7. ASSUME \A i \in 1..n : v[i] \in Values[U]
        PROVE  /\ Undone(cn, SerSlice(U, ser, v), s, r.rest)
               /\ Undone(cn, Then(SerLen(n), InSequence(PartsOfAll(U, ser, v))), s, r.rest)
    <3>1. /\ Undone(cn, InSequence(PartsOfAll(U, ser, v)), at[0], r.rest)
          /\ Undone(cn, SerElements(U, ser, v), at[0], r.rest)
      BY <2>4, <2>7, ElementsUndone
    <3>2. Undone(cn, SerLen(n), s, at[0]) /\ at[0] \in Seq(Byte)
      <4>1. at[0] \in Seq(Byte)
        BY <2>4, <2>5 DEF Apart
      <4>. QED
        BY <2>4, <4>1, UndoneIf
    <3>. QED
      BY <2>5, <3>1, <3>2, UndoneBoth DEF SerSlice
  <2>8. VecRead(U, ser, rd, rc, cn, s, r)
    BY <1>1, <2>5, <2>6, <2>7 DEF VecRead, v
  <2>. QED
    BY <2>1, <2>8
<1>. QED
  BY <1>3, <1>4

\* What is known of the elements of a list that was read.
Listed(U, ser, rd, rc, v) == \A i \in 1..Len(v) : v[i] \in Values[U] => Element(U, ser, rd, rc, v[i])

\* v is readable and arrives as it is.
Kept(T, rd, rc, v) ==
    /\ ReadableOf(T, rd, v) /\ ReceivedOf(T, rc, v) = v
    /\ \A i \in 1..Len(v) : v[i] \in Values[T.of]

\* The elements of a list that was read are values, and stay what they are.
LEMMA ListKept ==
    ASSUME NEW T, T.k \in {"vec", "slice", "array", "indexset"}, T.k = "slice" => ~ZeroSized[T.of],
           NEW ser, NEW rd, NEW rc, NEW v, IsSeq(v), OfType(T, v), Listed(T.of, ser, rd, rc, v)
    PROVE  Kept(T, rd, rc, v)
<1>1. DOMAIN v = 1..Len(v) /\ v = [i \in DOMAIN v |-> v[i]]
  BY SeqIs DEF IsSeq
<1>2. Components(T, v) = {<<T.of, v[i]>> : i \in DOMAIN v}
  BY DEF Components, Simple
<1>3. \A i \in 1..Len(v) : v[i] \in Values[T.of]
  <2>. SUFFICES ASSUME NEW i \in 1..Len(v) PROVE v[i] \in Values[T.of]
    OBVIOUS
  <2>1. <<T.of, v[i]>> \in Components(T, v)
    BY <1>1, <1>2
  <2>. QED
    BY <2>1 DEF OfType
<1>4. \A i \in 1..Len(v) : rd[T.of][v[i]] /\ rc[T.of][v[i]] = v[i]
  BY <1>3 DEF Element, Listed
<1>5. \A c \in Components(T, v) : rd[c[1]][c[2]]
  BY <1>1, <1>2, <1>4
<1>6. ReadableOf(T, rd, v)
  BY <1>5 DEF ReadableOf
<1>7. [i \in DOMAIN v |-> rc[T.of][v[i]]] = v
  BY <1>1, <1>4
<1>8. ReceivedOf(T, rc, v) = v
  BY <1>7 DEF ReceivedOf
<1>. QED
  BY <1>3, <1>6, <1>8 DEF Kept

\* A Vec or a Box<[T]>.
LEMMA VecBack ==
    ASSUME NEW T \in Types, T.k \in {"vec", "slice"}, NEW ser, NEW dec, NEW rd, NEW rc, NEW o, NEW st, NEW cn,
           PartsBack(T, ser, dec, rd, rc, cn), AsByte(T.of, ser, rd, rc)
    PROVE  KindBack(T, ser, dec, rd, rc, o, st, cn)
<1>. SUFFICES ASSUME NEW s \in Seq(Byte) PROVE KindBackAt(T, ser, rd, rc, o, cn, s, Deserialize(T, dec, st, s))
  BY DEF KindBack
<1>. DEFINE U == T.of
            r == DecVec(U, dec, s)
            v == r.val
<1>1. Deserialize(T, dec, st, s) = r /\ U \in PartsOf(T)
  BY DEF Deserialize, PartsOf, Single, Simple
<1>2. ASSUME r.err = "none" PROVE KindBackAt(T, ser, rd, rc, o, cn, s, r)
  <2>1. Back(U, dec[U], ser[U], rd[U], rc[U], cn)
    BY <1>1 DEF PartsBack
  <2>2. VecRead(U, ser, rd, rc, cn, s, r)
    BY <1>2, <2>1, VecBackRead
  <2>. HIDE DEF r
  <2>3. /\ r = Got(v, r.rest) /\ r.rest \in Seq(Byte) /\ IsSeq(v) /\ ~ZeroSized[U]
        /\ \A i \in 1..Len(v) : v[i] \in Values[U] => Element(U, ser, rd, rc, v[i])
    BY <2>2 DEF VecRead
  <2>. HIDE DEF v
  <2>4. ASSUME OfType(T, v)
        PROVE  /\ ReadableOf(T, rd, v) /\ ReceivedOf(T, rc, v) = v
               /\ Undone(cn, Serialize(T, ser, o, v), s, r.rest)
    <3>1. /\ ReadableOf(T, rd, v) /\ ReceivedOf(T, rc, v) = v
          /\ \A i \in 1..Len(v) : v[i] \in Values[U]
      <4>1. T.k \in {"vec", "slice", "array", "indexset"} /\ ~ZeroSized[T.of]
        BY <2>3
      <4>2. Listed(T.of, ser, rd, rc, v)
        BY <2>3 DEF Listed
      <4>3. Kept(T, rd, rc, v)
        BY <2>3, <2>4, <4>1, <4>2, ListKept
      <4>. QED
        BY <4>3 DEF Kept
    <3>2. Undone(cn, SerSlice(U, ser, v), s, r.rest)
      BY <2>2, <3>1 DEF VecRead, v
    <3>3. CheckZst(U) = Writes(<<>>) /\ Undone(cn, Writes(<<>>), s, s)
      BY <2>3, UndoneNothing DEF CheckZst
    <3>4. Undone(cn, SerVec(U, ser, v), s, r.rest)
      BY <2>3, <3>2, <3>3, UndoneBoth DEF SerVec
    <3>. QED
      BY <3>1, <3>2, <3>4 DEF Serialize
  <2>5. KindBackAt(T, ser, rd, rc, o, cn, s, Got(v, r.rest))
    BY <2>3, <2>4, OwnBack
  <2>. QED
    BY <2>3, <2>5
<1>. QED
  BY <1>1, <1>2, FailedBack

\* An array: as many elements as its type says.
LEMMA ArrayBack ==
    ASSUME NEW T \in Types, T.k = "array", NEW ser, NEW dec, NEW rd, NEW rc, NEW o, NEW st, NEW cn,
           PartsBack(T, ser, dec, rd, rc, cn), AsByte(T.of, ser, rd, rc)
    PROVE  KindBack(T, ser, dec, rd, rc, o, st, cn)
<1>. SUFFICES ASSUME NEW s \in Seq(Byte) PROVE KindBackAt(T, ser, rd, rc, o, cn, s, Deserialize(T, dec, st, s))
  BY DEF KindBack
<1>. DEFINE U == T.of
            n == T.n
            d == dec[U]
            ds == [i \in 1..n |-> d]
            r == DecEach(ds, s)
            v == r.val
<1>1. Deserialize(T, dec, st, s) = r /\ U \in PartsOf(T) /\ n \in Nat
  BY TypesAssumption DEF Deserialize, DecArray, PartsOf, Single, Simple
<1>2. Back(U, d, ser[U], rd[U], rc[U], cn)
  BY <1>1 DEF PartsBack
<1>3. ds = [i \in 1..n |-> ds[i]] /\ \A i \in 1..n : ds[i] = d
  OBVIOUS
<1>. HIDE DEF ds, d, n
<1>4. ASSUME r.err = "none" PROVE KindBackAt(T, ser, rd, rc, o, cn, s, r)
  <2>1. \A i \in 1..n : \A p \in Seq(Byte) : Proper(ds[i], p)
    BY <1>2, <1>3 DEF Back
  <2>2. HasTrace(ds, n, s, r)
    BY <1>1, <1>3, <1>4, <2>1, EachTrace
  <2>. HIDE DEF r
  <2>3. PICK at : Trace(ds, n, v, at) /\ at[0] = s /\ at[n] = r.rest
    BY <2>2 DEF HasTrace
  <2>4. r = Got(v, r.rest) /\ r.rest \in Seq(Byte) /\ IsSeq(v) /\ Len(v) = n
    BY <2>2 DEF HasTrace
  <2>. HIDE DEF v
  <2>5. Apart(d, v, at)
    BY <1>3, <2>3, <2>4 DEF Trace, Apart
  <2>6. \A i \in 1..Len(v) : v[i] \in Values[U] => Element(U, ser, rd, rc, v[i])
    BY <1>2, <2>5, EachBack
  <2>7. ASSUME OfType(T, v)
        PROVE  /\ ReadableOf(T, rd, v) /\ ReceivedOf(T, rc, v) = v
               /\ Undone(cn, Serialize(T, ser, o, v), s, r.rest)
    <3>1. /\ ReadableOf(T, rd, v) /\ ReceivedOf(T, rc, v) = v
          /\ \A i \in 1..Len(v) : v[i] \in Values[U]
      <4>1. T.k \in {"vec", "slice", "array", "indexset"} /\ T.k # "slice"
        OBVIOUS
      <4>2. Listed(T.of, ser, rd, rc, v)
        BY <2>6 DEF Listed
      <4>3. Kept(T, rd, rc, v)
        BY <2>4, <2>7, <4>1, <4>2, ListKept
      <4>. QED
        BY <4>3 DEF Kept
    <3>2. Undone(cn, SerElements(U, ser, v), s, r.rest)
      BY <1>2, <2>3, <2>4, <2>5, <3>1, ElementsUndone
    <3>3. CASE n = 0
      <4>1. Serialize(T, ser, o, v) = Writes(<<>>)
        BY <3>3 DEF Serialize, SerArray, n
      <4>2. r.rest = s
        BY <2>3, <3>3
      <4>. QED
        BY <3>1, <4>1, <4>2, UndoneNothing
    <3>4. CASE n # 0
      <4>1. Serialize(T, ser, o, v) = SerElements(U, ser, v)
        BY <3>4 DEF Serialize, SerArray, n
      <4>. QED
        BY <3>1, <3>2, <4>1
    <3>. QED
      BY <3>3, <3>4
  <2>8. KindBackAt(T, ser, rd, rc, o, cn, s, Got(v, r.rest))
    BY <2>4, <2>7, OwnBack
  <2>. QED
    BY <2>4, <2>8
<1>. QED
  BY <1>1, <1>4, FailedBack

\* The fields y are the ones that were read, w, but for those init has set.
Similar(T, y, w) ==
    /\ IsSeq(y) /\ Len(y) = Len(T.of)
    /\ \A i \in 1..Len(T.of) : y[i] \in Values[T.of[i]] /\ Alike(T.of[i], y[i], w[i])

\* The fields of a struct that were read from s, and such fields written.
FieldsBackAt(T, ser, rd, rc, cn, s, q, y) ==
    /\ AllFields(T, rd, y) /\ FieldsOf(T, rc, y) = q.val
    /\ Undone(cn, InSequence([i \in DOMAIN y |-> ser[T.of[i]][y[i]]]), s, q.rest)

\* That holds for all fields like the ones that were read.
FieldsRead(T, ser, rd, rc, cn, s, q) ==
    /\ q = Got(q.val, q.rest) /\ q.rest \in Seq(Byte) /\ IsSeq(q.val) /\ Len(q.val) = Len(T.of)
    /\ \A y : Similar(T, y, q.val) => FieldsBackAt(T, ser, rd, rc, cn, s, q, y)

\* The types of the fields are parts.
LEMMA FieldTypes ==
    ASSUME NEW T \in Types, T.k \in {"tuple", "struct"}
    PROVE  /\ Len(T.of) \in Nat /\ DOMAIN T.of = 1..Len(T.of)
           /\ \A i \in 1..Len(T.of) : T.of[i] \in PartsOf(T)
<1>1. T.of \in Seq(Types)
  BY TypesAssumption
<1>2. PartsOf(T) = {T.of[i] : i \in DOMAIN T.of}
  BY DEF PartsOf, Simple, Single
<1>. QED
  BY <1>1, <1>2

\* The fields of a tuple or a struct that were read one behind the other.
LEMMA FieldsBack ==
    ASSUME NEW T \in Types, T.k \in {"tuple", "struct"}, NEW ser, NEW dec, NEW rd, NEW rc, NEW cn,
           PartsBack(T, ser, dec, rd, rc, cn), NEW s \in Seq(Byte), DecFields(T, dec, s).err = "none"
    PROVE  FieldsRead(T, ser, rd, rc, cn, s, DecFields(T, dec, s))
<1>. DEFINE n == Len(T.of)
            ds == [i \in 1..n |-> dec[T.of[i]]]
            q == DecFields(T, dec, s)
            w == q.val
<1>1. n \in Nat /\ DOMAIN T.of = 1..n /\ \A i \in 1..n : T.of[i] \in PartsOf(T)
  BY FieldTypes
<1>2. q = DecEach(ds, s)
  BY <1>1 DEF DecFields
<1>3. ds = [i \in 1..n |-> ds[i]] /\ \A i \in 1..n : ds[i] = dec[T.of[i]]
  OBVIOUS
<1>4. q.err = "none"
  OBVIOUS
<1>. HIDE DEF n, ds, q
<1>5. \A i \in 1..n : Back(T.of[i], ds[i], ser[T.of[i]], rd[T.of[i]], rc[T.of[i]], cn)
  BY <1>1, <1>3 DEF PartsBack
<1>6. \A i \in 1..n : \A p \in Seq(Byte) : Proper(ds[i], p)
  BY <1>5 DEF Back
<1>7. HasTrace(ds, n, s, q)
  BY <1>1, <1>2, <1>3, <1>4, <1>6, EachTrace
<1>8. PICK at : Trace(ds, n, w, at) /\ at[0] = s /\ at[n] = q.rest
  BY <1>7 DEF HasTrace
<1>9. q = Got(w, q.rest) /\ q.rest \in Seq(Byte) /\ IsSeq(w) /\ Len(w) = n
  BY <1>7 DEF HasTrace
<1>10. ASSUME NEW y, Similar(T, y, w) PROVE FieldsBackAt(T, ser, rd, rc, cn, s, q, y)
  <2>. HIDE DEF w
  <2>1. DOMAIN y = 1..n /\ \A i \in 1..n : y[i] \in Values[T.of[i]] /\ Alike(T.of[i], y[i], w[i])
    BY <1>10, SeqIs DEF Similar, n
  <2>2. ASSUME NEW i \in 1..n
        PROVE  /\ rd[T.of[i]][y[i]] /\ rc[T.of[i]][y[i]] = w[i]
               /\ Undone(cn, ser[T.of[i]][y[i]], at[i - 1], at[i])
    <3>. DEFINE U == T.of[i]
                x == y[i]
                p == at[i - 1]
                m == at[i]
                d == ds[i]
    <3>1. p \in Seq(Byte)
      <4>1. i - 1 \in 0..n
        BY <1>1
      <4>. QED
        BY <1>8, <4>1 DEF Trace
    <3>2. d[p] = Got(w[i], m)
      BY <1>8 DEF Trace
    <3>3. Back(U, d, ser[U], rd[U], rc[U], cn) /\ x \in Values[U] /\ Alike(U, x, w[i])
      BY <1>5, <2>1
    <3>. HIDE DEF U, x, p, m, d
    <3>4. d[p].err = "none" /\ d[p].val = w[i] /\ d[p].rest = m
      BY <3>2, GotIs
    <3>5. BackAt(U, d[p], p, x, ser[U][x], rd[U][x], rc[U][x], cn)
      BY <3>1, <3>3, <3>4 DEF Back
    <3>6. rd[U][x] /\ rc[U][x] = w[i] /\ Undone(cn, ser[U][x], p, m)
      BY <3>3, <3>4, <3>5 DEF BackAt
    <3>. QED
      BY <3>6 DEF U, x, p, m
  <2>3. AllFields(T, rd, y)
    BY <2>1, <2>2 DEF AllFields
  <2>4. FieldsOf(T, rc, y) = w
    <3>1. w = [i \in 1..n |-> w[i]]
      BY <1>9, SeqIs DEF IsSeq
    <3>2. FieldsOf(T, rc, y) = [i \in 1..n |-> rc[T.of[i]][y[i]]]
      BY <2>1 DEF FieldsOf
    <3>. QED
      BY <2>2, <3>1, <3>2
  <2>5. Undone(cn, InSequence([i \in DOMAIN y |-> ser[T.of[i]][y[i]]]), s, q.rest)
    <3>. DEFINE es == [i \in 1..n |-> ser[T.of[i]][y[i]]]
    <3>1. es = [i \in 1..n |-> es[i]]
      OBVIOUS
    <3>2. \A i \in 1..n : Undone(cn, es[i], at[i - 1], at[i])
      BY <2>2
    <3>3. at \in [0..n -> Seq(Byte)]
      BY <1>8 DEF Trace
    <3>4. [i \in DOMAIN y |-> ser[T.of[i]][y[i]]] = es
      BY <2>1
    <3>. HIDE DEF es
    <3>5. Undone(cn, InSequence(es), at[0], at[n])
      BY <1>1, <3>1, <3>2, <3>3, UndoneEach
    <3>. QED
      BY <1>8, <3>4, <3>5
  <2>. QED
    BY <2>3, <2>4, <2>5 DEF FieldsBackAt, w
<1>11. FieldsRead(T, ser, rd, rc, cn, s, q)
  BY <1>9, <1>10 DEF FieldsRead, w, n
<1>. QED
  BY <1>11 DEF q

\* The fields of a value are values of their types.
LEMMA FieldsOfType ==
    ASSUME NEW T \in Types, T.k \in {"tuple", "struct"}, NEW y, OfType(T, y), NEW rd
    PROVE  /\ IsSeq(y) /\ Len(y) = Len(T.of) /\ DOMAIN y = 1..Len(T.of)
           /\ \A i \in 1..Len(T.of) : y[i] \in Values[T.of[i]]
           /\ AllFields(T, rd, y) => ReadableOf(T, rd, y)
<1>1. IsSequence(y) /\ Len(y) = Len(T.of)
  BY DEF OfType, HasForm
<1>2. DOMAIN y = 1..Len(T.of) /\ Len(T.of) \in Nat /\ y = [i \in DOMAIN y |-> y[i]]
  BY <1>1 DEF IsSequence, IsFunction
<1>3. IsSeq(y)
  BY <1>2, FunctionIsSeq
<1>4. Components(T, y) = {<<T.of[i], y[i]>> : i \in DOMAIN y}
  BY DEF Components, Simple
<1>5. \A i \in 1..Len(T.of) : y[i] \in Values[T.of[i]]
  <2>. SUFFICES ASSUME NEW i \in 1..Len(T.of) PROVE y[i] \in Values[T.of[i]]
    OBVIOUS
  <2>1. <<T.of[i], y[i]>> \in Components(T, y)
    BY <1>2, <1>4
  <2>. QED
    BY <2>1 DEF OfType
<1>6. ASSUME AllFields(T, rd, y) PROVE ReadableOf(T, rd, y)
  <2>1. \A c \in Components(T, y) : rd[c[1]][c[2]]
    BY <1>4, <1>6 DEF AllFields
  <2>. QED
    BY <2>1 DEF ReadableOf
<1>. QED
  BY <1>1, <1>2, <1>3, <1>5, <1>6

\* A tuple.
LEMMA TupleBack ==
    ASSUME NEW T \in Types, T.k = "tuple", NEW ser, NEW dec, NEW rd, NEW rc, NEW o, NEW st, NEW cn,
           PartsBack(T, ser, dec, rd, rc, cn)
    PROVE  KindBack(T, ser, dec, rd, rc, o, st, cn)
<1>. SUFFICES ASSUME NEW s \in Seq(Byte) PROVE KindBackAt(T, ser, rd, rc, o, cn, s, Deserialize(T, dec, st, s))
  BY DEF KindBack
<1>. DEFINE r == DecFields(T, dec, s)
            v == r.val
<1>1. Deserialize(T, dec, st, s) = r
  BY DEF Deserialize, DecTuple, DecFields
<1>2. ASSUME r.err = "none" PROVE KindBackAt(T, ser, rd, rc, o, cn, s, r)
  <2>1. FieldsRead(T, ser, rd, rc, cn, s, r)
    BY <1>2, FieldsBack
  <2>. HIDE DEF r
  <2>2. r = Got(v, r.rest) /\ r.rest \in Seq(Byte)
    BY <2>1 DEF FieldsRead
  <2>3. ASSUME OfType(T, v)
        PROVE  /\ ReadableOf(T, rd, v) /\ ReceivedOf(T, rc, v) = v
               /\ Undone(cn, Serialize(T, ser, o, v), s, r.rest)
    <3>1. Similar(T, v, v) /\ (AllFields(T, rd, v) => ReadableOf(T, rd, v))
      BY <2>3, FieldsOfType DEF Similar, Alike
    <3>2. FieldsBackAt(T, ser, rd, rc, cn, s, r, v)
      BY <2>1, <3>1 DEF FieldsRead
    <3>3. ReceivedOf(T, rc, v) = FieldsOf(T, rc, v)
      BY DEF ReceivedOf, FieldsOf
    <3>4. Serialize(T, ser, o, v) = InSequence([i \in DOMAIN v |-> ser[T.of[i]][v[i]]])
      BY DEF Serialize, SerTuple
    <3>. QED
      BY <3>1, <3>2, <3>3, <3>4 DEF FieldsBackAt
  <2>. HIDE DEF v
  <2>4. KindBackAt(T, ser, rd, rc, o, cn, s, Got(v, r.rest))
    BY <2>2, <2>3, OwnBack
  <2>. QED
    BY <2>2, <2>4
<1>. QED
  BY <1>1, <1>2, FailedBack

\* A struct: its fields, and what its init method makes of them.
LEMMA StructBack ==
    ASSUME NEW T \in Types, T.k = "struct", NEW ser, NEW dec, NEW rd, NEW rc, NEW o, NEW st, NEW cn,
           PartsBack(T, ser, dec, rd, rc, cn)
    PROVE  KindBack(T, ser, dec, rd, rc, o, st, cn)
<1>. SUFFICES ASSUME NEW s \in Seq(Byte) PROVE KindBackAt(T, ser, rd, rc, o, cn, s, Deserialize(T, dec, st, s))
  BY DEF KindBack
<1>. DEFINE q == DecFields(T, dec, s)
            w == q.val
            v == IF T.init THEN InitMethod(T, w) ELSE w
            r == Deserialize(T, dec, st, s)
<1>1. r = IF q.err = "none" THEN Got(v, q.rest) ELSE q
  BY DEF Deserialize, DecStruct, Map, IsOk
<1>. HIDE DEF r
<1>2. ASSUME r.err = "none" PROVE KindBackAt(T, ser, rd, rc, o, cn, s, r)
  <2>. HIDE DEF q, v
  <2>1. q.err = "none" /\ r = Got(v, q.rest)
    BY <1>1, <1>2
  <2>2. FieldsRead(T, ser, rd, rc, cn, s, q)
    BY <2>1, FieldsBack DEF q
  <2>3. q.rest \in Seq(Byte) /\ r.val = v /\ r.rest = q.rest /\ IsSeq(w) /\ Len(w) = Len(T.of)
    BY <2>1, <2>2, GotIs DEF FieldsRead
  <2>4. DOMAIN w = 1..Len(T.of)
    BY <2>3, SeqIs
  <2>. HIDE DEF w
  <2>5. ASSUME NEW x, OfType(T, x), Alike(T, x, v)
        PROVE  /\ ReadableOf(T, rd, x) /\ ReceivedOf(T, rc, x) = v
               /\ Undone(cn, Serialize(T, ser, o, x), s, q.rest)
    <3>1. x = w \/ x = InitMethod(T, w)
      BY <2>5 DEF Alike, v
    <3>2. /\ IsSeq(x) /\ Len(x) = Len(T.of)
          /\ \A i \in 1..Len(T.of) : x[i] \in Values[T.of[i]]
          /\ AllFields(T, rd, x) => ReadableOf(T, rd, x)
      BY <2>5, FieldsOfType
    <3>3. \A i \in 1..Len(T.of) : Alike(T.of[i], x[i], w[i])
      <4>. SUFFICES ASSUME NEW i \in 1..Len(T.of), T.of[i].k # "skip" PROVE x[i] = w[i]
        BY DEF Alike
      <4>1. InitMethod(T, w)[i] = w[i]
        BY <2>4 DEF InitMethod
      <4>. QED
        BY <3>1, <4>1
    <3>4. Similar(T, x, w)
      BY <3>2, <3>3 DEF Similar
    <3>5. FieldsBackAt(T, ser, rd, rc, cn, s, q, x)
      BY <2>2, <3>4 DEF FieldsRead, w
    <3>6. FieldsOf(T, rc, x) = w
      BY <3>5 DEF FieldsBackAt, w
    <3>7. ReceivedOf(T, rc, x) = IF T.init THEN InitMethod(T, FieldsOf(T, rc, x)) ELSE FieldsOf(T, rc, x)
      BY DEF ReceivedOf, FieldsOf
    <3>8. Serialize(T, ser, o, x) = InSequence([i \in DOMAIN x |-> ser[T.of[i]][x[i]]])
      BY DEF Serialize, SerStruct
    <3>9. ReceivedOf(T, rc, x) = v
      BY <3>6, <3>7 DEF v
    <3>. QED
      BY <3>2, <3>5, <3>8, <3>9 DEF FieldsBackAt
  <2>6. r = Got(r.val, r.rest)
    BY <2>1, <2>3
  <2>. QED
    BY <2>3, <2>5, <2>6 DEF KindBackAt, BackAt
<1>3. KindBackAt(T, ser, rd, rc, o, cn, s, r)
  BY <1>2, FailedBack
<1>. QED
  BY <1>3 DEF r

\* The variant a tag stands for.
Tagged(T, t) == {i \in DOMAIN T.tags : T.tags[i] = t}

\* A variant that was read is the one its tag stands for.
LEMMA EnumRead ==
    ASSUME NEW T \in Types, T.k = "enum", NEW dec, NEW st, NEW s \in Seq(Byte), NEW r,
           r = Deserialize(T, dec, st, s), r.err = "none"
    PROVE  LET b == DecByte(s)
               n == Min(Tagged(T, b.val))
               q == dec[T.of[n]][b.rest]
           IN  /\ b.err = "none" /\ q.err = "none" /\ n \in DOMAIN T.of /\ T.tags[n] = b.val
               /\ r = Got(<<n, IF T.init THEN InitMethod(T.of[n], q.val) ELSE q.val>>, q.rest)
<1>. DEFINE b == DecByte(s)
            m == Tagged(T, b.val)
            n == Min(m)
            q == dec[T.of[n]][b.rest]
            v == <<n, IF T.init THEN InitMethod(T.of[n], q.val) ELSE q.val>>
<1>1. Deserialize(T, dec, st, s) = DecEnum(T, dec, s)
  BY DEF Deserialize
<1>2. DecEnum(T, dec, s) =
          IF b.err = "none"
          THEN IF m = {} THEN Bad("BadTag") ELSE IF q.err = "none" THEN Got(v, q.rest) ELSE q
          ELSE b
  BY DEF DecEnum, AndThen, Map, IsOk, Tagged
<1>. HIDE DEF b
<1>3. b.err = "none"
  BY <1>1, <1>2
<1>4. m # {}
  BY <1>1, <1>2, <1>3, BadIs
<1>5. q.err = "none" /\ r = Got(v, q.rest)
  <2>. HIDE DEF m, n, q, v
  <2>. QED
    BY <1>1, <1>2, <1>3, <1>4
<1>6. n \in DOMAIN T.of /\ T.tags[n] = b.val
  <2>1. T.tags \in Seq(Byte) /\ DOMAIN T.tags = DOMAIN T.of
    BY TypesAssumption DEF IsEnum
  <2>2. m \in SUBSET Nat
    BY <2>1 DEF Tagged
  <2>3. n \in m
    BY <1>4, <2>2, LeastIs
  <2>. QED
    BY <2>1, <2>3 DEF Tagged
<1>. QED
  BY <1>3, <1>5, <1>6 DEF b

\* An enum: the tag, and the variant, on which its init method was run.
LEMMA EnumBack ==
    ASSUME NEW T \in Types, T.k = "enum", NEW ser, NEW dec, NEW rd, NEW rc, NEW o, NEW st, NEW cn,
           PartsBack(T, ser, dec, rd, rc, cn)
    PROVE  KindBack(T, ser, dec, rd, rc, o, st, cn)
<1>. SUFFICES ASSUME NEW s \in Seq(Byte) PROVE KindBackAt(T, ser, rd, rc, o, cn, s, Deserialize(T, dec, st, s))
  BY DEF KindBack
<1>. DEFINE r == Deserialize(T, dec, st, s)
            b == DecByte(s)
            n == Min(Tagged(T, b.val))
            U == T.of[n]
            q == dec[U][b.rest]
            y == IF T.init THEN InitMethod(U, q.val) ELSE q.val
            v == <<n, y>>
<1>1. ASSUME r.err = "none" PROVE KindBackAt(T, ser, rd, rc, o, cn, s, r)
  <2>1. b.err = "none" /\ q.err = "none" /\ n \in DOMAIN T.of /\ T.tags[n] = b.val /\ r = Got(v, q.rest)
    BY <1>1, EnumRead
  <2>2. U \in PartsOf(T) /\ U.k = "struct" /\ ~U.init
    <3>. HIDE DEF n
    <3>1. U \in PartsOf(T)
      BY <2>1 DEF PartsOf, Simple, Single
    <3>. QED
      BY <2>1, <3>1, TypesAssumption DEF IsEnum
  <2>3. b = Got(b.val, b.rest) /\ b.rest \in Seq(Byte) /\ Undone(cn, SerByte(b.val), s, b.rest)
    BY <2>1, ByteRead
  <2>. HIDE DEF r, b, n, U
  <2>4. Part(U, ser, rd, rc, cn, b.rest, q)
    BY <2>1, <2>2, <2>3, PartIs
  <2>. HIDE DEF q
  <2>5. q.rest \in Seq(Byte)
    BY <2>4 DEF Part
  <2>6. v[1] = n /\ v[2] = y
    OBVIOUS
  <2>7. Alike(U, y, q.val)
    BY <2>2 DEF Alike
  <2>. HIDE DEF v
  <2>8. ASSUME OfType(T, v)
        PROVE  /\ ReadableOf(T, rd, v) /\ ReceivedOf(T, rc, v) = v
               /\ Undone(cn, Serialize(T, ser, o, v), s, q.rest)
    <3>1. Components(T, v) = {<<U, y>>}
      BY <2>6 DEF Components, Simple, U
    <3>2. y \in Values[U]
      <4>. HIDE DEF y
      <4>1. <<U, y>> \in Components(T, v)
        BY <3>1
      <4>. QED
        BY <2>8, <4>1 DEF OfType
    <3>3. rd[U][y] /\ rc[U][y] = q.val /\ Undone(cn, ser[U][y], b.rest, q.rest)
      BY <2>4, <2>7, <3>2 DEF Part
    <3>4. ReadableOf(T, rd, v)
      <4>. HIDE DEF y
      <4>. QED
        BY <3>1, <3>3 DEF ReadableOf
    <3>5. ReceivedOf(T, rc, v) = v
      <4>1. ReceivedOf(T, rc, v) = <<n, IF T.init THEN InitMethod(U, rc[U][y]) ELSE rc[U][y]>>
        BY <2>6 DEF ReceivedOf, U
      <4>2. (IF T.init THEN InitMethod(U, rc[U][y]) ELSE rc[U][y]) = y
        BY <3>3
      <4>. QED
        BY <4>1, <4>2 DEF v
    <3>6. Serialize(T, ser, o, v) = Then(SerByte(b.val), ser[U][y])
      BY <2>1, <2>6 DEF Serialize, SerEnum, U
    <3>7. Undone(cn, Then(SerByte(b.val), ser[U][y]), s, q.rest)
      BY <2>3, <2>5, <3>3, UndoneBoth
    <3>. QED
      BY <3>4, <3>5, <3>6, <3>7
  <2>9. KindBackAt(T, ser, rd, rc, o, cn, s, Got(v, q.rest))
    BY <2>5, <2>8, OwnBack
  <2>. QED
    BY <2>1, <2>9
<1>2. KindBackAt(T, ser, rd, rc, o, cn, s, r)
  <2>. HIDE DEF r
  <2>. QED
    BY <1>1, FailedBack
<1>. QED
  BY <1>2

\* A set has no more elements than a sequence in which each of them occurs.
LEMMA SetSize ==
    ASSUME NEW n \in Nat, NEW S, NEW f \in [1..n -> S], \A x \in S : \E i \in 1..n : f[i] = x
    PROVE  /\ IsFiniteSet(S) /\ Cardinality(S) \in Nat /\ Cardinality(S) <= n
           /\ (\A i, j \in 1..n : f[i] = f[j] => i = j) => Cardinality(S) = n
<1>1. IsFiniteSet(1..n) /\ Cardinality(1..n) = n
  BY IntervalSize
<1>2. f \in Surjection(1..n, S)
  BY DEF Surjection
<1>3. /\ IsFiniteSet(S) /\ Cardinality(S) <= Cardinality(1..n)
      /\ Cardinality(S) = Cardinality(1..n) <=> f \in Injection(1..n, S)
  BY <1>1, <1>2, FS_Surjection
<1>4. Cardinality(S) \in Nat
  BY <1>3, FS_CardinalityType
<1>5. ASSUME \A i, j \in 1..n : f[i] = f[j] => i = j PROVE f \in Injection(1..n, S)
  BY <1>5 DEF Injection, IsInjective
<1>. QED
  BY <1>1, <1>3, <1>4, <1>5

\* Keys of which each is less than the next one.
LEMMA Strictly ==
    ASSUME NEW K \in Keys, NEW n \in Nat, NEW ks, Len(ks) = n, \A i \in 1..n : ks[i] \in Values[K],
           AscendingKeys(K, ks)
    PROVE  \A i, j \in 1..n : i < j => Less(K, ks[i], ks[j])
<1>. DEFINE T == {m \in 0..n : \A i \in 1..n : i < m => Less(K, ks[i], ks[m])}
<1>1. 0 \in T
  OBVIOUS
<1>2. ASSUME NEW m \in 0..n, m > 0, m - 1 \in T PROVE m \in T
  <2>. SUFFICES ASSUME NEW i \in 1..n, i < m PROVE Less(K, ks[i], ks[m])
    OBVIOUS
  <2>1. m - 1 \in 1..n /\ m \in 1..n /\ m - 1 \in 1..Len(ks) - 1 /\ (m - 1) + 1 = m
    BY <1>2
  <2>2. Less(K, ks[m - 1], ks[m])
    BY <2>1 DEF AscendingKeys
  <2>3. CASE i = m - 1
    BY <2>2, <2>3
  <2>4. CASE i # m - 1
    <3>1. i < m - 1
      BY <2>1, <2>4
    <3>2. Less(K, ks[i], ks[m - 1])
      BY <1>2, <3>1
    <3>3. ks[i] \in Values[K] /\ ks[m - 1] \in Values[K] /\ ks[m] \in Values[K]
      BY <2>1
    <3>. QED
      BY <2>2, <3>2, <3>3, ValuesAssumption
  <2>. QED
    BY <2>3, <2>4
<1>3. T \in SUBSET (0..n)
  OBVIOUS
<1>. HIDE DEF T
<1>4. T = 0..n
  BY <1>1, <1>2, <1>3, UpTo
<1>5. \A m \in 1..n : m \in T
  BY <1>4
<1>. QED
  BY <1>5 DEF T

\* Ascending keys are the set of them in its order, none is there twice.
LEMMA StrictIs ==
    ASSUME NEW K \in Keys, NEW ks, IsSeq(ks), \A i \in 1..Len(ks) : ks[i] \in Values[K], AscendingKeys(K, ks)
    PROVE  Ascending(K, ToSet(ks)) = ks /\ \A i, j \in 1..Len(ks) : ks[i] = ks[j] => i = j
<1>. DEFINE n == Len(ks)
            S == ToSet(ks)
            R == KeyOrder(K, S)
<1>1. /\ n \in Nat /\ DOMAIN ks = 1..n /\ \A i \in 1..n : ks[i] \in S
      /\ \A x \in S : \E i \in 1..n : x = ks[i]
      /\ ks = [i \in 1..n |-> ks[i]]
  BY SeqIs DEF IsSeq
<1>2. \A i \in 1..n : ks[i] \in Values[K]
  OBVIOUS
<1>. HIDE DEF n, S, R
<1>3. \A i, j \in 1..n : i < j => Less(K, ks[i], ks[j])
  BY <1>1, <1>2, Strictly DEF n
<1>4. \A i, j \in 1..n : ks[i] = ks[j] => i = j
  <2>. SUFFICES ASSUME NEW i \in 1..n, NEW j \in 1..n, ks[i] = ks[j], i # j PROVE FALSE
    OBVIOUS
  <2>1. i < j \/ j < i
    BY <1>1
  <2>2. Less(K, ks[i], ks[i])
    BY <1>3, <2>1
  <2>. QED
    BY <1>2, <2>2, ValuesAssumption
<1>5. ks \in [1..n -> S]
  BY <1>1
<1>6. IsFiniteSet(S) /\ Cardinality(S) = n
  BY <1>1, <1>4, <1>5, SetSize
<1>7. S \in SUBSET Values[K]
  BY <1>1, <1>2
<1>8. Ordering(S, R)
  BY <1>6, <1>7, KeysOrdered DEF R
<1>9. Sorted(ks, n, S, R)
  <2>1. \A i, j \in 1..n : i < j => <<ks[i], ks[j]>> \in R
    BY <1>1, <1>3 DEF R, KeyOrder
  <2>. QED
    BY <1>5, <2>1 DEF Sorted
<1>10. ks = InOrder(S, R)
  BY <1>6, <1>8, <1>9, InOrderIs
<1>11. Ascending(K, S) = InOrder(S, R)
  BY DEF Ascending, R, KeyOrder
<1>. QED
  BY <1>4, <1>10, <1>11 DEF S, n

\* Items that can be written, not more of them than a length counts.
LEMMA ItemsWritten ==
    ASSUME NEW U, ~ZeroSized[U], NEW n \in 0..MaxLen, n \in Nat, NEW parts, parts = [i \in 1..n |-> parts[i]],
           \A i \in 1..n : IsEnc(parts[i]) /\ parts[i].err = "none"
    PROVE  IsEnc(SerItems(U, parts)) /\ SerItems(U, parts).err = "none"
<1>. DEFINE e == InSequence(parts)
            l == SerLen(n)
            z == Writes(<<>>)
<1>1. Len(parts) = n
  BY FunctionIsSeq
<1>2. IsEnc(e) /\ e.err = "none"
  BY InSequenceIs
<1>3. IsEnc(l) /\ l.err = "none"
  BY LenWritten
<1>4. IsEnc(z) /\ z.err = "none"
  BY NothingIs
<1>5. SerItems(U, parts) = Then(z, Then(l, e))
  BY <1>1 DEF SerItems, CheckZst
<1>. HIDE DEF e, l, z
<1>6. IsEnc(Then(l, e)) /\ Then(l, e).err = "none"
  BY <1>2, <1>3, ThenBytes
<1>7. IsEnc(Then(z, Then(l, e))) /\ Then(z, Then(l, e)).err = "none"
  BY <1>4, <1>6, ThenBytes
<1>. QED
  BY <1>5, <1>7

\* Items that were read in the order in which they are written.
LEMMA ItemsUndone ==
    ASSUME NEW cn, NEW U, ~ZeroSized[U], NEW s \in Seq(Byte), NEW q \in Seq(Byte), NEW parts,
           Undone(cn, Then(SerLen(Len(parts)), InSequence(parts)), s, q)
    PROVE  Undone(cn, SerItems(U, parts), s, q)
<1>1. CheckZst(U) = Writes(<<>>) /\ Undone(cn, Writes(<<>>), s, s)
  BY UndoneNothing DEF CheckZst
<1>. QED
  BY <1>1, UndoneBoth DEF SerItems

\* The order of the elements of a set that was read, when nothing is known of the
\* order in which they were there, and when they were there in that order.
LEMMA SetItems ==
    ASSUME NEW K \in Keys, NEW S, NEW vec, IsSeq(vec), S = ToSet(vec), \A x \in S : x \in Values[K]
    PROVE  LET items == Ascending(K, S)
           IN  /\ IsSeq(items) /\ Len(items) \in Nat /\ Len(items) <= Len(vec) /\ DOMAIN items = 1..Len(items)
               /\ \A i \in 1..Len(items) : \E j \in 1..Len(vec) : items[i] = vec[j]
               /\ AscendingKeys(K, vec) => items = vec
<1>. DEFINE items == Ascending(K, S)
            n == Len(vec)
<1>1. /\ n \in Nat /\ DOMAIN vec = 1..n /\ \A i \in 1..n : vec[i] \in S
      /\ \A x \in S : \E i \in 1..n : x = vec[i]
      /\ vec = [i \in 1..n |-> vec[i]]
  BY SeqIs DEF IsSeq
<1>2. S \in SUBSET Values[K]
  OBVIOUS
<1>. HIDE DEF n
<1>3. vec \in [1..n -> S]
  BY <1>1
<1>4. IsFiniteSet(S) /\ Cardinality(S) \in Nat /\ Cardinality(S) <= n
  BY <1>1, <1>3, SetSize
<1>5. IsSequence(items) /\ Len(items) = Cardinality(S) /\ items \in [1..Len(items) -> S]
  BY <1>2, <1>4, AscendingIs
<1>. HIDE DEF items
<1>6. IsSeq(items)
  BY <1>4, <1>5, FunctionIsSeq
<1>7. \A i \in 1..Len(items) : items[i] \in S
  BY <1>5
<1>8. \A i \in 1..Len(items) : \E j \in 1..n : items[i] = vec[j]
  BY <1>1, <1>7
<1>9. ASSUME AscendingKeys(K, vec) PROVE items = vec
  <2>1. \A i \in 1..Len(vec) : vec[i] \in Values[K]
    BY <1>1, <1>2 DEF n
  <2>. QED
    BY <1>9, <2>1, StrictIs DEF items
<1>. QED
  BY <1>4, <1>5, <1>6, <1>8, <1>9 DEF items, n

\* A set: its items in their order.  The strict reader accepts no other order and no
\* item twice; the lax one sorts what it read.
LEMMA SetBack ==
    ASSUME NEW T \in Types, T.k = "set", NEW ser, NEW dec, NEW rd, NEW rc, NEW o \in Orders, NEW st, NEW cn,
           cn => st, PartsBack(T, ser, dec, rd, rc, cn), AsByte(T.of, ser, rd, rc)
    PROVE  KindBack(T, ser, dec, rd, rc, o, st, cn)
<1>. SUFFICES ASSUME NEW s \in Seq(Byte) PROVE KindBackAt(T, ser, rd, rc, o, cn, s, Deserialize(T, dec, st, s))
  BY DEF KindBack
<1>. DEFINE U == T.of
            q == DecVec(U, dec, s)
            vec == q.val
            v == ToSet(vec)
            r == Deserialize(T, dec, st, s)
<1>1. U \in PartsOf(T) /\ U \in Keys
  BY TypesAssumption DEF PartsOf, Single, Simple
<1>2. r = IF q.err = "none"
          THEN IF st /\ ~AscendingKeys(U, vec) THEN Bad("WrongOrder") ELSE Got(v, q.rest)
          ELSE q
  BY DEF Deserialize, DecSet, AndThen, IsOk
<1>. HIDE DEF r
<1>3. ASSUME r.err = "none" PROVE KindBackAt(T, ser, rd, rc, o, cn, s, r)
  <2>. HIDE DEF q
  <2>1. q.err = "none" /\ (st => AscendingKeys(U, vec)) /\ r = Got(v, q.rest)
    BY <1>2, <1>3, BadIs
  <2>2. Back(U, dec[U], ser[U], rd[U], rc[U], cn)
    BY <1>1 DEF PartsBack
  <2>3. VecRead(U, ser, rd, rc, cn, s, q)
    BY <2>1, <2>2, VecBackRead DEF q
  <2>4. /\ q.rest \in Seq(Byte) /\ IsSeq(vec) /\ Len(vec) \in 0..MaxLen /\ ~ZeroSized[U]
        /\ \A i \in 1..Len(vec) : vec[i] \in Values[U] => Element(U, ser, rd, rc, vec[i])
    BY <2>3 DEF VecRead
  <2>. HIDE DEF vec
  <2>5. /\ Len(vec) \in Nat /\ \A i \in 1..Len(vec) : vec[i] \in v
        /\ \A x \in v : \E i \in 1..Len(vec) : x = vec[i]
    BY <2>4, SeqIs
  <2>. HIDE DEF v
  <2>6. ASSUME OfType(T, v)
        PROVE  /\ ReadableOf(T, rd, v) /\ ReceivedOf(T, rc, v) = v
               /\ Undone(cn, Serialize(T, ser, o, v), s, q.rest)
    <3>. DEFINE items == Ascending(U, v)
                n == Len(items)
                parts == PartsOfAll(U, ser, items)
    <3>1. Components(T, v) = {<<U, x>> : x \in v} /\ Few(v)
      BY <2>6 DEF Components, Simple, OfType, HasForm
    <3>2. \A x \in v : x \in Values[U]
      <4>. SUFFICES ASSUME NEW x \in v PROVE x \in Values[U]
        OBVIOUS
      <4>1. <<U, x>> \in Components(T, v)
        BY <3>1
      <4>. QED
        BY <2>6, <4>1 DEF OfType
    <3>3. \A i \in 1..Len(vec) : vec[i] \in Values[U] /\ Element(U, ser, rd, rc, vec[i])
      BY <2>4, <2>5, <3>2
    <3>4. \A x \in v : Element(U, ser, rd, rc, x)
      BY <2>5, <3>3
    <3>5. ReadableOf(T, rd, v)
      <4>1. \A c \in Components(T, v) : rd[c[1]][c[2]]
        <5>. SUFFICES ASSUME NEW c \in Components(T, v) PROVE rd[c[1]][c[2]]
          OBVIOUS
        <5>1. PICK x \in v : c = <<U, x>>
          BY <3>1
        <5>. QED
          BY <3>4, <5>1 DEF Element
      <4>. QED
        BY <4>1 DEF ReadableOf
    <3>6. ReceivedOf(T, rc, v) = v
      BY DEF ReceivedOf
    <3>7. /\ IsSeq(items) /\ n \in Nat /\ n <= Len(vec) /\ DOMAIN items = 1..n
          /\ \A i \in 1..n : \E j \in 1..Len(vec) : items[i] = vec[j]
          /\ AscendingKeys(U, vec) => items = vec
      BY <1>1, <2>4, <3>2, SetItems DEF v
    <3>8. Serialize(T, ser, o, v) = SerItems(U, parts)
      <4>1. v \in SUBSET Values[U]
        BY <3>2
      <4>2. Iterate(U, v, T.hash, o) = items
        BY <1>1, <3>1, <4>1, IterateIs
      <4>. QED
        BY <4>2 DEF Serialize, SerSet, PartsOfAll
    <3>. HIDE DEF items
    <3>9. CASE cn
      <4>1. items = vec
        BY <2>1, <3>7, <3>9
      <4>2. Len(parts) = Len(vec)
        <5>1. parts = [i \in 1..n |-> parts[i]]
          BY <3>7 DEF PartsOfAll
        <5>. HIDE DEF parts, n
        <5>2. Len(parts) = n
          BY <3>7, <5>1, FunctionIsSeq
        <5>. QED
          BY <4>1, <5>2 DEF n
      <4>3. Undone(cn, Then(SerLen(Len(parts)), InSequence(parts)), s, q.rest)
        BY <2>3, <3>3, <4>1, <4>2 DEF VecRead, vec
      <4>. HIDE DEF parts
      <4>4. Undone(cn, SerItems(U, parts), s, q.rest)
        BY <2>4, <4>3, ItemsUndone
      <4>. QED
        BY <3>5, <3>6, <3>8, <4>4
    <3>10. CASE ~cn
      <4>1. parts = [i \in 1..n |-> parts[i]] /\ \A i \in 1..n : parts[i] = ser[U][items[i]]
        BY <3>7 DEF PartsOfAll
      <4>2. \A i \in 1..n : IsEnc(parts[i]) /\ parts[i].err = "none"
        BY <3>3, <3>7, <4>1 DEF Element
      <4>3. n \in 0..MaxLen
        <5>1. MaxLen \in Int
          <6>1. LenBytes \in Nat
            BY WireAssumption
          <6>2. Pow[LenBytes] \in Nat
            BY <6>1, PowIs
          <6>. QED
            BY <6>2 DEF MaxLen
        <5>. QED
          BY <2>4, <2>5, <3>7, <5>1
      <4>. HIDE DEF parts, n
      <4>4. IsEnc(SerItems(U, parts)) /\ SerItems(U, parts).err = "none"
        BY <2>4, <3>7, <4>1, <4>2, <4>3, ItemsWritten
      <4>5. Undone(cn, SerItems(U, parts), s, q.rest)
        BY <3>10, <4>4 DEF Undone
      <4>. QED
        BY <3>5, <3>6, <3>8, <4>5
    <3>. QED
      BY <3>9, <3>10
  <2>7. KindBackAt(T, ser, rd, rc, o, cn, s, Got(v, q.rest))
    BY <2>4, <2>6, OwnBack
  <2>. QED
    BY <2>1, <2>7
<1>4. KindBackAt(T, ser, rd, rc, o, cn, s, r)
  BY <1>3, FailedBack
<1>. QED
  BY <1>4 DEF r

\* Numbers are in order.
LEMMA NumbersOrdered ==
    ASSUME NEW S \in SUBSET Nat, IsFiniteSet(S)
    PROVE  Ordering(S, {p \in S \X S : p[1] < p[2]})
<1>. DEFINE R == {p \in S \X S : p[1] < p[2]}
<1>1. \A x, y \in S : <<x, y>> \in R <=> x < y
  OBVIOUS
<1>. HIDE DEF R
<1>2. \A x \in S : <<x, x>> \notin R
  BY <1>1
<1>3. ASSUME NEW x \in S, NEW y \in S PROVE x = y \/ <<x, y>> \in R \/ <<y, x>> \in R
  <2>1. x = y \/ x < y \/ y < x
    OBVIOUS
  <2>. QED
    BY <1>1, <2>1
<1>4. ASSUME NEW x \in S, NEW y \in S, NEW z \in S, <<x, y>> \in R, <<y, z>> \in R PROVE <<x, z>> \in R
  <2>1. x < y /\ y < z /\ x \in Nat /\ y \in Nat /\ z \in Nat
    BY <1>1, <1>4
  <2>2. x < z
    BY <2>1
  <2>. QED
    BY <1>1, <2>2
<1>5. Ordering(S, R)
  BY <1>2, <1>3, <1>4 DEF Ordering
<1>. QED
  BY <1>5 DEF R

\* Some of the elements of a sequence, not more than it has.
SomeOf(t, s) ==
    /\ IsSeq(t) /\ Len(t) \in Nat /\ Len(t) <= Len(s) /\ DOMAIN t = 1..Len(t)
    /\ \A i \in 1..Len(t) : \E j \in 1..Len(s) : t[i] = s[j]

\* What an IndexSet keeps.
LEMMA FirstOnesOf == ASSUME NEW s, IsSeq(s) PROVE SomeOf(FirstOnes(s), s)
<1>. DEFINE n == Len(s)
            S == {i \in DOMAIN s : \A j \in 1..i - 1 : s[j] # s[i]}
            R == {p \in S \X S : p[1] < p[2]}
            places == InOrder(S, R)
            m == Cardinality(S)
            t == FirstOnes(s)
<1>1. n \in Nat /\ DOMAIN s = 1..n
  BY SeqIs
<1>2. t = [i \in DOMAIN places |-> s[places[i]]]
  BY DEF FirstOnes
<1>3. S \in SUBSET (1..n)
  BY <1>1
<1>. HIDE DEF S, n
<1>4. IsFiniteSet(1..n) /\ Cardinality(1..n) = n
  BY <1>1, IntervalSize
<1>5. IsFiniteSet(S) /\ m \in Nat /\ m <= n
  <2>1. IsFiniteSet(S) /\ m <= n
    BY <1>3, <1>4, FS_Subset
  <2>. QED
    BY <2>1, FS_CardinalityType
<1>6. Ordering(S, R)
  <2>1. S \in SUBSET Nat
    BY <1>1, <1>3
  <2>. QED
    BY <1>5, <2>1, NumbersOrdered
<1>. HIDE DEF R, m
<1>7. Sorted(places, m, S, R)
  BY <1>6, InOrderIs DEF m
<1>8. places \in [1..m -> S]
  BY <1>7 DEF Sorted
<1>. HIDE DEF places, t
<1>9. DOMAIN t = 1..m /\ t = [i \in 1..m |-> t[i]] /\ \A i \in 1..m : t[i] = s[places[i]] /\ places[i] \in 1..n
  BY <1>2, <1>3, <1>8
<1>10. IsSeq(t) /\ Len(t) = m
  BY <1>5, <1>9, FunctionIsSeq
<1>. QED
  BY <1>5, <1>9, <1>10 DEF SomeOf, t, n

\* A length counts up to a natural number.
LEMMA MaxLenIs == MaxLen \in Nat
<1>1. LenBytes \in Nat
  BY WireAssumption
<1>2. Pow[LenBytes] \in Nat \ {0}
  BY <1>1, PowIs
<1>. QED
  BY <1>2 DEF MaxLen

\* An IndexSet: the first of equal items is kept, in the order of arrival.
LEMMA IndexSetBack ==
    ASSUME NEW T \in Types, T.k = "indexset", NEW ser, NEW dec, NEW rd, NEW rc, NEW o, NEW st, NEW cn, ~cn,
           PartsBack(T, ser, dec, rd, rc, cn), AsByte(T.of, ser, rd, rc)
    PROVE  KindBack(T, ser, dec, rd, rc, o, st, cn)
<1>. SUFFICES ASSUME NEW s \in Seq(Byte) PROVE KindBackAt(T, ser, rd, rc, o, cn, s, Deserialize(T, dec, st, s))
  BY DEF KindBack
<1>. DEFINE U == T.of
            q == DecVec(U, dec, s)
            vec == q.val
            v == FirstOnes(vec)
            n == Len(v)
            r == Deserialize(T, dec, st, s)
<1>1. U \in PartsOf(T)
  BY DEF PartsOf, Single, Simple
<1>2. r = IF q.err = "none" THEN Got(v, q.rest) ELSE q
  BY DEF Deserialize, DecIndexSet, Map, IsOk
<1>. HIDE DEF r
<1>3. ASSUME r.err = "none" PROVE KindBackAt(T, ser, rd, rc, o, cn, s, r)
  <2>. HIDE DEF q
  <2>1. q.err = "none" /\ r = Got(v, q.rest)
    BY <1>2, <1>3
  <2>2. Back(U, dec[U], ser[U], rd[U], rc[U], cn)
    BY <1>1 DEF PartsBack
  <2>3. VecRead(U, ser, rd, rc, cn, s, q)
    BY <2>1, <2>2, VecBackRead DEF q
  <2>4. /\ q.rest \in Seq(Byte) /\ IsSeq(vec) /\ Len(vec) \in 0..MaxLen /\ ~ZeroSized[U]
        /\ \A i \in 1..Len(vec) : vec[i] \in Values[U] => Element(U, ser, rd, rc, vec[i])
    BY <2>3 DEF VecRead
  <2>. HIDE DEF vec
  <2>5. SomeOf(v, vec)
    BY <2>4, FirstOnesOf
  <2>. HIDE DEF v
  <2>6. Listed(U, ser, rd, rc, v) /\ IsSeq(v) /\ n \in Nat /\ n \in 0..MaxLen /\ DOMAIN v = 1..n
    <3>1. n \in Nat /\ n <= Len(vec) /\ Len(vec) <= MaxLen
      BY <2>4, <2>5, MaxLenIs DEF SomeOf
    <3>2. n \in 0..MaxLen
      BY <2>4, <3>1, MaxLenIs
    <3>3. Listed(U, ser, rd, rc, v)
      BY <2>4, <2>5 DEF SomeOf, Listed
    <3>. QED
      BY <2>5, <3>1, <3>2, <3>3 DEF SomeOf
  <2>7. ASSUME OfType(T, v)
        PROVE  /\ ReadableOf(T, rd, v) /\ ReceivedOf(T, rc, v) = v
               /\ Undone(cn, Serialize(T, ser, o, v), s, q.rest)
    <3>. DEFINE parts == PartsOfAll(U, ser, v)
    <3>1. Kept(T, rd, rc, v)
      <4>1. T.k \in {"vec", "slice", "array", "indexset"} /\ T.k # "slice"
        OBVIOUS
      <4>. QED
        BY <2>6, <2>7, <4>1, ListKept
    <3>2. Serialize(T, ser, o, v) = SerItems(U, parts)
      BY DEF Serialize, SerIndexSet, PartsOfAll
    <3>3. parts = [i \in 1..n |-> parts[i]] /\ \A i \in 1..n : parts[i] = ser[U][v[i]]
      BY <2>6 DEF PartsOfAll
    <3>. HIDE DEF parts
    <3>4. \A i \in 1..n : IsEnc(parts[i]) /\ parts[i].err = "none"
      BY <2>6, <3>1, <3>3 DEF Kept, Listed, Element
    <3>. HIDE DEF n
    <3>5. IsEnc(SerItems(U, parts)) /\ SerItems(U, parts).err = "none"
      BY <2>4, <2>6, <3>3, <3>4, ItemsWritten
    <3>. QED
      BY <3>1, <3>2, <3>5 DEF Undone, Kept
  <2>8. KindBackAt(T, ser, rd, rc, o, cn, s, Got(v, q.rest))
    BY <2>4, <2>7, OwnBack
  <2>. QED
    BY <2>1, <2>8
<1>4. KindBackAt(T, ser, rd, rc, o, cn, s, r)
  BY <1>3, FailedBack
<1>. QED
  BY <1>4 DEF r

\* The greatest of some positions is one of them.
LEMMA GreatestIs ==
    ASSUME NEW n \in Nat, NEW S \in SUBSET (1..n), S # {}
    PROVE  Max(S) \in S
<1>. DEFINE D == {m \in Nat : \E k \in S : m = n - k}
<1>1. \A k \in S : k \in Nat /\ k <= n
  OBVIOUS
<1>2. D \in SUBSET Nat /\ D # {}
  <2>1. PICK k \in S : TRUE
    OBVIOUS
  <2>2. n - k \in D
    BY <1>1, <2>1
  <2>. QED
    BY <2>2
<1>3. PICK m \in D : \A k \in D : m <= k
  <2>. HIDE DEF D
  <2>. QED
    BY <1>2, LeastNumber
<1>4. PICK g \in S : m = n - g
  BY <1>3
<1>5. ASSUME NEW k \in S PROVE g >= k
  <2>1. n - k \in D
    BY <1>1
  <2>2. m <= n - k
    BY <1>3, <2>1
  <2>. QED
    BY <1>1, <1>4, <2>2
<1>. QED
  BY <1>4, <1>5 DEF Max

\* The keys of the pairs.
LEMMA KeysAre ==
    ASSUME NEW pairs, IsSeq(pairs)
    PROVE  /\ IsSeq(KeysOf(pairs)) /\ Len(KeysOf(pairs)) = Len(pairs)
           /\ \A i \in 1..Len(pairs) : KeysOf(pairs)[i] = pairs[i][1]
<1>1. Len(pairs) \in Nat /\ DOMAIN pairs = 1..Len(pairs)
  BY SeqIs
<1>. DEFINE ks == KeysOf(pairs)
            n == Len(pairs)
<1>2. ks = [i \in 1..n |-> pairs[i][1]]
  BY <1>1 DEF KeysOf
<1>3. ks = [i \in 1..n |-> ks[i]] /\ \A i \in 1..n : ks[i] = pairs[i][1]
  BY <1>2
<1>. HIDE DEF ks, n
<1>4. IsSeq(ks) /\ Len(ks) = n
  BY <1>1, <1>3, FunctionIsSeq DEF n
<1>. QED
  BY <1>3, <1>4 DEF ks, n

\* What is collected are pairs that were read.
LEMMA LastValuesOf ==
    ASSUME NEW pairs, IsSeq(pairs)
    PROVE  LET v == LastValues(pairs)
           IN  /\ v = [x \in DOMAIN v |-> v[x]] /\ DOMAIN v = ToSet(KeysOf(pairs))
               /\ \A x \in DOMAIN v : \E j \in 1..Len(pairs) : pairs[j][1] = x /\ pairs[j][2] = v[x]
<1>. DEFINE n == Len(pairs)
            at(x) == {i \in DOMAIN pairs : pairs[i][1] = x}
            Q == ToSet(KeysOf(pairs))
            v == LastValues(pairs)
<1>1. n \in Nat /\ DOMAIN pairs = 1..n
  BY SeqIs
<1>2. v = [x \in Q |-> pairs[Max(at(x))][2]]
  BY Zenon DEF LastValues
<1>3. ASSUME NEW x \in Q PROVE \E j \in 1..n : pairs[j][1] = x /\ pairs[j][2] = v[x]
  <2>. DEFINE j == Max(at(x))
  <2>1. v[x] = pairs[j][2]
    BY <1>2, <1>3
  <2>2. at(x) # {} /\ at(x) \in SUBSET (1..n)
    <3>1. PICK i \in 1..Len(KeysOf(pairs)) : x = KeysOf(pairs)[i]
      BY <1>3, KeysAre, SeqIs
    <3>2. i \in 1..n /\ x = pairs[i][1]
      BY <3>1, KeysAre
    <3>3. i \in at(x)
      BY <1>1, <3>2
    <3>. QED
      BY <1>1, <3>3
  <2>3. j \in at(x)
    <3>. HIDE DEF at, n
    <3>. QED
      BY <1>1, <2>2, GreatestIs
  <2>4. j \in 1..n /\ pairs[j][1] = x
    <3>. HIDE DEF j
    <3>. QED
      BY <1>1, <2>3
  <2>. QED
    BY <2>1, <2>4
<1>4. DOMAIN v = Q /\ v = [x \in DOMAIN v |-> v[x]]
  <2>. HIDE DEF Q, at, v
  <2>. QED
    BY <1>2
<1>. HIDE DEF Q, v
<1>5. \A x \in DOMAIN v : \E j \in 1..n : pairs[j][1] = x /\ pairs[j][2] = v[x]
  BY <1>3, <1>4
<1>. QED
  BY <1>4, <1>5 DEF v, Q, n

\* An entry that was read from s, and the entry written.
IsEntry(T, p) == p[1] \in Values[T.key] /\ p[2] \in Values[T.of]
\* What is written for it.
EntrySer(T, ser, p) == SerPair(T, ser, p[1], p[2])
\* An entry that can be written, and arrives as it is.
Entry(T, ser, rd, rc, p) ==
    /\ rd[T.key][p[1]] /\ rd[T.of][p[2]] /\ rc[T.of][p[2]] = p[2]
    /\ IsEnc(EntrySer(T, ser, p)) /\ EntrySer(T, ser, p).err = "none"

\* An entry that was read is one, and is written as it was read.
EntryRead(T, ser, rd, rc, cn, s, p, q) ==
    /\ p = <<p[1], p[2]>> /\ q \in Seq(Byte)
    /\ IsEntry(T, p) => Entry(T, ser, rd, rc, p) /\ Undone(cn, EntrySer(T, ser, p), s, q)

\* The key and the value behind it.
LEMMA EntryBack ==
    ASSUME NEW T, T.key \in PartsOf(T), T.of \in PartsOf(T), NEW ser, NEW dec, NEW rd, NEW rc, NEW cn,
           PartsBack(T, ser, dec, rd, rc, cn), NEW s \in Seq(Byte), DecPair(T, dec)[s].err = "none"
    PROVE  LET r == DecPair(T, dec)[s]
           IN  r = Got(r.val, r.rest) /\ EntryRead(T, ser, rd, rc, cn, s, r.val, r.rest)
<1>. DEFINE K == T.key
            U == T.of
            a == dec[K][s]
            b == dec[U][a.rest]
            p == <<a.val, b.val>>
            r == DecPair(T, dec)[s]
<1>1. r = IF a.err = "none" THEN (IF b.err = "none" THEN Got(p, b.rest) ELSE b) ELSE a
  BY DEF DecPair, AndThen, Map, IsOk
<1>2. a.err = "none" /\ b.err = "none" /\ r = Got(p, b.rest)
  <2>. HIDE DEF a, b, p
  <2>. QED
    BY <1>1
<1>. HIDE DEF r
<1>3. Part(K, ser, rd, rc, cn, s, a)
  BY <1>2, PartIs
<1>4. a.rest \in Seq(Byte)
  BY <1>3 DEF Part
<1>5. Part(U, ser, rd, rc, cn, a.rest, b)
  BY <1>2, <1>4, PartIs
<1>. HIDE DEF a, b, K, U
<1>6. b.rest \in Seq(Byte) /\ r.val = p /\ r.rest = b.rest
  BY <1>2, <1>5, GotIs DEF Part
<1>7. p[1] = a.val /\ p[2] = b.val /\ p = <<p[1], p[2]>>
  OBVIOUS
<1>. HIDE DEF p
<1>8. ASSUME IsEntry(T, p) PROVE Entry(T, ser, rd, rc, p) /\ Undone(cn, EntrySer(T, ser, p), s, b.rest)
  <2>1. a.val \in Values[K] /\ b.val \in Values[U]
    BY <1>7, <1>8 DEF IsEntry, K, U
  <2>2. /\ rd[K][a.val] /\ Undone(cn, ser[K][a.val], s, a.rest)
        /\ rd[U][b.val] /\ rc[U][b.val] = b.val /\ Undone(cn, ser[U][b.val], a.rest, b.rest)
    BY <1>3, <1>5, <2>1, PartSame
  <2>3. EntrySer(T, ser, p) = Then(ser[K][a.val], ser[U][b.val])
    BY <1>7 DEF EntrySer, SerPair, K, U
  <2>4. Undone(cn, EntrySer(T, ser, p), s, b.rest)
    BY <1>4, <1>6, <2>2, <2>3, UndoneBoth
  <2>. QED
    BY <1>7, <2>2, <2>4 DEF Entry, Undone, K, U
<1>9. r = Got(r.val, r.rest)
  BY <1>2, <1>6
<1>. QED
  BY <1>6, <1>7, <1>8, <1>9 DEF EntryRead, r

\* What is written for the pairs ps.
EntryParts(T, ser, ps) == [i \in 1..Len(ps) |-> EntrySer(T, ser, ps[i])]

\* The entries of a map that were read from s.
EntriesRead(T, ser, rd, rc, cn, s, r) ==
    /\ r.rest \in Seq(Byte) /\ IsSeq(r.val) /\ Len(r.val) \in 0..MaxLen
    /\ \A i \in 1..Len(r.val) : IsEntry(T, r.val[i]) => Entry(T, ser, rd, rc, r.val[i])
    /\ (\A i \in 1..Len(r.val) : IsEntry(T, r.val[i])) =>
         Undone(cn, Then(SerLen(Len(r.val)), InSequence(EntryParts(T, ser, r.val))), s, r.rest)

\* The entries that the length counts.
LEMMA EntriesBack ==
    ASSUME NEW T, T.key \in PartsOf(T), T.of \in PartsOf(T), NEW ser, NEW dec, NEW rd, NEW rc, NEW cn,
           PartsBack(T, ser, dec, rd, rc, cn), NEW s \in Seq(Byte), DecPairs(T, dec, s).err = "none"
    PROVE  ~ZeroSized[T.key] /\ EntriesRead(T, ser, rd, rc, cn, s, DecPairs(T, dec, s))
<1>. DEFINE d == DecPair(T, dec)
            r == DecCounted(d, s)
            v == r.val
            n == Len(v)
<1>1. ~ZeroSized[T.key] /\ DecPairs(T, dec, s) = r /\ r.err = "none"
  BY BadIs DEF DecPairs, CheckedZst
<1>2. \A q \in Seq(Byte) : Proper(d, q)
  <2>. SUFFICES ASSUME NEW q \in Seq(Byte), d[q].err = "none"
                PROVE  d[q] = Got(d[q].val, d[q].rest) /\ d[q].rest \in Seq(Byte)
    BY DEF Proper
  <2>1. d[q] = Got(d[q].val, d[q].rest) /\ EntryRead(T, ser, rd, rc, cn, q, d[q].val, d[q].rest)
    BY EntryBack
  <2>. QED
    BY <2>1 DEF EntryRead
<1>. HIDE DEF d
<1>3. CountedRead(d, s, r)
  BY <1>1, <1>2, CountedBack
<1>. HIDE DEF r
<1>4. PICK at : Apart(d, v, at) /\ at[n] = r.rest /\ Undone(TRUE, SerLen(n), s, at[0])
  BY <1>3 DEF CountedRead
<1>5. r.rest \in Seq(Byte) /\ IsSeq(v) /\ n \in 0..MaxLen /\ n \in Nat
  BY <1>3, SeqIs DEF CountedRead
<1>. HIDE DEF v, n
<1>6. at \in [0..n -> Seq(Byte)]
  BY <1>4 DEF Apart, n
<1>7. ASSUME NEW i \in 1..n PROVE EntryRead(T, ser, rd, rc, cn, at[i - 1], v[i], at[i])
  <2>. DEFINE q == at[i - 1]
              m == at[i]
              p == v[i]
  <2>1. q \in Seq(Byte)
    <3>1. i - 1 \in 0..n
      BY <1>5
    <3>. QED
      BY <1>6, <3>1
  <2>2. d[q] = Got(p, m)
    BY <1>4 DEF Apart, n
  <2>. HIDE DEF q, m, p
  <2>3. d[q].err = "none" /\ d[q].val = p /\ d[q].rest = m
    BY <2>2, GotIs
  <2>4. EntryRead(T, ser, rd, rc, cn, q, d[q].val, d[q].rest)
    BY <2>1, <2>3, EntryBack DEF d
  <2>5. EntryRead(T, ser, rd, rc, cn, q, p, m)
    BY <2>3, <2>4
  <2>. QED
    BY <2>5 DEF q, m, p
<1>8. \A i \in 1..n : IsEntry(T, v[i]) => Entry(T, ser, rd, rc, v[i])
  BY <1>7 DEF EntryRead
<1>9. ASSUME \A i \in 1..n : IsEntry(T, v[i])
      PROVE  Undone(cn, Then(SerLen(n), InSequence(EntryParts(T, ser, v))), s, r.rest)
  <2>. DEFINE es == EntryParts(T, ser, v)
  <2>1. es = [i \in 1..n |-> es[i]] /\ \A i \in 1..n : es[i] = EntrySer(T, ser, v[i])
    BY DEF EntryParts, n
  <2>. HIDE DEF es
  <2>2. \A i \in 1..n : Undone(cn, EntrySer(T, ser, v[i]), at[i - 1], at[i])
    BY <1>7, <1>9 DEF EntryRead
  <2>3. \A i \in 1..n : Undone(cn, es[i], at[i - 1], at[i])
    BY <2>1, <2>2
  <2>4. Undone(cn, InSequence(es), at[0], at[n])
    BY <1>5, <1>6, <2>1, <2>3, UndoneEach
  <2>5. at[0] \in Seq(Byte)
    BY <1>5, <1>6
  <2>6. Undone(cn, SerLen(n), s, at[0])
    BY <1>4, <2>5, UndoneIf DEF n
  <2>7. at[n] = r.rest
    BY <1>4 DEF n
  <2>8. Undone(cn, Then(SerLen(n), InSequence(es)), s, r.rest)
    <3>. DEFINE l == SerLen(n)
                e == InSequence(es)
    <3>1. Undone(cn, l, s, at[0]) /\ Undone(cn, e, at[0], r.rest)
      BY <2>4, <2>6, <2>7
    <3>. HIDE DEF l, e
    <3>2. Undone(cn, Then(l, e), s, r.rest)
      BY <1>5, <2>5, <3>1, UndoneBoth
    <3>. QED
      BY <3>2 DEF l, e
  <2>. QED
    BY <2>8 DEF es
<1>10. EntriesRead(T, ser, rd, rc, cn, s, r)
  BY <1>5, <1>8, <1>9 DEF EntriesRead, v, n
<1>. QED
  BY <1>1, <1>10

\* Every entry of a map is one that was read.
Entries(T, ser, rd, rc, v) == \A x \in DOMAIN v : Entry(T, ser, rd, rc, <<x, v[x]>>)

\* The entries of a map are values, and stay what they are.
LEMMA MapKept ==
    ASSUME NEW T, T.k = "map", NEW ser, NEW rd, NEW rc, NEW v, v = [x \in DOMAIN v |-> v[x]], OfType(T, v)
    PROVE  /\ Few(DOMAIN v) /\ \A x \in DOMAIN v : IsEntry(T, <<x, v[x]>>)
           /\ Entries(T, ser, rd, rc, v) => ReadableOf(T, rd, v) /\ ReceivedOf(T, rc, v) = v
<1>1. Components(T, v) = {<<T.key, x>> : x \in DOMAIN v} \cup {<<T.of, v[x]>> : x \in DOMAIN v}
  BY DEF Components, Simple
<1>2. ASSUME NEW x \in DOMAIN v PROVE x \in Values[T.key] /\ v[x] \in Values[T.of]
  <2>1. <<T.key, x>> \in Components(T, v) /\ <<T.of, v[x]>> \in Components(T, v)
    BY <1>1
  <2>2. \A c \in Components(T, v) : c[2] \in Values[c[1]]
    BY DEF OfType
  <2>. QED
    BY <2>1, <2>2
<1>3. \A x, y : <<x, y>>[1] = x /\ <<x, y>>[2] = y
  OBVIOUS
<1>4. \A x \in DOMAIN v : IsEntry(T, <<x, v[x]>>)
  BY <1>2, <1>3 DEF IsEntry
<1>5. ASSUME Entries(T, ser, rd, rc, v)
      PROVE  ReadableOf(T, rd, v) /\ ReceivedOf(T, rc, v) = v
  <2>1. \A x \in DOMAIN v : rd[T.key][x] /\ rd[T.of][v[x]] /\ rc[T.of][v[x]] = v[x]
    BY <1>3, <1>5 DEF Entry, Entries
  <2>2. ReceivedOf(T, rc, v) = [x \in DOMAIN v |-> rc[T.of][v[x]]]
    BY DEF ReceivedOf
  <2>3. ReceivedOf(T, rc, v) = v
    BY <2>1, <2>2
  <2>4. ASSUME NEW c \in Components(T, v) PROVE rd[c[1]][c[2]]
    <3>1. \E x \in DOMAIN v : c = <<T.key, x>> \/ c = <<T.of, v[x]>>
      BY <1>1
    <3>. QED
      BY <2>1, <3>1
  <2>5. ReadableOf(T, rd, v)
    BY <2>4 DEF ReadableOf
  <2>. QED
    BY <2>3, <2>5
<1>6. Few(DOMAIN v)
  BY DEF OfType, HasForm
<1>. QED
  BY <1>4, <1>5, <1>6

\* What collect keeps of entries that were read.
LEMMA CollectedEntry ==
    ASSUME NEW T, NEW ser, NEW rd, NEW rc, NEW ps, IsSeq(ps),
           \A i \in 1..Len(ps) : IsEntry(T, ps[i]) => Entry(T, ser, rd, rc, ps[i]),
           NEW x \in DOMAIN LastValues(ps), IsEntry(T, <<x, LastValues(ps)[x]>>)
    PROVE  Entry(T, ser, rd, rc, <<x, LastValues(ps)[x]>>)
<1>. DEFINE y == LastValues(ps)[x]
            p == <<x, y>>
<1>1. PICK j \in 1..Len(ps) : ps[j][1] = x /\ ps[j][2] = y
  BY LastValuesOf
<1>. HIDE DEF y
<1>2. p[1] = x /\ p[2] = y
  OBVIOUS
<1>3. IsEntry(T, p)
  BY DEF y
<1>. HIDE DEF p
<1>4. IsEntry(T, ps[j])
  BY <1>1, <1>2, <1>3 DEF IsEntry
<1>5. Entry(T, ser, rd, rc, ps[j])
  BY <1>4
<1>6. EntrySer(T, ser, p) = EntrySer(T, ser, ps[j])
  BY <1>1, <1>2 DEF EntrySer
<1>7. Entry(T, ser, rd, rc, p)
  BY <1>1, <1>2, <1>5, <1>6 DEF Entry
<1>. QED
  BY <1>7 DEF p, y

\* No key is there twice: the entries are collected as they were read.
LEMMA StrictEntries ==
    ASSUME NEW T, NEW ps, IsSeq(ps), \A i, j \in 1..Len(ps) : ps[i][1] = ps[j][1] => i = j,
           \A x \in DOMAIN LastValues(ps) : IsEntry(T, <<x, LastValues(ps)[x]>>)
    PROVE  \A i \in 1..Len(ps) :
               /\ ps[i][1] \in DOMAIN LastValues(ps) /\ LastValues(ps)[ps[i][1]] = ps[i][2]
               /\ IsEntry(T, ps[i])
<1>. SUFFICES ASSUME NEW i \in 1..Len(ps)
              PROVE  /\ ps[i][1] \in DOMAIN LastValues(ps) /\ LastValues(ps)[ps[i][1]] = ps[i][2]
                     /\ IsEntry(T, ps[i])
  OBVIOUS
<1>. DEFINE v == LastValues(ps)
            x == ps[i][1]
            y == v[x]
            p == <<x, y>>
<1>1. x \in DOMAIN v
  <2>1. KeysOf(ps)[i] = x /\ IsSeq(KeysOf(ps)) /\ Len(KeysOf(ps)) = Len(ps)
    BY KeysAre
  <2>2. x \in ToSet(KeysOf(ps))
    BY <2>1, SeqIs
  <2>. QED
    BY <2>2, LastValuesOf
<1>2. PICK j \in 1..Len(ps) : ps[j][1] = x /\ ps[j][2] = y
  BY <1>1, LastValuesOf
<1>3. y = ps[i][2]
  BY <1>2
<1>4. IsEntry(T, p)
  BY <1>1
<1>5. p[1] = x /\ p[2] = y
  OBVIOUS
<1>. HIDE DEF p
<1>6. IsEntry(T, ps[i])
  BY <1>3, <1>4, <1>5 DEF IsEntry
<1>. QED
  BY <1>1, <1>3, <1>6

\* A map: its entries in the order of the keys.  The strict reader accepts no other
\* order and no key twice; of equal keys the lax one keeps the last value.
LEMMA MapBack ==
    ASSUME NEW T \in Types, T.k = "map", NEW ser, NEW dec, NEW rd, NEW rc, NEW o \in Orders, NEW st, NEW cn,
           cn => st, PartsBack(T, ser, dec, rd, rc, cn)
    PROVE  KindBack(T, ser, dec, rd, rc, o, st, cn)
<1>. SUFFICES ASSUME NEW s \in Seq(Byte) PROVE KindBackAt(T, ser, rd, rc, o, cn, s, Deserialize(T, dec, st, s))
  BY DEF KindBack
<1>. DEFINE K == T.key
            q == DecPairs(T, dec, s)
            ps == q.val
            ks == KeysOf(ps)
            v == LastValues(ps)
            r == Deserialize(T, dec, st, s)
<1>1. K \in PartsOf(T) /\ T.of \in PartsOf(T) /\ K \in Keys
  BY TypesAssumption DEF PartsOf, Single, Simple
<1>2. r = IF q.err = "none"
          THEN IF st /\ ~AscendingKeys(K, ks) THEN Bad("WrongOrder") ELSE Got(v, q.rest)
          ELSE q
  BY DEF Deserialize, DecMap, AndThen, IsOk
<1>. HIDE DEF r
<1>3. ASSUME r.err = "none" PROVE KindBackAt(T, ser, rd, rc, o, cn, s, r)
  <2>. HIDE DEF q
  <2>1. q.err = "none" /\ (st => AscendingKeys(K, ks)) /\ r = Got(v, q.rest)
    BY <1>2, <1>3, BadIs
  <2>2. ~ZeroSized[K] /\ EntriesRead(T, ser, rd, rc, cn, s, q)
    BY <1>1, <2>1, EntriesBack DEF q
  <2>3. /\ q.rest \in Seq(Byte) /\ IsSeq(ps) /\ Len(ps) \in 0..MaxLen /\ Len(ps) \in Nat
        /\ \A i \in 1..Len(ps) : IsEntry(T, ps[i]) => Entry(T, ser, rd, rc, ps[i])
    BY <2>2, SeqIs DEF EntriesRead
  <2>. HIDE DEF ps
  <2>4. /\ IsSeq(ks) /\ Len(ks) = Len(ps) /\ \A i \in 1..Len(ps) : ks[i] = ps[i][1]
        /\ v = [x \in DOMAIN v |-> v[x]] /\ DOMAIN v = ToSet(ks)
    BY <2>3, KeysAre, LastValuesOf
  <2>5. ASSUME OfType(T, v)
        PROVE  /\ ReadableOf(T, rd, v) /\ ReceivedOf(T, rc, v) = v
               /\ Undone(cn, Serialize(T, ser, o, v), s, q.rest)
    <3>. DEFINE D == DOMAIN v
                items == Ascending(K, D)
                n == Len(items)
                parts == [i \in 1..n |-> SerPair(T, ser, items[i], v[items[i]])]
    <3>0. v = [x \in DOMAIN v |-> v[x]]
      BY <2>4
    <3>1. Few(D) /\ \A x \in D : IsEntry(T, <<x, v[x]>>)
      <4>. HIDE DEF v
      <4>. QED
        BY <2>5, <3>0, MapKept
    <3>2. \A x \in D : Entry(T, ser, rd, rc, <<x, v[x]>>)
      BY <2>3, <3>1, CollectedEntry
    <3>3. ReadableOf(T, rd, v) /\ ReceivedOf(T, rc, v) = v
      <4>1. Entries(T, ser, rd, rc, v)
        BY <3>2 DEF Entries
      <4>. HIDE DEF v
      <4>. QED
        BY <2>5, <3>0, <4>1, MapKept
    <3>4. \A x, y : <<x, y>>[1] = x /\ <<x, y>>[2] = y
      OBVIOUS
    <3>5. \A x \in D : x \in Values[K]
      BY <3>1, <3>4 DEF IsEntry
    <3>6. /\ IsSeq(items) /\ n \in Nat /\ n <= Len(ks) /\ DOMAIN items = 1..n
          /\ \A i \in 1..n : \E j \in 1..Len(ks) : items[i] = ks[j]
          /\ AscendingKeys(K, ks) => items = ks
      BY <1>1, <2>4, <3>5, SetItems
    <3>7. Serialize(T, ser, o, v) = SerItems(K, parts)
      <4>1. D \in SUBSET Values[K]
        BY <3>5
      <4>2. Iterate(K, D, T.hash, o) = items
        BY <1>1, <3>1, <4>1, IterateIs
      <4>3. Serialize(T, ser, o, v) = SerMap(T, ser, o, v)
        BY DEF Serialize
      <4>4. SerMap(T, ser, o, v) = SerItems(K, [i \in DOMAIN items |-> SerPair(T, ser, items[i], v[items[i]])])
        BY <4>2 DEF SerMap
      <4>. QED
        BY <3>6, <4>3, <4>4
    <3>8. \A i \in 1..n : items[i] \in D
      BY <2>4, <3>6, SeqIs
    <3>. HIDE DEF items, v, ks
    <3>9. parts = [i \in 1..n |-> parts[i]] /\ \A i \in 1..n : parts[i] = SerPair(T, ser, items[i], v[items[i]])
      OBVIOUS
    <3>. HIDE DEF parts, n
    <3>10. Len(parts) = n
      BY <3>6, <3>9, FunctionIsSeq
    <3>11. CASE cn
      <4>1. AscendingKeys(K, ks) /\ items = ks /\ n = Len(ps)
        BY <2>1, <2>4, <3>6, <3>11 DEF n
      <4>2. \A i, j \in 1..Len(ps) : ps[i][1] = ps[j][1] => i = j
        <5>1. \A i \in 1..Len(ks) : ks[i] \in Values[K]
          BY <2>4, <3>5, SeqIs
        <5>2. \A i, j \in 1..Len(ks) : ks[i] = ks[j] => i = j
          BY <1>1, <2>4, <4>1, <5>1, StrictIs
        <5>. QED
          BY <2>4, <5>2
      <4>3. \A i \in 1..Len(ps) : v[ps[i][1]] = ps[i][2] /\ IsEntry(T, ps[i])
        <5>1. \A x \in DOMAIN LastValues(ps) : IsEntry(T, <<x, LastValues(ps)[x]>>)
          BY <3>1 DEF v
        <5>2. \A i \in 1..Len(ps) :
                 /\ ps[i][1] \in DOMAIN LastValues(ps) /\ LastValues(ps)[ps[i][1]] = ps[i][2]
                 /\ IsEntry(T, ps[i])
          BY <2>3, <4>2, <5>1, StrictEntries
        <5>. QED
          BY <5>2 DEF v
      <4>4. \A i \in 1..n : parts[i] = EntrySer(T, ser, ps[i])
        BY <2>4, <3>9, <4>1, <4>3 DEF EntrySer
      <4>5. parts = EntryParts(T, ser, ps)
        BY <3>9, <4>1, <4>4 DEF EntryParts
      <4>6. Undone(cn, Then(SerLen(Len(ps)), InSequence(EntryParts(T, ser, ps))), s, q.rest)
        BY <2>2, <4>3 DEF EntriesRead, ps
      <4>7. Undone(cn, Then(SerLen(Len(parts)), InSequence(parts)), s, q.rest)
        BY <3>10, <4>1, <4>5, <4>6
      <4>8. Undone(cn, SerItems(K, parts), s, q.rest)
        <5>. HIDE DEF K
        <5>. QED
          BY <2>2, <2>3, <4>7, ItemsUndone
      <4>. QED
        BY <3>3, <3>7, <4>8
    <3>12. CASE ~cn
      <4>1. \A i \in 1..n : Entry(T, ser, rd, rc, <<items[i], v[items[i]]>>)
        BY <3>2, <3>8
      <4>2. \A i \in 1..n : IsEnc(parts[i]) /\ parts[i].err = "none"
        BY <3>4, <3>9, <4>1 DEF Entry, EntrySer
      <4>3. n \in 0..MaxLen
        BY <2>3, <2>4, <3>6, MaxLenIs DEF n
      <4>4. n \in Nat
        BY <3>6 DEF n
      <4>. HIDE DEF K
      <4>5. IsEnc(SerItems(K, parts)) /\ SerItems(K, parts).err = "none"
        BY <2>2, <3>9, <4>2, <4>3, <4>4, ItemsWritten
      <4>6. Undone(cn, SerItems(K, parts), s, q.rest)
        BY <3>12, <4>5 DEF Undone
      <4>. QED
        BY <3>3, <3>7, <4>6
    <3>. QED
      BY <3>11, <3>12
  <2>. HIDE DEF v
  <2>6. KindBackAt(T, ser, rd, rc, o, cn, s, Got(v, q.rest))
    BY <2>3, <2>5, OwnBack
  <2>. QED
    BY <2>1, <2>6
<1>4. KindBackAt(T, ser, rd, rc, o, cn, s, r)
  BY <1>3, FailedBack
<1>. QED
  BY <1>4 DEF r

\* Every entry of an IndexMap is one that was read.
EntryList(T, ser, rd, rc, v) == \A i \in DOMAIN v : Entry(T, ser, rd, rc, v[i])

\* The entries of an IndexMap are values, and stay what they are.
LEMMA IndexMapKept ==
    ASSUME NEW T, T.k = "indexmap", NEW ser, NEW rd, NEW rc, NEW v, OfType(T, v)
    PROVE  /\ \A i \in DOMAIN v : IsEntry(T, v[i])
           /\ EntryList(T, ser, rd, rc, v) => ReadableOf(T, rd, v) /\ ReceivedOf(T, rc, v) = v
<1>1. IsSequence(v) /\ \A i \in DOMAIN v : IsPair(v[i])
  BY DEF OfType, HasForm
<1>2. v = [i \in DOMAIN v |-> v[i]] /\ \A i \in DOMAIN v : v[i] = <<v[i][1], v[i][2]>>
  BY <1>1 DEF IsSequence, IsFunction, IsPair
<1>3. Components(T, v) = {<<T.key, v[i][1]>> : i \in DOMAIN v} \cup {<<T.of, v[i][2]>> : i \in DOMAIN v}
  BY DEF Components, Simple
<1>4. ASSUME NEW i \in DOMAIN v PROVE IsEntry(T, v[i])
  <2>1. <<T.key, v[i][1]>> \in Components(T, v) /\ <<T.of, v[i][2]>> \in Components(T, v)
    BY <1>3
  <2>2. \A c \in Components(T, v) : c[2] \in Values[c[1]]
    BY DEF OfType
  <2>. QED
    BY <2>1, <2>2 DEF IsEntry
<1>5. ASSUME EntryList(T, ser, rd, rc, v)
      PROVE  ReadableOf(T, rd, v) /\ ReceivedOf(T, rc, v) = v
  <2>1. \A i \in DOMAIN v : rd[T.key][v[i][1]] /\ rd[T.of][v[i][2]] /\ rc[T.of][v[i][2]] = v[i][2]
    BY <1>5 DEF Entry, EntryList
  <2>2. ReceivedOf(T, rc, v) = [i \in DOMAIN v |-> <<v[i][1], rc[T.of][v[i][2]]>>]
    BY DEF ReceivedOf
  <2>3. \A i \in DOMAIN v : <<v[i][1], rc[T.of][v[i][2]]>> = v[i]
    BY <1>2, <2>1
  <2>4. ReceivedOf(T, rc, v) = v
    BY <1>2, <2>2, <2>3
  <2>5. ASSUME NEW c \in Components(T, v) PROVE rd[c[1]][c[2]]
    <3>1. \E i \in DOMAIN v : c = <<T.key, v[i][1]>> \/ c = <<T.of, v[i][2]>>
      BY <1>3
    <3>. QED
      BY <2>1, <3>1
  <2>6. ReadableOf(T, rd, v)
    BY <2>5 DEF ReadableOf
  <2>. QED
    BY <2>4, <2>6
<1>. QED
  BY <1>4, <1>5

\* An IndexMap: the first of equal keys is kept at its place, with the last value.
LEMMA IndexMapBack ==
    ASSUME NEW T \in Types, T.k = "indexmap", NEW ser, NEW dec, NEW rd, NEW rc, NEW o, NEW st, NEW cn, ~cn,
           PartsBack(T, ser, dec, rd, rc, cn)
    PROVE  KindBack(T, ser, dec, rd, rc, o, st, cn)
<1>. SUFFICES ASSUME NEW s \in Seq(Byte) PROVE KindBackAt(T, ser, rd, rc, o, cn, s, Deserialize(T, dec, st, s))
  BY DEF KindBack
<1>. DEFINE K == T.key
            q == DecPairs(T, dec, s)
            ps == q.val
            ks == KeysOf(ps)
            fs == FirstOnes(ks)
            lv == LastValues(ps)
            n == Len(fs)
            v == [i \in DOMAIN fs |-> <<fs[i], lv[fs[i]]>>]
            r == Deserialize(T, dec, st, s)
<1>1. K \in PartsOf(T) /\ T.of \in PartsOf(T)
  BY DEF PartsOf, Single, Simple
<1>2. r = IF q.err = "none" THEN Got(v, q.rest) ELSE q
  BY DEF Deserialize, DecIndexMap, Map, IsOk
<1>. HIDE DEF r
<1>3. ASSUME r.err = "none" PROVE KindBackAt(T, ser, rd, rc, o, cn, s, r)
  <2>. HIDE DEF q
  <2>1. q.err = "none" /\ r = Got(v, q.rest)
    BY <1>2, <1>3
  <2>2. ~ZeroSized[K] /\ EntriesRead(T, ser, rd, rc, cn, s, q)
    BY <1>1, <2>1, EntriesBack DEF q
  <2>3. /\ q.rest \in Seq(Byte) /\ IsSeq(ps) /\ Len(ps) \in 0..MaxLen /\ Len(ps) \in Nat
        /\ \A i \in 1..Len(ps) : IsEntry(T, ps[i]) => Entry(T, ser, rd, rc, ps[i])
    BY <2>2, SeqIs DEF EntriesRead
  <2>. HIDE DEF ps
  <2>4. IsSeq(ks) /\ Len(ks) = Len(ps) /\ DOMAIN lv = ToSet(ks)
    BY <2>3, KeysAre, LastValuesOf
  <2>. HIDE DEF ks, lv
  <2>5. SomeOf(fs, ks)
    BY <2>4, FirstOnesOf
  <2>. HIDE DEF fs
  <2>6. n \in Nat /\ n \in 0..MaxLen /\ DOMAIN fs = 1..n /\ \A i \in 1..n : fs[i] \in DOMAIN lv
    <3>1. n \in Nat /\ n <= Len(ps) /\ Len(ps) <= MaxLen /\ DOMAIN fs = 1..n
      BY <2>3, <2>4, <2>5, MaxLenIs DEF SomeOf
    <3>2. n \in 0..MaxLen
      BY <2>3, <3>1, MaxLenIs
    <3>3. \A i \in 1..n : fs[i] \in DOMAIN lv
      BY <2>4, <2>5, SeqIs DEF SomeOf
    <3>. QED
      BY <3>1, <3>2, <3>3
  <2>7. DOMAIN v = 1..n /\ \A i \in 1..n : v[i] = <<fs[i], lv[fs[i]]>>
    BY <2>6
  <2>. HIDE DEF v, n
  <2>8. ASSUME OfType(T, v)
        PROVE  /\ ReadableOf(T, rd, v) /\ ReceivedOf(T, rc, v) = v
               /\ Undone(cn, Serialize(T, ser, o, v), s, q.rest)
    <3>. DEFINE parts == [i \in 1..n |-> EntrySer(T, ser, v[i])]
    <3>1. \A i \in DOMAIN v : IsEntry(T, v[i])
      BY <2>8, IndexMapKept
    <3>2. \A i \in 1..n : Entry(T, ser, rd, rc, v[i])
      <4>. SUFFICES ASSUME NEW i \in 1..n PROVE Entry(T, ser, rd, rc, v[i])
        OBVIOUS
      <4>. DEFINE x == fs[i]
      <4>1. x \in DOMAIN lv /\ v[i] = <<x, lv[x]>> /\ IsEntry(T, v[i])
        BY <2>6, <2>7, <3>1
      <4>. HIDE DEF x
      <4>2. Entry(T, ser, rd, rc, <<x, lv[x]>>)
        <5>1. x \in DOMAIN LastValues(ps) /\ IsEntry(T, <<x, LastValues(ps)[x]>>)
          BY <4>1 DEF lv
        <5>2. Entry(T, ser, rd, rc, <<x, LastValues(ps)[x]>>)
          BY <2>3, <5>1, CollectedEntry
        <5>. QED
          BY <5>2 DEF lv
      <4>. QED
        BY <4>1, <4>2
    <3>3. ReadableOf(T, rd, v) /\ ReceivedOf(T, rc, v) = v
      <4>1. EntryList(T, ser, rd, rc, v)
        BY <2>7, <3>2 DEF EntryList
      <4>. QED
        BY <2>8, <4>1, IndexMapKept
    <3>4. Serialize(T, ser, o, v) = SerItems(K, parts)
      BY <2>7 DEF Serialize, SerIndexMap, EntrySer
    <3>5. parts = [i \in 1..n |-> parts[i]] /\ \A i \in 1..n : IsEnc(parts[i]) /\ parts[i].err = "none"
      BY <3>2 DEF Entry
    <3>. HIDE DEF parts, K
    <3>6. n \in Nat /\ n \in 0..MaxLen
      BY <2>6 DEF n
    <3>7. IsEnc(SerItems(K, parts)) /\ SerItems(K, parts).err = "none"
      BY <2>2, <3>5, <3>6, ItemsWritten
    <3>. QED
      BY <3>3, <3>4, <3>7 DEF Undone
  <2>9. KindBackAt(T, ser, rd, rc, o, cn, s, Got(v, q.rest))
    BY <2>3, <2>8, OwnBack
  <2>. QED
    BY <2>1, <2>9
<1>4. KindBackAt(T, ser, rd, rc, o, cn, s, r)
  BY <1>3, FailedBack
<1>. QED
  BY <1>4 DEF r

\* Indexed is a function of the parts of the type.
LEMMA IndexedIs == ASSUME NEW T \in Types PROVE Indexed[T] = IndexedRule(T, OfParts(Indexed, T))
<1>1. PICK h : Solves("indexed", h, Types)
  BY Solution
<1>. DEFINE body(g, U) == (U.k \in {"indexset", "indexmap"} \/ (U.k # "skip" /\ \E P \in PartsOf(U) : g[P]))
            eq(g) == g = [U \in Types |-> body(g, U)]
<1>2. \A g, U : IndexedRule(U, OfParts(g, U)) = body(g, U)
  <2>1. \A g, U : (\E P \in PartsOf(U) : OfParts(g, U)[P]) <=> \E P \in PartsOf(U) : g[P]
    BY DEF OfParts
  <2>. QED
    BY <2>1 DEF IndexedRule
<1>3. eq(h)
  BY <1>1, <1>2 DEF Solves, Rule
<1>4. Indexed = CHOOSE g : eq(g)
  BY DEF Indexed
<1>5. eq(Indexed)
  <2>. HIDE DEF eq
  <2>. QED
    BY <1>3, <1>4
<1>6. body(Indexed, T) = IndexedRule(T, OfParts(Indexed, T))
  BY <1>2
<1>. HIDE DEF body
<1>7. Indexed[T] = body(Indexed, T)
  BY <1>5
<1>. QED
  BY <1>6, <1>7

\* A decoder of T, strict or not, and what is written for a value that it gave.
Settles(T) ==
    \A o \in Orders : \A st \in BOOLEAN : \A cn \in BOOLEAN :
        (cn => st /\ ~Indexed[T]) =>
            Back(T, Dec[T][st], Ser[T][o], Readable[T], Received[T], cn)

\* The parts of T do, when their types do.
LEMMA PartsSettle ==
    ASSUME NEW T \in Types, \A U \in PartsOf(T) : Settles(U), NEW o \in Orders, NEW st \in BOOLEAN,
           NEW cn \in BOOLEAN, cn => st /\ ~Indexed[T], T.k # "skip"
    PROVE  /\ PartsBack(T, SerParts(T, o), DecParts(T, st), OfParts(Readable, T), OfParts(Received, T), cn)
           /\ \A U \in PartsOf(T) : AsByte(U, SerParts(T, o), OfParts(Readable, T), OfParts(Received, T))
           /\ T.k \in {"indexset", "indexmap"} => ~cn
<1>1. Indexed[T] = (T.k \in {"indexset", "indexmap"} \/ \E U \in PartsOf(T) : Indexed[U])
  <2>1. Indexed[T] = IndexedRule(T, OfParts(Indexed, T))
    BY IndexedIs
  <2>. QED
    BY <2>1 DEF IndexedRule, OfParts
<1>2. ASSUME NEW U \in PartsOf(T) PROVE cn => st /\ ~Indexed[U]
  BY <1>1
<1>3. ASSUME NEW U \in PartsOf(T)
      PROVE  /\ SerParts(T, o)[U] = Ser[U][o] /\ DecParts(T, st)[U] = Dec[U][st]
             /\ OfParts(Readable, T)[U] = Readable[U] /\ OfParts(Received, T)[U] = Received[U]
  BY DEF SerParts, DecParts, OfParts
<1>4. ASSUME NEW U \in PartsOf(T) PROVE Back(U, Dec[U][st], Ser[U][o], Readable[U], Received[U], cn)
  BY <1>2 DEF Settles
<1>5. PartsBack(T, SerParts(T, o), DecParts(T, st), OfParts(Readable, T), OfParts(Received, T), cn)
  BY <1>3, <1>4 DEF PartsBack
<1>6. ASSUME NEW U \in PartsOf(T) PROVE AsByte(U, SerParts(T, o), OfParts(Readable, T), OfParts(Received, T))
  <2>1. SUFFICES ASSUME U = U8, NEW x \in Values[U]
        PROVE  /\ x \in Byte /\ SerParts(T, o)[U][x] = OneChunk(<<x>>)
               /\ OfParts(Readable, T)[U][x] /\ OfParts(Received, T)[U][x] = x
    BY DEF AsByte
  <2>2. U8 \in Types /\ x \in Values[U8]
    BY <2>1, TypesAssumption
  <2>3. x \in Byte /\ Ser[U8][o][x] = OneChunk(<<x>>) /\ Readable[U8][x] /\ Received[U8][x] = x
    BY <2>2, PlainByte
  <2>. QED
    BY <1>3, <2>1, <2>3
<1>. QED
  BY <1>1, <1>5, <1>6

\* From the implementation of a kind to the functions over all types.
LEMMA BackStep ==
    ASSUME NEW T \in Types, NEW o \in Orders, NEW st, NEW cn,
           NEW ser, NEW dec, NEW rd, NEW rc, KindBack(T, ser, dec, rd, rc, o, st, cn),
           NEW d, \A s \in Seq(Byte) : d[s] = Deserialize(T, dec, st, s),
           NEW e, NEW ok, NEW w,
           \A x \in Values[T] : OfType(T, x) /\ e[x] = Serialize(T, ser, o, x)
                                /\ ok[x] = ReadableOf(T, rd, x) /\ w[x] = ReceivedOf(T, rc, x)
    PROVE  Back(T, d, e, ok, w, cn)
<1>. SUFFICES ASSUME NEW s \in Seq(Byte), d[s].err = "none"
              PROVE  /\ d[s] = Got(d[s].val, d[s].rest) /\ d[s].rest \in Seq(Byte)
                     /\ \A x \in Values[T] : BackAt(T, d[s], s, x, e[x], ok[x], w[x], cn)
  BY DEF Back, Proper
<1>. DEFINE r == d[s]
<1>1. KindBackAt(T, ser, rd, rc, o, cn, s, r)
  BY DEF KindBack
<1>. HIDE DEF r
<1>2. /\ r = Got(r.val, r.rest) /\ r.rest \in Seq(Byte)
      /\ \A x : OfType(T, x) =>
           BackAt(T, r, s, x, Serialize(T, ser, o, x), ReadableOf(T, rd, x), ReceivedOf(T, rc, x), cn)
  BY <1>1 DEF KindBackAt, r
<1>3. ASSUME NEW x \in Values[T] PROVE BackAt(T, r, s, x, e[x], ok[x], w[x], cn)
  <2>1. BackAt(T, r, s, x, Serialize(T, ser, o, x), ReadableOf(T, rd, x), ReceivedOf(T, rc, x), cn)
    BY <1>2
  <2>. QED
    BY <2>1
<1>. QED
  BY <1>2, <1>3 DEF r

\* A type settles when its parts do.
LEMMA SettlesStep == ASSUME NEW T \in Types, \A U \in PartsOf(T) : Settles(U) PROVE Settles(T)
<1>. SUFFICES ASSUME NEW o \in Orders, NEW st \in BOOLEAN, NEW cn \in BOOLEAN, cn => st /\ ~Indexed[T]
              PROVE  Back(T, Dec[T][st], Ser[T][o], Readable[T], Received[T], cn)
  BY DEF Settles
<1>. DEFINE ser == SerParts(T, o)
            dec == DecParts(T, st)
            rd == OfParts(Readable, T)
            rc == OfParts(Received, T)
<1>1. /\ \A x \in Values[T] : /\ Ser[T][o][x] = Serialize(T, ser, o, x)
                              /\ Received[T][x] = ReceivedOf(T, rc, x) /\ Readable[T][x] = ReadableOf(T, rd, x)
      /\ \A s \in Seq(Byte) : Dec[T][st][s] = Deserialize(T, dec, st, s)
  <2>1. ASSUME NEW x \in Values[T]
        PROVE  /\ Ser[T][o][x] = Serialize(T, ser, o, x)
               /\ Received[T][x] = ReceivedOf(T, rc, x) /\ Readable[T][x] = ReadableOf(T, rd, x)
    <3>. HIDE DEF Serialize, ReceivedOf, ReadableOf
    <3>. QED
      BY Unfolded
  <2>2. Dec[T][st] = DecOf(T, dec, st)
    BY Unfolded
  <2>3. ASSUME NEW s \in Seq(Byte) PROVE Dec[T][st][s] = Deserialize(T, dec, st, s)
    <3>1. DecOf(T, dec, st)[s] = Deserialize(T, dec, st, s)
      BY DEF DecOf
    <3>. QED
      BY <2>2, <3>1
  <2>. QED
    BY <2>1, <2>3
<1>2. \A x \in Values[T] : OfType(T, x)
  BY ComponentTypes DEF OfType
<1>3. T.k \in Kinds
  BY TypesAssumption
<1>4. KindBack(T, ser, dec, rd, rc, o, st, cn)
  <2>1. CASE T.k = "skip"
    BY <2>1, SkipBack
  <2>2. CASE T.k # "skip"
    <3>1. /\ PartsBack(T, ser, dec, rd, rc, cn) /\ \A U \in PartsOf(T) : AsByte(U, ser, rd, rc)
          /\ T.k \in {"indexset", "indexmap"} => ~cn
      BY <2>2, PartsSettle
    <3>. HIDE DEF ser, dec, rd, rc
    <3>2. T.k \in {"vec", "slice", "array", "set", "indexset"} => AsByte(T.of, ser, rd, rc)
      <4>1. T.k \in {"vec", "slice", "array", "set", "indexset"} => T.of \in PartsOf(T)
        BY DEF PartsOf, Simple, Single
      <4>. QED
        BY <3>1, <4>1
    <3>3. CASE T.k \in Simple
      BY <3>3, UintBack, IntBack, UsizeBack, IsizeBack, FloatBack, BoolBack, StringBack,
              ObjectIdBack DEF Simple
    <3>4. CASE T.k \in {"nonzero", "option", "refcell", "third", "result", "tuple", "struct", "enum"}
      BY <3>1, <3>4, NonzeroBack, OptionBack, RefCellBack, ThirdBack, ResultBack, TupleBack, StructBack, EnumBack
    <3>5. CASE T.k \in {"vec", "slice", "array"}
      BY <3>1, <3>2, <3>5, VecBack, ArrayBack
    <3>6. CASE T.k \in {"set", "map"}
      BY <3>1, <3>2, <3>6, SetBack, MapBack
    <3>7. CASE T.k \in {"indexset", "indexmap"}
      BY <3>1, <3>2, <3>7, IndexSetBack, IndexMapBack
    <3>. QED
      BY <1>3, <2>2, <3>3, <3>4, <3>5, <3>6, <3>7 DEF Kinds, Single
  <2>. QED
    BY <2>1, <2>2
<1>. HIDE DEF ser, dec, rd, rc
<1>. QED
  BY <1>1, <1>2, <1>4, BackStep

\* Whatever bytes a decoder of any type accepts, what it gave is a value that can be
\* written and arrives as it is; and if the decoder is strict and the type holds no
\* IndexSet or IndexMap, it is written as the very bytes it was read from.
THEOREM AllSettle == \A T \in Types : Settles(T)
<1>. DEFINE S == {T \in Types : Settles(T)}
<1>1. ASSUME NEW T \in Types, PartsOf(T) \subseteq S PROVE T \in S
  BY <1>1, SettlesStep
<1>2. S \in SUBSET Types
  OBVIOUS
<1>. HIDE DEF S
<1>3. S = Types
  BY <1>1, <1>2, TypesInduction
<1>. QED
  BY <1>3 DEF S
=============================================================================
