---------------------------- MODULE DeriveProofs ----------------------------
(***************************************************************************)
(* Proofs about Derive, for every program.  First what recursive functions *)
(* on numbers and on types are, and what is in a sequence that is picked   *)
(* from, appended to or flattened; then the invariant IInv of the macros,  *)
(* a lemma for each of their steps, and what follows when all is done: the *)
(* derives agree, nothing is ignored, the structs of variants compile.     *)
(***************************************************************************)
EXTENDS Derive, SequenceTheorems, FiniteSetTheorems, WellFoundedInduction, TLAPS

-----------------------------------------------------------------------------
(* Recursive functions on an initial part of Nat.                          *)

\* Every set of natural numbers has a least one.
LEMMA LeastNumber ==
    ASSUME NEW T \in SUBSET Nat, T # {}
    PROVE  \E m \in T : \A k \in T : m <= k
<1>. DEFINE R == {ss \in Nat \X Nat : ss[1] < ss[2]}
<1>1. R = OpToRel(<, Nat)
  BY DEF OpToRel
<1>2. IsWellFoundedOn(R, Nat)
  BY <1>1, NatLessThanWellFounded
<1>3. \E m \in T : \A k \in T : ~(<<k, m>> \in R)
  <2>. HIDE DEF R
  <2>. QED BY <1>2, WFMin
<1>4. PICK m \in T : \A k \in T : ~(<<k, m>> \in R)
  BY <1>3
<1>5. ASSUME NEW k \in T PROVE m <= k
  <2>1. <<k, m>> \in Nat \X Nat /\ <<k, m>>[1] = k /\ <<k, m>>[2] = m
    OBVIOUS
  <2>2. ~(k < m)
    BY <1>4, <2>1
  <2>. QED
    BY <2>2
<1>. QED
  BY <1>5

\* What holds at 0 and is passed on to the next holds up to n.
LEMMA UpTo ==
    ASSUME NEW n \in Nat, NEW T \in SUBSET (0..n), 0 \in T,
           \A i \in 0..n : i > 0 /\ i - 1 \in T => i \in T
    PROVE  T = 0..n
<1>. DEFINE U == (0..n) \ T
<1>1. SUFFICES ASSUME U # {} PROVE FALSE
  OBVIOUS
<1>2. PICK m \in U : \A k \in U : m <= k
  <2>. U \in SUBSET Nat
    OBVIOUS
  <2>. HIDE DEF U
  <2>. QED
    BY <1>1, LeastNumber
<1>3. m - 1 \in T
  BY <1>2
<1>. QED
  BY <1>2, <1>3

Steps(f, n, base, step) == f[0] = base /\ \A i \in 1..n : f[i] = step[i][f[i - 1]]

\* A function may be defined by its value at 0 and a step.
LEMMA PrefixRecursion ==
    ASSUME NEW V, NEW base \in V, NEW n \in Nat, NEW step \in [0..n -> [V -> V]]
    PROVE  \E f \in [0..n -> V] : Steps(f, n, base, step)
<1>. DEFINE Upto(m, f) == f[0] = base /\ \A i \in 1..m : f[i] = step[i][f[i - 1]]
<1>. DEFINE T == {m \in 0..n : \E f \in [0..m -> V] : Upto(m, f)}
<1>1. 0 \in T
  <2>. DEFINE g == [i \in 0..0 |-> base]
  <2>1. g \in [0..0 -> V] /\ g[0] = base /\ 0 \in 0..n
    OBVIOUS
  <2>2. \A i \in 1..0 : g[i] = step[i][g[i - 1]]
    OBVIOUS
  <2>. HIDE DEF g
  <2>. QED
    BY <2>1, <2>2
<1>2. ASSUME NEW m \in 0..n, m > 0, m - 1 \in T PROVE m \in T
  <2>1. PICK f \in [0..(m - 1) -> V] : Upto(m - 1, f)
    BY <1>2
  <2>. DEFINE g == [i \in 0..m |-> IF i < m THEN f[i] ELSE step[m][f[m - 1]]]
  <2>2. f[m - 1] \in V /\ step[m][f[m - 1]] \in V
    BY <1>2
  <2>3. g \in [0..m -> V]
    BY <2>2
  <2>4. g[0] = base
    BY <1>2, <2>1
  <2>5. ASSUME NEW i \in 1..m PROVE g[i] = step[i][g[i - 1]]
    <3>1. CASE i < m
      BY <2>1, <3>1
    <3>2. CASE i = m
      BY <1>2, <3>2
    <3>. QED
      BY <3>1, <3>2
  <2>. QED
    BY <2>3, <2>4, <2>5
<1>3. T = 0..n
  <2>. HIDE DEF T
  <2>1. T \subseteq 0..n
    BY DEF T
  <2>. QED
    BY <1>1, <1>2, <2>1, UpTo
<1>. QED
  BY <1>3 DEF Steps

-----------------------------------------------------------------------------
(* Sequences.                                                              *)

\* A sequence is one of its elements.
LEMMA AsSeq ==
    ASSUME NEW V, NEW s \in Seq(V)
    PROVE  /\ IsSeq(s) /\ ToSet(s) \subseteq V
           /\ Len(s) \in Nat /\ DOMAIN s = 1..Len(s) /\ \A i \in 1..Len(s) : s[i] \in V
<1>1. /\ Len(s) \in Nat /\ DOMAIN s = 1..Len(s) /\ s \in [1..Len(s) -> V]
      /\ \A i \in 1..Len(s) : s[i] \in V
  BY LenProperties
<1>2. s \in [1..Len(s) -> ToSet(s)]
  BY <1>1 DEF ToSet
<1>3. s \in Seq(ToSet(s))
  BY <1>1, <1>2, IsASeq
<1>. QED
  BY <1>1, <1>3 DEF IsSeq, ToSet

\* The elements of a sequence are at its places.
LEMMA SeqIs ==
    ASSUME NEW s, IsSeq(s)
    PROVE  /\ Len(s) \in Nat /\ DOMAIN s = 1..Len(s)
           /\ \A i \in 1..Len(s) : s[i] \in ToSet(s)
           /\ \A x \in ToSet(s) : \E i \in 1..Len(s) : x = s[i]
<1>1. s \in Seq(ToSet(s))
  BY DEF IsSeq
<1>2. DOMAIN s = 1..Len(s) /\ Len(s) \in Nat
  BY <1>1, LenProperties
<1>. QED
  BY <1>2 DEF ToSet

\* One more element.
LEMMA AppendIs ==
    ASSUME NEW s, IsSeq(s), NEW x
    PROVE  /\ IsSeq(Append(s, x)) /\ ToSet(Append(s, x)) = ToSet(s) \cup {x}
           /\ Len(Append(s, x)) = Len(s) + 1
           /\ \A i \in 1..Len(s) : Append(s, x)[i] = s[i]
           /\ Append(s, x)[Len(s) + 1] = x
<1>. DEFINE V == ToSet(s) \cup {x}
            t == Append(s, x)
<1>1. s \in Seq(V) /\ x \in V
  BY SeqMonotonic DEF IsSeq
<1>2. /\ t \in Seq(V) /\ Len(t) = Len(s) + 1
      /\ \A i \in 1..Len(s) : t[i] = s[i]
      /\ t[Len(s) + 1] = x
  <2>. HIDE DEF V
  <2>. QED
    BY <1>1, AppendProperties
<1>3. IsSeq(t) /\ ToSet(t) \subseteq V /\ DOMAIN t = 1..Len(t)
  <2>. HIDE DEF V, t
  <2>. QED
    BY <1>2, AsSeq
<1>4. ToSet(s) \subseteq ToSet(t)
  <2>1. ASSUME NEW y \in ToSet(s) PROVE y \in ToSet(t)
    <3>1. PICK i \in 1..Len(s) : y = s[i] /\ Len(s) \in Nat
      BY SeqIs
    <3>2. i \in DOMAIN t /\ t[i] = y
      <4>. HIDE DEF t
      <4>. QED
        BY <1>2, <1>3, <3>1
    <3>. QED
      BY <3>2 DEF ToSet
  <2>. QED
    BY <2>1
<1>5. x \in ToSet(t)
  <2>1. Len(s) \in Nat
    BY SeqIs
  <2>2. Len(s) + 1 \in DOMAIN t
    <3>. HIDE DEF t
    <3>. QED
      BY <1>2, <1>3, <2>1
  <2>. QED
    BY <1>2, <2>2 DEF ToSet
<1>. QED
  BY <1>2, <1>3, <1>4, <1>5

\* One sequence behind another.
LEMMA ConcatIs ==
    ASSUME NEW s, IsSeq(s), NEW t, IsSeq(t)
    PROVE  /\ IsSeq(s \o t) /\ ToSet(s \o t) = ToSet(s) \cup ToSet(t)
           /\ Len(s \o t) = Len(s) + Len(t)
           /\ \A i \in 1..Len(s) : (s \o t)[i] = s[i]
           /\ \A i \in 1..Len(t) : (s \o t)[Len(s) + i] = t[i]
<1>. DEFINE V == ToSet(s) \cup ToSet(t)
            c == s \o t
<1>1. s \in Seq(V) /\ t \in Seq(V) /\ Len(s) \in Nat /\ Len(t) \in Nat
  BY SeqMonotonic, SeqIs DEF IsSeq
<1>2. /\ c \in Seq(V) /\ Len(c) = Len(s) + Len(t)
      /\ \A i \in 1..(Len(s) + Len(t)) : c[i] = IF i <= Len(s) THEN s[i] ELSE t[i - Len(s)]
  <2>. HIDE DEF V
  <2>. QED
    BY <1>1, ConcatProperties
<1>3. IsSeq(c) /\ ToSet(c) \subseteq V /\ DOMAIN c = 1..Len(c)
  <2>. HIDE DEF V, c
  <2>. QED
    BY <1>2, AsSeq
<1>4. /\ \A i \in 1..Len(s) : c[i] = s[i] /\ i \in DOMAIN c
      /\ \A i \in 1..Len(t) : c[Len(s) + i] = t[i] /\ Len(s) + i \in DOMAIN c
  <2>. HIDE DEF c, V
  <2>. QED
    BY <1>1, <1>2, <1>3
<1>5. V \subseteq ToSet(c)
  <2>1. ASSUME NEW y \in ToSet(s) PROVE y \in ToSet(c)
    <3>1. PICK i \in 1..Len(s) : y = s[i]
      BY SeqIs
    <3>. QED
      BY <1>4, <3>1 DEF ToSet
  <2>2. ASSUME NEW y \in ToSet(t) PROVE y \in ToSet(c)
    <3>1. PICK i \in 1..Len(t) : y = t[i]
      BY SeqIs
    <3>. QED
      BY <1>4, <3>1 DEF ToSet
  <2>. QED
    BY <2>1, <2>2
<1>. QED
  BY <1>2, <1>3, <1>4, <1>5
\* f[n] is what is picked of the first n elements.
IsPicks(s, places, f) ==
    /\ f \in [0..Len(s) -> Seq(ToSet(s))] /\ f[0] = <<>>
    /\ \A n \in 1..Len(s) : f[n] = IF n \in places THEN Append(f[n - 1], s[n]) ELSE f[n - 1]

Picks(s, places) == CHOOSE f : IsPicks(s, places, f)

\* What is picked is determined by its equation, and by the places there are.
LEMMA PicksUnique ==
    ASSUME NEW s, IsSeq(s), NEW I, NEW J, I \cap (1..Len(s)) = J \cap (1..Len(s)),
           NEW f, IsPicks(s, I, f), NEW g, IsPicks(s, J, g)
    PROVE  f = g
<1>. DEFINE T == {i \in 0..Len(s) : f[i] = g[i]}
<1>0. Len(s) \in Nat
  BY SeqIs
<1>1. T = 0..Len(s)
  <2>1. 0 \in T
    BY <1>0 DEF IsPicks
  <2>2. ASSUME NEW i \in 0..Len(s), i > 0, i - 1 \in T PROVE i \in T
    <3>1. i \in 1..Len(s) /\ (i \in I <=> i \in J)
      BY <1>0, <2>2
    <3>. QED
      BY <2>2, <3>1 DEF IsPicks
  <2>3. T \in SUBSET (0..Len(s))
    OBVIOUS
  <2>. HIDE DEF T
  <2>. QED
    BY <1>0, <2>1, <2>2, <2>3, UpTo
<1>. QED
  BY <1>1 DEF IsPicks

\* There is such a function, and Picked is its last value.
LEMMA PicksExist ==
    ASSUME NEW s, IsSeq(s), NEW places
    PROVE  /\ IsPicks(s, places, Picks(s, places))
           /\ Picked(s, places) = Picks(s, places)[Len(s)]
<1>. DEFINE n == Len(s)
            V == Seq(ToSet(s))
            step == [i \in 0..n |-> [q \in V |-> IF i \in places /\ i # 0 THEN Append(q, s[i]) ELSE q]]
            Body(f) == [i \in 0..n |-> IF i = 0 THEN <<>>
                                       ELSE IF i \in places THEN Append(f[i - 1], s[i]) ELSE f[i - 1]]
<1>1. n \in Nat /\ <<>> \in V /\ \A i \in 1..n : s[i] \in ToSet(s)
  BY SeqIs, EmptySeq
<1>2. step \in [0..n -> [V -> V]]
  <2>1. ASSUME NEW i \in 0..n, NEW q \in V, i \in places, i # 0 PROVE Append(q, s[i]) \in V
    <3>1. s[i] \in ToSet(s)
      BY <1>1, <2>1
    <3>. QED
      BY <3>1, AppendProperties
  <2>. QED
    BY <2>1
<1>3. PICK f \in [0..n -> V] : f[0] = <<>> /\ \A i \in 1..n : f[i] = step[i][f[i - 1]]
  <2>. DEFINE base == <<>>
  <2>1. base \in V
    BY <1>1
  <2>. HIDE DEF step, n, base, V
  <2>2. \E f \in [0..n -> V] : Steps(f, n, base, step)
    BY <1>1, <1>2, <2>1, PrefixRecursion
  <2>. QED
    BY <2>2 DEF base, Steps
<1>4. IsPicks(s, places, f)
  <2>1. ASSUME NEW i \in 1..n PROVE f[i] = IF i \in places THEN Append(f[i - 1], s[i]) ELSE f[i - 1]
    <3>1. i - 1 \in 0..n /\ i \in 0..n /\ i # 0
      BY <1>1
    <3>2. f[i] = step[i][f[i - 1]] /\ f[i - 1] \in V
      <4>. HIDE DEF step, n, V
      <4>. QED
        BY <1>3, <3>1
    <3>. QED
      BY <3>1, <3>2
  <2>. QED
    BY <1>3, <2>1 DEF IsPicks
<1>5. f = Body(f)
  <2>1. f[0] = <<>> /\ f = [i \in 0..n |-> f[i]]
    BY <1>4 DEF IsPicks
  <2>2. ASSUME NEW i \in 0..n, i # 0
        PROVE  f[i] = IF i \in places THEN Append(f[i - 1], s[i]) ELSE f[i - 1]
    <3>1. i \in 1..Len(s)
      BY <1>1, <2>2
    <3>. QED
      BY <1>4, <3>1 DEF IsPicks
  <2>3. ASSUME NEW i \in 0..n PROVE f[i] = Body(f)[i]
    <3>1. CASE i = 0
      BY <2>1, <3>1
    <3>2. CASE i # 0
      BY <2>2, <3>2
    <3>. QED
      BY <3>1, <3>2
  <2>. QED
    BY <2>1, <2>3
<1>6. ASSUME NEW g, g = Body(g) PROVE IsPicks(s, places, g)
  <2>. DEFINE T == {i \in 0..n : g[i] \in V}
  <2>1. /\ g[0] = <<>>
        /\ \A i \in 1..n : g[i] = IF i \in places THEN Append(g[i - 1], s[i]) ELSE g[i - 1]
    <3>1. \A i \in 0..n : g[i] = Body(g)[i]
      BY <1>6
    <3>. QED
      BY <1>1, <3>1
  <2>2. T = 0..n
    <3>1. 0 \in T
      <4>. HIDE DEF V
      <4>. QED
        BY <1>1, <2>1
    <3>2. ASSUME NEW i \in 0..n, i > 0, i - 1 \in T PROVE i \in T
      <4>1. g[i - 1] \in V /\ i \in 1..n /\ s[i] \in ToSet(s)
        BY <1>1, <3>2
      <4>2. Append(g[i - 1], s[i]) \in V
        BY <4>1, AppendProperties
      <4>. QED
        BY <2>1, <4>1, <4>2
    <3>3. T \in SUBSET (0..n)
      OBVIOUS
    <3>. HIDE DEF T, n
    <3>. QED
      BY <1>1, <3>1, <3>2, <3>3, UpTo
  <2>3. g \in [0..n -> V]
    <3>1. DOMAIN Body(g) = 0..n /\ Body(g) = [i \in 0..n |-> Body(g)[i]]
      OBVIOUS
    <3>2. DOMAIN g = 0..n /\ g = [i \in 0..n |-> g[i]]
      BY <1>6, <3>1
    <3>. QED
      BY <2>2, <3>2
  <2>. QED
    BY <2>1, <2>3 DEF IsPicks
<1>7. IsPicks(s, places, Picks(s, places))
  BY <1>4 DEF Picks
<1>8. Picked(s, places) = (CHOOSE g : g = Body(g))[n]
  BY DEF Picked
<1>9. (CHOOSE g : g = Body(g)) = Picks(s, places)
  <2>. HIDE DEF Body
  <2>1. (CHOOSE g : g = Body(g)) = Body(CHOOSE g : g = Body(g))
    BY <1>5
  <2>. QED
    BY <1>6, <1>7, <2>1, PicksUnique
<1>. QED
  BY <1>7, <1>8, <1>9

\* Places at which there is nothing make no difference.
LEMMA PickedSame ==
    ASSUME NEW s, IsSeq(s), NEW I, NEW J, I \cap (1..Len(s)) = J \cap (1..Len(s))
    PROVE  Picked(s, I) = Picked(s, J)
BY PicksExist, PicksUnique

\* One more element is picked, or not.
LEMMA PickedAppend ==
    ASSUME NEW s, IsSeq(s), NEW x, NEW places
    PROVE  Picked(Append(s, x), places) =
               IF Len(s) + 1 \in places THEN Append(Picked(s, places), x) ELSE Picked(s, places)
<1>. DEFINE t == Append(s, x)
            f == Picks(s, places)
            g == Picks(t, places)
            T == {i \in 0..Len(s) : f[i] = g[i]}
<1>1. /\ IsSeq(t) /\ Len(t) = Len(s) + 1 /\ t[Len(s) + 1] = x /\ Len(s) \in Nat
      /\ \A i \in 1..Len(s) : t[i] = s[i]
  BY SeqIs, AppendIs
<1>2. /\ IsPicks(s, places, f) /\ Picked(s, places) = f[Len(s)]
      /\ IsPicks(t, places, g) /\ Picked(t, places) = g[Len(t)]
  <2>. HIDE DEF t
  <2>. QED
    BY <1>1, PicksExist
<1>. HIDE DEF t, f, g
<1>3. T = 0..Len(s)
  <2>1. 0 \in T
    BY <1>1, <1>2 DEF IsPicks
  <2>2. ASSUME NEW i \in 0..Len(s), i > 0, i - 1 \in T PROVE i \in T
    <3>1. i \in 1..Len(s) /\ i \in 1..Len(t)
      BY <1>1, <2>2
    <3>. QED
      BY <1>1, <1>2, <2>2, <3>1 DEF IsPicks
  <2>3. T \in SUBSET (0..Len(s))
    OBVIOUS
  <2>. HIDE DEF T
  <2>. QED
    BY <1>1, <2>1, <2>2, <2>3, UpTo
<1>4. f[Len(s)] = g[Len(s)] /\ Len(s) + 1 \in 1..Len(t) /\ (Len(s) + 1) - 1 = Len(s)
  BY <1>1, <1>3
<1>. QED
  BY <1>1, <1>2, <1>4 DEF IsPicks, t

\* What is picked are the elements at the places.
LEMMA PickedIs ==
    ASSUME NEW s, IsSeq(s), NEW places
    PROVE  /\ IsSeq(Picked(s, places))
           /\ ToSet(Picked(s, places)) = {s[i] : i \in places \cap (1..Len(s))}
<1>. DEFINE f == Picks(s, places)
            T == {n \in 0..Len(s) : ToSet(f[n]) = {s[i] : i \in places \cap (1..n)}}
<1>1. IsPicks(s, places, f) /\ Picked(s, places) = f[Len(s)] /\ Len(s) \in Nat
  BY PicksExist, SeqIs
<1>. HIDE DEF f
<1>2. \A n \in 0..Len(s) : IsSeq(f[n])
  BY <1>1, AsSeq DEF IsPicks
<1>3. T = 0..Len(s)
  <2>1. 0 \in T
    BY <1>1 DEF IsPicks, ToSet
  <2>2. ASSUME NEW n \in 0..Len(s), n > 0, n - 1 \in T PROVE n \in T
    <3>1. n \in 1..Len(s) /\ n - 1 \in 0..Len(s) /\ 1..n = (1..(n - 1)) \cup {n}
      BY <1>1, <2>2
    <3>2. ToSet(f[n - 1]) = {s[i] : i \in places \cap (1..(n - 1))}
      BY <2>2
    <3>3. CASE n \in places
      <4>1. ToSet(f[n]) = ToSet(f[n - 1]) \cup {s[n]}
        BY <1>1, <1>2, <3>1, <3>3, AppendIs DEF IsPicks
      <4>. QED
        BY <3>1, <3>2, <3>3, <4>1
    <3>4. CASE n \notin places
      <4>1. f[n] = f[n - 1]
        BY <1>1, <3>1, <3>4 DEF IsPicks
      <4>. QED
        BY <3>1, <3>2, <3>4, <4>1
    <3>. QED
      BY <3>3, <3>4
  <2>3. T \in SUBSET (0..Len(s))
    OBVIOUS
  <2>. HIDE DEF T
  <2>. QED
    BY <1>1, <2>1, <2>2, <2>3, UpTo
<1>. QED
  BY <1>1, <1>2, <1>3
\* f[n] is the first n sequences, one behind another.
IsFlat(seqs, f) ==
    /\ f \in [0..Len(seqs) -> Seq(UNION {ToSet(seqs[i]) : i \in 1..Len(seqs)})] /\ f[0] = <<>>
    /\ \A n \in 1..Len(seqs) : f[n] = f[n - 1] \o seqs[n]

\* There is such a function, and FlattenSeq is its last value.
LEMMA FlattenIs ==
    ASSUME NEW seqs, IsSeq(seqs), \A i \in 1..Len(seqs) : IsSeq(seqs[i])
    PROVE  \E f : IsFlat(seqs, f) /\ FlattenSeq(seqs) = f[Len(seqs)]
<1>. DEFINE n == Len(seqs)
            U == UNION {ToSet(seqs[i]) : i \in 1..n}
            V == Seq(U)
            step == [i \in 0..n |-> [q \in V |-> IF i # 0 THEN q \o seqs[i] ELSE q]]
            Body(f) == [i \in 1..n |-> IF i = 1 THEN seqs[i] ELSE f[i - 1] \o seqs[i]]
<1>1. n \in Nat /\ <<>> \in V
  BY SeqIs, EmptySeq
<1>2. \A i \in 1..n : seqs[i] \in V
  <2>1. ASSUME NEW i \in 1..n PROVE seqs[i] \in V
    <3>1. seqs[i] \in Seq(ToSet(seqs[i])) /\ ToSet(seqs[i]) \subseteq U
      BY DEF IsSeq
    <3>. HIDE DEF U
    <3>. QED
      BY <3>1, SeqMonotonic
  <2>. QED
    BY <2>1
<1>3. \A i \in 1..n : \A q \in V : q \o seqs[i] \in V
  <2>. HIDE DEF U
  <2>. QED
    BY <1>2, ConcatProperties
<1>4. step \in [0..n -> [V -> V]]
  <2>. HIDE DEF V
  <2>. QED
    BY <1>1, <1>3
<1>5. PICK f \in [0..n -> V] : f[0] = <<>> /\ \A i \in 1..n : f[i] = step[i][f[i - 1]]
  <2>. DEFINE base == <<>>
  <2>1. base \in V
    BY <1>1
  <2>. HIDE DEF step, n, base, V
  <2>2. \E f \in [0..n -> V] : Steps(f, n, base, step)
    BY <1>1, <1>4, <2>1, PrefixRecursion
  <2>. QED
    BY <2>2 DEF base, Steps
<1>6. ASSUME NEW i \in 1..n PROVE f[i] = f[i - 1] \o seqs[i]
  <2>1. i - 1 \in 0..n /\ i \in 0..n /\ i # 0
    BY <1>1
  <2>2. f[i] = step[i][f[i - 1]] /\ f[i - 1] \in V
    <3>. HIDE DEF step, n, V
    <3>. QED
      BY <1>5, <2>1
  <2>. QED
    BY <2>1, <2>2
<1>7. IsFlat(seqs, f)
  BY <1>5, <1>6 DEF IsFlat
<1>8. CASE n = 0
  <2>1. seqs = <<>> /\ FlattenSeq(seqs) = seqs
    <3>1. seqs \in Seq(ToSet(seqs))
      BY DEF IsSeq
    <3>. QED
      BY <1>8, <3>1, EmptySeq DEF FlattenSeq
  <2>. QED
    BY <1>5, <1>7, <1>8, <2>1
<1>9. CASE n # 0
  <2>. DEFINE h == [i \in 1..n |-> f[i]]
  <2>1. FlattenSeq(seqs) = (CHOOSE g : g = Body(g))[n]
    BY <1>9 DEF FlattenSeq
  <2>2. ASSUME NEW i \in 1..n
        PROVE  f[i] = IF i = 1 THEN seqs[i] ELSE f[i - 1] \o seqs[i]
    <3>1. CASE i = 1
      <4>1. f[1] = <<>> \o seqs[1] /\ seqs[1] \in V
        BY <1>2, <1>5, <1>6, <3>1
      <4>2. f[1] = seqs[1]
        <5>. HIDE DEF U
        <5>. QED
          BY <4>1, ConcatEmptySeq
      <4>. QED
        BY <3>1, <4>2
    <3>2. CASE i # 1
      BY <1>6, <3>2
    <3>. QED
      BY <3>1, <3>2
  <2>3. h = Body(h)
    <3>1. ASSUME NEW i \in 1..n PROVE h[i] = Body(h)[i]
      <4>1. CASE i = 1
        BY <2>2, <4>1
      <4>2. CASE i # 1
        <5>1. i - 1 \in 1..n
          BY <1>1, <4>2
        <5>2. h[i - 1] = f[i - 1]
          BY <5>1
        <5>. QED
          BY <2>2, <4>2, <5>2
      <4>. QED
        BY <4>1, <4>2
    <3>. QED
      BY <3>1
  <2>4. ASSUME NEW g, g = Body(g) PROVE g[n] = f[n]
    <3>. DEFINE T == {i \in 0..n : i # 0 => g[i] = f[i]}
    <3>1. ASSUME NEW i \in 1..n PROVE g[i] = IF i = 1 THEN seqs[i] ELSE g[i - 1] \o seqs[i]
      BY <2>4
    <3>2. T = 0..n
      <4>1. 0 \in T
        BY <1>1
      <4>2. ASSUME NEW i \in 0..n, i > 0, i - 1 \in T PROVE i \in T
        <5>1. i \in 1..n
          BY <1>1, <4>2
        <5>2. CASE i = 1
          BY <2>2, <3>1, <5>1, <5>2
        <5>3. CASE i # 1
          <6>1. g[i - 1] = f[i - 1]
            BY <1>1, <4>2, <5>3
          <6>. QED
            BY <2>2, <3>1, <5>1, <5>3, <6>1
        <5>. QED
          BY <5>2, <5>3
      <4>3. T \in SUBSET (0..n)
        OBVIOUS
      <4>. HIDE DEF T, n
      <4>. QED
        BY <1>1, <4>1, <4>2, <4>3, UpTo
    <3>. QED
      BY <1>1, <1>9, <3>2
  <2>5. (CHOOSE g : g = Body(g))[n] = f[n]
    <3>. HIDE DEF Body, n, h
    <3>1. (CHOOSE g : g = Body(g)) = Body(CHOOSE g : g = Body(g))
      BY <2>3
    <3>. QED
      BY <2>4, <3>1
  <2>. QED
    BY <1>7, <2>1, <2>5
<1>. QED
  BY <1>1, <1>8, <1>9

\* The elements of sequences one behind another are those of the sequences.
LEMMA FlattenElements ==
    ASSUME NEW seqs, IsSeq(seqs), \A i \in 1..Len(seqs) : IsSeq(seqs[i])
    PROVE  /\ IsSeq(FlattenSeq(seqs))
           /\ ToSet(FlattenSeq(seqs)) = UNION {ToSet(seqs[i]) : i \in 1..Len(seqs)}
<1>1. PICK f : IsFlat(seqs, f) /\ FlattenSeq(seqs) = f[Len(seqs)]
  BY FlattenIs
<1>. DEFINE T == {n \in 0..Len(seqs) : ToSet(f[n]) = UNION {ToSet(seqs[i]) : i \in 1..n}}
<1>2. Len(seqs) \in Nat
  BY SeqIs
<1>3. \A n \in 0..Len(seqs) : IsSeq(f[n])
  BY <1>1, AsSeq DEF IsFlat
<1>4. T = 0..Len(seqs)
  <2>1. 0 \in T
    BY <1>1, <1>2 DEF IsFlat, ToSet
  <2>2. ASSUME NEW n \in 0..Len(seqs), n > 0, n - 1 \in T PROVE n \in T
    <3>1. n \in 1..Len(seqs) /\ n - 1 \in 0..Len(seqs) /\ 1..n = (1..(n - 1)) \cup {n}
      BY <1>2, <2>2
    <3>2. ToSet(f[n - 1]) = UNION {ToSet(seqs[i]) : i \in 1..(n - 1)}
      BY <2>2
    <3>3. ToSet(f[n]) = ToSet(f[n - 1]) \cup ToSet(seqs[n])
      BY <1>1, <1>3, <3>1, ConcatIs DEF IsFlat
    <3>. QED
      BY <3>1, <3>2, <3>3
  <2>3. T \in SUBSET (0..Len(seqs))
    OBVIOUS
  <2>. HIDE DEF T
  <2>. QED
    BY <1>2, <2>1, <2>2, <2>3, UpTo
<1>5. Len(seqs) \in 0..Len(seqs)
  BY <1>2
<1>6. ToSet(f[Len(seqs)]) = UNION {ToSet(seqs[i]) : i \in 1..Len(seqs)}
  BY <1>4, <1>5
<1>. QED
  BY <1>1, <1>3, <1>5, <1>6

\* One sequence is all there is.
LEMMA FlattenOne ==
    ASSUME NEW s, IsSeq(s)
    PROVE  FlattenSeq(<<s>>) = s
<1>. DEFINE seqs == <<s>>
<1>1. IsSeq(seqs) /\ Len(seqs) = 1 /\ seqs[1] = s
  <2>1. seqs \in Seq({s}) /\ Len(seqs) = 1 /\ seqs[1] = s
    OBVIOUS
  <2>. HIDE DEF seqs
  <2>. QED
    BY <2>1, AsSeq
<1>2. PICK f : IsFlat(seqs, f) /\ FlattenSeq(seqs) = f[1]
  <2>. HIDE DEF seqs
  <2>1. \A i \in 1..Len(seqs) : IsSeq(seqs[i])
    BY <1>1
  <2>. QED
    BY <1>1, <2>1, FlattenIs
<1>3. f[1] = <<>> \o s
  <2>. HIDE DEF seqs
  <2>1. f[0] = <<>> /\ 1 \in 1..Len(seqs) /\ 1 - 1 = 0
    BY <1>1, <1>2 DEF IsFlat
  <2>2. f[1] = f[1 - 1] \o seqs[1]
    BY <1>2, <2>1 DEF IsFlat
  <2>. QED
    BY <1>1, <2>1, <2>2
<1>. QED
  BY <1>2, <1>3, ConcatEmptySeq DEF IsSeq
\* A function on 1..n is a sequence.
LEMMA FunctionIsSeq ==
    ASSUME NEW n \in Nat, NEW s, s = [i \in 1..n |-> s[i]]
    PROVE  IsSeq(s) /\ Len(s) = n
<1>1. s \in [1..n -> ToSet(s)] /\ DOMAIN s = 1..n
  BY DEF ToSet
<1>2. s \in Seq(ToSet(s))
  BY <1>1, IsASeq
<1>3. Len(s) \in Nat /\ DOMAIN s = 1..Len(s)
  BY <1>2, LenProperties
<1>. QED
  BY <1>1, <1>2, <1>3 DEF IsSeq

\* Sequences that have the same elements at the same places are equal.
LEMMA SameSeq ==
    ASSUME NEW s, IsSeq(s), NEW t, IsSeq(t), Len(s) = Len(t), \A i \in 1..Len(s) : s[i] = t[i]
    PROVE  s = t
<1>. DEFINE V == ToSet(s) \cup ToSet(t)
<1>1. s \in Seq(V) /\ t \in Seq(V)
  BY SeqMonotonic DEF IsSeq
<1>. HIDE DEF V
<1>. QED
  BY <1>1, SeqEqual

-----------------------------------------------------------------------------
(* The fields that are written.                                            *)

Ids(fs) == [j \in DOMAIN fs |-> fs[j].id]
Unskipped(fs) == {j \in DOMAIN fs : ~Skipped(fs[j])}

\* The fields that are exchanged, in their order.
Written(fs) == Picked(Ids(fs), Unskipped(fs))

Beginning(fs, n) == SubSeq(fs, 1, n)

LEMMA IdsAre ==
    ASSUME NEW fs, IsSeq(fs)
    PROVE  IsSeq(Ids(fs)) /\ Len(Ids(fs)) = Len(fs) /\ \A j \in 1..Len(fs) : Ids(fs)[j] = fs[j].id
<1>1. Len(fs) \in Nat /\ DOMAIN fs = 1..Len(fs)
  BY SeqIs
<1>2. Ids(fs) = [j \in 1..Len(fs) |-> fs[j].id]
  BY <1>1 DEF Ids
<1>3. IsSeq(Ids(fs)) /\ Len(Ids(fs)) = Len(fs)
  BY <1>1, <1>2, FunctionIsSeq
<1>. QED
  BY <1>2, <1>3

LEMMA IdsAppend ==
    ASSUME NEW fs, IsSeq(fs), NEW f
    PROVE  Ids(Append(fs, f)) = Append(Ids(fs), f.id)
<1>1. /\ IsSeq(Append(fs, f)) /\ Len(Append(fs, f)) = Len(fs) + 1 /\ Len(fs) \in Nat
      /\ \A i \in 1..Len(fs) : Append(fs, f)[i] = fs[i]
      /\ Append(fs, f)[Len(fs) + 1] = f
  BY AppendIs, SeqIs
<1>. DEFINE t == Append(fs, f)
            a == Ids(t)
            b == Append(Ids(fs), f.id)
<1>2. IsSeq(a) /\ Len(a) = Len(fs) + 1 /\ \A j \in 1..(Len(fs) + 1) : a[j] = t[j].id
  <2>. HIDE DEF t
  <2>. QED
    BY <1>1, IdsAre DEF t
<1>3. /\ IsSeq(b) /\ Len(b) = Len(fs) + 1
      /\ \A j \in 1..Len(fs) : b[j] = fs[j].id
      /\ b[Len(fs) + 1] = f.id
  BY IdsAre, AppendIs
<1>4. ASSUME NEW j \in 1..Len(a) PROVE a[j] = b[j]
  <2>. HIDE DEF a, b
  <2>1. j \in 1..Len(fs) \/ j = Len(fs) + 1
    BY <1>1, <1>2
  <2>. QED
    BY <1>1, <1>2, <1>3, <2>1
<1>. QED
  <2>. HIDE DEF a, b
  <2>1. a = b
    BY <1>2, <1>3, <1>4, SameSeq
  <2>. QED
    BY <2>1 DEF a, b

LEMMA WrittenNone == Written(<<>>) = <<>>
<1>. DEFINE none == Ids(<<>>)
<1>1. IsSeq(<<>>) /\ Len(<<>>) = 0
  BY EmptySeq, AsSeq
<1>2. IsSeq(none) /\ Len(none) = 0
  BY <1>1, IdsAre
<1>. HIDE DEF none
<1>3. /\ IsPicks(none, Unskipped(<<>>), Picks(none, Unskipped(<<>>)))
      /\ Picked(none, Unskipped(<<>>)) = Picks(none, Unskipped(<<>>))[0]
  BY <1>2, PicksExist
<1>4. Picked(none, Unskipped(<<>>)) = <<>>
  BY <1>3 DEF IsPicks
<1>. QED
  BY <1>4 DEF Written, none

\* One more field is written, unless it is skipped.
LEMMA WrittenAppend ==
    ASSUME NEW fs, IsSeq(fs), NEW f
    PROVE  Written(Append(fs, f)) = IF Skipped(f) THEN Written(fs) ELSE Append(Written(fs), f.id)
<1>. DEFINE t == Append(fs, f)
            ids == Ids(fs)
            places == Unskipped(t)
<1>1. /\ IsSeq(t) /\ Len(t) = Len(fs) + 1 /\ Len(fs) \in Nat
      /\ \A i \in 1..Len(fs) : t[i] = fs[i]
      /\ t[Len(fs) + 1] = f
  BY AppendIs, SeqIs
<1>2. IsSeq(ids) /\ Len(ids) = Len(fs) /\ Ids(t) = Append(ids, f.id)
  BY IdsAre, IdsAppend
<1>3. DOMAIN fs = 1..Len(fs) /\ DOMAIN t = 1..Len(t)
  <2>. HIDE DEF t
  <2>. QED
    BY <1>1, SeqIs
<1>. HIDE DEF t, ids
<1>4. Len(fs) + 1 \in places <=> ~Skipped(f)
  BY <1>1, <1>3 DEF Unskipped
<1>5. places \cap (1..Len(ids)) = Unskipped(fs) \cap (1..Len(ids))
  BY <1>1, <1>2, <1>3 DEF Unskipped
<1>. HIDE DEF places
<1>6. Picked(ids, places) = Picked(ids, Unskipped(fs))
  BY <1>2, <1>5, PickedSame
<1>7. Picked(Append(ids, f.id), places) =
          IF Len(ids) + 1 \in places THEN Append(Picked(ids, places), f.id) ELSE Picked(ids, places)
  BY <1>2, PickedAppend
<1>. QED
  BY <1>2, <1>4, <1>6, <1>7 DEF Written, places, ids, t

\* The beginnings of a sequence.
LEMMA BeginningIs ==
    ASSUME NEW fs, IsSeq(fs)
    PROVE  /\ Beginning(fs, 0) = <<>> /\ Beginning(fs, Len(fs)) = fs
           /\ \A n \in 0..Len(fs) : IsSeq(Beginning(fs, n))
           /\ \A n \in 0..Len(fs) : n < Len(fs) => Beginning(fs, n + 1) = Append(Beginning(fs, n), fs[n + 1])
<1>1. Len(fs) \in Nat /\ fs \in Seq(ToSet(fs)) /\ \A i \in 1..Len(fs) : fs[i] \in ToSet(fs)
  BY SeqIs DEF IsSeq
<1>2. ASSUME NEW n \in 0..Len(fs)
      PROVE  /\ IsSeq(Beginning(fs, n)) /\ Len(Beginning(fs, n)) = n
             /\ \A i \in 1..n : Beginning(fs, n)[i] = fs[i]
  <2>1. 1 \in Int /\ n \in Int /\ \A i \in 1..n : fs[i] \in ToSet(fs)
    BY <1>1
  <2>2. /\ Beginning(fs, n) \in Seq(ToSet(fs))
        /\ Len(Beginning(fs, n)) = IF 1 <= n THEN n - 1 + 1 ELSE 0
        /\ \A i \in 1..(n - 1 + 1) : Beginning(fs, n)[i] = fs[1 + i - 1]
    BY <2>1, SubSeqProperties DEF Beginning
  <2>. QED
    BY <1>1, <2>2, AsSeq
<1>3. Beginning(fs, 0) = <<>>
  <2>1. 0 \in 0..Len(fs)
    BY <1>1
  <2>2. Beginning(fs, 0) \in Seq(ToSet(Beginning(fs, 0))) /\ Len(Beginning(fs, 0)) = 0
    BY <1>2, <2>1 DEF IsSeq
  <2>. QED
    BY <2>2, EmptySeq
<1>4. Beginning(fs, Len(fs)) = fs
  <2>1. Len(fs) \in 0..Len(fs)
    BY <1>1
  <2>. QED
    BY <1>2, <2>1, SameSeq
<1>5. ASSUME NEW n \in 0..Len(fs), n < Len(fs)
      PROVE  Beginning(fs, n + 1) = Append(Beginning(fs, n), fs[n + 1])
  <2>. DEFINE a == Beginning(fs, n + 1)
              b == Append(Beginning(fs, n), fs[n + 1])
  <2>0. n + 1 \in 0..Len(fs) /\ n \in Nat
    BY <1>1, <1>5
  <2>1. IsSeq(a) /\ Len(a) = n + 1 /\ \A i \in 1..(n + 1) : a[i] = fs[i]
    BY <1>2, <2>0
  <2>2. /\ IsSeq(b) /\ Len(b) = n + 1
        /\ \A i \in 1..n : b[i] = fs[i]
        /\ b[n + 1] = fs[n + 1]
    BY <1>2, AppendIs
  <2>. HIDE DEF a, b
  <2>3. ASSUME NEW i \in 1..Len(a) PROVE a[i] = b[i]
    <3>1. i \in 1..n \/ i = n + 1
      BY <2>0, <2>1
    <3>. QED
      BY <2>0, <2>1, <2>2, <3>1
  <2>4. a = b
    BY <2>1, <2>2, <2>3, SameSeq
  <2>. QED
    BY <2>4 DEF a, b
<1>. QED
  BY <1>2, <1>3, <1>4, <1>5
LEMMA WrittenIsSeq ==
    ASSUME NEW fs, IsSeq(fs)
    PROVE  IsSeq(Written(fs))
BY IdsAre, PickedIs DEF Written

LEMMA ConcatAppend ==
    ASSUME NEW s, IsSeq(s), NEW t, IsSeq(t), NEW x
    PROVE  s \o Append(t, x) = Append(s \o t, x)
<1>. DEFINE u == Append(t, x)
            c == s \o t
            a == s \o u
            b == Append(c, x)
<1>1. /\ IsSeq(u) /\ Len(u) = Len(t) + 1 /\ Len(t) \in Nat /\ Len(s) \in Nat
      /\ \A i \in 1..Len(t) : u[i] = t[i]
      /\ u[Len(t) + 1] = x
  BY AppendIs, SeqIs
<1>2. /\ IsSeq(c) /\ Len(c) = Len(s) + Len(t)
      /\ \A i \in 1..Len(s) : c[i] = s[i]
      /\ \A i \in 1..Len(t) : c[Len(s) + i] = t[i]
  BY ConcatIs
<1>. HIDE DEF u, c
<1>3. /\ IsSeq(a) /\ Len(a) = Len(s) + Len(u)
      /\ \A i \in 1..Len(s) : a[i] = s[i]
      /\ \A i \in 1..Len(u) : a[Len(s) + i] = u[i]
  <2>1. IsSeq(u)
    BY <1>1
  <2>. QED
    BY <2>1, ConcatIs
<1>4. /\ IsSeq(b) /\ Len(b) = Len(c) + 1
      /\ \A i \in 1..Len(c) : b[i] = c[i]
      /\ b[Len(c) + 1] = x
  BY <1>2, AppendIs
<1>. HIDE DEF a, b
<1>5. ASSUME NEW i \in 1..Len(a) PROVE a[i] = b[i]
  <2>1. CASE i \in 1..Len(s)
    <3>1. i \in 1..Len(c)
      BY <1>1, <1>2, <2>1
    <3>. QED
      BY <1>2, <1>3, <1>4, <2>1, <3>1
  <2>2. CASE i \notin 1..Len(s)
    <3>1. PICK j \in 1..Len(u) : i = Len(s) + j
      <4>1. i - Len(s) \in 1..Len(u) /\ i = Len(s) + (i - Len(s))
        BY <1>1, <1>3, <2>2
      <4>. QED
        BY <4>1
    <3>2. CASE j \in 1..Len(t)
      <4>1. i \in 1..Len(c)
        BY <1>1, <1>2, <3>1, <3>2
      <4>. QED
        BY <1>1, <1>2, <1>3, <1>4, <3>1, <3>2, <4>1
    <3>3. CASE j = Len(t) + 1
      <4>1. i = Len(c) + 1
        BY <1>1, <1>2, <3>1, <3>3
      <4>. QED
        BY <1>1, <1>3, <1>4, <3>1, <3>3, <4>1
    <3>. QED
      BY <1>1, <3>1, <3>2, <3>3
  <2>. QED
    BY <2>1, <2>2
<1>6. a = b
  <2>1. Len(a) = Len(b)
    BY <1>1, <1>2, <1>3, <1>4
  <2>. QED
    BY <1>3, <1>4, <1>5, <2>1, SameSeq
<1>. QED
  BY <1>6 DEF a, b, u, c

LEMMA ConcatNone ==
    ASSUME NEW s, IsSeq(s)
    PROVE  s \o <<>> = s /\ <<>> \o s = s
BY ConcatEmptySeq DEF IsSeq

\* What is written of fields behind others is written behind what is written of these.
LEMMA WrittenConcat ==
    ASSUME NEW s, IsSeq(s), NEW t, IsSeq(t)
    PROVE  Written(s \o t) = Written(s) \o Written(t)
<1>. DEFINE T == {n \in 0..Len(t) : Written(s \o Beginning(t, n)) = Written(s) \o Written(Beginning(t, n))}
<1>1. Len(t) \in Nat /\ IsSeq(Written(s)) /\ \A n \in 0..Len(t) : IsSeq(Beginning(t, n))
  BY SeqIs, WrittenIsSeq, BeginningIs
<1>2. T = 0..Len(t)
  <2>1. 0 \in T
    <3>1. Beginning(t, 0) = <<>> /\ 0 \in 0..Len(t)
      BY <1>1, BeginningIs
    <3>2. s \o <<>> = s /\ Written(s) \o <<>> = Written(s)
      BY <1>1, ConcatNone
    <3>. QED
      BY <3>1, <3>2, WrittenNone
  <2>2. ASSUME NEW n \in 0..Len(t), n > 0, n - 1 \in T PROVE n \in T
    <3>. DEFINE b == Beginning(t, n - 1)
                f == t[n]
                w == Written(b)
                sb == s \o b
                sw == Written(s)
    <3>1. n - 1 \in 0..Len(t) /\ n - 1 < Len(t) /\ (n - 1) + 1 = n
      BY <1>1, <2>2
    <3>2. Beginning(t, n) = Append(b, f)
      BY <3>1, BeginningIs
    <3>3. IsSeq(b) /\ IsSeq(w) /\ IsSeq(sb) /\ IsSeq(sw)
      BY <1>1, <3>1, WrittenIsSeq, ConcatIs
    <3>4. Written(sb) = sw \o w
      BY <2>2
    <3>. HIDE DEF b, f, w, sb, sw
    <3>5. s \o Append(b, f) = Append(sb, f)
      BY <3>3, ConcatAppend DEF sb
    <3>6. /\ Written(Append(sb, f)) = IF Skipped(f) THEN Written(sb) ELSE Append(Written(sb), f.id)
          /\ Written(Append(b, f)) = IF Skipped(f) THEN w ELSE Append(w, f.id)
      BY <3>3, WrittenAppend DEF w
    <3>7. sw \o Append(w, f.id) = Append(sw \o w, f.id)
      BY <3>3, ConcatAppend
    <3>8. Written(s \o Append(b, f)) = sw \o Written(Append(b, f))
      BY <3>4, <3>5, <3>6, <3>7
    <3>. QED
      BY <3>2, <3>8 DEF sw
  <2>3. T \in SUBSET (0..Len(t))
    OBVIOUS
  <2>. HIDE DEF T
  <2>. QED
    BY <1>1, <2>1, <2>2, <2>3, UpTo
<1>3. Len(t) \in T
  BY <1>1, <1>2
<1>4. Beginning(t, Len(t)) = t
  BY BeginningIs
<1>. QED
  BY <1>3, <1>4

\* What is written of all variants is what is written of each.
LEMMA WrittenFlatten ==
    ASSUME NEW vs, IsSeq(vs), \A v \in 1..Len(vs) : IsSeq(vs[v])
    PROVE  FlattenSeq([v \in DOMAIN vs |-> Written(vs[v])]) = Written(FlattenSeq(vs))
<1>. DEFINE ws == [v \in DOMAIN vs |-> Written(vs[v])]
<1>1. Len(vs) \in Nat /\ DOMAIN vs = 1..Len(vs)
  BY SeqIs
<1>2. /\ IsSeq(ws) /\ Len(ws) = Len(vs)
      /\ \A v \in 1..Len(vs) : ws[v] = Written(vs[v]) /\ IsSeq(ws[v])
  <2>1. ws = [v \in 1..Len(vs) |-> ws[v]] /\ \A v \in 1..Len(vs) : ws[v] = Written(vs[v])
    BY <1>1
  <2>. HIDE DEF ws
  <2>2. IsSeq(ws) /\ Len(ws) = Len(vs)
    BY <1>1, <2>1, FunctionIsSeq
  <2>. QED
    BY <2>1, <2>2, WrittenIsSeq
<1>. HIDE DEF ws
<1>3. PICK f : IsFlat(vs, f) /\ FlattenSeq(vs) = f[Len(vs)]
  BY FlattenIs
<1>4. PICK g : IsFlat(ws, g) /\ FlattenSeq(ws) = g[Len(vs)]
  BY <1>2, FlattenIs
<1>. DEFINE T == {n \in 0..Len(vs) : g[n] = Written(f[n])}
<1>5. T = 0..Len(vs)
  <2>1. 0 \in T
    BY <1>1, <1>3, <1>4, WrittenNone DEF IsFlat
  <2>2. ASSUME NEW n \in 0..Len(vs), n > 0, n - 1 \in T PROVE n \in T
    <3>1. n \in 1..Len(vs) /\ n - 1 \in 0..Len(vs)
      BY <1>1, <2>2
    <3>2. f[n] = f[n - 1] \o vs[n] /\ IsSeq(f[n - 1])
      BY <1>3, <3>1, AsSeq DEF IsFlat
    <3>3. g[n] = g[n - 1] \o Written(vs[n])
      BY <1>2, <1>4, <3>1 DEF IsFlat
    <3>4. g[n - 1] = Written(f[n - 1])
      BY <2>2
    <3>5. Written(f[n - 1] \o vs[n]) = Written(f[n - 1]) \o Written(vs[n])
      BY <3>1, <3>2, WrittenConcat
    <3>. QED
      BY <3>2, <3>3, <3>4, <3>5
  <2>3. T \in SUBSET (0..Len(vs))
    OBVIOUS
  <2>. HIDE DEF T
  <2>. QED
    BY <1>1, <2>1, <2>2, <2>3, UpTo
<1>6. Len(vs) \in T
  BY <1>1, <1>5
<1>. QED
  BY <1>3, <1>4, <1>6 DEF ws
-----------------------------------------------------------------------------
(* Types.                                                                  *)

PartsOf(ty) == {ty.of[i] : i \in DOMAIN ty.of}

LEMMA PartsAreTypes ==
    ASSUME NEW ty \in Types
    PROVE  PartsOf(ty) \subseteq Types /\ \A i \in DOMAIN ty.of : ty.of[i] \in Types
<1>1. ty.of \in Seq(Types)
  BY TypesAssumption
<1>2. \A i \in DOMAIN ty.of : ty.of[i] \in Types
  BY <1>1, LenProperties
<1>. QED
  BY <1>2 DEF PartsOf

\* What holds of a type when it holds of those in it holds of all.
LEMMA TypesInduction ==
    ASSUME NEW S \in SUBSET Types,
           \A ty \in Types : (\A i \in DOMAIN ty.of : ty.of[i] \in S) => ty \in S
    PROVE  S = Types
<1>. DEFINE D == {Depth[ty] : ty \in Types \ S}
<1>1. SUFFICES ASSUME Types \ S # {} PROVE FALSE
  OBVIOUS
<1>2. D \in SUBSET Nat /\ D # {}
  BY <1>1, TypesAssumption
<1>3. PICK m \in D : \A k \in D : m <= k
  <2>. HIDE DEF D
  <2>. QED
    BY <1>2, LeastNumber
<1>4. PICK ty \in Types \ S : m = Depth[ty]
  BY <1>3
<1>5. ASSUME NEW i \in DOMAIN ty.of PROVE ty.of[i] \in S
  <2>1. ty.of[i] \in Types /\ Depth[ty.of[i]] < Depth[ty] /\ Depth[ty] \in Nat /\ Depth[ty.of[i]] \in Nat
    BY PartsAreTypes, TypesAssumption
  <2>2. ty.of[i] \notin S => Depth[ty.of[i]] \in D
    BY <2>1
  <2>. HIDE DEF D
  <2>. QED
    BY <1>3, <1>4, <2>1, <2>2
<1>. QED
  BY <1>4, <1>5

\* What can be reached in a graph, and one step of the way.
Reached(G, ty) == {u \in Types : \A S \in SUBSET Types : ty \in S /\ (\A w \in S : G[w] \subseteq S) => u \in S}

LEMMA ReachedUnfold ==
    ASSUME NEW G \in [Types -> SUBSET Types], NEW ty \in Types
    PROVE  Reached(G, ty) = {ty} \cup UNION {Reached(G, w) : w \in G[ty]}
<1>. DEFINE R == {ty} \cup UNION {Reached(G, w) : w \in G[ty]}
<1>1. R \subseteq Reached(G, ty)
  <2>1. ASSUME NEW w \in G[ty], NEW u \in Reached(G, w) PROVE u \in Reached(G, ty)
    BY <2>1 DEF Reached
  <2>2. ty \in Reached(G, ty)
    BY DEF Reached
  <2>. QED
    BY <2>1, <2>2
<1>2. R \in SUBSET Types
  BY DEF Reached
<1>3. ASSUME NEW w \in R PROVE G[w] \subseteq R
  <2>1. CASE w = ty
    <3>1. ASSUME NEW u \in G[ty] PROVE u \in Reached(G, u)
      BY DEF Reached
    <3>. QED
      BY <2>1, <3>1
  <2>2. ASSUME NEW v \in G[ty], w \in Reached(G, v) PROVE G[w] \subseteq Reached(G, v)
    <3>1. w \in Types /\ G[w] \subseteq Types
      BY <2>2 DEF Reached
    <3>2. ASSUME NEW u \in G[w], NEW S \in SUBSET Types, v \in S, \A x \in S : G[x] \subseteq S
          PROVE  u \in S
      BY <2>2, <3>2 DEF Reached
    <3>. QED
      BY <3>1, <3>2 DEF Reached
  <2>. QED
    BY <1>3, <2>1, <2>2
<1>4. ty \in R
  OBVIOUS
<1>5. Reached(G, ty) \subseteq R
  <2>. HIDE DEF R
  <2>. QED
    BY <1>2, <1>3, <1>4 DEF Reached
<1>. QED
  BY <1>1, <1>5

\* A type is in itself, and what is in its parts is in it.
LEMMA InsideIs ==
    ASSUME NEW ty \in Types
    PROVE  Inside[ty] = {ty} \cup UNION {Inside[ty.of[i]] : i \in DOMAIN ty.of}
<1>. DEFINE G == [u \in Types |-> PartsOf(u)]
            Body(f) == [u \in Types |-> {u} \cup UNION {f[u.of[i]] : i \in DOMAIN u.of}]
            f == [u \in Types |-> Reached(G, u)]
<1>1. G \in [Types -> SUBSET Types] /\ \A u \in Types : G[u] = PartsOf(u)
  BY PartsAreTypes
<1>2. ASSUME NEW u \in Types PROVE f[u] = Body(f)[u]
  <2>1. Reached(G, u) = {u} \cup UNION {Reached(G, w) : w \in G[u]}
    <3>. HIDE DEF G
    <3>. QED
      BY <1>1, ReachedUnfold
  <2>2. UNION {Reached(G, w) : w \in G[u]} = UNION {f[u.of[i]] : i \in DOMAIN u.of}
    <3>1. \A i \in DOMAIN u.of : f[u.of[i]] = Reached(G, u.of[i])
      BY PartsAreTypes
    <3>2. G[u] = {u.of[i] : i \in DOMAIN u.of}
      BY <1>1 DEF PartsOf
    <3>. HIDE DEF f, G
    <3>. QED
      BY <3>1, <3>2
  <2>. QED
    BY <2>1, <2>2
<1>3. f = Body(f)
  BY <1>2
<1>4. Inside = CHOOSE g : g = Body(g)
  BY DEF Inside
<1>5. Inside = Body(Inside)
  <2>. HIDE DEF Body, f
  <2>. QED
    BY <1>3, <1>4
<1>. QED
  BY <1>5

LEMMA ShownIs ==
    ASSUME NEW ty \in Types
    PROVE  Shown[ty] = IF ty.k = "phantom" THEN {}
                       ELSE {ty} \cup UNION {Shown[ty.of[i]] : i \in DOMAIN ty.of}
<1>. DEFINE G == [u \in Types |-> IF u.k = "phantom" THEN {} ELSE PartsOf(u)]
            Body(f) == [u \in Types |-> IF u.k = "phantom" THEN {}
                                        ELSE {u} \cup UNION {f[u.of[i]] : i \in DOMAIN u.of}]
            R(u) == {w \in Reached(G, u) : w.k # "phantom"}
            f == [u \in Types |-> R(u)]
<1>1. G \in [Types -> SUBSET Types] /\ \A u \in Types : G[u] = IF u.k = "phantom" THEN {} ELSE PartsOf(u)
  BY PartsAreTypes
<1>2. ASSUME NEW u \in Types PROVE f[u] = Body(f)[u]
  <2>1. Reached(G, u) = {u} \cup UNION {Reached(G, w) : w \in G[u]}
    <3>. HIDE DEF G
    <3>. QED
      BY <1>1, ReachedUnfold
  <2>2. CASE u.k = "phantom"
    <3>1. G[u] = {}
      BY <1>1, <2>2
    <3>. HIDE DEF G
    <3>. QED
      BY <2>1, <2>2, <3>1
  <2>3. CASE u.k # "phantom"
    <3>1. \A i \in DOMAIN u.of : f[u.of[i]] = R(u.of[i])
      BY PartsAreTypes
    <3>2. G[u] = {u.of[i] : i \in DOMAIN u.of}
      BY <1>1, <2>3 DEF PartsOf
    <3>. HIDE DEF G
    <3>3. R(u) = {u} \cup UNION {R(w) : w \in G[u]}
      BY <2>1, <2>3
    <3>. HIDE DEF R
    <3>4. Body(f)[u] = {u} \cup UNION {f[u.of[i]] : i \in DOMAIN u.of} /\ f[u] = R(u)
      BY <2>3
    <3>. HIDE DEF f, Body
    <3>. QED
      BY <3>1, <3>2, <3>3, <3>4
  <2>. QED
    BY <2>2, <2>3
<1>3. f = Body(f)
  BY <1>2
<1>4. Shown = CHOOSE g : g = Body(g)
  BY DEF Shown
<1>5. Shown = Body(Shown)
  <2>. HIDE DEF Body, f
  <2>. QED
    BY <1>3, <1>4
<1>. QED
  BY <1>5

\* What is shown is in the type; it is all of that if there is no PhantomData.
LEMMA ShownInside ==
    ASSUME NEW ty \in Types
    PROVE  Shown[ty] \subseteq Inside[ty] /\ (~Holds(ty, "phantom") => Shown[ty] = Inside[ty])
<1>. DEFINE S == {u \in Types : Shown[u] \subseteq Inside[u]
                                  /\ ((\A w \in Inside[u] : w.k # "phantom") => Shown[u] = Inside[u])}
<1>1. ASSUME NEW u \in Types, \A i \in DOMAIN u.of : u.of[i] \in S PROVE u \in S
  <2>1. /\ Inside[u] = {u} \cup UNION {Inside[u.of[i]] : i \in DOMAIN u.of}
        /\ Shown[u] = IF u.k = "phantom" THEN {}
                      ELSE {u} \cup UNION {Shown[u.of[i]] : i \in DOMAIN u.of}
    BY InsideIs, ShownIs
  <2>2. \A i \in DOMAIN u.of :
           /\ Shown[u.of[i]] \subseteq Inside[u.of[i]]
           /\ (\A w \in Inside[u.of[i]] : w.k # "phantom") => Shown[u.of[i]] = Inside[u.of[i]]
    BY <1>1
  <2>3. Shown[u] \subseteq Inside[u]
    BY <2>1, <2>2
  <2>4. ASSUME \A w \in Inside[u] : w.k # "phantom" PROVE Shown[u] = Inside[u]
    <3>1. \A i \in DOMAIN u.of : Shown[u.of[i]] = Inside[u.of[i]]
      BY <2>1, <2>2, <2>4
    <3>. QED
      BY <2>1, <2>4, <3>1
  <2>. QED
    BY <2>3, <2>4
<1>2. S = Types
  <2>1. S \in SUBSET Types
    OBVIOUS
  <2>. HIDE DEF S
  <2>. QED
    BY <1>1, <2>1, TypesInduction
<1>. QED
  BY <1>2 DEF Holds
-----------------------------------------------------------------------------
(* Items and their fields.                                                 *)

\* A nonempty set of places has a last one.
LEMMA LastPlace ==
    ASSUME NEW n \in Nat, NEW S \in SUBSET (1..n), S # {}
    PROVE  Max(S) \in S
<1>. DEFINE D == {n - i : i \in S}
<1>1. D \in SUBSET Nat /\ D # {}
  <2>1. \A i \in S : i \in 1..n /\ n - i \in Nat
    OBVIOUS
  <2>2. PICK i \in S : TRUE
    OBVIOUS
  <2>. QED
    BY <2>1, <2>2
<1>2. PICK m \in D : \A k \in D : m <= k
  <2>. HIDE DEF D
  <2>. QED
    BY <1>1, LeastNumber
<1>3. PICK x \in S : m = n - x
  BY <1>2
<1>4. \A y \in S : x >= y
  <2>1. ASSUME NEW y \in S PROVE x >= y
    <3>1. n - x <= n - y /\ x \in 1..n /\ y \in 1..n
      BY <1>2, <1>3
    <3>. QED
      BY <3>1
  <2>. QED
    BY <2>1
<1>. QED
  BY <1>4 DEF Max

\* What is found for a key is given with that key.
LEMMA MetaIsGiven ==
    ASSUME NEW f, IsField(f), NEW key, MetaOf(f, key) # <<>>
    PROVE  /\ f.attrs # <<>>
           /\ \E i \in DOMAIN f.attrs[1] : f.attrs[1][i].key = key /\ MetaOf(f, key) = <<f.attrs[1][i]>>
<1>. DEFINE given == {i \in DOMAIN f.attrs[1] : f.attrs[1][i].key = key}
<1>1. f.attrs # <<>> /\ given # {} /\ MetaOf(f, key) = <<f.attrs[1][Max(given)]>>
  BY DEF MetaOf
<1>2. IsSeq(f.attrs[1])
  <2>1. f.attrs \in Seq(ToSet(f.attrs)) /\ \A i \in DOMAIN f.attrs : IsSeq(f.attrs[i])
    BY DEF IsField, IsSeq
  <2>2. 1 \in DOMAIN f.attrs
    BY <1>1, <2>1, EmptySeq, LenProperties
  <2>. QED
    BY <2>1, <2>2
<1>3. Len(f.attrs[1]) \in Nat /\ given \in SUBSET (1..Len(f.attrs[1]))
  BY <1>2, SeqIs
<1>4. Max(given) \in given
  <2>. HIDE DEF given
  <2>. QED
    BY <1>1, <1>3, LastPlace
<1>. QED
  BY <1>1, <1>4

\* A field without an error is not skipped where it says how it is exchanged, and
\* gives both functions for its schema or none.
LEMMA NoContradiction ==
    ASSUME NEW f, IsField(f), ~FieldError(f)
    PROVE  /\ Skipped(f) => /\ MetaOf(f, "serialize_with") = <<>> /\ MetaOf(f, "deserialize_with") = <<>>
                            /\ ParamsOf(f) = <<>> /\ FuncsOf(f) = <<>>
           /\ FuncsOf(f) # <<>> => FuncsOf(f)[1].declaration = FuncsOf(f)[1].definitions
<1>1. ASSUME FuncsOf(f) # <<>> PROVE FuncsOf(f)[1].declaration = FuncsOf(f)[1].definitions
  <2>1. MetaOf(f, "schema") # <<>> /\ FuncsOf(f) = MetaOf(f, "schema")[1].funcs
    BY <1>1 DEF FuncsOf
  <2>2. PICK i \in DOMAIN f.attrs[1] : f.attrs[1][i].key = "schema" /\ MetaOf(f, "schema") = <<f.attrs[1][i]>>
    BY <2>1, MetaIsGiven
  <2>3. f.attrs # <<>> /\ FuncsOf(f) = f.attrs[1][i].funcs
    BY <2>1, <2>2, MetaIsGiven
  <2>. QED
    BY <1>1, <2>2, <2>3 DEF FieldError
<1>. QED
  BY <1>1 DEF FieldError

\* The fields of an item are those of its variants.
LEMMA FieldsAre ==
    ASSUME NEW it, IsItem(it)
    PROVE  /\ IsSeq(FieldsOf(it)) /\ Len(FieldsOf(it)) \in Nat
           /\ ToSet(FieldsOf(it)) = UNION {ToSet(it.variants[v]) : v \in DOMAIN it.variants}
           /\ \A j \in 1..Len(FieldsOf(it)) : IsField(FieldsOf(it)[j])
<1>1. /\ IsSeq(it.variants) /\ DOMAIN it.variants = 1..Len(it.variants)
      /\ \A v \in 1..Len(it.variants) : /\ IsSeq(it.variants[v])
                                        /\ \A j \in DOMAIN it.variants[v] : IsField(it.variants[v][j])
  BY SeqIs DEF IsItem
<1>2. /\ IsSeq(FieldsOf(it))
      /\ ToSet(FieldsOf(it)) = UNION {ToSet(it.variants[v]) : v \in 1..Len(it.variants)}
  BY <1>1, FlattenElements DEF FieldsOf
<1>3. \A v \in 1..Len(it.variants) : \A f \in ToSet(it.variants[v]) : IsField(f)
  BY <1>1 DEF ToSet
<1>4. \A f \in ToSet(FieldsOf(it)) : IsField(f)
  BY <1>2, <1>3
<1>. QED
  BY <1>1, <1>2, <1>4, SeqIs

\* The struct written for a variant is an item like any other, with the fields of
\* the variant, and nothing is wrong with its attributes.
LEMMA InnerIsItem ==
    ASSUME NEW it, IsItem(it), NEW v \in DOMAIN it.variants
    PROVE  /\ IsItem(InnerStruct(it, v)) /\ ~InnerStruct(it, v).enum
           /\ FieldsOf(InnerStruct(it, v)) = it.variants[v]
           /\ ~ItemError(InnerStruct(it, v))
<1>. DEFINE in == InnerStruct(it, v)
            kept == KeptParams(it, v)
<1>1. /\ in.enum = FALSE /\ in.attrs = <<<<"crate">>>> /\ in.variants = <<it.variants[v]>>
      /\ in.params = Picked(it.params, {i \in DOMAIN it.params : it.params[i] \in kept})
      /\ in.lifetime = it.lifetime /\ in.where = KeptPredicates(it, kept)
  BY DEF InnerStruct
<1>. HIDE DEF in, kept
<1>2. IsSeq(in.params)
  BY <1>1, PickedIs DEF IsItem
<1>3. IsSeq(it.variants[v]) /\ \A j \in DOMAIN it.variants[v] : IsField(it.variants[v][j])
  BY DEF IsItem
<1>4. FieldsOf(in) = it.variants[v]
  BY <1>1, <1>3, FlattenOne DEF FieldsOf
<1>5. IsSeq(in.variants) /\ \A w \in DOMAIN in.variants : in.variants[w] = it.variants[v]
  <2>. DEFINE fs == it.variants[v]
              vs == in.variants
  <2>1. vs = <<fs>>
    BY <1>1
  <2>. HIDE DEF fs, vs
  <2>2. vs \in Seq({fs})
    BY <2>1
  <2>3. IsSeq(vs) /\ \A w \in DOMAIN vs : vs[w] \in {fs}
    BY <2>2, AsSeq
  <2>. QED
    BY <2>3 DEF fs, vs
<1>6. IsItem(in)
  <2>1. \A q \in in.where : q.ty \in Types
    BY <1>1 DEF IsItem, KeptPredicates
  <2>. QED
    BY <1>1, <1>2, <1>3, <1>5, <2>1 DEF IsItem
<1>7. ~ItemError(in)
  <2>1. Len(in.attrs) = 1 /\ in.attrs # <<>> /\ in.attrs[1] = <<"crate">>
    BY <1>1
  <2>2. \A i \in DOMAIN in.attrs[1] : in.attrs[1][i] = "crate"
    BY <2>1
  <2>3. ItemHas(in, "crate") /\ ~ItemHas(in, "use_discriminant")
    BY <2>1, <2>2 DEF ItemHas, Contains
  <2>. QED
    BY <2>1, <2>2, <2>3 DEF ItemError, ItemKeys
<1>. QED
  BY <1>1, <1>4, <1>6, <1>7 DEF in
-----------------------------------------------------------------------------
(* The invariant.                                                          *)

DeriveNames == {"ser", "de", "schema"}

\* The program is one of Programs.
ProgramOK == \E p \in Programs : program = p[1]

\* What is expanded: the items of the program, and the structs that are written for
\* the variants of its enums.
Expected(it, d) ==
    \/ d \in DeriveNames /\ \E i \in DOMAIN program : it = program[i]
    \/ d = "schema" /\ \E i \in DOMAIN program :
           program[i].enum /\ \E v \in DOMAIN program[i].variants : it = InnerStruct(program[i], v)

\* An expansion is still to be done, or has been done.
Covered(it, d) ==
    \/ \E k \in DOMAIN todo : todo[k].item = it /\ todo[k].derive = d
    \/ \E k \in DOMAIN impls : impls[k].item = it /\ impls[k].derive = d

\* An item is not accepted.
Bad(it) == ItemError(it) \/ \E j \in 1..Len(FieldsOf(it)) : FieldError(FieldsOf(it)[j])

\* The calls are of the fields of the item; those of the schema of an enum are of
\* the structs written for its variants.
Direct(it, d) == d # "schema" \/ ~it.enum

FieldIds(calls) == [i \in DOMAIN calls |-> calls[i].field]
Reads(calls) == Picked(FieldIds(calls), {i \in DOMAIN calls : calls[i].trait = "de"})

\* The calls are those of the first n fields, in their order.
BodyOK(it, d, calls, n) ==
    LET fs == Beginning(FieldsOf(it), n)
    IN  /\ IsSeq(calls)
        /\ d # "de" /\ Direct(it, d) => FieldIds(calls) = Written(fs)
        /\ d = "de" => FieldIds(calls) = Ids(fs) /\ Reads(calls) = Written(fs)
        /\ Direct(it, d) => \A j \in 1..n : Replaces(FieldsOf(it)[j], d) =>
               \E call \in ToSet(calls) : call.field = FieldsOf(it)[j].id /\ call.op = "function"

\* The bounds given for the first n fields have been collected.
GivenOK(it, d, given, n) ==
    d # "schema" => \A j \in 1..n : BoundOf(FieldsOf(it)[j], d) # <<>> => BoundOf(FieldsOf(it)[j], d)[1] \subseteq given

\* So have the parameters given for their schemas.
UsageOK(it, d, v, n) ==
    /\ v = [relevant |-> v.relevant, usage |-> v.usage] /\ IsSeq(v.usage)
    /\ d = "schema" => \A j \in 1..n : ParamsOf(FieldsOf(it)[j]) # <<>> =>
           ToSet(ParamsOf(FieldsOf(it)[j])[1]) \subseteq ToSet(v.usage)

DerivedOK(impl) ==
    impl.derive = "schema" => \A j \in 1..Len(FieldsOf(impl.item)) :
        ParamsOf(FieldsOf(impl.item)[j]) # <<>> =>
            \A entry \in ToSet(ParamsOf(FieldsOf(impl.item)[j])[1]) :
                entry[1] \in Names(impl.item) => Predicate(entry[2], "schema") \in impl.derived

\* What has been generated is of an item that was to be expanded, and is accepted
\* if there is no error in it.
ImplOK(impl) ==
    /\ Expected(impl.item, impl.derive)
    /\ impl.accepted \in BOOLEAN /\ (impl.accepted <=> ~Bad(impl.item))
    /\ impl.accepted => /\ BodyOK(impl.item, impl.derive, impl.body, Len(FieldsOf(impl.item)))
                        /\ GivenOK(impl.item, impl.derive, impl.overrides, Len(FieldsOf(impl.item)))
                        /\ DerivedOK(impl)

\* Nothing is forgotten: neither a derive of an item, nor a struct of a variant.
CoverOK ==
    /\ \A i \in DOMAIN program : \A d \in DeriveNames : Covered(program[i], d)
    /\ \A k \in DOMAIN impls : impls[k].accepted /\ impls[k].derive = "schema" /\ impls[k].item.enum =>
           \A v \in DOMAIN impls[k].item.variants : Covered(InnerStruct(impls[k].item, v), "schema")

\* An expansion has looked at the first fields, found no error in them, and done
\* what they ask for.
WorkOK ==
    /\ stage \in {"attributes", "fields"}
    /\ stage = "attributes" => at = 0 /\ body = <<>> /\ visitor = NewVisitor /\ overrides = {}
    /\ stage = "fields" =>
         /\ todo # <<>> /\ ~ItemError(item) /\ at \in 0..Len(FieldsOf(item))
         /\ \A j \in 1..at : ~FieldError(FieldsOf(item)[j])
         /\ BodyOK(item, derive, body, at) /\ GivenOK(item, derive, overrides, at)
         /\ UsageOK(item, derive, visitor, at)

IInv ==
    /\ ProgramOK
    /\ IsSeq(todo) /\ \A k \in DOMAIN todo : Expected(todo[k].item, todo[k].derive)
    /\ IsSeq(impls) /\ \A k \in DOMAIN impls : ImplOK(impls[k])
    /\ CoverOK /\ WorkOK
-----------------------------------------------------------------------------
(* One field.                                                              *)

LEMMA FieldIdsAre ==
    ASSUME NEW calls, IsSeq(calls)
    PROVE  /\ IsSeq(FieldIds(calls)) /\ Len(FieldIds(calls)) = Len(calls)
           /\ \A i \in 1..Len(calls) : FieldIds(calls)[i] = calls[i].field
<1>1. Len(calls) \in Nat /\ DOMAIN calls = 1..Len(calls)
  BY SeqIs
<1>2. FieldIds(calls) = [i \in 1..Len(calls) |-> calls[i].field]
  BY <1>1 DEF FieldIds
<1>3. IsSeq(FieldIds(calls)) /\ Len(FieldIds(calls)) = Len(calls)
  BY <1>1, <1>2, FunctionIsSeq
<1>. QED
  BY <1>2, <1>3

LEMMA FieldIdsAppend ==
    ASSUME NEW calls, IsSeq(calls), NEW call
    PROVE  FieldIds(Append(calls, call)) = Append(FieldIds(calls), call.field)
<1>1. /\ IsSeq(Append(calls, call)) /\ Len(Append(calls, call)) = Len(calls) + 1 /\ Len(calls) \in Nat
      /\ \A i \in 1..Len(calls) : Append(calls, call)[i] = calls[i]
      /\ Append(calls, call)[Len(calls) + 1] = call
  BY AppendIs, SeqIs
<1>. DEFINE t == Append(calls, call)
            a == FieldIds(t)
            b == Append(FieldIds(calls), call.field)
<1>2. IsSeq(a) /\ Len(a) = Len(calls) + 1 /\ \A j \in 1..(Len(calls) + 1) : a[j] = t[j].field
  <2>. HIDE DEF t
  <2>. QED
    BY <1>1, FieldIdsAre DEF t
<1>3. /\ IsSeq(b) /\ Len(b) = Len(calls) + 1
      /\ \A j \in 1..Len(calls) : b[j] = calls[j].field
      /\ b[Len(calls) + 1] = call.field
  BY FieldIdsAre, AppendIs
<1>4. ASSUME NEW j \in 1..Len(a) PROVE a[j] = b[j]
  <2>. HIDE DEF a, b
  <2>1. j \in 1..Len(calls) \/ j = Len(calls) + 1
    BY <1>1, <1>2
  <2>. QED
    BY <1>1, <1>2, <1>3, <2>1
<1>. QED
  <2>. HIDE DEF a, b
  <2>1. a = b
    BY <1>2, <1>3, <1>4, SameSeq
  <2>. QED
    BY <2>1 DEF a, b

\* One more call reads its field, or makes it.
LEMMA ReadsAppend ==
    ASSUME NEW calls, IsSeq(calls), NEW call
    PROVE  Reads(Append(calls, call)) =
               IF call.trait = "de" THEN Append(Reads(calls), call.field) ELSE Reads(calls)
<1>. DEFINE t == Append(calls, call)
            ids == FieldIds(calls)
            reading(cs) == {i \in DOMAIN cs : cs[i].trait = "de"}
            places == reading(t)
<1>1. /\ IsSeq(t) /\ Len(t) = Len(calls) + 1 /\ Len(calls) \in Nat
      /\ \A i \in 1..Len(calls) : t[i] = calls[i]
      /\ t[Len(calls) + 1] = call
  BY AppendIs, SeqIs
<1>2. IsSeq(ids) /\ Len(ids) = Len(calls) /\ FieldIds(t) = Append(ids, call.field)
  BY FieldIdsAre, FieldIdsAppend
<1>3. DOMAIN calls = 1..Len(calls) /\ DOMAIN t = 1..Len(t)
  <2>. HIDE DEF t
  <2>. QED
    BY <1>1, SeqIs
<1>. HIDE DEF t, ids
<1>4. Len(calls) + 1 \in places <=> call.trait = "de"
  BY <1>1, <1>3
<1>5. places \cap (1..Len(ids)) = reading(calls) \cap (1..Len(ids))
  BY <1>1, <1>2, <1>3
<1>6. Reads(t) = Picked(FieldIds(t), places) /\ Reads(calls) = Picked(ids, reading(calls))
  BY DEF Reads, ids
<1>. HIDE DEF places, reading
<1>7. Picked(ids, places) = Picked(ids, reading(calls))
  BY <1>2, <1>5, PickedSame
<1>8. Picked(Append(ids, call.field), places) =
          IF Len(ids) + 1 \in places THEN Append(Picked(ids, places), call.field) ELSE Picked(ids, places)
  BY <1>2, PickedAppend
<1>. QED
  BY <1>2, <1>4, <1>6, <1>7, <1>8 DEF t

\* The call of a field is of the function that takes its place.
LEMMA CallForIs ==
    ASSUME NEW f, IsField(f), ~FieldError(f), NEW d \in DeriveNames
    PROVE  /\ CallFor(f, d).field = f.id /\ CallFor(f, d).trait = d
           /\ Replaces(f, d) => CallFor(f, d).op = "function"
<1>1. CallFor(f, d).field = f.id /\ CallFor(f, d).trait = d
  BY DEF CallFor, Call
<1>2. CASE d = "schema"
  <2>1. ASSUME Replaces(f, d) PROVE FuncsOf(f) # <<>> /\ FuncsOf(f)[1].declaration
    <3>1. FuncsOf(f) # <<>> /\ (FuncsOf(f)[1].declaration \/ FuncsOf(f)[1].definitions)
      BY <1>2, <2>1 DEF Replaces
    <3>2. FuncsOf(f)[1].declaration = FuncsOf(f)[1].definitions
      BY <3>1, NoContradiction
    <3>. QED
      BY <3>1, <3>2
  <2>. QED
    BY <1>1, <1>2, <2>1 DEF CallFor, Call
<1>3. CASE d \in {"ser", "de"}
  BY <1>1, <1>3 DEF CallFor, Call, Replaces
<1>. QED
  BY <1>2, <1>3 DEF DeriveNames

\* A function of the user takes the place of nothing in a skipped field.
LEMMA SkippedIsNotReplaced ==
    ASSUME NEW f, IsField(f), ~FieldError(f), Skipped(f), NEW d \in DeriveNames
    PROVE  ~Replaces(f, d)
BY NoContradiction DEF Replaces, DeriveNames

\* Nothing is called for a field that is skipped, and the structs of an enum are left
\* for later.
LEMMA BodySkips ==
    ASSUME NEW it, IsItem(it), NEW d \in DeriveNames, NEW calls,
           NEW n \in 0..Len(FieldsOf(it)), n < Len(FieldsOf(it)), BodyOK(it, d, calls, n),
           ~FieldError(FieldsOf(it)[n + 1]), d # "de", Skipped(FieldsOf(it)[n + 1]) \/ ~Direct(it, d)
    PROVE  BodyOK(it, d, calls, n + 1)
<1>. DEFINE fs == FieldsOf(it)
            f == fs[n + 1]
            b == Beginning(fs, n)
<1>1. IsSeq(fs) /\ Len(fs) \in Nat /\ IsField(f)
  <2>1. n + 1 \in 1..Len(FieldsOf(it))
    BY FieldsAre
  <2>. QED
    BY <2>1, FieldsAre
<1>. HIDE DEF fs
<1>2. IsSeq(b) /\ Beginning(fs, n + 1) = Append(b, f)
  BY <1>1, BeginningIs DEF fs
<1>. HIDE DEF f, b
<1>3. Written(Append(b, f)) = IF Skipped(f) THEN Written(b) ELSE Append(Written(b), f.id)
  BY <1>2, WrittenAppend
<1>4. /\ IsSeq(calls)
      /\ Direct(it, d) => FieldIds(calls) = Written(b)
      /\ Direct(it, d) => \A j \in 1..n : Replaces(fs[j], d) =>
             \E call \in ToSet(calls) : call.field = fs[j].id /\ call.op = "function"
  BY DEF BodyOK, fs, b
<1>5. ASSUME Direct(it, d), NEW j \in 1..(n + 1), Replaces(fs[j], d)
      PROVE  \E call \in ToSet(calls) : call.field = fs[j].id /\ call.op = "function"
  <2>1. j # n + 1
    BY <1>1, <1>5, SkippedIsNotReplaced DEF f, fs
  <2>2. j \in 1..n
    BY <2>1
  <2>. QED
    BY <1>4, <1>5, <2>2
<1>6. Direct(it, d) => FieldIds(calls) = Written(Append(b, f))
  BY <1>3, <1>4 DEF f, fs
<1>. QED
  BY <1>2, <1>4, <1>5, <1>6 DEF BodyOK, fs

\* A call is added for a field.
LEMMA BodyAppends ==
    ASSUME NEW it, IsItem(it), NEW d \in DeriveNames, NEW calls, NEW call,
           NEW n \in 0..Len(FieldsOf(it)), n < Len(FieldsOf(it)), BodyOK(it, d, calls, n),
           call.field = FieldsOf(it)[n + 1].id,
           Replaces(FieldsOf(it)[n + 1], d) => call.op = "function",
           d = "de" => (call.trait = "de" <=> ~Skipped(FieldsOf(it)[n + 1])),
           d # "de" => ~Skipped(FieldsOf(it)[n + 1])
    PROVE  BodyOK(it, d, Append(calls, call), n + 1)
<1>. DEFINE fs == FieldsOf(it)
            f == fs[n + 1]
            b == Beginning(fs, n)
            more == Append(calls, call)
<1>1. IsSeq(fs) /\ Len(fs) \in Nat
  BY FieldsAre
<1>. HIDE DEF fs
<1>2. IsSeq(b) /\ Beginning(fs, n + 1) = Append(b, f)
  BY <1>1, BeginningIs DEF fs
<1>. HIDE DEF f, b
<1>3. /\ Written(Append(b, f)) = IF Skipped(f) THEN Written(b) ELSE Append(Written(b), f.id)
      /\ Ids(Append(b, f)) = Append(Ids(b), f.id)
  BY <1>2, WrittenAppend, IdsAppend
<1>4. /\ IsSeq(calls)
      /\ d # "de" /\ Direct(it, d) => FieldIds(calls) = Written(b)
      /\ d = "de" => FieldIds(calls) = Ids(b) /\ Reads(calls) = Written(b)
      /\ Direct(it, d) => \A j \in 1..n : Replaces(fs[j], d) =>
             \E c \in ToSet(calls) : c.field = fs[j].id /\ c.op = "function"
  BY DEF BodyOK, fs, b
<1>5. /\ IsSeq(more) /\ ToSet(more) = ToSet(calls) \cup {call}
      /\ FieldIds(more) = Append(FieldIds(calls), call.field)
      /\ Reads(more) = IF call.trait = "de" THEN Append(Reads(calls), call.field) ELSE Reads(calls)
  <2>1. IsSeq(calls)
    BY <1>4
  <2>2. IsSeq(more) /\ ToSet(more) = ToSet(calls) \cup {call}
    BY <2>1, AppendIs
  <2>3. FieldIds(more) = Append(FieldIds(calls), call.field)
    BY <2>1, FieldIdsAppend
  <2>4. Reads(more) = IF call.trait = "de" THEN Append(Reads(calls), call.field) ELSE Reads(calls)
    BY <2>1, ReadsAppend
  <2>. QED
    BY <2>2, <2>3, <2>4
<1>. HIDE DEF more
<1>6. ASSUME Direct(it, d), NEW j \in 1..(n + 1), Replaces(fs[j], d)
      PROVE  \E c \in ToSet(more) : c.field = fs[j].id /\ c.op = "function"
  <2>1. CASE j = n + 1
    BY <1>5, <1>6, <2>1 DEF fs
  <2>2. CASE j # n + 1
    <3>1. j \in 1..n
      BY <2>2
    <3>. QED
      BY <1>4, <1>5, <1>6, <3>1
  <2>. QED
    BY <2>1, <2>2
<1>7. call.field = f.id /\ (d = "de" => (call.trait = "de" <=> ~Skipped(f))) /\ (d # "de" => ~Skipped(f))
  BY DEF f, fs
<1>8. /\ d # "de" /\ Direct(it, d) => FieldIds(more) = Written(Append(b, f))
      /\ d = "de" => FieldIds(more) = Ids(Append(b, f)) /\ Reads(more) = Written(Append(b, f))
  BY <1>3, <1>4, <1>5, <1>7
<1>. QED
  BY <1>2, <1>5, <1>6, <1>8 DEF BodyOK, fs, more
-----------------------------------------------------------------------------
(* The end of an expansion.                                                *)

\* The program and its attributes stay as they are, and so does what is known of
\* the impls.
LEMMA SourceKept ==
    ASSUME UNCHANGED source
    PROVE  /\ ProgramOK => ProgramOK'
           /\ \A it, d : Expected(it, d) => Expected(it, d)'
           /\ \A it : ItemError(it)' <=> ItemError(it)
           /\ \A impl : ImplOK(impl) => ImplOK(impl)'
<1>1. program' = program /\ cargo' = cargo
  BY DEF source
<1>2. ProgramOK => ProgramOK'
  BY <1>1 DEF ProgramOK
<1>3. \A it, d : Expected(it, d) => Expected(it, d)'
  BY <1>1 DEF Expected
<1>4. \A it : ItemError(it)' <=> ItemError(it)
  BY <1>1 DEF ItemError
<1>5. \A it : Bad(it)' <=> Bad(it)
  BY <1>4 DEF Bad
<1>6. ASSUME NEW impl, ImplOK(impl) PROVE ImplOK(impl)'
  BY <1>3, <1>5, <1>6 DEF ImplOK
<1>. QED
  BY <1>2, <1>3, <1>4, <1>6

LEMMA ProgramIs ==
    ASSUME ProgramOK
    PROVE  /\ IsSeq(program)
           /\ \A i \in DOMAIN program : IsItem(program[i]) /\ WellFormed(program[i])
           /\ \A i, j \in DOMAIN program :
                /\ program[i].name = program[j].name => i = j
                /\ \A v \in DOMAIN program[j].variants : program[i].name # VariantName(program[j], v)
BY ProgramsAreRust DEF ProgramOK

LEMMA ExpectedIsItem ==
    ASSUME ProgramOK, NEW it, NEW d, Expected(it, d)
    PROVE  IsItem(it) /\ d \in DeriveNames
<1>1. CASE d \in DeriveNames /\ \E i \in DOMAIN program : it = program[i]
  BY <1>1, ProgramIs
<1>2. ASSUME d = "schema", NEW i \in DOMAIN program, NEW v \in DOMAIN program[i].variants,
             it = InnerStruct(program[i], v)
      PROVE  IsItem(it) /\ d \in DeriveNames
  <2>1. IsItem(program[i])
    BY ProgramIs
  <2>. QED
    BY <1>2, <2>1, InnerIsItem DEF DeriveNames
<1>. QED
  BY <1>1, <1>2 DEF Expected

\* The expansion that is under way.
LEMMA Working ==
    ASSUME IInv, todo # <<>>
    PROVE  /\ Expected(item, derive) /\ IsItem(item) /\ derive \in DeriveNames
           /\ IsSeq(Tail(todo)) /\ Len(todo) \in Nat \ {0} /\ DOMAIN todo = 1..Len(todo)
           /\ item = todo[1].item /\ derive = todo[1].derive
           /\ Len(Tail(todo)) = Len(todo) - 1 /\ DOMAIN Tail(todo) = 1..(Len(todo) - 1)
           /\ \A k \in 1..(Len(todo) - 1) : Tail(todo)[k] = todo[k + 1]
<1>1. IsSeq(todo) /\ todo \in Seq(ToSet(todo)) /\ ProgramOK
  BY DEF IInv, IsSeq
<1>2. /\ Tail(todo) \in Seq(ToSet(todo)) /\ Len(Tail(todo)) = Len(todo) - 1
      /\ \A k \in 1..Len(Tail(todo)) : Tail(todo)[k] = todo[k + 1]
  BY <1>1, HeadTailProperties
<1>3. Len(todo) \in Nat \ {0} /\ DOMAIN todo = 1..Len(todo) /\ Head(todo) = todo[1]
  BY <1>1, SeqIs, EmptySeq
<1>4. IsSeq(Tail(todo)) /\ DOMAIN Tail(todo) = 1..Len(Tail(todo))
  BY <1>2, AsSeq
<1>5. item = todo[1].item /\ derive = todo[1].derive /\ Expected(item, derive)
  BY <1>3 DEF item, derive, IInv
<1>. QED
  BY <1>1, <1>2, <1>3, <1>4, <1>5, ExpectedIsItem

\* When an expansion is over its impl is there, and what it has left to do is to be
\* done.
LEMMA LeaveKeeps ==
    ASSUME IInv, todo # <<>>, NEW impl, impl.item = item, impl.derive = derive, ImplOK(impl),
           NEW more, IsSeq(more), \A k \in DOMAIN more : Expected(more[k].item, more[k].derive),
           impl.accepted /\ derive = "schema" /\ item.enum =>
               \A v \in DOMAIN item.variants :
                   \E k \in DOMAIN more : more[k].item = InnerStruct(item, v) /\ more[k].derive = "schema",
           Leave(impl, more)
    PROVE  IInv'
<1>. DEFINE rest == Tail(todo)
            covered(it, d) == \/ \E k \in DOMAIN todo' : todo'[k].item = it /\ todo'[k].derive = d
                              \/ \E k \in DOMAIN impls' : impls'[k].item = it /\ impls'[k].derive = d
<1>1. /\ impls' = Append(impls, impl) /\ todo' = more \o rest
      /\ stage' = "attributes" /\ at' = 0
      /\ visitor' = NewVisitor /\ overrides' = {} /\ body' = <<>>
      /\ UNCHANGED source
  BY DEF Leave
<1>2. /\ IsSeq(rest) /\ DOMAIN rest = 1..Len(rest) /\ Len(rest) \in Nat
      /\ Len(rest) = Len(todo) - 1 /\ Len(todo) \in Nat
      /\ \A k \in 1..(Len(todo) - 1) : rest[k] = todo[k + 1]
      /\ DOMAIN todo = 1..Len(todo)
      /\ item = todo[1].item /\ derive = todo[1].derive
  <2>1. IsSeq(rest)
    BY Working
  <2>. QED
    BY <2>1, Working, SeqIs
<1>3. IsSeq(impls) /\ Len(impls) \in Nat /\ DOMAIN impls = 1..Len(impls)
  BY SeqIs DEF IInv
<1>4. /\ IsSeq(impls') /\ DOMAIN impls' = 1..(Len(impls) + 1)
      /\ \A k \in 1..Len(impls) : impls'[k] = impls[k]
      /\ impls'[Len(impls) + 1] = impl
  <2>1. /\ IsSeq(impls') /\ Len(impls') = Len(impls) + 1
        /\ \A k \in 1..Len(impls) : impls'[k] = impls[k]
        /\ impls'[Len(impls) + 1] = impl
    BY <1>1, <1>3, AppendIs
  <2>. QED
    BY <2>1, SeqIs
<1>5. /\ IsSeq(todo') /\ DOMAIN todo' = 1..(Len(more) + Len(rest)) /\ Len(more) \in Nat /\ DOMAIN more = 1..Len(more)
      /\ \A k \in 1..Len(more) : todo'[k] = more[k]
      /\ \A k \in 1..Len(rest) : todo'[Len(more) + k] = rest[k]
  <2>. HIDE DEF rest
  <2>1. /\ IsSeq(todo') /\ Len(todo') = Len(more) + Len(rest)
        /\ \A k \in 1..Len(more) : todo'[k] = more[k]
        /\ \A k \in 1..Len(rest) : todo'[Len(more) + k] = rest[k]
    BY <1>1, <1>2, ConcatIs
  <2>. QED
    BY <2>1, SeqIs
<1>. HIDE DEF rest, covered
<1>6. ASSUME NEW it, NEW d, Covered(it, d) PROVE covered(it, d)
  <2>1. ASSUME NEW k \in DOMAIN impls, impls[k].item = it, impls[k].derive = d
        PROVE  \E j \in DOMAIN impls' : impls'[j].item = it /\ impls'[j].derive = d
    <3>1. k \in DOMAIN impls' /\ impls'[k] = impls[k]
      BY <1>3, <1>4
    <3>. QED
      BY <2>1, <3>1
  <2>2. ASSUME NEW k \in DOMAIN todo, todo[k].item = it, todo[k].derive = d, k = 1
        PROVE  \E j \in DOMAIN impls' : impls'[j].item = it /\ impls'[j].derive = d
    <3>1. Len(impls) + 1 \in DOMAIN impls' /\ impls'[Len(impls) + 1] = impl
      BY <1>3, <1>4
    <3>2. impl.item = it /\ impl.derive = d
      BY <1>2, <2>2
    <3>. QED
      BY <3>1, <3>2
  <2>3. ASSUME NEW k \in DOMAIN todo, todo[k].item = it, todo[k].derive = d, k # 1
        PROVE  \E j \in DOMAIN todo' : todo'[j].item = it /\ todo'[j].derive = d
    <3>1. k - 1 \in 1..Len(rest) /\ rest[k - 1] = todo[k] /\ k \in Nat
      <4>1. k \in 1..Len(todo) /\ k - 1 \in 1..(Len(todo) - 1) /\ (k - 1) + 1 = k
        BY <1>2, <2>3
      <4>. QED
        BY <1>2, <4>1
    <3>2. Len(more) + (k - 1) \in DOMAIN todo' /\ todo'[Len(more) + (k - 1)] = todo[k]
      BY <1>2, <1>5, <3>1
    <3>. QED
      BY <2>3, <3>2
  <2>. QED
    BY <1>6, <2>1, <2>2, <2>3 DEF Covered, covered
<1>7. program' = program
  BY <1>1 DEF source
<1>8. CoverOK'
  <2>1. ASSUME NEW i \in DOMAIN program', NEW d \in DeriveNames PROVE covered(program'[i], d)
    <3>1. Covered(program[i], d)
      BY <1>7 DEF IInv, CoverOK
    <3>. QED
      BY <1>6, <1>7, <3>1
  <2>2. ASSUME NEW k \in DOMAIN impls', NEW x, x = impls'[k], x.accepted, x.derive = "schema", x.item.enum,
               NEW v \in DOMAIN x.item.variants
        PROVE  covered(InnerStruct(x.item, v), "schema")
    <3>1. CASE k = Len(impls) + 1
      <4>1. x = impl
        BY <1>4, <2>2, <3>1
      <4>2. PICK j \in DOMAIN more : more[j].item = InnerStruct(item, v) /\ more[j].derive = "schema"
        BY <2>2, <4>1
      <4>3. j \in DOMAIN todo' /\ todo'[j] = more[j]
        BY <1>2, <1>5
      <4>4. \E m \in DOMAIN todo' : todo'[m].item = InnerStruct(x.item, v) /\ todo'[m].derive = "schema"
        BY <4>1, <4>2, <4>3
      <4>. QED
        BY <4>4 DEF covered
    <3>2. CASE k # Len(impls) + 1
      <4>1. k \in DOMAIN impls /\ x = impls[k]
        BY <1>3, <1>4, <2>2, <3>2
      <4>2. Covered(InnerStruct(x.item, v), "schema")
        BY <2>2, <4>1 DEF IInv, CoverOK
      <4>. QED
        BY <1>6, <4>2
    <3>. QED
      BY <3>1, <3>2
  <2>. QED
    BY <2>1, <2>2 DEF CoverOK, Covered, covered
<1>9. ASSUME NEW k \in DOMAIN todo', NEW x, x = todo'[k] PROVE Expected(x.item, x.derive)
  <2>1. CASE k \in 1..Len(more)
    <3>1. Expected(more[k].item, more[k].derive) /\ x = more[k]
      BY <1>5, <1>9, <2>1
    <3>. QED
      BY <3>1
  <2>2. CASE k \notin 1..Len(more)
    <3>1. k - Len(more) \in 1..Len(rest) /\ Len(more) + (k - Len(more)) = k
      BY <1>2, <1>5, <2>2
    <3>2. x = rest[k - Len(more)]
      BY <1>5, <1>9, <3>1
    <3>3. (k - Len(more)) + 1 \in DOMAIN todo /\ rest[k - Len(more)] = todo[(k - Len(more)) + 1]
      BY <1>2, <3>1
    <3>. QED
      BY <3>2, <3>3 DEF IInv
  <2>. QED
    BY <2>1, <2>2
<1>10. ASSUME NEW k \in DOMAIN impls', NEW x, x = impls'[k] PROVE ImplOK(x)
  <2>1. CASE k = Len(impls) + 1
    BY <1>4, <1>10, <2>1
  <2>2. CASE k # Len(impls) + 1
    <3>1. k \in DOMAIN impls /\ x = impls[k]
      BY <1>3, <1>4, <1>10, <2>2
    <3>. QED
      BY <3>1 DEF IInv
  <2>. QED
    BY <2>1, <2>2
<1>11. WorkOK'
  BY <1>1 DEF WorkOK
<1>12. ProgramOK'
  BY <1>1, SourceKept DEF IInv
<1>13. cargo' = cargo
  BY <1>1 DEF source
<1>14. \A k \in DOMAIN todo' : Expected(todo[k].item, todo[k].derive)'
  BY <1>7, <1>9 DEF Expected
<1>15. \A k \in DOMAIN impls' : ImplOK(impls[k])'
  BY <1>7, <1>10, <1>13 DEF ImplOK, Expected, Bad, ItemError
<1>16. IsSeq(todo)' /\ IsSeq(impls)'
  BY <1>4, <1>5
<1>. QED
  BY <1>8, <1>11, <1>12, <1>14, <1>15, <1>16 DEF IInv
-----------------------------------------------------------------------------
(* A step of an expansion.                                                 *)

LEMMA AtFieldIs ==
    ASSUME IInv, NEW d, AtField(d)
    PROVE  /\ derive = d /\ d \in DeriveNames /\ IsItem(item) /\ todo # <<>> /\ stage = "fields" /\ ~ItemError(item)
           /\ Len(FieldsOf(item)) \in Nat /\ at \in 0..Len(FieldsOf(item)) /\ at < Len(FieldsOf(item))
           /\ at + 1 \in 1..Len(FieldsOf(item)) /\ field = FieldsOf(item)[at + 1] /\ IsField(field)
           /\ \A j \in 1..at : ~FieldError(FieldsOf(item)[j])
           /\ BodyOK(item, d, body, at) /\ GivenOK(item, d, overrides, at) /\ UsageOK(item, d, visitor, at)
<1>1. todo # <<>> /\ stage = "fields" /\ derive = d /\ at < Len(FieldsOf(item))
  BY DEF AtField, Expanding
<1>2. IsItem(item) /\ derive \in DeriveNames
  BY <1>1, Working
<1>3. Len(FieldsOf(item)) \in Nat
  BY <1>2, FieldsAre
<1>4. /\ ~ItemError(item) /\ at \in 0..Len(FieldsOf(item))
      /\ \A j \in 1..at : ~FieldError(FieldsOf(item)[j])
      /\ BodyOK(item, derive, body, at) /\ GivenOK(item, derive, overrides, at)
      /\ UsageOK(item, derive, visitor, at)
  BY <1>1 DEF IInv, WorkOK
<1>5. at + 1 \in 1..Len(FieldsOf(item)) /\ field = FieldsOf(item)[at + 1]
  BY <1>1, <1>3, <1>4 DEF field
<1>6. IsField(field)
  BY <1>2, <1>5, FieldsAre
<1>. QED
  BY <1>1, <1>2, <1>3, <1>4, <1>5, <1>6

LEMMA FieldDone ==
    ASSUME IInv, NEW d, AtField(d), ~FieldError(field), at' = at + 1, UNCHANGED <<source, todo, stage, impls>>,
           NEW calls, calls = body', BodyOK(item, d, calls, at + 1),
           NEW given, given = overrides', GivenOK(item, d, given, at + 1),
           NEW v, v = visitor', UsageOK(item, d, v, at + 1)
    PROVE  IInv'
<1>1. program' = program /\ cargo' = cargo /\ todo' = todo /\ stage' = stage /\ impls' = impls
  BY DEF source
<1>2. /\ derive = d /\ todo # <<>> /\ stage = "fields" /\ ~ItemError(item) /\ Len(FieldsOf(item)) \in Nat
      /\ at \in 0..Len(FieldsOf(item)) /\ at < Len(FieldsOf(item)) /\ field = FieldsOf(item)[at + 1]
      /\ \A j \in 1..at : ~FieldError(FieldsOf(item)[j])
  BY AtFieldIs
<1>3. item' = item /\ derive' = derive
  BY <1>1 DEF item, derive
<1>4. ASSUME NEW j \in 1..(at + 1) PROVE ~FieldError(FieldsOf(item)[j])
  <2>1. j = at + 1 \/ j \in 1..at
    BY <1>2
  <2>. QED
    BY <1>2, <2>1
<1>5. at + 1 \in 0..Len(FieldsOf(item))
  BY <1>2
<1>6. WorkOK'
  <2>1. ~ItemError(item)'
    BY <1>1, <1>2, <1>3 DEF ItemError
  <2>. QED
    BY <1>1, <1>2, <1>3, <1>4, <1>5, <2>1 DEF WorkOK
<1>7. CoverOK'
  BY <1>1 DEF IInv, CoverOK, Covered
<1>8. ProgramOK' /\ IsSeq(todo)' /\ IsSeq(impls)'
  BY <1>1 DEF IInv, ProgramOK
<1>9. \A k \in DOMAIN todo' : Expected(todo[k].item, todo[k].derive)'
  BY <1>1 DEF IInv, Expected
<1>10. \A k \in DOMAIN impls' : ImplOK(impls[k])'
  BY <1>1 DEF IInv, ImplOK, Expected, Bad, ItemError
<1>. QED
  BY <1>6, <1>7, <1>8, <1>9, <1>10 DEF IInv

\* The bounds given for a field are collected with the others.
LEMMA GivenGrows ==
    ASSUME NEW it, NEW d, NEW given, NEW n \in Nat, GivenOK(it, d, given, n)
    PROVE  GivenOK(it, d, given \cup (IF BoundOf(FieldsOf(it)[n + 1], d) = <<>> THEN {}
                                      ELSE BoundOf(FieldsOf(it)[n + 1], d)[1]), n + 1)
<1>. DEFINE all == given \cup (IF BoundOf(FieldsOf(it)[n + 1], d) = <<>> THEN {}
                               ELSE BoundOf(FieldsOf(it)[n + 1], d)[1])
<1>1. ASSUME d # "schema", NEW j \in 1..(n + 1), BoundOf(FieldsOf(it)[j], d) # <<>>
      PROVE  BoundOf(FieldsOf(it)[j], d)[1] \subseteq all
  <2>1. CASE j = n + 1
    BY <1>1, <2>1
  <2>2. CASE j \in 1..n
    BY <1>1, <2>2 DEF GivenOK
  <2>. QED
    BY <2>1, <2>2
<1>. QED
  BY <1>1 DEF GivenOK

LEMMA RecordUpdates ==
    ASSUME NEW a, NEW u, NEW x, NEW v, v = [relevant |-> a, usage |-> u]
    PROVE  /\ [v EXCEPT !.relevant = x] = [relevant |-> x, usage |-> u]
           /\ [v EXCEPT !.usage = x] = [relevant |-> a, usage |-> x]
OBVIOUS

\* A visit only adds to what has been recorded.
LEMMA VisitKeeps ==
    ASSUME NEW it, NEW d, NEW v, NEW n \in Nat, UsageOK(it, d, v, n), NEW more, NEW ty
    PROVE  /\ VisitField(v, more, ty) = [relevant |-> VisitField(v, more, ty).relevant,
                                         usage |-> VisitField(v, more, ty).usage]
           /\ IsSeq(VisitField(v, more, ty).usage) /\ ToSet(v.usage) \subseteq ToSet(VisitField(v, more, ty).usage)
<1>. DEFINE seen == [v EXCEPT !.relevant = @ \cup (Visited(ty) \cap Names(more))]
            u == v.usage
            w == VisitField(v, more, ty)
<1>1. v = [relevant |-> v.relevant, usage |-> u] /\ IsSeq(u)
  BY DEF UsageOK
<1>2. seen = [relevant |-> seen.relevant, usage |-> u]
  <2>. DEFINE r == v.relevant \cup (Visited(ty) \cap Names(more))
  <2>1. seen = [v EXCEPT !.relevant = r]
    OBVIOUS
  <2>. HIDE DEF r, seen, u
  <2>2. seen = [relevant |-> r, usage |-> u]
    BY <1>1, <2>1, RecordUpdates
  <2>. QED
    BY <2>2
<1>3. IsSeq(Append(u, <<ty.p, ty>>)) /\ ToSet(u) \subseteq ToSet(Append(u, <<ty.p, ty>>))
  <2>. HIDE DEF u
  <2>. QED
    BY <1>1, AppendIs
<1>4. w = IF ty.k = "assoc" /\ ty.p \in Names(more) THEN InsertUsage(seen, ty.p, ty) ELSE seen
  BY DEF VisitField
<1>5. InsertUsage(seen, ty.p, ty) = [relevant |-> seen.relevant, usage |-> Append(u, <<ty.p, ty>>)]
  <2>. DEFINE x == Append(u, <<ty.p, ty>>)
  <2>1. seen.usage = u
    <3>. HIDE DEF seen, u
    <3>. QED
      BY <1>2
  <2>2. InsertUsage(seen, ty.p, ty) = [seen EXCEPT !.usage = x]
    <3>. HIDE DEF seen
    <3>. QED
      BY <2>1 DEF InsertUsage
  <2>. HIDE DEF x, seen, u
  <2>3. InsertUsage(seen, ty.p, ty) = [relevant |-> seen.relevant, usage |-> x]
    BY <1>2, <2>2, RecordUpdates
  <2>. QED
    BY <2>3 DEF x
<1>. HIDE DEF seen, u, w
<1>6. CASE ty.k = "assoc" /\ ty.p \in Names(more)
  <2>1. w = [relevant |-> seen.relevant, usage |-> Append(u, <<ty.p, ty>>)]
    BY <1>4, <1>5, <1>6
  <2>2. w = [relevant |-> w.relevant, usage |-> w.usage] /\ w.usage = Append(u, <<ty.p, ty>>)
    BY <2>1
  <2>. QED
    BY <1>3, <2>2 DEF w, u
<1>7. CASE ~(ty.k = "assoc" /\ ty.p \in Names(more))
  <2>1. w = [relevant |-> seen.relevant, usage |-> u]
    BY <1>2, <1>4, <1>7
  <2>2. w = [relevant |-> w.relevant, usage |-> w.usage] /\ w.usage = u
    BY <2>1
  <2>. QED
    BY <1>1, <2>2 DEF w, u
<1>. QED
  BY <1>6, <1>7

\* What the visitor has recorded stays there, whether it visits a field or not; a
\* field with params(...) adds them.
LEMMA UsageStays ==
    ASSUME NEW it, NEW d, NEW v, NEW n \in Nat, UsageOK(it, d, v, n),
           d = "schema" => ParamsOf(FieldsOf(it)[n + 1]) = <<>>
    PROVE  UsageOK(it, d, v, n + 1) /\ \A more, ty : UsageOK(it, d, VisitField(v, more, ty), n + 1)
<1>1. ASSUME NEW u, IsSeq(u), ToSet(v.usage) \subseteq ToSet(u), d = "schema",
             NEW j \in 1..(n + 1), ParamsOf(FieldsOf(it)[j]) # <<>>
      PROVE  ToSet(ParamsOf(FieldsOf(it)[j])[1]) \subseteq ToSet(u)
  <2>1. j \in 1..n
    <3>1. j # n + 1
      BY <1>1
    <3>. QED
      BY <3>1
  <2>. QED
    BY <1>1, <2>1 DEF UsageOK
<1>2. IsSeq(v.usage) /\ v = [relevant |-> v.relevant, usage |-> v.usage]
  BY DEF UsageOK
<1>3. UsageOK(it, d, v, n + 1)
  BY <1>1, <1>2 DEF UsageOK
<1>4. ASSUME NEW more, NEW ty PROVE UsageOK(it, d, VisitField(v, more, ty), n + 1)
  <2>1. /\ VisitField(v, more, ty) = [relevant |-> VisitField(v, more, ty).relevant,
                                      usage |-> VisitField(v, more, ty).usage]
        /\ IsSeq(VisitField(v, more, ty).usage) /\ ToSet(v.usage) \subseteq ToSet(VisitField(v, more, ty).usage)
    BY VisitKeeps
  <2>. QED
    BY <1>1, <2>1 DEF UsageOK
<1>. QED
  BY <1>3, <1>4

LEMMA UsageGrows ==
    ASSUME NEW it, NEW d, NEW v, NEW n \in Nat, UsageOK(it, d, v, n), IsSeq(ParamsOf(FieldsOf(it)[n + 1])[1])
    PROVE  UsageOK(it, d, [v EXCEPT !.usage = @ \o ParamsOf(FieldsOf(it)[n + 1])[1]], n + 1)
<1>. DEFINE more == ParamsOf(FieldsOf(it)[n + 1])[1]
            u == v.usage
            x == u \o more
            w == [v EXCEPT !.usage = @ \o more]
<1>1. v = [relevant |-> v.relevant, usage |-> u] /\ IsSeq(u)
  BY DEF UsageOK
<1>2. w = [v EXCEPT !.usage = x]
  OBVIOUS
<1>3. IsSeq(x) /\ ToSet(x) = ToSet(u) \cup ToSet(more)
  <2>. HIDE DEF u, more
  <2>1. IsSeq(more)
    BY DEF more
  <2>. QED
    BY <1>1, <2>1, ConcatIs
<1>4. w = [relevant |-> v.relevant, usage |-> x]
  <2>. HIDE DEF w, x, u, more
  <2>. QED
    BY <1>1, <1>2, RecordUpdates
<1>5. w = [relevant |-> w.relevant, usage |-> w.usage] /\ w.usage = x
  <2>. HIDE DEF w, x
  <2>. QED
    BY <1>4
<1>6. ASSUME d = "schema", NEW j \in 1..(n + 1), ParamsOf(FieldsOf(it)[j]) # <<>>
      PROVE  ToSet(ParamsOf(FieldsOf(it)[j])[1]) \subseteq ToSet(x)
  <2>1. CASE j = n + 1
    BY <1>3, <2>1
  <2>2. CASE j # n + 1
    <3>1. j \in 1..n
      BY <2>2
    <3>2. ToSet(ParamsOf(FieldsOf(it)[j])[1]) \subseteq ToSet(u)
      BY <1>6, <3>1 DEF UsageOK
    <3>. QED
      BY <1>3, <3>2
  <2>. QED
    BY <2>1, <2>2
<1>. QED
  <2>. HIDE DEF w, x
  <2>1. UsageOK(it, d, w, n + 1)
    BY <1>3, <1>5, <1>6 DEF UsageOK
  <2>. QED
    BY <2>1 DEF w

LEMMA SerializeFieldKeeps ==
    ASSUME IInv, SerializeField
    PROVE  IInv'
<1>1. /\ AtField("ser") /\ ~FieldError(field) /\ at' = at + 1 /\ UNCHANGED <<source, todo, stage, impls>>
      /\ body' = IF Skipped(field) THEN body ELSE Append(body, CallFor(field, "ser"))
      /\ visitor' = visitor \/ visitor' = VisitField(visitor, item, field.ty)
      /\ overrides' = overrides \cup (IF BoundOf(field, "ser") = <<>> THEN {} ELSE BoundOf(field, "ser")[1])
  BY DEF SerializeField, Override
<1>2. /\ IsItem(item) /\ at \in 0..Len(FieldsOf(item)) /\ at < Len(FieldsOf(item)) /\ at \in Nat
      /\ field = FieldsOf(item)[at + 1] /\ IsField(field) /\ "ser" \in DeriveNames
      /\ BodyOK(item, "ser", body, at) /\ GivenOK(item, "ser", overrides, at) /\ UsageOK(item, "ser", visitor, at)
  BY <1>1, AtFieldIs
<1>3. PICK calls : calls = body'
  OBVIOUS
<1>4. BodyOK(item, "ser", calls, at + 1)
  <2>1. CASE Skipped(field)
    <3>1. BodyOK(item, "ser", body, at + 1)
      BY <1>1, <1>2, <2>1, BodySkips
    <3>. QED
      BY <1>1, <1>3, <2>1, <3>1
  <2>2. CASE ~Skipped(field)
    <3>1. CallFor(field, "ser").field = field.id /\ (Replaces(field, "ser") => CallFor(field, "ser").op = "function")
      BY <1>1, <1>2, CallForIs
    <3>2. BodyOK(item, "ser", Append(body, CallFor(field, "ser")), at + 1)
      BY <1>2, <2>2, <3>1, BodyAppends
    <3>. QED
      BY <1>1, <1>3, <2>2, <3>2
  <2>. QED
    BY <2>1, <2>2
<1>5. PICK given : given = overrides'
  OBVIOUS
<1>6. GivenOK(item, "ser", given, at + 1)
  BY <1>1, <1>2, <1>5, GivenGrows
<1>7. PICK v : v = visitor'
  OBVIOUS
<1>8. UsageOK(item, "ser", v, at + 1)
  BY <1>1, <1>2, <1>7, UsageStays
<1>. QED
  BY <1>1, <1>3, <1>4, <1>5, <1>6, <1>7, <1>8, FieldDone

LEMMA DeserializeFieldKeeps ==
    ASSUME IInv, DeserializeField
    PROVE  IInv'
<1>. DEFINE call == IF Skipped(field) THEN Call("trait", "default", field) ELSE CallFor(field, "de")
<1>1. /\ AtField("de") /\ ~FieldError(field) /\ at' = at + 1 /\ UNCHANGED <<source, todo, stage, impls>>
      /\ body' = Append(body, call)
      /\ visitor' = visitor \/ visitor' = VisitField(visitor, item, field.ty)
      /\ overrides' = overrides \cup (IF BoundOf(field, "de") = <<>> THEN {} ELSE BoundOf(field, "de")[1])
  BY DEF DeserializeField, Override
<1>2. /\ IsItem(item) /\ at \in 0..Len(FieldsOf(item)) /\ at < Len(FieldsOf(item)) /\ at \in Nat
      /\ field = FieldsOf(item)[at + 1] /\ IsField(field) /\ "de" \in DeriveNames
      /\ BodyOK(item, "de", body, at) /\ GivenOK(item, "de", overrides, at) /\ UsageOK(item, "de", visitor, at)
  BY <1>1, AtFieldIs
<1>3. PICK calls : calls = body'
  OBVIOUS
<1>4. /\ call.field = field.id /\ (Replaces(field, "de") => call.op = "function")
      /\ call.trait = "de" <=> ~Skipped(field)
  <2>1. CASE Skipped(field)
    BY <1>1, <1>2, <2>1, SkippedIsNotReplaced DEF Call
  <2>2. CASE ~Skipped(field)
    BY <1>1, <1>2, <2>2, CallForIs
  <2>. QED
    BY <2>1, <2>2
<1>. HIDE DEF call
<1>5. BodyOK(item, "de", calls, at + 1)
  <2>1. BodyOK(item, "de", Append(body, call), at + 1)
    BY <1>2, <1>4, BodyAppends
  <2>. QED
    BY <1>1, <1>3, <2>1
<1>6. PICK given : given = overrides'
  OBVIOUS
<1>7. GivenOK(item, "de", given, at + 1)
  BY <1>1, <1>2, <1>6, GivenGrows
<1>8. PICK v : v = visitor'
  OBVIOUS
<1>9. UsageOK(item, "de", v, at + 1)
  BY <1>1, <1>2, <1>8, UsageStays
<1>. QED
  BY <1>1, <1>3, <1>5, <1>6, <1>7, <1>8, <1>9, FieldDone

LEMMA SchemaFieldKeeps ==
    ASSUME IInv, SchemaField
    PROVE  IInv'
<1>1. /\ AtField("schema") /\ ~FieldError(field) /\ at' = at + 1 /\ UNCHANGED <<source, todo, stage, impls>>
      /\ body' = IF Skipped(field) \/ item.enum THEN body ELSE Append(body, CallFor(field, "schema"))
      /\ visitor' = IF Skipped(field) THEN visitor
                    ELSE IF ParamsOf(field) = <<>> THEN VisitField(visitor, item, field.ty)
                    ELSE [visitor EXCEPT !.usage = @ \o ParamsOf(field)[1]]
      /\ overrides' = overrides
  BY DEF SchemaField
<1>2. /\ IsItem(item) /\ at \in 0..Len(FieldsOf(item)) /\ at < Len(FieldsOf(item)) /\ at \in Nat
      /\ field = FieldsOf(item)[at + 1] /\ IsField(field) /\ "schema" \in DeriveNames
      /\ BodyOK(item, "schema", body, at) /\ UsageOK(item, "schema", visitor, at)
  BY <1>1, AtFieldIs
<1>3. PICK calls : calls = body'
  OBVIOUS
<1>4. BodyOK(item, "schema", calls, at + 1)
  <2>1. CASE Skipped(field) \/ item.enum
    <3>1. Skipped(field) \/ ~Direct(item, "schema")
      BY <2>1 DEF Direct
    <3>2. BodyOK(item, "schema", body, at + 1)
      BY <1>1, <1>2, <3>1, BodySkips
    <3>. QED
      BY <1>1, <1>3, <2>1, <3>2
  <2>2. CASE ~(Skipped(field) \/ item.enum)
    <3>1. /\ CallFor(field, "schema").field = field.id
          /\ Replaces(field, "schema") => CallFor(field, "schema").op = "function"
      BY <1>1, <1>2, CallForIs
    <3>2. BodyOK(item, "schema", Append(body, CallFor(field, "schema")), at + 1)
      BY <1>2, <2>2, <3>1, BodyAppends
    <3>. QED
      BY <1>1, <1>3, <2>2, <3>2
  <2>. QED
    BY <2>1, <2>2
<1>5. PICK v : v = visitor'
  OBVIOUS
<1>6. UsageOK(item, "schema", v, at + 1)
  <2>1. CASE ParamsOf(field) = <<>>
    <3>1. v = visitor \/ v = VisitField(visitor, item, field.ty)
      BY <1>1, <1>5, <2>1
    <3>. QED
      BY <1>2, <2>1, <3>1, UsageStays
  <2>2. CASE ParamsOf(field) # <<>>
    <3>1. ~Skipped(field)
      BY <1>1, <1>2, <2>2, NoContradiction
    <3>2. v = [visitor EXCEPT !.usage = @ \o ParamsOf(field)[1]]
      BY <1>1, <1>5, <2>2, <3>1
    <3>3. IsSeq(ParamsOf(field)[1])
      BY <1>2, <2>2 DEF IsField
    <3>4. UsageOK(item, "schema", [visitor EXCEPT !.usage = @ \o ParamsOf(field)[1]], at + 1)
      BY <1>2, <3>3, UsageGrows
    <3>. QED
      BY <3>2, <3>4
  <2>. QED
    BY <2>1, <2>2
<1>7. GivenOK(item, "schema", overrides, at + 1)
  BY DEF GivenOK
<1>. QED
  BY <1>1, <1>3, <1>4, <1>5, <1>6, <1>7, FieldDone
-----------------------------------------------------------------------------
(* The bounds of a derive.                                                 *)

LEMMA OneIsSeq ==
    ASSUME NEW x
    PROVE  IsSeq(<<x>>) /\ IsSeq(<<>>)
<1>1. <<x>> \in Seq({x}) /\ <<>> \in Seq({x})
  OBVIOUS
<1>. QED
  BY <1>1, AsSeq

LEMMA NoneIs == IsSeq(<<>>) /\ Len(<<>>) = 0 /\ DOMAIN <<>> = {}
<1>1. IsSeq(<<>>)
  BY OneIsSeq
<1>2. Len(<<>>) = 0
  OBVIOUS
<1>3. DOMAIN <<>> = 1..Len(<<>>)
  BY <1>1, SeqIs
<1>. QED
  BY <1>1, <1>2, <1>3

\* Every type recorded for a parameter is among those of the parameter.
LEMMA OfParamIs ==
    ASSUME NEW v, IsSeq(v.usage), NEW p
    PROVE  /\ IsSeq(OfParam(v, p))
           /\ \A entry \in ToSet(v.usage) : entry[1] = p => entry[2] \in ToSet(OfParam(v, p))
           /\ OfParam(v, p) # <<>> <=> p \in v.relevant \/ \E entry \in ToSet(v.usage) : entry[1] = p
<1>. DEFINE types == [i \in DOMAIN v.usage |-> v.usage[i][2]]
            places == {i \in DOMAIN v.usage : v.usage[i][1] = p}
            first == IF p \in v.relevant THEN <<Param(p)>> ELSE <<>>
            second == Picked(types, places)
<1>1. Len(v.usage) \in Nat /\ DOMAIN v.usage = 1..Len(v.usage)
  BY SeqIs
<1>2. types = [i \in 1..Len(v.usage) |-> types[i]]
  BY <1>1
<1>3. \A i \in 1..Len(v.usage) : types[i] = v.usage[i][2]
  BY <1>1
<1>. HIDE DEF types
<1>4. IsSeq(types) /\ Len(types) = Len(v.usage)
  BY <1>1, <1>2, FunctionIsSeq
<1>5. IsSeq(second) /\ ToSet(second) = {types[i] : i \in places \cap (1..Len(types))}
  <2>. HIDE DEF places
  <2>. QED
    BY <1>4, PickedIs
<1>6. IsSeq(first) /\ (ToSet(first) # {} <=> p \in v.relevant)
  BY OneIsSeq, NoneIs DEF ToSet
<1>7. OfParam(v, p) = first \o second
  BY DEF OfParam, types
<1>. HIDE DEF first, second
<1>8. IsSeq(OfParam(v, p)) /\ ToSet(OfParam(v, p)) = ToSet(first) \cup ToSet(second)
  BY <1>5, <1>6, <1>7, ConcatIs
<1>9. ASSUME NEW entry \in ToSet(v.usage), entry[1] = p PROVE entry[2] \in ToSet(OfParam(v, p))
  <2>1. PICK i \in 1..Len(v.usage) : entry = v.usage[i]
    BY SeqIs
  <2>2. i \in places \cap (1..Len(types)) /\ types[i] = entry[2]
    BY <1>1, <1>3, <1>4, <1>9, <2>1
  <2>. QED
    BY <1>5, <1>8, <2>2
<1>10. OfParam(v, p) # <<>> <=> ToSet(OfParam(v, p)) # {}
  <2>. DEFINE s == OfParam(v, p)
  <2>1. IsSeq(s)
    BY <1>8
  <2>. HIDE DEF s
  <2>2. ASSUME ToSet(s) = {} PROVE s = <<>>
    BY <2>1, <2>2, EmptySeq DEF IsSeq
  <2>3. ToSet(<<>>) = {}
    BY NoneIs DEF ToSet
  <2>4. s # <<>> <=> ToSet(s) # {}
    BY <2>2, <2>3
  <2>. QED
    BY <2>4 DEF s
<1>11. ToSet(second) # {} => \E entry \in ToSet(v.usage) : entry[1] = p
  <2>1. ASSUME ToSet(second) # {} PROVE \E entry \in ToSet(v.usage) : entry[1] = p
    <3>1. PICK i \in places \cap (1..Len(types)) : TRUE
      BY <1>5, <2>1
    <3>2. v.usage[i] \in ToSet(v.usage) /\ v.usage[i][1] = p
      BY <1>1, <3>1, SeqIs
    <3>. QED
      BY <3>2
  <2>. QED
    BY <2>1
<1>. QED
  BY <1>6, <1>8, <1>9, <1>10, <1>11

\* What occurs in a sequence is left when all but the first occurrences are dropped.
LEMMA FirstOnes ==
    ASSUME NEW s, IsSeq(s), NEW x \in ToSet(s)
    PROVE  \E i \in 1..Len(s) : s[i] = x /\ \A j \in 1..(i - 1) : s[j] # x
<1>. DEFINE T == {i \in 1..Len(s) : s[i] = x}
<1>1. Len(s) \in Nat
  BY SeqIs
<1>2. T # {} /\ T \in SUBSET Nat
  BY <1>1, SeqIs
<1>3. PICK m \in T : \A k \in T : m <= k
  <2>. HIDE DEF T
  <2>. QED
    BY <1>2, LeastNumber
<1>4. ASSUME NEW j \in 1..(m - 1) PROVE s[j] # x
  <2>1. j \in 1..Len(s) /\ ~(m <= j)
    BY <1>1, <1>3
  <2>. QED
    BY <1>3, <2>1
<1>. QED
  BY <1>3, <1>4

\* A type recorded for a parameter of the item gets a bound.
LEMMA BoundsOfUsage ==
    ASSUME NEW it, IsItem(it), NEW v, IsSeq(v.usage), NEW entry \in ToSet(v.usage), entry[1] \in Names(it)
    PROVE  \E i \in DOMAIN ForBounds(v, it) : ForBounds(v, it)[i] = entry[2]
<1>. DEFINE seqs == [i \in DOMAIN it.params |-> OfParam(v, it.params[i])]
            types == FlattenSeq(seqs)
            firsts == {i \in DOMAIN types : \A j \in 1..(i - 1) : types[j] # types[i]}
<1>1. IsSeq(it.params) /\ Len(it.params) \in Nat /\ DOMAIN it.params = 1..Len(it.params)
  BY SeqIs DEF IsItem
<1>2. /\ seqs = [i \in 1..Len(it.params) |-> seqs[i]]
      /\ \A i \in 1..Len(it.params) : seqs[i] = OfParam(v, it.params[i])
  BY <1>1
<1>. HIDE DEF seqs
<1>3. IsSeq(seqs) /\ Len(seqs) = Len(it.params)
  BY <1>1, <1>2, FunctionIsSeq
<1>4. \A i \in 1..Len(seqs) : IsSeq(seqs[i])
  BY <1>2, <1>3, OfParamIs
<1>5. IsSeq(types) /\ ToSet(types) = UNION {ToSet(seqs[i]) : i \in 1..Len(seqs)}
  BY <1>3, <1>4, FlattenElements
<1>6. entry[2] \in ToSet(types)
  <2>1. PICK i \in 1..Len(it.params) : entry[1] = it.params[i]
    BY <1>1 DEF Names
  <2>2. entry[2] \in ToSet(seqs[i])
    BY <1>2, <2>1, OfParamIs
  <2>. QED
    BY <1>3, <1>5, <2>1, <2>2
<1>. HIDE DEF types
<1>7. PICK i \in 1..Len(types) : types[i] = entry[2] /\ \A j \in 1..(i - 1) : types[j] # entry[2]
  BY <1>5, <1>6, FirstOnes
<1>8. i \in firsts \cap (1..Len(types))
  BY <1>5, <1>7, SeqIs
<1>9. ForBounds(v, it) = Picked(types, firsts)
  BY DEF ForBounds, types, seqs
<1>. HIDE DEF firsts
<1>10. IsSeq(ForBounds(v, it)) /\ ToSet(ForBounds(v, it)) = {types[k] : k \in firsts \cap (1..Len(types))}
  BY <1>5, <1>9, PickedIs
<1>11. entry[2] \in ToSet(ForBounds(v, it))
  BY <1>7, <1>8, <1>10
<1>. QED
  BY <1>11 DEF ToSet
-----------------------------------------------------------------------------
(* The steps.                                                              *)

LEMMA CheckItemKeeps ==
    ASSUME IInv, CheckItem
    PROVE  IInv'
<1>1. /\ todo # <<>> /\ stage = "attributes" /\ ~ItemError(item) /\ stage' = "fields"
      /\ program' = program /\ cargo' = cargo /\ todo' = todo /\ at' = at /\ visitor' = visitor
      /\ overrides' = overrides /\ body' = body /\ impls' = impls
  BY DEF CheckItem, Expanding, source
<1>2. at = 0 /\ body = <<>> /\ visitor = NewVisitor /\ overrides = {}
  BY <1>1 DEF IInv, WorkOK
<1>3. IsItem(item) /\ item' = item /\ derive' = derive
  BY <1>1, Working DEF item, derive
<1>4. IsSeq(FieldsOf(item)) /\ Len(FieldsOf(item)) \in Nat
  BY <1>3, FieldsAre
<1>5. BodyOK(item, derive, <<>>, 0)
  <2>1. Beginning(FieldsOf(item), 0) = <<>>
    BY <1>4, BeginningIs
  <2>2. IsSeq(<<>>) /\ Len(<<>>) = 0 /\ DOMAIN <<>> = {}
    BY NoneIs
  <2>3. FieldIds(<<>>) = <<>> /\ Ids(<<>>) = <<>>
    <3>1. \A f : f = [i \in {} |-> f[i]] => f = <<>>
      OBVIOUS
    <3>. QED
      BY <2>2 DEF FieldIds, Ids
  <2>4. Reads(<<>>) = <<>>
    <3>1. /\ IsSeq(Picked(<<>>, {i \in {} : <<>>[i].trait = "de"}))
          /\ ToSet(Picked(<<>>, {i \in {} : <<>>[i].trait = "de"})) =
                 {<<>>[i] : i \in {i \in {} : <<>>[i].trait = "de"} \cap (1..Len(<<>>))}
      BY <2>2, PickedIs
    <3>2. ToSet(Picked(<<>>, {i \in {} : <<>>[i].trait = "de"})) = {}
      BY <3>1
    <3>3. Picked(<<>>, {i \in {} : <<>>[i].trait = "de"}) = <<>>
      BY <3>1, <3>2, EmptySeq DEF IsSeq
    <3>. QED
      BY <2>2, <2>3, <3>3 DEF Reads
  <2>. QED
    BY <2>1, <2>2, <2>3, <2>4, WrittenNone DEF BodyOK
<1>6. GivenOK(item, derive, {}, 0) /\ UsageOK(item, derive, NewVisitor, 0)
  <2>1. 1..0 = {}
    OBVIOUS
  <2>2. GivenOK(item, derive, {}, 0)
    BY <2>1 DEF GivenOK
  <2>3. NewVisitor.usage = <<>> /\ NewVisitor = [relevant |-> NewVisitor.relevant, usage |-> NewVisitor.usage]
    BY DEF NewVisitor
  <2>4. UsageOK(item, derive, NewVisitor, 0)
    BY <2>1, <2>3, NoneIs DEF UsageOK
  <2>. QED
    BY <2>2, <2>4
<1>7. WorkOK'
  <2>1. ~ItemError(item)'
    BY <1>1, <1>3 DEF ItemError
  <2>. QED
    BY <1>1, <1>2, <1>3, <1>4, <1>5, <1>6, <2>1 DEF WorkOK
<1>8. CoverOK'
  BY <1>1 DEF IInv, CoverOK, Covered
<1>9. ProgramOK' /\ IsSeq(todo)' /\ IsSeq(impls)'
  BY <1>1 DEF IInv, ProgramOK
<1>10. \A k \in DOMAIN todo' : Expected(todo[k].item, todo[k].derive)'
  BY <1>1 DEF IInv, Expected
<1>11. \A k \in DOMAIN impls' : ImplOK(impls[k])'
  BY <1>1 DEF IInv, ImplOK, Expected, Bad, ItemError
<1>. QED
  BY <1>7, <1>8, <1>9, <1>10, <1>11 DEF IInv

\* A compile_error! for an item with an error in it.
LEMMA RejectKeeps ==
    ASSUME IInv, todo # <<>>, Bad(item), Reject
    PROVE  IInv'
<1>. DEFINE impl == Impl(item, derive, FALSE, {}, <<>>, <<>>)
<1>1. Leave(impl, <<>>)
  BY DEF Reject
<1>2. impl.item = item /\ impl.derive = derive /\ impl.accepted = FALSE
  BY DEF Impl
<1>. HIDE DEF impl
<1>3. ImplOK(impl)
  BY <1>2, Working DEF ImplOK
<1>4. IsSeq(<<>>) /\ DOMAIN <<>> = {}
  BY NoneIs
<1>. QED
  BY <1>1, <1>2, <1>3, <1>4, LeaveKeeps

LEMMA RejectItemKeeps ==
    ASSUME IInv, RejectItem
    PROVE  IInv'
BY RejectKeeps DEF RejectItem, Expanding, Bad

LEMMA RejectFieldKeeps ==
    ASSUME IInv, RejectField
    PROVE  IInv'
<1>1. PICK d \in {"ser", "de", "schema"} : AtField(d)
  BY DEF RejectField
<1>2. FieldError(field) /\ Reject
  BY DEF RejectField
<1>3. todo # <<>> /\ at + 1 \in 1..Len(FieldsOf(item)) /\ field = FieldsOf(item)[at + 1]
  BY <1>1, AtFieldIs
<1>4. Bad(item)
  BY <1>2, <1>3 DEF Bad
<1>. QED
  BY <1>2, <1>3, <1>4, RejectKeeps

\* All fields have been looked at.
LEMMA AtEndIs ==
    ASSUME IInv, Expanding("fields"), at = Len(FieldsOf(item))
    PROVE  /\ todo # <<>> /\ Expected(item, derive) /\ IsItem(item) /\ derive \in DeriveNames /\ ~Bad(item)
           /\ BodyOK(item, derive, body, Len(FieldsOf(item)))
           /\ GivenOK(item, derive, overrides, Len(FieldsOf(item)))
           /\ UsageOK(item, derive, visitor, Len(FieldsOf(item)))
<1>1. todo # <<>> /\ stage = "fields"
  BY DEF Expanding
<1>2. Expected(item, derive) /\ IsItem(item) /\ derive \in DeriveNames
  BY <1>1, Working
<1>3. /\ ~ItemError(item)
      /\ \A j \in 1..at : ~FieldError(FieldsOf(item)[j])
      /\ BodyOK(item, derive, body, at) /\ GivenOK(item, derive, overrides, at)
      /\ UsageOK(item, derive, visitor, at)
  BY <1>1 DEF IInv, WorkOK
<1>. QED
  BY <1>1, <1>2, <1>3 DEF Bad

LEMMA FinishCodecKeeps ==
    ASSUME IInv, FinishCodec
    PROVE  IInv'
<1>. DEFINE derived == Bounds(visitor, derive) \cup Bounds(defaults, "default")
            impl == Impl(item, derive, TRUE, derived, body, <<>>)
<1>1. Expanding("fields") /\ derive # "schema" /\ at = Len(FieldsOf(item)) /\ Leave(impl, <<>>)
  BY DEF FinishCodec
<1>2. /\ impl.item = item /\ impl.derive = derive /\ impl.accepted = TRUE
      /\ impl.body = body /\ impl.overrides = overrides
  <2>. HIDE DEF derived
  <2>. QED
    BY DEF Impl
<1>. HIDE DEF impl
<1>3. ImplOK(impl)
  BY <1>1, <1>2, AtEndIs DEF ImplOK, DerivedOK
<1>4. IsSeq(<<>>) /\ DOMAIN <<>> = {} /\ todo # <<>>
  BY <1>1, NoneIs, AtEndIs
<1>. QED
  BY <1>1, <1>2, <1>3, <1>4, LeaveKeeps

LEMMA FinishSchemaKeeps ==
    ASSUME IInv, FinishSchema
    PROVE  IInv'
<1>. DEFINE inner == [v \in DOMAIN item.variants |->
                         [op |-> "trait", trait |-> "schema", ty |-> InnerType(item, v), field |-> 0]]
            more == [v \in DOMAIN item.variants |-> [item |-> InnerStruct(item, v), derive |-> "schema"]]
            next == IF item.enum THEN more ELSE <<>>
            calls == IF item.enum THEN inner ELSE body
            derived == Bounds(visitor, "schema")
            impl == Impl(item, derive, TRUE, derived, calls, ForBounds(visitor, item))
<1>1. Expanding("fields") /\ derive = "schema" /\ at = Len(FieldsOf(item)) /\ Leave(impl, next)
  BY DEF FinishSchema
<1>2. /\ impl.item = item /\ impl.derive = "schema" /\ impl.accepted = TRUE
      /\ impl.body = calls /\ impl.overrides = overrides /\ impl.derived = derived
  <2>. HIDE DEF derived, calls
  <2>. QED
    BY <1>1 DEF Impl
<1>. HIDE DEF impl
<1>3. /\ todo # <<>> /\ Expected(item, "schema") /\ IsItem(item) /\ ~Bad(item)
      /\ BodyOK(item, "schema", body, Len(FieldsOf(item)))
      /\ UsageOK(item, "schema", visitor, Len(FieldsOf(item)))
  BY <1>1, AtEndIs
<1>4. IsSeq(item.variants) /\ Len(item.variants) \in Nat /\ DOMAIN item.variants = 1..Len(item.variants)
  BY <1>3, SeqIs DEF IsItem
<1>5. IsSeq(inner)
  <2>1. inner = [v \in 1..Len(item.variants) |-> inner[v]]
    BY <1>4
  <2>. HIDE DEF inner
  <2>. QED
    BY <1>4, <2>1, FunctionIsSeq
<1>6. /\ IsSeq(more) /\ DOMAIN more = DOMAIN item.variants
      /\ \A v \in DOMAIN item.variants : more[v].item = InnerStruct(item, v) /\ more[v].derive = "schema"
  <2>1. more = [v \in 1..Len(item.variants) |-> more[v]]
    BY <1>4
  <2>2. \A v \in DOMAIN item.variants : more[v].item = InnerStruct(item, v) /\ more[v].derive = "schema"
    OBVIOUS
  <2>3. DOMAIN more = DOMAIN item.variants
    OBVIOUS
  <2>. HIDE DEF more
  <2>4. IsSeq(more)
    BY <1>4, <2>1, FunctionIsSeq
  <2>. QED
    BY <2>2, <2>3, <2>4
<1>. HIDE DEF more, inner
<1>7. BodyOK(item, "schema", calls, Len(FieldsOf(item)))
  <2>1. CASE item.enum
    <3>1. ~Direct(item, "schema")
      BY <2>1 DEF Direct
    <3>. QED
      BY <1>5, <2>1, <3>1 DEF BodyOK
  <2>2. CASE ~item.enum
    BY <1>3, <2>2
  <2>. QED
    BY <2>1, <2>2
<1>. HIDE DEF calls
<1>8. DerivedOK(impl)
  <2>1. ASSUME NEW j \in 1..Len(FieldsOf(item)), ParamsOf(FieldsOf(item)[j]) # <<>>,
               NEW entry \in ToSet(ParamsOf(FieldsOf(item)[j])[1]), entry[1] \in Names(item)
        PROVE  Predicate(entry[2], "schema") \in derived
    <3>1. IsSeq(visitor.usage) /\ entry \in ToSet(visitor.usage)
      BY <1>3, <2>1 DEF UsageOK
    <3>2. PICK i \in DOMAIN ForBounds(visitor, item) : ForBounds(visitor, item)[i] = entry[2]
      BY <1>3, <2>1, <3>1, BoundsOfUsage
    <3>. QED
      BY <3>2 DEF Bounds
  <2>. HIDE DEF derived
  <2>. QED
    BY <1>2, <2>1 DEF DerivedOK
<1>. HIDE DEF derived
<1>9. GivenOK(item, "schema", overrides, Len(FieldsOf(item)))
  BY DEF GivenOK
<1>10. ImplOK(impl)
  BY <1>2, <1>3, <1>7, <1>8, <1>9 DEF ImplOK
<1>11. IsSeq(next) /\ \A k \in DOMAIN next : Expected(next[k].item, next[k].derive)
  <2>1. CASE item.enum
    <3>1. ASSUME NEW v \in DOMAIN item.variants PROVE Expected(InnerStruct(item, v), "schema")
      <4>1. PICK i \in DOMAIN program : item = program[i]
        <5>1. ASSUME NEW i \in DOMAIN program, NEW w \in DOMAIN program[i].variants,
                     item = InnerStruct(program[i], w)
              PROVE  FALSE
          <6>1. IsItem(program[i])
            BY ProgramIs DEF IInv
          <6>. QED
            BY <2>1, <5>1, <6>1, InnerIsItem
        <5>. QED
          BY <1>3, <5>1 DEF Expected
      <4>. QED
        BY <2>1, <4>1 DEF Expected
    <3>. QED
      BY <1>6, <2>1, <3>1
  <2>2. CASE ~item.enum
    BY <2>2, NoneIs
  <2>. QED
    BY <2>1, <2>2
<1>12. item.enum => \A v \in DOMAIN item.variants :
           \E k \in DOMAIN next : next[k].item = InnerStruct(item, v) /\ next[k].derive = "schema"
  BY <1>6
<1>. HIDE DEF next
<1>. QED
  BY <1>1, <1>2, <1>3, <1>10, <1>11, <1>12, LeaveKeeps

\* Every derive of every item is to be expanded at first.
LEMMA InitOK ==
    ASSUME DeriveInit
    PROVE  IInv
<1>. DEFINE row(i) == [d \in DOMAIN Derives |-> [item |-> program[i], derive |-> Derives[d]]]
            rows == [i \in DOMAIN program |-> row(i)]
<1>1. /\ ProgramOK /\ todo = FlattenSeq(rows) /\ stage = "attributes" /\ at = 0 /\ visitor = NewVisitor
      /\ overrides = {} /\ body = <<>> /\ impls = <<>>
  BY DEF DeriveInit, ProgramOK
<1>2. IsSeq(program) /\ Len(program) \in Nat /\ DOMAIN program = 1..Len(program)
  BY <1>1, ProgramIs, SeqIs
<1>3. DOMAIN Derives = 1..3 /\ Derives[1] = "ser" /\ Derives[2] = "de" /\ Derives[3] = "schema"
  BY DEF Derives
<1>4. ASSUME NEW i \in DOMAIN program
      PROVE  /\ IsSeq(row(i))
             /\ \A x \in ToSet(row(i)) : x.item = program[i] /\ x.derive \in DeriveNames
             /\ \A d \in DeriveNames : \E x \in ToSet(row(i)) : x.item = program[i] /\ x.derive = d
  <2>. DEFINE r == row(i)
  <2>1. r = [d \in 1..3 |-> r[d]]
    BY <1>3
  <2>2. DOMAIN r = 1..3 /\ \A d \in 1..3 : r[d].item = program[i] /\ r[d].derive = Derives[d]
    BY <1>3
  <2>. HIDE DEF r
  <2>3. IsSeq(r) /\ Len(r) = 3
    BY <2>1, FunctionIsSeq
  <2>4. ASSUME NEW x \in ToSet(r) PROVE x.item = program[i] /\ x.derive \in DeriveNames
    <3>1. PICK d \in 1..3 : x = r[d]
      BY <2>3, SeqIs
    <3>2. d = 1 \/ d = 2 \/ d = 3
      OBVIOUS
    <3>. QED
      BY <1>3, <2>2, <3>1, <3>2 DEF DeriveNames
  <2>5. ASSUME NEW d \in DeriveNames PROVE \E x \in ToSet(r) : x.item = program[i] /\ x.derive = d
    <3>1. PICK k \in 1..3 : Derives[k] = d
      BY <1>3 DEF DeriveNames
    <3>2. r[k] \in ToSet(r)
      BY <2>3, SeqIs
    <3>. QED
      BY <2>2, <3>1, <3>2
  <2>. QED
    BY <2>3, <2>4, <2>5 DEF r
<1>5. rows = [i \in 1..Len(program) |-> rows[i]] /\ \A i \in 1..Len(program) : rows[i] = row(i)
  BY <1>2
<1>. HIDE DEF row, rows
<1>6. IsSeq(rows) /\ Len(rows) = Len(program) /\ \A i \in 1..Len(rows) : IsSeq(rows[i])
  <2>1. IsSeq(rows) /\ Len(rows) = Len(program)
    BY <1>2, <1>5, FunctionIsSeq
  <2>. QED
    BY <1>2, <1>4, <1>5, <2>1
<1>7. IsSeq(todo) /\ ToSet(todo) = UNION {ToSet(rows[i]) : i \in 1..Len(rows)}
  BY <1>1, <1>6, FlattenElements
<1>8. DOMAIN todo = 1..Len(todo)
  BY <1>7, SeqIs
<1>9. ASSUME NEW k \in DOMAIN todo PROVE Expected(todo[k].item, todo[k].derive)
  <2>1. todo[k] \in ToSet(todo)
    BY <1>7, <1>8, SeqIs
  <2>2. PICK i \in 1..Len(rows) : todo[k] \in ToSet(rows[i])
    BY <1>7, <2>1
  <2>3. i \in DOMAIN program /\ rows[i] = row(i)
    BY <1>2, <1>5, <1>6
  <2>. QED
    BY <1>4, <2>2, <2>3 DEF Expected
<1>10. ASSUME NEW i \in DOMAIN program, NEW d \in DeriveNames PROVE Covered(program[i], d)
  <2>1. i \in 1..Len(rows) /\ rows[i] = row(i)
    BY <1>2, <1>5, <1>6
  <2>2. PICK x \in ToSet(rows[i]) : x.item = program[i] /\ x.derive = d
    BY <1>4, <2>1
  <2>3. x \in ToSet(todo)
    BY <1>7, <2>1, <2>2
  <2>4. PICK k \in 1..Len(todo) : x = todo[k]
    BY <1>7, <2>3, SeqIs
  <2>. QED
    BY <1>8, <2>2, <2>4 DEF Covered
<1>11. IsSeq(impls) /\ DOMAIN impls = {}
  BY <1>1, NoneIs
<1>12. CoverOK
  BY <1>10, <1>11 DEF CoverOK
<1>13. WorkOK
  BY <1>1 DEF WorkOK
<1>. QED
  BY <1>1, <1>7, <1>9, <1>11, <1>12, <1>13 DEF IInv

LEMMA NextKeeps ==
    ASSUME IInv, [DeriveNext]_derivation
    PROVE  IInv'
<1>1. CASE CheckItem
  BY <1>1, CheckItemKeeps
<1>2. CASE RejectItem
  BY <1>2, RejectItemKeeps
<1>3. CASE RejectField
  BY <1>3, RejectFieldKeeps
<1>4. CASE SerializeField
  BY <1>4, SerializeFieldKeeps
<1>5. CASE DeserializeField
  BY <1>5, DeserializeFieldKeeps
<1>6. CASE SchemaField
  BY <1>6, SchemaFieldKeeps
<1>7. CASE FinishCodec
  BY <1>7, FinishCodecKeeps
<1>8. CASE FinishSchema
  BY <1>8, FinishSchemaKeeps
<1>9. CASE UNCHANGED derivation
  <2>1. /\ program' = program /\ cargo' = cargo /\ todo' = todo /\ stage' = stage /\ at' = at /\ visitor' = visitor
        /\ overrides' = overrides /\ body' = body /\ impls' = impls
    BY <1>9 DEF derivation, source, working
  <2>2. item' = item /\ derive' = derive
    BY <2>1 DEF item, derive
  <2>3. ProgramOK' /\ CoverOK'
    BY <2>1 DEF IInv, ProgramOK, CoverOK, Covered
  <2>4. WorkOK'
    BY <2>1, <2>2 DEF IInv, WorkOK, ItemError
  <2>5. \A k \in DOMAIN todo' : Expected(todo[k].item, todo[k].derive)'
    BY <2>1 DEF IInv, Expected
  <2>6. \A k \in DOMAIN impls' : ImplOK(impls[k])'
    BY <2>1 DEF IInv, ImplOK, Expected, Bad, ItemError
  <2>. QED
    BY <2>1, <2>3, <2>4, <2>5, <2>6 DEF IInv
<1>. QED
  BY <1>1, <1>2, <1>3, <1>4, <1>5, <1>6, <1>7, <1>8, <1>9 DEF DeriveNext, Expanded

\* What a macro has done so far is right for the fields it has seen, and no derive
\* that is asked for, of an item or of a struct written for a variant, is lost.
THEOREM Invariance == DeriveSpec => []IInv
BY InitOK, NextKeeps, PTL DEF DeriveSpec
-----------------------------------------------------------------------------
(* What follows from the invariant.                                        *)

LEMMA GeneratedIs ==
    ASSUME IInv, NEW d, NEW impl \in Generated(d)
    PROVE  /\ impl.derive = d /\ impl.accepted /\ ImplOK(impl) /\ Expected(impl.item, d)
           /\ d \in DeriveNames /\ IsItem(impl.item) /\ ~Bad(impl.item)
           /\ IsSeq(FieldsOf(impl.item)) /\ Len(FieldsOf(impl.item)) \in Nat
           /\ DOMAIN FieldsOf(impl.item) = 1..Len(FieldsOf(impl.item))
           /\ Beginning(FieldsOf(impl.item), Len(FieldsOf(impl.item))) = FieldsOf(impl.item)
<1>1. impl.derive = d /\ impl.accepted /\ ImplOK(impl) /\ Expected(impl.item, d) /\ ~Bad(impl.item)
  BY DEF Generated, IInv, ImplOK
<1>2. d \in DeriveNames /\ IsItem(impl.item)
  BY <1>1, ExpectedIsItem DEF IInv
<1>3. IsSeq(FieldsOf(impl.item))
  BY <1>2, FieldsAre
<1>. QED
  BY <1>1, <1>2, <1>3, SeqIs, BeginningIs

LEMMA NothingIsIgnoredYet ==
    ASSUME IInv
    PROVE  NothingIgnored
<1>1. ASSUME NEW d \in {"ser", "de", "schema"}, NEW impl \in Generated(d), ~impl.item.enum \/ d # "schema",
             NEW i \in DOMAIN FieldsOf(impl.item)
      PROVE  LET f == FieldsOf(impl.item)[i]
             IN  /\ Replaces(f, d) => \E call \in Calls(impl) : call.field = f.id /\ call.op = "function"
                 /\ d # "schema" /\ BoundOf(f, d) # <<>> => BoundOf(f, d)[1] \subseteq impl.overrides
                 /\ d = "schema" /\ ParamsOf(f) # <<>> =>
                      \A entry \in {ParamsOf(f)[1][j] : j \in DOMAIN ParamsOf(f)[1]} :
                          entry[1] \in Names(impl.item) => Predicate(entry[2], "schema") \in impl.derived
  <2>. DEFINE it == impl.item
              f == FieldsOf(it)[i]
              n == Len(FieldsOf(it))
  <2>1. /\ impl.derive = d /\ BodyOK(it, d, impl.body, n) /\ GivenOK(it, d, impl.overrides, n) /\ DerivedOK(impl)
        /\ i \in 1..n
    BY GeneratedIs DEF ImplOK
  <2>2. Direct(it, d)
    BY <1>1 DEF Direct
  <2>3. Replaces(f, d) => \E call \in Calls(impl) : call.field = f.id /\ call.op = "function"
    <3>1. Calls(impl) = ToSet(impl.body)
      BY DEF Calls, ToSet
    <3>. QED
      BY <2>1, <2>2, <3>1 DEF BodyOK
  <2>4. d # "schema" /\ BoundOf(f, d) # <<>> => BoundOf(f, d)[1] \subseteq impl.overrides
    BY <2>1 DEF GivenOK
  <2>5. d = "schema" /\ ParamsOf(f) # <<>> =>
            \A entry \in ToSet(ParamsOf(f)[1]) :
                entry[1] \in Names(it) => Predicate(entry[2], "schema") \in impl.derived
    BY <2>1 DEF DerivedOK
  <2>6. {ParamsOf(f)[1][j] : j \in DOMAIN ParamsOf(f)[1]} = ToSet(ParamsOf(f)[1])
    BY DEF ToSet
  <2>. HIDE DEF f, it
  <2>7. /\ Replaces(f, d) => \E call \in Calls(impl) : call.field = f.id /\ call.op = "function"
        /\ d # "schema" /\ BoundOf(f, d) # <<>> => BoundOf(f, d)[1] \subseteq impl.overrides
        /\ d = "schema" /\ ParamsOf(f) # <<>> =>
             \A entry \in {ParamsOf(f)[1][j] : j \in DOMAIN ParamsOf(f)[1]} :
                 entry[1] \in Names(it) => Predicate(entry[2], "schema") \in impl.derived
    BY <2>3, <2>4, <2>5, <2>6
  <2>. QED
    BY <2>7 DEF f, it
<1>. QED
  BY <1>1 DEF NothingIgnored

\* When all is done there is an impl for each derive of an item, accepted unless
\* there is an error in the item.
LEMMA OfIs ==
    ASSUME IInv, Done, NEW i \in DOMAIN program, NEW d \in DeriveNames
    PROVE  /\ Of(program[i], d) = {} <=> Bad(program[i])
           /\ \A impl \in Of(program[i], d) : impl \in Generated(d) /\ impl.item = program[i]
<1>. DEFINE it == program[i]
<1>1. ASSUME NEW impl \in Of(it, d) PROVE impl \in Generated(d) /\ impl.item = it
  <2>1. impl \in Generated(d) /\ impl.item.name = it.name
    BY DEF Of
  <2>2. Expected(impl.item, d)
    BY <2>1, GeneratedIs
  <2>3. ASSUME NEW j \in DOMAIN program, impl.item = program[j] PROVE impl.item = it
    <3>1. program[i].name = program[j].name
      BY <2>1, <2>3
    <3>2. i = j
      BY <3>1, ProgramIs DEF IInv
    <3>. QED
      BY <2>3, <3>2
  <2>4. ASSUME NEW j \in DOMAIN program, NEW v \in DOMAIN program[j].variants,
               impl.item = InnerStruct(program[j], v)
        PROVE  FALSE
    <3>1. impl.item.name = VariantName(program[j], v)
      BY <2>4 DEF InnerStruct
    <3>2. program[i].name # VariantName(program[j], v)
      BY ProgramIs DEF IInv
    <3>. QED
      BY <2>1, <3>1, <3>2
  <2>. QED
    BY <2>1, <2>2, <2>3, <2>4 DEF Expected
<1>2. PICK k \in DOMAIN impls : impls[k].item = it /\ impls[k].derive = d
  <2>1. DOMAIN todo = {}
    BY NoneIs DEF Done
  <2>. QED
    BY <2>1 DEF IInv, CoverOK, Covered
<1>3. ASSUME ~Bad(it) PROVE Of(it, d) # {}
  <2>1. impls[k].accepted
    BY <1>2, <1>3 DEF IInv, ImplOK
  <2>2. impls[k] \in Of(it, d)
    BY <1>2, <2>1 DEF Of, Generated
  <2>. QED
    BY <2>2
<1>4. ASSUME Of(it, d) # {} PROVE ~Bad(it)
  BY <1>1, <1>4, GeneratedIs
<1>. QED
  BY <1>1, <1>3, <1>4

\* The same of the struct written for a variant of an enum that is accepted.
LEMMA InnerIs ==
    ASSUME IInv, Done, NEW i \in DOMAIN program, program[i].enum, ~Bad(program[i]),
           NEW v \in DOMAIN program[i].variants
    PROVE  /\ Inner(program[i], v) # {}
           /\ \A impl \in Inner(program[i], v) :
                impl \in Generated("schema") /\ impl.item = InnerStruct(program[i], v)
<1>. DEFINE it == program[i]
            in == InnerStruct(it, v)
<1>1. ASSUME NEW impl \in Inner(it, v) PROVE impl \in Generated("schema") /\ impl.item = in
  <2>1. impl \in Generated("schema") /\ impl.item.name = VariantName(it, v)
    BY DEF Inner
  <2>2. Expected(impl.item, "schema")
    BY <2>1, GeneratedIs
  <2>3. ASSUME NEW j \in DOMAIN program, impl.item = program[j] PROVE FALSE
    BY <2>1, <2>3, ProgramIs DEF IInv
  <2>4. ASSUME NEW j \in DOMAIN program, NEW w \in DOMAIN program[j].variants,
               impl.item = InnerStruct(program[j], w)
        PROVE  impl.item = in
    <3>1. impl.item.name = VariantName(program[j], w)
      BY <2>4 DEF InnerStruct
    <3>2. program[j].name = program[i].name /\ v = w
      BY <2>1, <3>1 DEF VariantName
    <3>3. i = j
      BY <3>2, ProgramIs DEF IInv
    <3>. QED
      BY <2>4, <3>2, <3>3
  <2>. QED
    BY <2>1, <2>2, <2>3, <2>4 DEF Expected
<1>2. IsItem(it)
  BY ProgramIs DEF IInv
<1>3. ~Bad(in)
  <2>1. FieldsOf(in) = it.variants[v] /\ ~ItemError(in)
    BY <1>2, InnerIsItem
  <2>2. ASSUME NEW j \in 1..Len(FieldsOf(in)) PROVE ~FieldError(FieldsOf(in)[j])
    <3>1. IsSeq(it.variants[v])
      BY <1>2 DEF IsItem
    <3>2. FieldsOf(in)[j] \in ToSet(it.variants[v])
      BY <2>1, <3>1, SeqIs
    <3>3. FieldsOf(in)[j] \in ToSet(FieldsOf(it)) /\ IsSeq(FieldsOf(it))
      BY <1>2, <3>2, FieldsAre
    <3>4. PICK m \in 1..Len(FieldsOf(it)) : FieldsOf(in)[j] = FieldsOf(it)[m]
      BY <3>3, SeqIs
    <3>. QED
      BY <3>4 DEF Bad
  <2>. QED
    BY <2>1, <2>2 DEF Bad
<1>4. PICK impl \in Of(it, "schema") : TRUE
  BY OfIs DEF DeriveNames
<1>5. impl \in Generated("schema") /\ impl.item = it
  BY OfIs DEF DeriveNames
<1>6. Covered(in, "schema")
  <2>1. PICK k \in DOMAIN impls : impl = impls[k] /\ impls[k].derive = "schema" /\ impls[k].accepted
    BY <1>5 DEF Generated
  <2>. QED
    BY <1>5, <2>1 DEF IInv, CoverOK
<1>7. PICK k \in DOMAIN impls : impls[k].item = in /\ impls[k].derive = "schema"
  <2>1. DOMAIN todo = {}
    BY NoneIs DEF Done
  <2>. QED
    BY <1>6, <2>1 DEF Covered
<1>8. impls[k] \in Inner(it, v)
  <2>1. impls[k].accepted
    BY <1>3, <1>7 DEF IInv, ImplOK
  <2>2. in.name = VariantName(it, v)
    BY DEF InnerStruct
  <2>. QED
    BY <1>7, <2>1, <2>2 DEF Inner, Generated
<1>. QED
  BY <1>1, <1>8

LEMMA OneIs ==
    ASSUME NEW S, S # {}
    PROVE  One(S) \in S
BY DEF One

\* What is called is what the fields ask for.
LEMMA CalledIs ==
    ASSUME IInv, NEW d, NEW impl \in Generated(d)
    PROVE  /\ d # "de" /\ Direct(impl.item, d) => Called(impl) = Written(FieldsOf(impl.item))
           /\ d = "de" => Called(impl) = Ids(FieldsOf(impl.item)) /\ Read(impl) = Written(FieldsOf(impl.item))
<1>1. /\ BodyOK(impl.item, d, impl.body, Len(FieldsOf(impl.item)))
      /\ Beginning(FieldsOf(impl.item), Len(FieldsOf(impl.item))) = FieldsOf(impl.item)
  BY GeneratedIs DEF ImplOK
<1>2. Called(impl) = FieldIds(impl.body)
  BY DEF Called, FieldIds
<1>3. Read(impl) = Reads(impl.body)
  BY <1>2 DEF Read, Reads
<1>. QED
  BY <1>1, <1>2, <1>3 DEF BodyOK

\* The schema names the fields that are written, those of an enum in the structs of
\* its variants.
LEMMA NamedIs ==
    ASSUME IInv, Done, NEW i \in DOMAIN program, ~Bad(program[i])
    PROVE  Named(program[i]) = Written(FieldsOf(program[i]))
<1>. DEFINE it == program[i]
            vs == it.variants
<1>1. CASE ~it.enum
  <2>1. One(Of(it, "schema")) \in Generated("schema") /\ One(Of(it, "schema")).item = it
    BY OfIs, OneIs DEF DeriveNames
  <2>2. Direct(it, "schema")
    BY <1>1 DEF Direct
  <2>. QED
    BY <1>1, <2>1, <2>2, CalledIs DEF Named
<1>2. CASE it.enum
  <2>1. IsItem(it)
    BY ProgramIs DEF IInv
  <2>2. ASSUME NEW v \in DOMAIN vs PROVE Called(One(Inner(it, v))) = Written(vs[v])
    <3>1. One(Inner(it, v)) \in Generated("schema") /\ One(Inner(it, v)).item = InnerStruct(it, v)
      BY <1>2, InnerIs, OneIs
    <3>2. FieldsOf(InnerStruct(it, v)) = vs[v] /\ Direct(InnerStruct(it, v), "schema")
      BY <2>1, InnerIsItem DEF Direct
    <3>. QED
      BY <3>1, <3>2, CalledIs
  <2>3. [v \in DOMAIN vs |-> Called(One(Inner(it, v)))] = [v \in DOMAIN vs |-> Written(vs[v])]
    BY <2>2
  <2>4. IsSeq(vs) /\ \A v \in 1..Len(vs) : IsSeq(vs[v])
    BY <2>1, SeqIs DEF IsItem
  <2>5. FlattenSeq([v \in DOMAIN vs |-> Written(vs[v])]) = Written(FlattenSeq(vs))
    <3>. HIDE DEF vs
    <3>. QED
      BY <2>4, WrittenFlatten
  <2>6. Named(it) = FlattenSeq([v \in DOMAIN vs |-> Called(One(Inner(it, v)))])
    BY <1>2 DEF Named
  <2>. QED
    BY <2>3, <2>5, <2>6 DEF FieldsOf
<1>. QED
  BY <1>1, <1>2

LEMMA DerivesAgreeThen ==
    ASSUME IInv
    PROVE  DerivesAgree
<1>1. ASSUME Done, NEW i \in DOMAIN program
      PROVE  LET it == program[i]
             IN  /\ (Of(it, "ser") = {}) = (Of(it, "de") = {}) /\ (Of(it, "de") = {}) = (Of(it, "schema") = {})
                 /\ Of(it, "ser") # {} =>
                      /\ it.enum => \A v \in DOMAIN it.variants : Inner(it, v) # {}
                      /\ Called(One(Of(it, "ser"))) = Read(One(Of(it, "de")))
                      /\ Called(One(Of(it, "ser"))) = Named(it)
                      /\ Called(One(Of(it, "de"))) = [j \in DOMAIN FieldsOf(it) |-> FieldsOf(it)[j].id]
  <2>. DEFINE it == program[i]
              fs == FieldsOf(it)
  <2>1. /\ Of(it, "ser") = {} <=> Bad(it)
        /\ Of(it, "de") = {} <=> Bad(it)
        /\ Of(it, "schema") = {} <=> Bad(it)
    BY <1>1, OfIs DEF DeriveNames
  <2>2. ASSUME ~Bad(it), it.enum, NEW v \in DOMAIN it.variants PROVE Inner(it, v) # {}
    BY <1>1, <2>2, InnerIs
  <2>3. ASSUME ~Bad(it)
        PROVE  /\ Called(One(Of(it, "ser"))) = Written(fs) /\ Named(it) = Written(fs)
               /\ Read(One(Of(it, "de"))) = Written(fs) /\ Called(One(Of(it, "de"))) = Ids(fs)
    <3>1. One(Of(it, "ser")) \in Generated("ser") /\ One(Of(it, "ser")).item = it
      BY <1>1, <2>1, <2>3, OfIs, OneIs DEF DeriveNames
    <3>2. One(Of(it, "de")) \in Generated("de") /\ One(Of(it, "de")).item = it
      BY <1>1, <2>1, <2>3, OfIs, OneIs DEF DeriveNames
    <3>3. Direct(it, "ser")
      BY DEF Direct
    <3>4. Called(One(Of(it, "ser"))) = Written(fs)
      BY <3>1, <3>3, CalledIs
    <3>5. Read(One(Of(it, "de"))) = Written(fs) /\ Called(One(Of(it, "de"))) = Ids(fs)
      BY <3>2, CalledIs
    <3>. QED
      BY <1>1, <2>3, <3>4, <3>5, NamedIs
  <2>4. Ids(fs) = [j \in DOMAIN fs |-> fs[j].id]
    BY DEF Ids
  <2>. HIDE DEF it
  <2>. QED
    BY <2>1, <2>2, <2>3, <2>4 DEF it
<1>. QED
  BY <1>1 DEF DerivesAgree

\* The three macros accept the same items; serialize writes the fields that
\* deserialize reads, in the same order, and the schema names them.
THEOREM DerivesAlwaysAgree == DeriveSpec => []DerivesAgree
BY Invariance, DerivesAgreeThen, PTL

\* Whatever the attributes of a program, the functions and the bounds that they
\* give are in what is generated.
THEOREM NothingIsIgnored == DeriveSpec => []NothingIgnored
BY Invariance, NothingIsIgnoredYet, PTL
-----------------------------------------------------------------------------
(* The structs of the variants.                                            *)

\* A leaf is all that is in it.
LEMMA LeafIs ==
    ASSUME NEW ty \in Types, ty.k \in {"param", "assoc", "qself"}
    PROVE  Inside[ty] = {ty} /\ Shown[ty] = {ty}
<1>1. DOMAIN ty.of = {}
  BY TypesAssumption, NoneIs
<1>2. {Inside[ty.of[i]] : i \in DOMAIN ty.of} = {} /\ {Shown[ty.of[i]] : i \in DOMAIN ty.of} = {}
  BY <1>1
<1>. QED
  BY <1>2, InsideIs, ShownIs

\* Nothing is visited but what is mentioned, and what is visited and what is
\* recorded together are what is mentioned, where no PhantomData hides a parameter
\* and no associated type is below the top.
LEMMA VisitedMentioned ==
    ASSUME NEW ty \in Types
    PROVE  /\ Visited(ty) \subseteq Mentioned(ty)
           /\ ty.k = "assoc" => Visited(ty) = {} /\ Mentioned(ty) = {ty.p}
           /\ ~Holds(ty, "phantom") /\ ~Holds(ty, "assoc") => Visited(ty) = Mentioned(ty) /\ ty.k # "assoc"
<1>1. Shown[ty] \subseteq Inside[ty] /\ (~Holds(ty, "phantom") => Shown[ty] = Inside[ty])
  BY ShownInside
<1>2. Visited(ty) \subseteq Mentioned(ty)
  BY <1>1 DEF Visited, Mentioned
<1>3. ASSUME ty.k = "assoc" PROVE Visited(ty) = {} /\ Mentioned(ty) = {ty.p}
  <2>1. Inside[ty] = {ty} /\ Shown[ty] = {ty}
    BY <1>3, LeafIs
  <2>. QED
    BY <1>3, <2>1 DEF Visited, Mentioned
<1>4. ASSUME ~Holds(ty, "phantom"), ~Holds(ty, "assoc") PROVE Visited(ty) = Mentioned(ty) /\ ty.k # "assoc"
  <2>1. \A w \in Inside[ty] : w.k # "assoc"
    BY <1>4 DEF Holds
  <2>2. ty \in Inside[ty]
    BY InsideIs
  <2>3. \A w \in Inside[ty] : w.k \in {"param", "assoc", "qself"} <=> w.k \in {"param", "qself"}
    BY <2>1
  <2>4. {w \in Inside[ty] : w.k \in {"param", "assoc", "qself"}} = {w \in Shown[ty] : w.k \in {"param", "qself"}}
    BY <1>1, <1>4, <2>3
  <2>. QED
    BY <2>1, <2>2, <2>4 DEF Visited, Mentioned
<1>. QED
  BY <1>2, <1>3, <1>4

\* Then the visitor finds the parameters that a field mentions.
LEMMA ForParamsIs ==
    ASSUME NEW it, NEW ty \in Types, Mentioned(ty) \subseteq Names(it),
           ~Holds(ty, "phantom"), ty.k = "assoc" \/ ~Holds(ty, "assoc")
    PROVE  ForParams(VisitField(NewVisitor, it, ty), it) = Mentioned(ty)
<1>. DEFINE v == VisitField(NewVisitor, it, ty)
            r == Visited(ty) \cap Names(it)
            seen == [NewVisitor EXCEPT !.relevant = @ \cup r]
<1>1. seen = [relevant |-> r, usage |-> <<>>]
  <2>1. NewVisitor = [relevant |-> {}, usage |-> <<>>] /\ NewVisitor.relevant = {}
    BY DEF NewVisitor
  <2>. HIDE DEF r
  <2>2. seen = [NewVisitor EXCEPT !.relevant = r]
    BY <2>1
  <2>. HIDE DEF seen
  <2>. QED
    BY <2>1, <2>2, RecordUpdates
<1>2. v = IF ty.k = "assoc" /\ ty.p \in Names(it) THEN InsertUsage(seen, ty.p, ty) ELSE seen
  BY DEF VisitField
<1>3. r = Visited(ty)
  BY VisitedMentioned
<1>. HIDE DEF seen, r, v
<1>4. CASE ty.k = "assoc"
  <2>1. Mentioned(ty) = {ty.p} /\ r = {} /\ ty.p \in Names(it)
    BY <1>3, <1>4, VisitedMentioned
  <2>. DEFINE x == <<<<ty.p, ty>>>>
  <2>2. v = [relevant |-> r, usage |-> x]
    <3>1. v = [seen EXCEPT !.usage = Append(seen.usage, <<ty.p, ty>>)]
      BY <1>2, <1>4, <2>1 DEF InsertUsage
    <3>2. seen.usage = <<>>
      BY <1>1
    <3>3. Append(<<>>, <<ty.p, ty>>) = x
      OBVIOUS
    <3>. HIDE DEF x
    <3>4. v = [seen EXCEPT !.usage = x]
      BY <3>1, <3>2, <3>3
    <3>. QED
      BY <1>1, <3>4, RecordUpdates
  <2>3. IsSeq(x) /\ ToSet(x) = {<<ty.p, ty>>}
    BY OneIsSeq DEF ToSet
  <2>. HIDE DEF x
  <2>4. IsSeq(v.usage) /\ v.relevant = {} /\ ToSet(v.usage) = {<<ty.p, ty>>}
    BY <2>1, <2>2, <2>3
  <2>5. \A p : OfParam(v, p) # <<>> <=> p = ty.p
    <3>1. ASSUME NEW p PROVE OfParam(v, p) # <<>> <=> p = ty.p
      <4>1. OfParam(v, p) # <<>> <=> p \in v.relevant \/ \E entry \in ToSet(v.usage) : entry[1] = p
        BY <2>4, OfParamIs
      <4>. QED
        BY <2>4, <4>1
    <3>. QED
      BY <3>1
  <2>. QED
    BY <2>1, <2>5 DEF ForParams, v
<1>5. CASE ty.k # "assoc"
  <2>1. r = Mentioned(ty) /\ v = seen
    BY <1>2, <1>3, <1>5, VisitedMentioned
  <2>2. v.usage = <<>> /\ v.relevant = r
    BY <1>1, <2>1
  <2>3. IsSeq(v.usage) /\ ToSet(v.usage) = {}
    BY <2>2, NoneIs DEF ToSet
  <2>4. \A p : OfParam(v, p) # <<>> <=> p \in r
    <3>1. ASSUME NEW p PROVE OfParam(v, p) # <<>> <=> p \in r
      <4>1. OfParam(v, p) # <<>> <=> p \in v.relevant \/ \E entry \in ToSet(v.usage) : entry[1] = p
        BY <2>3, OfParamIs
      <4>. QED
        BY <2>2, <2>3, <4>1
    <3>. QED
      BY <3>1
  <2>. QED
    BY <2>1, <2>4 DEF ForParams, v
<1>. QED
  BY <1>4, <1>5

LEMMA NamesFinite ==
    ASSUME NEW it, IsItem(it)
    PROVE  IsFiniteSet(Names(it)) /\ Names(it) = ToSet(it.params)
<1>1. Len(it.params) \in Nat /\ DOMAIN it.params = 1..Len(it.params)
  BY SeqIs DEF IsItem
<1>2. Names(it) = ToSet(it.params)
  BY DEF Names, ToSet
<1>. DEFINE f == [i \in 1..Len(it.params) |-> it.params[i]]
<1>3. f \in Surjection(1..Len(it.params), Names(it))
  BY <1>1 DEF Surjection, Names
<1>4. IsFiniteSet(1..Len(it.params))
  <2>1. \A n \in Int : IsFiniteSet(1..n)
    BY FS_Interval
  <2>. QED
    BY <1>1, <2>1
<1>. QED
  BY <1>2, <1>3, <1>4, FS_Surjection

\* The parameters that a struct keeps are those it declares.
LEMMA InnerNames ==
    ASSUME NEW it, IsItem(it), NEW v
    PROVE  Names(InnerStruct(it, v)) = KeptParams(it, v)
<1>. DEFINE in == InnerStruct(it, v)
            kept == KeptParams(it, v)
            places == {i \in DOMAIN it.params : it.params[i] \in kept}
<1>1. kept \subseteq Names(it)
  BY DEF KeptParams, ForParams
<1>2. in.params = Picked(it.params, places)
  BY DEF InnerStruct
<1>. HIDE DEF kept
<1>3. IsSeq(it.params) /\ DOMAIN it.params = 1..Len(it.params)
  BY SeqIs DEF IsItem
<1>4. Names(it) = ToSet(it.params) /\ Names(in) = ToSet(in.params)
  BY DEF Names, ToSet
<1>5. ToSet(in.params) = {it.params[i] : i \in places \cap (1..Len(it.params))}
  BY <1>2, <1>3, PickedIs
<1>6. {it.params[i] : i \in places \cap (1..Len(it.params))} = kept
  <2>1. ASSUME NEW p \in kept PROVE p \in {it.params[i] : i \in places \cap (1..Len(it.params))}
    <3>1. PICK i \in 1..Len(it.params) : p = it.params[i]
      BY <1>1, <1>3, <1>4, SeqIs
    <3>. QED
      BY <1>3, <2>1, <3>1
  <2>. QED
    BY <2>1
<1>. QED
  BY <1>4, <1>5, <1>6 DEF kept

\* A set with an element and no second one.
LEMMA OnlyOne ==
    ASSUME NEW S, NEW M \in SUBSET S, IsFiniteSet(S), Cardinality(M) <= 1, NEW x \in M
    PROVE  M = {x}
<1>1. IsFiniteSet(M) /\ Cardinality(M) \in Nat
  <2>1. IsFiniteSet(M)
    BY FS_Subset
  <2>. QED
    BY <2>1, FS_CardinalityType
<1>2. Cardinality(M) # 0
  BY <1>1, FS_EmptySet
<1>3. Cardinality(M) = 1
  BY <1>1, <1>2
<1>4. PICK y : M = {y}
  BY <1>1, <1>3, FS_Singleton
<1>. QED
  BY <1>4

LEMMA InnerIsWellFormed ==
    ASSUME NEW it, IsItem(it), WellFormed(it), NEW v \in DOMAIN it.variants,
           NEW types, types = {f.ty : f \in {it.variants[v][j] : j \in DOMAIN it.variants[v]}},
           \A ty \in types : ~Holds(ty, "phantom") /\ (ty.k = "assoc" \/ ~Holds(ty, "assoc")),
           \A q \in it.where : Cardinality(Mentioned(q.ty) \cup q.also) <= 1,
           it.lifetime => \E ty \in types : Holds(ty, "borrowed")
    PROVE  WellFormed(InnerStruct(it, v))
<1>. DEFINE in == InnerStruct(it, v)
            fs == it.variants[v]
            kept == KeptParams(it, v)
<1>1. FieldsOf(in) = fs
  BY InnerIsItem
<1>2. IsSeq(fs) /\ DOMAIN fs = 1..Len(fs) /\ \A j \in DOMAIN fs : IsField(fs[j])
  BY SeqIs DEF IsItem
<1>3. types = {fs[j].ty : j \in DOMAIN fs} /\ \A ty \in types : ty \in Types
  BY <1>2 DEF IsField
<1>4. ASSUME NEW ty \in types PROVE Mentioned(ty) \subseteq Names(it)
  <2>1. PICK j \in DOMAIN fs : ty = fs[j].ty
    BY <1>3
  <2>2. fs[j] \in ToSet(fs)
    BY <1>2, SeqIs
  <2>3. fs[j] \in ToSet(FieldsOf(it)) /\ IsSeq(FieldsOf(it))
    BY <2>2, FieldsAre
  <2>4. PICK i \in DOMAIN FieldsOf(it) : fs[j] = FieldsOf(it)[i]
    BY <2>3 DEF ToSet
  <2>. HIDE DEF fs
  <2>5. Mentioned(FieldsOf(it)[i].ty) \subseteq
            UNION {Mentioned(w) : w \in {FieldsOf(it)[k].ty : k \in DOMAIN FieldsOf(it)}}
    OBVIOUS
  <2>. QED
    BY <2>1, <2>4, <2>5 DEF WellFormed
<1>5. ASSUME NEW ty \in types PROVE ForParams(VisitField(NewVisitor, it, ty), it) = Mentioned(ty)
  BY <1>3, <1>4, <1>5, ForParamsIs
<1>6. kept = UNION {Mentioned(ty) : ty \in types}
  <2>1. kept = UNION {ForParams(VisitField(NewVisitor, it, fs[j].ty), it) : j \in DOMAIN fs}
    BY DEF KeptParams
  <2>. HIDE DEF kept, fs
  <2>2. \A j \in DOMAIN fs : ForParams(VisitField(NewVisitor, it, fs[j].ty), it) = Mentioned(fs[j].ty)
    BY <1>3, <1>5
  <2>. QED
    BY <1>3, <2>1, <2>2
<1>7. Names(in) = kept
  BY InnerNames
<1>8. ASSUME NEW q \in in.where PROVE Mentioned(q.ty) \cup q.also \subseteq Names(in)
  <2>1. q \in it.where /\ (Visited(q.ty) \cap kept # {} \/ (q.ty.k = "assoc" /\ q.ty.p \in kept))
    BY DEF InnerStruct, KeptPredicates
  <2>2. q.ty \in Types /\ Mentioned(q.ty) \cup q.also \subseteq Names(it)
    BY <2>1 DEF IsItem, WellFormed
  <2>3. PICK x \in Mentioned(q.ty) \cup q.also : x \in kept
    BY <2>1, <2>2, VisitedMentioned
  <2>4. Mentioned(q.ty) \cup q.also = {x}
    <3>. DEFINE M == Mentioned(q.ty) \cup q.also
    <3>1. M \in SUBSET Names(it) /\ Cardinality(M) <= 1 /\ IsFiniteSet(Names(it)) /\ x \in M
      BY <2>1, <2>2, <2>3, NamesFinite
    <3>. HIDE DEF M
    <3>2. M = {x}
      BY <3>1, OnlyOne
    <3>. QED
      BY <3>2 DEF M
  <2>. QED
    BY <1>7, <2>3, <2>4
<1>9. in.lifetime = it.lifetime
  BY DEF InnerStruct
<1>10. {FieldsOf(in)[i].ty : i \in DOMAIN FieldsOf(in)} = types
  BY <1>1, <1>3
<1>. HIDE DEF in, kept
<1>11. WellFormed(in)
  BY <1>6, <1>7, <1>8, <1>9, <1>10 DEF WellFormed
<1>. QED
  BY <1>11 DEF in

LEMMA InnerStructsCompileThen ==
    ASSUME IInv
    PROVE  InnerStructsCompile
<1>1. ASSUME NEW i \in DOMAIN program, program[i].enum, NEW impl \in Generated("schema"),
             NEW v \in DOMAIN program[i].variants,
             NEW types, types = {f.ty : f \in {program[i].variants[v][j] : j \in DOMAIN program[i].variants[v]}},
             impl.item.name = VariantName(program[i], v),
             \A ty \in types : ~Holds(ty, "phantom") /\ (ty.k = "assoc" \/ ~Holds(ty, "assoc")),
             \A q \in program[i].where : Cardinality(Mentioned(q.ty) \cup q.also) <= 1,
             program[i].lifetime => \E ty \in types : Holds(ty, "borrowed")
      PROVE  WellFormed(impl.item)
  <2>1. Expected(impl.item, "schema")
    BY GeneratedIs
  <2>2. ASSUME NEW j \in DOMAIN program, impl.item = program[j] PROVE FALSE
    BY <1>1, <2>2, ProgramIs DEF IInv
  <2>3. ASSUME NEW j \in DOMAIN program, NEW w \in DOMAIN program[j].variants,
               impl.item = InnerStruct(program[j], w)
        PROVE  impl.item = InnerStruct(program[i], v)
    <3>1. impl.item.name = VariantName(program[j], w)
      BY <2>3 DEF InnerStruct
    <3>2. program[j].name = program[i].name /\ v = w
      BY <1>1, <3>1 DEF VariantName
    <3>3. i = j
      BY <3>2, ProgramIs DEF IInv
    <3>. QED
      BY <2>3, <3>2, <3>3
  <2>4. impl.item = InnerStruct(program[i], v)
    BY <2>1, <2>2, <2>3 DEF Expected
  <2>5. IsItem(program[i]) /\ WellFormed(program[i])
    BY ProgramIs DEF IInv
  <2>6. WellFormed(InnerStruct(program[i], v))
    BY <1>1, <2>5, InnerIsWellFormed
  <2>. QED
    BY <2>4, <2>6
<1>. QED
  BY <1>1 DEF InnerStructsCompile

\* The struct that is written for a variant declares the parameters its fields
\* mention and no others, and its predicates are about these.
THEOREM InnerStructsAlwaysCompile == DeriveSpec => []InnerStructsCompile
BY Invariance, InnerStructsCompileThen, PTL

=============================================================================
