------------------------- MODULE SchemaChecksProofs -------------------------
(***************************************************************************)
(* The walks over a schema container are what SchemaChecks says of them,   *)
(* for every container, every width of a byte and every usize.             *)
(*                                                                         *)
(* A call is made for a member of its caller's definition, with a function *)
(* its caller uses (Called), and returns what its function answers         *)
(* (Returned): that is WellFormed.  On it rest five invariants that say    *)
(* what an answer means for the declaration it was asked of, and what a    *)
(* call knows of the members it has called:                                *)
(*   ZeroInv    whether there is an encoding with a byte                   *)
(*   WalkInv    what is on the stack of the two walks that share one, and  *)
(*              of what Recursive is answered                              *)
(*   ValidInv   which declarations validate_impl is done with, but for     *)
(*              those on its stack                                         *)
(*   ErrorInv   what an error says of the declaration it names             *)
(*   SizeInv    sums, maxima and products on their way                     *)
(***************************************************************************)
EXTENDS SchemaChecks, SequenceTheorems, FiniteSetTheorems, WellFoundedInduction, TLAPS

-----------------------------------------------------------------------------
(* The graph of a container: the sets of declarations reached, those with  *)
(* a byte to encode, the lengths of encodings.                             *)

\* A graph over the declarations.
IsGraph(G) == DOMAIN G \subseteq Declarations /\ \A d \in DOMAIN G : G[d] \subseteq Declarations

-----------------------------------------------------------------------------
(* Definitions.                                                            *)

\* The members of a definition are declarations, the one of a sequence its
\* elements'.
LEMMA MembersType ==
    ASSUME NEW def, IsDefinition(def)
    PROVE  /\ Members(def) \in Seq(Declarations)
           /\ Names(def) \subseteq Declarations
           /\ \A i \in 1..Len(Members(def)) : Members(def)[i] \in Names(def)
           /\ \A d \in Names(def) : \E i \in 1..Len(Members(def)) : d = Members(def)[i]
           /\ def.k = "primitive" => Members(def) = <<>> /\ Names(def) = {}
           /\ def.k = "sequence" => /\ Len(Members(def)) = 1 /\ Members(def)[1] = def.of
                                    /\ Names(def) = {def.of}
           /\ def.k \in {"enum", "tuple"} => Members(def) = def.of
<1>1. CASE def.k = "primitive"
  BY <1>1 DEF IsDefinition, Members, Names
<1>2. CASE def.k = "sequence"
  <2>1. def.of \in Declarations /\ Members(def) = <<def.of>>
    BY <1>2 DEF IsDefinition, Members
  <2>2. <<def.of>> \in Seq(Declarations) /\ Len(<<def.of>>) = 1 /\ <<def.of>>[1] = def.of
        /\ DOMAIN <<def.of>> = 1..1
    BY <2>1
  <2>. QED
    BY <1>2, <2>1, <2>2 DEF Names
<1>3. CASE def.k \in {"enum", "tuple"}
  <2>1. def.of \in Seq(Declarations) /\ Members(def) = def.of
    BY <1>3 DEF IsDefinition, Members
  <2>2. DOMAIN def.of = 1..Len(def.of) /\ \A i \in 1..Len(def.of) : def.of[i] \in Declarations
    BY <2>1
  <2>. QED
    BY <1>3, <2>1, <2>2 DEF Names
<1>. QED
  BY <1>1, <1>2, <1>3 DEF IsDefinition

\* The graphs of a container are graphs.
LEMMA GraphsType ==
    ASSUME NEW S, IsContainer(S)
    PROVE  /\ IsGraph(NameGraph(S)) /\ IsGraph(SizeGraph(S)) /\ IsGraph(BareGraph(S))
           /\ DOMAIN NameGraph(S) = DOMAIN S
           /\ DOMAIN SizeGraph(S) = DOMAIN S
           /\ DOMAIN BareGraph(S) = DOMAIN S
  BY MembersType DEF IsContainer, IsGraph, NameGraph, SizeGraph, BareGraph

-----------------------------------------------------------------------------
(* What is reached.                                                        *)

\* What is reached are declarations.
LEMMA ClosureType ==
    ASSUME NEW G, NEW ds
    PROVE  Closure(G, ds) \subseteq Declarations
  BY DEF Closure

\* What one starts from is reached.
LEMMA ClosureHas ==
    ASSUME NEW G, NEW ds \in SUBSET Declarations
    PROVE  ds \subseteq Closure(G, ds)
  BY DEF Closure

\* What is reached is in every closed set that the walk starts in.
LEMMA ClosureLeast ==
    ASSUME NEW G, NEW ds, NEW C \in Closed(G), ds \subseteq C
    PROVE  Closure(G, ds) \subseteq C
  BY DEF Closure

\* What is reached leads to what is reached.
LEMMA ClosureStep ==
    ASSUME NEW G, IsGraph(G), NEW ds, NEW d \in Closure(G, ds), d \in DOMAIN G
    PROVE  G[d] \subseteq Closure(G, ds)
<1>. SUFFICES ASSUME NEW e \in G[d], NEW C \in Closed(G), ds \subseteq C
              PROVE  e \in C
  BY DEF Closure, IsGraph
<1>1. d \in C
  BY DEF Closure
<1>. QED
  BY <1>1 DEF Closed

\* So what is reached is a closed set, and the least one by its definition.
LEMMA ClosureClosed ==
    ASSUME NEW G, IsGraph(G), NEW ds
    PROVE  Closure(G, ds) \in Closed(G)
  BY ClosureStep, ClosureType DEF Closed

\* A walk from what is reached reaches nothing else.
LEMMA ClosureWithin ==
    ASSUME NEW G, IsGraph(G), NEW ds, NEW es, es \subseteq Closure(G, ds)
    PROVE  Closure(G, es) \subseteq Closure(G, ds)
  BY ClosureClosed, ClosureLeast

\* What is reached from a set is reached from one of its elements.
LEMMA ClosureFromOne ==
    ASSUME NEW G, IsGraph(G), NEW ds \in SUBSET Declarations, NEW x \in Closure(G, ds)
    PROVE  \E d \in ds : x \in Closure(G, {d})
<1>. DEFINE C == {y \in Declarations : \E d \in ds : y \in Closure(G, {d})}
<1>1. ds \subseteq C
  <2>. SUFFICES ASSUME NEW d \in ds PROVE d \in Closure(G, {d})
    OBVIOUS
  <2>. QED
    BY ClosureHas
<1>2. C \in Closed(G)
  <2>. SUFFICES ASSUME NEW y \in C \cap DOMAIN G, NEW z \in G[y] PROVE z \in C
    BY DEF Closed
  <2>1. PICK d \in ds : y \in Closure(G, {d})
    OBVIOUS
  <2>2. z \in Closure(G, {d})
    BY <2>1, ClosureStep
  <2>. QED
    BY <2>2, ClosureType
<1>3. x \in C
  BY <1>1, <1>2, ClosureLeast
<1>. QED
  BY <1>3

\* What is reached from d is d and what is reached from its neighbours.
LEMMA ClosureUnfold ==
    ASSUME NEW G, IsGraph(G), NEW d \in Declarations
    PROVE  /\ d \in DOMAIN G => Closure(G, {d}) = {d} \cup Closure(G, G[d])
           /\ d \notin DOMAIN G => Closure(G, {d}) = {d}
<1>1. d \in Closure(G, {d})
  BY ClosureHas
<1>2. ASSUME d \in DOMAIN G PROVE Closure(G, {d}) = {d} \cup Closure(G, G[d])
  <2>1. Closure(G, G[d]) \subseteq Closure(G, {d})
    BY <1>1, <1>2, ClosureStep, ClosureWithin
  <2>2. G[d] \subseteq Closure(G, G[d])
    BY <1>2, ClosureHas DEF IsGraph
  <2>3. {d} \cup Closure(G, G[d]) \in Closed(G)
    BY <2>2, ClosureClosed DEF Closed
  <2>4. Closure(G, {d}) \subseteq {d} \cup Closure(G, G[d])
    BY <2>3, ClosureLeast
  <2>. QED
    BY <1>1, <2>1, <2>4
<1>3. ASSUME d \notin DOMAIN G PROVE Closure(G, {d}) = {d}
  <2>1. {d} \in Closed(G)
    BY <1>3 DEF Closed
  <2>. QED
    BY <1>1, <2>1, ClosureLeast
<1>. QED
  BY <1>2, <1>3

\* The walk goes on: what is reached from a neighbour of what is reached.
LEMMA ClosureExtend ==
    ASSUME NEW G, IsGraph(G), NEW ds \in SUBSET Declarations,
           NEW d \in Closure(G, ds), d \in DOMAIN G, NEW e \in G[d]
    PROVE  e \in Closure(G, ds) /\ Closure(G, {e}) \subseteq Closure(G, ds)
  BY ClosureStep, ClosureWithin

\* A cycle reached from a neighbour is reached.
LEMMA CyclicUp ==
    ASSUME NEW G, IsGraph(G), NEW d \in DOMAIN G, NEW e \in G[d], Cyclic(G, e)
    PROVE  Cyclic(G, d)
<1>1. d \in Closure(G, {d})
  BY ClosureHas DEF IsGraph
<1>2. Closure(G, {e}) \subseteq Closure(G, {d})
  BY <1>1, ClosureExtend DEF IsGraph
<1>. QED
  BY <1>2 DEF Cyclic

\* A declaration on a cycle reaches one.
LEMMA OnCycleCyclic ==
    ASSUME NEW G, IsGraph(G), NEW d, OnCycle(G, d)
    PROVE  Cyclic(G, d)
  BY ClosureHas DEF Cyclic, OnCycle, IsGraph

-----------------------------------------------------------------------------
(* Which encodings are empty.                                              *)

\* More declarations with a byte make no encoding empty.
LEMMA HasByteMonotone ==
    ASSUME NEW def, IsDefinition(def), NEW J, NEW K, J \subseteq K, HasByte(def, J)
    PROVE  HasByte(def, K)
<1>1. CASE def.k = "primitive"
  BY <1>1 DEF HasByte
<1>2. CASE def.k = "sequence"
  BY <1>2 DEF HasByte
<1>3. CASE def.k = "enum"
  BY <1>3 DEF HasByte
<1>4. CASE def.k = "tuple"
  BY <1>4 DEF HasByte
<1>. QED
  BY <1>1, <1>2, <1>3, <1>4 DEF IsDefinition

\* The least set closed under the rules is one they lead to: a declaration is in
\* it exactly when its definition has a byte, given the others in it.
LEMMA NonEmptyFixed ==
    ASSUME NEW S, IsContainer(S), NEW d \in DOMAIN S
    PROVE  d \in NonEmpty(S) <=> HasByte(S[d], NonEmpty(S))
<1>. DEFINE Rules(K) == \A e \in DOMAIN S : HasByte(S[e], K) => e \in K
<1>. DEFINE M == {e \in DOMAIN S : HasByte(S[e], NonEmpty(S))}
<1>1. \A e \in DOMAIN S : IsDefinition(S[e])
  BY DEF IsContainer
<1>2. M \subseteq NonEmpty(S)
  <2>. SUFFICES ASSUME NEW e \in M, NEW K \in SUBSET DOMAIN S, Rules(K)
                PROVE  e \in K
    BY DEF NonEmpty
  <2>1. NonEmpty(S) \subseteq K
    BY DEF NonEmpty
  <2>2. HasByte(S[e], K)
    BY <1>1, <2>1, HasByteMonotone
  <2>. QED
    BY <2>2
<1>3. Rules(M)
  <2>. SUFFICES ASSUME NEW e \in DOMAIN S, HasByte(S[e], M) PROVE HasByte(S[e], NonEmpty(S))
    OBVIOUS
  <2>. QED
    BY <1>1, <1>2, HasByteMonotone
<1>4. NonEmpty(S) \subseteq M
  BY <1>3 DEF NonEmpty
<1>. QED
  BY <1>2, <1>4

-----------------------------------------------------------------------------
(* Recursive functions on an initial part of Nat.                          *)

\* Every set of natural numbers has a least one.
LEMMA LeastNumber ==
    ASSUME NEW T \in SUBSET Nat, T # {}
    PROVE  \E m \in T : \A k \in T : m <= k
<1>. DEFINE R == {ss \in Nat \X Nat : ss[1] < ss[2]}
<1>1. R = OpToRel(<, Nat)
  BY DEF OpToRel
<1>2. IsWellFoundedOn(R, Nat)
  BY <1>1, NatLessThanWellFounded
<1>3. \E m \in T : \A k \in T : ~(<<k, m>> \in R)
  <2>. HIDE DEF R
  <2>. QED BY <1>2, WFMin
<1>4. PICK m \in T : \A k \in T : ~(<<k, m>> \in R)
  BY <1>3
<1>5. ASSUME NEW k \in T PROVE m <= k
  <2>1. <<k, m>> \in Nat \X Nat /\ <<k, m>>[1] = k /\ <<k, m>>[2] = m
    OBVIOUS
  <2>2. ~(k < m)
    BY <1>4, <2>1
  <2>. QED
    BY <2>2
<1>. QED
  BY <1>5

\* What holds at 0 and is passed on to the next holds up to n.
LEMMA UpTo ==
    ASSUME NEW n \in Nat, NEW T \in SUBSET (0..n), 0 \in T,
           \A i \in 0..n : i > 0 /\ i - 1 \in T => i \in T
    PROVE  T = 0..n
<1>. DEFINE U == (0..n) \ T
<1>1. SUFFICES ASSUME U # {} PROVE FALSE
  OBVIOUS
<1>2. PICK m \in U : \A k \in U : m <= k
  <2>. U \in SUBSET Nat
    OBVIOUS
  <2>. HIDE DEF U
  <2>. QED
    BY <1>1, LeastNumber
<1>3. m - 1 \in T
  BY <1>2
<1>. QED
  BY <1>2, <1>3

Steps(f, n, base, step) == f[0] = base /\ \A i \in 1..n : f[i] = step[i][f[i - 1]]

\* A function may be defined by its value at 0 and a step.
LEMMA PrefixRecursion ==
    ASSUME NEW V, NEW base \in V, NEW n \in Nat, NEW step \in [0..n -> [V -> V]]
    PROVE  \E f \in [0..n -> V] : Steps(f, n, base, step)
<1>. DEFINE Upto(m, f) == f[0] = base /\ \A i \in 1..m : f[i] = step[i][f[i - 1]]
<1>. DEFINE T == {m \in 0..n : \E f \in [0..m -> V] : Upto(m, f)}
<1>1. 0 \in T
  <2>. DEFINE g == [i \in 0..0 |-> base]
  <2>1. g \in [0..0 -> V] /\ g[0] = base /\ 0 \in 0..n
    OBVIOUS
  <2>2. \A i \in 1..0 : g[i] = step[i][g[i - 1]]
    OBVIOUS
  <2>. HIDE DEF g
  <2>. QED
    BY <2>1, <2>2
<1>2. ASSUME NEW m \in 0..n, m > 0, m - 1 \in T PROVE m \in T
  <2>1. PICK f \in [0..(m - 1) -> V] : Upto(m - 1, f)
    BY <1>2
  <2>. DEFINE g == [i \in 0..m |-> IF i < m THEN f[i] ELSE step[m][f[m - 1]]]
  <2>2. f[m - 1] \in V /\ step[m][f[m - 1]] \in V
    BY <1>2
  <2>3. g \in [0..m -> V]
    BY <2>2
  <2>4. g[0] = base
    BY <1>2, <2>1
  <2>5. ASSUME NEW i \in 1..m PROVE g[i] = step[i][g[i - 1]]
    <3>1. CASE i < m
      BY <2>1, <3>1
    <3>2. CASE i = m
      BY <1>2, <3>2
    <3>. QED
      BY <3>1, <3>2
  <2>. QED
    BY <2>3, <2>4, <2>5
<1>3. T = 0..n
  <2>. HIDE DEF T
  <2>1. T \subseteq 0..n
    BY DEF T
  <2>. QED
    BY <1>1, <1>2, <2>1, UpTo
<1>. QED
  BY <1>3 DEF Steps

-----------------------------------------------------------------------------
(* Lengths.                                                                *)

Lengths == [Declarations -> Nat]

\* sum[i] is the length of the first i of ds.
IsSums(ds, length, sum) ==
    /\ sum \in [0..Len(ds) -> Nat]
    /\ sum[0] = 0
    /\ \A i \in 1..Len(ds) : sum[i] = sum[i - 1] + length[ds[i]]

Sums(ds, length) == CHOOSE sum : IsSums(ds, length, sum)

\* The sums of the lengths are determined by their equation.
LEMMA SumsUnique ==
    ASSUME NEW ds \in Seq(Declarations), NEW length \in Lengths,
           NEW f, IsSums(ds, length, f), NEW g, IsSums(ds, length, g)
    PROVE  f = g
<1>. DEFINE T == {i \in 0..Len(ds) : f[i] = g[i]}
<1>1. T = 0..Len(ds)
  <2>1. 0 \in T
    BY DEF IsSums
  <2>2. ASSUME NEW i \in 0..Len(ds), i > 0, i - 1 \in T PROVE i \in T
    BY <2>2 DEF IsSums
  <2>3. T \in SUBSET (0..Len(ds)) /\ Len(ds) \in Nat
    OBVIOUS
  <2>. HIDE DEF T
  <2>. QED
    BY <2>1, <2>2, <2>3, UpTo
<1>. QED
  BY <1>1 DEF IsSums

\* There are such sums, and TotalLength is the last one.
LEMMA SumsExist ==
    ASSUME NEW ds \in Seq(Declarations), NEW length \in Lengths
    PROVE  /\ IsSums(ds, length, Sums(ds, length))
           /\ TotalLength(ds, length) = Sums(ds, length)[Len(ds)]
<1>. DEFINE n == Len(ds)
            step == [i \in 0..n |-> [s \in Nat |-> IF i = 0 THEN 0 ELSE s + length[ds[i]]]]
            Body(f) == [i \in 0..n |-> IF i = 0 THEN 0 ELSE f[i - 1] + length[ds[i]]]
<1>1. n \in Nat /\ \A i \in 1..n : length[ds[i]] \in Nat
  BY DEF Lengths
<1>2. step \in [0..n -> [Nat -> Nat]]
  BY <1>1
<1>3. PICK f \in [0..n -> Nat] : f[0] = 0 /\ \A i \in 1..n : f[i] = step[i][f[i - 1]]
  <2>. DEFINE base == 0
              V == Nat
  <2>1. base \in V /\ n \in Nat /\ step \in [0..n -> [V -> V]]
    BY <1>1, <1>2
  <2>. HIDE DEF step, n, base, V
  <2>2. \E f \in [0..n -> V] : Steps(f, n, base, step)
    BY <2>1, PrefixRecursion
  <2>. QED
    BY <2>2 DEF base, V, Steps
<1>4. IsSums(ds, length, f)
  <2>1. ASSUME NEW i \in 1..n PROVE f[i] = f[i - 1] + length[ds[i]]
    <3>1. i - 1 \in 0..n /\ i \in 0..n /\ i # 0
      BY <1>1
    <3>2. f[i] = step[i][f[i - 1]] /\ f[i - 1] \in Nat
      <4>. HIDE DEF step, n
      <4>. QED
        BY <1>3, <3>1
    <3>. QED
      BY <3>1, <3>2
  <2>. QED
    BY <1>3, <2>1 DEF IsSums
<1>5. f = Body(f)
  BY <1>1, <1>4 DEF IsSums
<1>6. ASSUME NEW g, g = Body(g) PROVE IsSums(ds, length, g)
  <2>. DEFINE T == {i \in 0..n : g[i] \in Nat}
  <2>1. g[0] = 0 /\ \A i \in 1..n : g[i] = g[i - 1] + length[ds[i]]
    <3>1. \A i \in 0..n : g[i] = Body(g)[i]
      BY <1>6
    <3>. QED
      BY <1>1, <3>1
  <2>2. T = 0..n
    <3>1. 0 \in T
      BY <1>1, <2>1
    <3>2. ASSUME NEW i \in 0..n, i > 0, i - 1 \in T PROVE i \in T
      BY <1>1, <2>1, <3>2
    <3>3. T \in SUBSET (0..n)
      OBVIOUS
    <3>. HIDE DEF T, n
    <3>. QED
      BY <1>1, <3>1, <3>2, <3>3, UpTo
  <2>3. g \in [0..n -> Nat]
    <3>1. DOMAIN Body(g) = 0..n /\ Body(g) = [i \in 0..n |-> Body(g)[i]]
      OBVIOUS
    <3>2. DOMAIN g = 0..n /\ g = [i \in 0..n |-> g[i]]
      BY <1>6, <3>1
    <3>. QED
      BY <2>2, <3>2
  <2>. QED
    BY <2>1, <2>3 DEF IsSums
<1>7. IsSums(ds, length, Sums(ds, length))
  BY <1>4 DEF Sums
<1>8. TotalLength(ds, length) = (CHOOSE g : g = Body(g))[n]
  BY DEF TotalLength
<1>9. (CHOOSE g : g = Body(g)) = Sums(ds, length)
  <2>. HIDE DEF Body
  <2>1. (CHOOSE g : g = Body(g)) = Body(CHOOSE g : g = Body(g))
    BY <1>5
  <2>. QED
    BY <1>6, <1>7, <2>1, SumsUnique
<1>. QED
  BY <1>7, <1>8, <1>9

\* Sums grow, and are no shorter than what they sum.
LEMMA SumsGrow ==
    ASSUME NEW ds \in Seq(Declarations), NEW length \in Lengths, NEW i \in 0..Len(ds)
    PROVE  /\ Sums(ds, length)[i] <= TotalLength(ds, length)
           /\ i > 0 => length[ds[i]] <= TotalLength(ds, length)
           /\ TotalLength(ds, length) \in Nat
<1>. DEFINE n == Len(ds)
            sum == Sums(ds, length)
            T == {m \in 0..n : \A j \in 0..m : sum[j] <= sum[m]}
<1>1. n \in Nat /\ \A j \in 1..n : length[ds[j]] \in Nat
  BY DEF Lengths
<1>2. /\ sum \in [0..n -> Nat] /\ sum[0] = 0
      /\ \A j \in 1..n : sum[j] = sum[j - 1] + length[ds[j]]
  BY SumsExist DEF IsSums
<1>3. TotalLength(ds, length) = sum[n]
  BY SumsExist
<1>. HIDE DEF sum
<1>4. T = 0..n
  <2>1. 0 \in T
    BY <1>1, <1>2
  <2>2. ASSUME NEW m \in 0..n, m > 0, m - 1 \in T PROVE m \in T
    <3>1. m \in 1..n /\ sum[m - 1] <= sum[m]
      BY <1>1, <1>2, <2>2
    <3>2. ASSUME NEW j \in 0..m PROVE sum[j] <= sum[m]
      <4>1. CASE j = m
        BY <1>2, <4>1
      <4>2. CASE j \in 0..(m - 1)
        <5>1. sum[j] <= sum[m - 1]
          BY <2>2, <4>2
        <5>2. sum[j] \in Nat /\ sum[m] \in Nat /\ sum[m - 1] \in Nat
          <6>1. j \in 0..n /\ m \in 0..n /\ m - 1 \in 0..n
            BY <1>1, <4>2, <3>1
          <6>. HIDE DEF n
          <6>. QED
            BY <1>2, <6>1
        <5>. QED
          BY <3>1, <5>1, <5>2
      <4>. QED
        BY <4>1, <4>2
    <3>. QED
      BY <3>2
  <2>3. T \in SUBSET (0..n)
    OBVIOUS
  <2>. HIDE DEF T, n
  <2>. QED
    BY <1>1, <2>1, <2>2, <2>3, UpTo
<1>5. sum[i] <= sum[n]
  BY <1>1, <1>4
<1>6. i > 0 => length[ds[i]] <= sum[i]
  BY <1>1, <1>2
<1>7. sum[n] \in Nat /\ sum[i] \in Nat /\ (i > 0 => length[ds[i]] \in Nat)
  BY <1>1, <1>2
<1>. QED
  BY <1>3, <1>5, <1>6, <1>7 DEF sum

\* Total lengths depend on the lengths of what is summed.
LEMMA TotalLengthAgrees ==
    ASSUME NEW ds \in Seq(Declarations), NEW f \in Lengths, NEW g \in Lengths,
           \A i \in 1..Len(ds) : f[ds[i]] = g[ds[i]]
    PROVE  TotalLength(ds, f) = TotalLength(ds, g)
<1>1. IsSums(ds, g, Sums(ds, f))
  BY SumsExist DEF IsSums
<1>2. Sums(ds, f) = Sums(ds, g)
  BY <1>1, SumsExist, SumsUnique
<1>. QED
  BY <1>2, SumsExist

\* The largest of a set of numbers is the one that no other exceeds.
LEMMA MaxIs ==
    ASSUME NEW T \in SUBSET Nat, NEW m \in T, \A x \in T : x <= m
    PROVE  Max(T) = m
<1>1. \A x \in T : m >= x
  OBVIOUS
<1>2. Max(T) \in T /\ \A x \in T : Max(T) >= x
  BY <1>1 DEF Max
<1>3. Max(T) \in Nat /\ m \in Nat /\ Max(T) >= m /\ m >= Max(T)
  BY <1>1, <1>2
<1>. QED
  BY <1>3

MemberLengths(def, length) == {0} \cup {length[d] : d \in Names(def)}

\* The members of a definition, which are finitely many, have a longest one.
LEMMA MaxOfMembers ==
    ASSUME NEW def, IsDefinition(def), NEW length \in Lengths
    PROVE  /\ MemberLengths(def, length) \in SUBSET Nat
           /\ Max(MemberLengths(def, length)) \in Nat
           /\ \A d \in Names(def) : length[d] <= Max(MemberLengths(def, length))
<1>. DEFINE ds == Members(def)
            n == Len(ds)
            L == MemberLengths(def, length)
            T == {m \in 0..n : \E k \in Nat : \A i \in 1..m : length[ds[i]] <= k}
            B == {k \in Nat : \A x \in L : x <= k}
<1>1. /\ n \in Nat /\ \A i \in 1..n : ds[i] \in Declarations /\ length[ds[i]] \in Nat
      /\ \A d \in Names(def) : \E i \in 1..n : d = ds[i]
      /\ Names(def) \subseteq Declarations
  <2>1. ds \in Seq(Declarations)
    BY MembersType
  <2>. QED
    BY <2>1, MembersType DEF Lengths
<1>2. L \in SUBSET Nat
  BY <1>1 DEF Lengths, MemberLengths
<1>3. T = 0..n
  <2>1. 0 \in T
    BY <1>1
  <2>2. ASSUME NEW m \in 0..n, m > 0, m - 1 \in T PROVE m \in T
    <3>1. PICK k \in Nat : \A i \in 1..(m - 1) : length[ds[i]] <= k
      BY <2>2
    <3>2. length[ds[m]] \in Nat
      BY <1>1, <2>2
    <3>3. k + length[ds[m]] \in Nat
          /\ \A i \in 1..m : length[ds[i]] <= k + length[ds[m]]
      <4>. SUFFICES ASSUME NEW i \in 1..m PROVE length[ds[i]] <= k + length[ds[m]]
        BY <3>2
      <4>1. length[ds[i]] \in Nat
        BY <1>1
      <4>2. i = m \/ i \in 1..(m - 1)
        OBVIOUS
      <4>. QED
        BY <3>1, <3>2, <4>1, <4>2
    <3>. QED
      BY <3>3
  <2>3. T \in SUBSET (0..n)
    OBVIOUS
  <2>. HIDE DEF T, n
  <2>. QED
    BY <1>1, <2>1, <2>2, <2>3, UpTo
<1>4. B # {}
  <2>. DEFINE Below(m) == \E k \in Nat : \A i \in 1..m : length[ds[i]] <= k
  <2>3. n \in 0..n
    BY <1>1
  <2>4. Below(n)
    <3>1. n \in {m \in 0..n : Below(m)}
      BY <1>3, <2>3
    <3>. HIDE DEF Below, n
    <3>. QED
      BY <3>1
  <2>1. PICK k \in Nat : \A i \in 1..n : length[ds[i]] <= k
    BY <2>4
  <2>2. \A x \in L : x <= k
    BY <1>1, <2>1 DEF MemberLengths
  <2>. QED
    BY <2>2
<1>5. PICK b \in B : \A k \in B : b <= k
  <2>. B \in SUBSET Nat
    OBVIOUS
  <2>. HIDE DEF B
  <2>. QED
    BY <1>4, LeastNumber
<1>6. b \in L
  <2>. SUFFICES ASSUME b \notin L PROVE FALSE
    OBVIOUS
  <2>1. 0 \in L
    BY DEF MemberLengths
  <2>2. b > 0
    BY <2>1
  <2>3. b - 1 \in B
    <3>. SUFFICES ASSUME NEW x \in L PROVE x <= b - 1
      BY <2>2
    <3>1. x <= b /\ x # b /\ x \in Nat
      BY <1>2
    <3>. QED
      BY <3>1
  <2>. QED
    BY <1>5, <2>3
<1>7. Max(L) = b
  <2>. HIDE DEF L
  <2>. QED
    BY <1>2, <1>6, MaxIs
<1>8. \A d \in Names(def) : length[d] \in L
  BY DEF MemberLengths
<1>. QED
  BY <1>2, <1>7, <1>8

\* The longest encoding of a definition is a number if those of its members are.
LEMMA LongestOfType ==
    ASSUME NEW def, IsDefinition(def), NEW length \in Lengths
    PROVE  LongestOf(def, length) \in Nat
<1>1. CASE def.k = "primitive"
  BY <1>1 DEF LongestOf, IsDefinition
<1>2. CASE def.k = "sequence"
  <2>1. def.width \in Nat /\ def.hi \in Nat /\ length[def.of] \in Nat
    BY <1>2 DEF IsDefinition, Lengths
  <2>2. def.hi * length[def.of] \in Nat
    BY <2>1
  <2>. QED
    BY <1>2, <2>1, <2>2 DEF LongestOf
<1>3. CASE def.k = "tuple"
  <2>1. def.of \in Seq(Declarations) /\ 0 \in 0..Len(def.of)
    BY <1>3 DEF IsDefinition
  <2>. QED
    BY <1>3, <2>1, SumsGrow DEF LongestOf
<1>4. CASE def.k = "enum"
  <2>1. def.width \in Nat /\ Max(MemberLengths(def, length)) \in Nat
    BY <1>4, MaxOfMembers DEF IsDefinition
  <2>. QED
    BY <1>4, <2>1 DEF LongestOf, MemberLengths
<1>. QED
  BY <1>1, <1>2, <1>3, <1>4 DEF IsDefinition

\* A length depends on the lengths of what SizeGraph names.
LEMMA LongestOfAgrees ==
    ASSUME NEW S, IsContainer(S), NEW d \in DOMAIN S, NEW f \in Lengths, NEW g \in Lengths,
           \A e \in SizeGraph(S)[d] : f[e] = g[e]
    PROVE  LongestOf(S[d], f) = LongestOf(S[d], g)
<1>. DEFINE def == S[d]
<1>1. IsDefinition(def)
  BY DEF IsContainer
<1>2. ~(def.k = "sequence" /\ def.hi = 0) => \A e \in Names(def) : f[e] = g[e]
  BY DEF SizeGraph
<1>. SUFFICES LongestOf(def, f) = LongestOf(def, g)
  OBVIOUS
<1>. HIDE DEF def
<1>3. CASE def.k = "primitive"
  BY <1>3 DEF LongestOf
<1>4. CASE def.k = "sequence"
  <2>1. def.hi # 0 => f[def.of] = g[def.of]
    BY <1>1, <1>2, <1>4, MembersType
  <2>. QED
    BY <1>4, <2>1 DEF LongestOf
<1>5. CASE def.k = "tuple"
  <2>1. def.of \in Seq(Declarations) /\ \A i \in 1..Len(def.of) : f[def.of[i]] = g[def.of[i]]
    BY <1>1, <1>2, <1>5, MembersType DEF IsDefinition
  <2>. QED
    BY <1>5, <2>1, TotalLengthAgrees DEF LongestOf
<1>6. CASE def.k = "enum"
  <2>1. {f[e] : e \in Names(def)} = {g[e] : e \in Names(def)}
    BY <1>2, <1>6
  <2>. QED
    BY <1>6, <2>1 DEF LongestOf
<1>. QED
  BY <1>1, <1>3, <1>4, <1>5, <1>6 DEF IsDefinition

\* A declaration whose encodings have a longest one.
Bounded(S, d) ==
    /\ Closure(SizeGraph(S), {d}) \subseteq DOMAIN S
    /\ ~Cyclic(SizeGraph(S), d)

\* A declaration whose members reach no cycle is on none.
LEMMA BoundedUp ==
    ASSUME NEW S, IsContainer(S), NEW d \in DOMAIN S,
           \A e \in SizeGraph(S)[d] : Bounded(S, e)
    PROVE  Bounded(S, d)
<1>. DEFINE G == SizeGraph(S)
<1>1. IsGraph(G) /\ DOMAIN G = DOMAIN S /\ d \in Declarations /\ G[d] \subseteq Declarations
  BY GraphsType DEF IsContainer, IsGraph
<1>. HIDE DEF G
<1>2. Closure(G, {d}) = {d} \cup Closure(G, G[d])
  BY <1>1, ClosureUnfold
<1>3. \A x \in Closure(G, G[d]) : \E e \in G[d] : x \in Closure(G, {e})
  BY <1>1, ClosureFromOne
<1>4. \A e \in G[d] : Closure(G, {e}) \subseteq DOMAIN S /\ ~Cyclic(G, e)
  BY DEF Bounded, G
<1>5. Closure(G, {d}) \subseteq DOMAIN S
  BY <1>2, <1>3, <1>4
<1>6. ASSUME NEW x \in Closure(G, {d}), OnCycle(G, x) PROVE FALSE
  <2>1. x \notin Closure(G, G[d])
    BY <1>3, <1>4, <1>6 DEF Cyclic
  <2>2. x = d
    BY <1>2, <2>1
  <2>. QED
    BY <1>6, <2>1, <2>2 DEF OnCycle
<1>. QED
  BY <1>5, <1>6 DEF Bounded, Cyclic, G

\* What a declaration without cycles reaches has none, and does not lead back.
LEMMA BoundedDown ==
    ASSUME NEW S, IsContainer(S), NEW d \in Declarations, Bounded(S, d),
           NEW e \in Closure(SizeGraph(S), {d})
    PROVE  /\ Bounded(S, e)
           /\ d \in DOMAIN S /\ e \in DOMAIN S
           /\ e \in SizeGraph(S)[d] => d \notin Closure(SizeGraph(S), {e})
<1>. DEFINE G == SizeGraph(S)
<1>1. IsGraph(G) /\ DOMAIN G = DOMAIN S
  BY GraphsType
<1>. HIDE DEF G
<1>2. d \in Closure(G, {d}) /\ Closure(G, {e}) \subseteq Closure(G, {d})
  BY <1>1, ClosureHas, ClosureWithin DEF G
<1>3. Closure(G, {d}) \subseteq DOMAIN S /\ ~Cyclic(G, d)
  BY DEF Bounded, G
<1>4. Bounded(S, e)
  BY <1>2, <1>3 DEF Bounded, Cyclic, G
<1>5. d \in DOMAIN S /\ e \in DOMAIN S
  BY <1>2, <1>3 DEF G
<1>6. ASSUME e \in G[d], d \in Closure(G, {e}) PROVE FALSE
  <2>1. Closure(G, {e}) \subseteq Closure(G, G[d])
    <3>1. e \in Closure(G, G[d])
      BY <1>1, <1>5, <1>6, ClosureHas DEF IsGraph
    <3>. QED
      BY <1>1, <3>1, ClosureWithin
  <2>2. OnCycle(G, d)
    BY <1>1, <1>5, <1>6, <2>1 DEF OnCycle
  <2>. QED
    BY <1>2, <1>3, <2>2 DEF Cyclic
<1>. QED
  BY <1>4, <1>5, <1>6 DEF G

\* The lengths of the values nested no deeper than n, for every n up to the number
\* of definitions.
Deeper(S, w) ==
    [n \in 0..Cardinality(DOMAIN S) |->
        [e \in Declarations |->
            IF n = 0 \/ e \notin DOMAIN S THEN 0 ELSE LongestOf(S[e], w[n - 1])]]

Within(S) == CHOOSE w : w = Deeper(S, w)

LongestLengths(S) == [e \in Declarations |-> Longest(S, e)]

\* The lengths by depth exist, with one step of the recursion between two depths.
LEMMA WithinExists ==
    ASSUME NEW S, IsContainer(S)
    PROVE  /\ Cardinality(DOMAIN S) \in Nat
           /\ Within(S) \in [0..Cardinality(DOMAIN S) -> Lengths]
           /\ Within(S) = Deeper(S, Within(S))
           /\ LongestLengths(S) = Within(S)[Cardinality(DOMAIN S)]
<1>. DEFINE depth == Cardinality(DOMAIN S)
            none == [e \in Declarations |-> 0]
            next(f) == [e \in Declarations |-> IF e \notin DOMAIN S THEN 0 ELSE LongestOf(S[e], f)]
            step == [n \in 0..depth |-> [f \in Lengths |-> next(f)]]
<1>1. depth \in Nat
  BY FS_CardinalityType DEF IsContainer
<1>2. none \in Lengths /\ \A f \in Lengths : next(f) \in Lengths
  <2>. SUFFICES ASSUME NEW f \in Lengths, NEW e \in DOMAIN S PROVE LongestOf(S[e], f) \in Nat
    BY DEF Lengths
  <2>. QED
    BY LongestOfType DEF IsContainer
<1>3. step \in [0..depth -> [Lengths -> Lengths]]
  BY <1>2
<1>4. PICK w \in [0..depth -> Lengths] : Steps(w, depth, none, step)
  <2>. DEFINE V == Lengths
  <2>1. none \in V /\ depth \in Nat /\ step \in [0..depth -> [V -> V]]
    BY <1>1, <1>2, <1>3
  <2>. HIDE DEF step, depth, none, V
  <2>2. \E f \in [0..depth -> V] : Steps(f, depth, none, step)
    BY <2>1, PrefixRecursion
  <2>. QED
    BY <2>2 DEF V
<1>5. Deeper(S, w) = [n \in 0..depth |-> IF n = 0 THEN none ELSE next(w[n - 1])]
  <2>1. ASSUME NEW n \in 0..depth
        PROVE  Deeper(S, w)[n] = IF n = 0 THEN none ELSE next(w[n - 1])
    BY DEF Deeper
  <2>. QED
    BY <2>1 DEF Deeper
<1>6. w = Deeper(S, w)
  <2>1. ASSUME NEW n \in 0..depth PROVE w[n] = IF n = 0 THEN none ELSE next(w[n - 1])
    <3>1. CASE n = 0
      BY <1>4, <3>1 DEF Steps
    <3>2. CASE n # 0
      <4>1. n \in 1..depth /\ n - 1 \in 0..depth
        BY <1>1, <3>2
      <4>2. w[n] = step[n][w[n - 1]] /\ w[n - 1] \in Lengths
        <5>. HIDE DEF step, depth
        <5>. QED
          BY <1>4, <4>1 DEF Steps
      <4>3. step[n][w[n - 1]] = next(w[n - 1])
        BY <4>2
      <4>. QED
        BY <3>2, <4>2, <4>3
    <3>. QED
      BY <3>1, <3>2
  <2>2. w = [n \in 0..depth |-> IF n = 0 THEN none ELSE next(w[n - 1])]
    <3>. HIDE DEF depth, none, next
    <3>. QED
      BY <1>4, <2>1
  <2>. QED
    BY <1>5, <2>2
<1>7. Within(S) = Deeper(S, Within(S))
  BY <1>6 DEF Within
<1>8. Within(S) \in [0..depth -> Lengths]
  <2>. DEFINE v == Within(S)
              T == {n \in 0..depth : v[n] \in Lengths}
  <2>1. ASSUME NEW n \in 0..depth
        PROVE  v[n] = [e \in Declarations |->
                   IF n = 0 \/ e \notin DOMAIN S THEN 0 ELSE LongestOf(S[e], v[n - 1])]
    <3>. HIDE DEF v
    <3>1. v = Deeper(S, v)
      BY <1>7 DEF v
    <3>2. v[n] = Deeper(S, v)[n]
      BY <3>1
    <3>. QED
      BY <3>2 DEF Deeper
  <2>2. T = 0..depth
    <3>. HIDE DEF v
    <3>1. 0 \in T
      <4>1. 0 \in 0..depth
        BY <1>1
      <4>2. v[0] = none
        BY <2>1, <4>1
      <4>. QED
        BY <1>2, <4>1, <4>2
    <3>2. ASSUME NEW n \in 0..depth, n > 0, n - 1 \in T PROVE n \in T
      <4>1. v[n] = next(v[n - 1])
        BY <2>1, <3>2
      <4>. QED
        BY <1>2, <3>2, <4>1
    <3>3. T \in SUBSET (0..depth)
      OBVIOUS
    <3>. HIDE DEF T, depth
    <3>. QED
      BY <1>1, <3>1, <3>2, <3>3, UpTo
  <2>3. DOMAIN v = 0..depth /\ v = [n \in 0..depth |-> v[n]]
    <3>1. DOMAIN Deeper(S, v) = 0..depth
          /\ Deeper(S, v) = [n \in 0..depth |-> Deeper(S, v)[n]]
      BY DEF Deeper
    <3>. QED
      BY <1>7, <3>1
  <2>. QED
    BY <2>2, <2>3
<1>9. ASSUME NEW e \in Declarations PROVE Longest(S, e) = Within(S)[depth][e]
  BY DEF Longest, Within, Deeper
<1>10. LongestLengths(S) = Within(S)[depth]
  <2>1. Within(S)[depth] \in Lengths
    BY <1>1, <1>8
  <2>. HIDE DEF depth
  <2>2. Within(S)[depth] = [e \in Declarations |-> Within(S)[depth][e]]
    BY <2>1 DEF Lengths
  <2>. QED
    BY <1>9, <2>2 DEF LongestLengths
<1>. QED
  BY <1>1, <1>7, <1>8, <1>10

\* How much a declaration reaches bounds how deep its values nest.
LEMMA ReachShrinks ==
    ASSUME NEW S, IsContainer(S), NEW d \in Declarations, Bounded(S, d)
    PROVE  /\ Cardinality(Closure(SizeGraph(S), {d})) \in 1..Cardinality(DOMAIN S)
           /\ d \in DOMAIN S
           /\ \A e \in SizeGraph(S)[d] :
                /\ e \in Declarations /\ Bounded(S, e)
                /\ Cardinality(Closure(SizeGraph(S), {e}))
                     < Cardinality(Closure(SizeGraph(S), {d}))
<1>. DEFINE G == SizeGraph(S)
            Reach(e) == Closure(G, {e})
<1>1. IsGraph(G) /\ DOMAIN G = DOMAIN S
  BY GraphsType
<1>2. d \in Reach(d) /\ Reach(d) \subseteq DOMAIN S
  BY ClosureHas DEF Bounded
<1>3. IsFiniteSet(DOMAIN S) /\ IsFiniteSet(Reach(d))
  BY <1>2, FS_Subset DEF IsContainer
<1>4. /\ Cardinality(Reach(d)) \in Nat /\ Cardinality(DOMAIN S) \in Nat
      /\ Cardinality(Reach(d)) <= Cardinality(DOMAIN S)
      /\ Cardinality(Reach(d)) # 0
  <2>. HIDE DEF Reach
  <2>. QED
    BY <1>2, <1>3, FS_Subset, FS_CardinalityType, FS_EmptySet
<1>5. ASSUME NEW e \in G[d]
      PROVE  e \in Declarations /\ Bounded(S, e) /\ Cardinality(Reach(e)) < Cardinality(Reach(d))
  <2>1. e \in Reach(d) /\ Reach(e) \subseteq Reach(d)
    BY <1>1, <1>2, ClosureExtend
  <2>2. Bounded(S, e) /\ d \notin Reach(e)
    BY <2>1, BoundedDown
  <2>3. Reach(e) \subseteq Reach(d) \ {d}
    BY <2>1, <2>2
  <2>. HIDE DEF Reach, G
  <2>4. Cardinality(Reach(d) \ {d}) = Cardinality(Reach(d)) - 1 /\ IsFiniteSet(Reach(d) \ {d})
    BY <1>2, <1>3, FS_RemoveElement
  <2>5. Cardinality(Reach(e)) <= Cardinality(Reach(d)) - 1 /\ Cardinality(Reach(e)) \in Nat
    BY <2>3, <2>4, FS_Subset, FS_CardinalityType
  <2>6. e \in Declarations
    BY <1>1, <1>2, <1>5 DEF IsGraph
  <2>. QED
    BY <1>4, <2>2, <2>5, <2>6
<1>. QED
  BY <1>2, <1>4, <1>5

\* Deeper nesting adds no length.
LEMMA WithinStable ==
    ASSUME NEW S, IsContainer(S), NEW d \in Declarations, Bounded(S, d),
           NEW k \in 0..Cardinality(DOMAIN S), NEW m \in k..Cardinality(DOMAIN S),
           Cardinality(Closure(SizeGraph(S), {d})) <= k
    PROVE  Within(S)[m][d] = Within(S)[k][d]
<1>. DEFINE depth == Cardinality(DOMAIN S)
            w == Within(S)
            Spread(e) == Cardinality(Closure(SizeGraph(S), {e}))
            Settled(i) == \A e \in Declarations : Bounded(S, e) /\ Spread(e) <= i =>
                              \A j \in i..depth : w[j][e] = w[i][e]
            T == {i \in 0..depth : Settled(i)}
<1>1. depth \in Nat /\ w \in [0..depth -> Lengths] /\ w = Deeper(S, w)
  BY WithinExists
<1>. HIDE DEF w
<1>2. ASSUME NEW j \in 1..depth, NEW e \in DOMAIN S
      PROVE  w[j][e] = LongestOf(S[e], w[j - 1])
  <2>1. w[j][e] = Deeper(S, w)[j][e]
    BY <1>1
  <2>. QED
    BY <2>1 DEF Deeper, IsContainer
<1>3. 0 \in T
  <2>1. \A e \in Declarations : Bounded(S, e) => Spread(e) \in 1..depth
    BY ReachShrinks
  <2>2. Settled(0)
    <3>. HIDE DEF Spread, depth
    <3>. QED
      BY <1>1, <2>1
  <2>. HIDE DEF Settled, depth
  <2>. QED
    BY <1>1, <2>2
<1>4. ASSUME NEW i \in 0..depth, i > 0, i - 1 \in T PROVE i \in T
  <2>1. Settled(i - 1)
    BY <1>4
  <2>2. ASSUME NEW e \in Declarations, Bounded(S, e), Spread(e) <= i, NEW j \in i..depth
        PROVE  w[j][e] = w[i][e]
    <3>1. /\ e \in DOMAIN S /\ Spread(e) \in 1..depth
          /\ \A f \in SizeGraph(S)[e] : f \in Declarations /\ Bounded(S, f) /\ Spread(f) < Spread(e)
      BY <2>2, ReachShrinks
    <3>2. i \in 1..depth /\ j \in 1..depth /\ j - 1 \in (i - 1)..depth
      BY <1>1, <1>4
    <3>3. w[j - 1] \in Lengths /\ w[i - 1] \in Lengths
      <4>1. j - 1 \in 0..depth /\ i - 1 \in 0..depth
        BY <1>1, <1>4
      <4>. HIDE DEF depth
      <4>. QED
        BY <1>1, <4>1
    <3>4. \A f \in SizeGraph(S)[e] : Spread(f) <= i - 1
      <4>. SUFFICES ASSUME NEW f \in SizeGraph(S)[e] PROVE Spread(f) <= i - 1
        OBVIOUS
      <4>1. Spread(f) \in 1..depth /\ Spread(f) < Spread(e)
        BY <3>1, ReachShrinks
      <4>. HIDE DEF Spread
      <4>. QED
        BY <1>1, <2>2, <3>1, <4>1
    <3>5. \A f \in SizeGraph(S)[e] : w[j - 1][f] = w[i - 1][f]
      <4>. HIDE DEF Spread, depth
      <4>. QED
        BY <2>1, <3>1, <3>2, <3>4
    <3>6. LongestOf(S[e], w[j - 1]) = LongestOf(S[e], w[i - 1])
      BY <3>1, <3>3, <3>5, LongestOfAgrees
    <3>. QED
      BY <1>2, <3>1, <3>2, <3>6
  <2>3. Settled(i)
    BY <2>2
  <2>. HIDE DEF Settled
  <2>. QED
    BY <2>3
<1>5. T = 0..depth
  <2>1. T \in SUBSET (0..depth)
    OBVIOUS
  <2>. HIDE DEF T, depth
  <2>. QED
    BY <1>1, <1>3, <1>4, <2>1, UpTo
<1>6. Settled(k)
  <2>1. k \in T
    BY <1>5
  <2>. HIDE DEF Settled
  <2>. QED
    BY <2>1
<1>. QED
  BY <1>6 DEF w

\* A declaration that reaches no cycle and misses no definition: the length of its
\* longest encoding is the one its definition gives.
THEOREM LongestUnfold ==
    ASSUME NEW S, IsContainer(S), NEW d \in Declarations, Bounded(S, d)
    PROVE  /\ d \in DOMAIN S
           /\ LongestLengths(S) \in Lengths
           /\ Longest(S, d) = LongestOf(S[d], LongestLengths(S))
<1>. DEFINE depth == Cardinality(DOMAIN S)
            w == Within(S)
            Spread(e) == Cardinality(Closure(SizeGraph(S), {e}))
<1>1. /\ depth \in Nat /\ w \in [0..depth -> Lengths] /\ w = Deeper(S, w)
      /\ LongestLengths(S) = w[depth]
  BY WithinExists
<1>2. /\ d \in DOMAIN S /\ Spread(d) \in 1..depth
      /\ \A e \in SizeGraph(S)[d] : e \in Declarations /\ Bounded(S, e) /\ Spread(e) < Spread(d)
  BY ReachShrinks
<1>3. depth \in 0..depth /\ depth \in 1..depth /\ depth - 1 \in 0..depth /\ depth \in (depth - 1)..depth
  BY <1>1, <1>2
<1>4. w[depth] \in Lengths /\ w[depth - 1] \in Lengths
  <2>. HIDE DEF w, depth
  <2>. QED
    BY <1>1, <1>3
<1>5. ASSUME NEW e \in SizeGraph(S)[d] PROVE w[depth][e] = w[depth - 1][e]
  <2>1. Spread(e) \in 1..depth /\ Bounded(S, e) /\ e \in Declarations /\ Spread(e) < Spread(d)
    BY <1>2, ReachShrinks
  <2>2. Spread(e) <= depth - 1
    <3>. HIDE DEF Spread, depth
    <3>. QED
      BY <1>1, <1>2, <2>1
  <2>. QED
    BY <1>3, <2>1, <2>2, WithinStable
<1>6. LongestOf(S[d], w[depth]) = LongestOf(S[d], w[depth - 1])
  BY <1>2, <1>4, <1>5, LongestOfAgrees
<1>7. w[depth][d] = LongestOf(S[d], w[depth - 1])
  <2>1. Deeper(S, w)[depth][d] = LongestOf(S[d], w[depth - 1])
    BY <1>2, <1>3 DEF Deeper
  <2>. QED
    BY <1>1, <2>1
<1>8. Longest(S, d) = w[depth][d]
  <2>1. LongestLengths(S)[d] = Longest(S, d)
    BY DEF LongestLengths
  <2>. QED
    BY <1>1, <2>1
<1>. QED
  BY <1>1, <1>2, <1>4, <1>6, <1>7, <1>8

\* Members of no length add none.
LEMMA TotalOfZeros ==
    ASSUME NEW ds \in Seq(Declarations), NEW length \in Lengths,
           \A i \in 1..Len(ds) : length[ds[i]] = 0
    PROVE  TotalLength(ds, length) = 0
<1>. DEFINE zeros == [i \in 0..Len(ds) |-> 0]
<1>1. Len(ds) \in Nat
  OBVIOUS
<1>2. IsSums(ds, length, zeros)
  BY <1>1 DEF IsSums
<1>3. Sums(ds, length) = zeros
  BY <1>2, SumsExist, SumsUnique
<1>. QED
  BY <1>1, <1>3, SumsExist

\* A product grows with its factors.
LEMMA TimesGrows ==
    ASSUME NEW m \in Nat, NEW x \in Nat, NEW y \in Nat, x <= y
    PROVE  m * x <= m * y /\ (m >= 1 => x <= m * x) /\ m * x \in Nat
<1>1. PICK z \in Nat : y = x + z
  <2>1. y - x \in Nat /\ y = x + (y - x)
    OBVIOUS
  <2>. QED
    BY <2>1
<1>2. m * y = m * x + m * z /\ m * z \in Nat /\ m * x \in Nat
  BY <1>1
<1>3. ASSUME m >= 1 PROVE x <= m * x
  <2>1. PICK p \in Nat : m = p + 1
    <3>1. m - 1 \in Nat /\ m = (m - 1) + 1
      BY <1>3
    <3>. QED
      BY <3>1
  <2>2. m * x = p * x + x /\ p * x \in Nat
    BY <2>1
  <2>. QED
    BY <2>2
<1>. QED
  BY <1>2, <1>3

\* A product is at least the factor that is not multiplied by zero.
LEMMA TimesAtLeast ==
    ASSUME NEW m \in Nat \ {0}, NEW x \in Nat
    PROVE  x <= m * x /\ m * x \in Nat
<1>1. m \in Nat /\ m >= 1 /\ x <= x
  OBVIOUS
<1>. QED
  BY <1>1, TimesGrows

\* The length of a declaration, from those of its members.
LEMMA LongestGrows ==
    ASSUME NEW S, IsContainer(S), NEW d \in Declarations, Bounded(S, d)
    PROVE  /\ d \in DOMAIN S /\ Longest(S, d) \in Nat
           /\ S[d].k \in {"sequence", "enum"} => S[d].width <= Longest(S, d)
           /\ \A e \in SizeGraph(S)[d] :
                /\ e \in Declarations /\ Bounded(S, e) /\ Longest(S, e) \in Nat
                /\ Longest(S, e) <= Longest(S, d)
                /\ S[d].k = "sequence" => S[d].hi * Longest(S, e) <= Longest(S, d)
<1>. DEFINE len == LongestLengths(S)
            def == S[d]
<1>1. /\ d \in DOMAIN S /\ len \in Lengths /\ Longest(S, d) = LongestOf(def, len)
      /\ IsDefinition(def) /\ LongestOf(def, len) \in Nat
  BY LongestUnfold, LongestOfType DEF IsContainer
<1>2. \A e \in Declarations : len[e] = Longest(S, e) /\ len[e] \in Nat
  BY <1>1 DEF LongestLengths, Lengths
<1>3. /\ \A e \in SizeGraph(S)[d] : e \in Declarations /\ Bounded(S, e) /\ e \in Names(def)
      /\ SizeGraph(S)[d] # {} => ~(def.k = "sequence" /\ def.hi = 0)
  <2>1. \A e \in SizeGraph(S)[d] : e \in Names(def)
    BY <1>1 DEF SizeGraph
  <2>. QED
    BY <1>1, <2>1, ReachShrinks DEF SizeGraph
<1>. HIDE DEF len, def
<1>4. CASE def.k = "primitive"
  <2>1. Names(def) = {}
    BY <1>1, <1>4, MembersType
  <2>. QED
    BY <1>1, <1>3, <1>4, <2>1 DEF def
<1>5. CASE def.k = "sequence"
  <2>1. def.width \in Nat /\ def.hi \in Nat /\ len[def.of] \in Nat /\ def.of \in Declarations
        /\ Names(def) = {def.of}
    BY <1>1, <1>2, <1>5, MembersType DEF IsDefinition
  <2>2. LongestOf(def, len) = def.width + (IF def.hi = 0 THEN 0 ELSE def.hi * len[def.of])
    BY <1>5 DEF LongestOf
  <2>3. def.hi * len[def.of] \in Nat /\ (def.hi >= 1 => len[def.of] <= def.hi * len[def.of])
    BY <2>1, TimesGrows
  <2>4. def.width <= LongestOf(def, len)
    BY <2>1, <2>2, <2>3
  <2>5. ASSUME def.hi # 0
        PROVE  len[def.of] <= LongestOf(def, len) /\ def.hi * len[def.of] <= LongestOf(def, len)
    BY <2>1, <2>2, <2>3, <2>5
  <2>6. \A e \in SizeGraph(S)[d] : e = def.of /\ def.hi # 0
    BY <1>3, <1>5, <2>1
  <2>. QED
    BY <1>1, <1>2, <1>3, <2>4, <2>5, <2>6 DEF def
<1>6. CASE def.k = "tuple"
  <2>1. def.of \in Seq(Declarations) /\ \A e \in Names(def) : \E i \in 1..Len(def.of) : e = def.of[i]
    BY <1>1, <1>6, MembersType DEF IsDefinition
  <2>2. LongestOf(def, len) = TotalLength(def.of, len)
    BY <1>6 DEF LongestOf
  <2>3. ASSUME NEW e \in Names(def) PROVE len[e] <= LongestOf(def, len)
    <3>1. PICK i \in 1..Len(def.of) : e = def.of[i]
      BY <2>1
    <3>2. i \in 0..Len(def.of) /\ i > 0
      OBVIOUS
    <3>. QED
      BY <1>1, <2>1, <2>2, <3>1, <3>2, SumsGrow
  <2>. QED
    BY <1>1, <1>2, <1>3, <1>6, <2>3 DEF def
<1>7. CASE def.k = "enum"
  <2>1. def.width \in Nat /\ Max(MemberLengths(def, len)) \in Nat
        /\ \A e \in Names(def) : len[e] <= Max(MemberLengths(def, len))
    BY <1>1, <1>7, MaxOfMembers DEF IsDefinition
  <2>2. LongestOf(def, len) = def.width + Max(MemberLengths(def, len))
    BY <1>7 DEF LongestOf, MemberLengths
  <2>3. def.width <= LongestOf(def, len)
    BY <2>1, <2>2
  <2>4. ASSUME NEW e \in SizeGraph(S)[d] PROVE len[e] <= LongestOf(def, len)
    <3>1. len[e] <= Max(MemberLengths(def, len)) /\ len[e] \in Nat
      BY <1>2, <1>3, <2>1
    <3>. QED
      BY <2>1, <2>2, <3>1
  <2>. QED
    BY <1>1, <1>2, <1>3, <1>7, <2>3, <2>4 DEF def
<1>. QED
  BY <1>1, <1>4, <1>5, <1>6, <1>7 DEF IsDefinition


Functions3 == {"validate", "size", "zero"}
Queries == {"nothing", "validate", "max_size", "zero_size"}
ResultKinds == {"none", "unit", "zero", "sized", "size"} \cup ErrorKinds

Frame == [fn : Functions3, of : Declarations, count : Nat, at : Nat \cup {-1}, acc : Nat]
Results == [is : ResultKinds, n : 0..MaxUsize, of : Declarations]

\* The function a query starts with.
FirstCall(query) ==
    CASE query = "validate" -> "validate"
      [] query = "max_size" -> "size"
      [] OTHER -> "zero"

\* The functions that f calls for a member, and how many times it counts it.
Calls(D, f, fn) ==
    CASE f.fn = "zero" -> fn = "zero"
      [] f.fn = "size" ->
           fn = IF D[f.of].k = "sequence" /\ D[f.of].hi > MaxUsize THEN "zero" ELSE "size"
      [] f.fn = "validate" -> fn = "validate" \/ (fn = "zero" /\ IsDynamic(D[f.of]))

Times(D, f) ==
    IF f.fn = "size" /\ D[f.of].k = "sequence" /\ D[f.of].hi <= MaxUsize THEN D[f.of].hi ELSE 1

\* What a call of fn may return.
Returned(fn, r) ==
    CASE fn = "zero" -> r \in {Zero, Sized} \/ r.is \in {"Recursive", "MissingDefinition", "panic"}
      [] fn = "size" ->
           r = Size(r.n) \/ r.is \in {"Recursive", "MissingDefinition", "panic", "Overflow"}
      [] fn = "validate" -> r = Unit \/ r.is \in ErrorKinds \ {"Recursive", "Overflow"}

\* A call that has looked its declaration up found it, and is at one of its members.
FrameOK(D, f) ==
    /\ f.of \in Reached(D, Root)
    /\ f.count >= 1
    /\ f.at >= 0 => f.of \in DOMAIN D /\ f.at <= Len(Members(D[f.of]))

\* g was called by f.
Called(D, f, g) ==
    /\ f.at >= 1
    /\ g.of = Members(D[f.of])[f.at]
    /\ g.count = Times(D, f)
    /\ Calls(D, f, g.fn)

Chain(query, D, fs) ==
    /\ \A i \in 1..Len(fs) : FrameOK(D, fs[i])
    /\ \A i \in 2..Len(fs) : Called(D, fs[i - 1], fs[i])
    /\ Len(fs) >= 1 => /\ query # "nothing"
                       /\ fs[1].of = Root /\ fs[1].count = 1 /\ fs[1].fn = FirstCall(query)

\* The result is that of the call the innermost one made last; there is none while
\* it has made no call.
Returning(query, D, fs, r) ==
    IF fs = <<>>
    THEN IF query = "nothing" THEN r = None ELSE Returned(FirstCall(query), r)
    ELSE LET top == fs[Len(fs)]
         IN  IF top.at <= 0 THEN r = None
             ELSE \E fn \in Functions3 : Calls(D, top, fn) /\ Returned(fn, r)

\* validate_impl has on its stack the declarations of its calls under way.
Mirrors(fs, v) ==
    /\ Len(v) <= Len(fs)
    /\ \A i \in 1..Len(fs) : i <= Len(v) <=> fs[i].fn = "validate" /\ fs[i].at >= 0
    /\ \A i \in 1..Len(v) : v[i] = fs[i].of

Typed ==
    /\ IsContainer(defs) /\ asked \in Queries
    /\ frames \in Seq(Frame) /\ result \in Results
    /\ validating \in Seq(Declarations) /\ stack \in Seq(Declarations)

WellFormed ==
    /\ Typed
    /\ Chain(asked, defs, frames)
    /\ Returning(asked, defs, frames, result)
    /\ ~IsError(result) \/ result.is = "Recursive" => Mirrors(frames, validating)

-----------------------------------------------------------------------------
(* Calls on a sequence of calls.                                           *)

\* Front leaves the other elements where they are.
LEMMA FrontOfSeq ==
    ASSUME NEW S, NEW s \in Seq(S), s # <<>>
    PROVE  /\ Len(s) \in Nat \ {0} /\ Front(s) \in Seq(S)
           /\ Len(Front(s)) = Len(s) - 1
           /\ \A i \in 1..Len(s) - 1 : Front(s)[i] = s[i]
<1>1. Len(s) \in Nat \ {0}
  OBVIOUS
<1>2. Front(s) = SubSeq(s, 1, Len(s) - 1)
  BY DEF Front
<1>3. \A i \in 1..Len(s) - 1 : s[i] \in S
  BY <1>1
<1>4. /\ Front(s) \in Seq(S)
      /\ Len(Front(s)) = (IF 1 <= Len(s) - 1 THEN Len(s) - 1 - 1 + 1 ELSE 0)
      /\ \A i \in 1..Len(s) - 1 - 1 + 1 : Front(s)[i] = s[1 + i - 1]
  BY <1>1, <1>2, <1>3, SubSeqProperties
<1>5. Len(Front(s)) = Len(s) - 1
  <2>1. PICK n \in Nat : n = Len(s) /\ n # 0
    BY <1>1
  <2>2. Len(Front(s)) = (IF 1 <= n - 1 THEN n - 1 - 1 + 1 ELSE 0)
    BY <2>1, <1>4
  <2> QED
    BY <2>1, <2>2
<1>6. ASSUME NEW i \in 1..Len(s) - 1 PROVE Front(s)[i] = s[i]
  <2>1. i \in 1..Len(s) - 1 - 1 + 1 /\ 1 + i - 1 = i
    BY <1>1
  <2> QED
    BY <2>1, <1>4
<1> QED
  BY <1>1, <1>4, <1>5, <1>6

\* Front and Last take a sequence apart.
LEMMA FrontLast ==
    ASSUME NEW S, NEW s \in Seq(S), s # <<>>
    PROVE  /\ Len(s) \in Nat \ {0} /\ Last(s) = s[Len(s)] /\ Last(s) \in S
           /\ Front(s) \in Seq(S) /\ Len(Front(s)) = Len(s) - 1
           /\ \A i \in 1..(Len(s) - 1) : Front(s)[i] = s[i]
<1>1. Len(s) \in Nat \ {0}
  OBVIOUS
<1>2. Last(s) = s[Len(s)] /\ s[Len(s)] \in S
  BY <1>1 DEF Last
<1>. QED
  BY <1>1, <1>2, FrontOfSeq

\* Popping an empty Vec leaves it empty.
LEMMA FrontType ==
    ASSUME NEW S, NEW s \in Seq(S)
    PROVE  Front(s) \in Seq(S)
<1>1. CASE s # <<>>
  BY <1>1, FrontLast
<1>2. CASE s = <<>>
  <2>1. Front(s) = SubSeq(s, 1, -1)
    BY <1>2 DEF Front
  <2>2. SubSeq(s, 1, -1) = <<>>
    BY SubSeqEmpty
  <2>. QED
    BY <2>1, <2>2
<1>. QED
  BY <1>1, <1>2

\* The calls that are left when the last one returns are a chain.
LEMMA ChainPop ==
    ASSUME NEW query, NEW D, NEW fs \in Seq(Frame), fs # <<>>, Chain(query, D, fs)
    PROVE  Chain(query, D, Front(fs))
<1>1. /\ Len(fs) \in Nat \ {0} /\ Len(Front(fs)) = Len(fs) - 1
      /\ \A i \in 1..(Len(fs) - 1) : Front(fs)[i] = fs[i]
  BY FrontLast
<1>2. \A i \in 1..(Len(fs) - 1) : FrameOK(D, Front(fs)[i])
  BY <1>1 DEF Chain
<1>3. \A i \in 2..(Len(fs) - 1) : Called(D, Front(fs)[i - 1], Front(fs)[i])
  BY <1>1 DEF Chain
<1>. QED
  BY <1>1, <1>2, <1>3 DEF Chain

\* The innermost call goes on.
LEMMA ChainSet ==
    ASSUME NEW query, NEW D, NEW fs \in Seq(Frame), fs # <<>>, Chain(query, D, fs),
           NEW gs \in Seq(Frame), Len(gs) = Len(fs),
           \A i \in 1..(Len(fs) - 1) : gs[i] = fs[i],
           gs[Len(fs)].fn = fs[Len(fs)].fn, gs[Len(fs)].of = fs[Len(fs)].of,
           gs[Len(fs)].count = fs[Len(fs)].count, FrameOK(D, gs[Len(fs)])
    PROVE  Chain(query, D, gs)
<1>1. Len(fs) \in Nat \ {0}
  OBVIOUS
<1>2. \A i \in 1..Len(fs) : FrameOK(D, gs[i])
  <2>. SUFFICES ASSUME NEW i \in 1..(Len(fs) - 1) PROVE FrameOK(D, gs[i])
    BY <1>1
  <2>. QED
    BY <1>1 DEF Chain
<1>3. ASSUME NEW i \in 2..Len(fs) PROVE Called(D, gs[i - 1], gs[i])
  <2>1. Called(D, fs[i - 1], fs[i]) /\ gs[i - 1] = fs[i - 1]
    BY <1>1 DEF Chain
  <2>2. gs[i].of = fs[i].of /\ gs[i].count = fs[i].count /\ gs[i].fn = fs[i].fn
    BY <1>1
  <2>. QED
    BY <2>1, <2>2 DEF Called
<1>4. gs[1].of = fs[1].of /\ gs[1].count = fs[1].count /\ gs[1].fn = fs[1].fn
  BY <1>1
<1>. QED
  BY <1>1, <1>2, <1>3, <1>4 DEF Chain

\* They are one when the last call calls a member.
LEMMA ChainPush ==
    ASSUME NEW query, NEW D, NEW fs \in Seq(Frame), fs # <<>>, Chain(query, D, fs),
           NEW g \in Frame, FrameOK(D, g), Called(D, fs[Len(fs)], g)
    PROVE  /\ Chain(query, D, Append(fs, g))
           /\ Append(fs, g) \in Seq(Frame) /\ Len(Append(fs, g)) = Len(fs) + 1
           /\ \A i \in 1..Len(fs) : Append(fs, g)[i] = fs[i]
           /\ Append(fs, g)[Len(fs) + 1] = g
<1>. DEFINE gs == Append(fs, g)
<1>1. /\ gs \in Seq(Frame) /\ Len(fs) \in Nat \ {0} /\ Len(gs) = Len(fs) + 1
      /\ \A i \in 1..Len(fs) : gs[i] = fs[i]
      /\ gs[Len(fs) + 1] = g
  OBVIOUS
<1>. HIDE DEF gs
<1>2. ASSUME NEW i \in 1..Len(gs) PROVE FrameOK(D, gs[i])
  <2>1. i \in 1..Len(fs) \/ i = Len(fs) + 1
    BY <1>1
  <2>. QED
    BY <1>1, <2>1 DEF Chain
<1>3. ASSUME NEW i \in 2..Len(gs) PROVE Called(D, gs[i - 1], gs[i])
  <2>1. CASE i \in 2..Len(fs)
    <3>1. gs[i] = fs[i] /\ gs[i - 1] = fs[i - 1]
      BY <1>1, <2>1
    <3>. QED
      BY <2>1, <3>1 DEF Chain
  <2>2. CASE i = Len(fs) + 1
    <3>1. gs[i] = g /\ gs[i - 1] = fs[Len(fs)]
      BY <1>1, <2>2
    <3>. QED
      BY <3>1
  <2>. QED
    BY <1>1, <2>1, <2>2
<1>4. gs[1] = fs[1]
  BY <1>1
<1>5. Chain(query, D, gs)
  BY <1>1, <1>2, <1>3, <1>4 DEF Chain
<1>. QED
  BY <1>1, <1>5 DEF gs

\* A member of a declaration that is reached is reached.
LEMMA MemberReached ==
    ASSUME NEW D, IsContainer(D), NEW d \in Reached(D, Root), d \in DOMAIN D,
           NEW i \in 1..Len(Members(D[d]))
    PROVE  /\ Members(D[d])[i] \in Reached(D, Root)
           /\ Members(D[d])[i] \in Declarations
           /\ Members(D[d])[i] \in Names(D[d])
<1>. DEFINE m == Members(D[d])[i]
<1>1. m \in Names(D[d]) /\ Names(D[d]) \subseteq Declarations
  BY MembersType DEF IsContainer
<1>2. NameGraph(D)[d] = Names(D[d]) /\ IsGraph(NameGraph(D)) /\ d \in DOMAIN NameGraph(D)
  BY GraphsType DEF NameGraph
<1>3. m \in Closure(NameGraph(D), {Root})
  BY <1>1, <1>2, ClosureStep DEF Reached
<1>. QED
  BY <1>1, <1>3 DEF Reached

-----------------------------------------------------------------------------
(* Steps.                                                                  *)

\* What a call may return.
LEMMA ResultTypes ==
    /\ None \in Results /\ Unit \in Results /\ Zero \in Results /\ Sized \in Results
    /\ \A n \in 0..MaxUsize : Size(n) \in Results /\ Size(n) = Size(Size(n).n)
    /\ \A e \in ErrorKinds, d \in Declarations : Error(e, d) \in Results
  BY SchemaAssumption, ContainersAssumption
  DEF Results, ResultKinds, None, Unit, Zero, Sized, Size, Answer, Error

\* No two kinds of result are taken for one another.
LEMMA ResultsDiffer ==
    /\ ~IsError(None) /\ ~IsError(Unit) /\ ~IsError(Zero) /\ ~IsError(Sized)
    /\ \A n : ~IsError(Size(n)) /\ Size(n).is = "size" /\ Size(n).n = n
    /\ \A e, d : Error(e, d).is = e /\ Error(e, d).of = d
    /\ \A e \in ErrorKinds : \A d : IsError(Error(e, d))
    /\ None.is = "none" /\ Unit.is = "unit" /\ Zero.is = "zero" /\ Sized.is = "sized"
    /\ None.n = 0
  BY DEF IsError, ErrorKinds, None, Unit, Zero, Sized, Size, Answer, Error

\* The innermost call.
LEMMA TopFacts ==
    ASSUME WellFormed, frames # <<>>
    PROVE  /\ Len(frames) \in Nat \ {0} /\ Top = frames[Len(frames)] /\ Top \in Frame
           /\ Top.of \in Declarations /\ Top.of \in Here /\ Top.count \in Nat \ {0}
           /\ Top.at >= 0 => /\ Top.of \in DOMAIN defs /\ IsDefinition(Def)
                             /\ Members(Def) \in Seq(Declarations)
                             /\ Top.at \in 0..Len(Members(Def))
           /\ Top.at <= 0 => result = None
           /\ Top.at >= 1 => \E fn \in Functions3 : Calls(defs, Top, fn) /\ Returned(fn, result)
           /\ Top.at \in Nat \cup {-1} /\ Top.acc \in Nat /\ Top.fn \in Functions3
           /\ asked # "nothing" /\ result \in Results
<1>1. frames \in Seq(Frame) /\ IsContainer(defs) /\ result \in Results
  BY DEF WellFormed, Typed
<1>2. Len(frames) \in Nat \ {0} /\ Top = frames[Len(frames)] /\ Top \in Frame
  BY <1>1, FrontLast DEF Top
<1>3. /\ Top.of \in Declarations /\ Top.at \in Nat \cup {-1} /\ Top.acc \in Nat
      /\ Top.fn \in Functions3 /\ Top.count \in Nat
  BY <1>2 DEF Frame
<1>4. FrameOK(defs, Top) /\ asked # "nothing"
  BY <1>2 DEF WellFormed, Chain
<1>5. Top.of \in Here /\ Top.count \in Nat \ {0}
  BY <1>3, <1>4 DEF FrameOK, Here
<1>6. ASSUME Top.at >= 0
      PROVE  /\ Top.of \in DOMAIN defs /\ IsDefinition(Def)
             /\ Members(Def) \in Seq(Declarations) /\ Top.at \in 0..Len(Members(Def))
  <2>1. Top.of \in DOMAIN defs /\ Top.at <= Len(Members(Def)) /\ IsDefinition(Def)
    BY <1>1, <1>4, <1>6 DEF FrameOK, Def, IsContainer
  <2>2. Members(Def) \in Seq(Declarations)
    BY <2>1, MembersType
  <2>3. Len(Members(Def)) \in Nat
    BY <2>2
  <2>. QED
    BY <1>3, <1>6, <2>1, <2>2, <2>3
<1>7. /\ Top.at <= 0 => result = None
      /\ Top.at > 0 => \E fn \in Functions3 : Calls(defs, Top, fn) /\ Returned(fn, result)
  BY <1>2, <1>3 DEF WellFormed, Returning
<1>. QED
  BY <1>1, <1>2, <1>3, <1>4, <1>5, <1>6, <1>7

\* A call returns: its caller has the result it waits for.
LEMMA PopKeeps ==
    ASSUME WellFormed, frames # <<>>, NEW r \in Results, Return(r), Returned(Top.fn, r),
           validating' \in Seq(Declarations), stack' \in Seq(Declarations),
           ~IsError(r) \/ r.is = "Recursive" => Mirrors(frames', validating')
    PROVE  WellFormed'
<1>1. frames' = Front(frames) /\ result' = r /\ defs' = defs /\ asked' = asked
  BY DEF Return
<1>2. frames \in Seq(Frame) /\ Chain(asked, defs, frames)
  BY DEF WellFormed, Typed
<1>3. /\ Len(frames) \in Nat \ {0} /\ Top = frames[Len(frames)]
      /\ Front(frames) \in Seq(Frame) /\ Len(Front(frames)) = Len(frames) - 1
      /\ \A i \in 1..(Len(frames) - 1) : Front(frames)[i] = frames[i]
  BY <1>2, FrontLast DEF Top
<1>4. Typed'
  BY <1>1, <1>3 DEF WellFormed, Typed
<1>5. Chain(asked, defs, frames)'
  BY <1>1, <1>2, ChainPop
<1>6. Returning(asked', defs', frames', result')
  <2>1. CASE Len(frames) = 1
    <3>1. frames' = <<>> /\ asked # "nothing" /\ Top.fn = FirstCall(asked)
      BY <1>1, <1>2, <1>3, <2>1 DEF Chain
    <3>. QED
      BY <1>1, <3>1 DEF Returning
  <2>2. CASE Len(frames) # 1
    <3>. DEFINE n == Len(frames)
                g == frames[n - 1]
    <3>1. frames' # <<>> /\ Len(frames') = n - 1 /\ frames'[n - 1] = g
      BY <1>1, <1>3, <2>2
    <3>2. Called(defs, g, Top)
      BY <1>2, <1>3, <2>2 DEF Chain
    <3>3. ~(g.at <= 0) /\ Calls(defs, g, Top.fn) /\ Top.fn \in Functions3
      <4>1. g \in Frame /\ Top \in Frame
        BY <1>2, <1>3, <2>2
      <4>. QED
        BY <3>2, <4>1 DEF Called, Frame
    <3>. HIDE DEF g, n
    <3>. QED
      BY <1>1, <3>1, <3>3 DEF Returning
  <2>. QED
    BY <2>1, <2>2
<1>. QED
  BY <1>1, <1>4, <1>5, <1>6 DEF WellFormed

\* Only validate_impl calls validate_impl, and so on.
LEMMA CalledByValidate ==
    ASSUME NEW D, NEW f, f.fn \in Functions3, NEW fn, Calls(D, f, fn)
    PROVE  /\ fn = "validate" => f.fn = "validate"
           /\ fn = "size" => f.fn = "size"
           /\ f.fn = "zero" => fn = "zero"
           /\ f.fn = "size" => fn \in {"size", "zero"}
  BY DEF Calls, Functions3

\* A call that ends leaves the other stack alone, and takes the last declaration off
\* its own.
LEMMA LeaveKeeps ==
    ASSUME WellFormed, frames # <<>>, Top.at >= 0, NEW r \in Results, Leave(r),
           Returned(Top.fn, r), ~IsError(result)
    PROVE  WellFormed'
<1>1. /\ Len(frames) \in Nat \ {0} /\ Top = frames[Len(frames)]
      /\ frames' = Front(frames) /\ Len(Front(frames)) = Len(frames) - 1
      /\ \A i \in 1..(Len(frames) - 1) : Front(frames)[i] = frames[i]
  BY TopFacts, FrontLast DEF WellFormed, Typed, Leave, Return
<1>2. /\ validating \in Seq(Declarations) /\ stack \in Seq(Declarations)
      /\ Mirrors(frames, validating)
  BY DEF WellFormed, Typed
<1>3. CASE Top.fn = "validate"
  <2>1. validating' = Front(validating) /\ stack' = stack
    BY <1>3 DEF Leave
  <2>2. Len(validating) = Len(frames) /\ Len(validating) \in Nat
    BY <1>1, <1>2, <1>3 DEF Mirrors
  <2>3. /\ Front(validating) \in Seq(Declarations) /\ Len(Front(validating)) = Len(frames) - 1
        /\ \A i \in 1..(Len(frames) - 1) : Front(validating)[i] = validating[i]
    <3>1. validating # <<>>
      BY <1>1, <2>2
    <3>. QED
      BY <1>2, <2>2, <3>1, FrontLast
  <2>4. Mirrors(frames', validating')
    <3>1. Len(frames') = Len(frames) - 1 /\ Len(validating') = Len(frames) - 1
      BY <1>1, <2>1, <2>3
    <3>2. ASSUME NEW i \in 1..Len(frames) - 1
          PROVE  /\ frames'[i].fn = "validate" /\ frames'[i].at >= 0
                 /\ validating'[i] = frames'[i].of
      <4>1. i \in 1..Len(frames) /\ i \in 1..Len(validating) /\ i <= Len(validating)
        BY <1>1, <2>2
      <4>2. frames'[i] = frames[i] /\ validating'[i] = validating[i]
        BY <1>1, <2>1, <2>3
      <4>. QED
        BY <1>2, <4>1, <4>2 DEF Mirrors
    <3>3. \A i \in 1..Len(frames) - 1 : i <= Len(frames) - 1
      BY <1>1
    <3>4. Len(frames) - 1 <= Len(frames) - 1
      BY <1>1
    <3>. QED
      BY <3>1, <3>2, <3>3, <3>4 DEF Mirrors
  <2>. QED
    BY <1>2, <2>1, <2>3, <2>4, PopKeeps DEF Leave
<1>4. CASE Top.fn # "validate"
  <2>1. validating' = validating /\ stack' = Front(stack)
    BY <1>4 DEF Leave
  <2>2. stack' \in Seq(Declarations)
    BY <1>2, <2>1, FrontType
  <2>3. Mirrors(frames', validating')
    <3>1. Len(validating) <= Len(frames) - 1 /\ Len(validating) \in Nat
      BY <1>1, <1>2, <1>4 DEF Mirrors
    <3>2. \A i \in 1..Len(frames) - 1 : i \in 1..Len(frames) /\ frames'[i] = frames[i]
      BY <1>1
    <3>3. \A i \in 1..Len(validating) : i \in 1..Len(frames) - 1 /\ i \in 1..Len(frames)
      BY <1>1, <3>1
    <3>. QED
      BY <1>1, <1>2, <2>1, <3>1, <3>2, <3>3 DEF Mirrors
  <2>. QED
    BY <1>2, <2>1, <2>2, <2>3, PopKeeps DEF Leave
<1>. QED
  BY <1>3, <1>4

\* An early return, with an error or from a call that pushed nothing.
LEMMA ReturnEarlyKeeps ==
    ASSUME WellFormed, frames # <<>>, NEW r \in Results, ReturnEarly(r), Returned(Top.fn, r),
           \/ IsError(r) /\ r.is # "Recursive"
           \/ /\ Top.fn = "validate" => Top.at = -1
              /\ ~IsError(result) \/ result.is = "Recursive"
    PROVE  WellFormed'
<1>1. /\ Len(frames) \in Nat \ {0} /\ Top = frames[Len(frames)]
      /\ frames' = Front(frames) /\ Len(Front(frames)) = Len(frames) - 1
      /\ \A i \in 1..(Len(frames) - 1) : Front(frames)[i] = frames[i]
  BY TopFacts, FrontLast DEF WellFormed, Typed, ReturnEarly, Return
<1>2. /\ validating \in Seq(Declarations) /\ stack \in Seq(Declarations)
      /\ validating' = validating /\ stack' = stack
  BY DEF WellFormed, Typed, ReturnEarly
<1>3. ASSUME ~IsError(r) \/ r.is = "Recursive" PROVE Mirrors(frames', validating')
  <2>1. Mirrors(frames, validating) /\ (Top.fn = "validate" => Top.at = -1)
    BY <1>3 DEF WellFormed
  <2>2. Len(validating) <= Len(frames) - 1 /\ Len(validating) \in Nat
    BY <1>1, <1>2, <2>1 DEF Mirrors
  <2>. QED
    BY <1>1, <1>2, <2>1, <2>2 DEF Mirrors
<1>. QED
  BY <1>2, <1>3, PopKeeps DEF ReturnEarly

\* The declaration is found.
LEMMA EnterKeeps ==
    ASSUME WellFormed, frames # <<>>, Top.at = -1, Top.of \in DOMAIN defs, Enter
    PROVE  /\ WellFormed'
           /\ Len(frames') = Len(frames)
           /\ \A i \in 1..Len(frames) :
                /\ frames'[i].fn = frames[i].fn /\ frames'[i].of = frames[i].of
                /\ frames'[i].count = frames[i].count /\ frames'[i].acc = frames[i].acc
                /\ i < Len(frames) => frames'[i] = frames[i]
           /\ frames'[Len(frames)].at = 0
<1>. DEFINE n == Len(frames)
            g == [Top EXCEPT !.at = 0]
<1>1. /\ n \in Nat \ {0} /\ Top = frames[n] /\ Top \in Frame /\ Top.of \in Declarations
      /\ Top.of \in Here /\ Top.count \in Nat \ {0} /\ result = None
  BY TopFacts
<1>2. /\ frames \in Seq(Frame) /\ Chain(asked, defs, frames) /\ IsContainer(defs)
      /\ validating \in Seq(Declarations) /\ stack \in Seq(Declarations)
      /\ ~IsError(result) => Mirrors(frames, validating)
  BY DEF WellFormed, Typed
<1>3. /\ frames' = [frames EXCEPT ![n] = g] /\ result' = result
      /\ defs' = defs /\ asked' = asked
  BY <1>1 DEF Enter
<1>4. g \in Frame /\ g.at = 0 /\ g.fn = Top.fn /\ g.of = Top.of /\ g.count = Top.count
      /\ g.acc = Top.acc
  BY <1>1 DEF Frame
<1>. HIDE DEF g
<1>5. /\ frames' \in Seq(Frame) /\ Len(frames') = n /\ frames'[n] = g
      /\ \A i \in 1..(n - 1) : frames'[i] = frames[i]
  BY <1>1, <1>2, <1>3, <1>4
<1>6. FrameOK(defs, g)
  <2>1. IsDefinition(Def) /\ Len(Members(Def)) \in Nat
    <3>1. IsDefinition(Def)
      BY <1>2 DEF IsContainer, Def
    <3>. QED
      BY <3>1, MembersType
  <2>. QED
    BY <1>1, <1>4, <2>1 DEF FrameOK, Here, Def
<1>7. Chain(asked, defs, frames)'
  BY <1>1, <1>2, <1>3, <1>4, <1>5, <1>6, ChainSet
<1>8. Returning(asked, defs, frames, result)'
  BY <1>1, <1>3, <1>4, <1>5 DEF Returning
<1>9. ~IsError(result)
  BY <1>1 DEF IsError, None, Answer, ErrorKinds
<1>10. Mirrors(frames', validating') /\ Typed'
  <2>1. CASE Top.fn = "validate"
    <3>1. validating' = Append(validating, Top.of) /\ stack' = stack
      BY <2>1 DEF Enter
    <3>2. Len(validating) = n - 1 /\ Len(validating) \in Nat
      <4>1. Len(validating) < n /\ Len(validating) \in Nat
        BY <1>1, <1>2, <1>9 DEF Mirrors
      <4>2. CASE n = 1
        BY <4>1, <4>2
      <4>3. CASE n # 1
        <5>. DEFINE f == frames[n - 1]
        <5>1. Called(defs, f, Top) /\ f \in Frame
          <6>1. n \in 2..n /\ n - 1 \in 1..n
            <7>1. n \in Nat \ {0}
              BY <1>1
            <7>. HIDE DEF n
            <7>. QED
              BY <4>3, <7>1
          <6>. QED
            BY <1>1, <1>2, <6>1 DEF Chain
        <5>2. f.fn = "validate" /\ f.at >= 0
          <6>. HIDE DEF f
          <6>1. f.fn \in Functions3 /\ f.at >= 1 /\ f.at \in Nat \cup {-1}
                /\ Calls(defs, f, Top.fn)
            BY <5>1 DEF Called, Frame
          <6>. QED
            BY <2>1, <6>1, CalledByValidate
        <5>. QED
          BY <1>1, <1>2, <1>9, <4>1, <4>3, <5>2 DEF Mirrors
      <4>. QED
        BY <4>2, <4>3
    <3>3. /\ validating' \in Seq(Declarations) /\ Len(validating') = n
          /\ validating'[n] = Top.of
          /\ \A i \in 1..(n - 1) : validating'[i] = validating[i]
      BY <1>1, <1>2, <3>1, <3>2
    <3>4. Mirrors(frames', validating')
      <4>1. ASSUME NEW i \in 1..n PROVE frames'[i].fn = "validate" /\ frames'[i].at >= 0
        <5>1. CASE i = n
          BY <1>4, <1>5, <2>1, <5>1
        <5>2. CASE i # n
          BY <1>1, <1>2, <1>5, <1>9, <3>2, <5>2 DEF Mirrors
        <5>. QED
          BY <5>1, <5>2
      <4>2. ASSUME NEW i \in 1..n PROVE validating'[i] = frames'[i].of
        <5>1. CASE i = n
          BY <1>4, <1>5, <3>3, <5>1
        <5>2. CASE i # n
          BY <1>1, <1>2, <1>5, <1>9, <3>2, <3>3, <5>2 DEF Mirrors
        <5>. QED
          BY <5>1, <5>2
      <4>. QED
        BY <1>1, <1>5, <3>3, <4>1, <4>2 DEF Mirrors
    <3>. QED
      BY <1>2, <1>3, <1>5, <3>1, <3>3, <3>4 DEF Typed, WellFormed
  <2>2. CASE Top.fn # "validate"
    <3>1. validating' = validating /\ stack' = Append(stack, Top.of)
      BY <2>2 DEF Enter
    <3>2. Mirrors(frames', validating')
      <4>1. ASSUME NEW i \in 1..n
            PROVE  (frames'[i].fn = "validate" /\ frames'[i].at >= 0) <=> i <= Len(validating)
        <5>1. CASE i = n
          BY <1>1, <1>2, <1>4, <1>5, <1>9, <2>2, <5>1 DEF Mirrors
        <5>2. CASE i # n
          BY <1>1, <1>2, <1>5, <1>9, <5>2 DEF Mirrors
        <5>. QED
          BY <5>1, <5>2
      <4>2. ASSUME NEW i \in 1..Len(validating) PROVE validating[i] = frames'[i].of
        <5>1. i \in 1..n /\ i # n
          BY <1>1, <1>2, <1>9, <2>2 DEF Mirrors
        <5>. QED
          BY <1>1, <1>2, <1>5, <1>9, <5>1 DEF Mirrors
      <4>. QED
        BY <1>2, <1>5, <1>9, <3>1, <4>1, <4>2 DEF Mirrors
    <3>3. stack' \in Seq(Declarations)
      BY <1>1, <1>2, <3>1
    <3>. QED
      BY <1>2, <1>3, <1>5, <3>1, <3>2, <3>3 DEF Typed, WellFormed
  <2>. QED
    BY <2>1, <2>2
<1>11. WellFormed'
  BY <1>7, <1>8, <1>10 DEF WellFormed
<1>12. \A i \in 1..n :
         /\ frames'[i].fn = frames[i].fn /\ frames'[i].of = frames[i].of
         /\ frames'[i].count = frames[i].count /\ frames'[i].acc = frames[i].acc
         /\ i < n => frames'[i] = frames[i]
  BY <1>1, <1>4, <1>5
<1>. QED
  BY <1>4, <1>5, <1>11, <1>12

\* A new call, made by the innermost one.
LEMMA PushKeeps ==
    ASSUME WellFormed, frames # <<>>, Top.at >= 0, ~IsError(result) \/ result.is = "Recursive",
           NEW f \in Frame, f.fn = Top.fn, f.of = Top.of, f.count = Top.count,
           f.at \in 1..Len(Members(Def)),
           NEW fn \in Functions3, Calls(defs, f, fn), Times(defs, f) \in Nat \ {0},
           frames' = Append([frames EXCEPT ![Len(frames)] = f],
                            Call(fn, Members(Def)[f.at], Times(defs, f))),
           result' = None, UNCHANGED <<defs, asked, validating>>, stack' \in Seq(Declarations)
    PROVE  /\ WellFormed'
           /\ Len(frames') = Len(frames) + 1
           /\ \A i \in 1..(Len(frames) - 1) : frames'[i] = frames[i]
           /\ frames'[Len(frames)] = f
           /\ frames'[Len(frames) + 1] = Call(fn, Members(Def)[f.at], Times(defs, f))
<1>. DEFINE n == Len(frames)
            g == Call(fn, Members(Def)[f.at], Times(defs, f))
            fs == [frames EXCEPT ![n] = f]
<1>1. /\ n \in Nat \ {0} /\ Top = frames[n] /\ Top \in Frame /\ Top.of \in Declarations
      /\ Top.of \in Here /\ Top.of \in DOMAIN defs
  BY TopFacts
<1>2. /\ frames \in Seq(Frame) /\ Chain(asked, defs, frames) /\ IsContainer(defs)
      /\ validating \in Seq(Declarations)
      /\ Mirrors(frames, validating)
  BY DEF WellFormed, Typed
<1>3. fs \in Seq(Frame) /\ Len(fs) = n /\ fs[n] = f /\ \A i \in 1..(n - 1) : fs[i] = frames[i]
  BY <1>1, <1>2
<1>4. FrameOK(defs, f)
  <2>1. f.at <= Len(Members(Def)) /\ FrameOK(defs, Top)
    BY <1>1, <1>2 DEF Chain
  <2>. QED
    BY <1>1, <2>1 DEF FrameOK, Def
<1>5. Members(Def)[f.at] \in Here /\ Members(Def)[f.at] \in Declarations
  BY <1>1, <1>2, MemberReached DEF Here, Def
<1>6. g \in Frame /\ g.at = -1 /\ g.of = Members(Def)[f.at] /\ g.count = Times(defs, f) /\ g.fn = fn
  BY <1>5 DEF Frame, Call
<1>7. FrameOK(defs, g)
  BY <1>5, <1>6 DEF FrameOK, Here
<1>8. Called(defs, f, g)
  <2>1. Members(Def) = Members(defs[f.of]) /\ f.at >= 1
    BY DEF Def
  <2>. QED
    BY <1>6, <2>1 DEF Called
<1>. HIDE DEF fs, g
<1>9. Chain(asked, defs, fs)
  BY <1>1, <1>2, <1>3, <1>4, ChainSet
<1>10. frames' = Append(fs, g)
  BY DEF fs, g
<1>11. fs # <<>>
  BY <1>1, <1>3
<1>12. /\ Chain(asked, defs, frames') /\ frames' \in Seq(Frame) /\ Len(frames') = n + 1
       /\ \A i \in 1..n : frames'[i] = fs[i]
       /\ frames'[n + 1] = g
  <2>1. Called(defs, fs[Len(fs)], g)
    BY <1>3, <1>8
  <2>2. /\ Chain(asked, defs, Append(fs, g))
        /\ Append(fs, g) \in Seq(Frame) /\ Len(Append(fs, g)) = Len(fs) + 1
        /\ \A i \in 1..Len(fs) : Append(fs, g)[i] = fs[i]
        /\ Append(fs, g)[Len(fs) + 1] = g
    BY <1>3, <1>6, <1>7, <1>9, <1>11, <2>1, ChainPush
  <2>. QED
    BY <1>3, <1>10, <2>2
<1>13. Typed'
  BY <1>2, <1>12, ResultTypes DEF WellFormed, Typed
<1>14. Returning(asked, defs, frames, result)'
  <2>1. frames' # <<>> /\ frames'[Len(frames')].at <= 0
    BY <1>1, <1>6, <1>12
  <2>. QED
    BY <2>1 DEF Returning
<1>15. Mirrors(frames', validating')
  <2>1. Len(validating) <= Len(frames') /\ Len(validating) \in Nat
    BY <1>1, <1>2, <1>12 DEF Mirrors
  <2>2. ASSUME NEW i \in 1..(n + 1)
        PROVE  i <= Len(validating) <=> frames'[i].fn = "validate" /\ frames'[i].at >= 0
    <3>1. CASE i \in 1..(n - 1)
      BY <1>1, <1>2, <1>3, <1>12, <3>1 DEF Mirrors
    <3>2. CASE i = n
      <4>1. i <= Len(validating) <=> Top.fn = "validate" /\ Top.at >= 0
        BY <1>1, <1>2, <3>2 DEF Mirrors
      <4>2. frames'[i] = f /\ f.at >= 0
        BY <1>1, <1>3, <1>12, <3>2
      <4>. QED
        BY <4>1, <4>2
    <3>3. CASE i = n + 1
      <4>1. ~(i <= Len(validating))
        BY <1>1, <1>2, <2>1, <3>3 DEF Mirrors
      <4>. QED
        BY <1>6, <1>12, <3>3, <4>1
    <3>. QED
      BY <1>1, <3>1, <3>2, <3>3
  <2>3. ASSUME NEW i \in 1..Len(validating) PROVE validating[i] = frames'[i].of
    <3>1. i \in 1..n /\ validating[i] = frames[i].of
      BY <1>1, <1>2 DEF Mirrors
    <3>2. frames'[i].of = frames[i].of
      BY <1>1, <1>3, <1>12, <3>1
    <3>. QED
      BY <3>1, <3>2
  <2>. QED
    BY <1>12, <2>1, <2>2, <2>3 DEF Mirrors
<1>. QED
  BY <1>3, <1>1, <1>12, <1>13, <1>14, <1>15 DEF WellFormed, g

\* Calling a member, by any of the three functions.
LEMMA CallMemberKeeps ==
    ASSUME WellFormed, frames # <<>>, Top.at >= 0, ~IsError(result),
           Top.at < Len(Members(Def)), NEW fn \in Functions3, Calls(defs, Top, fn),
           NEW count \in Nat \ {0}, count = Times(defs, Top), NEW acc \in Nat,
           CallMember(fn, count, acc), stack' \in Seq(Declarations)
    PROVE  /\ WellFormed'
           /\ Len(frames') = Len(frames) + 1
           /\ \A i \in 1..(Len(frames) - 1) : frames'[i] = frames[i]
           /\ frames'[Len(frames)] = [Top EXCEPT !.at = Top.at + 1, !.acc = acc]
           /\ frames'[Len(frames) + 1] = Call(fn, Members(Def)[Top.at + 1], count)
<1>. DEFINE f == [Top EXCEPT !.at = Top.at + 1, !.acc = acc]
<1>1. /\ Top \in Frame /\ Top = frames[Len(frames)] /\ Len(frames) \in Nat \ {0}
      /\ Members(Def) \in Seq(Declarations) /\ Top.at \in Nat \cup {-1}
  BY TopFacts
<1>2. frames \in Seq(Frame)
  BY DEF WellFormed, Typed
<1>3. /\ f \in Frame /\ f.fn = Top.fn /\ f.of = Top.of /\ f.count = Top.count
      /\ f.at = Top.at + 1 /\ f.at \in 1..Len(Members(Def))
  <2>1. Top.at + 1 \in Nat /\ Top.at + 1 \in 1..Len(Members(Def))
    <3>1. Len(Members(Def)) \in Nat
      BY <1>1
    <3>. QED
      BY <1>1, <3>1
  <2>. QED
    BY <1>1, <2>1 DEF Frame
<1>4. [frames EXCEPT ![Len(frames)].at = @ + 1, ![Len(frames)].acc = acc]
        = [frames EXCEPT ![Len(frames)] = f]
  BY <1>1, <1>2 DEF Frame
<1>. HIDE DEF f
<1>5. Calls(defs, f, fn) /\ Times(defs, f) = count
  BY <1>3 DEF Calls, Times
<1>6. frames' = Append([frames EXCEPT ![Len(frames)] = f],
                       Call(fn, Members(Def)[f.at], Times(defs, f)))
  BY <1>3, <1>4, <1>5 DEF CallMember
<1>7. result' = None /\ UNCHANGED <<defs, asked, validating>>
  BY DEF CallMember
<1>. QED
  BY <1>3, <1>5, <1>6, <1>7, PushKeeps DEF f

\* The elements of a sequence are looked at once is_zero_size has answered.
LEMMA ElementsKeeps ==
    ASSUME WellFormed, ValidateElements
    PROVE  /\ WellFormed'
           /\ frames # <<>> /\ Top.at = 1 /\ Len(Members(Def)) = 1 /\ Members(Def)[1] = Def.of
           /\ IsDynamic(Def) /\ Top.fn = "validate"
           /\ Len(frames') = Len(frames) + 1
           /\ \A i \in 1..Len(frames) : frames'[i] = frames[i]
           /\ frames'[Len(frames) + 1] = Call("validate", Def.of, 1)
<1>1. /\ frames # <<>> /\ Top.fn = "validate" /\ Top.at >= 0 /\ Def.k = "sequence"
      /\ result = Sized \/ result.is = "Recursive"
  BY DEF ValidateElements, In
<1>2. /\ Top \in Frame /\ Top = frames[Len(frames)] /\ Len(frames) \in Nat \ {0}
      /\ IsDefinition(Def) /\ Top.at \in 0..Len(Members(Def))
      /\ Top.at <= 0 => result = None
      /\ Top.at >= 1 => \E fn \in Functions3 : Calls(defs, Top, fn) /\ Returned(fn, result)
  BY <1>1, TopFacts
<1>3. Len(Members(Def)) = 1 /\ Members(Def)[1] = Def.of
  BY <1>1, <1>2, MembersType
<1>4. Top.at = 1
  BY <1>1, <1>2, <1>3, ResultsDiffer
<1>5. IsDynamic(Def)
  <2>1. PICK fn \in Functions3 : Calls(defs, Top, fn) /\ Returned(fn, result)
    BY <1>2, <1>4
  <2>2. fn # "validate"
    BY <1>1, <2>1, ResultsDiffer DEF Returned, ErrorKinds
  <2>. QED
    BY <1>1, <2>1, <2>2 DEF Calls, Def
<1>6. Times(defs, Top) = 1 /\ Calls(defs, Top, "validate")
  BY <1>1 DEF Times, Calls
<1>7. frames \in Seq(Frame) /\ stack \in Seq(Declarations)
  BY DEF WellFormed, Typed
<1>8. frames = [frames EXCEPT ![Len(frames)] = Top]
  BY <1>2, <1>7
<1>9. frames' = Append([frames EXCEPT ![Len(frames)] = Top],
                       Call("validate", Members(Def)[Top.at], Times(defs, Top)))
  BY <1>3, <1>4, <1>6, <1>8 DEF ValidateElements
<1>10. /\ result' = None /\ UNCHANGED <<defs, asked, validating>> /\ stack' \in Seq(Declarations)
       /\ ~IsError(result) \/ result.is = "Recursive"
  BY <1>1, <1>7, ResultsDiffer DEF ValidateElements
<1>11. /\ WellFormed'
       /\ Len(frames') = Len(frames) + 1
       /\ \A i \in 1..(Len(frames) - 1) : frames'[i] = frames[i]
       /\ frames'[Len(frames)] = Top
       /\ frames'[Len(frames) + 1] = Call("validate", Members(Def)[Top.at], Times(defs, Top))
  <2>1. "validate" \in Functions3 /\ Times(defs, Top) \in Nat \ {0} /\ Top.at \in 1..Len(Members(Def))
    BY <1>3, <1>4, <1>6 DEF Functions3
  <2>. QED
    BY <1>1, <1>2, <1>6, <1>9, <1>10, <2>1, PushKeeps
<1>12. \A i \in 1..Len(frames) : frames'[i] = frames[i]
  BY <1>2, <1>11
<1>. QED
  BY <1>1, <1>3, <1>4, <1>5, <1>6, <1>11, <1>12

\* A query starts from nothing.
LEMMA AskKeeps ==
    ASSUME WellFormed, NEW query \in Queries \ {"nothing"}, Ask(query, FirstCall(query))
    PROVE  /\ WellFormed'
           /\ frames' = <<Call(FirstCall(query), Root, 1)>>
           /\ defs' = defs /\ stack' = <<>> /\ validating' = <<>> /\ result' = None
<1>. DEFINE g == Call(FirstCall(query), Root, 1)
<1>1. /\ asked' = query /\ frames' = <<g>> /\ result' = None
      /\ validating' = <<>> /\ stack' = <<>> /\ defs' = defs
  BY DEF Ask
<1>2. Root \in Declarations
  BY ContainersAssumption
<1>3. /\ g \in Frame /\ g.at = -1 /\ g.of = Root /\ g.count = 1 /\ g.fn = FirstCall(query)
  BY <1>2 DEF Call, Frame, Functions3, FirstCall
<1>4. FrameOK(defs, g)
  <2>1. Root \in Reached(defs, Root)
    BY <1>2, ClosureHas DEF Reached
  <2>. QED
    BY <1>3, <2>1 DEF FrameOK
<1>. HIDE DEF g
<1>5. /\ <<g>> \in Seq(Frame) /\ Len(<<g>>) = 1 /\ <<g>>[1] = g /\ <<g>> # <<>>
  BY <1>3
<1>6. Typed'
  BY <1>1, <1>5, ResultTypes DEF WellFormed, Typed, Queries
<1>7. Chain(asked, defs, frames)'
  <2>1. Chain(query, defs, <<g>>)
    BY <1>3, <1>4, <1>5 DEF Chain
  <2>. QED
    BY <1>1, <2>1
<1>8. Returning(asked, defs, frames, result)'
  BY <1>1, <1>3, <1>5 DEF Returning
<1>9. Mirrors(frames', validating')
  <2>1. Mirrors(<<g>>, <<>>)
    BY <1>3, <1>5 DEF Mirrors
  <2>. QED
    BY <1>1, <2>1
<1>. QED
  BY <1>1, <1>6, <1>7, <1>8, <1>9 DEF WellFormed, g

-----------------------------------------------------------------------------
(* Every action keeps the calls well formed.                               *)

\* The result a call finds when it goes on.
LEMMA ResultFound ==
    ASSUME WellFormed, frames # <<>>, ~IsError(result)
    PROVE  /\ Top.at <= 0 <=> result = None
           /\ Top.fn = "zero" => result \in {None, Zero, Sized}
           /\ Top.fn = "validate" /\ Top.at >= 1 => result \in {Unit, Zero, Sized}
           /\ Top.fn = "size" => result \in {None, Zero, Sized} \/ result = Size(result.n)
           /\ Top.fn = "size" /\ result \in {Zero, Sized} =>
                Def.k = "sequence" /\ Def.hi > MaxUsize
           /\ Top.fn = "size" /\ result = Size(result.n) =>
                ~(Def.k = "sequence" /\ Def.hi > MaxUsize)
           /\ Top.fn = "validate" /\ result \in {Zero, Sized} => IsDynamic(Def)
<1>1. /\ Top.at <= 0 => result = None
      /\ Top.at >= 1 => \E fn \in Functions3 : Calls(defs, Top, fn) /\ Returned(fn, result)
      /\ Top.fn \in Functions3 /\ Top.at \in Nat \cup {-1}
  BY TopFacts
<1>2. CASE Top.at <= 0
  BY <1>1, <1>2, ResultsDiffer
<1>3. CASE Top.at >= 1
  <2>1. PICK fn \in Functions3 : Calls(defs, Top, fn) /\ Returned(fn, result)
    BY <1>1, <1>3
  <2>2. /\ fn = "zero" => result \in {Zero, Sized}
        /\ fn = "size" => result = Size(result.n)
        /\ fn = "validate" => result = Unit
    BY <2>1 DEF Returned, IsError, ErrorKinds
  <2>3. /\ Top.fn = "zero" => fn = "zero"
        /\ Top.fn = "size" =>
             fn = IF Def.k = "sequence" /\ Def.hi > MaxUsize THEN "zero" ELSE "size"
        /\ Top.fn = "validate" => fn = "validate" \/ (fn = "zero" /\ IsDynamic(Def))
    BY <2>1 DEF Calls, Def
  <2>4. fn \in {"validate", "size", "zero"} /\ Top.fn \in {"validate", "size", "zero"}
    BY <1>1 DEF Functions3
  <2>5. \A n : Size(n) \notin {None, Zero, Sized, Unit}
    BY ResultsDiffer
  <2>. HIDE DEF Size
  <2>. QED
    BY <1>1, <1>3, <2>2, <2>3, <2>4, <2>5, ResultsDiffer
<1>. QED
  BY <1>1, <1>2, <1>3

\* checked_add and checked_mul: the size, or an overflow.
LEMMA LeaveSizedKeeps ==
    ASSUME WellFormed, frames # <<>>, Top.at >= 0, Top.fn = "size", ~IsError(result),
           NEW n \in Nat, LeaveSized(n)
    PROVE  WellFormed'
<1>1. Top.of \in Declarations
  BY TopFacts
<1>2. CASE n > MaxUsize
  <2>1. ReturnEarly(Error("Overflow", Top.of))
    BY <1>2 DEF LeaveSized
  <2>2. Error("Overflow", Top.of) \in Results
    BY <1>1, ResultTypes DEF ErrorKinds
  <2>3. Returned(Top.fn, Error("Overflow", Top.of)) /\ IsError(Error("Overflow", Top.of))
        /\ Error("Overflow", Top.of).is # "Recursive"
    BY ResultsDiffer DEF Returned, ErrorKinds
  <2>. QED
    BY <2>1, <2>2, <2>3, ReturnEarlyKeeps
<1>3. CASE ~(n > MaxUsize)
  <2>1. Leave(Size(n)) /\ n \in 0..MaxUsize
    BY <1>3, SchemaAssumption DEF LeaveSized
  <2>2. Size(n) \in Results /\ Returned(Top.fn, Size(n))
    BY <2>1, ResultTypes DEF Returned
  <2>. QED
    BY <2>1, <2>2, LeaveKeeps
<1>. QED
  BY <1>2, <1>3

\* The ? of the callers.
LEMMA PassOnKeeps ==
    ASSUME WellFormed, PassOn
    PROVE  WellFormed'
<1>1. /\ frames # <<>> /\ IsError(result) /\ ReturnEarly(result)
      /\ ~(Top.fn = "validate" /\ result.is = "Recursive")
  BY DEF PassOn
<1>2. /\ result \in Results /\ result # None /\ Top.fn \in Functions3
      /\ Top.at <= 0 => result = None
      /\ Top.at >= 1 => \E fn \in Functions3 : Calls(defs, Top, fn) /\ Returned(fn, result)
      /\ Top.at \in Nat \cup {-1}
  BY <1>1, TopFacts, ResultsDiffer
<1>3. PICK fn \in Functions3 : Calls(defs, Top, fn) /\ Returned(fn, result)
  <2>1. Top.at >= 1
    BY <1>2
  <2>. QED
    BY <1>2, <2>1
<1>4. Returned(Top.fn, result)
  <2>1. /\ Top.fn = "zero" => fn = "zero"
        /\ Top.fn = "size" => fn \in {"zero", "size"}
        /\ Top.fn = "validate" => fn \in {"validate", "zero"}
    BY <1>3 DEF Calls
  <2>2. /\ fn = "zero" => result.is \in {"Recursive", "MissingDefinition", "panic"}
        /\ fn = "size" => result.is \in {"Recursive", "MissingDefinition", "panic", "Overflow"}
        /\ fn = "validate" => result.is \in ErrorKinds \ {"Recursive", "Overflow"}
    <3>1. ~(result \in {Zero, Sized}) /\ result # Unit /\ result # Size(result.n)
      BY <1>1, ResultsDiffer
    <3>. QED
      BY <1>3, <3>1 DEF Returned
  <2>. QED
    <3>1. Top.fn \in {"validate", "size", "zero"} /\ result.is \in ErrorKinds
      BY <1>1, <1>2 DEF Functions3, IsError
    <3>2. CASE Top.fn = "zero"
      BY <2>1, <2>2, <3>2 DEF Returned
    <3>3. CASE Top.fn = "size"
      BY <2>1, <2>2, <3>3 DEF Returned
    <3>4. CASE Top.fn = "validate"
      BY <1>1, <2>1, <2>2, <3>1, <3>4 DEF Returned
    <3>. QED
      BY <3>1, <3>2, <3>3, <3>4
<1>5. CASE result.is = "Recursive"
  BY <1>1, <1>2, <1>4, <1>5, ReturnEarlyKeeps
<1>6. CASE result.is # "Recursive"
  BY <1>1, <1>2, <1>4, <1>6, ReturnEarlyKeeps
<1>. QED
  BY <1>5, <1>6

\* Every step of is_zero_size_impl.
LEMMA ZeroKeeps ==
    ASSUME WellFormed, ZeroEnter \/ ZeroPrimitive \/ ZeroTagged \/ ZeroArray \/ ZeroEach
    PROVE  WellFormed'
<1>1. frames # <<>> /\ Top.fn = "zero"
  BY DEF ZeroEnter, ZeroPrimitive, ZeroTagged, ZeroArray, ZeroEach, Entering, Inside, In
<1>2. /\ Top.of \in Declarations /\ Top.at \in Nat \cup {-1}
      /\ Top.at <= 0 => result = None
      /\ Top.at >= 0 => /\ Top.of \in DOMAIN defs /\ IsDefinition(Def)
                        /\ Top.at \in 0..Len(Members(Def))
      /\ stack \in Seq(Declarations)
  BY <1>1, TopFacts DEF WellFormed, Typed
<1>3. /\ Returned("zero", Zero) /\ Returned("zero", Sized)
      /\ Returned("zero", Error("Recursive", Top.of))
      /\ Returned("zero", Error("MissingDefinition", Top.of))
      /\ Returned("zero", Error("panic", Top.of))
  BY ResultsDiffer DEF Returned
<1>4. /\ Zero \in Results /\ Sized \in Results
      /\ Error("Recursive", Top.of) \in Results
      /\ Error("MissingDefinition", Top.of) \in Results
      /\ Error("panic", Top.of) \in Results
  BY <1>2, ResultTypes DEF ErrorKinds
<1>5. ASSUME NEW r \in {Zero, Sized, Error("Recursive", Top.of),
                        Error("MissingDefinition", Top.of), Error("panic", Top.of)},
             ReturnEarly(r), ~IsError(result)
      PROVE  WellFormed'
  BY <1>1, <1>3, <1>4, <1>5, ReturnEarlyKeeps
<1>6. ASSUME NEW r \in {Zero, Sized}, Leave(r), ~IsError(result), Top.at >= 0 PROVE WellFormed'
  BY <1>1, <1>3, <1>4, <1>6, LeaveKeeps
<1>7. ASSUME Top.at >= 0, ~IsError(result), Top.at < Len(Members(Def)),
             CallMember("zero", 1, 0), UNCHANGED stack
      PROVE  WellFormed'
  <2>1. "zero" \in Functions3 /\ Calls(defs, Top, "zero") /\ 1 = Times(defs, Top)
        /\ 1 \in Nat \ {0} /\ 0 \in Nat
    BY <1>1 DEF Functions3, Calls, Times
  <2>. QED
    BY <1>1, <1>2, <1>7, <2>1, CallMemberKeeps
<1>8. CASE ZeroEnter
  <2>1. Top.at = -1 /\ ~IsError(result)
    BY <1>2, <1>8, ResultsDiffer DEF ZeroEnter, Entering
  <2>. QED
    BY <1>1, <1>5, <1>8, <2>1, EnterKeeps DEF ZeroEnter
<1>9. CASE ZeroPrimitive
  BY <1>6, <1>9 DEF ZeroPrimitive, Inside
<1>10. CASE ZeroTagged
  BY <1>6, <1>10 DEF ZeroTagged, Inside
<1>11. CASE ZeroArray
  <2>1. Top.at >= 0 /\ ~IsError(result) /\ Def.k = "sequence"
    BY <1>11 DEF ZeroArray, Inside
  <2>2. result = None => Top.at < Len(Members(Def))
    BY <1>1, <1>2, <2>1, ResultFound, MembersType
  <2>3. CASE CallMember("zero", 1, 0) /\ UNCHANGED stack /\ result = None
    BY <1>7, <2>1, <2>2, <2>3
  <2>4. CASE ReturnEarly(Error("panic", Top.of)) \/ ReturnEarly(Zero)
    BY <1>5, <2>1, <2>4
  <2>5. CASE Leave(Sized)
    BY <1>6, <2>1, <2>5
  <2>. QED
    BY <1>11, <2>3, <2>4, <2>5 DEF ZeroArray
<1>12. CASE ZeroEach
  <2>1. Top.at >= 0 /\ ~IsError(result) /\ Def.k \in {"tuple", "enum"}
    BY <1>12 DEF ZeroEach, Inside
  <2>2. Members(Def) = Def.of
    BY <1>2, <2>1, MembersType
  <2>. QED
    BY <1>6, <1>7, <1>12, <2>1, <2>2 DEF ZeroEach
<1>. QED
  BY <1>8, <1>9, <1>10, <1>11, <1>12

\* Every step of max_serialized_size_impl.
LEMMA SizeKeeps ==
    ASSUME WellFormed, SizeEnter \/ SizePrimitive \/ SizeSequence \/ SizeTuple \/ SizeEnum
    PROVE  WellFormed'
<1>1. frames # <<>> /\ Top.fn = "size"
  BY DEF SizeEnter, SizePrimitive, SizeSequence, SizeTuple, SizeEnum, Entering, Inside, In
<1>2. /\ Top.of \in Declarations /\ Top.at \in Nat \cup {-1}
      /\ Top.at <= 0 => result = None
      /\ Top.at >= 0 => /\ Top.of \in DOMAIN defs /\ IsDefinition(Def)
                        /\ Top.at \in 0..Len(Members(Def))
      /\ stack \in Seq(Declarations) /\ result.n \in Nat /\ Top.count \in Nat /\ Top.acc \in Nat
  BY <1>1, TopFacts DEF WellFormed, Typed, Results
<1>3. /\ Returned("size", Error("Recursive", Top.of))
      /\ Returned("size", Error("MissingDefinition", Top.of))
      /\ Returned("size", Error("Overflow", Top.of))
  BY ResultsDiffer DEF Returned
<1>4. /\ Error("Recursive", Top.of) \in Results
      /\ Error("MissingDefinition", Top.of) \in Results
      /\ Error("Overflow", Top.of) \in Results
  BY <1>2, ResultTypes DEF ErrorKinds
<1>5. ASSUME NEW r \in {Error("Recursive", Top.of), Error("MissingDefinition", Top.of),
                        Error("Overflow", Top.of)},
             ReturnEarly(r), ~IsError(result)
      PROVE  WellFormed'
  BY <1>1, <1>3, <1>4, <1>5, ReturnEarlyKeeps
<1>6. ASSUME NEW fn \in Functions3, Top.at >= 0, ~IsError(result), Top.at < Len(Members(Def)),
             Calls(defs, Top, fn), NEW count \in Nat \ {0}, count = Times(defs, Top),
             NEW acc \in Nat, CallMember(fn, count, acc), UNCHANGED stack
      PROVE  WellFormed'
  BY <1>1, <1>2, <1>6, CallMemberKeeps
<1>7. CASE SizeEnter
  <2>1. Top.at = -1 /\ ~IsError(result)
    BY <1>2, <1>7, ResultsDiffer DEF SizeEnter, Entering
  <2>. QED
    BY <1>1, <1>5, <1>7, <2>1, EnterKeeps DEF SizeEnter
<1>8. CASE SizePrimitive
  <2>1. Top.at >= 0 /\ ~IsError(result) /\ LeaveSized(Top.count * Def.size)
        /\ Def.k = "primitive"
    BY <1>8 DEF SizePrimitive, Inside
  <2>2. Top.count * Def.size \in Nat
    BY <1>2, <2>1 DEF IsDefinition
  <2>. QED
    BY <1>1, <2>1, <2>2, LeaveSizedKeeps
<1>9. CASE SizeSequence
  <2>1. Top.at >= 0 /\ ~IsError(result) /\ Def.k = "sequence"
    BY <1>9 DEF SizeSequence, Inside
  <2>2. Def.hi \in Nat /\ Def.width \in Nat
    BY <1>2, <2>1 DEF IsDefinition
  <2>3. result = None => Top.at < Len(Members(Def))
    BY <1>1, <1>2, <2>1, ResultFound, MembersType
  <2>4. /\ Top.count * Def.width \in Nat
        /\ Top.count * (result.n + Def.width) \in Nat
    BY <1>2, <2>2
  <2>5. CASE \/ LeaveSized(Top.count * Def.width)
             \/ LeaveSized(Top.count * (result.n + Def.width))
    BY <1>1, <2>1, <2>4, <2>5, LeaveSizedKeeps
  <2>6. CASE ReturnEarly(Error("Overflow", Top.of))
    BY <1>5, <2>1, <2>6
  <2>7. CASE /\ result = None /\ Def.hi \in 1..MaxUsize
             /\ CallMember("size", Def.hi, 0) /\ UNCHANGED stack
    <3>1. /\ "size" \in Functions3 /\ 0 \in Nat /\ Def.hi \in Nat \ {0}
          /\ ~(Def.hi > MaxUsize) /\ Def.hi <= MaxUsize
      BY <2>2, <2>7, SchemaAssumption DEF Functions3
    <3>2. Calls(defs, Top, "size") /\ Def.hi = Times(defs, Top)
      BY <1>1, <2>1, <3>1 DEF Calls, Times, Def
    <3>. QED
      BY <1>6, <2>1, <2>3, <2>7, <3>1, <3>2
  <2>8. CASE /\ result = None /\ Def.hi > MaxUsize
             /\ CallMember("zero", 1, 0) /\ UNCHANGED stack
    <3>1. /\ "zero" \in Functions3 /\ 0 \in Nat /\ 1 \in Nat \ {0} /\ ~(Def.hi <= MaxUsize)
      BY <2>2, <2>8, SchemaAssumption DEF Functions3
    <3>2. Calls(defs, Top, "zero") /\ 1 = Times(defs, Top)
      BY <1>1, <2>1, <2>8, <3>1 DEF Calls, Times, Def
    <3>. QED
      BY <1>6, <2>1, <2>3, <2>8, <3>1, <3>2
  <2>. QED
    BY <1>9, <2>5, <2>6, <2>7, <2>8 DEF SizeSequence, LongestCount
<1>10. CASE SizeTuple
  <2>1. Top.at >= 0 /\ ~IsError(result) /\ Def.k = "tuple"
    BY <1>10 DEF SizeTuple, Inside
  <2>2. Members(Def) = Def.of
    BY <1>2, <2>1, MembersType
  <2>3. Top.acc + result.n \in Nat /\ Top.count * (Top.acc + result.n) \in Nat
    BY <1>2
  <2>4. "size" \in Functions3 /\ Calls(defs, Top, "size") /\ 1 = Times(defs, Top) /\ 1 \in Nat \ {0}
    BY <1>1, <2>1 DEF Functions3, Calls, Times, Def
  <2>5. CASE ReturnEarly(Error("Overflow", Top.of))
    BY <1>5, <2>1, <2>5
  <2>6. CASE /\ Top.at < Len(Def.of)
             /\ CallMember("size", 1, Top.acc + result.n) /\ UNCHANGED stack
    BY <1>6, <2>1, <2>2, <2>3, <2>4, <2>6
  <2>7. CASE LeaveSized(Top.count * (Top.acc + result.n))
    BY <1>1, <2>1, <2>3, <2>7, LeaveSizedKeeps
  <2>. QED
    BY <1>10, <2>5, <2>6, <2>7 DEF SizeTuple
<1>11. CASE SizeEnum
  <2>. DEFINE longest == IF Top.acc < result.n THEN result.n ELSE Top.acc
  <2>1. Top.at >= 0 /\ ~IsError(result) /\ Def.k = "enum"
    BY <1>11 DEF SizeEnum, Inside
  <2>2. Members(Def) = Def.of /\ Def.width \in Nat
    BY <1>2, <2>1, MembersType DEF IsDefinition
  <2>3. longest \in Nat /\ longest + Def.width \in Nat
    BY <1>2, <2>2
  <2>4. "size" \in Functions3 /\ Calls(defs, Top, "size") /\ 1 = Times(defs, Top) /\ 1 \in Nat \ {0}
    BY <1>1, <2>1 DEF Functions3, Calls, Times, Def
  <2>5. \/ Top.at < Len(Def.of) /\ CallMember("size", 1, longest) /\ UNCHANGED stack
        \/ LeaveSized(longest + Def.width)
    BY <1>11 DEF SizeEnum
  <2>. HIDE DEF longest
  <2>6. CASE Top.at < Len(Def.of) /\ CallMember("size", 1, longest) /\ UNCHANGED stack
    BY <1>6, <2>1, <2>2, <2>3, <2>4, <2>6
  <2>7. CASE LeaveSized(longest + Def.width)
    BY <1>1, <2>1, <2>3, <2>7, LeaveSizedKeeps
  <2>. QED
    BY <2>5, <2>6, <2>7
<1>. QED
  BY <1>7, <1>8, <1>9, <1>10, <1>11

\* check_length_width knows three errors.
LEMMA WidthErrors ==
    ASSUME NEW width, NEW max
    PROVE  LengthWidthError(width, max) \in {"none", "TagNotPowerOfTwo", "TagTooNarrow", "TagTooWide"}
  BY DEF LengthWidthError

\* Every step of validate_impl.
LEMMA ValidateKeeps ==
    ASSUME WellFormed,
           \/ ValidateEnter \/ ValidatePrimitive \/ ValidateArray \/ ValidateSequence
           \/ ValidateElements \/ ValidateEach
    PROVE  WellFormed'
<1>1. frames # <<>> /\ Top.fn = "validate"
  BY DEF ValidateEnter, ValidatePrimitive, ValidateArray, ValidateSequence, ValidateElements,
         ValidateEach, Entering, Inside, In
<1>2. /\ Top.of \in Declarations /\ Top.at \in Nat \cup {-1}
      /\ Top.at <= 0 => result = None
      /\ Top.at >= 0 => /\ Top.of \in DOMAIN defs /\ IsDefinition(Def)
                        /\ Top.at \in 0..Len(Members(Def))
      /\ stack \in Seq(Declarations)
  BY <1>1, TopFacts DEF WellFormed, Typed
<1>3. ASSUME NEW e \in ErrorKinds \ {"Recursive", "Overflow"}, ReturnEarly(Error(e, Top.of))
      PROVE  WellFormed'
  <2>1. /\ Error(e, Top.of) \in Results /\ Returned("validate", Error(e, Top.of))
        /\ IsError(Error(e, Top.of)) /\ Error(e, Top.of).is # "Recursive"
    BY <1>2, ResultTypes, ResultsDiffer DEF Returned
  <2>. QED
    BY <1>1, <1>3, <2>1, ReturnEarlyKeeps
<1>4. Unit \in Results /\ Returned("validate", Unit)
  BY ResultTypes DEF Returned
<1>5. ASSUME Leave(Unit), ~IsError(result), Top.at >= 0 PROVE WellFormed'
  BY <1>1, <1>4, <1>5, LeaveKeeps
<1>6. ASSUME NEW fn \in {"validate", "zero"}, Calls(defs, Top, fn),
             Top.at >= 0, ~IsError(result), Top.at < Len(Members(Def)),
             CallMember(fn, 1, 0), stack' \in Seq(Declarations)
      PROVE  WellFormed'
  <2>1. fn \in Functions3 /\ 1 = Times(defs, Top) /\ 1 \in Nat \ {0} /\ 0 \in Nat
    BY <1>1 DEF Functions3, Times
  <2>. QED
    BY <1>1, <1>2, <1>6, <2>1, CallMemberKeeps
<1>7. Calls(defs, Top, "validate")
  BY <1>1 DEF Calls
<1>8. CASE ValidateEnter
  <2>1. Top.at = -1 /\ ~IsError(result)
    BY <1>2, <1>8, ResultsDiffer DEF ValidateEnter, Entering
  <2>2. CASE ReturnEarly(Error("MissingDefinition", Top.of))
    BY <1>3, <2>2 DEF ErrorKinds
  <2>3. CASE ReturnEarly(Unit)
    BY <1>1, <1>4, <2>1, <2>3, ReturnEarlyKeeps
  <2>4. CASE Top.of \in DOMAIN defs /\ Enter
    BY <1>1, <2>1, <2>4, EnterKeeps
  <2>. QED
    BY <1>8, <2>2, <2>3, <2>4 DEF ValidateEnter
<1>9. CASE ValidatePrimitive
  BY <1>5, <1>9 DEF ValidatePrimitive, Inside
<1>10. CASE ValidateArray
  <2>1. Top.at >= 0 /\ ~IsError(result) /\ Def.k = "sequence"
    BY <1>10 DEF ValidateArray, Inside
  <2>2. result = None => Top.at < Len(Members(Def))
    BY <1>1, <1>2, <2>1, ResultFound, MembersType
  <2>3. CASE ReturnEarly(Error("panic", Top.of))
    BY <1>3, <2>3 DEF ErrorKinds
  <2>4. CASE result = None /\ CallMember("validate", 1, 0) /\ UNCHANGED stack
    BY <1>2, <1>6, <1>7, <2>1, <2>2, <2>4
  <2>5. CASE Leave(Unit)
    BY <1>5, <2>1, <2>5
  <2>. QED
    BY <1>10, <2>3, <2>4, <2>5 DEF ValidateArray
<1>11. CASE ValidateSequence
  <2>. DEFINE e == LengthWidthError(Def.width, Def.hi)
  <2>1. /\ Top.at >= 0 /\ ~IsError(result) /\ Def.k = "sequence"
        /\ MayBeArray(Def) => ~HasOneLength(Def)
    BY <1>11 DEF ValidateSequence, Inside
  <2>2. result = None => Top.at < Len(Members(Def))
    BY <1>1, <1>2, <2>1, ResultFound, MembersType
  <2>3. CASE \/ ReturnEarly(Error("EmptyLengthRange", Top.of))
             \/ ReturnEarly(Error("ZSTSequence", Top.of))
    BY <1>3, <2>3 DEF ErrorKinds
  <2>4. CASE e # "none" /\ ReturnEarly(Error(e, Top.of))
    <3>1. e \in ErrorKinds \ {"Recursive", "Overflow"}
      BY <2>4, WidthErrors DEF ErrorKinds
    <3>. HIDE DEF e
    <3>. QED
      BY <1>3, <2>4, <3>1
  <2>5. CASE result = None /\ CallMember("zero", 1, 0) /\ stack' = <<>>
    <3>1. Calls(defs, Top, "zero")
      BY <1>1, <2>1 DEF Calls, IsDynamic, IsArray, MayBeArray, HasOneLength, Def
    <3>2. stack' \in Seq(Declarations)
      BY <2>5
    <3>. QED
      BY <1>6, <2>1, <2>2, <2>5, <3>1, <3>2
  <2>6. CASE Leave(Unit)
    BY <1>5, <2>1, <2>6
  <2>. QED
    BY <1>11, <2>3, <2>4, <2>5, <2>6 DEF ValidateSequence
<1>12. CASE ValidateElements
  BY <1>12, ElementsKeeps
<1>13. CASE ValidateEach
  <2>1. Top.at >= 0 /\ ~IsError(result) /\ Def.k \in {"tuple", "enum"}
    BY <1>13 DEF ValidateEach, Inside
  <2>2. Members(Def) = Def.of
    BY <1>2, <2>1, MembersType
  <2>3. CASE ReturnEarly(Error("TagTooWide", Top.of))
    BY <1>3, <2>3 DEF ErrorKinds
  <2>4. CASE Top.at < Len(Def.of) /\ CallMember("validate", 1, 0) /\ UNCHANGED stack
    BY <1>2, <1>6, <1>7, <2>1, <2>2, <2>4
  <2>5. CASE Leave(Unit)
    BY <1>5, <2>1, <2>5
  <2>. QED
    BY <1>13, <2>3, <2>4, <2>5 DEF ValidateEach
<1>. QED
  BY <1>8, <1>9, <1>10, <1>11, <1>12, <1>13

\* Nothing was asked yet.
LEMMA WellFormedInit ==
    ASSUME Init
    PROVE  WellFormed
<1>1. IsContainer(defs)
  BY ContainersAssumption DEF Init
<1>2. frames \in Seq(Frame) /\ validating \in Seq(Declarations) /\ stack \in Seq(Declarations)
      /\ Len(frames) = 0 /\ Len(validating) = 0
  BY DEF Init
<1>3. Typed
  BY <1>1, <1>2, ResultTypes DEF Init, Typed, Queries
<1>. QED
  BY <1>2, <1>3 DEF Init, WellFormed, Chain, Returning, Mirrors

\* Every step.
LEMMA WellFormedNext ==
    ASSUME WellFormed, [Next]_vars
    PROVE  WellFormed'
<1>1. CASE Validate
  <2>1. Ask("validate", FirstCall("validate")) /\ "validate" \in Queries \ {"nothing"}
    BY <1>1 DEF Validate, FirstCall, Queries
  <2>. QED
    BY <2>1, AskKeeps
<1>2. CASE MaxSerializedSize
  <2>1. Ask("max_size", FirstCall("max_size")) /\ "max_size" \in Queries \ {"nothing"}
    BY <1>2 DEF MaxSerializedSize, FirstCall, Queries
  <2>. QED
    BY <2>1, AskKeeps
<1>3. CASE IsZeroSize
  <2>1. Ask("zero_size", FirstCall("zero_size")) /\ "zero_size" \in Queries \ {"nothing"}
    BY <1>3 DEF IsZeroSize, FirstCall, Queries
  <2>. QED
    BY <2>1, AskKeeps
<1>4. CASE UNCHANGED vars
  BY <1>4 DEF WellFormed, Typed, Chain, Returning, Mirrors, vars
<1>. QED
  BY <1>1, <1>2, <1>3, <1>4, PassOnKeeps, ZeroKeeps, SizeKeeps, ValidateKeeps DEF Next

\* The walks never mistake one call for another: every call under way was made by
\* the one below it, for the member that one is at, whatever it was made with, and
\* has a result of a kind its function returns to go on with.
THEOREM CallsWellFormed == Spec => []WellFormed
<1>1. Init => WellFormed
  BY WellFormedInit
<1>2. WellFormed /\ [Next]_vars => WellFormed'
  BY WellFormedNext
<1>. QED
  BY <1>1, <1>2, PTL DEF Spec

\* The state of the walks is well formed in every reachable state.
THEOREM TypeCorrect == Spec => []TypeOK
<1>1. WellFormed => TypeOK
  <2>. SUFFICES ASSUME WellFormed PROVE TypeOK
    OBVIOUS
  <2>1. /\ frames \in Seq(Frame) /\ result \in Results /\ asked \in Queries
        /\ validating \in Seq(Declarations) /\ Chain(asked, defs, frames)
        /\ ~IsError(result) => Mirrors(frames, validating)
        /\ IsContainer(defs)
    BY DEF WellFormed, Typed
  <2>2. ASSUME NEW i \in DOMAIN frames
        PROVE  /\ frames[i].of \in Here
               /\ i = 1 => frames[i].of = Root
               /\ i > 1 => LET caller == frames[i - 1]
                           IN  /\ caller.of \in DOMAIN defs
                               /\ caller.at \in DOMAIN Members(defs[caller.of])
                               /\ frames[i].of = Members(defs[caller.of])[caller.at]
    <3>1. i \in 1..Len(frames) /\ Len(frames) \in Nat
      BY <2>1
    <3>2. FrameOK(defs, frames[i]) /\ (i = 1 => frames[i].of = Root)
      BY <2>1, <3>1 DEF Chain
    <3>3. ASSUME i > 1
          PROVE  LET caller == frames[i - 1]
                 IN  /\ caller.of \in DOMAIN defs
                     /\ caller.at \in DOMAIN Members(defs[caller.of])
                     /\ frames[i].of = Members(defs[caller.of])[caller.at]
      <4>. DEFINE caller == frames[i - 1]
      <4>1. i \in 2..Len(frames) /\ i - 1 \in 1..Len(frames)
        BY <3>1, <3>3
      <4>2. FrameOK(defs, caller) /\ Called(defs, caller, frames[i]) /\ caller \in Frame
        BY <2>1, <4>1 DEF Chain
      <4>. HIDE DEF caller
      <4>3. /\ caller.at \in Nat \cup {-1} /\ caller.at >= 1 /\ caller.of \in DOMAIN defs
            /\ caller.at <= Len(Members(defs[caller.of]))
            /\ frames[i].of = Members(defs[caller.of])[caller.at]
        BY <4>2 DEF FrameOK, Called, Frame
      <4>4. Members(defs[caller.of]) \in Seq(Declarations)
        BY <2>1, <4>3, MembersType DEF IsContainer
      <4>5. caller.at \in DOMAIN Members(defs[caller.of])
        BY <4>3, <4>4
      <4>. QED
        BY <4>3, <4>5 DEF caller
    <3>. QED
      BY <3>2, <3>3 DEF FrameOK, Here
  <2>3. ASSUME ~IsError(result)
        PROVE  /\ Len(validating) <= Len(frames)
               /\ \A i \in DOMAIN validating :
                    frames[i].fn = "validate" /\ frames[i].of = validating[i]
    BY <2>1, <2>3 DEF Mirrors
  <2>. QED
    BY <2>1, <2>2, <2>3 DEF TypeOK, Results, ResultKinds, Queries
<1>. QED
  BY <1>1, CallsWellFormed, PTL

-----------------------------------------------------------------------------
(* is_zero_size.                                                           *)

NoEmptyIn(D) ==
    \A d \in Reached(D, Root) \cap DOMAIN D : D[d].k = "sequence" => ~IsEmptyRange(D[d])

\* What the two answers say of a declaration.
ZeroMeans(D, d, r) ==
    /\ r = Zero => d \notin NonEmpty(D) /\ Bounded(D, d) /\ Longest(D, d) = 0
    /\ r = Sized /\ NoEmptyIn(D) => d \in NonEmpty(D) /\ (Bounded(D, d) => Longest(D, d) >= 1)

\* The members that make an untagged declaration empty.
Decisive(D, d) == IF D[d].k = "sequence" /\ D[d].lo = 0 /\ D[d].hi = 0 THEN {} ELSE Names(D[d])

\* No byte in any member: no byte.
LEMMA ZeroOfMembers ==
    ASSUME NEW D, IsContainer(D), NEW d \in DOMAIN D, ~IsTagged(D[d]),
           D[d].k = "primitive" => D[d].size = 0,
           \A e \in Decisive(D, d) : ZeroMeans(D, e, Zero)
    PROVE  ZeroMeans(D, d, Zero)
<1>. DEFINE def == D[d]
            len == LongestLengths(D)
<1>1. IsDefinition(def) /\ d \in Declarations
  BY DEF IsContainer
<1>2. \A e \in Decisive(D, d) : e \notin NonEmpty(D) /\ Bounded(D, e) /\ Longest(D, e) = 0
  BY DEF ZeroMeans
<1>3. ASSUME NEW e \in SizeGraph(D)[d]
      PROVE  e \in Decisive(D, d) /\ e \in Names(def) /\ ~(def.k = "sequence" /\ def.hi = 0)
  BY DEF SizeGraph, Decisive
<1>4. Bounded(D, d)
  BY <1>2, <1>3, BoundedUp
<1>5. len \in Lengths /\ Longest(D, d) = LongestOf(def, len)
  BY <1>1, <1>4, LongestUnfold
<1>6. \A e \in Declarations : len[e] = Longest(D, e)
  BY DEF LongestLengths
<1>7. SUFFICES ~HasByte(def, NonEmpty(D)) /\ LongestOf(def, len) = 0
  BY <1>4, <1>5, NonEmptyFixed, ResultsDiffer DEF ZeroMeans
<1>8. \A e \in Names(def) : e \in Decisive(D, d) \/ (def.k = "sequence" /\ def.hi = 0)
  BY DEF Decisive
<1>9. def.k \in {"sequence", "enum"} => def.width = 0
  BY DEF IsTagged
<1>10. def.k = "primitive" => def.size = 0
  OBVIOUS
<1>. HIDE DEF def, len
<1>11. CASE def.k = "primitive"
  BY <1>10, <1>11 DEF HasByte, LongestOf
<1>12. CASE def.k = "sequence"
  <2>1. def.of \in Declarations /\ def.hi \in Nat /\ Names(def) = {def.of}
    BY <1>1, <1>12, MembersType DEF IsDefinition
  <2>2. def.hi # 0 => def.of \notin NonEmpty(D) /\ len[def.of] = 0
    BY <1>2, <1>6, <1>8, <2>1
  <2>3. def.hi # 0 => def.hi * len[def.of] = 0
    BY <2>1, <2>2
  <2>. QED
    BY <1>9, <1>12, <2>1, <2>2, <2>3 DEF HasByte, LongestOf
<1>13. CASE def.k = "tuple"
  <2>1. def.of \in Seq(Declarations) /\ \A i \in 1..Len(def.of) : def.of[i] \in Names(def)
    BY <1>1, <1>13, MembersType DEF IsDefinition
  <2>2. \A e \in Names(def) : e \notin NonEmpty(D) /\ Longest(D, e) = 0
    BY <1>2, <1>8, <1>13
  <2>3. \A i \in 1..Len(def.of) : len[def.of[i]] = 0
    BY <1>6, <2>1, <2>2
  <2>4. TotalLength(def.of, len) = 0
    BY <1>5, <2>1, <2>3, TotalOfZeros
  <2>. QED
    BY <1>13, <2>2, <2>4 DEF HasByte, LongestOf
<1>14. CASE def.k = "enum"
  <2>1. Names(def) \subseteq Declarations
    BY <1>1, MembersType
  <2>2. \A e \in Names(def) : e \notin NonEmpty(D) /\ len[e] = 0
    BY <1>2, <1>6, <1>8, <1>14, <2>1
  <2>3. {0} \cup {len[e] : e \in Names(def)} = {0}
    BY <2>2
  <2>4. Max({0}) = 0
    BY MaxIs
  <2>. QED
    BY <1>9, <1>14, <2>2, <2>3, <2>4 DEF HasByte, LongestOf
<1>. QED
  BY <1>1, <1>11, <1>12, <1>13, <1>14 DEF IsDefinition

\* A byte in a member, or a tag: a byte.
LEMMA SizedOfMember ==
    ASSUME NEW D, IsContainer(D), NEW d \in DOMAIN D, d \in Reached(D, Root),
           \/ IsTagged(D[d])
           \/ D[d].k = "primitive" /\ D[d].size # 0
           \/ \E e \in Decisive(D, d) : ZeroMeans(D, e, Sized)
    PROVE  ZeroMeans(D, d, Sized)
<1>. DEFINE def == D[d]
            known == NonEmpty(D)
<1>1. IsDefinition(def) /\ d \in Declarations
  BY DEF IsContainer
<1>2. SUFFICES ASSUME NoEmptyIn(D)
               PROVE  HasByte(def, NonEmpty(D)) /\ (Bounded(D, d) => Longest(D, d) >= 1)
  BY NonEmptyFixed, ResultsDiffer DEF ZeroMeans
<1>. HIDE DEF known
<1>3. CASE IsTagged(def)
  <2>1. def.width \in Nat /\ def.width # 0 /\ def.k \in {"sequence", "enum"}
    BY <1>1, <1>3 DEF IsTagged, IsDefinition
  <2>2. Bounded(D, d) => def.width <= Longest(D, d) /\ Longest(D, d) \in Nat
    BY <1>1, <2>1, LongestGrows
  <2>3. def.width > 0 /\ (Bounded(D, d) => Longest(D, d) >= 1)
    BY <2>1, <2>2
  <2>. HIDE DEF def
  <2>4. HasByte(def, known)
    BY <2>1, <2>3 DEF HasByte
  <2>. QED
    BY <2>3, <2>4 DEF known
<1>4. CASE def.k = "primitive" /\ def.size # 0
  <2>1. def.size \in Nat
    BY <1>1, <1>4 DEF IsDefinition
  <2>2. Bounded(D, d) => Longest(D, d) = def.size
    BY <1>1, <1>4, LongestUnfold DEF LongestOf
  <2>3. def.size > 0 /\ (Bounded(D, d) => Longest(D, d) >= 1)
    BY <1>4, <2>1, <2>2
  <2>. HIDE DEF def
  <2>4. HasByte(def, known)
    BY <1>4, <2>3 DEF HasByte
  <2>. QED
    BY <2>3, <2>4 DEF known
<1>5. CASE \E e \in Decisive(D, d) : ZeroMeans(D, e, Sized)
  <2>1. PICK e \in Decisive(D, d) : ZeroMeans(D, e, Sized)
    BY <1>5
  <2>2. e \in NonEmpty(D) /\ (Bounded(D, e) => Longest(D, e) >= 1)
    BY <1>2, <2>1 DEF ZeroMeans
  <2>3. e \in Names(def) /\ (def.k = "sequence" => ~(def.lo = 0 /\ def.hi = 0))
    BY <2>1 DEF Decisive
  <2>4. def.k = "sequence" => def.hi \in Nat /\ def.lo \in Nat /\ ~(def.hi < def.lo)
    BY <1>1, <1>2 DEF NoEmptyIn, IsDefinition, IsEmptyRange
  <2>5. def.k = "sequence" => def.hi > 0
    BY <2>3, <2>4
  <2>6. def.k # "primitive" /\ (def.k = "sequence" => e = def.of)
    BY <1>1, <2>3, MembersType
  <2>7. HasByte(def, NonEmpty(D))
    <3>. SUFFICES HasByte(def, known)
      BY DEF known
    <3>0. e \in known
      BY <2>2 DEF known
    <3>. HIDE DEF def
    <3>1. def.k \in {"sequence", "enum", "tuple"}
      BY <1>1, <2>6 DEF IsDefinition
    <3>2. CASE def.k = "sequence"
      BY <2>5, <2>6, <3>0, <3>2 DEF HasByte
    <3>3. CASE def.k = "enum"
      BY <2>3, <3>0, <3>3 DEF HasByte
    <3>4. CASE def.k = "tuple"
      BY <2>3, <3>0, <3>4 DEF HasByte
    <3>. QED
      BY <3>1, <3>2, <3>3, <3>4
  <2>8. e \in SizeGraph(D)[d]
    BY <2>3, <2>5 DEF SizeGraph
  <2>9. ASSUME Bounded(D, d) PROVE Longest(D, d) >= 1
    <3>1. Bounded(D, e) /\ Longest(D, e) <= Longest(D, d) /\ Longest(D, d) \in Nat
          /\ Longest(D, e) \in Nat
      BY <1>1, <2>8, <2>9, LongestGrows
    <3>. QED
      BY <2>2, <3>1
  <2>. QED
    BY <2>7, <2>9
<1>. QED
  BY <1>3, <1>4, <1>5

-----------------------------------------------------------------------------
(* What is known while calls are under way.                                *)

\* Whose answer the result is, and how many times it is counted.
Callee(D, fs) ==
    IF fs = <<>> THEN Root ELSE Members(D[fs[Len(fs)].of])[fs[Len(fs)].at]
CalleeTimes(D, fs) == IF fs = <<>> THEN 1 ELSE Times(D, fs[Len(fs)])

\* is_zero_size: the members that were called are empty.
ZeroFrames(D) ==
    {f \in Frame : f.fn = "zero" /\ f.at >= 1 =>
        /\ ~IsTagged(D[f.of])
        /\ D[f.of].k = "sequence" => ~(D[f.of].lo = 0 /\ D[f.of].hi = 0)
        /\ \A j \in 1..f.at - 1 : ZeroMeans(D, Members(D[f.of])[j], Zero)}

ZeroInv ==
    /\ frames \in Seq(ZeroFrames(defs))
    /\ ZeroMeans(defs, Callee(defs, frames), result)

\* The two walks that share a stack; what the next call is made along.
Walkers == {"size", "zero"}
Edges(query, D) == IF query = "max_size" THEN SizeGraph(D) ELSE BareGraph(D)

EmptyArraysOf(D) ==
    {d \in Reached(D, Root) \cap DOMAIN D :
        D[d].k = "sequence" /\ D[d].width = 0 /\ d \notin NonEmpty(D)}

\* A walk from d may meet a declaration that is on the stack.
MayMeet(query, D, d) ==
    \/ Cyclic(Edges(query, D), d)
    \/ Closure(Edges(query, D), {d}) \cap EmptyArraysOf(D) # {}

EdgeFrames(query, D) ==
    {f \in Frame :
        /\ f.fn = "size" => query = "max_size"
        /\ f.fn \in Walkers /\ f.at >= 1 => Members(D[f.of])[f.at] \in Edges(query, D)[f.of]}

\* A call that was made in another is for what the other's declaration reaches.
Nested(query, D, fs) ==
    \A k \in 1..Len(fs), i \in 1..Len(fs) : k < i /\ fs[k].fn \in Walkers =>
        /\ fs[i].fn \in Walkers
        /\ fs[i].of \in Closure(Edges(query, D), Edges(query, D)[fs[k].of])

\* A declaration on the stack is one of the calls under way, and what was pushed
\* since is reached from it, or it was left there by a walk that may meet it.
OnStack(query, D, fs, s) ==
    \A p \in 1..Len(s) :
        \/ MayMeet(query, D, s[p])
        \/ /\ \E k \in 1..Len(fs) : fs[k].fn \in Walkers /\ fs[k].at >= 0 /\ fs[k].of = s[p]
           /\ \A q \in p + 1..Len(s) : s[q] \in Closure(Edges(query, D), Edges(query, D)[s[p]])

\* The hypotheses under which the walks are followed.
Followed == asked = "max_size" => NoEmptyIn(defs)
WalkParts ==
    /\ frames \in Seq(EdgeFrames(asked, defs))
    /\ Nested(asked, defs, frames)
    /\ frames # <<>> /\ Top.fn \in Walkers /\ ~IsError(result) =>
         OnStack(asked, defs, frames, stack)
    /\ result.is = "Recursive" => MayMeet(asked, defs, Callee(defs, frames))
WalkInv == Followed => WalkParts

\* What validate asks of the elements of a sequence, and of every definition.
ElementOK(D, d) == NoEmptyIn(D) => d \in NonEmpty(D) \/ MayMeet("validate", D, d)
Legal(D, d) ==
    /\ d \in DOMAIN D
    /\ D[d].k = "enum" => D[d].width <= 8
    /\ IsDynamic(D[d]) => ~IsEmptyRange(D[d]) /\ WidthFits(D[d]) /\ ElementOK(D, D[d].of)

\* What is found legal, given that what is in P will be.
Legals(D, P) == {C \in SUBSET Declarations : \A e \in C \ P : Legal(D, e) /\ Names(D[e]) \subseteq C}
Good(D, P) == UNION Legals(D, P)
Under(v) == {v[i] : i \in 1..Len(v)}

ValidFrames(query, D, P) ==
    {f \in Frame : f.fn = "validate" =>
        /\ query = "validate"
        /\ f.at >= 1 =>
             /\ D[f.of].k = "enum" => D[f.of].width <= 8
             /\ IsDynamic(D[f.of]) => ~IsEmptyRange(D[f.of]) /\ WidthFits(D[f.of])
             /\ \A j \in 1..f.at - 1 : Members(D[f.of])[j] \in Good(D, P)}

ElementsOK(D, fs) ==
    \A i \in 2..Len(fs) : fs[i].fn = "validate" /\ IsDynamic(D[fs[i - 1].of]) =>
        ElementOK(D, D[fs[i - 1].of].of)

ValidInv ==
    ~IsError(result) \/ result.is = "Recursive" =>
        /\ frames \in Seq(ValidFrames(asked, defs, Under(validating)))
        /\ ElementsOK(defs, frames)
        /\ result = Unit =>
             /\ Callee(defs, frames) \in Good(defs, Under(validating))
             /\ frames # <<>> /\ IsDynamic(Def) => ElementOK(defs, Def.of)

\* An error names what it is about.
Reason(D, r) ==
    /\ r.is = "MissingDefinition" => r.of \notin DOMAIN D
    /\ r.is \in ErrorKinds \ {"MissingDefinition", "Recursive"} => r.of \in DOMAIN D
    /\ r.is = "ZSTSequence" => IsDynamic(D[r.of]) /\ D[r.of].of \notin NonEmpty(D)
    /\ r.is = "EmptyLengthRange" => IsDynamic(D[r.of]) /\ IsEmptyRange(D[r.of])
    /\ r.is \in {"TagTooNarrow", "TagNotPowerOfTwo"} => ~WidthFits(D[r.of])
    /\ r.is = "TagTooWide" => D[r.of].width > 8

ErrorInv == IsError(result) => result.of \in Here /\ Reason(defs, result)

\* max_serialized_size.
RepeatsEnumIn(D) ==
    \E d \in Reached(D, Root) \cap DOMAIN D :
        /\ D[d].k = "sequence" /\ D[d].hi > 1
        /\ D[d].of \in Reached(D, Root) \cap DOMAIN D /\ D[D[d].of].k = "enum"

SizeMeans(D, d, times, r) ==
    /\ r.is = "size" => /\ Bounded(D, d) /\ r.n <= times * Longest(D, d)
                        /\ ~RepeatsEnumIn(D) => r.n = times * Longest(D, d)
    /\ r.is = "Overflow" /\ NoEmptyIn(D) /\ Bounded(D, d) => times * Longest(D, d) > MaxUsize

\* The variables of the loops over the members of a tuple and of an enum.
SumOK(D, f) ==
    LET sum == Sums(D[f.of].of, LongestLengths(D))[f.at - 1]
    IN  f.acc <= sum /\ (~RepeatsEnumIn(D) => f.acc = sum)
MaxOK(D, f) ==
    /\ f.acc = 0 \/ \E j \in 1..f.at - 1 : f.acc <= Longest(D, D[f.of].of[j])
    /\ ~RepeatsEnumIn(D) => \A j \in 1..f.at - 1 : Longest(D, D[f.of].of[j]) <= f.acc

SizeFrames(D) ==
    {f \in Frame : f.fn = "size" =>
        /\ f.at <= 0 => f.acc = 0
        /\ f.at >= 1 => /\ \A j \in 1..f.at - 1 : Bounded(D, Members(D[f.of])[j])
                        /\ D[f.of].k = "sequence" => D[f.of].hi # 0
                        /\ D[f.of].k = "tuple" => SumOK(D, f)
                        /\ D[f.of].k = "enum" => MaxOK(D, f)}

SizeInv ==
    /\ frames \in Seq(SizeFrames(defs))
    /\ SizeMeans(defs, Callee(defs, frames), CalleeTimes(defs, frames), result)

-----------------------------------------------------------------------------
(* What the actions do to the calls.                                       *)

\* A call that returns leaves its caller with its answer.
LEMMA PopStep ==
    ASSUME WellFormed, frames # <<>>, NEW r, Return(r)
    PROVE  /\ frames' = Front(frames) /\ result' = r /\ defs' = defs /\ asked' = asked
           /\ frames' \in Seq(Frame) /\ Len(frames') = Len(frames) - 1
           /\ \A i \in 1..Len(frames') : frames'[i] = frames[i]
           /\ Callee(defs, frames') = Top.of
           /\ CalleeTimes(defs, frames') = Top.count
           /\ frames' # <<>> =>
                LET caller == frames'[Len(frames')]
                IN  /\ caller \in Frame /\ Top' = caller /\ FrameOK(defs, caller) /\ caller.at >= 1
                    /\ Top.of = Members(defs[caller.of])[caller.at]
                    /\ Calls(defs, caller, Top.fn) /\ Top.count = Times(defs, caller)
<1>1. frames \in Seq(Frame) /\ Chain(asked, defs, frames)
  BY DEF WellFormed, Typed
<1>2. frames' = Front(frames) /\ result' = r /\ defs' = defs /\ asked' = asked
  BY DEF Return
<1>3. /\ Len(frames) \in Nat \ {0} /\ Top = frames[Len(frames)]
      /\ frames' \in Seq(Frame) /\ Len(frames') = Len(frames) - 1
      /\ \A i \in 1..Len(frames) - 1 : frames'[i] = frames[i]
  BY <1>1, <1>2, FrontLast DEF Top
<1>4. CASE Len(frames) = 1
  <2>1. frames' = <<>>
    BY <1>3, <1>4
  <2>2. Top.of = Root /\ Top.count = 1
    BY <1>1, <1>3, <1>4 DEF Chain
  <2>. QED
    BY <1>2, <1>3, <2>1, <2>2 DEF Callee, CalleeTimes
<1>5. CASE Len(frames) # 1
  <2>. DEFINE n == Len(frames)
              caller == frames[n - 1]
  <2>1. /\ n \in 2..Len(frames) /\ n - 1 \in 1..Len(frames) /\ frames' # <<>>
        /\ Len(frames') = n - 1 /\ frames'[n - 1] = caller /\ caller \in Frame
    BY <1>1, <1>3, <1>5
  <2>2. FrameOK(defs, caller) /\ Called(defs, caller, Top)
    BY <1>1, <1>3, <2>1 DEF Chain
  <2>3. Callee(defs, frames') = Members(defs[caller.of])[caller.at]
        /\ CalleeTimes(defs, frames') = Times(defs, caller)
    BY <2>1 DEF Callee, CalleeTimes
  <2>4. Top' = caller
    BY <1>3, <2>1 DEF Top, Last
  <2>. HIDE DEF n, caller
  <2>. QED
    BY <1>2, <1>3, <2>1, <2>2, <2>3, <2>4 DEF Called
<1>. QED
  BY <1>4, <1>5

\* is_zero_size_impl: it refuses a declaration, finds it, answers, or calls the next
\* of its members.
LEMMA ZeroMoves ==
    ASSUME WellFormed, ZeroEnter \/ ZeroPrimitive \/ ZeroTagged \/ ZeroArray \/ ZeroEach
    PROVE  /\ frames # <<>> /\ Top.fn = "zero" /\ ~IsError(result)
           /\ \/ /\ Contains(stack, Top.of) /\ Top.at = -1
                 /\ ReturnEarly(Error("Recursive", Top.of))
              \/ Top.of \notin DOMAIN defs /\ ReturnEarly(Error("MissingDefinition", Top.of))
              \/ Top.of \in DOMAIN defs /\ ReturnEarly(Error("panic", Top.of))
              \/ Top.of \in DOMAIN defs /\ Top.at = -1 /\ Enter
              \/ /\ Top.at >= 0 /\ (Leave(Zero) \/ (ReturnEarly(Zero) /\ Def.k = "sequence"))
                 /\ ~IsTagged(Def) /\ (Def.k = "primitive" => Def.size = 0)
                 /\ Decisive(defs, Top.of) = {} \/ Top.at = Len(Members(Def))
                 /\ Decisive(defs, Top.of) # {} => result = Zero
              \/ /\ Top.at >= 0 /\ Leave(Sized)
                 /\ \/ IsTagged(Def)
                    \/ Def.k = "primitive" /\ Def.size # 0
                    \/ Top.at >= 1 /\ result = Sized
              \/ /\ Top.at >= 0 /\ Top.at < Len(Members(Def))
                 /\ CallMember("zero", 1, 0) /\ UNCHANGED stack
                 /\ ~IsTagged(Def) /\ (Def.k = "sequence" => ~(Def.lo = 0 /\ Def.hi = 0))
                 /\ Top.at >= 1 => result = Zero
<1>1. frames # <<>> /\ Top.fn = "zero"
  BY DEF ZeroEnter, ZeroPrimitive, ZeroTagged, ZeroArray, ZeroEach, Entering, Inside, In
<1>2. /\ Top.of \in Declarations /\ Top.at \in Nat \cup {-1}
      /\ Top.at <= 0 => result = None
      /\ Top.at >= 0 => /\ Top.of \in DOMAIN defs /\ IsDefinition(Def)
                        /\ Top.at \in 0..Len(Members(Def))
  BY <1>1, TopFacts
<1>3. ~IsError(result)
  BY <1>2, ResultsDiffer
     DEF ZeroEnter, ZeroPrimitive, ZeroTagged, ZeroArray, ZeroEach, Entering, Inside
<1>4. (Top.at <= 0 <=> result = None) /\ result \in {None, Zero, Sized}
  BY <1>1, <1>3, ResultFound
<1>5. Decisive(defs, Top.of) =
        IF Def.k = "sequence" /\ Def.lo = 0 /\ Def.hi = 0 THEN {} ELSE Names(Def)
  BY DEF Decisive, Def
<1>6. None # Zero /\ Zero # Sized /\ None # Sized
  BY ResultsDiffer
<1>7. CASE ZeroEnter
  BY <1>1, <1>3, <1>7 DEF ZeroEnter, Entering
<1>8. CASE ZeroPrimitive
  <2>1. Top.at >= 0 /\ Def.k = "primitive"
    BY <1>8 DEF ZeroPrimitive, Inside
  <2>2. Decisive(defs, Top.of) = {} /\ ~IsTagged(Def)
    BY <1>2, <1>5, <2>1, MembersType DEF IsTagged
  <2>. QED
    BY <1>1, <1>3, <1>8, <2>1, <2>2 DEF ZeroPrimitive
<1>9. CASE ZeroTagged
  BY <1>1, <1>3, <1>9 DEF ZeroTagged, Inside
<1>10. CASE ZeroArray
  <2>1. Top.at >= 0 /\ Def.k = "sequence" /\ ~IsTagged(Def)
    BY <1>10 DEF ZeroArray, Inside
  <2>2. /\ Top.of \in DOMAIN defs /\ Len(Members(Def)) = 1
        /\ Top.at \in 0..1
    BY <1>2, <2>1, MembersType
  <2>3. CASE ReturnEarly(Error("panic", Top.of))
    BY <1>1, <1>3, <2>2, <2>3
  <2>4. CASE HasOneLength(Def) /\ Def.lo = 0 /\ ReturnEarly(Zero)
    BY <1>1, <1>3, <1>5, <2>1, <2>4 DEF HasOneLength
  <2>5. CASE /\ result = None /\ ~(HasOneLength(Def) /\ Def.lo = 0)
             /\ CallMember("zero", 1, 0) /\ UNCHANGED stack
    <3>1. Top.at = 0 /\ ~(Def.lo = 0 /\ Def.hi = 0)
      BY <1>2, <1>4, <2>2, <2>5 DEF HasOneLength
    <3>. QED
      BY <1>1, <1>3, <2>1, <2>2, <2>5, <3>1
  <2>6. CASE result = Zero /\ ReturnEarly(Zero)
    <3>1. Top.at = 1
      BY <1>4, <1>6, <2>2, <2>6
    <3>. QED
      BY <1>1, <1>3, <2>1, <2>2, <2>6, <3>1
  <2>7. CASE result = Sized /\ Leave(Sized)
    <3>1. Top.at = 1
      BY <1>4, <1>6, <2>2, <2>7
    <3>. QED
      BY <1>1, <1>3, <2>1, <2>7, <3>1
  <2>. QED
    BY <1>10, <2>3, <2>4, <2>5, <2>6, <2>7 DEF ZeroArray
<1>11. CASE ZeroEach
  <2>1. Top.at >= 0 /\ Def.k \in {"tuple", "enum"} /\ ~IsTagged(Def)
    BY <1>11 DEF ZeroEach, Inside
  <2>2. /\ Members(Def) = Def.of /\ Top.at \in 0..Len(Def.of) /\ Members(Def) \in Seq(Declarations)
        /\ Decisive(defs, Top.of) = Names(Def) /\ Def.k # "sequence" /\ Def.k # "primitive"
    BY <1>2, <1>5, <2>1, MembersType
  <2>3. CASE /\ result # Sized /\ Top.at < Len(Def.of)
             /\ CallMember("zero", 1, 0) /\ UNCHANGED stack
    <3>1. Top.at >= 1 => result = Zero
      BY <1>2, <1>4, <2>3
    <3>. QED
      BY <1>1, <1>3, <2>1, <2>2, <2>3, <3>1
  <2>4. CASE result # Sized /\ Top.at = Len(Def.of) /\ Leave(Zero)
    <3>1. ASSUME Names(Def) # {} PROVE result = Zero
      <4>1. PICK e \in Names(Def) : TRUE
        BY <3>1
      <4>2. PICK i \in 1..Len(Members(Def)) : e = Members(Def)[i]
        BY <1>2, <2>1, <4>1, MembersType
      <4>3. ~(Top.at <= 0)
        BY <2>2, <2>4, <4>2
      <4>. QED
        BY <1>4, <2>4, <4>3
    <3>. QED
      BY <1>1, <1>3, <2>1, <2>2, <2>4, <3>1
  <2>5. CASE result = Sized /\ Leave(Sized)
    <3>1. ~(Top.at <= 0)
      BY <1>4, <1>6, <2>5
    <3>. QED
      BY <1>1, <1>2, <1>3, <2>1, <2>5, <3>1
  <2>. QED
    BY <1>11, <2>3, <2>4, <2>5 DEF ZeroEach
<1>. QED
  BY <1>7, <1>8, <1>9, <1>10, <1>11

\* max_serialized_size_impl.
LEMMA SizeMoves ==
    ASSUME WellFormed, SizeEnter \/ SizePrimitive \/ SizeSequence \/ SizeTuple \/ SizeEnum
    PROVE  /\ frames # <<>> /\ Top.fn = "size" /\ ~IsError(result)
           /\ \/ /\ Contains(stack, Top.of) /\ Top.at = -1
                 /\ ReturnEarly(Error("Recursive", Top.of))
              \/ Top.of \notin DOMAIN defs /\ ReturnEarly(Error("MissingDefinition", Top.of))
              \/ Top.of \in DOMAIN defs /\ ReturnEarly(Error("Overflow", Top.of))
              \/ Top.of \in DOMAIN defs /\ Top.at = -1 /\ Enter
              \/ Top.at >= 0 /\ \E n \in 0..MaxUsize : Leave(Size(n))
              \/ /\ Top.at >= 0 /\ Top.at < Len(Members(Def))
                 /\ Def.k = "sequence" => Def.hi # 0
                 /\ \E fn \in Walkers, count \in Nat, acc \in Nat :
                      /\ Calls(defs, Top, fn) /\ count = Times(defs, Top)
                      /\ CallMember(fn, count, acc) /\ UNCHANGED stack
<1>1. frames # <<>> /\ Top.fn = "size"
  BY DEF SizeEnter, SizePrimitive, SizeSequence, SizeTuple, SizeEnum, Entering, Inside, In
<1>2. /\ Top.of \in Declarations /\ Top.at \in Nat \cup {-1}
      /\ Top.at <= 0 => result = None
      /\ Top.at >= 0 => /\ Top.of \in DOMAIN defs /\ IsDefinition(Def)
                        /\ Top.at \in 0..Len(Members(Def))
      /\ result.n \in Nat /\ Top.count \in Nat /\ Top.acc \in Nat
  BY <1>1, TopFacts DEF Results
<1>3. ~IsError(result)
  BY <1>2, ResultsDiffer
     DEF SizeEnter, SizePrimitive, SizeSequence, SizeTuple, SizeEnum, Entering, Inside
<1>4. ASSUME NEW n \in Nat, LeaveSized(n), Top.at >= 0
      PROVE  \/ Top.of \in DOMAIN defs /\ ReturnEarly(Error("Overflow", Top.of))
             \/ Top.at >= 0 /\ \E m \in 0..MaxUsize : Leave(Size(m))
  BY <1>2, <1>4, SchemaAssumption DEF LeaveSized
<1>5. CASE SizeEnter
  BY <1>1, <1>3, <1>5 DEF SizeEnter, Entering
<1>6. CASE SizePrimitive
  <2>1. Top.at >= 0 /\ Def.k = "primitive" /\ LeaveSized(Top.count * Def.size)
    BY <1>6 DEF SizePrimitive, Inside
  <2>2. Top.count * Def.size \in Nat
    BY <1>2, <2>1 DEF IsDefinition
  <2>. QED
    BY <1>1, <1>3, <1>4, <2>1, <2>2
<1>7. CASE SizeSequence
  <2>1. Top.at >= 0 /\ Def.k = "sequence"
    BY <1>7 DEF SizeSequence, Inside
  <2>2. Def.width \in Nat /\ Def.hi \in Nat /\ Top.of \in DOMAIN defs /\ Len(Members(Def)) = 1
    BY <1>2, <2>1, MembersType DEF IsDefinition
  <2>3. result = None => Top.at < Len(Members(Def))
    BY <1>1, <1>2, <1>3, <2>2, ResultFound
  <2>4. Top.count * Def.width \in Nat /\ Top.count * (result.n + Def.width) \in Nat
    BY <1>2, <2>2
  <2>5. CASE LeaveSized(Top.count * Def.width) \/ LeaveSized(Top.count * (result.n + Def.width))
    BY <1>1, <1>3, <1>4, <2>1, <2>4, <2>5
  <2>6. CASE ReturnEarly(Error("Overflow", Top.of))
    BY <1>1, <1>3, <2>2, <2>6
  <2>7. CASE /\ result = None /\ Def.hi \in 1..MaxUsize
             /\ CallMember("size", Def.hi, 0) /\ UNCHANGED stack
    <3>1. "size" \in Walkers /\ Def.hi # 0 /\ ~(Def.hi > MaxUsize) /\ Def.hi <= MaxUsize
      BY <2>2, <2>7, SchemaAssumption DEF Walkers
    <3>2. Calls(defs, Top, "size") /\ Def.hi = Times(defs, Top)
      BY <1>1, <2>1, <3>1 DEF Calls, Times, Def
    <3>. QED
      BY <1>1, <1>3, <2>1, <2>2, <2>3, <2>7, <3>1, <3>2
  <2>8. CASE /\ result = None /\ Def.hi > MaxUsize
             /\ CallMember("zero", 1, 0) /\ UNCHANGED stack
    <3>1. "zero" \in Walkers /\ Def.hi # 0 /\ ~(Def.hi <= MaxUsize)
      BY <2>2, <2>8, SchemaAssumption DEF Walkers
    <3>2. Calls(defs, Top, "zero") /\ 1 = Times(defs, Top)
      BY <1>1, <2>1, <2>8, <3>1 DEF Calls, Times, Def
    <3>. QED
      BY <1>1, <1>3, <2>1, <2>3, <2>8, <3>1, <3>2
  <2>. QED
    BY <1>7, <2>5, <2>6, <2>7, <2>8 DEF SizeSequence, LongestCount
<1>8. CASE SizeTuple
  <2>1. Top.at >= 0 /\ Def.k = "tuple"
    BY <1>8 DEF SizeTuple, Inside
  <2>2. Members(Def) = Def.of /\ Top.of \in DOMAIN defs /\ "size" \in Walkers
    BY <1>2, <2>1, MembersType DEF Walkers
  <2>7. Calls(defs, Top, "size") /\ 1 = Times(defs, Top)
    BY <1>1, <2>1 DEF Calls, Times, Def
  <2>3. Top.acc + result.n \in Nat /\ Top.count * (Top.acc + result.n) \in Nat
    BY <1>2
  <2>4. CASE ReturnEarly(Error("Overflow", Top.of))
    BY <1>1, <1>3, <2>2, <2>4
  <2>5. CASE /\ Top.at < Len(Def.of)
             /\ CallMember("size", 1, Top.acc + result.n) /\ UNCHANGED stack
    BY <1>1, <1>3, <2>1, <2>2, <2>3, <2>5, <2>7
  <2>6. CASE LeaveSized(Top.count * (Top.acc + result.n))
    BY <1>1, <1>3, <1>4, <2>1, <2>3, <2>6
  <2>. QED
    BY <1>8, <2>4, <2>5, <2>6 DEF SizeTuple
<1>9. CASE SizeEnum
  <2>. DEFINE longest == IF Top.acc < result.n THEN result.n ELSE Top.acc
  <2>1. Top.at >= 0 /\ Def.k = "enum"
    BY <1>9 DEF SizeEnum, Inside
  <2>2. Members(Def) = Def.of /\ Def.width \in Nat /\ "size" \in Walkers
    BY <1>2, <2>1, MembersType DEF Walkers, IsDefinition
  <2>7. Calls(defs, Top, "size") /\ 1 = Times(defs, Top)
    BY <1>1, <2>1 DEF Calls, Times, Def
  <2>3. longest \in Nat /\ longest + Def.width \in Nat
    BY <1>2, <2>2
  <2>4. \/ Top.at < Len(Def.of) /\ CallMember("size", 1, longest) /\ UNCHANGED stack
        \/ LeaveSized(longest + Def.width)
    BY <1>9 DEF SizeEnum
  <2>. HIDE DEF longest
  <2>5. CASE Top.at < Len(Def.of) /\ CallMember("size", 1, longest) /\ UNCHANGED stack
    BY <1>1, <1>3, <2>1, <2>2, <2>3, <2>5, <2>7
  <2>6. CASE LeaveSized(longest + Def.width)
    BY <1>1, <1>3, <1>4, <2>1, <2>3, <2>6
  <2>. QED
    BY <2>4, <2>5, <2>6
<1>. QED
  BY <1>5, <1>6, <1>7, <1>8, <1>9

\* check_length_width lets through the widths that fit.
LEMMA WidthFound ==
    ASSUME NEW def, def.width \in Nat
    PROVE  /\ LengthWidthError(def.width, def.hi) = "none" => WidthFits(def)
           /\ LengthWidthError(def.width, def.hi) \in {"TagTooNarrow", "TagNotPowerOfTwo"} =>
                ~WidthFits(def)
           /\ LengthWidthError(def.width, def.hi) = "TagTooWide" => def.width > 8
<1>. DEFINE w == def.width
            e == LengthWidthError(w, def.hi)
<1>1. CASE w \in {0, 8}
  <2>1. e = "none" /\ WidthFits(def)
    BY <1>1 DEF LengthWidthError, WidthFits
  <2>. QED
    BY <2>1
<1>2. CASE w \in {3, 5, 6, 7}
  <2>1. e = "TagNotPowerOfTwo" /\ ~WidthFits(def)
    BY <1>2 DEF LengthWidthError, WidthFits
  <2>. QED
    BY <2>1
<1>3. CASE w \in {1, 2, 4}
  <2>1. e = (IF FitsWidth(w, def.hi) THEN "none" ELSE "TagTooNarrow")
    BY <1>3 DEF LengthWidthError
  <2>2. WidthFits(def) <=> FitsWidth(w, def.hi)
    BY <1>3 DEF WidthFits, FitsWidth
  <2>. QED
    BY <2>1, <2>2
<1>4. CASE w > 8
  <2>1. e = "TagTooWide"
    BY <1>4 DEF LengthWidthError
  <2>. QED
    BY <1>4, <2>1
<1>5. w \in {0, 8} \/ w \in {3, 5, 6, 7} \/ w \in {1, 2, 4} \/ w > 8
  OBVIOUS
<1>. QED
  BY <1>1, <1>2, <1>3, <1>4, <1>5

\* validate_impl, but for the call it makes once is_zero_size has answered.
LEMMA ValidateMoves ==
    ASSUME WellFormed, ValidateEnter \/ ValidatePrimitive \/ ValidateArray \/ ValidateSequence
                       \/ ValidateEach
    PROVE  /\ frames # <<>> /\ Top.fn = "validate" /\ ~IsError(result)
           /\ \/ Top.of \notin DOMAIN defs /\ ReturnEarly(Error("MissingDefinition", Top.of))
              \/ Contains(validating, Top.of) /\ Top.at = -1 /\ ReturnEarly(Unit)
              \/ Top.of \in DOMAIN defs /\ Top.at = -1 /\ Enter
              \/ /\ Top.at >= 0 /\ Top.at = Len(Members(Def)) /\ Leave(Unit)
                 /\ Def.k = "enum" => Def.width <= 8
                 /\ Top.at >= 1 => result = Unit
              \/ /\ Top.of \in DOMAIN defs
                 /\ \E e \in ErrorKinds :
                      /\ e \notin {"MissingDefinition", "Recursive", "Overflow"}
                      /\ ReturnEarly(Error(e, Top.of))
                      /\ e = "ZSTSequence" => Def.k = "sequence" /\ Top.at = 1 /\ result = Zero
                      /\ e = "EmptyLengthRange" => IsDynamic(Def) /\ IsEmptyRange(Def)
                      /\ e \in {"TagTooNarrow", "TagNotPowerOfTwo"} => ~WidthFits(Def)
                      /\ e = "TagTooWide" => Def.width > 8
              \/ /\ Top.at >= 0 /\ Top.at < Len(Members(Def))
                 /\ CallMember("validate", 1, 0) /\ UNCHANGED stack
                 /\ ~IsDynamic(Def) /\ (Def.k = "enum" => Def.width <= 8)
                 /\ Top.at >= 1 => result = Unit
              \/ /\ Top.at = 0 /\ Len(Members(Def)) = 1
                 /\ CallMember("zero", 1, 0) /\ stack' = <<>>
                 /\ IsDynamic(Def) /\ ~IsEmptyRange(Def) /\ WidthFits(Def)
<1>1. frames # <<>> /\ Top.fn = "validate"
  BY DEF ValidateEnter, ValidatePrimitive, ValidateArray, ValidateSequence, ValidateEach,
         Entering, Inside, In
<1>2. /\ Top.of \in Declarations /\ Top.at \in Nat \cup {-1}
      /\ Top.at <= 0 => result = None
      /\ Top.at >= 0 => /\ Top.of \in DOMAIN defs /\ IsDefinition(Def)
                        /\ Top.at \in 0..Len(Members(Def))
  BY <1>1, TopFacts
<1>3. ~IsError(result)
  BY <1>2, ResultsDiffer
     DEF ValidateEnter, ValidatePrimitive, ValidateArray, ValidateSequence, ValidateEach,
         Entering, Inside
<1>4. /\ Top.at <= 0 <=> result = None
      /\ Top.at >= 1 => result \in {Unit, Zero, Sized}
      /\ result \in {Zero, Sized} => IsDynamic(Def)
  BY <1>1, <1>3, ResultFound
<1>5. None # Unit /\ None # Zero /\ Zero # Unit /\ Sized # Unit
  BY ResultsDiffer
<1>6. CASE ValidateEnter
  BY <1>1, <1>3, <1>6 DEF ValidateEnter, Entering
<1>7. CASE ValidatePrimitive
  <2>1. Top.at >= 0 /\ Def.k = "primitive" /\ Leave(Unit)
    BY <1>7 DEF ValidatePrimitive, Inside
  <2>2. Top.at = 0 /\ Len(Members(Def)) = 0
    <3>1. Members(Def) = <<>>
      BY <1>2, <2>1, MembersType
    <3>. QED
      BY <1>2, <2>1, <3>1
  <2>. QED
    BY <1>1, <1>3, <2>1, <2>2
<1>8. CASE ValidateArray
  <2>1. Top.at >= 0 /\ Def.k = "sequence" /\ Def.width = 0
    BY <1>8 DEF ValidateArray, Inside, MayBeArray
  <2>2. Top.of \in DOMAIN defs /\ Len(Members(Def)) = 1 /\ Top.at \in 0..1
    BY <1>2, <2>1, MembersType
  <2>3. CASE ReturnEarly(Error("panic", Top.of))
    BY <1>1, <1>3, <2>2, <2>3 DEF ErrorKinds
  <2>4. CASE result = None /\ HasOneLength(Def) /\ CallMember("validate", 1, 0) /\ UNCHANGED stack
    <3>1. Top.at = 0 /\ ~IsDynamic(Def)
      BY <1>2, <1>4, <2>1, <2>2, <2>4 DEF HasOneLength, IsDynamic, IsArray
    <3>. QED
      BY <1>1, <1>3, <2>1, <2>2, <2>4, <3>1
  <2>5. CASE result = Unit /\ Leave(Unit)
    <3>1. Top.at = 1
      BY <1>4, <1>5, <2>2, <2>5
    <3>. QED
      BY <1>1, <1>3, <2>1, <2>2, <2>5, <3>1
  <2>. QED
    BY <1>8, <2>3, <2>4, <2>5 DEF ValidateArray
<1>9. CASE ValidateSequence
  <2>. DEFINE widthError == LengthWidthError(Def.width, Def.hi)
  <2>1. /\ Top.at >= 0 /\ Def.k = "sequence"
        /\ Def.width = 0 => ~(Def.lo = Def.hi)
    BY <1>9 DEF ValidateSequence, Inside, MayBeArray, HasOneLength
  <2>2. /\ Top.of \in DOMAIN defs /\ Len(Members(Def)) = 1 /\ Top.at \in 0..1
        /\ Def.width \in Nat /\ IsDynamic(Def)
    BY <1>2, <2>1, MembersType DEF IsDefinition, IsDynamic, IsArray
  <2>3. CASE IsEmptyRange(Def) /\ ReturnEarly(Error("EmptyLengthRange", Top.of))
    BY <1>1, <1>3, <2>2, <2>3 DEF ErrorKinds
  <2>4. CASE widthError # "none" /\ ReturnEarly(Error(widthError, Top.of))
    <3>1. widthError \in {"TagNotPowerOfTwo", "TagTooNarrow", "TagTooWide"}
      BY <2>4, WidthErrors
    <3>2. /\ widthError \in {"TagTooNarrow", "TagNotPowerOfTwo"} => ~WidthFits(Def)
          /\ widthError = "TagTooWide" => Def.width > 8
      BY <2>2, WidthFound
    <3>. HIDE DEF widthError
    <3>3. widthError \in ErrorKinds
          /\ widthError \notin {"MissingDefinition", "Recursive", "Overflow", "ZSTSequence",
                                "EmptyLengthRange"}
      BY <3>1 DEF ErrorKinds
    <3>. QED
      BY <1>1, <1>3, <2>2, <2>4, <3>2, <3>3
  <2>5. CASE /\ result = None /\ ~IsEmptyRange(Def) /\ widthError = "none"
             /\ CallMember("zero", 1, 0) /\ stack' = <<>>
    <3>1. Top.at = 0 /\ WidthFits(Def)
      BY <1>2, <1>4, <2>2, <2>5, WidthFound
    <3>. QED
      BY <1>1, <1>3, <2>2, <2>5, <3>1
  <2>6. CASE result = Zero /\ ReturnEarly(Error("ZSTSequence", Top.of))
    <3>1. Top.at = 1 /\ "ZSTSequence" \in ErrorKinds
      BY <1>4, <1>5, <2>2, <2>6 DEF ErrorKinds
    <3>. QED
      BY <1>1, <1>3, <2>1, <2>2, <2>6, <3>1
  <2>7. CASE result = Unit /\ Leave(Unit)
    <3>1. Top.at = 1
      BY <1>4, <1>5, <2>2, <2>7
    <3>. QED
      BY <1>1, <1>3, <2>1, <2>2, <2>7, <3>1
  <2>. QED
    BY <1>9, <2>3, <2>4, <2>5, <2>6, <2>7 DEF ValidateSequence
<1>10. CASE ValidateEach
  <2>1. Top.at >= 0 /\ Def.k \in {"tuple", "enum"}
    BY <1>10 DEF ValidateEach, Inside
  <2>2. /\ Members(Def) = Def.of /\ Top.of \in DOMAIN defs /\ ~IsDynamic(Def) /\ Def.k # "sequence"
        /\ Top.at \in 0..Len(Members(Def)) /\ Members(Def) \in Seq(Declarations)
    BY <1>2, <2>1, MembersType DEF IsDynamic
  <2>3. Top.at >= 1 => result = Unit
    BY <1>4, <2>2
  <2>4. CASE Def.k = "enum" /\ Def.width > 8 /\ ReturnEarly(Error("TagTooWide", Top.of))
    BY <1>1, <1>3, <2>2, <2>4 DEF ErrorKinds
  <2>5. CASE /\ Def.k = "enum" => Def.width <= 8
             /\ Top.at < Len(Def.of) /\ CallMember("validate", 1, 0) /\ UNCHANGED stack
    BY <1>1, <1>3, <2>1, <2>2, <2>3, <2>5
  <2>6. CASE (Def.k = "enum" => Def.width <= 8) /\ Top.at = Len(Def.of) /\ Leave(Unit)
    BY <1>1, <1>3, <2>2, <2>3, <2>6
  <2>. QED
    BY <1>10, <2>4, <2>5, <2>6 DEF ValidateEach
<1>. QED
  BY <1>6, <1>7, <1>8, <1>9, <1>10

\* The innermost call looks its declaration up.
LEMMA EnterStep ==
    ASSUME WellFormed, frames # <<>>, Top.at = -1, Enter
    PROVE  /\ result' = None /\ result = None /\ defs' = defs /\ asked' = asked
           /\ \E f \in Frame :
                /\ frames' = [frames EXCEPT ![Len(frames)] = f]
                /\ Len(frames') = Len(frames) /\ frames' # <<>> /\ frames'[Len(frames)] = f
                /\ \A i \in 1..Len(frames) - 1 : frames'[i] = frames[i]
                /\ f.fn = Top.fn /\ f.of = Top.of /\ f.count = Top.count
                /\ f.at = 0 /\ f.acc = Top.acc /\ Top' = f
<1>. DEFINE f == [Top EXCEPT !.at = 0]
            n == Len(frames)
<1>1. /\ n \in Nat \ {0} /\ Top = frames[n] /\ Top \in Frame /\ result = None
      /\ frames \in Seq(Frame)
  BY TopFacts DEF WellFormed, Typed
<1>2. /\ f \in Frame /\ f.fn = Top.fn /\ f.of = Top.of /\ f.count = Top.count
      /\ f.at = 0 /\ f.acc = Top.acc
  BY <1>1 DEF Frame
<1>3. [frames EXCEPT ![n].at = 0] = [frames EXCEPT ![n] = f]
  BY <1>1 DEF Frame
<1>4. frames' = [frames EXCEPT ![n] = f] /\ result' = result /\ defs' = defs /\ asked' = asked
  BY <1>3 DEF Enter
<1>. HIDE DEF f
<1>5. /\ frames' \in Seq(Frame) /\ Len(frames') = n /\ frames'[n] = f /\ frames' # <<>>
      /\ \A i \in 1..n - 1 : frames'[i] = frames[i]
  BY <1>1, <1>2, <1>4
<1>6. Top' = f
  BY <1>5 DEF Top, Last
<1>. QED
  BY <1>1, <1>2, <1>4, <1>5, <1>6

\* The innermost call calls the next of its members.
LEMMA PushStep ==
    ASSUME WellFormed, frames # <<>>, Top.at >= 0, Top.at < Len(Members(Def)),
           NEW fn \in Functions3, NEW count \in Nat, NEW acc \in Nat, CallMember(fn, count, acc)
    PROVE  /\ result' = None /\ defs' = defs /\ asked' = asked /\ validating' = validating
           /\ \E f \in Frame, g \in Frame :
                /\ frames' = Append([frames EXCEPT ![Len(frames)] = f], g)
                /\ Len(frames') = Len(frames) + 1 /\ frames' # <<>>
                /\ \A i \in 1..Len(frames) - 1 : frames'[i] = frames[i]
                /\ frames'[Len(frames)] = f /\ frames'[Len(frames) + 1] = g
                /\ f.fn = Top.fn /\ f.of = Top.of /\ f.count = Top.count
                /\ f.at = Top.at + 1 /\ f.acc = acc
                /\ g.fn = fn /\ g.of = Members(Def)[Top.at + 1] /\ g.count = count
                /\ g.at = -1 /\ g.acc = 0 /\ Top' = g
<1>. DEFINE f == [Top EXCEPT !.at = Top.at + 1, !.acc = acc]
            g == Call(fn, Members(Def)[Top.at + 1], count)
            n == Len(frames)
<1>1. /\ n \in Nat \ {0} /\ Top = frames[n] /\ Top \in Frame
      /\ Members(Def) \in Seq(Declarations) /\ Top.at \in Nat \cup {-1}
      /\ frames \in Seq(Frame)
  BY TopFacts DEF WellFormed, Typed
<1>2. /\ f \in Frame /\ f.fn = Top.fn /\ f.of = Top.of /\ f.count = Top.count
      /\ f.at = Top.at + 1 /\ f.acc = acc
  <2>1. Top.at + 1 \in Nat
    BY <1>1
  <2>. QED
    BY <1>1, <2>1 DEF Frame
<1>3. Members(Def)[Top.at + 1] \in Declarations
  BY <1>1
<1>4. /\ g \in Frame /\ g.fn = fn /\ g.of = Members(Def)[Top.at + 1] /\ g.count = count
      /\ g.at = -1 /\ g.acc = 0
  BY <1>3 DEF Frame, Call
<1>5. [frames EXCEPT ![n].at = @ + 1, ![n].acc = acc] = [frames EXCEPT ![n] = f]
  BY <1>1 DEF Frame
<1>6. /\ frames' = Append([frames EXCEPT ![n] = f], g) /\ result' = None /\ defs' = defs
      /\ asked' = asked /\ validating' = validating
  BY <1>5 DEF CallMember
<1>. HIDE DEF f, g
<1>7. /\ frames' \in Seq(Frame) /\ Len(frames') = n + 1 /\ frames' # <<>>
      /\ frames'[n] = f /\ frames'[n + 1] = g
      /\ \A i \in 1..n - 1 : frames'[i] = frames[i]
  BY <1>1, <1>2, <1>4, <1>6
<1>8. Top' = g
  BY <1>7 DEF Top, Last
<1>. QED
  BY <1>2, <1>4, <1>6, <1>7, <1>8

\* Sequences of the calls something is known of.
LEMMA SetIn ==
    ASSUME NEW T, NEW s \in Seq(T), s # <<>>, NEW f \in T
    PROVE  [s EXCEPT ![Len(s)] = f] \in Seq(T)
  OBVIOUS

\* A call is put on top of others that are in order.
LEMMA PushIn ==
    ASSUME NEW T, NEW s \in Seq(T), s # <<>>, NEW f \in T, NEW g \in T
    PROVE  Append([s EXCEPT ![Len(s)] = f], g) \in Seq(T)
  OBVIOUS

-----------------------------------------------------------------------------
(* is_zero_size: what its answers mean.                                    *)

\* A return whose answer means what it says, for the walks that look for a byte.
LEMMA ZeroReturn ==
    ASSUME WellFormed, ZeroInv, frames # <<>>, NEW r, Return(r), ZeroMeans(defs, Top.of, r)
    PROVE  ZeroInv'
<1>1. /\ frames' = Front(frames) /\ result' = r /\ defs' = defs
      /\ Callee(defs, frames') = Top.of
  BY PopStep
<1>2. frames' \in Seq(ZeroFrames(defs))
  BY <1>1, FrontLast DEF ZeroInv
<1>. QED
  BY <1>1, <1>2 DEF ZeroInv

\* The definition was found: nothing is known of its members yet.
LEMMA ZeroFound ==
    ASSUME WellFormed, ZeroInv, frames # <<>>, Top.at = -1, Enter
    PROVE  ZeroInv'
<1>1. result' = None /\ defs' = defs
  BY EnterStep
<1>2. PICK f \in Frame : frames' = [frames EXCEPT ![Len(frames)] = f] /\ f.at = 0
  BY EnterStep
<1>3. f \in ZeroFrames(defs)
  BY <1>2 DEF ZeroFrames
<1>4. frames' \in Seq(ZeroFrames(defs))
  BY <1>2, <1>3, SetIn DEF ZeroInv
<1>. QED
  BY <1>1, <1>4, ResultsDiffer DEF ZeroInv, ZeroMeans

\* A member is called: the ones before it hold no byte.
LEMMA ZeroPush ==
    ASSUME WellFormed, ZeroInv, frames # <<>>, Top.at >= 0, Top.at < Len(Members(Def)),
           NEW fn \in Functions3, NEW count \in Nat, NEW acc \in Nat, CallMember(fn, count, acc),
           Top.fn = "zero" =>
              /\ ~IsTagged(Def) /\ (Def.k = "sequence" => ~(Def.lo = 0 /\ Def.hi = 0))
              /\ Top.at >= 1 => result = Zero
    PROVE  ZeroInv'
<1>1. result' = None /\ defs' = defs
  BY PushStep
<1>2. PICK f \in Frame, g \in Frame :
           /\ frames' = Append([frames EXCEPT ![Len(frames)] = f], g)
           /\ f.fn = Top.fn /\ f.of = Top.of /\ f.at = Top.at + 1 /\ g.at = -1
  BY PushStep
<1>3. g \in ZeroFrames(defs)
  BY <1>2 DEF ZeroFrames
<1>4. f \in ZeroFrames(defs)
  <2>. SUFFICES ASSUME f.fn = "zero", NEW j \in 1..f.at - 1
                PROVE  ZeroMeans(defs, Members(Def)[j], Zero)
    BY <1>2 DEF ZeroFrames, Def
  <2>1. Top \in Frame /\ Top = frames[Len(frames)] /\ Top.at \in Nat /\ Len(frames) \in Nat \ {0}
    BY TopFacts
  <2>2. j \in 1..Top.at
    BY <1>2, <2>1
  <2>3. Top \in ZeroFrames(defs)
    BY <2>1, FrontLast DEF ZeroInv, Top
  <2>4. CASE j = Top.at
    <3>1. Callee(defs, frames) = Members(Def)[j] /\ result = Zero
      BY <1>2, <2>1, <2>2, <2>4 DEF Callee, Def
    <3>. QED
      BY <3>1 DEF ZeroInv
  <2>5. CASE j # Top.at
    <3>1. j \in 1..Top.at - 1 /\ Top.at >= 1
      BY <2>1, <2>2, <2>5
    <3>. QED
      BY <1>2, <2>3, <3>1 DEF ZeroFrames, Def
  <2>. QED
    BY <2>4, <2>5
<1>5. frames' \in Seq(ZeroFrames(defs))
  BY <1>2, <1>3, <1>4, PushIn DEF ZeroInv
<1>. QED
  BY <1>1, <1>5, ResultsDiffer DEF ZeroInv, ZeroMeans

\* Only is_zero_size answers Zero and Sized.
LEMMA ZeroOthers ==
    ASSUME NEW D, NEW d, NEW r, r.is \notin {"zero", "sized"}
    PROVE  ZeroMeans(D, d, r)
  BY ResultsDiffer DEF ZeroMeans

\* No call is under way.
LEMMA ZeroInvInit ==
    ASSUME Init
    PROVE  ZeroInv
<1>1. frames = <<>> /\ result = None
  BY DEF Init
<1>2. frames \in Seq(ZeroFrames(defs))
  BY <1>1
<1>. QED
  BY <1>1, <1>2, ResultsDiffer, ZeroOthers DEF ZeroInv

\* The steps of is_zero_size_impl.
LEMMA ZeroInvZero ==
    ASSUME WellFormed, ZeroInv,
           ZeroEnter \/ ZeroPrimitive \/ ZeroTagged \/ ZeroArray \/ ZeroEach
    PROVE  ZeroInv'
<1>1. frames # <<>> /\ Top.fn = "zero"
  BY ZeroMoves
<1>2. /\ IsContainer(defs) /\ Top.of \in Reached(defs, Root) /\ frames # <<>>
      /\ Top \in Frame /\ Top = frames[Len(frames)] /\ Top.at \in Nat \cup {-1}
      /\ Top.at >= 0 => /\ Top.of \in DOMAIN defs /\ IsDefinition(Def)
                        /\ Members(Def) \in Seq(Declarations)
                        /\ Top.at \in 0..Len(Members(Def))
  BY <1>1, TopFacts DEF WellFormed, Typed, Here
<1>3. Top \in ZeroFrames(defs) /\ ZeroMeans(defs, Callee(defs, frames), result)
  BY <1>1, <1>2, FrontLast DEF ZeroInv, Top
<1>4. ASSUME NEW e \in ErrorKinds, ReturnEarly(Error(e, Top.of)) PROVE ZeroInv'
  <2>1. ZeroMeans(defs, Top.of, Error(e, Top.of))
    BY ResultsDiffer, ZeroOthers DEF ErrorKinds
  <2>. QED
    BY <1>1, <1>4, <2>1, ZeroReturn DEF ReturnEarly
<1>5. CASE \/ /\ Contains(stack, Top.of) /\ Top.at = -1
              /\ ReturnEarly(Error("Recursive", Top.of))
           \/ Top.of \notin DOMAIN defs /\ ReturnEarly(Error("MissingDefinition", Top.of))
           \/ Top.of \in DOMAIN defs /\ ReturnEarly(Error("panic", Top.of))
  BY <1>4, <1>5 DEF ErrorKinds
<1>6. CASE Top.of \in DOMAIN defs /\ Top.at = -1 /\ Enter
  BY <1>1, <1>6, ZeroFound
<1>7. CASE /\ Top.at >= 0 /\ (Leave(Zero) \/ (ReturnEarly(Zero) /\ Def.k = "sequence"))
           /\ ~IsTagged(Def) /\ (Def.k = "primitive" => Def.size = 0)
           /\ Decisive(defs, Top.of) = {} \/ Top.at = Len(Members(Def))
           /\ Decisive(defs, Top.of) # {} => result = Zero
  <2>1. ASSUME NEW e \in Decisive(defs, Top.of) PROVE ZeroMeans(defs, e, Zero)
    <3>1. e \in Names(Def) /\ result = Zero /\ Top.at = Len(Members(Def))
      BY <1>7, <2>1 DEF Decisive, Def
    <3>2. PICK j \in 1..Len(Members(Def)) : e = Members(Def)[j]
      BY <1>2, <1>7, <3>1, MembersType
    <3>3. CASE j = Top.at
      BY <1>1, <1>2, <1>3, <3>1, <3>2, <3>3 DEF Callee, Def
    <3>4. CASE j # Top.at
      <4>1. j \in 1..Top.at - 1 /\ Top.at >= 1
        BY <1>2, <3>1, <3>2, <3>4
      <4>. QED
        BY <1>1, <1>3, <3>2, <4>1 DEF ZeroFrames, Def
    <3>. QED
      BY <3>3, <3>4
  <2>2. ZeroMeans(defs, Top.of, Zero)
    BY <1>2, <1>7, <2>1, ZeroOfMembers DEF Def
  <2>. QED
    BY <1>1, <1>7, <2>2, ZeroReturn DEF ReturnEarly, Leave
<1>8. CASE /\ Top.at >= 0 /\ Leave(Sized)
           /\ \/ IsTagged(Def)
              \/ Def.k = "primitive" /\ Def.size # 0
              \/ Top.at >= 1 /\ result = Sized
  <2>1. ASSUME Top.at >= 1, result = Sized
        PROVE  \E e \in Decisive(defs, Top.of) : ZeroMeans(defs, e, Sized)
    <3>. DEFINE e == Members(Def)[Top.at]
    <3>1. Top.at \in 1..Len(Members(Def)) /\ Callee(defs, frames) = e
      BY <1>1, <1>2, <2>1 DEF Callee, Def
    <3>2. e \in Names(Def)
      BY <1>2, <2>1, <3>1, MembersType
    <3>3. Def.k = "sequence" => ~(Def.lo = 0 /\ Def.hi = 0)
      BY <1>1, <1>3, <2>1 DEF ZeroFrames, Def
    <3>4. e \in Decisive(defs, Top.of)
      BY <3>2, <3>3 DEF Decisive, Def
    <3>. QED
      BY <1>3, <2>1, <3>1, <3>4
  <2>2. ZeroMeans(defs, Top.of, Sized)
    BY <1>2, <1>8, <2>1, SizedOfMember DEF Def
  <2>. QED
    BY <1>1, <1>8, <2>2, ZeroReturn DEF Leave
<1>9. CASE /\ Top.at >= 0 /\ Top.at < Len(Members(Def))
           /\ CallMember("zero", 1, 0) /\ UNCHANGED stack
           /\ ~IsTagged(Def) /\ (Def.k = "sequence" => ~(Def.lo = 0 /\ Def.hi = 0))
           /\ Top.at >= 1 => result = Zero
  <2>1. "zero" \in Functions3 /\ 1 \in Nat /\ 0 \in Nat
    BY DEF Functions3
  <2>. QED
    BY <1>1, <1>9, <2>1, ZeroPush
<1>. QED
  BY <1>5, <1>6, <1>7, <1>8, <1>9, ZeroMoves

\* Every step.
LEMMA ZeroInvNext ==
    ASSUME WellFormed, ZeroInv, [Next]_vars
    PROVE  ZeroInv'
<1>. USE DEF Functions3
<1>1. ASSUME NEW e \in ErrorKinds, NEW d, frames # <<>>, ReturnEarly(Error(e, d)) PROVE ZeroInv'
  <2>1. ZeroMeans(defs, Top.of, Error(e, d))
    BY ResultsDiffer, ZeroOthers DEF ErrorKinds
  <2>. QED
    BY <1>1, <2>1, ZeroReturn DEF ReturnEarly
<1>2. CASE SizeEnter \/ SizePrimitive \/ SizeSequence \/ SizeTuple \/ SizeEnum
  <2>1. frames # <<>> /\ Top.fn = "size"
    BY <1>2, SizeMoves
  <2>2. CASE \/ ReturnEarly(Error("Recursive", Top.of))
             \/ ReturnEarly(Error("MissingDefinition", Top.of))
             \/ ReturnEarly(Error("Overflow", Top.of))
    BY <1>1, <2>1, <2>2 DEF ErrorKinds
  <2>3. CASE Top.at = -1 /\ Enter
    BY <2>1, <2>3, ZeroFound
  <2>4. CASE \E n \in 0..MaxUsize : Leave(Size(n))
    <3>1. PICK n \in 0..MaxUsize : Leave(Size(n))
      BY <2>4
    <3>2. ZeroMeans(defs, Top.of, Size(n))
      BY ResultsDiffer, ZeroOthers
    <3>. QED
      BY <2>1, <3>1, <3>2, ZeroReturn DEF Leave
  <2>5. CASE /\ Top.at >= 0 /\ Top.at < Len(Members(Def))
             /\ \E fn \in Walkers, count \in Nat, acc \in Nat : CallMember(fn, count, acc)
    <3>1. PICK fn \in Walkers, count \in Nat, acc \in Nat : CallMember(fn, count, acc)
      BY <2>5
    <3>. QED
      BY <2>1, <2>5, <3>1, ZeroPush DEF Walkers
  <2>. QED
    BY <1>2, <2>2, <2>3, <2>4, <2>5, SizeMoves
<1>3. CASE ValidateEnter \/ ValidatePrimitive \/ ValidateArray \/ ValidateSequence \/ ValidateEach
  <2>1. frames # <<>> /\ Top.fn = "validate"
    BY <1>3, ValidateMoves
  <2>2. CASE \E e \in ErrorKinds : ReturnEarly(Error(e, Top.of))
    BY <1>1, <2>1, <2>2
  <2>3. CASE ReturnEarly(Unit) \/ Leave(Unit)
    <3>1. ZeroMeans(defs, Top.of, Unit)
      BY ResultsDiffer, ZeroOthers
    <3>. QED
      BY <2>1, <2>3, <3>1, ZeroReturn DEF Leave, ReturnEarly
  <2>4. CASE Top.at = -1 /\ Enter
    BY <2>1, <2>4, ZeroFound
  <2>5. CASE /\ Top.at >= 0 /\ Top.at < Len(Members(Def))
             /\ CallMember("validate", 1, 0) \/ CallMember("zero", 1, 0)
    BY <2>1, <2>5, ZeroPush
  <2>6. "MissingDefinition" \in ErrorKinds
    BY DEF ErrorKinds
  <2>7. Top.at = 0 /\ Len(Members(Def)) = 1 => Top.at >= 0 /\ Top.at < Len(Members(Def))
    OBVIOUS
  <2>. QED
    BY <1>3, <2>2, <2>3, <2>4, <2>5, <2>6, <2>7, ValidateMoves, Zenon
<1>4. CASE PassOn
  <2>1. frames # <<>> /\ IsError(result) /\ ReturnEarly(result)
    BY <1>4 DEF PassOn
  <2>2. ZeroMeans(defs, Top.of, result)
    BY <2>1, ZeroOthers DEF IsError, ErrorKinds
  <2>. QED
    BY <2>1, <2>2, ZeroReturn DEF ReturnEarly
<1>5. CASE ValidateElements
  <2>. DEFINE g == Call("validate", Def.of, 1)
  <2>1. frames' = Append(frames, g) /\ result' = None /\ defs' = defs
    BY <1>5 DEF ValidateElements
  <2>2. Len(frames') = Len(frames) + 1 /\ frames'[Len(frames) + 1] = g /\ WellFormed'
    BY <1>5, ElementsKeeps
  <2>3. g \in ZeroFrames(defs)
    <3>1. frames' \in Seq(Frame) /\ frames \in Seq(Frame)
      BY <2>2 DEF WellFormed, Typed
    <3>2. g \in Frame
      BY <2>2, <3>1
    <3>. QED
      BY <3>2 DEF ZeroFrames, Call
  <2>4. frames' \in Seq(ZeroFrames(defs))
    BY <2>1, <2>3 DEF ZeroInv
  <2>. QED
    BY <2>1, <2>4, ResultsDiffer, ZeroOthers DEF ZeroInv
<1>6. CASE Validate \/ MaxSerializedSize \/ IsZeroSize
  <2>1. \E query \in Queries, fn \in Functions3 : Ask(query, fn)
    BY <1>6 DEF Validate, MaxSerializedSize, IsZeroSize, Queries
  <2>2. PICK query \in Queries, fn \in Functions3 : Ask(query, fn)
    BY <2>1
  <2>3. frames' = <<Call(fn, Root, 1)>> /\ result' = None /\ defs' = defs
    BY <2>2 DEF Ask
  <2>4. Call(fn, Root, 1) \in ZeroFrames(defs)
    BY ContainersAssumption DEF ZeroFrames, Frame, Call
  <2>5. frames' \in Seq(ZeroFrames(defs))
    BY <2>3, <2>4
  <2>. QED
    BY <2>3, <2>5, ResultsDiffer, ZeroOthers DEF ZeroInv
<1>7. CASE UNCHANGED vars
  BY <1>7 DEF ZeroInv, vars
<1>. QED
  BY <1>2, <1>3, <1>4, <1>5, <1>6, <1>7, ZeroInvZero DEF Next

\* is_zero_size answers true exactly when no encoding has a byte: at every step,
\* each answer is right for the declaration it was asked of, and the members a call
\* went past are empty.
THEOREM IsZeroSizeExact == Spec => []ZeroSizeExact
<1>1. Init => WellFormed /\ ZeroInv
  BY WellFormedInit, ZeroInvInit
<1>2. WellFormed /\ ZeroInv /\ [Next]_vars => (WellFormed /\ ZeroInv)'
  BY WellFormedNext, ZeroInvNext
<1>3. WellFormed /\ ZeroInv => ZeroSizeExact
  <2>. SUFFICES ASSUME WellFormed, ZeroInv, asked = "zero_size", frames = <<>>, ~IsError(result),
                       NoEmptyRange
                PROVE  result = IF Root \in NonEmpty(defs) THEN Sized ELSE Zero
    BY DEF ZeroSizeExact, Answered
  <2>1. Returned("zero", result) /\ Callee(defs, frames) = Root
    BY DEF WellFormed, Returning, FirstCall, Callee
  <2>2. result \in {Zero, Sized}
    BY <2>1 DEF Returned, IsError, ErrorKinds
  <2>3. NoEmptyIn(defs)
    BY DEF NoEmptyRange, NoEmptyIn, Known, Here
  <2>4. ZeroMeans(defs, Root, result)
    BY <2>1 DEF ZeroInv
  <2>. QED
    BY <2>2, <2>3, <2>4, ResultsDiffer DEF ZeroMeans
<1>. QED
  BY <1>1, <1>2, <1>3, PTL DEF Spec

-----------------------------------------------------------------------------
(* The walks that share a stack: what Recursive means.                     *)

\* The graph the walks follow is one.
LEMMA EdgesType ==
    ASSUME NEW query, NEW D, IsContainer(D)
    PROVE  /\ IsGraph(Edges(query, D)) /\ DOMAIN Edges(query, D) = DOMAIN D
           /\ \A d \in DOMAIN D : Edges(query, D)[d] \subseteq Declarations
  BY GraphsType DEF Edges, IsGraph

\* What may be met from what is reached may be met.
LEMMA MeetUp ==
    ASSUME NEW query, NEW D, IsContainer(D), NEW d \in Declarations,
           NEW e \in Closure(Edges(query, D), {d}), MayMeet(query, D, e)
    PROVE  MayMeet(query, D, d)
<1>. DEFINE G == Edges(query, D)
<1>1. IsGraph(G)
  BY EdgesType
<1>. HIDE DEF G
<1>2. Closure(G, {e}) \subseteq Closure(G, {d})
  BY <1>1, ClosureWithin DEF G
<1>3. Cyclic(G, e) => Cyclic(G, d)
  BY <1>2 DEF Cyclic
<1>. QED
  BY <1>2, <1>3 DEF MayMeet, G

\* What a member may meet, its container may meet.
LEMMA MeetMember ==
    ASSUME NEW query, NEW D, IsContainer(D), NEW d \in DOMAIN D,
           NEW e \in Closure(Edges(query, D), Edges(query, D)[d]), MayMeet(query, D, e)
    PROVE  MayMeet(query, D, d)
<1>. DEFINE G == Edges(query, D)
<1>1. IsGraph(G) /\ d \in DOMAIN G /\ d \in Declarations
  BY EdgesType DEF IsContainer
<1>2. e \in Closure(G, {d})
  BY <1>1, ClosureUnfold
<1>. QED
  BY <1>1, <1>2, MeetUp

\* A declaration that reaches itself may be met.
LEMMA MeetSelf ==
    ASSUME NEW query, NEW D, IsContainer(D), NEW d \in DOMAIN D,
           d \in Closure(Edges(query, D), Edges(query, D)[d])
    PROVE  MayMeet(query, D, d)
<1>. DEFINE G == Edges(query, D)
<1>1. IsGraph(G) /\ d \in DOMAIN G
  BY EdgesType
<1>2. OnCycle(G, d)
  BY <1>1 DEF OnCycle
<1>3. Cyclic(G, d)
  BY <1>1, <1>2, OnCycleCyclic
<1>. QED
  BY <1>3 DEF MayMeet

\* Two declarations that reach each other may be met.
LEMMA MeetEachOther ==
    ASSUME NEW query, NEW D, IsContainer(D), NEW d \in DOMAIN D, NEW e \in DOMAIN D,
           d \in Closure(Edges(query, D), Edges(query, D)[e]),
           e \in Closure(Edges(query, D), Edges(query, D)[d])
    PROVE  MayMeet(query, D, d)
<1>. DEFINE G == Edges(query, D)
<1>1. IsGraph(G) /\ d \in DOMAIN G /\ e \in DOMAIN G
  BY EdgesType
<1>. HIDE DEF G
<1>2. G[e] \subseteq Closure(G, G[d])
  BY <1>1, ClosureStep DEF G
<1>3. Closure(G, G[e]) \subseteq Closure(G, G[d])
  BY <1>1, <1>2, ClosureWithin
<1>4. d \in Closure(G, G[d])
  BY <1>3 DEF G
<1>. QED
  BY <1>4, MeetSelf DEF G

\* A walk calls walks.
LEMMA WalkersCall ==
    ASSUME NEW D, NEW f, NEW fn, Calls(D, f, fn), f.fn \in Walkers
    PROVE  fn \in Walkers
  BY DEF Calls, Walkers

\* A return leaves the stack to the caller; Recursive is answered of what may meet itself.
LEMMA WalkReturn ==
    ASSUME WellFormed, WalkParts, frames # <<>>, NEW r, Return(r),
           r.is = "Recursive" => MayMeet(asked, defs, Top.of),
           frames' # <<>> /\ Top'.fn \in Walkers /\ Top.fn \in Walkers /\ ~IsError(r) =>
             OnStack(asked, defs, frames', stack')
    PROVE  WalkParts'
<1>1. /\ frames' = Front(frames) /\ result' = r /\ defs' = defs /\ asked' = asked
      /\ Len(frames') = Len(frames) - 1 /\ \A i \in 1..Len(frames') : frames'[i] = frames[i]
      /\ Callee(defs, frames') = Top.of
  BY PopStep
<1>2. frames' \in Seq(EdgeFrames(asked, defs)) /\ Len(frames) \in Nat \ {0}
  BY <1>1, FrontLast DEF WalkParts
<1>3. Nested(asked, defs, frames')
  <2>1. \A i \in 1..Len(frames') : i \in 1..Len(frames)
    BY <1>1, <1>2
  <2>. QED
    BY <1>1, <2>1 DEF WalkParts, Nested
<1>4. frames' # <<>> /\ Top'.fn \in Walkers => Top.fn \in Walkers
  BY PopStep, WalkersCall
<1>. QED
  BY <1>1, <1>2, <1>3, <1>4 DEF WalkParts

\* The declaration is pushed as its call goes on.
LEMMA WalkFound ==
    ASSUME WellFormed, WalkParts, frames # <<>>, Top.at = -1, Top.of \in DOMAIN defs, Enter,
           Top.fn \in Walkers => ~IsError(result)
    PROVE  WalkParts'
<1>. DEFINE n == Len(frames)
            G == Edges(asked, defs)
<1>1. /\ n \in Nat \ {0} /\ Top = frames[n] /\ IsContainer(defs) /\ stack \in Seq(Declarations)
      /\ Top.of \in Declarations /\ frames \in Seq(Frame)
  BY TopFacts DEF WellFormed, Typed
<1>2. result' = None /\ result = None /\ defs' = defs /\ asked' = asked
  BY EnterStep
<1>3. PICK f \in Frame :
           /\ frames' = [frames EXCEPT ![n] = f]
           /\ Len(frames') = n /\ frames' # <<>> /\ frames'[n] = f
           /\ \A i \in 1..n - 1 : frames'[i] = frames[i]
           /\ f.fn = Top.fn /\ f.of = Top.of /\ f.at = 0 /\ Top' = f
  BY EnterStep
<1>. HIDE DEF n
<1>10. f.at >= 0 /\ ~(f.at >= 1) /\ f.fn = Top.fn
  BY <1>3
<1>4. Top \in EdgeFrames(asked, defs)
  BY <1>1, FrontLast DEF WalkParts, Top, n
<1>5. f \in EdgeFrames(asked, defs)
  <2>1. (f.fn = "size" => asked = "max_size") /\ ~(f.at >= 1)
    BY <1>4, <1>10 DEF EdgeFrames
  <2>. QED
    BY <2>1 DEF EdgeFrames
<1>6. frames' \in Seq(EdgeFrames(asked, defs))
  BY <1>3, <1>5, SetIn DEF WalkParts, n
<1>7. ASSUME NEW i \in 1..n PROVE frames'[i].fn = frames[i].fn /\ frames'[i].of = frames[i].of
  <2>1. i \in 1..n - 1 \/ i = n
    BY <1>1
  <2>. QED
    BY <1>1, <1>3, <2>1
<1>8. Nested(asked, defs, frames')
  <2>. SUFFICES ASSUME NEW k \in 1..n, NEW i \in 1..n, k < i, frames'[k].fn \in Walkers
                PROVE  /\ frames'[i].fn \in Walkers
                       /\ frames'[i].of \in Closure(G, G[frames'[k].of])
    BY <1>3 DEF Nested
  <2>. QED
    BY <1>7 DEF WalkParts, Nested, n
<1>9. ASSUME Top'.fn \in Walkers PROVE OnStack(asked, defs, frames', stack')
  <2>1. stack' = Append(stack, Top.of) /\ Top.fn \in Walkers
    BY <1>3, <1>9 DEF Enter, Walkers
  <2>2. /\ Len(stack) \in Nat /\ Len(stack') = Len(stack) + 1
        /\ \A p \in 1..Len(stack) : stack'[p] = stack[p]
        /\ stack'[Len(stack) + 1] = Top.of
    BY <1>1, <2>1
  <2>. DEFINE m == Len(stack)
  <2>3. OnStack(asked, defs, frames, stack)
    BY <2>1 DEF WalkParts
  <2>4. ASSUME NEW p \in 1..m, ~MayMeet(asked, defs, stack[p])
        PROVE  /\ \E k \in 1..n : /\ frames'[k].fn \in Walkers /\ frames'[k].at >= 0
                                  /\ frames'[k].of = stack[p]
               /\ \A q \in p + 1..m + 1 : stack'[q] \in Closure(G, G[stack[p]])
    <3>1. PICK k \in 1..n : frames[k].fn \in Walkers /\ frames[k].at >= 0 /\ frames[k].of = stack[p]
      BY <2>3, <2>4 DEF OnStack, n
    <3>2. k \in 1..n - 1 /\ k < n
      BY <1>1, <3>1
    <3>3. Top.of \in Closure(G, G[stack[p]])
      BY <1>1, <3>1, <3>2 DEF WalkParts, Nested, n
    <3>4. ASSUME NEW q \in p + 1..m + 1 PROVE stack'[q] \in Closure(G, G[stack[p]])
      <4>1. CASE q = m + 1
        BY <2>2, <3>3, <4>1
      <4>2. CASE q # m + 1
        <5>1. q \in p + 1..m /\ q \in 1..m
          BY <2>2, <4>2
        <5>. QED
          BY <2>2, <2>3, <2>4, <5>1 DEF OnStack
      <4>. QED
        BY <4>1, <4>2
    <3>. QED
      BY <1>3, <3>1, <3>2, <3>4
  <2>. SUFFICES ASSUME NEW p \in 1..m + 1, ~MayMeet(asked, defs, stack'[p])
                PROVE  /\ \E k \in 1..n : /\ frames'[k].fn \in Walkers /\ frames'[k].at >= 0
                                          /\ frames'[k].of = stack'[p]
                       /\ \A q \in p + 1..m + 1 : stack'[q] \in Closure(G, G[stack'[p]])
    BY <1>3, <2>2 DEF OnStack
  <2>5. CASE p \in 1..m
    BY <2>2, <2>4, <2>5
  <2>6. CASE p = m + 1
    <3>1. \A q \in p + 1..m + 1 : FALSE
      BY <2>2, <2>6
    <3>2. n \in 1..n
      BY <1>1
    <3>3. frames'[n].fn \in Walkers /\ frames'[n].at >= 0 /\ frames'[n].of = Top.of
      BY <1>3, <1>10, <2>1
    <3>4. stack'[p] = Top.of
      BY <2>2, <2>6
    <3>. QED
      BY <3>1, <3>2, <3>3, <3>4
  <2>. QED
    BY <2>2, <2>5, <2>6
<1>. QED
  BY <1>2, <1>6, <1>8, <1>9, ResultsDiffer DEF WalkParts

\* A walk that ends pops the stack: what it was in stays there only when it may be
\* met, and what is popped was pushed last.
LEMMA OnStackLeave ==
    ASSUME WellFormed, WalkParts, frames # <<>>, Top.fn \in Walkers, Top.at >= 0,
           ~IsError(result), NEW r, Leave(r)
    PROVE  OnStack(asked, defs, frames', stack')
<1>. DEFINE n == Len(frames)
            G == Edges(asked, defs)
            m == Len(stack)
<1>1. /\ n \in Nat \ {0} /\ Top = frames[n] /\ IsContainer(defs) /\ stack \in Seq(Declarations)
      /\ Top.of \in DOMAIN defs
  BY TopFacts DEF WellFormed, Typed
<1>2. /\ Len(frames') = n - 1 /\ \A i \in 1..n - 1 : frames'[i] = frames[i]
      /\ stack' = Front(stack)
  <2>1. Return(r)
    BY DEF Leave
  <2>. QED
    BY <2>1, PopStep DEF Leave, Walkers
<1>3. OnStack(asked, defs, frames, stack) /\ Nested(asked, defs, frames)
  BY DEF WalkParts
<1>4. CASE stack = <<>>
  <2>1. stack' = <<>>
    <3>1. stack' = SubSeq(stack, 1, -1)
      BY <1>2, <1>4 DEF Front
    <3>. QED
      BY <1>4, <3>1, SubSeqEmpty
  <2>2. \A p \in 1..Len(stack') : FALSE
    BY <2>1
  <2>. QED
    BY <2>2 DEF OnStack
<1>5. CASE stack # <<>>
  <2>1. /\ m \in Nat \ {0} /\ Len(stack') = m - 1
        /\ \A p \in 1..m - 1 : stack'[p] = stack[p]
    BY <1>1, <1>2, <1>5, FrontLast
  <2>2. \A k \in 1..n : frames[k].at >= 0 => frames[k].of \in DOMAIN defs
    <3>1. \A k \in 1..n : FrameOK(defs, frames[k])
      BY DEF WellFormed, Chain
    <3>. QED
      BY <3>1 DEF FrameOK
  <2>. SUFFICES ASSUME NEW p \in 1..m - 1, ~MayMeet(asked, defs, stack[p])
                PROVE  /\ \E k \in 1..n - 1 : /\ frames[k].fn \in Walkers /\ frames[k].at >= 0
                                              /\ frames[k].of = stack[p]
                       /\ \A q \in p + 1..m - 1 : stack[q] \in Closure(G, G[stack[p]])
    <3>1. \A p \in 1..m - 1 : \A q \in p + 1..m - 1 : stack'[q] = stack[q]
      BY <2>1
    <3>. HIDE DEF m, n, G
    <3>. QED
      BY <1>2, <2>1, <3>1 DEF OnStack, G
  <2>3. p \in 1..m /\ m \in p + 1..m /\ \A q \in p + 1..m - 1 : q \in p + 1..m
    BY <2>1
  <2>4. /\ \E k \in 1..n : frames[k].fn \in Walkers /\ frames[k].at >= 0 /\ frames[k].of = stack[p]
        /\ \A q \in p + 1..m : stack[q] \in Closure(G, G[stack[p]])
    BY <1>3, <2>3 DEF OnStack
  <2>5. PICK k \in 1..n : frames[k].fn \in Walkers /\ frames[k].at >= 0 /\ frames[k].of = stack[p]
    BY <2>4
  <2>6. stack[m] \in Closure(G, G[stack[p]]) /\ stack[p] \in DOMAIN defs
    BY <2>2, <2>3, <2>4, <2>5
  <2>7. ~MayMeet(asked, defs, stack[m])
    BY <1>1, <2>6, MeetMember
  <2>8. m \in 1..m
    BY <2>1
  <2>9. PICK l \in 1..n : frames[l].fn \in Walkers /\ frames[l].at >= 0 /\ frames[l].of = stack[m]
    BY <1>3, <2>7, <2>8 DEF OnStack
  <2>10. stack[m] \in DOMAIN defs
    BY <2>2, <2>9
  <2>11. k # n
    <3>. SUFFICES ASSUME k = n PROVE FALSE
      OBVIOUS
    <3>1. CASE l = n
      BY <1>1, <2>5, <2>6, <2>9, <3>1, MeetSelf
    <3>2. CASE l # n
      <4>1. l < k
        BY <3>2
      <4>2. stack[p] \in Closure(G, G[stack[m]])
        BY <1>3, <2>5, <2>9, <4>1 DEF Nested
      <4>. QED
        BY <1>1, <2>6, <2>10, <4>2, MeetEachOther
    <3>. QED
      BY <3>1, <3>2
  <2>12. k \in 1..n - 1
    BY <1>1, <2>11
  <2>. QED
    BY <2>3, <2>4, <2>5, <2>12
<1>. QED
  BY <1>4, <1>5

\* The walk over an array may return at once: the array stays on the stack.
LEMMA OnStackEarly ==
    ASSUME WellFormed, WalkParts, frames # <<>>, Top.fn \in Walkers, ~IsError(result),
           NEW r, ReturnEarly(r), MayMeet(asked, defs, Top.of)
    PROVE  OnStack(asked, defs, frames', stack')
<1>. DEFINE n == Len(frames)
            G == Edges(asked, defs)
            m == Len(stack)
<1>1. n \in Nat \ {0} /\ Top = frames[n]
  BY TopFacts
<1>2. /\ Len(frames') = n - 1 /\ \A i \in 1..n - 1 : frames'[i] = frames[i]
      /\ stack' = stack
  <2>1. Return(r)
    BY DEF ReturnEarly
  <2>. QED
    BY <2>1, PopStep DEF ReturnEarly
<1>3. OnStack(asked, defs, frames, stack)
  BY DEF WalkParts
<1>. SUFFICES ASSUME NEW p \in 1..m, ~MayMeet(asked, defs, stack[p])
              PROVE  /\ \E k \in 1..n - 1 : /\ frames[k].fn \in Walkers /\ frames[k].at >= 0
                                            /\ frames[k].of = stack[p]
                     /\ \A q \in p + 1..m : stack[q] \in Closure(G, G[stack[p]])
  <2>. HIDE DEF m, n, G
  <2>. QED
    BY <1>2 DEF OnStack, G, m
<1>4. /\ \E k \in 1..n : frames[k].fn \in Walkers /\ frames[k].at >= 0 /\ frames[k].of = stack[p]
      /\ \A q \in p + 1..m : stack[q] \in Closure(G, G[stack[p]])
  BY <1>3 DEF OnStack
<1>5. PICK k \in 1..n : frames[k].fn \in Walkers /\ frames[k].at >= 0 /\ frames[k].of = stack[p]
  BY <1>4
<1>6. k # n
  BY <1>1, <1>5
<1>7. k \in 1..n - 1
  BY <1>1, <1>6
<1>. QED
  BY <1>4, <1>5, <1>7

\* A member is called along an edge that the walk follows.
LEMMA WalkPush ==
    ASSUME WellFormed, WalkParts, frames # <<>>, Top.at >= 0, Top.at < Len(Members(Def)),
           NEW fn \in Functions3, NEW count \in Nat, NEW acc \in Nat, CallMember(fn, count, acc),
           Calls(defs, Top, fn), ~IsError(result),
           Top.fn \in Walkers =>
              /\ Members(Def)[Top.at + 1] \in Edges(asked, defs)[Top.of]
              /\ stack' = stack,
           fn \in Walkers /\ Top.fn \notin Walkers => stack' = <<>>
    PROVE  WalkParts'
<1>. DEFINE n == Len(frames)
            G == Edges(asked, defs)
<1>1. /\ n \in Nat \ {0} /\ Top = frames[n] /\ IsContainer(defs) /\ Top.of \in DOMAIN defs
      /\ Top.of \in Declarations /\ Top.at \in Nat \cup {-1}
  BY TopFacts DEF WellFormed, Typed
<1>2. result' = None /\ defs' = defs /\ asked' = asked
  BY PushStep
<1>3. PICK f \in Frame, g \in Frame :
           /\ frames' = Append([frames EXCEPT ![n] = f], g)
           /\ Len(frames') = n + 1 /\ frames' # <<>>
           /\ \A i \in 1..n - 1 : frames'[i] = frames[i]
           /\ frames'[n] = f /\ frames'[n + 1] = g
           /\ f.fn = Top.fn /\ f.of = Top.of /\ f.at = Top.at + 1
           /\ g.fn = fn /\ g.of = Members(Def)[Top.at + 1] /\ g.at = -1 /\ Top' = g
  BY PushStep
<1>4. Top \in EdgeFrames(asked, defs)
  BY <1>1, FrontLast DEF WalkParts, Top
<1>. HIDE DEF n, G
<1>5. /\ f.at >= 0 /\ f.fn = Top.fn /\ f.of = Top.of /\ f.at = Top.at + 1
      /\ g.fn = fn /\ ~(g.at >= 1) /\ g.of = Members(Def)[Top.at + 1]
  BY <1>1, <1>3
<1>6. Top.fn \in Walkers => g.of \in G[Top.of] /\ g.fn \in Walkers
  BY <1>5, WalkersCall DEF G
<1>7. g.fn = "size" => Top.fn = "size"
  BY <1>5, TopFacts, CalledByValidate
<1>8. f \in EdgeFrames(asked, defs) /\ g \in EdgeFrames(asked, defs)
  <2>1. Top.fn = "size" => asked = "max_size"
    BY <1>4 DEF EdgeFrames
  <2>2. f.fn \in Walkers => Members(defs[f.of])[f.at] \in Edges(asked, defs)[f.of]
    BY <1>5, <1>6 DEF Def, G
  <2>. QED
    BY <1>5, <1>7, <2>1, <2>2 DEF EdgeFrames
<1>9. frames' \in Seq(EdgeFrames(asked, defs))
  BY <1>3, <1>8, PushIn DEF WalkParts, n
<1>10. ASSUME NEW i \in 1..n PROVE frames'[i].fn = frames[i].fn /\ frames'[i].of = frames[i].of
  <2>1. i \in 1..n - 1 \/ i = n
    BY <1>1
  <2>. QED
    BY <1>1, <1>3, <2>1
<1>11. IsGraph(G) /\ DOMAIN G = DOMAIN defs /\ G[Top.of] \subseteq Declarations
  BY <1>1, EdgesType DEF G
<1>12. Nested(asked, defs, frames')
  <2>. SUFFICES ASSUME NEW k \in 1..n + 1, NEW i \in 1..n + 1, k < i, frames'[k].fn \in Walkers
                PROVE  /\ frames'[i].fn \in Walkers
                       /\ frames'[i].of \in Closure(G, G[frames'[k].of])
    BY <1>3 DEF Nested, G
  <2>1. k \in 1..n /\ (i \in 1..n \/ i = n + 1)
    BY <1>1
  <2>2. CASE i \in 1..n
    BY <1>10, <2>1, <2>2 DEF WalkParts, Nested, n, G
  <2>3. CASE i = n + 1
    <3>1. frames'[i] = g
      BY <1>3, <2>3
    <3>2. CASE k = n
      <4>1. frames'[k].of = Top.of /\ g.of \in G[Top.of] /\ g.fn \in Walkers
        BY <1>1, <1>6, <1>10, <2>1, <3>2
      <4>. QED
        BY <1>11, <3>1, <4>1, ClosureHas
    <3>3. CASE k # n
      <4>1. k < n /\ n \in 1..n
        BY <1>1, <2>1, <3>3
      <4>2. /\ Top.fn \in Walkers /\ Top.of \in Closure(G, G[frames[k].of])
            /\ frames'[k].of = frames[k].of
        BY <1>1, <1>10, <2>1, <4>1 DEF WalkParts, Nested, n, G
      <4>3. G[Top.of] \subseteq Closure(G, G[frames[k].of])
        BY <1>1, <1>11, <4>2, ClosureStep
      <4>. QED
        BY <1>6, <3>1, <4>2, <4>3
    <3>. QED
      BY <3>2, <3>3
  <2>. QED
    BY <2>1, <2>2, <2>3
<1>13. ASSUME Top'.fn \in Walkers PROVE OnStack(asked, defs, frames', stack')
  <2>1. CASE Top.fn \notin Walkers
    <3>1. stack' = <<>>
      BY <1>3, <1>13, <2>1
    <3>2. \A p \in 1..Len(stack') : FALSE
      BY <3>1
    <3>. QED
      BY <3>2 DEF OnStack
  <2>2. CASE Top.fn \in Walkers
    <3>1. stack' = stack /\ OnStack(asked, defs, frames, stack)
      BY <2>2 DEF WalkParts
    <3>2. ASSUME NEW k \in 1..n, frames[k].fn \in Walkers, frames[k].at >= 0
          PROVE  /\ k \in 1..n + 1 /\ frames'[k].fn \in Walkers /\ frames'[k].at >= 0
                 /\ frames'[k].of = frames[k].of
      <4>1. k \in 1..n + 1 /\ (k \in 1..n - 1 \/ k = n)
        BY <1>1
      <4>. QED
        BY <1>3, <1>5, <1>10, <3>2, <4>1
    <3>. SUFFICES ASSUME NEW p \in 1..Len(stack), ~MayMeet(asked, defs, stack[p])
                  PROVE  /\ \E k \in 1..n + 1 : /\ frames'[k].fn \in Walkers /\ frames'[k].at >= 0
                                                /\ frames'[k].of = stack[p]
                         /\ \A q \in p + 1..Len(stack) : stack[q] \in Closure(G, G[stack[p]])
      BY <1>3, <3>1 DEF OnStack, G
    <3>3. PICK k \in 1..n : frames[k].fn \in Walkers /\ frames[k].at >= 0 /\ frames[k].of = stack[p]
      BY <3>1 DEF OnStack, n
    <3>4. \A q \in p + 1..Len(stack) : stack[q] \in Closure(G, G[stack[p]])
      BY <3>1 DEF OnStack, G
    <3>. QED
      BY <3>2, <3>3, <3>4
  <2>. QED
    BY <2>1, <2>2
<1>. QED
  BY <1>2, <1>9, <1>12, <1>13, ResultsDiffer DEF WalkParts

\* The edges the calls are made along.
LEMMA ZeroEdge ==
    ASSUME WellFormed, Followed, frames # <<>>, Top.at >= 0, Top.at < Len(Members(Def)),
           ~IsTagged(Def), Def.k = "sequence" => ~(Def.lo = 0 /\ Def.hi = 0)
    PROVE  Members(Def)[Top.at + 1] \in Edges(asked, defs)[Top.of]
<1>. DEFINE e == Members(Def)[Top.at + 1]
<1>1. /\ IsDefinition(Def) /\ Top.of \in DOMAIN defs /\ Top.of \in Here
      /\ Top.at \in 0..Len(Members(Def)) /\ Members(Def) \in Seq(Declarations)
  BY TopFacts
<1>2. e \in Names(Def)
  <2>1. Top.at + 1 \in 1..Len(Members(Def))
    BY <1>1
  <2>. QED
    BY <1>1, <2>1, MembersType
<1>3. CASE asked = "max_size"
  <2>1. Def.k = "sequence" => Def.hi # 0
    <3>. SUFFICES ASSUME Def.k = "sequence" PROVE Def.hi # 0
      OBVIOUS
    <3>1. Def.lo \in Nat /\ Def.hi \in Nat /\ ~(Def.hi < Def.lo)
      BY <1>1, <1>3 DEF Followed, NoEmptyIn, IsEmptyRange, IsDefinition, Here, Def
    <3>. QED
      BY <3>1
  <2>2. SizeGraph(defs)[Top.of] = Names(Def)
    BY <1>1, <2>1 DEF SizeGraph, Def
  <2>. QED
    BY <1>2, <1>3, <2>2 DEF Edges
<1>4. CASE asked # "max_size"
  <2>1. BareGraph(defs)[Top.of] = Names(Def)
    BY <1>1 DEF BareGraph, IsTagged, Def
  <2>. QED
    BY <1>2, <1>4, <2>1 DEF Edges
<1>. QED
  BY <1>3, <1>4

\* max_serialized_size_impl follows the edges of SizeGraph.
LEMMA SizeEdge ==
    ASSUME WellFormed, WalkParts, frames # <<>>, Top.fn = "size", Top.at >= 0,
           Top.at < Len(Members(Def)), Def.k = "sequence" => Def.hi # 0
    PROVE  Members(Def)[Top.at + 1] \in Edges(asked, defs)[Top.of]
<1>1. /\ IsDefinition(Def) /\ Top.of \in DOMAIN defs
      /\ Top.at \in 0..Len(Members(Def)) /\ Members(Def) \in Seq(Declarations)
      /\ Top = frames[Len(frames)]
  BY TopFacts
<1>2. Members(Def)[Top.at + 1] \in Names(Def)
  <2>1. Top.at + 1 \in 1..Len(Members(Def))
    BY <1>1
  <2>. QED
    BY <1>1, <2>1, MembersType
<1>3. asked = "max_size"
  <2>1. Top \in EdgeFrames(asked, defs)
    BY FrontLast DEF WalkParts, Top
  <2>. QED
    BY <2>1 DEF EdgeFrames
<1>4. SizeGraph(defs)[Top.of] = Names(Def)
  BY <1>1 DEF SizeGraph, Def
<1>. QED
  BY <1>2, <1>3, <1>4 DEF Edges

\* A walk that finds its declaration on the stack may meet it.
LEMMA FoundOnStack ==
    ASSUME WellFormed, WalkParts, frames # <<>>, Top.fn \in Walkers, ~IsError(result),
           Top.at = -1, Contains(stack, Top.of)
    PROVE  MayMeet(asked, defs, Top.of)
<1>. DEFINE n == Len(frames)
<1>1. n \in Nat \ {0} /\ Top = frames[n] /\ IsContainer(defs)
  BY TopFacts DEF WellFormed, Typed
<1>2. PICK p \in 1..Len(stack) : stack[p] = Top.of
  BY DEF Contains
<1>. SUFFICES ASSUME ~MayMeet(asked, defs, Top.of) PROVE FALSE
  OBVIOUS
<1>3. PICK k \in 1..n : frames[k].fn \in Walkers /\ frames[k].at >= 0 /\ frames[k].of = Top.of
  BY <1>2 DEF WalkParts, OnStack
<1>4. k < n /\ n \in 1..n
  BY <1>1, <1>3
<1>5. Top.of \in Closure(Edges(asked, defs), Edges(asked, defs)[Top.of])
  BY <1>1, <1>3, <1>4 DEF WalkParts, Nested
<1>6. Top.of \in DOMAIN defs
  BY <1>3 DEF WellFormed, Chain, FrameOK
<1>. QED
  BY <1>1, <1>5, <1>6, MeetSelf

\* The steps of is_zero_size_impl.
LEMMA WalkZero ==
    ASSUME WellFormed, ZeroInv, ZeroInv', WalkParts, Followed,
           ZeroEnter \/ ZeroPrimitive \/ ZeroTagged \/ ZeroArray \/ ZeroEach
    PROVE  WalkParts'
<1>1. frames # <<>> /\ Top.fn = "zero" /\ Top.fn \in Walkers /\ ~IsError(result)
  BY ZeroMoves DEF Walkers
<1>2. Top.of \in Here /\ (Top.at >= 0 => Top.of \in DOMAIN defs)
  BY <1>1, TopFacts
<1>3. CASE Contains(stack, Top.of) /\ Top.at = -1 /\ ReturnEarly(Error("Recursive", Top.of))
  <2>1. MayMeet(asked, defs, Top.of)
    BY <1>1, <1>3, FoundOnStack
  <2>2. IsError(Error("Recursive", Top.of))
    BY ResultsDiffer DEF ErrorKinds
  <2>. QED
    BY <1>1, <1>3, <2>1, <2>2, WalkReturn DEF ReturnEarly
<1>4. ASSUME NEW e \in {"MissingDefinition", "panic"}, ReturnEarly(Error(e, Top.of))
      PROVE  WalkParts'
  <2>1. IsError(Error(e, Top.of)) /\ Error(e, Top.of).is # "Recursive"
    BY ResultsDiffer DEF ErrorKinds
  <2>. QED
    BY <1>1, <1>4, <2>1, WalkReturn DEF ReturnEarly
<1>5. CASE Top.of \in DOMAIN defs /\ Top.at = -1 /\ Enter
  BY <1>1, <1>5, WalkFound
<1>6. ASSUME NEW r \in {Zero, Sized}, Top.at >= 0, Leave(r) PROVE WalkParts'
  <2>1. OnStack(asked, defs, frames', stack')
    BY <1>1, <1>6, OnStackLeave
  <2>2. r.is # "Recursive"
    BY <1>6, ResultsDiffer
  <2>. QED
    BY <1>1, <1>6, <2>1, <2>2, WalkReturn DEF Leave
<1>7. CASE Top.at >= 0 /\ ReturnEarly(Zero) /\ Def.k = "sequence" /\ ~IsTagged(Def)
  <2>1. Return(Zero)
    BY <1>7 DEF ReturnEarly
  <2>2. Callee(defs, frames') = Top.of /\ result' = Zero /\ defs' = defs
    BY <1>1, <2>1, PopStep
  <2>3. ZeroMeans(defs, Top.of, Zero)
    BY <2>2 DEF ZeroInv
  <2>4. Top.of \in EmptyArraysOf(defs)
    BY <1>2, <1>7, <2>3 DEF ZeroMeans, EmptyArraysOf, IsTagged, Here, Def
  <2>5. Top.of \in Closure(Edges(asked, defs), {Top.of})
    BY <1>1, TopFacts, ClosureHas
  <2>6. MayMeet(asked, defs, Top.of)
    BY <2>4, <2>5 DEF MayMeet
  <2>7. OnStack(asked, defs, frames', stack')
    BY <1>1, <1>7, <2>6, OnStackEarly
  <2>. QED
    BY <1>1, <2>1, <2>6, <2>7, WalkReturn
<1>8. CASE /\ Top.at >= 0 /\ Top.at < Len(Members(Def))
           /\ CallMember("zero", 1, 0) /\ UNCHANGED stack
           /\ ~IsTagged(Def) /\ (Def.k = "sequence" => ~(Def.lo = 0 /\ Def.hi = 0))
  <2>1. "zero" \in Functions3 /\ Calls(defs, Top, "zero")
    BY <1>1 DEF Functions3, Calls
  <2>2. Members(Def)[Top.at + 1] \in Edges(asked, defs)[Top.of]
    BY <1>1, <1>8, ZeroEdge
  <2>. QED
    BY <1>1, <1>8, <2>1, <2>2, WalkPush
<1>. QED
  BY <1>3, <1>4, <1>5, <1>6, <1>7, <1>8, ZeroMoves

\* The steps of max_serialized_size_impl.
LEMMA WalkSize ==
    ASSUME WellFormed, WalkParts,
           SizeEnter \/ SizePrimitive \/ SizeSequence \/ SizeTuple \/ SizeEnum
    PROVE  WalkParts'
<1>1. frames # <<>> /\ Top.fn = "size" /\ Top.fn \in Walkers /\ ~IsError(result)
  BY SizeMoves DEF Walkers
<1>2. CASE Contains(stack, Top.of) /\ Top.at = -1 /\ ReturnEarly(Error("Recursive", Top.of))
  <2>1. MayMeet(asked, defs, Top.of)
    BY <1>1, <1>2, FoundOnStack
  <2>2. IsError(Error("Recursive", Top.of))
    BY ResultsDiffer DEF ErrorKinds
  <2>. QED
    BY <1>1, <1>2, <2>1, <2>2, WalkReturn DEF ReturnEarly
<1>3. ASSUME NEW e \in {"MissingDefinition", "Overflow"}, ReturnEarly(Error(e, Top.of))
      PROVE  WalkParts'
  <2>1. IsError(Error(e, Top.of)) /\ Error(e, Top.of).is # "Recursive"
    BY ResultsDiffer DEF ErrorKinds
  <2>. QED
    BY <1>1, <1>3, <2>1, WalkReturn DEF ReturnEarly
<1>4. CASE Top.of \in DOMAIN defs /\ Top.at = -1 /\ Enter
  BY <1>1, <1>4, WalkFound
<1>5. CASE Top.at >= 0 /\ \E n \in 0..MaxUsize : Leave(Size(n))
  <2>1. PICK n \in 0..MaxUsize : Leave(Size(n))
    BY <1>5
  <2>2. OnStack(asked, defs, frames', stack')
    BY <1>1, <1>5, <2>1, OnStackLeave
  <2>3. Size(n).is # "Recursive"
    BY ResultsDiffer
  <2>. QED
    BY <1>1, <2>1, <2>2, <2>3, WalkReturn DEF Leave
<1>6. CASE /\ Top.at >= 0 /\ Top.at < Len(Members(Def))
           /\ Def.k = "sequence" => Def.hi # 0
           /\ \E fn \in Walkers, count \in Nat, acc \in Nat :
                /\ Calls(defs, Top, fn) /\ count = Times(defs, Top)
                /\ CallMember(fn, count, acc) /\ UNCHANGED stack
  <2>1. PICK fn \in Walkers, count \in Nat, acc \in Nat :
               Calls(defs, Top, fn) /\ CallMember(fn, count, acc) /\ UNCHANGED stack
    BY <1>6
  <2>2. fn \in Functions3
    BY DEF Functions3, Walkers
  <2>3. Members(Def)[Top.at + 1] \in Edges(asked, defs)[Top.of]
    BY <1>1, <1>6, SizeEdge
  <2>. QED
    BY <1>1, <1>6, <2>1, <2>2, <2>3, WalkPush
<1>. QED
  BY <1>2, <1>3, <1>4, <1>5, <1>6, SizeMoves

\* The steps of validate_impl, which gives its nested walk an empty stack.
LEMMA WalkValidate ==
    ASSUME WellFormed, WalkParts,
           ValidateEnter \/ ValidatePrimitive \/ ValidateArray \/ ValidateSequence \/ ValidateEach
    PROVE  WalkParts'
<1>1. frames # <<>> /\ Top.fn = "validate" /\ Top.fn \notin Walkers /\ ~IsError(result)
  BY ValidateMoves DEF Walkers
<1>2. ASSUME NEW r, ReturnEarly(r) \/ Leave(r), r.is # "Recursive" PROVE WalkParts'
  BY <1>1, <1>2, WalkReturn DEF ReturnEarly, Leave
<1>3. CASE \E e \in ErrorKinds : e # "Recursive" /\ ReturnEarly(Error(e, Top.of))
  BY <1>2, <1>3, ResultsDiffer
<1>4. CASE ReturnEarly(Unit) \/ Leave(Unit)
  BY <1>2, <1>4, ResultsDiffer
<1>5. CASE Top.of \in DOMAIN defs /\ Top.at = -1 /\ Enter
  BY <1>1, <1>5, WalkFound
<1>6. CASE /\ Top.at >= 0 /\ Top.at < Len(Members(Def))
           /\ CallMember("validate", 1, 0)
  <2>1. "validate" \in Functions3 /\ Calls(defs, Top, "validate") /\ "validate" \notin Walkers
    BY <1>1 DEF Functions3, Calls, Walkers
  <2>. QED
    BY <1>1, <1>6, <2>1, WalkPush
<1>7. CASE /\ Top.at >= 0 /\ Top.at < Len(Members(Def))
           /\ CallMember("zero", 1, 0) /\ stack' = <<>> /\ IsDynamic(Def)
  <2>1. "zero" \in Functions3 /\ Calls(defs, Top, "zero")
    BY <1>1, <1>7 DEF Functions3, Calls, Def
  <2>. QED
    BY <1>1, <1>7, <2>1, WalkPush
<1>8. "MissingDefinition" \in ErrorKinds /\ "MissingDefinition" # "Recursive"
  BY DEF ErrorKinds
<1>9. Top.at = 0 /\ Len(Members(Def)) = 1 => Top.at >= 0 /\ Top.at < Len(Members(Def))
  OBVIOUS
<1>10. \A e : e \notin {"MissingDefinition", "Recursive", "Overflow"} => e # "Recursive"
  OBVIOUS
<1>. QED
  BY <1>3, <1>4, <1>5, <1>6, <1>7, <1>8, <1>9, <1>10, ValidateMoves, Zenon

\* No call is under way.
LEMMA WalkInvInit ==
    ASSUME Init
    PROVE  WalkInv
<1>1. frames = <<>> /\ result = None
  BY DEF Init
<1>2. frames \in Seq(EdgeFrames(asked, defs)) /\ Len(frames) = 0
  BY <1>1
<1>. QED
  BY <1>1, <1>2, ResultsDiffer DEF WalkInv, WalkParts, Nested

\* A query starts with empty stacks.
LEMMA WalkAsk ==
    ASSUME NEW query, NEW fn \in Functions3, fn = "size" => query = "max_size", Ask(query, fn)
    PROVE  WalkParts'
<1>. DEFINE g == Call(fn, Root, 1)
<1>1. /\ frames' = <<g>> /\ result' = None /\ defs' = defs /\ stack' = <<>>
      /\ asked' = query
  BY DEF Ask
<1>2. g \in Frame /\ g.fn = fn /\ g.at = -1
  BY ContainersAssumption DEF Frame, Call
<1>. HIDE DEF g
<1>3. g \in EdgeFrames(query, defs)
  BY <1>2 DEF EdgeFrames
<1>4. frames' \in Seq(EdgeFrames(query, defs)) /\ Len(frames') = 1
  BY <1>1, <1>3
<1>5. Nested(query, defs, frames')
  <2>1. \A k \in 1..1, i \in 1..1 : ~(k < i)
    OBVIOUS
  <2>. QED
    BY <1>4, <2>1 DEF Nested
<1>6. OnStack(query, defs, frames', stack')
  <2>1. \A p \in 1..Len(stack') : FALSE
    BY <1>1
  <2>. QED
    BY <2>1 DEF OnStack
<1>. QED
  BY <1>1, <1>4, <1>5, <1>6, ResultsDiffer DEF WalkParts

\* Every step.
LEMMA WalkInvNext ==
    ASSUME WellFormed, ZeroInv, WalkInv, [Next]_vars
    PROVE  WalkInv'
<1>1. CASE Validate \/ MaxSerializedSize \/ IsZeroSize
  <2>1. \/ Ask("validate", "validate") \/ Ask("max_size", "size") \/ Ask("zero_size", "zero")
    BY <1>1 DEF Validate, MaxSerializedSize, IsZeroSize
  <2>2. "validate" \in Functions3 /\ "size" \in Functions3 /\ "zero" \in Functions3
    BY DEF Functions3
  <2>. QED
    BY <2>1, <2>2, WalkAsk DEF WalkInv
<1>2. CASE UNCHANGED vars
  BY <1>2 DEF WalkInv, WalkParts, Followed, Top, vars
<1>3. ASSUME defs' = defs, asked' = asked, WalkParts /\ Followed => WalkParts' PROVE WalkInv'
  BY <1>3 DEF WalkInv, Followed
<1>4. ASSUME \/ ZeroEnter \/ ZeroPrimitive \/ ZeroTagged \/ ZeroArray \/ ZeroEach
             \/ SizeEnter \/ SizePrimitive \/ SizeSequence \/ SizeTuple \/ SizeEnum
             \/ ValidateEnter \/ ValidatePrimitive \/ ValidateArray \/ ValidateSequence
             \/ ValidateElements \/ ValidateEach \/ PassOn
      PROVE  defs' = defs /\ asked' = asked
  <2>1. (\E r : ReturnEarly(r) \/ Leave(r)) => defs' = defs /\ asked' = asked
    BY DEF ReturnEarly, Leave, Return
  <2>2. Enter \/ (\E fn, count, acc : CallMember(fn, count, acc)) => defs' = defs /\ asked' = asked
    BY DEF Enter, CallMember
  <2>3. ASSUME NEW n, LeaveSized(n) PROVE defs' = defs /\ asked' = asked
    BY <2>1, <2>3 DEF LeaveSized
  <2>4. CASE ZeroEnter \/ ZeroPrimitive \/ ZeroTagged \/ ZeroArray \/ ZeroEach
    BY <2>1, <2>2, <2>4 DEF ZeroEnter, ZeroPrimitive, ZeroTagged, ZeroArray, ZeroEach
  <2>5. CASE SizeEnter \/ SizePrimitive \/ SizeSequence \/ SizeTuple \/ SizeEnum
    BY <2>1, <2>2, <2>3, <2>5 DEF SizeEnter, SizePrimitive, SizeSequence, SizeTuple, SizeEnum
  <2>6. CASE ValidateEnter \/ ValidatePrimitive \/ ValidateArray \/ ValidateSequence \/ ValidateEach
    BY <2>1, <2>2, <2>6
    DEF ValidateEnter, ValidatePrimitive, ValidateArray, ValidateSequence, ValidateEach
  <2>7. CASE ValidateElements \/ PassOn
    BY <2>1, <2>7 DEF ValidateElements, PassOn
  <2>. QED
    BY <1>4, <2>4, <2>5, <2>6, <2>7
<1>5. CASE ZeroEnter \/ ZeroPrimitive \/ ZeroTagged \/ ZeroArray \/ ZeroEach
  <2>1. ZeroInv'
    BY ZeroInvNext
  <2>. QED
    BY <1>3, <1>4, <1>5, <2>1, WalkZero
<1>6. CASE SizeEnter \/ SizePrimitive \/ SizeSequence \/ SizeTuple \/ SizeEnum
  BY <1>3, <1>4, <1>6, WalkSize
<1>7. CASE ValidateEnter \/ ValidatePrimitive \/ ValidateArray \/ ValidateSequence \/ ValidateEach
  BY <1>3, <1>4, <1>7, WalkValidate
<1>8. CASE PassOn
  <2>. SUFFICES ASSUME WalkParts PROVE WalkParts'
    BY <1>3, <1>4, <1>8
  <2>1. /\ frames # <<>> /\ IsError(result) /\ Return(result)
        /\ ~(Top.fn = "validate" /\ result.is = "Recursive")
    BY <1>8 DEF PassOn, ReturnEarly
  <2>2. ASSUME result.is = "Recursive" PROVE MayMeet(asked, defs, Top.of)
    <3>1. /\ Top \in Frame /\ Top = frames[Len(frames)] /\ IsContainer(defs)
          /\ Top.at \in Nat \cup {-1} /\ Top.fn \in Functions3
          /\ Top.at <= 0 => result = None
          /\ Top.at >= 0 => Top.of \in DOMAIN defs
      BY <2>1, TopFacts DEF WellFormed, Typed
    <3>2. Top.fn \in Walkers /\ Top.at >= 1 /\ Top.of \in DOMAIN defs
      BY <2>1, <2>2, <3>1, ResultsDiffer DEF Functions3, Walkers
    <3>. DEFINE e == Members(defs[Top.of])[Top.at]
    <3>3. Callee(defs, frames) = e
      BY <2>1, <3>1 DEF Callee
    <3>4. Top \in EdgeFrames(asked, defs)
      BY <2>1, FrontLast DEF WalkParts, Top
    <3>5. e \in Edges(asked, defs)[Top.of]
      BY <3>2, <3>4 DEF EdgeFrames
    <3>6. e \in Closure(Edges(asked, defs), Edges(asked, defs)[Top.of])
      BY <3>1, <3>2, <3>5, ClosureHas, EdgesType
    <3>7. MayMeet(asked, defs, e)
      BY <2>2, <3>3 DEF WalkParts
    <3>. QED
      BY <3>1, <3>2, <3>6, <3>7, MeetMember
  <2>. QED
    BY <2>1, <2>2, WalkReturn
<1>9. CASE ValidateElements
  <2>. SUFFICES ASSUME WalkParts PROVE WalkParts'
    BY <1>3, <1>4, <1>9
  <2>. DEFINE n == Len(frames)
              g == Call("validate", Def.of, 1)
  <2>1. frames' = Append(frames, g) /\ result' = None /\ defs' = defs /\ asked' = asked
    BY <1>9 DEF ValidateElements
  <2>2. /\ Len(frames') = n + 1 /\ frames'[n + 1] = g /\ WellFormed' /\ frames # <<>>
        /\ Top.fn = "validate" /\ \A i \in 1..n : frames'[i] = frames[i]
    BY <1>9, ElementsKeeps
  <2>3. n \in Nat \ {0} /\ Top = frames[n]
    BY <2>2, TopFacts
  <2>4. g \in Frame /\ g.fn = "validate"
    <3>1. frames' \in Seq(Frame) /\ n + 1 \in 1..Len(frames')
      BY <2>2, <2>3 DEF WellFormed, Typed
    <3>2. g \in Frame
      BY <2>2, <3>1
    <3>. QED
      BY <3>2 DEF Call
  <2>. HIDE DEF g
  <2>5. g \in EdgeFrames(asked, defs)
    BY <2>4 DEF EdgeFrames, Walkers
  <2>6. frames' \in Seq(EdgeFrames(asked, defs))
    BY <2>1, <2>5 DEF WalkParts
  <2>7. Nested(asked, defs, frames')
    <3>1. \A k \in 1..n : frames[k].fn \notin Walkers
      <4>. SUFFICES ASSUME NEW k \in 1..n, frames[k].fn \in Walkers PROVE FALSE
        OBVIOUS
      <4>1. k = n \/ (k < n /\ n \in 1..n)
        BY <2>3
      <4>2. "validate" \notin Walkers
        BY DEF Walkers
      <4>. QED
        BY <2>2, <2>3, <4>1, <4>2 DEF WalkParts, Nested
    <3>2. \A k \in 1..n + 1 : frames'[k].fn \notin Walkers
      <4>. SUFFICES ASSUME NEW k \in 1..n + 1 PROVE frames'[k].fn \notin Walkers
        OBVIOUS
      <4>1. k \in 1..n \/ k = n + 1
        BY <2>3
      <4>. QED
        BY <2>2, <2>4, <3>1, <4>1 DEF Walkers
    <3>. QED
      BY <2>2, <3>2 DEF Nested
  <2>8. Top'.fn \notin Walkers
    <3>1. Top' = frames'[Len(frames')]
      BY DEF Top, Last
    <3>. QED
      BY <2>2, <2>4, <3>1 DEF Walkers
  <2>. QED
    BY <2>1, <2>6, <2>7, <2>8, ResultsDiffer DEF WalkParts
<1>. QED
  BY <1>1, <1>2, <1>5, <1>6, <1>7, <1>8, <1>9 DEF Next

-----------------------------------------------------------------------------
(* validate: what it has found legal.                                      *)

\* The union of legal sets is legal.
LEMMA GoodIsLegal ==
    ASSUME NEW D, NEW P
    PROVE  Good(D, P) \in Legals(D, P)
<1>1. Good(D, P) \subseteq Declarations
  BY DEF Good, Legals
<1>2. ASSUME NEW e \in Good(D, P) \ P PROVE Legal(D, e) /\ Names(D[e]) \subseteq Good(D, P)
  <2>1. PICK C \in Legals(D, P) : e \in C
    BY <1>2 DEF Good
  <2>2. Legal(D, e) /\ Names(D[e]) \subseteq C
    BY <1>2, <2>1 DEF Legals
  <2>3. C \subseteq Good(D, P)
    BY <2>1 DEF Good
  <2>. QED
    BY <2>2, <2>3
<1>. HIDE DEF Good
<1>. QED
  BY <1>1, <1>2 DEF Legals

\* A declaration whose check ends is legal without being taken for it.
LEMMA GoodLeave ==
    ASSUME NEW D, NEW P, NEW Q, NEW e, P \subseteq Q \cup {e},
           e \in Q \/ (Legal(D, e) /\ Names(D[e]) \subseteq Good(D, P))
    PROVE  Good(D, P) \subseteq Good(D, Q)
<1>1. Good(D, P) \in Legals(D, P)
  BY GoodIsLegal
<1>2. Good(D, P) \in Legals(D, Q)
  <2>. DEFINE C == Good(D, P)
  <2>. SUFFICES ASSUME NEW x \in C \ Q PROVE Legal(D, x) /\ Names(D[x]) \subseteq C
    BY <1>1 DEF Legals
  <2>1. CASE x \in P
    BY <2>1
  <2>2. CASE x \notin P
    BY <1>1, <2>2 DEF Legals
  <2>. QED
    BY <2>1, <2>2
<1>. HIDE DEF Legals
<1>. QED
  BY <1>2 DEF Good

\* What is under way is taken for good until it returns.
LEMMA GoodHas ==
    ASSUME NEW D, NEW P \in SUBSET Declarations
    PROVE  P \subseteq Good(D, P)
<1>1. P \in Legals(D, P)
  BY DEF Legals
<1>. QED
  BY <1>1 DEF Good

\* More good declarations, more good frames.
LEMMA ValidFramesGrow ==
    ASSUME NEW query, NEW D, NEW P, NEW Q, Good(D, P) \subseteq Good(D, Q)
    PROVE  ValidFrames(query, D, P) \subseteq ValidFrames(query, D, Q)
  BY DEF ValidFrames

\* A sequence over a set is one over a larger set.
LEMMA SeqGrow ==
    ASSUME NEW S, NEW T, S \subseteq T, NEW s \in Seq(S)
    PROVE  s \in Seq(T)
  OBVIOUS

\* What is known of the calls, with the declarations of P under way.
ValidParts(query, D, fs, P) ==
    fs \in Seq(ValidFrames(query, D, P)) /\ ElementsOK(D, fs)

\* More good declarations leave the calls as good as they were.
LEMMA ValidPartsGrow ==
    ASSUME NEW query, NEW D, NEW fs, NEW P, NEW Q, Good(D, P) \subseteq Good(D, Q),
           ValidParts(query, D, fs, P)
    PROVE  ValidParts(query, D, fs, Q)
<1>1. ValidFrames(query, D, P) \subseteq ValidFrames(query, D, Q)
  BY ValidFramesGrow
<1>2. fs \in Seq(ValidFrames(query, D, P)) /\ ElementsOK(D, fs)
  BY DEF ValidParts
<1>3. fs \in Seq(ValidFrames(query, D, Q))
  BY <1>1, <1>2, SeqGrow
<1>. QED
  BY <1>2, <1>3 DEF ValidParts

\* The calls that are left when the last one returns.
LEMMA ValidPop ==
    ASSUME WellFormed, frames # <<>>, NEW r, Return(r),
           ValidParts(asked, defs, frames, Under(validating))
    PROVE  ValidParts(asked, defs, frames', Under(validating))
<1>1. /\ frames' = Front(frames)
      /\ Len(frames') = Len(frames) - 1 /\ \A i \in 1..Len(frames') : frames'[i] = frames[i]
  BY PopStep
<1>2. frames' \in Seq(ValidFrames(asked, defs, Under(validating)))
  BY <1>1, FrontLast DEF ValidParts
<1>3. ElementsOK(defs, frames')
  <2>1. Len(frames) \in Nat \ {0} /\ ElementsOK(defs, frames)
    BY TopFacts DEF ValidParts
  <2>. SUFFICES ASSUME NEW i \in 2..Len(frames')
                PROVE  frames'[i].fn = "validate" /\ IsDynamic(defs[frames'[i - 1].of]) =>
                         ElementOK(defs, defs[frames'[i - 1].of].of)
    BY DEF ElementsOK
  <2>2. i \in 2..Len(frames) /\ frames'[i] = frames[i] /\ frames'[i - 1] = frames[i - 1]
    <3>1. Len(frames) \in Nat /\ Len(frames') = Len(frames) - 1
      BY <1>1, <2>1
    <3>2. i \in 1..Len(frames') /\ i - 1 \in 1..Len(frames') /\ i \in 2..Len(frames)
      BY <3>1
    <3>. QED
      BY <1>1, <3>2
  <2>. QED
    BY <2>1, <2>2 DEF ElementsOK
<1>. QED
  BY <1>2, <1>3 DEF ValidParts

\* A walk returns to validate.
LEMMA ValidWalk ==
    ASSUME WellFormed, ValidInv, frames # <<>>, NEW r, Return(r), validating' = validating,
           r # Unit, IsError(result) => r = result
    PROVE  ValidInv'
<1>1. result' = r /\ defs' = defs /\ asked' = asked
  BY PopStep
<1>. SUFFICES ASSUME ~IsError(r) \/ r.is = "Recursive"
              PROVE  ValidParts(asked, defs, frames', Under(validating))
  BY <1>1 DEF ValidInv, ValidParts
<1>2. ~IsError(result) \/ result.is = "Recursive"
  OBVIOUS
<1>3. ValidParts(asked, defs, frames, Under(validating))
  BY <1>2 DEF ValidInv, ValidParts
<1>. QED
  BY <1>3, ValidPop

\* A definite error ends the query, and nothing is claimed of it.
LEMMA ValidFails ==
    ASSUME frames # <<>>, NEW r, Return(r), IsError(r), r.is # "Recursive"
    PROVE  ValidInv'
<1>1. result' = r
  BY DEF Return
<1>. QED
  BY <1>1 DEF ValidInv

\* The declaration is pushed as its call goes on.
LEMMA ValidFound ==
    ASSUME WellFormed, ValidInv, frames # <<>>, Top.at = -1, Enter
    PROVE  ValidInv'
<1>. DEFINE n == Len(frames)
            P == Under(validating)
            Q == Under(validating')
<1>1. /\ n \in Nat \ {0} /\ Top = frames[n] /\ validating \in Seq(Declarations)
      /\ Top.of \in Declarations
  BY TopFacts DEF WellFormed, Typed
<1>2. result' = None /\ result = None /\ defs' = defs /\ asked' = asked
  BY EnterStep
<1>3. PICK f \in Frame :
           /\ frames' = [frames EXCEPT ![n] = f]
           /\ Len(frames') = n /\ frames'[n] = f
           /\ \A i \in 1..n - 1 : frames'[i] = frames[i]
           /\ f.fn = Top.fn /\ f.of = Top.of /\ f.at = 0
  BY EnterStep
<1>4. P \subseteq Q
  <2>1. CASE validating' = validating
    BY <2>1 DEF Under
  <2>2. CASE validating' = Append(validating, Top.of)
    <3>1. /\ Len(validating) \in Nat /\ Len(validating') = Len(validating) + 1
          /\ \A i \in 1..Len(validating) : validating'[i] = validating[i]
      BY <1>1, <2>2
    <3>2. \A i \in 1..Len(validating) : i \in 1..Len(validating')
      BY <3>1
    <3>. QED
      BY <3>1, <3>2 DEF Under
  <2>. QED
    BY <2>1, <2>2 DEF Enter
<1>5. ValidParts(asked, defs, frames, P)
  BY <1>2, ResultsDiffer DEF ValidInv, ValidParts
<1>. HIDE DEF P, Q, n
<1>6. Good(defs, P) \subseteq Good(defs, Q)
  <2>1. P \subseteq Q \cup {"none"} /\ (P \subseteq Q)
    BY <1>4
  <2>2. Good(defs, P) \in Legals(defs, P)
    BY GoodIsLegal
  <2>3. Good(defs, P) \in Legals(defs, Q)
    BY <1>4, <2>2 DEF Legals
  <2>. HIDE DEF Legals
  <2>. QED
    BY <2>3 DEF Good
<1>7. ValidParts(asked, defs, frames, Q)
  BY <1>5, <1>6, ValidPartsGrow
<1>8. f \in ValidFrames(asked, defs, Q)
  <2>1. Top \in ValidFrames(asked, defs, Q)
    BY <1>7, FrontLast DEF ValidParts, Top
  <2>2. f.fn = Top.fn /\ ~(f.at >= 1)
    BY <1>3
  <2>. QED
    BY <2>1, <2>2 DEF ValidFrames
<1>9. frames' \in Seq(ValidFrames(asked, defs, Q))
  BY <1>3, <1>7, <1>8, SetIn DEF ValidParts, n
<1>10. ASSUME NEW i \in 1..n PROVE frames'[i].fn = frames[i].fn /\ frames'[i].of = frames[i].of
  <2>1. i \in 1..n - 1 \/ i = n
    BY <1>1
  <2>. QED
    BY <1>1, <1>3, <2>1
<1>11. ElementsOK(defs, frames')
  <2>. SUFFICES ASSUME NEW i \in 2..n
                PROVE  frames'[i].fn = "validate" /\ IsDynamic(defs[frames'[i - 1].of]) =>
                         ElementOK(defs, defs[frames'[i - 1].of].of)
    BY <1>3 DEF ElementsOK
  <2>1. i \in 1..n /\ i - 1 \in 1..n
    BY <1>1
  <2>. QED
    BY <1>7, <1>10, <2>1 DEF ValidParts, ElementsOK, n
<1>. QED
  BY <1>2, <1>9, <1>11, ResultsDiffer DEF ValidInv, Q
\* validate_impl answers Ok of a declaration whose definition is legal, or was found to be
\* but for those under way.
LEMMA ValidReturns ==
    ASSUME WellFormed, ValidInv, frames # <<>>, Top.fn = "validate", ~IsError(result),
           Return(Unit), Good(defs, Under(validating)) \subseteq Good(defs, Under(validating')),
           Top.of \in Good(defs, Under(validating'))
    PROVE  ValidInv'
<1>. DEFINE n == Len(frames)
            P == Under(validating)
            Q == Under(validating')
<1>1. /\ result' = Unit /\ defs' = defs /\ asked' = asked
      /\ Len(frames') = n - 1 /\ \A i \in 1..Len(frames') : frames'[i] = frames[i]
      /\ Callee(defs, frames') = Top.of
      /\ frames' # <<>> => Top' = frames'[Len(frames')]
      /\ frames' \in Seq(Frame)
  BY PopStep
<1>2. n \in Nat \ {0} /\ Top = frames[n]
  BY TopFacts
<1>3. ValidParts(asked, defs, frames, P)
  BY DEF ValidInv, ValidParts
<1>4. ValidParts(asked, defs, frames', P)
  BY <1>3, ValidPop
<1>5. ValidParts(asked, defs, frames', Q)
  BY <1>4, ValidPartsGrow
<1>6. ASSUME frames' # <<>>, IsDynamic(defs[Top'.of]) PROVE ElementOK(defs, defs[Top'.of].of)
  <2>1. n \in 2..n /\ n - 1 \in 1..Len(frames')
    <3>1. Len(frames') \in Nat \ {0}
      BY <1>1, <1>6
    <3>. QED
      BY <1>1, <1>2, <3>1
  <2>2. Top' = frames[n - 1]
    BY <1>1, <1>6, <2>1
  <2>. QED
    BY <1>2, <1>3, <1>6, <2>1, <2>2 DEF ValidParts, ElementsOK
<1>7. Def' = defs[Top'.of]
  BY <1>1 DEF Def
<1>. QED
  BY <1>1, <1>5, <1>6, <1>7 DEF ValidInv, ValidParts

\* A declaration that is under way is left to the call that checks it.
LEMMA ValidEarly ==
    ASSUME WellFormed, ValidInv, frames # <<>>, Top.fn = "validate", ~IsError(result),
           Contains(validating, Top.of), ReturnEarly(Unit)
    PROVE  ValidInv'
<1>1. validating' = validating /\ Return(Unit) /\ validating \in Seq(Declarations)
  BY DEF ReturnEarly, WellFormed, Typed
<1>2. Top.of \in Under(validating) /\ Under(validating) \in SUBSET Declarations
  BY <1>1 DEF Under, Contains
<1>3. Top.of \in Good(defs, Under(validating))
  BY <1>2, GoodHas
<1>. QED
  BY <1>1, <1>3, ValidReturns

\* The check of a definition ends.
LEMMA ValidLeave ==
    ASSUME WellFormed, ValidInv, frames # <<>>, Top.fn = "validate", ~IsError(result),
           Top.at >= 0, Top.at = Len(Members(Def)), Leave(Unit),
           Def.k = "enum" => Def.width <= 8,
           Top.at >= 1 => result = Unit
    PROVE  ValidInv'
<1>. DEFINE n == Len(frames)
            P == Under(validating)
            Q == Under(validating')
<1>1. /\ n \in Nat \ {0} /\ Top = frames[n] /\ validating \in Seq(Declarations)
      /\ Top.of \in DOMAIN defs /\ IsDefinition(Def) /\ Members(Def) \in Seq(Declarations)
      /\ Top.at \in Nat
  BY TopFacts DEF WellFormed, Typed
<1>2. Return(Unit) /\ validating' = Front(validating)
  BY DEF Leave
<1>3. Len(validating) = n /\ validating[n] = Top.of /\ validating # <<>>
  <2>1. Mirrors(frames, validating)
    BY DEF WellFormed
  <2>2. Len(validating) \in Nat /\ Len(validating) <= n /\ n \in 1..n
    BY <1>1, <2>1 DEF Mirrors
  <2>3. n <= Len(validating)
    BY <1>1, <2>1, <2>2 DEF Mirrors
  <2>4. Len(validating) = n
    BY <1>1, <2>2, <2>3
  <2>. QED
    BY <1>1, <2>1, <2>2, <2>4 DEF Mirrors
<1>4. /\ Len(validating') = n - 1 /\ \A i \in 1..n - 1 : validating'[i] = validating[i]
  BY <1>1, <1>2, <1>3, FrontLast
<1>5. P \subseteq Q \cup {Top.of}
  <2>. SUFFICES ASSUME NEW i \in 1..n PROVE validating[i] \in Q \cup {Top.of}
    BY <1>3 DEF Under
  <2>1. i = n \/ i \in 1..n - 1
    BY <1>1
  <2>. QED
    BY <1>3, <1>4, <2>1 DEF Under
<1>6. ValidParts(asked, defs, frames, P)
  BY DEF ValidInv, ValidParts
<1>7. Top \in ValidFrames(asked, defs, P)
  BY <1>6, FrontLast DEF ValidParts, Top
<1>8. result = Unit => /\ Callee(defs, frames) \in Good(defs, P)
                       /\ IsDynamic(Def) => ElementOK(defs, Def.of)
  BY DEF ValidInv
<1>. HIDE DEF P, Q
<1>9. Legal(defs, Top.of)
  <2>1. ASSUME IsDynamic(Def) PROVE ~IsEmptyRange(Def) /\ WidthFits(Def) /\ ElementOK(defs, Def.of)
    <3>1. Top.at = 1
      BY <1>1, <2>1, MembersType DEF IsDynamic
    <3>. QED
      BY <1>7, <1>8, <2>1, <3>1 DEF ValidFrames, Def
  <2>. QED
    BY <1>1, <2>1 DEF Legal, Def
<1>10. Names(Def) \subseteq Good(defs, P)
  <2>. SUFFICES ASSUME NEW x \in Names(Def) PROVE x \in Good(defs, P)
    OBVIOUS
  <2>1. PICK i \in 1..Len(Members(Def)) : x = Members(Def)[i]
    BY <1>1, MembersType
  <2>2. CASE i = Top.at
    <3>1. Callee(defs, frames) = x /\ result = Unit
      BY <1>1, <2>1, <2>2 DEF Callee, Def
    <3>. QED
      BY <1>8, <3>1
  <2>3. CASE i # Top.at
    <3>1. i \in 1..Top.at - 1 /\ Top.at >= 1
      BY <1>1, <2>1, <2>3
    <3>. QED
      BY <1>7, <2>1, <3>1 DEF ValidFrames, Def
  <2>. QED
    BY <2>2, <2>3
<1>11. Good(defs, P) \subseteq Good(defs, Q)
  BY <1>5, <1>9, <1>10, GoodLeave DEF Def
<1>12. Top.of \in Good(defs, Q)
  <2>1. Top.of \in P /\ P \in SUBSET Declarations
    BY <1>1, <1>3 DEF P, Under
  <2>. QED
    BY <1>11, <2>1, GoodHas
<1>. QED
  BY <1>2, <1>11, <1>12, ValidReturns DEF P, Q

\* A call makes another.
LEMMA ValidPush ==
    ASSUME WellFormed, ValidInv, frames # <<>>, ~IsError(result), Top.at >= 0,
           Top.at < Len(Members(Def)), NEW fn \in Functions3, NEW count \in Nat, NEW acc \in Nat,
           CallMember(fn, count, acc), Calls(defs, Top, fn),
           Top.fn = "validate" =>
              /\ Def.k = "enum" => Def.width <= 8
              /\ Top.at >= 1 => result = Unit
              /\ IsDynamic(Def) => ~IsEmptyRange(Def) /\ WidthFits(Def) /\ fn = "zero"
    PROVE  ValidInv'
<1>. DEFINE n == Len(frames)
            P == Under(validating)
<1>1. /\ n \in Nat \ {0} /\ Top = frames[n] /\ Top \in Frame /\ Top.at \in Nat
      /\ Top.fn \in Functions3
  BY TopFacts
<1>2. /\ result' = None /\ defs' = defs /\ asked' = asked /\ validating' = validating
  BY PushStep
<1>3. PICK f \in Frame, g \in Frame :
           /\ frames' = Append([frames EXCEPT ![Len(frames)] = f], g)
           /\ Len(frames') = Len(frames) + 1
           /\ \A i \in 1..Len(frames) - 1 : frames'[i] = frames[i]
           /\ frames'[Len(frames)] = f /\ frames'[Len(frames) + 1] = g
           /\ f.fn = Top.fn /\ f.of = Top.of /\ f.at = Top.at + 1
           /\ g.fn = fn /\ g.at = -1
  BY PushStep
<1>4. ValidParts(asked, defs, frames, P)
  BY DEF ValidInv, ValidParts
<1>5. Top \in ValidFrames(asked, defs, P)
  BY <1>4, FrontLast DEF ValidParts, Top
<1>6. result = Unit => Callee(defs, frames) \in Good(defs, P)
  BY DEF ValidInv
<1>. HIDE DEF P
<1>7. g \in ValidFrames(asked, defs, P)
  <2>1. fn = "validate" => Top.fn = "validate"
    BY <1>1, CalledByValidate
  <2>2. ~(g.at >= 1)
    BY <1>3
  <2>. QED
    BY <1>3, <1>5, <2>1, <2>2 DEF ValidFrames
<1>8. f \in ValidFrames(asked, defs, P)
  <2>. SUFFICES ASSUME f.fn = "validate"
                PROVE  /\ asked = "validate"
                       /\ \A j \in 1..f.at - 1 : Members(Def)[j] \in Good(defs, P)
    BY <1>3 DEF ValidFrames, Def
  <2>1. asked = "validate"
    BY <1>3, <1>5 DEF ValidFrames
  <2>2. ASSUME NEW j \in 1..f.at - 1 PROVE Members(Def)[j] \in Good(defs, P)
    <3>1. j \in 1..Top.at
      BY <1>1, <1>3
    <3>2. CASE j = Top.at
      <4>1. Callee(defs, frames) = Members(Def)[j] /\ result = Unit
        BY <1>1, <1>3, <3>1, <3>2 DEF Callee, Def
      <4>. QED
        BY <1>6, <4>1
    <3>3. CASE j # Top.at
      <4>1. j \in 1..Top.at - 1 /\ Top.at >= 1
        BY <1>1, <3>1, <3>3
      <4>. QED
        BY <1>3, <1>5, <4>1 DEF ValidFrames, Def
    <3>. QED
      BY <3>2, <3>3
  <2>. QED
    BY <2>1, <2>2
<1>9. frames' \in Seq(ValidFrames(asked, defs, P))
  BY <1>3, <1>4, <1>7, <1>8, PushIn DEF ValidParts
<1>10. ASSUME NEW i \in 1..n PROVE frames'[i].fn = frames[i].fn /\ frames'[i].of = frames[i].of
  <2>1. i \in 1..n - 1 \/ i = n
    BY <1>1
  <2>. QED
    BY <1>1, <1>3, <2>1
<1>11. ElementsOK(defs, frames')
  <2>. SUFFICES ASSUME NEW i \in 2..n + 1
                PROVE  frames'[i].fn = "validate" /\ IsDynamic(defs[frames'[i - 1].of]) =>
                         ElementOK(defs, defs[frames'[i - 1].of].of)
    BY <1>3 DEF ElementsOK
  <2>1. i = n + 1 \/ (i \in 2..n /\ i \in 1..n /\ i - 1 \in 1..n)
    BY <1>1
  <2>2. CASE i = n + 1
    <3>1. frames'[i].fn = fn /\ frames'[i - 1].of = Top.of
      BY <1>1, <1>3, <2>2
    <3>2. fn = "validate" => Top.fn = "validate"
      BY <1>1, CalledByValidate
    <3>. QED
      BY <3>1, <3>2 DEF Def
  <2>3. CASE i \in 2..n /\ i \in 1..n /\ i - 1 \in 1..n
    BY <1>4, <1>10, <2>3 DEF ValidParts, ElementsOK
  <2>. QED
    BY <2>1, <2>2, <2>3
<1>. QED
  BY <1>2, <1>9, <1>11, ResultsDiffer DEF ValidInv, P

\* validate_impl calls itself for the elements of a sequence once is_zero_size has found
\* that they have a byte, or stopped.
LEMMA ValidElements ==
    ASSUME WellFormed, ZeroInv, WalkInv, ValidInv, ValidateElements
    PROVE  ValidInv'
<1>. DEFINE n == Len(frames)
            P == Under(validating)
            g == Call("validate", Def.of, 1)
<1>1. /\ frames' = Append(frames, g) /\ result' = None /\ defs' = defs /\ asked' = asked
      /\ validating' = validating /\ frames # <<>> /\ Top.fn = "validate" /\ Top.at >= 0
      /\ Def.k = "sequence" /\ (result = Sized \/ result.is = "Recursive")
  BY DEF ValidateElements, In
<1>2. /\ n \in Nat \ {0} /\ Top = frames[n] /\ IsDefinition(Def) /\ Top.of \in DOMAIN defs
      /\ Top.at \in 0..Len(Members(Def)) /\ (Top.at <= 0 => result = None)
      /\ frames \in Seq(Frame)
  BY <1>1, TopFacts DEF WellFormed, Typed
<1>3. Callee(defs, frames) = Def.of
  <2>1. Len(Members(Def)) = 1 /\ Members(Def)[1] = Def.of
    BY <1>1, <1>2, MembersType DEF Members
  <2>2. ~(Top.at <= 0)
    BY <1>1, <1>2, ResultsDiffer
  <2>3. Top.at = 1
    BY <1>2, <2>1, <2>2
  <2>. QED
    BY <1>1, <1>2, <2>1, <2>3 DEF Callee, Def
<1>4. ValidParts(asked, defs, frames, P)
  BY <1>1, ResultsDiffer DEF ValidInv, ValidParts
<1>5. Top \in ValidFrames(asked, defs, P)
  BY <1>1, <1>4, FrontLast DEF ValidParts, Top
<1>6. asked = "validate"
  BY <1>1, <1>5 DEF ValidFrames
<1>7. ElementOK(defs, Def.of)
  <2>1. CASE result = Sized
    BY <1>3, <2>1 DEF ZeroInv, ZeroMeans, ElementOK
  <2>2. CASE result.is = "Recursive"
    BY <1>3, <1>6, <2>2 DEF WalkInv, Followed, WalkParts, ElementOK
  <2>. QED
    BY <1>1, <2>1, <2>2
<1>8. g \in Frame /\ g.fn = "validate" /\ g.at = -1
  <2>1. Def.of \in Declarations
    BY <1>1, <1>2 DEF IsDefinition
  <2>. QED
    BY <2>1 DEF Call, Frame, Functions3
<1>. HIDE DEF g, P
<1>9. g \in ValidFrames(asked, defs, P)
  <2>1. ~(g.at >= 1)
    BY <1>8
  <2>. QED
    BY <1>6, <1>8, <2>1 DEF ValidFrames
<1>10. frames' \in Seq(ValidFrames(asked, defs, P))
  BY <1>1, <1>4, <1>9 DEF ValidParts
<1>11. ElementsOK(defs, frames')
  <2>1. Len(frames') = n + 1 /\ \A i \in 1..n : frames'[i] = frames[i]
    BY <1>1, <1>2, <1>8
  <2>. SUFFICES ASSUME NEW i \in 2..n + 1
                PROVE  frames'[i].fn = "validate" /\ IsDynamic(defs[frames'[i - 1].of]) =>
                         ElementOK(defs, defs[frames'[i - 1].of].of)
    BY <2>1 DEF ElementsOK
  <2>2. i = n + 1 \/ (i \in 2..n /\ i \in 1..n /\ i - 1 \in 1..n)
    BY <1>2
  <2>3. CASE i = n + 1
    <3>1. frames'[i - 1] = Top
      BY <1>2, <2>1, <2>3
    <3>. QED
      BY <1>7, <3>1 DEF Def
  <2>4. CASE i \in 2..n /\ i \in 1..n /\ i - 1 \in 1..n
    BY <1>4, <2>1, <2>4 DEF ValidParts, ElementsOK
  <2>. QED
    BY <2>2, <2>3, <2>4
<1>. QED
  BY <1>1, <1>10, <1>11, ResultsDiffer DEF ValidInv, P
\* The calls of is_zero_size_impl and max_serialized_size_impl find nothing legal.
LEMMA ValidWalkers ==
    ASSUME WellFormed, ValidInv,
           \/ ZeroEnter \/ ZeroPrimitive \/ ZeroTagged \/ ZeroArray \/ ZeroEach
           \/ SizeEnter \/ SizePrimitive \/ SizeSequence \/ SizeTuple \/ SizeEnum
    PROVE  ValidInv'
<1>1. frames # <<>> /\ Top.fn \in Walkers /\ Top.fn # "validate" /\ ~IsError(result)
  BY ZeroMoves, SizeMoves DEF Walkers
<1>2. ASSUME NEW e \in ErrorKinds, ReturnEarly(Error(e, Top.of)) PROVE ValidInv'
  <2>1. validating' = validating /\ Return(Error(e, Top.of))
    BY <1>2 DEF ReturnEarly
  <2>2. Error(e, Top.of) # Unit
    BY <1>2, ResultsDiffer DEF ErrorKinds
  <2>. QED
    BY <1>1, <2>1, <2>2, ValidWalk
<1>3. ASSUME NEW r, Leave(r) \/ ReturnEarly(r), r # Unit PROVE ValidInv'
  <2>1. validating' = validating /\ Return(r)
    BY <1>1, <1>3 DEF Leave, ReturnEarly
  <2>. QED
    BY <1>1, <1>3, <2>1, ValidWalk
<1>4. CASE Top.at = -1 /\ Enter
  BY <1>1, <1>4, ValidFound
<1>5. ASSUME NEW fn \in Walkers, NEW count \in Nat, NEW acc \in Nat, Calls(defs, Top, fn),
             Top.at >= 0, Top.at < Len(Members(Def)), CallMember(fn, count, acc)
      PROVE  ValidInv'
  <2>1. fn \in Functions3
    BY <1>5 DEF Walkers, Functions3
  <2>. QED
    BY <1>1, <1>5, <2>1, ValidPush
<1>6. CASE ZeroEnter \/ ZeroPrimitive \/ ZeroTagged \/ ZeroArray \/ ZeroEach
  <2>1. Zero # Unit /\ Sized # Unit
    BY ResultsDiffer
  <2>2. CASE \/ ReturnEarly(Error("Recursive", Top.of))
             \/ ReturnEarly(Error("MissingDefinition", Top.of))
             \/ ReturnEarly(Error("panic", Top.of))
    BY <1>2, <2>2 DEF ErrorKinds
  <2>3. CASE Leave(Zero) \/ ReturnEarly(Zero) \/ Leave(Sized)
    BY <1>3, <2>1, <2>3
  <2>4. CASE Top.at >= 0 /\ Top.at < Len(Members(Def)) /\ CallMember("zero", 1, 0)
    <3>1. Top.fn = "zero"
      BY <1>6, ZeroMoves
    <3>2. Calls(defs, Top, "zero") /\ "zero" \in Walkers /\ 1 \in Nat /\ 0 \in Nat
      BY <3>1 DEF Calls, Walkers
    <3>. QED
      BY <1>5, <2>4, <3>2
  <2>. QED
    BY <1>4, <1>6, <2>2, <2>3, <2>4, ZeroMoves, Zenon
<1>7. CASE SizeEnter \/ SizePrimitive \/ SizeSequence \/ SizeTuple \/ SizeEnum
  <2>1. \A n : Size(n) # Unit
    BY ResultsDiffer
  <2>2. CASE \/ ReturnEarly(Error("Recursive", Top.of))
             \/ ReturnEarly(Error("MissingDefinition", Top.of))
             \/ ReturnEarly(Error("Overflow", Top.of))
    BY <1>2, <2>2 DEF ErrorKinds
  <2>3. CASE \E n \in 0..MaxUsize : Leave(Size(n))
    BY <1>3, <2>1, <2>3
  <2>4. CASE /\ Top.at >= 0 /\ Top.at < Len(Members(Def))
             /\ \E fn \in Walkers, count \in Nat, acc \in Nat :
                  Calls(defs, Top, fn) /\ CallMember(fn, count, acc)
    BY <1>5, <2>4
  <2>. QED
    BY <1>4, <1>7, <2>2, <2>3, <2>4, SizeMoves, Zenon
<1>. QED
  BY <1>6, <1>7

\* Those of validate_impl.
LEMMA ValidValidate ==
    ASSUME WellFormed, ValidInv,
           ValidateEnter \/ ValidatePrimitive \/ ValidateArray \/ ValidateSequence \/ ValidateEach
    PROVE  ValidInv'
<1>1. frames # <<>> /\ Top.fn = "validate" /\ ~IsError(result)
  BY ValidateMoves
<1>2. ASSUME NEW e \in ErrorKinds, e # "Recursive", ReturnEarly(Error(e, Top.of)) PROVE ValidInv'
  <2>1. IsError(Error(e, Top.of)) /\ Error(e, Top.of).is # "Recursive" /\ Return(Error(e, Top.of))
    BY <1>2, ResultsDiffer DEF ReturnEarly
  <2>. QED
    BY <1>1, <2>1, ValidFails
<1>3. CASE Contains(validating, Top.of) /\ ReturnEarly(Unit)
  BY <1>1, <1>3, ValidEarly
<1>4. CASE Top.at = -1 /\ Enter
  BY <1>1, <1>4, ValidFound
<1>5. CASE /\ Top.at >= 0 /\ Top.at = Len(Members(Def)) /\ Leave(Unit)
           /\ Def.k = "enum" => Def.width <= 8
           /\ Top.at >= 1 => result = Unit
  BY <1>1, <1>5, ValidLeave
<1>6. CASE /\ Top.at >= 0 /\ Top.at < Len(Members(Def))
           /\ CallMember("validate", 1, 0)
           /\ ~IsDynamic(Def) /\ (Def.k = "enum" => Def.width <= 8)
           /\ Top.at >= 1 => result = Unit
  <2>1. "validate" \in Functions3 /\ Calls(defs, Top, "validate") /\ 1 \in Nat /\ 0 \in Nat
    BY <1>1 DEF Functions3, Calls
  <2>. QED
    BY <1>1, <1>6, <2>1, ValidPush
<1>7. CASE /\ Top.at = 0 /\ Len(Members(Def)) = 1 /\ CallMember("zero", 1, 0)
           /\ IsDynamic(Def) /\ ~IsEmptyRange(Def) /\ WidthFits(Def)
  <2>1. "zero" \in Functions3 /\ Calls(defs, Top, "zero") /\ 1 \in Nat /\ 0 \in Nat
    BY <1>1, <1>7 DEF Functions3, Calls, Def
  <2>2. Top.at >= 0 /\ Top.at < Len(Members(Def)) /\ ~(Top.at >= 1) /\ Def.k # "enum"
    BY <1>7 DEF IsDynamic
  <2>. QED
    BY <1>1, <1>7, <2>1, <2>2, ValidPush
<1>8. "MissingDefinition" \in ErrorKinds /\ "MissingDefinition" # "Recursive"
      /\ \A e : e \notin {"MissingDefinition", "Recursive", "Overflow"} => e # "Recursive"
  BY DEF ErrorKinds
<1>. QED
  BY <1>2, <1>3, <1>4, <1>5, <1>6, <1>7, <1>8, ValidateMoves, Zenon

\* No call is under way.
LEMMA ValidInvInit ==
    ASSUME Init
    PROVE  ValidInv
<1>1. frames = <<>> /\ Len(frames) = 0 /\ result = None
  BY DEF Init
<1>2. frames \in Seq(ValidFrames(asked, defs, Under(validating)))
  BY <1>1
<1>3. ElementsOK(defs, frames)
  BY <1>1 DEF ElementsOK
<1>. QED
  BY <1>1, <1>2, <1>3, ResultsDiffer DEF ValidInv

\* A query starts with empty stacks.
LEMMA ValidAsk ==
    ASSUME NEW query, NEW fn \in Functions3, fn = "validate" => query = "validate", Ask(query, fn)
    PROVE  ValidInv'
<1>. DEFINE g == Call(fn, Root, 1)
<1>1. frames' = <<g>> /\ result' = None /\ defs' = defs /\ asked' = query
  BY DEF Ask
<1>2. g \in Frame /\ g.fn = fn /\ g.at = -1 /\ ~(g.at >= 1)
  BY ContainersAssumption DEF Frame, Call
<1>. HIDE DEF g
<1>3. g \in ValidFrames(query, defs, Under(validating'))
  BY <1>2 DEF ValidFrames
<1>4. frames' \in Seq(ValidFrames(query, defs, Under(validating'))) /\ Len(frames') = 1
  BY <1>1, <1>3
<1>5. ElementsOK(defs, frames')
  BY <1>4 DEF ElementsOK
<1>. QED
  BY <1>1, <1>4, <1>5, ResultsDiffer DEF ValidInv

\* Every step.
LEMMA ValidInvNext ==
    ASSUME WellFormed, ZeroInv, WalkInv, ValidInv, [Next]_vars
    PROVE  ValidInv'
<1>1. CASE Validate \/ MaxSerializedSize \/ IsZeroSize
  BY <1>1, ValidAsk DEF Validate, MaxSerializedSize, IsZeroSize, Functions3
<1>2. CASE UNCHANGED vars
  BY <1>2 DEF ValidInv, Top, Def, vars
<1>3. CASE PassOn
  <2>1. frames # <<>> /\ IsError(result) /\ Return(result) /\ validating' = validating
    BY <1>3 DEF PassOn, ReturnEarly
  <2>2. result # Unit
    BY <2>1, ResultsDiffer
  <2>. QED
    BY <2>1, <2>2, ValidWalk
<1>4. CASE \/ ZeroEnter \/ ZeroPrimitive \/ ZeroTagged \/ ZeroArray \/ ZeroEach
           \/ SizeEnter \/ SizePrimitive \/ SizeSequence \/ SizeTuple \/ SizeEnum
  BY <1>4, ValidWalkers
<1>5. CASE ValidateEnter \/ ValidatePrimitive \/ ValidateArray \/ ValidateSequence \/ ValidateEach
  BY <1>5, ValidValidate
<1>6. CASE ValidateElements
  BY <1>6, ValidElements
<1>. QED
  BY <1>1, <1>2, <1>3, <1>4, <1>5, <1>6 DEF Next

\* validate: what it accepts is complete, its tags are wide enough, and its sequences of
\* varying length have elements with a byte, those whose walk stops as recursive apart.
THEOREM ValidateIsSound == Spec => []ValidateSound
<1>1. Init => WellFormed /\ ZeroInv /\ WalkInv /\ ValidInv
  BY WellFormedInit, ZeroInvInit, WalkInvInit, ValidInvInit
<1>2. WellFormed /\ ZeroInv /\ WalkInv /\ ValidInv /\ [Next]_vars =>
        (WellFormed /\ ZeroInv /\ WalkInv /\ ValidInv)'
  BY WellFormedNext, ZeroInvNext, WalkInvNext, ValidInvNext
<1>3. WellFormed /\ ValidInv => ValidateSound
  <2>. SUFFICES ASSUME WellFormed, ValidInv, frames = <<>>, result = Unit
                PROVE  /\ Complete
                       /\ \A d \in Known : defs[d].k = "enum" => defs[d].width <= 8
                       /\ \A d \in Known : IsDynamic(defs[d]) =>
                            /\ ~IsEmptyRange(defs[d]) /\ WidthFits(defs[d])
                            /\ defs[d].of \in NonEmpty(defs) \/ MayBeRecursive(defs[d].of)
    BY DEF ValidateSound, Answered
  <2>. DEFINE C == Good(defs, {})
  <2>1. Root \in C
    <3>1. Callee(defs, frames) = Root /\ ~IsError(result)
      BY ResultsDiffer DEF Callee
    <3>2. Under(validating) = {}
      <4>1. Mirrors(frames, validating) /\ validating \in Seq(Declarations)
        BY <3>1 DEF WellFormed, Typed
      <4>2. Len(validating) = 0
        BY <4>1 DEF Mirrors
      <4>. QED
        BY <4>2 DEF Under
    <3>. QED
      BY <3>1, <3>2 DEF ValidInv
  <2>2. C \subseteq Declarations /\ \A d \in C : Legal(defs, d) /\ Names(defs[d]) \subseteq C
    <3>1. C \in Legals(defs, {})
      BY GoodIsLegal
    <3>. HIDE DEF C
    <3>. QED
      BY <3>1 DEF Legals
  <2>. HIDE DEF C
  <2>3. Here \subseteq C
    <3>1. C \in Closed(NameGraph(defs))
      BY <2>2 DEF Closed, NameGraph
    <3>. QED
      BY <2>1, <3>1, ClosureLeast DEF Here, Reached
  <2>4. \A d \in Here : Legal(defs, d)
    BY <2>2, <2>3
  <2>5. Complete
    BY <2>4 DEF Legal, Complete
  <2>6. NoEmptyIn(defs)
    <3>. SUFFICES ASSUME NEW d \in Here, d \in DOMAIN defs, defs[d].k = "sequence",
                         IsEmptyRange(defs[d])
                  PROVE  FALSE
      BY DEF NoEmptyIn, Here
    <3>1. IsDefinition(defs[d])
      BY DEF WellFormed, Typed, IsContainer
    <3>2. ~IsArray(defs[d])
      BY <3>1 DEF IsArray, IsEmptyRange, IsDefinition
    <3>. QED
      BY <2>4, <3>2 DEF Legal, IsDynamic
  <2>7. EmptyArraysOf(defs) = EmptyArrays
    BY DEF EmptyArraysOf, EmptyArrays, Known, Here
  <2>8. ASSUME NEW d \in Known, IsDynamic(defs[d])
        PROVE  defs[d].of \in NonEmpty(defs) \/ MayBeRecursive(defs[d].of)
    <3>1. ElementOK(defs, defs[d].of)
      BY <2>4, <2>8 DEF Legal, Known
    <3>. QED
      BY <2>6, <2>7, <3>1 DEF ElementOK, MayMeet, MayBeRecursive, Edges
  <2>. QED
    BY <2>4, <2>5, <2>8 DEF Legal, Known
<1>. QED
  BY <1>1, <1>2, <1>3, PTL DEF Spec
-----------------------------------------------------------------------------
(* What the errors are about.                                              *)

\* An error about the declaration of the call, with its reason.
LEMMA ErrorSaid ==
    ASSUME WellFormed, frames # <<>>, NEW e \in ErrorKinds, Return(Error(e, Top.of)),
           Reason(defs, Error(e, Top.of))
    PROVE  ErrorInv'
<1>1. result' = Error(e, Top.of) /\ defs' = defs
  BY DEF Return
<1>2. Top.of \in Here
  BY TopFacts
<1>3. Error(e, Top.of).of = Top.of
  BY ResultsDiffer
<1>4. Here' = Here
  BY <1>1 DEF Here
<1>. QED
  BY <1>1, <1>2, <1>3, <1>4 DEF ErrorInv

\* Nothing is claimed of other results.
LEMMA ErrorNone ==
    ASSUME ~IsError(result')
    PROVE  ErrorInv'
  BY DEF ErrorInv

\* The errors that say only whether there is a definition.
LEMMA PlainReasons ==
    ASSUME NEW D, NEW d
    PROVE  /\ d \notin DOMAIN D => Reason(D, Error("MissingDefinition", d))
           /\ d \in DOMAIN D => Reason(D, Error("panic", d)) /\ Reason(D, Error("Overflow", d))
           /\ Reason(D, Error("Recursive", d))
  BY ResultsDiffer DEF Reason, ErrorKinds

\* The steps of the two walks that share a stack.
LEMMA ErrorWalkers ==
    ASSUME WellFormed,
           \/ ZeroEnter \/ ZeroPrimitive \/ ZeroTagged \/ ZeroArray \/ ZeroEach
           \/ SizeEnter \/ SizePrimitive \/ SizeSequence \/ SizeTuple \/ SizeEnum
    PROVE  ErrorInv'
<1>1. frames # <<>> /\ ~IsError(result)
  BY ZeroMoves, SizeMoves
<1>2. ASSUME NEW e \in ErrorKinds, ReturnEarly(Error(e, Top.of)), Reason(defs, Error(e, Top.of))
      PROVE  ErrorInv'
  BY <1>1, <1>2, ErrorSaid DEF ReturnEarly
<1>3. CASE \/ ReturnEarly(Error("Recursive", Top.of))
           \/ Top.of \notin DOMAIN defs /\ ReturnEarly(Error("MissingDefinition", Top.of))
           \/ Top.of \in DOMAIN defs /\ ReturnEarly(Error("panic", Top.of))
           \/ Top.of \in DOMAIN defs /\ ReturnEarly(Error("Overflow", Top.of))
  BY <1>2, <1>3, PlainReasons DEF ErrorKinds
<1>4. ASSUME NEW r, Leave(r) \/ ReturnEarly(r), ~IsError(r) PROVE ErrorInv'
  BY <1>4, ErrorNone DEF Leave, ReturnEarly, Return
<1>5. CASE Enter \/ \E fn, count, acc : CallMember(fn, count, acc)
  BY <1>1, <1>5, ErrorNone, ResultsDiffer DEF Enter, CallMember, IsError
<1>6. CASE Leave(Zero) \/ ReturnEarly(Zero) \/ Leave(Sized) \/ \E n \in 0..MaxUsize : Leave(Size(n))
  BY <1>4, <1>6, ResultsDiffer
<1>7. CASE ZeroEnter \/ ZeroPrimitive \/ ZeroTagged \/ ZeroArray \/ ZeroEach
  BY <1>3, <1>5, <1>6, <1>7, ZeroMoves, Zenon
<1>8. CASE SizeEnter \/ SizePrimitive \/ SizeSequence \/ SizeTuple \/ SizeEnum
  BY <1>3, <1>5, <1>6, <1>8, SizeMoves, Zenon
<1>. QED
  BY <1>7, <1>8

\* The steps of validate_impl.
LEMMA ErrorValidate ==
    ASSUME WellFormed, ZeroInv,
           ValidateEnter \/ ValidatePrimitive \/ ValidateArray \/ ValidateSequence \/ ValidateEach
    PROVE  ErrorInv'
<1>1. frames # <<>> /\ Top.fn = "validate" /\ ~IsError(result)
  BY ValidateMoves
<1>2. CASE Top.of \notin DOMAIN defs /\ ReturnEarly(Error("MissingDefinition", Top.of))
  BY <1>1, <1>2, PlainReasons, ErrorSaid DEF ReturnEarly, ErrorKinds
<1>3. CASE ReturnEarly(Unit) \/ Leave(Unit)
  BY <1>3, ErrorNone, ResultsDiffer DEF Leave, ReturnEarly, Return
<1>4. CASE Enter \/ \E fn, count, acc : CallMember(fn, count, acc)
  BY <1>1, <1>4, ErrorNone, ResultsDiffer DEF Enter, CallMember, IsError
<1>5. CASE /\ Top.of \in DOMAIN defs
           /\ \E e \in ErrorKinds :
                /\ e \notin {"MissingDefinition", "Recursive", "Overflow"}
                /\ ReturnEarly(Error(e, Top.of))
                /\ e = "ZSTSequence" => Def.k = "sequence" /\ Top.at = 1 /\ result = Zero
                /\ e = "EmptyLengthRange" => IsDynamic(Def) /\ IsEmptyRange(Def)
                /\ e \in {"TagTooNarrow", "TagNotPowerOfTwo"} => ~WidthFits(Def)
                /\ e = "TagTooWide" => Def.width > 8
  <2>1. PICK e \in ErrorKinds :
                /\ e \notin {"MissingDefinition", "Recursive", "Overflow"}
                /\ ReturnEarly(Error(e, Top.of))
                /\ e = "ZSTSequence" => Def.k = "sequence" /\ Top.at = 1 /\ result = Zero
                /\ e = "EmptyLengthRange" => IsDynamic(Def) /\ IsEmptyRange(Def)
                /\ e \in {"TagTooNarrow", "TagNotPowerOfTwo"} => ~WidthFits(Def)
                /\ e = "TagTooWide" => Def.width > 8
    BY <1>5
  <2>2. ASSUME e = "ZSTSequence" PROVE IsDynamic(Def) /\ Def.of \notin NonEmpty(defs)
    <3>1. Def.k = "sequence" /\ Top.at = 1 /\ result = Zero
      BY <2>1, <2>2
    <3>2. IsDynamic(Def)
      BY <1>1, <3>1, ResultFound
    <3>3. Top = frames[Len(frames)]
      BY <1>1, TopFacts
    <3>4. Callee(defs, frames) = Def.of
      BY <1>1, <3>1, <3>3 DEF Callee, Members, Def
    <3>. QED
      BY <3>1, <3>2, <3>4 DEF ZeroInv, ZeroMeans
  <2>3. Reason(defs, Error(e, Top.of))
    BY <1>5, <2>1, <2>2, ResultsDiffer DEF Reason, Def
  <2>. QED
    BY <1>1, <2>1, <2>3, ErrorSaid DEF ReturnEarly
<1>. QED
  BY <1>2, <1>3, <1>4, <1>5, ValidateMoves, Zenon

\* Every step.
LEMMA ErrorInvNext ==
    ASSUME WellFormed, ZeroInv, ErrorInv, [Next]_vars
    PROVE  ErrorInv'
<1>1. CASE Validate \/ MaxSerializedSize \/ IsZeroSize \/ ValidateElements
  BY <1>1, ErrorNone, ResultsDiffer
  DEF Validate, MaxSerializedSize, IsZeroSize, ValidateElements, Ask, IsError
<1>2. CASE UNCHANGED vars
  BY <1>2 DEF ErrorInv, Here, vars
<1>3. CASE PassOn
  BY <1>3 DEF PassOn, ReturnEarly, Return, ErrorInv, Here
<1>4. CASE \/ ZeroEnter \/ ZeroPrimitive \/ ZeroTagged \/ ZeroArray \/ ZeroEach
           \/ SizeEnter \/ SizePrimitive \/ SizeSequence \/ SizeTuple \/ SizeEnum
  BY <1>4, ErrorWalkers
<1>5. CASE ValidateEnter \/ ValidatePrimitive \/ ValidateArray \/ ValidateSequence \/ ValidateEach
  BY <1>5, ErrorValidate
<1>. QED
  BY <1>1, <1>2, <1>3, <1>4, <1>5 DEF Next

\* validate: what it refuses is reached, and is what the error says it is.
THEOREM ValidateRefuses == Spec => []ValidateErrors
<1>1. Init => WellFormed /\ ZeroInv /\ ErrorInv
  <2>1. Init => ErrorInv
    BY ResultsDiffer DEF Init, ErrorInv, IsError
  <2>. QED
    BY <2>1, WellFormedInit, ZeroInvInit
<1>2. WellFormed /\ ZeroInv /\ ErrorInv /\ [Next]_vars => (WellFormed /\ ZeroInv /\ ErrorInv)'
  BY WellFormedNext, ZeroInvNext, ErrorInvNext
<1>3. WellFormed /\ ErrorInv => ValidateErrors
  <2>. SUFFICES ASSUME WellFormed, ErrorInv, asked = "validate", frames = <<>>, IsError(result),
                       result.is # "panic"
                PROVE  ValidateErrors
    BY DEF ValidateErrors, Answered
  <2>1. result.is \in ErrorKinds \ {"Recursive", "Overflow", "panic"}
    <3>1. Returned("validate", result)
      BY DEF WellFormed, Returning, FirstCall
    <3>2. result # Unit
      BY ResultsDiffer
    <3>. QED
      BY <3>1, <3>2 DEF Returned
  <2>2. result.of \in Here /\ Reason(defs, result)
    BY DEF ErrorInv
  <2>3. result.is = "MissingDefinition" <=> result.of \notin DOMAIN defs
    BY <2>1, <2>2 DEF Reason
  <2>4. ASSUME result.of \in DOMAIN defs
        PROVE  LET def == defs[result.of]
               IN  CASE result.is = "ZSTSequence" ->
                        IsDynamic(def) /\ def.of \notin NonEmpty(defs)
                     [] result.is = "EmptyLengthRange" -> IsDynamic(def) /\ IsEmptyRange(def)
                     [] result.is \in {"TagTooNarrow", "TagNotPowerOfTwo"} -> ~WidthFits(def)
                     [] result.is = "TagTooWide" -> def.width > 8
                     [] OTHER -> FALSE
    <3>. DEFINE def == defs[result.of]
    <3>1. result.is \in {"ZSTSequence", "EmptyLengthRange", "TagTooNarrow", "TagNotPowerOfTwo",
                         "TagTooWide"}
      BY <2>1, <2>3, <2>4 DEF ErrorKinds
    <3>2. /\ result.is = "ZSTSequence" => IsDynamic(def) /\ def.of \notin NonEmpty(defs)
          /\ result.is = "EmptyLengthRange" => IsDynamic(def) /\ IsEmptyRange(def)
          /\ result.is \in {"TagTooNarrow", "TagNotPowerOfTwo"} => ~WidthFits(def)
          /\ result.is = "TagTooWide" => def.width > 8
      BY <2>2 DEF Reason, def
    <3>3. CASE result.is = "ZSTSequence"
      BY <3>2, <3>3
    <3>4. CASE result.is = "EmptyLengthRange"
      BY <3>2, <3>4
    <3>5. CASE result.is \in {"TagTooNarrow", "TagNotPowerOfTwo"}
      BY <3>2, <3>5
    <3>6. CASE result.is = "TagTooWide"
      BY <3>2, <3>6
    <3>. QED
      BY <3>1, <3>3, <3>4, <3>5, <3>6
  <2>. QED
    BY <2>2, <2>3, <2>4 DEF ValidateErrors
<1>. QED
  BY <1>1, <1>2, <1>3, PTL DEF Spec
-----------------------------------------------------------------------------
(* max_serialized_size: what its answers and its overflows mean.           *)

\* A return whose answer means what it says, for max_serialized_size_impl.
LEMMA SizeReturn ==
    ASSUME WellFormed, SizeInv, frames # <<>>, NEW r, Return(r),
           SizeMeans(defs, Top.of, Top.count, r)
    PROVE  SizeInv'
<1>1. /\ frames' = Front(frames) /\ result' = r /\ defs' = defs
      /\ Callee(defs, frames') = Top.of /\ CalleeTimes(defs, frames') = Top.count
  BY PopStep
<1>2. frames' \in Seq(SizeFrames(defs))
  BY <1>1, FrontLast DEF SizeInv
<1>. QED
  BY <1>1, <1>2 DEF SizeInv

\* Only max_serialized_size_impl answers a size, and Overflow.
LEMMA SizeOthers ==
    ASSUME NEW D, NEW d, NEW times, NEW r, r.is \notin {"size", "Overflow"}
    PROVE  SizeMeans(D, d, times, r)
  BY DEF SizeMeans

\* The definition was found: no member was counted yet.
LEMMA SizeFound ==
    ASSUME WellFormed, SizeInv, frames # <<>>, Top.at = -1, Enter
    PROVE  SizeInv'
<1>1. result' = None /\ defs' = defs
  BY EnterStep
<1>2. PICK f \in Frame : /\ frames' = [frames EXCEPT ![Len(frames)] = f]
                         /\ f.at = 0 /\ f.acc = Top.acc /\ f.fn = Top.fn
  BY EnterStep
<1>3. Top \in SizeFrames(defs)
  BY FrontLast DEF SizeInv, Top
<1>4. f \in SizeFrames(defs)
  BY <1>2, <1>3 DEF SizeFrames
<1>5. frames' \in Seq(SizeFrames(defs))
  BY <1>2, <1>4, SetIn DEF SizeInv
<1>. QED
  BY <1>1, <1>5, ResultsDiffer, SizeOthers DEF SizeInv

\* A call goes on to the next of its members.
LEMMA SizePush ==
    ASSUME WellFormed, SizeInv, frames # <<>>, Top.at >= 0, Top.at < Len(Members(Def)),
           NEW fn \in Functions3, NEW count \in Nat, NEW acc \in Nat, CallMember(fn, count, acc),
           Top.fn = "size" =>
              /\ \A j \in 1..Top.at : Bounded(defs, Members(Def)[j])
              /\ Def.k = "sequence" => Def.hi # 0
              /\ Def.k = "tuple" => SumOK(defs, [Top EXCEPT !.at = Top.at + 1, !.acc = acc])
              /\ Def.k = "enum" => MaxOK(defs, [Top EXCEPT !.at = Top.at + 1, !.acc = acc])
    PROVE  SizeInv'
<1>. DEFINE h == [Top EXCEPT !.at = Top.at + 1, !.acc = acc]
<1>1. result' = None /\ defs' = defs
  BY PushStep
<1>2. PICK f \in Frame, g \in Frame :
           /\ frames' = Append([frames EXCEPT ![Len(frames)] = f], g)
           /\ f.fn = Top.fn /\ f.of = Top.of /\ f.count = Top.count
           /\ f.at = Top.at + 1 /\ f.acc = acc /\ g.at = -1 /\ g.acc = 0
  BY PushStep
<1>3. Top \in Frame /\ Top.at \in Nat
  BY TopFacts
<1>4. g \in SizeFrames(defs)
  <2>1. ~(g.at >= 1)
    BY <1>2
  <2>. QED
    BY <1>2, <2>1 DEF SizeFrames
<1>5. f = h
  <2>1. /\ h \in Frame /\ h.fn = Top.fn /\ h.of = Top.of /\ h.count = Top.count
        /\ h.at = Top.at + 1 /\ h.acc = acc
    <3>1. Top.at + 1 \in Nat
      BY <1>3
    <3>. QED
      BY <1>3, <3>1 DEF Frame
  <2>. HIDE DEF h
  <2>. QED
    BY <1>2, <2>1 DEF Frame
<1>6. f \in SizeFrames(defs)
  <2>1. ~(f.at <= 0) /\ f.at - 1 = Top.at
    BY <1>2, <1>3
  <2>. QED
    BY <1>2, <1>5, <2>1 DEF SizeFrames, Def
<1>7. frames' \in Seq(SizeFrames(defs))
  BY <1>2, <1>4, <1>6, PushIn DEF SizeInv
<1>. QED
  BY <1>1, <1>7, ResultsDiffer, SizeOthers DEF SizeInv

\* How the length of a declaration is made of those of its members.
LEMMA LongestIs ==
    ASSUME NEW D, IsContainer(D), NEW d \in Declarations, Bounded(D, d)
    PROVE  /\ d \in DOMAIN D /\ Longest(D, d) \in Nat /\ LongestLengths(D) \in Lengths
           /\ D[d].k = "primitive" => Longest(D, d) = D[d].size
           /\ D[d].k = "sequence" =>
                Longest(D, d) = D[d].width
                                + (IF D[d].hi = 0 THEN 0 ELSE D[d].hi * Longest(D, D[d].of))
           /\ D[d].k = "tuple" => Longest(D, d) = TotalLength(D[d].of, LongestLengths(D))
           /\ D[d].k = "enum" =>
                Longest(D, d) = D[d].width + Max(MemberLengths(D[d], LongestLengths(D)))
<1>. DEFINE def == D[d]
            len == LongestLengths(D)
<1>1. /\ d \in DOMAIN D /\ len \in Lengths /\ Longest(D, d) = LongestOf(def, len)
      /\ IsDefinition(def) /\ LongestOf(def, len) \in Nat
  BY LongestUnfold, LongestOfType DEF IsContainer
<1>2. \A e \in Declarations : len[e] = Longest(D, e)
  BY DEF LongestLengths
<1>. HIDE DEF def, len
<1>3. def.k = "sequence" => def.of \in Declarations
  BY <1>1 DEF IsDefinition
<1>4. /\ def.k = "primitive" => LongestOf(def, len) = def.size
      /\ def.k = "sequence" =>
           LongestOf(def, len) = def.width + (IF def.hi = 0 THEN 0 ELSE def.hi * len[def.of])
      /\ def.k = "tuple" => LongestOf(def, len) = TotalLength(def.of, len)
      /\ def.k = "enum" => LongestOf(def, len) = def.width + Max(MemberLengths(def, len))
  BY DEF LongestOf, MemberLengths
<1>. QED
  BY <1>1, <1>2, <1>3, <1>4 DEF def, len

\* checked_add and checked_mul of the length of a declaration, or of what is less.
LEMMA SizeAnswers ==
    ASSUME WellFormed, SizeInv, frames # <<>>, Top.fn = "size", NEW n \in Nat,
           LeaveSized(n), Bounded(defs, Top.of),
           n <= Top.count * Longest(defs, Top.of),
           ~RepeatsEnumIn(defs) => n = Top.count * Longest(defs, Top.of)
    PROVE  SizeInv'
<1>1. Top.count \in Nat /\ MaxUsize \in Nat /\ Longest(defs, Top.of) \in Nat
  BY TopFacts, LongestIs, SchemaAssumption DEF WellFormed, Typed
<1>. DEFINE most == Top.count * Longest(defs, Top.of)
<1>2. most \in Nat
  BY <1>1
<1>. HIDE DEF most
<1>3. CASE n > MaxUsize
  <2>1. Return(Error("Overflow", Top.of))
    BY <1>3 DEF LeaveSized, ReturnEarly
  <2>2. most > MaxUsize
    BY <1>1, <1>2, <1>3 DEF most
  <2>3. SizeMeans(defs, Top.of, Top.count, Error("Overflow", Top.of))
    BY <2>2, ResultsDiffer DEF SizeMeans, most
  <2>. QED
    BY <2>1, <2>3, SizeReturn
<1>4. CASE ~(n > MaxUsize)
  <2>1. Return(Size(n))
    BY <1>4 DEF LeaveSized, Leave
  <2>2. SizeMeans(defs, Top.of, Top.count, Size(n))
    BY ResultsDiffer DEF SizeMeans
  <2>. QED
    BY <2>1, <2>2, SizeReturn
<1>. QED
  BY <1>3, <1>4

\* A sum that is already longer than usize counts is of a longer declaration.
LEMMA SizeOverflows ==
    ASSUME WellFormed, SizeInv, frames # <<>>, ReturnEarly(Error("Overflow", Top.of)),
           NoEmptyIn(defs) /\ Bounded(defs, Top.of) => Longest(defs, Top.of) > MaxUsize
    PROVE  SizeInv'
<1>1. Top.count \in Nat \ {0} /\ MaxUsize \in Nat /\ Top.of \in Declarations
  BY TopFacts, SchemaAssumption
<1>2. ASSUME NoEmptyIn(defs), Bounded(defs, Top.of)
      PROVE  Top.count * Longest(defs, Top.of) > MaxUsize
  <2>1. Longest(defs, Top.of) \in Nat /\ Longest(defs, Top.of) > MaxUsize
    BY <1>1, <1>2, LongestIs DEF WellFormed, Typed
  <2>2. /\ Top.count * Longest(defs, Top.of) \in Nat
        /\ Longest(defs, Top.of) <= Top.count * Longest(defs, Top.of)
    BY <1>1, <2>1, TimesAtLeast
  <2>. QED
    BY <1>1, <2>1, <2>2
<1>3. SizeMeans(defs, Top.of, Top.count, Error("Overflow", Top.of))
  BY <1>2, ResultsDiffer DEF SizeMeans
<1>. QED
  BY <1>3, SizeReturn DEF ReturnEarly
\* The loops over the members of a tuple and of an enum.
LEMMA LoopFacts ==
    ASSUME WellFormed, SizeInv, frames # <<>>, Top.fn = "size", Top.at >= 0, ~IsError(result),
           Def.k \in {"tuple", "enum"}
    PROVE  /\ IsContainer(defs) /\ Top \in Frame /\ Top \in SizeFrames(defs)
           /\ Top.of \in DOMAIN defs /\ Top.of \in Declarations /\ IsDefinition(Def)
           /\ Members(Def) = Def.of /\ Def.of \in Seq(Declarations) /\ Top.at \in 0..Len(Def.of)
           /\ Top.acc \in Nat /\ result.n \in Nat /\ Top.count \in Nat \ {0}
           /\ \A j \in 1..Top.at : /\ Def.of[j] \in Declarations /\ Bounded(defs, Def.of[j])
                                   /\ Longest(defs, Def.of[j]) \in Nat
           /\ Top.at >= 1 =>
                /\ result.n <= Longest(defs, Def.of[Top.at])
                /\ ~RepeatsEnumIn(defs) => result.n = Longest(defs, Def.of[Top.at])
           /\ Top.at = 0 => result.n = 0 /\ Top.acc = 0
<1>1. /\ IsContainer(defs) /\ Top \in Frame /\ Top.of \in DOMAIN defs /\ Top.of \in Declarations
      /\ IsDefinition(Def) /\ Top.at \in 0..Len(Members(Def)) /\ Members(Def) \in Seq(Declarations)
      /\ Top.acc \in Nat /\ result.n \in Nat /\ Top.count \in Nat \ {0}
      /\ Top = frames[Len(frames)]
  BY TopFacts DEF WellFormed, Typed, Results
<1>2. Members(Def) = Def.of
  BY <1>1, MembersType
<1>3. Top \in SizeFrames(defs)
  BY FrontLast DEF SizeInv, Top
<1>4. Top.at = 0 => result.n = 0 /\ Top.acc = 0
  <2>1. Top.at = 0 => result = None
    BY TopFacts
  <2>. QED
    BY <1>3, <2>1, ResultsDiffer DEF SizeFrames
<1>5. ASSUME Top.at >= 1
      PROVE  /\ Bounded(defs, Def.of[Top.at])
             /\ result.n <= 1 * Longest(defs, Def.of[Top.at])
             /\ ~RepeatsEnumIn(defs) => result.n = 1 * Longest(defs, Def.of[Top.at])
  <2>1. Callee(defs, frames) = Def.of[Top.at] /\ CalleeTimes(defs, frames) = 1
    BY <1>1, <1>2 DEF Callee, CalleeTimes, Times, Def
  <2>2. ~(Top.at <= 0)
    BY <1>1, <1>5
  <2>3. result = Size(result.n)
    BY <2>2, ResultFound
  <2>4. result.is = "size"
    BY <2>3, ResultsDiffer
  <2>. QED
    BY <2>1, <2>4 DEF SizeInv, SizeMeans
<1>6. ASSUME NEW j \in 1..Top.at
      PROVE  /\ Def.of[j] \in Declarations /\ Bounded(defs, Def.of[j])
             /\ Longest(defs, Def.of[j]) \in Nat
  <2>1. j \in 1..Len(Def.of) /\ Top.at >= 1 /\ (j = Top.at \/ j \in 1..Top.at - 1)
    BY <1>1, <1>2
  <2>2. Bounded(defs, Def.of[j])
    BY <1>2, <1>3, <1>5, <2>1 DEF SizeFrames, Def
  <2>3. Def.of[j] \in Declarations
    BY <1>1, <1>2, <2>1
  <2>. QED
    BY <1>1, <2>2, <2>3, LongestIs
<1>7. Top.at >= 1 =>
        /\ result.n <= Longest(defs, Def.of[Top.at])
        /\ ~RepeatsEnumIn(defs) => result.n = Longest(defs, Def.of[Top.at])
  <2>. SUFFICES ASSUME Top.at >= 1
                PROVE  /\ result.n <= Longest(defs, Def.of[Top.at])
                       /\ ~RepeatsEnumIn(defs) => result.n = Longest(defs, Def.of[Top.at])
    OBVIOUS
  <2>1. Longest(defs, Def.of[Top.at]) \in Nat
    BY <1>1, <1>6
  <2>. QED
    BY <1>5, <2>1
<1>. QED
  BY <1>1, <1>2, <1>3, <1>4, <1>6, <1>7

\* All the members have a longest encoding: so has the definition.
LEMMA LoopEnds ==
    ASSUME WellFormed, SizeInv, frames # <<>>, Top.fn = "size", Top.at >= 0, ~IsError(result),
           Def.k \in {"tuple", "enum"}, Top.at = Len(Def.of)
    PROVE  Bounded(defs, Top.of)
<1>1. /\ IsContainer(defs) /\ Top.of \in DOMAIN defs /\ IsDefinition(Def)
      /\ Members(Def) = Def.of /\ \A j \in 1..Top.at : Bounded(defs, Def.of[j])
  BY LoopFacts
<1>2. ASSUME NEW e \in SizeGraph(defs)[Top.of] PROVE Bounded(defs, e)
  <2>1. e \in Names(Def)
    BY <1>1, <1>2 DEF SizeGraph, Def
  <2>2. PICK i \in 1..Len(Members(Def)) : e = Members(Def)[i]
    BY <1>1, <2>1, MembersType
  <2>. QED
    BY <1>1, <2>2
<1>. QED
  BY <1>1, <1>2, BoundedUp

\* The sum so far.
LEMMA SizeOfTuple ==
    ASSUME WellFormed, SizeInv, SizeTuple
    PROVE  SizeInv'
<1>. DEFINE sum == Top.acc + result.n
            len == LongestLengths(defs)
            S == Sums(Def.of, len)
<1>1. frames # <<>> /\ Top.fn = "size" /\ Top.at >= 0 /\ ~IsError(result) /\ Def.k = "tuple"
  BY DEF SizeTuple, Inside, In
<1>2. /\ IsContainer(defs) /\ Top \in Frame /\ Top \in SizeFrames(defs)
      /\ Top.of \in DOMAIN defs /\ Top.of \in Declarations
      /\ Members(Def) = Def.of /\ Def.of \in Seq(Declarations) /\ Top.at \in 0..Len(Def.of)
      /\ Top.acc \in Nat /\ result.n \in Nat /\ Top.count \in Nat \ {0}
      /\ \A j \in 1..Top.at : /\ Def.of[j] \in Declarations /\ Bounded(defs, Def.of[j])
                              /\ Longest(defs, Def.of[j]) \in Nat
      /\ Top.at >= 1 => /\ result.n <= Longest(defs, Def.of[Top.at])
                        /\ ~RepeatsEnumIn(defs) => result.n = Longest(defs, Def.of[Top.at])
      /\ Top.at = 0 => result.n = 0 /\ Top.acc = 0
  BY <1>1, LoopFacts
<1>3. len \in Lengths
  BY <1>2, WithinExists
<1>4. /\ S \in [0..Len(Def.of) -> Nat] /\ S[0] = 0
      /\ \A i \in 1..Len(Def.of) : S[i] = S[i - 1] + len[Def.of[i]]
      /\ TotalLength(Def.of, len) = S[Len(Def.of)]
      /\ S[Top.at] <= TotalLength(Def.of, len)
  BY <1>2, <1>3, SumsExist, SumsGrow DEF IsSums
<1>5. sum \in Nat /\ sum <= S[Top.at] /\ (~RepeatsEnumIn(defs) => sum = S[Top.at])
  <2>1. CASE Top.at = 0
    <3>1. result.n = 0 /\ Top.acc = 0 /\ S[Top.at] = 0
      BY <1>2, <1>4, <2>1
    <3>. HIDE DEF S
    <3>. QED
      BY <3>1
  <2>2. CASE Top.at # 0
    <3>1. /\ Top.at >= 1 /\ Top.at \in 1..Top.at /\ Top.at \in 1..Len(Def.of)
          /\ Top.at - 1 \in 0..Len(Def.of)
      BY <1>2, <2>2
    <3>2. S[Top.at] = S[Top.at - 1] + len[Def.of[Top.at]] /\ S[Top.at - 1] \in Nat
      BY <1>4, <3>1
    <3>3. /\ len[Def.of[Top.at]] = Longest(defs, Def.of[Top.at])
          /\ Longest(defs, Def.of[Top.at]) \in Nat
      <4>1. \A e \in Declarations : len[e] = Longest(defs, e)
        BY DEF LongestLengths
      <4>. HIDE DEF len
      <4>. QED
        BY <1>2, <3>1, <4>1
    <3>4. Top.acc <= S[Top.at - 1] /\ (~RepeatsEnumIn(defs) => Top.acc = S[Top.at - 1])
      BY <1>1, <1>2, <3>1 DEF SizeFrames, SumOK, Def
    <3>. HIDE DEF S, len
    <3>. QED
      BY <1>2, <3>1, <3>2, <3>3, <3>4
  <2>. QED
    BY <2>1, <2>2
<1>6. CASE sum > MaxUsize /\ ReturnEarly(Error("Overflow", Top.of))
  <2>1. ASSUME Bounded(defs, Top.of) PROVE Longest(defs, Top.of) > MaxUsize
    <3>1. Longest(defs, Top.of) = TotalLength(Def.of, len) /\ Longest(defs, Top.of) \in Nat
      BY <1>1, <1>2, <2>1, LongestIs DEF Def
    <3>2. S[Top.at] \in Nat /\ MaxUsize \in Nat
      BY <1>2, <1>4, SchemaAssumption
    <3>. HIDE DEF S, len, sum
    <3>. QED
      BY <1>4, <1>5, <1>6, <3>1, <3>2
  <2>. QED
    BY <1>1, <1>6, <2>1, SizeOverflows
<1>7. CASE Top.at < Len(Def.of) /\ CallMember("size", 1, sum)
  <2>. DEFINE h == [Top EXCEPT !.at = Top.at + 1, !.acc = sum]
  <2>1. h.of = Top.of /\ h.at - 1 = Top.at /\ h.acc = sum
    BY <1>2 DEF Frame
  <2>. HIDE DEF h, sum
  <2>2. SumOK(defs, h)
    BY <1>5, <2>1 DEF SumOK, Def
  <2>3. "size" \in Functions3 /\ 1 \in Nat
    BY DEF Functions3
  <2>. QED
    BY <1>1, <1>2, <1>5, <1>7, <2>2, <2>3, SizePush DEF h
<1>8. CASE Top.at = Len(Def.of) /\ LeaveSized(Top.count * sum)
  <2>1. Bounded(defs, Top.of)
    BY <1>1, <1>8, LoopEnds
  <2>2. Longest(defs, Top.of) = S[Top.at] /\ Longest(defs, Top.of) \in Nat
    BY <1>1, <1>2, <1>4, <1>8, <2>1, LongestIs DEF Def
  <2>. HIDE DEF S, len, sum
  <2>3. /\ Top.count * sum \in Nat
        /\ Top.count * sum <= Top.count * Longest(defs, Top.of)
        /\ ~RepeatsEnumIn(defs) => Top.count * sum = Top.count * Longest(defs, Top.of)
    BY <1>2, <1>5, <2>2, TimesGrows
  <2>. QED
    BY <1>1, <1>8, <2>1, <2>3, SizeAnswers
<1>. QED
  BY <1>6, <1>7, <1>8 DEF SizeTuple
\* Only the enums that a sequence repeats are called with a count.
LEMMA EnumCount ==
    ASSUME WellFormed, frames # <<>>, Top.at >= 0, Def.k = "enum", ~RepeatsEnumIn(defs)
    PROVE  Top.count = 1
<1>. DEFINE n == Len(frames)
            caller == frames[n - 1]
            seq == defs[caller.of]
<1>1. /\ n \in Nat \ {0} /\ Top = frames[n] /\ IsContainer(defs) /\ frames \in Seq(Frame)
      /\ Top.of \in Here /\ Top.of \in DOMAIN defs /\ Top.count \in Nat \ {0}
      /\ Chain(asked, defs, frames)
  BY TopFacts DEF WellFormed, Typed
<1>2. CASE n = 1
  BY <1>1, <1>2 DEF Chain
<1>3. CASE n # 1
  <2>1. n \in 2..n /\ n - 1 \in 1..n /\ caller \in Frame
    <3>1. n \in 2..n /\ n - 1 \in 1..n
      <4>. HIDE DEF n
      <4>. QED
        BY <1>1, <1>3
    <3>. QED
      BY <1>1, <3>1
  <2>2. /\ FrameOK(defs, caller) /\ caller.at >= 1 /\ caller.at \in Nat \cup {-1}
        /\ Top.of = Members(seq)[caller.at] /\ Top.count = Times(defs, caller)
    BY <1>1, <2>1 DEF Chain, Called, Frame
  <2>3. /\ caller.of \in Here /\ caller.of \in DOMAIN defs /\ caller.at <= Len(Members(seq))
        /\ IsDefinition(seq)
    BY <1>1, <2>2 DEF FrameOK, Here, IsContainer
  <2>4. CASE seq.k = "sequence" /\ Top.count = seq.hi
    <3>1. Len(Members(seq)) = 1 /\ Members(seq)[1] = seq.of
      BY <2>3, <2>4, MembersType DEF Members
    <3>2. caller.at = 1
      BY <2>2, <2>3, <3>1
    <3>3. Top.of = seq.of
      BY <2>2, <3>1, <3>2
    <3>. HIDE DEF seq
    <3>4. ~(seq.hi > 1)
      BY <1>1, <2>3, <2>4, <3>3 DEF RepeatsEnumIn, Here, Def, seq
    <3>. QED
      BY <1>1, <2>4, <3>4
  <2>5. CASE ~(seq.k = "sequence" /\ Top.count = seq.hi)
    BY <2>2, <2>5 DEF Times
  <2>. QED
    BY <2>4, <2>5
<1>. QED
  BY <1>2, <1>3

\* The longest variant so far.
LEMMA SizeOfEnum ==
    ASSUME WellFormed, SizeInv, SizeEnum
    PROVE  SizeInv'
<1>. DEFINE longest == IF Top.acc < result.n THEN result.n ELSE Top.acc
            len == LongestLengths(defs)
            L(j) == Longest(defs, Def.of[j])
            most == Max(MemberLengths(Def, len))
<1>1. frames # <<>> /\ Top.fn = "size" /\ Top.at >= 0 /\ ~IsError(result) /\ Def.k = "enum"
  BY DEF SizeEnum, Inside, In
<1>2. /\ IsContainer(defs) /\ Top \in Frame /\ Top \in SizeFrames(defs)
      /\ Top.of \in DOMAIN defs /\ Top.of \in Declarations /\ IsDefinition(Def)
      /\ Members(Def) = Def.of /\ Def.of \in Seq(Declarations) /\ Top.at \in 0..Len(Def.of)
      /\ Top.acc \in Nat /\ result.n \in Nat /\ Top.count \in Nat \ {0}
      /\ \A j \in 1..Top.at : /\ Def.of[j] \in Declarations /\ Bounded(defs, Def.of[j])
                              /\ L(j) \in Nat
      /\ Top.at >= 1 => /\ result.n <= L(Top.at)
                        /\ ~RepeatsEnumIn(defs) => result.n = L(Top.at)
      /\ Top.at = 0 => result.n = 0 /\ Top.acc = 0
  BY <1>1, LoopFacts
<1>3. /\ longest \in Nat
      /\ longest = 0 \/ \E j \in 1..Top.at : longest <= L(j)
      /\ ~RepeatsEnumIn(defs) => \A j \in 1..Top.at : L(j) <= longest
  <2>. HIDE DEF L
  <2>1. CASE Top.at = 0
    BY <1>2, <2>1
  <2>2. CASE Top.at # 0
    <3>1. Top.at >= 1 /\ Top.at \in 1..Top.at /\ Top.at \in Nat /\ L(Top.at) \in Nat
      BY <1>2, <2>2
    <3>2. /\ Top.acc = 0 \/ \E j \in 1..Top.at - 1 : Top.acc <= L(j)
          /\ ~RepeatsEnumIn(defs) => \A j \in 1..Top.at - 1 : L(j) <= Top.acc
      BY <1>1, <1>2, <3>1 DEF SizeFrames, MaxOK, Def, L
    <3>3. longest \in Nat /\ Top.acc <= longest /\ result.n <= longest
          /\ longest \in {Top.acc, result.n}
      BY <1>2
    <3>4. longest = 0 \/ \E j \in 1..Top.at : longest <= L(j)
      <4>1. CASE longest = result.n
        BY <1>2, <3>1, <4>1
      <4>2. CASE longest = Top.acc
        <5>. HIDE DEF longest
        <5>1. \A j \in 1..Top.at - 1 : j \in 1..Top.at
          BY <3>1
        <5>. QED
          BY <3>2, <4>2, <5>1
      <4>. QED
        BY <3>3, <4>1, <4>2
    <3>5. ASSUME ~RepeatsEnumIn(defs), NEW j \in 1..Top.at PROVE L(j) <= longest
      <4>. HIDE DEF longest
      <4>1. j = Top.at \/ j \in 1..Top.at - 1
        BY <3>1
      <4>2. L(j) \in Nat
        BY <1>2
      <4>. QED
        BY <1>2, <3>1, <3>2, <3>3, <3>5, <4>1, <4>2
    <3>. QED
      BY <3>3, <3>4, <3>5
  <2>. QED
    BY <2>1, <2>2
<1>4. CASE Top.at < Len(Def.of) /\ CallMember("size", 1, longest)
  <2>. DEFINE h == [Top EXCEPT !.at = Top.at + 1, !.acc = longest]
  <2>1. h.of = Top.of /\ h.at - 1 = Top.at /\ h.acc = longest
    BY <1>2 DEF Frame
  <2>. HIDE DEF h, longest
  <2>2. MaxOK(defs, h)
    BY <1>3, <2>1 DEF MaxOK, Def
  <2>3. "size" \in Functions3 /\ 1 \in Nat
    BY DEF Functions3
  <2>. QED
    BY <1>1, <1>2, <1>3, <1>4, <2>2, <2>3, SizePush DEF h
<1>5. CASE Top.at = Len(Def.of) /\ LeaveSized(longest + Def.width)
  <2>1. Bounded(defs, Top.of)
    BY <1>1, <1>5, LoopEnds
  <2>2. /\ Longest(defs, Top.of) = Def.width + most /\ Longest(defs, Top.of) \in Nat
        /\ len \in Lengths
    BY <1>1, <1>2, <2>1, LongestIs DEF Def
  <2>3. /\ MemberLengths(Def, len) \in SUBSET Nat /\ most \in Nat
        /\ \A d \in Names(Def) : len[d] <= most
    BY <1>2, <2>2, MaxOfMembers
  <2>4. \A j \in 1..Len(Def.of) : Def.of[j] \in Names(Def) /\ len[Def.of[j]] = L(j)
    <3>1. \A e \in Declarations : len[e] = Longest(defs, e)
      BY DEF LongestLengths
    <3>. HIDE DEF len
    <3>. QED
      BY <1>2, <3>1, MembersType
  <2>5. Def.width \in Nat
    BY <1>1, <1>2 DEF IsDefinition
  <2>6. longest <= most
    <3>1. CASE longest = 0
      <4>. HIDE DEF longest, most
      <4>. QED
        BY <2>3, <3>1
    <3>2. CASE longest # 0
      <4>. HIDE DEF longest
      <4>1. PICK j \in 1..Top.at : longest <= L(j)
        BY <1>3, <3>2
      <4>2. L(j) <= most /\ L(j) \in Nat
        BY <1>2, <1>5, <2>3, <2>4
      <4>. HIDE DEF most, L
      <4>. QED
        BY <1>3, <2>3, <4>1, <4>2
    <3>. QED
      BY <3>1, <3>2
  <2>7. ASSUME ~RepeatsEnumIn(defs) PROVE longest = most
    <3>. HIDE DEF longest, len
    <3>1. longest \in MemberLengths(Def, len)
      <4>1. CASE longest = 0
        BY <4>1 DEF MemberLengths
      <4>2. CASE longest # 0
        <5>1. PICK j \in 1..Top.at : longest <= L(j)
          BY <1>3, <4>2
        <5>2. L(j) <= longest /\ L(j) \in Nat
          BY <1>2, <1>3, <2>7
        <5>3. longest = L(j)
          BY <1>3, <5>1, <5>2
        <5>4. longest = len[Def.of[j]] /\ Def.of[j] \in Names(Def)
          BY <1>5, <2>4, <5>3
        <5>. QED
          BY <5>4 DEF MemberLengths
      <4>. QED
        BY <4>1, <4>2
    <3>2. ASSUME NEW x \in MemberLengths(Def, len) PROVE x <= longest
      <4>1. CASE x = 0
        BY <1>3, <4>1
      <4>2. CASE x # 0
        <5>1. PICK d \in Names(Def) : x = len[d]
          BY <3>2, <4>2 DEF MemberLengths
        <5>2. PICK i \in 1..Len(Members(Def)) : d = Members(Def)[i]
          BY <1>2, MembersType
        <5>3. x = L(i) /\ i \in 1..Top.at
          BY <1>2, <1>5, <2>4, <5>1, <5>2
        <5>. QED
          BY <1>3, <2>7, <5>3
      <4>. QED
        BY <4>1, <4>2
    <3>. QED
      BY <2>3, <3>1, <3>2, MaxIs
  <2>. HIDE DEF longest, most, len
  <2>8. /\ longest + Def.width \in Nat
        /\ longest + Def.width <= Longest(defs, Top.of)
        /\ ~RepeatsEnumIn(defs) => longest + Def.width = Longest(defs, Top.of)
    BY <1>3, <2>2, <2>3, <2>5, <2>6, <2>7
  <2>9. /\ Longest(defs, Top.of) <= Top.count * Longest(defs, Top.of)
        /\ Top.count * Longest(defs, Top.of) \in Nat
    <3>1. Longest(defs, Top.of) \in Nat /\ Top.count \in Nat \ {0}
      BY <1>2, <2>2 DEF Frame
    <3>. QED
      BY <3>1, TimesAtLeast
  <2>10. longest + Def.width <= Top.count * Longest(defs, Top.of)
    BY <2>2, <2>8, <2>9
  <2>11. ~RepeatsEnumIn(defs) => Top.count * Longest(defs, Top.of) = Longest(defs, Top.of)
    <3>1. ~RepeatsEnumIn(defs) => Top.count = 1
      BY <1>1, EnumCount
    <3>. QED
      BY <2>2, <3>1
  <2>. QED
    BY <1>1, <1>5, <2>1, <2>8, <2>10, <2>11, SizeAnswers
<1>. QED
  BY <1>4, <1>5 DEF SizeEnum
\* The lengths of a sequence, which has one member, once it is called.
LEMMA SizeOfSequence ==
    ASSUME WellFormed, ZeroInv, SizeInv, SizeSequence
    PROVE  SizeInv'
<1>. DEFINE d == Top.of
            count == Top.count
            width == Def.width
            hi == Def.hi
            L == Longest(defs, Def.of)
<1>1. frames # <<>> /\ Top.fn = "size" /\ Top.at >= 0 /\ ~IsError(result) /\ Def.k = "sequence"
  BY DEF SizeSequence, Inside, In
<1>2. /\ IsContainer(defs) /\ d \in DOMAIN defs /\ d \in Declarations /\ IsDefinition(Def)
      /\ count \in Nat \ {0} /\ Top.at \in 0..Len(Members(Def)) /\ result.n \in Nat
      /\ Top \in Frame /\ Top = frames[Len(frames)]
  BY <1>1, TopFacts DEF WellFormed, Typed, Results
<1>3. /\ width \in Nat /\ hi \in Nat /\ Def.of \in Declarations /\ Names(Def) = {Def.of}
      /\ Len(Members(Def)) = 1 /\ Members(Def)[1] = Def.of /\ MaxUsize \in Nat
  BY <1>1, <1>2, MembersType, SchemaAssumption DEF IsDefinition, Members
<1>4. Top \in SizeFrames(defs)
  BY <1>1, FrontLast DEF SizeInv, Top
<1>5. /\ result = None <=> Top.at = 0
      /\ result # None => /\ Top.at = 1 /\ hi # 0 /\ Callee(defs, frames) = Def.of
                          /\ CalleeTimes(defs, frames) = IF hi <= MaxUsize THEN hi ELSE 1
  <2>1. Top.at <= 0 <=> result = None
    BY <1>1, ResultFound
  <2>2. Top.at \in 0..1
    BY <1>2, <1>3
  <2>3. Top.at = 1 => hi # 0
    BY <1>1, <1>4 DEF SizeFrames, Def
  <2>4. Top.at = 1 => /\ Callee(defs, frames) = Def.of
                      /\ CalleeTimes(defs, frames) = IF hi <= MaxUsize THEN hi ELSE 1
    BY <1>1, <1>2, <1>3 DEF Callee, CalleeTimes, Times, Def
  <2>. QED
    BY <2>1, <2>2, <2>3, <2>4
<1>6. (hi # 0 => Bounded(defs, Def.of)) => Bounded(defs, d)
  <2>1. SizeGraph(defs)[d] = IF hi = 0 THEN {} ELSE Names(Def)
    BY <1>1, <1>2 DEF SizeGraph, Def
  <2>. QED
    BY <1>2, <1>3, <2>1, BoundedUp
<1>7. ASSUME Bounded(defs, d)
      PROVE  /\ Longest(defs, d) = width + (IF hi = 0 THEN 0 ELSE hi * L)
             /\ Longest(defs, d) \in Nat
  BY <1>1, <1>2, <1>7, LongestIs DEF Def
<1>8. hi # 0 /\ Bounded(defs, d) => Bounded(defs, Def.of) /\ L \in Nat
  <2>1. hi # 0 => Def.of \in SizeGraph(defs)[d]
    BY <1>1, <1>2, <1>3 DEF SizeGraph, Def
  <2>. QED
    BY <1>2, <2>1, LongestGrows
<1>. HIDE DEF d, count, width, hi, L
<1>9. ASSUME result = None, hi = 0, LeaveSized(count * width) PROVE SizeInv'
  <2>1. Bounded(defs, d) /\ Longest(defs, d) = width
    BY <1>3, <1>6, <1>7, <1>9
  <2>2. count * width \in Nat /\ count * width <= count * Longest(defs, d)
    BY <1>2, <1>3, <2>1
  <2>. QED
    BY <1>1, <1>9, <2>1, <2>2, SizeAnswers DEF d, count
<1>10. ASSUME result = None, hi # 0, NEW fn \in Walkers, NEW times \in Nat,
              CallMember(fn, times, 0)
       PROVE  SizeInv'
  <2>1. Top.at < Len(Members(Def)) /\ (\A j \in 1..Top.at : FALSE)
    BY <1>3, <1>5, <1>10
  <2>2. fn \in Functions3
    BY <1>10 DEF Walkers, Functions3
  <2>. QED
    BY <1>1, <1>10, <2>1, <2>2, SizePush DEF hi
<1>11. ASSUME result.is = "size", LeaveSized(count * (result.n + width)) PROVE SizeInv'
  <2>1. result # None /\ result # Zero /\ result # Sized
    BY <1>11, ResultsDiffer
  <2>2. result = Size(result.n)
    BY <1>1, <2>1, ResultFound
  <2>3. ~(hi > MaxUsize)
    BY <1>1, <2>2, ResultFound DEF hi
  <2>4. Callee(defs, frames) = Def.of /\ CalleeTimes(defs, frames) = hi /\ hi # 0
    BY <1>3, <1>5, <2>1, <2>3
  <2>5. /\ Bounded(defs, Def.of) /\ result.n <= hi * L
        /\ ~RepeatsEnumIn(defs) => result.n = hi * L
    BY <1>11, <2>4 DEF SizeInv, SizeMeans, L
  <2>6. Bounded(defs, d)
    BY <1>6, <2>5
  <2>7. L \in Nat /\ hi * L \in Nat /\ Longest(defs, d) = width + hi * L
    BY <1>3, <1>7, <1>8, <2>4, <2>6
  <2>8. /\ result.n + width \in Nat /\ result.n + width <= Longest(defs, d)
        /\ Longest(defs, d) \in Nat
        /\ ~RepeatsEnumIn(defs) => result.n + width = Longest(defs, d)
    <3>. DEFINE p == hi * L
    <3>1. p \in Nat /\ Longest(defs, d) = width + p /\ result.n <= p
          /\ (~RepeatsEnumIn(defs) => result.n = p)
      BY <2>5, <2>7
    <3>. HIDE DEF p
    <3>. QED
      BY <1>2, <1>3, <3>1
  <2>9. /\ count * (result.n + width) \in Nat
        /\ count * (result.n + width) <= count * Longest(defs, d)
        /\ ~RepeatsEnumIn(defs) => count * (result.n + width) = count * Longest(defs, d)
    BY <1>2, <2>8, TimesGrows
  <2>. QED
    BY <1>1, <1>11, <2>6, <2>9, SizeAnswers DEF d, count
<1>12. ASSUME result = Zero, LeaveSized(count * width) PROVE SizeInv'
  <2>1. result # None
    BY <1>12, ResultsDiffer
  <2>2. Callee(defs, frames) = Def.of /\ hi # 0
    BY <1>5, <2>1
  <2>3. Bounded(defs, Def.of) /\ L = 0
    BY <1>12, <2>2 DEF ZeroInv, ZeroMeans, L
  <2>4. Bounded(defs, d)
    BY <1>6, <2>3
  <2>5. Longest(defs, d) = width
    BY <1>3, <1>7, <2>2, <2>3, <2>4
  <2>6. count * width \in Nat /\ count * width <= count * Longest(defs, d)
    BY <1>2, <1>3, <2>5
  <2>. QED
    BY <1>1, <1>12, <2>4, <2>5, <2>6, SizeAnswers DEF d, count
<1>13. ASSUME result = Sized, ReturnEarly(Error("Overflow", d)) PROVE SizeInv'
  <2>1. result # None
    BY <1>13, ResultsDiffer
  <2>2. Callee(defs, frames) = Def.of /\ hi # 0 /\ hi > MaxUsize
    BY <1>1, <1>5, <1>13, <2>1, ResultFound DEF hi
  <2>3. ASSUME NoEmptyIn(defs), Bounded(defs, d) PROVE Longest(defs, d) > MaxUsize
    <3>1. Bounded(defs, Def.of) /\ L \in Nat
      BY <1>8, <2>2, <2>3
    <3>2. L >= 1
      BY <1>13, <2>2, <2>3, <3>1 DEF ZeroInv, ZeroMeans, L
    <3>3. hi * 1 <= hi * L /\ hi * L \in Nat
      BY <1>3, <3>1, <3>2, TimesGrows
    <3>4. Longest(defs, d) = width + hi * L
      BY <1>7, <2>2, <2>3
    <3>. DEFINE p == hi * L
    <3>5. hi <= p /\ p \in Nat /\ Longest(defs, d) = width + p
      BY <1>3, <3>3, <3>4
    <3>. HIDE DEF p
    <3>. QED
      BY <1>3, <2>2, <3>5
  <2>. QED
    BY <1>1, <1>13, <2>3, SizeOverflows DEF d
<1>14. CASE result = None /\ hi = 0 /\ LeaveSized(count * width)
  BY <1>9, <1>14
<1>15. CASE /\ result = None
            /\ \/ hi \in 1..MaxUsize /\ CallMember("size", hi, 0)
               \/ hi > MaxUsize /\ CallMember("zero", 1, 0)
  <2>1. "size" \in Walkers /\ "zero" \in Walkers /\ 1 \in Nat
    BY DEF Walkers
  <2>2. hi # 0
    BY <1>3, <1>15
  <2>. QED
    BY <1>3, <1>10, <1>15, <2>1, <2>2
<1>. QED
  BY <1>11, <1>12, <1>13, <1>14, <1>15 DEF SizeSequence, LongestCount, d, count, width, hi
\* The count of a primitive is a factor of its size.
LEMMA SizeOfPrimitive ==
    ASSUME WellFormed, SizeInv, SizePrimitive
    PROVE  SizeInv'
<1>1. /\ frames # <<>> /\ Top.fn = "size" /\ Top.at >= 0 /\ Def.k = "primitive"
      /\ LeaveSized(Top.count * Def.size)
  BY DEF SizePrimitive, Inside, In
<1>2. /\ IsContainer(defs) /\ Top.of \in DOMAIN defs /\ Top.of \in Declarations
      /\ IsDefinition(Def) /\ Top.count \in Nat \ {0}
  BY <1>1, TopFacts DEF WellFormed, Typed
<1>3. SizeGraph(defs)[Top.of] = {} /\ Def.size \in Nat
  BY <1>1, <1>2, MembersType DEF SizeGraph, Def, IsDefinition
<1>4. Bounded(defs, Top.of)
  BY <1>2, <1>3, BoundedUp
<1>5. Longest(defs, Top.of) = Def.size
  BY <1>1, <1>2, <1>4, LongestIs DEF Def
<1>6. /\ Top.count * Def.size \in Nat
      /\ Top.count * Def.size <= Top.count * Longest(defs, Top.of)
  BY <1>2, <1>3, <1>5
<1>. QED
  BY <1>1, <1>4, <1>5, <1>6, SizeAnswers

\* The sum of a member that overflows is that of its definition.
LEMMA SizePassOn ==
    ASSUME WellFormed, SizeInv, PassOn
    PROVE  SizeInv'
<1>1. frames # <<>> /\ IsError(result) /\ Return(result) /\ ReturnEarly(result)
  BY DEF PassOn, ReturnEarly
<1>2. CASE result.is # "Overflow"
  <2>1. result.is \notin {"size", "Overflow"}
    BY <1>1, <1>2 DEF IsError, ErrorKinds
  <2>. QED
    BY <1>1, <2>1, SizeOthers, SizeReturn
<1>3. CASE result.is = "Overflow"
  <2>. DEFINE d == Top.of
              e == Members(Def)[Top.at]
  <2>1. result # None /\ result # Zero /\ result # Sized /\ result # Unit
    BY <1>3, ResultsDiffer
  <2>2. /\ IsContainer(defs) /\ Top = frames[Len(frames)] /\ Top.fn \in Functions3
        /\ d \in Declarations /\ Top.count \in Nat \ {0} /\ MaxUsize \in Nat
        /\ Top.at \in Nat \cup {-1} /\ (Top.at <= 0 => result = None)
        /\ Top.at >= 0 => /\ d \in DOMAIN defs /\ IsDefinition(Def)
                          /\ Top.at \in 0..Len(Members(Def))
        /\ Top.at >= 1 => \E fn \in Functions3 : Calls(defs, Top, fn) /\ Returned(fn, result)
    BY <1>1, TopFacts, SchemaAssumption DEF WellFormed, Typed
  <2>3. Top.at >= 1 /\ Top.at \in 1..Len(Members(Def)) /\ d \in DOMAIN defs /\ IsDefinition(Def)
    BY <2>1, <2>2
  <2>4. Calls(defs, Top, "size") /\ Top.fn = "size"
    <3>1. PICK fn \in Functions3 : Calls(defs, Top, fn) /\ Returned(fn, result)
      BY <2>2, <2>3
    <3>2. fn = "size"
      BY <1>3, <2>1, <3>1 DEF Returned, Functions3
    <3>. QED
      BY <2>2, <3>1, <3>2, CalledByValidate
  <2>5. Callee(defs, frames) = e /\ CalleeTimes(defs, frames) = Times(defs, Top)
    BY <1>1, <2>2 DEF Callee, CalleeTimes, Def
  <2>6. NoEmptyIn(defs) /\ Bounded(defs, e) => Times(defs, Top) * Longest(defs, e) > MaxUsize
    BY <1>3, <2>5 DEF SizeInv, SizeMeans
  <2>7. e \in SizeGraph(defs)[d]
    <3>1. Top \in SizeFrames(defs)
      BY <1>1, FrontLast DEF SizeInv, Top
    <3>2. Def.k = "sequence" => Def.hi # 0
      BY <2>3, <2>4, <3>1 DEF SizeFrames, Def
    <3>3. e \in Names(Def)
      BY <2>3, MembersType
    <3>. QED
      BY <2>3, <3>2, <3>3 DEF SizeGraph, Def
  <2>8. ASSUME NoEmptyIn(defs), Bounded(defs, d) PROVE Longest(defs, d) > MaxUsize
    <3>1. /\ Bounded(defs, e) /\ Longest(defs, e) \in Nat /\ Longest(defs, d) \in Nat
          /\ Longest(defs, e) <= Longest(defs, d)
          /\ Def.k = "sequence" => Def.hi * Longest(defs, e) <= Longest(defs, d)
      BY <2>2, <2>7, <2>8, LongestGrows DEF Def
    <3>2. Times(defs, Top) * Longest(defs, e) > MaxUsize
      BY <2>6, <2>8, <3>1
    <3>3. CASE Def.k = "sequence" /\ Times(defs, Top) = Def.hi
      <4>. DEFINE p == Def.hi * Longest(defs, e)
      <4>1. Def.hi \in Nat
        BY <2>3, <3>3 DEF IsDefinition
      <4>2. p \in Nat /\ p > MaxUsize /\ p <= Longest(defs, d)
        BY <3>1, <3>2, <3>3, <4>1
      <4>. HIDE DEF p
      <4>. QED
        BY <2>2, <3>1, <4>2
    <3>4. CASE Times(defs, Top) = 1
      BY <2>2, <3>1, <3>2, <3>4
    <3>. QED
      BY <3>3, <3>4 DEF Times, Def
  <2>9. ASSUME NoEmptyIn(defs), Bounded(defs, d) PROVE Top.count * Longest(defs, d) > MaxUsize
    <3>1. Longest(defs, d) \in Nat /\ Longest(defs, d) > MaxUsize
      BY <2>2, <2>8, <2>9, LongestIs
    <3>2. /\ Longest(defs, d) <= Top.count * Longest(defs, d)
          /\ Top.count * Longest(defs, d) \in Nat
      BY <2>2, <3>1, TimesAtLeast
    <3>. QED
      BY <2>2, <3>1, <3>2
  <2>10. SizeMeans(defs, Top.of, Top.count, result)
    BY <1>3, <2>9 DEF SizeMeans
  <2>. QED
    BY <1>1, <2>10, SizeReturn
<1>. QED
  BY <1>2, <1>3

\* No call is under way.
LEMMA SizeInvInit ==
    ASSUME Init
    PROVE  SizeInv
<1>1. frames = <<>> /\ result = None
  BY DEF Init
<1>2. frames \in Seq(SizeFrames(defs))
  BY <1>1
<1>. QED
  BY <1>1, <1>2, ResultsDiffer, SizeOthers DEF SizeInv

\* Every step.
LEMMA SizeInvNext ==
    ASSUME WellFormed, ZeroInv, SizeInv, [Next]_vars
    PROVE  SizeInv'
<1>1. ASSUME NEW r, frames # <<>>, ReturnEarly(r) \/ Leave(r), r.is \notin {"size", "Overflow"}
      PROVE  SizeInv'
  <2>1. Return(r) /\ SizeMeans(defs, Top.of, Top.count, r)
    BY <1>1, SizeOthers DEF ReturnEarly, Leave
  <2>. QED
    BY <1>1, <2>1, SizeReturn
<1>2. ASSUME NEW e \in ErrorKinds, e # "Overflow", frames # <<>>, ReturnEarly(Error(e, Top.of))
      PROVE  SizeInv'
  <2>1. Error(e, Top.of).is \notin {"size", "Overflow"}
    BY <1>2, ResultsDiffer DEF ErrorKinds
  <2>. QED
    BY <1>1, <1>2, <2>1
<1>3. ASSUME NEW query, NEW fn \in Functions3, Ask(query, fn) PROVE SizeInv'
  <2>. DEFINE g == Call(fn, Root, 1)
  <2>1. frames' = <<g>> /\ result' = None /\ defs' = defs
    BY <1>3 DEF Ask
  <2>2. g \in Frame /\ g.at = -1 /\ g.acc = 0 /\ ~(g.at >= 1)
    BY ContainersAssumption DEF Frame, Call
  <2>. HIDE DEF g
  <2>3. g \in SizeFrames(defs)
    BY <2>2 DEF SizeFrames
  <2>4. frames' \in Seq(SizeFrames(defs))
    BY <2>1, <2>3
  <2>. QED
    BY <2>1, <2>4, ResultsDiffer, SizeOthers DEF SizeInv
<1>4. CASE Validate \/ MaxSerializedSize \/ IsZeroSize
  BY <1>3, <1>4 DEF Validate, MaxSerializedSize, IsZeroSize, Functions3
<1>5. CASE UNCHANGED vars
  BY <1>5 DEF SizeInv, vars
<1>6. CASE PassOn
  BY <1>6, SizePassOn
<1>7. CASE ZeroEnter \/ ZeroPrimitive \/ ZeroTagged \/ ZeroArray \/ ZeroEach
  <2>1. frames # <<>> /\ Top.fn = "zero" /\ "zero" \in Functions3
    BY <1>7, ZeroMoves DEF Functions3
  <2>2. CASE \/ ReturnEarly(Error("Recursive", Top.of))
             \/ ReturnEarly(Error("MissingDefinition", Top.of))
             \/ ReturnEarly(Error("panic", Top.of))
    BY <1>2, <2>1, <2>2 DEF ErrorKinds
  <2>3. CASE Leave(Zero) \/ ReturnEarly(Zero) \/ Leave(Sized)
    BY <1>1, <2>1, <2>3, ResultsDiffer
  <2>4. CASE Top.at = -1 /\ Enter
    BY <2>1, <2>4, SizeFound
  <2>5. CASE Top.at >= 0 /\ Top.at < Len(Members(Def)) /\ CallMember("zero", 1, 0)
    BY <2>1, <2>5, SizePush
  <2>. QED
    BY <1>7, <2>2, <2>3, <2>4, <2>5, ZeroMoves, Zenon
<1>8. CASE SizeEnter
  <2>1. frames # <<>> /\ Top.at = -1
    BY <1>8 DEF SizeEnter, Entering, In
  <2>2. CASE \/ ReturnEarly(Error("Recursive", Top.of))
             \/ ReturnEarly(Error("MissingDefinition", Top.of))
    BY <1>2, <2>1, <2>2 DEF ErrorKinds
  <2>3. CASE Enter
    BY <2>1, <2>3, SizeFound
  <2>. QED
    BY <1>8, <2>2, <2>3 DEF SizeEnter
<1>9. CASE SizePrimitive \/ SizeSequence \/ SizeTuple \/ SizeEnum
  BY <1>9, SizeOfPrimitive, SizeOfSequence, SizeOfTuple, SizeOfEnum
<1>10. CASE ValidateEnter \/ ValidatePrimitive \/ ValidateArray \/ ValidateSequence \/ ValidateEach
  <2>1. frames # <<>> /\ Top.fn = "validate" /\ "validate" \in Functions3 /\ "zero" \in Functions3
    BY <1>10, ValidateMoves DEF Functions3
  <2>2. CASE \E e \in ErrorKinds : e # "Overflow" /\ ReturnEarly(Error(e, Top.of))
    BY <1>2, <2>1, <2>2
  <2>3. CASE ReturnEarly(Unit) \/ Leave(Unit)
    BY <1>1, <2>1, <2>3, ResultsDiffer
  <2>4. CASE Top.at = -1 /\ Enter
    BY <2>1, <2>4, SizeFound
  <2>5. CASE /\ Top.at >= 0 /\ Top.at < Len(Members(Def))
             /\ CallMember("validate", 1, 0) \/ CallMember("zero", 1, 0)
    BY <2>1, <2>5, SizePush
  <2>6. "MissingDefinition" \in ErrorKinds /\ "MissingDefinition" # "Overflow"
        /\ \A e : e \notin {"MissingDefinition", "Recursive", "Overflow"} => e # "Overflow"
    BY DEF ErrorKinds
  <2>7. Top.at = 0 /\ Len(Members(Def)) = 1 => Top.at >= 0 /\ Top.at < Len(Members(Def))
    OBVIOUS
  <2>. QED
    BY <1>10, <2>2, <2>3, <2>4, <2>5, <2>6, <2>7, ValidateMoves, Zenon
<1>11. CASE ValidateElements
  <2>. DEFINE n == Len(frames)
              g == Call("validate", Def.of, 1)
  <2>1. frames' = Append(frames, g) /\ result' = None /\ defs' = defs
    BY <1>11 DEF ValidateElements
  <2>2. Len(frames') = n + 1 /\ frames'[n + 1] = g /\ WellFormed' /\ frames # <<>>
    BY <1>11, ElementsKeeps
  <2>3. g \in Frame
    <3>1. frames' \in Seq(Frame) /\ n + 1 \in 1..Len(frames')
      BY <2>2, TopFacts DEF WellFormed, Typed
    <3>. QED
      BY <2>2, <3>1
  <2>4. g.fn # "size"
    BY DEF Call
  <2>. HIDE DEF g
  <2>5. frames' \in Seq(SizeFrames(defs))
    BY <2>1, <2>3, <2>4 DEF SizeInv, SizeFrames
  <2>. QED
    BY <2>1, <2>5, ResultsDiffer, SizeOthers DEF SizeInv
<1>. QED
  BY <1>4, <1>5, <1>6, <1>7, <1>8, <1>9, <1>10, <1>11 DEF Next
\* max_serialized_size: what it answers is the length of the longest encoding, which
\* exists, sequences of enums apart.
THEOREM MaxSizeIsExact == Spec => []MaxSizeExact
<1>1. Init => WellFormed /\ ZeroInv /\ SizeInv
  BY WellFormedInit, ZeroInvInit, SizeInvInit
<1>2. WellFormed /\ ZeroInv /\ SizeInv /\ [Next]_vars => (WellFormed /\ ZeroInv /\ SizeInv)'
  BY WellFormedNext, ZeroInvNext, SizeInvNext
<1>3. WellFormed /\ SizeInv => MaxSizeExact
  <2>. SUFFICES ASSUME WellFormed, SizeInv, asked = "max_size", frames = <<>>, ~IsError(result),
                       ~RepeatsEnum
                PROVE  /\ ~Cyclic(SizeGraph(defs), Root)
                       /\ Closure(SizeGraph(defs), {Root}) \subseteq DOMAIN defs
                       /\ result = Size(Longest(defs, Root))
    BY DEF MaxSizeExact, Answered
  <2>1. /\ Returned("size", result) /\ Callee(defs, frames) = Root
        /\ CalleeTimes(defs, frames) = 1 /\ IsContainer(defs)
    BY DEF WellFormed, Typed, Returning, FirstCall, Callee, CalleeTimes
  <2>2. result = Size(result.n)
    BY <2>1 DEF Returned, IsError, ErrorKinds
  <2>3. result.is = "size"
    BY <2>2, ResultsDiffer
  <2>4. ~RepeatsEnumIn(defs)
    BY DEF RepeatsEnum, RepeatsEnumIn, Known, Here
  <2>5. Bounded(defs, Root) /\ result.n = 1 * Longest(defs, Root)
    BY <2>1, <2>3, <2>4 DEF SizeInv, SizeMeans
  <2>6. Longest(defs, Root) \in Nat
    BY <2>1, <2>5, ContainersAssumption, LongestIs
  <2>7. result.n = Longest(defs, Root)
    BY <2>5, <2>6
  <2>. QED
    BY <2>2, <2>5, <2>7 DEF Bounded
<1>. QED
  BY <1>1, <1>2, <1>3, PTL DEF Spec

\* What a longest encoding depends on is reached.
LEMMA SizeReached ==
    ASSUME NEW D, IsContainer(D)
    PROVE  Closure(SizeGraph(D), {Root}) \subseteq Reached(D, Root)
<1>1. Reached(D, Root) \in Closed(NameGraph(D)) /\ {Root} \subseteq Reached(D, Root)
  BY GraphsType, ClosureClosed, ClosureHas, ContainersAssumption DEF Reached
<1>2. \A d \in DOMAIN D : SizeGraph(D)[d] \subseteq NameGraph(D)[d]
  BY DEF SizeGraph, NameGraph
<1>3. DOMAIN SizeGraph(D) = DOMAIN D /\ DOMAIN NameGraph(D) = DOMAIN D
  BY GraphsType
<1>4. Reached(D, Root) \in Closed(SizeGraph(D))
  BY <1>1, <1>2, <1>3 DEF Closed
<1>. QED
  BY <1>1, <1>4, ClosureLeast

\* max_serialized_size: when it does not answer, a definition is missing, the type contains
\* itself, or the longest encoding is longer than usize counts.
THEOREM MaxSizeRefuses == Spec => []MaxSizeErrors
<1>. DEFINE Inv == WellFormed /\ ZeroInv /\ WalkInv /\ ErrorInv /\ SizeInv
<1>1. Init => Inv
  <2>1. Init => ErrorInv
    BY ResultsDiffer DEF Init, ErrorInv, IsError
  <2>. QED
    BY <2>1, WellFormedInit, ZeroInvInit, WalkInvInit, SizeInvInit
<1>2. Inv /\ [Next]_vars => Inv'
  BY WellFormedNext, ZeroInvNext, WalkInvNext, ErrorInvNext, SizeInvNext
<1>3. Inv => MaxSizeErrors
  <2>. SUFFICES ASSUME Inv, asked = "max_size", frames = <<>>
                PROVE  MaxSizeErrors
    BY DEF MaxSizeErrors, Answered
  <2>1. /\ Callee(defs, frames) = Root /\ CalleeTimes(defs, frames) = 1 /\ IsContainer(defs)
    BY DEF WellFormed, Typed, Callee, CalleeTimes
  <2>2. ASSUME result.is = "MissingDefinition" PROVE result.of \in Here \ DOMAIN defs
    BY <2>2 DEF ErrorInv, Reason, IsError, ErrorKinds
  <2>3. NoEmptyRange => NoEmptyIn(defs)
    BY DEF NoEmptyRange, NoEmptyIn, Known, Here
  <2>4. ASSUME result.is = "Recursive", NoEmptyRange, EmptyArrays = {}
        PROVE  Cyclic(SizeGraph(defs), Root)
    <3>1. EmptyArraysOf(defs) = {}
      BY <2>4 DEF EmptyArraysOf, EmptyArrays, Known, Here
    <3>2. MayMeet("max_size", defs, Root)
      BY <2>1, <2>3, <2>4 DEF WalkInv, Followed, WalkParts
    <3>. QED
      BY <3>1, <3>2 DEF MayMeet, Edges
  <2>5. ASSUME result.is = "Overflow", NoEmptyRange, Complete, ~Cyclic(SizeGraph(defs), Root)
        PROVE  Longest(defs, Root) > MaxUsize
    <3>1. Bounded(defs, Root)
      BY <2>1, <2>5, SizeReached DEF Bounded, Complete, Here
    <3>2. 1 * Longest(defs, Root) > MaxUsize
      BY <2>1, <2>3, <2>5, <3>1 DEF SizeInv, SizeMeans
    <3>3. Longest(defs, Root) \in Nat
      BY <2>1, <3>1, ContainersAssumption, LongestIs
    <3>. QED
      BY <3>2, <3>3
  <2>. QED
    BY <2>2, <2>4, <2>5 DEF MaxSizeErrors
<1>. QED
  BY <1>1, <1>2, <1>3, PTL DEF Spec
=============================================================================
