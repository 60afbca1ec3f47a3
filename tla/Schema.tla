------------------------------- MODULE Schema -------------------------------
(***************************************************************************)
(* Schema containers: a declaration names a definition, which names other  *)
(* declarations.  A container is a function S from declarations to         *)
(* definitions, which are                                                  *)
(*   [k |-> "primitive", size]                 size bytes                  *)
(*   [k |-> "sequence", width, lo, hi, of]     lo..=hi elements, of a tag  *)
(*   [k |-> "enum", width, of]                 one of the variants, a tag  *)
(*   [k |-> "tuple", of]                       Tuple and Struct            *)
(* and what they mean: which declarations are reached, which encodings are *)
(* empty, how long they get.                                               *)
(***************************************************************************)
EXTENDS Integers, Sequences, SequencesExt, FiniteSets, FiniteSetsExt

CONSTANTS
    Declarations,   \* the names in use
    MaxUsize,       \* usize::MAX of the machine
    ByteValues      \* number of values of a byte: 256 in the code

ASSUME SchemaAssumption == MaxUsize \in Nat /\ ByteValues \in Nat \ {0, 1}

\* A definition that can be written down.
IsDefinition(def) ==
    /\ def.k \in {"primitive", "sequence", "enum", "tuple"}
    /\ def.k = "primitive" => def.size \in Nat
    /\ def.k = "sequence" => /\ def.width \in Nat /\ def.lo \in Nat /\ def.hi \in Nat
                             /\ def.of \in Declarations
    /\ def.k = "enum" => def.width \in Nat
    /\ def.k \in {"enum", "tuple"} => def.of \in Seq(Declarations)

IsContainer(S) ==
    /\ DOMAIN S \subseteq Declarations /\ IsFiniteSet(DOMAIN S)
    /\ \A d \in DOMAIN S : IsDefinition(S[d])

\* The declarations a definition names, in order.
Members(def) ==
    CASE def.k = "primitive" -> <<>>
      [] def.k = "sequence" -> <<def.of>>
      [] OTHER -> def.of

Names(def) == {Members(def)[i] : i \in DOMAIN Members(def)}

\* What a declaration names; what it names that a longest encoding, or whether
\* an encoding can be empty, depends on.
NameGraph(S) == [d \in DOMAIN S |-> Names(S[d])]
SizeGraph(S) ==
    [d \in DOMAIN S |-> IF S[d].k = "sequence" /\ S[d].hi = 0 THEN {} ELSE Names(S[d])]
BareGraph(S) ==
    [d \in DOMAIN S |-> IF S[d].k \in {"sequence", "enum"} /\ S[d].width # 0 THEN {} ELSE Names(S[d])]

\* What is reached from ds: what is in every set that holds ds and what its
\* members name.
Closed(G) == {C \in SUBSET Declarations : \A d \in C \cap DOMAIN G : G[d] \subseteq C}
Closure(G, ds) == {d \in Declarations : \A C \in Closed(G) : ds \subseteq C => d \in C}

Reached(S, d) == Closure(NameGraph(S), {d})
OnCycle(G, d) == d \in DOMAIN G /\ d \in Closure(G, G[d])
Cyclic(G, d) == \E e \in Closure(G, {d}) : OnCycle(G, e)

IsEmptyRange(def) == def.hi < def.lo
IsArray(def) == def.k = "sequence" /\ def.width = 0 /\ def.lo = def.hi
IsDynamic(def) == def.k = "sequence" /\ ~IsArray(def)

\* Some encoding has a byte, if those of the declarations in known have.
HasByte(def, known) ==
    CASE def.k = "primitive" -> def.size > 0
      [] def.k = "sequence" -> def.width > 0 \/ (def.hi > 0 /\ def.of \in known)
      [] def.k = "enum" -> def.width > 0 \/ Names(def) \cap known # {}
      [] def.k = "tuple" -> Names(def) \cap known # {}

\* The declarations some encoding of which has a byte: the least set closed
\* under the rules of the definitions.
NonEmpty(S) ==
    {d \in DOMAIN S : \A K \in SUBSET DOMAIN S :
                          (\A e \in DOMAIN S : HasByte(S[e], K) => e \in K) => d \in K}

TotalLength(ds, length) ==
    LET sum[i \in 0..Len(ds)] == IF i = 0 THEN 0 ELSE sum[i - 1] + length[ds[i]]
    IN  sum[Len(ds)]

\* The longest encoding of a definition whose members have these lengths.
LongestOf(def, length) ==
    CASE def.k = "primitive" -> def.size
      [] def.k = "sequence" -> def.width + (IF def.hi = 0 THEN 0 ELSE def.hi * length[def.of])
      [] def.k = "tuple" -> TotalLength(def.of, length)
      [] def.k = "enum" -> def.width + Max({0} \cup {length[d] : d \in Names(def)})

\* The longest encoding of a value nested no deeper than there are definitions:
\* of any value, for a declaration that reaches no cycle.
Longest(S, d) ==
    LET depth == Cardinality(DOMAIN S)
        within[n \in 0..depth] ==
            [e \in Declarations |->
                IF n = 0 \/ e \notin DOMAIN S THEN 0 ELSE LongestOf(S[e], within[n - 1])]
    IN  within[depth][d]
=============================================================================
