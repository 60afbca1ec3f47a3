------------------------- MODULE SchemaBuildProofs -------------------------
(***************************************************************************)
(* SchemaBuild collects what it should, for every program: types of any    *)
(* number, recursive in any way, with names that clash or do not.          *)
(***************************************************************************)
EXTENDS SchemaBuild, SequenceTheorems, WellFoundedInduction, FunctionTheorems,
        FiniteSetTheorems, TLAPS

-----------------------------------------------------------------------------
(* The inductive invariant.                                                *)

Kinds == {"struct", "enum", "builtin"}
Frame == [type : DOMAIN types, at : Int]

\* The program is one of Programs, as ProgramsAssumption describes them.
ProgramOK ==
    /\ sender \in DOMAIN types /\ receiver \in DOMAIN types
    /\ \A t \in DOMAIN types :
         types[t].kind \in Kinds /\ types[t].of \in Seq(DOMAIN types)

Members(t) == types[t].of

\* The calls under way form a path from the root.
Path ==
    /\ frames \in Seq(Frame)
    /\ \A i \in 1..Len(frames) : frames[i].at \in -1..Len(Members(frames[i].type))
    /\ \A i \in 1..Len(frames) : i = 1 => frames[i].type = Root
    /\ \A i \in 1..Len(frames) :
         i > 1 => /\ frames[i - 1].at > 0
                  /\ frames[i].type = Members(frames[i - 1].type)[frames[i - 1].at]

\* What is called and what is defined comes from types below the root.
Sourced ==
    /\ \A i \in 1..Len(frames) : frames[i].type \in Reachable(Root)
    /\ \A d \in DOMAIN definitions :
         \E u \in Reachable(Root) : Name(u) = d /\ definitions[d] = Definition(u)

\* Call i has added the definition of its type and is visiting the members.
Visits(i) == types[frames[i].type].kind # "enum" /\ frames[i].at >= 0

\* Its definition is the one in the map.
Added ==
    \A i \in 1..Len(frames) :
        Visits(i) => /\ Name(frames[i].type) \in DOMAIN definitions
                     /\ definitions[Name(frames[i].type)] = Definition(frames[i].type)

\* Members whose calls have returned are defined.
Returned ==
    \A i \in 1..Len(frames) : \A j \in 1..Len(Members(frames[i].type)) :
        j < frames[i].at \/ (j = frames[i].at /\ i = Len(frames)) =>
            Name(Members(frames[i].type)[j]) \in DOMAIN definitions

\* The names definition d mentions are all defined.
Closed(d) ==
    \A j \in DOMAIN definitions[d].of : definitions[d].of[j] \in DOMAIN definitions

\* A definition mentions undefined names only while its type is being visited.
Owed ==
    \A d \in DOMAIN definitions :
        Closed(d) \/ \E i \in 1..Len(frames) : Visits(i) /\ Name(frames[i].type) = d

RootDefined == frames = <<>> => Name(Root) \in DOMAIN definitions

Collected == pc = "build" => Added /\ Returned /\ Owed /\ RootDefined

IInv ==
    /\ side \in {"sender", "receiver"}
    /\ pc \in {"build", "sent", "compare", "done", "panic"}
    /\ ProgramOK /\ Path /\ Sourced /\ Collected /\ NoFalseAlarm

-----------------------------------------------------------------------------
(* Reachable types.                                                        *)

\* A sequence has the elements that are at its indices.
LEMMA SetOfSeq ==
    ASSUME NEW S, NEW s \in Seq(S)
    PROVE  /\ DOMAIN s = 1..Len(s)
           /\ ToSet(s) = {s[i] : i \in DOMAIN s}
  BY DEF ToSet

\* A type reaches itself.
LEMMA ReachesItself ==
    ASSUME ProgramOK, NEW t \in DOMAIN types
    PROVE  t \in Reachable(t)
  BY DEF Reachable

\* The members of what is reached are reached.
LEMMA ReachesMembers ==
    ASSUME ProgramOK, NEW t, NEW u \in Reachable(t), NEW j \in 1..Len(Members(u))
    PROVE  Members(u)[j] \in Reachable(t)
<1>1. u \in DOMAIN types
  BY DEF Reachable
<1>2. Members(u) \in Seq(DOMAIN types)
  BY <1>1 DEF ProgramOK, Members
<1>3. Members(u)[j] \in DOMAIN types
  BY <1>2
<1>4. Members(u)[j] \in ToSet(types[u].of)
  BY <1>2, SetOfSeq DEF Members
<1>5. ASSUME NEW C \in ClosedSets, t \in C PROVE Members(u)[j] \in C
  <2>1. u \in C
    BY <1>5 DEF Reachable
  <2> QED
    BY <2>1, <1>4, <1>5 DEF ClosedSets
<1> QED
  BY <1>3, <1>5 DEF Reachable

\* A set that holds the root and the members of its types holds all that is
\* reached.
LEMMA ReachesNoMore ==
    ASSUME ProgramOK, NEW t, NEW C \in SUBSET DOMAIN types, t \in C,
           \A u \in C : \A j \in 1..Len(Members(u)) : Members(u)[j] \in C
    PROVE  Reachable(t) \subseteq C
<1>1. ASSUME NEW u \in C PROVE ToSet(types[u].of) \subseteq C
  <2>1. Members(u) \in Seq(DOMAIN types)
    BY <1>1 DEF ProgramOK, Members
  <2> QED
    BY <2>1, <1>1, SetOfSeq DEF Members
<1>2. C \in ClosedSets
  BY <1>1 DEF ClosedSets
<1> QED
  BY <1>2 DEF Reachable

-----------------------------------------------------------------------------
(* What the steps do to the calls under way and to the map.                *)

\* A sequence without its last element.
LEMMA FrontOfSeq ==
    ASSUME NEW S, NEW s \in Seq(S), s # <<>>
    PROVE  /\ Len(s) \in Nat \ {0} /\ Front(s) \in Seq(S)
           /\ Len(Front(s)) = Len(s) - 1
           /\ \A i \in 1..Len(s) - 1 : Front(s)[i] = s[i]
<1>1. Len(s) \in Nat \ {0}
  OBVIOUS
<1>2. Front(s) = SubSeq(s, 1, Len(s) - 1)
  BY DEF Front
<1>3. \A i \in 1..Len(s) - 1 : s[i] \in S
  BY <1>1
<1>4. /\ Front(s) \in Seq(S)
      /\ Len(Front(s)) = (IF 1 <= Len(s) - 1 THEN Len(s) - 1 - 1 + 1 ELSE 0)
      /\ \A i \in 1..Len(s) - 1 - 1 + 1 : Front(s)[i] = s[1 + i - 1]
  BY <1>1, <1>2, <1>3, SubSeqProperties
<1>5. Len(Front(s)) = Len(s) - 1
  <2>1. PICK n \in Nat : n = Len(s) /\ n # 0
    BY <1>1
  <2>2. Len(Front(s)) = (IF 1 <= n - 1 THEN n - 1 - 1 + 1 ELSE 0)
    BY <2>1, <1>4
  <2> QED
    BY <2>1, <2>2
<1>6. ASSUME NEW i \in 1..Len(s) - 1 PROVE Front(s)[i] = s[i]
  <2>1. i \in 1..Len(s) - 1 - 1 + 1 /\ 1 + i - 1 = i
    BY <1>1
  <2> QED
    BY <2>1, <1>4
<1> QED
  BY <1>1, <1>4, <1>5, <1>6

\* The call on top.
LEMMA TopCall ==
    ASSUME Path, Running
    PROVE  /\ frames \in Seq(Frame) /\ frames # <<>>
           /\ Len(frames) \in Nat \ {0}
           /\ Top = frames[Len(frames)] /\ Top \in Frame
           /\ Top.type \in DOMAIN types /\ Top.at \in Int
           /\ Top.at \in -1..Len(Members(Top.type))
<1>1. frames \in Seq(Frame) /\ frames # <<>>
  BY DEF Path, Running
<1>2. Len(frames) \in Nat \ {0} /\ frames[Len(frames)] \in Frame
  BY <1>1, FrontOfSeq
<1>3. Top = frames[Len(frames)]
  BY DEF Top, Last
<1>4. Len(frames) \in 1..Len(frames)
  BY <1>2
<1>5. Top.at \in -1..Len(Members(Top.type))
  BY <1>3, <1>4 DEF Path
<1> QED
  BY <1>1, <1>2, <1>3, <1>5 DEF Frame

\* A return takes away the call on top.
LEMMA FrontFrames ==
    ASSUME Path, Running
    PROVE  /\ Front(frames) \in Seq(Frame)
           /\ Len(Front(frames)) = Len(frames) - 1
           /\ \A i \in 1..Len(frames) - 1 : Front(frames)[i] = frames[i]
  BY TopCall, FrontOfSeq

\* A call that goes on changes its count only.
LEMMA AdvancedFrames ==
    ASSUME Path, Running
    PROVE  /\ Advanced \in Seq(Frame)
           /\ Len(Advanced) = Len(frames)
           /\ \A i \in 1..Len(frames) - 1 : Advanced[i] = frames[i]
           /\ Advanced[Len(frames)] = [type |-> Top.type, at |-> Top.at + 1]
<1> DEFINE top == [type |-> Top.type, at |-> Top.at + 1]
<1>1. top \in Frame
  BY TopCall DEF Frame
<1>2. Advanced = [frames EXCEPT ![Len(frames)] = top]
  BY DEF Advanced
<1>3. frames \in Seq(Frame) /\ Len(frames) \in Nat \ {0}
  BY TopCall
<1> HIDE DEF top
<1>4. /\ Advanced \in Seq(Frame)
      /\ Len(Advanced) = Len(frames)
      /\ \A i \in 1..Len(frames) - 1 : Advanced[i] = frames[i]
      /\ Advanced[Len(frames)] = top
  BY <1>1, <1>2, <1>3
<1> QED
  BY <1>4 DEF top

\* The program does not change.
LEMMA SameProgram ==
    ASSUME UNCHANGED <<program, side>>
    PROVE  /\ types' = types /\ sender' = sender /\ receiver' = receiver
           /\ Root' = Root /\ Reachable(Root)' = Reachable(Root)
           /\ ProgramOK' <=> ProgramOK
           /\ Clash(Root)' <=> Clash(Root)
  BY DEF program, Root, Reachable, ClosedSets, ProgramOK, Clash, Name, Definition

\* Definitions stay.
Grows ==
    \A d \in DOMAIN definitions : d \in DOMAIN definitions' /\ definitions'[d] = definitions[d]

\* add_definition of the type on top.
LEMMA AddTop ==
    ASSUME Running, AddDefinition(Top.type)
    PROVE  /\ pc' \in {"build", "panic"} /\ Grows
           /\ \A d \in DOMAIN definitions' : d \in DOMAIN definitions \/ d = Name(Top.type)
           /\ pc' = "build" => /\ Name(Top.type) \in DOMAIN definitions'
                               /\ definitions'[Name(Top.type)] = Definition(Top.type)
           /\ pc' = "panic" => /\ Name(Top.type) \in DOMAIN definitions
                               /\ definitions[Name(Top.type)] # Definition(Top.type)
           /\ definitions' # definitions =>
                definitions'[Name(Top.type)] = Definition(Top.type)
<1>1. CASE Name(Top.type) \in DOMAIN definitions
  <2>1. definitions' = definitions
    BY <1>1 DEF AddDefinition
  <2>2. CASE definitions[Name(Top.type)] = Definition(Top.type)
    <3>1. pc' = "build"
      BY <1>1, <2>2 DEF AddDefinition, Running
    <3> QED
      BY <1>1, <2>1, <2>2, <3>1 DEF Grows
  <2>3. CASE definitions[Name(Top.type)] # Definition(Top.type)
    <3>1. pc' = "panic"
      BY <1>1, <2>3 DEF AddDefinition
    <3> QED
      BY <1>1, <2>1, <2>3, <3>1 DEF Grows
  <2> QED
    BY <2>2, <2>3
<1>2. CASE Name(Top.type) \notin DOMAIN definitions
  <2>1. /\ definitions' = [d \in DOMAIN definitions \cup {Name(Top.type)} |->
                              IF d = Name(Top.type) THEN Definition(Top.type)
                              ELSE definitions[d]]
        /\ pc' = "build"
    BY <1>2 DEF AddDefinition, Running
  <2>2. DOMAIN definitions' = DOMAIN definitions \cup {Name(Top.type)}
    BY <2>1
  <2>3. definitions'[Name(Top.type)] = Definition(Top.type)
    BY <2>1
  <2>4. ASSUME NEW d \in DOMAIN definitions PROVE definitions'[d] = definitions[d]
    BY <2>1, <1>2
  <2> QED
    BY <2>1, <2>2, <2>3, <2>4 DEF Grows
<1> QED
  BY <1>1, <1>2

\* What a definition is added for is reached from the root; a clash is one.
LEMMA AddTopSourced ==
    ASSUME ProgramOK, Path, Sourced, Running, AddDefinition(Top.type)
    PROVE  /\ \A d \in DOMAIN definitions' :
                \E u \in Reachable(Root) : Name(u) = d /\ definitions'[d] = Definition(u)
           /\ pc' = "panic" => Clash(Root)
<1>1. Top.type \in Reachable(Root)
  <2>1. Len(frames) \in 1..Len(frames) /\ Top = frames[Len(frames)]
    BY TopCall
  <2> QED
    BY <2>1 DEF Sourced
<1>2. ASSUME NEW d \in DOMAIN definitions'
      PROVE  \E u \in Reachable(Root) : Name(u) = d /\ definitions'[d] = Definition(u)
  <2>1. CASE d \in DOMAIN definitions
    BY <2>1, AddTop DEF Sourced, Grows
  <2>2. CASE d \notin DOMAIN definitions
    BY <2>2, <1>1, <1>2, AddTop
  <2> QED
    BY <2>1, <2>2
<1>3. ASSUME pc' = "panic" PROVE Clash(Root)
  <2>1. PICK u \in Reachable(Root) :
          Name(u) = Name(Top.type) /\ definitions[Name(Top.type)] = Definition(u)
    BY <1>3, AddTop DEF Sourced
  <2> QED
    BY <2>1, <1>1, <1>3, AddTop DEF Clash
<1> QED
  BY <1>2, <1>3

-----------------------------------------------------------------------------
(* The path of calls.                                                      *)

\* All calls are of types below the root.
Below == \A i \in 1..Len(frames) : frames[i].type \in Reachable(Root)

\* After a return the calls still form a path.
LEMMA PathReturn ==
    ASSUME ProgramOK, Path, Below, Running, UNCHANGED <<program, side>>,
           frames' = Front(frames)
    PROVE  Path' /\ Below'
<1>1. PICK n \in Nat : n = Len(frames) /\ n # 0
  BY TopCall
<1>2. /\ frames' \in Seq(Frame) /\ Len(frames') = n - 1
      /\ \A i \in 1..n - 1 : frames'[i] = frames[i]
  BY <1>1, FrontFrames
<1>3. types' = types /\ Root' = Root /\ Reachable(Root)' = Reachable(Root) /\ Frame' = Frame
  BY SameProgram DEF Frame
<1>4. \A i \in 1..n - 1 : i \in 1..n /\ (i > 1 => i - 1 \in 1..n - 1)
  BY <1>1
<1>5. \A i \in 1..n - 1 :
        /\ frames'[i].at \in -1..Len(Members(frames'[i].type))
        /\ i = 1 => frames'[i].type = Root
        /\ i > 1 => /\ frames'[i - 1].at > 0
                    /\ frames'[i].type = Members(frames'[i - 1].type)[frames'[i - 1].at]
        /\ frames'[i].type \in Reachable(Root)
  <2> SUFFICES ASSUME NEW i \in 1..n - 1
               PROVE  /\ frames'[i].at \in -1..Len(Members(frames'[i].type))
                      /\ i = 1 => frames'[i].type = Root
                      /\ i > 1 => /\ frames'[i - 1].at > 0
                                  /\ frames'[i].type
                                       = Members(frames'[i - 1].type)[frames'[i - 1].at]
                      /\ frames'[i].type \in Reachable(Root)
    OBVIOUS
  <2>1. i \in 1..Len(frames) /\ frames'[i] = frames[i]
    BY <1>1, <1>2
  <2>2. i > 1 => frames'[i - 1] = frames[i - 1]
    BY <1>2, <1>4
  <2> QED
    BY <2>1, <2>2 DEF Path, Below
<1>6. Path'
  BY <1>2, <1>3, <1>5 DEF Path, Members
<1>7. Below'
  BY <1>2, <1>3, <1>5 DEF Below
<1> QED
  BY <1>6, <1>7

\* So they do when the call on top goes on.
LEMMA PathAdvanced ==
    ASSUME ProgramOK, Path, Below, Running, UNCHANGED <<program, side>>,
           Top.at < Len(Members(Top.type)), frames' = Advanced
    PROVE  Path' /\ Below'
<1>1. PICK n \in Nat : n = Len(frames) /\ n # 0
  BY TopCall
<1>2. /\ frames' \in Seq(Frame) /\ Len(frames') = n
      /\ \A i \in 1..n - 1 : frames'[i] = frames[i]
      /\ frames'[n].type = frames[n].type /\ frames'[n].at = frames[n].at + 1
  BY <1>1, AdvancedFrames, TopCall
<1>3. types' = types /\ Root' = Root /\ Reachable(Root)' = Reachable(Root) /\ Frame' = Frame
  BY SameProgram DEF Frame
<1>4. \A i \in 1..n : i = n \/ i \in 1..n - 1
  BY <1>1
<1>5. \A i \in 1..n : i > 1 => i - 1 \in 1..n - 1 /\ i - 1 \in 1..n
  BY <1>1
<1>6. \A i \in 1..n : frames'[i].type = frames[i].type
  BY <1>2, <1>4
<1>7. \A i \in 1..n : frames'[i].at \in -1..Len(Members(frames[i].type))
  <2>1. Top.at + 1 \in -1..Len(Members(Top.type))
    <3>1. Len(Members(Top.type)) \in Nat
      BY TopCall DEF ProgramOK, Members
    <3> QED
      BY <3>1, TopCall
  <2>2. frames'[n].at \in -1..Len(Members(frames[n].type))
    BY <2>1, <1>1, <1>2, TopCall
  <2>3. ASSUME NEW i \in 1..n - 1 PROVE frames'[i].at \in -1..Len(Members(frames[i].type))
    <3>1. i \in 1..Len(frames) /\ frames'[i] = frames[i]
      BY <1>1, <1>2
    <3> QED
      BY <3>1 DEF Path
  <2> QED
    BY <2>2, <2>3, <1>4
<1>8. ASSUME NEW i \in 1..n, i > 1
      PROVE  /\ frames'[i - 1].at > 0
             /\ frames'[i].type = Members(frames'[i - 1].type)[frames'[i - 1].at]
  <2>1. i \in 1..Len(frames) /\ frames'[i].type = frames[i].type
    BY <1>1, <1>6
  <2>2. frames'[i - 1] = frames[i - 1]
    BY <1>2, <1>5, <1>8
  <2> QED
    BY <2>1, <2>2, <1>8 DEF Path
<1>9. Path'
  BY <1>1, <1>2, <1>3, <1>6, <1>7, <1>8 DEF Path, Members
<1>10. Below'
  BY <1>1, <1>2, <1>3, <1>6 DEF Below
<1> QED
  BY <1>9, <1>10

\* The frames after a call of the next member.
LEMMA CalledFrames ==
    ASSUME ProgramOK, Path, Running, Top.at \in 0..Len(Members(Top.type)) - 1,
           frames' = Append(Advanced, Enter(types, Members(Top.type)[Top.at + 1])),
           NEW n \in Nat, n = Len(frames)
    PROVE  /\ frames' \in Seq(Frame) /\ Len(frames') = n + 1
           /\ \A i \in 1..n - 1 : frames'[i] = frames[i]
           /\ frames'[n].type = frames[n].type /\ frames'[n].at = frames[n].at + 1
           /\ Top.at + 1 \in 1..Len(Members(Top.type))
           /\ frames'[n + 1].type = Members(Top.type)[Top.at + 1]
           /\ frames'[n + 1].type \in DOMAIN types
           /\ frames'[n + 1].at = IF types[frames'[n + 1].type].kind = "enum" THEN 0 ELSE -1
<1> DEFINE t == Members(Top.type)[Top.at + 1]
           callee == Enter(types, t)
<1>1. Members(Top.type) \in Seq(DOMAIN types)
  BY TopCall DEF ProgramOK, Members
<1>2. Top.at + 1 \in 1..Len(Members(Top.type))
  BY <1>1, TopCall
<1>3. t \in DOMAIN types
  BY <1>1, <1>2
<1>4. callee.type = t /\ callee.at = (IF types[t].kind = "enum" THEN 0 ELSE -1)
  BY DEF Enter
<1>5. callee \in Frame
  <2>1. (IF types[t].kind = "enum" THEN 0 ELSE -1) \in Int
    OBVIOUS
  <2> HIDE DEF t
  <2> QED
    BY <2>1, <1>3 DEF Enter, Frame
<1>6. n # 0
  BY TopCall
<1>7. /\ Advanced \in Seq(Frame) /\ Len(Advanced) = n
      /\ \A i \in 1..n - 1 : Advanced[i] = frames[i]
      /\ Advanced[n].type = frames[n].type /\ Advanced[n].at = frames[n].at + 1
  BY AdvancedFrames, TopCall
<1>8. frames' = Append(Advanced, callee)
  OBVIOUS
<1> HIDE DEF t, callee
<1>9. /\ frames' \in Seq(Frame) /\ Len(frames') = n + 1
      /\ \A i \in 1..n : frames'[i] = Advanced[i]
      /\ frames'[n + 1] = callee
  BY <1>5, <1>7, <1>8
<1>10. n \in 1..n /\ \A i \in 1..n - 1 : i \in 1..n
  BY <1>6
<1> QED
  BY <1>2, <1>3, <1>4, <1>7, <1>9, <1>10 DEF t

\* The callee continues the path.
LEMMA PathCall ==
    ASSUME ProgramOK, Path, Below, Running, UNCHANGED <<program, side>>,
           Top.at \in 0..Len(Members(Top.type)) - 1,
           frames' = Append(Advanced, Enter(types, Members(Top.type)[Top.at + 1]))
    PROVE  Path' /\ Below'
<1>1. PICK n \in Nat : n = Len(frames) /\ n # 0
  BY TopCall
<1>2. /\ frames' \in Seq(Frame) /\ Len(frames') = n + 1
      /\ \A i \in 1..n - 1 : frames'[i] = frames[i]
      /\ frames'[n].type = frames[n].type /\ frames'[n].at = frames[n].at + 1
      /\ Top.at + 1 \in 1..Len(Members(Top.type))
      /\ frames'[n + 1].type = Members(Top.type)[Top.at + 1]
      /\ frames'[n + 1].type \in DOMAIN types
      /\ frames'[n + 1].at = (IF types[frames'[n + 1].type].kind = "enum" THEN 0 ELSE -1)
  BY <1>1, CalledFrames
<1>3. types' = types /\ Root' = Root /\ Reachable(Root)' = Reachable(Root) /\ Frame' = Frame
  BY SameProgram DEF Frame
<1>4. Top = frames[n] /\ n \in 1..Len(frames)
  BY <1>1, TopCall
<1>5. ASSUME NEW i \in 1..n + 1
      PROVE  /\ frames'[i].at \in -1..Len(Members(frames'[i].type))
             /\ i = 1 => frames'[i].type = Root
             /\ i > 1 => /\ frames'[i - 1].at > 0
                         /\ frames'[i].type = Members(frames'[i - 1].type)[frames'[i - 1].at]
             /\ frames'[i].type \in Reachable(Root)
  <2>1. CASE i \in 1..n - 1
    <3>1. i \in 1..n /\ (i > 1 => i - 1 \in 1..n - 1)
      BY <2>1
    <3>2. frames'[i] = frames[i] /\ (i > 1 => frames'[i - 1] = frames[i - 1])
      BY <1>2, <2>1, <3>1
    <3> QED
      BY <3>1, <3>2, <1>1 DEF Path, Below
  <2>2. CASE i = n
    <3>1. n > 1 => frames'[n - 1] = frames[n - 1]
      BY <1>1, <1>2
    <3>2. frames'[n].at \in -1..Len(Members(frames'[n].type))
      <4>1. Len(Members(Top.type)) \in Nat
        BY TopCall DEF ProgramOK, Members
      <4> QED
        BY <4>1, <1>2, <1>4
    <3> QED
      BY <2>2, <3>1, <3>2, <1>2, <1>4 DEF Path, Below
  <2>3. CASE i = n + 1
    <3>1. frames'[n + 1].at \in -1..Len(Members(frames'[n + 1].type))
      <4>1. PICK u \in DOMAIN types : u = frames'[n + 1].type
        BY <1>2
      <4>2. Len(Members(u)) \in Nat
        BY DEF ProgramOK, Members
      <4>3. frames'[n + 1].at = 0 \/ frames'[n + 1].at = -1
        BY <1>2
      <4>4. \A m \in Nat : 0 \in -1..m /\ -1 \in -1..m
        OBVIOUS
      <4>5. frames'[n + 1].at \in -1..Len(Members(u))
        BY <4>2, <4>3, <4>4
      <4> QED
        BY <4>1, <4>5
    <3>2. i # 1 /\ i - 1 = n
      BY <1>1, <2>3
    <3>3. frames'[n].at > 0
      BY <1>2, <1>4, TopCall
    <3>4. frames'[n + 1].type = Members(frames'[n].type)[frames'[n].at]
      BY <1>2, <1>4
    <3>5. frames'[n + 1].type \in Reachable(Root)
      BY <1>2, <1>4, ReachesMembers DEF Below
    <3> QED
      BY <2>3, <3>1, <3>2, <3>3, <3>4, <3>5
  <2>4. i \in 1..n - 1 \/ i = n \/ i = n + 1
    BY <1>1
  <2> QED
    BY <2>1, <2>2, <2>3, <2>4
<1>6. Path'
  BY <1>2, <1>3, <1>5 DEF Path, Members
<1>7. Below'
  BY <1>2, <1>3, <1>5 DEF Below
<1> QED
  BY <1>6, <1>7

-----------------------------------------------------------------------------
(* The map.                                                                *)

\* A definition made from a type mentions the names of its members.
LEMMA MentionsMembers ==
    ASSUME ProgramOK, NEW t \in DOMAIN types
    PROVE  /\ DOMAIN Definition(t).of = 1..Len(Members(t))
           /\ \A j \in 1..Len(Members(t)) : Definition(t).of[j] = Name(Members(t)[j])
<1>1. types[t].of \in Seq(DOMAIN types)
  BY DEF ProgramOK
<1>2. DOMAIN types[t].of = 1..Len(types[t].of)
  BY <1>1
<1> QED
  BY <1>2 DEF Definition, Members

\* A definition that mentions defined names still does when others are added.
LEMMA ClosedStays ==
    ASSUME Grows, NEW d \in DOMAIN definitions, Closed(d)
    PROVE  d \in DOMAIN definitions' /\ Closed(d)'
  BY DEF Grows, Closed

\* Calls below the top stay: what they added, and what returned to them.
LEMMA BelowTop ==
    ASSUME ProgramOK, Path, Added, Returned, Running, UNCHANGED <<program, side>>, Grows,
           NEW n \in Nat, n = Len(frames),
           NEW i \in 1..n - 1, frames'[i] = frames[i]
    PROVE  /\ i \in 1..Len(frames) /\ (Visits(i)' <=> Visits(i))
           /\ Visits(i)' => /\ Name(frames[i].type)' \in DOMAIN definitions'
                            /\ definitions'[Name(frames[i].type)'] = Definition(frames[i].type)'
           /\ Name(frames[i].type)' = Name(frames[i].type)
           /\ \A j \in 1..Len(Members(frames[i].type)) :
                j < frames[i].at => Name(Members(frames[i].type)[j]) \in DOMAIN definitions'
<1>1. types' = types /\ i \in 1..Len(frames)
  BY SameProgram
<1>2. /\ Name(frames[i].type)' = Name(frames[i].type)
      /\ Definition(frames[i].type)' = Definition(frames[i].type)
      /\ Visits(i)' <=> Visits(i)
  BY <1>1 DEF Name, Definition, Visits
<1>3. Visits(i)' => /\ Name(frames[i].type)' \in DOMAIN definitions'
                    /\ definitions'[Name(frames[i].type)'] = Definition(frames[i].type)'
  BY <1>1, <1>2 DEF Added, Grows
<1>4. \A j \in 1..Len(Members(frames[i].type)) :
        j < frames[i].at => Name(Members(frames[i].type)[j]) \in DOMAIN definitions'
  BY <1>1 DEF Returned, Grows
<1> QED
  BY <1>1, <1>2, <1>3, <1>4

\* What Returned asks for after a step.
LEMMA ReturnedNext ==
    ASSUME types' = types, NEW m, Len(frames') = m,
           \A i \in 1..m : \A j \in 1..Len(Members(frames'[i].type)) :
             j < frames'[i].at \/ (j = frames'[i].at /\ i = m) =>
               Name(Members(frames'[i].type)[j]) \in DOMAIN definitions'
    PROVE  Returned'
  BY DEF Returned, Members, Name

\* The call on top returns.
ReturnsTop == frames' = Front(frames)

\* A call that returns has defined its type, and its members are defined.
LEMMA CollectedReturn ==
    ASSUME ProgramOK, Path, Added, Returned, Running, UNCHANGED <<program, side>>, Grows,
           ReturnsTop,
           Name(Top.type) \in DOMAIN definitions',
           \A d \in DOMAIN definitions' :
             Closed(d)' \/ \E i \in 1..Len(frames) - 1 : Visits(i) /\ Name(frames[i].type) = d
    PROVE  Added' /\ Returned' /\ Owed' /\ RootDefined'
<1>1. PICK n \in Nat : n = Len(frames) /\ n # 0
  BY TopCall
<1>2. /\ frames' \in Seq(Frame) /\ Len(frames') = n - 1
      /\ \A i \in 1..n - 1 : frames'[i] = frames[i]
  BY <1>1, FrontFrames DEF ReturnsTop
<1>3. types' = types /\ Root' = Root
  BY SameProgram
<1>4. Added'
  BY <1>1, <1>2, BelowTop DEF Added
<1>5. Returned'
  <2> SUFFICES ASSUME NEW i \in 1..n - 1, NEW j \in 1..Len(Members(frames[i].type)),
                      j < frames[i].at \/ (j = frames[i].at /\ i = n - 1)
               PROVE  Name(Members(frames[i].type)[j]) \in DOMAIN definitions'
    BY <1>2, <1>3, ReturnedNext
  <2>1. CASE j < frames[i].at
    BY <2>1, <1>1, <1>2, BelowTop
  <2>2. CASE j = frames[i].at /\ i = n - 1
    <3>1. n \in 1..Len(frames) /\ n > 1
      BY <1>1, <2>2
    <3>2. Top.type = Members(frames[n - 1].type)[frames[n - 1].at]
      BY <3>1, <1>1, TopCall DEF Path
    <3> QED
      BY <2>2, <3>2
  <2> QED
    BY <2>1, <2>2
<1>6. Owed'
  <2> SUFFICES ASSUME NEW d \in DOMAIN definitions'
               PROVE  Closed(d)' \/ \E i \in 1..n - 1 : Visits(i)' /\ Name(frames[i].type)' = d
    BY <1>2 DEF Owed
  <2>1. CASE Closed(d)'
    BY <2>1
  <2>2. ASSUME NEW i \in 1..Len(frames) - 1, Visits(i), Name(frames[i].type) = d
        PROVE  Visits(i)' /\ Name(frames[i].type)' = d
    BY <2>2, <1>1, <1>2, BelowTop
  <2> QED
    BY <2>1, <2>2, <1>1
<1>7. RootDefined'
  <2> SUFFICES ASSUME frames' = <<>> PROVE Name(Root) \in DOMAIN definitions'
    BY <1>3 DEF RootDefined, Name
  <2>1. Len(frames') = 0
    OBVIOUS
  <2>2. n - 1 = 0
    BY <2>1, <1>2
  <2>3. Len(frames) = 1 /\ 1 \in 1..Len(frames)
    BY <2>2, <1>1
  <2>4. Top.type = Root
    BY <2>3, TopCall DEF Path
  <2> QED
    BY <2>4
<1> QED
  BY <1>4, <1>5, <1>6, <1>7

\* A call that has added its definition owes those of its members.
LEMMA CollectedVisit ==
    ASSUME ProgramOK, Path, Added, Returned, Owed, Running, UNCHANGED <<program, side>>, Grows,
           Top.at = -1, types[Top.type].kind # "enum", frames' = Advanced,
           \A d \in DOMAIN definitions' : d \in DOMAIN definitions \/ d = Name(Top.type),
           Name(Top.type) \in DOMAIN definitions',
           definitions'[Name(Top.type)] = Definition(Top.type)
    PROVE  Added' /\ Returned' /\ Owed' /\ RootDefined'
<1>1. PICK n \in Nat : n = Len(frames) /\ n # 0
  BY TopCall
<1>2. /\ frames' \in Seq(Frame) /\ Len(frames') = n
      /\ \A i \in 1..n - 1 : frames'[i] = frames[i]
      /\ frames'[n].type = Top.type /\ frames'[n].at = 0
  BY <1>1, AdvancedFrames
<1>3. types' = types /\ Top = frames[n]
  BY <1>1, SameProgram, TopCall
<1>4. \A i \in 1..n : i = n \/ i \in 1..n - 1
  BY <1>1
<1>5. Visits(n)' /\ ~Visits(n)
  BY <1>2, <1>3 DEF Visits
<1>6. Added'
  <2>1. /\ Name(frames[n].type)' = Name(Top.type)
        /\ Definition(frames[n].type)' = Definition(Top.type)
    BY <1>2, <1>3 DEF Name, Definition
  <2>2. ASSUME NEW i \in 1..n, Visits(i)'
        PROVE  /\ Name(frames[i].type)' \in DOMAIN definitions'
               /\ definitions'[Name(frames[i].type)'] = Definition(frames[i].type)'
    <3>1. CASE i = n
      BY <3>1, <2>1
    <3>2. CASE i \in 1..n - 1
      BY <3>2, <2>2, <1>1, <1>2, BelowTop
    <3> QED
      BY <3>1, <3>2, <1>4
  <2> QED
    BY <2>2, <1>2 DEF Added
<1>7. Returned'
  <2> SUFFICES ASSUME NEW i \in 1..n, NEW j \in 1..Len(Members(frames'[i].type)),
                      j < frames'[i].at \/ (j = frames'[i].at /\ i = n)
               PROVE  Name(Members(frames'[i].type)[j]) \in DOMAIN definitions'
    BY <1>2, <1>3, ReturnedNext
  <2>1. CASE i = n
    BY <2>1, <1>2
  <2>2. CASE i \in 1..n - 1 /\ i # n
    BY <2>2, <1>1, <1>2, BelowTop
  <2> QED
    BY <2>1, <2>2, <1>4
<1>8. Owed'
  <2> SUFFICES ASSUME NEW d \in DOMAIN definitions'
               PROVE  Closed(d)' \/ \E i \in 1..n : Visits(i)' /\ Name(frames[i].type)' = d
    BY <1>2 DEF Owed
  <2>1. n \in 1..n
    BY <1>1
  <2>2. CASE d = Name(Top.type)
    BY <2>1, <2>2, <1>2, <1>3, <1>5 DEF Name
  <2>3. CASE d \in DOMAIN definitions /\ Closed(d)
    BY <2>3, ClosedStays
  <2>4. ASSUME NEW i \in 1..Len(frames), Visits(i), Name(frames[i].type) = d
        PROVE  i \in 1..n /\ Visits(i)' /\ Name(frames[i].type)' = d
    BY <2>4, <1>1, <1>2, <1>4, <1>5, BelowTop
  <2>5. d \in DOMAIN definitions \/ d = Name(Top.type)
    OBVIOUS
  <2> QED
    BY <2>2, <2>3, <2>4, <2>5 DEF Owed
<1>9. RootDefined'
  <2>1. frames' # <<>>
    BY <1>1, <1>2
  <2> QED
    BY <2>1 DEF RootDefined
<1> QED
  BY <1>6, <1>7, <1>8, <1>9

\* The next member is called.
CallsNext ==
    /\ Top.at \in 0..Len(Members(Top.type)) - 1
    /\ frames' = Append(Advanced, Enter(types, Members(Top.type)[Top.at + 1]))

\* The member that is called is not counted as defined before it returns.
LEMMA CollectedCall ==
    ASSUME ProgramOK, Path, Added, Returned, Owed, Running, UNCHANGED <<program, side>>,
           UNCHANGED definitions, CallsNext
    PROVE  Added' /\ Returned' /\ Owed' /\ RootDefined'
<1>1. PICK n \in Nat : n = Len(frames) /\ n # 0
  BY TopCall
<1>2. /\ frames' \in Seq(Frame) /\ Len(frames') = n + 1
      /\ \A i \in 1..n - 1 : frames'[i] = frames[i]
      /\ frames'[n].type = Top.type /\ frames'[n].at = Top.at + 1
      /\ frames'[n + 1].at = (IF types[frames'[n + 1].type].kind = "enum" THEN 0 ELSE -1)
  BY <1>1, CalledFrames, TopCall DEF CallsNext
<1>3. types' = types /\ Top = frames[n] /\ n \in 1..Len(frames) /\ Grows
  BY <1>1, SameProgram, TopCall DEF Grows
<1>4. \A i \in 1..n + 1 : i \in 1..n - 1 \/ i = n \/ i = n + 1
  BY <1>1
<1>5. (Visits(n)' <=> Visits(n)) /\ ~Visits(n + 1)'
  <2>1. Visits(n)' <=> Visits(n)
    <3>1. Top.at >= 0 /\ Top.at + 1 >= 0
      BY TopCall DEF CallsNext
    <3>2. /\ Visits(n)' <=> types[Top.type].kind # "enum" /\ Top.at + 1 >= 0
          /\ Visits(n) <=> types[Top.type].kind # "enum" /\ Top.at >= 0
      BY <1>2, <1>3 DEF Visits
    <3> QED
      BY <3>1, <3>2
  <2>2. ~Visits(n + 1)'
    BY <1>2, <1>3 DEF Visits
  <2> QED
    BY <2>1, <2>2
<1>6. Name(frames[n].type)' = Name(frames[n].type)
  BY <1>2, <1>3 DEF Name
<1>7. Added'
  <2>1. ASSUME NEW i \in 1..n + 1, Visits(i)'
        PROVE  /\ Name(frames[i].type)' \in DOMAIN definitions'
               /\ definitions'[Name(frames[i].type)'] = Definition(frames[i].type)'
    <3>1. CASE i = n
      <4>1. Definition(frames[n].type)' = Definition(frames[n].type)
        BY <1>2, <1>3 DEF Name, Definition
      <4> QED
        BY <3>1, <4>1, <2>1, <1>3, <1>5, <1>6 DEF Added
    <3>2. CASE i \in 1..n - 1
      BY <3>2, <2>1, <1>1, <1>2, <1>3, BelowTop
    <3>3. CASE i = n + 1
      BY <3>3, <2>1, <1>5
    <3> QED
      BY <3>1, <3>2, <3>3, <1>4
  <2> QED
    BY <2>1, <1>2 DEF Added
<1>8. Returned'
  <2> SUFFICES ASSUME NEW i \in 1..n + 1, NEW j \in 1..Len(Members(frames'[i].type)),
                      j < frames'[i].at \/ (j = frames'[i].at /\ i = n + 1)
               PROVE  Name(Members(frames'[i].type)[j]) \in DOMAIN definitions'
    BY <1>2, <1>3, ReturnedNext
  <2>1. CASE i = n
    <3>1. j < Top.at + 1
      BY <2>1, <1>2
    <3>2. j < Top.at \/ j = Top.at
      BY <3>1, TopCall
    <3>3. j \in 1..Len(Members(frames[n].type))
      BY <2>1, <1>2, <1>3
    <3>4. Name(Members(frames[n].type)[j]) \in DOMAIN definitions
      BY <3>2, <3>3, <1>1, <1>3 DEF Returned
    <3> QED
      BY <3>4, <2>1, <1>2, <1>3
  <2>2. CASE i \in 1..n - 1
    <3>1. i # n + 1
      BY <2>2
    <3> QED
      BY <2>2, <3>1, <1>1, <1>2, <1>3, BelowTop
  <2>3. CASE i = n + 1
    <3>1. frames'[i].at = 0 \/ frames'[i].at = -1
      BY <2>3, <1>2
    <3>2. i # n /\ j \in Int /\ j >= 1
      BY <2>3, <1>1
    <3>3. \A k \in Int : k >= 1 => ~(k < 0) /\ k # 0 /\ ~(k < -1) /\ k # -1
      OBVIOUS
    <3> QED
      BY <3>1, <3>2, <3>3
  <2> QED
    BY <2>1, <2>2, <2>3, <1>4
<1>9. Owed'
  <2> SUFFICES ASSUME NEW d \in DOMAIN definitions'
               PROVE  Closed(d)' \/ \E i \in 1..n + 1 : Visits(i)' /\ Name(frames[i].type)' = d
    BY <1>2 DEF Owed
  <2>1. CASE Closed(d)
    BY <2>1, <1>3, ClosedStays
  <2>2. ASSUME NEW i \in 1..Len(frames), Visits(i), Name(frames[i].type) = d
        PROVE  i \in 1..n + 1 /\ Visits(i)' /\ Name(frames[i].type)' = d
    <3>1. i \in 1..n + 1 /\ (i = n \/ i \in 1..n - 1)
      BY <2>2, <1>1
    <3>2. CASE i = n
      BY <3>1, <3>2, <2>2, <1>5, <1>6
    <3>3. CASE i \in 1..n - 1
      <4>1. frames'[i] = frames[i]
        BY <3>3, <1>2
      <4> QED
        BY <3>1, <3>3, <4>1, <2>2, <1>1, <1>3, BelowTop
    <3> QED
      BY <3>1, <3>2, <3>3
  <2> QED
    BY <2>1, <2>2 DEF Owed
<1>10. RootDefined'
  <2>1. frames' # <<>>
    BY <1>1, <1>2
  <2> QED
    BY <2>1 DEF RootDefined
<1> QED
  BY <1>7, <1>8, <1>9, <1>10

-----------------------------------------------------------------------------
(* Each action keeps the inductive invariant.                              *)

\* The invariant while a container is built.
LEMMA Parts ==
    ASSUME IInv, Running
    PROVE  /\ ProgramOK /\ Path /\ Sourced /\ Below
           /\ Added /\ Returned /\ Owed
  BY DEF IInv, Sourced, Below, Collected, Running

\* What a step of the building must see to.
LEMMA BuildingStep ==
    ASSUME IInv, UNCHANGED <<program, side>>, Path', Below',
           \A d \in DOMAIN definitions' :
             \E u \in Reachable(Root) : Name(u) = d /\ definitions'[d] = Definition(u),
           pc' \in {"build", "panic"}, pc' = "panic" => Clash(Root),
           pc' = "build" => Added' /\ Returned' /\ Owed' /\ RootDefined'
    PROVE  IInv'
<1>1. /\ types' = types /\ Reachable(Root)' = Reachable(Root)
      /\ ProgramOK' /\ (Clash(Root)' <=> Clash(Root))
  BY SameProgram DEF IInv
<1>2. Sourced'
  <2>1. \A d \in DOMAIN definitions' :
          \E u \in Reachable(Root)' : types'[u].name = d /\ definitions'[d] =
            [shape |-> types'[u].shape,
             of |-> [i \in DOMAIN types'[u].of |-> types'[types'[u].of[i]].name]]
    BY <1>1 DEF Name, Definition
  <2> QED
    BY <2>1 DEF Sourced, Below, Name, Definition
<1>3. Collected' /\ NoFalseAlarm'
  BY <1>1 DEF Collected, NoFalseAlarm
<1>4. side' \in {"sender", "receiver"} /\ pc' \in {"build", "sent", "compare", "done", "panic"}
  BY DEF IInv
<1> QED
  BY <1>1, <1>2, <1>3, <1>4 DEF IInv

\* AddStruct keeps the invariant: a name that was taken already owes or has its
\* members, one that is new owes them now.
LEMMA AddStructKeeps == ASSUME IInv, AddStruct PROVE IInv'
<1>1. /\ Running /\ Top.at = -1 /\ types[Top.type].kind = "struct"
      /\ AddDefinition(Top.type) /\ UNCHANGED <<program, side>>
      /\ frames' = (IF Name(Top.type) \in DOMAIN definitions THEN Front(frames) ELSE Advanced)
  BY DEF AddStruct, AtKind
<1>2. /\ ProgramOK /\ Path /\ Sourced /\ Below /\ Added /\ Returned /\ Owed
  BY <1>1, Parts
<1>3. CASE Name(Top.type) \in DOMAIN definitions
  <2>1. frames' = Front(frames) /\ definitions' = definitions /\ Grows
    BY <1>1, <1>3 DEF AddDefinition, Grows
  <2>2. ASSUME NEW d \in DOMAIN definitions'
        PROVE  Closed(d)' \/ \E i \in 1..Len(frames) - 1 : Visits(i) /\ Name(frames[i].type) = d
    <3>1. CASE Closed(d)
      BY <3>1, <2>1, ClosedStays
    <3>2. ASSUME NEW i \in 1..Len(frames), Visits(i), Name(frames[i].type) = d
          PROVE  i \in 1..Len(frames) - 1
      <4>1. ~Visits(Len(frames))
        BY <1>1, <1>2, TopCall DEF Visits
      <4>2. i # Len(frames) /\ Len(frames) \in Nat
        BY <4>1, <3>2, <1>1, <1>2, TopCall
      <4> QED
        BY <4>2
    <3> QED
      BY <3>1, <3>2, <2>1, <1>2 DEF Owed
  <2>3. Added' /\ Returned' /\ Owed' /\ RootDefined'
    BY <1>1, <1>2, <1>3, <2>1, <2>2, CollectedReturn DEF ReturnsTop
  <2> QED
    BY <1>1, <1>2, <2>1, <2>3, PathReturn, AddTop, AddTopSourced, BuildingStep
<1>4. CASE Name(Top.type) \notin DOMAIN definitions
  <2>1. frames' = Advanced /\ pc' = "build"
    BY <1>1, <1>4 DEF AddDefinition, Running
  <2>2. Top.at < Len(Members(Top.type))
    <3>1. Len(Members(Top.type)) \in Nat
      BY <1>1, <1>2, TopCall DEF ProgramOK, Members
    <3> QED
      BY <3>1, <1>1
  <2>3. Added' /\ Returned' /\ Owed' /\ RootDefined'
    BY <1>1, <1>2, <2>1, AddTop, CollectedVisit
  <2> QED
    BY <1>1, <1>2, <2>1, <2>2, <2>3, PathAdvanced, AddTop, AddTopSourced, BuildingStep
<1> QED
  BY <1>3, <1>4

\* AddBuiltin keeps the invariant: it owes its members whether its name was
\* new or not.
LEMMA AddBuiltinKeeps == ASSUME IInv, AddBuiltin PROVE IInv'
<1>1. /\ Running /\ Top.at = -1 /\ types[Top.type].kind = "builtin"
      /\ AddDefinition(Top.type) /\ UNCHANGED <<program, side>>
      /\ frames' = Advanced
  BY DEF AddBuiltin, AtKind
<1>2. /\ ProgramOK /\ Path /\ Sourced /\ Below /\ Added /\ Returned /\ Owed
  BY <1>1, Parts
<1>3. Top.at < Len(Members(Top.type))
  <2>1. Len(Members(Top.type)) \in Nat
    BY <1>1, <1>2, TopCall DEF ProgramOK, Members
  <2> QED
    BY <2>1, <1>1
<1>4. pc' = "build" => Added' /\ Returned' /\ Owed' /\ RootDefined'
  BY <1>1, <1>2, AddTop, CollectedVisit
<1> QED
  BY <1>1, <1>2, <1>3, <1>4, PathAdvanced, AddTop, AddTopSourced, BuildingStep

\* CallMember keeps the invariant.
LEMMA CallMemberKeeps == ASSUME IInv, CallMember PROVE IInv'
<1>1. /\ Running /\ UNCHANGED <<program, side, definitions, pc>> /\ CallsNext
  BY DEF CallMember, CallsNext, Members
<1>2. /\ ProgramOK /\ Path /\ Sourced /\ Below /\ Added /\ Returned /\ Owed
  BY <1>1, Parts
<1>3. Path' /\ Below'
  BY <1>1, <1>2, PathCall DEF CallsNext
<1>4. Added' /\ Returned' /\ Owed' /\ RootDefined'
  BY <1>1, <1>2, CollectedCall
<1>5. \A d \in DOMAIN definitions' :
        \E u \in Reachable(Root) : Name(u) = d /\ definitions'[d] = Definition(u)
  BY <1>1, <1>2 DEF Sourced
<1> QED
  BY <1>1, <1>3, <1>4, <1>5, BuildingStep DEF Running

\* When all members have been called and returned they are defined.
LEMMA MembersDefined ==
    ASSUME ProgramOK, Path, Returned, Running, Top.at = Len(Members(Top.type)),
           NEW j \in 1..Len(Members(Top.type))
    PROVE  Name(Members(Top.type)[j]) \in DOMAIN definitions
<1>1. Len(frames) \in 1..Len(frames) /\ Top = frames[Len(frames)]
  BY TopCall
<1>2. j < Top.at \/ j = Top.at
  <2>1. Len(Members(Top.type)) \in Nat
    BY TopCall DEF ProgramOK, Members
  <2> QED
    BY <2>1
<1> QED
  BY <1>1, <1>2 DEF Returned

\* Return keeps the invariant: what the call owed is paid.
LEMMA ReturnKeeps == ASSUME IInv, Return PROVE IInv'
<1>1. /\ Running /\ Top.at = Len(Members(Top.type)) /\ types[Top.type].kind # "enum"
      /\ UNCHANGED <<program, side, definitions, pc>> /\ frames' = Front(frames) /\ Grows
  BY DEF Return, MembersCalled, Members, Grows
<1>2. /\ ProgramOK /\ Path /\ Sourced /\ Below /\ Added /\ Returned /\ Owed
  BY <1>1, Parts
<1>3. /\ Name(Top.type) \in DOMAIN definitions
      /\ definitions[Name(Top.type)] = Definition(Top.type)
  <2>1. Visits(Len(frames)) /\ Len(frames) \in 1..Len(frames)
    <3>1. Top.at >= 0
      BY <1>1, <1>2, TopCall DEF ProgramOK, Members
    <3> QED
      BY <3>1, <1>1, <1>2, TopCall DEF Visits
  <2> QED
    BY <2>1, <1>1, <1>2, TopCall DEF Added
<1>4. ASSUME NEW d \in DOMAIN definitions'
      PROVE  Closed(d)' \/ \E i \in 1..Len(frames) - 1 : Visits(i) /\ Name(frames[i].type) = d
  <2>1. CASE Closed(d)
    BY <2>1, <1>1, ClosedStays
  <2>2. ASSUME NEW i \in 1..Len(frames), Visits(i), Name(frames[i].type) = d
        PROVE  i \in 1..Len(frames) - 1 \/ Closed(d)
    <3>1. i \in 1..Len(frames) - 1 \/ i = Len(frames)
      BY <1>1, <1>2, TopCall
    <3>2. CASE i = Len(frames)
      <4>1. d = Name(Top.type) /\ Top.type \in DOMAIN types
        BY <3>2, <2>2, <1>1, <1>2, TopCall
      <4> QED
        BY <4>1, <1>1, <1>2, <1>3, MembersDefined, MentionsMembers DEF Closed
    <3> QED
      BY <3>1, <3>2
  <2> QED
    BY <2>1, <2>2, <1>1, <1>2 DEF Owed
<1>5. Added' /\ Returned' /\ Owed' /\ RootDefined'
  BY <1>1, <1>2, <1>3, <1>4, CollectedReturn DEF ReturnsTop
<1>6. \A d \in DOMAIN definitions' :
        \E u \in Reachable(Root) : Name(u) = d /\ definitions'[d] = Definition(u)
  BY <1>1, <1>2 DEF Sourced
<1> QED
  BY <1>1, <1>2, <1>5, <1>6, PathReturn, BuildingStep DEF Running

\* AddEnum keeps the invariant: its variants are defined before it is.
LEMMA AddEnumKeeps == ASSUME IInv, AddEnum PROVE IInv'
<1>1. /\ Running /\ Top.at = Len(Members(Top.type)) /\ types[Top.type].kind = "enum"
      /\ AddDefinition(Top.type) /\ UNCHANGED <<program, side>> /\ frames' = Front(frames)
  BY DEF AddEnum, MembersCalled, Members
<1>2. /\ ProgramOK /\ Path /\ Sourced /\ Below /\ Added /\ Returned /\ Owed
  BY <1>1, Parts
<1>3. Grows
  BY <1>1, AddTop
<1>4. ASSUME NEW d \in DOMAIN definitions', pc' = "build"
      PROVE  Closed(d)' \/ \E i \in 1..Len(frames) - 1 : Visits(i) /\ Name(frames[i].type) = d
  <2>1. CASE d \in DOMAIN definitions /\ Closed(d)
    BY <2>1, <1>3, ClosedStays
  <2>2. ASSUME NEW i \in 1..Len(frames), Visits(i), Name(frames[i].type) = d
        PROVE  i \in 1..Len(frames) - 1
    <3>1. ~Visits(Len(frames))
      BY <1>1, <1>2, TopCall DEF Visits
    <3>2. i # Len(frames) /\ Len(frames) \in Nat
      BY <3>1, <2>2, <1>1, <1>2, TopCall
    <3> QED
      BY <3>2
  <2>3. CASE d = Name(Top.type)
    <3>1. definitions'[d] = Definition(Top.type)
      BY <2>3, <1>1, <1>4, AddTop
    <3>2. \A j \in 1..Len(Members(Top.type)) :
            Name(Members(Top.type)[j]) \in DOMAIN definitions'
      BY <1>1, <1>2, <1>3, MembersDefined DEF Grows
    <3>3. Top.type \in DOMAIN types
      BY <1>1, <1>2, TopCall
    <3> QED
      BY <3>1, <3>2, <3>3, <1>2, MentionsMembers DEF Closed
  <2>4. d \in DOMAIN definitions \/ d = Name(Top.type)
    BY <1>1, AddTop
  <2> QED
    BY <2>1, <2>2, <2>3, <2>4, <1>2 DEF Owed
<1>5. pc' = "build" => Added' /\ Returned' /\ Owed' /\ RootDefined'
  BY <1>1, <1>2, <1>3, <1>4, AddTop, CollectedReturn DEF ReturnsTop
<1> QED
  BY <1>1, <1>2, <1>5, PathReturn, AddTop, AddTopSourced, BuildingStep

-----------------------------------------------------------------------------
(* Init, and the steps that do not build.                                  *)

\* The sender starts with an empty map and the call of its type.
LEMMA InitIInv == Init => IInv
<1> SUFFICES ASSUME Init PROVE IInv
  OBVIOUS
<1>1. ProgramOK
  <2>1. PICK p \in Programs : types = p.types /\ sender = p.sender /\ receiver = p.receiver
    BY DEF Init
  <2> QED
    BY <2>1, ProgramsAssumption DEF ProgramOK, Kinds
<1>2. /\ frames = <<Enter(types, sender)>> /\ definitions = <<>>
      /\ Root = sender /\ pc = "build" /\ side = "sender" /\ sender \in DOMAIN types
  BY <1>1 DEF Init, Root, ProgramOK
<1> DEFINE call == Enter(types, sender)
<1>3. /\ call.type = sender /\ call.at \in Int /\ call \in Frame
      /\ call.at = 0 \/ call.at = -1
      /\ call.at = 0 => types[sender].kind = "enum"
  BY <1>2 DEF Enter, Frame
<1>4. frames = <<call>>
  BY <1>2
<1> HIDE DEF call
<1>5. /\ frames \in Seq(Frame) /\ Len(frames) = 1 /\ frames[1] = call
      /\ \A i \in 1..Len(frames) : i = 1 /\ frames[i] = call
  BY <1>3, <1>4
<1>6. Path
  <2>1. call.at \in -1..Len(Members(call.type))
    <3>1. Len(Members(sender)) \in Nat
      BY <1>1, <1>2 DEF ProgramOK, Members
    <3>2. \A m \in Nat : 0 \in -1..m /\ -1 \in -1..m
      OBVIOUS
    <3> QED
      BY <3>1, <3>2, <1>3
  <2> QED
    BY <2>1, <1>2, <1>3, <1>5 DEF Path
<1>7. DOMAIN definitions = {}
  BY <1>2
<1>8. Sourced
  BY <1>1, <1>2, <1>3, <1>5, <1>7, ReachesItself DEF Sourced
<1>9. Collected
  <2>1. Added
    BY <1>3, <1>5 DEF Added, Visits
  <2>2. Returned
    <3>1. \A j \in Nat : j >= 1 => ~(j < 0) /\ j # 0 /\ ~(j < -1) /\ j # -1
      OBVIOUS
    <3>2. \A m : \A j \in 1..m : j \in Nat /\ j >= 1
      OBVIOUS
    <3> QED
      BY <3>1, <3>2, <1>3, <1>5 DEF Returned
  <2>3. frames # <<>>
    BY <1>5
  <2> QED
    BY <2>1, <2>2, <2>3, <1>7 DEF Collected, Owed, RootDefined
<1> QED
  BY <1>1, <1>2, <1>6, <1>8, <1>9 DEF IInv, NoFalseAlarm

\* The receiver starts its own container with an empty map.
LEMMA DecodeKeeps == ASSUME IInv, Decode PROVE IInv'
<1>1. UNCHANGED program /\ types' = types /\ sender' = sender /\ receiver' = receiver
  BY DEF Decode, program
<1>2. ProgramOK' /\ ProgramOK
  BY <1>1 DEF IInv, ProgramOK
<1>3. CASE UNCHANGED <<side, definitions, frames>> /\ pc' = "done"
  <2>1. /\ Root' = Root /\ Reachable(Root)' = Reachable(Root) /\ Frame' = Frame
    BY <1>1, <1>3, SameProgram DEF Frame
  <2>2. Path' /\ Sourced'
    BY <2>1, <1>1, <1>3 DEF IInv, Path, Sourced, Members, Name, Definition
  <2> QED
    BY <2>2, <1>2, <1>3 DEF IInv, Collected, NoFalseAlarm
<1>4. CASE /\ side' = "receiver" /\ pc' = "build" /\ definitions' = <<>>
           /\ frames' = <<Enter(types, receiver)>>
  <2>1. Root' = receiver /\ receiver \in DOMAIN types /\ Frame' = Frame
    BY <1>1, <1>2, <1>4 DEF Root, ProgramOK, Frame
  <2> DEFINE call == Enter(types, receiver)
  <2>2. /\ call.type = receiver /\ call.at \in Int /\ call \in Frame
        /\ call.at = 0 \/ call.at = -1
        /\ call.at = 0 => types[receiver].kind = "enum"
    BY <2>1 DEF Enter, Frame
  <2>3. frames' = <<call>>
    BY <1>4
  <2> HIDE DEF call
  <2>4. /\ frames' \in Seq(Frame) /\ Len(frames') = 1 /\ frames'[1] = call
        /\ \A i \in 1..Len(frames') : i = 1 /\ frames'[i] = call
    BY <2>2, <2>3
  <2>5. Path'
    <3>1. call.at \in -1..Len(Members(receiver))
      <4>1. Len(Members(receiver)) \in Nat
        BY <1>2, <2>1 DEF ProgramOK, Members
      <4>2. \A m \in Nat : 0 \in -1..m /\ -1 \in -1..m
        OBVIOUS
      <4> QED
        BY <4>1, <4>2, <2>2
    <3> QED
      BY <3>1, <1>1, <2>1, <2>2, <2>4 DEF Path, Members
  <2>6. DOMAIN definitions' = {}
    BY <1>4
  <2>7. Sourced'
    <3>1. Reachable(Root)' = Reachable(receiver)
      BY <1>1, <2>1 DEF Reachable, ClosedSets
    <3> QED
      BY <3>1, <1>2, <2>1, <2>2, <2>4, <2>6, ReachesItself DEF Sourced
  <2>8. Collected'
    <3>1. Added'
      BY <1>1, <2>2, <2>4 DEF Added, Visits
    <3>2. Returned'
      <4>1. \A j \in Nat : j >= 1 => ~(j < 0) /\ j # 0 /\ ~(j < -1) /\ j # -1
        OBVIOUS
      <4>2. \A m : \A j \in 1..m : j \in Nat /\ j >= 1
        OBVIOUS
      <4> QED
        BY <4>1, <4>2, <2>2, <2>4 DEF Returned
    <3>3. frames' # <<>>
      BY <2>3
    <3> QED
      BY <3>1, <3>2, <3>3, <2>6 DEF Collected, Owed, RootDefined
  <2> QED
    BY <1>2, <1>4, <2>5, <2>7, <2>8 DEF IInv, NoFalseAlarm
<1> QED
  BY <1>3, <1>4 DEF Decode

\* The other steps leave the calls and the map alone.
LEMMA OthersKeep ==
    ASSUME IInv, Send \/ Built \/ Compare \/ UNCHANGED vars
    PROVE  IInv'
<1>1. UNCHANGED <<program, side, definitions, frames>>
  BY DEF Send, Built, Compare, vars
<1>2. /\ types' = types /\ Root' = Root /\ Reachable(Root)' = Reachable(Root)
      /\ Frame' = Frame /\ ProgramOK' /\ (Clash(Root)' <=> Clash(Root))
  BY <1>1, SameProgram DEF IInv, Frame
<1>3. Path' /\ Sourced'
  BY <1>1, <1>2 DEF IInv, Path, Sourced, Members, Name, Definition
<1>4. pc' \in {"sent", "compare", "done"} \/ pc' = pc
  BY DEF Send, Built, Compare, vars
<1>5. Collected'
  <2>1. CASE pc' = "build"
    <3>1. pc = "build"
      BY <2>1, <1>4
    <3>2. Added' /\ Returned' /\ Owed' /\ RootDefined'
      BY <3>1, <1>1, <1>2 DEF IInv, Collected, Added, Returned, Owed, RootDefined, Visits,
                              Closed, Members, Name, Definition
    <3> QED
      BY <3>2 DEF Collected
  <2> QED
    BY <2>1 DEF Collected
<1>6. NoFalseAlarm'
  BY <1>2, <1>4 DEF IInv, NoFalseAlarm
<1> QED
  BY <1>1, <1>2, <1>3, <1>4, <1>5, <1>6 DEF IInv

-----------------------------------------------------------------------------
(* The theorems.                                                           *)

\* The inductive invariant holds throughout: the calls form a path from the
\* root, what is defined comes from types below it, and what a definition
\* mentions is defined or owed by a call under way.
THEOREM Invariance == Spec => []IInv
<1>1. Init => IInv
  BY InitIInv
<1>2. IInv /\ [Next]_vars => IInv'
  <2> SUFFICES ASSUME IInv, [Next]_vars PROVE IInv'
    OBVIOUS
  <2>1. CASE AddStruct
    BY <2>1, AddStructKeeps
  <2>2. CASE AddBuiltin
    BY <2>2, AddBuiltinKeeps
  <2>3. CASE CallMember
    BY <2>3, CallMemberKeeps
  <2>4. CASE AddEnum
    BY <2>4, AddEnumKeeps
  <2>5. CASE Return
    BY <2>5, ReturnKeeps
  <2>6. CASE Decode
    BY <2>6, DecodeKeeps
  <2>7. CASE Send \/ Built \/ Compare \/ UNCHANGED vars
    BY <2>7, OthersKeep
  <2> QED
    BY <2>1, <2>2, <2>3, <2>4, <2>5, <2>6, <2>7 DEF Next, Over
<1> QED
  BY <1>1, <1>2, PTL DEF Spec

\* The state is well formed for every program: each call was made by the one
\* below it, for the member that one is at.
THEOREM TypeCorrect == Spec => []TypeOK
<1>1. IInv => TypeOK
  <2> SUFFICES ASSUME IInv PROVE TypeOK
    OBVIOUS
  <2>1. DOMAIN frames = 1..Len(frames)
    BY DEF IInv, Path
  <2> QED
    BY <2>1 DEF IInv, Path, Members, TypeOK
<1> QED
  BY <1>1, Invariance, PTL

\* Building never panics when no two types below the root have one name and
\* different definitions, however types recur in each other.
THEOREM Alarms == Spec => []NoFalseAlarm
<1>1. IInv => NoFalseAlarm
  BY DEF IInv
<1> QED
  BY <1>1, Invariance, PTL

\* The definitions are those of the types below the root, when no two clash.
LEMMA ExactWithoutClash ==
    ASSUME IInv, Complete, ~Clash(Root), \A d \in DOMAIN definitions : Closed(d)
    PROVE  /\ DOMAIN definitions = {Name(t) : t \in Reachable(Root)}
           /\ \A t \in Reachable(Root) : definitions[Name(t)] = Definition(t)
<1> DEFINE C == {u \in Reachable(Root) : Name(u) \in DOMAIN definitions}
<1>1. ProgramOK /\ Sourced /\ RootDefined /\ Root \in DOMAIN types
  BY DEF IInv, Collected, Complete, ProgramOK, Root
<1>2. ASSUME NEW u \in C PROVE definitions[Name(u)] = Definition(u)
  <2>1. PICK v \in Reachable(Root) :
          Name(v) = Name(u) /\ definitions[Name(u)] = Definition(v)
    BY <1>1, <1>2 DEF Sourced
  <2> QED
    BY <2>1, <1>2 DEF Clash
<1>3. ASSUME NEW u \in C, NEW j \in 1..Len(Members(u)) PROVE Members(u)[j] \in C
  <2>1. u \in DOMAIN types
    BY <1>3 DEF Reachable
  <2>2. Name(Members(u)[j]) \in DOMAIN definitions
    BY <2>1, <1>1, <1>2, <1>3, MentionsMembers DEF Closed
  <2> QED
    BY <2>2, <1>1, <1>3, ReachesMembers
<1>4. Root \in C
  BY <1>1, ReachesItself DEF RootDefined, Complete
<1>5. C \in SUBSET DOMAIN types
  BY DEF Reachable
<1>6. Reachable(Root) \subseteq C
  BY <1>1, <1>3, <1>4, <1>5, ReachesNoMore
<1>7. DOMAIN definitions \subseteq {Name(t) : t \in Reachable(Root)}
  BY <1>1 DEF Sourced
<1> QED
  BY <1>2, <1>6, <1>7

\* So a container is exact.
LEMMA InvExact ==
    ASSUME IInv
    PROVE  Exact
<1> SUFFICES ASSUME Complete PROVE Exact
  BY DEF Exact
<1>1. ~\E i \in 1..Len(frames) : TRUE
  BY DEF Complete
<1>2. \A d \in DOMAIN definitions : Closed(d)
  BY <1>1 DEF IInv, Collected, Complete, Owed
<1>3. Name(Root) \in DOMAIN definitions
  BY DEF IInv, Collected, Complete, RootDefined
<1>4. \A d \in DOMAIN definitions : ToSet(definitions[d].of) \subseteq DOMAIN definitions
  BY <1>2 DEF Closed, ToSet
<1> QED
  BY <1>2, <1>3, <1>4, ExactWithoutClash DEF Exact

\* A container is exact for every program: it defines each name it mentions
\* and, if no two types below the root clash, it has the definitions of the
\* types reached from the root and no other.
THEOREM Exactness == Spec => []Exact
<1>1. IInv => Exact
  BY InvExact
<1> QED
  BY <1>1, Invariance, PTL

-----------------------------------------------------------------------------
(* How deep the calls get.                                                 *)

\* Every set of natural numbers has a least one.
LEMMA LeastNumber ==
    ASSUME NEW T \in SUBSET Nat, T # {}
    PROVE  \E m \in T : \A k \in T : m <= k
<1> DEFINE R == {ss \in Nat \X Nat : ss[1] < ss[2]}
<1>1. R = OpToRel(<, Nat)
  BY DEF OpToRel
<1>2. IsWellFoundedOn(R, Nat)
  BY <1>1, NatLessThanWellFounded
<1>3. PICK m \in T : \A k \in T : ~(<<k, m>> \in R)
  <2> HIDE DEF R
  <2> QED
    BY <1>2, WFMin
<1>4. ASSUME NEW k \in T PROVE m <= k
  <2>1. <<k, m>> \in Nat \X Nat /\ <<k, m>>[1] = k /\ <<k, m>>[2] = m
    OBVIOUS
  <2>2. ~(k < m)
    BY <1>3, <2>1
  <2> QED
    BY <2>2
<1> QED
  BY <1>4

\* One more than the elements of a set.
OneMore(S) == (S \X {1}) \cup {<<0, 0>>}

\* It has one more.
LEMMA OneMoreCounts ==
    ASSUME NEW S, IsFiniteSet(S)
    PROVE  /\ IsFiniteSet(OneMore(S))
           /\ Cardinality(OneMore(S)) = Cardinality(S) + 1
<1>1. IsFiniteSet({1}) /\ Cardinality({1}) = 1
  BY FS_Singleton
<1>2. Cardinality(S) \in Nat
  BY FS_CardinalityType
<1>3. IsFiniteSet(S \X {1}) /\ Cardinality(S \X {1}) = Cardinality(S)
  <2>1. \A T : IsFiniteSet(T) =>
          IsFiniteSet(S \X T) /\ Cardinality(S \X T) = Cardinality(S) * Cardinality(T)
    BY FS_Product
  <2>2. IsFiniteSet(S \X {1}) /\ Cardinality(S \X {1}) = Cardinality(S) * 1
    BY <1>1, <2>1
  <2>3. \A n \in Nat : n * 1 = n
    OBVIOUS
  <2> QED
    BY <1>2, <2>2, <2>3
<1>4. <<0, 0>> \notin S \X {1}
  OBVIOUS
<1> QED
  BY <1>3, <1>4, FS_AddElement DEF OneMore

\* What the programs are, besides ProgramOK: there are finitely many types, an
\* enum holds structs, and built-in types hold each other to a finite depth.
ProgramEnds ==
    /\ IsFiniteSet(DOMAIN types)
    /\ \A t \in DOMAIN types : types[t].kind = "enum" =>
         \A i \in DOMAIN types[t].of : types[types[t].of[i]].kind = "struct"
    /\ \A T \in SUBSET {t \in DOMAIN types : types[t].kind = "builtin"} :
         T # {} => \E t \in T : ToSet(types[t].of) \cap T = {}

\* Call i is of a struct; it is visiting its members.
OfStruct(i) == types[frames[i].type].kind = "struct"
Inside(i) == OfStruct(i) /\ frames[i].at >= 0

\* A struct calls its members only if its name was new, so no two structs of one
\* name are calling theirs.
NamesDiffer ==
    \A i, j \in 1..Len(frames) :
        i < j /\ Inside(i) /\ Inside(j) => Name(frames[i].type) # Name(frames[j].type)

DInv == ProgramEnds /\ NamesDiffer

\* The first call.
LEMMA InitDInv ==
    ASSUME Init
    PROVE  DInv
<1>1. ProgramEnds
  <2>1. PICK p \in Programs : types = p.types /\ sender = p.sender /\ receiver = p.receiver
    BY DEF Init
  <2> QED
    BY <2>1, ProgramsAssumption DEF ProgramEnds
<1>2. Len(frames) = 1
  <2> DEFINE call == Enter(types, sender)
  <2>1. frames = <<call>>
    BY DEF Init
  <2> HIDE DEF call
  <2> QED
    BY <2>1
<1>3. NamesDiffer
  <2>1. \A i, j \in 1..1 : ~(i < j)
    OBVIOUS
  <2> QED
    BY <1>2, <2>1 DEF NamesDiffer
<1> QED
  BY <1>1, <1>3 DEF DInv

\* Calls that are left as they were, and a last one that is visiting no members
\* or has a name no other has.
LEMMA StillDiffer ==
    ASSUME NamesDiffer, types' = types, NEW m \in Nat, m <= Len(frames), Len(frames) \in Nat,
           Len(frames') = m \/ Len(frames') = m + 1,
           \A i \in 1..m : Inside(i)' => Inside(i) /\ frames'[i].type = frames[i].type,
           Len(frames') = m + 1 => ~Inside(m + 1)'
    PROVE  NamesDiffer'
<1> SUFFICES ASSUME NEW i \in 1..Len(frames'), NEW j \in 1..Len(frames'), i < j,
                    Inside(i)', Inside(j)'
             PROVE  types'[frames'[i].type].name # types'[frames'[j].type].name
  BY DEF NamesDiffer, Name
<1>1. i \in 1..m /\ j \in 1..m
  <2>1. (i # m + 1 /\ j # m + 1) \/ Len(frames') = m
    OBVIOUS
  <2> QED
    BY <2>1
<1>2. Inside(i) /\ Inside(j) /\ frames'[i].type = frames[i].type /\ frames'[j].type = frames[j].type
  BY <1>1
<1>3. i \in 1..Len(frames) /\ j \in 1..Len(frames)
  BY <1>1
<1> QED
  BY <1>2, <1>3 DEF NamesDiffer, Name

\* A return.
LEMMA DifferReturn ==
    ASSUME NamesDiffer, Path, Running, types' = types, frames' = Front(frames)
    PROVE  NamesDiffer'
<1>1. PICK n \in Nat : n = Len(frames) /\ n # 0
  BY TopCall
<1>2. Len(frames') = n - 1 /\ \A i \in 1..n - 1 : frames'[i] = frames[i]
  BY <1>1, FrontFrames
<1>3. \A i \in 1..n - 1 : Inside(i)' => Inside(i) /\ frames'[i].type = frames[i].type
  BY <1>2 DEF Inside, OfStruct
<1>4. n - 1 \in Nat /\ n - 1 <= Len(frames) /\ Len(frames) \in Nat /\ Len(frames') # n - 1 + 1
  BY <1>1, <1>2
<1> DEFINE m == n - 1
<1>5. m \in Nat /\ m <= Len(frames) /\ Len(frames) \in Nat /\ Len(frames') = m /\ Len(frames') # m + 1
      /\ \A i \in 1..m : Inside(i)' => Inside(i) /\ frames'[i].type = frames[i].type
  BY <1>2, <1>3, <1>4
<1> HIDE DEF m
<1> QED
  BY <1>5, StillDiffer

\* A built-in type calls its members.
LEMMA DifferAdvanced ==
    ASSUME NamesDiffer, Path, Running, types' = types, frames' = Advanced,
           types[Top.type].kind # "struct"
    PROVE  NamesDiffer'
<1>1. PICK n \in Nat : n = Len(frames) /\ n # 0
  BY TopCall
<1>2. /\ Len(frames') = n /\ frames'[n].type = Top.type
      /\ \A i \in 1..n - 1 : frames'[i] = frames[i]
  BY <1>1, AdvancedFrames
<1>3. \A i \in 1..n : i \in 1..n - 1 \/ i = n
  BY <1>1
<1>4. \A i \in 1..n : Inside(i)' => Inside(i) /\ frames'[i].type = frames[i].type
  BY <1>2, <1>3 DEF Inside, OfStruct
<1>5. n <= Len(frames) /\ n # n + 1
  BY <1>1
<1> QED
  BY <1>1, <1>2, <1>4, <1>5, StillDiffer

\* Another member is called.
LEMMA DifferCall ==
    ASSUME NamesDiffer, ProgramOK, Path, Running, types' = types, CallsNext
    PROVE  NamesDiffer'
<1>1. PICK n \in Nat : n = Len(frames) /\ n # 0
  BY TopCall
<1>2. /\ Len(frames') = n + 1
      /\ \A i \in 1..n - 1 : frames'[i] = frames[i]
      /\ frames'[n].type = frames[n].type
      /\ frames'[n + 1].at = IF types[frames'[n + 1].type].kind = "enum" THEN 0 ELSE -1
  BY <1>1, CalledFrames DEF CallsNext
<1>3. Top = frames[n] /\ Top.at >= 0
  <2>1. \A m \in Nat : \A a \in 0..m - 1 : a >= 0
    OBVIOUS
  <2>2. Len(Members(Top.type)) \in Nat
    BY TopCall DEF ProgramOK, Members
  <2> QED
    BY <1>1, <2>1, <2>2, TopCall DEF CallsNext
<1>4. \A i \in 1..n : i \in 1..n - 1 \/ i = n
  BY <1>1
<1>5. \A i \in 1..n : Inside(i)' => Inside(i) /\ frames'[i].type = frames[i].type
  BY <1>2, <1>3, <1>4 DEF Inside, OfStruct
<1>6. ~Inside(n + 1)'
  BY <1>2 DEF Inside, OfStruct
<1>7. n <= Len(frames)
  BY <1>1
<1> QED
  BY <1>1, <1>2, <1>5, <1>6, <1>7, StillDiffer

\* A struct whose name is new calls its members.
LEMMA DifferStruct ==
    ASSUME NamesDiffer, Path, Added, Running, types' = types, frames' = Advanced,
           Name(Top.type) \notin DOMAIN definitions
    PROVE  NamesDiffer'
<1>1. PICK n \in Nat : n = Len(frames) /\ n # 0
  BY TopCall
<1>2. /\ Len(frames') = n /\ frames'[n].type = Top.type /\ Top = frames[n]
      /\ \A i \in 1..n - 1 : frames'[i] = frames[i]
  BY <1>1, AdvancedFrames, TopCall
<1> SUFFICES ASSUME NEW i \in 1..n, NEW j \in 1..n, i < j, Inside(i)', Inside(j)'
             PROVE  types[frames'[i].type].name # types[frames'[j].type].name
  BY <1>2 DEF NamesDiffer, Name
<1>3. i \in 1..n - 1 /\ i \in 1..Len(frames) /\ j \in 1..Len(frames)
  BY <1>1
<1>4. frames'[i] = frames[i] /\ Inside(i)
  BY <1>2, <1>3 DEF Inside, OfStruct
<1>5. CASE j \in 1..n - 1
  BY <1>2, <1>3, <1>4, <1>5 DEF NamesDiffer, Name, Inside, OfStruct
<1>6. CASE j = n
  <2>1. Name(frames[i].type) \in DOMAIN definitions
    BY <1>3, <1>4 DEF Added, Visits, Inside, OfStruct
  <2> QED
    BY <2>1, <1>2, <1>4, <1>6 DEF Name
<1> QED
  BY <1>5, <1>6

\* No call is made and none returns.
LEMMA DifferUnchanged ==
    ASSUME NamesDiffer, Path, types' = types, frames' = frames
    PROVE  NamesDiffer'
<1> SUFFICES ASSUME NEW i \in 1..Len(frames), NEW j \in 1..Len(frames), i < j,
                    types[frames[i].type].kind = "struct" /\ frames[i].at >= 0,
                    types[frames[j].type].kind = "struct" /\ frames[j].at >= 0
             PROVE  types[frames[i].type].name # types[frames[j].type].name
  BY DEF NamesDiffer, Inside, OfStruct, Name
<1>1. Inside(i) /\ Inside(j)
  BY DEF Inside, OfStruct
<1> QED
  BY <1>1 DEF NamesDiffer, Name

\* No step lets two structs of one name call their members.
LEMMA NextDInv ==
    ASSUME IInv, DInv, [Next]_vars
    PROVE  DInv'
<1>1. types' = types
  BY DEF Next, vars, program, AddStruct, AddBuiltin, CallMember, AddEnum, Return, Send, Decode,
         Built, Compare, Over
<1>2. ProgramEnds'
  BY <1>1 DEF DInv, ProgramEnds
<1>3. NamesDiffer /\ ProgramOK /\ Path
  BY DEF DInv, IInv
<1>4. CASE AddStruct
  <2>1. Running /\ Added
    BY <1>4 DEF AddStruct, AtKind, IInv, Collected, Running
  <2>2. CASE Name(Top.type) \in DOMAIN definitions
    BY <2>1, <2>2, <1>1, <1>2, <1>3, <1>4, DifferReturn DEF AddStruct, DInv
  <2>3. CASE Name(Top.type) \notin DOMAIN definitions
    BY <2>1, <2>3, <1>1, <1>2, <1>3, <1>4, DifferStruct DEF AddStruct, DInv
  <2> QED
    BY <2>2, <2>3, <1>2 DEF DInv
<1>5. CASE AddBuiltin
  <2>1. Running /\ frames' = Advanced /\ types[Top.type].kind # "struct"
    BY <1>5 DEF AddBuiltin, AtKind
  <2> QED
    BY <2>1, <1>1, <1>2, <1>3, DifferAdvanced DEF DInv
<1>6. CASE CallMember
  <2>1. Running /\ CallsNext
    BY <1>6 DEF CallMember, CallsNext, Members
  <2> QED
    BY <2>1, <1>1, <1>2, <1>3, DifferCall DEF DInv
<1>7. CASE AddEnum \/ Return
  <2>1. Running /\ frames' = Front(frames)
    BY <1>7 DEF AddEnum, Return, MembersCalled
  <2> QED
    BY <2>1, <1>1, <1>2, <1>3, DifferReturn DEF DInv
<1>8. CASE Decode
  <2>1. CASE frames' = frames
    BY <2>1, <1>1, <1>2, <1>3, DifferUnchanged DEF DInv
  <2>2. CASE frames' = <<Enter(types, receiver)>>
    <3> DEFINE call == Enter(types, receiver)
    <3>1. Len(frames') = 1
      <4>1. frames' = <<call>>
        BY <2>2
      <4> HIDE DEF call
      <4> QED
        BY <4>1
    <3>2. \A i, j \in 1..1 : ~(i < j)
      OBVIOUS
    <3> QED
      BY <3>1, <3>2, <1>2 DEF DInv, NamesDiffer
  <2> QED
    BY <2>1, <2>2, <1>8 DEF Decode
<1>9. CASE Send \/ Built \/ Compare \/ Over \/ UNCHANGED vars
  <2>1. frames' = frames
    BY <1>9 DEF Send, Built, Compare, Over, vars
  <2> QED
    BY <2>1, <1>1, <1>2, <1>3, DifferUnchanged DEF DInv
<1> QED
  BY <1>4, <1>5, <1>6, <1>7, <1>8, <1>9 DEF Next

\* Call p, which is not above call i, is the last struct below it; 0, if none is.
LastStruct(i, p) ==
    /\ p \in 0..i - 1
    /\ p > 0 => OfStruct(p)
    /\ \A q \in 1..i - 1 : q > p => ~OfStruct(q)

\* Below each call there is a last struct, or none.
LEMMA LastStructIs ==
    ASSUME NEW i \in Nat, i > 0
    PROVE  \E p : LastStruct(i, p)
<1> DEFINE D == {k \in Nat : k < i /\ (k > 0 => OfStruct(k))}
           T == {i - k : k \in D}
<1>1. 0 \in D
  OBVIOUS
<1>2. T # {} /\ T \in SUBSET Nat
  BY <1>1
<1>3. PICK m \in T : \A k \in T : m <= k
  <2> HIDE DEF T
  <2> QED
    BY <1>2, LeastNumber
<1>4. PICK p \in D : m = i - p
  BY <1>3
<1>5. ASSUME NEW q \in 1..i - 1, q > p, OfStruct(q)
      PROVE  FALSE
  <2>1. q \in D
    BY <1>5
  <2>2. i - p <= i - q
    BY <2>1, <1>3, <1>4
  <2> QED
    BY <2>2, <1>4, <1>5
<1>6. p \in 0..i - 1 /\ (p > 0 => OfStruct(p))
  BY <1>4
<1> QED
  BY <1>5, <1>6 DEF LastStruct

\* A call below another is visiting a member of its type.
LEMMA BelowVisits ==
    ASSUME Path, NEW i \in 1..Len(frames), NEW j \in 1..Len(frames), i < j
    PROVE  /\ frames[i].at \in 1..Len(Members(frames[i].type))
           /\ frames[i + 1].type = Members(frames[i].type)[frames[i].at]
<1>0. Len(frames) \in Nat
  BY DEF Path
<1>1. i + 1 \in 1..Len(frames) /\ i + 1 > 1 /\ i + 1 - 1 = i
  BY <1>0
<1>2. frames[i].at > 0 /\ frames[i + 1].type = Members(frames[i].type)[frames[i].at]
  BY <1>1 DEF Path
<1>3. frames[i].at \in -1..Len(Members(frames[i].type))
  BY DEF Path
<1> QED
  BY <1>2, <1>3

\* The type of a call under way is a type.
LEMMA CallsOfTypes ==
    ASSUME IInv, NEW i \in 1..Len(frames)
    PROVE  frames[i].type \in DOMAIN types
  BY DEF IInv, Sourced, Reachable

\* A call of no struct, whose member is called, and is no struct, is of a
\* built-in type.
LEMMA BetweenStructs ==
    ASSUME IInv, ProgramEnds, NEW k \in 1..Len(frames), k + 1 \in 1..Len(frames),
           ~OfStruct(k), ~OfStruct(k + 1)
    PROVE  /\ types[frames[k].type].kind = "builtin"
           /\ frames[k + 1].type \in ToSet(types[frames[k].type].of)
<1> DEFINE t == frames[k].type
<1>1. t \in DOMAIN types
  BY CallsOfTypes
<1>2. types[t].kind \in Kinds /\ types[t].of \in Seq(DOMAIN types)
  BY <1>1 DEF IInv, ProgramOK
<1>3. Path /\ k < k + 1
  BY DEF IInv
<1>4. /\ frames[k].at \in 1..Len(types[t].of)
      /\ frames[k + 1].type = types[t].of[frames[k].at]
  BY <1>3, BelowVisits DEF Members
<1>5. frames[k].at \in DOMAIN types[t].of /\ ToSet(types[t].of) = {types[t].of[n] : n \in DOMAIN types[t].of}
  BY <1>2, <1>4, SetOfSeq
<1>6. types[t].kind # "enum"
  BY <1>1, <1>4, <1>5 DEF ProgramEnds, OfStruct
<1>7. types[t].kind # "struct"
  BY DEF OfStruct
<1> QED
  BY <1>2, <1>4, <1>5, <1>6, <1>7 DEF Kinds

\* Calls with no struct among them are of different types.
LEMMA TypesDiffer ==
    ASSUME IInv, ProgramEnds, NEW i \in 1..Len(frames), NEW j \in 1..Len(frames), i < j,
           \A q \in i..j : ~OfStruct(q)
    PROVE  frames[i].type # frames[j].type
<1> SUFFICES ASSUME frames[i].type = frames[j].type
             PROVE  FALSE
  OBVIOUS
<1> DEFINE T == {frames[k].type : k \in i..j - 1}
<1>1. ASSUME NEW k \in i..j - 1
      PROVE  /\ types[frames[k].type].kind = "builtin"
             /\ frames[k].type \in DOMAIN types
             /\ frames[k + 1].type \in ToSet(types[frames[k].type].of)
  <2>0. Len(frames) \in Nat
    BY DEF IInv, Path
  <2>1. k \in 1..Len(frames) /\ k + 1 \in 1..Len(frames) /\ k \in i..j /\ k + 1 \in i..j
    BY <2>0
  <2> QED
    BY <2>1, BetweenStructs, CallsOfTypes
<1>2. ASSUME NEW k \in i..j - 1
      PROVE  frames[k + 1].type \in T
  <2>1. CASE k + 1 \in i..j - 1
    BY <2>1
  <2>2. CASE k + 1 = j
    <3>1. i \in i..j - 1
      OBVIOUS
    <3> QED
      BY <3>1, <2>2
  <2> QED
    BY <2>1, <2>2
<1>3. T \in SUBSET {t \in DOMAIN types : types[t].kind = "builtin"}
  BY <1>1
<1>4. T # {}
  <2>1. i \in i..j - 1
    OBVIOUS
  <2> QED
    BY <2>1
<1>5. PICK t \in T : ToSet(types[t].of) \cap T = {}
  <2> HIDE DEF T
  <2> QED
    BY <1>3, <1>4 DEF ProgramEnds
<1>6. PICK k \in i..j - 1 : t = frames[k].type
  BY <1>5
<1> QED
  BY <1>1, <1>2, <1>5, <1>6

\* What tells the calls under way apart: the last struct below, by its name, and
\* the type, if it is no struct.
Block(p) == IF p = 0 THEN <<0, 0>> ELSE <<Name(frames[p].type), 1>>
Tag(i) == IF OfStruct(i) THEN <<0, 0>> ELSE <<frames[i].type, 1>>

\* Calls of one tag have different structs below.
LEMMA CallsToldApart ==
    ASSUME IInv, DInv, NEW i \in 1..Len(frames), NEW j \in 1..Len(frames), i < j,
           NEW p, NEW q, LastStruct(i, p), LastStruct(j, q), Tag(i) = Tag(j)
    PROVE  Block(p) # Block(q)
<1>0. Path /\ Len(frames) \in Nat
  <2>1. Path
    BY DEF IInv
  <2> QED
    BY <2>1 DEF Path
<1>1. p \in 0..i - 1 /\ q \in 0..j - 1
  BY DEF LastStruct
<1>2. ASSUME NEW r \in 1..j - 1, OfStruct(r)
      PROVE  r \in 1..Len(frames) /\ Inside(r)
  <2>1. r \in 1..Len(frames) /\ r < j
    BY <1>0
  <2>2. frames[r].at \in 1..Len(Members(frames[r].type))
    BY <1>0, <2>1, BelowVisits
  <2>3. \A n : \A a \in 1..n : a >= 0
    OBVIOUS
  <2> QED
    BY <1>2, <2>1, <2>2, <2>3 DEF Inside
<1>3. q > 0 => OfStruct(q)
  BY DEF LastStruct
<1>4. p > 0 => OfStruct(p)
  BY DEF LastStruct
<1>5. CASE q >= i
  <2>1. q > 0 /\ q \in 1..j - 1 /\ p < q
    BY <1>1, <1>5
  <2>2. CASE p = 0
    <3>1. Block(p)[2] = 0 /\ Block(q)[2] = 1
      BY <2>1, <2>2 DEF Block
    <3> QED
      BY <3>1
  <2>3. CASE p # 0
    <3>1. p \in 1..j - 1 /\ OfStruct(p) /\ OfStruct(q)
      BY <1>1, <1>3, <1>4, <2>1, <2>3
    <3>2. Inside(p) /\ Inside(q) /\ p \in 1..Len(frames) /\ q \in 1..Len(frames)
      BY <1>2, <2>1, <3>1
    <3>3. Name(frames[p].type) # Name(frames[q].type)
      BY <2>1, <3>2 DEF DInv, NamesDiffer
    <3> QED
      BY <3>3, <2>1, <2>3 DEF Block
  <2> QED
    BY <2>2, <2>3
<1>6. CASE q < i
  <2>1. \A r \in i..j - 1 : ~OfStruct(r)
    BY <1>1, <1>6 DEF LastStruct
  <2>2. ~OfStruct(i)
    BY <2>1
  <2>3. ~OfStruct(j) /\ frames[i].type = frames[j].type
    <3>1. OfStruct(j) => Tag(j)[2] = 0
      BY DEF Tag
    <3>2. Tag(i)[2] = 1
      BY <2>2 DEF Tag
    <3>3. ~OfStruct(j)
      BY <3>1, <3>2
    <3> QED
      BY <3>3, <2>2 DEF Tag
  <2>4. \A r \in i..j : ~OfStruct(r)
    <3>1. \A r \in i..j : r \in i..j - 1 \/ r = j
      OBVIOUS
    <3> QED
      BY <2>1, <2>3, <3>1
  <2> QED
    BY <2>3, <2>4, TypesDiffer DEF DInv
<1> QED
  BY <1>1, <1>5, <1>6

\* There are no more calls than pairs of a name of a struct, or none, and of
\* another type, or none.
LEMMA InvDepth ==
    ASSUME IInv, DInv
    PROVE  DepthBounded
<1> DEFINE structs == {t \in DOMAIN types : types[t].kind = "struct"}
           names == {Name(t) : t \in structs}
           others == DOMAIN types \ structs
           calls == 1..Len(frames)
<1>1. IsFiniteSet(DOMAIN types)
  BY DEF DInv, ProgramEnds
<1>2. IsFiniteSet(others) /\ IsFiniteSet(structs)
  BY <1>1, FS_Subset
<1>3. IsFiniteSet(names)
  <2> DEFINE f == [t \in structs |-> Name(t)]
  <2>1. f \in Surjection(structs, names)
    BY DEF Surjection
  <2> HIDE DEF f, structs, names
  <2> QED
    BY <1>2, <2>1, FS_Surjection
<1>4. Len(frames) \in Nat
  BY DEF IInv, Path
<1>5. ASSUME NEW i \in calls
      PROVE  \E p : LastStruct(i, p)
  BY <1>4, LastStructIs
<1> DEFINE below(i) == CHOOSE p : LastStruct(i, p)
           f == [i \in calls |-> <<Block(below(i)), Tag(i)>>]
<1>6. ASSUME NEW i \in calls
      PROVE  LastStruct(i, below(i))
  BY <1>5
<1>7. ASSUME NEW i \in calls
      PROVE  Block(below(i)) \in OneMore(names) /\ Tag(i) \in OneMore(others)
  <2> DEFINE p == below(i)
  <2>1. LastStruct(i, p)
    BY <1>6
  <2> HIDE DEF p
  <2>2. ASSUME p # 0
        PROVE  frames[p].type \in structs
    <3>1. p \in calls /\ OfStruct(p)
      BY <2>1, <2>2, <1>4 DEF LastStruct
    <3> QED
      BY <3>1, CallsOfTypes DEF OfStruct
  <2>3. Block(p) \in OneMore(names)
    BY <2>2 DEF Block, OneMore
  <2>4. Tag(i) \in OneMore(others)
    BY CallsOfTypes DEF Tag, OneMore, OfStruct
  <2> QED
    BY <2>3, <2>4 DEF p
<1>8. ASSUME NEW i \in calls, NEW j \in calls, i < j
      PROVE  f[i] # f[j]
  <2> DEFINE p == below(i)
             q == below(j)
  <2>1. LastStruct(i, p) /\ LastStruct(j, q)
    BY <1>6
  <2>2. f[i] = <<Block(p), Tag(i)>> /\ f[j] = <<Block(q), Tag(j)>>
    OBVIOUS
  <2>3. Tag(i) = Tag(j) => Block(p) # Block(q)
    <3> HIDE DEF p, q, f
    <3> QED
      BY <1>8, <2>1, CallsToldApart
  <2>4. f[i] = f[j] => Tag(i) = Tag(j) /\ Block(p) = Block(q)
    <3> HIDE DEF p, q, f
    <3> QED
      BY <2>2
  <2> HIDE DEF p, q, f
  <2> QED
    BY <2>3, <2>4
<1>9. f \in Injection(calls, OneMore(names) \X OneMore(others))
  <2>1. f \in [calls -> OneMore(names) \X OneMore(others)]
    <3> HIDE DEF below, names, others, calls
    <3> QED
      BY <1>7
  <2> HIDE DEF f
  <2>2. ASSUME NEW i \in calls, NEW j \in calls, f[i] = f[j]
        PROVE  i = j
    <3>1. ~(i < j) /\ ~(j < i)
      BY <1>8, <2>2
    <3> QED
      BY <3>1
  <2> HIDE DEF calls, names, others
  <2> QED
    BY <2>1, <2>2, Fun_IsInj
<1> DEFINE a == Cardinality(names) + 1
           b == Cardinality(others) + 1
<1>10. /\ IsFiniteSet(OneMore(names)) /\ Cardinality(OneMore(names)) = a
       /\ IsFiniteSet(OneMore(others)) /\ Cardinality(OneMore(others)) = b
  <2> HIDE DEF names, others
  <2> QED
    BY <1>2, <1>3, OneMoreCounts
<1>11. /\ IsFiniteSet(OneMore(names) \X OneMore(others))
       /\ Cardinality(OneMore(names) \X OneMore(others)) = a * b
  <2>1. \A S, T : IsFiniteSet(S) /\ IsFiniteSet(T) =>
          IsFiniteSet(S \X T) /\ Cardinality(S \X T) = Cardinality(S) * Cardinality(T)
    BY FS_Product
  <2> HIDE DEF names, others, a, b
  <2> QED
    BY <1>10, <2>1
<1>12. Cardinality(calls) <= a * b
  <2> HIDE DEF calls, f, names, others, a, b
  <2> QED
    BY <1>9, <1>11, FS_Injection
<1>13. Cardinality(calls) = Len(frames)
  <2>1. Cardinality(1..Len(frames)) = IF 1 > Len(frames) THEN 0 ELSE Len(frames) - 1 + 1
    BY <1>4, FS_Interval
  <2> QED
    BY <1>4, <2>1
<1> QED
  BY <1>12, <1>13 DEF DepthBounded

\* Building ends however types recur: the calls under way are bounded by the
\* names of the structs and the number of the other types.
THEOREM DepthIsBounded == Spec => []DepthBounded
<1>1. Init => DInv
  BY InitDInv
<1>2. IInv /\ DInv /\ [Next]_vars => DInv'
  BY NextDInv
<1>3. IInv /\ DInv => DepthBounded
  BY InvDepth
<1> QED
  BY <1>1, <1>2, <1>3, Invariance, PTL DEF Spec

-----------------------------------------------------------------------------
(* Pairs of types two readers meet.                                        *)

\* What holds at 0 and is passed on to the next holds up to n.
LEMMA UpTo ==
    ASSUME NEW n \in Nat, NEW T \in SUBSET (0..n), 0 \in T,
           \A i \in 0..n : i > 0 /\ i - 1 \in T => i \in T
    PROVE  T = 0..n
<1> DEFINE U == (0..n) \ T
<1>1. SUFFICES ASSUME U # {} PROVE FALSE
  OBVIOUS
<1>2. PICK m \in U : \A k \in U : m <= k
  <2>1. U \in SUBSET Nat
    OBVIOUS
  <2> HIDE DEF U
  <2> QED
    BY <1>1, <2>1, LeastNumber
<1>3. m - 1 \in T
  BY <1>2
<1> QED
  BY <1>2, <1>3

\* f starts with base and goes on with next.
Steps(f, n, base, next) == f[0] = base /\ \A i \in 1..n : f[i] = next[f[i - 1]]

\* A function may be defined by its value at 0 and a step.
LEMMA StepsExist ==
    ASSUME NEW V, NEW base \in V, NEW next \in [V -> V], NEW n \in Nat
    PROVE  \E f \in [0..n -> V] : Steps(f, n, base, next)
<1> DEFINE Upto(m, f) == f[0] = base /\ \A i \in 1..m : f[i] = next[f[i - 1]]
           T == {m \in 0..n : \E f \in [0..m -> V] : Upto(m, f)}
<1>1. 0 \in T
  <2> DEFINE g == [i \in 0..0 |-> base]
  <2>1. g \in [0..0 -> V] /\ g[0] = base /\ 0 \in 0..n
    OBVIOUS
  <2>2. \A i \in 1..0 : g[i] = next[g[i - 1]]
    OBVIOUS
  <2> HIDE DEF g
  <2> QED
    BY <2>1, <2>2
<1>2. ASSUME NEW m \in 0..n, m > 0, m - 1 \in T PROVE m \in T
  <2>1. PICK f \in [0..(m - 1) -> V] : Upto(m - 1, f)
    BY <1>2
  <2> DEFINE g == [i \in 0..m |-> IF i < m THEN f[i] ELSE next[f[m - 1]]]
  <2>2. f[m - 1] \in V /\ next[f[m - 1]] \in V
    BY <1>2
  <2>3. g \in [0..m -> V]
    BY <2>2
  <2>4. g[0] = base
    BY <1>2, <2>1
  <2>5. ASSUME NEW i \in 1..m PROVE g[i] = next[g[i - 1]]
    <3>1. CASE i < m
      BY <2>1, <3>1
    <3>2. CASE i = m
      BY <1>2, <3>2
    <3> QED
      BY <3>1, <3>2
  <2> QED
    BY <2>3, <2>4, <2>5
<1>3. T = 0..n
  <2> HIDE DEF T
  <2>1. T \in SUBSET (0..n)
    BY DEF T
  <2> QED
    BY <1>1, <1>2, <2>1, UpTo
<1> QED
  BY <1>3 DEF Steps

TypePairs == (DOMAIN types) \X (DOMAIN types)
Further(met) == met \cup UNION {BothMembers(p) : p \in met}

\* met[i] are the pairs of types the readers meet in up to i steps.
IsMeeting(s, r, n, met) ==
    /\ met \in [0..n -> SUBSET TypePairs]
    /\ met[0] = {<<s, r>>}
    /\ \A i \in 1..n : met[i] = Further(met[i - 1])

\* There are finitely many pairs of types.
LEMMA PairsFinite ==
    ASSUME ProgramEnds
    PROVE  IsFiniteSet(TypePairs) /\ Cardinality(TypePairs) \in Nat
<1>1. \A S, T : IsFiniteSet(S) /\ IsFiniteSet(T) => IsFiniteSet(S \X T)
  BY FS_Product
<1>2. IsFiniteSet(TypePairs)
  BY <1>1 DEF TypePairs, ProgramEnds
<1> QED
  BY <1>2, FS_CardinalityType

\* Pairs of types have pairs of members.
LEMMA FurtherPairs ==
    ASSUME ProgramOK, NEW met \in SUBSET TypePairs
    PROVE  Further(met) \in SUBSET TypePairs
<1>1. ASSUME NEW p \in TypePairs
      PROVE  BothMembers(p) \subseteq TypePairs
  <2>1. p[1] \in DOMAIN types /\ p[2] \in DOMAIN types
    BY DEF TypePairs
  <2>2. types[p[1]].of \in Seq(DOMAIN types) /\ types[p[2]].of \in Seq(DOMAIN types)
    BY <2>1 DEF ProgramOK
  <2>3. \A i \in DOMAIN types[p[1]].of : types[p[1]].of[i] \in DOMAIN types
    BY <2>2
  <2>4. \A i \in DOMAIN types[p[2]].of : types[p[2]].of[i] \in DOMAIN types
    BY <2>2
  <2> QED
    BY <2>3, <2>4 DEF BothMembers, TypePairs
<1> QED
  BY <1>1 DEF Further

\* There are such sets, and the last one is Pairs.
LEMMA PairsMeet ==
    ASSUME ProgramOK, ProgramEnds, NEW s \in DOMAIN types, NEW r \in DOMAIN types
    PROVE  \E met : /\ IsMeeting(s, r, Cardinality(TypePairs), met)
                    /\ Pairs(s, r) = met[Cardinality(TypePairs)]
<1> DEFINE n == Cardinality(TypePairs)
           Body(f) == [i \in 0..n |-> IF i = 0 THEN {<<s, r>>} ELSE Further(f[i - 1])]
           next == [m \in SUBSET TypePairs |-> Further(m)]
<1>1. n \in Nat
  BY PairsFinite
<1>2. PICK f \in [0..n -> SUBSET TypePairs] :
        f[0] = {<<s, r>>} /\ \A i \in 1..n : f[i] = next[f[i - 1]]
  <2> DEFINE base == {<<s, r>>}
             V == SUBSET TypePairs
  <2>1. base \in V
    BY DEF TypePairs
  <2>2. next \in [V -> V]
    BY FurtherPairs
  <2> HIDE DEF next, base, n, V
  <2>3. \E f \in [0..n -> V] : Steps(f, n, base, next)
    BY <1>1, <2>1, <2>2, StepsExist
  <2> QED
    BY <2>3 DEF base, V, Steps
<1>3. \A i \in 1..n : f[i] = Further(f[i - 1])
  <2> SUFFICES ASSUME NEW i \in 1..n PROVE f[i] = Further(f[i - 1])
    OBVIOUS
  <2>1. i - 1 \in 0..n
    BY <1>1
  <2>2. f[i - 1] \in SUBSET TypePairs
    BY <2>1
  <2> QED
    BY <1>2, <2>2
<1>4. f = Body(f)
  BY <1>1, <1>2, <1>3
<1> DEFINE g == CHOOSE h : h = Body(h)
<1>5. g = Body(g)
  <2> HIDE DEF Body
  <2> QED
    BY <1>4
<1> HIDE DEF g
<1>6. g[0] = {<<s, r>>} /\ \A i \in 1..n : g[i] = Further(g[i - 1])
  <2>1. \A i \in 0..n : g[i] = Body(g)[i]
    BY <1>5
  <2> QED
    BY <1>1, <2>1
<1>7. g \in [0..n -> SUBSET TypePairs]
  <2> DEFINE T == {i \in 0..n : g[i] \in SUBSET TypePairs}
  <2>1. 0 \in T
    BY <1>1, <1>6 DEF TypePairs
  <2>2. ASSUME NEW i \in 0..n, i > 0, i - 1 \in T PROVE i \in T
    BY <1>1, <1>6, <2>2, FurtherPairs
  <2>3. T = 0..n
    <3>1. T \in SUBSET (0..n)
      OBVIOUS
    <3> HIDE DEF T, n
    <3> QED
      BY <1>1, <2>1, <2>2, <3>1, UpTo
  <2>4. DOMAIN Body(g) = 0..n /\ Body(g) = [i \in 0..n |-> Body(g)[i]]
    OBVIOUS
  <2>5. DOMAIN g = 0..n /\ g = [i \in 0..n |-> g[i]]
    BY <1>5, <2>4
  <2> QED
    BY <2>3, <2>5
<1>8. Pairs(s, r) = g[n]
  BY DEF Pairs, g, Further, TypePairs
<1> QED
  BY <1>6, <1>7, <1>8 DEF IsMeeting

\* The readers meet all there is: nothing further is met at the pairs they met.
LEMMA MeetingEnds ==
    ASSUME ProgramOK, ProgramEnds, NEW s \in DOMAIN types, NEW r \in DOMAIN types, NEW met,
           IsMeeting(s, r, Cardinality(TypePairs), met)
    PROVE  Further(met[Cardinality(TypePairs)]) = met[Cardinality(TypePairs)]
<1> DEFINE n == Cardinality(TypePairs)
           T == {i \in 0..n : Cardinality(met[i]) >= i + 1 \/ Further(met[i]) = met[i]}
<1>1. IsFiniteSet(TypePairs) /\ n \in Nat
  BY PairsFinite
<1>2. \A i \in 0..n : met[i] \in SUBSET TypePairs
  BY DEF IsMeeting
<1>3. ASSUME NEW i \in 0..n
      PROVE  IsFiniteSet(met[i]) /\ Cardinality(met[i]) \in Nat /\ Cardinality(met[i]) <= n
  <2>1. met[i] \in SUBSET TypePairs
    BY <1>2
  <2> QED
    BY <1>1, <2>1, FS_Subset, FS_CardinalityType
<1>4. 0 \in T
  <2>1. Cardinality(met[0]) = 1
    BY FS_Singleton DEF IsMeeting
  <2> QED
    BY <1>1, <2>1
<1>5. ASSUME NEW i \in 0..n, i > 0, i - 1 \in T
      PROVE  i \in T
  <2>1. i \in 1..n /\ i - 1 \in 0..n
    BY <1>1, <1>5
  <2>2. met[i] = Further(met[i - 1])
    BY <2>1 DEF IsMeeting
  <2>3. CASE Further(met[i - 1]) = met[i - 1]
    BY <2>2, <2>3
  <2>4. CASE Further(met[i - 1]) # met[i - 1]
    <3>1. met[i - 1] \in SUBSET met[i] /\ met[i - 1] # met[i]
      BY <2>2, <2>4 DEF Further
    <3>2. IsFiniteSet(met[i]) /\ Cardinality(met[i]) \in Nat
      BY <1>3
    <3>3. Cardinality(met[i - 1]) \in Nat
      BY <1>3, <2>1
    <3>4. /\ Cardinality(met[i - 1]) <= Cardinality(met[i])
          /\ Cardinality(met[i - 1]) # Cardinality(met[i])
      BY <3>1, <3>2, FS_Subset
    <3>5. Cardinality(met[i - 1]) >= i - 1 + 1
      BY <1>5, <2>4
    <3>6. Cardinality(met[i]) >= i + 1
      BY <3>2, <3>3, <3>4, <3>5
    <3> QED
      BY <3>6
  <2> QED
    BY <2>3, <2>4
<1>6. T = 0..n
  <2>1. T \in SUBSET (0..n)
    OBVIOUS
  <2> HIDE DEF T, n
  <2> QED
    BY <1>1, <1>4, <1>5, <2>1, UpTo
<1>7. n \in T
  BY <1>1, <1>6
<1> QED
  BY <1>1, <1>3, <1>7

\* Pairs are pairs of types, with the first one, and with the members of each.
LEMMA PairsClosed ==
    ASSUME ProgramOK, ProgramEnds, NEW s \in DOMAIN types, NEW r \in DOMAIN types
    PROVE  /\ Pairs(s, r) \subseteq TypePairs /\ <<s, r>> \in Pairs(s, r)
           /\ \A p \in Pairs(s, r) : BothMembers(p) \subseteq Pairs(s, r)
<1> DEFINE n == Cardinality(TypePairs)
<1>1. PICK met : IsMeeting(s, r, n, met) /\ Pairs(s, r) = met[n]
  BY PairsMeet
<1>2. n \in Nat
  BY PairsFinite
<1>3. Further(met[n]) = met[n]
  BY <1>1, MeetingEnds
<1> HIDE DEF n
<1>4. \A p \in met[n] : BothMembers(p) \subseteq met[n]
  BY <1>3 DEF Further
<1>5. met[n] \in SUBSET TypePairs
  BY <1>1, <1>2 DEF IsMeeting
<1>6. <<s, r>> \in met[n]
  <2> DEFINE T == {i \in 0..n : <<s, r>> \in met[i]}
  <2>1. 0 \in T
    BY <1>1, <1>2 DEF IsMeeting
  <2>2. ASSUME NEW i \in 0..n, i > 0, i - 1 \in T
        PROVE  i \in T
    BY <1>1, <1>2, <2>2 DEF IsMeeting, Further
  <2>3. T = 0..n
    <3>1. T \in SUBSET (0..n)
      OBVIOUS
    <3> HIDE DEF T
    <3> QED
      BY <1>2, <2>1, <2>2, <3>1, UpTo
  <2> QED
    BY <1>2, <2>3
<1> QED
  BY <1>1, <1>4, <1>5, <1>6

\* And no others: they are in every set that has these properties.
LEMMA PairsLeast ==
    ASSUME ProgramOK, ProgramEnds, NEW s \in DOMAIN types, NEW r \in DOMAIN types,
           NEW C, <<s, r>> \in C, \A p \in C \cap TypePairs : BothMembers(p) \subseteq C
    PROVE  Pairs(s, r) \subseteq C
<1> DEFINE n == Cardinality(TypePairs)
           T(met) == {i \in 0..n : met[i] \subseteq C}
<1>1. PICK met : IsMeeting(s, r, n, met) /\ Pairs(s, r) = met[n]
  BY PairsMeet
<1>2. n \in Nat
  BY PairsFinite
<1> HIDE DEF n
<1>3. 0 \in T(met)
  BY <1>1, <1>2 DEF IsMeeting
<1>4. ASSUME NEW i \in 0..n, i > 0, i - 1 \in T(met)
      PROVE  i \in T(met)
  <2>1. i \in 1..n /\ i - 1 \in 0..n /\ met[i - 1] \subseteq C
    BY <1>2, <1>4
  <2>2. met[i] = Further(met[i - 1]) /\ met[i - 1] \in SUBSET TypePairs
    BY <1>1, <2>1 DEF IsMeeting
  <2> QED
    BY <2>1, <2>2 DEF Further
<1>5. T(met) = 0..n
  <2>1. T(met) \in SUBSET (0..n)
    OBVIOUS
  <2> HIDE DEF T
  <2> QED
    BY <1>2, <1>3, <1>4, <2>1, UpTo
<1> QED
  BY <1>1, <1>2, <1>5

-----------------------------------------------------------------------------
(* Builds, as sequences of steps.  Two builds from types that are alike go *)
(* the same way.                                                           *)

\* add_definition turns map D into map E.
Adds(D, t, E) ==
    IF Name(t) \in DOMAIN D THEN D[Name(t)] = Definition(t) /\ E = D
    ELSE E = [d \in DOMAIN D \cup {Name(t)} |-> IF d = Name(t) THEN Definition(t) ELSE D[d]]

\* Calls F become calls G: the last one returns; or goes on; or calls type t.
Pops(F, G) == Len(G) = Len(F) - 1 /\ \A i \in 1..Len(F) - 1 : G[i] = F[i]
GoesOn(F, G) ==
    /\ \A i \in 1..Len(F) - 1 : G[i] = F[i]
    /\ G[Len(F)].type = F[Len(F)].type /\ G[Len(F)].at = F[Len(F)].at + 1
CallsOf(F, G, t) ==
    Len(G) = Len(F) + 1 /\ GoesOn(F, G) /\ G[Len(F) + 1].type = t
    /\ G[Len(F) + 1].at = IF types[t].kind = "enum" THEN 0 ELSE -1

\* A step of a build: b and c have a map and the calls under way.
Moves(b, c) ==
    LET n == Len(b.calls)
        t == b.calls[n].type
        at == b.calls[n].at
    IN  /\ n > 0 /\ at \in -1..Len(Members(t))
        /\ at = -1 =>
             /\ types[t].kind # "enum" /\ Adds(b.map, t, c.map)
             /\ IF types[t].kind = "struct" /\ Name(t) \in DOMAIN b.map THEN Pops(b.calls, c.calls)
                ELSE Len(c.calls) = n /\ GoesOn(b.calls, c.calls)
        /\ at \in 0..Len(Members(t)) - 1 =>
             c.map = b.map /\ CallsOf(b.calls, c.calls, Members(t)[at + 1])
        /\ at = Len(Members(t)) =>
             /\ Pops(b.calls, c.calls)
             /\ IF types[t].kind = "enum" THEN Adds(b.map, t, c.map) ELSE c.map = b.map

\* k steps of the build of root.
Run(root, run, k) ==
    /\ run[0].map = <<>> /\ Len(run[0].calls) = 1 /\ run[0].calls[1] = Enter(types, root)
    /\ \A i \in 0..k - 1 : Moves(run[i], run[i + 1])
    /\ \A i \in 0..k : Len(run[i].calls) \in Nat

\* D is built from root.
Builds(root, D) ==
    \E k \in Nat : \E run : Run(root, run, k) /\ run[k].map = D /\ Len(run[k].calls) = 0

\* Types that are alike, kind and all, at all pairs of P.
AllAlike(P) ==
    /\ P \subseteq TypePairs
    /\ \A p \in P : /\ Name(p[1]) = Name(p[2]) /\ Definition(p[1]) = Definition(p[2])
                    /\ types[p[1]].kind = types[p[2]].kind
                    /\ BothMembers(p) \subseteq P

\* Two builds are at the same point.
InStep(P, b, c) ==
    /\ b.map = c.map /\ Len(b.calls) = Len(c.calls)
    /\ \A i \in 1..Len(b.calls) :
         /\ <<b.calls[i].type, c.calls[i].type>> \in P
         /\ b.calls[i].at = c.calls[i].at

\* Types with one definition have as many members.
LEMMA AlikeMembers ==
    ASSUME ProgramOK, NEW t \in DOMAIN types, NEW u \in DOMAIN types, Definition(t) = Definition(u)
    PROVE  /\ Len(Members(t)) \in Nat /\ Len(Members(t)) = Len(Members(u))
           /\ DOMAIN types[t].of = 1..Len(Members(t)) /\ DOMAIN types[u].of = 1..Len(Members(t))
<1>1. types[t].of \in Seq(DOMAIN types) /\ types[u].of \in Seq(DOMAIN types)
  BY DEF ProgramOK
<1>2. DOMAIN Definition(t).of = DOMAIN types[t].of /\ DOMAIN Definition(u).of = DOMAIN types[u].of
  BY DEF Definition
<1>3. DOMAIN types[t].of = DOMAIN types[u].of
  BY <1>2
<1>4. Len(types[t].of) \in Nat /\ Len(types[u].of) \in Nat
      /\ DOMAIN types[t].of = 1..Len(types[t].of) /\ DOMAIN types[u].of = 1..Len(types[u].of)
  BY <1>1
<1>5. \A m, n \in Nat : 1..m = 1..n => m = n
  <2> SUFFICES ASSUME NEW m \in Nat, NEW n \in Nat, 1..m = 1..n, m # n PROVE FALSE
    OBVIOUS
  <2>1. CASE m < n
    <3>1. n \in 1..n /\ n \notin 1..m
      BY <2>1
    <3> QED
      BY <3>1
  <2>2. CASE n < m
    <3>1. m \in 1..m /\ m \notin 1..n
      BY <2>2
    <3> QED
      BY <3>1
  <2> QED
    BY <2>1, <2>2
<1>6. Len(types[t].of) = Len(types[u].of)
  BY <1>3, <1>4, <1>5
<1> QED
  BY <1>3, <1>4, <1>6 DEF Members

\* add_definition of types that are alike does the same.
LEMMA SameAdd ==
    ASSUME NEW t, NEW u, Name(t) = Name(u), Definition(t) = Definition(u), NEW D, NEW E, NEW G,
           Adds(D, t, E), Adds(D, u, G)
    PROVE  E = G
  BY DEF Adds

\* Builds that are in step return in step.
LEMMA PopsInStep ==
    ASSUME NEW P, NEW b, NEW c, NEW e, NEW f, InStep(P, b, c), Len(b.calls) \in Nat,
           Pops(b.calls, e.calls), Pops(c.calls, f.calls), e.map = f.map
    PROVE  InStep(P, e, f)
<1>1. PICK n \in Nat : n = Len(b.calls) /\ n = Len(c.calls)
  BY DEF InStep
<1>2. /\ Len(e.calls) = n - 1 /\ Len(f.calls) = n - 1
      /\ \A i \in 1..n - 1 : e.calls[i] = b.calls[i] /\ f.calls[i] = c.calls[i] /\ i \in 1..n
  BY <1>1 DEF Pops
<1> QED
  BY <1>1, <1>2 DEF InStep

\* They go on in step.
LEMMA GoesOnInStep ==
    ASSUME NEW P, NEW b, NEW c, NEW F, NEW G, InStep(P, b, c), Len(b.calls) \in Nat, Len(b.calls) > 0,
           GoesOn(b.calls, F), GoesOn(c.calls, G)
    PROVE  \A i \in 1..Len(b.calls) : <<F[i].type, G[i].type>> \in P /\ F[i].at = G[i].at
<1>1. PICK n \in Nat : n = Len(b.calls) /\ n = Len(c.calls)
  BY DEF InStep
<1>2. \A i \in 1..n : i \in 1..n - 1 \/ i = n
  BY <1>1
<1>3. ASSUME NEW i \in 1..n - 1
      PROVE  <<F[i].type, G[i].type>> \in P /\ F[i].at = G[i].at
  <2>1. F[i] = b.calls[i] /\ G[i] = c.calls[i] /\ i \in 1..n
    BY <1>1 DEF GoesOn
  <2> QED
    BY <1>1, <2>1 DEF InStep
<1>4. <<F[n].type, G[n].type>> \in P /\ F[n].at = G[n].at
  <2>1. n \in 1..n
    BY <1>1
  <2> QED
    BY <1>1, <2>1 DEF InStep, GoesOn
<1> QED
  BY <1>1, <1>2, <1>3, <1>4

\* Types that are alike are of one kind: their calls start at the same place.
LEMMA CallsInStep ==
    ASSUME NEW P, AllAlike(P), NEW b, NEW c, NEW e, NEW f, InStep(P, b, c),
           Len(b.calls) \in Nat, Len(b.calls) > 0, NEW t, NEW u, <<t, u>> \in P,
           CallsOf(b.calls, e.calls, t), CallsOf(c.calls, f.calls, u), e.map = f.map
    PROVE  InStep(P, e, f)
<1>1. PICK n \in Nat : n = Len(b.calls) /\ n = Len(c.calls)
  BY DEF InStep
<1>2. Len(e.calls) = n + 1 /\ Len(f.calls) = n + 1
  BY <1>1 DEF CallsOf
<1>3. \A i \in 1..n : <<e.calls[i].type, f.calls[i].type>> \in P /\ e.calls[i].at = f.calls[i].at
  <2>1. GoesOn(b.calls, e.calls) /\ GoesOn(c.calls, f.calls)
    BY DEF CallsOf
  <2> DEFINE F == e.calls
             G == f.calls
  <2>2. GoesOn(b.calls, F) /\ GoesOn(c.calls, G)
    BY <2>1
  <2> HIDE DEF F, G
  <2>3. \A i \in 1..Len(b.calls) : <<F[i].type, G[i].type>> \in P /\ F[i].at = G[i].at
    BY <2>2, GoesOnInStep
  <2> QED
    BY <1>1, <2>3 DEF F, G
<1>4. <<t, u>>[1] = t /\ <<t, u>>[2] = u
  OBVIOUS
<1>5. types[t].kind = types[u].kind
  BY <1>4 DEF AllAlike
<1>6. <<e.calls[n + 1].type, f.calls[n + 1].type>> \in P /\ e.calls[n + 1].at = f.calls[n + 1].at
  BY <1>1, <1>5 DEF CallsOf
<1>7. \A i \in 1..n + 1 : i \in 1..n \/ i = n + 1
  BY <1>1
<1> QED
  BY <1>2, <1>3, <1>6, <1>7 DEF InStep

\* Builds that are in step stay so.
LEMMA MovesInStep ==
    ASSUME ProgramOK, NEW P, AllAlike(P), NEW b, NEW c, NEW e, NEW f, InStep(P, b, c),
           Len(b.calls) \in Nat, Moves(b, e), Moves(c, f)
    PROVE  InStep(P, e, f)
<1>1. PICK n \in Nat : n = Len(b.calls) /\ n = Len(c.calls) /\ n > 0
  BY DEF InStep, Moves
<1> DEFINE t == b.calls[n].type
           u == c.calls[n].type
           at == b.calls[n].at
           m == Len(Members(t))
<1>2. n \in 1..n
  BY <1>1
<1>3. <<t, u>> \in P /\ c.calls[n].at = at /\ b.map = c.map
  BY <1>1, <1>2 DEF InStep
<1>4. <<t, u>>[1] = t /\ <<t, u>>[2] = u
  OBVIOUS
<1>5. /\ t \in DOMAIN types /\ u \in DOMAIN types
      /\ Name(t) = Name(u) /\ Definition(t) = Definition(u) /\ types[t].kind = types[u].kind
      /\ BothMembers(<<t, u>>) \subseteq P
  BY <1>3, <1>4 DEF AllAlike, TypePairs
<1>6. m \in Nat /\ Len(Members(u)) = m /\ DOMAIN types[t].of = 1..m /\ DOMAIN types[u].of = 1..m
  BY <1>5, AlikeMembers
<1>7. /\ at \in -1..m
      /\ at = -1 =>
           /\ Adds(b.map, t, e.map)
           /\ IF types[t].kind = "struct" /\ Name(t) \in DOMAIN b.map THEN Pops(b.calls, e.calls)
              ELSE Len(e.calls) = n /\ GoesOn(b.calls, e.calls)
      /\ at \in 0..m - 1 => e.map = b.map /\ CallsOf(b.calls, e.calls, Members(t)[at + 1])
      /\ at = m => /\ Pops(b.calls, e.calls)
                   /\ IF types[t].kind = "enum" THEN Adds(b.map, t, e.map) ELSE e.map = b.map
  BY <1>1 DEF Moves
<1>8. /\ at = -1 =>
           /\ Adds(b.map, u, f.map)
           /\ IF types[t].kind = "struct" /\ Name(t) \in DOMAIN b.map THEN Pops(c.calls, f.calls)
              ELSE Len(f.calls) = n /\ GoesOn(c.calls, f.calls)
      /\ at \in 0..m - 1 => f.map = b.map /\ CallsOf(c.calls, f.calls, Members(u)[at + 1])
      /\ at = m => /\ Pops(c.calls, f.calls)
                   /\ IF types[t].kind = "enum" THEN Adds(b.map, u, f.map) ELSE f.map = b.map
  BY <1>1, <1>3, <1>5, <1>6 DEF Moves
<1> HIDE DEF t, u, at, m
<1>9. CASE at = -1
  <2>1. e.map = f.map
    BY <1>5, <1>7, <1>8, <1>9, SameAdd
  <2>2. CASE types[t].kind = "struct" /\ Name(t) \in DOMAIN b.map
    BY <1>1, <1>7, <1>8, <1>9, <2>1, <2>2, PopsInStep
  <2>3. CASE ~(types[t].kind = "struct" /\ Name(t) \in DOMAIN b.map)
    <3>1. Len(e.calls) = n /\ GoesOn(b.calls, e.calls) /\ Len(f.calls) = n /\ GoesOn(c.calls, f.calls)
      BY <1>7, <1>8, <1>9, <2>3
    <3> DEFINE F == e.calls
               G == f.calls
    <3>2. GoesOn(b.calls, F) /\ GoesOn(c.calls, G) /\ Len(b.calls) > 0
      BY <1>1, <3>1
    <3> HIDE DEF F, G
    <3>3. \A i \in 1..Len(b.calls) : <<F[i].type, G[i].type>> \in P /\ F[i].at = G[i].at
      BY <3>2, GoesOnInStep
    <3> QED
      BY <1>1, <2>1, <3>1, <3>3 DEF InStep, F, G
  <2> QED
    BY <2>2, <2>3
<1>10. CASE at \in 0..m - 1
  <2>1. at + 1 \in 1..m
    BY <1>6, <1>10
  <2>2. <<Members(t)[at + 1], Members(u)[at + 1]>> \in BothMembers(<<t, u>>)
    BY <1>4, <1>6, <2>1 DEF BothMembers, Members
  <2>3. <<Members(t)[at + 1], Members(u)[at + 1]>> \in P
    BY <1>5, <2>2
  <2>4. e.map = f.map /\ CallsOf(b.calls, e.calls, Members(t)[at + 1])
        /\ CallsOf(c.calls, f.calls, Members(u)[at + 1])
    BY <1>7, <1>8, <1>10
  <2> QED
    BY <1>1, <2>3, <2>4, CallsInStep
<1>11. CASE at = m
  <2>1. e.map = f.map
    BY <1>5, <1>7, <1>8, <1>11, SameAdd
  <2> QED
    BY <1>1, <1>7, <1>8, <1>11, <2>1, PopsInStep
<1>12. at = -1 \/ at \in 0..m - 1 \/ at = m
  BY <1>6, <1>7
<1> QED
  BY <1>9, <1>10, <1>11, <1>12

\* Types that are alike, kind and all, have one map.
LEMMA SameBuild ==
    ASSUME ProgramOK, NEW P, AllAlike(P), NEW s, NEW r, <<s, r>> \in P,
           NEW D, NEW E, Builds(s, D), Builds(r, E)
    PROVE  D = E
<1>1. PICK k \in Nat : \E run : Run(s, run, k) /\ run[k].map = D /\ Len(run[k].calls) = 0
  BY DEF Builds
<1>2. PICK b : Run(s, b, k) /\ b[k].map = D /\ Len(b[k].calls) = 0
  BY <1>1
<1>3. PICK l \in Nat : \E run : Run(r, run, l) /\ run[l].map = E /\ Len(run[l].calls) = 0
  BY DEF Builds
<1>4. PICK c : Run(r, c, l) /\ c[l].map = E /\ Len(c[l].calls) = 0
  BY <1>3
<1>5. PICK n \in Nat : n <= k /\ n <= l /\ (n = k \/ n = l)
  <2>1. CASE k <= l
    BY <2>1
  <2>2. CASE l <= k
    BY <2>2
  <2> QED
    BY <2>1, <2>2
<1> DEFINE T == {i \in 0..n : InStep(P, b[i], c[i])}
<1>6. 0 \in T
  <2>1. <<s, r>>[1] = s /\ <<s, r>>[2] = r
    OBVIOUS
  <2>2. types[s].kind = types[r].kind
    BY <2>1 DEF AllAlike
  <2>3. /\ Enter(types, s).type = s /\ Enter(types, r).type = r
        /\ Enter(types, s).at = Enter(types, r).at
    BY <2>2 DEF Enter
  <2>4. \A i \in 1..1 : i = 1
    OBVIOUS
  <2>5. InStep(P, b[0], c[0])
    BY <1>2, <1>4, <2>3, <2>4 DEF InStep, Run
  <2> QED
    BY <2>5
<1>7. ASSUME NEW i \in 0..n, i > 0, i - 1 \in T
      PROVE  i \in T
  <2>1. i - 1 \in 0..k - 1 /\ i - 1 \in 0..l - 1 /\ i - 1 \in 0..k /\ i - 1 + 1 = i
    BY <1>5, <1>7
  <2>2. Moves(b[i - 1], b[i]) /\ Moves(c[i - 1], c[i]) /\ Len(b[i - 1].calls) \in Nat
    BY <1>2, <1>4, <2>1 DEF Run
  <2>3. InStep(P, b[i - 1], c[i - 1])
    BY <1>7
  <2>4. InStep(P, b[i], c[i])
    BY <2>2, <2>3, MovesInStep
  <2> QED
    BY <2>4
<1>8. InStep(P, b[n], c[n])
  <2>1. T \in SUBSET (0..n)
    OBVIOUS
  <2>2. T = 0..n
    <3> HIDE DEF T
    <3> QED
      BY <1>6, <1>7, <2>1, UpTo
  <2> QED
    BY <2>2
<1>9. n = k
  <2> SUFFICES ASSUME n # k PROVE FALSE
    OBVIOUS
  <2>1. n = l /\ n \in 0..k - 1
    BY <1>5
  <2>2. Len(b[n].calls) = 0 /\ Moves(b[n], b[n + 1])
    BY <1>2, <1>4, <1>8, <2>1 DEF InStep, Run
  <2> QED
    BY <2>2 DEF Moves
<1>10. n = l
  <2> SUFFICES ASSUME n # l PROVE FALSE
    OBVIOUS
  <2>1. n = k /\ n \in 0..l - 1
    BY <1>5
  <2>2. Len(c[n].calls) = 0 /\ Moves(c[n], c[n + 1])
    BY <1>2, <1>4, <1>8, <2>1 DEF InStep, Run
  <2> QED
    BY <2>2 DEF Moves
<1> QED
  BY <1>2, <1>4, <1>8, <1>9, <1>10 DEF InStep

-----------------------------------------------------------------------------
(* What the schema of the sender has to do with the answer.                *)

\* The definitions are those of the types below the root.
Describes(root, D) ==
    /\ DOMAIN D = {Name(t) : t \in Reachable(root)}
    /\ \A t \in Reachable(root) : D[Name(t)] = Definition(t)

\* Map D is one a build from root ends with.
Collects(root, D) == Builds(root, D) /\ (~Clash(root) => Describes(root, D))

\* The calls under way were reached step by step.
Here == [map |-> definitions, calls |-> frames]
UnderWay == \E k \in Nat : \E run : Run(Root, run, k) /\ run[k] = Here

\* Types that are alike, and of one kind at all pairs of types the readers meet.
AlikeInKind(s, r) ==
    Alike(s, r) /\ \A p \in Pairs(s, r) : types[p[1]].kind = types[p[2]].kind

\* The schema is that of the sender, and the answer follows from it.
HInv ==
    /\ ProgramEnds
    /\ pc = "build" => UnderWay
    /\ pc = "compare" => side = "receiver" /\ Collects(receiver, definitions)
    /\ pc = "sent" \/ side = "receiver" =>
         \E D : schema = [declaration |-> Name(sender), definitions |-> D] /\ Collects(sender, D)
    /\ pc = "done" =>
         /\ outcome = "accepted" /\ ~Clash(sender) /\ ~Clash(receiver) => Alike(sender, receiver)
         /\ AlikeInKind(sender, receiver) => outcome = "accepted"

\* These say something of the program only.
LEMMA OfProgram ==
    ASSUME UNCHANGED program
    PROVE  /\ types' = types /\ sender' = sender /\ receiver' = receiver
           /\ ProgramEnds' <=> ProgramEnds
           /\ \A D : Collects(sender, D)' <=> Collects(sender, D)
           /\ \A D : Collects(receiver, D)' <=> Collects(receiver, D)
           /\ Alike(sender, receiver)' <=> Alike(sender, receiver)
           /\ AlikeInKind(sender, receiver)' <=> AlikeInKind(sender, receiver)
           /\ Clash(sender)' <=> Clash(sender)
           /\ Clash(receiver)' <=> Clash(receiver)
           /\ \A root, run, k : Run(root, run, k)' <=> Run(root, run, k)
           /\ Name(sender)' = Name(sender)
<1>1. types' = types /\ sender' = sender /\ receiver' = receiver
  BY DEF program
<1>2. ProgramEnds' <=> ProgramEnds
  BY <1>1 DEF ProgramEnds
<1>3. \A root, run, k : Run(root, run, k)' <=> Run(root, run, k)
  BY <1>1 DEF Run, Moves, Adds, Pops, GoesOn, CallsOf, Members, Name, Definition
<1>4. /\ \A D : Builds(sender, D)' <=> Builds(sender, D)
      /\ \A D : Builds(receiver, D)' <=> Builds(receiver, D)
  BY <1>1, <1>3 DEF Builds
<1>5. /\ Reachable(sender)' = Reachable(sender) /\ Reachable(receiver)' = Reachable(receiver)
      /\ Clash(sender)' <=> Clash(sender)
      /\ Clash(receiver)' <=> Clash(receiver)
  BY <1>1 DEF Reachable, ClosedSets, Clash, Name, Definition
<1>6. /\ \A D : Describes(sender, D)' <=> Describes(sender, D)
      /\ \A D : Describes(receiver, D)' <=> Describes(receiver, D)
  BY <1>1, <1>5 DEF Describes, Name, Definition
<1>7. Pairs(sender, receiver)' = Pairs(sender, receiver)
  BY <1>1 DEF Pairs, BothMembers
<1>8. /\ Alike(sender, receiver)' <=> Alike(sender, receiver)
      /\ AlikeInKind(sender, receiver)' <=> AlikeInKind(sender, receiver)
  BY <1>1, <1>7 DEF Alike, AlikeInKind, Name, Definition
<1> QED
  BY <1>1, <1>2, <1>3, <1>4, <1>5, <1>6, <1>8 DEF Collects, Name

\* A build may be continued.
LEMMA RunGoesOn ==
    ASSUME NEW root, NEW k \in Nat, NEW run, Run(root, run, k), NEW b, Moves(run[k], b),
           Len(b.calls) \in Nat
    PROVE  \E more : Run(root, more, k + 1) /\ more[k + 1] = b
<1> DEFINE more == [i \in 0..k + 1 |-> IF i <= k THEN run[i] ELSE b]
<1>1. more[k + 1] = b /\ \A i \in 0..k : more[i] = run[i]
  OBVIOUS
<1> HIDE DEF more
<1>2. \A i \in 0..k + 1 : Len(more[i].calls) \in Nat
  <2>1. \A i \in 0..k + 1 : i \in 0..k \/ i = k + 1
    OBVIOUS
  <2> QED
    BY <1>1, <2>1 DEF Run
<1>3. ASSUME NEW i \in 0..k + 1 - 1
      PROVE  Moves(more[i], more[i + 1])
  <2>1. CASE i = k
    BY <1>1, <2>1
  <2>2. CASE i # k
    <3>1. i \in 0..k - 1 /\ i \in 0..k /\ i + 1 \in 0..k
      BY <2>2
    <3>2. Moves(run[i], run[i + 1])
      BY <3>1 DEF Run
    <3> QED
      BY <1>1, <3>1, <3>2
  <2> QED
    BY <2>1, <2>2
<1>4. more[0] = run[0]
  BY <1>1
<1>5. Run(root, more, k + 1)
  BY <1>2, <1>3, <1>4 DEF Run
<1> QED
  BY <1>1, <1>5

\* So it starts.
LEMMA RunStarts ==
    ASSUME NEW root, NEW D, NEW F, D = <<>>, F = <<Enter(types, root)>>
    PROVE  \E k \in Nat : \E run : Run(root, run, k) /\ run[k] = [map |-> D, calls |-> F]
<1> DEFINE b == [map |-> D, calls |-> F]
           run == [i \in 0..0 |-> b]
<1>1. run[0] = b /\ b.map = D /\ b.calls = F
  OBVIOUS
<1>2. Len(F) = 1 /\ F[1] = Enter(types, root)
  <2> DEFINE call == Enter(types, root)
  <2>1. F = <<call>>
    OBVIOUS
  <2> HIDE DEF call
  <2>2. Len(F) = 1 /\ F[1] = call
    BY <2>1
  <2> QED
    BY <2>2 DEF call
<1> HIDE DEF run, b
<1>3. \A i \in 0..0 : i = 0
  OBVIOUS
<1>4. ~\E i \in 0..0 - 1 : TRUE
  OBVIOUS
<1>5. Run(root, run, 0)
  BY <1>1, <1>2, <1>3, <1>4 DEF Run
<1>6. 0 \in Nat
  OBVIOUS
<1> QED
  BY <1>1, <1>5, <1>6 DEF b

\* add_definition that does not panic.
LEMMA AddsTop ==
    ASSUME Running, AddDefinition(Top.type), pc' = "build"
    PROVE  Adds(definitions, Top.type, definitions')
  BY DEF AddDefinition, Adds, Running

\* A step of the code that builds a container.
BuildStep == AddStruct \/ AddBuiltin \/ CallMember \/ AddEnum \/ Return

\* Each step of the code is one of a build.
LEMMA StepMoves ==
    ASSUME IInv, BuildStep, pc' = "build"
    PROVE  Moves(Here, [map |-> definitions', calls |-> frames'])
<1> DEFINE c == [map |-> definitions', calls |-> frames']
           t == Top.type
           at == Top.at
           m == Len(Members(t))
<1>1. Running /\ Path /\ ProgramOK
  <2>1. Running
    BY DEF BuildStep, AddStruct, AddBuiltin, CallMember, AddEnum, Return, AtKind, MembersCalled, Running
  <2> QED
    BY <2>1 DEF IInv
<1>2. PICK n \in Nat : n = Len(frames) /\ n > 0
  BY <1>1, TopCall
<1>3. Top = frames[n] /\ t \in DOMAIN types /\ at \in -1..m /\ m \in Nat
  <2>1. Top = frames[n] /\ t \in DOMAIN types /\ at \in -1..m
    BY <1>1, <1>2, TopCall
  <2>2. types[t].of \in Seq(DOMAIN types)
    BY <1>1, <2>1 DEF ProgramOK
  <2> QED
    BY <2>1, <2>2 DEF Members
<1>4. Here.map = definitions /\ Here.calls = frames /\ c.map = definitions' /\ c.calls = frames'
  BY DEF Here
<1>5. SUFFICES
        /\ at = -1 =>
             /\ types[t].kind # "enum" /\ Adds(definitions, t, definitions')
             /\ IF types[t].kind = "struct" /\ Name(t) \in DOMAIN definitions THEN Pops(frames, frames')
                ELSE Len(frames') = n /\ GoesOn(frames, frames')
        /\ at \in 0..m - 1 =>
             definitions' = definitions /\ CallsOf(frames, frames', Members(t)[at + 1])
        /\ at = m =>
             /\ Pops(frames, frames')
             /\ IF types[t].kind = "enum" THEN Adds(definitions, t, definitions')
                ELSE definitions' = definitions
  <2> HIDE DEF c
  <2> QED
    BY <1>2, <1>3, <1>4, <1>5 DEF Moves, c
<1>6. -1 \notin 0..m - 1 /\ -1 # m /\ m \notin 0..m - 1
  BY <1>3
<1>7. frames' = Front(frames) => Pops(frames, frames')
  BY <1>1, FrontFrames DEF Pops
<1>8. frames' = Advanced => Len(frames') = n /\ GoesOn(frames, frames')
  BY <1>1, <1>2, <1>3, AdvancedFrames DEF GoesOn
<1> HIDE DEF m
<1>9. CASE AddStruct
  <2>1. at = -1 /\ types[t].kind = "struct" /\ AddDefinition(t)
    BY <1>9 DEF AddStruct, AtKind
  <2>2. Adds(definitions, t, definitions')
    BY <1>1, <2>1, AddsTop
  <2>3. frames' = IF Name(t) \in DOMAIN definitions THEN Front(frames) ELSE Advanced
    BY <1>9 DEF AddStruct
  <2> QED
    BY <1>6, <1>7, <1>8, <2>1, <2>2, <2>3
<1>10. CASE AddBuiltin
  <2>1. at = -1 /\ types[t].kind = "builtin" /\ AddDefinition(t) /\ frames' = Advanced
    BY <1>10 DEF AddBuiltin, AtKind
  <2>2. Adds(definitions, t, definitions')
    BY <1>1, <2>1, AddsTop
  <2> QED
    BY <1>6, <1>8, <2>1, <2>2
<1>11. CASE CallMember
  <2>1. at \in 0..m - 1 /\ definitions' = definitions
    BY <1>11 DEF CallMember, Members, m
  <2>2. frames' = Append(Advanced, Enter(types, Members(t)[at + 1]))
    BY <1>11 DEF CallMember, Members
  <2>3. CallsOf(frames, frames', Members(t)[at + 1])
    BY <1>1, <1>2, <2>1, <2>2, CalledFrames DEF CallsOf, GoesOn, m
  <2> QED
    BY <1>6, <2>1, <2>3
<1>12. CASE AddEnum
  <2>1. at = m /\ types[t].kind = "enum" /\ AddDefinition(t) /\ frames' = Front(frames)
    BY <1>12 DEF AddEnum, MembersCalled, Members, m
  <2>2. Adds(definitions, t, definitions')
    BY <1>1, <2>1, AddsTop
  <2> QED
    BY <1>6, <1>7, <2>1, <2>2
<1>13. CASE Return
  <2>1. at = m /\ types[t].kind # "enum" /\ definitions' = definitions /\ frames' = Front(frames)
    BY <1>13 DEF Return, MembersCalled, Members, m
  <2> QED
    BY <1>6, <1>7, <2>1
<1> QED
  BY <1>9, <1>10, <1>11, <1>12, <1>13 DEF BuildStep

\* What was built when no call is left is a container.
LEMMA CompleteCollects ==
    ASSUME IInv, UnderWay, Complete
    PROVE  Collects(Root, definitions)
<1>1. PICK k \in Nat : \E run : Run(Root, run, k) /\ run[k] = Here
  BY DEF UnderWay
<1>2. PICK run : Run(Root, run, k) /\ run[k] = Here
  BY <1>1
<1>3. run[k].map = definitions /\ Len(run[k].calls) = 0
  BY <1>2 DEF Here, Complete
<1>4. Builds(Root, definitions)
  BY <1>2, <1>3 DEF Builds
<1>5. ~Clash(Root) => Describes(Root, definitions)
  BY InvExact DEF Exact, Describes
<1> QED
  BY <1>4, <1>5 DEF Collects

\* Types whose containers are one are alike, if no types below them clash.
LEMMA OneContainer ==
    ASSUME ProgramOK, ProgramEnds, NEW s \in DOMAIN types, NEW r \in DOMAIN types,
           Name(s) = Name(r), NEW D, Describes(s, D), Describes(r, D)
    PROVE  Alike(s, r)
<1> DEFINE C == {p \in TypePairs : /\ p[1] \in Reachable(s) /\ p[2] \in Reachable(r)
                                   /\ Name(p[1]) = Name(p[2])}
<1>1. ASSUME NEW p \in C
      PROVE  Definition(p[1]) = Definition(p[2]) /\ p[1] \in DOMAIN types /\ p[2] \in DOMAIN types
  <2>1. D[Name(p[1])] = Definition(p[1]) /\ D[Name(p[2])] = Definition(p[2])
    BY DEF Describes
  <2>2. p[1] \in DOMAIN types /\ p[2] \in DOMAIN types
    BY DEF TypePairs
  <2> QED
    BY <2>1, <2>2
<1>2. ASSUME NEW p \in C
      PROVE  BothMembers(p) \subseteq C
  <2> DEFINE t == p[1]
             u == p[2]
  <2>1. t \in DOMAIN types /\ u \in DOMAIN types /\ Definition(t) = Definition(u)
    BY <1>1
  <2>2. t \in Reachable(s) /\ u \in Reachable(r)
    OBVIOUS
  <2> SUFFICES ASSUME NEW i \in DOMAIN types[t].of \cap DOMAIN types[u].of
               PROVE  <<types[t].of[i], types[u].of[i]>> \in C
    BY DEF BothMembers
  <2> HIDE DEF t, u
  <2>3. i \in 1..Len(Members(t)) /\ i \in 1..Len(Members(u))
    BY <2>1, AlikeMembers
  <2>4. types[t].of[i] \in Reachable(s) /\ types[u].of[i] \in Reachable(r)
    <3>1. Members(t)[i] \in Reachable(s)
      BY <2>2, <2>3, ReachesMembers
    <3>2. Members(u)[i] \in Reachable(r)
      BY <2>2, <2>3, ReachesMembers
    <3> QED
      BY <3>1, <3>2 DEF Members
  <2>5. Name(types[t].of[i]) = Name(types[u].of[i])
    <3>1. Definition(t).of[i] = Name(types[t].of[i]) /\ Definition(u).of[i] = Name(types[u].of[i])
      BY DEF Definition
    <3> QED
      BY <2>1, <3>1
  <2>6. <<types[t].of[i], types[u].of[i]>> \in TypePairs
    BY <2>4 DEF TypePairs, Reachable
  <2> QED
    BY <2>4, <2>5, <2>6
<1>3. <<s, r>> \in C
  <2>1. s \in Reachable(s) /\ r \in Reachable(r)
    BY ReachesItself
  <2> QED
    BY <2>1 DEF TypePairs
<1>4. Pairs(s, r) \subseteq C
  <2>1. \A p \in C \cap TypePairs : BothMembers(p) \subseteq C
    BY <1>2
  <2> HIDE DEF C
  <2> QED
    BY <1>3, <2>1, PairsLeast
<1>5. \A p \in Pairs(s, r) : Name(p[1]) = Name(p[2]) /\ Definition(p[1]) = Definition(p[2])
  BY <1>1, <1>4
<1> QED
  BY <1>5 DEF Alike

\* Types that are alike, kind and all, have one container.
LEMMA AlikeContainers ==
    ASSUME ProgramOK, ProgramEnds, NEW s \in DOMAIN types, NEW r \in DOMAIN types,
           AlikeInKind(s, r), NEW D, NEW E, Builds(s, D), Builds(r, E)
    PROVE  Name(s) = Name(r) /\ D = E
<1> DEFINE P == Pairs(s, r)
<1>1. P \subseteq TypePairs /\ <<s, r>> \in P /\ \A p \in P : BothMembers(p) \subseteq P
  BY PairsClosed
<1>2. \A p \in P : /\ Name(p[1]) = Name(p[2]) /\ Definition(p[1]) = Definition(p[2])
                   /\ types[p[1]].kind = types[p[2]].kind
  BY DEF AlikeInKind, Alike
<1> HIDE DEF P
<1>3. AllAlike(P)
  BY <1>1, <1>2 DEF AllAlike
<1>4. D = E
  BY <1>1, <1>3, SameBuild
<1>5. <<s, r>>[1] = s /\ <<s, r>>[2] = r
  OBVIOUS
<1> QED
  BY <1>1, <1>2, <1>4, <1>5

\* At the start the build of the sender is under way.
LEMMA InitHInv ==
    ASSUME Init
    PROVE  HInv
<1>1. ProgramEnds
  BY InitDInv DEF DInv
<1>2. pc = "build" /\ side = "sender" /\ Root = sender
  BY DEF Init, Root
<1>3. UnderWay
  <2>1. definitions = <<>> /\ frames = <<Enter(types, sender)>>
    BY DEF Init
  <2>2. \E k \in Nat : \E run : Run(sender, run, k) /\ run[k] = [map |-> definitions, calls |-> frames]
    BY <2>1, RunStarts
  <2> QED
    BY <1>2, <2>2 DEF UnderWay, Here
<1> QED
  BY <1>1, <1>2, <1>3 DEF HInv

\* A step of a build takes the build further.
LEMMA BuildKeepsHInv ==
    ASSUME IInv, HInv, BuildStep
    PROVE  HInv'
<1>1. pc = "build" /\ UNCHANGED <<program, side, schema, outcome>> /\ pc' \in {"build", "panic"}
  <2>1. Running /\ UNCHANGED <<program, side, schema, outcome>>
    BY DEF BuildStep, AddStruct, AddBuiltin, CallMember, AddEnum, Return, AtKind, MembersCalled, Running
  <2>2. AddDefinition(Top.type) \/ pc' = pc
    BY DEF BuildStep, AddStruct, AddBuiltin, CallMember, AddEnum, Return
  <2> QED
    BY <2>1, <2>2, AddTop DEF Running
<1>2. Root' = Root /\ UNCHANGED program
  BY <1>1 DEF Root, program
<1>3. ASSUME pc' = "build"
      PROVE  UnderWay'
  <2>1. PICK k \in Nat : \E run : Run(Root, run, k) /\ run[k] = Here
    BY <1>1 DEF HInv, UnderWay
  <2>2. PICK run : Run(Root, run, k) /\ run[k] = Here
    BY <2>1
  <2> DEFINE b == [map |-> definitions', calls |-> frames']
  <2>3. Moves(run[k], b)
    BY <1>3, <2>2, StepMoves
  <2>4. Len(b.calls) \in Nat
    <3>1. IInv'
      BY AddStructKeeps, AddBuiltinKeeps, CallMemberKeeps, AddEnumKeeps, ReturnKeeps
         DEF BuildStep
    <3> QED
      BY <3>1 DEF IInv, Path
  <2>5. \E more : Run(Root, more, k + 1) /\ more[k + 1] = b
    <3> HIDE DEF b
    <3> QED
      BY <2>2, <2>3, <2>4, RunGoesOn
  <2>6. PICK more : Run(Root, more, k + 1) /\ more[k + 1] = b
    BY <2>5
  <2>7. Run(Root, more, k + 1)' /\ k + 1 \in Nat
    BY <1>2, <2>6, OfProgram
  <2> QED
    BY <2>6, <2>7 DEF UnderWay, Here
<1>4. ProgramEnds'
  BY <1>2, OfProgram DEF HInv
<1>5. ASSUME side = "receiver"
      PROVE  \E D : schema' = [declaration |-> Name(sender)', definitions |-> D] /\ Collects(sender, D)'
  BY <1>1, <1>2, <1>5, OfProgram DEF HInv
<1>6. side' = "receiver" => side = "receiver"
  BY <1>1
<1> QED
  BY <1>1, <1>3, <1>4, <1>5, <1>6 DEF HInv, Name

\* The steps of the two who exchange an object.
LEMMA OthersKeepHInv ==
    ASSUME IInv, HInv, Send \/ Decode \/ Built \/ Compare \/ UNCHANGED vars
    PROVE  HInv'
<1>1. UNCHANGED program
  BY DEF Send, Decode, Built, Compare, vars
<1>2. ProgramEnds' /\ ProgramOK /\ sender \in DOMAIN types /\ receiver \in DOMAIN types
  BY <1>1, OfProgram DEF HInv, IInv, ProgramOK
<1> DEFINE Sent == \E D : /\ schema = [declaration |-> Name(sender), definitions |-> D]
                          /\ Collects(sender, D)
<1>3. Sent /\ schema' = schema => Sent'
  BY <1>1, OfProgram
<1>4. CASE Send
  <2>1. pc = "build" /\ Complete /\ side = "sender" /\ side' = "sender" /\ pc' = "sent"
    BY <1>4 DEF Send, Complete
  <2>2. Collects(sender, definitions)
    BY <2>1, CompleteCollects DEF HInv, Root
  <2>3. schema' = [declaration |-> Name(sender), definitions |-> definitions]
    BY <1>4 DEF Send, Container
  <2>4. Sent'
    BY <1>1, <2>2, <2>3, OfProgram
  <2> QED
    BY <1>2, <2>1, <2>4 DEF HInv
<1>5. CASE Decode
  <2>1. pc = "sent" /\ schema' = schema
    BY <1>5 DEF Decode
  <2>2. Sent'
    BY <1>3, <2>1 DEF HInv
  <2>3. CASE ~Alike(sender, receiver) /\ outcome' = "not decoded" /\ pc' = "done" /\ side' = side
    <3>1. ~AlikeInKind(sender, receiver)'
      BY <1>1, <2>3, OfProgram DEF AlikeInKind
    <3> QED
      BY <1>2, <2>2, <2>3, <3>1 DEF HInv
  <2>4. CASE side' = "receiver" /\ pc' = "build" /\ definitions' = <<>>
             /\ frames' = <<Enter(types, receiver)>>
    <3>1. \E k \in Nat : \E run : /\ Run(receiver, run, k)
                                  /\ run[k] = [map |-> definitions', calls |-> frames']
      <4> DEFINE D == definitions'
                 F == frames'
      <4>1. D = <<>> /\ F = <<Enter(types, receiver)>>
        BY <2>4
      <4> HIDE DEF D, F
      <4>2. \E k \in Nat : \E run : Run(receiver, run, k) /\ run[k] = [map |-> D, calls |-> F]
        BY <4>1, RunStarts
      <4> QED
        BY <4>2 DEF D, F
    <3>2. PICK k \in Nat : \E run : /\ Run(receiver, run, k)
                                    /\ run[k] = [map |-> definitions', calls |-> frames']
      BY <3>1
    <3>3. PICK run : Run(receiver, run, k) /\ run[k] = [map |-> definitions', calls |-> frames']
      BY <3>2
    <3>4. Root' = receiver /\ receiver' = receiver
      BY <1>1, <2>4 DEF Root, program
    <3>5. Run(receiver, run, k)'
      BY <1>1, <3>3, OfProgram
    <3>6. UnderWay'
      BY <3>3, <3>4, <3>5 DEF UnderWay, Here
    <3> QED
      BY <1>2, <2>2, <2>4, <3>6 DEF HInv
  <2> QED
    BY <1>5, <2>3, <2>4 DEF Decode
<1>6. CASE Built
  <2>1. /\ pc = "build" /\ Complete /\ side = "receiver" /\ side' = "receiver" /\ pc' = "compare"
        /\ schema' = schema /\ definitions' = definitions
    BY <1>6 DEF Built, Complete
  <2>2. Collects(receiver, definitions)
    BY <2>1, CompleteCollects DEF HInv, Root
  <2>3. Collects(receiver, definitions)'
    BY <1>1, <2>1, <2>2, OfProgram
  <2>4. Sent'
    BY <1>3, <2>1 DEF HInv
  <2> QED
    BY <1>2, <2>1, <2>3, <2>4 DEF HInv
<1>7. CASE Compare
  <2>1. /\ pc = "compare" /\ side = "receiver" /\ side' = "receiver" /\ pc' = "done" /\ schema' = schema
        /\ Collects(receiver, definitions)
    BY <1>7 DEF Compare, HInv
  <2>2. Sent'
    BY <1>3, <2>1 DEF HInv
  <2>3. PICK D : schema = [declaration |-> Name(sender), definitions |-> D] /\ Collects(sender, D)
    BY <2>1 DEF HInv
  <2>4. outcome' = "accepted" <=> Name(sender) = Name(receiver) /\ D = definitions
    <3>1. outcome' = IF schema = [declaration |-> Name(receiver), definitions |-> definitions]
                     THEN "accepted" ELSE "mismatch"
      BY <1>7 DEF Compare, Container
    <3>2. schema = [declaration |-> Name(receiver), definitions |-> definitions] <=>
            Name(sender) = Name(receiver) /\ D = definitions
      BY <2>3
    <3> QED
      BY <3>1, <3>2
  <2>5. outcome' = "accepted" /\ ~Clash(sender) /\ ~Clash(receiver) => Alike(sender, receiver)
    BY <1>2, <2>1, <2>3, <2>4, OneContainer DEF HInv, Collects
  <2>6. AlikeInKind(sender, receiver) => outcome' = "accepted"
    BY <1>2, <2>1, <2>3, <2>4, AlikeContainers DEF HInv, Collects
  <2>7. /\ outcome' = "accepted" /\ ~Clash(sender)' /\ ~Clash(receiver)' => Alike(sender, receiver)'
        /\ AlikeInKind(sender, receiver)' => outcome' = "accepted"
    BY <1>1, <2>5, <2>6, OfProgram
  <2> QED
    BY <1>2, <2>1, <2>2, <2>7 DEF HInv
<1>8. CASE UNCHANGED vars
  <2>1. /\ pc' = pc /\ side' = side /\ schema' = schema /\ definitions' = definitions /\ frames' = frames
        /\ outcome' = outcome /\ Root' = Root
    BY <1>8 DEF vars, program, Root
  <2>2. UnderWay => UnderWay'
    BY <1>1, <2>1, OfProgram DEF UnderWay, Here
  <2>3. Collects(receiver, definitions) => Collects(receiver, definitions)'
    BY <1>1, <2>1, OfProgram
  <2>4. Sent => Sent'
    BY <1>3, <2>1
  <2>5. (outcome = "accepted" /\ ~Clash(sender) /\ ~Clash(receiver) => Alike(sender, receiver))
          => (outcome' = "accepted" /\ ~Clash(sender)' /\ ~Clash(receiver)' => Alike(sender, receiver)')
    BY <1>1, <2>1, OfProgram
  <2>6. (AlikeInKind(sender, receiver) => outcome = "accepted")
          => (AlikeInKind(sender, receiver)' => outcome' = "accepted")
    BY <1>1, <2>1, OfProgram
  <2> QED
    BY <1>2, <2>1, <2>2, <2>3, <2>4, <2>5, <2>6 DEF HInv
<1> QED
  BY <1>4, <1>5, <1>6, <1>7, <1>8

\* No object is returned to a receiver whose type is not alike, whatever the
\* kinds of the types, and it is returned to one whose type is alike in kind.
THEOREM AnswerFollows == Spec => []HInv
<1>1. Init => HInv
  BY InitHInv
<1>2. IInv /\ HInv /\ [Next]_vars => HInv'
  BY BuildKeepsHInv, OthersKeepHInv DEF Next, BuildStep, Over
<1> QED
  BY <1>1, <1>2, Invariance, PTL DEF Spec

\* The shape of a definition tells structs from enums from built-in types.
KindsByShape ==
    \A p \in Programs : \A t, u \in DOMAIN p.types :
        p.types[t].shape = p.types[u].shape => p.types[t].kind = p.types[u].kind

\* The program stays one of Programs.
OfPrograms == \E p \in Programs : types = p.types

\* Types that are alike are of one kind, if the shape tells.
LEMMA ShapeTellsKind ==
    ASSUME KindsByShape, OfPrograms, IInv, HInv, Alike(sender, receiver)
    PROVE  AlikeInKind(sender, receiver)
<1>1. \A t, u \in DOMAIN types : types[t].shape = types[u].shape => types[t].kind = types[u].kind
  BY DEF KindsByShape, OfPrograms
<1>2. Pairs(sender, receiver) \subseteq TypePairs
  BY PairsClosed DEF IInv, ProgramOK, HInv
<1>3. ASSUME NEW p \in Pairs(sender, receiver)
      PROVE  types[p[1]].kind = types[p[2]].kind
  <2>1. Definition(p[1]).shape = Definition(p[2]).shape
    BY DEF Alike
  <2>2. types[p[1]].shape = types[p[2]].shape
    BY <2>1 DEF Definition
  <2>3. p[1] \in DOMAIN types /\ p[2] \in DOMAIN types
    BY <1>2 DEF TypePairs
  <2> QED
    BY <1>1, <2>2, <2>3
<1> QED
  BY <1>3 DEF AlikeInKind

\* An object is returned exactly to a receiver whose type is alike (to no other
\* if no types clash), where a definition shows whether its type was derived.  A
\* struct that is described like a built-in type of its name, as one named
\* Range<T> may be, is visited otherwise than that one, and the containers may
\* differ if types below clash unnoticed.
THEOREM SchemaAlwaysDecides ==
    ASSUME KindsByShape
    PROVE  Spec => []SchemaDecides
<1>1. Init => OfPrograms
  BY DEF Init, OfPrograms
<1>2. OfPrograms /\ [Next]_vars => OfPrograms'
  <2> SUFFICES ASSUME OfPrograms, [Next]_vars PROVE OfPrograms'
    OBVIOUS
  <2>1. types' = types
    BY DEF Next, vars, program, AddStruct, AddBuiltin, CallMember, AddEnum, Return, Send, Decode,
           Built, Compare, Over
  <2> QED
    BY <2>1 DEF OfPrograms
<1>3. IInv /\ HInv /\ OfPrograms => SchemaDecides
  BY ShapeTellsKind DEF SchemaDecides, HInv
<1> QED
  BY <1>1, <1>2, <1>3, Invariance, AnswerFollows, PTL DEF Spec

=============================================================================
