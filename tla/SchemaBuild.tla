---------------------------- MODULE SchemaBuild ----------------------------
(***************************************************************************)
(* How a schema container is built, and what it is used for.  The          *)
(* implementations of BorshSchema call each other along the members of     *)
(* their types and add a definition each to one map, under the name of the *)
(* type.  A sender puts the container of its type in front of an object;   *)
(* a receiver decodes both, builds the container of its own type and       *)
(* compares.                                                               *)
(*                                                                         *)
(* A type is [kind, name, shape, of]: of are the types of its members that *)
(* are not skipped, shape is what its definition says besides their names. *)
(* Kinds: "struct", derived; "enum", derived, whose members are the        *)
(* structs made of its variants; "builtin".  Box, Rc, Cell and the others  *)
(* that call the implementation of what they hold are that type; they make *)
(* recursive types possible.  Types of different modules or crates may     *)
(* have one name.                                                          *)
(***************************************************************************)
EXTENDS Integers, Sequences, SequencesExt, FiniteSets

CONSTANT Programs   \* [types, sender, receiver]: all types, and two of them

\* The members of types are types, those of an enum structs.  Rust writes a
\* built-in type down in full, so that a recursive one passes through a struct.
ASSUME ProgramsAssumption ==
    \A p \in Programs :
        /\ IsFiniteSet(DOMAIN p.types)
        /\ {p.sender, p.receiver} \subseteq DOMAIN p.types
        /\ \A t \in DOMAIN p.types :
             /\ p.types[t].kind \in {"struct", "enum", "builtin"}
             /\ p.types[t].of \in Seq(DOMAIN p.types)
             /\ p.types[t].kind = "enum" =>
                  \A i \in DOMAIN p.types[t].of : p.types[p.types[t].of[i]].kind = "struct"
        /\ \A T \in SUBSET {t \in DOMAIN p.types : p.types[t].kind = "builtin"} :
             T # {} => \E t \in T : ToSet(p.types[t].of) \cap T = {}

VARIABLES
    types, sender, receiver,
    side,           \* "sender" or "receiver": whose container is built
    definitions,    \* the map, from names to definitions
    frames,         \* the calls of add_definitions_recursively under way
    schema,         \* the container in front of the object
    outcome,        \* what try_from_slice_with_schema answers
    pc              \* "build", "sent", "compare", "done", "panic"

program == <<types, sender, receiver>>
vars == <<program, side, definitions, frames, schema, outcome, pc>>

Name(t) == types[t].name
Definition(t) ==
    [shape |-> types[t].shape, of |-> [i \in DOMAIN types[t].of |-> Name(types[t].of[i])]]

\* A call: at members have been called; -1 when the definition comes first and
\* is still to be added.
Enter(ts, t) == [type |-> t, at |-> IF ts[t].kind = "enum" THEN 0 ELSE -1]

Top == Last(frames)
Running == pc = "build" /\ frames # <<>>
AtKind(kind, at) == Running /\ types[Top.type].kind = kind /\ Top.at = at
MembersCalled == Running /\ Top.at = Len(types[Top.type].of)
Advanced == [frames EXCEPT ![Len(frames)] = [type |-> Top.type, at |-> Top.at + 1]]

Container(root) == [declaration |-> Name(root), definitions |-> definitions]

Init ==
    /\ \E p \in Programs : types = p.types /\ sender = p.sender /\ receiver = p.receiver
    /\ side = "sender"
    /\ definitions = <<>> /\ frames = <<Enter(types, sender)>>
    /\ schema = <<>> /\ outcome = "none" /\ pc = "build"

-----------------------------------------------------------------------------
(* Building.                                                               *)

\* Broken variant: a name that is taken is taken for a clash.
AddDefinitionOnce(t) ==
    IF Name(t) \in DOMAIN definitions
    THEN pc' = "panic" /\ UNCHANGED definitions
    ELSE /\ definitions' = [d \in DOMAIN definitions \cup {Name(t)} |->
                               IF d = Name(t) THEN Definition(t) ELSE definitions[d]]
         /\ UNCHANGED pc

\* add_definition: a name that is taken must have the same definition.
AddDefinition(t) ==
    IF Name(t) \in DOMAIN definitions
    THEN /\ pc' = IF definitions[Name(t)] = Definition(t) THEN pc ELSE "panic"
         /\ UNCHANGED definitions
    ELSE /\ definitions' = [d \in DOMAIN definitions \cup {Name(t)} |->
                               IF d = Name(t) THEN Definition(t) ELSE definitions[d]]
         /\ UNCHANGED pc

\* Broken variant: whether the name is new is asked after the definition is added.
AddStructAsksLate ==
    /\ AtKind("struct", -1)
    /\ AddDefinition(Top.type)
    /\ frames' = IF Name(Top.type) \in DOMAIN definitions' THEN Front(frames) ELSE Advanced
    /\ UNCHANGED <<program, side, schema, outcome>>

\* Broken variant: a struct calls its members each time, as built-in types do.
AddStructAlways ==
    /\ AtKind("struct", -1)
    /\ AddDefinition(Top.type)
    /\ frames' = Advanced
    /\ UNCHANGED <<program, side, schema, outcome>>

\* A derived struct: its members are called only if its name was new.
AddStruct ==
    /\ AtKind("struct", -1)
    /\ AddDefinition(Top.type)
    /\ frames' = IF Name(Top.type) \in DOMAIN definitions THEN Front(frames) ELSE Advanced
    /\ UNCHANGED <<program, side, schema, outcome>>

\* A built-in type: its members are called each time.
AddBuiltin ==
    /\ AtKind("builtin", -1)
    /\ AddDefinition(Top.type)
    /\ frames' = Advanced
    /\ UNCHANGED <<program, side, schema, outcome>>

\* Broken variant: the caller does not note that the member was called.
CallMemberAgain ==
    /\ Running /\ Top.at \in 0..Len(types[Top.type].of) - 1
    /\ frames' = Append(frames, Enter(types, types[Top.type].of[Top.at + 1]))
    /\ UNCHANGED <<program, side, definitions, schema, outcome, pc>>

\* add_definitions_recursively of the next member.
CallMember ==
    /\ Running /\ Top.at \in 0..Len(types[Top.type].of) - 1
    /\ frames' = Append(Advanced, Enter(types, types[Top.type].of[Top.at + 1]))
    /\ UNCHANGED <<program, side, definitions, schema, outcome, pc>>

\* A derived enum adds its definition when its variants have added theirs.
AddEnum ==
    /\ MembersCalled /\ types[Top.type].kind = "enum"
    /\ AddDefinition(Top.type)
    /\ frames' = Front(frames)
    /\ UNCHANGED <<program, side, schema, outcome>>

Return ==
    /\ MembersCalled /\ types[Top.type].kind # "enum"
    /\ frames' = Front(frames)
    /\ UNCHANGED <<program, side, definitions, schema, outcome, pc>>

-----------------------------------------------------------------------------
(* try_to_vec_with_schema and try_from_slice_with_schema.                  *)

\* Pairs of members two readers come to at a pair of types.
BothMembers(p) ==
    {<<types[p[1]].of[i], types[p[2]].of[i]>> :
        i \in DOMAIN types[p[1]].of \cap DOMAIN types[p[2]].of}

\* Pairs of types two readers meet when they read the same bytes in step.
Pairs(s, r) ==
    LET last == Cardinality((DOMAIN types) \X (DOMAIN types))
        step[n \in 0..last] ==
            IF n = 0 THEN {<<s, r>>}
            ELSE LET met == step[n - 1] IN met \cup UNION {BothMembers(p) : p \in met}
    IN  step[last]

\* Two types no schema could tell apart.
Alike(s, r) ==
    \A p \in Pairs(s, r) : Name(p[1]) = Name(p[2]) /\ Definition(p[1]) = Definition(p[2])

\* The sender has its container.
Send ==
    /\ pc = "build" /\ frames = <<>> /\ side = "sender"
    /\ schema' = Container(sender)
    /\ pc' = "sent"
    /\ UNCHANGED <<program, side, definitions, frames, outcome>>

\* The receiver reads the container, then the object by its own type; bytes of
\* another type may be refused or, as often, read.
Decode ==
    /\ pc = "sent"
    /\ \/ /\ ~Alike(sender, receiver)
          /\ outcome' = "not decoded" /\ pc' = "done"
          /\ UNCHANGED <<side, definitions, frames>>
       \/ /\ side' = "receiver" /\ pc' = "build"
          /\ definitions' = <<>> /\ frames' = <<Enter(types, receiver)>>
          /\ UNCHANGED outcome
    /\ UNCHANGED <<program, schema>>

Built ==
    /\ pc = "build" /\ frames = <<>> /\ side = "receiver"
    /\ pc' = "compare"
    /\ UNCHANGED <<program, side, definitions, frames, schema, outcome>>

\* Broken variant: only the names of the types are compared.
CompareNames ==
    /\ pc = "compare"
    /\ outcome' = IF schema.declaration = Name(receiver) THEN "accepted" ELSE "mismatch"
    /\ pc' = "done"
    /\ UNCHANGED <<program, side, definitions, frames, schema>>

Compare ==
    /\ pc = "compare"
    /\ outcome' = IF schema = Container(receiver) THEN "accepted" ELSE "mismatch"
    /\ pc' = "done"
    /\ UNCHANGED <<program, side, definitions, frames, schema>>

\* An answer, or the end of the process.
Over == pc \in {"done", "panic"} /\ UNCHANGED vars

Next ==
    \/ AddStruct \/ AddBuiltin \/ CallMember \/ AddEnum \/ Return
    \/ Send \/ Decode \/ Built \/ Compare \/ Over

Spec == Init /\ [][Next]_vars

-----------------------------------------------------------------------------
(* Properties.                                                             *)

\* The types reached from t along members: those in every set that holds t and
\* the members of its members.
ClosedSets == {C \in SUBSET DOMAIN types : \A u \in C : ToSet(types[u].of) \subseteq C}
Reachable(t) == {u \in DOMAIN types : \A C \in ClosedSets : t \in C => u \in C}

\* Two types below t have one name and different definitions.
Clash(t) ==
    \E u, v \in Reachable(t) : Name(u) = Name(v) /\ Definition(u) # Definition(v)

Root == IF side = "sender" THEN sender ELSE receiver
Complete == pc = "build" /\ frames = <<>>

\* The state is well formed: every call under way was made by the one below it,
\* for the member that one is at.
TypeOK ==
    /\ side \in {"sender", "receiver"}
    /\ pc \in {"build", "sent", "compare", "done", "panic"}
    /\ \A i \in DOMAIN frames :
         LET t == frames[i].type
         IN  /\ frames[i].at \in -1..Len(types[t].of)
             /\ i = 1 => t = Root
             /\ i > 1 => LET caller == frames[i - 1]
                         IN  caller.at > 0 /\ t = types[caller.type].of[caller.at]

\* A container that was built has a definition for each name it mentions, and
\* if no two types clash it has the definitions of the types reached from the
\* root and no other, whatever the order of members and however types recur.
Exact ==
    Complete =>
        /\ \A d \in DOMAIN definitions : ToSet(definitions[d].of) \subseteq DOMAIN definitions
        /\ Name(Root) \in DOMAIN definitions
        /\ ~Clash(Root) =>
             /\ DOMAIN definitions = {Name(t) : t \in Reachable(Root)}
             /\ \A t \in Reachable(Root) : definitions[Name(t)] = Definition(t)

\* "Types with the same names are not supported": building panics only when two
\* types have one name and different definitions, never because a type is met
\* again, halfway through its own definition or later.
NoFalseAlarm == pc = "panic" => Clash(Root)

\* Recursive types end: between two structs whose members are called there are
\* other types at most once each, and no name of a struct is entered twice.
DepthBounded ==
    LET structs == {t \in DOMAIN types : types[t].kind = "struct"}
        names == {Name(t) : t \in structs}
    IN  Len(frames) <= (Cardinality(names) + 1) * (Cardinality(DOMAIN types \ structs) + 1)

\* An object is returned only to a receiver whose type the schema describes
\* like the sender's (if neither has clashing types, which is not always
\* noticed), and always to one whose type is alike.
SchemaDecides ==
    pc = "done" =>
        /\ outcome = "accepted" /\ ~Clash(sender) /\ ~Clash(receiver) => Alike(sender, receiver)
        /\ Alike(sender, receiver) => outcome = "accepted"

\* "Types with the same names are not supported": a container is not built from
\* two types that have one name and different definitions.
NoSilentClash == Complete => ~Clash(Root)
=============================================================================
