---------------------------- MODULE SchemaChecks ----------------------------
(***************************************************************************)
(* The walks over a schema container: validate, max_serialized_size and    *)
(* is_zero_size, call by call.  validate_impl keeps the declarations it is *)
(* in on a stack, to leave out those it meets again; the other two share   *)
(* one and take a declaration that is on it for a recursive type.          *)
(***************************************************************************)
EXTENDS Schema

CONSTANTS
    Root,           \* the declaration of the container
    Containers      \* the definitions it comes with

ASSUME ContainersAssumption ==
    /\ Root \in Declarations
    /\ \A S \in Containers : IsContainer(S)

VARIABLES
    defs,       \* the definitions of the container
    asked,      \* "nothing", "validate", "max_size", "zero_size"
    frames,     \* the calls under way, of "validate", "size" and "zero"
    validating, \* the stack of validate_impl
    stack,      \* that of max_serialized_size_impl and is_zero_size_impl
    result      \* what the last call returned to its caller; in the end, the answer

vars == <<defs, asked, frames, validating, stack, result>>

\* A call of fn for d has called at of its members, -1 while it has not looked
\* d up; count and acc are the variables of max_serialized_size_impl.
Call(fn, d, count) == [fn |-> fn, of |-> d, count |-> count, at |-> -1, acc |-> 0]

Answer(is, n) == [is |-> is, n |-> n, of |-> Root]
None == Answer("none", 0)
Unit == Answer("unit", 0)       \* Ok(()) of validate
Zero == Answer("zero", 0)       \* Ok(true) of is_zero_size
Sized == Answer("sized", 0)     \* and Ok(false)
Size(n) == Answer("size", n)

ErrorKinds == {"Recursive", "MissingDefinition", "Overflow", "TagTooNarrow", "TagTooWide",
               "TagNotPowerOfTwo", "EmptyLengthRange", "ZSTSequence", "panic"}
Error(e, d) == [is |-> e, n |-> 0, of |-> d]
IsError(r) == r.is \in ErrorKinds

Top == Last(frames)
Def == defs[Top.of]
In(fn) == frames # <<>> /\ Top.fn = fn
Entering(fn) == In(fn) /\ Top.at = -1
Inside(fn, kind) == In(fn) /\ Top.at >= 0 /\ ~IsError(result) /\ Def.k = kind

\* length_range.count(), which panics when usize cannot hold it.
CountOverflows(def) == def.hi - def.lo + 1 > MaxUsize
HasOneLength(def) == def.lo = def.hi

-----------------------------------------------------------------------------
(* Calling and returning.                                                  *)

Return(r) ==
    /\ frames' = Front(frames) /\ result' = r
    /\ UNCHANGED <<defs, asked>>

\* An early return: the stacks are left as they are.
ReturnEarly(r) == Return(r) /\ UNCHANGED <<validating, stack>>

\* Broken variant: the declaration stays on the stack.
LeaveUnpopped(r) == ReturnEarly(r)

\* stack.pop() and Ok(res), at the end of a call.
Leave(r) ==
    /\ Return(r)
    /\ IF Top.fn = "validate" THEN validating' = Front(validating) /\ UNCHANGED stack
       ELSE stack' = Front(stack) /\ UNCHANGED validating

\* The declaration is pushed, and its definition is looked at.
Enter ==
    /\ frames' = [frames EXCEPT ![Len(frames)].at = 0]
    /\ IF Top.fn = "validate" THEN validating' = Append(validating, Top.of) /\ UNCHANGED stack
       ELSE stack' = Append(stack, Top.of) /\ UNCHANGED validating
    /\ UNCHANGED <<defs, asked, result>>

\* Another member is called.
CallMember(fn, count, acc) ==
    /\ frames' = Append([frames EXCEPT ![Len(frames)].at = @ + 1, ![Len(frames)].acc = acc],
                        Call(fn, Members(Def)[Top.at + 1], count))
    /\ result' = None
    /\ UNCHANGED <<defs, asked, validating>>

\* The ? of the callers.  validate goes on when is_zero_size was Recursive.
PassOn ==
    /\ frames # <<>> /\ IsError(result)
    /\ ~(Top.fn = "validate" /\ result.is = "Recursive")
    /\ ReturnEarly(result)

-----------------------------------------------------------------------------
(* is_zero_size_impl                                                       *)

ZeroEnter ==
    /\ Entering("zero")
    /\ \/ Contains(stack, Top.of) /\ ReturnEarly(Error("Recursive", Top.of))
       \/ /\ ~Contains(stack, Top.of) /\ Top.of \notin DOMAIN defs
          /\ ReturnEarly(Error("MissingDefinition", Top.of))
       \/ ~Contains(stack, Top.of) /\ Top.of \in DOMAIN defs /\ Enter

ZeroPrimitive ==
    /\ Inside("zero", "primitive")
    /\ Leave(IF Def.size = 0 THEN Zero ELSE Sized)

\* Broken variant: the length tag is forgotten.
IsTaggedEnum(def) == def.k = "enum" /\ def.width # 0

\* A tag has a size.
IsTagged(def) == def.k \in {"sequence", "enum"} /\ def.width # 0

ZeroTagged ==
    /\ \E kind \in {"sequence", "enum"} : Inside("zero", kind)
    /\ IsTagged(Def)
    /\ Leave(Sized)

\* A sequence with no length tag is empty when it has no elements, or when they
\* are empty.  Both answers return at once, and d stays on the stack.
ZeroArray ==
    /\ Inside("zero", "sequence") /\ ~IsTagged(Def)
    /\ \/ /\ result = None /\ CountOverflows(Def)
          /\ ReturnEarly(Error("panic", Top.of))
       \/ /\ result = None /\ ~CountOverflows(Def) /\ HasOneLength(Def) /\ Def.lo = 0
          /\ ReturnEarly(Zero)
       \/ /\ result = None /\ ~CountOverflows(Def) /\ ~(HasOneLength(Def) /\ Def.lo = 0)
          /\ CallMember("zero", 1, 0) /\ UNCHANGED stack
       \/ result = Zero /\ ReturnEarly(Zero)
       \/ result = Sized /\ Leave(Sized)

\* all: the elements in turn, up to the first one that has a size.
ZeroEach ==
    /\ \E kind \in {"tuple", "enum"} : Inside("zero", kind)
    /\ ~IsTagged(Def)
    /\ \/ /\ result # Sized /\ Top.at < Len(Def.of)
          /\ CallMember("zero", 1, 0) /\ UNCHANGED stack
       \/ result # Sized /\ Top.at = Len(Def.of) /\ Leave(Zero)
       \/ result = Sized /\ Leave(Sized)

-----------------------------------------------------------------------------
(* max_serialized_size_impl                                                *)

SizeEnter ==
    /\ Entering("size")
    /\ \/ Contains(stack, Top.of) /\ ReturnEarly(Error("Recursive", Top.of))
       \/ /\ ~Contains(stack, Top.of) /\ Top.of \notin DOMAIN defs
          /\ ReturnEarly(Error("MissingDefinition", Top.of))
       \/ ~Contains(stack, Top.of) /\ Top.of \in DOMAIN defs /\ Enter

\* checked_add and checked_mul.
LeaveSized(n) == IF n > MaxUsize THEN ReturnEarly(Error("Overflow", Top.of)) ELSE Leave(Size(n))

SizePrimitive ==
    /\ Inside("size", "primitive")
    /\ LeaveSized(Top.count * Def.size)

\* Broken variant: the shortest sequence is taken for the longest one.
LongestCountLow(def) == def.lo

LongestCount(def) == def.hi

\* As many elements as allowed; more than usize counts must be empty ones.
SizeSequence ==
    LET most == LongestCount(Def)
    IN  /\ Inside("size", "sequence")
        /\ \/ result = None /\ most = 0 /\ LeaveSized(Top.count * Def.width)
           \/ /\ result = None /\ most \in 1..MaxUsize
              /\ CallMember("size", most, 0) /\ UNCHANGED stack
           \/ /\ result = None /\ most > MaxUsize
              /\ CallMember("zero", 1, 0) /\ UNCHANGED stack
           \/ result.is = "size" /\ LeaveSized(Top.count * (result.n + Def.width))
           \/ result = Zero /\ LeaveSized(Top.count * Def.width)
           \/ result = Sized /\ ReturnEarly(Error("Overflow", Top.of))

\* The sum of the members.
SizeTuple ==
    LET sum == Top.acc + result.n
    IN  /\ Inside("size", "tuple")
        /\ \/ sum > MaxUsize /\ ReturnEarly(Error("Overflow", Top.of))
           \/ /\ sum <= MaxUsize /\ Top.at < Len(Def.of)
              /\ CallMember("size", 1, sum) /\ UNCHANGED stack
           \/ sum <= MaxUsize /\ Top.at = Len(Def.of) /\ LeaveSized(Top.count * sum)

\* The longest variant.  The count is not a factor.
SizeEnum ==
    LET longest == IF Top.acc < result.n THEN result.n ELSE Top.acc
    IN  /\ Inside("size", "enum")
        /\ \/ /\ Top.at < Len(Def.of)
              /\ CallMember("size", 1, longest) /\ UNCHANGED stack
           \/ Top.at = Len(Def.of) /\ LeaveSized(longest + Def.width)

-----------------------------------------------------------------------------
(* validate_impl                                                           *)

\* Broken variant: the first length that does not fit is let through.
FitsWidthLax(width, max) == max <= ByteValues ^ width

\* max < 1 << (width * 8)
FitsWidth(width, max) == max < ByteValues ^ width

\* check_length_width: the error, or "none"; eight bytes hold any u64.
LengthWidthError(width, max) ==
    CASE width \in {0, 8} -> "none"
      [] width \in {3, 5, 6, 7} -> "TagNotPowerOfTwo"
      [] width \in {1, 2, 4} -> IF FitsWidth(width, max) THEN "none" ELSE "TagTooNarrow"
      [] OTHER -> "TagTooWide"

ValidateEnter ==
    /\ Entering("validate")
    /\ \/ Top.of \notin DOMAIN defs /\ ReturnEarly(Error("MissingDefinition", Top.of))
       \/ Top.of \in DOMAIN defs /\ Contains(validating, Top.of) /\ ReturnEarly(Unit)
       \/ Top.of \in DOMAIN defs /\ ~Contains(validating, Top.of) /\ Enter

ValidatePrimitive == Inside("validate", "primitive") /\ Leave(Unit)

\* Broken variant: arrays are sequences like the others.
MayBeArrayNever(def) == FALSE

MayBeArray(def) == def.width = 0

\* The guard of the arrays branch counts the lengths.
ValidateArray ==
    /\ Inside("validate", "sequence") /\ MayBeArray(Def)
    /\ \/ result = None /\ CountOverflows(Def) /\ ReturnEarly(Error("panic", Top.of))
       \/ /\ result = None /\ ~CountOverflows(Def) /\ HasOneLength(Def)
          /\ CallMember("validate", 1, 0) /\ UNCHANGED stack
       \/ HasOneLength(Def) /\ result = Unit /\ Leave(Unit)

\* A sequence whose length varies: its range, its tag, then its elements.  They
\* must not be empty, which is_zero_size says with a stack of its own.
ValidateSequence ==
    LET widthError == LengthWidthError(Def.width, Def.hi)
    IN  /\ Inside("validate", "sequence")
        /\ MayBeArray(Def) => ~CountOverflows(Def) /\ ~HasOneLength(Def)
        /\ \/ result = None /\ IsEmptyRange(Def) /\ ReturnEarly(Error("EmptyLengthRange", Top.of))
           \/ /\ result = None /\ ~IsEmptyRange(Def) /\ widthError # "none"
              /\ ReturnEarly(Error(widthError, Top.of))
           \/ /\ result = None /\ ~IsEmptyRange(Def) /\ widthError = "none"
              /\ CallMember("zero", 1, 0) /\ stack' = <<>>
           \/ result = Zero /\ ReturnEarly(Error("ZSTSequence", Top.of))
           \/ result = Unit /\ Leave(Unit)

\* The elements are not empty, or not found to be: a walk that met a recursive
\* type counts as that.
ValidateElements ==
    /\ In("validate") /\ Top.at >= 0 /\ Def.k = "sequence"
    /\ result = Sized \/ result.is = "Recursive"
    /\ frames' = Append(frames, Call("validate", Def.of, 1)) /\ result' = None
    /\ UNCHANGED <<defs, asked, validating, stack>>

ValidateEach ==
    /\ \E kind \in {"tuple", "enum"} : Inside("validate", kind)
    /\ \/ Def.k = "enum" /\ Def.width > 8 /\ ReturnEarly(Error("TagTooWide", Top.of))
       \/ /\ Def.k = "enum" => Def.width <= 8
          /\ \/ /\ Top.at < Len(Def.of)
                /\ CallMember("validate", 1, 0) /\ UNCHANGED stack
             \/ Top.at = Len(Def.of) /\ Leave(Unit)

-----------------------------------------------------------------------------
(* The queries on a container.                                             *)

\* BorshSchemaContainer::new takes any declaration and definitions; the edits of
\* its owner (insert_definition, remove_definition) lead to another such one.
Init ==
    /\ defs \in Containers
    /\ asked = "nothing" /\ frames = <<>> /\ result = None
    /\ validating = <<>> /\ stack = <<>>

Ask(query, fn) ==
    /\ frames = <<>>
    /\ asked' = query /\ frames' = <<Call(fn, Root, 1)>> /\ result' = None
    /\ validating' = <<>> /\ stack' = <<>>
    /\ UNCHANGED defs

Validate == Ask("validate", "validate")
MaxSerializedSize == Ask("max_size", "size")
IsZeroSize == Ask("zero_size", "zero")

Next ==
    \/ Validate \/ MaxSerializedSize \/ IsZeroSize
    \/ PassOn
    \/ ZeroEnter \/ ZeroPrimitive \/ ZeroTagged \/ ZeroArray \/ ZeroEach
    \/ SizeEnter \/ SizePrimitive \/ SizeSequence \/ SizeTuple \/ SizeEnum
    \/ ValidateEnter \/ ValidatePrimitive \/ ValidateArray \/ ValidateSequence
    \/ ValidateElements \/ ValidateEach

Spec == Init /\ [][Next]_vars

-----------------------------------------------------------------------------
(* Properties.                                                             *)

Answered(query) == asked = query /\ frames = <<>>

Here == Reached(defs, Root)
Known == Here \cap DOMAIN defs
Complete == Here \subseteq DOMAIN defs

\* The state is well formed: every call under way was made by the one below it,
\* for the member that one is at, and validate_impl pops what it pushed, so that
\* its stack holds the calls it is in, until an error ends them all.
TypeOK ==
    /\ asked \in {"nothing", "validate", "max_size", "zero_size"}
    /\ result.is \in {"none", "unit", "zero", "sized", "size"} \cup ErrorKinds
    /\ result.n \in 0..MaxUsize
    /\ \A i \in DOMAIN frames :
         /\ frames[i].of \in Here
         /\ i = 1 => frames[i].of = Root
         /\ i > 1 => LET caller == frames[i - 1]
                     IN  /\ caller.of \in DOMAIN defs
                         /\ caller.at \in DOMAIN Members(defs[caller.of])
                         /\ frames[i].of = Members(defs[caller.of])[caller.at]
    /\ ~IsError(result) =>
         /\ Len(validating) <= Len(frames)
         /\ \A i \in DOMAIN validating : frames[i].fn = "validate" /\ frames[i].of = validating[i]

\* A range with no length in it describes no value.
NoEmptyRange == \A d \in Known : defs[d].k = "sequence" => ~IsEmptyRange(defs[d])

\* is_zero_size answers true exactly when no encoding has a byte.
ZeroSizeExact ==
    Answered("zero_size") /\ ~IsError(result) /\ NoEmptyRange =>
        result = IF Root \in NonEmpty(defs) THEN Sized ELSE Zero

\* A sequence of more than one enum.
RepeatsEnum ==
    \E d \in Known : /\ defs[d].k = "sequence" /\ defs[d].hi > 1
                     /\ defs[d].of \in Known /\ defs[defs[d].of].k = "enum"

\* Arrays that hold no byte, which is_zero_size leaves on its stack.
EmptyArrays == {d \in Known : /\ defs[d].k = "sequence" /\ defs[d].width = 0
                              /\ d \notin NonEmpty(defs)}

\* max_serialized_size, when it answers, answers the length of the longest
\* encoding, which then exists (sequences of enums apart).
MaxSizeExact ==
    Answered("max_size") /\ ~IsError(result) /\ ~RepeatsEnum =>
        /\ ~Cyclic(SizeGraph(defs), Root)
        /\ Closure(SizeGraph(defs), {Root}) \subseteq DOMAIN defs
        /\ result = Size(Longest(defs, Root))

\* When it does not answer, the reason is true: a definition is missing, the
\* type contains itself, or the longest encoding is longer than usize counts.
MaxSizeErrors ==
    Answered("max_size") =>
        /\ result.is = "MissingDefinition" => result.of \in Here \ DOMAIN defs
        /\ result.is = "Recursive" /\ NoEmptyRange /\ EmptyArrays = {} =>
             Cyclic(SizeGraph(defs), Root)
        /\ result.is = "Overflow" /\ NoEmptyRange /\ Complete /\ ~Cyclic(SizeGraph(defs), Root) =>
             Longest(defs, Root) > MaxUsize

WidthFits(def) ==
    CASE def.width = 0 -> TRUE
      [] def.width > 8 -> FALSE
      [] OTHER -> def.width \in {1, 2, 4, 8} /\ (def.width = 8 \/ def.hi < ByteValues ^ def.width)

\* is_zero_size may call d recursive: it reaches itself with no tag between, or
\* an array that stays on the stack.
MayBeRecursive(d) ==
    \/ Cyclic(BareGraph(defs), d)
    \/ Closure(BareGraph(defs), {d}) \cap EmptyArrays # {}

\* The definitions reached from a validated declaration are all there, their
\* tags are wide enough for what they number, and no sequence of varying length
\* has empty elements, those aside whose walk may be cut short as recursive.
ValidateSound ==
    Answered("validate") /\ result = Unit =>
        /\ Complete
        /\ \A d \in Known : defs[d].k = "enum" => defs[d].width <= 8
        /\ \A d \in Known : IsDynamic(defs[d]) =>
             /\ ~IsEmptyRange(defs[d]) /\ WidthFits(defs[d])
             /\ defs[d].of \in NonEmpty(defs) \/ MayBeRecursive(defs[d].of)

\* What validate refuses is there, and is what the error says it is.
ValidateErrors ==
    Answered("validate") /\ IsError(result) /\ result.is # "panic" =>
        /\ result.of \in Here
        /\ result.is = "MissingDefinition" <=> result.of \notin DOMAIN defs
        /\ result.of \in DOMAIN defs =>
             LET def == defs[result.of]
             IN  CASE result.is = "ZSTSequence" ->
                        IsDynamic(def) /\ def.of \notin NonEmpty(defs)
                   [] result.is = "EmptyLengthRange" -> IsDynamic(def) /\ IsEmptyRange(def)
                   [] result.is \in {"TagTooNarrow", "TagNotPowerOfTwo"} -> ~WidthFits(def)
                   [] result.is = "TagTooWide" -> def.width > 8
                   [] OTHER -> FALSE

-----------------------------------------------------------------------------
(* What the documentation says and the code does not do.                   *)

\* "the largest possible size of a serialised object based solely on its type":
\* an answer is a bound on every encoding.
MaxSizeBounds ==
    Answered("max_size") /\ ~IsError(result) => Longest(defs, Root) <= result.n

\* "Error value means that the method has been called recursively": Recursive
\* is answered only of a type that contains itself.
RecursiveMeansCycle ==
    Answered("zero_size") /\ result.is = "Recursive" /\ Complete =>
        Cyclic(NameGraph(defs), Root)

\* "The schema is invalid if the range is empty or length_width is non-zero and
\* either bound of the range cannot be represented": a complete container that
\* breaks no documented rule, whatever the range of an untagged sequence, is
\* accepted.
Follows(def) ==
    CASE def.k = "primitive" -> TRUE
      [] def.k = "sequence" ->
           /\ ~IsEmptyRange(def) /\ WidthFits(def)
           /\ IsDynamic(def) => def.of \in NonEmpty(defs)
      [] def.k = "enum" -> def.width <= 8
      [] def.k = "tuple" -> TRUE

ValidIsAccepted ==
    Answered("validate") /\ Complete /\ (\A d \in Here : Follows(defs[d])) => ~IsError(result)
=============================================================================
