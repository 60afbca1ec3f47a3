# Borsh, verified

A TLA+ development of the Rust implementation of Borsh: the modules follow the
code of `borsh` and `borsh-derive`, TLC checks them on small instances, and
TLAPS proves the central ones for every value of their constants.

The library is sequential. What makes it hard is elsewhere: a reader or writer
supplied by the user that answers in pieces, is interrupted or fails; element
decoders that fail or panic between two steps of unsafe code; hash tables that
iterate in another order in every process; lengths and sizes at the limit of
their integers; walks over cyclic graphs of type definitions; constants
computed as text at compile time; and macros that see the tokens of one item and
must guess the bounds that the compiler will ask for.

## The system

| Component | State | Operations | Modules | Status |
|---|---|---|---|---|
| Decoding from a reader or slice (`de/mod.rs`, `de/hint.rs`, `read_exact` of `nostd_io.rs`) | position in the source, the `read_exact` in progress, the Vec being built, its capacity | `from_reader`, `try_from_reader`, `from_slice`, `try_from_slice`, `Vec::deserialize_reader`, `u8::vec_from_reader` | DecodeOne, FromReader, MCFromReader, FromReaderProofs | modelled, proved |
| Drop guard of `[T; N]` (`de/mod.rs`) | buffer, `init_count`, who owns which element | `fill_buffer`, `transmute_to_array`, `drop` | ArrayFill, ArrayFillProofs | modelled, proved |
| Codec (`ser/mod.rs`, `de/mod.rs`, code of the derives) | none: functions of values and bytes | `serialize`, `deserialize_reader` of every type | WireTypes, Serialize, Deserialize, Exchange, CodecProofs, ExchangeProofs | modelled, proved |
| Writers (`ser/helpers.rs`, `Write` in `nostd_io.rs`) | the buffer being written, bytes written, room left, the count | `to_vec`, `to_writer`, `object_length` of `Vec`, `&mut [u8]`, `LengthWriter`, and the provided `write_all` over a writer of the user | WriteOne, Writers, ExchangeProofs | modelled, proved |
| Checks of a schema (`schema/container_ext/*.rs`) | the calls under way, the stacks of declarations | `validate`, `max_serialized_size`, `is_zero_size` | Schema, SchemaChecks, SchemaChecksProofs | modelled, proved |
| Discriminants of enums (`enum_discriminant.rs`, `serialize/enums`, `deserialize/enums`) | the text assigned to each variant | attribute check, `new`, `get`, generated `serialize` and `deserialize_variant` | Discriminants, DiscriminantsProofs | modelled, proved |
| Schema generation (`schema.rs`, `schema/enums`, `schema/structs` of the derive) | the map of definitions | `declaration`, `add_definitions_recursively`, `add_definition`, `for_type` | SchemaTypes, Described, SchemaBuild, SchemaBuildProofs | modelled; collecting is proved |
| Values prefixed by a schema (`schema_helpers.rs`) | the container that was received | `try_to_vec_with_schema`, `try_from_slice_with_schema` | SchemaBuild, SchemaBuildProofs | modelled, proved |
| Derive plumbing (`generics.rs`, `attributes/*`, `serialize/*`, `deserialize/*`, `schema/*` of the derive) | the visitor of type parameters, the overrides, the calls generated so far | one expansion, field by field | Derive, Rustc, DeriveProofs | modelled; proved but for the bounds |
| Derives of unions; `io::Error`, re-exports, features; `generate_schema_schema`, benchmarks, fuzzing, examples, tests | none | | | not modelled, see the end |

How they interact: `from_reader` calls `deserialize_reader` of the type, which
calls `read` and `read_exact` of the user's reader, one call after the other,
and probes the reader for one more byte. `Vec<u8>` and `[u8; N]` take a way of
their own (`vec_from_reader`, `array_from_reader`). Arrays of other types call
the element's decoder with a half-written buffer under a guard. `to_vec`,
`to_writer` and `object_length` call `serialize`, which calls `write_all` once
per integer, tag or byte slice. The derives paste calls to these functions,
tags included. `validate` and `max_serialized_size` call `is_zero_size`, one
with a new stack and the other with its own.

What makes each component correct:

* decoding: the bytes end up in the value in order; the answer depends on the
  source and not on how it is handed out; memory follows what was received;
  every decoding ends;
* drop guard: every element has one owner until it is dropped, once;
* codec: `from_slice(to_vec(v)) = v`; equal values have equal bytes; an
  encoding ends where its own bytes say; with `de_strict_order` there is one
  encoding per value;
* writers: what a failed write leaves is a beginning of the encoding;
  `object_length` agrees with `to_vec`;
* schema checks: the answers are those of the graph of definitions, and an
  error is given where the graph has what it names;
* schema generation: a container says of every type what `serialize` writes; it
  has the definitions of the types reached and no others, recursive types end,
  and types that share a name do not go unnoticed;
* values with a schema: an object is returned only if its schema is the
  receiver's;
* discriminants: the tag is the compiler's discriminant and leads back to the
  variant;
* derive plumbing: the code of the three derives compiles where the item does,
  asks no more of a type parameter than that needs, treats the same fields in the
  same order, and uses every attribute it accepts.

## The modules

**DecodeOne** is what decoding one `Vec<T>` promises. A source of `total` bytes
announces `declared` elements. Bytes are taken, from the front and without
counting calls; the answer is `ok` with the payload, or the one error the source
determines; a reader that fails may be reported instead. At most one byte beyond
the value is taken.

**FromReader** is the code, one action per call on the reader. The reader is the
environment: a stream answers any non-empty part of what is asked, is
interrupted, fails for good or is at its end; a slice answers all it has. A byte
is named by its position in the source, so the contents of a buffer say where
every byte came from. `pc` names the loop the code is in: `len`, `element` and
`tail` are a `read_exact` in progress (`buf`, `want`), `body` is the loop of
`vec_from_reader` (`vec`, `pos`). `RoomyLen` is the resize, `Cautious` is
`hint::cautious`, `Grown` the growth of a `Vec`, which is the library's. An
element has two sizes that have nothing to do with each other: the `wire` bytes
it takes in the source, and its `size_of`, `mem`, in which memory is counted; `EnterTail` and the `tail` actions are `from_slice` and
`from_reader` after the value. `from_slice` on a stream does not exist;
`from_reader` on a slice does.

**ArrayFill** is `[T; N]::deserialize_reader`, nested `Depth` times. A cell of
memory holds the set of objects whose bits are in it. `Write` and `Increment`
are the two statements of `fill_buffer`, `Reset` and `ReadOut` those of
`transmute_to_array`, `DropElement` is a step of `drop_in_place`, `Return` ends
a call and gives its value or its failure to the level above. The failure is an
error or a panic: the guard runs in both cases.

**WriteOne** is what serializing one object to a writer promises: at any moment a
beginning of the encoding has reached the writer, all of it when the answer is
`Ok` or the object's own error, less than all when the writer is to blame; and
there is an answer.

**Writers** is the code, one action per call of `write` or `write_all`. The
object is the list of buffers its `serialize` hands out (`bytes`, cut at `ends`)
and the error that ends them (`ending`). `sink` is the writer: a `Vec` takes it
all, a `&mut [u8]` what it has `room` for, the `LengthWriter` counts with
`checked_add`, and a writer of the user takes any part of what it is offered,
nothing, or fails, under the provided loop of `write_all` (`taken` bytes of the
buffer so far).

**WireTypes** describes types as records and says what their values are. Which
types there are is a constant, `Depth`, a function that gives for each how deep it
is nested; which values of them are exchanged is another, `Values`, and `Keys` are
the types that may be elements of sets or keys of maps, of at most `MaxKeys`
elements. So what is defined by recursion over types, the codec itself included,
is a recursive function on `Types`, and can be proved about. `Less`, `Default` and
`InitField` are the implementations of `Ord` and `Default` and the `init` methods
of these types, which are external. `TypesAssumption` says what Rust says of types
(a type is built from types that are less deep, the tags of an enum differ, keys
hold no skipped fields), `ValuesAssumption` that values have the form of their
types and are made of values, and that `Less` orders keys. **Serialize** gives for a value the buffers handed to `write_all`, in order, and
the error that ends them; **Deserialize** gives for a slice the value and what
is left of it, or the error. Each operator is one `impl` or one group of `impl`s
with one body. Types that are written as what they hold (`Box`, `Rc`, `Arc`,
`Cow`, `Cell`, `&T`) have no record of their own, nor have those that are read
through `Vec` (`VecDeque`, `LinkedList`, `Bytes`). A `bson::ObjectId` has: it
looks like a byte array, but its `read_exact` passes its error on as it is, so
that one that is cut short answers `UnexpectedEof` where all others answer
"Unexpected length of input" (`DecObjectId`); and it has no schema. Ranges are tuples; structs are
a kind of their own, with skipped fields and, where `#[borsh(init)]` is given, a
method that runs after the fields are read; a derived enum, `IpAddr` and
`SocketAddr` are enums with tags, whose variants are structs. A field with
`serialize_with`, `deserialize_with` and `with_funcs` is a `third` type: the
functions are those of the repository's tests, which write a type of another
crate as the value in it. `order` is
the iteration order of the hash tables of a process; `strict` is the feature
`de_strict_order`.

**SchemaTypes** gives the declaration of each of these types, its definition and
the types whose definitions are added with it, as the `impl`s of `BorshSchema`
and the derive do. `Skim` follows a set of definitions over bytes and knows
nothing of the type: what it accepts is what the schema says the bytes are.
**Described** adds it to Exchange, as a second reader that knows the schema only.

**Exchange** composes them. It extends Writers: a value is written call by call
to any of its sinks, and what Writers hands out is what Serialize gives for the
samples. Then come a channel that delivers the bytes whole, cut or extended;
a reader that decodes; a second process with another hash order that encodes the
answer, if that is one of `Values`, and decodes it again. Other behaviours start with bytes of
unknown origin, and that is where inputs nobody encoded are met. The calls of
`from_slice` on its source are left to FromReader: on a slice they amount to
`ReadExact`.

**Schema** holds the graph of a container's definitions: what a definition
names, what is reached, cycles, the least set of declarations with a non-empty
encoding, the longest encoding. None of it uses the code's walks.
**SchemaChecks** is the three walks, call by call: `frames` is the Rust call
stack, `validating` and `stack` are the two stacks of declarations (that of
`validate_impl`, and the one that `max_serialized_size_impl` and
`is_zero_size_impl` share), `result` is what the last call returned. An early
return leaves the stacks as they are, so that a stack the code leaves unbalanced
stays so in the model. A container is any declaration and definitions
(`BorshSchemaContainer::new`, `insert_definition`, `remove_definition`), complete
or not.

**SchemaBuild** follows `add_definitions_recursively` call by call. `frames` is
the Rust call stack: a frame holds the type and how many members have been
called, -1 while the definition is still to be added in front of them. Three
orders occur in the code and are kept apart: a derived struct adds its
definition and calls its members if its name was new; a built-in type adds it
and calls them in any case; a derived enum calls its variants first. `definitions`
is the map; `AddDefinition` is the assertion. `Send`, `Decode`, `Built` and
`Compare` are the two functions of `schema_helpers.rs`: the receiver's container
is built after the object has been decoded, and `Decode` may succeed on bytes of
another type. A type is what it is called, what its definition says and its
members; types with one name but other contents are programs like any other.

**Discriminants** follows an enum from its source to the exchanged byte: the
attribute check, the rounds of `Discriminants::new`, the constants pasted by
`get`, rustc, and the generated code. An expression is a number or a shift,
followed by as many `+ 1` as the macro has added, where `+` binds tighter than
`<<`. rustc evaluates such a text twice, once where the enum is defined, at the
type of its discriminants (`repr`), and once where the macros pasted it, as a
`u8`. `Fits` says whether it compiles at a type and `Value` what it is there: a
sum that overflows is refused, but `<<` drops the bits that have no room.

**Derive** follows the three macros over the items of a program. A type is its
syntax: a parameter, `T::Assoc`, `<T as Trait>::Assoc`, a path with arguments, a
tuple or reference, `[X; N]`, `PhantomData<X>`, another item, or a container that
asks its first argument for more than the trait that is derived (`Demanding`: a
`BTreeMap`, a `HashMap`, a `Box`). One action is one
field of one expansion: `SerializeField`, `DeserializeField` and `SchemaField`
parse its attributes, call or skip it, and show its type to the visitor
(`FindTyParams`, in `visitor` and `defaults`) unless an override takes its
place. `FinishCodec` and `FinishSchema` turn the visitor into a where clause and
leave an impl; for an enum, `FinishSchema` puts the structs it wrote for the
variants in front of `todo`, to be expanded in their turn. `WellFormed` is what
rustc accepts as an item. The types a program mentions are given as a constant,
with how deep each is nested (`Depth`), so that what is in a type is a recursive
function on a set.

**Rustc** is the rest of the environment, what rustc makes of the impls: `Needs`
is what a type implements a trait under, `Asked` what maps and `Box` ask of their
first argument besides (`Ord`, `Hash`, `ToOwned`), `Declaration` what an instance
of a type is called. It has the three properties of the macros that speak of this.

`MCFromReader`, `MCExchange`, `MCSchemaChecks`, `MCSchemaBuild`,
`MCDiscriminants` and `MCDerive` hold only the samples the configurations use; `MCDerive` runs Derive
and Discriminants, which are two halves of one macro that share nothing, one
after the other. An operator marked "Broken variant" is the body a plausible
mistake would give to the definition that follows it; nothing uses it except
the sensitivity checks, in which a property must then fail.

## The runs

| Run | Distinct states | What it shows |
|---|---|---|
| from_reader | 11,666 | every reader of up to 10 bytes, for elements of three sizes: order, bounded memory, the promise, termination |
| array_fill | 810 | arrays nested three deep: ownership |
| exchange | 366,979 | round trip, agreement, prefix, length, framing, uniqueness of encodings, schema against codec; the writers keep the promise of WriteOne and answer |
| schema_checks | 467,511 | the three walks against the graph, on 20,727 containers |
| derive | 148,054 | tags of every enum of up to five variants and two types of discriminants; 7,443 programs: bounds suffice and none is needless, the derives agree, nothing is ignored, inner structs compile, names tell instances apart |
| schema_build | 427,086 | 14,814 programs: containers exact, no false alarm, bounded depth, what a receiver accepts |
| interrupted, enum_count, zero_stack, range_count, discriminant_precedence, silent_clash | | the six disagreements below |

Bounds.

* `FromReader.cfg`: 2 bytes of prefix, elements of 2 bytes in the source and 3 in
  memory, of 1 and 1, and of 0 and 2 (a struct of skipped fields), a first chunk
  of 2 bytes, 4 bytes of memory reserved ahead, `usize` up to 7, sources up to 10 bytes, one
  interruption. With lengths up to 7 the bulk buffer is resized twice and then
  capped by the length and by `usize`; the elements fill the reserved capacity
  and double it; a source is cut at every byte and extended by up to 8. The
  theorems remove these bounds.
* `ArrayFill.cfg`: three levels of 0 to 2 elements, an error or panic at each
  element. Levels 1 and 2 are both outer levels, level 3 is the innermost.
  The theorems remove these bounds too.
* `Exchange.cfg`: a byte has 4 values, a length is one byte (so a collection of 4
  elements is too long), usize is 2 bytes on the wire and the reader's is
  smaller; the writer's usize fills the wire (15). 106 samples, at least one of each
  kind of type (an `ObjectId`, alone and below others, among them) and of every error of the writer; all 24 iteration orders of 4 keys; slices of 0 to 5
  bytes; foreign bytes up to 5 long, which is two keys with values and a byte to
  spare. `Values` of a type are the samples, their parts, and every value the
  reader may be sent, enumerated without the decoder, so that `TypeOK` compares the
  decoder with an independent account. `Types` are those of the samples and of the
  foreign bytes and their parts. The theorems remove these bounds. Two bytes per integer show byte order; the last value of a float is
  NaN, the last byte is not text.
* `SchemaChecks.cfg`: three declarations, the first the root, each from a family
  of primitives, arrays, tagged and untagged sequences, structs, enums with and
  without tag, or missing. A byte has two values and `usize` is 15, so that
  products overflow and tags are too narrow at small numbers. Cycles of length
  1, 2 and 3 occur, through every kind of definition. The theorems remove these
  bounds.
* `SchemaBuild.cfg`: programs of seven types in two families. In one, two
  versions of a struct hold two versions of another, below a tuple or a struct:
  equal and clashing names, the second type met before, during and after the
  first one's definition is added. In the other, two structs, an enum with one
  or two variants and an `Option` hold each other, so that every kind of type is
  met again halfway through its own definition. Sender and receiver are one type
  or two. The theorems remove these bounds.
* `Derive.cfg`: tags 0 to 3, enums of up to 5 variants, so that 4 fit and 5 do
  not, with discriminants of a signed type of two bits more, as `isize` is
  larger than `u8`, or of the tag's own type. Programs of one item with two fields, as a struct, an enum of two variants
  and an enum with an empty one, over fifteen types for one field (two maps and a `Box` among them, with
  the bounds of their keys given and not), eight for the
  other and fifteen attribute lists; of two generic items, one of which holds the
  other; and items with each attribute, with and without borsh in `Cargo.toml`.
  Two type parameters are what it takes to confuse one with another, and two
  fields for one to need what the other skips. Lists of bounds or parameters are
  given as the field needs them. The theorems remove these bounds for `DerivesAgree`,
  `NothingIgnored` and `InnerStructsCompile`. `DiscriminantPrecedence.cfg` has tags up to 7,
  where no shift loses a bit (in `Derive.cfg` `3 << 1` does), and 3 variants.

Fairness. Two runs state liveness: `Terminates` of from_reader, under weak fairness
of the decoder's own step, and `Ends` (in `WritesPromised`) of exchange, under
weak fairness of `Serializing`. The code is a loop on one thread and waits
only for `read` or `write`, so this says that the thread runs and that the call
returns. Nothing is assumed of what it returns, except that interruptions end:
the bound on them says so for the reader, and for the writer they are stuttering
steps. (A stream that is interrupted for ever keeps `read_exact` or `write_all`
in its loop; that is their documented behaviour.)

Deadlock is checked in every run. A run whose system stops has a stuttering action
for it, `Returned` or `Over`.

## Disagreements met

1. `interrupted`: `vec_from_reader` (`de/mod.rs:171`) passes
   `ErrorKind::Interrupted` on, where `Read::read` (`nostd_io.rs:819`) calls it
   non-fatal and to be retried. `Vec<u8>` and `String` fail on a reader on which
   `Vec<u16>` succeeds.
2. `enum_count`: the enum branch of `max_serialized_size_impl`
   (`max_size.rs:126`) drops `count`. `[Option<u8>; 10]` is answered 2 and takes
   up to 20 bytes; the documentation calls the result the largest possible size.
   `MaxSizeExact` is stated for containers in which no sequence holds an enum
   directly.
3. `zero_stack`: two early returns of `is_zero_size_impl` (`max_size.rs:223` and
   `226`) leave a declaration on the stack, and `([u8; 0], [u8; 0])` is called
   recursive. `validate` takes that for not zero-sized and accepts a `Vec` of it.
   `ZeroSizeExact`, `MaxSizeErrors` and `ValidateSound` say what the code
   guarantees in spite of it.
4. `range_count`: `length_range.clone().count()` (`validate.rs:80`,
   `max_size.rs:222`) panics when the count does not fit `usize`.
5. `discriminant_precedence`: `enum_discriminant.rs:22` appends `+ 1` to the text
   of an expression. After `A = 1 << 2` the tag of `B` is `1 << 2 + 1`, 8, where
   rustc's discriminant is 5. `CountedTags` says where the tag is right.
6. `silent_clash`: a derived struct calls its members only if its name was new
   (`schema/structs/mod.rs:69`). `v2::Outer { i: v2::Inner }` after `v1::Outer {
   i: v1::Inner }` has the same definition, so `v2::Inner` is never met and the
   container describes `v1::Inner` in its place; `add_definition`
   (`schema.rs:257`) says that types with one name are not supported and panics
   on the same types in another order. `Exact` is stated for programs without
   such a clash, and says for all of them that what is mentioned is defined.

A second way for a tag to differ from the discriminant, of which no run was made: the
text is pasted where a `u8` is expected (`serialize/enums/mod.rs:49`,
`deserialize/enums/mod.rs:23`), and there `<<` drops bits silently. With
`use_discriminant=true`, `A = 3 << 7` compiles, has the discriminant 384 and is
written as 128, where `borsh_deserialize.md:151` says "serialized as is"; beside
`B = 1 << 7` it is read back as whichever of the two comes first. Only literals
outside of `u8` are said not to be supported, and these are refused. Such enums are
among those of the run derive: `CountedTags` and `VariantSurvives` fail without the
condition `Kept`, that no shift drops bits. Where the discriminants are `u8`
themselves it is not needed, since rustc drops the same bits on both sides.

Behaviour worth knowing that contradicts no text of the repository: a failure of
the reader in the final probe of `from_reader` is reported as "Not all bytes
read" (`Verdict` and `Fail` of DecodeOne allow it); `Box<[()]>` can be
serialized and not read back (`Readable`); a skipped field, and the flow label
and scope of a `SocketAddrV6`, come back as defaults (`Received`); repeated keys
of an `IndexMap` or `IndexSet` are accepted even with `de_strict_order`
(`Indexed`); an `ObjectId` cut short is `UnexpectedEof` and not "Unexpected length of
input" (`HoldsObjectId`, `SelfDelimiting`); and memory follows the elements
decoded, which is not to say the bytes received: `check_zst` refuses elements
without a size in memory, but those of a struct whose fields are all skipped have
a size and take no byte of the source, so that a prefix alone makes the `Vec`
grow. `AllocBounded` is therefore stated in elements: beyond a fixed
amount, capacity is at most twice the memory of the elements that were decoded,
which for a `Vec<u8>` are the bytes received.

Of the macros, whose limits are the preconditions of their properties
(`Figured`, `AskedForIsGiven`, `InnerStructsCompile`, `NamesTellApart`):

* An associated type is found only as the whole type of a field. Below the top,
  or as `<T as Trait>::Assoc`, the visitor sees nothing or only `T`, and the user
  must give `bound` and `schema(params)`. In a variant of an enum `params` cannot
  help: the struct written for the variant has dropped `T`.
* A bound is guessed for the derived trait only. `BTreeMap<T, U>` asks `T: Ord` of
  its keys besides, `HashMap<T, U>` `T: Ord + Hash + Eq`, and a derive of a field of
  such a type does not compile unless the user gives that bound on the item or
  with `bound` (`borsh_deserialize.md:234-257` shows it). `BoundsSuffice` supposes
  that it was given (`AskedForIsGiven`). `Box<T>` and `Cow` with `ToOwned`, `Cell`
  with `Copy` and the indexmap types with `Hash + Eq` are such containers too; of
  these only `Box` is in the model.
* The struct written for a variant also lacks `T` if only `PhantomData<T>` holds
  it, keeps a lifetime that only other variants use, and keeps the predicate
  `T: Into<U>` after dropping `U`. None of the three compiles.
* Const parameters are not in a declaration: `[u8; 0]` and `[u8; 1]` as a field of
  one generic struct give two definitions of one name.
* A second `bound(...)` in an attribute replaces the first.
* The struct for variant `V` of `E` is called `EV`, which may be the name of
  another item's struct; the model's names are pairs and do not collide.

## The proofs

**FromReaderProofs**, for all constants that satisfy `ConstantsAssumption`: any
prefix, any sizes of an element in the source and in memory, any chunk, budget, set of lengths, source length and number
of interruptions. `InOrder` alone is not inductive: that a byte that arrives is
the next one needs to know how far the source is, in every phase. `IInv` adds to
`TypeOK` and `AllocBounded` one predicate per phase (`LenPhase`, `BodyPhase`,
`ElementPhase`, `TailPhase` and what holds at the end) that ties `off`, `buf`,
`want`, `vec` and `pos` together. The proof has a lemma per action. From it
follow `TypeCorrect`, `InOrderAlways`, `AllocAlwaysBounded`, and `KeepsPromise`:
each step of the code is a step of DecodeOne or leaves its variables alone, where
the value is `vec` once the answer is `ok`. The allocation bound follows from two
facts: the bulk buffer is grown only when `pos` has reached its end, and `push`
only when the elements have filled the capacity.

The assumption that `usize` holds every length of the prefix (`Lens \subseteq
0..MaxUsize`) is that of the targets borsh builds for: the conversion of a `u32`
in `vec_from_reader` cannot fail there.

**ArrayFillProofs**, for every `Depth` and `MaxLen`. The safety of the guard is a
statement of ownership: each object made so far is in exactly one of the live
slots (those below `init_count`, on the levels that are running), the value in
flight, and the set of dropped objects. `Ownership` and `Shape` state it, with
what is known at every `pc`: between `ReadOut` and the guard's drop the bits are
in two places, and only because `Reset` came first is just one of them live.
`NeverDroppedTwice`, `NeverDropsUninit`, `NeverLeaks` and `AlwaysFullWhenDone`
follow from it.

**SchemaBuildProofs**, for every set of programs that satisfies
`ProgramsAssumption`: any number of types, recursive in any way, with any names.
That the finished container is closed is not inductive: on the way, definitions
mention names that are not there yet. `IInv` says whose debt these are.
`Path`: the calls under way lead from the root along members. `Sourced`: what is
called or defined comes from types below the root. `Added`: a struct or built-in
type that is calling its members has its definition in the map. `Returned`:
members whose calls have returned are defined. `Owed`: a definition that
mentions an undefined name belongs to a call under way. A struct whose name was
taken may return at once because whoever took the name is on the stack or owes
nothing; an enum, which adds its definition last, never owes. `Exactness` follows
when the stack is empty: the types whose definition is in the map hold the root
and the members of their members, so all that is reached. `Reachable` is
therefore defined as what is in every closed set, which needs no induction.
`Alarms` follows from `Sourced`.

`DepthIsBounded` counts the calls under way. `NamesDiffer` is the invariant it
needs: of the structs that are calling their members no two have one name, since
one does so only if its name was new. Each call is told from the others by the
last struct below it and, unless it is a struct itself, by its type: two calls of
one type without a struct between them would be built-in types that hold each
other in a circle, which `ProgramsAssumption` excludes, because Rust writes a
built-in type down in full. So the calls are an injection into a product, whose
size is the bound.

`SchemaAlwaysDecides` is about two builds, one after the other. `HInv` keeps what
the first has left: the container in front of the object is one that some sequence
of steps (`Run`) from the sender's type ends with, and describes the types below
it if none clash. Two containers that are equal then make the two types alike at
all pairs of types that readers meet (`OneContainer`; the pairs are the least set
that holds the first and the members of each, `PairsClosed` and `PairsLeast`).
Two types that are alike go through their builds in step (`SameBuild`): the calls
are at the same members, the maps are equal, and if one panics so does the other,
clashes or not. That needs types that are alike to be of one kind, because the
three kinds visit their members on different conditions: the theorem assumes
`KindsByShape`, that a definition shows whether its type was derived. It is not
idle. A derived struct may be called and described like a built-in one,
`Range<T>` say; where the sender has one and the receiver the other, types that
clash unnoticed below them may leave two containers that differ. `AnswerFollows` needs no
such assumption and states what holds then.

The first part of **SchemaChecksProofs** is about the graph alone, for every container: what is reached,
which declarations have an encoding with a byte, and that `Longest`, which is
defined by how deep values nest, satisfies the equation of every definition from
which no cycle is reached (`LongestUnfold`). Sums, maxima and depths are recursive
functions on an initial part of the natural numbers; that they exist and what they
are is shown with two lemmas (`UpTo`, `PrefixRecursion`) that rest on the
well-foundedness of `<`. The same two serve SchemaBuildProofs for `Pairs`.

The rest of it, for every container, cyclic or incomplete, every `usize`
and every number of byte values. `WellFormed` says what the calls are: each was
made by the one below it, with a function and a count its caller uses and for the
member its caller is at; the stack of `validate_impl` mirrors them, and what a call
returned is something its caller may be told. On it rest five invariants, one for
each thing an answer may mean. `ZeroInv`: a declaration answered zero-sized has no
encoding with a byte, and all members called so far are such. `WalkInv`: what is on
the shared stack is a call under way, or was left there by an array without
elements to encode (the third disagreement above); so `Recursive` means a cycle or
such an array. `ValidInv`: what `validate_impl` is done with is legal, if those on
its stack turn out to be. `ErrorInv`: an error names a declaration that is
reached and has that fault. `SizeInv`: the sums and maxima on their way are those of
the longest encodings of the members called so far. `IsZeroSizeExact`,
`ValidateIsSound`, `ValidateRefuses`, `MaxSizeIsExact` and `MaxSizeRefuses` follow
when no call is left.

**DiscriminantsProofs**, for every `TagBits`, `MaxVariants`, set of
expressions and set of types of discriminants. `CountedTags` alone says nothing while tags are being assigned;
`MapOK` says what the loop of `Discriminants::new` has got so far: the text of a
variant is the text of the nearest variant above it with an expression, and one
`+ 1` for each variant between. `Compiler` counts from the same variant
(`CompilerCounts`), so the values agree where `+ 1` is appended to a plain number
and the text has one value at both types (`TextValue`; `Alike` is the condition). `VariantSurvives` is about the chain of ifs that reads a variant:
`TransferOK` says that `got` and `sent` have one value, and distinct values are
indices, or discriminants that rustc has found distinct.

**CodecProofs** is about the codec, for every set of types that satisfies
`TypesAssumption`, every set of values, every number of byte values and every
width of a length and of a usize. It has two halves, one for each way through the
codec.

From values to bytes. A decoder `Reads` bytes as a value if, whatever follows
them, it answers the value and leaves what follows, and if it misses bytes when it
is given less. (How it says so depends on where it was cut, in an `ObjectId` or not:
`CutErrors`.) That is the strengthening the round trip needs: that
`deserialize(serialize(v)) = v` says nothing of `v` as a part of a larger object.
An encoding `Fits` a decoder that reads it, or refuses it because its machine has
no room. Two parts that fit, written one behind the other, fit the decoders run
one behind the other (`FitsBoth`), and so do any number (`FitsEach`). On these two
rests a lemma per kind of type: if its parts fit, it does. The ones with an
argument of their own are the numbers (digits are read back, `ReadBack`, and a
sign), the two ways `Vec` and arrays are read, where bytes are taken at once, sets
and maps, whose items in their order are what the strict reader insists on, and
structs, whose `init` method sees other values at the sender than at the receiver.
`CodecFits` puts the kinds together by induction over `Depth`. The induction is
one over sets (`TypesInduction`: a set of types that holds each type whose parts
it holds has all of them). That `Ser`, `Dec`, `Received` and `Readable`, which are
recursive functions, satisfy their equations is shown first (`Solution` builds
from below the function that `CHOOSE` picks; `SerIs` to `ReadableIs`). `OrderFree`
is that the items of a set in their order do not depend on the hash table.

From bytes to values. Here nothing is known of where the bytes come from. Whenever
a decoder, strict or lax, answers a value, that value is written without an error,
it is readable and is received as it is; and if the decoder is strict and the type
holds no `IndexSet` or `IndexMap`, the bytes written are the bytes read
(`AllSettle`). For a part to be useful in a whole the statement must again say
what is left: `Undone` is that the bytes that were read are those that are written
in front of what was left. It is composed as above (`UndoneBoth`, `UndoneEach`,
with `EachTrace`, which recovers from the answer of decoders run one behind the
other where each of them began), there is a lemma per kind (`UintBack` to
`IndexMapBack`), and the same induction ends it. Two things resist the simple
statement. A struct within an enum is changed by the enum's `init` method after it
was read, and a skipped field is set by it; so `Back` speaks of every value that
is alike (`Alike`) to the one that was read. And a lax reader of a set or a map
keeps other items than it was sent: `Undone` says nothing of the bytes then (`cn`
is false), and what is shown is that each item kept is one that was read.

**ExchangeProofs**, for every set of samples of these types, every room of a
slice and every `usize`. `IInv` is the invariant of the writers. `PositionOK`: the
buffers up to `buffer` are written, and `taken` bytes of the next. `ArrivedOK`:
what is in the writer is the bytes up to that position, and the count of the
`LengthWriter` is that position. The one lemma about sequences (`BeginningGrows`)
says that a beginning of a part, behind what is before it, is a beginning of the
whole. `AlwaysAPrefix` and `LengthAlwaysAgrees` follow, and `KeepsPromise`: every
step is one of WriteOne or leaves its variables alone. `EInv` adds what the
exchange knows: what is written is the sample (`SampleOK`), what has arrived is a
beginning of what to_vec answered, or that and more (`WireOK`), and the answers
are those of `from_slice` (`AnswerOK`). With `CodecFits` it gives `ReadsBack` and
`EndsItself`, with `OrderFree` `AllAgree`, and with `AllSettle` and `CodecFits`
`SurvivesExchange` and `OneEncoding`, which hold for bytes of any origin. `EndsItself` needs besides that
a type without an `ObjectId` never answers `UnexpectedEof`, on any bytes: again a
lemma per kind and the induction over `Depth` (`NeverEnds`).

**DeriveProofs**, for every set of programs that satisfies `ProgramsAreRust`, and
every set of types that satisfies `TypesAssumption`. The first says that a program
is one that syn parses and rustc would accept but for the derives: fields have
types and sequences of attributes, an item declares the parameters it uses, and no
two items have one name, nor one the name of a struct written for a variant (which
is in a block of its own). The second says that types are finite, and that a
parameter, `T::Assoc` and `<T as Trait>::Assoc` are leaves.

The three properties are about the end, and `IInv` says what is known on the way.
`WorkOK`: after n fields an expansion has called what these ask for, in their
order (`BodyOK`), has collected the bounds given for them (`GivenOK`), and its
visitor has recorded the parameters given for their schemas (`UsageOK`). `ImplOK`:
an impl left behind is that of an item of the program or of a struct written for
one of its variants, is accepted exactly if there is no error in the item, and has
done this for all fields. `CoverOK`: each derive of each item, and of each struct
of an enum that was accepted, is still to be done or has been done; without it the
agreement could hold because an impl is missing.

Serialize leaves out a field that is skipped, deserialize calls `default` for it,
and the schema of an enum finds the fields in the structs of its variants:
`Written` is what all three come to. That the fields of the variants one after
the other are those of the enum (`WrittenFlatten`) makes `DerivesAlwaysAgree`.
`NothingIsIgnored` rests on what the check of the attributes excludes
(`NoContradiction`): without `with_funcs` naming both functions, or with a function
given for a skipped field, one of them would not be called.
`InnerStructsAlwaysCompile` compares what is visited with what is mentioned
(`VisitedMentioned`): they differ below a `PhantomData` and at associated types,
which are the preconditions of the property, and nowhere else, however deep a type
is nested. That part is an induction over types, done without an operator as a
parameter: the set of the types for which it holds is all of `Types`
(`TypesInduction`). What `FlattenSeq`, `\o` and picking from a sequence give is
shown for every sequence (`FlattenElements`, `ConcatIs`, `PickedIs`).

Only model-checked:

* `Terminates` and `Ends`: liveness.
* `TypeOK` of Exchange: it says that a decoded value is one of `Values`, which is a
  bound of the model and not all the values of a type. That what is decoded has
  the form of its type is not a theorem; the theorems above speak of answers that
  are in `Values`, as `Echo` does, whatever set of well-formed values that is.
* `SchemaDescribes`: `Skim`, `Definitions` and `Declaration` are another codec,
  about which the same induction would have to be done again.
* `BoundsSuffice`, `NoNeedlessBounds` and `NamesTellApart`, because what rustc needs
  for a type depends on the impls of the items in it and on what they need in their
  turn, a recursion over types with arguments put for parameters (`Needs`,
  `Subst`), and no set of types given in advance holds them all.

## Order of the work

Most important first: DecodeOne and FromReader with their proofs, ArrayFill with
its proofs, the codec and Exchange, the schema checks, the discriminants, schemas
of all types against the codec, SchemaBuild with its proofs, the derive plumbing,
the proofs for the discriminants, WriteOne and Writers with their proofs, the
walks of SchemaChecks as machines, with their proofs, the depth and the answers of
SchemaBuild, the proofs for the derive plumbing, and the proofs for the codec and
the exchange, for which the codec was made a function of types.

What would come next:

1. `SchemaDescribes` by the induction of CodecProofs: `Skim` fits what is written
   when it fits the parts.
2. SchemaBuild composed with SchemaChecks: a generated container is never
   `MissingDefinition`, and `max_serialized_size` of it bounds the encodings of
   Exchange.
3. `BoundsSuffice` for fields without items in their types, where `Needs` is a
   recursive function on the types and no impl is looked up.

## Not modelled

* Derives of unions: `serialize::unions::process` and `deserialize::unions::process`
  are `unimplemented!()`, and the schema of a union is a `compile_error!`.
* `io::Error` of the build without std: a kind and a message. The modules use the
  name of the kind, or of the message where the code tells errors apart by it.
* Re-exports, crate features other than `de_strict_order`, the prelude:
  declarations.
* `generate_schema_schema`, benchmarks, fuzzing, examples, tests: programs that
  use the library.
* Sharing: `Rc`, `Arc`, `Box`, `Cow` and `Cell` are the value they hold, which is
  what their `impl`s write and read. (A `RefCell` is more: its borrow may fail.)
* Functions given to `serialize_with`, `deserialize_with` and `with_funcs` other
  than those of the tests: code of the user. What the macros do with their names
  is in Derive.
* Parsing of tokens, which is syn's, and the layout of the generated code.
