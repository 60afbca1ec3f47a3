----------------------------- MODULE ArrayFill ------------------------------
(***************************************************************************)
(* Decoding a fixed-size array [T; N] into uninitialised memory: the drop  *)
(* guard of BorshDeserialize for [T; N], write by write and drop by drop.  *)
(* T may itself be such an array, so Depth calls of the same code are      *)
(* nested: the elements of level Depth are decoded by T, those of level l  *)
(* above it by level l + 1.  Decoding an element of T succeeds, fails or   *)
(* panics.                                                                 *)
(*                                                                         *)
(* A cell of memory holds the set of the objects whose bits are in it: one *)
(* object at level Depth, those of a whole array above.  Copying bits does *)
(* not remove them, so the same object can be reachable from two places,   *)
(* and a cell that was never written holds Garbage.                        *)
(***************************************************************************)
EXTENDS Integers, FiniteSets

CONSTANTS
    Depth,      \* nesting of the array type
    MaxLen      \* bound: longest array of a level

ASSUME ShapeAssumption == Depth \in Nat \ {0} /\ MaxLen \in Nat

VARIABLES
    size,       \* N of every level
    level,      \* the level whose code runs; 0 once the outermost has returned
    pc,         \* what it does next
    mem,        \* buffer: level -> slot -> objects
    count,      \* init_count: level -> number
    iter,       \* position of the loop over the buffer: level -> slot
    at,         \* next slot the guard of this level drops
    val,        \* objects of the value in flight: returned, not yet stored
    outcome,    \* how the running call ends: "ok", "err" or "panic"
    made,       \* objects decoded so far: 1..made
    dropped,    \* what has been dropped
    twice       \* what has been dropped more than once

vars == <<size, level, pc, mem, count, iter, at, val, outcome, made, dropped, twice>>

Levels == 1..Depth
Garbage == 0
Uninit == [k \in 1..MaxLen |-> {Garbage}]

\* Dropping the objects of a cell.
Drop(cell) ==
    /\ twice' = twice \cup (dropped \cap cell)
    /\ dropped' = dropped \cup cell

NoDrop == UNCHANGED <<dropped, twice>>

Init ==
    /\ size \in [Levels -> 0..MaxLen]
    /\ level = 1 /\ pc = "loop"
    /\ mem = [l \in Levels |-> Uninit]
    /\ count = [l \in Levels |-> 0]
    /\ iter = [l \in Levels |-> 1]
    /\ at = 1 /\ val = {} /\ outcome = "ok"
    /\ made = 0 /\ dropped = {} /\ twice = {}

-----------------------------------------------------------------------------
(* fill_buffer: for elem in buffer { elem.write(f()?); init_count += 1 }   *)

\* f is this code one level down: a guard over uninitialised memory.
CallInner ==
    /\ pc = "loop" /\ level # 0 /\ level < Depth
    /\ iter[level] <= size[level]
    /\ level' = level + 1
    /\ mem' = [mem EXCEPT ![level + 1] = Uninit]
    /\ count' = [count EXCEPT ![level + 1] = 0]
    /\ iter' = [iter EXCEPT ![level + 1] = 1]
    /\ UNCHANGED <<size, pc, at, val, outcome, made>> /\ NoDrop

\* Broken variant: the loop runs one slot too far.
ElementOkBeyond ==
    /\ pc = "loop" /\ level = Depth
    /\ iter[level] <= size[level] + 1
    /\ made' = made + 1
    /\ val' = {made + 1}
    /\ pc' = "write"
    /\ UNCHANGED <<size, level, mem, count, iter, at, outcome>> /\ NoDrop

\* f decodes an element.
ElementOk ==
    /\ pc = "loop" /\ level = Depth
    /\ iter[level] <= size[level]
    /\ made' = made + 1
    /\ val' = {made + 1}
    /\ pc' = "write"
    /\ UNCHANGED <<size, level, mem, count, iter, at, outcome>> /\ NoDrop

\* Broken variants: init_count is raised before f is called; nothing guards the
\* buffer when f panics.
ElementFailsCounted ==
    /\ pc = "loop" /\ level = Depth
    /\ iter[level] <= size[level]
    /\ outcome' \in {"err", "panic"}
    /\ count' = [count EXCEPT ![level] = @ + 1]
    /\ pc' = "drop" /\ at' = 1
    /\ UNCHANGED <<size, level, mem, iter, val, made>> /\ NoDrop
ElementFailsUnguarded ==
    /\ pc = "loop" /\ level = Depth
    /\ iter[level] <= size[level]
    /\ outcome' \in {"err", "panic"}
    /\ pc' = "drop"
    /\ at' = IF outcome' = "panic" THEN count[level] + 1 ELSE 1
    /\ UNCHANGED <<size, level, mem, count, iter, val, made>> /\ NoDrop

\* f fails, or panics: the guard is dropped on the way out.
ElementFails ==
    /\ pc = "loop" /\ level = Depth
    /\ iter[level] <= size[level]
    /\ outcome' \in {"err", "panic"}
    /\ pc' = "drop" /\ at' = 1
    /\ UNCHANGED <<size, level, mem, count, iter, val, made>> /\ NoDrop

Write ==
    /\ pc = "write"
    /\ mem' = [mem EXCEPT ![level][iter[level]] = val]
    /\ val' = {}
    /\ pc' = "incr"
    /\ UNCHANGED <<size, level, count, iter, at, outcome, made>> /\ NoDrop

\* Broken variant: only the loop advances.
IncrementIterOnly ==
    /\ pc = "incr"
    /\ iter' = [iter EXCEPT ![level] = @ + 1]
    /\ pc' = "loop"
    /\ UNCHANGED <<size, level, mem, count, at, val, outcome, made>> /\ NoDrop

Increment ==
    /\ pc = "incr"
    /\ count' = [count EXCEPT ![level] = @ + 1]
    /\ iter' = [iter EXCEPT ![level] = @ + 1]
    /\ pc' = "loop"
    /\ UNCHANGED <<size, level, mem, at, val, outcome, made>> /\ NoDrop

-----------------------------------------------------------------------------
(* transmute_to_array                                                      *)

\* Broken variant: init_count keeps its value.
ResetForgotten ==
    /\ pc = "loop" /\ level # 0
    /\ iter[level] > size[level]
    /\ pc' = "read"
    /\ UNCHANGED <<size, level, mem, count, iter, at, val, outcome, made>> /\ NoDrop

\* The loop is over: init_count becomes 0, so that the guard drops nothing.
Reset ==
    /\ pc = "loop" /\ level # 0
    /\ iter[level] > size[level]
    /\ count' = [count EXCEPT ![level] = 0]
    /\ pc' = "read"
    /\ UNCHANGED <<size, level, mem, iter, at, val, outcome, made>> /\ NoDrop

\* ptr::read copies the bits of the whole buffer.
ReadOut ==
    /\ pc = "read"
    /\ val' = UNION {mem[level][k] : k \in 1..size[level]}
    /\ pc' = "drop" /\ at' = 1
    /\ UNCHANGED <<size, level, mem, count, iter, outcome, made>> /\ NoDrop

-----------------------------------------------------------------------------
(* The guard: drop_in_place of buffer[..init_count], element by element.   *)

DropElement ==
    /\ pc = "drop" /\ at <= count[level]
    /\ Drop(mem[level][at])
    /\ at' = at + 1
    /\ UNCHANGED <<size, level, pc, mem, count, iter, val, outcome, made>>

\* The call returns to the level above, which stores the array it got or drops
\* its own guard in turn.
Return ==
    /\ pc = "drop" /\ at > count[level]
    /\ level' = level - 1
    /\ at' = 1
    /\ pc' = IF outcome # "ok" THEN IF level = 1 THEN "failed" ELSE "drop"
             ELSE IF level = 1 THEN "returned" ELSE "write"
    /\ UNCHANGED <<size, mem, count, iter, val, outcome, made>> /\ NoDrop

\* The caller drops the array some time later.
CallerDrop ==
    /\ pc = "returned"
    /\ Drop(val)
    /\ val' = {}
    /\ pc' = "end"
    /\ UNCHANGED <<size, level, mem, count, iter, at, outcome, made>>

Over == pc \in {"failed", "end"} /\ UNCHANGED vars

Next ==
    \/ CallInner \/ ElementOk \/ ElementFails \/ Write \/ Increment
    \/ Reset \/ ReadOut \/ DropElement \/ Return \/ CallerDrop \/ Over

Spec == Init /\ [][Next]_vars

-----------------------------------------------------------------------------
(* Properties.                                                             *)

\* The type invariant; the loop and the count stay within the buffer.
TypeOK ==
    /\ size \in [Levels -> 0..MaxLen]
    /\ level \in 0..Depth
    /\ pc \in {"loop", "write", "incr", "read", "drop", "failed", "returned", "end"}
    /\ pc \in {"loop", "write", "incr", "read", "drop"} <=> level # 0
    /\ mem \in [Levels -> [1..MaxLen -> SUBSET Nat]]
    /\ count \in [Levels -> 0..MaxLen]
    /\ iter \in [Levels -> 1..MaxLen + 1]
    /\ at \in 1..MaxLen + 1
    /\ val \in SUBSET Nat
    /\ outcome \in {"ok", "err", "panic"}
    /\ made \in Nat
    /\ dropped \in SUBSET Nat /\ twice \in SUBSET Nat

\* Nothing is dropped twice: neither by the guard of a level and the array that
\* was read out of it, nor by the guards of two levels, nor by the caller.
NoDoubleDrop == twice = {}

\* No guard ever drops memory that was not written.
NoUninitDrop == Garbage \notin dropped

\* Nothing leaks: a failed decoding has dropped every object it had made, and a
\* successful one hands all of them to its caller and drops none
\* (the test array_deserialization_doesnt_leak, at every depth and length).
NothingLeaks ==
    /\ pc \in {"failed", "end"} => dropped = 1..made
    /\ pc = "returned" => val = 1..made /\ dropped = {}

\* debug_assert_eq!(self.init_count, N): the buffer is full when it is read out.
FullWhenDone == pc = "loop" /\ level # 0 /\ iter[level] > size[level]
                  => count[level] = size[level]
=============================================================================
