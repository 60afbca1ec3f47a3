-------------------------- MODULE ArrayFillProofs ---------------------------
(***************************************************************************)
(* The drop guard of [T; N] drops every object exactly once and never      *)
(* touches unwritten memory, for every length and every nesting.           *)
(***************************************************************************)
EXTENDS ArrayFill, TLAPS

-----------------------------------------------------------------------------
(* The inductive invariant: every object is owned by exactly one place.    *)

\* Where every loop and count stands.
Shape ==
    /\ \A l \in Levels : l < level =>
         iter[l] = count[l] + 1 /\ iter[l] <= size[l]
    /\ pc \in {"loop", "write", "incr"} =>
         iter[level] = count[level] + 1 /\ iter[level] <= size[level] + 1
    /\ pc \in {"write", "incr"} => iter[level] <= size[level]
    /\ pc = "read" => count[level] = 0
    /\ pc = "drop" => count[level] <= size[level]
    /\ pc = "drop" /\ outcome = "ok" => count[level] = 0
    /\ pc \in {"loop", "write", "incr", "read", "returned", "end"} => outcome = "ok"
    /\ pc = "failed" => outcome # "ok"
    /\ pc \in {"loop", "incr", "read", "failed", "end"} => val = {}
    /\ pc = "drop" /\ outcome # "ok" => val = {}

\* The slots whose objects belong to the buffer of level l.
Live(l) ==
    IF l < level \/ pc \in {"loop", "write"} THEN 1..count[l]
    ELSE IF pc = "incr" THEN 1..count[l] + 1
    ELSE IF pc = "read" THEN 1..size[l]
    ELSE at..count[l]

Cells == {c \in Levels \X (1..MaxLen) : c[1] <= level /\ c[2] \in Live(c[1])}

At(c) == mem[c[1]][c[2]]

\* Owned objects are made and not dropped, no two owners share one, and what no
\* one owns has been dropped.
Ownership ==
    /\ \A c \in Cells : At(c) \subseteq (1..made) \ dropped
    /\ val \subseteq (1..made) \ dropped
    /\ \A c, d \in Cells : c # d => At(c) \cap At(d) = {}
    /\ \A c \in Cells : At(c) \cap val = {}
    /\ \A o \in 1..made : o \in dropped \/ o \in val \/ \E c \in Cells : o \in At(c)
    /\ dropped \subseteq 1..made
    /\ twice = {}
    /\ outcome = "ok" /\ pc # "end" => dropped = {}

IInv == TypeOK /\ Shape /\ Ownership

\* The arrays are not entered yet.
LEMMA InitIInv == Init => IInv
  <1> SUFFICES ASSUME Init PROVE IInv
    OBVIOUS
  <1>1. TypeOK
    BY ShapeAssumption DEF Init, TypeOK, Levels, Uninit, Garbage
  <1>2. Shape
    BY ShapeAssumption DEF Init, Shape, Levels
  <1>3. Cells = {}
    BY ShapeAssumption DEF Init, Cells, Live, Levels
  <1>4. Ownership
    BY <1>3 DEF Init, Ownership
  <1> QED
    BY <1>1, <1>2, <1>4 DEF IInv

\* A step after which the same cells own the same objects.
LEMMA SameOwners ==
    ASSUME IInv, Cells' = Cells, \A c \in Cells : At(c)' = At(c),
           UNCHANGED <<val, made, dropped, twice>>,
           outcome' = "ok" /\ pc' # "end" => outcome = "ok" /\ pc # "end"
    PROVE  Ownership'
  BY DEF IInv, Ownership

\* fill_buffer starts on the array that is the next element.
LEMMA CallInnerIInv == IInv /\ CallInner => IInv'
  <1> SUFFICES ASSUME IInv, CallInner PROVE IInv'
    OBVIOUS
  <1> USE ShapeAssumption
  <1>1. /\ level \in Levels /\ level + 1 \in Levels /\ level' = level + 1
        /\ level \in Nat /\ Depth \in Nat
        /\ pc = "loop" /\ pc' = "loop" /\ iter[level] <= size[level]
        /\ count[level] \in Nat /\ iter[level] = count[level] + 1
    BY DEF CallInner, IInv, TypeOK, Shape, Levels
  <1>2. /\ mem' \in [Levels -> [1..MaxLen -> SUBSET Nat]]
        /\ \A l \in Levels : l # level + 1 => mem'[l] = mem[l]
    <2>1. Uninit \in [1..MaxLen -> SUBSET Nat]
      BY DEF Uninit, Garbage, IInv, TypeOK
    <2> QED
      BY <2>1, <1>1 DEF CallInner, IInv, TypeOK
  <1>3. /\ count' \in [Levels -> 0..MaxLen] /\ count'[level + 1] = 0
        /\ \A l \in Levels : l # level + 1 => count'[l] = count[l]
    BY <1>1 DEF CallInner, IInv, TypeOK
  <1>4. /\ iter' \in [Levels -> 1..MaxLen + 1] /\ iter'[level + 1] = 1
        /\ \A l \in Levels : l # level + 1 => iter'[l] = iter[l]
    BY <1>1 DEF CallInner, IInv, TypeOK
  <1>5. UNCHANGED <<size, at, val, outcome, made, dropped, twice>>
    BY DEF CallInner, NoDrop
  <1>6. TypeOK'
    <2>1. level' \in 0..Depth /\ level' # 0
      BY <1>1 DEF Levels
    <2> QED
      BY <2>1, <1>1, <1>2, <1>3, <1>4, <1>5 DEF IInv, TypeOK
  <1>7. Shape'
    <2>1. size \in [Levels -> 0..MaxLen]
      BY DEF IInv, TypeOK
    <2>2. \A l \in Levels : l < level' => iter'[l] = count'[l] + 1 /\ iter'[l] <= size'[l]
      <3> SUFFICES ASSUME NEW l \in Levels, l < level'
                   PROVE  iter'[l] = count'[l] + 1 /\ iter'[l] <= size'[l]
        OBVIOUS
      <3>1. l # level + 1 /\ (l = level \/ l < level)
        BY <1>1 DEF Levels
      <3>2. iter[l] = count[l] + 1 /\ iter[l] <= size[l]
        BY <1>1, <3>1 DEF IInv, Shape
      <3> QED
        BY <3>1, <3>2, <1>3, <1>4, <1>5
    <2>3. iter'[level'] = count'[level'] + 1 /\ iter'[level'] <= size'[level'] + 1
      BY <1>1, <1>3, <1>4, <1>5, <2>1
    <2> QED
      BY <1>1, <1>5, <2>2, <2>3 DEF IInv, Shape
  <1>8. \A l \in Levels : l <= level => Live(l)' = Live(l)
    BY <1>1, <1>3 DEF Live, Levels
  <1>9. \A l \in Levels : l = level + 1 => Live(l)' = {}
    <2>1. \A l \in Levels : l = level + 1 => Live(l)' = 1..0
      BY <1>1, <1>3 DEF Live
    <2> QED
      BY <2>1
  <1>10. Cells' = Cells
    <2>1. \A c \in Levels \X (1..MaxLen) :
             c[1] <= level' /\ c[2] \in Live(c[1])' <=> c[1] <= level /\ c[2] \in Live(c[1])
      BY <1>1, <1>8, <1>9 DEF Levels
    <2> QED
      BY <2>1 DEF Cells
  <1>11. \A c \in Cells : At(c)' = At(c)
    BY <1>1, <1>2 DEF Cells, At, Levels
  <1> QED
    BY <1>1, <1>5, <1>6, <1>7, <1>10, <1>11, SameOwners DEF IInv

\* What the running level looks like, for the steps below.
LEMMA Running ==
    ASSUME IInv, level # 0
    PROVE  /\ level \in Levels /\ level \in Nat /\ Depth \in Nat /\ MaxLen \in Nat
           /\ count[level] \in 0..MaxLen /\ iter[level] \in 1..MaxLen + 1
           /\ size[level] \in 0..MaxLen /\ made \in Nat
           /\ \A l \in Levels : count[l] \in Nat /\ size[l] \in Nat
  BY ShapeAssumption DEF IInv, TypeOK, Levels

\* The element was decoded: it is in flight.
LEMMA ElementOkIInv == IInv /\ ElementOk => IInv'
  <1> SUFFICES ASSUME IInv, ElementOk PROVE IInv'
    OBVIOUS
  <1>1. /\ level # 0 /\ pc = "loop" /\ pc' = "write" /\ outcome = "ok" /\ val = {}
        /\ iter[level] <= size[level] /\ made' = made + 1 /\ val' = {made + 1}
        /\ UNCHANGED <<size, level, mem, count, iter, at, outcome, dropped, twice>>
    BY ShapeAssumption DEF ElementOk, NoDrop, IInv, Shape, TypeOK
  <1>2. made \in Nat /\ made' \in Nat
    BY <1>1, Running
  <1>3. TypeOK'
    BY <1>1, <1>2 DEF IInv, TypeOK
  <1>4. Shape'
    BY <1>1 DEF IInv, Shape
  <1>5. Cells' = Cells
    <2>1. \A l \in Levels : Live(l)' = Live(l)
      BY <1>1 DEF Live
    <2> QED
      BY <2>1, <1>1 DEF Cells
  <1>6. \A c \in Cells : At(c)' = At(c)
    BY <1>1 DEF At
  <1>7. 1..made' = (1..made) \cup {made + 1} /\ made + 1 \notin 1..made
    BY <1>1, <1>2
  <1>8. Ownership'
    BY <1>1, <1>5, <1>6, <1>7 DEF IInv, Ownership
  <1> QED
    BY <1>3, <1>4, <1>8 DEF IInv

\* The element's decoder fails: the guard is to drop what is counted.
LEMMA ElementFailsIInv == IInv /\ ElementFails => IInv'
  <1> SUFFICES ASSUME IInv, ElementFails PROVE IInv'
    OBVIOUS
  <1>1. /\ level # 0 /\ pc = "loop" /\ pc' = "drop" /\ outcome = "ok" /\ val = {}
        /\ iter[level] <= size[level] /\ at' = 1 /\ outcome' \in {"err", "panic"}
        /\ iter[level] = count[level] + 1
        /\ UNCHANGED <<size, level, mem, count, iter, val, made, dropped, twice>>
    BY ShapeAssumption DEF ElementFails, NoDrop, IInv, Shape, TypeOK
  <1>2. TypeOK'
    BY <1>1, ShapeAssumption DEF IInv, TypeOK
  <1>3. Shape'
    <2>1. count[level] <= size[level]
      BY <1>1, Running
    <2> QED
      BY <2>1, <1>1 DEF IInv, Shape
  <1>4. Cells' = Cells
    <2>1. \A l \in Levels : Live(l)' = Live(l)
      BY <1>1 DEF Live
    <2> QED
      BY <2>1, <1>1 DEF Cells
  <1>5. \A c \in Cells : At(c)' = At(c)
    BY <1>1 DEF At
  <1> QED
    BY <1>1, <1>2, <1>3, <1>4, <1>5, SameOwners DEF IInv

\* The element moves into its slot, which is not counted yet.
LEMMA WriteIInv == IInv /\ Write => IInv'
  <1> SUFFICES ASSUME IInv, Write PROVE IInv'
    OBVIOUS
  <1>1. /\ level # 0 /\ pc = "write" /\ pc' = "incr" /\ outcome = "ok" /\ val' = {}
        /\ iter[level] <= size[level] /\ iter[level] = count[level] + 1
        /\ mem' = [mem EXCEPT ![level][iter[level]] = val]
        /\ UNCHANGED <<size, level, count, iter, at, outcome, made, dropped, twice>>
    BY DEF Write, NoDrop, IInv, Shape, TypeOK
  <1> DEFINE new == <<level, iter[level]>>
  <1>2. level \in Levels /\ iter[level] \in 1..MaxLen
    BY <1>1, Running
  <1>3. /\ mem' \in [Levels -> [1..MaxLen -> SUBSET Nat]]
        /\ mem'[level][iter[level]] = val
        /\ \A l \in Levels, k \in 1..MaxLen :
             l # level \/ k # iter[level] => mem'[l][k] = mem[l][k]
    BY <1>1, <1>2 DEF IInv, TypeOK
  <1>4. TypeOK'
    BY <1>1, <1>3 DEF IInv, TypeOK
  <1>5. Shape'
    BY <1>1 DEF IInv, Shape
  <1>6. new \notin Cells /\ Cells' = Cells \cup {new}
    <2>1. \A l \in Levels : l < level => Live(l)' = Live(l)
      BY <1>1 DEF Live
    <2>2. /\ Live(level) = 1..count[level]
          /\ \A l \in Levels : l = level => Live(l)' = 1..count[level] + 1
      BY <1>1, Running DEF Live
    <2>3. 1..count[level] + 1 = (1..count[level]) \cup {iter[level]} /\ iter[level] \notin 1..count[level]
      BY <1>1, Running
    <2>4. new \notin Cells
      BY <2>2, <2>3 DEF Cells
    <2>5. \A c \in Levels \X (1..MaxLen) :
             c[1] <= level' /\ c[2] \in Live(c[1])'
               <=> (c[1] <= level /\ c[2] \in Live(c[1])) \/ c = new
      <3> SUFFICES ASSUME NEW l \in Levels, NEW k \in 1..MaxLen
                   PROVE  l <= level' /\ k \in Live(l)'
                            <=> (l <= level /\ k \in Live(l)) \/ (l = level /\ k = iter[level])
        OBVIOUS
      <3>1. CASE l < level
        BY <1>1, <2>1, <3>1, Running DEF Levels
      <3>2. CASE l = level
        BY <1>1, <2>2, <2>3, <3>2, Running DEF Levels
      <3>3. CASE l > level
        BY <1>1, <3>3, Running DEF Levels
      <3> QED
        BY <3>1, <3>2, <3>3, Running DEF Levels
    <2> QED
      BY <2>4, <2>5, <1>2 DEF Cells
  <1>7. \A c \in Cells : At(c)' = At(c)
    BY <1>3, <1>6 DEF Cells, At
  <1>8. \A c \in Cells' : c = new => At(c)' = val
    BY <1>3 DEF At
  <1>9. Ownership'
    BY <1>1, <1>6, <1>7, <1>8 DEF IInv, Ownership
  <1> QED
    BY <1>4, <1>5, <1>9 DEF IInv

\* The slot is counted.
LEMMA IncrementIInv == IInv /\ Increment => IInv'
  <1> SUFFICES ASSUME IInv, Increment PROVE IInv'
    OBVIOUS
  <1>1. /\ level # 0 /\ pc = "incr" /\ pc' = "loop" /\ outcome = "ok" /\ val = {}
        /\ iter[level] <= size[level] /\ iter[level] = count[level] + 1
        /\ count' = [count EXCEPT ![level] = @ + 1]
        /\ iter' = [iter EXCEPT ![level] = @ + 1]
        /\ UNCHANGED <<size, level, mem, at, val, outcome, made, dropped, twice>>
    BY DEF Increment, NoDrop, IInv, Shape, TypeOK
  <1>2. /\ count' \in [Levels -> 0..MaxLen] /\ iter' \in [Levels -> 1..MaxLen + 1]
        /\ count'[level] = count[level] + 1 /\ iter'[level] = iter[level] + 1
        /\ \A l \in Levels : l # level => count'[l] = count[l] /\ iter'[l] = iter[l]
    BY <1>1, Running DEF IInv, TypeOK
  <1>3. TypeOK'
    BY <1>1, <1>2 DEF IInv, TypeOK
  <1>4. Shape'
    <2>1. \A l \in Levels : l < level => iter'[l] = count'[l] + 1 /\ iter'[l] <= size[l]
      BY <1>2, Running DEF IInv, Shape
    <2>2. iter'[level] = count'[level] + 1 /\ iter'[level] <= size[level] + 1
      BY <1>1, <1>2, Running
    <2> QED
      BY <1>1, <2>1, <2>2 DEF IInv, Shape
  <1>5. Cells' = Cells
    <2>1. \A l \in Levels : l < level => Live(l)' = Live(l)
      BY <1>1, <1>2, Running DEF Live
    <2>2. \A l \in Levels : l = level => Live(l)' = Live(l)
      BY <1>1, <1>2, Running DEF Live
    <2>3. \A l \in Levels : l <= level => l < level \/ l = level
      BY Running, <1>1 DEF Levels
    <2> QED
      BY <2>1, <2>2, <2>3, <1>1 DEF Cells
  <1>6. \A c \in Cells : At(c)' = At(c)
    BY <1>1 DEF At
  <1> QED
    BY <1>1, <1>3, <1>4, <1>5, <1>6, SameOwners DEF IInv

\* The count is reset before the bits are copied.
LEMMA ResetIInv == IInv /\ Reset => IInv'
  <1> SUFFICES ASSUME IInv, Reset PROVE IInv'
    OBVIOUS
  <1>1. /\ level # 0 /\ pc = "loop" /\ pc' = "read" /\ outcome = "ok" /\ val = {}
        /\ iter[level] > size[level] /\ iter[level] <= size[level] + 1
        /\ iter[level] = count[level] + 1
        /\ count' = [count EXCEPT ![level] = 0]
        /\ UNCHANGED <<size, level, mem, iter, at, val, outcome, made, dropped, twice>>
    BY DEF Reset, NoDrop, IInv, Shape, TypeOK
  <1>2. /\ count' \in [Levels -> 0..MaxLen] /\ count'[level] = 0
        /\ \A l \in Levels : l # level => count'[l] = count[l]
        /\ count[level] = size[level]
    BY <1>1, Running DEF IInv, TypeOK
  <1>3. TypeOK'
    BY <1>1, <1>2 DEF IInv, TypeOK
  <1>4. Shape'
    <2>1. \A l \in Levels : l < level => iter[l] = count'[l] + 1 /\ iter[l] <= size[l]
      BY <1>2, Running DEF IInv, Shape
    <2> QED
      BY <1>1, <1>2, <2>1 DEF IInv, Shape
  <1>5. Cells' = Cells
    <2>1. \A l \in Levels : l < level => Live(l)' = Live(l)
      BY <1>1, <1>2, Running DEF Live
    <2>2. \A l \in Levels : l = level => Live(l)' = Live(l)
      BY <1>1, <1>2, Running DEF Live
    <2>3. \A l \in Levels : l <= level => l < level \/ l = level
      BY Running, <1>1 DEF Levels
    <2> QED
      BY <2>1, <2>2, <2>3, <1>1 DEF Cells
  <1>6. \A c \in Cells : At(c)' = At(c)
    BY <1>1 DEF At
  <1> QED
    BY <1>1, <1>3, <1>4, <1>5, <1>6, SameOwners DEF IInv

\* The bits are in two places, and only the copy owns them.
LEMMA ReadOutIInv == IInv /\ ReadOut => IInv'
  <1> SUFFICES ASSUME IInv, ReadOut PROVE IInv'
    OBVIOUS
  <1>1. /\ level # 0 /\ pc = "read" /\ pc' = "drop" /\ outcome = "ok" /\ val = {}
        /\ count[level] = 0 /\ at' = 1
        /\ val' = UNION {mem[level][k] : k \in 1..size[level]}
        /\ UNCHANGED <<size, level, mem, count, iter, outcome, made, dropped, twice>>
    BY DEF ReadOut, NoDrop, IInv, Shape, TypeOK
  <1> DEFINE mine == {<<level, k>> : k \in 1..size[level]}
  <1>2. /\ \A l \in Levels : l < level => Live(l)' = Live(l)
        /\ \A l \in Levels : l = level => Live(l)' = 1..0 /\ Live(l) = 1..size[level]
    BY <1>1, Running DEF Live
  <1>3. level \in Levels /\ 1..size[level] \subseteq 1..MaxLen
    BY <1>1, Running
  <1>4. mine \subseteq Cells /\ Cells' = Cells \ mine
    <2>1. mine \subseteq Cells
      BY <1>2, <1>3, Running, <1>1 DEF Cells
    <2>2. ASSUME NEW l \in Levels, NEW k \in 1..MaxLen
          PROVE  l <= level' /\ k \in Live(l)'
                   <=> l <= level /\ k \in Live(l) /\ <<l, k>> \notin mine
      <3>1. CASE l < level
        BY <1>1, <1>2, <3>1, Running DEF Levels
      <3>2. CASE l = level
        BY <1>1, <1>2, <3>2, Running DEF Levels
      <3>3. CASE l > level
        BY <1>1, <3>3, Running DEF Levels
      <3> QED
        BY <3>1, <3>2, <3>3, <1>1, Running DEF Levels
    <2> HIDE DEF mine
    <2> QED
      BY <2>1, <2>2 DEF Cells
  <1>m. \A o : o \in val' <=> \E c \in mine : o \in At(c)
    <2>1. ASSUME NEW o PROVE o \in val' <=> \E k \in 1..size[level] : o \in mem[level][k]
      BY <1>1
    <2>2. ASSUME NEW o
          PROVE  (\E c \in mine : o \in At(c)) <=> \E k \in 1..size[level] : o \in At(<<level, k>>)
      OBVIOUS
    <2>3. ASSUME NEW k \in 1..size[level] PROVE At(<<level, k>>) = mem[level][k]
      BY DEF At
    <2> QED
      BY <2>1, <2>2, <2>3
  <1>5. \A c \in Cells : At(c)' = At(c)
    BY <1>1 DEF At
  <1>6. val' \in SUBSET Nat
    BY <1>1, Running DEF IInv, TypeOK
  <1>7. TypeOK'
    BY <1>1, <1>6, ShapeAssumption DEF IInv, TypeOK
  <1>8. Shape'
    BY <1>1, Running DEF IInv, Shape
  <1> HIDE DEF mine
  <1>9. Ownership'
    BY <1>1, <1>4, <1>m, <1>5 DEF IInv, Ownership
  <1> QED
    BY <1>7, <1>8, <1>9 DEF IInv

\* One element less is counted, and it is dropped.
LEMMA DropElementIInv == IInv /\ DropElement => IInv'
  <1> SUFFICES ASSUME IInv, DropElement PROVE IInv'
    OBVIOUS
  <1>1. /\ level # 0 /\ pc = "drop" /\ pc' = "drop" /\ at <= count[level] /\ at' = at + 1
        /\ count[level] <= size[level] /\ at \in 1..MaxLen + 1
        /\ twice' = twice \cup (dropped \cap mem[level][at])
        /\ dropped' = dropped \cup mem[level][at]
        /\ UNCHANGED <<size, level, mem, count, iter, val, outcome, made>>
    BY DEF DropElement, Drop, IInv, Shape, TypeOK
  <1>2. outcome # "ok" /\ val = {}
    BY <1>1, Running DEF IInv, Shape
  <1>3. at \in 1..MaxLen /\ at' \in 1..MaxLen + 1
    BY <1>1, Running
  <1> DEFINE old == <<level, at>>
  <1>4. /\ \A l \in Levels : l < level => Live(l)' = Live(l)
        /\ Live(level) = at..count[level]
        /\ \A l \in Levels : l = level => Live(l)' = at + 1..count[level]
    BY <1>1, Running DEF Live
  <1>5. old \in Cells /\ Cells' = Cells \ {old}
    <2>1. at..count[level] = (at + 1..count[level]) \cup {at} /\ at \notin at + 1..count[level]
      BY <1>1, <1>3, Running
    <2>2. old \in Cells
      <3>1. level \in Levels /\ level <= level /\ at \in Live(level)
        BY <1>1, <1>4, <2>1, Running
      <3> QED
        BY <3>1, <1>3 DEF Cells
    <2>3. ASSUME NEW l \in Levels, NEW k \in 1..MaxLen
          PROVE  l <= level' /\ k \in Live(l)'
                   <=> l <= level /\ k \in Live(l) /\ ~(l = level /\ k = at)
      <3>1. CASE l < level
        BY <1>1, <1>4, <3>1, Running DEF Levels
      <3>2. CASE l = level
        BY <1>1, <1>4, <2>1, <3>2, Running DEF Levels
      <3>3. CASE l > level
        BY <1>1, <3>3, Running DEF Levels
      <3> QED
        BY <3>1, <3>2, <3>3, Running DEF Levels
    <2> QED
      BY <2>2, <2>3 DEF Cells
  <1>6. \A c \in Cells : At(c)' = At(c)
    BY <1>1 DEF At
  <1>7. mem[level][at] = At(old)
    BY DEF At
  <1>8. At(old) \in SUBSET Nat
    <2>1. mem \in [Levels -> [1..MaxLen -> SUBSET Nat]] /\ level \in Levels
      BY <1>1, Running DEF IInv, TypeOK
    <2>2. mem[level] \in [1..MaxLen -> SUBSET Nat]
      BY <2>1
    <2>3. mem[level][at] \in SUBSET Nat
      BY <2>2, <1>3
    <2> QED
      BY <2>3, <1>7
  <1> HIDE DEF old
  <1>9. TypeOK'
    BY <1>1, <1>3, <1>7, <1>8 DEF IInv, TypeOK
  <1>10. Shape'
    BY <1>1 DEF IInv, Shape
  <1>11. Ownership'
    <2>1. At(old) \subseteq (1..made) \ dropped
      BY <1>5 DEF IInv, Ownership
    <2>2. twice' = {} /\ dropped' = dropped \cup At(old)
      BY <1>1, <1>7, <2>1 DEF IInv, Ownership
    <2>3. \A c \in Cells' : c \in Cells /\ At(c)' = At(c) /\ At(c) \cap At(old) = {}
      BY <1>5, <1>6 DEF IInv, Ownership
    <2>4. \A c \in Cells : c = old \/ c \in Cells'
      BY <1>5
    <2>5. \A c \in Cells' : At(c)' \subseteq (1..made) \ dropped'
      BY <2>2, <2>3 DEF IInv, Ownership
    <2>6. \A c, d \in Cells' : c # d => At(c)' \cap At(d)' = {}
      BY <2>3 DEF IInv, Ownership
    <2>7. \A o \in 1..made : o \in dropped' \/ \E c \in Cells' : o \in At(c)'
      BY <1>2, <2>2, <2>3, <2>4 DEF IInv, Ownership
    <2>8. dropped' \subseteq 1..made
      BY <2>1, <2>2 DEF IInv, Ownership
    <2> QED
      BY <1>1, <1>2, <2>2, <2>5, <2>6, <2>7, <2>8 DEF Ownership
  <1> QED
    BY <1>9, <1>10, <1>11 DEF IInv

\* The array, or its failure, is the element of the level above.
LEMMA ReturnIInv == IInv /\ Return => IInv'
  <1> SUFFICES ASSUME IInv, Return PROVE IInv'
    OBVIOUS
  <1>1. /\ level # 0 /\ pc = "drop" /\ at > count[level] /\ at' = 1 /\ level' = level - 1
        /\ pc' = IF outcome # "ok" THEN IF level = 1 THEN "failed" ELSE "drop"
                 ELSE IF level = 1 THEN "returned" ELSE "write"
        /\ UNCHANGED <<size, mem, count, iter, val, outcome, made, dropped, twice>>
    BY DEF Return, NoDrop, IInv, Shape, TypeOK
  <1>2. /\ level \in Levels /\ level \in Nat /\ level' \in 0..Depth /\ level' \in Nat
        /\ level' = 0 <=> level = 1
        /\ at \in Nat /\ count[level] \in Nat
    BY <1>1, Running DEF IInv, TypeOK, Levels
  <1>3. TypeOK'
    BY <1>1, <1>2, ShapeAssumption DEF IInv, TypeOK
  <1>4. \A l \in Levels : l < level' => l < level
    BY <1>1, <1>2 DEF Levels
  <1>5. level' # 0 => /\ level' \in Levels /\ level' < level
                      /\ iter[level'] = count[level'] + 1 /\ iter[level'] <= size[level']
                      /\ count[level'] <= size[level']
                      /\ iter[level'] <= size[level'] + 1
    <2> SUFFICES ASSUME NEW m \in Nat, m = level', m # 0
                 PROVE  /\ m \in Levels /\ m < level
                        /\ iter[m] = count[m] + 1 /\ iter[m] <= size[m]
                        /\ count[m] <= size[m]
                        /\ iter[m] <= size[m] + 1
      BY <1>2
    <2>1. m \in Levels /\ m < level
      BY <1>1, <1>2 DEF Levels
    <2>2. iter[m] = count[m] + 1 /\ iter[m] <= size[m]
      BY <2>1 DEF IInv, Shape
    <2>3. count[m] \in Nat /\ size[m] \in Nat
      BY <2>1, <1>1, Running
    <2> QED
      BY <2>1, <2>2, <2>3
  <1>6. Shape'
    <2>1. \A l \in Levels : l < level' => iter[l] = count[l] + 1 /\ iter[l] <= size[l]
      BY <1>4 DEF IInv, Shape
    <2>2. outcome = "ok" => pc' \in {"write", "returned"}
      BY <1>1
    <2>3. outcome # "ok" => pc' \in {"drop", "failed"} /\ val = {}
      BY <1>1 DEF IInv, Shape
    <2>4. pc' \in {"write", "drop"} => level' # 0
      BY <1>1, <1>2
    <2>5. UNCHANGED <<size, count, iter, val, outcome>>
      BY <1>1
    <2>6. CASE outcome = "ok"
      BY <1>5, <2>1, <2>2, <2>4, <2>5, <2>6 DEF Shape
    <2>7. CASE outcome # "ok"
      BY <1>5, <2>1, <2>3, <2>4, <2>5, <2>7 DEF Shape
    <2> QED
      BY <2>6, <2>7
  <1>7. Cells' = Cells
    <2>1. ASSUME NEW l \in Levels, NEW k \in 1..MaxLen
          PROVE  l <= level' /\ k \in Live(l)' <=> l <= level /\ k \in Live(l)
      <3>1. CASE l = level
        <4>1. Live(l) = {}
          BY <1>1, <1>2, <3>1 DEF Live
        <4> QED
          BY <1>1, <1>2, <3>1, <4>1
      <3>2. CASE l < level
        <4>1. l <= level' /\ Live(l) = 1..count[l]
          BY <1>1, <1>2, <3>2 DEF Levels, Live
        <4>2. level' # 0 /\ pc' \in {"drop", "write"}
          BY <1>1, <1>2, <3>2, <4>1 DEF Levels
        <4>3. Live(l)' = 1..count[l]
          BY <1>1, <4>2 DEF Live
        <4> QED
          BY <3>2, <4>1, <4>3, <1>2 DEF Levels
      <3>3. CASE l > level
        BY <1>1, <1>2, <3>3 DEF Levels
      <3> QED
        BY <3>1, <3>2, <3>3, <1>2 DEF Levels
    <2> QED
      BY <2>1 DEF Cells
  <1>8. \A c \in Cells : At(c)' = At(c)
    BY <1>1 DEF At
  <1> QED
    BY <1>1, <1>3, <1>6, <1>7, <1>8, SameOwners DEF IInv

\* The owner drops the outermost array.
LEMMA CallerDropIInv == IInv /\ CallerDrop => IInv'
  <1> SUFFICES ASSUME IInv, CallerDrop PROVE IInv'
    OBVIOUS
  <1>1. /\ level = 0 /\ pc = "returned" /\ pc' = "end" /\ outcome = "ok" /\ val' = {}
        /\ twice' = twice \cup (dropped \cap val) /\ dropped' = dropped \cup val
        /\ UNCHANGED <<size, level, mem, count, iter, at, outcome, made>>
    BY DEF CallerDrop, Drop, IInv, Shape, TypeOK
  <1>2. TypeOK'
    BY <1>1 DEF IInv, TypeOK
  <1>3. Shape'
    BY <1>1 DEF IInv, Shape
  <1>4. Cells = {} /\ Cells' = {}
    BY <1>1 DEF Cells, Levels
  <1>5. Ownership'
    BY <1>1, <1>4 DEF IInv, Ownership
  <1> QED
    BY <1>2, <1>3, <1>5 DEF IInv

\* Every step.
LEMMA NextIInv == IInv /\ [Next]_vars => IInv'
  <1> SUFFICES ASSUME IInv, [Next]_vars PROVE IInv'
    OBVIOUS
  <1>1. CASE UNCHANGED vars
    <2>1. TypeOK' /\ Shape'
      BY <1>1 DEF vars, IInv, TypeOK, Shape
    <2>2. Cells' = Cells /\ \A c \in Cells : At(c)' = At(c)
      BY <1>1 DEF vars, Cells, Live, At
    <2> QED
      BY <1>1, <2>1, <2>2, SameOwners DEF vars, IInv
  <1> QED
    BY <1>1, CallInnerIInv, ElementOkIInv, ElementFailsIInv, WriteIInv, IncrementIInv,
       ResetIInv, ReadOutIInv, DropElementIInv, ReturnIInv, CallerDropIInv
    DEF Next, Over

-----------------------------------------------------------------------------
(* The theorems.                                                           *)

\* Every object is at all times in exactly one of: a slot that a guard counts,
\* the value in flight, the dropped objects.
THEOREM OneOwner == Spec => []IInv
  BY InitIInv, NextIInv, PTL DEF Spec

\* The type invariant, for every nesting and every length.
THEOREM TypeCorrect == Spec => []TypeOK
  <1>1. IInv => TypeOK
    BY DEF IInv
  <1> QED
    BY OneOwner, <1>1, PTL

\* No object is dropped twice, whichever element fails or panics.
THEOREM NeverDroppedTwice == Spec => []NoDoubleDrop
  <1>1. IInv => NoDoubleDrop
    BY DEF IInv, Ownership, NoDoubleDrop
  <1> QED
    BY OneOwner, <1>1, PTL

\* The guard never drops a slot that was not written.
THEOREM NeverDropsUninit == Spec => []NoUninitDrop
  <1>1. IInv => NoUninitDrop
    BY DEF IInv, Ownership, NoUninitDrop, Garbage
  <1> QED
    BY OneOwner, <1>1, PTL

\* Nothing leaks on an error or a panic, and a decoded array is complete.
THEOREM NeverLeaks == Spec => []NothingLeaks
  <1>1. IInv => NothingLeaks
    <2> SUFFICES ASSUME IInv PROVE NothingLeaks
      OBVIOUS
    <2>1. CASE pc \in {"failed", "end"}
      <3>1. val = {} /\ Cells = {}
        BY <2>1 DEF IInv, TypeOK, Shape, Cells, Levels
      <3> QED
        BY <2>1, <3>1 DEF IInv, Ownership, NothingLeaks
    <2>2. CASE pc = "returned"
      <3>1. outcome = "ok" /\ Cells = {}
        BY <2>2 DEF IInv, TypeOK, Shape, Cells, Levels
      <3> QED
        BY <2>2, <3>1 DEF IInv, Ownership, NothingLeaks
    <2> QED
      BY <2>1, <2>2 DEF NothingLeaks
  <1> QED
    BY OneOwner, <1>1, PTL

\* The debug assertion of transmute_to_array holds.
THEOREM AlwaysFullWhenDone == Spec => []FullWhenDone
  <1>1. IInv => FullWhenDone
    BY Running DEF IInv, Shape, FullWhenDone
  <1> QED
    BY OneOwner, <1>1, PTL
=============================================================================
