-------------------------- MODULE FromReaderProofs --------------------------
(***************************************************************************)
(* FromReader keeps its buffers in order, its reservations bounded and the *)
(* promise of DecodeOne, for every prefix width, size of the elements in   *)
(* the source and in memory, first chunk, usize and source.                *)
(***************************************************************************)
EXTENDS FromReader, TLAPS

-----------------------------------------------------------------------------
(* The inductive invariant: one conjunct per phase of the decoding.        *)

LenPhase ==
    /\ vec = <<>> /\ count = 0 /\ pos = 0 /\ alloc = 0
    /\ off = Len(buf) /\ Len(buf) + want = LenBytes

\* The buffer is never empty and fills what is reserved unless it has the length
\* of the whole value.
BodyPhase ==
    /\ bulk /\ declared > 0
    /\ Len(vec) \in 1..declared /\ Len(vec) <= alloc
    /\ alloc = Len(vec) \/ Len(vec) = declared
    /\ off = LenBytes + pos

\* Fewer elements have been pushed than announced, and one is being received.
ElementPhase ==
    /\ ~bulk /\ count < declared
    /\ Len(vec) = pos
    /\ off = LenBytes + pos + Len(buf) /\ Len(buf) + want = elem.wire
    /\ \A i \in 1..Len(buf) : buf[i] = LenBytes + pos + i

TailPhase ==
    /\ pos = PayloadLen /\ Len(vec) = pos /\ Received = declared
    /\ entry = "from_slice" => want = 1
    /\ off = LenBytes + PayloadLen + Len(buf) /\ Len(buf) + want = 1

IInv ==
    /\ TypeOK
    /\ \A i \in 1..Len(vec) : vec[i] = IF i <= pos THEN LenBytes + i ELSE 0
    /\ AllocBounded
    /\ pc = "len" => LenPhase
    /\ pc = "body" => BodyPhase
    /\ pc = "element" => ElementPhase
    /\ pc = "tail" => TailPhase
    /\ pc # "done" => res = "none" /\ failed = "none"
    /\ pc = "done" => res # "none"

-----------------------------------------------------------------------------
(* Arithmetic that the steps rely on.                                      *)

\* What a quotient leaves, multiplied again, is no more than it was.
LEMMA DivMul ==
    ASSUME NEW b \in Nat, NEW s \in Nat \ {0}
    PROVE  b \div s \in Nat /\ (b \div s) * s <= b
  OBVIOUS

\* Products grow with a factor.
LEMMA MulMono ==
    ASSUME NEW a \in Nat, NEW b \in Nat, NEW s \in Nat, a <= b
    PROVE  a * s <= b * s
  OBVIOUS

\* After one more of d elements of s bytes.
LEMMA NextElement ==
    ASSUME NEW k \in Nat, NEW d \in Nat, NEW s \in Nat, k < d
    PROVE  /\ k * s \in Nat /\ k * s + s \in Nat
           /\ k * s + s = (k + 1) * s
           /\ k * s + s <= d * s
  OBVIOUS

\* A bound by twice what was received stays one when more is received.
LEMMA MoreReceived ==
    ASSUME NEW a \in Nat, NEW k \in Nat, NEW p \in Nat, NEW q \in Nat, p <= q,
           a <= k \/ a <= 2 * p
    PROVE  a <= Max(k, 2 * q)
  BY DEF Max

\* The widths and lengths are numbers.
LEMMA SizeNat ==
    ASSUME elem \in IF bulk THEN {OneByte} ELSE Elements, declared \in Lens
    PROVE  /\ elem.wire \in Nat /\ elem.mem \in Nat \ {0}
           /\ bulk => elem.wire = 1 /\ elem.mem = 1
           /\ declared \in Nat /\ PayloadLen \in Nat
  <1>1. elem.wire \in Nat /\ elem.mem \in Nat \ {0} /\ (bulk => elem.wire = 1 /\ elem.mem = 1)
    BY ConstantsAssumption DEF OneByte
  <1>2. declared \in Nat
    BY ConstantsAssumption
  <1> QED
    BY <1>1, <1>2 DEF PayloadLen

\* The amounts that an invariant state speaks of are numbers.
LEMMA Amounts ==
    ASSUME TypeOK
    PROVE  /\ elem.wire \in Nat /\ elem.mem \in Nat \ {0}
           /\ bulk => elem.wire = 1 /\ elem.mem = 1
           /\ declared \in Nat /\ PayloadLen \in Nat /\ LenBytes \in Nat
           /\ pos \in Nat /\ alloc \in Nat /\ off \in Nat /\ want \in Nat /\ total \in Nat
           /\ count \in Nat /\ Received \in Nat /\ Occupied \in Nat
           /\ Chunk \in Nat \ {0} /\ Budget \in Nat /\ Len(buf) \in Nat /\ Len(vec) \in Nat
           /\ off <= total /\ Available \in Nat
  <1>1. /\ elem \in IF bulk THEN {OneByte} ELSE Elements
        /\ declared \in Lens /\ declared \in Nat
    BY ConstantsAssumption DEF TypeOK
  <1>2. /\ elem.wire \in Nat /\ elem.mem \in Nat \ {0}
        /\ bulk => elem.wire = 1 /\ elem.mem = 1
        /\ declared \in Nat /\ PayloadLen \in Nat
    BY <1>1, SizeNat
  <1>3. /\ LenBytes \in Nat /\ alloc \in Nat /\ want \in Nat /\ Chunk \in Nat \ {0}
        /\ Budget \in Nat /\ Len(buf) \in Nat /\ Len(vec) \in Nat
    BY ConstantsAssumption DEF TypeOK
  <1>4. /\ pos \in Nat /\ off \in Nat /\ total \in Nat /\ count \in Nat
        /\ off <= total /\ Available \in Nat
    BY <1>1, <1>3, ConstantsAssumption DEF TypeOK, Available
  <1>5. Received \in Nat
    BY <1>4 DEF Received
  <1>6. Occupied \in Nat
    BY <1>2, <1>5 DEF Occupied
  <1> QED
    BY <1>2, <1>3, <1>4, <1>5, <1>6

\* The capacity reserved for elements before any is read.
LEMMA CautiousBounded ==
    ASSUME TypeOK
    PROVE  /\ Cautious(declared) \in Nat
           /\ Cautious(declared) * elem.mem \in Nat
           /\ Cautious(declared) * elem.mem <= Max(Budget, elem.mem)
  <1> DEFINE c == Cautious(declared)
             q == Budget \div elem.mem
  <1>1. elem.mem \in Nat \ {0} /\ declared \in Nat /\ Budget \in Nat
    BY Amounts
  <1>2. q \in Nat /\ q * elem.mem <= Budget
    BY <1>1, DivMul
  <1>3. c \in Nat /\ (c <= q \/ c = 1)
    BY <1>1, <1>2 DEF Cautious, Min, Max
  <1> HIDE DEF c, q
  <1>4. c * elem.mem \in Nat
    BY <1>1, <1>3
  <1>5. CASE c <= q
    <2>1. c * elem.mem <= q * elem.mem
      BY <1>1, <1>2, <1>3, <1>5, MulMono
    <2>2. q * elem.mem \in Nat
      BY <1>1, <1>2
    <2> QED
      BY <2>1, <2>2, <1>1, <1>2, <1>3, <1>4 DEF c, Max
  <1>6. CASE c = 1
    BY <1>1, <1>4, <1>6 DEF c, Max
  <1> QED
    BY <1>3, <1>5, <1>6

-----------------------------------------------------------------------------
(* The invariant is inductive.                                             *)

\* Nothing was read yet.
LEMMA InitIInv == Init => IInv
  <1> SUFFICES ASSUME Init PROVE IInv
    OBVIOUS
  <1> USE ConstantsAssumption
  <1>1. /\ elem \in IF bulk THEN {OneByte} ELSE Elements
        /\ declared \in Lens
    BY DEF Init
  <1>2. elem.wire \in Nat /\ elem.mem \in Nat \ {0} /\ declared \in Nat /\ PayloadLen \in Nat
    BY <1>1, SizeNat
  <1>3. TypeOK
    BY <1>2 DEF Init, TypeOK, Answers
  <1>4. Received = 0 /\ Occupied = 0 /\ pos = Received * elem.wire
    BY <1>2 DEF Init, Received, Occupied
  <1>5. AllocBounded
    BY <1>2, <1>4 DEF Init, AllocBounded, Max
  <1>6. LenPhase
    BY DEF Init, LenPhase
  <1> QED
    BY <1>3, <1>5, <1>6 DEF Init, IInv

\* The end of the decoding leaves everything but the answer as it is.
LEMMA FinishIInv ==
    ASSUME IInv, NEW r \in Answers \ {"none"}, Finish(r),
           off' = off, failed' \in {"none", "io", "interrupted"}
    PROVE  IInv'
  BY DEF IInv, TypeOK, Finish, input, Answers, AllocBounded, PayloadLen, Received, Occupied

\* read_exact meets the end.
LEMMA EndOfInputIInv == IInv /\ EndOfInput => IInv'
  BY FinishIInv DEF EndOfInput, Answers, IInv, TypeOK

\* The reader fails.
LEMMA ReaderErrorIInv == IInv /\ ReaderError => IInv'
  BY FinishIInv DEF ReaderError, Answers

\* The bulk read meets the end.
LEMMA BodyEndIInv == IInv /\ BodyEnd => IInv'
  BY FinishIInv DEF BodyEnd, Answers, IInv, TypeOK

\* The bulk read is interrupted, which it passes on.
LEMMA BodyInterruptedIInv == IInv /\ BodyInterrupted => IInv'
  BY FinishIInv DEF BodyInterrupted, Answers

\* The byte after the value.
LEMMA TailIInv == IInv /\ (TailByte \/ TailOfSlice) => IInv'
  BY FinishIInv DEF TailByte, TailOfSlice, Answers, IInv, TypeOK

\* read_exact goes on: only the buffer and the source move.
LEMMA ReceiveIInv ==
    ASSUME IInv, pc \in Exacts, pc = "tail" => entry = "from_reader",
           NEW n \in Nat, n <= want, n <= Available, Receive(n)
    PROVE  IInv'
  <1>1. /\ elem.wire \in Nat /\ PayloadLen \in Nat /\ LenBytes \in Nat
        /\ total \in Nat /\ off \in Nat /\ want \in Nat /\ pos \in Nat
        /\ Len(buf) \in Nat
    BY Amounts DEF IInv
  <1>2. off + n <= total /\ off' = off + n /\ want' = want - n
    BY <1>1 DEF Receive, Available
  <1>3. off' \in Nat /\ want' \in Nat
    BY <1>1, <1>2
  <1>4. buf' \in Seq(Nat) /\ Len(buf') = Len(buf) + n
    BY <1>1, <1>2 DEF Receive, IInv, TypeOK
  <1>5. ASSUME NEW i \in 1..Len(buf) + n
        PROVE  /\ i <= Len(buf) => buf'[i] = buf[i]
               /\ i > Len(buf) => buf'[i] = off + (i - Len(buf))
    BY <1>1, <1>2 DEF Receive
  <1>6. /\ input' = input /\ declared' = declared /\ pc' = pc /\ vec' = vec
        /\ pos' = pos /\ alloc' = alloc /\ res' = res /\ failed' = failed
        /\ elem' = elem /\ bulk' = bulk /\ count' = count /\ PayloadLen' = PayloadLen
        /\ Received' = Received /\ Occupied' = Occupied
    BY DEF Receive, input, PayloadLen, Received, Occupied
  <1>7. /\ off' = off + n /\ want' = want - n /\ Len(buf') = Len(buf) + n
        /\ Len(buf') \in Nat
    BY <1>1, <1>2, <1>4
  <1>8. TypeOK'
    BY <1>1, <1>2, <1>3, <1>4, <1>6 DEF IInv, TypeOK, Receive, input, Answers
  <1>9. AllocBounded'
    BY <1>6 DEF IInv, AllocBounded
  <1>10. ASSUME pc = "len" PROVE LenPhase'
    <2>1. off = Len(buf) /\ Len(buf) + want = LenBytes /\ vec = <<>> /\ count = 0 /\ pos = 0 /\ alloc = 0
      BY <1>10 DEF IInv, LenPhase
    <2>2. off' = Len(buf') /\ Len(buf') + want' = LenBytes
      BY <2>1, <1>1, <1>3, <1>7
    <2> QED
      BY <2>1, <2>2, <1>6 DEF LenPhase
  <1>11. ASSUME pc = "element" PROVE ElementPhase'
    <2>1. ElementPhase
      BY <1>11 DEF IInv
    <2>2. off = LenBytes + pos + Len(buf) /\ Len(buf) + want = elem.wire
      BY <2>1 DEF ElementPhase
    <2>4. off' = LenBytes + pos + Len(buf') /\ Len(buf') + want' = elem.wire
      BY <2>2, <1>1, <1>3, <1>7
    <2>5. ASSUME NEW i \in 1..Len(buf) + n
          PROVE  buf'[i] = LenBytes + pos + i
      <3>1. CASE i <= Len(buf)
        <4>1. i \in 1..Len(buf)
          BY <1>1, <3>1
        <4> QED
          BY <2>1, <1>5, <3>1, <4>1 DEF ElementPhase
      <3>2. CASE i > Len(buf)
        BY <2>2, <1>1, <1>5, <3>2
      <3> QED
        BY <1>1, <3>1, <3>2
    <2>6. \A i \in 1..Len(buf') : buf'[i] = LenBytes + pos + i
      BY <2>5, <1>7
    <2> QED
      BY <2>1, <2>4, <2>6, <1>6 DEF ElementPhase
  <1>12. ASSUME pc = "tail" PROVE TailPhase'
    <2>1. /\ off = LenBytes + PayloadLen + Len(buf) /\ Len(buf) + want = 1
          /\ pos = PayloadLen /\ Len(vec) = pos /\ Received = declared
      BY <1>12 DEF IInv, TailPhase
    <2>2. off' = LenBytes + PayloadLen + Len(buf') /\ Len(buf') + want' = 1
      BY <2>1, <1>1, <1>3, <1>7
    <2>3. entry' = "from_reader"
      BY <1>6, <1>12 DEF input
    <2> QED
      BY <2>1, <2>2, <2>3, <1>6 DEF TailPhase
  <1> QED
    BY <1>6, <1>8, <1>9, <1>10, <1>11, <1>12 DEF IInv, Receive, Exacts

\* read_exact gets some of what it asked for.
LEMMA ReadIInv == IInv /\ (ReadSome \/ ReadSlice) => IInv'
  <1> SUFFICES ASSUME IInv, ReadSome \/ ReadSlice PROVE IInv'
    OBVIOUS
  <1>1. want \in Nat /\ Available \in Nat
    BY ConstantsAssumption DEF IInv, TypeOK, Available
  <1>2. CASE ReadSome
    <2>1. PICK n \in 1..Min(want, Available) : Receive(n)
      BY <1>2 DEF ReadSome
    <2>2. n \in Nat /\ n <= want /\ n <= Available
      BY <1>1 DEF Min
    <2>3. pc = "tail" => entry = "from_reader"
      BY <1>2 DEF ReadSome, IInv, TypeOK
    <2> QED
      BY <1>2, <2>1, <2>2, <2>3, ReceiveIInv DEF ReadSome
  <1>3. CASE ReadSlice
    BY <1>1, <1>3, ReceiveIInv DEF ReadSlice
  <1> QED
    BY <1>2, <1>3

\* A step that leaves the phase and everything it speaks of alone.
LEMMA ReadInterruptedIInv == IInv /\ ReadInterrupted => IInv'
  <1> SUFFICES ASSUME IInv, ReadInterrupted PROVE IInv'
    OBVIOUS
  <1>1. TypeOK'
    BY ConstantsAssumption
    DEF IInv, TypeOK, ReadInterrupted, input, PayloadLen, Answers
  <1>2. Received' = Received /\ Occupied' = Occupied /\ elem' = elem /\ PayloadLen' = PayloadLen
    BY DEF ReadInterrupted, input, Received, Occupied, PayloadLen
  <1> QED
    BY <1>1, <1>2 DEF IInv, ReadInterrupted, input, Exacts, AllocBounded,
                      LenPhase, ElementPhase, TailPhase

\* The length is known.
LEMMA LengthReadIInv == IInv /\ LengthRead => IInv'
  <1> SUFFICES ASSUME IInv, LengthRead PROVE IInv'
    OBVIOUS
  <1>1. /\ elem.wire \in Nat /\ elem.mem \in Nat \ {0}
        /\ PayloadLen \in Nat /\ LenBytes \in Nat
        /\ declared \in Nat /\ Chunk \in Nat \ {0} /\ Budget \in Nat
        /\ vec = <<>> /\ count = 0 /\ pos = 0 /\ alloc = 0 /\ off = LenBytes
        /\ Received = 0 /\ Occupied = 0
    <2>1. LenPhase /\ want = 0
      BY DEF IInv, LengthRead
    <2>2. Received = 0
      BY <2>1 DEF LenPhase, Received
    <2>3. elem.mem \in Nat
      BY Amounts DEF IInv
    <2>4. Occupied = 0
      BY <2>2, <2>3 DEF Occupied
    <2> QED
      BY <2>1, <2>2, <2>4, Amounts DEF IInv, LenPhase
  <1>2. /\ input' = input /\ declared' = declared /\ off' = off /\ pos' = pos
        /\ res' = res /\ failed' = failed /\ bulk' = bulk
        /\ elem' = elem /\ count' = count /\ PayloadLen' = PayloadLen
        /\ Received' = Received /\ Occupied' = Occupied
    BY DEF LengthRead, input, PayloadLen, Received, Occupied
  <1>3. /\ pc = "len" /\ res = "none" /\ failed = "none"
    BY DEF IInv, LengthRead
  <1>4. CASE declared = 0
    <2>1. /\ pc' = "tail" /\ want' = 1 /\ buf' = <<>> /\ vec' = vec /\ alloc' = alloc
      BY <1>4 DEF LengthRead, EnterTail, CallReadExact
    <2>2. PayloadLen = 0
      BY <1>1, <1>4 DEF PayloadLen
    <2>3. TypeOK'
      BY <1>1, <1>2, <1>3, <2>1, <2>2 DEF IInv, TypeOK, LengthRead, input, Answers
    <2>4. AllocBounded'
      BY <1>2, <2>1 DEF IInv, AllocBounded
    <2>5. TailPhase'
      BY <1>1, <1>2, <1>4, <2>1, <2>2 DEF TailPhase
    <2> QED
      BY <1>1, <1>2, <1>3, <2>1, <2>3, <2>4, <2>5 DEF IInv
  <1>5. CASE declared # 0 /\ bulk
    <2> DEFINE m == Min(declared, Chunk)
    <2>1. /\ pc' = "body" /\ want' = want /\ buf' = buf /\ alloc' = m
          /\ vec' = [i \in 1..m |-> 0]
      BY <1>5 DEF LengthRead
    <2>2. m \in Nat /\ 1 <= m /\ m <= declared /\ m <= Chunk
      BY <1>1, <1>5 DEF Min
    <2> HIDE DEF m
    <2>3. vec' \in Seq(Nat) /\ Len(vec') = m /\ \A i \in 1..Len(vec') : vec'[i] = 0
      BY <2>1, <2>2
    <2>4. TypeOK'
      BY <1>1, <1>2, <1>3, <2>1, <2>2, <2>3 DEF IInv, TypeOK, LengthRead, input, Answers
    <2>5. AllocBounded'
      <3>1. pos' = Received' * elem'.wire
        BY <1>1, <1>2
      <3> QED
        BY <1>1, <1>2, <2>1, <2>2, <3>1 DEF AllocBounded, Max
    <2>6. BodyPhase'
      BY <1>1, <1>2, <1>5, <2>1, <2>2, <2>3 DEF BodyPhase
    <2>7. \A i \in 1..Len(vec') : vec'[i] = IF i <= pos' THEN LenBytes + i ELSE 0
      BY <1>1, <1>2, <2>3
    <2> QED
      BY <1>2, <1>3, <2>1, <2>4, <2>5, <2>6, <2>7 DEF IInv
  <1>6. CASE declared # 0 /\ ~bulk
    <2>1. /\ pc' = "element" /\ want' = elem.wire /\ buf' = <<>> /\ vec' = vec
          /\ alloc' = Cautious(declared) * elem.mem
      BY <1>6 DEF LengthRead, CallReadExact
    <2>2. alloc' \in Nat /\ alloc' <= Max(Budget, elem.mem)
      BY <2>1, CautiousBounded DEF IInv
    <2>3. TypeOK'
      BY <1>1, <1>2, <1>3, <2>1, <2>2 DEF IInv, TypeOK, LengthRead, input, Answers
    <2>4. AllocBounded'
      <3>1. pos' = Received' * elem'.wire
        BY <1>1, <1>2
      <3> QED
        BY <1>1, <1>2, <2>2, <3>1 DEF AllocBounded, Max
    <2>6. ElementPhase'
      BY <1>1, <1>2, <1>6, <2>1 DEF ElementPhase
    <2> QED
      BY <1>1, <1>2, <1>3, <2>1, <2>3, <2>4, <2>6 DEF IInv
  <1> QED
    BY <1>4, <1>5, <1>6 DEF IInv, TypeOK

\* An element is pushed.
LEMMA ElementReadIInv == IInv /\ ElementRead => IInv'
  <1> SUFFICES ASSUME IInv, ElementRead PROVE IInv'
    OBVIOUS
  <1>1. /\ ElementPhase /\ want = 0 /\ pc = "element"
        /\ res = "none" /\ failed = "none" /\ ~bulk
    BY DEF IInv, ElementRead, ElementPhase
  <1>2. /\ elem.wire \in Nat /\ elem.mem \in Nat \ {0}
        /\ PayloadLen \in Nat /\ LenBytes \in Nat
        /\ declared \in Nat /\ pos \in Nat /\ alloc \in Nat /\ off \in Nat
        /\ Chunk \in Nat \ {0} /\ Budget \in Nat /\ Len(buf) \in Nat
        /\ count \in Nat /\ count < declared
    BY <1>1, Amounts DEF IInv, ElementPhase
  <1> DEFINE w == elem.wire
             c == elem.mem
  <1>3. Len(buf) = w /\ off = LenBytes + pos + w
    BY <1>1, <1>2 DEF ElementPhase
  <1>4. pos = count * w
    BY <1>1 DEF IInv, AllocBounded, Received
  <1>5. /\ pos + w \in Nat
        /\ pos + w = (count + 1) * w
        /\ pos + w <= PayloadLen
        /\ count + 1 = declared => pos + w = PayloadLen
    BY <1>2, <1>4, NextElement DEF PayloadLen
  <1>6. /\ count * c \in Nat /\ (count + 1) * c \in Nat
        /\ count * c <= (count + 1) * c
    BY <1>2, NextElement
  <1>7. /\ input' = input /\ declared' = declared /\ off' = off /\ bulk' = bulk
        /\ res' = res /\ failed' = failed
        /\ elem' = elem /\ PayloadLen' = PayloadLen
        /\ pos' = pos + w /\ pos' \in Nat /\ count' = count + 1
        /\ alloc' = Grown((count + 1) * c)
    BY <1>5 DEF ElementRead, Push, input, PayloadLen
  <1>8. /\ Received = count /\ Received' = count + 1
        /\ Occupied = count * c /\ Occupied' = (count + 1) * c
    BY <1>1, <1>7 DEF Received, Occupied
  <1>9. ASSUME NEW i \in 1..pos + w
        PROVE  (IF i <= pos THEN vec[i] ELSE buf[i - pos]) = LenBytes + i
    <2>1. CASE i <= pos
      <3>1. i \in 1..Len(vec)
        BY <1>1, <1>2, <2>1 DEF ElementPhase
      <3> QED
        BY <2>1, <3>1 DEF IInv
    <2>2. CASE i > pos
      <3>1. i - pos \in 1..Len(buf) /\ i \in Nat
        BY <1>2, <1>3, <2>2
      <3>2. buf[i - pos] = LenBytes + pos + (i - pos)
        BY <1>1, <3>1 DEF ElementPhase
      <3> QED
        BY <1>2, <2>2, <3>1, <3>2
    <2> QED
      BY <1>2, <2>1, <2>2
  <1>10. /\ vec' \in Seq(Nat) /\ Len(vec') = pos + w
         /\ \A i \in 1..Len(vec') : vec'[i] = LenBytes + i
    <2>1. vec' = [i \in 1..pos + w |-> LenBytes + i]
      BY <1>9 DEF ElementRead, Push
    <2>2. pos + w \in Nat /\ LenBytes \in Nat
      BY <1>2, <1>5
    <2> HIDE DEF w
    <2> QED
      BY <2>1, <2>2
  <1>11. alloc' \in Nat /\ AllocBounded'
    <2> DEFINE K == Max(Max(Chunk, Budget), c)
    <2>1. K \in Nat /\ K' = K
      BY <1>2, <1>7 DEF Max
    <2>2. alloc <= Max(K, 2 * (count * c))
      BY <1>8 DEF IInv, AllocBounded
    <2> HIDE DEF K, c
    <2>3. alloc <= K \/ alloc <= 2 * (count * c)
      BY <1>2, <1>6, <2>1, <2>2 DEF Max
    <2>4. alloc' \in Nat /\ (alloc' = alloc \/ alloc' <= 2 * ((count + 1) * c))
      BY <1>2, <1>6, <1>7 DEF Grown, Max
    <2>5. alloc' <= Max(K, 2 * ((count + 1) * c))
      <3> DEFINE p == count * c
                 q == (count + 1) * c
      <3>1. p \in Nat /\ q \in Nat /\ p <= q
        BY <1>6
      <3>2. alloc <= K \/ alloc <= 2 * p
        BY <2>3
      <3>3. alloc' \in Nat /\ (alloc' = alloc \/ alloc' <= 2 * q)
        BY <2>4
      <3> HIDE DEF p, q
      <3>4. alloc <= Max(K, 2 * q)
        BY <1>2, <2>1, <3>1, <3>2, MoreReceived
      <3>5. alloc' <= Max(K, 2 * q)
        BY <1>2, <2>1, <3>1, <3>3, <3>4 DEF Max
      <3> QED
        BY <3>5 DEF q
    <2>6. alloc' <= Max(K', 2 * Occupied')
      BY <2>1, <2>5, <1>8
    <2>7. pos' = Received' * elem'.wire
      BY <1>5, <1>7, <1>8
    <2> QED
      BY <2>4, <2>6, <2>7 DEF K, c, AllocBounded
  <1>12. pc' \in {"element", "tail"} /\ buf' = <<>> /\ want' \in Nat
    BY <1>2 DEF ElementRead, EnterTail, CallReadExact
  <1>13. TypeOK'
    BY <1>2, <1>5, <1>7, <1>10, <1>11, <1>12
    DEF IInv, TypeOK, ElementRead, input, Answers
  <1>14. CASE count + 1 = declared
    <2>1. pc' = "tail" /\ want' = 1
      BY <1>14 DEF ElementRead, EnterTail, CallReadExact
    <2>2. pos' = PayloadLen' /\ Len(vec') = pos' /\ Received' = declared'
      BY <1>5, <1>7, <1>8, <1>10, <1>14
    <2>3. off' = LenBytes + PayloadLen' + Len(buf') /\ Len(buf') + want' = 1
      <3>1. PayloadLen = pos + w /\ off' = LenBytes + pos + w /\ Len(buf') = 0
        BY <1>3, <1>5, <1>7, <1>12, <1>14
      <3>2. pos + w \in Nat /\ PayloadLen' = PayloadLen /\ LenBytes \in Nat
        BY <1>2, <1>5, <1>7
      <3>3. LenBytes + pos + w = LenBytes + (pos + w)
        <4>1. w \in Nat /\ pos \in Nat
          BY <1>2
        <4> HIDE DEF w
        <4> QED
          BY <4>1, <3>2
      <3> HIDE DEF w
      <3> QED
        BY <3>1, <3>2, <3>3, <2>1
    <2>4. TailPhase'
      BY <2>1, <2>2, <2>3 DEF TailPhase
    <2> QED
      BY <1>1, <1>2, <1>7, <1>10, <1>11, <1>13, <2>1, <2>4 DEF IInv
  <1>15. CASE count + 1 # declared
    <2>1. pc' = "element" /\ want' = w
      BY <1>15 DEF ElementRead, CallReadExact
    <2>2. ElementPhase'
      <3>1. ~bulk' /\ count' < declared' /\ Len(vec') = pos'
        BY <1>1, <1>2, <1>7, <1>10, <1>15
      <3>2. Len(buf') = 0 /\ buf' = <<>>
        BY <1>12
      <3>3. off' = LenBytes + pos' + Len(buf') /\ Len(buf') + want' = elem'.wire
        <4>1. off' = LenBytes + pos + w /\ pos' = pos + w /\ want' = w /\ elem'.wire = w
          BY <1>3, <1>7, <2>1
        <4>2. w \in Nat
          BY <1>2
        <4> HIDE DEF w
        <4> QED
          BY <1>2, <3>2, <4>1, <4>2
      <3> QED
        BY <3>1, <3>2, <3>3 DEF ElementPhase
    <2> QED
      BY <1>1, <1>2, <1>7, <1>10, <1>11, <1>13, <2>1, <2>2 DEF IInv
  <1> QED
    BY <1>14, <1>15

\* The buffer of the bulk read never shrinks, and has room when it is read into.
LEMMA RoomyLenBounds ==
    ASSUME IInv, pc = "body", pos < declared
    PROVE  /\ RoomyLen \in Nat /\ Len(vec) <= RoomyLen /\ RoomyLen <= declared
           /\ pos < RoomyLen
           /\ \/ RoomyLen = Len(vec)
              \/ pos = Len(vec) /\ RoomyLen <= 2 * pos /\ (RoomyLen = 2 * pos \/ RoomyLen = declared)
  <1>1. /\ Len(vec) \in Nat /\ 1 <= Len(vec) /\ Len(vec) <= declared
        /\ declared \in Nat /\ declared <= MaxUsize /\ MaxUsize \in Nat
        /\ pos \in Nat /\ pos <= Len(vec)
    BY ConstantsAssumption DEF IInv, TypeOK, BodyPhase
  <1> QED
    BY <1>1 DEF RoomyLen, Min

\* The bulk read gets some bytes.
LEMMA BodyReadIInv == IInv /\ BodyRead => IInv'
  <1> SUFFICES ASSUME IInv, BodyRead PROVE IInv'
    OBVIOUS
  <1>1. /\ BodyPhase /\ pc = "body" /\ pos < declared
        /\ res = "none" /\ failed = "none"
    BY DEF IInv, BodyRead
  <1> DEFINE m == RoomyLen
  <1>2. /\ m \in Nat /\ Len(vec) <= m /\ m <= declared /\ pos < m
        /\ \/ m = Len(vec)
           \/ pos = Len(vec) /\ m <= 2 * pos /\ (m = 2 * pos \/ m = declared)
    BY <1>1, RoomyLenBounds
  <1>3. /\ bulk /\ elem.wire = 1 /\ elem.mem = 1 /\ PayloadLen = declared /\ LenBytes \in Nat
        /\ total \in Nat /\ declared \in Nat /\ pos \in Nat /\ alloc \in Nat /\ off \in Nat
        /\ Chunk \in Nat /\ Budget \in Nat /\ Len(vec) \in Nat
        /\ off = LenBytes + pos /\ Len(vec) <= alloc
        /\ alloc = Len(vec) \/ Len(vec) = declared
        /\ Available = total - off /\ Available \in Nat
    <2>1. bulk /\ declared \in Nat
      BY <1>1, Amounts DEF IInv, BodyPhase
    <2> QED
      BY <1>1, <2>1, Amounts DEF IInv, BodyPhase, PayloadLen, Available
  <1>4. PICK n \in Nat :
           /\ n > 0 /\ n <= m - pos /\ n <= Available
           /\ vec' = Filled(n) /\ alloc' = Grown(m) /\ pos' = pos + n /\ off' = off + n
    BY <1>2, <1>3 DEF BodyRead, Min
  <1>5. /\ input' = input /\ declared' = declared /\ bulk' = bulk /\ pc' = pc
        /\ res' = res /\ failed' = failed /\ elem' = elem /\ PayloadLen' = PayloadLen
        /\ count' = count
    BY DEF BodyRead, input, PayloadLen
  <1> HIDE DEF m
  <1>6. ASSUME NEW i \in 1..m
        PROVE  (IF i <= pos THEN vec[i] ELSE IF i <= pos + n THEN off + (i - pos) ELSE 0)
                 = (IF i <= pos + n THEN LenBytes + i ELSE 0)
    <2>1. CASE i <= pos
      <3>1. i \in 1..Len(vec)
        BY <1>2, <1>3, <2>1 DEF IInv, TypeOK
      <3> QED
        BY <1>3, <1>4, <2>1, <3>1 DEF IInv
    <2>2. CASE i > pos
      BY <1>2, <1>3, <1>4, <2>2
    <2> QED
      BY <1>2, <1>3, <2>1, <2>2
  <1>7. vec' = [i \in 1..m |-> IF i <= pos + n THEN LenBytes + i ELSE 0]
    BY <1>4, <1>6 DEF Filled, m
  <1>8. /\ vec' \in Seq(Nat) /\ Len(vec') = m
        /\ \A i \in 1..Len(vec') : vec'[i] = IF i <= pos' THEN LenBytes + i ELSE 0
    BY <1>2, <1>3, <1>4, <1>7
  <1>9. pos' \in Nat /\ pos' <= m /\ pos < pos' /\ off' \in Nat /\ off' <= total
    BY <1>2, <1>3, <1>4
  <1>10. /\ alloc' \in Nat /\ m <= alloc' /\ (alloc' = m \/ m = declared)
         /\ alloc' = alloc \/ alloc' <= 2 * pos
    <2>1. CASE m <= alloc
      BY <1>2, <1>3, <1>4, <2>1 DEF Grown
    <2>2. CASE alloc < m
      <3>1. pos = Len(vec) /\ alloc = pos /\ m <= 2 * pos /\ (m = 2 * pos \/ m = declared)
        BY <1>2, <1>3, <2>2
      <3>2. alloc' = 2 * pos
        BY <1>2, <1>3, <1>4, <2>2, <3>1 DEF Grown, Max
      <3> QED
        BY <1>2, <1>3, <3>1, <3>2
    <2> QED
      BY <1>2, <1>3, <2>1, <2>2
  <1>11. TypeOK'
    BY <1>2, <1>3, <1>5, <1>8, <1>9, <1>10 DEF IInv, TypeOK, BodyRead, input, Answers
  <1>12. AllocBounded'
    <2> DEFINE K == Max(Max(Chunk, Budget), elem.mem)
    <2>1. K \in Nat /\ K' = K
      BY <1>3, <1>5 DEF Max
    <2>2. /\ Occupied = pos /\ Occupied' = pos'
          /\ pos' = Received' * elem'.wire
      BY <1>3, <1>5, <1>9 DEF Received, Occupied
    <2>3. alloc <= Max(K, 2 * pos)
      BY <2>2 DEF IInv, AllocBounded
    <2> HIDE DEF K
    <2>4. alloc' <= K \/ alloc' <= 2 * pos
      BY <1>3, <1>10, <2>1, <2>3 DEF Max
    <2>5. alloc' <= Max(K, 2 * pos')
      BY <1>3, <1>9, <1>10, <2>1, <2>4, MoreReceived
    <2>6. alloc' <= Max(K', 2 * Occupied')
      BY <2>1, <2>2, <2>5
    <2> QED
      BY <2>2, <2>6 DEF K, AllocBounded
  <1>13. BodyPhase'
    BY <1>1, <1>2, <1>3, <1>4, <1>5, <1>8, <1>9, <1>10 DEF BodyPhase
  <1> QED
    BY <1>1, <1>5, <1>8, <1>11, <1>12, <1>13 DEF IInv

\* The bulk read is complete.
LEMMA BodyDoneIInv == IInv /\ BodyDone => IInv'
  <1> SUFFICES ASSUME IInv, BodyDone PROVE IInv'
    OBVIOUS
  <1>1. /\ BodyPhase /\ res = "none" /\ failed = "none"
        /\ pos >= declared
    BY DEF IInv, BodyDone
  <1>2. /\ bulk /\ declared \in Nat /\ pos \in Nat /\ LenBytes \in Nat
        /\ Len(vec) \in Nat /\ pos <= Len(vec) /\ Len(vec) <= declared
        /\ off = LenBytes + pos
    BY <1>1, Amounts DEF IInv, TypeOK, BodyPhase
  <1>3. pos = declared /\ Len(vec) = declared
    BY <1>1, <1>2
  <1>4. PayloadLen = declared /\ Received = declared
    BY <1>2, <1>3, Amounts DEF IInv, PayloadLen, Received
  <1>5. /\ input' = input /\ declared' = declared /\ bulk' = bulk /\ off' = off
        /\ vec' = vec /\ pos' = pos /\ alloc' = alloc
        /\ res' = res /\ failed' = failed /\ elem' = elem /\ PayloadLen' = PayloadLen
        /\ pc' = "tail" /\ want' = 1 /\ buf' = <<>>
        /\ count' = count /\ Received' = Received /\ Occupied' = Occupied
    BY DEF BodyDone, EnterTail, CallReadExact, input, PayloadLen, Received, Occupied
  <1>6. TypeOK'
    BY <1>5 DEF IInv, TypeOK, BodyDone, input, Answers
  <1>7. AllocBounded'
    BY <1>5 DEF IInv, AllocBounded
  <1>8. TailPhase'
    BY <1>2, <1>3, <1>4, <1>5 DEF TailPhase
  <1> QED
    BY <1>1, <1>5, <1>6, <1>7, <1>8 DEF IInv

\* Every step.
LEMMA NextIInv == IInv /\ [Next]_vars => IInv'
  <1> SUFFICES ASSUME IInv, [Next]_vars PROVE IInv'
    OBVIOUS
  <1>1. CASE Step
    BY <1>1, EndOfInputIInv, ReaderErrorIInv, ReadIInv, ReadInterruptedIInv,
       LengthReadIInv, ElementReadIInv, BodyReadIInv, BodyEndIInv,
       BodyInterruptedIInv, BodyDoneIInv, TailIInv DEF Step
  <1>2. CASE UNCHANGED vars
    BY <1>2 DEF vars, IInv, TypeOK, AllocBounded, LenPhase, BodyPhase, ElementPhase,
                TailPhase, PayloadLen, Received, Occupied
  <1> QED
    BY <1>1, <1>2 DEF Next, Returned

-----------------------------------------------------------------------------
(* The theorems.                                                           *)

\* In every reachable state of the decoder the variables are in range and the
\* phase of the decoding fixes what is in the buffers.
THEOREM Invariance == Spec => []IInv
  BY InitIInv, NextIInv, PTL DEF Spec

\* The type invariant of the decoder, for every value of the constants: the
\* slice vec[pos..] of the bulk read is always in range.
THEOREM TypeCorrect == Spec => []TypeOK
  <1>1. IInv => TypeOK
    BY DEF IInv
  <1> QED
    BY Invariance, <1>1, PTL

\* The bytes received are those of the value, in order, none lost or repeated,
\* whatever the chunk size, the growth and the short reads.
THEOREM InOrderAlways == Spec => []InOrder
  <1>1. IInv => InOrder
    BY DEF IInv, InOrder, LenPhase, BodyPhase, ElementPhase, TailPhase
  <1> QED
    BY Invariance, <1>1, PTL

\* The memory reserved is at most a fixed amount, the memory of one element or
\* twice that of the elements decoded, whatever length the prefix announces and
\* however much larger an element is in memory than in the source; and each
\* element decoded was taken from the source, for all the bytes that it has.
THEOREM AllocAlwaysBounded == Spec => []AllocBounded
  <1>1. IInv => AllocBounded
    BY DEF IInv
  <1> QED
    BY Invariance, <1>1, PTL

-----------------------------------------------------------------------------
(* The decoder keeps the promise of DecodeOne.                             *)

\* The first state is one of DecodeOne.
LEMMA InitPromise == Init => Promise!Init
  <1> SUFFICES ASSUME Init PROVE Promise!Init
    OBVIOUS
  <1>1. elem \in Elements \cup {OneByte}
    BY DEF Init
  <1>2. elem.wire \in {e.wire : e \in Elements \cup {OneByte}}
    BY <1>1
  <1> QED
    BY <1>2 DEF Init, Promise!Init

\* The end of the value is where the length says.
LEMMA FrameIs == Promise!Frame = LenBytes + PayloadLen
  BY DEF Promise!Frame, PayloadLen

\* The value in the tail is complete.
LEMMA TailValue == IInv /\ pc = "tail" => <<Received, vec>> = Promise!Payload
  <1> SUFFICES ASSUME IInv, pc = "tail" PROVE <<Received, vec>> = Promise!Payload
    OBVIOUS
  <1>1. /\ vec \in Seq(Nat) /\ PayloadLen \in Nat /\ Len(vec) = PayloadLen
        /\ \A i \in 1..PayloadLen : vec[i] = LenBytes + i
        /\ Received = declared
    BY Amounts DEF IInv, TypeOK, TailPhase
  <1>2. vec = [i \in 1..PayloadLen |-> LenBytes + i]
    BY <1>1
  <1> QED
    BY <1>1, <1>2 DEF Promise!Payload, PayloadLen

\* Where the source stands in each phase, in terms of the whole encoding.
LEMMA OffInFrame ==
    ASSUME IInv
    PROVE  /\ total \in Nat /\ off \in Nat /\ want \in Nat /\ Promise!Frame \in Nat
           /\ off <= total
           /\ pc \in {"len", "element"} => off + want <= Promise!Frame
           /\ pc = "body" /\ pos < declared => off < Promise!Frame
           /\ pc = "tail" => off + want = Promise!Frame + 1
  <1>1. /\ total \in Nat /\ off \in Nat /\ want \in Nat /\ LenBytes \in Nat
        /\ off <= total /\ Len(buf) \in Nat /\ pos \in Nat /\ count \in Nat
        /\ elem.wire \in Nat /\ declared \in Nat /\ PayloadLen \in Nat
    BY Amounts DEF IInv
  <1>2. Promise!Frame = LenBytes + PayloadLen
    BY FrameIs
  <1>3. CASE pc = "len"
    <2>1. off = Len(buf) /\ Len(buf) + want = LenBytes
      BY <1>3 DEF IInv, LenPhase
    <2> QED
      BY <1>1, <1>2, <1>3, <2>1
  <1>4. CASE pc = "element"
    <2>1. ElementPhase
      BY <1>4 DEF IInv
    <2>2. count < declared /\ pos = count * elem.wire
      BY <2>1 DEF IInv, ElementPhase, AllocBounded, Received
    <2>3. pos + elem.wire <= PayloadLen
      BY <1>1, <2>2, NextElement DEF PayloadLen
    <2>4. off = LenBytes + pos + Len(buf) /\ Len(buf) + want = elem.wire
      BY <2>1 DEF ElementPhase
    <2> QED
      BY <1>1, <1>2, <1>4, <2>3, <2>4
  <1>5. CASE pc = "body"
    <2>1. off = LenBytes + pos /\ PayloadLen = declared
      BY <1>1, <1>5, Amounts DEF IInv, BodyPhase, PayloadLen
    <2> QED
      BY <1>1, <1>2, <1>5, <2>1
  <1>6. CASE pc = "tail"
    <2>1. off = LenBytes + PayloadLen + Len(buf) /\ Len(buf) + want = 1
      BY <1>6 DEF IInv, TailPhase
    <2> QED
      BY <1>1, <1>2, <1>6, <2>1
  <1>7. CASE pc = "done"
    BY <1>1, <1>2, <1>7
  <1> QED
    BY <1>3, <1>4, <1>5, <1>6, <1>7 DEF IInv, TypeOK

\* The end of the decoding is one of the answers the promise allows.
LEMMA FinishPromise ==
    ASSUME IInv, NEW r, Finish(r), off' = off, pc # "done",
           \/ failed' = failed /\ r = Promise!Verdict /\ (r = "ok" => pc = "tail" /\ off = total)
           \/ failed' = "io" /\ r = "Io"
           \/ failed' = "io" /\ r = "NotAllBytesRead" /\ off = Promise!Frame
           \/ failed' = "interrupted" /\ r = "Interrupted" /\ off < Promise!Frame,
           off <= Promise!Frame \/ failed' = failed
    PROVE  Promise!Next
  <1>1. /\ res = "none" /\ failed = "none" /\ res' = r /\ vec' = vec
        /\ elem' = elem /\ total' = total /\ declared' = declared /\ Received' = Received
    BY DEF IInv, Finish, input, Received
  <1>2. CASE failed' = failed /\ r = Promise!Verdict /\ (r = "ok" => pc = "tail" /\ off = total)
    <2>1. r = "ok" => <<Received, vec>> = Promise!Payload
      BY <1>2, TailValue
    <2>2. Promise!Answer
      BY <1>1, <1>2, <2>1 DEF Promise!Answer
    <2> QED
      BY <2>2 DEF Promise!Next
  <1>3. CASE failed' # failed
    BY <1>1, <1>3 DEF Promise!Next, Promise!Fail
  <1>4. CASE failed' = failed /\ r # Promise!Verdict
    BY <1>1, <1>4
  <1> QED
    BY <1>1, <1>2, <1>3, <1>4

\* Bytes arriving are bytes taken.
LEMMA TakePromise ==
    ASSUME IInv, NEW n \in Nat, n > 0, off + n <= total, off + n <= Promise!Frame + 1,
           off' = off + n, pc # "done",
           UNCHANGED <<input, failed, res>>
    PROVE  Promise!Next
  <1>1. off \in Nat /\ Promise!Frame \in Nat
    BY OffInFrame
  <1>2. off + n \in off + 1..Promise!Frame + 1
    BY <1>1
  <1>3. /\ res = "none" /\ res' = res /\ failed' = failed
        /\ elem' = elem /\ total' = total /\ declared' = declared
    BY DEF IInv, input
  <1>4. Promise!Take
    BY <1>2, <1>3 DEF Promise!Take
  <1> QED
    BY <1>4 DEF Promise!Next

\* Every step is one of DecodeOne or none.
LEMMA StepPromise == IInv /\ [Next]_vars => [Promise!Next]_Promise!vars
  <1> SUFFICES ASSUME IInv, [Next]_vars PROVE [Promise!Next]_Promise!vars
    OBVIOUS
  <1>1. /\ total \in Nat /\ off \in Nat /\ want \in Nat /\ Promise!Frame \in Nat
        /\ off <= total
        /\ pc \in {"len", "element"} => off + want <= Promise!Frame
        /\ pc = "body" /\ pos < declared => off < Promise!Frame
        /\ pc = "tail" => off + want = Promise!Frame + 1
    BY OffInFrame
  <1>2. CASE EndOfInput
    <2>1. /\ want > 0 /\ off' = off /\ failed' = failed
          /\ total < off + want
          /\ Finish(IF pc = "tail" THEN "ok" ELSE "UnexpectedLength")
      BY <1>1, <1>2 DEF EndOfInput, Available
    <2>2. CASE pc = "tail"
      <3>1. entry = "from_reader" /\ want = 1
        <4>1. Len(buf) + want = 1 /\ Len(buf) \in Nat
          BY <2>2 DEF IInv, TypeOK, TailPhase
        <4> QED
          BY <1>1, <1>2, <2>1, <2>2, <4>1 DEF EndOfInput
      <3>2. off = Promise!Frame /\ off = total
        BY <1>1, <2>1, <2>2, <3>1
      <3>3. Promise!Verdict = "ok"
        BY <1>1, <3>2 DEF Promise!Verdict
      <3> QED
        BY <2>1, <2>2, <3>2, <3>3, FinishPromise
    <2>3. CASE pc \in {"len", "element"}
      <3>1. total < Promise!Frame
        BY <1>1, <2>1, <2>3
      <3>2. Promise!Verdict = "UnexpectedLength"
        BY <3>1 DEF Promise!Verdict
      <3> QED
        BY <2>1, <2>3, <3>2, FinishPromise
    <2> QED
      BY <1>2, <2>2, <2>3 DEF EndOfInput, Exacts
  <1>3. CASE ReaderError
    <2>1. /\ off' = off /\ failed' = "io"
          /\ Finish(IF pc = "tail" THEN "NotAllBytesRead" ELSE "Io")
          /\ pc = "body" => pos < declared
          /\ pc # "body" => want > 0
      BY <1>3 DEF ReaderError
    <2>2. CASE pc = "tail"
      <3>1. Len(buf) + want = 1 /\ Len(buf) \in Nat
        BY <2>2 DEF IInv, TypeOK, TailPhase
      <3>2. off = Promise!Frame
        BY <1>1, <2>1, <2>2, <3>1
      <3> QED
        BY <1>1, <2>1, <2>2, <3>2, FinishPromise
    <2>3. CASE pc # "tail"
      <3>1. pc # "done" /\ off <= Promise!Frame
        BY <1>1, <1>3, <2>1, <2>3 DEF ReaderError, Exacts
      <3> QED
        BY <2>1, <2>3, <3>1, FinishPromise
    <2> QED
      BY <2>2, <2>3
  <1>4. CASE ReadSome \/ ReadSlice
    <2>1. PICK n \in Nat : n > 0 /\ n <= want /\ n <= Available /\ Receive(n)
      BY <1>1, <1>4 DEF ReadSome, ReadSlice, Min, Available
    <2>2. pc \in Exacts /\ off + n <= total
      BY <1>1, <1>4, <2>1 DEF ReadSome, ReadSlice, Available
    <2>3. off + n <= Promise!Frame + 1
      BY <1>1, <2>1, <2>2 DEF Exacts
    <2> QED
      BY <2>1, <2>2, <2>3, TakePromise DEF Receive, Exacts
  <1>5. CASE BodyRead
    <2>1. PICK n \in Nat : n > 0 /\ n <= RoomyLen - pos /\ n <= Available /\ off' = off + n
      <3>1. RoomyLen - pos \in Nat /\ Available \in Nat
        BY <1>1, <1>5, RoomyLenBounds DEF BodyRead, IInv, TypeOK, Available
      <3> QED
        BY <1>5, <3>1 DEF BodyRead, Min
    <2>2. off + n <= Promise!Frame
      <3>1. /\ off = LenBytes + pos /\ PayloadLen = declared /\ RoomyLen <= declared
            /\ RoomyLen \in Nat /\ pos \in Nat /\ declared \in Nat /\ LenBytes \in Nat
        BY <1>5, Amounts, RoomyLenBounds DEF BodyRead, IInv, BodyPhase, PayloadLen
      <3> QED
        BY <1>1, <2>1, <3>1, FrameIs
    <2>3. off + n <= total /\ off + n <= Promise!Frame + 1
      BY <1>1, <2>1, <2>2 DEF Available
    <2> QED
      BY <1>5, <2>1, <2>3, TakePromise DEF BodyRead
  <1>6. CASE BodyEnd
    <2>1. pc = "body" /\ pos < declared /\ off = total
      BY <1>6, RoomyLenBounds DEF BodyEnd, IInv, TypeOK
    <2>2. Promise!Verdict = "UnexpectedLength"
      BY <1>1, <2>1 DEF Promise!Verdict
    <2> QED
      BY <1>6, <2>1, <2>2, FinishPromise DEF BodyEnd
  <1>7. CASE BodyInterrupted
    BY <1>1, <1>7, FinishPromise DEF BodyInterrupted
  <1>8. CASE TailByte
    <2>1. total > Promise!Frame
      BY <1>1, <1>8 DEF TailByte
    <2>2. Promise!Verdict = "NotAllBytesRead"
      BY <1>1, <2>1 DEF Promise!Verdict
    <2> QED
      BY <1>8, <2>2, FinishPromise DEF TailByte
  <1>9. CASE TailOfSlice
    <2>1. want = 1
      BY <1>9 DEF IInv, TailPhase, TailOfSlice
    <2>2. off = Promise!Frame
      BY <1>1, <1>9, <2>1 DEF TailOfSlice
    <2>3. (IF Available = 0 THEN "ok" ELSE "NotAllBytesRead") = Promise!Verdict
      BY <1>1, <2>2 DEF Promise!Verdict, Available
    <2>4. Available = 0 => off = total
      BY <1>1 DEF Available
    <2> QED
      BY <1>9, <2>2, <2>3, <2>4, FinishPromise DEF TailOfSlice
  <1>10. CASE ReadInterrupted \/ LengthRead \/ ElementRead \/ BodyDone
    <2>1. UNCHANGED <<input, off, failed, res>> /\ res = "none"
      BY <1>10 DEF ReadInterrupted, LengthRead, ElementRead, BodyDone, IInv, Exacts
    <2> QED
      BY <2>1 DEF Promise!vars, input
  <1>11. CASE UNCHANGED vars
    BY <1>11 DEF vars, Promise!vars, Received
  <1> QED
    BY <1>2, <1>3, <1>4, <1>5, <1>6, <1>7, <1>8, <1>9, <1>10, <1>11
    DEF Next, Step, Returned

\* For every way the reader hands out its bytes, the decoder's answer, value and
\* consumption are those of DecodeOne: the chunked, growing, retrying reads are
\* indistinguishable from decoding the source at once.
THEOREM KeepsPromise == Spec => Implements
  <1>1. Init => Promise!Init
    BY InitPromise
  <1>2. IInv /\ [Next]_vars => [Promise!Next]_Promise!vars
    BY StepPromise
  <1> QED
    BY Invariance, <1>1, <1>2, PTL DEF Spec, Implements, Promise!Spec
=============================================================================
