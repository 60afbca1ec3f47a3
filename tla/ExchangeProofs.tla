--------------------------- MODULE ExchangeProofs ----------------------------
(***************************************************************************)
(* Every exchange is what Exchange and Writers say of it.  What reaches a  *)
(* writer is a beginning of the encoding, all of it exactly when the       *)
(* writer is not to blame, and object_length counts it (IInv); what        *)
(* arrives is made of the encoding of the sample, and the answers are      *)
(* those of the decoder CodecProofs is about (EInv).                       *)
(***************************************************************************)
EXTENDS CodecProofs

-----------------------------------------------------------------------------
(* The inductive invariant.                                                *)

\* An encoding, as Writers is given it: the buffers follow each other up to the end,
\* and its error is no answer of a writer.
WellFormed(e) ==
    /\ e.bytes \in Seq(Nat) /\ e.ends \in Seq(0..Len(e.bytes))
    /\ \A i, j \in 1..Len(e.ends) : i <= j => e.ends[i] <= e.ends[j]
    /\ Len(e.ends) = 0 => Len(e.bytes) = 0
    /\ Len(e.ends) # 0 => e.ends[Len(e.ends)] = Len(e.bytes)
    /\ e.err \notin Reserved

\* The object is one the writers are given.
ObjectOK ==
    /\ bytes \in Seq(Nat) /\ ends \in Seq(0..Len(bytes))
    /\ \A i, j \in 1..Len(ends) : i <= j => ends[i] <= ends[j]
    /\ Len(ends) = 0 => Len(bytes) = 0
    /\ Len(ends) # 0 => ends[Len(ends)] = Len(bytes)
    /\ ending \notin Reserved
    /\ sink \in {"vec", "slice", "stream", "length"}

\* The bytes handed out end within the next buffer; none is left after the last.
PositionOK ==
    /\ buffer \in 0..Len(ends) /\ taken \in Nat /\ At \in 0..Len(bytes)
    /\ buffer < Len(ends) => At <= ends[buffer + 1]
    /\ buffer = Len(ends) => At = Len(bytes)
    /\ room \in Nat /\ length \in Nat

\* What has been handed out is what has arrived, or been counted.
ArrivedOK ==
    /\ outcome = "none yet" /\ sink # "length" => out = SubSeq(bytes, 1, At)
    /\ sink = "length" => length = At /\ length <= WriterMaxUsize

\* The invariant of the writers.
IInv == ObjectOK /\ PositionOK /\ ArrivedOK /\ PrefixOnFailure /\ LengthAgrees

\* A beginning of a part of a sequence, behind what is before that part, is a
\* beginning of the sequence.
LEMMA BeginningGrows ==
    ASSUME NEW s \in Seq(Nat), NEW a \in Nat, NEW b \in Nat, a <= b, b <= Len(s),
           NEW n \in 0..b - a
    PROVE  /\ SubSeq(s, a + 1, b) \in Seq(Nat)
           /\ Len(SubSeq(s, a + 1, b)) = b - a
           /\ SubSeq(s, 1, a) \o SubSeq(SubSeq(s, a + 1, b), 1, n) = SubSeq(s, 1, a + n)
  <1>1. Len(s) \in Nat /\ b - a \in Nat /\ n \in Nat /\ n <= b - a
    OBVIOUS
  <1>2. \A i \in a + 1..b : s[i] \in Nat
    BY <1>1, ElementOfSeq
  <1>3. SubSeq(s, a + 1, b) \in Seq(Nat) /\ Len(SubSeq(s, a + 1, b)) = b - a
    BY <1>1, <1>2, SubSeqProperties
  <1>4. SubSeq(SubSeq(s, a + 1, b), 1, n) = SubSeq(s, a + 1, a + n)
    <2>1. CASE n = 0
      BY <2>1, SubSeqEmpty
    <2>2. CASE n # 0
      <3>1. /\ a + 1 \in 1..Len(s) /\ b \in 1..Len(s)
            /\ 1 \in 1..b - (a + 1) + 1 /\ n \in 1..b - (a + 1) + 1
            /\ (a + 1) + 1 - 1 = a + 1 /\ (a + 1) + n - 1 = a + n
        BY <1>1, <2>2
      <3> QED
        BY <3>1, SubSeqOfSubSeq
    <2> QED
      BY <2>1, <2>2
  <1>5. SubSeq(s, 1, a) \o SubSeq(s, a + 1, a + n) = SubSeq(s, 1, a + n)
    <2>1. 1 \in 1..Len(s) + 1 /\ a \in 1 - 1..Len(s) /\ a + n \in a..Len(s)
      BY <1>1
    <2> QED
      BY <2>1, ConcatAdjacentSubSeq
  <1> QED
    BY <1>3, <1>4, <1>5

\* Where the next buffer is.
LEMMA NextOne ==
    ASSUME IInv, buffer < Len(ends)
    PROVE  /\ buffer \in Nat /\ buffer + 1 \in 1..Len(ends) /\ Len(ends) \in Nat
           /\ ends[buffer + 1] \in 0..Len(bytes) /\ ends[buffer + 1] \in Nat
           /\ At \in Nat /\ At <= ends[buffer + 1] /\ ends[buffer + 1] <= Len(bytes)
           /\ Len(bytes) \in Nat /\ bytes \in Seq(Nat)
           /\ Left \in Seq(Nat) /\ Len(Left) = ends[buffer + 1] - At /\ Len(Left) \in Nat
           /\ Left = SubSeq(Left, 1, Len(Left))
           /\ \A n \in 0..Len(Left) :
                SubSeq(bytes, 1, At) \o SubSeq(Left, 1, n) = SubSeq(bytes, 1, At + n)
  <1>1. /\ buffer \in Nat /\ buffer + 1 \in 1..Len(ends) /\ Len(ends) \in Nat
        /\ Len(bytes) \in Nat /\ bytes \in Seq(Nat)
    <2>1. bytes \in Seq(Nat) /\ ends \in Seq(0..Len(bytes)) /\ buffer \in 0..Len(ends)
      BY DEF IInv, ObjectOK, PositionOK
    <2>2. Len(ends) \in Nat /\ Len(bytes) \in Nat
      BY <2>1, LenProperties
    <2> QED
      BY <2>1, <2>2
  <1>2. ends[buffer + 1] \in 0..Len(bytes)
    BY <1>1, ElementOfSeq DEF IInv, ObjectOK
  <1>3. At \in Nat /\ At <= ends[buffer + 1] /\ ends[buffer + 1] <= Len(bytes)
    BY <1>1, <1>2 DEF IInv, PositionOK
  <1> DEFINE a == At
             b == ends[buffer + 1]
  <1>4. a \in Nat /\ b \in Nat /\ a <= b /\ b <= Len(bytes)
    BY <1>2, <1>3
  <1>5. \A n \in 0..b - a :
          /\ Left \in Seq(Nat) /\ Len(Left) = b - a
          /\ SubSeq(bytes, 1, a) \o SubSeq(Left, 1, n) = SubSeq(bytes, 1, a + n)
    <2> HIDE DEF a, b
    <2>1. ASSUME NEW n \in 0..b - a
          PROVE  /\ SubSeq(bytes, a + 1, b) \in Seq(Nat)
                 /\ Len(SubSeq(bytes, a + 1, b)) = b - a
                 /\ SubSeq(bytes, 1, a) \o SubSeq(SubSeq(bytes, a + 1, b), 1, n) = SubSeq(bytes, 1, a + n)
      BY <1>1, <1>4, BeginningGrows
    <2>2. Left = SubSeq(bytes, a + 1, b)
      BY DEF Left, a, b
    <2> QED
      BY <2>1, <2>2
  <1>6. b - a \in Nat /\ 0 \in 0..b - a
    BY <1>4
  <1>7. Left \in Seq(Nat) /\ Len(Left) = b - a
    BY <1>5, <1>6
  <1>8. Left = SubSeq(Left, 1, Len(Left))
    BY <1>7, SubSeqFull
  <1> QED
    BY <1>1, <1>2, <1>3, <1>5, <1>6, <1>7, <1>8

\* The object stays as it is.
LEMMA ObjectKept == ObjectOK /\ UNCHANGED object => ObjectOK'
  BY DEF ObjectOK, object

\* The next buffer begins where the last one ended.
LEMMA Advances ==
    ASSUME IInv, buffer < Len(ends), NextBuffer, UNCHANGED object,
           room' \in Nat, length' \in Nat
    PROVE  At' = ends[buffer + 1] /\ PositionOK'
  <1>1. /\ buffer \in Nat /\ buffer + 1 \in 1..Len(ends) /\ Len(ends) \in Nat
        /\ ends[buffer + 1] \in 0..Len(bytes) /\ Len(bytes) \in Nat
    BY NextOne
  <1>2. buffer' = buffer + 1 /\ taken' = 0 /\ bytes' = bytes /\ ends' = ends
    BY DEF NextBuffer, object
  <1>3. At' = ends[buffer + 1]
    BY <1>1, <1>2 DEF At
  <1>4. ASSUME buffer + 1 < Len(ends) PROVE ends[buffer + 1] <= ends[buffer + 1 + 1]
    <2>1. buffer + 1 + 1 \in 1..Len(ends) /\ buffer + 1 <= buffer + 1 + 1
      BY <1>1, <1>4
    <2> QED
      BY <2>1, <1>1 DEF IInv, ObjectOK
  <1>5. buffer + 1 = Len(ends) => ends[buffer + 1] = Len(bytes)
    <2>1. Len(ends) # 0 => ends[Len(ends)] = Len(bytes)
      BY DEF IInv, ObjectOK
    <2> QED
      BY <1>1, <2>1
  <1> QED
    BY <1>1, <1>2, <1>3, <1>4, <1>5 DEF PositionOK

\* Nothing was written yet.
LEMMA InitIInv == ASSUME NEW e, WellFormed(e), Begin(e) PROVE IInv
  <1>1. ObjectOK
    BY DEF Begin, WellFormed, Reserved, ObjectOK
  <1>2. bytes \in Seq(Nat) /\ ends \in Seq(0..Len(bytes))
    BY <1>1 DEF ObjectOK
  <1>3. /\ Len(bytes) \in Nat /\ Len(ends) \in Nat
        /\ buffer = 0 /\ taken = 0 /\ length = 0 /\ At = 0
    <2>1. Len(bytes) \in Nat /\ Len(ends) \in Nat
      BY <1>2, LenProperties
    <2>2. buffer = 0 /\ taken = 0 /\ length = 0
      BY DEF Begin
    <2>3. At = 0
      BY <2>2 DEF At
    <2> QED
      BY <2>1, <2>2, <2>3
  <1>4. PositionOK
    <2>1. room \in Nat
      <3>1. room \in IF sink = "slice" THEN 0..MaxRoom ELSE {0}
        BY DEF Begin
      <3>2. MaxRoom \in Nat
        BY WritersAssumption
      <3> QED
        BY <3>1, <3>2
    <2>2. ASSUME 0 < Len(ends) PROVE ends[1] \in 0..Len(bytes)
      BY <1>2, <1>3, <2>2, ElementOfSeq
    <2>3. Len(ends) = 0 => Len(bytes) = 0
      BY <1>1 DEF ObjectOK
    <2>4. buffer + 1 = 1
      BY <1>3
    <2> QED
      BY <1>3, <2>1, <2>2, <2>3, <2>4 DEF PositionOK
  <1>5. SubSeq(bytes, 1, 0) = <<>>
    BY SubSeqEmpty
  <1>6. ArrivedOK
    <2>1. out = <<>> /\ WriterMaxUsize \in Nat
      BY WritersAssumption DEF Begin
    <2> QED
      BY <1>3, <1>5, <2>1 DEF ArrivedOK
  <1>7. PrefixOnFailure /\ LengthAgrees
    BY DEF Begin, PrefixOnFailure, LengthAgrees
  <1> QED
    BY <1>1, <1>4, <1>6, <1>7 DEF IInv

\* A Vec takes a buffer whole.
LEMMA WriteVecIInv == IInv /\ WriteVec => IInv'
  <1> SUFFICES ASSUME IInv, WriteVec PROVE IInv'
    OBVIOUS
  <1>1. /\ outcome = "none yet" /\ buffer < Len(ends) /\ sink = "vec"
        /\ NextBuffer /\ UNCHANGED object /\ out' = out \o Left
        /\ room' = room /\ length' = length /\ outcome' = outcome
        /\ sink' = sink /\ bytes' = bytes
    BY DEF WriteVec, WritesTo, object
  <1>2. ObjectOK'
    BY <1>1, ObjectKept DEF IInv
  <1>3. At' = ends[buffer + 1] /\ PositionOK'
    BY <1>1, Advances DEF IInv, PositionOK
  <1>4. out' = SubSeq(bytes, 1, ends[buffer + 1])
    <2>1. out = SubSeq(bytes, 1, At)
      BY <1>1 DEF IInv, ArrivedOK
    <2>2. out' = SubSeq(bytes, 1, At) \o SubSeq(Left, 1, Len(Left))
      BY <1>1, <2>1, NextOne
    <2>3. /\ Len(Left) = ends[buffer + 1] - At /\ Len(Left) \in Nat
          /\ At \in Nat /\ ends[buffer + 1] \in Nat
      BY <1>1, NextOne
    <2>4. At + Len(Left) = ends[buffer + 1] /\ Len(Left) \in 0..Len(Left)
      BY <2>3
    <2> QED
      BY <1>1, <2>2, <2>4, NextOne
  <1>5. ArrivedOK'
    BY <1>1, <1>3, <1>4 DEF ArrivedOK
  <1>6. PrefixOnFailure' /\ LengthAgrees'
    BY <1>1 DEF PrefixOnFailure, LengthAgrees
  <1> QED
    BY <1>2, <1>3, <1>5, <1>6 DEF IInv

\* A slice takes what it has room for.
LEMMA WriteSliceIInv == IInv /\ WriteSlice => IInv'
  <1> SUFFICES ASSUME IInv, WriteSlice PROVE IInv'
    OBVIOUS
  <1>1. /\ outcome = "none yet" /\ buffer < Len(ends) /\ sink = "slice"
        /\ UNCHANGED object /\ length' = length /\ sink' = sink
        /\ bytes' = bytes /\ ends' = ends /\ ending' = ending
    BY DEF WriteSlice, WritesTo, object
  <1>2. ObjectOK'
    BY <1>1, ObjectKept DEF IInv
  <1>3. /\ out = SubSeq(bytes, 1, At) /\ room \in Nat /\ length \in Nat
        /\ At \in Nat /\ ends[buffer + 1] \in Nat
        /\ Len(Left) = ends[buffer + 1] - At /\ Len(Left) \in Nat
        /\ ends[buffer + 1] <= Len(bytes) /\ Len(bytes) \in Nat
        /\ bytes \in Seq(Nat)
    <2>1. out = SubSeq(bytes, 1, At) /\ room \in Nat /\ length \in Nat
      BY <1>1 DEF IInv, ArrivedOK, PositionOK
    <2> QED
      BY <1>1, <2>1, NextOne
  <1>4. CASE Len(Left) <= room
    <2>1. NextBuffer /\ out' = out \o Left /\ room' = room - Len(Left) /\ outcome' = outcome
      BY <1>3, <1>4 DEF WriteSlice
    <2>2. room' \in Nat
      BY <1>3, <1>4, <2>1
    <2>3. At' = ends[buffer + 1] /\ PositionOK'
      BY <1>1, <1>3, <2>1, <2>2, Advances
    <2>4. out' = SubSeq(bytes, 1, ends[buffer + 1])
      <3>1. out' = SubSeq(bytes, 1, At) \o SubSeq(Left, 1, Len(Left))
        BY <1>1, <1>3, <2>1, NextOne
      <3>2. At + Len(Left) = ends[buffer + 1] /\ Len(Left) \in 0..Len(Left)
        BY <1>3
      <3> QED
        BY <1>1, <3>1, <3>2, NextOne
    <2>5. ArrivedOK'
      BY <1>1, <2>1, <2>3, <2>4 DEF ArrivedOK
    <2>6. PrefixOnFailure' /\ LengthAgrees'
      BY <1>1, <2>1 DEF PrefixOnFailure, LengthAgrees
    <2> QED
      BY <1>2, <2>3, <2>5, <2>6 DEF IInv
  <1>5. CASE Len(Left) > room
    <2>1. /\ out' = out \o SubSeq(Left, 1, room) /\ room' = 0 /\ outcome' = "WriteZero"
          /\ buffer' = buffer /\ taken' = taken
      <3>1. ~(Len(Left) <= room)
        BY <1>3, <1>5
      <3> QED
        BY <3>1 DEF WriteSlice
    <2>2. PositionOK'
      BY <1>1, <1>3, <2>1 DEF IInv, PositionOK, At
    <2>3. ArrivedOK'
      BY <1>1, <2>1 DEF ArrivedOK
    <2>4. out' = SubSeq(bytes, 1, At + room)
      <3>1. room \in 0..Len(Left)
        BY <1>3, <1>5
      <3> QED
        BY <1>1, <1>3, <2>1, <3>1, NextOne
    <2>5. Len(out') = At + room /\ At + room < Len(bytes)
      <3>1. At + room \in Nat /\ At + room < Len(bytes)
        BY <1>3, <1>5
      <3>2. \A i \in 1..At + room : bytes[i] \in Nat
        BY <1>3, <3>1, ElementOfSeq
      <3>3. Len(SubSeq(bytes, 1, At + room)) = At + room
        BY <3>1, <3>2, SubSeqProperties
      <3> QED
        BY <2>4, <3>1, <3>3
    <2>6. PrefixOnFailure' /\ LengthAgrees'
      BY <1>1, <2>1, <2>4, <2>5 DEF PrefixOnFailure, LengthAgrees
    <2> QED
      BY <1>2, <2>2, <2>3, <2>6 DEF IInv
  <1> QED
    BY <1>3, <1>4, <1>5

\* write_all is done with a buffer that has nothing left.
LEMMA StreamSkipIInv == IInv /\ StreamSkip => IInv'
  <1> SUFFICES ASSUME IInv, StreamSkip PROVE IInv'
    OBVIOUS
  <1>1. /\ outcome = "none yet" /\ buffer < Len(ends) /\ sink = "stream"
        /\ UNCHANGED object /\ length' = length /\ sink' = sink /\ room' = room
        /\ bytes' = bytes /\ outcome' = outcome /\ out' = out
        /\ NextBuffer /\ Left = <<>>
    BY DEF StreamSkip, WritesTo, object
  <1>2. ObjectOK'
    BY <1>1, ObjectKept DEF IInv
  <1>3. At' = ends[buffer + 1] /\ PositionOK'
    BY <1>1, Advances DEF IInv, PositionOK
  <1>4. At = ends[buffer + 1]
    <2>1. Len(Left) = ends[buffer + 1] - At /\ At \in Nat /\ ends[buffer + 1] \in Nat
      BY <1>1, NextOne
    <2>2. Len(Left) = 0
      BY <1>1
    <2> QED
      BY <2>1, <2>2
  <1>5. ArrivedOK'
    BY <1>1, <1>3, <1>4 DEF IInv, ArrivedOK
  <1>6. PrefixOnFailure' /\ LengthAgrees'
    BY <1>1 DEF PrefixOnFailure, LengthAgrees
  <1> QED
    BY <1>2, <1>3, <1>5, <1>6 DEF IInv

\* A writer of the user takes a part.
LEMMA StreamWriteIInv == IInv /\ StreamWrite => IInv'
  <1> SUFFICES ASSUME IInv, StreamWrite PROVE IInv'
    OBVIOUS
  <1>1. /\ outcome = "none yet" /\ buffer < Len(ends) /\ sink = "stream"
        /\ UNCHANGED object /\ length' = length /\ sink' = sink /\ room' = room
        /\ bytes' = bytes /\ ends' = ends /\ outcome' = outcome
    BY DEF StreamWrite, WritesTo, object
  <1>2. ObjectOK'
    BY <1>1, ObjectKept DEF IInv
  <1>3. /\ At \in Nat /\ ends[buffer + 1] \in Nat
        /\ Len(Left) = ends[buffer + 1] - At /\ Len(Left) \in Nat
        /\ ends[buffer + 1] <= Len(bytes) /\ Len(bytes) \in Nat
        /\ buffer \in Nat
    BY <1>1, NextOne
  <1>4. out = SubSeq(bytes, 1, At) /\ room \in Nat /\ length \in Nat /\ taken \in Nat
        /\ buffer \in 0..Len(ends)
    BY <1>1 DEF IInv, ArrivedOK, PositionOK
  <1>5. PICK n \in 1..Len(Left) :
          /\ out' = out \o SubSeq(Left, 1, n)
          /\ IF n = Len(Left) THEN NextBuffer ELSE taken' = taken + n /\ UNCHANGED buffer
    BY DEF StreamWrite
  <1>6. n \in Nat /\ n <= Len(Left) /\ n \in 0..Len(Left) /\ At + n \in Nat
    BY <1>3, <1>5
  <1>7. out' = SubSeq(bytes, 1, At + n)
    BY <1>1, <1>4, <1>5, <1>6, NextOne
  <1>8. At' = At + n /\ PositionOK'
    <2>1. CASE n = Len(Left)
      <3>1. NextBuffer
        BY <1>5, <2>1
      <3>2. At' = ends[buffer + 1] /\ PositionOK'
        BY <1>1, <1>4, <3>1, Advances
      <3>3. At + n = ends[buffer + 1]
        BY <1>3, <2>1
      <3> QED
        BY <3>2, <3>3
    <2>2. CASE n # Len(Left)
      <3>1. taken' = taken + n /\ buffer' = buffer
        BY <1>5, <2>2
      <3>2. At' = At + n
        <4>1. CASE buffer = 0
          <5>1. At = 0 + taken /\ At' = 0 + (taken + n)
            BY <3>1, <4>1 DEF At
          <5> QED
            BY <1>4, <1>6, <5>1
        <4>2. CASE buffer # 0
          <5>1. ends[buffer] \in 0..Len(bytes)
            <6>1. Len(ends) \in Nat
              BY <1>1, NextOne
            <6>2. buffer \in 1..Len(ends)
              BY <1>3, <1>4, <4>2, <6>1
            <6>3. ends \in Seq(0..Len(bytes))
              BY DEF IInv, ObjectOK
            <6> QED
              BY <6>2, <6>3, ElementOfSeq
          <5>2. At' = ends[buffer] + (taken + n) /\ At = ends[buffer] + taken
            BY <1>1, <3>1, <4>2 DEF At
          <5> QED
            BY <1>4, <1>6, <5>1, <5>2
        <4> QED
          BY <4>1, <4>2
      <3>3. At + n < ends[buffer + 1] /\ At + n \in 0..Len(bytes) /\ taken + n \in Nat
        BY <1>3, <1>4, <1>6, <2>2
      <3>4. Len(ends) \in Nat /\ buffer \in Nat /\ buffer < Len(ends)
        BY <1>1, NextOne
      <3>5. ~(buffer = Len(ends)) /\ At + n <= ends[buffer + 1]
        <4>1. ~(buffer = Len(ends))
          BY <3>4
        <4>2. At + n <= ends[buffer + 1]
          BY <1>3, <1>6, <3>3
        <4> QED
          BY <4>1, <4>2
      <3>6. PositionOK'
        BY <1>1, <1>4, <3>1, <3>2, <3>3, <3>5 DEF PositionOK
      <3> QED
        BY <3>2, <3>6
    <2> QED
      BY <2>1, <2>2
  <1>9. ArrivedOK'
    BY <1>1, <1>7, <1>8 DEF ArrivedOK
  <1>10. PrefixOnFailure' /\ LengthAgrees'
    BY <1>1 DEF PrefixOnFailure, LengthAgrees
  <1> QED
    BY <1>2, <1>8, <1>9, <1>10 DEF IInv

\* As many bytes as have been handed out.
LEMMA Shorter ==
    ASSUME IInv, buffer < Len(ends)
    PROVE  Len(SubSeq(bytes, 1, At)) = At
  <1>1. bytes \in Seq(Nat) /\ Len(bytes) \in Nat /\ At \in Nat /\ At <= Len(bytes)
    BY NextOne
  <1>2. \A i \in 1..At : bytes[i] \in Nat
    BY <1>1, ElementOfSeq
  <1> QED
    BY <1>1, <1>2, SubSeqProperties

\* It fails, or takes nothing.
LEMMA StreamFailsIInv == IInv /\ StreamFails => IInv'
  <1> SUFFICES ASSUME IInv, StreamFails PROVE IInv'
    OBVIOUS
  <1>1. /\ buffer < Len(ends) /\ sink = "stream" /\ outcome = "none yet" /\ Left # <<>>
        /\ UNCHANGED object /\ length' = length /\ sink' = sink /\ room' = room
        /\ bytes' = bytes /\ ends' = ends /\ ending' = ending /\ out' = out
        /\ buffer' = buffer /\ taken' = taken /\ outcome' \in {"WriteZero", "Io"}
    BY DEF StreamFails, WritesTo, object
  <1>2. ObjectOK'
    BY <1>1, ObjectKept DEF IInv
  <1>3. PositionOK'
    BY <1>1 DEF IInv, PositionOK, At
  <1>4. ArrivedOK'
    BY <1>1 DEF ArrivedOK
  <1>5. out = SubSeq(bytes, 1, At)
    BY <1>1 DEF IInv, ArrivedOK
  <1>6. Len(out) = At /\ At < Len(bytes)
    <2>1. /\ At \in Nat /\ ends[buffer + 1] \in Nat /\ Left \in Seq(Nat)
          /\ Len(Left) = ends[buffer + 1] - At /\ Len(Left) \in Nat
          /\ ends[buffer + 1] <= Len(bytes) /\ Len(bytes) \in Nat
      BY <1>1, NextOne
    <2>2. Len(Left) # 0
      BY <1>1, <2>1, EmptySeq
    <2>3. Len(SubSeq(bytes, 1, At)) = At
      BY <1>1, <2>1, Shorter
    <2> QED
      BY <1>5, <2>1, <2>2, <2>3
  <1>7. PrefixOnFailure' /\ LengthAgrees'
    BY <1>1, <1>5, <1>6 DEF PrefixOnFailure, LengthAgrees
  <1> QED
    BY <1>2, <1>3, <1>4, <1>7 DEF IInv

\* The LengthWriter counts a buffer.
LEMMA WriteLengthIInv == IInv /\ WriteLength => IInv'
  <1> SUFFICES ASSUME IInv, WriteLength PROVE IInv'
    OBVIOUS
  <1>1. /\ buffer < Len(ends) /\ sink = "length" /\ outcome = "none yet"
        /\ UNCHANGED object /\ sink' = sink /\ room' = room
        /\ bytes' = bytes /\ ends' = ends /\ ending' = ending
    BY DEF WriteLength, WritesTo, object
  <1>2. ObjectOK'
    BY <1>1, ObjectKept DEF IInv
  <1>3. /\ At \in Nat /\ ends[buffer + 1] \in Nat
        /\ Len(Left) = ends[buffer + 1] - At /\ Len(Left) \in Nat
        /\ ends[buffer + 1] <= Len(bytes) /\ Len(bytes) \in Nat
    BY <1>1, NextOne
  <1>4. length = At /\ room \in Nat /\ WriterMaxUsize \in Nat
    BY <1>1, WritersAssumption DEF IInv, ArrivedOK, PositionOK
  <1>5. CASE length + Len(Left) <= WriterMaxUsize
    <2>1. length' = length + Len(Left) /\ NextBuffer /\ outcome' = outcome
      BY <1>3, <1>4, <1>5 DEF WriteLength
    <2>2. length' = ends[buffer + 1] /\ length' \in Nat
      BY <1>3, <1>4, <2>1
    <2>3. At' = ends[buffer + 1] /\ PositionOK'
      BY <1>1, <1>4, <2>1, <2>2, Advances
    <2>4. ArrivedOK'
      BY <1>1, <1>5, <2>1, <2>2, <2>3 DEF ArrivedOK
    <2>5. PrefixOnFailure' /\ LengthAgrees'
      BY <1>1, <2>1 DEF PrefixOnFailure, LengthAgrees
    <2> QED
      BY <1>2, <2>3, <2>4, <2>5 DEF IInv
  <1>6. CASE length + Len(Left) > WriterMaxUsize
    <2>1. outcome' = "OutOfMemory" /\ length' = length /\ buffer' = buffer /\ taken' = taken
      BY <1>3, <1>4, <1>6 DEF WriteLength
    <2>2. PositionOK'
      BY <1>1, <2>1 DEF IInv, PositionOK, At
    <2>3. At' = At
      BY <1>1, <2>1 DEF At
    <2>4. ArrivedOK'
      BY <1>1, <2>1, <2>3 DEF IInv, ArrivedOK
    <2>5. Len(bytes) > WriterMaxUsize
      BY <1>3, <1>4, <1>6
    <2>6. PrefixOnFailure' /\ LengthAgrees'
      BY <1>1, <2>1, <2>5 DEF PrefixOnFailure, LengthAgrees
    <2> QED
      BY <1>2, <2>2, <2>4, <2>6 DEF IInv
  <1> QED
    BY <1>3, <1>4, <1>5, <1>6

\* There are no more buffers.
LEMMA SerializeEndsIInv == IInv /\ SerializeEnds => IInv'
  <1> SUFFICES ASSUME IInv, SerializeEnds PROVE IInv'
    OBVIOUS
  <1>1. /\ outcome = "none yet" /\ buffer = Len(ends)
        /\ outcome' = IF ending = "none" THEN "ok" ELSE ending
        /\ UNCHANGED object /\ sink' = sink /\ room' = room /\ out' = out
        /\ bytes' = bytes /\ ends' = ends /\ ending' = ending
        /\ buffer' = buffer /\ taken' = taken /\ length' = length
    BY DEF SerializeEnds, object
  <1>2. ObjectOK'
    BY <1>1, ObjectKept DEF IInv
  <1>3. PositionOK'
    BY <1>1 DEF IInv, PositionOK, At
  <1>4. outcome' # "none yet" /\ outcome' \notin {"WriteZero", "Io", "OutOfMemory"}
    BY <1>1 DEF IInv, ObjectOK, Reserved
  <1>5. At' = At /\ At = Len(bytes)
    BY <1>1 DEF At, IInv, PositionOK
  <1>6. ArrivedOK'
    BY <1>1, <1>4, <1>5 DEF IInv, ArrivedOK
  <1>7. SubSeq(bytes, 1, Len(bytes)) = bytes /\ Len(bytes) \in Nat
    BY SubSeqFull, LenProperties DEF IInv, ObjectOK
  <1>8. PrefixOnFailure'
    BY <1>1, <1>4, <1>5, <1>7 DEF IInv, ArrivedOK, PrefixOnFailure
  <1>9. LengthAgrees'
    <2> SUFFICES ASSUME sink = "length"
                 PROVE  /\ outcome' = IF Len(bytes) > WriterMaxUsize THEN "OutOfMemory"
                                      ELSE IF ending # "none" THEN ending ELSE "ok"
                        /\ outcome' = "ok" => length = Len(bytes)
      BY <1>1 DEF LengthAgrees
    <2>1. length = Len(bytes) /\ length <= WriterMaxUsize /\ WriterMaxUsize \in Nat
      BY <1>5, WritersAssumption DEF IInv, ArrivedOK
    <2>2. ~(Len(bytes) > WriterMaxUsize)
      BY <1>7, <2>1
    <2> QED
      BY <1>1, <2>1, <2>2
  <1> QED
    BY <1>2, <1>3, <1>6, <1>8, <1>9 DEF IInv

\* Every step.
LEMMA StepIInv == IInv /\ [Write]_<<object, writing>> => IInv'
  <1> SUFFICES ASSUME IInv, [Write]_<<object, writing>> PROVE IInv'
    OBVIOUS
  <1>1. CASE WriteVec
    BY <1>1, WriteVecIInv
  <1>2. CASE WriteSlice
    BY <1>2, WriteSliceIInv
  <1>3. CASE StreamSkip
    BY <1>3, StreamSkipIInv
  <1>4. CASE StreamWrite
    BY <1>4, StreamWriteIInv
  <1>5. CASE StreamFails
    BY <1>5, StreamFailsIInv
  <1>6. CASE WriteLength
    BY <1>6, WriteLengthIInv
  <1>7. CASE SerializeEnds
    BY <1>7, SerializeEndsIInv
  <1>8. CASE UNCHANGED <<object, writing>>
    <2>1. /\ ObjectOK' /\ bytes' = bytes /\ ends' = ends /\ ending' = ending /\ sink' = sink
          /\ room' = room /\ buffer' = buffer /\ taken' = taken /\ out' = out
          /\ length' = length /\ outcome' = outcome
      BY <1>8, ObjectKept DEF IInv, object, writing
    <2>2. At' = At
      BY <2>1 DEF At
    <2>3. PositionOK'
      BY <2>1, <2>2 DEF IInv, PositionOK
    <2>4. ArrivedOK' /\ PrefixOnFailure' /\ LengthAgrees'
      BY <2>1, <2>2 DEF IInv, ArrivedOK, PrefixOnFailure, LengthAgrees
    <2> QED
      BY <2>1, <2>3, <2>4 DEF IInv
  <1> QED
    BY <1>1, <1>2, <1>3, <1>4, <1>5, <1>6, <1>7, <1>8 DEF Write

-----------------------------------------------------------------------------
(* The writers keep the promise of WriteOne.                               *)

\* The answer and what has been reached, as Writers has them.
Answered == IF outcome = "none yet" THEN "none" ELSE outcome
Reached == IF sink = "length" THEN SubSeq(bytes, 1, length) ELSE out

\* The first state is one of WriteOne.
LEMMA InitPromise == ASSUME NEW e, Begin(e) PROVE Promise!Init
  <1>1. outcome = "none yet" /\ length = 0 /\ out = <<>>
    BY DEF Begin
  <1>2. SubSeq(bytes, 1, 0) = <<>>
    BY SubSeqEmpty
  <1> QED
    BY <1>1, <1>2 DEF Promise!Init

\* While there is no answer, what has been reached is what has been handed out.
LEMMA ReachedIs == IInv /\ outcome = "none yet" => Reached = SubSeq(bytes, 1, At)
  BY DEF IInv, ArrivedOK, Reached

\* A step that hands out more is a step of the promise.
LEMMA HandingOut ==
    ASSUME IInv, buffer < Len(ends), outcome = "none yet", outcome' = "none yet", UNCHANGED object,
           NEW n \in At..Len(bytes), Reached' = SubSeq(bytes, 1, n)
    PROVE  Promise!Reach
  <1>1. Reached = SubSeq(bytes, 1, At) /\ Len(Reached) = At
    BY ReachedIs, Shorter
  <1>2. At \in Nat /\ Len(bytes) \in Nat
    BY NextOne
  <1>3. n \in Len(Reached)..Len(bytes)
    BY <1>1
  <1>4. bytes' = bytes /\ ending' = ending /\ Answered = "none" /\ Answered' = "none"
    BY DEF object, Answered
  <1> QED
    BY <1>3, <1>4 DEF Promise!Reach, Reached, Answered

\* A step with which the writer gives up is one.
LEMMA GivingUp ==
    ASSUME IInv, buffer < Len(ends), outcome = "none yet", UNCHANGED object,
           outcome' \in {"WriteZero", "Io", "OutOfMemory"},
           NEW n \in At..Len(bytes) - 1, Reached' = SubSeq(bytes, 1, n)
    PROVE  Promise!GiveUp
  <1>1. Reached = SubSeq(bytes, 1, At) /\ Len(Reached) = At
    BY ReachedIs, Shorter
  <1>2. At \in Nat /\ Len(bytes) \in Nat
    BY NextOne
  <1>3. n \in Len(Reached)..Len(bytes) - 1
    BY <1>1
  <1>4. bytes' = bytes /\ ending' = ending /\ Answered = "none" /\ Answered' = outcome'
    BY DEF object, Answered
  <1> QED
    BY <1>3, <1>4 DEF Promise!GiveUp, Reached, Answered

\* Every step is one of WriteOne or none.
LEMMA StepPromise ==
    IInv /\ IInv' /\ [Write]_<<object, writing>> => [Promise!Next]_Promise!vars
  <1> SUFFICES ASSUME IInv, IInv', [Write]_<<object, writing>>
               PROVE  [Promise!Next]_Promise!vars
    OBVIOUS
  <1>1. CASE UNCHANGED <<object, writing>>
    BY <1>1 DEF object, writing, Promise!vars
  <1>2. CASE SerializeEnds
    <2>1. /\ outcome = "none yet" /\ buffer = Len(ends) /\ bytes' = bytes /\ ending' = ending
          /\ sink' = sink /\ out' = out /\ length' = length
          /\ outcome' = IF ending = "none" THEN "ok" ELSE ending
      BY <1>2 DEF SerializeEnds, object
    <2>2. Reached = bytes
      <3>1. At = Len(bytes) /\ bytes \in Seq(Nat)
        BY <2>1 DEF IInv, ObjectOK, PositionOK
      <3>2. SubSeq(bytes, 1, Len(bytes)) = bytes
        BY <3>1, SubSeqFull
      <3> QED
        BY <2>1, <3>1, <3>2, ReachedIs
    <2>3. Reached' = Reached
      BY <2>1 DEF Reached
    <2>4. outcome' # "none yet"
      BY <2>1 DEF IInv, ObjectOK, Reserved
    <2>5. Promise!Succeed
      BY <2>1, <2>2, <2>3, <2>4 DEF Promise!Succeed, Reached
    <2> QED
      BY <2>5 DEF Promise!Next
  <1>3. CASE buffer < Len(ends) /\ outcome = "none yet" /\ Write
    <2>1. /\ At \in Nat /\ ends[buffer + 1] \in Nat /\ Len(bytes) \in Nat
          /\ Len(Left) = ends[buffer + 1] - At /\ Len(Left) \in Nat
          /\ At <= ends[buffer + 1] /\ ends[buffer + 1] <= Len(bytes)
      BY <1>3, NextOne
    <2>2. ASSUME outcome' \in {"WriteZero", "Io", "OutOfMemory"}, UNCHANGED object,
                 NEW n \in At..Len(bytes) - 1, Reached' = SubSeq(bytes, 1, n)
          PROVE  Promise!Next
      BY <1>3, <2>2, GivingUp DEF Promise!Next
    <2>3. ASSUME NextBuffer, UNCHANGED object, outcome' = outcome
          PROVE  Promise!Next
      <3>1. room' \in Nat /\ length' \in Nat
        BY DEF IInv, PositionOK
      <3>2. At' = ends[buffer + 1]
        BY <1>3, <2>3, <3>1, Advances
      <3>3. Reached' = SubSeq(bytes, 1, ends[buffer + 1])
        BY <1>3, <2>3, <3>2 DEF IInv, ArrivedOK, Reached, object
      <3>4. ends[buffer + 1] \in At..Len(bytes)
        BY <2>1
      <3> QED
        BY <1>3, <2>3, <3>3, <3>4, HandingOut DEF Promise!Next
    <2>4. CASE WriteVec
      BY <2>3, <2>4 DEF WriteVec
    <2>5. CASE StreamSkip
      BY <2>3, <2>5 DEF StreamSkip
    <2>6. CASE WriteSlice
      <3>1. CASE Len(Left) <= room
        <4>1. room \in Nat
          BY DEF IInv, PositionOK
        <4>2. NextBuffer /\ UNCHANGED object /\ outcome' = outcome
          BY <2>1, <2>6, <3>1, <4>1 DEF WriteSlice
        <4> QED
          BY <2>3, <4>2
      <3>2. CASE Len(Left) > room
        <4>1. room \in Nat
          BY DEF IInv, PositionOK
        <4>2. /\ out' = out \o SubSeq(Left, 1, room) /\ outcome' = "WriteZero"
              /\ UNCHANGED object /\ sink = "slice" /\ sink' = sink /\ bytes' = bytes
          <5>1. out' = out \o SubSeq(Left, 1, room) /\ outcome' = "WriteZero"
            BY <2>1, <2>6, <3>2, <4>1 DEF WriteSlice
          <5>2. UNCHANGED object /\ sink = "slice"
            BY <2>6 DEF WriteSlice, WritesTo
          <5> QED
            BY <5>1, <5>2 DEF object
        <4>3. room \in 0..Len(Left) /\ At + room \in At..Len(bytes) - 1
          BY <2>1, <3>2, <4>1
        <4>4. out = SubSeq(bytes, 1, At)
          BY <1>3, <4>2 DEF IInv, ArrivedOK
        <4>5. Reached' = SubSeq(bytes, 1, At + room)
          BY <1>3, <4>2, <4>3, <4>4, NextOne DEF Reached
        <4> QED
          BY <2>2, <4>2, <4>3, <4>5
      <3> QED
        BY <2>6, <3>1, <3>2 DEF WriteSlice
    <2>7. CASE StreamWrite
      <3>1. PICK n \in 1..Len(Left) : out' = out \o SubSeq(Left, 1, n)
        BY <2>7 DEF StreamWrite
      <3>2. /\ sink = "stream" /\ sink' = sink /\ outcome' = outcome /\ UNCHANGED object
            /\ bytes' = bytes
        BY <2>7 DEF StreamWrite, WritesTo, object
      <3>3. n \in 0..Len(Left) /\ At + n \in At..Len(bytes)
        BY <2>1, <3>1
      <3>4. out = SubSeq(bytes, 1, At)
        BY <1>3, <3>2 DEF IInv, ArrivedOK
      <3>5. Reached' = SubSeq(bytes, 1, At + n)
        BY <1>3, <3>1, <3>2, <3>3, <3>4, NextOne DEF Reached
      <3> QED
        BY <1>3, <3>2, <3>3, <3>5, HandingOut DEF Promise!Next
    <2>8. CASE StreamFails
      <3>1. /\ sink = "stream" /\ sink' = sink /\ UNCHANGED object /\ out' = out /\ Left # <<>>
            /\ outcome' \in {"WriteZero", "Io"}
        BY <2>8 DEF StreamFails, WritesTo, object
      <3>2. At < Len(bytes)
        <4>1. Left \in Seq(Nat)
          BY <1>3, NextOne
        <4>2. Len(Left) # 0
          BY <3>1, <4>1, EmptySeq
        <4> QED
          BY <2>1, <4>2
      <3>3. Reached' = SubSeq(bytes, 1, At)
        BY <1>3, <3>1 DEF IInv, ArrivedOK, Reached
      <3>4. At \in At..Len(bytes) - 1
        BY <2>1, <3>2
      <3> QED
        BY <2>1, <2>2, <3>1, <3>2, <3>3, <3>4
    <2>9. CASE WriteLength
      <3>1. length = At /\ WriterMaxUsize \in Nat
        BY <2>9, WritersAssumption DEF WriteLength, WritesTo, IInv, ArrivedOK
      <3>2. CASE length + Len(Left) <= WriterMaxUsize
        <4>1. NextBuffer /\ UNCHANGED object /\ outcome' = outcome
          BY <2>1, <2>9, <3>1, <3>2 DEF WriteLength
        <4> QED
          BY <2>3, <4>1
      <3>3. CASE length + Len(Left) > WriterMaxUsize
        <4>1. /\ outcome' = "OutOfMemory" /\ UNCHANGED object /\ length' = length
              /\ sink = "length" /\ sink' = sink /\ bytes' = bytes
          <5>1. outcome' = "OutOfMemory" /\ length' = length
            BY <2>1, <2>9, <3>1, <3>3 DEF WriteLength
          <5>2. UNCHANGED object /\ sink = "length"
            BY <2>9 DEF WriteLength, WritesTo
          <5> QED
            BY <5>1, <5>2 DEF object
        <4>2. At < Len(bytes)
          <5>1. length <= WriterMaxUsize
            BY <4>1 DEF IInv, ArrivedOK
          <5> QED
            BY <2>1, <3>1, <3>3, <5>1
        <4>3. Reached' = SubSeq(bytes, 1, At)
          BY <3>1, <4>1 DEF Reached
        <4>4. At \in At..Len(bytes) - 1
          BY <2>1, <4>2
        <4> QED
          BY <2>1, <2>2, <4>1, <4>2, <4>3, <4>4
      <3> QED
        BY <2>1, <2>9, <3>1, <3>2, <3>3
    <2>10. ~SerializeEnds
      <3>1. Len(ends) \in Nat /\ buffer \in Nat /\ buffer < Len(ends)
        BY <1>3, NextOne
      <3>2. buffer # Len(ends)
        BY <3>1
      <3> QED
        BY <3>2 DEF SerializeEnds
    <2> QED
      BY <1>3, <2>4, <2>5, <2>6, <2>7, <2>8, <2>9, <2>10 DEF Write
  <1>4. Write /\ ~SerializeEnds => buffer < Len(ends) /\ outcome = "none yet"
    BY DEF Write, WriteVec, WriteSlice, StreamSkip, StreamWrite, StreamFails, WriteLength,
           WritesTo
  <1> QED
    BY <1>1, <1>2, <1>3, <1>4

-----------------------------------------------------------------------------
(* What is serialized is what Writers is given.                            *)

\* The buffers of an encoding follow each other up to its end.
LEMMA EncodedFormed == ASSUME NEW e, IsEnc(e) PROVE WellFormed(Encoded(e))
  <1> DEFINE W == Seq(Byte)
             chunks == e.chunks
             n == Len(chunks)
             b == FlattenSeq(chunks)
             at == [i \in 1..n |-> Len(Flat(chunks, i))]
             z == Encoded(e)
  <1>1. chunks \in Seq(W) /\ e.err \notin Reserved
    BY DEF IsEnc
  <1>2. n \in Nat /\ DOMAIN chunks = 1..n
    BY <1>1, LenProperties
  <1>3. z.bytes = b /\ z.ends = at /\ z.err = e.err
    BY <1>2 DEF Encoded, Bytes, Flat
  <1>4. /\ Flat(chunks, 0) = <<>> /\ Flat(chunks, n) = b
        /\ \A i \in 0..n : Flat(chunks, i) \in Seq(Byte)
    BY <1>1, FlatStep DEF W
  <1>5. b \in Seq(Byte) /\ Len(b) \in Nat
    <2>1. n \in 0..n
      BY <1>2
    <2> QED
      BY <1>4, <2>1, LenProperties
  <1>6. ASSUME NEW i \in 1..n, NEW j \in 1..n, i <= j
        PROVE  at[i] \in Nat /\ at[j] \in Nat /\ at[i] <= at[j]
    <2> DEFINE p == SubSeq(chunks, 1, i)
               q == SubSeq(chunks, i + 1, j)
    <2> HIDE DEF W, chunks, n
    <2>1. p \in Seq(W) /\ q \in Seq(W)
      <3>1. \A k \in 1..n : chunks[k] \in W
        BY <1>1, ElementOfSeq DEF n
      <3>2. (\A k \in 1..i : chunks[k] \in W) /\ (\A k \in i + 1..j : chunks[k] \in W)
        BY <1>2, <1>6, <3>1
      <3> QED
        BY <1>2, <1>6, <3>2, SubSeqProperties
    <2>2. SubSeq(chunks, 1, j) = p \o q
      <3>1. 1 \in 1..Len(chunks) + 1 /\ i \in 1 - 1..Len(chunks) /\ j \in i..Len(chunks)
        BY <1>2, <1>6 DEF n
      <3> QED
        BY <1>1, <3>1, ConcatAdjacentSubSeq
    <2>3. Flat(chunks, j) = FlattenSeq(p) \o FlattenSeq(q) /\ Flat(chunks, i) = FlattenSeq(p)
      <3> HIDE DEF p, q
      <3>1. FlattenSeq(p \o q) = FlattenSeq(p) \o FlattenSeq(q)
        BY <2>1, FlatConcat DEF W
      <3> QED
        BY <2>2, <3>1 DEF Flat, p
    <2>4. FlattenSeq(p) \in Seq(Byte) /\ FlattenSeq(q) \in Seq(Byte)
      <3> HIDE DEF p, q
      <3> QED
        BY <2>1, FlatType DEF W
    <2> DEFINE fp == FlattenSeq(p)
               fq == FlattenSeq(q)
    <2>5. Len(fp \o fq) = Len(fp) + Len(fq) /\ Len(fp) \in Nat /\ Len(fq) \in Nat
      <3> HIDE DEF fp, fq
      <3>1. fp \in Seq(Byte) /\ fq \in Seq(Byte)
        BY <2>4 DEF fp, fq
      <3> QED
        BY <3>1, ConcatProperties, LenProperties
    <2>6. at[i] = Len(fp) /\ at[j] = Len(fp \o fq)
      BY <2>3
    <2> HIDE DEF fp, fq, at
    <2> QED
      BY <2>5, <2>6
  <1>7. n # 0 => at[n] = Len(b) /\ n \in 1..n
    <2> SUFFICES ASSUME n # 0 PROVE at[n] = Len(b) /\ n \in 1..n
      OBVIOUS
    <2>1. n \in 1..n
      BY <1>2
    <2> QED
      BY <1>4, <2>1
  <1>8. ASSUME NEW i \in 1..n PROVE at[i] \in 0..Len(b)
    <2> HIDE DEF at, b
    <2>1. n \in 1..n /\ i <= n /\ n # 0
      BY <1>2, <1>8
    <2>2. at[i] \in Nat /\ at[i] <= at[n]
      BY <1>6, <2>1
    <2> QED
      BY <1>5, <1>7, <2>1, <2>2
  <1>9. at \in Seq(0..Len(b)) /\ Len(at) = n
    <2>1. at = [i \in 1..n |-> at[i]]
      OBVIOUS
    <2> HIDE DEF at, b, n
    <2> QED
      BY <1>2, <1>8, <2>1, FunctionInSeq
  <1>10. b \in Seq(Nat)
    <2>1. \A i \in 1..Len(b) : b[i] \in Byte
      BY <1>5, ElementOfSeq
    <2>2. Byte \subseteq Nat
      BY WireAssumption DEF Byte
    <2>3. DOMAIN b = 1..Len(b)
      BY <1>5, LenProperties
    <2>4. b = [i \in 1..Len(b) |-> b[i]]
      BY <1>5, SeqDef
    <2> HIDE DEF b
    <2> QED
      BY <1>5, <2>1, <2>2, <2>4, FunctionInSeq
  <1>11. n = 0 => Len(b) = 0
    <2> SUFFICES ASSUME n = 0 PROVE Len(b) = 0
      OBVIOUS
    <2>1. b = <<>>
      BY <1>4
    <2> QED
      BY <2>1
  <1> HIDE DEF at, b, n, z, chunks
  <1>12. /\ z.bytes \in Seq(Nat) /\ z.ends \in Seq(0..Len(z.bytes))
         /\ Len(z.ends) = n /\ z.err \notin Reserved
    BY <1>1, <1>3, <1>9, <1>10
  <1> QED
    BY <1>3, <1>6, <1>7, <1>9, <1>11, <1>12 DEF WellFormed, z

\* An object with no buffer.
LEMMA NothingWritten == IsEnc(Writes(<<>>))
  <1>1. <<>> \in Seq(Seq(Byte))
    BY EmptySeq
  <1> QED
    BY <1>1 DEF IsEnc, Writes, Reserved

\* What a value of a type is serialized to.
LEMMA Serialized ==
    ASSUME NEW T \in Types, NEW v \in Values[T], NEW o \in Orders
    PROVE  IsEnc(Ser[T][o][v]) /\ WellFormed(Encoded(Ser[T][o][v]))
  <1> DEFINE e == Ser[T][o][v]
  <1>1. IsEnc(e)
    BY CodecFits DEF Good, Fits
  <1> HIDE DEF e
  <1>2. WellFormed(Encoded(e))
    BY <1>1, EncodedFormed
  <1> QED
    BY <1>1, <1>2 DEF e

-----------------------------------------------------------------------------
(* Only an ObjectId answers that the file ended.                           *)

\* An answer that is not "UnexpectedEof".
Plainly(r) == r.err # "UnexpectedEof"

\* d gives no such answer, and what it leaves are bytes.
Never(d) == \A s \in Seq(Byte) : Plainly(d[s]) /\ Proper(d, s)

\* The decoders of the parts of T give none.
PartsNever(T, dec) == \A U \in PartsOf(T) : Never(dec[U])

\* read_exact, a byte and a number.
LEMMA ReadsNever ==
    ASSUME NEW s, NEW n
    PROVE  Plainly(ReadExact(s, n)) /\ Plainly(DecByte(s)) /\ Plainly(DecUint(s, n)) /\ Plainly(DecInt(s, n))
  <1>1. \A k : Plainly(ReadExact(s, k))
    BY BadIs, GotIs DEF Plainly, ReadExact
  <1>2. Plainly(DecByte(s)) /\ Plainly(DecUint(s, n))
    BY <1>1, GotIs DEF Plainly, DecByte, DecUint, Map, IsOk
  <1>3. Plainly(DecInt(s, n))
    BY <1>2, GotIs DEF Plainly, DecInt, Map, IsOk
  <1> QED
    BY <1>1, <1>2, <1>3

\* Decoders that run one behind the other.
LEMMA EachNever ==
    ASSUME NEW n \in Nat, NEW ds, ds = [i \in 1..n |-> ds[i]], \A i \in 1..n : Never(ds[i]),
           NEW s \in Seq(Byte)
    PROVE  Plainly(DecEach(ds, s))
  <1>1. PICK f : IsEach(ds, n, s, f) /\ DecEach(ds, s) = f[n]
    <2>1. HasEach(ds, ds, n, s)
      BY EachIs
    <2> QED
      BY <2>1 DEF HasEach
  <1> DEFINE S == {i \in 0..n : Plainly(f[i]) /\ (f[i].err = "none" => f[i].rest \in Seq(Byte))}
  <1>2. 0 \in S
    BY <1>1, GotIs DEF IsEach, Plainly
  <1>3. ASSUME NEW i \in 0..n, i > 0, i - 1 \in S PROVE i \in S
    <2> DEFINE p == f[i - 1]
               q == ds[i][p.rest]
    <2>1. i \in 1..n /\ Plainly(p) /\ (p.err = "none" => p.rest \in Seq(Byte))
      BY <1>3
    <2>2. f[i] = IF p.err = "none" THEN IF q.err = "none" THEN Got(Append(p.val, q.val), q.rest) ELSE q ELSE p
      BY <1>1, <2>1 DEF IsEach, EachStep
    <2>3. p.err = "none" => Plainly(q) /\ (q.err = "none" => q.rest \in Seq(Byte))
      BY <2>1 DEF Never, Proper
    <2> HIDE DEF p, q
    <2>4. Plainly(f[i]) /\ (f[i].err = "none" => f[i].rest \in Seq(Byte))
      BY <2>1, <2>2, <2>3, GotIs DEF Plainly
    <2> QED
      BY <2>4
  <1>4. S = 0..n
    <2> HIDE DEF S
    <2>1. S \in SUBSET (0..n)
      BY DEF S
    <2> QED
      BY <1>2, <1>3, <2>1, UpTo
  <1> QED
    BY <1>1, <1>4

\* A length, and as many bytes or values of d.
LEMMA CountedNever ==
    ASSUME NEW d, Never(d), NEW s \in Seq(Byte)
    PROVE  Plainly(DecBytes(s)) /\ Plainly(DecCounted(d, s))
  <1> DEFINE l == DecUint(s, LenBytes)
             ds == [i \in 1..l.val |-> d]
  <1>1. Plainly(l)
    BY ReadsNever
  <1>2. DecBytes(s) = IF l.err = "none" THEN ReadExact(l.rest, l.val) ELSE l
    BY DEF DecBytes, Bulk, AndThen, IsOk
  <1>3. DecCounted(d, s) = IF l.err = "none" THEN DecEach(ds, l.rest) ELSE l
    BY DEF DecCounted, AndThen, IsOk
  <1>4. ASSUME l.err = "none" PROVE Plainly(DecEach(ds, l.rest))
    <2>1. ReadOk(s, l, l.val, SerLen(l.val), 0..MaxLen)
      BY <1>4, UndoneLen
    <2>2. ds = [i \in 1..l.val |-> ds[i]] /\ \A i \in 1..l.val : ds[i] = d
      OBVIOUS
    <2> HIDE DEF l, ds
    <2>3. l.rest \in Seq(Byte) /\ l.val \in 0..MaxLen
      BY <2>1 DEF ReadOk
    <2>4. MaxLen \in Nat
      <3>1. Pow[LenBytes] \in Nat \ {0}
        BY WireAssumption, PowIs
      <3> QED
        BY <3>1 DEF MaxLen
    <2>5. l.val \in Nat
      BY <2>3, <2>4
    <2> QED
      BY <2>2, <2>3, <2>5, EachNever
  <1> HIDE DEF l, ds
  <1>5. Plainly(DecBytes(s))
    BY <1>1, <1>2, ReadsNever
  <1> QED
    BY <1>1, <1>3, <1>4, <1>5

\* A vector, and the pairs of a map.
LEMMA VecNever ==
    ASSUME NEW U, NEW dec, U # U8 => Never(dec[U]), NEW s \in Seq(Byte)
    PROVE  Plainly(DecVec(U, dec, s))
  <1>1. CASE U = U8
    <2>1. Plainly(DecBytes(s))
      <3>1. Never([q \in Seq(Byte) |-> Bad("BadTag")])
        BY BadIs DEF Never, Plainly, Proper
      <3> QED
        BY <3>1, CountedNever
    <2> QED
      BY <1>1, <2>1, BadIs DEF Plainly, DecVec, CheckedZst
  <1>2. CASE U # U8
    <2>1. Plainly(DecCounted(dec[U], s))
      BY <1>2, CountedNever
    <2> QED
      BY <1>2, <2>1, BadIs DEF Plainly, DecVec, CheckedZst
  <1> QED
    BY <1>1, <1>2

\* The entries of a map.
LEMMA PairsNever ==
    ASSUME NEW T, NEW dec, Never(dec[T.key]), Never(dec[T.of]), NEW s \in Seq(Byte)
    PROVE  Plainly(DecPairs(T, dec, s))
  <1> DEFINE d == DecPair(T, dec)
  <1>1. ASSUME NEW t \in Seq(Byte) PROVE Plainly(d[t]) /\ Proper(d, t)
    <2> DEFINE k == dec[T.key][t]
               v == dec[T.of][k.rest]
    <2>1. d[t] = IF k.err = "none" THEN IF v.err = "none" THEN Got(<<k.val, v.val>>, v.rest) ELSE v ELSE k
      BY DEF DecPair, AndThen, Map, IsOk
    <2>2. Plainly(k) /\ (k.err = "none" => k.rest \in Seq(Byte))
      BY DEF Never, Proper
    <2>3. k.err = "none" => Plainly(v) /\ (v.err = "none" => v.rest \in Seq(Byte))
      BY <2>2 DEF Never, Proper
    <2> HIDE DEF k, v, d
    <2> QED
      BY <2>1, <2>2, <2>3, GotIs DEF Plainly, Proper
  <1>2. Plainly(DecCounted(d, s))
    <2> HIDE DEF d
    <2> QED
      BY <1>1, CountedNever DEF Never
  <1> QED
    BY <1>2, BadIs DEF Plainly, DecPairs, CheckedZst

\* A number, a bool or a text.
LEMMA SimpleNever ==
    ASSUME NEW T \in Types, NEW dec, NEW st, NEW s \in Seq(Byte), T.k \in Simple, T.k # "objectid"
    PROVE  Plainly(Deserialize(T, dec, st, s))
  <1>1. /\ Plainly(DecByte(s)) /\ Plainly(DecUint(s, T.w)) /\ Plainly(DecInt(s, T.w))
        /\ Plainly(DecUint(s, WideBytes)) /\ Plainly(DecInt(s, WideBytes))
    BY ReadsNever
  <1>2. Plainly(DecBytes(s))
    <2>1. Never([q \in Seq(Byte) |-> Bad("BadTag")])
      BY BadIs DEF Never, Plainly, Proper
    <2> QED
      BY <2>1, CountedNever
  <1>3. CASE T.k \in {"uint", "int"}
    BY <1>1, <1>3 DEF Deserialize
  <1>4. CASE T.k = "usize"
    BY <1>1, <1>4, GotIs, BadIs DEF Deserialize, DecUsize, AndThen, IsOk, Plainly
  <1>5. CASE T.k = "isize"
    BY <1>1, <1>5, GotIs, BadIs DEF Deserialize, DecIsize, AndThen, IsOk, Plainly
  <1>6. CASE T.k = "float"
    BY <1>1, <1>6, GotIs, BadIs DEF Deserialize, DecFloat, AndThen, IsOk, Plainly
  <1>7. CASE T.k = "bool"
    BY <1>1, <1>7, GotIs, BadIs DEF Deserialize, DecBool, AndThen, IsOk, Plainly
  <1>8. CASE T.k = "string"
    BY <1>2, <1>8, GotIs, BadIs DEF Deserialize, DecString, AndThen, IsOk, Plainly
  <1> QED
    BY <1>3, <1>4, <1>5, <1>6, <1>7, <1>8 DEF Simple

\* What is wrapped around one other value.
LEMMA SingleNever ==
    ASSUME NEW T \in Types, NEW dec, PartsNever(T, dec), NEW st, NEW s \in Seq(Byte),
           T.k \in {"nonzero", "option", "refcell", "third", "result"}
    PROVE  Plainly(Deserialize(T, dec, st, s))
  <1> DEFINE b == DecByte(s)
  <1>1. Plainly(b) /\ (b.err = "none" => b.rest \in Seq(Byte))
    BY ReadsNever, UndoneByte DEF ReadOk
  <1>2. T.k # "result" => \A t \in Seq(Byte) : Plainly(dec[T.of][t])
    BY DEF PartsNever, PartsOf, Simple, Single, Never
  <1>3. CASE T.k = "nonzero"
    BY <1>2, <1>3, GotIs, BadIs DEF Deserialize, DecNonZero, AndThen, IsOk, Plainly
  <1>4. CASE T.k = "refcell"
    BY <1>2, <1>4, GotIs DEF Deserialize, DecRefCell, Map, IsOk, Plainly
  <1>5. CASE T.k = "third"
    BY <1>2, <1>5, GotIs DEF Deserialize, DeserializeWith, Map, IsOk, Plainly
  <1>6. CASE T.k = "option"
    <2> DEFINE q == dec[T.of][b.rest]
    <2>1. Deserialize(T, dec, st, s) =
              IF b.err = "none"
              THEN IF b.val = 0 THEN Got(<<>>, b.rest)
                   ELSE IF b.val = 1 THEN IF q.err = "none" THEN Got(<<q.val>>, q.rest) ELSE q
                   ELSE Bad("BadTag")
              ELSE b
      BY <1>6 DEF Deserialize, DecOption, AndThen, Map, IsOk
    <2>2. b.err = "none" => Plainly(q)
      BY <1>1, <1>2, <1>6
    <2> HIDE DEF b, q
    <2> QED
      BY <1>1, <2>1, <2>2, GotIs, BadIs DEF Plainly
  <1>7. CASE T.k = "result"
    <2> DEFINE U == IF b.val = 0 THEN T.err ELSE T.ok
               q == dec[U][b.rest]
    <2>1. Deserialize(T, dec, st, s) =
              IF b.err = "none"
              THEN IF b.val > 1 THEN Bad("BadTag")
                   ELSE IF q.err = "none" THEN Got(<<b.val, q.val>>, q.rest) ELSE q
              ELSE b
      BY <1>7 DEF Deserialize, DecResult, AndThen, Map, IsOk
    <2>2. U \in PartsOf(T)
      BY <1>7 DEF PartsOf, Simple, Single
    <2> HIDE DEF U
    <2>3. b.err = "none" => Plainly(q)
      BY <1>1, <2>2 DEF PartsNever, Never
    <2> HIDE DEF b, q
    <2> QED
      BY <1>1, <2>1, <2>3, GotIs, BadIs DEF Plainly
  <1> QED
    BY <1>3, <1>4, <1>5, <1>6, <1>7

\* What is made of a fixed number of values.
LEMMA FixedNever ==
    ASSUME NEW T \in Types, NEW dec, PartsNever(T, dec), NEW st, NEW s \in Seq(Byte),
           T.k \in {"array", "tuple", "struct", "enum"}
    PROVE  Plainly(Deserialize(T, dec, st, s))
  <1>1. CASE T.k = "array"
    <2> DEFINE ds == [i \in 1..T.n |-> dec[T.of]]
    <2>1. T.n \in Nat /\ Never(dec[T.of])
      BY <1>1, TypesAssumption DEF PartsNever, PartsOf, Simple, Single
    <2>2. ds = [i \in 1..T.n |-> ds[i]] /\ \A i \in 1..T.n : ds[i] = dec[T.of]
      OBVIOUS
    <2>3. Deserialize(T, dec, st, s) = DecEach(ds, s)
      BY <1>1 DEF Deserialize, DecArray
    <2> HIDE DEF ds
    <2> QED
      BY <2>1, <2>2, <2>3, EachNever
  <1>2. ASSUME T.k \in {"tuple", "struct"}
        PROVE  Plainly(DecEach([i \in DOMAIN T.of |-> dec[T.of[i]]], s))
    <2> DEFINE n == Len(T.of)
               ds == [i \in DOMAIN T.of |-> dec[T.of[i]]]
    <2>1. n \in Nat /\ DOMAIN T.of = 1..n
      BY <1>2, TypesAssumption, LenProperties
    <2>2. ds = [i \in 1..n |-> ds[i]] /\ \A i \in 1..n : ds[i] = dec[T.of[i]]
      BY <2>1
    <2>3. \A i \in 1..n : Never(dec[T.of[i]])
      BY <1>2, <2>1 DEF PartsNever, PartsOf, Simple, Single
    <2> HIDE DEF ds, n
    <2>4. Plainly(DecEach(ds, s))
      BY <2>1, <2>2, <2>3, EachNever
    <2> QED
      BY <2>4 DEF ds
  <1>3. CASE T.k = "tuple"
    BY <1>2, <1>3 DEF Deserialize, DecTuple
  <1>4. CASE T.k = "struct"
    <2> DEFINE q == DecFields(T, dec, s)
    <2>1. Plainly(q)
      BY <1>2, <1>4 DEF DecFields
    <2>2. Deserialize(T, dec, st, s) =
              IF q.err = "none" THEN Got(IF T.init THEN InitMethod(T, q.val) ELSE q.val, q.rest) ELSE q
      BY <1>4 DEF Deserialize, DecStruct, Map, IsOk
    <2> HIDE DEF q
    <2> QED
      BY <2>1, <2>2, GotIs DEF Plainly
  <1>5. CASE T.k = "enum"
    <2> DEFINE b == DecByte(s)
               m == Tagged(T, b.val)
               n == Min(m)
               q == dec[T.of[n]][b.rest]
               v == <<n, IF T.init THEN InitMethod(T.of[n], q.val) ELSE q.val>>
    <2>1. Plainly(b) /\ (b.err = "none" => b.rest \in Seq(Byte))
      BY ReadsNever, UndoneByte DEF ReadOk
    <2>2. Deserialize(T, dec, st, s) =
              IF b.err = "none"
              THEN IF m = {} THEN Bad("BadTag") ELSE IF q.err = "none" THEN Got(v, q.rest) ELSE q
              ELSE b
      BY <1>5 DEF Deserialize, DecEnum, AndThen, Map, IsOk, Tagged
    <2>3. ASSUME m # {} PROVE T.of[n] \in PartsOf(T)
      <3>1. T.tags \in Seq(Byte) /\ DOMAIN T.tags = DOMAIN T.of
        BY <1>5, TypesAssumption DEF IsEnum
      <3>2. m \in SUBSET Nat
        BY <3>1 DEF Tagged
      <3>3. n \in m
        BY <2>3, <3>2, LeastIs
      <3>4. n \in DOMAIN T.of
        BY <3>1, <3>3 DEF Tagged
      <3> HIDE DEF n
      <3> QED
        BY <1>5, <3>4 DEF PartsOf, Simple, Single
    <2> HIDE DEF b, m, n
    <2>4. b.err = "none" /\ m # {} => Plainly(q)
      BY <2>1, <2>3 DEF PartsNever, Never
    <2> HIDE DEF q, v
    <2> QED
      BY <2>1, <2>2, <2>4, GotIs, BadIs DEF Plainly
  <1> QED
    BY <1>1, <1>3, <1>4, <1>5

\* What is made of as many values as a length says.
LEMMA LongNever ==
    ASSUME NEW T \in Types, NEW dec, PartsNever(T, dec), NEW st, NEW s \in Seq(Byte),
           T.k \in {"vec", "slice", "set", "indexset", "map", "indexmap"}
    PROVE  Plainly(Deserialize(T, dec, st, s))
  <1>1. ASSUME T.k \in {"vec", "slice", "set", "indexset"} PROVE Plainly(DecVec(T.of, dec, s))
    <2>1. T.of \in PartsOf(T)
      BY <1>1 DEF PartsOf, Simple, Single
    <2> QED
      BY <2>1, VecNever DEF PartsNever
  <1>2. ASSUME T.k \in {"map", "indexmap"} PROVE Plainly(DecPairs(T, dec, s))
    <2>1. T.key \in PartsOf(T) /\ T.of \in PartsOf(T)
      BY <1>2 DEF PartsOf, Simple, Single
    <2> QED
      BY <2>1, PairsNever DEF PartsNever
  <1> DEFINE q == DecVec(T.of, dec, s)
             p == DecPairs(T, dec, s)
  <1>3. CASE T.k \in {"vec", "slice"}
    BY <1>1, <1>3 DEF Deserialize
  <1>4. CASE T.k \in {"set", "indexset"}
    <2>1. \/ Deserialize(T, dec, st, s) = q /\ Plainly(q)
          \/ Deserialize(T, dec, st, s) = Bad("WrongOrder")
          \/ \E x : Deserialize(T, dec, st, s) = Got(x, q.rest)
      <3>1. Deserialize(T, dec, st, s) =
                IF q.err = "none"
                THEN IF T.k = "set" /\ st /\ ~AscendingKeys(T.of, q.val) THEN Bad("WrongOrder")
                     ELSE Got(IF T.k = "set" THEN ToSet(q.val) ELSE FirstOnes(q.val), q.rest)
                ELSE q
        BY <1>4 DEF Deserialize, DecSet, DecIndexSet, AndThen, Map, IsOk
      <3>2. Plainly(q)
        BY <1>1, <1>4
      <3> HIDE DEF q
      <3> QED
        BY <3>1, <3>2
    <2> HIDE DEF q
    <2> QED
      BY <2>1, GotIs, BadIs DEF Plainly
  <1>5. CASE T.k = "map"
    <2>1. Deserialize(T, dec, st, s) =
              IF p.err = "none"
              THEN IF st /\ ~AscendingKeys(T.key, KeysOf(p.val)) THEN Bad("WrongOrder")
                   ELSE Got(LastValues(p.val), p.rest)
              ELSE p
      BY <1>5 DEF Deserialize, DecMap, AndThen, IsOk
    <2>2. Plainly(p)
      BY <1>2, <1>5
    <2> HIDE DEF p
    <2> QED
      BY <2>1, <2>2, GotIs, BadIs DEF Plainly
  <1>6. CASE T.k = "indexmap"
    <2>1. \/ Deserialize(T, dec, st, s) = p
          \/ \E x : Deserialize(T, dec, st, s) = Got(x, p.rest)
      BY <1>6 DEF Deserialize, DecIndexMap, Map, IsOk
    <2>2. Plainly(p)
      BY <1>2, <1>6
    <2> HIDE DEF p
    <2> QED
      BY <2>1, <2>2, GotIs DEF Plainly
  <1> QED
    BY <1>3, <1>4, <1>5, <1>6

\* HoldsObjectId is a function of the parts of the type.
LEMMA HoldsIs == ASSUME NEW T \in Types PROVE HoldsObjectId[T] = HoldsRule(T, OfParts(HoldsObjectId, T))
  <1>1. PICK h : Solves("holds", h, Types)
    BY Solution
  <1> DEFINE body(g, U) == (U.k = "objectid" \/ (U.k # "skip" /\ \E P \in PartsOf(U) : g[P]))
             eq(g) == g = [U \in Types |-> body(g, U)]
  <1>2. \A g, U : HoldsRule(U, OfParts(g, U)) = body(g, U)
    <2>1. \A g, U : (\E P \in PartsOf(U) : OfParts(g, U)[P]) <=> \E P \in PartsOf(U) : g[P]
      BY DEF OfParts
    <2> QED
      BY <2>1 DEF HoldsRule
  <1>3. eq(h)
    BY <1>1, <1>2 DEF Solves, Rule
  <1>4. HoldsObjectId = CHOOSE g : eq(g)
    BY DEF HoldsObjectId
  <1>5. eq(HoldsObjectId)
    <2> HIDE DEF eq
    <2> QED
      BY <1>3, <1>4
  <1>6. body(HoldsObjectId, T) = HoldsRule(T, OfParts(HoldsObjectId, T))
    BY <1>2
  <1> HIDE DEF body
  <1>7. HoldsObjectId[T] = body(HoldsObjectId, T)
    BY <1>5
  <1> QED
    BY <1>6, <1>7

\* A type that holds no ObjectId never answers that the file ended.
LEMMA NeverEnds ==
    ASSUME NEW T \in Types, ~HoldsObjectId[T], NEW st \in BOOLEAN
    PROVE  Never(Dec[T][st])
  <1> DEFINE S == {U \in Types : ~HoldsObjectId[U] => Never(Dec[U][st])}
  <1>1. ASSUME NEW U \in Types, PartsOf(U) \subseteq S PROVE U \in S
    <2> SUFFICES ASSUME ~HoldsObjectId[U], NEW s \in Seq(Byte)
                 PROVE  Plainly(Dec[U][st][s]) /\ Proper(Dec[U][st], s)
      BY DEF Never
    <2> DEFINE dec == DecParts(U, st)
    <2>1. Proper(Dec[U][st], s)
      <3>1. PICK o \in Orders : TRUE
        <4>1. [i \in 1..MaxKeys |-> i] \in Orders
          BY DEF Orders
        <4> QED
          BY <4>1
      <3>2. Back(U, Dec[U][st], Ser[U][o], Readable[U], Received[U], FALSE)
        BY <3>1, AllSettle DEF Settles
      <3> QED
        BY <3>2 DEF Back
    <2>2. Dec[U][st][s] = Deserialize(U, dec, st, s)
      <3>1. Dec[U][st] = DecOf(U, dec, st)
        BY Unfolded
      <3>2. DecOf(U, dec, st)[s] = Deserialize(U, dec, st, s)
        BY DEF DecOf
      <3> QED
        BY <3>1, <3>2
    <2>3. U.k # "objectid" /\ (U.k # "skip" => \A P \in PartsOf(U) : ~HoldsObjectId[P])
      BY HoldsIs DEF HoldsRule, OfParts
    <2>4. U.k # "skip" => PartsNever(U, dec)
      BY <1>1, <2>3 DEF PartsNever, DecParts
    <2> HIDE DEF dec
    <2>5. Plainly(Deserialize(U, dec, st, s))
      <3>1. CASE U.k = "skip"
        BY <3>1, GotIs DEF Deserialize, DecSkipped, Plainly
      <3>2. CASE U.k \in Simple
        BY <2>3, <3>2, SimpleNever
      <3>3. CASE U.k \in {"nonzero", "option", "refcell", "third", "result"}
        BY <2>4, <3>3, SingleNever
      <3>4. CASE U.k \in {"array", "tuple", "struct", "enum"}
        BY <2>4, <3>4, FixedNever
      <3>5. CASE U.k \in {"vec", "slice", "set", "indexset", "map", "indexmap"}
        BY <2>4, <3>5, LongNever
      <3> QED
        BY <3>1, <3>2, <3>3, <3>4, <3>5, TypesAssumption DEF Kinds, Single
    <2> QED
      BY <2>1, <2>2, <2>5
  <1>2. S = Types
    <2>1. S \in SUBSET Types
      OBVIOUS
    <2> HIDE DEF S
    <2> QED
      BY <1>1, <2>1, TypesInduction
  <1> QED
    BY <1>2

-----------------------------------------------------------------------------
(* from_slice and deserialize of bytes that encode a value.                *)

\* Of all of them.
LEMMA SliceWhole ==
    ASSUME NEW T, NEW st, NEW b \in Seq(Byte), NEW ok, NEW w, Codes(Dec[T][st], b, ok, w)
    PROVE  /\ ok => FromSlice(T, b, st) = Got(w, <<>>)
           /\ ~ok => FromSlice(T, b, st).err \in {"Overflow", "ZeroSized"}
  <1>1. <<>> \in Seq(Byte) /\ b \o <<>> = b
    BY EmptySeq, ConcatEmptySeq
  <1>2. ASSUME ok PROVE FromSlice(T, b, st) = Got(w, <<>>)
    <2>1. Dec[T][st][b] = Got(w, <<>>)
      BY <1>1, <1>2 DEF Codes, Reads
    <2> QED
      BY <2>1 DEF FromSlice, AndThen, IsOk, Got
  <1>3. ASSUME ~ok PROVE FromSlice(T, b, st).err \in {"Overflow", "ZeroSized"}
    <2>1. Dec[T][st][b].err \in {"Overflow", "ZeroSized"}
      BY <1>1, <1>3 DEF Codes, Refuses
    <2>2. FromSlice(T, b, st) = Dec[T][st][b]
      BY <2>1 DEF FromSlice, AndThen, IsOk
    <2> QED
      BY <2>1, <2>2
  <1> QED
    BY <1>2, <1>3

\* A beginning is refused, as the type refuses it, and what follows them is not read.
CutOrFollowed(T, st, b) ==
    /\ \A n \in 0..Len(b) - 1 :
         LET e == FromSlice(T, SubSeq(b, 1, n), st).err
         IN  e = "UnexpectedLength" \/ (HoldsObjectId[T] /\ e = "UnexpectedEof")
    /\ \A t \in Seq(Byte) : t # <<>> =>
         FromSlice(T, b \o t, st).err = "NotAllBytesRead" /\ Dec[T][st][b \o t].rest = t

\* Of a beginning, and of them and more.
LEMMA SliceOther ==
    ASSUME NEW T \in Types, NEW st \in BOOLEAN, NEW b \in Seq(Byte), NEW w, Reads(Dec[T][st], b, w)
    PROVE  CutOrFollowed(T, st, b)
  <1>1. ASSUME NEW n \in 0..Len(b) - 1
        PROVE  LET e == FromSlice(T, SubSeq(b, 1, n), st).err
               IN  e = "UnexpectedLength" \/ (HoldsObjectId[T] /\ e = "UnexpectedEof")
    <2> DEFINE r == Dec[T][st][SubSeq(b, 1, n)]
    <2>1. r.err \in {"UnexpectedLength", "UnexpectedEof"}
      BY <1>1 DEF Reads, CutErrors
    <2>2. FromSlice(T, SubSeq(b, 1, n), st) = r
      BY <2>1 DEF FromSlice, AndThen, IsOk
    <2>3. ASSUME ~HoldsObjectId[T] PROVE r.err # "UnexpectedEof"
      <3>1. SubSeq(b, 1, n) \in Seq(Byte)
        <4>1. n \in 0..Len(b)
          BY <1>1, LenProperties
        <4> QED
          BY <4>1, FirstN
      <3>2. Never(Dec[T][st])
        BY <2>3, NeverEnds
      <3> QED
        BY <3>1, <3>2 DEF Never, Plainly
    <2> HIDE DEF r
    <2> QED
      BY <2>1, <2>2, <2>3
  <1>2. ASSUME NEW t \in Seq(Byte), t # <<>>
        PROVE  FromSlice(T, b \o t, st).err = "NotAllBytesRead" /\ Dec[T][st][b \o t].rest = t
    <2>1. Dec[T][st][b \o t] = Got(w, t)
      BY <1>2 DEF Reads
    <2> QED
      BY <1>2, <2>1 DEF FromSlice, AndThen, IsOk, Got, Bad
  <1> QED
    BY <1>1, <1>2 DEF CutOrFollowed

-----------------------------------------------------------------------------
(* The exchange.                                                           *)

\* What is serialized is a sample; an Ok means that it could be.
SampleOK ==
    /\ ty \in Types
    /\ origin \in {"writer", "foreign"}
    /\ origin = "writer" =>
         /\ val \in Values[ty] /\ order \in Orders
         /\ bytes = Bytes(Ser[ty][order][val]) /\ ending = Ser[ty][order][val].err
    /\ outcome = "ok" => ending = "none"

\* What has arrived is made of what to_vec answered.
WireOK ==
    pc # "write" =>
        /\ outcome = "ok" /\ sink = "vec" /\ out = bytes
        /\ wire \in Seq(Byte) /\ strict \in BOOLEAN
        /\ origin = "writer" =>
             \/ \E n \in 0..Len(out) : wire = SubSeq(out, 1, n)
             \/ \E t \in Seq(Byte) : wire = out \o t

\* The answers are those of from_slice.
AnswerOK ==
    /\ pc \in {"write", "arrived", "decoded", "echoed"}
    /\ pc \in {"decoded", "echoed"} => answer = FromSlice(ty, wire, strict)
    /\ pc = "echoed" =>
         /\ IsOk(answer) /\ answer.val \in Values[ty]
         /\ \E o \in Orders : echo = Ser[ty][o][answer.val]
         /\ echo.err = "none" => answer2 = FromSlice(ty, Bytes(echo), strict)

\* The invariant of the exchange.
EInv == IInv /\ SampleOK /\ WireOK /\ AnswerOK

\* The first state.
LEMMA InitEInv == Init => EInv
  <1> SUFFICES ASSUME Init PROVE EInv
    OBVIOUS
  <1>1. pc = "write"
    BY DEF Init
  <1>2. WireOK /\ AnswerOK
    BY <1>1 DEF WireOK, AnswerOK
  <1>3. CASE InitWriter
    <2>1. ty \in Types /\ val \in Values[ty] /\ order \in Orders /\ origin = "writer"
      BY <1>3, ExchangeAssumption DEF InitWriter
    <2> DEFINE z == Ser[ty][order][val]
    <2>2. WellFormed(Encoded(z))
      BY <2>1, Serialized
    <2>3. Begin(Encoded(z))
      BY <1>3 DEF InitWriter
    <2>4. IInv
      <3> DEFINE x == Encoded(z)
      <3>1. WellFormed(x) /\ Begin(x)
        BY <2>2, <2>3
      <3> HIDE DEF x
      <3> QED
        BY <3>1, InitIInv
    <2>5. bytes = Bytes(z) /\ ending = z.err /\ outcome = "none yet"
      BY <2>3 DEF Begin, Encoded
    <2> QED
      BY <1>2, <2>1, <2>4, <2>5 DEF EInv, SampleOK
  <1>4. CASE InitForeign
    <2>1. ty \in Types /\ origin = "foreign"
      BY <1>4, ExchangeAssumption DEF InitForeign
    <2> DEFINE z == Writes(<<>>)
               x == Encoded(z)
    <2>2. WellFormed(x)
      <3>1. IsEnc(z)
        BY NothingWritten
      <3> HIDE DEF z
      <3> QED
        BY <3>1, EncodedFormed
    <2>3. Begin(x)
      BY <1>4 DEF InitForeign
    <2>4. outcome = "none yet"
      BY <2>3 DEF Begin
    <2>5. IInv
      <3> HIDE DEF x
      <3> QED
        BY <2>2, <2>3, InitIInv
    <2> QED
      BY <1>2, <2>1, <2>4, <2>5 DEF EInv, SampleOK
  <1> QED
    BY <1>3, <1>4 DEF Init

\* The encoding of a sample is bytes.
LEMMA SampleBytes == EInv /\ origin = "writer" => bytes \in Seq(Byte)
  <1> SUFFICES ASSUME EInv, origin = "writer" PROVE bytes \in Seq(Byte)
    OBVIOUS
  <1> DEFINE z == Ser[ty][order][val]
  <1>1. ty \in Types /\ val \in Values[ty] /\ order \in Orders /\ bytes = Bytes(z)
    BY DEF EInv, SampleOK
  <1>2. IsEnc(z)
    BY <1>1, Serialized
  <1> HIDE DEF z
  <1> QED
    BY <1>1, <1>2, EncBytes

\* A step of a writer.
LEMMA SerializingEInv == EInv /\ Serializing => EInv'
  <1> SUFFICES ASSUME EInv, Serializing PROVE EInv'
    OBVIOUS
  <1>1. /\ Write /\ origin' = origin /\ ty' = ty /\ val' = val /\ order' = order /\ pc' = pc
        /\ wire' = wire /\ strict' = strict /\ answer' = answer /\ echo' = echo
        /\ answer2' = answer2
    BY DEF Serializing, reading
  <1>2. IInv'
    BY <1>1, StepIInv DEF EInv
  <1>3. /\ outcome = "none yet" /\ bytes' = bytes /\ ending' = ending
        /\ outcome' = "ok" => ending = "none"
    <2>1. outcome = "none yet" /\ bytes' = bytes /\ ending' = ending
      BY <1>1 DEF Write, WriteVec, WriteSlice, StreamSkip, StreamWrite, StreamFails,
                  WriteLength, SerializeEnds, WritesTo, object
    <2>2. ASSUME outcome' = "ok" PROVE ending = "none"
      <3>1. ~(WriteVec \/ WriteSlice \/ StreamSkip \/ StreamWrite \/ StreamFails \/ WriteLength)
        BY <2>1, <2>2 DEF WriteVec, WriteSlice, StreamSkip, StreamWrite, StreamFails, WriteLength
      <3>2. outcome' = IF ending = "none" THEN "ok" ELSE ending
        BY <1>1, <3>1 DEF Write, SerializeEnds
      <3>3. ending # "ok"
        BY DEF EInv, IInv, ObjectOK, Reserved
      <3> QED
        BY <2>2, <3>2, <3>3
    <2> QED
      BY <2>1, <2>2
  <1>4. pc = "write"
    BY <1>3 DEF EInv, WireOK
  <1>5. SampleOK'
    <2>1. SampleOK
      BY DEF EInv
    <2> QED
      BY <1>1, <1>3, <2>1 DEF SampleOK
  <1>6. WireOK' /\ AnswerOK'
    BY <1>1, <1>4 DEF WireOK, AnswerOK
  <1> QED
    BY <1>2, <1>5, <1>6 DEF EInv

\* The state of the writer stays as it is.
LEMMA WriterKept ==
    ASSUME EInv, UNCHANGED value, UNCHANGED writing
    PROVE  /\ IInv' /\ SampleOK' /\ bytes' = bytes /\ sink' = sink /\ out' = out
           /\ outcome' = outcome /\ origin' = origin /\ ty' = ty /\ val' = val /\ order' = order
  <1>1. UNCHANGED <<object, writing>>
    BY DEF value
  <1>2. IInv'
    BY <1>1, StepIInv DEF EInv
  <1>3. /\ bytes' = bytes /\ sink' = sink /\ out' = out /\ outcome' = outcome
        /\ ending' = ending /\ origin' = origin /\ ty' = ty /\ val' = val /\ order' = order
    BY DEF value, writing, object
  <1>4. SampleOK
    BY DEF EInv
  <1> QED
    BY <1>2, <1>3, <1>4 DEF SampleOK

\* Bytes of a bounded number.
LEMMA BoundedIs == ASSUME NEW n \in Nat, NEW t \in BoundedSeq(Byte, n) PROVE t \in Seq(Byte)
  <1>1. PICK m \in 0..n : t \in [1..m -> Byte]
    BY DEF BoundedSeq, SeqOf
  <1>2. m \in Nat
    BY <1>1
  <1> QED
    BY <1>1, <1>2, SeqDef

\* Bytes arrive.
LEMMA ArriveEInv == EInv /\ Arrive => EInv'
  <1> SUFFICES ASSUME EInv, Arrive PROVE EInv'
    OBVIOUS
  <1>1. /\ outcome = "ok" /\ sink = "vec" /\ pc' = "arrived" /\ strict' \in BOOLEAN
        /\ UNCHANGED value /\ UNCHANGED writing
    BY DEF Arrive
  <1>2. /\ IInv' /\ SampleOK' /\ bytes' = bytes /\ sink' = sink /\ out' = out
        /\ outcome' = outcome /\ origin' = origin /\ ty' = ty
    BY <1>1, WriterKept
  <1>3. out = bytes
    BY <1>1 DEF EInv, IInv, PrefixOnFailure
  <1>4. AnswerOK'
    BY <1>1 DEF AnswerOK
  <1>5. CASE origin = "foreign"
    <2>1. wire' \in BoundedSeq(Byte, MaxForeign)
      BY <1>5 DEF Arrive
    <2>2. wire' \in Seq(Byte)
      BY <2>1, BoundedIs, ExchangeAssumption
    <2>3. WireOK'
      BY <1>1, <1>2, <1>3, <1>5, <2>2 DEF WireOK
    <2> QED
      BY <1>2, <1>4, <2>3 DEF EInv
  <1>6. CASE origin # "foreign" /\ origin # "writer"
    <2>1. FALSE
      BY <1>6 DEF EInv, SampleOK
    <2> QED
      BY <2>1
  <1>7. CASE origin = "writer"
    <2>1. out \in Seq(Byte)
      BY <1>3, <1>7, SampleBytes
    <2>2. \/ \E n \in 0..Len(out) : wire' = SubSeq(out, 1, n)
          \/ \E t \in BoundedSeq(Byte, Trailing) : wire' = out \o t
      <3>1. wire' \in {SubSeq(out, 1, n) : n \in 0..Len(out)}
                        \cup {out \o t : t \in BoundedSeq(Byte, Trailing)}
        BY <1>7 DEF Arrive
      <3> QED
        BY <3>1
    <2>3. CASE \E n \in 0..Len(out) : wire' = SubSeq(out, 1, n)
      <3>1. PICK n \in 0..Len(out) : wire' = SubSeq(out, 1, n)
        BY <2>3
      <3>2. wire' \in Seq(Byte)
        BY <2>1, <3>1, FirstN
      <3>3. WireOK'
        BY <1>1, <1>2, <1>3, <3>1, <3>2 DEF WireOK
      <3> QED
        BY <1>2, <1>4, <3>3 DEF EInv
    <2>4. CASE \E t \in BoundedSeq(Byte, Trailing) : wire' = out \o t
      <3>1. PICK t \in BoundedSeq(Byte, Trailing) : wire' = out \o t
        BY <2>4
      <3>2. t \in Seq(Byte)
        BY <3>1, BoundedIs, ExchangeAssumption
      <3>3. wire' \in Seq(Byte)
        BY <2>1, <3>1, <3>2, ConcatProperties
      <3>4. WireOK'
        BY <1>1, <1>2, <1>3, <3>1, <3>2, <3>3 DEF WireOK
      <3> QED
        BY <1>2, <1>4, <3>4 DEF EInv
    <2> QED
      BY <2>2, <2>3, <2>4
  <1> QED
    BY <1>5, <1>6, <1>7

\* They are decoded.
LEMMA DecodeEInv == EInv /\ Decode => EInv'
  <1> SUFFICES ASSUME EInv, Decode PROVE EInv'
    OBVIOUS
  <1>1. /\ pc = "arrived" /\ pc' = "decoded" /\ answer' = FromSlice(ty, wire, strict)
        /\ wire' = wire /\ strict' = strict /\ UNCHANGED value /\ UNCHANGED writing
    BY DEF Decode
  <1>2. /\ IInv' /\ SampleOK' /\ bytes' = bytes /\ sink' = sink /\ out' = out
        /\ outcome' = outcome /\ origin' = origin /\ ty' = ty
    BY <1>1, WriterKept
  <1>3. WireOK'
    BY <1>1, <1>2 DEF EInv, WireOK
  <1>4. AnswerOK'
    BY <1>1, <1>2 DEF AnswerOK
  <1> QED
    BY <1>2, <1>3, <1>4 DEF EInv

\* The answer is serialized and decoded again.
LEMMA EchoEInv == EInv /\ Echo => EInv'
  <1> SUFFICES ASSUME EInv, Echo PROVE EInv'
    OBVIOUS
  <1>1. /\ pc = "decoded" /\ pc' = "echoed" /\ IsOk(answer) /\ answer.val \in Values[ty]
        /\ wire' = wire /\ strict' = strict /\ answer' = answer
        /\ UNCHANGED value /\ UNCHANGED writing
        /\ answer2' = IF echo'.err = "none" THEN FromSlice(ty, Bytes(echo'), strict) ELSE None
    BY DEF Echo
  <1>2. \E o \in Orders : echo' = Ser[ty][o][answer.val]
    BY DEF Echo
  <1>3. /\ IInv' /\ SampleOK' /\ bytes' = bytes /\ sink' = sink /\ out' = out
        /\ outcome' = outcome /\ origin' = origin /\ ty' = ty
    BY <1>1, WriterKept
  <1>4. WireOK'
    BY <1>1, <1>3 DEF EInv, WireOK
  <1>5. AnswerOK'
    <2>1. answer = FromSlice(ty, wire, strict)
      BY <1>1 DEF EInv, AnswerOK
    <2>2. IsOk(answer')
      BY <1>1
    <2>3. echo'.err = "none" => answer2' = FromSlice(ty', Bytes(echo'), strict')
      BY <1>1, <1>3
    <2> QED
      BY <1>1, <1>2, <1>3, <2>1, <2>2, <2>3 DEF AnswerOK
  <1> QED
    BY <1>3, <1>4, <1>5 DEF EInv

\* Nothing happens.
LEMMA StutterEInv == EInv /\ UNCHANGED vars => EInv'
  <1> SUFFICES ASSUME EInv, UNCHANGED vars PROVE EInv'
    OBVIOUS
  <1>1. /\ UNCHANGED value /\ UNCHANGED writing /\ pc' = pc /\ wire' = wire /\ strict' = strict
        /\ answer' = answer /\ echo' = echo /\ answer2' = answer2
    BY DEF vars, reading
  <1>2. /\ IInv' /\ SampleOK' /\ bytes' = bytes /\ sink' = sink /\ out' = out
        /\ outcome' = outcome /\ origin' = origin /\ ty' = ty
    BY <1>1, WriterKept
  <1>3. WireOK'
    BY <1>1, <1>2 DEF EInv, WireOK
  <1>4. AnswerOK'
    BY <1>1, <1>2 DEF EInv, AnswerOK
  <1> QED
    BY <1>2, <1>3, <1>4 DEF EInv

\* Every step.
LEMMA StepEInv == EInv /\ [Next]_vars => EInv'
  <1>1. EInv /\ Over => EInv'
    BY StutterEInv DEF Over
  <1> QED
    BY <1>1, SerializingEInv, ArriveEInv, DecodeEInv, EchoEInv, StutterEInv DEF Next

\* The strengthened invariant: what has arrived, or been counted, is what the
\* serialization has handed to write_all, buffer by buffer.
THEOREM Invariance == Spec => []EInv
  <1> QED
    BY InitEInv, StepEInv, PTL DEF Spec

\* The sample and the bytes of its encoding, and what from_slice is to answer.
LEMMA SampleCodes ==
    ASSUME EInv, origin = "writer", pc # "write"
    PROVE  /\ out \in Seq(Byte)
           /\ Codes(Dec[ty][strict], out, Readable[ty][val], Received[ty][val])
  <1>1. /\ ty \in Types /\ val \in Values[ty] /\ order \in Orders
        /\ bytes = Bytes(Ser[ty][order][val]) /\ Ser[ty][order][val].err = "none"
        /\ out = bytes /\ strict \in BOOLEAN
    BY DEF EInv, SampleOK, WireOK
  <1>2. Fits(Ser[ty][order][val], Dec[ty][strict], Readable[ty][val], Received[ty][val])
    BY <1>1, CodecFits DEF Good
  <1> QED
    BY <1>1, <1>2, SampleBytes DEF Fits

\* What is read back is what was written, whatever the value, its type, the order in
\* which hash tables iterate and the features of the reader: from_slice(to_vec(v)).
THEOREM ReadsBack == Spec => []RoundTrip
  <1>1. EInv => RoundTrip
    <2> SUFFICES ASSUME EInv, Whole, pc # "arrived"
                 PROVE  IF ~Readable[ty][val] THEN answer.err \in {"Overflow", "ZeroSized"}
                        ELSE IsOk(answer) /\ answer.val = Received[ty][val]
      BY DEF RoundTrip
    <2>1. origin = "writer" /\ pc \in {"decoded", "echoed"} /\ wire = out
      BY DEF Whole, Sent
    <2>2. answer = FromSlice(ty, out, strict)
      BY <2>1 DEF EInv, AnswerOK
    <2> DEFINE ok == Readable[ty][val]
               w == Received[ty][val]
    <2>3. out \in Seq(Byte) /\ Codes(Dec[ty][strict], out, ok, w)
      BY <2>1, SampleCodes
    <2> HIDE DEF ok, w
    <2>4. /\ ok => answer = Got(w, <<>>)
          /\ ~ok => answer.err \in {"Overflow", "ZeroSized"}
      BY <2>2, <2>3, SliceWhole
    <2>5. IF ~ok THEN answer.err \in {"Overflow", "ZeroSized"} ELSE IsOk(answer) /\ answer.val = w
      BY <2>4 DEF IsOk, Got
    <2> QED
      BY <2>5 DEF ok, w
  <1> QED
    BY <1>1, Invariance, PTL

\* An object ends where its bytes say: one that is cut is refused, and of bytes that
\* follow it deserialize takes none.
THEOREM EndsItself == Spec => []SelfDelimiting
  <1>1. EInv => SelfDelimiting
    <2> SUFFICES ASSUME EInv, Sent, pc = "decoded", Readable[ty][val]
                 PROVE  /\ Len(wire) < Len(out) =>
                             answer.err = "UnexpectedLength" \/ (HoldsObjectId[ty] /\ answer.err = "UnexpectedEof")
                        /\ Len(wire) > Len(out) =>
                             /\ answer.err = "NotAllBytesRead"
                             /\ Dec[ty][strict][wire].rest = SubSeq(wire, Len(out) + 1, Len(wire))
      BY DEF SelfDelimiting
    <2>1. /\ origin = "writer" /\ answer = FromSlice(ty, wire, strict)
          /\ \/ \E n \in 0..Len(out) : wire = SubSeq(out, 1, n)
             \/ \E t \in Seq(Byte) : wire = out \o t
      BY DEF Sent, EInv, AnswerOK, WireOK
    <2> DEFINE w == Received[ty][val]
    <2>2. out \in Seq(Byte) /\ Reads(Dec[ty][strict], out, w) /\ Len(out) \in Nat
      BY <2>1, SampleCodes, LenProperties DEF Codes
    <2> HIDE DEF w
    <2>5. CutOrFollowed(ty, strict, out)
      BY <2>2, SliceOther DEF EInv, SampleOK, WireOK
    <2>3. CASE \E n \in 0..Len(out) : wire = SubSeq(out, 1, n)
      <3>1. PICK n \in 0..Len(out) : wire = SubSeq(out, 1, n)
        BY <2>3
      <3>2. Len(wire) = n
        BY <2>2, <3>1, FirstN
      <3>3. ASSUME n < Len(out)
            PROVE  answer.err = "UnexpectedLength" \/ (HoldsObjectId[ty] /\ answer.err = "UnexpectedEof")
        <4>1. n \in 0..Len(out) - 1
          BY <2>2, <3>3
        <4> DEFINE e == FromSlice(ty, SubSeq(out, 1, n), strict).err
        <4>2. e = "UnexpectedLength" \/ (HoldsObjectId[ty] /\ e = "UnexpectedEof")
          BY <2>5, <4>1 DEF CutOrFollowed
        <4> QED
          BY <2>1, <3>1, <4>2
      <3>4. ~(n > Len(out))
        BY <2>2, <3>1
      <3> QED
        BY <3>2, <3>3, <3>4
    <2>4. CASE \E t \in Seq(Byte) : wire = out \o t
      <3>1. PICK t \in Seq(Byte) : wire = out \o t
        BY <2>4
      <3>2. Len(wire) = Len(out) + Len(t) /\ Len(t) \in Nat
        BY <2>2, <3>1, ConcatProperties, LenProperties
      <3>3. ~(Len(wire) < Len(out))
        BY <2>2, <3>2
      <3>4. ASSUME Len(wire) > Len(out)
            PROVE  /\ answer.err = "NotAllBytesRead"
                   /\ Dec[ty][strict][wire].rest = SubSeq(wire, Len(out) + 1, Len(wire))
        <4>1. t # <<>>
          BY <2>2, <3>2, <3>4, EmptySeq
        <4>2. SubSeq(out \o t, Len(out) + 1, Len(out) + Len(t)) = t
          <5>1. SubSeq(out \o t, Len(out) + 1, Len(out \o t)) = t
            BY <2>2, SubSeqOfConcat2
          <5> QED
            BY <3>1, <3>2, <5>1
        <4>3. /\ FromSlice(ty, out \o t, strict).err = "NotAllBytesRead"
              /\ Dec[ty][strict][out \o t].rest = t
          BY <2>5, <4>1 DEF CutOrFollowed
        <4>4. SubSeq(wire, Len(out) + 1, Len(wire)) = t
          BY <3>1, <3>2, <4>2
        <4> QED
          BY <2>1, <3>1, <4>3, <4>4
      <3> QED
        BY <3>3, <3>4
    <2> QED
      BY <2>1, <2>3, <2>4
  <1> QED
    BY <1>1, Invariance, PTL

\* Two processes that hold equal values write equal bytes, whatever the orders in
\* which their hash tables iterate.
THEOREM AllAgree == Spec => []Agreement
  <1>1. EInv => Agreement
    <2> SUFFICES ASSUME EInv, origin = "writer", outcome = "ok", sink # "length", NEW o \in Orders
                 PROVE  Bytes(Ser[ty][o][val]) = out
      BY DEF Agreement
    <2>1. ty \in Types /\ order \in Orders /\ bytes = Bytes(Ser[ty][order][val])
      BY DEF EInv, SampleOK
    <2>2. out = bytes
      BY DEF EInv, IInv, PrefixOnFailure
    <2>3. Ser[ty][o] = Ser[ty][order]
      BY <2>1, OrderFree
    <2> QED
      BY <2>1, <2>2, <2>3
  <1> QED
    BY <1>1, Invariance, PTL

\* What a Vec, a slice or a writer of the user holds in the end is a beginning
\* of the encoding, and all of it after an Ok.
THEOREM AlwaysAPrefix == Spec => []PrefixOnFailure
  <1>1. EInv => PrefixOnFailure
    BY DEF EInv, IInv
  <1> QED
    BY <1>1, Invariance, PTL

\* object_length answers the number of bytes, for every usize::MAX.
THEOREM LengthAlwaysAgrees == Spec => []LengthAgrees
  <1>1. EInv => LengthAgrees
    BY DEF EInv, IInv
  <1> QED
    BY <1>1, Invariance, PTL

\* Every step of every writer is a step of WriteOne: the bytes reach it in their
\* order, none twice, and less than all of them when it gives up.
THEOREM KeepsPromise == Spec => Promise!Spec
  <1>1. Init => Promise!Init
    BY InitPromise DEF Init, InitWriter, InitForeign
  <1>2. EInv /\ EInv' /\ [Next]_vars => [Promise!Next]_Promise!vars
    <2> SUFFICES ASSUME EInv, EInv', [Next]_vars PROVE [Promise!Next]_Promise!vars
      OBVIOUS
    <2>1. [Write]_<<object, writing>>
      BY DEF Next, Serializing, Arrive, Decode, Echo, Over, vars, value
    <2> QED
      BY <2>1, StepPromise DEF EInv
  <1> QED
    BY <1>1, <1>2, Invariance, PTL DEF Spec, Promise!Spec

\* An answer of from_slice is what deserialize gave, and nothing was left.
LEMMA SliceIs ==
    ASSUME NEW T, NEW st, NEW b, IsOk(FromSlice(T, b, st))
    PROVE  /\ Dec[T][st][b].err = "none" /\ Dec[T][st][b].rest = <<>>
           /\ FromSlice(T, b, st) = Got(Dec[T][st][b].val, <<>>)
  <1> DEFINE r == Dec[T][st][b]
  <1>1. FromSlice(T, b, st) = IF r.err = "none" THEN IF r.rest # <<>> THEN Bad("NotAllBytesRead") ELSE Got(r.val, r.rest)
                              ELSE r
    BY DEF FromSlice, AndThen, IsOk
  <1> HIDE DEF r
  <1>2. r.err = "none"
    BY <1>1 DEF IsOk
  <1>3. r.rest = <<>>
    BY <1>1, <1>2 DEF IsOk, Bad
  <1>4. FromSlice(T, b, st) = Got(r.val, <<>>)
    BY <1>1, <1>2, <1>3
  <1> QED
    BY <1>2, <1>3, <1>4 DEF r

\* What from_slice gave is written, with the bytes it was read from if they are the
\* only ones.
LEMMA Settled ==
    ASSUME NEW T \in Types, NEW st \in BOOLEAN, NEW b \in Seq(Byte), NEW o \in Orders,
           NEW x \in Values[T], IsOk(FromSlice(T, b, st)), FromSlice(T, b, st).val = x
    PROVE  /\ Readable[T][x] /\ Received[T][x] = x
           /\ IsEnc(Ser[T][o][x]) /\ Ser[T][o][x].err = "none"
           /\ st /\ ~Indexed[T] => Bytes(Ser[T][o][x]) = b
  <1> DEFINE d == Dec[T][st]
             e == Ser[T][o]
             ok == Readable[T]
             w == Received[T]
  <1>1. d[b].err = "none" /\ d[b].rest = <<>> /\ d[b].val = x
    <2>1. FromSlice(T, b, st) = Got(d[b].val, <<>>)
      BY SliceIs
    <2> QED
      BY <2>1, SliceIs DEF Got
  <1>2. ASSUME NEW cn \in BOOLEAN, cn => st /\ ~Indexed[T]
        PROVE  ok[x] /\ w[x] = x /\ Undone(cn, e[x], b, <<>>)
    <2>1. Back(T, d, e, ok, w, cn)
      BY <1>2, AllSettle DEF Settles
    <2> HIDE DEF d, e, ok, w
    <2>2. BackAt(T, d[b], b, x, e[x], ok[x], w[x], cn)
      BY <1>1, <2>1 DEF Back
    <2>3. Alike(T, x, d[b].val)
      BY <1>1 DEF Alike
    <2> QED
      BY <1>1, <2>2, <2>3 DEF BackAt
  <1>3. ok[x] /\ w[x] = x /\ IsEnc(e[x]) /\ e[x].err = "none"
    <2>1. ok[x] /\ w[x] = x /\ Undone(FALSE, e[x], b, <<>>)
      BY <1>2
    <2> QED
      BY <2>1 DEF Undone
  <1>4. ASSUME st, ~Indexed[T] PROVE Bytes(e[x]) = b
    <2>1. Undone(TRUE, e[x], b, <<>>)
      BY <1>2, <1>4
    <2>2. IsEnc(e[x]) /\ b = Bytes(e[x]) \o <<>>
      BY <2>1 DEF Undone
    <2>3. Bytes(e[x]) \in Seq(Byte)
      BY <2>2, EncBytes
    <2> QED
      BY <2>2, <2>3, ConcatEmptySeq
  <1> QED
    BY <1>3, <1>4

\* What is written for a value that arrives as it is, is read as that value.
LEMMA ReadAgain ==
    ASSUME NEW T \in Types, NEW st \in BOOLEAN, NEW o \in Orders, NEW x \in Values[T],
           Readable[T][x], Received[T][x] = x, Ser[T][o][x].err = "none"
    PROVE  FromSlice(T, Bytes(Ser[T][o][x]), st) = Got(x, <<>>)
  <1> DEFINE ok == Readable[T][x]
             w == Received[T][x]
             e == Ser[T][o][x]
  <1>1. Fits(e, Dec[T][st], ok, w)
    BY CodecFits DEF Good
  <1> HIDE DEF ok, w, e
  <1> DEFINE b == Bytes(e)
  <1>2. Codes(Dec[T][st], b, ok, w) /\ b \in Seq(Byte)
    BY <1>1, EncBytes DEF Fits, e
  <1> HIDE DEF b
  <1>3. ok /\ w = x
    BY DEF ok, w
  <1>4. Dec[T][st][b] = Got(w, <<>>)
    <2>1. <<>> \in Seq(Byte) /\ b \o <<>> = b
      BY <1>2, EmptySeq, ConcatEmptySeq
    <2>2. Reads(Dec[T][st], b, w)
      BY <1>2, <1>3 DEF Codes
    <2> QED
      BY <2>1, <2>2 DEF Reads
  <1>5. FromSlice(T, b, st) = Got(w, <<>>)
    BY <1>4 DEF FromSlice, AndThen, IsOk, Got
  <1> QED
    BY <1>3, <1>5 DEF e, b

\* What was echoed.
LEMMA Echoed ==
    ASSUME EInv, pc = "echoed"
    PROVE  /\ echo.err = "none" /\ IsOk(answer2) /\ answer2.val = answer.val
           /\ FromSlice(ty, Bytes(echo), TRUE) = answer2
           /\ strict /\ ~Indexed[ty] => Bytes(echo) = wire
  <1>1. /\ ty \in Types /\ wire \in Seq(Byte) /\ strict \in BOOLEAN
        /\ answer = FromSlice(ty, wire, strict) /\ IsOk(answer) /\ answer.val \in Values[ty]
        /\ \E o \in Orders : echo = Ser[ty][o][answer.val]
        /\ echo.err = "none" => answer2 = FromSlice(ty, Bytes(echo), strict)
    BY DEF EInv, SampleOK, WireOK, AnswerOK
  <1>2. PICK o \in Orders : echo = Ser[ty][o][answer.val]
    BY <1>1
  <1> DEFINE x == answer.val
  <1>3. /\ Readable[ty][x] /\ Received[ty][x] = x
        /\ IsEnc(Ser[ty][o][x]) /\ Ser[ty][o][x].err = "none"
        /\ strict /\ ~Indexed[ty] => Bytes(Ser[ty][o][x]) = wire
    <2> HIDE DEF x
    <2>1. x \in Values[ty] /\ IsOk(FromSlice(ty, wire, strict)) /\ FromSlice(ty, wire, strict).val = x
      BY <1>1 DEF x
    <2> QED
      BY <1>1, <2>1, Settled
  <1>4. ASSUME NEW st \in BOOLEAN PROVE FromSlice(ty, Bytes(echo), st) = Got(x, <<>>)
    <2> HIDE DEF x
    <2>1. /\ x \in Values[ty] /\ Readable[ty][x] /\ Received[ty][x] = x
          /\ Ser[ty][o][x].err = "none" /\ echo = Ser[ty][o][x]
      BY <1>1, <1>2, <1>3 DEF x
    <2>2. FromSlice(ty, Bytes(Ser[ty][o][x]), st) = Got(x, <<>>)
      BY <1>1, <2>1, ReadAgain
    <2> QED
      BY <2>1, <2>2
  <1>5. echo.err = "none" /\ answer2 = Got(x, <<>>)
    BY <1>1, <1>2, <1>3, <1>4
  <1>6. FromSlice(ty, Bytes(echo), TRUE) = Got(x, <<>>)
    BY <1>4
  <1> QED
    BY <1>2, <1>3, <1>5, <1>6 DEF IsOk, Got

\* What was read, from whatever bytes, is a value that survives every further
\* exchange, with a strict or a lax reader.
THEOREM SurvivesExchange == Spec => []NormalForm
  <1>1. EInv => NormalForm
    BY Echoed DEF NormalForm
  <1> QED
    BY <1>1, Invariance, PTL

\* With de_strict_order the bytes that are accepted are the ones the decoded value
\* is serialized to, whatever the order in which hash tables iterate.
THEOREM OneEncoding == Spec => []Canonical
  <1>1. EInv => Canonical
    BY Echoed DEF Canonical
  <1> QED
    BY <1>1, Invariance, PTL
=============================================================================
