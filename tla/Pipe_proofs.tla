----------------------------- MODULE Pipe_proofs -----------------------------
(***************************************************************************)
(* The pipe, for every buffer size, every number of readers and all        *)
(* lengths of calls: the ring holds the bytes written last, what is read   *)
(* comes in order, bytes are lost in whole buffers only, and the pipe is   *)
(* freed by the last close.  PipeInv is the inductive invariant.               *)
(***************************************************************************)
EXTENDS Pipe, Integers, TLAPS

-----------------------------------------------------------------------------
(* Positions in the ring: % Size of a number that has run past its end once. *)
LEMMA WrapOnce ==
    ASSUME NEW x \in Nat, x < 2 * Size
    PROVE  x % Size = IF x < Size THEN x ELSE x - Size
  <1>1. Size \in Nat \ {0}
    BY PipeAssumption
  <1>2. CASE x < Size
    <2>1. x % Size = x
      BY <1>1, <1>2
    <2> QED
      BY <1>2, <2>1
  <1>3. CASE ~(x < Size)
    <2>1. x % Size = x - Size
      BY <1>1, <1>3
    <2> QED
      BY <1>3, <2>1
  <1> QED
    BY <1>2, <1>3

(* The quotient and the remainder by the buffer size. *)
LEMMA Division ==
    ASSUME NEW x \in Int
    PROVE  x \div Size \in Int /\ x % Size \in 0..(Size - 1) /\ x = Size * (x \div Size) + (x % Size)
  BY PipeAssumption

(* Only zero is a multiple of Size that is smaller than Size. *)
LEMMA SmallMultiple ==
    ASSUME NEW d \in Int, -Size < Size * d, Size * d < Size
    PROVE  d = 0
  <1>1. Size \in Nat \ {0}
    BY PipeAssumption
  <1>2. CASE d >= 1
    <2>1. Size * d >= Size
      BY <1>1, <1>2
    <2> QED
      BY <1>1, <2>1
  <1>3. CASE d <= -1
    <2>1. Size * d <= -Size
      BY <1>1, <1>3
    <2> QED
      BY <1>1, <2>1
  <1> QED
    BY <1>2, <1>3

(* A whole buffer more does not change the remainder. *)
LEMMA WholeBuffer ==
    ASSUME NEW x \in Int
    PROVE  (x + Size) % Size = x % Size
  <1> DEFINE q == x \div Size
             r == x % Size
             p == (x + Size) \div Size
             s == (x + Size) % Size
  <1>1. Size \in Nat \ {0} /\ x + Size \in Int
    BY PipeAssumption
  <1>2. q \in Int /\ r \in 0..(Size - 1) /\ x = Size * q + r
    BY Division
  <1>3. p \in Int /\ s \in 0..(Size - 1) /\ x + Size = Size * p + s
    BY <1>1, Division
  <1> HIDE DEF q, r, p, s
  <1>4. Size * (q + 1 - p) = Size * q + Size - Size * p
    BY <1>1, <1>2, <1>3
  <1>5. Size * (q + 1 - p) = s - r
    BY <1>1, <1>2, <1>3, <1>4
  <1>6. q + 1 - p = 0
    <2>1. q + 1 - p \in Int /\ -Size < Size * (q + 1 - p) /\ Size * (q + 1 - p) < Size
      BY <1>1, <1>2, <1>3, <1>5
    <2> QED
      BY <2>1, SmallMultiple
  <1>7. s = r
    BY <1>1, <1>2, <1>3, <1>5, <1>6
  <1> QED
    BY <1>7 DEF r, s

(* The elements of a sequence. *)
LEMMA ElementsOf ==
    ASSUME NEW S, NEW s \in Seq(S)
    PROVE  Len(s) \in Nat /\ \A i \in 1..Len(s) : s[i] \in S
  OBVIOUS

(* What is appended to a sequence comes behind it, in its order. *)
LEMMA AppendAll ==
    ASSUME NEW S, NEW s \in Seq(S), NEW c \in Nat, NEW f \in [1..c -> S]
    PROVE  /\ s \o f \in Seq(S)
           /\ Len(s \o f) = Len(s) + c
           /\ \A i \in 1..Len(s) : (s \o f)[i] = s[i]
           /\ \A i \in (Len(s) + 1)..(Len(s) + c) : (s \o f)[i] = f[i - Len(s)]
  <1>1. f \in Seq(S) /\ Len(f) = c
    OBVIOUS
  <1> QED
    BY <1>1

-----------------------------------------------------------------------------
(* pipeUsed never reaches Size, so pipeFree is never zero (pipe.c:27-33). *)
LEMMA UsedRange ==
    ASSUME TypeOK
    PROVE  /\ Size \in Nat \ {0} /\ head \in 0..(Size - 1) /\ tail \in 0..(Size - 1)
           /\ pipeUsed \in 0..(Size - 1) /\ pipeFree \in 1..Size /\ pipeFree = Size - pipeUsed
           /\ written \in Nat /\ Len(received) \in Nat
  BY PipeAssumption DEF TypeOK, Positions, pipeUsed, pipeFree

(* The part of the invariant that speaks of the ring and the histories. *)
RingPart == LostInWholeBuffers /\ RingHoldsLastWritten /\ ReceivedInOrder /\ ReadIsBehind

(* What a write of count bytes does to head, tail and their distance. *)
LEMMA WriteMovesHead ==
    ASSUME TypeOK, NEW count \in Nat, count <= pipeFree,
           pipeWriteToBuffer(count), tail' = tail
    PROVE  /\ head' \in Positions
           /\ head' = IF head + count < Size THEN head + count ELSE (head + count) - Size
           /\ pipeUsed' = IF pipeUsed + count = Size THEN 0 ELSE pipeUsed + count
  <1>1. head' = (head + count) % Size
    BY DEF pipeWriteToBuffer
  <1>2. head + count \in Nat /\ head + count < 2 * Size
    BY UsedRange
  <1>3. head' = IF head + count < Size THEN head + count ELSE (head + count) - Size
    <2>1. \A x \in Nat : x < 2 * Size => (x % Size) = IF x < Size THEN x ELSE x - Size
      BY WrapOnce
    <2>2. ((head + count) % Size) = IF head + count < Size THEN head + count ELSE (head + count) - Size
      BY <1>2, <2>1
    <2> QED
      BY <1>1, <2>2
  <1>4. /\ Size \in Nat /\ head \in 0..(Size - 1) /\ tail \in 0..(Size - 1)
        /\ pipeUsed \in 0..(Size - 1) /\ count <= Size - pipeUsed
    BY UsedRange
  <1>5. head' \in Positions
    BY <1>2, <1>3, <1>4 DEF Positions
  <1>6. /\ pipeUsed' = IF head' >= tail THEN head' - tail ELSE Size - (tail - head')
        /\ pipeUsed = IF head >= tail THEN head - tail ELSE Size - (tail - head)
    BY DEF pipeUsed
  <1>7. pipeUsed' = IF pipeUsed + count = Size THEN 0 ELSE pipeUsed + count
    <2>1. CASE head + count < Size
      <3>1. head' = head + count
        BY <1>3, <2>1
      <3>2. CASE head >= tail
        BY <1>4, <1>6, <2>1, <3>1, <3>2
      <3>3. CASE head < tail
        BY <1>4, <1>6, <2>1, <3>1, <3>3
      <3> QED
        BY <1>4, <3>2, <3>3
    <2>2. CASE ~(head + count < Size)
      <3>1. head' = (head + count) - Size
        BY <1>3, <2>2
      <3>2. CASE head >= tail
        BY <1>4, <1>6, <2>2, <3>1, <3>2
      <3>3. CASE head < tail
        BY <1>4, <1>6, <2>2, <3>1, <3>3
      <3> QED
        BY <1>4, <3>2, <3>3
    <2> QED
      BY <2>1, <2>2
  <1> QED
    BY <1>3, <1>5, <1>7

(* The position behind x that has run past the end of the buffer once. *)
Wrap(x) == IF x < Size THEN x ELSE x - Size

RingWithWrap == \A k \in 0..(pipeUsed - 1) :
    buffer[Wrap(tail + k)] = (written - pipeUsed) + 1 + k

(* RingHoldsLastWritten without the remainder. *)
LEMMA RingByWrap == TypeOK => (RingHoldsLastWritten <=> RingWithWrap)
  <1> SUFFICES ASSUME TypeOK PROVE RingHoldsLastWritten <=> RingWithWrap
    OBVIOUS
  <1>1. \A x \in Nat : x < 2 * Size => (x % Size) = Wrap(x)
    BY WrapOnce DEF Wrap
  <1>2. \A k \in 0..(pipeUsed - 1) : tail + k \in Nat /\ tail + k < 2 * Size
    BY UsedRange
  <1>3. \A k \in 0..(pipeUsed - 1) : ((tail + k) % Size) = Wrap(tail + k)
    BY <1>1, <1>2
  <1> QED
    BY <1>3 DEF RingHoldsLastWritten, RingWithWrap

(* What a write puts into the ring, and what it leaves alone. *)
LEMMA WrittenBytes ==
    ASSUME TypeOK, NEW count \in Nat, count <= pipeFree, pipeWriteToBuffer(count)
    PROVE  /\ \A j \in 0..(count - 1) : buffer'[Wrap(head + j)] = written + 1 + j
           /\ \A k \in 0..(pipeUsed - 1) : buffer'[Wrap(tail + k)] = buffer[Wrap(tail + k)]
  <1> DEFINE first == FirstPart(head, count)
  <1>1. /\ Size \in Nat \ {0} /\ head \in 0..(Size - 1) /\ tail \in 0..(Size - 1)
        /\ pipeUsed \in 0..(Size - 1) /\ count <= Size - pipeUsed /\ written \in Nat
    BY UsedRange
  <1>2. first = IF Size - head < count THEN Size - head ELSE count
    BY DEF FirstPart, Smaller
  <1>3. \A i \in 0..(Size - 1) : buffer'[i] =
          IF i >= head /\ i < head + first THEN written + 1 + (i - head)
          ELSE IF i < count - first THEN written + 1 + first + i
          ELSE buffer[i]
    BY DEF pipeWriteToBuffer, Positions
  <1>4. pipeUsed = IF head >= tail THEN head - tail ELSE Size - (tail - head)
    BY DEF pipeUsed
  <1> HIDE DEF first
  <1>5. ASSUME NEW j \in 0..(count - 1)
        PROVE  buffer'[Wrap(head + j)] = written + 1 + j
    <2>1. CASE head + j < Size
      <3>1. Wrap(head + j) = head + j
        BY <2>1 DEF Wrap
      <3>2. head + j \in 0..(Size - 1) /\ head + j >= head /\ head + j < head + first
        BY <1>1, <1>2, <1>5, <2>1
      <3>3. buffer'[head + j] = written + 1 + ((head + j) - head)
        BY <1>3, <3>2
      <3> QED
        BY <1>1, <1>5, <3>1, <3>3
    <2>2. CASE ~(head + j < Size)
      <3>1. Wrap(head + j) = (head + j) - Size
        BY <2>2 DEF Wrap
      <3>2. /\ first = Size - head
            /\ (head + j) - Size \in 0..(Size - 1)
            /\ ~((head + j) - Size >= head)
            /\ (head + j) - Size < count - first
        BY <1>1, <1>2, <1>5, <2>2
      <3>3. buffer'[(head + j) - Size] = written + 1 + first + ((head + j) - Size)
        BY <1>3, <3>2
      <3> QED
        BY <1>1, <1>5, <3>1, <3>2, <3>3
    <2> QED
      BY <2>1, <2>2
  <1>6. ASSUME NEW k \in 0..(pipeUsed - 1)
        PROVE  buffer'[Wrap(tail + k)] = buffer[Wrap(tail + k)]
    <2> DEFINE p == Wrap(tail + k)
    <2>1. p = IF tail + k < Size THEN tail + k ELSE (tail + k) - Size
      BY DEF Wrap
    <2>2. p \in 0..(Size - 1)
      BY <1>1, <1>6, <2>1
    <2> HIDE DEF p
    <2>3. ~(p >= head /\ p < head + first)
      BY <1>1, <1>2, <1>4, <1>6, <2>1
    <2>4. ~(p < count - first)
      BY <1>1, <1>2, <1>4, <1>6, <2>1
    <2>5. buffer'[p] = buffer[p]
      BY <1>3, <2>2, <2>3, <2>4
    <2> QED
      BY <2>5 DEF p
  <1> QED
    BY <1>5, <1>6

(* One pipeWriteToBuffer keeps the types of the ring (pipe.c:35-49). *)
LEMMA WriteTypes ==
    ASSUME TypeOK, NEW count \in Nat, count <= pipeFree, written + count <= MaxBytes,
           pipeWriteToBuffer(count), tail' = tail, received' = received
    PROVE  /\ buffer' \in [Positions -> 0..MaxBytes]
           /\ head' \in Positions /\ tail' \in Positions
           /\ written' \in 0..MaxBytes /\ received' \in Seq(1..MaxBytes)
  <1> DEFINE first == FirstPart(head, count)
  <1>1. /\ Size \in Nat \ {0} /\ head \in 0..(Size - 1) /\ written \in Nat /\ MaxBytes \in Nat
    BY UsedRange, PipeAssumption
  <1>2. first = IF Size - head < count THEN Size - head ELSE count
    BY DEF FirstPart, Smaller
  <1>3. buffer' = [i \in 0..(Size - 1) |->
          IF i >= head /\ i < head + first THEN written + 1 + (i - head)
          ELSE IF i < count - first THEN written + 1 + first + i
          ELSE buffer[i]]
    BY DEF pipeWriteToBuffer, Positions
  <1> HIDE DEF first
  <1>4. ASSUME NEW i \in 0..(Size - 1)
        PROVE  (IF i >= head /\ i < head + first THEN written + 1 + (i - head)
                ELSE IF i < count - first THEN written + 1 + first + i
                ELSE buffer[i]) \in 0..MaxBytes
    <2>1. buffer[i] \in 0..MaxBytes
      BY DEF TypeOK, Positions
    <2> QED
      BY <1>1, <1>2, <2>1
  <1>5. buffer' \in [Positions -> 0..MaxBytes]
    BY <1>3, <1>4 DEF Positions
  <1>6. head' \in Positions
    BY WriteMovesHead
  <1>7. written' \in 0..MaxBytes
    BY <1>1 DEF pipeWriteToBuffer
  <1> QED
    BY <1>5, <1>6, <1>7 DEF TypeOK

(* A write keeps the ring: its bytes follow the ones in the buffer, or fill *)
(* it, and then the buffer counts as empty (pipe.c:27).                     *)
LEMMA WriteKeepsRing ==
    ASSUME TypeOK, TypeOK', RingPart, NEW count \in Nat, count <= pipeFree,
           pipeWriteToBuffer(count), tail' = tail, received' = received
    PROVE  RingPart'
  <1>1. /\ Size \in Nat \ {0} /\ head \in 0..(Size - 1) /\ tail \in 0..(Size - 1)
        /\ pipeUsed \in 0..(Size - 1) /\ count <= Size - pipeUsed /\ written \in Nat
        /\ Len(received) \in Nat
    BY UsedRange
  <1>2. pipeUsed' = IF pipeUsed + count = Size THEN 0 ELSE pipeUsed + count
    BY WriteMovesHead
  <1>3. written' = written + count
    BY DEF pipeWriteToBuffer
  <1>4. pipeUsed = IF head >= tail THEN head - tail ELSE Size - (tail - head)
    BY DEF pipeUsed
  <1>5. LostInWholeBuffers'
    <2> DEFINE x == (written - Len(received)) - pipeUsed
               y == (written' - Len(received)') - pipeUsed'
    <2>1. (x % Size) = 0
      BY DEF RingPart, LostInWholeBuffers
    <2>2. x \in Int
      BY <1>1
    <2>3. CASE pipeUsed + count = Size
      <3>1. y = x + Size
        BY <1>1, <1>2, <1>3, <2>3
      <3>2. ((x + Size) % Size) = (x % Size)
        BY <2>2, WholeBuffer
      <3>3. (y % Size) = 0
        BY <2>1, <3>1, <3>2
      <3> QED
        BY <3>3 DEF LostInWholeBuffers
    <2>4. CASE pipeUsed + count # Size
      <3>1. y = x
        BY <1>1, <1>2, <1>3, <2>4
      <3>2. (y % Size) = 0
        BY <2>1, <3>1
      <3> QED
        BY <3>2 DEF LostInWholeBuffers
    <2> QED
      BY <2>3, <2>4
  <1>6. RingHoldsLastWritten'
    <2>1. ASSUME NEW k \in 0..(pipeUsed' - 1)
          PROVE  buffer'[Wrap(tail + k)] = (written' - pipeUsed') + 1 + k
      <3>1. pipeUsed' = pipeUsed + count /\ k < pipeUsed + count
        BY <1>1, <1>2, <2>1
      <3>2. CASE k < pipeUsed
        <4>1. k \in 0..(pipeUsed - 1)
          BY <1>1, <1>2, <2>1, <3>2
        <4>2. buffer[Wrap(tail + k)] = (written - pipeUsed) + 1 + k
          BY <4>1, RingByWrap DEF RingPart, RingWithWrap
        <4>3. buffer'[Wrap(tail + k)] = buffer[Wrap(tail + k)]
          BY <4>1, WrittenBytes
        <4> QED
          BY <1>1, <1>3, <3>1, <4>2, <4>3
      <3>3. CASE ~(k < pipeUsed)
        <4>1. k - pipeUsed \in 0..(count - 1)
          BY <1>1, <1>2, <2>1, <3>1, <3>3
        <4>2. buffer'[Wrap(head + (k - pipeUsed))] = written + 1 + (k - pipeUsed)
          BY <4>1, WrittenBytes
        <4>3. Wrap(head + (k - pipeUsed)) = Wrap(tail + k)
          BY <1>1, <1>2, <1>4, <2>1, <3>1, <3>3 DEF Wrap
        <4> QED
          BY <1>1, <1>2, <1>3, <2>1, <3>1, <4>2, <4>3
      <3> QED
        BY <3>2, <3>3
    <2>2. RingWithWrap'
      BY <2>1 DEF RingWithWrap, Wrap
    <2>3. TypeOK' => (RingHoldsLastWritten' <=> RingWithWrap')
      BY RingByWrap, PTL
    <2> QED
      BY <2>2, <2>3
  <1>7. ReadIsBehind'
    <2>1. /\ pipeUsed <= written
          /\ \A i \in 1..Len(received) : received[i] <= written - pipeUsed
      BY DEF RingPart, ReadIsBehind
    <2>2. pipeUsed' <= written' /\ written - pipeUsed <= written' - pipeUsed'
      BY <1>1, <1>2, <1>3, <2>1
    <2>3. \A i \in 1..Len(received) : received[i] \in Nat
      <3>1. received \in Seq(1..MaxBytes)
        BY DEF TypeOK
      <3>2. \A i \in 1..Len(received) : received[i] \in 1..MaxBytes
        BY <3>1, ElementsOf
      <3> QED
        BY <3>2, PipeAssumption
    <2>4. ASSUME NEW i \in 1..Len(received)
          PROVE  received[i] <= written' - pipeUsed'
      BY <1>1, <1>2, <1>3, <2>1, <2>2, <2>3
    <2> QED
      BY <2>2, <2>4 DEF ReadIsBehind
  <1>8. ReceivedInOrder'
    BY DEF RingPart, ReceivedInOrder
  <1> QED
    BY <1>5, <1>6, <1>7, <1>8 DEF RingPart

-----------------------------------------------------------------------------
(* What a read of count bytes does to tail and the distance to head. *)
LEMMA ReadMovesTail ==
    ASSUME TypeOK, NEW count \in Nat, count <= pipeUsed,
           pipeReadFromBuffer(count), head' = head
    PROVE  tail' \in Positions /\ tail' = Wrap(tail + count) /\ pipeUsed' = pipeUsed - count
  <1>1. /\ Size \in Nat /\ head \in 0..(Size - 1) /\ tail \in 0..(Size - 1)
        /\ pipeUsed \in 0..(Size - 1)
    BY UsedRange
  <1>2. tail' = ((tail + count) % Size)
    BY DEF pipeReadFromBuffer, Advance
  <1>3. tail + count \in Nat /\ tail + count < 2 * Size
    BY <1>1
  <1>4. \A x \in Nat : x < 2 * Size => (x % Size) = Wrap(x)
    BY WrapOnce DEF Wrap
  <1>5. tail' = Wrap(tail + count)
    BY <1>2, <1>3, <1>4
  <1>6. tail' = IF tail + count < Size THEN tail + count ELSE (tail + count) - Size
    BY <1>5 DEF Wrap
  <1>7. /\ pipeUsed' = IF head >= tail' THEN head - tail' ELSE Size - (tail' - head)
        /\ pipeUsed = IF head >= tail THEN head - tail ELSE Size - (tail - head)
    BY DEF pipeUsed
  <1>8. pipeUsed' = pipeUsed - count
    <2>1. CASE head >= tail
      <3>1. tail' = tail + count
        BY <1>1, <1>6, <1>7, <2>1
      <3> QED
        BY <1>1, <1>7, <2>1, <3>1
    <2>2. CASE ~(head >= tail)
      <3>1. CASE tail + count < Size
        BY <1>1, <1>6, <1>7, <2>2, <3>1
      <3>2. CASE ~(tail + count < Size)
        BY <1>1, <1>6, <1>7, <2>2, <3>2
      <3> QED
        BY <3>1, <3>2
    <2> QED
      BY <2>1, <2>2
  <1>9. tail' \in Positions
    BY <1>1, <1>3, <1>6 DEF Positions
  <1> QED
    BY <1>5, <1>8, <1>9

(* What a read takes out: the oldest bytes of the ring, in order. *)
LEMMA TakenBytes ==
    ASSUME TypeOK, RingPart, NEW count \in Nat, count <= pipeUsed
    PROVE  LET f == Taken(FirstPart(tail, count), count) IN
           /\ f \in [1..count -> 1..MaxBytes]
           /\ \A k \in 1..count : f[k] = (written - pipeUsed) + k
  <1> DEFINE first == FirstPart(tail, count)
             f == Taken(first, count)
  <1>1. /\ Size \in Nat /\ head \in 0..(Size - 1) /\ tail \in 0..(Size - 1)
        /\ pipeUsed \in 0..(Size - 1) /\ written \in 0..MaxBytes /\ MaxBytes \in Nat
        /\ pipeUsed <= written
    BY UsedRange, PipeAssumption DEF TypeOK, RingPart, ReadIsBehind
  <1>2. first = IF Size - tail < count THEN Size - tail ELSE count
    BY DEF FirstPart, Smaller
  <1>3. f = [k \in 1..count |->
                IF k <= first THEN buffer[(tail + k) - 1] ELSE buffer[(k - first) - 1]]
    <2>1. \A k \in 1..count : tail + (k - 1) = (tail + k) - 1
      BY <1>1
    <2> QED
      BY <2>1 DEF Taken
  <1>4. RingWithWrap
    BY RingByWrap DEF RingPart
  <1> HIDE DEF first
  <1>5. ASSUME NEW k \in 1..count
        PROVE  f[k] = (written - pipeUsed) + k
    <2>1. k - 1 \in 0..(pipeUsed - 1)
      BY <1>1
    <2>2. buffer[Wrap(tail + (k - 1))] = (written - pipeUsed) + 1 + (k - 1)
      BY <1>4, <2>1 DEF RingWithWrap
    <2>3. f[k] = buffer[Wrap(tail + (k - 1))]
      <3>1. CASE k <= first
        <4>1. f[k] = buffer[(tail + k) - 1]
          BY <1>3, <3>1
        <4>2. Wrap(tail + (k - 1)) = (tail + k) - 1
          BY <1>1, <1>2, <3>1 DEF Wrap
        <4> QED
          BY <4>1, <4>2
      <3>2. CASE ~(k <= first)
        <4>1. f[k] = buffer[(k - first) - 1]
          BY <1>3, <3>2
        <4>2. Wrap(tail + (k - 1)) = (k - first) - 1
          BY <1>1, <1>2, <3>2 DEF Wrap
        <4> QED
          BY <4>1, <4>2
      <3> QED
        BY <3>1, <3>2
    <2> QED
      BY <1>1, <2>2, <2>3
  <1>6. \A k \in 1..count : (written - pipeUsed) + k \in 1..MaxBytes
    BY <1>1
  <1>7. f = [k \in 1..count |-> f[k]]
    BY <1>3
  <1> HIDE DEF f
  <1>8. f \in [1..count -> 1..MaxBytes]
    BY <1>5, <1>6, <1>7
  <1> QED
    BY <1>5, <1>8 DEF f, first

(* A read keeps the ring, and what it adds to what was read is younger. *)
LEMMA ReadKeepsRing ==
    ASSUME TypeOK, RingPart, NEW count \in Nat, count <= pipeUsed,
           pipeReadFromBuffer(count), buffer' = buffer, head' = head, written' = written
    PROVE  received' \in Seq(1..MaxBytes) /\ (TypeOK' => RingPart')
  <1> DEFINE f == Taken(FirstPart(tail, count), count)
             n == Len(received)
  <1>1. /\ Size \in Nat \ {0} /\ head \in 0..(Size - 1) /\ tail \in 0..(Size - 1)
        /\ pipeUsed \in 0..(Size - 1) /\ written \in Nat /\ n \in Nat /\ pipeUsed <= written
    BY UsedRange DEF RingPart, ReadIsBehind
  <1>2. tail' = Wrap(tail + count) /\ pipeUsed' = pipeUsed - count
    BY ReadMovesTail
  <1>3. f \in [1..count -> 1..MaxBytes] /\ \A k \in 1..count : f[k] = (written - pipeUsed) + k
    BY TakenBytes
  <1>4. received' = received \o f /\ received \in Seq(1..MaxBytes)
    BY DEF pipeReadFromBuffer, TypeOK
  <1> HIDE DEF f
  <1>5. /\ received' \in Seq(1..MaxBytes)
        /\ Len(received') = n + count
        /\ \A i \in 1..n : received'[i] = received[i]
        /\ \A i \in (n + 1)..(n + count) : received'[i] = f[i - n]
    <2> DEFINE S == 1..MaxBytes
    <2>1. f \in [1..count -> S] /\ received \in Seq(S) /\ received' = received \o f
      BY <1>3, <1>4
    <2> HIDE DEF S
    <2>2. /\ received \o f \in Seq(S)
          /\ Len(received \o f) = Len(received) + count
          /\ \A i \in 1..Len(received) : (received \o f)[i] = received[i]
          /\ \A i \in (Len(received) + 1)..(Len(received) + count) :
                (received \o f)[i] = f[i - Len(received)]
      BY <2>1, AppendAll
    <2> QED
      BY <2>1, <2>2 DEF S
  <1>6. \A i \in (n + 1)..(n + count) : received'[i] = (written - pipeUsed) + (i - n)
    <2>1. \A i \in (n + 1)..(n + count) : i - n \in 1..count
      BY <1>1
    <2> QED
      BY <1>3, <1>5, <2>1
  <1>7. \A i \in 1..n : received[i] \in Nat /\ received[i] <= written - pipeUsed
    <2>1. \A i \in 1..n : received[i] \in 1..MaxBytes
      BY <1>4, ElementsOf
    <2>2. \A i \in 1..n : received[i] <= written - pipeUsed
      BY DEF RingPart, ReadIsBehind
    <2> QED
      BY <2>1, <2>2, PipeAssumption
  <1>8. LostInWholeBuffers'
    <2>1. (written' - Len(received')) - pipeUsed' = (written - n) - pipeUsed
      BY <1>1, <1>2, <1>5
    <2>2. (((written - n) - pipeUsed) % Size) = 0
      BY DEF RingPart, LostInWholeBuffers
    <2> QED
      BY <2>1, <2>2 DEF LostInWholeBuffers
  <1>9. RingWithWrap'
    <2>1. ASSUME NEW k \in 0..(pipeUsed' - 1)
          PROVE  buffer[Wrap(tail' + k)] = (written' - pipeUsed') + 1 + k
      <3>1. k + count \in 0..(pipeUsed - 1)
        BY <1>1, <1>2
      <3>2. buffer[Wrap(tail + (k + count))] = (written - pipeUsed) + 1 + (k + count)
        BY <3>1, RingByWrap DEF RingPart, RingWithWrap
      <3>3. Wrap(tail' + k) = Wrap(tail + (k + count))
        BY <1>1, <1>2, <3>1 DEF Wrap
      <3> QED
        BY <1>1, <1>2, <3>1, <3>2, <3>3
    <2> QED
      BY <2>1 DEF RingWithWrap, Wrap
  <1>10. TypeOK' => (RingHoldsLastWritten' <=> RingWithWrap')
    BY RingByWrap, PTL
  <1>11. ReadIsBehind'
    <2>1. ASSUME NEW i \in 1..(n + count)
          PROVE  received'[i] <= written' - pipeUsed'
      <3>1. CASE i <= n
        BY <1>1, <1>2, <1>5, <1>7, <3>1
      <3>2. CASE ~(i <= n)
        <4>1. i \in (n + 1)..(n + count)
          BY <1>1, <3>2
        <4>2. received'[i] = (written - pipeUsed) + (i - n)
          BY <1>6, <4>1
        <4> QED
          BY <1>1, <1>2, <4>1, <4>2
      <3> QED
        BY <3>1, <3>2
    <2>2. pipeUsed' <= written'
      BY <1>1, <1>2
    <2> QED
      BY <1>5, <2>1, <2>2 DEF ReadIsBehind
  <1>12. ReceivedInOrder'
    <2>1. \A i \in 1..(n - 1) : received[i] < received[i + 1]
      BY DEF RingPart, ReceivedInOrder
    <2>2. ASSUME NEW i \in 1..((n + count) - 1)
          PROVE  received'[i] < received'[i + 1]
      <3>1. CASE i < n
        <4>1. i \in 1..(n - 1) /\ i \in 1..n /\ i + 1 \in 1..n
          BY <1>1, <3>1
        <4> QED
          BY <1>5, <2>1, <4>1
      <3>2. CASE i = n
        <4>1. i \in 1..n /\ i + 1 \in (n + 1)..(n + count)
          BY <1>1, <3>2
        <4>2. /\ received'[i] \in Nat /\ received'[i] <= written - pipeUsed
              /\ received'[i + 1] = (written - pipeUsed) + ((i + 1) - n)
          BY <1>5, <1>6, <1>7, <4>1
        <4> QED
          BY <1>1, <3>2, <4>2
      <3>3. CASE i > n
        <4>1. i \in (n + 1)..(n + count) /\ i + 1 \in (n + 1)..(n + count)
          BY <1>1, <3>3
        <4>2. /\ received'[i] = (written - pipeUsed) + (i - n)
              /\ received'[i + 1] = (written - pipeUsed) + ((i + 1) - n)
          BY <1>6, <4>1
        <4> QED
          BY <1>1, <4>1, <4>2
      <3> QED
        BY <1>1, <3>1, <3>2, <3>3
    <2> QED
      BY <1>5, <2>2 DEF ReceivedInOrder
  <1> QED
    BY <1>5, <1>8, <1>9, <1>10, <1>11, <1>12 DEF RingPart

(* A step that leaves the ring and the histories alone. *)
LEMMA RingAlone ==
    ASSUME RingPart, UNCHANGED <<ring, written, received>>
    PROVE  RingPart'
  BY DEF RingPart, LostInWholeBuffers, RingHoldsLastWritten, ReceivedInOrder, ReadIsBehind,
         ring, pipeUsed

-----------------------------------------------------------------------------
(* The types of the ring and of the rest, which few steps change together. *)
RingTypes ==
    /\ buffer \in [Positions -> 0..MaxBytes]
    /\ head \in Positions /\ tail \in Positions
    /\ written \in 0..MaxBytes
    /\ received \in Seq(1..MaxBytes)

CallTypes ==
    /\ pc \in [Threads -> {"idle", "loop", "wait", "signal"}]
    /\ remaining \in [Threads -> 0..MaxCount]

CloseTypes ==
    /\ lock \in Ends \cup {None}
    /\ refCount \in 0..2
    /\ closed \subseteq Ends
    /\ closing \in [Ends -> {"open", "closing", "last", "closed"}]

FlagTypes ==
    /\ event \in [{"canRead", "canWrite"} -> BOOLEAN]
    /\ freed \in BOOLEAN
    /\ hung \in BOOLEAN /\ fault \in BOOLEAN
    /\ cut \subseteq Threads /\ passed \subseteq Readers

(* TypeOK in its four parts. *)
LEMMA TypeParts == TypeOK <=> RingTypes /\ CallTypes /\ CloseTypes /\ FlagTypes
  BY DEF TypeOK, RingTypes, CallTypes, CloseTypes, FlagTypes

(* PipeInv in its parts. *)
LEMMA InvParts ==
    PipeInv <=> /\ RingTypes /\ CallTypes /\ CloseTypes /\ FlagTypes
                /\ RingPart /\ WritesWithinBound /\ CloseProtocol
  BY TypeParts DEF PipeInv, RingInv, RingPart

(* A step that leaves the ring and the histories alone keeps what is said of *)
(* them.                                                                      *)
LEMMA OtherParts ==
    ASSUME PipeInv, UNCHANGED <<ring, written, received>>,
           CallTypes', CloseTypes', FlagTypes', WritesWithinBound', CloseProtocol'
    PROVE  PipeInv'
  <1>1. RingTypes /\ RingPart
    BY InvParts
  <1>2. RingTypes' /\ RingPart'
    BY <1>1, RingAlone DEF RingTypes, ring, Positions
  <1>3. PipeInv' <=> /\ RingTypes' /\ CallTypes' /\ CloseTypes' /\ FlagTypes'
                     /\ RingPart' /\ WritesWithinBound' /\ CloseProtocol'
    BY InvParts, PTL
  <1> QED
    BY <1>2, <1>3

(* A call begins on an end that is open. *)
LEMMA CallStep ==
    ASSUME PipeInv, NEW t \in Threads, NEW count \in 1..MaxCount, Call(t, count)
    PROVE  PipeInv'
  <1>1. CallTypes /\ CloseTypes /\ FlagTypes /\ WritesWithinBound /\ CloseProtocol
    BY InvParts
  <1>2. UNCHANGED <<ring, written, received>>
    BY DEF Call
  <1>3. CloseTypes'
    BY <1>1 DEF CloseTypes, Call
  <1>4. FlagTypes'
    BY <1>1 DEF FlagTypes, Call
  <1>5. CallTypes'
    BY <1>1, PipeAssumption DEF CallTypes, Call, Goto
  <1>6. WritesWithinBound'
    BY <1>1, PipeAssumption DEF WritesWithinBound, CallTypes, Call, Goto, Threads
  <1>7. CloseProtocol'
    BY <1>1 DEF CloseProtocol, CallTypes, FlagTypes, Call, Running, Goto, Counted, EndOf, Ends
  <1> QED
    BY <1>2, <1>3, <1>4, <1>5, <1>6, <1>7, OtherParts

(* A thread spins for p->lock. *)
LEMMA SpinStep ==
    ASSUME PipeInv, Spin
    PROVE  PipeInv'
  <1>1. CallTypes /\ CloseTypes /\ FlagTypes /\ WritesWithinBound /\ CloseProtocol
    BY InvParts
  <1>2. UNCHANGED <<ring, written, received>>
    BY DEF Spin
  <1>3. CloseTypes' /\ CallTypes' /\ WritesWithinBound'
    BY <1>1 DEF CloseTypes, CallTypes, WritesWithinBound, Spin, callVars
  <1>4. FlagTypes'
    BY <1>1 DEF FlagTypes, Spin, notes
  <1>5. CloseProtocol'
    BY <1>1 DEF CloseProtocol, Spin, callVars, notes, Counted
  <1> QED
    BY <1>2, <1>3, <1>4, <1>5, OtherParts

(* A thread leaves its wait, or signals and ends its call. *)
LEMMA WaitStep ==
    ASSUME PipeInv, NEW t \in Threads, Wait(t) \/ Signal(t)
    PROVE  PipeInv'
  <1>1. CallTypes /\ CloseTypes /\ FlagTypes /\ WritesWithinBound /\ CloseProtocol
    BY InvParts
  <1>2. UNCHANGED <<ring, written, received, lock, refCount, closed, freed, remaining, closing, hung, fault, cut>>
    BY DEF Wait, Signal, notes
  <1>3. pc[t] # "idle" /\ ~fault /\ \E l \in {"idle", "loop"} : pc' = [pc EXCEPT ![t] = l]
    BY DEF Wait, Signal, Goto, Inside, Running
  <1>4. PICK l \in {"idle", "loop"} : pc' = [pc EXCEPT ![t] = l]
    BY <1>3
  <1>5. \E e \in {"canRead", "canWrite"}, b \in BOOLEAN : event' = [event EXCEPT ![e] = b]
    BY DEF Wait, Signal, EventOf, OtherEvent, SignalOther
  <1>6. CloseTypes' /\ CallTypes'
    BY <1>1, <1>2, <1>4 DEF CloseTypes, CallTypes
  <1>7. FlagTypes'
    <2>1. passed' \subseteq Readers
      BY <1>1 DEF FlagTypes, Wait, Signal, notes
    <2> QED
      BY <1>1, <1>2, <1>5, <2>1 DEF FlagTypes
  <1>8. WritesWithinBound'
    BY <1>1, <1>2, <1>3, <1>4 DEF WritesWithinBound, CallTypes, Threads
  <1>9. CloseProtocol'
    BY <1>1, <1>2, <1>3, <1>4 DEF CloseProtocol, CallTypes, Counted, EndOf, Ends
  <1> QED
    BY <1>2, <1>6, <1>7, <1>8, <1>9, OtherParts

(* A call goes on in a freed pipe: it was cut by the close of its end. *)
LEMMA TouchStep ==
    ASSUME PipeInv, NEW t \in Threads, Touch(t)
    PROVE  PipeInv'
  <1>1. CallTypes /\ CloseTypes /\ FlagTypes /\ WritesWithinBound /\ CloseProtocol
    BY InvParts
  <1>2. UNCHANGED <<ring, lock, refCount, closed, event, freed, callVars, closing, hung, cut, passed, written, received>>
    BY DEF Touch, notes
  <1>3. CloseTypes' /\ CallTypes' /\ WritesWithinBound'
    BY <1>1, <1>2 DEF CloseTypes, CallTypes, WritesWithinBound, callVars
  <1>4. FlagTypes'
    BY <1>1, <1>2 DEF FlagTypes, Touch
  <1>5. EndOf(t) \in Ends /\ freed /\ pc[t] # "idle"
    BY DEF EndOf, Ends, Touch
  <1>6. t \in cut
    BY <1>1, <1>5 DEF CloseProtocol
  <1>7. CloseProtocol'
    BY <1>1, <1>2, <1>5, <1>6 DEF CloseProtocol, callVars, Counted
  <1> QED
    BY <1>2, <1>3, <1>4, <1>7, OtherParts

(* An end begins to be closed. *)
LEMMA CloseStep ==
    ASSUME PipeInv, NEW e \in Ends, pipeCloseFile(e)
    PROVE  PipeInv'
  <1>1. CallTypes /\ CloseTypes /\ FlagTypes /\ WritesWithinBound /\ CloseProtocol
    BY InvParts
  <1>2. CASE Spin
    BY <1>2, SpinStep
  <1>3. CASE ~Spin
    <2>1. /\ closing[e] = "open"
          /\ cut' = cut \cup {t \in Threads : EndOf(t) = e /\ pc[t] # "idle"}
          /\ lock = None
          /\ ~fault
          /\ closed' = closed \cup {e}
          /\ lock' = e
          /\ closing' = [closing EXCEPT ![e] = "closing"]
          /\ UNCHANGED <<ring, refCount, freed, callVars, hung, fault, passed, written, received>>
      BY <1>3 DEF pipeCloseFile, Running
    <2>2. event' = [event EXCEPT ![IF e = "write" THEN "canRead" ELSE "canWrite"] = TRUE]
      BY <1>3 DEF pipeCloseFile
    <2>3. CloseTypes' /\ CallTypes' /\ WritesWithinBound'
      BY <1>1, <2>1 DEF CloseTypes, CallTypes, WritesWithinBound, callVars
    <2>4. FlagTypes'
      BY <1>1, <2>1, <2>2 DEF FlagTypes
    <2>5. CloseProtocol'
      BY <1>1, <2>1, PipeAssumption DEF CloseProtocol, CloseTypes, Ends, callVars, Counted
    <2> QED
      BY <2>1, <2>3, <2>4, <2>5, OtherParts
  <1> QED
    BY <1>2, <1>3

(* It counts down and unlocks; who is the last frees. *)
LEMMA CountDownStep ==
    ASSUME PipeInv, NEW e \in Ends, CountDown(e)
    PROVE  PipeInv'
  <1>1. CallTypes /\ CloseTypes /\ FlagTypes /\ WritesWithinBound /\ CloseProtocol
    BY InvParts
  <1>2. UNCHANGED <<ring, closed, event, freed, callVars, hung, fault, cut, passed, written, received>>
    BY DEF CountDown, notes
  <1>3. CallTypes' /\ WritesWithinBound'
    BY <1>1, <1>2 DEF CallTypes, WritesWithinBound, callVars
  <1>4. FlagTypes'
    BY <1>1, <1>2 DEF FlagTypes
  <1>5. CloseTypes'
    BY <1>1 DEF CloseTypes, CloseProtocol, Counted, Ends, CountDown, IsLast
  <1>6. CloseProtocol'
    BY <1>1, <1>2, PipeAssumption DEF CloseProtocol, CloseTypes, Ends, callVars, Counted, CountDown, IsLast
  <1> QED
    BY <1>2, <1>3, <1>4, <1>5, <1>6, OtherParts

(* Only the end that counted down to zero frees. *)
LEMMA FreeStep ==
    ASSUME PipeInv, NEW e \in Ends, Free(e)
    PROVE  PipeInv'
  <1>1. CallTypes /\ CloseTypes /\ FlagTypes /\ WritesWithinBound /\ CloseProtocol
    BY InvParts
  <1>2. UNCHANGED <<ring, lock, refCount, closed, event, callVars, hung, fault, cut, passed, written, received>>
    BY DEF Free, notes
  <1>3. CallTypes' /\ WritesWithinBound'
    BY <1>1, <1>2 DEF CallTypes, WritesWithinBound, callVars
  <1>4. FlagTypes'
    BY <1>1, <1>2 DEF FlagTypes, Free
  <1>5. CloseTypes'
    BY <1>1, <1>2 DEF CloseTypes, Free
  <1>6. CloseProtocol'
    BY <1>1, <1>2 DEF CloseProtocol, CloseTypes, Ends, callVars, Counted, Free
  <1> QED
    BY <1>2, <1>3, <1>4, <1>5, <1>6, OtherParts

(* One turn of pipeWriteFile: nothing is written to a closed pipe, and what is *)
(* written fits (pipe.c:79-109).                                                *)
LEMMA WriteStep ==
    ASSUME PipeInv, pipeWriteFile
    PROVE  PipeInv'
  <1>1. /\ RingTypes /\ CallTypes /\ CloseTypes /\ FlagTypes /\ RingPart
        /\ WritesWithinBound /\ CloseProtocol /\ TypeOK
    BY InvParts, TypeParts
  <1>2. Writer \in Threads /\ pc[Writer] = "loop" /\ ~fault
    BY DEF Threads, pipeWriteFile, Inside, Running
  <1>3. CASE Spin
    BY <1>3, SpinStep
  <1>4. CASE ~Spin /\ closed # {}
    <2>1. /\ pc' = [pc EXCEPT ![Writer] = "idle"]
          /\ UNCHANGED <<ring, remaining, written, lock, refCount, closed, freed, closing, hung, fault, cut, passed, received>>
          /\ UNCHANGED event
      BY <1>4 DEF pipeWriteFile, Goto, notes
    <2>2. CloseTypes' /\ CallTypes' /\ WritesWithinBound'
      BY <1>1, <1>2, <2>1 DEF CloseTypes, CallTypes, WritesWithinBound
    <2>3. FlagTypes'
      BY <1>1, <2>1 DEF FlagTypes
    <2>4. CloseProtocol'
      BY <1>1, <1>2, <2>1 DEF CloseProtocol, CallTypes, Counted, EndOf, Ends
    <2> QED
      BY <2>1, <2>2, <2>3, <2>4, OtherParts
  <1>5. CASE ~Spin /\ closed = {}
    <2> DEFINE count == WithinFree(remaining[Writer])
    <2>1. /\ pipeWriteToBuffer(count)
          /\ remaining' = [remaining EXCEPT ![Writer] = @ - WithinFree(@)]
          /\ \E l \in {"wait", "signal"} : pc' = [pc EXCEPT ![Writer] = l]
          /\ UNCHANGED <<tail, lock, refCount, closed, freed, closing, hung, fault, cut, passed, received>>
          /\ UNCHANGED event
      BY <1>5 DEF pipeWriteFile, Goto, notes
    <2>2. remaining[Writer] \in 0..MaxCount /\ MaxCount \in Nat /\ MaxBytes \in Nat
      BY <1>1, <1>2, PipeAssumption DEF CallTypes
    <2>3. pipeFree \in Nat /\ written \in Nat
      BY <1>1, UsedRange
    <2>4. count \in Nat /\ count <= pipeFree /\ count <= remaining[Writer]
      BY <2>2, <2>3 DEF WithinFree, Smaller
    <2>5. written + remaining[Writer] <= MaxBytes
      BY <1>1, <1>2 DEF WritesWithinBound
    <2>6. remaining' = [remaining EXCEPT ![Writer] = remaining[Writer] - count]
      BY <2>1
    <2> HIDE DEF count
    <2>7. written + count <= MaxBytes
      BY <2>2, <2>3, <2>4, <2>5
    <2>8. RingTypes'
      BY <1>1, <2>1, <2>4, <2>7, WriteTypes DEF RingTypes
    <2>9. remaining[Writer] - count \in 0..MaxCount
      BY <2>2, <2>4
    <2>10. CallTypes'
      BY <1>1, <1>2, <2>1, <2>6, <2>9 DEF CallTypes
    <2>11. CloseTypes'
      BY <1>1, <2>1 DEF CloseTypes
    <2>12. FlagTypes'
      BY <1>1, <2>1 DEF FlagTypes
    <2>13. TypeOK' <=> RingTypes' /\ CallTypes' /\ CloseTypes' /\ FlagTypes'
      BY TypeParts, PTL
    <2>14. TypeOK'
      BY <2>8, <2>10, <2>11, <2>12, <2>13
    <2>15. RingPart'
      BY <1>1, <2>1, <2>4, <2>14, WriteKeepsRing
    <2>16. WritesWithinBound'
      <3>1. written' = written + count
        BY <2>1 DEF pipeWriteToBuffer
      <3>2. remaining'[Writer] = remaining[Writer] - count
        BY <1>1, <1>2, <2>6 DEF CallTypes
      <3> QED
        BY <2>2, <2>3, <2>4, <2>5, <3>1, <3>2 DEF WritesWithinBound
    <2>17. CloseProtocol'
      BY <1>1, <1>2, <2>1 DEF CloseProtocol, CallTypes, Counted, EndOf, Ends
    <2>18. PipeInv' <=> /\ RingTypes' /\ CallTypes' /\ CloseTypes' /\ FlagTypes'
                        /\ RingPart' /\ WritesWithinBound' /\ CloseProtocol'
      BY InvParts, PTL
    <2> QED
      BY <2>8, <2>10, <2>11, <2>12, <2>15, <2>16, <2>17, <2>18
  <1> QED
    BY <1>3, <1>4, <1>5

(* One turn of pipeReadFile (pipe.c:126-163). *)
LEMMA ReadStep ==
    ASSUME PipeInv, NEW t \in Readers, pipeReadFile(t)
    PROVE  PipeInv'
  <1>1. /\ RingTypes /\ CallTypes /\ CloseTypes /\ FlagTypes /\ RingPart
        /\ WritesWithinBound /\ CloseProtocol /\ TypeOK
    BY InvParts, TypeParts
  <1>2. t \in Threads /\ t # Writer /\ pc[t] = "loop" /\ ~fault
    BY PipeAssumption DEF Threads, pipeReadFile, Inside, Running
  <1>3. CASE Spin
    BY <1>3, SpinStep
  <1>4. CASE ~Spin /\ (pipeUsed = 0 \/ "read" \in closed)
    <2>1. /\ \E l \in {"idle", "wait"} : pc' = [pc EXCEPT ![t] = l]
          /\ UNCHANGED <<ring, remaining, written, lock, refCount, closed, freed, closing, hung, fault, cut, passed, received>>
          /\ UNCHANGED event
      <3>1. ~(pipeUsed > 0 /\ "read" \notin closed)
        BY <1>1, <1>4, UsedRange
      <3> QED
        BY <1>4, <3>1 DEF pipeReadFile, Goto, notes
    <2>2. CloseTypes' /\ CallTypes' /\ WritesWithinBound'
      BY <1>1, <1>2, <2>1 DEF CloseTypes, CallTypes, WritesWithinBound
    <2>3. FlagTypes'
      BY <1>1, <2>1 DEF FlagTypes
    <2>4. CloseProtocol'
      BY <1>1, <1>2, <2>1 DEF CloseProtocol, CallTypes, Counted, EndOf, Ends
    <2> QED
      BY <2>1, <2>2, <2>3, <2>4, OtherParts
  <1>5. CASE ~Spin /\ ~(pipeUsed = 0 \/ "read" \in closed)
    <2> DEFINE count == Smaller(remaining[t], pipeUsed)
    <2>1. /\ pipeReadFromBuffer(count)
          /\ remaining' = [remaining EXCEPT ![t] = 0]
          /\ pc' = [pc EXCEPT ![t] = "signal"]
          /\ UNCHANGED <<buffer, head, lock, refCount, closed, freed, closing, hung, fault, cut, passed, written>>
          /\ UNCHANGED event
      BY <1>5 DEF pipeReadFile, Goto, notes
    <2>2. remaining[t] \in 0..MaxCount /\ MaxCount \in Nat
      BY <1>1, <1>2, PipeAssumption DEF CallTypes
    <2>3. pipeUsed \in Nat
      BY <1>1, UsedRange
    <2>4. count \in Nat /\ count <= pipeUsed
      BY <2>2, <2>3 DEF Smaller
    <2> HIDE DEF count
    <2>5. tail' \in Positions /\ received' \in Seq(1..MaxBytes)
      BY <1>1, <2>1, <2>4, ReadMovesTail, ReadKeepsRing
    <2>6. RingTypes'
      BY <1>1, <2>1, <2>5 DEF RingTypes, Positions
    <2>7. CallTypes'
      BY <1>1, <1>2, <2>1, <2>2 DEF CallTypes
    <2>8. CloseTypes'
      BY <1>1, <2>1 DEF CloseTypes
    <2>9. FlagTypes'
      BY <1>1, <2>1 DEF FlagTypes
    <2>10. TypeOK' <=> RingTypes' /\ CallTypes' /\ CloseTypes' /\ FlagTypes'
      BY TypeParts, PTL
    <2>11. RingPart'
      BY <1>1, <2>1, <2>4, <2>6, <2>7, <2>8, <2>9, <2>10, ReadKeepsRing
    <2>12. WritesWithinBound'
      BY <1>1, <1>2, <2>1 DEF WritesWithinBound, CallTypes
    <2>13. CloseProtocol'
      BY <1>1, <1>2, <2>1 DEF CloseProtocol, CallTypes, Counted, EndOf, Ends
    <2>14. PipeInv' <=> /\ RingTypes' /\ CallTypes' /\ CloseTypes' /\ FlagTypes'
                        /\ RingPart' /\ WritesWithinBound' /\ CloseProtocol'
      BY InvParts, PTL
    <2> QED
      BY <2>6, <2>7, <2>8, <2>9, <2>11, <2>12, <2>13, <2>14
  <1> QED
    BY <1>3, <1>4, <1>5

-----------------------------------------------------------------------------
(* xtCreatePipe makes a pipe with the invariant. *)
LEMMA InitPipeInv == Init => PipeInv
  <1> SUFFICES ASSUME Init PROVE PipeInv
    OBVIOUS
  <1>1. Size \in Nat \ {0} /\ MaxBytes \in Nat /\ MaxCount \in Nat
    BY PipeAssumption
  <1>2. head = 0 /\ tail = 0 /\ written = 0 /\ received = <<>> /\ pipeUsed = 0 /\ Len(received) = 0
    BY DEF Init, pipeUsed
  <1>3. RingTypes
    <2>1. received \in Seq(1..MaxBytes)
      BY <1>2
    <2> QED
      BY <1>1, <1>2, <2>1 DEF Init, RingTypes, Positions
  <1>4. CallTypes
    BY <1>1 DEF Init, CallTypes
  <1>5. CloseTypes
    BY DEF Init, CloseTypes
  <1>6. FlagTypes
    BY DEF Init, FlagTypes
  <1>7. LostInWholeBuffers
    <2> DEFINE n == Len(received)
    <2>1. written = 0 /\ n = 0 /\ pipeUsed = 0
      BY <1>2
    <2> HIDE DEF n
    <2>3. (written - n) - pipeUsed = 0
      BY <2>1
    <2>2. (0 % Size) = 0
      BY <1>1
    <2> QED
      BY <2>2, <2>3 DEF LostInWholeBuffers, n
  <1>8. RingHoldsLastWritten /\ ReceivedInOrder /\ ReadIsBehind
    BY <1>2 DEF RingHoldsLastWritten, ReceivedInOrder, ReadIsBehind
  <1>9. WritesWithinBound
    BY DEF Init, WritesWithinBound, Threads
  <1>10. CloseProtocol
    BY PipeAssumption DEF Init, CloseProtocol, Ends, Counted, EndOf
  <1> QED
    BY <1>3, <1>4, <1>5, <1>6, <1>7, <1>8, <1>9, <1>10, InvParts DEF RingPart

(* Every step keeps it. *)
LEMMA NextPipeInv == PipeInv /\ [Next]_vars => PipeInv'
  <1> SUFFICES ASSUME PipeInv, [Next]_vars PROVE PipeInv'
    OBVIOUS
  <1>1. ASSUME NEW t \in Threads, Step(t) PROVE PipeInv'
    <2>1. CASE t = Writer /\ pipeWriteFile
      BY <2>1, WriteStep
    <2>2. CASE t # Writer /\ pipeReadFile(t)
      <3>1. t \in Readers
        BY <2>2 DEF Threads
      <3> QED
        BY <2>2, <3>1, ReadStep
    <2>3. CASE Wait(t) \/ Signal(t)
      BY <2>3, WaitStep
    <2>4. CASE Touch(t)
      BY <2>4, TouchStep
    <2> QED
      BY <1>1, <2>1, <2>2, <2>3, <2>4 DEF Step
  <1>2. ASSUME NEW t \in Threads, NEW count \in 1..MaxCount, Call(t, count) PROVE PipeInv'
    BY <1>2, CallStep
  <1>3. ASSUME NEW e \in Ends, pipeCloseFile(e) \/ CountDown(e) \/ Free(e) PROVE PipeInv'
    BY <1>3, CloseStep, CountDownStep, FreeStep
  <1>4. CASE UNCHANGED vars
    <2>1. CallTypes /\ CloseTypes /\ FlagTypes /\ WritesWithinBound /\ CloseProtocol
      BY InvParts
    <2>2. UNCHANGED <<ring, written, received>>
      BY <1>4 DEF vars
    <2>3. CallTypes' /\ CloseTypes' /\ WritesWithinBound'
      BY <1>4, <2>1 DEF vars, CallTypes, CloseTypes, WritesWithinBound, callVars
    <2>4. FlagTypes'
      BY <1>4, <2>1 DEF vars, notes, FlagTypes
    <2>5. CloseProtocol'
      BY <1>4, <2>1 DEF vars, notes, CloseProtocol, callVars, Counted
    <2> QED
      BY <2>2, <2>3, <2>4, <2>5, OtherParts
  <1> QED
    BY <1>1, <1>2, <1>3, <1>4 DEF Next

(***************************************************************************)
(* The ring of a pipe, for every buffer size and all lengths of calls: it  *)
(* holds the bytes written last, in order and across the wrap-around, and  *)
(* what is missing between the ends was lost in whole buffers.             *)
(***************************************************************************)
THEOREM RingIsSound == Spec => []RingInv
  <1>1. PipeInv => RingInv
    BY DEF PipeInv
  <1> QED
    BY <1>1, InitPipeInv, NextPipeInv, PTL DEF Spec

(***************************************************************************)
(* However many readers share a pipe, what they read comes in the order in *)
(* which it was written, and nothing twice (pipe.c:126-163).                *)
(***************************************************************************)
THEOREM ReadsInOrder == Spec => []ReceivedInOrder
  <1>1. PipeInv => ReceivedInOrder
    BY DEF PipeInv
  <1> QED
    BY <1>1, InitPipeInv, NextPipeInv, PTL DEF Spec

(***************************************************************************)
(* However many readers there are and wherever closes and calls preempt    *)
(* each other, the pipe is freed by the close of the second end only, and  *)
(* the calls that are still inside it then, or touch it later, were in     *)
(* progress when their own end was closed (pipe.c:170-196).                *)
(***************************************************************************)
THEOREM PipeFreedLast == Spec => []FreedUnderCutCallsOnly
  <1>1. PipeInv => FreedUnderCutCallsOnly
    <2> SUFFICES ASSUME PipeInv PROVE FreedUnderCutCallsOnly
      OBVIOUS
    <2>1. freed => \A e \in Ends : closing[e] = "closed"
      BY DEF PipeInv, CloseProtocol
    <2>2. \A t \in Threads : EndOf(t) \in Ends
      BY DEF EndOf, Ends
    <2>3. freed => \A t \in Threads : pc[t] # "idle" => t \in cut
      BY <2>1, <2>2 DEF PipeInv, CloseProtocol
    <2>4. fault => \E t \in cut : pc[t] # "idle"
      BY DEF PipeInv, CloseProtocol
    <2> QED
      BY <2>1, <2>3, <2>4 DEF FreedUnderCutCallsOnly
  <1> QED
    BY <1>1, InitPipeInv, NextPipeInv, PTL DEF Spec

(***************************************************************************)
(* pipeWriteFile never waits: pipeFree is Size when the buffer is full, so *)
(* the test at pipe.c:88 is never true, and a writer that outruns the      *)
(* reader overwrites what has not been read.                               *)
(***************************************************************************)
THEOREM WriterNeverWaits == Spec => [](pc[Writer] # "wait")
  <1> DEFINE NeverWaits == pc[Writer] # "wait"
  <1>1. Init => NeverWaits
    BY DEF Init, Threads
  <1>2. PipeInv /\ NeverWaits /\ [Next]_vars => NeverWaits'
    <2> SUFFICES ASSUME PipeInv, NeverWaits, [Next]_vars PROVE NeverWaits'
      OBVIOUS
    <2>1. pipeFree # 0
      BY UsedRange DEF PipeInv, RingInv
    <2>2. pc \in [Threads -> {"idle", "loop", "wait", "signal"}] /\ Writer \in Threads
      BY DEF PipeInv, RingInv, TypeOK, Threads
    <2>3. CASE pipeWriteFile
      BY <2>1, <2>2, <2>3 DEF pipeWriteFile, Spin, callVars, Goto
    <2>4. ASSUME NEW t \in Readers, pipeReadFile(t) PROVE NeverWaits'
      BY <2>2, <2>4, PipeAssumption DEF pipeReadFile, Spin, callVars, Goto
    <2>5. ASSUME NEW t \in Threads, Wait(t) \/ Signal(t) \/ Touch(t) PROVE NeverWaits'
      BY <2>2, <2>5 DEF Wait, Signal, Touch, Goto, callVars
    <2>6. ASSUME NEW t \in Threads, NEW count \in 1..MaxCount, Call(t, count) PROVE NeverWaits'
      BY <2>2, <2>6 DEF Call, Goto
    <2>7. ASSUME NEW e \in Ends, pipeCloseFile(e) \/ CountDown(e) \/ Free(e) PROVE NeverWaits'
      BY <2>2, <2>7 DEF pipeCloseFile, CountDown, Free, Spin, callVars
    <2>8. CASE UNCHANGED vars
      BY <2>8 DEF vars, callVars
    <2> QED
      BY <2>3, <2>4, <2>5, <2>6, <2>7, <2>8 DEF Next, Step, Threads
  <1> QED
    BY <1>1, <1>2, InitPipeInv, NextPipeInv, PTL DEF Spec
=============================================================================
