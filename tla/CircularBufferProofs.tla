------------------------ MODULE CircularBufferProofs ------------------------
(***************************************************************************)
(* CircularBuffer implements DropOldest, for every capacity and whatever    *)
(* the bytes.                                                               *)
(***************************************************************************)
EXTENDS CircularBuffer, SequenceTheorems, TLAPS

\* An index below Size is its own remainder.
LEMMA ModBelow == ASSUME NEW x \in 0 .. Size - 1 PROVE x % Size = x
BY SizeAssumption

\* An index that has passed the end of the array once starts again from 0.
LEMMA ModAbove == ASSUME NEW x \in Size .. 2 * Size - 1 PROVE x % Size = x - Size
BY SizeAssumption

\* An index that has gone round at most once.
LEMMA ModOnce ==
  ASSUME NEW x \in 0 .. 2 * Size - 1
  PROVE  /\ x < Size => x % Size = x
         /\ x >= Size => x % Size = x - Size
         /\ x % Size \in Slot
<1>1. CASE x < Size
  BY <1>1, ModBelow, SizeAssumption DEF Slot
<1>2. CASE x >= Size
  BY <1>2, ModAbove, SizeAssumption DEF Slot
<1> QED
  BY <1>1, <1>2, SizeAssumption

----------------------------------------------------------------------------
(* Type correctness.                                                       *)

\* currentSize() is the number of bytes held, between 0 and Size.
LEMMA SizeOfHeld ==
  ASSUME TypeOK
  PROVE  /\ currentSize \in 0 .. Size
         /\ currentSize = 0 <=> empty
         /\ ~empty => currentSize = Available
BY SizeAssumption DEF TypeOK, currentSize, Available, Slot

\* What get() computes as available is all that a buffer that is not empty holds.
LEMMA AvailableCases ==
  ASSUME TypeOK
  PROVE  /\ head > tail => Available = head - tail
         /\ head <= tail => Available = head + Size - tail
BY SizeAssumption DEF TypeOK, Available, Slot

\* Reading from tail on returns bytes, however the two copies are cut.
LEMMA ReadIsASeq ==
  ASSUME TypeOK, NEW n \in 0 .. Size
  PROVE  /\ Read(n) \in Seq(Byte)
         /\ Len(Read(n)) = n
         /\ \A i \in 1 .. n : Read(n)[i] = IF tail + i - 1 < Size THEN buffer[tail + i - 1]
                                           ELSE buffer[tail + i - 1 - Size]
<1>1. n \in Nat
  BY SizeAssumption
<1>2. \A i \in 1 .. n : Read(n)[i] \in Byte
  BY SizeAssumption DEF TypeOK, Read, Slot
<1>3. Read(n) \in Seq(Byte)
  BY <1>1, <1>2 DEF Read
<1> QED
  BY <1>1, <1>3 DEF Read

\* Truncation leaves at most Size bytes of the input.
LEMMA TruncatedIsASeq ==
  ASSUME NEW values \in Seq(Byte)
  PROVE  /\ Truncated(values) \in Seq(Byte)
         /\ Len(Truncated(values)) \in 0 .. Size
         /\ values # << >> => Len(Truncated(values)) > 0
         /\ Len(values) > Size => Len(Truncated(values)) = Size
         /\ Len(values) > Size =>
              \A i \in 1 .. Size : Truncated(values)[i] = values[i + Len(values) - Size]
         /\ Len(values) <= Size => Truncated(values) = values
<1>1. CASE Len(values) > Size
  <2>1. \A i \in Len(values) - Size + 1 .. Len(values) : values[i] \in Byte
    BY <1>1, SizeAssumption
  <2>2. /\ Truncated(values) \in Seq(Byte)
        /\ Len(Truncated(values)) = Size
        /\ \A i \in 1 .. Size : Truncated(values)[i] = values[i + Len(values) - Size]
    BY <1>1, <2>1, SizeAssumption, SubSeqProperties DEF Truncated
  <2> QED
    BY <1>1, <2>2, SizeAssumption
<1>2. CASE Len(values) <= Size
  BY <1>2, SizeAssumption, EmptySeq DEF Truncated
<1> QED
  BY <1>1, <1>2, SizeAssumption

\* put() keeps the indices inside the array.
LEMMA PutType ==
  ASSUME TypeOK, NEW t \in Seq(Byte), Len(t) \in 1 .. Size, PutValues(t)
  PROVE  TypeOK'
<1> DEFINE L == Len(t)
<1>1. head + L \in 0 .. 2 * Size - 1 /\ PushedTail(head + L) \in 0 .. 2 * Size - 1
  BY SizeAssumption DEF TypeOK, PushedTail, Slot
<1>2. head' \in Slot /\ tail' \in Slot
  BY <1>1, ModOnce DEF PutValues
<1>3. buffer' \in [Slot -> Byte]
  <2>1. \A i \in Slot : Written(t)[i] \in Byte
    BY SizeAssumption DEF TypeOK, Written, Slot
  <2> QED
    BY <2>1 DEF PutValues, Written
<1> QED
  BY <1>2, <1>3 DEF PutValues, TypeOK

\* get() keeps the indices inside the array, and empties only a buffer it has read to the end.
LEMMA GetType ==
  ASSUME TypeOK, NEW length \in Nat, Get(length)
  PROVE  TypeOK'
<1>1. CASE empty
  BY <1>1 DEF Get, TypeOK
<1>2. CASE ~empty
  <2> DEFINE n == IF length >= Available THEN Available ELSE length
  <2>0. Available \in 1 .. Size
    <3>1. Available \in 0 .. Size /\ Available # 0
      BY <1>2, SizeOfHeld
    <3> QED
      BY <3>1, SizeAssumption
  <2>1. Available \in 1 .. Size /\ n \in 0 .. Size
    <3>1. CASE length >= Available
      BY <2>0, <3>1, SizeAssumption
    <3>2. CASE ~(length >= Available)
      BY <2>0, <3>2, SizeAssumption
    <3> QED
      BY <2>0, <3>1, <3>2
  <2>2. /\ got' = Read(n) /\ tail' = (tail + n) % Size /\ empty' = (length >= Available)
        /\ UNCHANGED <<buffer, head>>
    BY <1>2 DEF Get, GetSome
  <2>3. empty' => n = Available
    BY <2>2
  <2> HIDE DEF n
  <2>4. tail + n \in 0 .. 2 * Size - 1
    BY <2>1, SizeAssumption DEF TypeOK, Slot
  <2>5. /\ tail + n < Size => tail' = tail + n
        /\ tail + n >= Size => tail' = tail + n - Size
        /\ tail' \in Slot
    <3> DEFINE x == tail + n
    <3>1. x \in 0 .. 2 * Size - 1 /\ tail' = x % Size
      BY <2>2, <2>4
    <3> HIDE DEF x
    <3>2. /\ x < Size => tail' = x
          /\ x >= Size => tail' = x - Size
          /\ tail' \in Slot
      BY <3>1, ModOnce
    <3> QED
      BY <2>1, <3>2, SizeAssumption DEF x, TypeOK, Slot
  <2>6. empty' => head' = tail'
    <3>1. Available = n => IF head > tail THEN n = head - tail ELSE n = head + Size - tail
      BY AvailableCases, SizeAssumption DEF TypeOK, Slot
    <3>2. head' = head
      BY <2>2
    <3> QED
      BY <2>1, <2>3, <2>5, <3>1, <3>2, SizeAssumption DEF TypeOK, Slot
  <2>7. got' \in Seq(Byte)
    BY <2>1, <2>2, ReadIsASeq
  <2> QED
    BY <2>2, <2>5, <2>6, <2>7 DEF TypeOK
<1> QED
  BY <1>1, <1>2

\* Every operation preserves the type invariant.
LEMMA TypeStep == TypeOK /\ [Next]_vars => TypeOK'
<1> SUFFICES ASSUME TypeOK, [Next]_vars PROVE TypeOK'
  OBVIOUS
<1>1. ASSUME NEW n \in 0 .. MaxPut, NEW values \in [1 .. n -> Byte], Put(values)
      PROVE  TypeOK'
  <2>1. CASE values = << >>
    BY <1>1, <2>1 DEF Put, vars, TypeOK
  <2>2. CASE values # << >>
    <3>1. values \in Seq(Byte)
      BY BoundAssumption
    <3>2. /\ Truncated(values) \in Seq(Byte)
          /\ Len(Truncated(values)) \in 0 .. Size /\ Len(Truncated(values)) > 0
      BY <2>2, <3>1, TruncatedIsASeq
    <3>3. Len(Truncated(values)) \in 1 .. Size
      BY <3>2, SizeAssumption
    <3> QED
      BY <1>1, <2>2, <3>2, <3>3, PutType DEF Put
  <2> QED
    BY <2>1, <2>2
<1>2. ASSUME NEW length \in 0 .. MaxGet, Get(length)
      PROVE  TypeOK'
  BY <1>2, BoundAssumption, GetType
<1>3. CASE GetOne
  <2>1. CASE empty
    BY <1>3, <2>1 DEF GetOne, TypeOK
  <2>2. CASE ~empty
    <3>0. tail + 1 \in 0 .. 2 * Size - 1
      BY SizeAssumption DEF TypeOK, Slot
    <3>a. (tail + 1) % Size \in Slot
      BY <3>0, ModOnce
    <3>b. buffer[tail] \in Byte
      BY DEF TypeOK
    <3>1. tail' \in Slot /\ got' \in Seq(Byte) /\ UNCHANGED <<buffer, head>>
      <4>1. tail' = (tail + 1) % Size /\ got' = <<buffer[tail]>> /\ UNCHANGED <<buffer, head>>
        BY <1>3, <2>2 DEF GetOne
      <4> QED
        BY <3>a, <3>b, <4>1
    <3>2. empty' \in BOOLEAN /\ (empty' => head' = tail')
      BY <1>3, <2>2 DEF GetOne
    <3> QED
      BY <3>1, <3>2 DEF TypeOK
  <2> QED
    BY <2>1, <2>2
<1>4. CASE UNCHANGED vars
  BY <1>4 DEF vars, TypeOK
<1> QED
  BY <1>1, <1>2, <1>3, <1>4 DEF Next

\* The indices never leave the array.
THEOREM TypeCorrect == Spec => []TypeOK
<1>1. Init => TypeOK
  BY SizeAssumption DEF Init, TypeOK, Slot
<1> QED
  BY <1>1, TypeStep, PTL DEF Spec

----------------------------------------------------------------------------
(* The refinement of DropOldest.                                           *)

\* What the buffer holds is a sequence of bytes.
LEMMA HeldIsASeq ==
  ASSUME TypeOK
  PROVE  /\ Held \in Seq(Byte)
         /\ Len(Held) = currentSize
         /\ \A i \in 1 .. currentSize : Held[i] = IF tail + i - 1 < Size THEN buffer[tail + i - 1]
                                                  ELSE buffer[tail + i - 1 - Size]
BY SizeOfHeld, ReadIsASeq DEF Held

\* Where put() leaves the indices and how many bytes are then held.
LEMMA PutIndices ==
  ASSUME TypeOK, NEW t \in Seq(Byte), Len(t) \in 1 .. Size, PutValues(t)
  PROVE  /\ head + Len(t) < Size => head' = head + Len(t)
         /\ head + Len(t) >= Size => head' = head + Len(t) - Size
         /\ currentSize + Len(t) <= Size => tail' = tail /\ currentSize' = currentSize + Len(t)
         /\ currentSize + Len(t) > Size => tail' = head' /\ currentSize' = Size
<1> DEFINE L == Len(t)
           h == head + L
           p == PushedTail(h)
<1>0. currentSize \in 0 .. Size
  BY SizeOfHeld
<1>1. L \in 1 .. Size /\ head \in 0 .. Size - 1 /\ tail \in 0 .. Size - 1 /\ Size \in Nat \ {0}
  BY SizeAssumption DEF TypeOK, Slot
<1>2. head' = h % Size /\ tail' = p % Size /\ empty' = FALSE
  BY DEF PutValues
<1>3. /\ empty => head = tail /\ currentSize = 0
      /\ ~empty => currentSize = IF head > tail THEN head - tail ELSE head + Size - tail
  BY DEF TypeOK, currentSize
<1>4. /\ currentSize + L <= Size => p = IF tail >= head THEN tail ELSE tail + Size
      /\ currentSize + L > Size => p = h
  BY <1>1, <1>3 DEF PushedTail
<1>5. h \in 0 .. 2 * Size - 1 /\ p \in 0 .. 2 * Size - 1
  BY <1>1 DEF PushedTail
<1> HIDE DEF L, h, p
<1>6. /\ h < Size => head' = h
      /\ h >= Size => head' = h - Size
      /\ p < Size => tail' = p
      /\ p >= Size => tail' = p - Size
  BY <1>2, <1>5, ModOnce
<1>7. currentSize' = IF head' > tail' THEN head' - tail' ELSE head' + Size - tail'
  BY <1>2 DEF currentSize
<1>8. h = head + L
  BY DEF h
<1>9. head' = IF h < Size THEN h ELSE h - Size
  BY <1>1, <1>5, <1>6
<1>10. CASE currentSize + L <= Size
  <2>1. tail' = tail
    BY <1>1, <1>4, <1>6, <1>10
  <2>2. currentSize' = currentSize + L
    BY <1>1, <1>3, <1>7, <1>8, <1>9, <1>10, <2>1
  <2> QED
    BY <1>8, <1>9, <1>10, <2>1, <2>2, <1>1 DEF L
<1>11. CASE currentSize + L > Size
  <2>1. tail' = head'
    BY <1>1, <1>4, <1>5, <1>6, <1>11
  <2>2. currentSize' = Size
    BY <1>1, <1>7, <1>5, <1>9, <2>1
  <2> QED
    BY <1>0, <1>1, <1>8, <1>9, <1>11, <2>1, <2>2 DEF L
<1> QED
  BY <1>0, <1>1, <1>10, <1>11

\* The slot of the i-th byte held, or to be held behind a full buffer.
SlotOf(i) ==
  IF tail + i - 1 < Size THEN tail + i - 1
  ELSE IF tail + i - 1 < 2 * Size THEN tail + i - 1 - Size
  ELSE tail + i - 1 - 2 * Size

\* The j-th byte put lands behind those held, and what is held and not passed
\* over stays where it is.
LEMMA PutBytes ==
  ASSUME TypeOK, NEW t \in Seq(Byte), Len(t) \in 1 .. Size, PutValues(t),
         NEW i \in 1 .. 2 * Size
  PROVE  /\ i > currentSize /\ i - currentSize <= Len(t) => buffer'[SlotOf(i)] = t[i - currentSize]
         /\ i <= currentSize /\ i > currentSize + Len(t) - Size => buffer'[SlotOf(i)] = buffer[SlotOf(i)]
<1> DEFINE L == Len(t)
           s == SlotOf(i)
<1>1. /\ L \in 1 .. Size /\ head \in 0 .. Size - 1 /\ tail \in 0 .. Size - 1
      /\ Size \in Nat \ {0} /\ currentSize \in 0 .. Size
  BY SizeOfHeld, SizeAssumption DEF TypeOK, Slot
<1>2. s \in 0 .. Size - 1
  BY <1>1 DEF SlotOf
<1>3. buffer'[s] = IF s >= head /\ s < head + L THEN t[s - head + 1]
                   ELSE IF s < head + L - Size THEN t[s + Size - head + 1]
                   ELSE buffer[s]
  BY <1>2 DEF PutValues, Written, Slot
<1>4. /\ empty => head = tail /\ currentSize = 0
      /\ ~empty => currentSize = IF head > tail THEN head - tail ELSE head + Size - tail
  BY DEF TypeOK, currentSize
<1>5. s = IF tail + i - 1 < Size THEN tail + i - 1
          ELSE IF tail + i - 1 < 2 * Size THEN tail + i - 1 - Size
          ELSE tail + i - 1 - 2 * Size
  BY DEF SlotOf
<1> HIDE DEF L, s
<1>6. ASSUME i > currentSize, i - currentSize <= L
      PROVE  buffer'[s] = t[i - currentSize]
  <2>1. CASE s >= head /\ s < head + L
    <3>1. s - head + 1 = i - currentSize
      BY <1>1, <1>4, <1>5, <1>6, <2>1
    <3> QED
      BY <1>3, <2>1, <3>1
  <2>2. CASE ~(s >= head /\ s < head + L)
    <3>1. s < head + L - Size /\ s + Size - head + 1 = i - currentSize
      BY <1>1, <1>2, <1>4, <1>5, <1>6, <2>2
    <3> QED
      BY <1>3, <2>2, <3>1
  <2> QED
    BY <2>1, <2>2
<1>7. ASSUME i <= currentSize, i > currentSize + L - Size
      PROVE  buffer'[s] = buffer[s]
  <2>1. ~(s >= head /\ s < head + L) /\ ~(s < head + L - Size)
    BY <1>1, <1>2, <1>4, <1>5, <1>7
  <2> QED
    BY <1>3, <2>1
<1> QED
  BY <1>6, <1>7 DEF L, s

\* The i-th byte held is the i-th slot from tail on, round the end of the array.
LEMMA HeldBytes ==
  TypeOK => /\ Held \in Seq(Byte)
            /\ Len(Held) = currentSize
            /\ \A i \in 1 .. currentSize : Held[i] = buffer[SlotOf(i)]
BY HeldIsASeq, SizeOfHeld, SizeAssumption DEF SlotOf, TypeOK, Slot

\* The same after a step.
LEMMA HeldPrimed ==
  ASSUME TypeOK'
  PROVE  /\ Held' \in Seq(Byte)
         /\ Len(Held') = currentSize'
         /\ \A i \in 1 .. currentSize' : Held'[i] = buffer'[SlotOf(i)']
<1>1. currentSize' \in Nat /\ currentSize' <= Size
  BY SizeAssumption DEF TypeOK, currentSize, Slot
<1>2. Held' = [i \in 1 .. currentSize' |->
                 IF tail' + i - 1 < Size THEN buffer'[tail' + i - 1]
                 ELSE buffer'[tail' + i - 1 - Size]]
  BY DEF Held, Read
<1>3. \A i \in 1 .. currentSize' : Held'[i] \in Byte /\ Held'[i] = buffer'[SlotOf(i)']
  BY <1>1, <1>2, SizeAssumption DEF TypeOK, SlotOf, Slot
<1> QED
  BY <1>1, <1>2, <1>3

\* put() appends, and drops the oldest bytes that no longer fit.
LEMMA PutHeld ==
  ASSUME TypeOK, TypeOK', NEW t \in Seq(Byte), Len(t) \in 1 .. Size, PutValues(t)
  PROVE  Held' = D!Newest(Held \o t)
<1> DEFINE c == currentSize
           L == Len(t)
           q == Held \o t
           d == IF c + L > Size THEN c + L - Size ELSE 0
<1>0. /\ c + L > Size => d = c + L - Size
      /\ c + L <= Size => d = 0
  BY SizeOfHeld, SizeAssumption
<1>1. c \in 0 .. Size /\ L \in 1 .. Size /\ Size \in Nat \ {0} /\ d \in 0 .. Size
  BY <1>0, SizeOfHeld, SizeAssumption
<1>2. /\ q \in Seq(Byte) /\ Len(q) = c + L
      /\ \A i \in 1 .. c + L : q[i] = IF i <= c THEN Held[i] ELSE t[i - c]
  <2>1. Held \in Seq(Byte) /\ Len(Held) = c
    BY HeldIsASeq
  <2>2. /\ q \in Seq(Byte) /\ Len(q) = Len(Held) + Len(t)
        /\ \A i \in 1 .. Len(Held) + Len(t) :
             q[i] = IF i <= Len(Held) THEN Held[i] ELSE t[i - Len(Held)]
    BY <2>1, ConcatProperties, Zenon
  <2> QED
    BY <2>1, <2>2
<1> HIDE DEF d, q
<1>3. /\ D!Newest(q) \in Seq(Byte) /\ Len(D!Newest(q)) = c + L - d
      /\ \A i \in 1 .. c + L - d : D!Newest(q)[i] = q[i + d]
  <2>1. CASE c + L > Size
    <3> DEFINE m == c + L - Size + 1
               n == c + L
    <3>1. m \in Int /\ n \in Int /\ m <= n /\ \A i \in m .. n : q[i] \in Byte
      BY <1>1, <1>2, <2>1, ElementOfSeq
    <3>2. D!Newest(q) = SubSeq(q, m, n)
      BY <1>1, <1>2, <2>1 DEF D!Newest
    <3>3. m = d + 1 /\ n - m + 1 = c + L - d
      BY <1>0, <1>1, <2>1
    <3> HIDE DEF m, n
    <3>4. /\ D!Newest(q) \in Seq(Byte) /\ Len(D!Newest(q)) = n - m + 1
          /\ \A i \in 1 .. n - m + 1 : D!Newest(q)[i] = q[m + i - 1]
      BY <3>1, <3>2, SubSeqProperties
    <3>5. \A i \in 1 .. c + L - d : m + i - 1 = i + d
      BY <1>1, <3>3
    <3> QED
      BY <3>3, <3>4, <3>5
  <2>2. CASE c + L <= Size
    <3>1. D!Newest(q) = q
      BY <1>1, <1>2, <2>2 DEF D!Newest
    <3> QED
      BY <1>0, <1>1, <1>2, <2>2, <3>1
  <2> QED
    BY <1>1, <2>1, <2>2
<1>4. /\ Held' \in Seq(Byte) /\ Len(Held') = currentSize'
      /\ \A i \in 1 .. currentSize' : Held'[i] = buffer'[SlotOf(i)']
  BY HeldPrimed
<1>a. /\ head + L < Size => head' = head + L
      /\ head + L >= Size => head' = head + L - Size
      /\ c + L <= Size => tail' = tail /\ currentSize' = c + L
      /\ c + L > Size => tail' = head' /\ currentSize' = Size
  BY PutIndices
<1>b. /\ head \in 0 .. Size - 1 /\ tail \in 0 .. Size - 1
      /\ c + L > Size => c = IF head > tail THEN head - tail ELSE head + Size - tail
  <2>1. ~empty => c = IF head > tail THEN head - tail ELSE head + Size - tail
    BY DEF currentSize
  <2>2. empty => c = 0
    BY DEF currentSize
  <2> QED
    BY <1>1, <2>1, <2>2 DEF TypeOK, Slot
<1>5. currentSize' = c + L - d
  BY <1>0, <1>1, <1>a
<1>6. ASSUME NEW i \in 1 .. c + L - d
      PROVE  Held'[i] = q[i + d]
  <2>1. Held'[i] = buffer'[SlotOf(i)']
    BY <1>4, <1>5
  <2>2. SlotOf(i)' = SlotOf(i + d)
    BY <1>0, <1>1, <1>a, <1>b DEF SlotOf
  <2>3. buffer'[SlotOf(i + d)] = q[i + d]
    <3> DEFINE k == i + d
    <3>1. /\ k \in 1 .. 2 * Size /\ k \in 1 .. c + L /\ k > c + L - Size
          /\ k > c => k - c <= L
      BY <1>0, <1>1
    <3> HIDE DEF k
    <3>2. CASE k > c
      <4>1. buffer'[SlotOf(k)] = t[k - c]
        BY <3>1, <3>2, PutBytes
      <4> QED
        BY <1>1, <1>2, <3>1, <3>2, <4>1 DEF k
    <3>3. CASE k <= c
      <4>1. buffer'[SlotOf(k)] = buffer[SlotOf(k)]
        BY <3>1, <3>3, PutBytes
      <4>2. Held[k] = buffer[SlotOf(k)]
        BY <1>1, <3>1, <3>3, HeldBytes
      <4> QED
        BY <1>1, <1>2, <3>1, <3>3, <4>1, <4>2 DEF k
    <3> QED
      BY <1>1, <3>1, <3>2, <3>3 DEF k
  <2> QED
    BY <2>1, <2>2, <2>3
<1>7. Held' = D!Newest(q)
  <2>1. \A i \in 1 .. Len(Held') : Held'[i] = D!Newest(q)[i]
    BY <1>3, <1>4, <1>5, <1>6
  <2> QED
    BY <1>3, <1>4, <1>5, <2>1, SeqEqual
<1> QED
  BY <1>7 DEF q

\* Dropping the front of a long input changes nothing: it would be dropped anyway.
LEMMA TruncationInvisible ==
  ASSUME NEW q \in Seq(Byte), Len(q) <= Size, NEW values \in Seq(Byte)
  PROVE  D!Newest(q \o Truncated(values)) = D!Newest(q \o values)
<1>1. CASE Len(values) <= Size
  BY <1>1, TruncatedIsASeq
<1>2. CASE Len(values) > Size
  <2> DEFINE t == Truncated(values)
             a == q \o t
             b == q \o values
             la == Len(q) + Size
             lb == Len(q) + Len(values)
  <2>1. /\ t \in Seq(Byte) /\ Len(t) = Size
        /\ \A i \in 1 .. Size : t[i] = values[i + Len(values) - Size]
    BY <1>2, TruncatedIsASeq
  <2>2. /\ a \in Seq(Byte) /\ Len(a) = la
        /\ \A i \in 1 .. la : a[i] = IF i <= Len(q) THEN q[i] ELSE t[i - Len(q)]
    BY <2>1, ConcatProperties
  <2>3. /\ b \in Seq(Byte) /\ Len(b) = lb
        /\ \A i \in 1 .. lb : b[i] = IF i <= Len(q) THEN q[i] ELSE values[i - Len(q)]
    BY ConcatProperties
  <2>4. Size \in Nat \ {0} /\ Len(q) \in Nat /\ Len(values) \in Nat
    BY SizeAssumption
  <2> HIDE DEF t, a, b
  <2>5. /\ D!Newest(a) \in Seq(Byte) /\ Len(D!Newest(a)) = Size
        /\ \A i \in 1 .. Size : D!Newest(a)[i] = t[i]
    <3>1. CASE Len(q) = 0
      <4>1. D!Newest(a) = a
        BY <2>2, <2>4, <3>1 DEF D!Newest
      <4> QED
        BY <2>2, <2>4, <3>1, <4>1
    <3>2. CASE Len(q) > 0
      <4>1. D!Newest(a) = SubSeq(a, Len(q) + 1, la)
        <5>1. la > Size /\ la - Size + 1 = Len(q) + 1
          BY <2>4, <3>2
        <5> QED
          BY <2>2, <5>1 DEF D!Newest
      <4>2. \A i \in Len(q) + 1 .. la : a[i] \in Byte
        BY <2>2, <2>4, ElementOfSeq
      <4>3. /\ D!Newest(a) \in Seq(Byte) /\ Len(D!Newest(a)) = la - (Len(q) + 1) + 1
            /\ \A i \in 1 .. la - (Len(q) + 1) + 1 : D!Newest(a)[i] = a[(Len(q) + 1) + i - 1]
        BY <2>4, <3>2, <4>1, <4>2, SubSeqProperties
      <4>4. /\ la - (Len(q) + 1) + 1 = Size
            /\ \A i \in 1 .. Size : (Len(q) + 1) + i - 1 = Len(q) + i
        BY <2>4
      <4>5. \A i \in 1 .. Size : a[Len(q) + i] = t[i]
        BY <2>2, <2>4
      <4> QED
        BY <4>3, <4>4, <4>5
    <3> QED
      BY <2>4, <3>1, <3>2
  <2>6. /\ D!Newest(b) \in Seq(Byte) /\ Len(D!Newest(b)) = Size
        /\ \A i \in 1 .. Size : D!Newest(b)[i] = values[i + Len(values) - Size]
    <3> DEFINE m == lb - Size + 1
    <3>1. D!Newest(b) = SubSeq(b, m, lb)
      BY <1>2, <2>3, <2>4 DEF D!Newest
    <3>2. m \in Int /\ lb \in Int /\ m <= lb /\ \A i \in m .. lb : b[i] \in Byte
      BY <1>2, <2>3, <2>4, ElementOfSeq
    <3>3. lb - m + 1 = Size /\ \A i \in 1 .. Size : m + i - 1 \in Len(q) + 1 .. lb
                            /\ (m + i - 1) - Len(q) = i + Len(values) - Size
      BY <1>2, <2>4
    <3> HIDE DEF m, lb
    <3>4. /\ D!Newest(b) \in Seq(Byte) /\ Len(D!Newest(b)) = lb - m + 1
          /\ \A i \in 1 .. lb - m + 1 : D!Newest(b)[i] = b[m + i - 1]
      BY <3>1, <3>2, SubSeqProperties
    <3>5. \A i \in 1 .. Size : b[m + i - 1] = values[i + Len(values) - Size]
      BY <2>3, <2>4, <3>3 DEF lb
    <3> QED
      BY <3>3, <3>4, <3>5
  <2>7. D!Newest(a) = D!Newest(b)
    BY <2>1, <2>5, <2>6, SeqEqual
  <2> QED
    BY <2>7 DEF a, b, t
<1> QED
  BY <1>1, <1>2, SizeAssumption

\* put() is the put of the queue.
LEMMA RefPut ==
  ASSUME TypeOK, TypeOK', NEW values \in Seq(Byte), Put(values)
  PROVE  D!Put(values)
<1>1. CASE values = << >>
  <2>1. Held' = Held /\ got' = got
    BY <1>1 DEF Put, vars, Held, Read, currentSize
  <2>2. Held \o values = Held /\ Len(Held) <= Size
    BY <1>1, HeldIsASeq, SizeOfHeld, ConcatEmptySeq, SizeAssumption
  <2> QED
    BY <2>1, <2>2, HeldIsASeq, SizeOfHeld, SizeAssumption DEF D!Put, D!Newest
<1>2. CASE values # << >>
  <2> DEFINE t == Truncated(values)
  <2>1. t \in Seq(Byte) /\ Len(t) \in 0 .. Size /\ Len(t) > 0
    BY <1>2, TruncatedIsASeq
  <2>2. Len(t) \in 1 .. Size
    BY <2>1, SizeAssumption
  <2>3. PutValues(t)
    BY <1>2 DEF Put
  <2>4. Held' = D!Newest(Held \o t)
    BY <2>1, <2>2, <2>3, PutHeld
  <2>5. Len(Held) <= Size
    BY HeldIsASeq, SizeOfHeld, SizeAssumption
  <2>6. D!Newest(Held \o t) = D!Newest(Held \o values)
    BY <2>5, HeldIsASeq, TruncationInvisible
  <2>7. got' = got
    BY <2>3 DEF PutValues
  <2> QED
    BY <2>4, <2>6, <2>7 DEF D!Put
<1> QED
  BY <1>1, <1>2

\* get() takes bytes from the front.
LEMMA RefGet ==
  ASSUME TypeOK, TypeOK', NEW length \in Nat, Get(length)
  PROVE  D!Get(length)
<1> DEFINE c == currentSize
           n == D!Least(length, Len(Held))
<1>1. c \in 0 .. Size /\ Size \in Nat \ {0} /\ tail \in 0 .. Size - 1
  BY SizeOfHeld, SizeAssumption DEF TypeOK, Slot
<1>2. /\ Held \in Seq(Byte) /\ Len(Held) = c
      /\ \A i \in 1 .. c : Held[i] = buffer[SlotOf(i)]
  BY HeldIsASeq, HeldBytes
<1>3. n \in 0 .. c /\ (n = length \/ n = c) /\ (length >= c => n = c) /\ (length < c => n = length)
  BY <1>1, <1>2 DEF D!Least
<1> HIDE DEF n
<1>4. /\ got' = Read(n) /\ buffer' = buffer /\ head' = head
      /\ currentSize' = c - n
      /\ n < c => tail' = SlotOf(n + 1)
  <2>1. CASE empty
    <3>1. c = 0 /\ n = 0
      BY <1>1, <1>3, <2>1, SizeOfHeld
    <3>2. got' = << >> /\ UNCHANGED <<buffer, head, tail, empty>>
      BY <2>1 DEF Get
    <3>3. Read(0) = << >>
      BY DEF Read
    <3> QED
      BY <2>1, <3>1, <3>2, <3>3 DEF currentSize
  <2>2. CASE ~empty
    <3>1. c = Available /\ c > 0
      BY <1>1, <2>2, SizeOfHeld
    <3>2. n = IF length >= Available THEN Available ELSE length
      BY <1>1, <1>3, <3>1
    <3>3. /\ got' = Read(n) /\ tail' = (tail + n) % Size /\ empty' = (length >= Available)
          /\ buffer' = buffer /\ head' = head
      BY <2>2, <3>2 DEF Get, GetSome
    <3> DEFINE x == tail + n
    <3>4. x \in 0 .. 2 * Size - 1 /\ tail' = x % Size
      BY <1>1, <1>3, <3>3
    <3> HIDE DEF x
    <3>5. /\ x < Size => tail' = x
          /\ x >= Size => tail' = x - Size
      BY <3>4, ModOnce
    <3>6. n < c => tail' = SlotOf(n + 1)
      BY <1>1, <1>3, <3>4, <3>5 DEF x, SlotOf
    <3>7. empty' <=> n = c
      <4>1. empty' <=> length >= c
        BY <3>1, <3>3
      <4> QED
        BY <1>1, <1>3, <4>1
    <3>8. /\ head > tail => c = head - tail
          /\ head <= tail => c = head + Size - tail
      BY <3>1, AvailableCases
    <3>9. head \in 0 .. Size - 1
      BY DEF TypeOK, Slot
    <3>10. currentSize' = c - n
      <4>1. CASE n = c
        BY <1>1, <3>7, <4>1 DEF currentSize
      <4>2. CASE n < c
        <5>1. currentSize' = IF head > tail' THEN head - tail' ELSE head + Size - tail'
          BY <1>1, <3>3, <3>7, <4>2 DEF currentSize
        <5> QED
          BY <1>1, <1>3, <3>4, <3>5, <3>8, <3>9, <4>2, <5>1 DEF x
      <4> QED
        BY <1>1, <1>3, <4>1, <4>2
    <3> QED
      BY <3>3, <3>6, <3>10
  <2> QED
    BY <2>1, <2>2
<1>5. got' = SubSeq(Held, 1, n)
  <2>1. /\ Read(n) \in Seq(Byte) /\ Len(Read(n)) = n
        /\ \A i \in 1 .. n : Read(n)[i] = Held[i]
    <3>1. n \in 0 .. Size
      BY <1>1, <1>3
    <3>2. /\ Read(n) \in Seq(Byte) /\ Len(Read(n)) = n
          /\ \A i \in 1 .. n : Read(n)[i] = IF tail + i - 1 < Size THEN buffer[tail + i - 1]
                                            ELSE buffer[tail + i - 1 - Size]
      BY <3>1, ReadIsASeq
    <3>3. ASSUME NEW i \in 1 .. n
          PROVE  Read(n)[i] = Held[i]
      <4>1. i \in 1 .. c
        BY <1>1, <1>3
      <4>2. Held[i] = buffer[SlotOf(i)]
        BY <1>2, <4>1
      <4>3. Read(n)[i] = IF tail + i - 1 < Size THEN buffer[tail + i - 1]
                                            ELSE buffer[tail + i - 1 - Size]
        BY <3>2
      <4>4. i \in 1 .. Size /\ tail \in 0 .. Size - 1 /\ Size \in Int
        BY <1>1, <4>1
      <4> QED
        BY <4>2, <4>3, <4>4 DEF SlotOf
    <3> QED
      BY <3>2, <3>3
  <2>2. \A i \in 1 .. n : Held[i] \in Byte
    BY <1>1, <1>2, <1>3, ElementOfSeq
  <2>3. /\ SubSeq(Held, 1, n) \in Seq(Byte) /\ Len(SubSeq(Held, 1, n)) = n
        /\ \A i \in 1 .. n : SubSeq(Held, 1, n)[i] = Held[i]
    BY <1>1, <1>2, <1>3, <2>2, SubSeqProperties
  <2> QED
    BY <1>4, <2>1, <2>3, SeqEqual
<1>6. Held' = SubSeq(Held, n + 1, Len(Held))
  <2> DEFINE m == n + 1
             r == SubSeq(Held, m, c)
  <2>1. /\ Held' \in Seq(Byte) /\ Len(Held') = c - n
        /\ \A i \in 1 .. c - n : Held'[i] = buffer[SlotOf(i)']
    BY <1>4, HeldPrimed
  <2>2. m \in Int /\ c \in Int /\ (\A i \in m .. c : Held[i] \in Byte)
        /\ c - m + 1 = c - n /\ (m <= c => n < c) /\ (m > c => c - n = 0)
    BY <1>1, <1>2, <1>3, ElementOfSeq
  <2>3. \A i \in 1 .. c - n : m + i - 1 = n + i
    BY <1>1, <1>3
  <2> HIDE DEF m
  <2>4. /\ r \in Seq(Byte) /\ Len(r) = IF m <= c THEN c - m + 1 ELSE 0
        /\ \A i \in 1 .. c - m + 1 : r[i] = Held[m + i - 1]
    BY <2>2, SubSeqProperties
  <2>5. r \in Seq(Byte) /\ Len(r) = c - n /\ \A i \in 1 .. c - n : r[i] = Held[n + i]
    BY <1>1, <1>3, <2>2, <2>3, <2>4
  <2>6. \A i \in 1 .. c - n : Held'[i] = Held[n + i]
    <3>1. ASSUME NEW i \in 1 .. c - n
          PROVE  Held'[i] = Held[n + i]
      <4>1. tail' = SlotOf(n + 1)
        BY <1>1, <1>3, <1>4
      <4>2. SlotOf(i)' = SlotOf(n + i)
        BY <1>1, <1>3, <4>1 DEF SlotOf
      <4>3. n + i \in 1 .. c
        BY <1>1, <1>3
      <4> QED
        BY <1>2, <2>1, <4>2, <4>3
    <3> QED
      BY <3>1
  <2>7. Held' = r
    BY <2>1, <2>5, <2>6, SeqEqual
  <2> QED
    BY <1>2, <2>7 DEF m
<1> QED
  BY <1>5, <1>6 DEF D!Get, n

\* get(val) is the get of one byte from the queue.
LEMMA RefGetOne ==
  ASSUME TypeOK, GetOne
  PROVE  Get(1)
<1>1. CASE empty
  BY <1>1 DEF GetOne, Get
<1>2. CASE ~empty
  <2>1. /\ got' = <<buffer[tail]>> /\ tail' = (tail + 1) % Size /\ empty' = (tail' = head)
        /\ UNCHANGED <<buffer, head>>
    BY <1>2 DEF GetOne
  <2>2. /\ Available \in 0 .. Size /\ Available # 0
        /\ head \in 0 .. Size - 1 /\ tail \in 0 .. Size - 1 /\ Size \in Nat \ {0}
    BY <1>2, SizeOfHeld, SizeAssumption DEF TypeOK, Slot
  <2> DEFINE x == tail + 1
  <2>3. x \in 0 .. 2 * Size - 1 /\ tail' = x % Size
    BY <2>1, <2>2
  <2> HIDE DEF x
  <2>4. /\ x < Size => tail' = x
        /\ x >= Size => tail' = x - Size
    BY <2>3, ModOnce
  <2>5. /\ head > tail => Available = head - tail
        /\ head <= tail => Available = head + Size - tail
    BY AvailableCases
  <2>6. tail' = head <=> 1 >= Available
    BY <2>2, <2>3, <2>4, <2>5 DEF x
  <2>7. 1 >= Available => Available = 1
    BY <2>2
  <2>8. Read(1) = <<buffer[tail]>>
    <3>1. tail + 1 - 1 = tail /\ tail < Size
      BY <2>2
    <3> QED
      BY <3>1 DEF Read
  <2> QED
    BY <1>2, <2>1, <2>6, <2>7, <2>8 DEF Get, GetSome
<1> QED
  BY <1>1, <1>2

\* For every capacity, the buffer is a queue that drops its oldest bytes.
THEOREM QueueImplemented == Spec => ImplementsDropOldest
<1>1. Init => D!Init
  <2> SUFFICES ASSUME Init PROVE D!Init
    OBVIOUS
  <2>1. currentSize = 0
    BY DEF Init, currentSize
  <2> QED
    BY <2>1 DEF Init, D!Init, Held, Read
<1>2. TypeOK /\ TypeOK' /\ [Next]_vars => [D!Next]_(D!vars)
  <2> SUFFICES ASSUME TypeOK, TypeOK', [Next]_vars PROVE D!Next \/ UNCHANGED D!vars
    OBVIOUS
  <2>1. ASSUME NEW n \in 0 .. MaxPut, NEW values \in [1 .. n -> Byte], Put(values)
        PROVE  D!Next
    <3>1. values \in Seq(Byte)
      BY BoundAssumption
    <3> QED
      BY <2>1, <3>1, RefPut DEF D!Next
  <2>2. ASSUME NEW length \in 0 .. MaxGet, Get(length)
        PROVE  D!Next
    BY <2>2, BoundAssumption, RefGet DEF D!Next
  <2>3. CASE GetOne
    <3>1. 1 \in 0 .. MaxGet /\ Get(1)
      BY <2>3, BoundAssumption, RefGetOne
    <3> QED
      BY <3>1, <2>2
  <2>4. CASE UNCHANGED vars
    BY <2>4 DEF vars, D!vars, Held, Read, currentSize
  <2> QED
    BY <2>1, <2>2, <2>3, <2>4 DEF Next
<1> QED
  BY <1>1, <1>2, TypeCorrect, PTL DEF Spec, ImplementsDropOldest, D!Spec
=============================================================================
