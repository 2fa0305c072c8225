------------------------ MODULE MessageDecoderProofs ------------------------
(***************************************************************************)
(* Proofs about MessageDecoder, for bytes of any number of values, chunks of *)
(* any length and any texts: the decoder never writes a message beyond its   *)
(* size, whatever bytes it is given; what it dispatches is what the stream,  *)
(* read as one, holds; what was sent arrives complete, once and in order;    *)
(* and a text that sendLog() cuts is joined again.                          *)
(***************************************************************************)
EXTENDS MessageDecoder, FiniteSetTheorems, SequenceTheorems, TLAPS

----------------------------------------------------------------------------
(* Induction over the numbers, with sets in the place of predicates: the     *)
(* strict subsets of a finite set are well founded, hence the intervals      *)
(* 1 .. n are.                                                               *)

\* A set of numbers has a least element.
LEMMA NatWellOrdered ==
  ASSUME NEW T \in SUBSET Nat, T # {}
  PROVE  \E x \in T : \A y \in T : x <= y
<1> DEFINE U == {1 .. n : n \in T}
<1>1. U \subseteq FiniteSubsetsOf(Nat) /\ U # {}
  <2>1. ASSUME NEW n \in T
        PROVE  1 .. n \in SUBSET Nat /\ IsFiniteSet(1 .. n)
    BY FS_Interval
  <2> QED
    BY <2>1 DEF FiniteSubsetsOf
<1>2. PICK u \in U : \A v \in U : ~ (<<v, u>> \in StrictSubsetOrdering(Nat))
  <2> HIDE DEF U
  <2> QED
    BY <1>1, FS_StrictSubsetOrderingWellFounded, WFMin
<1>3. PICK x \in T : u = 1 .. x
  OBVIOUS
<1>4. ASSUME NEW y \in T, y < x
      PROVE  FALSE
  <2>1. 1 .. y \in U
    OBVIOUS
  <2>2. 1 .. y \subseteq 1 .. x /\ x \in 1 .. x /\ x \notin 1 .. y
    BY <1>4
  <2>3. 1 .. y # 1 .. x
    BY <2>2
  <2> HIDE DEF U
  <2>4. <<1 .. y, 1 .. x>> \in (SUBSET Nat) \X (SUBSET Nat)
    OBVIOUS
  <2>5. <<1 .. y, 1 .. x>> \in StrictSubsetOrdering(Nat)
    BY <2>2, <2>3, <2>4 DEF StrictSubsetOrdering
  <2> QED
    BY <1>2, <1>3, <2>1, <2>5
<1> QED
  BY <1>4

\* A set that holds 0, and the successor of each number it holds, holds every number.
LEMMA InductiveSet ==
  ASSUME NEW S, 0 \in S, \A n \in Nat : n \in S => n + 1 \in S
  PROVE  \A n \in Nat : n \in S
<1> SUFFICES ASSUME Nat \ S # {}
             PROVE  FALSE
  OBVIOUS
<1>1. PICK x \in Nat \ S : \A y \in Nat \ S : x <= y
  BY NatWellOrdered
<1>2. x # 0 /\ x - 1 \in Nat /\ (x - 1) + 1 = x
  BY <1>1
<1>3. x - 1 \in S
  BY <1>1, <1>2
<1> QED
  BY <1>1, <1>2, <1>3

----------------------------------------------------------------------------
(* Sizes, and the types of the variables.                                   *)

\* A size that two bytes can hold is held by two bytes.
LEMMA SizeFits ==
  ASSUME NEW n \in 0 .. maxlen
  PROVE  n % Base \in Byte /\ n \div Base \in Byte
<1> DEFINE q == n \div Base
           r == n % Base
<1>1. Base \in Nat /\ Base > 1
  BY ByteAssumption
<1>2. n \in Nat /\ n < Base * Base
  BY <1>1 DEF maxlen
<1>3. q \in Int /\ r \in 0 .. Base - 1 /\ n = Base * q + r
  BY <1>1, <1>2
<1>4. q >= 0
  <2>1. CASE q <= -1
    <3>1. Base * q <= Base * (-1)
      BY <1>1, <1>3, <2>1
    <3> HIDE DEF q, r
    <3> QED
      BY <1>1, <1>2, <1>3, <3>1
  <2> QED
    BY <1>3, <2>1
<1>5. q < Base
  <2>1. CASE q >= Base
    <3>1. Base * q >= Base * Base
      BY <1>1, <1>3, <2>1
    <3> HIDE DEF q, r
    <3> QED
      BY <1>1, <1>2, <1>3, <3>1
  <2> QED
    BY <1>1, <1>3, <2>1
<1> QED
  BY <1>1, <1>3, <1>4, <1>5 DEF Byte

\* What two bytes say is a size.
LEMMA SizeRead ==
  ASSUME NEW hi \in Byte, NEW lo \in Byte
  PROVE  hi * Base + lo \in 0 .. maxlen
<1>1. Base \in Nat /\ Base > 1 /\ hi \in Nat /\ lo \in Nat /\ hi <= Base - 1 /\ lo <= Base - 1
  BY ByteAssumption DEF Byte
<1>2. hi * Base <= (Base - 1) * Base
  BY <1>1
<1>3. (Base - 1) * Base = (Base * Base) - Base
  BY <1>1
<1>4. hi * Base \in Nat /\ Base * Base \in Nat
  BY <1>1
<1> QED
  BY <1>1, <1>2, <1>3, <1>4 DEF maxlen

\* What may be sent.
Fits(m) ==
  /\ m \in [type : Byte, data : Seq(Byte)]
  /\ Len(m.data) <= maxlen

\* It is encoded as bytes.
LEMMA EncodedBytes ==
  ASSUME NEW m, Fits(m)
  PROVE  Encoded(m) \in Seq(Byte)
<1>1. Len(m.data) \in 0 .. maxlen
  BY DEF Fits, maxlen
<1>2. Len(m.data) % Base \in Byte /\ Len(m.data) \div Base \in Byte
  BY <1>1, SizeFits
<1> QED
  BY <1>2, ByteAssumption DEF Encoded, Fits

\* sendLog() cuts a text into messages that fit.
LEMMA MessagesFit ==
  ASSUME NEW t \in Byte, NEW text \in Seq(Byte), NEW m \in Range(Messages(t, text))
  PROVE  Fits(m)
<1>1. maxlen \in Nat /\ maxlen > 0
  <2>1. Base \in Nat /\ Base > 1
    BY ByteAssumption
  <2>2. Base * Base >= 2 * Base /\ Base * Base \in Nat
    BY <2>1
  <2> QED
    BY <2>1, <2>2 DEF maxlen
<1>2. PICK k \in 1 .. (Len(text) + maxlen - 1) \div maxlen : m = Messages(t, text)[k]
  BY DEF Messages, Range
<1> DEFINE first == (k - 1) * maxlen + 1
           last == IF k * maxlen < Len(text) THEN k * maxlen ELSE Len(text)
<1>3. m = Message(t, SubSeq(text, first, last))
  BY <1>2 DEF Messages
<1>4. (k - 1) * maxlen = (k * maxlen) - maxlen
  BY <1>1, <1>2
<1>5. k * maxlen \in Nat /\ (k - 1) * maxlen \in Nat
  BY <1>1, <1>2
<1>6. first \in Nat /\ first >= 1 /\ last \in Nat /\ last <= Len(text)
  BY <1>5
<1>7. last - first < maxlen
  <2> DEFINE end == k * maxlen
  <2>1. end \in Nat /\ last <= end
    BY <1>5
  <2>2. first = (end - maxlen) + 1
    BY <1>4
  <2> HIDE DEF first, last, end
  <2> QED
    BY <1>1, <1>6, <2>1, <2>2
<1> HIDE DEF first, last
<1>8. SubSeq(text, first, last) \in Seq(Byte)
  BY <1>6
<1>9. Len(SubSeq(text, first, last)) <= maxlen
  BY <1>1, <1>6, <1>7
<1> QED
  BY <1>3, <1>8, <1>9 DEF Fits, Message

\* Whatever a client sends fits.
LEMMA SendableFits ==
  ASSUME NEW t \in Type, NEW m \in Sendable(t)
  PROVE  Fits(m)
<1>1. CASE m = Message(t, << >>)
  <2>1. maxlen \in Nat
    <3>1. Base * Base \in Nat /\ Base * Base > 0
      BY ByteAssumption
    <3> QED
      BY <3>1 DEF maxlen
  <2> QED
    BY <1>1, <2>1, DecoderAssumption DEF Fits, Message
<1>2. CASE \E text \in Text : m \in Range(Messages(t, text))
  BY <1>2, MessagesFit, DecoderAssumption
<1> QED
  BY <1>1, <1>2 DEF Sendable

\* The initial states have the types.
LEMMA TypeInit == Init => TypeOK
<1> SUFFICES ASSUME Init
             PROVE  TypeOK
  OBVIOUS
<1>1. 0 \in Byte /\ maxlen \in Nat
  <2>1. Base * Base \in Nat /\ Base * Base > 0
    BY ByteAssumption
  <2> QED
    BY <2>1, ByteAssumption DEF maxlen, Byte
<1>2. torn \in BOOLEAN
  BY DEF Init
<1> QED
  BY <1>1, <1>2, DecoderAssumption DEF Init, TypeOK, DecoderState

\* What is sent changes no more than the wire.
LEMMA PeerStep ==
  ASSUME TypeOK,
         \/ \E t \in Type : \E m \in Sendable(t) : Send(m)
         \/ \E b \in Byte : SendNoise(b)
         \/ Leave
  PROVE  TypeOK'
<1> USE DEF TypeOK, DecoderVars, messageVars
<1>1. ASSUME NEW t \in Type, NEW m \in Sendable(t), Send(m)
      PROVE  TypeOK'
  <2>1. Fits(m)
    BY SendableFits
  <2>2. wire' \in Seq(Byte)
    BY <1>1, <2>1, EncodedBytes DEF Send
  <2>3. sent' \in Seq([type : Byte, data : Seq(Byte)])
    BY <1>1, <2>1 DEF Send, Fits
  <2> QED
    BY <1>1, <2>2, <2>3 DEF Send
<1>2. ASSUME NEW b \in Byte, SendNoise(b)
      PROVE  TypeOK'
  <2>1. torn' \in BOOLEAN
    BY <1>2 DEF SendNoise
  <2>2. noise' \in 0 .. MaxNoise
    BY <1>2, DecoderAssumption DEF SendNoise
  <2> QED
    BY <1>2, <2>1, <2>2 DEF SendNoise
<1>3. CASE Leave
  <2>1. torn' \in BOOLEAN
    BY <1>3 DEF Leave
  <2> QED
    BY <1>3, <2>1 DEF Leave
<1> QED
  BY <1>1, <1>2, <1>3

\* Nor does reading a chunk more than the chunk.
LEMMA ReceiveStep ==
  ASSUME TypeOK, NEW n \in 1 .. RecvSize, Receive(n)
  PROVE  TypeOK'
<1> USE DEF TypeOK, Receive, messageVars
<1>1. n \in 1 .. Len(wire)
  BY DecoderAssumption
<1>2. data' \in Seq(Byte) /\ Len(data') <= RecvSize
  BY <1>1, DecoderAssumption
<1>3. wire' \in Seq(Byte)
  BY <1>1
<1> QED
  BY <1>2, <1>3

\* A step of decode() in the header.
LEMMA HeaderStep ==
  ASSUME TypeOK, Start \/ Magic1Found \/ Magic2Found \/ TypeReceived \/ Size1Received
  PROVE  TypeOK'
<1> USE DEF TypeOK, Scan, wireVars, messageVars, DecoderState
<1>0. ASSUME data # << >>
      PROVE  /\ Head(data) \in Byte /\ Tail(data) \in Seq(Byte)
             /\ Len(Tail(data)) <= RecvSize
  BY <1>0, DecoderAssumption
<1>1. CASE Start
  BY <1>0, <1>1 DEF Start
<1>2. CASE Magic1Found
  BY <1>0, <1>2 DEF Magic1Found
<1>3. CASE Magic2Found
  BY <1>0, <1>3 DEF Magic2Found
<1>4. CASE TypeReceived
  BY <1>0, <1>4 DEF TypeReceived
<1>5. CASE Size1Received
  <2>1. size' \in 0 .. maxlen
    BY <1>0, <1>5, SizeRead DEF Size1Received
  <2>2. content' = << >> /\ Len(content') <= size'
    BY <1>5, <2>1 DEF Size1Received
  <2> QED
    BY <1>0, <1>5, <2>1, <2>2 DEF Size1Received
<1> QED
  BY <1>1, <1>2, <1>3, <1>4, <1>5

\* A step of decode() in the data: never more is copied than is missing.
LEMMA DataStep ==
  ASSUME TypeOK, ReceivingData
  PROVE  TypeOK'
<1> USE DEF TypeOK, ReceivingData, wireVars
<1> DEFINE missing == size - Len(content)
           sz == IF missing < Len(data) THEN missing ELSE Len(data)
<1>1. size \in Nat /\ Len(content) \in Nat /\ Len(data) \in Nat
  <2>1. Base * Base \in Nat /\ Base * Base > 0
    BY ByteAssumption
  <2> QED
    BY <2>1 DEF maxlen
<1>2. sz \in 0 .. Len(data) /\ sz <= missing
  BY <1>1
<1>3. content' = content \o SubSeq(data, 1, sz) /\ data' = SubSeq(data, sz + 1, Len(data))
  OBVIOUS
<1> HIDE DEF sz
<1>4. SubSeq(data, 1, sz) \in Seq(Byte) /\ Len(SubSeq(data, 1, sz)) = sz
  BY <1>1, <1>2
<1>5. content' \in Seq(Byte) /\ Len(content') <= size
  <2> DEFINE piece == SubSeq(data, 1, sz)
  <2>1. content \in Seq(Byte) /\ piece \in Seq(Byte) /\ Len(piece) = sz /\ content' = content \o piece
    BY <1>3, <1>4
  <2> HIDE DEF piece, TypeOK, ReceivingData
  <2>2. content' \in Seq(Byte) /\ Len(content') = Len(content) + sz
    BY <2>1, ConcatProperties
  <2> QED
    BY <1>1, <1>2, <2>2
<1>6. data' \in Seq(Byte) /\ Len(data') <= RecvSize
  <2>1. sz + 1 \in 1 .. Len(data) + 1
    BY <1>1, <1>2
  <2>2. SubSeq(data, sz + 1, Len(data)) \in Seq(Byte)
    BY <1>1, <2>1
  <2>3. Len(SubSeq(data, sz + 1, Len(data))) <= Len(data)
    BY <1>1, <1>2, <2>1
  <2>4. Len(data) <= RecvSize /\ RecvSize \in Nat
    BY DecoderAssumption
  <2> HIDE DEF TypeOK, ReceivingData
  <2>5. Len(SubSeq(data, sz + 1, Len(data))) \in Nat
    BY <2>2
  <2> QED
    BY <1>1, <1>3, <2>2, <2>3, <2>4, <2>5
<1>7. dispatched' \in Seq([type : Byte, data : Seq(Byte)])
  <2>1. Message(type, content') \in [type : Byte, data : Seq(Byte)]
    BY <1>5 DEF Message
  <2>2. dispatched' \in {dispatched, Append(dispatched, Message(type, content'))}
    OBVIOUS
  <2>3. dispatched \in Seq([type : Byte, data : Seq(Byte)])
    OBVIOUS
  <2> DEFINE R == [type : Byte, data : Seq(Byte)]
             m == Message(type, content')
  <2> HIDE DEF ReceivingData, TypeOK, R, m
  <2>4. m \in R /\ dispatched \in Seq(R) /\ dispatched' \in {dispatched, Append(dispatched, m)}
    BY <2>1, <2>2, <2>3 DEF R, m
  <2>5. dispatched' \in Seq(R)
    BY <2>4
  <2> QED
    BY <2>5 DEF R
<1>8. state' \in DecoderState
  BY DEF DecoderState
<1> QED
  BY <1>5, <1>6, <1>7, <1>8

\* Every variable keeps its type; the message is never written beyond its size.
THEOREM TypeCorrect == Spec => []TypeOK
<1>1. ASSUME TypeOK, [Next]_vars
      PROVE  TypeOK'
  <2>1. CASE UNCHANGED vars
    BY <1>1, <2>1 DEF TypeOK, vars, wireVars, messageVars
  <2> QED
    BY <1>1, <2>1, PeerStep, ReceiveStep, HeaderStep, DataStep DEF Next, Decode
<1> QED
  BY <1>1, TypeInit, PTL DEF Spec

----------------------------------------------------------------------------
(* The texts that sendLog() cuts.                                          *)

\* What FlattenSeq computes: f joins the first n pieces of q, one after the other.
Joins(f, q, n) ==
  f = [i \in 1 .. n |-> IF i = 1 THEN q[i] ELSE f[i - 1] \o q[i]]

\* What it says of a number.
LEMMA JoinsValue ==
  ASSUME NEW f, NEW q, NEW n \in Nat, Joins(f, q, n), NEW i \in 1 .. n
  PROVE  f[i] = IF i = 1 THEN q[i] ELSE f[i - 1] \o q[i]
<1> DEFINE F == [k \in 1 .. n |-> IF k = 1 THEN q[k] ELSE f[k - 1] \o q[k]]
<1>1. F[i] = IF i = 1 THEN q[i] ELSE f[i - 1] \o q[i]
  OBVIOUS
<1>2. f = F
  BY DEF Joins
<1> HIDE DEF F
<1> QED
  BY <1>1, <1>2

\* There is one: a function that joins the first pieces is extended by one more.
LEMMA JoinsExists ==
  ASSUME NEW q, NEW m \in Nat
  PROVE  \E f : Joins(f, q, m)
<1> DEFINE S == {n \in Nat : \E f : Joins(f, q, n)}
<1>1. 0 \in S
  <2> DEFINE f == [i \in 1 .. 0 |-> q[i]]
  <2>1. Joins(f, q, 0)
    BY DEF Joins
  <2> HIDE DEF f
  <2> QED
    BY <2>1
<1>2. ASSUME NEW n \in Nat, n \in S
      PROVE  n + 1 \in S
  <2>1. PICK f : Joins(f, q, n)
    BY <1>2
  <2> DEFINE g == [i \in 1 .. n + 1 |->
                     IF i <= n THEN f[i] ELSE IF i = 1 THEN q[i] ELSE f[i - 1] \o q[i]]
  <2>2. ASSUME NEW i \in 1 .. n + 1
        PROVE  g[i] = IF i = 1 THEN q[i] ELSE g[i - 1] \o q[i]
    <3>1. i # 1 => i - 1 \in 1 .. n /\ g[i - 1] = f[i - 1]
      OBVIOUS
    <3>2. i <= n => f[i] = IF i = 1 THEN q[i] ELSE f[i - 1] \o q[i]
      BY <2>1, JoinsValue
    <3>3. g[i] = IF i <= n THEN f[i] ELSE IF i = 1 THEN q[i] ELSE f[i - 1] \o q[i]
      OBVIOUS
    <3> HIDE DEF g
    <3> QED
      BY <3>1, <3>2, <3>3
  <2>3. Joins(g, q, n + 1)
    <3>1. g = [i \in 1 .. n + 1 |-> g[i]]
      OBVIOUS
    <3> HIDE DEF g
    <3> QED
      BY <2>2, <3>1 DEF Joins
  <2> HIDE DEF g
  <2> QED
    BY <2>3
<1>3. m \in S
  <2> HIDE DEF S
  <2> QED
    BY <1>1, <1>2, InductiveSet
<1> QED
  BY <1>3

\* FlattenSeq returns the last of them.
LEMMA FlattenJoins ==
  ASSUME NEW q, Len(q) \in Nat \ {0}
  PROVE  \E f : /\ f[1] = q[1]
                /\ \A k \in 2 .. Len(q) : f[k] = f[k - 1] \o q[k]
                /\ FlattenSeq(q) = f[Len(q)]
<1> DEFINE f == CHOOSE f : Joins(f, q, Len(q))
<1>1. Joins(f, q, Len(q))
  BY JoinsExists
<1>2. FlattenSeq(q) = f[Len(q)]
  BY DEF FlattenSeq, Joins
<1> HIDE DEF f
<1>3. ASSUME NEW k \in 1 .. Len(q)
      PROVE  f[k] = IF k = 1 THEN q[k] ELSE f[k - 1] \o q[k]
  BY <1>1, JoinsValue
<1>4. 1 \in 1 .. Len(q) /\ \A k \in 2 .. Len(q) : k \in 1 .. Len(q) /\ k # 1
  OBVIOUS
<1>5. f[1] = q[1]
  BY <1>3, <1>4
<1>6. \A k \in 2 .. Len(q) : f[k] = f[k - 1] \o q[k]
  BY <1>3, <1>4
<1> QED
  BY <1>2, <1>5, <1>6

\* A text cut at growing positions, from its first to its last, is joined again.
LEMMA PiecesJoined ==
  ASSUME NEW S, NEW text \in Seq(S), NEW n \in Nat, n > 0,
         NEW cut \in [0 .. n -> 0 .. Len(text)],
         cut[0] = 0, cut[n] = Len(text),
         \A k \in 1 .. n : cut[k - 1] <= cut[k],
         NEW q, Len(q) = n,
         \A k \in 1 .. n : q[k] = SubSeq(text, cut[k - 1] + 1, cut[k])
  PROVE  FlattenSeq(q) = text
<1>1. PICK f : /\ f[1] = q[1]
               /\ \A k \in 2 .. n : f[k] = f[k - 1] \o q[k]
               /\ FlattenSeq(q) = f[n]
  <2>1. Len(q) \in Nat \ {0}
    OBVIOUS
  <2> QED
    BY <2>1, FlattenJoins
<1> DEFINE P(i) == i + 1 <= n => f[i + 1] = SubSeq(text, 1, cut[i + 1])
           T == {i \in Nat : P(i)}
<1>2. P(0)
  <2>1. q[1] = SubSeq(text, cut[0] + 1, cut[1])
    <3>1. 1 \in 1 .. n /\ 1 - 1 = 0
      OBVIOUS
    <3> QED
      BY <3>1
  <2> QED
    BY <1>1, <2>1
<1>3. ASSUME NEW i \in Nat, P(i)
      PROVE  P(i + 1)
  <2> SUFFICES ASSUME i + 2 <= n
               PROVE  f[i + 2] = SubSeq(text, 1, cut[i + 2])
    <3>1. (i + 1) + 1 = i + 2
      OBVIOUS
    <3> QED
      BY <3>1
  <2>1. i + 1 \in 0 .. n /\ i + 2 \in 0 .. n /\ i + 2 \in 2 .. n /\ (i + 2) - 1 = i + 1
    OBVIOUS
  <2>2. f[i + 1] = SubSeq(text, 1, cut[i + 1])
    BY <1>3, <2>1
  <2> HIDE DEF P
  <2>3. f[i + 2] = f[i + 1] \o q[i + 2]
    BY <1>1, <2>1
  <2>4. q[i + 2] = SubSeq(text, cut[i + 1] + 1, cut[i + 2])
    <3>1. i + 2 \in 1 .. n
      BY <2>1
    <3> QED
      BY <2>1, <3>1
  <2>5. cut[i + 1] \in 0 .. Len(text) /\ cut[i + 2] \in cut[i + 1] .. Len(text)
    <3>1. cut[i + 1] <= cut[i + 2]
      BY <2>1
    <3>2. cut[i + 1] \in 0 .. Len(text) /\ cut[i + 2] \in 0 .. Len(text)
      BY <2>1
    <3> QED
      BY <3>1, <3>2
  <2>6. SubSeq(text, 1, cut[i + 1]) \o SubSeq(text, cut[i + 1] + 1, cut[i + 2])
          = SubSeq(text, 1, cut[i + 2])
    <3>1. 1 \in 1 .. Len(text) + 1 /\ cut[i + 1] \in 1 - 1 .. Len(text)
      BY <2>5
    <3> QED
      BY <2>5, <3>1, ConcatAdjacentSubSeq
  <2> QED
    BY <2>2, <2>3, <2>4, <2>6
<1>4. P(n - 1)
  <2> HIDE DEF P
  <2>1. 0 \in T /\ \A i \in Nat : i \in T => i + 1 \in T
    BY <1>2, <1>3
  <2>2. n - 1 \in Nat
    OBVIOUS
  <2> HIDE DEF T
  <2>3. n - 1 \in T
    BY <2>1, <2>2, InductiveSet
  <2> QED
    BY <2>3 DEF T
<1>5. f[n] = SubSeq(text, 1, Len(text))
  <2>1. (n - 1) + 1 = n
    OBVIOUS
  <2> QED
    BY <1>4, <2>1
<1> QED
  BY <1>1, <1>5, SubSeqFull

\* How many messages a text of l bytes takes.
Pieces(l) == (l + maxlen - 1) \div maxlen

\* They are enough, and one less would not be.
LEMMA PiecesEnough ==
  ASSUME NEW l \in Nat
  PROVE  /\ maxlen \in Nat /\ maxlen > 0
         /\ Pieces(l) \in Nat
         /\ l <= Pieces(l) * maxlen
         /\ \A k \in 0 .. Pieces(l) - 1 : k * maxlen < l
<1> DEFINE a == l + maxlen - 1
           n == a \div maxlen
           r == a % maxlen
<1>1. maxlen \in Nat /\ maxlen > 0
  <2>1. Base \in Nat /\ Base > 1
    BY ByteAssumption
  <2>2. Base * Base >= 2 * Base /\ Base * Base \in Nat
    BY <2>1
  <2> QED
    BY <2>1, <2>2 DEF maxlen
<1>2. a \in Nat /\ n \in Int /\ r \in 0 .. maxlen - 1 /\ a = maxlen * n + r
  BY <1>1
<1>3. n >= 0
  <2>1. CASE n <= -1
    <3>1. maxlen * n <= maxlen * (-1)
      BY <1>1, <1>2, <2>1
    <3> HIDE DEF n, r, a
    <3> QED
      BY <1>1, <1>2, <3>1
  <2> HIDE DEF n
  <2> QED
    BY <1>2, <2>1
<1> HIDE DEF n, r
<1>4. maxlen * n = n * maxlen /\ n * maxlen \in Int
  BY <1>1, <1>2
<1>5. l <= n * maxlen
  BY <1>1, <1>2, <1>4
<1>6. ASSUME NEW k \in 0 .. n - 1
      PROVE  k * maxlen < l
  <2>1. k * maxlen <= (n - 1) * maxlen
    BY <1>1, <1>2
  <2>2. (n - 1) * maxlen = n * maxlen - maxlen
    BY <1>1, <1>2
  <2>3. k * maxlen \in Int
    BY <1>1
  <2> QED
    BY <1>1, <1>2, <1>4, <2>1, <2>2, <2>3
<1> QED
  BY <1>1, <1>2, <1>3, <1>5, <1>6 DEF Pieces, n

\* sendLog() cuts a text into messages whose size fits two bytes and which make up
\* the text again.
THEOREM TextsJoined == TextsWhole
<1> SUFFICES ASSUME NEW t \in Type, NEW text \in Text
             PROVE  /\ FlattenSeq([k \in DOMAIN Messages(t, text) |-> Messages(t, text)[k].data])
                         = text
                    /\ \A k \in DOMAIN Messages(t, text) :
                         Len(Messages(t, text)[k].data) \in 1 .. maxlen
  BY DEF TextsWhole
<1> DEFINE l == Len(text)
           n == Pieces(l)
           end(k) == IF k * maxlen < l THEN k * maxlen ELSE l
           cut == [k \in 0 .. n |-> end(k)]
           q == [k \in 1 .. n |-> SubSeq(text, (k - 1) * maxlen + 1, end(k))]
<1>0. text \in Seq(Byte) /\ l \in Nat
  BY DecoderAssumption
<1>1. /\ maxlen \in Nat /\ maxlen > 0
      /\ n \in Nat
      /\ l <= n * maxlen
      /\ \A k \in 0 .. n - 1 : k * maxlen < l
  BY <1>0, PiecesEnough
<1>2. /\ DOMAIN Messages(t, text) = 1 .. n
      /\ \A k \in 1 .. n : Messages(t, text)[k].data = q[k]
  BY DEF Messages, Message, Pieces
<1>3. [k \in DOMAIN Messages(t, text) |-> Messages(t, text)[k].data] = q
  BY <1>2
<1>4. \A k \in 1 .. n : q[k] = SubSeq(text, (k - 1) * maxlen + 1, end(k))
  OBVIOUS
<1> DEFINE m == maxlen
<1>5. ASSUME NEW k \in 0 .. n
      PROVE  /\ end(k) \in 0 .. l
             /\ cut[k] = end(k)
             /\ k < n => end(k) = k * maxlen
  <2>1. k * maxlen \in Nat
    BY <1>1
  <2>2. k < n => k * maxlen < l
    BY <1>1
  <2> QED
    BY <1>0, <2>1, <2>2
<1>6. ASSUME NEW k \in 1 .. n
      PROVE  /\ k - 1 \in 0 .. n /\ k \in 0 .. n
             /\ cut[k - 1] = (k - 1) * maxlen
             /\ cut[k] = end(k)
             /\ cut[k] - cut[k - 1] \in 1 .. maxlen
  <2>1. k - 1 \in 0 .. n /\ k \in 0 .. n /\ k - 1 < n
    BY <1>1
  <2>2. cut[k - 1] = (k - 1) * maxlen /\ cut[k] = end(k)
    <3> HIDE DEF cut
    <3> QED
      BY <1>5, <2>1
  <2>3. k * maxlen \in Nat /\ (k - 1) * maxlen \in Nat /\ (k - 1) * maxlen = (k * maxlen) - maxlen
    BY <1>1
  <2>4. (k - 1) * maxlen < l
    BY <1>1, <2>1
  <2>5. end(k) - (k - 1) * maxlen \in 1 .. maxlen
    BY <1>0, <1>1, <2>3, <2>4
  <2> HIDE DEF cut, end
  <2> QED
    BY <2>1, <2>2, <2>5
<1>7. \A k \in 1 .. n : Len(q[k]) \in 1 .. maxlen
  <2> SUFFICES ASSUME NEW k \in 1 .. n
               PROVE  Len(q[k]) \in 1 .. maxlen
    OBVIOUS
  <2> DEFINE first == cut[k - 1]
             last == cut[k]
  <2>1. q[k] = SubSeq(text, first + 1, last)
    <3> HIDE DEF cut, q, end
    <3> QED
      BY <1>4, <1>6
  <2>2. first \in 0 .. l /\ last \in 0 .. l /\ last - first \in 1 .. maxlen
    <3> HIDE DEF cut, q
    <3> QED
      BY <1>5, <1>6
  <2> HIDE DEF first, last, q
  <2> QED
    BY <1>0, <1>1, <2>1, <2>2
<1>8. CASE n = 0
  <2>1. l = 0
    BY <1>0, <1>1, <1>8
  <2>2. text = << >> /\ q = << >>
    BY <1>0, <1>8, <2>1
  <2>3. FlattenSeq(q) = text
    BY <2>2 DEF FlattenSeq
  <2> HIDE DEF q
  <2> QED
    BY <1>2, <1>3, <1>8, <2>3
<1>9. CASE n > 0
  <2>1. cut \in [0 .. n -> 0 .. l]
    BY <1>5
  <2>2. cut[0] = 0
    <3>1. 0 \in 0 .. n /\ 0 * maxlen = 0
      BY <1>1
    <3> HIDE DEF cut, end
    <3> QED
      BY <1>5, <1>9, <3>1
  <2>3. cut[n] = l
    <3>1. n \in 0 .. n
      BY <1>1
    <3>2. end(n) = l
      BY <1>0, <1>1
    <3> HIDE DEF cut, end
    <3> QED
      BY <1>5, <3>1, <3>2
  <2>4. \A k \in 1 .. n : cut[k - 1] <= cut[k]
    <3> SUFFICES ASSUME NEW k \in 1 .. n
                 PROVE  cut[k - 1] <= cut[k]
      OBVIOUS
    <3> HIDE DEF cut, n, end
    <3>1. cut[k - 1] \in Int /\ cut[k] \in Int
      BY <1>6, <2>1
    <3> QED
      BY <1>6, <3>1
  <2>5. Len(q) = n
    BY <1>1
  <2>6. \A k \in 1 .. n : q[k] = SubSeq(text, cut[k - 1] + 1, cut[k])
    <3> HIDE DEF cut, q, end
    <3> QED
      BY <1>4, <1>6
  <2>7. FlattenSeq(q) = text
    <3> HIDE DEF cut, q, n
    <3> QED
      BY <1>0, <1>1, <1>9, <2>1, <2>2, <2>3, <2>4, <2>5, <2>6, PiecesJoined
  <2> HIDE DEF q
  <2> QED
    BY <1>2, <1>3, <1>7, <2>7
<1> HIDE DEF n
<1> QED
  BY <1>1, <1>8, <1>9

----------------------------------------------------------------------------
(* What a stream holds.                                                    *)

\* The values of a message.
MessageValue == [type : Byte, data : Seq(Byte)]

\* The size that the header at p announces, the last byte of the message, and the byte
\* that must have come for it to be taken for complete.
SizeAt(s, p) == s[p + 3] + Base * s[p + 4]
LastAt(s, p) == p + 4 + SizeAt(s, p)
SeenAt(s, p) == IF SizeAt(s, p) = 0 THEN LastAt(s, p) + 1 ELSE LastAt(s, p)

\* What Reading says of a position from what f says of the later ones.
ReadStep(s, f, p) ==
  IF p >= Len(s) THEN << >>
  ELSE IF s[p] # MAGIC_WORD_1 THEN f[p + 1]
  ELSE IF s[p + 1] # MAGIC_WORD_2 THEN f[p + 2]
  ELSE IF p + 4 > Len(s) \/ SeenAt(s, p) > Len(s) THEN << >>
  ELSE << Message(s[p + 2], SubSeq(s, p + 5, LastAt(s, p))) >> \o f[LastAt(s, p) + 1]

\* f reads s from a on.
Reads(f, s, a) == f = [p \in a .. Len(s) + 1 |-> ReadStep(s, f, p)]

\* An announced size is a number.
LEMMA SizeAtNat ==
  ASSUME NEW s \in Seq(Byte), NEW p \in 1 .. Len(s), p + 4 <= Len(s)
  PROVE  SizeAt(s, p) \in Nat
<1>1. s[p + 3] \in Byte /\ s[p + 4] \in Byte
  OBVIOUS
<1>2. \A b \in Byte : b \in Nat
  BY ByteAssumption DEF Byte
<1>3. \A b \in Nat : Base * b \in Nat
  BY ByteAssumption
<1>4. s[p + 3] \in Nat /\ Base * s[p + 4] \in Nat
  BY <1>1, <1>2, <1>3
<1> QED
  BY <1>4 DEF SizeAt

\* The later positions are all that matters.
LEMMA StepLocal ==
  ASSUME NEW s \in Seq(Byte), NEW p \in 1 .. Len(s) + 1, NEW f, NEW g,
         \A k \in p + 1 .. Len(s) + 1 : f[k] = g[k]
  PROVE  ReadStep(s, f, p) = ReadStep(s, g, p)
<1>1. CASE p >= Len(s)
  BY <1>1 DEF ReadStep
<1>2. CASE p < Len(s)
  <2>1. f[p + 1] = g[p + 1] /\ f[p + 2] = g[p + 2]
    BY <1>2
  <2>2. CASE p + 4 <= Len(s) /\ SeenAt(s, p) <= Len(s)
    <3>1. SizeAt(s, p) \in Nat
      BY <1>2, <2>2, SizeAtNat
    <3>2. LastAt(s, p) + 1 \in p + 1 .. Len(s) + 1
      BY <2>2, <3>1 DEF SeenAt, LastAt
    <3>3. f[LastAt(s, p) + 1] = g[LastAt(s, p) + 1]
      BY <3>2
    <3> QED
      BY <2>1, <2>2, <3>3 DEF ReadStep
  <2>3. CASE p + 4 > Len(s)
    BY <2>1, <2>3 DEF ReadStep
  <2>4. CASE p + 4 <= Len(s) /\ SeenAt(s, p) > Len(s)
    BY <2>1, <2>4 DEF ReadStep
  <2>5. p + 4 <= Len(s) => SeenAt(s, p) \in Nat
    BY <1>2, SizeAtNat DEF SeenAt, LastAt
  <2> QED
    BY <2>2, <2>3, <2>4, <2>5
<1> QED
  BY <1>1, <1>2

\* What a reading says of a position.
LEMMA ReadsValue ==
  ASSUME NEW f, NEW s \in Seq(Byte), NEW a \in Int, Reads(f, s, a), NEW p \in a .. Len(s) + 1
  PROVE  f[p] = ReadStep(s, f, p)
<1> DEFINE F == [k \in a .. Len(s) + 1 |-> ReadStep(s, f, k)]
<1>1. F[p] = ReadStep(s, f, p)
  OBVIOUS
<1>2. f = F
  BY DEF Reads
<1> HIDE DEF F
<1> QED
  BY <1>1, <1>2

\* Every stream has a reading: one of its last bytes is extended by one more byte.
LEMMA ReadsExists ==
  ASSUME NEW s \in Seq(Byte)
  PROVE  \E f : Reads(f, s, 1)
<1> DEFINE L == Len(s)
           P(n) == n <= L + 1 => \E f : Reads(f, s, (L + 2) - n)
           S == {n \in Nat : P(n)}
<1>1. P(0)
  <2> DEFINE f == [p \in L + 2 .. L + 1 |-> << >>]
  <2>1. f = [p \in L + 2 .. L + 1 |-> ReadStep(s, f, p)]
    <3>1. L + 2 .. L + 1 = {}
      OBVIOUS
    <3> QED
      BY <3>1
  <2>2. Reads(f, s, (L + 2) - 0)
    <3>1. (L + 2) - 0 = L + 2
      OBVIOUS
    <3> HIDE DEF f
    <3> QED
      BY <2>1, <3>1 DEF Reads
  <2> HIDE DEF f
  <2> QED
    BY <2>2
<1>2. ASSUME NEW n \in Nat, P(n), n + 1 <= L + 1
      PROVE  \E f : Reads(f, s, (L + 2) - (n + 1))
  <2> DEFINE b == (L + 2) - n
             a == (L + 2) - (n + 1)
  <2>1. PICK f : Reads(f, s, b)
    BY <1>2
  <2> DEFINE g == [p \in a .. L + 1 |-> IF p = a THEN ReadStep(s, f, a) ELSE f[p]]
  <2>2. a \in 1 .. L + 1 /\ b = a + 1
    BY <1>2
  <2>3. ASSUME NEW p \in a .. L + 1
        PROVE  g[p] = ReadStep(s, g, p)
    <3>1. g[p] = ReadStep(s, f, p)
      <4>1. p # a => f[p] = ReadStep(s, f, p)
        <5> HIDE DEF a, b
        <5>1. p # a => p \in b .. L + 1
          BY <2>2
        <5> QED
          BY <2>1, <2>2, <5>1, ReadsValue
      <4>2. g[p] = IF p = a THEN ReadStep(s, f, a) ELSE f[p]
        OBVIOUS
      <4> HIDE DEF g, a
      <4> QED
        BY <4>1, <4>2
    <3>2. \A k \in p + 1 .. L + 1 : f[k] = g[k]
      BY <2>2
    <3>3. p \in 1 .. L + 1
      BY <2>2
    <3> HIDE DEF g, a
    <3> QED
      BY <3>1, <3>2, <3>3, StepLocal
  <2>4. g = [p \in a .. L + 1 |-> g[p]]
    OBVIOUS
  <2>5. Reads(g, s, a)
    <3> HIDE DEF g, a
    <3> QED
      BY <2>3, <2>4 DEF Reads
  <2> HIDE DEF g
  <2> QED
    BY <2>5
<1>3. P(L + 1)
  <2>1. 0 \in S /\ \A n \in Nat : n \in S => n + 1 \in S
    BY <1>1, <1>2
  <2>2. L + 1 \in Nat
    OBVIOUS
  <2> HIDE DEF S
  <2>3. L + 1 \in S
    BY <2>1, <2>2, InductiveSet
  <2> HIDE DEF P
  <2> QED
    BY <2>3 DEF S
<1>4. (L + 2) - (L + 1) = 1
  OBVIOUS
<1> QED
  BY <1>3, <1>4

\* Reading is one.
LEMMA ReadingReads ==
  ASSUME NEW s \in Seq(Byte)
  PROVE  Reads(Reading(s), s, 1)
<1>1. Reading(s) = CHOOSE f : Reads(f, s, 1)
  BY DEF Reading, Reads, ReadStep, SeenAt, LastAt, SizeAt
<1> QED
  BY <1>1, ReadsExists

\* What Reading says of a position, one case after the other.
LEMMA ReadingCases ==
  ASSUME NEW s \in Seq(Byte), NEW p \in 1 .. Len(s) + 1
  PROVE  /\ p >= Len(s) => Reading(s)[p] = << >>
         /\ p < Len(s) =>
              /\ s[p] # MAGIC_WORD_1 => Reading(s)[p] = Reading(s)[p + 1]
              /\ s[p] = MAGIC_WORD_1 =>
                   /\ s[p + 1] # MAGIC_WORD_2 => Reading(s)[p] = Reading(s)[p + 2]
                   /\ s[p + 1] = MAGIC_WORD_2 =>
                        /\ p + 4 > Len(s) => Reading(s)[p] = << >>
                        /\ p + 4 <= Len(s) /\ SeenAt(s, p) > Len(s) => Reading(s)[p] = << >>
                        /\ p + 4 <= Len(s) /\ SeenAt(s, p) <= Len(s) =>
                             Reading(s)[p] =
                               << Message(s[p + 2], SubSeq(s, p + 5, LastAt(s, p))) >>
                                 \o Reading(s)[LastAt(s, p) + 1]
<1>1. Reading(s)[p] = ReadStep(s, Reading(s), p)
  BY ReadingReads, ReadsValue
<1>2. p + 4 <= Len(s) => SeenAt(s, p) \in Nat
  BY SizeAtNat DEF SeenAt, LastAt
<1> QED
  BY <1>1, <1>2 DEF ReadStep

\* What it finds are messages.
LEMMA ReadingType ==
  ASSUME NEW s \in Seq(Byte), NEW p \in 1 .. Len(s) + 1
  PROVE  Reading(s)[p] \in Seq(MessageValue)
<1> DEFINE L == Len(s)
           P(n) == \A k \in 1 .. L + 1 : k + n >= L => Reading(s)[k] \in Seq(MessageValue)
           S == {n \in Nat : P(n)}
<1>0. << >> \in Seq(MessageValue)
  BY EmptySeq
<1>1. P(0)
  <2> SUFFICES ASSUME NEW k \in 1 .. L + 1, k + 0 >= L
               PROVE  Reading(s)[k] \in Seq(MessageValue)
    OBVIOUS
  <2>1. k >= L
    OBVIOUS
  <2> QED
    BY <1>0, <2>1, ReadingCases
<1>2. ASSUME NEW n \in Nat, P(n)
      PROVE  P(n + 1)
  <2> SUFFICES ASSUME NEW k \in 1 .. L + 1, k + (n + 1) >= L
               PROVE  Reading(s)[k] \in Seq(MessageValue)
    OBVIOUS
  <2>1. CASE k >= L
    BY <1>0, <2>1, ReadingCases
  <2>2. CASE k < L
    <3>1. \A i \in k + 1 .. L + 1 : Reading(s)[i] \in Seq(MessageValue)
      BY <1>2
    <3> HIDE DEF P
    <3>2. Reading(s)[k + 1] \in Seq(MessageValue) /\ Reading(s)[k + 2] \in Seq(MessageValue)
      BY <2>2, <3>1
    <3>3. CASE k + 4 <= L /\ SeenAt(s, k) <= L
      <4> DEFINE last == LastAt(s, k)
                 m == Message(s[k + 2], SubSeq(s, k + 5, last))
      <4>1. SizeAt(s, k) \in Nat
        BY <2>2, <3>3, SizeAtNat
      <4>2. last \in k + 4 .. L
        BY <3>3, <4>1 DEF LastAt, SeenAt
      <4> HIDE DEF last
      <4>3. SubSeq(s, k + 5, last) \in Seq(Byte)
        BY <4>2
      <4>4. s[k + 2] \in Byte
        BY <3>3
      <4>5. m \in MessageValue
        BY <4>3, <4>4 DEF MessageValue, Message
      <4>6. last + 1 \in k + 1 .. L + 1
        BY <4>2
      <4> HIDE DEF m
      <4>7. << m >> \o Reading(s)[last + 1] \in Seq(MessageValue)
        <5>1. << m >> \in Seq(MessageValue)
          BY <4>5
        <5> QED
          BY <3>1, <4>6, <5>1, ConcatProperties
      <4> QED
        BY <2>2, <3>2, <3>3, <4>7, ReadingCases DEF m, last
    <3>4. CASE k + 4 > L
      BY <1>0, <2>2, <3>2, <3>4, ReadingCases
    <3>5. CASE k + 4 <= L /\ SeenAt(s, k) > L
      BY <1>0, <2>2, <3>2, <3>5, ReadingCases
    <3>6. k + 4 <= L => SeenAt(s, k) \in Nat
      BY SizeAtNat DEF SeenAt, LastAt
    <3> QED
      BY <3>3, <3>4, <3>5, <3>6
  <2> QED
    BY <2>1, <2>2
<1>3. P(L)
  <2>1. 0 \in S /\ \A n \in Nat : n \in S => n + 1 \in S
    <3> HIDE DEF P
    <3> QED
      BY <1>1, <1>2
  <2>2. L \in Nat
    OBVIOUS
  <2> HIDE DEF S
  <2>3. L \in S
    BY <2>1, <2>2, InductiveSet
  <2> HIDE DEF P
  <2> QED
    BY <2>3 DEF S
<1> QED
  BY <1>3

----------------------------------------------------------------------------
(* Where the decoder is in what it has received.                           *)

\* The bytes it has looked at, how many of them belong to the frame it is in, and
\* where that frame begins.
Scanned == Len(received) - Len(data)

Taken ==
  CASE state = "START"          -> 0
    [] state = "MAGIC1_FOUND"   -> 1
    [] state = "MAGIC2_FOUND"   -> 2
    [] state = "TYPE_RECEIVED"  -> 3
    [] state = "SIZE1_RECEIVED" -> 4
    [] state = "RECEIVING_DATA" -> 5 + Len(content)

Begin == Scanned + 1 - Taken

\* The chunk is the end of what has been received.
ChunkLast ==
  /\ Len(data) <= Len(received)
  /\ \A j \in 1 .. Len(data) : data[j] = received[Scanned + j]

\* The decoder's variables hold the frame it is in, as far as it has come.
InFrame ==
  /\ Begin >= 1
  /\ state # "START" => received[Begin] = MAGIC_WORD_1
  /\ state \notin {"START", "MAGIC1_FOUND"} => received[Begin + 1] = MAGIC_WORD_2
  /\ state \in {"TYPE_RECEIVED", "SIZE1_RECEIVED"} => received[Begin + 2] = temp_type
  /\ state = "SIZE1_RECEIVED" => received[Begin + 3] = temp_size1
  /\ state = "RECEIVING_DATA" =>
       /\ received[Begin + 2] = type
       /\ SizeAt(received, Begin) = size
       /\ \A j \in 1 .. Len(content) : content[j] = received[Begin + 4 + j]
       /\ size = 0 \/ Len(content) < size

Framed == ChunkLast /\ InFrame

\* Whatever comes next, the messages dispatched are those found so far: the others
\* will be found from the beginning of the frame on.
Extends(s) ==
  Len(s) >= Len(received) /\ \A j \in 1 .. Len(received) : s[j] = received[j]

SoFar ==
  \A s \in Seq(Byte) : Extends(s) => MessagesFrom(s) = dispatched \o Reading(s)[Begin]

\* These are numbers.
LEMMA TypeFacts ==
  ASSUME TypeOK
  PROVE  /\ size \in Nat /\ Len(content) \in Nat /\ Len(data) \in Nat /\ Len(received) \in Nat
         /\ Len(content) <= size
         /\ Scanned \in Int /\ Taken \in Nat /\ Begin \in Int
         /\ data = << >> <=> Len(data) = 0
<1>1. maxlen \in Nat
  <2>1. Base * Base \in Nat /\ Base * Base > 0
    BY ByteAssumption
  <2> QED
    BY <2>1 DEF maxlen
<1>2. size \in Nat /\ Len(content) \in Nat /\ Len(data) \in Nat /\ Len(received) \in Nat
  BY <1>1 DEF TypeOK
<1>3. Taken \in Nat
  BY <1>2 DEF TypeOK, DecoderState, Taken
<1> QED
  BY <1>2, <1>3 DEF TypeOK, Scanned, Begin

\* One byte more is looked at.
LEMMA ScanByte ==
  ASSUME TypeOK, ChunkLast, data # << >>, data' = Tail(data), received' = received
  PROVE  /\ Scanned + 1 \in 1 .. Len(received)
         /\ Head(data) = received[Scanned + 1]
         /\ Scanned' = Scanned + 1
         /\ ChunkLast'
<1>1. /\ Len(data) \in Nat /\ Len(received) \in Nat /\ Len(data) > 0
      /\ Len(data') = Len(data) - 1
      /\ Head(data) = data[1]
      /\ \A j \in 1 .. Len(data') : data'[j] = data[j + 1]
  BY HeadTailProperties DEF TypeOK
<1>2. Scanned' = Scanned + 1 /\ Scanned \in Nat /\ Scanned + 1 <= Len(received)
  BY <1>1 DEF Scanned, ChunkLast
<1>3. Head(data) = received[Scanned + 1]
  <2>1. 1 \in 1 .. Len(data)
    BY <1>1
  <2> QED
    BY <1>1, <2>1 DEF ChunkLast
<1>4. ASSUME NEW j \in 1 .. Len(data')
      PROVE  data'[j] = received'[Scanned' + j]
  <2>1. j + 1 \in 1 .. Len(data) /\ Scanned' + j = Scanned + (j + 1)
    BY <1>1, <1>2
  <2> QED
    BY <1>1, <2>1 DEF ChunkLast
<1>5. Len(data') <= Len(received')
  BY <1>1 DEF ChunkLast
<1>6. ChunkLast'
  BY <1>4, <1>5 DEF ChunkLast
<1> QED
  BY <1>1, <1>2, <1>3, <1>6

\* No frame begins at the next byte; or the first byte of one is there, but not the second.
NoFrameHere ==
  Begin \in 1 .. Len(received) /\ received[Begin] # MAGIC_WORD_1

BrokenHere ==
  /\ Begin \in 1 .. Len(received) - 1
  /\ received[Begin] = MAGIC_WORD_1 /\ received[Begin + 1] # MAGIC_WORD_2

\* Each step in a header takes one byte of the frame, or leaves one or two bytes that
\* are no frame behind.
LEMMA HeaderFramed ==
  ASSUME TypeOK, Framed,
         Start \/ Magic1Found \/ Magic2Found \/ TypeReceived \/ Size1Received
  PROVE  /\ Framed'
         /\ \/ Begin' = Begin
            \/ NoFrameHere /\ Begin' = Begin + 1
            \/ BrokenHere /\ Begin' = Begin + 2
<1>1. /\ data # << >> /\ data' = Tail(data) /\ received' = received
      /\ state \in {"START", "MAGIC1_FOUND", "MAGIC2_FOUND", "TYPE_RECEIVED", "SIZE1_RECEIVED"}
  BY DEF Start, Magic1Found, Magic2Found, TypeReceived, Size1Received, Scan, wireVars
<1>2. /\ Scanned + 1 \in 1 .. Len(received)
      /\ Head(data) = received[Scanned + 1]
      /\ Scanned' = Scanned + 1
      /\ ChunkLast'
  BY <1>1, ScanByte DEF Framed
<1>3. Begin = Scanned + 1 - Taken /\ Begin \in Nat /\ Begin >= 1 /\ Scanned \in Int
  BY TypeFacts DEF Begin, Framed, InFrame
<1>4. \A n \in Nat : Taken' = n => Begin' = (Scanned + 2) - n
  BY <1>2, <1>3 DEF Begin
<1>5. CASE Start
  <2>1. Taken = 0 /\ Begin = Scanned + 1
    BY <1>3, <1>5 DEF Start, Scan, Taken
  <2>2. CASE Head(data) = MAGIC_WORD_1
    <3>1. state' = "MAGIC1_FOUND" /\ Taken' = 1
      BY <1>5, <2>2 DEF Start, Taken
    <3>2. Begin' = Begin
      BY <1>3, <1>4, <2>1, <3>1
    <3> QED
      BY <1>1, <1>2, <1>3, <2>1, <2>2, <3>1, <3>2 DEF Framed, InFrame
  <2>3. CASE Head(data) # MAGIC_WORD_1
    <3>1. state' = "START" /\ Taken' = 0
      BY <1>5, <2>3 DEF Start, Taken
    <3>2. Begin' = Begin + 1
      BY <1>3, <1>4, <2>1, <3>1
    <3>3. NoFrameHere
      BY <1>2, <2>1, <2>3 DEF NoFrameHere
    <3> QED
      BY <1>2, <1>3, <3>1, <3>2, <3>3 DEF Framed, InFrame
  <2> QED
    BY <2>2, <2>3
<1>6. CASE Magic1Found
  <2>1. Taken = 1 /\ Begin = Scanned /\ received[Begin] = MAGIC_WORD_1
    BY <1>3, <1>6 DEF Magic1Found, Scan, Taken, Framed, InFrame
  <2>2. CASE Head(data) = MAGIC_WORD_2
    <3>1. state' = "MAGIC2_FOUND" /\ Taken' = 2
      BY <1>6, <2>2 DEF Magic1Found, Taken
    <3>2. Begin' = Begin
      BY <1>3, <1>4, <2>1, <3>1
    <3> QED
      BY <1>1, <1>2, <1>3, <2>1, <2>2, <3>1, <3>2 DEF Framed, InFrame
  <2>3. CASE Head(data) # MAGIC_WORD_2
    <3>1. state' = "START" /\ Taken' = 0
      BY <1>6, <2>3 DEF Magic1Found, Taken
    <3>2. Begin' = Begin + 2
      BY <1>3, <1>4, <2>1, <3>1
    <3>3. BrokenHere
      BY <1>2, <1>3, <2>1, <2>3, TypeFacts DEF BrokenHere
    <3> QED
      BY <1>2, <1>3, <3>1, <3>2, <3>3 DEF Framed, InFrame
  <2> QED
    BY <2>2, <2>3
<1>7. CASE Magic2Found
  <2>1. /\ Taken = 2 /\ Begin + 2 = Scanned + 1
        /\ received[Begin] = MAGIC_WORD_1 /\ received[Begin + 1] = MAGIC_WORD_2
    BY <1>3, <1>7 DEF Magic2Found, Scan, Taken, Framed, InFrame
  <2>2. state' = "TYPE_RECEIVED" /\ Taken' = 3 /\ temp_type' = Head(data)
    BY <1>7 DEF Magic2Found, Taken
  <2>3. Begin' = Begin
    BY <1>3, <1>4, <2>1, <2>2
  <2> QED
    BY <1>1, <1>2, <1>3, <2>1, <2>2, <2>3 DEF Framed, InFrame
<1>8. CASE TypeReceived
  <2>1. /\ Taken = 3 /\ Begin + 3 = Scanned + 1
        /\ received[Begin] = MAGIC_WORD_1 /\ received[Begin + 1] = MAGIC_WORD_2
        /\ received[Begin + 2] = temp_type
    BY <1>3, <1>8 DEF TypeReceived, Scan, Taken, Framed, InFrame
  <2>2. /\ state' = "SIZE1_RECEIVED" /\ Taken' = 4
        /\ temp_size1' = Head(data) /\ temp_type' = temp_type
    BY <1>8 DEF TypeReceived, Taken
  <2>3. Begin' = Begin
    BY <1>3, <1>4, <2>1, <2>2
  <2> QED
    BY <1>1, <1>2, <1>3, <2>1, <2>2, <2>3 DEF Framed, InFrame
<1>9. CASE Size1Received
  <2>1. /\ Taken = 4 /\ Begin + 4 = Scanned + 1
        /\ received[Begin] = MAGIC_WORD_1 /\ received[Begin + 1] = MAGIC_WORD_2
        /\ received[Begin + 2] = temp_type /\ received[Begin + 3] = temp_size1
    BY <1>3, <1>9 DEF Size1Received, Scan, Taken, Framed, InFrame
  <2>2. /\ state' = "RECEIVING_DATA" /\ content' = << >> /\ type' = temp_type
        /\ size' = Head(data) * Base + temp_size1
    BY <1>9 DEF Size1Received
  <2>9. Taken' = 5
    BY <2>2 DEF Taken
  <2>3. Begin' = Begin
    BY <1>3, <1>4, <2>1, <2>9
  <2>4. Head(data) \in Nat /\ temp_size1 \in Nat
    BY <1>1, ByteAssumption, HeadTailProperties DEF TypeOK, Byte
  <2>5. Head(data) * Base + temp_size1 = temp_size1 + Base * Head(data)
    BY <2>4, ByteAssumption
  <2>6. SizeAt(received, Begin) = size'
    BY <1>2, <2>1, <2>2, <2>5 DEF SizeAt
  <2>7. size' \in Nat
    BY <2>2, <2>4, ByteAssumption
  <2>8. Len(content') = 0
    BY <2>2
  <2> QED
    BY <1>1, <1>2, <1>3, <2>1, <2>2, <2>3, <2>6, <2>7, <2>8 DEF Framed, InFrame, SizeAt
<1> QED
  BY <1>5, <1>6, <1>7, <1>8, <1>9

\* So the messages to come are found from where the next frame may begin.
LEMMA HeaderSoFar ==
  ASSUME TypeOK, Framed, SoFar,
         Start \/ Magic1Found \/ Magic2Found \/ TypeReceived \/ Size1Received
  PROVE  SoFar'
<1>1. received' = received /\ dispatched' = dispatched
  BY DEF Start, Magic1Found, Magic2Found, TypeReceived, Size1Received, wireVars
<1>2. ASSUME NEW s \in Seq(Byte), Extends(s)
      PROVE  Reading(s)[Begin'] = Reading(s)[Begin]
  <2>1. Len(s) \in Nat /\ Len(received) \in Nat /\ Len(received) <= Len(s)
    BY <1>2, TypeFacts DEF Extends
  <2>2. CASE NoFrameHere /\ Begin' = Begin + 1
    <3>1. s[Begin] # MAGIC_WORD_1 /\ Begin \in 1 .. Len(s)
      BY <1>2, <2>1, <2>2 DEF NoFrameHere, Extends
    <3>2. CASE Begin = Len(s)
      <4>1. Begin \in 1 .. Len(s) + 1 /\ Begin + 1 \in 1 .. Len(s) + 1
        BY <2>1, <3>1
      <4>2. Begin >= Len(s) /\ Begin + 1 >= Len(s)
        BY <2>1, <3>2
      <4> QED
        BY <2>2, <4>1, <4>2, ReadingCases
    <3>3. CASE Begin < Len(s)
      <4>1. Begin \in 1 .. Len(s) + 1
        BY <2>1, <3>1
      <4> QED
        BY <2>2, <3>1, <3>3, <4>1, ReadingCases
    <3> QED
      BY <2>1, <3>1, <3>2, <3>3
  <2>3. CASE BrokenHere /\ Begin' = Begin + 2
    <3>1. /\ s[Begin] = MAGIC_WORD_1 /\ s[Begin + 1] # MAGIC_WORD_2
          /\ Begin \in 1 .. Len(s) /\ Begin < Len(s)
      BY <1>2, <2>1, <2>3 DEF BrokenHere, Extends
    <3>2. Begin \in 1 .. Len(s) + 1
      BY <2>1, <3>1
    <3> QED
      BY <2>3, <3>1, <3>2, ReadingCases
  <2> QED
    BY <2>2, <2>3, HeaderFramed
<1>3. \A s : Extends(s)' <=> Extends(s)
  BY <1>1 DEF Extends
<1> QED
  BY <1>1, <1>2, <1>3 DEF SoFar

\* A step in the data: it copies what the chunk has of the message, which is complete
\* when its last byte has come.
LEMMA DataFramed ==
  ASSUME TypeOK, Framed, ReceivingData
  PROVE  /\ Framed'
         /\ \A j \in 1 .. Len(content') : content'[j] = received[Begin + 4 + j]
         /\ \/ Len(content') # size /\ Begin' = Begin
            \/ /\ Len(content') = size
               /\ Begin' = LastAt(received, Begin) + 1
               /\ LastAt(received, Begin) \in Begin + 4 .. Len(received)
               /\ SeenAt(received, Begin) <= Len(received)
<1> DEFINE missing == size - Len(content)
           sz == IF missing < Len(data) THEN missing ELSE Len(data)
<1>1. /\ size \in Nat /\ Len(content) \in Nat /\ Len(data) \in Nat /\ Len(received) \in Nat
      /\ Len(content) <= size
      /\ Scanned = Len(received) - Len(data) /\ Len(data) <= Len(received) /\ Len(data) > 0
      /\ content \in Seq(Byte) /\ data \in Seq(Byte)
  BY TypeFacts DEF Framed, ChunkLast, ReceivingData, Scanned, TypeOK
<1>2. /\ state = "RECEIVING_DATA" /\ received' = received /\ size' = size /\ type' = type
      /\ content' = content \o SubSeq(data, 1, sz)
      /\ data' = SubSeq(data, sz + 1, Len(data))
      /\ Len(content') = size => state' = "START"
      /\ Len(content') # size => state' = state
  BY DEF ReceivingData, wireVars
<1>3. sz \in 0 .. Len(data) /\ sz <= missing
  BY <1>1
<1>4. Begin + 4 + Len(content) = Scanned /\ Begin \in Int /\ Begin >= 1
  <2>1. Taken = 5 + Len(content)
    BY <1>2 DEF Taken
  <2> QED
    BY <1>1, <2>1, TypeFacts DEF Begin, Framed, InFrame
<1>5. missing = 0 <=> size = 0
  BY <1>1, <1>2 DEF Framed, InFrame
<1> HIDE DEF sz
<1>6. /\ SubSeq(data, 1, sz) \in Seq(Byte) /\ Len(SubSeq(data, 1, sz)) = sz
      /\ \A j \in 1 .. sz : SubSeq(data, 1, sz)[j] = data[j]
  BY <1>1, <1>3
<1>7. /\ Len(content') = Len(content) + sz
      /\ \A j \in 1 .. Len(content) : content'[j] = content[j]
      /\ \A j \in 1 .. sz : content'[Len(content) + j] = data[j]
  BY <1>1, <1>2, <1>3, <1>6
<1>8. /\ Len(data') = Len(data) - sz
      /\ \A j \in 1 .. Len(data') : data'[j] = data[sz + j]
  BY <1>1, <1>2, <1>3
<1>9. /\ Scanned' = Scanned + sz /\ Scanned' \in Nat
      /\ Len(content') = Len(content) + sz /\ Len(content') \in Nat /\ sz \in Nat
  <2>1. Scanned' = Len(received) - Len(data')
    BY <1>2 DEF Scanned
  <2>2. Len(content') = Len(content) + sz /\ Len(data') = Len(data) - sz
    BY <1>7, <1>8
  <2> QED
    BY <1>1, <1>3, <2>1, <2>2
<1>10. ASSUME NEW j \in 1 .. Len(content')
       PROVE  content'[j] = received[Begin + 4 + j]
  <2>1. CASE j <= Len(content)
    BY <1>1, <1>2, <1>7, <2>1 DEF Framed, InFrame
  <2>2. CASE j > Len(content)
    <3> DEFINE i == j - Len(content)
    <3>1. i \in 1 .. sz /\ i \in 1 .. Len(data) /\ Len(content) + i = j
      BY <1>1, <1>3, <1>7, <2>2
    <3>2. data[i] = received[Scanned + i]
      BY <3>1 DEF Framed, ChunkLast
    <3>3. Scanned + i = Begin + 4 + j
      BY <1>1, <1>4, <3>1
    <3> QED
      BY <1>7, <3>1, <3>2, <3>3
  <2> QED
    BY <1>1, <1>3, <1>7, <2>1, <2>2
<1>11. ChunkLast'
  <2>1. Len(data') <= Len(received')
    BY <1>1, <1>2, <1>3, <1>8
  <2>2. ASSUME NEW j \in 1 .. Len(data')
        PROVE  data'[j] = received'[Scanned' + j]
    <3>1. sz + j \in 1 .. Len(data) /\ Scanned' + j = Scanned + (sz + j)
      BY <1>1, <1>3, <1>8, <1>9
    <3> QED
      BY <1>2, <1>8, <3>1 DEF Framed, ChunkLast
  <2> QED
    BY <2>1, <2>2 DEF ChunkLast
<1>12. SizeAt(received, Begin) = size /\ LastAt(received, Begin) = Begin + 4 + size
  BY <1>2, <1>4 DEF Framed, InFrame, LastAt
<1>13. CASE Len(content') = size
  <2>1. Taken' = 0
    BY <1>2, <1>13 DEF Taken
  <2>2. Begin' = Scanned' + 1
    BY <1>1, <1>3, <1>9, <2>1 DEF Begin
  <2>3. Begin' = LastAt(received, Begin) + 1
    BY <1>1, <1>4, <1>9, <1>12, <1>13, <2>2
  <2>4. LastAt(received, Begin) \in Begin + 4 .. Len(received)
    BY <1>1, <1>3, <1>4, <1>9, <1>12, <1>13
  <2>5. SeenAt(received, Begin) <= Len(received)
    <3>1. CASE size = 0
      BY <1>1, <1>3, <1>4, <1>7, <1>12, <1>13, <3>1 DEF SeenAt
    <3>2. CASE size # 0
      BY <1>12, <2>4, <3>2 DEF SeenAt
    <3> QED
      BY <3>1, <3>2
  <2>6. InFrame'
    <3>1. Begin' >= 1
      BY <1>1, <1>4, <2>3, <2>4
    <3>2. state' = "START"
      BY <1>2, <1>13
    <3> QED
      BY <3>1, <3>2 DEF InFrame
  <2> QED
    BY <1>10, <1>11, <1>13, <2>3, <2>4, <2>5, <2>6 DEF Framed
<1>14. CASE Len(content') # size
  <2>1. Taken' = 5 + Len(content')
    BY <1>2, <1>14 DEF Taken
  <2>2. Begin' = (Scanned' + 1) - (5 + Len(content'))
    BY <1>9, <2>1 DEF Begin
  <2>3. Begin' = Begin
    <3>1. /\ Scanned' = Scanned + sz /\ Len(content') = Len(content) + sz
          /\ Begin + 4 + Len(content) = Scanned
          /\ Begin \in Int /\ sz \in Int /\ Len(content) \in Int
      BY <1>1, <1>4, <1>9
    <3>2. (Begin + 4 + Len(content)) + sz + 1 - (5 + (Len(content) + sz)) = Begin
      BY <3>1
    <3> QED
      BY <2>2, <3>1, <3>2
  <2>4. Len(content') < size
    BY <1>1, <1>3, <1>9, <1>14
  <2>5. InFrame'
    BY <1>2, <1>4, <1>10, <1>12, <1>14, <2>3, <2>4 DEF InFrame, Framed, SizeAt
  <2> QED
    BY <1>10, <1>11, <1>14, <2>3, <2>5 DEF Framed
<1> QED
  BY <1>13, <1>14

\* A message that is complete is what the stream holds at the beginning of its frame.
LEMMA DataSoFar ==
  ASSUME TypeOK, TypeOK', Framed, SoFar, ReceivingData
  PROVE  SoFar'
<1>1. received' = received /\ \A s : Extends(s)' <=> Extends(s)
  BY DEF ReceivingData, wireVars, Extends
<1>2. CASE Len(content') # size
  <2>1. dispatched' = dispatched /\ Begin' = Begin
    BY <1>2, DataFramed DEF ReceivingData
  <2> QED
    BY <1>1, <2>1 DEF SoFar
<1>3. CASE Len(content') = size
  <2> DEFINE last == LastAt(received, Begin)
             m == Message(type, content')
  <2>1. /\ dispatched' = Append(dispatched, m)
        /\ Begin' = last + 1 /\ last \in Begin + 4 .. Len(received)
        /\ SeenAt(received, Begin) <= Len(received)
        /\ \A j \in 1 .. Len(content') : content'[j] = received[Begin + 4 + j]
    BY <1>3, DataFramed DEF ReceivingData
  <2>2. /\ Begin \in Int /\ Begin >= 1 /\ Len(received) \in Nat /\ size \in Nat
        /\ received[Begin] = MAGIC_WORD_1 /\ received[Begin + 1] = MAGIC_WORD_2
        /\ received[Begin + 2] = type /\ SizeAt(received, Begin) = size
        /\ last = Begin + 4 + size
    BY TypeFacts DEF Framed, InFrame, ReceivingData, LastAt
  <2>3. m \in MessageValue /\ dispatched \in Seq(MessageValue) /\ content' \in Seq(Byte)
    BY DEF TypeOK, MessageValue, Message, ReceivingData
  <2> SUFFICES ASSUME NEW s \in Seq(Byte), Extends(s)
               PROVE  MessagesFrom(s) = dispatched' \o Reading(s)[Begin']
    BY <1>1 DEF SoFar
  <2>4. /\ Len(s) \in Nat /\ Len(received) <= Len(s)
        /\ \A j \in 1 .. Len(received) : s[j] = received[j]
    BY DEF Extends
  <2> HIDE DEF last, m
  <2>5. /\ s[Begin] = MAGIC_WORD_1 /\ s[Begin + 1] = MAGIC_WORD_2 /\ s[Begin + 2] = type
        /\ s[Begin + 3] = received[Begin + 3] /\ s[Begin + 4] = received[Begin + 4]
    <3>1. \A i \in 0 .. 4 : Begin + i \in 1 .. Len(received)
      BY <2>1, <2>2
    <3>2. \A i \in 0 .. 4 : s[Begin + i] = received[Begin + i]
      BY <2>4, <3>1
    <3> QED
      BY <2>2, <3>2
  <2>6. /\ SizeAt(s, Begin) = size /\ LastAt(s, Begin) = last
        /\ SeenAt(s, Begin) = SeenAt(received, Begin)
    BY <2>2, <2>5 DEF SizeAt, LastAt, SeenAt, last
  <2>7. SeenAt(s, Begin) <= Len(s)
    <3>1. SeenAt(s, Begin) \in Nat
      BY <2>2, <2>6 DEF SeenAt, last
    <3> QED
      BY <2>1, <2>2, <2>4, <2>6, <3>1
  <2>8. SubSeq(s, Begin + 5, last) = content'
    <3>1. \A i \in Begin + 5 .. last : s[i] \in Byte
      BY <2>1, <2>2, <2>4
    <3>2. /\ SubSeq(s, Begin + 5, last) \in Seq(Byte)
          /\ Len(SubSeq(s, Begin + 5, last)) = size
          /\ \A j \in 1 .. size : SubSeq(s, Begin + 5, last)[j] = s[Begin + 4 + j]
      <4> DEFINE b == Begin + 5
      <4>1. b \in Int /\ last \in Int /\ (last - b) + 1 = size
        BY <2>2
      <4>2. \A j \in 1 .. size : (b + j) - 1 = Begin + 4 + j
        BY <2>2
      <4> HIDE DEF b
      <4>3. /\ SubSeq(s, b, last) \in Seq(Byte)
            /\ Len(SubSeq(s, b, last)) = IF b <= last THEN (last - b) + 1 ELSE 0
            /\ \A j \in 1 .. (last - b) + 1 : SubSeq(s, b, last)[j] = s[(b + j) - 1]
        <5>1. \A i \in b .. last : s[i] \in Byte
          BY <3>1 DEF b
        <5> QED
          BY <4>1, <5>1, SubSeqProperties
      <4>4. Len(SubSeq(s, b, last)) = size
        BY <2>2, <4>1, <4>3
      <4> QED
        BY <4>1, <4>2, <4>3, <4>4 DEF b
    <3>3. ASSUME NEW j \in 1 .. size
          PROVE  s[Begin + 4 + j] = content'[j]
      <4>1. Begin + 4 + j \in 1 .. Len(received)
        BY <2>1, <2>2
      <4> QED
        BY <1>3, <2>1, <2>4, <4>1
    <3> QED
      BY <1>3, <2>3, <3>2, <3>3, SeqEqual
  <2>9. Reading(s)[Begin] = << m >> \o Reading(s)[last + 1]
    <3>1. Begin \in 1 .. Len(s) + 1 /\ Begin < Len(s) /\ Begin + 4 <= Len(s)
      BY <2>1, <2>2, <2>4
    <3>2. Reading(s)[Begin] = << Message(s[Begin + 2], SubSeq(s, Begin + 5, LastAt(s, Begin))) >>
                                \o Reading(s)[LastAt(s, Begin) + 1]
      BY <2>5, <2>7, <3>1, ReadingCases
    <3> QED
      BY <2>5, <2>6, <2>8, <3>2 DEF m
  <2>10. Reading(s)[last + 1] \in Seq(MessageValue)
    <3>1. Len(s) \in Nat /\ Len(received) <= Len(s)
      BY <2>4
    <3>2. last + 1 \in 1 .. Len(s) + 1
      BY <2>1, <2>2, <3>1
    <3> QED
      BY <3>2, ReadingType
  <2>11. dispatched \o (<< m >> \o Reading(s)[last + 1])
           = Append(dispatched, m) \o Reading(s)[last + 1]
    <3> DEFINE one == << m >>
               rest == Reading(s)[last + 1]
    <3>1. one \in Seq(MessageValue) /\ Append(dispatched, m) = dispatched \o one
      BY <2>3
    <3>2. rest \in Seq(MessageValue) /\ dispatched \in Seq(MessageValue)
      BY <2>3, <2>10
    <3> HIDE DEF one, rest
    <3>3. (dispatched \o one) \o rest = dispatched \o (one \o rest)
      <4>1. one \in Seq(MessageValue)
        BY <3>1
      <4> QED
        BY <3>2, <4>1, ConcatAssociative
    <3> QED
      BY <3>1, <3>3 DEF one, rest
  <2>12. MessagesFrom(s) = dispatched \o Reading(s)[Begin]
    BY DEF SoFar
  <2> QED
    BY <2>1, <2>9, <2>11, <2>12
<1> QED
  BY <1>2, <1>3

\* A chunk that comes is read on from where the decoder is.
LEMMA ChunkRead ==
  ASSUME TypeOK, TypeOK', Framed, SoFar, NEW n \in 1 .. RecvSize, Receive(n)
  PROVE  /\ Framed' /\ SoFar' /\ Begin' = Begin
         /\ Len(received) <= Len(received')
         /\ \A j \in 1 .. Len(received) : received'[j] = received[j]
<1>1. /\ data = << >> /\ received' = received \o data'
      /\ received \in Seq(Byte) /\ data' \in Seq(Byte)
      /\ state' = state /\ temp_type' = temp_type /\ temp_size1' = temp_size1
      /\ size' = size /\ type' = type /\ content' = content /\ dispatched' = dispatched
  BY DEF Receive, TypeOK, messageVars
<1>2. /\ Len(received) \in Nat /\ Len(data') \in Nat
      /\ Len(received') = Len(received) + Len(data')
      /\ \A j \in 1 .. Len(received) : received'[j] = received[j]
      /\ \A j \in 1 .. Len(data') : received'[Len(received) + j] = data'[j]
  BY <1>1
<1>3. Scanned = Len(received) /\ Scanned' = Len(received)
  BY <1>1, <1>2 DEF Scanned
<1>4. Begin' = Begin
  <2>1. Taken' = Taken
    BY <1>1 DEF Taken
  <2> QED
    BY <1>3, <2>1 DEF Begin
<1>5. ChunkLast'
  BY <1>2, <1>3 DEF ChunkLast
<1>6. Taken \in Nat /\ Begin = (Len(received) + 1) - Taken /\ Begin >= 1
  BY <1>3, TypeFacts DEF Begin, Framed, InFrame
<1>7. \A i \in Nat : i < Taken => received'[Begin + i] = received[Begin + i]
  <2> SUFFICES ASSUME NEW i \in Nat, i < Taken
               PROVE  Begin + i \in 1 .. Len(received)
    BY <1>2
  <2> QED
    BY <1>2, <1>6
<1>8. \A i \in 0 .. 4 : Taken >= i + 1 => received'[Begin + i] = received[Begin + i]
  <2> SUFFICES ASSUME NEW i \in 0 .. 4, Taken >= i + 1
               PROVE  received'[Begin + i] = received[Begin + i]
    OBVIOUS
  <2>1. i \in Nat /\ i < Taken
    BY <1>6
  <2> QED
    BY <1>7, <2>1
<1>9. InFrame'
  <2>0. /\ Taken >= 1 => received'[Begin] = received[Begin]
        /\ Taken >= 2 => received'[Begin + 1] = received[Begin + 1]
        /\ Taken >= 3 => received'[Begin + 2] = received[Begin + 2]
        /\ Taken >= 4 => received'[Begin + 3] = received[Begin + 3]
        /\ Taken >= 5 => received'[Begin + 4] = received[Begin + 4]
    <3>1. Begin + 0 = Begin
      BY <1>6
    <3> QED
      BY <1>8, <3>1
  <2>1. Len(content) \in Nat
    BY TypeFacts
  <2>2. /\ state # "START" => Taken >= 1
        /\ state \notin {"START", "MAGIC1_FOUND"} => Taken >= 2
        /\ state \in {"TYPE_RECEIVED", "SIZE1_RECEIVED"} => Taken >= 3
        /\ state = "SIZE1_RECEIVED" => Taken >= 4
        /\ state = "RECEIVING_DATA" => Taken = 5 + Len(content)
    BY <2>1 DEF Taken, TypeOK, DecoderState
  <2>7. ASSUME state = "RECEIVING_DATA"
        PROVE  /\ received'[Begin + 2] = received[Begin + 2]
               /\ SizeAt(received', Begin) = SizeAt(received, Begin)
               /\ \A j \in 1 .. Len(content) : received'[Begin + 4 + j] = received[Begin + 4 + j]
    <3>1. /\ received'[Begin + 2] = received[Begin + 2]
          /\ received'[Begin + 3] = received[Begin + 3]
          /\ received'[Begin + 4] = received[Begin + 4]
      BY <2>0, <2>1, <2>2, <2>7
    <3>2. ASSUME NEW j \in 1 .. Len(content)
          PROVE  received'[Begin + 4 + j] = received[Begin + 4 + j]
      <4>1. 4 + j \in Nat /\ 4 + j < Taken /\ Begin + (4 + j) = Begin + 4 + j
        BY <1>6, <2>1, <2>2, <2>7
      <4> QED
        BY <1>7, <4>1
    <3> QED
      BY <3>1, <3>2 DEF SizeAt
  <2> QED
    BY <1>1, <1>4, <2>0, <2>2, <2>7 DEF Framed, InFrame
<1>10. SoFar'
  <2>1. ASSUME NEW s, Extends(s)'
        PROVE  Extends(s)
    BY <1>2, <2>1 DEF Extends
  <2> QED
    BY <1>1, <1>4, <2>1 DEF SoFar
<1> QED
  BY <1>2, <1>4, <1>5, <1>9, <1>10 DEF Framed

\* The peer changes nothing of this.
LEMMA PeerRead ==
  ASSUME Framed, SoFar,
         UNCHANGED vars \/ Leave \/ (\E b \in Byte : SendNoise(b))
           \/ (\E t \in Type : \E m \in Sendable(t) : Send(m))
  PROVE  Framed' /\ SoFar' /\ Begin' = Begin /\ received' = received /\ dispatched' = dispatched
<1>1. UNCHANGED DecoderVars
  BY DEF vars, wireVars, DecoderVars, Leave, SendNoise, Send
<1>2. Taken' = Taken /\ Scanned' = Scanned
  BY <1>1 DEF DecoderVars, messageVars, Taken, Scanned
<1>3. Begin' = Begin
  BY <1>2 DEF Begin
<1> QED
  BY <1>1, <1>2, <1>3
     DEF DecoderVars, messageVars, Framed, ChunkLast, InFrame, SoFar, Extends

\* At first nothing has been received, and nothing is found in it.
LEMMA ReadInit ==
  ASSUME Init
  PROVE  Framed /\ SoFar /\ Begin = 1
<1>1. Taken = 0 /\ Scanned = 0
  BY DEF Init, Taken, Scanned
<1>2. Begin = 1
  BY <1>1 DEF Begin
<1>3. Framed
  BY <1>1, <1>2 DEF Init, Framed, ChunkLast, InFrame
<1>4. ASSUME NEW s \in Seq(Byte)
      PROVE  MessagesFrom(s) = dispatched \o Reading(s)[1]
  <2>1. Reading(s)[1] \in Seq(MessageValue)
    BY ReadingType
  <2> DEFINE rest == Reading(s)[1]
  <2>2. << >> \o rest = rest
    <3> HIDE DEF rest
    <3> QED
      BY <2>1, ConcatEmptySeq DEF rest
  <2> QED
    BY <2>2 DEF Init, MessagesFrom
<1> QED
  BY <1>2, <1>3, <1>4 DEF SoFar

\* When the chunk is read to its end, the frame the decoder is in is not complete.
LEMMA ReadToEnd ==
  ASSUME TypeOK, Framed, SoFar
  PROVE  StreamRead
<1> SUFFICES ASSUME data = << >>
             PROVE  dispatched = MessagesFrom(received)
  BY DEF StreamRead
<1>1. /\ Len(received) \in Nat /\ Taken \in Nat /\ Begin = (Len(received) + 1) - Taken
      /\ Begin \in Int /\ Begin >= 1 /\ Len(content) \in Nat
      /\ received \in Seq(Byte) /\ dispatched \in Seq(MessageValue)
  BY TypeFacts DEF Begin, Scanned, Framed, InFrame, TypeOK, MessageValue
<1>2. Begin \in 1 .. Len(received) + 1
  BY <1>1
<1>3. MessagesFrom(received) = dispatched \o Reading(received)[Begin]
  BY <1>1 DEF SoFar, Extends
<1>4. Reading(received)[Begin] = << >>
  <2>1. CASE Begin >= Len(received)
    BY <1>1, <1>2, <2>1, ReadingCases
  <2>2. CASE Begin < Len(received)
    <3>1. /\ Taken >= 2 /\ state \notin {"START", "MAGIC1_FOUND"}
          /\ received[Begin] = MAGIC_WORD_1 /\ received[Begin + 1] = MAGIC_WORD_2
      <4>1. Taken >= 2
        BY <1>1, <2>2
      <4>2. state \notin {"START", "MAGIC1_FOUND"}
        BY <4>1 DEF Taken
      <4> QED
        BY <4>1, <4>2 DEF Framed, InFrame
    <3>2. CASE state = "RECEIVING_DATA"
      <4>1. Begin + 4 + Len(content) = Len(received)
        BY <1>1, <3>2 DEF Taken
      <4>2. SeenAt(received, Begin) > Len(received)
        BY <1>1, <3>2, <4>1, TypeFacts DEF Framed, InFrame, SeenAt, LastAt
      <4>3. Begin + 4 <= Len(received)
        BY <1>1, <4>1
      <4> QED
        BY <1>1, <1>2, <2>2, <3>1, <4>2, <4>3, ReadingCases
    <3>3. CASE state # "RECEIVING_DATA"
      <4>1. Taken <= 4
        BY <3>1, <3>3 DEF Taken, TypeOK, DecoderState
      <4>2. Begin + 4 > Len(received)
        BY <1>1, <4>1
      <4> QED
        BY <1>1, <1>2, <2>2, <3>1, <4>2, ReadingCases
    <3> QED
      BY <3>2, <3>3
  <2> QED
    BY <1>1, <2>1, <2>2
<1> QED
  BY <1>1, <1>3, <1>4, ConcatEmptySeq

----------------------------------------------------------------------------
(* Where the messages sent are in the stream.                              *)

\* All that this connection's peer has sent.
Stream == received \o wire

FrameLen(m) == 5 + Len(m.data)

\* pos[k] is where the k-th message begins: they follow each other without overlap,
\* and every MAGIC_WORD_1 belongs to one of them.
Places(pos) ==
  /\ \A k \in 1 .. Len(sent) :
       /\ pos[k] \in Nat /\ pos[k] >= 1
       /\ pos[k] + FrameLen(sent[k]) <= Len(Stream) + 1
       /\ \A j \in 1 .. FrameLen(sent[k]) : Stream[(pos[k] + j) - 1] = Encoded(sent[k])[j]
  /\ \A k, l \in 1 .. Len(sent) : k < l => pos[k] + FrameLen(sent[k]) <= pos[l]
  /\ \A i \in 1 .. Len(Stream) : Stream[i] = MAGIC_WORD_1 =>
       \E k \in 1 .. Len(sent) : pos[k] <= i /\ i < pos[k] + FrameLen(sent[k])

\* The frames of the messages dispatched are behind the decoder, the others before it.
Passed(pos) ==
  /\ Len(dispatched) <= Len(sent)
  /\ \A k \in 1 .. Len(dispatched) :
       dispatched[k] = sent[k] /\ pos[k] + FrameLen(sent[k]) <= Begin
  /\ \A k \in Len(dispatched) + 1 .. Len(sent) : Begin <= pos[k]

OnTheWay == ~torn => \E pos : Places(pos) /\ Passed(pos)

\* The two bytes of a size make it up again.
LEMMA SizeSplit ==
  ASSUME NEW n \in Nat
  PROVE  n % Base \in Int /\ n \div Base \in Int /\ (n % Base) + (Base * (n \div Base)) = n
<1>1. Base \in Nat /\ Base > 0
  BY ByteAssumption
<1> QED
  BY <1>1

\* What the bytes of a frame are.
LEMMA EncodedIs ==
  ASSUME NEW m \in MessageValue
  PROVE  /\ Len(m.data) \in Nat /\ FrameLen(m) \in Nat /\ FrameLen(m) >= 5
         /\ Encoded(m) \in Seq(Int) /\ Len(Encoded(m)) = FrameLen(m)
         /\ Encoded(m)[1] = MAGIC_WORD_1 /\ Encoded(m)[2] = MAGIC_WORD_2
         /\ Encoded(m)[3] = m.type
         /\ Encoded(m)[4] + Base * Encoded(m)[5] = Len(m.data)
         /\ \A j \in 1 .. Len(m.data) : Encoded(m)[5 + j] = m.data[j]
<1> DEFINE n == Len(m.data)
           h == <<MAGIC_WORD_1, MAGIC_WORD_2, m.type, n % Base, n \div Base>>
<1>1. /\ m.data \in Seq(Byte) /\ m.type \in Byte /\ n \in Nat
      /\ Base \in Nat /\ Base > 1
      /\ \A b \in Byte : b \in Int
  BY ByteAssumption DEF MessageValue, Byte
<1>2. n % Base \in Int /\ n \div Base \in Int /\ (n % Base) + (Base * (n \div Base)) = n
  <2> HIDE DEF n
  <2> QED
    BY <1>1, SizeSplit
<1>3. h \in Seq(Int) /\ Len(h) = 5
  BY <1>1, <1>2, ByteAssumption
<1>4. m.data \in Seq(Int)
  BY <1>1
<1>5. /\ h[1] = MAGIC_WORD_1 /\ h[2] = MAGIC_WORD_2 /\ h[3] = m.type
      /\ h[4] = n % Base /\ h[5] = n \div Base
  OBVIOUS
<1>6. Encoded(m) = h \o m.data
  BY DEF Encoded
<1> HIDE DEF h
<1>7. /\ Encoded(m) \in Seq(Int) /\ Len(Encoded(m)) = 5 + n
      /\ \A i \in 1 .. 5 + n : Encoded(m)[i] = IF i <= 5 THEN h[i] ELSE m.data[i - 5]
  <2> DEFINE d == m.data
  <2>1. d \in Seq(Int) /\ Len(d) = n
    BY <1>4
  <2>2. Encoded(m) = h \o d
    BY <1>6
  <2> HIDE DEF d, n
  <2>3. /\ h \o d \in Seq(Int) /\ Len(h \o d) = Len(h) + Len(d)
        /\ \A i \in 1 .. Len(h) + Len(d) : (h \o d)[i] = IF i <= Len(h) THEN h[i] ELSE d[i - Len(h)]
    BY <1>3, <2>1, ConcatProperties
  <2> QED
    BY <1>3, <2>1, <2>2, <2>3 DEF d
<1>8. \A i \in 1 .. 5 : Encoded(m)[i] = h[i]
  BY <1>1, <1>7
<1>9. ASSUME NEW j \in 1 .. n
      PROVE  Encoded(m)[5 + j] = m.data[j]
  <2>1. 5 + j \in 1 .. 5 + n /\ ~ (5 + j <= 5) /\ (5 + j) - 5 = j
    BY <1>1
  <2> QED
    BY <1>7, <2>1
<1>10. Encoded(m)[4] + Base * Encoded(m)[5] = n
  <2>1. Encoded(m)[4] = n % Base /\ Encoded(m)[5] = n \div Base
    BY <1>5, <1>8
  <2> QED
    BY <1>2, <2>1
<1>11. FrameLen(m) = 5 + n /\ FrameLen(m) \in Nat /\ FrameLen(m) >= 5
  BY <1>1 DEF FrameLen
<1> QED
  BY <1>1, <1>5, <1>7, <1>8, <1>9, <1>10, <1>11

\* The stream starts with what has been received.
LEMMA StreamIs ==
  ASSUME TypeOK
  PROVE  /\ Stream \in Seq(Byte) /\ Len(received) \in Nat /\ Len(wire) \in Nat
         /\ Len(Stream) = Len(received) + Len(wire)
         /\ \A j \in 1 .. Len(received) : Stream[j] = received[j]
         /\ \A k \in 1 .. Len(sent) : sent[k] \in MessageValue
         /\ Len(sent) \in Nat /\ Len(dispatched) \in Nat
<1>1. /\ received \in Seq(Byte) /\ wire \in Seq(Byte)
      /\ sent \in Seq(MessageValue) /\ dispatched \in Seq(MessageValue)
  BY DEF TypeOK, MessageValue
<1>2. /\ Stream \in Seq(Byte) /\ Len(Stream) = Len(received) + Len(wire)
      /\ \A j \in 1 .. Len(received) + Len(wire) :
           Stream[j] = IF j <= Len(received) THEN received[j] ELSE wire[j - Len(received)]
  BY <1>1, ConcatProperties DEF Stream
<1>3. /\ Len(received) \in Nat /\ Len(wire) \in Nat /\ Len(sent) \in Nat /\ Len(dispatched) \in Nat
      /\ \A k \in 1 .. Len(sent) : sent[k] \in MessageValue
  BY <1>1
<1>4. \A j \in 1 .. Len(received) : Stream[j] = received[j]
  BY <1>2, <1>3
<1> QED
  BY <1>2, <1>3, <1>4

\* A frame that seems to begin where the decoder is, is that of the next message.
LEMMA NextFrame ==
  ASSUME TypeOK, Framed, NEW pos, Places(pos), Passed(pos),
         Begin \in 1 .. Len(received), received[Begin] = MAGIC_WORD_1
  PROVE  /\ Len(dispatched) + 1 \in 1 .. Len(sent)
         /\ pos[Len(dispatched) + 1] = Begin
<1>1. Begin \in 1 .. Len(Stream) /\ Stream[Begin] = MAGIC_WORD_1 /\ Begin \in Nat
  BY StreamIs
<1>2. PICK k \in 1 .. Len(sent) : pos[k] <= Begin /\ Begin < pos[k] + FrameLen(sent[k])
  BY <1>1 DEF Places
<1>3. /\ Len(dispatched) \in Nat /\ Len(sent) \in Nat
      /\ \A l \in 1 .. Len(sent) :
           pos[l] \in Nat /\ FrameLen(sent[l]) \in Nat /\ FrameLen(sent[l]) >= 5
  BY StreamIs, EncodedIs DEF Places
<1>4. k \notin 1 .. Len(dispatched)
  <2> SUFFICES ASSUME k \in 1 .. Len(dispatched)
               PROVE  FALSE
    OBVIOUS
  <2>1. pos[k] + FrameLen(sent[k]) <= Begin
    BY DEF Passed
  <2> QED
    BY <1>1, <1>2, <1>3, <2>1
<1>5. k \in Len(dispatched) + 1 .. Len(sent)
  BY <1>3, <1>4
<1>6. pos[k] = Begin
  <2>1. Begin <= pos[k]
    BY <1>5 DEF Passed
  <2> QED
    BY <1>1, <1>2, <1>3, <2>1
<1>7. k = Len(dispatched) + 1
  <2> SUFFICES ASSUME Len(dispatched) + 1 < k
               PROVE  FALSE
    BY <1>3, <1>5
  <2> DEFINE d == Len(dispatched) + 1
  <2>1. d \in 1 .. Len(sent) /\ d \in Len(dispatched) + 1 .. Len(sent) /\ d < k
    BY <1>3, <1>5
  <2> HIDE DEF d
  <2>2. Begin <= pos[d]
    BY <2>1 DEF Passed
  <2>3. pos[d] + FrameLen(sent[d]) <= pos[k]
    BY <2>1 DEF Places
  <2> QED
    BY <1>1, <1>3, <1>6, <2>1, <2>2, <2>3
<1> QED
  BY <1>3, <1>5, <1>6, <1>7

\* The decoder is never beyond what has been sent.
LEMMA BeginBound ==
  ASSUME TypeOK, Framed
  PROVE  Begin \in Nat /\ Begin >= 1 /\ Begin <= Len(Stream) + 1 /\ Len(Stream) \in Nat
<1>1. /\ Len(received) \in Nat /\ Len(data) \in Nat /\ Taken \in Nat /\ Begin \in Int
      /\ Begin = (Len(received) - Len(data)) + 1 - Taken /\ Begin >= 1
  BY TypeFacts DEF Begin, Scanned, Framed, InFrame
<1> QED
  BY <1>1, StreamIs

\* A message that is sent is the last of the stream.
LEMMA SendPlaces ==
  ASSUME TypeOK, TypeOK', Framed, OnTheWay, NEW m \in MessageValue, Send(m)
  PROVE  OnTheWay'
<1>1. /\ wire' = wire \o Encoded(m) /\ sent' = Append(sent, m) /\ torn' = torn
      /\ received' = received /\ dispatched' = dispatched /\ Begin' = Begin
  <2>1. UNCHANGED DecoderVars
    BY DEF Send
  <2>2. Taken' = Taken /\ Scanned' = Scanned
    BY <2>1 DEF DecoderVars, messageVars, Taken, Scanned
  <2>3. Begin' = Begin
    BY <2>2 DEF Begin
  <2> QED
    BY <2>1, <2>3 DEF Send, DecoderVars
<1>2. SUFFICES ASSUME ~torn
               PROVE  \E pos : Places(pos)' /\ Passed(pos)'
  BY <1>1 DEF OnTheWay
<1>3. PICK pos : Places(pos) /\ Passed(pos)
  BY <1>2 DEF OnTheWay
<1> DEFINE n == Len(sent)
           L == Len(Stream)
<1>4. /\ Len(m.data) \in Nat /\ FrameLen(m) \in Nat /\ FrameLen(m) >= 5
      /\ Encoded(m) \in Seq(Int) /\ Len(Encoded(m)) = FrameLen(m)
  BY EncodedIs
<1>5. /\ Len(Stream') = L + FrameLen(m)
      /\ \A i \in 1 .. L : Stream'[i] = Stream[i]
      /\ \A j \in 1 .. FrameLen(m) : Stream'[L + j] = Encoded(m)[j]
  <2>1. Stream \in Seq(Int) /\ received \in Seq(Int) /\ wire \in Seq(Int)
    <3>1. Byte \subseteq Int
      BY ByteAssumption DEF Byte
    <3>2. Stream \in Seq(Byte) /\ received \in Seq(Byte) /\ wire \in Seq(Byte)
      BY StreamIs DEF TypeOK
    <3> QED
      BY <3>1, <3>2, SeqMonotonic
  <2>2. Stream' = Stream \o Encoded(m)
    <3> DEFINE e == Encoded(m)
    <3>1. e \in Seq(Int) /\ Stream' = received \o (wire \o e)
      BY <1>1, <1>4 DEF Stream
    <3> HIDE DEF e
    <3>2. (received \o wire) \o e = received \o (wire \o e)
      <4>1. received \in Seq(Int) /\ wire \in Seq(Int) /\ e \in Seq(Int)
        BY <2>1, <3>1
      <4> QED
        BY <4>1, ConcatAssociative
    <3> QED
      BY <3>1, <3>2 DEF Stream, e
  <2>3. /\ Len(Stream \o Encoded(m)) = Len(Stream) + Len(Encoded(m))
        /\ \A i \in 1 .. Len(Stream) + Len(Encoded(m)) :
             (Stream \o Encoded(m))[i]
               = IF i <= Len(Stream) THEN Stream[i] ELSE Encoded(m)[i - Len(Stream)]
    BY <1>4, <2>1, ConcatProperties
  <2>4. Len(Stream) \in Nat
    BY <2>1
  <2>5. ASSUME NEW j \in 1 .. FrameLen(m)
        PROVE  Stream'[L + j] = Encoded(m)[j]
    <3>1. L + j \in 1 .. L + FrameLen(m) /\ ~ (L + j <= L) /\ (L + j) - L = j
      BY <1>4, <2>4
    <3> QED
      BY <1>4, <2>2, <2>3, <3>1
  <2>6. ASSUME NEW i \in 1 .. L
        PROVE  Stream'[i] = Stream[i]
    <3>1. i \in 1 .. L + FrameLen(m) /\ i <= L
      BY <1>4, <2>4
    <3> QED
      BY <1>4, <2>2, <2>3, <3>1
  <2> QED
    BY <1>4, <2>2, <2>3, <2>5, <2>6
<1>6. /\ n \in Nat /\ L \in Nat /\ Len(dispatched) \in Nat
      /\ Len(sent') = n + 1
      /\ \A k \in 1 .. n : sent'[k] = sent[k]
      /\ sent'[n + 1] = m
  <2>1. sent \in Seq(MessageValue)
    BY DEF TypeOK, MessageValue
  <2>2. n \in Nat /\ L \in Nat /\ Len(dispatched) \in Nat
    BY StreamIs
  <2> QED
    BY <1>1, <2>1, <2>2
<1>7. PICK new : (\A k \in 1 .. n : new[k] = pos[k]) /\ new[n + 1] = L + 1
  <2> DEFINE f == [k \in 1 .. n + 1 |-> IF k <= n THEN pos[k] ELSE L + 1]
  <2>1. (\A k \in 1 .. n : f[k] = pos[k]) /\ f[n + 1] = L + 1
    BY <1>6
  <2> HIDE DEF f
  <2> QED
    BY <2>1
<1>8. \A k \in 1 .. n : FrameLen(sent[k]) \in Nat /\ pos[k] \in Nat /\ pos[k] >= 1
                        /\ pos[k] + FrameLen(sent[k]) <= L + 1
  BY <1>3, StreamIs, EncodedIs DEF Places
<1> HIDE DEF n, L
<1>9. \A k \in 1 .. n + 1 : k = n + 1 \/ k \in 1 .. n
  BY <1>6
<1>10. Places(new)'
  <2>1. ASSUME NEW k \in 1 .. n + 1
        PROVE  /\ new[k] \in Nat /\ new[k] >= 1
               /\ new[k] + FrameLen(sent'[k]) <= Len(Stream') + 1
               /\ \A j \in 1 .. FrameLen(sent'[k]) :
                    Stream'[(new[k] + j) - 1] = Encoded(sent'[k])[j]
    <3>1. CASE k = n + 1
      <4>1. new[k] = L + 1 /\ sent'[k] = m
        BY <1>6, <1>7, <3>1
      <4>2. \A j \in 1 .. FrameLen(m) : ((L + 1) + j) - 1 = L + j
        BY <1>4, <1>6
      <4> QED
        BY <1>4, <1>5, <1>6, <4>1, <4>2
    <3>2. CASE k \in 1 .. n
      <4>1. new[k] = pos[k] /\ sent'[k] = sent[k]
        BY <1>6, <1>7, <3>2
      <4>2. ASSUME NEW j \in 1 .. FrameLen(sent[k])
            PROVE  Stream'[(pos[k] + j) - 1] = Encoded(sent[k])[j]
        <5>1. (pos[k] + j) - 1 \in 1 .. L
          BY <1>6, <1>8, <3>2
        <5>2. Stream[(pos[k] + j) - 1] = Encoded(sent[k])[j]
          BY <1>3, <3>2 DEF Places, n
        <5> QED
          BY <1>5, <5>1, <5>2
      <4>3. pos[k] + FrameLen(sent[k]) <= Len(Stream') + 1
        <5> DEFINE end == pos[k] + FrameLen(sent[k])
        <5>1. end \in Nat /\ end <= L + 1
          BY <1>8, <3>2
        <5> HIDE DEF end
        <5>2. end <= (L + FrameLen(m)) + 1
          BY <1>4, <1>6, <5>1
        <5> QED
          BY <1>5, <5>2 DEF end
      <4> QED
        BY <1>8, <3>2, <4>1, <4>2, <4>3
    <3> QED
      BY <1>9, <3>1, <3>2
  <2>2. ASSUME NEW k \in 1 .. n + 1, NEW l \in 1 .. n + 1, k < l
        PROVE  new[k] + FrameLen(sent'[k]) <= new[l]
    <3>1. k \in 1 .. n
      BY <1>6, <2>2
    <3>2. new[k] = pos[k] /\ sent'[k] = sent[k]
      BY <1>6, <1>7, <3>1
    <3>3. CASE l = n + 1
      BY <1>7, <1>8, <3>1, <3>2, <3>3
    <3>4. CASE l \in 1 .. n
      <4>1. new[l] = pos[l] /\ pos[k] + FrameLen(sent[k]) <= pos[l]
        BY <1>3, <1>7, <2>2, <3>1, <3>4 DEF Places, n
      <4> QED
        BY <3>2, <4>1
    <3> QED
      BY <1>9, <3>3, <3>4
  <2>3. ASSUME NEW i \in 1 .. Len(Stream'), Stream'[i] = MAGIC_WORD_1
        PROVE  \E k \in 1 .. n + 1 : new[k] <= i /\ i < new[k] + FrameLen(sent'[k])
    <3>1. CASE i \in 1 .. L
      <4>1. PICK k \in 1 .. n : pos[k] <= i /\ i < pos[k] + FrameLen(sent[k])
        BY <1>3, <1>5, <2>3, <3>1 DEF Places, n, L
      <4>2. k \in 1 .. n + 1 /\ new[k] = pos[k] /\ sent'[k] = sent[k]
        BY <1>6, <1>7
      <4> QED
        BY <4>1, <4>2
    <3>2. CASE i \notin 1 .. L
      <4>1. L + 1 <= i /\ i < (L + 1) + FrameLen(m)
        BY <1>4, <1>5, <1>6, <3>2
      <4>2. n + 1 \in 1 .. n + 1
        BY <1>6
      <4> QED
        BY <1>6, <1>7, <4>1, <4>2
    <3> QED
      BY <3>1, <3>2
  <2> QED
    BY <1>6, <2>1, <2>2, <2>3 DEF Places
<1>11. Passed(new)'
  <2>1. Len(dispatched) <= n /\ Begin <= L + 1 /\ Begin \in Nat
    BY <1>3, BeginBound DEF Passed, n, L
  <2>2. ASSUME NEW k \in 1 .. Len(dispatched)
        PROVE  dispatched[k] = sent'[k] /\ new[k] + FrameLen(sent'[k]) <= Begin
    <3>1. k \in 1 .. n
      BY <1>6, <2>1
    <3>2. dispatched[k] = sent[k] /\ pos[k] + FrameLen(sent[k]) <= Begin
      BY <1>3 DEF Passed
    <3> QED
      BY <1>6, <1>7, <3>1, <3>2
  <2>3. ASSUME NEW k \in Len(dispatched) + 1 .. n + 1
        PROVE  Begin <= new[k]
    <3>1. CASE k = n + 1
      BY <1>7, <2>1, <3>1
    <3>2. CASE k # n + 1
      <4>1. k \in 1 .. n /\ k \in Len(dispatched) + 1 .. n
        BY <1>6, <3>2
      <4> QED
        BY <1>3, <1>7, <4>1 DEF Passed, n
    <3> QED
      BY <3>1, <3>2
  <2>4. Len(dispatched) <= n + 1
    BY <1>6, <2>1
  <2> QED
    BY <1>1, <1>6, <2>2, <2>3, <2>4 DEF Passed
<1> QED
  BY <1>10, <1>11

\* A byte between the messages adds no place where one could begin.
LEMMA NoisePlaces ==
  ASSUME TypeOK, Framed, SoFar, OnTheWay, NEW b \in Byte, SendNoise(b)
  PROVE  OnTheWay'
<1>1. /\ wire' = Append(wire, b) /\ sent' = sent /\ received' = received
      /\ dispatched' = dispatched /\ Begin' = Begin
  BY PeerRead DEF SendNoise
<1>2. SUFFICES ASSUME ~torn'
               PROVE  \E pos : Places(pos)' /\ Passed(pos)'
  BY DEF OnTheWay
<1>3. ~torn /\ b # MAGIC_WORD_1
  BY <1>2 DEF SendNoise
<1>4. PICK pos : Places(pos) /\ Passed(pos)
  BY <1>3 DEF OnTheWay
<1>5. /\ Stream \in Seq(Byte) /\ Len(Stream) \in Nat
      /\ Len(Stream') = Len(Stream) + 1
      /\ \A i \in 1 .. Len(Stream) : Stream'[i] = Stream[i]
      /\ Stream'[Len(Stream) + 1] = b
  <2>1. /\ wire \in Seq(Byte) /\ received \in Seq(Byte) /\ Stream \in Seq(Byte)
        /\ << b >> \in Seq(Byte)
    BY StreamIs DEF TypeOK
  <2> DEFINE one == << b >>
  <2>2. Append(wire, b) = wire \o one /\ Append(Stream, b) = Stream \o one /\ one \in Seq(Byte)
    BY <2>1
  <2> HIDE DEF one
  <2>3. received \o (wire \o one) = (received \o wire) \o one
    <3>1. received \in Seq(Byte) /\ wire \in Seq(Byte) /\ one \in Seq(Byte)
      BY <2>1, <2>2
    <3> QED
      BY <3>1, ConcatAssociative
  <2>4. Stream' = Append(Stream, b)
    BY <1>1, <2>2, <2>3 DEF Stream
  <2> QED
    BY <2>1, <2>4
<1>6. \A k \in 1 .. Len(sent) : pos[k] \in Nat /\ FrameLen(sent[k]) \in Nat
  BY <1>4, StreamIs, EncodedIs DEF Places
<1>7. Places(pos)'
  <2>1. ASSUME NEW k \in 1 .. Len(sent)
        PROVE  /\ pos[k] \in Nat /\ pos[k] >= 1
               /\ pos[k] + FrameLen(sent[k]) <= Len(Stream') + 1
               /\ \A j \in 1 .. FrameLen(sent[k]) :
                    Stream'[(pos[k] + j) - 1] = Encoded(sent[k])[j]
    <3>1. pos[k] >= 1 /\ pos[k] + FrameLen(sent[k]) <= Len(Stream) + 1
      BY <1>4 DEF Places
    <3>2. pos[k] + FrameLen(sent[k]) <= Len(Stream') + 1
      BY <1>5, <1>6, <3>1
    <3>3. ASSUME NEW j \in 1 .. FrameLen(sent[k])
          PROVE  Stream'[(pos[k] + j) - 1] = Encoded(sent[k])[j]
      <4>1. (pos[k] + j) - 1 \in 1 .. Len(Stream)
        BY <1>5, <1>6, <3>1
      <4>2. Stream[(pos[k] + j) - 1] = Encoded(sent[k])[j]
        BY <1>4 DEF Places
      <4> QED
        BY <1>5, <4>1, <4>2
    <3> QED
      BY <1>6, <3>1, <3>2, <3>3
  <2>2. ASSUME NEW i \in 1 .. Len(Stream'), Stream'[i] = MAGIC_WORD_1
        PROVE  \E k \in 1 .. Len(sent) : pos[k] <= i /\ i < pos[k] + FrameLen(sent[k])
    <3>1. i # Len(Stream) + 1
      BY <1>3, <1>5, <2>2
    <3>2. i \in 1 .. Len(Stream) /\ Stream[i] = MAGIC_WORD_1
      BY <1>5, <2>2, <3>1
    <3> QED
      BY <1>4, <3>2 DEF Places
  <2> QED
    BY <1>1, <1>4, <2>1, <2>2 DEF Places
<1>8. Passed(pos)'
  BY <1>1, <1>4 DEF Passed
<1> QED
  BY <1>7, <1>8

\* Reading moves bytes from the wire to the decoder, not in the stream.
LEMMA ReceivePlaces ==
  ASSUME TypeOK, TypeOK', Framed, SoFar, OnTheWay, NEW n \in 1 .. RecvSize, Receive(n)
  PROVE  OnTheWay'
<1>1. /\ data' = SubSeq(wire, 1, n) /\ wire' = SubSeq(wire, n + 1, Len(wire))
      /\ received' = received \o data' /\ n <= Len(wire)
      /\ sent' = sent /\ torn' = torn /\ dispatched' = dispatched
  BY DEF Receive
<1>2. Begin' = Begin
  BY ChunkRead
<1>3. Stream' = Stream
  <2>1. wire \in Seq(Byte) /\ received \in Seq(Byte) /\ data' \in Seq(Byte) /\ wire' \in Seq(Byte)
    BY DEF TypeOK
  <2>2. data' \o wire' = wire
    <3>1. /\ 1 \in 1 .. Len(wire) + 1 /\ n \in 1 - 1 .. Len(wire)
          /\ Len(wire) \in n .. Len(wire)
      BY <1>1, <2>1, DecoderAssumption
    <3>2. SubSeq(wire, 1, n) \o SubSeq(wire, n + 1, Len(wire)) = SubSeq(wire, 1, Len(wire))
      BY <2>1, <3>1, ConcatAdjacentSubSeq
    <3> QED
      BY <1>1, <2>1, <3>2, SubSeqFull
  <2>3. (received \o data') \o wire' = received \o (data' \o wire')
    BY <2>1, ConcatAssociative
  <2> QED
    BY <1>1, <2>2, <2>3 DEF Stream
<1>4. \A pos : (Places(pos)' <=> Places(pos)) /\ (Passed(pos)' <=> Passed(pos))
  BY <1>1, <1>2, <1>3 DEF Places, Passed
<1> QED
  BY <1>1, <1>4 DEF OnTheWay

\* The bytes of a frame in the stream.
LEMMA FrameBytes ==
  ASSUME TypeOK, NEW pos, Places(pos), NEW k \in 1 .. Len(sent)
  PROVE  /\ pos[k] \in Nat /\ pos[k] >= 1
         /\ FrameLen(sent[k]) \in Nat /\ FrameLen(sent[k]) = 5 + Len(sent[k].data)
         /\ Len(sent[k].data) \in Nat
         /\ Stream[pos[k]] = MAGIC_WORD_1 /\ Stream[pos[k] + 1] = MAGIC_WORD_2
         /\ Stream[pos[k] + 2] = sent[k].type
         /\ Stream[pos[k] + 3] + Base * Stream[pos[k] + 4] = Len(sent[k].data)
         /\ \A j \in 1 .. Len(sent[k].data) : Stream[pos[k] + 4 + j] = sent[k].data[j]
<1>1. sent[k] \in MessageValue
  BY StreamIs
<1> DEFINE m == sent[k]
           e == Encoded(m)
           p == pos[k]
<1>2. /\ Len(m.data) \in Nat /\ FrameLen(m) \in Nat /\ FrameLen(m) >= 5
      /\ e[1] = MAGIC_WORD_1 /\ e[2] = MAGIC_WORD_2 /\ e[3] = m.type
      /\ e[4] + Base * e[5] = Len(m.data)
      /\ \A j \in 1 .. Len(m.data) : e[5 + j] = m.data[j]
  BY <1>1, EncodedIs
<1>3. /\ p \in Nat /\ p >= 1
      /\ \A j \in 1 .. FrameLen(m) : Stream[(p + j) - 1] = e[j]
  BY DEF Places
<1>4. FrameLen(m) = 5 + Len(m.data)
  BY DEF FrameLen
<1> HIDE DEF m, e, p
<1>5. /\ (p + 1) - 1 = p /\ (p + 2) - 1 = p + 1 /\ (p + 3) - 1 = p + 2
      /\ (p + 4) - 1 = p + 3 /\ (p + 5) - 1 = p + 4
  BY <1>3
<1>6. 1 \in 1 .. FrameLen(m) /\ 2 \in 1 .. FrameLen(m) /\ 3 \in 1 .. FrameLen(m)
      /\ 4 \in 1 .. FrameLen(m) /\ 5 \in 1 .. FrameLen(m)
  BY <1>2
<1>7. /\ Stream[p] = e[1] /\ Stream[p + 1] = e[2] /\ Stream[p + 2] = e[3]
      /\ Stream[p + 3] = e[4] /\ Stream[p + 4] = e[5]
  BY <1>3, <1>5, <1>6
<1>8. ASSUME NEW j \in 1 .. Len(m.data)
      PROVE  Stream[p + 4 + j] = m.data[j]
  <2>1. 5 + j \in 1 .. FrameLen(m) /\ (p + (5 + j)) - 1 = p + 4 + j
    BY <1>2, <1>3, <1>4
  <2>2. Stream[p + 4 + j] = e[5 + j]
    BY <1>3, <2>1
  <2> QED
    BY <1>2, <2>2
<1>9. /\ Stream[p] = MAGIC_WORD_1 /\ Stream[p + 1] = MAGIC_WORD_2 /\ Stream[p + 2] = m.type
      /\ Stream[p + 3] + Base * Stream[p + 4] = Len(m.data)
  BY <1>2, <1>7
<1> QED
  BY <1>2, <1>3, <1>4, <1>8, <1>9 DEF m, p

\* In a header the decoder leaves behind only bytes that begin no message.
LEMMA HeaderPlaces ==
  ASSUME TypeOK, Framed, OnTheWay,
         Start \/ Magic1Found \/ Magic2Found \/ TypeReceived \/ Size1Received
  PROVE  OnTheWay'
<1>1. /\ received' = received /\ wire' = wire /\ sent' = sent /\ torn' = torn
      /\ dispatched' = dispatched
  BY DEF Start, Magic1Found, Magic2Found, TypeReceived, Size1Received, wireVars
<1>2. Stream' = Stream
  BY <1>1 DEF Stream
<1>3. SUFFICES ASSUME ~torn
               PROVE  \E pos : Places(pos)' /\ Passed(pos)'
  BY <1>1 DEF OnTheWay
<1>4. PICK pos : Places(pos) /\ Passed(pos)
  BY <1>3 DEF OnTheWay
<1>5. Places(pos)'
  BY <1>1, <1>2, <1>4 DEF Places
<1>6. /\ Begin \in Nat /\ Len(dispatched) \in Nat /\ Len(sent) \in Nat
      /\ \A k \in 1 .. Len(sent) : FrameLen(sent[k]) \in Nat /\ pos[k] \in Nat
  BY <1>4, BeginBound, StreamIs, FrameBytes
<1>7. ASSUME Begin <= Begin', Begin' \in Nat,
             \A k \in Len(dispatched) + 1 .. Len(sent) : Begin' <= pos[k]
      PROVE  Passed(pos)'
  <2>1. ASSUME NEW k \in 1 .. Len(dispatched)
        PROVE  dispatched[k] = sent[k] /\ pos[k] + FrameLen(sent[k]) <= Begin'
    <3>1. k \in 1 .. Len(sent) /\ dispatched[k] = sent[k] /\ pos[k] + FrameLen(sent[k]) <= Begin
      BY <1>4, <1>6 DEF Passed
    <3> QED
      BY <1>6, <1>7, <3>1
  <2> QED
    BY <1>1, <1>4, <1>7, <2>1 DEF Passed
<1>8. CASE Begin' = Begin
  <2>1. \A k \in Len(dispatched) + 1 .. Len(sent) : Begin' <= pos[k]
    BY <1>4, <1>8 DEF Passed
  <2>2. Begin <= Begin' /\ Begin' \in Nat
    BY <1>6, <1>8
  <2> QED
    BY <1>5, <1>7, <2>1, <2>2
<1>9. CASE NoFrameHere /\ Begin' = Begin + 1
  <2>1. ASSUME NEW k \in Len(dispatched) + 1 .. Len(sent)
        PROVE  Begin + 1 <= pos[k]
    <3>1. k \in 1 .. Len(sent) /\ Begin <= pos[k]
      BY <1>4, <1>6 DEF Passed
    <3>2. pos[k] # Begin
      <4>1. Stream[pos[k]] = MAGIC_WORD_1
        BY <1>4, <3>1, FrameBytes
      <4>2. Stream[Begin] # MAGIC_WORD_1
        BY <1>9, StreamIs DEF NoFrameHere
      <4> QED
        BY <4>1, <4>2
    <3> QED
      BY <1>6, <3>1, <3>2
  <2>2. Begin <= Begin' /\ Begin' \in Nat
    BY <1>6, <1>9
  <2>3. \A k \in Len(dispatched) + 1 .. Len(sent) : Begin' <= pos[k]
    BY <1>9, <2>1
  <2> QED
    BY <1>5, <1>7, <2>2, <2>3
<1>10. CASE BrokenHere
  <2>1. /\ Begin \in 1 .. Len(received) /\ Begin + 1 \in 1 .. Len(received)
        /\ received[Begin] = MAGIC_WORD_1 /\ received[Begin + 1] # MAGIC_WORD_2
    BY <1>10, StreamIs DEF BrokenHere
  <2>2. Len(dispatched) + 1 \in 1 .. Len(sent) /\ pos[Len(dispatched) + 1] = Begin
    BY <1>4, <2>1, NextFrame
  <2>3. Stream[Begin + 1] = MAGIC_WORD_2
    BY <1>4, <2>2, FrameBytes
  <2> QED
    BY <2>1, <2>3, StreamIs
<1>11. \/ Begin' = Begin
       \/ NoFrameHere /\ Begin' = Begin + 1
       \/ BrokenHere
  BY HeaderFramed
<1> QED
  BY <1>8, <1>9, <1>10, <1>11

\* The message that is complete is the next of those sent.
LEMMA DataPlaces ==
  ASSUME TypeOK, TypeOK', Framed, OnTheWay, ReceivingData
  PROVE  OnTheWay'
<1>1. received' = received /\ wire' = wire /\ sent' = sent /\ torn' = torn
  BY DEF ReceivingData, wireVars
<1>2. Stream' = Stream
  BY <1>1 DEF Stream
<1>3. SUFFICES ASSUME ~torn
               PROVE  \E pos : Places(pos)' /\ Passed(pos)'
  BY <1>1 DEF OnTheWay
<1>4. PICK pos : Places(pos) /\ Passed(pos)
  BY <1>3 DEF OnTheWay
<1>5. Places(pos)'
  BY <1>1, <1>2, <1>4 DEF Places
<1>6. CASE Len(content') # size
  <2>1. dispatched' = dispatched /\ Begin' = Begin
    BY <1>6, DataFramed DEF ReceivingData
  <2>2. Passed(pos)'
    BY <1>1, <1>4, <2>1 DEF Passed
  <2> QED
    BY <1>5, <2>2
<1>7. CASE Len(content') = size
  <2> DEFINE n == Len(dispatched) + 1
             m == Message(type, content')
  <2>1. /\ dispatched' = Append(dispatched, m)
        /\ Begin' = LastAt(received, Begin) + 1
        /\ LastAt(received, Begin) \in Begin + 4 .. Len(received)
        /\ \A j \in 1 .. Len(content') : content'[j] = received[Begin + 4 + j]
    BY <1>7, DataFramed DEF ReceivingData
  <2>2. /\ received[Begin] = MAGIC_WORD_1 /\ received[Begin + 2] = type
        /\ SizeAt(received, Begin) = size /\ size \in Nat
        /\ LastAt(received, Begin) = Begin + 4 + size
    BY TypeFacts DEF Framed, InFrame, ReceivingData, LastAt
  <2>3. Begin \in Nat /\ Begin >= 1 /\ Len(received) \in Nat
    BY BeginBound, StreamIs
  <2>4. \A i \in 0 .. 4 : Begin + i \in 1 .. Len(received)
    BY <2>1, <2>3
  <2>5. Begin \in 1 .. Len(received)
    BY <2>1, <2>3
  <2>6. n \in 1 .. Len(sent) /\ pos[n] = Begin
    BY <1>4, <2>2, <2>5, NextFrame
  <2> HIDE DEF n, m
  <2>7. /\ \A i \in 0 .. 4 : Stream[Begin + i] = received[Begin + i]
        /\ \A j \in 1 .. size : Stream[Begin + 4 + j] = received[Begin + 4 + j]
    <3>1. \A j \in 1 .. size : Begin + 4 + j \in 1 .. Len(received)
      BY <2>1, <2>2, <2>3
    <3> QED
      BY <2>4, <3>1, StreamIs
  <2>8. /\ FrameLen(sent[n]) = 5 + Len(sent[n].data)
        /\ Stream[Begin + 2] = sent[n].type
        /\ Stream[Begin + 3] + Base * Stream[Begin + 4] = Len(sent[n].data)
        /\ \A j \in 1 .. Len(sent[n].data) : Stream[Begin + 4 + j] = sent[n].data[j]
    BY <1>4, <2>6, FrameBytes
  <2>9. sent[n].type = type /\ Len(sent[n].data) = size
    <3>1. /\ Stream[Begin + 2] = received[Begin + 2] /\ Stream[Begin + 3] = received[Begin + 3]
          /\ Stream[Begin + 4] = received[Begin + 4]
      BY <2>7
    <3> QED
      BY <2>2, <2>8, <3>1 DEF SizeAt
  <2>10. sent[n].data = content'
    <3>1. sent[n].data \in Seq(Byte) /\ content' \in Seq(Byte)
      BY <2>6, StreamIs DEF TypeOK, MessageValue
    <3>2. \A j \in 1 .. size : sent[n].data[j] = content'[j]
      BY <1>7, <2>1, <2>7, <2>8, <2>9
    <3> QED
      BY <1>7, <2>9, <3>1, <3>2, SeqEqual
  <2>11. sent[n] = m
    <3>1. sent[n] \in MessageValue
      BY <2>6, StreamIs
    <3>2. sent[n] = [type |-> sent[n].type, data |-> sent[n].data]
      BY <3>1 DEF MessageValue
    <3> QED
      BY <2>9, <2>10, <3>2 DEF m, Message
  <2>12. Begin' = Begin + FrameLen(sent[n])
    BY <2>1, <2>2, <2>3, <2>8, <2>9
  <2>13. /\ Len(dispatched') = n /\ n = Len(dispatched) + 1
         /\ \A k \in 1 .. Len(dispatched) : dispatched'[k] = dispatched[k]
         /\ dispatched'[n] = m
         /\ Len(dispatched) \in Nat /\ Len(sent) \in Nat
    BY <2>1, StreamIs DEF n, TypeOK
  <2>14. \A k \in 1 .. Len(sent) : FrameLen(sent[k]) \in Nat /\ pos[k] \in Nat
    BY <1>4, FrameBytes
  <2>15. ASSUME NEW k \in 1 .. n
         PROVE  dispatched'[k] = sent[k] /\ pos[k] + FrameLen(sent[k]) <= Begin'
    <3>1. CASE k = n
      BY <2>3, <2>6, <2>11, <2>12, <2>13, <2>14, <3>1
    <3>2. CASE k # n
      <4>1. k \in 1 .. Len(dispatched) /\ k \in 1 .. Len(sent)
        BY <2>6, <2>13, <3>2
      <4>2. dispatched[k] = sent[k] /\ pos[k] + FrameLen(sent[k]) <= Begin
        BY <1>4, <4>1 DEF Passed
      <4>3. Begin <= Begin' /\ Begin' \in Nat
        BY <2>3, <2>6, <2>12, <2>14
      <4> QED
        BY <2>3, <2>13, <2>14, <4>1, <4>2, <4>3
    <3> QED
      BY <3>1, <3>2
  <2>16. ASSUME NEW k \in n + 1 .. Len(sent)
         PROVE  Begin' <= pos[k]
    <3>1. k \in 1 .. Len(sent) /\ n < k
      BY <2>6, <2>13
    <3>2. pos[n] + FrameLen(sent[n]) <= pos[k]
      BY <1>4, <2>6, <3>1 DEF Places
    <3> QED
      BY <2>6, <2>12, <3>2
  <2>17. Passed(pos)'
    BY <1>1, <2>6, <2>13, <2>15, <2>16 DEF Passed
  <2> QED
    BY <1>5, <2>17
<1> QED
  BY <1>6, <1>7

\* At first nothing has been sent.
LEMMA PlacesInit ==
  ASSUME Init
  PROVE  OnTheWay
<1>1. /\ Len(sent) = 0 /\ Len(dispatched) = 0
      /\ 1 .. Len(sent) = {} /\ 1 .. Len(dispatched) = {}
      /\ Len(dispatched) + 1 .. Len(sent) = {}
  BY DEF Init
<1>2. 1 .. Len(Stream) = {}
  <2>1. Stream = << >> \o << >>
    BY DEF Init, Stream
  <2>2. Stream = << >>
    BY <2>1
  <2> QED
    BY <2>2
<1>3. Places(<< >>) /\ Passed(<< >>)
  BY <1>1, <1>2 DEF Places, Passed
<1> QED
  BY <1>3 DEF OnTheWay

\* When all that was sent has been read, all of it has been dispatched, but for a last
\* message without data: the decoder waits for a byte that follows it.
LEMMA EndOfStream ==
  ASSUME TypeOK, Framed, OnTheWay
  PROVE  Delivered
<1> SUFFICES ASSUME ~torn
             PROVE  /\ IsPrefix(dispatched, sent)
                    /\ wire = << >> /\ data = << >> =>
                         \/ dispatched = sent
                         \/ /\ Len(dispatched) = Len(sent) - 1
                            /\ sent[Len(sent)].data = << >>
  BY DEF Delivered
<1>1. PICK pos : Places(pos) /\ Passed(pos)
  BY DEF OnTheWay
<1>2. /\ sent \in Seq(MessageValue) /\ dispatched \in Seq(MessageValue)
      /\ Len(sent) \in Nat /\ Len(dispatched) \in Nat /\ Len(dispatched) <= Len(sent)
      /\ \A k \in 1 .. Len(dispatched) : dispatched[k] = sent[k]
  BY <1>1 DEF TypeOK, MessageValue, Passed
<1>3. IsPrefix(dispatched, sent)
  <2> DEFINE front == SubSeq(sent, 1, Len(dispatched))
  <2>1. front \in Seq(MessageValue) /\ Len(front) = Len(dispatched)
        /\ \A k \in 1 .. Len(dispatched) : front[k] = sent[k]
    BY <1>2
  <2>2. SubSeq(dispatched, 1, Len(dispatched)) = dispatched
    BY <1>2, SubSeqFull
  <2> HIDE DEF front
  <2>3. front = dispatched
    BY <1>2, <2>1, SeqEqual
  <2> QED
    BY <1>2, <2>2, <2>3 DEF IsPrefix, front
<1>4. ASSUME wire = << >>, data = << >>, Len(dispatched) < Len(sent)
      PROVE  Len(dispatched) = Len(sent) - 1 /\ sent[Len(sent)].data = << >>
  <2> DEFINE n == Len(dispatched) + 1
  <2>1. n \in 1 .. Len(sent) /\ n \in Len(dispatched) + 1 .. Len(sent)
    BY <1>2, <1>4
  <2>2. /\ Len(received) \in Nat /\ Len(Stream) = Len(received)
        /\ Taken \in Nat /\ Begin \in Nat /\ Begin >= 1
        /\ Begin = (Len(received) + 1) - Taken
    BY <1>4, TypeFacts, BeginBound, StreamIs DEF Begin, Scanned
  <2> HIDE DEF n
  <2>3. /\ pos[n] \in Nat /\ FrameLen(sent[n]) = 5 + Len(sent[n].data)
        /\ Len(sent[n].data) \in Nat
        /\ Begin <= pos[n] /\ pos[n] + FrameLen(sent[n]) <= Len(received) + 1
    BY <1>1, <2>1, <2>2, FrameBytes DEF Places, Passed
  <2>4. Taken >= 5 + Len(sent[n].data)
    BY <2>2, <2>3
  <2>5. state = "RECEIVING_DATA" /\ Taken = 5 + Len(content)
    <3>1. Taken >= 5
      BY <2>2, <2>3, <2>4
    <3>2. state = "RECEIVING_DATA"
      BY <3>1 DEF Taken, TypeOK, DecoderState
    <3> QED
      BY <3>2 DEF Taken
  <2>6. /\ received[Begin] = MAGIC_WORD_1 /\ SizeAt(received, Begin) = size
        /\ size = 0 \/ Len(content) < size
        /\ size \in Nat /\ Len(content) \in Nat
    BY <2>5, TypeFacts DEF Framed, InFrame
  <2>7. Stream[pos[n] + 3] + Base * Stream[pos[n] + 4] = Len(sent[n].data)
    BY <1>1, <2>1, FrameBytes
  <2>8. /\ Begin \in 1 .. Len(received)
        /\ Begin + 3 \in 1 .. Len(received) /\ Begin + 4 \in 1 .. Len(received)
    <3>1. Taken >= 5
      BY <2>2, <2>3, <2>4
    <3> QED
      BY <2>2, <3>1
  <2>9. pos[n] = Begin
    BY <1>1, <2>6, <2>8, NextFrame DEF n
  <2>10. Len(sent[n].data) = size
    <3>1. Stream[Begin + 3] = received[Begin + 3] /\ Stream[Begin + 4] = received[Begin + 4]
      BY <2>8, StreamIs
    <3> QED
      BY <2>6, <2>7, <2>9, <3>1 DEF SizeAt
  <2>11. size = 0 /\ Len(content) = 0
    BY <2>4, <2>5, <2>6, <2>10, TypeFacts
  <2>12. sent[n].data = << >>
    <3>1. sent[n].data \in Seq(Byte)
      <4>1. sent[n] \in MessageValue
        BY <2>1, StreamIs
      <4> QED
        BY <4>1 DEF MessageValue
    <3> QED
      BY <2>10, <2>11, <3>1, EmptySeq
  <2>13. n = Len(sent)
    <3> SUFFICES ASSUME n < Len(sent)
                 PROVE  FALSE
      BY <1>2, <2>1
    <3>1. n + 1 \in 1 .. Len(sent) /\ n \in Nat
      BY <1>2, <2>1
    <3>2. pos[n] + FrameLen(sent[n]) <= pos[n + 1]
      BY <1>1, <2>1, <3>1 DEF Places
    <3>3. /\ pos[n + 1] \in Nat /\ FrameLen(sent[n + 1]) \in Nat /\ FrameLen(sent[n + 1]) >= 5
          /\ pos[n + 1] + FrameLen(sent[n + 1]) <= Len(received) + 1
      <4>1. /\ pos[n + 1] \in Nat /\ FrameLen(sent[n + 1]) \in Nat
            /\ FrameLen(sent[n + 1]) = 5 + Len(sent[n + 1].data) /\ Len(sent[n + 1].data) \in Nat
        BY <1>1, <3>1, FrameBytes
      <4>2. pos[n + 1] + FrameLen(sent[n + 1]) <= Len(received) + 1
        BY <1>1, <2>2, <3>1 DEF Places
      <4> HIDE DEF FrameLen
      <4> QED
        BY <4>1, <4>2
    <3>4. Len(received) + 1 = Begin + 5 /\ FrameLen(sent[n]) >= 5
      BY <2>2, <2>3, <2>5, <2>11
    <3>5. FrameLen(sent[n]) \in Nat /\ pos[n] \in Nat
      BY <2>3
    <3>6. pos[n + 1] >= Len(received) + 1
      BY <2>2, <2>9, <3>2, <3>3, <3>4, <3>5
    <3>7. pos[n + 1] + FrameLen(sent[n + 1]) >= Len(received) + 6
      BY <2>2, <3>3, <3>6
    <3> QED
      BY <2>2, <3>3, <3>7
  <2> QED
    BY <1>2, <2>12, <2>13 DEF n
<1>5. ASSUME Len(dispatched) = Len(sent)
      PROVE  dispatched = sent
  BY <1>2, <1>5, SeqEqual
<1> QED
  BY <1>2, <1>3, <1>4, <1>5

----------------------------------------------------------------------------
(* The invariant, and what follows from it.                                *)

IInv == TypeOK /\ Framed /\ SoFar /\ OnTheWay

\* It holds at first.
LEMMA IInvInit == Init => IInv
  BY TypeInit, ReadInit, PlacesInit DEF IInv

\* The peer keeps it: what is sent comes behind all that was sent before, and once a
\* client has left, nothing is said of what was sent.
LEMMA IInvPeer ==
  ASSUME IInv,
         \/ \E t \in Type : \E m \in Sendable(t) : Send(m)
         \/ \E b \in Byte : SendNoise(b)
         \/ Leave
  PROVE  IInv'
<1>1. TypeOK /\ Framed /\ SoFar /\ OnTheWay
  BY DEF IInv
<1>2. TypeOK'
  BY <1>1, PeerStep
<1>3. Framed' /\ SoFar'
  BY <1>1, PeerRead
<1>4. OnTheWay'
  <2>1. ASSUME NEW t \in Type, NEW m \in Sendable(t), Send(m)
        PROVE  OnTheWay'
    <3>1. m \in MessageValue
      BY SendableFits DEF Fits, MessageValue
    <3> QED
      BY <1>1, <1>2, <2>1, <3>1, SendPlaces
  <2>2. ASSUME NEW b \in Byte, SendNoise(b)
        PROVE  OnTheWay'
    BY <1>1, <2>2, NoisePlaces
  <2>3. CASE Leave
    BY <2>3 DEF Leave, OnTheWay
  <2> QED
    BY <2>1, <2>2, <2>3
<1> QED
  BY <1>2, <1>3, <1>4 DEF IInv

\* The decoder keeps it, wherever a chunk ends.
LEMMA IInvDecoder ==
  ASSUME IInv, (\E n \in 1 .. RecvSize : Receive(n)) \/ Decode
  PROVE  IInv'
<1>1. TypeOK /\ Framed /\ SoFar /\ OnTheWay
  BY DEF IInv
<1>2. ASSUME NEW n \in 1 .. RecvSize, Receive(n)
      PROVE  IInv'
  <2>1. TypeOK'
    BY <1>1, <1>2, ReceiveStep
  <2> QED
    BY <1>1, <1>2, <2>1, ChunkRead, ReceivePlaces DEF IInv
<1>3. CASE Start \/ Magic1Found \/ Magic2Found \/ TypeReceived \/ Size1Received
  BY <1>1, <1>3, HeaderStep, HeaderFramed, HeaderSoFar, HeaderPlaces DEF IInv
<1>4. CASE ReceivingData
  <2>1. TypeOK'
    BY <1>1, <1>4, DataStep
  <2> QED
    BY <1>1, <1>4, <2>1, DataFramed, DataSoFar, DataPlaces DEF IInv
<1> QED
  BY <1>2, <1>3, <1>4 DEF Decode

\* The frame that decode() is in, what it has dispatched and what is still to come fit
\* together after every step of the peer, of TCPServer::receive() and of decode().
THEOREM Invariance == Spec => []IInv
<1>1. ASSUME IInv, [Next]_vars
      PROVE  IInv'
  <2>1. CASE UNCHANGED vars
    <3>1. TypeOK'
      BY <1>1, <2>1 DEF IInv, TypeOK, vars, wireVars, messageVars
    <3>2. Framed' /\ SoFar' /\ Begin' = Begin
      BY <1>1, <2>1, PeerRead DEF IInv
    <3>3. OnTheWay'
      <4>1. sent' = sent /\ dispatched' = dispatched /\ torn' = torn /\ Stream' = Stream
        BY <2>1 DEF vars, wireVars, Stream
      <4>2. \A pos : (Places(pos)' <=> Places(pos)) /\ (Passed(pos)' <=> Passed(pos))
        BY <3>2, <4>1 DEF Places, Passed
      <4> QED
        BY <1>1, <4>1, <4>2 DEF IInv, OnTheWay
    <3> QED
      BY <3>1, <3>2, <3>3 DEF IInv
  <2>2. CASE \/ \E t \in Type : \E m \in Sendable(t) : Send(m)
             \/ \E b \in Byte : SendNoise(b)
             \/ Leave
    BY <1>1, <2>2, IInvPeer
  <2>3. CASE (\E n \in 1 .. RecvSize : Receive(n)) \/ Decode
    BY <1>1, <2>3, IInvDecoder
  <2> QED
    BY <1>1, <2>1, <2>2, <2>3 DEF Next
<1> QED
  BY <1>1, IInvInit, PTL DEF Spec

\* However the bytes are cut into chunks and into connections, and whatever they are,
\* what decode() dispatches is what the stream read as one holds.
THEOREM ReadAsOne == Spec => []StreamRead
<1>1. IInv => StreamRead
  BY ReadToEnd DEF IInv
<1> QED
  BY <1>1, Invariance, PTL

\* While no client has left bytes unread and no odd MAGIC_WORD_1 has come, the messages
\* sent are dispatched complete, once and in their order, and none is held back once
\* its bytes have been read, but a last one without data.
THEOREM AllDelivered == Spec => []Delivered
<1>1. IInv => Delivered
  BY EndOfStream DEF IInv
<1> QED
  BY <1>1, Invariance, PTL
=============================================================================
