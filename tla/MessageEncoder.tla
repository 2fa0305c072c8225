--------------------------- MODULE MessageEncoder ---------------------------
(***************************************************************************)
(* MessageEncoder.h and Message.h: how bytes are framed into messages.      *)
(***************************************************************************)
EXTENDS Integers, Sequences, SequencesExt

CONSTANTS
  Base,            \* values of a byte: 256
  MAGIC_WORD_1,
  MAGIC_WORD_2

Byte == 0 .. Base - 1

ASSUME ByteAssumption ==
  /\ Base \in Nat \ {0, 1}
  /\ MAGIC_WORD_1 \in Byte
  /\ MAGIC_WORD_2 \in Byte

\* 0xFFFF: the longest data whose size two bytes can hold.
maxlen == Base * Base - 1

Message(type, data) == [type |-> type, data |-> data]

\* The header and the data, little end of the size first.
Encoded(m) ==
  <<MAGIC_WORD_1, MAGIC_WORD_2, m.type, Len(m.data) % Base, Len(m.data) \div Base>> \o m.data

\* Fault: the rest of a long text is forgotten.
FirstMessage(type, str) ==
  << Message(type, SubSeq(str, 1, IF Len(str) < maxlen THEN Len(str) ELSE maxlen)) >>

\* sendLog(): a text longer than maxlen is sent in several messages, an empty one
\* in none.
Messages(type, str) ==
  [k \in 1 .. (Len(str) + maxlen - 1) \div maxlen |->
     LET first == (k - 1) * maxlen + 1
         last  == IF k * maxlen < Len(str) THEN k * maxlen ELSE Len(str)
     IN Message(type, SubSeq(str, first, last))]
=============================================================================
