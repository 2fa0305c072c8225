--------------------------- MODULE CircularBuffer ---------------------------
(***************************************************************************)
(* circular_buffer.h: the send buffer between the loggers and the sender    *)
(* thread of TCPServer.  A put() and a get() are steps: TCPServer makes     *)
(* both under mtx_sender (TCPServer.tla has the threads).  lastop, which only  *)
(* print() reads, is left out; unsigned arithmetic does not wrap, as no     *)
(* index exceeds 2 * Size and Size is 2^20.                                 *)
(***************************************************************************)
EXTENDS Integers, Sequences

CONSTANTS
  Size,      \* size
  Byte,      \* the values a byte takes
  MaxPut,    \* bound: the longest put
  MaxGet     \* bound: the longest get

ASSUME SizeAssumption == Size \in Nat \ {0} /\ 0 \in Byte
ASSUME BoundAssumption == MaxPut \in Nat /\ MaxGet \in Nat \ {0}

VARIABLES
  buffer,        \* the array
  head, tail,    \* next slot to write, next slot to read
  empty,         \* tells a full buffer from an empty one when head = tail
  got            \* what the last get() stored in its argument

vars == <<buffer, head, tail, empty, got>>

Slot == 0 .. Size - 1

Init ==
  /\ buffer = [i \in Slot |-> 0]
  /\ head = 0
  /\ tail = 0
  /\ empty = TRUE
  /\ got = << >>

----------------------------------------------------------------------------

\* Input longer than the buffer loses its beginning.
Truncated(values) ==
  IF Len(values) > Size THEN SubSeq(values, Len(values) - Size + 1, Len(values)) ELSE values

\* The one or two memcpy: from head to the end, and the rest from the start.
Written(values) ==
  [i \in Slot |->
     IF i >= head /\ i < head + Len(values) THEN values[i - head + 1]
     ELSE IF i < head + Len(values) - Size THEN values[i + Size - head + 1]
     ELSE buffer[i]]

\* t_tail, the tail as seen from head, before and after the write passed over it.
\* Fault: the write catches up with the tail only when it goes beyond it twice.
PushedTailLate(new_head) ==
  LET t_tail == IF tail >= head THEN tail ELSE tail + Size IN
  IF head < t_tail /\ new_head > t_tail /\ ~empty THEN new_head ELSE t_tail

PushedTail(new_head) ==
  LET t_tail == IF tail >= head THEN tail ELSE tail + Size IN
  IF head <= t_tail /\ new_head > t_tail /\ ~empty THEN new_head ELSE t_tail

\* Fault: a head that reaches the end of the array stays there.
PutValuesWrapsLate(values) ==
  LET new_head == head + Len(values) IN
  /\ buffer' = Written(values)
  /\ head' = IF new_head > Size THEN new_head - Size ELSE new_head
  /\ tail' = PushedTail(new_head) % Size
  /\ empty' = FALSE
  /\ UNCHANGED got

PutValues(values) ==
  LET new_head == head + Len(values) IN
  /\ buffer' = Written(values)
  /\ head' = new_head % Size
  /\ tail' = PushedTail(new_head) % Size
  /\ empty' = FALSE
  /\ UNCHANGED got

\* put(values, length)
Put(values) ==
  IF values = << >> THEN UNCHANGED vars ELSE PutValues(Truncated(values))

\* max_length of get(), for a buffer that is not empty.
\* Fault: a full buffer is taken for an empty one.
AvailableNotFull ==
  LET t_head == IF head < tail THEN head + Size ELSE head IN t_head - tail

Available ==
  LET t_head == IF head < tail THEN head + Size ELSE head IN
  IF t_head = tail THEN Size ELSE t_head - tail

\* The one or two memcpy out of the buffer: n bytes from tail on.
Read(n) ==
  [i \in 1 .. n |-> IF tail + i - 1 < Size THEN buffer[tail + i - 1]
                                           ELSE buffer[tail + i - 1 - Size]]

GetSome(length) ==
  LET all == length >= Available
      n   == IF all THEN Available ELSE length
  IN /\ got' = Read(n)
     /\ tail' = (tail + n) % Size
     /\ empty' = all
     /\ UNCHANGED <<buffer, head>>

\* get(buf, length)
Get(length) ==
  IF empty THEN got' = << >> /\ UNCHANGED <<buffer, head, tail, empty>>
  ELSE GetSome(length)

\* get(val), which the program does not call.
GetOne ==
  IF empty THEN got' = << >> /\ UNCHANGED <<buffer, head, tail, empty>>
  ELSE /\ got' = <<buffer[tail]>>
       /\ tail' = (tail + 1) % Size
       /\ empty' = (tail' = head)
       /\ UNCHANGED <<buffer, head>>

\* currentSize()
currentSize ==
  IF empty THEN 0 ELSE IF head > tail THEN head - tail ELSE head + Size - tail

Next ==
  \/ \E n \in 0 .. MaxPut : \E values \in [1 .. n -> Byte] : Put(values)
  \/ \E length \in 0 .. MaxGet : Get(length)
  \/ GetOne

Spec == Init /\ [][Next]_vars

----------------------------------------------------------------------------
(* Properties.                                                             *)

\* Indices stay inside the array, and an empty buffer has head = tail.
TypeOK ==
  /\ buffer \in [Slot -> Byte]
  /\ head \in Slot
  /\ tail \in Slot
  /\ empty \in BOOLEAN
  /\ empty => head = tail
  /\ got \in Seq(Byte)

\* The bytes the buffer holds, oldest first.
Held == Read(currentSize)

D == INSTANCE DropOldest WITH queue <- Held

\* Whatever the wrapping and the overwriting, the buffer is a queue of its last
\* Size bytes, and currentSize() is its length.
ImplementsDropOldest == D!Spec
=============================================================================
