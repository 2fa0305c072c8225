----------------------------- MODULE DropOldest -----------------------------
(***************************************************************************)
(* What CircularBuffer promises to TCPServer: a queue of at most Size       *)
(* bytes, in order, which forgets the oldest ones rather than refuse new    *)
(* ones.                                                                    *)
(***************************************************************************)
EXTENDS Integers, Sequences

CONSTANTS
  Size,      \* capacity in bytes
  Byte,      \* the values a byte takes
  MaxPut,    \* bound: the longest put
  MaxGet     \* bound: the longest get

VARIABLES
  queue,     \* what the buffer holds, oldest first
  got        \* what the last get() returned

vars == <<queue, got>>

Least(a, b) == IF a < b THEN a ELSE b

\* The last Size elements of s.
Newest(s) == IF Len(s) > Size THEN SubSeq(s, Len(s) - Size + 1, Len(s)) ELSE s

Init == queue = << >> /\ got = << >>

Put(values) ==
  /\ queue' = Newest(queue \o values)
  /\ UNCHANGED got

Get(length) ==
  LET n == Least(length, Len(queue)) IN
  /\ got' = SubSeq(queue, 1, n)
  /\ queue' = SubSeq(queue, n + 1, Len(queue))

Next ==
  \/ \E n \in 0 .. MaxPut : \E values \in [1 .. n -> Byte] : Put(values)
  \/ \E length \in 0 .. MaxGet : Get(length)

Spec == Init /\ [][Next]_vars
=============================================================================
