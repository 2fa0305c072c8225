-------------------------- MODULE TCPServerProofs --------------------------
(***************************************************************************)
(* What the run "server" checks of a small buffer, proved for every set of  *)
(* logging threads, capacity, chunk size and number of clients: order and   *)
(* loss of log lines, the missed wakeup, the chunk that goes to the wrong   *)
(* client.                                                                  *)
(***************************************************************************)
EXTENDS TCPServer, SequenceTheorems, TLAPS

\* fn_sender() has a chunk in hand.
Holding == sender \in {"sending", "writing"}

\* It never holds an empty one.
ChunkHeld ==
  /\ sender = "taking" => queue # << >>
  /\ Holding => chunk # << >>

\* The lines of q are in order, and none is newer than l.
Ordered(q, l) ==
  /\ \A j \in 1 .. Len(q) : q[j] <= l
  /\ \A i, j \in 1 .. Len(q) : i < j => Later(q[i], q[j])

\* b is the line put after a.
Following(a, b) == b = a + 1 \/ b = LastSerial

\* The lines of q are numbered without a gap, up to l.
Gapless(q, l) ==
  /\ q # << >> => q[Len(q)] = l
  /\ \A i \in 1 .. Len(q) - 1 : Following(q[i], q[i + 1])

\* What was written, what is in hand and what is in the buffer are in order.
Sorted ==
  /\ sent <= logged
  /\ Ordered(queue, logged)
  /\ \A j \in 1 .. Len(queue) : Later(sent, queue[j])
  /\ Holding =>
       /\ Ordered(chunk, logged)
       /\ \A i \in 1 .. Len(chunk) : Later(sent, chunk[i])
       /\ \A i \in 1 .. Len(chunk), j \in 1 .. Len(queue) : Later(chunk[i], queue[j])

\* No line is missing in the buffer, nor between the chunk and the buffer, unless the
\* buffer has been filled meanwhile.
Numbered ==
  /\ Gapless(queue, logged)
  /\ Holding =>
       IF queue = << >> THEN chunk[Len(chunk)] = logged
       ELSE Following(chunk[Len(chunk)], queue[1]) \/ Len(queue) = Capacity

\* The sender goes to sleep beside a client and lines only if the client has come
\* after it looked.
SleepJustified ==
  /\ sender = "sleepy" /\ clientConnected /\ queue # << >> => logged <= mark
  /\ sender = "waiting" /\ clientConnected /\ queue # << >> =>
       logged <= mark \/ \E t \in Threads : logger[t] = "notifying"

\* client_connected and sck_client follow fn_server().
FlagFollows ==
  /\ clientConnected <=> server \in {"wakeUp", "receive", "executing", "flagDown"}
  /\ server # "flagUp" => raised = served
  /\ server \in {"flagUp", "wakeUp", "receive", "executing", "flagDown", "wakeDown"} =>
       sck = served
  /\ sck \in {served, NoSocket}

\* After a stray chunk the next one is taken in the time of the client it goes to.
StrayLast ==
  stray > 0 =>
    /\ stray = 1
    /\ sender = "taking" => raised = served
    /\ sender = "sending" => takenFor = served

\* The inductive invariant.
IInv ==
  /\ TypeOK
  /\ ChunkHeld
  /\ Sorted
  /\ Numbered
  /\ SleepJustified
  /\ FlagFollows
  /\ StrayLast
----------------------------------------------------------------------------
(* The send buffer.                                                        *)

\* The lines of a stretch of the buffer.
LEMMA StretchShape ==
  ASSUME NEW q \in Seq(Serials), NEW m \in Nat, NEW n \in 0 .. Len(q), m <= n
  PROVE  /\ SubSeq(q, m + 1, n) \in Seq(Serials)
         /\ Len(SubSeq(q, m + 1, n)) = n - m
         /\ \A i \in 1 .. n - m : SubSeq(q, m + 1, n)[i] = q[i + m]
<1> DEFINE k == m + 1
<1>1. k \in Int /\ n \in Int /\ \A i \in k .. n : q[i] \in Serials
  BY ElementOfSeq
<1>2. n - k + 1 = n - m /\ \A i \in 1 .. n - m : k + i - 1 = i + m
  OBVIOUS
<1>3. k <= n \/ n - m = 0
  OBVIOUS
<1> HIDE DEF k
<1>4. /\ SubSeq(q, k, n) \in Seq(Serials)
      /\ Len(SubSeq(q, k, n)) = IF k <= n THEN n - k + 1 ELSE 0
      /\ \A i \in 1 .. n - k + 1 : SubSeq(q, k, n)[i] = q[k + i - 1]
  BY <1>1, SubSeqProperties
<1>5. /\ SubSeq(q, k, n) \in Seq(Serials)
      /\ Len(SubSeq(q, k, n)) = n - m
      /\ \A i \in 1 .. n - m : SubSeq(q, k, n)[i] = q[i + m]
  BY <1>1, <1>2, <1>3, <1>4
<1> QED
  BY <1>5 DEF k

\* r is q with x put behind it and its d oldest lines forgotten.
PutFrom(q, r, x, d) ==
  /\ r \in Seq(Serials)
  /\ Len(r) = Len(q) + 1 - d
  /\ Len(r) <= Capacity
  /\ d = 1 => Len(r) = Capacity
  /\ d = 0 \/ Len(q) > 0
  /\ r[Len(r)] = x
  /\ \A i \in 1 .. Len(r) - 1 : r[i] = q[i + d]

\* One line put into the buffer comes last; what else the buffer holds is what it
\* held, without its oldest line if it was full.
LEMMA PutShape ==
  ASSUME NEW q \in Seq(Serials), Len(q) <= Capacity, NEW x \in Serials
  PROVE  \E d \in {0, 1} : PutFrom(q, Q!Newest(q \o <<x>>), x, d)
<1> USE SizeAssumption
<1> DEFINE s == q \o <<x>>
           r == Q!Newest(s)
<1>1. /\ s \in Seq(Serials)
      /\ Len(s) = Len(q) + 1
      /\ s[Len(s)] = x
      /\ \A i \in 1 .. Len(q) : s[i] = q[i]
  OBVIOUS
<1> HIDE DEF s
<1>2. ASSUME Len(q) < Capacity PROVE PutFrom(q, r, x, 0)
  <2>1. r = s
    BY <1>1, <1>2 DEF Q!Newest
  <2> QED
    BY <1>1, <1>2, <2>1 DEF PutFrom
<1>3. ASSUME Len(q) = Capacity PROVE PutFrom(q, r, x, 1)
  <2>1. r = SubSeq(s, 1 + 1, Len(s))
    BY <1>1, <1>3 DEF Q!Newest
  <2>2. /\ SubSeq(s, 1 + 1, Len(s)) \in Seq(Serials)
        /\ Len(SubSeq(s, 1 + 1, Len(s))) = Len(s) - 1
        /\ \A i \in 1 .. Len(s) - 1 : SubSeq(s, 1 + 1, Len(s))[i] = s[i + 1]
    BY <1>1, StretchShape
  <2> HIDE DEF r
  <2>3. /\ r \in Seq(Serials)
        /\ Len(r) = Len(q)
        /\ \A i \in 1 .. Len(r) : r[i] = s[i + 1]
    BY <1>1, <2>1, <2>2
  <2> QED
    BY <1>1, <1>3, <2>3 DEF PutFrom
<1> HIDE DEF r
<1>4. PutFrom(q, r, x, 0) \/ PutFrom(q, r, x, 1)
  BY <1>1, <1>2, <1>3
<1> QED
  BY <1>4 DEF s, r

\* c is the first n lines of q and r the others.
TakeFrom(q, c, r, n) ==
  /\ n \in 1 .. Len(q) /\ n <= Chunk
  /\ c \in Seq(Serials) /\ Len(c) = n
  /\ \A i \in 1 .. n : c[i] = q[i]
  /\ r \in Seq(Serials) /\ Len(r) = Len(q) - n
  /\ \A i \in 1 .. Len(r) : r[i] = q[i + n]

\* What get() returns and what it leaves make up the buffer.
LEMMA TakeShape ==
  ASSUME NEW q \in Seq(Serials), q # << >>
  PROVE  LET n == Q!Least(Chunk, Len(q)) IN
         TakeFrom(q, SubSeq(q, 1, n), SubSeq(q, n + 1, Len(q)), n)
<1> USE SizeAssumption
<1> DEFINE n == Q!Least(Chunk, Len(q))
<1>1. n \in 1 .. Len(q) /\ n <= Chunk
  BY DEF Q!Least
<1> HIDE DEF n
<1>2. /\ SubSeq(q, 0 + 1, n) \in Seq(Serials)
      /\ Len(SubSeq(q, 0 + 1, n)) = n - 0
      /\ \A i \in 1 .. n - 0 : SubSeq(q, 0 + 1, n)[i] = q[i + 0]
  BY <1>1, StretchShape
<1>3. /\ SubSeq(q, n + 1, Len(q)) \in Seq(Serials)
      /\ Len(SubSeq(q, n + 1, Len(q))) = Len(q) - n
      /\ \A i \in 1 .. Len(q) - n : SubSeq(q, n + 1, Len(q))[i] = q[i + n]
  BY <1>1, StretchShape
<1> QED
  BY <1>1, <1>2, <1>3 DEF n, TakeFrom

----------------------------------------------------------------------------
(* Type correctness.                                                       *)

\* The next number is one after the last, or the last there is.
LEMMA StampFollows ==
  ASSUME logged \in Serials
  PROVE  Stamp \in Serials /\ logged <= Stamp /\ Later(logged, Stamp) /\ Following(logged, Stamp)
  BY BoundAssumption DEF Stamp, Serials, Later, Following

\* It holds when the program starts.
LEMMA InvInit == Init => IInv
<1> USE SizeAssumption, BoundAssumption
<1> SUFFICES ASSUME Init PROVE IInv
  OBVIOUS
<1>1. TypeOK
  <2>1. clientConnected \in BOOLEAN /\ alive \in BOOLEAN
    BY DEF Init
  <2> QED
    BY <2>1 DEF Init, TypeOK, Serials, LogPoint, ServerPoint, SenderPoint, Clients
<1>2. ChunkHeld /\ Sorted /\ Numbered /\ SleepJustified
  BY DEF Init, ChunkHeld, Sorted, Numbered, SleepJustified, Holding, Ordered, Gapless
<1>3. FlagFollows /\ StrayLast
  BY DEF Init, FlagFollows, StrayLast
<1> QED
  BY <1>1, <1>2, <1>3 DEF IInv

\* Logging threads keep the types.
LEMMA TypeLog ==
  ASSUME TypeOK, NEW t \in Threads, Log(t) \/ InLog(t)
  PROVE  TypeOK'
<1> USE DEF TypeOK, LogPoint, SenderPoint, LogOnly, peerVars, historyVars
<1>1. CASE Log(t) \/ LockLog(t)
  BY <1>1 DEF Log, LockLog
<1>2. CASE SendData(t)
  <2>1. queue' \in Seq(Serials) /\ Len(queue') <= Capacity
    <3>1. queue' = Q!Newest(queue \o <<Stamp>>)
      BY <1>2 DEF SendData, Q!Put
    <3>2. Stamp \in Serials
      BY StampFollows
    <3> QED
      BY <3>1, <3>2, PutShape DEF PutFrom
  <2>2. logged' \in Serials
    BY <1>2, StampFollows DEF SendData
  <2> QED
    BY <1>2, <2>1, <2>2 DEF SendData, Q!Put
<1>3. CASE NotifySender(t)
  BY <1>3 DEF NotifySender, WakeSender
<1> QED
  BY <1>1, <1>2, <1>3 DEF InLog

\* The receiving thread, before and after it reads.
ServerTurn ==
  \/ ServerStep \/ AcceptFails
  \/ CommandLogs \/ DecodeReturns \/ DecodeThrows

\* The receiving thread keeps the types.
LEMMA TypeServer ==
  ASSUME TypeOK, ServerTurn
  PROVE  TypeOK'
<1> USE DEF TypeOK, LogPoint, ServerPoint, SenderPoint, ServerKeeps, ServerOnly, ServerMoves,
            ServerLogs, WakeSender, Clients
<1>1. CASE Listen \/ WakeUp \/ ReceiveEnds \/ WakeDown \/ CommandLogs \/ DecodeReturns
  BY <1>1 DEF Listen, WakeUp, ReceiveEnds, WakeDown, CommandLogs, DecodeReturns
<1>2. CASE Accept
  <2>1. served' \in 0 .. arrived' /\ raised' \in 0 .. served' /\ takenFor' \in 0 .. served'
    BY <1>2 DEF Accept
  <2>2. sck' \in Clients \cup {NoSocket} /\ stray' \in Nat
    BY <1>2, BoundAssumption DEF Accept
  <2>3. clientConnected' \in BOOLEAN /\ alive' \in BOOLEAN
    BY <1>2 DEF Accept
  <2> QED
    BY <1>2, <2>1, <2>2, <2>3 DEF Accept
<1>3. CASE AcceptFails
  BY <1>3 DEF AcceptFails
<1>4. CASE FlagUp \/ FlagDown
  <2>1. clientConnected' \in BOOLEAN
    BY <1>4 DEF FlagUp, FlagDown
  <2>2. raised' \in 0 .. served' /\ takenFor' \in 0 .. served' /\ served' \in 0 .. arrived'
    BY <1>4 DEF FlagUp, FlagDown
  <2>3. mark' \in Serials
    BY <1>4, BoundAssumption DEF FlagUp, FlagDown, Serials
  <2> QED
    BY <1>4, <2>1, <2>2, <2>3 DEF FlagUp, FlagDown
<1>5. CASE Receive
  <2>1. unread' \in [Clients -> 0 .. MaxUnread]
    <3>1. PICK n \in 1 .. unread[served] : unread' = [unread EXCEPT ![served] = @ - n]
      BY <1>5 DEF Receive
    <3>2. served \in Clients => unread[served] - n \in 0 .. MaxUnread
      BY <3>1, BoundAssumption
    <3> QED
      BY <3>1, <3>2
  <2> QED
    BY <1>5, <2>1 DEF Receive
<1>6. CASE DecodeThrows
  <2>1. alive' \in BOOLEAN
    BY <1>6 DEF DecodeThrows
  <2> QED
    BY <1>6, <2>1 DEF DecodeThrows
<1> QED
  BY <1>1, <1>2, <1>3, <1>4, <1>5, <1>6 DEF ServerTurn, ServerStep

\* The sending thread keeps the types.
LEMMA TypeSender ==
  ASSUME TypeOK, ChunkHeld, SenderStep \/ Written \/ BrokenPipe \/ SpuriousWakeup
  PROVE  TypeOK'
<1> USE DEF TypeOK, SenderPoint, SenderOnly, SenderMoves, peerVars
<1>0. ASSUME ChunkDone
      PROVE  chunk' \in Seq(Serials) /\ Len(chunk') <= Chunk /\ takenFor' \in 0 .. served
  BY <1>0, SizeAssumption DEF ChunkDone
<1>1. CASE Check \/ FallAsleep \/ WriteLost \/ SpuriousWakeup
  BY <1>0, <1>1 DEF Check, FallAsleep, WriteLost, SpuriousWakeup, ChunkDone
<1>2. CASE Take
  <2>1. queue # << >>
    BY <1>2 DEF Take, ChunkHeld
  <2>2. /\ chunk' \in Seq(Serials) /\ Len(chunk') <= Chunk
        /\ queue' \in Seq(Serials) /\ Len(queue') <= Capacity
    <3> DEFINE n == Q!Least(Chunk, Len(queue))
    <3>1. chunk' = SubSeq(queue, 1, n) /\ queue' = SubSeq(queue, n + 1, Len(queue))
      BY <1>2 DEF Take, Q!Get
    <3>2. TakeFrom(queue, chunk', queue', n)
      BY <2>1, <3>1, TakeShape
    <3> HIDE DEF n
    <3> QED
      BY <3>2, SizeAssumption DEF TakeFrom
  <2> QED
    BY <1>2, <2>2 DEF Take
<1>3. CASE Write
  BY <1>3 DEF Write
<1>4. CASE Written
  <2>1. chunk[Len(chunk)] \in Serials
    BY <1>4 DEF Written, ChunkHeld, Holding
  <2> QED
    BY <1>0, <1>4, <2>1 DEF Written, ChunkDone
<1>5. CASE BrokenPipe
  <2>1. alive' \in BOOLEAN
    BY <1>5 DEF BrokenPipe
  <2> QED
    BY <1>5, <2>1 DEF BrokenPipe
<1> QED
  BY <1>1, <1>2, <1>3, <1>4, <1>5 DEF SenderStep

\* What the clients do.
ClientStep == Connect \/ \E c \in Clients : SendCommands(c) \/ Disconnect(c)

\* Every step keeps the types.
LEMMA TypeStep == TypeOK /\ ChunkHeld /\ [Next]_vars => TypeOK'
<1> SUFFICES ASSUME TypeOK, ChunkHeld, [Next]_vars PROVE TypeOK'
  OBVIOUS
<1>1. CASE UNCHANGED vars
  BY <1>1 DEF TypeOK, vars, peerVars, historyVars
<1>2. CASE ClientStep
  <2>1. arrived' \in 0 .. MaxClient /\ served' \in 0 .. arrived'
    <3>1. arrived \in 0 .. MaxClient /\ served \in 0 .. arrived
      BY DEF TypeOK
    <3>2. served' = served /\ (arrived' = arrived \/ (arrived < MaxClient /\ arrived' = arrived + 1))
      <4>1. CASE Connect
        BY <4>1 DEF Connect, ClientOnly, historyVars
      <4>2. CASE \E c \in Clients : SendCommands(c) \/ Disconnect(c)
        BY <4>2 DEF SendCommands, Disconnect, ClientOnly, historyVars
      <4> QED
        BY <1>2, <4>1, <4>2 DEF ClientStep
    <3> QED
      BY <3>1, <3>2, BoundAssumption
  <2> USE DEF ClientStep, Connect, SendCommands, Disconnect, ClientOnly, TypeOK, Clients,
              historyVars
  <2>2. here' \subseteq Clients
    <3>1. here \subseteq 1 .. MaxClient /\ arrived \in 0 .. MaxClient
      OBVIOUS
    <3>2. CASE Connect
      BY <3>1, <3>2, BoundAssumption
    <3>3. CASE \E c \in Clients : SendCommands(c) \/ Disconnect(c)
      BY <3>1, <3>3
    <3> QED
      BY <1>2, <3>2, <3>3
  <2>3. unread' \in [Clients -> 0 .. MaxUnread]
    <3>1. CASE unread' = unread
      BY <3>1
    <3>2. CASE \E c \in Clients : SendCommands(c)
      <4>1. PICK c \in Clients : SendCommands(c)
        BY <3>2
      <4>2. unread[c] + 1 \in 0 .. MaxUnread /\ unread' = [unread EXCEPT ![c] = unread[c] + 1]
        BY <4>1, BoundAssumption
      <4> QED
        BY <4>2
    <3>3. CASE \E c \in Clients : Disconnect(c)
      <4>1. PICK c \in Clients : Disconnect(c)
        BY <3>3
      <4>2. unread' = unread \/ unread' = [unread EXCEPT ![c] = 0]
        BY <4>1
      <4> QED
        BY <4>2, BoundAssumption
    <3> QED
      BY <1>2, <3>1, <3>2, <3>3
  <2> QED
    BY <1>2, <2>1, <2>2, <2>3
<1>3. CASE ThreadStep
  BY <1>2, <1>3, TypeLog, TypeServer, TypeSender DEF ThreadStep, ServerTurn, ClientStep, Threads
<1> QED
  BY <1>1, <1>3 DEF Next, Ended

----------------------------------------------------------------------------
(* The lines: ChunkHeld, Sorted and Numbered.                              *)

Lines == ChunkHeld /\ Sorted /\ Numbered

\* A step that touches no line: fn_sender() takes nothing in hand by it, and finds the
\* buffer filled when it is about to.
LEMMA LinesKept ==
  ASSUME Lines, UNCHANGED <<queue, logged, sent>>, Holding' => Holding /\ chunk' = chunk,
         sender' = "taking" => queue # << >>
  PROVE  Lines'
  BY DEF Lines, ChunkHeld, Sorted, Numbered

\* A line put behind lines in order keeps them in order, and leaves no gap.
LEMMA PutOrder ==
  ASSUME NEW q \in Seq(Serials), NEW r, NEW l \in Serials, NEW x \in Serials, NEW d \in {0, 1},
         PutFrom(q, r, x, d), l <= x, Later(l, x), Following(l, x),
         Ordered(q, l), Gapless(q, l)
  PROVE  /\ Ordered(r, x) /\ Gapless(r, x)
         /\ \A i \in 1 .. Len(r) : r[i] = x \/ \E k \in 1 .. Len(q) : r[i] = q[k]
         /\ r # << >>
         /\ d = 1 => Len(r) = Capacity
         /\ d = 0 => r[1] = IF q = << >> THEN x ELSE q[1]
<1>1. /\ r \in Seq(Serials) /\ Len(r) \in Nat /\ Len(q) \in Nat
      /\ Len(r) = Len(q) + 1 - d /\ Len(r) > 0
      /\ r[Len(r)] = x
      /\ \A i \in 1 .. Len(r) - 1 : i + d \in 1 .. Len(q) /\ r[i] = q[i + d]
      /\ \A i \in 1 .. Len(q) : q[i] \in Serials
  BY DEF PutFrom
<1>2. l \in Nat /\ x \in Nat /\ LastSerial \in Nat /\ Serials \subseteq Nat
  BY BoundAssumption DEF Serials
<1>3. \A i \in 1 .. Len(r) : r[i] = x \/ \E k \in 1 .. Len(q) : r[i] = q[k]
  <2> TAKE i \in 1 .. Len(r)
  <2>1. i = Len(r) \/ i \in 1 .. Len(r) - 1
    BY <1>1
  <2> QED
    BY <1>1, <2>1
<1>4. \A i \in 1 .. Len(r) : r[i] <= x
  <2> TAKE i \in 1 .. Len(r)
  <2>1. \A k \in 1 .. Len(q) : q[k] \in Nat /\ q[k] <= l
    BY <1>1, <1>2 DEF Ordered
  <2> QED
    BY <1>2, <1>3, <2>1
<1>5. \A i, j \in 1 .. Len(r) : i < j => Later(r[i], r[j])
  <2> SUFFICES ASSUME NEW i \in 1 .. Len(r), NEW j \in 1 .. Len(r), i < j
               PROVE  Later(r[i], r[j])
    OBVIOUS
  <2>1. i \in 1 .. Len(r) - 1 /\ i + d \in 1 .. Len(q) /\ r[i] = q[i + d]
    BY <1>1
  <2>2. CASE j = Len(r)
    <3>1. q[i + d] \in Nat /\ q[i + d] <= l
      BY <1>1, <1>2, <2>1 DEF Ordered
    <3>2. r[j] = x
      BY <1>1, <2>2
    <3>3. q[i + d] < x \/ x = LastSerial
      BY <1>2, <3>1 DEF Later
    <3> QED
      BY <2>1, <3>2, <3>3 DEF Later
  <2>3. CASE j \in 1 .. Len(r) - 1
    <3>1. j + d \in 1 .. Len(q) /\ r[j] = q[j + d] /\ i + d < j + d
      BY <1>1, <2>3
    <3> QED
      BY <2>1, <3>1 DEF Ordered
  <2>4. j = Len(r) \/ j \in 1 .. Len(r) - 1
    BY <1>1
  <2> QED
    BY <2>2, <2>3, <2>4
<1>6. Gapless(r, x)
  <2> SUFFICES ASSUME NEW i \in 1 .. Len(r) - 1 PROVE Following(r[i], r[i + 1])
    BY <1>1 DEF Gapless
  <2>1. i + d \in 1 .. Len(q) /\ r[i] = q[i + d]
    BY <1>1
  <2>2. CASE i + 1 = Len(r)
    <3>1. i + d = Len(q) /\ q # << >>
      BY <1>1, <2>1, <2>2
    <3> QED
      BY <1>1, <2>1, <2>2, <3>1 DEF Gapless
  <2>3. CASE i + 1 \in 1 .. Len(r) - 1
    <3>1. r[i + 1] = q[(i + d) + 1] /\ i + d \in 1 .. Len(q) - 1
      BY <1>1, <2>3
    <3> QED
      BY <2>1, <3>1 DEF Gapless
  <2> QED
    BY <1>1, <2>2, <2>3
<1>7. d = 0 => r[1] = IF q = << >> THEN x ELSE q[1]
  BY <1>1
<1> QED
  BY <1>1, <1>3, <1>4, <1>5, <1>6, <1>7 DEF Ordered, PutFrom

\* The two parts of lines in order are in order, and no line is missing between them.
LEMMA TakeOrder ==
  ASSUME NEW q \in Seq(Serials), NEW c, NEW r, NEW n, NEW l \in Serials,
         TakeFrom(q, c, r, n), Ordered(q, l), Gapless(q, l)
  PROVE  /\ c # << >>
         /\ Ordered(c, l) /\ Ordered(r, l) /\ Gapless(r, l)
         /\ \A i \in 1 .. Len(c) : \E k \in 1 .. Len(q) : c[i] = q[k]
         /\ \A i \in 1 .. Len(r) : \E k \in 1 .. Len(q) : r[i] = q[k]
         /\ \A i \in 1 .. Len(c), j \in 1 .. Len(r) : Later(c[i], r[j])
         /\ IF r = << >> THEN c[Len(c)] = l ELSE Following(c[Len(c)], r[1])
<1>1. /\ c \in Seq(Serials) /\ r \in Seq(Serials)
      /\ Len(c) \in Nat /\ Len(r) \in Nat /\ Len(q) \in Nat /\ n \in 1 .. Len(q)
      /\ Len(c) = n /\ Len(r) = Len(q) - n
      /\ \A i \in 1 .. Len(c) : i \in 1 .. Len(q) /\ c[i] = q[i]
      /\ \A i \in 1 .. Len(r) : i + n \in 1 .. Len(q) /\ r[i] = q[i + n]
  <2>1. /\ c \in Seq(Serials) /\ r \in Seq(Serials) /\ n \in 1 .. Len(q)
        /\ Len(c) = n /\ Len(r) = Len(q) - n
        /\ \A i \in 1 .. n : c[i] = q[i]
        /\ \A i \in 1 .. Len(r) : r[i] = q[i + n]
    BY DEF TakeFrom
  <2>2. Len(c) \in Nat /\ Len(r) \in Nat /\ Len(q) \in Nat
    BY <2>1
  <2>3. \A i \in 1 .. Len(r) : i + n \in 1 .. Len(q)
    BY <2>1, <2>2
  <2>4. \A i \in 1 .. Len(c) : i \in 1 .. Len(q)
    BY <2>1, <2>2
  <2> QED
    BY <2>1, <2>2, <2>3, <2>4
<1>2. Ordered(c, l)
  BY <1>1 DEF Ordered
<1>3. Ordered(r, l)
  <2>1. \A i \in 1 .. Len(r) : r[i] <= l
    BY <1>1 DEF Ordered
  <2>2. ASSUME NEW i \in 1 .. Len(r), NEW j \in 1 .. Len(r), i < j PROVE Later(r[i], r[j])
    <3>1. i + n < j + n
      BY <1>1, <2>2
    <3> QED
      BY <1>1, <3>1 DEF Ordered
  <2> QED
    BY <2>1, <2>2 DEF Ordered
<1>4. Gapless(r, l)
  <2>1. r # << >> => r[Len(r)] = l
    <3>1. ASSUME r # << >> PROVE Len(r) \in 1 .. Len(r) /\ Len(r) + n = Len(q) /\ q # << >>
      BY <1>1, <3>1
    <3> QED
      BY <1>1, <3>1 DEF Gapless
  <2>2. ASSUME NEW i \in 1 .. Len(r) - 1 PROVE Following(r[i], r[i + 1])
    <3>1. i \in 1 .. Len(r) /\ i + 1 \in 1 .. Len(r) /\ i + n \in 1 .. Len(q) - 1
      BY <1>1
    <3>2. r[i] = q[i + n] /\ r[i + 1] = q[(i + 1) + n]
      BY <1>1, <3>1
    <3>3. (i + 1) + n = (i + n) + 1
      BY <1>1
    <3> QED
      BY <3>1, <3>2, <3>3 DEF Gapless
  <2> QED
    BY <2>1, <2>2 DEF Gapless
<1>5. ASSUME NEW i \in 1 .. Len(c), NEW j \in 1 .. Len(r) PROVE Later(c[i], r[j])
  <2>1. i < j + n
    BY <1>1
  <2> QED
    BY <1>1, <2>1 DEF Ordered
<1>6. IF r = << >> THEN c[Len(c)] = l ELSE Following(c[Len(c)], r[1])
  <2>1. CASE r = << >>
    <3>1. n = Len(q) /\ q # << >>
      BY <1>1, <2>1
    <3> QED
      BY <1>1, <2>1, <3>1 DEF Gapless
  <2>2. CASE r # << >>
    <3>1. n \in 1 .. Len(q) - 1 /\ r[1] = q[n + 1] /\ c[Len(c)] = q[n]
      BY <1>1, <2>2
    <3> QED
      BY <2>2, <3>1 DEF Gapless
  <2> QED
    BY <2>1, <2>2
<1>7. /\ \A i \in 1 .. Len(c) : \E k \in 1 .. Len(q) : c[i] = q[k]
      /\ \A i \in 1 .. Len(r) : \E k \in 1 .. Len(q) : r[i] = q[k]
  BY <1>1, Zenon
<1>8. c # << >>
  BY <1>1
<1> QED
  BY <1>2, <1>3, <1>4, <1>5, <1>6, <1>7, <1>8

\* A line put into the buffer comes behind all the others, and next to the last one.
LEMMA LinesPut ==
  ASSUME TypeOK, Lines, NEW t \in Threads, SendData(t)
  PROVE  Lines'
<1>1. /\ queue' = Q!Newest(queue \o <<Stamp>>) /\ logged' = Stamp
      /\ chunk' = chunk /\ sent' = sent /\ Holding' = Holding
      /\ sender' \notin {"sleepy", "taking"}
  BY DEF SendData, Q!Put, SenderLocks, LogOnly, historyVars, Holding
<1>2. /\ Stamp \in Serials /\ logged \in Serials /\ logged <= Stamp
      /\ Later(logged, Stamp) /\ Following(logged, Stamp)
  BY StampFollows DEF TypeOK
<1>3. queue \in Seq(Serials) /\ Len(queue) <= Capacity
  BY DEF TypeOK
<1>4. PICK d \in {0, 1} : PutFrom(queue, queue', Stamp, d)
  BY <1>1, <1>2, <1>3, PutShape
<1>5. Ordered(queue, logged) /\ Gapless(queue, logged)
  BY DEF Lines, Sorted, Numbered
<1>6. /\ Ordered(queue', Stamp) /\ Gapless(queue', Stamp)
      /\ \A i \in 1 .. Len(queue') :
           queue'[i] = Stamp \/ \E k \in 1 .. Len(queue) : queue'[i] = queue[k]
      /\ queue' # << >>
      /\ d = 1 => Len(queue') = Capacity
      /\ d = 0 => queue'[1] = IF queue = << >> THEN Stamp ELSE queue[1]
  BY <1>2, <1>3, <1>4, <1>5, PutOrder
<1>7. ASSUME NEW a \in Serials, a <= logged, \A k \in 1 .. Len(queue) : Later(a, queue[k])
      PROVE  a <= Stamp /\ \A i \in 1 .. Len(queue') : Later(a, queue'[i])
  <2>1. a <= Stamp /\ Later(a, Stamp)
    BY <1>2, <1>7, BoundAssumption DEF Later, Serials
  <2> QED
    BY <1>6, <1>7, <2>1
<1>8. Sorted'
  <2>1. sent <= Stamp /\ \A i \in 1 .. Len(queue') : Later(sent, queue'[i])
    BY <1>7 DEF Lines, Sorted, TypeOK
  <2>2. ASSUME Holding, NEW i \in 1 .. Len(chunk)
        PROVE  chunk[i] <= Stamp /\ \A j \in 1 .. Len(queue') : Later(chunk[i], queue'[j])
    <3>1. chunk[i] \in Serials
      BY DEF TypeOK
    <3>2. chunk[i] <= logged /\ \A j \in 1 .. Len(queue) : Later(chunk[i], queue[j])
      BY <2>2 DEF Lines, Sorted, Ordered
    <3> QED
      BY <1>7, <3>1, <3>2
  <2>3. Holding => Ordered(chunk, Stamp)
    BY <2>2 DEF Lines, Sorted, Ordered
  <2> QED
    BY <1>1, <1>6, <2>1, <2>2, <2>3 DEF Lines, Sorted
<1>9. Numbered'
  <2>1. ASSUME Holding, d = 0
        PROVE  Following(chunk[Len(chunk)], queue'[1]) \/ Len(queue') = Capacity
    <3>1. CASE queue = << >>
      BY <1>2, <1>6, <2>1, <3>1 DEF Lines, Numbered
    <3>2. CASE queue # << >>
      <4>1. Len(queue) # Capacity
        BY <1>3, <1>4, <2>1, SizeAssumption DEF PutFrom
      <4> QED
        BY <1>6, <2>1, <3>2, <4>1 DEF Lines, Numbered
    <3> QED
      BY <3>1, <3>2
  <2> QED
    BY <1>1, <1>4, <1>6, <2>1 DEF Numbered
<1>10. ChunkHeld'
  BY <1>1 DEF Lines, ChunkHeld
<1> QED
  BY <1>8, <1>9, <1>10 DEF Lines

\* A chunk and the rest of the buffer are what the buffer was.
LEMMA LinesTaken ==
  ASSUME TypeOK, Lines, Take
  PROVE  Lines'
<1>1. /\ sender = "taking" /\ sender' = "sending" /\ UNCHANGED <<logged, sent>>
      /\ queue # << >>
  BY DEF Take, SenderMoves, SenderOnly, Lines, ChunkHeld
<1>2. queue \in Seq(Serials) /\ logged \in Serials
  BY DEF TypeOK
<1>3. PICK n : TakeFrom(queue, chunk', queue', n)
  BY <1>1, <1>2, TakeShape DEF Take, Q!Get
<1>4. Ordered(queue, logged) /\ Gapless(queue, logged)
  BY DEF Lines, Sorted, Numbered
<1>5. /\ chunk' # << >>
      /\ Ordered(chunk', logged) /\ Ordered(queue', logged) /\ Gapless(queue', logged)
      /\ \A i \in 1 .. Len(chunk') : \E k \in 1 .. Len(queue) : chunk'[i] = queue[k]
      /\ \A i \in 1 .. Len(queue') : \E k \in 1 .. Len(queue) : queue'[i] = queue[k]
      /\ \A i \in 1 .. Len(chunk'), j \in 1 .. Len(queue') : Later(chunk'[i], queue'[j])
      /\ IF queue' = << >> THEN chunk'[Len(chunk')] = logged
         ELSE Following(chunk'[Len(chunk')], queue'[1])
  BY <1>2, <1>3, <1>4, TakeOrder
<1>6. Sorted'
  <2>1. /\ \A i \in 1 .. Len(chunk') : Later(sent, chunk'[i])
        /\ \A i \in 1 .. Len(queue') : Later(sent, queue'[i])
    BY <1>5 DEF Lines, Sorted
  <2> QED
    BY <1>1, <1>5, <2>1 DEF Lines, Sorted
<1>7. ChunkHeld' /\ Numbered'
  BY <1>1, <1>5 DEF ChunkHeld, Numbered
<1> QED
  BY <1>6, <1>7 DEF Lines

\* The last line of the chunk is earlier than all that is in the buffer.
LEMMA LinesWritten ==
  ASSUME TypeOK, Lines, Written
  PROVE  Lines'
<1> USE DEF Lines
<1>1. /\ Holding /\ sender' = "locking" /\ UNCHANGED <<queue, logged>>
      /\ sent' = chunk[Len(chunk)]
  BY DEF Written, SenderMoves, SenderOnly, Holding
<1>2. Len(chunk) \in 1 .. Len(chunk)
  BY <1>1 DEF ChunkHeld, TypeOK
<1>3. ChunkHeld' /\ Numbered'
  BY <1>1 DEF ChunkHeld, Numbered, Holding
<1>4. Sorted'
  <2>1. /\ chunk[Len(chunk)] <= logged
        /\ \A j \in 1 .. Len(queue) : Later(chunk[Len(chunk)], queue[j])
    BY <1>1, <1>2 DEF Sorted, Ordered
  <2> QED
    BY <1>1, <2>1 DEF Sorted, Holding
<1> QED
  BY <1>3, <1>4

\* Every step keeps the lines in order.
LEMMA LinesStep == TypeOK /\ Lines /\ [Next]_vars => Lines'
<1> SUFFICES ASSUME TypeOK, Lines, [Next]_vars PROVE Lines'
  OBVIOUS
<1> USE DEF Holding
<1>1. CASE UNCHANGED vars
  BY <1>1, LinesKept DEF vars, historyVars, Lines, ChunkHeld
<1>2. CASE \E t \in Threads : Log(t) \/ LockLog(t) \/ NotifySender(t)
  BY <1>2, LinesKept DEF Log, LockLog, NotifySender, WakeSender, LogOnly, historyVars, Lines, ChunkHeld
<1>3. CASE ServerTurn
  BY <1>3, LinesKept DEF ServerTurn, ServerStep, AcceptFails, CommandLogs, DecodeReturns,
     DecodeThrows, Listen, Accept, FlagUp, WakeUp, Receive, ReceiveEnds, FlagDown, WakeDown,
     WakeSender, ServerKeeps, ServerOnly, Lines, ChunkHeld
<1>4. CASE Check \/ FallAsleep \/ Write \/ WriteLost \/ BrokenPipe \/ SpuriousWakeup
  BY <1>4, LinesKept DEF Check, FallAsleep, Write, WriteLost, ChunkDone, BrokenPipe,
     SpuriousWakeup, SenderMoves, SenderOnly, Lines, ChunkHeld
<1>5. CASE ClientStep
  BY <1>5, LinesKept DEF ClientStep, Connect, SendCommands, Disconnect, ClientOnly, historyVars,
     Lines, ChunkHeld
<1> QED
  BY <1>1, <1>2, <1>3, <1>4, <1>5, LinesPut, LinesTaken, LinesWritten
     DEF Next, Ended, ThreadStep, ServerTurn, ClientStep, InLog, SenderStep, Threads

----------------------------------------------------------------------------
(* Wakeups, flags and sockets.                                             *)

\* fn_server()'s flag and socket follow its place.
LEMMA FlagStep == TypeOK /\ FlagFollows /\ [Next]_vars => FlagFollows'
<1> SUFFICES ASSUME TypeOK, FlagFollows, [Next]_vars PROVE FlagFollows'
  OBVIOUS
<1> USE DEF FlagFollows
<1>1. CASE UNCHANGED <<server, clientConnected, raised, served, sck>>
  BY <1>1
<1>2. CASE Listen \/ WakeUp \/ Receive \/ ReceiveEnds \/ WakeDown
  BY <1>2 DEF Listen, WakeUp, Receive, ReceiveEnds, WakeDown, ServerMoves
<1>5. CASE CommandLogs \/ DecodeReturns \/ DecodeThrows
  BY <1>5 DEF CommandLogs, DecodeReturns, DecodeThrows, ServerMoves
<1>3. CASE Accept \/ AcceptFails \/ FlagUp \/ FlagDown
  BY <1>3 DEF Accept, AcceptFails, FlagUp, FlagDown, ServerMoves
<1>4. CASE ThreadStep
  BY <1>1, <1>2, <1>3, <1>4, <1>5 DEF ThreadStep, InLog, Log, LockLog, SendData, NotifySender,
     ServerStep, SenderStep, Check, FallAsleep, Take, Write, WriteLost, Written, BrokenPipe,
     SpuriousWakeup, Connect, SendCommands, Disconnect, LogOnly, SenderOnly, ClientOnly, historyVars
<1> QED
  BY <1>1, <1>4 DEF Next, Ended, vars, historyVars

\* After a stray chunk, chunks are taken in the time of the client they go to.
LEMMA StrayStep == TypeOK /\ FlagFollows /\ StrayLast /\ [Next]_vars => StrayLast'
<1> SUFFICES ASSUME TypeOK, FlagFollows, StrayLast, [Next]_vars PROVE StrayLast'
  OBVIOUS
<1> USE DEF FlagFollows, StrayLast, TypeOK
<1>1. CASE UNCHANGED <<server, sender, raised, served, takenFor, stray>>
  BY <1>1
<1>2. CASE Listen \/ WakeUp \/ Receive \/ ReceiveEnds \/ WakeDown
  BY <1>2 DEF Listen, WakeUp, Receive, ReceiveEnds, WakeDown, ServerMoves, ServerKeeps, ServerOnly,
     WakeSender
<1>8. CASE CommandLogs \/ DecodeReturns \/ DecodeThrows
  BY <1>8 DEF CommandLogs, DecodeReturns, DecodeThrows, ServerMoves, ServerKeeps, ServerOnly
<1>3. CASE Accept \/ AcceptFails \/ FlagUp \/ FlagDown
  BY <1>3 DEF Accept, AcceptFails, FlagUp, FlagDown, ServerMoves, ServerKeeps, ServerOnly
<1>4. CASE Check \/ FallAsleep \/ Take \/ WriteLost \/ Written \/ SpuriousWakeup
  BY <1>4 DEF Check, FallAsleep, Take, WriteLost, Written, ChunkDone, SpuriousWakeup, SenderMoves,
     SenderOnly
<1>5. CASE Write
  BY <1>5 DEF Write, SenderMoves, SenderOnly
<1>6. CASE \E t \in Threads : NotifySender(t)
  BY <1>6 DEF NotifySender, WakeSender, LogOnly, historyVars
<1>7. CASE ThreadStep
  BY <1>1, <1>2, <1>3, <1>4, <1>5, <1>6, <1>7, <1>8 DEF ThreadStep, InLog, Log, LockLog, SendData,
     ServerStep, SenderStep, BrokenPipe, Connect, SendCommands, Disconnect, LogOnly, SenderOnly, ClientOnly,
     SenderMoves, historyVars
<1> QED
  BY <1>1, <1>7 DEF Next, Ended, vars, historyVars

\* The sender sleeps beside a client and old lines only, or is about to be woken.
LEMMA SleepStep ==
  TypeOK /\ Lines /\ SleepJustified /\ [Next]_vars => SleepJustified'
<1> SUFFICES ASSUME TypeOK, Lines, SleepJustified, [Next]_vars PROVE SleepJustified'
  OBVIOUS
<1> USE DEF SleepJustified
<1>1. CASE UNCHANGED <<queue, logged, logger, sender, clientConnected, mark>>
  BY <1>1
<1>2. ASSUME NEW t \in Threads, Log(t) \/ LockLog(t) PROVE SleepJustified'
  <2>1. /\ UNCHANGED <<queue, logged, sender, clientConnected, mark>>
        /\ logger[t] # "notifying"
        /\ \A u \in Threads : u # t => logger'[u] = logger[u]
    BY <1>2 DEF Log, LockLog, LogOnly, historyVars, TypeOK
  <2> QED
    BY <2>1
<1>3. ASSUME NEW t \in Threads, SendData(t) PROVE SleepJustified'
  <2>1. sender' = sender /\ sender # "sleepy" /\ logger'[t] = "notifying"
    BY <1>3 DEF SendData, SenderLocks, TypeOK
  <2> QED
    BY <2>1
<1>4. ASSUME NEW t \in Threads, NotifySender(t) PROVE SleepJustified'
  <2>1. /\ UNCHANGED <<queue, logged, clientConnected, mark>>
        /\ sender' # "waiting" /\ (sender' = "sleepy" => sender = "sleepy")
    BY <1>4 DEF NotifySender, WakeSender, LogOnly, historyVars
  <2> QED
    BY <2>1
<1>5. CASE \/ Listen \/ Accept \/ AcceptFails \/ Receive \/ ReceiveEnds
           \/ CommandLogs \/ DecodeReturns \/ DecodeThrows
  <2>1. /\ UNCHANGED <<queue, logged, sender, clientConnected, mark>>
        /\ logger[Server] # "notifying"
        /\ \A u \in Threads : u # Server => logger'[u] = logger[u]
    BY <1>5 DEF Listen, Accept, AcceptFails, Receive, ReceiveEnds, CommandLogs, DecodeReturns,
       DecodeThrows, ServerMoves, ServerLogs, ServerKeeps, ServerOnly, TypeOK
  <2> QED
    BY <2>1
<1>6. CASE FlagUp
  <2>1. mark' = logged /\ logged' = logged /\ logged <= logged
    BY <1>6 DEF FlagUp, ServerKeeps, ServerOnly, TypeOK, Serials
  <2> QED
    BY <2>1
<1>7. CASE FlagDown \/ WakeUp \/ WakeDown
  <2>1. /\ UNCHANGED <<queue, logged, logger>>
        /\ clientConnected' => clientConnected /\ mark' = mark
        /\ sender' = sender \/ sender' = "locking"
    BY <1>7 DEF FlagDown, WakeUp, WakeDown, WakeSender, ServerKeeps, ServerOnly
  <2> QED
    BY <2>1
<1>8. CASE SenderStep \/ Written \/ BrokenPipe \/ SpuriousWakeup
  <2>1. CASE Check
    BY <2>1 DEF Check, SenderMoves, SenderOnly
  <2>2. CASE FallAsleep
    BY <2>2 DEF FallAsleep, SenderMoves, SenderOnly
  <2>3. CASE Take \/ Write \/ WriteLost \/ Written \/ BrokenPipe \/ SpuriousWakeup
    BY <2>3 DEF Take, Write, WriteLost, Written, BrokenPipe, SpuriousWakeup, SenderMoves
  <2> QED
    BY <1>8, <2>1, <2>2, <2>3 DEF SenderStep
<1>9. CASE ClientStep
  BY <1>1, <1>9 DEF ClientStep, Connect, SendCommands, Disconnect, ClientOnly, historyVars
<1>10. CASE UNCHANGED vars
  BY <1>1, <1>10 DEF vars, historyVars
<1> QED
  BY <1>2, <1>3, <1>4, <1>5, <1>6, <1>7, <1>8, <1>9, <1>10
     DEF Next, Ended, ThreadStep, ClientStep, InLog, ServerStep, Threads

----------------------------------------------------------------------------
(* The theorems.                                                           *)

\* Threads, buffer, flag and socket agree in every reachable state.
THEOREM Invariance == Spec => []IInv
<1>1. IInv /\ [Next]_vars => IInv'
  BY TypeStep, LinesStep, FlagStep, StrayStep, SleepStep DEF IInv, Lines
<1> QED
  BY <1>1, InvInit, PTL DEF Spec

\* Type correctness, with the capacity of the buffer, for every set of threads.
THEOREM TypeCorrect == Spec => []TypeOK
<1>1. IInv => TypeOK
  BY DEF IInv
<1> QED
  BY <1>1, Invariance, PTL

\* Lines are written in the order they were logged, and none twice.
THEOREM LinesInOrder == Spec => []WireOrder
<1>1. IInv => WireOrder
  <2> SUFFICES ASSUME IInv PROVE WireOrder
    OBVIOUS
  <2>1. queue \in Seq(Serials) /\ chunk \in Seq(Serials)
    BY DEF IInv, TypeOK
  <2>2. CASE ~Holding
    BY <2>1, <2>2 DEF Holding, InHand, WireOrder, IInv, Sorted, Ordered
  <2>3. CASE Holding
    <3> DEFINE ahead == chunk \o queue
    <3>1. InHand \o queue = ahead
      BY <2>3 DEF Holding, InHand
    <3>2. /\ Len(chunk) \in Nat /\ Len(queue) \in Nat /\ Len(ahead) = Len(chunk) + Len(queue)
          /\ \A i \in 1 .. Len(chunk) : ahead[i] = chunk[i]
          /\ \A i \in 1 .. Len(ahead) : i > Len(chunk) =>
               i - Len(chunk) \in 1 .. Len(queue) /\ ahead[i] = queue[i - Len(chunk)]
      BY <2>1
    <3> HIDE DEF ahead
    <3>3. \A i \in 1 .. Len(ahead) : Later(sent, ahead[i])
      BY <2>3, <3>2 DEF IInv, Sorted
    <3>4. ASSUME NEW i \in 1 .. Len(ahead), NEW j \in 1 .. Len(ahead), i < j
          PROVE  Later(ahead[i], ahead[j])
      <4>1. CASE j <= Len(chunk)
        BY <2>3, <3>2, <3>4, <4>1 DEF IInv, Sorted, Ordered
      <4>2. CASE i <= Len(chunk) /\ j > Len(chunk)
        BY <2>3, <3>2, <4>2 DEF IInv, Sorted
      <4>3. CASE i > Len(chunk)
        <5>1. /\ i - Len(chunk) \in 1 .. Len(queue) /\ j - Len(chunk) \in 1 .. Len(queue)
              /\ i - Len(chunk) < j - Len(chunk)
              /\ ahead[i] = queue[i - Len(chunk)] /\ ahead[j] = queue[j - Len(chunk)]
          BY <3>2, <3>4, <4>3
        <5> QED
          BY <5>1 DEF IInv, Sorted, Ordered
      <4> QED
        BY <3>2, <3>4, <4>1, <4>2, <4>3
    <3> QED
      BY <3>1, <3>3, <3>4 DEF WireOrder
  <2> QED
    BY <2>2, <2>3
<1> QED
  BY <1>1, Invariance, PTL

\* Lines are lost only to a buffer that was filled to its capacity.
THEOREM LossNeedsFullBuffer == Spec => []LossOnlyWhenFull
<1>1. IInv => LossOnlyWhenFull
  BY DEF IInv, Numbered, Following, LossOnlyWhenFull, InHand, Holding
<1> QED
  BY <1>1, Invariance, PTL

\* Only the wakeup of a client can be missed, not that of a line.
THEOREM NoLineSleeps == Spec => []AsleepOverOldLines
<1>1. IInv => AsleepOverOldLines
  BY DEF IInv, Numbered, Gapless, SleepJustified, AsleepOverOldLines
<1> QED
  BY <1>1, Invariance, PTL

\* No client receives more than one chunk of before its time.
THEOREM StrayOnce == Spec => []OneStrayChunk
<1>1. IInv => OneStrayChunk
  BY DEF IInv, TypeOK, StrayLast, OneStrayChunk
<1> QED
  BY <1>1, Invariance, PTL
=============================================================================
