--------------------------- MODULE MessageDecoder ---------------------------
(***************************************************************************)
(* MessageDecoder.cpp, fed by TCPServer::receive().  The peer frames its    *)
(* messages as MessageEncoder does; TCP hands their bytes over in chunks    *)
(* cut anywhere.  decode() scans a chunk: a step is an iteration of its     *)
(* loop.  The decoder is the server's, not the connection's: it keeps its   *)
(* state from one client to the next.                                       *)
(***************************************************************************)
EXTENDS MessageEncoder

CONSTANTS
  Type,          \* the message types sent
  Text,          \* what is sent
  RecvSize,      \* RECV_BUF_SIZE
  MaxMessage,    \* bound: the messages sent
  MaxNoise       \* bound: the bytes sent that belong to no message

ASSUME DecoderAssumption ==
  /\ Type \subseteq Byte /\ Text \subseteq Seq(Byte)
  /\ MaxMessage \in Nat /\ MaxNoise \in Nat /\ RecvSize \in Nat

VARIABLES
  wire,          \* bytes sent and not read
  data,          \* the rest of the chunk that decode() is scanning
  state, temp_type, temp_size1,
  size,          \* message->size, and its type and the data received so far
  type,
  content,       \* the received_data first bytes of message->data
  dispatched,    \* what handleMessage() has been given
  sent,          \* history: the messages sent
  noise,         \* history: the bytes sent between them
  torn,          \* history: a client has left with bytes unread, or one of the
                 \* bytes between the messages was MAGIC_WORD_1
  received       \* history: the bytes decode() was given, whoever sent them

wireVars == <<wire, sent, noise, torn, received>>
messageVars == <<size, type, content>>
vars == <<wireVars, data, state, temp_type, temp_size1, messageVars, dispatched>>

DecoderState == {"START", "MAGIC1_FOUND", "MAGIC2_FOUND", "TYPE_RECEIVED",
                 "SIZE1_RECEIVED", "RECEIVING_DATA"}

Init ==
  /\ wire = << >> /\ data = << >>
  /\ state = "START"
  /\ temp_type = 0 /\ temp_size1 = 0
  /\ size = 0 /\ type = 0 /\ content = << >>     \* message = nullptr
  /\ dispatched = << >> /\ sent = << >> /\ noise = 0 /\ torn = FALSE
  /\ received = << >>

----------------------------------------------------------------------------
(* The peer.                                                               *)

DecoderVars == <<data, received, state, temp_type, temp_size1, messageVars, dispatched>>

Send(m) ==
  /\ Len(sent) < MaxMessage
  /\ wire' = wire \o Encoded(m)
  /\ sent' = Append(sent, m)
  /\ UNCHANGED <<noise, torn, DecoderVars>>

\* What a client sends: the messages a text is cut into, and, which sendLog() does not
\* produce, one without data.
Sendable(t) ==
  {Message(t, << >>)} \cup UNION {Range(Messages(t, text)) : text \in Text}

\* A byte outside messages.
SendNoise(b) ==
  /\ noise < MaxNoise
  /\ wire' = Append(wire, b)
  /\ noise' = noise + 1
  /\ torn' = (torn \/ b = MAGIC_WORD_1)
  /\ UNCHANGED <<sent, DecoderVars>>

\* The connection ends and what was not read is lost; another client follows.
Leave ==
  /\ wire # << >>
  /\ wire' = << >>
  /\ torn' = TRUE
  /\ UNCHANGED <<sent, noise, DecoderVars>>

----------------------------------------------------------------------------
(* TCPServer::receive() and decode().                                      *)

\* read() returns some of the bytes that have come.
Receive(n) ==
  /\ data = << >>
  /\ n <= Len(wire)
  /\ data' = SubSeq(wire, 1, n)
  /\ wire' = SubSeq(wire, n + 1, Len(wire))
  /\ received' = received \o data'
  /\ UNCHANGED <<sent, noise, torn, state, temp_type, temp_size1, messageVars, dispatched>>

\* One byte is looked at, in this state of the decoder.
Scan(s) ==
  /\ data # << >>
  /\ state = s
  /\ data' = Tail(data)

Start ==
  /\ Scan("START")
  /\ state' = IF Head(data) = MAGIC_WORD_1 THEN "MAGIC1_FOUND" ELSE "START"
  /\ UNCHANGED <<wireVars, temp_type, temp_size1, messageVars, dispatched>>

\* Fault: a second MAGIC_WORD_1 counts as the first.
Magic1FoundAgain ==
  /\ Scan("MAGIC1_FOUND")
  /\ state' = IF Head(data) = MAGIC_WORD_2 THEN "MAGIC2_FOUND"
              ELSE IF Head(data) = MAGIC_WORD_1 THEN "MAGIC1_FOUND" ELSE "START"
  /\ UNCHANGED <<wireVars, temp_type, temp_size1, messageVars, dispatched>>

Magic1Found ==
  /\ Scan("MAGIC1_FOUND")
  /\ state' = IF Head(data) = MAGIC_WORD_2 THEN "MAGIC2_FOUND" ELSE "START"
  /\ UNCHANGED <<wireVars, temp_type, temp_size1, messageVars, dispatched>>

Magic2Found ==
  /\ Scan("MAGIC2_FOUND")
  /\ temp_type' = Head(data)
  /\ state' = "TYPE_RECEIVED"
  /\ UNCHANGED <<wireVars, temp_size1, messageVars, dispatched>>

TypeReceived ==
  /\ Scan("TYPE_RECEIVED")
  /\ temp_size1' = Head(data)
  /\ state' = "SIZE1_RECEIVED"
  /\ UNCHANGED <<wireVars, temp_type, messageVars, dispatched>>

\* Fault: the size is taken big end first.
Size1ReceivedSwapped ==
  /\ Scan("SIZE1_RECEIVED")
  /\ size' = temp_size1 * Base + Head(data)
  /\ type' = temp_type
  /\ content' = << >>
  /\ state' = "RECEIVING_DATA"
  /\ UNCHANGED <<wireVars, temp_type, temp_size1, dispatched>>

\* The old message is deleted, the new one has the size announced.
Size1Received ==
  /\ Scan("SIZE1_RECEIVED")
  /\ size' = Head(data) * Base + temp_size1
  /\ type' = temp_type
  /\ content' = << >>
  /\ state' = "RECEIVING_DATA"
  /\ UNCHANGED <<wireVars, temp_type, temp_size1, dispatched>>

\* Fault: the rest of the chunk belongs to the message.
ReceivingAll ==
  /\ data # << >>
  /\ state = "RECEIVING_DATA"
  /\ content' = content \o data
  /\ data' = << >>
  /\ IF Len(content') >= size
     THEN /\ dispatched' = Append(dispatched, Message(type, content'))
          /\ state' = "START"
     ELSE UNCHANGED <<dispatched, state>>
  /\ UNCHANGED <<wireVars, temp_type, temp_size1, size, type>>

\* Fault: decode() returns when it has dispatched a message.
ReceivingLast ==
  /\ data # << >>
  /\ state = "RECEIVING_DATA"
  /\ LET missing == size - Len(content)
         sz == IF missing < Len(data) THEN missing ELSE Len(data)
     IN content' = content \o SubSeq(data, 1, sz)
  /\ data' = << >>
  /\ IF Len(content') = size
     THEN /\ dispatched' = Append(dispatched, Message(type, content'))
          /\ state' = "START"
     ELSE UNCHANGED <<dispatched, state>>
  /\ UNCHANGED <<wireVars, temp_type, temp_size1, size, type>>

\* As much of the message as the chunk has; it is dispatched when complete.  When
\* its size is zero nothing is copied, and the byte is looked at again in START.
ReceivingData ==
  /\ data # << >>
  /\ state = "RECEIVING_DATA"
  /\ LET missing == size - Len(content)
         sz == IF missing < Len(data) THEN missing ELSE Len(data)
     IN /\ content' = content \o SubSeq(data, 1, sz)
        /\ data' = SubSeq(data, sz + 1, Len(data))
  /\ IF Len(content') = size
     THEN /\ dispatched' = Append(dispatched, Message(type, content'))
          /\ state' = "START"
     ELSE UNCHANGED <<dispatched, state>>
  /\ UNCHANGED <<wireVars, temp_type, temp_size1, size, type>>

Decode ==
  \/ Start \/ Magic1Found \/ Magic2Found \/ TypeReceived \/ Size1Received
  \/ ReceivingData

Next ==
  \/ \E t \in Type : \E m \in Sendable(t) : Send(m)
  \/ \E b \in Byte : SendNoise(b)
  \/ Leave
  \/ \E n \in 1 .. RecvSize : Receive(n)
  \/ Decode

Spec == Init /\ [][Next]_vars

----------------------------------------------------------------------------
(* What a stream holds, whole: the messages found from each position on.   *)

\* A frame whose last byte has come is a message; one without data is taken for
\* complete only when another byte has come.
Reading(s) ==
  LET from[p \in 1 .. Len(s) + 1] ==
        LET n == s[p + 3] + Base * s[p + 4]
            last == p + 4 + n
            seen == IF n = 0 THEN last + 1 ELSE last
        IN IF p >= Len(s) THEN << >>
           ELSE IF s[p] # MAGIC_WORD_1 THEN from[p + 1]
           ELSE IF s[p + 1] # MAGIC_WORD_2 THEN from[p + 2]
           ELSE IF p + 4 > Len(s) \/ seen > Len(s) THEN << >>
           ELSE << Message(s[p + 2], SubSeq(s, p + 5, last)) >> \o from[last + 1]
  IN from

MessagesFrom(s) == Reading(s)[1]

----------------------------------------------------------------------------
(* Properties.                                                             *)

\* Every variable keeps its type; the message is never written beyond its size.
TypeOK ==
  /\ wire \in Seq(Byte) /\ data \in Seq(Byte) /\ Len(data) <= RecvSize
  /\ state \in DecoderState
  /\ temp_type \in Byte /\ temp_size1 \in Byte
  /\ size \in 0 .. maxlen
  /\ type \in Byte
  /\ content \in Seq(Byte) /\ Len(content) <= size
  /\ dispatched \in Seq([type : Byte, data : Seq(Byte)])
  /\ sent \in Seq([type : Byte, data : Seq(Byte)])
  /\ noise \in 0 .. MaxNoise
  /\ torn \in BOOLEAN
  /\ received \in Seq(Byte)

\* However the stream is cut into chunks, and whatever bytes but MAGIC_WORD_1 lie
\* between the messages, the messages sent are dispatched complete, once and in
\* their order, and none is held back once its bytes have been read, but one
\* without data.
Delivered ==
  ~torn =>
    /\ IsPrefix(dispatched, sent)
    /\ wire = << >> /\ data = << >> =>
         \/ dispatched = sent
         \/ /\ Len(dispatched) = Len(sent) - 1
            /\ sent[Len(sent)].data = << >>

\* However the bytes are cut into chunks and into connections, and whatever they
\* are, what is dispatched is what the stream read as one holds: the decoder
\* misses a frame behind an odd MAGIC_WORD_1, reads a message that one client
\* left unfinished on into the bytes of the next, and nothing else is lost.
StreamRead == data = << >> => dispatched = MessagesFrom(received)

\* sendLog() cuts a text into messages whose size fits two bytes and which make up
\* the text again.
TextsWhole ==
  \A t \in Type, text \in Text :
    LET cut == Messages(t, text) IN
    /\ FlattenSeq([k \in DOMAIN cut |-> cut[k].data]) = text
    /\ \A k \in DOMAIN cut : Len(cut[k].data) \in 1 .. maxlen
=============================================================================
