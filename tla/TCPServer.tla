----------------------------- MODULE TCPServer -----------------------------
(***************************************************************************)
(* TCPServer.cpp and the logging threads that feed it.  A log line takes    *)
(* the logger's locks, and with them held goes through NetStream and        *)
(* MessageEncoder into send_buf under mtx_sender.  fn_server() accepts one  *)
(* client at a time, reads what it sends and executes its commands before it *)
(* reads again; fn_sender() takes chunks from send_buf and writes them to   *)
(* the client, with no lock held.                                          *)
(*                                                                         *)
(* send_buf is the queue of DropOldest (CircularBuffer implements it), its  *)
(* elements are log lines instead of bytes, numbered as they are put.       *)
(***************************************************************************)
EXTENDS Integers, Sequences

CONSTANTS
  Loggers,      \* the threads that log, but for fn_server(): main, the run threads
  Heart,        \* main(), which logs "Heartbeat" for ever
  Capacity,     \* SEND_BUF_SIZE
  Chunk,        \* buf_size of fn_sender()
  MaxClient,    \* bound: the clients that connect, one after the other
  MaxUnread,    \* bound: what a client has sent that is not read, in parts of a read()
  LastSerial    \* bound: the lines from this one on are not told apart

Server == 0       \* fn_server() as a logging thread
NoSocket == -1    \* sck_client before the first client and after a failed accept()

Threads == Loggers \cup {Server}
Clients == 1 .. MaxClient
Serials == 0 .. LastSerial

ASSUME ThreadAssumption == Heart \in Loggers /\ Server \notin Loggers
ASSUME SizeAssumption == Capacity \in Nat \ {0} /\ Chunk \in Nat \ {0}
ASSUME BoundAssumption ==
  MaxClient \in Nat /\ MaxUnread \in Nat \ {0} /\ LastSerial \in Nat

VARIABLES
  queue,            \* send_buf
  chunk,            \* buf of fn_sender()
  logged,           \* the number of the last line put
  logger,           \* where each thread is in Logger::log()
  server,           \* where fn_server() is
  sender,           \* where fn_sender() is
  clientConnected,  \* client_connected
  sck,              \* sck_client: the client it belongs to
  target,           \* the socket fn_sender() is writing to
  arrived,          \* the clients that have connected, accepted or not
  served,           \* the client accepted last
  here,             \* the clients that have not closed their end
  unread,           \* how much each client has sent that fn_server() has not read
  sent,             \* history: the last line written to a client
  raised,           \* history: the client for which client_connected was last set
  mark,             \* history: the last line put before that, while it is set
  takenFor,         \* history: raised, when the chunk was taken
  stray,            \* history: chunks of before its time that went to the client served
  alive             \* FALSE: SIGPIPE or an exception has ended the process

historyVars == <<sent, raised, mark, takenFor, stray>>
peerVars == <<arrived, here, unread>>
vars == <<queue, chunk, logged, logger, server, sender, clientConnected, sck, target,
          served, peerVars, historyVars, alive>>

LogPoint == {"idle", "wanting", "holding", "notifying"}
ServerPoint == {"listening", "accept", "flagUp", "wakeUp", "receive", "executing",
                "flagDown", "wakeDown"}
SenderPoint == {"locking", "sleepy", "waiting", "taking", "sending", "writing"}

Q == INSTANCE DropOldest WITH Size <- Capacity, Byte <- Serials, got <- chunk,
                              MaxPut <- 1, MaxGet <- Chunk

Init ==
  /\ queue = << >> /\ chunk = << >> /\ logged = 0
  /\ logger = [t \in Threads |-> "idle"]
  /\ server = "listening"
  /\ sender = "locking"
  /\ clientConnected = FALSE
  /\ sck = NoSocket /\ target = NoSocket
  /\ arrived = 0 /\ served = 0 /\ here = {}
  /\ unread = [c \in Clients |-> 0]
  /\ sent = 0 /\ raised = 0 /\ mark = 0 /\ takenFor = 0 /\ stray = 0
  /\ alive = TRUE

\* cv_sender.notify_one()
WakeSender == sender' = IF sender = "waiting" THEN "locking" ELSE sender

----------------------------------------------------------------------------
(* Logger::log(), NetStreamBuf::sync(), MessageEncoder::sendLog() and      *)
(* TCPServer::sendData().                                                  *)

LogOnly == <<server, clientConnected, sck, target, served, peerVars, historyVars, alive>>

Log(t) ==
  /\ logger[t] = "idle"
  /\ logger' = [logger EXCEPT ![t] = "wanting"]
  /\ UNCHANGED <<queue, chunk, logged, sender, LogOnly>>

\* mtx_streams, then mtx_log: both or none, as only this function takes mtx_log.
LockLog(t) ==
  /\ logger[t] = "wanting"
  /\ \A u \in Threads : logger[u] \in {"idle", "wanting"}
  /\ logger' = [logger EXCEPT ![t] = "holding"]
  /\ UNCHANGED <<queue, chunk, logged, sender, LogOnly>>

\* Fault: the sender keeps mtx_sender while it writes to the client.
SenderLocksLonger == sender \in {"sleepy", "taking", "sending", "writing"}

\* The sender holds mtx_sender.
SenderLocks == sender \in {"sleepy", "taking"}

Stamp == IF logged < LastSerial THEN logged + 1 ELSE LastSerial

\* Fault: put() without the mutex.
SendDataUnlocked(t) ==
  /\ logger[t] = "holding"
  /\ Q!Put(<<Stamp>>)
  /\ logged' = Stamp
  /\ logger' = [logger EXCEPT ![t] = "notifying"]
  /\ UNCHANGED <<sender, LogOnly>>

\* put() under mtx_sender.
SendData(t) ==
  /\ logger[t] = "holding"
  /\ ~SenderLocks
  /\ Q!Put(<<Stamp>>)
  /\ logged' = Stamp
  /\ logger' = [logger EXCEPT ![t] = "notifying"]
  /\ UNCHANGED <<sender, LogOnly>>

\* Fault: sendData() does not notify.
ReturnOnly(t) ==
  /\ logger[t] = "notifying"
  /\ logger' = [logger EXCEPT ![t] = "idle"]
  /\ UNCHANGED <<queue, chunk, logged, sender, LogOnly>>

\* notify_one(), without mtx_sender; the logger's locks are given back.
NotifySender(t) ==
  /\ logger[t] = "notifying"
  /\ WakeSender
  /\ logger' = [logger EXCEPT ![t] = "idle"]
  /\ UNCHANGED <<queue, chunk, logged, LogOnly>>

----------------------------------------------------------------------------
(* fn_server().  Its steps wait for the log line before them to return.    *)

ServerMoves(from, to) ==
  /\ logger[Server] = "idle"
  /\ server = from
  /\ server' = to

ServerLogs == logger' = [logger EXCEPT ![Server] = "wanting"]

ServerKeeps == <<queue, chunk, logged, target, arrived, here, sent, takenFor>>
ServerOnly == <<ServerKeeps, unread, alive>>

Listen ==
  /\ ServerMoves("listening", "accept")
  /\ ServerLogs
  /\ UNCHANGED <<sender, clientConnected, sck, served, raised, mark, stray, ServerOnly>>

\* accept() returns the next of the backlog.  The previous socket stays open.
Accept ==
  /\ ServerMoves("accept", "flagUp")
  /\ served < arrived
  /\ served' = served + 1
  /\ sck' = served + 1
  /\ stray' = 0
  /\ ServerLogs
  /\ UNCHANGED <<sender, clientConnected, raised, mark, ServerOnly>>

AcceptFails ==
  /\ ServerMoves("accept", "listening")
  /\ sck' = NoSocket
  /\ ServerLogs
  /\ UNCHANGED <<sender, clientConnected, served, raised, mark, stray, ServerOnly>>

\* client_connected = true, without mtx_sender.
FlagUp ==
  /\ ServerMoves("flagUp", "wakeUp")
  /\ clientConnected' = TRUE
  /\ raised' = served
  /\ mark' = logged
  /\ UNCHANGED <<logger, sender, sck, served, stray, ServerOnly>>

WakeUp ==
  /\ ServerMoves("wakeUp", "receive")
  /\ WakeSender
  /\ UNCHANGED <<logger, clientConnected, sck, served, raised, mark, stray, ServerOnly>>

\* read() returns some of what has arrived, also from a client that has closed, and
\* decode() begins.
Receive ==
  /\ ServerMoves("receive", "executing")
  /\ \E n \in 1 .. unread[served] : unread' = [unread EXCEPT ![served] = @ - n]
  /\ UNCHANGED <<logger, sender, clientConnected, sck, served, raised, mark, stray, ServerKeeps,
                 alive>>

\* The handler of a command logs, again and again if the command takes long.
CommandLogs ==
  /\ ServerMoves("executing", "executing")
  /\ ServerLogs
  /\ UNCHANGED <<sender, clientConnected, sck, served, raised, mark, stray, ServerOnly>>

\* decode() returns, if the commands in what was read do: a test capture may not, others
\* sleep for seconds.
DecodeReturns ==
  /\ ServerMoves("executing", "receive")
  /\ UNCHANGED <<logger, sender, clientConnected, sck, served, raised, mark, stray, ServerOnly>>

\* An exception of json::parse() comes out of decode(): nothing catches it.
DecodeThrows ==
  /\ ServerMoves("executing", "executing")
  /\ alive' = FALSE
  /\ UNCHANGED <<logger, sender, clientConnected, sck, served, raised, mark, stray, unread,
                 ServerKeeps>>

\* Fault: read() returning nothing is taken for no data yet.
ReceiveGoesOn ==
  /\ ServerMoves("receive", "receive")
  /\ served \notin here /\ unread[served] = 0
  /\ ServerLogs
  /\ UNCHANGED <<sender, clientConnected, sck, served, raised, mark, stray, ServerOnly>>

\* read() returns 0 or an error, and with it receive() false.  "Client disconnected" is
\* logged with the flag still set.
ReceiveEnds ==
  /\ ServerMoves("receive", "flagDown")
  /\ served \notin here /\ unread[served] = 0
  /\ ServerLogs
  /\ UNCHANGED <<sender, clientConnected, sck, served, raised, mark, stray, ServerOnly>>

\* Fault: client_connected stays set.
FlagStaysUp ==
  /\ ServerMoves("flagDown", "wakeDown")
  /\ UNCHANGED <<logger, sender, clientConnected, sck, served, raised, mark, stray, ServerOnly>>

FlagDown ==
  /\ ServerMoves("flagDown", "wakeDown")
  /\ clientConnected' = FALSE
  /\ mark' = 0
  /\ UNCHANGED <<logger, sender, sck, served, raised, stray, ServerOnly>>

WakeDown ==
  /\ ServerMoves("wakeDown", "listening")
  /\ WakeSender
  /\ UNCHANGED <<logger, clientConnected, sck, served, raised, mark, stray, ServerOnly>>

----------------------------------------------------------------------------
(* fn_sender().                                                            *)

SenderMoves(from, to) ==
  /\ sender = from
  /\ sender' = to

SenderOnly == <<logged, logger, server, clientConnected, sck, served, peerVars, raised, mark>>

\* mtx_sender is taken and the condition of the while evaluated.
Check ==
  /\ SenderMoves("locking", IF ~clientConnected \/ queue = << >> THEN "sleepy" ELSE "taking")
  /\ UNCHANGED <<queue, chunk, target, sent, takenFor, stray, alive, SenderOnly>>

\* cv_sender.wait(l) gives mtx_sender back and sleeps, in one step.
FallAsleep ==
  /\ SenderMoves("sleepy", "waiting")
  /\ UNCHANGED <<queue, chunk, target, sent, takenFor, stray, alive, SenderOnly>>

SpuriousWakeup ==
  /\ SenderMoves("waiting", "locking")
  /\ UNCHANGED <<queue, chunk, target, sent, takenFor, stray, alive, SenderOnly>>

\* Fault: get() empties the buffer.
TakeAll ==
  /\ SenderMoves("taking", "sending")
  /\ chunk' = SubSeq(queue, 1, Q!Least(Chunk, Len(queue)))
  /\ queue' = << >>
  /\ takenFor' = raised
  /\ UNCHANGED <<target, sent, stray, alive, SenderOnly>>

\* Fault: get() is asked for more than buf holds.
TakeTooMuch ==
  /\ SenderMoves("taking", "sending")
  /\ Q!Get(Chunk + 1)
  /\ takenFor' = raised
  /\ UNCHANGED <<target, sent, stray, alive, SenderOnly>>

\* get(), and mtx_sender is given back.
Take ==
  /\ SenderMoves("taking", "sending")
  /\ Q!Get(Chunk)
  /\ takenFor' = raised
  /\ UNCHANGED <<target, sent, stray, alive, SenderOnly>>

\* send(sck_client.load(), ...): the socket is read only now.
Write ==
  /\ SenderMoves("sending", "writing")
  /\ target' = sck
  /\ stray' = IF sck # NoSocket /\ takenFor # sck THEN stray + 1 ELSE stray
  /\ UNCHANGED <<queue, chunk, sent, takenFor, alive, SenderOnly>>

\* Fault: send() is called again with what it has already written.
WrittenAgain ==
  /\ SenderMoves("writing", "sending")
  /\ target \in here
  /\ sent' = chunk[Len(chunk)]
  /\ UNCHANGED <<queue, chunk, target, takenFor, stray, alive, SenderOnly>>

\* buf and the argument of send() are out of scope.
ChunkDone == chunk' = << >> /\ target' = NoSocket /\ takenFor' = 0

\* send() blocks for as long as the client does not read.
Written ==
  /\ SenderMoves("writing", "locking")
  /\ target \in here
  /\ sent' = chunk[Len(chunk)]
  /\ ChunkDone
  /\ UNCHANGED <<queue, stray, alive, SenderOnly>>

\* The client has gone, or the socket is -1: the error is not looked at.
WriteLost ==
  /\ SenderMoves("writing", "locking")
  /\ target \notin here
  /\ ChunkDone
  /\ UNCHANGED <<queue, sent, stray, alive, SenderOnly>>

\* The client has gone and its system has said so: EPIPE, with the signal.
BrokenPipe ==
  /\ SenderMoves("writing", "writing")
  /\ target # NoSocket /\ target \notin here
  /\ alive' = FALSE
  /\ UNCHANGED <<queue, chunk, target, sent, takenFor, stray, SenderOnly>>

----------------------------------------------------------------------------
(* Clients come and go as they like.                                       *)

ClientOnly == <<queue, chunk, logged, logger, server, sender, clientConnected, sck, target,
                served, historyVars, alive>>

Connect ==
  /\ arrived < MaxClient
  /\ arrived' = arrived + 1
  /\ here' = here \cup {arrived + 1}
  /\ UNCHANGED <<unread, ClientOnly>>

\* A client sends commands, accepted or not.
SendCommands(c) ==
  /\ c \in here
  /\ unread[c] < MaxUnread
  /\ unread' = [unread EXCEPT ![c] = @ + 1]
  /\ UNCHANGED <<arrived, here, ClientOnly>>

\* What it has sent can still be read, unless the connection is reset.
Disconnect(c) ==
  /\ c \in here
  /\ here' = here \ {c}
  /\ unread' \in {unread, [unread EXCEPT ![c] = 0]}
  /\ UNCHANGED <<arrived, ClientOnly>>

----------------------------------------------------------------------------

InLog(t) == LockLog(t) \/ SendData(t) \/ NotifySender(t)

\* What fn_server() does without waiting for a client or a command.
ServerStep ==
  \/ Listen \/ Accept \/ FlagUp \/ WakeUp
  \/ Receive \/ ReceiveEnds \/ FlagDown \/ WakeDown

SenderStep == Check \/ FallAsleep \/ Take \/ Write \/ WriteLost

ThreadStep ==
  \/ \E t \in Loggers : Log(t)
  \/ \E t \in Threads : InLog(t)
  \/ ServerStep \/ AcceptFails
  \/ CommandLogs \/ DecodeReturns \/ DecodeThrows
  \/ SenderStep \/ Written \/ BrokenPipe \/ SpuriousWakeup
  \/ Connect \/ (\E c \in Clients : SendCommands(c) \/ Disconnect(c))

Ended == ~alive /\ UNCHANGED vars

Next == (alive /\ ThreadStep) \/ Ended

Spec == Init /\ [][Next]_vars

\* Threads are scheduled, and a mutex that is free again and again is obtained.
\* main() logs for ever.  Nothing is asked of the clients: not that they read what
\* is written to them, not that they leave; nor of commands, not that they return.
Fairness ==
  /\ WF_vars(alive /\ Log(Heart))
  /\ \A t \in Threads :
       /\ SF_vars(alive /\ LockLog(t))
       /\ SF_vars(alive /\ SendData(t))
       /\ WF_vars(alive /\ NotifySender(t))
  /\ WF_vars(alive /\ ServerStep)
  /\ WF_vars(alive /\ SenderStep)

FairSpec == Spec /\ Fairness

----------------------------------------------------------------------------
(* Properties.                                                             *)

\* Every variable keeps its type, and the buffer its capacity.
TypeOK ==
  /\ queue \in Seq(Serials) /\ Len(queue) <= Capacity
  /\ chunk \in Seq(Serials) /\ Len(chunk) <= Chunk
  /\ logged \in Serials
  /\ logger \in [Threads -> LogPoint]
  /\ server \in ServerPoint
  /\ sender \in SenderPoint
  /\ clientConnected \in BOOLEAN
  /\ sck \in Clients \cup {NoSocket}
  /\ target \in Clients \cup {NoSocket}
  /\ arrived \in 0 .. MaxClient
  /\ served \in 0 .. arrived
  /\ here \subseteq Clients
  /\ unread \in [Clients -> 0 .. MaxUnread]
  /\ sent \in Serials
  /\ raised \in 0 .. served
  /\ mark \in Serials
  /\ takenFor \in 0 .. served
  /\ stray \in Nat
  /\ alive \in BOOLEAN

\* A line that has not been written yet: fn_sender() is about to.
InHand == IF sender \in {"sending", "writing"} THEN chunk ELSE << >>

\* Two lines in this order are told apart.
Later(a, b) == a < b \/ b = LastSerial

\* Lines are written in the order they were logged and none is written twice,
\* whichever clients they go to: what is still in hand or in the buffer is later
\* than all that was written.
WireOrder ==
  LET ahead == InHand \o queue IN
  /\ \A i \in 1 .. Len(ahead) : Later(sent, ahead[i])
  /\ \A i, j \in 1 .. Len(ahead) : i < j => Later(ahead[i], ahead[j])

\* Between a chunk and the rest of the buffer no line is missing, unless the
\* buffer was filled to its capacity behind the chunk.
LossOnlyWhenFull ==
  InHand # << >> /\ queue # << >> =>
    \/ queue[1] = chunk[Len(chunk)] + 1
    \/ Len(queue) = Capacity
    \/ queue[1] = LastSerial

\* The sender may miss the wakeup of a client that connects, never that of a line:
\* if it sleeps beside a client and a filled buffer, then all of the buffer was
\* logged before client_connected was set, or the wakeup is on its way.
AsleepOverOldLines ==
  sender = "waiting" /\ clientConnected /\ queue # << >> =>
    \/ queue[Len(queue)] <= mark
    \/ \E t \in Threads : logger[t] = "notifying"

\* At most one chunk taken in another client's time, or before client_connected
\* was set, reaches the client that is served.
OneStrayChunk == stray <= 1

\* A client that does not read stops nobody but the sender: log() returns.
LogReturns ==
  \A t \in Threads : (logger[t] # "idle") ~> (logger[t] = "idle" \/ ~alive)

\* A connected client is sent what is in the buffer, even after a missed wakeup,
\* because another line is logged sooner or later.
DataMoves ==
  (clientConnected /\ queue # << >>) ~> (sender = "writing" \/ ~clientConnected \/ ~alive)

\* The receiving thread does not stay in a command for ever.
CommandsEnd == []<>(server # "executing")

\* The end of a session is noticed, and the next client can be accepted, whatever the
\* client has left unread, if its commands return: nothing but a command can keep the
\* thread from coming round to read() again.
DepartureNoticed ==
  CommandsEnd =>
    ((clientConnected /\ served \notin here) ~> (~clientConnected \/ ~alive))
=============================================================================
