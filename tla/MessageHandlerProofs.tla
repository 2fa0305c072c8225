------------------------ MODULE MessageHandlerProofs ------------------------
(***************************************************************************)
(* For every width of the integers and every set of documents: what the     *)
(* decoders make of a document, and what the handler may rely on.           *)
(***************************************************************************)
EXTENDS MessageHandler, TLAPS

----------------------------------------------------------------------------
(* json::get().                                                            *)

\* Half the range of an int is an integer.
LEMMA HalfInt == Half \in Int
BY WidthAssumption DEF Half

\* A cast brings every integer into the range of an int, and keeps one that fits.
LEMMA Cast ==
  ASSUME NEW n \in Int
  PROVE  ToInt(n) \in CInt /\ (n \in CInt => ToInt(n) = n)
<1>1. IntValues \in Int /\ IntValues > 0 /\ Half \in Int
  BY HalfInt, WidthAssumption
<1>2. (n + Half) % IntValues \in 0 .. IntValues - 1
  BY <1>1
<1>3. ASSUME n \in CInt PROVE (n + Half) % IntValues = n + Half
  <2>1. n + Half \in 0 .. IntValues - 1
    BY <1>1, <1>3 DEF CInt
  <2> QED
    BY <1>1, <2>1
<1> QED
  BY <1>1, <1>2, <1>3 DEF ToInt, CInt

\* get<int>() returns an int, and an integer that fits as it is.
LEMMA GetInt ==
  ASSUME NEW v \in JsonValue
  PROVE  /\ AsInt(v) \subseteq CInt
         /\ v.kind = "integer" /\ v.n \in CInt => AsInt(v) = {v.n}
         /\ AsInt(v) # {} => v.kind \in {"integer", "float", "boolean"}
<1>1. 0 \in CInt /\ 1 \in CInt
  BY WidthAssumption DEF CInt, Half
<1>2. CASE v.kind = "integer"
  BY <1>2, Cast DEF AsInt, JsonValue, NoNumber
<1>3. CASE v.kind = "float"
  BY <1>3 DEF AsInt
<1>4. CASE v.kind = "boolean"
  BY <1>1, <1>4 DEF AsInt
<1>5. CASE v.kind \notin {"integer", "float", "boolean"}
  BY <1>5 DEF AsInt
<1> QED
  BY <1>2, <1>3, <1>4, <1>5

\* get<uint8_t>() returns a byte, and an integer that fits as it is.
LEMMA GetByte ==
  ASSUME NEW v \in JsonValue
  PROVE  /\ AsByte(v) \subseteq UInt8
         /\ v.kind = "integer" /\ v.n \in UInt8 => AsByte(v) = {v.n}
         /\ AsByte(v) # {} => v.kind \in {"integer", "float", "boolean"}
<1>1. 0 \in UInt8 /\ 1 \in UInt8 /\ ByteValues \in Int /\ ByteValues > 0
  BY WidthAssumption DEF UInt8, CMD_ID_INTERVALOMETERSETUP
<1>2. CASE v.kind = "integer"
  <2>1. v.n \in Int
    BY <1>2 DEF JsonValue, NoNumber
  <2>2. v.n % ByteValues \in UInt8 /\ (v.n \in UInt8 => v.n % ByteValues = v.n)
    BY <1>1, <2>1 DEF UInt8
  <2> QED
    BY <1>2, <2>2 DEF AsByte
<1>3. CASE v.kind = "float"
  BY <1>3 DEF AsByte
<1>4. CASE v.kind = "boolean"
  BY <1>1, <1>4 DEF AsByte
<1>5. CASE v.kind \notin {"integer", "float", "boolean"}
  BY <1>5 DEF AsByte
<1> QED
  BY <1>2, <1>3, <1>4, <1>5

\* get<bool>() takes nothing but a boolean.
LEMMA GetBool ==
  ASSUME NEW v \in JsonValue
  PROVE  /\ AsBool(v) \subseteq BOOLEAN
         /\ v.kind = "boolean" => AsBool(v) = {v.b}
         /\ v.kind # "boolean" => AsBool(v) = {}
<1>1. v.kind = "boolean" => v.b \in BOOLEAN
  BY DEF JsonValue, NoNumber
<1> QED
  BY <1>1 DEF AsBool

----------------------------------------------------------------------------
(* The decoders.                                                           *)

\* The fields of a document are JSON values.
LEMMA Fields ==
  ASSUME NEW j \in Document
  PROVE  \A k \in Key : j[k] \in JsonValue
BY DEF Document

\* The ids that have a case of their own are different.
LEMMA Distinct ==
  /\ CMD_ID_SEQUENCERSETUP = 20 /\ CMD_ID_INTERVALOMETERSETUP = 30
  /\ CMD_ID_DOWNLOAD_AFTER_EXPOSURE = 19
  /\ CMD_ID_FUNCTIONSTART = 5 /\ CMD_ID_FUNCTION_TEST_CAPTURE = 18
  /\ CMD_ID_SHUTDOWN = 1 /\ CMD_ID_REBOOT = 2
BY DEF CMD_ID_SEQUENCERSETUP, CMD_ID_INTERVALOMETERSETUP, CMD_ID_DOWNLOAD_AFTER_EXPOSURE,
   CMD_ID_FUNCTIONSTART, CMD_ID_FUNCTION_TEST_CAPTURE, CMD_ID_SHUTDOWN, CMD_ID_REBOOT

\* A decoded command has been decoded by one of the four decoders, chosen by its id.
LEMMA Chosen ==
  ASSUME NEW j \in Document, NEW c \in decode(j)
  PROVE  \E id \in AsByte(j["cmd_id"]) :
           \/ id = 19 /\ c \in decodeDownloadAfterExposure(id, j)
           \/ id = 20 /\ c \in decodeSetupSequencer(id, j)
           \/ id = 30 /\ c \in decodeSetupIntervalometer(id, j)
           \/ id \in CmdId \ {19, 20, 30} /\ c \in decodeEmptyCommand(id, j)
<1>1. PICK id \in AsByte(j["cmd_id"]) : c \in decoder_map(id, j)
  BY DEF decode
<1>2. CASE id = 19
  BY <1>1, <1>2, Distinct DEF decoder_map
<1>3. CASE id = 20
  BY <1>1, <1>3, Distinct DEF decoder_map
<1>4. CASE id = 30
  BY <1>1, <1>4, Distinct DEF decoder_map
<1>5. CASE id \in CmdId \ {19, 20, 30}
  BY <1>1, <1>5, Distinct DEF decoder_map
<1>6. CASE id \notin CmdId
  <2>1. 19 \in CmdId /\ 20 \in CmdId /\ 30 \in CmdId
    BY Distinct DEF CmdId
  <2>2. decoder_map(id, j) = {}
    BY <1>6, <2>1, Distinct DEF decoder_map
  <2> QED
    BY <1>1, <2>2
<1> QED
  BY <1>2, <1>3, <1>4, <1>5, <1>6

\* It keeps that id and has a class and fields to match.
LEMMA Decoded ==
  ASSUME NEW j \in Document, NEW c \in decode(j)
  PROVE  /\ c.cmd_id \in AsByte(j["cmd_id"]) /\ c.cmd_id \in CmdId
         /\ c.cmd_id = 19 =>
              \E d \in AsBool(j["download"]) : c = DownloadAfterExposureCommand(19, d)
         /\ c.cmd_id = 20 =>
              \E n \in AsInt(j["num_exposures"]), e \in AsInt(j["exposure_time"]),
                 d \in AsBool(j["download"]) : c = SequencerSetupCommand(20, n, e, d)
         /\ c.cmd_id = 30 =>
              \E n \in AsInt(j["num_exposures"]), e \in AsInt(j["exposure_time"]),
                 i \in AsInt(j["interval"]), d \in AsBool(j["download"]) :
                c = IntervalometerSetupCommand(30, n, e, i, d)
         /\ c.cmd_id \notin {19, 20, 30} => c = Command(c.cmd_id)
<1>0. 19 \in CmdId /\ 20 \in CmdId /\ 30 \in CmdId
  BY Distinct DEF CmdId
<1>1. PICK id \in AsByte(j["cmd_id"]) :
           \/ id = 19 /\ c \in decodeDownloadAfterExposure(id, j)
           \/ id = 20 /\ c \in decodeSetupSequencer(id, j)
           \/ id = 30 /\ c \in decodeSetupIntervalometer(id, j)
           \/ id \in CmdId \ {19, 20, 30} /\ c \in decodeEmptyCommand(id, j)
  BY Chosen
<1>2. CASE id = 19 /\ c \in decodeDownloadAfterExposure(id, j)
  BY <1>0, <1>2 DEF decodeDownloadAfterExposure, DownloadAfterExposureCommand
<1>3. CASE id = 20 /\ c \in decodeSetupSequencer(id, j)
  BY <1>0, <1>3 DEF decodeSetupSequencer, SequencerSetupCommand
<1>4. CASE id = 30 /\ c \in decodeSetupIntervalometer(id, j)
  BY <1>0, <1>4 DEF decodeSetupIntervalometer, IntervalometerSetupCommand
<1>5. CASE id \in CmdId \ {19, 20, 30} /\ c \in decodeEmptyCommand(id, j)
  BY <1>5 DEF decodeEmptyCommand, Command
<1> QED
  BY <1>1, <1>2, <1>3, <1>4, <1>5

\* Every command decoded is of one of the four classes, with fields of their widths.
LEMMA Typed ==
  ASSUME NEW j \in Document, NEW c \in decode(j)
  PROVE  c \in Commands /\ CastTo(c.cmd_id) \in {"Command", c.class}
<1> DEFINE num == j["num_exposures"]
           exp == j["exposure_time"]
           int == j["interval"]
           dow == j["download"]
<1>1. /\ AsInt(num) \subseteq CInt /\ AsInt(exp) \subseteq CInt /\ AsInt(int) \subseteq CInt
      /\ AsBool(dow) \subseteq BOOLEAN
      /\ AsByte(j["cmd_id"]) \subseteq UInt8
  BY Fields, GetInt, GetBool, GetByte DEF Key
<1>2. c.cmd_id \in UInt8
  BY <1>1, Decoded
<1> HIDE DEF num, exp, int, dow
<1>3. CASE c.cmd_id = 19
  <2>1. PICK d \in AsBool(dow) : c = DownloadAfterExposureCommand(19, d)
    BY <1>3, Decoded DEF dow
  <2> QED
    BY <1>1, <1>2, <1>3, <2>1, Distinct DEF DownloadAfterExposureCommand, Commands, CastTo
<1>4. CASE c.cmd_id = 20
  <2>1. PICK n \in AsInt(num), e \in AsInt(exp), d \in AsBool(dow) :
          c = SequencerSetupCommand(20, n, e, d)
    BY <1>4, Decoded DEF num, exp, dow
  <2> QED
    BY <1>1, <1>2, <1>4, <2>1, Distinct DEF SequencerSetupCommand, Commands, CastTo
<1>5. CASE c.cmd_id = 30
  <2>1. PICK n \in AsInt(num), e \in AsInt(exp), i \in AsInt(int), d \in AsBool(dow) :
          c = IntervalometerSetupCommand(30, n, e, i, d)
    BY <1>5, Decoded DEF num, exp, int, dow
  <2> QED
    BY <1>1, <1>2, <1>5, <2>1, Distinct DEF IntervalometerSetupCommand, Commands, CastTo
<1>6. CASE c.cmd_id \notin {19, 20, 30}
  <2>1. c = Command(c.cmd_id)
    BY <1>6, Decoded
  <2>2. c.class = "Command" /\ c \in [class : {"Command"}, cmd_id : UInt8]
    BY <1>2, <2>1 DEF Command
  <2>3. CastTo(c.cmd_id) = "Command"
    BY <1>6, Distinct DEF CastTo
  <2> QED
    BY <2>2, <2>3 DEF Commands
<1> QED
  BY <1>3, <1>4, <1>5, <1>6

\* A well-formed document is decoded as what it means, and not otherwise.
LEMMA Meant ==
  ASSUME NEW j \in Document, WellFormed(j)
  PROVE  decode(j) = {Meaning(j)}
<1> DEFINE id == j["cmd_id"].n
           num == j["num_exposures"]
           exp == j["exposure_time"]
           int == j["interval"]
           dow == j["download"]
<1>1. id \in CmdId /\ AsByte(j["cmd_id"]) = {id}
  <2>1. CmdId \subseteq UInt8
    BY WidthAssumption DEF CmdId, UInt8, CMD_ID_SHUTDOWN, CMD_ID_REBOOT, CMD_ID_FUNCTIONSTART,
       CMD_ID_FUNCTIONSTOP, CMD_ID_CAMERA_TEST_CONNECTION, CMD_ID_CAMERA_RECONNECT,
       CMD_ID_FUNCTION_TEST_CAPTURE, CMD_ID_DOWNLOAD_AFTER_EXPOSURE, CMD_ID_SEQUENCERSETUP,
       CMD_ID_INTERVALOMETERSETUP
  <2> QED
    BY <2>1, Fields, GetByte DEF WellFormed, Key
<1>2. decode(j) = decoder_map(id, j)
  BY <1>1 DEF decode
<1>3. /\ num \in JsonValue /\ exp \in JsonValue /\ int \in JsonValue /\ dow \in JsonValue
  BY Fields DEF Key
<1>4. /\ \A k \in Numbers(id) : j[k].kind = "integer" /\ j[k].n \in CInt
      /\ \A k \in Switches(id) : j[k].kind = "boolean"
  BY DEF WellFormed
<1>5. CASE id = 20
  <2>1. Numbers(id) = {"num_exposures", "exposure_time"} /\ Switches(id) = {"download"}
    BY <1>5, Distinct DEF Numbers, Switches
  <2>2. AsInt(num) = {num.n} /\ AsInt(exp) = {exp.n} /\ AsBool(dow) = {dow.b}
    BY <1>3, <1>4, <2>1, GetInt, GetBool
  <2>3. decoder_map(id, j) = decodeSetupSequencer(id, j)
    BY <1>5, Distinct DEF decoder_map
  <2>4. decodeSetupSequencer(id, j) = {SequencerSetupCommand(id, num.n, exp.n, dow.b)}
    BY <2>2 DEF decodeSetupSequencer
  <2>5. Meaning(j) = SequencerSetupCommand(id, num.n, exp.n, dow.b)
    BY <1>5, Distinct DEF Meaning
  <2> QED
    BY <1>2, <2>3, <2>4, <2>5
<1>6. CASE id = 30
  <2>1. /\ Numbers(id) = {"num_exposures", "exposure_time", "interval"}
        /\ Switches(id) = {"download"}
    BY <1>6, Distinct DEF Numbers, Switches
  <2>2. /\ AsInt(num) = {num.n} /\ AsInt(exp) = {exp.n} /\ AsInt(int) = {int.n}
        /\ AsBool(dow) = {dow.b}
    BY <1>3, <1>4, <2>1, GetInt, GetBool
  <2>3. decoder_map(id, j) = decodeSetupIntervalometer(id, j)
    BY <1>6, Distinct DEF decoder_map
  <2>4. decodeSetupIntervalometer(id, j) = {IntervalometerSetupCommand(id, num.n, exp.n, int.n, dow.b)}
    BY <2>2 DEF decodeSetupIntervalometer
  <2>5. Meaning(j) = IntervalometerSetupCommand(id, num.n, exp.n, int.n, dow.b)
    BY <1>6, Distinct DEF Meaning
  <2> QED
    BY <1>2, <2>3, <2>4, <2>5
<1>7. CASE id = 19
  <2>1. Switches(id) = {"download"}
    BY <1>7, Distinct DEF Switches
  <2>2. AsBool(dow) = {dow.b}
    BY <1>3, <1>4, <2>1, GetBool
  <2>3. decoder_map(id, j) = decodeDownloadAfterExposure(id, j)
    BY <1>7, Distinct DEF decoder_map
  <2>4. decodeDownloadAfterExposure(id, j) = {DownloadAfterExposureCommand(id, dow.b)}
    BY <2>2 DEF decodeDownloadAfterExposure
  <2>5. Meaning(j) = DownloadAfterExposureCommand(id, dow.b)
    BY <1>7, Distinct DEF Meaning
  <2> QED
    BY <1>2, <2>3, <2>4, <2>5
<1>8. CASE id \notin {19, 20, 30}
  <2>1. decoder_map(id, j) = decodeEmptyCommand(id, j)
    BY <1>1, <1>8, Distinct DEF decoder_map
  <2>2. Meaning(j) = Command(id)
    BY <1>8, Distinct DEF Meaning
  <2> QED
    BY <1>2, <2>1, <2>2 DEF decodeEmptyCommand
<1> QED
  BY <1>5, <1>6, <1>7, <1>8

\* Whatever else is decoded had its switch, and a number that get() bent into shape.
LEMMA Refused ==
  ASSUME NEW j \in Document, NEW c \in decode(j)
  PROVE  /\ \A k \in Switches(c.cmd_id) : j[k].kind = "boolean"
         /\ \/ WellFormed(j)
            \/ Bent(j["cmd_id"], UInt8)
            \/ \E k \in Numbers(c.cmd_id) : Bent(j[k], CInt)
<1> DEFINE id == c.cmd_id
<1>1. id \in AsByte(j["cmd_id"]) /\ id \in CmdId
  BY Decoded
<1>2. \A k \in Key : j[k] \in JsonValue
  BY Fields
<1>3. \A k \in Switches(id) : k = "download" /\ j[k].kind = "boolean"
  <2>1. Switches(id) # {} => id \in {19, 20, 30} /\ Switches(id) = {"download"}
    BY Distinct DEF Switches
  <2>2. id \in {19, 20, 30} => AsBool(j["download"]) # {}
    BY Decoded
  <2> QED
    BY <1>2, <2>1, <2>2, GetBool DEF Key
<1>4. \A k \in Numbers(id) : k \in Key /\ AsInt(j[k]) # {}
  <2>1. id = 20 => Numbers(id) = {"num_exposures", "exposure_time"}
    BY Distinct DEF Numbers
  <2>2. id = 30 => Numbers(id) = {"num_exposures", "exposure_time", "interval"}
    BY Distinct DEF Numbers
  <2>3. id \notin {20, 30} => Numbers(id) = {}
    BY Distinct DEF Numbers
  <2>4. id \in {20, 30} => AsInt(j["num_exposures"]) # {} /\ AsInt(j["exposure_time"]) # {}
    BY Decoded
  <2>5. id = 30 => AsInt(j["interval"]) # {}
    BY Decoded
  <2> QED
    BY <2>1, <2>2, <2>3, <2>4, <2>5 DEF Key
<1>5. SUFFICES ASSUME ~Bent(j["cmd_id"], UInt8), \A k \in Numbers(id) : ~Bent(j[k], CInt)
               PROVE  WellFormed(j)
  BY <1>3
<1>6. j["cmd_id"].kind = "integer" /\ j["cmd_id"].n = id
  <2>1. j["cmd_id"].kind \in {"integer", "float", "boolean"}
    BY <1>1, <1>2, GetByte DEF Key
  <2>2. j["cmd_id"].kind = "integer" /\ j["cmd_id"].n \in UInt8
    BY <1>5, <2>1 DEF Bent
  <2> QED
    BY <1>1, <1>2, <2>2, GetByte DEF Key
<1>7. \A k \in Numbers(id) : j[k].kind = "integer" /\ j[k].n \in CInt
  BY <1>2, <1>4, <1>5, GetInt DEF Bent
<1> QED
  BY <1>1, <1>3, <1>6, <1>7 DEF WellFormed

----------------------------------------------------------------------------
(* The handler.                                                            *)

\* Only a document is a document.
LEMMA Told ==
  /\ Documents \subseteq Document
  /\ Malformed \notin Documents /\ OtherMessage \notin Documents /\ NoMessage \notin Documents
BY DocumentAssumption

\* What a command does keeps the types.
LEMMA TypeReceived ==
  ASSUME TypeOK, NEW j \in Documents, NEW c \in decode(j), onCommandReceived(c), message' = j
  PROVE  /\ phase' \in {"unset", "set", "running", "testing"}
         /\ ran' \in BOOLEAN /\ exposing' \in BOOLEAN
         /\ budget' \in CInt \cup {0}
         /\ function' \in Settings \cup {NoFunction}
         /\ wedged' \in BOOLEAN /\ power' \in {"up", "ordered", "called", "down"}
         /\ culprit' \in Documents \cup {Malformed, NoMessage}
<1> USE DEF TypeOK, sessionVars, settingsVars, powerVars
<1>0. j \in Document
  BY Told
<1>1. CASE Ignored
  BY <1>1 DEF Ignored
<1>2. ASSUME c.cmd_id \in {20, 30}
      PROVE  /\ c.num_exposures \in CInt /\ c.exp_time \in CInt /\ c.download \in BOOLEAN
             /\ c.cmd_id = 30 => c.interval \in CInt
  <2>1. c \in Commands /\ CastTo(c.cmd_id) \in {"Command", c.class}
    BY <1>0, Typed
  <2>2. c.class = IF c.cmd_id = 20 THEN "SequencerSetupCommand" ELSE "IntervalometerSetupCommand"
    BY <1>2, <2>1, Distinct DEF CastTo
  <2> QED
    BY <1>2, <2>1, <2>2 DEF Commands
<1>3. CASE c.cmd_id = 20
  <2>1. Setup(c, Sequencer(c))
    BY <1>3, Distinct DEF onCommandReceived
  <2>2. Sequencer(c) \in Settings
    BY <1>2, <1>3 DEF Sequencer, Settings
  <2> QED
    BY <1>1, <1>2, <1>3, <2>1, <2>2 DEF Setup, S!Configure
<1>4. CASE c.cmd_id = 30
  <2>1. Setup(c, Intervalometer(c))
    BY <1>4, Distinct DEF onCommandReceived
  <2>2. Intervalometer(c) \in Settings
    BY <1>2, <1>4 DEF Intervalometer, Settings
  <2> QED
    BY <1>1, <1>2, <1>4, <2>1, <2>2 DEF Setup, S!Configure
<1>5. CASE c.cmd_id = 19
  <2>1. DownloadAfterExposure(c)
    BY <1>5, Distinct DEF onCommandReceived
  <2>2. c.download \in BOOLEAN
    <3>1. PICK d \in AsBool(j["download"]) : c = DownloadAfterExposureCommand(19, d)
      BY <1>0, <1>5, Decoded
    <3>2. d \in BOOLEAN
      BY <1>0, Fields, GetBool DEF Key
    <3> QED
      BY <3>1, <3>2 DEF DownloadAfterExposureCommand
  <2>3. function \in Settings => [function EXCEPT !.download = c.download] \in Settings
    BY <2>2 DEF Settings
  <2> QED
    BY <1>1, <2>1, <2>3 DEF DownloadAfterExposure
<1>6. CASE c.cmd_id \notin {19, 20, 30}
  <2>1. FunctionStart \/ TestCapture \/ OrderHalt \/ Ignored
    BY <1>6, Distinct DEF onCommandReceived
  <2> QED
    BY <1>1, <2>1 DEF FunctionStart, TestCapture, OrderHalt, S!StartRun, S!StartTest
<1> QED
  BY <1>3, <1>4, <1>5, <1>6

\* Forgetting everything keeps the types.
LEMMA TypeForgotten ==
  ASSUME Forget
  PROVE  /\ phase' = "unset" /\ ran' = FALSE /\ exposing' = FALSE /\ budget' = 0
         /\ function' = NoFunction /\ wedged' = FALSE /\ power' = "down"
BY DEF Forget, S!PowerLoss

\* The budget of a run is an int: it is only counted down to zero.
LEMMA BudgetBounded ==
  ASSUME NEW b \in CInt \cup {0}, b > 0
  PROVE  b - 1 \in CInt \cup {0}
BY HalfInt, WidthAssumption DEF CInt, Half

\* Every step keeps the types.
LEMMA TypeStep == TypeOK /\ [Next]_vars => TypeOK'
<1> SUFFICES ASSUME TypeOK, [Next]_vars PROVE TypeOK'
  OBVIOUS
<1> USE DEF TypeOK, sessionVars, settingsVars, powerVars
<1>1. ASSUME NEW j \in Documents, Telecommand(j) PROVE TypeOK'
  <2>1. message' = j /\ j \in Document
    BY <1>1, Told DEF Telecommand, Handles
  <2>2. ASSUME NEW c \in decode(j), given' = c, onCommandReceived(c) PROVE TypeOK'
    <3>1. c \in Commands
      BY <2>1, Typed
    <3> HIDE DEF TypeOK
    <3>2. /\ phase' \in {"unset", "set", "running", "testing"}
          /\ ran' \in BOOLEAN /\ exposing' \in BOOLEAN
          /\ budget' \in CInt \cup {0}
          /\ function' \in Settings \cup {NoFunction}
          /\ wedged' \in BOOLEAN /\ power' \in {"up", "ordered", "called", "down"}
          /\ culprit' \in Documents \cup {Malformed, NoMessage}
      BY <2>1, <2>2, TypeReceived
    <3> QED
      BY <2>1, <2>2, <3>1, <3>2 DEF TypeOK
  <2>3. CASE given' = NoCommand /\ Ignored
    BY <2>1, <2>3 DEF Ignored
  <2> QED
    BY <1>1, <2>2, <2>3 DEF Telecommand
<1>2. CASE ParseThrows
  BY <1>2, TypeForgotten DEF ParseThrows, Handles
<1>3. CASE Unrecognized(OtherMessage)
  BY <1>3 DEF Unrecognized, Handles, Ignored
<1>4. CASE Proceeds
  BY <1>4, BudgetBounded DEF Proceeds, NoMessageHandled, S!RunExposure, S!TestExposure,
     S!EndExposure, S!Rest, S!Endless
<1>5. CASE TestThrows
  BY <1>5 DEF TestThrows, NoMessageHandled, S!Rest
<1>6. CASE SystemEnds \/ Killed
  BY <1>6, TypeForgotten DEF SystemEnds, Killed, NoMessageHandled
<1>9. CASE SystemReturns
  BY <1>9 DEF SystemReturns, NoMessageHandled
<1>7. CASE Boot
  BY <1>7 DEF Boot, NoMessageHandled
<1>8. CASE UNCHANGED vars
  BY <1>8 DEF vars
<1> QED
  BY <1>1, <1>2, <1>3, <1>4, <1>5, <1>6, <1>7, <1>8, <1>9 DEF Next

\* Every reachable state has the declared types, whatever is sent.
THEOREM TypeCorrect == Spec => []TypeOK
<1>1. Init => TypeOK
  BY DEF Init, S!Init, TypeOK
<1> QED
  BY <1>1, TypeStep, PTL DEF Spec

\* What one step hands over follows from the document of that step alone.
LEMMA HandedOver ==
  ASSUME Next
  PROVE  CastsMatch' /\ WellFormedObeyed' /\ IllFormedRefused'
<1> USE DEF CastsMatch, WellFormedObeyed, IllFormedRefused
<1>1. ASSUME NEW j \in Documents, Telecommand(j)
      PROVE  CastsMatch' /\ WellFormedObeyed' /\ IllFormedRefused'
  <2>1. message' = j /\ j \in Document
    BY <1>1, Told DEF Telecommand, Handles
  <2>2. ASSUME NEW c \in decode(j), given' = c
        PROVE  CastsMatch' /\ WellFormedObeyed' /\ IllFormedRefused'
    <3>1. CastTo(c.cmd_id) \in {"Command", c.class}
      BY <2>1, Typed
    <3>2. WellFormed(j) => c = Meaning(j)
      BY <2>1, Meant
    <3> QED
      BY <2>1, <2>2, <3>1, <3>2, Refused
  <2>3. CASE decode(j) = {} /\ given' = NoCommand
    BY <2>1, <2>3, Meant
  <2> QED
    BY <1>1, <2>2, <2>3 DEF Telecommand
<1>2. CASE ParseThrows \/ Unrecognized(OtherMessage)
  BY <1>2, Told DEF ParseThrows, Unrecognized, Handles
<1>3. CASE Proceeds \/ TestThrows \/ SystemReturns \/ SystemEnds \/ Killed \/ Boot
  BY <1>3, Told DEF Proceeds, TestThrows, SystemReturns, SystemEnds, Killed, Boot,
     NoMessageHandled
<1> QED
  BY <1>1, <1>2, <1>3 DEF Next

\* Whatever holds of every step's hand-over holds of every state.
LEMMA HandOver == Spec => [](CastsMatch /\ WellFormedObeyed /\ IllFormedRefused)
<1> DEFINE Handed == CastsMatch /\ WellFormedObeyed /\ IllFormedRefused
<1>1. Init => Handed
  BY Told DEF Init, CastsMatch, WellFormedObeyed, IllFormedRefused
<1>2. Handed /\ [Next]_vars => Handed'
  <2>1. CASE Next
    BY <2>1, HandedOver
  <2>2. CASE UNCHANGED vars
    BY <2>2 DEF vars, CastsMatch, WellFormedObeyed, IllFormedRefused
  <2> QED
    BY <2>1, <2>2
<1> QED
  BY <1>1, <1>2, PTL DEF Spec

\* The handler never casts a command to a class it does not have.
THEOREM CastsSafe == Spec => []CastsMatch
BY HandOver, PTL

\* A well-formed document is decoded as what it means.
THEOREM Obeyed == Spec => []WellFormedObeyed
BY HandOver, PTL

\* Any other is refused unless get() bends it into shape.
THEOREM IllFormed == Spec => []IllFormedRefused
BY HandOver, PTL

\* A command whose id is that of a halt comes from a document that asks for one.
LEMMA HaltAsked ==
  ASSUME NEW j \in Document, NEW c \in decode(j), c.cmd_id \in {CMD_ID_REBOOT, CMD_ID_SHUTDOWN}
  PROVE  AsksForHalt(j)
<1>1. c.cmd_id \in AsByte(j["cmd_id"])
  BY Decoded
<1>2. j["cmd_id"] \in JsonValue
  BY Fields DEF Key
<1>3. SUFFICES ASSUME ~Bent(j["cmd_id"], UInt8) PROVE AsksForHalt(j)
  BY DEF AsksForHalt
<1>4. j["cmd_id"].kind \in {"integer", "float", "boolean"}
  BY <1>1, <1>2, GetByte
<1>5. j["cmd_id"].kind = "integer" /\ j["cmd_id"].n \in UInt8
  BY <1>3, <1>4 DEF Bent
<1>6. c.cmd_id = j["cmd_id"].n
  BY <1>1, <1>2, <1>5, GetByte
<1> QED
  BY <1>5, <1>6 DEF AsksForHalt

\* One step keeps the reason for which the process ends.
LEMMA HaltStep == HaltOnRequest /\ [Next]_vars => HaltOnRequest'
<1> SUFFICES ASSUME HaltOnRequest, [Next]_vars PROVE HaltOnRequest'
  OBVIOUS
<1> USE DEF HaltOnRequest, powerVars, sessionVars
<1>1. ASSUME NEW j \in Documents, Telecommand(j) PROVE HaltOnRequest'
  <2>1. message' = j /\ j \in Document /\ phase # "testing" /\ power \in {"up", "called"}
    BY <1>1, Told DEF Telecommand, Handles
  <2>2. ASSUME NEW c \in decode(j), onCommandReceived(c) PROVE HaltOnRequest'
    <3>1. CASE c.cmd_id \in {CMD_ID_REBOOT, CMD_ID_SHUTDOWN}
      <4>1. OrderHalt
        BY <2>2, <3>1, Distinct DEF onCommandReceived
      <4>2. AsksForHalt(j)
        BY <2>1, <3>1, HaltAsked
      <4> QED
        BY <2>1, <4>1, <4>2 DEF OrderHalt
    <3>2. CASE c.cmd_id \notin {CMD_ID_REBOOT, CMD_ID_SHUTDOWN}
      <4>1. UNCHANGED powerVars
        BY <2>2, <3>2 DEF onCommandReceived, Setup, DownloadAfterExposure, FunctionStart,
           TestCapture, Ignored
      <4> QED
        BY <2>1, <4>1
    <3> QED
      BY <3>1, <3>2
  <2>3. CASE Ignored
    BY <2>3 DEF Ignored
  <2> QED
    BY <1>1, <2>2, <2>3 DEF Telecommand
<1>2. CASE ParseThrows \/ Killed
  BY <1>2, TypeForgotten, Told DEF ParseThrows, Killed
<1>3. CASE Unrecognized(OtherMessage)
  BY <1>3 DEF Unrecognized, Ignored
<1>4. CASE Proceeds \/ TestThrows
  BY <1>4 DEF Proceeds, TestThrows, S!RunExposure, S!TestExposure, S!EndExposure, S!Rest
<1>5. CASE SystemReturns \/ Boot
  BY <1>5, Told DEF SystemReturns, Boot
<1>6. CASE SystemEnds
  BY <1>6, TypeForgotten DEF SystemEnds
<1>7. CASE UNCHANGED vars
  BY <1>7 DEF vars
<1> QED
  BY <1>1, <1>2, <1>3, <1>4, <1>5, <1>6, <1>7 DEF Next

\* A document ends the process only by asking for it, whatever is sent and in whatever
\* order.
THEOREM HaltsOnRequest == Spec => []HaltOnRequest
<1>1. Init => HaltOnRequest
  BY Told DEF Init, HaltOnRequest
<1> QED
  BY <1>1, HaltStep, PTL DEF Spec

\* A setup is executed only at rest, and nothing else touches the settings.
LEMMA SettingsTouched ==
  ASSUME NEW c \in Commands, onCommandReceived(c), function' # function
  PROVE  \/ c.cmd_id \in {20, 30} /\ ~IsOperating
         \/ c.cmd_id = 19 /\ function' = [function EXCEPT !.download = c.download]
<1>1. CASE c.cmd_id \in {20, 30}
  BY <1>1, Distinct DEF onCommandReceived, Setup, Ignored, settingsVars
<1>2. CASE c.cmd_id = 19
  <2>1. DownloadAfterExposure(c)
    BY <1>2, Distinct DEF onCommandReceived
  <2> QED
    BY <1>2, <2>1 DEF DownloadAfterExposure, Ignored, settingsVars
<1>3. CASE c.cmd_id \notin {19, 20, 30}
  <2>1. FunctionStart \/ TestCapture \/ OrderHalt \/ Ignored
    BY <1>3, Distinct DEF onCommandReceived
  <2> QED
    BY <2>1 DEF FunctionStart, TestCapture, OrderHalt, Ignored, settingsVars
<1> QED
  BY <1>1, <1>2, <1>3

\* A well-formed setup at rest takes effect as it stands.
LEMMA SettingsTaken ==
  ASSUME NEW j \in Document, WellFormed(j), ~IsOperating, onCommandReceived(Meaning(j)),
         j["cmd_id"].n \in {20, 30}
  PROVE  /\ function'.exposure_time = j["exposure_time"].n
         /\ function'.class = "Intervalometer" => function'.interval = j["interval"].n
         /\ budget' = j["num_exposures"].n
<1> DEFINE c == Meaning(j)
<1>1. CASE j["cmd_id"].n = 20
  <2>1. c = SequencerSetupCommand(20, j["num_exposures"].n, j["exposure_time"].n,
                                  j["download"].b)
    BY <1>1, Distinct DEF Meaning
  <2> HIDE DEF c
  <2>2. Setup(c, Sequencer(c))
    BY <2>1, Distinct DEF c, onCommandReceived, SequencerSetupCommand
  <2>3. budget' = c.num_exposures /\ function' = Sequencer(c)
    BY <2>2 DEF Setup, S!Configure
  <2> QED
    BY <2>1, <2>3 DEF Sequencer, SequencerSetupCommand
<1>2. CASE j["cmd_id"].n = 30
  <2>1. c = IntervalometerSetupCommand(30, j["num_exposures"].n, j["exposure_time"].n,
                                       j["interval"].n, j["download"].b)
    BY <1>2, Distinct DEF Meaning
  <2> HIDE DEF c
  <2>2. Setup(c, Intervalometer(c))
    BY <2>1, Distinct DEF c, onCommandReceived, IntervalometerSetupCommand
  <2>3. budget' = c.num_exposures /\ function' = Intervalometer(c)
    BY <2>2 DEF Setup, S!Configure
  <2> QED
    BY <2>1, <2>3 DEF Intervalometer, IntervalometerSetupCommand
<1> QED
  BY <1>1, <1>2

\* Setups take effect at rest, as they were sent, and nothing else changes the settings.
THEOREM SettingsSafe == Spec => ConfiguredAtRest
<1>1. [Next]_vars => [SettingsStep]_vars
  <2> SUFFICES ASSUME Next PROVE SettingsStep
    OBVIOUS
  <2>1. ASSUME NEW j \in Documents, Telecommand(j) PROVE SettingsStep
    <3>1. message' = j /\ j \in Document
      BY <2>1, Told DEF Telecommand, Handles
    <3>2. CASE decode(j) = {} /\ Ignored
      BY <3>1, <3>2, Meant DEF SettingsStep, Ignored, settingsVars
    <3>3. ASSUME NEW c \in decode(j), given' = c, onCommandReceived(c) PROVE SettingsStep
      <4>1. c \in Commands
        BY <3>1, Typed
      <4>2. WellFormed(j) => c = Meaning(j)
        BY <3>1, Meant
      <4>3. function' # function =>
              \/ c.cmd_id \in {20, 30} /\ ~IsOperating
              \/ c.cmd_id = 19 /\ function' = [function EXCEPT !.download = c.download]
        BY <3>3, <4>1, SettingsTouched
      <4>4. WellFormed(j) /\ ~IsOperating /\ j["cmd_id"].n \in {20, 30} =>
              /\ function'.exposure_time = j["exposure_time"].n
              /\ function'.class = "Intervalometer" => function'.interval = j["interval"].n
              /\ budget' = j["num_exposures"].n
        BY <3>1, <3>3, <4>2, SettingsTaken
      <4> QED
        BY <3>1, <3>3, <4>3, <4>4, Distinct DEF SettingsStep
    <3> QED
      BY <2>1, <3>2, <3>3 DEF Telecommand
  <2>2. CASE ParseThrows \/ SystemEnds \/ Killed
    BY <2>2, Told, TypeForgotten DEF ParseThrows, SystemEnds, Killed, Handles, NoMessageHandled,
       SettingsStep
  <2>3. CASE Unrecognized(OtherMessage) \/ Proceeds \/ TestThrows \/ SystemReturns \/ Boot
    BY <2>3, Told DEF Unrecognized, Handles, Ignored, Proceeds, TestThrows, SystemReturns, Boot,
       NoMessageHandled, settingsVars, SettingsStep
  <2> QED
    BY <2>1, <2>2, <2>3 DEF Next
<1> QED
  BY <1>1, PTL DEF Spec, ConfiguredAtRest
=============================================================================
