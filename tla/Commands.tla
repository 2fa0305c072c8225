------------------------------ MODULE Commands ------------------------------
(***************************************************************************)
(* Commands.h and Commands.cpp: how the JSON text of a telecommand becomes  *)
(* a Command.  A document is a JSON value, which is looked at through five  *)
(* keys; one that is not an object has none of them.  Exceptions thrown by  *)
(* json::at() and json::get() are caught: a decoder that throws yields no   *)
(* command.                                                                *)
(***************************************************************************)
EXTENDS Integers

CONSTANTS
  ByteValues,    \* values of uint8_t: 256
  IntValues      \* values of int: 2^32

\* enum Commands.
CMD_ID_SHUTDOWN == 1
CMD_ID_REBOOT == 2
CMD_ID_FUNCTIONSTART == 5
CMD_ID_FUNCTIONSTOP == 6
CMD_ID_CAMERA_TEST_CONNECTION == 9
CMD_ID_CAMERA_RECONNECT == 10
CMD_ID_FUNCTION_TEST_CAPTURE == 18
CMD_ID_DOWNLOAD_AFTER_EXPOSURE == 19
CMD_ID_SEQUENCERSETUP == 20
CMD_ID_INTERVALOMETERSETUP == 30

CmdId == {CMD_ID_SHUTDOWN, CMD_ID_REBOOT, CMD_ID_FUNCTIONSTART, CMD_ID_FUNCTIONSTOP,
          CMD_ID_CAMERA_TEST_CONNECTION, CMD_ID_CAMERA_RECONNECT,
          CMD_ID_FUNCTION_TEST_CAPTURE, CMD_ID_DOWNLOAD_AFTER_EXPOSURE,
          CMD_ID_SEQUENCERSETUP, CMD_ID_INTERVALOMETERSETUP}

ASSUME WidthAssumption ==
  /\ ByteValues \in Nat /\ ByteValues > CMD_ID_INTERVALOMETERSETUP
  /\ IntValues \in Nat /\ IntValues > 3

UInt8 == 0 .. ByteValues - 1

Half == IntValues \div 2
CInt == -Half .. IntValues - Half - 1

\* A value of JSON: an integer of any size, a number with a fraction (n is its
\* integral part), a boolean, or anything else: a text, an array, null, no value.
Integer(n) == [kind |-> "integer", n |-> n]
Float(n) == [kind |-> "float", n |-> n]
Boolean(b) == [kind |-> "boolean", b |-> b]
NoNumber == [kind |-> "other"]

JsonValue == [kind : {"integer", "float"}, n : Int] \cup [kind : {"boolean"}, b : BOOLEAN]
             \cup {NoNumber}

Key == {"cmd_id", "num_exposures", "exposure_time", "interval", "download"}

Document == [Key -> JsonValue]

----------------------------------------------------------------------------
(* json::get(): the values it may return, none when it throws.             *)

\* Fault: a number is kept as it is.
ToIntWide(n) == n

\* static_cast<int>.
ToInt(n) == ((n + Half) % IntValues) - Half

\* A boolean is a number to get<uint8_t>() and get<int>().  An integer is cut to the
\* width, and what a number with a fraction becomes that does not fit is undefined.
AsByte(v) ==
  CASE v.kind = "integer" -> {v.n % ByteValues}
    [] v.kind = "float"   -> IF v.n \in UInt8 THEN {v.n} ELSE UInt8
    [] v.kind = "boolean" -> {IF v.b THEN 1 ELSE 0}
    [] OTHER -> {}

AsInt(v) ==
  CASE v.kind = "integer" -> {ToInt(v.n)}
    [] v.kind = "float"   -> IF v.n \in CInt THEN {v.n} ELSE CInt
    [] v.kind = "boolean" -> {IF v.b THEN 1 ELSE 0}
    [] OTHER -> {}

\* Fault: a number is a boolean too.
AsBoolLenient(v) ==
  CASE v.kind = "boolean" -> {v.b}
    [] v.kind = "integer" -> {v.n # 0}
    [] OTHER -> {}

AsBool(v) == IF v.kind = "boolean" THEN {v.b} ELSE {}

----------------------------------------------------------------------------
(* The four decoders, and the table that chooses one.                      *)

Command(id) == [class |-> "Command", cmd_id |-> id]

DownloadAfterExposureCommand(id, download) ==
  [class |-> "DownloadAfterExposureCommand", cmd_id |-> id, download |-> download]

SequencerSetupCommand(id, num, exp, download) ==
  [class |-> "SequencerSetupCommand", cmd_id |-> id, num_exposures |-> num, exp_time |-> exp,
   download |-> download]

IntervalometerSetupCommand(id, num, exp, interval, download) ==
  [class |-> "IntervalometerSetupCommand", cmd_id |-> id, num_exposures |-> num,
   exp_time |-> exp, interval |-> interval, download |-> download]

Commands == [class : {"Command"}, cmd_id : UInt8]
  \cup [class : {"DownloadAfterExposureCommand"}, cmd_id : UInt8, download : BOOLEAN]
  \cup [class : {"SequencerSetupCommand"}, cmd_id : UInt8, num_exposures : CInt,
        exp_time : CInt, download : BOOLEAN]
  \cup [class : {"IntervalometerSetupCommand"}, cmd_id : UInt8, num_exposures : CInt,
        exp_time : CInt, interval : CInt, download : BOOLEAN]

decodeEmptyCommand(id, j) == {Command(id)}

decodeDownloadAfterExposure(id, j) ==
  {DownloadAfterExposureCommand(id, d) : d \in AsBool(j["download"])}

decodeSetupSequencer(id, j) ==
  {SequencerSetupCommand(id, n, e, d) :
     n \in AsInt(j["num_exposures"]), e \in AsInt(j["exposure_time"]),
     d \in AsBool(j["download"])}

\* Fault: the two times are read from each other's keys.
decodeSetupIntervalometerSwapped(id, j) ==
  {IntervalometerSetupCommand(id, n, e, i, d) :
     n \in AsInt(j["num_exposures"]), e \in AsInt(j["interval"]),
     i \in AsInt(j["exposure_time"]), d \in AsBool(j["download"])}

decodeSetupIntervalometer(id, j) ==
  {IntervalometerSetupCommand(id, n, e, i, d) :
     n \in AsInt(j["num_exposures"]), e \in AsInt(j["exposure_time"]),
     i \in AsInt(j["interval"]), d \in AsBool(j["download"])}

\* Fault: the download command is taken for one without fields.
decoder_mapShort(id, j) ==
  CASE id = CMD_ID_SEQUENCERSETUP -> decodeSetupSequencer(id, j)
    [] id = CMD_ID_INTERVALOMETERSETUP -> decodeSetupIntervalometer(id, j)
    [] id \in CmdId \ {CMD_ID_SEQUENCERSETUP, CMD_ID_INTERVALOMETERSETUP} ->
         decodeEmptyCommand(id, j)
    [] OTHER -> {}

decoder_map(id, j) ==
  CASE id = CMD_ID_DOWNLOAD_AFTER_EXPOSURE -> decodeDownloadAfterExposure(id, j)
    [] id = CMD_ID_SEQUENCERSETUP -> decodeSetupSequencer(id, j)
    [] id = CMD_ID_INTERVALOMETERSETUP -> decodeSetupIntervalometer(id, j)
    [] id \in CmdId \ {CMD_ID_DOWNLOAD_AFTER_EXPOSURE, CMD_ID_SEQUENCERSETUP,
                       CMD_ID_INTERVALOMETERSETUP} -> decodeEmptyCommand(id, j)
    [] OTHER -> {}

\* decode(): the commands a document may become.  cmd_id is read again by the decoder,
\* with the same outcome.
decode(j) == UNION {decoder_map(id, j) : id \in AsByte(j["cmd_id"])}
=============================================================================
