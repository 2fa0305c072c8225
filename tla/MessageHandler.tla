--------------------------- MODULE MessageHandler ---------------------------
(***************************************************************************)
(* MessageHandler::handleMessage() and the command handler of main.cpp: from *)
(* a message of the client to what it changes.  The camera functions are     *)
(* here what Session promises of them, which FunctionControl implements;     *)
(* this module adds the settings a function is constructed with.             *)
(***************************************************************************)
EXTENDS Commands

CONSTANTS
  Documents,     \* the JSON documents that are sent
  Malformed,     \* a telecommand whose text is not JSON
  OtherMessage,  \* a message of another type than MSGTYPE_TELECOMMAND
  NoMessage,
  NoCommand,
  NoFunction

ASSUME DocumentAssumption ==
  /\ Documents \subseteq Document
  /\ {Malformed, OtherMessage, NoMessage} \cap Document = {}
  /\ NoCommand \notin Commands

VARIABLES
  phase, ran, budget, exposing,   \* the session
  function,      \* what the active function was constructed with
  wedged,        \* a test capture threw: the function is taken for operating for ever
  power,         \* the process runs ("up"), its command thread is ordering the system to
                 \* go down, system() has returned ("called"), the process has ended
  message,       \* history: the message that was handled in this step
  given,         \* history: the command that was given to the handler in this step
  culprit        \* history: the message for which the process is to end or has ended

S == INSTANCE Session WITH Shots <- CInt

sessionVars == <<phase, ran, budget, exposing>>
vars == <<sessionVars, function, wedged, power, message, given, culprit>>
settingsVars == <<function, wedged>>
powerVars == <<power, culprit>>

Settings == [class : {"Sequencer"}, exposure_time : CInt, download : BOOLEAN]
  \cup [class : {"Intervalometer"}, interval : CInt, exposure_time : CInt, download : BOOLEAN]

Init ==
  /\ S!Init
  /\ function = NoFunction /\ wedged = FALSE /\ power = "up"
  /\ message = NoMessage /\ given = NoCommand /\ culprit = NoMessage

----------------------------------------------------------------------------
(* onCommandReceived().                                                    *)

\* isOperating(), as the command thread sees it: it does not run while a test does.
IsOperating == phase = "running" \/ wedged

Sequencer(c) ==
  [class |-> "Sequencer", exposure_time |-> c.exp_time, download |-> c.download]

Intervalometer(c) ==
  [class |-> "Intervalometer", interval |-> c.interval, exposure_time |-> c.exp_time,
   download |-> c.download]

Ignored == UNCHANGED <<sessionVars, settingsVars, powerVars>>

\* Fault: the old function is deleted whatever it does.
SetupUnchecked(c, settings) ==
  /\ phase' = "set" /\ ran' = FALSE /\ budget' = c.num_exposures
  /\ exposing' = FALSE
  /\ function' = settings
  /\ wedged' = FALSE
  /\ UNCHANGED powerVars

Setup(c, settings) ==
  IF IsOperating THEN Ignored
  ELSE /\ S!Configure(c.num_exposures)
       /\ function' = settings
       /\ UNCHANGED <<wedged, powerVars>>

DownloadAfterExposure(c) ==
  IF function = NoFunction THEN Ignored
  ELSE /\ function' = [function EXCEPT !.download = c.download]
       /\ UNCHANGED <<sessionVars, wedged, powerVars>>

\* start() and testCapture() give up when the camera does not answer.
FunctionStart ==
  \/ /\ phase = "set" /\ ~ran /\ ~wedged
     /\ S!StartRun
     /\ UNCHANGED <<settingsVars, powerVars>>
  \/ Ignored

TestCapture ==
  \/ /\ phase = "set" /\ ~wedged
     /\ S!StartTest
     /\ UNCHANGED <<settingsVars, powerVars>>
  \/ Ignored

\* sleep_for(5 s) and system(), which SystemReturns and SystemEnds go on with.
OrderHalt ==
  /\ power' = "ordered"
  /\ culprit' = message'
  /\ UNCHANGED <<sessionVars, settingsVars>>

\* abort() is heard by the run, which ends by itself in the model (Rest); the others
\* only talk to the camera.
onCommandReceived(c) ==
  CASE c.cmd_id = CMD_ID_SEQUENCERSETUP -> Setup(c, Sequencer(c))
    [] c.cmd_id = CMD_ID_INTERVALOMETERSETUP -> Setup(c, Intervalometer(c))
    [] c.cmd_id = CMD_ID_DOWNLOAD_AFTER_EXPOSURE -> DownloadAfterExposure(c)
    [] c.cmd_id = CMD_ID_FUNCTIONSTART -> FunctionStart
    [] c.cmd_id = CMD_ID_FUNCTION_TEST_CAPTURE -> TestCapture
    [] c.cmd_id \in {CMD_ID_REBOOT, CMD_ID_SHUTDOWN} -> OrderHalt
    [] OTHER -> Ignored

\* The class each case of the switch casts the command to.
CastTo(id) ==
  CASE id = CMD_ID_SEQUENCERSETUP -> "SequencerSetupCommand"
    [] id = CMD_ID_INTERVALOMETERSETUP -> "IntervalometerSetupCommand"
    [] id = CMD_ID_DOWNLOAD_AFTER_EXPOSURE -> "DownloadAfterExposureCommand"
    [] OTHER -> "Command"

----------------------------------------------------------------------------
(* handleMessage().                                                        *)

\* The command thread is in handleMessage() until a test capture has ended, and until
\* system() has returned.  Messages that come before the system is down are handled.
Handles(m) ==
  /\ power \in {"up", "called"}
  /\ phase # "testing"
  /\ message' = m

Unrecognized(type) ==
  /\ Handles(type)
  /\ given' = NoCommand
  /\ Ignored

Forget ==
  /\ S!PowerLoss
  /\ function' = NoFunction
  /\ wedged' = FALSE
  /\ power' = "down"

\* Fault: what the decoders throw is not caught.
TelecommandUncaught(j) ==
  /\ Handles(j)
  /\ \/ \E c \in decode(j) :
          /\ given' = c
          /\ onCommandReceived(c)
     \/ /\ decode(j) = {}
        /\ given' = NoCommand
        /\ Forget
        /\ culprit' = j

\* The document becomes a command for the listener, or "Couldn't decode telecommand."
Telecommand(j) ==
  /\ Handles(j)
  /\ \/ \E c \in decode(j) :
          /\ given' = c
          /\ onCommandReceived(c)
     \/ /\ decode(j) = {}
        /\ given' = NoCommand
        /\ Ignored

\* json::parse() throws, outside any try block: the process ends.
ParseThrows ==
  /\ Handles(Malformed)
  /\ given' = NoCommand
  /\ Forget
  /\ culprit' = Malformed

----------------------------------------------------------------------------
(* What happens besides: runs and tests proceed, the process ends.         *)

NoMessageHandled == message' = NoMessage /\ given' = NoCommand

Proceeds ==
  /\ S!RunExposure \/ S!TestExposure \/ S!EndExposure \/ S!Rest
  /\ NoMessageHandled
  /\ UNCHANGED <<settingsVars, powerVars>>

\* doTestCapture() ends by an exception (FunctionControl).
TestThrows ==
  /\ phase = "testing"
  /\ S!Rest
  /\ wedged' = TRUE
  /\ NoMessageHandled
  /\ UNCHANGED <<function, powerVars>>

\* system() returns: the system begins to go down, or sudo has refused and it never does.
SystemReturns ==
  /\ power = "ordered"
  /\ power' = "called"
  /\ NoMessageHandled
  /\ UNCHANGED <<sessionVars, settingsVars, culprit>>

\* The system ends the process, which may still be in system().
SystemEnds ==
  /\ power \in {"ordered", "called"}
  /\ Forget
  /\ NoMessageHandled
  /\ UNCHANGED culprit

\* The process ends for another reason.
Killed ==
  /\ power # "down"
  /\ Forget
  /\ NoMessageHandled
  /\ culprit' = NoMessage

Boot ==
  /\ power = "down"
  /\ power' = "up" /\ culprit' = NoMessage
  /\ NoMessageHandled
  /\ UNCHANGED <<sessionVars, settingsVars>>

Next ==
  \/ \E j \in Documents : Telecommand(j)
  \/ ParseThrows
  \/ Unrecognized(OtherMessage)
  \/ Proceeds \/ TestThrows
  \/ SystemReturns \/ SystemEnds \/ Killed \/ Boot

Spec == Init /\ [][Next]_vars

----------------------------------------------------------------------------
(* What a document means to whoever sends it.                              *)

\* The fields of each command, and what is to be in them.
Numbers(id) ==
  CASE id = CMD_ID_SEQUENCERSETUP -> {"num_exposures", "exposure_time"}
    [] id = CMD_ID_INTERVALOMETERSETUP -> {"num_exposures", "exposure_time", "interval"}
    [] OTHER -> {}

Switches(id) ==
  IF id \in {CMD_ID_SEQUENCERSETUP, CMD_ID_INTERVALOMETERSETUP, CMD_ID_DOWNLOAD_AFTER_EXPOSURE}
  THEN {"download"} ELSE {}

\* A document in which everything is what it should be.
WellFormed(j) ==
  /\ j["cmd_id"].kind = "integer" /\ j["cmd_id"].n \in CmdId
  /\ \A k \in Numbers(j["cmd_id"].n) : j[k].kind = "integer" /\ j[k].n \in CInt
  /\ \A k \in Switches(j["cmd_id"].n) : j[k].kind = "boolean"

\* A number that get() makes another one of: too large, with a fraction, a boolean.
Bent(v, range) == v.kind \in {"float", "boolean"} \/ (v.kind = "integer" /\ v.n \notin range)

\* The command a well-formed document stands for.
Meaning(j) ==
  LET id == j["cmd_id"].n IN
  CASE id = CMD_ID_SEQUENCERSETUP ->
         SequencerSetupCommand(id, j["num_exposures"].n, j["exposure_time"].n, j["download"].b)
    [] id = CMD_ID_INTERVALOMETERSETUP ->
         IntervalometerSetupCommand(id, j["num_exposures"].n, j["exposure_time"].n,
                                    j["interval"].n, j["download"].b)
    [] id = CMD_ID_DOWNLOAD_AFTER_EXPOSURE ->
         DownloadAfterExposureCommand(id, j["download"].b)
    [] OTHER -> Command(id)

----------------------------------------------------------------------------
(* Properties.                                                             *)

\* Every variable keeps its type: what the handler is given fits the width of its
\* fields, whatever was sent.
TypeOK ==
  /\ phase \in {"unset", "set", "running", "testing"}
  /\ ran \in BOOLEAN /\ exposing \in BOOLEAN
  /\ budget \in CInt \cup {0}
  /\ function \in Settings \cup {NoFunction}
  /\ wedged \in BOOLEAN /\ power \in {"up", "ordered", "called", "down"}
  /\ message \in Documents \cup {Malformed, OtherMessage, NoMessage}
  /\ given \in Commands \cup {NoCommand}
  /\ culprit \in Documents \cup {Malformed, NoMessage}

\* reinterpret_cast in the handler: a command has the class to which the case of its
\* id casts it, so that no field is read that was never written.
CastsMatch == given # NoCommand => CastTo(given.cmd_id) \in {"Command", given.class}

\* A document in which everything is what it should be is decoded as what it says,
\* through the table of decoders and the argument lists of the commands.
WellFormedObeyed ==
  message \in Documents /\ WellFormed(message) => given = Meaning(message)

\* Any other is refused, unless get() makes a fitting number out of one that does not
\* fit: 257 halts the computer as 1 does, and so does true.
IllFormedRefused ==
  given # NoCommand =>
    /\ \A k \in Switches(given.cmd_id) : message[k].kind = "boolean"
    /\ \/ WellFormed(message)
       \/ Bent(message["cmd_id"], UInt8)
       \/ \E k \in Numbers(given.cmd_id) : Bent(message[k], CInt)

\* A document that asks for it, or whose id get() makes into one that does.
AsksForHalt(j) ==
  \/ j["cmd_id"].kind = "integer" /\ j["cmd_id"].n \in {CMD_ID_REBOOT, CMD_ID_SHUTDOWN}
  \/ Bent(j["cmd_id"], UInt8)

\* A document ends the process, at once or later and whatever is handled in between,
\* only by asking for it, never by what it lacks or has too much of.  The command
\* thread waits for the system meanwhile, and takes no picture.
HaltOnRequest ==
  /\ culprit \in Documents => AsksForHalt(culprit)
  /\ power \in {"ordered", "called"} => culprit \in Documents
  /\ power = "ordered" => phase # "testing"

SettingsStep ==
  /\ function' # function =>
       \/ power' = "down"
       \/ given'.cmd_id \in {CMD_ID_SEQUENCERSETUP, CMD_ID_INTERVALOMETERSETUP}
          /\ ~IsOperating
       \/ given'.cmd_id = CMD_ID_DOWNLOAD_AFTER_EXPOSURE
          /\ function' = [function EXCEPT !.download = given'.download]
  /\ (/\ message' \in Documents /\ WellFormed(message') /\ ~IsOperating
      /\ message'["cmd_id"].n \in {CMD_ID_SEQUENCERSETUP, CMD_ID_INTERVALOMETERSETUP}) =>
       /\ function'.exposure_time = message'["exposure_time"].n
       /\ function'.class = "Intervalometer" => function'.interval = message'["interval"].n
       /\ budget' = message'["num_exposures"].n

\* The settings in force are those of the last setup that came while nothing ran: it
\* takes effect at once, and neither a setup during a run nor anything else changes
\* them, but the switch for downloads.
ConfiguredAtRest == [][SettingsStep]_vars
=============================================================================
