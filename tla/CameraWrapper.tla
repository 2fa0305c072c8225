--------------------------- MODULE CameraWrapper ---------------------------
(***************************************************************************)
(* CameraWrapper.cpp, used by the command thread (connect(), disconnect(),  *)
(* isResponsive()) and by the thread of a run (capture()), with no lock     *)
(* between them, and the camera behind it: its shutter, which the trigger   *)
(* toggles in BULB mode, the pictures it writes and the events it reports.  *)
(* libgphoto2 and the camera are external: any call may fail at any time.   *)
(*                                                                         *)
(* A test capture is a run of one capture here; that it blocks the command  *)
(* thread only takes interleavings away (FunctionControl).                  *)
(***************************************************************************)
EXTENDS Integers

CONSTANT MaxEvents     \* bound: pictures the camera has not reported yet

ASSUME BoundAssumption == MaxEvents \in Nat \ {0}

VARIABLES
  handle,       \* camera: "null", "live" or "freed"
  connected,
  serial,       \* "unset" (NOT_A_GOOD_SERIAL), "empty" or "real"
  cmd,          \* where the command thread is
  purpose,      \* which command it executes
  capturer,     \* where the run's thread is
  expired,      \* the timeout of waitForCapture() has passed
  outcome,      \* what capture() returned last in this run
  responsive,   \* what isResponsive() returned last
  answered,     \* history: whether the camera had answered it
  pulled,       \* history: a RECONNECT has released the camera under this run
  bulb,         \* the camera's dial is on BULB
  shutter,      \* "open" or "closed"
  pictures,     \* pictures being written by the camera
  events,       \* FILE_ADDED events not yet read
  left,         \* history: pictures and events left over when this capture began
  pictured,     \* history: this capture has made a picture
  interrupted   \* history: the process has been stopped between the two triggers, an
                \* odd number of times

driverVars == <<handle, connected, serial>>
commandVars == <<cmd, purpose, responsive, answered>>
runVars == <<capturer, expired, outcome, left, pictured>>
cameraVars == <<bulb, shutter, pictures, events>>
vars == <<driverVars, commandVars, runVars, cameraVars, pulled, interrupted>>

CmdPoint == {"idle", "probe", "new", "init", "serial", "settle", "exit", "unflag", "pause"}

\* Points of capture() at which libgphoto2 is called, and the others.
CallPoint == {"askMode", "askBulb", "wired", "waitEvent", "download"}
CapturePoint == CallPoint \cup {"trigger1", "exposing"}
RunPoint == CapturePoint \cup {"none", "between"}

ProgramInit ==
  /\ handle = "null" /\ connected = FALSE /\ serial = "unset"
  /\ cmd = "idle" /\ purpose = "none" /\ responsive = FALSE /\ answered = FALSE
  /\ capturer = "none" /\ expired = FALSE /\ outcome = "none" /\ left = 0
  /\ pictured = FALSE /\ pulled = FALSE

Init ==
  /\ ProgramInit
  /\ bulb \in BOOLEAN /\ shutter = "closed" /\ pictures = 0 /\ events = 0
  /\ interrupted = FALSE

----------------------------------------------------------------------------
(* The commands that reach the camera.                                     *)

CommandOnly == <<driverVars, runVars, cameraVars, responsive, answered, interrupted>>

\* start() or testCapture(), up to connectCamera(): FunctionControl has them wait
\* for the previous run.
StartRun ==
  /\ cmd = "idle"
  /\ capturer = "none"
  /\ cmd' = IF connected THEN "probe" ELSE "new"
  /\ purpose' = "start"
  /\ UNCHANGED <<pulled, CommandOnly>>

TestConnection ==
  /\ cmd = "idle"
  /\ connected
  /\ cmd' = "probe"
  /\ purpose' = "report"
  /\ UNCHANGED <<pulled, CommandOnly>>

\* Accepted at any time.
Reconnect ==
  /\ cmd = "idle"
  /\ cmd' = IF connected THEN "exit" ELSE "pause"
  /\ purpose' = "reconnect"
  /\ pulled' = (pulled \/ (connected /\ capturer # "none"))
  /\ UNCHANGED CommandOnly

----------------------------------------------------------------------------
(* connect(), disconnect() and isResponsive() in the command thread.       *)

CommandMoves(from, to) ==
  /\ cmd = from
  /\ cmd' = to
  /\ UNCHANGED <<purpose, runVars, cameraVars, responsive, answered, pulled, interrupted>>

\* The command ends; a run begins if it was asked for and the camera is there.
Return(ok) ==
  /\ cmd' = "idle"
  /\ purpose' = "none"
  /\ IF ok /\ purpose = "start"
     THEN /\ capturer' = "between"
          /\ outcome' = "none"
          /\ pulled' = FALSE
     ELSE UNCHANGED <<capturer, outcome, pulled>>
  /\ UNCHANGED <<expired, left, pictured, cameraVars, interrupted>>

\* gp_camera_exit() and gp_camera_free() in freeCamera().
FreeCamera ==
  /\ CommandMoves("exit", "unflag")
  /\ handle' = "null"
  /\ UNCHANGED <<connected, serial>>

Unflag ==
  /\ CommandMoves("unflag", "pause")
  /\ connected' = FALSE
  /\ UNCHANGED <<handle, serial>>

\* sleep_for(seconds(5)), and connect(): it is not connected.
Pause ==
  /\ CommandMoves("pause", "new")
  /\ UNCHANGED driverVars

NewCamera ==
  /\ CommandMoves("new", "init")
  /\ handle' = "live"
  /\ UNCHANGED <<connected, serial>>

NewCameraFails ==
  /\ cmd = "new"
  /\ Return(FALSE)
  /\ UNCHANGED <<driverVars, responsive, answered>>

\* Fault: the result of gp_camera_init() is not looked at after the camera is freed.
InitCameraUnchecked ==
  /\ CommandMoves("init", "serial")
  /\ handle' = "freed"
  /\ UNCHANGED <<connected, serial>>

\* Fault: connect() does not ask for the serial number.
InitCameraOnly ==
  /\ CommandMoves("init", "settle")
  /\ UNCHANGED driverVars

InitCamera ==
  /\ CommandMoves("init", "serial")
  /\ UNCHANGED driverVars

\* The camera is freed, the pointer is not reset.
InitCameraFails ==
  /\ cmd = "init"
  /\ handle' = "freed"
  /\ Return(FALSE)
  /\ UNCHANGED <<connected, serial, responsive, answered>>

\* getSerialNumber(): empty when the camera does not answer, which is not looked at.
ReadSerial ==
  /\ CommandMoves("serial", "settle")
  /\ serial' \in {"empty", "real"}
  /\ UNCHANGED <<handle, connected>>

\* Two seconds later.
Connected ==
  /\ cmd = "settle"
  /\ connected' = TRUE
  /\ Return(TRUE)
  /\ UNCHANGED <<handle, serial, responsive, answered>>

\* isResponsive(): the camera answers or not; no answer compares as the empty one.
Probe(answers) ==
  /\ cmd = "probe"
  /\ LET said == connected /\ handle # "null" /\ (IF answers THEN "real" ELSE "empty") = serial
     IN /\ responsive' = said
        /\ answered' = answers
        /\ Return(said)
  /\ UNCHANGED driverVars

----------------------------------------------------------------------------
(* capture() in the thread of a run.                                       *)

CaptureMoves(from, to) ==
  /\ capturer = from
  /\ capturer' = to

CaptureOnly == <<driverVars, commandVars, pulled, interrupted, bulb>>
NotWaiting == <<expired, CaptureOnly>>

\* capture() returns to the run.
Returns(from, what) ==
  /\ CaptureMoves(from, "between")
  /\ outcome' = what

Capture ==
  /\ CaptureMoves("between", "askMode")
  /\ outcome' = "none"
  /\ left' = pictures + events
  /\ pictured' = FALSE
  /\ UNCHANGED <<shutter, pictures, events, NotWaiting>>

RunEnds ==
  /\ CaptureMoves("between", "none")
  /\ UNCHANGED <<outcome, left, pictured, shutter, pictures, events, NotWaiting>>

\* getCurrentExposureTime(): 0 in BULB, -1 if it could not be read.
AskMode(exp) ==
  /\ exp = -1 \/ (exp = 0 <=> bulb)
  /\ CaptureMoves("askMode", IF exp = 0 THEN "askBulb" ELSE "wired")
  /\ UNCHANGED <<outcome, left, pictured, shutter, pictures, events, NotWaiting>>

\* remoteCapture() asks again.
AskBulb ==
  /\ bulb
  /\ CaptureMoves("askBulb", "trigger1")
  /\ UNCHANGED <<outcome, left, pictured, shutter, pictures, events, NotWaiting>>

NotInBulb ==
  /\ Returns("askBulb", "failed")
  /\ UNCHANGED <<left, pictured, shutter, pictures, events, NotWaiting>>

\* stoi() finds no number in the exposure time: a test capture ends with the
\* exception, a run with the process (Restart).
ExposureThrows ==
  /\ capturer \in {"askMode", "askBulb"}
  /\ capturer' = "none"
  /\ UNCHANGED <<outcome, left, pictured, shutter, pictures, events, NotWaiting>>

\* trigger(): in BULB the shutter opens, or closes and a picture is written.
Toggle ==
  /\ shutter' = IF shutter = "open" THEN "closed" ELSE "open"
  /\ IF shutter = "open"
     THEN /\ pictures + events < MaxEvents
          /\ pictures' = pictures + 1
          /\ pictured' = TRUE
     ELSE UNCHANGED <<pictures, pictured>>

Trigger1 ==
  /\ CaptureMoves("trigger1", "exposing")
  /\ Toggle
  /\ UNCHANGED <<outcome, left, events, NotWaiting>>

\* Fault: the exposure is not closed.
Trigger2Forgotten ==
  /\ CaptureMoves("exposing", "waitEvent")
  /\ UNCHANGED <<outcome, left, pictured, shutter, pictures, events, NotWaiting>>

\* exposure_time has passed.
Trigger2 ==
  /\ CaptureMoves("exposing", "waitEvent")
  /\ Toggle
  /\ expired' = FALSE
  /\ UNCHANGED <<outcome, left, events, CaptureOnly>>

\* Fault: whatever is reported first is the picture.
AnyEvent ==
  /\ CaptureMoves("waitEvent", "download")
  /\ UNCHANGED <<outcome, left, pictured, shutter, pictures, events, NotWaiting>>

\* waitForCapture(): FILE_ADDED, the only event that ends it.
FileAdded ==
  /\ CaptureMoves("waitEvent", "download")
  /\ events > 0
  /\ events' = events - 1
  /\ UNCHANGED <<outcome, left, pictured, shutter, pictures, NotWaiting>>

\* Any other event, a timeout too: the wait goes round again, with what is left of
\* its timeout or less than nothing.
OtherEvent ==
  /\ CaptureMoves("waitEvent", "waitEvent")
  /\ expired' \in {expired, TRUE}
  /\ UNCHANGED <<outcome, left, pictured, shutter, pictures, events, CaptureOnly>>

WaitFails ==
  /\ Returns("waitEvent", "failed")
  /\ UNCHANGED <<left, pictured, shutter, pictures, events, NotWaiting>>

\* wiredCapture(): libgphoto2 takes the picture and reads its event.
WiredCapture ==
  /\ CaptureMoves("wired", "download")
  /\ pictured' = TRUE
  /\ UNCHANGED <<outcome, left, shutter, pictures, events, NotWaiting>>

WiredCaptureFails ==
  /\ Returns("wired", "failed")
  /\ UNCHANGED <<left, pictured, shutter, pictures, events, NotWaiting>>

\* downloadFile(), if asked for: whether it succeeds makes no difference.
Download ==
  /\ Returns("download", "ok")
  /\ UNCHANGED <<left, pictured, shutter, pictures, events, NotWaiting>>

----------------------------------------------------------------------------
(* The camera, its user, and the end of the process.                       *)

WritesPicture ==
  /\ pictures > 0
  /\ pictures' = pictures - 1
  /\ events' = events + 1
  /\ UNCHANGED <<driverVars, commandVars, runVars, bulb, shutter, pulled, interrupted>>

\* Bound: the dial is left alone from the check for BULB to the second trigger, and
\* while the shutter is open.
TurnDial ==
  /\ capturer \notin {"trigger1", "exposing"}
  /\ shutter = "closed"
  /\ bulb' = ~bulb
  /\ UNCHANGED <<driverVars, commandVars, runVars, shutter, pictures, events, pulled,
                 interrupted>>

\* The process is stopped, by a reboot or otherwise, and started again.
Restart ==
  /\ interrupted' = (interrupted # (capturer = "exposing"))
  /\ handle' = "null" /\ connected' = FALSE /\ serial' = "unset"
  /\ cmd' = "idle" /\ purpose' = "none" /\ responsive' = FALSE /\ answered' = FALSE
  /\ capturer' = "none" /\ expired' = FALSE /\ outcome' = "none" /\ left' = 0
  /\ pictured' = FALSE /\ pulled' = FALSE
  /\ UNCHANGED cameraVars

----------------------------------------------------------------------------

Command == StartRun \/ TestConnection \/ Reconnect

CommandStep ==
  \/ FreeCamera \/ Unflag \/ Pause
  \/ NewCamera \/ NewCameraFails \/ InitCamera \/ InitCameraFails
  \/ ReadSerial \/ Connected
  \/ \E answers \in BOOLEAN : Probe(answers)

\* What capture() does whatever the camera reports.
CaptureStep ==
  \/ (\E exp \in {-1, 0, 1} : AskMode(exp)) \/ AskBulb \/ NotInBulb \/ ExposureThrows
  \/ Trigger1 \/ Trigger2 \/ FileAdded \/ OtherEvent
  \/ WiredCapture \/ WiredCaptureFails \/ Download

Next ==
  \/ Command \/ CommandStep
  \/ Capture \/ RunEnds \/ CaptureStep \/ WaitFails
  \/ WritesPicture \/ TurnDial \/ Restart

Spec == Init /\ [][Next]_vars

\* Threads are scheduled and calls of libgphoto2 return: gp_camera_wait_for_event()
\* within its timeout.
FairSpec == Spec /\ WF_vars(CommandStep) /\ WF_vars(CaptureStep)

----------------------------------------------------------------------------
(* Properties.                                                             *)

\* The bound on pictures holds of those being written and those reported together.
CountsOK ==
  /\ pictures \in 0 .. MaxEvents
  /\ events \in 0 .. MaxEvents
  /\ pictures + events <= MaxEvents

\* Every variable keeps its type, and a camera that is connected has been asked for
\* its serial number.
TypeOK ==
  /\ handle \in {"null", "live", "freed"}
  /\ connected \in BOOLEAN
  /\ serial \in {"unset", "empty", "real"}
  /\ connected \/ cmd = "settle" => serial # "unset"
  /\ cmd \in CmdPoint
  /\ purpose \in {"none", "start", "report", "reconnect"}
  /\ capturer \in RunPoint
  /\ expired \in BOOLEAN
  /\ outcome \in {"none", "ok", "failed"}
  /\ responsive \in BOOLEAN /\ answered \in BOOLEAN
  /\ pulled \in BOOLEAN
  /\ bulb \in BOOLEAN
  /\ shutter \in {"open", "closed"}
  /\ CountsOK
  /\ left \in 0 .. MaxEvents
  /\ pictured \in BOOLEAN /\ interrupted \in BOOLEAN

\* libgphoto2 is never called with a camera that was freed or never allocated:
\* neither after connect() has failed and left its pointer behind, nor during a
\* run, unless a RECONNECT released the camera under it.
CallsOnLiveCamera ==
  /\ cmd \in {"init", "serial", "probe", "exit"} => handle = "live"
  /\ capturer \in CallPoint /\ ~pulled => handle = "live"

\* The shutter is open between the two triggers and closed elsewhere, also after a
\* capture that fails.  A process that is stopped between them turns this round for
\* those after it, until the next is stopped there: captures never put it right.
ShutterClosedBetween == (shutter = "open") <=> ((capturer = "exposing") # interrupted)

\* A capture that succeeds has made a picture, and leaves no more under way than it
\* found: begun with none, it has its own picture written and reported; what was left
\* by one whose wait had failed ends its wait instead, and it leaves its own.
SuccessMeansPicture == outcome = "ok" => pictured /\ pictures + events <= left

\* waitForCapture() has a timeout: once it has passed, the wait ends.
WaitTimesOut == (capturer = "waitEvent" /\ expired) ~> (capturer # "waitEvent")

\* "Camera responsive.", says TEST_CONNECTION: it has answered.
ResponsiveMeansAnswered == responsive => answered
=============================================================================
