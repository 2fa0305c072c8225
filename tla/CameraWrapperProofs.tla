------------------------ MODULE CameraWrapperProofs ------------------------
(***************************************************************************)
(* What the run "camera" checks with two unread pictures, proved for any    *)
(* number of them: the lifetime of the camera, the shutter, and what a      *)
(* capture that succeeds has achieved.                                      *)
(***************************************************************************)
EXTENDS CameraWrapper, TLAPS

\* What the command thread knows of the camera at each of its points.
CommandKnows ==
  /\ connected => handle = "live" \/ cmd = "unflag"
  /\ cmd \in {"probe", "exit", "unflag"} => connected
  /\ cmd \in {"pause", "new", "init", "serial", "settle"} => ~connected
  /\ cmd \in {"init", "serial", "settle"} => handle = "live"
  /\ cmd = "idle" => purpose = "none"

\* A run that no RECONNECT has touched has its camera, and the command thread at most
\* asks for the serial number beside it; a run that is asked for has no other before it.
RunHasCamera ==
  /\ capturer # "none" /\ ~pulled => connected /\ cmd \in {"idle", "probe"}
  /\ purpose = "start" => capturer = "none"

\* Each trigger of a process finds the shutter as the trigger before it left it.
ShutterFollows == ShutterClosedBetween

\* A capture knows no result before it returns.
OutcomeFollows == capturer \in CapturePoint => outcome = "none"

\* How many pictures are under way at each point of a capture: one of the triggers adds
\* its own, the one that finds the shutter open.
PicturesFollow ==
  /\ capturer \in {"askMode", "askBulb", "wired", "trigger1"} => pictures + events <= left
  /\ capturer = "exposing" =>
       IF shutter = "open" THEN pictures + events <= left
       ELSE pictured /\ pictures + events <= left + 1
  /\ capturer = "waitEvent" => pictured /\ pictures + events <= left + 1
  /\ capturer = "download" => pictured /\ pictures + events <= left
  /\ outcome = "ok" => pictured /\ pictures + events <= left

\* Camera, command thread, run and shutter agree.
Agreement ==
  /\ CommandKnows
  /\ RunHasCamera
  /\ ShutterFollows
  /\ OutcomeFollows
  /\ PicturesFollow

\* The inductive invariant.
IInv == TypeOK /\ Agreement

----------------------------------------------------------------------------
(* Type correctness.                                                       *)

\* It holds when the program starts, wherever the dial stands.
LEMMA TypeInit == Init => TypeOK
<1> SUFFICES ASSUME Init PROVE TypeOK
  OBVIOUS
<1>1. CountsOK
  BY BoundAssumption DEF Init, CountsOK
<1>2. left \in 0 .. MaxEvents
  BY BoundAssumption DEF Init, ProgramInit
<1>3. interrupted \in BOOLEAN
  BY DEF Init
<1> QED
  BY <1>1, <1>2, <1>3 DEF Init, ProgramInit, TypeOK, CmdPoint, RunPoint, CapturePoint, CallPoint

\* No step exceeds the bound on pictures.
LEMMA CountsStep == TypeOK /\ [Next]_vars => CountsOK'
<1> SUFFICES ASSUME TypeOK, [Next]_vars PROVE CountsOK'
  OBVIOUS
<1>1. CASE UNCHANGED <<pictures, events>>
  BY <1>1 DEF TypeOK, CountsOK
<1>2. CASE Toggle /\ UNCHANGED events
  BY <1>2, BoundAssumption DEF Toggle, TypeOK, CountsOK
<1>3. CASE FileAdded
  BY <1>3, BoundAssumption DEF FileAdded, TypeOK, CountsOK
<1>4. CASE WritesPicture
  BY <1>4, BoundAssumption DEF WritesPicture, TypeOK, CountsOK
<1>5. ASSUME Command \/ CommandStep PROVE UNCHANGED <<pictures, events>>
  BY <1>5 DEF Command, StartRun, TestConnection, Reconnect, CommandOnly, CommandStep, FreeCamera,
     Unflag, Pause, NewCamera, NewCameraFails, InitCamera, InitCameraFails, ReadSerial,
     Connected, Probe, CommandMoves, Return, cameraVars
<1>6. ASSUME Capture \/ RunEnds \/ CaptureStep \/ WaitFails
      PROVE  (Toggle /\ UNCHANGED events) \/ FileAdded \/ UNCHANGED <<pictures, events>>
  BY <1>6 DEF Capture, RunEnds, CaptureStep, WaitFails, AskMode, AskBulb, NotInBulb, ExposureThrows, Trigger1,
     Trigger2, OtherEvent, WiredCapture, WiredCaptureFails, Download
<1>7. ASSUME TurnDial \/ Restart \/ UNCHANGED vars PROVE UNCHANGED <<pictures, events>>
  BY <1>7 DEF TurnDial, Restart, vars, cameraVars
<1> QED
  BY <1>1, <1>2, <1>3, <1>4, <1>5, <1>6, <1>7 DEF Next

\* Every step keeps the types.
LEMMA TypeStep == TypeOK /\ [Next]_vars => TypeOK'
<1> SUFFICES ASSUME TypeOK, [Next]_vars PROVE TypeOK'
  OBVIOUS
<1>1. CountsOK'
  BY CountsStep
<1> USE <1>1 DEF TypeOK, CmdPoint, RunPoint, CapturePoint, CallPoint
<1>2. CASE Command
  <2> USE DEF CommandOnly, driverVars, runVars, cameraVars
  <2>1. CASE StartRun
    BY <2>1 DEF StartRun
  <2>2. CASE TestConnection
    BY <2>2 DEF TestConnection
  <2>3. CASE Reconnect
    BY <2>3 DEF Reconnect
  <2> QED
    BY <1>2, <2>1, <2>2, <2>3 DEF Command
<1>3. CASE CommandStep
  <2> USE DEF CommandMoves, driverVars, runVars, cameraVars
  <2>1. CASE FreeCamera
    BY <2>1 DEF FreeCamera
  <2>2. CASE Unflag
    <3>1. connected' \in BOOLEAN
      BY <2>2 DEF Unflag
    <3> QED
      BY <2>2, <3>1 DEF Unflag
  <2>3. CASE Pause
    BY <2>3 DEF Pause
  <2>4. CASE NewCamera
    BY <2>4 DEF NewCamera
  <2>5. CASE NewCameraFails
    BY <2>5 DEF NewCameraFails, Return
  <2>6. CASE InitCamera
    BY <2>6 DEF InitCamera
  <2>7. CASE InitCameraFails
    BY <2>7 DEF InitCameraFails, Return
  <2>8. CASE ReadSerial
    BY <2>8 DEF ReadSerial
  <2>9. CASE Connected
    <3>1. connected' \in BOOLEAN /\ pulled' \in BOOLEAN
      BY <2>9 DEF Connected, Return
    <3> QED
      BY <2>9, <3>1 DEF Connected, Return
  <2>10. CASE \E answers \in BOOLEAN : Probe(answers)
    <3>1. responsive' \in BOOLEAN /\ answered' \in BOOLEAN /\ pulled' \in BOOLEAN
      BY <2>10 DEF Probe, Return
    <3> QED
      BY <2>10, <3>1 DEF Probe, Return
  <2> QED
    BY <1>3, <2>1, <2>2, <2>3, <2>4, <2>5, <2>6, <2>7, <2>8, <2>9, <2>10 DEF CommandStep
<1>4. CASE Capture \/ RunEnds \/ CaptureStep \/ WaitFails
  <2> USE DEF CaptureMoves, Returns, CaptureOnly, NotWaiting, driverVars, commandVars
  <2>1. CASE Capture
    <3>1. left' \in 0 .. MaxEvents
      BY <2>1, BoundAssumption DEF Capture, CountsOK
    <3>2. pictured' \in BOOLEAN
      BY <2>1 DEF Capture
    <3> QED
      BY <2>1, <3>1, <3>2 DEF Capture
  <2>2. CASE RunEnds
    BY <2>2 DEF RunEnds
  <2>3. CASE WaitFails
    BY <2>3 DEF WaitFails
  <2>4. CASE \E exp \in {-1, 0, 1} : AskMode(exp)
    BY <2>4 DEF AskMode
  <2>5. CASE AskBulb
    BY <2>5 DEF AskBulb
  <2>6. CASE NotInBulb \/ ExposureThrows
    BY <2>6 DEF NotInBulb, ExposureThrows
  <2>7. CASE Trigger1
    <3>1. pictured' \in BOOLEAN
      BY <2>7 DEF Trigger1, Toggle
    <3> QED
      BY <2>7, <3>1 DEF Trigger1, Toggle
  <2>8. CASE Trigger2
    <3>1. expired' \in BOOLEAN /\ pictured' \in BOOLEAN
      BY <2>8 DEF Trigger2, Toggle
    <3> QED
      BY <2>8, <3>1 DEF Trigger2, Toggle
  <2>9. CASE FileAdded
    BY <2>9 DEF FileAdded
  <2>10. CASE OtherEvent
    <3>1. expired' \in BOOLEAN
      BY <2>10 DEF OtherEvent
    <3> QED
      BY <2>10, <3>1 DEF OtherEvent
  <2>11. CASE WiredCapture
    BY <2>11 DEF WiredCapture
  <2>12. CASE WiredCaptureFails
    BY <2>12 DEF WiredCaptureFails
  <2>13. CASE Download
    BY <2>13 DEF Download
  <2> QED
    BY <1>4, <2>1, <2>2, <2>3, <2>4, <2>5, <2>6, <2>7, <2>8, <2>9, <2>10, <2>11, <2>12, <2>13 DEF CaptureStep
<1>5. CASE WritesPicture \/ TurnDial \/ Restart
  <2> USE DEF driverVars, commandVars, runVars, cameraVars
  <2>1. CASE WritesPicture
    BY <2>1 DEF WritesPicture
  <2>2. CASE TurnDial
    BY <2>2 DEF TurnDial
  <2>3. CASE Restart
    <3>1. left' \in 0 .. MaxEvents /\ interrupted' \in BOOLEAN
      BY <2>3, BoundAssumption DEF Restart
    <3> QED
      BY <2>3, <3>1 DEF Restart
  <2> QED
    BY <1>5, <2>1, <2>2, <2>3
<1>6. CASE UNCHANGED vars
  BY <1>6 DEF vars, driverVars, commandVars, runVars, cameraVars
<1> QED
  BY <1>2, <1>3, <1>4, <1>5, <1>6 DEF Next

\* Every variable keeps its type, however many pictures are left unread.
THEOREM TypeCorrect == Spec => []TypeOK
BY TypeInit, TypeStep, PTL DEF Spec

----------------------------------------------------------------------------
(* The invariant is inductive.                                             *)

\* All agree when the program starts.
LEMMA AgreeInit == Init => Agreement
BY DEF Init, ProgramInit, Agreement, CommandKnows, RunHasCamera, ShutterFollows,
   ShutterClosedBetween, OutcomeFollows, PicturesFollow, CapturePoint, CallPoint

\* A command is accepted.
LEMMA AgreeCommand ==
  ASSUME TypeOK, Agreement, Command
  PROVE  Agreement'
<1> USE DEF TypeOK, CountsOK, Agreement, CommandKnows, RunHasCamera, ShutterFollows,
            ShutterClosedBetween, OutcomeFollows, PicturesFollow, CapturePoint, CallPoint,
            CommandOnly, driverVars, runVars, cameraVars
<1>1. CASE StartRun
  BY <1>1 DEF StartRun
<1>2. CASE TestConnection
  BY <1>2 DEF TestConnection
<1>3. CASE Reconnect
  BY <1>3 DEF Reconnect
<1> QED
  BY <1>1, <1>2, <1>3 DEF Command

\* The steps of a command, one by one.
LEMMA AgreeCommandStep ==
  ASSUME TypeOK, Agreement, CommandStep
  PROVE  Agreement'
<1> USE DEF TypeOK, CountsOK, Agreement, CommandKnows, RunHasCamera, ShutterFollows,
            ShutterClosedBetween, OutcomeFollows, PicturesFollow, CapturePoint, CallPoint,
            CommandMoves, driverVars, runVars, cameraVars
<1>1. CASE FreeCamera
  BY <1>1 DEF FreeCamera
<1>2. CASE Unflag
  BY <1>2 DEF Unflag
<1>3. CASE Pause
  BY <1>3 DEF Pause
<1>4. CASE NewCamera
  BY <1>4 DEF NewCamera
<1>5. CASE NewCameraFails
  BY <1>5 DEF NewCameraFails, Return
<1>6. CASE InitCamera
  BY <1>6 DEF InitCamera
<1>7. CASE InitCameraFails
  BY <1>7 DEF InitCameraFails, Return
<1>8. CASE ReadSerial
  BY <1>8 DEF ReadSerial
<1>9. CASE Connected
  BY <1>9 DEF Connected, Return
<1>10. CASE \E answers \in BOOLEAN : Probe(answers)
  BY <1>10 DEF Probe, Return
<1> QED
  BY <1>1, <1>2, <1>3, <1>4, <1>5, <1>6, <1>7, <1>8, <1>9, <1>10 DEF CommandStep

\* The steps of capture() and of the run around it, one by one.
LEMMA AgreeCapture ==
  ASSUME TypeOK, Agreement, Capture \/ RunEnds \/ CaptureStep \/ WaitFails
  PROVE  Agreement'
<1> USE DEF TypeOK, CountsOK, Agreement, CommandKnows, RunHasCamera, ShutterFollows,
            ShutterClosedBetween, OutcomeFollows, PicturesFollow, CapturePoint, CallPoint,
            CaptureMoves, Returns, CaptureOnly, NotWaiting, driverVars, commandVars
<1>1. CASE Capture
  BY <1>1 DEF Capture
<1>2. CASE RunEnds
  BY <1>2 DEF RunEnds
<1>3. CASE WaitFails
  BY <1>3 DEF WaitFails
<1>4. CASE \E exp \in {-1, 0, 1} : AskMode(exp)
  BY <1>4 DEF AskMode
<1>5. CASE AskBulb
  BY <1>5 DEF AskBulb
<1>6. CASE NotInBulb \/ ExposureThrows
  BY <1>6 DEF NotInBulb, ExposureThrows
<1>7. CASE Trigger1
  BY <1>7 DEF Trigger1, Toggle
<1>8. CASE Trigger2
  BY <1>8 DEF Trigger2, Toggle
<1>9. CASE FileAdded
  BY <1>9 DEF FileAdded
<1>10. CASE OtherEvent
  BY <1>10 DEF OtherEvent
<1>11. CASE WiredCapture
  BY <1>11 DEF WiredCapture
<1>12. CASE WiredCaptureFails
  BY <1>12 DEF WiredCaptureFails
<1>13. CASE Download
  BY <1>13 DEF Download
<1> QED
  BY <1>1, <1>2, <1>3, <1>4, <1>5, <1>6, <1>7, <1>8, <1>9, <1>10, <1>11, <1>12, <1>13 DEF CaptureStep

\* The camera finishes a picture, its user turns the dial, the process is restarted.
LEMMA AgreeCamera ==
  ASSUME TypeOK, Agreement, WritesPicture \/ TurnDial \/ Restart
  PROVE  Agreement'
<1> USE DEF TypeOK, CountsOK, Agreement, CommandKnows, RunHasCamera, ShutterFollows,
            ShutterClosedBetween, OutcomeFollows, PicturesFollow, CapturePoint, CallPoint,
            driverVars, commandVars, runVars, cameraVars
<1>1. CASE WritesPicture
  BY <1>1 DEF WritesPicture
<1>2. CASE TurnDial
  BY <1>2 DEF TurnDial
<1>3. CASE Restart
  BY <1>3 DEF Restart
<1> QED
  BY <1>1, <1>2, <1>3

\* Every step preserves the invariant.
LEMMA InvStep == IInv /\ [Next]_vars => IInv'
<1> SUFFICES ASSUME TypeOK, Agreement, [Next]_vars PROVE IInv'
  BY DEF IInv
<1>1. TypeOK'
  BY TypeStep
<1>2. CASE UNCHANGED vars
  BY <1>1, <1>2 DEF IInv, Agreement, CommandKnows, RunHasCamera, ShutterFollows,
     ShutterClosedBetween, OutcomeFollows, PicturesFollow, vars, driverVars, commandVars, runVars, cameraVars
<1>3. CASE Next
  BY <1>1, <1>3, AgreeCommand, AgreeCommandStep, AgreeCapture, AgreeCamera DEF Next, IInv
<1> QED
  BY <1>2, <1>3

\* Camera, command thread, run and shutter agree in every reachable state.
THEOREM Invariance == Spec => []IInv
<1>1. Init => IInv
  BY TypeInit, AgreeInit DEF IInv
<1> QED
  BY <1>1, InvStep, PTL DEF Spec

----------------------------------------------------------------------------
(* The safety properties.                                                  *)

\* libgphoto2 is called with a live camera, except under a run that a RECONNECT took it
\* from.
THEOREM CameraIsLive == Spec => []CallsOnLiveCamera
<1>1. IInv => CallsOnLiveCamera
  BY DEF IInv, Agreement, CommandKnows, RunHasCamera, CallsOnLiveCamera, CallPoint
<1> QED
  BY <1>1, Invariance, PTL

\* Captures leave the shutter as they found it, those that fail too, and a process that is
\* stopped between the triggers turns round where it is open.
THEOREM ShutterIsClosed == Spec => []ShutterClosedBetween
<1>1. IInv => ShutterClosedBetween
  BY DEF IInv, Agreement, ShutterFollows, ShutterClosedBetween
<1> QED
  BY <1>1, Invariance, PTL

\* A capture that succeeds has made a picture and leaves no more under way than it found.
THEOREM SuccessIsAPicture == Spec => []SuccessMeansPicture
<1>1. IInv => SuccessMeansPicture
  BY DEF IInv, Agreement, PicturesFollow, SuccessMeansPicture
<1> QED
  BY <1>1, Invariance, PTL
=============================================================================
