-------------------------- MODULE FunctionControl --------------------------
(***************************************************************************)
(* The command thread of main.cpp, the camera functions it creates         *)
(* (Sequencer, Intervalometer) and the threads these start.                *)
(*                                                                         *)
(* The command thread is the TCP server's receiving thread: it handles one *)
(* command at a time and blocks in the handler.  start() detaches a thread *)
(* that executes run(); testCapture() gives doTestCapture() to std::async  *)
(* and throws the future away, so its destructor waits for the task.       *)
(* Nothing but atomic flags and that wait keeps the threads apart: no      *)
(* mutex guards the camera, the function object or its lifetime.           *)
(*                                                                         *)
(* camera.capture() is here one interval of a thread with either outcome;  *)
(* CameraWrapper.tla opens it.  Whether a picture is downloaded afterwards *)
(* (the download flag and its command) makes no difference to the control  *)
(* and is left out.                                                        *)
(***************************************************************************)
EXTENDS Integers

CONSTANTS
  Functions,    \* identities of function objects (reused once forgotten)
  NoFunction,   \* activeFunction = nullptr
  Shots,        \* the values of num_exposures in setup commands
  ShotCap       \* bound: counters of an endless run saturate here

Endless == -1

ASSUME FunctionAssumption == NoFunction \notin Functions

ASSUME ShotAssumption ==
  /\ Shots \subseteq Int
  /\ ShotCap \in Nat
  /\ \A n \in Shots : n <= ShotCap

VARIABLES
  active,      \* the global activeFunction: the one object that is allocated
  kind,        \* its class: "sequencer" or "intervalometer"
  numShots,    \* num_shots
  started, finished, testing, abortCond,   \* its flags
  threw,       \* history: its test capture has ended by an exception
  exposures,   \* history: the exposures run() has registered
  run,         \* where the object's run() thread is
  attempt,     \* i, the local counter of run()
  result,      \* outcome of the last camera.capture() in run()
  late,        \* history: exposures run() began with abort_cond already set
  test,        \* where the std::async task is
  cmd,         \* where the command thread is
  purpose,     \* why it talks to the camera
  connected,   \* CameraWrapper::connected
  power        \* "on"; "stopping": reboot or halt issued; "off"

objectVars == <<active, kind, numShots>>
flagVars   == <<started, finished, testing, abortCond, threw>>
runVars    == <<run, attempt, result, exposures, late>>
cmdVars    == <<cmd, purpose>>
vars == <<objectVars, flagVars, runVars, test, cmdVars, connected, power>>

RunPoint == {"none", "loop", "armed", "capture", "register", "recheck",
             "drowsy", "waiting", "ending", "epilogue"}
TestPoint == {"none", "begin", "capture", "end", "done"}
CmdPoint  == {"idle", "probing", "connecting", "awaitTest", "aborting", "notifying", "halting"}
Purpose   == {"none", "start", "test", "report", "reconnect"}

----------------------------------------------------------------------------
(* The state of the program when it starts.                                *)

NothingConfigured ==
  /\ active = NoFunction
  /\ kind      = [f \in Functions |-> "sequencer"]
  /\ numShots  = [f \in Functions |-> 0]
  /\ started   = [f \in Functions |-> FALSE]
  /\ finished  = [f \in Functions |-> FALSE]
  /\ testing   = [f \in Functions |-> FALSE]
  /\ abortCond = [f \in Functions |-> FALSE]
  /\ threw     = [f \in Functions |-> FALSE]

NothingRuns ==
  /\ run       = [f \in Functions |-> "none"]
  /\ attempt   = [f \in Functions |-> 0]
  /\ result    = [f \in Functions |-> "none"]
  /\ exposures = [f \in Functions |-> 0]
  /\ late      = [f \in Functions |-> 0]
  /\ test = "none"

Init ==
  /\ NothingConfigured
  /\ NothingRuns
  /\ cmd = "idle"
  /\ purpose = "none"
  /\ connected = FALSE      \* main() leaves camera->connect() to a command
  /\ power = "on"

Count(k) == IF k < ShotCap THEN k + 1 ELSE k

InCapture(f) == run[f] = "capture"

----------------------------------------------------------------------------
(* Commands.  One that the handler only answers with a log line (nothing   *)
(* configured, already started, still operating) is a stuttering step.     *)

Listening == cmd = "idle" /\ power # "off"

\* Fault: a run in progress is not taken for operation.
IsOperatingOnlyTests(f) == testing[f]

IsOperating(f) == (started[f] /\ ~finished[f]) \/ testing[f]

\* CMD_ID_SEQUENCERSETUP and CMD_ID_INTERVALOMETERSETUP: delete and new.  The
\* new object takes an identity no thread refers to (a bound: the identities
\* run out when many closing lines linger).  What freed memory holds does not
\* matter: it is zero here.
Setup(f, k, n) ==
  LET Touched == {f, active} IN
  /\ Listening
  /\ active # NoFunction => ~IsOperating(active)
  /\ f # active
  /\ run[f] = "none"
  /\ active' = f
  /\ kind'      = [g \in Functions |-> IF g = f THEN k
                                       ELSE IF g = active THEN "sequencer" ELSE kind[g]]
  /\ numShots'  = [g \in Functions |-> IF g = f THEN n
                                       ELSE IF g = active THEN 0 ELSE numShots[g]]
  /\ started'   = [g \in Functions |-> IF g \in Touched THEN FALSE ELSE started[g]]
  /\ finished'  = [g \in Functions |-> IF g \in Touched THEN FALSE ELSE finished[g]]
  /\ testing'   = [g \in Functions |-> IF g \in Touched THEN FALSE ELSE testing[g]]
  /\ abortCond' = [g \in Functions |-> IF g \in Touched THEN FALSE ELSE abortCond[g]]
  /\ threw'     = [g \in Functions |-> IF g \in Touched THEN FALSE ELSE threw[g]]
  /\ attempt'   = [g \in Functions |-> IF g \in Touched THEN 0 ELSE attempt[g]]
  /\ result'    = [g \in Functions |-> IF g \in Touched THEN "none" ELSE result[g]]
  /\ exposures' = [g \in Functions |-> IF g \in Touched THEN 0 ELSE exposures[g]]
  /\ late'      = [g \in Functions |-> IF g \in Touched THEN 0 ELSE late[g]]
  /\ UNCHANGED <<run, test, cmdVars, connected, power>>

\* connectCamera(): a camera that is connected is asked for its serial number
\* (isResponsive), another is connected.
ConnectCamera(p) ==
  /\ cmd' = IF connected THEN "probing" ELSE "connecting"
  /\ purpose' = p
  /\ UNCHANGED <<objectVars, flagVars, runVars, test, connected, power>>

\* CMD_ID_FUNCTIONSTART, up to connectCamera().
Start ==
  /\ Listening
  /\ active # NoFunction
  /\ ~testing[active]
  /\ ~started[active]
  /\ ConnectCamera("start")

\* CMD_ID_FUNCTION_TEST_CAPTURE, up to connectCamera().
TestCapture ==
  /\ Listening
  /\ active # NoFunction
  /\ ~IsOperating(active)
  /\ ConnectCamera("test")

\* CMD_ID_CAMERA_TEST_CONNECTION asks a connected camera and reports.
TestConnection ==
  /\ Listening
  /\ connected
  /\ ConnectCamera("report")

\* CMD_ID_CAMERA_RECONNECT: disconnect(), five seconds, connect().
Reconnect ==
  /\ Listening
  /\ connected' = FALSE
  /\ cmd' = "connecting"
  /\ purpose' = "reconnect"
  /\ UNCHANGED <<objectVars, flagVars, runVars, test, power>>

----------------------------------------------------------------------------
(* What the handler does once the camera has answered.                     *)

Return == cmd' = "idle" /\ purpose' = "none"

StartRun ==
  /\ purpose = "start"
  /\ started' = [started EXCEPT ![active] = TRUE]
  /\ run' = [run EXCEPT ![active] = "loop"]
  /\ Return
  /\ UNCHANGED <<finished, testing, abortCond, threw, attempt, result, exposures, late, test>>

\* Fault: the future is kept and nobody waits for the task.
SpawnTestDetached ==
  /\ purpose = "test"
  /\ test' = "begin"
  /\ Return
  /\ UNCHANGED <<flagVars, runVars>>

\* The temporary future's destructor blocks until the task has ended.
SpawnTest ==
  /\ purpose = "test"
  /\ test' = "begin"
  /\ cmd' = "awaitTest"
  /\ purpose' = "none"
  /\ UNCHANGED <<flagVars, runVars>>

\* Without a launch policy the library may defer the task when it can get no
\* thread: destroying the future then drops it.
DropTest ==
  /\ purpose = "test"
  /\ Return
  /\ UNCHANGED <<flagVars, runVars, test>>

Report ==
  /\ purpose \in {"report", "reconnect"}
  /\ Return
  /\ UNCHANGED <<flagVars, runVars, test>>

Proceed == StartRun \/ SpawnTest \/ DropTest \/ Report

\* isResponsive() returned true.
CameraResponds ==
  /\ cmd = "probing"
  /\ Proceed
  /\ UNCHANGED <<objectVars, connected, power>>

\* connect() returned true.
CameraConnects ==
  /\ cmd = "connecting"
  /\ connected' = TRUE
  /\ Proceed
  /\ UNCHANGED <<objectVars, power>>

\* Either of them returned false: the handler gives up.
CameraFails ==
  /\ cmd \in {"probing", "connecting"}
  /\ Return
  /\ UNCHANGED <<objectVars, flagVars, runVars, test, connected, power>>

----------------------------------------------------------------------------
(* doTestCapture() in the task of std::async.                              *)

TestBegins ==
  /\ test = "begin"
  /\ testing' = [testing EXCEPT ![active] = TRUE]
  /\ test' = "capture"
  /\ UNCHANGED <<objectVars, started, finished, abortCond, threw, runVars, cmdVars, connected,
                 power>>

\* Fault: the test is repeated until somebody is satisfied.
TestCaptureRepeats ==
  /\ test = "capture"
  /\ test' = "begin"
  /\ UNCHANGED <<objectVars, flagVars, runVars, cmdVars, connected, power>>

TestCaptureReturns ==
  /\ test = "capture"
  /\ test' = "end"
  /\ UNCHANGED <<objectVars, flagVars, runVars, cmdVars, connected, power>>

\* Fault: the task returns and leaves the flag.
TestEndsFlagged ==
  /\ test = "end"
  /\ test' = "done"
  /\ UNCHANGED <<objectVars, flagVars, runVars, cmdVars, connected, power>>

\* stoi() finds no number in the exposure time: the exception passes over
\* "testing = false" into the future, and is thrown away with it.
TestCaptureThrows ==
  /\ test = "capture"
  /\ threw' = [threw EXCEPT ![active] = TRUE]
  /\ test' = "done"
  /\ UNCHANGED <<objectVars, started, finished, testing, abortCond, runVars, cmdVars,
                 connected, power>>

TestEnds ==
  /\ test = "end"
  /\ testing' = [testing EXCEPT ![active] = FALSE]
  /\ test' = "done"
  /\ UNCHANGED <<objectVars, started, finished, abortCond, threw, runVars, cmdVars, connected,
                 power>>

\* The task's thread has ended and the future's destructor returns.
FutureDestroyed ==
  /\ test = "done"
  /\ cmd = "awaitTest"
  /\ test' = "none"
  /\ Return
  /\ UNCHANGED <<objectVars, flagVars, runVars, connected, power>>

----------------------------------------------------------------------------
(* CMD_ID_FUNCTIONSTOP, reboot and shutdown.                               *)

\* abort() looks at the flags first and sets abort_cond afterwards.
Stop ==
  /\ Listening
  /\ active # NoFunction
  /\ started[active] /\ ~finished[active]
  /\ cmd' = "aborting"
  /\ UNCHANGED <<objectVars, flagVars, runVars, test, purpose, connected, power>>

Abort ==
  /\ cmd = "aborting"
  /\ abortCond' = [abortCond EXCEPT ![active] = TRUE]
  /\ cmd' = "notifying"
  /\ UNCHANGED <<objectVars, started, finished, testing, threw, runVars, test, purpose,
                 connected, power>>

\* cv_run.notify_one(): only a thread that is inside wait_until() hears it.  (A
\* sequencer has no such variable, and never waits.)
Notify ==
  /\ cmd = "notifying"
  /\ run' = IF run[active] = "waiting" THEN [run EXCEPT ![active] = "recheck"] ELSE run
  /\ Return
  /\ UNCHANGED <<objectVars, flagVars, attempt, result, exposures, late, test, connected,
                 power>>

\* Five seconds of sleep precede system("sudo reboot") or ("sudo halt").
Halt ==
  /\ Listening
  /\ cmd' = "halting"
  /\ UNCHANGED <<objectVars, flagVars, runVars, test, purpose, connected, power>>

HaltIssued ==
  /\ cmd = "halting"
  /\ power' = "stopping"
  /\ Return
  /\ UNCHANGED <<objectVars, flagVars, runVars, test, connected>>

\* The process ends where it stands: by the halt it has asked for, a signal (SIGPIPE
\* in send()), an exception nobody catches (json::parse, stoi) or the power supply.
\* Nothing is kept.
Killed ==
  /\ power # "off"
  /\ power' = "off"
  /\ active' = NoFunction
  /\ kind'      = [f \in Functions |-> "sequencer"]
  /\ numShots'  = [f \in Functions |-> 0]
  /\ started'   = [f \in Functions |-> FALSE]
  /\ finished'  = [f \in Functions |-> FALSE]
  /\ testing'   = [f \in Functions |-> FALSE]
  /\ abortCond' = [f \in Functions |-> FALSE]
  /\ threw'     = [f \in Functions |-> FALSE]
  /\ run'       = [f \in Functions |-> "none"]
  /\ attempt'   = [f \in Functions |-> 0]
  /\ result'    = [f \in Functions |-> "none"]
  /\ exposures' = [f \in Functions |-> 0]
  /\ late'      = [f \in Functions |-> 0]
  /\ test' = "none"
  /\ Return
  /\ connected' = FALSE

Boot ==
  /\ power = "off"
  /\ power' = "on"
  /\ UNCHANGED <<objectVars, flagVars, runVars, test, cmdVars, connected>>

----------------------------------------------------------------------------
(* Sequencer::run() and Intervalometer::run().                             *)

\* A step of f's thread that only moves it, from one point to another.
RunMoves(f, from, to) ==
  /\ run[f] = from
  /\ run' = [run EXCEPT ![f] = to]

RunOnly == <<objectVars, flagVars, test, cmdVars, connected, power>>

\* Fault: one exposure too many, -1 not taken for endless.
MoreShotsOneOver(f) == attempt[f] <= numShots[f] \/ numShots[f] = Endless
MoreShotsCounted(f) == attempt[f] < numShots[f]

MoreShots(f) == attempt[f] < numShots[f] \/ numShots[f] = Endless

\* Fault: the loop condition does not look at abort_cond.
RunContinuesUnaware(f) ==
  /\ RunMoves(f, "loop", "armed")
  /\ MoreShots(f)
  /\ attempt' = [attempt EXCEPT ![f] = Count(@)]
  /\ UNCHANGED <<result, exposures, late, RunOnly>>

\* The loop condition holds, and i++.
RunContinues(f) ==
  /\ RunMoves(f, "loop", "armed")
  /\ ~abortCond[f]
  /\ MoreShots(f)
  /\ attempt' = [attempt EXCEPT ![f] = Count(@)]
  /\ UNCHANGED <<result, exposures, late, RunOnly>>

RunLeaves(f) ==
  /\ RunMoves(f, "loop", "ending")
  /\ abortCond[f] \/ ~MoreShots(f)
  /\ UNCHANGED <<attempt, result, exposures, late, RunOnly>>

CaptureBegins(f) ==
  /\ RunMoves(f, "armed", "capture")
  /\ late' = [late EXCEPT ![f] = IF abortCond[f] THEN Count(@) ELSE @]
  /\ UNCHANGED <<attempt, result, exposures, RunOnly>>

CaptureSucceeds(f) ==
  /\ RunMoves(f, "capture", "register")
  /\ result' = [result EXCEPT ![f] = "ok"]
  /\ UNCHANGED <<attempt, exposures, late, RunOnly>>

\* "Capture %d failed.", and break.
CaptureFails(f) ==
  /\ RunMoves(f, "capture", "ending")
  /\ result' = [result EXCEPT ![f] = "failed"]
  /\ UNCHANGED <<attempt, exposures, late, RunOnly>>

\* Fault: the exposure is registered twice.
RegisterTwice(f) ==
  /\ RunMoves(f, "register", IF kind[f] = "intervalometer" THEN "recheck" ELSE "loop")
  /\ exposures' = [exposures EXCEPT ![f] = @ + 2]
  /\ UNCHANGED <<attempt, result, late, RunOnly>>

\* registerExposureStat(); the intervalometer then waits for its next exposure,
\* after the last one too.
Register(f) ==
  /\ RunMoves(f, "register", IF kind[f] = "intervalometer" THEN "recheck" ELSE "loop")
  /\ exposures' = [exposures EXCEPT ![f] = Count(@)]
  /\ UNCHANGED <<attempt, result, late, RunOnly>>

\* while (!abort_cond) around wait_until().  mutex_run is the thread's own:
\* abort() does not take it, so a notification between this check and the wait
\* is lost.
Recheck(f) ==
  /\ RunMoves(f, "recheck", IF abortCond[f] THEN "loop" ELSE "drowsy")
  /\ UNCHANGED <<attempt, result, exposures, late, RunOnly>>

FallAsleep(f) ==
  /\ RunMoves(f, "drowsy", "waiting")
  /\ UNCHANGED <<attempt, result, exposures, late, RunOnly>>

\* Fault: the break after the timeout is missing.
TimeoutGoesOn(f) ==
  /\ RunMoves(f, "waiting", "recheck")
  /\ UNCHANGED <<attempt, result, exposures, late, RunOnly>>

\* next_exposure has come: wait_until() returns timeout, and break.
Timeout(f) ==
  /\ RunMoves(f, "waiting", "loop")
  /\ UNCHANGED <<attempt, result, exposures, late, RunOnly>>

SpuriousWakeup(f) ==
  /\ RunMoves(f, "waiting", "recheck")
  /\ UNCHANGED <<attempt, result, exposures, late, RunOnly>>

Finish(f) ==
  /\ RunMoves(f, "ending", "epilogue")
  /\ finished' = [finished EXCEPT ![f] = TRUE]
  /\ UNCHANGED <<attempt, result, exposures, late, objectVars, started, testing, abortCond, threw,
                 test, cmdVars, connected, power>>

\* The closing log line reads num_shots and abort_cond of the object.
Epilogue(f) ==
  /\ RunMoves(f, "epilogue", "none")
  /\ UNCHANGED <<attempt, result, exposures, late, RunOnly>>

----------------------------------------------------------------------------

Command ==
  \/ \E f \in Functions, k \in {"sequencer", "intervalometer"}, n \in Shots : Setup(f, k, n)
  \/ Start
  \/ TestCapture
  \/ TestConnection
  \/ Reconnect
  \/ Stop
  \/ Halt

\* The steps of the command thread inside a handler.
Handler == CameraResponds \/ CameraConnects \/ CameraFails \/ FutureDestroyed
           \/ Abort \/ Notify \/ HaltIssued

AsyncTask == TestBegins \/ TestCaptureReturns \/ TestCaptureThrows \/ TestEnds

\* The steps run() takes whenever it can, and a wait that ends early.
RunStep(f) ==
  \/ RunContinues(f) \/ RunLeaves(f)
  \/ CaptureBegins(f) \/ CaptureSucceeds(f) \/ CaptureFails(f)
  \/ Register(f) \/ Recheck(f) \/ FallAsleep(f)
  \/ Finish(f) \/ Epilogue(f)

RunThread(f) == RunStep(f) \/ Timeout(f) \/ SpuriousWakeup(f)

Next ==
  \/ Command
  \/ Handler
  \/ AsyncTask
  \/ Killed
  \/ Boot
  \/ \E f \in Functions : RunThread(f)

Spec == Init /\ [][Next]_vars

\* Threads are scheduled and camera.capture() returns.  wait_until() has an
\* absolute deadline, so however often it is woken early it times out in the
\* end: strong fairness.  Commands and the power supply owe nothing.
Fairness ==
  /\ WF_vars(Handler)
  /\ WF_vars(AsyncTask)
  /\ \A f \in Functions : WF_vars(RunStep(f)) /\ SF_vars(Timeout(f))

FairSpec == Spec /\ Fairness

----------------------------------------------------------------------------
(* Properties.                                                             *)

\* Every variable keeps its type.
TypeOK ==
  /\ active \in Functions \cup {NoFunction}
  /\ kind \in [Functions -> {"sequencer", "intervalometer"}]
  /\ numShots \in [Functions -> Shots \cup {0}]
  /\ started \in [Functions -> BOOLEAN]
  /\ finished \in [Functions -> BOOLEAN]
  /\ testing \in [Functions -> BOOLEAN]
  /\ abortCond \in [Functions -> BOOLEAN]
  /\ threw \in [Functions -> BOOLEAN]
  /\ exposures \in [Functions -> 0 .. ShotCap]
  /\ run \in [Functions -> RunPoint]
  /\ attempt \in [Functions -> 0 .. ShotCap]
  /\ result \in [Functions -> {"none", "ok", "failed"}]
  /\ late \in [Functions -> 0 .. ShotCap]
  /\ test \in TestPoint
  /\ cmd \in CmdPoint
  /\ purpose \in Purpose
  /\ connected \in BOOLEAN
  /\ power \in {"on", "stopping", "off"}

\* camera.capture() is never executed by two threads at once, although no lock
\* guards the camera: not by the runs of two functions, nor by a run and a test.
SingleCapturer ==
  /\ \A f, g \in Functions : InCapture(f) /\ InCapture(g) => f = g
  /\ test = "capture" => \A f \in Functions : ~InCapture(f)

\* A setup command never deletes the object under a thread that is still taking
\* exposures: at most run()'s closing log line is left to execute.
DeletedOnlyAfterRun ==
  \A f \in Functions : f # active => run[f] \in {"none", "epilogue"}

\* Once abort_cond is set, run() begins at most one more exposure (the one whose
\* loop condition had been evaluated before), even if abort()'s wakeup is lost.
OneLateExposure == \A f \in Functions : late[f] <= 1

\* A bounded run takes no more exposures than configured, and a run ends early, or
\* an endless one at all, only because it was aborted or its last capture failed.
RunAccounted ==
  \A f \in Functions :
    /\ numShots[f] # Endless /\ exposures[f] > 0 => exposures[f] <= numShots[f]
    /\ finished[f] => \/ numShots[f] # Endless /\ exposures[f] >= numShots[f]
                      \/ abortCond[f]
                      \/ result[f] = "failed"

\* A function is taken for testing only while its task is between capture() and its
\* end: no test is left over that would refuse every later command, unless its
\* capture threw, after which only a restart helps.
NoTestLeftOver ==
  \A f \in Functions : testing[f] /\ ~threw[f] => f = active /\ test \in {"capture", "end"}

\* The comment at the setup commands has a function deleted once it has finished:
\* its thread, which then only has the closing line to log, would be done with it.
ClosingLineReadsLiveObject ==
  \A f \in Functions : run[f] = "epilogue" => f = active

\* isFinished() as its comment describes it: all the requested exposures are taken.
FinishedMeansAllShotsTaken ==
  \A f \in Functions : finished[f] /\ numShots[f] # Endless => exposures[f] >= numShots[f]

\* FUNCTIONSTOP ends the run, even when the notification of abort() is lost.
StopEndsRun ==
  \A f \in Functions : abortCond[f] ~> (finished[f] \/ power = "off")

\* A run with a bounded number of exposures finishes by itself.
BoundedRunEnds ==
  \A f \in Functions :
    (started[f] /\ numShots[f] # Endless) ~> (finished[f] \/ power = "off")

\* Every handler returns: the command thread goes back to reading commands.
CommandsReturn == (cmd # "idle") ~> (cmd = "idle")

----------------------------------------------------------------------------
(* The session seen by the remote user.                                    *)

\* Exposures run() has begun: one less than i between i++ and the capture.
Begun(f) == IF run[f] = "armed" THEN attempt[f] - 1 ELSE attempt[f]

sessionPhase ==
  CASE active = NoFunction -> "unset"
    [] active # NoFunction /\ test # "none" -> "testing"
    [] active # NoFunction /\ test = "none" /\ started[active] /\ ~finished[active] -> "running"
    [] OTHER -> "set"

sessionRan == active # NoFunction /\ started[active]

sessionBudget ==
  IF active = NoFunction THEN 0
  ELSE IF numShots[active] = Endless THEN Endless
  ELSE numShots[active] - Begun(active)

sessionExposing == test = "capture" \/ \E f \in Functions : InCapture(f)

S == INSTANCE Session WITH phase <- sessionPhase, ran <- sessionRan,
                           budget <- sessionBudget, exposing <- sessionExposing

\* The threads implement the session: one job, one exposure at a time.
ImplementsSession == S!Spec
=============================================================================
