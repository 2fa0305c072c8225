----------------------- MODULE FunctionControlProofs -----------------------
(***************************************************************************)
(* What the runs of FunctionControl check on small instances, proved for   *)
(* every set of functions and every exposure count.                        *)
(***************************************************************************)
EXTENDS FunctionControl, TLAPS

\* The points at which a thread is still working for its function.
Working == {"loop", "armed", "capture", "register", "recheck", "drowsy", "waiting", "ending"}

\* Only the active function has a working thread, and it is seen as operating.
WorkingIsActive ==
  \A f \in Functions : run[f] \in Working => f = active /\ started[f] /\ ~finished[f]

\* A function that was never started has neither finished nor counted anything.
FreshUntilStarted ==
  \A f \in Functions : ~started[f] => /\ ~finished[f]
                                      /\ attempt[f] = 0 /\ exposures[f] = 0

\* While a test task exists its command is blocked, and the function is at rest.
TestExcludesRun ==
  test # "none" => /\ cmd = "awaitTest"
                   /\ active # NoFunction
                   /\ ~(started[active] /\ ~finished[active])

\* What a handler checked before it turned to the camera still holds afterwards.
PurposeHolds ==
  /\ purpose # "none" => cmd \in {"probing", "connecting"}
  /\ purpose = "start" => active # NoFunction /\ ~started[active]
  /\ purpose = "test" => active # NoFunction /\ ~(started[active] /\ ~finished[active])

\* The one late exposure has been taken: the loop condition is not passed again.
LateOnce ==
  \A f \in Functions : /\ late[f] <= 1
                       /\ late[f] > 0 => abortCond[f] /\ run[f] # "armed"

\* i and the registered exposures of a bounded run.
Counted ==
  \A f \in Functions : numShots[f] # Endless =>
    /\ exposures[f] <= attempt[f]
    /\ attempt[f] > 0 => attempt[f] <= numShots[f]
    /\ run[f] \in {"armed", "capture", "register"} => attempt[f] = exposures[f] + 1
    /\ run[f] \in {"loop", "recheck", "drowsy", "waiting"} => exposures[f] = attempt[f]

\* Why a run leaves its loop.
Justified ==
  \A f \in Functions : (run[f] = "ending" \/ finished[f]) =>
    \/ abortCond[f]
    \/ result[f] = "failed"
    \/ numShots[f] # Endless /\ exposures[f] >= numShots[f]

\* The inductive invariant: who works on what, and why what has ended has ended.
IInv ==
  /\ TypeOK
  /\ WorkingIsActive
  /\ FreshUntilStarted
  /\ TestExcludesRun
  /\ PurposeHolds
  /\ LateOnce
  /\ Counted
  /\ Justified

----------------------------------------------------------------------------
(* Type correctness.                                                       *)

\* A saturating counter stays within its bound.
LEMMA CountBounded ==
  ASSUME NEW k \in 0 .. ShotCap
  PROVE  Count(k) \in 0 .. ShotCap
BY ShotAssumption DEF Count

\* The numbers of exposures that can be configured are integers up to the bound.
LEMMA Numbers ==
  ASSUME TypeOK, NEW f \in Functions
  PROVE  /\ attempt[f] \in 0 .. ShotCap /\ exposures[f] \in 0 .. ShotCap
         /\ late[f] \in 0 .. ShotCap
         /\ numShots[f] \in Int /\ numShots[f] <= ShotCap
<1>1. numShots[f] \in Shots \cup {0}
  BY DEF TypeOK
<1>2. numShots[f] \in Int /\ numShots[f] <= ShotCap
  <2>1. CASE numShots[f] \in Shots
    BY <2>1, ShotAssumption
  <2>2. CASE numShots[f] = 0
    BY <2>2, ShotAssumption
  <2> QED
    BY <1>1, <2>1, <2>2
<1>3. attempt[f] \in 0 .. ShotCap /\ exposures[f] \in 0 .. ShotCap /\ late[f] \in 0 .. ShotCap
  BY DEF TypeOK
<1> QED
  BY <1>2, <1>3

\* The program starts in a state of the declared types.
LEMMA TypeInit == Init => TypeOK
<1> SUFFICES ASSUME Init PROVE TypeOK
  OBVIOUS
<1>1. 0 \in 0 .. ShotCap
  BY ShotAssumption
<1>2. kind \in [Functions -> {"sequencer", "intervalometer"}] /\ numShots \in [Functions -> Shots \cup {0}]
  BY DEF Init, NothingConfigured
<1>3. NothingConfigured /\ NothingRuns /\ cmd = "idle" /\ purpose = "none"
      /\ connected = FALSE /\ power = "on"
  BY DEF Init
<1> QED
  BY <1>1, <1>2, <1>3 DEF NothingConfigured, NothingRuns, TypeOK, RunPoint, TestPoint,
   CmdPoint, Purpose

\* Accepting a command keeps the types.
LEMMA TypeCommand == TypeOK /\ Command => TypeOK'
<1> SUFFICES ASSUME TypeOK, Command PROVE TypeOK'
  OBVIOUS
<1> USE DEF TypeOK
<1>1. ASSUME NEW f \in Functions, NEW k \in {"sequencer", "intervalometer"}, NEW n \in Shots,
             Setup(f, k, n)
      PROVE  TypeOK'
  <2>1. 0 \in 0 .. ShotCap
    BY ShotAssumption
  <2> QED
    BY <1>1, <2>1 DEF Setup, cmdVars
<1>2. CASE Start \/ TestCapture \/ TestConnection
  BY <1>2 DEF Start, TestCapture, TestConnection, ConnectCamera, CmdPoint, Purpose,
     objectVars, flagVars, runVars
<1>3. CASE Reconnect \/ Stop \/ Halt
  BY <1>3 DEF Reconnect, Stop, Halt, CmdPoint, Purpose, objectVars, flagVars, runVars
<1> QED
  BY <1>1, <1>2, <1>3 DEF Command

\* The steps of a handler and of the test task keep the types.
LEMMA TypeHandler == TypeOK /\ (Handler \/ AsyncTask \/ Killed \/ Boot) => TypeOK'
<1> SUFFICES ASSUME TypeOK, Handler \/ AsyncTask \/ Killed \/ Boot PROVE TypeOK'
  OBVIOUS
<1> USE DEF TypeOK, Return, objectVars, flagVars, runVars, cmdVars, CmdPoint, Purpose
<1>1. ASSUME Proceed, UNCHANGED <<objectVars, power>>, connected' \in BOOLEAN
      PROVE  TypeOK'
  BY <1>1 DEF Proceed, StartRun, SpawnTest, DropTest, Report, RunPoint, TestPoint
<1>2. CASE CameraResponds \/ CameraConnects
  BY <1>1, <1>2 DEF CameraResponds, CameraConnects
<1>3. CASE CameraFails \/ FutureDestroyed
  BY <1>3 DEF CameraFails, FutureDestroyed, TestPoint
<1>4. CASE Abort \/ Notify \/ HaltIssued
  BY <1>4 DEF Abort, Notify, HaltIssued, RunPoint
<1>5. CASE AsyncTask
  BY <1>5 DEF AsyncTask, TestBegins, TestCaptureReturns, TestCaptureThrows, TestEnds, TestPoint
<1>6. CASE Killed
  <2>1. 0 \in 0 .. ShotCap
    BY ShotAssumption
  <2> QED
    BY <1>6, <2>1 DEF Killed, RunPoint, TestPoint
<1>7. CASE Boot
  BY <1>7 DEF Boot
<1> QED
  BY <1>2, <1>3, <1>4, <1>5, <1>6, <1>7 DEF Handler

\* The steps of run() keep the types.
LEMMA TypeRun == TypeOK /\ (\E f \in Functions : RunThread(f)) => TypeOK'
<1> SUFFICES ASSUME TypeOK, NEW f \in Functions, RunThread(f) PROVE TypeOK'
  OBVIOUS
<1> USE CountBounded DEF TypeOK, RunMoves, RunOnly, objectVars, flagVars, cmdVars, RunPoint
<1>1. CASE RunContinues(f) \/ RunLeaves(f)
  BY <1>1 DEF RunContinues, RunLeaves
<1>2. CASE CaptureBegins(f) \/ CaptureSucceeds(f) \/ CaptureFails(f)
  BY <1>2 DEF CaptureBegins, CaptureSucceeds, CaptureFails
<1>3. CASE Register(f) \/ Recheck(f) \/ FallAsleep(f)
  BY <1>3 DEF Register, Recheck, FallAsleep
<1>4. CASE Timeout(f) \/ SpuriousWakeup(f)
  BY <1>4 DEF Timeout, SpuriousWakeup
<1>5. CASE Finish(f) \/ Epilogue(f)
  BY <1>5 DEF Finish, Epilogue
<1> QED
  BY <1>1, <1>2, <1>3, <1>4, <1>5 DEF RunThread, RunStep

\* Every step keeps the types.
LEMMA TypeStep == TypeOK /\ [Next]_vars => TypeOK'
<1>1. TypeOK /\ UNCHANGED vars => TypeOK'
  BY DEF TypeOK, vars, objectVars, flagVars, runVars, cmdVars
<1> QED
  BY <1>1, TypeCommand, TypeHandler, TypeRun DEF Next

\* Every reachable state has the declared types, whatever the functions and shots.
THEOREM TypeCorrect == Spec => []TypeOK
BY TypeInit, TypeStep, PTL DEF Spec

----------------------------------------------------------------------------
(* The inductive invariant.                                                *)

\* The inductive invariant holds when the program starts.
LEMMA InvInit == Init => IInv
<1> SUFFICES ASSUME Init PROVE IInv
  OBVIOUS
<1> USE DEF Init, NothingConfigured, NothingRuns
<1>1. TypeOK
  BY TypeInit
<1>2. WorkingIsActive /\ FreshUntilStarted /\ TestExcludesRun /\ PurposeHolds
  BY DEF WorkingIsActive, Working, FreshUntilStarted, TestExcludesRun, PurposeHolds
<1>3. LateOnce /\ Counted /\ Justified
  BY DEF LateOnce, Counted, Justified
<1> QED
  BY <1>1, <1>2, <1>3 DEF IInv

\* Setting up a function.
LEMMA InvSetup ==
  ASSUME IInv, TypeOK', NEW f \in Functions, NEW k \in {"sequencer", "intervalometer"},
         NEW n \in Shots, Setup(f, k, n)
  PROVE  IInv'
<1> USE DEF IInv, Setup, Listening, IsOperating, cmdVars, TypeOK
<1>0. f # active /\ f # NoFunction
  BY FunctionAssumption
<1>1. \A g \in Functions : run'[g] \notin Working
  BY FunctionAssumption DEF WorkingIsActive
<1>2. FreshUntilStarted'
  BY DEF FreshUntilStarted
<1>3. TestExcludesRun' /\ PurposeHolds'
  BY DEF TestExcludesRun, PurposeHolds
<1>4. LateOnce'
  BY DEF LateOnce
<1>5. Counted'
  BY <1>1 DEF Counted, Working
<1>6. Justified'
  BY <1>1 DEF Justified, Working
<1>7. WorkingIsActive'
  BY <1>1 DEF WorkingIsActive
<1> QED
  BY <1>7, <1>2, <1>3, <1>4, <1>5, <1>6

\* The other commands, up to the point where the handler asks the camera or waits.
LEMMA InvCommand ==
  ASSUME IInv, TypeOK',
         Start \/ TestCapture \/ TestConnection \/ Reconnect \/ Stop \/ Halt
  PROVE  IInv'
<1> USE DEF Listening, ConnectCamera, objectVars, flagVars, runVars, cmdVars
<1>1. UNCHANGED <<objectVars, flagVars, runVars, test>> /\ cmd = "idle" /\ test = "none"
  BY DEF Start, TestCapture, TestConnection, Reconnect, Stop, Halt, IInv, TestExcludesRun
<1>2. PurposeHolds'
  BY <1>1 DEF Start, TestCapture, TestConnection, Reconnect, Stop, Halt, IInv, PurposeHolds,
     IsOperating
<1> QED
  BY <1>1, <1>2 DEF IInv, WorkingIsActive, FreshUntilStarted, TestExcludesRun, LateOnce,
     Counted, Justified

\* What the handler does once the camera has answered.
LEMMA InvProceed ==
  ASSUME IInv, TypeOK', cmd \in {"probing", "connecting"}, Proceed, UNCHANGED objectVars
  PROVE  IInv'
<1> USE DEF Return, objectVars, flagVars, runVars, TypeOK
<1>1. CASE StartRun
  <2>1. active \in Functions /\ ~started[active] /\ ~finished[active] /\ test = "none"
    BY <1>1 DEF StartRun, IInv, PurposeHolds, FreshUntilStarted, TestExcludesRun
  <2>2. WorkingIsActive'
    BY <1>1, <2>1 DEF StartRun, IInv, WorkingIsActive, Working
  <2>3. FreshUntilStarted' /\ TestExcludesRun' /\ PurposeHolds'
    BY <1>1, <2>1 DEF StartRun, IInv, FreshUntilStarted, TestExcludesRun, PurposeHolds
  <2>4. LateOnce' /\ Justified'
    BY <1>1, <2>1 DEF StartRun, IInv, LateOnce, Justified
  <2>5. Counted'
    BY <1>1, <2>1 DEF StartRun, IInv, Counted, FreshUntilStarted
  <2> QED
    BY <2>2, <2>3, <2>4, <2>5 DEF IInv, TypeOK
<1>2. CASE SpawnTest \/ DropTest \/ Report
  <2>1. TestExcludesRun' /\ PurposeHolds'
    BY <1>2 DEF SpawnTest, DropTest, Report, IInv, PurposeHolds, TestExcludesRun
  <2> QED
    BY <1>2, <2>1 DEF SpawnTest, DropTest, Report, IInv, WorkingIsActive, FreshUntilStarted,
       LateOnce, Counted, Justified
<1> QED
  BY <1>1, <1>2 DEF Proceed

\* The other steps inside a handler, and those of the asynchronous task.
LEMMA InvHandler ==
  ASSUME IInv, TypeOK', Handler \/ AsyncTask
  PROVE  IInv'
<1> USE DEF Return, objectVars, flagVars, runVars, cmdVars
<1>1. CASE CameraResponds \/ CameraConnects
  BY <1>1, InvProceed DEF CameraResponds, CameraConnects
<1>2. CASE CameraFails \/ FutureDestroyed \/ HaltIssued
  BY <1>2 DEF CameraFails, FutureDestroyed, HaltIssued, IInv, WorkingIsActive,
     FreshUntilStarted, TestExcludesRun, PurposeHolds, LateOnce, Counted, Justified
<1>3. CASE Abort
  <2>1. \A f \in Functions : abortCond[f] => abortCond'[f]
    BY <1>3 DEF Abort, IInv, TypeOK
  <2>2. UNCHANGED <<objectVars, started, finished, runVars, test, purpose>>
        /\ purpose = "none" /\ test = "none"
    BY <1>3 DEF Abort, IInv, PurposeHolds, TestExcludesRun
  <2> QED
    BY <2>1, <2>2 DEF IInv, WorkingIsActive,
     FreshUntilStarted, TestExcludesRun, PurposeHolds, LateOnce, Counted, Justified
<1>4. CASE Notify
  <2>1. \A f \in Functions : run'[f] = run[f] \/ (run[f] = "waiting" /\ run'[f] = "recheck")
    BY <1>4 DEF Notify, IInv, TypeOK
  <2>2. UNCHANGED <<objectVars, flagVars, attempt, result, exposures, late, test, purpose>>
        /\ purpose = "none" /\ test = "none"
    BY <1>4 DEF Notify, IInv, PurposeHolds, TestExcludesRun
  <2>3. WorkingIsActive' /\ FreshUntilStarted' /\ TestExcludesRun' /\ PurposeHolds'
    BY <2>1, <2>2 DEF IInv, WorkingIsActive, Working, FreshUntilStarted, TestExcludesRun,
       PurposeHolds
  <2>4. LateOnce' /\ Counted' /\ Justified'
    BY <2>1, <2>2 DEF IInv, LateOnce, Counted, Justified
  <2> QED
    BY <2>3, <2>4 DEF IInv
<1>5. CASE AsyncTask
  BY <1>5 DEF AsyncTask, TestBegins, TestCaptureReturns, TestCaptureThrows, TestEnds, IInv, WorkingIsActive,
     FreshUntilStarted, TestExcludesRun, PurposeHolds, LateOnce, Counted, Justified
<1> QED
  BY <1>1, <1>2, <1>3, <1>4, <1>5 DEF Handler

\* Losing power and starting again.
LEMMA InvPower ==
  ASSUME IInv, TypeOK', Killed \/ Boot
  PROVE  IInv'
<1>1. CASE Killed
  <2> USE DEF Killed, Return
  <2>1. WorkingIsActive' /\ FreshUntilStarted' /\ TestExcludesRun' /\ PurposeHolds'
    BY <1>1 DEF WorkingIsActive, Working, FreshUntilStarted, TestExcludesRun, PurposeHolds
  <2>2. LateOnce' /\ Counted' /\ Justified'
    BY <1>1 DEF LateOnce, Counted, Justified
  <2> QED
    BY <2>1, <2>2 DEF IInv
<1>2. CASE Boot
  BY <1>2 DEF Boot, objectVars, flagVars, runVars, cmdVars, IInv, WorkingIsActive,
     FreshUntilStarted, TestExcludesRun, PurposeHolds, LateOnce, Counted, Justified
<1> QED
  BY <1>1, <1>2

\* A step of the thread of f leaves the other threads where they are.
LEMMA OthersStay ==
  ASSUME TypeOK, NEW f \in Functions, NEW g \in Functions, g # f, RunThread(f)
  PROVE  /\ run'[g] = run[g] /\ attempt'[g] = attempt[g] /\ result'[g] = result[g]
         /\ exposures'[g] = exposures[g] /\ late'[g] = late[g] /\ finished'[g] = finished[g]
BY DEF RunThread, RunStep, RunContinues, RunLeaves, CaptureBegins, CaptureSucceeds, CaptureFails,
   Register, Recheck, FallAsleep, Timeout, SpuriousWakeup, Finish, Epilogue, RunMoves, RunOnly,
   TypeOK, flagVars

\* The steps of run(), one by one.
LEMMA InvRun ==
  ASSUME IInv, TypeOK', NEW f \in Functions, RunThread(f)
  PROVE  IInv'
<1> USE DEF IInv, RunMoves, RunOnly, objectVars, flagVars, cmdVars, TypeOK
<1>1. /\ UNCHANGED <<active, kind, numShots, started, testing, abortCond, test, cmd, purpose>>
      /\ run[f] \in Working \/ (run[f] = "epilogue" /\ run'[f] = "none"
                                /\ UNCHANGED <<finished, attempt, result, exposures, late>>)
      /\ run'[f] \in Working => finished'[f] = finished[f]
      /\ finished[f] => finished'[f]
  BY DEF RunThread, RunStep, RunContinues, RunLeaves, CaptureBegins, CaptureSucceeds,
     CaptureFails, Register, Recheck, FallAsleep, Timeout, SpuriousWakeup, Finish, Epilogue, Working
<1>2. run[f] \in Working => f = active /\ started[f] /\ ~finished[f]
  BY DEF WorkingIsActive
<1>3. \A g \in Functions \ {f} :
        /\ run'[g] = run[g] /\ attempt'[g] = attempt[g] /\ result'[g] = result[g]
        /\ exposures'[g] = exposures[g] /\ late'[g] = late[g] /\ finished'[g] = finished[g]
  BY OthersStay
<1>4. WorkingIsActive'
  BY <1>1, <1>2, <1>3 DEF WorkingIsActive, Working
<1>5. FreshUntilStarted'
  BY <1>1, <1>2, <1>3 DEF FreshUntilStarted
<1>6. TestExcludesRun' /\ PurposeHolds'
  BY <1>1, <1>3 DEF TestExcludesRun, PurposeHolds
<1>7. ASSUME run[f] \in Working
      PROVE  /\ late'[f] <= 1
             /\ late'[f] > 0 => abortCond'[f] /\ run'[f] # "armed"
             /\ numShots[f] # Endless =>
                  /\ exposures'[f] <= attempt'[f]
                  /\ attempt'[f] > 0 => attempt'[f] <= numShots[f]
                  /\ run'[f] \in {"armed", "capture", "register"} => attempt'[f] = exposures'[f] + 1
                  /\ run'[f] \in {"loop", "recheck", "drowsy", "waiting"} => exposures'[f] = attempt'[f]
             /\ (run'[f] = "ending" \/ finished'[f]) =>
                  \/ abortCond'[f]
                  \/ result'[f] = "failed"
                  \/ numShots[f] # Endless /\ exposures'[f] >= numShots[f]
  <2>0. /\ late[f] <= 1
        /\ late[f] > 0 => abortCond[f] /\ run[f] # "armed"
        /\ numShots[f] # Endless =>
             /\ exposures[f] <= attempt[f]
             /\ attempt[f] > 0 => attempt[f] <= numShots[f]
             /\ run[f] \in {"armed", "capture", "register"} => attempt[f] = exposures[f] + 1
             /\ run[f] \in {"loop", "recheck", "drowsy", "waiting"} => exposures[f] = attempt[f]
        /\ run[f] = "ending" =>
             \/ abortCond[f]
             \/ result[f] = "failed"
             \/ numShots[f] # Endless /\ exposures[f] >= numShots[f]
    BY DEF LateOnce, Counted, Justified
  <2>1. ~finished[f] /\ abortCond'[f] = abortCond[f]
    BY <1>1, <1>2, <1>7
  <2>a. /\ attempt[f] \in 0 .. ShotCap /\ exposures[f] \in 0 .. ShotCap
        /\ late[f] \in 0 .. ShotCap
        /\ numShots[f] \in Int /\ numShots[f] <= ShotCap
    BY Numbers
  <2> HIDE DEF IInv
  <2> USE <2>0, <2>1, <2>a, ShotAssumption
  <2>2. CASE RunContinues(f)
    BY <2>2 DEF RunContinues, MoreShots, Count, Endless
  <2>3. CASE RunLeaves(f)
    BY <2>3 DEF RunLeaves, MoreShots
  <2>4. CASE CaptureBegins(f)
    BY <2>4 DEF CaptureBegins, Count
  <2>5. CASE CaptureSucceeds(f) \/ CaptureFails(f)
    BY <2>5 DEF CaptureSucceeds, CaptureFails
  <2>6. CASE Register(f)
    <3>1. numShots[f] # Endless => Count(exposures[f]) = exposures[f] + 1
      BY <2>6 DEF Register, Count
    <3>2. /\ exposures'[f] = Count(exposures[f])
          /\ run[f] = "register" /\ run'[f] \in {"recheck", "loop"}
          /\ attempt'[f] = attempt[f] /\ result'[f] = result[f]
          /\ late'[f] = late[f] /\ finished'[f] = finished[f]
      BY <2>6 DEF Register
    <3> HIDE DEF RunMoves, RunOnly, TypeOK
    <3> QED
      BY <3>1, <3>2
  <2>7. CASE Recheck(f) \/ FallAsleep(f) \/ Timeout(f) \/ SpuriousWakeup(f)
    BY <2>7 DEF Recheck, FallAsleep, Timeout, SpuriousWakeup
  <2>8. CASE Finish(f) \/ Epilogue(f)
    BY <2>8 DEF Finish, Epilogue
  <2> QED
    BY <2>2, <2>3, <2>4, <2>5, <2>6, <2>7, <2>8 DEF RunThread, RunStep
<1>8. LateOnce'
  BY <1>1, <1>3, <1>7 DEF LateOnce
<1>9. Counted'
  BY <1>1, <1>3, <1>7 DEF Counted
<1>10. Justified'
  BY <1>1, <1>3, <1>7 DEF Justified
<1> QED
  BY <1>4, <1>5, <1>6, <1>8, <1>9, <1>10

\* Every step preserves the inductive invariant.
LEMMA InvStep == IInv /\ [Next]_vars => IInv'
<1> SUFFICES ASSUME IInv, [Next]_vars PROVE IInv'
  OBVIOUS
<1>1. TypeOK'
  BY TypeStep DEF IInv
<1>2. CASE Command
  BY <1>1, <1>2, InvSetup, InvCommand DEF Command
<1>3. CASE Handler \/ AsyncTask
  BY <1>1, <1>3, InvHandler
<1>4. CASE Killed \/ Boot
  BY <1>1, <1>4, InvPower
<1>5. CASE \E f \in Functions : RunThread(f)
  BY <1>1, <1>5, InvRun
<1>6. CASE UNCHANGED vars
  BY <1>6 DEF vars, objectVars, flagVars, runVars, cmdVars, IInv, TypeOK, WorkingIsActive,
     FreshUntilStarted, TestExcludesRun, PurposeHolds, LateOnce, Counted, Justified
<1> QED
  BY <1>2, <1>3, <1>4, <1>5, <1>6 DEF Next

\* The inductive invariant: who may be working on what, and why a run that has
\* finished did so, in every reachable state.
THEOREM Invariance == Spec => []IInv
BY InvInit, InvStep, PTL DEF Spec

----------------------------------------------------------------------------
(* The safety properties.                                                  *)

\* No two threads are ever inside camera.capture().
THEOREM OneCapturer == Spec => []SingleCapturer
<1>1. IInv => SingleCapturer
  BY DEF IInv, WorkingIsActive, Working, TestExcludesRun, SingleCapturer, InCapture, TypeOK
<1> QED
  BY <1>1, Invariance, PTL

\* Only the closing log line of run() can outlive its object.
THEOREM DeleteWaitsForRun == Spec => []DeletedOnlyAfterRun
<1>1. IInv => DeletedOnlyAfterRun
  BY DEF IInv, WorkingIsActive, Working, DeletedOnlyAfterRun, TypeOK, RunPoint
<1> QED
  BY <1>1, Invariance, PTL

\* abort() lets at most one more exposure begin.
THEOREM AbortIsPrompt == Spec => []OneLateExposure
<1>1. IInv => OneLateExposure
  BY DEF IInv, LateOnce, OneLateExposure
<1> QED
  BY <1>1, Invariance, PTL

\* The exposures of a run are accounted for.
THEOREM ExposuresAccounted == Spec => []RunAccounted
<1>1. ASSUME IInv
      PROVE  RunAccounted
  <2> SUFFICES ASSUME NEW f \in Functions
               PROVE  /\ numShots[f] # Endless /\ exposures[f] > 0 =>
                           exposures[f] <= numShots[f]
                      /\ finished[f] => \/ numShots[f] # Endless /\ exposures[f] >= numShots[f]
                                        \/ abortCond[f]
                                        \/ result[f] = "failed"
    BY DEF RunAccounted
  <2>1. numShots[f] # Endless /\ exposures[f] > 0 => exposures[f] <= numShots[f]
    BY <1>1, Numbers DEF IInv, Counted
  <2>2. finished[f] => \/ numShots[f] # Endless /\ exposures[f] >= numShots[f]
                       \/ abortCond[f]
                       \/ result[f] = "failed"
    BY <1>1 DEF IInv, Justified
  <2> QED
    BY <2>1, <2>2
<1> QED
  BY <1>1, Invariance, PTL

\* A test is over when its flag is down, or its capture has thrown.
LEMMA LeftOverStep ==
  ASSUME IInv, NoTestLeftOver, [Next]_vars
  PROVE  NoTestLeftOver'
<1> USE DEF NoTestLeftOver, objectVars, flagVars, runVars, cmdVars
<1>1. TypeOK
  BY DEF IInv
<1>2. ASSUME NEW f \in Functions, NEW k \in {"sequencer", "intervalometer"}, NEW n \in Shots,
             Setup(f, k, n)
      PROVE  NoTestLeftOver'
  BY <1>1, <1>2 DEF Setup, IInv, TestExcludesRun, TypeOK
<1>3. CASE UNCHANGED <<objectVars, flagVars, test>>
  BY <1>3
<1>4. CASE Start \/ TestCapture \/ TestConnection \/ Reconnect \/ Stop \/ Halt
  BY <1>3, <1>4 DEF Start, TestCapture, TestConnection, Reconnect, Stop, Halt, ConnectCamera
<1>5. ASSUME Proceed, UNCHANGED objectVars, cmd # "awaitTest"
      PROVE  NoTestLeftOver'
  <2>1. test = "none" /\ UNCHANGED <<active, testing, threw>>
    BY <1>5 DEF Proceed, StartRun, SpawnTest, DropTest, Report, IInv, TestExcludesRun
  <2> QED
    BY <2>1
<1>6. CASE CameraResponds \/ CameraConnects
  BY <1>5, <1>6 DEF CameraResponds, CameraConnects
<1>7. CASE CameraFails \/ FutureDestroyed \/ Abort \/ Notify \/ HaltIssued
  BY <1>7 DEF CameraFails, FutureDestroyed, Abort, Notify, HaltIssued
<1>8. CASE AsyncTask
  <2>1. active \in Functions /\ UNCHANGED active
    BY <1>1, <1>8 DEF AsyncTask, TestBegins, TestCaptureReturns, TestCaptureThrows, TestEnds,
       IInv, TestExcludesRun, TypeOK
  <2> QED
    BY <1>1, <1>8, <2>1 DEF AsyncTask, TestBegins, TestCaptureReturns, TestCaptureThrows,
       TestEnds, TypeOK
<1>9. CASE Killed \/ Boot
  BY <1>9 DEF Killed, Boot
<1>10. ASSUME NEW f \in Functions, RunThread(f)
       PROVE  NoTestLeftOver'
  BY <1>10 DEF RunThread, RunStep, RunContinues, RunLeaves, CaptureBegins, CaptureSucceeds,
     CaptureFails, Register, Recheck, FallAsleep, Timeout, SpuriousWakeup, Finish, Epilogue,
     RunMoves, RunOnly
<1>11. CASE UNCHANGED vars
  BY <1>11 DEF vars
<1> QED
  BY <1>2, <1>4, <1>6, <1>7, <1>8, <1>9, <1>10, <1>11 DEF Next, Command, Handler

\* No test is left over, unless its capture threw.
THEOREM TestsEnd == Spec => []NoTestLeftOver
<1>1. Init => NoTestLeftOver
  BY DEF Init, NothingConfigured, NoTestLeftOver
<1>2. IInv /\ NoTestLeftOver /\ [Next]_vars => NoTestLeftOver'
  BY LeftOverStep
<1> QED
  BY <1>1, <1>2, Invariance, PTL DEF Spec

----------------------------------------------------------------------------
(* The refinement of Session.                                              *)

\* While any thread works, the session is running; a test task makes it testing.
LEMMA PhaseFacts ==
  ASSUME IInv
  PROVE  /\ \A f \in Functions : run[f] \in Working =>
              active = f /\ f # NoFunction /\ test = "none" /\ sessionPhase = "running"
         /\ test # "none" => sessionPhase = "testing" /\ active # NoFunction
                             /\ \A f \in Functions : run[f] \notin Working
<1>1. \A f \in Functions : run[f] \in Working =>
        active = f /\ f # NoFunction /\ test = "none" /\ started[active] /\ ~finished[active]
  BY FunctionAssumption DEF IInv, WorkingIsActive, TestExcludesRun
<1> QED
  BY <1>1 DEF IInv, TestExcludesRun, sessionPhase

\* A step that leaves these as they are is invisible.
LEMMA Invisible ==
  ASSUME UNCHANGED <<active, numShots, started, finished>>,
         test = test' \/ (test \notin {"none", "capture"} /\ test' \notin {"none", "capture"}),
         \A f \in Functions : InCapture(f)' <=> InCapture(f),
         active \in Functions => Begun(active)' = Begun(active) \/ numShots[active] = Endless,
         active \in Functions \cup {NoFunction}
  PROVE  UNCHANGED S!vars
<1>1. sessionPhase' = sessionPhase /\ sessionRan' = sessionRan
  BY DEF sessionPhase, sessionRan
<1>2. sessionBudget' = sessionBudget
  BY DEF sessionBudget, Begun
<1>3. sessionExposing' = sessionExposing
  BY DEF sessionExposing, InCapture
<1> QED
  BY <1>1, <1>2, <1>3 DEF S!vars

\* A setup command configures the job of the session.
LEMMA RefSetup ==
  ASSUME IInv, NEW f \in Functions, NEW k \in {"sequencer", "intervalometer"},
         NEW n \in Shots, Setup(f, k, n)
  PROVE  S!Configure(n)
<1> USE DEF Setup, Listening, IsOperating, cmdVars
<1>1. test = "none" /\ test' = "none" /\ f # NoFunction
  BY FunctionAssumption DEF IInv, TestExcludesRun
<1>2. /\ active' = f /\ ~started'[f] /\ numShots'[f] = n /\ attempt'[f] = 0 /\ run'[f] = "none"
      /\ active # NoFunction => ~(started[active] /\ ~finished[active])
  OBVIOUS
<1>3. sessionPhase \in {"unset", "set"} /\ sessionPhase' = "set" /\ sessionRan' = FALSE
  BY <1>1, <1>2 DEF sessionPhase, sessionRan
<1>4. sessionBudget' = n
  BY <1>1, <1>2, ShotAssumption DEF sessionBudget, Begun, Endless
<1>5. sessionExposing' = sessionExposing
  BY DEF sessionExposing, InCapture
<1> QED
  BY <1>3, <1>4, <1>5 DEF S!Configure

\* The other commands are not seen before the camera has answered.
LEMMA RefCommand ==
  ASSUME IInv, Start \/ TestCapture \/ TestConnection \/ Reconnect \/ Stop \/ Halt
  PROVE  UNCHANGED S!vars
<1>1. UNCHANGED <<objectVars, flagVars, runVars, test>>
  BY DEF Start, TestCapture, TestConnection, Reconnect, Stop, Halt, ConnectCamera
<1> QED
  BY <1>1, Invisible DEF objectVars, flagVars, runVars, InCapture, Begun, IInv, TypeOK

\* A start or a test begins when the handler goes on; a report is invisible.
LEMMA RefProceed ==
  ASSUME IInv, IInv', cmd \in {"probing", "connecting"}, Proceed, UNCHANGED objectVars
  PROVE  S!StartRun \/ S!StartTest \/ UNCHANGED S!vars
<1> USE DEF Return, objectVars, flagVars, runVars
<1>0. test = "none" /\ \A f \in Functions : active = f => f # NoFunction
  BY FunctionAssumption DEF IInv, TestExcludesRun
<1>1. CASE StartRun
  <2>1. /\ active \in Functions /\ active # NoFunction
        /\ ~started[active] /\ ~finished[active] /\ started'[active] /\ ~finished'[active]
        /\ run[active] \notin Working /\ run'[active] = "loop"
        /\ UNCHANGED <<active, numShots, attempt, test>>
    BY <1>1 DEF StartRun, IInv, PurposeHolds, FreshUntilStarted, WorkingIsActive, TypeOK
  <2>2. sessionPhase = "set" /\ sessionPhase' = "running" /\ ~sessionRan /\ sessionRan' = TRUE
    BY <1>0, <2>1, <1>1 DEF StartRun, sessionPhase, sessionRan, IInv, TypeOK
  <2>3. sessionBudget' = sessionBudget
    BY <2>1 DEF sessionBudget, Begun, Working
  <2>4. sessionExposing' = sessionExposing
    BY <1>1, <2>1 DEF StartRun, sessionExposing, InCapture, Working, IInv, TypeOK
  <2> QED
    BY <2>2, <2>3, <2>4 DEF S!StartRun
<1>2. CASE SpawnTest
  <2>1. sessionPhase = "set" /\ sessionPhase' = "testing"
    BY <1>0, <1>2 DEF SpawnTest, sessionPhase, IInv, PurposeHolds
  <2>2. sessionRan' = sessionRan /\ sessionBudget' = sessionBudget
    BY <1>2 DEF SpawnTest, sessionRan, sessionBudget, Begun
  <2>3. sessionExposing' = sessionExposing
    BY <1>0, <1>2 DEF SpawnTest, sessionExposing, InCapture
  <2> QED
    BY <2>1, <2>2, <2>3 DEF S!StartTest
<1>3. CASE DropTest \/ Report
  BY <1>3, Invisible DEF DropTest, Report, InCapture, Begun, IInv, TypeOK
<1> QED
  BY <1>1, <1>2, <1>3 DEF Proceed

\* The other steps inside a handler.
LEMMA RefHandler ==
  ASSUME IInv, IInv', Handler
  PROVE  S!StartRun \/ S!StartTest \/ S!Rest \/ UNCHANGED S!vars
<1> USE DEF Return, objectVars, flagVars, runVars
<1>1. CASE CameraResponds \/ CameraConnects
  BY <1>1, RefProceed DEF CameraResponds, CameraConnects
<1>2. CASE CameraFails \/ HaltIssued
  BY <1>2, Invisible DEF CameraFails, HaltIssued, InCapture, Begun, IInv, TypeOK
<1>3. CASE FutureDestroyed
  <2>1. sessionPhase = "testing" /\ sessionPhase' = "set"
    BY <1>3 DEF FutureDestroyed, sessionPhase, IInv, TestExcludesRun
  <2>2. \A f \in Functions : ~InCapture(f)
    BY <1>3, PhaseFacts DEF FutureDestroyed, InCapture, Working
  <2>3. sessionExposing = FALSE /\ sessionExposing' = FALSE
    BY <1>3, <2>2 DEF FutureDestroyed, sessionExposing, InCapture
  <2>4. sessionRan' = sessionRan /\ sessionBudget' = sessionBudget
    BY <1>3 DEF FutureDestroyed, sessionRan, sessionBudget, Begun
  <2> QED
    BY <2>1, <2>3, <2>4 DEF S!Rest
<1>4. CASE Abort
  BY <1>4, Invisible DEF Abort, InCapture, Begun, IInv, TypeOK
<1>5. CASE Notify
  <2>1. \A f \in Functions : run'[f] = run[f] \/ (run[f] = "waiting" /\ run'[f] = "recheck")
    BY <1>5 DEF Notify, IInv, TypeOK
  <2> QED
    BY <1>5, <2>1, Invisible DEF Notify, InCapture, Begun, IInv, TypeOK
<1> QED
  BY <1>1, <1>2, <1>3, <1>4, <1>5 DEF Handler

\* The task of a test capture is one exposure of the session.
LEMMA RefTask ==
  ASSUME IInv, AsyncTask
  PROVE  S!TestExposure \/ S!EndExposure \/ UNCHANGED S!vars
<1> USE DEF objectVars, flagVars, runVars
<1>0. /\ sessionPhase = "testing" /\ active # NoFunction
      /\ \A f \in Functions : ~InCapture(f)
  BY PhaseFacts DEF AsyncTask, TestBegins, TestCaptureReturns, TestCaptureThrows, TestEnds, InCapture, Working
<1>1. UNCHANGED <<active, numShots, started, finished, run, attempt>> /\ test' # "none"
  BY DEF AsyncTask, TestBegins, TestCaptureReturns, TestCaptureThrows, TestEnds
<1>2. sessionPhase' = sessionPhase /\ sessionRan' = sessionRan /\ sessionBudget' = sessionBudget
  BY <1>0, <1>1 DEF sessionPhase, sessionRan, sessionBudget, Begun
<1>3. /\ sessionExposing <=> test = "capture"
      /\ sessionExposing' <=> test' = "capture"
  BY <1>0, <1>1 DEF sessionExposing, InCapture
<1>4. sessionExposing \in BOOLEAN /\ sessionExposing' \in BOOLEAN
  BY DEF sessionExposing
<1>5. CASE TestBegins
  BY <1>0, <1>2, <1>3, <1>4, <1>5 DEF TestBegins, S!TestExposure
<1>6. CASE TestCaptureReturns
  BY <1>2, <1>3, <1>4, <1>6 DEF TestCaptureReturns, S!EndExposure
<1>7. CASE TestEnds
  BY <1>2, <1>3, <1>4, <1>7 DEF TestEnds, S!vars
<1>8. CASE TestCaptureThrows
  BY <1>2, <1>3, <1>4, <1>8 DEF TestCaptureThrows, S!EndExposure
<1> QED
  BY <1>5, <1>6, <1>7, <1>8 DEF AsyncTask

\* Losing power forgets the session; starting again changes nothing.
LEMMA RefPower ==
  ASSUME IInv, Killed \/ Boot
  PROVE  S!PowerLoss \/ UNCHANGED S!vars
<1>1. CASE Killed
  BY <1>1 DEF Killed, S!PowerLoss, sessionPhase, sessionRan, sessionBudget, sessionExposing,
     InCapture
<1>2. CASE Boot
  BY <1>2, Invisible DEF Boot, objectVars, flagVars, runVars, InCapture, Begun, IInv, TypeOK
<1> QED
  BY <1>1, <1>2

\* A run takes its exposures one by one out of its budget.
LEMMA RefRun ==
  ASSUME IInv, IInv', NEW f \in Functions, RunThread(f)
  PROVE  S!RunExposure \/ S!EndExposure \/ S!Rest \/ UNCHANGED S!vars
<1> USE DEF RunMoves, RunOnly, objectVars, flagVars
<1>1. /\ UNCHANGED <<active, kind, numShots, started, test>>
      /\ run[f] \in Working \/ Epilogue(f)
  BY DEF RunThread, RunStep, RunContinues, RunLeaves, CaptureBegins, CaptureSucceeds,
     CaptureFails, Register, Recheck, FallAsleep, Timeout, SpuriousWakeup, Finish, Epilogue, Working
<1>2. CASE Epilogue(f)
  BY <1>2, Invisible DEF Epilogue, InCapture, Begun, IInv, TypeOK
<1>3. CASE run[f] \in Working
  <2>1. /\ active = f /\ f # NoFunction /\ test = "none" /\ sessionPhase = "running"
        /\ started[f] /\ ~finished[f]
    BY <1>3, PhaseFacts DEF IInv, WorkingIsActive
  <2>2. \A g \in Functions \ {f} : ~InCapture(g) /\ ~InCapture(g)'
    BY <2>1, OthersStay DEF IInv, WorkingIsActive, Working, InCapture
  <2>3. sessionExposing = InCapture(f) /\ sessionExposing' = InCapture(f)'
    BY <1>1, <2>1, <2>2 DEF sessionExposing, InCapture
  <2>4. sessionRan' = sessionRan
    BY <1>1 DEF sessionRan
  <2>5. \/ finished'[f]
        \/ ~finished'[f] /\ sessionPhase' = "running"
    BY <1>1, <2>1 DEF sessionPhase
  <2>6. /\ sessionBudget = IF numShots[f] = Endless THEN Endless ELSE numShots[f] - Begun(f)
        /\ sessionBudget' = IF numShots[f] = Endless THEN Endless ELSE numShots[f] - Begun(f)'
    BY <1>1, <2>1 DEF sessionBudget, Begun
  <2>7. numShots[f] \in Int /\ attempt[f] \in Nat
    BY Numbers, ShotAssumption DEF IInv
  <2>8. CASE RunContinues(f)
    <3>1. numShots[f] # Endless => attempt'[f] = attempt[f] + 1
      BY <2>7, <2>8, Numbers, ShotAssumption DEF RunContinues, MoreShots, Count, IInv, TypeOK
    <3>2. sessionBudget' = sessionBudget
      BY <2>6, <2>7, <2>8, <3>1 DEF RunContinues, Begun, IInv, TypeOK
    <3>3. sessionPhase' = "running" /\ sessionExposing' = sessionExposing
      BY <2>1, <2>3, <2>5, <2>8 DEF RunContinues, InCapture, IInv, TypeOK
    <3> QED
      BY <2>1, <2>4, <3>2, <3>3 DEF S!vars
  <2>9. CASE CaptureBegins(f)
    <3>1. /\ run[f] = "armed" /\ run'[f] = "capture"
          /\ UNCHANGED <<attempt, finished>>
      BY <2>9 DEF CaptureBegins, IInv, TypeOK
    <3>2. sessionExposing = FALSE /\ sessionExposing' = TRUE
      BY <2>3, <3>1 DEF InCapture
    <3>3. CASE numShots[f] = Endless
      <4>1. sessionBudget = Endless /\ sessionBudget' = Endless
        BY <2>6, <3>3
      <4> QED
        BY <2>1, <2>4, <2>5, <3>1, <3>2, <4>1 DEF S!RunExposure, S!Endless, Endless
    <3>4. CASE numShots[f] # Endless
      <4>1. attempt[f] <= numShots[f] /\ attempt[f] > 0
        BY <2>7, <3>1, <3>4, Numbers DEF IInv, Counted
      <4>2. sessionBudget = numShots[f] - (attempt[f] - 1) /\ sessionBudget' = numShots[f] - attempt[f]
        BY <2>6, <3>1, <3>4 DEF Begun
      <4>3. sessionBudget > 0 /\ sessionBudget # -1 /\ sessionBudget' = sessionBudget - 1
        BY <2>7, <4>1, <4>2
      <4> QED
        BY <2>1, <2>4, <2>5, <3>1, <3>2, <4>3 DEF S!RunExposure, S!Endless
    <3> QED
      BY <3>3, <3>4
  <2>10. CASE CaptureSucceeds(f) \/ CaptureFails(f)
    <3>1. /\ run[f] = "capture" /\ run'[f] \in {"register", "ending"}
          /\ UNCHANGED <<attempt, finished>>
      BY <2>10 DEF CaptureSucceeds, CaptureFails, IInv, TypeOK
    <3>2. sessionBudget' = sessionBudget
      BY <2>6, <3>1 DEF Begun
    <3>3. sessionExposing = TRUE /\ sessionExposing' = FALSE
      BY <2>3, <3>1 DEF InCapture
    <3> QED
      BY <2>1, <2>4, <2>5, <3>1, <3>2, <3>3 DEF S!EndExposure
  <2>11. CASE Finish(f)
    <3>1. /\ run[f] = "ending" /\ run'[f] = "epilogue" /\ finished'[f]
          /\ UNCHANGED attempt
      BY <2>11 DEF Finish, IInv, TypeOK
    <3>2. sessionBudget' = sessionBudget
      BY <2>6, <3>1 DEF Begun
    <3>3. sessionExposing = FALSE /\ sessionExposing' = FALSE
      BY <2>3, <3>1 DEF InCapture
    <3>4. sessionPhase' = "set"
      BY <1>1, <2>1, <3>1 DEF sessionPhase
    <3> QED
      BY <2>1, <2>4, <3>2, <3>3, <3>4 DEF S!Rest
  <2>12. CASE RunLeaves(f) \/ Register(f) \/ Recheck(f) \/ FallAsleep(f) \/ Timeout(f)
              \/ SpuriousWakeup(f)
    <3>1. /\ run[f] \notin {"capture", "armed"} /\ run'[f] \notin {"capture", "armed"}
          /\ UNCHANGED <<attempt, finished>>
      BY <2>12 DEF RunLeaves, Register, Recheck, FallAsleep, Timeout, SpuriousWakeup, IInv, TypeOK
    <3>2. sessionBudget' = sessionBudget
      BY <2>6, <3>1 DEF Begun
    <3>3. sessionExposing = FALSE /\ sessionExposing' = FALSE
      BY <2>3, <3>1 DEF InCapture
    <3> QED
      BY <2>1, <2>4, <2>5, <3>1, <3>2, <3>3 DEF S!vars
  <2> QED
    BY <1>2, <2>8, <2>9, <2>10, <2>11, <2>12 DEF RunThread, RunStep
<1> QED
  BY <1>1, <1>2, <1>3

\* The threads of the program implement the session its user sees.
THEOREM SessionImplemented == Spec => ImplementsSession
<1>1. Init => S!Init
  BY DEF Init, NothingConfigured, NothingRuns, S!Init, sessionPhase, sessionRan, sessionBudget,
     sessionExposing, InCapture
<1>2. IInv /\ IInv' /\ [Next]_vars => [S!Next]_(S!vars)
  <2> SUFFICES ASSUME IInv, IInv', [Next]_vars PROVE S!Next \/ UNCHANGED S!vars
    OBVIOUS
  <2>1. CASE Command
    BY <2>1, RefSetup, RefCommand DEF Command, S!Next
  <2>2. CASE Handler
    BY <2>2, RefHandler DEF S!Next
  <2>3. CASE AsyncTask
    BY <2>3, RefTask DEF S!Next
  <2>4. CASE Killed \/ Boot
    BY <2>4, RefPower DEF S!Next
  <2>5. CASE \E f \in Functions : RunThread(f)
    BY <2>5, RefRun DEF S!Next
  <2>6. CASE UNCHANGED vars
    BY <2>6, Invisible DEF vars, objectVars, flagVars, runVars, InCapture, Begun, IInv, TypeOK
  <2> QED
    BY <2>1, <2>2, <2>3, <2>4, <2>5, <2>6 DEF Next
<1> QED
  BY <1>1, <1>2, Invariance, PTL DEF Spec, ImplementsSession, S!Spec
=============================================================================
