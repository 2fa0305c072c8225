---------------------------- MODULE TimingProofs ----------------------------
(***************************************************************************)
(* Proofs about Timing, for all intervals, exposures and delays and however  *)
(* often and far the clock is set: when a shot starts and how long a BULB    *)
(* exposure lasts.                                                         *)
(***************************************************************************)
EXTENDS Timing, TLAPS

\* What was is past, and a clock nobody has set is the real one.
Past ==
  /\ began <= time /\ opened <= time
  /\ leaps = 0 => offset = 0
  /\ lag <= Patience

\* The deadlines are far enough, but for what the clock was set forth since.
FarEnough ==
  /\ pc \in {"check", "sleepy", "asleep"} =>
       end_exposure - offset >= (opened + exposure_time) - forth
  /\ pc \in {"sleepy", "asleep"} /\ remaining <= 0 =>
       time - opened >= exposure_time - forth
  /\ pc \notin {"loop", "ended"} => next_exposure - offset >= (began + interval) - forth

\* The exposure, on a clock nobody sets: how late its thread may be at each point, in
\* the rounds of the loop before its end and in the last.
ExposureOnTime ==
  LET latest == opened + Larger(exposure_time, 0) IN
  /\ pc = "aim" => time <= opened + lag
  /\ pc \in {"check", "sleepy", "asleep"} => end_exposure <= opened + exposure_time + Latency
  /\ pc = "check" => time <= latest + 3 * Latency + lag
  /\ pc = "sleepy" =>
       /\ end_exposure - remaining <= time
       /\ time <= latest + 4 * Latency + lag
       /\ remaining > 0 => time <= end_exposure - remaining + lag
  /\ pc = "asleep" =>
       /\ remaining < Checkpoint => wake = end_exposure
       /\ remaining > 0 => wake <= end_exposure + Latency /\ time <= end_exposure + Latency + lag
       /\ remaining <= 0 => wake <= time /\ time <= latest + 5 * Latency + lag
  /\ pc = "trigger2" => time <= latest + 6 * Latency + lag

\* And the shots.
ShotOnTime ==
  /\ pc \notin {"loop", "ended"} => next_exposure = began + interval
  /\ pc = "register" => time <= began + lasted + lag
  /\ pc = "waiting" => time <= Larger(next_exposure, began + lasted + Latency) + lag
  /\ pc = "loop" /\ i > 0 => time <= began + Larger(interval, lasted) + 2 * Latency + lag

IInv ==
  /\ TypeOK /\ Past
  /\ FarEnough /\ ExposureHeld /\ StartsApart
  /\ leaps = 0 => ExposureOnTime /\ ShotOnTime

\* What the arithmetic needs of the constants and the types.
LEMMA Numbers ==
  ASSUME TypeOK
  PROVE  /\ interval \in Int /\ exposure_time \in Int
         /\ time \in Nat /\ offset \in Int /\ lag \in Nat /\ i \in Nat
         /\ next_exposure \in Int /\ end_exposure \in Int /\ remaining \in Int /\ wake \in Int
         /\ began \in Nat /\ opened \in Nat /\ lasted \in Nat
         /\ forth \in Nat /\ leaps \in Nat
         /\ Latency \in Nat /\ Answer \in Nat /\ Checkpoint \in Nat /\ NumShots \in Int
         /\ MaxLeaps \in Nat
BY TimingAssumption DEF TypeOK, Larger

\* The initial states satisfy the invariant.
LEMMA InvInit == Init => IInv
<1> SUFFICES ASSUME Init
             PROVE  IInv
  OBVIOUS
<1> USE TimingAssumption DEF Init
<1>1. abort_cond \in BOOLEAN
  OBVIOUS
<1>2. TypeOK
  BY <1>1 DEF TypeOK, RunPoint, Larger
<1>3. Past /\ FarEnough /\ ExposureHeld /\ StartsApart
  BY DEF Past, FarEnough, ExposureHeld, StartsApart, Patience
<1>4. ExposureOnTime /\ ShotOnTime
  BY DEF ExposureOnTime, ShotOnTime
<1> QED
  BY <1>2, <1>3, <1>4 DEF IInv

\* A step of run().
LEMMA RunStep ==
  ASSUME IInv, Run
  PROVE  IInv'
<1> USE Numbers, TimingAssumption
    DEF IInv, Goes, settings, deadlines, shot, clock, now
<1>1. CASE Start
  <2> USE <1>1 DEF Start
  <2>0. abort_cond' \in BOOLEAN
    BY DEF TypeOK
  <2>1. TypeOK'
    BY <2>0 DEF TypeOK, RunPoint, Larger
  <2>2. Past'
    BY DEF Past, Patience
  <2>3. FarEnough' /\ ExposureHeld' /\ StartsApart'
    BY DEF Past, FarEnough, ExposureHeld, StartsApart
  <2>4. leaps' = 0 => ExposureOnTime'
    BY DEF Past, ExposureOnTime, Patience, Larger
  <2>5. leaps' = 0 => ShotOnTime'
    BY DEF Past, ShotOnTime, Patience, Larger
  <2> QED
    BY <2>1, <2>2, <2>3, <2>4, <2>5
<1>2. CASE RunEnds
  <2> USE <1>2 DEF RunEnds
  <2>0. abort_cond' \in BOOLEAN
    BY DEF TypeOK
  <2>1. TypeOK'
    BY <2>0 DEF TypeOK, RunPoint, Larger
  <2>2. Past'
    BY DEF Past, Patience
  <2>3. FarEnough' /\ ExposureHeld' /\ StartsApart'
    BY DEF Past, FarEnough, ExposureHeld, StartsApart
  <2>4. leaps' = 0 => ExposureOnTime'
    BY DEF Past, ExposureOnTime, Patience, Larger
  <2>5. leaps' = 0 => ShotOnTime'
    BY DEF Past, ShotOnTime, Patience, Larger
  <2> QED
    BY <2>1, <2>2, <2>3, <2>4, <2>5
<1>3. CASE WiredCapture
  <2> USE <1>3 DEF WiredCapture
  <2>0. abort_cond' \in BOOLEAN
    BY DEF TypeOK
  <2>a. lasted' \in Nat
    BY DEF Past
  <2>1. TypeOK'
    BY <2>0, <2>a DEF TypeOK, RunPoint, Larger
  <2>2. Past'
    BY DEF Past, Patience
  <2>3. FarEnough' /\ ExposureHeld' /\ StartsApart'
    BY DEF Past, FarEnough, ExposureHeld, StartsApart
  <2>4. leaps' = 0 => ExposureOnTime'
    BY DEF Past, ExposureOnTime, Patience, Larger
  <2>5. leaps' = 0 => ShotOnTime'
    BY DEF Past, ShotOnTime, Patience, Larger
  <2> QED
    BY <2>1, <2>2, <2>3, <2>4, <2>5
<1>4. CASE InBulb
  <2> USE <1>4 DEF InBulb
  <2>0. abort_cond' \in BOOLEAN
    BY DEF TypeOK
  <2>1. TypeOK'
    BY <2>0 DEF TypeOK, RunPoint, Larger
  <2>2. Past'
    BY DEF Past, Patience
  <2>3. FarEnough' /\ ExposureHeld' /\ StartsApart'
    BY DEF Past, FarEnough, ExposureHeld, StartsApart
  <2>4. leaps' = 0 => ExposureOnTime'
    BY DEF Past, ExposureOnTime, Patience, Larger
  <2>5. leaps' = 0 => ShotOnTime'
    BY DEF Past, ShotOnTime, Patience, Larger
  <2> QED
    BY <2>1, <2>2, <2>3, <2>4, <2>5
<1>5. CASE CaptureFails
  <2> USE <1>5 DEF CaptureFails
  <2>0. abort_cond' \in BOOLEAN
    BY DEF TypeOK
  <2>1. TypeOK'
    BY <2>0 DEF TypeOK, RunPoint, Larger
  <2>2. Past'
    BY DEF Past, Patience
  <2>3. FarEnough' /\ ExposureHeld' /\ StartsApart'
    BY DEF Past, FarEnough, ExposureHeld, StartsApart
  <2>4. leaps' = 0 => ExposureOnTime'
    BY DEF Past, ExposureOnTime, Patience, Larger
  <2>5. leaps' = 0 => ShotOnTime'
    BY DEF Past, ShotOnTime, Patience, Larger
  <2> QED
    BY <2>1, <2>2, <2>3, <2>4, <2>5
<1>6. CASE CaptureReturns
  <2> USE <1>6 DEF CaptureReturns
  <2>0. abort_cond' \in BOOLEAN
    BY DEF TypeOK
  <2>a. lasted' \in Nat
    BY DEF Past
  <2>1. TypeOK'
    BY <2>0, <2>a DEF TypeOK, RunPoint, Larger
  <2>2. Past'
    BY DEF Past, Patience
  <2>3. FarEnough' /\ ExposureHeld' /\ StartsApart'
    BY DEF Past, FarEnough, ExposureHeld, StartsApart
  <2>4. leaps' = 0 => ExposureOnTime'
    BY DEF Past, ExposureOnTime, Patience, Larger
  <2>5. leaps' = 0 => ShotOnTime'
    BY DEF Past, ShotOnTime, Patience, Larger
  <2> QED
    BY <2>1, <2>2, <2>3, <2>4, <2>5
<1>7. CASE Register
  <2> USE <1>7 DEF Register
  <2>0. abort_cond' \in BOOLEAN
    BY DEF TypeOK
  <2>1. TypeOK'
    BY <2>0 DEF TypeOK, RunPoint, Larger
  <2>2. Past'
    BY DEF Past, Patience
  <2>3. FarEnough' /\ ExposureHeld' /\ StartsApart'
    BY DEF Past, FarEnough, ExposureHeld, StartsApart
  <2>4. leaps' = 0 => ExposureOnTime'
    BY DEF Past, ExposureOnTime, Patience, Larger
  <2>5. leaps' = 0 => ShotOnTime'
    BY DEF Past, ShotOnTime, Patience, Larger
  <2> QED
    BY <2>1, <2>2, <2>3, <2>4, <2>5
<1>8. CASE WaitEnds
  <2> USE <1>8 DEF WaitEnds
  <2>0. abort_cond' \in BOOLEAN
    BY DEF TypeOK
  <2>1. TypeOK'
    BY <2>0 DEF TypeOK, RunPoint, Larger
  <2>2. Past'
    BY DEF Past, Patience
  <2>3. FarEnough' /\ ExposureHeld' /\ StartsApart'
    BY DEF Past, FarEnough, ExposureHeld, StartsApart
  <2>4. leaps' = 0 => ExposureOnTime'
    BY DEF Past, ExposureOnTime, Patience, Larger
  <2>5. leaps' = 0 => ShotOnTime'
    BY DEF Past, ShotOnTime, Patience, Larger
  <2> QED
    BY <2>1, <2>2, <2>3, <2>4, <2>5
<1> QED
  BY <1>1, <1>2, <1>3, <1>4, <1>5, <1>6, <1>7, <1>8 DEF Run

\* A step of remoteCapture().
LEMMA RemoteCaptureStep ==
  ASSUME IInv, RemoteCapture
  PROVE  IInv'
<1> USE Numbers, TimingAssumption
    DEF IInv, Goes, settings, deadlines, shot, clock, now
<1>1. CASE Trigger1
  <2> USE <1>1 DEF Trigger1
  <2>0. abort_cond' \in BOOLEAN
    BY DEF TypeOK
  <2>1. TypeOK'
    BY <2>0 DEF TypeOK, RunPoint, Larger
  <2>2. Past'
    BY DEF Past, Patience
  <2>3. FarEnough' /\ ExposureHeld' /\ StartsApart'
    BY DEF Past, FarEnough, ExposureHeld, StartsApart
  <2>4. leaps' = 0 => ExposureOnTime'
    BY DEF Past, ExposureOnTime, Patience, Larger
  <2>5. leaps' = 0 => ShotOnTime'
    BY DEF Past, ShotOnTime, Patience, Larger
  <2> QED
    BY <2>1, <2>2, <2>3, <2>4, <2>5
<1>2. CASE Aim
  <2> USE <1>2 DEF Aim
  <2>0. abort_cond' \in BOOLEAN
    BY DEF TypeOK
  <2>1. TypeOK'
    BY <2>0 DEF TypeOK, RunPoint, Larger
  <2>2. Past'
    BY DEF Past, Patience
  <2>3. FarEnough' /\ ExposureHeld' /\ StartsApart'
    BY DEF Past, FarEnough, ExposureHeld, StartsApart
  <2>4. leaps' = 0 => ExposureOnTime'
    BY DEF Past, ExposureOnTime, Patience, Larger
  <2>5. leaps' = 0 => ShotOnTime'
    BY DEF Past, ShotOnTime, Patience, Larger
  <2> QED
    BY <2>1, <2>2, <2>3, <2>4, <2>5
<1>3. CASE Check
  <2> USE <1>3 DEF Check
  <2>0. abort_cond' \in BOOLEAN
    BY DEF TypeOK
  <2>1. TypeOK'
    BY <2>0 DEF TypeOK, RunPoint, Larger
  <2>2. Past'
    BY DEF Past, Patience
  <2>3. FarEnough' /\ ExposureHeld' /\ StartsApart'
    BY DEF Past, FarEnough, ExposureHeld, StartsApart
  <2>4. leaps' = 0 => ExposureOnTime'
    BY DEF Past, ExposureOnTime, Patience, Larger
  <2>5. leaps' = 0 => ShotOnTime'
    BY DEF Past, ShotOnTime, Patience, Larger
  <2> QED
    BY <2>1, <2>2, <2>3, <2>4, <2>5
<1>4. CASE StartSleep
  <2> USE <1>4 DEF StartSleep
  <2>0. abort_cond' \in BOOLEAN
    BY DEF TypeOK
  <2>1. TypeOK'
    BY <2>0 DEF TypeOK, RunPoint, Larger
  <2>2. Past'
    BY DEF Past, Patience
  <2>3. FarEnough' /\ ExposureHeld' /\ StartsApart'
    BY DEF Past, FarEnough, ExposureHeld, StartsApart
  <2>4. leaps' = 0 => ExposureOnTime'
    BY DEF Past, ExposureOnTime, Patience, Larger
  <2>5. leaps' = 0 => ShotOnTime'
    BY DEF Past, ShotOnTime, Patience, Larger
  <2> QED
    BY <2>1, <2>2, <2>3, <2>4, <2>5
<1>5. CASE Sleep
  <2> USE <1>5 DEF Sleep
  <2>0. abort_cond' \in BOOLEAN
    BY DEF TypeOK
  <2>1. TypeOK'
    BY <2>0 DEF TypeOK, RunPoint, Larger
  <2>2. Past'
    BY DEF Past, Patience
  <2>3. FarEnough' /\ ExposureHeld' /\ StartsApart'
    BY DEF Past, FarEnough, ExposureHeld, StartsApart
  <2>4. leaps' = 0 => ExposureOnTime'
    BY DEF Past, ExposureOnTime, Patience, Larger
  <2>5. leaps' = 0 => ShotOnTime'
    BY DEF Past, ShotOnTime, Patience, Larger
  <2> QED
    BY <2>1, <2>2, <2>3, <2>4, <2>5
<1>6. CASE Trigger2
  <2> USE <1>6 DEF Trigger2
  <2>0. abort_cond' \in BOOLEAN
    BY DEF TypeOK
  <2>1. TypeOK'
    BY <2>0 DEF TypeOK, RunPoint, Larger
  <2>2. Past'
    BY DEF Past, Patience
  <2>3. FarEnough' /\ ExposureHeld' /\ StartsApart'
    BY DEF Past, FarEnough, ExposureHeld, StartsApart
  <2>4. leaps' = 0 => ExposureOnTime'
    BY DEF Past, ExposureOnTime, Patience, Larger
  <2>5. leaps' = 0 => ShotOnTime'
    BY DEF Past, ShotOnTime, Patience, Larger
  <2> QED
    BY <2>1, <2>2, <2>3, <2>4, <2>5
<1>7. CASE SleepAgain
  <2> USE <1>7 DEF SleepAgain
  <2>0. abort_cond' \in BOOLEAN
    BY DEF TypeOK
  <2>1. TypeOK'
    BY <2>0 DEF TypeOK, RunPoint, Larger
  <2>2. Past'
    BY DEF Past, Patience
  <2>3. FarEnough' /\ ExposureHeld' /\ StartsApart'
    BY DEF Past, FarEnough, ExposureHeld, StartsApart
  <2>4. leaps' = 0 => ExposureOnTime'
    BY DEF Past, ExposureOnTime, Patience, Larger
  <2>5. leaps' = 0 => ShotOnTime'
    BY DEF Past, ShotOnTime, Patience, Larger
  <2> QED
    BY <2>1, <2>2, <2>3, <2>4, <2>5
<1> QED
  BY <1>1, <1>2, <1>3, <1>4, <1>5, <1>6, <1>7 DEF RemoteCapture

\* Time passes, the clock is set, or the run is aborted.
LEMMA WorldStep ==
  ASSUME IInv, Tick \/ (\E d \in Leaps : Leap(d)) \/ Abort
  PROVE  IInv'
<1> USE Numbers, TimingAssumption
    DEF IInv, settings, deadlines, shot, clock, now
<1>1. CASE Tick
  <2> USE <1>1 DEF Tick
  <2>0. abort_cond' \in BOOLEAN
    BY DEF TypeOK
  <2>1. TypeOK'
    BY <2>0 DEF TypeOK, RunPoint, Larger, Patience
  <2>2. Past'
    BY DEF Past, Patience, CanGoOn
  <2>3. FarEnough' /\ ExposureHeld' /\ StartsApart'
    BY DEF Past, FarEnough, ExposureHeld, StartsApart
  <2>4. leaps' = 0 => ExposureOnTime'
    BY DEF Past, ExposureOnTime, Patience, Larger, CanGoOn
  <2>5. leaps' = 0 => ShotOnTime'
    BY DEF Past, ShotOnTime, Patience, Larger, CanGoOn
  <2> QED
    BY <2>1, <2>2, <2>3, <2>4, <2>5
<1>2. CASE Abort
  <2> USE <1>2 DEF Abort
  <2>0. abort_cond' \in BOOLEAN
    BY DEF TypeOK
  <2>1. TypeOK'
    BY <2>0 DEF TypeOK, RunPoint, Larger
  <2>2. Past'
    BY DEF Past, Patience
  <2>3. FarEnough' /\ ExposureHeld' /\ StartsApart'
    BY DEF Past, FarEnough, ExposureHeld, StartsApart
  <2>4. leaps' = 0 => ExposureOnTime'
    BY DEF Past, ExposureOnTime, Patience, Larger
  <2>5. leaps' = 0 => ShotOnTime'
    BY DEF Past, ShotOnTime, Patience, Larger
  <2> QED
    BY <2>1, <2>2, <2>3, <2>4, <2>5
<1>3. CASE \E d \in Leaps : Leap(d)
  <2> USE <1>3 DEF Leap
  <2>0. abort_cond' \in BOOLEAN
    BY DEF TypeOK
  <2>1. TypeOK'
    BY <2>0 DEF TypeOK, RunPoint, Larger
  <2>2. Past'
    BY DEF Past, Patience
  <2>3. FarEnough' /\ ExposureHeld' /\ StartsApart'
    BY DEF Past, FarEnough, ExposureHeld, StartsApart
  <2>4. leaps' = 0 => ExposureOnTime'
    BY DEF Past, ExposureOnTime, Patience, Larger
  <2>5. leaps' = 0 => ShotOnTime'
    BY DEF Past, ShotOnTime, Patience, Larger
  <2> QED
    BY <2>1, <2>2, <2>3, <2>4, <2>5
<1> QED
  BY <1>1, <1>2, <1>3

\* Every step preserves the invariant.
LEMMA InvStep ==
  ASSUME IInv, [Next]_vars
  PROVE  IInv'
<1>1. CASE UNCHANGED vars
  BY <1>1
     DEF vars, settings, deadlines, shot, clock, now, IInv, TypeOK, Past, Patience, FarEnough,
         ExposureHeld, StartsApart, ExposureOnTime, ShotOnTime
<1> QED
  BY <1>1, RunStep, RemoteCaptureStep, WorldStep DEF Next

\* The invariant holds in every reachable state.
THEOREM Invariance == Spec => []IInv
BY InvInit, InvStep, PTL DEF Spec

\* Every variable keeps its type.
THEOREM TypeCorrect == Spec => []TypeOK
<1>1. IInv => TypeOK
  BY DEF IInv
<1> QED
  BY <1>1, Invariance, PTL

\* No exposure is cut short.
THEOREM ExposuresHold == Spec => []ExposureHeld
<1>1. IInv => ExposureHeld
  BY DEF IInv
<1> QED
  BY <1>1, Invariance, PTL

\* No exposure is prolonged by its checkpoints.
THEOREM ExposuresEnd == Spec => []ExposureEnds
<1>1. IInv => ExposureEnds
  BY Numbers DEF IInv, Past, Patience, ExposureOnTime, ExposureEnds, Larger
<1> QED
  BY <1>1, Invariance, PTL

\* No shot starts before its interval has passed.
THEOREM ShotsApart == Spec => []StartsApart
<1>1. IInv => StartsApart
  BY DEF IInv
<1> QED
  BY <1>1, Invariance, PTL

\* Nor later than it and the last capture allow.
THEOREM ShotsPunctual == Spec => []StartsPunctual
<1>1. IInv => StartsPunctual
  BY Numbers DEF IInv, Past, Patience, ShotOnTime, StartsPunctual, Larger
<1> QED
  BY <1>1, Invariance, PTL
=============================================================================
