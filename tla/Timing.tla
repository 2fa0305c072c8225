------------------------------- MODULE Timing -------------------------------
(***************************************************************************)
(* The clock arithmetic of Intervalometer::run() and, inside it, of         *)
(* CameraWrapper::remoteCapture(): when the next shot starts and how long a  *)
(* BULB exposure lasts.  Deadlines are points of system_clock, which the     *)
(* operating system sets forth and back while the program runs (a Raspberry  *)
(* Pi without a clock of its own does so when the network comes up);         *)
(* sleep_for() and sleep_until() sleep for a span of real time, and some     *)
(* versions of sleep_until() again if the clock says so; wait_until() waits  *)
(* for the clock.                                                           *)
(*                                                                         *)
(* Time is counted in ticks.  A thread that can go on does so within         *)
(* Latency, and the camera answers within Answer: only the upper bounds rest *)
(* on that, and it makes the state space finite.                             *)
(***************************************************************************)
EXTENDS Integers

CONSTANTS
  Intervals, Exposures,   \* interval and exposure_time: any int of a command
  NumShots,               \* num_shots
  Checkpoint,             \* checkpoint_interval
  Latency,
  Answer,
  Leaps,                  \* how far the clock is set at a time
  MaxLeaps                \* bound: how often it is set

ASSUME TimingAssumption ==
  /\ Intervals \subseteq Int /\ Exposures \subseteq Int /\ Leaps \subseteq Int
  /\ NumShots \in Int
  /\ Checkpoint \in Nat \ {0} /\ Latency \in Nat /\ Answer \in Nat
  /\ MaxLeaps \in Nat

VARIABLES
  interval, exposure_time,   \* constants of the function object
  time,            \* real time
  offset,          \* how far system_clock is ahead of it
  pc,              \* where the run's thread is
  lag,             \* since when it could go on
  i,
  next_exposure,   \* points of system_clock
  end_exposure,
  remaining,       \* how long the exposure still was at the last look at the clock
  wake,            \* real time at which the sleep is over
  abort_cond,
  began,           \* history: real time at which this shot was started
  opened,          \* history: and its shutter opened
  lasted,          \* history: how long its capture took
  forth,           \* history: how far the clock was set forth during it
  leaps            \* history: how often the clock was set

settings == <<interval, exposure_time>>
deadlines == <<next_exposure, end_exposure, remaining, wake>>
shot == <<began, opened, lasted>>
clock == <<offset, forth, leaps>>
vars == <<settings, time, pc, lag, i, deadlines, abort_cond, shot, clock>>

\* Clock::now().
now == time + offset

RunPoint == {"loop", "asking", "trigger1", "aim", "check", "sleepy", "asleep", "trigger2",
             "writing", "register", "waiting", "ended"}

Init ==
  /\ interval \in Intervals /\ exposure_time \in Exposures
  /\ time = 0 /\ offset = 0
  /\ pc = "loop" /\ lag = 0 /\ i = 0
  /\ next_exposure = 0 /\ end_exposure = 0 /\ remaining = 0 /\ wake = 0
  /\ abort_cond = FALSE
  /\ began = 0 /\ opened = 0 /\ lasted = 0
  /\ forth = 0 /\ leaps = 0

----------------------------------------------------------------------------
(* Time.                                                                   *)

\* How long the thread may stay where it is once it could go on.
Patience == CASE pc \in {"asking", "writing"} -> Answer
              [] pc = "ended" -> 0
              [] OTHER -> Latency

\* It cannot before its sleep is over, and need not before the deadline of its wait.
CanGoOn == /\ pc = "asleep" => time >= wake
           /\ pc = "waiting" => now >= next_exposure

Tick ==
  /\ CanGoOn => lag < Patience
  /\ time' = time + 1
  /\ lag' = IF CanGoOn THEN lag + 1 ELSE 0
  /\ UNCHANGED <<settings, pc, i, deadlines, abort_cond, shot, clock>>

\* The clock is set.
Leap(d) ==
  /\ pc # "ended"
  /\ leaps < MaxLeaps
  /\ leaps' = leaps + 1
  /\ offset' = offset + d
  /\ forth' = IF d > 0 THEN forth + d ELSE forth
  /\ UNCHANGED <<settings, time, pc, lag, i, deadlines, abort_cond, shot>>

\* abort(), whose notification may be lost: the wait goes on then.
Abort ==
  /\ pc # "ended"
  /\ abort_cond' = TRUE
  /\ UNCHANGED <<settings, time, pc, lag, i, deadlines, shot, clock>>

Goes(from, to) ==
  /\ pc = from
  /\ pc' = to
  /\ lag' = 0
  /\ UNCHANGED <<settings, time, abort_cond>>

----------------------------------------------------------------------------
(* run().                                                                  *)

\* The loop condition holds: start = now, next_exposure = start + interval.
Start ==
  /\ Goes("loop", "asking")
  /\ ~abort_cond /\ (i < NumShots \/ NumShots = -1)
  /\ next_exposure' = now + interval
  /\ i' = i + 1
  /\ began' = time /\ forth' = 0
  /\ UNCHANGED <<end_exposure, remaining, wake, opened, lasted, offset, leaps>>

RunEnds ==
  /\ Goes("loop", "ended")
  /\ abort_cond \/ ~(i < NumShots \/ NumShots = -1)
  /\ UNCHANGED <<i, deadlines, shot, clock>>

\* The camera is not in BULB mode: it times the exposure itself.
WiredCapture ==
  /\ Goes("asking", "register")
  /\ lasted' = time - began
  /\ UNCHANGED <<i, deadlines, began, opened, clock>>

InBulb ==
  /\ Goes("asking", "trigger1")
  /\ UNCHANGED <<i, deadlines, shot, clock>>

CaptureFails ==
  /\ pc \in {"asking", "writing"}
  /\ Goes(pc, "ended")
  /\ UNCHANGED <<i, deadlines, shot, clock>>

\* The picture is there (and downloaded, if asked for).
CaptureReturns ==
  /\ Goes("writing", "register")
  /\ lasted' = time - began
  /\ UNCHANGED <<i, deadlines, began, opened, clock>>

\* Fault: the interval is counted from the end of the capture.
RegisterLate ==
  /\ Goes("register", "waiting")
  /\ next_exposure' = now + interval
  /\ UNCHANGED <<i, end_exposure, remaining, wake, shot, clock>>

\* The statistics, and the first look at the deadline.
Register ==
  /\ Goes("register", "waiting")
  /\ UNCHANGED <<i, deadlines, shot, clock>>

\* Fault: any wakeup ends the wait.
WaitEndsEarly ==
  /\ Goes("waiting", "loop")
  /\ UNCHANGED <<i, deadlines, shot, clock>>

\* while (!abort_cond) around wait_until(): spurious wakeups go round again.
WaitEnds ==
  /\ Goes("waiting", "loop")
  /\ now >= next_exposure \/ abort_cond
  /\ UNCHANGED <<i, deadlines, shot, clock>>

----------------------------------------------------------------------------
(* remoteCapture().                                                        *)

Trigger1 ==
  /\ Goes("trigger1", "aim")
  /\ opened' = time
  /\ UNCHANGED <<i, deadlines, began, lasted, clock>>

Aim ==
  /\ Goes("aim", "check")
  /\ end_exposure' = now + exposure_time
  /\ UNCHANGED <<i, next_exposure, remaining, wake, shot, clock>>

\* now is read, and remaining is what it leaves.
Check ==
  /\ Goes("check", "sleepy")
  /\ remaining' = end_exposure - now
  /\ UNCHANGED <<i, next_exposure, end_exposure, wake, shot, clock>>

\* Fault: every sleep is a whole checkpoint.
StartWholeSleep ==
  /\ Goes("sleepy", "asleep")
  /\ wake' = time + Checkpoint
  /\ UNCHANGED <<i, next_exposure, end_exposure, remaining, shot, clock>>

\* One log line later.  sleep_until() looks at the clock itself.
StartSleep ==
  /\ Goes("sleepy", "asleep")
  /\ wake' = time + (IF remaining < Checkpoint THEN end_exposure - now ELSE Checkpoint)
  /\ UNCHANGED <<i, next_exposure, end_exposure, remaining, shot, clock>>

\* sleep_until() finds the clock set back meanwhile; there are versions of it that do
\* not look.
SleepAgain ==
  /\ Goes("asleep", "sleepy")
  /\ time >= wake
  /\ remaining < Checkpoint /\ now < end_exposure
  /\ UNCHANGED <<i, deadlines, shot, clock>>

\* Fault: the loop ends after its first sleep.
SleepOnce ==
  /\ Goes("asleep", "trigger2")
  /\ time >= wake
  /\ UNCHANGED <<i, deadlines, shot, clock>>

\* The sleep is over.  The loop goes round if there was something left before it.
Sleep ==
  /\ Goes("asleep", IF remaining > 0 THEN "check" ELSE "trigger2")
  /\ time >= wake
  /\ UNCHANGED <<i, deadlines, shot, clock>>

Trigger2 ==
  /\ Goes("trigger2", "writing")
  /\ UNCHANGED <<i, deadlines, shot, clock>>

----------------------------------------------------------------------------

RemoteCapture ==
  \/ Trigger1 \/ Aim \/ Check \/ StartSleep \/ SleepAgain \/ Sleep \/ Trigger2

Run ==
  \/ Start \/ RunEnds \/ WiredCapture \/ InBulb \/ CaptureFails \/ CaptureReturns
  \/ Register \/ WaitEnds

Next ==
  \/ Tick \/ (\E d \in Leaps : Leap(d)) \/ Abort
  \/ Run \/ RemoteCapture

Spec == Init /\ [][Next]_vars

----------------------------------------------------------------------------
(* Properties.                                                             *)

Larger(a, b) == IF a > b THEN a ELSE b

\* Every variable keeps its type, and no shot is started beyond those asked for.
TypeOK ==
  /\ interval \in Intervals /\ exposure_time \in Exposures
  /\ time \in Nat /\ offset \in Int
  /\ pc \in RunPoint
  /\ lag \in 0 .. Larger(Latency, Answer)
  /\ i \in Nat /\ (NumShots # -1 /\ i > 0 => i <= NumShots)
  /\ next_exposure \in Int /\ end_exposure \in Int /\ remaining \in Int /\ wake \in Int
  /\ abort_cond \in BOOLEAN
  /\ began \in Nat /\ opened \in Nat /\ lasted \in Nat
  /\ forth \in Nat /\ leaps \in 0 .. MaxLeaps

\* A BULB exposure is never cut short: not by the checkpoints it is slept in, nor by
\* a clock that is set back; one that is set forth takes away no more than its leap.
ExposureHeld == pc = "trigger2" => time - opened >= exposure_time - forth

\* Nor does it last longer than asked for but by the delays of a thread: seven, however
\* many checkpoints it was slept in.
ExposureEnds ==
  pc = "trigger2" /\ leaps = 0 => time - opened <= Larger(exposure_time, 0) + 7 * Latency

\* A shot is not started before its interval has passed, whatever wakes the wait, but
\* for the leaps of the clock.
StartsApart == pc = "loop" /\ i > 0 /\ ~abort_cond => time - began >= interval - forth

\* On a clock nobody sets it is started when both the interval and the last capture
\* are over.
StartsPunctual ==
  pc = "loop" /\ i > 0 /\ leaps = 0 =>
    time - began <= Larger(interval, lasted) + 3 * Latency
=============================================================================
