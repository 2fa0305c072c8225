------------------------------ MODULE Session ------------------------------
(***************************************************************************)
(* What the remote user of the camera controller is promised, without its  *)
(* threads: one camera, at most one configured job on it, at most one      *)
(* exposure at a time.  A job is run at most once and takes no more        *)
(* exposures than it was configured with; test exposures are taken only    *)
(* while no run is in progress; losing power forgets everything.           *)
(*                                                                         *)
(* FunctionControl implements this specification.                          *)
(***************************************************************************)
EXTENDS Integers

CONSTANTS Shots    \* the exposure counts a job may be configured with

VARIABLES
  phase,     \* "unset": no job; "set": a job, at rest; "running"; "testing"
  ran,       \* the job has been started once
  budget,    \* exposures the job may still begin
  exposing   \* the camera is taking an exposure

vars == <<phase, ran, budget, exposing>>

Endless == -1

Init ==
  /\ phase = "unset"
  /\ ran = FALSE
  /\ budget = 0
  /\ exposing = FALSE

Configure(n) ==
  /\ phase \in {"unset", "set"}
  /\ phase' = "set"
  /\ ran' = FALSE
  /\ budget' = n
  /\ UNCHANGED exposing

StartRun ==
  /\ phase = "set"
  /\ ~ran
  /\ phase' = "running"
  /\ ran' = TRUE
  /\ UNCHANGED <<budget, exposing>>

RunExposure ==
  /\ phase = "running"
  /\ ~exposing
  /\ budget = Endless \/ budget > 0
  /\ exposing' = TRUE
  /\ budget' = IF budget = Endless THEN Endless ELSE budget - 1
  /\ UNCHANGED <<phase, ran>>

TestExposure ==
  /\ phase = "testing"
  /\ ~exposing
  /\ exposing' = TRUE
  /\ UNCHANGED <<phase, ran, budget>>

EndExposure ==
  /\ exposing
  /\ exposing' = FALSE
  /\ UNCHANGED <<phase, ran, budget>>

StartTest ==
  /\ phase = "set"
  /\ phase' = "testing"
  /\ UNCHANGED <<ran, budget, exposing>>

\* A run or a test ends between exposures, never during one.
Rest ==
  /\ phase \in {"running", "testing"}
  /\ ~exposing
  /\ phase' = "set"
  /\ UNCHANGED <<ran, budget, exposing>>

PowerLoss ==
  /\ phase' = "unset"
  /\ ran' = FALSE
  /\ budget' = 0
  /\ exposing' = FALSE

Next ==
  \/ \E n \in Shots : Configure(n)
  \/ StartRun
  \/ RunExposure
  \/ TestExposure
  \/ EndExposure
  \/ StartTest
  \/ Rest
  \/ PowerLoss

Spec == Init /\ [][Next]_vars
=============================================================================
