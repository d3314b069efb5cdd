------------------------- MODULE MCMotionPipeline -------------------------
(* The pipeline for TLC.  It needs no definitions; the two properties below *)
(* are suggested by comments, the code does not have them (README).         *)
EXTENDS MotionPipeline

\* "It assumes the planner block (mr->p) has been fully planned"
\* (plan_exec.cpp:368) for the move that starts.
StartsWithItsRamps ==
  [][segments = 0 /\ segments' > 0 => ramps = 1]_vars
\* "You can count on LOAD, EXEC, PREP and PLAN not stepping on each other's
\* variables" (stepper.h:119): what exec hands over is what it prepared.
HandsOverWhatItPrepared == execAt = "handover" => prep.what # "null"
===========================================================================
