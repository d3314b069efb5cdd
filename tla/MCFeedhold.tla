----------------------------- MODULE MCFeedhold -----------------------------
(* Feedhold for TLC.  It needs no definitions; the properties below are       *)
(* suggested by comments, the code does not have them (README).               *)
EXTENDS Feedhold

\* "(no-cycle) ! No action. Feedhold is not run (nothing to hold!)"
\* (cycle_feedhold.cpp:321): the main loop starts a hold only in a cycle.
HoldNeedsCycle ==
  [][at = "input" /\ hold[1] = "OFF" /\ hold'[1] # "OFF" => machine[1] = "CYCLE"]_vars

\* "stops motion in p2 and flushes the p2 planner. Control remains in p2."
\* (cycle_feedhold.cpp:266): of a hold of the moves of a hold, while it stops
\* them.
NestedHoldStaysInP2 == [][cm = 2 /\ hold[2] \in Stopping => cm' = 2]_vars

\* "FEEDHOLD_HOLD - Feedhold stable state. Achieved when machine has stopped in
\* the hold." (cycle_feedhold.cpp:276): nothing plays in HOLD.
HeldIsStill == hold[1] = "HOLD" => ~ playing

\* "_run_job_kill() should not be called until motion has stopped."
\* (cycle_feedhold.cpp:577)
KilledAtRest == [][job_kill_state /\ ~ job_kill_state' /\ machine[1] # "ALARM"
                   => ~ playing]_vars

\* "(2b) Job kill from pending hold: wait for hold to complete", "(2c) Job kill
\* from finished hold: flush, perform PROGRAM_END" (cycle_feedhold.cpp:559):
\* once a job is killed, its hold is not started again.
KilledStaysKilled ==
  [][promise = "kill" /\ promise' = "kill" /\ ~ job_kill_state /\ hold[1] = "OFF"
     => hold'[1] = "OFF"]_vars

\* "(in-cycle) !~% Same as above (this one's an anomaly, but the intent would
\* be to Q flush)" (cycle_feedhold.cpp:331): a flush drops the job it was typed
\* for, also in the moves of a restart.
FlushAlwaysDropsTheJob ==
  [][queue_flush_state /\ hold[1] # "OFF" /\ hold'[1] = "OFF" => Moves(q'[1]) = 0]_vars

\* "An ALARM sets the ALARM machine state" (alarm.cpp:146): also one that finds
\* a hold.
AlarmIsAlwaysEntered ==
  promise = "alarm" /\ hold[1] # "OFF" ~> machine[1] = "ALARM" \/ promise # "alarm"
=============================================================================
