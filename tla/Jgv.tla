-------------------------------- MODULE Jgv --------------------------------
(***************************************************************************)
(* Velocity-mode jogging (cycle_jgv.cpp): a host sends velocities, the     *)
(* cycle turns them into short moves that it keeps queueing until the      *)
(* velocity is back at zero or the host has been silent for too long.      *)
(*                                                                         *)
(* The main loop's pass is cut into the planner's callback and the cycle's;*)
(* messages and keys are served before the planner's.  A feedhold is taken *)
(* as a whole here (its steps are Feedhold's matter): it stops the motors, *)
(* swaps in the second planner, and leaves with a resume or a flush.       *)
(*                                                                         *)
(* One axis.  A velocity is a number of velocity steps, a position a       *)
(* number of the distances that one such step makes in half a segment; it  *)
(* is followed only where there are soft limits.  Of the planner's and the *)
(* cycle's positions the model keeps whether they agree.                   *)
(***************************************************************************)
EXTENDS Integers, Sequences

CONSTANTS MaxSpeed,      \* velocities are -MaxSpeed .. MaxSpeed
          Orders,        \* those that the host sends
          Ramp,          \* max_dv, the change of velocity in a segment
          Positions,     \* positions are 0 .. Positions - 1
          Limits,        \* are there soft limits?  If not, the axis turns
          Depth,         \* JGV_TARGET_QUEUE_DEPTH
          FullAt,        \* mp_planner_is_full() once so many are queued
          WatchdogTime,  \* watchdog_ms, in ticks of the clock
          BlockTimeout,  \* BLOCK_TIMEOUT_MS
          StartupPace,   \* JGV_STARTUP_PACE_MS
          PassTime,      \* bound on the ticks of a pass between the planner's
                         \* callback and the cycle's
          MaxInterruptions  \* bound on the holds and homings

ASSUME SpeedAssumption ==
  /\ MaxSpeed \in Nat \ {0} /\ Ramp \in Nat \ {0} /\ Orders \subseteq -MaxSpeed .. MaxSpeed
ASSUME PositionAssumption == Positions \in Nat \ {0} /\ Limits \in BOOLEAN
ASSUME DepthAssumption == Depth \in Nat \ {0} /\ FullAt \in Nat /\ FullAt > Depth
ASSUME TimeAssumption ==
  /\ WatchdogTime \in Nat /\ BlockTimeout \in Nat /\ PassTime \in Nat
  /\ StartupPace \in Nat /\ StartupPace > BlockTimeout
ASSUME InterruptionAssumption == MaxInterruptions \in Nat

VARIABLES
  at,       \* the main loop is before the "planner" or the "cycle"
  elapsed,  \* ticks since the planner's callback in this pass
  active, target, current,   \* of jgv; v_target and v_current
  planned,  \* planned_pos, followed if there are soft limits
  slipped,  \* may planned_pos differ from mp->position of the current planner?
  silent,   \* ticks since last_msg_time, up to the watchdog's
  tripped,  \* watchdog_tripped
  pace,     \* ticks until next_commit_time
  saved,    \* the modes saved for the end of the jog
  cm,       \* the current machine and planner, 1 or 2
  cms,      \* cm1 and cm2: cycle_type, machine_state, is motion_state RUN,
            \* and whose the G-code modes are
  hold,     \* "OFF", "STOPPING", "ALARMING", "HOLD" or "RETURNING"
  mps,      \* mp1 and mp2: of each move whether it starts where the one
            \* before it ends, or the runtime is; whether mp->position, where
            \* the next will start, is apart from there; planner_state; ticks
            \* until block_timeout is past
  upset,    \* history: a jog began with moves queued or in the middle of a
            \* hold's moves, or was caught by a hold, an alarm or another cycle
  interruptions   \* holds and homings so far

jgv == <<active, target, current, planned, slipped, silent, tripped, pace, saved>>
pass == <<at, elapsed>>
vars == <<pass, jgv, cm, cms, hold, mps, upset, interruptions>>

Velocity == -MaxSpeed .. MaxSpeed
Position == 0 .. Positions - 1
\* planned_pos may be beyond a limit in an alarm; how far is not followed.
Everywhere == -1 .. Positions
Cleared == -1
Machine == [cycle : {"NONE", "MACHINING", "JGV", "HOMING"},
            state : {"STOP", "CYCLE", "ALARM"},
            moving : BOOLEAN, modes : {"job", "jog"}]
Planner == [queue : Seq(BOOLEAN), apart : BOOLEAN,
            state : {"IDLE", "STARTUP", "PRIMING"}, timeout : Cleared .. BlockTimeout]

TypeOK ==
  /\ at \in {"planner", "cycle"} /\ elapsed \in 0 .. PassTime
  /\ at = "planner" => elapsed = 0
  /\ target \in Velocity /\ current \in Velocity /\ planned \in Everywhere
  /\ silent \in 0 .. WatchdogTime + 1 /\ pace \in 0 .. StartupPace
  /\ saved \in {"job", "jog"}
  /\ cm \in 1 .. 2 /\ cms \in [1 .. 2 -> Machine]
  /\ hold \in {"OFF", "STOPPING", "ALARMING", "HOLD", "RETURNING"}
  /\ mps \in [1 .. 2 -> Planner] /\ \A p \in 1 .. 2 : Len(mps[p].queue) <= FullAt
  /\ active \in BOOLEAN /\ slipped \in BOOLEAN /\ tripped \in BOOLEAN /\ upset \in BOOLEAN
  /\ interruptions \in 0 .. MaxInterruptions

AtRest == [cycle |-> "NONE", state |-> "STOP", moving |-> FALSE, modes |-> "job"]
\* planner_reset() of a planner whose moves then start where the runtime is
Emptied == [queue |-> <<>>, apart |-> FALSE, state |-> "IDLE", timeout |-> Cleared]

Init ==
  /\ at = "planner" /\ elapsed = 0
  /\ active = FALSE /\ target = 0 /\ current = 0 /\ planned = 0
  /\ slipped = FALSE
  /\ silent = WatchdogTime + 1 /\ tripped = FALSE /\ pace = 0
  /\ saved = "job"
  /\ cm = 1 /\ hold = "OFF"
  /\ cms = [p \in 1 .. 2 |-> AtRest]
  /\ mps = [p \in 1 .. 2 |-> Emptied]
  /\ upset = FALSE /\ interruptions = 0

mc == cms[cm]
mp == mps[cm]

EndPass == at' = "planner" /\ elapsed' = 0

---------------------------------------------------------------------------
(* Planner and runtime *)

\* Where a segment of that length may end
Ends(distance) ==
  IF ~ Limits THEN {planned}
  ELSE {p \in Everywhere :
          IF planned \in Position
            THEN p = planned + distance \/ (planned + distance < 0 /\ p = -1)
                   \/ (planned + distance >= Positions /\ p = Positions)
            ELSE p = planned \/ (IF planned < 0 THEN p <= planned + distance
                                               ELSE p >= planned + distance)}

\* cm->hold_state of the current machine: the second's is off in the hold.
Holding == cm = 1 /\ hold # "OFF"

\* mp_get_runtime_busy()
Busy == mc.cycle # "NONE" /\ mp.queue # <<>>

\* mp_aline(): one more move, from mp->position.
WithMove(p) == [p EXCEPT !.queue = Append(@, ~ p.apart), !.apart = FALSE,
                         !.timeout = BlockTimeout]

\* cm_cycle_start() and cm_cycle_end(), which touch no cycle but the job's
Started(m) == IF m.cycle = "NONE"
                THEN [m EXCEPT !.cycle = "MACHINING", !.state = "CYCLE"] ELSE m
Ended(m) == IF m.cycle = "MACHINING"
              THEN [m EXCEPT !.cycle = "NONE", !.state = "STOP", !.moving = FALSE]
              ELSE m

\* mp_planner_callback().  A block can run once its planner is PRIMING.  The
\* timer is followed only as long as the planner is starting, as later nothing
\* depends on it.
mp_planner_callback ==
  LET waits == mp.state # "PRIMING" /\ Len(mp.queue) < FullAt /\ mp.timeout # 0
  IN /\ at = "planner"
     /\ at' = "cycle" /\ UNCHANGED elapsed
     /\ mps' = [mps EXCEPT ![cm] =
          IF @.queue = <<>> /\ ~ mc.moving /\ ~ Holding
            THEN [@ EXCEPT !.state = "IDLE", !.timeout = Cleared]
            ELSE [@ EXCEPT !.state = IF waits THEN "STARTUP" ELSE "PRIMING",
                           !.timeout = IF waits THEN mp.timeout ELSE Cleared]]
     /\ UNCHANGED <<jgv, cm, cms, hold, upset, interruptions>>

\* The exec and the motors run a move: mp_exec_aline(), which runs none unless
\* the machine is in MACHINE_CYCLE.  After the last one the motion is over,
\* whatever the cycle, unless a hold is under way.
RunMove ==
  /\ mp.queue # <<>> /\ mp.state = "PRIMING" /\ mc.state = "CYCLE"
  /\ mps' = [mps EXCEPT ![cm].queue = Tail(@)]
  /\ cms' = [cms EXCEPT ![cm] = IF Len(mp.queue) = 1 /\ ~ Holding
                                  THEN Ended([@ EXCEPT !.moving = FALSE])
                                  ELSE [@ EXCEPT !.moving = TRUE]]
  /\ UNCHANGED <<pass, jgv, cm, hold, upset, interruptions>>

---------------------------------------------------------------------------
(* Messages *)

\* _jgv_enter_cycle(): planned_pos and mp->position are set to where the
\* runtime is, which may be anywhere.
EnterCycle ==
  /\ active' = TRUE /\ current' = 0 /\ pace' = 0
  /\ planned' \in (IF Limits THEN Position ELSE {0}) /\ slipped' = FALSE
  /\ mps' = [mps EXCEPT ![cm].apart = mp.queue # <<>>]
  /\ saved' = mc.modes
  /\ cms' = [cms EXCEPT ![cm].modes = "jog", ![cm].cycle = "JGV",
                        ![cm].state = "CYCLE"]
  /\ upset' = (upset \/ mp.queue # <<>> \/ hold \notin {"OFF", "HOLD"})

\* Mutant: a jog that goes on is entered again.
MayEnterAgain == mc.state # "ALARM" /\ mc.cycle # "HOMING"

MayEnter ==
  ~ active /\ mc.state # "ALARM" /\ mc.cycle \in {"NONE", "MACHINING"}

\* Mutant: a message does not clear the watchdog.
HearTripped == silent' = (IF active' THEN 0 ELSE silent) /\ UNCHANGED tripped
Hear == /\ silent' = (IF active' THEN 0 ELSE silent)
        /\ tripped' = FALSE

\* cm_set_jgv()
Message(v) ==
  /\ at = "planner"
  /\ target' = v
  /\ IF v # 0 /\ MayEnter
       THEN EnterCycle
       ELSE UNCHANGED <<active, current, planned, slipped, pace, saved, cms, mps, upset>>
  /\ Hear
  /\ UNCHANGED <<pass, cm, hold, interruptions>>

---------------------------------------------------------------------------
(* The cycle *)

\* The target after the watchdog has been looked at.
Expired == silent > WatchdogTime /\ ~ tripped
Ordered == IF Expired THEN 0 ELSE target

\* Towards the target, as far as the ramp goes.
Ramped(v, to) ==
  IF to > v THEN IF to - v > Ramp THEN v + Ramp ELSE to
            ELSE IF v - to > Ramp THEN v - Ramp ELSE to

\* Mutant: the modes of the job are not restored.
ReleasedInJogModes(m) ==
  [m EXCEPT !.cycle = "NONE", !.moving = FALSE,
            !.state = IF @ = "ALARM" THEN @ ELSE "STOP"]
\* The machine after _jgv_finalize_exit() and cm_canned_cycle_end()
Released(m) ==
  [m EXCEPT !.modes = saved, !.cycle = "NONE", !.moving = FALSE,
            !.state = IF @ = "ALARM" THEN @ ELSE "STOP"]

\* cm_alarm() of a soft limit: a feedhold, if none is in progress.
SoftLimit ==
  /\ upset' = TRUE
  /\ hold' = IF hold = "OFF" THEN "ALARMING" ELSE hold

\* Mutant: while the planner starts, segments are as close as their duration.
CommitAtOnce == pace' = 0
CommitPaced == pace' = StartupPace

\* Mutant: the next segment starts where the machine is, not at the end of
\* what is queued.
AdvanceToRuntime(to) == planned' = to /\ slipped' = TRUE
Advance(to) == planned' = to /\ slipped' = FALSE

AllZero == Ordered = 0 /\ current = 0
\* Of a jog that is over nothing is kept that the next entry does not set.
Over == /\ active' = FALSE /\ target' = 0 /\ current' = 0
        /\ planned' = 0 /\ slipped' = FALSE /\ pace' = 0 /\ saved' = "job"
        /\ silent' = WatchdogTime + 1 /\ tripped' = FALSE

\* Is there room for another segment?
Room == /\ Len(mp.queue) < FullAt
        /\ IF mp.state = "PRIMING" THEN Len(mp.queue) < Depth ELSE pace = 0

\* cm_jgv_callback() in the jog's own cycle, from the watchdog on
Wait ==
  /\ IF AllZero THEN Busy ELSE ~ Room
  /\ target' = Ordered
  /\ UNCHANGED <<active, current, planned, slipped, pace, cms, hold, mps, upset>>
Exit ==
  /\ AllZero /\ ~ Busy
  /\ Over
  /\ cms' = [cms EXCEPT ![cm] = Released(@)]
  /\ UNCHANGED <<hold, mps, upset>>

\* cm_straight_feed_mm() with its cm_test_soft_limits()
Refuse(to) ==
  /\ to \notin Position /\ mc.state # "ALARM"
  /\ SoftLimit
  /\ UNCHANGED <<planned, slipped, pace, mps>>
Queue(to) ==
  /\ \/ /\ to \in Position
        /\ \/ mps' = [mps EXCEPT ![cm] = WithMove(@)]
           \/ slipped /\ UNCHANGED mps          \* a move of length zero
        /\ Advance(to)
     \* In an alarm cm_alarm() answers OK, and the target, reset to where the
     \* machine is, makes no move.
     \/ /\ to \notin Position /\ mc.state = "ALARM"
        /\ planned' = to /\ slipped' = TRUE
        /\ UNCHANGED mps
  /\ CommitPaced
  /\ UNCHANGED <<hold, upset>>

Segment ==
  LET v_end == Ramped(current, Ordered)
      distance == current + v_end
  IN /\ ~ AllZero /\ Room
     /\ target' = (IF distance = 0 THEN 0 ELSE Ordered)
     /\ \/ /\ distance = 0 \/ v_end = 0          \* no motion this segment
           /\ current' = 0
           /\ UNCHANGED <<planned, slipped, pace, hold, mps, upset>>
        \/ /\ distance # 0 /\ v_end # 0
           /\ \E to \in Ends(distance) :
                \/ Queue(to) /\ current' = v_end
                \/ Refuse(to) /\ UNCHANGED current
     /\ UNCHANGED <<active, cms>>

\* cm_jgv_callback(), reached only when the operation runner has nothing to do
\* and no other cycle keeps the pass to itself
cm_jgv_callback ==
  /\ at = "cycle" /\ hold \in {"OFF", "HOLD"}
  /\ active /\ mc.cycle # "HOMING"
  /\ EndPass
  /\ IF mc.cycle # "JGV"
       THEN Over /\ UNCHANGED <<cms, hold, mps, upset>>
       ELSE \/ Exit
            \/ /\ Wait \/ Segment
               /\ tripped' = (tripped \/ Expired)
               /\ UNCHANGED <<silent, saved>>
  /\ UNCHANGED <<cm, interruptions>>

\* The rest of a pass without a jog: a line of the job, if there is room, or
\* nothing.  Lines wait during a hold and another cycle.
RestOfPass ==
  /\ at = "cycle" /\ hold \in {"OFF", "HOLD"}
  /\ ~ active \/ mc.cycle = "HOMING"
  /\ EndPass
  /\ \/ UNCHANGED <<cms, mps>>
     \/ /\ hold = "OFF" /\ ~ active /\ Len(mp.queue) < FullAt
        /\ mc.state # "ALARM" /\ mc.cycle \in {"NONE", "MACHINING"}
        /\ mps' = [mps EXCEPT ![cm] = WithMove(@)]
        /\ cms' = [cms EXCEPT ![cm] = Started(@)]
  /\ UNCHANGED <<jgv, cm, hold, upset, interruptions>>

---------------------------------------------------------------------------
(* What interferes *)

\* mp->position is no longer where the last segment of the jog ends.
Slip == /\ slipped' = active
        /\ UNCHANGED <<active, target, current, planned, silent, tripped, pace, saved>>

Interrupt ==
  /\ interruptions < MaxInterruptions
  /\ interruptions' = interruptions + 1
  /\ upset' = (upset \/ active)

\* cm_request_feedhold(), the key "!"
Feedhold ==
  /\ at = "planner" /\ hold = "OFF" /\ cms[1].state # "ALARM"
  /\ hold' = "STOPPING"
  /\ Interrupt
  /\ UNCHANGED <<pass, jgv, cm, cms, mps>>

\* A pass in which the operation goes on: what is behind it has to wait.
OperationWaits ==
  /\ at = "cycle" /\ hold \notin {"OFF", "HOLD"}
  /\ EndPass
  /\ UNCHANGED <<jgv, cm, cms, hold, mps, upset, interruptions>>

\* A hold comes to rest at the end of the queue or where the exec cuts a move
\* short, which it does in MACHINE_CYCLE alone.
CanStop == mps[1].queue = <<>> \/ cms[1].state = "CYCLE"

\* The motors have stopped: _enter_p2(), a copy of the machine with its
\* cycle, and the second planner.  Only if the queue has run out by itself is
\* motion_state left as it is.
EnterP2 ==
  /\ at = "cycle" /\ hold = "STOPPING" /\ CanStop
  /\ hold' = "HOLD"
  /\ cm' = 2
  /\ \E moving \in {FALSE, mps[1].queue = <<>> /\ cms[1].moving} :
       cms' = [p \in 1 .. 2 |-> [cms[1] EXCEPT !.moving = moving]]
  /\ mps' = [mps EXCEPT ![2] = Emptied]
  /\ Slip
  /\ UNCHANGED <<pass, upset, interruptions>>

\* The motors have stopped: _run_alarm(), which kills the job.
RunAlarm ==
  /\ at = "cycle" /\ hold = "ALARMING" /\ CanStop
  /\ hold' = "OFF"
  /\ cms' = [cms EXCEPT ![1].state = "ALARM", ![1].moving = FALSE]
  /\ mps' = [mps EXCEPT ![1] = Emptied]
  /\ Slip
  /\ UNCHANGED <<pass, cm, upset, interruptions>>

\* {clear:n} and cm_clear()
Clear ==
  /\ at = "planner" /\ hold = "OFF" /\ cms[1].state = "ALARM"
  /\ cms' = [cms EXCEPT ![1].state = "STOP", ![1].moving = FALSE]
  /\ UNCHANGED <<pass, jgv, cm, hold, mps, upset, interruptions>>

\* The key "~": _feedhold_restart_with_actions() moves back to where the job
\* was held.
Resume ==
  /\ at = "planner" /\ hold = "HOLD" /\ Len(mps[2].queue) < FullAt
  /\ hold' = "RETURNING"
  /\ \/ /\ mps' = [mps EXCEPT ![2] = WithMove(@)]
        /\ cms' = [cms EXCEPT ![2] = Started(@)]
     \/ UNCHANGED <<cms, mps>>                   \* it has not moved
  /\ Slip
  /\ upset' = (upset \/ active)
  /\ UNCHANGED <<pass, cm, interruptions>>

\* Back to the first planner, with its machine and queue as given.  Of the
\* second nothing is kept, as the next _enter_p2() overwrites it.
ExitP2(machine, planner) ==
  /\ hold' = "OFF"
  /\ cm' = 1
  /\ cms' = [p \in 1 .. 2 |-> IF p = 1 THEN machine ELSE AtRest]
  /\ mps' = [p \in 1 .. 2 |-> IF p = 1 THEN planner ELSE Emptied]
  /\ Slip
  /\ UNCHANGED pass

\* _exit_p2() and _run_restart_cycle()
Returned ==
  /\ at = "cycle" /\ hold = "RETURNING" /\ mps[2].queue = <<>>
  /\ ExitP2(IF mps[1].queue = <<>> THEN Ended(cms[1]) ELSE Started(cms[1]), mps[1])
  /\ UNCHANGED <<upset, interruptions>>

\* The key "%" in the hold: _feedhold_restart_no_actions(), _run_queue_flush()
\* and _run_program_stop()
Flush ==
  /\ at = "planner" /\ hold = "HOLD"
  /\ ExitP2(Ended(cms[1]), Emptied)
  /\ upset' = (upset \/ active)
  /\ UNCHANGED interruptions

\* {home:1}: a homing cycle starts whatever cycle is running, and ends.
TakeOver ==
  /\ at = "planner" /\ hold = "OFF" /\ cms[1].state # "ALARM"
  /\ cms' = [cms EXCEPT ![1].cycle = "HOMING", ![1].state = "CYCLE"]
  /\ Interrupt
  /\ UNCHANGED <<pass, jgv, cm, hold, mps>>
TakeOverEnds ==
  /\ at = "cycle" /\ cms[1].cycle = "HOMING" /\ hold = "OFF" /\ mps[1].queue = <<>>
  /\ cms' = [cms EXCEPT ![1].cycle = "NONE", ![1].state = "STOP", ![1].moving = FALSE]
  /\ EndPass
  /\ UNCHANGED <<jgv, cm, hold, mps, upset, interruptions>>

\* A tick of the clock, if the pass may still take one.
Tick ==
  /\ IF at = "planner" THEN UNCHANGED elapsed
                       ELSE elapsed < PassTime /\ elapsed' = elapsed + 1
  /\ silent' = (IF silent > WatchdogTime THEN silent ELSE silent + 1)
  /\ pace' = (IF pace > 0 THEN pace - 1 ELSE 0)
  /\ mps' = [p \in 1 .. 2 |->
               [mps[p] EXCEPT !.timeout = IF @ > 0 THEN @ - 1 ELSE @]]
  /\ UNCHANGED <<at, active, target, current, planned, slipped, tripped, saved, cm, cms,
                 hold, upset, interruptions>>

OperationEnds == EnterP2 \/ RunAlarm \/ Returned \/ TakeOverEnds
Main == \/ mp_planner_callback \/ cm_jgv_callback \/ RestOfPass
        \/ OperationWaits \/ OperationEnds
Host == \/ \E v \in Orders : Message(v)
        \/ Feedhold \/ Resume \/ Flush \/ Clear \/ TakeOver

Next == Main \/ Host \/ RunMove \/ Tick
Spec == Init /\ [][Next]_vars

\* The loop goes round, time passes, queued moves run, holds come to rest and
\* homing ends.  The host promises nothing.
FairSpec ==
  /\ Spec
  /\ WF_vars(Main) /\ WF_vars(Tick) /\ WF_vars(RunMove)
  /\ SF_vars(OperationEnds)

---------------------------------------------------------------------------
(* Properties *)

\* planned_pos is the "cumulative endpoint of queued segments"
\* (cycle_jgv.cpp:56): each segment starts where the one before it ends, and
\* the first where the machine stands.  Otherwise the motors make a step that
\* no ramp leads up to.
SegmentsJoin ==
  (active /\ ~ upset) =>
     /\ ~ slipped /\ ~ mp.apart
     /\ \A k \in DOMAIN mp.queue : mp.queue[k]

\* "total lookahead, also max direction-change lag" (:292): a change of
\* velocity never waits behind more than Depth segments, at the start of a
\* jog neither, where only the pace of the commits keeps the queue short.
LagIsBounded ==
  (active /\ ~ upset) => Len(mp.queue) <= Depth

\* A jog that is over leaves the machine to the job as it found it, unless a
\* hold, an alarm or a homing came in between.
JobGetsItsModesBack ==
  (~ active /\ ~ upset) => cms[1].modes = "job" /\ cms[1].cycle # "JGV"

\* A jog that cannot even slow down: the slowest next segment is refused, and in
\* a hold that starts no alarm.
Stalled == cm = 2 /\ ~ Ends(current + Ramped(current, 0)) \subseteq Position

\* A jog whose moves the exec does not run, as a soft limit's alarm has taken
\* the machine out of MACHINE_CYCLE under it
Stranded == mc.cycle = "JGV" /\ mc.state # "CYCLE" /\ mp.queue # <<>>

\* "host silence forces all targets to 0" (:239): when no message comes, the
\* jog ends, whatever holds, alarms and flushes come meanwhile, but for one
\* that is stalled at a limit in a hold (StallIsBrief) or stranded by an alarm
\* (ClearLetsMovesRun).
SilenceEndsJog ==
  (silent > WatchdogTime) ~>
    (~ active \/ silent <= WatchdogTime \/ Stalled \/ Stranded)

(* Stated by the code's comments, and not so: see the findings in the README *)

\* "pushing into an X limit briefly stalls Y too, recovering as soon as the
\* host reduces X command" (:505-507): with the target at zero the jog comes
\* to its end.  In a hold, a segment that is refused leaves v_current as it
\* was, and the next one, a ramp step slower, is refused as well; out of a hold
\* the first refusal is an alarm.
StallIsBrief == (active /\ target = 0) ~> (~ active \/ target # 0)

\* "ALARM can be manually cleared" (alarm.cpp:161) and the jog goes on: what it
\* queues in the alarm, on its way to a stop, runs then.  {clear:n} leaves the
\* machine in PROGRAM_STOP, and no jog that goes on takes it out again: the
\* moves wait for ever, and the jog for them.
ClearLetsMovesRun ==
  [](Stranded /\ mc.state = "STOP" => <>(~ Stranded))

\* "reset state so the next {"jgvx":...} can re-enter cleanly" (:226-229), but
\* the other desync, a cycle that has lost its jog, is not detected: after a
\* hold in which the jog came to its end, CYCLE_JGV stays.
JogCanStartAgain ==
  (~ active /\ hold = "OFF" /\ at = "cycle") => cms[1].cycle # "JGV"

\* "Called from feedhold/queue-flush/alarm paths" (:197): cm_jgv_abort() ends
\* a jog whose motion is flushed.  Nobody calls it.
FlushEndsTheJog == [][Flush => ~ active']_vars

\* A target stands until a message, the watchdog or the end of the jog changes
\* it.  At the segment of a reversal whose two velocities cancel each other,
\* the code takes the axis to be at a limit.
TargetStands ==
  [][(cm_jgv_callback /\ active' /\ ~ Expired) => target' = target]_vars

\* A velocity that was not accepted is not kept for the axis.
RejectedIsForgotten == ~ active => target = 0
=============================================================================
