----------------------------- MODULE Feedhold -----------------------------
(***************************************************************************)
(* Feedhold, resume, queue flush, job kill and alarm (cycle_feedhold.cpp,  *)
(* the feedhold half of plan_exec.cpp, alarm.cpp), over the two planners.  *)
(*                                                                         *)
(* The main loop reads one key or line per pass, calls the planner, starts *)
(* what was requested and runs the operation, one action at a time.  The   *)
(* exec and the loader preempt it.  MotionPipeline has the details of      *)
(* their hand-over: here a block can run as soon as it is committed and    *)
(* the exec is asked for it.                                               *)
(*                                                                         *)
(* Planner 1 runs the job; planner 2 runs the moves of a hold.  Everything *)
(* indexed by 1 .. 2 is a field of cm1 and cm2, or of mp1 and mp2.         *)
(***************************************************************************)
EXTENDS Integers, Sequences, SequencesExt

CONSTANTS Keys,           \* what arrives: a subset of AllKeys
          CoolantPauses,  \* coolant.mist.pause_enable
          MaxBlocks,      \* bound on the blocks of the job in the queue
          MaxSegments     \* bound on the segments of a move

\* "alarm" is a call of cm_alarm(): a limit switch, a soft limit, {alarm:n}.
AllKeys == {"!", "~", "%", "^D", "alarm"}
ASSUME KeyAssumption == Keys \subseteq AllKeys /\ CoolantPauses \in BOOLEAN
ASSUME SizeAssumption == MaxBlocks \in Nat \ {0} /\ MaxSegments \in Nat \ {0}

\* Mutant: a list that holds the exit chain and nothing else.
ShortList == 3
ACTION_MAX == 6

VARIABLES
  cm,           \* the current canonical machine, and with it mp and mr
  q,            \* blocks of the two planners
  toPlan,       \* request_planning, or the block timer is set
  machine,      \* machine_state
  cycling,      \* cycle_type is CYCLE_MACHINING
  motion,       \* cm1.motion_state is MOTION_RUN
  hold,         \* hold_state
  hold_type,    \* cm1.hold_type
  cycle_start_state, queue_flush_state, job_kill_state,   \* REQUESTED?
  op,           \* the operation: its actions, the running one, in_operation
  left,         \* segments left of the block in mr; 0: none is active
  prep,         \* what st_pre holds for the loader
  playing,      \* dda_ticks_downcount is not 0
  asked,        \* the exec interrupt is pending
  at,           \* where the main loop is in its pass
  promise       \* history: what the header of the runner promises for the
                \* last key, "none" when it promises nothing

machines == <<machine, cycling, motion>>
holds == <<hold, hold_type>>
requests == <<cycle_start_state, queue_flush_state, job_kill_state>>
planners == <<cm, q, toPlan>>
stepping == <<left, prep, playing, asked>>
vars == <<machines, holds, requests, planners, stepping, op, at, promise>>

\* cmFeedholdState, in its order; HOLD_ACTIONS_COMPLETE is never entered.
Decelerating == {"SYNC", "DECEL_CONTINUE", "DECEL_TO_ZERO"}
Stopping == Decelerating \cup {"DECEL_COMPLETE", "MOTION_STOPPING"}
Stopped == {"MOTION_STOPPED", "HOLD_ACTIONS_PENDING", "HOLD",
            "EXIT_ACTIONS_PENDING", "EXIT_ACTIONS_COMPLETE"}
HoldStates == {"OFF"} \cup Stopping \cup Stopped

Actions == {"_feedhold_no_actions", "_feedhold_with_actions", "_run_alarm",
            "_feedhold_restart_no_actions", "_feedhold_restart_with_actions",
            "_run_restart_cycle", "_run_queue_flush", "_run_program_stop"}
\* "hold done" and "restart done" are the commands that end the moves of a
\* hold and of a restart.
Blocks == {"move", "command", "hold done", "restart done"}

TypeOK ==
  /\ cm \in {1, 2}
  /\ q \in [1 .. 2 -> Seq(Blocks)] /\ toPlan \in [1 .. 2 -> BOOLEAN]
  /\ machine \in [1 .. 2 -> {"READY", "CYCLE", "STOP", "END", "ALARM"}]
  /\ cycling \in [1 .. 2 -> BOOLEAN]
  /\ hold \in [1 .. 2 -> HoldStates] /\ hold_type \in {"HOLD", "ACTIONS"}
  /\ op \in [acts : Seq(Actions), run : 1 .. ACTION_MAX, in_operation : BOOLEAN]
  /\ left \in 0 .. MaxSegments
  /\ prep \in {"none", "segment", "command", "null"}
  /\ at \in {"input", "planner", "job kill", "queue flush", "cycle start", "operation"}
  /\ promise \in {"none", "hold", "resume", "flush", "kill", "alarm"}
  /\ {motion, cycle_start_state, queue_flush_state, job_kill_state, playing,
      asked} \subseteq BOOLEAN

NoOperation == [acts |-> <<>>, run |-> 1, in_operation |-> FALSE]

Init ==
  /\ cm = 1 /\ q = [p \in 1 .. 2 |-> <<>>] /\ toPlan = [p \in 1 .. 2 |-> FALSE]
  /\ machine = [p \in 1 .. 2 |-> "READY"] /\ cycling = [p \in 1 .. 2 |-> FALSE]
  /\ motion = FALSE
  /\ hold = [p \in 1 .. 2 |-> "OFF"] /\ hold_type = "HOLD"
  /\ cycle_start_state = FALSE /\ queue_flush_state = FALSE /\ job_kill_state = FALSE
  /\ op = NoOperation
  /\ left = 0 /\ prep = "none" /\ playing = FALSE /\ asked = FALSE
  /\ at = "input" /\ promise = "none"

\* Mutant: the loader does not look at the motors.
LoadAnyTime == prep # "none"
LoadMayRun == prep # "none" /\ ~ playing
ExecMayRun == asked /\ ~ LoadMayRun
MainMayRun == ~ asked /\ ~ LoadMayRun

\* cm_cycle_start(), cm_cycle_end() of machine p.  Whether the end of a cycle
\* is a program end depends on settings that are not modelled.
CycleStart(p) ==
  /\ machine' = [machine EXCEPT ![p] = IF cycling[p] THEN @ ELSE "CYCLE"]
  /\ cycling' = [cycling EXCEPT ![p] = TRUE]
  /\ UNCHANGED motion
CycleEnd(p, end) ==
  /\ machine' = [machine EXCEPT ![p] = IF cycling[p] THEN end ELSE @]
  /\ cycling' = [cycling EXCEPT ![p] = FALSE]
  /\ motion' = (motion /\ ~ (cycling[p] /\ p = 1))

\* op.add_action(), of several actions in a row.  An action that is refused
\* is dropped: no caller looks at the status.  So is one that does not fit: the
\* first action of such a list is still running, and then repack() refuses.
AddTo(o, actions, allow_add_from_operation) ==
  IF o.in_operation /\ ~ allow_add_from_operation THEN o
  ELSE [o EXCEPT !.acts = LET all == o.acts \o actions
                          IN SubSeq(all, 1, IF Len(all) > ACTION_MAX
                                            THEN ACTION_MAX ELSE Len(all))]
add_action(actions) == op' = AddTo(op, actions, FALSE)

\* The exit of a hold that flushes.
\* Mutants: an exit that forgets to end the hold, one in the wrong order.
FlushOnly == <<"_feedhold_restart_no_actions", "_run_queue_flush">>
StopBeforeFlush ==
  <<"_feedhold_restart_no_actions", "_run_program_stop", "_run_queue_flush">>
FlushChain == <<"_feedhold_restart_no_actions", "_run_queue_flush", "_run_program_stop">>


---------------------------------------------------------------------------
(* Keys: the control characters of _dispatch_kernel(), cm_alarm() *)

\* cm_request_feedhold(): of the main hold, of a hold in the exit moves, or of
\* nothing.
cm_request_feedhold(type, actions) ==
  IF machine[1] \notin {"CYCLE", "STOP"}
  THEN /\ hold' = [hold EXCEPT ![cm] = "OFF"]
       /\ UNCHANGED <<hold_type, op>>
  ELSE IF hold[1] = "OFF"
  THEN /\ hold_type' = type
       /\ hold' = [hold EXCEPT ![1] = "SYNC"]
       /\ add_action(actions)
  ELSE /\ hold' = IF hold[1] = "EXIT_ACTIONS_PENDING" /\ hold[2] = "OFF"
                  THEN [hold EXCEPT ![2] = "SYNC"] ELSE hold
       /\ UNCHANGED <<hold_type, op>>

Bang ==
  /\ cm_request_feedhold("ACTIONS", <<"_feedhold_with_actions">>)
  /\ promise' = IF machine[1] = "CYCLE" \/ hold[1] # "OFF" THEN "hold" ELSE "none"
  /\ UNCHANGED <<machines, requests, planners, stepping>>

cm_alarm ==
  /\ machine[cm] # "ALARM"
  /\ cm_request_feedhold("HOLD", <<"_feedhold_no_actions", "_run_alarm">>)
  /\ promise' = "alarm"
  /\ UNCHANGED <<machines, requests, planners, stepping>>

\* cm_request_cycle_start(): from a hold, or at once.
cm_request_cycle_start ==
  /\ promise' = IF hold[1] # "OFF" /\ ~ queue_flush_state THEN "resume" ELSE promise
  /\ cycle_start_state' = (hold[1] # "OFF" /\ ~ queue_flush_state)
  /\ IF hold[1] = "OFF" /\ q[1] # <<>>
     THEN CycleStart(cm) /\ asked' = TRUE ELSE UNCHANGED <<machines, asked>>
  /\ UNCHANGED <<queue_flush_state, job_kill_state, planners, holds, left, prep,
                 playing, op>>

\* In the moves of a restart a flush comes too late for this hold, and its
\* promise is not kept: "(in-cycle) !~% Same as above (this one's an anomaly,
\* but the intent would be to Q flush)" (cycle_feedhold.cpp:331).
Exiting == {"EXIT_ACTIONS_PENDING", "EXIT_ACTIONS_COMPLETE"}
cm_request_queue_flush ==
  /\ queue_flush_state' = (hold[1] # "OFF")
  /\ promise' = IF hold[1] = "OFF" THEN promise
                ELSE IF hold[1] \in Exiting THEN "none" ELSE "flush"
  /\ UNCHANGED <<machines, holds, cycle_start_state, job_kill_state, planners,
                 stepping, op>>

cm_request_job_kill ==
  /\ job_kill_state' = TRUE
  /\ promise' = IF machine[1] = "ALARM" THEN promise ELSE "kill"
  /\ UNCHANGED <<machines, holds, cycle_start_state, queue_flush_state, planners,
                 stepping, op>>

---------------------------------------------------------------------------
(* Main loop *)

\* The commit of a block of the job.  A move starts the cycle; a command is
\* anything that goes through mp_queue_command().
Line ==
  /\ hold[1] = "OFF"               \* cm_feedhold_command_blocker()
  /\ op.acts = <<>>                \* a running operation ends the pass
  /\ machine[1] # "ALARM"          \* cm_is_alarmed()
  /\ Len(q[cm]) < MaxBlocks
  /\ \/ /\ q' = [q EXCEPT ![cm] = Append(@, "move")]
        /\ CycleStart(cm)
     \/ /\ q' = [q EXCEPT ![cm] = Append(@, "command")]
        /\ UNCHANGED machines
  /\ toPlan' = [toPlan EXCEPT ![cm] = TRUE]
  /\ UNCHANGED <<cm, holds, requests, stepping, op, promise>>

Key == \/ "!" \in Keys /\ Bang
       \/ "~" \in Keys /\ cm_request_cycle_start
       \/ "%" \in Keys /\ cm_request_queue_flush
       \/ "^D" \in Keys /\ cm_request_job_kill
       \/ "alarm" \in Keys /\ cm_alarm

Nothing == UNCHANGED <<machines, holds, requests, planners, stepping, op, promise>>

Input ==
  /\ at = "input"
  /\ at' = "planner"
  /\ Key \/ Line \/ Nothing

\* Mutant: a hold that finds no block left waits for one.
PlanOnly ==
  /\ at = "planner"
  /\ at' = "job kill"
  /\ toPlan' = [toPlan EXCEPT ![cm] = FALSE]
  /\ asked' = (toPlan[cm] /\ hold[cm] # "HOLD")
  /\ UNCHANGED <<machines, holds, requests, cm, q, left, prep, playing, op, promise>>

\* mp_planner_callback(): a deceleration with no block left is over; blocks
\* that are planned are handed on, but not in HOLD (mp_plan_block_list()).
mp_planner_callback ==
  /\ at = "planner"
  /\ at' = "job kill"
  /\ hold' = IF q[cm] = <<>> /\ hold[cm] \in Decelerating
             THEN [hold EXCEPT ![cm] = "MOTION_STOPPED"] ELSE hold
  /\ toPlan' = [toPlan EXCEPT ![cm] = FALSE]
  /\ asked' = (toPlan[cm] /\ hold'[cm] # "HOLD")
  /\ UNCHANGED <<machines, hold_type, requests, cm, q, left, prep, playing, op, promise>>

\* _run_queue_flush() of planner p; q is what it will hold next.  A command
\* that is staged has lost its buffer.
FlushPlanner(p, queued) ==
  /\ q' = [q EXCEPT ![p] = queued]
  /\ toPlan' = [toPlan EXCEPT ![p] = queued # <<>>]
  /\ left' = 0
  /\ prep' = IF prep = "command" THEN "null" ELSE prep
  /\ queue_flush_state' = FALSE

\* Mutant: the state always waits for the end of the cycle.
JobKillEndsTheCycle(state) ==
  /\ cm' = 1
  /\ FlushPlanner(1, <<"command">>)
  /\ hold' = [hold EXCEPT ![1] = "OFF"]
  /\ motion' = FALSE
  /\ machine' = [machine EXCEPT ![1] = IF ~ cycling[1] THEN state ELSE @]
  /\ job_kill_state' = FALSE
  /\ UNCHANGED <<cycling, cycle_start_state>>

\* _run_job_kill(): back to planner 1, flush it, and the commands of a
\* program end.  The machine state follows at once only out of a cycle.
JobKill(state) ==
  /\ cm' = 1
  /\ FlushPlanner(1, <<"command">>)
  /\ hold' = [hold EXCEPT ![1] = "OFF"]
  /\ motion' = FALSE
  /\ machine' = [machine EXCEPT ![1] = IF state = "ALARM" \/ ~ cycling[1] THEN state ELSE @]
  /\ job_kill_state' = FALSE
  /\ UNCHANGED <<cycling, cycle_start_state>>

\* Mutant: a kill waits for a hold that nobody requested.
KillWaitsForHold ==
  /\ at = "job kill"
  /\ at' = "queue flush"
  /\ IF ~ job_kill_state \/ machine[1] = "ALARM"
     THEN /\ job_kill_state' = FALSE
          /\ UNCHANGED <<machines, hold, planners, left, prep,
                         cycle_start_state, queue_flush_state>>
     ELSE IF machine[1] # "CYCLE" \/ hold[1] = "HOLD"
     THEN JobKill("END")
     ELSE UNCHANGED <<machines, hold, planners, left, prep, requests>>
  /\ UNCHANGED <<hold_type, op, playing, asked, promise>>

\* _start_job_kill()
_start_job_kill ==
  /\ at = "job kill"
  /\ at' = "queue flush"
  /\ IF ~ job_kill_state \/ machine[1] = "ALARM"
     THEN /\ job_kill_state' = FALSE
          /\ UNCHANGED <<machines, hold, planners, left, prep, op,
                         cycle_start_state, queue_flush_state>>
     ELSE IF machine[1] # "CYCLE" \/ hold[1] = "HOLD"
     THEN JobKill("END") /\ UNCHANGED op
     ELSE /\ IF hold[1] = "OFF" THEN add_action(<<"_feedhold_no_actions">>)
             ELSE UNCHANGED op
          /\ UNCHANGED <<machines, hold, planners, left, prep, requests>>
  /\ UNCHANGED <<hold_type, playing, asked, promise>>

_start_queue_flush ==
  /\ at = "queue flush"
  /\ at' = "cycle start"
  /\ IF queue_flush_state /\ hold[1] = "HOLD" THEN add_action(FlushChain)
     ELSE UNCHANGED op
  /\ UNCHANGED <<machines, holds, requests, planners, stepping, promise>>

\* _start_cycle_restart(); hold_exit is FEEDHOLD_EXIT_CYCLE here, a hold for
\* an alarm does not stay in HOLD.
_start_cycle_restart ==
  /\ at = "cycle start"
  /\ at' = "operation"
  /\ IF cycle_start_state /\ hold[1] = "HOLD"
     THEN /\ cycle_start_state' = FALSE
          /\ add_action(<<IF hold_type = "ACTIONS" THEN "_feedhold_restart_with_actions"
                          ELSE "_feedhold_restart_no_actions", "_run_restart_cycle">>)
     ELSE UNCHANGED <<cycle_start_state, op>>
  /\ UNCHANGED <<machines, holds, queue_flush_state, job_kill_state, planners,
                 stepping, promise>>

---------------------------------------------------------------------------
(* Actions of the operation: op.run_operation() calls them until one does not
   return STAT_OK.  o is the operation the action leaves. *)

Completed(o) == IF o.run = Len(o.acts)
                THEN op' = NoOperation /\ at' = "input"
                ELSE op' = [o EXCEPT !.run = @ + 1, !.in_operation = TRUE] /\ at' = at
Again(o) == op' = [o EXCEPT !.in_operation = TRUE] /\ at' = "input"
Failed == op' = NoOperation /\ at' = "input"

\* mp_replan_queue() and st_request_forward_plan()
Replan == /\ toPlan' = [toPlan EXCEPT ![cm] = TRUE]
          /\ asked' = TRUE

_feedhold_no_actions ==
  /\ IF hold[1] = "OFF" /\ motion
     THEN /\ hold' = [hold EXCEPT ![1] = "SYNC"] /\ hold_type' = "HOLD"
          /\ Again(op) /\ UNCHANGED <<toPlan, asked, left>>
     ELSE IF hold[1] = "OFF"
     THEN /\ hold' = [hold EXCEPT ![1] = "HOLD"] /\ hold_type' = "HOLD"
          /\ left' = (IF playing THEN left ELSE 0)
          /\ Completed(op) /\ Replan
     ELSE IF hold[1] \in Stopping
     THEN Again(op) /\ UNCHANGED <<holds, toPlan, asked, left>>
     ELSE /\ hold' = [hold EXCEPT ![1] = "HOLD"] /\ UNCHANGED <<hold_type, left>>
          /\ Completed(op) /\ Replan
  /\ UNCHANGED <<machines, requests, cm, q, prep, playing>>

\* The moves and commands of a hold; the lift depends on where Z is.
EntryMoves == {(IF lift THEN <<"move">> ELSE <<>>)
               \o (IF CoolantPauses THEN <<"command">> ELSE <<>>)
               \o <<"hold done">> : lift \in BOOLEAN}
\* Queue them in planner 2, which is in state m and cycling or not.
QueueInP2(before, moves, m, isCycling) ==
  /\ q' = [q EXCEPT ![2] = before \o moves]
  /\ toPlan' = [toPlan EXCEPT ![2] = TRUE]
  /\ LET starts == "move" \in ToSet(moves) /\ ~ isCycling
     IN /\ machine' = [machine EXCEPT ![2] = IF starts THEN "CYCLE" ELSE m]
        /\ cycling' = [cycling EXCEPT ![2] = isCycling \/ starts]

\* The chain may have been asked for when the callback had already run.
FinishHold ==
  /\ hold' = [hold EXCEPT ![1] = "HOLD"]
  /\ Completed(IF queue_flush_state /\ op.run = Len(op.acts)
               THEN AddTo(op, FlushChain, TRUE) ELSE op)

_feedhold_with_actions ==
  /\ \/ /\ hold[1] = "OFF"
        /\ hold' = [hold EXCEPT ![1] = "SYNC"]
        /\ Again(op) /\ UNCHANGED <<machines, planners, left>>
     \/ /\ hold[1] = "MOTION_STOPPED"            \* _enter_p2(), unless in p2
        /\ hold' = [hold EXCEPT ![1] = "HOLD_ACTIONS_PENDING",
                                ![2] = IF cm = 1 THEN "OFF" ELSE @]
        /\ \E moves \in EntryMoves :
             IF cm = 1 THEN QueueInP2(<<>>, moves, machine[1], cycling[1])
             ELSE QueueInP2(q[2], moves, machine[2], cycling[2])
        /\ left' = (IF cm = 1 THEN 0 ELSE left)
        /\ cm' = 2
        /\ Again(op) /\ UNCHANGED motion
     \/ /\ hold[1] = "HOLD"
        /\ FinishHold
        /\ UNCHANGED <<machines, planners, left>>
     \/ /\ hold[1] \notin {"OFF", "MOTION_STOPPED", "HOLD"}
        /\ Again(op) /\ UNCHANGED <<machines, hold, planners, left>>
  /\ UNCHANGED <<hold_type, requests, prep, playing, asked>>

\* Mutant: the hold in the exit moves flushes both planners.
NestedHoldFlushesAll ==
  /\ ~ playing
  /\ hold' = [hold EXCEPT ![1] = "HOLD_ACTIONS_PENDING", ![2] = "OFF"]
  /\ q' = <<<<>>, <<"hold done">>>> /\ toPlan' = <<FALSE, TRUE>>
  /\ left' = 0 /\ prep' = (IF prep = "command" THEN "null" ELSE prep)
  /\ queue_flush_state' = FALSE /\ cycle_start_state' = FALSE
  /\ Failed
  /\ UNCHANGED <<cm, machines>>

\* A hold in the exit moves: once nothing moves, drop what is left of them and
\* hold again.
NestedHold ==
  /\ ~ playing
  /\ hold' = [hold EXCEPT ![1] = "HOLD_ACTIONS_PENDING", ![2] = "OFF"]
  /\ \E lift \in BOOLEAN :
       LET moves == (IF lift THEN <<"move">> ELSE <<>>) \o <<"hold done">>
       IN /\ QueueInP2(<<>>, moves, machine[2], cycling[2])
  /\ left' = 0 /\ prep' = (IF prep = "command" THEN "null" ELSE prep)
  /\ queue_flush_state' = FALSE /\ cycle_start_state' = FALSE
  /\ Failed
  /\ UNCHANGED <<cm, motion>>

\* The return to where planner 1 stopped; the toolhead is taken to be ready.
ExitMoves == {<<"command">> \o (IF plunge THEN <<"move">> ELSE <<>>)
              \o <<"restart done">> : plunge \in BOOLEAN}

_feedhold_restart_with_actions ==
  /\ \/ /\ hold[1] = "OFF"
        /\ Completed(op)
        /\ UNCHANGED <<machines, hold, cycle_start_state, queue_flush_state,
                       planners, left, prep>>
     \/ /\ hold[1] = "HOLD"
        /\ hold' = [hold EXCEPT ![1] = "EXIT_ACTIONS_PENDING"]
        /\ \E moves \in ExitMoves : QueueInP2(q[2], moves, machine[2], cycling[2])
        /\ Again(op)
        /\ UNCHANGED <<motion, cycle_start_state, queue_flush_state, cm, left, prep>>
     \/ /\ hold[1] = "EXIT_ACTIONS_PENDING" /\ hold[2] # "OFF"
        /\ NestedHold
     \/ /\ hold[1] = "EXIT_ACTIONS_COMPLETE"          \* _exit_p2()
        /\ cm' = 1
        /\ Completed(op)
        /\ UNCHANGED <<machines, hold, cycle_start_state, queue_flush_state, q,
                       toPlan, left, prep>>
     \/ /\ \/ hold[1] = "EXIT_ACTIONS_PENDING" /\ (hold[2] = "OFF" \/ playing)
           \/ hold[1] \notin {"OFF", "HOLD", "EXIT_ACTIONS_PENDING", "EXIT_ACTIONS_COMPLETE"}
        /\ Again(op)
        /\ UNCHANGED <<machines, hold, cycle_start_state, queue_flush_state,
                       planners, left, prep>>
  /\ UNCHANGED <<hold_type, job_kill_state, playing, asked>>

\* Mutant: planner 2 stays current.
RestartInP2 ==
  /\ Completed(op)
  /\ UNCHANGED <<machines, holds, requests, planners, stepping>>

\* _feedhold_restart_no_actions(): _exit_p2(), unless there is no hold.
_feedhold_restart_no_actions ==
  /\ cm' = IF hold[1] = "OFF" THEN cm ELSE 1
  /\ Completed(op)
  /\ UNCHANGED <<machines, holds, requests, q, toPlan, stepping>>

_run_queue_flush ==
  /\ FlushPlanner(cm, <<>>)
  /\ Completed(op)
  /\ UNCHANGED <<machines, holds, cycle_start_state, job_kill_state, cm, playing, asked>>

_run_program_stop ==
  /\ hold' = [hold EXCEPT ![1] = "OFF"]
  /\ CycleEnd(cm, "STOP")
  /\ Completed(op)
  /\ UNCHANGED <<hold_type, requests, planners, stepping>>

_run_restart_cycle ==
  /\ IF hold[1] = "MOTION_STOPPED" THEN UNCHANGED <<machines, hold, asked>>
     ELSE /\ hold' = [hold EXCEPT ![1] = IF @ = "SYNC" THEN @ ELSE "OFF"]
          /\ IF q[1] # <<>> THEN CycleStart(cm) /\ asked' = TRUE
             ELSE CycleEnd(cm, "STOP") /\ UNCHANGED asked
  /\ Completed(op)
  /\ UNCHANGED <<hold_type, requests, planners, left, prep, playing>>

_run_alarm ==
  /\ IF hold[1] = "HOLD" THEN JobKill("ALARM") /\ Completed(op)
     ELSE /\ Again(op)
          /\ UNCHANGED <<machines, hold, requests, planners, left, prep>>
  /\ UNCHANGED <<hold_type, playing, asked>>

\* op.run_operation()
run_operation ==
  /\ at = "operation"
  /\ \/ op.acts = <<>> /\ at' = "input" /\ UNCHANGED op /\ Nothing
     \/ /\ op.acts # <<>>
        /\ LET Runs(action) == op.acts[op.run] = action
           IN \/ Runs("_feedhold_no_actions") /\ _feedhold_no_actions
              \/ Runs("_feedhold_with_actions") /\ _feedhold_with_actions
              \/ Runs("_feedhold_restart_no_actions") /\ _feedhold_restart_no_actions
              \/ Runs("_feedhold_restart_with_actions") /\ _feedhold_restart_with_actions
              \/ Runs("_run_restart_cycle") /\ _run_restart_cycle
              \/ Runs("_run_queue_flush") /\ _run_queue_flush
              \/ Runs("_run_program_stop") /\ _run_program_stop
              \/ Runs("_run_alarm") /\ _run_alarm
        /\ UNCHANGED promise

Main == /\ MainMayRun
        /\ \/ Input \/ mp_planner_callback
           \/ _start_job_kill \/ _start_queue_flush \/ _start_cycle_restart
           \/ run_operation

---------------------------------------------------------------------------
(* Exec and loader *)

SetMotion(running) == motion' = IF cm = 1 THEN running ELSE motion
HeadIs(kinds) == q[cm] # <<>> /\ Head(q[cm]) \in kinds
Commands == Blocks \ {"move"}

\* What one segment does to a hold: wait for the end of the head, slow down
\* without reaching 0 in this block, or slow down to 0.  The last block of a
\* queue has a tail.  A nested hold is a SKIP: it never waits.
Slowing(n) ==
  IF hold[cm] = "SYNC"
  THEN {"DECEL_CONTINUE", "DECEL_TO_ZERO"}
       \cup (IF left > 0 /\ cm = 1 /\ (n > 1 \/ Len(q[1]) > 1) THEN {"SYNC"} ELSE {})
  ELSE IF hold[cm] = "DECEL_CONTINUE" /\ left = 0
  THEN {"DECEL_CONTINUE", "DECEL_TO_ZERO"}
  ELSE {hold[cm]}

\* Mutant: a move of no segments.
LengthsFromZero(slow) == IF left = 0 \/ slow # hold[cm] THEN 0 .. MaxSegments ELSE {left}
\* A move that starts, or starts to slow down, gets a length; the others go on.
LengthsOf(slow) == IF left = 0 \/ slow # hold[cm] THEN 1 .. MaxSegments ELSE {left}

\* _exec_aline_feedhold() Case (4): motion has stopped; what is left of the
\* move is kept, unless nothing is or the hold is a SKIP.
ExecMotionStopped ==
  /\ hold[cm] = "MOTION_STOPPING" /\ ~ playing
  /\ hold' = [hold EXCEPT ![cm] = "MOTION_STOPPED"]
  /\ \/ q' = [q EXCEPT ![cm] = Tail(@)]
     \/ cm = 1 /\ UNCHANGED q
  /\ left' = 0
  /\ SetMotion(FALSE)
  /\ UNCHANGED <<machine, cycling, prep>>

\* Case (3'): STAT_OK, so a buffer with nothing in it goes to the loader.
ExecDecelComplete ==
  /\ hold[cm] = "DECEL_COMPLETE"
  /\ hold' = [hold EXCEPT ![cm] = "MOTION_STOPPING"]
  /\ prep' = "null"
  /\ UNCHANGED <<machines, left, q>>

\* A segment; the last one frees the block, unless the move has slowed down
\* to 0 in it.
ExecSegment ==
  /\ hold[cm] \in Decelerating \cup {"OFF"}
  /\ prep' = "segment"
  /\ \E slow \in Slowing(left) : \E n \in LengthsOf(slow) :
       /\ left' = n - 1
       /\ IF n > 1 \/ slow = "DECEL_TO_ZERO"
          THEN /\ hold' = [hold EXCEPT ![cm] = IF n > 1 THEN slow ELSE "DECEL_COMPLETE"]
               /\ SetMotion(TRUE)
               /\ UNCHANGED <<machine, cycling, q>>
          ELSE /\ hold' = [hold EXCEPT ![cm] = slow]
               /\ q' = [q EXCEPT ![cm] = Tail(@)]
               /\ IF Len(q[cm]) = 1 /\ slow = "OFF" THEN CycleEnd(cm, "STOP")
                  ELSE SetMotion(TRUE) /\ UNCHANGED <<machine, cycling>>

mp_exec_aline ==
  /\ HeadIs({"move"}) /\ machine[cm] = "CYCLE" /\ prep = "none"
  /\ ExecMotionStopped \/ ExecDecelComplete \/ ExecSegment

ExecCommand ==
  /\ HeadIs(Commands) /\ prep = "none"
  /\ prep' = "command"
  /\ UNCHANGED <<machines, hold, left, q>>

\* STAT_NOOP: out of a cycle, held, or waiting for the motors to stop.
ExecNothing ==
  /\ \/ prep # "none" \/ q[cm] = <<>>
     \/ /\ HeadIs({"move"})
        /\ \/ machine[cm] # "CYCLE" \/ hold[cm] \in Stopped
           \/ hold[cm] = "MOTION_STOPPING" /\ playing
  /\ UNCHANGED <<machines, hold, left, q, prep>>

Exec ==
  /\ ExecMayRun
  /\ asked' = FALSE
  /\ mp_exec_aline \/ ExecCommand \/ ExecNothing
  /\ UNCHANGED <<hold_type, requests, cm, toPlan, playing, op, at, promise>>

\* mp_runtime_command(): the command, then the buffer is freed; the last one
\* ends the cycle.
FreeCommand(queued) ==
  /\ q' = [q EXCEPT ![cm] = Tail(@) \o queued]
  /\ IF Tail(q[cm]) \o queued = <<>>
     THEN \E end \in {"STOP", "END"} : CycleEnd(cm, end)
     ELSE UNCHANGED machines

\* It may queue a command to pause the coolant, and adds the exit chain to
\* whatever the operation is then.
_feedhold_actions_done_callback ==
  /\ HeadIs({"hold done"})
  /\ FreeCommand(IF CoolantPauses THEN <<"command">> ELSE <<>>)
  /\ hold' = [hold EXCEPT ![1] = "HOLD", ![2] = "OFF"]
  /\ op' = IF queue_flush_state THEN AddTo(op, FlushChain, TRUE) ELSE op

_feedhold_restart_actions_done_callback ==
  /\ HeadIs({"restart done"})
  /\ FreeCommand(<<>>)
  /\ hold' = [hold EXCEPT ![1] = "EXIT_ACTIONS_COMPLETE"]
  /\ UNCHANGED op

OtherCommand ==
  /\ HeadIs({"command"})
  /\ FreeCommand(<<>>)
  /\ UNCHANGED <<hold, op>>

\* _load_move()
Load ==
  /\ LoadMayRun
  /\ prep' = "none" /\ asked' = TRUE
  /\ \/ /\ prep = "command"
        /\ \/ _feedhold_actions_done_callback
           \/ _feedhold_restart_actions_done_callback
           \/ OtherCommand
        /\ toPlan' = [toPlan EXCEPT ![cm] = @ \/ Len(q'[cm]) >= Len(q[cm])]
        /\ UNCHANGED playing
     \/ /\ prep \in {"segment", "null"}
        /\ playing' = (prep = "segment")
        /\ UNCHANGED <<machines, hold, q, toPlan, op>>
  /\ UNCHANGED <<hold_type, requests, cm, left, at, promise>>

SegmentEnds ==
  /\ playing
  /\ playing' = FALSE
  /\ UNCHANGED <<machines, holds, requests, planners, left, prep, asked, op, at, promise>>

Next == Main \/ Exec \/ Load \/ SegmentEnds
Spec == Init /\ [][Next]_vars

\* The interrupts are served.  The main loop is: it gets what they leave, and
\* a segment leaves enough.
FairSpec == /\ Spec
            /\ WF_vars(Exec) /\ WF_vars(Load) /\ WF_vars(SegmentEnds)
            /\ SF_vars(Main)

---------------------------------------------------------------------------
(* Properties *)

\* Planner 2 is current only while planner 1 is held: no line of the job ever
\* goes to the planner of the hold.
P2OnlyInHold == cm = 2 => hold[1] # "OFF"

\* In a hold that has made its moves nothing plays and no segment is prepared,
\* whatever was typed on the way there.
ParkedIsStill == hold[1] = "HOLD" /\ cm = 2 => ~ playing /\ prep # "segment"

\* The callback at the end of the moves of a hold can add the exit chain: the
\* list never gets so long that repack() would run.
ExitChainFits ==
  "hold done" \in ToSet(q[2]) => Len(op.acts) + Len(FlushChain) <= ACTION_MAX

\* While it is held the job loses a move only to a flush, a kill or an alarm:
\* the moves of the hold, and holds within it, leave planner 1 alone.
Moves(blocks) == Cardinality({i \in DOMAIN blocks : blocks[i] = "move"})
HeldJobIsKept ==
  [][hold[1] \in Stopped /\ Moves(q'[1]) < Moves(q[1])
     => queue_flush_state \/ job_kill_state \/ "_run_alarm" \in ToSet(op.acts)]_vars

\* Every state but OFF and HOLD is transient, as the comment on the states
\* says (cycle_feedhold.cpp:277): none of them waits for ever.
Settled == {"OFF", "HOLD"}
Settles == hold[1] \notin Settled ~> hold[1] \in Settled

\* A job kill is carried out, from whatever state it finds.
KillIsServed == job_kill_state ~> ~ job_kill_state

\* A flush that is accepted before the restart ends the hold ...
FlushEndsTheHold ==
  promise = "flush" /\ hold[1] # "OFF" ~> hold[1] = "OFF" \/ promise # "flush"

\* ... and ends it with no move of the job left to run, also when an alarm is
\* faster than the flush.
FlushDropsTheJob ==
  [][promise = "flush" /\ hold[1] # "OFF" /\ hold'[1] = "OFF"
     => Moves(q'[1]) = 0]_vars

\* "An ALARM sets the ALARM machine state" (alarm.cpp:146): an alarm that has
\* started its hold reaches it, whatever is typed meanwhile.
AlarmIsEntered == "_run_alarm" \in ToSet(op.acts) ~> machine[1] = "ALARM"

---------------------------------------------------------------------------
(* What comments say and the code does not do *)

\* "(in-cycle) !~ Start a feedhold, do enter and exit actions, exit feedhold,
\* resume motion" (cycle_feedhold.cpp:328): a resume that is accepted ends the
\* hold.
ResumeIsServed == promise = "resume" ~> hold[1] = "OFF" \/ promise # "resume"

\* "rejects new action commands ... until the alarm is cleared"
\* (alarm.cpp:148): nothing but cm_clear() ends it, and no key is that.
AlarmLasts == [][machine[1] = "ALARM" => machine'[1] = "ALARM"]_vars

=============================================================================
