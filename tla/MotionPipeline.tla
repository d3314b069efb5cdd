-------------------------- MODULE MotionPipeline --------------------------
(***************************************************************************)
(* How a queued block gets to the motors: planner callback, forward        *)
(* planning, exec, loader and step generation (planner.cpp, plan_line.cpp, *)
(* plan_exec.cpp, stepper.cpp), with no feedhold in progress.              *)
(*                                                                         *)
(* Four contexts, each preempting the ones before it:                      *)
(*   the main loop           queues blocks and back-plans them             *)
(*   the forward plan timer  computes the ramps of the next move           *)
(*   the exec timer          prepares one segment or command               *)
(*   the DDA timer           ends a segment and loads the prepared one     *)
(* A software interrupt fires as soon as it is requested and nothing of    *)
(* its priority runs.  A context is cut into steps where one above it can  *)
(* tell the difference.                                                    *)
(*                                                                         *)
(* The ring of buffers is PlannerQueue's matter: here it is the sequence   *)
(* of the committed blocks, and positions are counted from the run buffer. *)
(***************************************************************************)
EXTENDS Integers, Sequences

CONSTANTS Kinds,         \* what the main loop is asked for; a "zero length"
                         \* move queues nothing
          FullAt,        \* mp_planner_is_full() once so many are queued
          MaxSegments    \* bound on the segments of a move

ASSUME KindAssumption == 
  Kinds \subseteq {"move", "zero length", "command", "dwell"}
ASSUME SizeAssumption == FullAt \in Nat \ {0} /\ MaxSegments \in Nat \ {0}

\* bufferState; NOT_PLANNED looks like INITIALIZING to every interrupt.
INITIALIZING == 1
BACK_PLANNED == 3
FULLY_PLANNED == 4
RUNNING == 5

VARIABLES
  queue,          \* the committed blocks, [kind, state], the run buffer first
  mainAt,         \* "ready", "aline", "zero length" or "planning"
  planner_state,  \* "IDLE", "STARTUP" or "PRIMING"
  block_timeout,  \* is the timer set that a commit starts?
  cycle,          \* machine_state is MACHINE_CYCLE and cycle_type MACHINING
  motion,         \* motion_state is MOTION_RUN
  ramps,          \* position of the block whose ramps are in mr->p; 0: none
  segments,       \* segments of the active move still to be prepared; 0:
                  \* mr->block_state is BLOCK_INACTIVE
  prep,           \* st_pre: its owner, what it holds and for which block
  playing,        \* dda_ticks_downcount or dwell_ticks_downcount is not 0
  toolhead_busy,
  load_requested, \* st_cfg.load_move_requested
  execPending, execAt,   \* exec timer: pending; "out" or "handover"
  planPending, planAt,   \* forward plan timer: pending; position it is at
  unloaded,       \* history: prepared less loaded
  lost,           \* history: a cycle ended between cm_cycle_start() and the
                  \* commit of the move it was started for
  stray           \* history: a zero-length move has left a cycle behind that
                  \* nothing in the queue will end

mainVars == <<mainAt, planner_state, block_timeout>>
history == <<lost, stray>>
runtime == <<segments, prep, playing, toolhead_busy, unloaded>>
vars == <<queue, mainVars, cycle, motion, ramps, runtime, load_requested,
          execPending, execAt, planPending, planAt, history>>

Block == [kind : Kinds \ {"zero length"},
          state : {INITIALIZING, BACK_PLANNED, FULLY_PLANNED, RUNNING}]
Prep == [owner : {"exec", "loader"}, what : {"null", "line", "dwell", "command"},
         at : 0 .. FullAt]

TypeOK ==
  /\ queue \in Seq(Block) /\ Len(queue) <= FullAt
  /\ mainAt \in {"ready", "aline", "zero length", "planning"}
  /\ planner_state \in {"IDLE", "STARTUP", "PRIMING"}
  /\ ramps \in 0 .. FullAt
  /\ segments \in 0 .. MaxSegments
  /\ prep \in Prep
  /\ execAt \in {"out", "handover"}
  /\ planAt \in 0 .. FullAt
  /\ unloaded \in Int
  /\ {block_timeout, cycle, motion, playing, toolhead_busy, load_requested,
      execPending, planPending, lost, stray} \subseteq BOOLEAN

Init ==
  /\ queue = <<>>
  /\ mainAt = "ready" /\ planner_state = "IDLE" /\ block_timeout = FALSE
  /\ cycle = FALSE /\ motion = FALSE
  /\ ramps = 0 /\ segments = 0
  /\ prep = [owner |-> "exec", what |-> "null", at |-> 0]
  /\ playing = FALSE /\ toolhead_busy = FALSE /\ load_requested = FALSE
  /\ execPending = FALSE /\ execAt = "out"
  /\ planPending = FALSE /\ planAt = 0
  /\ unloaded = 0 /\ lost = FALSE /\ stray = FALSE

Planned(k) == k <= Len(queue) /\ queue[k].state >= BACK_PLANNED
st_runtime_isbusy == playing \/ toolhead_busy

\* Whose turn it is.  The main loop runs when no interrupt is wanted.
ExecMayRun == execAt = "out"
ForwardPlanMayRun == execAt = "out" /\ ~ execPending
MainMayRun == ForwardPlanMayRun /\ ~ planPending /\ planAt = 0

\* A position after the run buffer has been freed.
Shifted(k) == IF k > 0 THEN k - 1 ELSE 0

\* cm_cycle_end(), cm_set_motion_state(MOTION_STOP)
cm_cycle_end == /\ cycle' = FALSE
                /\ motion' = (IF cycle THEN FALSE ELSE motion)
                /\ lost' = (lost \/ (cycle /\ mainAt = "aline"))
                /\ stray' = FALSE

\* mp_free_run_buffer(); a command or a dwell that empties the queue ends
\* the cycle.
FreeBlock ==
  /\ queue' = Tail(queue)
  /\ ramps' = Shifted(ramps)
  /\ planAt' = Shifted(planAt)
\* Mutant: no command ends the cycle.
FreeCommandKeepsCycle == FreeBlock /\ UNCHANGED <<cycle, motion, history>>
FreeCommand ==
  /\ FreeBlock
  /\ IF Len(queue) = 1 THEN cm_cycle_end ELSE UNCHANGED <<cycle, motion, history>>

---------------------------------------------------------------------------
(* Main loop *)

\* Mutant: the line is not held back until the planner has room.
StartWithoutRoom ==
  /\ MainMayRun
  /\ mainAt = "ready"
  /\ cycle' = TRUE
  /\ UNCHANGED <<queue, planner_state, block_timeout, motion, ramps, runtime,
                 load_requested, execPending, execAt, planPending, planAt, history>>

\* cm_straight_feed() and cm_straight_traverse(), up to mp_aline(): the cycle
\* starts before there is a block.
cm_cycle_start ==
  /\ MainMayRun
  /\ mainAt = "ready" /\ Len(queue) < FullAt
  /\ cycle' = TRUE
  /\ UNCHANGED <<queue, planner_state, block_timeout, motion, ramps, runtime,
                 load_requested, execPending, execAt, planPending, planAt, history>>
StartMove == "move" \in Kinds /\ cm_cycle_start /\ mainAt' = "aline"
StartZeroLengthMove ==
  "zero length" \in Kinds /\ cm_cycle_start /\ mainAt' = "zero length"

\* mp_commit_write_buffer().  A command asks for planning at once, unless the
\* planner is still waiting for more blocks.
Commit(kind) ==
  /\ queue' = Append(queue, [kind |-> kind, state |-> INITIALIZING])
  /\ block_timeout' = TRUE
  /\ planPending' = (planPending \/ (kind # "move" /\ planner_state = "PRIMING"))
  /\ mainAt' = "ready"
  /\ UNCHANGED <<planner_state, cycle, motion, ramps, runtime, load_requested,
                 execPending, execAt, planAt, history>>

CommitMove == MainMayRun /\ mainAt = "aline" /\ Commit("move")

\* mp_queue_command(), mp_dwell()
QueueCommand ==
  /\ MainMayRun
  /\ mainAt = "ready" /\ Len(queue) < FullAt
  /\ \E kind \in Kinds \ {"move", "zero length"} : Commit(kind)

\* Mutant: the cycle ends although blocks are queued.
EndZeroLengthWhileQueued ==
  /\ MainMayRun
  /\ mainAt = "zero length"
  /\ mainAt' = "ready"
  /\ IF ~ st_runtime_isbusy
       THEN cm_cycle_end ELSE UNCHANGED <<cycle, motion, history>>
  /\ UNCHANGED <<queue, planner_state, block_timeout, ramps, runtime,
                 load_requested, execPending, execAt, planPending, planAt>>

\* mp_aline() returns STAT_MINIMUM_LENGTH_MOVE: nothing was queued.
EndZeroLengthMove ==
  /\ MainMayRun
  /\ mainAt = "zero length"
  /\ mainAt' = "ready"
  /\ IF queue = <<>> /\ ~ st_runtime_isbusy
       THEN cm_cycle_end
       ELSE /\ stray' = (stray \/ (queue = <<>> /\ cycle))
            /\ UNCHANGED <<cycle, motion, lost>>
  /\ UNCHANGED <<queue, planner_state, block_timeout, ramps, runtime,
                 load_requested, execPending, execAt, planPending, planAt>>

\* mp_planner_callback(), up to mp_plan_block_list().
mp_planner_callback(timed_out) ==
  /\ MainMayRun
  /\ mainAt = "ready"
  /\ timed_out => block_timeout
  /\ LET full == Len(queue) >= FullAt
     IN IF queue = <<>> /\ ~ motion
          THEN /\ planner_state' = "IDLE"
               /\ UNCHANGED <<block_timeout, mainAt>>
          ELSE /\ block_timeout' = (block_timeout /\ ~ timed_out)
               /\ IF planner_state # "PRIMING" /\ ~ full /\ ~ timed_out
                    THEN planner_state' = "STARTUP" /\ UNCHANGED mainAt
                    ELSE planner_state' = "PRIMING" /\ mainAt' = "planning"
  /\ UNCHANGED <<queue, cycle, motion, ramps, runtime, load_requested,
                 execPending, execAt, planPending, planAt, history>>
PlannerCallback == mp_planner_callback(FALSE)
PlannerTimeout == mp_planner_callback(TRUE)

\* mp_plan_block_list() and _plan_block(): back-planning goes from the newest
\* block back, one block a step.  Blocks planned in an earlier pass only get
\* new velocities.  When all are planned the forward planner is asked.
PlanBlock ==
  /\ MainMayRun
  /\ mainAt = "planning"
  /\ LET new == {k \in DOMAIN queue : queue[k].state = INITIALIZING}
     IN \/ \E k \in new :
             /\ \A j \in new : j <= k
             /\ queue' = [queue EXCEPT ![k].state = BACK_PLANNED]
             /\ UNCHANGED <<mainAt, planPending>>
        \/ /\ new = {}
           /\ mainAt' = "ready"
           /\ planPending' = TRUE
           /\ UNCHANGED queue
  /\ UNCHANGED <<planner_state, block_timeout, cycle, motion, ramps, runtime,
                 load_requested, execPending, execAt, planAt, history>>

---------------------------------------------------------------------------
(* Forward planning *)

\* Mutant: a move that has its ramps does not stop the planner.
PassedWhenPlanned(b) == b.kind # "move" \/ b.state = FULLY_PLANNED
\* The planner goes on to the next block.
Passed(b) == b.kind # "move"

\* The first block that is not running.
First == IF queue[1].state = RUNNING THEN 2 ELSE 1

\* mp_forward_plan(), up to the end of mp_calculate_ramps(): commands at the
\* front are marked, the first move behind them gets its ramps.  STAT_NOOP
\* when there was nothing to do, STAT_OK when there is no block at all.
ForwardPlan ==
  /\ ForwardPlanMayRun
  /\ planPending /\ planAt = 0
  /\ planPending' = FALSE
  /\ \/ /\ ~ Planned(1)
        /\ execPending' = TRUE
        /\ UNCHANGED <<queue, ramps, planAt>>
     \/ /\ Planned(1)
        /\ \E move \in First .. Len(queue) + 1 :
             LET marked == {k \in First .. move - 1 : queue[k].state = BACK_PLANNED}
             IN /\ \A k \in First .. move - 1 : Passed(queue[k])
                /\ move <= Len(queue) => ~ Passed(queue[move])
                /\ queue' = [k \in DOMAIN queue |-> IF k \in marked
                               THEN [queue[k] EXCEPT !.state = FULLY_PLANNED]
                               ELSE queue[k]]
                /\ \/ /\ move <= Len(queue)
                      /\ queue[move].state = BACK_PLANNED
                      /\ ramps' = move
                      /\ planAt' = move
                      /\ UNCHANGED execPending
                   \/ /\ move <= Len(queue) => queue[move].state # BACK_PLANNED
                      /\ execPending' = (execPending \/ marked # {})
                      /\ UNCHANGED <<ramps, planAt>>
  /\ UNCHANGED <<mainVars, cycle, motion, runtime, load_requested, execAt, history>>

\* _plan_aline() marks the block, the interrupt asks for exec.
ForwardPlanned ==
  /\ ForwardPlanMayRun
  /\ planAt # 0
  /\ queue' = [queue EXCEPT ![planAt].state = FULLY_PLANNED]
  /\ planAt' = 0
  /\ execPending' = TRUE
  /\ UNCHANGED <<mainVars, cycle, motion, ramps, runtime, load_requested, execAt,
                 planPending, history>>

---------------------------------------------------------------------------
(* Loader *)

\* Mutant: exec is not asked for the next.
LoadWithoutRequest(p) ==
  /\ prep' = [owner |-> "exec", what |-> "null", at |-> 0]
  /\ unloaded' = (IF p.what = "null" THEN unloaded ELSE unloaded - 1)
  /\ UNCHANGED execPending
  /\ playing' = (p.what \in {"line", "dwell"})
  /\ toolhead_busy' \in IF p.what = "command" THEN BOOLEAN ELSE {FALSE}
  /\ IF p.what = "command"
       THEN FreeCommand
       ELSE UNCHANGED <<queue, ramps, planAt, cycle, motion, history>>

\* _load_move() takes what is in the prep buffer, which the loader owns, into
\* the runtime and asks exec for the next.  A command runs here, once the
\* toolhead has been told of it; a spindle may have to ramp.
Load(p) ==
  /\ prep' = [owner |-> "exec", what |-> "null", at |-> 0]
  /\ unloaded' = (IF p.what = "null" THEN unloaded ELSE unloaded - 1)
  /\ execPending' = TRUE
  /\ playing' = (p.what \in {"line", "dwell"})
  /\ toolhead_busy' \in IF p.what = "command" THEN BOOLEAN ELSE {FALSE}
  /\ IF p.what = "command"
       THEN FreeCommand
       ELSE UNCHANGED <<queue, ramps, planAt, cycle, motion, history>>

\* The DDA has made the last step of a segment, or the dwell is over, and the
\* loader is called.
RunDone ==
  /\ playing
  /\ IF prep.owner = "loader" /\ ~ toolhead_busy
       THEN Load(prep)
       ELSE /\ playing' = FALSE
            /\ UNCHANGED <<queue, ramps, planAt, cycle, motion, history, prep,
                           unloaded, toolhead_busy, execPending>>
  /\ UNCHANGED <<mainVars, segments, load_requested, execAt, planPending>>

\* ESCSpindle::_handle_systick() has reached the speed.
ToolheadReady ==
  /\ toolhead_busy
  /\ toolhead_busy' = FALSE
  /\ load_requested' = TRUE
  /\ UNCHANGED <<queue, mainVars, cycle, motion, ramps, segments, prep, playing,
                 unloaded, execPending, execAt, planPending, planAt, history>>

\* st_check_load_move(), from the main loop
CheckLoadMove ==
  /\ MainMayRun
  /\ mainAt = "ready"
  /\ load_requested /\ ~ st_runtime_isbusy /\ prep.owner = "loader"
  /\ load_requested' = FALSE
  /\ Load(prep)
  /\ UNCHANGED <<mainVars, segments, execAt, planPending>>

---------------------------------------------------------------------------
(* Exec *)

\* mp_exec_move() found nothing to run: st_prep_null(), STAT_NOOP.
PrepNull == /\ prep' = [prep EXCEPT !.what = "null", !.owner = "exec"]
            /\ UNCHANGED <<unloaded, execAt>>

\* st_prep_line(), st_prep_dwell(), st_prep_command(); the interrupt has still
\* to hand the buffer over.
PrepareFor(what, at) == /\ prep' = [owner |-> "loader", what |-> what, at |-> at]
                        /\ unloaded' = unloaded + 1
                        /\ execAt' = "handover"

LastSegment(n) == n = 1

\* mp_exec_aline(): one segment of the run block.  The first one takes over
\* the ramps of mr->p; after the last one the block is freed, and the cycle
\* ends if it was the last block.
ExecSegment ==
  /\ cycle
  /\ \E n \in IF segments = 0 THEN 1 .. MaxSegments ELSE {segments} :
       /\ segments' = n - 1
       /\ PrepareFor("line", 0)
       /\ LET left == IF segments = 0 THEN 0 ELSE ramps
          IN \/ /\ ~ LastSegment(n)
                /\ queue' = [queue EXCEPT ![1].state = RUNNING]
                /\ ramps' = left
                /\ motion' = TRUE
                /\ planPending' = (planPending \/ Planned(2))
                /\ UNCHANGED <<planAt, cycle, history>>
             \/ /\ LastSegment(n)
                /\ queue' = Tail(queue)
                /\ ramps' = Shifted(left)
                /\ planAt' = Shifted(planAt)
                /\ planPending' = (planPending \/ Len(queue) > 1)
                /\ IF Len(queue) = 1 THEN cm_cycle_end
                   ELSE motion' = TRUE /\ UNCHANGED <<cycle, history>>

\* ... which runs nothing unless the machine is in cycle; the block has been
\* marked RUNNING by then.
ExecOutOfCycle ==
  /\ ~ cycle
  /\ queue' = [queue EXCEPT ![1].state = RUNNING]
  /\ planPending' = (planPending \/ Planned(2))
  /\ UNCHANGED <<ramps, planAt, cycle, motion, history, segments, prep, unloaded, execAt>>

\* The run block is not planned, or not as far as a move needs to be.
ExecNothing ==
  /\ PrepNull
  /\ \/ ~ Planned(1) /\ UNCHANGED planPending
     \/ /\ Planned(1)
        /\ queue[1].kind = "move" /\ queue[1].state = BACK_PLANNED
        /\ planPending' = TRUE
  /\ UNCHANGED <<queue, ramps, planAt, cycle, motion, history, segments>>

ExecMove ==
  /\ Planned(1)
  /\ queue[1].kind = "move" /\ queue[1].state > BACK_PLANNED
  /\ ExecSegment \/ ExecOutOfCycle

\* Mutant: the buffer is freed when the command is staged.
ExecCommandFrees ==
  /\ Planned(1)
  /\ queue[1].kind = "command"
  /\ PrepareFor("command", 1)
  /\ FreeCommand
  /\ UNCHANGED <<segments, planPending>>

ExecCommand ==
  /\ Planned(1)
  /\ queue[1].kind = "command"
  /\ PrepareFor("command", 1)
  /\ UNCHANGED <<queue, ramps, planAt, cycle, motion, history, segments, planPending>>

ExecDwell ==
  /\ Planned(1)
  /\ queue[1].kind = "dwell"
  /\ PrepareFor("dwell", 0)
  /\ FreeCommand
  /\ UNCHANGED <<segments, planPending>>

mp_exec_move == ExecNothing \/ ExecMove \/ ExecCommand \/ ExecDwell

\* Mutant: the owner of the prep buffer is not looked at.
ExecWhoeverOwns ==
  /\ ExecMayRun
  /\ execPending
  /\ execPending' = FALSE
  /\ mp_exec_move
  /\ UNCHANGED <<mainVars, playing, toolhead_busy, load_requested>>

Exec ==
  /\ ExecMayRun
  /\ execPending
  /\ execPending' = FALSE
  /\ \/ prep.owner = "exec" /\ mp_exec_move
     \/ /\ prep.owner = "loader"
        /\ UNCHANGED <<queue, ramps, planAt, cycle, motion, history, segments, prep,
                       unloaded, execAt, planPending>>
  /\ UNCHANGED <<mainVars, playing, toolhead_busy, load_requested>>

\* The end of the exec interrupt: whatever became of the buffer meanwhile, it
\* is the loader's now, and st_request_load_move() loads it if it can.
HandOver ==
  /\ execAt = "handover"
  /\ execAt' = "out"
  /\ LET mine == [prep EXCEPT !.owner = "loader"]
     IN IF st_runtime_isbusy
          THEN /\ prep' = mine
               /\ UNCHANGED <<queue, ramps, planAt, cycle, motion, history, playing,
                              toolhead_busy, unloaded, execPending>>
          ELSE Load(mine)
  /\ UNCHANGED <<mainVars, segments, load_requested, planPending>>

Next ==
  \/ StartMove \/ StartZeroLengthMove \/ CommitMove \/ QueueCommand
  \/ EndZeroLengthMove \/ PlannerCallback \/ PlannerTimeout \/ PlanBlock
  \/ CheckLoadMove
  \/ ForwardPlan \/ ForwardPlanned
  \/ Exec \/ HandOver
  \/ RunDone \/ ToolheadReady

\* Interrupts that are wanted come, timers run out and the spindle reaches
\* its speed.  The main loop gets its turn when no interrupt is wanted, and
\* controller_run() makes each of its calls on every pass, however short the
\* time in which the call finds something to do: strong fairness.  Nobody
\* promises another line.
Fairness ==
  /\ WF_vars(CommitMove) /\ WF_vars(EndZeroLengthMove)
  /\ WF_vars(PlanBlock)
  /\ SF_vars(PlannerCallback) /\ SF_vars(PlannerTimeout) /\ SF_vars(CheckLoadMove)
  /\ WF_vars(ForwardPlan) /\ WF_vars(ForwardPlanned)
  /\ WF_vars(Exec) /\ WF_vars(HandOver)
  /\ WF_vars(RunDone) /\ WF_vars(ToolheadReady)

Spec == Init /\ [][Next]_vars
FairSpec == Spec /\ Fairness

---------------------------------------------------------------------------
(* Properties *)

\* What exec prepares the loader loads, once: nothing is overwritten in the
\* prep buffer before it was loaded, nothing is loaded twice.
PreparedIsLoadedOnce == unloaded = IF prep.what = "null" THEN 0 ELSE 1

\* The command waiting in the prep buffer is the block at the head of the
\* queue, which mp_runtime_command() frees after running it.
StagedCommandIsRunBlock ==
  prep.what = "command" => /\ prep.at = 1
                           /\ queue # <<>> /\ queue[1].kind = "command"
                           /\ segments = 0

\* mr->p holds the ramps of the next move to start, when that move is taken
\* for planned ("BF/MR sequencing"); unless its cycle was lost.
NextMoveHasItsRamps ==
  lost \/ \A k \in DOMAIN queue :
            /\ queue[k].kind = "move"
            /\ queue[k].state = FULLY_PLANNED \/ (queue[k].state = RUNNING /\ segments = 0)
            => ramps = k

\* At most the head of the queue is RUNNING, and it is while it has segments.
OnlyHeadRuns ==
  /\ \A k \in DOMAIN queue : queue[k].state = RUNNING => k = 1
  /\ segments > 0 => queue # <<>> /\ queue[1].state = RUNNING

\* A move waits outside the cycle only when that cycle was lost.
MovesAreInCycle ==
  lost \/ \A k \in DOMAIN queue : queue[k].kind = "move" => cycle

\* Blocks keep running: the queue gets empty or a block is freed, again and
\* again.
Progress == \/ []<>(queue = <<>>)
            \/ []<><<Len(queue') < Len(queue)>>_queue
BlocksRun == Progress \/ <>lost
\* When the queue has become empty and no line is being queued the cycle ends,
\* but for the one that a zero-length move starts during the last segment.
CycleEnds ==
  []<>(~ cycle \/ queue # <<>> \/ mainAt \in {"aline", "zero length"} \/ stray)

\* "The queue can be viewed as a list of instructions that will execute in
\* exact sequence" (planner.h:62), so every block is executed.
EveryBlockRuns == Progress
===========================================================================
