------------------------------ MODULE PinHold ------------------------------
(***************************************************************************)
(* What probing and homing have in common: a digital input whose interrupt *)
(* requests a feedhold of type SKIP, the operation runner that carries it  *)
(* out in the main loop, and one axis that moves until it is stopped.      *)
(*                                                                         *)
(* The input is in contact from the position "surface" on.  Motion is cut  *)
(* into steps of one position; a hold may take one more of them to brake.  *)
(* The main loop is cut wherever the interrupts, of the input and of the   *)
(* exec, can change what the next piece reads: the planner's callback, the *)
(* start of an operation, each of its actions, its reset, and the cycle's  *)
(* callback, which is a matter of the modules that extend this one.        *)
(***************************************************************************)
EXTENDS Integers, Sequences

CONSTANTS Far,         \* positions that can be commanded are 0 .. Far
          Surfaces,    \* the positions of the contact that are looked at
          MaxChatter,  \* bound on the number of times the contact opens again
          MaxKeys      \* bound on the number of holds from outside

ASSUME BoundAssumption ==
  Far \in Nat \ {0} /\ Surfaces \subseteq Nat /\ MaxChatter \in Nat /\ MaxKeys \in Nat

VARIABLES
  at,           \* where the main loop is
  queue,        \* the planner's queue: moves and commands
  pos,          \* mr->position, and the encoders
  model,        \* gmx.position, where the Gcode model thinks the machine is
  cycle,        \* cycle_type
  machine,      \* machine_state
  hold,         \* hold_state
  holdType,     \* hold_type
  flush, start, \* are queue_flush_state and cycle_start_state REQUESTED?
  op,           \* the actions that are still to run, the current one first
  inOperation,  \* in_operation
  surface,      \* the position of contact
  level,        \* is the input active?
  bouncing,     \* has the contact opened for a moment?
  lockout,      \* is lockout_timer running?
  waiting,      \* waiting_for_motion_complete, waiting_for_motion_end
  snapshot,     \* the position in the encoder snapshot
  chatter, keys \* bounces, and holds from outside, so far

input == <<surface, level, bouncing, lockout, chatter>>
motion == <<queue, pos, waiting>>
holding == <<hold, holdType, op>>
requests == <<flush, start, keys>>

\* A command "done" tells the cycle that the move before it has ended.  A
\* command is held if it was planned when the move before it was dropped: no
\* one asks for it before the queue is planned anew.
Block(kind, to) == [kind |-> kind, to |-> to, held |-> FALSE]
Blocks == [kind : {"move", "done", "other"}, to : Int, held : BOOLEAN]
Held(b) == [i \in DOMAIN queue |-> [queue[i] EXCEPT !.held = b]]
Braking == {"SYNC", "DECEL"}
Touching == pos >= surface

PinTypeOK ==
  /\ at \in {"planner", "operation", "run", "reset", "cycle", "function", "register"}
  /\ queue \in Seq(Blocks)
  /\ pos \in Int /\ model \in Int /\ snapshot \in Int
  /\ machine \in {"STOP", "CYCLE", "ALARM"}
  /\ hold \in {"OFF", "STOPPED", "HOLD"} \cup Braking
  /\ holdType \in {"HOLD", "SKIP"}
  /\ op \in Seq({"skip", "no actions", "stop", "reset position", "alarm",
                 "restart", "restart cycle", "flush"}) /\ Len(op) <= 5
  /\ {flush, start, inOperation, level, bouncing, lockout, waiting} \subseteq BOOLEAN
  /\ chatter \in 0 .. MaxChatter /\ keys \in 0 .. MaxKeys

PinInit ==
  /\ at = "planner"
  /\ queue = <<>> /\ pos = 0 /\ model = 0
  /\ cycle = "NONE" /\ machine = "STOP"
  /\ hold = "OFF" /\ holdType = "HOLD"
  /\ flush = FALSE /\ start = FALSE
  /\ op = <<>> /\ inOperation = FALSE
  /\ surface \in Surfaces
  /\ level = Touching /\ bouncing = FALSE /\ lockout = FALSE
  /\ waiting = FALSE /\ snapshot = 0
  /\ chatter = 0 /\ keys = 0

---------------------------------------------------------------------------
(* Requests *)

\* op.add_action(), which refuses during an operation.  No list gets longer
\* than it has room for.
Added(actions) == IF inOperation THEN op ELSE op \o actions

\* cm_request_feedhold() with an idle toolhead.  Mutant: as long as the hold
\* has not come to its end, it can be requested again.
RequestFeedholdAgain(type, actions) ==
  /\ hold' = "SYNC" /\ holdType' = type /\ op' = Added(actions)
RequestFeedhold(type, actions) ==
  IF machine \notin {"CYCLE", "STOP"}
    THEN hold' = "OFF" /\ UNCHANGED <<holdType, op>>
  ELSE IF hold = "OFF"
    THEN hold' = "SYNC" /\ holdType' = type /\ op' = Added(actions)
  ELSE UNCHANGED holding

\* Such a request is made, and its actions are refused.
Refused == hold = "OFF" /\ inOperation /\ machine \in {"CYCLE", "STOP"}

---------------------------------------------------------------------------
(* Motion, run by the exec and the loader *)

\* cm_cycle_end()
CycleEnd == IF cycle = "MACHINING" THEN cycle' = "NONE" /\ machine' = "STOP"
                                   ELSE UNCHANGED <<cycle, machine>>
HasMove == queue # <<>> /\ Head(queue).kind = "move"

\* A step of the current move, the last before the stop if a hold is braking.
\* A move that ends in the braking leaves it to the next, and one that leaves
\* the contact ends its bouncing.
Move ==
  /\ HasMove /\ machine = "CYCLE" /\ hold \in {"OFF", "SYNC"}
  /\ level = Touching \/ bouncing
  /\ pos' = (IF Head(queue).to > pos THEN pos + 1 ELSE pos - 1)
  /\ queue' = (IF Head(queue).to = pos' THEN Tail(queue) ELSE queue)
  /\ hold' = (IF hold = "SYNC" THEN "DECEL" ELSE hold)
  /\ IF queue' = <<>> /\ hold = "OFF" THEN CycleEnd ELSE UNCHANGED <<cycle, machine>>
  /\ bouncing' = (bouncing /\ pos' >= surface)
  /\ UNCHANGED <<at, model, holdType, flush, start, op, inOperation, surface, level,
                 lockout, chatter, waiting, snapshot, keys>>

\* The motors have stopped (_exec_aline_feedhold()): of a SKIP hold the rest
\* of the block is dropped.
Stop ==
  /\ HasMove /\ machine = "CYCLE" /\ hold \in Braking
  /\ level = Touching \/ bouncing
  /\ hold' = "STOPPED"
  /\ queue' = (IF holdType = "SKIP" THEN Tail(Held(TRUE)) ELSE queue)
  /\ UNCHANGED <<at, pos, model, cycle, machine, holdType, flush, start, op, inOperation,
                 input, waiting, snapshot, keys>>

\* mp_runtime_command()
RunCommand ==
  /\ queue # <<>> /\ ~ HasMove
  /\ ~ Head(queue).held /\ hold # "HOLD"
  /\ queue' = Tail(queue)
  /\ waiting' = (waiting /\ Head(queue).kind # "done")
  /\ IF queue' = <<>> THEN CycleEnd ELSE UNCHANGED <<cycle, machine>>
  /\ UNCHANGED <<at, pos, model, holding, flush, start, inOperation, input, snapshot, keys>>

---------------------------------------------------------------------------
(* The input *)

\* An edge: the contact follows the position, or chatters.
EdgeTo(l) ==
  /\ level' = l
  /\ lockout' = TRUE
  /\ \/ l # level /\ l = Touching /\ bouncing' = FALSE /\ UNCHANGED chatter
     \/ /\ Touching /\ level /\ ~ l /\ chatter < MaxChatter
        /\ bouncing' = TRUE /\ chatter' = chatter + 1
  /\ UNCHANGED surface

\* The end of lockout_ms.  The level is not looked at again.
LockoutEnds ==
  /\ lockout /\ lockout' = FALSE
  /\ UNCHANGED <<at, motion, model, cycle, machine, holding, requests, inOperation,
                 surface, level, bouncing, chatter, snapshot>>

---------------------------------------------------------------------------
(* The main loop up to the cycle's callback *)

\* mp_planner_callback(), as far as holds are concerned.  Mutant: a hold whose
\* move has come to its end in the braking is not taken care of.
NotedNever == hold
Noted == IF queue = <<>> /\ hold \in Braking THEN "STOPPED" ELSE hold
mp_planner_callback ==
  /\ at = "planner" /\ at' = "operation"
  /\ hold' = Noted
  /\ UNCHANGED <<motion, model, cycle, machine, holdType, op, requests, inOperation,
                 input, snapshot>>

\* _start_queue_flush() and _start_cycle_restart(), and the start of
\* op.run_operation()
StartOperation ==
  LET held == hold = "HOLD"
      actions == (IF flush /\ held THEN <<"restart", "flush", "stop">> ELSE <<>>)
                   \o (IF start /\ held THEN <<"restart", "restart cycle">> ELSE <<>>)
  IN /\ at = "operation"
     /\ op' = Added(actions)
     /\ start' = (start /\ ~ held)
     /\ IF op' = <<>> THEN at' = "cycle" /\ UNCHANGED inOperation
                      ELSE at' = "run" /\ inOperation' = TRUE
     /\ UNCHANGED <<motion, model, cycle, machine, hold, holdType, flush, keys, input,
                    snapshot>>

\* An action that is done, and one that has to be called again
Next_(action) == /\ at = "run" /\ Head(op) = action
                 /\ op' = Tail(op)
                 /\ at' = IF Len(op) = 1 THEN "reset" ELSE "run"
Again(action) == /\ at = "run" /\ Head(op) = action
                 /\ at' = "planner" /\ UNCHANGED op

_feedhold_skip ==
  /\ \/ /\ Next_("skip")
        /\ machine # "CYCLE" /\ UNCHANGED <<queue, hold, holdType>>
     \/ /\ Next_("skip")
        /\ machine = "CYCLE" /\ hold \in {"STOPPED", "HOLD"}
        /\ hold' = "OFF" /\ queue' = Held(FALSE) /\ UNCHANGED holdType
     \/ /\ Again("skip")
        /\ machine = "CYCLE" /\ hold \notin {"STOPPED", "HOLD"}
        /\ IF hold = "OFF" THEN hold' = "SYNC" /\ holdType' = "SKIP"
                           ELSE UNCHANGED <<hold, holdType>>
        /\ UNCHANGED queue
  /\ UNCHANGED <<pos, waiting, model, cycle, machine, requests, inOperation, input, snapshot>>

\* With no hold in effect it starts one, or is in it if nothing moves.
_feedhold_no_actions ==
  /\ \/ /\ Next_("no actions")
        /\ hold \in {"STOPPED", "HOLD"} \/ (hold = "OFF" /\ ~ HasMove)
        /\ hold' = "HOLD" /\ queue' = Held(FALSE)
        /\ holdType' = (IF hold = "OFF" THEN "HOLD" ELSE holdType)
     \/ /\ Again("no actions")
        /\ hold = "OFF" /\ HasMove /\ hold' = "SYNC" /\ holdType' = "HOLD"
        /\ UNCHANGED queue
     \/ /\ Again("no actions")
        /\ hold \in Braking /\ UNCHANGED <<queue, hold, holdType>>
  /\ UNCHANGED <<pos, waiting, model, cycle, machine, requests, inOperation, input, snapshot>>

_run_program_stop ==
  /\ Next_("stop")
  /\ hold' = "OFF"
  /\ CycleEnd
  /\ UNCHANGED <<motion, model, holdType, requests, inOperation, input, snapshot>>

_run_reset_position ==
  /\ Next_("reset position")
  /\ model' = pos
  /\ UNCHANGED <<motion, cycle, machine, hold, holdType, requests, inOperation, input,
                 snapshot>>

\* _feedhold_restart_no_actions(): nothing to do in the first planner
_feedhold_restart_no_actions ==
  /\ Next_("restart")
  /\ UNCHANGED <<motion, model, cycle, machine, hold, holdType, requests, inOperation,
                 input, snapshot>>

_run_restart_cycle ==
  /\ Next_("restart cycle")
  /\ hold' = (IF hold \in {"STOPPED", "SYNC"} THEN hold ELSE "OFF")
  /\ IF hold = "STOPPED" THEN UNCHANGED <<cycle, machine>>
     ELSE IF queue = <<>> THEN CycleEnd
     ELSE IF cycle = "NONE" THEN cycle' = "MACHINING" /\ machine' = "CYCLE"
     ELSE UNCHANGED <<cycle, machine>>
  /\ UNCHANGED <<motion, model, holdType, requests, inOperation, input, snapshot>>

\* The end of the operation: from here on actions can be added again.
ResetOperation ==
  /\ at = "reset" /\ at' = "cycle"
  /\ op' = <<>> /\ inOperation' = FALSE
  /\ UNCHANGED <<motion, model, cycle, machine, hold, holdType, requests, input, snapshot>>

RunAction == \/ _feedhold_skip \/ _feedhold_no_actions \/ _run_program_stop
             \/ _run_reset_position \/ _feedhold_restart_no_actions \/ _run_restart_cycle

---------------------------------------------------------------------------
(* Requests from outside, read between two passes *)

\* The key "!", which in a probe is a hold without actions
FeedholdKey ==
  /\ at = "planner" /\ keys < MaxKeys /\ keys' = keys + 1
  /\ RequestFeedhold("HOLD", <<"no actions">>)
  /\ UNCHANGED <<at, motion, model, cycle, machine, flush, start, inOperation, input,
                 snapshot>>
\* cm_alarm(), of a limit switch
LimitSwitch ==
  /\ at = "planner" /\ keys < MaxKeys /\ keys' = keys + 1
  /\ machine # "ALARM"
  /\ RequestFeedhold("HOLD", <<"no actions", "alarm">>)
  /\ UNCHANGED <<at, motion, model, cycle, machine, flush, start, inOperation, input,
                 snapshot>>
\* The keys "~" and "%"
CycleStartKey ==
  /\ at = "planner" /\ hold # "OFF"
  /\ start' = ~ flush
  /\ UNCHANGED <<at, motion, model, cycle, machine, holding, flush, keys, inOperation,
                 input, snapshot>>
FlushKey ==
  /\ at = "planner"
  /\ flush' = (hold # "OFF")
  /\ UNCHANGED <<at, motion, model, cycle, machine, holding, start, keys, inOperation,
                 input, snapshot>>

MoveOrCommand == Move \/ Stop \/ RunCommand
BeforeCycle == mp_planner_callback \/ StartOperation \/ RunAction \/ ResetOperation
Keys == FeedholdKey \/ LimitSwitch \/ CycleStartKey \/ FlushKey
=============================================================================
