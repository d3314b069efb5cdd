------------------------------ MODULE Homing ------------------------------
(***************************************************************************)
(* The homing cycle of one axis (cycle_homing.cpp): clear the switch if it *)
(* is closed, search for it, clear it, approach it again slowly, back off  *)
(* and set the position.  Every step queues a move relative to where the   *)
(* Gcode model thinks the machine is, and is followed by the next one when *)
(* the command behind that move has run.                                   *)
(*                                                                         *)
(* Unlike probing the cycle pays no attention to holds: it relies on the   *)
(* operation of its SKIP hold being over before the command has run.       *)
(***************************************************************************)
EXTENDS PinHold

CONSTANTS Travel, Backoff, ZeroBackoff,   \* the distances of the moves
          Jobs,                           \* where moves of the job go to
          MaxHomings                      \* bound on the number of cycles

ASSUME HomingAssumption ==
  /\ {Travel, Backoff} \subseteq Nat \ {0} /\ ZeroBackoff \in Nat
  /\ Jobs \subseteq 0 .. Far /\ MaxHomings \in Nat

VARIABLES
  func,             \* hm.func
  axis,             \* hm.axis: has an axis been started?
  set_coordinates,  \* of hm
  registered,       \* is the handler in the list of the input?
  modes,            \* whose the modal settings are
  homing_state,     \* is the machine homed?
  homings,          \* cycles so far
  zero,             \* history: where the position was set, or "unset"
  met,              \* history: the moves that were stopped by the switch
  mishaps           \* history: what else the switch has done

\* "stray": another edge has requested a hold; "early": one that comes in a move
\* of the job; "refused": a hold was requested, but its actions were not
\* accepted; "overtaken": the next move was queued before the hold of the one
\* before was over
Mishaps == {"stray", "early", "refused", "overtaken"}

hm == <<func, axis, set_coordinates, registered, modes, homing_state>>
history == <<homings, zero, met, mishaps>>
vars == <<at, queue, pos, model, cycle, machine, hold, holdType, flush, start, op,
          inOperation, input, waiting, snapshot, keys, hm, history>>

Steps == {"start", "clear init", "search", "clear", "latch", "setpoint backoff",
          "set position", "finalize"}

TypeOK ==
  /\ PinTypeOK /\ Len(queue) <= 3
  /\ cycle \in {"NONE", "MACHINING", "HOMING"}
  /\ func \in Steps
  /\ {axis, set_coordinates, registered, homing_state} \subseteq BOOLEAN
  /\ modes \in {"job", "homing"}
  /\ homings \in 0 .. MaxHomings /\ met \subseteq {"search", "latch"} /\ mishaps \subseteq Mishaps

Init ==
  /\ PinInit
  /\ func = "start" /\ axis = FALSE /\ set_coordinates = TRUE
  /\ registered = FALSE /\ modes = "job" /\ homing_state = FALSE
  /\ homings = 0 /\ zero = {} /\ met = {} /\ mishaps = {}

---------------------------------------------------------------------------
(* The handler of the input *)

\* The exit of the hold.  Mutant: as of a probe.
ExitStop == <<"skip", "stop">>
Exit == <<"skip", "reset position">>

\* A move of the cycle runs, and not one of the job before it.
OwnMove == HasMove /\ waiting /\ Len(queue) <= 2

\* The edge belongs to a move that is meant to meet the switch, and its hold
\* is accepted.
Expected == /\ func \in {"clear", "setpoint backoff"} /\ OwnMove
            /\ hold = "OFF" /\ ~ inOperation

\* The edges the handler takes.  Mutant: the trailing ones as well.
EveryEdge(l) == TRUE
LeadingEdge(l) == l

\* pin_changed() and _homing_handler()
Edge ==
  \E l \in BOOLEAN :
    LET handled == ~ lockout /\ registered /\ cycle = "HOMING" /\ LeadingEdge(l)
    IN /\ EdgeTo(l)
       /\ snapshot' = (IF handled THEN pos ELSE snapshot)
       /\ IF handled THEN RequestFeedhold("SKIP", Exit) ELSE UNCHANGED holding
       /\ met' = met \cup {m \in {"search", "latch"} :
                             /\ handled /\ Expected /\ ~ bouncing
                             /\ m = IF func = "clear" THEN "search" ELSE "latch"}
       /\ mishaps' = mishaps \cup {m \in {"stray"} : handled /\ l /\ ~ Expected}
                              \cup {m \in {"early"} : handled /\ HasMove /\ ~ OwnMove}
                              \cup {m \in {"refused"} : handled /\ Refused}
       /\ UNCHANGED <<at, queue, pos, model, cycle, machine, waiting, requests,
                      inOperation, hm, homings, zero>>

---------------------------------------------------------------------------
(* The cycle *)

\* cm_homing_cycle_start() and cm_homing_cycle_start_no_set(), behind a move of
\* the job or not: the cycle does not wait for the queue to be empty.
HomingCycleStart(set) ==
  /\ homings < MaxHomings /\ homings' = homings + 1
  /\ set_coordinates' = set /\ axis' = FALSE /\ func' = "start"
  /\ waiting' = FALSE /\ modes' = "homing"
  /\ machine' = "CYCLE" /\ cycle' = "HOMING" /\ homing_state' = FALSE
  /\ \/ UNCHANGED <<queue, model>>
     \/ \E to \in Jobs \ {pos} : queue' = <<Block("move", to)>> /\ model' = to
  /\ zero' = {} /\ met' = {} /\ mishaps' = {}

\* _homing_axis_move(): nothing is queued for a move that has no length.
HomingAxisMove(distance) ==
  /\ waiting' = TRUE
  /\ model' = model + distance
  /\ queue' = queue \o (IF distance = 0 THEN <<>> ELSE <<Block("move", model')>>)
                    \o <<Block("done", 0)>>

\* _homing_finalize_exit() and cm_canned_cycle_end(), behind the given blocks
HomingFinalizeExit(blocks) ==
  /\ modes' = "job" /\ registered' = FALSE
  /\ cycle' = "NONE" /\ machine' = (IF machine = "ALARM" THEN machine ELSE "STOP")
  /\ hold' = "OFF"
  /\ queue' = Append(blocks, Block("other", 0))

\* cm_homing_cycle_callback() calls func once the move before has ended.
Step(f) == /\ at = "cycle" /\ at' = "planner"
           /\ cycle = "HOMING" /\ ~ waiting /\ func = f
Untouched == /\ UNCHANGED <<pos, holdType, op, requests, inOperation, input, set_coordinates,
                            homings, met>>
             /\ mishaps' = mishaps \cup {m \in {"overtaken"} : hold # "OFF"}

\* The axis, or the end of the last one
_homing_axis_start ==
  /\ Step("start")
  /\ IF axis
       THEN homing_state' = TRUE /\ func' = "finalize" /\ UNCHANGED <<axis, registered>>
       ELSE /\ axis' = TRUE /\ registered' = TRUE /\ func' = "clear init"
            /\ UNCHANGED homing_state
  /\ Untouched
  /\ UNCHANGED <<queue, waiting, model, cycle, machine, hold, snapshot, modes, zero>>

\* A switch that is closed is cleared, or is an error if another axis has it.
_homing_axis_clear_init ==
  /\ Step("clear init")
  /\ \/ /\ IF level THEN HomingAxisMove(0 - Backoff) ELSE UNCHANGED <<queue, waiting, model>>
        /\ func' = "search"
        /\ UNCHANGED <<cycle, machine, hold, registered, modes>>
     \/ /\ level
        /\ HomingFinalizeExit(queue)
        /\ UNCHANGED <<waiting, model, func>>
  /\ Untouched
  /\ UNCHANGED <<snapshot, axis, homing_state, zero>>

\* _homing_axis_search() and the moves that follow it
_homing_axis_moves ==
  /\ \E next \in {[from |-> "search", by |-> Travel, to |-> "clear"],
                  [from |-> "clear", by |-> 0 - Backoff, to |-> "latch"],
                  [from |-> "latch", by |-> Backoff, to |-> "setpoint backoff"],
                  [from |-> "setpoint backoff", by |-> 0 - ZeroBackoff, to |-> "set position"]} :
       /\ Step(next.from) /\ func' = next.to
       /\ HomingAxisMove(next.by)
  /\ Untouched
  /\ UNCHANGED <<cycle, machine, hold, snapshot, axis, registered, modes, homing_state, zero>>

\* The position is set, in coordinates that the model leaves as they are; or,
\* for G28.4, the axis moves by the position of the switch.
_homing_axis_set_position ==
  /\ Step("set position") /\ func' = "start"
  /\ IF set_coordinates
       THEN zero' = {pos} /\ model' = pos /\ UNCHANGED <<queue, waiting>>
       ELSE HomingAxisMove(snapshot) /\ UNCHANGED zero
  /\ registered' = FALSE
  /\ Untouched
  /\ UNCHANGED <<cycle, machine, hold, snapshot, axis, modes, homing_state>>

_homing_finalize_exit ==
  /\ Step("finalize")
  /\ HomingFinalizeExit(queue)
  /\ Untouched
  /\ UNCHANGED <<waiting, model, snapshot, func, axis, homing_state, zero>>

\* The cycle waits, or there is none: then there may be a line that starts one.
RestOfPass ==
  /\ at = "cycle" /\ at' = "planner"
  /\ \/ /\ cycle = "HOMING" => waiting
        /\ UNCHANGED <<motion, model, cycle, machine, hm, history>>
     \/ /\ cycle # "HOMING" /\ hold = "OFF" /\ machine # "ALARM" /\ queue = <<>>
        /\ \E set \in BOOLEAN : HomingCycleStart(set)
        /\ UNCHANGED <<pos, registered>>
  /\ UNCHANGED <<holding, requests, inOperation, input, snapshot>>

\* _run_alarm(), _run_job_kill() and cm_abort_homing()
_run_alarm ==
  /\ \/ /\ Again("alarm") /\ hold # "HOLD"
        /\ UNCHANGED <<queue, waiting, model, cycle, machine, hold, flush, modes, registered>>
     \/ /\ Next_("alarm") /\ hold = "HOLD"
        /\ waiting' = FALSE /\ flush' = FALSE /\ model' = pos /\ hold' = "OFF"
        /\ machine' = "ALARM"
        /\ IF cycle = "HOMING"
             THEN /\ modes' = "job" /\ registered' = FALSE /\ cycle' = "NONE"
                  /\ queue' = <<Block("other", 0), Block("other", 0)>>
             ELSE queue' = <<Block("other", 0)>> /\ UNCHANGED <<modes, registered, cycle>>
  /\ UNCHANGED <<pos, holdType, start, keys, inOperation, input, snapshot, func, axis,
                 set_coordinates, homing_state, history>>

---------------------------------------------------------------------------

Cycle == \/ _homing_axis_start \/ _homing_axis_clear_init \/ _homing_axis_moves
         \/ _homing_axis_set_position \/ _homing_finalize_exit \/ RestOfPass
MainLoop == \/ BeforeCycle /\ UNCHANGED <<hm, history>>
            \/ _run_alarm
            \/ Cycle
Motion == MoveOrCommand /\ UNCHANGED <<hm, history>>
Outside == (LimitSwitch \/ LockoutEnds) /\ UNCHANGED <<hm, history>>

Next == MainLoop \/ Motion \/ Edge \/ Outside
Spec == Init /\ [][Next]_vars

\* The main loop goes round, queued blocks run and holds come to rest, and the
\* input follows the position.
FairSpec == Spec /\ WF_vars(MainLoop) /\ WF_vars(Motion) /\ WF_vars(Edge)

---------------------------------------------------------------------------
(* Properties *)

\* Every step of the cycle finds the Gcode model where the machine is, and so
\* its move is as long as it should be, whatever has stopped the one before.
\* Not so for a cycle that was started behind a move of the job, if an edge has
\* stopped that one.
MovesStartWhereItStands ==
  (at = "cycle" /\ cycle = "HOMING" /\ ~ waiting /\ ~ HasMove /\ "early" \notin mishaps)
     => model = pos

\* If the closing of the switch, and not one of its bounces, has stopped the
\* latch move, and no other edge has come between the moves, then the position
\* that is set is the zero backoff away from where the switch closes, and the
\* braking of one step.
HomedAtTheSwitch ==
  (zero # {} /\ "latch" \in met /\ mishaps = {})
     => \A z \in zero : z + ZeroBackoff - surface \in {0, 1}

\* "When homing completes successfully this is set to HOMING_HOMED, otherwise
\* it remains HOMING_NOT_HOMED" (:159): a cycle whose search has not met the
\* switch has not homed the machine.
HomedIfTheSwitchWasMet == homing_state => met = {"search", "latch"}

\* A cycle that is over leaves the handler and the modes as it found them.
LeavesNoTrace == cycle # "HOMING" => ~ registered /\ modes = "job"

\* Every cycle ends, unless an edge comes between the last action of an
\* operation and its reset: see ProbeEnds.
HomingEnds == (cycle = "HOMING") ~> (cycle # "HOMING" \/ "refused" \in mishaps)
=============================================================================
