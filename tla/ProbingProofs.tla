--------------------------- MODULE ProbingProofs ---------------------------
(***************************************************************************)
(* Theorems about the probing cycle, for every distance, every set of      *)
(* targets and of positions of the contact, and any number of probes,      *)
(* bounces and keys.                                                       *)
(*                                                                         *)
(* ProbeInv is inductive by itself.  Its part Operations says when the     *)
(* runner's list is empty: a hold of an edge that is not deaf then is the  *)
(* only operation there is, and Stopping follows it until the rest of the  *)
(* move has been dropped.  OneMoveAtMost is what makes that the end of the *)
(* probe's motion: behind the move there is nothing but its "done".        *)
(* Snapshot follows the position of the contact to where it is reported.   *)
(***************************************************************************)
EXTENDS Probing, SequenceTheorems, TLAPS

Actions == {"skip", "no actions", "stop", "alarm", "restart", "restart cycle", "flush"}
SkipStop == <<"skip", "stop">>

\* The parts of the state that the invariants look at
MachineTypes ==
  /\ at \in {"planner", "operation", "run", "reset", "cycle", "function", "register"}
  /\ cycle \in {"NONE", "MACHINING", "PROBE"} /\ machine \in {"STOP", "CYCLE", "ALARM"}
  /\ hold \in {"OFF", "SYNC", "DECEL", "STOPPED", "HOLD"} /\ holdType \in {"HOLD", "SKIP"}
  /\ op \in Seq(Actions) /\ inOperation \in BOOLEAN
MotionTypes ==
  /\ queue \in Seq(Blocks) /\ waiting \in BOOLEAN
  /\ pos \in Int /\ model \in Int /\ snapshot \in Int
ProbeTypes ==
  /\ func \in {"start", "backoff", "finish"} /\ target \in 0 .. Far
  /\ registered \in BOOLEAN /\ probe_tripped \in BOOLEAN
  /\ modes \in {"job", "probe"} /\ probe_state \in {"FAILED", "WAITING", "SUCCEEDED"}
  /\ result \in Int /\ first \in Int

\* The operation runner
Operations ==
  /\ inOperation => op # <<>> \/ at = "reset"
  /\ at \in {"run", "reset"} => inOperation
  /\ at = "run" => op # <<>>
  /\ at = "reset" => op = <<>>
  /\ at \in {"cycle", "function", "register"} => ~ inOperation /\ (hold = "OFF" => op = <<>>)
  /\ cycle = "PROBE" /\ ~ inOperation /\ hold = "OFF" => op = <<>>

\* Whose the handler and the modes are
Traces ==
  /\ cycle = "PROBE" => machine = "CYCLE"
  /\ registered => cycle = "PROBE" /\ func # "start"
  /\ modes = "probe" => cycle = "PROBE"
  /\ func = "start" => ~ probe_tripped /\ first < 0
  /\ first >= 0 => probe_tripped
  /\ at = "register" => cycle = "PROBE" /\ func = "start" /\ probe_state # "WAITING"
  /\ probe_state = "WAITING" => func = "start"

\* What is queued
OneMoveAtMost ==
  /\ InProgress =>
       IF waiting THEN \/ Len(queue) = 1 /\ queue[1].kind = "done"
                       \/ Len(queue) = 2 /\ queue[1].kind = "move" /\ queue[2].kind = "done"
                  ELSE queue = <<>>
  /\ ~ InProgress => \A k \in DOMAIN queue : queue[k].kind # "move"
  /\ at \in {"function", "register"} => InProgress /\ ~ waiting

Stopping ==
  func = "backoff" /\ first >= 0 /\ "deaf" \notin mishaps =>
    \/ ~ HasMove /\ pos - first \in {-1, 0, 1}
    \/ /\ HasMove /\ cycle = "PROBE" /\ op = SkipStop /\ holdType = "SKIP"
       /\ \/ hold = "SYNC" /\ pos = first
          \/ hold = "DECEL" /\ pos - first \in {-1, 1}

Snapshot ==
  /\ cycle = "PROBE" /\ func = "backoff" /\ probe_tripped /\ "again" \notin mishaps
       => snapshot = first
  /\ cycle = "PROBE" /\ probe_state = "SUCCEEDED" =>
       /\ func = "finish" /\ probe_tripped
       /\ mishaps \cap {"again", "aborted"} = {} => model = first

ProbeInv == /\ MachineTypes /\ MotionTypes /\ ProbeTypes
            /\ Operations /\ Traces /\ OneMoveAtMost

---------------------------------------------------------------------------
(* Sequences *)

LEMMA SeqFacts ==
  ASSUME NEW S, NEW s \in Seq(S)
  PROVE  /\ Len(s) \in Nat /\ DOMAIN s = 1 .. Len(s)
         /\ (s # <<>> <=> Len(s) > 0) /\ (s = <<>> <=> Len(s) = 0)
         /\ \A k \in 1 .. Len(s) : s[k] \in S
BY EmptySeq, LenProperties, ElementOfSeq

LEMMA TailFacts ==
  ASSUME NEW S, NEW s \in Seq(S), s # <<>>
  PROVE  /\ Tail(s) \in Seq(S) /\ Len(Tail(s)) = Len(s) - 1
         /\ \A k \in 1 .. Len(s) - 1 : Tail(s)[k] = s[k + 1]
BY HeadTailProperties, LenProperties

LEMMA Singles ==
  ASSUME NEW S, NEW a \in S
  PROVE  <<a>> \in Seq(S) /\ Len(<<a>>) = 1 /\ <<a>>[1] = a
OBVIOUS

LEMMA Pairs ==
  ASSUME NEW S, NEW a \in S, NEW b \in S
  PROVE  /\ <<a, b>> \in Seq(S) /\ Len(<<a, b>>) = 2
         /\ <<a, b>>[1] = a /\ <<a, b>>[2] = b
OBVIOUS

LEMMA Triples ==
  ASSUME NEW S, NEW a \in S, NEW b \in S, NEW c \in S
  PROVE  <<a, b, c>> \in Seq(S)
OBVIOUS

LEMMA Concats ==
  ASSUME NEW S, NEW s \in Seq(S), NEW t \in Seq(S)
  PROVE  s \o t \in Seq(S) /\ Len(s \o t) = Len(s) + Len(t)
BY ConcatProperties

LEMMA BlockIsBlock ==
  ASSUME NEW kind \in {"move", "done", "other"}, NEW to \in Int
  PROVE  Block(kind, to) \in Blocks /\ Block(kind, to).kind = kind
BY DEF Block, Blocks

LEMMA ListsAreActions ==
  /\ <<>> \in Seq(Actions) /\ SkipStop \in Seq(Actions)
  /\ <<"skip", "stop">> \in Seq(Actions)
  /\ <<"no actions">> \in Seq(Actions) /\ <<"no actions", "alarm">> \in Seq(Actions)
  /\ <<"restart", "flush", "stop">> \in Seq(Actions)
  /\ <<"restart", "restart cycle">> \in Seq(Actions)
BY EmptySeq, Singles, Pairs, Triples DEF Actions, SkipStop

LEMMA AddedIsActions ==
  ASSUME op \in Seq(Actions), NEW list \in Seq(Actions)
  PROVE  Added(list) \in Seq(Actions)
BY Concats DEF Added

\* What stays the same of the queue while its blocks are held or released.
SameShape == /\ queue' \in Seq(Blocks) /\ Len(queue') = Len(queue)
             /\ \A k \in 1 .. Len(queue) : queue'[k].kind = queue[k].kind

LEMMA HeldFacts ==
  ASSUME queue \in Seq(Blocks), NEW b \in BOOLEAN
  PROVE  /\ Held(b) \in Seq(Blocks) /\ Len(Held(b)) = Len(queue)
         /\ \A k \in 1 .. Len(queue) : Held(b)[k].kind = queue[k].kind
<1>1. Len(queue) \in Nat /\ DOMAIN queue = 1 .. Len(queue)
      /\ \A k \in 1 .. Len(queue) : queue[k] \in Blocks
  BY SeqFacts
<1>2. DOMAIN Held(b) = 1 .. Len(queue)
      /\ \A k \in 1 .. Len(queue) : Held(b)[k] = [queue[k] EXCEPT !.held = b]
  BY <1>1 DEF Held
<1>3. \A k \in 1 .. Len(queue) : Held(b)[k] \in Blocks /\ Held(b)[k].kind = queue[k].kind
  BY <1>1, <1>2 DEF Blocks
<1>4. Held(b) \in [1 .. Len(queue) -> Blocks]
  BY <1>1, <1>2, <1>3 DEF Held
<1>5. Held(b) \in Seq(Blocks)
  BY <1>1, <1>4, SeqDef
<1>6. QED BY <1>1, <1>2, <1>3, <1>5, LenProperties

---------------------------------------------------------------------------
(* Types *)

HoldTypes == /\ hold \in {"OFF", "SYNC", "DECEL", "STOPPED", "HOLD"}
             /\ holdType \in {"HOLD", "SKIP"} /\ op \in Seq(Actions)

LEMMA RequestTypes ==
  ASSUME HoldTypes, NEW type \in {"HOLD", "SKIP"}, NEW list \in Seq(Actions),
         RequestFeedhold(type, list)
  PROVE  HoldTypes'
<1>1. Added(list) \in Seq(Actions)
  BY AddedIsActions DEF HoldTypes
<1>2. QED BY <1>1 DEF RequestFeedhold, HoldTypes, holding

LEMMA CycleEndTypes ==
  ASSUME MachineTypes, CycleEnd
  PROVE  /\ cycle' \in {"NONE", "MACHINING", "PROBE"} /\ machine' \in {"STOP", "CYCLE", "ALARM"}
         /\ cycle' = "PROBE" <=> cycle = "PROBE"
         /\ cycle' = "PROBE" => machine' = machine
BY DEF MachineTypes, CycleEnd

LEMMA ActionTypes ==
  ASSUME MachineTypes, at = "run", op # <<>>, NEW a, Next_(a) \/ Again(a)
  PROVE  op' \in Seq(Actions) /\ at' \in {"run", "reset", "planner"}
<1>1. op \in Seq(Actions) /\ Tail(op) \in Seq(Actions)
  BY TailFacts DEF MachineTypes
<1>2. QED BY <1>1 DEF Next_, Again

LEMMA MachineTypesBefore ==
  ASSUME MachineTypes, Operations, BeforeCycle PROVE MachineTypes'
<1>1. CASE mp_planner_callback
  BY <1>1 DEF mp_planner_callback, MachineTypes, Noted
<1>2. CASE StartOperation
  <2>1. op' \in Seq(Actions)
    <3> DEFINE one == IF flush /\ hold = "HOLD" THEN <<"restart", "flush", "stop">> ELSE <<>>
               two == IF start /\ hold = "HOLD" THEN <<"restart", "restart cycle">> ELSE <<>>
    <3>1. one \in Seq(Actions) /\ two \in Seq(Actions)
      BY ListsAreActions
    <3>2. op' = Added(one \o two)
      BY <1>2 DEF StartOperation
    <3> HIDE DEF one, two
    <3>3. one \o two \in Seq(Actions)
      BY <3>1, Concats
    <3>4. QED BY <3>2, <3>3, AddedIsActions DEF MachineTypes
  <2>2. at' \in {"cycle", "run"} /\ inOperation' \in BOOLEAN
    BY <1>2 DEF StartOperation, MachineTypes
  <2>3. UNCHANGED <<cycle, machine, hold, holdType>>
    BY <1>2 DEF StartOperation
  <2>4. QED BY <2>1, <2>2, <2>3 DEF MachineTypes
<1>3. CASE RunAction
  <2>1. at = "run" /\ op # <<>>
    BY <1>3 DEF RunAction, _feedhold_skip, _feedhold_no_actions, _run_program_stop,
       _run_reset_position, _feedhold_restart_no_actions, _run_restart_cycle, Next_, Again,
       Operations
  <2>2. \E a : Next_(a) \/ Again(a)
    BY <1>3 DEF RunAction, _feedhold_skip, _feedhold_no_actions, _run_program_stop,
       _run_reset_position, _feedhold_restart_no_actions, _run_restart_cycle
  <2>3. op' \in Seq(Actions) /\ at' \in {"run", "reset", "planner"}
    BY <2>1, <2>2, ActionTypes
  <2>4. UNCHANGED inOperation
    BY <1>3 DEF RunAction, _feedhold_skip, _feedhold_no_actions, _run_program_stop,
       _run_reset_position, _feedhold_restart_no_actions, _run_restart_cycle
  <2>5. CASE _feedhold_skip \/ _feedhold_no_actions
    BY <2>3, <2>4, <2>5 DEF _feedhold_skip, _feedhold_no_actions, MachineTypes
  <2>6. CASE _run_program_stop
    BY <2>3, <2>4, <2>6, CycleEndTypes DEF _run_program_stop, MachineTypes
  <2>7. CASE _run_reset_position \/ _feedhold_restart_no_actions
    BY <2>3, <2>4, <2>7 DEF _run_reset_position, _feedhold_restart_no_actions, MachineTypes
  <2>8. CASE _run_restart_cycle
    <3>1. cycle' \in {"NONE", "MACHINING", "PROBE"} /\ machine' \in {"STOP", "CYCLE", "ALARM"}
      BY <2>8, CycleEndTypes DEF _run_restart_cycle, MachineTypes
    <3>2. QED BY <2>3, <2>4, <2>8, <3>1 DEF _run_restart_cycle, MachineTypes
  <2>9. QED BY <1>3, <2>5, <2>6, <2>7, <2>8 DEF RunAction
<1>4. CASE ResetOperation
  BY <1>4, ListsAreActions DEF ResetOperation, MachineTypes
<1>5. QED BY <1>1, <1>2, <1>3, <1>4 DEF BeforeCycle

LEMMA HoldAndMachine ==
  /\ MachineTypes => HoldTypes
  /\ MachineTypes /\ HoldTypes' /\ UNCHANGED <<at, cycle, machine, inOperation>> => MachineTypes'
BY DEF MachineTypes, HoldTypes

LEMMA MachineTypesOutside ==
  ASSUME MachineTypes, Edge \/ Outside PROVE MachineTypes'
<1>1. /\ <<"skip", "stop">> \in Seq(Actions) /\ <<"no actions">> \in Seq(Actions)
      /\ <<"no actions", "alarm">> \in Seq(Actions)
  BY ListsAreActions
<1>2. CASE Edge
  <2>1. HoldTypes'
    BY <1>1, <1>2, HoldAndMachine, RequestTypes DEF Edge, holding, HoldTypes
  <2>2. QED BY <1>2, <2>1, HoldAndMachine DEF Edge
<1>3. CASE FeedholdKey
  BY <1>1, <1>3, HoldAndMachine, RequestTypes DEF FeedholdKey
<1>4. CASE LimitSwitch
  BY <1>1, <1>4, HoldAndMachine, RequestTypes DEF LimitSwitch
<1>5. CASE CycleStartKey \/ FlushKey \/ LockoutEnds
  BY <1>5, HoldAndMachine DEF CycleStartKey, FlushKey, LockoutEnds, holding, HoldTypes
<1>6. QED BY <1>2, <1>3, <1>4, <1>5 DEF Outside, Keys

LEMMA MachineTypesMotion ==
  ASSUME MachineTypes, Motion PROVE MachineTypes'
<1>1. CASE Move
  <2>1. cycle' \in {"NONE", "MACHINING", "PROBE"} /\ machine' \in {"STOP", "CYCLE", "ALARM"}
    BY <1>1, CycleEndTypes DEF Move, MachineTypes
  <2>2. QED BY <1>1, <2>1 DEF Move, MachineTypes
<1>2. CASE Stop
  BY <1>2 DEF Stop, MachineTypes
<1>3. CASE RunCommand
  <2>1. cycle' \in {"NONE", "MACHINING", "PROBE"} /\ machine' \in {"STOP", "CYCLE", "ALARM"}
    BY <1>3, CycleEndTypes DEF RunCommand, MachineTypes
  <2>2. QED BY <1>3, <2>1 DEF RunCommand, MachineTypes, holding
<1>4. QED BY <1>1, <1>2, <1>3 DEF Motion, MoveOrCommand

LEMMA MachineTypesCycle ==
  ASSUME MachineTypes, Cycle PROVE MachineTypes'
<1>1. /\ <<"no actions", "alarm">> \in Seq(Actions) /\ op \in Seq(Actions)
      /\ Added(<<"no actions", "alarm">>) \in Seq(Actions)
  BY ListsAreActions, AddedIsActions DEF MachineTypes
<1>2. CASE ProbingStart
  BY <1>1, <1>2 DEF ProbingStart, MachineTypes, holding
<1>3. CASE RegisterHandler
  BY <1>3 DEF RegisterHandler, MachineTypes, holding
<1>4. CASE _probing_backoff
  BY <1>4 DEF _probing_backoff, MachineTypes, holding
<1>5. CASE _probing_finish
  BY <1>1, <1>5 DEF _probing_finish, Finish, MachineTypes
<1>6. CASE Callback
  BY <1>6 DEF Callback, MachineTypes, holding
<1>7. CASE RestOfPass
  BY <1>7 DEF RestOfPass, StraightProbe, MachineTypes, holding
<1>8. QED BY <1>2, <1>3, <1>4, <1>5, <1>6, <1>7 DEF Cycle

LEMMA MachineTypesAborted ==
  ASSUME MachineTypes, Operations, _run_queue_flush \/ _run_alarm PROVE MachineTypes'
<1>1. at = "run" /\ op # <<>> /\ \E a : Next_(a) \/ Again(a)
  BY DEF _run_queue_flush, _run_alarm, Next_, Again, Operations
<1>2. op' \in Seq(Actions) /\ at' \in {"run", "reset", "planner"}
  BY <1>1, ActionTypes
<1>3. CASE _run_queue_flush
  BY <1>2, <1>3 DEF _run_queue_flush, Flush, Finish, MachineTypes
<1>4. CASE _run_alarm
  BY <1>2, <1>4 DEF _run_alarm, MachineTypes
<1>5. QED BY <1>3, <1>4

LEMMA MachineTypesStay ==
  ASSUME MachineTypes, Operations, [Next]_vars PROVE MachineTypes'
<1>1. CASE UNCHANGED vars
  BY <1>1 DEF vars, MachineTypes
<1>2. QED
  BY <1>1, MachineTypesBefore, MachineTypesOutside, MachineTypesMotion, MachineTypesCycle,
     MachineTypesAborted DEF Next, MainLoop

\* Actions that leave the queue and the positions as they are, or only hold or
\* release its blocks
Released == /\ queue' = queue \/ \E b \in BOOLEAN : queue' = Held(b)
            /\ UNCHANGED <<pos, waiting, snapshot>>

LEMMA ReleasedKeeps ==
  ASSUME queue \in Seq(Blocks), Released PROVE SameShape
BY HeldFacts DEF Released, SameShape

LEMMA BeforeCycleReleases ==
  ASSUME Operations, BeforeCycle
  PROVE  Released /\ (model' = model \/ (model' = pos /\ op # <<>> /\ Head(op) = "reset position"
                                         /\ at = "run"))
<1>1. CASE mp_planner_callback \/ StartOperation \/ ResetOperation
  BY <1>1 DEF mp_planner_callback, StartOperation, ResetOperation, motion, Released
<1>2. CASE _feedhold_skip \/ _feedhold_no_actions
  BY <1>2 DEF _feedhold_skip, _feedhold_no_actions, Released
<1>3. CASE _run_program_stop \/ _feedhold_restart_no_actions \/ _run_restart_cycle
  BY <1>3 DEF _run_program_stop, _feedhold_restart_no_actions, _run_restart_cycle, motion,
     Released
<1>4. CASE _run_reset_position
  BY <1>4 DEF _run_reset_position, motion, Released, Next_, Operations
<1>5. QED BY <1>1, <1>2, <1>3, <1>4 DEF BeforeCycle, RunAction

LEMMA ProbeMoveTypes ==
  ASSUME queue \in Seq(Blocks), NEW to \in Int, ProbeMove(to)
  PROVE  queue' \in Seq(Blocks) /\ waiting' = TRUE /\ model' = to
<1> DEFINE move == IF to = pos THEN <<>> ELSE <<Block("move", to)>>
<1>1. move \in Seq(Blocks) /\ <<Block("done", 0)>> \in Seq(Blocks)
  BY BlockIsBlock, EmptySeq, Singles
<1>2. queue' = queue \o move \o <<Block("done", 0)>>
  BY DEF ProbeMove
<1> HIDE DEF move
<1>3. queue \o move \in Seq(Blocks)
  BY <1>1, Concats
<1>4. queue' \in Seq(Blocks)
  BY <1>1, <1>2, <1>3, Concats
<1>5. QED BY <1>4 DEF ProbeMove

LEMMA OtherAppended ==
  ASSUME NEW s \in Seq(Blocks)
  PROVE  /\ Append(s, Block("other", 0)) \in Seq(Blocks)
         /\ <<Block("other", 0)>> \o <<Block("other", 0)>> \in Seq(Blocks)
         /\ <<>> \o <<Block("other", 0)>> \in Seq(Blocks)
<1>1. Block("other", 0) \in Blocks
  BY BlockIsBlock
<1>2. <<Block("other", 0)>> \in Seq(Blocks) /\ <<>> \in Seq(Blocks)
  BY <1>1, Singles, EmptySeq
<1>3. QED BY <1>1, <1>2, Concats, AppendProperties

LEMMA StraightProbeTypes ==
  ASSUME MotionTypes, NEW to, NEW alarm, StraightProbe(to, alarm)
  PROVE  queue' \in Seq(Blocks) /\ model' \in Int /\ waiting' = TRUE
<1>1. /\ Block("done", 0) \in Blocks /\ Block("move", 1) \in Blocks
      /\ <<Block("move", 1), Block("done", 0)>> \in Seq(Blocks)
  BY BlockIsBlock, Pairs
<1>2. \/ queue' = Append(queue, Block("done", 0)) /\ model' = model
      \/ queue' = queue \o <<Block("move", 1), Block("done", 0)>> /\ model' = 1
  BY DEF StraightProbe
<1>3. queue \in Seq(Blocks) /\ model \in Int
  BY DEF MotionTypes
<1>4. /\ Append(queue, Block("done", 0)) \in Seq(Blocks)
      /\ queue \o <<Block("move", 1), Block("done", 0)>> \in Seq(Blocks)
  BY <1>1, <1>3, AppendProperties, Concats
<1>5. queue' \in Seq(Blocks) /\ model' \in Int
  <2>1. CASE queue' = Append(queue, Block("done", 0)) /\ model' = model
    BY <1>3, <1>4, <2>1
  <2>2. CASE queue' = queue \o <<Block("move", 1), Block("done", 0)>> /\ model' = 1
    BY <1>4, <2>2
  <2>3. QED BY <1>2, <2>1, <2>2
<1>6. QED BY <1>5 DEF StraightProbe

LEMMA MotionTypesStay ==
  ASSUME MotionTypes, ProbeTypes, Operations, [Next]_vars PROVE MotionTypes'
<1>1. /\ queue \in Seq(Blocks) /\ waiting \in BOOLEAN /\ <<>> \in Seq(Blocks)
      /\ pos \in Int /\ model \in Int /\ snapshot \in Int /\ target \in Int
  BY BoundAssumption, EmptySeq DEF MotionTypes, ProbeTypes
<1>2. CASE UNCHANGED <<motion, model, snapshot>>
  BY <1>2 DEF MotionTypes, motion
<1>3. CASE BeforeCycle
  BY <1>1, <1>3, BeforeCycleReleases, ReleasedKeeps DEF MotionTypes, Released, SameShape
<1>4. CASE _run_queue_flush
  <2>1. queue' \in Seq(Blocks)
    BY <1>1, <1>4, OtherAppended DEF _run_queue_flush, Flush, Finish
  <2>2. waiting' = FALSE /\ model' = pos /\ UNCHANGED <<pos, snapshot>>
    BY <1>4 DEF _run_queue_flush, Flush
  <2>3. QED BY <1>1, <2>1, <2>2 DEF MotionTypes
<1>5. CASE _run_alarm
  <2>1. queue' \in Seq(Blocks)
    BY <1>1, <1>5, OtherAppended DEF _run_alarm
  <2>2. waiting' \in BOOLEAN /\ model' \in Int /\ UNCHANGED <<pos, snapshot>>
    BY <1>1, <1>5 DEF _run_alarm
  <2>3. QED BY <1>1, <2>1, <2>2 DEF MotionTypes
<1>6. CASE ProbingStart
  <2>1. queue' \in Seq(Blocks)
    BY <1>1, <1>6, OtherAppended DEF ProbingStart
  <2>2. QED BY <1>1, <1>6, <2>1 DEF ProbingStart, MotionTypes
<1>7. CASE RegisterHandler
  BY <1>1, <1>7, ProbeMoveTypes DEF RegisterHandler, MotionTypes
<1>8. CASE _probing_backoff
  BY <1>1, <1>8, ProbeMoveTypes DEF _probing_backoff, Contact, MotionTypes
<1>9. CASE _probing_finish
  <2>1. queue' \in Seq(Blocks)
    BY <1>1, <1>9, OtherAppended DEF _probing_finish, Finish
  <2>2. QED BY <1>1, <1>9, <2>1 DEF _probing_finish, MotionTypes
<1>10. CASE Callback
  BY <1>2, <1>10 DEF Callback
<1>11. CASE RestOfPass
  <2>1. CASE UNCHANGED <<motion, model>>
    BY <1>2, <1>11, <2>1 DEF RestOfPass
  <2>2. ASSUME NEW to, NEW alarm, StraightProbe(to, alarm), UNCHANGED pos PROVE MotionTypes'
    BY <1>1, <1>11, <2>2, StraightProbeTypes DEF RestOfPass, MotionTypes
  <2>3. QED BY <1>11, <2>1, <2>2 DEF RestOfPass
<1>12. CASE Motion
  <2>1. queue # <<>> /\ Tail(queue) \in Seq(Blocks)
    BY <1>1, <1>12, TailFacts DEF Motion, MoveOrCommand, Move, Stop, RunCommand, HasMove
  <2>2. CASE Move
    BY <1>1, <2>1, <2>2 DEF Move, MotionTypes
  <2>3. CASE Stop
    <3>1. Held(TRUE) \in Seq(Blocks) /\ Len(Held(TRUE)) = Len(queue) /\ Len(queue) > 0
      BY <1>1, <2>1, HeldFacts, SeqFacts
    <3>2. Held(TRUE) # <<>>
      BY <3>1, SeqFacts
    <3>3. Tail(Held(TRUE)) \in Seq(Blocks)
      BY <3>1, <3>2, TailFacts
    <3>4. QED BY <1>1, <2>3, <3>3 DEF Stop, MotionTypes
  <2>4. CASE RunCommand
    BY <1>1, <2>1, <2>4 DEF RunCommand, MotionTypes
  <2>5. QED BY <1>12, <2>2, <2>3, <2>4 DEF Motion, MoveOrCommand
<1>13. CASE Edge
  BY <1>1, <1>13 DEF Edge, MotionTypes
<1>14. CASE Outside \/ UNCHANGED vars
  BY <1>2, <1>14 DEF Outside, Keys, FeedholdKey, LimitSwitch, CycleStartKey, FlushKey,
     LockoutEnds, vars, motion
<1>15. QED
  BY <1>3, <1>4, <1>5, <1>6, <1>7, <1>8, <1>9, <1>10, <1>11, <1>12, <1>13, <1>14
  DEF Next, MainLoop, Cycle

LEMMA ProbeTypesStay ==
  ASSUME MotionTypes, ProbeTypes, [Next]_vars PROVE ProbeTypes'
<1>1. pos \in Int /\ model \in Int
  BY DEF MotionTypes
<1>2. CASE UNCHANGED <<pb, first>>
  BY <1>2 DEF ProbeTypes, pb
<1>3. CASE (BeforeCycle /\ UNCHANGED <<pb, history>>) \/ Motion \/ Outside \/ UNCHANGED vars
           \/ Callback
  BY <1>2, <1>3 DEF Motion, Outside, Callback, vars, history
<1>4. CASE Edge
  BY <1>1, <1>4 DEF Edge, ProbeTypes
<1>5. CASE _run_queue_flush
  BY <1>1, <1>5 DEF _run_queue_flush, Flush, Finish, Restored, ProbeTypes
<1>6. CASE _run_alarm
  <2>1. CASE UNCHANGED pb
    BY <1>2, <1>6, <2>1 DEF _run_alarm
  <2>2. CASE ~ UNCHANGED pb
    BY <1>1, <1>6, <2>2 DEF _run_alarm, ProbeTypes
  <2>3. QED BY <2>1, <2>2
<1>7. CASE ProbingStart \/ RegisterHandler
  BY <1>7 DEF ProbingStart, RegisterHandler, ProbeTypes, history
<1>8. CASE _probing_backoff
  BY <1>8 DEF _probing_backoff, ProbeTypes, history
<1>9. CASE _probing_finish
  BY <1>1, <1>9 DEF _probing_finish, Finish, Restored, ProbeTypes, history
<1>10. CASE RestOfPass
  <2>1. CASE UNCHANGED <<pb, history>>
    BY <1>2, <2>1 DEF history
  <2>2. ASSUME NEW to \in Targets, NEW alarm \in BOOLEAN, StraightProbe(to, alarm),
               UNCHANGED <<registered, modes>>
        PROVE  ProbeTypes'
    <3>1. to \in 0 .. Far
      BY ProbeAssumption
    <3>2. /\ target' = to /\ func' = "start" /\ result' = 0 /\ probe_state' = "WAITING"
          /\ probe_tripped' = FALSE /\ first' = 0 - 1 /\ UNCHANGED <<registered, modes>>
      BY <2>2 DEF StraightProbe
    <3>3. registered' \in BOOLEAN /\ modes' \in {"job", "probe"}
      BY <3>2 DEF ProbeTypes
    <3>4. result' \in Int /\ first' \in Int
      <4>1. result' = 0 /\ first' = 0 - 1
        BY <3>2
      <4>2. QED BY <4>1
    <3>6. probe_tripped' \in BOOLEAN
      BY <3>2
    <3>5. QED BY <3>1, <3>2, <3>3, <3>4, <3>6 DEF ProbeTypes
  <2>3. QED BY <1>10, <2>1, <2>2 DEF RestOfPass
<1>11. QED
  BY <1>3, <1>4, <1>5, <1>6, <1>7, <1>8, <1>9, <1>10 DEF Next, MainLoop, Cycle

---------------------------------------------------------------------------
(* The operation runner, the handler and the modes *)

LEMMA AfterAction ==
  ASSUME op \in Seq(Actions), NEW a, op # <<>>, Next_(a) \/ Again(a)
  PROVE  /\ at = "run" /\ at' \in {"run", "reset", "planner"}
         /\ at' = "run" => op' # <<>>
         /\ at' = "planner" => op' # <<>>
         /\ at' = "reset" => op' = <<>>
<1>1. CASE Next_(a)
  <2>1. op' = Tail(op) /\ at = "run" /\ at' = IF Len(op) = 1 THEN "reset" ELSE "run"
    BY <1>1 DEF Next_
  <2>2. Tail(op) \in Seq(Actions) /\ Len(Tail(op)) = Len(op) - 1 /\ Len(op) \in Nat /\ Len(op) > 0
    BY TailFacts, SeqFacts
  <2>3. Len(op) # 1 <=> Tail(op) # <<>>
    <3> DEFINE t == Tail(op)
    <3>1. t \in Seq(Actions) /\ Len(t) = Len(op) - 1
      BY <2>2
    <3> HIDE DEF t
    <3>2. t = <<>> <=> Len(t) = 0
      BY <3>1, SeqFacts
    <3>3. QED BY <2>2, <3>1, <3>2 DEF t
  <2>4. QED BY <2>1, <2>3
<1>2. CASE Again(a)
  BY <1>2 DEF Again
<1>3. QED BY <1>1, <1>2

LEMMA RequestStarts ==
  ASSUME HoldTypes, NEW type, NEW list, RequestFeedhold(type, list), machine # "ALARM",
         machine \in {"STOP", "CYCLE", "ALARM"}
  PROVE  hold' # "OFF" /\ (hold # "OFF" => UNCHANGED holding)
BY DEF RequestFeedhold, holding

LEMMA OperationsStay ==
  ASSUME MachineTypes, Traces, Operations, [Next]_vars PROVE Operations'
<1>1. CASE UNCHANGED <<at, cycle, hold, op, inOperation>>
  BY <1>1 DEF Operations
<1>2. CASE mp_planner_callback
  BY <1>2 DEF mp_planner_callback, Operations, Noted, Braking
<1>3. CASE StartOperation
  <2>1. ~ inOperation => op = <<>> \/ hold # "OFF" \/ cycle # "PROBE"
    BY DEF Operations
  <2>2. hold # "HOLD" => op' = op
    <3>1. CASE hold # "HOLD"
      <4>1. op' = Added(<<>> \o <<>>)
        BY <1>3, <3>1 DEF StartOperation
      <4>2. <<>> \o <<>> = <<>>
        BY EmptySeq, ConcatEmptySeq
      <4>3. op' = op
        BY <4>1, <4>2, EmptySeq, ConcatEmptySeq DEF Added, MachineTypes
      <4>4. QED BY <4>3
    <3>2. QED BY <3>1
  <2>3. op' = <<>> => ~ inOperation
    <3>1. CASE inOperation
      <4>1. op' = op /\ op # <<>>
        BY <1>3, <3>1 DEF StartOperation, Added, Operations
      <4>2. QED BY <4>1
    <3>2. QED BY <3>1
  <2>4. UNCHANGED <<cycle, hold>>
    BY <1>3 DEF StartOperation
  <2>5. CASE op' = <<>>
    BY <1>3, <2>3, <2>4, <2>5 DEF StartOperation, Operations
  <2>6. CASE op' # <<>>
    BY <1>3, <2>4, <2>6 DEF StartOperation, Operations
  <2>7. QED BY <2>5, <2>6
<1>4. CASE RunAction \/ _run_queue_flush \/ _run_alarm
  <2>1. at = "run" /\ \E a : Next_(a) \/ Again(a)
    BY <1>4 DEF RunAction, _feedhold_skip, _feedhold_no_actions, _run_program_stop,
       _run_reset_position, _feedhold_restart_no_actions, _run_restart_cycle,
       _run_queue_flush, _run_alarm, Next_, Again
  <2>2. inOperation /\ op # <<>> /\ op \in Seq(Actions)
    BY <2>1 DEF Operations, MachineTypes
  <2>3. inOperation'
    BY <1>4, <2>2 DEF RunAction, _feedhold_skip, _feedhold_no_actions, _run_program_stop,
       _run_reset_position, _feedhold_restart_no_actions, _run_restart_cycle,
       _run_queue_flush, _run_alarm
  <2>4. at' \in {"run", "reset", "planner"} /\ (at' = "reset" <=> op' = <<>>)
    BY <2>1, <2>2, AfterAction
  <2>5. QED BY <2>3, <2>4 DEF Operations
<1>5. CASE ResetOperation
  BY <1>5 DEF ResetOperation, Operations
<1>6. CASE ProbingStart
  BY <1>6 DEF ProbingStart, Operations, holding
<1>7. CASE RegisterHandler \/ _probing_backoff
  BY <1>7 DEF RegisterHandler, _probing_backoff, Operations, holding
<1>8. CASE _probing_finish
  BY <1>8 DEF _probing_finish, Finish, Operations
<1>9. CASE Callback
  BY <1>9 DEF Callback, Operations, holding
<1>10. CASE RestOfPass
  BY <1>10 DEF RestOfPass, StraightProbe, Operations, holding
<1>11. CASE Move
  <2>1. (cycle' = "PROBE" <=> cycle = "PROBE") /\ (hold' = "OFF" <=> hold = "OFF")
    BY <1>11, CycleEndTypes DEF Move
  <2>2. UNCHANGED <<at, op, inOperation>>
    BY <1>11 DEF Move
  <2>3. QED BY <2>1, <2>2 DEF Operations
<1>12. CASE Stop
  BY <1>12 DEF Stop, Operations, Braking
<1>13. CASE RunCommand
  <2>1. (cycle' = "PROBE" <=> cycle = "PROBE")
    BY <1>13, CycleEndTypes DEF RunCommand
  <2>2. UNCHANGED <<at, op, inOperation, hold>>
    BY <1>13 DEF RunCommand, holding
  <2>3. QED BY <2>1, <2>2 DEF Operations
<1>14. CASE Edge
  <2>1. UNCHANGED <<at, cycle, inOperation>>
    BY <1>14 DEF Edge
  <2>2. \/ UNCHANGED holding
        \/ hold' # "OFF" /\ (hold # "OFF" => UNCHANGED holding) /\ ~ inOperation
        \/ inOperation /\ hold' # "OFF" /\ op' = op
    <3>1. CASE ~ UNCHANGED holding
      <4>1. cycle = "PROBE" /\ RequestFeedhold("SKIP", <<"skip", "stop">>)
        BY <1>14, <3>1 DEF Edge
      <4>2. machine = "CYCLE"
        BY <4>1 DEF Traces
      <4>3. hold' # "OFF" /\ (hold # "OFF" => UNCHANGED holding)
        BY <4>1, <4>2, RequestStarts, HoldAndMachine
      <4>4. inOperation => op' = op
        BY <3>1, <4>1, <4>2 DEF RequestFeedhold, Added, holding
      <4>5. inOperation \in BOOLEAN
        BY DEF MachineTypes
      <4>6. QED BY <4>3, <4>4, <4>5
    <3>2. QED BY <3>1
  <2>3. QED BY <2>1, <2>2 DEF Operations, holding
<1>15. CASE FeedholdKey \/ LimitSwitch
  <2>1. at = "planner" /\ UNCHANGED <<at, cycle, inOperation, machine>>
    BY <1>15 DEF FeedholdKey, LimitSwitch
  <2>2. \E list : RequestFeedhold("HOLD", list)
    BY <1>15 DEF FeedholdKey, LimitSwitch
  <2>3. cycle = "PROBE" => hold' # "OFF"
    BY <2>2, RequestStarts, HoldAndMachine DEF Traces
  <2>4. inOperation => op' = op
    BY <2>2 DEF RequestFeedhold, Added, holding
  <2>5. QED BY <2>1, <2>3, <2>4 DEF Operations
<1>16. CASE CycleStartKey \/ FlushKey \/ LockoutEnds \/ UNCHANGED vars
  BY <1>1, <1>16 DEF CycleStartKey, FlushKey, LockoutEnds, vars, holding
<1>17. QED
  BY <1>2, <1>3, <1>4, <1>5, <1>6, <1>7, <1>8, <1>9, <1>10, <1>11, <1>12, <1>13, <1>14, <1>15,
     <1>16 DEF Next, MainLoop, BeforeCycle, Cycle, Motion, MoveOrCommand, Outside, Keys

\* Nothing but the cycle and what aborts it starts or ends a probe.
SameCycle == /\ cycle' = "PROBE" <=> cycle = "PROBE"
             /\ cycle = "PROBE" => machine' = machine
             /\ at' = "register" => at = "register"
             /\ at' = "function" => at = "function"

LEMMA OutsideTheCycle ==
  ASSUME MachineTypes, Operations, [Next]_vars, ~ Cycle, ~ _run_queue_flush, ~ _run_alarm
  PROVE  SameCycle
<1>1. CASE mp_planner_callback \/ StartOperation \/ ResetOperation
  BY <1>1 DEF mp_planner_callback, StartOperation, ResetOperation, SameCycle
<1>2. CASE RunAction
  <2>1. at' \in {"run", "reset", "planner"}
    <3>1. at = "run" /\ \E a : Next_(a) \/ Again(a)
      BY <1>2 DEF RunAction, _feedhold_skip, _feedhold_no_actions, _run_program_stop,
         _run_reset_position, _feedhold_restart_no_actions, _run_restart_cycle, Next_, Again
    <3>2. QED BY <3>1, AfterAction DEF Operations, MachineTypes
  <2>2. CASE _feedhold_skip \/ _feedhold_no_actions \/ _run_reset_position
             \/ _feedhold_restart_no_actions
    BY <2>1, <2>2 DEF _feedhold_skip, _feedhold_no_actions, _run_reset_position,
       _feedhold_restart_no_actions, SameCycle
  <2>3. CASE _run_program_stop
    BY <2>1, <2>3, CycleEndTypes DEF _run_program_stop, SameCycle
  <2>4. CASE _run_restart_cycle
    <3>1. (cycle' = "PROBE" <=> cycle = "PROBE") /\ (cycle = "PROBE" => machine' = machine)
      BY <2>4, CycleEndTypes DEF _run_restart_cycle
    <3>2. QED BY <2>1, <3>1 DEF SameCycle
  <2>5. QED BY <1>2, <2>2, <2>3, <2>4 DEF RunAction
<1>3. CASE Motion
  BY <1>3, CycleEndTypes DEF Motion, MoveOrCommand, Move, Stop, RunCommand, SameCycle
<1>4. CASE Edge \/ Outside \/ UNCHANGED vars
  BY <1>4 DEF Edge, Outside, Keys, FeedholdKey, LimitSwitch, CycleStartKey, FlushKey,
     LockoutEnds, vars, SameCycle
<1>5. QED BY <1>1, <1>2, <1>3, <1>4 DEF Next, MainLoop, BeforeCycle

LEMMA TracesStay ==
  ASSUME MachineTypes, ProbeTypes, Operations, Traces, [Next]_vars PROVE Traces'
<1>1. CASE ~ Cycle /\ ~ _run_queue_flush /\ ~ _run_alarm /\ ~ Edge
  <2>1. UNCHANGED <<pb, history>>
    BY <1>1 DEF Next, MainLoop, Motion, Outside, vars
  <2>2. QED BY <1>1, <2>1, OutsideTheCycle DEF SameCycle, Traces, pb, history
<1>2. CASE Edge
  <2>1. UNCHANGED <<at, cycle, machine, func, registered, modes, probe_state>>
    BY <1>2 DEF Edge
  <2>2. probe_tripped' \in BOOLEAN /\ (probe_tripped => probe_tripped')
        /\ (probe_tripped' => probe_tripped \/ registered)
    BY <1>2 DEF Edge, ProbeTypes
  <2>3. first' = first \/ (registered /\ probe_tripped')
    BY <1>2 DEF Edge
  <2>4. CASE registered
    <3>1. func # "start"
      BY <2>4 DEF Traces
    <3>2. first' >= 0 => probe_tripped'
      BY <2>2, <2>3 DEF Traces
    <3>3. QED BY <2>1, <3>1, <3>2 DEF Traces
  <2>5. CASE ~ registered
    BY <2>1, <2>2, <2>3, <2>5 DEF Traces
  <2>6. QED BY <2>4, <2>5
<1>3. CASE ProbingStart
  BY <1>3 DEF ProbingStart, Traces, history
<1>4. CASE RegisterHandler
  BY <1>4 DEF RegisterHandler, Traces, history
<1>5. CASE _probing_backoff
  BY <1>5 DEF _probing_backoff, Traces, history
<1>6. CASE _probing_finish
  BY <1>6 DEF _probing_finish, Finish, Restored, Traces, history
<1>7. CASE Callback
  BY <1>7 DEF Callback, Traces, pb, history
<1>8. CASE RestOfPass
  <2>1. at' = "planner" /\ cycle # "PROBE"
    BY <1>8 DEF RestOfPass
  <2>2. CASE UNCHANGED <<cycle, pb, history>>
    BY <2>1, <2>2 DEF Traces, pb, history
  <2>3. ASSUME NEW to, NEW alarm, StraightProbe(to, alarm), UNCHANGED <<registered, modes>>
        PROVE  Traces'
    <3>1. ~ registered /\ modes # "probe"
      BY <2>1 DEF Traces
    <3>2. cycle' # "PROBE"
      BY <2>1, <2>3 DEF StraightProbe
    <3>3. func' = "start" /\ probe_tripped' = FALSE /\ first' = 0 - 1
      BY <2>3 DEF StraightProbe
    <3>4. first' < 0
      BY <3>3
    <3>5. ~ registered' /\ modes' # "probe"
      BY <2>3, <3>1
    <3>6. ~ (first' >= 0)
      BY <3>3
    <3>7. QED BY <2>1, <3>2, <3>3, <3>4, <3>5, <3>6 DEF Traces
  <2>4. QED BY <1>8, <2>2, <2>3 DEF RestOfPass
<1>9. CASE _run_queue_flush
  <2>1. at' # "register"
    BY <1>9, AfterAction DEF _run_queue_flush, Operations, MachineTypes, Next_
  <2>2. CASE cycle = "PROBE"
    BY <1>9, <2>1, <2>2 DEF _run_queue_flush, Flush, Finish, Restored, Traces
  <2>3. CASE cycle # "PROBE"
    BY <1>9, <2>1, <2>3 DEF _run_queue_flush, Flush, Traces
  <2>4. QED BY <2>2, <2>3
<1>10. CASE _run_alarm
  <2>1. at' # "register"
    BY <1>10, AfterAction DEF _run_alarm, Operations, MachineTypes, Next_, Again
  <2>2. CASE UNCHANGED <<cycle, machine, pb>>
    BY <1>10, <2>1, <2>2 DEF _run_alarm, Traces, pb
  <2>3. CASE ~ UNCHANGED <<cycle, machine, pb>>
    BY <1>10, <2>1, <2>3 DEF _run_alarm, Traces, MachineTypes
  <2>4. QED BY <2>2, <2>3
<1>11. QED
  BY <1>1, <1>2, <1>3, <1>4, <1>5, <1>6, <1>7, <1>8, <1>9, <1>10 DEF Cycle

---------------------------------------------------------------------------
(* What is queued *)

MoveDone(q) == Len(q) = 2 /\ q[1].kind = "move" /\ q[2].kind = "done"
Done(q) == Len(q) = 1 /\ q[1].kind = "done"
NoMove(q) == \A k \in DOMAIN q : q[k].kind # "move"

LEMMA ShapeKept ==
  ASSUME queue \in Seq(Blocks), SameShape
  PROVE  /\ MoveDone(queue') <=> MoveDone(queue)
         /\ Done(queue') <=> Done(queue)
         /\ NoMove(queue') <=> NoMove(queue)
         /\ queue' = <<>> <=> queue = <<>>
         /\ HasMove' <=> HasMove
<1>1. /\ DOMAIN queue = 1 .. Len(queue) /\ DOMAIN queue' = 1 .. Len(queue)
      /\ Len(queue') = Len(queue) /\ Len(queue) \in Nat
      /\ \A k \in 1 .. Len(queue) : queue'[k].kind = queue[k].kind
      /\ queue' = <<>> <=> Len(queue) = 0
      /\ queue = <<>> <=> Len(queue) = 0
  BY SeqFacts DEF SameShape
<1>2. (MoveDone(queue') <=> MoveDone(queue)) /\ (Done(queue') <=> Done(queue))
  BY <1>1 DEF MoveDone, Done
<1>3. NoMove(queue') <=> NoMove(queue)
  BY <1>1 DEF NoMove
<1>4. HasMove' <=> HasMove
  BY <1>1 DEF HasMove
<1>5. QED BY <1>1, <1>2, <1>3, <1>4

\* The first block of such a queue goes.
LEMMA TailShape ==
  ASSUME NEW q \in Seq(Blocks), q # <<>>
  PROVE  /\ MoveDone(q) => Done(Tail(q))
         /\ Done(q) => Tail(q) = <<>>
         /\ NoMove(q) => NoMove(Tail(q))
         /\ Tail(q) \in Seq(Blocks)
<1>1. /\ Len(q) \in Nat /\ DOMAIN q = 1 .. Len(q)
      /\ Tail(q) \in Seq(Blocks) /\ Len(Tail(q)) = Len(q) - 1
      /\ \A k \in 1 .. Len(q) - 1 : Tail(q)[k] = q[k + 1]
  BY SeqFacts, TailFacts
<1>2. DOMAIN Tail(q) = 1 .. Len(q) - 1 /\ (Tail(q) = <<>> <=> Len(q) - 1 = 0)
  BY <1>1, SeqFacts
<1>3. QED BY <1>1, <1>2 DEF MoveDone, Done, NoMove

LEMMA OneMoveParts ==
  /\ OneMoveAtMost <=> /\ InProgress => IF waiting THEN Done(queue) \/ MoveDone(queue)
                                                   ELSE queue = <<>>
                       /\ ~ InProgress => NoMove(queue)
                       /\ at \in {"function", "register"} => InProgress /\ ~ waiting
  /\ OneMoveAtMost' <=> /\ InProgress' => IF waiting' THEN Done(queue') \/ MoveDone(queue')
                                                      ELSE queue' = <<>>
                        /\ ~ InProgress' => NoMove(queue')
                        /\ at' \in {"function", "register"} => InProgress' /\ ~ waiting'
BY DEF OneMoveAtMost, Done, MoveDone, NoMove

\* What is appended to an empty queue
LEMMA ProbeMoveQueues ==
  ASSUME queue = <<>>, NEW to \in Int, ProbeMove(to)
  PROVE  waiting' = TRUE /\ (Done(queue') \/ MoveDone(queue'))
<1>1. /\ Block("done", 0) \in Blocks /\ Block("done", 0).kind = "done"
      /\ Block("move", to) \in Blocks /\ Block("move", to).kind = "move"
  BY BlockIsBlock
<1>2. /\ queue' = <<>> \o (IF to = pos THEN <<>> ELSE <<Block("move", to)>>)
                       \o <<Block("done", 0)>>
      /\ waiting' = TRUE
  BY DEF ProbeMove
<1>3. <<Block("done", 0)>> \in Seq(Blocks) /\ <<Block("move", to)>> \in Seq(Blocks)
      /\ <<>> \in Seq(Blocks)
  BY <1>1, Singles, EmptySeq
<1> DEFINE d == Block("done", 0)
           m == Block("move", to)
<1>4. CASE to = pos
  <2>1. <<>> \o <<>> = <<>> /\ <<>> \o <<d>> = <<d>>
    BY <1>3, ConcatEmptySeq
  <2>2. queue' = <<d>>
    BY <1>2, <1>4, <2>1
  <2>3. QED BY <1>1, <1>2, <2>2 DEF Done
<1>5. CASE to # pos
  <2>1. <<>> \o <<m>> = <<m>>
    BY <1>3, ConcatEmptySeq
  <2>2. queue' = <<m>> \o <<d>>
    BY <1>2, <1>5, <2>1
  <2>3. Len(queue') = 2 /\ queue'[1] = m /\ queue'[2] = d
    <3>1. Len(<<m>>) = 1 /\ Len(<<d>>) = 1 /\ <<m>>[1] = m /\ <<d>>[1] = d
      OBVIOUS
    <3> HIDE DEF m, d
    <3>2. QED BY <1>3, <2>2, <3>1, ConcatProperties DEF m, d
  <2>4. QED BY <1>1, <1>2, <2>3 DEF MoveDone
<1>6. QED BY <1>4, <1>5

LEMMA StraightProbeQueues ==
  ASSUME queue = <<>>, NEW to, NEW alarm, StraightProbe(to, alarm)
  PROVE  waiting' = TRUE /\ (Done(queue') \/ MoveDone(queue'))
<1> DEFINE d == Block("done", 0)
           m == Block("move", 1)
<1>1. m.kind = "move" /\ d.kind = "done" /\ m \in Blocks /\ d \in Blocks
  BY BlockIsBlock
<1>2. <<m, d>> \in Seq(Blocks) /\ Len(<<m, d>>) = 2 /\ <<m, d>>[1] = m /\ <<m, d>>[2] = d
  BY <1>1, Pairs
<1>3. \/ queue' = Append(<<>>, d)
      \/ queue' = <<>> \o <<m, d>>
  BY DEF StraightProbe
<1> HIDE DEF m, d
<1>4. <<>> \o <<m, d>> = <<m, d>>
  BY <1>2, ConcatEmptySeq
<1>5. Append(<<>>, d) = <<d>>
  OBVIOUS
<1>6. CASE queue' = <<d>>
  BY <1>1, <1>6 DEF Done, StraightProbe
<1>7. CASE queue' = <<m, d>>
  BY <1>1, <1>2, <1>7 DEF MoveDone, StraightProbe
<1>8. QED BY <1>3, <1>4, <1>5, <1>6, <1>7

LEMMA OthersAreNoMove ==
  /\ NoMove(<<>>) /\ NoMove(Append(<<>>, Block("other", 0)))
  /\ NoMove(<<>> \o <<Block("other", 0)>>)
  /\ NoMove(<<Block("other", 0)>> \o <<Block("other", 0)>>)
<1> DEFINE o == Block("other", 0)
<1>1. o \in Blocks /\ o.kind = "other"
  BY BlockIsBlock
<1> HIDE DEF o
<1>2. <<o>> \in Seq(Blocks) /\ Len(<<o>>) = 1 /\ <<o>>[1] = o
  BY <1>1, Singles
<1>3. Append(<<>>, o) = <<o>>
  OBVIOUS
<1>4. <<>> \o <<o>> = <<o>>
  BY <1>2, ConcatEmptySeq
<1>5. /\ <<o>> \o <<o>> \in Seq(Blocks) /\ Len(<<o>> \o <<o>>) = 2
      /\ (<<o>> \o <<o>>)[1] = o /\ (<<o>> \o <<o>>)[2] = o
  BY <1>2, ConcatProperties
<1>6. DOMAIN (<<o>> \o <<o>>) = 1 .. 2
  BY <1>5, SeqFacts
<1>7. NoMove(<<>>) /\ NoMove(<<o>>)
  BY <1>1 DEF NoMove
<1>8. NoMove(<<o>> \o <<o>>)
  BY <1>1, <1>5, <1>6 DEF NoMove
<1>9. QED BY <1>3, <1>4, <1>7, <1>8 DEF o

LEMMA NoMoveStays ==
  ASSUME OneMoveAtMost, SameShape, queue \in Seq(Blocks), UNCHANGED waiting,
         InProgress' <=> InProgress, at' \in {"function", "register"} => at' = at
  PROVE  OneMoveAtMost'
BY ShapeKept, OneMoveParts

LEMMA InProgressOutside ==
  ASSUME SameCycle, UNCHANGED probe_state
  PROVE  /\ InProgress' <=> InProgress
         /\ at' \in {"function", "register"} => at' = at
BY DEF SameCycle, InProgress

LEMMA OneMoveInMotion ==
  ASSUME MotionTypes, OneMoveAtMost, Motion, SameCycle PROVE OneMoveAtMost'
<1>1. queue \in Seq(Blocks) /\ queue # <<>>
  BY DEF MotionTypes, Motion, MoveOrCommand, Move, Stop, RunCommand, HasMove
<1>2. InProgress' <=> InProgress
  BY InProgressOutside DEF Motion, pb
<1>3. at' = at
  BY DEF Motion, MoveOrCommand, Move, Stop, RunCommand
<1>4. queue[1] \in Blocks /\ 1 \in DOMAIN queue /\ Head(queue) = queue[1]
  BY <1>1, SeqFacts
<1>5. CASE Move \/ Stop
  <2>1. queue[1].kind = "move" /\ waiting' = waiting
    BY <1>4, <1>5 DEF Move, Stop, HasMove
  <2>2. MoveDone(queue) /\ InProgress /\ waiting
    BY <1>1, <1>4, <2>1, OneMoveParts DEF NoMove, Done
  <2>3. MoveDone(queue') \/ Done(queue')
    <3>1. CASE Move
      <4>1. queue' = queue \/ queue' = Tail(queue)
        BY <3>1 DEF Move
      <4>2. QED BY <1>1, <2>2, <4>1, TailShape
    <3>2. CASE Stop
      <4>1. PICK b \in BOOLEAN : queue' = queue \/ queue' = Tail(Held(b))
        BY <3>2 DEF Stop
      <4>2. Len(queue) = 2 /\ queue[1].kind = "move" /\ queue[2].kind = "done"
        BY <2>2 DEF MoveDone
      <4>3. /\ Held(b) \in Seq(Blocks) /\ Len(Held(b)) = Len(queue)
            /\ \A k \in 1 .. Len(queue) : Held(b)[k].kind = queue[k].kind
        BY <1>1, HeldFacts
      <4>4. MoveDone(Held(b))
        BY <4>2, <4>3 DEF MoveDone
      <4>5. Held(b) # <<>>
        BY <4>2, <4>3, SeqFacts
      <4> DEFINE q == Held(b)
      <4>6. q \in Seq(Blocks) /\ MoveDone(q) /\ q # <<>> /\ (queue' = queue \/ queue' = Tail(q))
        BY <4>1, <4>3, <4>4, <4>5
      <4> HIDE DEF q
      <4>7. QED BY <2>2, <4>6, TailShape
    <3>3. QED BY <1>5, <3>1, <3>2
  <2>4. QED BY <1>2, <1>3, <2>1, <2>2, <2>3, OneMoveParts
<1>6. CASE RunCommand
  <2>1. queue' = Tail(queue) /\ waiting' = (waiting /\ queue[1].kind # "done")
        /\ queue[1].kind # "move"
    BY <1>1, <1>4, <1>6 DEF RunCommand, HasMove
  <2>2. CASE InProgress
    <3>1. Done(queue) /\ waiting
      BY <1>1, <2>1, <2>2, OneMoveParts DEF MoveDone
    <3>2. queue' = <<>> /\ ~ waiting'
      BY <1>1, <2>1, <3>1, TailShape DEF Done
    <3>3. QED BY <1>2, <1>3, <2>2, <3>2, OneMoveParts
  <2>3. CASE ~ InProgress
    <3>1. NoMove(queue')
      BY <1>1, <2>1, <2>3, TailShape, OneMoveParts
    <3>2. QED BY <1>2, <1>3, <2>3, <3>1, OneMoveParts
  <2>4. QED BY <2>2, <2>3
<1>7. QED BY <1>5, <1>6 DEF Motion, MoveOrCommand

LEMMA OneMoveAborted ==
  ASSUME MachineTypes, MotionTypes, Operations, OneMoveAtMost,
         _run_queue_flush \/ _run_alarm
  PROVE  OneMoveAtMost'
<1>1. at' \notin {"function", "register"}
  BY AfterAction DEF _run_queue_flush, _run_alarm, Next_, Again, Operations, MachineTypes
<1>2. CASE _run_queue_flush
  <2>1. NoMove(queue')
    BY <1>2, OthersAreNoMove DEF _run_queue_flush, Flush, Finish
  <2>2. ~ InProgress'
    BY <1>2 DEF _run_queue_flush, Flush, Finish, InProgress
  <2>3. QED BY <1>1, <2>1, <2>2, OneMoveParts
<1>3. CASE _run_alarm
  <2>1. CASE UNCHANGED <<queue, waiting, cycle, pb>>
    BY <1>1, <2>1, OneMoveParts DEF InProgress, pb
  <2>2. CASE ~ UNCHANGED <<queue, waiting, cycle, pb>>
    <3>1. NoMove(queue')
      BY <1>3, <2>2, OthersAreNoMove DEF _run_alarm
    <3>2. ~ InProgress'
      BY <1>3, <2>2 DEF _run_alarm, InProgress
    <3>3. QED BY <1>1, <3>1, <3>2, OneMoveParts
  <2>3. QED BY <2>1, <2>2
<1>4. QED BY <1>2, <1>3

LEMMA OneMoveInCycle ==
  ASSUME MotionTypes, ProbeTypes, Traces, OneMoveAtMost, Cycle PROVE OneMoveAtMost'
<1>1. snapshot \in Int /\ target \in Int
  BY BoundAssumption DEF MotionTypes, ProbeTypes
<1>2. CASE ProbingStart
  <2>1. queue = <<>> /\ ~ waiting /\ waiting' = waiting
    BY <1>2, OneMoveParts DEF ProbingStart
  <2>2. CASE cycle' = "PROBE"
    BY <1>2, <2>1, <2>2, OneMoveParts DEF ProbingStart, InProgress
  <2>3. CASE cycle' # "PROBE"
    <3>1. queue' = Append(<<>>, Block("other", 0)) /\ ~ InProgress' /\ at' = "planner"
      BY <1>2, <2>1, <2>3 DEF ProbingStart, InProgress
    <3>2. QED BY <3>1, OthersAreNoMove, OneMoveParts
  <2>4. QED BY <2>2, <2>3
<1>3. CASE RegisterHandler
  <2>1. queue = <<>> /\ ProbeMove(target) /\ at' = "planner" /\ cycle' = "PROBE"
    BY <1>3, OneMoveParts DEF RegisterHandler, Traces
  <2>2. waiting' = TRUE /\ (Done(queue') \/ MoveDone(queue'))
    BY <1>1, <2>1, ProbeMoveQueues
  <2>3. QED BY <2>1, <2>2, OneMoveParts DEF InProgress
<1>4. CASE _probing_backoff
  <2>1. queue = <<>> /\ InProgress /\ ~ waiting
    BY <1>4, OneMoveParts DEF _probing_backoff
  <2>2. cycle = "PROBE" /\ InProgress' /\ at' = "planner"
    BY <1>4, <2>1 DEF _probing_backoff, InProgress, Traces
  <2>3. CASE ProbeMove(Contact)
    <3>1. waiting' = TRUE /\ (Done(queue') \/ MoveDone(queue'))
      BY <1>1, <2>1, <2>3, ProbeMoveQueues DEF Contact
    <3>2. QED BY <2>2, <3>1, OneMoveParts
  <2>4. CASE UNCHANGED <<queue, model, waiting>>
    BY <2>1, <2>2, <2>4, OneMoveParts
  <2>5. QED BY <1>4, <2>3, <2>4 DEF _probing_backoff
<1>5. CASE _probing_finish
  <2>1. queue = <<>> /\ at' = "planner"
    BY <1>5, OneMoveParts DEF _probing_finish
  <2>2. NoMove(queue') /\ ~ InProgress'
    BY <1>5, <2>1, OthersAreNoMove DEF _probing_finish, Finish, InProgress, Traces
  <2>3. QED BY <2>1, <2>2, OneMoveParts
<1>6. CASE Callback
  <2>1. /\ InProgress /\ InProgress' /\ UNCHANGED <<queue, waiting>>
        /\ at' = "planner" \/ (at' = "function" /\ ~ waiting)
    BY <1>6 DEF Callback, InProgress, motion, pb
  <2>2. QED BY <2>1, OneMoveParts
<1>7. CASE RestOfPass
  <2>1. at' = "planner" /\ ~ InProgress
    BY <1>7 DEF RestOfPass, InProgress
  <2>2. CASE UNCHANGED <<motion, cycle, pb>>
    BY <2>1, <2>2, OneMoveParts DEF motion, pb, InProgress
  <2>3. ASSUME queue = <<>>, NEW to, NEW alarm, StraightProbe(to, alarm)
        PROVE  OneMoveAtMost'
    <3>1. waiting' = TRUE /\ (Done(queue') \/ MoveDone(queue'))
      BY <2>3, StraightProbeQueues
    <3>2. InProgress'
      BY <2>3 DEF StraightProbe, InProgress
    <3>3. QED BY <2>1, <3>1, <3>2, OneMoveParts
  <2>4. QED BY <1>7, <2>2, <2>3 DEF RestOfPass
<1>8. QED
  BY <1>2, <1>3, <1>4, <1>5, <1>6, <1>7 DEF Cycle

LEMMA OneMoveStays ==
  ASSUME MachineTypes, MotionTypes, ProbeTypes, Operations, Traces, OneMoveAtMost, [Next]_vars
  PROVE  OneMoveAtMost'
<1>1. CASE Cycle
  BY <1>1, OneMoveInCycle
<1>2. CASE _run_queue_flush \/ _run_alarm
  BY <1>2, OneMoveAborted
<1>3. CASE ~ Cycle /\ ~ _run_queue_flush /\ ~ _run_alarm
  <2>1. SameCycle
    BY <1>3, OutsideTheCycle
  <2>2. UNCHANGED probe_state
    BY <1>3 DEF Next, MainLoop, Motion, Edge, Outside, vars, pb
  <2>3. CASE BeforeCycle
    BY <2>1, <2>2, <2>3, BeforeCycleReleases, ReleasedKeeps, NoMoveStays, InProgressOutside
       DEF Released, MotionTypes
  <2>4. CASE Motion
    BY <2>1, <2>4, OneMoveInMotion
  <2>5. CASE Edge \/ Outside \/ UNCHANGED vars
    <3>1. UNCHANGED <<queue, waiting>>
      BY <2>5 DEF Edge, Outside, Keys, FeedholdKey, LimitSwitch, CycleStartKey, FlushKey,
         LockoutEnds, motion, vars
    <3>2. QED
      BY <2>1, <2>2, <3>1, NoMoveStays, InProgressOutside DEF SameShape, MotionTypes
  <2>6. QED BY <1>3, <2>3, <2>4, <2>5 DEF Next, MainLoop
<1>4. QED BY <1>1, <1>2, <1>3

LEMMA ProbeInvStays ==
  ASSUME ProbeInv, [Next]_vars PROVE ProbeInv'
BY MachineTypesStay, MotionTypesStay, ProbeTypesStay, OperationsStay, TracesStay, OneMoveStays
   DEF ProbeInv

---------------------------------------------------------------------------
(* The stop *)

Danger == func = "backoff" /\ first >= 0 /\ "deaf" \notin mishaps
Near == pos - first \in {-1, 0, 1}
Armed == /\ cycle = "PROBE" /\ op = SkipStop /\ holdType = "SKIP"
         /\ \/ hold = "SYNC" /\ pos = first
            \/ hold = "DECEL" /\ pos - first \in {-1, 1}

LEMMA StoppingParts ==
  /\ Stopping <=> (Danger => (~ HasMove /\ Near) \/ (HasMove /\ Armed))
  /\ Stopping' <=> (Danger' => (~ HasMove' /\ Near') \/ (HasMove' /\ Armed'))
BY DEF Stopping, Danger, Near, Armed

LEMMA ArmedIsNear ==
  ASSUME MotionTypes, ProbeTypes, Stopping, Danger PROVE Near
<1>1. pos \in Int /\ first \in Int
  BY DEF MotionTypes, ProbeTypes
<1>2. QED BY <1>1 DEF Stopping, Danger, Near

LEMMA ArmedFacts ==
  ASSUME MachineTypes, Operations, Traces, Armed
  PROVE  /\ machine = "CYCLE" /\ hold \in Braking /\ holdType = "SKIP"
         /\ op # <<>> /\ Head(op) = "skip" /\ op \o <<>> = op /\ at # "reset"
<1>1. op # <<>> /\ Head(op) = "skip"
  BY DEF Armed, SkipStop
<1>2. op \o <<>> = op
  BY ConcatEmptySeq DEF MachineTypes
<1>3. QED BY <1>1, <1>2 DEF Armed, Operations, Traces, Braking

\* A queue without a move at its head
LEMMA NoMoveAhead ==
  ASSUME NEW q \in Seq(Blocks), NoMove(q) \/ Done(q) \/ q = <<>>
  PROVE  ~ (q # <<>> /\ Head(q).kind = "move")
<1>1. q # <<>> => Head(q) = q[1] /\ 1 \in DOMAIN q
  BY SeqFacts
<1>2. QED BY <1>1 DEF NoMove, Done

LEMMA MoveAhead ==
  ASSUME MotionTypes, OneMoveAtMost, HasMove PROVE MoveDone(queue)
<1>1. queue \in Seq(Blocks)
  BY DEF MotionTypes
<1>2. queue # <<>> /\ Head(queue).kind = "move" /\ ~ NoMove(queue) /\ ~ Done(queue)
  BY <1>1, NoMoveAhead DEF HasMove
<1>3. QED BY <1>2, OneMoveParts

LEMMA StopBeforeCycle ==
  ASSUME ProbeInv, Stopping, BeforeCycle, UNCHANGED <<pb, history>> PROVE Stopping'
<1>1. queue \in Seq(Blocks) /\ Released
  BY BeforeCycleReleases DEF ProbeInv, MotionTypes
<1>2. HasMove' <=> HasMove
  BY <1>1, ReleasedKeeps, ShapeKept
<1>3. pos' = pos /\ (Danger' <=> Danger) /\ first' = first
  BY <1>1 DEF Released, Danger, pb, history
<1>4. CASE ~ HasMove
  BY <1>2, <1>3, <1>4, StoppingParts DEF Near
<1>5. CASE HasMove /\ Danger
  <2>1. Armed
    BY <1>5, StoppingParts
  <2>2. machine = "CYCLE" /\ hold \in Braking /\ holdType = "SKIP"
        /\ op # <<>> /\ Head(op) = "skip" /\ op \o <<>> = op /\ at # "reset"
    BY <2>1, ArmedFacts DEF ProbeInv
  <2>3. UNCHANGED <<cycle, hold, holdType, op>>
    <3>1. CASE mp_planner_callback
      BY <1>5, <3>1 DEF mp_planner_callback, Noted, HasMove
    <3>2. CASE StartOperation
      <4>1. op' = Added(<<>> \o <<>>)
        BY <2>2, <3>2 DEF StartOperation, Braking
      <4>2. <<>> \o <<>> = <<>>
        BY EmptySeq, ConcatEmptySeq
      <4>3. op' = op
        BY <2>2, <4>1, <4>2 DEF Added
      <4>4. QED BY <3>2, <4>3 DEF StartOperation
    <3>3. CASE RunAction
      <4>1. _feedhold_skip
        BY <2>2, <3>3 DEF RunAction, _feedhold_no_actions, _run_program_stop,
           _run_reset_position, _feedhold_restart_no_actions, _run_restart_cycle, Next_, Again
      <4>2. QED BY <2>2, <4>1 DEF _feedhold_skip, Again, Braking
    <3>4. CASE ResetOperation
      BY <2>2, <3>4 DEF ResetOperation
    <3>5. QED BY <3>1, <3>2, <3>3, <3>4 DEF BeforeCycle
  <2>4. Armed'
    BY <1>3, <2>1, <2>3 DEF Armed
  <2>5. QED BY <1>2, <1>5, <2>4, StoppingParts
<1>6. QED BY <1>3, <1>4, <1>5, StoppingParts

LEMMA StopInMotion ==
  ASSUME ProbeInv, Stopping, Motion PROVE Stopping'
<1>1. queue \in Seq(Blocks) /\ pos \in Int /\ first \in Int
  BY DEF ProbeInv, MotionTypes, ProbeTypes
<1>2. (Danger' <=> Danger) /\ first' = first
  BY DEF Motion, Danger, pb, history
<1>3. CASE Move
  <2>1. MoveDone(queue) /\ queue # <<>> /\ HasMove
    BY <1>3, MoveAhead DEF Move, ProbeInv, HasMove
  <2>2. CASE Danger
    <3>1. Armed
      BY <2>1, <2>2, StoppingParts
    <3>2. hold = "SYNC" /\ pos = first /\ holdType = "SKIP" /\ op = SkipStop /\ cycle = "PROBE"
      BY <1>3, <3>1 DEF Move, Armed
    <3>3. /\ pos' \in {pos + 1, pos - 1} /\ hold' = "DECEL"
          /\ UNCHANGED <<cycle, holdType, op>>
          /\ queue' = queue \/ queue' = Tail(queue)
      BY <1>3, <3>2 DEF Move
    <3>4. pos' - first' \in {-1, 1}
      <4>1. pos' = first + 1 \/ pos' = first - 1
        BY <3>2, <3>3
      <4>2. QED BY <1>1, <1>2, <4>1
    <3>5. Armed'
      BY <3>2, <3>3, <3>4 DEF Armed
    <3>6. Near'
      BY <3>4 DEF Near
    <3>7. CASE queue' = queue
      BY <2>1, <3>5, <3>7, StoppingParts DEF HasMove
    <3>8. CASE queue' = Tail(queue)
      <4>1. Done(queue') /\ queue' \in Seq(Blocks)
        BY <1>1, <2>1, <3>8, TailShape
      <4>2. ~ HasMove'
        BY <4>1, NoMoveAhead DEF HasMove
      <4>3. QED BY <3>6, <4>2, StoppingParts
    <3>9. QED BY <3>3, <3>7, <3>8
  <2>3. QED BY <1>2, <2>2, StoppingParts
<1>4. CASE Stop
  <2>1. MoveDone(queue) /\ queue # <<>> /\ HasMove
    BY <1>4, MoveAhead DEF Stop, ProbeInv, HasMove
  <2>2. CASE Danger
    <3>1. Armed /\ Near
      BY <2>1, <2>2, StoppingParts, ArmedIsNear DEF ProbeInv
    <3>2. Near'
      BY <1>2, <1>4, <3>1 DEF Stop, Near
    <3>3. \E b \in BOOLEAN : queue' = Tail(Held(b))
      BY <1>4, <3>1 DEF Stop, Armed
    <3>4. PICK b \in BOOLEAN : queue' = Tail(Held(b))
      BY <3>3
    <3>5. Len(queue) = 2 /\ queue[1].kind = "move" /\ queue[2].kind = "done"
      BY <2>1 DEF MoveDone
    <3> DEFINE q == Held(b)
    <3>6. /\ q \in Seq(Blocks) /\ Len(q) = Len(queue)
          /\ \A k \in 1 .. Len(queue) : q[k].kind = queue[k].kind
      BY <1>1, HeldFacts
    <3>7. queue' = Tail(q)
      BY <3>4
    <3> HIDE DEF q
    <3>8. MoveDone(q) /\ q # <<>>
      <4>1. Len(q) = 2
        BY <3>5, <3>6
      <4>2. q[1].kind = "move" /\ q[2].kind = "done"
        <5>1. 1 \in 1 .. Len(queue) /\ 2 \in 1 .. Len(queue)
          BY <3>5
        <5>2. QED BY <3>5, <3>6, <5>1
      <4>3. q # <<>>
        BY <4>1, EmptySeq
      <4>4. QED BY <4>1, <4>2, <4>3 DEF MoveDone
    <3>9. Done(queue') /\ queue' \in Seq(Blocks)
      BY <3>6, <3>7, <3>8, TailShape
    <3>10. ~ HasMove'
      BY <3>9, NoMoveAhead DEF HasMove
    <3>11. QED BY <3>2, <3>10, StoppingParts
  <2>3. QED BY <1>2, <2>2, StoppingParts
<1>5. CASE RunCommand
  <2>1. ~ HasMove /\ queue # <<>> /\ queue' = Tail(queue) /\ pos' = pos
    BY <1>5 DEF RunCommand
  <2>2. ~ MoveDone(queue)
    <3>1. Head(queue) = queue[1]
      BY <1>1, <2>1, SeqFacts
    <3>2. QED BY <2>1, <3>1 DEF HasMove, MoveDone
  <2>3. Done(queue) \/ NoMove(queue)
    BY <2>1, <2>2, OneMoveParts DEF ProbeInv
  <2>4. queue' \in Seq(Blocks) /\ (queue' = <<>> \/ NoMove(queue'))
    BY <1>1, <2>1, <2>3, TailShape
  <2>5. ~ HasMove'
    BY <2>4, NoMoveAhead DEF HasMove
  <2>6. QED BY <1>2, <2>1, <2>5, StoppingParts DEF Near
<1>6. QED BY <1>3, <1>4, <1>5 DEF Motion, MoveOrCommand

LEMMA StopAtTheEdge ==
  ASSUME ProbeInv, Stopping, Edge PROVE Stopping'
<1>1. UNCHANGED <<queue, pos, cycle, func>> /\ (HasMove' <=> HasMove)
  BY DEF Edge, HasMove
<1>2. pos \in Int /\ first \in Int /\ op \in Seq(Actions)
  BY DEF ProbeInv, MotionTypes, ProbeTypes, MachineTypes
<1>3. CASE first' = first
  <2>1. Danger' => Danger
    BY <1>1, <1>3 DEF Edge, Danger
  <2>2. CASE HasMove /\ Danger
    <3>1. Armed
      BY <2>2, StoppingParts
    <3>2. machine = "CYCLE" /\ hold \in Braking
      BY <3>1, ArmedFacts DEF ProbeInv
    <3>3. UNCHANGED holding
      BY <3>2 DEF Edge, RequestFeedhold, Braking
    <3>4. Armed'
      BY <1>1, <1>3, <3>1, <3>3 DEF Armed, holding
    <3>5. QED BY <1>1, <2>2, <3>4, StoppingParts
  <2>3. QED BY <1>1, <1>3, <2>1, <2>2, StoppingParts DEF Near
<1>4. CASE first' # first
  <2>1. cycle = "PROBE" /\ first' = pos /\ RequestFeedhold("SKIP", <<"skip", "stop">>)
    BY <1>4 DEF Edge
  <2>2. Near'
    BY <1>1, <1>2, <2>1 DEF Near
  <2>3. CASE Danger'
    <3>1. hold = "OFF" /\ ~ inOperation
      BY <1>4, <2>3 DEF Edge, Danger
    <3>2. op = <<>> /\ machine = "CYCLE"
      BY <2>1, <3>1 DEF ProbeInv, Operations, Traces
    <3>3. hold' = "SYNC" /\ holdType' = "SKIP" /\ op' = <<>> \o SkipStop
      BY <2>1, <3>1, <3>2 DEF RequestFeedhold, Added, SkipStop
    <3>4. op' = SkipStop
      BY <3>3, ListsAreActions, ConcatEmptySeq
    <3>5. Armed'
      BY <1>1, <2>1, <3>3, <3>4 DEF Armed
    <3>6. QED BY <2>2, <3>5, StoppingParts
  <2>4. QED BY <2>3, StoppingParts
<1>5. QED BY <1>3, <1>4

LEMMA StopFromOutside ==
  ASSUME ProbeInv, Stopping, Outside PROVE Stopping'
<1>1. UNCHANGED <<queue, pos, cycle, first>> /\ (HasMove' <=> HasMove) /\ (Danger' <=> Danger)
  BY DEF Outside, Keys, FeedholdKey, LimitSwitch, CycleStartKey, FlushKey, LockoutEnds,
     motion, pb, history, HasMove, Danger
<1>2. CASE HasMove /\ Danger
  <2>1. Armed
    BY <1>2, StoppingParts
  <2>2. machine = "CYCLE" /\ hold \in Braking
    BY <2>1, ArmedFacts DEF ProbeInv
  <2>3. UNCHANGED holding
    BY <2>2 DEF Outside, Keys, FeedholdKey, LimitSwitch, CycleStartKey, FlushKey, LockoutEnds,
       RequestFeedhold, Braking
  <2>4. Armed'
    BY <1>1, <2>1, <2>3 DEF Armed, holding
  <2>5. QED BY <1>1, <1>2, <2>4, StoppingParts
<1>3. QED BY <1>1, <1>2, StoppingParts DEF Near

LEMMA StopWhenAborted ==
  ASSUME ProbeInv, Stopping, _run_queue_flush \/ _run_alarm PROVE Stopping'
<1>1. pos' = pos /\ first' = first /\ (Danger' => Danger)
  BY DEF _run_queue_flush, _run_alarm, Flush, Finish, Aborted, Danger, pb
<1>2. CASE _run_alarm /\ UNCHANGED <<queue, cycle, hold, holdType>> /\ op' = op
  BY <1>1, <1>2, StoppingParts DEF HasMove, Near, Armed
<1>3. CASE NoMove(queue')
  <2>1. queue' \in Seq(Blocks)
    BY MotionTypesStay DEF ProbeInv, MotionTypes, Next, MainLoop
  <2>2. ~ HasMove'
    BY <1>3, <2>1, NoMoveAhead DEF HasMove
  <2>3. Danger' => Near'
    BY <1>1, ArmedIsNear DEF ProbeInv, Near
  <2>4. QED BY <2>2, <2>3, StoppingParts
<1>4. NoMove(queue') \/ (_run_alarm /\ UNCHANGED <<queue, cycle, hold, holdType>> /\ op' = op)
  BY OthersAreNoMove DEF _run_queue_flush, _run_alarm, Flush, Finish, Again
<1>5. QED BY <1>2, <1>3, <1>4

LEMMA StopInCycle ==
  ASSUME ProbeInv, Stopping, Cycle PROVE Stopping'
<1>1. CASE ProbingStart \/ RegisterHandler
  <2>1. func = "start" /\ first' = first
    BY <1>1 DEF ProbingStart, RegisterHandler, ProbeInv, Traces, history
  <2>2. ~ (first' >= 0)
    BY <2>1 DEF ProbeInv, ProbeTypes, Traces
  <2>3. QED BY <2>2, StoppingParts DEF Danger
<1>2. CASE _probing_backoff \/ _probing_finish
  BY <1>2, StoppingParts DEF _probing_backoff, _probing_finish, Danger
<1>3. CASE Callback
  BY <1>3 DEF Callback, Stopping, HasMove, motion, holding, pb, history
<1>4. CASE RestOfPass
  <2>1. CASE UNCHANGED <<motion, cycle, pb, history>> /\ UNCHANGED holding
    BY <2>1 DEF Stopping, HasMove, motion, holding, pb, history
  <2>2. ASSUME NEW to, NEW alarm, StraightProbe(to, alarm)
        PROVE  Stopping'
    BY <2>2, StoppingParts DEF StraightProbe, Danger
  <2>3. QED BY <1>4, <2>1, <2>2 DEF RestOfPass
<1>5. QED BY <1>1, <1>2, <1>3, <1>4 DEF Cycle

LEMMA StoppingStays ==
  ASSUME ProbeInv, Stopping, [Next]_vars PROVE Stopping'
<1>1. CASE UNCHANGED vars
  BY <1>1 DEF vars, pb, history, Stopping, HasMove
<1>2. QED
  BY <1>1, StopBeforeCycle, StopInMotion, StopAtTheEdge, StopFromOutside, StopWhenAborted,
     StopInCycle DEF Next, MainLoop

---------------------------------------------------------------------------
(* What is reported *)

LEMMA SnapshotElsewhere ==
  ASSUME ProbeInv, Snapshot, ReportsTheContact, [Next]_vars,
         ~ Cycle, ~ _run_queue_flush, ~ _run_alarm, ~ Edge
  PROVE  Snapshot' /\ ReportsTheContact'
<1>1. cycle' = "PROBE" <=> cycle = "PROBE"
  BY OutsideTheCycle DEF ProbeInv, SameCycle
<1>2. UNCHANGED <<pb, history, snapshot, model>>
  <2>1. CASE BeforeCycle
    <3>1. UNCHANGED snapshot
          /\ (model' = model \/ (op # <<>> /\ Head(op) = "reset position"))
      BY <2>1, BeforeCycleReleases DEF ProbeInv, Released
    <3>2. op # <<>> => Head(op) \in Actions
      <4>1. op \in Seq(Actions)
        BY DEF ProbeInv, MachineTypes
      <4>2. QED BY <4>1, SeqFacts
    <3>3. model' = model
      BY <3>1, <3>2 DEF Actions
    <3>4. UNCHANGED <<pb, history>>
      BY <2>1 DEF Next, MainLoop, Motion, Outside, vars
    <3>5. QED BY <3>1, <3>3, <3>4
  <2>2. CASE Motion
    BY <2>2 DEF Motion, MoveOrCommand, Move, Stop, RunCommand
  <2>3. CASE Outside \/ UNCHANGED vars
    BY <2>3 DEF Outside, Keys, FeedholdKey, LimitSwitch, CycleStartKey, FlushKey, LockoutEnds,
       vars
  <2>4. QED BY <2>1, <2>2, <2>3 DEF Next, MainLoop
<1>3. QED BY <1>1, <1>2 DEF Snapshot, ReportsTheContact, pb, history

LEMMA SnapshotAtTheEdge ==
  ASSUME ProbeInv, Snapshot, ReportsTheContact, Edge PROVE Snapshot' /\ ReportsTheContact'
<1>1. UNCHANGED <<cycle, func, probe_state, model, result>>
  BY DEF Edge
<1>2. mishaps \subseteq mishaps' /\ probe_tripped \in BOOLEAN
  BY DEF Edge, ProbeInv, ProbeTypes
<1>3. CASE ~ (~ lockout /\ registered /\ cycle = "PROBE")
  BY <1>1, <1>2, <1>3 DEF Edge, Snapshot, ReportsTheContact, ProbeInv, ProbeTypes
<1>4. CASE ~ lockout /\ registered /\ cycle = "PROBE"
  <2>1. ~ (cycle' # "PROBE")
    BY <1>1, <1>4
  <2>2. CASE probe_tripped
    <3>1. first' = first /\ probe_tripped' /\ (func = "backoff" => "again" \in mishaps')
      BY <1>4, <2>2 DEF Edge
    <3>2. QED BY <1>1, <1>2, <2>1, <2>2, <3>1 DEF Snapshot, ReportsTheContact
  <2>3. CASE ~ probe_tripped
    <3>1. probe_tripped' => snapshot' = pos /\ first' = pos
      BY <1>4, <2>3 DEF Edge
    <3>2. probe_state # "SUCCEEDED"
      BY <1>4, <2>3 DEF Snapshot
    <3>3. QED BY <1>1, <2>1, <3>1, <3>2 DEF Snapshot, ReportsTheContact
  <2>4. QED BY <1>2, <2>2, <2>3
<1>5. QED BY <1>3, <1>4

LEMMA SnapshotInCycle ==
  ASSUME ProbeInv, Snapshot, ReportsTheContact, Cycle PROVE Snapshot' /\ ReportsTheContact'
<1>1. CASE ProbingStart
  BY <1>1 DEF ProbingStart, Snapshot, ReportsTheContact
<1>2. CASE RegisterHandler
  <2>1. cycle = "PROBE" /\ func = "start" /\ ~ probe_tripped
    BY <1>2 DEF RegisterHandler, ProbeInv, Traces
  <2>2. QED BY <1>2, <2>1 DEF RegisterHandler, Snapshot, ReportsTheContact
<1>3. CASE _probing_backoff
  <2>1. cycle = "PROBE" /\ func = "backoff"
    BY <1>3 DEF _probing_backoff, ProbeInv, OneMoveAtMost, InProgress, Traces
  <2>2. CASE probe_tripped
    <3>1. model' = snapshot /\ UNCHANGED <<cycle, probe_tripped, history>>
      BY <1>3, <2>2 DEF _probing_backoff, ProbeMove, Contact
    <3>2. "again" \notin mishaps => model' = first
      BY <2>1, <2>2, <3>1 DEF Snapshot
    <3>3. QED
      BY <1>3, <2>1, <2>2, <3>1, <3>2 DEF _probing_backoff, Snapshot, ReportsTheContact, history
  <2>3. CASE ~ probe_tripped
    BY <1>3, <2>1, <2>3 DEF _probing_backoff, Snapshot, ReportsTheContact
  <2>4. QED BY <2>2, <2>3
<1>4. CASE _probing_finish
  <2>1. cycle = "PROBE"
    BY <1>4 DEF _probing_finish, ProbeInv, OneMoveAtMost, InProgress, Traces
  <2>2. cycle' = "NONE" /\ result' = model /\ UNCHANGED <<probe_state, history>>
    BY <1>4 DEF _probing_finish, Finish
  <2>3. QED BY <2>1, <2>2 DEF Snapshot, ReportsTheContact, history
<1>5. CASE Callback
  BY <1>5 DEF Callback, Snapshot, ReportsTheContact, pb, history
<1>6. CASE RestOfPass
  <2>1. cycle # "PROBE" /\ UNCHANGED snapshot
    BY <1>6 DEF RestOfPass
  <2>2. CASE UNCHANGED <<model, cycle, pb, history>>
    BY <2>1, <2>2 DEF Snapshot, ReportsTheContact, pb, history
  <2>3. ASSUME NEW to, NEW alarm, StraightProbe(to, alarm)
        PROVE  Snapshot' /\ ReportsTheContact'
    <3>1. cycle' # "PROBE" /\ probe_state' = "WAITING"
      BY <2>1, <2>3 DEF StraightProbe
    <3>2. QED BY <3>1 DEF Snapshot, ReportsTheContact
  <2>4. QED BY <1>6, <2>2, <2>3 DEF RestOfPass
<1>7. QED BY <1>1, <1>2, <1>3, <1>4, <1>5, <1>6 DEF Cycle

LEMMA SnapshotWhenAborted ==
  ASSUME ProbeInv, Snapshot, ReportsTheContact, _run_queue_flush \/ _run_alarm
  PROVE  Snapshot' /\ ReportsTheContact'
<1>1. CASE UNCHANGED <<cycle, model, snapshot, pb, mishaps, first>>
  BY <1>1 DEF Snapshot, ReportsTheContact, pb
<1>2. CASE ~ UNCHANGED <<cycle, model, snapshot, pb, mishaps, first>>
  <2>1. cycle' # "PROBE" /\ first' = first /\ Aborted
    BY <1>2 DEF _run_queue_flush, _run_alarm, Flush, Finish
  <2>2. CASE cycle = "PROBE"
    <3>1. "aborted" \in mishaps'
      BY <2>1, <2>2 DEF Aborted
    <3>2. QED BY <2>1, <3>1 DEF Snapshot, ReportsTheContact
  <2>3. CASE cycle # "PROBE"
    <3>1. mishaps \subseteq mishaps'
      BY <2>1 DEF Aborted
    <3>2. result' = result /\ (probe_state' = "SUCCEEDED" => probe_state = "SUCCEEDED")
      BY <1>2, <2>3 DEF _run_queue_flush, _run_alarm, Flush, pb
    <3>3. QED BY <2>1, <2>3, <3>1, <3>2 DEF Snapshot, ReportsTheContact
  <2>4. QED BY <2>2, <2>3
<1>3. QED BY <1>1, <1>2

LEMMA SnapshotStays ==
  ASSUME ProbeInv, Snapshot, ReportsTheContact, [Next]_vars
  PROVE  Snapshot' /\ ReportsTheContact'
BY SnapshotElsewhere, SnapshotAtTheEdge, SnapshotInCycle, SnapshotWhenAborted

---------------------------------------------------------------------------
(* The theorems *)

LEMMA Initially ==
  ASSUME Init PROVE ProbeInv /\ Stopping /\ Snapshot /\ ReportsTheContact
<1>1. MachineTypes /\ MotionTypes
  <2>1. op \in Seq(Actions) /\ queue \in Seq(Blocks)
    BY EmptySeq DEF Init, PinInit
  <2>2. pos \in Int /\ model \in Int /\ snapshot \in Int
    BY DEF Init, PinInit
  <2>3. MachineTypes
    BY <2>1 DEF Init, PinInit, MachineTypes
  <2>4. MotionTypes
    BY <2>1, <2>2 DEF Init, PinInit, MotionTypes
  <2>5. QED BY <2>3, <2>4
<1>2. ProbeTypes
  <2>1. target \in 0 .. Far /\ result \in Int
    BY BoundAssumption DEF Init
  <2>2. first \in Int
    BY DEF Init
  <2>3. QED BY <2>1, <2>2 DEF Init, ProbeTypes
<1>3. Operations /\ Traces
  BY DEF Init, PinInit, Operations, Traces
<1>4. OneMoveAtMost
  BY DEF Init, PinInit, OneMoveAtMost, InProgress
<1>5. Stopping /\ Snapshot /\ ReportsTheContact
  BY DEF Init, PinInit, Stopping, Snapshot, ReportsTheContact
<1>6. QED BY <1>1, <1>2, <1>3, <1>4, <1>5 DEF ProbeInv

LEMMA AlwaysProbeInv == Spec => []ProbeInv
<1>1. Init => ProbeInv
  BY Initially
<1>2. ProbeInv /\ [Next]_vars => ProbeInv'
  BY ProbeInvStays
<1>3. QED BY <1>1, <1>2, PTL DEF Spec

\* Whenever no probe runs, the handler is out of the list of the input and the
\* modal settings are the job's: _probing_finish(), cm_abort_probing() and
\* _probing_exception_exit() all leave the machine as the probe found it.
THEOREM NoTraceIsLeft == Spec => []LeavesNoTrace
<1>1. ProbeInv => LeavesNoTrace
  BY DEF ProbeInv, ProbeTypes, Traces, LeavesNoTrace
<1>2. QED BY <1>1, AlwaysProbeInv, PTL

\* From the contact on (_probing_handler()) the machine is within the braking
\* distance of it, and it comes to rest there, for every target, every
\* position of the contact and every number of probes, bounces and keys.
THEOREM ContactStopsTheProbe == Spec => []ContactStops
<1>1. Init => ProbeInv /\ Stopping
  BY Initially
<1>2. ProbeInv /\ Stopping /\ [Next]_vars => (ProbeInv /\ Stopping)'
  BY ProbeInvStays, StoppingStays
<1>3. ProbeInv /\ Stopping => ContactStops
  BY ArmedIsNear DEF ProbeInv, ContactStops, Danger, Near
<1>4. QED BY <1>1, <1>2, <1>3, PTL DEF Spec

\* A probe that succeeds reports the position of its first contact: what the
\* handler has put into the snapshot (:137) goes by _probing_backoff() and
\* _probing_finish() into the results, for all values of the constants.
THEOREM TheContactIsReported == Spec => []ReportsTheContact
<1>1. Init => ProbeInv /\ Snapshot /\ ReportsTheContact
  BY Initially
<1>2. ProbeInv /\ Snapshot /\ ReportsTheContact /\ [Next]_vars
        => (ProbeInv /\ Snapshot /\ ReportsTheContact)'
  BY ProbeInvStays, SnapshotStays
<1>3. QED BY <1>1, <1>2, PTL DEF Spec
=============================================================================
