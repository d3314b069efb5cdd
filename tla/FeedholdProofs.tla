--------------------------- MODULE FeedholdProofs ---------------------------
(***************************************************************************)
(* Proofs about Feedhold.                                                  *)
(*                                                                         *)
(* The properties are about the queues and the motors, and what decides    *)
(* them is the list of actions of the operation.  HoldInv says which lists *)
(* there are, which planner is current while they run, and what planner 2  *)
(* holds in each state of the hold.  Three invariants stand on it:         *)
(*   Parked    nothing plays once the moves of a hold are made             *)
(*   JobHolds  what must be true while the job has a move left: a flush is *)
(*             behind every exit that the operator asked to flush          *)
(*   Short     without kills, no list of actions is ever cut short         *)
(***************************************************************************)
EXTENDS Feedhold, SequenceTheorems, FunctionTheorems, FiniteSetTheorems, TLAPS

---------------------------------------------------------------------------
(* The operation *)

\* The running action is one of the list.
Index == /\ Len(op.acts) <= ACTION_MAX
         /\ op.acts # <<>> => op.run \in 1 .. Len(op.acts)
         /\ op.acts = <<>> => op.run = 1
Current == op.acts[op.run]     \* the action that runs
\* ... and all that are still to run
ToRun == {op.acts[i] : i \in op.run .. Len(op.acts)}

\* What can be behind an action
Enters == {"_feedhold_no_actions", "_feedhold_with_actions"}
Restarts == {"_feedhold_restart_no_actions", "_feedhold_restart_with_actions"}
Follows(a) ==
  CASE a = "_feedhold_no_actions" -> {"_run_alarm"}
    [] a = "_feedhold_with_actions" -> {"_feedhold_restart_no_actions"}
    [] a = "_feedhold_restart_no_actions" -> {"_run_queue_flush", "_run_restart_cycle"}
    [] a = "_feedhold_restart_with_actions" -> {"_run_restart_cycle"}
    [] a = "_run_queue_flush" -> {"_run_program_stop"}
    [] a = "_run_program_stop" -> Restarts
    [] a \in {"_run_alarm", "_run_restart_cycle"} -> {}
\* What can be behind a hold with actions, and which lists take more actions
Chain == {"_feedhold_restart_no_actions", "_run_queue_flush", "_run_program_stop"}
Ended(acts) == \/ Len(acts) = ACTION_MAX
               \/ acts[Len(acts)] \in {"_feedhold_with_actions", "_run_program_stop"}
\* A list is an entry or an exit, and every action is followed by one of its own.
Sound(acts) ==
  /\ acts # <<>> => acts[1] \in Enters \cup Restarts
  /\ \A i \in 1 .. Len(acts) - 1 : acts[i + 1] \in Follows(acts[i])
  /\ acts # <<>> /\ acts[1] = "_feedhold_with_actions" =>
       Ended(acts) /\ \A i \in 2 .. Len(acts) : acts[i] \in Chain
  /\ acts # <<>> /\ acts[1] = "_feedhold_no_actions" =>
       \A i \in 2 .. Len(acts) : acts[i] = "_run_alarm"
Grammar == Sound(op.acts)

\* The actions at the end of a hold work in planner 1.
InP1 == op.acts # <<>> /\ Current \notin Enters \cup Restarts => cm = 1
NotInP2 == cm = 2 => /\ hold[1] \in {"HOLD_ACTIONS_PENDING", "HOLD"} \cup Exiting
                     /\ "_feedhold_no_actions" \notin ToSet(op.acts)

\* What a list that has not been started yet can be, and one that a pass of
\* the main loop finds out of a hold
Idle ==
  ~ op.in_operation /\ at # "operation" /\ op.acts # <<>> =>
    \/ op.acts[1] \in Restarts /\ Ended(op.acts)
    \/ op.acts[1] \in Enters /\ cm = 1
       /\ hold[1] \in {"OFF", "MOTION_STOPPED"} \cup Stopping
Fresh ==
  /\ at \in {"input", "planner", "job kill"} /\ hold[1] = "OFF" /\ op.acts # <<>> => op.in_operation
  /\ at = "input" /\ cm = 1 /\ op.acts # <<>> => op.in_operation
  /\ op.in_operation => op.acts # <<>>

\* The moves of a hold have their action in front, or nothing.  In the moves of
\* an exit no entry is left.
Pending ==
  cm = 2 /\ hold[1] = "HOLD_ACTIONS_PENDING" =>
    op.acts = <<>> \/ (op.acts[1] = "_feedhold_with_actions" /\ op.run = 1)
NoEnterInExit == hold[1] \in Exiting => ToSet(op.acts) \cap Enters = {}

---------------------------------------------------------------------------
(* The queues *)

\* The end of the moves of a hold is their last block, and is done with in HOLD.
Queues ==
  /\ ToSet(q[1]) \subseteq {"move", "command"}
  /\ cm = 2 /\ hold[1] = "HOLD_ACTIONS_PENDING" =>
       \A i \in DOMAIN q[2] : /\ q[2][i] # "restart done"
                              /\ q[2][i] = "hold done" => i = Len(q[2])
  /\ cm = 2 /\ hold[1] = "HOLD" => ToSet(q[2]) \subseteq {"command"}
  /\ cm = 2 /\ hold[1] \in Exiting => "hold done" \notin ToSet(q[2])

\* While the job has a move left: the machine, the running action, and what a
\* flush (queue_flush_state), a resume and a kill have put behind it
NoMoves == "move" \notin ToSet(q[1])
MachineRuns == hold[1] # "OFF" \/ op.acts # <<>> => machine[1] \in {"CYCLE", "STOP"}
NoStop == op.acts # <<>> => Current # "_run_program_stop"
Flushes == "_run_queue_flush" \in ToRun
\* ... a flush in the list still has its request and its hold,
FlushKeeps == Flushes => /\ queue_flush_state /\ hold[1] = "HOLD"
                         /\ cm = 2 \/ at \in {"cycle start", "operation"}
Restarting == "_run_restart_cycle" \in ToRun \/ "_feedhold_restart_with_actions" \in ToRun
\* ... a restart is in the exit of a hold, behind a flush that was promised,
RestartHolds == Restarting => hold[1] \in Exiting \/ (hold[1] = "HOLD" /\ at = "operation")
RestartFlushes == Restarting /\ promise = "flush" /\ hold[1] # "OFF" => Flushes
\* ... and what is promised is requested until its list is there.
EnterOff ==
  op.acts # <<>> /\ Current \in Enters /\ hold[1] = "OFF" =>
    /\ job_kill_state /\ op.acts = <<"_feedhold_no_actions">>
    /\ at \in {"queue flush", "cycle start", "operation"}
Killing == job_kill_state /\ cm = 1 /\
             (\/ op.acts = <<"_feedhold_no_actions">>
              \/ op.acts = <<>> /\ hold[1] = "HOLD" /\ at \in {"input", "planner", "job kill"})
Promised == promise = "flush" /\ hold[1] \notin {"OFF"} \cup Exiting => queue_flush_state \/ Killing
CycleStartFlushes ==
  at = "cycle start" /\ hold[1] = "HOLD" /\ queue_flush_state /\ ~ op.in_operation => Flushes
\* The first action of a list that was not started is the one to run.
FirstRuns == ~ op.in_operation => op.run = 1
JobKept == /\ MachineRuns /\ NoStop /\ FlushKeeps /\ RestartHolds /\ RestartFlushes
           /\ EnterOff /\ Promised /\ CycleStartFlushes
JobInv == NoMoves \/ JobKept
Parked == hold[1] = "HOLD" /\ cm = 2 => ~ playing /\ prep # "segment"

\* Without kills no list is cut short, an action that is not the last of its
\* chain has the next one behind it, and the hold is in planner 1 only while
\* the operation goes on from it.
Lasts == {"_feedhold_with_actions", "_run_alarm", "_run_restart_cycle", "_run_program_stop"}
Whole == op.acts # <<>> => op.acts[Len(op.acts)] \in Lasts
HoldDoneInP2 == cm = 1 => "hold done" \notin ToSet(q[2])
WithAlone == op.acts # <<>> /\ op.acts[1] = "_feedhold_with_actions" /\ op.run = 1
               /\ (hold[1] # "HOLD" \/ cm = 1) => Len(op.acts) = 1
HeldInP1 == hold[1] = "HOLD" /\ cm = 1 =>
              at = "operation" /\ op.acts # <<>> /\ Current \notin Enters \cup Restarts
ExitsInP2 == hold[1] = "EXIT_ACTIONS_PENDING" =>
               cm = 2 /\ op.acts # <<>> /\ Current = "_feedhold_restart_with_actions"
Room == op.acts # <<>> /\ op.acts[1] \in Restarts /\ ~ op.in_operation =>
          /\ at \in {"input", "planner", "job kill", "queue flush"} => Len(op.acts) = 3
          /\ at = "cycle start" => Len(op.acts) \in {3, 6}
Short == ~ job_kill_state /\ Whole /\ HoldDoneInP2 /\ WithAlone /\ HeldInP1 /\ ExitsInP2 /\ Room

---------------------------------------------------------------------------
(* Lists of actions *)

Ops == [acts : Seq(Actions), run : 1 .. ACTION_MAX, in_operation : BOOLEAN]

LEMMA SeqFacts ==
  ASSUME NEW S, NEW s \in Seq(S)
  PROVE  /\ Len(s) \in Nat /\ DOMAIN s = 1 .. Len(s)
         /\ (s # <<>> <=> Len(s) > 0) /\ (s = <<>> <=> Len(s) = 0)
         /\ \A k \in 1 .. Len(s) : s[k] \in S
BY EmptySeq, LenProperties, ElementOfSeq

LEMMA TailFacts ==
  ASSUME NEW S, NEW s \in Seq(S), s # <<>>
  PROVE  /\ Tail(s) \in Seq(S) /\ Len(Tail(s)) = Len(s) - 1
         /\ \A k \in 1 .. Len(s) - 1 : Tail(s)[k] = s[k + 1]
         /\ Head(s) = s[1] /\ s[1] \in S
BY HeadTailProperties, LenProperties, ElementOfSeq

LEMMA Singles ==
  ASSUME NEW S, NEW a \in S
  PROVE  <<a>> \in Seq(S) /\ Len(<<a>>) = 1 /\ <<a>>[1] = a
OBVIOUS

LEMMA Pairs ==
  ASSUME NEW S, NEW a \in S, NEW b \in S
  PROVE  <<a, b>> \in Seq(S) /\ Len(<<a, b>>) = 2 /\ <<a, b>>[1] = a /\ <<a, b>>[2] = b
OBVIOUS

LEMMA Triples ==
  ASSUME NEW S, NEW a \in S, NEW b \in S, NEW c \in S
  PROVE  /\ <<a, b, c>> \in Seq(S) /\ Len(<<a, b, c>>) = 3
         /\ <<a, b, c>>[1] = a /\ <<a, b, c>>[2] = b /\ <<a, b, c>>[3] = c
OBVIOUS

LEMMA ChainFacts ==
  /\ FlushChain \in Seq(Actions) /\ Len(FlushChain) = 3
  /\ FlushChain[1] = "_feedhold_restart_no_actions"
  /\ FlushChain[2] = "_run_queue_flush" /\ FlushChain[3] = "_run_program_stop"
BY Triples DEF FlushChain, Actions

\* What add_action() makes of a list: the list, and as much of the new actions
\* as there is room for.
Fit(o, l) == [o EXCEPT !.acts = LET all == o.acts \o l
                                IN SubSeq(all, 1, IF Len(all) > ACTION_MAX
                                                  THEN ACTION_MAX ELSE Len(all))]
Behind(acts, l, list) ==
  /\ Len(list) <= ACTION_MAX /\ Len(list) >= Len(acts)
  /\ \A i \in 1 .. Len(acts) : list[i] = acts[i]
  /\ \A i \in Len(acts) + 1 .. Len(list) :
       i - Len(acts) \in 1 .. Len(l) /\ list[i] = l[i - Len(acts)]
  /\ Len(list) = IF Len(acts) + Len(l) > ACTION_MAX THEN ACTION_MAX ELSE Len(acts) + Len(l)

LEMMA FitFacts ==
  ASSUME NEW o \in Ops, Len(o.acts) <= ACTION_MAX, NEW l \in Seq(Actions)
  PROVE  /\ Fit(o, l) \in Ops /\ Fit(o, l).run = o.run
         /\ Fit(o, l).in_operation = o.in_operation
         /\ Behind(o.acts, l, Fit(o, l).acts)
<1> DEFINE all == o.acts \o l
           size == IF Len(all) > ACTION_MAX THEN ACTION_MAX ELSE Len(all)
           n == Fit(o, l)
<1>1. o.acts \in Seq(Actions) /\ Len(o.acts) \in Nat /\ Len(l) \in Nat
  BY SeqFacts DEF Ops
<1>2. /\ all \in Seq(Actions) /\ Len(all) = Len(o.acts) + Len(l)
      /\ \A i \in 1 .. Len(o.acts) : all[i] = o.acts[i]
      /\ \A i \in Len(o.acts) + 1 .. Len(o.acts) + Len(l) : all[i] = l[i - Len(o.acts)]
  BY <1>1, ConcatProperties
<1>3. n = [o EXCEPT !.acts = SubSeq(all, 1, size)]
  BY DEF Fit
<1> HIDE DEF all, n
<1>4. size \in 0 .. Len(all) /\ size <= ACTION_MAX /\ size >= Len(o.acts)
  BY <1>1, <1>2 DEF ACTION_MAX
<1>5. /\ SubSeq(all, 1, size) \in Seq(Actions) /\ Len(SubSeq(all, 1, size)) = size
      /\ \A i \in 1 .. size : SubSeq(all, 1, size)[i] = all[i]
  <2>1. \A i \in 1 .. size : all[i] \in Actions
    BY <1>2, <1>4, SeqFacts
  <2>2. QED BY <1>2, <1>4, <2>1, SubSeqProperties
<1>6. size = IF Len(o.acts) + Len(l) > ACTION_MAX THEN ACTION_MAX ELSE Len(o.acts) + Len(l)
  BY <1>2
<1> HIDE DEF size
<1>7. n \in Ops /\ n.acts = SubSeq(all, 1, size) /\ n.run = o.run /\ n.in_operation = o.in_operation
  BY <1>3, <1>5 DEF Ops
<1>8. Len(n.acts) = size /\ \A i \in 1 .. size : n.acts[i] = all[i]
  BY <1>5, <1>7
<1>9. \A i \in 1 .. Len(o.acts) : n.acts[i] = o.acts[i]
  BY <1>1, <1>2, <1>4, <1>8
<1>10. \A i \in Len(o.acts) + 1 .. Len(n.acts) :
         i - Len(o.acts) \in 1 .. Len(l) /\ n.acts[i] = l[i - Len(o.acts)]
  BY <1>1, <1>2, <1>4, <1>8
<1>11. Behind(o.acts, l, n.acts)
  BY <1>4, <1>6, <1>8, <1>9, <1>10 DEF Behind
<1>12. QED BY <1>7, <1>11 DEF n

LEMMA AddToIsFit ==
  ASSUME NEW o, NEW l
  PROVE  /\ AddTo(o, l, TRUE) = Fit(o, l)
         /\ AddTo(o, l, FALSE) = IF o.in_operation THEN o ELSE Fit(o, l)
BY DEF AddTo, Fit

---------------------------------------------------------------------------
(* Types *)

OpTypes == op \in Ops /\ Index
QueueTypes == cm \in {1, 2} /\ q \in [1 .. 2 -> Seq(Blocks)]
HoldTypes == hold \in [1 .. 2 -> HoldStates] /\ hold_type \in {"HOLD", "ACTIONS"}
MachineTypes ==
  /\ machine \in [1 .. 2 -> {"READY", "CYCLE", "STOP", "END", "ALARM"}]
  /\ cycling \in [1 .. 2 -> BOOLEAN] /\ motion \in BOOLEAN
FlagTypes ==
  /\ cycle_start_state \in BOOLEAN /\ queue_flush_state \in BOOLEAN
  /\ job_kill_state \in BOOLEAN /\ playing \in BOOLEAN /\ asked \in BOOLEAN
PlaceTypes ==
  /\ prep \in {"none", "segment", "command", "null"}
  /\ at \in {"input", "planner", "job kill", "queue flush", "cycle start", "operation"}
  /\ promise \in {"none", "hold", "resume", "flush", "kill", "alarm"}
StepTypes == toPlan \in [1 .. 2 -> BOOLEAN] /\ left \in 0 .. MaxSegments
OtherTypes == FlagTypes /\ PlaceTypes /\ StepTypes
Types == OpTypes /\ QueueTypes /\ HoldTypes /\ MachineTypes /\ OtherTypes

LEMMA TypesAreTypeOK == Types => TypeOK
BY DEF Types, TypeOK, OpTypes, QueueTypes, HoldTypes, MachineTypes, OtherTypes,
   FlagTypes, PlaceTypes, StepTypes, Ops

\* What the running action leaves of the operation
Advances == /\ op.run < Len(op.acts) /\ op'.acts = op.acts /\ op'.run = op.run + 1
            /\ op'.in_operation = TRUE /\ at' = at
Ends == op' = NoOperation /\ at' = "input"
Waits == /\ op'.acts = op.acts /\ op'.run = op.run /\ op'.in_operation = TRUE
         /\ at' = "input"

LEMMA NoOperationTypes == NoOperation \in Ops /\ NoOperation.acts = <<>> /\ NoOperation.run = 1
                          /\ NoOperation.in_operation = FALSE
BY EmptySeq DEF NoOperation, Ops, ACTION_MAX

LEMMA BehindTypes ==
  ASSUME OpTypes, NEW l \in Seq(Actions), op' \in Ops, op'.run = op.run,
         Behind(op.acts, l, op'.acts)
  PROVE  Index'
<1>1. op.acts \in Seq(Actions) /\ op'.acts \in Seq(Actions)
  BY DEF OpTypes, Ops
<1>2. /\ Len(op.acts) \in Nat /\ Len(op'.acts) \in Nat
      /\ (op.acts = <<>> <=> Len(op.acts) = 0) /\ (op'.acts = <<>> <=> Len(op'.acts) = 0)
  BY <1>1, SeqFacts
<1>3. Len(op'.acts) >= Len(op.acts) /\ Len(op'.acts) <= ACTION_MAX
  BY DEF Behind
<1>4. CASE op.acts = <<>>
  BY <1>2, <1>3, <1>4 DEF OpTypes, Index
<1>5. CASE op.acts # <<>>
  <2>1. op.run \in 1 .. Len(op.acts)
    BY <1>5 DEF OpTypes, Index
  <2>2. op.run \in 1 .. Len(op'.acts) /\ op'.acts # <<>>
    BY <1>2, <1>3, <2>1
  <2>3. QED BY <1>3, <2>2 DEF Index
<1>6. QED BY <1>4, <1>5

LEMMA CompletedShape ==
  ASSUME OpTypes, op.acts # <<>>, Completed(op)
  PROVE  OpTypes' /\ (Ends \/ Advances)
<1>1. op.acts \in Seq(Actions) /\ Len(op.acts) \in Nat /\ op.run \in 1 .. Len(op.acts)
      /\ Len(op.acts) <= ACTION_MAX
  BY SeqFacts DEF OpTypes, Ops, Index
<1>2. CASE op.run = Len(op.acts)
  <2>1. Ends
    BY <1>2 DEF Completed, Ends
  <2>2. QED BY <2>1, NoOperationTypes DEF Ends, OpTypes, Index, ACTION_MAX
<1>3. CASE op.run # Len(op.acts)
  <2>1. op' = [op EXCEPT !.run = op.run + 1, !.in_operation = TRUE] /\ at' = at
    BY <1>3 DEF Completed
  <2>2. op.run < Len(op.acts) /\ op.run + 1 \in 1 .. Len(op.acts)
        /\ op.run + 1 \in 1 .. ACTION_MAX
    BY <1>1, <1>3 DEF ACTION_MAX
  <2>3. /\ op'.acts = op.acts /\ op'.run = op.run + 1 /\ op'.in_operation = TRUE
        /\ op' \in Ops
    BY <2>1, <2>2 DEF OpTypes, Ops
  <2>4. Index'
    BY <1>1, <2>2, <2>3 DEF OpTypes, Index
  <2>5. QED BY <2>1, <2>2, <2>3, <2>4 DEF OpTypes, Advances
<1>4. QED BY <1>2, <1>3

LEMMA AgainShape ==
  ASSUME OpTypes, Again(op) PROVE OpTypes' /\ Waits
<1>1. /\ op'.acts = op.acts /\ op'.run = op.run /\ op'.in_operation = TRUE
      /\ op' \in Ops /\ at' = "input"
  BY DEF Again, OpTypes, Ops
<1>2. QED BY <1>1 DEF OpTypes, Index, Waits

LEMMA FailedShape ==
  ASSUME Failed PROVE OpTypes' /\ Ends
BY NoOperationTypes DEF Failed, OpTypes, Index, Ends, ACTION_MAX

\* The end of a hold may add the exit chain and go on with it.
GoesOn ==
  /\ op.run = Len(op.acts) /\ Len(op'.acts) > Len(op.acts) /\ op'.run = op.run + 1
  /\ op'.in_operation = TRUE /\ at' = at /\ Behind(op.acts, FlushChain, op'.acts)

LEMMA FinishShape ==
  ASSUME OpTypes, op.acts # <<>>, FinishHold
  PROVE  OpTypes' /\ (Ends \/ Advances \/ (queue_flush_state /\ GoesOn))
<1>1. op.acts \in Seq(Actions) /\ Len(op.acts) \in Nat /\ op.run \in 1 .. Len(op.acts)
      /\ Len(op.acts) <= ACTION_MAX /\ op \in Ops
  BY SeqFacts DEF OpTypes, Ops, Index
<1>2. CASE ~ (queue_flush_state /\ op.run = Len(op.acts))
  BY <1>2, CompletedShape DEF FinishHold
<1>3. CASE queue_flush_state /\ op.run = Len(op.acts)
  <2> DEFINE n == Fit(op, FlushChain)
  <2>1. n \in Ops /\ n.run = op.run /\ Behind(op.acts, FlushChain, n.acts)
    BY <1>1, ChainFacts, FitFacts
  <2>2. Completed(n)
    BY <1>3, AddToIsFit DEF FinishHold
  <2> HIDE DEF n
  <2>3. n.acts \in Seq(Actions) /\ Len(n.acts) \in Nat
    BY <2>1, SeqFacts DEF Ops
  <2>4. CASE n.run = Len(n.acts)
    <3>1. Ends
      BY <2>2, <2>4 DEF Completed, Ends
    <3>2. QED BY <3>1, NoOperationTypes DEF Ends, OpTypes, Index, ACTION_MAX
  <2>5. CASE n.run # Len(n.acts)
    <3>1. op' = [n EXCEPT !.run = n.run + 1, !.in_operation = TRUE] /\ at' = at
      BY <2>2, <2>5 DEF Completed
    <3> DEFINE size == Len(n.acts)
    <3>0. size >= Len(op.acts) /\ size <= ACTION_MAX /\ size \in Nat /\ n.run # size
      BY <2>1, <2>3, <2>5 DEF Behind
    <3>2. n.run + 1 \in 1 .. Len(n.acts) /\ n.run + 1 \in 1 .. ACTION_MAX
          /\ Len(n.acts) > Len(op.acts)
      <4>1. n.run = Len(op.acts)
        BY <1>3, <2>1
      <4> HIDE DEF size
      <4>2. n.run + 1 \in 1 .. size /\ n.run + 1 \in 1 .. ACTION_MAX /\ size > Len(op.acts)
        BY <1>1, <3>0, <4>1 DEF ACTION_MAX
      <4>3. QED BY <4>2 DEF size
    <3>3. /\ op'.acts = n.acts /\ op'.run = n.run + 1 /\ op'.in_operation = TRUE
          /\ op' \in Ops
      BY <2>1, <3>1, <3>2 DEF Ops
    <3>4. n.acts # <<>>
      BY <2>3, <3>2, SeqFacts
    <3>5. Index'
      BY <3>0, <3>2, <3>3, <3>4 DEF Index
    <3>6. GoesOn
      BY <1>3, <2>1, <3>1, <3>2, <3>3 DEF GoesOn
    <3>7. QED BY <1>3, <3>3, <3>5, <3>6 DEF OpTypes
  <2>6. QED BY <2>4, <2>5
<1>4. QED BY <1>2, <1>3


LEMMA AddShape ==
  ASSUME OpTypes, NEW l \in Seq(Actions), add_action(l)
  PROVE  /\ OpTypes'
         /\ op.in_operation => op' = op
         /\ ~ op.in_operation =>
              op'.run = op.run /\ ~ op'.in_operation /\ Behind(op.acts, l, op'.acts)
<1>1. op \in Ops /\ Len(op.acts) <= ACTION_MAX /\ op.acts \in Seq(Actions)
      /\ Len(op.acts) \in Nat
  BY SeqFacts DEF OpTypes, Index, Ops
<1>2. CASE op.in_operation
  <2>1. op' = op
    BY <1>2, AddToIsFit DEF add_action
  <2>2. QED BY <1>2, <2>1 DEF OpTypes, Index
<1>3. CASE ~ op.in_operation
  <2>1. op' = Fit(op, l)
    BY <1>3, AddToIsFit DEF add_action
  <2>2. op' \in Ops /\ op'.run = op.run /\ op'.in_operation = op.in_operation
        /\ Behind(op.acts, l, op'.acts)
    BY <1>1, <2>1, FitFacts
  <2>3. OpTypes'
    BY <1>1, <2>2, BehindTypes DEF OpTypes
  <2>4. QED BY <1>3, <2>2, <2>3
<1>4. QED BY <1>2, <1>3

\* run_operation(), action by action
Does(action, step) ==
  /\ at = "operation" /\ op.acts # <<>> /\ Current = action
  /\ step /\ UNCHANGED promise

LEMMA RunCases ==
  ASSUME run_operation
  PROVE  \/ at = "operation" /\ op.acts = <<>> /\ at' = "input" /\ UNCHANGED op /\ Nothing
         \/ Does("_feedhold_no_actions", _feedhold_no_actions)
         \/ Does("_feedhold_with_actions", _feedhold_with_actions)
         \/ Does("_feedhold_restart_no_actions", _feedhold_restart_no_actions)
         \/ Does("_feedhold_restart_with_actions", _feedhold_restart_with_actions)
         \/ Does("_run_restart_cycle", _run_restart_cycle)
         \/ Does("_run_queue_flush", _run_queue_flush)
         \/ Does("_run_program_stop", _run_program_stop)
         \/ Does("_run_alarm", _run_alarm)
BY DEF run_operation, Does, Current

LEMMA ListsAreActions ==
  /\ <<"_feedhold_with_actions">> \in Seq(Actions) /\ <<"_feedhold_no_actions">> \in Seq(Actions)
  /\ <<"_feedhold_no_actions", "_run_alarm">> \in Seq(Actions)
  /\ <<"_feedhold_restart_with_actions", "_run_restart_cycle">> \in Seq(Actions)
  /\ <<"_feedhold_restart_no_actions", "_run_restart_cycle">> \in Seq(Actions)
  /\ FlushChain \in Seq(Actions)
BY Singles, Pairs, ChainFacts DEF Actions

LEMMA DoesShape ==
  ASSUME OpTypes, run_operation
  PROVE  /\ OpTypes'
         /\ op.acts = <<>> => op' = op /\ at' = "input"
         /\ op.acts # <<>> => Ends \/ Advances \/ Waits
                              \/ (Current = "_feedhold_with_actions" /\ FinishHold /\ GoesOn)
<1>1. CASE op.acts = <<>>
  BY <1>1 DEF run_operation, OpTypes, Index
<1>2. CASE op.acts # <<>>
  <2>1. \/ Completed(op) \/ Again(op) \/ Failed
        \/ Current = "_feedhold_with_actions" /\ FinishHold
    BY <1>2, RunCases DEF Does, _feedhold_no_actions, _feedhold_with_actions,
       _feedhold_restart_no_actions, _feedhold_restart_with_actions, NestedHold,
       _run_restart_cycle, _run_queue_flush, _run_program_stop, _run_alarm
  <2>2. QED BY <1>2, <2>1, CompletedShape, AgainShape, FailedShape, FinishShape
<1>3. QED BY <1>1, <1>2

\* A request from outside, out of a hold, and what it adds
Requests(l) ==
  /\ at = "input" /\ hold[1] = "OFF" /\ machine[1] \in {"CYCLE", "STOP"}
  /\ hold' = [hold EXCEPT ![1] = "SYNC"]
  /\ add_action(l)
  /\ UNCHANGED <<machines, requests, planners, stepping>>
  /\ promise' # "flush"

LEMMA InputShape ==
  ASSUME Input
  PROVE  \/ op' = op
         \/ Requests(<<"_feedhold_with_actions">>)
         \/ Requests(<<"_feedhold_no_actions", "_run_alarm">>)
BY DEF Input, Key, Bang, cm_alarm, cm_request_feedhold, cm_request_cycle_start,
   cm_request_queue_flush, cm_request_job_kill, Line, Nothing, Requests

LEMMA OpTypesStay ==
  ASSUME OpTypes, [Next]_vars PROVE OpTypes'
<1>1. CASE op' = op
  BY <1>1 DEF OpTypes, Index
<1>2. CASE Input
  BY <1>1, <1>2, InputShape, AddShape, ListsAreActions DEF Requests
<1>3. CASE _start_job_kill
  BY <1>1, <1>3, AddShape, ListsAreActions DEF _start_job_kill
<1>4. CASE _start_queue_flush
  BY <1>1, <1>4, AddShape, ListsAreActions DEF _start_queue_flush
<1>5. CASE _start_cycle_restart
  <2>1. \/ op' = op
        \/ add_action(<<"_feedhold_restart_with_actions", "_run_restart_cycle">>)
        \/ add_action(<<"_feedhold_restart_no_actions", "_run_restart_cycle">>)
    BY <1>5 DEF _start_cycle_restart
  <2>2. QED BY <1>1, <2>1, AddShape, ListsAreActions
<1>6. CASE run_operation
  BY <1>6, DoesShape
<1>7. CASE Load
  <2>1. op' = op \/ op' = Fit(op, FlushChain)
    BY <1>7, AddToIsFit DEF Load, _feedhold_actions_done_callback, OtherCommand,
       _feedhold_restart_actions_done_callback
  <2>2. CASE op' = Fit(op, FlushChain)
    BY <2>2, ChainFacts, FitFacts, BehindTypes DEF OpTypes, Index
  <2>3. QED BY <1>1, <2>1, <2>2
<1>8. CASE Exec \/ SegmentEnds \/ mp_planner_callback \/ UNCHANGED vars
  BY <1>1, <1>8 DEF Exec, SegmentEnds, mp_planner_callback, vars
<1>9. QED
  BY <1>2, <1>3, <1>4, <1>5, <1>6, <1>7, <1>8 DEF Next, Main

LEMMA HoldTypesStay ==
  ASSUME HoldTypes, QueueTypes, [Next]_vars PROVE HoldTypes'
<1>1. CASE Input
  BY <1>1 DEF Input, Key, Bang, cm_alarm, cm_request_feedhold, cm_request_cycle_start,
     cm_request_queue_flush, cm_request_job_kill, Line, Nothing, HoldTypes, QueueTypes,
     HoldStates, Stopping, Stopped, Decelerating, holds
<1>2. CASE mp_planner_callback \/ _start_job_kill \/ _start_queue_flush \/ _start_cycle_restart
  <2>1. CASE mp_planner_callback
    BY <2>1 DEF mp_planner_callback, _start_job_kill, _start_queue_flush, _start_cycle_restart, JobKill, HoldTypes, HoldStates, Stopping, Stopped, Decelerating, holds
  <2>2. CASE _start_job_kill
    BY <2>2 DEF mp_planner_callback, _start_job_kill, _start_queue_flush, _start_cycle_restart, JobKill, HoldTypes, HoldStates, Stopping, Stopped, Decelerating, holds
  <2>3. CASE _start_queue_flush
    BY <2>3 DEF mp_planner_callback, _start_job_kill, _start_queue_flush, _start_cycle_restart, JobKill, HoldTypes, HoldStates, Stopping, Stopped, Decelerating, holds
  <2>4. CASE _start_cycle_restart
    BY <2>4 DEF mp_planner_callback, _start_job_kill, _start_queue_flush, _start_cycle_restart, JobKill, HoldTypes, HoldStates, Stopping, Stopped, Decelerating, holds
  <2>5. QED BY <1>2, <2>1, <2>2, <2>3, <2>4
<1>3. CASE run_operation
  <2>1. CASE at = "operation" /\ op.acts = <<>> /\ Nothing
    BY <2>1 DEF Nothing, holds, HoldTypes
  <2>2. CASE _feedhold_no_actions
    BY <2>2 DEF _feedhold_no_actions, HoldTypes, HoldStates, Stopped, Stopping, Decelerating, holds
  <2>3. CASE _feedhold_with_actions
    BY <2>3 DEF _feedhold_with_actions, FinishHold, HoldTypes, QueueTypes, HoldStates, Stopped,
       Stopping, Decelerating
  <2>4. CASE _feedhold_restart_no_actions
    BY <2>4 DEF _feedhold_restart_no_actions, HoldTypes, holds
  <2>5. CASE _feedhold_restart_with_actions
    BY <2>5 DEF _feedhold_restart_with_actions, NestedHold, HoldTypes, HoldStates, Stopped
  <2>6. CASE _run_restart_cycle
    BY <2>6 DEF _run_restart_cycle, HoldTypes, HoldStates
  <2>7. CASE _run_queue_flush \/ _run_program_stop
    BY <2>7 DEF _run_queue_flush, _run_program_stop, HoldTypes, HoldStates, holds
  <2>8. CASE _run_alarm
    BY <2>8 DEF _run_alarm, JobKill, HoldTypes, HoldStates
  <2>9. QED
    BY <1>3, <2>1, <2>2, <2>3, <2>4, <2>5, <2>6, <2>7, <2>8, RunCases DEF Does
<1>4. CASE Exec
  BY <1>4 DEF Exec, mp_exec_aline, ExecMotionStopped, ExecDecelComplete, ExecSegment, Slowing,
     ExecCommand, ExecNothing, HoldTypes, QueueTypes, HoldStates, Stopping, Stopped,
     Decelerating, holds
<1>5. CASE Load \/ SegmentEnds \/ UNCHANGED vars
  BY <1>5 DEF Load, _feedhold_actions_done_callback, OtherCommand,
     _feedhold_restart_actions_done_callback, SegmentEnds, vars, HoldTypes, HoldStates,
     Stopping, Stopped, Decelerating, holds
<1>6. QED BY <1>1, <1>2, <1>3, <1>4, <1>5 DEF Next, Main

LEMMA CycleStartTypes ==
  ASSUME MachineTypes, NEW p \in {1, 2}, CycleStart(p) PROVE MachineTypes'
BY DEF CycleStart, MachineTypes

LEMMA CycleEndTypes ==
  ASSUME MachineTypes, NEW p \in {1, 2}, NEW end \in {"STOP", "END"}, CycleEnd(p, end)
  PROVE  MachineTypes'
<1>1. machine' \in [1 .. 2 -> {"READY", "CYCLE", "STOP", "END", "ALARM"}]
  BY DEF CycleEnd, MachineTypes
<1>2. cycling' \in [1 .. 2 -> BOOLEAN] /\ motion' \in BOOLEAN
  BY DEF CycleEnd, MachineTypes
<1>3. QED BY <1>1, <1>2 DEF MachineTypes

LEMMA QueueInP2Types ==
  ASSUME MachineTypes, UNCHANGED motion, NEW before, NEW moves, NEW p \in {1, 2},
         QueueInP2(before, moves, machine[p], cycling[p])
  PROVE  MachineTypes'
<1>1. machine' \in [1 .. 2 -> {"READY", "CYCLE", "STOP", "END", "ALARM"}]
  BY DEF QueueInP2, MachineTypes
<1>2. cycling' \in [1 .. 2 -> BOOLEAN]
  BY DEF QueueInP2, MachineTypes
<1>3. QED BY <1>1, <1>2 DEF MachineTypes

LEMMA MachineTypesStay ==
  ASSUME MachineTypes, QueueTypes, [Next]_vars PROVE MachineTypes'
<1>1. CASE Input
  <2>1. CASE UNCHANGED machines
    BY <2>1 DEF machines, MachineTypes
  <2>2. CASE CycleStart(cm)
    BY <2>2, CycleStartTypes DEF QueueTypes
  <2>3. QED
    BY <1>1, <2>1, <2>2 DEF Input, Key, Bang, cm_alarm, cm_request_cycle_start,
       cm_request_queue_flush, cm_request_job_kill, Line, Nothing
<1>2. CASE mp_planner_callback \/ _start_job_kill \/ _start_queue_flush \/ _start_cycle_restart
  <2>1. CASE mp_planner_callback
    BY <2>1 DEF mp_planner_callback, _start_job_kill, _start_queue_flush, _start_cycle_restart, JobKill, MachineTypes, machines
  <2>2. CASE _start_job_kill
    BY <2>2 DEF mp_planner_callback, _start_job_kill, _start_queue_flush, _start_cycle_restart, JobKill, MachineTypes, machines
  <2>3. CASE _start_queue_flush
    BY <2>3 DEF mp_planner_callback, _start_job_kill, _start_queue_flush, _start_cycle_restart, JobKill, MachineTypes, machines
  <2>4. CASE _start_cycle_restart
    BY <2>4 DEF mp_planner_callback, _start_job_kill, _start_queue_flush, _start_cycle_restart, JobKill, MachineTypes, machines
  <2>5. QED BY <1>2, <2>1, <2>2, <2>3, <2>4
<1>3. CASE run_operation
  <2>1. CASE UNCHANGED machines
    BY <2>1 DEF machines, MachineTypes
  <2>2. ASSUME NEW before, NEW moves, NEW p \in {1, 2}, UNCHANGED motion,
               QueueInP2(before, moves, machine[p], cycling[p])
        PROVE  MachineTypes'
    BY <2>2, QueueInP2Types
  <2>3. CASE CycleStart(cm)
    BY <2>3, CycleStartTypes DEF QueueTypes
  <2>4. CASE CycleEnd(cm, "STOP")
    BY <2>4, CycleEndTypes DEF QueueTypes
  <2>5. CASE JobKill("ALARM")
    BY <2>5 DEF JobKill, MachineTypes
  <2>6. QED
    BY <1>3, <2>1, <2>2, <2>3, <2>4, <2>5, RunCases DEF Does, Nothing, _feedhold_no_actions,
       _feedhold_with_actions, _feedhold_restart_no_actions, _feedhold_restart_with_actions,
       NestedHold, _run_restart_cycle, _run_queue_flush, _run_program_stop, _run_alarm, machines
<1>4. CASE Exec
  <2>1. CASE UNCHANGED machines
    BY <2>1 DEF machines, MachineTypes
  <2>2. ASSUME NEW running \in BOOLEAN, SetMotion(running), UNCHANGED <<machine, cycling>>
        PROVE  MachineTypes'
    BY <2>2 DEF SetMotion, MachineTypes
  <2>3. CASE CycleEnd(cm, "STOP")
    BY <2>3, CycleEndTypes DEF QueueTypes
  <2>4. QED
    BY <1>4, <2>1, <2>2, <2>3 DEF Exec, mp_exec_aline, ExecMotionStopped, ExecDecelComplete,
       ExecSegment, ExecCommand, ExecNothing
<1>5. CASE Load \/ SegmentEnds \/ UNCHANGED vars
  <2>1. CASE UNCHANGED machines
    BY <2>1 DEF machines, MachineTypes
  <2>2. ASSUME NEW end \in {"STOP", "END"}, CycleEnd(cm, end)
        PROVE  MachineTypes'
    BY <2>2, CycleEndTypes DEF QueueTypes
  <2>3. QED
    BY <1>5, <2>1, <2>2 DEF Load, _feedhold_actions_done_callback, OtherCommand, FreeCommand,
       _feedhold_restart_actions_done_callback, SegmentEnds, vars
<1>6. QED BY <1>1, <1>2, <1>3, <1>4, <1>5 DEF Next, Main

LEMMA FlagTypesStay ==
  ASSUME FlagTypes, QueueTypes, StepTypes, [Next]_vars PROVE FlagTypes'
<1>1. CASE Input
  BY <1>1 DEF Input, Key, Bang, cm_alarm, cm_request_cycle_start, cm_request_queue_flush,
     cm_request_job_kill, Line, Nothing, FlagTypes, requests, stepping
<1>2. CASE mp_planner_callback
  BY <1>2 DEF mp_planner_callback, FlagTypes, QueueTypes, StepTypes, requests
<1>3. CASE _start_job_kill
  BY <1>3 DEF _start_job_kill, JobKill, FlushPlanner, FlagTypes, requests
<1>4. CASE _start_queue_flush \/ _start_cycle_restart
  BY <1>4 DEF _start_queue_flush, _start_cycle_restart, FlagTypes, requests, stepping
<1>5. CASE run_operation
  <2>1. \/ UNCHANGED <<requests, playing>> /\ (asked' = asked \/ asked' = TRUE)
        \/ NestedHold /\ UNCHANGED <<job_kill_state, playing, asked>>
        \/ _run_queue_flush \/ _run_alarm
        \/ UNCHANGED <<requests, playing, asked>>
    BY <1>5, RunCases DEF Does, Nothing, _feedhold_no_actions, Replan, _feedhold_with_actions,
       _feedhold_restart_no_actions, _feedhold_restart_with_actions, _run_restart_cycle,
       _run_program_stop, stepping, requests
  <2>2. QED
    BY <2>1 DEF NestedHold, _run_queue_flush, FlushPlanner, _run_alarm, JobKill, FlagTypes,
       requests
<1>6. CASE Exec \/ Load \/ SegmentEnds \/ UNCHANGED vars
  BY <1>6 DEF Exec, Load, SegmentEnds, vars, FlagTypes, requests, stepping
<1>7. QED BY <1>1, <1>2, <1>3, <1>4, <1>5, <1>6 DEF Next, Main

LEMMA PlaceTypesStay ==
  ASSUME PlaceTypes, OpTypes, [Next]_vars PROVE PlaceTypes'
<1>1. CASE Input
  BY <1>1 DEF Input, Key, Bang, cm_alarm, cm_request_cycle_start, cm_request_queue_flush,
     cm_request_job_kill, Line, Nothing, PlaceTypes, stepping
<1>2. CASE mp_planner_callback \/ _start_queue_flush \/ _start_cycle_restart
  BY <1>2 DEF mp_planner_callback, _start_queue_flush, _start_cycle_restart, PlaceTypes, stepping
<1>3. CASE _start_job_kill
  BY <1>3 DEF _start_job_kill, JobKill, FlushPlanner, PlaceTypes
<1>4. CASE run_operation
  <2>1. promise' = promise
    BY <1>4, RunCases DEF Does, Nothing
  <2>2. at = "operation" /\ (at' = at \/ at' = "input")
    BY <1>4, DoesShape DEF run_operation, Ends, Advances, Waits, GoesOn
  <2>3. prep' = prep \/ prep' = "null"
    BY <1>4, RunCases DEF Does, Nothing, _feedhold_no_actions, _feedhold_with_actions,
       _feedhold_restart_no_actions, _feedhold_restart_with_actions, NestedHold,
       _run_restart_cycle, _run_queue_flush, FlushPlanner, _run_program_stop, _run_alarm,
       JobKill, stepping
  <2>4. QED BY <2>1, <2>2, <2>3 DEF PlaceTypes
<1>5. CASE Exec
  BY <1>5 DEF Exec, mp_exec_aline, ExecMotionStopped, ExecDecelComplete, ExecSegment,
     ExecCommand, ExecNothing, PlaceTypes
<1>6. CASE Load \/ SegmentEnds \/ UNCHANGED vars
  BY <1>6 DEF Load, SegmentEnds, vars, PlaceTypes, stepping
<1>7. QED BY <1>1, <1>2, <1>3, <1>4, <1>5, <1>6 DEF Next, Main

LEMMA ToPlanStays ==
  ASSUME toPlan \in [1 .. 2 -> BOOLEAN], [Next]_vars
  PROVE  toPlan' \in [1 .. 2 -> BOOLEAN]
<1> DEFINE Sets(p, value) == toPlan' = [toPlan EXCEPT ![p] = value]
<1>1. \/ toPlan' = toPlan
      \/ \E p \in {1, 2, cm} : \E value \in BOOLEAN : Sets(p, value)
  <2>1. \A p, blocks : toPlan' = [toPlan EXCEPT ![p] = blocks # <<>>] =>
          \E value \in BOOLEAN : Sets(p, value)
    OBVIOUS
  <2>2. CASE Input
    BY <2>2 DEF Input, Key, Bang, cm_alarm, cm_request_cycle_start, cm_request_queue_flush,
       cm_request_job_kill, Line, Nothing, planners
  <2>3. CASE mp_planner_callback \/ _start_queue_flush \/ _start_cycle_restart
    BY <2>3 DEF mp_planner_callback, _start_queue_flush, _start_cycle_restart, planners
  <2>4. CASE _start_job_kill
    BY <2>1, <2>4 DEF _start_job_kill, JobKill, FlushPlanner, planners
  <2>5. CASE run_operation
    <3>1. CASE JobKill("ALARM") \/ _run_queue_flush
      BY <2>1, <3>1 DEF JobKill, _run_queue_flush, FlushPlanner
    <3>2. CASE \E before, moves, m, isCycling : QueueInP2(before, moves, m, isCycling)
      BY <3>2 DEF QueueInP2
    <3>3. QED
      BY <2>5, <3>1, <3>2, RunCases DEF Does, Nothing, _feedhold_no_actions, Replan,
         _feedhold_with_actions, _feedhold_restart_no_actions, _feedhold_restart_with_actions,
         NestedHold, _run_restart_cycle, _run_program_stop, _run_alarm, planners
  <2>6. CASE Exec \/ SegmentEnds \/ UNCHANGED vars
    BY <2>6 DEF Exec, SegmentEnds, vars, planners
  <2>7. CASE Load
    BY <2>7 DEF Load
  <2>8. QED BY <2>2, <2>3, <2>4, <2>5, <2>6, <2>7 DEF Next, Main
<1>2. QED BY <1>1

LEMMA LeftStays ==
  ASSUME left \in 0 .. MaxSegments, [Next]_vars PROVE left' \in 0 .. MaxSegments
<1>1. left' \in {left, 0} \/ \E slow : \E n \in LengthsOf(slow) : left' = n - 1
  <2>1. CASE Input
    BY <2>1 DEF Input, Key, Bang, cm_alarm, cm_request_cycle_start, cm_request_queue_flush,
       cm_request_job_kill, Line, Nothing, stepping
  <2>2. CASE mp_planner_callback \/ _start_queue_flush \/ _start_cycle_restart
    BY <2>2 DEF mp_planner_callback, _start_queue_flush, _start_cycle_restart, stepping
  <2>3. CASE _start_job_kill
    BY <2>3 DEF _start_job_kill, JobKill, FlushPlanner
  <2>4. CASE run_operation
    BY <2>4, RunCases DEF Does, Nothing, _feedhold_no_actions, _feedhold_with_actions,
       _feedhold_restart_no_actions, _feedhold_restart_with_actions, NestedHold,
       _run_restart_cycle, _run_queue_flush, FlushPlanner, _run_program_stop, _run_alarm,
       JobKill, stepping
  <2>5. CASE Exec
    BY <2>5 DEF Exec, mp_exec_aline, ExecMotionStopped, ExecDecelComplete, ExecSegment,
       ExecCommand, ExecNothing
  <2>6. CASE Load \/ SegmentEnds \/ UNCHANGED vars
    BY <2>6 DEF Load, SegmentEnds, vars, stepping
  <2>7. QED BY <2>1, <2>2, <2>3, <2>4, <2>5, <2>6 DEF Next, Main
<1>2. ASSUME NEW slow, NEW n \in LengthsOf(slow) PROVE n - 1 \in 0 .. MaxSegments
  BY <1>2, SizeAssumption DEF LengthsOf
<1>3. QED BY <1>1, <1>2, SizeAssumption

\* What a step makes of the queues
Appends(block) == q' = [q EXCEPT ![cm] = Append(q[cm], block)]
Refills(blocks) == q' = [q EXCEPT ![2] = blocks]
Frees == q[cm] # <<>> /\ q' = [q EXCEPT ![cm] = Tail(q[cm])]
HoldDone == /\ q[cm] # <<>> /\ Head(q[cm]) = "hold done"
            /\ q' = [q EXCEPT ![cm] = Tail(q[cm]) \o (IF CoolantPauses THEN <<"command">> ELSE <<>>)]

LEMMA ConcatTypes ==
  ASSUME NEW S, NEW s \in Seq(S), NEW r \in Seq(S) PROVE s \o r \in Seq(S)
BY ConcatProperties

LEMMA BlocksFacts ==
  /\ <<>> \in Seq(Blocks) /\ <<"move">> \in Seq(Blocks) /\ <<"command">> \in Seq(Blocks)
  /\ <<"hold done">> \in Seq(Blocks) /\ <<"restart done">> \in Seq(Blocks)
<1>1. "move" \in Blocks /\ "command" \in Blocks /\ "hold done" \in Blocks /\ "restart done" \in Blocks
  BY DEF Blocks
<1>2. QED BY <1>1, Singles, EmptySeq

LEMMA MovesTypes ==
  /\ \A moves \in EntryMoves \cup ExitMoves : moves \in Seq(Blocks)
  /\ \A lift \in BOOLEAN : (IF lift THEN <<"move">> ELSE <<>>) \o <<"hold done">> \in Seq(Blocks)
<1>1. \A lift \in BOOLEAN : (IF lift THEN <<"move">> ELSE <<>>) \in Seq(Blocks)
  BY BlocksFacts
<1>2. (IF CoolantPauses THEN <<"command">> ELSE <<>>) \in Seq(Blocks)
  BY BlocksFacts
<1>3. ASSUME NEW lift \in BOOLEAN
      PROVE  /\ (IF lift THEN <<"move">> ELSE <<>>) \o (IF CoolantPauses THEN <<"command">> ELSE <<>>)
                \o <<"hold done">> \in Seq(Blocks)
             /\ (IF lift THEN <<"move">> ELSE <<>>) \o <<"hold done">> \in Seq(Blocks)
             /\ <<"command">> \o (IF lift THEN <<"move">> ELSE <<>>)
                \o <<"restart done">> \in Seq(Blocks)
  <2> DEFINE lifts == IF lift THEN <<"move">> ELSE <<>>
             pause == IF CoolantPauses THEN <<"command">> ELSE <<>>
  <2>1. lifts \in Seq(Blocks) /\ pause \in Seq(Blocks)
    BY <1>1, <1>2
  <2> HIDE DEF lifts, pause
  <2>2. (lifts \o pause) \o <<"hold done">> \in Seq(Blocks)
    BY <2>1, BlocksFacts, ConcatTypes
  <2>3. lifts \o <<"hold done">> \in Seq(Blocks)
    BY <2>1, BlocksFacts, ConcatTypes
  <2>4. (<<"command">> \o lifts) \o <<"restart done">> \in Seq(Blocks)
    BY <2>1, BlocksFacts, ConcatTypes
  <2>5. QED BY <2>2, <2>3, <2>4 DEF lifts, pause
<1>4. QED BY <1>3 DEF EntryMoves, ExitMoves

LEMMA QueueCases ==
  ASSUME QueueTypes, [Next]_vars
  PROVE  \/ q' = q
         \/ Line /\ \E block \in {"move", "command"} : Appends(block)
         \/ q' = [q EXCEPT ![1] = <<"command">>]
         \/ q' = [q EXCEPT ![cm] = <<>>]
         \/ \E before \in {<<>>, q[2]}, moves \in Seq(Blocks) : Refills(before \o moves)
         \/ Frees \/ HoldDone
<1>1. CASE Input
  BY <1>1 DEF Input, Key, Bang, cm_alarm, cm_request_cycle_start, cm_request_queue_flush,
     cm_request_job_kill, Line, Nothing, Appends, planners
<1>2. CASE mp_planner_callback \/ _start_queue_flush \/ _start_cycle_restart
  BY <1>2 DEF mp_planner_callback, _start_queue_flush, _start_cycle_restart, planners
<1>3. CASE _start_job_kill
  BY <1>3 DEF _start_job_kill, JobKill, FlushPlanner, planners
<1>4. CASE run_operation
  <2>1. \/ q' = q
        \/ JobKill("ALARM") \/ FlushPlanner(cm, <<>>)
        \/ \E before \in {<<>>, q[2]}, moves \in Seq(Blocks) : \E m, isCycling :
              QueueInP2(before, moves, m, isCycling)
    BY <1>4, RunCases, MovesTypes DEF Does, Nothing, _feedhold_no_actions,
       _feedhold_with_actions, _feedhold_restart_no_actions, _feedhold_restart_with_actions,
       NestedHold, _run_restart_cycle, _run_queue_flush, _run_program_stop, _run_alarm, planners
  <2>2. QED BY <2>1 DEF JobKill, FlushPlanner, QueueInP2, Refills
<1>5. CASE Exec
  BY <1>5 DEF Exec, mp_exec_aline, ExecMotionStopped, ExecDecelComplete, ExecSegment,
     ExecCommand, ExecNothing, HeadIs, Frees
<1>6. CASE Load
  <2>1. q[cm] # <<>> => Tail(q[cm]) \o <<>> = Tail(q[cm])
    BY TailFacts, ConcatEmptySeq DEF QueueTypes
  <2>2. ASSUME q[cm] # <<>>, FreeCommand(<<>>)
        PROVE  Frees
    BY <2>1, <2>2 DEF FreeCommand, Frees
  <2>3. CASE _feedhold_actions_done_callback
    BY <2>3 DEF _feedhold_actions_done_callback, FreeCommand, HeadIs, HoldDone
  <2>4. QED
    BY <1>6, <2>2, <2>3 DEF Load, OtherCommand, HeadIs, _feedhold_restart_actions_done_callback
<1>7. CASE SegmentEnds \/ UNCHANGED vars
  BY <1>7 DEF SegmentEnds, vars, planners
<1>8. QED BY <1>1, <1>2, <1>3, <1>4, <1>5, <1>6, <1>7 DEF Next, Main
LEMMA QueueTypesStay ==
  ASSUME QueueTypes, [Next]_vars PROVE QueueTypes'
<1>1. cm' \in {1, 2}
  <2>1. CASE Input
    BY <2>1 DEF Input, Key, Bang, cm_alarm, cm_request_cycle_start, cm_request_queue_flush,
       cm_request_job_kill, Line, Nothing, planners, QueueTypes
  <2>2. CASE run_operation
    BY <2>2, RunCases DEF Does, Nothing, _feedhold_no_actions, _feedhold_with_actions,
       _feedhold_restart_no_actions, _feedhold_restart_with_actions, NestedHold,
       _run_restart_cycle, _run_queue_flush, _run_program_stop, _run_alarm,
       JobKill, planners, QueueTypes
  <2>3. QED
    BY <2>1, <2>2 DEF Next, Main, mp_planner_callback, _start_job_kill, JobKill,
       _start_queue_flush, _start_cycle_restart, Exec, Load, SegmentEnds, vars, planners, QueueTypes
<1>2. ASSUME NEW p \in {1, 2}, NEW blocks \in Seq(Blocks), q' = [q EXCEPT ![p] = blocks]
      PROVE  q' \in [1 .. 2 -> Seq(Blocks)]
  BY <1>2 DEF QueueTypes
<1>3. cm \in {1, 2} /\ q[cm] \in Seq(Blocks) /\ q[2] \in Seq(Blocks)
  BY DEF QueueTypes
<1>4. ASSUME NEW block \in {"move", "command"}, Appends(block)
      PROVE  q' \in [1 .. 2 -> Seq(Blocks)]
  <2>1. block \in Blocks
    BY DEF Blocks
  <2>2. Append(q[cm], block) \in Seq(Blocks)
    BY <1>3, <2>1, AppendProperties
  <2>3. QED BY <1>2, <1>3, <1>4, <2>2 DEF Appends
<1>5. ASSUME NEW before \in {<<>>, q[2]}, NEW moves \in Seq(Blocks), Refills(before \o moves)
      PROVE  q' \in [1 .. 2 -> Seq(Blocks)]
  <2>1. before \in Seq(Blocks)
    BY <1>3, BlocksFacts
  <2>2. before \o moves \in Seq(Blocks)
    BY <2>1, ConcatTypes
  <2>3. QED BY <1>2, <1>5, <2>2 DEF Refills
<1>6. CASE Frees
  <2> DEFINE rest == Tail(q[cm])
  <2>1. rest \in Seq(Blocks) /\ q' = [q EXCEPT ![cm] = rest]
    BY <1>3, <1>6, TailFacts DEF Frees
  <2> HIDE DEF rest
  <2>2. QED BY <1>1, <1>2, <1>3, <2>1 DEF QueueTypes
<1>7. CASE HoldDone
  <2>1. (IF CoolantPauses THEN <<"command">> ELSE <<>>) \in Seq(Blocks)
    BY BlocksFacts
  <2> DEFINE rest == Tail(q[cm]) \o (IF CoolantPauses THEN <<"command">> ELSE <<>>)
  <2>2. rest \in Seq(Blocks) /\ q' = [q EXCEPT ![cm] = rest]
    BY <1>3, <1>7, <2>1, TailFacts, ConcatTypes DEF HoldDone
  <2> HIDE DEF rest
  <2>3. QED BY <1>1, <1>2, <1>3, <2>2 DEF QueueTypes
<1>8. ASSUME NEW p \in {1, 2}, NEW blocks \in {<<>>, <<"command">>}, q' = [q EXCEPT ![p] = blocks]
      PROVE  q' \in [1 .. 2 -> Seq(Blocks)]
  BY <1>2, <1>8, BlocksFacts
<1>9. q' \in [1 .. 2 -> Seq(Blocks)]
  BY <1>4, <1>5, <1>6, <1>7, <1>8, QueueCases DEF QueueTypes
<1>10. QED BY <1>1, <1>9 DEF QueueTypes

LEMMA TypesStay ==
  ASSUME Types, [Next]_vars PROVE Types'
<1>1. OtherTypes'
  BY FlagTypesStay, PlaceTypesStay, ToPlanStays, LeftStays DEF Types, OtherTypes, StepTypes
<1>2. QED
  BY <1>1, OpTypesStay, QueueTypesStay, HoldTypesStay, MachineTypesStay DEF Types

LEMMA InitTypes == Init => Types
<1> SUFFICES ASSUME Init PROVE Types
  OBVIOUS
<1>1. OpTypes
  BY NoOperationTypes DEF Init, OpTypes, Index, ACTION_MAX
<1>2. QueueTypes /\ HoldTypes
  BY BlocksFacts DEF Init, QueueTypes, HoldTypes, HoldStates
<1>3. MachineTypes /\ FlagTypes /\ PlaceTypes
  BY DEF Init, MachineTypes, FlagTypes, PlaceTypes
<1>4. StepTypes
  BY SizeAssumption DEF Init, StepTypes
<1>5. QED BY <1>1, <1>2, <1>3, <1>4 DEF Types, OtherTypes

\* Every variable keeps its type, through every key, operation and interrupt.
THEOREM TypeCorrect == Spec => []TypeOK
<1>1. Init => Types
  BY InitTypes
<1>2. Types /\ [Next]_vars => Types'
  BY TypesStay
<1>3. Types => TypeOK
  BY TypesAreTypeOK
<1>4. QED BY <1>1, <1>2, <1>3, PTL DEF Spec
---------------------------------------------------------------------------
(* What is added to an operation *)

FirstLists == {<<"_feedhold_with_actions">>, <<"_feedhold_no_actions">>,
               <<"_feedhold_no_actions", "_run_alarm">>}
ExitLists == {FlushChain, <<"_feedhold_restart_with_actions", "_run_restart_cycle">>,
              <<"_feedhold_restart_no_actions", "_run_restart_cycle">>}

LEMMA FirstListFacts ==
  ASSUME NEW l \in FirstLists
  PROVE  l \in Seq(Actions) /\ Len(l) \in 1 .. 2 /\ Sound(l) /\ l[1] \in Enters
<1>1. ASSUME l = <<"_feedhold_with_actions">> \/ l = <<"_feedhold_no_actions">>
      PROVE  l \in Seq(Actions) /\ Len(l) = 1 /\ l[1] \in Enters
  BY <1>1, Singles DEF Actions, Enters
<1>2. CASE l = <<"_feedhold_no_actions", "_run_alarm">>
  <2>1. /\ l \in Seq(Actions) /\ Len(l) = 2
        /\ l[1] = "_feedhold_no_actions" /\ l[2] = "_run_alarm"
    BY <1>2, Pairs DEF Actions
  <2> HIDE <1>2
  <2>2. QED BY <2>1 DEF Sound, Enters, Follows
<1>3. CASE l = <<"_feedhold_with_actions">> \/ l = <<"_feedhold_no_actions">>
  <2>1. l[1] = "_feedhold_with_actions" => Ended(l)
    BY <1>1, <1>3 DEF Ended
  <2>2. QED BY <1>1, <1>3, <2>1 DEF Sound
<1>4. QED BY <1>2, <1>3 DEF FirstLists

LEMMA ExitListFacts ==
  ASSUME NEW l \in ExitLists
  PROVE  /\ l \in Seq(Actions) /\ Len(l) \in 2 .. 3 /\ Sound(l)
         /\ l[1] \in Restarts /\ \A i \in 1 .. Len(l) : l[i] \notin Enters
<1>1. CASE l = FlushChain
  BY <1>1, ChainFacts DEF Sound, Restarts, Enters, Follows
<1>2. CASE l = <<"_feedhold_restart_with_actions", "_run_restart_cycle">>
  <2>1. /\ l \in Seq(Actions) /\ Len(l) = 2
        /\ l[1] = "_feedhold_restart_with_actions" /\ l[2] = "_run_restart_cycle"
    BY <1>2, Pairs DEF Actions
  <2> HIDE <1>2
  <2>2. QED BY <2>1 DEF Sound, Restarts, Enters, Follows
<1>3. CASE l = <<"_feedhold_restart_no_actions", "_run_restart_cycle">>
  <2>1. /\ l \in Seq(Actions) /\ Len(l) = 2
        /\ l[1] = "_feedhold_restart_no_actions" /\ l[2] = "_run_restart_cycle"
    BY <1>3, Pairs DEF Actions
  <2> HIDE <1>3
  <2>2. QED BY <2>1 DEF Sound, Restarts, Enters, Follows
<1>4. QED BY <1>1, <1>2, <1>3 DEF ExitLists

LEMMA ChainIsExit == FlushChain \in ExitLists
BY DEF ExitLists

\* The action that begins a hold is the first of its list.
LEMMA EnterIsFirst ==
  ASSUME NEW acts \in Seq(Actions), Sound(acts), NEW i \in 1 .. Len(acts), acts[i] \in Enters
  PROVE  i = 1
<1>1. SUFFICES ASSUME i # 1 PROVE FALSE
  OBVIOUS
<1>2. Len(acts) \in Nat /\ i - 1 \in 1 .. Len(acts) - 1 /\ acts[i - 1] \in Actions
  BY <1>1, SeqFacts
<1>3. acts[(i - 1) + 1] \in Follows(acts[i - 1])
  BY <1>2 DEF Sound
<1>4. acts[i] \in Follows(acts[i - 1])
  BY <1>2, <1>3
<1>5. QED BY <1>2, <1>4 DEF Follows, Actions, Enters, Restarts

\* A sound list stays sound when a list is added that may follow it.
LEMMA SoundFirst ==
  ASSUME NEW l \in Seq(Actions), Sound(l), Len(l) \in 1 .. 3,
         NEW list \in Seq(Actions), Behind(<<>>, l, list)
  PROVE  Sound(list) /\ Len(list) = Len(l) /\ list # <<>> /\ \A i \in 1 .. Len(l) : list[i] = l[i]
<1>1. Len(<<>>) = 0 /\ Len(list) \in Nat /\ (list # <<>> <=> Len(list) > 0)
      /\ (l # <<>> <=> Len(l) > 0)
  BY EmptySeq, SeqFacts
<1> DEFINE size == Len(list)
<1>2. size = Len(l) /\ \A i \in 1 .. size : list[i] = l[i]
  BY <1>1 DEF Behind, ACTION_MAX
<1>3. list # <<>> /\ l # <<>>
  BY <1>1, <1>2
<1>4. Sound(list)
  BY <1>2, <1>3 DEF Sound, Ended
<1>5. QED BY <1>2, <1>3, <1>4

LEMMA SoundGrows ==
  ASSUME NEW acts \in Seq(Actions), acts # <<>>, Sound(acts), Ended(acts),
         Len(acts) <= ACTION_MAX, NEW l \in ExitLists,
         NEW list \in Seq(Actions), Behind(acts, l, list),
         \/ acts[1] \in Restarts
         \/ acts[1] = "_feedhold_with_actions" /\ l = FlushChain
  PROVE  Sound(list) /\ list[1] = acts[1] /\ list # <<>> /\ Len(list) >= Len(acts)
         /\ (l = FlushChain => Ended(list))
<1> DEFINE n == Len(acts)
           m == Len(list)
           k == Len(l)
<1>1. n \in 1 .. 6 /\ m \in 1 .. 6 /\ m >= n /\ k \in 2 .. 3 /\ list # <<>>
  <2>1. /\ n \in Nat /\ m \in Nat /\ (acts # <<>> <=> n > 0) /\ (list # <<>> <=> m > 0)
    BY SeqFacts
  <2>2. k \in 2 .. 3 /\ n <= 6 /\ m >= n /\ m <= 6
    BY ExitListFacts DEF Behind, ACTION_MAX
  <2> HIDE DEF n, m, k
  <2>3. QED BY <2>1, <2>2
<1>2. /\ \A i \in 1 .. n : list[i] = acts[i]
      /\ \A i \in n + 1 .. m : i - n \in 1 .. k /\ list[i] = l[i - n]
      /\ m = IF n + k > 6 THEN 6 ELSE n + k
  BY DEF Behind, ACTION_MAX
<1>3. list[1] = acts[1]
  BY <1>1, <1>2
<1>4. /\ \A i \in 1 .. n - 1 : acts[i + 1] \in Follows(acts[i])
      /\ \A i \in 1 .. k - 1 : l[i + 1] \in Follows(l[i])
  BY ExitListFacts DEF Sound
<1>5. n < 6 => l[1] \in Follows(acts[n])
  <2>1. n < 6 => acts[n] \in {"_feedhold_with_actions", "_run_program_stop"}
    <3>1. n = 6 \/ acts[n] \in {"_feedhold_with_actions", "_run_program_stop"}
      BY DEF Ended, ACTION_MAX
    <3> HIDE DEF n
    <3>2. QED BY <1>1, <3>1
  <2>2. acts[n] = "_run_program_stop" => l[1] \in Follows(acts[n])
    BY ExitListFacts DEF Follows
  <2>3. acts[n] = "_feedhold_with_actions" => l[1] \in Follows(acts[n])
    <3>1. SUFFICES ASSUME acts[n] = "_feedhold_with_actions" PROVE l[1] \in Follows(acts[n])
      OBVIOUS
    <3>2. n = 1
      <4>1. n \in 1 .. n /\ acts[n] \in Enters
        BY <1>1, <3>1 DEF Enters
      <4>2. QED BY <4>1, EnterIsFirst
    <3>3. l = FlushChain
      BY <3>1, <3>2 DEF Restarts
    <3>4. QED BY <3>1, <3>3, ChainFacts DEF Follows
  <2>4. QED BY <2>1, <2>2, <2>3
<1> HIDE DEF n, m, k
<1>6. ASSUME NEW i \in 1 .. m - 1
      PROVE  list[i + 1] \in Follows(list[i])
  <2>1. CASE i + 1 <= n
    BY <1>1, <1>2, <1>4, <2>1
  <2>2. CASE i = n
    BY <1>1, <1>2, <1>5, <2>2
  <2>3. CASE i > n
    BY <1>1, <1>2, <1>4, <2>3
  <2>4. QED BY <1>1, <2>1, <2>2, <2>3
<1>7. l = FlushChain => Ended(list)
  <2>1. SUFFICES ASSUME l = FlushChain, m # 6 PROVE list[m] = "_run_program_stop"
    BY DEF Ended, ACTION_MAX, m
  <2>2. k = 3 /\ l[3] = "_run_program_stop"
    BY <2>1, ChainFacts DEF k
  <2>3. m = n + 3
    BY <1>1, <1>2, <2>1, <2>2
  <2>4. list[m] = l[3]
    BY <1>1, <1>2, <2>3
  <2>5. QED BY <2>2, <2>4
<1>8. acts[1] = "_feedhold_with_actions" =>
        Ended(list) /\ \A i \in 2 .. m : list[i] \in Chain
  <2>1. SUFFICES ASSUME acts[1] = "_feedhold_with_actions"
                 PROVE  Ended(list) /\ \A i \in 2 .. m : list[i] \in Chain
    OBVIOUS
  <2>2. l = FlushChain /\ (\A i \in 2 .. n : acts[i] \in Chain) /\ k = 3
    BY <2>1, ChainFacts DEF Sound, Restarts, n, k
  <2>3. \A i \in 1 .. k : l[i] \in Chain
    BY <2>2, ChainFacts DEF Chain
  <2>4. QED BY <1>1, <1>2, <1>7, <2>2, <2>3
<1>9. acts[1] # "_feedhold_no_actions"
  BY DEF Restarts
<1>10. acts[1] \in Enters \cup Restarts
  BY DEF Enters
<1>11. Sound(list)
  BY <1>1, <1>3, <1>6, <1>8, <1>9, <1>10 DEF Sound, m
<1>12. QED BY <1>1, <1>3, <1>7, <1>11 DEF n, m

---------------------------------------------------------------------------
(* The operation and the planner it works in *)

OpInv == Grammar /\ InP1 /\ NotInP2 /\ Idle /\ Fresh /\ Pending /\ NoEnterInExit

LEMMA HeadFacts ==
  ASSUME QueueTypes, q[cm] # <<>>
  PROVE  /\ 1 \in DOMAIN q[cm] /\ Head(q[cm]) = q[cm][1] /\ Head(q[cm]) \in ToSet(q[cm])
         /\ Len(q[cm]) \in Nat
BY SeqFacts, TailFacts DEF QueueTypes, ToSet

\* Who calls the two callbacks
LEMMA Callers ==
  ASSUME Types, NotInP2, Queues
  PROVE  /\ HeadIs({"hold done"}) => cm = 2 /\ hold[1] = "HOLD_ACTIONS_PENDING"
         /\ HeadIs({"restart done"}) => cm = 2 /\ hold[1] \in Exiting
<1>1. SUFFICES ASSUME q[cm] # <<>>, Head(q[cm]) \in {"hold done", "restart done"}
               PROVE  /\ cm = 2
                      /\ Head(q[cm]) = "hold done" => hold[1] = "HOLD_ACTIONS_PENDING"
                      /\ Head(q[cm]) = "restart done" => hold[1] \in Exiting
  BY DEF HeadIs
<1>2. 1 \in DOMAIN q[cm] /\ Head(q[cm]) = q[cm][1] /\ Head(q[cm]) \in ToSet(q[cm])
  BY <1>1, HeadFacts DEF Types
<1>3. cm = 2
  <2>1. cm # 1
    BY <1>1, <1>2 DEF Queues
  <2>2. QED BY <2>1 DEF Types, QueueTypes
<1>4. QED
  BY <1>1, <1>2, <1>3 DEF NotInP2, Queues, Exiting

\* The ways of a step with the operation, other than running it
Keeps ==
  /\ op' = op
  /\ (at' = at /\ cm' = cm) \/ at' # "input"
  /\ at' \in {"planner", "job kill"} => at \in {"input", "planner", "job kill"}
  /\ at' # "operation" => at # "operation"
Begins ==
  /\ op.acts = <<>> /\ ~ op.in_operation /\ hold[1] = "OFF"
  /\ UNCHANGED <<cm, q>>
  /\ \/ at = "input" /\ hold'[1] = "SYNC" /\ at' = "planner"
     \/ at = "job kill" /\ hold' = hold /\ at' = "queue flush"
  /\ op'.run = op.run /\ ~ op'.in_operation
  /\ \E l \in FirstLists : Behind(op.acts, l, op'.acts)
Leaves(l) ==
  /\ hold[1] = "HOLD" /\ ~ op.in_operation /\ UNCHANGED <<cm, q, holds>>
  /\ \/ at = "queue flush" /\ l = FlushChain /\ at' = "cycle start"
     \/ at = "cycle start" /\ at' = "operation"
  /\ op'.run = op.run /\ ~ op'.in_operation /\ Behind(op.acts, l, op'.acts)
Calls ==
  /\ cm = 2 /\ hold[1] = "HOLD_ACTIONS_PENDING" /\ hold'[1] = "HOLD"
  /\ queue_flush_state /\ UNCHANGED <<cm, at>>
  /\ op'.run = op.run /\ op'.in_operation = op.in_operation
  /\ Behind(op.acts, FlushChain, op'.acts)

LEMMA OpCases ==
  ASSUME Types, OpInv, Queues, [Next]_vars
  PROVE  run_operation \/ Keeps \/ Begins \/ Calls \/ \E l \in ExitLists : Leaves(l)
<1>0. op.acts \in Seq(Actions) /\ (op.in_operation => op.acts # <<>>) /\ op.in_operation \in BOOLEAN
  BY DEF Types, OpTypes, Ops, OpInv, Fresh
<1>1. CASE Input
  <2>1. CASE op' = op
    BY <1>1, <2>1 DEF Input, Keeps
  <2>2. ASSUME NEW l \in FirstLists, Requests(l), op' # op
        PROVE  Begins
    <3>1. hold[1] = "OFF" /\ at = "input" /\ ~ op.in_operation
      BY <2>2, FirstListFacts, AddShape DEF Types, Requests
    <3>2. op.acts = <<>>
      <4>1. cm = 1
        BY <3>1 DEF Types, QueueTypes, OpInv, NotInP2, Exiting
      <4>2. QED BY <3>1, <4>1 DEF OpInv, Fresh
    <3>3. op'.run = op.run /\ ~ op'.in_operation /\ Behind(op.acts, l, op'.acts)
      BY <2>2, <3>1, FirstListFacts, AddShape DEF Types, Requests
    <3>4. hold'[1] = "SYNC" /\ UNCHANGED <<cm, q>>
      BY <2>2 DEF Requests, Types, HoldTypes, planners
    <3>5. QED BY <1>1, <3>1, <3>2, <3>3, <3>4 DEF Begins, Input
  <2>3. QED BY <1>1, <2>1, <2>2, InputShape DEF FirstLists
<1>2. CASE _start_job_kill
  <2>1. CASE op' = op
    BY <1>2, <2>1 DEF _start_job_kill, Keeps
  <2> DEFINE l == <<"_feedhold_no_actions">>
  <2>2. CASE op' # op
    <3>1. hold[1] = "OFF" /\ at = "job kill" /\ at' = "queue flush" /\ hold' = hold
          /\ UNCHANGED <<cm, q>> /\ add_action(l)
      BY <1>2, <2>2 DEF _start_job_kill, planners
    <3>2. l \in FirstLists
      BY DEF FirstLists
    <3> HIDE DEF l
    <3>3. ~ op.in_operation /\ op'.run = op.run /\ ~ op'.in_operation /\ Behind(op.acts, l, op'.acts)
      BY <2>2, <3>1, <3>2, FirstListFacts, AddShape DEF Types
    <3>4. op.acts = <<>>
      BY <3>1, <3>3 DEF OpInv, Fresh
    <3>5. QED BY <3>1, <3>2, <3>3, <3>4 DEF Begins
  <2>3. QED BY <2>1, <2>2
<1>3. CASE _start_queue_flush \/ _start_cycle_restart
  <2>1. CASE op' = op
    BY <1>3, <2>1 DEF _start_queue_flush, _start_cycle_restart, Keeps
  <2>2. CASE op' # op
    <3>1. \E l \in ExitLists :
            /\ hold[1] = "HOLD" /\ UNCHANGED <<cm, q, holds>> /\ add_action(l)
            /\ \/ at = "queue flush" /\ l = FlushChain /\ at' = "cycle start"
               \/ at = "cycle start" /\ at' = "operation"
      BY <1>3, <2>2 DEF _start_queue_flush, _start_cycle_restart, ExitLists, planners
    <3>2. PICK l \in ExitLists :
            /\ hold[1] = "HOLD" /\ UNCHANGED <<cm, q, holds>> /\ add_action(l)
            /\ \/ at = "queue flush" /\ l = FlushChain /\ at' = "cycle start"
               \/ at = "cycle start" /\ at' = "operation"
      BY <3>1
    <3>3. ~ op.in_operation /\ op'.run = op.run /\ ~ op'.in_operation /\ Behind(op.acts, l, op'.acts)
      BY <2>2, <3>2, ExitListFacts, AddShape DEF Types
    <3>4. QED BY <3>2, <3>3 DEF Leaves
  <2>3. QED BY <2>1, <2>2
<1>4. CASE Load
  <2>1. CASE op' = op
    BY <1>4, <2>1 DEF Load, Keeps
  <2>2. CASE op' # op
    <3>1. /\ HeadIs({"hold done"}) /\ hold' = [hold EXCEPT ![1] = "HOLD", ![2] = "OFF"]
          /\ queue_flush_state /\ UNCHANGED <<cm, at>> /\ op' = Fit(op, FlushChain)
      BY <1>4, <2>2, AddToIsFit DEF Load, _feedhold_actions_done_callback, OtherCommand,
         _feedhold_restart_actions_done_callback
    <3>2. cm = 2 /\ hold[1] = "HOLD_ACTIONS_PENDING"
      BY <3>1, Callers DEF OpInv
    <3>3. op'.run = op.run /\ op'.in_operation = op.in_operation /\ Behind(op.acts, FlushChain, op'.acts)
      BY <3>1, ChainFacts, FitFacts DEF Types, OpTypes, Index
    <3>4. hold'[1] = "HOLD"
      <4>1. hold' = [hold EXCEPT ![1] = "HOLD", ![2] = "OFF"] /\ hold \in [1 .. 2 -> HoldStates]
        BY <3>1 DEF Types, HoldTypes
      <4>2. QED BY <4>1
    <3>5. QED BY <3>1, <3>2, <3>3, <3>4 DEF Calls
  <2>3. QED BY <2>1, <2>2
<1>5. CASE Exec \/ SegmentEnds \/ mp_planner_callback \/ UNCHANGED vars
  BY <1>5 DEF Exec, SegmentEnds, mp_planner_callback, vars, planners, Keeps
<1>6. QED BY <1>1, <1>2, <1>3, <1>4, <1>5 DEF Next, Main
LEMMA GrammarStays ==
  ASSUME Types, OpInv, Queues, [Next]_vars PROVE Grammar'
<1>0. /\ op.acts \in Seq(Actions) /\ op'.acts \in Seq(Actions) /\ Len(op.acts) <= ACTION_MAX
      /\ Sound(op.acts)
  BY OpTypesStay DEF Types, OpTypes, Ops, OpInv, Grammar, Index
<1>1. CASE op'.acts = op.acts
  BY <1>0, <1>1 DEF Grammar
<1>2. CASE op'.acts = <<>>
  BY <1>2, EmptySeq DEF Grammar, Sound
<1>3. ASSUME op.acts = <<>>, NEW l \in FirstLists \cup ExitLists, Behind(op.acts, l, op'.acts)
      PROVE  Grammar'
  BY <1>0, <1>3, FirstListFacts, ExitListFacts, SoundFirst DEF Grammar
<1>4. ASSUME op.acts # <<>>, NEW l \in ExitLists, Behind(op.acts, l, op'.acts), Ended(op.acts),
             \/ op.acts[1] \in Restarts
             \/ op.acts[1] = "_feedhold_with_actions" /\ l = FlushChain
      PROVE  Grammar'
  BY <1>0, <1>4, SoundGrows DEF Grammar
<1>5. CASE run_operation
  <2>1. CASE op.acts = <<>> \/ Ends \/ Advances \/ Waits
    BY <1>1, <1>2, <1>5, <2>1, DoesShape, NoOperationTypes DEF Types, Ends, Advances, Waits
  <2>2. CASE op.acts # <<>> /\ Current = "_feedhold_with_actions" /\ GoesOn
    <3>1. op.acts[1] = "_feedhold_with_actions" /\ Ended(op.acts)
      <4>1. op.run \in 1 .. Len(op.acts) /\ op.acts[op.run] = "_feedhold_with_actions"
            /\ op.run = Len(op.acts)
        BY <2>2 DEF Types, OpTypes, Index, Current, GoesOn
      <4>2. op.run = 1
        BY <1>0, <4>1, EnterIsFirst DEF Enters
      <4>3. QED BY <4>1, <4>2 DEF Ended
    <3>2. QED BY <1>4, <2>2, <3>1, ChainIsExit DEF GoesOn
  <2>3. QED BY <1>5, <2>1, <2>2, DoesShape DEF Types
<1>6. CASE Keeps
  BY <1>1, <1>6 DEF Keeps
<1>7. CASE Begins
  BY <1>3, <1>7 DEF Begins
<1>8. CASE Calls
  <2>1. op.acts # <<>> => op.acts[1] = "_feedhold_with_actions" /\ Ended(op.acts)
    BY <1>0, <1>8 DEF Calls, OpInv, Pending, Sound
  <2>2. QED BY <1>3, <1>4, <1>8, <2>1, ChainIsExit DEF Calls
<1>9. ASSUME NEW l \in ExitLists, Leaves(l) PROVE Grammar'
  <2>1. op.acts # <<>> => op.acts[1] \in Restarts /\ Ended(op.acts)
    BY <1>9 DEF Leaves, OpInv, Idle, Stopping, Decelerating
  <2>2. QED BY <1>3, <1>4, <1>9, <2>1 DEF Leaves
<1>10. QED BY <1>5, <1>6, <1>7, <1>8, <1>9, OpCases
\* In planner 2 a hold has its moves, waits, or makes the moves of its exit.
LEMMA P2Steps ==
  ASSUME Types, OpInv, Queues, [Next]_vars, cm' = 2
  PROVE  \/ cm = 2 /\ hold'[1] \in {"HOLD_ACTIONS_PENDING", "HOLD"} \cup Exiting
         \/ /\ cm = 1 /\ op.acts # <<>> /\ Current = "_feedhold_with_actions" /\ Waits
            /\ hold'[1] = "HOLD_ACTIONS_PENDING"
<1>0. /\ cm \in {1, 2} /\ hold \in [1 .. 2 -> HoldStates]
      /\ cm = 2 => hold[1] \in {"HOLD_ACTIONS_PENDING", "HOLD"} \cup Exiting
      /\ cm = 2 => hold[1] # "OFF"
  BY DEF Types, QueueTypes, HoldTypes, OpInv, NotInP2, Exiting
<1>1. CASE Input
  <2>1. cm' = cm
    BY <1>1 DEF Input, Key, Bang, cm_alarm, cm_request_cycle_start, cm_request_queue_flush,
       cm_request_job_kill, Line, Nothing, planners
  <2>2. hold'[1] = hold[1]
    BY <1>0, <1>1, <2>1 DEF Input, Key, Bang, cm_alarm, cm_request_feedhold,
       cm_request_cycle_start, cm_request_queue_flush, cm_request_job_kill, Line, Nothing, holds
  <2>3. QED BY <1>0, <2>1, <2>2
<1>2. CASE mp_planner_callback
  <2>1. cm' = cm
    BY <1>2 DEF mp_planner_callback
  <2>2. hold'[1] = hold[1]
    <3>1. hold' = hold \/ hold' = [hold EXCEPT ![cm] = "MOTION_STOPPED"]
      BY <1>2 DEF mp_planner_callback
    <3>2. QED BY <1>0, <2>1, <3>1
  <2>3. QED BY <1>0, <2>1, <2>2
<1>3. CASE _start_job_kill
  <2>1. cm' = 1 \/ (cm' = cm /\ hold' = hold)
    BY <1>3 DEF _start_job_kill, JobKill, planners
  <2>2. QED BY <1>0, <2>1
<1>4. CASE _start_queue_flush \/ _start_cycle_restart
  BY <1>0, <1>4 DEF _start_queue_flush, _start_cycle_restart, planners, holds
<1>5. CASE run_operation
  <2>1. CASE op.acts = <<>> /\ Nothing
    BY <1>0, <2>1 DEF Nothing, planners, holds
  <2>2. CASE Does("_feedhold_no_actions", _feedhold_no_actions)
    <3>1. cm = 1
      <4>1. "_feedhold_no_actions" \in ToSet(op.acts)
        BY <2>2, SeqFacts DEF Does, Current, Types, OpTypes, Ops, Index, ToSet
      <4>2. QED BY <1>0, <4>1 DEF OpInv, NotInP2
    <3>2. QED BY <2>2, <3>1 DEF Does, _feedhold_no_actions
  <2>3. CASE Does("_feedhold_with_actions", _feedhold_with_actions)
    <3>1. CASE hold[1] = "MOTION_STOPPED"
      <4>1. cm = 1 /\ op.acts # <<>> /\ Current = "_feedhold_with_actions" /\ Waits
        BY <1>0, <2>3, <3>1, AgainShape DEF Does, _feedhold_with_actions, Types, Exiting
      <4>2. hold'[1] = "HOLD_ACTIONS_PENDING"
        BY <1>0, <2>3, <3>1 DEF Does, _feedhold_with_actions
      <4>3. QED BY <4>1, <4>2
    <3>2. CASE hold[1] # "MOTION_STOPPED"
      BY <1>0, <2>3, <3>2 DEF Does, _feedhold_with_actions, FinishHold, planners
    <3>3. QED BY <3>1, <3>2
  <2>4. CASE Does("_feedhold_restart_no_actions", _feedhold_restart_no_actions)
    BY <1>0, <2>4 DEF Does, _feedhold_restart_no_actions, holds
  <2>5. CASE Does("_feedhold_restart_with_actions", _feedhold_restart_with_actions)
    <3>1. cm' = 1 \/ (cm' = cm /\ \/ hold' = hold
                                   \/ hold' = [hold EXCEPT ![1] = "EXIT_ACTIONS_PENDING"]
                                   \/ hold' = [hold EXCEPT ![1] = "HOLD_ACTIONS_PENDING", ![2] = "OFF"])
      BY <2>5 DEF Does, _feedhold_restart_with_actions, NestedHold, planners
    <3>2. QED BY <1>0, <3>1 DEF Exiting
  <2>6. ASSUME op.acts # <<>>,
               Current \in {"_run_restart_cycle", "_run_queue_flush", "_run_program_stop", "_run_alarm"}
        PROVE  cm = 1
    BY <2>6 DEF OpInv, InP1, Enters, Restarts
  <2>7. CASE \/ Does("_run_restart_cycle", _run_restart_cycle)
             \/ Does("_run_queue_flush", _run_queue_flush)
             \/ Does("_run_program_stop", _run_program_stop)
             \/ Does("_run_alarm", _run_alarm)
    BY <2>6, <2>7 DEF Does, _run_restart_cycle, _run_queue_flush, _run_program_stop,
       _run_alarm, JobKill, planners
  <2>8. QED BY <1>5, <2>1, <2>2, <2>3, <2>4, <2>5, <2>7, RunCases
<1>6. CASE Exec
  <2>1. cm' = cm
    BY <1>6 DEF Exec
  <2>2. hold' = hold \/ \E state : hold' = [hold EXCEPT ![cm] = state]
    BY <1>6 DEF Exec, mp_exec_aline, ExecMotionStopped, ExecDecelComplete,
       ExecSegment, ExecCommand, ExecNothing
  <2>3. QED BY <1>0, <2>1, <2>2
<1>7. CASE Load \/ SegmentEnds \/ UNCHANGED vars
  <2>1. /\ cm' = cm
        /\ \/ hold' = hold
           \/ hold' = [hold EXCEPT ![1] = "EXIT_ACTIONS_COMPLETE"]
           \/ hold' = [hold EXCEPT ![1] = "HOLD", ![2] = "OFF"]
    BY <1>7 DEF Load, _feedhold_actions_done_callback, OtherCommand,
       _feedhold_restart_actions_done_callback, SegmentEnds, vars, planners, holds
  <2>2. QED BY <1>0, <2>1 DEF Exiting
<1>8. QED BY <1>1, <1>2, <1>3, <1>4, <1>5, <1>6, <1>7 DEF Next, Main

\* The actions of an exit do not begin a hold.
LEMMA EntersKept ==
  ASSUME op.acts \in Seq(Actions), op'.acts \in Seq(Actions), NEW l \in ExitLists,
         Behind(op.acts, l, op'.acts), NEW a \in Enters, a \in ToSet(op'.acts)
  PROVE  a \in ToSet(op.acts)
<1>1. PICK i \in 1 .. Len(op'.acts) : op'.acts[i] = a
  BY SeqFacts DEF ToSet
<1>2. Len(op.acts) \in Nat /\ Len(op'.acts) \in Nat
  BY SeqFacts
<1>3. CASE i <= Len(op.acts)
  BY <1>1, <1>2, <1>3, SeqFacts DEF Behind, ToSet
<1>4. CASE i > Len(op.acts)
  <2>1. i - Len(op.acts) \in 1 .. Len(l) /\ l[i - Len(op.acts)] = a
    BY <1>1, <1>2, <1>4 DEF Behind
  <2>2. QED BY <2>1, ExitListFacts
<1>5. QED BY <1>2, <1>3, <1>4

LEMMA NotInP2Stays ==
  ASSUME Types, OpInv, Queues, [Next]_vars PROVE NotInP2'
<1>0. op.acts \in Seq(Actions) /\ op'.acts \in Seq(Actions) /\ Sound(op.acts)
  BY OpTypesStay DEF Types, OpTypes, Ops, OpInv, Grammar
<1> SUFFICES ASSUME cm' = 2
             PROVE  /\ hold'[1] \in {"HOLD_ACTIONS_PENDING", "HOLD"} \cup Exiting
                    /\ "_feedhold_no_actions" \notin ToSet(op'.acts)
  BY DEF NotInP2, Exiting
<1>1. hold'[1] \in {"HOLD_ACTIONS_PENDING", "HOLD"} \cup Exiting
  BY P2Steps
<1>2. ASSUME cm = 2 PROVE "_feedhold_no_actions" \notin ToSet(op'.acts)
  <2>0. "_feedhold_no_actions" \notin ToSet(op.acts)
    BY <1>2 DEF OpInv, NotInP2
  <2>1. CASE op'.acts = op.acts
    BY <2>0, <2>1
  <2>2. CASE op'.acts = <<>>
    BY <2>2, EmptySeq DEF ToSet
  <2>3. ASSUME NEW l \in ExitLists, Behind(op.acts, l, op'.acts)
        PROVE  "_feedhold_no_actions" \notin ToSet(op'.acts)
    BY <1>0, <2>0, <2>3, EntersKept DEF Enters
  <2>4. CASE run_operation
    BY <2>1, <2>2, <2>3, <2>4, DoesShape, NoOperationTypes, ChainIsExit
       DEF Types, Ends, Advances, Waits, GoesOn
  <2>5. ~ Begins
    BY <1>2 DEF Begins, OpInv, NotInP2, Exiting
  <2>6. QED
    BY <2>1, <2>3, <2>4, <2>5, OpCases, ChainIsExit DEF Keeps, Calls, Leaves
<1>3. ASSUME cm = 1 PROVE "_feedhold_no_actions" \notin ToSet(op'.acts)
  <2>0. op.acts # <<>> /\ Current = "_feedhold_with_actions" /\ Waits
    BY <1>3, P2Steps
  <2>1. op.acts[op.run] = "_feedhold_with_actions" /\ op'.acts = op.acts
        /\ op.run \in 1 .. Len(op.acts)
    BY <2>0 DEF Current, Waits, Types, OpTypes, Index
  <2>2. ASSUME NEW i \in 1 .. Len(op.acts), op.acts[i] = "_feedhold_no_actions"
        PROVE  FALSE
    <3>1. op.run = 1 /\ i = 1
      BY <1>0, <2>1, <2>2, EnterIsFirst DEF Enters
    <3>2. QED BY <2>1, <2>2, <3>1
  <2>3. QED BY <1>0, <2>1, <2>2, SeqFacts DEF ToSet
<1>4. QED BY <1>1, <1>2, <1>3 DEF Types, QueueTypes
\* How the hold of planner 1 changes
RunsInto(action, from, to) == /\ op.acts # <<>> /\ Current = action /\ hold[1] \in from /\ hold'[1] = to
                              /\ at = "operation"
LEMMA RunHold ==
  ASSUME Types, run_operation
  PROVE  \/ hold'[1] = hold[1]
         \/ \E a \in Enters : RunsInto(a, {"OFF"}, "SYNC") /\ Waits
         \/ RunsInto("_feedhold_no_actions", {"OFF"} \cup Stopped, "HOLD") /\ (Ends \/ Advances)
         \/ /\ RunsInto("_feedhold_with_actions", {"MOTION_STOPPED"}, "HOLD_ACTIONS_PENDING")
            /\ Waits
         \/ /\ RunsInto("_feedhold_restart_with_actions", {"HOLD"}, "EXIT_ACTIONS_PENDING")
            /\ Waits
         \/ /\ RunsInto("_feedhold_restart_with_actions", {"EXIT_ACTIONS_PENDING"}, "HOLD_ACTIONS_PENDING")
            /\ Ends /\ cm' = cm
         \/ RunsInto("_run_program_stop", HoldStates, "OFF") /\ (Ends \/ Advances)
         \/ RunsInto("_run_restart_cycle", HoldStates \ {"MOTION_STOPPED"}, "OFF") /\ (Ends \/ Advances)
         \/ RunsInto("_run_alarm", {"HOLD"}, "OFF") /\ JobKill("ALARM") /\ (Ends \/ Advances)
<1>0. hold \in [1 .. 2 -> HoldStates]
  BY DEF Types, HoldTypes
<1>1. CASE op.acts = <<>> /\ Nothing
  BY <1>1 DEF Nothing, holds
<1>2. CASE Does("_feedhold_no_actions", _feedhold_no_actions)
  BY <1>0, <1>2, AgainShape, CompletedShape DEF Does, _feedhold_no_actions, Types, RunsInto,
     Enters, HoldStates, Stopped, holds
<1>3. CASE Does("_feedhold_with_actions", _feedhold_with_actions)
  <2>0. op.acts # <<>> /\ Current = "_feedhold_with_actions" /\ at = "operation"
        /\ _feedhold_with_actions /\ OpTypes
    BY <1>3 DEF Does, Types
  <2>1. CASE hold[1] = "OFF"
    <3>1. hold' = [hold EXCEPT ![1] = "SYNC"] /\ Waits
      BY <2>0, <2>1, AgainShape DEF _feedhold_with_actions
    <3>2. QED BY <1>0, <2>0, <2>1, <3>1 DEF RunsInto, Enters
  <2>2. CASE hold[1] = "MOTION_STOPPED"
    <3>1. Waits /\ hold' = [hold EXCEPT ![1] = "HOLD_ACTIONS_PENDING",
                                        ![2] = IF cm = 1 THEN "OFF" ELSE hold[2]]
      BY <2>0, <2>2, AgainShape DEF _feedhold_with_actions
    <3>2. hold'[1] = "HOLD_ACTIONS_PENDING"
      BY <1>0, <3>1
    <3>3. QED BY <2>0, <2>2, <3>1, <3>2 DEF RunsInto
  <2>3. CASE hold[1] = "HOLD"
    BY <1>0, <2>0, <2>3 DEF _feedhold_with_actions, FinishHold
  <2>4. CASE hold[1] \notin {"OFF", "MOTION_STOPPED", "HOLD"}
    BY <2>0, <2>4 DEF _feedhold_with_actions
  <2>5. QED BY <2>1, <2>2, <2>3, <2>4
<1>4. CASE Does("_feedhold_restart_no_actions", _feedhold_restart_no_actions)
  BY <1>4 DEF Does, _feedhold_restart_no_actions, holds
<1>5. CASE Does("_feedhold_restart_with_actions", _feedhold_restart_with_actions)
  <2>1. CASE hold[1] = "EXIT_ACTIONS_PENDING" /\ NestedHold
    <3>1. hold' = [hold EXCEPT ![1] = "HOLD_ACTIONS_PENDING", ![2] = "OFF"] /\ Ends /\ cm' = cm
          /\ op.acts # <<>> /\ Current = "_feedhold_restart_with_actions"
          /\ at = "operation"
      BY <1>5, <2>1, FailedShape DEF Does, NestedHold
    <3>2. hold'[1] = "HOLD_ACTIONS_PENDING"
      BY <1>0, <3>1
    <3>3. QED BY <2>1, <3>1, <3>2 DEF RunsInto
  <2>2. CASE ~ (hold[1] = "EXIT_ACTIONS_PENDING" /\ NestedHold)
    BY <1>0, <1>5, <2>2, AgainShape DEF Does, _feedhold_restart_with_actions, Types, RunsInto
  <2>3. QED BY <2>1, <2>2
<1>6. CASE Does("_run_restart_cycle", _run_restart_cycle)
  BY <1>0, <1>6, CompletedShape DEF Does, _run_restart_cycle, Types, RunsInto
<1>7. CASE Does("_run_queue_flush", _run_queue_flush)
  BY <1>7 DEF Does, _run_queue_flush, holds
<1>8. CASE Does("_run_program_stop", _run_program_stop)
  BY <1>0, <1>8, CompletedShape DEF Does, _run_program_stop, Types, RunsInto
<1>9. CASE Does("_run_alarm", _run_alarm)
  BY <1>0, <1>9, CompletedShape DEF Does, _run_alarm, JobKill, Types, RunsInto
<1>10. QED
  BY <1>1, <1>2, <1>3, <1>4, <1>5, <1>6, <1>7, <1>8, <1>9, RunCases

LEMMA HoldCases ==
  ASSUME Types, OpInv, Queues, [Next]_vars
  PROVE  \/ hold'[1] = hold[1]
         \/ run_operation
         \/ /\ Input /\ hold[1] = "OFF" /\ hold'[1] = "SYNC" /\ cm' = cm
            /\ \E l \in FirstLists : Requests(l)
         \/ /\ Input /\ cm = 1 /\ hold'[1] = "OFF" /\ op' = op /\ cm' = cm /\ at' = "planner"
            /\ machine[1] \notin {"CYCLE", "STOP"} /\ UNCHANGED <<machines, q>>
         \/ _start_job_kill /\ JobKill("END") /\ op' = op
         \/ /\ cm = 1 /\ hold[1] \in Stopping /\ hold'[1] \in Stopping \cup {"MOTION_STOPPED"}
            /\ Keeps /\ cm' = cm /\ ~ Input
         \/ cm = 2 /\ hold[1] = "HOLD_ACTIONS_PENDING" /\ hold'[1] = "HOLD" /\ Load /\ cm' = cm
         \/ /\ cm = 2 /\ hold[1] \in Exiting /\ hold'[1] = "EXIT_ACTIONS_COMPLETE"
            /\ op' = op /\ at' = at /\ cm' = cm /\ Load
<1>0. cm \in {1, 2} /\ hold \in [1 .. 2 -> HoldStates]
  BY DEF Types, QueueTypes, HoldTypes
<1>1. CASE Input
  <2>1. CASE UNCHANGED hold
    BY <2>1
  <2>2. CASE /\ cm_request_feedhold("ACTIONS", <<"_feedhold_with_actions">>)
             /\ UNCHANGED <<machines, requests, planners, stepping>> /\ promise' # "flush"
    <3> DEFINE l == <<"_feedhold_with_actions">>
    <3>1. /\ l \in FirstLists /\ cm_request_feedhold("ACTIONS", l) /\ at = "input" /\ at' = "planner"
      BY <1>1, <2>2 DEF FirstLists, Input
    <3> HIDE DEF l
    <3>2. QED
      BY <1>0, <1>1, <2>2, <3>1 DEF cm_request_feedhold, Requests, planners
  <2>3. CASE /\ cm_request_feedhold("HOLD", <<"_feedhold_no_actions", "_run_alarm">>)
             /\ UNCHANGED <<machines, requests, planners, stepping>> /\ promise' # "flush"
    <3> DEFINE l == <<"_feedhold_no_actions", "_run_alarm">>
    <3>1. /\ l \in FirstLists /\ cm_request_feedhold("HOLD", l) /\ at = "input" /\ at' = "planner"
      BY <1>1, <2>3 DEF FirstLists, Input
    <3> HIDE DEF l
    <3>2. QED
      BY <1>0, <1>1, <2>3, <3>1 DEF cm_request_feedhold, Requests, planners
  <2>4. QED
    BY <1>1, <2>1, <2>2, <2>3 DEF Input, Key, Bang, cm_alarm, cm_request_cycle_start,
       cm_request_queue_flush, cm_request_job_kill, Line, Nothing, holds
<1>2. CASE mp_planner_callback
  <2>1. \/ hold' = hold
        \/ hold' = [hold EXCEPT ![cm] = "MOTION_STOPPED"] /\ hold[cm] \in Decelerating
    BY <1>2 DEF mp_planner_callback
  <2>2. cm' = cm /\ Keeps /\ ~ Input
    BY <1>2 DEF mp_planner_callback, Keeps, Input
  <2>3. QED BY <1>0, <2>1, <2>2 DEF Stopping
<1>3. CASE _start_job_kill
  <2>1. hold' = hold \/ (JobKill("END") /\ op' = op)
    BY <1>3 DEF _start_job_kill
  <2>2. QED BY <1>3, <2>1
<1>4. CASE _start_queue_flush \/ _start_cycle_restart \/ SegmentEnds \/ UNCHANGED vars
  BY <1>4 DEF _start_queue_flush, _start_cycle_restart, SegmentEnds, vars, holds
<1>5. CASE Exec
  <2>1. cm' = cm /\ Keeps /\ (Input => at' # at)
    BY <1>5 DEF Exec, Keeps, Input
  <2>2. \/ hold' = hold
        \/ \E state : /\ hold' = [hold EXCEPT ![cm] = state]
                      /\ \/ state = hold[cm]
                         \/ hold[cm] \in Stopping /\ state \in Stopping \cup {"MOTION_STOPPED"}
    <3>1. CASE ExecMotionStopped
      BY <3>1 DEF ExecMotionStopped, Stopping
    <3>2. CASE ExecDecelComplete
      BY <3>2 DEF ExecDecelComplete, Stopping
    <3>3. CASE ExecSegment
      <4>1. PICK slow \in Slowing(left) : \E n \in LengthsOf(slow) :
              hold' = [hold EXCEPT ![cm] = IF n > 1 THEN slow
                                           ELSE IF slow = "DECEL_TO_ZERO" THEN "DECEL_COMPLETE" ELSE slow]
        BY <3>3 DEF ExecSegment
      <4>2. slow = hold[cm] \/ (hold[cm] \in Stopping /\ slow \in Stopping)
        BY DEF Slowing, Stopping, Decelerating
      <4>3. slow = "DECEL_TO_ZERO" => hold[cm] \in Stopping
        BY <4>2 DEF Stopping, Decelerating
      <4>4. "DECEL_COMPLETE" \in Stopping
        BY DEF Stopping
      <4>5. QED BY <4>1, <4>2, <4>3, <4>4
    <3>4. QED BY <1>5, <3>1, <3>2, <3>3 DEF Exec, mp_exec_aline, ExecCommand, ExecNothing
  <2>3. QED BY <1>0, <2>1, <2>2, <1>5 DEF Exec, Input
<1>6. CASE Load
  <2>1. CASE hold' = hold
    BY <2>1
  <2>2. CASE /\ HeadIs({"hold done"}) /\ hold' = [hold EXCEPT ![1] = "HOLD", ![2] = "OFF"]
    <3>1. hold'[1] = "HOLD"
      <4>1. hold' = [hold EXCEPT ![1] = "HOLD", ![2] = "OFF"]
        BY <2>2
      <4>2. QED BY <1>0, <4>1
    <3>2. cm' = cm
      BY <1>6 DEF Load
    <3>3. QED BY <1>6, <2>2, <3>1, <3>2, Callers DEF OpInv
  <2>3. CASE /\ HeadIs({"restart done"}) /\ hold' = [hold EXCEPT ![1] = "EXIT_ACTIONS_COMPLETE"]
             /\ op' = op
    <3>1. hold'[1] = "EXIT_ACTIONS_COMPLETE"
      <4>1. hold' = [hold EXCEPT ![1] = "EXIT_ACTIONS_COMPLETE"]
        BY <2>3
      <4>2. QED BY <1>0, <4>1
    <3>2. cm' = cm /\ at' = at
      BY <1>6 DEF Load
    <3>3. QED BY <1>6, <2>3, <3>1, <3>2, Callers DEF OpInv
  <2>4. QED
    BY <1>6, <2>1, <2>2, <2>3 DEF Load, _feedhold_actions_done_callback, OtherCommand,
       _feedhold_restart_actions_done_callback
<1>7. QED BY <1>1, <1>2, <1>3, <1>4, <1>5, <1>6 DEF Next, Main
\* Where an index in a list with the start of a hold leads
LEMMA CurrentFacts ==
  ASSUME Types, OpInv, op.acts # <<>>
  PROVE  /\ op.acts \in Seq(Actions) /\ Len(op.acts) \in Nat /\ op.run \in 1 .. Len(op.acts)
         /\ 1 \in 1 .. Len(op.acts) /\ op.acts[1] \in Enters \cup Restarts
         /\ Current \in Actions /\ Current \in ToSet(op.acts)
         /\ Current \in Enters => op.run = 1
         /\ op.acts[1] \in Enters /\ Current \notin Enters => Current \in Chain \cup {"_run_alarm"}
<1>1. /\ op.acts \in Seq(Actions) /\ op.run \in 1 .. Len(op.acts) /\ Sound(op.acts)
      /\ Len(op.acts) \in Nat
  BY SeqFacts DEF Types, OpTypes, Ops, Index, OpInv, Grammar
<1>2. 1 \in 1 .. Len(op.acts) /\ op.acts[1] \in Enters \cup Restarts
  BY <1>1 DEF Sound
<1>3. Current \in Actions /\ Current \in ToSet(op.acts)
  BY <1>1, SeqFacts DEF Current, ToSet
<1>4. Current \in Enters => op.run = 1
  BY <1>1, EnterIsFirst DEF Current
<1>5. op.acts[1] \in Enters /\ Current \notin Enters => Current \in Chain \cup {"_run_alarm"}
  <2>1. SUFFICES ASSUME op.acts[1] \in Enters, Current \notin Enters
                 PROVE  Current \in Chain \cup {"_run_alarm"}
    OBVIOUS
  <2>2. op.run \in 2 .. Len(op.acts)
    <3>1. op.run # 1
      BY <2>1 DEF Current
    <3>2. QED BY <1>1, <3>1
  <2>3. QED BY <1>1, <2>1, <2>2 DEF Sound, Enters, Current
<1>6. QED BY <1>1, <1>2, <1>3, <1>4, <1>5

LEMMA InP1Stays ==
  ASSUME Types, OpInv, Queues, [Next]_vars PROVE InP1'
<1>0. OpTypes'
  BY OpTypesStay DEF Types
<1> SUFFICES ASSUME op'.acts # <<>>, cm' = 2
             PROVE  op'.acts[op'.run] \in Enters \cup Restarts
  BY <1>0, QueueTypesStay DEF InP1, Current, Types, QueueTypes
<1>1. CASE cm = 1
  <2>1. Current = "_feedhold_with_actions" /\ Waits
    BY <1>1, P2Steps
  <2>2. QED BY <2>1 DEF Current, Enters, Waits
<1>2. CASE cm = 2
  <2>0. /\ op.acts # <<>> => Current \in Enters \cup Restarts
        /\ hold[1] # "OFF" /\ "_feedhold_no_actions" \notin ToSet(op.acts)
    BY <1>2 DEF OpInv, InP1, NotInP2, Exiting
  <2>1. CASE op' = op
    BY <2>0, <2>1 DEF Current
  <2>2. ASSUME NEW l \in ExitLists, Behind(op.acts, l, op'.acts), op'.run = op.run
        PROVE  op'.acts[op'.run] \in Enters \cup Restarts
    <3>1. CASE op.acts = <<>>
      <4>1. op.run = 1
        BY <3>1 DEF Types, OpTypes, Index
      <4>2. op'.acts[1] = l[1]
        BY <1>0, <2>2, <3>1, ExitListFacts, SoundFirst DEF OpTypes, Ops
      <4>3. QED BY <2>2, <4>1, <4>2, ExitListFacts
    <3>2. CASE op.acts # <<>>
      BY <2>0, <2>2, <3>2, CurrentFacts DEF Behind, Current
    <3>3. QED BY <3>1, <3>2
  <2>3. CASE run_operation /\ op.acts # <<>>
    <3>1. CASE Ends \/ Waits
      BY <2>0, <2>3, <3>1, NoOperationTypes DEF Ends, Waits, Current
    <3>2. CASE Current = "_feedhold_with_actions" /\ GoesOn
      <4>1. op.run = 1 /\ op.run = Len(op.acts) /\ op'.run = 2 /\ Len(op'.acts) \in Nat /\ Len(op'.acts) > 1
        BY <1>0, <2>3, <3>2, CurrentFacts, SeqFacts DEF GoesOn, Enters, OpTypes, Ops
      <4>2. op'.acts[2] = FlushChain[1]
        BY <3>2, <4>1 DEF GoesOn, Behind
      <4>3. QED BY <4>1, <4>2, ChainFacts DEF Restarts
    <3>3. CASE Advances
      <4>1. op'.acts[op'.run] = op.acts[op.run + 1] /\ op.acts[op.run + 1] \in Follows(Current)
        BY <2>3, <3>3, CurrentFacts DEF Advances, OpInv, Grammar, Sound, Current
      <4>2. Current = "_feedhold_with_actions" => op.acts[op.run + 1] \in Restarts
        BY <4>1 DEF Follows, Restarts
      <4>3. Current # "_feedhold_no_actions"
        BY <2>0, <2>3, CurrentFacts
      <4>4. Current # "_feedhold_restart_no_actions"
        BY <2>0, <2>3, RunCases DEF Does, _feedhold_restart_no_actions
      <4>5. Current # "_feedhold_restart_with_actions"
        <5>1. SUFFICES ASSUME Current = "_feedhold_restart_with_actions" PROVE FALSE
          OBVIOUS
        <5>2. _feedhold_restart_with_actions
          BY <2>3, <5>1, RunCases DEF Does
        <5>3. \/ Again(op) \/ Failed \/ hold[1] = "OFF" \/ cm' = 1
          BY <5>2 DEF _feedhold_restart_with_actions, NestedHold
        <5>4. ~ Waits
          BY <2>3, <3>3, CurrentFacts DEF Waits, Advances
        <5>5. ~ Ends
          BY <3>3, NoOperationTypes DEF Ends, Advances
        <5>6. QED BY <2>0, <5>3, <5>4, <5>5, AgainShape, FailedShape DEF Types
      <4>6. QED BY <2>0, <2>3, <4>1, <4>2, <4>3, <4>4, <4>5 DEF Enters, Restarts
    <3>4. QED BY <2>3, <3>1, <3>2, <3>3, DoesShape DEF Types
  <2>4. ~ Begins
    BY <2>0 DEF Begins
  <2>5. CASE Keeps \/ Calls \/ \E l \in ExitLists : Leaves(l)
    BY <2>1, <2>2, <2>5, ChainIsExit DEF Keeps, Calls, Leaves
  <2>6. CASE run_operation /\ op.acts = <<>>
    BY <2>1, <2>6, DoesShape DEF Types
  <2>7. QED BY <2>3, <2>4, <2>5, <2>6, OpCases
<1>3. QED BY <1>1, <1>2 DEF Types, QueueTypes

LEMMA NoEnterInExitStays ==
  ASSUME Types, OpInv, Queues, [Next]_vars PROVE NoEnterInExit'
<1> SUFFICES ASSUME hold'[1] \in Exiting, NEW a \in Enters, a \in ToSet(op'.acts)
             PROVE  FALSE
  BY DEF NoEnterInExit
<1>0. op.acts \in Seq(Actions) /\ ToSet(NoOperation.acts) = {}
  BY NoOperationTypes, EmptySeq DEF Types, OpTypes, Ops, ToSet
<1>1. CASE hold[1] \in Exiting
  <2>1. a \notin ToSet(op.acts)
    BY <1>1 DEF OpInv, NoEnterInExit
  <2>2. op'.acts # op.acts /\ op'.acts # <<>>
    BY <1>0, <2>1, NoOperationTypes
  <2>3. run_operation /\ op.acts # <<>>
    BY <1>1, <2>2, OpCases, DoesShape DEF Keeps, Begins, Calls, Leaves, Exiting, Types
  <2>4. Current = "_feedhold_with_actions"
    BY <2>2, <2>3, DoesShape, NoOperationTypes DEF Types, Ends, Advances, Waits
  <2>5. QED BY <1>1, <2>3, <2>4, CurrentFacts DEF OpInv, NoEnterInExit, Enters
<1>2. CASE hold[1] \notin Exiting
  <2>1. run_operation
    BY <1>2, HoldCases DEF Exiting, Stopping, Decelerating, JobKill, Types, HoldTypes
  <2>2. op.acts # <<>> /\ Current = "_feedhold_restart_with_actions" /\ Waits
    BY <1>2, <2>1, RunHold DEF Exiting, RunsInto
  <2>3. op.acts[1] \notin Enters
    BY <2>2, CurrentFacts DEF Chain, Enters
  <2>4. PICK i \in 1 .. Len(op.acts) : op.acts[i] = a
    BY <1>0, <2>2, SeqFacts DEF Waits, ToSet
  <2>5. QED BY <1>0, <2>3, <2>4, EnterIsFirst DEF OpInv, Grammar
<1>3. QED BY <1>1, <1>2

LEMMA PendingStays ==
  ASSUME Types, OpInv, Queues, [Next]_vars PROVE Pending'
<1> SUFFICES ASSUME cm' = 2, hold'[1] = "HOLD_ACTIONS_PENDING", op'.acts # <<>>
             PROVE  op'.acts[1] = "_feedhold_with_actions" /\ op'.run = 1
  BY DEF Pending
<1>1. CASE cm = 1
  <2>1. op.acts # <<>> /\ Current = "_feedhold_with_actions" /\ Waits
    BY <1>1, P2Steps
  <2>2. QED BY <2>1, CurrentFacts DEF Waits, Enters, Current
<1>2. CASE cm = 2 /\ hold[1] = "HOLD_ACTIONS_PENDING"
  <2>1. op.acts # <<>> => op.acts[1] = "_feedhold_with_actions" /\ op.run = 1
    BY <1>2 DEF OpInv, Pending
  <2>2. CASE Keeps
    BY <2>1, <2>2 DEF Keeps
  <2>3. CASE run_operation
    <3>1. op.acts # <<>> /\ Current = "_feedhold_with_actions"
      BY <2>1, <2>3, DoesShape DEF Types, Current
    <3>2. Waits
      BY <1>2, <2>3, <3>1, RunCases, AgainShape DEF Does, _feedhold_with_actions, Types
    <3>3. QED BY <2>1, <3>1, <3>2 DEF Waits
  <2>4. QED BY <1>2, <2>2, <2>3, OpCases DEF Begins, Calls, Leaves
<1>3. CASE cm = 2 /\ hold[1] # "HOLD_ACTIONS_PENDING"
  <2>1. run_operation
    BY <1>3, HoldCases DEF Exiting, JobKill
  <2>2. op' = NoOperation
    BY <1>3, <2>1, RunHold DEF RunsInto, Ends, OpInv, NotInP2, Exiting
  <2>3. QED BY <2>2, NoOperationTypes
<1>4. QED BY <1>1, <1>2, <1>3 DEF Types, QueueTypes

LEMMA FreshStays ==
  ASSUME Types, OpInv, Queues, [Next]_vars PROVE Fresh'
<1>0. /\ op.acts \in Seq(Actions) /\ op'.acts \in Seq(Actions)
      /\ (op.acts # <<>> <=> Len(op.acts) > 0) /\ (op'.acts # <<>> <=> Len(op'.acts) > 0)
      /\ Len(op.acts) \in Nat /\ Len(op'.acts) \in Nat /\ op'.in_operation \in BOOLEAN
  BY OpTypesStay, SeqFacts DEF Types, OpTypes, Ops
<1>1. CASE run_operation
  <2>1. op'.acts # <<>> <=> op'.in_operation
    <3>1. CASE op.acts = <<>>
      BY <1>1, <3>1, DoesShape DEF Types, OpInv, Fresh
    <3>2. CASE op.acts # <<>>
      <4>1. Ends \/ Advances \/ Waits \/ GoesOn
        BY <1>1, <3>2, DoesShape DEF Types
      <4>2. CASE Ends
        BY <4>2, NoOperationTypes DEF Ends
      <4>3. CASE Advances \/ Waits
        BY <3>2, <4>3 DEF Advances, Waits
      <4>4. CASE GoesOn
        BY <1>0, <4>4 DEF GoesOn
      <4>5. QED BY <4>1, <4>2, <4>3, <4>4
    <3>3. QED BY <3>1, <3>2
  <2>2. QED BY <1>1, <2>1 DEF Fresh
<1>2. CASE ~ run_operation
  <2>1. op'.in_operation => op'.acts # <<>>
    <3>1. CASE Keeps
      BY <3>1 DEF Keeps, OpInv, Fresh
    <3>2. CASE Begins \/ \E l \in ExitLists : Leaves(l)
      BY <3>2 DEF Begins, Leaves
    <3>3. CASE Calls
      BY <1>0, <3>3 DEF Calls, Behind, OpInv, Fresh
    <3>4. QED BY <1>2, <3>1, <3>2, <3>3, OpCases
  <2>2. at' = "input" /\ cm' = 1 /\ op'.acts # <<>> => op'.in_operation
    <3>1. CASE Keeps
      BY <3>1 DEF Keeps, OpInv, Fresh
    <3>2. CASE Begins \/ Calls \/ \E l \in ExitLists : Leaves(l)
      BY <3>2 DEF Begins, Leaves, Calls
    <3>3. QED BY <1>2, <3>1, <3>2, OpCases
  <2>3. SUFFICES ASSUME at' \in {"input", "planner", "job kill"}, hold'[1] = "OFF", op'.acts # <<>>
                 PROVE  op'.in_operation
    BY <2>1, <2>2 DEF Fresh
  <2>4. CASE hold[1] = "OFF"
    <3>1. Keeps
      BY <1>2, <2>3, <2>4, OpCases DEF Begins, Leaves, Calls
    <3>2. QED BY <2>3, <2>4, <3>1 DEF Keeps, OpInv, Fresh
  <2>5. CASE hold[1] # "OFF"
    <3>1. Input /\ cm = 1 /\ op' = op
      BY <1>2, <2>3, <2>5, HoldCases DEF Stopping, Decelerating, _start_job_kill
    <3>2. QED BY <2>3, <3>1 DEF Input, OpInv, Fresh
  <2>6. QED BY <2>4, <2>5
<1>3. QED BY <1>1, <1>2

LEMMA IdleStays ==
  ASSUME Types, OpInv, Queues, [Next]_vars PROVE Idle'
<1>0. /\ op.acts \in Seq(Actions) /\ op'.acts \in Seq(Actions) /\ Len(op.acts) <= ACTION_MAX
      /\ Sound(op.acts)
  BY OpTypesStay DEF Types, OpTypes, Ops, OpInv, Grammar, Index
<1> SUFFICES ASSUME ~ op'.in_operation, at' # "operation", op'.acts # <<>>
             PROVE  \/ op'.acts[1] \in Restarts /\ Ended(op'.acts)
                    \/ /\ op'.acts[1] \in Enters /\ cm' = 1
                       /\ hold'[1] \in {"OFF", "MOTION_STOPPED"} \cup Stopping
  BY DEF Idle
<1>1. ~ run_operation \/ op.acts = <<>>
  BY DoesShape, NoOperationTypes DEF Types, Ends, Advances, Waits, GoesOn
<1>2. ~ run_operation
  BY <1>1, DoesShape DEF Types
<1>3. ASSUME Behind(op.acts, FlushChain, op'.acts),
             op.acts = <<>> \/ (op.acts[1] \in Restarts /\ Ended(op.acts))
      PROVE  op'.acts[1] \in Restarts /\ Ended(op'.acts)
  <2>1. CASE op.acts = <<>>
    <3>1. /\ Len(op'.acts) = 3 /\ op'.acts[1] = FlushChain[1] /\ op'.acts[3] = FlushChain[3]
      <4>1. Len(FlushChain) \in 1 .. 3 /\ Sound(FlushChain) /\ FlushChain \in Seq(Actions)
        BY ChainFacts, ChainIsExit, ExitListFacts
      <4>2. QED BY <1>0, <1>3, <2>1, <4>1, SoundFirst, ChainFacts
    <3>2. QED BY <3>1, ChainFacts DEF Ended, Restarts
  <2>2. CASE op.acts # <<>>
    BY <1>0, <1>3, <2>2, SoundGrows, ChainIsExit
  <2>3. QED BY <2>1, <2>2
<1>4. CASE Begins
  <2>1. cm' = 1 /\ hold'[1] \in {"OFF", "SYNC"}
    BY <1>4 DEF Begins, Types, QueueTypes, OpInv, NotInP2, Exiting
  <2>2. op'.acts[1] \in Enters
    <3>1. PICK l \in FirstLists : Behind(<<>>, l, op'.acts)
      BY <1>4 DEF Begins
    <3>2. l \in Seq(Actions) /\ Len(l) \in 1 .. 2 /\ Sound(l) /\ l[1] \in Enters
      BY FirstListFacts
    <3>3. Len(l) \in 1 .. 3 /\ 1 \in 1 .. Len(l)
      BY <3>2
    <3>4. QED BY <1>0, <3>1, <3>2, <3>3, SoundFirst
  <2>3. QED BY <2>1, <2>2 DEF Stopping, Decelerating
<1>5. ASSUME NEW l \in ExitLists, Leaves(l)
      PROVE  op'.acts[1] \in Restarts /\ Ended(op'.acts)
  BY <1>3, <1>5 DEF Leaves, OpInv, Idle, Stopping, Decelerating
<1>6. CASE Calls
  BY <1>3, <1>6 DEF Calls, OpInv, Idle, Pending, Enters, Restarts
<1>7. CASE Keeps
  <2>1. \/ op'.acts[1] \in Restarts /\ Ended(op'.acts)
        \/ /\ op'.acts[1] \in Enters /\ cm = 1
           /\ hold[1] \in {"OFF", "MOTION_STOPPED"} \cup Stopping
    BY <1>7 DEF Keeps, OpInv, Idle
  <2>2. CASE cm = 1 /\ hold[1] \in {"OFF", "MOTION_STOPPED"} \cup Stopping /\ op'.acts[1] \in Enters
    <3>1. cm' = 1
      BY <2>2, P2Steps, QueueTypesStay DEF Types, QueueTypes, Waits
    <3>2. hold'[1] \in {"OFF", "MOTION_STOPPED"} \cup Stopping
      <4>1. CASE _start_job_kill /\ JobKill("END")
        BY <4>1 DEF JobKill, Types, HoldTypes
      <4>2. QED BY <1>2, <2>2, <4>1, HoldCases DEF Stopping, Decelerating
    <3>3. QED BY <2>2, <3>1, <3>2
  <2>3. QED BY <2>1, <2>2
<1>8. QED BY <1>2, <1>4, <1>5, <1>6, <1>7, OpCases

LEMMA OpInvStays ==
  ASSUME Types, OpInv, Queues, [Next]_vars PROVE OpInv'
BY GrammarStays, InP1Stays, NotInP2Stays, IdleStays, FreshStays, PendingStays,
   NoEnterInExitStays DEF OpInv
---------------------------------------------------------------------------
(* The two queues *)

LEMMA ToSetFacts ==
  ASSUME NEW S, NEW s \in Seq(S)
  PROVE  /\ s = <<>> => ToSet(s) = {}
         /\ s # <<>> => ToSet(Tail(s)) \subseteq ToSet(s)
         /\ \A r \in Seq(S) : ToSet(s \o r) \subseteq ToSet(s) \cup ToSet(r)
         /\ \A a \in S : ToSet(Append(s, a)) \subseteq ToSet(s) \cup {a}
<1>1. s = <<>> => ToSet(s) = {}
  BY EmptySeq DEF ToSet
<1>2. s # <<>> => ToSet(Tail(s)) \subseteq ToSet(s)
  <2>1. SUFFICES ASSUME s # <<>>, NEW i \in DOMAIN Tail(s) PROVE Tail(s)[i] \in ToSet(s)
    BY DEF ToSet
  <2>2. /\ Tail(s) \in Seq(S) /\ Len(Tail(s)) = Len(s) - 1 /\ Len(s) \in Nat
        /\ \A k \in 1 .. Len(s) - 1 : Tail(s)[k] = s[k + 1]
    BY <2>1, TailFacts, SeqFacts
  <2> DEFINE rest == Tail(s)
  <2>3. rest \in Seq(S) /\ i \in DOMAIN rest
    BY <2>1, <2>2
  <2> HIDE DEF rest
  <2>4. i \in 1 .. Len(rest)
    BY <2>3, SeqFacts
  <2>5. i \in 1 .. Len(s) - 1 /\ i + 1 \in 1 .. Len(s)
    BY <2>2, <2>4 DEF rest
  <2>6. i + 1 \in DOMAIN s
    BY <2>5, SeqFacts
  <2>7. Tail(s)[i] = s[i + 1]
    BY <2>2, <2>5
  <2>8. QED BY <2>6, <2>7 DEF ToSet
<1>3. ASSUME NEW r \in Seq(S), NEW a \in ToSet(s \o r) PROVE a \in ToSet(s) \cup ToSet(r)
  <2> DEFINE all == s \o r
  <2>1. /\ all \in Seq(S) /\ Len(all) = Len(s) + Len(r) /\ Len(s) \in Nat /\ Len(r) \in Nat
        /\ \A k \in 1 .. Len(s) : all[k] = s[k]
        /\ \A k \in Len(s) + 1 .. Len(s) + Len(r) : all[k] = r[k - Len(s)]
    BY ConcatProperties, SeqFacts
  <2>2. a \in ToSet(all)
    BY <1>3
  <2> HIDE DEF all
  <2>3. PICK k \in 1 .. Len(all) : all[k] = a
    BY <2>1, <2>2, SeqFacts DEF ToSet
  <2>4. CASE k <= Len(s)
    BY <2>1, <2>3, <2>4, SeqFacts DEF ToSet
  <2>5. CASE k > Len(s)
    <3>1. k - Len(s) \in 1 .. Len(r) /\ r[k - Len(s)] = a
      BY <2>1, <2>3, <2>5
    <3>2. k - Len(s) \in DOMAIN r
      BY <3>1, SeqFacts
    <3>3. QED BY <3>1, <3>2 DEF ToSet
  <2>6. QED BY <2>1, <2>3, <2>4, <2>5
<1>4. ASSUME NEW b \in S, NEW a \in ToSet(Append(s, b)) PROVE a \in ToSet(s) \cup {b}
  <2> DEFINE all == Append(s, b)
  <2>1. /\ all \in Seq(S) /\ Len(all) = Len(s) + 1 /\ Len(s) \in Nat
        /\ \A k \in 1 .. Len(s) : all[k] = s[k]
        /\ all[Len(s) + 1] = b
    BY AppendProperties, SeqFacts
  <2>2. a \in ToSet(all)
    BY <1>4
  <2> HIDE DEF all
  <2>3. PICK k \in 1 .. Len(all) : all[k] = a
    BY <2>1, <2>2, SeqFacts DEF ToSet
  <2>4. CASE k <= Len(s)
    BY <2>1, <2>3, <2>4, SeqFacts DEF ToSet
  <2>5. CASE k = Len(s) + 1
    BY <2>1, <2>3, <2>5
  <2>6. QED BY <2>1, <2>3, <2>4, <2>5
<1>5. QED BY <1>1, <1>2, <1>3, <1>4

LEMMA SingleSet == ASSUME NEW a PROVE ToSet(<<a>>) = {a}
<1>1. DOMAIN <<a>> = {1} /\ <<a>>[1] = a
  OBVIOUS
<1>2. QED BY <1>1 DEF ToSet

\* The moves and commands of an entry, of a nested one and of an exit
NestedMoves == {(IF lift THEN <<"move">> ELSE <<>>) \o <<"hold done">> : lift \in BOOLEAN}
EntersWith(s) == \A i \in 1 .. Len(s) : /\ s[i] # "restart done"
                                        /\ s[i] = "hold done" => i = Len(s)

LEMMA EntryFacts ==
  ASSUME NEW moves \in EntryMoves \cup NestedMoves
  PROVE  moves \in Seq(Blocks) /\ EntersWith(moves)
<1>1. moves \in Seq(Blocks)
  BY MovesTypes DEF NestedMoves
<1>2. ASSUME NEW s \in Seq(Blocks), ToSet(s) \subseteq {"move", "command"}
      PROVE  EntersWith(s \o <<"hold done">>)
  <2> DEFINE last == <<"hold done">>
  <2>1. last \in Seq(Blocks) /\ Len(last) = 1 /\ last[1] = "hold done"
    BY BlocksFacts, Singles
  <2> HIDE DEF last
  <2> DEFINE all == s \o last
  <2>2. /\ Len(all) = Len(s) + Len(last) /\ Len(s) \in Nat
        /\ \A k \in 1 .. Len(s) : all[k] = s[k]
        /\ \A k \in Len(s) + 1 .. Len(s) + Len(last) : all[k] = last[k - Len(s)]
    <3>1. last \in Seq(Blocks)
      BY <2>1
    <3>2. QED BY <3>1, ConcatProperties, SeqFacts
  <2>4. \A k \in 1 .. Len(s) : s[k] \in {"move", "command"}
    BY <1>2, SeqFacts DEF ToSet
  <2> HIDE DEF all
  <2>5. all[Len(s) + 1] = "hold done"
    <3>1. all[Len(s) + 1] = last[(Len(s) + 1) - Len(s)]
      <4>1. Len(s) + 1 \in Len(s) + 1 .. Len(s) + Len(last)
        <5>1. Len(last) = 1 /\ Len(s) \in Nat
          BY <2>1, <2>2
        <5>2. QED BY <5>1
      <4>2. QED BY <2>2, <4>1
    <3>2. (Len(s) + 1) - Len(s) = 1
      BY <2>2
    <3>3. QED BY <2>1, <3>1, <3>2
  <2>6. EntersWith(all)
    <3>1. Len(all) = Len(s) + 1 /\ Len(s) \in Nat
      BY <2>1, <2>2
    <3>2. ASSUME NEW i \in 1 .. Len(all)
          PROVE  all[i] # "restart done" /\ (all[i] = "hold done" => i = Len(all))
      <4>1. CASE i \in 1 .. Len(s)
        BY <2>2, <2>4, <4>1
      <4>2. CASE i = Len(s) + 1
        BY <2>5, <3>1, <4>2
      <4>3. i \in 1 .. Len(s) \/ i = Len(s) + 1
        BY <3>1
      <4>4. QED BY <4>1, <4>2, <4>3
    <3>3. QED BY <3>2 DEF EntersWith
  <2>7. QED BY <2>6 DEF all, last
<1>3. /\ <<"move">> \in Seq(Blocks) /\ <<"command">> \in Seq(Blocks) /\ <<>> \in Seq(Blocks)
      /\ ToSet(<<"move">>) = {"move"} /\ ToSet(<<"command">>) = {"command"} /\ ToSet(<<>>) = {}
  BY BlocksFacts, SingleSet, ToSetFacts
<1>4. ASSUME NEW lift \in {<<"move">>, <<>>}, NEW pause \in {<<"command">>, <<>>}
      PROVE  /\ EntersWith(lift \o <<"hold done">>) /\ EntersWith((lift \o pause) \o <<"hold done">>)
  <2>1. lift \in Seq(Blocks) /\ pause \in Seq(Blocks) /\ ToSet(lift) \subseteq {"move", "command"}
        /\ ToSet(pause) \subseteq {"move", "command"}
    BY <1>3
  <2>2. lift \o pause \in Seq(Blocks) /\ ToSet(lift \o pause) \subseteq {"move", "command"}
    BY <2>1, ConcatTypes, ToSetFacts
  <2>3. QED BY <1>2, <2>1, <2>2
<1>5. CASE moves \in NestedMoves
  <2>1. PICK lift \in {<<"move">>, <<>>} : moves = lift \o <<"hold done">>
    BY <1>5 DEF NestedMoves
  <2>2. QED BY <1>1, <1>4, <2>1
<1>6. CASE moves \in EntryMoves
  <2>1. PICK lift \in {<<"move">>, <<>>}, pause \in {<<"command">>, <<>>} :
          moves = (lift \o pause) \o <<"hold done">>
    BY <1>6 DEF EntryMoves
  <2>2. QED BY <1>1, <1>4, <2>1
<1>7. QED BY <1>1, <1>5, <1>6

LEMMA ExitFacts ==
  ASSUME NEW moves \in ExitMoves
  PROVE  moves \in Seq(Blocks) /\ "hold done" \notin ToSet(moves)
<1>1. moves \in Seq(Blocks)
  BY MovesTypes
<1>2. PICK plunge \in {<<"move">>, <<>>} : moves = (<<"command">> \o plunge) \o <<"restart done">>
  BY DEF ExitMoves
<1>3. /\ <<"command">> \in Seq(Blocks) /\ plunge \in Seq(Blocks) /\ <<"restart done">> \in Seq(Blocks)
  BY BlocksFacts
<1>4. "hold done" \notin ToSet(<<"command">>) /\ "hold done" \notin ToSet(plunge)
      /\ "hold done" \notin ToSet(<<"restart done">>)
  <2>1. ToSet(<<"command">>) = {"command"} /\ ToSet(<<"restart done">>) = {"restart done"}
        /\ ToSet(<<"move">>) = {"move"} /\ ToSet(<<>>) = {}
    BY SingleSet, BlocksFacts, ToSetFacts
  <2>2. ToSet(plunge) \subseteq {"move"}
    <3>1. CASE plunge = <<"move">>
      BY <2>1, <3>1
    <3>2. CASE plunge = <<>>
      BY <2>1, <3>2
    <3>3. QED BY <3>1, <3>2
  <2>3. QED BY <2>1, <2>2
<1>5. <<"command">> \o plunge \in Seq(Blocks) /\ "hold done" \notin ToSet(<<"command">> \o plunge)
  BY <1>3, <1>4, ConcatTypes, ToSetFacts
<1> DEFINE front == <<"command">> \o plunge
           last == <<"restart done">>
<1>6. /\ front \in Seq(Blocks) /\ last \in Seq(Blocks) /\ moves = front \o last
      /\ "hold done" \notin ToSet(front) /\ "hold done" \notin ToSet(last)
  BY <1>2, <1>3, <1>4, <1>5
<1> HIDE DEF front, last
<1>7. QED BY <1>1, <1>6, ToSetFacts

\* What a step makes of the queue of planner 1, and of that of planner 2 while
\* it is current
LEMMA JobQueueCases ==
  ASSUME Types, OpInv, Queues, [Next]_vars
  PROVE  \/ q'[1] = q[1] \/ q'[1] = <<>> \/ q'[1] = <<"command">>
         \/ Line /\ \E block \in {"move", "command"} : q'[1] = Append(q[1], block)
         \/ cm = 1 /\ q[1] # <<>> /\ q'[1] = Tail(q[1])
<1>0. q \in [1 .. 2 -> Seq(Blocks)] /\ cm \in {1, 2}
  BY DEF Types, QueueTypes
<1>1. CASE q' = q \/ q' = [q EXCEPT ![1] = <<"command">>] \/ q' = [q EXCEPT ![cm] = <<>>]
  BY <1>0, <1>1
<1>2. ASSUME Line, NEW block \in {"move", "command"}, Appends(block)
      PROVE  q'[1] = Append(q[1], block)
  <2>1. cm = 1
    BY <1>0, <1>2 DEF Line, OpInv, NotInP2, Exiting
  <2>2. QED BY <1>0, <1>2, <2>1 DEF Appends
<1>3. ASSUME NEW blocks, Refills(blocks) PROVE q'[1] = q[1]
  BY <1>0, <1>3 DEF Refills
<1>4. CASE Frees
  BY <1>0, <1>4 DEF Frees
<1>5. CASE HoldDone
  <2>1. cm = 2
    BY <1>5, Callers DEF HoldDone, HeadIs, OpInv
  <2> DEFINE rest == Tail(q[cm]) \o (IF CoolantPauses THEN <<"command">> ELSE <<>>)
  <2>2. q' = [q EXCEPT ![cm] = rest]
    BY <1>5 DEF HoldDone
  <2> HIDE DEF rest
  <2>3. QED BY <1>0, <2>1, <2>2
<1>6. QED BY <1>1, <1>2, <1>3, <1>4, <1>5, QueueCases DEF Types
LEMMA P2QueueCases ==
  ASSUME Types, OpInv, Queues, [Next]_vars, cm' = 2
  PROVE  \/ cm = 2 /\ q'[2] = q[2] /\ hold'[1] = hold[1]
         \/ /\ cm = 2 /\ q[2] # <<>> /\ q'[2] = Tail(q[2])
            /\ \/ hold'[1] = hold[1]
               \/ hold[1] \in Exiting /\ hold'[1] \in Exiting
         \/ /\ cm = 2 /\ hold[1] = "HOLD_ACTIONS_PENDING" /\ hold'[1] = "HOLD"
            /\ q[2] # <<>> /\ Head(q[2]) = "hold done"
            /\ \E pause \in {<<"command">>, <<>>} : q'[2] = Tail(q[2]) \o pause
         \/ /\ hold'[1] = "HOLD_ACTIONS_PENDING"
            /\ \E moves \in EntryMoves \cup NestedMoves : q'[2] = <<>> \o moves
         \/ /\ cm = 2 /\ hold[1] = "HOLD" /\ hold'[1] = "EXIT_ACTIONS_PENDING"
            /\ \E moves \in ExitMoves : q'[2] = q[2] \o moves
<1>0. q \in [1 .. 2 -> Seq(Blocks)] /\ cm \in {1, 2} /\ hold \in [1 .. 2 -> HoldStates]
  BY DEF Types, QueueTypes, HoldTypes
<1>1. CASE Input \/ mp_planner_callback \/ _start_job_kill \/ _start_queue_flush
           \/ _start_cycle_restart \/ SegmentEnds \/ UNCHANGED vars
  <2>1. cm = 2
    BY <1>1, P2Steps DEF Waits, Input, mp_planner_callback, _start_job_kill,
       _start_queue_flush, _start_cycle_restart, SegmentEnds, vars, JobKill, planners
  <2>2. q' = q
    <3>1. CASE Input
      BY <2>1, <3>1 DEF Input, Key, Bang, cm_alarm, cm_request_cycle_start, planners,
         cm_request_queue_flush, cm_request_job_kill, Line, Nothing, OpInv, NotInP2, Exiting
    <3>2. CASE _start_job_kill
      <4>1. cm' = 1 \/ q' = q
        BY <3>2 DEF _start_job_kill, JobKill, planners
      <4>2. QED BY <4>1
    <3>3. QED
      BY <1>1, <3>1, <3>2 DEF mp_planner_callback, _start_queue_flush, _start_cycle_restart,
         SegmentEnds, vars, planners
  <2>3. hold'[1] = hold[1]
    <3>0. hold[1] # "OFF" /\ cm = 2
      BY <2>1 DEF OpInv, NotInP2, Exiting
    <3>1. CASE Input
      BY <1>0, <3>0, <3>1 DEF Input, Key, Bang, cm_alarm, cm_request_feedhold,
         cm_request_cycle_start, cm_request_queue_flush, cm_request_job_kill, Line, Nothing, holds
    <3>2. CASE mp_planner_callback
      <4>1. hold' = hold \/ hold' = [hold EXCEPT ![2] = "MOTION_STOPPED"]
        BY <3>0, <3>2 DEF mp_planner_callback
      <4>2. QED BY <1>0, <4>1
    <3>3. CASE _start_job_kill
      <4>1. cm' = 1 \/ hold' = hold
        BY <3>3 DEF _start_job_kill, JobKill
      <4>2. QED BY <4>1
    <3>4. QED
      BY <1>1, <3>1, <3>2, <3>3 DEF _start_queue_flush, _start_cycle_restart, SegmentEnds,
         vars, holds
  <2>4. QED BY <2>1, <2>2, <2>3
<1>2. CASE run_operation
  <2>0. cm = 2 => hold[1] # "OFF" /\ hold[1] # "MOTION_STOPPED"
    BY DEF OpInv, NotInP2, Exiting
  <2>1. CASE cm = 1
    <3>1. op.acts # <<>> /\ Current = "_feedhold_with_actions" /\ hold'[1] = "HOLD_ACTIONS_PENDING"
      BY <2>1, P2Steps
    <3>2. _feedhold_with_actions
      BY <1>2, <3>1, RunCases DEF Does
    <3>3. \E moves \in EntryMoves : QueueInP2(<<>>, moves, machine[1], cycling[1])
      BY <2>1, <3>2 DEF _feedhold_with_actions, planners
    <3>4. PICK moves \in EntryMoves : q' = [q EXCEPT ![2] = <<>> \o moves]
      BY <3>3 DEF QueueInP2
    <3>5. q'[2] = <<>> \o moves
      <4> DEFINE all == <<>> \o moves
      <4>1. q' = [q EXCEPT ![2] = all]
        BY <3>4
      <4> HIDE DEF all
      <4>2. q'[2] = all
        BY <1>0, <4>1
      <4>3. QED BY <4>2 DEF all
    <3>6. QED BY <3>1, <3>5
  <2>2. CASE cm = 2 /\ q' = q /\ hold'[1] = hold[1]
    BY <2>2
  <2>3. CASE cm = 2 /\ Does("_feedhold_with_actions", _feedhold_with_actions)
    <3>1. q' = q
      BY <2>0, <2>3 DEF Does, _feedhold_with_actions, planners
    <3>2. hold'[1] = hold[1]
      BY <1>0, <2>0, <2>3 DEF Does, _feedhold_with_actions, FinishHold
    <3>3. QED BY <2>3, <3>1, <3>2
  <2>4. CASE cm = 2 /\ Does("_feedhold_restart_with_actions", _feedhold_restart_with_actions)
    <3>1. CASE hold[1] = "HOLD"
      <4>1. /\ hold' = [hold EXCEPT ![1] = "EXIT_ACTIONS_PENDING"]
            /\ \E moves \in ExitMoves : q' = [q EXCEPT ![2] = q[2] \o moves]
        BY <2>4, <3>1 DEF Does, _feedhold_restart_with_actions, QueueInP2
      <4>2. PICK moves \in ExitMoves : q' = [q EXCEPT ![2] = q[2] \o moves]
        BY <4>1
      <4> DEFINE all == q[2] \o moves
      <4>3. q' = [q EXCEPT ![2] = all]
        BY <4>2
      <4> HIDE DEF all
      <4>4. q'[2] = all /\ hold'[1] = "EXIT_ACTIONS_PENDING"
        BY <1>0, <4>1, <4>3
      <4>5. q'[2] = q[2] \o moves
        BY <4>4 DEF all
      <4>6. QED BY <2>4, <3>1, <4>4, <4>5
    <3>2. CASE hold[1] = "EXIT_ACTIONS_PENDING" /\ NestedHold
      <4>1. /\ hold' = [hold EXCEPT ![1] = "HOLD_ACTIONS_PENDING", ![2] = "OFF"]
            /\ \E moves \in NestedMoves : q' = [q EXCEPT ![2] = <<>> \o moves]
        BY <3>2 DEF NestedHold, QueueInP2, NestedMoves
      <4>2. PICK moves \in NestedMoves : q' = [q EXCEPT ![2] = <<>> \o moves]
        BY <4>1
      <4> DEFINE all == <<>> \o moves
      <4>3. q' = [q EXCEPT ![2] = all]
        BY <4>2
      <4> HIDE DEF all
      <4>4. q'[2] = all
        BY <1>0, <4>3
      <4>5. q'[2] = <<>> \o moves
        BY <4>4 DEF all
      <4>6. hold' = [hold EXCEPT ![1] = "HOLD_ACTIONS_PENDING", ![2] = "OFF"]
        BY <4>1
      <4>7. hold'[1] = "HOLD_ACTIONS_PENDING"
        BY <1>0, <4>6
      <4>8. QED BY <4>5, <4>7
    <3>3. CASE hold[1] # "HOLD" /\ ~ (hold[1] = "EXIT_ACTIONS_PENDING" /\ NestedHold)
      <4>1. q' = q /\ hold' = hold
        BY <2>0, <2>4, <3>3 DEF Does, _feedhold_restart_with_actions, planners
      <4>2. QED BY <2>4, <4>1
    <3>4. QED BY <3>1, <3>2, <3>3
  <2>5. CASE cm = 2 /\ Does("_feedhold_restart_no_actions", _feedhold_restart_no_actions)
    <3>1. cm' = 1
      BY <2>0, <2>5 DEF Does, _feedhold_restart_no_actions
    <3>2. FALSE
      BY <3>1
    <3>3. QED BY <3>2
  <2>6. CASE cm = 2 /\ Does("_feedhold_no_actions", _feedhold_no_actions)
    BY <2>6, CurrentFacts DEF Does, OpInv, NotInP2
  <2>7. CASE /\ cm = 2
             /\ \/ Does("_run_restart_cycle", _run_restart_cycle)
                \/ Does("_run_queue_flush", _run_queue_flush)
                \/ Does("_run_program_stop", _run_program_stop)
                \/ Does("_run_alarm", _run_alarm)
    <3>1. /\ op.acts # <<>> /\ cm = 2
          /\ Current \in {"_run_restart_cycle", "_run_queue_flush", "_run_program_stop", "_run_alarm"}
      BY <2>7 DEF Does
    <3>2. FALSE
      BY <3>1 DEF OpInv, InP1, Enters, Restarts
    <3>3. QED BY <3>2
  <2>8. CASE cm = 2 /\ op.acts = <<>> /\ Nothing
    BY <2>8 DEF Nothing, planners, holds
  <2>9. QED
    BY <1>0, <1>2, <2>1, <2>3, <2>4, <2>5, <2>6, <2>7, <2>8, RunCases
<1>3. CASE Exec
  <2>1. cm = 2
    BY <1>3 DEF Exec
  <2>2. q' = q \/ (q[2] # <<>> /\ q' = [q EXCEPT ![2] = Tail(q[2])])
    BY <1>3, <2>1 DEF Exec, mp_exec_aline, ExecMotionStopped, ExecDecelComplete, ExecSegment,
       ExecCommand, ExecNothing, HeadIs
  <2>3. hold' = hold \/ \E state : hold' = [hold EXCEPT ![2] = state]
    BY <1>3, <2>1 DEF Exec, mp_exec_aline, ExecMotionStopped, ExecDecelComplete,
       ExecSegment, ExecCommand, ExecNothing
  <2>4. hold'[1] = hold[1]
    BY <1>0, <2>3
  <2> DEFINE rest == Tail(q[2])
  <2>5. q' = q \/ (q[2] # <<>> /\ q' = [q EXCEPT ![2] = rest])
    BY <2>2
  <2> HIDE DEF rest
  <2>6. q'[2] = q[2] \/ (q[2] # <<>> /\ q'[2] = rest)
    BY <1>0, <2>5
  <2>7. QED BY <2>1, <2>4, <2>6 DEF rest
<1>4. CASE Load
  <2>1. cm = 2
    BY <1>4 DEF Load
  <2> DEFINE rest == Tail(q[2])
  <2>2. ASSUME FreeCommand(<<>>), q[2] # <<>>
        PROVE  q'[2] = rest
    <3>1. rest \in Seq(Blocks)
      BY <1>0, <2>2, TailFacts
    <3>2. q' = [q EXCEPT ![2] = rest \o <<>>]
      BY <2>1, <2>2 DEF FreeCommand
    <3> HIDE DEF rest
    <3>3. q' = [q EXCEPT ![2] = rest]
      BY <3>1, <3>2, ConcatEmptySeq
    <3>4. QED BY <1>0, <3>3
  <2>3. CASE _feedhold_actions_done_callback
    <3>1. hold' = [hold EXCEPT ![1] = "HOLD", ![2] = "OFF"]
      BY <2>3 DEF _feedhold_actions_done_callback
    <3>2. hold'[1] = "HOLD"
      BY <1>0, <3>1
    <3>3. hold[1] = "HOLD_ACTIONS_PENDING" /\ q[2] # <<>> /\ Head(q[2]) = "hold done"
      BY <2>1, <2>3, Callers DEF _feedhold_actions_done_callback, HeadIs, OpInv
    <3> DEFINE pause == IF CoolantPauses THEN <<"command">> ELSE <<>>
               all == rest \o pause
    <3>4. pause \in {<<"command">>, <<>>}
      OBVIOUS
    <3>5. q' = [q EXCEPT ![2] = all]
      BY <2>1, <2>3 DEF _feedhold_actions_done_callback, FreeCommand
    <3> HIDE DEF all
    <3>6. q'[2] = all
      BY <1>0, <3>5
    <3> HIDE DEF pause
    <3>7. QED BY <2>1, <3>2, <3>3, <3>4, <3>6 DEF all
  <2>4. CASE _feedhold_restart_actions_done_callback
    <3>1. hold' = [hold EXCEPT ![1] = "EXIT_ACTIONS_COMPLETE"]
      BY <2>4 DEF _feedhold_restart_actions_done_callback
    <3>2. hold'[1] = "EXIT_ACTIONS_COMPLETE"
      BY <1>0, <3>1
    <3>3. hold[1] \in Exiting /\ q[2] # <<>>
      BY <2>1, <2>4, Callers DEF _feedhold_restart_actions_done_callback, HeadIs, OpInv
    <3>4. q'[2] = rest
      BY <2>2, <2>4, <3>3 DEF _feedhold_restart_actions_done_callback
    <3>5. QED BY <2>1, <3>2, <3>3, <3>4 DEF Exiting
  <2>5. CASE OtherCommand
    <3>1. q[2] # <<>> /\ q'[2] = rest /\ hold' = hold
      BY <2>1, <2>2, <2>5 DEF OtherCommand, HeadIs
    <3>2. QED BY <2>1, <3>1
  <2>6. CASE UNCHANGED <<hold, q>>
    BY <2>1, <2>6
  <2>7. QED BY <1>4, <2>3, <2>4, <2>5, <2>6 DEF Load
<1>5. QED BY <1>1, <1>2, <1>3, <1>4 DEF Next, Main
LEMMA QueuesStay ==
  ASSUME Types, OpInv, Queues, [Next]_vars PROVE Queues'
<1>0. q[1] \in Seq(Blocks) /\ q[2] \in Seq(Blocks)
      /\ q'[1] \in Seq(Blocks) /\ q'[2] \in Seq(Blocks)
  BY QueueTypesStay DEF Types, QueueTypes
<1>1. ToSet(q'[1]) \subseteq {"move", "command"}
  <2>0. ToSet(q[1]) \subseteq {"move", "command"}
    BY DEF Queues
  <2>1. CASE q'[1] = q[1] \/ q'[1] = <<>> \/ q'[1] = <<"command">>
    <3>1. ToSet(<<"command">>) = {"command"} /\ ToSet(<<>>) = {}
      BY SingleSet, ToSetFacts, BlocksFacts
    <3>2. QED BY <2>0, <2>1, <3>1
  <2>2. ASSUME NEW block \in {"move", "command"}, q'[1] = Append(q[1], block)
        PROVE  ToSet(q'[1]) \subseteq {"move", "command"}
    <3>1. block \in Blocks
      BY DEF Blocks
    <3>2. QED BY <1>0, <2>0, <2>2, <3>1, ToSetFacts
  <2>3. CASE q[1] # <<>> /\ q'[1] = Tail(q[1])
    BY <1>0, <2>0, <2>3, ToSetFacts
  <2>4. QED BY <2>1, <2>2, <2>3, JobQueueCases
<1>2. SUFFICES ASSUME cm' = 2
      PROVE  /\ hold'[1] = "HOLD_ACTIONS_PENDING" => EntersWith(q'[2])
             /\ hold'[1] = "HOLD" => ToSet(q'[2]) \subseteq {"command"}
             /\ hold'[1] \in Exiting => "hold done" \notin ToSet(q'[2])
  <2>1. DOMAIN q'[2] = 1 .. Len(q'[2])
    BY <1>0, SeqFacts
  <2>2. EntersWith(q'[2]) =>
          \A i \in DOMAIN q'[2] : /\ q'[2][i] # "restart done"
                                  /\ q'[2][i] = "hold done" => i = Len(q'[2])
    BY <2>1 DEF EntersWith
  <2>3. cm' = 2 /\ hold'[1] = "HOLD_ACTIONS_PENDING" =>
          \A i \in DOMAIN q'[2] : /\ q'[2][i] # "restart done"
                                  /\ q'[2][i] = "hold done" => i = Len(q'[2])
    BY <2>2
  <2>4. cm' = 2 /\ hold'[1] = "HOLD" => ToSet(q'[2]) \subseteq {"command"}
    OBVIOUS
  <2>5. cm' = 2 /\ hold'[1] \in Exiting => "hold done" \notin ToSet(q'[2])
    OBVIOUS
  <2>6. QED BY <1>1, <2>3, <2>4, <2>5 DEF Queues
<1> DEFINE s == q[2]
           r == q'[2]
<1>3. cm = 2 => /\ hold[1] = "HOLD_ACTIONS_PENDING" => EntersWith(q[2])
                /\ hold[1] = "HOLD" => ToSet(q[2]) \subseteq {"command"}
                /\ hold[1] \in Exiting => "hold done" \notin ToSet(q[2])
  BY <1>0, SeqFacts DEF Queues, EntersWith
<1>4. CASE cm = 2 /\ q'[2] = q[2] /\ hold'[1] = hold[1]
  BY <1>3, <1>4
<1>5. CASE /\ cm = 2 /\ q[2] # <<>> /\ q'[2] = Tail(q[2])
           /\ \/ hold'[1] = hold[1]
              \/ hold[1] \in Exiting /\ hold'[1] \in Exiting
  <2>1. ToSet(q'[2]) \subseteq ToSet(q[2])
    BY <1>0, <1>5, ToSetFacts
  <2>2. EntersWith(q[2]) => EntersWith(q'[2])
    <3>1. /\ Len(q'[2]) = Len(q[2]) - 1 /\ Len(q[2]) \in Nat
          /\ \A k \in 1 .. Len(q[2]) - 1 : q'[2][k] = q[2][k + 1]
      BY <1>0, <1>5, TailFacts, SeqFacts
    <3>2. /\ Len(r) = Len(s) - 1 /\ Len(s) \in Nat
          /\ \A k \in 1 .. Len(s) - 1 : r[k] = s[k + 1]
      BY <3>1
    <3> HIDE DEF s, r
    <3>3. EntersWith(s) => EntersWith(r)
      <4>1. SUFFICES ASSUME EntersWith(s), NEW i \in 1 .. Len(r)
                     PROVE  r[i] # "restart done" /\ (r[i] = "hold done" => i = Len(r))
        BY DEF EntersWith
      <4>2. i + 1 \in 1 .. Len(s) /\ r[i] = s[i + 1]
        BY <3>2
      <4>3. s[i + 1] # "restart done" /\ (s[i + 1] = "hold done" => i + 1 = Len(s))
        <5>1. \A k \in 1 .. Len(s) : s[k] # "restart done" /\ (s[k] = "hold done" => k = Len(s))
          BY <4>1 DEF EntersWith
        <5> DEFINE k == i + 1
        <5>2. k \in 1 .. Len(s)
          BY <4>2
        <5> HIDE DEF k
        <5>3. s[k] # "restart done" /\ (s[k] = "hold done" => k = Len(s))
          BY <5>1, <5>2
        <5>4. QED BY <5>3 DEF k
      <4>4. i + 1 = Len(s) => i = Len(r)
        BY <3>2
      <4>5. QED BY <4>2, <4>3, <4>4
    <3>4. QED BY <3>3 DEF s, r
  <2>3. QED BY <1>3, <1>5, <2>1, <2>2 DEF Exiting
<1>6. ASSUME /\ cm = 2 /\ hold[1] = "HOLD_ACTIONS_PENDING" /\ hold'[1] = "HOLD"
             /\ q[2] # <<>> /\ Head(q[2]) = "hold done",
             NEW pause \in {<<"command">>, <<>>}, q'[2] = Tail(q[2]) \o pause
      PROVE  ToSet(q'[2]) \subseteq {"command"}
  <2>1. q[2][1] = "hold done" /\ Len(q[2]) \in Nat /\ Len(q[2]) > 0
    BY <1>0, <1>6, TailFacts, SeqFacts
  <2>2. Len(q[2]) = 1
    <3>1. EntersWith(s) /\ s[1] = "hold done" /\ Len(s) \in Nat /\ Len(s) > 0
      BY <1>3, <1>6, <2>1
    <3> HIDE DEF s
    <3>2. 1 \in 1 .. Len(s)
      <4>1. Len(s) \in Nat /\ Len(s) > 0
        BY <3>1
      <4>2. QED BY <4>1
    <3>3. Len(s) = 1
      BY <3>1, <3>2 DEF EntersWith
    <3>4. QED BY <3>3 DEF s
  <2>3. Tail(q[2]) \in Seq(Blocks) /\ Tail(q[2]) = <<>>
    <3>1. Tail(q[2]) \in Seq(Blocks) /\ Len(Tail(q[2])) = Len(q[2]) - 1
      BY <1>0, <1>6, TailFacts
    <3>2. Len(Tail(q[2])) = 0
      BY <2>2, <3>1
    <3>3. QED BY <3>1, <3>2, SeqFacts
  <2>4. pause \in Seq(Blocks) /\ ToSet(pause) \subseteq {"command"}
    BY SingleSet, ToSetFacts, BlocksFacts
  <2>5. q'[2] = pause
    BY <1>6, <2>3, <2>4, ConcatEmptySeq
  <2>6. QED BY <2>4, <2>5
<1>7. ASSUME NEW moves \in EntryMoves \cup NestedMoves, q'[2] = <<>> \o moves
      PROVE  EntersWith(q'[2])
  <2>1. moves \in Seq(Blocks) /\ EntersWith(moves)
    BY EntryFacts
  <2>2. QED BY <1>7, <2>1, ConcatEmptySeq
<1>8. ASSUME cm = 2, hold[1] = "HOLD", NEW moves \in ExitMoves, q'[2] = q[2] \o moves
      PROVE  "hold done" \notin ToSet(q'[2])
  <2>1. "hold done" \notin ToSet(q[2])
    BY <1>3, <1>8
  <2>2. moves \in Seq(Blocks) /\ "hold done" \notin ToSet(moves)
    BY ExitFacts
  <2>3. s \in Seq(Blocks) /\ "hold done" \notin ToSet(s) /\ q'[2] = s \o moves
    BY <1>0, <1>8, <2>1
  <2> HIDE DEF s
  <2>4. ToSet(s \o moves) \subseteq ToSet(s) \cup ToSet(moves)
    BY <2>2, <2>3, ToSetFacts
  <2>5. QED BY <2>2, <2>3, <2>4
<1>9. QED
  BY <1>2, <1>4, <1>5, <1>6, <1>7, <1>8, P2QueueCases DEF Exiting
HoldInv == Types /\ OpInv /\ Queues

LEMMA InitHold == Init => HoldInv
<1> SUFFICES ASSUME Init PROVE HoldInv
  OBVIOUS
<1>1. Types
  BY InitTypes
<1>2. op.acts = <<>> /\ op.in_operation = FALSE /\ Len(<<>>) = 0 /\ ToSet(<<>>) = {}
  BY NoOperationTypes, EmptySeq, BlocksFacts, ToSetFacts DEF Init
<1>3. OpInv
  BY <1>2 DEF Init, OpInv, Grammar, Sound, InP1, NotInP2, Idle, Fresh, Pending, NoEnterInExit, Exiting
<1>4. Queues
  BY <1>2 DEF Init, Queues
<1>5. QED BY <1>1, <1>3, <1>4 DEF HoldInv

LEMMA HoldStays ==
  ASSUME HoldInv, [Next]_vars PROVE HoldInv'
BY TypesStay, OpInvStays, QueuesStay DEF HoldInv

LEMMA AlwaysHold == Spec => []HoldInv
BY InitHold, HoldStays, PTL DEF Spec

\* Planner 2 is current only while planner 1 is held: a line of the job never
\* goes to the planner of the hold.
THEOREM P2IsOfTheHold == Spec => []P2OnlyInHold
<1>1. HoldInv => P2OnlyInHold
  BY DEF HoldInv, OpInv, NotInP2, P2OnlyInHold, Exiting
<1>2. QED BY <1>1, AlwaysHold, PTL

---------------------------------------------------------------------------
(* The hold that waits *)

\* What the exec and the loader need for a segment to be played
LEMMA StepperCases ==
  ASSUME [Next]_vars
  PROVE  /\ playing' => playing \/ prep = "segment"
         /\ prep' = "segment" => prep = "segment" \/ HeadIs({"move"})
<1>1. CASE Input \/ mp_planner_callback \/ _start_job_kill \/ _start_queue_flush
           \/ _start_cycle_restart
  <2>1. UNCHANGED <<playing, prep>> \/ (UNCHANGED playing /\ prep' = "null")
    BY <1>1 DEF Input, Key, Bang, cm_alarm, cm_request_cycle_start, cm_request_queue_flush,
       cm_request_job_kill, Line, Nothing, mp_planner_callback, _start_job_kill, JobKill,
       FlushPlanner, _start_queue_flush, _start_cycle_restart, stepping
  <2>2. QED BY <2>1
<1>2. CASE run_operation
  <2>1. playing' = playing /\ (prep' = prep \/ prep' = "null")
    BY <1>2, RunCases DEF Does, Nothing, _feedhold_no_actions, _feedhold_with_actions,
       _feedhold_restart_no_actions, _feedhold_restart_with_actions, NestedHold,
       _run_restart_cycle, _run_queue_flush, FlushPlanner, _run_program_stop, _run_alarm,
       JobKill, stepping
  <2>2. QED BY <2>1
<1>3. CASE Exec
  BY <1>3 DEF Exec, mp_exec_aline, ExecMotionStopped, ExecDecelComplete, ExecSegment,
     ExecCommand, ExecNothing
<1>4. CASE Load
  <2>1. prep' = "none"
    BY <1>4 DEF Load
  <2>2. UNCHANGED playing \/ playing' = (prep = "segment")
    BY <1>4 DEF Load
  <2>3. playing' => playing \/ prep = "segment"
    BY <2>2, Zenon
  <2>4. QED BY <2>1, <2>3
<1>5. CASE SegmentEnds \/ UNCHANGED vars
  <2>1. UNCHANGED prep /\ (UNCHANGED playing \/ playing' = FALSE)
    BY <1>5 DEF SegmentEnds, vars, stepping
  <2>2. QED BY <2>1
<1>6. QED BY <1>1, <1>2, <1>3, <1>4, <1>5 DEF Next, Main

LEMMA ParkedStays ==
  ASSUME Types, OpInv, Queues, Parked, [Next]_vars PROVE Parked'
<1>1. SUFFICES ASSUME hold'[1] = "HOLD", cm' = 2
      PROVE  ~ playing' /\ prep' # "segment"
  BY DEF Parked
<1>2. cm = 2
  BY <1>1, P2Steps
<1>3. CASE hold'[1] = hold[1]
  <2>1. ~ playing /\ prep # "segment" /\ ToSet(q[2]) \subseteq {"command"}
    BY <1>1, <1>2, <1>3 DEF Parked, Queues
  <2>2. ~ HeadIs({"move"})
    BY <1>2, <2>1, HeadFacts DEF HeadIs, Types
  <2>3. QED BY <2>1, <2>2, StepperCases
<1>4. CASE run_operation /\ hold'[1] # hold[1]
  <2>1. op.acts # <<>> /\ Current = "_feedhold_no_actions"
    BY <1>1, <1>4, RunHold DEF RunsInto
  <2>2. FALSE
    BY <1>2, <2>1, CurrentFacts DEF OpInv, NotInP2
  <2>3. QED BY <2>2
<1>5. CASE Load /\ hold'[1] # hold[1]
  BY <1>5 DEF Load, LoadMayRun
<1>6. QED
  BY <1>1, <1>2, <1>3, <1>4, <1>5, HoldCases DEF Stopping, Decelerating, Exiting, _start_job_kill, JobKill

LEMMA AlwaysParked == Spec => []Parked
<1>1. Init => Parked
  BY DEF Init, Parked
<1>2. HoldInv /\ Parked /\ [Next]_vars => Parked'
  BY ParkedStays DEF HoldInv
<1>3. QED BY <1>1, <1>2, AlwaysHold, PTL DEF Spec

\* A hold that has made its moves waits with the motors at rest.
THEOREM WaitsAtRest == Spec => []ParkedIsStill
<1>1. Parked => ParkedIsStill
  BY DEF Parked, ParkedIsStill
<1>2. QED BY <1>1, AlwaysParked, PTL

---------------------------------------------------------------------------
(* What is left to run *)

LEMMA FirstRunsStays ==
  ASSUME Types, OpInv, Queues, FirstRuns, [Next]_vars PROVE FirstRuns'
<1>1. CASE run_operation
  <2>1. op' = op \/ op' = NoOperation \/ op'.in_operation = TRUE
    BY <1>1, DoesShape DEF Types, Ends, Advances, Waits, GoesOn
  <2>2. QED BY <2>1 DEF FirstRuns, NoOperation
<1>2. CASE op'.run = op.run /\ op'.in_operation = op.in_operation
  BY <1>2 DEF FirstRuns
<1>3. Keeps \/ Begins \/ Calls \/ (\E l \in ExitLists : Leaves(l)) =>
        op'.run = op.run /\ op'.in_operation = op.in_operation
  <2>1. op.in_operation \in BOOLEAN /\ op'.in_operation \in BOOLEAN
    BY TypesStay DEF Types, OpTypes, Ops
  <2>2. QED BY <2>1 DEF Keeps, Begins, Calls, Leaves
<1>4. QED BY <1>1, <1>2, <1>3, OpCases

\* The actions left, after each of the ways of OpCases and DoesShape
LEMMA EndsToRun ==
  ASSUME Ends PROVE ToRun' = {} /\ op'.acts = <<>>
<1>1. op'.acts = <<>> /\ op'.run = 1 /\ Len(<<>>) = 0
  BY NoOperationTypes DEF Ends
<1>2. 1 .. 0 = {}
  OBVIOUS
<1>3. QED BY <1>1, <1>2 DEF ToRun

LEMMA AdvancesToRun ==
  ASSUME Types, OpInv, op.acts # <<>>, Advances
  PROVE  /\ ToRun' \subseteq ToRun /\ \A a \in ToRun : a = Current \/ a \in ToRun'
         /\ Current' \in Follows(Current) /\ Current' \in ToRun'
         /\ op'.acts = op.acts
<1>1. /\ op.run \in 1 .. Len(op.acts) /\ Len(op.acts) \in Nat /\ Sound(op.acts)
      /\ op.run < Len(op.acts) /\ op'.acts = op.acts /\ op'.run = op.run + 1
  BY CurrentFacts DEF Advances, OpInv, Grammar
<1>2. /\ \A i \in op'.run .. Len(op'.acts) : i \in op.run .. Len(op.acts)
      /\ \A i \in op.run .. Len(op.acts) : i = op.run \/ i \in op'.run .. Len(op'.acts)
      /\ op'.run \in op'.run .. Len(op'.acts)
      /\ op.run \in 1 .. Len(op.acts) - 1
  BY <1>1
<1>3. Current' \in Follows(Current)
  BY <1>1, <1>2 DEF Sound, Current
<1>4. ToRun' \subseteq ToRun
  BY <1>1, <1>2 DEF ToRun
<1>5. \A a \in ToRun : a = Current \/ a \in ToRun'
  BY <1>1, <1>2 DEF ToRun, Current
<1>6. Current' \in ToRun'
  BY <1>2 DEF ToRun, Current
<1>7. QED BY <1>1, <1>3, <1>4, <1>5, <1>6

LEMMA SameToRun ==
  ASSUME op'.acts = op.acts, op'.run = op.run PROVE ToRun' = ToRun /\ Current' = Current
BY DEF ToRun, Current

LEMMA GoesOnToRun ==
  ASSUME Types, Types', OpInv, op.acts # <<>>, GoesOn
  PROVE  /\ ToRun' \subseteq Chain /\ Current' = "_feedhold_restart_no_actions"
         /\ op'.acts # <<>>
<1>1. /\ op.run = Len(op.acts) /\ Len(op.acts) \in Nat /\ op'.run = op.run + 1
      /\ Len(op'.acts) > Len(op.acts) /\ Behind(op.acts, FlushChain, op'.acts)
  BY CurrentFacts DEF GoesOn
<1>2. Len(op'.acts) \in Nat /\ op'.acts # <<>>
  <2>1. op'.acts \in Seq(Actions)
    BY DEF Types, OpTypes, Ops
  <2>2. QED BY <1>1, <2>1, SeqFacts
<1>3. \A i \in op'.run .. Len(op'.acts) : i - Len(op.acts) \in 1 .. 3 /\ op'.acts[i] = FlushChain[i - Len(op.acts)]
  BY <1>1, <1>2, ChainFacts DEF Behind
<1>4. \A k \in 1 .. 3 : FlushChain[k] \in Chain
  BY ChainFacts DEF Chain
<1>5. ToRun' \subseteq Chain
  BY <1>3, <1>4 DEF ToRun
<1>6. Current' = "_feedhold_restart_no_actions"
  <2>1. op'.run \in op'.run .. Len(op'.acts) /\ op'.run - Len(op.acts) = 1
    BY <1>1, <1>2
  <2>2. QED BY <1>3, <2>1, ChainFacts DEF Current
<1>7. QED BY <1>2, <1>5, <1>6

LEMMA BehindToRun ==
  ASSUME Types, Types', op'.run = op.run, NEW l \in Seq(Actions), Len(l) \in 1 .. 3,
         Behind(op.acts, l, op'.acts)
  PROVE  /\ ToRun \subseteq ToRun' /\ ToRun' \subseteq ToRun \cup {l[i] : i \in 1 .. Len(l)}
         /\ op'.acts # <<>>
         /\ op.acts = <<>> => Current' = l[1] /\ \A i \in 1 .. Len(l) : l[i] \in ToRun'
         /\ op.acts # <<>> => Current' = Current
<1>1. /\ op.acts \in Seq(Actions) /\ op'.acts \in Seq(Actions) /\ Index /\ op.run \in 1 .. ACTION_MAX
      /\ Len(op.acts) \in Nat /\ Len(op'.acts) \in Nat /\ Len(op.acts) <= 6
      /\ op.acts = <<>> => Len(op.acts) = 0
      /\ op.acts # <<>> => Len(op.acts) > 0
  BY SeqFacts DEF Types, OpTypes, Ops, Index, ACTION_MAX
<1>2. /\ Len(op'.acts) >= Len(op.acts)
      /\ \A i \in 1 .. Len(op.acts) : op'.acts[i] = op.acts[i]
      /\ \A i \in Len(op.acts) + 1 .. Len(op'.acts) :
           i - Len(op.acts) \in 1 .. Len(l) /\ op'.acts[i] = l[i - Len(op.acts)]
      /\ Len(op'.acts) = IF Len(op.acts) + Len(l) > 6 THEN 6 ELSE Len(op.acts) + Len(l)
  BY DEF Behind, ACTION_MAX
<1>3. op'.acts # <<>>
  <2> DEFINE n == Len(op.acts)
             k == Len(l)
             m == Len(op'.acts)
  <2>0. n \in Nat /\ k \in 1 .. 3 /\ m = IF n + k > 6 THEN 6 ELSE n + k
    BY <1>1, <1>2
  <2> HIDE DEF n, k, m
  <2>3. m > 0
    BY <2>0
  <2>1. Len(op'.acts) > 0
    BY <2>3 DEF m
  <2>2. QED BY <1>1, <2>1, SeqFacts
<1>4. /\ \A i \in op.run .. Len(op.acts) : i \in op'.run .. Len(op'.acts) /\ i \in 1 .. Len(op.acts)
      /\ \A i \in op'.run .. Len(op'.acts) :
           i \in op.run .. Len(op.acts) \/ i \in Len(op.acts) + 1 .. Len(op'.acts)
  BY <1>1, <1>2, <1>3 DEF Index
<1>5. ToRun \subseteq ToRun'
  BY <1>2, <1>4 DEF ToRun
<1>6. ToRun' \subseteq ToRun \cup {l[i] : i \in 1 .. Len(l)}
  BY <1>2, <1>4 DEF ToRun
<1>7. op.acts = <<>> => Current' = l[1] /\ \A i \in 1 .. Len(l) : l[i] \in ToRun'
  <2>1. SUFFICES ASSUME op.acts = <<>>
                 PROVE  Current' = l[1] /\ \A i \in 1 .. Len(l) : l[i] \in ToRun'
    OBVIOUS
  <2>2. Len(op.acts) = 0 /\ op.run = 1 /\ Len(op'.acts) = Len(l)
    BY <1>1, <1>2, <2>1 DEF Index
  <2>3. \A i \in 1 .. Len(l) : i \in op'.run .. Len(op'.acts) /\ op'.acts[i] = l[i]
    BY <1>2, <2>2
  <2>4. QED BY <2>2, <2>3 DEF ToRun, Current
<1>8. op.acts # <<>> => Current' = Current
  BY <1>1, <1>2 DEF Index, Current
<1>9. QED BY <1>3, <1>5, <1>6, <1>7, <1>8

\* Nothing follows a restart, and no flush follows the start of one.
LEMMA RestartIsLast ==
  ASSUME Types, OpInv, op.acts # <<>>
  PROVE  /\ Current \in {"_run_restart_cycle", "_run_alarm"} => op.run = Len(op.acts)
         /\ Current \in {"_run_restart_cycle", "_feedhold_restart_with_actions"} => ~ Flushes
<1>1. /\ Sound(op.acts) /\ op.run \in 1 .. Len(op.acts) /\ Len(op.acts) \in Nat
  BY CurrentFacts DEF OpInv, Grammar
<1>2. \A i \in 1 .. Len(op.acts) - 1 :
        op.acts[i] \notin {"_run_restart_cycle", "_run_alarm"}
  BY <1>1 DEF Sound, Follows
<1>3. Current \in {"_run_restart_cycle", "_run_alarm"} => op.run = Len(op.acts)
  BY <1>1, <1>2 DEF Current
<1>4. CASE Current = "_run_restart_cycle"
  <2>1. \A i \in op.run .. Len(op.acts) : i = op.run
    BY <1>1, <1>3, <1>4
  <2>2. ~ Flushes
    BY <1>4, <2>1 DEF Flushes, ToRun, Current
  <2>3. QED BY <1>3, <2>2
<1>5. CASE Current = "_feedhold_restart_with_actions"
  <2>1. op.run < Len(op.acts) => op.acts[op.run + 1] = "_run_restart_cycle"
    BY <1>1, <1>5 DEF Sound, Follows, Current
  <2>2. op.run + 1 < Len(op.acts) => FALSE
    BY <1>1, <1>2, <2>1
  <2>3. \A i \in op.run .. Len(op.acts) : i = op.run \/ (i = op.run + 1 /\ op.run < Len(op.acts))
    BY <1>1, <2>2
  <2>4. ~ Flushes
    BY <1>5, <2>1, <2>3 DEF Flushes, ToRun, Current
  <2>5. QED BY <1>5, <2>4
<1>6. QED BY <1>3, <1>4, <1>5

---------------------------------------------------------------------------
(* The moves of the job *)

LEMMA MovesGone ==
  ASSUME q'[1] = <<>> \/ q'[1] = <<"command">> PROVE NoMoves'
<1>1. ToSet(<<"command">>) = {"command"} /\ ToSet(<<>>) = {}
  BY SingleSet DEF ToSet
<1>2. QED BY <1>1 DEF NoMoves

\* No block becomes a move: only a line of the job adds one.
LEMMA NoMovesStays ==
  ASSUME Types, OpInv, Queues, [Next]_vars, NoMoves, ~ Line PROVE NoMoves'
<1>1. q[1] \in Seq(Blocks)
  BY DEF Types, QueueTypes
<1>2. CASE q'[1] = q[1]
  BY <1>2 DEF NoMoves
<1>3. CASE q[1] # <<>> /\ q'[1] = Tail(q[1])
  BY <1>1, <1>3, ToSetFacts DEF NoMoves
<1>4. QED BY <1>2, <1>3, MovesGone, JobQueueCases

\* While there are moves no kill and no flush of planner 1 was made.
LEMMA NoKill ==
  ASSUME Types, OpInv, ~ NoMoves'
  PROVE  /\ ~ JobKill("END") /\ ~ JobKill("ALARM")
         /\ ~ (op.acts # <<>> /\ Current = "_run_queue_flush" /\ _run_queue_flush)
<1>0. q \in [1 .. 2 -> Seq(Blocks)]
  BY DEF Types, QueueTypes
<1>1. ASSUME NEW state, JobKill(state) PROVE FALSE
  <2> DEFINE end == <<"command">>
  <2>1. q' = [q EXCEPT ![1] = end]
    BY <1>1 DEF JobKill, FlushPlanner
  <2> HIDE DEF end
  <2>2. q'[1] = end
    BY <1>0, <2>1
  <2>3. QED BY <2>2, MovesGone DEF end
<1>2. ASSUME op.acts # <<>>, Current = "_run_queue_flush", _run_queue_flush PROVE FALSE
  <2>1. cm = 1
    BY <1>2 DEF OpInv, InP1, Enters, Restarts
  <2> DEFINE none == <<>>
  <2>2. q' = [q EXCEPT ![1] = none]
    BY <1>2, <2>1 DEF _run_queue_flush, FlushPlanner
  <2> HIDE DEF none
  <2>3. q'[1] = none
    BY <1>0, <2>2
  <2>4. QED BY <2>3, MovesGone DEF none
<1>3. QED BY <1>1, <1>2

LEMMA MachineCases ==
  ASSUME Types, OpInv, Queues, [Next]_vars, ~ NoMoves'
  PROVE  machine'[1] \in {machine[1], "CYCLE", "STOP"}
<1>0. /\ machine \in [1 .. 2 -> {"READY", "CYCLE", "STOP", "END", "ALARM"}] /\ cm \in {1, 2}
      /\ q \in [1 .. 2 -> Seq(Blocks)]
  BY DEF Types, MachineTypes, QueueTypes
<1>1. ASSUME NEW p \in {1, 2}, CycleStart(p) \/ CycleEnd(p, "STOP")
      PROVE  machine'[1] \in {machine[1], "CYCLE", "STOP"}
  BY <1>0, <1>1 DEF CycleStart, CycleEnd
<1>2. ASSUME NEW state, machine' = [machine EXCEPT ![2] = state]
      PROVE  machine'[1] = machine[1]
  BY <1>0, <1>2
<1>3. CASE Input
  <2>1. machine' = machine \/ CycleStart(cm)
    BY <1>3 DEF Input, Key, Bang, cm_alarm, cm_request_cycle_start, cm_request_queue_flush,
       cm_request_job_kill, Line, Nothing, machines
  <2>2. QED BY <1>0, <1>1, <2>1
<1>4. CASE _start_job_kill
  <2>1. machine' = machine
    BY <1>4, NoKill DEF _start_job_kill, machines
  <2>2. QED BY <2>1
<1>5. CASE mp_planner_callback \/ _start_queue_flush \/ _start_cycle_restart \/ SegmentEnds
           \/ UNCHANGED vars
  BY <1>5 DEF mp_planner_callback, _start_queue_flush, _start_cycle_restart, SegmentEnds,
     vars, machines
<1>6. CASE run_operation
  <2>1. \/ machine' = machine \/ CycleStart(cm) \/ CycleEnd(cm, "STOP")
        \/ \E state : machine' = [machine EXCEPT ![2] = state]
    <3>1. ~ Does("_run_alarm", _run_alarm) \/ machine' = machine
      BY NoKill DEF Does, _run_alarm, machines
    <3>2. QED
      BY <1>6, <3>1, RunCases DEF Does, Nothing, _feedhold_no_actions, _feedhold_with_actions,
         _feedhold_restart_no_actions, _feedhold_restart_with_actions, NestedHold, QueueInP2,
         _run_restart_cycle, _run_queue_flush, _run_program_stop, machines
  <2>2. QED BY <1>0, <1>1, <1>2, <2>1
<1>7. CASE Exec
  <2>1. machine' = machine \/ CycleEnd(cm, "STOP")
    BY <1>7 DEF Exec, mp_exec_aline, ExecMotionStopped, ExecDecelComplete, ExecSegment,
       ExecCommand, ExecNothing, machines
  <2>2. QED BY <1>0, <1>1, <2>1
<1>8. CASE Load
  <2>1. ASSUME NEW queued, FreeCommand(queued)
        PROVE  machine'[1] \in {machine[1], "CYCLE", "STOP"}
    <3> DEFINE rest == Tail(q[cm]) \o queued
    <3>1. /\ q' = [q EXCEPT ![cm] = rest]
          /\ machine' = machine \/ (rest = <<>> /\ \E end \in {"STOP", "END"} : CycleEnd(cm, end))
      BY <2>1 DEF FreeCommand, machines
    <3> HIDE DEF rest
    <3>2. CASE cm = 1
      <4>1. rest # <<>>
        BY <1>0, <3>1, <3>2, MovesGone
      <4>2. QED BY <3>1, <4>1
    <3>3. CASE cm = 2
      BY <1>0, <3>1, <3>3 DEF CycleEnd
    <3>4. QED BY <1>0, <3>2, <3>3
  <2>2. machine' = machine \/ \E queued : FreeCommand(queued)
    BY <1>8 DEF Load, _feedhold_actions_done_callback, OtherCommand,
       _feedhold_restart_actions_done_callback, machines
  <2>3. QED BY <2>1, <2>2
<1>9. QED BY <1>3, <1>4, <1>5, <1>6, <1>7, <1>8 DEF Next, Main

\* What the running action does while there are moves
HoldsNow ==
  /\ Current = "_feedhold_no_actions" /\ cm' = cm
  /\ \/ hold[1] = "OFF" /\ hold'[1] = "SYNC" /\ Waits
     \/ hold[1] \in {"OFF"} \cup Stopped /\ hold'[1] = "HOLD" /\ (Ends \/ Advances)
     \/ hold[1] \in Stopping /\ hold'[1] = hold[1] /\ Waits
HoldsWithActions ==
  /\ Current = "_feedhold_with_actions"
  /\ \/ hold[1] = "MOTION_STOPPED" /\ hold'[1] = "HOLD_ACTIONS_PENDING" /\ Waits
     \/ hold[1] = "HOLD" /\ hold'[1] = "HOLD" /\ (Ends \/ Advances \/ (queue_flush_state /\ GoesOn))
     \/ hold[1] \notin {"OFF", "MOTION_STOPPED", "HOLD"} /\ hold'[1] = hold[1] /\ Waits
LeavesHold == Current = "_feedhold_restart_no_actions" /\ hold'[1] = hold[1] /\ (Ends \/ Advances)
Returning ==
  /\ Current = "_feedhold_restart_with_actions"
  /\ \/ hold[1] = "HOLD" /\ hold'[1] = "EXIT_ACTIONS_PENDING" /\ Waits
     \/ hold[1] = "EXIT_ACTIONS_COMPLETE" /\ hold'[1] = hold[1] /\ (Ends \/ Advances)
     \/ hold[1] = "EXIT_ACTIONS_PENDING" /\ hold'[1] = hold[1] /\ Waits
HoldsAgain == /\ Current = "_feedhold_restart_with_actions" /\ hold[1] = "EXIT_ACTIONS_PENDING"
              /\ hold'[1] = "HOLD_ACTIONS_PENDING" /\ Ends
Resumes == /\ Current = "_run_restart_cycle" /\ hold[1] \in {"HOLD"} \cup Exiting
           /\ hold'[1] = "OFF" /\ Ends
AlarmWaits == Current = "_run_alarm" /\ hold[1] # "HOLD" /\ hold'[1] = hold[1] /\ Waits

LEMMA RunSteps ==
  ASSUME Types, OpInv, Queues, [Next]_vars, run_operation, ~ NoMoves', JobKept, op.acts # <<>>
  PROVE  /\ at = "operation" /\ UNCHANGED <<job_kill_state, promise>>
         /\ \/ /\ UNCHANGED queue_flush_state
               /\ \/ HoldsNow \/ HoldsWithActions \/ LeavesHold \/ Returning
                  \/ Resumes \/ AlarmWaits
            \/ HoldsAgain
<1>0. /\ hold \in [1 .. 2 -> HoldStates] /\ OpTypes /\ Current \in ToRun
  <2>1. op.run \in op.run .. Len(op.acts)
    BY CurrentFacts
  <2>2. QED BY <2>1 DEF Types, HoldTypes, ToRun, Current
<1>1. CASE Does("_feedhold_no_actions", _feedhold_no_actions)
  <2>1. /\ at = "operation" /\ UNCHANGED <<requests, promise, cm>> /\ Current = "_feedhold_no_actions"
    BY <1>1 DEF Does, _feedhold_no_actions
  <2>2. HoldsNow
    BY <1>0, <1>1, <2>1, AgainShape, CompletedShape DEF Does, _feedhold_no_actions, HoldsNow, HoldStates,
       holds
  <2>3. QED BY <2>1, <2>2 DEF requests
<1>2. CASE Does("_feedhold_with_actions", _feedhold_with_actions)
  <2>1. /\ at = "operation" /\ UNCHANGED <<requests, promise>> /\ Current = "_feedhold_with_actions"
        /\ _feedhold_with_actions
    BY <1>2 DEF Does, _feedhold_with_actions
  <2>2. hold[1] # "OFF"
    <3>1. op.acts = <<"_feedhold_no_actions">> => op.acts[1] = "_feedhold_no_actions" /\ Len(op.acts) = 1
      OBVIOUS
    <3>2. op.run = 1
      BY <2>1, CurrentFacts DEF Enters
    <3>3. QED BY <2>1, <3>1, <3>2 DEF JobKept, EnterOff, Enters, Current
  <2>3. CASE hold[1] = "MOTION_STOPPED"
    <3>1. Waits /\ hold' = [hold EXCEPT ![1] = "HOLD_ACTIONS_PENDING",
                                        ![2] = IF cm = 1 THEN "OFF" ELSE hold[2]]
      BY <1>0, <2>1, <2>3, AgainShape DEF _feedhold_with_actions
    <3>2. hold'[1] = "HOLD_ACTIONS_PENDING"
      BY <1>0, <3>1
    <3>3. HoldsWithActions
      BY <2>1, <2>3, <3>1, <3>2 DEF HoldsWithActions
    <3>4. QED BY <2>1, <3>3 DEF requests
  <2>4. CASE hold[1] = "HOLD"
    <3>1. FinishHold
      BY <2>1, <2>4 DEF _feedhold_with_actions
    <3>2. HoldsWithActions
      BY <1>0, <2>1, <2>4, <3>1, FinishShape DEF FinishHold, HoldsWithActions
    <3>3. QED BY <2>1, <3>2 DEF requests
  <2>5. CASE hold[1] \notin {"OFF", "MOTION_STOPPED", "HOLD"}
    <3>1. HoldsWithActions
      BY <1>0, <2>1, <2>5, AgainShape DEF _feedhold_with_actions, HoldsWithActions
    <3>2. QED BY <2>1, <3>1 DEF requests
  <2>6. QED BY <2>2, <2>3, <2>4, <2>5
<1>3. CASE Does("_feedhold_restart_no_actions", _feedhold_restart_no_actions)
  <2>1. LeavesHold /\ at = "operation" /\ UNCHANGED <<requests, promise>>
    BY <1>0, <1>3, CompletedShape DEF Does, _feedhold_restart_no_actions, LeavesHold, holds
  <2>2. QED BY <2>1 DEF requests
<1>4. CASE Does("_feedhold_restart_with_actions", _feedhold_restart_with_actions)
  <2>1. /\ at = "operation" /\ UNCHANGED <<job_kill_state, promise>>
        /\ Current = "_feedhold_restart_with_actions" /\ _feedhold_restart_with_actions
    BY <1>4 DEF Does, _feedhold_restart_with_actions
  <2>2. hold[1] \in {"HOLD"} \cup Exiting
    BY <1>0, <2>1 DEF JobKept, RestartHolds, Restarting
  <2>3. CASE hold[1] = "EXIT_ACTIONS_PENDING" /\ NestedHold
    <3>1. hold' = [hold EXCEPT ![1] = "HOLD_ACTIONS_PENDING", ![2] = "OFF"] /\ Ends
      BY <2>3, FailedShape DEF NestedHold
    <3>2. hold'[1] = "HOLD_ACTIONS_PENDING"
      BY <1>0, <3>1
    <3>3. QED BY <2>1, <2>3, <3>1, <3>2 DEF HoldsAgain
  <2>4. CASE ~ (hold[1] = "EXIT_ACTIONS_PENDING" /\ NestedHold)
    <3>1. Returning /\ UNCHANGED queue_flush_state
      BY <1>0, <2>1, <2>2, <2>4, AgainShape, CompletedShape DEF _feedhold_restart_with_actions,
         Returning, Exiting
    <3>2. QED BY <2>1, <3>1
  <2>5. QED BY <2>3, <2>4
<1>5. CASE Does("_run_restart_cycle", _run_restart_cycle)
  <2>1. /\ at = "operation" /\ UNCHANGED <<requests, promise>> /\ Current = "_run_restart_cycle"
        /\ _run_restart_cycle
    BY <1>5 DEF Does, _run_restart_cycle
  <2>2. hold[1] \in {"HOLD"} \cup Exiting
    BY <1>0, <2>1 DEF JobKept, RestartHolds, Restarting
  <2>3. Ends
    <3>1. op.run = Len(op.acts) /\ Len(op.acts) \in Nat
      BY <2>1, RestartIsLast, CurrentFacts
    <3>2. ~ Advances
      BY <3>1 DEF Advances
    <3>3. QED BY <1>0, <2>1, <3>2, CompletedShape DEF _run_restart_cycle
  <2>4. hold'[1] = "OFF"
    BY <1>0, <2>1, <2>2 DEF _run_restart_cycle, Exiting
  <2>5. QED BY <2>1, <2>2, <2>3, <2>4 DEF Resumes, requests
<1>6. CASE Does("_run_queue_flush", _run_queue_flush)
  BY <1>6, NoKill DEF Does
<1>7. CASE Does("_run_program_stop", _run_program_stop)
  BY <1>7 DEF Does, JobKept, NoStop
<1>8. CASE Does("_run_alarm", _run_alarm)
  <2>1. AlarmWaits /\ at = "operation" /\ UNCHANGED <<requests, promise>>
    BY <1>0, <1>8, NoKill, AgainShape DEF Does, _run_alarm, AlarmWaits
  <2>2. QED BY <2>1 DEF requests
<1>9. QED BY <1>1, <1>2, <1>3, <1>4, <1>5, <1>6, <1>7, <1>8, RunCases

\* An action that waits, one that is over and one that ends the operation keep
\* what is known of the operation.
LEMMA RunMachine ==
  ASSUME Types, OpInv, Queues, [Next]_vars, ~ NoMoves', JobKept, op.acts # <<>> PROVE MachineRuns'
<1>1. machine[1] \in {"CYCLE", "STOP"}
  BY DEF JobKept, MachineRuns
<1>2. machine'[1] \in {"CYCLE", "STOP"}
  BY <1>1, MachineCases
<1>3. QED BY <1>2 DEF MachineRuns

LEMMA EndsKeeps ==
  ASSUME Types, OpInv, Queues, [Next]_vars, run_operation, ~ NoMoves', JobKept, op.acts # <<>>, Ends
  PROVE  JobKept'
<1>0. ToRun' = {} /\ op'.acts = <<>> /\ at' = "input"
  BY EndsToRun DEF Ends
<1>1. MachineRuns'
  BY RunMachine
<1>2. NoStop' /\ FlushKeeps' /\ RestartHolds' /\ RestartFlushes' /\ EnterOff' /\ CycleStartFlushes'
  BY <1>0 DEF NoStop, FlushKeeps, Flushes, RestartHolds, Restarting, RestartFlushes, EnterOff,
     CycleStartFlushes
<1>3. Promised'
  <2>1. SUFFICES ASSUME promise' = "flush", hold'[1] \notin {"OFF"} \cup Exiting
                 PROVE  queue_flush_state' \/ Killing'
    BY DEF Promised
  <2>2. promise = "flush" /\ job_kill_state' = job_kill_state
    BY <2>1, RunSteps
  <2>3. Killing => op.acts = <<"_feedhold_no_actions">>
    BY DEF Killing
  <2>4. op.acts = <<"_feedhold_no_actions">> => Current = "_feedhold_no_actions"
    <3>1. op.acts = <<"_feedhold_no_actions">> => Len(op.acts) = 1 /\ op.acts[1] = "_feedhold_no_actions"
      OBVIOUS
    <3>2. op.run \in 1 .. Len(op.acts)
      BY CurrentFacts
    <3>3. QED BY <3>1, <3>2 DEF Current
  <2>5. CASE HoldsNow /\ UNCHANGED queue_flush_state
    <3>1. ~ Waits /\ hold'[1] = "HOLD" /\ cm' = cm /\ Current = "_feedhold_no_actions"
      <4>1. op'.acts # op.acts
        BY <1>0
      <4>2. QED BY <2>5, <4>1 DEF HoldsNow, Waits
    <3>2. CASE hold[1] = "OFF"
      <4>1. cm = 1
        BY <3>2 DEF OpInv, NotInP2, Exiting, Types, QueueTypes
      <4>2. job_kill_state
        BY <3>1, <3>2 DEF JobKept, EnterOff, Enters
      <4>3. QED BY <1>0, <2>2, <3>1, <4>1, <4>2 DEF Killing
    <3>3. CASE hold[1] # "OFF"
      <4>1. hold[1] \notin Exiting
        BY <3>1, CurrentFacts DEF OpInv, NoEnterInExit, Enters
      <4>2. queue_flush_state \/ Killing
        BY <2>2, <3>3, <4>1 DEF JobKept, Promised
      <4>3. CASE Killing
        BY <1>0, <2>2, <3>1, <4>3 DEF Killing
      <4>4. QED BY <2>5, <4>2, <4>3
    <3>4. QED BY <3>2, <3>3
  <2>6. CASE UNCHANGED queue_flush_state /\ (HoldsWithActions \/ LeavesHold \/ Returning \/ AlarmWaits)
    <3>1. op'.acts # op.acts
      BY <1>0
    <3>2. hold'[1] = hold[1] /\ Current # "_feedhold_no_actions"
      BY <2>6, <3>1 DEF HoldsWithActions, LeavesHold, Returning, AlarmWaits, Waits
    <3>3. queue_flush_state
      BY <2>1, <2>2, <2>3, <2>4, <3>2 DEF JobKept, Promised
    <3>4. QED BY <2>6, <3>3
  <2>7. CASE HoldsAgain
    <3>1. Restarting /\ ~ Flushes
      <4>1. op.run \in op.run .. Len(op.acts) /\ Current = "_feedhold_restart_with_actions"
        BY <2>7, CurrentFacts DEF HoldsAgain
      <4>2. QED BY <4>1, RestartIsLast DEF Restarting, ToRun, Current
    <3>2. QED BY <2>2, <2>7, <3>1 DEF HoldsAgain, JobKept, RestartFlushes
  <2>8. CASE Resumes
    BY <2>1, <2>8 DEF Resumes
  <2>9. QED BY <2>5, <2>6, <2>7, <2>8, RunSteps
<1>4. QED BY <1>1, <1>2, <1>3 DEF JobKept

LEMMA AdvancesKeeps ==
  ASSUME Types, OpInv, Queues, [Next]_vars, run_operation, ~ NoMoves', JobKept, op.acts # <<>>,
         Advances
  PROVE  JobKept'
<1>0. /\ ToRun' \subseteq ToRun /\ \A a \in ToRun : a = Current \/ a \in ToRun'
      /\ Current' \in Follows(Current) /\ op'.acts = op.acts
  BY AdvancesToRun
<1>1. MachineRuns'
  BY RunMachine
<1>2. op'.acts # <<>> /\ ~ Ends /\ ~ Waits
  <2>1. op.run \in Nat
    BY CurrentFacts
  <2>2. op'.run # op.run
    BY <2>1 DEF Advances
  <2>3. QED BY <1>0, <2>2, EndsToRun DEF Waits
<1>3. at = "operation" /\ at' = "operation" /\ UNCHANGED <<promise, job_kill_state>>
  BY RunSteps DEF Advances
<1>4. /\ UNCHANGED queue_flush_state
      /\ \/ HoldsNow /\ hold[1] \in {"OFF"} \cup Stopped /\ hold'[1] = "HOLD"
         \/ HoldsWithActions /\ hold'[1] = hold[1]
         \/ LeavesHold /\ hold'[1] = hold[1]
         \/ Returning /\ hold'[1] = hold[1] /\ hold[1] = "EXIT_ACTIONS_COMPLETE"
  BY <1>2, RunSteps DEF HoldsNow, HoldsWithActions, LeavesHold, Returning, HoldsAgain, Resumes,
     AlarmWaits
<1>5. Current \in {"_feedhold_no_actions", "_feedhold_with_actions",
                   "_feedhold_restart_no_actions", "_feedhold_restart_with_actions"}
  BY <1>4 DEF HoldsNow, HoldsWithActions, LeavesHold, Returning
<1>6. NoStop'
  BY <1>0, <1>5 DEF NoStop, Follows
<1>7. HoldsNow => hold[1] \notin Exiting
  BY CurrentFacts DEF HoldsNow, OpInv, NoEnterInExit, Enters
<1>8. FlushKeeps'
  <2>1. SUFFICES ASSUME Flushes'
                 PROVE  queue_flush_state' /\ hold'[1] = "HOLD"
    BY <1>3 DEF FlushKeeps
  <2>2. queue_flush_state /\ hold[1] = "HOLD"
    BY <1>0, <2>1 DEF Flushes, JobKept, FlushKeeps
  <2>3. QED BY <1>4, <2>2
<1>9. Restarting' => Restarting
  BY <1>0 DEF Restarting
<1>10. RestartHolds'
  <2>1. SUFFICES ASSUME Restarting'
                 PROVE  hold'[1] \in Exiting \/ hold'[1] = "HOLD"
    BY <1>3 DEF RestartHolds
  <2>2. hold[1] \in Exiting \/ hold[1] = "HOLD"
    BY <1>9, <2>1 DEF JobKept, RestartHolds
  <2>3. QED BY <1>4, <2>2
<1>11. RestartFlushes'
  <2>1. SUFFICES ASSUME Restarting', promise' = "flush"
                 PROVE  Flushes'
    BY DEF RestartFlushes
  <2>2. hold[1] # "OFF"
    BY <1>9, <2>1 DEF JobKept, RestartHolds, Exiting
  <2>3. Flushes
    BY <1>3, <1>9, <2>1, <2>2 DEF JobKept, RestartFlushes
  <2>4. QED BY <1>0, <1>5, <2>3 DEF Flushes
<1>12. EnterOff'
  BY <1>0, <1>5 DEF EnterOff, Follows, Enters
<1>13. Promised'
  <2>1. SUFFICES ASSUME promise' = "flush", hold'[1] \notin {"OFF"} \cup Exiting
                 PROVE  queue_flush_state'
    BY DEF Promised
  <2>2. op.acts # <<"_feedhold_no_actions">>
    <3>1. op.acts = <<"_feedhold_no_actions">> => Len(op.acts) = 1
      OBVIOUS
    <3>2. op.run \in 1 .. Len(op.acts) /\ Len(op.acts) \in Nat /\ op.run < Len(op.acts)
      BY CurrentFacts DEF Advances
    <3> DEFINE n == Len(op.acts)
               r == op.run
    <3>3. r \in 1 .. n /\ n \in Nat /\ r < n
      BY <3>2
    <3> HIDE DEF n, r
    <3>4. n # 1
      BY <3>3
    <3>5. QED BY <3>1, <3>4 DEF n
  <2>3. hold[1] \notin {"OFF"} \cup Exiting
    <3>1. HoldsNow => hold[1] # "OFF"
      BY <2>2 DEF HoldsNow, JobKept, EnterOff, Enters
    <3>2. QED BY <1>4, <1>7, <2>1, <3>1
  <2>4. queue_flush_state
    BY <1>3, <2>1, <2>2, <2>3 DEF JobKept, Promised, Killing
  <2>5. QED BY <1>4, <2>4
<1>14. CycleStartFlushes'
  BY <1>3 DEF CycleStartFlushes
<1>15. QED BY <1>1, <1>6, <1>8, <1>10, <1>11, <1>12, <1>13, <1>14 DEF JobKept

LEMMA WaitsKeeps ==
  ASSUME Types, OpInv, Queues, [Next]_vars, run_operation, ~ NoMoves', JobKept, op.acts # <<>>,
         Waits
  PROVE  JobKept'
<1>0. ToRun' = ToRun /\ Current' = Current /\ op'.acts = op.acts /\ at' = "input"
  BY SameToRun DEF Waits
<1>1. MachineRuns'
  BY RunMachine
<1>2. NoStop' /\ CycleStartFlushes'
  BY <1>0 DEF JobKept, NoStop, CycleStartFlushes
<1>3. ~ Ends /\ ~ Advances /\ ~ GoesOn
  <2>1. op.run \in Nat
    BY CurrentFacts
  <2>2. op'.run = op.run /\ op'.acts # <<>>
    BY DEF Waits
  <2>3. QED BY <2>1, <2>2, EndsToRun DEF Advances, GoesOn
<1>4. at = "operation" /\ UNCHANGED <<promise, job_kill_state>>
  BY RunSteps
<1>5. /\ UNCHANGED queue_flush_state
      /\ \/ HoldsNow /\ hold[1] = "OFF" /\ hold'[1] = "SYNC"
         \/ HoldsNow /\ hold[1] \in Stopping /\ hold'[1] = hold[1]
         \/ HoldsWithActions /\ hold[1] = "MOTION_STOPPED" /\ hold'[1] = "HOLD_ACTIONS_PENDING"
         \/ HoldsWithActions /\ hold[1] \notin {"OFF", "HOLD"} /\ hold'[1] = hold[1]
         \/ Returning /\ hold[1] = "HOLD" /\ hold'[1] = "EXIT_ACTIONS_PENDING"
         \/ Returning /\ hold[1] = "EXIT_ACTIONS_PENDING" /\ hold'[1] = hold[1]
         \/ AlarmWaits /\ hold[1] # "HOLD" /\ hold'[1] = hold[1]
  BY <1>3, RunSteps DEF HoldsNow, HoldsWithActions, LeavesHold, Returning, HoldsAgain, Resumes,
     AlarmWaits
<1>6. HoldsNow \/ HoldsWithActions => hold[1] \notin Exiting
  BY CurrentFacts DEF HoldsNow, HoldsWithActions, OpInv, NoEnterInExit, Enters
<1>7. FlushKeeps'
  <2>1. SUFFICES ASSUME Flushes PROVE FALSE
    BY <1>0 DEF FlushKeeps, Flushes
  <2>2. hold[1] = "HOLD"
    BY <2>1 DEF JobKept, FlushKeeps
  <2>3. Current = "_feedhold_restart_with_actions"
    BY <1>5, <2>2 DEF Returning, Stopping, Decelerating
  <2>4. QED BY <2>1, <2>3, RestartIsLast
<1>8. Restarting' = Restarting /\ Flushes' = Flushes
  BY <1>0 DEF Restarting, Flushes
<1>9. RestartHolds'
  <2>1. SUFFICES ASSUME Restarting PROVE hold'[1] \in Exiting
    BY <1>8 DEF RestartHolds
  <2>2. hold[1] \in Exiting \/ hold[1] = "HOLD"
    BY <2>1 DEF JobKept, RestartHolds
  <2>3. QED BY <1>5, <1>6, <2>2 DEF Exiting, Stopping, Decelerating
<1>10. RestartFlushes'
  <2>1. SUFFICES ASSUME Restarting, promise = "flush" PROVE Flushes
    BY <1>4, <1>8 DEF RestartFlushes
  <2>2. hold[1] # "OFF"
    BY <2>1 DEF JobKept, RestartHolds, Exiting
  <2>3. QED BY <2>1, <2>2 DEF JobKept, RestartFlushes
<1>11. EnterOff'
  <2>1. Current \in Enters => HoldsNow \/ HoldsWithActions
    BY <1>5 DEF Enters, Returning, AlarmWaits
  <2>2. Current \in Enters => hold'[1] # "OFF"
    BY <1>5, <2>1 DEF Enters, Returning, AlarmWaits, Stopping, Decelerating
  <2>3. QED BY <1>0, <2>2 DEF EnterOff
<1>12. Promised'
  <2>1. SUFFICES ASSUME promise = "flush", hold'[1] \notin {"OFF"} \cup Exiting
                 PROVE  queue_flush_state \/ Killing'
    BY <1>4, <1>5 DEF Promised
  <2>2. CASE hold[1] = "OFF"
    <3>1. HoldsNow
      BY <1>5, <2>1, <2>2
    <3>2. job_kill_state /\ op.acts = <<"_feedhold_no_actions">> /\ cm' = cm
      BY <2>2, <3>1 DEF HoldsNow, JobKept, EnterOff, Enters
    <3>3. cm = 1
      BY <2>2 DEF OpInv, NotInP2, Exiting, Types, QueueTypes
    <3>4. QED BY <1>0, <1>4, <3>2, <3>3 DEF Killing
  <2>3. CASE hold[1] # "OFF"
    <3>1. hold[1] \notin Exiting
      BY <1>5, <1>6, <2>1 DEF Exiting
    <3>2. queue_flush_state \/ Killing
      BY <2>1, <2>3, <3>1 DEF JobKept, Promised
    <3>3. CASE Killing
      <4>1. op.acts = <<"_feedhold_no_actions">> /\ job_kill_state /\ cm = 1
        BY <3>3 DEF Killing
      <4>2. Current = "_feedhold_no_actions"
        <5>1. op.acts[1] = "_feedhold_no_actions" /\ Len(op.acts) = 1
          BY <4>1
        <5>2. op.run \in 1 .. Len(op.acts)
          BY CurrentFacts
        <5>3. QED BY <5>1, <5>2 DEF Current
      <4>3. cm' = cm
        BY <1>5, <4>2 DEF HoldsNow, HoldsWithActions, Returning, AlarmWaits
      <4>4. QED BY <1>0, <1>4, <4>1, <4>3 DEF Killing
    <3>4. QED BY <3>2, <3>3
  <2>4. QED BY <2>2, <2>3
<1>13. QED BY <1>1, <1>2, <1>7, <1>9, <1>10, <1>11, <1>12 DEF JobKept

LEMMA RunKeeps ==
  ASSUME Types, OpInv, Queues, [Next]_vars, run_operation, ~ NoMoves', JobKept
  PROVE  JobKept'
<1>1. CASE op.acts = <<>>
  <2>1. op' = op /\ at' = "input" /\ Nothing /\ at = "operation"
    BY <1>1, RunCases DEF Does
  <2>2. ToRun' = ToRun
    BY <2>1 DEF ToRun
  <2>3. ToRun = {}
    <3>1. op.run = 1 /\ Len(op.acts) = 0
      BY <1>1 DEF Types, OpTypes, Index
    <3>2. 1 .. 0 = {}
      OBVIOUS
    <3>3. QED BY <3>1, <3>2 DEF ToRun
  <2>4. MachineRuns' /\ NoStop' /\ EnterOff' /\ CycleStartFlushes'
    BY <1>1, <2>1 DEF JobKept, MachineRuns, NoStop, EnterOff, CycleStartFlushes, Nothing,
       machines, holds
  <2>5. FlushKeeps' /\ RestartHolds' /\ RestartFlushes'
    BY <2>2, <2>3 DEF FlushKeeps, Flushes, RestartHolds, Restarting, RestartFlushes
  <2>6. Promised'
    <3>1. op.acts # <<"_feedhold_no_actions">>
      <4>1. op.acts = <<"_feedhold_no_actions">> => Len(op.acts) = 1
        OBVIOUS
      <4>2. Len(op.acts) = 0
        BY <1>1
      <4>3. QED BY <4>1, <4>2
    <3>2. ~ Killing
      BY <2>1, <3>1 DEF Killing
    <3>3. QED BY <2>1, <3>2 DEF JobKept, Promised, Nothing, requests, holds
  <2>7. QED BY <2>4, <2>5, <2>6 DEF JobKept
<1>2. CASE op.acts # <<>> /\ GoesOn /\ Current = "_feedhold_with_actions" /\ FinishHold
  <2>1. ToRun' \subseteq Chain /\ Current' = "_feedhold_restart_no_actions"
    BY <1>2, GoesOnToRun, TypesStay
  <2>2. op'.acts # op.acts /\ op'.run # op.run
    <3>1. op.run \in Nat /\ Len(op.acts) \in Nat
      BY <1>2, CurrentFacts
    <3>2. QED BY <1>2, <3>1 DEF GoesOn
  <2>3. ~ Waits /\ ~ Advances
    BY <2>2 DEF Waits, Advances
  <2>4. ~ Ends
    BY <1>2, <2>1, EndsToRun, GoesOnToRun, TypesStay
  <2>5. /\ at' = "operation" /\ UNCHANGED <<queue_flush_state, job_kill_state, promise>>
        /\ queue_flush_state /\ hold'[1] = "HOLD"
    BY <1>2, <2>3, <2>4, RunSteps DEF HoldsNow, HoldsWithActions, LeavesHold, Returning,
       HoldsAgain, Resumes, AlarmWaits, GoesOn
  <2>6. ~ Restarting'
    BY <2>1 DEF Restarting, Chain
  <2>7. MachineRuns'
    BY <1>2, RunMachine
  <2>8. NoStop' /\ FlushKeeps' /\ RestartHolds' /\ RestartFlushes' /\ EnterOff'
    BY <2>1, <2>5, <2>6 DEF NoStop, FlushKeeps, RestartHolds, RestartFlushes, EnterOff, Enters
  <2>9. Promised' /\ CycleStartFlushes'
    BY <2>5 DEF Promised, CycleStartFlushes
  <2>10. QED BY <2>7, <2>8, <2>9 DEF JobKept
<1>3. QED
  BY <1>1, <1>2, DoesShape, EndsKeeps, AdvancesKeeps, WaitsKeeps DEF Types

\* The steps that do not run the operation: they leave it, begin a hold, or
\* add the end of one.
Passes == {<<"input", "planner">>, <<"planner", "job kill">>, <<"job kill", "queue flush">>,
           <<"queue flush", "cycle start">>, <<"cycle start", "operation">>}
QuietHold ==
  \/ hold'[1] = hold[1]
  \/ hold[1] \in Stopping /\ hold'[1] \in Stopping \cup {"MOTION_STOPPED"}
  \/ hold[1] \in Exiting /\ hold'[1] = "EXIT_ACTIONS_COMPLETE"
  \/ /\ cm = 2 /\ hold[1] = "HOLD_ACTIONS_PENDING" /\ hold'[1] = "HOLD"
     /\ ~ queue_flush_state /\ at' = at
QuietRequests ==
  /\ \/ UNCHANGED queue_flush_state
     \/ at = "input" /\ at' # at /\ queue_flush_state' = (hold[1] # "OFF")
  /\ \/ UNCHANGED job_kill_state \/ job_kill_state' = TRUE
     \/ at = "job kill" /\ (~ job_kill_state \/ machine[1] = "ALARM")
  /\ \/ UNCHANGED promise \/ promise' # "flush"
     \/ /\ at = "input" /\ hold[1] \notin {"OFF"} \cup Exiting
        /\ queue_flush_state' = TRUE /\ hold'[1] = hold[1]
QuietPass ==
  /\ at' = at \/ <<at, at'>> \in Passes
  /\ at = "job kill" /\ at' # at /\ job_kill_state => hold[1] # "HOLD" \/ machine[1] = "ALARM"
  /\ at = "queue flush" /\ at' # at => ~ queue_flush_state \/ hold[1] # "HOLD" \/ op.in_operation
Quiet == op' = op /\ cm' = cm /\ QuietHold /\ QuietRequests /\ QuietPass

Adds(l) == /\ ~ op.in_operation /\ op'.run = op.run /\ Behind(op.acts, l, op'.acts)
Asks ==
  /\ at' = "planner" /\ hold[1] = "OFF" /\ hold'[1] = "SYNC" /\ machine[1] \in {"CYCLE", "STOP"}
  /\ machine' = machine /\ promise' # "flush"
  /\ op' = op \/ (op.acts = <<>> /\ \E l \in FirstLists : Adds(l))
KillHolds ==
  /\ at' = "queue flush" /\ job_kill_state /\ hold[1] = "OFF" /\ hold' = hold
  /\ machine[1] = "CYCLE" /\ machine' = machine /\ UNCHANGED requests
  /\ op.acts = <<>> /\ Adds(<<"_feedhold_no_actions">>)
CycleLists == ExitLists \ {FlushChain}
Resumed == /\ hold[1] = "HOLD" /\ UNCHANGED <<holds, machines, cm, queue_flush_state, job_kill_state, promise>>
           /\ \/ /\ at = "queue flush" /\ at' = "cycle start" /\ queue_flush_state
                 /\ Adds(FlushChain)
              \/ /\ at = "cycle start" /\ at' = "operation"
                 /\ \E l \in CycleLists : Adds(l)
CallsBack ==
  /\ cm = 2 /\ cm' = 2 /\ hold[1] = "HOLD_ACTIONS_PENDING" /\ hold'[1] = "HOLD"
  /\ queue_flush_state /\ UNCHANGED <<at, requests, promise>>
  /\ op'.run = op.run /\ op'.in_operation = op.in_operation
  /\ Behind(op.acts, FlushChain, op'.acts)

LEMMA InputSteps ==
  ASSUME Types, OpInv, Queues, [Next]_vars, Input, ~ Line,
         hold[1] # "OFF" => machine[1] \in {"CYCLE", "STOP"}
  PROVE  Quiet \/ Asks
<1>0. /\ cm \in {1, 2} /\ hold \in [1 .. 2 -> HoldStates] /\ op \in Ops /\ Len(op.acts) <= ACTION_MAX
      /\ at = "input" /\ at' = "planner" /\ <<"input", "planner">> \in Passes
  BY DEF Types, QueueTypes, HoldTypes, OpTypes, Index, Input, Passes
<1>1. CASE cm_request_job_kill \/ Nothing \/ cm_request_cycle_start \/ cm_request_queue_flush
  <2>1. op' = op /\ cm' = cm /\ hold' = hold
    BY <1>1 DEF cm_request_job_kill, Nothing, cm_request_cycle_start, cm_request_queue_flush,
       holds, planners
  <2>2. QuietRequests
    BY <1>0, <1>1, <2>1 DEF cm_request_job_kill, Nothing, cm_request_cycle_start,
       cm_request_queue_flush, QuietRequests, requests
  <2>3. QED BY <1>0, <2>1, <2>2 DEF Quiet, QuietHold, QuietPass
<1>2. ASSUME NEW type, NEW l \in FirstLists, cm_request_feedhold(type, l), promise' # "flush",
             UNCHANGED <<machines, requests, planners, stepping>>
      PROVE  Quiet \/ Asks
  <2>1. cm' = cm /\ machine' = machine /\ UNCHANGED <<queue_flush_state, job_kill_state>>
    BY <1>2 DEF planners, machines, requests
  <2>2. CASE machine[1] \notin {"CYCLE", "STOP"}
    <3>1. hold[1] = "OFF" /\ op' = op /\ hold' = [hold EXCEPT ![cm] = "OFF"]
      BY <1>2, <2>2 DEF cm_request_feedhold
    <3>2. hold'[1] = hold[1]
      BY <1>0, <3>1
    <3>3. QED BY <1>0, <1>2, <2>1, <3>1, <3>2 DEF Quiet, QuietHold, QuietPass, QuietRequests
  <2>3. CASE machine[1] \in {"CYCLE", "STOP"} /\ hold[1] = "OFF"
    <3>1. hold' = [hold EXCEPT ![1] = "SYNC"] /\ add_action(l)
      BY <1>2, <2>3 DEF cm_request_feedhold
    <3>2. hold'[1] = "SYNC"
      BY <1>0, <3>1
    <3>3. l \in Seq(Actions)
      BY <1>2, FirstListFacts
    <3>4. op' = op \/ (~ op.in_operation /\ op'.run = op.run /\ Behind(op.acts, l, op'.acts))
      BY <3>1, <3>3, AddShape DEF Types
    <3>5. ~ op.in_operation => op.acts = <<>>
      BY <1>0, <2>3 DEF OpInv, Fresh
    <3>6. QED BY <1>0, <1>2, <2>1, <2>3, <3>2, <3>4, <3>5 DEF Asks, Adds
  <2>4. CASE machine[1] \in {"CYCLE", "STOP"} /\ hold[1] # "OFF"
    <3>1. op' = op /\ (hold' = hold \/ hold' = [hold EXCEPT ![2] = "SYNC"])
      BY <1>2, <2>4 DEF cm_request_feedhold
    <3>2. hold'[1] = hold[1]
      BY <1>0, <3>1
    <3>3. QED BY <1>0, <1>2, <2>1, <3>1, <3>2 DEF Quiet, QuietHold, QuietPass, QuietRequests
  <2>5. QED BY <2>2, <2>3, <2>4
<1>3. CASE Bang
  <2> DEFINE l == <<"_feedhold_with_actions">>
  <2>1. /\ l \in FirstLists /\ cm_request_feedhold("ACTIONS", l) /\ promise' # "flush"
        /\ UNCHANGED <<machines, requests, planners, stepping>>
    BY <1>3 DEF Bang, FirstLists
  <2> HIDE DEF l
  <2>2. QED BY <1>2, <2>1
<1>4. CASE cm_alarm
  <2> DEFINE l == <<"_feedhold_no_actions", "_run_alarm">>
  <2>1. /\ l \in FirstLists /\ cm_request_feedhold("HOLD", l) /\ promise' # "flush"
        /\ UNCHANGED <<machines, requests, planners, stepping>>
    BY <1>4 DEF cm_alarm, FirstLists
  <2> HIDE DEF l
  <2>2. QED BY <1>2, <2>1
<1>5. QED BY <1>1, <1>3, <1>4 DEF Input, Key

LEMMA CallbackSteps ==
  ASSUME Types, OpInv, Queues, [Next]_vars, ~ NoMoves',
         _start_job_kill \/ _start_queue_flush \/ _start_cycle_restart
  PROVE  Quiet \/ KillHolds \/ Resumed
<1>0. /\ op \in Ops /\ OpTypes /\ FlushChain \in Seq(Actions)
      /\ <<"job kill", "queue flush">> \in Passes /\ <<"queue flush", "cycle start">> \in Passes
      /\ <<"cycle start", "operation">> \in Passes
  BY ChainFacts DEF Types, OpTypes, Passes
<1>1. CASE _start_job_kill
  <2>0. /\ at = "job kill" /\ at' = "queue flush" /\ promise' = promise /\ ~ JobKill("END")
    BY <1>1, NoKill DEF _start_job_kill
  <2>1. CASE ~ job_kill_state \/ machine[1] = "ALARM"
    <3>1. op' = op /\ cm' = cm /\ hold' = hold /\ UNCHANGED queue_flush_state
      BY <1>1, <2>1 DEF _start_job_kill, planners
    <3>2. QED BY <1>0, <2>0, <2>1, <3>1 DEF Quiet, QuietHold, QuietRequests, QuietPass
  <2>2. CASE job_kill_state /\ machine[1] # "ALARM"
    <3>1. /\ machine[1] = "CYCLE" /\ hold[1] # "HOLD" /\ cm' = cm /\ hold' = hold /\ machine' = machine
          /\ UNCHANGED requests
          /\ op' = op \/ (hold[1] = "OFF" /\ add_action(<<"_feedhold_no_actions">>))
      BY <1>1, <2>0, <2>2 DEF _start_job_kill, planners, machines
    <3>2. CASE op' = op
      BY <1>0, <2>0, <3>1, <3>2 DEF Quiet, QuietHold, QuietRequests, QuietPass, requests
    <3>3. CASE op' # op
      <4> DEFINE l == <<"_feedhold_no_actions">>
      <4>1. add_action(l) /\ hold[1] = "OFF" /\ l \in Seq(Actions)
        BY <3>1, <3>3, ListsAreActions
      <4> HIDE DEF l
      <4>2. ~ op.in_operation /\ op'.run = op.run /\ Behind(op.acts, l, op'.acts)
        BY <1>0, <3>3, <4>1, AddShape
      <4>3. op.acts = <<>>
        BY <2>0, <4>1, <4>2 DEF OpInv, Fresh
      <4>4. Adds(l)
        BY <4>2 DEF Adds
      <4>5. QED BY <2>0, <2>2, <3>1, <4>1, <4>3, <4>4 DEF KillHolds, l
    <3>4. QED BY <3>2, <3>3
  <2>3. QED BY <2>1, <2>2
<1>2. CASE _start_queue_flush
  <2>0. /\ at = "queue flush" /\ at' = "cycle start" /\ cm' = cm
        /\ UNCHANGED <<machines, holds, requests, promise>>
    BY <1>2 DEF _start_queue_flush, planners
  <2>1. CASE queue_flush_state /\ hold[1] = "HOLD" /\ ~ op.in_operation
    <3>1. add_action(FlushChain)
      BY <1>2, <2>1 DEF _start_queue_flush
    <3>2. Adds(FlushChain)
      BY <1>0, <2>1, <3>1, AddShape DEF Adds
    <3>3. QED BY <2>0, <2>1, <3>2 DEF Resumed, requests
  <2>2. CASE ~ (queue_flush_state /\ hold[1] = "HOLD" /\ ~ op.in_operation)
    <3>1. op' = op
      BY <1>0, <1>2, <2>2, AddShape DEF _start_queue_flush
    <3>2. hold' = hold
      BY <2>0 DEF holds
    <3>3. QED BY <1>0, <2>0, <2>2, <3>1, <3>2 DEF Quiet, QuietHold, QuietRequests, QuietPass, requests
  <2>3. QED BY <2>1, <2>2
<1>3. CASE _start_cycle_restart
  <2>0. /\ at = "cycle start" /\ at' = "operation" /\ cm' = cm
        /\ UNCHANGED <<machines, holds, queue_flush_state, job_kill_state, promise>>
    BY <1>3 DEF _start_cycle_restart, planners
  <2>1. CASE op' = op
    BY <1>0, <2>0, <2>1 DEF Quiet, QuietHold, QuietRequests, QuietPass, holds
  <2>2. CASE op' # op
    <3>1. hold[1] = "HOLD" /\ \E l \in CycleLists : add_action(l)
      <4>1. <<"_feedhold_restart_with_actions", "_run_restart_cycle">> \in CycleLists
            /\ <<"_feedhold_restart_no_actions", "_run_restart_cycle">> \in CycleLists
        BY DEF CycleLists, ExitLists, FlushChain
      <4>2. QED BY <1>3, <2>2, <4>1 DEF _start_cycle_restart
    <3>2. PICK l \in CycleLists : add_action(l)
      BY <3>1
    <3>3. l \in Seq(Actions)
      BY <3>2, ExitListFacts DEF CycleLists
    <3>4. Adds(l)
      BY <1>0, <2>2, <3>2, <3>3, AddShape DEF Adds
    <3>5. QED BY <2>0, <3>1, <3>4 DEF Resumed
  <2>3. QED BY <2>1, <2>2
<1>4. QED BY <1>1, <1>2, <1>3

LEMMA ExecHold ==
  ASSUME Exec
  PROVE  \/ hold' = hold
         \/ \E state : /\ hold' = [hold EXCEPT ![cm] = state]
                       /\ \/ state = hold[cm]
                          \/ hold[cm] \in Stopping /\ state \in Stopping \cup {"MOTION_STOPPED"}
<1>1. CASE ExecMotionStopped
  BY <1>1 DEF ExecMotionStopped, Stopping
<1>2. CASE ExecDecelComplete
  BY <1>2 DEF ExecDecelComplete, Stopping
<1>3. CASE ExecSegment
  <2>1. PICK slow \in Slowing(left) : \E n \in LengthsOf(slow) :
          hold' = [hold EXCEPT ![cm] = IF n > 1 THEN slow
                                       ELSE IF slow = "DECEL_TO_ZERO" THEN "DECEL_COMPLETE" ELSE slow]
    BY <1>3 DEF ExecSegment
  <2>2. slow = hold[cm] \/ (hold[cm] \in Stopping /\ slow \in Stopping)
    BY DEF Slowing, Stopping, Decelerating
  <2>3. slow = "DECEL_TO_ZERO" => hold[cm] \in Stopping
    BY <2>2 DEF Stopping, Decelerating
  <2>4. "DECEL_COMPLETE" \in Stopping
    BY DEF Stopping
  <2>5. QED BY <2>1, <2>2, <2>3, <2>4
<1>4. QED BY <1>1, <1>2, <1>3 DEF Exec, mp_exec_aline, ExecCommand, ExecNothing

LEMMA InterruptSteps ==
  ASSUME Types, OpInv, Queues, [Next]_vars,
         mp_planner_callback \/ Exec \/ Load \/ SegmentEnds \/ UNCHANGED vars
  PROVE  Quiet \/ CallsBack
<1>0. cm \in {1, 2} /\ hold \in [1 .. 2 -> HoldStates]
  BY DEF Types, QueueTypes, HoldTypes
<1>10. /\ op \in Ops /\ Len(op.acts) <= ACTION_MAX /\ FlushChain \in Seq(Actions)
       /\ <<"planner", "job kill">> \in Passes
  BY ChainFacts DEF Types, OpTypes, Index, Passes
<1>1. UNCHANGED <<cm, requests, promise>> /\ (at' = at \/ (at = "planner" /\ at' = "job kill"))
  BY DEF mp_planner_callback, Exec, Load, SegmentEnds, vars, planners
<1>2. QuietRequests /\ QuietPass
  BY <1>1, <1>10 DEF QuietRequests, QuietPass, requests
<1>3. ASSUME op' = op, QuietHold PROVE Quiet
  BY <1>1, <1>2, <1>3 DEF Quiet
<1>4. CASE mp_planner_callback
  <2>1. op' = op /\ (hold' = hold \/ (hold' = [hold EXCEPT ![cm] = "MOTION_STOPPED"]
                                     /\ hold[cm] \in Decelerating))
    BY <1>4 DEF mp_planner_callback
  <2>4. hold' = [hold EXCEPT ![cm] = "MOTION_STOPPED"] =>
          hold'[1] = IF cm = 1 THEN "MOTION_STOPPED" ELSE hold[1]
    BY <1>0
  <2>2. QuietHold
    BY <2>1, <2>4 DEF QuietHold, Stopping
  <2>3. QED BY <1>3, <2>1, <2>2
<1>5. CASE Exec
  <2>1. op' = op
    BY <1>5 DEF Exec
  <2>2. QuietHold
    <3>1. CASE hold' = hold
      BY <3>1 DEF QuietHold
    <3>2. ASSUME NEW state, hold' = [hold EXCEPT ![cm] = state],
                 \/ state = hold[cm]
                 \/ hold[cm] \in Stopping /\ state \in Stopping \cup {"MOTION_STOPPED"}
          PROVE  QuietHold
      <4>1. hold'[1] = IF cm = 1 THEN state ELSE hold[1]
        BY <1>0, <3>2
      <4>2. QED BY <3>2, <4>1 DEF QuietHold
    <3>3. QED BY <1>5, <3>1, <3>2, ExecHold
  <2>3. QED BY <1>3, <2>1, <2>2
<1>6. CASE UNCHANGED <<hold, op>>
  BY <1>3, <1>6 DEF QuietHold
<1>7. CASE Load /\ _feedhold_actions_done_callback
  <2>1. hold' = [hold EXCEPT ![1] = "HOLD", ![2] = "OFF"]
    BY <1>7 DEF _feedhold_actions_done_callback
  <2>2. hold'[1] = "HOLD"
    BY <1>0, <2>1
  <2>3. cm = 2 /\ hold[1] = "HOLD_ACTIONS_PENDING"
    BY <1>7, Callers DEF _feedhold_actions_done_callback, OpInv
  <2>4. at' = at
    BY <1>7 DEF Load
  <2>5. CASE queue_flush_state
    <3>1. op' = Fit(op, FlushChain)
      BY <1>7, <2>5, AddToIsFit DEF _feedhold_actions_done_callback
    <3>2. op'.run = op.run /\ op'.in_operation = op.in_operation
          /\ Behind(op.acts, FlushChain, op'.acts)
      BY <1>10, <3>1, FitFacts
    <3>3. QED BY <1>1, <2>2, <2>3, <2>4, <2>5, <3>2 DEF CallsBack
  <2>6. CASE ~ queue_flush_state
    <3>1. op' = op
      BY <1>7, <2>6 DEF _feedhold_actions_done_callback
    <3>2. QuietHold
      BY <2>2, <2>3, <2>4, <2>6 DEF QuietHold
    <3>3. QED BY <1>3, <3>1, <3>2
  <2>7. QED BY <2>5, <2>6
<1>8. CASE Load /\ _feedhold_restart_actions_done_callback
  <2>1. op' = op /\ hold' = [hold EXCEPT ![1] = "EXIT_ACTIONS_COMPLETE"]
    BY <1>8 DEF _feedhold_restart_actions_done_callback
  <2>2. hold'[1] = "EXIT_ACTIONS_COMPLETE"
    BY <1>0, <2>1
  <2>3. hold[1] \in Exiting
    BY <1>8, Callers DEF _feedhold_restart_actions_done_callback, OpInv
  <2>4. QuietHold
    BY <2>2, <2>3 DEF QuietHold
  <2>5. QED BY <1>3, <2>1, <2>4
<1>9. QED
  BY <1>4, <1>5, <1>6, <1>7, <1>8 DEF Load, OtherCommand, SegmentEnds, vars, holds

LEMMA OtherSteps ==
  ASSUME Types, OpInv, Queues, [Next]_vars, ~ NoMoves', ~ run_operation, ~ Line,
         hold[1] # "OFF" => machine[1] \in {"CYCLE", "STOP"}
  PROVE  Quiet \/ Asks \/ KillHolds \/ Resumed \/ CallsBack
BY InputSteps, CallbackSteps, InterruptSteps DEF Next, Main

LEMMA QuietKeeps ==
  ASSUME Types, OpInv, Queues, [Next]_vars, ~ NoMoves', JobKept, Quiet PROVE JobKept'
<1>0. /\ op' = op /\ cm' = cm /\ QuietHold /\ QuietRequests /\ QuietPass
      /\ ToRun' = ToRun /\ (op.acts # <<>> => Current' = Current)
      /\ Flushes' = Flushes /\ Restarting' = Restarting
  BY DEF Quiet, ToRun, Current, Flushes, Restarting
<1>1. /\ hold'[1] # "OFF" => hold[1] # "OFF"
      /\ hold[1] # "OFF" => hold'[1] # "OFF"
      /\ hold[1] = "HOLD" => hold'[1] = "HOLD"
      /\ hold[1] \in Exiting => hold'[1] \in Exiting
      /\ hold'[1] \notin Exiting => hold[1] \notin Exiting
  BY <1>0 DEF QuietHold, Exiting, Stopping, Decelerating
<1>2. /\ at \notin {"input", "planner", "job kill"} => at' \notin {"input", "planner", "job kill"}
      /\ at \in {"cycle start", "operation"} => at' \in {"cycle start", "operation"}
      /\ at = "operation" => at' = "operation"
      /\ at' = "cycle start" => at = "cycle start" \/ (at = "queue flush" /\ at' # at)
      /\ at \in {"input", "planner"} => at' \in {"input", "planner", "job kill"}
      /\ at = "job kill" => at' = at \/ at' = "queue flush"
      /\ at = "queue flush" => at' \in {"queue flush", "cycle start"}
  BY <1>0 DEF QuietPass, Passes
<1>3. MachineRuns'
  <2>1. hold[1] # "OFF" \/ op.acts # <<>> => machine[1] \in {"CYCLE", "STOP"}
    BY DEF JobKept, MachineRuns
  <2>2. machine[1] \in {"CYCLE", "STOP"} => machine'[1] \in {"CYCLE", "STOP"}
    BY MachineCases
  <2>3. QED BY <1>0, <1>1, <2>1, <2>2 DEF MachineRuns
<1>4. NoStop'
  BY <1>0 DEF JobKept, NoStop
<1>5. FlushKeeps'
  <2>1. SUFFICES ASSUME Flushes
                 PROVE  /\ queue_flush_state' /\ hold'[1] = "HOLD"
                        /\ cm = 2 \/ at' \in {"cycle start", "operation"}
    BY <1>0 DEF FlushKeeps
  <2>2. queue_flush_state /\ hold[1] = "HOLD" /\ (cm = 2 \/ at \in {"cycle start", "operation"})
    BY <2>1 DEF JobKept, FlushKeeps
  <2>3. queue_flush_state' = queue_flush_state \/ queue_flush_state' = (hold[1] # "OFF")
    BY <1>0 DEF QuietRequests
  <2>4. queue_flush_state'
    BY <2>2, <2>3
  <2>5. QED BY <1>1, <1>2, <2>2, <2>4
<1>6. RestartHolds'
  <2>1. Restarting => hold[1] \in Exiting \/ (hold[1] = "HOLD" /\ at = "operation")
    BY DEF JobKept, RestartHolds
  <2>2. QED BY <1>0, <1>1, <1>2, <2>1 DEF RestartHolds
<1>7. RestartFlushes'
  <2>1. SUFFICES ASSUME Restarting, promise' = "flush"
                 PROVE  Flushes
    BY <1>0 DEF RestartFlushes
  <2>2. hold[1] \in Exiting \/ (hold[1] = "HOLD" /\ at = "operation")
    BY <2>1 DEF JobKept, RestartHolds
  <2>3. promise = "flush"
    BY <1>0, <2>1, <2>2 DEF QuietRequests
  <2>4. hold[1] # "OFF"
    BY <2>2 DEF Exiting
  <2>5. QED BY <2>1, <2>3, <2>4 DEF JobKept, RestartFlushes
<1>8. EnterOff'
  <2>1. SUFFICES ASSUME op.acts # <<>>, Current \in Enters, hold'[1] = "OFF"
                 PROVE  /\ job_kill_state' /\ op.acts = <<"_feedhold_no_actions">>
                        /\ at' \in {"queue flush", "cycle start", "operation"}
    BY <1>0 DEF EnterOff
  <2>2. /\ job_kill_state /\ op.acts = <<"_feedhold_no_actions">>
        /\ at \in {"queue flush", "cycle start", "operation"}
    BY <1>1, <2>1 DEF JobKept, EnterOff
  <2>3. job_kill_state'
    BY <1>0, <2>2 DEF QuietRequests
  <2>4. at' \in {"queue flush", "cycle start", "operation"}
    BY <1>2, <2>2
  <2>5. QED BY <2>2, <2>3, <2>4
<1>9. Promised'
  <2>1. SUFFICES ASSUME promise' = "flush", hold'[1] \notin {"OFF"} \cup Exiting
                 PROVE  queue_flush_state' \/ Killing'
    BY DEF Promised
  <2>2. hold[1] \notin {"OFF"} \cup Exiting
    BY <1>1, <2>1
  <2>3. CASE promise # "flush"
    BY <1>0, <2>1, <2>3 DEF QuietRequests
  <2>4. CASE promise = "flush" /\ queue_flush_state
    <3>1. queue_flush_state' = queue_flush_state \/ queue_flush_state' = (hold[1] # "OFF")
      BY <1>0 DEF QuietRequests
    <3>2. queue_flush_state'
      BY <2>2, <2>4, <3>1
    <3>3. QED BY <3>2
  <2>5. CASE Killing
    <3>1. machine[1] # "ALARM"
      BY <2>2 DEF JobKept, MachineRuns
    <3>2. job_kill_state /\ job_kill_state'
      BY <1>0, <2>5, <3>1 DEF Killing, QuietRequests
    <3>3. CASE op.acts = <<"_feedhold_no_actions">>
      BY <1>0, <2>5, <3>2, <3>3 DEF Killing
    <3>4. CASE op.acts = <<>> /\ hold[1] = "HOLD" /\ at \in {"input", "planner", "job kill"}
      <4>1. ~ (at = "job kill" /\ at' # at)
        BY <1>0, <3>1, <3>2, <3>4 DEF QuietPass
      <4>2. at' \in {"input", "planner", "job kill"}
        BY <1>2, <3>4, <4>1
      <4>3. QED BY <1>0, <1>1, <2>5, <3>2, <3>4, <4>2 DEF Killing
    <3>5. QED BY <2>5, <3>3, <3>4 DEF Killing
  <2>6. QED BY <2>2, <2>3, <2>4, <2>5 DEF JobKept, Promised
<1>10. CycleStartFlushes'
  <2>1. SUFFICES ASSUME at' = "cycle start", hold'[1] = "HOLD", queue_flush_state',
                        ~ op.in_operation
                 PROVE  Flushes
    BY <1>0 DEF CycleStartFlushes
  <2>2. at \in {"cycle start", "queue flush"}
    BY <1>2, <2>1
  <2>3. queue_flush_state' = queue_flush_state
    BY <1>0, <2>2 DEF QuietRequests
  <2>4. queue_flush_state
    BY <2>1, <2>3
  <2>5. hold[1] = "HOLD"
    BY <1>0, <2>1, <2>4 DEF QuietHold, Stopping, Decelerating
  <2>6. at = "cycle start"
    BY <1>0, <1>2, <2>1, <2>4, <2>5 DEF QuietPass
  <2>7. QED BY <2>1, <2>4, <2>5, <2>6 DEF JobKept, CycleStartFlushes
<1>11. QED BY <1>3, <1>4, <1>5, <1>6, <1>7, <1>8, <1>9, <1>10 DEF JobKept

\* What the lists leave to run
LEMMA ListElements ==
  /\ \A l \in FirstLists : \A i \in 1 .. Len(l) : l[i] \in Enters \cup {"_run_alarm"}
  /\ \A l \in CycleLists : \A i \in 1 .. Len(l) : l[i] \in Restarts \cup {"_run_restart_cycle"}
  /\ \A i \in 1 .. Len(FlushChain) : FlushChain[i] \in Chain
<1>1. \A l \in FirstLists : \A i \in 1 .. Len(l) : l[i] \in Enters \cup {"_run_alarm"}
  BY DEF FirstLists, Enters
<1>2. \A l \in CycleLists : \A i \in 1 .. Len(l) : l[i] \in Restarts \cup {"_run_restart_cycle"}
  BY DEF CycleLists, ExitLists, Restarts
<1>3. \A i \in 1 .. Len(FlushChain) : FlushChain[i] \in Chain
  BY ChainFacts DEF Chain
<1>4. QED BY <1>1, <1>2, <1>3

LEMMA AsksKeeps ==
  ASSUME Types, OpInv, Queues, [Next]_vars, JobKept, Asks PROVE JobKept'
<1>1. ~ Flushes /\ ~ Restarting
  BY DEF Asks, JobKept, FlushKeeps, RestartHolds, Exiting
<1>2. ~ Flushes' /\ ~ Restarting' /\ NoStop'
  <2>1. CASE op' = op
    BY <1>1, <2>1 DEF JobKept, NoStop, Flushes, Restarting, ToRun, Current
  <2>2. ASSUME op.acts = <<>>, NEW l \in FirstLists, Adds(l)
        PROVE  ~ Flushes' /\ ~ Restarting' /\ NoStop'
    <3>1. /\ l \in Seq(Actions) /\ Len(l) \in 1 .. 3 /\ l[1] \in Enters
          /\ \A i \in 1 .. Len(l) : l[i] \in Enters \cup {"_run_alarm"}
      BY <2>2, FirstListFacts, ListElements
    <3>2. ToRun' \subseteq ToRun \cup {l[i] : i \in 1 .. Len(l)} /\ Current' = l[1]
      BY <2>2, <3>1, BehindToRun, TypesStay DEF Adds
    <3>3. QED BY <1>1, <3>1, <3>2 DEF Flushes, Restarting, NoStop, Enters
  <2>3. QED BY <2>1, <2>2 DEF Asks
<1>3. MachineRuns'
  BY DEF Asks, MachineRuns
<1>4. QED
  BY <1>2, <1>3 DEF Asks, JobKept, FlushKeeps, RestartHolds, RestartFlushes, EnterOff, Promised,
     CycleStartFlushes

LEMMA KillHoldsKeeps ==
  ASSUME Types, OpInv, Queues, [Next]_vars, JobKept, KillHolds PROVE JobKept'
<1> DEFINE l == <<"_feedhold_no_actions">>
<1>1. /\ l \in Seq(Actions) /\ Len(l) = 1 /\ l[1] = "_feedhold_no_actions"
      /\ KillHolds /\ Adds(l) /\ op.acts = <<>>
  BY ListsAreActions, Singles DEF KillHolds
<1>2. ~ Flushes /\ ~ Restarting
  BY DEF KillHolds, JobKept, FlushKeeps, RestartHolds, Exiting
<1>3. op'.acts = l
  <2>1. /\ op'.acts \in Seq(Actions) /\ Len(op'.acts) = 1 /\ op'.acts[1] = l[1]
    <3>1. op'.acts \in Seq(Actions) /\ Len(op'.acts) \in Nat /\ Len(op.acts) = 0
      BY <1>1, TypesStay, SeqFacts DEF Types, OpTypes, Ops
    <3> HIDE DEF l
    <3>2. Behind(op.acts, l, op'.acts) /\ Len(l) = 1
      BY <1>1 DEF Adds
    <3>3. Len(op'.acts) = 1
      BY <3>1, <3>2 DEF Behind, ACTION_MAX
    <3>4. 1 \in Len(op.acts) + 1 .. Len(op'.acts) /\ 1 - Len(op.acts) = 1
      BY <3>1, <3>3
    <3>5. op'.acts[1] = l[1]
      BY <3>2, <3>4 DEF Behind
    <3>6. QED BY <3>1, <3>3, <3>5
  <2>2. QED BY <1>1, <2>1, SeqEqual
<1> HIDE DEF l
<1>4. ToRun' \subseteq ToRun \cup {l[i] : i \in 1 .. Len(l)} /\ Current' = l[1]
  BY <1>1, BehindToRun, TypesStay DEF Adds
<1>5. ~ Flushes' /\ ~ Restarting' /\ NoStop'
  BY <1>1, <1>2, <1>4 DEF Flushes, Restarting, NoStop
<1>6. EnterOff'
  <2>1. job_kill_state /\ UNCHANGED job_kill_state /\ at' = "queue flush"
    BY <1>1 DEF KillHolds, requests
  <2>2. job_kill_state'
    BY <2>1
  <2>3. op'.acts = <<"_feedhold_no_actions">>
    BY <1>3 DEF l
  <2>4. QED BY <2>1, <2>2, <2>3 DEF EnterOff
<1>7. MachineRuns'
  BY <1>1 DEF KillHolds, MachineRuns
<1>8. QED
  BY <1>1, <1>5, <1>6, <1>7 DEF KillHolds, JobKept, FlushKeeps, RestartHolds, RestartFlushes,
     Promised, CycleStartFlushes

\* A list that is ended, and begins with the end of a hold, has a flush in it.
LEMMA EndedFlushes ==
  ASSUME Types, OpInv, op.acts # <<>>, op.run = 1, op.acts[1] \in Restarts, Ended(op.acts)
  PROVE  Flushes
<1>1. /\ Sound(op.acts) /\ Len(op.acts) \in Nat /\ Len(op.acts) > 0
  BY CurrentFacts, SeqFacts DEF OpInv, Grammar
<1>2. \A i \in 1 .. Len(op.acts) - 1 : op.acts[i + 1] \in Follows(op.acts[i])
  BY <1>1 DEF Sound
<1>3. Len(op.acts) >= 3
  <2>1. CASE Len(op.acts) = ACTION_MAX
    BY <2>1 DEF ACTION_MAX
  <2>2. CASE op.acts[Len(op.acts)] \in {"_feedhold_with_actions", "_run_program_stop"}
    <3>1. Len(op.acts) # 1
      BY <2>2 DEF Restarts
    <3>2. Len(op.acts) # 2
      <4>1. SUFFICES ASSUME Len(op.acts) = 2 PROVE FALSE
        OBVIOUS
      <4>2. 1 \in 1 .. Len(op.acts) - 1 /\ 1 + 1 = 2
        BY <4>1
      <4>3. op.acts[2] \in Follows(op.acts[1])
        BY <1>2, <4>2
      <4>4. op.acts[2] \in {"_feedhold_with_actions", "_run_program_stop"}
        BY <2>2, <4>1
      <4>5. QED BY <4>3, <4>4 DEF Follows, Restarts
    <3> DEFINE n == Len(op.acts)
    <3>3. n \in Nat /\ n > 0 /\ n # 1 /\ n # 2
      BY <1>1, <3>1, <3>2
    <3> HIDE DEF n
    <3>4. n >= 3
      BY <3>3
    <3>5. QED BY <3>4 DEF n
  <2>3. QED BY <2>1, <2>2 DEF Ended
<1>4. op.acts[2] \in Follows(op.acts[1]) /\ op.acts[3] \in Follows(op.acts[2])
  <2>1. 1 \in 1 .. Len(op.acts) - 1 /\ 2 \in 1 .. Len(op.acts) - 1 /\ 1 + 1 = 2 /\ 2 + 1 = 3
    BY <1>1, <1>3
  <2>2. QED BY <1>2, <2>1
<1>5. op.acts[2] = "_run_queue_flush"
  BY <1>4 DEF Follows, Restarts
<1>6. 2 \in op.run .. Len(op.acts)
  BY <1>1, <1>3
<1>7. QED BY <1>5, <1>6 DEF Flushes, ToRun

LEMMA SingleList ==
  ASSUME NEW a, NEW s, s = <<a>> PROVE s # <<>> /\ s[1] = a
<1>1. Len(<<a>>) = 1 /\ <<a>>[1] = a /\ Len(<<>>) = 0
  OBVIOUS
<1>2. QED BY <1>1

\* While it waits in HOLD, between two callbacks, the operation is empty or
\* has the end of the hold before it.
LEMMA HeldOperation ==
  ASSUME Types, OpInv, FirstRuns, JobKept, hold[1] = "HOLD", ~ op.in_operation,
         at \in {"queue flush", "cycle start"}
  PROVE  /\ ~ Killing
         /\ op.acts # <<>> => op.acts[1] \in Restarts /\ Flushes /\ Current \in Restarts
<1>1. op.acts # <<>> => op.acts[1] \in Restarts /\ Ended(op.acts)
  BY DEF OpInv, Idle, Stopping, Decelerating
<1>2. op.run = 1
  BY DEF FirstRuns
<1>3. op.acts # <<"_feedhold_no_actions">>
  <2>1. op.acts = <<"_feedhold_no_actions">> => op.acts # <<>> /\ op.acts[1] = "_feedhold_no_actions"
    BY SingleList
  <2>2. QED BY <1>1, <2>1 DEF Restarts
<1>4. QED BY <1>1, <1>2, <1>3, EndedFlushes DEF Killing, Current

LEMMA ResumedKeeps ==
  ASSUME Types, OpInv, Queues, FirstRuns, [Next]_vars, ~ NoMoves', JobKept, Resumed
  PROVE  JobKept'
<1>0. /\ hold[1] = "HOLD" /\ hold'[1] = "HOLD" /\ cm' = cm /\ machine' = machine
      /\ UNCHANGED <<queue_flush_state, job_kill_state, promise>>
      /\ ~ op.in_operation /\ at \in {"queue flush", "cycle start"}
      /\ at' = IF at = "queue flush" THEN "cycle start" ELSE "operation"
  BY DEF Resumed, holds, machines, Adds
<1>1. ~ Killing /\ (op.acts # <<>> => op.acts[1] \in Restarts /\ Flushes /\ Current \in Restarts)
  BY <1>0, HeldOperation
<1>2. ASSUME NEW l \in ExitLists, Adds(l)
      PROVE  /\ ToRun \subseteq ToRun' /\ ToRun' \subseteq ToRun \cup {l[i] : i \in 1 .. Len(l)}
             /\ Current' \in Restarts /\ op'.acts # <<>>
             /\ op.acts = <<>> => \A i \in 1 .. Len(l) : l[i] \in ToRun'
  <2>1. l \in Seq(Actions) /\ Len(l) \in 1 .. 3 /\ l[1] \in Restarts
    BY <1>2, ExitListFacts
  <2>2. QED BY <1>1, <1>2, <2>1, BehindToRun, TypesStay DEF Adds
<1>3. MachineRuns'
  BY <1>0 DEF JobKept, MachineRuns
<1>4. EnterOff' /\ Promised'
  <2>1. promise = "flush" => queue_flush_state
    BY <1>0, <1>1 DEF JobKept, Promised, Exiting
  <2>2. QED BY <1>0, <2>1 DEF EnterOff, Promised
<1>5. CASE at = "queue flush" /\ queue_flush_state /\ Adds(FlushChain)
  <2>1. /\ ToRun' \subseteq ToRun \cup Chain /\ Current' \in Restarts
        /\ Flushes'
    <3>1. "_run_queue_flush" = FlushChain[2] /\ 2 \in 1 .. Len(FlushChain)
      BY ChainFacts
    <3>2. /\ ToRun \subseteq ToRun' /\ Current' \in Restarts
          /\ ToRun' \subseteq ToRun \cup {FlushChain[i] : i \in 1 .. Len(FlushChain)}
          /\ op.acts = <<>> => \A i \in 1 .. Len(FlushChain) : FlushChain[i] \in ToRun'
      BY <1>2, <1>5, ChainIsExit
    <3>3. ToRun' \subseteq ToRun \cup Chain
      BY <3>2, ListElements
    <3>4. Flushes'
      BY <1>1, <3>1, <3>2 DEF Flushes
    <3>5. QED BY <3>2, <3>3, <3>4
  <2>2. ~ Restarting
    BY <1>0, <1>5 DEF JobKept, RestartHolds, Exiting
  <2>3. ~ Restarting'
    BY <2>1, <2>2 DEF Restarting, Chain
  <2>4. NoStop'
    BY <2>1 DEF NoStop, Restarts
  <2>5. QED
    BY <1>0, <1>3, <1>4, <1>5, <2>1, <2>3, <2>4 DEF JobKept, FlushKeeps, RestartHolds, RestartFlushes,
       CycleStartFlushes
<1>6. ASSUME at = "cycle start", NEW l \in CycleLists, Adds(l) PROVE JobKept'
  <2>1. /\ ToRun \subseteq ToRun' /\ Current' \in Restarts
        /\ ToRun' \subseteq ToRun \cup Restarts \cup {"_run_restart_cycle"}
    <3>1. l \in ExitLists
      BY <1>6 DEF CycleLists
    <3>2. /\ ToRun \subseteq ToRun' /\ Current' \in Restarts
          /\ ToRun' \subseteq ToRun \cup {l[i] : i \in 1 .. Len(l)}
      BY <1>2, <1>6, <3>1
    <3>3. \A i \in 1 .. Len(l) : l[i] \in Restarts \cup {"_run_restart_cycle"}
      BY <1>6, ListElements
    <3>4. QED BY <3>2, <3>3
  <2>2. Flushes' => Flushes
    BY <2>1 DEF Flushes, Restarts
  <2>3. Flushes => Flushes'
    BY <2>1 DEF Flushes
  <2>4. FlushKeeps'
    BY <1>0, <1>6, <2>2 DEF JobKept, FlushKeeps
  <2>5. RestartFlushes'
    <3>1. promise = "flush" => queue_flush_state
      BY <1>0, <1>1 DEF JobKept, Promised, Exiting
    <3>2. queue_flush_state => Flushes
      BY <1>0, <1>6 DEF JobKept, CycleStartFlushes
    <3>3. QED BY <1>0, <2>3, <3>1, <3>2 DEF RestartFlushes
  <2>6. NoStop' /\ RestartHolds' /\ CycleStartFlushes'
    BY <1>0, <1>6, <2>1 DEF NoStop, Restarts, RestartHolds, CycleStartFlushes
  <2>7. QED BY <1>3, <1>4, <2>4, <2>5, <2>6 DEF JobKept
<1>7. QED BY <1>5, <1>6 DEF Resumed

LEMMA CallsBackKeeps ==
  ASSUME Types, OpInv, Queues, [Next]_vars, ~ NoMoves', JobKept, CallsBack
  PROVE  JobKept'
<1>0. /\ cm = 2 /\ cm' = 2 /\ hold[1] = "HOLD_ACTIONS_PENDING" /\ hold'[1] = "HOLD"
      /\ queue_flush_state /\ at' = at /\ UNCHANGED <<queue_flush_state, promise>>
      /\ op'.run = op.run /\ op'.in_operation = op.in_operation
      /\ Behind(op.acts, FlushChain, op'.acts)
  BY DEF CallsBack, requests
<1>1. /\ ToRun \subseteq ToRun' /\ ToRun' \subseteq ToRun \cup Chain /\ op'.acts # <<>>
      /\ op.acts = <<>> => Current' = "_feedhold_restart_no_actions" /\ Flushes'
      /\ op.acts # <<>> => Current' = Current
  <2>1. FlushChain \in Seq(Actions) /\ Len(FlushChain) = 3 /\ 2 \in 1 .. Len(FlushChain)
        /\ FlushChain[2] = "_run_queue_flush" /\ FlushChain[1] = "_feedhold_restart_no_actions"
    BY ChainFacts
  <2>2. /\ ToRun \subseteq ToRun' /\ ToRun' \subseteq ToRun \cup {FlushChain[i] : i \in 1 .. Len(FlushChain)}
        /\ op'.acts # <<>>
        /\ op.acts = <<>> => Current' = FlushChain[1] /\ \A i \in 1 .. Len(FlushChain) : FlushChain[i] \in ToRun'
        /\ op.acts # <<>> => Current' = Current
    BY <1>0, <2>1, BehindToRun, TypesStay
  <2>3. QED BY <2>1, <2>2, ListElements DEF Flushes
<1>2. MachineRuns'
  <2>1. machine[1] \in {"CYCLE", "STOP"}
    BY <1>0 DEF JobKept, MachineRuns
  <2>2. QED BY <2>1, MachineCases DEF MachineRuns
<1>3. NoStop'
  BY <1>1 DEF JobKept, NoStop
<1>4. ~ Restarting'
  <2>1. ~ Restarting
    BY <1>0 DEF JobKept, RestartHolds, Exiting
  <2>2. QED BY <1>1, <2>1 DEF Restarting, Chain
<1>5. CycleStartFlushes'
  <2>1. SUFFICES ASSUME at = "cycle start", ~ op.in_operation
                 PROVE  Flushes'
    BY <1>0 DEF CycleStartFlushes
  <2>2. op.acts = <<>>
    <3>4. cm = 2
      BY DEF CallsBack
    <3>5. cm # 1
      BY <3>4
    <3>6. at # "operation"
      BY <2>1
    <3>1. op.acts # <<>> => op.acts[1] \in Restarts
      BY <2>1, <3>5, <3>6 DEF OpInv, Idle
    <3>2. op.acts # <<>> => op.acts[1] = "_feedhold_with_actions"
      BY <1>0 DEF OpInv, Pending
    <3>3. QED BY <3>1, <3>2 DEF Restarts
  <2>3. QED BY <1>1, <2>2
<1>6. FlushKeeps' /\ RestartHolds' /\ RestartFlushes' /\ EnterOff' /\ Promised'
  <2>1. queue_flush_state'
    BY <1>0
  <2>2. QED BY <1>0, <1>4, <2>1 DEF FlushKeeps, RestartHolds, RestartFlushes, EnterOff, Promised
<1>7. QED BY <1>2, <1>3, <1>5, <1>6 DEF JobKept

LEMMA LineKeeps ==
  ASSUME Types, Line PROVE JobKept'
<1>1. hold' = hold /\ op' = op /\ hold[1] = "OFF" /\ op.acts = <<>>
  BY DEF Line, holds
<1>2. ToRun' = {}
  <2>1. op.run = 1 /\ Len(op.acts) = 0
    BY <1>1 DEF Types, OpTypes, Index
  <2>2. 1 .. 0 = {}
    OBVIOUS
  <2>3. QED BY <1>1, <2>1, <2>2 DEF ToRun
<1>3. ~ Flushes' /\ ~ Restarting'
  BY <1>2 DEF Flushes, Restarting
<1>4. QED
  BY <1>1, <1>3 DEF JobKept, MachineRuns, NoStop, FlushKeeps, RestartHolds, RestartFlushes,
     EnterOff, Promised, CycleStartFlushes

LEMMA JobInvStays ==
  ASSUME Types, OpInv, Queues, FirstRuns, JobInv, [Next]_vars PROVE JobInv'
<1>1. CASE NoMoves'
  BY <1>1 DEF JobInv
<1>2. CASE Line
  BY <1>2, LineKeeps DEF JobInv
<1>3. CASE ~ NoMoves' /\ ~ Line
  <2>1. JobKept
    BY <1>3, NoMovesStays DEF JobInv
  <2>2. CASE run_operation
    BY <1>3, <2>1, <2>2, RunKeeps DEF JobInv
  <2>3. CASE ~ run_operation
    <3>1. hold[1] # "OFF" => machine[1] \in {"CYCLE", "STOP"}
      BY <2>1 DEF JobKept, MachineRuns
    <3>2. Quiet \/ Asks \/ KillHolds \/ Resumed \/ CallsBack
      BY <1>3, <2>3, <3>1, OtherSteps
    <3>3. JobKept'
      BY <1>3, <2>1, <3>2, QuietKeeps, AsksKeeps, KillHoldsKeeps, ResumedKeeps, CallsBackKeeps
    <3>4. QED BY <3>3 DEF JobInv
  <2>4. QED BY <2>2, <2>3
<1>4. QED BY <1>1, <1>2, <1>3

JobHolds == FirstRuns /\ JobInv

LEMMA AlwaysJob == Spec => []JobHolds
<1>1. Init => JobHolds
  <2>1. SUFFICES ASSUME Init PROVE JobHolds
    OBVIOUS
  <2>2. q[1] = <<>>
    BY <2>1 DEF Init
  <2>3. NoMoves
    BY <2>2 DEF NoMoves, ToSet
  <2>4. FirstRuns
    BY <2>1 DEF Init, NoOperation, FirstRuns
  <2>5. QED BY <2>3, <2>4 DEF JobHolds, JobInv
<1>2. HoldInv /\ JobHolds /\ [Next]_vars => JobHolds'
  BY JobInvStays, FirstRunsStays DEF HoldInv, JobHolds
<1>3. QED BY <1>1, <1>2, AlwaysHold, PTL DEF Spec

---------------------------------------------------------------------------
(* How many moves the job has *)

LEMMA NoMovesCount ==
  ASSUME NoMoves PROVE Moves(q[1]) = 0
<1>1. {i \in DOMAIN q[1] : q[1][i] = "move"} = {}
  BY DEF NoMoves, ToSet
<1>2. QED BY <1>1, FS_EmptySet DEF Moves

LEMMA NoMovesCountNext ==
  ASSUME NoMoves' PROVE Moves(q'[1]) = 0
<1>1. {i \in DOMAIN q'[1] : q'[1][i] = "move"} = {}
  BY DEF NoMoves, ToSet
<1>2. QED BY <1>1, FS_EmptySet DEF Moves

LEMMA MovesNat ==
  ASSUME NEW s \in Seq(Blocks) PROVE Moves(s) \in Nat
<1>1. IsFiniteSet(DOMAIN s)
  BY SeqFacts, FS_Interval
<1>2. {i \in DOMAIN s : s[i] = "move"} \in SUBSET DOMAIN s
  OBVIOUS
<1>3. QED BY <1>1, <1>2, FS_Subset, FS_CardinalityType DEF Moves

\* The end of a command takes no move.
LEMMA TailKeepsMoves ==
  ASSUME NEW s \in Seq(Blocks), s # <<>>, s[1] # "move"
  PROVE  Moves(Tail(s)) = Moves(s)
<1> DEFINE A == {i \in DOMAIN s : s[i] = "move"}
           B == {i \in DOMAIN Tail(s) : Tail(s)[i] = "move"}
           F == [i \in B |-> i + 1]
<1>1. /\ DOMAIN s = 1 .. Len(s) /\ Len(s) \in Nat /\ Len(s) > 0
      /\ DOMAIN Tail(s) = 1 .. Len(s) - 1
      /\ \A k \in 1 .. Len(s) - 1 : Tail(s)[k] = s[k + 1]
  BY SeqFacts, TailFacts
<1>2. IsFiniteSet(B)
  <2>1. IsFiniteSet(1 .. Len(s) - 1) /\ B \in SUBSET (1 .. Len(s) - 1)
    BY <1>1, FS_Interval
  <2>2. QED BY <2>1, FS_Subset
<1>3. \A i \in B : i \in Int /\ i + 1 \in A
  BY <1>1
<1>4. \A j \in A : \E i \in B : i + 1 = j
  <2>1. SUFFICES ASSUME NEW j \in A PROVE \E i \in B : i + 1 = j
    OBVIOUS
  <2>2. j \in 1 .. Len(s) /\ s[j] = "move" /\ j # 1
    BY <1>1
  <2>3. j - 1 \in 1 .. Len(s) - 1 /\ (j - 1) + 1 = j
    BY <1>1, <2>2
  <2>4. j - 1 \in B
    BY <1>1, <2>2, <2>3
  <2>5. QED BY <2>3, <2>4
<1> HIDE DEF A, B
<1>5. F \in [B -> A] /\ (\A a, b \in B : F[a] = F[b] => a = b) /\ \A t \in A : \E i \in B : F[i] = t
  BY <1>3, <1>4
<1> HIDE DEF F
<1>6. F \in Bijection(B, A)
  BY <1>5, Fun_IsBij
<1>7. ExistsBijection(B, A)
  BY <1>6, Fun_ExistsBij
<1>8. Cardinality(A) = Cardinality(B)
  BY <1>2, <1>7, FS_Bijection
<1>9. QED BY <1>8 DEF A, B, Moves

LEMMA EndOfFlush ==
  ASSUME HoldInv, JobHolds, [Next]_vars, promise = "flush", hold[1] # "OFF", hold'[1] = "OFF"
  PROVE  Moves(q'[1]) = 0
<1>0. Types /\ OpInv /\ Queues /\ JobInv /\ ~ Line
  BY DEF HoldInv, JobHolds, Line
<1>1. CASE NoMoves'
  BY <1>1, NoMovesCountNext
<1>2. CASE ~ NoMoves'
  <2>1. JobKept
    BY <1>0, <1>2, NoMovesStays DEF JobInv
  <2>2. CASE run_operation
    <3>1. op.acts # <<>>
      <4>1. op.acts = <<>> => hold'[1] = hold[1]
        BY <2>2, RunCases DEF Does, Nothing, holds
      <4>2. QED BY <4>1
    <3>2. Resumes
      BY <1>0, <1>2, <2>1, <2>2, <3>1, RunSteps DEF HoldsNow, HoldsWithActions, LeavesHold,
         Returning, HoldsAgain, AlarmWaits
    <3>3. Restarting
      <4>1. op.run \in op.run .. Len(op.acts)
        BY <1>0, <3>1, CurrentFacts
      <4>2. QED BY <3>2, <4>1 DEF Resumes, Restarting, ToRun, Current
    <3>4. Flushes
      BY <2>1, <3>3 DEF JobKept, RestartFlushes
    <3>5. ~ Flushes
      BY <1>0, <3>1, <3>2, RestartIsLast DEF Resumes
    <3>6. QED BY <3>4, <3>5
  <2>3. CASE ~ run_operation
    <3>1. Quiet \/ Asks \/ KillHolds \/ Resumed \/ CallsBack
      BY <1>0, <1>2, <2>1, <2>3, OtherSteps DEF JobKept, MachineRuns
    <3>2. hold'[1] # "OFF"
      BY <3>1 DEF Quiet, QuietHold, Exiting, Stopping, Decelerating, Asks, KillHolds, Resumed,
         CallsBack, holds
    <3>3. QED BY <3>2
  <2>4. QED BY <2>2, <2>3
<1>3. QED BY <1>1, <1>2

\* A flush that ends a hold ends it with no move of the job left: neither the
\* restart nor an alarm or a kill in between lets one through.
THEOREM FlushEndsTheMoves == Spec => FlushDropsTheJob
<1>1. HoldInv /\ JobHolds /\ [Next]_vars =>
        [promise = "flush" /\ hold[1] # "OFF" /\ hold'[1] = "OFF" => Moves(q'[1]) = 0]_vars
  BY EndOfFlush
<1>2. QED BY <1>1, AlwaysHold, AlwaysJob, PTL DEF Spec, FlushDropsTheJob

\* What can take a block from a job that is held
LEMMA HeldQueue ==
  ASSUME Types, OpInv, Queues, [Next]_vars, hold[1] \in Stopped
  PROVE  \/ q'[1] = q[1] \/ job_kill_state \/ "_run_alarm" \in ToSet(op.acts) \/ Flushes
         \/ cm = 1 /\ q[1] # <<>> /\ q[1][1] = "command" /\ q'[1] = Tail(q[1])
<1>0. q \in [1 .. 2 -> Seq(Blocks)] /\ cm \in {1, 2} /\ hold[1] \notin {"OFF", "MOTION_STOPPING"} \cup Decelerating
  BY DEF Types, QueueTypes, Stopped, Decelerating
<1>1. ASSUME NEW blocks, q' = [q EXCEPT ![2] = blocks] PROVE q'[1] = q[1]
  BY <1>0, <1>1
<1>2. CASE Input \/ mp_planner_callback \/ _start_queue_flush \/ _start_cycle_restart \/ SegmentEnds
           \/ UNCHANGED vars
  BY <1>0, <1>2 DEF Input, Key, Bang, cm_alarm, cm_request_cycle_start, cm_request_queue_flush,
     cm_request_job_kill, Line, Nothing, mp_planner_callback, _start_queue_flush,
     _start_cycle_restart, SegmentEnds, vars, planners
<1>3. CASE _start_job_kill
  BY <1>3 DEF _start_job_kill, planners
<1>4. CASE run_operation
  <2>1. CASE op.acts # <<>> /\ Current = "_run_alarm"
    BY <2>1, CurrentFacts
  <2>2. CASE op.acts # <<>> /\ Current = "_run_queue_flush"
    <3>1. op.run \in op.run .. Len(op.acts)
      BY <2>2, CurrentFacts
    <3>2. QED BY <2>2, <3>1 DEF Flushes, ToRun, Current
  <2>3. CASE q' = q
    BY <2>3
  <2>4. ASSUME NEW before, NEW moves, NEW m, NEW c, QueueInP2(before, moves, m, c)
        PROVE  q'[1] = q[1]
    <3> DEFINE all == before \o moves
    <3>1. q' = [q EXCEPT ![2] = all]
      BY <2>4 DEF QueueInP2
    <3> HIDE DEF all
    <3>2. QED BY <1>1, <3>1
  <2>5. \/ q' = q \/ \E before, moves, m, c : QueueInP2(before, moves, m, c)
        \/ op.acts # <<>> /\ Current \in {"_run_alarm", "_run_queue_flush"}
    BY <1>4, RunCases DEF Does, Nothing, _feedhold_no_actions, _feedhold_with_actions,
       _feedhold_restart_no_actions, _feedhold_restart_with_actions, NestedHold,
       _run_restart_cycle, _run_program_stop, planners
  <2>6. QED BY <2>1, <2>2, <2>3, <2>4, <2>5
<1>5. CASE Exec
  <2>1. CASE cm = 1
    <3>1. q' = q
      BY <1>0, <1>5, <2>1 DEF Exec, mp_exec_aline, ExecMotionStopped, ExecDecelComplete,
         ExecSegment, ExecCommand, ExecNothing
    <3>2. QED BY <3>1
  <2>2. CASE cm = 2
    <3>1. q' = q \/ \E blocks : q' = [q EXCEPT ![2] = blocks]
      BY <1>5, <2>2 DEF Exec, mp_exec_aline, ExecMotionStopped, ExecDecelComplete, ExecSegment,
         ExecCommand, ExecNothing
    <3>2. QED BY <1>1, <3>1
  <2>3. QED BY <1>0, <2>1, <2>2
<1>6. CASE Load
  <2>1. CASE UNCHANGED q
    BY <2>1
  <2>2. CASE cm = 2 /\ \E queued : FreeCommand(queued)
    <3>1. \E blocks : q' = [q EXCEPT ![2] = blocks]
      BY <2>2 DEF FreeCommand
    <3>2. QED BY <1>1, <3>1
  <2>3. CASE cm = 1 /\ OtherCommand
    <3>1. q[1] # <<>> /\ q[1][1] = "command"
      BY <1>0, <2>3, TailFacts DEF OtherCommand, HeadIs
    <3> DEFINE rest == Tail(q[1])
    <3>2. rest \in Seq(Blocks) /\ rest \o <<>> = rest
      BY <1>0, <3>1, TailFacts, ConcatEmptySeq
    <3>3. q' = [q EXCEPT ![1] = rest]
      <4>1. q' = [q EXCEPT ![1] = rest \o <<>>]
        BY <2>3 DEF OtherCommand, FreeCommand
      <4> HIDE DEF rest
      <4>2. QED BY <3>2, <4>1
    <3> HIDE DEF rest
    <3>4. q'[1] = rest
      BY <1>0, <3>3
    <3>5. QED BY <2>3, <3>1, <3>4 DEF rest
  <2>4. HeadIs({"hold done"}) \/ HeadIs({"restart done"}) => cm = 2
    BY Callers DEF OpInv
  <2>5. QED
    BY <1>0, <1>6, <2>1, <2>2, <2>3, <2>4 DEF Load, OtherCommand, _feedhold_actions_done_callback,
       _feedhold_restart_actions_done_callback
<1>7. QED BY <1>2, <1>3, <1>4, <1>5, <1>6 DEF Next, Main

LEMMA HeldJob ==
  ASSUME HoldInv, JobHolds, [Next]_vars, hold[1] \in Stopped, Moves(q'[1]) < Moves(q[1])
  PROVE  queue_flush_state \/ job_kill_state \/ "_run_alarm" \in ToSet(op.acts)
<1>0. /\ Types /\ OpInv /\ Queues /\ JobInv /\ q \in [1 .. 2 -> Seq(Blocks)]
      /\ q'[1] \in Seq(Blocks) /\ q[1] \in Seq(Blocks)
  BY TypesStay DEF HoldInv, JobHolds, Types, QueueTypes
<1>1. Moves(q[1]) \in Nat /\ Moves(q'[1]) \in Nat
  BY <1>0, MovesNat
<1>2. Moves(q'[1]) # Moves(q[1]) /\ Moves(q[1]) # 0
  BY <1>1
<1>3. q'[1] # q[1]
  BY <1>2
<1>4. ~ (q[1] # <<>> /\ q[1][1] = "command" /\ q'[1] = Tail(q[1]))
  BY <1>0, <1>2, TailKeepsMoves
<1>5. Flushes => queue_flush_state
  BY <1>0, <1>2, NoMovesCount DEF JobInv, JobKept, FlushKeeps
<1>6. QED BY <1>0, <1>3, <1>4, <1>5, HeldQueue

\* A job that is held loses no move to the hold: the moves of the hold, and a
\* hold within it, leave planner 1 alone.
THEOREM HeldMovesStay == Spec => HeldJobIsKept
<1>1. HoldInv /\ JobHolds /\ [Next]_vars =>
        [hold[1] \in Stopped /\ Moves(q'[1]) < Moves(q[1])
           => queue_flush_state \/ job_kill_state \/ "_run_alarm" \in ToSet(op.acts)]_vars
  BY HeldJob
<1>2. QED BY <1>1, AlwaysHold, AlwaysJob, PTL DEF Spec, HeldJobIsKept

---------------------------------------------------------------------------
(* Without kills: how long the lists are *)

LEMMA NoKillStays ==
  ASSUME "^D" \notin Keys, ~ job_kill_state, [Next]_vars PROVE ~ job_kill_state'
<1>1. CASE Input
  BY <1>1 DEF Input, Key, Bang, cm_alarm, cm_request_cycle_start, cm_request_queue_flush,
     Line, Nothing, requests
<1>2. CASE _start_job_kill
  BY <1>2 DEF _start_job_kill
<1>3. CASE mp_planner_callback \/ _start_queue_flush \/ _start_cycle_restart
  BY <1>3 DEF mp_planner_callback, _start_queue_flush, _start_cycle_restart, requests
<1>4. CASE run_operation
  <2>1. job_kill_state' = job_kill_state \/ job_kill_state' = FALSE
    BY <1>4, RunCases DEF Does, Nothing, requests, _feedhold_no_actions, _feedhold_with_actions,
       _feedhold_restart_no_actions, _feedhold_restart_with_actions, _run_restart_cycle,
       _run_queue_flush, _run_program_stop, _run_alarm, JobKill
  <2>2. QED BY <2>1
<1>5. CASE Exec \/ Load \/ SegmentEnds \/ UNCHANGED vars
  BY <1>5 DEF Exec, Load, SegmentEnds, vars, requests
<1>6. QED BY <1>1, <1>2, <1>3, <1>4, <1>5 DEF Next, Main

\* The main loop in its pass
LEMMA PassCases ==
  ASSUME [Next]_vars, ~ run_operation PROVE at' = at \/ <<at, at'>> \in Passes
BY DEF Next, Main, Input, mp_planner_callback, _start_job_kill, _start_queue_flush,
   _start_cycle_restart, Exec, Load, SegmentEnds, vars, Passes

\* A step that ends in planner 1 leaves planner 2 alone.
LEMMA P1Steps ==
  ASSUME Types, OpInv, Queues, Short, [Next]_vars, cm' = 1
  PROVE  \/ cm = 1 /\ q'[2] = q[2]
         \/ /\ cm = 2 /\ q' = q /\ hold' = hold /\ run_operation /\ op.acts # <<>>
            /\ \/ Current = "_feedhold_restart_no_actions"
               \/ Current = "_feedhold_restart_with_actions" /\ hold[1] = "EXIT_ACTIONS_COMPLETE"
<1>0. q \in [1 .. 2 -> Seq(Blocks)] /\ cm \in {1, 2}
  BY DEF Types, QueueTypes
<1>1. CASE Input
  <2>1. cm' = cm /\ (q' = q \/ \E block \in {"move", "command"} : Appends(block))
    BY <1>1 DEF Input, Key, Bang, cm_alarm, cm_request_cycle_start, cm_request_queue_flush,
       cm_request_job_kill, Line, Nothing, planners, Appends
  <2>2. QED BY <1>0, <2>1 DEF Appends
<1>2. CASE mp_planner_callback \/ _start_queue_flush \/ _start_cycle_restart \/ SegmentEnds
           \/ UNCHANGED vars
  BY <1>2 DEF mp_planner_callback, _start_queue_flush, _start_cycle_restart, SegmentEnds, vars,
     planners
<1>3. CASE _start_job_kill
  BY <1>3 DEF _start_job_kill, Short, planners
<1>4. CASE Exec
  <2>1. cm' = cm /\ (q' = q \/ q' = [q EXCEPT ![cm] = Tail(q[cm])])
    BY <1>4 DEF Exec, mp_exec_aline, ExecMotionStopped, ExecDecelComplete, ExecSegment,
       ExecCommand, ExecNothing
  <2>2. QED BY <1>0, <2>1
<1>5. CASE Load
  <2>1. cm' = cm /\ (q' = q \/ \E rest : q' = [q EXCEPT ![cm] = rest])
    BY <1>5 DEF Load, _feedhold_actions_done_callback, _feedhold_restart_actions_done_callback,
       OtherCommand, FreeCommand
  <2>2. QED BY <1>0, <2>1
<1>6. CASE run_operation
  <2>1. CASE op.acts = <<>> /\ Nothing
    BY <2>1 DEF Nothing, planners
  <2>2. CASE Does("_feedhold_no_actions", _feedhold_no_actions)
    BY <2>2 DEF Does, _feedhold_no_actions
  <2>3. CASE Does("_feedhold_with_actions", _feedhold_with_actions)
    BY <2>3 DEF Does, _feedhold_with_actions, planners
  <2>4. CASE Does("_feedhold_restart_no_actions", _feedhold_restart_no_actions)
    BY <1>0, <1>6, <2>4 DEF Does, _feedhold_restart_no_actions, holds
  <2>5. CASE Does("_feedhold_restart_with_actions", _feedhold_restart_with_actions)
    <3>0. _feedhold_restart_with_actions /\ op.acts # <<>> /\ Current = "_feedhold_restart_with_actions"
      BY <2>5 DEF Does
    <3>1. CASE hold[1] \notin {"HOLD", "EXIT_ACTIONS_PENDING", "EXIT_ACTIONS_COMPLETE"}
      BY <3>0, <3>1 DEF _feedhold_restart_with_actions, planners
    <3>2. CASE hold[1] = "HOLD"
      <4>1. cm = 2
        BY <1>0, <3>0, <3>2 DEF Short, HeldInP1, Restarts
      <4>2. cm' = cm
        BY <3>0, <3>2 DEF _feedhold_restart_with_actions
      <4>3. QED BY <4>1, <4>2
    <3>3. CASE hold[1] = "EXIT_ACTIONS_PENDING"
      <4>1. cm' = cm
        BY <3>0, <3>3 DEF _feedhold_restart_with_actions, NestedHold, planners
      <4>2. QED BY <3>3, <4>1 DEF Short, ExitsInP2
    <3>4. CASE hold[1] = "EXIT_ACTIONS_COMPLETE"
      BY <1>0, <1>6, <3>0, <3>4 DEF _feedhold_restart_with_actions
    <3>5. QED BY <3>1, <3>2, <3>3, <3>4
  <2>6. CASE Does("_run_restart_cycle", _run_restart_cycle)
    BY <2>6 DEF Does, _run_restart_cycle, planners
  <2>7. CASE Does("_run_queue_flush", _run_queue_flush)
    <3>1. cm' = cm /\ q' = [q EXCEPT ![cm] = <<>>]
      BY <2>7 DEF Does, _run_queue_flush, FlushPlanner
    <3>2. QED BY <1>0, <3>1
  <2>8. CASE Does("_run_program_stop", _run_program_stop)
    BY <2>8 DEF Does, _run_program_stop, planners
  <2>9. CASE Does("_run_alarm", _run_alarm)
    <3>1. hold[1] = "HOLD" => cm = 1
      BY <2>9, <1>0 DEF Does, OpInv, InP1, Enters, Restarts
    <3>2. CASE hold[1] = "HOLD"
      <4>1. q' = [q EXCEPT ![1] = <<"command">>]
        BY <2>9, <3>2 DEF Does, _run_alarm, JobKill, FlushPlanner
      <4>2. QED BY <1>0, <3>1, <3>2, <4>1
    <3>3. CASE hold[1] # "HOLD"
      BY <2>9, <3>3 DEF Does, _run_alarm, planners
    <3>4. QED BY <3>2, <3>3
  <2>10. QED BY <1>6, <2>1, <2>2, <2>3, <2>4, <2>5, <2>6, <2>7, <2>8, <2>9, RunCases
<1>7. QED BY <1>1, <1>2, <1>3, <1>4, <1>5, <1>6 DEF Next, Main

LEMMA HoldDoneStays ==
  ASSUME Types, OpInv, Queues, Short, [Next]_vars PROVE HoldDoneInP2'
<1>1. SUFFICES ASSUME cm' = 1 PROVE "hold done" \notin ToSet(q'[2])
  BY DEF HoldDoneInP2
<1>2. CASE cm = 1
  BY <1>1, <1>2, P1Steps DEF Short, HoldDoneInP2
<1>3. CASE cm # 1
  <2>1. /\ cm = 2 /\ q' = q /\ op.acts # <<>> /\ Current \in Restarts
    BY <1>1, <1>3, P1Steps DEF Restarts
  <2>2. hold[1] # "HOLD_ACTIONS_PENDING"
    BY <2>1 DEF OpInv, Pending, Current, Restarts
  <2>3. hold[1] \in {"HOLD"} \cup Exiting
    BY <2>1, <2>2 DEF OpInv, NotInP2
  <2>4. "hold done" \notin ToSet(q[2])
    BY <2>1, <2>3 DEF Queues
  <2>5. QED BY <2>1, <2>4
<1>4. QED BY <1>2, <1>3

\* The last action of a list that had room for what was added, or had none left
LEMMA BehindLast ==
  ASSUME NEW acts \in Seq(Actions), NEW list \in Seq(Actions), NEW l \in Seq(Actions),
         Behind(acts, l, list), Len(l) > 0
  PROVE  /\ Len(acts) + Len(l) <= 6 =>
              Len(list) = Len(acts) + Len(l) /\ list[Len(list)] = l[Len(l)]
         /\ Len(acts) = 6 => Len(list) = 6 /\ list[Len(list)] = acts[Len(acts)]
<1> DEFINE m == Len(list)
           n == Len(acts)
           k == Len(l)
<1>1. m \in Nat /\ m <= 6 /\ m >= n /\ n \in Nat /\ k \in Nat /\ k > 0
  BY LenProperties DEF Behind, ACTION_MAX
<1>2. /\ n + k <= 6 => m = n + k
      /\ \A i \in 1 .. n : list[i] = acts[i]
      /\ \A i \in n + 1 .. m : list[i] = l[i - n]
  BY DEF Behind, ACTION_MAX
<1> HIDE DEF m, n, k
<1>3. ASSUME n + k <= 6 PROVE m = n + k /\ list[m] = l[k]
  <2>1. m = n + k
    BY <1>2, <1>3
  <2>2. m \in n + 1 .. m /\ m - n = k
    BY <1>1, <2>1
  <2>3. list[m] = l[m - n]
    BY <1>2, <2>2
  <2>4. list[m] = l[k]
    BY <2>2, <2>3
  <2>5. QED BY <2>1, <2>4
<1>4. ASSUME n = 6 PROVE m = 6 /\ list[m] = acts[n]
  <2>1. m = 6
    BY <1>1, <1>4
  <2>2. n \in 1 .. n /\ n = m
    BY <1>4, <2>1
  <2>3. QED BY <1>2, <2>1, <2>2
<1>5. QED BY <1>3, <1>4 DEF m, n, k

LEMMA ExitLasts ==
  /\ \A l \in ExitLists : l[Len(l)] \in Lasts
  /\ Len(FlushChain) = 3
<1>1. FlushChain[Len(FlushChain)] \in Lasts
  BY ChainFacts DEF Lasts
<1> DEFINE a == <<"_feedhold_restart_with_actions", "_run_restart_cycle">>
           b == <<"_feedhold_restart_no_actions", "_run_restart_cycle">>
<1>2. Len(a) = 2 /\ a[2] = "_run_restart_cycle" /\ Len(b) = 2 /\ b[2] = "_run_restart_cycle"
  BY Pairs DEF Actions
<1>3. a[Len(a)] \in Lasts /\ b[Len(b)] \in Lasts
  BY <1>2 DEF Lasts
<1>4. QED BY <1>1, <1>3, ChainFacts DEF ExitLists

\* What a request adds to an idle operation
LEMMA BeginsShort ==
  ASSUME Types, Types', Short, [Next]_vars, Begins
  PROVE  /\ op'.acts # <<>> /\ op'.acts[1] \in Enters /\ op'.acts[Len(op'.acts)] \in Lasts
         /\ op'.acts[1] = "_feedhold_with_actions" => Len(op'.acts) = 1
<1>0. op'.acts \in Seq(Actions) /\ op.acts = <<>> /\ op' # op
  <2>1. PICK l \in FirstLists : Behind(op.acts, l, op'.acts)
    BY DEF Begins
  <2>2. op'.acts \in Seq(Actions) /\ op.acts = <<>>
    BY DEF Begins, Types, OpTypes, Ops
  <2>3. op'.acts # <<>>
    BY <2>1, <2>2, FirstListFacts, SoundFirst
  <2>4. QED BY <2>2, <2>3
<1>1. Input
  <2>1. \/ at = "input" /\ at' = "planner"
        \/ at = "job kill" /\ at' = "queue flush"
    BY DEF Begins
  <2>2. Input \/ _start_job_kill
    BY <2>1 DEF Next, Main, mp_planner_callback, _start_queue_flush, _start_cycle_restart,
       run_operation, Exec, Load, SegmentEnds, vars
  <2>3. ~ _start_job_kill
    BY <1>0 DEF _start_job_kill, Short
  <2>4. QED BY <2>2, <2>3
<1> DEFINE a == <<"_feedhold_with_actions">>
           b == <<"_feedhold_no_actions", "_run_alarm">>
<1>2. /\ a \in FirstLists /\ Len(a) = 1 /\ a[1] = "_feedhold_with_actions"
      /\ b \in FirstLists /\ Len(b) = 2 /\ b[1] = "_feedhold_no_actions" /\ b[2] = "_run_alarm"
  BY Singles, Pairs DEF FirstLists, Actions
<1>3. Requests(a) \/ Requests(b)
  BY <1>0, <1>1, InputShape
<1> HIDE DEF a, b
<1>4. ~ op.in_operation
  BY DEF Begins
<1>5. ASSUME NEW l \in FirstLists, Requests(l)
      PROVE  /\ op'.acts # <<>> /\ Len(op'.acts) = Len(l)
             /\ \A i \in 1 .. Len(l) : op'.acts[i] = l[i]
  <2>1. l \in Seq(Actions) /\ Sound(l) /\ Len(l) \in 1 .. 3
    BY FirstListFacts
  <2>2. Behind(op.acts, l, op'.acts)
    BY <1>4, <1>5, <2>1, AddShape DEF Requests, Types
  <2>3. QED BY <1>0, <2>1, <2>2, SoundFirst
<1>6. CASE Requests(a)
  <2>1. op'.acts # <<>> /\ Len(op'.acts) = 1 /\ op'.acts[1] = "_feedhold_with_actions"
    BY <1>2, <1>5, <1>6
  <2>2. QED BY <2>1 DEF Enters, Lasts
<1>7. CASE Requests(b)
  <2>1. /\ op'.acts # <<>> /\ Len(op'.acts) = 2 /\ op'.acts[1] = "_feedhold_no_actions"
        /\ op'.acts[2] = "_run_alarm"
    BY <1>2, <1>5, <1>7
  <2>2. QED BY <2>1 DEF Enters, Lasts
<1>8. QED BY <1>3, <1>6, <1>7

\* What a flush or a resume adds: 3 actions at most, behind 3 or none, but for
\* a resume behind a list that is full.
LEMMA LeavesShort ==
  ASSUME Types, Types', OpInv, Short, NEW l \in ExitLists, Leaves(l)
  PROVE  /\ op'.acts # <<>> /\ op'.acts[1] \in Restarts /\ op'.acts[Len(op'.acts)] \in Lasts
         /\ at = "queue flush" => Len(op'.acts) \in {3, 6}
<1>0. /\ op.acts \in Seq(Actions) /\ op'.acts \in Seq(Actions) /\ Behind(op.acts, l, op'.acts)
      /\ Sound(op.acts) /\ Len(op.acts) <= ACTION_MAX
      /\ l \in Seq(Actions) /\ Len(l) \in 2 .. 3 /\ Sound(l) /\ l[1] \in Restarts /\ l[Len(l)] \in Lasts
      /\ at = "queue flush" => Len(l) = 3
  BY ExitListFacts, ExitLasts DEF Types, OpTypes, Ops, Index, Leaves, OpInv, Grammar
<1>1. Len(l) \in 2 .. 3
  BY ExitListFacts
<1>5. at = "queue flush" => Len(l) = 3
  BY <1>0
<1>2. CASE op.acts = <<>>
  <2>1. op'.acts # <<>> /\ Len(op'.acts) = Len(l) /\ \A i \in 1 .. Len(l) : op'.acts[i] = l[i]
    <3>1. Len(l) \in 1 .. 3
      BY <1>1
    <3>2. QED BY <1>0, <1>2, <3>1, SoundFirst
  <2>2. Len(l) \in 1 .. Len(l) /\ 1 \in 1 .. Len(l)
    BY <1>1
  <2>3. op'.acts[1] = l[1] /\ op'.acts[Len(op'.acts)] = l[Len(l)]
    BY <2>1, <2>2
  <2>4. QED BY <1>0, <2>1, <2>3
<1>3. CASE op.acts # <<>>
  <2>1. op.acts[1] \in Restarts /\ Ended(op.acts)
    BY <1>3 DEF Leaves, OpInv, Idle, Stopping, Decelerating
  <2>2. op'.acts # <<>> /\ op'.acts[1] = op.acts[1]
    BY <1>0, <1>3, <2>1, SoundGrows
  <2>3. Len(op.acts) \in {3, 6} /\ (at = "queue flush" => Len(op.acts) = 3)
    BY <1>3, <2>1 DEF Leaves, Short, Room
  <2>7. PICK n \in {3, 6} : Len(op.acts) = n
    BY <2>3
  <2>8. PICK k \in {2, 3} : Len(l) = k
    BY <1>1
  <2>9. /\ Len(op.acts) + Len(l) <= 6 =>
             Len(op'.acts) = Len(op.acts) + Len(l) /\ op'.acts[Len(op'.acts)] = l[Len(l)]
        /\ Len(op.acts) = 6 => Len(op'.acts) = 6 /\ op'.acts[Len(op'.acts)] = op.acts[Len(op.acts)]
    <3>1. Len(l) > 0
      BY <1>1
    <3>2. /\ op.acts \in Seq(Actions) /\ op'.acts \in Seq(Actions) /\ l \in Seq(Actions)
          /\ Behind(op.acts, l, op'.acts)
      BY <1>0
    <3>3. QED BY <3>1, <3>2, BehindLast
  <2>10. at = "queue flush" => n = 3 /\ k = 3
    BY <1>5, <2>3, <2>7, <2>8
  <2>4. CASE n = 3
    <3>1. Len(op'.acts) = n + k /\ op'.acts[Len(op'.acts)] = l[Len(l)] /\ (k = 3 => n + k = 6)
      BY <2>4, <2>7, <2>8, <2>9
    <3>2. QED BY <1>0, <2>1, <2>2, <2>10, <3>1
  <2>5. CASE n = 6
    <3>1. op.acts[Len(op.acts)] \in Lasts
      BY <1>3 DEF Short, Whole
    <3>2. QED BY <2>1, <2>2, <2>5, <2>7, <2>9, <2>10, <3>1
  <2>6. QED BY <2>4, <2>5
<1>4. QED BY <1>2, <1>3

\* What the callback adds: the exit chain, to nothing or behind the hold.
LEMMA CallsShort ==
  ASSUME Types, Types', OpInv, Short, Calls
  PROVE  /\ op'.acts # <<>> /\ op'.acts[Len(op'.acts)] \in Lasts
         /\ op'.acts[1] \in Restarts => Len(op'.acts) = 3
<1>0. /\ op.acts \in Seq(Actions) /\ op'.acts \in Seq(Actions) /\ Behind(op.acts, FlushChain, op'.acts)
      /\ FlushChain \in Seq(Actions) /\ Len(FlushChain) = 3 /\ FlushChain[3] \in Lasts
      /\ Len(op.acts) \in Nat /\ Len(op'.acts) \in Nat
  BY ChainFacts, SeqFacts DEF Types, OpTypes, Ops, Calls, Lasts
<1>1. op.acts = <<>> => Len(op.acts) = 0
  BY <1>0, SeqFacts
<1>2. op.acts # <<>> => op.acts[1] = "_feedhold_with_actions" /\ Len(op.acts) = 1
  BY DEF Calls, OpInv, Pending, Short, WithAlone
<1>3. PICK n \in {0, 1} : Len(op.acts) = n
  BY <1>1, <1>2
<1>4. PICK k \in {3} : Len(FlushChain) = k
  BY <1>0
<1>9. Len(op'.acts) = Len(op.acts) + Len(FlushChain) /\ op'.acts[Len(op'.acts)] = FlushChain[Len(FlushChain)]
  <2>1. /\ op.acts \in Seq(Actions) /\ op'.acts \in Seq(Actions) /\ FlushChain \in Seq(Actions)
        /\ Behind(op.acts, FlushChain, op'.acts)
    BY <1>0
  <2>2. Len(FlushChain) > 0 /\ Len(op.acts) + Len(FlushChain) <= 6
    BY <1>3, <1>4
  <2>3. QED BY <2>1, <2>2, BehindLast
<1>10. op'.acts[Len(op'.acts)] \in Lasts
  BY <1>0, <1>9
<1>11. n + k > 0 /\ (n = 0 => n + k = 3)
  OBVIOUS
<1>5. op'.acts # <<>>
  <2>1. Len(op'.acts) > 0
    BY <1>3, <1>4, <1>9, <1>11
  <2>2. QED BY <1>0, <2>1, SeqFacts
<1>6. op.acts # <<>> => op'.acts[1] = "_feedhold_with_actions"
  BY <1>0, <1>2 DEF Behind
<1>7. op'.acts[1] \in Restarts => Len(op'.acts) = 3
  BY <1>1, <1>3, <1>4, <1>6, <1>9, <1>11 DEF Restarts
<1>8. QED BY <1>5, <1>7, <1>10

\* An action that is not the last of its chain has a successor.
LEMMA NotLast ==
  ASSUME Types, OpInv, Short, op.acts # <<>>, Current \notin Lasts, Completed(op)
  PROVE  Advances /\ Current' \in Follows(Current)
<1>1. op.run # Len(op.acts)
  BY DEF Short, Whole, Current
<1>2. Advances
  <2>1. op' # NoOperation
    <3>1. op'.acts = op.acts
      BY <1>1 DEF Completed, Types, OpTypes, Ops
    <3>2. QED BY <3>1, NoOperationTypes
  <2>2. QED BY <2>1, CompletedShape DEF Types, Ends
<1>3. QED BY <1>2, AdvancesToRun

LEMMA WholeStays ==
  ASSUME Types, Types', OpInv, Queues, Short, [Next]_vars PROVE Whole'
<1>1. CASE op'.acts = op.acts \/ op'.acts = <<>>
  BY <1>1 DEF Short, Whole
<1>2. CASE run_operation
  <2>1. CASE op.acts = <<>> \/ Ends \/ Advances \/ Waits
    BY <1>1, <1>2, <2>1, DoesShape, NoOperationTypes DEF Types, Ends, Advances, Waits
  <2>2. CASE op.acts # <<>> /\ Current = "_feedhold_with_actions" /\ GoesOn
    <3>1. /\ op.run = 1 /\ op.run = Len(op.acts) /\ Len(op'.acts) > Len(op.acts)
          /\ Behind(op.acts, FlushChain, op'.acts)
      BY <2>2, CurrentFacts DEF Enters, GoesOn
    <3>2. Len(FlushChain) > 0 /\ Len(op.acts) + Len(FlushChain) <= 6
      BY <3>1, ChainFacts
    <3>3. op.acts \in Seq(Actions) /\ op'.acts \in Seq(Actions) /\ FlushChain \in Seq(Actions)
      BY ChainFacts DEF Types, OpTypes, Ops
    <3>4. op'.acts[Len(op'.acts)] = FlushChain[Len(FlushChain)]
      BY <3>1, <3>2, <3>3, BehindLast
    <3>5. QED BY <3>4, ExitLasts, ChainIsExit DEF Whole
  <2>3. QED BY <1>2, <2>1, <2>2, DoesShape DEF Types
<1>3. CASE Keeps
  BY <1>1, <1>3 DEF Keeps
<1>4. CASE Begins
  BY <1>4, BeginsShort DEF Whole
<1>5. CASE Calls
  BY <1>5, CallsShort DEF Whole
<1>6. ASSUME NEW l \in ExitLists, Leaves(l) PROVE Whole'
  BY <1>6, LeavesShort DEF Whole
<1>7. QED BY <1>2, <1>3, <1>4, <1>5, <1>6, OpCases

\* The operation runs a list: it is in_operation, or over.
LEMMA RunIsIn ==
  ASSUME Types, run_operation, op'.acts # <<>> PROVE op'.in_operation
<1>1. CASE op.acts = <<>>
  BY <1>1, DoesShape DEF Types
<1>2. CASE op.acts # <<>>
  BY <1>2, DoesShape, NoOperationTypes DEF Types, Ends, Advances, Waits, GoesOn
<1>3. QED BY <1>1, <1>2

LEMMA RoomStays ==
  ASSUME Types, Types', OpInv, Queues, Short, [Next]_vars PROVE Room'
<1> SUFFICES ASSUME op'.acts # <<>>, op'.acts[1] \in Restarts, ~ op'.in_operation
             PROVE  /\ at' \in {"input", "planner", "job kill", "queue flush"} => Len(op'.acts) = 3
                    /\ at' = "cycle start" => Len(op'.acts) \in {3, 6}
  BY DEF Room
<1>1. ~ run_operation
  BY RunIsIn DEF Types, OpTypes, Ops
<1>2. CASE Keeps
  <2>1. /\ op.acts # <<>> /\ op.acts[1] \in Restarts /\ ~ op.in_operation
        /\ Len(op'.acts) = Len(op.acts)
    BY <1>2 DEF Keeps
  <2>2. at = at' \/ <<at, at'>> \in Passes
    BY <1>1, PassCases
  <2>3. /\ at' \in {"input", "planner", "job kill", "queue flush"} =>
             at \in {"input", "planner", "job kill", "queue flush"}
        /\ at' = "cycle start" => at \in {"queue flush", "cycle start"}
    BY <2>2 DEF Passes
  <2>4. QED BY <2>1, <2>3 DEF Short, Room
<1>3. ~ Begins
  BY BeginsShort DEF Restarts, Enters
<1>4. CASE Calls
  BY <1>4, CallsShort
<1>5. ASSUME NEW l \in ExitLists, Leaves(l)
      PROVE  /\ at' \in {"input", "planner", "job kill", "queue flush"} => Len(op'.acts) = 3
             /\ at' = "cycle start" => Len(op'.acts) \in {3, 6}
  BY <1>5, LeavesShort DEF Leaves
<1>6. QED BY <1>1, <1>2, <1>3, <1>4, <1>5, OpCases

LEMMA WithAloneStays ==
  ASSUME Types, Types', OpInv, Queues, Short, [Next]_vars PROVE WithAlone'
<1> SUFFICES ASSUME op'.acts # <<>>, op'.acts[1] = "_feedhold_with_actions", op'.run = 1,
                    hold'[1] # "HOLD" \/ cm' = 1
             PROVE  Len(op'.acts) = 1
  BY DEF WithAlone
<1>0. cm \in {1, 2} /\ cm' \in {1, 2}
  BY DEF Types, QueueTypes
<1>1. CASE run_operation
  <2>1. op.acts # <<>>
    BY <1>1, DoesShape DEF Types
  <2>2. op.run \in Nat /\ op.run >= 1
    BY <2>1, CurrentFacts
  <2>3. Waits
    <3>1. ~ (op'.run = op.run + 1)
      BY <2>2
    <3>2. ~ Advances /\ ~ GoesOn
      BY <3>1 DEF Advances, GoesOn
    <3>3. ~ Ends
      BY NoOperationTypes DEF Ends
    <3>4. QED BY <1>1, <2>1, <3>2, <3>3, DoesShape DEF Types
  <2>4. op.acts[1] = "_feedhold_with_actions" /\ op.run = 1 /\ Current = "_feedhold_with_actions"
    BY <2>3 DEF Waits, Current
  <2>5. CASE hold[1] = "HOLD"
    <3>1. _feedhold_with_actions
      BY <1>1, <2>1, <2>4, RunCases DEF Does
    <3>2. FinishHold
      BY <2>5, <3>1 DEF _feedhold_with_actions
    <3>3. ~ Waits
      <4>1. op.run # op.run + 1
        BY <2>2
      <4>2. Ends \/ op'.run = op.run + 1
        BY <2>1, <3>2, FinishShape DEF Types, Advances, GoesOn
      <4>3. ~ Ends
        BY NoOperationTypes DEF Ends
      <4>4. QED BY <4>1, <4>2, <4>3 DEF Waits
    <3>4. QED BY <2>3, <3>3
  <2>6. CASE hold[1] # "HOLD"
    BY <2>1, <2>3, <2>4, <2>6 DEF Short, WithAlone, Waits
  <2>7. QED BY <2>5, <2>6
<1>2. CASE Keeps /\ ~ run_operation
  <2>1. /\ op'.acts = op.acts /\ op.acts # <<>> /\ op.acts[1] = "_feedhold_with_actions"
        /\ op.run = 1 /\ Current = "_feedhold_with_actions"
    BY <1>2 DEF Keeps, Current
  <2>2. CASE hold[1] # "HOLD" \/ cm = 1
    BY <2>1, <2>2 DEF Short, WithAlone
  <2>3. CASE hold[1] = "HOLD" /\ cm = 2
    <3>0. _start_job_kill => hold' = hold
      BY DEF Short, _start_job_kill
    <3>1. hold'[1] = hold[1]
      BY <1>2, <2>3, <3>0, HoldCases DEF Stopping, Decelerating, Exiting
    <3>2. cm' # 1
      BY <1>2, <2>3, P1Steps
    <3>3. QED BY <2>3, <3>1, <3>2
  <2>4. QED BY <1>0, <2>2, <2>3
<1>3. CASE Begins
  BY <1>3, BeginsShort
<1>4. ~ Calls
  BY DEF Calls
<1>5. ASSUME NEW l \in ExitLists, Leaves(l) PROVE FALSE
  BY <1>5, LeavesShort DEF Restarts
<1>6. QED BY <1>1, <1>2, <1>3, <1>4, <1>5, OpCases

LEMMA HeldInP1Stays ==
  ASSUME Types, Types', OpInv, Queues, Short, [Next]_vars PROVE HeldInP1'
<1> SUFFICES ASSUME hold'[1] = "HOLD", cm' = 1
             PROVE  at' = "operation" /\ op'.acts # <<>> /\ Current' \notin Enters \cup Restarts
  BY DEF HeldInP1
<1>0. cm \in {1, 2}
  BY DEF Types, QueueTypes
<1>1. CASE run_operation
  <2>0. at = "operation"
    BY <1>1 DEF run_operation
  <2>1. CASE RunsInto("_feedhold_no_actions", {"OFF"} \cup Stopped, "HOLD")
    <3>1. _feedhold_no_actions /\ op.acts # <<>> /\ Current = "_feedhold_no_actions"
      BY <1>1, <2>1, RunCases DEF Does, RunsInto
    <3>2. ~ (hold[1] = "OFF" /\ motion)
      <4>1. hold[1] = "OFF" /\ motion => hold' = [hold EXCEPT ![1] = "SYNC"]
        BY <3>1 DEF _feedhold_no_actions
      <4>2. hold \in [1 .. 2 -> HoldStates]
        BY DEF Types, HoldTypes
      <4>3. QED BY <4>1, <4>2
    <3>3. Completed(op)
      BY <2>1, <3>1, <3>2 DEF _feedhold_no_actions, RunsInto, Stopped, Stopping, Decelerating
    <3>4. Advances /\ Current' \in Follows(Current)
      BY <3>1, <3>3, NotLast DEF Lasts
    <3>5. QED BY <2>0, <3>1, <3>4 DEF Advances, Follows, Enters, Restarts
  <2>2. CASE hold[1] = "HOLD" /\ cm = 1
    <3>1. op.acts # <<>> /\ Current \notin Enters \cup Restarts
      BY <2>2 DEF Short, HeldInP1
    <3>2. hold \in [1 .. 2 -> HoldStates]
      BY DEF Types, HoldTypes
    <3>3. Current = "_run_queue_flush" /\ Completed(op)
      <4>1. ~ Does("_run_program_stop", _run_program_stop)
        BY <3>2 DEF Does, _run_program_stop
      <4>2. ~ Does("_run_restart_cycle", _run_restart_cycle)
        BY <2>2, <3>2 DEF Does, _run_restart_cycle
      <4>3. ~ Does("_run_alarm", _run_alarm)
        BY <2>2, <3>2 DEF Does, _run_alarm, JobKill
      <4>4. Does("_run_queue_flush", _run_queue_flush)
        BY <1>1, <3>1, <4>1, <4>2, <4>3, RunCases DEF Does, Enters, Restarts
      <4>5. QED BY <4>4 DEF Does, _run_queue_flush
    <3>4. Advances /\ Current' \in Follows(Current)
      BY <3>1, <3>3, NotLast DEF Lasts
    <3>5. QED BY <2>0, <3>1, <3>3, <3>4 DEF Advances, Follows, Enters, Restarts
  <2>3. CASE hold[1] = "HOLD" /\ cm = 2
    <3>1. op.acts # <<>> /\ Current = "_feedhold_restart_no_actions"
      BY <1>1, <2>3, P1Steps
    <3>2. Completed(op)
      BY <1>1, <3>1, RunCases DEF Does, _feedhold_restart_no_actions
    <3>3. Advances /\ Current' \in Follows(Current)
      BY <3>1, <3>2, NotLast DEF Lasts
    <3>4. QED BY <2>0, <3>1, <3>3 DEF Advances, Follows, Enters, Restarts
  <2>4. QED BY <1>0, <1>1, <2>1, <2>2, <2>3, RunHold DEF RunsInto
<1>2. CASE ~ run_operation
  <2>1. cm = 1
    BY <1>2, P1Steps
  <2>6. _start_job_kill => hold' = hold
    BY DEF Short, _start_job_kill
  <2>2. hold[1] = "HOLD"
    BY <1>2, <2>1, <2>6, HoldCases DEF Stopping, Decelerating
  <2>3. at = "operation" /\ op.acts # <<>> /\ Current \notin Enters \cup Restarts
    BY <2>1, <2>2 DEF Short, HeldInP1
  <2>4. Keeps
    BY <1>2, <2>1, <2>2, <2>3, OpCases DEF Begins, Calls, Leaves
  <2>5. QED BY <2>3, <2>4 DEF Keeps, Current
<1>3. QED BY <1>1, <1>2

LEMMA ExitsInP2Stays ==
  ASSUME Types, Types', OpInv, Queues, Short, [Next]_vars PROVE ExitsInP2'
<1> SUFFICES ASSUME hold'[1] = "EXIT_ACTIONS_PENDING"
             PROVE  cm' = 2 /\ op'.acts # <<>> /\ Current' = "_feedhold_restart_with_actions"
  BY DEF ExitsInP2
<1>0. cm \in {1, 2} /\ cm' \in {1, 2}
  BY DEF Types, QueueTypes
<1>1. CASE hold[1] = "EXIT_ACTIONS_PENDING"
  <2>1. cm = 2 /\ op.acts # <<>> /\ Current = "_feedhold_restart_with_actions"
    BY <1>1 DEF Short, ExitsInP2
  <2>2. cm' = 2
    BY <1>0, <1>1, <2>1, P1Steps
  <2>3. op'.acts = op.acts /\ op'.run = op.run
    <3>1. CASE run_operation
      <4>1. _feedhold_restart_with_actions
        BY <2>1, <3>1, RunCases DEF Does
      <4>2. ~ NestedHold
        <5>1. hold \in [1 .. 2 -> HoldStates]
          BY DEF Types, HoldTypes
        <5>2. NestedHold => hold' = [hold EXCEPT ![1] = "HOLD_ACTIONS_PENDING", ![2] = "OFF"]
          BY DEF NestedHold
        <5>3. NestedHold => hold'[1] = "HOLD_ACTIONS_PENDING"
          BY <5>1, <5>2
        <5>4. QED BY <5>3
      <4>3. Again(op)
        BY <1>1, <4>1, <4>2 DEF _feedhold_restart_with_actions
      <4>4. QED BY <4>3, AgainShape DEF Types, Waits
    <3>2. CASE ~ run_operation
      <4>1. Keeps
        BY <1>1, <3>2, OpCases DEF Begins, Calls, Leaves
      <4>2. QED BY <4>1 DEF Keeps
    <3>3. QED BY <3>1, <3>2
  <2>4. QED BY <2>1, <2>2, <2>3 DEF Current
<1>2. CASE hold[1] # "EXIT_ACTIONS_PENDING"
  <2>1. run_operation
    BY <1>2, HoldCases DEF Stopping, Decelerating, Short, _start_job_kill
  <2>2. RunsInto("_feedhold_restart_with_actions", {"HOLD"}, "EXIT_ACTIONS_PENDING") /\ Waits
    BY <1>2, <2>1, RunHold DEF RunsInto
  <2>3. op.acts # <<>> /\ Current = "_feedhold_restart_with_actions" /\ hold[1] = "HOLD"
    BY <2>2 DEF RunsInto
  <2>4. cm = 2
    BY <1>0, <2>3 DEF Short, HeldInP1, Restarts
  <2>5. cm' = 2
    BY <1>0, <2>3, <2>4, P1Steps
  <2>6. QED BY <2>2, <2>3, <2>5 DEF Waits, Current
<1>3. QED BY <1>1, <1>2

LEMMA ShortStays ==
  ASSUME "^D" \notin Keys, HoldInv, Short, [Next]_vars PROVE Short'
<1>1. Types /\ Types' /\ OpInv /\ Queues
  BY HoldStays DEF HoldInv
<1>2. QED
  BY <1>1, NoKillStays, WholeStays, HoldDoneStays, WithAloneStays, HeldInP1Stays,
     ExitsInP2Stays, RoomStays DEF Short

\* The callback at the end of the moves of a hold always finds room for the
\* exit chain: then no list holds more than the hold that waits for it.  With
\* kills the list can be longer, what does not fit is dropped (README).
THEOREM TheExitChainFits ==
  ASSUME "^D" \notin Keys PROVE Spec => []ExitChainFits
<1>1. Init => Short
  BY NoOperationTypes, EmptySeq
     DEF Init, Short, Whole, HoldDoneInP2, WithAlone, HeldInP1, ExitsInP2, Room, ToSet
<1>2. HoldInv /\ Short /\ [Next]_vars => Short'
  BY ShortStays
<1>3. HoldInv /\ Short => ExitChainFits
  <2>1. SUFFICES ASSUME HoldInv, Short, "hold done" \in ToSet(q[2])
                 PROVE  Len(op.acts) + Len(FlushChain) <= ACTION_MAX
    BY DEF ExitChainFits
  <2>2. cm = 2
    BY <2>1 DEF Short, HoldDoneInP2, HoldInv, Types, QueueTypes
  <2>3. hold[1] = "HOLD_ACTIONS_PENDING"
    BY <2>1, <2>2 DEF HoldInv, OpInv, NotInP2, Queues
  <2>4. op.acts # <<>> => Len(op.acts) = 1
    BY <2>1, <2>2, <2>3 DEF HoldInv, OpInv, Pending, Short, WithAlone
  <2>5. op.acts = <<>> => Len(op.acts) = 0
    BY EmptySeq
  <2>6. PICK n \in {0, 1} : Len(op.acts) = n
    BY <2>4, <2>5
  <2>7. QED BY <2>6, ChainFacts DEF ACTION_MAX
<1>4. QED BY <1>1, <1>2, <1>3, AlwaysHold, PTL DEF Spec

==========================================================================
