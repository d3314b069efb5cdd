------------------------------ MODULE Probing ------------------------------
(***************************************************************************)
(* The probing cycle (cycle_probing.cpp): wait until the queue is empty,   *)
(* move towards the target until the input reports contact, move back to   *)
(* the position of the contact, and report it.                             *)
(*                                                                         *)
(* G38.2 and G38.3: contact trips the probe.  Of the settings that the     *)
(* cycle saves and restores the model keeps whose they are.                *)
(***************************************************************************)
EXTENDS PinHold

CONSTANTS Targets,    \* the targets of the probes
          MaxProbes   \* bound on the number of probes

ASSUME ProbeAssumption == Targets \subseteq 0 .. Far /\ MaxProbes \in Nat \ {0}

VARIABLES
  func,        \* pb.func
  target,      \* pb.target
  alarm_flag, probe_tripped,   \* of pb
  registered,  \* is the handler in the list of the input?
  modes,       \* whose the modal settings are
  probe_state, \* of the latest probe
  result,      \* probe_results[0]
  probes,      \* probes so far
  first,       \* history: where the latest probe made its first contact, or -1
  mishaps      \* history: what has happened to the latest probe

\* "again": an edge after the first contact has changed the snapshot;
\* "deaf": the first contact found a hold or an operation in progress;
\* "refused": a hold was requested, but its actions were not accepted;
\* "aborted": by a flush or an alarm, in the middle of its moves
Mishaps == {"again", "deaf", "refused", "aborted"}

pb == <<func, target, alarm_flag, probe_tripped, registered, modes, probe_state, result>>
history == <<probes, first, mishaps>>
vars == <<at, queue, pos, model, cycle, machine, hold, holdType, flush, start, op,
          inOperation, input, waiting, snapshot, keys, pb, history>>

TypeOK ==
  /\ PinTypeOK /\ Len(queue) <= 2
  /\ cycle \in {"NONE", "MACHINING", "PROBE"}
  /\ func \in {"start", "backoff", "finish"}
  /\ target \in 0 .. Far /\ result \in 0 .. Far /\ first \in -1 .. Far
  /\ {alarm_flag, probe_tripped, registered} \subseteq BOOLEAN
  /\ modes \in {"job", "probe"}
  /\ probe_state \in {"FAILED", "WAITING", "SUCCEEDED"}
  /\ probes \in 0 .. MaxProbes /\ mishaps \subseteq Mishaps

Init ==
  /\ PinInit
  /\ func = "start" /\ target = 0 /\ alarm_flag = FALSE /\ probe_tripped = FALSE
  /\ registered = FALSE /\ modes = "job"
  /\ probe_state = "FAILED" /\ result = 0
  /\ probes = 0 /\ first = -1 /\ mishaps = {}

---------------------------------------------------------------------------
(* The handler of the input *)

\* pin_changed() and _probing_handler()
Edge ==
  \E l \in BOOLEAN :
    LET handled == ~ lockout /\ registered /\ cycle = "PROBE"
        contact == handled /\ l /\ ~ probe_tripped
    IN /\ EdgeTo(l)
       /\ probe_tripped' = (probe_tripped \/ (handled /\ l))
       /\ snapshot' = (IF handled THEN pos ELSE snapshot)
       /\ IF handled THEN RequestFeedhold("SKIP", <<"skip", "stop">>)
                     ELSE UNCHANGED holding
       /\ first' = (IF contact THEN pos ELSE first)
       /\ mishaps' = mishaps
            \cup {m \in {"again"} : handled /\ probe_tripped /\ func = "backoff"}
            \cup {m \in {"deaf"} : contact /\ (hold # "OFF" \/ inOperation)}
            \cup {m \in {"refused"} : handled /\ Refused}
       /\ UNCHANGED <<at, queue, pos, model, cycle, machine, waiting, requests,
                      inOperation, func, target, alarm_flag, registered, modes,
                      probe_state, result, probes>>

---------------------------------------------------------------------------
(* The cycle *)

\* cm_straight_probe_global(), behind a move of the job or not
StraightProbe(to, alarm) ==
  /\ probes < MaxProbes /\ probes' = probes + 1
  /\ target' = to /\ alarm_flag' = alarm
  /\ func' = "start"
  /\ result' = 0 /\ probe_state' = "WAITING" /\ probe_tripped' = FALSE
  /\ waiting' = TRUE
  /\ \/ /\ queue' = Append(queue, Block("done", 0))
        /\ UNCHANGED <<model, cycle, machine>>
     \/ /\ pos # 1 /\ cycle = "NONE"
        /\ queue' = queue \o <<Block("move", 1), Block("done", 0)>>
        /\ model' = 1 /\ cycle' = "MACHINING" /\ machine' = "CYCLE"
  /\ first' = -1 /\ mishaps' = {}

\* _probe_move(): nothing is queued for a move that has no length.
ProbeMove(to) ==
  /\ waiting' = TRUE
  /\ queue' = queue \o (IF to = pos THEN <<>> ELSE <<Block("move", to)>>)
                    \o <<Block("done", 0)>>
  /\ model' = to

\* Mutant: the modes of the job are not restored when a probe is aborted.
RestoredUnlessHeld == IF hold = "HOLD" THEN modes ELSE "job"
Restored == "job"

\* _probing_finish() and cm_canned_cycle_end(), in a queue and at a position
\* as given, and its cm_alarm() if the probe failed.  Whoever is waiting for
\* a hold is not told that it has ended.
Finish(blocks, position) ==
  LET alarms == probe_state = "FAILED" /\ alarm_flag /\ machine # "ALARM"
  IN /\ registered' = FALSE /\ modes' = Restored
     /\ cycle' = "NONE" /\ machine' = (IF machine = "ALARM" THEN machine ELSE "STOP")
     /\ queue' = Append(blocks, Block("other", 0))
     /\ result' = position
     /\ hold' = (IF alarms THEN "SYNC" ELSE "OFF")
     /\ holdType' = (IF alarms THEN "HOLD" ELSE holdType)

\* _probing_start(), up to the handler
ProbingStart ==
  LET error == target = pos \/ level
  IN /\ at = "function" /\ func = "start"
     /\ probe_state' = "FAILED"
     /\ IF error                                   \* _probing_exception_exit()
          THEN /\ at' = "planner"
               /\ cycle' = "NONE" /\ machine' = "STOP" /\ modes' = "job"
               /\ queue' = Append(queue, Block("other", 0))
               /\ hold' = "SYNC" /\ holdType' = "HOLD"
               /\ op' = Added(<<"no actions", "alarm">>)
          ELSE /\ at' = "register"
               /\ cycle' = "PROBE" /\ machine' = "CYCLE" /\ modes' = "probe"
               /\ UNCHANGED <<queue, holding>>
     /\ UNCHANGED <<pos, model, waiting, requests, inOperation, input, snapshot, func,
                    target, alarm_flag, probe_tripped, registered, result, history>>

\* The rest of it.  An edge since the input was read was nobody's.
RegisterHandler ==
  /\ at = "register" /\ at' = "planner"
  /\ registered' = TRUE
  /\ ProbeMove(target)
  /\ func' = "backoff"
  /\ UNCHANGED <<pos, cycle, machine, holding, requests, inOperation, input, snapshot,
                 target, alarm_flag, probe_tripped, modes, probe_state, result, history>>

\* Mutant: the position of the contact is where the machine has stopped.
ContactWhereStopped == pos
Contact == snapshot

_probing_backoff ==
  /\ at = "function" /\ func = "backoff" /\ at' = "planner"
  /\ func' = "finish"
  /\ IF probe_tripped
       THEN probe_state' = "SUCCEEDED" /\ ProbeMove(Contact)
       ELSE probe_state' = "FAILED" /\ UNCHANGED <<queue, model, waiting>>
  /\ UNCHANGED <<pos, cycle, machine, holding, requests, inOperation, input, snapshot,
                 target, alarm_flag, probe_tripped, registered, modes, result, history>>

_probing_finish ==
  /\ at = "function" /\ func = "finish" /\ at' = "planner"
  /\ Finish(queue, model)
  /\ op' = (IF hold' = "SYNC" THEN Added(<<"no actions", "alarm">>) ELSE op)
  /\ UNCHANGED <<pos, model, waiting, requests, inOperation, input, snapshot, func,
                 target, alarm_flag, probe_tripped, probe_state, history>>

\* cm_probing_cycle_callback(), up to its call of func
Callback ==
  /\ at = "cycle"
  /\ cycle = "PROBE" \/ probe_state = "WAITING"
  /\ at' = (IF waiting \/ hold # "OFF" THEN "planner" ELSE "function")
  /\ UNCHANGED <<motion, model, cycle, machine, holding, requests, inOperation, input,
                 snapshot, pb, history>>

\* The rest of the pass: another line, unless a hold is in effect.
RestOfPass ==
  /\ at = "cycle" /\ cycle # "PROBE" /\ probe_state # "WAITING"
  /\ at' = "planner"
  /\ \/ UNCHANGED <<motion, model, cycle, machine, pb, history>>
     \/ /\ hold = "OFF" /\ machine # "ALARM" /\ queue = <<>>
        /\ \E to \in Targets, alarm \in BOOLEAN : StraightProbe(to, alarm)
        /\ UNCHANGED <<pos, registered, modes>>
  /\ UNCHANGED <<holding, requests, inOperation, input, snapshot>>

---------------------------------------------------------------------------
(* The actions that end a probe from outside *)

Aborted == mishaps' = mishaps \cup {m \in {"aborted"} : cycle = "PROBE"}

\* _run_queue_flush() and cm_abort_probing()
Flush ==
  /\ waiting' = FALSE /\ flush' = FALSE /\ model' = pos
  /\ probe_state' = (IF probe_state = "WAITING" THEN "FAILED" ELSE probe_state)
  /\ alarm_flag' = (alarm_flag /\ probe_state # "WAITING")
  /\ IF cycle = "PROBE"
       THEN Finish(<<>>, pos)
       ELSE /\ queue' = <<>> /\ registered' = FALSE
            /\ UNCHANGED <<cycle, machine, hold, holdType, modes, result>>

_run_queue_flush ==
  /\ Next_("flush")
  /\ Flush
  /\ Aborted
  /\ UNCHANGED <<pos, start, keys, inOperation, input, snapshot, func, target,
                 probe_tripped, probes, first>>

\* _run_alarm() and _run_job_kill(), whose cm_program_end() takes back the
\* hold that the failed probe may have asked for
_run_alarm ==
  /\ \/ /\ Again("alarm") /\ hold # "HOLD"
        /\ UNCHANGED <<queue, waiting, model, cycle, machine, hold, holdType, flush, pb,
                       mishaps>>
     \/ /\ Next_("alarm") /\ hold = "HOLD"
        /\ waiting' = FALSE /\ flush' = FALSE /\ model' = pos
        /\ probe_state' = (IF probe_state = "WAITING" THEN "FAILED" ELSE probe_state)
        /\ alarm_flag' = (alarm_flag /\ probe_state # "WAITING")
        /\ registered' = FALSE /\ modes' = "job"
        /\ cycle' = (IF cycle = "PROBE" THEN "NONE" ELSE cycle) /\ machine' = "ALARM"
        /\ queue' = (IF cycle = "PROBE" THEN <<Block("other", 0)>> ELSE <<>>)
                      \o <<Block("other", 0)>>
        /\ result' = (IF cycle = "PROBE" THEN pos ELSE result)
        /\ hold' = "OFF"
        /\ Aborted
        /\ UNCHANGED <<holdType, func, target, probe_tripped>>
  /\ UNCHANGED <<pos, start, keys, inOperation, input, snapshot, probes, first>>

---------------------------------------------------------------------------

Cycle == \/ ProbingStart \/ RegisterHandler \/ _probing_backoff \/ _probing_finish
         \/ Callback \/ RestOfPass
MainLoop == \/ BeforeCycle /\ UNCHANGED <<pb, history>>
            \/ _run_queue_flush \/ _run_alarm
            \/ Cycle
Motion == MoveOrCommand /\ UNCHANGED <<pb, history>>
Outside == (Keys \/ LockoutEnds) /\ UNCHANGED <<pb, history>>

Next == MainLoop \/ Motion \/ Edge \/ Outside
Spec == Init /\ [][Next]_vars

\* The main loop goes round, queued blocks run and holds come to rest, and
\* the input follows the position.
FairSpec == Spec /\ WF_vars(MainLoop) /\ WF_vars(Motion) /\ WF_vars(Edge)

---------------------------------------------------------------------------
(* Properties *)

\* What a successful probe reports is where the input first reported contact,
\* wherever the machine has stopped.  Not so if the contact bounces for longer
\* than the lockout (:137 takes the snapshot anew for every edge), nor if the
\* probe is aborted on its way back.
ReportsTheContact ==
  (cycle # "PROBE" /\ probe_state = "SUCCEEDED" /\ mishaps \cap {"again", "aborted"} = {})
     => result = first

\* A contact stops the probe within the braking distance, and it does not go
\* on, unless another hold was in progress at the contact.
ContactStops ==
  (func = "backoff" /\ first >= 0 /\ "deaf" \notin mishaps) => pos - first \in {-1, 0, 1}

\* The same for every contact.
ContactAlwaysStops ==
  (func = "backoff" /\ first >= 0) => pos - first \in {-1, 0, 1}

\* A probe that is over leaves the handler and the modes as it found them,
\* however it ended.
LeavesNoTrace == cycle # "PROBE" => ~ registered /\ modes = "job"

\* Every probe comes to its end, if it is not held, and unless an edge comes
\* between the last action of an operation and its reset: add_action() then
\* refuses the hold that the request has already announced (:192, :673).
InProgress == probe_state = "WAITING" \/ cycle = "PROBE"
ProbeEnds == InProgress ~> (~ InProgress \/ hold = "HOLD" \/ "refused" \in mishaps)

\* Every probe does.
ProbeAlwaysEnds == InProgress ~> (~ InProgress \/ hold = "HOLD")

\* "We also execute a move from the final position (after the feedhold) back
\* to the point we report" (:164).
StandsAtTheContact ==
  (cycle = "NONE" /\ hold = "OFF" /\ at = "planner" /\ probe_state = "SUCCEEDED")
     => pos = result

\* "Also clean up the latest probe record" (:296): a probe that was aborted
\* does not report success.
AbortedIsNoSuccess ==
  (cycle # "PROBE" /\ "aborted" \in mishaps) => probe_state # "SUCCEEDED"
=============================================================================
