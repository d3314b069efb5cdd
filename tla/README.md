# Verification of the g2core motion controller

g2core (`src/g2core`) is the firmware of a CNC controller: it reads G-code, JSON
and single-character commands from a host, plans jerk-limited motion, and
makes the steps of up to six motors from timer interrupts. This directory
models the parts of it where a mistake is expensive and a test hardly helps:
the queue of planner blocks, the chain of interrupts that empties it, the
feedholds, flushes, job kills and alarms that interfere with both, and what is
built around them: jogging by velocities, probing, homing, the reading of lines,
the texts of JSON commands, the reports.

Contents: [the system](#the-system), [its components](#components),
[modules](#modules), [runs](#runs), [bounds](#bounds),
[fairness](#fairness), [proofs](#proofs), [findings](#findings),
[abstractions](#what-the-models-leave-out), [plan](#plan).

## The system

Everything runs on one core. There are two kinds of context:

- **The main loop**, `_controller_HSM()` (`controller.cpp`), an endless pass over
  some twenty callbacks in a fixed order. A callback that returns
  `STAT_EAGAIN` ends the pass: what is behind it has to wait. The order is:
  safety and limit switches, the control characters and control lines
  (`_dispatch_control`), deferred loads (`st_check_load_move`), reports, the
  planner (`mp_planner_callback`), the feedhold runner
  (`cm_operation_runner_callback`: job kill, queue flush, cycle start, then the
  running operation), the cycles (arcs, homing, probing, jogging), the
  blocker of commands during a hold, and last, if the planner has room, a line
  of G-code (`_dispatch_command`).
- **Interrupts**, each preempting the ones before it: the *forward planner*
  (computes the ramps of the next move), the *exec* (computes one segment, at
  least 0.75 ms of motion, or stages one command), and the *DDA*
  (makes the steps of a segment and, at its end, *loads* the next; commands run
  inside the load). Exec and forward planner are software interrupts that the
  others request. Besides them: the systick (dwells, spindle ramps, watchdogs)
  and the input pins.

```
  host ──► xio ──► controller ──► G-code parser ──► canonical machine
                       │ ! ~ % ^D                        │ mp_aline, mp_queue_command
                       ▼                                 ▼
            feedhold, flush, kill ───────────►  planner queue  (ring of buffers)
            alarm, pins, interlock      replan       │ back planning (main loop)
                       ▲                             ▼
                       │ hold_state          forward planner ► exec ► loader ► DDA ► motors
                       └─────────────────────────────┴───────────┘   (interrupts)
```

The contexts communicate through shared variables, with no locks: the state of
each buffer (`buffer_state`), the counter `buffers_available`, the owner of the
prep buffer `st_pre`, the planning half `mr->p` of the runtime, the machine, cycle,
motion and hold states, and the request flags of the feedhold. A second copy of
canonical machine, planner and runtime (`cm2`, `mp2`, `mr2`) runs the moves of a
feedhold while the first keeps the job; the pointers `cm`, `mp` and `mr` say which
one is current.

## Components

For each: the state it keeps, its operations, what is hard about it, and what
makes it correct. The last column names the module, or the plan's.

| Component | State | Operations | Hard | Correct when | Module |
|---|---|---|---|---|---|
| Planner queue `planner.cpp` | ring of `mpBuf_t`, `r`, `w`, `buffers_available`; a side ring of JSON texts | get, commit, free, reset, replan | main loop takes, interrupts free; counters not atomic; lines of several blocks | used buffers contiguous; FIFO; never out of buffers; "emptied" is exact; a JSON command meets its own text | `PlannerQueue`, `BlockFifo`, `GcodeLine`, `JsonCommands` |
| Line planner `plan_line.cpp` | `buffer_state`, `plannable`, velocities | `mp_aline`, `mp_plan_block_list`, back planning, stitch | rewrites blocks the exec is about to start | never touches a running block; ends | `MotionPipeline` (partly) |
| Forward planner and exec `plan_exec.cpp`, `plan_zoid.cpp` | `mr`: active and planning half, block state, section | `mp_forward_plan`, `mp_exec_move`, `mp_exec_aline`, feedhold cases 1–4 | reads what the main loop rewrites; cycle ends under its hands | a move starts with its own ramps; every block runs, in order | `MotionPipeline`, `Feedhold` |
| Stepper `stepper.cpp` | `st_pre` with its owner, `st_run`, tick counts | `st_prep_*`, `_load_move`, DDA, requests | three interrupts, one buffer | prepared once, loaded once; nobody waits for ever | `MotionPipeline` |
| Feedhold, resume, flush, kill `cycle_feedhold.cpp` | `hold_state`, `hold_type`, three request flags, the operation and its list of actions, which planner is current | `! ~ % ^D`, holds from pins, actions run one after another | each key may come in any state; callbacks from the loader and the pins; two planners | a hold parks; a resume resumes; a flush drops the job; a kill is served; nothing hangs | `Feedhold`, `PinHold` |
| Alarms `alarm.cpp` | `machine_state` | alarm, shutdown, panic, clear | an alarm is itself a feedhold | ALARM is entered and stays | `Feedhold`, `PinHold`, `Jgv` |
| Canonical machine `canonical_machine.cpp` | G-code model, machine/cycle/motion states, offsets | feeds, traverses, G28/G30, cycle start and end | state set from interrupt and main loop | the cycle ends exactly when the work does | `MotionPipeline`, `Feedhold`, `Jgv` |
| Controller `controller.cpp` | pass of the main loop, line buffer | dispatch, synchronisation with the planner | early returns starve what follows | lines are read only when they fit | `PlannerQueue`, `Feedhold`, `Reports` |
| G-code parser `gcode_parser.cpp` | words of a line, active comments | parse, execute in the order of NIST table 8 | one line queues many blocks | what it queues fits | `GcodeLine` |
| Velocity-mode jogging `cycle_jgv.cpp` | direction, speed, planned position, watchdog | start, direction change, stop, commit of segments | its own copy of the position; watchdog; holds and flushes | stops when the host falls silent; its segments join; the job gets its modes back | `Jgv` |
| Probing `cycle_probing.cpp` | a function pointer to the next step; saved settings; the snapshot of the encoders | chain of moves, handler of the probe's edges | edges at the wrong time, flushes and alarms between any two steps | reports the contact; stops there; restores what it changed; ends | `PinHold`, `Probing` |
| Homing `cycle_homing.cpp` | the same | the same, of five moves | steps queue relative moves whatever has stopped the one before; pays no attention to holds | the zero is at the switch; ends | `PinHold`, `Homing` |
| Jogging to a position `cycle_jogging.cpp` | the same | one move | — | — | not modelled |
| Arcs `plan_arc.cpp` | arc geometry, run state | one segment per pass while there is room | abort, hold | all segments or none after abort | not modelled |
| Spindle, toolheads, coolant | speed, direction, paused | on, off, pause, resume, engage | commands in the queue against holds | resumes as it was paused | readiness in `MotionPipeline`, pause in `Feedhold` |
| Safety interlock `safety_manager.h` | interlock state | open, close | asks for a hold that may be refused | never stuck between states | not modelled |
| Inputs and outputs `gpio.h/.cpp` | debounce and lockout, handlers | edges, event handlers | interrupts | no edge that matters is missed | `PinHold` |
| Reports `report.cpp` | request and filter of a report; queue depth | request, callback | requests from interrupts | what changed last is reported in the end | `Reports` |
| Serial I/O `xio.cpp` | ring of characters with skipped sections, control and data lines | scan, read line, flush to command | control lines taken out of the middle | no line lost, split or doubled; only controls overtake | `LineBuffer`, `TwoLanes` |
| Kinematics, encoders, temperature, configuration, JSON, persistence, Marlin dialect, boards and drivers | tables, real numbers | — | — | — | not modelled (below) |

The properties are aimed at the hazards, which `PROJECT.json` lists with the line
of code each one bites at and the properties that cover it, or a note saying
what is not covered and why.

## Modules

| Module | Kind | What it is |
|---|---|---|
| `BlockFifo` | abstract | What the planner queue promises: blocks leave in the order they came, each once, a flush drops all. |
| `PlannerQueue` | detailed | The ring of buffers as the main loop and the interrupts work on it. Refines `BlockFifo`. |
| `GcodeLine` | algorithm | Which blocks a line of G-code queues, as a function of its words. |
| `MotionPipeline` | detailed | The way of a block to the motors: planner callback, back planning, forward planner, exec, loader, DDA. |
| `Feedhold` | detailed | Keys, requests, the operation and its actions, the two planners, hold states in the exec and the loader; alarms. |
| `JsonCommands` | detailed | The side ring of the texts of JSON commands against the queue of the commands that read them. |
| `Jgv` | detailed | Velocity-mode jogging over a job, with holds, flushes, alarms and homing around it. |
| `PinHold` | shared part | One axis, a switch, its interrupt with a hold of type SKIP, and the operation runner that carries it out. |
| `Probing`, `Homing` | detailed | The two cycles that are built on it. |
| `TwoLanes` | abstract | What the controller expects of a serial device: controls overtake data, nothing else is reordered, flushes drop what came before. |
| `LineBuffer` | detailed | The ring of characters with its scan and its sections to skip. Refines `TwoLanes`. |
| `Reports` | detailed | Status and queue reports: requests from interrupts against the callbacks that send them. |
| `PlannerQueueProofs`, `MotionPipelineProofs`, `FeedholdProofs`, `JgvProofs`, `ProbingProofs`, `HomingProofs`, `JsonCommandsProofs`, `ReportsProofs` | proofs | The theorems about the module of that name, for all values of its constants. |
| `MC…` | TLC | Instances for the model checker. |

Each of them takes from the others what they are checked for, and no more:
`MotionPipeline` takes the ring as the FIFO sequence that `PlannerQueue` is proved
to implement; `Feedhold`, `Jgv`, `Probing` and `Homing` take the pipeline as "a committed
block can run once the exec has been asked for it", which is the liveness that
`MotionPipeline` is checked for; `Jgv` takes a hold as a whole, whose steps are
`Feedhold`'s matter.

### PlannerQueue

| Model | Code |
|---|---|
| `bufferState[i]`, `block[i]` | `bf->buffer_state`, `bf->block_type` and contents of buffer `i` of `mp->q` |
| `r`, `w`, `available` | `q.r`, `q.w`, `q.buffers_available` (a `uint8_t`: it wraps) |
| `register` | the value the main loop holds between load and store of `buffers_available--` |
| `DispatchLine`, `LineDone` | `_sync_to_planner()`, `_dispatch_command()`: one line, all its blocks |
| `GetWriteBuffer`, `StoreAvailable`, `GetWriteBufferFails` | `mp_get_write_buffer()`, cut at the load and the store |
| `CommitWriteBuffer` | the caller fills the buffer and `mp_commit_write_buffer()` |
| `PlanBlockList`, `ForwardPlan`, `StartMove` | what the planners and the exec do to `buffer_state` |
| `FreeRunBuffer`, `ReportsEmptied` | `mp_free_run_buffer()` and its result |
| `Unplan` | `mp_replan_queue()` and the loop of the same kind in the feedhold's exec |
| `PlannerReset` | `planner_reset()` |

An interrupt's action is one step, because nothing that reads the ring preempts
it; a main-loop function is several. `overlong`, a history, remembers a line
that was longer than the headroom.

### MotionPipeline

Three interrupts and the main loop. `execPending`, `execAt` (and `planPending`,
`planAt`) say whether a software interrupt is requested and where it is;
`ExecMayRun`, `ForwardPlanMayRun` and `MainMayRun` are the priorities. A context is
cut where one above it can see the difference: the exec between
`mp_exec_move()` and the hand-over to the loader (`HandOver`,
`stepper.cpp:418`), the forward planner between `mp_calculate_ramps()` and the
mark that the block is planned, the main loop between `cm_cycle_start()` and
the commit of the move, and at every block of a back-planning pass. `prep` is
`st_pre`, `ramps` the block that `mr->p` was computed for, `segments` what is
left of the move in `mr`.

Three history variables: `unloaded` counts what was prepared less what was loaded;
`lost` remembers that a cycle ended between `cm_cycle_start()` and the commit
of the move it was started for (finding 3); `stray` that a move of length zero has
left a cycle behind (finding 5).

### Feedhold

Fields indexed by `1 .. 2` are those of `cm1`/`cm2` and `mp1`/`mp2`; `cm` says which
is current. `op` is the `cmOperation_t`: the list, the running action,
`in_operation`. The main loop's pass is cut into `Input` (a key, a line or nothing),
`mp_planner_callback`, `_start_job_kill`, `_start_queue_flush`,
`_start_cycle_restart` and `run_operation`, one step for each action the
operation runs; each of them can be preempted by `Exec`, `Load` and `SegmentEnds`.
Every action of the code's list is an operator of the same name
(`_feedhold_with_actions`, `_run_restart_cycle`, ...), with one disjunct for
each state of the hold it tells apart.

`promise` is a history variable: what the header comment of the runner promises
(`cycle_feedhold.cpp:315-337`) for the last key that arrived. The liveness
properties are stated with it: a later key may take a promise back.

### JsonCommands

| Model | Code |
|---|---|
| `text`, `r`, `w`, `available` | `_json_bf`, `_json_r`, `_json_w`, the counter of `jc` |
| `WriteText`, `LoadAvailable`, `StoreAvailable` | `write_buffer()`, cut as the planner's counter is |
| `QueueCommand` | the command that `mp_json_command()` and `mp_json_wait()` queue behind the text |
| `Exec` | `_exec_json_command()`, `_exec_json_wait()` when what it waits for is so |
| `ResetP2`, `Flush` | the two ways to `planner_reset()`: of planner 2 when a hold enters it, of planner 1 in a flush |

Texts are numbered, so that a command can be asked whether it read its own.

### Jgv

One axis; a velocity is a small integer, a position a number of steps and followed
only where soft limits are. The main loop's pass has two places: before the
planner's callback, where messages and keys are served, and before the cycle's. `elapsed` is
how long ago the planner's callback was: a pass takes at most `PassTime`.
`cms` and `mps` are `cm1`/`cm2` and `mp1`/`mp2`, with what the cycle reads of them. Of a move
in a queue the model keeps whether it starts where the one before it ends;
`slipped` and `apart` say whether the cycle's own `planned_pos` and the planner's
position have come apart, and that is what the jump of a jog consists of.

| Model | Code |
|---|---|
| `Message`, `EnterCycle`, `Hear` | `cm_set_jgv()`, `_jgv_enter_cycle()` |
| `cm_jgv_callback` = `Exit`, `Wait`, `Segment`, with `Expired`, `Room`, `Ramped` | `cm_jgv_callback()`, in the order of its early returns |
| `Over`, `Released` | `_jgv_finalize_exit()`, `cm_canned_cycle_end()` |
| `Queue`, `Refuse`, `SoftLimit` | `cm_straight_feed_mm()` with `cm_test_soft_limits()` and `cm_alarm()`, which in an alarm answers OK |
| `mp_planner_callback` | the startup states of the planner with their timer |
| `RunMove`, `CanStop` | `mp_exec_aline()`, which runs nothing outside MACHINE_CYCLE, and after the last move declares the motion over, whatever the cycle |
| `Feedhold`, `EnterP2`, `Resume`, `Returned`, `Flush`, `RunAlarm`, `Clear`, `TakeOver` | what interferes: keys, a soft limit's alarm, `{clear:n}`, `{home:1}` |

### PinHold, Probing, Homing

`PinHold` has the axis (`pos`, `queue`, `model`, the position the G-code model believes in), the switch
(`level`, `lockout`, an opening of the contact for a moment) and the operation
runner. The main loop is cut wherever the interrupt of the switch or the exec can
change what it reads next: before each action of an operation, and before its
`reset()`, in which the list is emptied. `Edge` in `Probing` and `Homing` is
`pin_changed()` with the handler of the cycle. The steps of the cycles keep the names
of the code's functions; `func` is the pointer to the next one.
`_probing_start` is two steps (`ProbingStart`, `RegisterHandler`): it reads the input
before it registers the handler.

Histories: `first` is where the contact really was; `met` which moves were
stopped by the switch; `mishaps` what has happened to the cycle that a property
has to except, each of them a finding.

### LineBuffer

| Model | Code |
|---|---|
| `data`, `write`, `read`, `scan` | the ring, the DMA's offset, `_read_offset`, `_scan_offset` |
| `skip_sections`, `WithSkip`, `Skips` | `SkipSections`, a ring of its own: one section too many makes it look empty |
| `ScanChar`, `ScanEnds`, `Absorb` | `_scanBuffer()`, a step for each character |
| `ReturnControl`, `NoControl`, `SkipLead`, `ReturnData` | `readline()`, cut at its returns and loops |
| `FlushToCommand`, `Flush` | `flushToCommand()` (after `%`), `flush()` |

The refinement to `TwoLanes`: `items`, a history, are the lines that have begun to
arrive and are not returned yet; `line` is what `readline()` returned; and the number of lines
that a `flushToCommand()` would drop is `_lines_found`, as long as the last thing
that was returned is a control.

### Reports

`status` is what status reports need, `depth` what queue reports need. The callbacks
are cut at every access to something that an interrupt also writes (`request`,
`due`, `value`; `queue_report_requested`, `buffers_available`), and the report is
collected item by item. `host` and `host_depth` are what the host was told last.

## Runs

Passing runs:

| Run | Instance | Shows |
|---|---|---|
| `queue` | ring of 6, headroom 4, G-code lines of one, four and five blocks | The ring is one contiguous run of used buffers and implements `BlockFifo`, also when a line that is longer than the headroom panics; lines that fit never run out; the counter errs only to the safe side; "the queue emptied" is exact. |
| `pipeline` | moves, moves of length zero, commands, dwells; three in the queue, two segments | What is prepared is loaded once; a staged command is the head of the queue; the next move starts with its own ramps; a move waits only in cycle; blocks keep running and the cycle ends. |
| `feedhold` | all five keys, 1.9 million states | Planner 2 is current only in a hold; a hold that parked the tool is still; a held job loses moves only to a flush, a kill or an alarm; a flush that ends a hold leaves no move behind. |
| `feedhold_live` | hold, resume, flush, alarm; 520 000 states | Every state but OFF and HOLD is left again; a flush ends its hold; an alarm that has started its hold reaches ALARM, whatever is typed meanwhile; the list of actions has room for the exit chain. |
| `feedhold_kill` | hold, flush, kill, alarm | A job kill is carried out whatever it finds. |
| `jgv` | velocities up to two in each direction, soft limits, one interruption; 560 000 states | The segments of a jog join; at most `Depth` of them are ahead, at the start too; the job gets its modes back; a jog whose host is silent ends, unless a soft limit has stalled or stranded it. |
| `probing` | four positions, contact before, at and behind the target, one bounce, one key; 473 000 states | What is reported is where the contact was; the machine stops there; nothing of the cycle is left behind, however it ended; it ends. |
| `homing` | five positions, a switch in and out of reach, a cycle started at once or behind a move of the job that runs onto the switch, one bounce, one alarm; 466 000 states | Every step finds the G-code model where the machine stands; the zero is at the switch; the cycle ends. |
| `line_buffer` | a ring of 14 characters, six texts, up to three of them; 557 000 states | Refines `TwoLanes`; whatever is sent is read in the end, also a line longer than the ring. |
| `json` | a ring of 3, seven texts, two holds; 630 000 states | A command reads the text it was queued with; the ring is empty again when the queue is. |
| `reports` | two values, two buffers; 1.6 million states | What the values come to rest at has been reported; so has the depth of the queue, or will be. |

One run, `gcode_panic`, shows [finding](#findings) 2 by a violated property.

Every property of a passing run has a mutant in `PROJECT.json`: an operator next to
the one it changes, marked `Mutant:` in the module, that makes the change a
plausible bug would make. With it the property fails.

Many passing properties are as strong as the code allows, and no stronger. What
they except is a variable of the model, never a restriction of its steps, and
each exception is a finding:

| Property | Excepts |
|---|---|
| `NeverOutOfBuffers`, `NeverOverPromised` | a line longer than the headroom, `overlong` (2) |
| `BlocksRun`, `NextMoveHasItsRamps`, `MovesAreInCycle` | a cycle that was lost, `lost` (3, 4) |
| `CycleEnds` | a move of length zero dispatched in the last segment, `stray` (5) |
| `ParkedIsStill` | a hold that has not made its moves (10) |
| `FlushEndsTheHold`, `FlushDropsTheJob` | a flush typed after the restart has begun (13) |
| `AlarmIsEntered` | an alarm that does not start its own hold (14) |
| `SegmentsJoin`, `LagIsBounded`, `JobGetsItsModesBack` | a jog that a hold, an alarm or another cycle has come into, or that was begun with moves queued, `upset` (18–20) |
| `SilenceEndsJog` | a jog that is stalled at a soft limit in a hold, `Stalled`, or whose moves an alarm has stranded, `Stranded` (17) |
| `ReportsTheContact`, `ContactStops`, `ProbeEnds`, `HomingEnds`, `HomedAtTheSwitch` | a contact that bounces for longer than the lockout, an edge that finds another hold, an operation whose actions were refused, an abort: `mishaps` (24–28); for the zero also a latch that a bounce has stopped, `met` (33) |
| `MovesStartWhereItStands` | the steps that are made while a move of the job runs (30), and a cycle in which an edge has stopped that move, `mishaps` (32) |
| `OwnText`, `RoomComesBack` | a line with two texts, a hold that resets the ring, a lost count: `mishaps` (38–40) |
| `HostIsCurrent`, `DepthIsReported` | a value that returns to what was reported before a query, `asked`; a request that was overwritten (42, 43) |

`KillIsServed` is checked without `~`. With `!` and `~` alternating for ever a
pending kill can starve: the resume is started between the stage of a pass that
looks at kills and the end of the pass, and the next `!` comes before the next
pass. That takes a host that never stops typing and is no finding.

## Bounds

| Bound | Value | Why it is enough |
|---|---|---|
| `QueueSize` (48 and 12 in the code) | 6 | More than the longest line plus the block that runs; the pointers wrap. The proofs are for every size. |
| `Headroom` | 4 | As in the code. |
| `Aline`, `Command` | two moves, the commands of G-code | Two moves tell a swapped order; commands differ from each other in nothing the ring looks at. |
| `BeforeWrap` (`queue`) | `available <= QueueSize` | After a panic or a leak the counter can wrap below zero; the run stops there. |
| `FullAt` (`MotionPipeline`, `Jgv`) | 3, 2 | A block running, one planned ahead and one being planned: no interrupt looks further than the first block behind the run block that is not a command. For a jog: one more than its depth. |
| `MaxSegments` | 2 | A first and a last segment; more are repetitions of the middle. A deceleration can make a move longer. |
| `MaxBlocks` (`Feedhold`) | 2 | The block in which the hold decelerates and the one behind it, which a deceleration can run into. |
| `MaxSpeed`, `Ramp`, `Orders` (`Jgv`) | 2, 1; -1, 0, 2 | Both directions, with a ramp of two steps in one of them: a segment can be refused although the target is already zero. The proofs are for all orders. |
| `Positions` | 5, and "beyond" on either side | As far as the ramp to full speed takes: both limits are met from either side, at every speed. |
| `Depth` | 1 (8 in the code) | Less than `FullAt`, as in the code, so that depth and pace and a full planner are three different reasons to wait. With 2 and a `FullAt` of 3 all properties hold as well, in 1.3 million states. |
| `WatchdogTime`, `BlockTimeout`, `StartupPace` | 2, 1, 2 (500, 30 and 35 ms in the code) | The pace is longer than the planner's timer, and the watchdog does not expire before both: with a shorter one `LagIsBounded` would hold for the wrong reason. |
| `PassTime` | 1 | How long a pass of the main loop takes at most. With 2 `LagIsBounded` fails (23); the theorem says what is needed. |
| `MaxInterruptions` | 1 | A second hold or homing starts from a state that the first has left behind, which is an initial state but for `upset`. |
| `Far`, `Surfaces`, `Targets` (`Probing`) | 3; 1, 2, 4; 0 and 3 | A contact in the first step, one with room for braking on both sides, and none; a target on either side. |
| `Far`, `Surfaces`, `Travel`, `Jobs`, `Backoff`, `ZeroBackoff` (`Homing`) | 4; 2 and 9; 3; 3; 2, 1 | A switch on the way of the search and of the job's move, with room for braking on both sides, and one that neither meets; the backoff is longer than the braking, which the code asks of its settings. |
| `MaxChatter`, `MaxKeys`, `MaxProbes`, `MaxHomings` | 1 | One bounce, one hold or alarm from outside at every possible moment. |
| `Size`, `MaxLine`, `Sections` (`LineBuffer`; 1024, 512, 16 in the code) | 14, 9, 8 | The ring wraps; a line of 24 characters is longer than the ring and than what a line may have; `Sections` is a power of two, as the code's mask wants, and is not exhausted by three texts. |
| `MaxTexts` (`LineBuffer`) | 3 | A control between, before and behind two lines of data. |
| `FlushAnywhere` | FALSE | With TRUE the refinement fails: finding 37. |
| `Slots` (`JsonCommands`) | 3 | As in the code. |
| `MaxTexts`, `MaxHolds` | 7, 2 | Twice round the ring and one more; a hold that resets the ring and a flush that comes after it. |
| `Items`, `Buffers`, `MaxChanges`, `MaxBlocks`, `MaxQueries` (`Reports`) | 2, 2, 3, 2, 1 | Two values, so that one can change while the other is being reported; a value that changes, is reported, and comes back. |

`CHECK_DEADLOCK FALSE` is set for the planner queue, where a panicked machine
(`mainAt = "panic"`) with an empty queue stops for ever, and for `json`, whose
counters of texts and holds are bounded. The other models never stop, as the
main loop goes on.

## Fairness

- *Interrupts* that are requested are served, a segment that plays comes to
  its end: weak fairness of `Exec`, `Load`, `HandOver`, `ForwardPlan`,
  `RunDone`, `SegmentEnds`; of `RunMove` in `Jgv` and `Motion` in `Probing` and
  `Homing`; of `Receive` in `LineBuffer`. Nothing masks them for longer than a few instructions.
- *The main loop* gets what the interrupts leave. Exec and loader are done long
  before the segment they prepared has been played, so the main loop runs again
  and again although it is preempted again and again: strong fairness of `Main`
  in `Feedhold`, and of the callbacks that every pass makes in `MotionPipeline`. Where
  no action of an interrupt disables the main loop weak fairness says the same:
  `Main` in `Jgv`, `MainLoop` in `Probing` and `Homing`, `Callbacks` in `Reports`, `Scan \/ Return`
  in `LineBuffer`. The controller asks a device for control lines only, at some passes,
  and for any line at others: strong fairness of the second kind.
- *Operations* come to their end (`OperationEnds` in `Jgv`, strong: it takes a hold as a
  whole): what `Feedhold` is checked for in `Settles`.
- *Time* passes: `PlannerTimeout`, `Tick`, `TimerPast`; a spindle that ramps reaches its
  speed (`ToolheadReady`); the level of an input follows the position (`Edge`).
- *The host* promises nothing: no fairness on keys, lines or messages.

## Proofs

TLAPS checks the eight `…Proofs` modules, each for every value of the constants of the module it is
about. What the theorems assume about constants are the named assumptions of those modules, which TLC evaluates on
every run; two theorems have a hypothesis of their own, in the table. An exception of
a property ([above](#runs)) is part of the statement, as a history variable: no behaviour is left out
of a theorem.

| Module | Theorem | States |
|---|---|---|
| `PlannerQueueProofs` | `TypeCorrect` | `TypeOK` |
| | `UsedBuffersAreContiguous` | the used buffers are those from `r` to `w` |
| | `EmptiedAnswerIsExact` | `mp_free_run_buffer()` reports an empty queue exactly when it is |
| | `OneRunning` | only the run buffer is RUNNING |
| | `OnePlannedAhead` | `OneMovePlannedAhead`: one move at most has its ramps and has not started |
| | `BuffersNeverRunOut` | `mp_get_write_buffer()` fails only for a line longer than the headroom |
| | `CounterErrsToTheSafeSide` | the counter never promises too much, as long as no line is longer than that |
| | `QueueIsFifo` | the ring implements `BlockFifo` |
| `MotionPipelineProofs` | `TypeCorrect` | `TypeOK` |
| | `PreparedOnce` | what the exec prepares is loaded once |
| | `StagedIsRunBlock` | a staged command is the head of the queue |
| | `HeadAloneRuns` | one block at most runs, the first, and it stays until its last segment |
| | `MovesStayInCycle` | no move waits outside a cycle |
| | `RampsAreThere` | the ramps in `mr->p` are those of the move that starts next |
| `FeedholdProofs` | `TypeCorrect` | `TypeOK` |
| | `P2IsOfTheHold` | planner 2 is current only in a hold |
| | `WaitsAtRest` | in a hold that has made its moves nothing plays and no segment is prepared |
| | `HeldMovesStay` | an action property: only a flush, a kill or an alarm takes a move from a held job |
| | `FlushEndsTheMoves` | an action property: a hold whose last key was a flush ends without a move left |
| | `TheExitChainFits` | if `^D` is not among the keys, the exit of a hold fits into the list of actions |
| `JgvProofs` | `TypeCorrect` | `TypeOK` |
| | `SegmentsAlwaysJoin` | the segments of a jog join |
| | `ModesComeBack` | the job gets its modes back |
| | `LagStaysBounded` | if `PassTime <= StartupPace - BlockTimeout`, at most `Depth` segments are ahead |
| `ProbingProofs` | `NoTraceIsLeft` | handler and modes after a probe, however it ended |
| | `ContactStopsTheProbe` | a contact stops the machine within a step |
| | `TheContactIsReported` | what is reported is where the contact was |
| `HomingProofs` | `StepsStartWhereItStands` | every step finds the G-code model where the machine stands |
| | `ZeroIsAtTheSwitch` | the zero is at the switch, a zero backoff and a braking step away |
| | `NoTraceIsLeft` | handler and modes after a cycle, however it ended |
| `JsonCommandsProofs` | `TypeCorrect` | `TypeOK` |
| | `CommandsReadTheirOwnText` | a command reads the text it was queued with |
| | `AllRoomComesBack` | the ring is free again when no command is queued |
| `ReportsProofs` | `TypeCorrect` | `TypeOK` |
| | `DepthReaches` | the host knows the depth of the queue, or will be told |

The assumptions: the ring has at least two buffers and the counter is a `uint8_t` (`SizeAssumption`); a line
is a sequence of blocks, of JSON texts not an empty one (`LineAssumption`, `JsonAssumption`); moves and commands are
different, and neither is "no block" (`BlockAssumption`); distances, times and bounds are natural numbers,
the pace of a jog is longer than the planner's timer, and the distances a cycle moves by are not zero, where
the code tests for that (`TimeAssumption`, `BoundAssumption`, `HomingAssumption` and the like). There is no assumption
on the length of lines, on the number of keys, or on where a switch is.

### The ring: PlannerQueueProofs

`UsedAreTheRunToWrite` is nearly inductive: it says what each
buffer's state is from its distance to `r`. What it lacks is that a buffer the main
loop has opened leaves room (`used < QueueSize`), else the commit would carry `w`
past `r`, and that there is a block to put into it. `RingInv` adds both.
Each action is then a lemma (`RingOpens`, `RingCommits`, `RingFrees`, `RingResets`;
`SameShape` for all that only move a used buffer from one used state to another),
over a little arithmetic of the ring (`SlotAfterInjective`, `SlotAfterOnto`).
`OneRunning` is inductive by itself: only `StartMove` makes a buffer RUNNING, the
one at `r`, and a free makes that one EMPTY before `r` moves on.

`OneMovePlannedAhead` is not: two moves get ramps if the forward planner may pass a move, or a block that is not
planned at all. `OrderInv` adds why it does not. The blocks are back-planned from `r` on without a gap
(`PlannedPrefix`), and in front of a move that has its ramps there are only commands that are planned through, and at `r`
perhaps the running move (`PlannedInOrder`). Unplanning takes a prefix of the ring back, so that a move behind the first block
with only its back plan cannot keep ramps.

`CountInv` is the bookkeeping of the counter, whose decrement an interrupt can
interrupt. While the main loop holds the old value in a register, both register
and counter are at most what the ring has free, so that whichever is written last,
the error is on the safe side; and the rest of the line fits into either.

The refinement reads the FIFO off the ring: element `k` is the block `k - 1` buffers
after `r`. A commit is `Put`, a free is `Take`, a reset is `Flush`, and every other
step leaves `block`, `r` and `used` alone and is a stutter.

### The pipeline: MotionPipelineProofs

`PipeInv` says that the exec owns the prep buffer only when it is empty, that only the head of the queue
runs, and that the block whose ramps are being computed is still there and not yet marked: between
`mp_calculate_ramps()` and the mark the exec may free a block, and the index has to move with it. It holds
whatever becomes of the cycle. `RampInv` is about the cycle and the
ramps, up to the first cycle that is lost: every block in front of a planned move is one that the forward planner
passes, so that there is one such move and `mr->p` is its. The queue changes in nine ways; what each of them
keeps is proved once, without the actions (`StepShape` says which action makes which).

### Holds: FeedholdProofs

The properties are about queues and motors, and what decides them is the operation's list of actions. `HoldInv`
gives it a grammar: a list is an entry or an exit, and `Follows` says what may be behind each action; from the
action that runs, and from where the main loop is, it follows which planner is current, and from the state of
the hold what planner 2 may hold: in particular that "hold done" is the last block of the moves of a
hold (`Queues`), so that nothing of them is left to play when HOLD is declared. That makes `Parked` inductive.

`JobInv` is what must be so *while the job has a move left* (without one there is nothing to prove, which is what keeps
it inductive: a flush or a kill that empties the queue ends every obligation). A flush that was promised is
requested, or is in the list behind every restart that could end the hold; a
restart is in the list only in an exit. `EndOfFlush` and `HeldJob` then go through the actions that end a hold, or
take a move.

`Short` counts: without kills no list is ever cut short, a hold that makes its moves has nothing but
itself in its list, and so there are five places for a chain of three. It is false with kills, and so is the
property (finding 16).

### Jogging: JgvProofs

`Calm`, up to the first thing that catches a jog: the machine that is current is in cycle, in
the jog's, its planner has no gap, and the machine that a jog has left is the job's. That it is in cycle keeps out the
segments that an alarm lets pass (`Queue`), which leave a gap. A hold changes which machine that is, so the invariant relates both to the state of the hold
(`HeldInP2`).

`Paced` is the argument that the comment at `cycle_jgv.cpp:279` makes only in words: before the
planner starts, the pace runs ahead of the block timer by a constant margin, as both are set by the same commit. When the callback of
the planner has just seen that the timer is not over, the pace still has more than the margin to go, and at the jog's turn at
most `PassTime` has gone by. Hence the hypothesis: with a longer pass the theorem is false (finding 23).

### Probing and homing: ProbingProofs, HomingProofs

Both rest on the same facts about the runner (`Operations`: outside of an operation and of a hold the list is empty)
and the queue (`OneMoveAtMost`, `Shapes`: behind the move of a step there is nothing but its "done"). With these the hold of an
edge is the only operation there is, and can be followed until the rest of the move is gone (`Stopping`).

Homing does not look at holds, so it needs to know where the hold *is* when the next step is made: a stopped move is
gone, the "done" behind it is held until the hold is over (`Stopped`), and by then the model has been reset (`Positions`). What
broke the first attempts at this invariant is in the model now, as cycles that start behind a move of the
job: an edge in that move (`early`) and a latch stopped by a bounce are findings 32 and 33.
`Latch` follows the position from the edge to where it is set.

### Texts and depths: JsonCommandsProofs, ReportsProofs

`JsonInv` says of each place of the ring whose text it has (`InOrder`), and of the counter that it is exact as long as no
increment was lost, and never too high after one was. `DepthInv` says at which places of
`qr_queue_report_callback()` the stored depth may be old, and that then a request or a report is on its way.

### What is only model-checked

- *Liveness*, all of it: fairness and ENABLED are out of the prover's reach.
- *`IsTwoLanes` of `LineBuffer`*: it relates a line, which is a text filtered of its line ends, to a stretch of the
  ring, and what a filter computes for every text is induction over data. Besides, it is true only of texts that keep
  clear of findings 34 to 36.
- *`GcodeLine`*, for the same reason: its filter is a recursive function of the library.
- *The type invariants of `Probing`, `Homing` and `LineBuffer`*, which are in no run either. The proofs about the first two have
  types of their own (`MachineTypes`, `MotionTypes`).

## Findings

Finding 2 is in `PROJECT.json` with its run. For the others the property is in the
module named here, with the comment it comes from, and in no run: TLC finds
it violated, unless stated otherwise under the constants of the component's cfg. Where
there is no property, a passing property excepts the case by a history variable, and
fails without the exception.

The planner queue (`PlannerQueue`):

1. `CountIsExact`: an increment of `buffers_available` in an interrupt is lost in the
   main loop's decrement (`planner.cpp:859`); a buffer is gone until the next reset. The
   counter is not "the running count of available buffers" (`planner.h:431`).
2. `ABufferIsAlwaysFound`, run `gcode_panic`: `T1 M6 M3 G1 X1` queues five blocks;
   four are checked for. If just four are free, the fifth block finds none and the
   machine panics ("Never supposed to fail", `planner.cpp:372`).

The pipeline (`MotionPipeline`, `MCMotionPipeline`):

3. `EveryBlockRuns`: the end of the last block ends the cycle that the next line has
   just started (`canonical_machine.cpp:1577`, against `planner.h:62`). Its block is then
   never executed, until something else starts a cycle.
4. `StartsWithItsRamps`: when that happens the block left behind runs with the ramps of
   the block behind it.
5. `CycleEnds` without `stray`: a zero-length move dispatched during the last
   segment starts a cycle that nobody ends.
6. `HandsOverWhatItPrepared`: the exec marks the prep buffer as the loader's twice; a load
   in between makes it hand over an empty one. Harmless: it costs an exec.

Holds and alarms (`Feedhold`, `MCFeedhold`):

7. `ResumeIsServed`: a `~` served between HOLD and the end of the operation is
   dropped (`cycle_feedhold.cpp:479`, against `:328`).
8. `HoldNeedsCycle`: `!` in PROGRAM_STOP starts a hold, with its moves.
9. `NestedHoldStaysInP2`: a `!` in the exit moves, too late, is dropped and leaves a hold
   state behind in planner 2.
10. `HeldIsStill`: HOLD is declared when the queue is empty, with the last
    segment still playing.
11. `KilledAtRest`: for the same reason a job kill can run while the motors
    move.
12. `KilledStaysKilled`: the operation of a hold survives a job kill and starts the hold
    again.
13. `FlushAlwaysDropsTheJob`: `!~%` with the `%` in the exit moves does not flush this
    hold but the next.
14. `AlarmIsAlwaysEntered`: an alarm during a hold never reaches ALARM. (In READY
    or PROGRAM_END it does not either: `cm_request_feedhold()` ignores it.)
15. `AlarmLasts`: the ALARM state is overwritten by the end of the cycle
    of the commands that the alarm itself queued (`canonical_machine.cpp:1922`, against
    `alarm.cpp:148`).
16. `ExitChainFits` with `^D` among the keys (`MCFeedholdKill.cfg`): the operation that survives a
    kill (12) still has the exit of the hold in its list when it makes the moves of the hold once more. At their end the
    exit is added again, the list of six (`cycle_feedhold.cpp:134`) is full, and what does not fit is dropped; the
    callback does not look at what `add_action()` returns.

Velocity-mode jogging (`Jgv`):

17. `StallIsBrief`, `ClearLetsMovesRun`: a soft limit makes a jog endless, in two ways. In a hold, where the
    refusal starts no alarm, a segment that is refused leaves `v_current` as it is, so
    the next one is refused as well, with the target at zero too (against `cycle_jgv.cpp:505`). Out of a hold the
    alarm flushes what is queued and leaves the machine in ALARM, with CYCLE_JGV and an active jog. The jog then ramps down: a
    segment beyond the limit passes the test, as `cm_alarm()` answers OK in an alarm (`alarm.cpp:168`), and makes no
    move, its target having been reset; one within the limits is queued, and never runs, as `mp_exec_aline()` answers
    NOOP outside MACHINE_CYCLE (`plan_exec.cpp:406`). The jog waits for it for ever, at speed zero. `{clear:n}`, by
    which an "ALARM can be manually cleared" (`alarm.cpp:161`), leaves MACHINE_PROGRAM_STOP and the moves where they are, until a cycle
    such as homing or a job kill comes in. In neither case the watchdog helps.
18. `JogCanStartAgain`: a hold copies the jog's cycle to the second machine; the jog ends
    there, and the first keeps CYCLE_JGV, in which no jog starts (against `:226`).
19. `FlushEndsTheJog`: `cm_jgv_abort()`, "called from feedhold/queue-flush/alarm paths" (`:197`),
    is called by nobody. A jog that was held or flushed goes on from its own
    `planned_pos`, with a jump to it (`SegmentsJoin` without `upset`).
20. A jog that is begun with moves of the job still queued sets the planner's
    position to where the runtime is, and its first segment starts in the wrong place
    (`SegmentsJoin` without the first disjunct of `upset'` in `EnterCycle`).
21. `TargetStands` (`Ramp = 2`): in the segment of a reversal whose two velocities cancel, the code
    takes the axis to be at a limit and forgets the target, until the host sends it again.
22. `RejectedIsForgotten`: a velocity that is not accepted stays the axis's target, and
    moves it as soon as another axis is jogged.
23. `LagIsBounded` with `PassTime = 2`: that "commits spaced >30 ms apart" let the planner start
    (`cycle_jgv.cpp:279`) supposes a main loop that comes round within the 5 ms by which the pace is longer than
    the timer. If a pass takes longer than that between the planner's callback and the jog's, a segment is committed, and restarts the
    timer, before the planner has seen that it was over: more and more segments are queued, until the planner is full.

Probing (`Probing`):

24. `ContactAlwaysStops`: a contact that finds a hold or an operation in progress stops
    nothing, and the probe goes on to its target.
25. `ProbeAlwaysEnds`: an edge between the last action of an operation and its reset
    requests a hold whose actions are refused (`cycle_feedhold.cpp:192`, `:673`); the machine
    stops and nothing makes it go on. Homing has the same (`HomingEnds` without `refused`).
26. `ReportsTheContact` without `again`: each edge, of a bounce or of the way back, takes the snapshot
    anew (`cycle_probing.cpp:137`).
27. `StandsAtTheContact`: the move "back to the point we report" (`:164`) can be dropped by
    the hold of another edge.
28. `AbortedIsNoSuccess`: a probe that is aborted on its way back reports success,
    with the position where it stands for the contact (against `:296`).

Homing (`Homing`):

29. `HomedIfTheSwitchWasMet`: a search that never meets the switch goes on to the next
    step as if it had, and the machine is homed (against `cycle_homing.cpp:159`).
30. `MovesStartWhereItStands` without `~ HasMove`: a cycle that is started behind a move of the
    job reads the position and the switch before that move has run.
31. The moves of the G28.4 cycle end with one by the position of the switch, made as
    a relative move (`:400`). By reading; no property.
32. `MovesStartWhereItStands` without `early`: the handler does not ask whose move it stops. An edge in a move of the
    job that the cycle was started behind drops the rest of that move and leaves the G-code model at its end, and
    the first moves of the cycle are too short or too long.
33. `HomedAtTheSwitch` with any edge in `met`: if the closing of the switch falls into the lockout, and
    a bounce is what stops the latch, the zero is set as far behind the switch as the axis had got by then.

Serial lines (`LineBuffer`):

34. A line whose `\r\n` is followed by controls for as long as the ring leaves the last line end
    unread in front of them; the ring is full, the scan has nothing left and
    `readline()` returns before it reaches the skip (`xio.cpp:904`). The texts of `MCLineBuffer`
    are short enough that this does not happen.
35. A line whose length counts up to `_line_buffer_size - 1` just at its end (`:809`) is
    counted twice, or its successor ignored. The texts avoid that length.
36. With all sections but one in use controls are no longer looked for, and one section more
    (`addSkip()`, `:521`) makes the ring of sections look empty. `Sections` is large enough for the texts. By reading; no property.
37. `IsTwoLanes` with `FlushAnywhere`: `flush()` in the middle of a line leaves `_at_start_of_line` and
    `_line_start_offset` (`:967`), and the rest of the line is taken for what it is not.

JSON commands (`JsonCommands`):

38. `NeverOverrun`: `mp_planner_is_full()` looks for one free place, and a line with M6 and M100 takes
    two: a text is written over one that has not run (against `planner.cpp:422`).
39. `RoomComesBack` without `miscounted`: the counter loses increments as the planner's does, but no reset makes
    up for it until the next hold: the ring shrinks.
40. `OwnText` without `reset`: entering a hold resets planner 2 (`cycle_feedhold.cpp:773`), and with it
    the texts of the commands that wait in planner 1.

Reports (`Reports`):

41. The request is cleared (`report.cpp:364`) before it is asked whether it was for a full report
    (`:411`): a full report that was requested is sent filtered. `HostIsCurrent` does not
    depend on it.
42. `HostIsCurrent` without `asked`: a value that the host queries while it differs from the last
    report, and that then returns to what it was, is not reported again.
43. `DepthIsReported` without `overwritten`: requests for a queue report are lost to the second
    clearing (`:693`), to an interrupt between reading the depth and storing it
    (`:637`), and to the throttle of arcs (`:650`).

## What the models leave out

Abstractions, and why they are sound for what is checked:

- *Numbers.* Positions, velocities, times and the profile of a move are real
  arithmetic. A move is a number of segments; in a hold every segment may
  be one in which it stops, whenever the code's comparison of lengths could
  come out so. `Jgv`, `Probing` and `Homing` have positions and speeds, as small integers of
  one axis, because their properties are about them.
- *Planning.* `MP_BUFFER_NOT_PLANNED` exists only within a back-planning pass and
  looks to every interrupt like `INITIALIZING`. `PlannerQueue` has the pass in one
  step, `MotionPipeline` block by block; that the pass rewrites velocities of
  blocks the forward planner is reading is left out.
- *The exec's idle task* is taken to be off (the Cartesian kinematics).
- *`st_check_load_move()`* is one step: the interrupts that could come in between
  need the runtime to be busy, which it has just seen is not so.
- *`Feedhold`* lets a block run as soon as it is committed and the exec is asked, which
  is what `MotionPipeline` establishes; the toolhead is always ready
  there. It has no SKIP hold (those are `PinHold`'s), no SCRAM or HALT hold,
  no interlock, no dwell, and of the alarms neither shutdown, panic nor clear (which
  `Jgv` has). An alarm is therefore for ever in that model.
- *The end of a cycle* in a command may be a program end or a stop: the
  choice depends on M2/M30 and is left open.
- *`Jgv`* takes a hold as a whole: motors stop, the second planner is swapped in. It has no other
  cycle than homing, as one step in and one out, and no acceleration of more axes than one. In an alarm `planned_pos` may
  run beyond a limit; how far is not followed, and where it comes back is left open. The commands that a
  program stop or end queues are left out: they run outside a cycle as in one.
- *`PinHold`* brakes within one position, and drops or keeps the rest of the move as the
  type of the hold says. `Probing` has probes towards contact (G38.2, G38.3), whose mirror images
  G38.4 and G38.5 differ in the sign of the level. `Homing` has one axis and
  its maximum travel as a constant; its choice of the next axis is a table. `%` and `~` are keys
  of a probe and not of homing, whose holds they end in the same way. Left out because it cannot happen there: the
  test for an alarm in the wait of `cm_probing_cycle_callback()` (`cycle_probing.cpp:263`), as the flush that comes with an alarm has
  ended the probe before; a refused move of homing (`cycle_homing.cpp:421`), as a feed rate of zero is trapped
  at the start and the axis that moves is not homed (`:272`), so that no soft limit is tested for it.
- *`LineBuffer`*: `%` is a single character like the other controls there, whose flush is the
  controller's; the headers of a device and the choice of device are not modelled. Nor is the flush on a NUL
  character (`xio.cpp:716`), and a line is too short for the 16 bits of `_last_line_length` to wrap.
- *`Reports`*: the request for a queue report that a flush makes, and the depth of the other planner
  in a hold, are left out. Whether a request is honoured at once or at the timer is left open, and so is what a
  report says of a value but that it is old or new. `send_nested_hold_report` is set by nobody,
  and the sequence it starts is left out.
- *Text*: lines, words, JSON and reports. `GcodeLine` starts from a line's
  words.

Not modelled at all: jogging to a position and arcs (a chain of moves as homing's and segments as a
jog's, with less that can go wrong between them); the safety interlock (its hold is one of
`Feedhold`'s with another last action); kinematics and step generation (real arithmetic); temperature
control (a PID loop that motion waits for only in M109/M190); configuration
and the JSON tables (sequential get and set by name); persistence (a device
most boards do not have); the Marlin dialect (off in the builds of this fork);
boards, settings, Motate and device drivers (register access, vendored code). These are
also most of the repository's lines: the file system of the SD card, tables of settings,
the G-code of test files, register definitions and configuration tables have no behaviour to check.

## Plan

What is left, in this order:

1. *Proofs* of what is only model-checked and within reach: `LineBuffer`'s types and the parts of its refinement that do not count lines; `HostIsCurrent`'s safety part; action properties of `MotionPipeline` (a block leaves the queue
   only when it has run).
2. *Back planning* against the exec, on `plannable` and `buffer_state`, and the
   loops over a ring that holds nothing but commands.
3. *`cmOperation`*: `repack()`, SCRAM and HALT holds, the interlock, shutdown and panic; a dwell that is held.
4. *Arcs, jogging to a position, the ramps of a spindle, the waits of G28 and G30.*
5. *Pure algorithms*: offsets and modal groups, the unit conversions that are
   integer, each against a reference definition.
