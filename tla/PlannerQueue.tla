--------------------------- MODULE PlannerQueue ---------------------------
(***************************************************************************)
(* The ring of planner buffers (mpPlannerQueue_t, planner.cpp).            *)
(*                                                                         *)
(* Two contexts share it.  The main loop dispatches a G-code line when     *)
(* mp_planner_is_full() says there is headroom, and queues the blocks of   *)
(* that line one after another through mp_get_write_buffer() and           *)
(* mp_commit_write_buffer().  The interrupts (forward planning, exec,      *)
(* loader) plan, run and free the blocks; they preempt the main loop       *)
(* between any two of its memory accesses, and no main-loop step happens   *)
(* while one of them runs.  So an interrupt is one action, and a main-loop *)
(* function is cut where an interrupt can tell: the decrement of           *)
(* buffers_available is a load and a store.                                *)
(***************************************************************************)
EXTENDS Integers, Sequences

CONSTANTS QueueSize,   \* q.queue_size: PLANNER_QUEUE_SIZE or SECONDARY_QUEUE_SIZE
          Headroom,    \* PLANNER_BUFFER_HEADROOM
          Aline,       \* the blocks of type BLOCK_TYPE_ALINE
          Command,     \* the blocks of every type from BLOCK_TYPE_COMMAND on
          Line         \* the block sequences one dispatched line can queue

Block == Aline \cup Command
NoBlock == "no block"               \* BLOCK_TYPE_NULL of a reset buffer

ASSUME SizeAssumption == /\ Headroom \in Nat \ {0}
                         /\ QueueSize \in 2 .. 255         \* a uint8_t
                         /\ Headroom <= QueueSize
ASSUME LineAssumption == Line \subseteq Seq(Block)
ASSUME BlockAssumption == /\ NoBlock \notin Block
                          /\ Aline \cap Command = {}

\* bufferState.  MP_BUFFER_NOT_PLANNED exists only inside a pass of the
\* planner; no interrupt reads a block below BACK_PLANNED, so the pass is
\* one step here and the state does not appear.
EMPTY == 0
INITIALIZING == 1
BACK_PLANNED == 3
FULLY_PLANNED == 4
RUNNING == 5
BufferState == {EMPTY, INITIALIZING, BACK_PLANNED, FULLY_PLANNED, RUNNING}

VARIABLES
  bufferState,  \* buffer_state of each buffer of the pool
  block,        \* what the buffer carries
  r, w,         \* the run and the write buffer
  available,    \* buffers_available
  register,     \* the value the main loop loaded from buffers_available
  mainAt,       \* where the main loop is
  todo,         \* blocks of the dispatched line that are still to be queued
  used,         \* history: number of committed blocks in the ring
  overlong      \* history: a line longer than the headroom has been dispatched
                \* since the planner was reset

ring == <<bufferState, block, r, w, used>>
main == <<register, mainAt, todo, overlong>>
vars == <<bufferState, block, r, w, used, available, register, mainAt, todo,
          overlong>>

Slots == 0 .. QueueSize - 1
\* Mutant: the ring closes one buffer too late.
NxPastTheEnd(i) == IF i < QueueSize THEN i + 1 ELSE 0
Nx(i) == IF i < QueueSize - 1 THEN i + 1 ELSE 0            \* bf->nx
\* k buffers after i, for k <= QueueSize.
SlotAfter(i, k) == IF i + k >= QueueSize THEN i + k - QueueSize ELSE i + k

\* Mutant: the headroom is taken for the number that must stay free.
FullOneTooLate == available < Headroom - 1
mp_planner_is_full == available < Headroom

\* buffers_available is a uint8_t.
Decremented(n) == IF n = 0 THEN 255 ELSE n - 1
Incremented(n) == IF n = 255 THEN 0 ELSE n + 1

TypeOK ==
  /\ bufferState \in [Slots -> BufferState]
  /\ block \in [Slots -> Block \cup {NoBlock}]
  /\ r \in Slots
  /\ w \in Slots
  /\ available \in 0 .. 255
  /\ register \in 0 .. 255
  /\ mainAt \in {"ready", "queueing", "decrementing", "filling", "panic"}
  /\ todo \in Seq(Block)
  /\ used \in 0 .. QueueSize
  /\ overlong \in BOOLEAN

Init ==
  /\ bufferState = [i \in Slots |-> EMPTY]
  /\ block = [i \in Slots |-> NoBlock]
  /\ r = 0
  /\ w = 0
  /\ available = QueueSize
  /\ register = 0
  /\ mainAt = "ready"
  /\ todo = <<>>
  /\ used = 0
  /\ overlong = FALSE

---------------------------------------------------------------------------
(* Main loop *)

\* _sync_to_planner() and _dispatch_command(): a line is read only when the
\* planner is not full; the parser then queues all of its blocks.
DispatchLine ==
  /\ mainAt = "ready"
  /\ ~ mp_planner_is_full
  /\ todo' \in Line
  /\ mainAt' = "queueing"
  /\ overlong' = (overlong \/ Len(todo') > Headroom)
  /\ UNCHANGED <<ring, available, register>>

LineDone ==
  /\ mainAt = "queueing"
  /\ todo = <<>>
  /\ mainAt' = "ready"
  /\ UNCHANGED <<ring, available, register, todo, overlong>>

\* mp_get_write_buffer(), up to and including the load of the counter.
GetWriteBuffer ==
  /\ mainAt = "queueing"
  /\ todo # <<>>
  /\ bufferState[w] = EMPTY
  /\ bufferState' = [bufferState EXCEPT ![w] = INITIALIZING]
  /\ register' = available
  /\ mainAt' = "decrementing"
  /\ UNCHANGED <<block, r, w, used, available, todo, overlong>>

\* Mutant: the counter is not decremented.
StoreUndecremented ==
  /\ mainAt = "decrementing"
  /\ available' = register
  /\ mainAt' = "filling"
  /\ UNCHANGED <<ring, register, todo, overlong>>

\* ... the store of the decremented value.
StoreAvailable ==
  /\ mainAt = "decrementing"
  /\ available' = Decremented(register)
  /\ mainAt' = "filling"
  /\ UNCHANGED <<ring, register, todo, overlong>>

\* mp_get_write_buffer() returns NULL; its callers call cm_panic().
GetWriteBufferFails ==
  /\ mainAt = "queueing"
  /\ todo # <<>>
  /\ bufferState[w] # EMPTY
  /\ mainAt' = "panic"
  /\ UNCHANGED <<ring, available, register, todo, overlong>>

\* Mutant: the write pointer is advanced before the block is filled in.
CommitAfterAdvancing ==
  /\ mainAt = "filling"
  /\ block' = [block EXCEPT ![Nx(w)] = Head(todo)]
  /\ w' = Nx(w)
  /\ used' = used + 1
  /\ todo' = Tail(todo)
  /\ mainAt' = "queueing"
  /\ UNCHANGED <<bufferState, r, available, register, overlong>>

\* The caller fills the buffer, mp_commit_write_buffer() hands it over.
\* Until the planner has planned it the block stays INITIALIZING.
CommitWriteBuffer ==
  /\ mainAt = "filling"
  /\ block' = [block EXCEPT ![w] = Head(todo)]
  /\ w' = Nx(w)
  /\ used' = used + 1
  /\ todo' = Tail(todo)
  /\ mainAt' = "queueing"
  /\ UNCHANGED <<bufferState, r, available, register, overlong>>

\* A pass of mp_plan_block_list(): every committed block gets back-planned.
PlanBlockList ==
  /\ mainAt = "ready"
  /\ \E i \in Slots : bufferState[i] = INITIALIZING
  /\ bufferState' = [i \in Slots |-> IF bufferState[i] = INITIALIZING
                                     THEN BACK_PLANNED ELSE bufferState[i]]
  /\ UNCHANGED <<block, r, w, used, available, main>>

\* mp_replan_queue(mp_get_r()), and the loop of _exec_aline_feedhold() that
\* does the same when motion has stopped: the blocks from the run buffer up
\* to the first one that is not planned further than BACK_PLANNED go back.
Unplan ==
  LET planned == {k \in 0 .. QueueSize - 1 : \A j \in 0 .. k :
                    bufferState[SlotAfter(r, j)] > BACK_PLANNED}
      back == {SlotAfter(r, k) : k \in planned}
  IN /\ back # {}
     /\ bufferState' = [i \in Slots |-> IF i \in back THEN BACK_PLANNED
                                        ELSE bufferState[i]]
     /\ UNCHANGED <<block, r, w, used, available, main>>

\* planner_reset(): queue flush and job kill, between two lines.
PlannerReset ==
  /\ mainAt = "ready"
  /\ bufferState' = [i \in Slots |-> EMPTY]
  /\ block' = [i \in Slots |-> NoBlock]
  /\ r' = 0
  /\ w' = 0
  /\ available' = QueueSize
  /\ used' = 0
  /\ overlong' = FALSE
  /\ UNCHANGED <<register, mainAt, todo>>

---------------------------------------------------------------------------
(* Interrupts *)

\* mp_forward_plan(): from the run buffer, or from the one after it if that
\* is running, all commands up to the first block that is none, and that
\* block if it is a move.
ForwardPlan ==
  LET first == IF bufferState[r] = RUNNING THEN 1 ELSE 0
      at(k) == SlotAfter(r, k)
      reached == {k \in first .. QueueSize - 1 : \A j \in first .. k - 1 :
                    block[at(j)] \in Command}
      planned == {at(k) : k \in {j \in reached :
                    /\ block[at(j)] # NoBlock
                    /\ bufferState[at(j)] = BACK_PLANNED}}
  IN /\ bufferState[r] >= BACK_PLANNED
     /\ planned # {}
     /\ bufferState' = [i \in Slots |-> IF i \in planned THEN FULLY_PLANNED
                                        ELSE bufferState[i]]
     /\ UNCHANGED <<block, r, w, used, available, main>>

\* mp_exec_move() starts a move.
StartMove ==
  /\ block[r] \in Aline
  /\ bufferState[r] = FULLY_PLANNED
  /\ bufferState' = [bufferState EXCEPT ![r] = RUNNING]
  /\ UNCHANGED <<block, r, w, used, available, main>>

\* mp_exec_move() runs a command or a dwell as soon as it is back-planned.
Runnable == \/ block[r] \in Aline /\ bufferState[r] = RUNNING
            \/ block[r] \in Command /\ bufferState[r] >= BACK_PLANNED

\* Mutant: the buffer that is cleared is the run buffer after advancing.
FreeClearsNext ==
  /\ Runnable
  /\ r' = Nx(r)
  /\ bufferState' = [bufferState EXCEPT ![r'] = EMPTY]
  /\ block' = [block EXCEPT ![r'] = NoBlock]
  /\ available' = Incremented(available)
  /\ used' = used - 1
  /\ UNCHANGED <<w, main>>

\* mp_free_run_buffer(), called when the run block is done.
FreeRunBuffer ==
  /\ Runnable
  /\ r' = Nx(r)
  /\ bufferState' = [bufferState EXCEPT ![r] = EMPTY]
  /\ block' = [block EXCEPT ![r] = NoBlock]
  /\ available' = Incremented(available)
  /\ used' = used - 1
  /\ UNCHANGED <<w, main>>

\* Mutant: the pointers are compared before r has moved.
EmptiedBeforeAdvance == w = r

\* What mp_free_run_buffer() returns: "the queue emptied".
ReportsEmptied == w = Nx(r)

Next == \/ DispatchLine \/ LineDone
        \/ GetWriteBuffer \/ StoreAvailable \/ GetWriteBufferFails
        \/ CommitWriteBuffer
        \/ PlanBlockList \/ Unplan \/ PlannerReset
        \/ ForwardPlan \/ StartMove \/ FreeRunBuffer

Spec == Init /\ [][Next]_vars

---------------------------------------------------------------------------
(* Properties *)

Open == IF mainAt \in {"decrementing", "filling"} THEN 1 ELSE 0

\* A buffer can always be had, although the interrupts change the counter under
\* the hands of the main loop and a line checks it only once: as long as no
\* line queues more than the headroom.
NeverOutOfBuffers == mainAt = "panic" => overlong

\* "Never supposed to fail as buffer availability was checked upstream in the
\* controller" (planner.cpp:372), whatever the line.
ABufferIsAlwaysFound == mainAt # "panic"

\* The committed blocks are the ones from r up to w and nothing else: each
\* is in use, every other buffer is EMPTY, and the buffer the main loop is
\* filling is the one at w.
UsedAreTheRunToWrite ==
  /\ w = SlotAfter(r, used)
  /\ \A k \in 0 .. QueueSize - 1 :
       LET i == SlotAfter(r, k)
       IN  /\ k < used => bufferState[i] # EMPTY /\ block[i] \in Block
           /\ k = used => bufferState[i] = IF Open = 1 THEN INITIALIZING ELSE EMPTY
           /\ k > used => bufferState[i] = EMPTY

\* buffers_available never promises more than there is, although an
\* interrupt may free a buffer between the load and the store of the main
\* loop's decrement: the error that makes can only be on the safe side.
NeverOverPromised ==
  ~ overlong /\ mainAt # "decrementing" => available + used + Open <= QueueSize

\* mp_free_run_buffer() returns true exactly when it frees the last
\* committed block: that answer ends the machining cycle.
EmptiedIsExact == Runnable => (ReportsEmptied <=> used = 1)

\* The order _audit_buffers() wants along the ring, as far as the interrupts
\* rely on it: only the run buffer is RUNNING, and a move that is ready to
\* run (FULLY_PLANNED or RUNNING) never waits behind another ready move that
\* has not started: mr has one planning block for the next move only.
OnlyTheRunBufferRuns ==
  \A i \in Slots : bufferState[i] = RUNNING => i = r
OneMovePlannedAhead ==
  \A i, j \in Slots :
    /\ bufferState[i] = FULLY_PLANNED /\ block[i] \in Aline
    /\ bufferState[j] = FULLY_PLANNED /\ block[j] \in Aline
    => i = j

\* The ring is a FIFO queue of blocks.
fifo == [k \in 1 .. used |-> block[SlotAfter(r, k - 1)]]
Fifo == INSTANCE BlockFifo WITH Capacity <- QueueSize
IsFifo == Fifo!Spec

\* buffers_available is "the running count of available buffers in queue"
\* (planner.h:431) whenever the main loop is between two lines.
CountIsExact == mainAt = "ready" => available = QueueSize - used
==========================================================================
