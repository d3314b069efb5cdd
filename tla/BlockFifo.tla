---------------------------- MODULE BlockFifo ----------------------------
(***************************************************************************)
(* What the planner queue promises the rest of the system, whatever the    *)
(* ring under it looks like: blocks leave in the order they were           *)
(* committed, each exactly once, and there are never more than the queue   *)
(* can hold.  A flush drops all of them together.                          *)
(***************************************************************************)
EXTENDS Naturals, Sequences

CONSTANTS Block,      \* what a block carries
          Capacity    \* number of buffers of the queue

VARIABLE fifo         \* the committed blocks, the run buffer first

Init == fifo = <<>>

Put == /\ Len(fifo) < Capacity
       /\ \E b \in Block : fifo' = Append(fifo, b)

Take == /\ fifo # <<>>
        /\ fifo' = Tail(fifo)

Flush == fifo' = <<>>

Next == Put \/ Take \/ Flush

Spec == Init /\ [][Next]_fifo
==========================================================================
