-------------------------- MODULE MCPlannerQueue --------------------------
(* The planner ring for TLC: a few buffers, two moves, lines of G-code. *)
EXTENDS PlannerQueue, GcodeLine

MCAline == {Move, "second move"}
MCCommand == Commands
\* A feed; a feed with the spindle and the coolant switched
\* on, four blocks; a tool change with the
\* spindle started before the feed: five blocks.
MCLine == {<<"second move">>} \cup { BlocksOf(l) : l \in
  { [words |-> {}, action |-> "G1", flow |-> ""],
    [words |-> {"M3", "M7", "M8"}, action |-> "G1", flow |-> ""],
    [words |-> {"T", "M6", "M3"}, action |-> "G1", flow |-> ""] } }

\* Bound: a run is followed until the counter wraps below zero.
BeforeWrap == available <= QueueSize
===========================================================================
