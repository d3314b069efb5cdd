----------------------------- MODULE GcodeLine -----------------------------
(***************************************************************************)
(* The planner blocks one G-code line queues: _execute_gcode_block() calls *)
(* the canonical machine once for every word of the line, in the order of  *)
(* NIST table 8, and each call queues a fixed number of blocks.  Words     *)
(* that queue nothing are left out, and so are G28 and G30, which wait for *)
(* room themselves.                                                        *)
(***************************************************************************)
EXTENDS Sequences, SequencesExt

Move == "move"
Commands == {"speed", "select tool", "change tool", "json", "spindle",
             "mist", "flood", "coolant off", "dwell", "origin", "finalize"}

\* Words of which a line can hold any number (M7 and M8 share a modal group
\* but "may be active together"), and the ones of which it holds one at most.
FreeWords == {"S", "T", "M6", "M3", "M7", "M8", "M9"}
Actions == {"", "G4", "G28.3", "M100", "G1"}
Flows == {"", "M0", "M30"}

GcodeLines == [words : SUBSET FreeWords, action : Actions, flow : Flows]

\* S and M3 queue a block when the toolhead asks for one; M6 queues the tool
\* change and a JSON command behind it; M0 and M30 queue the finalizer.
InOrder == << <<"S", "speed">>, <<"T", "select tool">>,
              <<"M6", "change tool">>, <<"M6", "json">>, <<"M3", "spindle">>,
              <<"M7", "mist">>, <<"M8", "flood">>, <<"M9", "coolant off">>,
              <<"G4", "dwell">>, <<"G28.3", "origin">>, <<"M100", "json">>,
              <<"G1", Move>>, <<"M0", "finalize">>, <<"M30", "finalize">> >>

WordsOf(line) == line.words \cup {line.action, line.flow}

BlocksOf(line) ==
  LET mine == SelectSeq(InOrder, LAMBDA p : p[1] \in WordsOf(line))
  IN [i \in 1 .. Len(mine) |-> mine[i][2]]
============================================================================
