---------------------------- MODULE LineBuffer ----------------------------
(***************************************************************************)
(* LineRXBuffer of xio.cpp: characters that DMA puts into a ring are read  *)
(* as lines.  readline() first scans what has come for controls: lines     *)
(* that begin with a brace, and single characters.  A control is returned  *)
(* at once, and where it stood in the ring is noted as a section to skip;  *)
(* if there is none the next line of data is returned.                     *)
(*                                                                         *)
(* readline() is cut at every character it scans and at the places where   *)
(* new characters make a difference.  A line is too long if it has more    *)
(* than MaxLine characters; its rest is ignored.                           *)
(***************************************************************************)
EXTENDS Integers, SequencesExt

CONSTANTS Size,          \* of the ring, a power of 2
          MaxLine,       \* _line_buffer_size - 1
          Sections,      \* _section_count
          Texts,         \* the lines that the host sends, with their line ends
          MaxTexts,      \* bound on their number
          FlushAnywhere  \* may the device be flushed in the middle of a line?

\* The characters: an end of line, the brace, a character that is a control of
\* its own, and the others.
EndOfLine == "eol"
Brace == "{"
Single == "^"

ASSUME LineBufferAssumption ==
  /\ {Size, MaxLine, Sections} \subseteq Nat \ {0} /\ MaxLine < Size
  /\ \A t \in Texts : t # <<>>
  /\ MaxTexts \in Nat /\ FlushAnywhere \in BOOLEAN

VARIABLES
  data,             \* _data
  write,            \* the write offset of the DMA
  read, scan,       \* _read_offset, _scan_offset
  line_start,       \* _line_start_offset
  last_length,      \* _last_line_length, up to one more than MaxLine
  ignoring,         \* _ignore_until_next_line
  at_start,         \* _at_start_of_line
  lines_found,      \* _lines_found
  skip_sections,    \* _skip_sections: from an offset up to another
  last_control,     \* _last_returned_a_control
  at,               \* where readline() is
  control_only,     \* its argument
  line,             \* what it returned last
  sending, texts,   \* what the host is sending, how much it has sent
  items             \* history: the lines sent, less those returned or flushed

ring == <<data, write, sending, texts>>
scanned == <<scan, line_start, last_length, ignoring, at_start, lines_found>>
vars == <<ring, scanned, read, skip_sections, last_control, at, control_only, line, items>>

TypeOK ==
  /\ DOMAIN data = 0 .. Size - 1
  /\ {write, read, scan, line_start} \subseteq 0 .. Size - 1
  /\ last_length \in 0 .. MaxLine + 1 /\ lines_found \in 0 .. Size
  /\ {ignoring, at_start, last_control, control_only} \subseteq BOOLEAN
  /\ skip_sections \in Seq([from : 0 .. Size - 1, to : 0 .. Size - 1])
  /\ at \in {"idle", "scan", "absorb", "control", "data", "lead"}

Init ==
  /\ data = [i \in 0 .. Size - 1 |-> EndOfLine] /\ write = 0
  /\ read = 0 /\ scan = 0 /\ line_start = 0 /\ last_length = 0
  /\ ignoring = FALSE /\ at_start = TRUE /\ lines_found = 0
  /\ skip_sections = <<>> /\ last_control = FALSE
  /\ at = "idle" /\ control_only = FALSE
  /\ line = [control |-> FALSE, text |-> <<>>]
  /\ sending = <<>> /\ texts = 0 /\ items = <<>>

---------------------------------------------------------------------------
(* The ring *)

After(offset, n) == (offset + n) % Size
Distance(from, to) == (to - from) % Size
Chars(from, n) == [i \in 1 .. n |-> data[After(from, i - 1)]]

\* What a line is to readline(): one too long is cut, and is data.
Item(text) ==
  LET chars == SelectSeq(text, LAMBDA c : c # EndOfLine)
  IN [control |-> Head(text) = Single \/ (Head(text) = Brace /\ Len(chars) < MaxLine),
      text |-> SubSeq(chars, 1, Min({Len(chars), MaxLine}))]

\* DMA, as long as there is room
Receive ==
  /\ After(write, 1) # read
  /\ \E t \in IF sending = <<>> THEN Texts ELSE {sending} :
       /\ data' = [data EXCEPT ![write] = Head(t)]
       /\ sending' = Tail(t)
       /\ items' = (IF sending = <<>> /\ Item(t).text # <<>> THEN Append(items, Item(t))
                                                            ELSE items)
  /\ texts' = (IF sending = <<>> THEN texts + 1 ELSE texts) /\ texts' <= MaxTexts
  /\ write' = After(write, 1)
  /\ UNCHANGED <<scanned, read, skip_sections, last_control, at, control_only, line>>

---------------------------------------------------------------------------
(* The sections to skip *)

IsFull == Len(skip_sections) = Sections - 1

\* addSkip(): a section that continues the last one is merged with it, and one
\* too many makes the ring of sections look empty.  Mutant: it is not merged,
\* but takes the place of the last one.
SkipReplacingLast(from, to) ==
  IF skip_sections # <<>> THEN Append(Front(skip_sections), [from |-> from, to |-> to])
                          ELSE <<[from |-> from, to |-> to]>>
WithSkip(from, to) ==
  IF skip_sections # <<>> /\ Last(skip_sections).to = from
    THEN [skip_sections EXCEPT ![Len(skip_sections)].to = to]
  ELSE IF IsFull THEN <<>>
  ELSE Append(skip_sections, [from |-> from, to |-> to])

\* skip()
Skips(offset) == skip_sections # <<>> /\ Head(skip_sections).from = offset
ReadFrom(offset) ==
  IF Skips(offset) THEN read' = Head(skip_sections).to /\ skip_sections' = Tail(skip_sections)
                   ELSE read' = offset /\ UNCHANGED skip_sections

---------------------------------------------------------------------------
(* readline() *)

Readline ==
  /\ at = "idle"
  /\ control_only' \in BOOLEAN
  /\ at' = (IF IsFull THEN "data" ELSE "scan")
  /\ UNCHANGED <<ring, scanned, read, skip_sections, last_control, line, items>>

\* A line that has ended is a control or one more line of data.
Ends(control) ==
  /\ at_start' = TRUE
  /\ IF control THEN at' = "absorb" /\ UNCHANGED lines_found
                ELSE lines_found' = lines_found + 1 /\ UNCHANGED at
Advance == scan' = After(scan, 1)
Counted(length) == last_length' = IF length > MaxLine THEN MaxLine + 1 ELSE length + 1

\* A line that has not ended, whose start is as given, can become too long.
Continues(from, length) ==
  /\ Counted(length)
  /\ ignoring' = (ignoring \/ last_length' = MaxLine)
  /\ line_start' = (IF last_length' = MaxLine THEN scan' ELSE from)
  /\ lines_found' = (IF last_length' = MaxLine THEN lines_found + 1 ELSE lines_found)
  /\ UNCHANGED at

\* A pass of the loop in _scanBuffer()
ScanChar ==
  LET c == data[scan]
  IN /\ at = "scan" /\ scan # write
     /\ Advance
     /\ \/ /\ c = EndOfLine /\ ignoring
           /\ skip_sections' = WithSkip(line_start, scan)
           /\ line_start' = scan
           /\ at_start' = TRUE /\ ignoring' = FALSE /\ last_length' = 1
           /\ UNCHANGED <<lines_found, at>>
        \/ /\ c = EndOfLine /\ ~ ignoring /\ ~ at_start
           /\ Ends(data[line_start] = Brace)
           /\ Counted(last_length)
           /\ UNCHANGED <<line_start, ignoring, skip_sections>>
        \/ /\ IF c = EndOfLine THEN ~ ignoring /\ at_start ELSE ignoring
           /\ Continues(line_start, last_length)
           /\ UNCHANGED <<at_start, skip_sections>>
        \/ /\ c = Single /\ ~ ignoring /\ at_start
           /\ line_start' = scan
           /\ Ends(TRUE)
           /\ Counted(last_length)
           /\ UNCHANGED <<ignoring, skip_sections>>
        \/ /\ c # EndOfLine /\ ~ ignoring /\ ~ (c = Single /\ at_start)
           /\ IF at_start THEN Continues(scan, 0) ELSE Continues(line_start, last_length)
           /\ at_start' = FALSE
           /\ UNCHANGED skip_sections
     /\ UNCHANGED <<ring, read, last_control, control_only, line, items>>

\* What has come of a line too long is skipped.  Mutant: only when it ends.
OverageWaits == FALSE
Overage == ignoring /\ line_start # scan

\* There is no control.
ScanEnds ==
  /\ at = "scan" /\ scan = write
  /\ IF Overage
       THEN skip_sections' = WithSkip(line_start, scan) /\ line_start' = scan
       ELSE UNCHANGED <<skip_sections, line_start>>
  /\ at' = "data"
  /\ UNCHANGED <<ring, scan, last_length, ignoring, at_start, lines_found, read,
                 last_control, control_only, line, items>>

\* The line ends behind a control belong to it.
Absorb ==
  /\ at = "absorb"
  /\ IF scan # write /\ data[scan] = EndOfLine THEN Advance /\ UNCHANGED at
                                               ELSE at' = "control" /\ UNCHANGED scan
  /\ UNCHANGED <<ring, line_start, last_length, ignoring, at_start, lines_found, read,
                 skip_sections, last_control, control_only, line, items>>

\* Where the data is read on after a control, if it stood at the beginning of
\* it.  Mutant: data is read on behind the control in any case.
ReadOnBehind == scan
ReadOn == IF line_start = read THEN scan ELSE read

\* The history after the first line of a kind has been returned
Without(control) ==
  IF \E i \in DOMAIN items : items[i].control = control
    THEN RemoveAt(items, SelectInSeq(items, LAMBDA l : l.control = control))
    ELSE items

ReturnControl ==
  /\ at = "control" /\ at' = "idle"
  /\ last_control' = TRUE
  /\ skip_sections' = (IF line_start = read THEN skip_sections ELSE WithSkip(line_start, scan))
  /\ read' = ReadOn
  /\ line' = [control |-> TRUE,
              text |-> SelectSeq(Chars(line_start, Distance(line_start, scan)),
                                 LAMBDA c : c # EndOfLine)]
  /\ line_start' = scan
  /\ items' = Without(TRUE)
  /\ UNCHANGED <<ring, scan, last_length, ignoring, at_start, lines_found, control_only>>

NoControl ==
  /\ at = "data"
  /\ last_control' = FALSE
  /\ IF control_only THEN UNCHANGED <<read, skip_sections>> ELSE ReadFrom(read)
  /\ at' = (IF control_only \/ lines_found = 0 THEN "idle" ELSE "lead")
  /\ UNCHANGED <<ring, scanned, control_only, line, items>>

\* The line ends left over from the line before
SkipLead ==
  /\ at = "lead" /\ data[read] = EndOfLine
  /\ ReadFrom(After(read, 1))
  /\ UNCHANGED <<ring, scanned, last_control, at, control_only, line, items>>

ReturnData ==
  /\ at = "lead" /\ data[read] # EndOfLine
  /\ LET length == Min({n \in 1 .. MaxLine : n = MaxLine \/ data[After(read, n)] = EndOfLine})
     IN /\ line' = [control |-> FALSE, text |-> Chars(read, length)]
        /\ read' = After(read, IF length = MaxLine THEN length ELSE length + 1)
  /\ lines_found' = lines_found - 1
  /\ items' = Without(FALSE)
  /\ at' = "idle"
  /\ UNCHANGED <<ring, scan, line_start, last_length, ignoring, at_start, skip_sections,
                 last_control, control_only>>

---------------------------------------------------------------------------
(* Flushes *)

\* flushToCommand().  Mutant: the lines that were counted stay counted.
CountKept == lines_found
CountFlushed == 0

FlushToCommand ==
  /\ at = "idle" /\ last_control
  /\ read' = scan /\ lines_found' = CountFlushed /\ skip_sections' = <<>>
  /\ last_control' = FALSE
  /\ items' = SubSeq(items, lines_found + 1, Len(items))
  /\ UNCHANGED <<ring, scan, line_start, last_length, ignoring, at_start, at, control_only, line>>

\* flush(): what it does not reset is that a line has begun.
Flush ==
  /\ at = "idle"
  /\ FlushAnywhere \/ (at_start /\ ~ ignoring /\ sending = <<>>)
  /\ read' = write /\ scan' = write /\ lines_found' = 0 /\ skip_sections' = <<>>
  /\ items' = <<>>
  /\ UNCHANGED <<ring, line_start, last_length, ignoring, at_start, last_control, at,
                 control_only, line>>

---------------------------------------------------------------------------

Scan == ScanChar \/ ScanEnds \/ Absorb
Return == ReturnControl \/ NoControl \/ SkipLead \/ ReturnData
Next == Receive \/ Readline \/ Scan \/ Return \/ FlushToCommand \/ Flush
Spec == Init /\ [][Next]_vars

\* The controller goes on asking for lines of data.
Fairness == WF_vars(Receive) /\ WF_vars(Scan \/ Return) /\ SF_vars(Readline /\ ~ control_only')
FairSpec == Spec /\ Fairness

---------------------------------------------------------------------------
(* Properties *)

\* The lines that the host has sent are returned whole, each once and in their
\* order except that controls overtake data, or are flushed: the buffer
\* implements TwoLanes.
Lanes == INSTANCE TwoLanes
           WITH returned <- line,
                ahead <- IF at = "idle" /\ last_control THEN lines_found ELSE -1
IsTwoLanes == Lanes!Spec

\* A full ring, a line longer than the ring and the sections to skip never keep
\* the lines from being sent, and read in the end.
AllIsRead == <>[](sending = <<>> /\ items = <<>>)
=============================================================================
