--------------------------- MODULE JsonCommands ---------------------------
(***************************************************************************)
(* The JSON commands of G-code (M100, M102, and the flush of M6): the text *)
(* goes into a ring of its own in planner.cpp, and a command that reads it *)
(* into the planner's queue.  Nothing links the two but their order.       *)
(*                                                                         *)
(* The main loop writes texts and counts the places down with a load and a *)
(* store; the interrupts that run the queue come between any two of its    *)
(* steps, free a place and count it up.                                    *)
(***************************************************************************)
EXTENDS Integers, SequencesExt

CONSTANTS Slots,     \* JSON_COMMAND_BUFFER_SIZE
          Lines,     \* what a line queues: for each JSON command whether it waits
          MaxTexts,  \* bound on the number of texts, which are numbered
          MaxHolds   \* bound on the number of holds

ASSUME JsonAssumption ==
  /\ Slots \in Nat \ {0} /\ MaxTexts \in Nat /\ MaxHolds \in Nat
  /\ Lines \subseteq Seq(BOOLEAN) \ {<<>>}

VARIABLES
  text,       \* _json_bf: the number of the text in every place, or 0
  r, w,       \* _json_r, _json_w
  available,  \* places that are counted as free
  at,         \* where the main loop is
  loaded,     \* its copy of available
  line,       \* the commands of the line still to be queued
  queue,      \* the commands in the planner's queue, by their text
  held,       \* is planner 2 the current one?
  texts, holds,  \* how many texts and holds so far
  ran,        \* history: the command that ran last, and the text it read
  mishaps     \* history: since the last time everything was thrown away

ring == <<text, r, w, available>>
main == <<at, loaded, line>>
vars == <<ring, main, queue, held, texts, holds, ran, mishaps>>

\* "squeezed": a line had more than one text, and more than there was room for;
\* "reset": the ring was emptied with commands in the queue; "miscounted": an
\* interrupt counted up between load and store.
Mishaps == {"squeezed", "reset", "miscounted"}

Commands == [own : Nat, wait : BOOLEAN]

TypeOK ==
  /\ text \in [0 .. Slots - 1 -> Nat] /\ r \in 0 .. Slots - 1 /\ w \in 0 .. Slots - 1
  /\ available \in Int /\ loaded \in Int /\ texts \in Nat /\ holds \in Nat
  /\ at \in {"idle", "write", "load", "store", "queue"}
  /\ line \in Seq(BOOLEAN) /\ (at = "idle" <=> line = <<>>)
  /\ queue \in Seq(Commands) /\ held \in BOOLEAN
  /\ ran \in [own : Nat, read : Nat] /\ mishaps \subseteq Mishaps

Init ==
  /\ text = [i \in 0 .. Slots - 1 |-> 0] /\ r = 0 /\ w = 0 /\ available = Slots
  /\ at = "idle" /\ loaded = 0 /\ line = <<>>
  /\ queue = <<>> /\ held = FALSE /\ texts = 0 /\ holds = 0
  /\ ran = [own |-> 0, read |-> 0] /\ mishaps = {}

---------------------------------------------------------------------------
(* The main loop *)

nx(place) == (place + 1) % Slots

\* mp_planner_is_full(), as far as the ring is concerned.  Mutant: it looks at
\* the queue of the planner alone.
NeverFull == FALSE
mp_planner_is_full == available = 0

\* A line with JSON commands
DispatchLine ==
  /\ at = "idle" /\ ~ held /\ ~ mp_planner_is_full
  /\ line' \in Lines /\ texts + Len(line') <= MaxTexts
  /\ at' = "write"
  /\ mishaps' = mishaps \cup {m \in {"squeezed"} : Len(line') > Max({1, available})}
  /\ UNCHANGED <<ring, loaded, queue, held, texts, holds, ran>>

\* write_buffer(): the text, the counter, the pointer.
WriteText ==
  /\ at = "write" /\ at' = "load"
  /\ texts' = texts + 1 /\ text' = [text EXCEPT ![w] = texts']
  /\ UNCHANGED <<r, w, available, loaded, line, queue, held, holds, ran, mishaps>>

LoadAvailable ==
  /\ at = "load" /\ at' = "store"
  /\ loaded' = available
  /\ UNCHANGED <<ring, line, queue, held, texts, holds, ran, mishaps>>

StoreAvailable ==
  /\ at = "store" /\ at' = "queue"
  /\ available' = loaded - 1 /\ w' = nx(w)
  /\ mishaps' = mishaps \cup {m \in {"miscounted"} : available # loaded}
  /\ UNCHANGED <<text, r, loaded, line, queue, held, texts, holds, ran>>

\* mp_json_command() and mp_json_wait(): a command behind the text
QueueCommand ==
  /\ at = "queue"
  /\ queue' = Append(queue, [own |-> texts, wait |-> Head(line)])
  /\ line' = Tail(line) /\ at' = (IF line' = <<>> THEN "idle" ELSE "write")
  /\ UNCHANGED <<ring, loaded, held, texts, holds, ran, mishaps>>

---------------------------------------------------------------------------
(* The interrupts that run the queue *)

\* free_buffer().  Mutant: a wait that is over does not free its place.
WaitKeepsPlace ==
  IF Head(queue).wait THEN UNCHANGED <<r, available>>
                      ELSE r' = nx(r) /\ available' = available + 1
free_buffer == r' = nx(r) /\ available' = available + 1

\* _exec_json_command(), and _exec_json_wait() when what it waits for is so: as
\* long as it is not it queues a dwell and changes nothing.
Exec ==
  /\ ~ held /\ queue # <<>>
  /\ ran' = [own |-> Head(queue).own, read |-> text[r]]
  /\ free_buffer
  /\ queue' = Tail(queue)
  /\ UNCHANGED <<text, w, main, held, texts, holds, mishaps>>

---------------------------------------------------------------------------
(* Holds *)

\* reset() of the ring
reset == r' = 0 /\ w' = 0 /\ available' = Slots /\ UNCHANGED text

\* _enter_p2(), and the flush of a hold within it, reset planner 2, and with it
\* the ring that has the texts of planner 1.
ResetP2 ==
  /\ at = "idle" /\ holds < MaxHolds /\ holds' = holds + 1
  /\ held' = TRUE
  /\ reset
  /\ mishaps' = mishaps \cup {m \in {"reset"} : queue # <<>>}
  /\ UNCHANGED <<main, queue, texts, ran>>

Resume ==
  /\ held /\ held' = FALSE
  /\ UNCHANGED <<ring, main, queue, texts, holds, ran, mishaps>>

\* _run_queue_flush() of planner 1
Flush ==
  /\ at = "idle" /\ holds < MaxHolds /\ holds' = holds + 1
  /\ held' = FALSE /\ queue' = <<>> /\ mishaps' = {}
  /\ ran' = [own |-> 0, read |-> 0]
  /\ reset
  /\ UNCHANGED <<main, texts>>

---------------------------------------------------------------------------

Next == \/ DispatchLine \/ WriteText \/ LoadAvailable \/ StoreAvailable \/ QueueCommand
        \/ Exec \/ ResetP2 \/ Resume \/ Flush
Spec == Init /\ [][Next]_vars

---------------------------------------------------------------------------
(* Properties *)

\* The places from r up to w hold the texts of the queued commands in their
\* order, so that each command will read its own: unless one line wrote more
\* texts than there was room for, or a hold emptied the ring under the queue.
Waiting == queue \o (IF at \in {"load", "store", "queue"} THEN <<[own |-> texts]>> ELSE <<>>)
OwnText ==
  mishaps \subseteq {"miscounted"} =>
    /\ ran.read = ran.own
    /\ \A i \in DOMAIN Waiting : text[(r + i - 1) % Slots] = Waiting[i].own

\* When all commands have run there is room again, unless an interrupt has been
\* lost on the counter or a hold emptied the ring.
RoomComesBack ==
  (at = "idle" /\ queue = <<>> /\ mishaps \subseteq {"squeezed"}) => available = Slots

\* "Never supposed to fail, since we stopped parsing when we were full"
\* (planner.cpp:422): no text is written over another.
NeverOverrun == at = "write" => Len(queue) < Slots
=============================================================================
