------------------------------ MODULE Reports ------------------------------
(***************************************************************************)
(* Status reports and queue reports (report.cpp).  Interrupts and the main *)
(* loop change what is reported and request a report; two callbacks of the *)
(* main loop send it, and the interrupts come between any two of their     *)
(* steps.  A status report is filtered: it has only the values that differ *)
(* from those of the last one.                                             *)
(***************************************************************************)
EXTENDS Integers, FiniteSets

CONSTANTS Items,       \* the values in a status report, of two kinds each: 0, 1
          Buffers,     \* of the planner's queue
          MaxChanges,  \* bound on the changes of values
          MaxBlocks,   \* bound on the blocks that are queued
          MaxQueries   \* bound on the reports that the host asks for

ASSUME ReportsAssumption ==
  /\ Items # {} /\ Buffers \in Nat \ {0} 
  /\ MaxChanges \in Nat /\ MaxBlocks \in Nat /\ MaxQueries \in Nat

\* SR_THROTTLE_COUNT
THROTTLE_COUNT == 4

VARIABLES
  value,      \* of each item
  request,    \* sr.status_report_request
  pending,    \* sr.runtime_command_report_pending
  due,        \* is sr.status_report_systick past?
  throttle,   \* sr.throttle_counter
  verbosity,  \* sr.status_report_verbosity
  last,       \* the value of each item in sr.status_report_list
  at,         \* where the main loop is
  todo,       \* the items that are still to be put into the report
  report,     \* the report so far
  host,       \* the value of each item that the host was told last
  free,       \* mp->q.buffers_available
  queue_report_requested, buffers_available,   \* of qr
  loaded,     \* what the main loop has read of free
  host_depth, \* the depth that the host was told last
  changes, blocks, queries,   \* so far
  asked,      \* history: items the host has asked for while they differed from last
  overwritten \* history: the last request for a queue report was turned down, or what
              \* it had read or set was overwritten

status == <<value, request, pending, due, throttle, verbosity, last, todo, report, host, asked>>
depth == <<free, queue_report_requested, buffers_available, loaded, host_depth>>
bounds == <<changes, blocks, queries>>
vars == <<status, depth, at, bounds, overwritten>>

Places == {"status", "pending", "check", "clear", "choose", "filtered", "full",
           "queue", "write", "init", "planner", "load", "store"}

TypeOK ==
  /\ value \in [Items -> 0 .. 1] /\ last \in [Items -> 0 .. 2] /\ host \in [Items -> 0 .. 1]
  /\ DOMAIN report \subseteq Items /\ \A i \in DOMAIN report : report[i] \in 0 .. 1
  /\ request \in {"OFF", "FILTERED", "VERBOSE"} /\ verbosity \in {"FILTERED", "VERBOSE"}
  /\ pending \in BOOLEAN /\ due \in BOOLEAN
  /\ queue_report_requested \in BOOLEAN /\ overwritten \in BOOLEAN
  /\ throttle \in 0 .. THROTTLE_COUNT - 1
  /\ at \in Places /\ todo \subseteq Items /\ asked \subseteq Items
  /\ free \in 0 .. Buffers /\ buffers_available \in 0 .. Buffers
  /\ loaded \in 0 .. Buffers /\ host_depth \in 0 .. Buffers
  /\ at \in {"load", "store"} => free < Buffers
  /\ changes \in Nat /\ blocks \in Nat /\ queries \in Nat

\* 2 is the unlikely value that no item has.  The host has asked for a report.
Init ==
  /\ value = [i \in Items |-> 0] /\ last = [i \in Items |-> 2] /\ host = value
  /\ request = "OFF" /\ pending = FALSE /\ due = FALSE /\ throttle = 0
  /\ verbosity \in {"FILTERED", "VERBOSE"}
  /\ at = "status" /\ todo = {} /\ report = <<>>
  /\ free = Buffers /\ queue_report_requested = FALSE /\ buffers_available = Buffers
  /\ loaded = 0 /\ host_depth = Buffers
  /\ changes = 0 /\ blocks = 0 /\ queries = 0 /\ asked = {} /\ overwritten = FALSE

---------------------------------------------------------------------------
(* Requests *)

Filtered == IF request = "VERBOSE" THEN request ELSE "FILTERED"

\* sr_request_status_report(): an immediate request makes the report due; a
\* timed one sets the timer, unless it is set.
sr_request_status_report ==
  /\ request' \in {Filtered, "VERBOSE"}
  /\ due' \in {TRUE, FALSE, due}

\* A value changes and a report is requested: in an interrupt, at any time, or in
\* the main loop between its callbacks.
Change ==
  /\ changes < MaxChanges /\ changes' = changes + 1
  /\ \E i \in Items : value' = [value EXCEPT ![i] = 1 - @]
  /\ sr_request_status_report
  /\ UNCHANGED <<depth, pending, throttle, verbosity, last, at, todo, report, host, asked,
                 blocks, queries, overwritten>>

\* mp_runtime_command() only leaves a note for the callback.
RuntimeCommand ==
  /\ changes < MaxChanges /\ changes' = changes + 1
  /\ \E i \in Items : value' = [value EXCEPT ![i] = 1 - @]
  /\ pending' = TRUE
  /\ UNCHANGED <<depth, request, due, throttle, verbosity, last, at, todo, report, host,
                 blocks, queries, asked,
                 overwritten>>

\* The interval of the reports is over.
TimerPast ==
  /\ ~ due /\ due' = TRUE
  /\ UNCHANGED <<depth, value, request, pending, throttle, verbosity, last, at, todo, report,
                 host, bounds, asked, overwritten>>

---------------------------------------------------------------------------
(* sr_status_report_callback() *)

TakePending ==
  /\ at = "status"
  /\ at' = (IF pending THEN "pending" ELSE "check") /\ pending' = FALSE
  /\ UNCHANGED <<depth, value, request, due, throttle, verbosity, last, todo, report, host,
                 bounds, asked, overwritten>>

RequestPending ==
  /\ at = "pending" /\ at' = "check"
  /\ request' = "VERBOSE" /\ due' = TRUE
  /\ UNCHANGED <<depth, value, pending, throttle, verbosity, last, todo, report, host,
                 bounds, asked, overwritten>>

\* No report is requested, it is not due, or the planner is short of time, which
\* holds back three reports of four.
Check ==
  /\ at = "check"
  /\ \/ /\ request = "OFF" \/ ~ due
        /\ at' = "queue" /\ UNCHANGED throttle
     \/ /\ request # "OFF" /\ due
        /\ \/ at' = "clear" /\ UNCHANGED throttle
           \/ /\ throttle' = (throttle + 1) % THROTTLE_COUNT
              /\ at' = (IF throttle' = 0 THEN "clear" ELSE "queue")
  /\ UNCHANGED <<depth, value, request, pending, due, verbosity, last, todo, report, host,
                 bounds, asked, overwritten>>

Clear ==
  /\ at = "clear" /\ at' = "choose"
  /\ request' = "OFF" /\ todo' = Items /\ report' = <<>>
  /\ UNCHANGED <<depth, value, pending, due, throttle, verbosity, last, host, asked, bounds,
                 overwritten>>

\* The request is looked at again, after it was cleared.
Choose ==
  /\ at = "choose"
  /\ at' = (IF "VERBOSE" \in {request, verbosity} THEN "full" ELSE "filtered")
  /\ UNCHANGED <<status, depth, bounds, overwritten>>

With(i) == [j \in DOMAIN report \cup {i} |-> IF j = i THEN value[i] ELSE report[j]]

\* _populate_unfiltered_status_report() and _populate_filtered_status_report(),
\* by items.  The first leaves the list as it is.
Populate ==
  /\ at \in {"full", "filtered"} /\ todo # {}
  /\ \E i \in todo :
       /\ todo' = todo \ {i}
       /\ IF at = "full" \/ value[i] # last[i]
            THEN /\ report' = With(i)
                 /\ last' = (IF at = "full" THEN last ELSE [last EXCEPT ![i] = value[i]])
                 /\ asked' = (IF at = "full" /\ value[i] # last[i] THEN asked \cup {i}
                                                                  ELSE asked \ {i})
            ELSE UNCHANGED <<report, last, asked>>
  /\ UNCHANGED <<depth, value, request, pending, due, throttle, verbosity, at, host, bounds,
                 overwritten>>

\* Mutant: the request is cleared when the report has been sent.
SendAndClear ==
  /\ at \in {"full", "filtered"} /\ todo = {} /\ at' = "queue"
  /\ host' = [i \in Items |-> IF i \in DOMAIN report THEN report[i] ELSE host[i]]
  /\ report' = <<>> /\ request' = "OFF"
  /\ UNCHANGED <<depth, value, pending, due, throttle, verbosity, last, todo,
                 bounds, asked, overwritten>>
Send ==
  /\ at \in {"full", "filtered"} /\ todo = {} /\ at' = "queue"
  /\ host' = [i \in Items |-> IF i \in DOMAIN report THEN report[i] ELSE host[i]]
  /\ report' = <<>>
  /\ UNCHANGED <<depth, value, request, pending, due, throttle, verbosity, last, todo,
                 bounds, asked, overwritten>>

\* The host asks for a report: sr_get() answers with a full one.
Query ==
  /\ at = "planner" /\ queries < MaxQueries /\ queries' = queries + 1
  /\ host' = value
  /\ asked' = {i \in Items : value[i] # last[i]}
  /\ UNCHANGED <<depth, value, request, pending, due, throttle, verbosity, last, at, todo,
                 report, changes, blocks, overwritten>>

---------------------------------------------------------------------------
(* Queue reports *)

\* The depth is read and a report is requested.  Mutant: before the buffer is
\* counted as free.
DepthBeforeFree == free
DepthAfterFree == free + 1

\* mp_free_run_buffer() and its qr_request_queue_report(), an interrupt.  While
\* arcs are made a request is turned down if it comes too early, and the one
\* before it with it.
FreeBuffer ==
  /\ free + (IF at \in {"load", "store"} THEN 1 ELSE 0) < Buffers
  /\ free' = free + 1 /\ buffers_available' = DepthAfterFree
  /\ queue_report_requested' \in BOOLEAN
  /\ overwritten' = (~ queue_report_requested' \/ at \in {"store", "init"})
  /\ UNCHANGED <<status, loaded, host_depth, at, changes, blocks, queries>>

\* qr_queue_report_callback(): the request is cleared, the report is written, and
\* the request is cleared again, with the counts.
CheckQueue ==
  /\ at = "queue"
  /\ \/ /\ queue_report_requested
        /\ at' = "write" /\ queue_report_requested' = FALSE
     \/ at' = "planner" /\ UNCHANGED queue_report_requested
  /\ UNCHANGED <<status, free, buffers_available, loaded, host_depth, bounds, overwritten>>

WriteQueueReport ==
  /\ at = "write" /\ at' = "init"
  /\ host_depth' = buffers_available
  /\ UNCHANGED <<status, free, queue_report_requested, buffers_available, loaded, bounds,
                 overwritten>>

qr_init_queue_report ==
  /\ at = "init" /\ at' = "planner"
  /\ queue_report_requested' = FALSE
  /\ UNCHANGED <<status, free, buffers_available, loaded, host_depth, bounds, overwritten>>

\* A move takes a buffer.  If it starts a cycle, cm_cycle_start() forgets the
\* request there is.
GetWriteBuffer ==
  /\ at = "planner" /\ at' = "load"
  /\ free > 0 /\ free' = free - 1
  /\ blocks < MaxBlocks /\ blocks' = blocks + 1
  /\ queue_report_requested' \in {FALSE, queue_report_requested}
  /\ UNCHANGED <<status, buffers_available, loaded, host_depth, changes, queries, overwritten>>

\* mp_commit_write_buffer() and its qr_request_queue_report()
LoadDepth ==
  /\ at = "load" /\ at' = "store"
  /\ loaded' = free
  /\ UNCHANGED <<status, free, queue_report_requested, buffers_available, host_depth, bounds,
                 overwritten>>

StoreDepth ==
  /\ at = "store" /\ at' = "planner"
  /\ buffers_available' = loaded /\ loaded' = 0
  /\ queue_report_requested' \in BOOLEAN
  /\ overwritten' = (~ queue_report_requested' \/ loaded # free)
  /\ UNCHANGED <<status, free, host_depth, bounds>>

\* The rest of the main loop
RestOfPass ==
  /\ at = "planner" /\ at' = "status"
  /\ UNCHANGED <<status, depth, bounds, overwritten>>

---------------------------------------------------------------------------

Callbacks == \/ TakePending \/ RequestPending \/ Check \/ Clear \/ Choose \/ Populate \/ Send
             \/ CheckQueue \/ WriteQueueReport \/ qr_init_queue_report
             \/ LoadDepth \/ StoreDepth \/ RestOfPass
Interrupts == Change \/ RuntimeCommand \/ TimerPast \/ FreeBuffer
Next == Callbacks \/ Interrupts \/ Query \/ GetWriteBuffer
Spec == Init /\ [][Next]_vars

\* The main loop goes round and time passes.
FairSpec == Spec /\ WF_vars(Callbacks) /\ WF_vars(TimerPast)

---------------------------------------------------------------------------
(* Properties *)

\* When the values come to rest the host has been told all of them, whenever
\* they have changed between the steps of a report; but for a value it asked for
\* while it was another, which has come back to what the last filtered report
\* had said.
HostIsCurrent == \A i \in Items : <>[](host[i] = value[i] \/ i \in asked)

\* "This will return a queue report every time the buffer depth changes" (:603):
\* between the callbacks the host knows the depth or will be told, unless the
\* last request has been turned down, or overwritten.
DepthIsReported ==
  (at = "status" /\ ~ overwritten) => (queue_report_requested \/ host_depth = free)
=============================================================================
