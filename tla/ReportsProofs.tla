--------------------------- MODULE ReportsProofs ---------------------------
(***************************************************************************)
(* What holds of the reports for every set of items, every size of the     *)
(* queue and every bound: the types, and that a change of the queue's      *)
(* depth is reported.  DepthInv says it for every step of the main loop.   *)
(***************************************************************************)
EXTENDS Reports, TLAPS

\* What is stored is the depth, but while a block is taken.  The host knows the
\* depth, or the request is there, or the report is being written.
Reported ==
  /\ at \notin {"load", "store"} => buffers_available = free
  /\ at \notin {"load", "store", "write", "init"} =>
       queue_report_requested \/ host_depth = free
  /\ at = "init" => host_depth = free

DepthInv == ~ overwritten => Reported

\* Where the depth is being stored or reported
Busy == {"load", "store", "write", "init"}

\* The steps that are about the queue's depth, and all the others
DepthNext ==
  FreeBuffer \/ CheckQueue \/ WriteQueueReport \/ qr_init_queue_report
    \/ GetWriteBuffer \/ LoadDepth \/ StoreDepth
StatusNext ==
  \/ Change \/ RuntimeCommand \/ TimerPast \/ TakePending \/ RequestPending \/ Check
  \/ Clear \/ Choose \/ Populate \/ Send \/ Query \/ RestOfPass

LEMMA NextSplits == Next => DepthNext \/ StatusNext
BY DEF Next, Callbacks, Interrupts, DepthNext, StatusNext

---------------------------------------------------------------------------
(* Types *)

\* The conjuncts of TypeOK about the status reports, and those about the depth
StatusTypes ==
  /\ value \in [Items -> 0 .. 1] /\ last \in [Items -> 0 .. 2] /\ host \in [Items -> 0 .. 1]
  /\ DOMAIN report \subseteq Items /\ \A i \in DOMAIN report : report[i] \in 0 .. 1
  /\ request \in {"OFF", "FILTERED", "VERBOSE"} /\ verbosity \in {"FILTERED", "VERBOSE"}
  /\ pending \in BOOLEAN /\ due \in BOOLEAN
  /\ throttle \in 0 .. THROTTLE_COUNT - 1
  /\ todo \subseteq Items /\ asked \subseteq Items
DepthTypes ==
  /\ queue_report_requested \in BOOLEAN /\ overwritten \in BOOLEAN
  /\ free \in 0 .. Buffers /\ buffers_available \in 0 .. Buffers
  /\ loaded \in 0 .. Buffers /\ host_depth \in 0 .. Buffers
  /\ at \in {"load", "store"} => free < Buffers
CommonTypes ==
  at \in Places /\ changes \in Nat /\ blocks \in Nat /\ queries \in Nat

LEMMA TypesSplit ==
  /\ TypeOK <=> StatusTypes /\ DepthTypes /\ CommonTypes
  /\ TypeOK' <=> StatusTypes' /\ DepthTypes' /\ CommonTypes'
BY DEF TypeOK, StatusTypes, DepthTypes, CommonTypes

LEMMA InitTypes == Init => TypeOK
<1>1. SUFFICES ASSUME Init PROVE TypeOK
  OBVIOUS
<1>2. StatusTypes
  <2>1. value \in [Items -> 0 .. 1] /\ last \in [Items -> 0 .. 2] /\ host \in [Items -> 0 .. 1]
    BY <1>1 DEF Init
  <2>2. DOMAIN report = {} /\ throttle \in 0 .. THROTTLE_COUNT - 1
    BY <1>1 DEF Init, THROTTLE_COUNT
  <2>3. QED BY <1>1, <2>1, <2>2 DEF Init, StatusTypes
<1>3. DepthTypes
  <2>1. 0 \in 0 .. Buffers /\ Buffers \in 0 .. Buffers
    BY ReportsAssumption
  <2>2. QED BY <1>1, <2>1 DEF Init, DepthTypes
<1>4. CommonTypes
  BY <1>1 DEF Init, CommonTypes, Places
<1>5. QED BY <1>2, <1>3, <1>4, TypesSplit

LEMMA DepthStepTypes ==
  ASSUME TypeOK, DepthNext PROVE TypeOK'
<1>1. StatusTypes /\ DepthTypes /\ CommonTypes
  BY TypesSplit
<1>2. UNCHANGED status
  BY DEF DepthNext, FreeBuffer, CheckQueue, WriteQueueReport, qr_init_queue_report,
         GetWriteBuffer, LoadDepth, StoreDepth
<1>3. StatusTypes'
  BY <1>1, <1>2 DEF status, StatusTypes
<1>4. CommonTypes'
  <2>1. changes' = changes /\ queries' = queries /\ blocks' \in {blocks, blocks + 1}
    BY DEF bounds, DepthNext, FreeBuffer, CheckQueue, WriteQueueReport,
           qr_init_queue_report, GetWriteBuffer, LoadDepth, StoreDepth
  <2>2. at' \in {at, "write", "planner", "init", "load", "store"}
    BY DEF DepthNext, FreeBuffer, CheckQueue, WriteQueueReport,
           qr_init_queue_report, GetWriteBuffer, LoadDepth, StoreDepth
  <2>3. QED BY <1>1, <2>1, <2>2 DEF CommonTypes, Places
<1>5. DepthTypes'
  <2>1. CASE FreeBuffer
    BY <1>1, <2>1, ReportsAssumption DEF DepthTypes, FreeBuffer, DepthAfterFree
  <2>2. CASE CheckQueue \/ WriteQueueReport \/ qr_init_queue_report
    BY <1>1, <2>2 DEF DepthTypes, CheckQueue, WriteQueueReport, qr_init_queue_report
  <2>3. CASE GetWriteBuffer
    <3>1. free' \in 0 .. Buffers /\ free' < Buffers
      BY <1>1, <2>3, ReportsAssumption DEF DepthTypes, GetWriteBuffer
    <3>2. QED BY <1>1, <2>3, <3>1 DEF DepthTypes, GetWriteBuffer
  <2>4. CASE StoreDepth
    BY <1>1, <2>4, ReportsAssumption DEF DepthTypes, StoreDepth
  <2>5. CASE LoadDepth
    BY <1>1, <2>5 DEF DepthTypes, LoadDepth
  <2>6. QED BY <2>1, <2>2, <2>3, <2>4, <2>5 DEF DepthNext
<1>6. QED BY <1>3, <1>4, <1>5, TypesSplit

LEMMA StatusStepTypes ==
  ASSUME TypeOK, StatusNext PROVE TypeOK'
<1>1. StatusTypes /\ DepthTypes /\ CommonTypes
  BY TypesSplit
<1>2. UNCHANGED <<depth, overwritten, blocks>>
  BY DEF StatusNext, Change, RuntimeCommand, TimerPast, TakePending, RequestPending,
         Check, Clear, Choose, Populate, Send, Query, RestOfPass, bounds
<1>3. /\ at' \in Places /\ changes' \in Nat /\ queries' \in Nat
      /\ at' = at \/ at' \notin {"load", "store"}
  BY <1>1 DEF StatusNext, Change, RuntimeCommand, TimerPast, TakePending, RequestPending,
              Check, Clear, Choose, Populate, Send, Query, RestOfPass, bounds,
              CommonTypes, Places
<1>4. DepthTypes' /\ CommonTypes'
  BY <1>1, <1>2, <1>3 DEF depth, DepthTypes, CommonTypes
<1>5. StatusTypes'
  <2>1. CASE Change \/ RuntimeCommand
    <3>1. \A i \in Items : 1 - value[i] \in 0 .. 1
      BY <1>1 DEF StatusTypes
    <3>2. value' \in [Items -> 0 .. 1]
      BY <1>1, <2>1, <3>1 DEF Change, RuntimeCommand, StatusTypes
    <3>3. QED
      BY <1>1, <2>1, <3>2 DEF Change, RuntimeCommand, sr_request_status_report,
                              Filtered, StatusTypes
  <2>2. CASE TimerPast \/ TakePending \/ RequestPending
    BY <1>1, <2>2 DEF TimerPast, TakePending, RequestPending, StatusTypes
  <2>3. CASE Check
    BY <1>1, <2>3 DEF Check, StatusTypes, THROTTLE_COUNT
  <2>4. CASE Clear
    BY <1>1, <2>4 DEF Clear, StatusTypes
  <2>5. CASE Choose \/ RestOfPass
    BY <1>1, <2>5 DEF Choose, RestOfPass, status, StatusTypes
  <2>6. CASE Populate
    <3>1. PICK i \in todo :
            /\ todo' = todo \ {i}
            /\ \/ /\ report' = With(i)
                  /\ last' \in {last, [last EXCEPT ![i] = value[i]]}
                  /\ asked' \in {asked \cup {i}, asked \ {i}}
               \/ UNCHANGED <<report, last, asked>>
      BY <2>6 DEF Populate
    <3>2. i \in Items /\ value[i] \in 0 .. 1 /\ todo' \subseteq Items /\ asked' \subseteq Items
      BY <1>1, <3>1 DEF StatusTypes
    <3>3. last' \in [Items -> 0 .. 2]
      BY <1>1, <3>1, <3>2 DEF StatusTypes
    <3>4. DOMAIN report' \subseteq Items /\ \A j \in DOMAIN report' : report'[j] \in 0 .. 1
      BY <1>1, <3>1, <3>2 DEF StatusTypes, With
    <3>5. QED BY <1>1, <2>6, <3>2, <3>3, <3>4 DEF Populate, StatusTypes
  <2>7. CASE Send
    BY <1>1, <2>7 DEF Send, StatusTypes
  <2>8. CASE Query
    BY <1>1, <2>8 DEF Query, StatusTypes
  <2>9. QED BY <2>1, <2>2, <2>3, <2>4, <2>5, <2>6, <2>7, <2>8 DEF StatusNext
<1>6. QED BY <1>4, <1>5, TypesSplit

LEMMA TypeStep == TypeOK /\ [Next]_vars => TypeOK'
<1>1. ASSUME TypeOK, UNCHANGED vars PROVE TypeOK'
  BY <1>1 DEF vars, status, depth, bounds, TypeOK
<1>2. QED BY <1>1, NextSplits, DepthStepTypes, StatusStepTypes

\* The variables of the reports keep their types, for every set of items and
\* every size of the queue.
THEOREM TypeCorrect == Spec => []TypeOK
BY InitTypes, TypeStep, PTL DEF Spec

---------------------------------------------------------------------------
(* The depth of the queue *)

LEMMA DepthInvStep ==
  ASSUME TypeOK, DepthInv, [Next]_vars PROVE DepthInv'
<1>1. SUFFICES ASSUME ~ overwritten' PROVE Reported'
  BY DEF DepthInv
<1>2. CASE FreeBuffer
  BY <1>1, <1>2 DEF FreeBuffer, DepthAfterFree, Reported
<1>3. CASE CheckQueue
  BY <1>1, <1>3 DEF CheckQueue, DepthInv, Reported
<1>4. CASE WriteQueueReport \/ qr_init_queue_report
  BY <1>1, <1>4 DEF WriteQueueReport, qr_init_queue_report, DepthInv, Reported
<1>5. CASE GetWriteBuffer \/ LoadDepth
  BY <1>5 DEF GetWriteBuffer, LoadDepth, Reported
<1>6. CASE StoreDepth
  BY <1>1, <1>6 DEF StoreDepth, Reported
<1>7. ASSUME UNCHANGED <<depth, overwritten>>, at' = at \/ {at, at'} \cap Busy = {}
      PROVE  Reported'
  BY <1>1, <1>7 DEF depth, Busy, DepthInv, Reported
<1>8. CASE UNCHANGED vars
  BY <1>7, <1>8 DEF vars
<1>9. CASE StatusNext
  BY <1>7, <1>9 DEF Busy, StatusNext, Change, RuntimeCommand, TimerPast, TakePending, RequestPending,
         Check, Clear, Choose, Populate, Send, Query, RestOfPass
<1>10. QED
  BY <1>2, <1>3, <1>4, <1>5, <1>6, <1>8, <1>9, NextSplits DEF DepthNext

LEMMA InvHolds == Spec => [](TypeOK /\ DepthInv)
<1>1. Init => DepthInv
  BY DEF Init, DepthInv, Reported
<1>2. QED BY <1>1, InitTypes, TypeStep, DepthInvStep, PTL DEF Spec

\* Between the callbacks the host knows the depth of the queue or will be told,
\* for every size of the queue and whatever interrupt comes between the steps of
\* the report, unless the last request was turned down or overwritten.
THEOREM DepthReaches == Spec => []DepthIsReported
<1>1. TypeOK /\ DepthInv => DepthIsReported
  BY DEF DepthInv, Reported, DepthIsReported
<1>2. QED BY <1>1, InvHolds, PTL
===========================================================================
