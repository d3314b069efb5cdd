----------------------- MODULE MotionPipelineProofs -----------------------
(***************************************************************************)
(* What holds of the pipeline for every planner size, every length of a    *)
(* move and every order in which its interrupts come.                      *)
(*                                                                         *)
(* PipeInv carries the prep buffer and the head of the queue; it holds     *)
(* whatever becomes of the cycle.  RampInv carries the cycle and the ramps *)
(* of mr->p, and only as long as no cycle was lost: that of a move that    *)
(* starts needs every block before a planned move to be one that the       *)
(* forward planner passes.                                                 *)
(*                                                                         *)
(* The queue changes in nine ways (Same, Grown, ... RunsNot).  What each   *)
(* of them keeps is proved once, without the actions; StepShape says which *)
(* action makes which.                                                     *)
(***************************************************************************)
EXTENDS MotionPipeline, SequenceTheorems, TLAPS

\* A block behind which the forward planner looks for the next move.
Passing(b) == b.kind # "move" \/ b.state = RUNNING

\* A line found room for its block when its cycle started.
Room == mainAt = "aline" => "move" \in Kinds /\ Len(queue) < FullAt

\* exec owns the prep buffer only when there is nothing in it.
Prepared == /\ PreparedIsLoadedOnce
            /\ prep.owner = "exec" => prep.what = "null"

\* A block that runs is a move at the head of the queue.
HeadRuns ==
  /\ \A k \in DOMAIN queue : queue[k].state = RUNNING => k = 1 /\ queue[k].kind = "move"
  /\ segments > 0 => queue # <<>> /\ queue[1].state = RUNNING

\* The move whose ramps are being computed is still there, and not marked.
BeingPlanned ==
  planAt # 0 => /\ planAt \in DOMAIN queue
                /\ queue[planAt].kind = "move" /\ queue[planAt].state = BACK_PLANNED

\* Moves are queued in a cycle, and it goes on until they have run.
InCycle ==
  lost \/ (/\ mainAt = "aline" => cycle
           /\ \A k \in DOMAIN queue : queue[k].kind = "move" => cycle)

\* The ramps belong to the move that is being planned or was planned last, and
\* the forward planner passes all before it.
InSequence ==
  /\ queue # <<>> /\ queue[1].state = RUNNING => segments > 0
  /\ planAt # 0 => ramps = planAt /\ \A i \in 1 .. planAt - 1 : Passing(queue[i])
  /\ \A k \in DOMAIN queue : queue[k].kind = "move" /\ queue[k].state = FULLY_PLANNED
       => ramps = k /\ \A i \in 1 .. k - 1 : Passing(queue[i])

PipeInv == TypeOK /\ Room /\ Prepared /\ StagedCommandIsRunBlock /\ HeadRuns /\ BeingPlanned
RampInv == InCycle /\ (lost \/ InSequence)

---------------------------------------------------------------------------
(* The queue *)

\* Its elements and its length.
LEMMA QueueFacts ==
  ASSUME NEW s \in Seq(Block)
  PROVE  /\ Len(s) \in Nat /\ DOMAIN s = 1 .. Len(s)
         /\ s # <<>> <=> Len(s) > 0
         /\ \A k \in 1 .. Len(s) : s[k] \in Block
BY EmptySeq, LenProperties, ElementOfSeq

LEMMA TailFacts ==
  ASSUME NEW s \in Seq(Block), s # <<>>
  PROVE  /\ Tail(s) \in Seq(Block) /\ Len(Tail(s)) = Len(s) - 1
         /\ DOMAIN Tail(s) = 1 .. Len(s) - 1
         /\ \A k \in 1 .. Len(s) - 1 : Tail(s)[k] = s[k + 1]
BY HeadTailProperties, LenProperties

LEMMA AppendFacts ==
  ASSUME NEW s \in Seq(Block), NEW b \in Block
  PROVE  /\ Append(s, b) \in Seq(Block) /\ Len(Append(s, b)) = Len(s) + 1
         /\ DOMAIN Append(s, b) = 1 .. Len(s) + 1
         /\ \A k \in 1 .. Len(s) : Append(s, b)[k] = s[k]
         /\ Append(s, b)[Len(s) + 1] = b
BY AppendProperties, LenProperties

States == {INITIALIZING, BACK_PLANNED, FULLY_PLANNED, RUNNING}

LEMMA BlockFields ==
  ASSUME NEW b \in Block
  PROVE  b.kind \in Kinds \ {"zero length"} /\ b.state \in States
BY DEF Block, States

LEMMA BlockWithState ==
  ASSUME NEW b \in Block, NEW st \in States
  PROVE  /\ [b EXCEPT !.state = st] \in Block
         /\ [b EXCEPT !.state = st].kind = b.kind
         /\ [b EXCEPT !.state = st].state = st
BY DEF Block, States

\* A block of the queue changes its state.
LEMMA StateFacts ==
  ASSUME NEW s \in Seq(Block), NEW k \in DOMAIN s, NEW st \in States,
         NEW t, t = [s EXCEPT ![k].state = st]
  PROVE  /\ t \in Seq(Block) /\ Len(t) = Len(s) /\ DOMAIN t = DOMAIN s
         /\ \A j \in DOMAIN s : t[j].kind = s[j].kind /\ (j # k => t[j] = s[j])
         /\ t[k].state = st
<1>1. s[k] \in Block /\ k \in 1 .. Len(s)
  BY QueueFacts
<1>2. t = [s EXCEPT ![k] = [s[k] EXCEPT !.state = st]]
  OBVIOUS
<1>3. [s[k] EXCEPT !.state = st] \in Block
  BY <1>1, BlockWithState
<1>4. t \in Seq(Block) /\ Len(t) = Len(s)
  BY <1>1, <1>2, <1>3, ExceptSeq
<1>5. /\ DOMAIN t = DOMAIN s
      /\ t[k] = [s[k] EXCEPT !.state = st]
      /\ \A j \in DOMAIN s : j # k => t[j] = s[j]
  BY <1>2
<1>6. t[k].kind = s[k].kind /\ t[k].state = st
  BY <1>1, <1>5, BlockWithState
<1>7. \A j \in DOMAIN s : t[j].kind = s[j].kind /\ (j # k => t[j] = s[j])
  BY <1>5, <1>6
<1>8. QED BY <1>4, <1>5, <1>6, <1>7

LEMMA QueueState ==
  ASSUME queue \in Seq(Block), NEW n \in DOMAIN queue, NEW st \in States,
         queue' = [queue EXCEPT ![n].state = st]
  PROVE  /\ queue' \in Seq(Block) /\ Len(queue') = Len(queue) /\ DOMAIN queue' = DOMAIN queue
         /\ \A j \in DOMAIN queue : queue'[j].kind = queue[j].kind
                                    /\ (j # n => queue'[j] = queue[j])
         /\ queue'[n].state = st
<1> DEFINE s == queue
           t == queue'
<1>1. s \in Seq(Block) /\ n \in DOMAIN s /\ t = [s EXCEPT ![n].state = st]
  OBVIOUS
<1> HIDE DEF s, t
<1>2. /\ t \in Seq(Block) /\ Len(t) = Len(s) /\ DOMAIN t = DOMAIN s
      /\ \A j \in DOMAIN s : t[j].kind = s[j].kind /\ (j # n => t[j] = s[j])
      /\ t[n].state = st
  BY <1>1, StateFacts
<1>3. QED BY <1>2 DEF s, t

\* Blocks that the forward planner marks.
LEMMA MarkedFacts ==
  ASSUME NEW s \in Seq(Block), NEW M, NEW t,
         t = [k \in DOMAIN s |-> IF k \in M THEN [s[k] EXCEPT !.state = FULLY_PLANNED]
                                 ELSE s[k]]
  PROVE  /\ t \in Seq(Block) /\ Len(t) = Len(s) /\ DOMAIN t = DOMAIN s
         /\ \A j \in DOMAIN s : /\ t[j].kind = s[j].kind
                                /\ j \in M => t[j].state = FULLY_PLANNED
                                /\ j \notin M => t[j] = s[j]
<1>1. Len(s) \in Nat /\ DOMAIN s = 1 .. Len(s) /\ \A j \in DOMAIN s : s[j] \in Block
  BY QueueFacts
<1>2. DOMAIN t = 1 .. Len(s)
  BY <1>1
<1>3. \A j \in DOMAIN s : /\ t[j] \in Block /\ t[j].kind = s[j].kind
                          /\ j \in M => t[j].state = FULLY_PLANNED
                          /\ j \notin M => t[j] = s[j]
  <2>1. FULLY_PLANNED \in States
    BY DEF States
  <2>2. SUFFICES ASSUME NEW j \in DOMAIN s
                 PROVE  /\ t[j] \in Block /\ t[j].kind = s[j].kind
                        /\ j \in M => t[j].state = FULLY_PLANNED
                        /\ j \notin M => t[j] = s[j]
    OBVIOUS
  <2>3. s[j] \in Block
    BY <1>1
  <2>4. CASE j \in M
    <3>1. t[j] = [s[j] EXCEPT !.state = FULLY_PLANNED]
      BY <2>4
    <3>2. QED BY <2>1, <2>3, <2>4, <3>1, BlockWithState
  <2>5. CASE j \notin M
    BY <2>3, <2>5
  <2>6. QED BY <2>4, <2>5
<1>4. t \in [1 .. Len(s) -> Block]
  BY <1>1, <1>2, <1>3
<1>5. t \in Seq(Block)
  BY <1>1, <1>4, SeqDef
<1>6. Len(t) = Len(s)
  BY <1>1, <1>2, <1>5, LenProperties
<1>7. QED BY <1>1, <1>2, <1>3, <1>5, <1>6

---------------------------------------------------------------------------
(* What the steps do to the queue, and what stays true of it *)

QueueInv == /\ queue \in Seq(Block)
            /\ segments \in Nat /\ ramps \in Nat /\ planAt \in Nat
            /\ HeadRuns /\ BeingPlanned

QueueKept == HeadRuns' /\ BeingPlanned' /\ (InSequence => InSequence')

Same == UNCHANGED <<queue, segments, ramps, planAt>>

Grown == \E b \in Block : /\ b.state = INITIALIZING /\ Len(queue) < FullAt
                          /\ mainAt' = "ready" /\ (b.kind = "move" => mainAt = "aline")
                          /\ queue' = Append(queue, b)
                          /\ UNCHANGED <<segments, ramps, planAt>>

BackPlannedOne ==
  \E k \in DOMAIN queue : /\ planAt = 0 /\ queue[k].state = INITIALIZING
                          /\ queue' = [queue EXCEPT ![k].state = BACK_PLANNED]
                          /\ UNCHANGED <<segments, ramps, planAt>>

\* A command or a dwell is freed.
Freed == /\ queue # <<>> /\ queue[1].kind # "move"
         /\ FreeBlock /\ UNCHANGED segments

LEMMA SameKeeps ==
  ASSUME Same PROVE QueueInv => QueueKept
BY DEF Same, QueueInv, QueueKept, HeadRuns, BeingPlanned, InSequence, Passing

LEMMA GrownKeeps ==
  ASSUME QueueInv, Grown PROVE QueueKept
<1>1. PICK b \in Block : /\ b.state = INITIALIZING
                         /\ queue' = Append(queue, b)
                         /\ UNCHANGED <<segments, ramps, planAt>>
  BY DEF Grown
<1>2. /\ DOMAIN queue = 1 .. Len(queue) /\ Len(queue) \in Nat
      /\ queue # <<>> <=> Len(queue) > 0
      /\ queue' # <<>> /\ DOMAIN queue' = 1 .. Len(queue) + 1
      /\ \A k \in 1 .. Len(queue) : queue'[k] = queue[k]
      /\ queue'[Len(queue) + 1].state = INITIALIZING
  <2>1. queue' \in Seq(Block) /\ Len(queue') = Len(queue) + 1
    BY <1>1, AppendFacts DEF QueueInv
  <2>2. QED BY <1>1, <2>1, AppendFacts, QueueFacts DEF QueueInv
<1>3. HeadRuns'
  BY <1>1, <1>2 DEF QueueInv, HeadRuns, INITIALIZING, RUNNING
<1>4. BeingPlanned'
  BY <1>1, <1>2 DEF QueueInv, BeingPlanned
<1>5. ASSUME InSequence PROVE InSequence'
  <2>1. (queue # <<>> /\ queue[1].state = RUNNING => segments > 0)'
    BY <1>1, <1>2, <1>5 DEF InSequence, INITIALIZING, RUNNING
  <2>2. (planAt # 0 => ramps = planAt /\ \A i \in 1 .. planAt - 1 : Passing(queue[i]))'
    BY <1>1, <1>2, <1>5 DEF InSequence, QueueInv, BeingPlanned, Passing
  <2>3. (\A k \in DOMAIN queue : queue[k].kind = "move" /\ queue[k].state = FULLY_PLANNED
           => ramps = k /\ \A i \in 1 .. k - 1 : Passing(queue[i]))'
    BY <1>1, <1>2, <1>5 DEF InSequence, Passing, INITIALIZING, FULLY_PLANNED
  <2>4. QED BY <2>1, <2>2, <2>3 DEF InSequence
<1>6. QED BY <1>3, <1>4, <1>5 DEF QueueKept

LEMMA BackPlannedKeeps ==
  ASSUME QueueInv, BackPlannedOne PROVE QueueKept
<1>1. PICK n \in DOMAIN queue : /\ planAt = 0 /\ queue[n].state = INITIALIZING
                                /\ queue' = [queue EXCEPT ![n].state = BACK_PLANNED]
                                /\ UNCHANGED <<segments, ramps, planAt>>
  BY DEF BackPlannedOne
<1>2. /\ DOMAIN queue = 1 .. Len(queue) /\ Len(queue) \in Nat
      /\ DOMAIN queue' = DOMAIN queue /\ queue # <<>> /\ queue' # <<>>
      /\ \A j \in DOMAIN queue : queue'[j].kind = queue[j].kind
                                 /\ (j # n => queue'[j] = queue[j])
      /\ queue'[n].state = BACK_PLANNED
  <2>1. queue \in Seq(Block) /\ BACK_PLANNED \in States
    BY DEF QueueInv, States
  <2>2. /\ queue' \in Seq(Block) /\ Len(queue') = Len(queue) /\ DOMAIN queue' = DOMAIN queue
        /\ \A j \in DOMAIN queue : queue'[j].kind = queue[j].kind
                                   /\ (j # n => queue'[j] = queue[j])
        /\ queue'[n].state = BACK_PLANNED
    BY <1>1, <2>1, QueueState
  <2>3. QED BY <2>1, <2>2, QueueFacts
<1>3. HeadRuns'
  BY <1>1, <1>2 DEF QueueInv, HeadRuns, INITIALIZING, BACK_PLANNED, RUNNING
<1>4. BeingPlanned'
  BY <1>1 DEF BeingPlanned
<1>5. ASSUME InSequence PROVE InSequence'
  <2>1. (queue # <<>> /\ queue[1].state = RUNNING => segments > 0)'
    BY <1>1, <1>2, <1>5 DEF InSequence, BACK_PLANNED, RUNNING
  <2>2. (planAt # 0 => ramps = planAt /\ \A i \in 1 .. planAt - 1 : Passing(queue[i]))'
    BY <1>1
  <2>3. \A i \in DOMAIN queue : Passing(queue[i]) => Passing(queue'[i])
    BY <1>1, <1>2 DEF Passing, INITIALIZING, RUNNING
  <2>4. (\A k \in DOMAIN queue : queue[k].kind = "move" /\ queue[k].state = FULLY_PLANNED
           => ramps = k /\ \A i \in 1 .. k - 1 : Passing(queue[i]))'
    BY <1>1, <1>2, <1>5, <2>3 DEF InSequence, Passing, BACK_PLANNED, FULLY_PLANNED
  <2>5. QED BY <2>1, <2>2, <2>4 DEF InSequence
<1>6. QED BY <1>3, <1>4, <1>5 DEF QueueKept

\* The run buffer goes and every position moves up by one.
LEMMA AfterTail ==
  ASSUME QueueInv, queue # <<>>, queue' = Tail(queue)
  PROVE  /\ DOMAIN queue = 1 .. Len(queue) /\ Len(queue) \in Nat \ {0}
         /\ DOMAIN queue' = 1 .. Len(queue) - 1
         /\ \A k \in 1 .. Len(queue) - 1 : queue'[k] = queue[k + 1]
         /\ queue' # <<>> <=> Len(queue) > 1
<1>1. queue \in Seq(Block)
  BY DEF QueueInv
<1>2. queue' \in Seq(Block) /\ Len(queue') = Len(queue) - 1
  BY <1>1, TailFacts
<1>3. QED BY <1>1, <1>2, TailFacts, QueueFacts

LEMMA ShiftedFacts ==
  ASSUME NEW k \in Nat
  PROVE  /\ Shifted(k) \in Nat /\ k > 0 => Shifted(k) = k - 1
         /\ k = 0 => Shifted(k) = 0
BY DEF Shifted

LEMMA FreedKeeps ==
  ASSUME QueueInv, Freed PROVE QueueKept
<1>1. /\ queue # <<>> /\ queue[1].kind # "move" /\ segments' = segments
      /\ queue' = Tail(queue) /\ ramps' = Shifted(ramps) /\ planAt' = Shifted(planAt)
  BY DEF Freed, FreeBlock
<1>2. /\ DOMAIN queue = 1 .. Len(queue) /\ Len(queue) \in Nat \ {0}
      /\ DOMAIN queue' = 1 .. Len(queue) - 1
      /\ \A k \in 1 .. Len(queue) - 1 : queue'[k] = queue[k + 1]
      /\ queue' # <<>> <=> Len(queue) > 1
  BY <1>1, AfterTail
<1>3. /\ segments = 0 /\ planAt # 1
      /\ \A k \in DOMAIN queue : queue[k].state # RUNNING
  BY <1>1, <1>2 DEF QueueInv, HeadRuns, BeingPlanned
<1>4. HeadRuns'
  BY <1>1, <1>2, <1>3 DEF HeadRuns
<1>5. /\ ramps \in Nat /\ planAt \in Nat
      /\ planAt' = IF planAt > 0 THEN planAt - 1 ELSE 0
      /\ ramps' = IF ramps > 0 THEN ramps - 1 ELSE 0
  BY <1>1 DEF QueueInv, Shifted
<1>6. BeingPlanned'
  BY <1>1, <1>2, <1>3, <1>5 DEF QueueInv, BeingPlanned
<1>7. ASSUME InSequence PROVE InSequence'
  <2>1. (queue # <<>> /\ queue[1].state = RUNNING => segments > 0)'
    BY <1>1, <1>2, <1>3
  <2>2. (planAt # 0 => ramps = planAt /\ \A i \in 1 .. planAt - 1 : Passing(queue[i]))'
    BY <1>2, <1>3, <1>5, <1>7 DEF InSequence, Passing, QueueInv, BeingPlanned
  <2>3. (\A k \in DOMAIN queue : queue[k].kind = "move" /\ queue[k].state = FULLY_PLANNED
           => ramps = k /\ \A i \in 1 .. k - 1 : Passing(queue[i]))'
    BY <1>2, <1>3, <1>5, <1>7 DEF InSequence, Passing
  <2>4. QED BY <2>1, <2>2, <2>3 DEF InSequence
<1>8. QED BY <1>4, <1>6, <1>7 DEF QueueKept

\* The forward planner marks what it passes and may have found the next move.
Marks(move) ==
  /\ planAt = 0 /\ Planned(1) /\ move \in First .. Len(queue) + 1
  /\ \A k \in First .. move - 1 : Passed(queue[k])
  /\ queue' = [k \in DOMAIN queue |->
                 IF k \in {j \in First .. move - 1 : queue[j].state = BACK_PLANNED}
                 THEN [queue[k] EXCEPT !.state = FULLY_PLANNED] ELSE queue[k]]
  /\ \/ /\ move <= Len(queue) /\ ~ Passed(queue[move])
        /\ queue[move].state = BACK_PLANNED
        /\ ramps' = move /\ planAt' = move
     \/ UNCHANGED <<ramps, planAt>>
  /\ UNCHANGED segments

LEMMA AfterMarks ==
  ASSUME QueueInv, NEW move, Marks(move)
  PROVE  /\ DOMAIN queue = 1 .. Len(queue) /\ Len(queue) \in Nat \ {0}
         /\ queue' \in Seq(Block) /\ Len(queue') = Len(queue)
         /\ DOMAIN queue' = DOMAIN queue /\ queue # <<>> /\ queue' # <<>>
         /\ First \in 1 .. 2 /\ (First = 2 => queue[1].state = RUNNING)
         /\ move \in Nat /\ move <= Len(queue) + 1
         /\ \A j \in DOMAIN queue :
              /\ queue'[j].kind = queue[j].kind
              /\ \/ queue'[j] = queue[j]
                 \/ /\ queue'[j].kind # "move" /\ queue[j].state = BACK_PLANNED
                    /\ queue'[j].state = FULLY_PLANNED
         /\ \A j \in 1 .. move - 1 : j \in DOMAIN queue /\ Passing(queue[j])
<1> DEFINE M == {j \in First .. move - 1 : queue[j].state = BACK_PLANNED}
<1>1. queue \in Seq(Block) /\ 1 <= Len(queue) /\ move \in First .. Len(queue) + 1
  BY DEF QueueInv, Marks, Planned
<1>2. /\ DOMAIN queue = 1 .. Len(queue) /\ Len(queue) \in Nat \ {0} /\ queue # <<>>
  BY <1>1, QueueFacts
<1>3. queue' = [k \in DOMAIN queue |-> IF k \in M THEN [queue[k] EXCEPT !.state = FULLY_PLANNED]
                                       ELSE queue[k]]
  BY DEF Marks
<1>4. /\ queue' \in Seq(Block) /\ Len(queue') = Len(queue) /\ DOMAIN queue' = DOMAIN queue
      /\ \A j \in DOMAIN queue : /\ queue'[j].kind = queue[j].kind
                                 /\ j \in M => queue'[j].state = FULLY_PLANNED
                                 /\ j \notin M => queue'[j] = queue[j]
  <2> HIDE DEF M
  <2>1. QED BY <1>1, <1>3, MarkedFacts
<1>5. First \in 1 .. 2 /\ (First = 2 => queue[1].state = RUNNING)
  BY DEF First
<1>6. move \in Nat /\ move <= Len(queue) + 1
  BY <1>1, <1>2, <1>5
<1>7. \A j \in 1 .. move - 1 : j \in DOMAIN queue /\ Passing(queue[j])
  BY <1>2, <1>5, <1>6 DEF Marks, Passing, Passed
<1>8. \A j \in M : j \in DOMAIN queue /\ queue[j].kind # "move" /\ queue[j].state = BACK_PLANNED
  BY <1>2, <1>5, <1>6 DEF Marks, Passed
<1>9. queue' # <<>>
  BY <1>2, <1>4, QueueFacts
<1> HIDE DEF M
<1>10. QED BY <1>2, <1>4, <1>5, <1>6, <1>7, <1>8, <1>9

LEMMA MarksKeep ==
  ASSUME QueueInv, NEW move, Marks(move) PROVE QueueKept
<1>1. /\ DOMAIN queue = 1 .. Len(queue) /\ Len(queue) \in Nat \ {0}
      /\ DOMAIN queue' = DOMAIN queue /\ queue # <<>> /\ queue' # <<>>
      /\ First \in 1 .. 2 /\ (First = 2 => queue[1].state = RUNNING)
      /\ move \in Nat /\ move <= Len(queue) + 1
      /\ \A j \in DOMAIN queue :
           /\ queue'[j].kind = queue[j].kind
           /\ \/ queue'[j] = queue[j]
              \/ /\ queue'[j].kind # "move" /\ queue[j].state = BACK_PLANNED
                 /\ queue'[j].state = FULLY_PLANNED
      /\ \A j \in 1 .. move - 1 : j \in DOMAIN queue /\ Passing(queue[j])
  BY AfterMarks
<1>2. segments' = segments /\ planAt = 0 /\ segments \in Nat
  BY DEF Marks, QueueInv
<1>3. \/ /\ move \in DOMAIN queue /\ queue[move].kind = "move"
         /\ queue[move].state = BACK_PLANNED /\ ramps' = move /\ planAt' = move
      \/ ramps' = ramps /\ planAt' = 0
  BY <1>1 DEF Marks, Passed, First
<1>4. HeadRuns'
  BY <1>1, <1>2 DEF QueueInv, HeadRuns, BACK_PLANNED, FULLY_PLANNED, RUNNING
<1>5. BeingPlanned'
  BY <1>1, <1>3 DEF BeingPlanned
<1>6. ASSUME InSequence PROVE InSequence'
  <2>1. (queue # <<>> /\ queue[1].state = RUNNING => segments > 0)'
    BY <1>1, <1>2, <1>6 DEF InSequence, FULLY_PLANNED, RUNNING
  <2>2. \A i \in DOMAIN queue : Passing(queue[i]) => Passing(queue'[i])
    BY <1>1 DEF Passing, BACK_PLANNED, RUNNING
  <2>3. (planAt # 0 => ramps = planAt /\ \A i \in 1 .. planAt - 1 : Passing(queue[i]))'
    BY <1>1, <1>3, <2>2
  <2>4. \A k \in DOMAIN queue : queue'[k].kind = "move" /\ queue'[k].state = FULLY_PLANNED
           => ramps' = k /\ \A i \in 1 .. k - 1 : Passing(queue'[i])
    <3>1. SUFFICES ASSUME NEW k \in DOMAIN queue, queue'[k].kind = "move",
                          queue'[k].state = FULLY_PLANNED
                   PROVE  ramps' = k /\ \A i \in 1 .. k - 1 : Passing(queue'[i])
      OBVIOUS
    <3>2. queue'[k] = queue[k] /\ k \in 1 .. Len(queue)
      BY <1>1, <3>1
    <3>3. ramps = k /\ \A i \in 1 .. k - 1 : Passing(queue[i])
      BY <1>6, <3>1, <3>2 DEF InSequence
    <3>4. ramps' = ramps
      <4>1. CASE move \in DOMAIN queue /\ queue[move].kind = "move"
                 /\ queue[move].state = BACK_PLANNED
        <5>1. move < k => FALSE
          BY <1>1, <3>2, <3>3, <4>1 DEF Passing, BACK_PLANNED, RUNNING
        <5>2. k < move => FALSE
          BY <1>1, <3>1, <3>2 DEF Passing, FULLY_PLANNED, RUNNING
        <5>3. k # move
          BY <3>1, <3>2, <4>1 DEF BACK_PLANNED, FULLY_PLANNED
        <5>4. QED BY <1>1, <3>2, <5>1, <5>2, <5>3
      <4>2. QED BY <1>3, <4>1
    <3>5. QED BY <1>1, <2>2, <3>2, <3>3, <3>4
  <2>5. QED BY <1>1, <2>1, <2>3, <2>4 DEF InSequence
<1>7. QED BY <1>4, <1>5, <1>6 DEF QueueKept

\* The move whose ramps were computed is fully planned.
NowPlanned == /\ planAt # 0 /\ planAt' = 0
              /\ queue' = [queue EXCEPT ![planAt].state = FULLY_PLANNED]
              /\ UNCHANGED <<segments, ramps>>

LEMMA NowPlannedKeeps ==
  ASSUME QueueInv, NowPlanned PROVE QueueKept
<1>1. /\ planAt # 0 /\ planAt' = 0 /\ segments' = segments /\ ramps' = ramps
      /\ queue' = [queue EXCEPT ![planAt].state = FULLY_PLANNED]
      /\ planAt \in DOMAIN queue
      /\ queue[planAt].kind = "move" /\ queue[planAt].state = BACK_PLANNED
  BY DEF NowPlanned, QueueInv, BeingPlanned
<1>2. /\ DOMAIN queue = 1 .. Len(queue) /\ Len(queue) \in Nat
      /\ DOMAIN queue' = DOMAIN queue /\ queue # <<>> /\ queue' # <<>>
      /\ \A j \in DOMAIN queue : queue'[j].kind = queue[j].kind
                                 /\ (j # planAt => queue'[j] = queue[j])
      /\ queue'[planAt].state = FULLY_PLANNED
  <2>1. queue \in Seq(Block) /\ FULLY_PLANNED \in States
    BY DEF QueueInv, States
  <2>2. /\ queue' \in Seq(Block) /\ Len(queue') = Len(queue) /\ DOMAIN queue' = DOMAIN queue
        /\ \A j \in DOMAIN queue : queue'[j].kind = queue[j].kind
                                   /\ (j # planAt => queue'[j] = queue[j])
        /\ queue'[planAt].state = FULLY_PLANNED
    <3> DEFINE n == planAt
    <3>1. n \in DOMAIN queue /\ queue' = [queue EXCEPT ![n].state = FULLY_PLANNED]
      BY <1>1
    <3> HIDE DEF n
    <3>2. /\ queue' \in Seq(Block) /\ Len(queue') = Len(queue) /\ DOMAIN queue' = DOMAIN queue
          /\ \A j \in DOMAIN queue : queue'[j].kind = queue[j].kind
                                     /\ (j # n => queue'[j] = queue[j])
          /\ queue'[n].state = FULLY_PLANNED
      BY <2>1, <3>1, QueueState
    <3>3. QED BY <3>2 DEF n
  <2>3. QED BY <1>1, <2>1, <2>2, QueueFacts
<1>3. HeadRuns'
  BY <1>1, <1>2 DEF QueueInv, HeadRuns, BACK_PLANNED, FULLY_PLANNED, RUNNING
<1>4. BeingPlanned'
  BY <1>1 DEF BeingPlanned
<1>5. ASSUME InSequence PROVE InSequence'
  <2>1. (queue # <<>> /\ queue[1].state = RUNNING => segments > 0)'
    BY <1>1, <1>2, <1>5 DEF InSequence, FULLY_PLANNED, RUNNING
  <2>2. \A i \in DOMAIN queue : Passing(queue[i]) => Passing(queue'[i])
    BY <1>1, <1>2 DEF Passing, BACK_PLANNED, RUNNING
  <2>3. \A k \in DOMAIN queue : queue'[k].kind = "move" /\ queue'[k].state = FULLY_PLANNED
           => ramps' = k /\ \A i \in 1 .. k - 1 : Passing(queue'[i])
    <3>1. ramps = planAt /\ \A i \in 1 .. planAt - 1 : Passing(queue[i])
      BY <1>1, <1>5 DEF InSequence
    <3>2. SUFFICES ASSUME NEW k \in DOMAIN queue, queue'[k].kind = "move",
                          queue'[k].state = FULLY_PLANNED
                   PROVE  ramps' = k /\ \A i \in 1 .. k - 1 : Passing(queue'[i])
      OBVIOUS
    <3>3. CASE k = planAt
      BY <1>1, <1>2, <2>2, <3>1, <3>3
    <3>4. CASE k # planAt
      <4>1. queue[k].kind = "move" /\ queue[k].state = FULLY_PLANNED
        BY <1>2, <3>2, <3>4
      <4>2. ramps = k
        BY <1>5, <4>1 DEF InSequence
      <4>3. QED BY <3>1, <3>4, <4>2
    <3>5. QED BY <3>3, <3>4
  <2>4. QED BY <1>1, <1>2, <2>1, <2>3 DEF InSequence
<1>6. QED BY <1>3, <1>4, <1>5 DEF QueueKept

\* The head of the queue is a move that exec may run.
HeadIsPlannedMove ==
  Planned(1) /\ queue[1].kind = "move" /\ queue[1].state > BACK_PLANNED

Left == IF segments = 0 THEN 0 ELSE ramps

\* A segment of it is prepared and it is running now, ...
RunsOn == /\ HeadIsPlannedMove
          /\ queue' = [queue EXCEPT ![1].state = RUNNING]
          /\ segments' \in 1 .. MaxSegments /\ ramps' = Left /\ planAt' = planAt

\* ... or it was the last segment, ...
RunsOut == /\ HeadIsPlannedMove
           /\ queue' = Tail(queue)
           /\ segments' = 0 /\ ramps' = Shifted(Left) /\ planAt' = Shifted(planAt)

\* ... or it is marked as running outside the cycle.
RunsNot == /\ HeadIsPlannedMove
           /\ queue' = [queue EXCEPT ![1].state = RUNNING]
           /\ UNCHANGED <<segments, ramps, planAt>>

LEMMA AfterRunning ==
  ASSUME QueueInv, HeadIsPlannedMove, queue' = [queue EXCEPT ![1].state = RUNNING]
  PROVE  /\ DOMAIN queue = 1 .. Len(queue) /\ Len(queue) \in Nat \ {0}
         /\ DOMAIN queue' = DOMAIN queue /\ queue # <<>> /\ queue' # <<>>
         /\ \A j \in DOMAIN queue : queue'[j].kind = queue[j].kind
                                    /\ (j # 1 => queue'[j] = queue[j])
         /\ queue'[1].state = RUNNING
<1>1. queue \in Seq(Block) /\ RUNNING \in States /\ 1 <= Len(queue)
  BY DEF QueueInv, States, HeadIsPlannedMove, Planned
<1>2. 1 \in DOMAIN queue /\ DOMAIN queue = 1 .. Len(queue) /\ Len(queue) \in Nat \ {0}
      /\ queue # <<>>
  BY <1>1, QueueFacts
<1>3. /\ queue' \in Seq(Block) /\ Len(queue') = Len(queue) /\ DOMAIN queue' = DOMAIN queue
      /\ \A j \in DOMAIN queue : queue'[j].kind = queue[j].kind
                                 /\ (j # 1 => queue'[j] = queue[j])
      /\ queue'[1].state = RUNNING
  <2> DEFINE n == 1
  <2>1. n \in DOMAIN queue /\ queue' = [queue EXCEPT ![n].state = RUNNING]
    BY <1>2
  <2> HIDE DEF n
  <2>2. /\ queue' \in Seq(Block) /\ Len(queue') = Len(queue) /\ DOMAIN queue' = DOMAIN queue
        /\ \A j \in DOMAIN queue : queue'[j].kind = queue[j].kind
                                   /\ (j # n => queue'[j] = queue[j])
        /\ queue'[n].state = RUNNING
    BY <1>1, <2>1, StateFacts
  <2>3. QED BY <2>2 DEF n
<1>4. QED BY <1>2, <1>3, QueueFacts

\* The head is never the move that is being planned.
LEMMA HeadIsNotBeingPlanned ==
  ASSUME QueueInv, HeadIsPlannedMove
  PROVE  /\ planAt # 1 /\ Len(queue) \in Nat /\ 1 \in DOMAIN queue
         /\ queue[1].state \in {FULLY_PLANNED, RUNNING}
<1>1. Len(queue) \in Nat /\ 1 \in DOMAIN queue /\ queue[1] \in Block
  BY QueueFacts DEF QueueInv, HeadIsPlannedMove, Planned
<1>2. queue[1].state \in States /\ queue[1].state > BACK_PLANNED
  BY <1>1, BlockFields DEF HeadIsPlannedMove
<1>3. queue[1].state \in {FULLY_PLANNED, RUNNING}
  BY <1>2 DEF States, INITIALIZING, BACK_PLANNED, FULLY_PLANNED, RUNNING
<1>4. planAt # 1
  BY <1>2 DEF QueueInv, BeingPlanned, BACK_PLANNED
<1>5. QED BY <1>1, <1>3, <1>4

\* A move that starts has its ramps, so that no other move has.
LEMMA HeadHasTheRamps ==
  ASSUME QueueInv, HeadIsPlannedMove, InSequence, segments = 0
  PROVE  /\ ramps = 1 /\ planAt = 0
         /\ \A k \in DOMAIN queue : queue[k].kind = "move" => queue[k].state # FULLY_PLANNED
                                                             \/ k = 1
<1>1. planAt # 1 /\ 1 \in DOMAIN queue /\ queue[1].state \in {FULLY_PLANNED, RUNNING}
  BY HeadIsNotBeingPlanned
<1>2. queue # <<>>
  BY <1>1, QueueFacts DEF QueueInv
<1>3. queue[1].state = FULLY_PLANNED /\ queue[1].kind = "move"
  BY <1>1, <1>2 DEF InSequence, HeadIsPlannedMove
<1>4. ramps = 1
  BY <1>1, <1>3 DEF InSequence
<1>5. QED BY <1>1, <1>4 DEF InSequence

LEMMA RunningKeepsTheHead ==
  ASSUME QueueInv, HeadIsPlannedMove, queue' = [queue EXCEPT ![1].state = RUNNING],
         planAt' = planAt
  PROVE  HeadRuns' /\ BeingPlanned'
<1>1. /\ DOMAIN queue = 1 .. Len(queue) /\ Len(queue) \in Nat \ {0}
      /\ DOMAIN queue' = DOMAIN queue /\ queue # <<>> /\ queue' # <<>>
      /\ \A j \in DOMAIN queue : queue'[j].kind = queue[j].kind
                                 /\ (j # 1 => queue'[j] = queue[j])
      /\ queue'[1].state = RUNNING
  BY AfterRunning
<1>2. queue[1].kind = "move" /\ planAt # 1
  BY HeadIsNotBeingPlanned DEF HeadIsPlannedMove
<1>3. HeadRuns'
  BY <1>1, <1>2 DEF QueueInv, HeadRuns
<1>4. BeingPlanned'
  BY <1>1, <1>2 DEF QueueInv, BeingPlanned
<1>5. QED BY <1>3, <1>4

LEMMA RunsOnKeeps ==
  ASSUME QueueInv, RunsOn PROVE QueueKept
<1>1. /\ HeadIsPlannedMove /\ queue' = [queue EXCEPT ![1].state = RUNNING]
      /\ segments' \in Nat \ {0} /\ ramps' = Left /\ planAt' = planAt
  BY SizeAssumption DEF RunsOn
<1>2. HeadRuns' /\ BeingPlanned'
  BY <1>1, RunningKeepsTheHead
<1>3. /\ DOMAIN queue = 1 .. Len(queue) /\ Len(queue) \in Nat \ {0}
      /\ DOMAIN queue' = DOMAIN queue /\ queue # <<>> /\ queue' # <<>>
      /\ \A j \in DOMAIN queue : queue'[j].kind = queue[j].kind
                                 /\ (j # 1 => queue'[j] = queue[j])
      /\ queue'[1].state = RUNNING
  BY <1>1, AfterRunning
<1>4. ASSUME InSequence PROVE InSequence'
  <2>1. (queue # <<>> /\ queue[1].state = RUNNING => segments > 0)'
    BY <1>1
  <2>2. \A i \in DOMAIN queue : Passing(queue[i]) => Passing(queue'[i])
    BY <1>3 DEF Passing
  <2>3. CASE segments = 0
    <3>1. planAt = 0 /\ \A k \in DOMAIN queue :
             queue[k].kind = "move" => queue[k].state # FULLY_PLANNED \/ k = 1
      BY <1>1, <1>4, <2>3, HeadHasTheRamps
    <3>2. \A k \in DOMAIN queue : queue'[k].kind = "move" => queue'[k].state # FULLY_PLANNED
      BY <1>3, <3>1 DEF FULLY_PLANNED, RUNNING
    <3>3. QED BY <1>1, <1>3, <2>1, <3>1, <3>2 DEF InSequence
  <2>4. CASE segments # 0
    <3>1. ramps' = ramps
      BY <1>1, <2>4 DEF Left
    <3>2. (planAt # 0 => ramps = planAt /\ \A i \in 1 .. planAt - 1 : Passing(queue[i]))'
      <4>1. SUFFICES ASSUME planAt' # 0
                     PROVE  ramps' = planAt' /\ \A i \in 1 .. planAt' - 1 : Passing(queue'[i])
        OBVIOUS
      <4>2. planAt # 0 /\ planAt \in DOMAIN queue /\ planAt' = planAt
        BY <1>1, <4>1 DEF QueueInv, BeingPlanned
      <4>3. ramps = planAt /\ \A i \in 1 .. planAt - 1 : Passing(queue[i])
        BY <1>4, <4>2 DEF InSequence
      <4>4. \A i \in 1 .. planAt - 1 : i \in DOMAIN queue
        BY <1>3, <4>2
      <4>5. QED BY <2>2, <3>1, <4>2, <4>3, <4>4
    <3>3. (\A k \in DOMAIN queue : queue[k].kind = "move" /\ queue[k].state = FULLY_PLANNED
             => ramps = k /\ \A i \in 1 .. k - 1 : Passing(queue[i]))'
      BY <1>3, <1>4, <2>2, <3>1 DEF InSequence, FULLY_PLANNED, RUNNING
    <3>4. QED BY <2>1, <3>2, <3>3 DEF InSequence
  <2>5. QED BY <2>3, <2>4
<1>5. QED BY <1>2, <1>4 DEF QueueKept

LEMMA RunsOutKeeps ==
  ASSUME QueueInv, RunsOut PROVE QueueKept
<1>1. /\ HeadIsPlannedMove /\ queue' = Tail(queue) /\ segments' = 0
      /\ ramps' = Shifted(Left) /\ planAt' = Shifted(planAt)
  BY DEF RunsOut
<1>2. planAt # 1 /\ queue # <<>>
  BY <1>1, HeadIsNotBeingPlanned, QueueFacts DEF QueueInv
<1>3. /\ DOMAIN queue = 1 .. Len(queue) /\ Len(queue) \in Nat \ {0}
      /\ DOMAIN queue' = 1 .. Len(queue) - 1
      /\ \A k \in 1 .. Len(queue) - 1 : queue'[k] = queue[k + 1]
      /\ queue' # <<>> <=> Len(queue) > 1
  BY <1>1, <1>2, AfterTail
<1>4. /\ planAt \in Nat /\ planAt' = IF planAt > 0 THEN planAt - 1 ELSE 0
      /\ ramps \in Nat
  BY <1>1 DEF QueueInv, Shifted
<1>5. \A k \in DOMAIN queue' : queue'[k].state # RUNNING
  <2>1. TAKE k \in DOMAIN queue'
  <2>2. k + 1 \in DOMAIN queue /\ k + 1 # 1 /\ queue'[k] = queue[k + 1]
    BY <1>3
  <2>3. queue[k + 1].state # RUNNING
    BY <2>2 DEF QueueInv, HeadRuns
  <2>4. QED BY <2>2, <2>3
<1>6. HeadRuns'
  BY <1>1, <1>3, <1>5 DEF HeadRuns
<1>7. BeingPlanned'
  BY <1>2, <1>3, <1>4 DEF QueueInv, BeingPlanned
<1>8. ASSUME InSequence PROVE InSequence'
  <2>1. (queue # <<>> /\ queue[1].state = RUNNING => segments > 0)'
    BY <1>3, <1>5
  <2>2. CASE segments = 0
    <3>1. planAt = 0 /\ \A k \in DOMAIN queue :
             queue[k].kind = "move" => queue[k].state # FULLY_PLANNED \/ k = 1
      BY <1>1, <1>8, <2>2, HeadHasTheRamps
    <3>2. \A k \in DOMAIN queue' : queue'[k].kind = "move" => queue'[k].state # FULLY_PLANNED
      BY <1>3, <3>1
    <3>3. planAt' = 0
      BY <1>4, <3>1
    <3>4. QED BY <2>1, <3>2, <3>3 DEF InSequence
  <2>3. CASE segments # 0
    <3>1. ramps' = IF ramps > 0 THEN ramps - 1 ELSE 0
      BY <1>1, <1>4, <2>3 DEF Left, Shifted
    <3>2. (planAt # 0 => ramps = planAt /\ \A i \in 1 .. planAt - 1 : Passing(queue[i]))'
      BY <1>2, <1>3, <1>4, <1>8, <3>1 DEF InSequence, Passing, QueueInv, BeingPlanned
    <3>3. \A k \in DOMAIN queue' : queue'[k].kind = "move" /\ queue'[k].state = FULLY_PLANNED
             => ramps' = k /\ \A i \in 1 .. k - 1 : Passing(queue'[i])
      <4>1. SUFFICES ASSUME NEW k \in DOMAIN queue', queue'[k].kind = "move",
                            queue'[k].state = FULLY_PLANNED
                     PROVE  ramps' = k /\ \A i \in 1 .. k - 1 : Passing(queue'[i])
        OBVIOUS
      <4>2. /\ k \in Nat \ {0} /\ k + 1 \in DOMAIN queue /\ queue'[k] = queue[k + 1]
            /\ \A i \in 1 .. k - 1 : /\ i \in 1 .. Len(queue) - 1
                                      /\ i + 1 \in 1 .. (k + 1) - 1
        BY <1>3, <4>1
      <4>3. ramps = k + 1 /\ \A i \in 1 .. (k + 1) - 1 : Passing(queue[i])
        BY <1>8, <4>1, <4>2 DEF InSequence
      <4>4. ramps' = k
        BY <3>1, <4>2, <4>3
      <4>5. \A i \in 1 .. k - 1 : Passing(queue'[i])
        BY <1>3, <4>2, <4>3
      <4>6. QED BY <4>4, <4>5
    <3>4. QED BY <2>1, <3>2, <3>3 DEF InSequence
  <2>4. QED BY <2>2, <2>3
<1>9. QED BY <1>6, <1>7, <1>8 DEF QueueKept

---------------------------------------------------------------------------
(* Which step does what *)

QueueTypes == /\ queue \in Seq(Block) /\ Len(queue) <= FullAt
              /\ ramps \in 0 .. FullAt /\ planAt \in 0 .. FullAt
              /\ segments \in 0 .. MaxSegments

OtherTypes == /\ mainAt \in {"ready", "aline", "zero length", "planning"}
              /\ planner_state \in {"IDLE", "STARTUP", "PRIMING"}
              /\ prep \in Prep /\ execAt \in {"out", "handover"} /\ unloaded \in Int

Flags == /\ block_timeout \in BOOLEAN /\ cycle \in BOOLEAN /\ motion \in BOOLEAN
         /\ playing \in BOOLEAN /\ toolhead_busy \in BOOLEAN
         /\ load_requested \in BOOLEAN /\ execPending \in BOOLEAN
         /\ planPending \in BOOLEAN /\ lost \in BOOLEAN /\ stray \in BOOLEAN

LEMMA TypeParts ==
  /\ TypeOK <=> QueueTypes /\ OtherTypes /\ Flags
  /\ TypeOK' <=> QueueTypes' /\ OtherTypes' /\ Flags'
<1>1. ASSUME NEW a, NEW b, NEW c, NEW d, NEW e, NEW f, NEW g, NEW h, NEW i, NEW j
      PROVE  {a, b, c, d, e, f, g, h, i, j} \subseteq BOOLEAN
             <=> /\ a \in BOOLEAN /\ b \in BOOLEAN /\ c \in BOOLEAN /\ d \in BOOLEAN
                 /\ e \in BOOLEAN /\ f \in BOOLEAN /\ g \in BOOLEAN /\ h \in BOOLEAN
                 /\ i \in BOOLEAN /\ j \in BOOLEAN
  <2>1. {a, b, c, d, e, f, g, h, i, j} \subseteq BOOLEAN
        <=> \A v \in {a, b, c, d, e, f, g, h, i, j} : v \in BOOLEAN
    OBVIOUS
  <2>2. QED BY <2>1
<1>2. {block_timeout, cycle, motion, playing, toolhead_busy, load_requested,
       execPending, planPending, lost, stray} \subseteq BOOLEAN <=> Flags
  BY <1>1 DEF Flags
<1>3. TypeOK <=> QueueTypes /\ OtherTypes /\ Flags
  BY <1>2, Zenon DEF TypeOK, QueueTypes, OtherTypes
<1>4. {block_timeout', cycle', motion', playing', toolhead_busy', load_requested',
       execPending', planPending', lost', stray'} \subseteq BOOLEAN <=> Flags'
  BY <1>1 DEF Flags
<1>5. TypeOK' <=> QueueTypes' /\ OtherTypes' /\ Flags'
  BY <1>4, Zenon DEF TypeOK, QueueTypes, OtherTypes
<1>6. QED BY <1>3, <1>5

LEMMA PipeIsQueueInv ==
  ASSUME PipeInv PROVE QueueInv
<1>1. QueueTypes /\ HeadRuns /\ BeingPlanned
  BY TypeParts DEF PipeInv
<1>2. QED BY <1>1, SizeAssumption DEF QueueTypes, QueueInv

\* The steps that leave the head of the queue where it is, ...
HeadStays == Same \/ Grown \/ BackPlannedOne \/ (\E move : Marks(move)) \/ NowPlanned
\* ... and those that run it.
HeadMoves == Freed \/ RunsOn \/ RunsOut \/ (RunsNot /\ ~ cycle)

NullPrep == [owner |-> "exec", what |-> "null", at |-> 0]

LEMMA LoadShape ==
  ASSUME PipeInv, NEW p, p.what = prep.what, Load(p), UNCHANGED segments
  PROVE  prep' = NullPrep /\ (Same \/ Freed)
<1>1. CASE p.what = "command"
  <2>1. queue # <<>> /\ queue[1].kind = "command"
    BY <1>1 DEF PipeInv, StagedCommandIsRunBlock
  <2>2. FreeBlock /\ prep' = NullPrep
    BY <1>1 DEF Load, FreeCommand, NullPrep
  <2>3. QED BY <2>1, <2>2 DEF Freed
<1>2. CASE p.what # "command"
  BY <1>2 DEF Load, Same, NullPrep
<1>3. QED BY <1>1, <1>2

\* What becomes of the prep buffer: it stays, it is emptied, or the command at
\* the head of the queue is put into it.
Staging == \/ prep'.what = prep.what /\ prep'.at = prep.at
           \/ prep'.what \notin {"command"}
           \/ prep'.at = 1 /\ queue # <<>> /\ queue[1].kind = "command"

LEMMA ExecShape ==
  ASSUME PipeInv, mp_exec_move, prep.owner = "exec"
  PROVE  (HeadStays /\ Staging) \/ (HeadMoves /\ prep'.what # "command")
<1>1. CASE ExecNothing
  <2>1. Same
    BY <1>1 DEF ExecNothing, Same
  <2>2. prep' = [prep EXCEPT !.what = "null", !.owner = "exec"] /\ prep \in Prep
    BY <1>1, TypeParts DEF ExecNothing, PrepNull, PipeInv, OtherTypes
  <2>3. prep'.what = "null"
    BY <2>2 DEF Prep
  <2>4. QED BY <2>1, <2>3 DEF HeadStays, Staging
<1>2. CASE ExecMove
  <2>1. HeadIsPlannedMove
    BY <1>2 DEF ExecMove, HeadIsPlannedMove
  <2>2. CASE ExecSegment
    <3>1. PICK n \in IF segments = 0 THEN 1 .. MaxSegments ELSE {segments} :
            /\ segments' = n - 1
            /\ PrepareFor("line", 0)
            /\ \/ /\ ~ LastSegment(n)
                  /\ queue' = [queue EXCEPT ![1].state = RUNNING]
                  /\ ramps' = Left /\ planAt' = planAt
               \/ /\ LastSegment(n)
                  /\ queue' = Tail(queue)
                  /\ ramps' = Shifted(Left) /\ planAt' = Shifted(planAt)
      BY <2>2 DEF ExecSegment, Left
    <3>2. n \in 1 .. MaxSegments
      BY <3>1, TypeParts, SizeAssumption DEF PipeInv, QueueTypes
    <3>3. prep'.what # "command"
      BY <3>1 DEF PrepareFor
    <3>4. RunsOn \/ RunsOut
      BY <2>1, <3>1, <3>2, SizeAssumption DEF RunsOn, RunsOut, LastSegment
    <3>5. QED BY <3>3, <3>4 DEF HeadMoves
  <2>3. CASE ExecOutOfCycle
    BY <2>1, <2>3 DEF ExecOutOfCycle, RunsNot, HeadMoves, PipeInv, Prepared
  <2>4. QED BY <1>2, <2>2, <2>3 DEF ExecMove
<1>3. CASE ExecCommand
  <2>1. queue # <<>>
    BY <1>3, PipeIsQueueInv, QueueFacts DEF ExecCommand, Planned, QueueInv
  <2>2. QED BY <1>3, <2>1 DEF ExecCommand, PrepareFor, Same, HeadStays, Staging
<1>4. CASE ExecDwell
  <2>1. queue # <<>>
    BY <1>4, PipeIsQueueInv, QueueFacts DEF ExecDwell, Planned, QueueInv
  <2>2. QED BY <1>4, <2>1 DEF ExecDwell, PrepareFor, Freed, FreeCommand, HeadMoves
<1>5. QED BY <1>1, <1>2, <1>3, <1>4 DEF mp_exec_move

LEMMA CommitGrows ==
  ASSUME PipeInv, NEW kind \in Kinds \ {"zero length"}, Commit(kind), Len(queue) < FullAt,
         kind = "move" => mainAt = "aline"
  PROVE  Grown
<1> DEFINE b == [kind |-> kind, state |-> INITIALIZING]
<1>1. b \in Block /\ b.state = INITIALIZING /\ b.kind = kind
  BY DEF Block
<1>2. queue' = Append(queue, b) /\ mainAt' = "ready" /\ UNCHANGED <<segments, ramps, planAt>>
  BY DEF Commit, runtime
<1> HIDE DEF b
<1>3. QED BY <1>1, <1>2 DEF Grown

LEMMA ForwardPlanShape ==
  ASSUME PipeInv, ForwardPlan
  PROVE  Same \/ \E move : Marks(move)
<1>1. CASE ~ Planned(1)
  BY <1>1 DEF ForwardPlan, Same, runtime
<1>2. CASE Planned(1)
  <2>1. PICK move \in First .. Len(queue) + 1 :
          LET marked == {k \in First .. move - 1 : queue[k].state = BACK_PLANNED}
          IN /\ \A k \in First .. move - 1 : Passed(queue[k])
             /\ move <= Len(queue) => ~ Passed(queue[move])
             /\ queue' = [k \in DOMAIN queue |-> IF k \in marked
                            THEN [queue[k] EXCEPT !.state = FULLY_PLANNED]
                            ELSE queue[k]]
             /\ \/ /\ move <= Len(queue)
                   /\ queue[move].state = BACK_PLANNED
                   /\ ramps' = move
                   /\ planAt' = move
                \/ UNCHANGED <<ramps, planAt>>
    BY <1>2 DEF ForwardPlan
  <2>2. planAt = 0 /\ segments' = segments
    BY DEF ForwardPlan, runtime
  <2>3. Marks(move)
    BY <1>2, <2>1, <2>2 DEF Marks
  <2>4. QED BY <2>3
<1>3. QED BY <1>1, <1>2

LEMMA StepShape ==
  ASSUME PipeInv, [Next]_vars
  PROVE  (HeadStays /\ Staging) \/ (HeadMoves /\ prep'.what # "command")
<1>1. CASE Same /\ UNCHANGED prep
  BY <1>1 DEF HeadStays, Staging
<1>2. ASSUME UNCHANGED prep, Grown \/ BackPlannedOne \/ (\E move : Marks(move)) \/ NowPlanned
      PROVE  HeadStays /\ Staging
  BY <1>2 DEF HeadStays, Staging
<1>3. ASSUME NEW p, p.what = prep.what, Load(p), UNCHANGED segments
      PROVE  (HeadStays /\ Staging) \/ (HeadMoves /\ prep'.what # "command")
  <2>1. prep'.what = "null" /\ (Same \/ Freed)
    BY <1>3, LoadShape DEF NullPrep
  <2>2. QED BY <2>1 DEF HeadStays, HeadMoves, Staging
<1>4. CASE StartMove \/ StartZeroLengthMove \/ EndZeroLengthMove \/ ToolheadReady
           \/ PlannerCallback \/ PlannerTimeout \/ UNCHANGED vars
  BY <1>1, <1>4 DEF StartMove, StartZeroLengthMove, cm_cycle_start, EndZeroLengthMove,
     ToolheadReady, PlannerCallback, PlannerTimeout, mp_planner_callback, vars, runtime,
     Same
<1>5. CASE CommitMove \/ QueueCommand
  <2>1. PICK kind \in Kinds \ {"zero length"} :
          Commit(kind) /\ Len(queue) < FullAt /\ (kind = "move" => mainAt = "aline")
    <3>1. CASE CommitMove
      BY <3>1 DEF CommitMove, PipeInv, Room
    <3>2. QED BY <1>5, <3>1 DEF QueueCommand
  <2>2. UNCHANGED prep
    BY <2>1 DEF Commit, runtime
  <2>3. QED BY <1>2, <2>1, <2>2, CommitGrows
<1>6. CASE PlanBlock
  <2>1. planAt = 0
    BY <1>6 DEF PlanBlock, MainMayRun
  <2>2. UNCHANGED prep /\ (BackPlannedOne \/ Same)
    BY <1>6, <2>1 DEF PlanBlock, BackPlannedOne, Same, runtime
  <2>3. QED BY <1>1, <1>2, <2>2
<1>7. CASE CheckLoadMove
  BY <1>3, <1>7 DEF CheckLoadMove
<1>8. CASE ForwardPlan
  <2>1. UNCHANGED prep
    BY <1>8 DEF ForwardPlan, runtime
  <2>2. QED BY <1>1, <1>2, <1>8, <2>1, ForwardPlanShape
<1>9. CASE ForwardPlanned
  BY <1>2, <1>9 DEF ForwardPlanned, NowPlanned, runtime
<1>10. CASE Exec
  <2>1. CASE prep.owner = "exec" /\ mp_exec_move
    BY <2>1, ExecShape
  <2>2. CASE Same /\ UNCHANGED prep
    BY <1>1, <2>2
  <2>3. QED BY <1>10, <2>1, <2>2 DEF Exec, Same
<1>11. CASE HandOver
  <2>1. prep \in Prep
    BY TypeParts DEF PipeInv, OtherTypes
  <2> DEFINE mine == [prep EXCEPT !.owner = "loader"]
  <2>2. mine.what = prep.what /\ mine.at = prep.at
    BY <2>1 DEF Prep
  <2>3. \/ prep' = mine /\ Same
        \/ Load(mine) /\ UNCHANGED segments
    BY <1>11 DEF HandOver, Same
  <2> HIDE DEF mine
  <2>4. CASE prep' = mine /\ Same
    BY <2>2, <2>4 DEF HeadStays, Staging
  <2>5. QED BY <1>3, <2>2, <2>3, <2>4
<1>12. CASE RunDone
  <2>1. \/ Load(prep) /\ UNCHANGED segments
        \/ Same /\ UNCHANGED prep
    BY <1>12 DEF RunDone, Same
  <2>2. QED BY <1>1, <1>3, <2>1
<1>13. QED BY <1>4, <1>5, <1>6, <1>7, <1>8, <1>9, <1>10, <1>11, <1>12 DEF Next

---------------------------------------------------------------------------
(* Type correctness *)

\* Steps that bring no block keep the kinds of those that are there.
NoNewKinds == \A k \in DOMAIN queue' : \E j \in DOMAIN queue : queue'[k].kind = queue[j].kind
SameHead == queue # <<>> => queue' # <<>> /\ queue'[1].kind = queue[1].kind

LEMMA OneRestated ==
  ASSUME QueueInv, NEW n \in DOMAIN queue, NEW st \in States,
         queue' = [queue EXCEPT ![n].state = st]
  PROVE  /\ queue' \in Seq(Block) /\ Len(queue') = Len(queue)
         /\ NoNewKinds /\ SameHead
<1>1. /\ queue' \in Seq(Block) /\ Len(queue') = Len(queue) /\ DOMAIN queue' = DOMAIN queue
      /\ \A j \in DOMAIN queue : queue'[j].kind = queue[j].kind
  BY StateFacts DEF QueueInv
<1>2. /\ DOMAIN queue = 1 .. Len(queue) /\ Len(queue) \in Nat
      /\ queue # <<>> <=> Len(queue) > 0
      /\ queue' # <<>> <=> Len(queue') > 0
  BY <1>1, QueueFacts DEF QueueInv
<1>3. QED BY <1>1, <1>2 DEF NoNewKinds, SameHead

LEMMA RestatedSteps ==
  ASSUME QueueInv, BackPlannedOne \/ NowPlanned \/ RunsOn \/ RunsNot
  PROVE  /\ queue' \in Seq(Block) /\ Len(queue') = Len(queue)
         /\ NoNewKinds /\ SameHead
<1>1. States = {INITIALIZING, BACK_PLANNED, FULLY_PLANNED, RUNNING}
  BY DEF States
<1>2. \E n \in DOMAIN queue, st \in States : queue' = [queue EXCEPT ![n].state = st]
  <2>1. CASE BackPlannedOne
    BY <1>1, <2>1 DEF BackPlannedOne
  <2>2. CASE NowPlanned
    BY <1>1, <2>2 DEF NowPlanned, QueueInv, BeingPlanned
  <2>3. CASE RunsOn \/ RunsNot
    BY <1>1, <2>3, HeadIsNotBeingPlanned DEF RunsOn, RunsNot
  <2>4. QED BY <2>1, <2>2, <2>3
<1>3. QED BY <1>2, OneRestated

LEMMA TailSteps ==
  ASSUME QueueInv, Freed \/ RunsOut
  PROVE  /\ queue' \in Seq(Block) /\ Len(queue') = Len(queue) - 1 /\ Len(queue) \in Nat \ {0}
         /\ NoNewKinds
<1>1. queue # <<>> /\ queue' = Tail(queue)
  BY HeadIsNotBeingPlanned, QueueFacts DEF Freed, FreeBlock, RunsOut, QueueInv
<1>2. queue' \in Seq(Block) /\ Len(queue') = Len(queue) - 1
  BY <1>1, TailFacts DEF QueueInv
<1>3. QED BY <1>1, <1>2, AfterTail DEF NoNewKinds

LEMMA MarkingSteps ==
  ASSUME QueueInv, NEW move, Marks(move)
  PROVE  /\ queue' \in Seq(Block) /\ Len(queue') = Len(queue)
         /\ NoNewKinds /\ SameHead
<1>1. /\ queue' \in Seq(Block) /\ Len(queue') = Len(queue) /\ DOMAIN queue' = DOMAIN queue
      /\ DOMAIN queue = 1 .. Len(queue) /\ Len(queue) \in Nat \ {0} /\ queue' # <<>>
      /\ \A j \in DOMAIN queue : queue'[j].kind = queue[j].kind
  BY AfterMarks
<1>2. QED BY <1>1 DEF NoNewKinds, SameHead

LEMMA GrownSteps ==
  ASSUME QueueInv, Grown
  PROVE  /\ queue' \in Seq(Block) /\ Len(queue') = Len(queue) + 1 /\ Len(queue) < FullAt
         /\ SameHead
<1>1. PICK b \in Block : queue' = Append(queue, b) /\ Len(queue) < FullAt
  BY DEF Grown
<1>2. /\ queue' \in Seq(Block) /\ Len(queue') = Len(queue) + 1
      /\ \A k \in 1 .. Len(queue) : queue'[k] = queue[k]
  BY <1>1, AppendFacts DEF QueueInv
<1>3. /\ Len(queue) \in Nat /\ (queue # <<>> <=> Len(queue) > 0)
      /\ queue' # <<>> <=> Len(queue') > 0
  BY <1>2, QueueFacts DEF QueueInv
<1>4. QED BY <1>1, <1>2, <1>3 DEF SameHead

LEMMA QueueTypesStay ==
  ASSUME PipeInv, [Next]_vars PROVE QueueTypes'
<1>1. QueueInv /\ QueueTypes /\ FullAt \in Nat \ {0} /\ MaxSegments \in Nat \ {0}
  BY PipeIsQueueInv, TypeParts, SizeAssumption DEF PipeInv
<1>2. Len(queue) \in Nat
  BY <1>1, QueueFacts DEF QueueInv
<1>3. CASE Same
  BY <1>1, <1>3 DEF Same, QueueTypes
<1>4. CASE Grown
  BY <1>1, <1>2, <1>4, GrownSteps DEF Grown, QueueTypes
<1>5. CASE BackPlannedOne \/ NowPlanned \/ RunsOn \/ RunsNot
  <2>1. queue' \in Seq(Block) /\ Len(queue') = Len(queue)
    BY <1>1, <1>5, RestatedSteps
  <2>2. ramps' \in 0 .. FullAt /\ planAt' \in 0 .. FullAt /\ segments' \in 0 .. MaxSegments
    BY <1>1, <1>5 DEF QueueTypes, BackPlannedOne, NowPlanned, RunsOn, RunsNot, Left
  <2>3. QED BY <1>1, <2>1, <2>2 DEF QueueTypes
<1>6. CASE Freed \/ RunsOut
  <2>1. queue' \in Seq(Block) /\ Len(queue') = Len(queue) - 1
    BY <1>1, <1>6, TailSteps
  <2>2. ramps' \in 0 .. FullAt /\ planAt' \in 0 .. FullAt /\ segments' \in 0 .. MaxSegments
    BY <1>1, <1>6 DEF QueueTypes, Freed, FreeBlock, RunsOut, Left, Shifted
  <2>3. QED BY <1>1, <1>2, <2>1, <2>2 DEF QueueTypes
<1>7. ASSUME NEW move, Marks(move) PROVE QueueTypes'
  <2>1. queue' \in Seq(Block) /\ Len(queue') = Len(queue)
    BY <1>1, <1>7, MarkingSteps
  <2>2. move \in Nat /\ segments' = segments
        /\ ((ramps' = move /\ planAt' = move /\ move <= Len(queue))
            \/ UNCHANGED <<ramps, planAt>>)
    BY <1>1, <1>7, AfterMarks DEF Marks
  <2>3. QED BY <1>1, <1>2, <2>1, <2>2 DEF QueueTypes
<1>8. QED BY <1>3, <1>4, <1>5, <1>6, <1>7, StepShape DEF HeadStays, HeadMoves

LEMMA CycleEndFlags ==
  ASSUME Flags, cm_cycle_end
  PROVE  cycle' \in BOOLEAN /\ motion' \in BOOLEAN /\ lost' \in BOOLEAN /\ stray' \in BOOLEAN
BY DEF Flags, cm_cycle_end

LEMMA LoadFlags ==
  ASSUME Flags, NEW p, Load(p)
  PROVE  /\ cycle' \in BOOLEAN /\ motion' \in BOOLEAN /\ lost' \in BOOLEAN /\ stray' \in BOOLEAN
         /\ playing' \in BOOLEAN /\ toolhead_busy' \in BOOLEAN /\ execPending' \in BOOLEAN
<1>1. /\ cycle' \in BOOLEAN /\ motion' \in BOOLEAN /\ lost' \in BOOLEAN /\ stray' \in BOOLEAN
  BY CycleEndFlags DEF Flags, Load, FreeCommand, history
<1>2. playing' \in BOOLEAN /\ execPending' \in BOOLEAN
  BY DEF Load
<1>3. toolhead_busy' \in BOOLEAN
  <2>1. toolhead_busy' \in IF p.what = "command" THEN BOOLEAN ELSE {FALSE}
    BY DEF Load
  <2>2. QED BY <2>1
<1>4. QED BY <1>1, <1>2, <1>3

LEMMA ExecFlags ==
  ASSUME Flags, mp_exec_move
  PROVE  /\ cycle' \in BOOLEAN /\ motion' \in BOOLEAN /\ lost' \in BOOLEAN /\ stray' \in BOOLEAN
         /\ planPending' \in BOOLEAN
<1>1. CASE ExecNothing
  BY <1>1 DEF ExecNothing, Flags, history
<1>2. CASE ExecSegment
  <2>1. planPending' \in BOOLEAN
    BY <1>2 DEF ExecSegment, Flags, Planned
  <2>2. CASE cm_cycle_end
    BY <2>1, <2>2, CycleEndFlags
  <2>3. CASE motion' = TRUE /\ UNCHANGED <<cycle, history>>
    BY <2>1, <2>3 DEF Flags, history
  <2>4. QED BY <1>2, <2>2, <2>3 DEF ExecSegment
<1>3. CASE ExecOutOfCycle
  BY <1>3 DEF ExecOutOfCycle, Flags, history, Planned
<1>4. CASE ExecCommand
  BY <1>4 DEF ExecCommand, Flags, history
<1>5. CASE ExecDwell
  BY <1>5, CycleEndFlags DEF ExecDwell, FreeCommand, Flags, history
<1>6. QED BY <1>1, <1>2, <1>3, <1>4, <1>5 DEF mp_exec_move, ExecMove

LEMMA FlagsStay ==
  ASSUME Flags, [Next]_vars PROVE Flags'
<1>1. CASE StartMove \/ StartZeroLengthMove
  <2>1. cm_cycle_start
    BY <1>1 DEF StartMove, StartZeroLengthMove
  <2>2. QED BY <2>1 DEF Flags, cm_cycle_start, runtime, history
<1>14. CASE ToolheadReady
  BY <1>14 DEF Flags, ToolheadReady, mainVars, history
<1>15. CASE UNCHANGED vars
  BY <1>15 DEF Flags, vars, mainVars, runtime, history
<1>12. ASSUME NEW timed_out \in BOOLEAN, mp_planner_callback(timed_out) PROVE Flags'
  <2>1. block_timeout' \in BOOLEAN
    <3>1. block_timeout' = block_timeout \/ block_timeout' = (block_timeout /\ ~ timed_out)
      BY <1>12, Zenon DEF mp_planner_callback
    <3>2. QED BY <3>1 DEF Flags
  <2>2. UNCHANGED <<cycle, motion, runtime, load_requested, execPending, planPending, history>>
    BY <1>12 DEF mp_planner_callback
  <2>3. QED BY <2>1, <2>2 DEF Flags, runtime, history
<1>13. CASE PlannerCallback \/ PlannerTimeout
  BY <1>12, <1>13 DEF PlannerCallback, PlannerTimeout
<1>16. ASSUME NEW kind, Commit(kind) PROVE Flags'
  <2>1. block_timeout' \in BOOLEAN /\ planPending' \in BOOLEAN
    BY <1>16 DEF Commit, Flags
  <2>2. QED BY <1>16, <2>1 DEF Commit, Flags, runtime, history
<1>2. CASE CommitMove \/ QueueCommand
  BY <1>2, <1>16 DEF CommitMove, QueueCommand
<1>3. CASE EndZeroLengthMove
  BY <1>3, CycleEndFlags DEF Flags, EndZeroLengthMove, runtime, history
<1>4. CASE PlanBlock
  BY <1>4 DEF Flags, PlanBlock, runtime, history
<1>5. CASE CheckLoadMove
  BY <1>5, LoadFlags DEF Flags, CheckLoadMove, mainVars
<1>6. CASE ForwardPlan
  <2>1. execPending' \in BOOLEAN
    BY <1>6 DEF ForwardPlan, Flags
  <2>2. QED BY <1>6, <2>1 DEF ForwardPlan, Flags, mainVars, runtime, history
<1>7. CASE ForwardPlanned
  BY <1>7 DEF Flags, ForwardPlanned, mainVars, runtime, history
<1>8. CASE Exec
  BY <1>8, ExecFlags DEF Flags, Exec, mainVars, history
<1>9. CASE HandOver
  BY <1>9, LoadFlags DEF Flags, HandOver, mainVars, history
<1>10. CASE RunDone
  BY <1>10, LoadFlags DEF Flags, RunDone, mainVars, history
<1>11. QED
  BY <1>1, <1>2, <1>3, <1>4, <1>5, <1>6, <1>7, <1>8, <1>9, <1>10, <1>13, <1>14, <1>15 DEF Next

LEMMA NullIsPrep == NullPrep \in Prep
BY SizeAssumption DEF NullPrep, Prep

LEMMA ExecOther ==
  ASSUME OtherTypes, mp_exec_move
  PROVE  /\ prep' \in Prep /\ execAt' \in {"out", "handover"} /\ unloaded' \in Int
<1>1. ASSUME NEW what \in {"line", "dwell", "command"}, NEW k \in 0 .. 1, PrepareFor(what, k)
      PROVE  /\ prep' \in Prep /\ execAt' \in {"out", "handover"} /\ unloaded' \in Int
  <2>1. k \in 0 .. FullAt
    BY <1>1, SizeAssumption
  <2>2. [owner |-> "loader", what |-> what, at |-> k] \in Prep
    BY <1>1, <2>1 DEF Prep
  <2>3. prep' \in Prep
    BY <1>1, <2>2 DEF PrepareFor
  <2>4. unloaded \in Int
    BY DEF OtherTypes
  <2>5. unloaded' \in Int
    BY <1>1, <2>4 DEF PrepareFor
  <2>6. execAt' = "handover"
    BY <1>1 DEF PrepareFor
  <2>7. QED BY <2>3, <2>5, <2>6
<1>2. CASE ExecNothing
  BY <1>2 DEF ExecNothing, PrepNull, Prep, OtherTypes
<1>3. CASE ExecSegment
  <2>1. PrepareFor("line", 0)
    BY <1>3 DEF ExecSegment
  <2>2. QED BY <1>1, <2>1
<1>4. CASE ExecOutOfCycle
  BY <1>4 DEF ExecOutOfCycle, OtherTypes
<1>5. CASE ExecCommand
  BY <1>1, <1>5 DEF ExecCommand
<1>6. CASE ExecDwell
  BY <1>1, <1>6 DEF ExecDwell
<1>7. QED BY <1>2, <1>3, <1>4, <1>5, <1>6 DEF mp_exec_move, ExecMove

LEMMA LoadOther ==
  ASSUME OtherTypes, NEW p, Load(p) PROVE prep' \in Prep /\ unloaded' \in Int
<1>1. prep' = NullPrep /\ unloaded' = (IF p.what = "null" THEN unloaded ELSE unloaded - 1)
  BY DEF Load, NullPrep
<1>2. prep' \in Prep
  BY <1>1, NullIsPrep
<1>3. unloaded \in Int
  BY DEF OtherTypes
<1>4. unloaded' \in Int
  BY <1>1, <1>3
<1>5. QED BY <1>2, <1>4

LEMMA OtherTypesStay ==
  ASSUME OtherTypes, [Next]_vars PROVE OtherTypes'
<1>1. CASE StartMove \/ StartZeroLengthMove \/ ToolheadReady
           \/ PlannerCallback \/ PlannerTimeout \/ UNCHANGED vars
  BY <1>1 DEF OtherTypes, StartMove, StartZeroLengthMove, cm_cycle_start, ToolheadReady,
     PlannerCallback, PlannerTimeout, mp_planner_callback, vars, mainVars, runtime
<1>2. CASE CommitMove \/ QueueCommand
  BY <1>2 DEF OtherTypes, CommitMove, QueueCommand, Commit, runtime
<1>3. CASE EndZeroLengthMove
  BY <1>3 DEF OtherTypes, EndZeroLengthMove, runtime
<1>4. CASE PlanBlock
  BY <1>4 DEF OtherTypes, PlanBlock, runtime
<1>5. CASE CheckLoadMove
  BY <1>5, LoadOther DEF OtherTypes, CheckLoadMove, mainVars
<1>6. CASE ForwardPlan
  BY <1>6 DEF ForwardPlan, OtherTypes, mainVars, runtime
<1>7. CASE ForwardPlanned
  BY <1>7 DEF OtherTypes, ForwardPlanned, mainVars, runtime
<1>8. CASE Exec
  BY <1>8, ExecOther DEF OtherTypes, Exec, mainVars
<1>9. CASE HandOver
  <2>1. [prep EXCEPT !.owner = "loader"] \in Prep
    BY DEF OtherTypes, Prep
  <2>2. prep' \in Prep /\ unloaded' \in Int
    BY <1>9, <2>1, LoadOther DEF HandOver, OtherTypes
  <2>3. QED BY <1>9, <2>2 DEF HandOver, OtherTypes, mainVars
<1>10. CASE RunDone
  BY <1>10, LoadOther DEF OtherTypes, RunDone, mainVars
<1>11. QED BY <1>1, <1>2, <1>3, <1>4, <1>5, <1>6, <1>7, <1>8, <1>9, <1>10 DEF Next

LEMMA TypesStay ==
  ASSUME PipeInv, [Next]_vars PROVE TypeOK'
<1>1. OtherTypes /\ Flags
  BY TypeParts DEF PipeInv
<1>2. OtherTypes' /\ Flags'
  BY <1>1, OtherTypesStay, FlagsStay
<1>3. QED BY <1>2, QueueTypesStay, TypeParts

---------------------------------------------------------------------------
(* The prep buffer and the head of the queue *)

\* Only a commit makes the queue longer, or brings a block of another kind.
LEMMA OnlyCommitGrows ==
  ASSUME PipeInv, [Next]_vars, ~ Grown
  PROVE  Len(queue') <= Len(queue) /\ NoNewKinds
<1>1. QueueInv /\ Len(queue) \in Nat
  BY PipeIsQueueInv, QueueFacts DEF QueueInv
<1>2. CASE Same
  BY <1>1, <1>2 DEF Same, NoNewKinds
<1>3. CASE BackPlannedOne \/ NowPlanned \/ RunsOn \/ RunsNot
  BY <1>1, <1>3, RestatedSteps
<1>4. CASE Freed \/ RunsOut
  BY <1>1, <1>4, TailSteps
<1>5. ASSUME NEW move, Marks(move) PROVE Len(queue') <= Len(queue) /\ NoNewKinds
  BY <1>1, <1>5, MarkingSteps
<1>6. QED BY <1>2, <1>3, <1>4, <1>5, StepShape DEF HeadStays, HeadMoves

\* A line that is being queued finds the room that was there when its cycle
\* started.
LEMMA RoomStays ==
  ASSUME PipeInv, [Next]_vars PROVE Room'
<1>1. Room /\ Len(queue) \in Nat /\ FullAt \in Nat
  BY PipeIsQueueInv, QueueFacts, SizeAssumption DEF PipeInv, QueueInv
<1>2. CASE Grown
  BY <1>2 DEF Grown, Room
<1>3. CASE StartMove
  BY <1>3 DEF StartMove, cm_cycle_start, Room
<1>4. CASE ~ Grown /\ ~ StartMove
  <2>1. mainAt' = "aline" => mainAt = "aline"
    BY <1>4 DEF Next, vars, mainVars, StartZeroLengthMove, ToolheadReady,
       CommitMove, QueueCommand, Commit, EndZeroLengthMove, PlannerCallback, PlannerTimeout,
       mp_planner_callback, PlanBlock, CheckLoadMove, ForwardPlan, ForwardPlanned, Exec,
       HandOver, RunDone
  <2>2. Len(queue') <= Len(queue)
    BY <1>4, OnlyCommitGrows
  <2>3. queue' \in Seq(Block)
    BY QueueTypesStay DEF QueueTypes
  <2>4. Len(queue') \in Nat
    BY <2>3, QueueFacts
  <2>5. QED BY <1>1, <2>1, <2>2, <2>4 DEF Room
<1>5. QED BY <1>2, <1>3, <1>4

LEMMA LoadPrepared ==
  ASSUME Prepared, NEW p, p.what = prep.what, Load(p)
  PROVE  Prepared'
BY DEF Prepared, PreparedIsLoadedOnce, Load

LEMMA ExecPrepared ==
  ASSUME PipeInv, prep.owner = "exec", mp_exec_move PROVE Prepared'
<1>1. prep \in Prep /\ prep.what = "null" /\ unloaded = 0
  BY TypeParts DEF PipeInv, OtherTypes, Prepared, PreparedIsLoadedOnce
<1>2. ASSUME NEW what \in {"line", "dwell", "command"}, NEW k, PrepareFor(what, k)
      PROVE  Prepared'
  <2>1. unloaded' = 1 /\ prep' = [owner |-> "loader", what |-> what, at |-> k]
    BY <1>1, <1>2 DEF PrepareFor
  <2>2. QED BY <1>2, <2>1 DEF Prepared, PreparedIsLoadedOnce
<1>3. CASE ExecNothing
  BY <1>1, <1>3 DEF ExecNothing, PrepNull, Prep, Prepared, PreparedIsLoadedOnce
<1>4. CASE ExecSegment
  <2>1. PrepareFor("line", 0)
    BY <1>4 DEF ExecSegment
  <2>2. QED BY <1>2, <2>1
<1>5. CASE ExecOutOfCycle
  BY <1>1, <1>5 DEF ExecOutOfCycle, Prepared, PreparedIsLoadedOnce
<1>6. CASE ExecCommand
  BY <1>2, <1>6 DEF ExecCommand
<1>7. CASE ExecDwell
  BY <1>2, <1>7 DEF ExecDwell
<1>8. QED BY <1>3, <1>4, <1>5, <1>6, <1>7 DEF mp_exec_move, ExecMove

\* exec prepares only what it owns, and it owns only what is empty.
LEMMA PreparedStays ==
  ASSUME PipeInv, [Next]_vars PROVE Prepared'
<1>1. Prepared /\ prep \in Prep
  BY TypeParts DEF PipeInv, OtherTypes
<1>2. CASE UNCHANGED <<prep, unloaded>>
  BY <1>1, <1>2 DEF Prepared, PreparedIsLoadedOnce
<1>3. CASE Exec
  BY <1>2, <1>3, ExecPrepared DEF Exec
<1>4. CASE HandOver
  <2> DEFINE mine == [prep EXCEPT !.owner = "loader"]
  <2>1. mine.what = prep.what /\ mine.owner = "loader"
    BY <1>1 DEF Prep
  <2>2. (prep' = mine /\ unloaded' = unloaded) \/ Load(mine)
    BY <1>4 DEF HandOver
  <2> HIDE DEF mine
  <2>3. CASE prep' = mine /\ unloaded' = unloaded
    BY <1>1, <2>1, <2>3 DEF Prepared, PreparedIsLoadedOnce
  <2>4. QED BY <1>1, <2>1, <2>2, <2>3, LoadPrepared
<1>5. CASE RunDone \/ CheckLoadMove
  BY <1>1, <1>2, <1>5, LoadPrepared DEF RunDone, CheckLoadMove
<1>6. CASE ~ (Exec \/ HandOver \/ RunDone \/ CheckLoadMove)
  <2>1. UNCHANGED <<prep, unloaded>>
    BY <1>6 DEF Next, vars, runtime, StartMove, StartZeroLengthMove, cm_cycle_start,
       ToolheadReady, CommitMove, QueueCommand, Commit, EndZeroLengthMove, PlannerCallback,
       PlannerTimeout, mp_planner_callback, PlanBlock, ForwardPlan, ForwardPlanned
  <2>2. QED BY <1>2, <2>1
<1>7. QED BY <1>3, <1>4, <1>5, <1>6

\* The command that is staged stays the head of the queue until it is loaded.
LEMMA StagedStays ==
  ASSUME PipeInv, [Next]_vars PROVE StagedCommandIsRunBlock'
<1>1. QueueInv /\ HeadRuns
  BY PipeIsQueueInv DEF PipeInv
<1>2. CASE prep'.what # "command"
  BY <1>2 DEF StagedCommandIsRunBlock
<1>3. CASE HeadStays /\ Staging /\ prep'.what = "command"
  <2>1. prep'.at = 1 /\ queue # <<>> /\ queue[1].kind = "command" /\ segments = 0
    <3>1. CASE prep'.what = prep.what /\ prep'.at = prep.at
      BY <1>3, <3>1 DEF PipeInv, StagedCommandIsRunBlock
    <3>2. CASE prep'.at = 1 /\ queue # <<>> /\ queue[1].kind = "command"
      <4>1. 1 \in DOMAIN queue
        BY <1>1, <3>2, QueueFacts DEF QueueInv
      <4>2. QED BY <1>1, <3>2, <4>1 DEF QueueInv, HeadRuns
    <3>3. QED BY <1>3, <3>1, <3>2 DEF Staging
  <2>2. SameHead /\ segments' = segments
    <3>1. CASE Same
      BY <3>1 DEF Same, SameHead
    <3>2. CASE Grown
      BY <1>1, <3>2, GrownSteps DEF Grown
    <3>3. CASE BackPlannedOne \/ NowPlanned
      BY <1>1, <3>3, RestatedSteps DEF BackPlannedOne, NowPlanned
    <3>4. ASSUME NEW move, Marks(move) PROVE SameHead /\ segments' = segments
      BY <1>1, <3>4, MarkingSteps DEF Marks
    <3>5. QED BY <1>3, <3>1, <3>2, <3>3, <3>4 DEF HeadStays
  <2>3. QED BY <2>1, <2>2 DEF SameHead, StagedCommandIsRunBlock
<1>4. QED BY <1>2, <1>3, StepShape

LEMMA HeadStaysInOrder ==
  ASSUME PipeInv, [Next]_vars
  PROVE  /\ HeadRuns' /\ BeingPlanned'
         /\ InSequence /\ (RunsNot => cycle) => InSequence'
<1>1. QueueInv
  BY PipeIsQueueInv
<1>2. CASE Same \/ Grown \/ BackPlannedOne \/ Freed \/ NowPlanned \/ RunsOn \/ RunsOut
  BY <1>1, <1>2, SameKeeps, GrownKeeps, BackPlannedKeeps, FreedKeeps, NowPlannedKeeps,
     RunsOnKeeps, RunsOutKeeps DEF QueueKept
<1>3. CASE \E move : Marks(move)
  BY <1>1, <1>3, MarksKeep DEF QueueKept
<1>4. CASE RunsNot /\ ~ cycle
  BY <1>1, <1>4, RunningKeepsTheHead DEF RunsNot
<1>5. QED BY <1>2, <1>3, <1>4, StepShape DEF HeadStays, HeadMoves

LEMMA PipeInvStays ==
  ASSUME PipeInv, [Next]_vars PROVE PipeInv'
BY TypesStay, RoomStays, PreparedStays, StagedStays, HeadStaysInOrder DEF PipeInv

---------------------------------------------------------------------------
(* Moves and their cycle, moves and their ramps *)

\* A cycle that ends with the last block is lost to the line that is being
\* queued, and the model remembers it.
CycleGoesOn == ~ lost /\ (cycle' = cycle \/ cycle' = TRUE)
CycleIsOver == ~ lost /\ queue' = <<>> /\ ~ (cycle /\ mainAt = "aline")
CycleStep == lost' \/ CycleGoesOn \/ CycleIsOver

LEMMA CycleEndStep ==
  ASSUME Flags, cm_cycle_end, queue' = <<>> PROVE CycleStep
BY DEF Flags, cm_cycle_end, CycleStep, CycleIsOver

LEMMA CycleUnchanged ==
  ASSUME Flags, UNCHANGED <<cycle, lost>> PROVE CycleStep
BY DEF Flags, CycleStep, CycleGoesOn

LEMMA TailOfOne ==
  ASSUME queue \in Seq(Block), Len(queue) = 1 PROVE Tail(queue) = <<>>
<1>1. queue # <<>>
  BY EmptySeq
<1>2. Tail(queue) \in Seq(Block) /\ Len(Tail(queue)) = 0
  BY <1>1, TailFacts
<1>3. QED BY <1>2, EmptySeq

LEMMA FreeCommandCycle ==
  ASSUME Flags, queue \in Seq(Block), FreeCommand PROVE CycleStep
<1>1. CASE Len(queue) = 1
  BY <1>1, TailOfOne, CycleEndStep DEF FreeCommand, FreeBlock
<1>2. CASE Len(queue) # 1
  BY <1>2, CycleUnchanged DEF FreeCommand, history
<1>3. QED BY <1>1, <1>2

LEMMA LoadCycle ==
  ASSUME Flags, queue \in Seq(Block), NEW p, Load(p) PROVE CycleStep
BY FreeCommandCycle, CycleUnchanged DEF Load, history

LEMMA ExecCycle ==
  ASSUME Flags, queue \in Seq(Block), mp_exec_move PROVE CycleStep
<1>1. CASE UNCHANGED <<cycle, lost>>
  BY <1>1, CycleUnchanged
<1>2. CASE ExecSegment
  <2>1. \/ UNCHANGED <<cycle, lost>>
        \/ Len(queue) = 1 /\ queue' = Tail(queue) /\ cm_cycle_end
    BY <1>2 DEF ExecSegment, history
  <2>2. QED BY <1>1, <2>1, TailOfOne, CycleEndStep
<1>3. CASE ExecDwell
  BY <1>3, FreeCommandCycle DEF ExecDwell
<1>4. CASE ExecNothing \/ ExecCommand \/ ExecOutOfCycle
  BY <1>1, <1>4 DEF ExecNothing, ExecCommand, ExecOutOfCycle, history
<1>5. QED BY <1>2, <1>3, <1>4 DEF mp_exec_move, ExecMove

LEMMA CycleSteps ==
  ASSUME PipeInv, [Next]_vars PROVE CycleStep
<1>1. Flags /\ queue \in Seq(Block)
  BY TypeParts DEF PipeInv, QueueTypes
<1>2. CASE UNCHANGED <<cycle, lost>>
  BY <1>1, <1>2, CycleUnchanged
<1>3. CASE StartMove \/ StartZeroLengthMove
  BY <1>1, <1>3 DEF StartMove, StartZeroLengthMove, cm_cycle_start, history, Flags, CycleStep,
     CycleGoesOn
<1>4. CASE EndZeroLengthMove
  <2>1. (queue' = <<>> /\ cm_cycle_end) \/ UNCHANGED <<cycle, lost>>
    BY <1>4 DEF EndZeroLengthMove, history
  <2>2. QED BY <1>1, <1>2, <2>1, CycleEndStep
<1>5. CASE Exec
  BY <1>1, <1>2, <1>5, ExecCycle DEF Exec, history
<1>6. CASE HandOver \/ RunDone \/ CheckLoadMove
  BY <1>1, <1>2, <1>6, LoadCycle DEF HandOver, RunDone, CheckLoadMove, history
<1>7. CASE CommitMove \/ QueueCommand \/ ToolheadReady \/ PlannerCallback \/ PlannerTimeout
           \/ PlanBlock \/ ForwardPlan \/ ForwardPlanned \/ UNCHANGED vars
  BY <1>2, <1>7 DEF vars, history, CommitMove, QueueCommand, Commit, ToolheadReady,
     PlannerCallback, PlannerTimeout, mp_planner_callback, PlanBlock, ForwardPlan,
     ForwardPlanned
<1>8. QED BY <1>3, <1>4, <1>5, <1>6, <1>7 DEF Next

LEMMA InCycleStays ==
  ASSUME PipeInv, InCycle, [Next]_vars PROVE InCycle'
<1>1. CASE lost'
  BY <1>1 DEF InCycle
<1>2. CASE StartMove
  BY <1>2 DEF StartMove, cm_cycle_start, InCycle
<1>3. CASE ~ lost' /\ ~ StartMove
  <2>1. /\ ~ lost /\ (mainAt = "aline" => cycle)
        /\ \A k \in DOMAIN queue : queue[k].kind = "move" => cycle
    BY <1>3, CycleSteps DEF CycleStep, CycleGoesOn, CycleIsOver, InCycle
  <2>2. mainAt' = "aline" => mainAt = "aline"
    BY <1>3 DEF Next, vars, mainVars, StartZeroLengthMove, ToolheadReady,
       CommitMove, QueueCommand, Commit, EndZeroLengthMove, PlannerCallback, PlannerTimeout,
       mp_planner_callback, PlanBlock, CheckLoadMove, ForwardPlan, ForwardPlanned, Exec,
       HandOver, RunDone
  <2>3. CASE CycleIsOver
    <3>1. queue' = <<>> /\ mainAt # "aline"
      BY <2>1, <2>3 DEF CycleIsOver
    <3>2. DOMAIN queue' = {}
      BY <3>1
    <3>3. QED BY <2>2, <3>1, <3>2 DEF InCycle
  <2>4. CASE CycleGoesOn
    <3>1. cycle => cycle'
      BY <2>4 DEF CycleGoesOn
    <3>2. CASE Grown
      <4>1. PICK b \in Block : /\ queue' = Append(queue, b) /\ mainAt' = "ready"
                               /\ b.kind = "move" => mainAt = "aline"
        BY <3>2 DEF Grown
      <4>2. queue \in Seq(Block)
        BY TypeParts DEF PipeInv, QueueTypes
      <4>3. /\ DOMAIN queue' = 1 .. Len(queue) + 1 /\ Len(queue) \in Nat
            /\ DOMAIN queue = 1 .. Len(queue)
            /\ \A k \in 1 .. Len(queue) : queue'[k] = queue[k]
            /\ queue'[Len(queue) + 1] = b
        BY <4>1, <4>2, AppendFacts, QueueFacts
      <4>4. \A k \in DOMAIN queue' : queue'[k].kind = "move" => cycle
        BY <2>1, <4>1, <4>3
      <4>5. QED BY <2>1, <2>2, <3>1, <4>4 DEF InCycle
    <3>3. CASE ~ Grown
      <4>1. \A k \in DOMAIN queue' : queue'[k].kind = "move" => cycle
        BY <2>1, <3>3, OnlyCommitGrows DEF NoNewKinds
      <4>2. QED BY <2>1, <2>2, <3>1, <4>1 DEF InCycle
    <3>4. QED BY <3>2, <3>3
  <2>5. QED BY <1>3, <2>3, <2>4, CycleSteps DEF CycleStep
<1>4. QED BY <1>1, <1>2, <1>3

LEMMA RampInvStays ==
  ASSUME PipeInv, RampInv, [Next]_vars PROVE RampInv'
<1>1. InCycle'
  BY InCycleStays DEF RampInv
<1>2. ASSUME ~ lost' PROVE InSequence'
  <2>1. ~ lost
    BY <1>2, CycleSteps DEF CycleStep, CycleGoesOn, CycleIsOver
  <2>2. RunsNot => cycle
    <3>1. RunsNot => 1 \in DOMAIN queue /\ queue[1].kind = "move"
      BY HeadIsNotBeingPlanned, PipeIsQueueInv DEF RunsNot, HeadIsPlannedMove
    <3>2. QED BY <2>1, <3>1 DEF RampInv, InCycle
  <2>3. QED BY <2>1, <2>2, HeadStaysInOrder DEF RampInv
<1>3. QED BY <1>1, <1>2 DEF RampInv

---------------------------------------------------------------------------
(* Theorems *)

LEMMA InitialState ==
  ASSUME Init PROVE PipeInv /\ RampInv
<1>1. QueueTypes
  <2>1. <<>> \in Seq(Block) /\ Len(<<>>) = 0 /\ FullAt \in Nat /\ MaxSegments \in Nat
    BY SizeAssumption, EmptySeq
  <2>2. queue = <<>> /\ ramps = 0 /\ planAt = 0 /\ segments = 0
    BY DEF Init
  <2>3. QED BY <2>1, <2>2 DEF QueueTypes
<1>2. OtherTypes /\ Flags
  <2>1. prep = NullPrep
    BY DEF Init, NullPrep
  <2>2. OtherTypes
    BY <2>1, NullIsPrep DEF Init, OtherTypes
  <2>3. QED BY <2>2 DEF Init, Flags
<1>3. DOMAIN queue = {} /\ queue = <<>>
  BY DEF Init
<1>4. Room /\ Prepared /\ StagedCommandIsRunBlock /\ HeadRuns /\ BeingPlanned
  BY <1>3 DEF Init, Room, Prepared, PreparedIsLoadedOnce, StagedCommandIsRunBlock, HeadRuns,
     BeingPlanned
<1>5. RampInv
  BY <1>3 DEF Init, RampInv, InCycle, InSequence
<1>6. QED BY <1>1, <1>2, <1>4, <1>5, TypeParts DEF PipeInv

LEMMA PipeInvIsInvariant == Spec => []PipeInv
<1>1. Init => PipeInv
  BY InitialState
<1>2. PipeInv /\ [Next]_vars => PipeInv'
  BY PipeInvStays
<1>3. QED BY <1>1, <1>2, PTL DEF Spec

LEMMA RampInvIsInvariant == Spec => []RampInv
<1>1. Init => RampInv
  BY InitialState
<1>2. PipeInv /\ RampInv /\ [Next]_vars => RampInv'
  BY RampInvStays
<1>3. QED BY <1>1, <1>2, PipeInvIsInvariant, PTL DEF Spec

\* The variables keep their types; in particular the queue never grows beyond
\* what mp_planner_is_full() allows, although a line that is being queued does
\* not look again.
THEOREM TypeCorrect == Spec => []TypeOK
<1>1. PipeInv => TypeOK
  BY DEF PipeInv
<1>2. QED BY <1>1, PipeInvIsInvariant, PTL

\* What exec prepares the loader loads once, in whatever order the exec, the
\* DDA and the main loop get to the prep buffer.
THEOREM PreparedOnce == Spec => []PreparedIsLoadedOnce
<1>1. PipeInv => PreparedIsLoadedOnce
  BY DEF PipeInv, Prepared
<1>2. QED BY <1>1, PipeInvIsInvariant, PTL

\* The block that mp_runtime_command() frees is the one whose command it runs.
THEOREM StagedIsRunBlock == Spec => []StagedCommandIsRunBlock
<1>1. PipeInv => StagedCommandIsRunBlock
  BY DEF PipeInv
<1>2. QED BY <1>1, PipeInvIsInvariant, PTL

\* One block at most is running, at the head of the queue, and while it has
\* segments left it stays there.
THEOREM HeadAloneRuns == Spec => []OnlyHeadRuns
<1>1. PipeInv => OnlyHeadRuns
  BY DEF PipeInv, HeadRuns, OnlyHeadRuns
<1>2. QED BY <1>1, PipeInvIsInvariant, PTL

\* No move waits outside a cycle, but for a cycle that ended between its start
\* and the commit of its move.
THEOREM MovesStayInCycle == Spec => []MovesAreInCycle
<1>1. RampInv => MovesAreInCycle
  BY DEF RampInv, InCycle, MovesAreInCycle
<1>2. QED BY <1>1, RampInvIsInvariant, PTL

\* The one set of ramps in mr->p is that of the move that starts next, however
\* the planning interrupt falls between the segments.
THEOREM RampsAreThere == Spec => []NextMoveHasItsRamps
<1>1. PipeInv /\ RampInv => NextMoveHasItsRamps
  <2>1. SUFFICES ASSUME PipeInv, RampInv, ~ lost, NEW k \in DOMAIN queue,
                        queue[k].kind = "move",
                        \/ queue[k].state = FULLY_PLANNED
                        \/ (queue[k].state = RUNNING /\ segments = 0)
                 PROVE  ramps = k
    BY DEF NextMoveHasItsRamps
  <2>2. InSequence
    BY <2>1 DEF RampInv
  <2>3. queue[k].state # RUNNING \/ segments # 0
    <3>1. queue # <<>>
      BY <2>1
    <3>2. queue[k].state = RUNNING => k = 1
      BY <2>1 DEF PipeInv, HeadRuns
    <3>3. QED BY <2>2, <3>1, <3>2 DEF InSequence
  <2>4. QED BY <2>1, <2>2, <2>3 DEF InSequence
<1>2. QED BY <1>1, PipeInvIsInvariant, RampInvIsInvariant, PTL
===========================================================================
