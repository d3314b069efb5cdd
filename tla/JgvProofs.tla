----------------------------- MODULE JgvProofs -----------------------------
(***************************************************************************)
(* What holds of velocity-mode jogging for all speeds, ramps, positions,   *)
(* depths and times.  Calm is what a jog keeps to as long as no hold,      *)
(* alarm or homing has caught one; Paced relates the pace of the commits   *)
(* to the planner's block timer.                                           *)
(***************************************************************************)
EXTENDS Jgv, SequenceTheorems, TLAPS

\* A machine that a jog has left, or has never had
Free(m) == m.modes = "job" /\ m.cycle # "JGV"

Joined(p) == ~ p.apart /\ \A k \in DOMAIN p.queue : p.queue[k]

\* The second planner is the current one from the stop to the return.
HeldInP2 == cm = 2 <=> hold \in {"HOLD", "RETURNING"}

Calm ==
  /\ active =>
       /\ hold \in {"OFF", "HOLD"} /\ mc.cycle = "JGV" /\ mc.state = "CYCLE"
       /\ saved = "job" /\ ~ slipped /\ Joined(mp)
  /\ ~ active => Free(mc)
  /\ ~ active \/ cm = 2 => Free(cms[1])

JogInv == TypeOK /\ HeldInP2 /\ (~ upset => Calm)

\* By so many ticks the pace of the commits is longer than the block timer.
Margin == StartupPace - BlockTimeout

\* Are there moves queued that the planner still holds back?
Starting == mp.queue # <<>> /\ mp.state # "PRIMING"

Paced ==
  active =>
    /\ Len(mp.queue) <= Depth
    /\ Starting => mp.timeout >= 0 /\ (mp.timeout > 0 => pace = mp.timeout + Margin)
    /\ Starting /\ at = "cycle" => pace + elapsed > Margin

LagInv == ~ upset => Paced

---------------------------------------------------------------------------
(* Planners and machines keep their types *)

LEMMA PlannerFields ==
  ASSUME NEW p \in Planner
  PROVE  /\ p.queue \in Seq(BOOLEAN) /\ Len(p.queue) \in Nat /\ p.apart \in BOOLEAN
         /\ p.state \in {"IDLE", "STARTUP", "PRIMING"}
         /\ p.timeout \in Cleared .. BlockTimeout
BY LenProperties DEF Planner

LEMMA EmptiedIsPlanner == Emptied \in Planner /\ Emptied.queue = <<>> /\ Len(Emptied.queue) = 0
<1>1. <<>> \in Seq(BOOLEAN) /\ Len(<<>>) = 0
  BY EmptySeq
<1>2. Cleared \in Cleared .. BlockTimeout
  BY TimeAssumption DEF Cleared
<1>3. QED BY <1>1, <1>2 DEF Emptied, Planner

LEMMA WithMoveIsPlanner ==
  ASSUME NEW p \in Planner
  PROVE  /\ WithMove(p) \in Planner
         /\ WithMove(p).queue = Append(p.queue, ~ p.apart)
         /\ Len(WithMove(p).queue) = Len(p.queue) + 1
         /\ WithMove(p).apart = FALSE /\ WithMove(p).state = p.state
         /\ WithMove(p).timeout = BlockTimeout
<1>1. /\ p.queue \in Seq(BOOLEAN) /\ (~ p.apart) \in BOOLEAN
      /\ p.state \in {"IDLE", "STARTUP", "PRIMING"}
  BY PlannerFields
<1>2. /\ Append(p.queue, ~ p.apart) \in Seq(BOOLEAN)
      /\ Len(Append(p.queue, ~ p.apart)) = Len(p.queue) + 1
  BY <1>1, AppendProperties
<1>3. BlockTimeout \in Cleared .. BlockTimeout
  BY TimeAssumption DEF Cleared
<1> DEFINE q == Append(p.queue, ~ p.apart)
<1>4. WithMove(p) = [p EXCEPT !.queue = q, !.apart = FALSE, !.timeout = BlockTimeout]
  BY DEF WithMove, Planner
<1> HIDE DEF q
<1>5. WithMove(p) = [queue |-> q, apart |-> FALSE,
                     state |-> p.state, timeout |-> BlockTimeout]
  BY <1>4 DEF Planner
<1>6. QED BY <1>1, <1>2, <1>3, <1>5 DEF Planner, q

LEMMA MachineKept ==
  ASSUME NEW m \in Machine
  PROVE  /\ Started(m) \in Machine /\ Ended(m) \in Machine
         /\ saved \in {"job", "jog"} => Released(m) \in Machine
         /\ \A b \in BOOLEAN : /\ [m EXCEPT !.moving = b] \in Machine
                              /\ Ended([m EXCEPT !.moving = b]) \in Machine
BY DEF Machine, Started, Ended, Released

---------------------------------------------------------------------------
(* Types *)

Planners == mps \in [1 .. 2 -> Planner] /\ \A p \in 1 .. 2 : Len(mps[p].queue) <= FullAt

LEMMA OnePlanner ==
  ASSUME Planners, NEW q \in 1 .. 2, NEW P \in Planner, Len(P.queue) <= FullAt,
         mps' = [mps EXCEPT ![q] = P]
  PROVE  Planners'
BY DEF Planners

LEMMA OneMove ==
  ASSUME Planners, NEW q \in 1 .. 2, Len(mps[q].queue) < FullAt,
         mps' = [mps EXCEPT ![q] = WithMove(@)]
  PROVE  Planners'
<1>1. mps[q] \in Planner /\ Len(mps[q].queue) \in Nat /\ FullAt \in Nat
  BY PlannerFields, DepthAssumption DEF Planners
<1>2. WithMove(mps[q]) \in Planner /\ Len(WithMove(mps[q]).queue) <= FullAt
  <2>1. /\ WithMove(mps[q]) \in Planner
        /\ Len(WithMove(mps[q]).queue) = Len(mps[q].queue) + 1
    BY <1>1, WithMoveIsPlanner
  <2>2. QED BY <1>1, <2>1
<1>3. mps' = [mps EXCEPT ![q] = WithMove(mps[q])]
  BY DEF Planners
<1>4. QED BY <1>2, <1>3, OnePlanner

LEMMA OneEmptied ==
  ASSUME Planners, NEW q \in 1 .. 2, mps' = [mps EXCEPT ![q] = Emptied]
  PROVE  Planners'
<1>1. Emptied \in Planner /\ Len(Emptied.queue) <= FullAt
  BY EmptiedIsPlanner, DepthAssumption
<1>2. QED BY <1>1, OnePlanner

\* What mp_planner_callback() does to the planner
LEMMA CallbackSets ==
  ASSUME TypeOK, mp_planner_callback
  PROVE  \E st \in {"IDLE", "STARTUP", "PRIMING"}, t \in {Cleared, mp.timeout} :
           /\ mps' = [mps EXCEPT ![cm] = [mp EXCEPT !.state = st, !.timeout = t]]
           /\ \/ st = "PRIMING"
              \/ mp.queue = <<>>
              \/ (mp.state # "PRIMING" /\ mp.timeout # 0 /\ t = mp.timeout)
<1> DEFINE waits == mp.state # "PRIMING" /\ Len(mp.queue) < FullAt /\ mp.timeout # 0
           idle == mp.queue = <<>> /\ ~ mc.moving /\ ~ Holding
<1>1. mps' = [mps EXCEPT ![cm] =
        IF mps[cm].queue = <<>> /\ ~ mc.moving /\ ~ Holding
        THEN [mps[cm] EXCEPT !.state = "IDLE", !.timeout = Cleared]
        ELSE [mps[cm] EXCEPT !.state = IF waits THEN "STARTUP" ELSE "PRIMING",
                             !.timeout = IF waits THEN mps[cm].timeout ELSE Cleared]]
  BY DEF mp_planner_callback, mp
<1>2. mp = mps[cm]
  BY DEF mp
<1>3. CASE idle
  <2>1. mps' = [mps EXCEPT ![cm] = [mp EXCEPT !.state = "IDLE", !.timeout = Cleared]]
    BY <1>1, <1>2, <1>3
  <2>2. mp.queue = <<>>
    BY <1>3
  <2> HIDE DEF idle, waits
  <2> WITNESS "IDLE" \in {"IDLE", "STARTUP", "PRIMING"}, Cleared \in {Cleared, mp.timeout}
  <2>4. QED BY <2>1, <2>2
<1>4. CASE ~ idle /\ waits
  <2>1. mps' = [mps EXCEPT ![cm] = [mp EXCEPT !.state = "STARTUP", !.timeout = mp.timeout]]
    BY <1>1, <1>2, <1>4
  <2>2. QED BY <1>4, <2>1
<1>5. CASE ~ idle /\ ~ waits
  <2>1. mps' = [mps EXCEPT ![cm] = [mp EXCEPT !.state = "PRIMING", !.timeout = Cleared]]
    BY <1>1, <1>2, <1>5
  <2>2. QED BY <2>1
<1>6. QED BY <1>3, <1>4, <1>5

\* What a segment may change
LEMMA SegmentSets ==
  ASSUME TypeOK, Segment
  PROVE  /\ UNCHANGED mps \/ mps' = [mps EXCEPT ![cm] = WithMove(@)]
         /\ target' \in {0, Ordered} /\ current' \in {0, current, Ramped(current, Ordered)}
         /\ planned' \in Everywhere /\ slipped' \in BOOLEAN
         /\ pace' = pace \/ pace' = StartupPace
         /\ UNCHANGED <<hold, upset>> \/ SoftLimit
         /\ UNCHANGED <<active, cms>>
<1> DEFINE v_end == Ramped(current, Ordered)
           distance == current + v_end
<1>1. /\ target' = (IF distance = 0 THEN 0 ELSE Ordered)
      /\ UNCHANGED <<active, cms>>
      /\ \/ current' = 0 /\ UNCHANGED <<planned, slipped, pace, hold, mps, upset>>
         \/ \E to \in Ends(distance) :
              \/ Queue(to) /\ current' = v_end
              \/ Refuse(to) /\ UNCHANGED current
  BY Zenon DEF Segment
<1> HIDE DEF v_end, distance
<1>2. planned \in Everywhere /\ slipped \in BOOLEAN
  BY DEF TypeOK
<1>3. Ends(distance) \subseteq Everywhere
  BY <1>2 DEF Ends
<1>4. CASE current' = 0 /\ UNCHANGED <<planned, slipped, pace, hold, mps, upset>>
  BY <1>1, <1>2, <1>4
<1>5. ASSUME NEW to \in Ends(distance), Queue(to)
      PROVE  /\ pace' = StartupPace /\ planned' = to /\ slipped' \in BOOLEAN
             /\ UNCHANGED <<hold, upset>>
             /\ UNCHANGED mps \/ mps' = [mps EXCEPT ![cm] = WithMove(@)]
  BY <1>5 DEF Queue, Advance, CommitPaced
<1>6. ASSUME NEW to \in Ends(distance), Refuse(to)
      PROVE  SoftLimit /\ UNCHANGED <<planned, slipped, pace, mps>>
  BY <1>6 DEF Refuse
<1>7. QED BY <1>1, <1>2, <1>3, <1>4, <1>5, <1>6 DEF v_end

LEMMA PlannersStay ==
  ASSUME TypeOK, [Next]_vars PROVE Planners'
<1>1. Planners /\ cm \in 1 .. 2 /\ mps[cm] \in Planner /\ mps[1] \in Planner
      /\ mps[2] \in Planner /\ mp = mps[cm]
  BY DEF TypeOK, Planners, mp
<1>2. CASE UNCHANGED mps
  BY <1>1, <1>2 DEF Planners
<1>3. CASE mp_planner_callback
  <2>1. PICK st \in {"IDLE", "STARTUP", "PRIMING"}, t \in {Cleared, mp.timeout} :
          mps' = [mps EXCEPT ![cm] = [mp EXCEPT !.state = st, !.timeout = t]]
    BY <1>3, CallbackSets
  <2>2. t \in Cleared .. BlockTimeout
    BY <1>1, PlannerFields, TimeAssumption DEF Cleared
  <2>3. /\ [mp EXCEPT !.state = st, !.timeout = t] \in Planner
        /\ [mp EXCEPT !.state = st, !.timeout = t].queue = mp.queue
    BY <1>1, <2>1, <2>2 DEF Planner
  <2>4. QED BY <1>1, <2>1, <2>3, OnePlanner DEF Planners
<1>4. CASE RunMove
  <2>1. mps' = [mps EXCEPT ![cm] = [mp EXCEPT !.queue = Tail(mp.queue)]] /\ mp.queue # <<>>
    BY <1>1, <1>4 DEF RunMove, Planners
  <2>2. /\ Tail(mp.queue) \in Seq(BOOLEAN) /\ Len(Tail(mp.queue)) <= FullAt
    <3>1. mp.queue \in Seq(BOOLEAN) /\ Len(mp.queue) \in Nat /\ Len(mp.queue) <= FullAt
      BY <1>1, PlannerFields DEF Planners
    <3>2. Tail(mp.queue) \in Seq(BOOLEAN) /\ Len(Tail(mp.queue)) = Len(mp.queue) - 1
      BY <2>1, <3>1, HeadTailProperties
    <3>3. QED BY <3>1, <3>2, DepthAssumption
  <2>3. [mp EXCEPT !.queue = Tail(mp.queue)] \in Planner
    BY <1>1, <2>2 DEF Planner
  <2>4. [mp EXCEPT !.queue = Tail(mp.queue)].queue = Tail(mp.queue)
    BY <1>1 DEF Planner
  <2>5. QED BY <1>1, <2>1, <2>2, <2>3, <2>4, OnePlanner
<1>5. ASSUME NEW v \in Orders, Message(v) PROVE Planners'
  <2>1. CASE EnterCycle
    <3>1. mps' = [mps EXCEPT ![cm] = [mp EXCEPT !.apart = mp.queue # <<>>]]
      BY <1>1, <2>1 DEF EnterCycle, Planners
    <3>2. (mp.queue # <<>>) \in BOOLEAN
      OBVIOUS
    <3>3. /\ [mp EXCEPT !.apart = mp.queue # <<>>] \in Planner
          /\ [mp EXCEPT !.apart = mp.queue # <<>>].queue = mp.queue
      BY <1>1, <3>2 DEF Planner
    <3>4. QED BY <1>1, <3>1, <3>3, OnePlanner DEF Planners
  <2>2. QED BY <1>2, <1>5, <2>1 DEF Message
<1>6. CASE cm_jgv_callback
  <2>1. CASE Segment
    <3>1. UNCHANGED mps \/ mps' = [mps EXCEPT ![cm] = WithMove(@)]
      BY <2>1, SegmentSets
    <3>2. Len(mps[cm].queue) < FullAt
      BY <1>1, <2>1 DEF Segment, Room
    <3>3. QED BY <1>1, <1>2, <3>1, <3>2, OneMove
  <2>2. QED BY <1>2, <1>6, <2>1 DEF cm_jgv_callback, Exit, Wait
<1>7. CASE RestOfPass
  <2>1. UNCHANGED mps \/ (mps' = [mps EXCEPT ![cm] = WithMove(@)] /\ Len(mps[cm].queue) < FullAt)
    BY <1>1, <1>7 DEF RestOfPass
  <2>2. QED BY <1>1, <1>2, <2>1, OneMove
<1>8. CASE Resume
  <2>1. UNCHANGED mps \/ (mps' = [mps EXCEPT ![2] = WithMove(@)] /\ Len(mps[2].queue) < FullAt)
    BY <1>8 DEF Resume
  <2>2. QED BY <1>1, <1>2, <2>1, OneMove
<1>9. CASE EnterP2 \/ RunAlarm
  <2>1. \E q \in 1 .. 2 : mps' = [mps EXCEPT ![q] = Emptied]
    BY <1>9 DEF EnterP2, RunAlarm
  <2>2. QED BY <1>1, <2>1, OneEmptied
<1>10. CASE Returned \/ Flush
  <2>1. PICK P \in {mps[1], Emptied} : mps' = [p \in 1 .. 2 |-> IF p = 1 THEN P ELSE Emptied]
    BY <1>10 DEF Returned, Flush, ExitP2
  <2>2. QED BY <1>1, <2>1, EmptiedIsPlanner, DepthAssumption DEF Planners
<1>11. CASE Tick
  <2> DEFINE t(p) == IF mps[p].timeout > 0 THEN mps[p].timeout - 1 ELSE mps[p].timeout
  <2>1. mps' = [p \in 1 .. 2 |-> [mps[p] EXCEPT !.timeout = t(p)]]
    BY <1>11 DEF Tick
  <2>2. ASSUME NEW p \in 1 .. 2 PROVE mps'[p] \in Planner /\ mps'[p].queue = mps[p].queue
    <3>1. mps[p] \in Planner
      BY <1>1 DEF Planners
    <3>2. t(p) \in Cleared .. BlockTimeout
      BY <3>1, PlannerFields, TimeAssumption DEF Cleared
    <3> HIDE DEF t
    <3>3. mps'[p] = [mps[p] EXCEPT !.timeout = t(p)]
      BY <2>1
    <3>4. QED BY <3>1, <3>2, <3>3 DEF Planner
  <2>3. mps' \in [1 .. 2 -> Planner]
    BY <2>1, <2>2
  <2>4. QED BY <1>1, <2>2, <2>3 DEF Planners
<1>12. CASE OperationWaits \/ Feedhold \/ Clear \/ TakeOver \/ TakeOverEnds
  BY <1>2, <1>12 DEF OperationWaits, Feedhold, Clear, TakeOver, TakeOverEnds
<1>13. QED
  BY <1>2, <1>3, <1>4, <1>5, <1>6, <1>7, <1>8, <1>9, <1>10, <1>11, <1>12
     DEF Next, Main, Host, OperationEnds, vars

Machines == cms \in [1 .. 2 -> Machine]

LEMMA MachinesStay ==
  ASSUME TypeOK, [Next]_vars PROVE Machines'
<1>1. /\ Machines /\ cm \in 1 .. 2 /\ saved \in {"job", "jog"}
      /\ cms[cm] \in Machine /\ cms[1] \in Machine /\ cms[2] \in Machine
  BY DEF TypeOK, Machines
<1>2. CASE UNCHANGED cms
  BY <1>1, <1>2 DEF Machines
<1>3. ASSUME NEW q \in 1 .. 2, NEW M \in Machine, cms' = [cms EXCEPT ![q] = M]
      PROVE  Machines'
  BY <1>1, <1>3 DEF Machines
<1>4. CASE RunMove
  <2>1. \E M \in {Ended([cms[cm] EXCEPT !.moving = FALSE]), [cms[cm] EXCEPT !.moving = TRUE]} :
          cms' = [cms EXCEPT ![cm] = M]
    BY <1>1, <1>4 DEF RunMove, Machines
  <2>2. QED BY <1>1, <1>3, <2>1, MachineKept
<1>5. ASSUME NEW v \in Orders, Message(v) PROVE Machines'
  <2>1. CASE EnterCycle
    BY <1>1, <2>1 DEF EnterCycle, Machines, Machine
  <2>2. QED BY <1>2, <1>5, <2>1 DEF Message
<1>6. CASE cm_jgv_callback
  <2>1. CASE Exit
    <3>1. cms' = [cms EXCEPT ![cm] = Released(cms[cm])]
      BY <2>1 DEF Exit
    <3>2. QED BY <1>1, <1>3, <3>1, MachineKept
  <2>2. QED BY <1>2, <1>6, <2>1 DEF cm_jgv_callback, Wait, Segment
<1>7. CASE RestOfPass \/ Resume
  <2>1. \/ UNCHANGED cms
        \/ \E q \in 1 .. 2 : cms' = [cms EXCEPT ![q] = Started(cms[q])]
    BY <1>1, <1>7 DEF RestOfPass, Resume
  <2>2. QED BY <1>1, <1>2, <1>3, <2>1, MachineKept DEF Machines
<1>8. CASE EnterP2
  <2>1. PICK moving \in {FALSE, mps[1].queue = <<>> /\ cms[1].moving} :
          cms' = [p \in 1 .. 2 |-> [cms[1] EXCEPT !.moving = moving]]
    BY <1>8 DEF EnterP2
  <2>2. moving \in BOOLEAN
    BY <1>1, <2>1 DEF Machine
  <2>3. QED BY <1>1, <2>1, <2>2, MachineKept DEF Machines
<1>9. CASE RunAlarm \/ Clear \/ TakeOver \/ TakeOverEnds
  BY <1>1, <1>9 DEF RunAlarm, Clear, TakeOver, TakeOverEnds, Machines, Machine
<1>10. CASE Returned \/ Flush
  <2>1. PICK M \in {Ended(cms[1]), Started(cms[1])} :
          cms' = [p \in 1 .. 2 |-> IF p = 1 THEN M ELSE AtRest]
    BY <1>10 DEF Returned, Flush, ExitP2
  <2>2. M \in Machine
    BY <1>1, <2>1, MachineKept
  <2>3. AtRest \in Machine
    BY DEF AtRest, Machine
  <2>4. QED BY <2>1, <2>2, <2>3 DEF Machines
<1>11. CASE mp_planner_callback \/ OperationWaits \/ Feedhold \/ Tick
  BY <1>2, <1>11 DEF mp_planner_callback, OperationWaits, Feedhold, Tick
<1>12. QED
  BY <1>2, <1>4, <1>5, <1>6, <1>7, <1>8, <1>9, <1>10, <1>11
     DEF Next, Main, Host, OperationEnds, vars

\* The jog's own state
Jog ==
  /\ target \in Velocity /\ current \in Velocity /\ planned \in Everywhere
  /\ silent \in 0 .. WatchdogTime + 1 /\ pace \in 0 .. StartupPace
  /\ saved \in {"job", "jog"}
  /\ active \in BOOLEAN /\ slipped \in BOOLEAN /\ tripped \in BOOLEAN

LEMMA JogCleared ==
  0 \in Velocity /\ 0 \in Everywhere /\ Position \subseteq Everywhere
    /\ WatchdogTime + 1 \in 0 .. WatchdogTime + 1
    /\ 0 \in 0 .. WatchdogTime + 1 /\ 0 \in 0 .. StartupPace
    /\ StartupPace \in 0 .. StartupPace /\ Orders \subseteq Velocity
BY SpeedAssumption, PositionAssumption, TimeAssumption
   DEF Velocity, Position, Everywhere

LEMMA RampedIsVelocity ==
  ASSUME NEW v \in Velocity, NEW to \in Velocity PROVE Ramped(v, to) \in Velocity
BY SpeedAssumption DEF Ramped, Velocity

LEMMA JogStays ==
  ASSUME TypeOK, [Next]_vars PROVE Jog'
<1>1. /\ Jog /\ cm \in 1 .. 2 /\ cms[cm] \in Machine
      /\ mc.modes \in {"job", "jog"} /\ Ordered \in Velocity
  BY JogCleared DEF TypeOK, Jog, Machine, mc, Ordered
<1>2. CASE UNCHANGED jgv
  BY <1>1, <1>2 DEF jgv, Jog
<1>3. CASE Slip
  BY <1>1, <1>3 DEF Slip, Jog
<1>4. ASSUME NEW v \in Orders, Message(v) PROVE Jog'
  <2>1. v \in Velocity
    BY JogCleared
  <2>2. silent' \in 0 .. WatchdogTime + 1 /\ tripped' \in BOOLEAN /\ target' \in Velocity
    BY <1>1, <1>4, <2>1, JogCleared DEF Message, Hear, Jog
  <2>3. CASE EnterCycle
    <3>1. planned' \in Everywhere
      BY <2>3, JogCleared DEF EnterCycle
    <3>2. QED BY <1>1, <2>2, <2>3, <3>1, JogCleared DEF EnterCycle, Jog
  <2>4. QED BY <1>1, <1>4, <2>2, <2>3 DEF Message, Jog
<1>5. CASE cm_jgv_callback
  <2>1. CASE Over
    BY <2>1, JogCleared DEF Over, Jog
  <2>2. CASE Wait /\ tripped' = (tripped \/ Expired) /\ UNCHANGED <<silent, saved>>
    BY <1>1, <2>2 DEF Wait, Jog
  <2>3. CASE Segment /\ tripped' = (tripped \/ Expired) /\ UNCHANGED <<silent, saved>>
    <3>1. /\ target' \in {0, Ordered} /\ active' = active
          /\ current' \in {0, current, Ramped(current, Ordered)}
          /\ planned' \in Everywhere /\ slipped' \in BOOLEAN
          /\ pace' = pace \/ pace' = StartupPace
      BY <2>3, SegmentSets
    <3>2. current' \in Velocity /\ target' \in Velocity
      BY <1>1, <3>1, RampedIsVelocity, JogCleared DEF Jog
    <3>3. tripped' \in BOOLEAN
      BY <2>3
    <3>4. QED BY <1>1, <2>3, <3>1, <3>2, <3>3, JogCleared DEF Jog
  <2>4. QED BY <1>5, <2>1, <2>2, <2>3 DEF cm_jgv_callback, Exit
<1>6. CASE Tick
  <2>1. silent' \in 0 .. WatchdogTime + 1 /\ pace' \in 0 .. StartupPace
    BY <1>1, <1>6, TimeAssumption DEF Tick, Jog
  <2>2. QED BY <1>1, <1>6, <2>1 DEF Tick, Jog
<1>7. CASE \/ mp_planner_callback \/ RunMove \/ RestOfPass \/ OperationWaits \/ Feedhold
           \/ Clear \/ TakeOver \/ TakeOverEnds
  BY <1>2, <1>7 DEF mp_planner_callback, RunMove, RestOfPass, OperationWaits, Feedhold,
                    Clear, TakeOver, TakeOverEnds
<1>8. CASE EnterP2 \/ RunAlarm \/ Returned \/ Resume \/ Flush
  BY <1>3, <1>8 DEF EnterP2, RunAlarm, Returned, Resume, Flush, ExitP2
<1>9. QED
  BY <1>2, <1>4, <1>5, <1>6, <1>7, <1>8 DEF Next, Main, Host, OperationEnds, vars

\* What is left of TypeOK
Around ==
  /\ at \in {"planner", "cycle"} /\ elapsed \in 0 .. PassTime
  /\ at = "planner" => elapsed = 0
  /\ cm \in 1 .. 2 /\ upset \in BOOLEAN
  /\ hold \in {"OFF", "STOPPING", "ALARMING", "HOLD", "RETURNING"}
  /\ interruptions \in 0 .. MaxInterruptions

LEMMA AroundStays ==
  ASSUME TypeOK, [Next]_vars PROVE Around'
<1>1. Around /\ TypeOK
  BY DEF TypeOK, Around
<1>2. /\ at' \in {"planner", "cycle"} /\ elapsed' \in 0 .. PassTime
      /\ at' = "planner" => elapsed' = 0
  <2>1. UNCHANGED pass \/ EndPass \/ (at' = "cycle" /\ elapsed' = elapsed) \/ Tick
    BY DEF Next, Main, Host, OperationEnds, vars, mp_planner_callback, cm_jgv_callback,
           RestOfPass, OperationWaits, EnterP2, RunAlarm, Returned, TakeOverEnds, ExitP2,
           Message, Feedhold, Resume, Flush, Clear, TakeOver, RunMove
  <2>2. CASE Tick
    BY <1>1, <2>2, TimeAssumption DEF Tick, Around
  <2>3. CASE EndPass
    BY <2>3, TimeAssumption DEF EndPass
  <2>4. QED BY <1>1, <2>1, <2>2, <2>3 DEF pass, Around
<1>3. interruptions' \in 0 .. MaxInterruptions
  <2>1. UNCHANGED interruptions \/ Interrupt
    BY DEF Next, Main, Host, OperationEnds, vars, mp_planner_callback, cm_jgv_callback,
           RestOfPass, OperationWaits, EnterP2, RunAlarm, Returned, TakeOverEnds, ExitP2,
           Message, Feedhold, Resume, Flush, Clear, TakeOver, RunMove, Tick
  <2>2. QED BY <1>1, <2>1, InterruptionAssumption DEF Interrupt, Around
<1>4. upset' \in BOOLEAN
  BY <1>1 DEF Around, Next, Main, Host, OperationEnds, vars, mp_planner_callback,
         cm_jgv_callback, Exit, Wait, Segment, Queue, Refuse, SoftLimit, EnterCycle,
         RestOfPass, OperationWaits, EnterP2, RunAlarm, Returned, TakeOverEnds, ExitP2,
         Message, Feedhold, Interrupt, Resume, Flush, Clear, TakeOver, RunMove, Tick
<1>5. cm' \in 1 .. 2
  BY <1>1 DEF Around, Next, Main, Host, OperationEnds, vars, mp_planner_callback,
         cm_jgv_callback, RestOfPass, OperationWaits, EnterP2, RunAlarm, Returned,
         TakeOverEnds, ExitP2, Message, Feedhold, Resume, Flush, Clear, TakeOver, RunMove, Tick
<1>6. hold' \in {"OFF", "STOPPING", "ALARMING", "HOLD", "RETURNING"}
  BY <1>1 DEF Around, Next, Main, Host, OperationEnds, vars, mp_planner_callback,
         cm_jgv_callback, Exit, Wait, Segment, Queue, Refuse, SoftLimit, RestOfPass,
         OperationWaits,
         EnterP2, RunAlarm, Returned, TakeOverEnds, ExitP2, Message, Feedhold, Resume,
         Flush, Clear, TakeOver, RunMove, Tick
<1>7. QED BY <1>2, <1>3, <1>4, <1>5, <1>6 DEF Around

LEMMA TypesSplit ==
  /\ TypeOK <=> Planners /\ Machines /\ Jog /\ Around
  /\ TypeOK' <=> Planners' /\ Machines' /\ Jog' /\ Around'
BY DEF TypeOK, Planners, Machines, Jog, Around

LEMMA InitTypes == Init => TypeOK
<1>1. SUFFICES ASSUME Init PROVE TypeOK
  OBVIOUS
<1>2. Planners
  BY <1>1, EmptiedIsPlanner, DepthAssumption DEF Init, Planners
<1>3. Machines
  BY <1>1 DEF Init, Machines, Machine, AtRest
<1>4. Jog
  BY <1>1, JogCleared DEF Init, Jog
<1>5. Around
  <2>1. 0 \in 0 .. PassTime /\ 0 \in 0 .. MaxInterruptions /\ 1 \in 1 .. 2
    BY TimeAssumption, InterruptionAssumption
  <2>2. QED BY <1>1, <2>1 DEF Init, Around
<1>6. QED BY <1>2, <1>3, <1>4, <1>5, TypesSplit

LEMMA TypeStep == TypeOK /\ [Next]_vars => TypeOK'
BY PlannersStay, MachinesStay, JogStays, AroundStays, TypesSplit

\* The variables of the jog, the machines and the planners keep their types, for
\* all speeds, positions, depths and times; no queue grows beyond FullAt.
THEOREM TypeCorrect == Spec => []TypeOK
BY InitTypes, TypeStep, PTL DEF Spec

---------------------------------------------------------------------------
(* What a jog keeps to *)

LEMMA HeldStep ==
  ASSUME TypeOK, HeldInP2, [Next]_vars PROVE HeldInP2'
<1>1. CASE UNCHANGED <<cm, hold>>
  BY <1>1 DEF HeldInP2
<1>2. CASE cm_jgv_callback
  <2>1. cm' = cm /\ hold' \in {hold, IF hold = "OFF" THEN "ALARMING" ELSE hold}
    BY <1>2 DEF cm_jgv_callback, Exit, Wait, Segment, Queue, Refuse, SoftLimit
  <2>2. QED BY <2>1 DEF HeldInP2
<1>3. CASE Feedhold \/ EnterP2 \/ RunAlarm \/ Resume
  BY <1>3 DEF Feedhold, EnterP2, RunAlarm, Resume, HeldInP2
<1>4. CASE Returned \/ Flush
  BY <1>4 DEF Returned, Flush, ExitP2, HeldInP2
<1>5. CASE \/ mp_planner_callback \/ RunMove \/ RestOfPass \/ OperationWaits \/ Clear
           \/ TakeOver \/ TakeOverEnds \/ Tick
  BY <1>1, <1>5 DEF mp_planner_callback, RunMove, RestOfPass, OperationWaits, Clear,
                    TakeOver, TakeOverEnds, Tick
<1>6. ASSUME NEW v \in Orders, Message(v) PROVE HeldInP2'
  BY <1>1, <1>6 DEF Message
<1>7. QED
  BY <1>1, <1>2, <1>3, <1>4, <1>5, <1>6 DEF Next, Main, Host, OperationEnds, vars

\* Once a jog has been caught nothing is said any more.
LEMMA UpsetLasts ==
  ASSUME TypeOK, [Next]_vars, ~ upset' PROVE ~ upset
BY DEF TypeOK, Next, Main, Host, OperationEnds, vars, mp_planner_callback,
       cm_jgv_callback, Exit, Wait, Segment, Queue, Refuse, SoftLimit, EnterCycle,
       RestOfPass, OperationWaits, EnterP2, RunAlarm, Returned, TakeOverEnds, ExitP2,
       Message, Feedhold, Interrupt, Resume, Flush, Clear, TakeOver, RunMove, Tick

\* A machine is as free as before when its cycle ends or starts.
LEMMA FreeKept ==
  ASSUME NEW m \in Machine, Free(m)
  PROVE  /\ Free(Started(m)) /\ Free(Ended(m))
         /\ \A b \in BOOLEAN : /\ Free([m EXCEPT !.moving = b])
                              /\ Free(Ended([m EXCEPT !.moving = b]))
BY DEF Free, Started, Ended, Machine

\* Without an alarm a segment is queued where the last one ends, or not at all.
LEMMA SegmentJoins ==
  ASSUME Calm, active, Segment, ~ upset'
  PROVE  \/ UNCHANGED <<slipped, pace, mps>>
         \/ /\ mps' = [mps EXCEPT ![cm] = WithMove(@)]
            /\ ~ slipped' /\ pace' = StartupPace
<1>1. ~ slipped /\ mc.state # "ALARM"
  BY DEF Calm
<1>2. \/ UNCHANGED <<slipped, pace, mps>>
      \/ \E to : Queue(to)
  BY DEF Segment, Refuse
<1>3. ASSUME NEW to, Queue(to)
      PROVE  /\ mps' = [mps EXCEPT ![cm] = WithMove(@)]
             /\ ~ slipped' /\ pace' = StartupPace
  BY <1>1, <1>3 DEF Queue, Advance, CommitPaced
<1>4. QED BY <1>2, <1>3

\* A jog that is not caught changes only what is its own.
LEMMA CallbackKeepsCalm ==
  ASSUME TypeOK, Calm, cm_jgv_callback, ~ upset' PROVE Calm'
<1>1. /\ active /\ hold \in {"OFF", "HOLD"} /\ mc.cycle = "JGV" /\ mc.state = "CYCLE"
      /\ saved = "job" /\ ~ slipped /\ Joined(mp) /\ cm' = cm /\ cm \in 1 .. 2
      /\ mp = mps[cm] /\ mc = cms[cm] /\ mps[cm] \in Planner /\ cms[cm] \in Machine
      /\ cm = 2 => Free(cms[1])
  BY DEF TypeOK, Calm, cm_jgv_callback, mp, mc
<1>2. CASE Exit
  <2>1. cms' = [cms EXCEPT ![cm] = Released(cms[cm])] /\ ~ active'
    BY <1>2 DEF Exit, Over
  <2>2. Free(Released(cms[cm]))
    BY <1>1 DEF Free, Released, Machine
  <2>3. Free(cms'[cm]) /\ Free(cms'[1])
    BY <1>1, <2>1, <2>2 DEF TypeOK
  <2>4. QED BY <1>1, <2>1, <2>3 DEF Calm, mc
<1>3. CASE (Wait \/ Segment) /\ UNCHANGED saved
  <2>1. active' = active /\ cms' = cms /\ (hold' = hold \/ upset')
    BY <1>3, SegmentSets DEF Wait, SoftLimit
  <2>2. CASE UNCHANGED <<slipped, mps>>
    BY <1>1, <1>3, <2>1, <2>2 DEF Calm, mc, mp
  <2>3. CASE ~ slipped' /\ mps' = [mps EXCEPT ![cm] = WithMove(@)]
    <3>1. /\ mp.queue \in Seq(BOOLEAN) /\ ~ mp.apart
          /\ WithMove(mp).queue = Append(mp.queue, ~ mp.apart) /\ ~ WithMove(mp).apart
      BY <1>1, WithMoveIsPlanner, PlannerFields DEF Joined
    <3>2. Joined(WithMove(mp))
      <4>1. Len(mp.queue) \in Nat /\ DOMAIN mp.queue = 1 .. Len(mp.queue)
        BY <3>1, LenProperties
      <4> DEFINE q == Append(mp.queue, ~ mp.apart)
      <4>2. /\ q \in Seq(BOOLEAN) /\ Len(q) = Len(mp.queue) + 1
            /\ \A k \in 1 .. Len(mp.queue) : q[k] = mp.queue[k]
            /\ q[Len(mp.queue) + 1] = ~ mp.apart
        <5>1. (~ mp.apart) \in BOOLEAN
          OBVIOUS
        <5>2. QED BY <3>1, <5>1, AppendProperties
      <4> HIDE DEF q
      <4>3. DOMAIN q = 1 .. Len(mp.queue) + 1
        BY <4>2, LenProperties
      <4>4. \A k \in 1 .. Len(mp.queue) + 1 : k \in 1 .. Len(mp.queue) \/ k = Len(mp.queue) + 1
        BY <4>1
      <4>5. \A k \in DOMAIN q : q[k]
        BY <1>1, <3>1, <4>1, <4>2, <4>3, <4>4 DEF Joined
      <4>6. QED BY <3>1, <4>5 DEF Joined, q
    <3>3. mp' = WithMove(mp)
      BY <1>1, <2>3 DEF TypeOK, mp
    <3>4. QED BY <1>1, <1>3, <2>1, <2>3, <3>2, <3>3 DEF Calm, mc
  <2>4. QED
    BY <1>1, <1>3, <2>2, <2>3, SegmentJoins DEF Wait
<1>4. QED BY <1>1, <1>2, <1>3 DEF cm_jgv_callback

LEMMA CalmStep ==
  ASSUME JogInv, [Next]_vars, ~ upset' PROVE Calm'
<1>1. /\ TypeOK /\ HeldInP2 /\ Calm /\ ~ upset
      /\ cm \in 1 .. 2 /\ mc = cms[cm] /\ mp = mps[cm]
      /\ cms[1] \in Machine /\ cms[2] \in Machine /\ cms[cm] \in Machine
      /\ mps[1] \in Planner /\ mps[2] \in Planner /\ mps[cm] \in Planner
  BY UpsetLasts DEF JogInv, TypeOK, mc, mp
<1>2. CASE UNCHANGED <<active, cm, hold, saved, slipped, cms>> /\ mps'[cm].queue = mp.queue
           /\ mps'[cm].apart = mp.apart
  BY <1>1, <1>2 DEF Calm, mc, mp, Joined
<1>3. CASE mp_planner_callback \/ Tick
  <2>1. UNCHANGED <<active, cm, hold, saved, slipped, cms>>
    BY <1>3 DEF mp_planner_callback, Tick, jgv
  <2>2. mps'[cm].queue = mp.queue /\ mps'[cm].apart = mp.apart
    <3>1. CASE Tick
      BY <1>1, <3>1 DEF Tick, Planner
    <3>2. CASE mp_planner_callback
      <4>1. PICK st \in {"IDLE", "STARTUP", "PRIMING"}, t \in {Cleared, mp.timeout} :
              mps' = [mps EXCEPT ![cm] = [mp EXCEPT !.state = st, !.timeout = t]]
        BY <1>1, <3>2, CallbackSets
      <4>2. QED BY <1>1, <4>1 DEF TypeOK, Planner
    <3>3. QED BY <1>3, <3>1, <3>2
  <2>3. QED BY <1>2, <2>1, <2>2
<1>4. CASE RunMove
  <2>1. /\ UNCHANGED <<active, cm, hold, saved, slipped>>
        /\ mp.queue # <<>> /\ mps' = [mps EXCEPT ![cm].queue = Tail(@)]
        /\ \E M \in {Ended([cms[cm] EXCEPT !.moving = FALSE]), [cms[cm] EXCEPT !.moving = TRUE]} :
             cms' = [cms EXCEPT ![cm] = M]
    BY <1>1, <1>4 DEF RunMove, jgv, TypeOK
  <2>2. /\ mp.queue \in Seq(BOOLEAN) /\ Len(mp.queue) \in Nat
        /\ mp'.queue = Tail(mp.queue) /\ mp'.apart = mp.apart
    BY <1>1, <2>1, PlannerFields DEF TypeOK, mp, Planner
  <2>3. Joined(mp) => Joined(mp')
    <3>1. /\ Tail(mp.queue) \in Seq(BOOLEAN) /\ Len(Tail(mp.queue)) = Len(mp.queue) - 1
          /\ \A k \in 1 .. Len(Tail(mp.queue)) : Tail(mp.queue)[k] = mp.queue[k + 1]
      BY <2>1, <2>2, HeadTailProperties
    <3>2. /\ DOMAIN mp.queue = 1 .. Len(mp.queue)
          /\ DOMAIN Tail(mp.queue) = 1 .. Len(mp.queue) - 1
      BY <2>2, <3>1, LenProperties
    <3>3. \A k \in 1 .. Len(mp.queue) - 1 : k + 1 \in 1 .. Len(mp.queue)
      BY <2>2
    <3>4. QED BY <2>2, <3>1, <3>2, <3>3 DEF Joined
  <2>4. /\ mc.cycle = "JGV" => mc'.cycle = "JGV" /\ mc'.state = mc.state
        /\ Free(mc) => Free(mc')
        /\ Free(cms[1]) => Free(cms'[1])
    <3>1. PICK M \in {Ended([cms[cm] EXCEPT !.moving = FALSE]), [cms[cm] EXCEPT !.moving = TRUE]} :
             cms' = [cms EXCEPT ![cm] = M]
      BY <2>1
    <3>2. mc.cycle = "JGV" => M.cycle = "JGV" /\ M.state = mc.state
      <4>1. \A b \in BOOLEAN : /\ [mc EXCEPT !.moving = b].cycle = mc.cycle
                              /\ [mc EXCEPT !.moving = b].state = mc.state
        BY <1>1 DEF Machine
      <4>2. QED BY <1>1, <3>1, <4>1 DEF Ended
    <3>3. Free(mc) => Free(M)
      BY <1>1, <3>1, FreeKept
    <3>4. mc' = M /\ cms'[1] = IF cm = 1 THEN M ELSE cms[1]
      BY <1>1, <2>1, <3>1 DEF TypeOK, mc
    <3>5. QED BY <1>1, <3>2, <3>3, <3>4
  <2>5. QED BY <1>1, <2>1, <2>3, <2>4 DEF Calm
<1>5. ASSUME NEW v \in Orders, Message(v) PROVE Calm'
  <2>1. CASE v # 0 /\ MayEnter
    <3>1. EnterCycle /\ UNCHANGED <<cm, hold>> /\ ~ active
      BY <1>5, <2>1 DEF Message, MayEnter
    <3>2. /\ mp.queue = <<>> /\ hold \in {"OFF", "HOLD"}
          /\ active' /\ ~ slipped' /\ saved' = mc.modes /\ mc.modes = "job"
      BY <1>1, <3>1 DEF EnterCycle, Calm, Free
    <3>3. mp'.queue = <<>> /\ mp'.apart = FALSE
      BY <1>1, <3>1, <3>2 DEF EnterCycle, TypeOK, mp, Planner
    <3>4. Joined(mp')
      BY <3>3 DEF Joined
    <3>5. mc'.cycle = "JGV" /\ mc'.state = "CYCLE" /\ (cm = 2 => cms'[1] = cms[1])
      BY <1>1, <3>1 DEF EnterCycle, TypeOK, mc, Machine
    <3>6. QED BY <1>1, <3>1, <3>2, <3>4, <3>5 DEF Calm
  <2>2. QED BY <1>1, <1>2, <1>5, <2>1 DEF Message, Hear
<1>6. CASE cm_jgv_callback
  BY <1>1, <1>6, CallbackKeepsCalm
<1>7. CASE RestOfPass
  <2>1. /\ UNCHANGED <<active, cm, hold, saved, slipped>>
        /\ ~ active \/ mc.cycle = "HOMING"
        /\ \/ UNCHANGED <<cms, mps>>
           \/ cms' = [cms EXCEPT ![cm] = Started(cms[cm])] /\ ~ active
    BY <1>1, <1>7 DEF RestOfPass, jgv
  <2>2. ~ active /\ ~ active' /\ cm' = cm
    BY <1>1, <2>1 DEF Calm
  <2>3. Free(cms[cm]) /\ Free(cms[1]) /\ Free(Started(cms[cm]))
    BY <1>1, <2>2, FreeKept DEF Calm
  <2>4. Free(cms'[cm]) /\ Free(cms'[1])
    BY <1>1, <2>1, <2>3 DEF TypeOK
  <2>5. QED BY <2>2, <2>4 DEF Calm, mc
<1>8. CASE EnterP2
  <2>1. ~ active /\ ~ active' /\ cm = 1 /\ cm' = 2
    BY <1>1, <1>8 DEF EnterP2, Slip, Calm, HeldInP2
  <2>2. PICK moving \in {FALSE, mps[1].queue = <<>> /\ cms[1].moving} :
          cms' = [p \in 1 .. 2 |-> [cms[1] EXCEPT !.moving = moving]]
    BY <1>8 DEF EnterP2
  <2>3. moving \in BOOLEAN
    BY <1>1, <2>2 DEF Machine
  <2>4. Free([cms[1] EXCEPT !.moving = moving])
    BY <1>1, <2>1, <2>3, FreeKept DEF Calm
  <2>5. QED BY <2>1, <2>2, <2>4 DEF Calm, mc
<1>9. CASE RunAlarm
  <2>1. ~ active /\ ~ active' /\ cm' = cm /\ cm = 1
    BY <1>1, <1>9 DEF RunAlarm, Slip, Calm, HeldInP2
  <2>2. Free(cms'[1])
    BY <1>1, <1>9, <2>1 DEF RunAlarm, Calm, Free, TypeOK, Machine
  <2>3. QED BY <2>1, <2>2 DEF Calm, mc
<1>10. CASE Clear \/ TakeOver
  <2>1. UNCHANGED <<active, cm, saved, slipped, mps, hold>> /\ cm = 1
    BY <1>1, <1>10 DEF Clear, TakeOver, HeldInP2, jgv
  <2>2. /\ TakeOver => ~ active /\ Free(cms'[1])
        /\ Clear => (Free(cms[1]) => Free(cms'[1])) /\ cms'[1].cycle = cms[1].cycle
    BY <1>1, <1>10, <2>1 DEF Clear, TakeOver, Interrupt, Calm, Free, TypeOK, Machine, mc
  <2>3. Clear => ~ active
    BY <1>1, <1>10, <2>1 DEF Clear, Calm, mc
  <2>4. QED BY <1>1, <1>10, <2>1, <2>2, <2>3 DEF Calm, mc, mp
<1>11. CASE TakeOverEnds
  <2>1. UNCHANGED <<active, cm, saved, slipped, mps, hold>> /\ cm = 1 /\ ~ active
    BY <1>1, <1>11 DEF TakeOverEnds, HeldInP2, jgv, Calm, mc
  <2>2. Free(cms'[1])
    BY <1>1, <1>11, <2>1 DEF TakeOverEnds, Calm, Free, TypeOK, Machine
  <2>3. QED BY <2>1, <2>2 DEF Calm, mc
<1>12. CASE Resume
  <2>1. ~ active /\ ~ active' /\ cm = 2 /\ cm' = 2
    BY <1>1, <1>12 DEF Resume, Slip, HeldInP2
  <2>2. \/ UNCHANGED cms
        \/ cms' = [cms EXCEPT ![2] = Started(cms[2])]
    BY <1>12 DEF Resume
  <2>3. Free(cms[2]) /\ Free(cms[1]) /\ Free(Started(cms[2]))
    BY <1>1, <2>1, FreeKept DEF Calm
  <2>4. Free(cms'[2]) /\ Free(cms'[1])
    BY <1>1, <2>2, <2>3 DEF TypeOK
  <2>5. QED BY <2>1, <2>4 DEF Calm, mc
<1>13. CASE Returned \/ Flush
  <2>1. ~ active
    BY <1>1, <1>13 DEF Returned, Flush, Calm
  <2>2. ~ active' /\ cm' = 1
    BY <1>13, <2>1 DEF Returned, Flush, ExitP2, Slip
  <2>3. Free(cms[1])
    BY <1>1, <2>1 DEF Calm
  <2>4. cms'[1] \in {Ended(cms[1]), Started(cms[1])}
    BY <1>13 DEF Returned, Flush, ExitP2
  <2>5. Free(cms'[1])
    BY <1>1, <2>3, <2>4, FreeKept
  <2>6. QED BY <2>2, <2>5 DEF Calm, mc
<1>14. CASE OperationWaits \/ Feedhold
  <2>1. UNCHANGED <<active, cm, saved, slipped, cms, mps>> /\ (hold' = hold \/ ~ active)
    BY <1>1, <1>14 DEF OperationWaits, Feedhold, Interrupt, jgv
  <2>2. QED BY <1>1, <2>1 DEF Calm, mc, mp
<1>15. CASE UNCHANGED vars
  BY <1>1, <1>2, <1>15 DEF vars, jgv
<1>16. QED
  BY <1>1, <1>3, <1>4, <1>5, <1>6, <1>7, <1>8, <1>9, <1>10, <1>11, <1>12, <1>13, <1>14, <1>15
     DEF JogInv, Next, Main, Host, OperationEnds

LEMMA InvHolds == Spec => []JogInv
<1>1. Init => HeldInP2 /\ Calm
  BY EmptiedIsPlanner DEF Init, HeldInP2, Calm, mc, mp, Free, AtRest
<1>2. Init => JogInv
  BY <1>1, InitTypes DEF JogInv
<1>3. JogInv /\ [Next]_vars => JogInv'
  BY TypeStep, HeldStep, CalmStep DEF JogInv
<1>4. QED BY <1>2, <1>3, PTL DEF Spec

\* Each segment of a jog that nothing has caught starts where the one before it
\* ends, and the first where the machine stands, for all speeds and depths.
THEOREM SegmentsAlwaysJoin == Spec => []SegmentsJoin
<1>1. JogInv => SegmentsJoin
  BY DEF JogInv, Calm, Joined, SegmentsJoin
<1>2. QED BY <1>1, InvHolds, PTL

\* A jog that nothing has caught gives the machine back to the job as it found
\* it, be it in the hold or not.
THEOREM ModesComeBack == Spec => []JobGetsItsModesBack
<1>1. JogInv => JobGetsItsModesBack
  BY DEF JogInv, Calm, Free, JobGetsItsModesBack
<1>2. QED BY <1>1, InvHolds, PTL

---------------------------------------------------------------------------
(* How far the jog runs ahead *)

LEMMA CallbackKeepsPace ==
  ASSUME JogInv, Calm, Paced, PassTime <= Margin, mp_planner_callback PROVE Paced'
<1>1. /\ UNCHANGED <<active, pace, cm>> /\ at = "planner" /\ at' = "cycle" /\ elapsed' = 0
      /\ elapsed = 0 /\ cm \in 1 .. 2 /\ mp = mps[cm] /\ mps[cm] \in Planner
  BY DEF mp_planner_callback, jgv, JogInv, TypeOK, mp
<1>2. PICK st \in {"IDLE", "STARTUP", "PRIMING"}, t \in {Cleared, mp.timeout} :
        /\ mps' = [mps EXCEPT ![cm] = [mp EXCEPT !.state = st, !.timeout = t]]
        /\ st # "PRIMING" => \/ mp.queue = <<>>
                             \/ mp.state # "PRIMING" /\ mp.timeout # 0 /\ t = mp.timeout
  BY CallbackSets DEF JogInv
<1>3. mp'.queue = mp.queue /\ mp'.state = st /\ mp'.timeout = t
  BY <1>1, <1>2 DEF JogInv, TypeOK, mp, Planner
<1>4. /\ mp.timeout \in Cleared .. BlockTimeout /\ BlockTimeout \in Nat
      /\ StartupPace \in Nat /\ StartupPace > BlockTimeout
  BY <1>1, PlannerFields, TimeAssumption
<1>5. ASSUME active', Starting'
      PROVE  /\ mp'.timeout >= 0 /\ pace' = mp'.timeout + Margin
             /\ pace' + elapsed' > Margin
  <2>1. t = mp.timeout /\ mp.timeout # 0 /\ Starting
    BY <1>2, <1>3, <1>5 DEF Starting
  <2>2. mp.timeout > 0 /\ pace = mp.timeout + Margin
    BY <1>1, <1>4, <1>5, <2>1 DEF Paced
  <2>3. QED BY <1>1, <1>3, <1>4, <2>1, <2>2 DEF Margin
<1>6. active' => Len(mp'.queue) <= Depth
  BY <1>1, <1>3 DEF Paced
<1>7. QED BY <1>5, <1>6 DEF Paced

LEMMA SegmentKeepsPace ==
  ASSUME JogInv, Calm, Paced, PassTime <= Margin, cm_jgv_callback, Segment, ~ upset'
  PROVE  Paced'
<1>1. /\ active /\ cm' = cm /\ at = "cycle" /\ at' = "planner" /\ ~ slipped
      /\ cm \in 1 .. 2 /\ mp = mps[cm] /\ mps[cm] \in Planner
      /\ elapsed \in Nat /\ elapsed <= PassTime /\ pace \in Nat
      /\ Len(mp.queue) \in Nat /\ mp.queue \in Seq(BOOLEAN)
  BY PlannerFields DEF cm_jgv_callback, EndPass, JogInv, TypeOK, Calm, mp
<1>2. /\ BlockTimeout \in Nat /\ StartupPace \in Nat /\ StartupPace > BlockTimeout
      /\ PassTime \in Nat /\ Depth \in Nat \ {0}
  BY TimeAssumption, DepthAssumption
<1>3. CASE UNCHANGED <<pace, mps>>
  BY <1>1, <1>3 DEF Paced, mp, Starting
<1>4. CASE pace' = StartupPace /\ mps' = [mps EXCEPT ![cm] = WithMove(@)]
  <2>1. mp' = WithMove(mp)
    BY <1>1, <1>4 DEF JogInv, TypeOK, mp
  <2>2. Len(mp'.queue) = Len(mp.queue) + 1 /\ mp'.timeout = BlockTimeout
    BY <1>1, <2>1, WithMoveIsPlanner
  <2>3. Len(mp.queue) < Depth
    <3>1. CASE mp.state = "PRIMING"
      BY <3>1 DEF Segment, Room
    <3>2. CASE mp.state # "PRIMING"
      <4>1. pace = 0 /\ ~ (pace + elapsed > Margin)
        BY <1>1, <1>2, <3>2 DEF Segment, Room, Margin
      <4>2. mp.queue = <<>>
        BY <1>1, <3>2, <4>1 DEF Paced, Starting
      <4>3. Len(mp.queue) = 0
        BY <4>2
      <4>4. QED BY <1>2, <4>3
    <3>3. QED BY <3>1, <3>2
  <2>4. pace' = mp'.timeout + Margin
    BY <1>2, <1>4, <2>2 DEF Margin
  <2>5. QED BY <1>1, <1>2, <2>2, <2>3, <2>4 DEF Paced
<1>5. QED BY <1>1, <1>3, <1>4, SegmentJoins

LEMMA TickKeepsPace ==
  ASSUME JogInv, Paced, PassTime <= Margin, Tick PROVE Paced'
<1>1. /\ UNCHANGED <<active, cm, at>> /\ cm \in 1 .. 2 /\ mp = mps[cm] /\ mps[cm] \in Planner
      /\ elapsed \in Nat /\ pace \in Nat /\ pace' = (IF pace > 0 THEN pace - 1 ELSE 0)
      /\ at = "cycle" => elapsed < PassTime /\ elapsed' = elapsed + 1
      /\ mp.timeout \in Cleared .. BlockTimeout
      /\ at \in {"planner", "cycle"}
  BY PlannerFields DEF Tick, JogInv, TypeOK, mp
<1>2. /\ BlockTimeout \in Nat /\ StartupPace \in Nat /\ StartupPace > BlockTimeout
      /\ PassTime \in Nat
  BY TimeAssumption
<1>3. /\ mp'.queue = mp.queue /\ mp'.state = mp.state
      /\ mp'.timeout = IF mp.timeout > 0 THEN mp.timeout - 1 ELSE mp.timeout
  <2> DEFINE t(p) == IF mps[p].timeout > 0 THEN mps[p].timeout - 1 ELSE mps[p].timeout
  <2>1. mps' = [p \in 1 .. 2 |-> [mps[p] EXCEPT !.timeout = t(p)]]
    BY DEF Tick
  <2> HIDE DEF t
  <2>2. mp' = [mp EXCEPT !.timeout = t(cm)]
    BY <1>1, <2>1 DEF mp
  <2>3. mp'.queue = mp.queue /\ mp'.state = mp.state /\ mp'.timeout = t(cm)
    BY <1>1, <2>2 DEF Planner
  <2>4. QED BY <1>1, <2>3 DEF t
<1>4. Starting' <=> Starting
  BY <1>3 DEF Starting
<1>5. ASSUME active, Starting
      PROVE  mp'.timeout >= 0 /\ (mp'.timeout > 0 => pace' = mp'.timeout + Margin)
  BY <1>1, <1>2, <1>3, <1>5 DEF Paced, Margin
<1>6. ASSUME active, Starting, at = "cycle" PROVE pace' + elapsed' > Margin
  BY <1>1, <1>2, <1>6 DEF Paced, Margin
<1>7. QED BY <1>1, <1>3, <1>4, <1>5, <1>6 DEF Paced

LEMMA PaceStep ==
  ASSUME PassTime <= Margin, JogInv, LagInv, [Next]_vars PROVE LagInv'
<1>1. SUFFICES ASSUME ~ upset', active' PROVE Paced'
  BY DEF LagInv, Paced
<1>2. TypeOK /\ HeldInP2 /\ Calm /\ Paced /\ Calm' /\ ~ upset
  BY <1>1, UpsetLasts, CalmStep DEF JogInv, LagInv
<1>3. CASE UNCHANGED <<at, elapsed, active, pace, cm, mps>>
  BY <1>2, <1>3 DEF Paced, Starting, mp
<1>4. CASE mp_planner_callback
  BY <1>2, <1>4, CallbackKeepsPace
<1>5. CASE cm_jgv_callback
  <2>1. CASE Segment
    BY <1>1, <1>2, <1>5, <2>1, SegmentKeepsPace
  <2>2. CASE Wait
    <3>1. /\ UNCHANGED <<active, pace, cm, mps>> /\ at = "cycle" /\ at' = "planner"
      BY <1>5, <2>2 DEF cm_jgv_callback, EndPass, Wait
    <3>2. QED BY <1>2, <3>1 DEF Paced, Starting, mp
  <2>3. QED BY <1>1, <1>5, <2>1, <2>2 DEF cm_jgv_callback, Exit, Over
<1>6. CASE Tick
  BY <1>2, <1>6, TickKeepsPace
<1>7. CASE RunMove
  <2>1. /\ mp.queue # <<>> /\ mp.state = "PRIMING" /\ UNCHANGED <<active, cm>>
        /\ mps' = [mps EXCEPT ![cm].queue = Tail(@)]
        /\ cm \in 1 .. 2 /\ mp = mps[cm] /\ mps[cm] \in Planner
    BY <1>2, <1>7 DEF RunMove, jgv, TypeOK, mp
  <2>2. mp'.queue = Tail(mp.queue) /\ mp'.state = "PRIMING" /\ mp.queue \in Seq(BOOLEAN)
    BY <1>2, <2>1 DEF TypeOK, mp, Planner
  <2>3. Len(mp.queue) \in Nat /\ Len(Tail(mp.queue)) = Len(mp.queue) - 1
    BY <2>1, <2>2, HeadTailProperties, LenProperties
  <2>4. QED BY <1>1, <1>2, <2>1, <2>2, <2>3, DepthAssumption DEF Paced, Starting
<1>8. ASSUME NEW v \in Orders, Message(v) PROVE Paced'
  <2>1. CASE v # 0 /\ MayEnter
    <3>1. EnterCycle /\ cm' = cm /\ cm \in 1 .. 2 /\ mps[cm] \in Planner
      BY <1>2, <1>8, <2>1 DEF Message, TypeOK
    <3>2. mp.queue = <<>>
      BY <1>1, <3>1 DEF EnterCycle
    <3>3. mp'.queue = <<>>
      BY <1>2, <3>1, <3>2 DEF EnterCycle, TypeOK, mp, Planner
    <3>4. QED BY <3>3, DepthAssumption DEF Paced, Starting
  <2>2. QED BY <1>3, <1>8, <2>1 DEF Message, pass
<1>9. CASE RestOfPass
  BY <1>1, <1>2, <1>9 DEF RestOfPass, jgv, Calm, Paced, Starting, mp, EndPass
<1>10. CASE EnterP2 \/ RunAlarm \/ Returned \/ Flush \/ Resume \/ OperationWaits
  <2>1. hold \in {"OFF", "HOLD"} => ~ active
    BY <1>1, <1>2, <1>10 DEF EnterP2, RunAlarm, Returned, Flush, Resume, OperationWaits
  <2>2. active' = active
    BY <1>10 DEF EnterP2, RunAlarm, Returned, Flush, Resume, OperationWaits, ExitP2, Slip, jgv
  <2>3. QED BY <1>1, <1>2, <2>1, <2>2 DEF Calm
<1>11. CASE Feedhold \/ Clear \/ TakeOver
  BY <1>3, <1>11 DEF Feedhold, Clear, TakeOver, jgv, pass
<1>12. CASE TakeOverEnds
  BY <1>1, <1>2, <1>12 DEF TakeOverEnds, jgv, HeldInP2, Calm, mc, TypeOK
<1>13. CASE UNCHANGED vars
  BY <1>3, <1>13 DEF vars, jgv, pass
<1>14. QED
  BY <1>4, <1>5, <1>6, <1>7, <1>8, <1>9, <1>10, <1>11, <1>12, <1>13
     DEF Next, Main, Host, OperationEnds

\* A change of velocity never waits behind more than Depth segments, not even
\* while only the pace of the commits keeps the queue short: for all times, if a
\* pass does not take longer between the two callbacks than the pace exceeds the
\* planner's block timer.
THEOREM LagStaysBounded ==
  ASSUME PassTime <= StartupPace - BlockTimeout PROVE Spec => []LagIsBounded
<1>1. PassTime <= Margin
  BY DEF Margin
<1>2. Init => LagInv
  BY DEF Init, LagInv, Paced
<1>3. JogInv /\ LagInv /\ [Next]_vars => LagInv'
  BY <1>1, PaceStep
<1>4. LagInv => LagIsBounded
  BY DEF LagInv, Paced, LagIsBounded
<1>5. QED BY <1>2, <1>3, <1>4, InvHolds, PTL DEF Spec
===========================================================================
