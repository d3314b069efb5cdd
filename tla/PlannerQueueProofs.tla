------------------------ MODULE PlannerQueueProofs ------------------------
(***************************************************************************)
(* What holds of the planner ring for every size, headroom and set of      *)
(* lines.  RingInv carries the shape of the ring, whatever the lines are;  *)
(* CountInv carries the bookkeeping of the counter, up to the first line   *)
(* that is longer than the headroom.  OrderInv says how far the planner    *)
(* has got with each block of the ring.                                    *)
(***************************************************************************)
EXTENDS PlannerQueue, SequenceTheorems, TLAPS

RingInv ==
  /\ TypeOK
  /\ UsedAreTheRunToWrite
  /\ Open = 1 => used < QueueSize /\ todo # <<>>

---------------------------------------------------------------------------
(* The ring's arithmetic *)

LEMMA SlotAfterIsSlot ==
  ASSUME NEW i \in Slots, NEW k \in 0 .. QueueSize
  PROVE  SlotAfter(i, k) \in Slots
BY SizeAssumption DEF SlotAfter, Slots

LEMMA NxIsSlotAfter ==
  ASSUME NEW i \in Slots, NEW k \in 0 .. QueueSize - 1
  PROVE  /\ Nx(i) \in Slots
         /\ Nx(SlotAfter(i, k)) = SlotAfter(i, k + 1)
         /\ SlotAfter(Nx(i), k) = SlotAfter(i, k + 1)
BY SizeAssumption DEF SlotAfter, Slots, Nx

\* Two offsets of less than a turn name two buffers.
LEMMA SlotAfterInjective ==
  ASSUME NEW i \in Slots, NEW j \in 0 .. QueueSize - 1,
         NEW k \in 0 .. QueueSize - 1, SlotAfter(i, j) = SlotAfter(i, k)
  PROVE  j = k
BY SizeAssumption DEF SlotAfter, Slots

\* Every buffer is at some offset from the run buffer.
LEMMA SlotAfterOnto ==
  ASSUME NEW i \in Slots, NEW s \in Slots
  PROVE  \E k \in 0 .. QueueSize - 1 : s = SlotAfter(i, k)
<1>1. CASE s >= i
  <2>1. /\ s - i \in 0 .. QueueSize - 1
        /\ s = SlotAfter(i, s - i)
    BY <1>1, SizeAssumption DEF SlotAfter, Slots
  <2>2. QED BY <2>1
<1>2. CASE s < i
  <2>1. /\ s - i + QueueSize \in 0 .. QueueSize - 1
        /\ s = SlotAfter(i, s - i + QueueSize)
    BY <1>2, SizeAssumption DEF SlotAfter, Slots
  <2>2. QED BY <2>1
<1>3. QED BY <1>1, <1>2, SizeAssumption DEF Slots

---------------------------------------------------------------------------
(* The shape of the ring *)

LEMMA InitRing == Init => RingInv
<1>1. SUFFICES ASSUME Init PROVE RingInv
  OBVIOUS
<1>2. TypeOK
  BY <1>1, SizeAssumption DEF Init, TypeOK, Slots, BufferState, EMPTY
<1>3. \A k \in 0 .. QueueSize - 1 : SlotAfter(r, k) \in Slots
  BY <1>2, SlotAfterIsSlot, SizeAssumption DEF TypeOK
<1>4. UsedAreTheRunToWrite
  BY <1>1, <1>3, SizeAssumption DEF Init, UsedAreTheRunToWrite, Open, SlotAfter
<1>5. QED BY <1>1, <1>2, <1>4 DEF RingInv, Init, Open

\* A ring all of whose buffers are where they were, in use or not, keeps its
\* shape: planning and running a block only move it between states.
LEMMA SameShape ==
  ASSUME RingInv, TypeOK', UNCHANGED <<r, w, used, block, todo>>, Open' = Open,
         \A s \in Slots : bufferState'[s] = EMPTY <=> bufferState[s] = EMPTY,
         Open = 1 => bufferState'[w] = bufferState[w]
  PROVE  RingInv'
<1>1. \A k \in 0 .. QueueSize - 1 : SlotAfter(r, k) \in Slots
  BY SlotAfterIsSlot, SizeAssumption DEF RingInv, TypeOK
<1>2. UsedAreTheRunToWrite'
  <2>1. w' = SlotAfter(r, used)'
    BY DEF RingInv, UsedAreTheRunToWrite, SlotAfter
  <2>2. SUFFICES ASSUME NEW k \in 0 .. QueueSize - 1
        PROVE  LET i == SlotAfter(r, k) IN
               /\ k < used => bufferState'[i] # EMPTY /\ block[i] \in Block
               /\ k = used => bufferState'[i] = IF Open = 1 THEN INITIALIZING ELSE EMPTY
               /\ k > used => bufferState'[i] = EMPTY
    BY <2>1 DEF UsedAreTheRunToWrite, SlotAfter
  <2> DEFINE i == SlotAfter(r, k)
  <2>3. i \in Slots /\ (k = used => i = w)
    BY <1>1 DEF RingInv, UsedAreTheRunToWrite
  <2>4. /\ k < used => bufferState[i] # EMPTY /\ block[i] \in Block
        /\ k = used => bufferState[i] = IF Open = 1 THEN INITIALIZING ELSE EMPTY
        /\ k > used => bufferState[i] = EMPTY
    BY DEF RingInv, UsedAreTheRunToWrite
  <2>5. bufferState'[i] = EMPTY <=> bufferState[i] = EMPTY
    BY <2>3
  <2>6. k = used /\ Open = 1 => bufferState'[i] = bufferState[i]
    BY <2>3
  <2>7. Open \in {0, 1}
    BY DEF Open
  <2>8. QED BY <2>4, <2>5, <2>6, <2>7
<1>3. QED BY <1>2 DEF RingInv

LEMMA RingTypes ==
  ASSUME RingInv, Next
  PROVE  TypeOK'
<1> USE DEF RingInv
<1>1. CASE DispatchLine
  BY <1>1, LineAssumption DEF DispatchLine, TypeOK, ring
<1>2. CASE LineDone
  BY <1>2 DEF LineDone, TypeOK, ring
<1>3. CASE GetWriteBuffer
  BY <1>3 DEF GetWriteBuffer, TypeOK, BufferState, INITIALIZING
<1>4. CASE StoreAvailable
  BY <1>4 DEF StoreAvailable, TypeOK, ring, Decremented
<1>5. CASE GetWriteBufferFails
  BY <1>5 DEF GetWriteBufferFails, TypeOK, ring
<1>6. CASE CommitWriteBuffer
  <2>1. /\ todo # <<>> /\ todo \in Seq(Block)
        /\ used \in 0 .. QueueSize - 1
    BY <1>6, SizeAssumption DEF CommitWriteBuffer, TypeOK, Open
  <2>2. /\ Head(todo) \in Block
        /\ Tail(todo) \in Seq(Block)
    BY <2>1
  <2>3. w' \in Slots
    BY <1>6, SizeAssumption DEF CommitWriteBuffer, TypeOK, Nx, Slots
  <2>4. QED BY <1>6, <2>1, <2>2, <2>3, SizeAssumption DEF CommitWriteBuffer, TypeOK
<1>7. CASE PlanBlockList
  BY <1>7 DEF PlanBlockList, TypeOK, BufferState, BACK_PLANNED, main
<1>8. CASE Unplan
  BY <1>8 DEF Unplan, TypeOK, BufferState, BACK_PLANNED, main
<1>9. CASE PlannerReset
  <2>1. 0 \in Slots /\ QueueSize \in 0 .. 255 /\ 0 \in 0 .. QueueSize
    BY SizeAssumption DEF Slots
  <2>2. QED BY <1>9, <2>1 DEF PlannerReset, TypeOK, BufferState, EMPTY
<1>10. CASE ForwardPlan
  BY <1>10 DEF ForwardPlan, TypeOK, BufferState, FULLY_PLANNED, main
<1>11. CASE StartMove
  BY <1>11 DEF StartMove, TypeOK, BufferState, RUNNING, main
<1>12. CASE FreeRunBuffer
  <2>1. used >= 1
    <3>1. bufferState[r] # EMPTY
      BY <1>12 DEF FreeRunBuffer, Runnable, EMPTY, BACK_PLANNED, RUNNING
    <3>2. SlotAfter(r, 0) = r /\ 0 \in 0 .. QueueSize - 1
      BY SizeAssumption DEF TypeOK, SlotAfter, Slots
    <3>3. used = 0 => Open = 1
      BY <3>1, <3>2 DEF UsedAreTheRunToWrite, TypeOK
    <3>4. used = 0 => bufferState[r] = INITIALIZING /\ w = r
      BY <3>2, <3>3 DEF UsedAreTheRunToWrite
    <3>5. used # 0
      BY <1>12, <3>4, BlockAssumption
         DEF FreeRunBuffer, Runnable, INITIALIZING, BACK_PLANNED, RUNNING
    <3>6. QED BY <3>5 DEF TypeOK
  <2>2. r' \in Slots
    BY <1>12, SizeAssumption DEF FreeRunBuffer, TypeOK, Nx, Slots
  <2>3. available' \in 0 .. 255
    BY <1>12 DEF FreeRunBuffer, TypeOK, Incremented
  <2>4. bufferState' \in [Slots -> BufferState] /\ block' \in [Slots -> Block \cup {NoBlock}]
    BY <1>12 DEF FreeRunBuffer, TypeOK, BufferState, EMPTY
  <2>5. QED BY <1>12, <2>1, <2>2, <2>3, <2>4, SizeAssumption
            DEF FreeRunBuffer, TypeOK, main
<1>13. QED
  BY <1>1, <1>2, <1>3, <1>4, <1>5, <1>6, <1>7, <1>8, <1>9, <1>10, <1>11,
     <1>12 DEF Next

\* Taking the buffer at w: the ring was not full, since w is EMPTY.
LEMMA RingOpens ==
  ASSUME RingInv, GetWriteBuffer, TypeOK'
  PROVE  RingInv'
<1> USE DEF RingInv
<1>1. used < QueueSize
  <2>1. used = QueueSize => w = SlotAfter(r, 0) /\ 0 \in 0 .. QueueSize - 1
    BY SizeAssumption DEF UsedAreTheRunToWrite, SlotAfter, TypeOK, Slots
  <2>2. used = QueueSize => bufferState[w] # EMPTY
    BY <2>1, SizeAssumption DEF UsedAreTheRunToWrite, TypeOK
  <2>3. QED BY <2>2, SizeAssumption DEF GetWriteBuffer, TypeOK
<1>2. Open' = 1
  BY DEF GetWriteBuffer, Open
<1>3. Open = 0
  BY DEF GetWriteBuffer, Open
<1>4. \A k \in 0 .. QueueSize - 1 : SlotAfter(r, k) = w => k = used
  BY <1>1, SlotAfterInjective, SizeAssumption DEF UsedAreTheRunToWrite, TypeOK
<1>5. ASSUME NEW k \in 0 .. QueueSize - 1
      PROVE  /\ k < used => bufferState'[SlotAfter(r, k)] # EMPTY
             /\ k = used => bufferState'[SlotAfter(r, k)] = INITIALIZING
             /\ k > used => bufferState'[SlotAfter(r, k)] = EMPTY
  <2>1. SlotAfter(r, k) \in Slots
    BY SlotAfterIsSlot, SizeAssumption DEF TypeOK
  <2>2. CASE k = used
    BY <2>1, <2>2 DEF GetWriteBuffer, UsedAreTheRunToWrite, TypeOK
  <2>3. CASE k # used
    <3>1. bufferState'[SlotAfter(r, k)] = bufferState[SlotAfter(r, k)]
      BY <1>4, <2>1, <2>3 DEF GetWriteBuffer, TypeOK
    <3>2. QED BY <3>1, <2>3 DEF UsedAreTheRunToWrite
  <2>4. QED BY <2>2, <2>3
<1>6. UsedAreTheRunToWrite'
  BY <1>2, <1>5 DEF GetWriteBuffer, UsedAreTheRunToWrite, SlotAfter
<1>7. QED BY <1>1, <1>6 DEF GetWriteBuffer

\* Committing it: the buffer at w becomes the last of the used ones.
LEMMA RingCommits ==
  ASSUME RingInv, CommitWriteBuffer, TypeOK'
  PROVE  RingInv'
<1> USE DEF RingInv
<1>1. /\ used < QueueSize
      /\ Open = 1
      /\ Open' = 0
  BY DEF CommitWriteBuffer, Open
<1>0. Head(todo) \in Block
  <2>1. todo \in Seq(Block) /\ todo # <<>>
    BY <1>1 DEF TypeOK
  <2>2. QED BY <2>1, HeadTailProperties
<1>2. w' = SlotAfter(r, used')
  <2>1. r \in Slots /\ used \in 0 .. QueueSize - 1
    BY <1>1, SizeAssumption DEF TypeOK
  <2>2. w = SlotAfter(r, used) /\ w' = Nx(w) /\ used' = used + 1
    BY DEF CommitWriteBuffer, UsedAreTheRunToWrite
  <2>3. QED BY <2>1, <2>2, NxIsSlotAfter
<1>3. \A k \in 0 .. QueueSize - 1 : SlotAfter(r, k) = w => k = used
  BY <1>1, SlotAfterInjective, SizeAssumption DEF UsedAreTheRunToWrite, TypeOK
<1>4. ASSUME NEW k \in 0 .. QueueSize - 1
      PROVE  /\ k < used' => /\ bufferState[SlotAfter(r, k)] # EMPTY
                             /\ block'[SlotAfter(r, k)] \in Block
             /\ k >= used' => bufferState[SlotAfter(r, k)] = EMPTY
  <2>1. SlotAfter(r, k) \in Slots
    BY SlotAfterIsSlot, SizeAssumption DEF TypeOK
  <2>2. CASE k = used
    BY <1>0, <1>1, <2>1, <2>2
       DEF CommitWriteBuffer, UsedAreTheRunToWrite, TypeOK, INITIALIZING, EMPTY
  <2>3. CASE k # used
    <3>1. block'[SlotAfter(r, k)] = block[SlotAfter(r, k)]
      BY <1>3, <2>1, <2>3 DEF CommitWriteBuffer, TypeOK
    <3>2. QED BY <3>1, <2>3 DEF UsedAreTheRunToWrite, CommitWriteBuffer, TypeOK
  <2>4. QED BY <2>2, <2>3
<1>5. UsedAreTheRunToWrite'
  BY <1>1, <1>2, <1>4 DEF CommitWriteBuffer, UsedAreTheRunToWrite, SlotAfter, TypeOK
<1>6. QED BY <1>1, <1>5

\* Freeing the run buffer: every offset from r shrinks by one, and the freed
\* buffer becomes the farthest one.
LEMMA RingFrees ==
  ASSUME RingInv, FreeRunBuffer, TypeOK'
  PROVE  RingInv'
<1> USE DEF RingInv
<1>1. used >= 1 /\ Open' = Open
  BY DEF FreeRunBuffer, TypeOK, Open, main
<1>2. ASSUME NEW k \in 0 .. QueueSize - 1
      PROVE  SlotAfter(r, k)' = SlotAfter(r, k + 1)
  BY NxIsSlotAfter DEF FreeRunBuffer, TypeOK, SlotAfter
<1>3. w' = SlotAfter(r, used)'
  <2>1. used' = used - 1 /\ used' \in 0 .. QueueSize - 1
    BY <1>1, SizeAssumption DEF FreeRunBuffer, TypeOK
  <2>2. w' = SlotAfter(r, used' + 1)
    BY <2>1 DEF FreeRunBuffer, UsedAreTheRunToWrite, TypeOK
  <2>3. SlotAfter(Nx(r), used') = SlotAfter(r, used' + 1)
    BY <2>1, NxIsSlotAfter DEF TypeOK
  <2>4. QED BY <2>2, <2>3 DEF FreeRunBuffer, SlotAfter
<1>4. ASSUME NEW k \in 0 .. QueueSize - 1
      PROVE  LET i == SlotAfter(r, k + 1) IN
             /\ k < used' => bufferState'[i] # EMPTY /\ block'[i] \in Block
             /\ k = used' => bufferState'[i] = IF Open = 1 THEN INITIALIZING ELSE EMPTY
             /\ k > used' => bufferState'[i] = EMPTY
  <2>1. SlotAfter(r, 0) = r /\ 0 \in 0 .. QueueSize - 1 /\ r \in Slots
    BY SizeAssumption DEF TypeOK, SlotAfter, Slots
  <2>2. CASE k = QueueSize - 1
    <3>1. SlotAfter(r, k + 1) = r
      BY <2>2, SizeAssumption DEF TypeOK, SlotAfter, Slots
    <3>2. bufferState'[r] = EMPTY
      BY <2>1 DEF FreeRunBuffer, TypeOK
    <3>3. k >= used' /\ (k = used' => used = QueueSize)
      BY <2>2, <1>1, SizeAssumption DEF FreeRunBuffer, TypeOK
    <3>4. k = used' => Open = 0
      BY <3>3, SizeAssumption DEF TypeOK, Open
    <3>5. QED BY <3>1, <3>2, <3>3, <3>4 DEF TypeOK
  <2>3. CASE k < QueueSize - 1
    <3> DEFINE s == SlotAfter(r, k + 1)
    <3>1. k + 1 \in 0 .. QueueSize - 1
      BY <2>3, SizeAssumption
    <3>2. s \in Slots
      BY <3>1, SlotAfterIsSlot, SizeAssumption DEF TypeOK
    <3>3. s # r
      BY <2>1, <3>1, SlotAfterInjective, SizeAssumption DEF TypeOK
    <3>4. bufferState'[s] = bufferState[s] /\ block'[s] = block[s]
      BY <3>2, <3>3 DEF FreeRunBuffer, TypeOK
    <3>5. /\ k + 1 < used => bufferState[s] # EMPTY /\ block[s] \in Block
          /\ k + 1 = used => bufferState[s] = IF Open = 1 THEN INITIALIZING ELSE EMPTY
          /\ k + 1 > used => bufferState[s] = EMPTY
      BY <3>1 DEF UsedAreTheRunToWrite
    <3>6. used' = used - 1 /\ used \in Nat /\ k \in Nat
      BY DEF FreeRunBuffer, TypeOK
    <3>7. /\ k < used' <=> k + 1 < used
          /\ k = used' <=> k + 1 = used
          /\ k > used' <=> k + 1 > used
      BY <3>6
    <3>8. QED BY <3>4, <3>5, <3>7
  <2>4. QED BY <2>2, <2>3, SizeAssumption
<1>5. UsedAreTheRunToWrite'
  BY <1>1, <1>2, <1>3, <1>4 DEF UsedAreTheRunToWrite
<1>6. QED
  BY <1>1, <1>5, SizeAssumption DEF FreeRunBuffer, TypeOK, main

\* Flushing it: an empty ring at its first buffer.
LEMMA RingResets ==
  ASSUME RingInv, PlannerReset, TypeOK'
  PROVE  RingInv'
<1>1. Open' = 0 /\ r' = 0 /\ used' = 0 /\ w' = 0
  BY DEF PlannerReset, Open, main
<1>2. \A k \in 0 .. QueueSize - 1 : SlotAfter(0, k) \in Slots
  BY SlotAfterIsSlot, SizeAssumption DEF Slots
<1>3. UsedAreTheRunToWrite'
  BY <1>1, <1>2, SizeAssumption
     DEF PlannerReset, UsedAreTheRunToWrite, SlotAfter
<1>4. QED BY <1>1, <1>3 DEF RingInv

LEMMA RingStep == RingInv /\ [Next]_vars => RingInv'
<1> SUFFICES ASSUME RingInv, [Next]_vars PROVE RingInv'
  OBVIOUS
<1>1. CASE UNCHANGED vars
  BY <1>1 DEF vars, RingInv, TypeOK, UsedAreTheRunToWrite, SlotAfter, Open
<1>2. CASE Next
  <2>1. TypeOK'
    BY <1>2, RingTypes
  <2>2. CASE DispatchLine
    BY <2>1, <2>2 DEF DispatchLine, ring, RingInv, UsedAreTheRunToWrite, SlotAfter, Open
  <2>3. CASE LineDone
    BY <2>1, <2>3, SameShape DEF LineDone, ring, Open
  <2>4. CASE GetWriteBuffer
    BY <2>1, <2>4, RingOpens
  <2>5. CASE StoreAvailable
    BY <2>1, <2>5, SameShape DEF StoreAvailable, ring, Open
  <2>6. CASE GetWriteBufferFails
    BY <2>1, <2>6, SameShape DEF GetWriteBufferFails, ring, Open
  <2>7. CASE CommitWriteBuffer
    BY <2>1, <2>7, RingCommits
  <2>8. CASE PlanBlockList
    <3>1. \A s \in Slots : bufferState'[s] = EMPTY <=> bufferState[s] = EMPTY
      BY <2>8 DEF PlanBlockList, EMPTY, INITIALIZING, BACK_PLANNED
    <3>2. Open = 0
      BY <2>8 DEF PlanBlockList, Open
    <3>3. QED BY <2>1, <2>8, <3>1, <3>2, SameShape DEF PlanBlockList, main, Open
  <2>9. CASE Unplan
    <3> DEFINE planned == {k \in 0 .. QueueSize - 1 : \A j \in 0 .. k :
                             bufferState[SlotAfter(r, j)] > BACK_PLANNED}
               back == {SlotAfter(r, k) : k \in planned}
    <3>1. /\ UNCHANGED <<block, r, w, used, available, main>>
          /\ bufferState' = [i \in Slots |-> IF i \in back THEN BACK_PLANNED
                                            ELSE bufferState[i]]
      BY <2>9 DEF Unplan
    <3>2. \A s \in back : bufferState[s] > BACK_PLANNED
      <4>1. \A k \in 0 .. QueueSize - 1 : k \in 0 .. k
        OBVIOUS
      <4>2. QED BY <4>1
    <3> HIDE DEF back
    <3>3. \A s \in Slots : bufferState'[s] = EMPTY <=> bufferState[s] = EMPTY
      BY <3>1, <3>2 DEF EMPTY, BACK_PLANNED
    <3>4. Open = 1 => bufferState'[w] = bufferState[w]
      <4>1. Open = 1 => bufferState[w] = INITIALIZING /\ w \in Slots
        BY SizeAssumption DEF RingInv, TypeOK, UsedAreTheRunToWrite
      <4>2. QED BY <4>1, <3>1, <3>2 DEF INITIALIZING, BACK_PLANNED
    <3>5. QED BY <2>1, <3>1, <3>3, <3>4, SameShape DEF main, Open
  <2>10. CASE PlannerReset
    BY <2>1, <2>10, RingResets
  <2>11. CASE ForwardPlan
    <3> DEFINE first == IF bufferState[r] = RUNNING THEN 1 ELSE 0
               at(k) == SlotAfter(r, k)
               reached == {k \in first .. QueueSize - 1 : \A j \in first .. k - 1 :
                             block[at(j)] \in Command}
               planned == {at(k) : k \in {j \in reached :
                             /\ block[at(j)] # NoBlock
                             /\ bufferState[at(j)] = BACK_PLANNED}}
    <3>1. /\ UNCHANGED <<block, r, w, used, available, main>>
          /\ bufferState' = [i \in Slots |-> IF i \in planned THEN FULLY_PLANNED
                                            ELSE bufferState[i]]
      BY <2>11 DEF ForwardPlan
    <3>2. \A s \in planned : bufferState[s] = BACK_PLANNED
      OBVIOUS
    <3> HIDE DEF planned
    <3>3. \A s \in Slots : bufferState'[s] = EMPTY <=> bufferState[s] = EMPTY
      BY <3>1, <3>2 DEF EMPTY, BACK_PLANNED, FULLY_PLANNED
    <3>4. Open = 1 => bufferState'[w] = bufferState[w]
      <4>1. Open = 1 => bufferState[w] = INITIALIZING /\ w \in Slots
        BY SizeAssumption DEF RingInv, TypeOK, UsedAreTheRunToWrite
      <4>2. QED BY <4>1, <3>1, <3>2 DEF INITIALIZING, BACK_PLANNED
    <3>5. QED BY <2>1, <3>1, <3>3, <3>4, SameShape DEF main, Open
  <2>12. CASE StartMove
    <3>1. \A s \in Slots : bufferState'[s] = EMPTY <=> bufferState[s] = EMPTY
      BY <2>12 DEF StartMove, RingInv, TypeOK, EMPTY, FULLY_PLANNED, RUNNING
    <3>2. Open = 1 => bufferState'[w] = bufferState[w]
      <4>1. Open = 1 => bufferState[w] = INITIALIZING /\ w \in Slots
        BY SizeAssumption DEF RingInv, TypeOK, UsedAreTheRunToWrite
      <4>2. QED BY <4>1, <2>12 DEF StartMove, INITIALIZING, FULLY_PLANNED
    <3>3. QED BY <2>1, <2>12, <3>1, <3>2, SameShape DEF StartMove, main, Open
  <2>13. CASE FreeRunBuffer
    BY <2>1, <2>13, RingFrees
  <2>14. QED
    BY <1>2, <2>2, <2>3, <2>4, <2>5, <2>6, <2>7, <2>8, <2>9, <2>10, <2>11,
       <2>12, <2>13 DEF Next
<1>3. QED BY <1>1, <1>2

\* The committed blocks are the buffers from r to w, whatever the sizes, the
\* lines and the interleaving of the planner and the interrupts.
THEOREM RingIsContiguous == Spec => []RingInv
<1>1. QED BY InitRing, RingStep, PTL DEF Spec

\* The pointers stay within the ring and the number of used buffers within its
\* size, for every size of it.
THEOREM TypeCorrect == Spec => []TypeOK
<1>1. RingInv => TypeOK
  BY DEF RingInv
<1>2. QED BY <1>1, RingIsContiguous, PTL

\* However takes, commits, frees and resets interleave, the buffers in use are
\* the ones from the run pointer to the write pointer, in that order.
THEOREM UsedBuffersAreContiguous == Spec => []UsedAreTheRunToWrite
<1>1. RingInv => UsedAreTheRunToWrite
  BY DEF RingInv
<1>2. QED BY <1>1, RingIsContiguous, PTL

---------------------------------------------------------------------------
(* What mp_free_run_buffer() answers, and who may be RUNNING *)

\* The run buffer of a runnable ring is a committed one.
LEMMA RunnableIsUsed == RingInv /\ Runnable => used >= 1
<1> SUFFICES ASSUME RingInv, Runnable PROVE used >= 1
  OBVIOUS
<1>1. SlotAfter(r, 0) = r /\ 0 \in 0 .. QueueSize - 1
  BY SizeAssumption DEF RingInv, TypeOK, SlotAfter, Slots
<1>2. bufferState[r] \notin {EMPTY, INITIALIZING}
  BY BlockAssumption
     DEF RingInv, TypeOK, Runnable, EMPTY, INITIALIZING, BACK_PLANNED, RUNNING
<1>3. used # 0
  BY <1>1, <1>2 DEF RingInv, UsedAreTheRunToWrite
<1>4. QED BY <1>3 DEF RingInv, TypeOK

\* mp_free_run_buffer() says "the queue emptied" exactly when it frees the
\* last committed block; mp_exec_move() ends the cycle on that answer.
THEOREM EmptiedAnswerIsExact == Spec => []EmptiedIsExact
<1>1. RingInv => EmptiedIsExact
  <2> SUFFICES ASSUME RingInv, Runnable PROVE ReportsEmptied <=> used = 1
    BY DEF EmptiedIsExact
  <2>1. used >= 1
    BY RunnableIsUsed
  <2>2. SlotAfter(r, 1) = Nx(r) /\ SlotAfter(r, 0) = r
    BY SizeAssumption DEF RingInv, TypeOK, SlotAfter, Slots, Nx
  <2>3. w = SlotAfter(r, used)
    BY DEF RingInv, UsedAreTheRunToWrite
  <2>4. CASE used < QueueSize
    <3>1. used \in 0 .. QueueSize - 1 /\ 1 \in 0 .. QueueSize - 1 /\ r \in Slots
      BY <2>4, SizeAssumption DEF RingInv, TypeOK
    <3>2. w = Nx(r) => used = 1
      BY <2>2, <2>3, <3>1, SlotAfterInjective
    <3>3. QED BY <2>2, <2>3, <3>2 DEF ReportsEmptied
  <2>5. CASE used = QueueSize
    <3>1. w = r
      BY <2>3, <2>5, SizeAssumption DEF RingInv, TypeOK, SlotAfter, Slots
    <3>2. Nx(r) # r
      BY SizeAssumption DEF RingInv, TypeOK, Nx, Slots
    <3>3. QED BY <2>5, <3>1, <3>2, SizeAssumption DEF ReportsEmptied
  <2>6. QED BY <2>4, <2>5, SizeAssumption DEF RingInv, TypeOK
<1>2. QED BY <1>1, RingIsContiguous, PTL

\* No block is RUNNING except the one at r, so the exec and the forward
\* planner, which look at r alone, never lose a move in progress.
THEOREM OneRunning == Spec => []OnlyTheRunBufferRuns
<1>1. Init => OnlyTheRunBufferRuns
  BY DEF Init, OnlyTheRunBufferRuns, EMPTY, RUNNING
<1>2. RingInv /\ OnlyTheRunBufferRuns /\ [Next]_vars => OnlyTheRunBufferRuns'
  <2> SUFFICES ASSUME RingInv, OnlyTheRunBufferRuns, [Next]_vars
               PROVE  OnlyTheRunBufferRuns'
    OBVIOUS
  <2> USE DEF RingInv, TypeOK, OnlyTheRunBufferRuns
  <2>1. CASE UNCHANGED <<bufferState, r>>
    BY <2>1
  <2>2. CASE GetWriteBuffer
    BY <2>2 DEF GetWriteBuffer, INITIALIZING, RUNNING
  <2>3. CASE PlanBlockList
    BY <2>3 DEF PlanBlockList, BACK_PLANNED, RUNNING
  <2>4. CASE Unplan
    BY <2>4 DEF Unplan, BACK_PLANNED, RUNNING
  <2>5. CASE PlannerReset
    BY <2>5 DEF PlannerReset, EMPTY, RUNNING
  <2>6. CASE ForwardPlan
    BY <2>6 DEF ForwardPlan, FULLY_PLANNED, RUNNING
  <2>7. CASE StartMove
    BY <2>7 DEF StartMove
  <2>8. CASE FreeRunBuffer
    BY <2>8 DEF FreeRunBuffer, EMPTY, RUNNING
  <2>9. QED
    BY <2>1, <2>2, <2>3, <2>4, <2>5, <2>6, <2>7, <2>8
       DEF Next, vars, ring, DispatchLine, LineDone, StoreAvailable,
           GetWriteBufferFails, CommitWriteBuffer
<1>3. QED BY <1>1, <1>2, RingIsContiguous, PTL DEF Spec

---------------------------------------------------------------------------
(* One move is planned ahead *)

Offsets == 0 .. QueueSize - 1
StateAt(k) == bufferState[SlotAfter(r, k)]
BlockAt(k) == block[SlotAfter(r, k)]

\* The blocks are back-planned from the run buffer on, without a gap.
PlannedPrefix ==
  \A k \in Offsets : StateAt(k) >= BACK_PLANNED
    => \A j \in 0 .. k - 1 : StateAt(j) >= BACK_PLANNED

\* Between the run buffer and a move with its ramps there are only commands
\* that are planned through; the run buffer itself may be a running move.
Ahead(k) == /\ StateAt(k) > BACK_PLANNED
            /\ BlockAt(k) \in Command \/ (k = 0 /\ StateAt(k) = RUNNING)
PlannedInOrder ==
  \A k \in Offsets : StateAt(k) = FULLY_PLANNED /\ BlockAt(k) \in Aline
    => \A j \in 0 .. k - 1 : Ahead(j)

OrderInv == RingInv /\ PlannedPrefix /\ PlannedInOrder

LEMMA BeforeAnOffset ==
  ASSUME NEW k \in Offsets, NEW j \in 0 .. k - 1
  PROVE  j \in Offsets /\ j < k
BY SizeAssumption DEF Offsets

LEMMA StateTypes ==
  ASSUME TypeOK, NEW k \in Offsets
  PROVE  SlotAfter(r, k) \in Slots /\ StateAt(k) \in 0 .. 5
<1>1. SlotAfter(r, k) \in Slots
  BY SlotAfterIsSlot, SizeAssumption DEF TypeOK, Offsets
<1>2. QED
  BY <1>1 DEF TypeOK, StateAt, BufferState, EMPTY, INITIALIZING, BACK_PLANNED,
       FULLY_PLANNED, RUNNING

LEMMA RunIsFirst ==
  ASSUME TypeOK
  PROVE  SlotAfter(r, 0) = r
BY SizeAssumption DEF TypeOK, SlotAfter, Slots

\* A committed block is not EMPTY; the others are EMPTY or being filled.
LEMMA UsedOffsets ==
  ASSUME RingInv, NEW k \in Offsets
  PROVE  /\ k < used => StateAt(k) # EMPTY /\ BlockAt(k) \in Block
         /\ k >= used => StateAt(k) \in {EMPTY, INITIALIZING}
         /\ k > used => StateAt(k) = EMPTY
         /\ k = used => StateAt(k) = IF Open = 1 THEN INITIALIZING ELSE EMPTY
<1>1. k \in 0 .. QueueSize - 1 /\ k \in Int /\ used \in Int
  BY SizeAssumption DEF Offsets, RingInv, TypeOK
<1>2. QED BY <1>1 DEF RingInv, UsedAreTheRunToWrite, StateAt, BlockAt

\* The main loop changes only blocks that the planner has not seen.
Untouched(k) == \/ StateAt(k)' = StateAt(k) /\ BlockAt(k)' = BlockAt(k)
                \/ StateAt(k) \in {EMPTY, INITIALIZING} /\ StateAt(k)' \in {EMPTY, INITIALIZING}

LEMMA OrderUntouched ==
  ASSUME OrderInv, \A k \in Offsets : Untouched(k)
  PROVE  PlannedPrefix' /\ PlannedInOrder'
<1>1. ASSUME NEW k \in Offsets, StateAt(k)' >= BACK_PLANNED
      PROVE  StateAt(k)' = StateAt(k) /\ BlockAt(k)' = BlockAt(k)
  BY <1>1 DEF Untouched, EMPTY, INITIALIZING, BACK_PLANNED
<1>2. ASSUME NEW k \in Offsets, StateAt(k) >= BACK_PLANNED
      PROVE  StateAt(k)' = StateAt(k) /\ BlockAt(k)' = BlockAt(k)
  BY <1>2 DEF Untouched, EMPTY, INITIALIZING, BACK_PLANNED
<1>3. PlannedPrefix'
  <2>1. SUFFICES ASSUME NEW k \in Offsets, StateAt(k)' >= BACK_PLANNED, NEW j \in 0 .. k - 1
                 PROVE  StateAt(j)' >= BACK_PLANNED
    BY Zenon DEF PlannedPrefix
  <2>2. StateAt(k) >= BACK_PLANNED /\ j \in Offsets
    BY <1>1, <2>1, BeforeAnOffset
  <2>3. StateAt(j) >= BACK_PLANNED
    BY <2>2 DEF OrderInv, PlannedPrefix
  <2>4. QED BY <1>2, <2>2, <2>3
<1>4. PlannedInOrder'
  <2>1. SUFFICES ASSUME NEW k \in Offsets, StateAt(k)' = FULLY_PLANNED, BlockAt(k)' \in Aline,
                        NEW j \in 0 .. k - 1
                 PROVE  Ahead(j)'
    BY Zenon DEF PlannedInOrder
  <2>2. StateAt(k)' >= BACK_PLANNED
    BY <2>1 DEF FULLY_PLANNED, BACK_PLANNED
  <2>3. StateAt(k) = FULLY_PLANNED /\ BlockAt(k) \in Aline /\ j \in Offsets
    BY <1>1, <2>1, <2>2, BeforeAnOffset
  <2>4. Ahead(j)
    BY <2>3 DEF OrderInv, PlannedInOrder
  <2>5. StateAt(j) >= BACK_PLANNED
    <3>1. StateAt(j) \in 0 .. 5
      BY <2>3, StateTypes DEF OrderInv, RingInv
    <3>2. QED BY <2>4, <3>1 DEF Ahead, BACK_PLANNED
  <2>6. StateAt(j)' = StateAt(j) /\ BlockAt(j)' = BlockAt(j)
    BY <1>2, <2>3, <2>5
  <2>7. QED BY <2>4, <2>6 DEF Ahead
<1>5. QED BY <1>3, <1>4

\* A step that keeps the states of all blocks, the buffer at w apart.
LEMMA OrderOutside ==
  ASSUME OrderInv, r' = r,
         \A s \in Slots : s # w => bufferState'[s] = bufferState[s] /\ block'[s] = block[s],
         \/ bufferState'[w] = bufferState[w] /\ block'[w] = block[w]
         \/ bufferState[w] \in {EMPTY, INITIALIZING} /\ bufferState'[w] \in {EMPTY, INITIALIZING}
  PROVE  PlannedPrefix' /\ PlannedInOrder'
<1>1. ASSUME NEW k \in Offsets PROVE Untouched(k)
  <2>1. /\ SlotAfter(r, k) \in Slots /\ SlotAfter(r', k) = SlotAfter(r, k)
        /\ StateAt(k)' = bufferState'[SlotAfter(r, k)]
        /\ BlockAt(k)' = block'[SlotAfter(r, k)]
    BY StateTypes DEF OrderInv, RingInv, StateAt, BlockAt, SlotAfter
  <2>2. CASE SlotAfter(r, k) = w
    BY <2>1, <2>2 DEF Untouched, StateAt, BlockAt
  <2>3. CASE SlotAfter(r, k) # w
    BY <2>1, <2>3 DEF Untouched, StateAt, BlockAt
  <2>4. QED BY <2>2, <2>3
<1>2. QED BY <1>1, OrderUntouched

LEMMA OrderWhenPlanned ==
  ASSUME OrderInv, PlanBlockList
  PROVE  PlannedPrefix' /\ PlannedInOrder'
<1>1. /\ RingInv /\ TypeOK /\ Open = 0
      /\ r' = r /\ block' = block
      /\ bufferState' = [i \in Slots |-> IF bufferState[i] = INITIALIZING
                                         THEN BACK_PLANNED ELSE bufferState[i]]
  BY DEF PlanBlockList, OrderInv, RingInv, Open
<1>2. ASSUME NEW k \in Offsets
      PROVE  /\ BlockAt(k)' = BlockAt(k) /\ StateAt(k) \in 0 .. 5
             /\ StateAt(k)' = IF StateAt(k) = INITIALIZING THEN BACK_PLANNED ELSE StateAt(k)
  <2>1. SlotAfter(r, k) \in Slots /\ StateAt(k) \in 0 .. 5
    BY <1>1, StateTypes
  <2>2. QED BY <1>1, <2>1 DEF StateAt, BlockAt, SlotAfter
<1>3. PlannedPrefix'
  <2>1. SUFFICES ASSUME NEW k \in Offsets, StateAt(k)' >= BACK_PLANNED, NEW j \in 0 .. k - 1
                 PROVE  StateAt(j)' >= BACK_PLANNED
    BY Zenon DEF PlannedPrefix
  <2>2. j \in Offsets /\ j < k /\ k \in Int /\ used \in Int
    BY <1>1, BeforeAnOffset, SizeAssumption DEF TypeOK, Offsets
  <2>3. StateAt(k) # EMPTY
    BY <1>2, <2>1 DEF EMPTY, BACK_PLANNED, INITIALIZING
  <2>4. k < used
    BY <1>1, <2>2, <2>3, UsedOffsets
  <2>5. StateAt(j) # EMPTY
    BY <1>1, <2>2, <2>4, UsedOffsets
  <2>6. StateAt(j)' # EMPTY /\ StateAt(j)' # INITIALIZING
    BY <1>2, <2>2, <2>5 DEF EMPTY, BACK_PLANNED, INITIALIZING
  <2>7. StateAt(j) \in BufferState
    BY <1>1, <2>2, StateTypes DEF TypeOK, StateAt
  <2>8. QED
    BY <1>2, <2>2, <2>6, <2>7 DEF BufferState, EMPTY, INITIALIZING, BACK_PLANNED,
       FULLY_PLANNED, RUNNING
<1>4. PlannedInOrder'
  <2>1. SUFFICES ASSUME NEW k \in Offsets, StateAt(k)' = FULLY_PLANNED, BlockAt(k)' \in Aline,
                        NEW j \in 0 .. k - 1
                 PROVE  Ahead(j)'
    BY Zenon DEF PlannedInOrder
  <2>2. StateAt(k) = FULLY_PLANNED /\ BlockAt(k) \in Aline /\ j \in Offsets
    BY <1>2, <2>1, BeforeAnOffset DEF FULLY_PLANNED, BACK_PLANNED
  <2>3. Ahead(j)
    BY <2>2 DEF OrderInv, PlannedInOrder
  <2>4. StateAt(j)' = StateAt(j) /\ BlockAt(j)' = BlockAt(j)
    BY <1>2, <2>2, <2>3 DEF Ahead, BACK_PLANNED, INITIALIZING
  <2>5. QED BY <2>3, <2>4 DEF Ahead
<1>5. QED BY <1>3, <1>4

\* The blocks that lose their plan are a prefix; a move behind a block that has
\* only its back plan has no ramps.
LEMMA OrderWhenUnplanned ==
  ASSUME OrderInv, Unplan
  PROVE  PlannedPrefix' /\ PlannedInOrder'
<1> DEFINE planned == {k \in 0 .. QueueSize - 1 : \A j \in 0 .. k :
                         bufferState[SlotAfter(r, j)] > BACK_PLANNED}
           back == {SlotAfter(r, k) : k \in planned}
<1>1. /\ TypeOK /\ r' = r /\ block' = block
      /\ bufferState' = [i \in Slots |-> IF i \in back THEN BACK_PLANNED ELSE bufferState[i]]
  BY DEF Unplan, OrderInv, RingInv
<1>2. \A s \in back : bufferState[s] > BACK_PLANNED
  <2>1. \A k \in 0 .. QueueSize - 1 : k \in 0 .. k
    OBVIOUS
  <2>2. QED BY <2>1
<1>3. ASSUME NEW k \in Offsets, \A j \in 0 .. k : StateAt(j) > BACK_PLANNED
      PROVE  SlotAfter(r, k) \in back
  BY <1>3 DEF Offsets, StateAt
<1> HIDE DEF back
<1>4. ASSUME NEW k \in Offsets
      PROVE  /\ BlockAt(k)' = BlockAt(k) /\ StateAt(k) \in 0 .. 5
             /\ StateAt(k)' = IF SlotAfter(r, k) \in back THEN BACK_PLANNED ELSE StateAt(k)
             /\ SlotAfter(r, k) \in back => StateAt(k) > BACK_PLANNED
  <2>1. SlotAfter(r, k) \in Slots /\ StateAt(k) \in 0 .. 5
    BY <1>1, StateTypes
  <2>2. QED BY <1>1, <1>2, <2>1 DEF StateAt, BlockAt, SlotAfter
<1>5. PlannedPrefix'
  <2>1. SUFFICES ASSUME NEW k \in Offsets, StateAt(k)' >= BACK_PLANNED, NEW j \in 0 .. k - 1
                 PROVE  StateAt(j)' >= BACK_PLANNED
    BY Zenon DEF PlannedPrefix
  <2>2. StateAt(k) >= BACK_PLANNED /\ j \in Offsets
    BY <1>4, <2>1, BeforeAnOffset DEF BACK_PLANNED
  <2>3. StateAt(j) >= BACK_PLANNED
    BY <2>2 DEF OrderInv, PlannedPrefix
  <2>4. QED BY <1>4, <2>2, <2>3 DEF BACK_PLANNED
<1>6. PlannedInOrder'
  <2>1. SUFFICES ASSUME NEW k \in Offsets, StateAt(k)' = FULLY_PLANNED, BlockAt(k)' \in Aline
                 PROVE  FALSE
    BY Zenon DEF PlannedInOrder
  <2>2. /\ StateAt(k) = FULLY_PLANNED /\ BlockAt(k) \in Aline
        /\ SlotAfter(r, k) \notin back
    BY <1>4, <2>1 DEF FULLY_PLANNED, BACK_PLANNED
  <2>3. \A j \in 0 .. k - 1 : StateAt(j) > BACK_PLANNED
    BY <2>2 DEF OrderInv, PlannedInOrder, Ahead
  <2>4. \A j \in 0 .. k : j = k \/ j \in 0 .. k - 1
    BY DEF Offsets
  <2>5. StateAt(k) > BACK_PLANNED
    BY <2>2 DEF FULLY_PLANNED, BACK_PLANNED
  <2>6. QED BY <1>3, <2>2, <2>3, <2>4, <2>5
<1>7. QED BY <1>5, <1>6

\* What the forward planner plans through is what is ahead of its move.
LEMMA OrderWhenForwardPlanned ==
  ASSUME OrderInv, ForwardPlan
  PROVE  PlannedPrefix' /\ PlannedInOrder'
<1> DEFINE first == IF bufferState[r] = RUNNING THEN 1 ELSE 0
           reached == {k \in first .. QueueSize - 1 : \A j \in first .. k - 1 :
                         block[SlotAfter(r, j)] \in Command}
           planned == {SlotAfter(r, k) : k \in {j \in reached :
                         /\ block[SlotAfter(r, j)] # NoBlock
                         /\ bufferState[SlotAfter(r, j)] = BACK_PLANNED}}
<1>1. /\ TypeOK /\ r' = r /\ block' = block /\ r \in Slots
      /\ bufferState' = [i \in Slots |-> IF i \in planned THEN FULLY_PLANNED
                                         ELSE bufferState[i]]
  BY DEF ForwardPlan, OrderInv, RingInv, TypeOK
<1>2. first \in {0, 1} /\ SlotAfter(r, 0) = r /\ (first = 1 <=> StateAt(0) = RUNNING)
  <2>1. SlotAfter(r, 0) = r
    BY <1>1, RunIsFirst
  <2>2. StateAt(0) = bufferState[r]
    BY <2>1 DEF StateAt
  <2>3. first = IF StateAt(0) = RUNNING THEN 1 ELSE 0
    BY <2>2
  <2> HIDE DEF first
  <2>4. QED BY <2>1, <2>3
<1>3. ASSUME NEW k \in Offsets
      PROVE  SlotAfter(r, k) \in planned <=>
               /\ k >= first /\ StateAt(k) = BACK_PLANNED /\ BlockAt(k) # NoBlock
               /\ \A j \in first .. k - 1 : BlockAt(j) \in Command
  <2>1. k \in 0 .. QueueSize - 1 /\ k \in Int
    BY SizeAssumption DEF Offsets
  <2>2. SlotAfter(r, k) \in planned <=> \E m \in reached :
          /\ BlockAt(m) # NoBlock /\ StateAt(m) = BACK_PLANNED /\ SlotAfter(r, m) = SlotAfter(r, k)
    BY DEF StateAt, BlockAt
  <2>3. \A m \in reached : m \in 0 .. QueueSize - 1
    BY <1>2
  <2>4. \A m \in reached : SlotAfter(r, m) = SlotAfter(r, k) => m = k
    BY <1>1, <2>1, <2>3, SlotAfterInjective
  <2>5. k \in reached <=> k >= first /\ \A j \in first .. k - 1 : BlockAt(j) \in Command
    BY <1>2, <2>1 DEF BlockAt
  <2>6. QED BY <2>2, <2>4, <2>5
<1> HIDE DEF planned, first
<1>4. ASSUME NEW k \in Offsets
      PROVE  /\ BlockAt(k)' = BlockAt(k) /\ StateAt(k) \in 0 .. 5
             /\ StateAt(k)' = IF SlotAfter(r, k) \in planned THEN FULLY_PLANNED ELSE StateAt(k)
  <2>1. SlotAfter(r, k) \in Slots /\ StateAt(k) \in 0 .. 5
    BY <1>1, StateTypes
  <2>2. QED BY <1>1, <2>1 DEF StateAt, BlockAt, SlotAfter
<1>5. ASSUME NEW k \in Offsets
      PROVE  /\ StateAt(k) >= BACK_PLANNED <=> StateAt(k)' >= BACK_PLANNED
             /\ StateAt(k) > BACK_PLANNED => StateAt(k)' = StateAt(k)
  BY <1>3, <1>4 DEF BACK_PLANNED, FULLY_PLANNED
<1>6. PlannedPrefix'
  <2>1. SUFFICES ASSUME NEW k \in Offsets, StateAt(k)' >= BACK_PLANNED, NEW j \in 0 .. k - 1
                 PROVE  StateAt(j)' >= BACK_PLANNED
    BY Zenon DEF PlannedPrefix
  <2>2. StateAt(k) >= BACK_PLANNED /\ j \in Offsets
    BY <1>5, <2>1, BeforeAnOffset
  <2>3. StateAt(j) >= BACK_PLANNED
    BY <2>2 DEF OrderInv, PlannedPrefix
  <2>4. QED BY <1>5, <2>2, <2>3
<1>7. PlannedInOrder'
  <2>1. SUFFICES ASSUME NEW k \in Offsets, StateAt(k)' = FULLY_PLANNED, BlockAt(k)' \in Aline,
                        NEW j \in 0 .. k - 1
                 PROVE  Ahead(j)'
    BY Zenon DEF PlannedInOrder
  <2>2. j \in Offsets /\ j \in Nat /\ k \in Nat /\ BlockAt(k) \in Aline /\ BlockAt(j)' = BlockAt(j)
    BY <1>4, <2>1, BeforeAnOffset, SizeAssumption DEF Offsets
  <2>3. CASE SlotAfter(r, k) \in planned
    <3>1. /\ StateAt(k) = BACK_PLANNED /\ k >= first
          /\ \A m \in first .. k - 1 : BlockAt(m) \in Command
      BY <1>3, <2>3
    <3>2. StateAt(j) >= BACK_PLANNED
      BY <2>1, <3>1 DEF OrderInv, PlannedPrefix, BACK_PLANNED
    <3>3. CASE j < first
      <4>1. j = 0 /\ StateAt(j) = RUNNING
        BY <1>2, <2>2, <3>3
      <4>2. StateAt(j)' = RUNNING
        BY <1>5, <2>2, <4>1 DEF RUNNING, BACK_PLANNED
      <4>3. QED BY <4>1, <4>2 DEF Ahead, RUNNING, BACK_PLANNED
    <3>4. CASE j >= first
      <4>1. BlockAt(j) \in Command /\ BlockAt(j) # NoBlock
        BY <1>2, <2>1, <2>2, <3>1, <3>4, BlockAssumption DEF Block
      <4>2. \A m \in first .. j - 1 : BlockAt(m) \in Command
        BY <1>2, <2>1, <2>2, <3>1
      <4>3. StateAt(j)' > BACK_PLANNED
        <5>1. CASE StateAt(j) = BACK_PLANNED
          <6>1. SlotAfter(r, j) \in planned
            BY <1>3, <2>2, <3>4, <4>1, <4>2, <5>1
          <6>2. QED BY <1>4, <2>2, <6>1 DEF FULLY_PLANNED, BACK_PLANNED
        <5>2. CASE StateAt(j) > BACK_PLANNED
          BY <1>5, <2>2, <5>2
        <5>3. QED BY <1>4, <2>2, <3>2, <5>1, <5>2 DEF BACK_PLANNED
      <4>4. QED BY <2>2, <4>1, <4>3 DEF Ahead
    <3>5. QED BY <1>2, <2>2, <3>3, <3>4
  <2>4. CASE SlotAfter(r, k) \notin planned
    <3>1. StateAt(k) = FULLY_PLANNED
      BY <1>4, <2>1, <2>4
    <3>2. Ahead(j)
      BY <2>1, <2>2, <3>1 DEF OrderInv, PlannedInOrder
    <3>3. StateAt(j)' = StateAt(j)
      BY <1>5, <2>2, <3>2 DEF Ahead
    <3>4. QED BY <2>2, <3>2, <3>3 DEF Ahead
  <2>5. QED BY <2>3, <2>4
<1>8. QED BY <1>6, <1>7

\* A move starts at the run buffer, so no other move has ramps.
LEMMA OrderWhenStarted ==
  ASSUME OrderInv, StartMove
  PROVE  PlannedPrefix' /\ PlannedInOrder'
<1>1. /\ TypeOK /\ r' = r /\ block' = block /\ r \in Slots /\ 0 \in Offsets
      /\ bufferState' = [bufferState EXCEPT ![r] = RUNNING]
      /\ block[r] \in Aline /\ bufferState[r] = FULLY_PLANNED /\ SlotAfter(r, 0) = r
  BY SizeAssumption DEF StartMove, OrderInv, RingInv, TypeOK, SlotAfter, Slots, Offsets
<1>2. StateAt(0) = FULLY_PLANNED /\ BlockAt(0) \in Aline /\ BlockAt(0) \notin Command
  BY <1>1, BlockAssumption DEF StateAt, BlockAt
<1>3. ASSUME NEW k \in Offsets
      PROVE  /\ BlockAt(k)' = BlockAt(k) /\ k \in Nat
             /\ StateAt(k)' = IF k = 0 THEN RUNNING ELSE StateAt(k)
  <2>1. SlotAfter(r, k) \in Slots /\ k \in 0 .. QueueSize - 1
    BY <1>1, StateTypes DEF Offsets
  <2>2. SlotAfter(r, k) = r <=> k = 0
    <3>1. 0 \in 0 .. QueueSize - 1
      BY SizeAssumption
    <3>2. QED BY <1>1, <2>1, <3>1, SlotAfterInjective
  <2>3. QED BY <1>1, <2>1, <2>2, SizeAssumption DEF StateAt, BlockAt, SlotAfter, TypeOK
<1>4. PlannedPrefix'
  <2>1. SUFFICES ASSUME NEW k \in Offsets, StateAt(k)' >= BACK_PLANNED, NEW j \in 0 .. k - 1
                 PROVE  StateAt(j)' >= BACK_PLANNED
    BY Zenon DEF PlannedPrefix
  <2>2. j \in Offsets /\ k # 0 /\ StateAt(k) >= BACK_PLANNED
    BY <1>3, <2>1, BeforeAnOffset
  <2>3. StateAt(j) >= BACK_PLANNED
    BY <2>2 DEF OrderInv, PlannedPrefix
  <2>4. QED BY <1>3, <2>2, <2>3 DEF RUNNING, BACK_PLANNED
<1>5. PlannedInOrder'
  <2>1. SUFFICES ASSUME NEW k \in Offsets, StateAt(k)' = FULLY_PLANNED, BlockAt(k)' \in Aline
                 PROVE  FALSE
    BY Zenon DEF PlannedInOrder
  <2>2. k # 0 /\ StateAt(k) = FULLY_PLANNED /\ BlockAt(k) \in Aline /\ 0 \in 0 .. k - 1
    BY <1>3, <2>1 DEF RUNNING, FULLY_PLANNED
  <2>3. Ahead(0)
    BY <2>2 DEF OrderInv, PlannedInOrder
  <2>4. QED BY <1>2, <2>3 DEF Ahead, FULLY_PLANNED, RUNNING
<1>6. QED BY <1>4, <1>5

\* What was ahead of a block stays ahead of it, the freed block apart.
LEMMA OrderWhenFreed ==
  ASSUME OrderInv, FreeRunBuffer
  PROVE  PlannedPrefix' /\ PlannedInOrder'
<1>1. /\ TypeOK /\ r' = Nx(r) /\ r \in Slots /\ SlotAfter(r, 0) = r
      /\ bufferState' = [bufferState EXCEPT ![r] = EMPTY]
      /\ block' = [block EXCEPT ![r] = NoBlock]
  BY SizeAssumption DEF FreeRunBuffer, OrderInv, RingInv, TypeOK, SlotAfter, Slots
<1>2. ASSUME NEW k \in Offsets, k + 1 \in Offsets
      PROVE  StateAt(k)' = StateAt(k + 1) /\ BlockAt(k)' = BlockAt(k + 1)
  <2>1. SlotAfter(Nx(r), k) = SlotAfter(r, k + 1) /\ SlotAfter(r, k + 1) \in Slots
    BY <1>1, <1>2, NxIsSlotAfter, StateTypes DEF Offsets
  <2>2. SlotAfter(r, k + 1) # r
    <3>1. 0 \in 0 .. QueueSize - 1 /\ k + 1 \in 0 .. QueueSize - 1 /\ k + 1 # 0
      BY <1>2, SizeAssumption DEF Offsets
    <3>2. QED BY <1>1, <3>1, SlotAfterInjective
  <2>3. StateAt(k)' = bufferState'[SlotAfter(Nx(r), k)] /\ BlockAt(k)' = block'[SlotAfter(Nx(r), k)]
    BY <1>1 DEF StateAt, BlockAt, SlotAfter
  <2>4. QED BY <1>1, <2>1, <2>2, <2>3 DEF StateAt, BlockAt, TypeOK
<1>3. ASSUME NEW k \in Offsets, k + 1 \notin Offsets
      PROVE  StateAt(k)' = EMPTY
  <2>1. k = QueueSize - 1
    BY <1>3, SizeAssumption DEF Offsets
  <2>2. SlotAfter(Nx(r), k) = r
    BY <1>1, <2>1, SizeAssumption DEF SlotAfter, Nx, Slots
  <2>3. StateAt(k)' = bufferState'[r]
    BY <1>1, <2>2 DEF StateAt, SlotAfter
  <2>4. QED BY <1>1, <2>3 DEF TypeOK
<1>4. ASSUME NEW k \in Offsets, NEW j \in 0 .. k - 1, k + 1 \in Offsets
      PROVE  j \in Offsets /\ j + 1 \in Offsets /\ j + 1 \in 0 .. (k + 1) - 1 /\ j + 1 # 0
  BY <1>4, SizeAssumption DEF Offsets
<1>5. PlannedPrefix'
  <2>1. SUFFICES ASSUME NEW k \in Offsets, StateAt(k)' >= BACK_PLANNED, NEW j \in 0 .. k - 1
                 PROVE  StateAt(j)' >= BACK_PLANNED
    BY Zenon DEF PlannedPrefix
  <2>2. k + 1 \in Offsets
    BY <1>3, <2>1 DEF EMPTY, BACK_PLANNED
  <2>3. StateAt(k + 1) >= BACK_PLANNED
    BY <1>2, <2>1, <2>2
  <2>4. StateAt(j + 1) >= BACK_PLANNED
    BY <1>4, <2>2, <2>3 DEF OrderInv, PlannedPrefix
  <2>5. QED BY <1>2, <1>4, <2>2, <2>4
<1>6. PlannedInOrder'
  <2>1. SUFFICES ASSUME NEW k \in Offsets, StateAt(k)' = FULLY_PLANNED, BlockAt(k)' \in Aline,
                        NEW j \in 0 .. k - 1
                 PROVE  Ahead(j)'
    BY Zenon DEF PlannedInOrder
  <2>2. k + 1 \in Offsets
    BY <1>3, <2>1 DEF EMPTY, FULLY_PLANNED
  <2>3. StateAt(k + 1) = FULLY_PLANNED /\ BlockAt(k + 1) \in Aline
    BY <1>2, <2>1, <2>2
  <2>4. Ahead(j + 1) /\ j + 1 # 0
    BY <1>4, <2>2, <2>3 DEF OrderInv, PlannedInOrder
  <2>5. StateAt(j)' = StateAt(j + 1) /\ BlockAt(j)' = BlockAt(j + 1)
    BY <1>2, <1>4, <2>2
  <2>6. QED BY <2>4, <2>5 DEF Ahead
<1>7. QED BY <1>5, <1>6

\* In an empty ring nothing is planned.
LEMMA OrderWhenEmpty ==
  ASSUME \A k \in Offsets : StateAt(k) = EMPTY
  PROVE  PlannedPrefix /\ PlannedInOrder
BY DEF PlannedPrefix, PlannedInOrder, EMPTY, BACK_PLANNED, FULLY_PLANNED

LEMMA OrderStep == OrderInv /\ [Next]_vars => OrderInv'
<1>1. SUFFICES ASSUME OrderInv, [Next]_vars PROVE PlannedPrefix' /\ PlannedInOrder'
  BY RingStep DEF OrderInv
<1>2. w \in Slots /\ bufferState \in [Slots -> BufferState] /\ r \in Slots
  BY <1>1 DEF OrderInv, RingInv, TypeOK
<1>3. CASE UNCHANGED <<bufferState, block, r>>
  <2>1. bufferState' = bufferState /\ block' = block /\ r' = r
    BY <1>3
  <2>2. QED BY <1>1, <2>1, OrderOutside
<1>4. CASE GetWriteBuffer
  BY <1>1, <1>2, <1>4, OrderOutside DEF GetWriteBuffer
<1>5. CASE CommitWriteBuffer
  <2>1. used \in Offsets /\ w = SlotAfter(r, used) /\ Open = 1
    BY <1>1, <1>5, SizeAssumption
       DEF CommitWriteBuffer, Open, OrderInv, RingInv, TypeOK, UsedAreTheRunToWrite, Offsets
  <2>2. bufferState[w] = INITIALIZING
    BY <1>1, <2>1, UsedOffsets DEF OrderInv, StateAt
  <2>3. /\ UNCHANGED <<r, bufferState>>
        /\ \A s \in Slots : s # w => block'[s] = block[s]
    BY <1>1, <1>5 DEF CommitWriteBuffer, OrderInv, RingInv, TypeOK
  <2>4. QED BY <1>1, <2>2, <2>3, OrderOutside
<1>6. CASE PlanBlockList
  BY <1>1, <1>6, OrderWhenPlanned
<1>7. CASE Unplan
  BY <1>1, <1>7, OrderWhenUnplanned
<1>8. CASE PlannerReset
  <2>1. \A k \in Offsets : SlotAfter(0, k) \in Slots
    BY SlotAfterIsSlot, SizeAssumption DEF Slots, Offsets
  <2>2. \A k \in Offsets : StateAt(k)' = EMPTY
    BY <1>8, <2>1 DEF PlannerReset, StateAt, SlotAfter
  <2>3. QED
    BY <2>2 DEF PlannedPrefix, PlannedInOrder, EMPTY, BACK_PLANNED, FULLY_PLANNED
<1>9. CASE ForwardPlan
  BY <1>1, <1>9, OrderWhenForwardPlanned
<1>10. CASE StartMove
  BY <1>1, <1>10, OrderWhenStarted
<1>11. CASE FreeRunBuffer
  BY <1>1, <1>11, OrderWhenFreed
<1>12. QED
  BY <1>1, <1>3, <1>4, <1>5, <1>6, <1>7, <1>8, <1>9, <1>10, <1>11
     DEF Next, vars, ring, DispatchLine, LineDone, StoreAvailable, GetWriteBufferFails

\* mr has room for the ramps of one move besides the running one, and no check of
\* it: however the passes of the planner, the interrupts and the replans of a hold
\* interleave, the forward planner never gives ramps to a second move.
THEOREM OnePlannedAhead == Spec => []OneMovePlannedAhead
<1>1. Init => OrderInv
  <2>1. SUFFICES ASSUME Init PROVE OrderInv
    OBVIOUS
  <2>2. RingInv
    BY <2>1, InitRing
  <2>3. \A k \in Offsets : StateAt(k) = EMPTY
    BY <2>1, <2>2, StateTypes DEF Init, StateAt, RingInv
  <2>4. QED BY <2>2, <2>3, OrderWhenEmpty DEF OrderInv
<1>2. OrderInv => OneMovePlannedAhead
  <2>1. SUFFICES ASSUME OrderInv, NEW i \in Slots, NEW j \in Slots,
                        bufferState[i] = FULLY_PLANNED, block[i] \in Aline,
                        bufferState[j] = FULLY_PLANNED, block[j] \in Aline
                 PROVE  i = j
    BY DEF OneMovePlannedAhead
  <2>2. PICK a \in Offsets, b \in Offsets : i = SlotAfter(r, a) /\ j = SlotAfter(r, b)
    BY <2>1, SlotAfterOnto DEF OrderInv, RingInv, TypeOK, Offsets
  <2>3. /\ StateAt(a) = FULLY_PLANNED /\ BlockAt(a) \in Aline
        /\ StateAt(b) = FULLY_PLANNED /\ BlockAt(b) \in Aline
    BY <2>1, <2>2 DEF StateAt, BlockAt
  <2>4. ~ Ahead(a) /\ ~ Ahead(b)
    BY <2>3, BlockAssumption DEF Ahead, FULLY_PLANNED, RUNNING
  <2>5. a \notin 0 .. b - 1 /\ b \notin 0 .. a - 1
    BY <2>1, <2>3, <2>4 DEF OrderInv, PlannedInOrder
  <2>6. a = b
    BY <2>5, SizeAssumption DEF Offsets
  <2>7. QED BY <2>2, <2>6
<1>3. QED BY <1>1, <1>2, OrderStep, PTL DEF Spec

---------------------------------------------------------------------------
(* The counter of available buffers *)

\* The counter and the value the main loop is about to decrement are both
\* below what the ring really has, and both cover the rest of the line.
Counted ==
  /\ mainAt # "panic"
  /\ available + used + (IF mainAt = "filling" THEN 1 ELSE 0) <= QueueSize
  /\ mainAt = "queueing" => Len(todo) <= available
  /\ mainAt = "decrementing" => /\ Len(todo) <= register
                                /\ register + used <= QueueSize
  /\ mainAt = "filling" => Len(todo) - 1 <= available
CountInv == ~ overlong => Counted

LEMMA InitCount == Init => CountInv
BY SizeAssumption DEF Init, CountInv, Counted

\* A line within the headroom only, and a reset makes the counter exact again.
LEMMA WithinHeadroom ==
  ASSUME [Next]_vars, ~ overlong'
  PROVE  \/ PlannerReset
         \/ ~ overlong /\ (DispatchLine => ~ Len(todo') > Headroom)
<1>1. DispatchLine => ~ overlong /\ ~ Len(todo') > Headroom
  BY DEF DispatchLine
<1>2. PlannerReset \/ DispatchLine \/ overlong' = overlong
  BY DEF Next, vars, main, LineDone, GetWriteBuffer, StoreAvailable,
         GetWriteBufferFails, CommitWriteBuffer, PlanBlockList, Unplan,
         ForwardPlan, StartMove, FreeRunBuffer
<1>3. QED BY <1>1, <1>2

LEMMA CountStep ==
  ASSUME RingInv, CountInv, [Next]_vars
  PROVE  CountInv'
<1> SUFFICES ASSUME ~ overlong' PROVE Counted'
  BY DEF CountInv
<1> USE DEF Counted
<1>0. /\ available \in Nat /\ used \in Nat /\ register \in Nat
      /\ todo \in Seq(Block) /\ Len(todo) \in Nat
      /\ QueueSize \in Nat /\ QueueSize < 256
  BY SizeAssumption, LenProperties DEF RingInv, TypeOK
<1>10. CASE PlannerReset
  BY <1>0, <1>10 DEF PlannerReset
<1> SUFFICES ASSUME ~ PlannerReset PROVE Counted'
  BY <1>10
<1>a. Counted /\ (DispatchLine => ~ Len(todo') > Headroom)
  BY WithinHeadroom DEF CountInv
<1>1. CASE UNCHANGED vars
  BY <1>a, <1>1 DEF vars
<1>2. CASE DispatchLine
  <2>2. Len(todo') \in Nat
    BY <1>a, <1>2, LineAssumption, LenProperties DEF DispatchLine
  <2>1. Len(todo') <= Headroom /\ Headroom <= available
    BY <1>a, <1>2, <1>0, <2>2, SizeAssumption
       DEF DispatchLine, mp_planner_is_full
  <2>3. UNCHANGED <<available, used>> /\ mainAt' = "queueing"
    BY <1>a, <1>2 DEF DispatchLine, ring
  <2>4. available + used <= QueueSize
    BY <1>a, <1>0, <1>2 DEF DispatchLine
  <2>5. Len(todo') <= available
    BY <2>1, <2>2, <1>0, SizeAssumption
  <2>6. available' + used' + 0 <= QueueSize /\ Len(todo') <= available'
    BY <2>3, <2>4, <2>5, <1>0
  <2>7. QED BY <2>3, <2>6
<1>3. CASE LineDone
  BY <1>a, <1>3 DEF LineDone, ring
<1>4. CASE GetWriteBuffer
  BY <1>a, <1>0, <1>4 DEF GetWriteBuffer
<1>5. CASE StoreAvailable
  <2>1. todo # <<>> /\ Len(todo) >= 1
    BY <1>a, <1>0, <1>5, EmptySeq DEF StoreAvailable, RingInv, Open
  <2>2. available' = register - 1 /\ UNCHANGED <<used, todo>>
    BY <1>a, <1>0, <1>5, <2>1 DEF StoreAvailable, Decremented, ring
  <2>3. mainAt' = "filling"
    BY <1>a, <1>5 DEF StoreAvailable
  <2>4. Len(todo) <= register /\ register + used <= QueueSize
    BY <1>a, <1>5 DEF StoreAvailable
  <2>5. QED BY <1>a, <1>0, <2>2, <2>3, <2>4
<1>6. CASE GetWriteBufferFails
  <2>1. Len(todo) >= 1
    BY <1>a, <1>0, <1>6, EmptySeq DEF GetWriteBufferFails
  <2>2. used \in 0 .. QueueSize - 1
    BY <1>a, <1>0, <1>6, <2>1 DEF GetWriteBufferFails
  <2>3. Open = 0
    BY <1>a, <1>6 DEF GetWriteBufferFails, Open
  <2>4. bufferState[w] = EMPTY
    BY <2>2, <2>3 DEF RingInv, UsedAreTheRunToWrite
  <2>5. QED BY <1>a, <1>6, <2>4 DEF GetWriteBufferFails
<1>7. CASE CommitWriteBuffer
  <2>1. todo # <<>> /\ Len(Tail(todo)) = Len(todo) - 1
    BY <1>a, <1>0, <1>7, HeadTailProperties DEF CommitWriteBuffer, RingInv, Open
  <2>2. QED BY <1>a, <1>0, <1>7, <2>1 DEF CommitWriteBuffer
<1>8. CASE PlanBlockList
  BY <1>a, <1>8 DEF PlanBlockList, main
<1>9. CASE Unplan
  BY <1>a, <1>9 DEF Unplan, main
<1>11. CASE ForwardPlan
  BY <1>a, <1>11 DEF ForwardPlan, main
<1>12. CASE StartMove
  BY <1>a, <1>12 DEF StartMove, main
<1>13. CASE FreeRunBuffer
  <2>1. used >= 1
    BY <1>a, <1>13, RunnableIsUsed DEF FreeRunBuffer
  <2>2. available' = available + 1 /\ used' = used - 1
    BY <1>a, <1>0, <1>13, <2>1 DEF FreeRunBuffer, Incremented
  <2>3. UNCHANGED <<register, mainAt, todo>>
    BY <1>a, <1>13 DEF FreeRunBuffer, main
  <2>4. QED BY <1>a, <1>0, <2>1, <2>2, <2>3
<1>14. QED
  BY <1>1, <1>2, <1>3, <1>4, <1>5, <1>6, <1>7, <1>8, <1>9, <1>10, <1>11,
     <1>12, <1>13 DEF Next

LEMMA CountAlways == Spec => []CountInv
<1>1. RingInv /\ CountInv /\ [Next]_vars => CountInv'
  BY CountStep
<1>2. QED BY <1>1, InitCount, RingIsContiguous, PTL DEF Spec

\* As long as every line fits the headroom no call finds the ring without a
\* buffer, even though the interrupts and the main loop update the counter
\* unprotected: a lost update can only lose a buffer, never invent one.
THEOREM BuffersNeverRunOut == Spec => []NeverOutOfBuffers
<1>1. CountInv => NeverOutOfBuffers
  BY DEF CountInv, Counted, NeverOutOfBuffers
<1>2. QED BY <1>1, CountAlways, PTL

\* ... and the counter never promises more buffers than there are.
THEOREM CounterErrsToTheSafeSide == Spec => []NeverOverPromised
<1>1. RingInv /\ CountInv => NeverOverPromised
  BY DEF RingInv, TypeOK, CountInv, Counted, NeverOverPromised, Open
<1>2. QED BY <1>1, CountAlways, RingIsContiguous, PTL

---------------------------------------------------------------------------
(* The ring implements a FIFO queue *)

LEMMA FifoIsSeq ==
  ASSUME RingInv
  PROVE  /\ fifo \in Seq(Block)
         /\ Len(fifo) = used
         /\ \A k \in 1 .. used : fifo[k] = block[SlotAfter(r, k - 1)]
<1>1. used \in Nat /\ used <= QueueSize
  BY SizeAssumption DEF RingInv, TypeOK
<1>2. \A k \in 1 .. used : block[SlotAfter(r, k - 1)] \in Block
  <2>1. \A k \in 0 .. QueueSize - 1 : k < used => block[SlotAfter(r, k)] \in Block
    BY DEF RingInv, UsedAreTheRunToWrite
  <2>2. \A k \in 1 .. used : k - 1 \in 0 .. QueueSize - 1 /\ k - 1 < used
    BY <1>1, SizeAssumption
  <2>3. QED BY <2>1, <2>2
<1>3. fifo \in [1 .. used -> Block]
  BY <1>2 DEF fifo
<1>4. fifo \in Seq(Block)
  BY <1>1, <1>3, SeqDef
<1>5. Len(fifo) = used
  BY <1>1, <1>3, <1>4, LenProperties
<1>6. QED BY <1>4, <1>5 DEF fifo

\* Committing a block appends it.
LEMMA CommitPuts ==
  ASSUME RingInv, RingInv', CommitWriteBuffer
  PROVE  Fifo!Put
<1> DEFINE b == Head(todo)
<1>1. /\ used < QueueSize /\ used \in Nat /\ used' = used + 1
      /\ b \in Block
      /\ r \in Slots /\ UNCHANGED r
      /\ block' = [block EXCEPT ![w] = b]
  BY DEF RingInv, TypeOK, CommitWriteBuffer, Open
<1>2. SlotAfter(r, used) = w /\ w \in Slots /\ used \in 0 .. QueueSize - 1
  BY <1>1, SizeAssumption DEF RingInv, TypeOK, UsedAreTheRunToWrite
<1>3. ASSUME NEW k \in 0 .. used - 1
      PROVE  block'[SlotAfter(r, k)] = block[SlotAfter(r, k)]
  <2>1. k \in 0 .. QueueSize - 1 /\ k # used
    BY <1>1, <1>2, SizeAssumption
  <2>2. SlotAfter(r, k) # w /\ SlotAfter(r, k) \in Slots
    BY <1>1, <1>2, <2>1, SlotAfterInjective, SlotAfterIsSlot, SizeAssumption
  <2>3. QED BY <1>1, <2>2 DEF RingInv, TypeOK
<1>4. /\ fifo \in Seq(Block) /\ Len(fifo) = used
      /\ \A k \in 1 .. used : fifo[k] = block[SlotAfter(r, k - 1)]
  BY FifoIsSeq
<1>5. fifo' = [k \in 1 .. used + 1 |-> block'[SlotAfter(r, k - 1)]]
  BY <1>1 DEF fifo, SlotAfter
<1>6. block'[SlotAfter(r, used)] = b
  BY <1>1, <1>2 DEF RingInv, TypeOK
<1>7. fifo' = [k \in 1 .. used + 1 |-> IF k = used + 1 THEN b ELSE fifo[k]]
  <2>1. \A k \in 1 .. used + 1 : k # used + 1 => k \in 1 .. used /\ k - 1 \in 0 .. used - 1
    BY <1>1
  <2>2. \A k \in 1 .. used + 1 :
          block'[SlotAfter(r, k - 1)] = IF k = used + 1 THEN b ELSE fifo[k]
    BY <1>1, <1>3, <1>4, <1>6, <2>1
  <2>3. QED BY <1>5, <2>2
<1>8. fifo' = Append(fifo, b)
  BY <1>1, <1>4, <1>7
<1>9. QED BY <1>1, <1>4, <1>8 DEF Fifo!Put

\* Freeing the run buffer takes the first one.
LEMMA FreeTakes ==
  ASSUME RingInv, RingInv', FreeRunBuffer
  PROVE  Fifo!Take
<1>1. /\ used >= 1 /\ used \in Nat /\ used <= QueueSize
      /\ used' = used - 1 /\ r' = Nx(r) /\ r \in Slots
      /\ block' = [block EXCEPT ![r] = NoBlock]
  BY RunnableIsUsed, SizeAssumption DEF FreeRunBuffer, RingInv, TypeOK
<1>2. ASSUME NEW k \in 1 .. used - 1
      PROVE  block'[SlotAfter(Nx(r), k - 1)] = block[SlotAfter(r, k)]
  <2>1. k \in 0 .. QueueSize - 1 /\ k - 1 \in 0 .. QueueSize - 1 /\ k # 0
    BY <1>1, SizeAssumption
  <2>2. SlotAfter(Nx(r), k - 1) = SlotAfter(r, k)
    BY <1>1, <2>1, NxIsSlotAfter
  <2>3. SlotAfter(r, 0) = r /\ 0 \in 0 .. QueueSize - 1
    BY <1>1, SizeAssumption DEF SlotAfter, Slots
  <2>4. SlotAfter(r, k) # r /\ SlotAfter(r, k) \in Slots
    BY <1>1, <2>1, <2>3, SlotAfterInjective, SlotAfterIsSlot, SizeAssumption
  <2>5. QED BY <1>1, <2>2, <2>4 DEF RingInv, TypeOK
<1>3. /\ fifo \in Seq(Block) /\ Len(fifo) = used
      /\ \A k \in 1 .. used : fifo[k] = block[SlotAfter(r, k - 1)]
  BY FifoIsSeq
<1>4. fifo # <<>>
  BY <1>1, <1>3
<1>5. fifo' = [k \in 1 .. used - 1 |-> block'[SlotAfter(Nx(r), k - 1)]]
  BY <1>1 DEF fifo, SlotAfter
<1>6. fifo' = [k \in 1 .. used - 1 |-> fifo[k + 1]]
  <2>1. \A k \in 1 .. used - 1 : fifo[k + 1] = block[SlotAfter(r, k)]
    <3>1. \A k \in 1 .. used - 1 : k + 1 \in 1 .. used /\ (k + 1) - 1 = k
      BY <1>1
    <3>2. QED BY <1>3, <3>1
  <2>2. QED BY <1>2, <1>5, <2>1
<1>7. fifo' = Tail(fifo)
  <2>1. /\ Tail(fifo) \in Seq(Block)
        /\ Len(Tail(fifo)) = used - 1
        /\ \A k \in 1 .. used - 1 : Tail(fifo)[k] = fifo[k + 1]
    BY <1>3, <1>4, HeadTailProperties
  <2>2. Tail(fifo) \in [1 .. used - 1 -> Block]
    BY <2>1, LenProperties
  <2> DEFINE t == Tail(fifo)
  <2> HIDE DEF t
  <2>3. t = [k \in 1 .. used - 1 |-> t[k]]
    BY <2>2 DEF t
  <2>4. QED BY <1>6, <2>1, <2>3 DEF t
<1>8. QED BY <1>4, <1>7 DEF Fifo!Take

LEMMA StepRefines ==
  ASSUME RingInv, RingInv', [Next]_vars
  PROVE  [Fifo!Next]_fifo
<1>1. CASE UNCHANGED <<block, r, used>>
  BY <1>1 DEF fifo, SlotAfter
<1>2. CASE CommitWriteBuffer
  BY <1>2, CommitPuts DEF Fifo!Next
<1>3. CASE FreeRunBuffer
  BY <1>3, FreeTakes DEF Fifo!Next
<1>4. CASE PlannerReset
  <2>1. fifo' = <<>>
    BY <1>4 DEF PlannerReset, fifo
  <2>2. QED BY <2>1 DEF Fifo!Next, Fifo!Flush
<1>5. QED
  BY <1>1, <1>2, <1>3, <1>4
     DEF Next, vars, ring, DispatchLine, LineDone, GetWriteBuffer,
         StoreAvailable, GetWriteBufferFails, PlanBlockList, Unplan,
         ForwardPlan, StartMove

\* Every block leaves the ring once, in the order of the commits, unless a
\* flush drops the whole queue.
THEOREM RingImplementsFifo == Spec => Fifo!Spec
<1>1. Init => Fifo!Init
  BY DEF Init, Fifo!Init, fifo
<1>2. RingInv /\ RingInv' /\ [Next]_vars => [Fifo!Next]_fifo
  BY StepRefines
<1>3. QED BY <1>1, <1>2, RingIsContiguous, PTL DEF Spec, Fifo!Spec

\* IsFifo is that refinement.
COROLLARY QueueIsFifo == Spec => IsFifo
BY RingImplementsFifo DEF IsFifo
===========================================================================
