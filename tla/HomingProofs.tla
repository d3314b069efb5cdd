---------------------------- MODULE HomingProofs ----------------------------
(***************************************************************************)
(* Theorems about the homing cycle, for every distance of its moves, every *)
(* position of the switch and of the job's last move, and any number of    *)
(* cycles, bounces and alarms.                                             *)
(*                                                                         *)
(* The cycle does not look at holds, so the argument is about what the     *)
(* operation of a hold and the queue may be in each of its steps.  Phases  *)
(* says which lists of actions go with which hold, Shapes which blocks are *)
(* queued, and Stopped joins the two: a move that was stopped is gone, and *)
(* the "done" behind it waits until the hold is over.  By then the model   *)
(* has been reset (Positions), unless an edge has come while a move of the *)
(* job was running (Early).  Latch follows the position from the edge that *)
(* stops the latch move to where it is set.                                *)
(***************************************************************************)
EXTENDS Homing, SequenceTheorems, TLAPS

Actions == {"skip", "reset position", "no actions", "alarm"}

\* The lists that an operation of a homing cycle goes through
SkipReset == <<"skip", "reset position">>
OnlyReset == <<"reset position">>
HoldAlarm == <<"no actions", "alarm">>
OnlyAlarm == <<"alarm">>

Homes == cycle = "HOMING"
ResetComes == \E i \in DOMAIN op : op[i] = "reset position"
Alarming == op \in {HoldAlarm, OnlyAlarm}
Halts == {"SYNC", "DECEL", "STOPPED"}

\* The shapes of the queue
Done(q) == Len(q) = 1 /\ q[1].kind = "done"
MoveDone(q) == Len(q) = 2 /\ q[1].kind = "move" /\ q[2].kind = "done"
Job(q) == Len(q) = 1 /\ q[1].kind = "move"
JobMoveDone(q) == /\ Len(q) = 3
                  /\ q[1].kind = "move" /\ q[2].kind = "move" /\ q[3].kind = "done"
LastTo(q) == IF Len(q) = 3 THEN q[2].to ELSE q[1].to

\* Nothing has been queued for the axis yet.
Before == (func = "start" /\ ~ axis) \/ func = "clear init"
\* An edge has stopped the job's move, and no step has been taken since then
\* that finds the axis at rest.
Early == "early" \in mishaps /\ (Before \/ func \in {"search", "clear"})

MachineTypes ==
  /\ at \in {"planner", "operation", "run", "reset", "cycle"}
  /\ cycle \in {"NONE", "HOMING"} /\ machine \in {"STOP", "CYCLE", "ALARM"}
  /\ hold \in {"OFF", "SYNC", "DECEL", "STOPPED", "HOLD"} /\ holdType \in {"HOLD", "SKIP"}
  /\ op \in Seq(Actions) /\ inOperation \in BOOLEAN
  /\ flush = FALSE /\ start = FALSE
MotionTypes ==
  /\ queue \in Seq(Blocks) /\ waiting \in BOOLEAN
  /\ pos \in Int /\ model \in Int /\ snapshot \in Int /\ surface \in Int
  /\ level \in BOOLEAN /\ bouncing \in BOOLEAN
HomingTypes ==
  /\ func \in Steps /\ axis \in BOOLEAN /\ registered \in BOOLEAN
  /\ set_coordinates \in BOOLEAN

\* The operation runner
Operations ==
  /\ inOperation => (op # <<>> \/ at = "reset")
  /\ at \in {"run", "reset"} => inOperation
  /\ at = "run" => op # <<>>
  /\ at = "reset" => op = <<>>
  /\ at = "cycle" => ~ inOperation /\ (hold = "OFF" => op = <<>>)

\* What a homing cycle is doing about a hold
Skipping == hold \in Halts /\ holdType = "SKIP"
Phases == Homes =>
  /\ machine = "CYCLE"
  /\ \/ op = <<>> /\ (hold = "OFF" \/ Skipping)
     \/ op = SkipReset /\ Skipping
     \/ op = OnlyReset /\ (hold = "OFF" \/ Skipping) /\ at = "run"
     \/ op = HoldAlarm /\ hold \in Halts /\ holdType = "HOLD" /\ at # "cycle"
     \/ op = OnlyAlarm /\ hold = "HOLD" /\ at = "run"

\* What is queued
Shapes == Homes =>
  /\ \/ queue = <<>> /\ ~ waiting
     \/ Job(queue) /\ ~ waiting /\ (Before \/ func = "search")
     \/ Done(queue) /\ waiting /\ ~ Before
     \/ MoveDone(queue) /\ waiting /\ ~ Before
     \/ JobMoveDone(queue) /\ waiting /\ func \in {"search", "clear"}
  /\ func # "start" => axis

\* The job's move is stopped by an early edge only.
JobMove == Job(queue) \/ JobMoveDone(queue)
JobFirst == Homes /\ JobMove =>
  \/ op = <<>> /\ hold = "OFF" /\ ~ inOperation
  \/ op = SkipReset /\ hold \in Braking /\ "early" \in mishaps
  \/ Alarming

\* Where the model is
Positions == Homes /\ ~ Early /\ ~ Alarming =>
  /\ HasMove => model = LastTo(queue) /\ op # OnlyReset
  /\ ~ HasMove => \/ queue # <<>> /\ queue[1].held
                  \/ op = OnlyReset
                  \/ model = pos

\* A stopped move is gone, and its "done" waits for the end of the hold.
Stopped == Homes /\ hold = "STOPPED" /\ op = SkipReset =>
  /\ ~ Early => \/ Done(queue) /\ queue[1].held
                \/ queue = <<>> /\ at \in {"operation", "run"}
  /\ func = "clear" /\ at \in {"cycle", "planner"} => waiting /\ (HasMove \/ queue[1].held)

\* The model of a cycle that starts, and of a machine without one
StartsRight == Homes /\ Before /\ ~ Alarming =>
  IF HasMove THEN model = queue[1].to ELSE model = pos \/ ResetComes
Between == ~ Homes =>
  \/ machine = "ALARM"
  \/ machine = "STOP" /\ (HasMove \/ model = pos \/ ResetComes)

\* The input
Contact ==
  /\ bouncing => Touching /\ ~ level
  /\ level # Touching /\ ~ bouncing => pos = IF level THEN surface - 1 ELSE surface
Listening ==
  /\ registered => Homes /\ func \notin {"start", "finalize"}
  /\ Homes /\ zero # {} => func \in {"start", "finalize"} /\ axis

\* From the edge of the latch on
Near(p) == p - surface \in {0, 1}
Latching == func = "setpoint backoff" =>
  \/ ~ HasMove /\ Near(pos)
  \/ /\ HasMove /\ op = SkipReset
     /\ \/ hold = "SYNC" /\ pos = surface
        \/ hold = "DECEL" /\ pos = surface + 1
Latched == func = "set position" =>
  /\ (op = <<>> /\ hold = "OFF") \/ Alarming
  /\ Near(model + ZeroBackoff)
Latch == Homes /\ mishaps = {} =>
  /\ func = "setpoint backoff" /\ HasMove => queue[1].to > pos
  /\ "latch" \in met => /\ func \in {"setpoint backoff", "set position"}
                              \/ (func \in {"start", "finalize"} /\ axis)
                        /\ Latching /\ Latched
---------------------------------------------------------------------------
(* Sequences *)

LEMMA SeqFacts ==
  ASSUME NEW S, NEW s \in Seq(S)
  PROVE  /\ Len(s) \in Nat /\ DOMAIN s = 1 .. Len(s)
         /\ (s # <<>> <=> Len(s) > 0) /\ (s = <<>> <=> Len(s) = 0)
         /\ \A k \in 1 .. Len(s) : s[k] \in S
         /\ s # <<>> => Head(s) = s[1]
BY EmptySeq, LenProperties, ElementOfSeq

LEMMA TailFacts ==
  ASSUME NEW S, NEW s \in Seq(S), s # <<>>
  PROVE  /\ Tail(s) \in Seq(S) /\ Len(Tail(s)) = Len(s) - 1
         /\ \A k \in 1 .. Len(s) - 1 : Tail(s)[k] = s[k + 1]
BY HeadTailProperties, LenProperties

LEMMA Singles ==
  ASSUME NEW S, NEW a \in S
  PROVE  <<a>> \in Seq(S) /\ Len(<<a>>) = 1 /\ <<a>>[1] = a
OBVIOUS

LEMMA Pairs ==
  ASSUME NEW S, NEW a \in S, NEW b \in S
  PROVE  /\ <<a, b>> \in Seq(S) /\ Len(<<a, b>>) = 2
         /\ <<a, b>>[1] = a /\ <<a, b>>[2] = b
OBVIOUS

LEMMA Concats ==
  ASSUME NEW S, NEW s \in Seq(S), NEW t \in Seq(S)
  PROVE  /\ s \o t \in Seq(S) /\ Len(s \o t) = Len(s) + Len(t)
         /\ \A k \in 1 .. Len(s) : (s \o t)[k] = s[k]
         /\ \A k \in 1 .. Len(t) : (s \o t)[Len(s) + k] = t[k]
<1>1. s \o t \in Seq(S) /\ Len(s \o t) = Len(s) + Len(t)
  BY ConcatProperties
<1>2. \A k \in 1 .. Len(s) + Len(t) : (s \o t)[k] = IF k <= Len(s) THEN s[k] ELSE t[k - Len(s)]
  BY ConcatProperties
<1>3. QED BY <1>1, <1>2, SeqFacts

LEMMA BlockIsBlock ==
  ASSUME NEW kind \in {"move", "done", "other"}, NEW to \in Int
  PROVE  Block(kind, to) \in Blocks /\ Block(kind, to).kind = kind
BY DEF Block, Blocks

LEMMA Lists ==
  /\ {<<>>, SkipReset, OnlyReset, HoldAlarm, OnlyAlarm} \subseteq Seq(Actions)
  /\ Head(SkipReset) = "skip" /\ Tail(SkipReset) = OnlyReset /\ Len(SkipReset) = 2
  /\ Head(OnlyReset) = "reset position" /\ Tail(OnlyReset) = <<>> /\ Len(OnlyReset) = 1
  /\ Head(HoldAlarm) = "no actions" /\ Tail(HoldAlarm) = OnlyAlarm /\ Len(HoldAlarm) = 2
  /\ Head(OnlyAlarm) = "alarm" /\ Tail(OnlyAlarm) = <<>> /\ Len(OnlyAlarm) = 1
<1>1. /\ SkipReset \in Seq(Actions) /\ OnlyReset \in Seq(Actions)
      /\ HoldAlarm \in Seq(Actions) /\ OnlyAlarm \in Seq(Actions)
  BY Singles, Pairs DEF SkipReset, OnlyReset, HoldAlarm, OnlyAlarm, Actions
<1>2. <<>> \in Seq(Actions)
  BY EmptySeq
<1>3. Head(SkipReset) = "skip" /\ Len(SkipReset) = 2
  BY DEF SkipReset
<1>4. Tail(SkipReset) = OnlyReset
  <2>1. Tail(SkipReset) \in Seq(Actions) /\ Len(Tail(SkipReset)) = 1
        /\ Tail(SkipReset)[1] = SkipReset[2]
    <3>1. Len(SkipReset) = 2 /\ SkipReset # <<>> /\ SkipReset \in Seq(Actions)
      BY <1>1 DEF SkipReset
    <3>2. Len(Tail(SkipReset)) = Len(SkipReset) - 1 /\ Tail(SkipReset) \in Seq(Actions)
          /\ \A k \in 1 .. Len(SkipReset) - 1 : Tail(SkipReset)[k] = SkipReset[k + 1]
      BY <3>1, TailFacts
    <3>3. 1 \in 1 .. 2 - 1 /\ 2 - 1 = 1 /\ 1 + 1 = 2
      OBVIOUS
    <3>4. QED BY <3>1, <3>2, <3>3
  <2>2. OnlyReset \in Seq(Actions) /\ Len(OnlyReset) = 1 /\ OnlyReset[1] = SkipReset[2]
    BY <1>1 DEF SkipReset, OnlyReset
  <2> DEFINE t == Tail(SkipReset)
  <2>3. t \in Seq(Actions) /\ Len(t) = 1 /\ t[1] = OnlyReset[1]
    BY <2>1, <2>2
  <2> HIDE DEF t
  <2>4. t = OnlyReset
    BY <2>2, <2>3, SeqEqual
  <2>5. QED BY <2>4 DEF t
<1>5. Head(OnlyReset) = "reset position" /\ Len(OnlyReset) = 1
  BY DEF OnlyReset
<1>6. Tail(OnlyReset) = <<>>
  BY DEF OnlyReset
<1>7. Head(HoldAlarm) = "no actions" /\ Len(HoldAlarm) = 2
  BY DEF HoldAlarm
<1>8. Tail(HoldAlarm) = OnlyAlarm
  BY DEF HoldAlarm, OnlyAlarm
<1>9. Head(OnlyAlarm) = "alarm" /\ Len(OnlyAlarm) = 1
  BY DEF OnlyAlarm
<1>10. Tail(OnlyAlarm) = <<>>
  BY DEF OnlyAlarm
<1>11. QED BY <1>1, <1>2, <1>3, <1>4, <1>5, <1>6, <1>7, <1>8, <1>9, <1>10

\* The lists are told apart by their heads.
LEMMA ListsDiffer ==
  /\ SkipReset \notin {<<>>, OnlyReset, HoldAlarm, OnlyAlarm}
  /\ OnlyReset \notin {<<>>, HoldAlarm, OnlyAlarm}
  /\ HoldAlarm \notin {<<>>, OnlyAlarm} /\ OnlyAlarm # <<>>
<1>1. SkipReset # <<>> /\ OnlyReset # <<>> /\ HoldAlarm # <<>> /\ OnlyAlarm # <<>>
  BY DEF SkipReset, OnlyReset, HoldAlarm, OnlyAlarm
<1>2. /\ Head(SkipReset) = "skip" /\ Head(OnlyReset) = "reset position"
      /\ Head(HoldAlarm) = "no actions" /\ Head(OnlyAlarm) = "alarm"
  BY Lists
<1>3. /\ Head(SkipReset) # Head(OnlyReset) /\ Head(SkipReset) # Head(HoldAlarm)
      /\ Head(SkipReset) # Head(OnlyAlarm) /\ Head(OnlyReset) # Head(HoldAlarm)
      /\ Head(OnlyReset) # Head(OnlyAlarm) /\ Head(HoldAlarm) # Head(OnlyAlarm)
  BY <1>2
<1>4. QED BY <1>1, <1>3

LEMMA ResetIsInLists == /\ \E i \in DOMAIN SkipReset : SkipReset[i] = "reset position"
                        /\ \E i \in DOMAIN OnlyReset : OnlyReset[i] = "reset position"
<1>1. 2 \in DOMAIN SkipReset /\ 1 \in DOMAIN OnlyReset
  BY DEF SkipReset, OnlyReset
<1>2. SkipReset[2] = "reset position" /\ OnlyReset[1] = "reset position"
  BY DEF SkipReset, OnlyReset
<1>3. QED BY <1>1, <1>2

\* What is added to the list behind nothing, and behind something
LEMMA AddedFacts ==
  ASSUME op \in Seq(Actions), NEW list \in Seq(Actions)
  PROVE  /\ Added(list) \in Seq(Actions)
         /\ inOperation => Added(list) = op
         /\ ~ inOperation /\ op = <<>> => Added(list) = list
         /\ ResetComes => \E i \in DOMAIN Added(list) : Added(list)[i] = "reset position"
         /\ list = <<>> => Added(list) = op
<1>1. op \o list \in Seq(Actions) /\ (op = <<>> => op \o list = list)
      /\ (list = <<>> => op \o list = op)
  BY Concats, ConcatEmptySeq
<1>2. ASSUME ResetComes PROVE \E i \in DOMAIN (op \o list) : (op \o list)[i] = "reset position"
  <2>1. PICK i \in DOMAIN op : op[i] = "reset position"
    BY <1>2 DEF ResetComes
  <2>2. i \in 1 .. Len(op) /\ Len(op) \in Nat /\ Len(list) \in Nat
    BY <2>1, SeqFacts
  <2> DEFINE both == op \o list
  <2>3. both \in Seq(Actions) /\ Len(both) = Len(op) + Len(list) /\ both[i] = op[i]
    BY <2>2, Concats
  <2> HIDE DEF both
  <2>4. DOMAIN both = 1 .. Len(both)
    BY <2>3, SeqFacts
  <2>5. i \in DOMAIN both
    BY <2>2, <2>3, <2>4
  <2>6. \E j \in DOMAIN both : both[j] = "reset position"
    BY <2>1, <2>3, <2>5
  <2>7. QED BY <2>6 DEF both
<1>3. QED BY <1>1, <1>2 DEF Added, ResetComes

LEMMA Predecessors ==
  \A n \in Nat : \A m \in 1 .. n : m # 1 => m - 1 \in 1 .. n - 1 /\ (m - 1) + 1 = m
OBVIOUS

\* The head of the list that is not a reset leaves the reset in it.
LEMMA ResetStays ==
  ASSUME op \in Seq(Actions), op # <<>>, ResetComes, Head(op) # "reset position"
  PROVE  \E i \in DOMAIN Tail(op) : Tail(op)[i] = "reset position"
<1>1. PICK i \in DOMAIN op : op[i] = "reset position"
  BY DEF ResetComes
<1>2. i \in 1 .. Len(op) /\ i # 1 /\ Len(op) \in Nat
  BY <1>1, SeqFacts
<1>3. /\ Tail(op) \in Seq(Actions) /\ Len(Tail(op)) = Len(op) - 1
      /\ \A k \in 1 .. Len(op) - 1 : Tail(op)[k] = op[k + 1]
  BY TailFacts
<1>4. DOMAIN Tail(op) = 1 .. Len(op) - 1
  BY <1>3, SeqFacts
<1>5. i - 1 \in 1 .. Len(op) - 1 /\ (i - 1) + 1 = i
  BY <1>2, Predecessors, Zenon
<1>6. Tail(op)[i - 1] = "reset position"
  BY <1>1, <1>3, <1>5
<1>7. QED BY <1>4, <1>5, <1>6

\* What stays the same of a queue while its blocks are held or released.
SameBlocks(q, r) ==
  /\ r \in Seq(Blocks) /\ Len(r) = Len(q)
  /\ \A k \in 1 .. Len(q) : r[k].kind = q[k].kind /\ r[k].to = q[k].to

LEMMA HeldFacts ==
  ASSUME queue \in Seq(Blocks), NEW b \in BOOLEAN
  PROVE  /\ SameBlocks(queue, Held(b))
         /\ \A k \in 1 .. Len(queue) : Held(b)[k].held = b
<1>1. Len(queue) \in Nat /\ DOMAIN queue = 1 .. Len(queue)
      /\ \A k \in 1 .. Len(queue) : queue[k] \in Blocks
  BY SeqFacts
<1>2. DOMAIN Held(b) = 1 .. Len(queue)
      /\ \A k \in 1 .. Len(queue) : Held(b)[k] = [queue[k] EXCEPT !.held = b]
  BY <1>1 DEF Held
<1>3. \A k \in 1 .. Len(queue) :
         /\ Held(b)[k] \in Blocks /\ Held(b)[k].kind = queue[k].kind
         /\ Held(b)[k].to = queue[k].to /\ Held(b)[k].held = b
  BY <1>1, <1>2 DEF Blocks
<1>4. Held(b) \in [1 .. Len(queue) -> Blocks]
  BY <1>1, <1>2, <1>3 DEF Held
<1>5. Held(b) \in Seq(Blocks)
  BY <1>1, <1>4, SeqDef
<1>6. QED BY <1>1, <1>2, <1>3, <1>5, LenProperties DEF SameBlocks

\* The shape of a queue is that of its blocks.
LEMMA SameShape ==
  ASSUME NEW q \in Seq(Blocks), NEW r, SameBlocks(q, r)
  PROVE  /\ r \in Seq(Blocks)
         /\ r = <<>> <=> q = <<>>
         /\ Done(r) <=> Done(q)
         /\ MoveDone(r) <=> MoveDone(q)
         /\ Job(r) <=> Job(q)
         /\ JobMoveDone(r) <=> JobMoveDone(q)
         /\ q # <<>> => Head(r).kind = Head(q).kind /\ r[1].kind = q[1].kind /\ r[1].to = q[1].to
         /\ MoveDone(q) \/ Job(q) \/ JobMoveDone(q) => LastTo(r) = LastTo(q)
<1>1. /\ Len(q) \in Nat /\ Len(r) = Len(q) /\ r \in Seq(Blocks)
      /\ \A k \in 1 .. Len(q) : r[k].kind = q[k].kind /\ r[k].to = q[k].to
      /\ (r = <<>> <=> Len(r) = 0) /\ (q = <<>> <=> Len(q) = 0)
      /\ (r # <<>> => Head(r) = r[1]) /\ (q # <<>> => Head(q) = q[1])
  BY SeqFacts DEF SameBlocks
<1>2. r = <<>> <=> q = <<>>
  BY <1>1
<1>3. Len(q) > 0 => r[1].kind = q[1].kind /\ r[1].to = q[1].to
  BY <1>1
<1>4. Len(q) > 1 => r[2].kind = q[2].kind /\ r[2].to = q[2].to
  BY <1>1
<1>5. Len(q) > 2 => r[3].kind = q[3].kind
  BY <1>1
<1>6. q # <<>> => Head(r).kind = Head(q).kind /\ r[1].kind = q[1].kind /\ r[1].to = q[1].to
  BY <1>1, <1>3
<1>7. (Done(r) <=> Done(q)) /\ (Job(r) <=> Job(q))
  BY <1>1, <1>3 DEF Done, Job
<1>8. MoveDone(r) <=> MoveDone(q)
  BY <1>1, <1>3, <1>4 DEF MoveDone
<1>9. JobMoveDone(r) <=> JobMoveDone(q)
  BY <1>1, <1>3, <1>4, <1>5 DEF JobMoveDone
<1>10. MoveDone(q) \/ Job(q) \/ JobMoveDone(q) => LastTo(r) = LastTo(q)
  BY <1>1, <1>3, <1>4 DEF LastTo, MoveDone, Job, JobMoveDone
<1>11. QED BY <1>1, <1>2, <1>6, <1>7, <1>8, <1>9, <1>10

\* The first block of such a queue goes.
LEMMA TailShape ==
  ASSUME NEW q \in Seq(Blocks), q # <<>>
  PROVE  /\ Tail(q) \in Seq(Blocks)
         /\ Done(q) => Tail(q) = <<>>
         /\ Job(q) => Tail(q) = <<>>
         /\ MoveDone(q) => Done(Tail(q)) /\ Tail(q)[1] = q[2]
         /\ JobMoveDone(q) => /\ MoveDone(Tail(q)) /\ Tail(q)[1] = q[2]
                              /\ LastTo(Tail(q)) = LastTo(q)
<1>1. /\ Len(q) \in Nat
      /\ Tail(q) \in Seq(Blocks) /\ Len(Tail(q)) = Len(q) - 1
      /\ \A k \in 1 .. Len(q) - 1 : Tail(q)[k] = q[k + 1]
      /\ (Tail(q) = <<>> <=> Len(Tail(q)) = 0)
  BY SeqFacts, TailFacts
<1>2. Done(q) \/ Job(q) => Tail(q) = <<>>
  BY <1>1 DEF Done, Job
<1>3. MoveDone(q) => Done(Tail(q)) /\ Tail(q)[1] = q[2]
  BY <1>1 DEF MoveDone, Done
<1> DEFINE t == Tail(q)
<1>7. Len(q) \in Nat /\ Len(t) = Len(q) - 1 /\ \A k \in 1 .. Len(q) - 1 : t[k] = q[k + 1]
  BY <1>1
<1> HIDE DEF t
<1>4. JobMoveDone(q) => Len(t) = 2 /\ t[1] = q[2] /\ t[2] = q[3]
  BY <1>7 DEF JobMoveDone
<1>8. JobMoveDone(q) => MoveDone(t) /\ LastTo(t) = LastTo(q) /\ t[1] = q[2]
  BY <1>4 DEF JobMoveDone, MoveDone, LastTo
<1>5. JobMoveDone(q) => MoveDone(Tail(q)) /\ LastTo(Tail(q)) = LastTo(q) /\ Tail(q)[1] = q[2]
  BY <1>8 DEF t
<1>6. QED BY <1>1, <1>2, <1>3, <1>4, <1>5

\* Of the shapes only one holds, and it says what is at the head.
LEMMA Heads ==
  ASSUME NEW q \in Seq(Blocks)
  PROVE  /\ Done(q) => q # <<>> /\ Head(q).kind = "done"
         /\ MoveDone(q) \/ Job(q) \/ JobMoveDone(q) => q # <<>> /\ Head(q).kind = "move"
         /\ q # <<>> => Head(q) = q[1]
         /\ MoveDone(q) => ~ Job(q) /\ ~ JobMoveDone(q) /\ ~ Done(q) /\ LastTo(q) = q[1].to
         /\ Job(q) => ~ JobMoveDone(q) /\ ~ Done(q) /\ LastTo(q) = q[1].to
         /\ JobMoveDone(q) => ~ Done(q)
         /\ q = <<>> => ~ Done(q) /\ ~ MoveDone(q) /\ ~ Job(q) /\ ~ JobMoveDone(q)
<1>1. Len(q) \in Nat /\ (q = <<>> <=> Len(q) = 0) /\ (q # <<>> => Head(q) = q[1])
  BY SeqFacts
<1>2. q # <<>> => q[1] = Head(q) /\ Head(q).kind = q[1].kind
  BY <1>1
<1>3. Done(q) => q # <<>> /\ q[1].kind = "done" /\ Len(q) = 1
  BY <1>1 DEF Done
<1>4. MoveDone(q) => q # <<>> /\ q[1].kind = "move" /\ Len(q) = 2
  BY <1>1 DEF MoveDone
<1>5. Job(q) => q # <<>> /\ q[1].kind = "move" /\ Len(q) = 1
  BY <1>1 DEF Job
<1>6. JobMoveDone(q) => q # <<>> /\ q[1].kind = "move" /\ Len(q) = 3
  BY <1>1 DEF JobMoveDone
<1>7. Len(q) # 3 => LastTo(q) = q[1].to
  BY DEF LastTo
<1> DEFINE n == Len(q)
<1>8. /\ MoveDone(q) => n = 2
      /\ Job(q) => n = 1
      /\ Done(q) => n = 1
      /\ JobMoveDone(q) => n = 3
      /\ n # 3 => LastTo(q) = q[1].to
  BY <1>3, <1>4, <1>5, <1>6, <1>7
<1>9. /\ MoveDone(q) => q[1].kind = "move"
      /\ Job(q) => q[1].kind = "move"
      /\ Done(q) => q[1].kind = "done"
      /\ JobMoveDone(q) => q[1].kind = "move"
      /\ Done(q) \/ MoveDone(q) \/ Job(q) \/ JobMoveDone(q) => q # <<>>
  BY <1>3, <1>4, <1>5, <1>6
<1> HIDE DEF n
<1>10. QED BY <1>2, <1>8, <1>9
---------------------------------------------------------------------------
(* Types *)

HoldTypes == /\ hold \in {"OFF", "SYNC", "DECEL", "STOPPED", "HOLD"}
             /\ holdType \in {"HOLD", "SKIP"} /\ op \in Seq(Actions)

LEMMA RequestTypes ==
  ASSUME MachineTypes, NEW type \in {"HOLD", "SKIP"}, NEW list \in Seq(Actions),
         RequestFeedhold(type, list)
  PROVE  HoldTypes'
<1>1. Added(list) \in Seq(Actions)
  BY AddedFacts DEF MachineTypes
<1>2. QED BY <1>1 DEF RequestFeedhold, HoldTypes, MachineTypes, holding

\* Neither a cycle of the job nor its end occurs.
LEMMA NoCycleEnd ==
  ASSUME MachineTypes, CycleEnd PROVE UNCHANGED <<cycle, machine>>
BY DEF MachineTypes, CycleEnd

\* An action of an operation takes its place in the list.
Acts(a) == Next_(a) \/ Again(a)
LEMMA AfterAction ==
  ASSUME MachineTypes, Operations, NEW a, Acts(a)
  PROVE  /\ at = "run" /\ op # <<>> /\ Head(op) = a /\ a \in Actions /\ inOperation
         /\ op' \in Seq(Actions)
         /\ at' \in {"run", "reset", "planner"}
         /\ at' \in {"run", "planner"} => op' # <<>>
         /\ at' = "reset" => op' = <<>>
         /\ Next_(a) => op' = Tail(op)
<1>1. at = "run" /\ op # <<>> /\ Head(op) = a /\ inOperation /\ op \in Seq(Actions)
  BY DEF Acts, Next_, Again, Operations, MachineTypes
<1>2. a \in Actions
  <2>1. Head(op) = op[1] /\ op[1] \in Actions
    BY <1>1, SeqFacts
  <2>2. QED BY <1>1, <2>1
<1>3. CASE Next_(a)
  <2>1. op' = Tail(op) /\ at' = IF Len(op) = 1 THEN "reset" ELSE "run"
    BY <1>3 DEF Next_
  <2>2. Tail(op) \in Seq(Actions) /\ Len(Tail(op)) = Len(op) - 1 /\ Len(op) \in Nat /\ Len(op) > 0
    BY <1>1, TailFacts, SeqFacts
  <2>3. Len(op) # 1 <=> Tail(op) # <<>>
    <3> DEFINE t == Tail(op)
    <3>1. t \in Seq(Actions) /\ Len(t) = Len(op) - 1
      BY <2>2
    <3> HIDE DEF t
    <3>2. t = <<>> <=> Len(t) = 0
      BY <3>1, SeqFacts
    <3>3. QED BY <2>2, <3>1, <3>2 DEF t
  <2>4. QED BY <1>1, <1>2, <2>1, <2>2, <2>3
<1>4. CASE Again(a)
  <2>1. at' = "planner" /\ op' = op
    BY <1>4 DEF Again
  <2>2. Next_(a) => op' = Tail(op)
    BY DEF Next_
  <2>3. QED BY <1>1, <1>2, <2>1, <2>2
<1>5. QED BY <1>3, <1>4 DEF Acts

LEMMA RunActs ==
  /\ _feedhold_skip => Acts("skip")
  /\ _feedhold_no_actions => Acts("no actions")
  /\ _run_program_stop => Acts("stop")
  /\ _run_reset_position => Acts("reset position")
  /\ _feedhold_restart_no_actions => Acts("restart")
  /\ _run_restart_cycle => Acts("restart cycle")
  /\ _run_alarm => Acts("alarm")
BY DEF _feedhold_skip, _feedhold_no_actions, _run_program_stop, _run_reset_position,
   _feedhold_restart_no_actions, _run_restart_cycle, _run_alarm, Acts

\* Three of the actions are all there is.
LEMMA RunActionIs ==
  ASSUME MachineTypes, Operations, RunAction
  PROVE  _feedhold_skip \/ _feedhold_no_actions \/ _run_reset_position
<1>1. \A a : Acts(a) => a \in Actions
  BY AfterAction
<1>2. "stop" \notin Actions /\ "restart" \notin Actions /\ "restart cycle" \notin Actions
  BY DEF Actions
<1>3. QED BY <1>1, <1>2, RunActs DEF RunAction

LEMMA MachineTypesStay ==
  ASSUME MachineTypes, Operations, [Next]_vars PROVE MachineTypes'
<1>1. ASSUME HoldTypes', at' \in {"planner", "operation", "run", "reset", "cycle"},
             cycle' \in {"NONE", "HOMING"}, machine' \in {"STOP", "CYCLE", "ALARM"},
             inOperation' \in BOOLEAN, flush' = FALSE, start' = FALSE
      PROVE  MachineTypes'
  BY <1>1 DEF MachineTypes, HoldTypes
<1>2. HoldTypes /\ at \in {"planner", "operation", "run", "reset", "cycle"}
      /\ cycle \in {"NONE", "HOMING"} /\ machine \in {"STOP", "CYCLE", "ALARM"}
      /\ inOperation \in BOOLEAN /\ op \in Seq(Actions) /\ flush = FALSE /\ start = FALSE
  BY DEF MachineTypes, HoldTypes
<1>3. CASE mp_planner_callback
  BY <1>1, <1>2, <1>3 DEF mp_planner_callback, Noted, HoldTypes, requests
<1>4. CASE StartOperation
  <2>1. op' = Added(<<>> \o <<>>) /\ start' = FALSE
    BY <1>2, <1>4 DEF StartOperation
  <2>2. <<>> \o <<>> = <<>>
    BY EmptySeq, ConcatEmptySeq
  <2>3. op' = op
    BY <1>2, <2>1, <2>2, AddedFacts, EmptySeq
  <2>4. at' \in {"cycle", "run"} /\ inOperation' \in BOOLEAN
    BY <1>2, <1>4, <2>1 DEF StartOperation
  <2>5. UNCHANGED <<cycle, machine, hold, holdType, flush>>
    BY <1>4 DEF StartOperation
  <2>6. QED BY <1>1, <1>2, <2>1, <2>3, <2>4, <2>5 DEF HoldTypes
<1>5. CASE RunAction \/ _run_alarm
  <2>1. PICK a : Acts(a)
    BY <1>5, RunActs DEF RunAction
  <2>2. op' \in Seq(Actions) /\ at' \in {"run", "reset", "planner"}
    BY <2>1, AfterAction
  <2>3. CASE _feedhold_skip \/ _feedhold_no_actions \/ _run_reset_position
    BY <1>1, <1>2, <2>2, <2>3 DEF _feedhold_skip, _feedhold_no_actions, _run_reset_position,
       HoldTypes, requests
  <2>4. CASE _run_alarm
    BY <1>1, <1>2, <2>2, <2>4 DEF _run_alarm, HoldTypes
  <2>5. QED BY <1>5, <2>3, <2>4, RunActionIs
<1>6. CASE ResetOperation
  BY <1>1, <1>2, <1>6, EmptySeq DEF ResetOperation, HoldTypes, requests
<1>7. CASE Cycle
  BY <1>1, <1>2, <1>7 DEF Cycle, _homing_axis_start, _homing_axis_clear_init,
     _homing_axis_moves, _homing_axis_set_position, _homing_finalize_exit, RestOfPass, Step,
     Untouched, HomingFinalizeExit, HomingCycleStart, HoldTypes, holding, requests
<1>8. CASE Motion
  <2>1. UNCHANGED <<cycle, machine>>
    BY <1>8, NoCycleEnd DEF Motion, MoveOrCommand, Move, Stop, RunCommand
  <2>2. QED BY <1>1, <1>2, <1>8, <2>1 DEF Motion, MoveOrCommand, Move, Stop, RunCommand,
           HoldTypes, holding
<1>9. CASE Edge
  <2>1. HoldTypes'
    BY <1>2, <1>9, RequestTypes, Lists DEF Edge, holding, HoldTypes, Exit, SkipReset
  <2>2. QED BY <1>1, <1>2, <1>9, <2>1 DEF Edge, requests
<1>10. CASE LimitSwitch
  <2>1. HoldTypes'
    BY <1>2, <1>10, RequestTypes, Lists DEF LimitSwitch, HoldAlarm
  <2>2. QED BY <1>1, <1>2, <1>10, <2>1 DEF LimitSwitch
<1>11. CASE LockoutEnds \/ UNCHANGED vars
  BY <1>1, <1>2, <1>11 DEF LockoutEnds, vars, HoldTypes, holding, requests
<1>12. QED BY <1>3, <1>4, <1>5, <1>6, <1>7, <1>8, <1>9, <1>10, <1>11
       DEF Next, MainLoop, BeforeCycle, Outside

LEMMA OperationStarts ==
  ASSUME MachineTypes, StartOperation
  PROVE  op' = op /\ UNCHANGED <<motion, model, cycle, machine, hold, holdType, snapshot>>
<1>1. op' = Added(<<>> \o <<>>) /\ op \in Seq(Actions)
  BY DEF StartOperation, MachineTypes
<1>2. <<>> \o <<>> = <<>>
  BY EmptySeq, ConcatEmptySeq
<1>3. op' = op
  BY <1>1, <1>2, AddedFacts, EmptySeq
<1>4. QED BY <1>3 DEF StartOperation

\* An edge or a limit switch requests a hold.
Requested(type, list) ==
  \/ hold # "OFF" /\ UNCHANGED holding
  \/ machine = "ALARM" /\ hold' = "OFF" /\ UNCHANGED <<holdType, op>>
  \/ /\ machine # "ALARM" /\ hold = "OFF" /\ hold' = "SYNC" /\ holdType' = type
     /\ inOperation => op' = op
     /\ ~ inOperation /\ op = <<>> => op' = list
     /\ ResetComes => ResetComes'

LEMMA Requests ==
  ASSUME MachineTypes, NEW type, NEW list \in Seq(Actions), RequestFeedhold(type, list)
  PROVE  Requested(type, list)
<1>1. op \in Seq(Actions) /\ machine \in {"STOP", "CYCLE", "ALARM"}
  BY DEF MachineTypes
<1>2. CASE machine \notin {"CYCLE", "STOP"}
  BY <1>1, <1>2 DEF RequestFeedhold, Requested
<1>3. CASE machine \in {"CYCLE", "STOP"} /\ hold = "OFF"
  <2>1. hold' = "SYNC" /\ holdType' = type /\ op' = Added(list)
    BY <1>3 DEF RequestFeedhold
  <2>2. ResetComes => ResetComes'
    BY <1>1, <2>1, AddedFacts DEF ResetComes
  <2>3. QED BY <1>1, <1>3, <2>1, <2>2, AddedFacts DEF Requested
<1>4. CASE machine \in {"CYCLE", "STOP"} /\ hold # "OFF"
  BY <1>4 DEF RequestFeedhold, Requested
<1>5. QED BY <1>2, <1>3, <1>4

\* The edges that the handler of the input takes
Handled == ~ lockout /\ registered /\ Homes /\ level'
LEMMA EdgeIs ==
  ASSUME MachineTypes, Edge
  PROVE  /\ UNCHANGED <<at, queue, pos, model, cycle, machine, waiting, inOperation, hm, zero,
                        homings, surface>>
         /\ Handled \/ (UNCHANGED holding /\ met' = met /\ snapshot' = snapshot)
         /\ Handled => /\ Requested("SKIP", SkipReset)
                       /\ Expected \/ "stray" \in mishaps'
                       /\ HasMove /\ ~ OwnMove => "early" \in mishaps'
                       /\ "latch" \in met' => \/ "latch" \in met
                                              \/ ~ bouncing /\ func # "clear"
         /\ mishaps \subseteq mishaps'
         /\ EdgeTo(level')
<1>1. PICK l \in BOOLEAN :
         LET handled == ~ lockout /\ registered /\ cycle = "HOMING" /\ LeadingEdge(l)
         IN /\ EdgeTo(l)
            /\ snapshot' = (IF handled THEN pos ELSE snapshot)
            /\ IF handled THEN RequestFeedhold("SKIP", Exit) ELSE UNCHANGED holding
            /\ met' = met \cup {m \in {"search", "latch"} :
                                  /\ handled /\ Expected /\ ~ bouncing
                                  /\ m = IF func = "clear" THEN "search" ELSE "latch"}
            /\ mishaps' = mishaps \cup {m \in {"stray"} : handled /\ l /\ ~ Expected}
                                  \cup {m \in {"early"} : handled /\ HasMove /\ ~ OwnMove}
                                  \cup {m \in {"refused"} : handled /\ Refused}
  BY DEF Edge
<1>2. level' = l
  BY <1>1 DEF EdgeTo
<1>3. UNCHANGED <<at, queue, pos, model, cycle, machine, waiting, inOperation, hm, zero,
                  homings, surface>>
  BY DEF Edge, EdgeTo
<1>4. CASE ~ lockout /\ registered /\ cycle = "HOMING" /\ LeadingEdge(l)
  <2>1. RequestFeedhold("SKIP", SkipReset)
    BY <1>1, <1>4 DEF Exit, SkipReset
  <2>2. Requested("SKIP", SkipReset)
    BY <2>1, Requests, Lists
  <2>3. Handled /\ l
    BY <1>2, <1>4 DEF Handled, Homes, LeadingEdge
  <2>4. "latch" \in met' => "latch" \in met \/ (~ bouncing /\ func # "clear")
    BY <1>1
  <2>5. Expected \/ "stray" \in mishaps'
    BY <1>1, <1>4, <2>3
  <2>6. HasMove /\ ~ OwnMove => "early" \in mishaps'
    BY <1>1, <1>4
  <2>7. QED BY <1>1, <1>2, <1>3, <2>2, <2>3, <2>4, <2>5, <2>6
<1>5. CASE ~ (~ lockout /\ registered /\ cycle = "HOMING" /\ LeadingEdge(l))
  <2>1. UNCHANGED holding /\ snapshot' = snapshot
    BY <1>1, <1>5
  <2>2. met' = met
    BY <1>1, <1>5
  <2>3. ~ Handled
    BY <1>2, <1>5 DEF Handled, Homes, LeadingEdge
  <2>4. QED BY <1>1, <1>2, <1>3, <2>1, <2>2, <2>3
<1>6. QED BY <1>4, <1>5

LEMMA LimitIs ==
  ASSUME MachineTypes, LimitSwitch
  PROVE  /\ at = "planner" /\ Requested("HOLD", HoldAlarm)
         /\ UNCHANGED <<at, queue, pos, model, cycle, machine, waiting, inOperation, snapshot, input>>
<1>1. RequestFeedhold("HOLD", HoldAlarm)
  BY DEF LimitSwitch, HoldAlarm
<1>2. QED BY <1>1, Requests, Lists DEF LimitSwitch, motion
---------------------------------------------------------------------------
(* What is queued, and types again *)

\* _homing_axis_move() behind an empty queue, and behind the job's move
LEMMA AxisMoves ==
  ASSUME queue \in Seq(Blocks), model' \in Int, NEW d, HomingAxisMove(d)
  PROVE  /\ queue' \in Seq(Blocks) /\ waiting' = TRUE
         /\ queue = <<>> /\ d = 0 => Done(queue') /\ queue'[1].held = FALSE
         /\ queue = <<>> /\ d # 0 => MoveDone(queue') /\ queue'[1].to = model'
         /\ Job(queue) /\ d # 0 => /\ JobMoveDone(queue') /\ LastTo(queue') = model'
                                   /\ queue'[1] = queue[1]
<1> DEFINE m == Block("move", model')
           e == Block("done", 0)
           moves == IF d = 0 THEN <<>> ELSE <<m>>
<1>1. queue' = queue \o moves \o <<e>> /\ waiting' = TRUE
  BY DEF HomingAxisMove
<1>2. /\ m \in Blocks /\ m.kind = "move" /\ m.to = model'
      /\ e \in Blocks /\ e.kind = "done" /\ e.held = FALSE
  <2>1. m \in Blocks /\ e \in Blocks
    BY BlockIsBlock
  <2>2. m.kind = "move" /\ m.to = model' /\ e.kind = "done" /\ e.held = FALSE
    BY DEF Block
  <2>3. QED BY <2>1, <2>2
<1> HIDE DEF m, e
<1>3. /\ <<m>> \in Seq(Blocks) /\ Len(<<m>>) = 1 /\ <<m>>[1] = m
      /\ <<e>> \in Seq(Blocks) /\ Len(<<e>>) = 1 /\ <<e>>[1] = e
      /\ <<>> \in Seq(Blocks)
  BY <1>2, Singles, EmptySeq
<1>4. moves \in Seq(Blocks)
  BY <1>3
<1>5. queue \o moves \in Seq(Blocks)
  BY <1>4, Concats
<1>6. queue' \in Seq(Blocks)
  BY <1>1, <1>3, <1>5, Concats
<1>7. ASSUME queue = <<>>, d = 0 PROVE Done(queue') /\ queue'[1].held = FALSE
  <2>1. queue' = <<e>>
    BY <1>1, <1>3, <1>7, ConcatEmptySeq
  <2>2. QED BY <1>2, <1>3, <2>1 DEF Done
<1>8. ASSUME NEW q \in Seq(Blocks), d # 0, queue' = q \o <<e>>
      PROVE  /\ Len(queue') = Len(q) + 1 /\ queue'[Len(q) + 1] = e
             /\ \A k \in 1 .. Len(q) : queue'[k] = q[k]
  <2>1. /\ Len(q \o <<e>>) = Len(q) + Len(<<e>>)
        /\ \A k \in 1 .. Len(q) : (q \o <<e>>)[k] = q[k]
        /\ \A k \in 1 .. Len(<<e>>) : (q \o <<e>>)[Len(q) + k] = <<e>>[k]
    BY <1>3, Concats
  <2>2. 1 \in 1 .. Len(<<e>>)
    BY <1>3
  <2>3. QED BY <1>3, <1>8, <2>1, <2>2
<1>9. ASSUME queue = <<>>, d # 0 PROVE MoveDone(queue') /\ queue'[1].to = model'
  <2>1. queue' = <<m>> \o <<e>>
    BY <1>1, <1>3, <1>9, ConcatEmptySeq
  <2>2. /\ Len(queue') = Len(<<m>>) + 1 /\ queue'[Len(<<m>>) + 1] = e
        /\ \A k \in 1 .. Len(<<m>>) : queue'[k] = <<m>>[k]
    BY <1>3, <1>8, <1>9, <2>1
  <2>3. Len(queue') = 2 /\ queue'[2] = e /\ queue'[1] = m
    BY <1>3, <2>2
  <2>4. QED BY <1>2, <2>3 DEF MoveDone
<1>10. ASSUME Job(queue), d # 0
       PROVE  JobMoveDone(queue') /\ LastTo(queue') = model' /\ queue'[1] = queue[1]
  <2> DEFINE q == queue \o <<m>>
  <2>1. queue' = q \o <<e>>
    BY <1>1, <1>10
  <2>2. /\ q \in Seq(Blocks) /\ Len(q) = Len(queue) + Len(<<m>>)
        /\ \A k \in 1 .. Len(queue) : q[k] = queue[k]
        /\ \A k \in 1 .. Len(<<m>>) : q[Len(queue) + k] = <<m>>[k]
    BY <1>3, Concats
  <2> HIDE DEF q
  <2>3. Len(queue) = 1 /\ queue[1].kind = "move"
    BY <1>10 DEF Job
  <2>4. Len(q) = 2 /\ q[1] = queue[1] /\ q[2] = m
    BY <1>3, <2>2, <2>3
  <2>5. /\ Len(queue') = Len(q) + 1 /\ queue'[Len(q) + 1] = e
        /\ \A k \in 1 .. Len(q) : queue'[k] = q[k]
    BY <1>8, <1>10, <2>1, <2>2
  <2>6. Len(queue') = 3 /\ queue'[1] = queue[1] /\ queue'[2] = m /\ queue'[3] = e
    BY <2>4, <2>5
  <2>7. QED BY <1>2, <2>3, <2>6 DEF JobMoveDone, LastTo
<1>11. QED BY <1>1, <1>6, <1>7, <1>9, <1>10

LEMMA OtherBlocks ==
  /\ <<Block("other", 0), Block("other", 0)>> \in Seq(Blocks)
  /\ <<Block("other", 0)>> \in Seq(Blocks)
  /\ \A q \in Seq(Blocks) : Append(q, Block("other", 0)) \in Seq(Blocks)
<1>1. Block("other", 0) \in Blocks
  BY BlockIsBlock
<1>2. QED BY <1>1, Singles, Pairs, AppendProperties

LEMMA OtherBehind ==
  ASSUME NEW q \in Seq(Blocks), q # <<>>
  PROVE  LET r == Append(q, Block("other", 0))
         IN r # <<>> /\ Head(r) = Head(q)
<1>1. Block("other", 0) \in Blocks
  BY BlockIsBlock
<1> DEFINE r == Append(q, Block("other", 0))
<1>2. /\ r \in Seq(Blocks) /\ Len(r) = Len(q) + 1
      /\ \A k \in 1 .. Len(q) : r[k] = q[k]
  BY <1>1, AppendProperties
<1> HIDE DEF r
<1>3. Len(q) \in Nat /\ Len(q) > 0 /\ Head(q) = q[1]
  BY SeqFacts
<1>4. Len(r) > 0 /\ r[1] = q[1]
  BY <1>2, <1>3
<1>5. r # <<>> /\ Head(r) = r[1]
  BY <1>2, <1>4, SeqFacts
<1>6. QED BY <1>3, <1>4, <1>5 DEF r

\* Actions of the runner leave the queue, or hold or release its blocks.
Released == /\ queue' = queue \/ \E b \in BOOLEAN : queue' = Held(b)
            /\ UNCHANGED <<pos, waiting, snapshot, input>>

LEMMA BeforeCycleReleases ==
  ASSUME MachineTypes, Operations, BeforeCycle
  PROVE  Released /\ (model' = model \/ model' = pos)
<1>1. CASE mp_planner_callback \/ StartOperation \/ ResetOperation
  BY <1>1 DEF mp_planner_callback, StartOperation, ResetOperation, motion, Released
<1>2. CASE _feedhold_skip \/ _feedhold_no_actions
  BY <1>2 DEF _feedhold_skip, _feedhold_no_actions, Released
<1>3. CASE _run_reset_position
  BY <1>3 DEF _run_reset_position, motion, Released
<1>4. QED BY <1>1, <1>2, <1>3, RunActionIs DEF BeforeCycle

LEMMA ReleasedKeeps ==
  ASSUME queue \in Seq(Blocks), Released PROVE SameBlocks(queue, queue')
BY HeldFacts DEF Released, SameBlocks

\* The four moves, one by one
LEMMA MovesAre ==
  ASSUME _homing_axis_moves
  PROVE  /\ \/ func = "search" /\ func' = "clear" /\ HomingAxisMove(Travel)
            \/ func = "clear" /\ func' = "latch" /\ HomingAxisMove(0 - Backoff)
            \/ func = "latch" /\ func' = "setpoint backoff" /\ HomingAxisMove(Backoff)
            \/ func = "setpoint backoff" /\ func' = "set position" /\ HomingAxisMove(0 - ZeroBackoff)
         /\ at = "cycle" /\ at' = "planner" /\ Homes /\ ~ waiting
         /\ Untouched
         /\ UNCHANGED <<cycle, machine, hold, snapshot, axis, registered, modes, homing_state, zero>>
<1>1. PICK next \in {[from |-> "search", by |-> Travel, to |-> "clear"],
                     [from |-> "clear", by |-> 0 - Backoff, to |-> "latch"],
                     [from |-> "latch", by |-> Backoff, to |-> "setpoint backoff"],
                     [from |-> "setpoint backoff", by |-> 0 - ZeroBackoff, to |-> "set position"]} :
        Step(next.from) /\ func' = next.to /\ HomingAxisMove(next.by)
  BY DEF _homing_axis_moves
<1>2. at = "cycle" /\ at' = "planner" /\ Homes /\ ~ waiting /\ func = next.from
  BY <1>1 DEF Step, Homes
<1>3. CASE next = [from |-> "search", by |-> Travel, to |-> "clear"]
  <2>1. next.from = "search" /\ next.by = Travel /\ next.to = "clear"
    BY <1>3
  <2>2. func = "search" /\ func' = "clear" /\ HomingAxisMove(Travel)
    BY <1>1, <1>2, <2>1
  <2>3. QED BY <1>2, <2>2 DEF _homing_axis_moves
<1>4. CASE next = [from |-> "clear", by |-> 0 - Backoff, to |-> "latch"]
  <2>1. next.from = "clear" /\ next.by = 0 - Backoff /\ next.to = "latch"
    BY <1>4
  <2>2. func = "clear" /\ func' = "latch" /\ HomingAxisMove(0 - Backoff)
    BY <1>1, <1>2, <2>1
  <2>3. QED BY <1>2, <2>2 DEF _homing_axis_moves
<1>5. CASE next = [from |-> "latch", by |-> Backoff, to |-> "setpoint backoff"]
  <2>1. next.from = "latch" /\ next.by = Backoff /\ next.to = "setpoint backoff"
    BY <1>5
  <2>2. func = "latch" /\ func' = "setpoint backoff" /\ HomingAxisMove(Backoff)
    BY <1>1, <1>2, <2>1
  <2>3. QED BY <1>2, <2>2 DEF _homing_axis_moves
<1>6. CASE next = [from |-> "setpoint backoff", by |-> 0 - ZeroBackoff, to |-> "set position"]
  <2>1. next.from = "setpoint backoff" /\ next.by = 0 - ZeroBackoff /\ next.to = "set position"
    BY <1>6
  <2>2. func = "setpoint backoff" /\ func' = "set position" /\ HomingAxisMove(0 - ZeroBackoff)
    BY <1>1, <1>2, <2>1
  <2>3. QED BY <1>2, <2>2 DEF _homing_axis_moves
<1>7. QED BY <1>1, <1>3, <1>4, <1>5, <1>6

LEMMA HomingTypesStay ==
  ASSUME HomingTypes, [Next]_vars PROVE HomingTypes'
<1>1. CASE UNCHANGED hm
  BY <1>1 DEF HomingTypes, hm
<1>2. CASE Cycle
  <2>1. CASE _homing_axis_moves
    BY <2>1, MovesAre DEF HomingTypes, Steps, Untouched
  <2>2. CASE RestOfPass
    BY <1>1, <2>2 DEF RestOfPass, HomingCycleStart, HomingTypes, Steps
  <2>3. CASE _homing_axis_start \/ _homing_axis_clear_init \/ _homing_axis_set_position
             \/ _homing_finalize_exit
    BY <2>3 DEF _homing_axis_start, _homing_axis_clear_init, _homing_axis_set_position,
       _homing_finalize_exit, HomingFinalizeExit, HomingTypes, Steps, Untouched
  <2>4. QED BY <1>2, <2>1, <2>2, <2>3 DEF Cycle
<1>3. CASE _run_alarm
  BY <1>3 DEF _run_alarm, HomingTypes
<1>4. CASE Edge
  BY <1>1, <1>4 DEF Edge
<1>5. QED BY <1>1, <1>2, <1>3, <1>4 DEF Next, MainLoop, Motion, Outside, vars

LEMMA MotionTypesStay ==
  ASSUME MachineTypes, Operations, MotionTypes, HomingTypes, [Next]_vars PROVE MotionTypes'
<1>1. /\ queue \in Seq(Blocks) /\ waiting \in BOOLEAN
      /\ pos \in Int /\ model \in Int /\ snapshot \in Int /\ surface \in Int
      /\ level \in BOOLEAN /\ bouncing \in BOOLEAN
  BY DEF MotionTypes
<1>2. CASE UNCHANGED <<motion, model, snapshot, surface, level, bouncing>>
  BY <1>1, <1>2 DEF MotionTypes, motion
<1>3. CASE BeforeCycle
  <2>1. queue' \in Seq(Blocks)
    BY <1>1, <1>3, BeforeCycleReleases, ReleasedKeeps DEF SameBlocks
  <2>2. QED BY <1>1, <1>3, <2>1, BeforeCycleReleases DEF Released, input, MotionTypes
<1>4. CASE _run_alarm
  <2>1. queue' \in Seq(Blocks) /\ waiting' \in BOOLEAN /\ model' \in Int
    BY <1>1, <1>4, OtherBlocks DEF _run_alarm
  <2>2. UNCHANGED <<pos, snapshot, surface, level, bouncing>>
    BY <1>4 DEF _run_alarm, input
  <2>3. QED BY <1>1, <2>1, <2>2 DEF MotionTypes
<1>5. CASE Cycle
  <2>1. UNCHANGED <<pos, surface, level, bouncing>>
    BY <1>5 DEF Cycle, _homing_axis_start, _homing_axis_clear_init, _homing_axis_moves,
       _homing_axis_set_position, _homing_finalize_exit, RestOfPass, Untouched, input, motion
  <2>2. snapshot' = snapshot
    BY <1>5 DEF Cycle, _homing_axis_start, _homing_axis_clear_init, _homing_axis_moves,
       _homing_axis_set_position, _homing_finalize_exit, RestOfPass
  <2>3. ASSUME NEW d \in Int, HomingAxisMove(d)
        PROVE  queue' \in Seq(Blocks) /\ waiting' = TRUE /\ model' \in Int
    <3>1. model' \in Int
      BY <1>1, <2>3 DEF HomingAxisMove
    <3>2. QED BY <1>1, <2>3, <3>1, AxisMoves
  <2>4. 0 - Backoff \in Int /\ Backoff \in Int /\ Travel \in Int /\ 0 - ZeroBackoff \in Int
    BY HomingAssumption
  <2>5. queue' \in Seq(Blocks) /\ waiting' \in BOOLEAN /\ model' \in Int
    <3>1. CASE _homing_axis_start
      BY <1>1, <3>1 DEF _homing_axis_start
    <3>2. CASE _homing_axis_clear_init
      BY <1>1, <2>3, <2>4, <3>2, OtherBlocks DEF _homing_axis_clear_init, HomingFinalizeExit
    <3>3. CASE _homing_axis_moves
      BY <2>3, <2>4, <3>3, MovesAre
    <3>4. CASE _homing_axis_set_position
      BY <1>1, <2>3, <3>4 DEF _homing_axis_set_position
    <3>5. CASE _homing_finalize_exit
      BY <1>1, <3>5, OtherBlocks DEF _homing_finalize_exit, HomingFinalizeExit
    <3>6. CASE RestOfPass
      <4>1. CASE UNCHANGED <<motion, model>>
        BY <1>1, <4>1 DEF motion
      <4>2. ASSUME NEW set, HomingCycleStart(set)
            PROVE  queue' \in Seq(Blocks) /\ waiting' \in BOOLEAN /\ model' \in Int
        <5>1. \/ UNCHANGED <<queue, model>>
              \/ \E to \in Jobs : queue' = <<Block("move", to)>> /\ model' = to
          BY <4>2 DEF HomingCycleStart
        <5>2. Jobs \subseteq Int
          BY HomingAssumption, BoundAssumption
        <5>3. \A to \in Jobs : <<Block("move", to)>> \in Seq(Blocks)
          BY <5>2, BlockIsBlock, Singles
        <5>4. waiting' = FALSE
          BY <4>2 DEF HomingCycleStart
        <5>5. QED BY <1>1, <5>1, <5>2, <5>3, <5>4
      <4>3. QED BY <3>6, <4>1, <4>2 DEF RestOfPass
    <3>7. QED BY <1>5, <3>1, <3>2, <3>3, <3>4, <3>5, <3>6 DEF Cycle
  <2>6. QED BY <1>1, <2>1, <2>2, <2>5 DEF MotionTypes
<1>6. CASE Motion
  <2>1. queue # <<>> /\ Tail(queue) \in Seq(Blocks)
    BY <1>1, <1>6, TailFacts DEF Motion, MoveOrCommand, Move, Stop, RunCommand, HasMove
  <2>2. CASE Move
    <3>1. queue' \in Seq(Blocks) /\ pos' \in Int /\ bouncing' \in BOOLEAN
      BY <1>1, <2>1, <2>2 DEF Move
    <3>2. QED BY <1>1, <2>2, <3>1 DEF Move, MotionTypes
  <2>3. CASE Stop
    <3>1. SameBlocks(queue, Held(TRUE))
      BY <1>1, HeldFacts
    <3>2. Held(TRUE) \in Seq(Blocks) /\ Held(TRUE) # <<>>
      BY <1>1, <2>1, <3>1, SameShape
    <3>3. Tail(Held(TRUE)) \in Seq(Blocks)
      BY <3>2, TailFacts
    <3>4. queue' \in Seq(Blocks)
      BY <1>1, <2>3, <3>3 DEF Stop
    <3>5. QED BY <1>1, <2>3, <3>4 DEF Stop, MotionTypes, input
  <2>4. CASE RunCommand
    BY <1>1, <2>1, <2>4 DEF RunCommand, MotionTypes, input
  <2>5. QED BY <1>6, <2>2, <2>3, <2>4 DEF Motion, MoveOrCommand
<1>7. CASE Edge
  <2>1. UNCHANGED <<queue, waiting, pos, model, surface>>
    BY <1>7, EdgeIs
  <2>2. level' \in BOOLEAN /\ bouncing' \in BOOLEAN /\ snapshot' \in Int
    BY <1>1, <1>7 DEF Edge, EdgeTo
  <2>3. QED BY <1>1, <2>1, <2>2 DEF MotionTypes
<1>8. CASE Outside \/ UNCHANGED vars
  BY <1>2, <1>8 DEF Outside, LimitSwitch, LockoutEnds, vars, motion, input
<1>9. QED BY <1>3, <1>4, <1>5, <1>6, <1>7, <1>8 DEF Next, MainLoop

LEMMA OperationsStay ==
  ASSUME MachineTypes, Operations, Phases, [Next]_vars PROVE Operations'
<1>1. CASE UNCHANGED <<at, hold, op, inOperation>>
  BY <1>1 DEF Operations
<1>2. CASE mp_planner_callback
  BY <1>2 DEF mp_planner_callback, Operations
<1>3. CASE StartOperation
  <2>1. op' = op /\ hold' = hold
    BY <1>3, OperationStarts
  <2>2. CASE op' = <<>>
    <3>1. ~ inOperation
      BY <1>3, <2>1, <2>2 DEF StartOperation, Operations
    <3>2. QED BY <1>3, <2>2, <3>1 DEF StartOperation, Operations
  <2>3. CASE op' # <<>>
    BY <1>3, <2>3 DEF StartOperation, Operations
  <2>4. QED BY <2>2, <2>3
<1>4. CASE RunAction \/ _run_alarm
  <2>1. PICK a : Acts(a)
    BY <1>4, RunActs DEF RunAction
  <2>2. inOperation /\ at' \in {"run", "reset", "planner"} /\ (at' = "reset" <=> op' = <<>>)
    BY <2>1, AfterAction
  <2>3. inOperation' = inOperation
    BY <1>4, RunActionIs DEF _feedhold_skip, _feedhold_no_actions, _run_reset_position, _run_alarm
  <2>4. QED BY <2>2, <2>3 DEF Operations
<1>5. CASE ResetOperation
  BY <1>5 DEF ResetOperation, Operations
<1>6. CASE Cycle
  <2>1. at = "cycle" /\ at' = "planner" /\ UNCHANGED <<inOperation, op>>
    BY <1>6 DEF Cycle, _homing_axis_start, _homing_axis_clear_init, _homing_axis_moves,
       _homing_axis_set_position, _homing_finalize_exit, RestOfPass, Step, Untouched, holding
  <2>2. QED BY <2>1 DEF Operations
<1>7. CASE Motion
  <2>1. UNCHANGED <<at, op, inOperation>> /\ (hold' = "OFF" <=> hold = "OFF")
    BY <1>7 DEF Motion, MoveOrCommand, Move, Stop, RunCommand, holding, Braking
  <2>2. QED BY <2>1 DEF Operations
<1>8. CASE Edge
  <2>1. UNCHANGED <<at, inOperation, machine>>
    BY <1>8, EdgeIs
  <2>2. CASE UNCHANGED holding
    BY <2>1, <2>2 DEF Operations, holding
  <2>3. CASE ~ UNCHANGED holding
    <3>1. Homes /\ Requested("SKIP", SkipReset)
      BY <1>8, <2>3, EdgeIs DEF Handled
    <3>2. machine = "CYCLE"
      BY <3>1 DEF Phases
    <3>3. hold' # "OFF" /\ (inOperation => op' = op)
      BY <2>3, <3>1, <3>2 DEF Requested
    <3>4. QED BY <2>1, <3>3 DEF Operations
  <2>4. QED BY <2>2, <2>3
<1>9. CASE LimitSwitch
  <2>1. UNCHANGED <<at, inOperation, machine>> /\ at = "planner" /\ Requested("HOLD", HoldAlarm)
    BY <1>9, LimitIs
  <2>2. inOperation => op' = op
    BY <2>1 DEF Requested, holding
  <2>3. QED BY <2>1, <2>2 DEF Operations
<1>10. CASE LockoutEnds \/ UNCHANGED vars
  BY <1>1, <1>10 DEF LockoutEnds, vars, holding
<1>11. QED BY <1>2, <1>3, <1>4, <1>5, <1>6, <1>7, <1>8, <1>9, <1>10
       DEF Next, MainLoop, BeforeCycle, Outside
---------------------------------------------------------------------------
(* Holds in a homing cycle *)

\* What an operation can do in a homing cycle
Quiet == UNCHANGED <<cycle, machine, holdType, inOperation, pos, waiting, snapshot, input>>
SkipWaits == /\ op = SkipReset /\ hold \in Braking /\ at' = "planner"
             /\ UNCHANGED <<op, hold, queue, model>>
SkipEnds == /\ op = SkipReset /\ hold = "STOPPED" /\ at' = "run"
            /\ op' = OnlyReset /\ hold' = "OFF" /\ queue' = Held(FALSE) /\ model' = model
HoldWaits == /\ op = HoldAlarm /\ hold \in Braking /\ at' = "planner"
             /\ UNCHANGED <<op, hold, queue, model>>
HoldBegins == /\ op = HoldAlarm /\ hold = "STOPPED" /\ at' = "run"
              /\ op' = OnlyAlarm /\ hold' = "HOLD" /\ queue' = Held(FALSE) /\ model' = model
Resets == /\ op = OnlyReset /\ at' = "reset"
          /\ op' = <<>> /\ model' = pos /\ UNCHANGED <<hold, queue>>

LEMMA InOperation ==
  ASSUME MachineTypes, Operations, Phases, Homes, RunAction
  PROVE  Quiet /\ (SkipWaits \/ SkipEnds \/ HoldWaits \/ HoldBegins \/ Resets)
<1>1. PICK a : Acts(a)
  BY RunActs DEF RunAction
<1>2. at = "run" /\ op # <<>>
  BY <1>1, AfterAction
<1>3. /\ _feedhold_skip => Head(op) = "skip" /\ (Next_("skip") \/ Again("skip"))
      /\ _feedhold_no_actions => Head(op) = "no actions"
      /\ _run_reset_position => Head(op) = "reset position"
  BY RunActs, AfterAction DEF Acts
<1>4. _feedhold_skip \/ _feedhold_no_actions \/ _run_reset_position
  BY RunActionIs
<1>5. machine = "CYCLE"
  BY DEF Phases
<1>6. _feedhold_skip \/ _feedhold_no_actions \/ _run_reset_position
         => UNCHANGED <<cycle, machine, inOperation, pos, waiting, snapshot, input>>
  BY DEF _feedhold_skip, _feedhold_no_actions, _run_reset_position, motion
<1>7. CASE op = SkipReset /\ Skipping
  <2>1. _feedhold_skip
    BY <1>3, <1>4, <1>7, Lists
  <2>2. hold \in Braking \/ hold = "STOPPED"
    BY <1>7 DEF Skipping, Halts, Braking
  <2>3. CASE hold = "STOPPED"
    <3>1. Next_("skip") /\ hold' = "OFF" /\ queue' = Held(FALSE) /\ model' = model
          /\ holdType' = holdType
      BY <1>5, <2>1, <2>3 DEF _feedhold_skip
    <3>2. op' = Tail(op) /\ Len(op) = 2 /\ at' = IF Len(op) = 1 THEN "reset" ELSE "run"
      BY <1>7, <3>1, Lists DEF Next_
    <3>3. op' = OnlyReset /\ at' = "run"
      <4>1. op' = Tail(op)
        BY <3>2
      <4>2. op' = OnlyReset
        BY <1>7, <4>1, Lists
      <4>3. 2 # 1
        OBVIOUS
      <4>4. at' = "run"
        BY <3>2, <4>3
      <4>5. QED BY <4>2, <4>4
    <3>4. QED BY <1>6, <1>7, <2>1, <2>3, <3>1, <3>3 DEF SkipEnds, Quiet
  <2>4. CASE hold \in Braking
    <3>1. Again("skip") /\ UNCHANGED <<hold, holdType, queue, model>>
      BY <1>5, <2>1, <2>4 DEF _feedhold_skip, Braking
    <3>2. QED BY <1>6, <1>7, <2>1, <2>4, <3>1 DEF SkipWaits, Again, Quiet
  <2>5. QED BY <2>2, <2>3, <2>4
<1>8. CASE op = OnlyReset /\ (hold = "OFF" \/ Skipping)
  <2>1. _run_reset_position
    BY <1>3, <1>4, <1>8, Lists
  <2>2. op' = <<>> /\ at' = "reset"
    BY <1>8, <2>1, Lists DEF _run_reset_position, Next_
  <2>3. Quiet
    BY <1>6, <2>1 DEF _run_reset_position, Quiet, holding
  <2>4. QED BY <1>8, <2>1, <2>2, <2>3 DEF _run_reset_position, Resets, motion, holding
<1>9. CASE op = HoldAlarm /\ hold \in Halts
  <2>1. _feedhold_no_actions
    BY <1>3, <1>4, <1>9, Lists
  <2>2. hold \in Braking \/ hold = "STOPPED"
    BY <1>9 DEF Halts, Braking
  <2>3. CASE hold = "STOPPED"
    <3>1. Next_("no actions") /\ hold' = "HOLD" /\ queue' = Held(FALSE) /\ model' = model
          /\ holdType' = holdType
      BY <2>1, <2>3 DEF _feedhold_no_actions, Braking
    <3>2. op' = Tail(op) /\ Len(op) = 2 /\ at' = IF Len(op) = 1 THEN "reset" ELSE "run"
      BY <1>9, <3>1, Lists DEF Next_
    <3>3. op' = OnlyAlarm /\ at' = "run"
      <4>1. op' = Tail(op)
        BY <3>2
      <4>2. op' = OnlyAlarm
        BY <1>9, <4>1, Lists
      <4>3. 2 # 1
        OBVIOUS
      <4>4. at' = "run"
        BY <3>2, <4>3
      <4>5. QED BY <4>2, <4>4
    <3>4. QED BY <1>6, <1>9, <2>1, <2>3, <3>1, <3>3 DEF HoldBegins, Quiet
  <2>4. CASE hold \in Braking
    <3>1. Again("no actions") /\ UNCHANGED <<hold, holdType, queue, model>>
      BY <2>1, <2>4 DEF _feedhold_no_actions, Braking
    <3>2. QED BY <1>6, <1>9, <2>1, <2>4, <3>1 DEF HoldWaits, Again, Quiet
  <2>5. QED BY <2>2, <2>3, <2>4
<1>10. CASE op = OnlyAlarm
  BY <1>3, <1>4, <1>10, Lists
<1>11. QED BY <1>2, <1>7, <1>8, <1>9, <1>10 DEF Phases

\* Without a cycle nothing moves, and the reset of the model stays in the list.
LEMMA OutOfCycle ==
  ASSUME MachineTypes, Operations, RunAction
  PROVE  /\ UNCHANGED <<cycle, machine, pos, waiting>>
         /\ model' = pos \/ (model' = model /\ (ResetComes => ResetComes'))
<1>1. /\ _feedhold_skip => Acts("skip") /\ Head(op) = "skip"
      /\ _feedhold_no_actions => Acts("no actions") /\ Head(op) = "no actions"
  BY RunActs, AfterAction
<1>2. _feedhold_skip \/ _feedhold_no_actions \/ _run_reset_position
  BY RunActionIs
<1>3. ASSUME NEW a, Acts(a), a # "reset position" PROVE ResetComes => ResetComes'
  <2>1. op \in Seq(Actions) /\ op # <<>> /\ Head(op) = a
    BY <1>3, AfterAction DEF MachineTypes
  <2>2. op' = op \/ op' = Tail(op)
    BY <1>3 DEF Acts, Next_, Again
  <2>3. QED BY <1>3, <2>1, <2>2, ResetStays DEF ResetComes
<1>4. _feedhold_skip \/ _feedhold_no_actions => (ResetComes => ResetComes')
  BY <1>1, <1>3
<1>5. QED BY <1>2, <1>4 DEF _feedhold_skip, _feedhold_no_actions, _run_reset_position, motion

\* What the steps of the cycle leave alone
LEMMA InCycle ==
  ASSUME Cycle
  PROVE  /\ at = "cycle" /\ at' = "planner"
         /\ UNCHANGED <<op, holdType, inOperation, pos, input>>
         /\ Homes /\ Homes' => UNCHANGED <<hold, machine>>
         /\ Homes' /\ ~ Homes => RestOfPass
         /\ ~ Homes => RestOfPass
         /\ Homes /\ RestOfPass => waiting /\ UNCHANGED <<motion, model, cycle, machine, holding, hm, history>>
<1>1. CASE RestOfPass
  <2>1. at = "cycle" /\ at' = "planner" /\ UNCHANGED <<holding, inOperation, input, pos>>
    BY <1>1 DEF RestOfPass, motion
  <2>2. Homes => waiting /\ UNCHANGED <<motion, model, cycle, machine, hm, history>>
    BY <1>1 DEF RestOfPass, Homes
  <2>3. QED BY <1>1, <2>1, <2>2 DEF holding
<1>2. CASE ~ RestOfPass
  <2>1. CASE _homing_axis_start \/ _homing_axis_moves \/ _homing_axis_set_position
    <3>1. at = "cycle" /\ at' = "planner" /\ Homes /\ Untouched /\ UNCHANGED <<hold, machine>>
      BY <2>1, MovesAre DEF _homing_axis_start, _homing_axis_set_position, Step, Homes
    <3>2. UNCHANGED <<op, holdType, inOperation, pos, input>>
      BY <3>1 DEF Untouched
    <3>3. QED BY <1>2, <3>1, <3>2
  <2>2. CASE _homing_axis_clear_init \/ _homing_finalize_exit
    <3>1. at = "cycle" /\ at' = "planner" /\ Homes /\ Untouched
      BY <2>2 DEF _homing_axis_clear_init, _homing_finalize_exit, Step, Homes
    <3>2. Homes' => UNCHANGED <<hold, machine>>
      BY <2>2 DEF _homing_axis_clear_init, _homing_finalize_exit, HomingFinalizeExit, Homes
    <3>3. UNCHANGED <<op, holdType, inOperation, pos, input>>
      BY <3>1 DEF Untouched
    <3>4. QED BY <1>2, <3>1, <3>2, <3>3
  <2>3. QED BY <1>2, <2>1, <2>2 DEF Cycle
<1>3. QED BY <1>1, <1>2

\* A cycle starts at rest.
LEMMA InStart ==
  ASSUME MachineTypes, Operations, RestOfPass, ~ Homes, Homes'
  PROVE  /\ op = <<>> /\ hold = "OFF" /\ ~ inOperation /\ queue = <<>> /\ machine # "ALARM"
         /\ UNCHANGED <<op, hold, holdType, inOperation, pos, registered>>
         /\ machine' = "CYCLE" /\ func' = "start" /\ axis' = FALSE /\ waiting' = FALSE
         /\ zero' = {} /\ met' = {} /\ mishaps' = {}
         /\ \/ UNCHANGED <<queue, model>>
            \/ \E to \in Jobs : queue' = <<Block("move", to)>> /\ model' = to
<1>1. hold = "OFF" /\ queue = <<>> /\ machine # "ALARM" /\ \E set \in BOOLEAN : HomingCycleStart(set)
  BY DEF RestOfPass, Homes
<1>2. op = <<>> /\ ~ inOperation
  BY <1>1 DEF RestOfPass, Operations
<1>3. PICK set \in BOOLEAN : HomingCycleStart(set)
  BY <1>1
<1>4. UNCHANGED <<holding, inOperation, pos, registered>>
  <2>1. ~ (cycle = "HOMING" => waiting) \/ UNCHANGED cycle \/ UNCHANGED <<pos, registered>>
    BY DEF RestOfPass
  <2>2. QED BY <2>1 DEF RestOfPass, Homes
<1>5. \/ UNCHANGED <<queue, model>>
      \/ \E to \in Jobs : queue' = <<Block("move", to)>> /\ model' = to
  BY <1>3 DEF HomingCycleStart
<1>6. /\ machine' = "CYCLE" /\ func' = "start" /\ axis' = FALSE /\ waiting' = FALSE
      /\ zero' = {} /\ met' = {} /\ mishaps' = {}
  BY <1>3 DEF HomingCycleStart
<1>7. QED BY <1>1, <1>2, <1>4, <1>5, <1>6 DEF holding

\* A cycle starts in the rest of a pass.
LEMMA CycleStarts ==
  ASSUME MachineTypes, Operations, [Next]_vars, ~ Homes, Homes' PROVE RestOfPass
<1>1. ~ RunAction
  BY OutOfCycle DEF Homes
<1>2. ~ Motion
  BY NoCycleEnd DEF Motion, MoveOrCommand, Move, Stop, RunCommand, Homes
<1>3. ~ (Edge \/ LimitSwitch)
  BY EdgeIs, LimitIs DEF Homes
<1>4. Cycle
  BY <1>1, <1>2, <1>3 DEF Next, MainLoop, BeforeCycle, Outside, LockoutEnds,
     mp_planner_callback, StartOperation, ResetOperation, _run_alarm, vars, Homes
<1>5. QED BY <1>4, InCycle

LEMMA PhasesStay ==
  ASSUME MachineTypes, Operations, Phases, [Next]_vars PROVE Phases'
<1>1. ASSUME Homes, Homes', UNCHANGED <<machine, op, hold, holdType>>,
             at' = at \/ (at \notin {"run", "cycle"} /\ at' # "cycle")
               \/ (at' # "cycle" /\ op \notin {OnlyReset, OnlyAlarm})
               \/ op \in {<<>>, SkipReset}
      PROVE  Phases'
  BY <1>1, ListsDiffer DEF Phases, Skipping
<1>2. CASE ~ Homes'
  BY <1>2 DEF Phases
<1>3. CASE mp_planner_callback /\ Homes
  <2>1. hold' = Noted /\ at = "planner" /\ at' = "operation"
        /\ UNCHANGED <<machine, op, holdType>>
    BY <1>3 DEF mp_planner_callback
  <2>2. hold' = hold \/ (hold \in Braking /\ hold' = "STOPPED")
    BY <2>1 DEF Noted
  <2>3. QED BY <1>3, <2>1, <2>2 DEF Phases, Skipping, Halts, Braking
<1>4. CASE StartOperation /\ Homes /\ Homes'
  <2>1. UNCHANGED <<machine, op, hold, holdType>>
    BY <1>4, OperationStarts
  <2>2. at = "operation" /\ (at' = "run" \/ op = <<>>)
    BY <1>4, <2>1 DEF StartOperation
  <2>3. QED BY <1>1, <1>4, <2>1, <2>2
<1>5. CASE RunAction /\ Homes
  <2>1. Quiet /\ (SkipWaits \/ SkipEnds \/ HoldWaits \/ HoldBegins \/ Resets)
    BY <1>5, InOperation
  <2>2. machine' = "CYCLE" /\ holdType' = holdType
    BY <1>5, <2>1 DEF Quiet, Phases
  <2>3. CASE SkipWaits \/ HoldWaits
    BY <1>1, <1>5, <2>1, <2>3, ListsDiffer DEF Quiet, SkipWaits, HoldWaits, Homes
  <2>4. CASE SkipEnds
    BY <2>2, <2>4 DEF SkipEnds, Phases
  <2>5. CASE HoldBegins
    BY <2>2, <2>5 DEF HoldBegins, Phases
  <2>6. CASE Resets
    <3>1. hold = "OFF" \/ Skipping
      BY <1>5, <2>6, ListsDiffer DEF Resets, Phases
    <3>2. hold' = "OFF" \/ Skipping'
      BY <2>2, <2>6, <3>1 DEF Resets, Skipping
    <3>3. QED BY <2>2, <2>6, <3>2 DEF Resets, Phases
  <2>7. QED BY <2>1, <2>3, <2>4, <2>5, <2>6
<1>6. CASE _run_alarm /\ Homes /\ Homes'
  <2>1. at = "run" /\ op # <<>> /\ Head(op) = "alarm"
    BY <1>6, RunActs, AfterAction
  <2>2. op = OnlyAlarm
    BY <1>6, <2>1, Lists DEF Phases
  <2>3. hold = "HOLD"
    BY <1>6, <2>2, ListsDiffer DEF Phases
  <2>4. cycle' = "NONE"
    BY <1>6, <2>3 DEF _run_alarm, Homes
  <2>5. QED BY <1>6, <2>4 DEF Homes
<1>7. CASE ResetOperation /\ Homes
  <2>1. op = <<>> /\ op' = <<>> /\ UNCHANGED <<machine, hold, holdType>>
    BY <1>7 DEF ResetOperation, Operations
  <2>2. hold = "OFF" \/ Skipping
    BY <1>7, <2>1, ListsDiffer DEF Phases
  <2>3. hold' = "OFF" \/ Skipping'
    BY <2>1, <2>2 DEF Skipping
  <2>4. QED BY <1>7, <2>1, <2>3 DEF Phases
<1>8. CASE Cycle /\ Homes /\ Homes'
  <2>1. at = "cycle" /\ at' = "planner" /\ UNCHANGED <<machine, op, hold, holdType>>
    BY <1>8, InCycle
  <2>2. op \notin {OnlyReset, OnlyAlarm}
    <3>1. op = OnlyReset \/ op = OnlyAlarm => at = "run"
      BY <1>8, ListsDiffer DEF Phases
    <3>2. QED BY <2>1, <3>1
  <2>3. QED BY <1>1, <1>8, <2>1, <2>2
<1>9. CASE ~ Homes /\ Homes'
  <2>1. op' = <<>> /\ hold' = "OFF" /\ machine' = "CYCLE"
    BY <1>9, CycleStarts, InStart
  <2>2. QED BY <2>1 DEF Phases
<1>10. CASE Motion /\ Homes
  <2>1. UNCHANGED <<machine, op, holdType, at>>
    BY <1>10, NoCycleEnd DEF Motion, MoveOrCommand, Move, Stop, RunCommand, holding
  <2>2. hold' = hold \/ (hold = "SYNC" /\ hold' = "DECEL") \/ (hold \in Braking /\ hold' = "STOPPED")
    BY <1>10 DEF Motion, MoveOrCommand, Move, Stop, RunCommand, holding
  <2>3. QED BY <1>10, <2>1, <2>2 DEF Phases, Skipping, Halts, Braking
<1>11. CASE Edge /\ Homes
  <2>1. UNCHANGED <<at, machine, inOperation>>
    BY <1>11, EdgeIs
  <2>2. CASE UNCHANGED holding
    <3>1. UNCHANGED <<machine, op, hold, holdType>> /\ at' = at /\ Homes'
      BY <1>11, <2>1, <2>2, EdgeIs DEF holding, Homes
    <3>2. QED BY <1>1, <1>11, <3>1
  <2>3. CASE ~ UNCHANGED holding
    <3>1. Requested("SKIP", SkipReset) /\ machine = "CYCLE"
      BY <1>11, <2>3, EdgeIs DEF Phases
    <3>2. hold = "OFF" /\ Skipping' /\ (inOperation => op' = op)
          /\ (~ inOperation /\ op = <<>> => op' = SkipReset)
      BY <2>3, <3>1 DEF Requested, Skipping, Halts
    <3>3. CASE inOperation
      <4>1. op' = op /\ (op = <<>> \/ (op = OnlyReset /\ at = "run"))
        BY <1>11, <3>2, <3>3 DEF Phases, Skipping, Halts
      <4>2. QED BY <2>1, <3>1, <3>2, <4>1 DEF Phases
    <3>4. CASE ~ inOperation
      <4>1. op = <<>>
        BY <1>11, <3>2, <3>4 DEF Phases, Skipping, Halts, Operations
      <4>2. QED BY <2>1, <3>1, <3>2, <3>4, <4>1 DEF Phases
    <3>5. inOperation \in BOOLEAN
      BY DEF MachineTypes
    <3>6. QED BY <3>3, <3>4, <3>5
  <2>4. QED BY <2>2, <2>3
<1>12. CASE LimitSwitch /\ Homes
  <2>1. at = "planner" /\ UNCHANGED <<at, machine, inOperation>> /\ Requested("HOLD", HoldAlarm)
    BY <1>12, LimitIs
  <2>2. CASE UNCHANGED holding
    <3>1. UNCHANGED <<machine, op, hold, holdType>> /\ at' = at /\ Homes'
      BY <1>12, <2>1, <2>2, LimitIs DEF holding, Homes
    <3>2. QED BY <1>1, <1>12, <3>1
  <2>3. CASE ~ UNCHANGED holding
    <3>1. machine = "CYCLE"
      BY <1>12 DEF Phases
    <3>2. hold = "OFF" /\ hold' = "SYNC" /\ holdType' = "HOLD"
          /\ (~ inOperation /\ op = <<>> => op' = HoldAlarm)
      BY <2>1, <2>3, <3>1 DEF Requested
    <3>3. op = <<>>
      BY <1>12, <2>1, <3>2 DEF Phases, Skipping, Halts
    <3>4. ~ inOperation
      BY <2>1, <3>3 DEF Operations
    <3>5. QED BY <2>1, <3>1, <3>2, <3>3, <3>4 DEF Phases, Halts
  <2>4. QED BY <2>2, <2>3
<1>13. CASE (LockoutEnds \/ UNCHANGED vars) /\ Homes
  BY <1>1, <1>13 DEF LockoutEnds, vars, holding, Homes
<1>14. CASE Homes /\ Homes'
  BY <1>3, <1>4, <1>5, <1>6, <1>7, <1>8, <1>10, <1>11, <1>12, <1>13, <1>14
     DEF Next, MainLoop, BeforeCycle, Outside
<1>15. QED BY <1>2, <1>9, <1>14
---------------------------------------------------------------------------
(* The steps of the cycle, and motion, by what they do to the queue *)

\* A step that finds the move before over, and is not told of it by a hold
NextStep == /\ at = "cycle" /\ ~ waiting
            /\ queue = <<>> \/ (Job(queue) /\ (Before \/ func = "search"))
            /\ op # OnlyReset /\ ~ Alarming
            /\ UNCHANGED <<op, hold, pos, surface, level, bouncing, met>>
            /\ mishaps \subseteq mishaps' /\ (hold # "OFF" => mishaps' # {})
AxisStarts == /\ func = "start" /\ ~ axis /\ func' = "clear init"
              /\ axis' = TRUE /\ registered' = TRUE
              /\ UNCHANGED <<queue, waiting, model, zero>>
AxisEnds == /\ func = "start" /\ axis /\ func' = "finalize"
            /\ UNCHANGED <<queue, waiting, model, axis, registered, zero>>
NoClearing == /\ func = "clear init" /\ func' = "search"
              /\ UNCHANGED <<queue, waiting, model, axis, registered, zero>>
AxisMove(from, d, to) == /\ func = from /\ func' = to /\ HomingAxisMove(d)
                         /\ UNCHANGED <<axis, registered, zero>>
PositionSet == /\ func = "set position" /\ func' = "start" /\ zero' = {pos} /\ model' = pos
               /\ registered' = FALSE /\ UNCHANGED <<queue, waiting, axis>>
PositionMove == /\ func = "set position" /\ func' = "start" /\ HomingAxisMove(snapshot)
                /\ registered' = FALSE /\ UNCHANGED <<axis, zero>>
StepKinds == \/ AxisStarts \/ AxisEnds \/ NoClearing
             \/ AxisMove("clear init", 0 - Backoff, "search")
             \/ AxisMove("search", Travel, "clear")
             \/ AxisMove("clear", 0 - Backoff, "latch")
             \/ AxisMove("latch", Backoff, "setpoint backoff")
             \/ AxisMove("setpoint backoff", 0 - ZeroBackoff, "set position")
             \/ PositionSet \/ PositionMove

\* In a cycle the loop finds no operation that is over, and no alarm.
LEMMA NoOperation ==
  ASSUME MachineTypes, Operations, Phases, Homes, at = "cycle"
  PROVE  op # OnlyReset /\ ~ Alarming /\ (hold = "OFF" => op = <<>>)
<1>1. op # OnlyReset /\ op # OnlyAlarm
  BY ListsDiffer DEF Phases
<1>2. op # HoldAlarm
  BY ListsDiffer DEF Phases
<1>3. QED BY <1>1, <1>2 DEF Alarming, Operations

LEMMA StepIs ==
  ASSUME MachineTypes, MotionTypes, Operations, Phases, Shapes, Homes, Homes', Cycle
  PROVE  RestOfPass \/ (NextStep /\ StepKinds)
<1>1. at = "cycle"
  BY InCycle
<1>2. op # OnlyReset /\ ~ Alarming
  BY <1>1, NoOperation
<1>3. ~ Done(queue) /\ ~ MoveDone(queue) /\ ~ JobMoveDone(queue) /\ ~ waiting
        => queue = <<>> \/ (Job(queue) /\ (Before \/ func = "search"))
  BY DEF Shapes
<1>4. ASSUME ~ waiting, Untouched, hold' = hold PROVE NextStep
  <2>1. queue = <<>> \/ (Job(queue) /\ (Before \/ func = "search"))
    BY <1>4 DEF Shapes
  <2>2. mishaps \subseteq mishaps' /\ (hold # "OFF" => mishaps' # {})
    BY <1>4 DEF Untouched
  <2>3. UNCHANGED <<op, pos, surface, level, bouncing, met>>
    BY <1>4 DEF Untouched, input
  <2>4. QED BY <1>1, <1>2, <1>4, <2>1, <2>2, <2>3 DEF NextStep
<1>5. CASE _homing_axis_start
  <2>1. NextStep
    BY <1>4, <1>5 DEF _homing_axis_start, Step
  <2>2. CASE axis
    BY <1>5, <2>1, <2>2 DEF _homing_axis_start, Step, StepKinds, AxisEnds
  <2>3. CASE ~ axis
    BY <1>5, <2>1, <2>3 DEF _homing_axis_start, Step, StepKinds, AxisStarts
  <2>4. QED BY <2>2, <2>3
<1>6. CASE _homing_axis_clear_init
  <2>1. ~ HomingFinalizeExit(queue)
    BY DEF HomingFinalizeExit, Homes
  <2>2. /\ Step("clear init") /\ Untouched
        /\ IF level THEN HomingAxisMove(0 - Backoff) ELSE UNCHANGED <<queue, waiting, model>>
        /\ func' = "search" /\ UNCHANGED <<cycle, machine, hold, registered, modes, axis, zero>>
    BY <1>6, <2>1 DEF _homing_axis_clear_init
  <2>3. NextStep
    BY <1>4, <2>2 DEF Step
  <2>4. CASE level
    BY <2>2, <2>3, <2>4 DEF Step, StepKinds, AxisMove
  <2>5. CASE ~ level
    BY <2>2, <2>3, <2>5 DEF Step, StepKinds, NoClearing
  <2>6. QED BY <2>4, <2>5
<1>7. CASE _homing_axis_moves
  <2>1. NextStep
    BY <1>4, <1>7, MovesAre
  <2>2. StepKinds
    BY <1>7, MovesAre DEF StepKinds, AxisMove
  <2>3. QED BY <2>1, <2>2
<1>8. CASE _homing_axis_set_position
  <2>1. NextStep
    BY <1>4, <1>8 DEF _homing_axis_set_position, Step
  <2>2. CASE set_coordinates
    BY <1>8, <2>1, <2>2 DEF _homing_axis_set_position, Step, StepKinds, PositionSet
  <2>3. CASE ~ set_coordinates
    BY <1>8, <2>1, <2>3 DEF _homing_axis_set_position, Step, StepKinds, PositionMove
  <2>4. QED BY <2>2, <2>3
<1>9. ~ _homing_finalize_exit
  BY DEF _homing_finalize_exit, HomingFinalizeExit, Homes
<1>10. QED BY <1>5, <1>6, <1>7, <1>8, <1>9 DEF Cycle

LEMMA MoveFuncs ==
  \A from, d, to : AxisMove(from, d, to) => func = from /\ func' = to /\ axis' = axis
BY DEF AxisMove

LEMMA Distances == /\ Travel \in Int /\ Travel > 0
                   /\ Backoff \in Int /\ Backoff > 0 /\ 0 - Backoff \in Int /\ 0 - Backoff # 0
                   /\ ZeroBackoff \in Int /\ 0 - ZeroBackoff \in Int
BY HomingAssumption DEF HomingAssumption

\* A move is queued behind nothing, and behind the job's move.
LEMMA MoveQueued ==
  ASSUME MotionTypes, HomingTypes, NEW from, NEW d \in Int, NEW to, AxisMove(from, d, to)
  PROVE  /\ queue' \in Seq(Blocks) /\ waiting' = TRUE /\ model' = model + d
         /\ queue = <<>> /\ d = 0 => Done(queue') /\ queue'[1].held = FALSE
         /\ queue = <<>> /\ d # 0 => MoveDone(queue') /\ queue'[1].to = model'
         /\ Job(queue) /\ d # 0 => /\ JobMoveDone(queue') /\ LastTo(queue') = model'
                                   /\ queue'[1] = queue[1]
<1>1. model' = model + d /\ model' \in Int /\ HomingAxisMove(d)
  BY DEF AxisMove, HomingAxisMove, MotionTypes
<1>2. queue \in Seq(Blocks)
  BY DEF MotionTypes
<1>3. QED BY <1>1, <1>2, AxisMoves

\* The first block has run, or is dropped.
Eaten == queue # <<>> /\ (queue' = Tail(queue) \/ queue' = Tail(Held(TRUE)))
LEMMA EatenShape ==
  ASSUME queue \in Seq(Blocks), Eaten
  PROVE  /\ queue' \in Seq(Blocks)
         /\ Done(queue) \/ Job(queue) => queue' = <<>>
         /\ MoveDone(queue) => Done(queue') /\ (queue' = Tail(Held(TRUE)) => queue'[1].held)
         /\ JobMoveDone(queue) => MoveDone(queue') /\ LastTo(queue') = LastTo(queue)
<1>1. CASE queue' = Tail(queue) /\ queue' # Tail(Held(TRUE))
  BY <1>1, TailShape DEF Eaten
<1>2. CASE queue' = Tail(Held(TRUE))
  <2> DEFINE t == TRUE
  <2> DEFINE h == Held(t)
  <2>1. t \in BOOLEAN
    OBVIOUS
  <2>2. SameBlocks(queue, h) /\ \A k \in 1 .. Len(queue) : h[k].held = t
    <3> HIDE DEF t
    <3>1. QED BY <2>1, HeldFacts
  <2>3. queue' = Tail(h)
    BY <1>2
  <2> HIDE DEF h
  <2>4. /\ h \in Seq(Blocks) /\ h # <<>>
        /\ (Done(h) <=> Done(queue)) /\ (MoveDone(h) <=> MoveDone(queue))
        /\ (Job(h) <=> Job(queue)) /\ (JobMoveDone(h) <=> JobMoveDone(queue))
        /\ (JobMoveDone(queue) => LastTo(h) = LastTo(queue))
    BY <2>2, SameShape DEF Eaten
  <2>5. /\ Tail(h) \in Seq(Blocks)
        /\ Done(h) \/ Job(h) => Tail(h) = <<>>
        /\ MoveDone(h) => Done(Tail(h)) /\ Tail(h)[1] = h[2]
        /\ JobMoveDone(h) => MoveDone(Tail(h)) /\ LastTo(Tail(h)) = LastTo(h)
    BY <2>4, TailShape
  <2>6. MoveDone(queue) => h[2].held
    <3>1. MoveDone(queue) => 2 \in 1 .. Len(queue)
      BY DEF MoveDone
    <3>2. QED BY <2>2, <3>1
  <2>7. QED BY <2>3, <2>4, <2>5, <2>6
<1>3. QED BY <1>1, <1>2 DEF Eaten

LEMMA MotionIs ==
  ASSUME MachineTypes, Motion
  PROVE  /\ UNCHANGED <<at, model, cycle, machine, holdType, op, inOperation, surface, level,
                        snapshot, func, axis, registered, zero, met, mishaps>>
         /\ Move \/ Stop \/ RunCommand
<1>1. UNCHANGED <<func, axis, registered, zero, met, mishaps>>
  BY DEF Motion, hm, history
<1>2. UNCHANGED <<cycle, machine>>
  BY NoCycleEnd DEF Motion, MoveOrCommand, Move, Stop, RunCommand
<1>3. QED BY <1>1, <1>2 DEF Motion, MoveOrCommand, Move, Stop, RunCommand, holding, input

\* What motion does to the queue, which has a move at the head or a command
LEMMA MotionEats ==
  ASSUME MachineTypes, MotionTypes, Motion
  PROVE  /\ Move => /\ HasMove /\ waiting' = waiting
                    /\ \/ queue' = queue /\ Head(queue).to # pos'
                       \/ Eaten /\ Head(queue).to = pos'
         /\ Stop => /\ HasMove /\ waiting' = waiting
                    /\ IF holdType = "SKIP" THEN Eaten /\ queue' = Tail(Held(TRUE))
                                            ELSE queue' = queue
         /\ RunCommand => /\ Eaten /\ ~ HasMove /\ ~ Head(queue).held
                          /\ waiting' = (waiting /\ Head(queue).kind # "done")
<1>1. Move => /\ HasMove /\ waiting' = waiting
              /\ \/ queue' = queue /\ Head(queue).to # pos'
                 \/ Eaten /\ Head(queue).to = pos'
  BY DEF Move, Eaten, HasMove
<1>2. Stop => /\ HasMove /\ waiting' = waiting
              /\ IF holdType = "SKIP" THEN Eaten /\ queue' = Tail(Held(TRUE)) ELSE queue' = queue
  BY DEF Stop, Eaten, HasMove
<1>3. RunCommand => /\ Eaten /\ ~ HasMove /\ ~ Head(queue).held
                    /\ waiting' = (waiting /\ Head(queue).kind # "done")
  BY DEF RunCommand, Eaten
<1>4. QED BY <1>1, <1>2, <1>3

\* The head of the queue, of each shape
LEMMA HeadsAre ==
  ASSUME MotionTypes
  PROVE  /\ HasMove <=> queue # <<>> /\ queue[1].kind = "move"
         /\ queue # <<>> => Head(queue) = queue[1]
         /\ MoveDone(queue) \/ Job(queue) \/ JobMoveDone(queue) => HasMove
         /\ Done(queue) \/ queue = <<>> => ~ HasMove
         /\ Done(queue) => queue # <<>>
         /\ MoveDone(queue) \/ Job(queue) => LastTo(queue) = queue[1].to
<1>1. queue \in Seq(Blocks)
  BY DEF MotionTypes
<1>2. "done" # "move"
  OBVIOUS
<1>3. QED BY <1>1, <1>2, Heads DEF HasMove

---------------------------------------------------------------------------
(* The queue in a cycle *)

\* What the pieces of the main loop before the cycle leave alone
LEMMA BeforeCycleIs ==
  ASSUME MachineTypes, Operations, MotionTypes, BeforeCycle, UNCHANGED <<hm, history>>
  PROVE  /\ UNCHANGED <<cycle, machine, pos, waiting, snapshot, input>>
         /\ SameBlocks(queue, queue')
         /\ UNCHANGED <<func, axis, registered, zero, met, mishaps, surface, level, bouncing>>
<1>1. Released
  BY BeforeCycleReleases
<1>2. SameBlocks(queue, queue')
  BY <1>1, ReleasedKeeps DEF MotionTypes
<1>3. UNCHANGED <<pos, waiting, snapshot, input>>
  BY <1>1 DEF Released
<1>4. UNCHANGED <<cycle, machine>>
  BY RunActionIs DEF BeforeCycle, mp_planner_callback, StartOperation, ResetOperation,
     _feedhold_skip, _feedhold_no_actions, _run_reset_position
<1>5. UNCHANGED <<func, axis, registered, zero, met, mishaps, surface, level, bouncing>>
  BY <1>3 DEF hm, history, input
<1>6. QED BY <1>2, <1>3, <1>4, <1>5

LEMMA JobIsQueued ==
  ASSUME NEW to \in Int, queue' = <<Block("move", to)>>
  PROVE  queue' \in Seq(Blocks) /\ Job(queue') /\ queue'[1].to = to
<1> DEFINE b == Block("move", to)
<1>1. b \in Blocks /\ b.kind = "move" /\ b.to = to
  <2>1. b \in Blocks
    BY BlockIsBlock
  <2>2. QED BY <2>1 DEF Block
<1> HIDE DEF b
<1>2. <<b>> \in Seq(Blocks) /\ Len(<<b>>) = 1 /\ <<b>>[1] = b
  BY <1>1, Singles
<1>3. queue' = <<b>>
  BY DEF b
<1>4. QED BY <1>1, <1>2, <1>3 DEF Job

\* Two queues of the same blocks have the same shape.
LEMMA ShapesKept ==
  ASSUME MotionTypes, Shapes, Homes, SameBlocks(queue, queue'), UNCHANGED <<waiting, func, axis>>
  PROVE  Shapes'
<1>1. /\ queue' = <<>> <=> queue = <<>>
      /\ Done(queue') <=> Done(queue)
      /\ MoveDone(queue') <=> MoveDone(queue)
      /\ Job(queue') <=> Job(queue)
      /\ JobMoveDone(queue') <=> JobMoveDone(queue)
  BY SameShape DEF MotionTypes
<1>2. Before' <=> Before
  BY DEF Before
<1>3. QED BY <1>1, <1>2 DEF Shapes

LEMMA ShapesStay ==
  ASSUME MachineTypes, MotionTypes, HomingTypes, Operations, Phases, Shapes, [Next]_vars
  PROVE  Shapes'
<1>1. CASE ~ Homes'
  BY <1>1 DEF Shapes
<1>2. CASE ~ Homes /\ Homes'
  <2>1. /\ queue = <<>> /\ waiting' = FALSE /\ func' = "start" /\ axis' = FALSE
        /\ \/ UNCHANGED <<queue, model>>
           \/ \E to \in Jobs : queue' = <<Block("move", to)>> /\ model' = to
    BY <1>2, CycleStarts, InStart
  <2>2. CASE queue' = queue
    BY <2>1, <2>2 DEF Shapes
  <2>3. CASE \E to \in Jobs : queue' = <<Block("move", to)>> /\ model' = to
    <3>1. PICK to \in Jobs : queue' = <<Block("move", to)>>
      BY <2>3
    <3>2. to \in Int
      BY HomingAssumption DEF HomingAssumption
    <3>3. Job(queue')
      BY <3>1, <3>2, JobIsQueued
    <3>4. QED BY <2>1, <3>3 DEF Shapes, Before
  <2>4. QED BY <2>1, <2>2, <2>3
<1>3. ASSUME Homes, Homes', UNCHANGED <<queue, waiting, func, axis>> PROVE Shapes'
  BY <1>3 DEF Shapes, Before
<1>4. CASE BeforeCycle /\ UNCHANGED <<hm, history>> /\ Homes
  BY <1>4, BeforeCycleIs, ShapesKept
<1>5. CASE _run_alarm /\ Homes /\ Homes'
  BY <1>3, <1>5 DEF _run_alarm, Homes
<1>6. CASE Cycle /\ Homes /\ Homes'
  <2>1. CASE RestOfPass
    BY <1>3, <1>6, <2>1, InCycle DEF hm, motion
  <2>2. CASE NextStep /\ StepKinds
    <3>1. ~ waiting /\ (queue = <<>> \/ (Job(queue) /\ (Before \/ func = "search")))
      BY <2>2 DEF NextStep
    <3>2. func # "start" => axis
      BY <1>6 DEF Shapes
    <3>3. CASE AxisStarts
      <4>1. Before' /\ axis' /\ ~ waiting' /\ queue' = queue
        BY <3>1, <3>3 DEF AxisStarts, Before
      <4>2. queue' = <<>> \/ Job(queue')
        BY <3>1, <4>1
      <4>3. QED BY <4>1, <4>2 DEF Shapes
    <3>4. CASE AxisEnds
      <4>1. ~ Before /\ func # "search"
        BY <3>4 DEF AxisEnds, Before
      <4>2. queue = <<>>
        BY <3>1, <4>1
      <4>3. QED BY <3>1, <3>4, <4>2 DEF AxisEnds, Shapes
    <3>5. CASE NoClearing
      <4>1. func' = "search" /\ axis' /\ ~ waiting' /\ queue' = queue
        BY <3>1, <3>2, <3>5 DEF NoClearing
      <4>2. queue' = <<>> \/ Job(queue')
        BY <3>1, <4>1
      <4>3. QED BY <4>1, <4>2 DEF Shapes
    <3>6. ASSUME NEW from, NEW d \in Int, NEW to, AxisMove(from, d, to), from # "start",
                 to # "start", to # "clear init",
                 d # 0 \/ queue = <<>>,
                 Job(queue) => to \in {"search", "clear"}
          PROVE  Shapes'
      <4>1. func = from /\ func' = to /\ axis' = axis /\ waiting' = TRUE
        BY <3>6, MoveQueued DEF AxisMove
      <4>2. ~ Before' /\ axis'
        BY <3>2, <3>6, <4>1 DEF Before
      <4>3. \/ Done(queue') \/ MoveDone(queue')
            \/ (JobMoveDone(queue') /\ to \in {"search", "clear"})
        BY <3>1, <3>6, MoveQueued
      <4>4. QED BY <4>1, <4>2, <4>3 DEF Shapes
    <3>8. CASE AxisMove("clear init", 0 - Backoff, "search")
      BY <3>6, <3>8, Distances
    <3>9. CASE AxisMove("search", Travel, "clear")
      <4>1. Travel # 0
        BY Distances
      <4>2. QED BY <3>6, <3>9, <4>1, Distances
    <3>10. func \in {"clear", "latch", "setpoint backoff", "set position"} => queue = <<>>
      BY <3>1 DEF Before
    <3>11. ~ Job(<<>>)
      BY DEF Job
    <3>12. CASE AxisMove("clear", 0 - Backoff, "latch")
      <4>1. queue = <<>>
        BY <3>10, <3>12 DEF AxisMove
      <4>2. QED BY <3>6, <3>11, <3>12, <4>1, Distances
    <3>13. CASE AxisMove("latch", Backoff, "setpoint backoff")
      <4>1. queue = <<>>
        BY <3>10, <3>13 DEF AxisMove
      <4>2. QED BY <3>6, <3>11, <3>13, <4>1, Distances
    <3>14. CASE AxisMove("setpoint backoff", 0 - ZeroBackoff, "set position")
      <4>1. queue = <<>>
        BY <3>10, <3>14 DEF AxisMove
      <4>2. QED BY <3>6, <3>11, <3>14, <4>1, Distances
    <3>15. CASE PositionSet
      <4>1. queue = <<>>
        BY <3>10, <3>15 DEF PositionSet
      <4>2. QED BY <3>1, <3>15, <4>1 DEF PositionSet, Shapes
    <3>16. CASE PositionMove
      <4>1. queue = <<>> /\ axis /\ func' = "start" /\ axis' = axis
        BY <3>2, <3>10, <3>16 DEF PositionMove
      <4>2. snapshot \in Int /\ model \in Int /\ queue \in Seq(Blocks)
        BY DEF MotionTypes
      <4>6. HomingAxisMove(snapshot)
        BY <3>16 DEF PositionMove
      <4>7. model' \in Int
        BY <4>2, <4>6 DEF HomingAxisMove
      <4>3. waiting' = TRUE /\ (Done(queue') \/ MoveDone(queue'))
        BY <4>1, <4>2, <4>6, <4>7, AxisMoves
      <4>4. ~ Before'
        BY <4>1 DEF Before
      <4>5. QED BY <4>1, <4>3, <4>4 DEF Shapes
    <3>17. QED BY <2>2, <3>3, <3>4, <3>5, <3>8, <3>9, <3>12, <3>13, <3>14, <3>15, <3>16
              DEF StepKinds
  <2>3. QED BY <1>6, <2>1, <2>2, StepIs
<1>7. CASE Motion /\ Homes
  <2>1. UNCHANGED <<func, axis>> /\ (Before' <=> Before) /\ (Move \/ Stop \/ RunCommand)
    BY <1>7, MotionIs DEF Before
  <2>2. CASE queue' = queue /\ waiting' = waiting
    BY <1>3, <1>7, <2>1, <2>2, MotionIs DEF Homes
  <2>3. CASE Eaten /\ HasMove /\ waiting' = waiting
    <3>1. queue \in Seq(Blocks)
      BY DEF MotionTypes
    <3>2. queue # <<>> /\ ~ Done(queue)
      BY <2>3, HeadsAre
    <3>3. CASE Job(queue)
      <4>1. queue' = <<>> /\ ~ waiting'
        BY <1>7, <2>3, <3>1, <3>3, EatenShape, Heads DEF Shapes
      <4>2. QED BY <1>7, <2>1, <4>1 DEF Shapes
    <3>4. CASE MoveDone(queue)
      <4>1. Done(queue') /\ waiting' /\ ~ Before
        BY <1>7, <2>3, <3>1, <3>4, EatenShape, Heads DEF Shapes
      <4>2. QED BY <1>7, <2>1, <4>1 DEF Shapes
    <3>5. CASE JobMoveDone(queue)
      <4>1. MoveDone(queue') /\ waiting' /\ ~ Before
        BY <1>7, <2>3, <3>1, <3>5, EatenShape, Heads DEF Shapes, Before
      <4>2. QED BY <1>7, <2>1, <4>1 DEF Shapes
    <3>6. QED BY <1>7, <3>2, <3>3, <3>4, <3>5 DEF Shapes
  <2>4. CASE RunCommand
    <3>1. Eaten /\ ~ HasMove /\ waiting' = (waiting /\ Head(queue).kind # "done")
      BY <1>7, <2>4, MotionEats
    <3>2. Done(queue)
      BY <1>7, <3>1, HeadsAre DEF Shapes, Eaten
    <3>3. queue' = <<>>
      BY <3>1, <3>2, EatenShape DEF MotionTypes
    <3>4. waiting' = FALSE
      BY <3>1, <3>2, Heads DEF MotionTypes
    <3>5. QED BY <1>7, <2>1, <3>3, <3>4 DEF Shapes
  <2>5. QED BY <1>7, <2>1, <2>2, <2>3, <2>4, MotionEats
<1>8. CASE Edge /\ Homes
  BY <1>3, <1>8, EdgeIs DEF Homes, hm
<1>9. CASE (Outside \/ UNCHANGED vars) /\ Homes
  BY <1>3, <1>9 DEF Outside, LimitSwitch, LockoutEnds, vars, motion, hm, Homes
<1>10. QED BY <1>1, <1>2, <1>4, <1>5, <1>6, <1>7, <1>8, <1>9 DEF Next, MainLoop

---------------------------------------------------------------------------
(* The job's move at the head of the queue *)

\* A request in a cycle
LEMMA HoldComes ==
  ASSUME MachineTypes, Operations, Phases, Homes, NEW type, NEW list, Requested(type, list)
  PROVE  \/ hold # "OFF" /\ UNCHANGED holding
         \/ /\ hold = "OFF" /\ hold' = "SYNC" /\ ~ Alarming
            /\ ResetComes => ResetComes'
            /\ \/ op = <<>> /\ ~ inOperation /\ op' = list
               \/ inOperation /\ op' = op /\ op \in {<<>>, OnlyReset}
<1>1. machine = "CYCLE"
  BY DEF Phases
<1>2. CASE hold # "OFF"
  BY <1>1, <1>2 DEF Requested
<1>3. CASE hold = "OFF"
  <2>1. op = <<>> \/ (op = OnlyReset /\ at = "run")
    BY <1>3 DEF Phases, Skipping, Halts
  <2>2. ~ Alarming
    BY <2>1, ListsDiffer DEF Alarming
  <2>3. op = OnlyReset => inOperation
    BY <2>1, ListsDiffer DEF Operations
  <2>4. /\ hold' = "SYNC" /\ (ResetComes => ResetComes')
        /\ inOperation => op' = op
        /\ ~ inOperation /\ op = <<>> => op' = list
    BY <1>1, <1>3 DEF Requested
  <2>5. \/ op = <<>> /\ ~ inOperation /\ op' = list
        \/ inOperation /\ op' = op /\ op \in {<<>>, OnlyReset}
    BY <2>1, <2>3, <2>4
  <2>6. QED BY <1>3, <2>2, <2>4, <2>5
<1>4. QED BY <1>2, <1>3

\* A SKIP hold that brakes has the list of a SKIP hold.
LEMMA BrakesFor ==
  ASSUME Phases, Homes, hold \in Braking
  PROVE  /\ holdType = "SKIP" => op \in {<<>>, SkipReset, OnlyReset}
         /\ holdType # "SKIP" => op = HoldAlarm /\ Alarming
         /\ op = SkipReset => holdType = "SKIP"
<1>1. hold # "OFF" /\ hold # "HOLD"
  BY DEF Braking
<1>2. \/ op \in {<<>>, SkipReset, OnlyReset} /\ holdType = "SKIP"
      \/ op = HoldAlarm /\ holdType = "HOLD"
  BY <1>1 DEF Phases, Skipping
<1>3. op = HoldAlarm => Alarming /\ op # SkipReset
  BY ListsDiffer DEF Alarming
<1>4. QED BY <1>2, <1>3

LEMMA JobMoveKept ==
  ASSUME MotionTypes, SameBlocks(queue, queue') PROVE JobMove' <=> JobMove
BY SameShape DEF MotionTypes, JobMove

\* Once the job's move is at its end or dropped it is gone.
LEMMA JobMoveEaten ==
  ASSUME MotionTypes, Shapes, Homes, Eaten PROVE ~ JobMove'
<1>1. queue \in Seq(Blocks) /\ queue # <<>>
  BY DEF MotionTypes, Eaten
<1>2. queue' = <<>> \/ Done(queue') \/ MoveDone(queue')
  BY <1>1, EatenShape DEF Shapes
<1>3. queue' \in Seq(Blocks)
  BY <1>1, EatenShape
<1>4. QED BY <1>2, <1>3, Heads DEF JobMove

\* A step of the cycle queues no job's move.
LEMMA JobMoveSteps ==
  ASSUME MotionTypes, HomingTypes, NextStep, StepKinds, JobMove' PROVE JobMove
<1>1. queue = <<>> \/ Job(queue)
  BY DEF NextStep
<1>2. ASSUME queue = <<>> PROVE ~ JobMove'
  <2>1. ASSUME NEW from, NEW d \in Int, NEW to, AxisMove(from, d, to) PROVE ~ JobMove'
    <3>1. queue' \in Seq(Blocks) /\ (Done(queue') \/ MoveDone(queue'))
      BY <1>2, <2>1, MoveQueued
    <3>2. QED BY <3>1, Heads DEF JobMove
  <2>2. ASSUME PositionMove PROVE ~ JobMove'
    <3>1. snapshot \in Int /\ model \in Int /\ queue \in Seq(Blocks) /\ HomingAxisMove(snapshot)
      BY <2>2 DEF PositionMove, MotionTypes
    <3>2. model' \in Int
      BY <3>1 DEF HomingAxisMove
    <3>3. queue' \in Seq(Blocks) /\ (Done(queue') \/ MoveDone(queue'))
      BY <1>2, <3>1, <3>2, AxisMoves
    <3>4. QED BY <3>3, Heads DEF JobMove
  <2>3. ASSUME queue' = queue PROVE ~ JobMove'
    BY <1>2, <2>3 DEF JobMove, Job, JobMoveDone
  <2>4. QED BY <2>1, <2>2, <2>3, Distances
           DEF StepKinds, AxisStarts, AxisEnds, NoClearing, PositionSet
<1>3. QED BY <1>1, <1>2 DEF JobMove

LEMMA JobFirstStay ==
  ASSUME MachineTypes, MotionTypes, HomingTypes, Operations, Phases, Shapes, JobFirst, [Next]_vars
  PROVE  JobFirst'
<1>1. CASE ~ Homes'
  BY <1>1 DEF JobFirst
<1>2. CASE ~ Homes /\ Homes'
  BY <1>2, CycleStarts, InStart DEF JobFirst
<1>3. ASSUME Homes, JobMove' => JobMove, UNCHANGED <<op, hold, inOperation>>,
             mishaps \subseteq mishaps'
      PROVE  JobFirst'
  BY <1>3 DEF JobFirst, Alarming
<1>4. CASE BeforeCycle /\ UNCHANGED <<hm, history>> /\ Homes
  <2>1. (JobMove' <=> JobMove) /\ mishaps' = mishaps
    BY <1>4, BeforeCycleIs, JobMoveKept
  <2>2. JobMove => queue # <<>>
    BY HeadsAre DEF JobMove, HasMove
  <2>3. CASE mp_planner_callback
    <3>1. UNCHANGED <<op, inOperation>> /\ (queue # <<>> => hold' = hold)
      BY <2>3 DEF mp_planner_callback, Noted
    <3>2. CASE JobMove
      BY <1>3, <1>4, <2>1, <2>2, <3>1, <3>2
    <3>3. CASE ~ JobMove
      BY <2>1, <3>3 DEF JobFirst
    <3>4. QED BY <3>2, <3>3
  <2>4. CASE StartOperation
    <3>1. op' = op /\ hold' = hold
      BY <2>4, OperationStarts
    <3>2. op = <<>> => inOperation' = inOperation
      BY <2>4, <3>1 DEF StartOperation
    <3>3. QED BY <1>4, <2>1, <3>1, <3>2 DEF JobFirst, Alarming
  <2>5. CASE RunAction
    <3>1. Quiet /\ (SkipWaits \/ SkipEnds \/ HoldWaits \/ HoldBegins \/ Resets)
      BY <1>4, <2>5, InOperation
    <3>2. CASE SkipWaits \/ HoldWaits
      BY <1>3, <1>4, <2>1, <3>1, <3>2 DEF SkipWaits, HoldWaits, Quiet
    <3>3. CASE SkipEnds
      <4>1. op = SkipReset /\ hold \notin Braking
        BY <3>3 DEF SkipEnds, Braking
      <4>2. ~ JobMove
        BY <1>4, <4>1, ListsDiffer DEF JobFirst, Alarming
      <4>3. QED BY <2>1, <4>2 DEF JobFirst
    <3>4. CASE HoldBegins
      BY <3>4 DEF HoldBegins, JobFirst, Alarming
    <3>5. CASE Resets
      <4>1. op = OnlyReset
        BY <3>5 DEF Resets
      <4>2. ~ JobMove
        BY <1>4, <4>1, ListsDiffer DEF JobFirst, Alarming
      <4>3. QED BY <2>1, <4>2 DEF JobFirst
    <3>6. QED BY <3>1, <3>2, <3>3, <3>4, <3>5
  <2>6. CASE ResetOperation
    <3>1. op = <<>> /\ inOperation
      BY <2>6 DEF ResetOperation, Operations
    <3>2. ~ JobMove
      BY <1>4, <3>1, ListsDiffer DEF JobFirst, Alarming
    <3>3. QED BY <2>1, <3>2 DEF JobFirst
  <2>7. QED BY <1>4, <2>3, <2>4, <2>5, <2>6 DEF BeforeCycle
<1>5. CASE _run_alarm /\ Homes /\ Homes'
  <2>1. UNCHANGED <<queue, hold, inOperation, mishaps>>
    BY <1>5 DEF _run_alarm, Homes, history
  <2>2. Again("alarm")
    BY <1>5 DEF _run_alarm, Homes
  <2>3. op' = op
    BY <2>2 DEF Again
  <2>4. JobMove' => JobMove
    BY <2>1 DEF JobMove
  <2>5. QED BY <1>3, <1>5, <2>1, <2>3, <2>4
<1>6. CASE Cycle /\ Homes /\ Homes'
  <2>1. UNCHANGED <<op, hold, inOperation>>
    BY <1>6, InCycle
  <2>2. CASE RestOfPass
    <3>1. UNCHANGED <<queue, mishaps>>
      BY <1>6, <2>2, InCycle DEF motion, history
    <3>2. JobMove' => JobMove
      BY <3>1 DEF JobMove
    <3>3. QED BY <1>3, <1>6, <2>1, <3>1, <3>2
  <2>3. CASE NextStep /\ StepKinds
    <3>1. JobMove' => JobMove
      BY <2>3, JobMoveSteps
    <3>2. mishaps \subseteq mishaps'
      BY <2>3 DEF NextStep
    <3>3. QED BY <1>3, <1>6, <2>1, <3>1, <3>2
  <2>4. QED BY <1>6, <2>2, <2>3, StepIs
<1>7. CASE Motion /\ Homes
  <2>1. UNCHANGED <<op, inOperation, mishaps>>
    BY <1>7, MotionIs
  <2>2. CASE Eaten
    BY <1>7, <2>2, JobMoveEaten DEF JobFirst
  <2>3. CASE Move /\ queue' = queue
    <3>1. JobMove' <=> JobMove
      BY <2>3 DEF JobMove
    <3>2. hold' = (IF hold = "SYNC" THEN "DECEL" ELSE hold)
      BY <2>3 DEF Move
    <3>3. (hold = "OFF" => hold' = "OFF") /\ (hold \in Braking => hold' \in Braking)
      BY <3>2 DEF Braking
    <3>4. QED BY <1>7, <2>1, <3>1, <3>3 DEF JobFirst, Alarming
  <2>4. CASE Stop /\ queue' = queue /\ ~ Eaten
    <3>1. holdType # "SKIP" /\ hold \in Braking
      BY <1>7, <2>4, MotionEats DEF Stop
    <3>2. Alarming
      BY <1>7, <3>1, BrakesFor
    <3>3. QED BY <2>1, <3>2 DEF JobFirst, Alarming
  <2>5. QED BY <1>7, <2>2, <2>3, <2>4, MotionIs, MotionEats
<1>8. CASE Edge /\ Homes
  <2>1. UNCHANGED <<queue, inOperation>> /\ mishaps \subseteq mishaps'
    BY <1>8, EdgeIs
  <2>2. JobMove' <=> JobMove
    BY <2>1 DEF JobMove
  <2>3. CASE UNCHANGED holding
    BY <1>3, <1>8, <2>1, <2>2, <2>3 DEF holding
  <2>4. CASE Handled /\ JobMove
    <3>1. Requested("SKIP", SkipReset)
      BY <1>8, <2>4, EdgeIs
    <3>2. \/ hold # "OFF" /\ UNCHANGED holding
          \/ /\ hold = "OFF" /\ hold' = "SYNC" /\ ~ Alarming
             /\ \/ op = <<>> /\ ~ inOperation /\ op' = SkipReset
                \/ inOperation /\ op' = op /\ op \in {<<>>, OnlyReset}
      BY <1>8, <3>1, HoldComes
    <3>3. HasMove /\ ~ OwnMove
      <4>1. Job(queue) => ~ waiting
        BY <1>8, Heads DEF Shapes, MotionTypes
      <4>2. JobMoveDone(queue) => Len(queue) = 3
        BY DEF JobMoveDone
      <4>3. QED BY <2>4, <4>1, <4>2, HeadsAre DEF OwnMove, JobMove
    <3>4. "early" \in mishaps'
      BY <1>8, <2>4, <3>3, EdgeIs
    <3>5. CASE hold = "OFF"
      <4>1. ~ inOperation
        BY <1>8, <2>4, <3>2, <3>5 DEF JobFirst, Braking
      <4>2. op' = SkipReset /\ hold' = "SYNC"
        BY <3>2, <3>5, <4>1
      <4>3. QED BY <3>4, <4>2 DEF JobFirst, Braking
    <3>6. CASE hold # "OFF"
      <4>1. UNCHANGED holding
        BY <3>2, <3>6
      <4>2. QED BY <1>3, <1>8, <2>1, <2>2, <4>1 DEF holding
    <3>7. QED BY <3>5, <3>6
  <2>5. CASE ~ JobMove
    BY <2>2, <2>5 DEF JobFirst
  <2>6. QED BY <1>8, <2>3, <2>4, <2>5, EdgeIs
<1>9. CASE LimitSwitch /\ UNCHANGED <<hm, history>> /\ Homes
  <2>1. UNCHANGED <<queue, inOperation, mishaps>> /\ at = "planner" /\ Requested("HOLD", HoldAlarm)
    BY <1>9, LimitIs DEF history
  <2>2. JobMove' <=> JobMove
    BY <2>1 DEF JobMove
  <2>3. \/ hold # "OFF" /\ UNCHANGED holding
        \/ /\ hold = "OFF"
           /\ \/ op = <<>> /\ ~ inOperation /\ op' = HoldAlarm
              \/ inOperation /\ op' = op /\ op \in {<<>>, OnlyReset}
    BY <1>9, <2>1, HoldComes
  <2>4. CASE UNCHANGED holding
    BY <1>3, <1>9, <2>1, <2>2, <2>4 DEF holding
  <2>5. CASE op' = HoldAlarm
    BY <2>5 DEF JobFirst, Alarming
  <2>6. CASE hold = "OFF" /\ inOperation /\ op \in {<<>>, OnlyReset}
    <3>1. ~ JobMove
      BY <1>9, <2>6, ListsDiffer DEF JobFirst, Alarming
    <3>2. QED BY <2>2, <3>1 DEF JobFirst
  <2>7. QED BY <2>3, <2>4, <2>5, <2>6
<1>10. CASE ((LockoutEnds /\ UNCHANGED <<hm, history>>) \/ UNCHANGED vars) /\ Homes
  <2>1. UNCHANGED <<queue, op, hold, inOperation, mishaps>>
    BY <1>10 DEF LockoutEnds, vars, motion, holding, history
  <2>2. JobMove' => JobMove
    BY <2>1 DEF JobMove
  <2>3. QED BY <1>3, <1>10, <2>1, <2>2
<1>11. QED BY <1>1, <1>2, <1>4, <1>5, <1>6, <1>7, <1>8, <1>9, <1>10 DEF Next, MainLoop, Outside

---------------------------------------------------------------------------
(* Where the model is *)

\* The pieces of the main loop before the cycle
Plans == /\ at = "planner" /\ at' = "operation" /\ hold' = Noted
         /\ UNCHANGED <<queue, model, op>>
Opens == /\ at = "operation" /\ (op # <<>> => at' = "run")
         /\ UNCHANGED <<queue, model, op, hold>>
Closes == /\ at = "reset" /\ op = <<>> /\ UNCHANGED <<queue, model, op, hold>>

LEMMA LoopIs ==
  ASSUME MachineTypes, Operations, Phases, Homes, BeforeCycle
  PROVE  Plans \/ Opens \/ Closes \/ SkipWaits \/ SkipEnds \/ HoldWaits \/ HoldBegins \/ Resets
<1>1. CASE mp_planner_callback
  BY <1>1 DEF mp_planner_callback, Plans, motion
<1>2. CASE StartOperation
  <2>1. op' = op /\ UNCHANGED <<queue, model, hold>>
    BY <1>2, OperationStarts DEF motion
  <2>2. at = "operation" /\ (op' # <<>> => at' = "run")
    BY <1>2 DEF StartOperation
  <2>3. QED BY <2>1, <2>2 DEF Opens
<1>3. CASE RunAction
  BY <1>3, InOperation
<1>4. CASE ResetOperation
  BY <1>4 DEF ResetOperation, Operations, Closes, motion
<1>5. QED BY <1>1, <1>2, <1>3, <1>4 DEF BeforeCycle

EarlySteps == Before \/ func \in {"search", "clear"}
LEMMA EarlyStays ==
  ASSUME mishaps \subseteq mishaps', EarlySteps => EarlySteps', Early PROVE Early'
BY DEF Early, EarlySteps

\* A move that is stopped while the job's is not, is the cycle's.
LEMMA StoppedMove ==
  ASSUME MachineTypes, MotionTypes, Phases, Shapes, JobFirst, Homes, Motion, Stop,
         ~ Early, holdType = "SKIP"
  PROVE  MoveDone(queue) /\ Done(queue') /\ queue'[1].held
<1>1. hold \in Braking /\ HasMove /\ Eaten /\ queue' = Tail(Held(TRUE))
  BY MotionEats DEF Stop
<1>2. hold # "OFF" /\ ~ Alarming
  <2>1. hold # "OFF"
    BY <1>1 DEF Braking
  <2>2. op \in {<<>>, SkipReset, OnlyReset}
    BY <1>1, BrakesFor
  <2>3. QED BY <2>1, <2>2, ListsDiffer DEF Alarming
<1>3. ~ JobMove
  <2>1. JobMove => "early" \in mishaps
    BY <1>2 DEF JobFirst
  <2>2. JobMove => EarlySteps
    <3>1. Job(queue) => EarlySteps
      BY Heads DEF Shapes, MotionTypes, EarlySteps
    <3>2. JobMoveDone(queue) => EarlySteps
      BY Heads DEF Shapes, MotionTypes, EarlySteps
    <3>3. QED BY <3>1, <3>2 DEF JobMove
  <2>3. QED BY <2>1, <2>2 DEF Early, EarlySteps
<1>4. MoveDone(queue)
  BY <1>1, <1>3, HeadsAre DEF Shapes, JobMove
<1>5. QED BY <1>1, <1>4, EatenShape DEF MotionTypes

\* At the end of a move the machine is where the model is.
LEMMA MoveEnds ==
  ASSUME MachineTypes, MotionTypes, Shapes, Homes, Motion, Move, model = LastTo(queue)
  PROVE  /\ HasMove' => model' = LastTo(queue')
         /\ ~ HasMove' => model' = pos'
<1>1. model' = model /\ queue \in Seq(Blocks) /\ HasMove
  BY MotionIs, MotionEats DEF MotionTypes
<1>2. CASE queue' = queue
  BY <1>1, <1>2 DEF HasMove, LastTo
<1>3. CASE Eaten /\ Head(queue).to = pos'
  <2>1. Head(queue) = queue[1] /\ queue' \in Seq(Blocks)
    BY <1>1, <1>3, HeadsAre, EatenShape DEF Eaten
  <2>2. CASE JobMoveDone(queue)
    <3>1. MoveDone(queue') /\ LastTo(queue') = LastTo(queue)
      BY <1>1, <1>3, <2>2, EatenShape
    <3>2. HasMove'
      BY <2>1, <3>1, Heads DEF HasMove
    <3>3. QED BY <1>1, <3>1, <3>2
  <2>3. CASE MoveDone(queue) \/ Job(queue)
    <3>1. LastTo(queue) = queue[1].to
      BY <2>3, HeadsAre
    <3>2. queue' = <<>> \/ Done(queue')
      BY <1>1, <1>3, <2>3, EatenShape
    <3>3. ~ HasMove'
      BY <2>1, <3>2, Heads DEF HasMove
    <3>4. QED BY <1>1, <1>3, <2>1, <3>1, <3>3
  <2>4. QED BY <1>1, <2>2, <2>3, HeadsAre DEF Shapes
<1>4. QED BY <1>2, <1>3, MotionEats

LEMMA PositionsStay ==
  ASSUME MachineTypes, MotionTypes, HomingTypes, Operations, Phases, Shapes, JobFirst, Positions,
         Stopped, Between, [Next]_vars
  PROVE  Positions'
<1>1. CASE ~ Homes'
  BY <1>1 DEF Positions
<1>2. CASE ~ Homes /\ Homes'
  <2>1. /\ queue = <<>> /\ op = <<>> /\ op' = <<>> /\ machine # "ALARM" /\ pos' = pos
        /\ \/ UNCHANGED <<queue, model>>
           \/ \E to \in Jobs : queue' = <<Block("move", to)>> /\ model' = to
    BY <1>2, CycleStarts, InStart
  <2>2. ~ HasMove /\ ~ ResetComes
    BY <2>1, HeadsAre DEF ResetComes
  <2>3. model = pos
    BY <1>2, <2>1, <2>2 DEF Between
  <2>4. op' # OnlyReset
    BY <2>1, ListsDiffer
  <2>5. CASE UNCHANGED <<queue, model>>
    BY <2>1, <2>2, <2>3, <2>5 DEF Positions, HasMove
  <2>6. CASE \E to \in Jobs : queue' = <<Block("move", to)>> /\ model' = to
    <3>1. PICK to \in Jobs : queue' = <<Block("move", to)>> /\ model' = to
      BY <2>6
    <3>2. to \in Int
      BY HomingAssumption DEF HomingAssumption
    <3>3. queue' \in Seq(Blocks) /\ Job(queue') /\ queue'[1].to = to
      BY <3>1, <3>2, JobIsQueued
    <3>4. LastTo(queue') = queue'[1].to /\ HasMove'
      BY <3>3, Heads DEF HasMove
    <3>5. QED BY <2>4, <3>1, <3>3, <3>4 DEF Positions
  <2>7. QED BY <2>1, <2>5, <2>6
<1>3. ASSUME Homes, Homes', UNCHANGED <<queue, model, pos, op>>, Early => Early'
      PROVE  Positions'
  BY <1>3 DEF Positions, Alarming, HasMove, LastTo
<1>4. CASE BeforeCycle /\ UNCHANGED <<hm, history>> /\ Homes
  <2>1. UNCHANGED <<pos, mishaps, func, axis>> /\ SameBlocks(queue, queue') /\ Homes'
    BY <1>4, BeforeCycleIs DEF Homes
  <2>2. Early' <=> Early
    BY <2>1 DEF Early, Before
  <2>3. CASE Plans \/ Opens \/ Closes \/ SkipWaits \/ HoldWaits
    BY <1>3, <1>4, <2>1, <2>2, <2>3 DEF Plans, Opens, Closes, SkipWaits, HoldWaits
  <2>4. CASE SkipEnds
    <3>1. op = SkipReset /\ hold = "STOPPED" /\ op' = OnlyReset
      BY <2>4 DEF SkipEnds
    <3>2. ~ Early => ~ HasMove
      BY <1>4, <3>1, HeadsAre DEF Stopped
    <3>3. HasMove' <=> HasMove
      BY <2>1, SameShape DEF HasMove, MotionTypes
    <3>4. QED BY <2>2, <3>1, <3>2, <3>3 DEF Positions
  <2>5. CASE HoldBegins
    BY <2>5 DEF HoldBegins, Positions, Alarming
  <2>6. CASE Resets
    <3>1. op = OnlyReset /\ op' = <<>> /\ model' = pos /\ queue' = queue
      BY <2>6 DEF Resets
    <3>2. ~ Alarming
      BY <3>1, ListsDiffer DEF Alarming
    <3>3. ~ Early => ~ HasMove
      BY <1>4, <3>1, <3>2 DEF Positions
    <3>4. HasMove' <=> HasMove
      BY <3>1 DEF HasMove
    <3>5. QED BY <2>1, <2>2, <3>1, <3>3, <3>4 DEF Positions
  <2>7. QED BY <1>4, <2>3, <2>4, <2>5, <2>6, LoopIs
<1>5. CASE _run_alarm /\ Homes /\ Homes'
  <2>1. Again("alarm") /\ UNCHANGED <<queue, model, pos, mishaps, func, axis>>
    BY <1>5 DEF _run_alarm, Homes, history
  <2>2. op' = op
    BY <2>1 DEF Again
  <2>3. QED BY <1>3, <1>5, <2>1, <2>2 DEF Early, Before
<1>6. CASE Cycle /\ Homes /\ Homes'
  <2>1. CASE RestOfPass
    <3>1. UNCHANGED <<queue, model, pos, op, func, axis, mishaps>>
      BY <1>6, <2>1, InCycle DEF motion, history, hm, holding
    <3>2. QED BY <1>3, <1>6, <3>1 DEF Early, Before
  <2>2. CASE NextStep /\ StepKinds
    <3>1. /\ queue = <<>> \/ Job(queue)
          /\ op # OnlyReset /\ ~ Alarming /\ op' = op /\ pos' = pos
          /\ mishaps \subseteq mishaps'
      BY <2>2 DEF NextStep
    <3>2. CASE AxisStarts \/ AxisEnds \/ NoClearing
      <4>1. UNCHANGED <<queue, model>> /\ (EarlySteps => EarlySteps')
        BY <3>2 DEF AxisStarts, AxisEnds, NoClearing, EarlySteps, Before
      <4>2. QED BY <1>3, <1>6, <3>1, <4>1, EarlyStays
    <3>3. ASSUME queue = <<>>, ~ Early PROVE model = pos
      <4>1. ~ HasMove
        BY <3>3, HeadsAre
      <4>2. QED BY <1>6, <3>1, <3>3, <4>1 DEF Positions
    <3>4. ASSUME MoveDone(queue') \/ JobMoveDone(queue'), queue' \in Seq(Blocks),
                 model' = LastTo(queue')
          PROVE  Positions'
      <4>1. HasMove'
        BY <3>4, Heads DEF HasMove
      <4>2. QED BY <3>1, <3>4, <4>1 DEF Positions
    <3>5. ASSUME NEW from, NEW d \in Int, NEW to, AxisMove(from, d, to), d # 0 PROVE Positions'
      <4>1. queue = <<>> => MoveDone(queue') /\ queue'[1].to = model'
        BY <3>5, MoveQueued
      <4>2. Job(queue) => JobMoveDone(queue') /\ LastTo(queue') = model'
        BY <3>5, MoveQueued
      <4>3. queue' \in Seq(Blocks)
        BY <3>5, MoveQueued
      <4>4. MoveDone(queue') => LastTo(queue') = queue'[1].to
        BY <4>3, Heads
      <4>5. QED BY <3>1, <3>4, <4>1, <4>2, <4>3, <4>4
    <3>6. ASSUME Done(queue'), queue' \in Seq(Blocks), model' = model, queue = <<>>, Early => Early'
          PROVE  Positions'
      <4>1. ~ HasMove'
        BY <3>6, Heads DEF HasMove
      <4>2. ~ Early' => model' = pos'
        BY <3>1, <3>3, <3>6
      <4>3. QED BY <4>1, <4>2 DEF Positions
    <3>7. CASE AxisMove("setpoint backoff", 0 - ZeroBackoff, "set position")
      <4> DEFINE d == 0 - ZeroBackoff
      <4>1. CASE d # 0
        BY <3>5, <3>7, <4>1, Distances
      <4>2. CASE d = 0
        <5>1. func = "setpoint backoff" /\ d \in Int
          BY <3>7, Distances DEF AxisMove
        <5>2. queue = <<>> /\ ~ Early
          BY <2>2, <5>1 DEF NextStep, Before, Early
        <5>3. Done(queue') /\ queue' \in Seq(Blocks) /\ model' = model + d
          BY <3>7, <4>2, <5>1, <5>2, MoveQueued
        <5>4. model' = model
          BY <4>2, <5>3 DEF MotionTypes
        <5>5. QED BY <3>6, <5>2, <5>3, <5>4
      <4>3. QED BY <4>1, <4>2
    <3>8. CASE PositionSet
      <4>1. func = "set position" /\ queue' = queue /\ model' = pos
        BY <3>8 DEF PositionSet
      <4>2. queue = <<>>
        BY <2>2, <4>1 DEF NextStep, Before
      <4>3. ~ HasMove'
        BY <4>1, <4>2 DEF HasMove
      <4>4. QED BY <3>1, <4>1, <4>3 DEF Positions
    <3>9. CASE PositionMove
      <4>1. func = "set position" /\ HomingAxisMove(snapshot)
        BY <3>9 DEF PositionMove
      <4>2. queue = <<>> /\ ~ Early
        BY <2>2, <4>1 DEF NextStep, Before, Early
      <4>3. snapshot \in Int /\ model \in Int /\ queue \in Seq(Blocks)
        BY DEF MotionTypes
      <4>4. model' = model + snapshot
        BY <4>1 DEF HomingAxisMove
      <4>5. model' \in Int
        BY <4>3, <4>4
      <4>6. /\ queue' \in Seq(Blocks)
            /\ snapshot = 0 => Done(queue')
            /\ snapshot # 0 => MoveDone(queue') /\ queue'[1].to = model'
        BY <4>1, <4>2, <4>3, <4>5, AxisMoves
      <4>7. CASE snapshot = 0
        BY <3>6, <4>2, <4>3, <4>4, <4>6, <4>7
      <4>8. CASE snapshot # 0
        <5>1. LastTo(queue') = queue'[1].to
          BY <4>6, <4>8, Heads
        <5>2. QED BY <3>4, <4>6, <4>8, <5>1
      <4>9. QED BY <4>7, <4>8
    <3>10. Travel # 0 /\ Backoff # 0
      BY Distances
    <3>11. QED BY <2>2, <3>2, <3>5, <3>7, <3>8, <3>9, <3>10, Distances DEF StepKinds
  <2>3. QED BY <1>6, <2>1, <2>2, StepIs
<1>7. CASE Motion /\ Homes
  <2>1. UNCHANGED <<model, op, func, axis, mishaps>> /\ Homes'
    BY <1>7, MotionIs DEF Homes
  <2>2. (Early' <=> Early) /\ (Alarming' <=> Alarming)
    BY <2>1 DEF Early, Before, Alarming
  <2>3. CASE Early \/ Alarming
    BY <2>2, <2>3 DEF Positions
  <2>4. CASE Move /\ ~ Early /\ ~ Alarming
    <3>1. HasMove
      BY <1>7, <2>4, MotionEats
    <3>2. model = LastTo(queue) /\ op # OnlyReset
      BY <1>7, <2>4, <3>1 DEF Positions
    <3>3. (HasMove' => model' = LastTo(queue')) /\ (~ HasMove' => model' = pos')
      BY <1>7, <2>4, <3>2, MoveEnds
    <3>4. QED BY <2>1, <3>2, <3>3 DEF Positions
  <2>5. CASE Stop /\ ~ Early /\ ~ Alarming
    <3>1. holdType = "SKIP"
      BY <1>7, <2>5, BrakesFor DEF Stop
    <3>2. Done(queue') /\ queue'[1].held
      BY <1>7, <2>5, <3>1, StoppedMove
    <3>3. queue' \in Seq(Blocks)
      BY <1>7, <2>5, <3>1, MotionEats, EatenShape DEF MotionTypes
    <3>4. ~ HasMove' /\ queue' # <<>>
      BY <3>2, <3>3, Heads DEF HasMove
    <3>5. QED BY <3>2, <3>4 DEF Positions
  <2>6. CASE RunCommand /\ ~ Early /\ ~ Alarming
    <3>1. Eaten /\ ~ HasMove /\ ~ Head(queue).held /\ pos' = pos
      BY <1>7, <2>6, MotionEats DEF RunCommand
    <3>2. queue # <<>> /\ Head(queue) = queue[1]
      BY <3>1, HeadsAre DEF Eaten
    <3>3. op = OnlyReset \/ model = pos
      BY <1>7, <2>6, <3>1, <3>2 DEF Positions
    <3>4. Done(queue)
      BY <1>7, <3>1, <3>2, HeadsAre DEF Shapes
    <3>5. queue' = <<>>
      BY <3>1, <3>4, EatenShape DEF MotionTypes
    <3>6. ~ HasMove'
      BY <3>5 DEF HasMove
    <3>7. QED BY <2>1, <3>1, <3>3, <3>6 DEF Positions
  <2>7. QED BY <1>7, <2>3, <2>4, <2>5, <2>6, MotionIs
<1>8. ASSUME Homes, Homes', UNCHANGED <<queue, model, pos>>, Early => Early',
             op' = op \/ (op = <<>> /\ op' = SkipReset) \/ op' = HoldAlarm
      PROVE  Positions'
  <2>1. CASE op' = op
    BY <1>3, <1>8, <2>1
  <2>2. CASE op' = HoldAlarm
    BY <2>2 DEF Positions, Alarming
  <2>3. CASE op = <<>> /\ op' = SkipReset
    <3>1. ~ Alarming /\ op # OnlyReset /\ op' # OnlyReset
      BY <2>3, ListsDiffer DEF Alarming
    <3>2. (HasMove' <=> HasMove) /\ LastTo(queue') = LastTo(queue)
      BY <1>8 DEF HasMove, LastTo
    <3>3. QED BY <1>8, <3>1, <3>2 DEF Positions
  <2>4. QED BY <1>8, <2>1, <2>2, <2>3
<1>9. CASE Edge /\ Homes
  <2>1. UNCHANGED <<queue, model, pos, func, axis>> /\ mishaps \subseteq mishaps' /\ Homes'
    BY <1>9, EdgeIs DEF hm, Homes
  <2>2. Early => Early'
    BY <2>1 DEF Early, Before
  <2>3. UNCHANGED holding \/ Requested("SKIP", SkipReset)
    BY <1>9, EdgeIs
  <2>4. op' = op \/ (op = <<>> /\ op' = SkipReset)
    BY <1>9, <2>3, HoldComes DEF holding
  <2>5. QED BY <1>8, <1>9, <2>1, <2>2, <2>4
<1>10. CASE LimitSwitch /\ UNCHANGED <<hm, history>> /\ Homes
  <2>1. UNCHANGED <<queue, model, pos, func, axis, mishaps>> /\ Requested("HOLD", HoldAlarm) /\ Homes'
    BY <1>10, LimitIs DEF hm, history, Homes
  <2>2. Early => Early'
    BY <2>1 DEF Early, Before
  <2>3. op' = op \/ op' = HoldAlarm
    BY <1>10, <2>1, HoldComes DEF holding
  <2>4. QED BY <1>8, <1>10, <2>1, <2>2, <2>3
<1>11. CASE ((LockoutEnds /\ UNCHANGED <<hm, history>>) \/ UNCHANGED vars) /\ Homes
  <2>1. UNCHANGED <<queue, model, pos, op, func, axis, mishaps>> /\ Homes'
    BY <1>11 DEF LockoutEnds, vars, motion, holding, history, hm, Homes
  <2>2. Early => Early'
    BY <2>1 DEF Early, Before
  <2>3. QED BY <1>3, <1>11, <2>1, <2>2
<1>12. QED BY <1>1, <1>2, <1>4, <1>5, <1>6, <1>7, <1>9, <1>10, <1>11
       DEF Next, MainLoop, Outside

---------------------------------------------------------------------------
(* The end of a hold *)

LEMMA StoppedStay ==
  ASSUME MachineTypes, MotionTypes, HomingTypes, Operations, Phases, Shapes, JobFirst, Stopped,
         [Next]_vars
  PROVE  Stopped'
<1>1. CASE ~ Homes' \/ hold' # "STOPPED" \/ op' # SkipReset
  BY <1>1 DEF Stopped
<1>2. CASE ~ Homes /\ Homes'
  <2>1. hold' = "OFF"
    BY <1>2, CycleStarts, InStart
  <2>2. QED BY <2>1 DEF Stopped
<1>3. ASSUME Homes, Homes', UNCHANGED <<queue, at, func, waiting, hold, op>>, Early => Early'
      PROVE  Stopped'
  BY <1>3 DEF Stopped, HasMove
<1>4. CASE BeforeCycle /\ UNCHANGED <<hm, history>> /\ Homes
  <2>1. UNCHANGED <<pos, mishaps, func, axis, waiting>> /\ Homes'
    BY <1>4, BeforeCycleIs DEF Homes
  <2>2. Early' <=> Early
    BY <2>1 DEF Early, Before
  <2>3. CASE Plans
    <3>1. at = "planner" /\ at' = "operation" /\ queue' = queue /\ op' = op
      BY <2>3 DEF Plans
    <3>2. queue = <<>> \/ hold' = hold
      BY <2>3 DEF Plans, Noted
    <3>3. CASE queue = <<>>
      BY <3>1, <3>3 DEF Stopped
    <3>4. CASE hold' = hold
      BY <1>4, <2>1, <2>2, <3>1, <3>4 DEF Stopped
    <3>5. QED BY <3>2, <3>3, <3>4
  <2>4. CASE Opens /\ op' = SkipReset
    <3>1. at = "operation" /\ at' = "run" /\ UNCHANGED <<queue, op, hold>>
      BY <2>4, ListsDiffer DEF Opens
    <3>2. QED BY <1>4, <2>1, <2>2, <3>1 DEF Stopped
  <2>5. CASE Closes
    <3>1. op' # SkipReset
      BY <2>5, ListsDiffer DEF Closes
    <3>2. QED BY <1>1, <3>1
  <2>6. CASE SkipWaits
    <3>1. hold' # "STOPPED"
      BY <2>6 DEF SkipWaits, Braking
    <3>2. QED BY <1>1, <3>1
  <2>7. CASE SkipEnds \/ HoldWaits \/ HoldBegins \/ Resets
    <3>1. op' # SkipReset
      BY <2>7, ListsDiffer DEF SkipEnds, HoldWaits, HoldBegins, Resets
    <3>2. QED BY <1>1, <3>1
  <2>8. QED BY <1>1, <1>4, <2>3, <2>4, <2>5, <2>6, <2>7, LoopIs
<1>5. CASE _run_alarm /\ Homes /\ Homes'
  <2>1. at = "run" /\ Head(op) = "alarm" /\ Again("alarm")
    BY <1>5, RunActs, AfterAction DEF _run_alarm, Homes
  <2>2. op' # SkipReset
    BY <2>1, Lists DEF Again
  <2>3. QED BY <1>1, <2>2
<1>6. CASE Cycle /\ Homes /\ Homes' /\ hold' = "STOPPED" /\ op' = SkipReset
  <2>1. at = "cycle" /\ at' = "planner" /\ hold = "STOPPED" /\ op = SkipReset
    BY <1>6, InCycle
  <2>2. /\ ~ Early => Done(queue) /\ queue[1].held
        /\ func = "clear" => waiting /\ (HasMove \/ queue[1].held)
    BY <1>6, <2>1 DEF Stopped
  <2>3. CASE RestOfPass
    <3>1. UNCHANGED <<queue, waiting, func, axis, mishaps>>
      BY <1>6, <2>3, InCycle DEF motion, history, hm
    <3>2. (Early' <=> Early) /\ (HasMove' <=> HasMove)
      BY <3>1 DEF Early, Before, HasMove
    <3>3. QED BY <2>1, <2>2, <3>1, <3>2 DEF Stopped
  <2>4. CASE NextStep /\ StepKinds
    <3>1. ~ waiting /\ mishaps \subseteq mishaps' /\ (queue = <<>> \/ Job(queue))
      BY <2>4 DEF NextStep
    <3>2. Early
      <4>1. Done(queue) => waiting
        BY <1>6, Heads DEF Shapes, MotionTypes
      <4>2. QED BY <2>2, <3>1, <4>1
    <3>3. func # "clear"
      BY <2>2, <3>1
    <3>4. EarlySteps /\ "early" \in mishaps'
      BY <3>1, <3>2 DEF Early, EarlySteps
    <3>5. CASE AxisMove("search", Travel, "clear")
      <4>6. Travel \in Int /\ Travel # 0
        BY Distances
      <4>1. waiting' = TRUE /\ queue' \in Seq(Blocks) /\ (MoveDone(queue') \/ JobMoveDone(queue'))
        BY <3>1, <3>5, <4>6, MoveQueued
      <4>2. HasMove'
        BY <4>1, Heads DEF HasMove
      <4>3. func' = "clear"
        BY <3>5 DEF AxisMove
      <4>4. Early'
        BY <3>4, <4>3 DEF Early
      <4>5. QED BY <4>1, <4>2, <4>4 DEF Stopped
    <3>6. ~ (func \in {"latch", "setpoint backoff", "set position"} \/ (func = "start" /\ axis))
      BY <3>4 DEF EarlySteps, Before
    <3>7. CASE AxisStarts \/ NoClearing \/ AxisMove("clear init", 0 - Backoff, "search")
      <4>1. func' # "clear" /\ Early'
        BY <3>4, <3>7 DEF AxisStarts, NoClearing, AxisMove, Early, Before
      <4>2. QED BY <4>1 DEF Stopped
    <3>8. \/ AxisStarts \/ NoClearing \/ AxisMove("clear init", 0 - Backoff, "search")
          \/ AxisMove("search", Travel, "clear")
      BY <2>4, <3>3, <3>6, MoveFuncs DEF StepKinds, AxisEnds, PositionSet, PositionMove
    <3>9. QED BY <3>5, <3>7, <3>8
  <2>5. QED BY <1>6, <2>3, <2>4, StepIs
<1>7. CASE Motion /\ Homes /\ hold' = "STOPPED" /\ op' = SkipReset
  <2>1. UNCHANGED <<at, op, func, axis, mishaps, holdType>> /\ Homes'
    BY <1>7, MotionIs DEF Homes
  <2>2. Early' <=> Early
    BY <2>1 DEF Early, Before
  <2>3. ~ Move
    BY <1>7 DEF Move
  <2>4. CASE Stop
    <3>1. hold \in Braking /\ op = SkipReset
      BY <1>7, <2>1, <2>4 DEF Stop
    <3>2. holdType = "SKIP"
      BY <1>7, <3>1, BrakesFor
    <3>3. ~ Early => Done(queue') /\ queue'[1].held
      BY <1>7, <2>4, <3>2, StoppedMove
    <3>4. ASSUME func = "clear" PROVE waiting' /\ (HasMove' \/ queue'[1].held)
      <4>1. HasMove /\ waiting' = waiting /\ Eaten /\ queue' = Tail(Held(TRUE))
        BY <1>7, <2>4, <3>2, MotionEats
      <4>2. (MoveDone(queue) \/ JobMoveDone(queue)) /\ waiting
        BY <1>7, <3>4, <4>1, HeadsAre DEF Shapes, Before
      <4>3. CASE MoveDone(queue)
        BY <4>1, <4>2, <4>3, EatenShape DEF MotionTypes
      <4>4. CASE JobMoveDone(queue)
        <5>1. MoveDone(queue') /\ queue' \in Seq(Blocks)
          BY <4>1, <4>4, EatenShape DEF MotionTypes
        <5>2. HasMove'
          BY <5>1, Heads DEF HasMove
        <5>3. QED BY <4>1, <4>2, <5>2
      <4>5. QED BY <4>2, <4>3, <4>4
    <3>5. QED BY <2>1, <2>2, <3>3, <3>4 DEF Stopped
  <2>5. CASE RunCommand
    <3>1. Eaten /\ ~ HasMove /\ ~ Head(queue).held /\ hold = "STOPPED" /\ op = SkipReset
      BY <1>7, <2>1, <2>5, MotionEats DEF RunCommand, holding
    <3>2. queue # <<>> /\ Head(queue) = queue[1]
      BY <3>1, HeadsAre DEF Eaten
    <3>3. Early /\ ~ (func = "clear" /\ at \in {"cycle", "planner"})
      BY <1>7, <3>1, <3>2 DEF Stopped
    <3>4. QED BY <2>1, <2>2, <3>3 DEF Stopped
  <2>6. QED BY <1>7, <2>3, <2>4, <2>5, MotionIs
<1>8. CASE Edge /\ Homes /\ hold' = "STOPPED"
  <2>1. UNCHANGED <<queue, at, func, axis, waiting>> /\ mishaps \subseteq mishaps' /\ Homes'
    BY <1>8, EdgeIs DEF hm, Homes
  <2>2. UNCHANGED holding \/ Requested("SKIP", SkipReset)
    BY <1>8, EdgeIs
  <2>3. UNCHANGED <<hold, op>>
    BY <1>8, <2>2, HoldComes DEF holding
  <2>4. Early => Early'
    BY <2>1 DEF Early, Before
  <2>5. QED BY <1>3, <1>8, <2>1, <2>3, <2>4
<1>9. CASE LimitSwitch /\ UNCHANGED <<hm, history>> /\ Homes /\ hold' = "STOPPED"
  <2>1. /\ UNCHANGED <<queue, at, func, axis, waiting, mishaps>>
        /\ Requested("HOLD", HoldAlarm) /\ Homes'
    BY <1>9, LimitIs DEF hm, history, Homes
  <2>2. UNCHANGED <<hold, op>>
    BY <1>9, <2>1, HoldComes DEF holding
  <2>3. Early => Early'
    BY <2>1 DEF Early, Before
  <2>4. QED BY <1>3, <1>9, <2>1, <2>2, <2>3
<1>10. CASE ((LockoutEnds /\ UNCHANGED <<hm, history>>) \/ UNCHANGED vars) /\ Homes
  <2>1. UNCHANGED <<queue, at, op, hold, waiting, func, axis, mishaps>> /\ Homes'
    BY <1>10 DEF LockoutEnds, vars, motion, holding, history, hm, Homes
  <2>2. Early => Early'
    BY <2>1 DEF Early, Before
  <2>3. QED BY <1>3, <1>10, <2>1, <2>2
<1>11. QED BY <1>1, <1>2, <1>4, <1>5, <1>6, <1>7, <1>8, <1>9, <1>10 DEF Next, MainLoop, Outside

LEMMA ResetIsComing == (op = SkipReset => ResetComes) /\ (op = OnlyReset => ResetComes)
BY ResetIsInLists DEF ResetComes

LEMMA StartsRightStay ==
  ASSUME MachineTypes, MotionTypes, HomingTypes, Operations, Phases, Shapes, JobFirst, StartsRight,
         Between, [Next]_vars
  PROVE  StartsRight'
<1>1. CASE ~ Homes' \/ ~ Before' \/ Alarming'
  BY <1>1 DEF StartsRight
<1>2. CASE ~ Homes /\ Homes'
  <2>1. /\ queue = <<>> /\ op = <<>> /\ op' = <<>> /\ machine # "ALARM" /\ pos' = pos
        /\ \/ UNCHANGED <<queue, model>>
           \/ \E to \in Jobs : queue' = <<Block("move", to)>> /\ model' = to
    BY <1>2, CycleStarts, InStart
  <2>2. ~ HasMove /\ ~ ResetComes
    BY <2>1, HeadsAre DEF ResetComes
  <2>3. model = pos
    BY <1>2, <2>1, <2>2 DEF Between
  <2>4. CASE UNCHANGED <<queue, model>>
    BY <2>1, <2>2, <2>3, <2>4 DEF StartsRight, HasMove
  <2>5. CASE \E to \in Jobs : queue' = <<Block("move", to)>> /\ model' = to
    <3>1. PICK to \in Jobs : queue' = <<Block("move", to)>> /\ model' = to
      BY <2>5
    <3>2. to \in Int
      BY HomingAssumption DEF HomingAssumption
    <3>3. queue' \in Seq(Blocks) /\ Job(queue') /\ queue'[1].to = to
      BY <3>1, <3>2, JobIsQueued
    <3>4. HasMove'
      BY <3>3, Heads DEF HasMove
    <3>5. QED BY <3>1, <3>3, <3>4 DEF StartsRight
  <2>6. QED BY <2>1, <2>4, <2>5
<1>3. ASSUME Homes, Homes', Before' => Before, SameBlocks(queue, queue'), UNCHANGED <<model, pos>>,
             Alarming => Alarming', ResetComes => ResetComes'
      PROVE  StartsRight'
  <2>1. HasMove' <=> HasMove
    BY <1>3, SameShape DEF HasMove, MotionTypes
  <2>2. HasMove => queue'[1].to = queue[1].to
    BY <1>3, SameShape DEF HasMove, MotionTypes
  <2>3. QED BY <1>3, <2>1, <2>2 DEF StartsRight
<1>4. queue' = queue => SameBlocks(queue, queue')
  BY DEF SameBlocks, MotionTypes
<1>5. op' = op => (Alarming => Alarming') /\ (ResetComes => ResetComes')
  BY DEF Alarming, ResetComes
<1>6. CASE BeforeCycle /\ UNCHANGED <<hm, history>> /\ Homes
  <2>1. UNCHANGED <<pos, func, axis>> /\ SameBlocks(queue, queue') /\ Homes'
    BY <1>6, BeforeCycleIs DEF Homes
  <2>2. Before' <=> Before
    BY <2>1 DEF Before
  <2>3. CASE Plans \/ Opens \/ Closes \/ SkipWaits \/ HoldWaits
    <3>1. op' = op /\ model' = model
      BY <2>3 DEF Plans, Opens, Closes, SkipWaits, HoldWaits
    <3>2. QED BY <1>3, <1>5, <1>6, <2>1, <2>2, <3>1
  <2>4. CASE SkipEnds
    <3>1. model' = model /\ ResetComes' /\ ~ Alarming
      <4>1. op = SkipReset /\ op' = OnlyReset /\ model' = model
        BY <2>4 DEF SkipEnds
      <4>2. QED BY <4>1, ListsDiffer, ResetIsInLists DEF ResetComes, Alarming
    <3>2. QED BY <1>3, <1>6, <2>1, <2>2, <3>1
  <2>5. CASE HoldBegins
    BY <1>1, <2>5 DEF HoldBegins, Alarming
  <2>6. CASE Resets /\ Before
    <3>1. op = OnlyReset /\ model' = pos /\ queue' = queue
      BY <2>6 DEF Resets
    <3>2. ~ JobMove
      BY <1>6, <3>1, ListsDiffer DEF JobFirst, Alarming
    <3>3. queue = <<>>
      BY <1>6, <2>6, <3>2 DEF Shapes, JobMove, Before
    <3>4. ~ HasMove'
      BY <3>1, <3>3 DEF HasMove
    <3>5. QED BY <2>1, <3>1, <3>4 DEF StartsRight
  <2>7. QED BY <1>1, <1>6, <2>2, <2>3, <2>4, <2>5, <2>6, LoopIs
<1>7. CASE _run_alarm /\ Homes /\ Homes'
  <2>1. at = "run" /\ Head(op) = "alarm" /\ Again("alarm") /\ op # <<>>
    BY <1>7, RunActs, AfterAction DEF _run_alarm, Homes
  <2>2. op = OnlyAlarm
    BY <1>7, <2>1, Lists DEF Phases
  <2>3. Alarming'
    BY <2>1, <2>2 DEF Again, Alarming
  <2>4. QED BY <1>1, <2>3
<1>8. CASE Cycle /\ Homes /\ Homes'
  <2>1. op' = op /\ pos' = pos
    BY <1>8, InCycle
  <2>2. CASE RestOfPass
    <3>1. UNCHANGED <<queue, model, func, axis>>
      BY <1>8, <2>2, InCycle DEF motion, hm
    <3>2. Before' <=> Before
      BY <3>1 DEF Before
    <3>3. QED BY <1>3, <1>4, <1>5, <1>8, <2>1, <3>1, <3>2
  <2>3. CASE NextStep /\ StepKinds
    <3>1. CASE AxisStarts
      <4>1. UNCHANGED <<queue, model>> /\ Before
        BY <3>1 DEF AxisStarts, Before
      <4>2. QED BY <1>3, <1>4, <1>5, <1>8, <2>1, <4>1
    <3>2. CASE ~ AxisStarts
      <4>1. func # "start" => axis
        BY <1>8 DEF Shapes
      <4>2. \/ func' = "start" /\ axis' = axis /\ axis
            \/ func' \in {"finalize", "search", "clear", "latch", "setpoint backoff", "set position"}
        BY <2>3, <3>2, <4>1, MoveFuncs DEF StepKinds, AxisEnds, NoClearing, PositionSet,
           PositionMove
      <4>4. ~ Before'
        BY <4>2 DEF Before
      <4>3. QED BY <1>1, <4>4
    <3>3. QED BY <3>1, <3>2
  <2>4. QED BY <1>8, <2>2, <2>3, StepIs
<1>9. CASE Motion /\ Homes /\ Before
  <2>1. UNCHANGED <<model, op, func, axis, holdType>> /\ Homes' /\ (Move \/ Stop \/ RunCommand)
    BY <1>9, MotionIs DEF Homes
  <2>2. Alarming' <=> Alarming
    BY <2>1 DEF Alarming
  <2>3. queue = <<>> \/ Job(queue)
    BY <1>9 DEF Shapes, Before
  <2>4. ~ RunCommand
    BY <1>9, <2>3, MotionEats, HeadsAre DEF Eaten
  <2>5. CASE Move /\ ~ Alarming
    <3>1. HasMove /\ (\/ queue' = queue
                      \/ Eaten /\ Head(queue).to = pos')
      BY <1>9, <2>5, MotionEats
    <3>2. model = queue[1].to /\ Head(queue) = queue[1] /\ Job(queue)
      BY <1>9, <2>3, <2>5, <3>1, HeadsAre DEF StartsRight
    <3>3. CASE queue' = queue
      BY <2>1, <3>1, <3>2, <3>3 DEF StartsRight, HasMove
    <3>4. CASE Eaten /\ Head(queue).to = pos'
      <4>1. queue' = <<>>
        BY <3>2, <3>4, EatenShape DEF MotionTypes
      <4>2. ~ HasMove'
        BY <4>1 DEF HasMove
      <4>3. QED BY <2>1, <3>2, <3>4, <4>2 DEF StartsRight
    <3>5. QED BY <3>1, <3>3, <3>4
  <2>6. CASE Stop /\ ~ Alarming
    <3>1. HasMove /\ hold \in Braking
      BY <1>9, <2>6, MotionEats DEF Stop
    <3>2. Job(queue) /\ hold # "OFF"
      BY <2>3, <3>1, HeadsAre DEF Braking
    <3>3. op = SkipReset
      BY <1>9, <2>6, <3>2 DEF JobFirst, JobMove
    <3>4. ResetComes'
      BY <2>1, <3>3, ResetIsComing DEF ResetComes
    <3>5. holdType = "SKIP"
      BY <1>9, <2>6, <3>1, BrakesFor
    <3>6. queue' = <<>>
      BY <1>9, <2>6, <3>2, <3>5, MotionEats, EatenShape DEF MotionTypes
    <3>7. ~ HasMove'
      BY <3>6 DEF HasMove
    <3>8. QED BY <3>4, <3>7 DEF StartsRight
  <2>7. QED BY <1>1, <2>1, <2>2, <2>4, <2>5, <2>6
<1>10. CASE Motion /\ Homes /\ ~ Before
  <2>1. UNCHANGED <<func, axis>>
    BY <1>10, MotionIs
  <2>2. QED BY <1>1, <1>10, <2>1 DEF Before
<1>11. ASSUME Homes, UNCHANGED holding \/ \E type, list : Requested(type, list)
       PROVE  (Alarming => Alarming') /\ (ResetComes => ResetComes')
  <2>1. CASE UNCHANGED holding
    BY <1>5, <2>1 DEF holding
  <2>2. CASE \E type, list : Requested(type, list)
    <3>1. PICK type, list : Requested(type, list)
      BY <2>2
    <3>2. (hold # "OFF" /\ UNCHANGED holding) \/ (~ Alarming /\ (ResetComes => ResetComes'))
      BY <1>11, <3>1, HoldComes
    <3>3. QED BY <2>1, <3>2
  <2>3. QED BY <1>11, <2>1, <2>2
<1>12. CASE Edge /\ Homes
  <2>1. UNCHANGED <<queue, model, pos, func, axis>> /\ Homes'
    BY <1>12, EdgeIs DEF hm, Homes
  <2>2. (Alarming => Alarming') /\ (ResetComes => ResetComes')
    BY <1>11, <1>12, EdgeIs
  <2>3. Before' <=> Before
    BY <2>1 DEF Before
  <2>4. QED BY <1>3, <1>4, <1>12, <2>1, <2>2, <2>3
<1>13. CASE LimitSwitch /\ UNCHANGED <<hm, history>> /\ Homes
  <2>1. UNCHANGED <<queue, model, pos, func, axis>> /\ Homes'
    BY <1>13, LimitIs DEF hm, Homes
  <2>2. (Alarming => Alarming') /\ (ResetComes => ResetComes')
    BY <1>11, <1>13, LimitIs
  <2>3. Before' <=> Before
    BY <2>1 DEF Before
  <2>4. QED BY <1>3, <1>4, <1>13, <2>1, <2>2, <2>3
<1>14. CASE ((LockoutEnds /\ UNCHANGED <<hm, history>>) \/ UNCHANGED vars) /\ Homes
  <2>1. UNCHANGED <<queue, model, pos, op, func, axis>> /\ Homes'
    BY <1>14 DEF LockoutEnds, vars, motion, holding, hm, Homes
  <2>2. Before' <=> Before
    BY <2>1 DEF Before
  <2>3. QED BY <1>3, <1>4, <1>5, <1>14, <2>1, <2>2
<1>15. QED BY <1>1, <1>2, <1>6, <1>7, <1>8, <1>9, <1>10, <1>12, <1>13, <1>14
       DEF Next, MainLoop, Outside

---------------------------------------------------------------------------
(* Between the cycles *)

LEMMA BetweenStay ==
  ASSUME MachineTypes, MotionTypes, HomingTypes, Operations, Phases, Shapes, Positions,
         StartsRight, Between, [Next]_vars
  PROVE  Between'
<1>1. CASE Homes'
  BY <1>1 DEF Between
<1>2. ASSUME ~ Homes, machine' = machine, HasMove => HasMove', UNCHANGED pos,
             model' = pos \/ (model' = model /\ (ResetComes => ResetComes'))
      PROVE  Between'
  BY <1>2 DEF Between
<1>3. op' = op => (ResetComes => ResetComes')
  BY DEF ResetComes
<1>4. queue' = queue => (HasMove <=> HasMove')
  BY DEF HasMove
<1>5. CASE BeforeCycle /\ UNCHANGED <<hm, history>> /\ ~ Homes
  <2>1. UNCHANGED <<cycle, machine, pos>> /\ SameBlocks(queue, queue')
    BY <1>5, BeforeCycleIs
  <2>2. HasMove' <=> HasMove
    BY <2>1, SameShape DEF HasMove, MotionTypes
  <2>3. CASE RunAction
    BY <1>2, <1>5, <2>1, <2>2, <2>3, OutOfCycle
  <2>4. CASE mp_planner_callback \/ StartOperation \/ ResetOperation
    <3>1. op' = op /\ model' = model
      BY <2>4, OperationStarts DEF mp_planner_callback, ResetOperation, Operations
    <3>2. QED BY <1>2, <1>3, <1>5, <2>1, <2>2, <3>1
  <2>5. QED BY <1>5, <2>3, <2>4 DEF BeforeCycle
<1>6. CASE _run_alarm
  <2>1. CASE hold = "HOLD" /\ Next_("alarm")
    BY <1>6, <2>1 DEF _run_alarm, Between, Again
  <2>2. CASE hold # "HOLD"
    <3>1. UNCHANGED <<queue, model, cycle, machine, pos>> /\ Again("alarm")
      BY <1>6, <2>2 DEF _run_alarm
    <3>2. op' = op
      BY <3>1 DEF Again
    <3>3. QED BY <1>1, <1>2, <1>3, <1>4, <3>1, <3>2 DEF Homes
  <2>3. QED BY <1>6, <2>1, <2>2 DEF _run_alarm
<1>7. CASE Cycle /\ ~ Homes /\ ~ Homes'
  <2>1. RestOfPass
    BY <1>7, InCycle
  <2>2. ~ \E set \in BOOLEAN : HomingCycleStart(set)
    BY <1>7 DEF HomingCycleStart, Homes
  <2>3. UNCHANGED <<queue, pos, model, machine, op>>
    BY <2>1, <2>2 DEF RestOfPass, motion, holding
  <2>4. QED BY <1>2, <1>3, <1>4, <1>7, <2>3
<1>8. CASE Cycle /\ Homes /\ ~ Homes'
  <2>1. at = "cycle" /\ machine = "CYCLE"
    BY <1>8, InCycle DEF Phases
  <2>2. op # OnlyReset /\ ~ Alarming
    BY <1>8, <2>1, NoOperation
  <2>3. /\ _homing_axis_clear_init \/ _homing_finalize_exit
        /\ HomingFinalizeExit(queue) /\ ~ waiting /\ func \in {"clear init", "finalize"}
        /\ Untouched /\ model' = model
    <3>1. ~ RestOfPass /\ ~ _homing_axis_moves /\ ~ _homing_axis_start /\ ~ _homing_axis_set_position
      BY <1>8, InCycle, MovesAre DEF Homes, _homing_axis_start, _homing_axis_set_position
    <3>2. _homing_axis_clear_init \/ _homing_finalize_exit
      BY <1>8, <3>1 DEF Cycle
    <3>3. CASE _homing_axis_clear_init
      <4>1. cycle' = cycle \/ (HomingFinalizeExit(queue) /\ model' = model)
        BY <3>3 DEF _homing_axis_clear_init
      <4>2. ~ waiting /\ func = "clear init" /\ Untouched
        BY <3>3 DEF _homing_axis_clear_init, Step
      <4>3. QED BY <1>8, <3>2, <4>1, <4>2 DEF Homes
    <3>4. CASE _homing_finalize_exit
      BY <3>4 DEF _homing_finalize_exit, Step
    <3>5. QED BY <3>2, <3>3, <3>4
  <2>4. queue' = Append(queue, Block("other", 0)) /\ machine' = "STOP"
    BY <2>1, <2>3 DEF HomingFinalizeExit
  <2>5. pos' = pos /\ op' = op
    BY <2>3 DEF Untouched
  <2>6. queue = <<>> \/ (Job(queue) /\ (Before \/ func = "search"))
    BY <1>8, <2>3 DEF Shapes
  <2>7. CASE Job(queue)
    <3>1. HasMove /\ queue # <<>> /\ queue \in Seq(Blocks)
      BY <2>7, HeadsAre DEF MotionTypes, HasMove
    <3>2. HasMove'
      BY <2>4, <3>1, OtherBehind DEF HasMove
    <3>3. QED BY <2>4, <3>2 DEF Between
  <2>8. CASE queue = <<>>
    <3>1. ~ HasMove
      BY <2>8, HeadsAre
    <3>2. CASE Before
      BY <1>8, <2>2, <2>3, <2>4, <2>5, <3>1, <3>2 DEF StartsRight, Between, ResetComes
    <3>3. CASE ~ Before
      <4>1. func = "finalize"
        BY <2>3, <3>3 DEF Before
      <4>2. ~ Early
        BY <3>3, <4>1 DEF Early
      <4>3. model = pos
        BY <1>8, <2>2, <2>8, <3>1, <4>2 DEF Positions
      <4>4. QED BY <2>3, <2>4, <2>5, <4>3 DEF Between
    <3>4. QED BY <3>2, <3>3
  <2>9. QED BY <2>6, <2>7, <2>8
<1>9. CASE Motion /\ ~ Homes
  <2>1. UNCHANGED <<model, machine, op>>
    BY <1>9, MotionIs
  <2>2. machine # "CYCLE"
    BY <1>9 DEF Between
  <2>3. RunCommand
    BY <1>9, <2>2, MotionIs DEF Move, Stop
  <2>4. ~ HasMove /\ pos' = pos
    BY <2>3 DEF RunCommand
  <2>5. QED BY <1>2, <1>3, <1>9, <2>1, <2>4
<1>10. CASE Motion /\ Homes
  BY <1>1, <1>10, MotionIs DEF Homes
<1>11. CASE Edge
  <2>1. UNCHANGED <<queue, pos, model, cycle, machine>>
    BY <1>11, EdgeIs
  <2>2. CASE ~ Homes
    <3>1. op' = op
      BY <1>11, <2>2, EdgeIs DEF Handled, holding
    <3>2. QED BY <1>2, <1>3, <1>4, <2>1, <2>2, <3>1
  <2>3. QED BY <1>1, <2>1, <2>2 DEF Homes
<1>12. CASE LimitSwitch
  <2>1. UNCHANGED <<queue, pos, model, cycle, machine>> /\ Requested("HOLD", HoldAlarm)
    BY <1>12, LimitIs
  <2>2. CASE ~ Homes
    <3>1. ResetComes => ResetComes'
      BY <1>3, <2>1 DEF Requested, holding
    <3>2. QED BY <1>2, <1>4, <2>1, <2>2, <3>1
  <2>3. QED BY <1>1, <2>1, <2>2 DEF Homes
<1>13. CASE LockoutEnds \/ UNCHANGED vars
  <2>1. UNCHANGED <<queue, pos, model, cycle, machine, op>>
    BY <1>13 DEF LockoutEnds, vars, motion, holding
  <2>2. QED BY <1>1, <1>2, <1>3, <1>4, <2>1 DEF Homes
<1>14. CASE BeforeCycle /\ UNCHANGED <<hm, history>> /\ Homes
  BY <1>1, <1>14, BeforeCycleIs DEF Homes
<1>15. QED BY <1>1, <1>5, <1>6, <1>7, <1>8, <1>9, <1>10, <1>11, <1>12, <1>13, <1>14
       DEF Next, MainLoop, Outside
---------------------------------------------------------------------------
(* The input *)

LEMMA ContactStay ==
  ASSUME MachineTypes, Operations, MotionTypes, Contact, [Next]_vars PROVE Contact'
<1>1. CASE UNCHANGED <<pos, surface, level, bouncing>>
  BY <1>1 DEF Contact, Touching
<1>2. pos \in Int /\ surface \in Int /\ level \in BOOLEAN /\ bouncing \in BOOLEAN
  BY DEF MotionTypes
<1>3. CASE Move
  <2>1. /\ level = Touching \/ bouncing
        /\ pos' = pos + 1 \/ pos' = pos - 1
        /\ bouncing' = (bouncing /\ pos' >= surface)
        /\ surface' = surface /\ level' = level
    BY <1>3 DEF Move
  <2>2. Touching' <=> pos' >= surface
    BY <2>1 DEF Touching
  <2>3. bouncing => ~ level
    BY DEF Contact
  <2>4. bouncing' => Touching' /\ ~ level'
    BY <1>2, <2>1, <2>2, <2>3
  <2>5. ASSUME level' # Touching', ~ bouncing'
        PROVE  pos' = IF level' THEN surface' - 1 ELSE surface'
    <3>1. CASE bouncing
      <4>1. ~ level /\ ~ (pos' >= surface)
        BY <1>2, <2>1, <2>3, <2>5, <3>1
      <4>2. level' = FALSE /\ Touching' = FALSE
        BY <1>2, <2>1, <2>2, <4>1 DEF Touching
      <4>3. QED BY <2>5, <4>2
    <3>2. CASE ~ bouncing
      <4>1. level <=> pos >= surface
        BY <1>2, <2>1, <3>2 DEF Touching
      <4>2. ~ (level <=> pos' >= surface)
        BY <1>2, <2>1, <2>2, <2>5 DEF Touching
      <4>3. CASE level
        <5>1. pos >= surface /\ ~ (pos' >= surface)
          BY <4>1, <4>2, <4>3
        <5>2. pos' = surface - 1
          BY <1>2, <2>1, <5>1
        <5>3. QED BY <2>1, <4>3, <5>2
      <4>4. CASE ~ level
        <5>1. ~ (pos >= surface) /\ pos' >= surface
          BY <4>1, <4>2, <4>4
        <5>2. pos' = surface
          BY <1>2, <2>1, <5>1
        <5>3. QED BY <2>1, <4>4, <5>2
      <4>5. QED BY <4>3, <4>4
    <3>3. QED BY <3>1, <3>2
  <2>6. QED BY <2>4, <2>5 DEF Contact
<1>4. CASE Edge
  <2>1. pos' = pos /\ surface' = surface /\ EdgeTo(level')
    BY <1>4, EdgeIs
  <2>2. Touching' <=> Touching
    BY <2>1 DEF Touching
  <2>3. \/ level' = Touching /\ bouncing' = FALSE
        \/ Touching /\ ~ level' /\ bouncing' = TRUE
    BY <2>1 DEF EdgeTo
  <2>4. CASE level' = Touching /\ bouncing' = FALSE
    <3>1. Touching' = Touching
      BY <2>1 DEF Touching
    <3>2. QED BY <2>4, <3>1 DEF Contact
  <2>5. CASE Touching /\ ~ level' /\ bouncing' = TRUE
    BY <2>2, <2>5 DEF Contact
  <2>6. QED BY <2>3, <2>4, <2>5
<1>5. CASE BeforeCycle
  BY <1>1, <1>5, BeforeCycleReleases DEF Released, input
<1>6. CASE _run_alarm
  BY <1>1, <1>6 DEF _run_alarm, input
<1>7. CASE Cycle
  BY <1>1, <1>7, InCycle DEF input
<1>8. CASE Stop \/ RunCommand
  BY <1>1, <1>8 DEF Stop, RunCommand, input
<1>9. CASE Outside \/ UNCHANGED vars
  BY <1>1, <1>9 DEF Outside, LimitSwitch, LockoutEnds, vars, motion, input
<1>10. QED BY <1>3, <1>4, <1>5, <1>6, <1>7, <1>8, <1>9 DEF Next, MainLoop, Motion, MoveOrCommand

LEMMA ListeningStay ==
  ASSUME MachineTypes, MotionTypes, HomingTypes, Operations, Phases, Shapes, Listening, [Next]_vars
  PROVE  Listening'
<1>1. CASE UNCHANGED <<cycle, func, axis, registered, zero>>
  BY <1>1 DEF Listening, Homes
<1>2. CASE BeforeCycle /\ UNCHANGED <<hm, history>>
  BY <1>1, <1>2, BeforeCycleIs
<1>3. CASE _run_alarm
  <2>1. CASE UNCHANGED <<registered, cycle>>
    BY <1>1, <1>3, <2>1 DEF _run_alarm, history
  <2>2. CASE ~ UNCHANGED <<registered, cycle>>
    BY <1>3, <2>2 DEF _run_alarm, Listening, Homes
  <2>3. QED BY <2>1, <2>2
<1>4. CASE Cycle /\ Homes /\ Homes'
  <2>1. CASE RestOfPass
    BY <1>1, <1>4, <2>1, InCycle DEF hm, history
  <2>2. CASE NextStep /\ StepKinds
    <3>1. func # "start" => axis
      BY <1>4 DEF Shapes
    <3>2. ASSUME func \notin {"start", "finalize"} PROVE zero = {}
      BY <1>4, <3>2 DEF Listening
    <3>3. CASE AxisStarts
      <4>1. ~ axis /\ func' = "clear init" /\ zero' = zero
        BY <3>3 DEF AxisStarts
      <4>2. zero = {}
        BY <1>4, <4>1 DEF Listening
      <4>3. QED BY <1>4, <4>1, <4>2 DEF Listening
    <3>4. CASE AxisEnds
      <4>1. ~ registered /\ func' = "finalize" /\ axis /\ UNCHANGED <<axis, registered>>
        BY <3>4 DEF AxisEnds, Listening
      <4>2. QED BY <4>1 DEF Listening
    <3>5. CASE NoClearing
      <4>1. func = "clear init" /\ func' = "search" /\ zero' = zero
        BY <3>5 DEF NoClearing
      <4>2. zero' = {}
        BY <3>2, <4>1
      <4>3. QED BY <1>4, <4>1, <4>2 DEF Listening
    <3>6. ASSUME NEW from \in {"clear init", "search", "clear", "latch", "setpoint backoff"},
                 NEW d,
                 NEW to \in {"search", "clear", "latch", "setpoint backoff", "set position"},
                 AxisMove(from, d, to)
          PROVE  Listening'
      <4>1. func = from /\ func' = to /\ zero' = zero
        BY <3>6 DEF AxisMove
      <4>2. func \notin {"start", "finalize"} /\ func' \notin {"start", "finalize"}
        BY <4>1
      <4>3. zero' = {}
        BY <3>2, <4>1, <4>2
      <4>4. QED BY <1>4, <4>2, <4>3 DEF Listening
    <3>7. CASE PositionSet \/ PositionMove
      <4>1. func = "set position" /\ func' = "start" /\ registered' = FALSE /\ axis' = axis
        BY <3>7 DEF PositionSet, PositionMove
      <4>2. axis'
        BY <3>1, <4>1
      <4>3. QED BY <4>1, <4>2 DEF Listening
    <3>8. QED BY <2>2, <3>3, <3>4, <3>5, <3>6, <3>7 DEF StepKinds
  <2>3. QED BY <1>4, <2>1, <2>2, StepIs
<1>5. CASE Cycle /\ Homes /\ ~ Homes'
  <2>1. cycle' = cycle \/ registered' = FALSE
    BY <1>5, InCycle, MovesAre DEF Cycle, _homing_axis_start, _homing_axis_clear_init,
       _homing_axis_set_position, _homing_finalize_exit, HomingFinalizeExit
  <2>2. QED BY <1>5, <2>1 DEF Homes, Listening
<1>6. CASE Cycle /\ ~ Homes
  <2>1. RestOfPass
    BY <1>6, InCycle
  <2>2. CASE Homes'
    <3>1. registered' = registered /\ zero' = {}
      BY <1>6, <2>1, <2>2, InStart
    <3>2. QED BY <1>6, <3>1 DEF Listening
  <2>3. CASE ~ Homes'
    <3>1. ~ \E set \in BOOLEAN : HomingCycleStart(set)
      BY <2>3 DEF HomingCycleStart, Homes
    <3>2. registered' = registered
      BY <2>1, <3>1 DEF RestOfPass, hm
    <3>3. QED BY <1>6, <2>3, <3>2 DEF Listening
  <2>4. QED BY <2>2, <2>3
<1>7. CASE Motion
  BY <1>1, <1>7, MotionIs
<1>8. CASE Edge
  BY <1>1, <1>8, EdgeIs DEF hm
<1>9. CASE Outside \/ UNCHANGED vars
  BY <1>1, <1>9 DEF Outside, LimitSwitch, LockoutEnds, vars, hm, history
<1>10. QED BY <1>2, <1>3, <1>4, <1>5, <1>6, <1>7, <1>8, <1>9 DEF Next, MainLoop

---------------------------------------------------------------------------
(* From the edge of the latch to the position that is set *)

\* The parts of Latch, under its condition
Upwards == func = "setpoint backoff" /\ HasMove => queue[1].to > pos
LatchSteps == \/ func \in {"setpoint backoff", "set position"}
              \/ func \in {"start", "finalize"} /\ axis
LatchKnown == "latch" \in met => LatchSteps /\ Latching /\ Latched

LEMMA LatchParts == Latch <=> (Homes /\ mishaps = {} => Upwards /\ LatchKnown)
BY DEF Latch, Upwards, LatchSteps, LatchKnown

\* A move of the latch step is the cycle's own.
LEMMA LatchMove ==
  ASSUME MotionTypes, Shapes, Homes, func = "setpoint backoff", HasMove
  PROVE  MoveDone(queue) /\ waiting
BY HeadsAre DEF Shapes, Before

LEMMA Regroup == \A a \in Int : \A b \in Int : \A c \in Int : (a + b) - c = a + b - c
OBVIOUS
LEMMA OneMore == \A p \in Int : \A s \in Int : p = s + 1 => p - s \in {0, 1}
OBVIOUS

LEMMA LatchByMotion ==
  ASSUME MachineTypes, MotionTypes, Phases, Shapes, JobFirst, Homes, Motion, mishaps = {},
         Upwards, LatchKnown
  PROVE  Upwards' /\ LatchKnown'
<1>1. UNCHANGED <<model, op, surface, func, axis, met, holdType>> /\ (Move \/ Stop \/ RunCommand)
  BY MotionIs
<1>2. (LatchSteps' <=> LatchSteps) /\ (Alarming' <=> Alarming)
  BY <1>1 DEF LatchSteps, Alarming
<1>3. Latched => Latched'
  <2>1. hold = "OFF" => hold' = "OFF"
    BY DEF Motion, MoveOrCommand, Move, Stop, RunCommand, holding, Braking
  <2>2. QED BY <1>1, <1>2, <2>1 DEF Latched, Near
<1>4. CASE func # "setpoint backoff"
  BY <1>1, <1>2, <1>3, <1>4 DEF Upwards, LatchKnown, Latching
<1>5. CASE func = "setpoint backoff" /\ RunCommand
  <2>1. ~ HasMove /\ Eaten /\ pos' = pos
    BY <1>5, MotionEats DEF RunCommand
  <2>2. Done(queue)
    BY <2>1, HeadsAre DEF Shapes, Eaten
  <2>3. queue' = <<>>
    BY <2>1, <2>2, EatenShape DEF MotionTypes
  <2>4. ~ HasMove'
    BY <2>3 DEF HasMove
  <2>5. Latching => Latching'
    BY <1>1, <2>1, <2>4 DEF Latching, Near
  <2>6. QED BY <1>1, <1>2, <1>3, <2>4, <2>5 DEF Upwards, LatchKnown
<1>6. CASE func = "setpoint backoff" /\ Stop
  <2>1. HasMove /\ pos' = pos /\ hold \in Braking
    BY <1>6, MotionEats DEF Stop
  <2>2. MoveDone(queue)
    BY <1>6, <2>1, LatchMove
  <2>3. CASE holdType = "SKIP"
    <3>1. Done(queue') /\ queue' \in Seq(Blocks)
      BY <1>6, <2>2, <2>3, MotionEats, EatenShape DEF MotionTypes
    <3>2. ~ HasMove'
      BY <3>1, Heads DEF HasMove
    <3>3. Latching => Near(pos)
      <4>1. Latching => pos = surface \/ pos = surface + 1
        BY <1>6, <2>1 DEF Latching
      <4>2. pos \in Int /\ surface \in Int
        BY DEF MotionTypes
      <4>3. pos = surface \/ pos = surface + 1 => pos - surface \in {0, 1}
        BY <4>2
      <4>4. QED BY <4>1, <4>3 DEF Near
    <3>4. Latching => Latching'
      BY <1>1, <2>1, <3>2, <3>3 DEF Latching, Near
    <3>5. QED BY <1>1, <1>2, <1>3, <3>2, <3>4 DEF Upwards, LatchKnown
  <2>4. CASE holdType # "SKIP"
    <3>1. op = HoldAlarm /\ queue' = queue
      BY <1>6, <2>1, <2>4, BrakesFor, MotionEats
    <3>2. op # SkipReset
      BY <3>1, ListsDiffer
    <3>3. ~ Latching
      BY <1>6, <2>1, <3>2 DEF Latching
    <3>4. Upwards'
      BY <1>1, <2>1, <3>1 DEF Upwards, HasMove
    <3>5. QED BY <1>1, <3>3, <3>4 DEF LatchKnown
  <2>5. QED BY <2>3, <2>4
<1>7. CASE func = "setpoint backoff" /\ Move
  <2>1. HasMove /\ hold \in {"OFF", "SYNC"} /\ hold' = (IF hold = "SYNC" THEN "DECEL" ELSE hold)
        /\ pos' = (IF Head(queue).to > pos THEN pos + 1 ELSE pos - 1)
        /\ \/ queue' = queue /\ Head(queue).to # pos'
           \/ Eaten /\ Head(queue).to = pos'
    BY <1>7, MotionEats DEF Move
  <2>2. MoveDone(queue) /\ Head(queue) = queue[1] /\ queue[1] \in Blocks
    <3>1. MoveDone(queue) /\ Head(queue) = queue[1]
      BY <1>7, <2>1, LatchMove, HeadsAre DEF MoveDone, HasMove
    <3>2. 1 \in 1 .. Len(queue)
      BY <3>1 DEF MoveDone
    <3>3. QED BY <3>1, <3>2, SeqFacts DEF MotionTypes
  <2> DEFINE to == queue[1].to
  <2>3. to \in Int /\ pos \in Int /\ surface \in Int
    BY <2>2 DEF Blocks, MotionTypes
  <2>4. to > pos /\ pos' = pos + 1
    <3>1. to > pos
      BY <1>7, <2>1 DEF Upwards
    <3>2. QED BY <2>1, <2>2, <3>1
  <2>5. Upwards'
    <3>1. CASE queue' = queue /\ to # pos'
      <4>1. to > pos'
        <5> HIDE DEF to
        <5>1. QED BY <2>3, <2>4, <3>1
      <4>2. QED BY <3>1, <4>1 DEF Upwards
    <3>2. CASE Eaten
      <4>1. Done(queue') /\ queue' \in Seq(Blocks)
        BY <2>2, <3>2, EatenShape DEF MotionTypes
      <4>2. ~ HasMove'
        BY <4>1, Heads DEF HasMove
      <4>3. QED BY <4>2 DEF Upwards
    <3>3. QED BY <2>1, <2>2, <3>1, <3>2
  <2>6. ASSUME Latching PROVE Latching'
    <3>1. op = SkipReset /\ hold = "SYNC" /\ pos = surface
      BY <1>7, <2>1, <2>6 DEF Latching
    <3>2. hold' = "DECEL" /\ pos' = surface' + 1 /\ op' = SkipReset
      BY <1>1, <2>1, <2>4, <3>1
    <3>3. Near(pos)'
      <4>1. pos' \in Int /\ surface' \in Int /\ pos' = surface' + 1
        BY <1>1, <2>3, <2>4, <3>2
      <4>2. pos' - surface' \in {0, 1}
        BY <4>1, OneMore, Zenon
      <4>3. QED BY <4>2 DEF Near
    <3>4. QED BY <3>2, <3>3 DEF Latching
  <2>7. QED BY <1>1, <1>2, <1>3, <2>5, <2>6 DEF LatchKnown
<1>8. QED BY <1>1, <1>4, <1>5, <1>6, <1>7

LEMMA LatchBySteps ==
  ASSUME MachineTypes, MotionTypes, HomingTypes, Operations, Phases, Shapes, Positions,
         Homes, NextStep, StepKinds, mishaps = {}, mishaps' = {}, Upwards, LatchKnown
  PROVE  Upwards' /\ LatchKnown'
<1>1. /\ at = "cycle" /\ hold = "OFF" /\ hold' = "OFF" /\ pos' = pos /\ surface' = surface
      /\ met' = met /\ op' = op /\ ~ Alarming
  BY DEF NextStep
<1>2. op = <<>> /\ op' = <<>> /\ op # OnlyReset
  BY <1>1, NoOperation
<1>3. func # "start" => axis
  BY DEF Shapes
<1>4. CASE AxisStarts
  <2>1. func' = "clear init" /\ ~ LatchSteps
    BY <1>4 DEF AxisStarts, LatchSteps
  <2>2. QED BY <1>1, <2>1 DEF Upwards, LatchKnown
<1>5. CASE NoClearing \/ AxisMove("clear init", 0 - Backoff, "search")
           \/ AxisMove("search", Travel, "clear") \/ AxisMove("clear", 0 - Backoff, "latch")
  <2>1. func' \in {"search", "clear", "latch"} /\ func \in {"clear init", "search", "clear"}
    BY <1>5, MoveFuncs DEF NoClearing
  <2>2. ~ LatchSteps /\ func' # "setpoint backoff"
    BY <2>1 DEF LatchSteps
  <2>3. QED BY <1>1, <2>2 DEF Upwards, LatchKnown
<1>6. CASE AxisEnds \/ PositionSet \/ PositionMove
  <2>1. func' \in {"start", "finalize"} /\ axis'
    BY <1>3, <1>6 DEF AxisEnds, PositionSet, PositionMove
  <2>2. func' # "setpoint backoff" /\ func' # "set position" /\ LatchSteps'
    BY <2>1 DEF LatchSteps
  <2>3. QED BY <2>2 DEF Upwards, LatchKnown, Latching, Latched
<1>7. ASSUME func \in {"latch", "setpoint backoff"}
      PROVE  queue = <<>> /\ ~ HasMove /\ model = pos
  <2>1. queue = <<>>
    BY <1>7 DEF NextStep, Before
  <2>2. ~ HasMove /\ ~ Early
    BY <2>1, HeadsAre DEF Early
  <2>3. model = pos
    BY <1>1, <1>2, <2>1, <2>2 DEF Positions
  <2>4. QED BY <2>1, <2>2, <2>3
<1>8. CASE AxisMove("latch", Backoff, "setpoint backoff")
  <2>1. func = "latch" /\ func' = "setpoint backoff"
    BY <1>8, MoveFuncs
  <2>2. queue = <<>> /\ model = pos
    BY <1>7, <2>1
  <2>3. Backoff \in Int /\ Backoff > 0 /\ Backoff # 0 /\ model \in Int
    BY Distances DEF MotionTypes
  <2>4. MoveDone(queue') /\ queue'[1].to = model' /\ model' = model + Backoff
    BY <1>8, <2>2, <2>3, MoveQueued
  <2>5. model' > pos'
    BY <1>1, <2>2, <2>3, <2>4
  <2>6. Upwards'
    BY <2>4, <2>5 DEF Upwards
  <2>7. ~ LatchSteps
    BY <2>1 DEF LatchSteps
  <2>8. QED BY <1>1, <2>6, <2>7 DEF LatchKnown
<1>9. CASE AxisMove("setpoint backoff", 0 - ZeroBackoff, "set position")
  <2>1. func = "setpoint backoff" /\ func' = "set position"
    BY <1>9, MoveFuncs
  <2>2. ~ HasMove /\ model = pos
    BY <1>7, <2>1
  <2>3. ASSUME "latch" \in met PROVE LatchSteps' /\ Latching' /\ Latched'
    <3>1. Near(pos)
      BY <2>1, <2>2, <2>3 DEF LatchKnown, Latching
    <3>2. ZeroBackoff \in Int /\ 0 - ZeroBackoff \in Int /\ model \in Int
      BY Distances DEF MotionTypes
    <3>3. model' = model + (0 - ZeroBackoff)
      BY <1>9, <3>2, MoveQueued
    <3>4. model' + ZeroBackoff = pos
      BY <2>2, <3>2, <3>3
    <3>5. pos - surface \in {0, 1} /\ surface' = surface
      BY <1>1, <3>1 DEF Near
    <3>6. (model' + ZeroBackoff) - surface' \in {0, 1}
      BY <3>4, <3>5, Zenon
    <3>7. Latched'
      BY <1>1, <1>2, <3>6 DEF Latched, Near
    <3>8. QED BY <2>1, <3>7 DEF LatchSteps, Latching
  <2>4. QED BY <1>1, <2>1, <2>3 DEF Upwards, LatchKnown
<1>10. QED BY <1>4, <1>5, <1>6, <1>8, <1>9 DEF StepKinds

\* The edge that stops the latch is the closing of the switch.
LEMMA LatchByEdge ==
  ASSUME MachineTypes, MotionTypes, Operations, Phases, Contact, Homes, Edge, mishaps' = {},
         Upwards, LatchKnown
  PROVE  Upwards' /\ LatchKnown'
<1>1. UNCHANGED <<queue, pos, model, func, axis, surface>> /\ EdgeTo(level')
  BY EdgeIs DEF hm
<1>2. HasMove' <=> HasMove
  BY <1>1 DEF HasMove
<1>3. Upwards'
  BY <1>1, <1>2 DEF Upwards
<1>4. CASE ~ Handled
  <2>1. UNCHANGED <<hold, op, met>>
    BY <1>4, EdgeIs DEF holding
  <2>2. QED BY <1>1, <1>2, <1>3, <2>1 DEF LatchKnown, LatchSteps, Latching, Latched, Near, Alarming
<1>5. CASE Handled
  <2>1. Expected /\ level' = TRUE
    <3>1. "stray" \notin mishaps'
      OBVIOUS
    <3>2. level' \in BOOLEAN
      BY DEF Edge, EdgeTo
    <3>3. QED BY <1>5, <3>1, <3>2, EdgeIs DEF Handled
  <2>2. HasMove /\ hold = "OFF" /\ ~ inOperation /\ func \in {"clear", "setpoint backoff"}
    BY <2>1 DEF Expected, OwnMove
  <2>3. "latch" \notin met
    <3>1. func = "clear" => ~ LatchSteps
      BY DEF LatchSteps
    <3>2. func = "setpoint backoff" => ~ Latching
      BY <2>2 DEF Latching
    <3>3. QED BY <2>2, <3>1, <3>2 DEF LatchKnown
  <2>4. ASSUME "latch" \in met' PROVE LatchSteps' /\ Latching' /\ Latched'
    <3>1. ~ bouncing /\ func = "setpoint backoff"
      BY <1>5, <2>2, <2>3, <2>4, EdgeIs
    <3>2. Touching /\ ~ level
      BY <1>1, <2>1 DEF EdgeTo
    <3>3. pos = surface
      BY <3>1, <3>2 DEF Contact
    <3>4. Requested("SKIP", SkipReset)
      BY <1>5, EdgeIs
    <3>5. hold' = "SYNC" /\ op' = SkipReset
      BY <2>2, <3>4, HoldComes
    <3>6. QED BY <1>1, <1>2, <2>2, <3>1, <3>3, <3>5 DEF LatchSteps, Latching, Latched
  <2>5. QED BY <1>3, <2>4 DEF LatchKnown
<1>6. QED BY <1>4, <1>5

LEMMA LatchStay ==
  ASSUME MachineTypes, MotionTypes, HomingTypes, Operations, Phases, Shapes, JobFirst, Positions,
         Contact, Latch, [Next]_vars
  PROVE  Latch'
<1>1. CASE ~ Homes' \/ mishaps' # {}
  BY <1>1 DEF Latch
<1>2. CASE ~ Homes /\ Homes'
  <2>1. func' = "start" /\ met' = {}
    BY <1>2, CycleStarts, InStart
  <2>2. QED BY <2>1 DEF Latch
<1>3. ASSUME Upwards', LatchKnown' PROVE Latch'
  BY <1>3 DEF Latch, Upwards, LatchSteps, LatchKnown
<1>4. ASSUME Homes, mishaps = {} PROVE Upwards /\ LatchKnown
  BY <1>4, LatchParts
<1>5. ASSUME UNCHANGED <<queue, pos, model, func, axis, surface, met, hold, op>>,
             Upwards, LatchKnown
      PROVE  Latch'
  <2>1. HasMove' <=> HasMove
    BY <1>5 DEF HasMove
  <2>2. Upwards'
    BY <1>5, <2>1 DEF Upwards
  <2>3. LatchKnown'
    BY <1>5, <2>1 DEF LatchKnown, LatchSteps, Latching, Latched, Near, Alarming
  <2>4. QED BY <1>3, <2>2, <2>3
<1>6. CASE BeforeCycle /\ UNCHANGED <<hm, history>> /\ Homes /\ mishaps' = {}
  <2>1. UNCHANGED <<pos, func, axis, surface, met, mishaps>> /\ SameBlocks(queue, queue')
    BY <1>6, BeforeCycleIs
  <2>2. Upwards /\ LatchKnown
    BY <1>4, <1>6, <2>1
  <2>3. (HasMove' <=> HasMove) /\ (HasMove => queue'[1].to = queue[1].to)
    BY <2>1, SameShape DEF HasMove, MotionTypes
  <2>4. Upwards' /\ (LatchSteps' <=> LatchSteps)
    BY <2>1, <2>2, <2>3 DEF Upwards, LatchSteps
  <2>5. ASSUME Latching => Latching', Latched => Latched' PROVE Latch'
    BY <1>3, <2>1, <2>2, <2>4, <2>5 DEF LatchKnown
  <2>6. CASE Opens \/ Closes \/ SkipWaits \/ HoldWaits
    <3>1. UNCHANGED <<queue, model, op, hold>>
      BY <2>6 DEF Opens, Closes, SkipWaits, HoldWaits
    <3>2. QED BY <1>5, <2>1, <2>2, <3>1
  <2>7. CASE Plans
    <3>1. UNCHANGED <<queue, model, op>> /\ hold' = Noted
      BY <2>7 DEF Plans
    <3>2. HasMove \/ hold = "OFF" => hold' = hold
      BY <3>1 DEF Noted, HasMove, Braking
    <3>3. Latching => Latching'
      BY <2>1, <2>3, <3>1, <3>2 DEF Latching, Near
    <3>4. Latched => Latched'
      BY <2>1, <3>1, <3>2 DEF Latched, Near, Alarming
    <3>5. QED BY <2>5, <3>3, <3>4
  <2>8. CASE SkipEnds
    <3>1. op = SkipReset /\ hold = "STOPPED"
      BY <2>8 DEF SkipEnds
    <3>2. Latching => Latching'
      BY <2>1, <2>3, <3>1 DEF Latching, Near
    <3>3. Latched => Latched'
      BY <2>1, <3>1, ListsDiffer DEF Latched, Alarming
    <3>4. QED BY <2>5, <3>2, <3>3
  <2>9. CASE HoldBegins
    <3>1. op = HoldAlarm /\ op' = OnlyAlarm /\ model' = model
      BY <2>9 DEF HoldBegins
    <3>2. Latching => Latching'
      BY <2>1, <2>3, <3>1, ListsDiffer DEF Latching, Near
    <3>3. Latched => Latched'
      BY <2>1, <3>1 DEF Latched, Near, Alarming
    <3>4. QED BY <2>5, <3>2, <3>3
  <2>10. CASE Resets
    <3>1. op = OnlyReset
      BY <2>10 DEF Resets
    <3>2. Latching => Latching'
      BY <2>1, <2>3, <3>1, ListsDiffer DEF Latching, Near
    <3>3. Latched => Latched'
      BY <2>1, <3>1, ListsDiffer DEF Latched, Alarming
    <3>4. QED BY <2>5, <3>2, <3>3
  <2>11. QED BY <1>6, <2>6, <2>7, <2>8, <2>9, <2>10, LoopIs
<1>7. CASE _run_alarm /\ Homes /\ Homes' /\ mishaps' = {}
  <2>1. /\ UNCHANGED <<queue, pos, model, func, axis, surface, met, hold, mishaps>>
        /\ Again("alarm")
    BY <1>7 DEF _run_alarm, Homes, history, input
  <2>2. op' = op
    BY <2>1 DEF Again
  <2>3. QED BY <1>4, <1>5, <1>7, <2>1, <2>2
<1>8. CASE Cycle /\ Homes /\ Homes' /\ mishaps' = {}
  <2>1. CASE RestOfPass
    <3>1. UNCHANGED <<queue, pos, model, func, axis, met, hold, op, mishaps, surface>>
      BY <1>8, <2>1, InCycle DEF motion, hm, history, holding, input
    <3>2. QED BY <1>4, <1>5, <1>8, <3>1
  <2>2. CASE NextStep /\ StepKinds
    <3>1. mishaps = {}
      BY <1>8, <2>2 DEF NextStep
    <3>2. QED BY <1>3, <1>4, <1>8, <2>2, <3>1, LatchBySteps
  <2>3. QED BY <1>8, <2>1, <2>2, StepIs
<1>9. CASE Motion /\ Homes /\ mishaps' = {}
  <2>1. mishaps = {}
    BY <1>9, MotionIs
  <2>2. QED BY <1>3, <1>4, <1>9, <2>1, LatchByMotion
<1>10. CASE Edge /\ Homes /\ mishaps' = {}
  <2>1. mishaps = {}
    BY <1>10, EdgeIs
  <2>2. QED BY <1>3, <1>4, <1>10, <2>1, LatchByEdge
<1>11. CASE LimitSwitch /\ UNCHANGED <<hm, history>> /\ Homes /\ mishaps' = {}
  <2>1. /\ UNCHANGED <<queue, pos, model, func, axis, surface, met, mishaps, inOperation>>
        /\ at = "planner" /\ Requested("HOLD", HoldAlarm)
    BY <1>11, LimitIs DEF hm, history, input
  <2>2. Upwards /\ LatchKnown
    BY <1>4, <1>11, <2>1
  <2>3. CASE UNCHANGED holding
    BY <1>5, <2>1, <2>2, <2>3 DEF holding
  <2>4. CASE ~ UNCHANGED holding
    <3>1. /\ hold = "OFF" /\ ~ Alarming
          /\ \/ op = <<>> /\ ~ inOperation /\ op' = HoldAlarm
             \/ inOperation /\ op' = op /\ op \in {<<>>, OnlyReset}
      BY <1>11, <2>1, <2>4, HoldComes
    <3>2. op = OnlyReset => at = "run"
      BY <1>11, ListsDiffer DEF Phases
    <3>3. op' = HoldAlarm
      BY <2>1, <3>1, <3>2 DEF Operations
    <3>4. (HasMove' <=> HasMove) /\ (LatchSteps' <=> LatchSteps)
      BY <2>1 DEF HasMove, LatchSteps
    <3>5. Upwards'
      BY <2>1, <2>2, <3>4 DEF Upwards
    <3>6. Latching => Latching'
      BY <2>1, <3>1, <3>4 DEF Latching, Near
    <3>7. Latched => Latched'
      BY <2>1, <3>3 DEF Latched, Near, Alarming
    <3>8. QED BY <1>3, <2>1, <2>2, <3>4, <3>5, <3>6, <3>7 DEF LatchKnown
  <2>5. QED BY <2>3, <2>4
<1>12. CASE ((LockoutEnds /\ UNCHANGED <<hm, history>>) \/ UNCHANGED vars) /\ Homes /\ mishaps' = {}
  <2>1. UNCHANGED <<queue, pos, model, func, axis, surface, met, hold, op, mishaps>>
    BY <1>12 DEF LockoutEnds, vars, motion, holding, hm, history, input
  <2>2. QED BY <1>4, <1>5, <1>12, <2>1
<1>13. QED BY <1>1, <1>2, <1>6, <1>7, <1>8, <1>9, <1>10, <1>11, <1>12
       DEF Next, MainLoop, Outside

---------------------------------------------------------------------------
(* The invariant, and what it says *)

HomingInv == /\ MachineTypes /\ MotionTypes /\ HomingTypes
             /\ Operations /\ Phases /\ Shapes /\ JobFirst
             /\ Positions /\ Stopped /\ StartsRight /\ Between
             /\ Contact /\ Listening /\ Latch
             /\ LeavesNoTrace /\ HomedAtTheSwitch

LEMMA InvHolds == Init => HomingInv
<1> SUFFICES ASSUME Init PROVE HomingInv
  OBVIOUS
<1>1. /\ at = "planner" /\ queue = <<>> /\ pos = 0 /\ model = 0 /\ cycle = "NONE"
      /\ machine = "STOP" /\ hold = "OFF" /\ holdType = "HOLD" /\ flush = FALSE /\ start = FALSE
      /\ op = <<>> /\ inOperation = FALSE /\ surface \in Surfaces /\ level = Touching
      /\ bouncing = FALSE /\ waiting = FALSE /\ snapshot = 0
      /\ func = "start" /\ axis = FALSE /\ set_coordinates = TRUE
      /\ registered = FALSE /\ modes = "job" /\ zero = {}
  BY DEF Init, PinInit
<1>2. surface \in Int /\ Touching \in BOOLEAN
  BY <1>1, BoundAssumption DEF BoundAssumption, Touching
<1>3. MachineTypes /\ MotionTypes /\ HomingTypes
  <2>1. <<>> \in Seq(Actions) /\ <<>> \in Seq(Blocks) /\ 0 \in Int
    BY EmptySeq
  <2>2. MachineTypes
    BY <1>1, <2>1 DEF MachineTypes
  <2>3. MotionTypes
    BY <1>1, <1>2, <2>1, Zenon DEF MotionTypes
  <2>4. HomingTypes
    BY <1>1 DEF HomingTypes, Steps
  <2>5. QED BY <2>2, <2>3, <2>4
<1>4. ~ Homes
  BY <1>1 DEF Homes
<1>5. Phases /\ Shapes /\ JobFirst /\ Positions /\ Stopped /\ StartsRight /\ Latch
  BY <1>4 DEF Phases, Shapes, JobFirst, Positions, Stopped, StartsRight, Latch
<1>6. Operations /\ Between /\ Contact /\ Listening /\ LeavesNoTrace /\ HomedAtTheSwitch
  BY <1>1, <1>4 DEF Operations, Between, Contact, Listening, LeavesNoTrace, HomedAtTheSwitch
<1>7. QED BY <1>3, <1>5, <1>6 DEF HomingInv

\* The modes are changed and restored with the cycle.
LEMMA NoTraceStays ==
  ASSUME MachineTypes, MotionTypes, Operations, Listening', LeavesNoTrace, [Next]_vars
  PROVE  LeavesNoTrace'
<1>1. ~ Homes' => ~ registered'
  BY DEF Listening
<1>2. CASE UNCHANGED <<cycle, modes>>
  BY <1>1, <1>2 DEF LeavesNoTrace, Homes
<1>3. CASE BeforeCycle /\ UNCHANGED <<hm, history>>
  BY <1>2, <1>3, BeforeCycleIs DEF hm
<1>4. CASE _run_alarm
  BY <1>1, <1>4 DEF _run_alarm, LeavesNoTrace, Homes
<1>5. CASE Cycle
  <2>1. CASE _homing_axis_moves \/ _homing_axis_start \/ _homing_axis_set_position
    BY <1>2, <2>1, MovesAre DEF _homing_axis_start, _homing_axis_set_position
  <2>2. CASE _homing_axis_clear_init \/ _homing_finalize_exit
    BY <1>1, <1>2, <2>2 DEF _homing_axis_clear_init, _homing_finalize_exit, HomingFinalizeExit,
       LeavesNoTrace, Homes
  <2>3. CASE RestOfPass
    <3>1. (cycle' = cycle /\ modes' = modes) \/ cycle' = "HOMING"
      BY <2>3 DEF RestOfPass, HomingCycleStart, hm
    <3>2. QED BY <1>2, <3>1 DEF LeavesNoTrace
  <2>4. QED BY <1>5, <2>1, <2>2, <2>3 DEF Cycle
<1>6. CASE Motion
  BY <1>2, <1>6, MotionIs DEF Motion, hm
<1>7. CASE Edge
  BY <1>2, <1>7, EdgeIs DEF hm
<1>8. CASE Outside \/ UNCHANGED vars
  BY <1>2, <1>8 DEF Outside, LimitSwitch, LockoutEnds, vars, hm
<1>9. QED BY <1>3, <1>4, <1>5, <1>6, <1>7, <1>8 DEF Next, MainLoop

\* The position is set once, where the latch has left the machine.
LEMMA HomedStays ==
  ASSUME MachineTypes, MotionTypes, HomingTypes, Operations, Phases, Shapes, Positions,
         Listening, Latch, HomedAtTheSwitch, [Next]_vars
  PROVE  HomedAtTheSwitch'
<1>1. ASSUME UNCHANGED <<zero, met, surface>>, mishaps \subseteq mishaps' PROVE HomedAtTheSwitch'
  BY <1>1 DEF HomedAtTheSwitch
<1>2. CASE zero' = {}
  BY <1>2 DEF HomedAtTheSwitch
<1>3. CASE BeforeCycle /\ UNCHANGED <<hm, history>>
  BY <1>1, <1>3, BeforeCycleIs
<1>4. CASE _run_alarm
  BY <1>1, <1>4 DEF _run_alarm, history, input
<1>5. CASE Cycle /\ Homes /\ Homes'
  <2>1. CASE RestOfPass
    BY <1>1, <1>5, <2>1, InCycle DEF history, input
  <2>2. CASE NextStep /\ StepKinds
    <3>1. UNCHANGED <<met, surface>> /\ mishaps \subseteq mishaps'
      BY <2>2 DEF NextStep
    <3>2. CASE zero' = zero
      BY <1>1, <3>1, <3>2
    <3>3. CASE PositionSet
      <4>1. func = "set position" /\ zero' = {pos} /\ queue = <<>>
        BY <2>2, <3>3 DEF PositionSet, NextStep, Before
      <4>2. ASSUME "latch" \in met', mishaps' = {}
            PROVE  \A z \in zero' : z + ZeroBackoff - surface' \in {0, 1}
        <5>1. hold = "OFF" /\ "latch" \in met /\ mishaps = {} /\ ~ Alarming /\ op # OnlyReset
          BY <3>1, <2>2, <4>2 DEF NextStep
        <5>2. Near(model + ZeroBackoff)
          BY <1>5, <4>1, <5>1 DEF Latch, Latched
        <5>3. ~ HasMove /\ ~ Early
          BY <4>1, <5>1, HeadsAre DEF Early
        <5>4. model = pos
          BY <1>5, <4>1, <5>1, <5>3 DEF Positions
        <5>5. (pos + ZeroBackoff) - surface \in {0, 1}
          BY <5>2, <5>4 DEF Near
        <5>6. (pos + ZeroBackoff) - surface = pos + ZeroBackoff - surface
          BY Distances, Regroup DEF MotionTypes
        <5>7. ASSUME NEW z \in zero' PROVE z + ZeroBackoff - surface' \in {0, 1}
          <6>1. z = pos /\ surface' = surface
            BY <3>1, <4>1
          <6>2. QED BY <5>5, <5>6, <6>1, Zenon
        <5>8. QED BY <5>7
      <4>3. QED BY <4>2 DEF HomedAtTheSwitch
    <3>4. QED BY <2>2, <3>2, <3>3 DEF StepKinds, AxisStarts, AxisEnds, NoClearing, AxisMove,
             PositionMove
  <2>3. QED BY <1>5, <2>1, <2>2, StepIs
<1>6. CASE Cycle /\ Homes /\ ~ Homes'
  <2>1. _homing_axis_clear_init \/ _homing_finalize_exit
    <3>1. ~ RestOfPass /\ ~ _homing_axis_moves /\ ~ _homing_axis_start /\ ~ _homing_axis_set_position
      BY <1>6, InCycle, MovesAre DEF Homes, _homing_axis_start, _homing_axis_set_position
    <3>2. QED BY <1>6, <3>1 DEF Cycle
  <2>2. Untouched /\ zero' = zero
    BY <2>1 DEF _homing_axis_clear_init, _homing_finalize_exit
  <2>3. UNCHANGED <<zero, met, surface>> /\ mishaps \subseteq mishaps'
    BY <2>2 DEF Untouched, input
  <2>4. QED BY <1>1, <2>3
<1>7. CASE Cycle /\ ~ Homes
  <2>1. RestOfPass
    BY <1>7, InCycle
  <2>2. CASE \E set \in BOOLEAN : HomingCycleStart(set)
    BY <1>2, <2>2 DEF HomingCycleStart
  <2>3. CASE ~ \E set \in BOOLEAN : HomingCycleStart(set)
    BY <1>1, <2>1, <2>3 DEF RestOfPass, history, input
  <2>4. QED BY <2>2, <2>3
<1>8. CASE Motion
  BY <1>1, <1>8, MotionIs
<1>9. CASE Edge
  <2>1. UNCHANGED <<zero, surface>> /\ mishaps \subseteq mishaps'
    BY <1>9, EdgeIs
  <2>2. CASE ~ Handled
    BY <1>1, <1>9, <2>1, <2>2, EdgeIs
  <2>3. CASE Handled
    <3>1. zero = {}
      BY <2>3 DEF Handled, Listening
    <3>2. QED BY <1>2, <2>1, <3>1
  <2>4. QED BY <2>2, <2>3
<1>10. CASE Outside \/ UNCHANGED vars
  BY <1>1, <1>10 DEF Outside, LimitSwitch, LockoutEnds, vars, history, input
<1>11. QED BY <1>3, <1>4, <1>5, <1>6, <1>7, <1>8, <1>9, <1>10 DEF Next, MainLoop

LEMMA InvStays == HomingInv /\ [Next]_vars => HomingInv'
<1> SUFFICES ASSUME HomingInv, [Next]_vars PROVE HomingInv'
  OBVIOUS
<1> USE DEF HomingInv
<1>1. MachineTypes' /\ MotionTypes' /\ HomingTypes'
  BY MachineTypesStay, MotionTypesStay, HomingTypesStay
<1>2. Operations' /\ Phases'
  BY OperationsStay, PhasesStay
<1>3. Shapes' /\ JobFirst'
  BY ShapesStay, JobFirstStay
<1>4. Positions' /\ Stopped'
  BY PositionsStay, StoppedStay
<1>5. StartsRight' /\ Between'
  BY StartsRightStay, BetweenStay
<1>6. Contact' /\ Listening'
  BY ContactStay, ListeningStay
<1>7. Latch'
  BY LatchStay
<1>8. LeavesNoTrace' /\ HomedAtTheSwitch'
  BY <1>6, NoTraceStays, HomedStays
<1>9. QED BY <1>1, <1>2, <1>3, <1>4, <1>5, <1>6, <1>7, <1>8

LEMMA InvAlways == Spec => []HomingInv
BY InvHolds, InvStays, PTL DEF Spec

\* Every step of a homing cycle finds the Gcode model where the machine is, for
\* every surface of the switch, every length of the moves, and a cycle started
\* behind any move of the job that no edge has stopped: what the hold of the move
\* before has done to the model is over by then.
THEOREM StepsStartWhereItStands == Spec => []MovesStartWhereItStands
<1>1. HomingInv => MovesStartWhereItStands
  <2> SUFFICES ASSUME HomingInv, at = "cycle", Homes, ~ waiting, ~ HasMove, "early" \notin mishaps
               PROVE  model = pos
    BY DEF MovesStartWhereItStands, Homes
  <2>1. op # OnlyReset /\ ~ Alarming
    BY NoOperation DEF HomingInv
  <2>2. queue = <<>>
    BY HeadsAre DEF HomingInv, Shapes
  <2>3. ~ Early
    BY DEF Early
  <2>4. QED BY <2>1, <2>2, <2>3 DEF HomingInv, Positions
<1>2. QED BY <1>1, InvAlways, PTL

\* If the edge that stopped the latch was the closing of the switch, and no edge
\* came at another time, then the position that is set is the zero backoff away
\* from where the switch closes, and the braking of one step.
THEOREM ZeroIsAtTheSwitch == Spec => []HomedAtTheSwitch
<1>1. HomingInv => HomedAtTheSwitch
  BY DEF HomingInv
<1>2. QED BY <1>1, InvAlways, PTL

\* However a cycle ends, by its last step, an error at the first or an alarm,
\* no handler is left behind and the modal settings are the job's again.
THEOREM NoTraceIsLeft == Spec => []LeavesNoTrace
<1>1. HomingInv => LeavesNoTrace
  BY DEF HomingInv
<1>2. QED BY <1>1, InvAlways, PTL
=============================================================================
