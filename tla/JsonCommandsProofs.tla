------------------------ MODULE JsonCommandsProofs ------------------------
(***************************************************************************)
(* What holds of the ring of JSON texts for every size of the ring, every  *)
(* set of lines and every bound.  JsonInv relates the ring, its counter    *)
(* and the queue at every step of the main loop; what it says is limited   *)
(* to the behaviours without the mishaps that make it false.               *)
(***************************************************************************)
EXTENDS JsonCommands, SequenceTheorems, TLAPS

\* k places behind place i
Place(i, k) == (i + k) % Slots

\* Has the text of the command that comes next been written?  Has w moved on?
Written == at \in {"load", "store", "queue"}
Stepped == IF at = "queue" THEN 1 ELSE 0

\* What the main loop believes to have left for the rest of its line
Room == IF at = "store" THEN loaded ELSE available + Stepped

\* Every place is free or has the text of a queued command, and is counted so.
Exact == available + Len(queue) + Stepped = Slots

\* The count may be too low.  The text of every command is at its place.
InOrder ==
  /\ available + Len(queue) + Stepped <= Slots
  /\ at = "store" => loaded <= available
  /\ Len(line) <= Room
  /\ w = Place(r, Len(queue) + Stepped)
  /\ \A k \in 1 .. Len(queue) : text[Place(r, k - 1)] = queue[k].own
  /\ Written => text[Place(r, Len(queue))] = texts
  /\ ran.read = ran.own

JsonInv ==
  /\ TypeOK
  /\ mishaps \subseteq {"squeezed"} => Exact
  /\ mishaps \subseteq {"miscounted"} => InOrder

---------------------------------------------------------------------------
(* The places *)

LEMMA PlaceIsPlace ==
  ASSUME NEW i \in 0 .. Slots - 1, NEW k \in 0 .. Slots
  PROVE  Place(i, k) \in 0 .. Slots - 1
BY JsonAssumption DEF Place

LEMMA NextPlace ==
  ASSUME NEW i \in 0 .. Slots - 1, NEW k \in 0 .. Slots - 1
  PROVE  /\ nx(i) \in 0 .. Slots - 1
         /\ nx(Place(i, k)) = Place(i, k + 1)
         /\ Place(nx(i), k) = Place(i, k + 1)
<1>1. /\ i + k \in 0 .. 2 * Slots - 1
      /\ (i + k) % Slots = IF i + k < Slots THEN i + k ELSE i + k - Slots
  BY JsonAssumption
<1>2. (i + 1) % Slots = IF i + 1 < Slots THEN i + 1 ELSE 0
  BY JsonAssumption
<1>3. (i + (k + 1)) % Slots = IF i + k + 1 < Slots THEN i + k + 1
                              ELSE IF i + k + 1 < 2 * Slots THEN i + k + 1 - Slots ELSE 0
  BY JsonAssumption
<1>4. nx(i) \in 0 .. Slots - 1
  BY <1>2, JsonAssumption DEF nx
<1>5. nx(Place(i, k)) = Place(i, k + 1)
  BY <1>1, <1>3, JsonAssumption DEF Place, nx
<1>6. Place(nx(i), k) = Place(i, k + 1)
  BY <1>2, <1>3, JsonAssumption DEF Place, nx
<1>7. QED BY <1>4, <1>5, <1>6

\* Two offsets of less than a turn name two places.
LEMMA PlaceInjective ==
  ASSUME NEW i \in 0 .. Slots - 1, NEW j \in 0 .. Slots - 1,
         NEW k \in 0 .. Slots - 1, Place(i, j) = Place(i, k)
  PROVE  j = k
<1>1. \A m \in 0 .. Slots - 1 :
        (i + m) % Slots = IF i + m < Slots THEN i + m ELSE i + m - Slots
  BY JsonAssumption
<1>2. QED BY <1>1, JsonAssumption DEF Place

LEMMA PlaceAtZero ==
  ASSUME NEW i \in 0 .. Slots - 1
  PROVE  Place(i, 0) = i
<1>1. ASSUME NEW n \in Nat \ {0}, NEW m \in 0 .. n - 1 PROVE m % n = m
  BY <1>1
<1>2. i + 0 = i /\ Slots \in Nat \ {0}
  BY JsonAssumption
<1>3. QED BY <1>1, <1>2 DEF Place

---------------------------------------------------------------------------
(* Types *)

LEMMA InitInv == Init => JsonInv
<1>1. SUFFICES ASSUME Init PROVE JsonInv
  OBVIOUS
<1>2. TypeOK
  <2>1. 0 \in 0 .. Slots - 1 /\ Slots \in Int
    BY JsonAssumption
  <2>2. line \in Seq(BOOLEAN) /\ queue \in Seq(Commands)
    BY <1>1, EmptySeq DEF Init
  <2>3. text \in [0 .. Slots - 1 -> Nat]
    BY <1>1 DEF Init
  <2>4. ran \in [own : Nat, read : Nat] /\ mishaps \subseteq Mishaps
    BY <1>1 DEF Init
  <2>5. at \in {"idle", "write", "load", "store", "queue"} /\ (at = "idle" <=> line = <<>>)
    BY <1>1 DEF Init
  <2>6. /\ r \in 0 .. Slots - 1 /\ w \in 0 .. Slots - 1 /\ held \in BOOLEAN
        /\ available \in Int /\ loaded \in Int /\ texts \in Nat /\ holds \in Nat
    <3>1. /\ r = 0 /\ w = 0 /\ available = Slots /\ loaded = 0 /\ held = FALSE
          /\ texts = 0 /\ holds = 0
      BY <1>1, Zenon DEF Init
    <3>2. held \in BOOLEAN /\ r \in 0 .. Slots - 1 /\ w \in 0 .. Slots - 1
      BY <2>1, <3>1, Zenon
    <3>3. available \in Int /\ loaded \in Int /\ texts \in Nat /\ holds \in Nat
      BY <2>1, <3>1
    <3>4. QED BY <3>2, <3>3
  <2>7. QED BY <2>2, <2>3, <2>4, <2>5, <2>6 DEF TypeOK
<1>3. Place(0, 0) = 0
  <2>1. 0 \in 0 .. Slots - 1
    BY JsonAssumption
  <2>2. QED BY <2>1, PlaceAtZero
<1>4. Len(queue) = 0 /\ Len(line) = 0 /\ Stepped = 0 /\ Room = Slots /\ ~ Written
  BY <1>1, JsonAssumption DEF Init, Stepped, Room, Written
<1>5. Exact
  BY <1>1, <1>4, JsonAssumption DEF Init, Exact
<1>6. InOrder
  <2>1. available + Len(queue) + Stepped <= Slots /\ Len(line) <= Room
    BY <1>1, <1>4, JsonAssumption DEF Init
  <2>2. w = Place(r, Len(queue) + Stepped)
    BY <1>1, <1>3, <1>4 DEF Init
  <2>3. QED BY <1>1, <1>4, <2>1, <2>2 DEF Init, InOrder
<1>7. QED BY <1>2, <1>5, <1>6 DEF JsonInv

LEMMA TypeStep == TypeOK /\ [Next]_vars => TypeOK'
<1>1. SUFFICES ASSUME TypeOK, [Next]_vars PROVE TypeOK'
  OBVIOUS
<1>2. \A i \in 0 .. Slots - 1 : nx(i) \in 0 .. Slots - 1
  BY JsonAssumption DEF nx
<1>3. CASE DispatchLine
  BY <1>1, <1>3, JsonAssumption DEF DispatchLine, TypeOK, ring, Mishaps
<1>4. CASE WriteText
  BY <1>1, <1>4 DEF WriteText, TypeOK
<1>5. CASE LoadAvailable
  BY <1>1, <1>5 DEF LoadAvailable, TypeOK, ring
<1>6. CASE StoreAvailable
  <2>1. available' \in Int /\ w' \in 0 .. Slots - 1 /\ r' \in 0 .. Slots - 1
    BY <1>1, <1>2, <1>6 DEF StoreAvailable, TypeOK
  <2>2. mishaps' \subseteq Mishaps
    BY <1>1, <1>6 DEF StoreAvailable, TypeOK, Mishaps
  <2>3. QED BY <1>1, <1>6, <2>1, <2>2 DEF StoreAvailable, TypeOK
<1>7. CASE QueueCommand
  <2>1. line # <<>> /\ line \in Seq(BOOLEAN)
    BY <1>1, <1>7 DEF QueueCommand, TypeOK
  <2>2. /\ Head(line) \in BOOLEAN
        /\ Tail(line) \in Seq(BOOLEAN)
    BY <2>1, HeadTailProperties
  <2>3. queue' \in Seq(Commands)
    BY <1>1, <1>7, <2>2, AppendProperties DEF QueueCommand, TypeOK, Commands
  <2>4. QED BY <1>1, <1>7, <2>2, <2>3 DEF QueueCommand, TypeOK, ring
<1>8. CASE Exec
  <2>1. Head(queue) \in Commands /\ Tail(queue) \in Seq(Commands)
    BY <1>1, <1>8, HeadTailProperties DEF Exec, TypeOK
  <2>2. ran' \in [own : Nat, read : Nat]
    BY <1>1, <1>8, <2>1 DEF Exec, TypeOK, Commands
  <2>3. available' \in Int /\ w' \in 0 .. Slots - 1 /\ r' \in 0 .. Slots - 1
    BY <1>1, <1>2, <1>8 DEF Exec, TypeOK, free_buffer
  <2>4. QED BY <1>1, <1>8, <2>1, <2>2, <2>3 DEF Exec, TypeOK, main
<1>9. CASE ResetP2
  <2>1. available' \in Int /\ w' \in 0 .. Slots - 1 /\ r' \in 0 .. Slots - 1
    BY <1>9, JsonAssumption DEF ResetP2, reset
  <2>2. mishaps' \subseteq Mishaps
    BY <1>1, <1>9 DEF ResetP2, TypeOK, Mishaps
  <2>3. QED BY <1>1, <1>9, <2>1, <2>2 DEF ResetP2, reset, TypeOK, main
<1>10. CASE Resume
  BY <1>1, <1>10 DEF Resume, TypeOK, ring, main
<1>11. CASE Flush
  <2>1. available' \in Int /\ w' \in 0 .. Slots - 1 /\ r' \in 0 .. Slots - 1
    BY <1>11, JsonAssumption DEF Flush, reset
  <2>2. queue' \in Seq(Commands) /\ ran' \in [own : Nat, read : Nat]
    BY <1>11, EmptySeq DEF Flush
  <2>3. UNCHANGED <<text, at, loaded, line, texts>> /\ held' = FALSE /\ mishaps' = {}
    BY <1>11 DEF Flush, reset, main
  <2>4. holds' \in Nat
    BY <1>1, <1>11 DEF Flush, TypeOK
  <2>5. QED BY <1>1, <2>1, <2>2, <2>3, <2>4 DEF TypeOK
<1>12. CASE UNCHANGED vars
  BY <1>1, <1>12 DEF vars, ring, main, TypeOK
<1>13. QED
  BY <1>1, <1>3, <1>4, <1>5, <1>6, <1>7, <1>8, <1>9, <1>10, <1>11, <1>12 DEF Next
---------------------------------------------------------------------------
(* The main loop *)

LEMMA DispatchStep ==
  ASSUME JsonInv, TypeOK', DispatchLine PROVE JsonInv'
<1>1. UNCHANGED <<text, r, w, available, queue, texts, ran>>
  BY DEF DispatchLine, ring
<1>2. at = "idle" /\ at' = "write" /\ line = <<>> /\ available # 0
  BY DEF DispatchLine, JsonInv, TypeOK, mp_planner_is_full
<1>3. /\ mishaps \subseteq mishaps'
      /\ "squeezed" \notin mishaps' => ~ (Len(line') > Max({1, available}))
  <2> DEFINE over == Len(line') > Max({1, available})
  <2>1. mishaps' = mishaps \cup {m \in {"squeezed"} : over}
    BY DEF DispatchLine
  <2> HIDE DEF over
  <2>2. mishaps \subseteq mishaps' /\ ("squeezed" \notin mishaps' => ~ over)
    BY <2>1
  <2>3. QED BY <2>2 DEF over
<1>4. /\ available \in Int /\ Len(line) = 0 /\ Len(line') \in Nat
      /\ Len(queue) \in Nat /\ Slots \in Nat
  BY <1>2, LenProperties, JsonAssumption DEF JsonInv, TypeOK
<1>5. mishaps' \subseteq {"squeezed"} => Exact'
  BY <1>1, <1>2, <1>3 DEF JsonInv, Exact, Stepped
<1>6. ASSUME mishaps' \subseteq {"miscounted"} PROVE InOrder'
  <2>1. InOrder
    BY <1>3, <1>6 DEF JsonInv
  <2>2. available >= 1
    BY <1>2, <1>4, <2>1 DEF InOrder, Room, Stepped
  <2>3. Max({1, available}) = available
    BY <1>4, <2>2 DEF Max
  <2>4. Len(line') <= available
    BY <1>3, <1>4, <1>6, <2>3
  <2>5. QED BY <1>1, <1>2, <1>4, <2>1, <2>4 DEF InOrder, Room, Stepped, Written
<1>7. QED BY <1>5, <1>6 DEF JsonInv

LEMMA WriteStep ==
  ASSUME JsonInv, TypeOK', WriteText PROVE JsonInv'
<1>1. /\ UNCHANGED <<r, w, available, line, queue, ran, mishaps>>
      /\ at = "write" /\ at' = "load"
      /\ texts' = texts + 1 /\ text' = [text EXCEPT ![w] = texts']
  BY DEF WriteText
<1>2. mishaps' \subseteq {"squeezed"} => Exact'
  BY <1>1 DEF JsonInv, Exact, Stepped
<1>3. ASSUME mishaps' \subseteq {"miscounted"} PROVE InOrder'
  <2>1. InOrder
    BY <1>1, <1>3 DEF JsonInv
  <2>2. /\ Len(queue) \in Nat /\ Len(line) \in Nat \ {0}
        /\ available \in Int /\ r \in 0 .. Slots - 1 /\ Slots \in Nat
    BY <1>1, LenProperties, EmptySeq, JsonAssumption DEF JsonInv, TypeOK
  <2>3. Len(queue) \in 0 .. Slots - 1
    BY <1>1, <2>1, <2>2 DEF InOrder, Room, Stepped
  <2>4. w = Place(r, Len(queue)) /\ w \in 0 .. Slots - 1
    BY <1>1, <2>1, <2>2 DEF InOrder, Stepped, JsonInv, TypeOK
  <2>5. ASSUME NEW k \in 1 .. Len(queue)
        PROVE  text'[Place(r, k - 1)] = text[Place(r, k - 1)]
    <3>1. k - 1 \in 0 .. Slots - 1 /\ k - 1 # Len(queue) /\ k - 1 \in 0 .. Slots
      BY <2>2, <2>3
    <3>2. Place(r, k - 1) # w /\ Place(r, k - 1) \in 0 .. Slots - 1
      BY <2>2, <2>3, <2>4, <3>1, PlaceInjective, PlaceIsPlace
    <3>3. QED BY <1>1, <3>2 DEF JsonInv, TypeOK
  <2>6. text'[Place(r, Len(queue))] = texts'
    BY <1>1, <2>4 DEF JsonInv, TypeOK
  <2>7. QED BY <1>1, <2>1, <2>5, <2>6 DEF InOrder, Room, Stepped, Written
<1>4. QED BY <1>2, <1>3 DEF JsonInv

LEMMA LoadStep ==
  ASSUME JsonInv, TypeOK', LoadAvailable PROVE JsonInv'
<1>1. /\ UNCHANGED <<text, r, w, available, line, queue, texts, ran, mishaps>>
      /\ at = "load" /\ at' = "store" /\ loaded' = available
      /\ available \in Int
  BY DEF LoadAvailable, ring, JsonInv, TypeOK
<1>2. mishaps' \subseteq {"squeezed"} => Exact'
  BY <1>1 DEF JsonInv, Exact, Stepped
<1>3. mishaps' \subseteq {"miscounted"} => InOrder'
  BY <1>1 DEF JsonInv, InOrder, Room, Stepped, Written
<1>4. QED BY <1>2, <1>3 DEF JsonInv

LEMMA StoreStep ==
  ASSUME JsonInv, TypeOK', StoreAvailable PROVE JsonInv'
<1>1. /\ UNCHANGED <<text, r, line, queue, texts, ran>>
      /\ at = "store" /\ at' = "queue"
      /\ available' = loaded - 1 /\ w' = nx(w)
      /\ mishaps \subseteq mishaps'
      /\ "miscounted" \notin mishaps' => available = loaded
  BY DEF StoreAvailable
<1>2. /\ Len(queue) \in Nat /\ Len(line) \in Nat \ {0}
      /\ available \in Int /\ loaded \in Int /\ r \in 0 .. Slots - 1 /\ Slots \in Nat
  BY <1>1, LenProperties, EmptySeq, JsonAssumption DEF JsonInv, TypeOK
<1>3. mishaps' \subseteq {"squeezed"} => Exact'
  BY <1>1, <1>2 DEF JsonInv, Exact, Stepped
<1>4. ASSUME mishaps' \subseteq {"miscounted"} PROVE InOrder'
  <2>1. InOrder
    BY <1>1, <1>4 DEF JsonInv
  <2>2. Len(queue) \in 0 .. Slots - 1
    BY <1>1, <1>2, <2>1 DEF InOrder, Room, Stepped
  <2>3. w' = Place(r, Len(queue) + 1)
    BY <1>1, <1>2, <2>1, <2>2, NextPlace DEF InOrder, Stepped
  <2>4. QED BY <1>1, <1>2, <2>1, <2>3 DEF InOrder, Room, Stepped, Written
<1>5. QED BY <1>3, <1>4 DEF JsonInv

LEMMA QueueStep ==
  ASSUME JsonInv, TypeOK', QueueCommand PROVE JsonInv'
<1> DEFINE c == [own |-> texts, wait |-> Head(line)]
<1>1. /\ UNCHANGED <<text, r, w, available, texts, ran, mishaps>>
      /\ at = "queue" /\ at' \in {"idle", "write"}
      /\ queue' = Append(queue, c) /\ line' = Tail(line)
  BY DEF QueueCommand, ring
<1>2. /\ Len(line) \in Nat \ {0} /\ Len(line') = Len(line) - 1
      /\ Head(line) \in BOOLEAN /\ available \in Int
      /\ c \in Commands /\ queue \in Seq(Commands) /\ Len(queue) \in Nat
  BY <1>1, LenProperties, EmptySeq, HeadTailProperties DEF JsonInv, TypeOK, Commands
<1>3. /\ Len(queue') = Len(queue) + 1
      /\ \A k \in 1 .. Len(queue) : queue'[k] = queue[k]
      /\ queue'[Len(queue) + 1] = c
  BY <1>1, <1>2, AppendProperties
<1>4. mishaps' \subseteq {"squeezed"} => Exact'
  BY <1>1, <1>2, <1>3 DEF JsonInv, Exact, Stepped
<1>5. ASSUME mishaps' \subseteq {"miscounted"} PROVE InOrder'
  <2>1. InOrder
    BY <1>1, <1>5 DEF JsonInv
  <2>2. \A k \in 1 .. Len(queue') : text'[Place(r', k - 1)] = queue'[k].own
    <3>1. SUFFICES ASSUME NEW k \in 1 .. Len(queue')
                   PROVE  text[Place(r, k - 1)] = queue'[k].own
      BY <1>1
    <3>2. CASE k \in 1 .. Len(queue)
      BY <1>3, <2>1, <3>2 DEF InOrder
    <3>3. CASE k = Len(queue) + 1
      BY <1>1, <1>2, <1>3, <2>1, <3>3 DEF InOrder, Written
    <3>4. QED BY <1>2, <1>3, <3>2, <3>3
  <2>3. Stepped = 1 /\ Stepped' = 0 /\ ~ Written' /\ at' # "store"
    BY <1>1 DEF Stepped, Written
  <2>4. w' = Place(r', Len(queue') + Stepped')
    BY <1>1, <1>2, <1>3, <2>1, <2>3 DEF InOrder
  <2>5. available' + Len(queue') + Stepped' <= Slots /\ Len(line') <= Room'
    <3>1. Len(line) <= available + 1 /\ Room' = available + 0
      BY <1>1, <2>1, <2>3 DEF InOrder, Room
    <3>2. Len(line') <= Room'
      BY <1>2, <3>1
    <3>3. available' + Len(queue') + Stepped' <= Slots
      BY <1>1, <1>2, <1>3, <2>1, <2>3, JsonAssumption DEF InOrder
    <3>4. QED BY <3>2, <3>3
  <2>6. QED BY <1>1, <2>1, <2>2, <2>3, <2>4, <2>5 DEF InOrder
<1>6. QED BY <1>4, <1>5 DEF JsonInv

---------------------------------------------------------------------------
(* The interrupts and the holds *)

LEMMA ExecStep ==
  ASSUME JsonInv, TypeOK', Exec PROVE JsonInv'
<1>1. /\ UNCHANGED <<text, w, at, loaded, line, texts, mishaps>>
      /\ queue # <<>> /\ queue' = Tail(queue)
      /\ ran' = [own |-> Head(queue).own, read |-> text[r]]
      /\ r' = nx(r) /\ available' = available + 1
  BY DEF Exec, main, free_buffer
<1>2. /\ queue \in Seq(Commands) /\ Len(queue) \in Nat \ {0}
      /\ Len(queue') = Len(queue) - 1 /\ Head(queue) = queue[1]
      /\ \A k \in 1 .. Len(queue') : queue'[k] = queue[k + 1]
      /\ available \in Int /\ loaded \in Int /\ r \in 0 .. Slots - 1 /\ Slots \in Nat
      /\ Len(line) \in Nat /\ (at # "idle" => Len(line) >= 1)
  BY <1>1, LenProperties, EmptySeq, HeadTailProperties, JsonAssumption
     DEF JsonInv, TypeOK
<1>3. mishaps' \subseteq {"squeezed"} => Exact'
  BY <1>1, <1>2 DEF JsonInv, Exact, Stepped
<1>4. ASSUME mishaps' \subseteq {"miscounted"} PROVE InOrder'
  <2>1. InOrder
    BY <1>1, <1>4 DEF JsonInv
  <2>2. /\ Len(queue) + Stepped \in 1 .. Slots /\ Len(queue) \in 1 .. Slots
        /\ Len(line) <= Room
    BY <1>1, <1>2, <2>1 DEF InOrder, Room, Stepped
  <2>3. \A k \in 0 .. Slots - 1 : Place(r', k) = Place(r, k + 1)
    BY <1>1, <1>2, NextPlace
  <2>4. \A k \in 1 .. Len(queue') : text'[Place(r', k - 1)] = queue'[k].own
    <3>1. SUFFICES ASSUME NEW k \in 1 .. Len(queue')
                   PROVE  text[Place(r', k - 1)] = queue[k + 1].own
      BY <1>1, <1>2
    <3>2. /\ k - 1 \in 0 .. Slots - 1 /\ (k - 1) + 1 = (k + 1) - 1
          /\ k + 1 \in 1 .. Len(queue)
      BY <1>2, <2>2
    <3>3. Place(r', k - 1) = Place(r, (k + 1) - 1)
      BY <2>3, <3>2
    <3>4. QED BY <2>1, <3>2, <3>3 DEF InOrder
  <2>5. /\ Len(queue') \in 0 .. Slots - 1 /\ Len(queue') + 1 = Len(queue)
        /\ Len(queue') + Stepped \in 0 .. Slots - 1
        /\ (Len(queue') + Stepped) + 1 = Len(queue) + Stepped
    BY <1>2, <2>2 DEF Stepped
  <2>6. w' = Place(r', Len(queue') + Stepped') /\ Stepped' = Stepped
    BY <1>1, <2>1, <2>3, <2>5 DEF InOrder, Stepped
  <2>7. Written' => text'[Place(r', Len(queue'))] = texts'
    BY <1>1, <2>1, <2>3, <2>5 DEF InOrder, Written
  <2>8. Place(r, 1 - 1) = r
    <3>1. 1 - 1 = 0 /\ r \in 0 .. Slots - 1
      BY <1>2
    <3>2. QED BY <3>1, PlaceAtZero
  <2>9. ran'.read = ran'.own
    BY <1>1, <1>2, <2>1, <2>8 DEF InOrder
  <2>10. Len(line') <= Room' /\ (at' = "store" => loaded' <= available')
    BY <1>1, <1>2, <2>1 DEF InOrder, Room, Stepped
  <2>11. available' + Len(queue') + Stepped' <= Slots
    BY <1>1, <1>2, <2>1 DEF InOrder, Stepped
  <2>12. QED BY <2>4, <2>6, <2>7, <2>9, <2>10, <2>11 DEF InOrder
<1>5. QED BY <1>3, <1>4 DEF JsonInv

\* An empty ring is in order when the queue is empty as well.
LEMMA EmptyRing ==
  ASSUME JsonInv, TypeOK', reset, at = "idle", at' = "idle", line' = line,
         queue' = <<>>, ran'.read = ran'.own
  PROVE  JsonInv'
<1>1. Len(queue') = 0 /\ Len(line') = 0 /\ r' = 0 /\ w' = 0 /\ available' = Slots
  BY DEF JsonInv, TypeOK, reset
<1>2. Place(0, 0) = 0
  BY JsonAssumption DEF Place
<1>3. QED
  BY <1>1, <1>2, JsonAssumption DEF JsonInv, Exact, InOrder, Room, Stepped, Written

LEMMA ResetStep ==
  ASSUME JsonInv, TypeOK', ResetP2 PROVE JsonInv'
<1>1. /\ at = "idle" /\ reset /\ UNCHANGED <<at, line, queue, ran>>
      /\ mishaps \subseteq mishaps'
      /\ queue # <<>> => "reset" \in mishaps'
  BY DEF ResetP2, main
<1>2. CASE queue = <<>>
  <2>1. CASE ran.read = ran.own
    BY <1>1, <1>2, <2>1, EmptyRing
  <2>2. CASE ran.read # ran.own
    <3>1. ~ mishaps' \subseteq {"miscounted"}
      BY <1>1, <2>2 DEF JsonInv, InOrder
    <3>2. Exact'
      BY <1>1, <1>2, JsonAssumption DEF reset, Exact, Stepped
    <3>3. QED BY <3>1, <3>2 DEF JsonInv
  <2>3. QED BY <2>1, <2>2
<1>3. CASE queue # <<>>
  BY <1>1, <1>3 DEF JsonInv
<1>4. QED BY <1>2, <1>3

LEMMA FlushStep ==
  ASSUME JsonInv, TypeOK', Flush PROVE JsonInv'
BY EmptyRing DEF Flush, main

---------------------------------------------------------------------------
(* The invariant *)

LEMMA InvStep == JsonInv /\ [Next]_vars => JsonInv'
<1>1. SUFFICES ASSUME JsonInv, [Next]_vars PROVE JsonInv'
  OBVIOUS
<1>2. TypeOK'
  BY <1>1, TypeStep DEF JsonInv
<1>3. CASE UNCHANGED <<text, r, w, available, at, loaded, line, queue, texts, ran, mishaps>>
  BY <1>1, <1>2, <1>3 DEF JsonInv, Exact, InOrder, Room, Stepped, Written
<1>4. CASE Resume
  BY <1>3, <1>4 DEF Resume, ring, main
<1>5. CASE UNCHANGED vars
  BY <1>3, <1>5 DEF vars, ring, main
<1>6. QED
  BY <1>1, <1>2, <1>4, <1>5, DispatchStep, WriteStep, LoadStep, StoreStep,
     QueueStep, ExecStep, ResetStep, FlushStep DEF Next

LEMMA InvHolds == Spec => []JsonInv
BY InitInv, InvStep, PTL DEF Spec

\* The variables of the ring and of the main loop keep their types.
THEOREM TypeCorrect == Spec => []TypeOK
<1>1. JsonInv => TypeOK
  BY DEF JsonInv
<1>2. QED BY <1>1, InvHolds, PTL

\* Every command reads the text that was written for it, for every size of the
\* ring and every set of lines, however the interrupts come between the steps of
\* the main loop, as long as no line has more texts than there is room for and
\* no hold empties the ring under the queue.
THEOREM CommandsReadTheirOwnText == Spec => []OwnText
<1>1. JsonInv => OwnText
  <2>1. SUFFICES ASSUME JsonInv, mishaps \subseteq {"miscounted"}
                 PROVE  /\ ran.read = ran.own
                        /\ \A i \in DOMAIN Waiting :
                             text[(r + i - 1) % Slots] = Waiting[i].own
    BY DEF OwnText
  <2>2. InOrder /\ queue \in Seq(Commands) /\ texts \in Nat /\ r \in Int
    BY <2>1 DEF JsonInv, TypeOK
  <2> DEFINE last == [own |-> texts]
             tail == IF Written THEN <<last>> ELSE <<>>
             all == Commands \cup {last}
  <2>3. queue \in Seq(all) /\ tail \in Seq(all) /\ Waiting = queue \o tail
    <3>1. queue \in Seq(all)
      BY <2>2, SeqMonotonic
    <3>2. <<last>> \in Seq(all) /\ <<>> \in Seq(all)
      OBVIOUS
    <3>3. QED BY <3>1, <3>2 DEF Waiting, Written
  <2>4. /\ Len(queue) \in Nat /\ DOMAIN Waiting = 1 .. Len(queue) + Len(tail)
        /\ \A i \in 1 .. Len(queue) + Len(tail) :
             Waiting[i] = IF i <= Len(queue) THEN queue[i] ELSE tail[i - Len(queue)]
    BY <2>3, ConcatProperties, LenProperties
  <2>5. ASSUME NEW i \in DOMAIN Waiting
        PROVE  text[Place(r, i - 1)] = Waiting[i].own
    <3>1. CASE i <= Len(queue)
      BY <2>2, <2>4, <3>1 DEF InOrder
    <3>2. CASE i > Len(queue)
      <4>1. Written /\ Len(tail) = 1 /\ tail[1] = last /\ i = Len(queue) + 1
        BY <2>4, <3>2
      <4>2. i - 1 = Len(queue) /\ Waiting[i] = last
        BY <2>4, <4>1
      <4>3. QED BY <2>2, <4>1, <4>2 DEF InOrder
    <3>3. QED BY <2>4, <3>1, <3>2
  <2>6. \A i \in DOMAIN Waiting : (r + i - 1) % Slots = Place(r, i - 1)
    <3>1. \A i \in DOMAIN Waiting : i \in Int
      BY <2>4
    <3>2. \A i \in Int : r + i - 1 = r + (i - 1)
      BY <2>2
    <3>3. QED BY <3>1, <3>2 DEF Place
  <2>7. QED BY <2>2, <2>5, <2>6 DEF InOrder
<1>2. QED BY <1>1, InvHolds, PTL

\* The ring gets all its places back, for every size of the ring and every set of
\* lines, whatever room the lines needed, unless an interrupt was lost on the
\* counter or a hold emptied the ring under the queue.
THEOREM AllRoomComesBack == Spec => []RoomComesBack
<1>1. JsonInv => RoomComesBack
  BY DEF JsonInv, TypeOK, RoomComesBack, Exact, Stepped
<1>2. QED BY <1>1, InvHolds, PTL
===========================================================================
