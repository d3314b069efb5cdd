----------------------------- MODULE TwoLanes -----------------------------
(***************************************************************************)
(* What the controller expects of a serial device: lines come in; controls *)
(* overtake the lines of data that are still waiting, and nothing          *)
(* overtakes a control; data stays in order.  Everything that came before  *)
(* the control that was read last can be thrown away, or everything that   *)
(* has come.                                                               *)
(***************************************************************************)
EXTENDS Integers, SequencesExt

VARIABLES items,     \* the lines that wait, in the order they came
          returned,  \* the line that was read last
          ahead      \* how many lines waited before that control, or -1

vars == <<items, returned, ahead>>

Line(control, text) == [control |-> control, text |-> text]

Init == items = <<>> /\ returned = Line(FALSE, <<>>) /\ ahead = -1

Come == /\ Len(items') = Len(items) + 1 /\ Front(items') = items
        /\ UNCHANGED <<returned, ahead>>

TakeControl ==
  \E i \in DOMAIN items :
    /\ items[i].control /\ \A j \in 1 .. i - 1 : ~ items[j].control
    /\ returned' = items[i] /\ items' = RemoveAt(items, i)
    /\ ahead' = i - 1

TakeData ==
  /\ items # <<>> /\ ~ Head(items).control
  /\ returned' = Head(items) /\ items' = Tail(items)
  /\ ahead' = -1

Forget == ahead' = -1 /\ UNCHANGED <<items, returned>>

FlushToCommand ==
  /\ ahead >= 0
  /\ items' = SubSeq(items, ahead + 1, Len(items))
  /\ ahead' = -1 /\ UNCHANGED returned

Flush == items' = <<>> /\ ahead' \in {0, ahead} /\ UNCHANGED returned

Next == Come \/ TakeControl \/ TakeData \/ Forget \/ FlushToCommand \/ Flush
Spec == Init /\ [][Next]_vars
=============================================================================
