------------------------------ MODULE TimerSet ------------------------------
(***************************************************************************)
(* What TimerHeap promises (packages/daemon/src/timers/timer-heap.ts): a   *)
(* set of timers from which the one due first, or one named by its id, can *)
(* be taken.  TimerScheduler is written against this view of the heap.     *)
(***************************************************************************)
EXTENDS Integers

CONSTANTS Timers, FireAt, None

VARIABLES
  entries,   \* the timers in the heap
  result     \* the last call and what it returned

vars == <<entries, result>>

\* The entries that may be first.
Earliest == {t \in entries : \A u \in entries : FireAt[t] <= FireAt[u]}

Init == entries = {} /\ result = <<"new">>

Insert(t) ==
  /\ t \notin entries
  /\ entries' = entries \cup {t}
  /\ result' = <<"insert", t>>

ExtractMin ==
  IF entries = {} THEN result' = <<"extractMin", None>> /\ UNCHANGED entries
  ELSE \E t \in Earliest : entries' = entries \ {t} /\ result' = <<"extractMin", t>>

RemoveById(t) ==
  /\ entries' = entries \ {t}
  /\ result' = <<"removeById", t, IF t \in entries THEN t ELSE None>>

Next == ExtractMin \/ \E t \in Timers : Insert(t) \/ RemoveById(t)

Spec == Init /\ [][Next]_vars
=============================================================================
