------------------------------ MODULE MCTimers ------------------------------
(* Model-checking instance of the timers: the scheduler of TimerScheduler,    *)
(* whose heap is a set of entries, and the array heap of TimerHeap, which is  *)
(* to behave as that set.  The two share no variable and are checked side by  *)
(* side: in a behaviour one of them runs and the other stays as it began.     *)
(* The heap has seven timers, two of them due at the same time: three full    *)
(* levels.                                                                    *)
EXTENDS MCTimerScheduler, TLC

CONSTANTS e1, e2, e3, e4, e5, e6, e7, NoTimer

VARIABLES h, result,
          part      \* the one that runs in this behaviour

HeapTimers == {e1, e2, e3, e4, e5, e6, e7}
HeapDue == e1 :> 1 @@ e2 :> 2 @@ e3 :> 3 @@ e4 :> 3 @@ e5 :> 4 @@ e6 :> 5 @@ e7 :> 6

Heap == INSTANCE TimerHeap WITH Timers <- HeapTimers, FireAt <- HeapDue, None <- NoTimer

MCInit == Init /\ Heap!Init /\ part \in {"scheduler", "heap"}

MCNext ==
  /\ \/ part = "scheduler" /\ Next /\ UNCHANGED <<h, result>>
     \/ part = "heap" /\ Heap!Next /\ UNCHANGED vars
  /\ UNCHANGED part

MCSpec == MCInit /\ [][MCNext]_<<vars, h, result, part>> /\ Fairness

\* The next timer to fire is watched and found: a timeout is armed for the head
\* of the scheduler's heap, and in the array heap no entry is due before its
\* parent and the index is exact, also after removeById.
HeadsFound == TypeOK /\ HeadIsArmed /\ Heap!IndexIsExact /\ Heap!HeapOrder

\* TimerHeap: every operation returns and removes what the set's would.
ImplementsTimerSet == Heap!ImplementsTimerSet
=============================================================================
