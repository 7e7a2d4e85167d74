-------------------------- MODULE MCTimerScheduler --------------------------
(* Model-checking instances of TimerScheduler: t1 and t2 belong to s1, t3 to *)
(* s2; t2 is anchored to s2.                                                 *)
EXTENDS TimerScheduler

CONSTANTS t1, t2, t3, s1, s2

OwnerOf == [t \in Timers |-> IF t = t3 THEN s2 ELSE s1]

AnchorOf == [t \in Timers |-> IF t = t2 THEN s2 ELSE NoSession]
=============================================================================
