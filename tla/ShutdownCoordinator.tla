------------------------- MODULE ShutdownCoordinator -------------------------
(***************************************************************************)
(* The graceful shutdown of packages/daemon/src/shutdown.ts: drains are    *)
(* registered with or without a group; requestShutdown runs them group by  *)
(* group, the drains of a group in parallel, each raced against one common *)
(* deadline, and ends even if a drain never does.                          *)
(***************************************************************************)
EXTENDS Integers

CONSTANTS
  Drains,  \* the drains that may be registered
  Groups   \* the group numbers callers pass

ASSUME GroupsAssumption == Groups \subseteq Nat

VARIABLES
  phase,              \* phase, with the awaits of requestShutdown told apart
  group,              \* the group each drain is in, NoGroup before it is registered
  explicit,           \* drains registered with an explicit group
  order,              \* the place of each drain in the list
  count,              \* registrations so far
  nextImplicitGroup,
  plan,               \* the drains sorted into groups when the draining began
  left,               \* the groups still to run
  current,            \* the drains of the group being run
  result,             \* what became of each drain
  late,               \* the deadline has passed
  timedOut

registry == <<group, explicit, order, count, nextImplicitGroup>>
coordinator == <<phase, registry, plan, left, current, result, late, timedOut>>

NoGroup == -1

Registered == {d \in Drains : group[d] # NoGroup}

-----------------------------------------------------------------------------

CoordinatorInit ==
  /\ phase = "running"
  /\ group = [d \in Drains |-> NoGroup] /\ explicit = {}
  /\ order = [d \in Drains |-> 0] /\ count = 0 /\ nextImplicitGroup = 0
  /\ plan = {} /\ left = {} /\ current = {}
  /\ result = [d \in Drains |-> "none"]
  /\ late = FALSE /\ timedOut = FALSE

\* registerDrain, with a group or without (g = NoGroup).
RegisterDrain(d, g) ==
  /\ phase # "done"
  /\ group[d] = NoGroup /\ order[d] = 0
  /\ group' = [group EXCEPT ![d] = IF g = NoGroup THEN nextImplicitGroup ELSE g]
  /\ nextImplicitGroup' = IF g = NoGroup THEN nextImplicitGroup + 1 ELSE nextImplicitGroup
  /\ explicit' = IF g = NoGroup THEN explicit ELSE explicit \cup {d}
  /\ order' = [order EXCEPT ![d] = count + 1]
  /\ count' = count + 1
  /\ UNCHANGED <<phase, plan, left, current, result, late, timedOut>>

\* The function registerDrain returned takes the drain off the list; it does
\* nothing to one already sorted into its group.
Unregister(d) ==
  /\ d \in Registered \ plan
  /\ group' = [group EXCEPT ![d] = NoGroup]
  /\ UNCHANGED <<phase, explicit, order, count, nextImplicitGroup, plan, left, current,
                 result, late, timedOut>>

\* requestShutdown up to the await of onStopAccepting; a second call returns.
RequestShutdown ==
  /\ phase = "running"
  /\ phase' = "stopAccepting"
  /\ UNCHANGED <<registry, plan, left, current, result, late, timedOut>>

\* onStopAccepting is over, well or not: the deadline is set, the timer armed, and
\* the drains on the list are sorted into groups.
BeginDraining ==
  /\ phase = "stopAccepting"
  /\ phase' = "draining"
  /\ plan' = Registered
  /\ left' = {group[d] : d \in Registered}
  /\ UNCHANGED <<registry, current, result, late, timedOut>>

\* The drains of group g in the plan.
Members(g) == {d \in plan : group[d] = g}

\* groupOrder: g was registered first among the groups still to run.
IsNext(g) ==
  \E d \in Members(g) : \A e \in plan : group[e] \in left => order[d] <= order[e]

\* Every drain of the current group has a result.
GroupSettled == \A d \in current : result[d] # "running"

\* Faulty variant: the next group does not wait for this one.
StartGroupEagerly(g) ==
  /\ phase = "draining"
  /\ ~ timedOut
  /\ g \in left /\ IsNext(g)
  /\ left' = left \ {g}
  /\ current' = Members(g)
  /\ result' = [d \in Drains |-> IF d \in Members(g)
                                 THEN IF late THEN "deadline" ELSE "running"
                                 ELSE result[d]]
  /\ timedOut' = late
  /\ UNCHANGED <<phase, registry, plan, late>>

\* Faulty variant: the time left is not looked at.
StartGroupBlindly(g) ==
  /\ phase = "draining"
  /\ GroupSettled
  /\ ~ timedOut
  /\ g \in left /\ IsNext(g)
  /\ left' = left \ {g}
  /\ current' = Members(g)
  /\ result' = [d \in Drains |-> IF d \in Members(g) THEN "running" ELSE result[d]]
  /\ UNCHANGED <<phase, registry, plan, late, timedOut>>

\* The next turn of the loop over groupOrder: past the deadline nothing is run.
StartGroup(g) ==
  /\ phase = "draining"
  /\ GroupSettled
  /\ ~ timedOut
  /\ g \in left /\ IsNext(g)
  /\ left' = left \ {g}
  /\ current' = Members(g)
  /\ result' = [d \in Drains |-> IF d \in Members(g)
                                 THEN IF late THEN "deadline" ELSE "running"
                                 ELSE result[d]]
  /\ timedOut' = late
  /\ UNCHANGED <<phase, registry, plan, late>>

\* A drain resolves or rejects before the deadline does.
DrainEnds(d) ==
  /\ result[d] = "running"
  /\ \E r \in {"ok", "failed"} : result' = [result EXCEPT ![d] = r]
  /\ UNCHANGED <<phase, registry, plan, left, current, late, timedOut>>

\* Faulty variant: a drain is given all the time it wants.
DrainExpiresNever(d) == FALSE /\ UNCHANGED coordinator

\* The deadline wins the race in runDrain; the drain goes on unobserved.
DrainExpires(d) ==
  /\ late
  /\ result[d] = "running"
  /\ result' = [result EXCEPT ![d] = "deadline"]
  /\ timedOut' = TRUE
  /\ UNCHANGED <<phase, registry, plan, left, current, late>>

DeadlinePasses ==
  /\ phase = "draining"
  /\ ~ late
  /\ late' = TRUE
  /\ UNCHANGED <<phase, registry, plan, left, current, result, timedOut>>

\* The timer that sets timedOut.
TimerFires ==
  /\ phase = "draining"
  /\ late /\ ~ timedOut
  /\ timedOut' = TRUE
  /\ UNCHANGED <<phase, registry, plan, left, current, result, late>>

\* Faulty variant: the loop is left with groups to run.
EndDrainingEarly ==
  /\ phase = "draining"
  /\ GroupSettled
  /\ phase' = "marking"
  /\ UNCHANGED <<registry, plan, left, current, result, late, timedOut>>

\* The loop is over; markInterruptedRunsFailed is called.
EndDraining ==
  /\ phase = "draining"
  /\ GroupSettled
  /\ left = {} \/ timedOut
  /\ phase' = "marking"
  /\ UNCHANGED <<registry, plan, left, current, result, late, timedOut>>

\* markInterruptedRunsFailed is over, well or not.
FinishShutdown ==
  /\ phase = "marking"
  /\ phase' = "done"
  /\ UNCHANGED <<registry, plan, left, current, result, late, timedOut>>

CoordinatorNext ==
  \/ \E d \in Drains, g \in Groups \cup {NoGroup} : RegisterDrain(d, g)
  \/ \E d \in Drains : Unregister(d) \/ DrainEnds(d) \/ DrainExpires(d)
  \/ \E g \in left : StartGroup(g)
  \/ RequestShutdown \/ BeginDraining \/ DeadlinePasses \/ TimerFires
  \/ EndDraining \/ FinishShutdown

CoordinatorSpec == CoordinatorInit /\ [][CoordinatorNext]_coordinator

\* The coordinator's own steps are taken, the two callbacks of the daemon return,
\* and time passes.  Nothing is assumed of the drains.
Fairness ==
  /\ WF_coordinator(BeginDraining) /\ WF_coordinator(DeadlinePasses)
  /\ WF_coordinator(TimerFires) /\ WF_coordinator(EndDraining)
  /\ WF_coordinator(FinishShutdown)
  /\ WF_coordinator(\E g \in left : StartGroup(g))
  /\ \A d \in Drains : WF_coordinator(DrainExpires(d))

CoordinatorFairSpec == CoordinatorSpec /\ Fairness

-----------------------------------------------------------------------------
(* Properties.                                                             *)

\* The types of the variables.
CoordinatorTypeOK ==
  /\ phase \in {"running", "stopAccepting", "draining", "marking", "done"}
  /\ group \in [Drains -> Nat \cup {NoGroup}]
  /\ order \in [Drains -> Nat] /\ count \in Nat /\ nextImplicitGroup \in Nat
  /\ explicit \subseteq Drains /\ plan \subseteq Drains /\ current \subseteq Drains
  /\ left \subseteq Nat
  /\ result \in [Drains -> {"none", "running", "ok", "failed", "deadline"}]
  /\ late \in BOOLEAN /\ timedOut \in BOOLEAN

\* Two drains under way at the same time are in the same group: a group begins
\* only when every drain of the one before has settled.
GroupsInTurn ==
  \A d, e \in Drains : result[d] = "running" /\ result[e] = "running" => group[d] = group[e]

\* A shutdown that ends in time has run every drain that was on the list when the
\* draining began, to its end.
NoneSkipped ==
  phase \in {"marking", "done"} /\ ~ timedOut => \A d \in plan : result[d] \in {"ok", "failed"}

\* Once the deadline has passed no further drain is started.
NoLateStart ==
  [][late => \A d \in Drains : result'[d] = "running" => result[d] = "running"]_coordinator

\* A shutdown that was requested is finished, even if drains hang.
ShutdownEnds == phase # "running" ~> phase = "done"

\* "Groups execute in ascending numeric order": a drain under way has none of a
\* smaller group still waiting.
AscendingGroups ==
  \A d \in current : result[d] = "running" => \A g \in left : group[d] < g

\* "Drains registered without this option each get a unique implicit group and
\* execute sequentially": one without a group never runs beside another drain.
ImplicitRunsAlone ==
  \A d \in Drains \ explicit, e \in Drains :
    result[d] = "running" /\ result[e] = "running" => d = e
=============================================================================
