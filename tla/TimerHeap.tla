------------------------------ MODULE TimerHeap ------------------------------
(***************************************************************************)
(* The binary min-heap of packages/daemon/src/timers/timer-heap.ts: the    *)
(* array items, numbered from 0, and the map index from an id to its place *)
(* in the array.  h is the heap as a record of the two; an id is inserted  *)
(* again only after it has left (schedule() mints a fresh id each time).   *)
(***************************************************************************)
EXTENDS Integers, FiniteSets

CONSTANTS
  Timers,
  FireAt,  \* in [Timers -> Nat]
  None     \* no timer

VARIABLES
  h,       \* the heap
  result   \* the last call and what it returned

vars == <<h, result>>

Size(g) == Cardinality(DOMAIN g.items)

EmptyHeap == [items |-> [i \in {} |-> None], index |-> [t \in {} |-> 0]]

\* items[i] = t and index.set(t, i)
Put(g, i, t) ==
  [items |-> [j \in DOMAIN g.items \cup {i} |-> IF j = i THEN t ELSE g.items[j]],
   index |-> [u \in DOMAIN g.index \cup {t} |-> IF u = t THEN i ELSE g.index[u]]]

\* items.pop()
Pop(g) == [g EXCEPT !.items = [j \in 0 .. Size(g) - 2 |-> g.items[j]]]

\* index.delete(t)
Unindex(g, t) == [g EXCEPT !.index = [u \in DOMAIN g.index \ {t} |-> g.index[u]]]

Less(g, a, b) == FireAt[g.items[a]] < FireAt[g.items[b]]

\* Faulty variant: only one of the two index entries is updated.
SwapOne(g, i, j) ==
  LET x == g.items[i] y == g.items[j]
  IN [Put(g, i, y) EXCEPT !.items[j] = x]

Swap(g, i, j) ==
  LET x == g.items[i] y == g.items[j] IN Put(Put(g, i, y), j, x)

RECURSIVE BubbleUp(_, _)
BubbleUp(g, i) ==
  LET parent == (i - 1) \div 2
  IN IF i > 0 /\ Less(g, i, parent) THEN BubbleUp(Swap(g, i, parent), parent) ELSE g

\* Faulty variant: the right child is compared with the parent, not with the left.
SmallestRight(g, i) ==
  IF 2 * i + 2 < Size(g) /\ Less(g, 2 * i + 2, i) THEN 2 * i + 2
  ELSE IF 2 * i + 1 < Size(g) /\ Less(g, 2 * i + 1, i) THEN 2 * i + 1 ELSE i

\* The least of i and its children.
Smallest(g, i) ==
  LET left == 2 * i + 1
      right == 2 * i + 2
      s == IF left < Size(g) /\ Less(g, left, i) THEN left ELSE i
  IN IF right < Size(g) /\ Less(g, right, s) THEN right ELSE s

RECURSIVE SinkDown(_, _)
SinkDown(g, i) ==
  LET s == Smallest(g, i)
  IN IF s = i THEN g ELSE SinkDown(Swap(g, i, s), s)

-----------------------------------------------------------------------------

Init == h = EmptyHeap /\ result = <<"new">>

Insert(t) ==
  /\ t \notin DOMAIN h.index
  /\ h' = BubbleUp(Put(h, Size(h), t), Size(h))
  /\ result' = <<"insert", t>>

ExtractMin ==
  IF Size(h) = 0 THEN result' = <<"extractMin", None>> /\ UNCHANGED h
  ELSE LET last == h.items[Size(h) - 1]
           g == Pop(Unindex(h, h.items[0]))
       IN /\ result' = <<"extractMin", h.items[0]>>
          /\ h' = IF Size(g) > 0 THEN SinkDown(Put(g, 0, last), 0) ELSE g

\* Faulty variant: the entry that fills the gap only sinks.
RemoveSinking(t) ==
  IF t \notin DOMAIN h.index THEN result' = <<"removeById", t, None>> /\ UNCHANGED h
  ELSE LET idx == h.index[t]
           last == h.items[Size(h) - 1]
           g == Pop(Unindex(h, t))
       IN /\ result' = <<"removeById", t, h.items[idx]>>
          /\ h' = IF idx < Size(g) THEN SinkDown(Put(g, idx, last), idx) ELSE g

\* The entry that fills the gap may have to rise or to sink.
RemoveById(t) ==
  IF t \notin DOMAIN h.index THEN result' = <<"removeById", t, None>> /\ UNCHANGED h
  ELSE LET idx == h.index[t]
           last == h.items[Size(h) - 1]
           g == Pop(Unindex(h, t))
           up == BubbleUp(Put(g, idx, last), idx)
       IN /\ result' = <<"removeById", t, h.items[idx]>>
          /\ h' = IF idx < Size(g) THEN SinkDown(up, up.index[last]) ELSE g

Next == ExtractMin \/ \E t \in Timers : Insert(t) \/ RemoveById(t)

Spec == Init /\ [][Next]_vars

-----------------------------------------------------------------------------
(* Properties.                                                             *)

\* index and items stay each other's inverse through every swap, so that removeById
\* never takes another timer's entry out.
IndexIsExact ==
  /\ DOMAIN h.items = 0 .. Cardinality(DOMAIN h.index) - 1
  /\ \A t \in DOMAIN h.index : h.index[t] \in DOMAIN h.items /\ h.items[h.index[t]] = t

\* No entry is due before its parent in the array, the least of all first: also
\* after an entry is taken out of the middle and the last one fills its place.
HeapOrder ==
  \A i \in DOMAIN h.items \ {0} : FireAt[h.items[(i - 1) \div 2]] <= FireAt[h.items[i]]

Abstract == INSTANCE TimerSet WITH entries <- {h.items[i] : i \in DOMAIN h.items}

\* The heap is a set from which the earliest entry, or a named one, is taken: every
\* operation returns and removes exactly what the set's would.
ImplementsTimerSet == Abstract!Spec
=============================================================================
