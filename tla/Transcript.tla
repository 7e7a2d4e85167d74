----------------------------- MODULE Transcript -----------------------------
(* The rows of a session's transcript and the operations that rewrite them  *)
(* (sessions/transcript-store.ts, transcript-to-chat.ts,                    *)
(* transcript-compact.ts, models/src/compaction.ts). Of a row only its      *)
(* role, the call it answers and the calls it asks for are kept: that is    *)
(* what a provider checks before it accepts a request.                      *)
EXTENDS Integers, Sequences, FiniteSets, Functions

User == [role |-> "user", id |-> 0, calls |-> {}]
Say == [role |-> "assistant", id |-> 0, calls |-> {}]
Ask(ids) == [role |-> "assistant", id |-> 0, calls |-> ids]
Answer(id) == [role |-> "tool", id |-> id, calls |-> {}]

RowType(Ids) ==
  [role : {"user", "assistant", "tool"}, id : Ids \union {0}, calls : SUBSET Ids]

\* Rows that answer the calls of a set, in the order of the batch.
Answers(ids) ==
  LET rank(i) == Cardinality({j \in ids : j <= i})
  IN  [n \in 1..Cardinality(ids) |-> Answer(CHOOSE i \in ids : rank(i) = n)]

\* The calls of the last assistant row that the tool rows behind it leave open.
Unanswered(rows) ==
  LET last == {i \in DOMAIN rows : /\ rows[i].calls # {}
                                   /\ \A k \in DOMAIN rows : k > i => rows[k].role = "tool"}
  IN  UNION {rows[i].calls \ {rows[k].id : k \in {j \in DOMAIN rows : j > i}} : i \in last}

\* Faulty variant: unanswered calls are left as they are.
repairNothing(rows) == rows

repairOrphaned(rows) == rows \o Answers(Unanswered(rows))

\* TranscriptStore.append: every row but a tool result first closes what is open.
append(rows, row) == Append(IF row.role = "tool" THEN rows ELSE repairOrphaned(rows), row)

appendAll(rows, new) ==
  LET upTo[n \in 0..Len(new)] == IF n = 0 THEN rows ELSE append(upTo[n - 1], new[n])
  IN  upTo[Len(new)]

\* loadSessionTranscriptAsModelChat reads pages until it holds cap rows: the oldest ones.
Loaded(rows, cap) == SubSeq(rows, 1, IF Len(rows) < cap THEN Len(rows) ELSE cap)

\* Leading tool rows whose call is not in the tail are cut off.
trimOrphanedToolResults(tail) ==
  LET claimed == UNION {tail[i].calls : i \in DOMAIN tail}
      stops == {i \in DOMAIN tail : tail[i].role # "tool" \/ tail[i].id \in claimed}
  IN  IF stops = {} THEN <<>>
      ELSE SubSeq(tail, CHOOSE i \in stops : \A j \in stops : i <= j, Len(tail))

\* rest.slice(-preserve) keeps all rows when preserve is 0.
Kept(rows, preserve) ==
  trimOrphanedToolResults(
    IF preserve = 0 THEN rows ELSE SubSeq(rows, Len(rows) - preserve + 1, Len(rows)))

\* What the summary replaces: every row in front of the tail.
Middle(rows, preserve) ==
  IF Len(rows) <= preserve THEN 0 ELSE Len(rows) - Len(Kept(rows, preserve))

Shrinks(rows, preserve) == Middle(rows, preserve) > 0

\* compactTranscriptIfNeeded: one summary row and the tail.
Compacted(rows, preserve) == <<Say>> \o Kept(rows, preserve)

\* What a provider demands: the rows right behind an assistant row with calls answer
\* each of them once, and a tool row answers the assistant row its block belongs to.
WellFormed(rows) ==
  /\ \A i \in DOMAIN rows :
       LET n == Cardinality(rows[i].calls)
       IN  /\ i + n <= Len(rows)
           /\ rows[i].calls = {rows[k].id : k \in i + 1 .. i + n}
  /\ \A i \in DOMAIN rows : rows[i].role = "tool" =>
       \E j \in 1..i - 1 : rows[i].id \in rows[j].calls /\ i <= j + Cardinality(rows[j].calls)
=============================================================================
