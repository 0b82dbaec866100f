------------------------- MODULE ColumnarOperators -------------------------
(***************************************************************************)
(* The stateful operators of a columnar topology: the (windowed) GroupBy   *)
(* of columnar/ops.go and the event-time join of columnar/join.go.         *)
(*                                                                         *)
(* A batch is its schema and its rows.  A row has a key, the value of its  *)
(* timestamp slot, whether that slot is null, and the records it was made  *)
(* of.  A group keeps the rows folded into it, in order: they determine    *)
(* every aggregate.                                                        *)
(***************************************************************************)
EXTENDS Int64, SequencesExt

CONSTANTS
  WindowMillis, RetentionMillis,   \* of the windowed GroupBy
  JoinWindow,                      \* of the join, in milliseconds
  NullKey

(* What the constructors accept: WindowedGroupByWithRetention, normalized. *)
ASSUME OperatorAssumption ==
  /\ WindowMillis \in 1 .. MaxInt64
  /\ RetentionMillis \in WindowMillis .. MaxInt64
  /\ JoinWindow \in 0 .. MaxInt64

Batch(schema, rows) == [schema |-> schema, rows |-> rows]

(* Metadata columns are dropped by a GroupBy. *)
HasTimestamp(batch) == batch.schema # "groups"

(* The greatest non-null timestamp of the rows and of start. *)
LatestOf(start, rows) ==
  Max({start} \union {rows[i].ts : i \in {j \in DOMAIN rows : ~rows[j].null}})

---------------------------------------------------------------------------
(* groupByOperation *)

NewGroupBy == [groups |-> <<>>, order |-> <<>>, streamTime |-> MinInt64]

WindowStart(ts) == Wrap(floorDiv(ts, WindowMillis) * WindowMillis)
WindowEnd(ts)   == Wrap(WindowStart(ts) + WindowMillis)

(* The group of a row: its key, and its window. *)
GroupKey(windowed, row) ==
  IF windowed THEN <<row.key, WindowStart(row.ts), WindowEnd(row.ts)>>
  ELSE <<row.key>>

(* pruneExpired: what it returns, and what it keeps of the order. *)
RetainedAfter(windowed, streamTime) ==
  IF ~windowed \/ streamTime = MinInt64 THEN MinInt64
  ELSE saturatingSubtract(streamTime, RetentionMillis)

(* Defect: a group is kept while its window has not expired at its start.  *)
KeptByStart(windowed, order, cutoff) ==
  SelectSeq(order, LAMBDA g : ~windowed \/ g[2] >= cutoff)

Kept(windowed, order, cutoff) ==
  SelectSeq(order, LAMBDA g : ~windowed \/ g[3] >= cutoff)

(* The keys in the order of their first appearance. *)
FirstAppearances(keys) ==
  LET first == SelectSeq([i \in DOMAIN keys |-> i],
                         LAMBDA i : \A j \in 1 .. i - 1 : keys[j] # keys[i])
  IN [n \in DOMAIN first |-> keys[first[n]]]

(* The rows that are not too late. *)
Taken(windowed, rows, cutoff) ==
  SelectSeq(rows, LAMBDA r : ~windowed \/ WindowEnd(r.ts) >= cutoff)

(* The stream advances over the whole batch, then expired groups are       *)
(* pruned, then the rows are folded in up to the first that fails.         *)
ApplyGroupBy(windowed, op, rows) ==
  LET time   == IF windowed THEN LatestOf(op.streamTime, rows) ELSE op.streamTime
      cutoff == RetainedAfter(windowed, time)
      kept   == Kept(windowed, op.order, cutoff)
      failed == {i \in DOMAIN rows : windowed /\ rows[i].null}
      folded == IF failed = {} THEN rows ELSE SubSeq(rows, 1, Min(failed) - 1)
      taken  == Taken(windowed, folded, cutoff)
      keys   == [i \in DOMAIN taken |-> GroupKey(windowed, taken[i])]
      fresh  == SelectSeq(FirstAppearances(keys), LAMBDA g : g \notin Range(kept))
  IN [ok |-> failed = {},
      op |-> [groups |-> [g \in Range(kept \o fresh) |->
                (IF g \in Range(kept) THEN op.groups[g] ELSE <<>>)
                \o SelectSeq(taken, LAMBDA r : GroupKey(windowed, r) = g)],
              order |-> kept \o fresh,
              streamTime |-> time]]

(* The current result: one row for every group, in order. *)
GroupRows(op) ==
  [n \in DOMAIN op.order |->
     [records |-> FlattenSeq([i \in DOMAIN op.groups[op.order[n]] |->
                                op.groups[op.order[n]][i].records]),
      key |-> op.order[n], ts |-> 0, null |-> TRUE, fails |-> "no"]]

---------------------------------------------------------------------------
(* statefulJoinProcessor *)

NewJoin == [left |-> <<>>, right |-> <<>>, streamTime |-> MinInt64]

Matches(l, r) ==
  /\ l.key # NullKey
  /\ l.key = r.key
  /\ withinWindow(l.ts, r.ts, JoinWindow)

(* joinRows: the payloads of both rows, the metadata of the left one. *)
JoinedRow(l, r) ==
  [l EXCEPT !.records = @ \o r.records,
            !.fails = IF @ = "encode" THEN @ ELSE r.fails]

(* addMatches: at most one batch. *)
addMatches(left, right) ==
  LET joined == FlattenSeq([i \in DOMAIN left.rows |->
                  LET matched == SelectSeq(right.rows,
                                           LAMBDA r : Matches(left.rows[i], r))
                  IN [j \in DOMAIN matched |-> JoinedRow(left.rows[i], matched[j])]])
  IN IF joined = <<>> THEN <<>>
     ELSE <<Batch(<<left.schema, right.schema>>, joined)>>

(* Defect: what is stored is pruned by its first timestamp. *)
PruneByOldest(stored, streamTime) ==
  SelectSeq(stored, LAMBDA b :
    b.batch.rows[1].ts >= saturatingSubtract(streamTime, JoinWindow))

prune(stored, streamTime) ==
  SelectSeq(stored, LAMBDA b :
    b.maxTimestamp >= saturatingSubtract(streamTime, JoinWindow))

StoredAll(batches) ==
  [i \in DOMAIN batches |-> [maxTimestamp |-> LatestOf(MinInt64, batches[i].rows),
                             batch |-> batches[i]]]

(* Defect: the new batches are stored before they are joined. *)
StoreThenJoin(op, newLeft, newRight) ==
  LET left  == op.left \o StoredAll(newLeft)
      right == op.right \o StoredAll(newRight)
      Pairs(bs, os) == FlattenSeq(FlattenSeq(
        [i \in DOMAIN bs |-> [j \in DOMAIN os |-> addMatches(bs[i], os[j])]]))
      Data(stored) == [i \in DOMAIN stored |-> stored[i].batch]
  IN [ok |-> TRUE,
      out |-> Pairs(newLeft, Data(right)) \o Pairs(Data(left), newRight),
      op |-> [left |-> left, right |-> right, streamTime |-> op.streamTime]]

(* processSides: time advances over both sides, both stores are pruned,    *)
(* every new batch meets the stored batches of the other side and the new  *)
(* ones meet each other once, then they are stored.                        *)
processSides(op, newLeft, newRight) ==
  LET new   == newLeft \o newRight
      time  == LatestOf(op.streamTime,
                        FlattenSeq([i \in DOMAIN new |-> new[i].rows]))
      left  == prune(op.left, time)
      right == prune(op.right, time)
      Against(batch, stored, isLeft) == FlattenSeq(
        [i \in DOMAIN stored |-> IF isLeft THEN addMatches(batch, stored[i].batch)
                                 ELSE addMatches(stored[i].batch, batch)])
      Among(batch) == FlattenSeq([i \in DOMAIN newRight |-> addMatches(batch, newRight[i])])
      failed == {i \in DOMAIN new : ~HasTimestamp(new[i])}
      before == SubSeq(new, 1, Min(failed) - 1)
  IN IF failed # {}
     THEN [ok |-> FALSE, out |-> <<>>,
           op |-> [op EXCEPT !.streamTime = LatestOf(@,
                     FlattenSeq([i \in DOMAIN before |-> before[i].rows]))]]
     ELSE [ok  |-> TRUE,
           op  |-> [left       |-> left \o StoredAll(newLeft),
                    right      |-> right \o StoredAll(newRight),
                    streamTime |-> time],
           out |-> FlattenSeq([i \in DOMAIN newLeft |->
                     Against(newLeft[i], right, TRUE) \o Among(newLeft[i])])
                   \o FlattenSeq([i \in DOMAIN newRight |->
                     Against(newRight[i], left, FALSE)])]
=============================================================================
