------------------------------ MODULE Topology ------------------------------
(***************************************************************************)
(* The builder of a columnar topology (columnar/topology.go) and the       *)
(* topology it builds (built.go), which runs batches of records partition  *)
(* by partition and keeps the processors of every partition.  A failed     *)
(* batch is rolled back as the runners do it (restorePrior).               *)
(***************************************************************************)
EXTENDS ColumnarOperators

CONSTANTS
  Topics,         \* topics are numbers: their order is the sort order
  Partitions,
  Absent,         \* the partition has no processors
  PassThrough,    \* the codec of a pass-through sink: nil
  Drafts,         \* the builders whose extensions are explored
  Applications,   \* the topologies whose runs are explored
  Rows,           \* Rows[topic]: what a record of the topic decodes to
  AddAfterBuild,  \* the application goes on adding nodes
  Names, MaxNodes, MaxRecords, MaxBatch, MaxMoves

VARIABLES
  nodes,        \* the nodes of the builder, which the built topology shares
  built,
  processors,   \* the processors of every partition, by node
  store,        \* the snapshots of released partitions
  log,          \* ghost: the batches every partition ran successfully
  joined,       \* ghost: the pairs of records in joined output, in order
  moves

vars == <<nodes, built, processors, store, log, joined, moves>>

---------------------------------------------------------------------------
(* The builder. *)

Add(node) ==
  /\ built => AddAfterBuild
  /\ Len(nodes) < MaxNodes
  /\ nodes' = Append(nodes, node)
  /\ UNCHANGED <<built, processors, store, log, joined, moves>>

requireParent(parent) == parent \in DOMAIN nodes

AddSource(name, topics, codec) ==
  /\ topics # {}
  /\ Add([name |-> name, kind |-> "source", topics |-> topics, codec |-> codec,
          parents |-> <<>>])

(* AddOperator and AddProcessor. *)
AddOperator(name, op, parent) ==
  /\ requireParent(parent)
  /\ Add([name |-> name, kind |-> op, topics |-> {}, codec |-> PassThrough,
          parents |-> <<parent>>])

AddMerge(name, parents) ==
  /\ Len(parents) >= 2
  /\ \A parent \in Range(parents) : requireParent(parent)
  /\ Add([name |-> name, kind |-> "merge", topics |-> {}, codec |-> PassThrough,
          parents |-> parents])

AddJoin(name, left, right) ==
  /\ requireParent(left) /\ requireParent(right)
  /\ left # right
  /\ Add([name |-> name, kind |-> "join", topics |-> {}, codec |-> PassThrough,
          parents |-> <<left, right>>])

(* AddSink and AddPassThroughSink. *)
AddSink(name, codec, parent) ==
  /\ requireParent(parent)
  /\ codec = PassThrough => nodes[parent].kind = "source"
  /\ Add([name |-> name, kind |-> "sink", topics |-> {}, codec |-> codec,
          parents |-> <<parent>>])

(* Defect: the names are not checked. *)
ValidateIgnoresNames ==
  /\ \A i \in DOMAIN nodes : nodes[i].kind # "source" =>
       nodes[i].parents # <<>> /\ \A p \in Range(nodes[i].parents) : p < i
  /\ \E i \in DOMAIN nodes : nodes[i].kind = "source"
  /\ \E i \in DOMAIN nodes : nodes[i].kind = "sink"

Validate ==
  /\ \A i, j \in DOMAIN nodes : nodes[i].name = nodes[j].name => i = j
  /\ \A i \in DOMAIN nodes : nodes[i].kind # "source" =>
       nodes[i].parents # <<>> /\ \A p \in Range(nodes[i].parents) : p < i
  /\ \E i \in DOMAIN nodes : nodes[i].kind = "source"
  /\ \E i \in DOMAIN nodes : nodes[i].kind = "sink"

Build ==
  /\ ~built
  /\ Validate
  /\ built' = TRUE
  /\ UNCHANGED <<nodes, processors, store, log, joined, moves>>

---------------------------------------------------------------------------
(* The processors of a partition. *)

Stateful(i) == nodes[i].kind \in {"groupBy", "windowedGroupBy", "join"}
Operator(i) == nodes[i].kind \in {"groupBy", "windowedGroupBy", "stateless", "join"}

(* partitionProcessors creates them at the first use. *)
NewProcessors ==
  [i \in {j \in DOMAIN nodes : Operator(j)} |->
     CASE nodes[i].kind = "join"      -> NewJoin
       [] nodes[i].kind = "stateless" -> <<>>
       [] OTHER                       -> NewGroupBy]

ProcessorsOf(p) == IF processors[p] = Absent THEN NewProcessors ELSE processors[p]

(* SnapshotPartition: by the name of the node; of several nodes with one   *)
(* name any may be the last one written.                                   *)
SnapshotPartition(p) ==
  IF processors[p] = Absent THEN <<>>
  ELSE [name \in {nodes[i].name : i \in {j \in DOMAIN processors[p] : Stateful(j)}} |->
          processors[p][CHOOSE i \in DOMAIN processors[p] : nodes[i].name = name]]

(* RestorePartition, of a partition without processors. *)
RestorePartition(snapshot) ==
  [i \in DOMAIN NewProcessors |->
     IF nodes[i].name \in DOMAIN snapshot THEN snapshot[nodes[i].name]
     ELSE NewProcessors[i]]

(* restorePrior *)
RestorePrior(p, ran) ==
  IF processors[p] = Absent THEN Absent ELSE RestorePartition(SnapshotPartition(p))

---------------------------------------------------------------------------
(* runPartition. *)

TopicSeq == SetToSortSeq(Topics, <)

(* A frame is only decoded for a child that is no pass-through sink. *)
NeedsDecodedFrame(i) ==
  \E c \in DOMAIN nodes : /\ i \in Range(nodes[c].parents)
                          /\ ~(nodes[c].kind = "sink" /\ nodes[c].codec = PassThrough)

Decoded(i, input) ==
  LET topics == SelectSeq(TopicSeq, LAMBDA t : t \in nodes[i].topics /\ input[t] # <<>>)
  IN IF NeedsDecodedFrame(i)
     THEN [n \in DOMAIN topics |-> Batch(nodes[i].codec, input[topics[n]])]
     ELSE <<>>

RowsOf(frame) == FlattenSeq([n \in DOMAIN frame |-> frame[n].rows])

Fails(frame, how) == \E r \in Range(RowsOf(frame)) : r.fails = how

(* One batch of the parent at a time; the operator forwards one batch. *)
RunGroupBy(windowed, op, frame) ==
  FoldLeft(LAMBDA acc, batch :
             IF ~acc.ok \/ (windowed /\ ~HasTimestamp(batch)) THEN [acc EXCEPT !.ok = FALSE]
             ELSE LET result == ApplyGroupBy(windowed, acc.op, batch.rows)
                  IN [ok  |-> result.ok, op |-> result.op,
                      out |-> Append(acc.out, Batch("groups", GroupRows(result.op)))],
           [ok |-> TRUE, op |-> op, out |-> <<>>], frame)

(* merge concatenates batches of one schema. *)
MergedFrame(frames, parents) ==
  LET inputs == FlattenSeq([n \in DOMAIN parents |-> frames[parents[n]]])
  IN [ok  |-> \A n \in DOMAIN inputs : inputs[n].schema = inputs[1].schema,
      out |-> IF inputs = <<>> THEN <<>>
              ELSE <<Batch(inputs[1].schema, RowsOf(inputs))>>]

(* What node i does to the run so far. *)
RunNode(run, i, input) ==
  LET node  == nodes[i]
      first == IF node.parents = <<>> THEN <<>> ELSE run.frames[node.parents[1]]
      frame(ok, out) == [run EXCEPT !.ok = ok, !.frames = @ @@ (i :> out)]
      processed(result) ==
        [frame(result.ok, result.out) EXCEPT !.state[i] = result.op]
  IN CASE ~run.ok -> run
       [] node.kind = "source" ->
            frame(~Fails(Decoded(i, input), "decode"), Decoded(i, input))
       [] node.kind = "stateless" -> frame(TRUE, first)
       [] node.kind \in {"groupBy", "windowedGroupBy"} ->
            processed(RunGroupBy(node.kind = "windowedGroupBy", run.state[i], first))
       [] node.kind = "merge" ->
            LET merged == MergedFrame(run.frames, node.parents)
            IN frame(merged.ok, merged.out)
       [] node.kind = "join" ->
            processed(processSides(run.state[i], first, run.frames[node.parents[2]]))
       [] node.kind = "sink" ->
            IF node.codec = PassThrough THEN frame(TRUE, <<>>)
            ELSE frame(~Fails(first, "encode"), <<>>)

Run(p, input) ==
  FoldLeft(LAMBDA run, i : RunNode(run, i, input),
           [ok |-> TRUE, frames |-> <<>>, state |-> ProcessorsOf(p)],
           [i \in DOMAIN nodes |-> i])

(* The rows of a sequence of inputs, on these topics. *)
RowsIn(inputs, topics) ==
  FlattenSeq([b \in DOMAIN inputs |-> FlattenSeq(
    [n \in DOMAIN topics |-> inputs[b][topics[n]]])])

JoinNodes == {i \in DOMAIN nodes : nodes[i].kind = "join"}

(* RunPartitionBatches, and what the runner does when it fails. *)
RunPartition(p, input) ==
  LET run == Run(p, input)
  IN /\ built
     /\ nodes \in Applications
     /\ processors[p] = Absent => log[p] = <<>>
     /\ processors' = [processors EXCEPT ![p] =
                         IF run.ok THEN run.state ELSE RestorePrior(p, run.state)]
     /\ IF run.ok
        THEN /\ log' = [log EXCEPT ![p] = Append(@, input)]
             /\ joined' = [joined EXCEPT ![p] = @ \o FlattenSeq(
                  [n \in 1 .. Cardinality(JoinNodes) |->
                     RowsOf(run.frames[SetToSortSeq(JoinNodes, <)[n]])])]
        ELSE UNCHANGED <<log, joined>>
     /\ UNCHANGED <<nodes, built, store, moves>>

---------------------------------------------------------------------------
(* A partition moves: the runner saves and releases it, and restores it    *)
(* when it is assigned again.                                              *)
Revoke(p) ==
  /\ processors[p] # Absent
  /\ moves < MaxMoves /\ moves' = moves + 1
  /\ store' = [store EXCEPT ![p] = SnapshotPartition(p)]
  /\ processors' = [processors EXCEPT ![p] = Absent]
  /\ UNCHANGED <<nodes, built, log, joined>>

Assign(p) ==
  /\ processors[p] = Absent
  /\ log[p] # <<>>
  /\ processors' = [processors EXCEPT ![p] = RestorePartition(store[p])]
  /\ UNCHANGED <<nodes, built, store, log, joined, moves>>
---------------------------------------------------------------------------
(* The records of a poll, by topic; a record is its topic and offset. *)
InputOf(p, arrivals) ==
  [t \in Topics |->
     LET rows == SelectSeq(arrivals, LAMBDA a : a[1] = t)
         next == Len(RowsIn(log[p], <<t>>))
     IN [i \in DOMAIN rows |-> [records |-> <<<<t, next + i - 1>>>>] @@ rows[i][2]]]

Records == UNION {{t} \X Rows[t] : t \in Topics}

Ran == FoldSet(LAMBDA p, n : n + Len(RowsIn(log[p], TopicSeq)), 0, Partitions)

Init ==
  /\ nodes \in Drafts \union Applications
  /\ built = FALSE
  /\ processors = [p \in Partitions |-> Absent]
  /\ store = [p \in Partitions |-> <<>>]
  /\ log = [p \in Partitions |-> <<>>]
  /\ joined = [p \in Partitions |-> <<>>]
  /\ moves = 0

Builder ==
  \E name \in Names :
    \/ \E topics \in SUBSET Topics : AddSource(name, topics, "rows")
    \/ \E parent \in 1 .. MaxNodes :
         \/ \E op \in {"groupBy", "windowedGroupBy", "stateless"} : AddOperator(name, op, parent)
         \/ \E codec \in {"rows", PassThrough} : AddSink(name, codec, parent)
    \/ \E left, right \in 1 .. MaxNodes : \/ AddMerge(name, <<left, right>>)
                                        \/ AddJoin(name, left, right)

Next ==
  \/ Builder
  \/ Build
  \/ \E p \in Partitions, n \in 1 .. MaxBatch :
       /\ Ran + n <= MaxRecords
       /\ \E arrivals \in [1 .. n -> Records] : RunPartition(p, InputOf(p, arrivals))
  \/ \E p \in Partitions : Revoke(p) \/ Assign(p)

Spec == Init /\ [][Next]_vars

---------------------------------------------------------------------------
(* Properties. *)

(* Snapshots are kept by node name: in a built topology no two stateful    *)
(* nodes share one ("a validated, reusable columnar topology").            *)
SnapshotsAreDistinct ==
  built => \A i, j \in DOMAIN nodes :
             Stateful(i) /\ Stateful(j) /\ nodes[i].name = nodes[j].name => i = j

(* The topics whose records make up the frame of node i: a source, or a    *)
(* merge or a stateless operator on sources.                               *)
Feeds(i) ==
  LET direct(n) == SelectSeq(TopicSeq, LAMBDA t : t \in nodes[n].topics)
      parents   == nodes[i].parents
  IN IF parents = <<>> THEN direct(i)
     ELSE FlattenSeq([n \in DOMAIN parents |-> direct(parents[n])])

(* The state of a GroupBy is a function of the rows its partition ran and  *)
(* not of how they were batched, of the batches that failed between them,  *)
(* or of the moves of the partition: it is every row of every window that  *)
(* ends no earlier than the retention before the latest timestamp, in      *)
(* order of first appearance.                                              *)
GroupsAreTheRetainedRows ==
  \A p \in Partitions : processors[p] # Absent =>
    \A i \in DOMAIN nodes : nodes[i].kind \in {"groupBy", "windowedGroupBy"} =>
      LET windowed == nodes[i].kind = "windowedGroupBy"
          rows     == RowsIn(log[p], Feeds(nodes[i].parents[1]))
          latest   == LatestOf(MinInt64, rows)
          start(r) == (r.ts \div WindowMillis) * WindowMillis
          live     == SelectSeq(rows, LAMBDA r :
                        ~windowed \/ start(r) + WindowMillis >= latest - RetentionMillis)
          group(r) == IF windowed THEN <<r.key, start(r), start(r) + WindowMillis>>
                      ELSE <<r.key>>
          groups   == FirstAppearances([n \in DOMAIN live |-> group(live[n])])
          state    == processors[p][i]
      IN /\ state.order = groups
         /\ \A g \in Range(groups) :
              state.groups[g] = SelectSeq(live, LAMBDA r : group(r) = g)

(* Two rows belong together, by the definition of an event-time join; a    *)
(* null timestamp belongs to no window.                                    *)
Pair(l, r) == /\ ~l.null /\ ~r.null
              /\ l.key = r.key /\ l.key # NullKey
              /\ Abs(l.ts - r.ts) <= JoinWindow

(* All pairs of a left row of batch a and a right row of batch b. *)
Cross(p, i, a, b) ==
  LET rows(n, batch) == Range(RowsIn(<<log[p][batch]>>, Feeds(nodes[i].parents[n])))
  IN rows(1, a) \X rows(2, b)

(* A pair of rows is joined at most once, and only inside the window.      *)
JoinedOnce ==
  \A p \in Partitions :
    /\ \A m, n \in DOMAIN joined[p] : joined[p][m].records = joined[p][n].records => m = n
    /\ \A i \in JoinNodes, a, b \in DOMAIN log[p] : \A c \in Cross(p, i, a, b) :
         (\E n \in DOMAIN joined[p] : joined[p][n].records = c[1].records \o c[2].records)
         => Pair(c[1], c[2]) \/ c[1].null \/ c[2].null

(* The latest timestamp of the batch that a row of poll b came in. *)
LatestBeside(p, row, b) == LatestOf(MinInt64, log[p][b][row.records[1][1]])

(* A pair is joined unless the batch of its earlier row was pruned, and    *)
(* only then is it missed: no row of that batch is within the window of    *)
(* the latest row of the later poll, which advances the stream over all of *)
(* the poll before it joins.                                               *)
JoinMissesThePruned ==
  \A p \in Partitions, i \in JoinNodes : \A a, b \in DOMAIN log[p] :
    LET until == SubSeq(log[p], 1, IF a < b THEN b ELSE a)
        time  == LatestOf(MinInt64,
                   RowsIn(until, Feeds(nodes[i].parents[1]) \o Feeds(nodes[i].parents[2])))
    IN \A c \in Cross(p, i, a, b) : Pair(c[1], c[2]) =>
         ((\E n \in DOMAIN joined[p] : joined[p][n].records = c[1].records \o c[2].records)
          <=> /\ a < b => LatestBeside(p, c[1], a) >= time - JoinWindow
              /\ b < a => LatestBeside(p, c[2], b) >= time - JoinWindow)

(* Whatever the failed batches and the moves of the partition between, an  *)
(* event-time join gives a pair of rows at most once and never outside the *)
(* window (Join.Window: "rows whose timestamps differ by more than the     *)
(* window never join"), and misses exactly the pairs whose earlier batch   *)
(* was pruned.  A poll that spans more than the window so loses pairs of   *)
(* records that arrive in order of time, which join.go:15 does not say.    *)
JoinIsExact == JoinedOnce /\ JoinMissesThePruned
=============================================================================
