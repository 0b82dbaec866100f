---------------------------- MODULE MCTopology ----------------------------
EXTENDS Topology, SnapshotCodec, JSONBridge

Source(name, topics)         == [name |-> name, kind |-> "source", topics |-> topics,
                                 codec |-> "rows", parents |-> <<>>]
Inner(name, kind, parents)   == [name |-> name, kind |-> kind, topics |-> {},
                                 codec |-> PassThrough, parents |-> parents]
Sink(name, codec, parent)    == [name |-> name, kind |-> "sink", topics |-> {},
                                 codec |-> codec, parents |-> <<parent>>]

(* A windowed GroupBy of one side of a join. *)
Joining == <<Source(1, {1}), Source(2, {2}), Inner(3, "windowedGroupBy", <<1>>),
             Inner(4, "join", <<1, 2>>), Sink(5, "rows", 3), Sink(6, "rows", 4)>>

(* A source joined with a branch of itself, and passed through. *)
SelfJoining == <<Source(1, {1, 2}), Inner(2, "stateless", <<1>>),
                 Inner(3, "join", <<1, 2>>), Sink(4, "rows", 3), Sink(5, PassThrough, 1)>>

(* Two topics merged before both kinds of GroupBy. *)
Merging == <<Source(1, {2}), Source(2, {1}), Inner(3, "merge", <<1, 2>>),
             Inner(4, "windowedGroupBy", <<3>>), Inner(5, "groupBy", <<3>>),
             Sink(6, "rows", 4), Sink(7, "rows", 5)>>

MCDrafts == {<<Source(2, {1}), Inner(3, "windowedGroupBy", <<1>>)>>}

Row(key, ts)         == [key |-> key, ts |-> ts, null |-> FALSE, fails |-> "no"]
Failing(key, ts, how) == [key |-> key, ts |-> ts, null |-> FALSE, fails |-> how]
NullTime(key, slot)  == [key |-> key, ts |-> slot, null |-> TRUE, fails |-> "no"]

MCRows == 1 :> {Row("a", 0), Row("a", 3), Row("b", 5), NullTime("a", 0)}
       @@ 2 :> {Row("a", 1), Row("a", 7), Row(NullKey, 3), Failing("a", 3, "encode")}

MCApplications == {Joining, SelfJoining, Merging}

---------------------------------------------------------------------------
(* The state of a partition as the operators encode it. *)

KeyPart(key) == IF key = NullKey THEN Nil ELSE <<"s", IF key = "a" THEN <<1>> ELSE <<1, 1>>>>

(* The key parts of a group, and four aggregates of its timestamps. *)
KeyParts(group) == [i \in DOMAIN group |-> IF i = 1 THEN KeyPart(group[1]) ELSE <<"i", group[i]>>]
Timestamps(rows) == [i \in DOMAIN rows |-> IF rows[i].null THEN Nil ELSE <<"i", rows[i].ts>>]

GroupState(op) ==
  [streamTime |-> op.streamTime,
   groups |-> [n \in DOMAIN op.order |->
                 [keyParts   |-> KeyParts(op.order[n]),
                  aggregates |-> Aggregates(Timestamps(op.groups[op.order[n]]))]]]

JoinState(op) ==
  LET Side(batches) == [i \in DOMAIN batches |->
        <<batches[i].maxTimestamp, [r \in DOMAIN batches[i].batch.rows |-> r]>>]
  IN [streamTime |-> op.streamTime, left |-> Side(op.left), right |-> Side(op.right)]

IsJoin(op) == "left" \in DOMAIN op

Snapshots(saved) ==
  LET names == SetToSortSeq(DOMAIN saved, <)
  IN [n \in DOMAIN names |->
        <<<<names[n]>>, IF IsJoin(saved[names[n]]) THEN JoinSnapshot(JoinState(saved[names[n]]))
                        ELSE GroupSnapshot(GroupState(saved[names[n]]))>>]

(* The state of a partition that moved away, out of its file. *)
Restores(p) ==
  LET file == Load(Save(Snapshots(store[p])))
  IN /\ file.ok
     /\ \A n \in DOMAIN file.value :
          LET op    == store[p][file.value[n][1][1]]
              bytes == file.value[n][2]
          IN IF IsJoin(op) THEN JoinRestore(bytes) = Read(JoinState(op), <<>>)
             ELSE GroupRestore(bytes) = Read(GroupState(op), <<>>)

(* Different groups of a partition have different map keys (encodeKeyParts: *)
(* "a stable map key").                                                    *)
GroupKeysAreDistinct ==
  \A p \in Partitions : processors[p] # Absent =>
    \A i \in {j \in DOMAIN processors[p] : nodes[j].kind = "windowedGroupBy"} :
      LET order == processors[p][i].order
      IN Cardinality({encodeKeyParts(KeyParts(g)) : g \in Range(order)}) = Len(order)

(* The snapshots of a partition that moves away are kept under a name for  *)
(* every operator, come back from its file and restore every operator as   *)
(* it was: its stream time with its sign, its groups in order with their   *)
(* aggregates, its batches.  Key parts of any types and lengths have bytes *)
(* of their own.  A file or a snapshot that is cut or followed by other    *)
(* bytes is refused (FileStateStore.Load: "trailing bytes in state         *)
(* snapshot").                                                             *)
StateSurvivesTheStore ==
  [][/\ SnapshotsAreDistinct'
     /\ KeysAreInjective /\ SamplesSurvive
     /\ \A p \in Partitions : Assign(p) => Restores(p)]_vars

(* What a built topology reads and writes through its codecs comes back.   *)
(* Packed records hold the rows in order and within the cap, and as many   *)
(* as fit (largestChunk: "the largest row count from start that fits under *)
(* the byte cap"), every row under its own key, timestamp and headers but  *)
(* for null and empty bytes, which are merged.  Null and empty header      *)
(* values and payload columns with reserved names are unchanged            *)
(* (HeadersColumn: "the ordered Kafka headers, including null values").    *)
(* JSON documents come back with the keys of the bridge and the values     *)
(* they had for them, or their batch is refused whole; the batch that      *)
(* infers the fields loses no key, a later one every key that is no field; *)
(* the first value of a column, or one of the declared type, comes back    *)
(* unchanged (JSONRowBridge: "Column inference uses the first non-null     *)
(* sample and is retained by the bridge for every later batch").           *)
RowsSurviveTheCodecs ==
  [][Build => SamplesPack /\ ColumnsSurvive /\ InferredRowsSurvive /\ DeclaredRowsSurvive]_vars

TimeArithmetic ==
  \A a, b \in MinInt64 .. MaxInt64 :
    /\ b > 0 => floorDiv(a, b) = a \div b
    /\ saturatingSubtract(a, b) = Max({MinInt64, Min({MaxInt64, a - b})})
    /\ \A window \in {0, 1, MaxInt64} : withinWindow(a, b, window) <=> Abs(a - b) <= window
    /\ LET end == (a \div WindowMillis + 1) * WindowMillis
       IN (WindowEnd(a) = end) <=> (end <= MaxInt64)

(* The windows of a GroupBy hold exactly the retained rows, each under a   *)
(* map key of its own, and at every time of the width, also at its ends    *)
(* and before zero, the window of a timestamp is found by rounding down,   *)
(* the retained time saturates and the join window compares the true       *)
(* difference.  Only the end of a window wraps, where it is past the       *)
(* largest time (ops.go:368).                                              *)
WindowsAreExact ==
  GroupsAreTheRetainedRows /\ GroupKeysAreDistinct /\ (built => TimeArithmetic)
=============================================================================
