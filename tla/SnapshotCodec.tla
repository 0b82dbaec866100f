--------------------------- MODULE SnapshotCodec ---------------------------
(***************************************************************************)
(* The bytes that stateful operators keep: the tagged values of group keys *)
(* and snapshots and the aggregates of a group (columnar/ops.go), the      *)
(* snapshot of a join (join.go) and the file of a partition                *)
(* (statestore.go).                                                        *)
(*                                                                         *)
(* A value is a tuple: its tag and, for most tags, its payload.  Floats    *)
(* are their bits.  A map is the sequence of its pairs, in key order.      *)
(***************************************************************************)
EXTENDS Wire

Tags == <<"n", "t", "F", "s", "b", "i", "u", "g", "f", "I", "R", "L", "M">>

Tag(t) == <<CHOOSE i \in DOMAIN Tags : Tags[i] = t>>

(* The text of big numbers: digits, a sign and a slash. *)
Minus == 10
Slash == 11

Digits[n \in Nat] == IF n < 10 THEN <<n>> ELSE Append(Digits[n \div 10], n % 10)

Decimal(n) == IF n < 0 THEN <<Minus>> \o Digits[-n] ELSE Digits[n]

RatString(r) == IF r[2] = 1 THEN Decimal(r[1]) ELSE Decimal(r[1]) \o <<Slash>> \o Decimal(r[2])

SetString(text) ==
  LET negative == text # <<>> /\ text[1] = Minus
      digits   == IF negative THEN Tail(text) ELSE text
      n        == FoldLeft(LAMBDA m, d : 10 * m + d, 0, digits)
  IN IF digits # <<>> /\ \A i \in DOMAIN digits : digits[i] < 10
     THEN Read(IF negative THEN -n ELSE n, <<>>) ELSE Failed

RatOf(text) ==
  LET slash == SelectInSeq(text, LAMBDA b : b = Slash)
      top   == SetString(IF slash = 0 THEN text ELSE SubSeq(text, 1, slash - 1))
      below == IF slash = 0 THEN Read(1, <<>>)
               ELSE SetString(SubSeq(text, slash + 1, Len(text)))
  IN IF top.ok /\ below.ok THEN Read(<<top.value, below.value>>, <<>>) ELSE Failed

RECURSIVE encodeValue(_)
encodeValue(value) ==
  LET Concat(items, Encode(_)) == FlattenSeq([i \in DOMAIN items |-> Encode(items[i])])
      Pair(pair) == appendSized(pair[1]) \o encodeValue(pair[2])
  IN Tag(value[1]) \o
       CASE value[1] \in {"n", "t", "F"}      -> <<>>
         [] value[1] \in {"s", "b"}           -> appendSized(value[2])
         [] value[1] \in {"i", "u", "g", "f"} -> BigEndian(8, value[2])
         [] value[1] = "I" -> appendSized(Decimal(value[2]))
         [] value[1] = "R" -> appendSized(RatString(value[2]))
         [] value[1] = "L" -> BigEndian(4, Len(value[2])) \o Concat(value[2], encodeValue)
         [] value[1] = "M" -> BigEndian(4, Len(value[2])) \o Concat(value[2], Pair)

(* valueReader.value *)
RECURSIVE valueOf(_)
valueOf(data) ==
  LET tag  == ReadUint(1, data)
      name == Tags[tag.value]
      Tagged(read) == Mapped(read, LAMBDA v : <<name, v>>)
      Parsed(read, Parse(_)) ==
        IF read.ok /\ Parse(read.value).ok
        THEN Read(<<name, Parse(read.value).value>>, read.rest) ELSE Failed
      Element(i, d) == valueOf(d)
      Pair(i, d) == LET key   == Sized(d)
                        value == valueOf(key.rest)
                    IN IF key.ok /\ value.ok
                       THEN Read(<<key.value, value.value>>, value.rest) ELSE Failed
  IN IF ~tag.ok \/ tag.value \notin DOMAIN Tags THEN Failed
     ELSE CASE name \in {"n", "t", "F"} -> Read(<<name>>, tag.rest)
            [] name \in {"s", "b"}      -> Tagged(Sized(tag.rest))
            [] name = "i"               -> Tagged(ReadInt(8, tag.rest))
            [] name \in {"u", "g", "f"} -> Tagged(ReadUint(8, tag.rest))
            [] name = "I"               -> Parsed(Sized(tag.rest), SetString)
            [] name = "R"               -> Parsed(Sized(tag.rest), RatOf)
            [] name = "L" -> Tagged(Counted(ReadUint(4, tag.rest), Element))
            [] name = "M" -> Tagged(Counted(ReadUint(4, tag.rest), Pair))

(* The map key of a group. *)
encodeKeyParts(parts) == FlattenSeq([i \in DOMAIN parts |-> encodeValue(parts[i])])

---------------------------------------------------------------------------
(* accumulate, of integers and nulls: a sum is exact whatever its size. *)

Nil == <<"n">>

accumulate(current, function, next) ==
  CASE function = "count" -> IF current = Nil THEN <<"i", 1>> ELSE <<"i", current[2] + 1>>
    [] function # "count" /\ next = Nil -> current
    [] function = "sum" /\ next # Nil ->
         <<"I", (IF current = Nil THEN 0 ELSE current[2]) + next[2]>>
    [] function = "min" /\ next # Nil ->
         IF current # Nil /\ current[2] <= next[2] THEN current ELSE next
    [] function = "max" /\ next # Nil ->
         IF current # Nil /\ current[2] >= next[2] THEN current ELSE next

AggregateFunctions == <<"count", "sum", "min", "max">>

Aggregates(column) ==
  [f \in DOMAIN AggregateFunctions |->
     FoldLeft(LAMBDA a, next : accumulate(a, AggregateFunctions[f], next), Nil, column)]

---------------------------------------------------------------------------
(* groupByOperation: its stream time and its groups in order, each with    *)
(* its key parts and its aggregates.                                       *)

groupSnapshotVersion == 1

GroupSnapshot(op) ==
  LET Values(vs)   == BigEndian(4, Len(vs)) \o encodeKeyParts(vs)
      Entry(entry) == Values(entry.keyParts) \o Values(entry.aggregates)
  IN BigEndian(1, groupSnapshotVersion) \o BigEndian(8, op.streamTime)
     \o BigEndian(4, Len(op.groups))
     \o FlattenSeq([i \in DOMAIN op.groups |-> Entry(op.groups[i])])

Item(i, data) == valueOf(data)

(* One group: its counted key parts and its counted aggregates. *)
GroupEntry(i, data) ==
  LET parts == Counted(ReadUint(4, data), Item)
      aggs  == Counted(ReadUint(4, parts.rest), Item)
  IN IF parts.ok /\ aggs.ok
     THEN Read([keyParts |-> parts.value, aggregates |-> aggs.value], aggs.rest)
     ELSE Failed

(* Defect: the stream time loses its sign. *)
RestoreUnsigned(snapshot) ==
  LET head   == Fields(<<"uint8", "uint64">>, snapshot)
      groups == Counted(ReadUint(4, head.rest), GroupEntry)
  IN IF head.ok /\ head.value[1] = groupSnapshotVersion /\ groups.ok /\ groups.rest = <<>>
     THEN Read([streamTime |-> head.value[2], groups |-> groups.value], <<>>)
     ELSE Failed

GroupRestore(snapshot) ==
  LET head   == Fields(<<"uint8", "int64">>, snapshot)
      groups == Counted(ReadUint(4, head.rest), GroupEntry)
  IN IF head.ok /\ head.value[1] = groupSnapshotVersion /\ groups.ok /\ groups.rest = <<>>
     THEN Read([streamTime |-> head.value[2], groups |-> groups.value], <<>>)
     ELSE Failed

---------------------------------------------------------------------------
(* statefulJoinProcessor: its stream time and the batches of both sides,   *)
(* each the greatest timestamp and the bytes of the batch.                 *)

joinSnapshotVersion == 1

JoinSnapshot(op) ==
  LET Batches(side) == BigEndian(4, Len(side)) \o FlattenSeq(
        [i \in DOMAIN side |-> BigEndian(8, side[i][1]) \o appendSized(side[i][2])])
  IN BigEndian(4, joinSnapshotVersion) \o BigEndian(8, op.streamTime)
     \o Batches(op.left) \o Batches(op.right)

readTimedBatches(data) ==
  Counted(ReadUint(4, data), LAMBDA i, d : Fields(<<"int64", "sized">>, d))

JoinRestore(snapshot) ==
  LET head  == Fields(<<"uint32", "int64">>, snapshot)
      left  == readTimedBatches(head.rest)
      right == readTimedBatches(left.rest)
  IN IF /\ head.ok /\ head.value[1] = joinSnapshotVersion
        /\ left.ok /\ right.ok /\ right.rest = <<>>
     THEN Read([streamTime |-> head.value[2], left |-> left.value, right |-> right.value], <<>>)
     ELSE Failed

---------------------------------------------------------------------------
(* FileStateStore: the snapshots of a partition as pairs of a name and     *)
(* bytes, in the order of the names.                                       *)

fileStateStoreVersion == 1

Save(snapshots) ==
  BigEndian(4, fileStateStoreVersion) \o BigEndian(4, Len(snapshots))
  \o FlattenSeq([i \in DOMAIN snapshots |->
                   appendSized(snapshots[i][1]) \o appendSized(snapshots[i][2])])

Load(file) ==
  LET version == ReadUint(4, file)
      entries == Counted(ReadUint(4, version.rest),
                         LAMBDA i, d : Fields(<<"sized", "sized">>, d))
  IN IF /\ version.ok /\ version.value = fileStateStoreVersion
        /\ entries.ok /\ entries.rest = <<>>
     THEN entries ELSE Failed

---------------------------------------------------------------------------
(* Samples of every tag, with the boundary values of its payload. *)

SomeBytes == <<<<>>, <<1>>, <<4>>, <<1, 4>>, <<4, 1>>>>

SomeScalars ==
  <<Nil, <<"t">>, <<"F">>>>
  \o [i \in DOMAIN SomeBytes |-> <<"s", SomeBytes[i]>>]
  \o [i \in DOMAIN SomeBytes |-> <<"b", SomeBytes[i]>>]
  \o <<<<"i", 0>>, <<"i", -1>>, <<"i", Radix ^ 8 \div 2 - 1>>, <<"i", -(Radix ^ 8 \div 2)>>,
       <<"u", 0>>, <<"u", Radix ^ 8 - 1>>, <<"g", 1>>, <<"f", 1>>,
       <<"I", 0>>, <<"I", -10>>, <<"I", 105>>, <<"R", <<3, 1>>>>, <<"R", <<-1, 3>>>>>>

SomeValues ==
  SomeScalars \o
  <<<<"L", <<>>>>, <<"L", <<Nil>>>>, <<"L", <<<<"s", <<1>>>>, <<"s", <<4>>>>>>>>,
    <<"L", <<<<"L", <<Nil>>>>>>>>, <<"M", <<>>>>,
    <<"M", <<<<<<1>>, Nil>>, <<<<4>>, <<"L", <<>>>>>>>>>>>>

(* As many sequences of bytes as there are tuples of key parts. *)
KeysAreInjective ==
  LET count == Len(SomeValues)
      keys  == {encodeKeyParts(<<SomeValues[i], SomeValues[j]>>) : i, j \in 1 .. count}
  IN Cardinality(keys) = count * count

SomeGroups ==
  [streamTime |-> -1,
   groups |-> [i \in DOMAIN SomeValues |->
                 [keyParts |-> <<SomeValues[i], <<"i", -i>>>>, aggregates |-> <<SomeValues[i]>>]]]

SomeJoin ==
  [streamTime |-> -(Radix ^ 8 \div 2), left |-> <<>>,
   right |-> [i \in DOMAIN SomeBytes |-> <<-i, SomeBytes[i]>>]]

SomeFile == Save(<<<<<<1>>, JoinSnapshot(SomeJoin)>>, <<<<1, 2>>, <<>>>>>>)

(* A snapshot restores what was snapshotted; a part of it, or more than    *)
(* it, is refused.                                                         *)
Survives(op, snapshot, Restore(_)) ==
  /\ Restore(snapshot) = Read(op, <<>>)
  /\ \A data \in Truncated(snapshot) \union Extended(snapshot) : ~Restore(data).ok

SamplesSurvive ==
  /\ Survives(SomeGroups, GroupSnapshot(SomeGroups), GroupRestore)
  /\ Survives(SomeJoin, JoinSnapshot(SomeJoin), JoinRestore)
  /\ Survives(Load(SomeFile).value, SomeFile, Load)
=============================================================================
