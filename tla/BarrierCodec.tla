---------------------------- MODULE BarrierCodec ----------------------------
(***************************************************************************)
(* The records of the barrier state topic (columnar/barrier.go) and what   *)
(* the cut reader makes of them (barriercut.go).  A partition is a topic   *)
(* and a number; the broker writes the records.                            *)
(***************************************************************************)
EXTENDS Wire

barrierStateKeyVersion    == 0
barrierCutValueVersion    == 0
barrierKindGroup          == 0
barrierKindInjectionStart == 1
barrierKindCut            == 2
CutComplete == 0
CutPartial  == 1

---------------------------------------------------------------------------
(* The broker's side: partitions in topics, in order. *)

EncodeBarrierKey(kind, group, epoch) ==
  BigEndian(2, barrierStateKeyVersion) \o BigEndian(2, kind)
  \o appendString(group) \o BigEndian(8, epoch)

EncodeCutValue(cut) ==
  LET array(items, Encode(_)) ==
        BigEndian(4, Len(items)) \o FlattenSeq([i \in DOMAIN items |-> Encode(items[i])])
      offset(o)  == BigEndian(4, o[1]) \o BigEndian(8, o[2])
      topic(t)   == appendString(t[1]) \o array(t[2], offset)
      missing(m) == appendString(m[1]) \o BigEndian(4, m[2])
  IN BigEndian(2, barrierCutValueVersion) \o BigEndian(8, cut.triggeredAt)
     \o BigEndian(8, cut.completedAt) \o BigEndian(1, cut.status)
     \o array(cut.topics, topic) \o array(cut.missing, missing)

---------------------------------------------------------------------------
(* DecodeBarrierCut *)

decodeBarrierKey(data) ==
  LET read == Fields(<<"int16", "int16", "string", "int64">>, data)
  IN IF read.ok /\ read.rest = <<>> /\ read.value[1] = barrierStateKeyVersion
     THEN Read([kind |-> read.value[2], group |-> read.value[3], epoch |-> read.value[4]], <<>>)
     ELSE Failed

(* The entries of one topic of a cut, as pairs of a partition and its      *)
(* offset.                                                                 *)
TopicOffsets(i, data) ==
  LET topic   == Text(data)
      offsets == Counted(ReadInt(4, topic.rest), LAMBDA n, d : Fields(<<"int32", "int64">>, d))
  IN IF topic.ok /\ offsets.ok
     THEN Read([n \in DOMAIN offsets.value |->
                  <<<<topic.value, offsets.value[n][1]>>, offsets.value[n][2]>>], offsets.rest)
     ELSE Failed

(* Of two offsets of a partition the last one counts. *)
cutOffsets(data) ==
  LET topics  == Counted(ReadInt(4, data), TopicOffsets)
      entries == FlattenSeq(topics.value)
      latest(tp) == Max({i \in DOMAIN entries : entries[i][1] = tp})
  IN IF topics.ok
     THEN Read([tp \in {entries[i][1] : i \in DOMAIN entries} |-> entries[latest(tp)][2]],
               topics.rest)
     ELSE Failed

missingPartitions(data) ==
  Counted(ReadInt(4, data), LAMBDA n, d : Fields(<<"string", "int32">>, d))

decodeBarrierCutValue(key, data) ==
  LET head    == Fields(<<"int16", "int64", "int64", "int8">>, data)
      offsets == cutOffsets(head.rest)
      missing == missingPartitions(offsets.rest)
  IN IF /\ head.ok /\ head.value[1] = barrierCutValueVersion
        /\ head.value[4] \in {CutComplete, CutPartial}
        /\ offsets.ok /\ missing.ok /\ missing.rest = <<>>
     THEN Read([group |-> key.group, epoch |-> key.epoch, triggeredAt |-> head.value[2],
                completedAt |-> head.value[3], status |-> head.value[4],
                offsets |-> offsets.value, missing |-> missing.value], <<>>)
     ELSE Failed

---------------------------------------------------------------------------
(* CutReader: the cuts it knows, by group and epoch. *)

NoCutsRead == [ok |-> TRUE, cuts |-> <<>>]

(* Defect: a tombstone is skipped like a record of another kind. *)
AcceptIgnoringTombstones(reader, rec) ==
  LET key  == decodeBarrierKey(rec.key)
      cut  == decodeBarrierCutValue(key.value, rec.value)
      slot == <<key.value.group, key.value.epoch>>
  IN IF ~reader.ok \/ ~key.ok THEN [reader EXCEPT !.ok = FALSE]
     ELSE IF key.value.kind # barrierKindCut \/ rec.value = <<>> THEN reader
     ELSE IF ~cut.ok THEN [reader EXCEPT !.ok = FALSE]
     ELSE [reader EXCEPT !.cuts = (slot :> cut.value) @@ @]

(* A record of another kind is skipped; a tombstone drops its cut; a       *)
(* malformed record ends the read.                                         *)
accept(reader, rec) ==
  LET key  == decodeBarrierKey(rec.key)
      cut  == decodeBarrierCutValue(key.value, rec.value)
      slot == <<key.value.group, key.value.epoch>>
  IN IF ~reader.ok \/ ~key.ok THEN [reader EXCEPT !.ok = FALSE]
     ELSE IF key.value.kind # barrierKindCut THEN reader
     ELSE IF rec.value = <<>>
     THEN [reader EXCEPT !.cuts = [s \in DOMAIN @ \ {slot} |-> @[s]]]
     ELSE IF ~cut.ok THEN [reader EXCEPT !.ok = FALSE]
     ELSE [reader EXCEPT !.cuts = (slot :> cut.value) @@ @]

CompleteCutsAfter(reader, group, epoch) ==
  LET epochs == {slot[2] : slot \in {s \in DOMAIN reader.cuts :
                   s[1] = group /\ s[2] > epoch /\ reader.cuts[s].status = CutComplete}}
  IN [i \in 1 .. Cardinality(epochs) |-> reader.cuts[<<group, SetToSortSeq(epochs, <)[i]>>]]

---------------------------------------------------------------------------
(* Samples. *)

SampleCut(group, epoch, status) ==
  [group |-> group, epoch |-> epoch, triggeredAt |-> -1, completedAt |-> Radix ^ 8 \div 2 - 1,
   status |-> status, missing |-> IF status = CutPartial THEN <<<<<<2>>, 1>>>> ELSE <<>>,
   topics |-> <<<<<<1>>, <<<<0, epoch>>, <<1, Radix>>>>>>, <<<<1, 1>>, <<>>>>, <<<<2>>, <<<<0, 0>>>>>>>>]

(* A sample as the decoder returns it. *)
Expected(cut) ==
  [group |-> cut.group, epoch |-> cut.epoch, triggeredAt |-> cut.triggeredAt,
   completedAt |-> cut.completedAt, status |-> cut.status, missing |-> cut.missing,
   offsets |-> (<<<<1>>, 0>> :> cut.epoch) @@ (<<<<1>>, 1>> :> Radix) @@ (<<<<2>>, 0>> :> 0)]

CutKey(cut)    == EncodeBarrierKey(barrierKindCut, cut.group, cut.epoch)
CutRecord(cut) == [key |-> CutKey(cut), value |-> EncodeCutValue(cut)]
Tombstone(cut) == [key |-> CutKey(cut), value |-> <<>>]

SomeCuts == {SampleCut(<<1>>, 1, CutComplete), SampleCut(<<1>>, 2, CutComplete),
             SampleCut(<<1>>, 2, CutPartial), SampleCut(<<2>>, 1, CutComplete)}

SomeOthers == {[key |-> EncodeBarrierKey(barrierKindGroup, <<1>>, -1), value |-> <<0>>],
               [key |-> EncodeBarrierKey(barrierKindInjectionStart, <<1>>, 2), value |-> <<0, 0>>]}

(* Every cut decodes to its offsets; no part of it and nothing longer      *)
(* decodes.                                                                *)
CutsDecode ==
  \A cut \in SomeCuts :
    LET key   == decodeBarrierKey(CutKey(cut))
        value == EncodeCutValue(cut)
    IN /\ key.ok /\ \A d \in Truncated(CutKey(cut)) \union Extended(CutKey(cut)) :
                      ~decodeBarrierKey(d).ok
       /\ decodeBarrierCutValue(key.value, value) = Read(Expected(cut), <<>>)
       /\ \A d \in Truncated(value) \union Extended(value) : ~decodeBarrierCutValue(key.value, d).ok

(* After any three records the complete cuts of a group are those whose    *)
(* newest record is a complete cut, in the order of their epochs.          *)
CutsAreTheNewest ==
  LET samples == {CutRecord(cut) : cut \in SomeCuts} \union {Tombstone(cut) : cut \in SomeCuts}
                 \union SomeOthers
      known(log) == {cut \in SomeCuts : cut.group = <<1>> /\ cut.status = CutComplete
                       /\ \E i \in DOMAIN log : /\ log[i] = CutRecord(cut)
                                                /\ \A j \in i + 1 .. Len(log) : log[j].key # log[i].key}
  IN \A log \in [1 .. 3 -> samples] :
       LET reader == FoldLeft(accept, NoCutsRead, log)
       IN /\ reader.ok
          /\ \A after \in {-1, 1} :
               CompleteCutsAfter(reader, <<1>>, after)
               = LET cuts == {cut \in known(log) : cut.epoch > after}
                 IN [i \in 1 .. Cardinality(cuts) |-> Expected(
                       CHOOSE cut \in cuts : Cardinality({c \in cuts : c.epoch <= cut.epoch}) = i)]
=============================================================================
