-------------------------- MODULE GroupRunnerProofs -------------------------
(***************************************************************************)
(* Proofs about GroupRunner without a barrier group (Epoch = {}), for any  *)
(* topic partitions, any assignment of them to logical partitions, a log   *)
(* of any length, every mode of the application, every fault, and any      *)
(* number of rebalances and restarts.                                      *)
(***************************************************************************)
EXTENDS GroupRunner, OffsetOrderProofs

-----------------------------------------------------------------------------
(***************************************************************************)
(* One poll.                                                               *)
(***************************************************************************)
\* The records of the topic partitions between two offsets of each.
Between(from, to) ==
  {r \in Record : from[r[1]] <= r[2] /\ r[2] < to[r[1]]}

\* Whether a set holds a record, as a number.
Holds(S, r) == IF r \in S THEN 1 ELSE 0

\* What a record is made of.
LEMMA RecordParts ==
  ASSUME NEW r \in Record
  PROVE  /\ r[1] \in TopicPartition /\ r[2] \in 0 .. End - 1 /\ r[2] \in Nat
         /\ Partition[r[1]] \in Logical
<1>1. r[1] \in TopicPartition /\ r[2] \in 0 .. End - 1
  BY DEF Record
<1>2. End \in Nat /\ Partition \in [TopicPartition -> Nat]
  BY RunnerAssumption
<1> QED BY <1>1, <1>2 DEF Logical, Range

\* Without a barrier group the aligner is idle: it holds nothing back and
\* fires never.
LEMMA AlignerIdle ==
  ASSUME Epoch = {}, aligner = NewBarrierAligner, NEW next
  PROVE  /\ AcceptedAligner(next) = aligner /\ StartAligner = aligner /\ ~Fired(aligner)
         /\ aligner.aligned = {} /\ \A tp \in TopicPartition : aligner.held[tp] = <<>>
BY DEF AcceptedAligner, StartAligner, Fired, NewBarrierAligner, NothingHeld, NoEpoch

\* A poll hands over every record between the old and the new position.
LEMMA InputIsStretch ==
  ASSUME Epoch = {}, aligner = NewBarrierAligner, position \in Offsets,
         NEW next \in Offsets, \A tp \in TopicPartition : position[tp] <= next[tp]
  PROVE  Input(next) = [tp \in TopicPartition |-> Stretch(position[tp], next[tp])]
<1>0. End \in Nat
  BY RunnerAssumption
<1>1. ASSUME NEW tp \in TopicPartition
      PROVE  Fetched(next)[tp] = Stretch(position[tp], next[tp])
  <2>1. position[tp] \in 0 .. End /\ next[tp] \in 0 .. End /\ position[tp] <= next[tp]
    BY DEF Offsets
  <2>2. {offset \in position[tp] .. next[tp] - 1 : <<tp, offset>> \in Data}
        = position[tp] .. next[tp] - 1
    <3>1. \A offset \in position[tp] .. next[tp] - 1 : offset \in 0 .. End - 1
      BY <2>1, <1>0
    <3>2. \A offset \in position[tp] .. next[tp] - 1 : <<tp, offset>> \in Data
      BY <3>1 DEF Data, Record
    <3> QED BY <3>2
  <2>3. InOrder(position[tp] .. next[tp] - 1) = Stretch(position[tp], next[tp])
    BY <2>1, <1>0, StretchInOrder
  <2> QED BY <2>2, <2>3 DEF Fetched
<1>2. ASSUME NEW tp \in TopicPartition
      PROVE  Input(next)[tp] = Stretch(position[tp], next[tp])
  <2> DEFINE s == Stretch(position[tp], next[tp])
  <2>1. s \in Seq(Nat)
    <3>1. position[tp] \in Nat /\ next[tp] \in Nat /\ next[tp] - position[tp] \in Nat
      BY <1>0 DEF Offsets
    <3> QED BY <3>1 DEF Stretch
  <2> HIDE DEF s
  <2>2. Merge(aligner, Fetched(next))[tp] = <<>> \o s
    BY <1>1, AlignerIdle DEF Merge, s
  <2>3. <<>> \o s = s
    BY <2>1
  <2>4. Split(aligner, tp, s) = Len(s)
    BY AlignerIdle DEF Split
  <2>5. SubSeq(s, 1, Len(s)) = s
    BY <2>1
  <2>6. Input(next)[tp] = SubSeq(s, 1, Split(aligner, tp, s))
    BY <2>2, <2>3 DEF Input, Accepted
  <2> QED BY <2>4, <2>5, <2>6 DEF s
<1>3. Input(next) = [tp \in TopicPartition |-> Input(next)[tp]]
  BY DEF Input, Accepted
<1> QED BY <1>2, <1>3

\* A stretch, element by element.
LEMMA StretchShape ==
  ASSUME NEW from \in Nat, NEW to \in Nat, from <= to
  PROVE  /\ Stretch(from, to) \in Seq(Nat) /\ Len(Stretch(from, to)) = to - from
         /\ DOMAIN Stretch(from, to) = 1 .. to - from
         /\ \A i \in 1 .. to - from : Stretch(from, to)[i] = from + i - 1
<1>1. \A i \in 1 .. to - from : from + i - 1 \in Nat
  OBVIOUS
<1>2. \A i \in 1 .. to - from : Stretch(from, to)[i] = from + i - 1
  BY DEF Stretch
<1>3. Stretch(from, to) \in Seq(Nat) /\ Len(Stretch(from, to)) = to - from
      /\ DOMAIN Stretch(from, to) = 1 .. to - from
  BY <1>1 DEF Stretch
<1> QED BY <1>2, <1>3

\* The place of an offset in a stretch.
LEMMA StretchPlace ==
  ASSUME NEW from \in Nat, NEW to \in Nat, from <= to, NEW o \in Nat
  PROVE  {i \in DOMAIN Stretch(from, to) : Stretch(from, to)[i] = o}
           = IF from <= o /\ o < to THEN {o - from + 1} ELSE {}
<1>1. DOMAIN Stretch(from, to) = 1 .. to - from
  BY StretchShape
<1>2. \A i \in 1 .. to - from : Stretch(from, to)[i] = from + i - 1
  BY StretchShape
<1>3. \A i \in 1 .. to - from : from + i - 1 = o <=> i = o - from + 1
  OBVIOUS
<1>4. from <= o /\ o < to <=> o - from + 1 \in 1 .. to - from
  OBVIOUS
<1>5. {i \in DOMAIN Stretch(from, to) : Stretch(from, to)[i] = o}
        = {i \in 1 .. to - from : i = o - from + 1}
  BY <1>1, <1>2, <1>3
<1> QED BY <1>4, <1>5

\* The partitions with records, their offsets to commit and their records, in
\* terms of the two positions.
LEMMA StretchFacts ==
  ASSUME NEW from \in Offsets, NEW to \in Offsets,
         \A tp \in TopicPartition : from[tp] <= to[tp],
         NEW input, input = [tp \in TopicPartition |-> Stretch(from[tp], to[tp])]
  PROVE  /\ WithRecords(input) = {tp \in TopicPartition : from[tp] < to[tp]}
         /\ DOMAIN NextOffsets(input) = WithRecords(input)
         /\ \A tp \in WithRecords(input) : NextOffsets(input)[tp] = to[tp]
         /\ \A logicals : RecordsOf(input, logicals)
                          = {r \in Between(from, to) : Partition[r[1]] \in logicals}
         /\ Between(from, to) = RecordsOf(input, LogicalsOf(WithRecords(input)))
<1>0. End \in Nat
  BY RunnerAssumption
<1>1. ASSUME NEW tp \in TopicPartition
      PROVE  /\ from[tp] \in 0 .. End /\ to[tp] \in 0 .. End /\ from[tp] <= to[tp]
             /\ input[tp] \in Seq(Nat) /\ Len(input[tp]) = to[tp] - from[tp]
             /\ DOMAIN input[tp] = 1 .. to[tp] - from[tp]
             /\ \A i \in 1 .. to[tp] - from[tp] : input[tp][i] = from[tp] + i - 1
  <2>1. from[tp] \in 0 .. End /\ to[tp] \in 0 .. End /\ from[tp] <= to[tp]
    BY DEF Offsets
  <2>2. input[tp] = Stretch(from[tp], to[tp]) /\ from[tp] \in Nat /\ to[tp] \in Nat
    BY <2>1, <1>0
  <2>3. from[tp] <= to[tp]
    BY <2>1
  <2>4. /\ Stretch(from[tp], to[tp]) \in Seq(Nat)
        /\ Len(Stretch(from[tp], to[tp])) = to[tp] - from[tp]
        /\ DOMAIN Stretch(from[tp], to[tp]) = 1 .. to[tp] - from[tp]
        /\ \A i \in 1 .. to[tp] - from[tp] : Stretch(from[tp], to[tp])[i] = from[tp] + i - 1
    BY <2>2, <2>3, StretchShape
  <2> QED BY <2>1, <2>2, <2>4
<1>2. ASSUME NEW tp \in TopicPartition
      PROVE  input[tp] # <<>> <=> from[tp] < to[tp]
  BY <1>0, <1>1
<1>3. WithRecords(input) = {tp \in TopicPartition : from[tp] < to[tp]}
  BY <1>2 DEF WithRecords
<1>4. DOMAIN NextOffsets(input) = WithRecords(input)
  BY DEF NextOffsets
<1>5. ASSUME NEW tp \in WithRecords(input)
      PROVE  NextOffsets(input)[tp] = to[tp]
  <2>1. tp \in TopicPartition /\ from[tp] < to[tp]
    BY <1>3
  <2>2. Len(input[tp]) \in 1 .. to[tp] - from[tp] /\ Len(input[tp]) = to[tp] - from[tp]
    BY <1>0, <1>1, <2>1
  <2>3. input[tp][Len(input[tp])] = from[tp] + Len(input[tp]) - 1
    BY <1>1, <2>1, <2>2
  <2>4. input[tp][Len(input[tp])] + 1 = to[tp]
    BY <1>0, <1>1, <2>1, <2>2, <2>3
  <2> QED BY <2>4 DEF NextOffsets
<1>6. ASSUME NEW r \in Record
      PROVE  r[2] \in Range(input[r[1]]) <=> from[r[1]] <= r[2] /\ r[2] < to[r[1]]
  <2> DEFINE tp == r[1]
  <2>1. tp \in TopicPartition /\ r[2] \in Nat
    BY RecordParts
  <2>2. Range(input[tp]) = {input[tp][i] : i \in 1 .. to[tp] - from[tp]}
    BY <1>1, <2>1 DEF Range
  <2>3. ASSUME r[2] \in Range(input[tp])
        PROVE  from[tp] <= r[2] /\ r[2] < to[tp]
    <3>1. PICK i \in 1 .. to[tp] - from[tp] : r[2] = from[tp] + i - 1
      BY <2>1, <2>2, <2>3, <1>1
    <3>2. from[tp] \in Nat /\ to[tp] \in Nat
      BY <2>1, <1>0, <1>1
    <3> QED BY <3>1, <3>2
  <2>4. ASSUME from[tp] <= r[2], r[2] < to[tp]
        PROVE  r[2] \in Range(input[tp])
    <3>0. from[tp] \in Nat /\ to[tp] \in Nat
      BY <2>1, <1>0, <1>1
    <3>1. r[2] - from[tp] + 1 \in 1 .. to[tp] - from[tp]
      BY <2>1, <2>4, <3>0
    <3>2. input[tp][r[2] - from[tp] + 1] = from[tp] + (r[2] - from[tp] + 1) - 1
      BY <3>1, <2>1, <1>1
    <3>3. from[tp] + (r[2] - from[tp] + 1) - 1 = r[2]
      BY <2>1, <3>0
    <3> QED BY <3>1, <3>2, <3>3, <2>2
  <2> QED BY <2>3, <2>4
<1>7. ASSUME NEW logicals
      PROVE  RecordsOf(input, logicals)
             = {r \in Between(from, to) : Partition[r[1]] \in logicals}
  BY <1>6 DEF RecordsOf, Between
<1>8. Between(from, to) = RecordsOf(input, LogicalsOf(WithRecords(input)))
  <2>1. ASSUME NEW r \in Between(from, to)
        PROVE  Partition[r[1]] \in LogicalsOf(WithRecords(input))
    <3>1. r[1] \in TopicPartition /\ r[2] \in Nat /\ from[r[1]] <= r[2] /\ r[2] < to[r[1]]
      BY RecordParts DEF Between
    <3>2. from[r[1]] < to[r[1]]
      BY <3>1, <1>0, <1>1
    <3>3. r[1] \in WithRecords(input)
      BY <3>1, <3>2, <1>3
    <3> QED BY <3>3 DEF LogicalsOf
  <2> QED BY <2>1, <1>7
<1> QED BY <1>3, <1>4, <1>5, <1>7, <1>8

\* The records of these topic partitions between two offsets, as input.
Polled(T, from, to) ==
  [tp \in TopicPartition |-> IF tp \in T THEN Stretch(from[tp], to[tp]) ELSE <<>>]

\* Applying a stretch adds one to the count of each of its records.
LEMMA AppliedFacts ==
  ASSUME NEW from \in Offsets, NEW to \in Offsets,
         \A tp \in TopicPartition : from[tp] <= to[tp],
         NEW state \in Snapshot, NEW T \in SUBSET TopicPartition
  PROVE  /\ Applied(state, Polled(T, from, to)) \in Snapshot
         /\ Applied(state, Polled(T, from, to)) # Nothing
         /\ \A r \in Record : Count(Applied(state, Polled(T, from, to)), r)
              = Count(state, r) + Holds({x \in Between(from, to) : x[1] \in T}, r)
<1> DEFINE input == Polled(T, from, to)
<1>shape. input = [tp \in TopicPartition |->
                  IF tp \in T THEN Stretch(from[tp], to[tp]) ELSE <<>>]
  BY DEF Polled
<1> HIDE DEF input
<1>0. End \in Nat
  BY RunnerAssumption
<1>1. ASSUME NEW r \in Record
      PROVE  /\ Cardinality({i \in DOMAIN input[r[1]] : input[r[1]][i] = r[2]})
                  = Holds({x \in Between(from, to) : x[1] \in T}, r)
             /\ Count(state, r) \in Nat
  <2> DEFINE tp == r[1]
             hits == {i \in DOMAIN input[tp] : input[tp][i] = r[2]}
  <2>1. tp \in TopicPartition /\ r[2] \in Nat
    BY RecordParts
  <2>2. from[tp] \in Nat /\ to[tp] \in Nat /\ from[tp] <= to[tp]
    BY <2>1, <1>0 DEF Offsets
  <2>3. Count(state, r) \in Nat
    BY DEF Count, Snapshot
  <2>4. CASE tp \notin T
    <3>1. hits = {}
      BY <1>shape, <2>1, <2>4
    <3> QED BY <2>3, <2>4, <3>1, FS_EmptySet DEF Holds
  <2>5. CASE tp \in T
    <3>1. hits = IF from[tp] <= r[2] /\ r[2] < to[tp] THEN {r[2] - from[tp] + 1} ELSE {}
      <4>1. input[tp] = Stretch(from[tp], to[tp])
        BY <1>shape, <2>1, <2>5
      <4>2. {i \in DOMAIN Stretch(from[tp], to[tp]) : Stretch(from[tp], to[tp])[i] = r[2]}
              = IF from[tp] <= r[2] /\ r[2] < to[tp] THEN {r[2] - from[tp] + 1} ELSE {}
        BY <2>1, <2>2, StretchPlace
      <4> QED BY <4>1, <4>2
    <3> HIDE DEF hits
    <3>2. CASE from[tp] <= r[2] /\ r[2] < to[tp]
      <4>2. Cardinality(hits) = 1
        BY <3>1, <3>2, FS_Singleton
      <4>3. r \in {x \in Between(from, to) : x[1] \in T}
        BY <2>5, <3>2 DEF Between
      <4> QED BY <2>3, <4>2, <4>3 DEF Holds, hits
    <3>3. CASE ~(from[tp] <= r[2] /\ r[2] < to[tp])
      <4>1. Cardinality(hits) = 0
        BY <3>1, <3>3, FS_EmptySet
      <4>2. r \notin {x \in Between(from, to) : x[1] \in T}
        BY <3>3 DEF Between
      <4> QED BY <2>3, <4>1, <4>2 DEF Holds, hits
    <3> QED BY <3>2, <3>3
  <2> QED BY <2>4, <2>5
<1> DEFINE n(r) == Cardinality({i \in DOMAIN input[r[1]] : input[r[1]][i] = r[2]})
<1>2. Applied(state, input) = [r \in Record |-> Count(state, r) + n(r)]
  BY DEF Applied, Count
<1>3. \A r \in Record : Count(state, r) + n(r) \in Nat
  <2> SUFFICES ASSUME NEW r \in Record PROVE Count(state, r) + n(r) \in Nat
    OBVIOUS
  <2>1. n(r) = Holds({x \in Between(from, to) : x[1] \in T}, r) /\ Count(state, r) \in Nat
    BY <1>1
  <2>2. n(r) \in {0, 1}
    BY <2>1 DEF Holds
  <2> HIDE DEF n
  <2> QED BY <2>1, <2>2
<1> HIDE DEF n
<1>4. Applied(state, input) \in [Record -> Nat]
  BY <1>2, <1>3
<1>5. Applied(state, input) # Nothing
  BY <1>4, NothingAssumption
<1>6. \A r \in Record : Count(Applied(state, input), r) = Count(state, r) + n(r)
  BY <1>2, <1>5 DEF Count
<1> QED BY <1>1, <1>4, <1>5, <1>6 DEF Snapshot, n, input

-----------------------------------------------------------------------------
(***************************************************************************)
(* The inductive invariant.                                                *)
(***************************************************************************)
RunnerType ==
  /\ mode \in Modes
  /\ committed \in Offsets /\ position \in Offsets
  /\ output \in [Record -> Nat]
  /\ handled \in SUBSET Record /\ setAside \in SUBSET handled
  /\ manifest \in [Epoch -> {"absent", "partial", "complete"}]
  /\ store \in [Logical -> [Epoch \union {NoEpoch} -> Snapshot]]
  /\ processors \in [Logical -> Snapshot]
  /\ owned \in SUBSET TopicPartition
  /\ pc \in {"idle", "poll", "send", "commit"}
  /\ failed \in BOOLEAN /\ stale = FALSE
  /\ aligner = NewBarrierAligner

\* A round carries what it polled: its offsets are the positions of owned
\* partitions, past what is committed, and its records lie between the two.
RoundInv ==
  /\ pc \in {"idle", "poll"} => round = NoRound
  /\ ~round.barrier
  /\ DOMAIN round.offsets \in SUBSET owned
  /\ \A tp \in DOMAIN round.offsets :
       round.offsets[tp] = position[tp] /\ committed[tp] < position[tp]
  /\ round.records \in SUBSET Record
  /\ round.bad \in SUBSET round.records /\ round.outputs \in SUBSET round.records
  /\ \A r \in round.records : r[1] \in DOMAIN round.offsets
                              /\ committed[r[1]] <= r[2] /\ r[2] < position[r[1]]
  /\ DOMAIN round.prior \in SUBSET LogicalsOf(owned)
  /\ \A l \in DOMAIN round.prior : round.prior[l] \in Snapshot
  /\ pc = "commit" /\ ~Transactional => round.records \in SUBSET handled

\* The state of a partition if the round is rolled back.
Prior(l) == IF l \in DOMAIN round.prior THEN round.prior[l] ELSE processors[l]

\* A snapshot holds a record at most once, and only a committed one or one
\* of these.
Once(snapshot, offsets, S) ==
  \A r \in Record : /\ Count(snapshot, r) <= 1
                    /\ Count(snapshot, r) > 0 => r[2] < offsets[r[1]] \/ r \in S

StateInv ==
  /\ \A tp \in owned : committed[tp] <= position[tp]
  /\ \A l \in Logical : processors[l] # Nothing => l \in LogicalsOf(owned)
  /\ \A l \in Logical : /\ Once(store[l][NoEpoch], committed, {})
                        /\ Once(Prior(l), committed, {})
                        /\ Once(processors[l], committed, round.records)
  /\ Transactional => \A r \in Record : /\ output[r] <= 1
                                        /\ output[r] > 0 => r[2] < committed[r[1]]

RunnerInv == RunnerType /\ RoundInv /\ StateInv

\* The offset that a round in progress commits for a partition.
Reached(tp) ==
  IF tp \in DOMAIN round.offsets THEN round.offsets[tp] ELSE committed[tp]

\* An application that does not go on after an error polls from the committed
\* offsets, so a round has every record between the commit and its offsets.
NoGapInv ==
  OnError # "continue" =>
    /\ pc # "idle" => ~failed
    /\ ~failed => \A tp \in owned : position[tp] = Reached(tp)
    /\ \A r \in Record : committed[r[1]] <= r[2] /\ r[2] < Reached(r[1])
                         => r \in round.records
    /\ NothingSkipped

\* An application that closes the runner after an error, whose partitions are
\* saved whenever they move, and whose commits are answered.
Orderly(m) ==
  /\ m.onError = "close"
  /\ m.faults \intersect {"load", "revoke_save", "lost", "crash", "commit_answer"} = {}

\* Where the state of a partition is: with its owner, or in the store.
Resting(l) == IF l \in LogicalsOf(owned) THEN Prior(l) ELSE store[l][NoEpoch]

\* Whether a record is part of the state at the committed offsets.
InPrefix(r) == IF r \notin setAside /\ r[2] < committed[r[1]] THEN 1 ELSE 0

\* Between rounds the state of every partition is the prefix that is committed;
\* a round adds its records to it, without those the policy set aside.
PrefixInv ==
  Orderly(mode) =>
    \A r \in Record :
      LET l == Partition[r[1]]
      IN /\ Count(Resting(l), r) = InPrefix(r)
         /\ l \in LogicalsOf(owned) =>
              Count(processors[l], r)
                = Count(Prior(l), r) + Holds(round.records \ round.bad, r)

-----------------------------------------------------------------------------
(***************************************************************************)
(* Offsets, counts and snapshots.                                          *)
(***************************************************************************)
LEMMA OffsetNat ==
  ASSUME NEW offsets \in Offsets, NEW tp \in TopicPartition
  PROVE  offsets[tp] \in Nat /\ offsets[tp] \in 0 .. End
<1>1. End \in Nat
  BY RunnerAssumption
<1>2. offsets[tp] \in 0 .. End
  BY DEF Offsets
<1> QED BY <1>1, <1>2

LEMMA CountNat ==
  ASSUME NEW snapshot \in Snapshot, NEW r \in Record
  PROVE  Count(snapshot, r) \in Nat
BY DEF Count, Snapshot

\* An empty snapshot and a new partition hold nothing.
LEMMA CountEmpty ==
  ASSUME NEW r \in Record
  PROVE  /\ Count(Nothing, r) = 0 /\ Count(Zero, r) = 0
         /\ Nothing \in Snapshot /\ Zero \in Snapshot
<1>1. Zero \in [Record -> Nat] /\ Zero[r] = 0
  BY DEF Zero
<1> QED BY <1>1, NothingAssumption DEF Count, Snapshot

\* A new partition is restored to what the snapshot holds.
LEMMA RestoreCounts ==
  ASSUME NEW snapshot \in Snapshot
  PROVE  /\ RestorePartition(Nothing, snapshot) \in Snapshot
         /\ \A r \in Record :
              Count(RestorePartition(Nothing, snapshot), r) = Count(snapshot, r)
<1>1. CASE snapshot = Nothing
  <2>1. RestorePartition(Nothing, snapshot) = Zero
    BY <1>1 DEF RestorePartition
  <2>2. Zero \in Snapshot
    BY DEF Zero, Snapshot
  <2> QED BY <1>1, <2>1, <2>2, CountEmpty
<1>2. CASE snapshot # Nothing
  BY <1>2 DEF RestorePartition
<1> QED BY <1>1, <1>2

\* What a snapshot holds stays committed when the commit moves on.
LEMMA OnceMoves ==
  ASSUME NEW snapshot \in Snapshot, NEW from \in Offsets, NEW to \in Offsets,
         NEW S, NEW T, Once(snapshot, from, S),
         \A tp \in TopicPartition : from[tp] <= to[tp],
         \A r \in S : r \in Record => r[2] < to[r[1]] \/ r \in T
  PROVE  Once(snapshot, to, T)
<1> SUFFICES ASSUME NEW r \in Record
             PROVE  /\ Count(snapshot, r) <= 1
                    /\ Count(snapshot, r) > 0 => r[2] < to[r[1]] \/ r \in T
  BY DEF Once
<1>1. r[1] \in TopicPartition /\ r[2] \in Nat
  BY RecordParts
<1>2. from[r[1]] \in Nat /\ to[r[1]] \in Nat /\ from[r[1]] <= to[r[1]]
  BY <1>1, OffsetNat
<1>3. Count(snapshot, r) <= 1 /\ (Count(snapshot, r) > 0 => r[2] < from[r[1]] \/ r \in S)
  BY DEF Once
<1> QED BY <1>1, <1>2, <1>3

\* An empty snapshot holds nothing twice.
LEMMA OnceEmpty ==
  ASSUME NEW offsets, NEW S
  PROVE  Once(Nothing, offsets, S)
BY CountEmpty DEF Once

LEMMA OnceSameCounts ==
  ASSUME NEW snapshot, NEW copy, NEW offsets, NEW S, Once(snapshot, offsets, S),
         \A r \in Record : Count(copy, r) = Count(snapshot, r)
  PROVE  Once(copy, offsets, S)
BY DEF Once

\* Between rounds nothing is to be rolled back.
LEMMA NoRoundFacts ==
  /\ DOMAIN NoRound.offsets = {} /\ DOMAIN NoRound.prior = {}
  /\ NoRound.records = {} /\ NoRound.bad = {} /\ NoRound.outputs = {}
  /\ ~NoRound.barrier
BY DEF NoRound

LEMMA PriorIdle ==
  ASSUME round = NoRound, NEW l
  PROVE  Prior(l) = processors[l]
BY NoRoundFacts DEF Prior

-----------------------------------------------------------------------------
(***************************************************************************)
(* What the steps do to the invariant's parts.                             *)
(***************************************************************************)
\* A poll applies the records between the old and the new positions, but for
\* those of the partitions that fail.
LEMMA PollEffect ==
  ASSUME Epoch = {}, RunnerInv, NEW next \in Offsets, NEW bad \in SUBSET Logical,
         Poll(next, bad)
  PROVE  /\ \A tp \in TopicPartition : position[tp] <= next[tp]
         /\ \A tp \in TopicPartition \ owned : next[tp] = position[tp]
         /\ position' = next /\ aligner' = aligner /\ ~round'.barrier
         /\ DOMAIN round'.offsets = {tp \in TopicPartition : position[tp] < next[tp]}
         /\ \A tp \in DOMAIN round'.offsets : round'.offsets[tp] = next[tp]
         /\ round'.records = Between(position, next)
         /\ round'.bad \in SUBSET round'.records
         /\ round'.outputs \in SUBSET round'.records
         /\ DOMAIN round'.prior \in SUBSET LogicalsOf(owned)
         /\ \A l \in DOMAIN round'.prior : l \in Logical /\ round'.prior[l] = processors[l]
         /\ processors' \in [Logical -> Snapshot]
         /\ \A l \in Logical : /\ Prior(l)' = processors[l]
                               /\ processors'[l] # Nothing => l \in LogicalsOf(owned)
         /\ \A l \in Logical, r \in Record :
              Count(processors'[l], r)
                = Count(processors[l], r)
                  + Holds({x \in round'.records \ round'.bad : Partition[x[1]] = l}, r)
<1> DEFINE input == Input(next)
           some  == {tp \in TopicPartition : position[tp] < next[tp]}
           ran   == LogicalsOf(WithRecords(input))
           mine(l) == [tp \in TopicPartition |->
                         IF Partition[tp] = l THEN input[tp] ELSE <<>>]
<1>0. position \in Offsets /\ aligner = NewBarrierAligner /\ pc = "poll"
      /\ processors \in [Logical -> Snapshot] /\ owned \in SUBSET TopicPartition
  BY DEF RunnerInv, RunnerType, Poll, FetchUpTo
<1>1. /\ \A tp \in TopicPartition : position[tp] <= next[tp]
      /\ \A tp \in TopicPartition \ owned : next[tp] = position[tp]
      /\ position' = next
  <2>1. /\ \A tp \in TopicPartition : IF tp \in owned THEN next[tp] >= position[tp]
                                      ELSE next[tp] = position[tp]
        /\ position' = next
    BY DEF Poll, FetchUpTo
  <2> QED BY <2>1, <1>0, OffsetNat
<1>2. input = [tp \in TopicPartition |-> Stretch(position[tp], next[tp])]
  BY <1>0, <1>1, InputIsStretch
<1>3. aligner' = aligner /\ Fired(AcceptedAligner(next)) = FALSE
  <2>1. aligner' = AcceptedAligner(next)
    BY DEF Poll
  <2>2. AcceptedAligner(next) = aligner /\ ~Fired(AcceptedAligner(next))
    BY <1>0, AlignerIdle
  <2> QED BY <2>1, <2>2 DEF Fired
<1>4. round' = [offsets |-> NextOffsets(input),
                records |-> RecordsOf(input, ran),
                bad     |-> RecordsOf(input, bad),
                outputs |-> RecordsOf(input, IF Policy = "skip" THEN ran \ bad ELSE ran),
                prior   |-> [l \in ran \ bad |-> processors[l]],
                barrier |-> FALSE]
  BY <1>3 DEF Poll
<1>5. /\ processors' = [l \in Logical |-> IF l \in ran \ bad THEN Applied(processors[l], mine(l))
                                          ELSE processors[l]]
      /\ bad \in SUBSET ran
  BY DEF Poll
<1>6. /\ WithRecords(input) = some
      /\ DOMAIN NextOffsets(input) = WithRecords(input)
      /\ \A tp \in WithRecords(input) : NextOffsets(input)[tp] = next[tp]
      /\ \A logicals : RecordsOf(input, logicals)
                       = {r \in Between(position, next) : Partition[r[1]] \in logicals}
      /\ Between(position, next) = RecordsOf(input, ran)
  BY <1>0, <1>1, <1>2, StretchFacts
<1>7. some \in SUBSET owned
  <2>1. \A tp \in TopicPartition : position[tp] < next[tp] => position[tp] # next[tp]
    BY <1>0, OffsetNat
  <2> QED BY <2>1, <1>1
<1>8. ran \in SUBSET LogicalsOf(owned) /\ ran \in SUBSET Logical
  <2>1. ran \in SUBSET LogicalsOf(owned)
    BY <1>6, <1>7 DEF LogicalsOf
  <2>2. \A tp \in TopicPartition : Partition[tp] \in Logical
    BY RunnerAssumption DEF Logical, Range
  <2> QED BY <2>1, <2>2, <1>0 DEF LogicalsOf
<1> HIDE DEF input, ran, some
<1>9. /\ round'.offsets = NextOffsets(input) /\ round'.records = Between(position, next)
      /\ round'.bad = {r \in Between(position, next) : Partition[r[1]] \in bad}
      /\ round'.outputs \in SUBSET Between(position, next)
      /\ round'.prior = [l \in ran \ bad |-> processors[l]] /\ ~round'.barrier
  BY <1>4, <1>6
<1>10. /\ DOMAIN round'.offsets = {tp \in TopicPartition : position[tp] < next[tp]}
       /\ \A tp \in DOMAIN round'.offsets : round'.offsets[tp] = next[tp]
  BY <1>6, <1>9 DEF some
<1>11. /\ DOMAIN round'.prior \in SUBSET LogicalsOf(owned)
       /\ \A l \in DOMAIN round'.prior : l \in Logical /\ round'.prior[l] = processors[l]
  BY <1>8, <1>9
<1>12. ASSUME NEW l \in Logical
       PROVE  /\ processors'[l] \in Snapshot /\ Prior(l)' = processors[l]
              /\ processors'[l] # Nothing => l \in LogicalsOf(owned)
              /\ \A r \in Record : Count(processors'[l], r)
                   = Count(processors[l], r)
                     + Holds({x \in round'.records \ round'.bad : Partition[x[1]] = l}, r)
  <2> DEFINE added == {x \in round'.records \ round'.bad : Partition[x[1]] = l}
  <2>1. CASE l \in ran \ bad
    <3> DEFINE T == {tp \in TopicPartition : Partition[tp] = l}
    <3>1. processors'[l] = Applied(processors[l], mine(l)) /\ processors[l] \in Snapshot
      BY <2>1, <1>0, <1>5
    <3>2. mine(l) = Polled(T, position, next)
      BY <1>2 DEF Polled
    <3>3. /\ Applied(processors[l], mine(l)) \in Snapshot
          /\ \A r \in Record : Count(Applied(processors[l], mine(l)), r)
               = Count(processors[l], r) + Holds({x \in Between(position, next) : x[1] \in T}, r)
      <4>1. T \in SUBSET TopicPartition
        OBVIOUS
      <4> HIDE DEF T, mine
      <4> QED BY <4>1, <3>1, <3>2, <1>0, <1>1, AppliedFacts
    <3>4. {x \in Between(position, next) : x[1] \in T} = added
      <4>1. \A x \in Between(position, next) : x[1] \in TopicPartition
        BY RecordParts DEF Between
      <4> QED BY <4>1, <1>9, <2>1
    <3>5. Prior(l)' = processors[l]
      BY <2>1, <1>9 DEF Prior
    <3> QED BY <3>1, <3>3, <3>4, <3>5, <2>1, <1>8
  <2>2. CASE l \notin ran \ bad
    <3>1. processors'[l] = processors[l] /\ processors[l] \in Snapshot
      BY <2>2, <1>0, <1>5
    <3>2. processors[l] # Nothing => l \in LogicalsOf(owned)
      BY DEF RunnerInv, StateInv
    <3>3. Prior(l)' = processors[l]
      BY <2>2, <3>1, <1>9 DEF Prior
    <3>4. added = {}
      <4>1. ASSUME NEW x \in Between(position, next), Partition[x[1]] = l
            PROVE  l \in bad
        <5>1. x \in RecordsOf(input, ran)
          BY <1>6
        <5>2. l \in ran
          BY <5>1, <4>1 DEF RecordsOf
        <5> QED BY <5>2, <2>2
      <4> QED BY <4>1, <1>9
    <3>5. \A r \in Record : Holds(added, r) = 0 /\ Count(processors[l], r) \in Nat
      BY <3>1, <3>4, CountNat DEF Holds
    <3> HIDE DEF added
    <3>6. \A r \in Record : Count(processors'[l], r) = Count(processors[l], r) + Holds(added, r)
      BY <3>1, <3>5
    <3> QED BY <3>1, <3>2, <3>3, <3>6 DEF added
  <2> QED BY <2>1, <2>2
<1>13. processors' \in [Logical -> Snapshot]
  <2>1. processors' = [l \in Logical |-> processors'[l]]
    BY <1>5
  <2> QED BY <2>1, <1>12
<1> QED BY <1>1, <1>3, <1>9, <1>10, <1>11, <1>12, <1>13

\* What the commit of a round makes durable: the offsets of the round, which
\* lie past its records.
LEMMA CommitEffect ==
  ASSUME RunnerInv, pc = "commit", CommitRound
  PROVE  /\ committed' \in Offsets
         /\ \A tp \in TopicPartition : committed'[tp] = Reached(tp)
                                       /\ committed[tp] <= committed'[tp]
         /\ \A tp \in owned : committed'[tp] <= position[tp]
         /\ \A r \in round.records : r[2] < committed'[r[1]]
         /\ output' \in [Record -> Nat] /\ handled' \in SUBSET Record
         /\ handled \in SUBSET handled' /\ round.records \in SUBSET handled'
         /\ setAside' = (setAside \ round.records) \union round.bad
         /\ setAside' \in SUBSET handled'
         /\ Transactional => \A r \in Record : /\ output'[r] <= 1
                                               /\ output'[r] > 0 => r[2] < committed'[r[1]]
<1>0. /\ committed \in Offsets /\ position \in Offsets /\ output \in [Record -> Nat]
      /\ handled \in SUBSET Record /\ setAside \in SUBSET handled
      /\ owned \in SUBSET TopicPartition /\ DOMAIN round.offsets \in SUBSET owned
      /\ round.records \in SUBSET Record /\ round.bad \in SUBSET round.records
      /\ round.outputs \in SUBSET round.records
      /\ ~Transactional => round.records \in SUBSET handled
  BY DEF RunnerInv, RunnerType, RoundInv
<1>1. committed' = [tp \in TopicPartition |-> Reached(tp)]
  BY DEF CommitRound, Reached
<1>2. ASSUME NEW tp \in TopicPartition
      PROVE  /\ Reached(tp) \in 0 .. End /\ committed[tp] <= Reached(tp)
             /\ tp \in owned => Reached(tp) <= position[tp]
  <2>1. CASE tp \in DOMAIN round.offsets
    <3>1. Reached(tp) = position[tp] /\ committed[tp] < position[tp]
      BY <2>1 DEF Reached, RunnerInv, RoundInv
    <3> QED BY <3>1, <1>0, OffsetNat
  <2>2. CASE tp \notin DOMAIN round.offsets
    <3>1. Reached(tp) = committed[tp] /\ (tp \in owned => committed[tp] <= position[tp])
      BY <2>2 DEF Reached, RunnerInv, StateInv
    <3> QED BY <3>1, <1>0, OffsetNat
  <2> QED BY <2>1, <2>2
<1>3. committed' \in Offsets /\ \A tp \in TopicPartition : committed'[tp] = Reached(tp)
  <2> HIDE DEF Reached
  <2> QED BY <1>1, <1>2 DEF Offsets
<1>4. \A tp \in owned : committed'[tp] <= position[tp]
  BY <1>0, <1>2, <1>3
<1>5. \A r \in round.records : r[2] < committed'[r[1]]
  <2>1. \A r \in round.records : r[1] \in DOMAIN round.offsets /\ r[2] < position[r[1]]
    BY DEF RunnerInv, RoundInv
  <2>2. \A tp \in DOMAIN round.offsets : tp \in TopicPartition /\ Reached(tp) = position[tp]
    BY <1>0 DEF Reached, RunnerInv, RoundInv
  <2> QED BY <2>1, <2>2, <1>3
<1>6. setAside' = (setAside \ round.records) \union round.bad
  BY DEF CommitRound
<1>7. CASE Transactional
  <2>1. /\ output' = [r \in Record |-> output[r] + (IF r \in round.outputs THEN 1 ELSE 0)]
        /\ handled' = handled \union round.records
    BY <1>7 DEF CommitRound, AddOutputs
  <2>2. output' \in [Record -> Nat]
    BY <2>1, <1>0
  <2>3. ASSUME NEW r \in Record
        PROVE  output'[r] <= 1 /\ (output'[r] > 0 => r[2] < committed'[r[1]])
    <3>1. output[r] \in Nat /\ output[r] <= 1 /\ (output[r] > 0 => r[2] < committed[r[1]])
      BY <1>0, <1>7 DEF RunnerInv, StateInv
    <3>2. r[1] \in TopicPartition /\ r[2] \in Nat
      BY RecordParts
    <3>3. committed[r[1]] \in Nat /\ committed'[r[1]] \in Nat /\ committed[r[1]] <= committed'[r[1]]
      BY <3>2, <1>0, <1>2, <1>3, OffsetNat
    <3>4. CASE r \in round.outputs
      <4>1. committed[r[1]] <= r[2] /\ r[2] < committed'[r[1]]
        BY <3>4, <1>0, <1>5 DEF RunnerInv, RoundInv
      <4>2. output[r] = 0
        BY <4>1, <3>1, <3>2, <3>3
      <4> QED BY <4>1, <4>2, <3>4, <2>1
    <3>5. CASE r \notin round.outputs
      <4>1. output'[r] = output[r]
        BY <3>1, <3>5, <2>1
      <4> QED BY <4>1, <3>1, <3>2, <3>3
    <3> QED BY <3>4, <3>5
  <2> QED BY <2>1, <2>2, <2>3, <1>0, <1>2, <1>3, <1>4, <1>5, <1>6
<1>8. CASE ~Transactional
  <2>1. output' = output /\ handled' = handled
    BY <1>8 DEF CommitRound
  <2> QED BY <2>1, <1>0, <1>2, <1>3, <1>4, <1>5, <1>6, <1>8
<1> QED BY <1>7, <1>8

\* A failed round leaves every partition in its state before the round.
LEMMA RollbackEffect ==
  ASSUME RunnerInv, Rollback, round' = NoRound
  PROVE  /\ processors' \in [Logical -> Snapshot]
         /\ \A l \in Logical : /\ processors'[l] = Prior(l) /\ Prior(l)' = Prior(l)
                               /\ processors'[l] # Nothing => l \in LogicalsOf(owned)
<1>1. processors' = [l \in Logical |-> Prior(l)]
  BY DEF Rollback, Prior
<1>2. ASSUME NEW l \in Logical
      PROVE  Prior(l) \in Snapshot /\ (Prior(l) # Nothing => l \in LogicalsOf(owned))
  <2>1. CASE l \in DOMAIN round.prior
    BY <2>1 DEF Prior, RunnerInv, RoundInv
  <2>2. CASE l \notin DOMAIN round.prior
    <3>1. Prior(l) = processors[l]
      BY <2>2 DEF Prior
    <3> QED BY <3>1 DEF RunnerInv, RunnerType, StateInv
  <2> QED BY <2>1, <2>2
<1>3. ASSUME NEW l \in Logical
      PROVE  Prior(l)' = processors'[l]
  BY NoRoundFacts DEF Prior
<1> HIDE DEF Prior
<1> QED BY <1>1, <1>2, <1>3

-----------------------------------------------------------------------------
(***************************************************************************)
(* Every step preserves RunnerInv.                                         *)
(***************************************************************************)
LEMMA RunnerStart ==
  ASSUME Epoch = {}, Init
  PROVE  RunnerInv
<1>0. End \in Nat
  BY RunnerAssumption
<1>1. RunnerType
  <2>1. committed \in Offsets /\ position \in Offsets
    BY <1>0 DEF Init, Offsets
  <2>2. output \in [Record -> Nat]
    BY DEF Init, Zero
  <2>3. Nothing \in Snapshot
    BY DEF Snapshot
  <2>4. store \in [Logical -> [Epoch \union {NoEpoch} -> Snapshot]]
    BY <2>3 DEF Init
  <2>5. processors \in [Logical -> Snapshot]
    BY <2>3 DEF Init
  <2>6. manifest \in [Epoch -> {"absent", "partial", "complete"}]
    BY DEF Init
  <2> QED BY <2>1, <2>2, <2>4, <2>5, <2>6 DEF Init, RunnerType
<1>2. RoundInv
  BY NoRoundFacts DEF Init, RoundInv
<1>3. StateInv
  <2>1. owned = {} /\ round = NoRound
    BY DEF Init
  <2>2. \A l \in Logical : processors[l] = Nothing /\ store[l][NoEpoch] = Nothing
    BY DEF Init
  <2>3. \A l \in Logical : Prior(l) = Nothing
    BY <2>1, <2>2, PriorIdle
  <2>4. \A r \in Record : output[r] = 0
    BY DEF Init, Zero
  <2> QED BY <2>1, <2>2, <2>3, <2>4, OnceEmpty DEF StateInv
<1> QED BY <1>1, <1>2, <1>3 DEF RunnerInv

\* The steps that only move the application between its calls.
LEMMA RunnerIdle ==
  ASSUME RunnerInv, round = NoRound, round' = NoRound, pc' \in {"idle", "poll"},
         failed' \in BOOLEAN, aligner' = aligner,
         UNCHANGED <<mode, broker, manifest, store, consumer, processors, stale>>
  PROVE  RunnerInv'
<1>1. /\ committed' = committed /\ output' = output /\ handled' = handled
      /\ setAside' = setAside /\ owned' = owned /\ position' = position
      /\ mode' = mode /\ manifest' = manifest /\ store' = store
      /\ processors' = processors /\ stale' = stale
  BY DEF broker, consumer
<1>2. RunnerType'
  BY <1>1 DEF RunnerInv, RunnerType, Offsets
<1>3. RoundInv'
  BY <1>1, NoRoundFacts DEF RunnerInv, RoundInv, Transactional
<1>4. StateInv'
  <2>1. \A l \in Logical : Prior(l)' = Prior(l)
    BY <1>1 DEF Prior
  <2> HIDE DEF Prior
  <2> QED BY <1>1, <2>1 DEF RunnerInv, StateInv, Transactional
<1> QED BY <1>2, <1>3, <1>4 DEF RunnerInv

\* A callback finds no round in progress.
LEMMA CallbackRound ==
  ASSUME RunnerInv, CallbackPoint
  PROVE  round = NoRound /\ \A l : Prior(l) = processors[l]
<1>1. round = NoRound
  BY DEF RunnerInv, RoundInv, CallbackPoint
<1> QED BY <1>1, PriorIdle

\* A partition is owned when one of its topic partitions is.
LEMMA LogicalsGrow ==
  ASSUME NEW S, NEW T, S \subseteq T
  PROVE  LogicalsOf(S) \subseteq LogicalsOf(T)
BY DEF LogicalsOf

\* What an assignment does: partitions that were not owned are loaded.
LEMMA AssignEffect ==
  ASSUME RunnerInv, NEW S \in SUBSET TopicPartition, NEW unloaded \in SUBSET Logical,
         OnPartitionsAssigned(S, unloaded)
  PROVE  /\ processors' \in [Logical -> Snapshot]
         /\ \A l \in Logical : /\ Prior(l)' = processors'[l] /\ Prior(l) = processors[l]
                               /\ processors'[l] # Nothing => l \in LogicalsOf(owned')
         /\ \A l \in LogicalsOf(owned) : processors'[l] = processors[l]
         /\ \A l \in Logical \ LogicalsOf(owned), r \in Record :
              \/ Count(processors'[l], r) = Count(store[l][NoEpoch], r)
              \/ Count(processors'[l], r) = 0 /\ unloaded # {}
              \/ Count(processors'[l], r) = 0 /\ l \notin LogicalsOf(owned')
<1> DEFINE restored == LogicalsOf(S) \ LogicalsOf(owned)
<1>0. /\ processors \in [Logical -> Snapshot]
      /\ store \in [Logical -> [Epoch \union {NoEpoch} -> Snapshot]]
      /\ \A l \in Logical : processors[l] # Nothing => l \in LogicalsOf(owned)
  BY DEF RunnerInv, RunnerType, StateInv
<1>1. round = NoRound /\ round' = NoRound /\ \A l : Prior(l) = processors[l]
  BY CallbackRound DEF OnPartitionsAssigned
<1>2. /\ owned' = owned \union S
      /\ processors' = [l \in Logical |->
           IF l \in restored \ unloaded
           THEN RestorePartition(processors[l], store[l][NoEpoch]) ELSE processors[l]]
  BY DEF OnPartitionsAssigned, Load
<1>3. \A l : l \in LogicalsOf(owned) \/ l \in LogicalsOf(S) <=> l \in LogicalsOf(owned')
  BY <1>2 DEF LogicalsOf
<1>4. ASSUME NEW l \in Logical
      PROVE  /\ processors'[l] \in Snapshot
             /\ processors'[l] # Nothing => l \in LogicalsOf(owned')
             /\ l \in LogicalsOf(owned) => processors'[l] = processors[l]
             /\ l \notin LogicalsOf(owned) => \A r \in Record :
                  \/ Count(processors'[l], r) = Count(store[l][NoEpoch], r)
                  \/ Count(processors'[l], r) = 0 /\ unloaded # {}
                  \/ Count(processors'[l], r) = 0 /\ l \notin LogicalsOf(owned')
  <2>1. CASE l \in restored \ unloaded
    <3>1. processors[l] = Nothing /\ store[l][NoEpoch] \in Snapshot
      BY <2>1, <1>0
    <3>2. processors'[l] = RestorePartition(Nothing, store[l][NoEpoch])
      BY <2>1, <3>1, <1>2
    <3> QED BY <2>1, <3>1, <3>2, <1>3, RestoreCounts
  <2>2. CASE l \notin restored \ unloaded
    <3>1. processors'[l] = processors[l]
      BY <2>2, <1>2
    <3>2. l \notin LogicalsOf(owned) =>
            processors[l] = Nothing /\ (unloaded # {} \/ l \notin LogicalsOf(owned'))
      BY <2>2, <1>0, <1>3
    <3> QED BY <3>1, <3>2, <1>0, <1>3, CountEmpty
  <2> QED BY <2>1, <2>2
<1>5. processors' \in [Logical -> Snapshot]
  BY <1>2, <1>4
<1>6. \A l \in Logical : Prior(l)' = processors'[l]
  BY <1>1, NoRoundFacts DEF Prior
<1>7. LogicalsOf(owned) \subseteq Logical
  <2>1. \A tp \in TopicPartition : Partition[tp] \in Logical
    BY RunnerAssumption DEF Logical, Range
  <2> QED BY <2>1 DEF LogicalsOf, RunnerInv, RunnerType
<1> QED BY <1>1, <1>4, <1>5, <1>6, <1>7

LEMMA RunnerAssigned ==
  ASSUME RunnerInv, NEW S \in SUBSET TopicPartition, NEW unloaded \in SUBSET Logical,
         OnPartitionsAssigned(S, unloaded)
  PROVE  RunnerInv'
<1>1. /\ committed' = committed /\ output' = output /\ handled' = handled
      /\ setAside' = setAside /\ mode' = mode /\ manifest' = manifest /\ store' = store
      /\ stale' = stale /\ pc' = pc /\ failed' = failed /\ aligner' = aligner
      /\ round' = round /\ owned' = owned \union S
      /\ position' = [tp \in TopicPartition |-> IF tp \in S THEN committed[tp] ELSE position[tp]]
  BY DEF OnPartitionsAssigned, broker
<1>2. /\ processors' \in [Logical -> Snapshot]
      /\ \A l \in Logical : /\ Prior(l)' = processors'[l] /\ Prior(l) = processors[l]
                            /\ processors'[l] # Nothing => l \in LogicalsOf(owned')
      /\ \A l \in LogicalsOf(owned) : processors'[l] = processors[l]
      /\ \A l \in Logical \ LogicalsOf(owned), r \in Record :
           \/ Count(processors'[l], r) = Count(store[l][NoEpoch], r)
           \/ Count(processors'[l], r) = 0
  BY AssignEffect
<1>3. RunnerType'
  <2>1. position' \in Offsets
    BY <1>1 DEF RunnerInv, RunnerType, Offsets
  <2>2. owned' \in SUBSET TopicPartition
    BY <1>1 DEF RunnerInv, RunnerType
  <2> QED BY <1>1, <1>2, <2>1, <2>2 DEF RunnerInv, RunnerType, Offsets
<1>4. round = NoRound
  BY CallbackRound DEF OnPartitionsAssigned
<1>5. RoundInv'
  BY <1>1, <1>4, NoRoundFacts DEF RoundInv, Transactional
<1>6. StateInv'
  <2>1. \A tp \in owned' : committed'[tp] <= position'[tp]
    <3> SUFFICES ASSUME NEW tp \in owned' PROVE committed[tp] <= position'[tp]
      BY <1>1
    <3>1. tp \in TopicPartition /\ committed[tp] \in Nat
      BY <1>1, OffsetNat DEF RunnerInv, RunnerType
    <3> QED BY <3>1, <1>1 DEF RunnerInv, StateInv
  <2>2. ASSUME NEW l \in Logical
        PROVE  /\ Once(store'[l][NoEpoch], committed', {})
               /\ Once(Prior(l)', committed', {})
               /\ Once(processors'[l], committed', round'.records)
    <3>0. Once(store[l][NoEpoch], committed, {}) /\ Once(processors[l], committed, {})
      BY <1>2 DEF RunnerInv, StateInv
    <3>1. Once(processors'[l], committed, {})
      <4>1. CASE l \in LogicalsOf(owned)
        BY <4>1, <1>2, <3>0
      <4>2. CASE l \notin LogicalsOf(owned)
        BY <4>2, <1>2, <3>0 DEF Once
      <4> QED BY <4>1, <4>2
    <3>2. round'.records = {}
      BY <1>1, <1>4, NoRoundFacts
    <3> QED BY <3>0, <3>1, <3>2, <1>1, <1>2
  <2>3. Transactional' => \A r \in Record : output'[r] <= 1
                            /\ (output'[r] > 0 => r[2] < committed'[r[1]])
    BY <1>1 DEF RunnerInv, StateInv, Transactional
  <2> HIDE DEF Prior
  <2> QED BY <1>2, <2>1, <2>2, <2>3 DEF StateInv
<1> QED BY <1>3, <1>5, <1>6 DEF RunnerInv

\* What a revocation does: the partitions nobody owns any longer are dropped,
\* and the saved ones are in the store.
LEMMA ReleaseEffect ==
  ASSUME RunnerInv, NEW S \in SUBSET owned, NEW saved, CallbackPoint, round' = round,
         Release(S, saved)
  PROVE  /\ processors' \in [Logical -> Snapshot]
         /\ store' \in [Logical -> [Epoch \union {NoEpoch} -> Snapshot]]
         /\ owned' \in SUBSET owned
         /\ \A l \in Logical :
              /\ Prior(l)' = processors'[l] /\ Prior(l) = processors[l]
              /\ processors'[l] = IF l \in LogicalsOf(owned') THEN processors[l] ELSE Nothing
              /\ \/ store'[l][NoEpoch] = store[l][NoEpoch]
                    /\ (l \notin LogicalsOf(owned) \/ l \in LogicalsOf(owned') \/ l \notin saved)
                 \/ store'[l][NoEpoch] = processors[l]
                    /\ l \in LogicalsOf(owned) \ LogicalsOf(owned')
<1> DEFINE released == LogicalsOf(S) \ LogicalsOf(owned \ S)
<1>0. /\ processors \in [Logical -> Snapshot]
      /\ store \in [Logical -> [Epoch \union {NoEpoch} -> Snapshot]]
      /\ \A l \in Logical : processors[l] # Nothing => l \in LogicalsOf(owned)
      /\ Nothing \in Snapshot
  BY DEF RunnerInv, RunnerType, StateInv, Snapshot
<1>1. round = NoRound /\ round' = NoRound /\ \A l : Prior(l) = processors[l]
  BY CallbackRound
<1>2. /\ owned' = owned \ S
      /\ store' = [l \in Logical |-> IF l \in released \intersect saved
                                     THEN [store[l] EXCEPT ![NoEpoch] = processors[l]]
                                     ELSE store[l]]
      /\ processors' = [l \in Logical |-> IF l \in released THEN Nothing ELSE processors[l]]
  BY DEF Release
<1>3. \A l : l \in released <=> l \in LogicalsOf(owned) /\ l \notin LogicalsOf(owned')
  BY <1>2 DEF LogicalsOf
<1>4. \A l : l \in LogicalsOf(owned') => l \in LogicalsOf(owned)
  BY <1>2 DEF LogicalsOf
<1> HIDE DEF released
<1>5. processors' \in [Logical -> Snapshot]
  BY <1>0, <1>2
<1>6. ASSUME NEW l \in Logical
      PROVE  /\ store'[l] \in [Epoch \union {NoEpoch} -> Snapshot]
             /\ store'[l][NoEpoch]
                  = IF l \in released \intersect saved THEN processors[l] ELSE store[l][NoEpoch]
  <2>1. store[l] \in [Epoch \union {NoEpoch} -> Snapshot] /\ processors[l] \in Snapshot
    BY <1>0
  <2>2. store'[l] = IF l \in released \intersect saved
                    THEN [store[l] EXCEPT ![NoEpoch] = processors[l]] ELSE store[l]
    BY <1>2
  <2> QED BY <2>1, <2>2
<1>7. store' \in [Logical -> [Epoch \union {NoEpoch} -> Snapshot]]
  BY <1>2, <1>6
<1>8. ASSUME NEW l \in Logical
      PROVE  processors'[l] = IF l \in LogicalsOf(owned') THEN processors[l] ELSE Nothing
  BY <1>0, <1>2, <1>3, <1>4
<1>9. \A l \in Logical : Prior(l)' = processors'[l]
  BY <1>1, NoRoundFacts DEF Prior
<1>10. ASSUME NEW l \in Logical
       PROVE  \/ store'[l][NoEpoch] = store[l][NoEpoch]
                 /\ (l \notin LogicalsOf(owned) \/ l \in LogicalsOf(owned') \/ l \notin saved)
              \/ store'[l][NoEpoch] = processors[l]
                 /\ l \in LogicalsOf(owned) \ LogicalsOf(owned')
  BY <1>3, <1>6
<1>11. owned' \in SUBSET owned
  BY <1>2
<1> QED BY <1>1, <1>5, <1>7, <1>8, <1>9, <1>10, <1>11

LEMMA RunnerReleased ==
  ASSUME RunnerInv, NEW S \in SUBSET owned, NEW saved, Rebalance, Release(S, saved)
  PROVE  RunnerInv'
<1>1. /\ committed' = committed /\ output' = output /\ handled' = handled
      /\ setAside' = setAside /\ mode' = mode /\ manifest' = manifest
      /\ stale' = stale /\ pc' = pc /\ failed' = failed /\ aligner' = aligner
      /\ round' = round /\ position' = position /\ CallbackPoint
  BY DEF Rebalance, broker
<1>2. /\ processors' \in [Logical -> Snapshot]
      /\ store' \in [Logical -> [Epoch \union {NoEpoch} -> Snapshot]]
      /\ owned' \in SUBSET owned
      /\ \A l \in Logical :
           /\ Prior(l)' = processors'[l] /\ Prior(l) = processors[l]
           /\ processors'[l] = IF l \in LogicalsOf(owned') THEN processors[l] ELSE Nothing
           /\ store'[l][NoEpoch] \in {store[l][NoEpoch], processors[l]}
  BY <1>1, ReleaseEffect
<1>3. RunnerType'
  <2>1. owned' \in SUBSET TopicPartition
    BY <1>2 DEF RunnerInv, RunnerType
  <2> QED BY <1>1, <1>2, <2>1 DEF RunnerInv, RunnerType, Offsets
<1>4. round = NoRound
  BY <1>1, CallbackRound
<1>5. RoundInv'
  BY <1>1, <1>4, NoRoundFacts DEF RoundInv, Transactional
<1>6. StateInv'
  <2>1. \A tp \in owned' : committed'[tp] <= position'[tp]
    BY <1>1, <1>2 DEF RunnerInv, StateInv
  <2>2. ASSUME NEW l \in Logical
        PROVE  /\ Once(store'[l][NoEpoch], committed', {})
               /\ Once(Prior(l)', committed', {})
               /\ Once(processors'[l], committed', round'.records)
    <3>0. Once(store[l][NoEpoch], committed, {}) /\ Once(processors[l], committed, {})
      BY <1>2 DEF RunnerInv, StateInv
    <3>1. Once(processors'[l], committed, {})
      BY <1>2, <3>0, OnceEmpty
    <3>2. round'.records = {}
      BY <1>1, <1>4, NoRoundFacts
    <3> QED BY <3>0, <3>1, <3>2, <1>1, <1>2
  <2>3. Transactional' => \A r \in Record : output'[r] <= 1
                            /\ (output'[r] > 0 => r[2] < committed'[r[1]])
    BY <1>1 DEF RunnerInv, StateInv, Transactional
  <2>4. \A l \in Logical : processors'[l] # Nothing => l \in LogicalsOf(owned')
    BY <1>2
  <2> HIDE DEF Prior
  <2> QED BY <2>1, <2>2, <2>3, <2>4 DEF StateInv
<1> QED BY <1>3, <1>5, <1>6 DEF RunnerInv

\* What another member does: it loads the snapshot, runs the records from the
\* committed offset, commits them and saves the snapshot.
LEMMA OtherEffect ==
  ASSUME RunnerInv, NEW l \in Logical, NEW next \in Offsets, OtherMember(l, next)
  PROVE  /\ committed' = next
         /\ \A tp \in TopicPartition : committed[tp] <= next[tp]
         /\ \A tp \in TopicPartition : Partition[tp] # l => next[tp] = committed[tp]
         /\ \A tp \in owned : next[tp] = committed[tp]
         /\ l \notin LogicalsOf(owned)
         /\ store' \in [Logical -> [Epoch \union {NoEpoch} -> Snapshot]]
         /\ \A k \in Logical \ {l} : store'[k][NoEpoch] = store[k][NoEpoch]
         /\ \A r \in Record : Count(store'[l][NoEpoch], r)
              = Count(store[l][NoEpoch], r) + Holds(Between(committed, next), r)
         /\ output' = [r \in Record |-> output[r] + Holds(Between(committed, next), r)]
         /\ handled' = handled \union Between(committed, next)
         /\ setAside' = setAside \ Between(committed, next)
<1> DEFINE input == [tp \in TopicPartition |->
                       [i \in 1 .. next[tp] - committed[tp] |-> committed[tp] + i - 1]]
           state == RestorePartition(Nothing, store[l][NoEpoch])
           ran   == {r \in Record : r[1] \in Sources(l)
                                    /\ r[2] >= committed[r[1]] /\ r[2] < next[r[1]]}
<1>0. /\ committed \in Offsets /\ owned \in SUBSET TopicPartition
      /\ store \in [Logical -> [Epoch \union {NoEpoch} -> Snapshot]]
  BY DEF RunnerInv, RunnerType
<1>1. /\ l \notin LogicalsOf(owned) /\ committed' = next
      /\ \A tp \in TopicPartition : IF tp \in Sources(l) THEN next[tp] >= committed[tp]
                                    ELSE next[tp] = committed[tp]
      /\ output' = [r \in Record |-> output[r] + (IF r \in ran THEN 1 ELSE 0)]
      /\ handled' = handled \union ran
      /\ setAside' = setAside \ ran
      /\ store' = [store EXCEPT ![l][NoEpoch] = Applied(state, input)]
  BY DEF OtherMember, Load
<1>2. /\ \A tp \in TopicPartition : committed[tp] <= next[tp]
      /\ \A tp \in TopicPartition : Partition[tp] # l => next[tp] = committed[tp]
  <2>1. \A tp \in TopicPartition : tp \in Sources(l) <=> Partition[tp] = l
    BY DEF Sources
  <2>2. \A tp \in TopicPartition : committed[tp] \in Nat /\ next[tp] \in Nat
    BY <1>0, OffsetNat
  <2> QED BY <2>1, <2>2, <1>1
<1>3. \A tp \in owned : next[tp] = committed[tp]
  BY <1>0, <1>1, <1>2 DEF LogicalsOf
<1>4. ran = Between(committed, next)
  <2> SUFFICES ASSUME NEW r \in Record
               PROVE  r[1] \in Sources(l) /\ r[2] >= committed[r[1]] /\ r[2] < next[r[1]]
                      <=> committed[r[1]] <= r[2] /\ r[2] < next[r[1]]
    BY DEF Between
  <2>1. r[1] \in TopicPartition /\ r[2] \in Nat
    BY RecordParts
  <2>2. committed[r[1]] \in Nat /\ next[r[1]] \in Nat
    BY <2>1, <1>0, OffsetNat
  <2>3. r[1] \notin Sources(l) => next[r[1]] = committed[r[1]]
    BY <1>1, <2>1
  <2> QED BY <2>1, <2>2, <2>3
<1>5. input = Polled(TopicPartition, committed, next)
  BY DEF Polled, Stretch
<1>6. store[l] \in [Epoch \union {NoEpoch} -> Snapshot] /\ store[l][NoEpoch] \in Snapshot
  BY <1>0
<1>7. /\ state \in Snapshot
      /\ \A r \in Record : Count(state, r) = Count(store[l][NoEpoch], r)
  BY <1>6, RestoreCounts
<1>8. {x \in Between(committed, next) : x[1] \in TopicPartition} = Between(committed, next)
  BY RecordParts DEF Between
<1> HIDE DEF state, input, ran
<1>9. /\ Applied(state, input) \in Snapshot
      /\ \A r \in Record : Count(Applied(state, input), r)
                           = Count(store[l][NoEpoch], r) + Holds(Between(committed, next), r)
  <2>1. /\ Applied(state, Polled(TopicPartition, committed, next)) \in Snapshot
        /\ \A r \in Record : Count(Applied(state, Polled(TopicPartition, committed, next)), r)
             = Count(state, r)
               + Holds({x \in Between(committed, next) : x[1] \in TopicPartition}, r)
    BY <1>0, <1>2, <1>7, AppliedFacts
  <2> QED BY <2>1, <1>5, <1>7, <1>8
<1>10. /\ store' \in [Logical -> [Epoch \union {NoEpoch} -> Snapshot]]
       /\ store'[l][NoEpoch] = Applied(state, input)
       /\ \A k \in Logical \ {l} : store'[k][NoEpoch] = store[k][NoEpoch]
  BY <1>0, <1>1, <1>6, <1>9
<1>11. output' = [r \in Record |-> output[r] + Holds(Between(committed, next), r)]
  BY <1>1, <1>4 DEF Holds
<1> QED BY <1>1, <1>2, <1>3, <1>4, <1>9, <1>10, <1>11

LEMMA RunnerOther ==
  ASSUME RunnerInv, NEW l \in Logical, NEW next \in Offsets, OtherMember(l, next)
  PROVE  RunnerInv'
<1>1. /\ mode' = mode /\ manifest' = manifest /\ owned' = owned /\ position' = position
      /\ pc' = pc /\ failed' = failed /\ processors' = processors /\ aligner' = aligner
      /\ round' = round /\ stale' = stale
  BY DEF OtherMember, consumer
<1>2. /\ committed' = next
      /\ \A tp \in TopicPartition : committed[tp] <= next[tp]
      /\ \A tp \in TopicPartition : Partition[tp] # l => next[tp] = committed[tp]
      /\ \A tp \in owned : next[tp] = committed[tp]
      /\ l \notin LogicalsOf(owned)
      /\ store' \in [Logical -> [Epoch \union {NoEpoch} -> Snapshot]]
      /\ \A k \in Logical \ {l} : store'[k][NoEpoch] = store[k][NoEpoch]
      /\ \A r \in Record : Count(store'[l][NoEpoch], r)
           = Count(store[l][NoEpoch], r) + Holds(Between(committed, next), r)
      /\ output' = [r \in Record |-> output[r] + Holds(Between(committed, next), r)]
      /\ handled' = handled \union Between(committed, next)
      /\ setAside' = setAside \ Between(committed, next)
  BY OtherEffect
<1>0. committed \in Offsets /\ output \in [Record -> Nat]
  BY DEF RunnerInv, RunnerType
<1>3. \A r \in Record : Holds(Between(committed, next), r) \in {0, 1}
  BY DEF Holds
<1>4. Between(committed, next) \in SUBSET Record
  BY DEF Between
<1>5. ASSUME NEW r \in Record
      PROVE  /\ r[1] \in TopicPartition /\ r[2] \in Nat
             /\ committed[r[1]] \in Nat /\ next[r[1]] \in Nat /\ committed[r[1]] <= next[r[1]]
             /\ IF committed[r[1]] <= r[2] /\ r[2] < next[r[1]]
                THEN Holds(Between(committed, next), r) = 1
                ELSE Holds(Between(committed, next), r) = 0
  <2>1. r[1] \in TopicPartition /\ r[2] \in Nat
    BY RecordParts
  <2> QED BY <2>1, <1>0, <1>2, OffsetNat DEF Holds, Between
<1>6. RunnerType'
  <2>1. output' \in [Record -> Nat]
    <3>1. \A r \in Record : output[r] + Holds(Between(committed, next), r) \in Nat
      BY <1>0, <1>3
    <3> QED BY <3>1, <1>2
  <2>2. handled' \in SUBSET Record /\ setAside' \in SUBSET handled'
    BY <1>2, <1>4 DEF RunnerInv, RunnerType
  <2> QED BY <1>1, <1>2, <2>1, <2>2 DEF RunnerInv, RunnerType, Offsets
<1>7. RoundInv'
  <2>1. \A tp \in DOMAIN round.offsets : committed'[tp] = committed[tp]
    BY <1>2 DEF RunnerInv, RoundInv
  <2>2. \A r \in round.records : r[1] \in DOMAIN round.offsets
    BY DEF RunnerInv, RoundInv
  <2>3. round.records \in SUBSET handled => round.records \in SUBSET handled'
    BY <1>2
  <2> QED BY <1>1, <2>1, <2>2, <2>3 DEF RunnerInv, RoundInv, Transactional
<1>8. StateInv'
  <2>1. \A tp \in owned' : committed'[tp] <= position'[tp]
    BY <1>1, <1>2 DEF RunnerInv, StateInv
  <2>2. \A k \in Logical : processors'[k] # Nothing => k \in LogicalsOf(owned')
    BY <1>1 DEF RunnerInv, StateInv
  <2>3. ASSUME NEW k \in Logical
        PROVE  /\ Once(Prior(k)', committed', {})
               /\ Once(processors'[k], committed', round'.records)
    <3>1. Prior(k)' = Prior(k)
      BY <1>1 DEF Prior
    <3>2. Once(Prior(k), committed, {}) /\ Once(processors[k], committed, round.records)
      BY DEF RunnerInv, StateInv
    <3>3. Prior(k) \in Snapshot /\ processors[k] \in Snapshot
      BY DEF RunnerInv, RunnerType, RoundInv, Prior
    <3> HIDE DEF Prior
    <3> QED BY <3>1, <3>2, <3>3, <1>0, <1>1, <1>2, OnceMoves
  <2>4. ASSUME NEW k \in Logical
        PROVE  Once(store'[k][NoEpoch], committed', {})
    <3>0. Once(store[k][NoEpoch], committed, {}) /\ store[k][NoEpoch] \in Snapshot
      BY DEF RunnerInv, StateInv, RunnerType
    <3>1. CASE k # l
      BY <3>0, <3>1, <1>0, <1>2, OnceMoves
    <3>2. CASE k = l
      <4> SUFFICES ASSUME NEW r \in Record
                   PROVE  /\ Count(store'[l][NoEpoch], r) <= 1
                          /\ Count(store'[l][NoEpoch], r) > 0 => r[2] < next[r[1]]
        BY <3>2, <1>2 DEF Once
      <4>1. /\ Count(store[l][NoEpoch], r) \in Nat /\ Count(store[l][NoEpoch], r) <= 1
            /\ Count(store[l][NoEpoch], r) > 0 => r[2] < committed[r[1]]
        BY <3>0, <3>2, CountNat DEF Once
      <4>2. Count(store'[l][NoEpoch], r)
              = Count(store[l][NoEpoch], r) + Holds(Between(committed, next), r)
        BY <1>2
      <4> QED BY <4>1, <4>2, <1>5
    <3> QED BY <3>1, <3>2
  <2>5. ASSUME Transactional', NEW r \in Record
        PROVE  output'[r] <= 1 /\ (output'[r] > 0 => r[2] < committed'[r[1]])
    <3>1. output[r] \in Nat /\ output[r] <= 1 /\ (output[r] > 0 => r[2] < committed[r[1]])
      BY <2>5, <1>0, <1>1 DEF RunnerInv, StateInv, Transactional
    <3>2. output'[r] = output[r] + Holds(Between(committed, next), r)
      BY <1>2
    <3> QED BY <3>1, <3>2, <1>2, <1>5
  <2> HIDE DEF Prior
  <2> QED BY <2>1, <2>2, <2>3, <2>4, <2>5 DEF StateInv
<1> QED BY <1>6, <1>7, <1>8 DEF RunnerInv

LEMMA RunnerPoll ==
  ASSUME Epoch = {}, RunnerInv, NEW next \in Offsets, NEW bad \in SUBSET Logical,
         Poll(next, bad)
  PROVE  RunnerInv'
<1>1. /\ committed' = committed /\ output' = output /\ handled' = handled
      /\ setAside' = setAside /\ mode' = mode /\ manifest' = manifest /\ store' = store
      /\ owned' = owned /\ failed' = failed /\ stale' = stale /\ pc' = "send" /\ pc = "poll"
  BY DEF Poll, FetchUpTo, broker
<1>2. /\ \A tp \in TopicPartition : position[tp] <= next[tp]
      /\ \A tp \in TopicPartition \ owned : next[tp] = position[tp]
      /\ position' = next /\ aligner' = aligner /\ ~round'.barrier
      /\ DOMAIN round'.offsets = {tp \in TopicPartition : position[tp] < next[tp]}
      /\ \A tp \in DOMAIN round'.offsets : round'.offsets[tp] = next[tp]
      /\ round'.records = Between(position, next)
      /\ round'.bad \in SUBSET round'.records
      /\ round'.outputs \in SUBSET round'.records
      /\ DOMAIN round'.prior \in SUBSET LogicalsOf(owned)
      /\ \A l \in DOMAIN round'.prior : l \in Logical /\ round'.prior[l] = processors[l]
      /\ processors' \in [Logical -> Snapshot]
      /\ \A l \in Logical : /\ Prior(l)' = processors[l]
                            /\ processors'[l] # Nothing => l \in LogicalsOf(owned)
      /\ \A l \in Logical, r \in Record :
           Count(processors'[l], r)
             = Count(processors[l], r)
               + Holds({x \in round'.records \ round'.bad : Partition[x[1]] = l}, r)
  BY PollEffect
<1>3. /\ committed \in Offsets /\ position \in Offsets /\ owned \in SUBSET TopicPartition
      /\ processors \in [Logical -> Snapshot]
      /\ \A tp \in owned : committed[tp] <= position[tp]
      /\ \A l \in Logical : /\ Once(processors[l], committed, round.records)
                            /\ Once(store[l][NoEpoch], committed, {})
      /\ round = NoRound
  BY <1>1 DEF RunnerInv, RunnerType, StateInv, RoundInv
<1>4. RunnerType'
  BY <1>1, <1>2 DEF RunnerInv, RunnerType, Offsets
<1>5. \A tp \in DOMAIN round'.offsets :
        tp \in owned /\ position[tp] < next[tp] /\ committed[tp] < next[tp]
  <2> SUFFICES ASSUME NEW tp \in DOMAIN round'.offsets
               PROVE  tp \in owned /\ position[tp] < next[tp] /\ committed[tp] < next[tp]
    OBVIOUS
  <2>1. tp \in TopicPartition /\ position[tp] < next[tp]
    BY <1>2
  <2>2. committed[tp] \in Nat /\ position[tp] \in Nat /\ next[tp] \in Nat
    BY <2>1, <1>3, OffsetNat
  <2>3. tp \in owned
    BY <2>1, <2>2, <1>2
  <2>4. committed[tp] <= position[tp]
    BY <2>3, <1>3
  <2> QED BY <2>1, <2>2, <2>3, <2>4
<1>6. ASSUME NEW r \in round'.records
      PROVE  /\ r \in Record /\ r[1] \in DOMAIN round'.offsets
             /\ committed[r[1]] <= r[2] /\ r[2] < next[r[1]]
  <2>1. r \in Record /\ position[r[1]] <= r[2] /\ r[2] < next[r[1]]
    BY <1>2 DEF Between
  <2>2. r[1] \in TopicPartition /\ r[2] \in Nat
    BY <2>1, RecordParts
  <2>3. committed[r[1]] \in Nat /\ position[r[1]] \in Nat /\ next[r[1]] \in Nat
    BY <2>2, <1>3, OffsetNat
  <2>4. r[1] \in DOMAIN round'.offsets
    BY <2>1, <2>2, <2>3, <1>2
  <2>5. committed[r[1]] <= position[r[1]]
    BY <2>4, <1>3, <1>5
  <2> QED BY <2>1, <2>2, <2>3, <2>4, <2>5
<1>7. RoundInv'
  <2>1. \A l \in DOMAIN round'.prior : round'.prior[l] \in Snapshot
    BY <1>2, <1>3
  <2>2. round'.records \in SUBSET Record /\ DOMAIN round'.offsets \in SUBSET owned
    BY <1>5, <1>6
  <2> QED BY <1>1, <1>2, <1>5, <1>6, <2>1, <2>2 DEF RoundInv
<1>8. StateInv'
  <2>1. \A tp \in owned' : committed'[tp] <= position'[tp]
    <3> SUFFICES ASSUME NEW tp \in owned PROVE committed[tp] <= next[tp]
      BY <1>1, <1>2
    <3>1. committed[tp] \in Nat /\ position[tp] \in Nat /\ next[tp] \in Nat
      BY <1>3, OffsetNat
    <3> QED BY <3>1, <1>2, <1>3
  <2>2. ASSUME NEW l \in Logical
        PROVE  /\ Once(store'[l][NoEpoch], committed', {})
               /\ Once(Prior(l)', committed', {})
               /\ Once(processors'[l], committed', round'.records)
    <3>1. Once(processors[l], committed, {}) /\ processors[l] \in Snapshot
      BY <1>3, NoRoundFacts
    <3>2. ASSUME NEW r \in Record
          PROVE  /\ Count(processors'[l], r) <= 1
                 /\ Count(processors'[l], r) > 0 => r[2] < committed[r[1]] \/ r \in round'.records
      <4> DEFINE added == {x \in round'.records \ round'.bad : Partition[x[1]] = l}
      <4>1. /\ Count(processors[l], r) \in Nat /\ Count(processors[l], r) <= 1
            /\ Count(processors[l], r) > 0 => r[2] < committed[r[1]]
        BY <3>1, CountNat DEF Once
      <4>2. Count(processors'[l], r) = Count(processors[l], r) + Holds(added, r)
        BY <1>2
      <4>3. CASE r \in added
        <5>1. r \in round'.records /\ Holds(added, r) = 1
          BY <4>3 DEF Holds
        <5>2. committed[r[1]] <= r[2] /\ r[2] \in Nat /\ committed[r[1]] \in Nat
          <6>1. r[1] \in TopicPartition /\ r[2] \in Nat
            BY RecordParts
          <6> QED BY <6>1, <5>1, <1>3, <1>6, OffsetNat
        <5>3. Count(processors[l], r) = 0
          BY <4>1, <5>2
        <5> HIDE DEF added
        <5> QED BY <4>2, <5>1, <5>3
      <4>4. CASE r \notin added
        <5>1. Holds(added, r) = 0
          BY <4>4 DEF Holds
        <5> HIDE DEF added
        <5> QED BY <4>1, <4>2, <5>1
      <4> QED BY <4>3, <4>4
    <3>3. Once(processors'[l], committed, round'.records)
      BY <3>2 DEF Once
    <3> QED BY <3>1, <3>3, <1>1, <1>2, <1>3
  <2>3. Transactional' => \A r \in Record : output'[r] <= 1
                            /\ (output'[r] > 0 => r[2] < committed'[r[1]])
    BY <1>1 DEF RunnerInv, StateInv, Transactional
  <2>4. \A l \in Logical : processors'[l] # Nothing => l \in LogicalsOf(owned')
    BY <1>1, <1>2
  <2> HIDE DEF Prior
  <2> QED BY <2>1, <2>2, <2>3, <2>4 DEF StateInv
<1> QED BY <1>4, <1>7, <1>8 DEF RunnerInv

LEMMA RunnerProcessFails ==
  ASSUME Epoch = {}, RunnerInv, NEW next \in Offsets, ProcessFails(next)
  PROVE  RunnerInv'
<1>1. /\ committed' = committed /\ output' = output /\ handled' = handled
      /\ setAside' = setAside /\ mode' = mode /\ manifest' = manifest /\ store' = store
      /\ owned' = owned /\ failed' = TRUE /\ stale' = stale /\ pc' = "idle" /\ pc = "poll"
      /\ processors' = processors /\ round' = NoRound /\ position' = next
      /\ \A tp \in owned : next[tp] >= position[tp]
      /\ aligner' = AcceptedAligner(next)
  BY DEF ProcessFails, FetchUpTo, ReturnError, broker, RunnerInv, RunnerType
<1>2. round = NoRound
  BY <1>1 DEF RunnerInv, RoundInv
<1>3. aligner' = aligner
  BY <1>1, AlignerIdle DEF RunnerInv, RunnerType
<1>4. RunnerType'
  BY <1>1, <1>3 DEF RunnerInv, RunnerType, Offsets
<1>5. RoundInv'
  BY <1>1, NoRoundFacts DEF RoundInv
<1>6. StateInv'
  <2>1. \A tp \in owned' : committed'[tp] <= position'[tp]
    <3> SUFFICES ASSUME NEW tp \in owned PROVE committed[tp] <= next[tp]
      BY <1>1
    <3>1. committed[tp] \in Nat /\ position[tp] \in Nat /\ next[tp] \in Nat
      BY OffsetNat DEF RunnerInv, RunnerType
    <3> QED BY <3>1, <1>1 DEF RunnerInv, StateInv
  <2>2. \A l \in Logical : Prior(l)' = Prior(l)
    BY <1>1, <1>2 DEF Prior
  <2> HIDE DEF Prior
  <2> QED BY <1>1, <1>2, <2>1, <2>2 DEF RunnerInv, StateInv, Transactional
<1> QED BY <1>4, <1>5, <1>6 DEF RunnerInv

LEMMA RunnerSend ==
  ASSUME RunnerInv, Send
  PROVE  RunnerInv'
<1>1. /\ committed' = committed /\ setAside' = setAside /\ mode' = mode
      /\ manifest' = manifest /\ store' = store /\ owned' = owned /\ position' = position
      /\ failed' = failed /\ stale' = stale /\ pc = "send"
      /\ processors' = processors /\ round' = round /\ aligner' = aligner
      /\ IF Transactional THEN output' = output /\ handled' = handled
         ELSE AddOutputs(round.outputs) /\ handled' = handled \union round.records
  BY DEF Send, consumer
<1>2. pc' = "commit"
  BY DEF Send, RunnerInv, RoundInv
<1>3. output' \in [Record -> Nat] /\ handled' \in SUBSET Record
      /\ handled \in SUBSET handled' /\ (Transactional => output' = output)
      /\ (~Transactional => round.records \in SUBSET handled')
  <2>1. /\ output \in [Record -> Nat] /\ handled \in SUBSET Record
        /\ round.records \in SUBSET Record
    BY DEF RunnerInv, RunnerType, RoundInv
  <2>2. CASE Transactional
    BY <1>1, <2>1, <2>2
  <2>3. CASE ~Transactional
    <3>1. output' = [r \in Record |-> output[r] + (IF r \in round.outputs THEN 1 ELSE 0)]
      BY <1>1, <2>3 DEF AddOutputs
    <3>2. output' \in [Record -> Nat]
      BY <2>1, <3>1
    <3> QED BY <1>1, <2>1, <2>3, <3>2
  <2> QED BY <2>2, <2>3
<1>4. RunnerType'
  <2>1. setAside' \in SUBSET handled'
    BY <1>1, <1>3 DEF RunnerInv, RunnerType
  <2> QED BY <1>1, <1>2, <1>3, <2>1 DEF RunnerInv, RunnerType, Offsets
<1>5. RoundInv'
  BY <1>1, <1>2, <1>3 DEF RunnerInv, RoundInv, Transactional
<1>6. StateInv'
  <2>1. \A l \in Logical : Prior(l)' = Prior(l)
    BY <1>1 DEF Prior
  <2> HIDE DEF Prior
  <2> QED BY <1>1, <1>3, <2>1 DEF RunnerInv, StateInv, Transactional
<1> QED BY <1>4, <1>5, <1>6 DEF RunnerInv

LEMMA RunnerSendFails ==
  ASSUME RunnerInv, NEW acknowledged \in SUBSET round.outputs, SendFails(acknowledged)
  PROVE  RunnerInv'
<1>1. /\ committed' = committed /\ setAside' = setAside /\ handled' = handled
      /\ mode' = mode /\ manifest' = manifest /\ store' = store /\ owned' = owned
      /\ position' = position /\ stale' = stale /\ aligner' = aligner
      /\ failed' = TRUE /\ pc' = "idle" /\ round' = NoRound /\ Rollback
      /\ AddOutputs(IF Transactional THEN {} ELSE acknowledged)
  BY DEF SendFails, consumer, ReturnError
<1>2. output' \in [Record -> Nat] /\ (Transactional => output' = output)
  <2>1. output \in [Record -> Nat]
    BY DEF RunnerInv, RunnerType
  <2>2. output' = [r \in Record |->
          output[r] + (IF r \in (IF Transactional THEN {} ELSE acknowledged) THEN 1 ELSE 0)]
    BY <1>1 DEF AddOutputs
  <2>3. output' \in [Record -> Nat]
    BY <2>1, <2>2
  <2>4. Transactional => \A r \in Record : output'[r] = output[r]
    BY <2>1, <2>2
  <2> QED BY <2>1, <2>3, <2>4
<1>3. /\ processors' \in [Logical -> Snapshot]
      /\ \A l \in Logical : /\ processors'[l] = Prior(l) /\ Prior(l)' = Prior(l)
                            /\ processors'[l] # Nothing => l \in LogicalsOf(owned)
  BY <1>1, RollbackEffect
<1>4. RunnerType'
  BY <1>1, <1>2, <1>3 DEF RunnerInv, RunnerType, Offsets
<1>5. RoundInv'
  BY <1>1, NoRoundFacts DEF RoundInv
<1>6. StateInv'
  <2>1. round'.records = {}
    BY <1>1, NoRoundFacts
  <2> HIDE DEF Prior
  <2> QED BY <1>1, <1>2, <1>3, <2>1 DEF RunnerInv, StateInv, Transactional
<1> QED BY <1>4, <1>5, <1>6 DEF RunnerInv

LEMMA RunnerCommit ==
  ASSUME RunnerInv, Commit
  PROVE  RunnerInv'
<1>1. /\ mode' = mode /\ manifest' = manifest /\ store' = store /\ owned' = owned
      /\ position' = position /\ failed' = failed /\ processors' = processors
      /\ stale' = stale /\ pc = "commit" /\ pc' = "idle" /\ round' = NoRound /\ CommitRound
  BY DEF Commit, consumer
<1>2. aligner' = aligner
  BY DEF Commit, RunnerInv, RoundInv
<1>3. /\ committed' \in Offsets
      /\ \A tp \in TopicPartition : committed[tp] <= committed'[tp]
      /\ \A tp \in owned : committed'[tp] <= position[tp]
      /\ \A r \in round.records : r[2] < committed'[r[1]]
      /\ output' \in [Record -> Nat] /\ handled' \in SUBSET Record
      /\ setAside' \in SUBSET handled'
      /\ Transactional => \A r \in Record : /\ output'[r] <= 1
                                            /\ output'[r] > 0 => r[2] < committed'[r[1]]
  BY <1>1, CommitEffect
<1>4. RunnerType'
  BY <1>1, <1>2, <1>3 DEF RunnerInv, RunnerType, Offsets
<1>5. RoundInv'
  BY <1>1, NoRoundFacts DEF RoundInv
<1>6. StateInv'
  <2>1. ASSUME NEW l \in Logical
        PROVE  /\ Once(store'[l][NoEpoch], committed', {})
               /\ Once(Prior(l)', committed', {})
               /\ Once(processors'[l], committed', round'.records)
    <3>0. committed \in Offsets /\ processors[l] \in Snapshot /\ store[l][NoEpoch] \in Snapshot
      BY DEF RunnerInv, RunnerType
    <3>1. Once(store[l][NoEpoch], committed, {})
          /\ Once(processors[l], committed, round.records)
      BY DEF RunnerInv, StateInv
    <3>2. Once(store[l][NoEpoch], committed', {})
      BY <3>0, <3>1, <1>3, OnceMoves
    <3>3. Once(processors[l], committed', {})
      BY <3>0, <3>1, <1>3, OnceMoves
    <3>4. Prior(l)' = processors'[l] /\ round'.records = {}
      BY <1>1, NoRoundFacts DEF Prior
    <3> QED BY <3>2, <3>3, <3>4, <1>1
  <2>2. \A l \in Logical : processors'[l] # Nothing => l \in LogicalsOf(owned')
    BY <1>1 DEF RunnerInv, StateInv
  <2> HIDE DEF Prior
  <2> QED BY <1>1, <1>3, <2>1, <2>2 DEF StateInv, Transactional
<1> QED BY <1>4, <1>5, <1>6 DEF RunnerInv

LEMMA RunnerCommitFails ==
  ASSUME RunnerInv, NEW applied \in BOOLEAN, CommitFails(applied)
  PROVE  RunnerInv'
<1>1. /\ mode' = mode /\ manifest' = manifest /\ store' = store /\ owned' = owned
      /\ position' = position /\ stale' = stale /\ pc = "commit" /\ aligner' = aligner
      /\ failed' = TRUE /\ pc' = "idle" /\ round' = NoRound /\ Rollback
      /\ CommitRound \/ UNCHANGED broker
  BY DEF CommitFails, consumer, ReturnError
<1>0. /\ committed \in Offsets /\ output \in [Record -> Nat] /\ handled \in SUBSET Record
      /\ setAside \in SUBSET handled
  BY DEF RunnerInv, RunnerType
<1>2. /\ committed' \in Offsets
      /\ \A tp \in TopicPartition : committed[tp] <= committed'[tp]
      /\ \A tp \in owned : committed'[tp] <= position[tp]
      /\ output' \in [Record -> Nat] /\ handled' \in SUBSET Record
      /\ setAside' \in SUBSET handled'
      /\ Transactional => \A r \in Record : /\ output'[r] <= 1
                                            /\ output'[r] > 0 => r[2] < committed'[r[1]]
  <2>1. CASE CommitRound
    BY <2>1, <1>1, CommitEffect
  <2>2. CASE UNCHANGED broker
    <3>1. committed' = committed /\ output' = output /\ handled' = handled /\ setAside' = setAside
      BY <2>2 DEF broker
    <3>2. \A tp \in TopicPartition : committed[tp] \in Nat
      BY <1>0, OffsetNat
    <3> QED BY <3>1, <3>2, <1>0 DEF RunnerInv, StateInv
  <2> QED BY <2>1, <2>2, <1>1
<1>3. /\ processors' \in [Logical -> Snapshot]
      /\ \A l \in Logical : /\ processors'[l] = Prior(l) /\ Prior(l)' = Prior(l)
                            /\ processors'[l] # Nothing => l \in LogicalsOf(owned)
  BY <1>1, RollbackEffect
<1>4. RunnerType'
  BY <1>1, <1>2, <1>3 DEF RunnerInv, RunnerType, Offsets
<1>5. RoundInv'
  BY <1>1, NoRoundFacts DEF RoundInv
<1>6. StateInv'
  <2>1. ASSUME NEW l \in Logical
        PROVE  /\ Once(store'[l][NoEpoch], committed', {})
               /\ Once(Prior(l)', committed', {})
               /\ Once(processors'[l], committed', round'.records)
    <3>0. store[l][NoEpoch] \in Snapshot /\ Prior(l) \in Snapshot
      <4>1. processors'[l] \in Snapshot /\ processors'[l] = Prior(l)
        BY <1>3
      <4> QED BY <4>1 DEF RunnerInv, RunnerType
    <3>1. Once(store[l][NoEpoch], committed, {}) /\ Once(Prior(l), committed, {})
      BY DEF RunnerInv, StateInv
    <3> HIDE DEF Prior
    <3>2. Once(store[l][NoEpoch], committed', {})
      BY <3>0, <3>1, <1>0, <1>2, OnceMoves
    <3>3. Once(Prior(l), committed', {})
      BY <3>0, <3>1, <1>0, <1>2, OnceMoves
    <3>4. round'.records = {}
      BY <1>1, NoRoundFacts
    <3> QED BY <3>2, <3>3, <3>4, <1>1, <1>3
  <2> HIDE DEF Prior
  <2> QED BY <1>1, <1>2, <1>3, <2>1 DEF StateInv, Transactional
<1> QED BY <1>4, <1>5, <1>6 DEF RunnerInv

LEMMA RunnerEnds ==
  ASSUME Epoch = {}, RunnerInv, Close \/ Crash
  PROVE  RunnerInv'
<1>1. /\ committed' = committed /\ output' = output /\ handled' = handled
      /\ setAside' = setAside /\ mode' = mode /\ manifest' = manifest
      /\ stale' = FALSE /\ pc' = "idle" /\ failed' = FALSE /\ aligner' = NewBarrierAligner
      /\ round' = NoRound /\ position' = [tp \in TopicPartition |-> 0] /\ owned' = {}
      /\ processors' = [l \in Logical |-> Nothing]
  <2>1. Fresh /\ owned' = {} /\ processors' = [l \in Logical |-> Nothing]
    BY DEF Close, Crash
  <2>2. stale' = FALSE
    BY <2>1 DEF Fresh
  <2> QED BY <2>1, <2>2 DEF Fresh, broker
<1>2. /\ processors \in [Logical -> Snapshot]
      /\ store \in [Logical -> [Epoch \union {NoEpoch} -> Snapshot]]
  BY DEF RunnerInv, RunnerType
<1>3. /\ store' \in [Logical -> [Epoch \union {NoEpoch} -> Snapshot]]
      /\ \A l \in Logical : \/ store'[l][NoEpoch] = store[l][NoEpoch]
                            \/ store'[l][NoEpoch] = processors[l] /\ round = NoRound
  <2>1. CASE Close
    <3>1. store' = [l \in Logical |->
                      IF l \in LogicalsOf(owned)
                      THEN [store[l] EXCEPT ![NoEpoch] = processors[l]] ELSE store[l]]
      BY <2>1 DEF Close
    <3>2. round = NoRound
      BY <2>1 DEF Close, RunnerInv, RoundInv
    <3>3. ASSUME NEW l \in Logical
          PROVE  /\ store'[l] \in [Epoch \union {NoEpoch} -> Snapshot]
                 /\ store'[l][NoEpoch] \in {store[l][NoEpoch], processors[l]}
      <4>1. store[l] \in [Epoch \union {NoEpoch} -> Snapshot] /\ processors[l] \in Snapshot
        BY <1>2
      <4>2. store'[l] = IF l \in LogicalsOf(owned)
                        THEN [store[l] EXCEPT ![NoEpoch] = processors[l]] ELSE store[l]
        BY <3>1
      <4> QED BY <4>1, <4>2
    <3> QED BY <3>1, <3>2, <3>3
  <2>2. CASE Crash
    BY <2>2, <1>2 DEF Crash
  <2> QED BY <2>1, <2>2
<1>4. RunnerType'
  <2>1. position' \in Offsets
    BY <1>1, RunnerAssumption DEF Offsets
  <2>2. processors' \in [Logical -> Snapshot]
    BY <1>1 DEF Snapshot
  <2> QED BY <1>1, <1>3, <2>1, <2>2 DEF RunnerInv, RunnerType, Offsets
<1>5. RoundInv'
  BY <1>1, NoRoundFacts DEF RoundInv
<1>6. StateInv'
  <2>1. ASSUME NEW l \in Logical
        PROVE  /\ Once(store'[l][NoEpoch], committed', {})
               /\ Once(Prior(l)', committed', {})
               /\ Once(processors'[l], committed', round'.records)
    <3>1. Prior(l)' = Nothing /\ processors'[l] = Nothing
      BY <1>1, NoRoundFacts DEF Prior
    <3>2. Once(store[l][NoEpoch], committed, {})
      BY DEF RunnerInv, StateInv
    <3>3. round = NoRound => Once(processors[l], committed, {})
      BY NoRoundFacts DEF RunnerInv, StateInv
    <3> QED BY <3>1, <3>2, <3>3, <1>1, <1>3, OnceEmpty
  <2>2. \A l \in Logical : processors'[l] = Nothing
    BY <1>1
  <2>3. Transactional' => \A r \in Record : output'[r] <= 1
                            /\ (output'[r] > 0 => r[2] < committed'[r[1]])
    BY <1>1 DEF RunnerInv, StateInv, Transactional
  <2> HIDE DEF Prior
  <2> QED BY <1>1, <2>1, <2>2, <2>3 DEF StateInv
<1> QED BY <1>4, <1>5, <1>6 DEF RunnerInv

\* Without a barrier group neither the barrier's steps nor the restores occur.
LEMMA NoBarrier ==
  ASSUME Epoch = {}, RunnerInv, Next
  PROVE  \/ StartRound \/ StartRoundFails \/ PollFails
         \/ \E next \in Offsets, bad \in SUBSET Logical : Poll(next, bad)
         \/ Send \/ Commit
         \/ \E next \in Offsets : ProcessFails(next)
         \/ \E acknowledged \in SUBSET round.outputs : SendFails(acknowledged)
         \/ \E applied \in BOOLEAN : CommitFails(applied)
         \/ \E S \in Batches, unloaded \in SUBSET Logical :
              S \intersect owned = {} /\ OnPartitionsAssigned(S, unloaded)
         \/ \E S \in Batches \intersect SUBSET owned :
              OnPartitionsRevoked(S) \/ RevokedUnsaved(S) \/ OnPartitionsLost(S)
         \/ \E l \in Logical, next \in Offsets : OtherMember(l, next)
         \/ Close \/ Crash
<1>1. pc # "save"
  BY DEF RunnerInv, RunnerType
<1>2. ~Save /\ \A l \in Logical : ~SaveFails(l)
  BY <1>1 DEF Save, SaveFails
<1> QED BY <1>2 DEF Next, Round, Failure, Group

LEMMA RunnerStep ==
  ASSUME Epoch = {}, RunnerInv, [Next]_vars
  PROVE  RunnerInv'
<1>1. CASE StartRound \/ StartRoundFails \/ PollFails
  <2>0. aligner = NewBarrierAligner
    BY DEF RunnerInv, RunnerType
  <2>1. pc \in {"idle", "poll"}
    BY <1>1 DEF StartRound, StartRoundFails, PollFails, Calls
  <2>2. round = NoRound
    BY <2>1 DEF RunnerInv, RoundInv
  <2>3. StartAligner = aligner
    BY <2>0, AlignerIdle
  <2>4. /\ round' = NoRound /\ pc' \in {"idle", "poll"} /\ failed' \in BOOLEAN
        /\ aligner' = aligner
        /\ UNCHANGED <<mode, broker, manifest, store, consumer, processors, stale>>
    BY <1>1, <2>2, <2>3 DEF StartRound, StartRoundFails, PollFails, ReturnError
  <2> QED BY <2>2, <2>4, RunnerIdle
<1>2. ASSUME NEW next \in Offsets, NEW bad \in SUBSET Logical, Poll(next, bad)
      PROVE  RunnerInv'
  BY <1>2, RunnerPoll
<1>3. CASE Send
  BY <1>3, RunnerSend
<1>4. CASE Commit
  BY <1>4, RunnerCommit
<1>5. ASSUME NEW next \in Offsets, ProcessFails(next)
      PROVE  RunnerInv'
  BY <1>5, RunnerProcessFails
<1>6. ASSUME NEW acknowledged \in SUBSET round.outputs, SendFails(acknowledged)
      PROVE  RunnerInv'
  BY <1>6, RunnerSendFails
<1>7. ASSUME NEW applied \in BOOLEAN, CommitFails(applied)
      PROVE  RunnerInv'
  BY <1>7, RunnerCommitFails
<1>8. ASSUME NEW S \in Batches, NEW unloaded \in SUBSET Logical,
             OnPartitionsAssigned(S, unloaded)
      PROVE  RunnerInv'
  <2>1. S \in SUBSET TopicPartition
    BY RunnerAssumption
  <2> QED BY <1>8, <2>1, RunnerAssigned
<1>9. ASSUME NEW S \in Batches \intersect SUBSET owned,
             OnPartitionsRevoked(S) \/ RevokedUnsaved(S) \/ OnPartitionsLost(S)
      PROVE  RunnerInv'
  <2>1. S \in SUBSET owned
    OBVIOUS
  <2>2. Rebalance /\ (Release(S, Logical) \/ Release(S, {}))
    BY <1>9 DEF OnPartitionsRevoked, RevokedUnsaved, OnPartitionsLost
  <2> QED BY <2>1, <2>2, RunnerReleased
<1>10. ASSUME NEW l \in Logical, NEW next \in Offsets, OtherMember(l, next)
       PROVE  RunnerInv'
  BY <1>10, RunnerOther
<1>11. CASE Close \/ Crash
  BY <1>11, RunnerEnds
<1>12. CASE UNCHANGED vars
  <2>1. UNCHANGED <<mode, broker, manifest, store, consumer, pc, failed, processors,
                    aligner, round, stale>>
    BY <1>12 DEF vars
  <2>2. \A l : Prior(l)' = Prior(l)
    BY <2>1 DEF Prior
  <2>3. RunnerType'
    BY <2>1 DEF RunnerInv, RunnerType, broker, consumer, Offsets
  <2>4. RoundInv'
    BY <2>1 DEF RunnerInv, RoundInv, broker, consumer, Transactional
  <2> HIDE DEF Prior
  <2>5. StateInv'
    BY <2>1, <2>2 DEF RunnerInv, StateInv, broker, consumer, Transactional
  <2> QED BY <2>3, <2>4, <2>5 DEF RunnerInv
<1>13. CASE Next
  BY <1>1, <1>2, <1>3, <1>4, <1>5, <1>6, <1>7, <1>8, <1>9, <1>10, <1>11, <1>13, NoBarrier
<1> QED BY <1>12, <1>13

-----------------------------------------------------------------------------
(***************************************************************************)
(* What follows for every application, whatever it does after an error.    *)
(***************************************************************************)
\* The inductive invariant of a runner without a barrier group (runner.go,
\* RunOnce and RunOnceTransactional, the rebalance callbacks and Close).
THEOREM RunnerInvariant ==
  ASSUME Epoch = {}
  PROVE  Spec => []RunnerInv
<1>1. Init => RunnerInv
  BY RunnerStart
<1>2. RunnerInv /\ [Next]_vars => RunnerInv'
  BY RunnerStep
<1> QED BY <1>1, <1>2, PTL DEF Spec

\* The variables keep their types, and a round carries only its own records
\* (the TypeOK of the runs).
THEOREM RunnerTypes ==
  ASSUME Epoch = {}
  PROVE  Spec => []TypeOK
<1>1. RunnerInv => TypeOK
  <2> SUFFICES ASSUME RunnerInv PROVE TypeOK
    OBVIOUS
  <2>1. RunnerType /\ RoundInv
    BY DEF RunnerInv
  <2>2. /\ aligner.pending = NoEpoch /\ aligner.lastEpoch = NoEpoch
        /\ aligner.reached = {} /\ aligner.aligned = {}
        /\ \A tp \in TopicPartition : aligner.held[tp] = <<>>
    BY <2>1 DEF RunnerType, NewBarrierAligner, NothingHeld
  <2>3. <<>> \in OffsetSeq
    <3>1. <<>> \in [1 .. 0 -> 0 .. End - 1]
      OBVIOUS
    <3>2. 0 \in 0 .. 2 * End
      BY RunnerAssumption
    <3> QED BY <3>1, <3>2 DEF OffsetSeq
  <2>4. DOMAIN round.offsets \subseteq TopicPartition
    BY <2>1 DEF RoundInv, RunnerType
  <2>5. round.outputs \subseteq round.records /\ round.records \subseteq Record
        /\ round.bad \subseteq round.records
    BY <2>1 DEF RoundInv
  <2>6. \A l \in Logical : processors[l] \in Snapshot
                           /\ \A e \in Epoch \union {NoEpoch} : store[l][e] \in Snapshot
    BY <2>1 DEF RunnerType
  <2> QED BY <2>1, <2>2, <2>3, <2>4, <2>5, <2>6 DEF RunnerType, TypeOK
<1> QED BY <1>1, RunnerInvariant, PTL

\* No record is applied twice to a partition's state, whatever fails, whoever
\* ran the partition before and whatever the application does after an error;
\* and in transactions no output is committed twice (processPoll, rollback,
\* OnPartitionsAssigned, RunOnceTransactional).
THEOREM AtMostOnce ==
  ASSUME Epoch = {}
  PROVE  Spec => []NoRecordTwice
<1>1. RunnerInv => NoRecordTwice
  BY DEF RunnerInv, StateInv, NoRecordTwice, Once
<1> QED BY <1>1, RunnerInvariant, PTL

\* The snapshot that a rebalance or Close saves never holds a record past the
\* committed offset, so the partition's next owner applies none twice
\* (release, Close and the commit of a round).
THEOREM SavedBehind ==
  ASSUME Epoch = {}
  PROVE  Spec => []SavedNeverAhead
<1>1. RunnerInv => SavedNeverAhead
  BY DEF RunnerInv, StateInv, SavedNeverAhead, Once
<1> QED BY <1>1, RunnerInvariant, PTL

\* Only a commit and another member move a committed offset, and never back.
LEMMA CommitGrows ==
  ASSUME Epoch = {}, RunnerInv, [Next]_vars, NEW tp \in TopicPartition
  PROVE  committed'[tp] >= committed[tp]
<1>0. committed \in Offsets /\ committed' \in Offsets
  <2>1. RunnerInv'
    BY RunnerStep
  <2>2. (committed \in Offsets)'
    BY <2>1 DEF RunnerInv, RunnerType
  <2> QED BY <2>2 DEF RunnerInv, RunnerType, Offsets
<1>1. committed[tp] \in Nat /\ committed'[tp] \in Nat
  BY <1>0, OffsetNat
<1>2. CASE Commit \/ \E applied \in BOOLEAN : CommitFails(applied)
  <2>1. pc = "commit" /\ (CommitRound \/ committed' = committed)
    BY <1>2 DEF Commit, CommitFails, broker
  <2> QED BY <2>1, <1>1, CommitEffect
<1>3. ASSUME NEW l \in Logical, NEW next \in Offsets, OtherMember(l, next)
      PROVE  committed'[tp] >= committed[tp]
  BY <1>3, <1>1, OtherEffect
<1>4. CASE UNCHANGED committed
  BY <1>1, <1>4
<1>5. CASE UNCHANGED vars
  BY <1>4, <1>5 DEF vars, broker
<1>6. CASE Next
  <2>1. \/ UNCHANGED committed \/ Commit
        \/ \E applied \in BOOLEAN : CommitFails(applied)
        \/ \E l \in Logical, next \in Offsets : OtherMember(l, next)
    BY <1>6, NoBarrier
    DEF StartRound, StartRoundFails, PollFails, Poll, Send, ProcessFails, SendFails,
        OnPartitionsAssigned, OnPartitionsRevoked, RevokedUnsaved, OnPartitionsLost,
        Rebalance, Close, Crash, Fresh, broker
  <2> QED BY <2>1, <1>2, <1>3, <1>4
<1> QED BY <1>5, <1>6

\* Without a barrier group no committed offset ever goes back, whoever commits
\* it (CommitOffsets, SendOffsets), whatever fails and whoever ran before.
THEOREM NoRewind ==
  ASSUME Epoch = {}
  PROVE  Spec => /\ RewindsOnlyToALateCut
                 /\ [][\A tp \in TopicPartition : committed'[tp] >= committed[tp]]_vars
<1>1. RunnerInv /\ [Next]_vars => [\A tp \in TopicPartition : committed'[tp] >= committed[tp]]_vars
  BY CommitGrows
<1>2. [\A tp \in TopicPartition : committed'[tp] >= committed[tp]]_vars
      => [\A tp \in TopicPartition :
            \/ committed'[tp] >= committed[tp]
            \/ round.barrier /\ committed'[tp] = Cut[aligner.pending][tp]]_vars
  OBVIOUS
<1> QED BY <1>1, <1>2, RunnerInvariant, PTL DEF Spec, RewindsOnlyToALateCut

-----------------------------------------------------------------------------
(***************************************************************************)
(* An application that does not go on after an error loses nothing.        *)
(***************************************************************************)
\* What NoGapInv says of the state after a step that ends a round, or that
\* finds and leaves none in progress.
LEMMA NoGapIdle ==
  ASSUME committed' \in Offsets, round' = NoRound, pc' # "idle" => ~failed',
         ~failed' => \A tp \in owned' : position'[tp] = committed'[tp],
         NothingSkipped'
  PROVE  NoGapInv'
<1>1. \A tp : Reached(tp)' = committed'[tp]
  BY NoRoundFacts DEF Reached
<1>2. \A r \in Record : ~(committed'[r[1]] <= r[2] /\ r[2] < committed'[r[1]])
  <2> SUFFICES ASSUME NEW r \in Record
               PROVE  ~(committed'[r[1]] <= r[2] /\ r[2] < committed'[r[1]])
    OBVIOUS
  <2>1. r[1] \in TopicPartition /\ r[2] \in Nat
    BY RecordParts
  <2>2. committed'[r[1]] \in Nat
    BY <2>1, OffsetNat
  <2> QED BY <2>1, <2>2
<1> QED BY <1>1, <1>2 DEF NoGapInv

\* A step that commits nothing skips nothing.
LEMMA SkipsNothing ==
  ASSUME NothingSkipped, committed' = committed, handled \in SUBSET handled'
  PROVE  NothingSkipped'
BY DEF NothingSkipped

\* The records below the offsets of a round are handled once it is committed.
LEMMA CommitSkipsNothing ==
  ASSUME RunnerInv, NoGapInv, OnError # "continue", pc = "commit", CommitRound
  PROVE  NothingSkipped'
<1>1. /\ committed' \in Offsets
      /\ \A tp \in TopicPartition : committed'[tp] = Reached(tp)
      /\ handled \in SUBSET handled' /\ round.records \in SUBSET handled'
  BY CommitEffect
<1> SUFFICES ASSUME NEW r \in Data, r[2] < committed'[r[1]]
             PROVE  r \in handled'
  BY DEF NothingSkipped
<1>2. r \in Record
  BY DEF Data
<1>3. r[1] \in TopicPartition /\ r[2] \in Nat
  BY <1>2, RecordParts
<1>4. committed[r[1]] \in Nat
  BY <1>3, OffsetNat DEF RunnerInv, RunnerType
<1>5. CASE r[2] < committed[r[1]]
  BY <1>5, <1>1 DEF NoGapInv, NothingSkipped
<1>6. CASE committed[r[1]] <= r[2]
  <2>1. r[2] < Reached(r[1])
    BY <1>1, <1>3
  <2> QED BY <1>1, <1>2, <1>6, <2>1 DEF NoGapInv
<1> QED BY <1>3, <1>4, <1>5, <1>6

LEMMA NoGapStep ==
  ASSUME Epoch = {}, RunnerInv, RunnerInv', NoGapInv, [Next]_vars
  PROVE  NoGapInv'
<1>0. /\ committed \in Offsets /\ position \in Offsets /\ owned \in SUBSET TopicPartition
      /\ committed' \in Offsets
  <2>1. (committed \in Offsets)'
    BY DEF RunnerInv, RunnerType
  <2> QED BY <2>1 DEF RunnerInv, RunnerType, Offsets
<1>1. mode' = mode
  <2>1. CASE UNCHANGED vars
    BY <2>1 DEF vars
  <2>2. CASE Next
    BY <2>2, NoBarrier
    DEF StartRound, StartRoundFails, PollFails, Poll, Send, Commit, ProcessFails, SendFails,
        CommitFails, OnPartitionsAssigned, OnPartitionsRevoked, RevokedUnsaved,
        OnPartitionsLost, Rebalance, OtherMember, Close, Crash, Fresh
  <2> QED BY <2>1, <2>2
<1> SUFFICES ASSUME OnError # "continue"
             PROVE  NoGapInv'
  BY <1>1 DEF NoGapInv, OnError
<1>2. /\ pc # "idle" => ~failed
      /\ ~failed => \A tp \in owned : position[tp] = Reached(tp)
      /\ \A r \in Record : committed[r[1]] <= r[2] /\ r[2] < Reached(r[1])
                           => r \in round.records
      /\ NothingSkipped
  BY DEF NoGapInv
<1>3. pc \in {"idle", "poll"} => round = NoRound /\ \A tp : Reached(tp) = committed[tp]
  <2>1. pc \in {"idle", "poll"} => round = NoRound
    BY DEF RunnerInv, RoundInv
  <2> QED BY <2>1, NoRoundFacts DEF Reached
<1> HIDE DEF Reached
<1>4. CASE StartRound
  <2>1. /\ pc = "idle" /\ ~failed /\ failed' = FALSE /\ round' = round
        /\ committed' = committed /\ handled' = handled /\ owned' = owned
        /\ position' = position
    BY <1>4 DEF StartRound, Calls, broker, consumer
  <2>2. NothingSkipped'
    BY <1>2, <2>1, SkipsNothing
  <2> QED BY <2>1, <2>2, <1>0, <1>2, <1>3, NoGapIdle
<1>5. CASE StartRoundFails \/ PollFails
  <2>1. /\ failed' = TRUE /\ pc' = "idle" /\ round' = NoRound
        /\ committed' = committed /\ handled' = handled
    BY <1>5 DEF StartRoundFails, PollFails, ReturnError, broker
  <2>2. NothingSkipped'
    BY <1>2, <2>1, SkipsNothing
  <2> QED BY <2>1, <2>2, <1>0, NoGapIdle
<1>6. ASSUME NEW next \in Offsets, NEW bad \in SUBSET Logical, Poll(next, bad)
      PROVE  NoGapInv'
  <2>1. /\ pc = "poll" /\ failed' = failed /\ owned' = owned
        /\ committed' = committed /\ handled' = handled
    BY <1>6 DEF Poll, FetchUpTo, broker
  <2>2. /\ \A tp \in TopicPartition : position[tp] <= next[tp]
        /\ \A tp \in TopicPartition \ owned : next[tp] = position[tp]
        /\ position' = next
        /\ DOMAIN round'.offsets = {tp \in TopicPartition : position[tp] < next[tp]}
        /\ \A tp \in DOMAIN round'.offsets : round'.offsets[tp] = next[tp]
        /\ round'.records = Between(position, next)
    BY <1>6, PollEffect
  <2>3. ~failed /\ \A tp \in owned : position[tp] = committed[tp]
    BY <2>1, <1>2, <1>3
  <2>4. ASSUME NEW tp \in TopicPartition
        PROVE  /\ tp \in owned => Reached(tp)' = next[tp]
               /\ tp \notin owned => Reached(tp)' = committed[tp]
               /\ committed[tp] \in Nat /\ next[tp] \in Nat
    <3>1. committed[tp] \in Nat /\ position[tp] \in Nat /\ next[tp] \in Nat
          /\ position[tp] <= next[tp]
      BY <1>0, <2>2, OffsetNat
    <3>2. CASE position[tp] < next[tp]
      <4>1. tp \in DOMAIN round'.offsets /\ tp \in owned
        BY <3>1, <3>2, <2>2
      <4> QED BY <3>1, <4>1, <2>2 DEF Reached
    <3>3. CASE position[tp] = next[tp]
      <4>1. tp \notin DOMAIN round'.offsets
        BY <3>1, <3>3, <2>2
      <4>2. Reached(tp)' = committed[tp]
        BY <4>1, <2>1 DEF Reached
      <4> QED BY <3>1, <3>3, <4>2, <2>3
    <3> QED BY <3>1, <3>2, <3>3
  <2>5. \A tp \in owned' : position'[tp] = Reached(tp)'
    BY <2>1, <2>2, <2>4, <1>0
  <2>6. ASSUME NEW r \in Record, committed'[r[1]] <= r[2], r[2] < Reached(r[1])'
        PROVE  r \in round'.records
    <3>1. r[1] \in TopicPartition /\ r[2] \in Nat
      BY RecordParts
    <3>2. r[1] \in owned
      BY <3>1, <2>1, <2>4, <2>6
    <3>3. position[r[1]] = committed[r[1]] /\ r[2] < next[r[1]]
      BY <3>1, <3>2, <2>3, <2>4, <2>6
    <3> QED BY <3>3, <2>1, <2>2, <2>6 DEF Between
  <2>7. NothingSkipped'
    BY <1>2, <2>1, SkipsNothing
  <2> QED BY <2>1, <2>3, <2>5, <2>6, <2>7 DEF NoGapInv
<1>7. ASSUME NEW next \in Offsets, ProcessFails(next)
      PROVE  NoGapInv'
  <2>1. /\ failed' = TRUE /\ pc' = "idle" /\ round' = NoRound
        /\ committed' = committed /\ handled' = handled
    BY <1>7 DEF ProcessFails, ReturnError, broker
  <2>2. NothingSkipped'
    BY <1>2, <2>1, SkipsNothing
  <2> QED BY <2>1, <2>2, <1>0, NoGapIdle
<1>8. CASE Send
  <2>1. /\ pc = "send" /\ failed' = failed /\ owned' = owned /\ position' = position
        /\ round' = round /\ committed' = committed /\ handled \in SUBSET handled'
    BY <1>8 DEF Send, consumer
  <2>2. \A tp : Reached(tp)' = Reached(tp)
    BY <2>1 DEF Reached
  <2>3. NothingSkipped'
    BY <1>2, <2>1, SkipsNothing
  <2> QED BY <2>1, <2>2, <2>3, <1>2 DEF NoGapInv
<1>9. ASSUME NEW acknowledged \in SUBSET round.outputs, SendFails(acknowledged)
      PROVE  NoGapInv'
  <2>1. /\ failed' = TRUE /\ pc' = "idle" /\ round' = NoRound
        /\ committed' = committed /\ handled' = handled
    BY <1>9 DEF SendFails, ReturnError
  <2>2. NothingSkipped'
    BY <1>2, <2>1, SkipsNothing
  <2> QED BY <2>1, <2>2, <1>0, NoGapIdle
<1>10. CASE Commit
  <2>1. /\ pc = "commit" /\ pc' = "idle" /\ failed' = failed /\ owned' = owned
        /\ position' = position /\ round' = NoRound /\ CommitRound
    BY <1>10 DEF Commit, consumer
  <2>2. NothingSkipped'
    BY <2>1, CommitSkipsNothing
  <2>3. \A tp \in owned' : position'[tp] = committed'[tp]
    BY <2>1, <1>0, <1>2, CommitEffect
  <2> QED BY <2>1, <2>2, <2>3, <1>0, NoGapIdle
<1>11. ASSUME NEW applied \in BOOLEAN, CommitFails(applied)
       PROVE  NoGapInv'
  <2>1. /\ pc = "commit" /\ failed' = TRUE /\ pc' = "idle" /\ round' = NoRound
        /\ CommitRound \/ (committed' = committed /\ handled' = handled)
    BY <1>11 DEF CommitFails, ReturnError, broker
  <2>2. NothingSkipped'
    BY <2>1, <1>2, CommitSkipsNothing, SkipsNothing
  <2> QED BY <2>1, <2>2, <1>0, NoGapIdle
<1>12. ASSUME NEW S \in Batches, NEW unloaded \in SUBSET Logical,
              OnPartitionsAssigned(S, unloaded)
       PROVE  NoGapInv'
  <2>1. /\ pc \in {"idle", "poll"} /\ pc' = pc /\ failed' = failed /\ round' = round
        /\ owned' = owned \union S /\ committed' = committed /\ handled' = handled
        /\ position' = [tp \in TopicPartition |->
                          IF tp \in S THEN committed[tp] ELSE position[tp]]
    BY <1>12 DEF OnPartitionsAssigned, CallbackPoint, broker
  <2>2. S \in SUBSET TopicPartition
    BY RunnerAssumption
  <2>3. ~failed => \A tp \in owned' : position'[tp] = committed'[tp]
    BY <2>1, <2>2, <1>0, <1>2, <1>3
  <2>4. NothingSkipped'
    BY <1>2, <2>1, SkipsNothing
  <2> QED BY <2>1, <2>3, <2>4, <1>0, <1>2, <1>3, NoGapIdle
<1>13. ASSUME NEW S \in Batches \intersect SUBSET owned,
              OnPartitionsRevoked(S) \/ RevokedUnsaved(S) \/ OnPartitionsLost(S)
       PROVE  NoGapInv'
  <2>1. /\ pc \in {"idle", "poll"} /\ pc' = pc /\ failed' = failed /\ round' = round
        /\ owned' = owned \ S /\ committed' = committed /\ handled' = handled
        /\ position' = position
    BY <1>13 DEF OnPartitionsRevoked, RevokedUnsaved, OnPartitionsLost, Rebalance,
                 Release, CallbackPoint, broker
  <2>2. ~failed => \A tp \in owned' : position'[tp] = committed'[tp]
    BY <2>1, <1>2, <1>3
  <2>3. NothingSkipped'
    BY <1>2, <2>1, SkipsNothing
  <2> QED BY <2>1, <2>2, <2>3, <1>0, <1>2, <1>3, NoGapIdle
<1>14. ASSUME NEW l \in Logical, NEW next \in Offsets, OtherMember(l, next)
       PROVE  NoGapInv'
  <2>1. /\ pc' = pc /\ failed' = failed /\ owned' = owned /\ position' = position
        /\ round' = round
    BY <1>14 DEF OtherMember, consumer
  <2>2. /\ committed' = next /\ \A tp \in owned : next[tp] = committed[tp]
        /\ handled' = handled \union Between(committed, next)
    BY <1>14, OtherEffect
  <2>3. DOMAIN round.offsets \in SUBSET owned
    BY DEF RunnerInv, RoundInv
  <2>4. ASSUME NEW tp \in TopicPartition
        PROVE  /\ tp \in owned => Reached(tp)' = Reached(tp)
               /\ tp \notin owned => Reached(tp)' = next[tp]
    BY <2>1, <2>2, <2>3 DEF Reached
  <2>5. ~failed' => \A tp \in owned' : position'[tp] = Reached(tp)'
    BY <2>1, <2>4, <1>0, <1>2
  <2>6. ASSUME NEW r \in Record, committed'[r[1]] <= r[2], r[2] < Reached(r[1])'
        PROVE  r \in round'.records
    <3>1. r[1] \in TopicPartition /\ r[2] \in Nat
      BY RecordParts
    <3>2. next[r[1]] \in Nat
      BY <3>1, OffsetNat
    <3>3. r[1] \in owned
      BY <3>1, <3>2, <2>2, <2>4, <2>6
    <3> QED BY <3>1, <3>3, <2>1, <2>2, <2>4, <2>6, <1>2
  <2>7. NothingSkipped'
    <3> SUFFICES ASSUME NEW r \in Data, r[2] < next[r[1]]
                 PROVE  r \in handled'
      BY <2>2 DEF NothingSkipped
    <3>1. r \in Record
      BY DEF Data
    <3>2. r[1] \in TopicPartition /\ r[2] \in Nat
      BY <3>1, RecordParts
    <3>3. committed[r[1]] \in Nat
      BY <3>2, <1>0, OffsetNat
    <3>4. r[2] < committed[r[1]] \/ r \in Between(committed, next)
      BY <3>1, <3>2, <3>3 DEF Between
    <3> QED BY <3>4, <2>2, <1>2 DEF NothingSkipped
  <2> QED BY <2>1, <2>5, <2>6, <2>7, <1>2 DEF NoGapInv
<1>15. CASE Close \/ Crash
  <2>1. /\ pc' = "idle" /\ round' = NoRound /\ owned' = {} /\ committed' = committed
        /\ handled' = handled
    BY <1>15 DEF Close, Crash, Fresh, broker
  <2>2. NothingSkipped'
    BY <1>2, <2>1, SkipsNothing
  <2> QED BY <2>1, <2>2, <1>0, NoGapIdle
<1>16. CASE UNCHANGED vars
  <2>1. /\ pc' = pc /\ failed' = failed /\ owned' = owned /\ position' = position
        /\ round' = round /\ committed' = committed /\ handled' = handled
    BY <1>16 DEF vars, broker, consumer
  <2>2. \A tp : Reached(tp)' = Reached(tp)
    BY <2>1 DEF Reached
  <2>3. NothingSkipped'
    BY <1>2, <2>1, SkipsNothing
  <2> QED BY <2>1, <2>2, <2>3, <1>2 DEF NoGapInv
<1>17. CASE Next
  BY <1>4, <1>5, <1>6, <1>7, <1>8, <1>9, <1>10, <1>11, <1>12, <1>13, <1>14, <1>15, <1>17,
     NoBarrier
<1> QED BY <1>16, <1>17

\* A round of such an application misses no record between the commit and the
\* offsets it is about to commit (processPoll and CommitOffsets).
THEOREM NoGap ==
  ASSUME Epoch = {}
  PROVE  Spec => []NoGapInv
<1>1. Init => NoGapInv
  <2> SUFFICES ASSUME Init PROVE NoGapInv
    OBVIOUS
  <2>1. /\ owned = {} /\ pc = "idle" /\ round = NoRound
        /\ committed = [tp \in TopicPartition |-> 0]
    BY DEF Init
  <2>2. \A tp : Reached(tp) = committed[tp]
    BY <2>1, NoRoundFacts DEF Reached
  <2>3. \A r \in Record : r[2] \in Nat /\ committed[r[1]] = 0
    BY <2>1, RecordParts
  <2>4. \A r \in Record : ~(r[2] < committed[r[1]])
    BY <2>3
  <2>5. NothingSkipped
    BY <2>4 DEF NothingSkipped, Data
  <2> QED BY <2>1, <2>2, <2>4, <2>5 DEF NoGapInv
<1>2. RunnerInv /\ RunnerInv' /\ NoGapInv /\ [Next]_vars => NoGapInv'
  BY NoGapStep
<1> QED BY <1>1, <1>2, RunnerInvariant, PTL DEF Spec

\* Nothing is skipped by an application that closes or restarts the runner
\* after an error: every record below a committed offset was sent,
\* dead-lettered or skipped (processPoll: "retriable errors always fail the
\* poll so the records are retried").
THEOREM NothingLost ==
  ASSUME Epoch = {}
  PROVE  Spec => /\ [](OnError # "continue" => NothingSkipped)
                 /\ []CloseLosesNothing
<1>1. NoGapInv => (OnError # "continue" => NothingSkipped) /\ CloseLosesNothing
  BY DEF NoGapInv, CloseLosesNothing
<1> QED BY <1>1, NoGap, PTL

-----------------------------------------------------------------------------
(***************************************************************************)
(* The state of an orderly application is the prefix it committed.         *)
(***************************************************************************)
\* What PrefixInv says of the state after a step that leaves no round.
LEMMA PrefixIdle ==
  ASSUME RunnerInv', round' = NoRound,
         \A r \in Record :
           LET l == Partition[r[1]]
           IN /\ l \in LogicalsOf(owned') => Count(processors'[l], r) = InPrefix(r)'
              /\ l \notin LogicalsOf(owned') => Count(store'[l][NoEpoch], r) = InPrefix(r)'
  PROVE  PrefixInv'
<1>1. \A l \in Logical : Prior(l)' = processors'[l]
  BY NoRoundFacts DEF Prior
<1>2. ASSUME NEW r \in Record
      PROVE  Holds(round'.records \ round'.bad, r) = 0
             /\ Count(processors'[Partition[r[1]]], r) \in Nat /\ Partition[r[1]] \in Logical
  <2>1. Partition[r[1]] \in Logical
    BY RecordParts
  <2>2. (processors \in [Logical -> Snapshot])'
    BY DEF RunnerInv, RunnerType
  <2>3. processors'[Partition[r[1]]] \in Snapshot
    BY <2>1, <2>2 DEF Snapshot
  <2> QED BY <2>1, <2>3, CountNat, NoRoundFacts DEF Holds
<1> HIDE DEF Prior
<1>3. ASSUME NEW r \in Record
      PROVE  LET l == Partition[r[1]]
             IN /\ Count(Resting(l)', r) = InPrefix(r)'
                /\ l \in LogicalsOf(owned') =>
                     Count(processors'[l], r)
                       = Count(Prior(l)', r) + Holds(round'.records \ round'.bad, r)
  BY <1>1, <1>2 DEF Resting
<1> QED BY <1>3 DEF PrefixInv, InPrefix

\* Between rounds the state of an owned partition is with its processors.
LEMMA RestingIdle ==
  ASSUME RunnerInv, PrefixInv, Orderly(mode), pc \in {"idle", "poll"}, NEW r \in Record
  PROVE  LET l == Partition[r[1]]
         IN /\ l \in Logical
            /\ l \in LogicalsOf(owned) => Count(processors[l], r) = InPrefix(r)
            /\ l \notin LogicalsOf(owned) => Count(store[l][NoEpoch], r) = InPrefix(r)
<1> DEFINE l == Partition[r[1]]
<1>1. l \in Logical
  BY RecordParts
<1>2. Prior(l) = processors[l]
  BY PriorIdle DEF RunnerInv, RoundInv
<1>3. Count(Resting(l), r) = InPrefix(r)
  BY DEF PrefixInv, InPrefix
<1> HIDE DEF Prior, l
<1> QED BY <1>1, <1>2, <1>3 DEF Resting, l

\* A committed round leaves the prefix up to its offsets.
LEMMA PrefixCommit ==
  ASSUME RunnerInv, RunnerInv', NoGapInv, PrefixInv, Orderly(mode), Commit
  PROVE  PrefixInv'
<1>1. /\ pc = "commit" /\ round' = NoRound /\ owned' = owned /\ processors' = processors
      /\ store' = store /\ CommitRound
  BY DEF Commit, consumer
<1>2. /\ \A tp \in TopicPartition : committed'[tp] = Reached(tp)
      /\ \A x \in round.records : x[2] < committed'[x[1]]
      /\ setAside' = (setAside \ round.records) \union round.bad
  BY <1>1, CommitEffect
<1>3. ASSUME NEW r \in Record
      PROVE  LET l == Partition[r[1]]
             IN /\ l \in LogicalsOf(owned) => Count(processors[l], r) = InPrefix(r)'
                /\ l \notin LogicalsOf(owned) => Count(store[l][NoEpoch], r) = InPrefix(r)'
  <2> DEFINE l == Partition[r[1]]
  <2>0. r[1] \in TopicPartition /\ r[2] \in Nat /\ l \in Logical /\ committed[r[1]] \in Nat
        /\ committed'[r[1]] \in Nat
    <3>1. r[1] \in TopicPartition /\ r[2] \in Nat /\ l \in Logical
      BY RecordParts
    <3>2. committed \in Offsets /\ committed' \in Offsets
      <4>1. (committed \in Offsets)'
        BY DEF RunnerInv, RunnerType
      <4> QED BY <4>1 DEF RunnerInv, RunnerType, Offsets
    <3> QED BY <3>1, <3>2, OffsetNat
  <2>1. /\ Count(Resting(l), r) = InPrefix(r)
        /\ l \in LogicalsOf(owned) =>
             Count(processors[l], r)
               = Count(Prior(l), r) + Holds(round.records \ round.bad, r)
    BY DEF PrefixInv, InPrefix
  <2>2. /\ round.bad \in SUBSET round.records
        /\ r \in round.records => r[1] \in DOMAIN round.offsets /\ committed[r[1]] <= r[2]
        /\ DOMAIN round.offsets \in SUBSET owned
    BY DEF RunnerInv, RoundInv
  <2>3. CASE r \in round.records
    <3>1. l \in LogicalsOf(owned)
      BY <2>2, <2>3 DEF LogicalsOf
    <3>2. Count(Prior(l), r) = 0
      <4>1. ~(r[2] < committed[r[1]])
        BY <2>0, <2>2, <2>3
      <4>2. Resting(l) = Prior(l)
        BY <3>1 DEF Resting
      <4> QED BY <2>1, <4>1, <4>2 DEF InPrefix
    <3>3. Holds(round.records \ round.bad, r) = IF r \in round.bad THEN 0 ELSE 1
      BY <2>3 DEF Holds
    <3>4. InPrefix(r)' = IF r \in round.bad THEN 0 ELSE 1
      BY <1>2, <2>2, <2>3 DEF InPrefix
    <3> HIDE DEF l, Prior
    <3>5. Count(processors[l], r) = IF r \in round.bad THEN 0 ELSE 1
      BY <3>1, <3>2, <3>3, <2>1
    <3> QED BY <3>1, <3>4, <3>5 DEF l
  <2>4. CASE r \notin round.records
    <3>1. r[2] < committed'[r[1]] <=> r[2] < committed[r[1]]
      <4>1. OnError # "continue"
        BY DEF Orderly, OnError
      <4>2. ~(committed[r[1]] <= r[2] /\ r[2] < Reached(r[1]))
        BY <2>4, <4>1 DEF NoGapInv
      <4>3. committed[r[1]] <= committed'[r[1]]
        BY <1>1, <2>0, CommitEffect
      <4> QED BY <4>2, <4>3, <2>0, <1>2
    <3>2. InPrefix(r)' = InPrefix(r)
      BY <3>1, <1>2, <2>2, <2>4 DEF InPrefix
    <3>3. Holds(round.records \ round.bad, r) = 0
      BY <2>4 DEF Holds
    <3>4. CASE l \in LogicalsOf(owned)
      <4>1. Resting(l) = Prior(l)
        BY <3>4 DEF Resting
      <4>2. InPrefix(r) \in {0, 1}
        BY DEF InPrefix
      <4> HIDE DEF l, Prior, Resting, InPrefix
      <4>3. Count(processors[l], r) = InPrefix(r)
        BY <2>1, <3>3, <3>4, <4>1, <4>2
      <4> QED BY <3>2, <3>4, <4>3 DEF l
    <3>5. CASE l \notin LogicalsOf(owned)
      <4>1. Resting(l) = store[l][NoEpoch]
        BY <3>5 DEF Resting
      <4> QED BY <2>1, <3>2, <3>5, <4>1
    <3> QED BY <3>4, <3>5
  <2> QED BY <2>3, <2>4
<1> QED BY <1>1, <1>3, PrefixIdle

LEMMA PrefixStep ==
  ASSUME Epoch = {}, RunnerInv, RunnerInv', NoGapInv, PrefixInv, [Next]_vars
  PROVE  PrefixInv'
<1>1. mode' = mode
  <2>1. CASE UNCHANGED vars
    BY <2>1 DEF vars
  <2>2. CASE Next
    BY <2>2, NoBarrier
    DEF StartRound, StartRoundFails, PollFails, Poll, Send, Commit, ProcessFails, SendFails,
        CommitFails, OnPartitionsAssigned, OnPartitionsRevoked, RevokedUnsaved,
        OnPartitionsLost, Rebalance, OtherMember, Close, Crash, Fresh
  <2> QED BY <2>1, <2>2
<1> SUFFICES ASSUME Orderly(mode)
             PROVE  PrefixInv'
  BY <1>1 DEF PrefixInv
<1>2. \A r \in Record : Partition[r[1]] \in Logical
  BY RecordParts
<1>3. CASE StartRound \/ StartRoundFails \/ PollFails \/ \E next \in Offsets : ProcessFails(next)
  <2>1. /\ pc \in {"idle", "poll"} /\ committed' = committed /\ setAside' = setAside
        /\ owned' = owned /\ store' = store /\ processors' = processors
        /\ round' = round \/ round' = NoRound
    BY <1>3 DEF StartRound, StartRoundFails, PollFails, ProcessFails, FetchUpTo, Calls,
                ReturnError, broker, consumer
  <2>2. round' = NoRound
    BY <2>1 DEF RunnerInv, RoundInv
  <2>3. \A r \in Record : InPrefix(r)' = InPrefix(r)
    BY <2>1 DEF InPrefix
  <2> HIDE DEF InPrefix
  <2> QED BY <2>1, <2>2, <2>3, RestingIdle, PrefixIdle
<1>4. ASSUME NEW next \in Offsets, NEW bad \in SUBSET Logical, Poll(next, bad)
      PROVE  PrefixInv'
  <2>1. /\ pc = "poll" /\ owned' = owned /\ committed' = committed /\ setAside' = setAside
        /\ store' = store
    BY <1>4 DEF Poll, FetchUpTo, broker
  <2>2. /\ \A l \in Logical : Prior(l)' = processors[l]
        /\ \A l \in Logical, r \in Record :
             Count(processors'[l], r)
               = Count(processors[l], r)
                 + Holds({x \in round'.records \ round'.bad : Partition[x[1]] = l}, r)
    BY <1>4, PollEffect
  <2>3. ASSUME NEW r \in Record
        PROVE  LET l == Partition[r[1]]
               IN /\ Count(Resting(l)', r) = InPrefix(r)'
                  /\ l \in LogicalsOf(owned') =>
                       Count(processors'[l], r)
                         = Count(Prior(l)', r) + Holds(round'.records \ round'.bad, r)
    <3> DEFINE l == Partition[r[1]]
    <3>1. l \in Logical /\ InPrefix(r)' = InPrefix(r)
      BY <1>2, <2>1 DEF InPrefix
    <3>2. /\ l \in LogicalsOf(owned) => Count(processors[l], r) = InPrefix(r)
          /\ l \notin LogicalsOf(owned) => Count(store[l][NoEpoch], r) = InPrefix(r)
      BY <2>1, RestingIdle
    <3>3. Resting(l)' = IF l \in LogicalsOf(owned) THEN processors[l] ELSE store[l][NoEpoch]
      BY <2>1, <2>2, <3>1 DEF Resting
    <3>4. Holds({x \in round'.records \ round'.bad : Partition[x[1]] = l}, r)
          = Holds(round'.records \ round'.bad, r)
      BY DEF Holds
    <3> HIDE DEF l, Prior, InPrefix
    <3>5. Count(processors'[l], r) = Count(Prior(l)', r) + Holds(round'.records \ round'.bad, r)
      BY <2>2, <3>1, <3>4
    <3> QED BY <3>1, <3>2, <3>3, <3>5 DEF l
  <2> QED BY <2>3 DEF PrefixInv
<1>5. CASE Send \/ UNCHANGED vars
  <2>1. /\ owned' = owned /\ committed' = committed /\ setAside' = setAside
        /\ store' = store /\ processors' = processors /\ round' = round
    BY <1>5 DEF Send, vars, broker, consumer
  <2>2. /\ \A r \in Record : InPrefix(r)' = InPrefix(r)
        /\ \A l : Prior(l)' = Prior(l) /\ Resting(l)' = Resting(l)
    BY <2>1 DEF InPrefix, Prior, Resting
  <2> HIDE DEF InPrefix, Prior, Resting
  <2> QED BY <2>1, <2>2 DEF PrefixInv
<1>6. CASE Commit
  BY <1>6, PrefixCommit
<1>7. CASE \/ \E acknowledged \in SUBSET round.outputs : SendFails(acknowledged)
           \/ \E applied \in BOOLEAN : CommitFails(applied)
  <2>1. /\ owned' = owned /\ store' = store /\ round' = NoRound /\ Rollback
        /\ committed' = committed /\ setAside' = setAside
    <3>1. CASE \E acknowledged \in SUBSET round.outputs : SendFails(acknowledged)
      BY <3>1 DEF SendFails, ReturnError, consumer
    <3>2. ASSUME NEW applied \in BOOLEAN, CommitFails(applied)
          PROVE  /\ owned' = owned /\ store' = store /\ round' = NoRound /\ Rollback
                 /\ committed' = committed /\ setAside' = setAside
      <4>1. applied = FALSE
        <5>1. (IF applied THEN "commit_answer" ELSE "commit") \in mode.faults
          BY <3>2 DEF CommitFails, Fault, Faults
        <5>2. "commit_answer" \notin mode.faults
          BY DEF Orderly
        <5> QED BY <5>1, <5>2
      <4> QED BY <3>2, <4>1 DEF CommitFails, ReturnError, consumer, broker
    <3> QED BY <1>7, <3>1, <3>2
  <2>2. \A l \in Logical : processors'[l] = Prior(l)
    BY <2>1, RollbackEffect
  <2>3. ASSUME NEW r \in Record
        PROVE  LET l == Partition[r[1]]
               IN /\ l \in LogicalsOf(owned') => Count(processors'[l], r) = InPrefix(r)'
                  /\ l \notin LogicalsOf(owned') => Count(store'[l][NoEpoch], r) = InPrefix(r)'
    <3>1. InPrefix(r)' = InPrefix(r)
      BY <2>1 DEF InPrefix
    <3>2. Count(Resting(Partition[r[1]]), r) = InPrefix(r)
      BY DEF PrefixInv
    <3> HIDE DEF Prior, InPrefix
    <3> QED BY <1>2, <2>1, <2>2, <3>1, <3>2 DEF Resting
  <2> QED BY <2>1, <2>3, PrefixIdle
<1>8. ASSUME NEW S \in Batches, NEW unloaded \in SUBSET Logical,
             OnPartitionsAssigned(S, unloaded)
      PROVE  PrefixInv'
  <2>1. /\ pc \in {"idle", "poll"} /\ round' = round /\ store' = store
        /\ owned' = owned \union S /\ committed' = committed /\ setAside' = setAside
    BY <1>8 DEF OnPartitionsAssigned, CallbackPoint, broker
  <2>2. unloaded = {}
    <3>1. unloaded # {} => "load" \in mode.faults
      BY <1>8 DEF OnPartitionsAssigned, Fault, Faults
    <3> QED BY <3>1 DEF Orderly
  <2>3. S \in SUBSET TopicPartition
    BY RunnerAssumption
  <2>4. /\ \A l \in LogicalsOf(owned) : processors'[l] = processors[l]
        /\ \A l \in Logical \ LogicalsOf(owned), r \in Record :
             \/ Count(processors'[l], r) = Count(store[l][NoEpoch], r)
             \/ Count(processors'[l], r) = 0 /\ l \notin LogicalsOf(owned')
    BY <1>8, <2>2, <2>3, AssignEffect
  <2>5. round' = NoRound
    BY <2>1 DEF RunnerInv, RoundInv
  <2>6. LogicalsOf(owned) \subseteq LogicalsOf(owned')
    BY <2>1, LogicalsGrow
  <2>7. ASSUME NEW r \in Record
        PROVE  LET l == Partition[r[1]]
               IN /\ l \in LogicalsOf(owned') => Count(processors'[l], r) = InPrefix(r)'
                  /\ l \notin LogicalsOf(owned') => Count(store'[l][NoEpoch], r) = InPrefix(r)'
    <3>1. InPrefix(r)' = InPrefix(r)
      BY <2>1 DEF InPrefix
    <3> DEFINE l == Partition[r[1]]
    <3>2. /\ l \in Logical
          /\ l \in LogicalsOf(owned) => Count(processors[l], r) = InPrefix(r)
          /\ l \notin LogicalsOf(owned) => Count(store[l][NoEpoch], r) = InPrefix(r)
      BY <2>1, RestingIdle
    <3> HIDE DEF InPrefix
    <3> QED BY <2>1, <2>4, <2>6, <3>1, <3>2
  <2> QED BY <2>5, <2>7, PrefixIdle
<1>9. ASSUME NEW S \in Batches \intersect SUBSET owned,
             OnPartitionsRevoked(S) \/ RevokedUnsaved(S) \/ OnPartitionsLost(S)
      PROVE  PrefixInv'
  <2>1. /\ Rebalance /\ Release(S, Logical)
    <3>1. "revoke_save" \notin mode.faults /\ "lost" \notin mode.faults
      BY DEF Orderly
    <3> QED BY <1>9, <3>1 DEF OnPartitionsRevoked, RevokedUnsaved, OnPartitionsLost, Fault, Faults
  <2>2. /\ pc \in {"idle", "poll"} /\ round' = round /\ CallbackPoint
        /\ committed' = committed /\ setAside' = setAside
    BY <2>1 DEF Rebalance, CallbackPoint, broker
  <2>3. \A l \in Logical :
          /\ processors'[l] = IF l \in LogicalsOf(owned') THEN processors[l] ELSE Nothing
          /\ \/ store'[l][NoEpoch] = store[l][NoEpoch]
                /\ (l \notin LogicalsOf(owned) \/ l \in LogicalsOf(owned'))
             \/ store'[l][NoEpoch] = processors[l]
                /\ l \in LogicalsOf(owned) \ LogicalsOf(owned')
    BY <2>1, <2>2, ReleaseEffect
  <2>4. round' = NoRound
    BY <2>2 DEF RunnerInv, RoundInv
  <2>5. LogicalsOf(owned') \subseteq LogicalsOf(owned)
    BY <2>1, LogicalsGrow DEF Release
  <2>6. ASSUME NEW r \in Record
        PROVE  LET l == Partition[r[1]]
               IN /\ l \in LogicalsOf(owned') => Count(processors'[l], r) = InPrefix(r)'
                  /\ l \notin LogicalsOf(owned') => Count(store'[l][NoEpoch], r) = InPrefix(r)'
    <3>1. InPrefix(r)' = InPrefix(r)
      BY <2>2 DEF InPrefix
    <3> DEFINE l == Partition[r[1]]
    <3>2. /\ l \in Logical
          /\ l \in LogicalsOf(owned) => Count(processors[l], r) = InPrefix(r)
          /\ l \notin LogicalsOf(owned) => Count(store[l][NoEpoch], r) = InPrefix(r)
      BY <2>2, RestingIdle
    <3> HIDE DEF InPrefix
    <3> QED BY <2>3, <2>5, <3>1, <3>2
  <2> QED BY <2>4, <2>6, PrefixIdle
<1>10. ASSUME NEW l \in Logical, NEW next \in Offsets, OtherMember(l, next)
       PROVE  PrefixInv'
  <2>1. /\ owned' = owned /\ round' = round /\ processors' = processors
    BY <1>10 DEF OtherMember, consumer
  <2>2. /\ committed' = next
        /\ \A tp \in TopicPartition : committed[tp] <= next[tp]
        /\ \A tp \in TopicPartition : Partition[tp] # l => next[tp] = committed[tp]
        /\ l \notin LogicalsOf(owned)
        /\ \A k \in Logical \ {l} : store'[k][NoEpoch] = store[k][NoEpoch]
        /\ \A r \in Record : Count(store'[l][NoEpoch], r)
             = Count(store[l][NoEpoch], r) + Holds(Between(committed, next), r)
        /\ setAside' = setAside \ Between(committed, next)
    BY <1>10, OtherEffect
  <2>3. \A k : Prior(k)' = Prior(k)
    BY <2>1 DEF Prior
  <2>4. ASSUME NEW r \in Record
        PROVE  Count(Resting(Partition[r[1]])', r) = InPrefix(r)'
    <3> DEFINE k == Partition[r[1]]
    <3>0. r[1] \in TopicPartition /\ r[2] \in Nat /\ k \in Logical
      BY RecordParts
    <3>1. committed[r[1]] \in Nat /\ next[r[1]] \in Nat
      BY <3>0, OffsetNat DEF RunnerInv, RunnerType
    <3>2. Count(Resting(k), r) = InPrefix(r)
      BY DEF PrefixInv
    <3>3. CASE k # l
      <4>1. r \notin Between(committed, next)
        BY <2>2, <3>0, <3>1, <3>3 DEF Between
      <4>2. InPrefix(r)' = InPrefix(r)
        BY <2>2, <3>0, <3>3, <4>1 DEF InPrefix
      <4>3. Resting(k)' = Resting(k)
        BY <2>1, <2>2, <2>3, <3>0, <3>3 DEF Resting
      <4> HIDE DEF Resting, InPrefix
      <4> QED BY <3>2, <4>2, <4>3
    <3>4. CASE k = l
      <4>1. Resting(k) = store[l][NoEpoch] /\ Resting(k)' = store'[l][NoEpoch]
        BY <2>1, <2>2, <3>4 DEF Resting
      <4>2. Count(store'[l][NoEpoch], r) = InPrefix(r) + Holds(Between(committed, next), r)
        BY <2>2, <3>2, <4>1
      <4>3. CASE r \in Between(committed, next)
        <5>1. InPrefix(r) = 0 /\ InPrefix(r)' = 1 /\ Holds(Between(committed, next), r) = 1
          BY <2>2, <3>0, <3>1, <4>3 DEF InPrefix, Holds, Between
        <5> QED BY <4>1, <4>2, <5>1
      <4>4. CASE r \notin Between(committed, next)
        <5>1. r[2] < next[r[1]] <=> r[2] < committed[r[1]]
          BY <2>2, <3>0, <3>1, <4>4 DEF Between
        <5>2. InPrefix(r)' = InPrefix(r) /\ InPrefix(r) \in {0, 1}
          BY <2>2, <4>4, <5>1 DEF InPrefix
        <5>3. Holds(Between(committed, next), r) = 0
          BY <4>4 DEF Holds
        <5> HIDE DEF InPrefix
        <5> QED BY <4>1, <4>2, <5>2, <5>3
      <4> QED BY <4>3, <4>4
    <3> QED BY <3>3, <3>4
  <2>5. \A r \in Record : Partition[r[1]] \in LogicalsOf(owned) =>
          Count(processors[Partition[r[1]]], r)
            = Count(Prior(Partition[r[1]]), r) + Holds(round.records \ round.bad, r)
    BY DEF PrefixInv
  <2> HIDE DEF Prior, Resting, InPrefix
  <2> QED BY <2>1, <2>3, <2>4, <2>5 DEF PrefixInv
<1>11. CASE Close
  <2>1. /\ pc = "idle" /\ round' = NoRound /\ owned' = {} /\ committed' = committed
        /\ setAside' = setAside
        /\ store' = [l \in Logical |->
                       IF l \in LogicalsOf(owned)
                       THEN [store[l] EXCEPT ![NoEpoch] = processors[l]] ELSE store[l]]
    BY <1>11 DEF Close, Fresh, broker
  <2>2. LogicalsOf(owned') = {}
    BY <2>1 DEF LogicalsOf
  <2>3. ASSUME NEW l \in Logical
        PROVE  store'[l][NoEpoch] = IF l \in LogicalsOf(owned) THEN processors[l]
                                    ELSE store[l][NoEpoch]
    <3>1. store[l] \in [Epoch \union {NoEpoch} -> Snapshot]
      BY DEF RunnerInv, RunnerType
    <3> QED BY <2>1, <3>1
  <2>4. ASSUME NEW r \in Record
        PROVE  Count(store'[Partition[r[1]]][NoEpoch], r) = InPrefix(r)'
    <3>1. InPrefix(r)' = InPrefix(r)
      BY <2>1 DEF InPrefix
    <3> DEFINE l == Partition[r[1]]
    <3>2. /\ l \in Logical
          /\ l \in LogicalsOf(owned) => Count(processors[l], r) = InPrefix(r)
          /\ l \notin LogicalsOf(owned) => Count(store[l][NoEpoch], r) = InPrefix(r)
      BY <2>1, RestingIdle
    <3> HIDE DEF InPrefix
    <3> QED BY <2>3, <3>1, <3>2
  <2> QED BY <2>1, <2>2, <2>4, PrefixIdle
<1>12. ~Crash
  <2>1. "crash" \notin mode.faults /\ mode.onError # "restart"
    BY DEF Orderly
  <2> QED BY <2>1 DEF Crash, Faults, OnError
<1>13. CASE Next
  BY <1>3, <1>4, <1>5, <1>6, <1>7, <1>8, <1>9, <1>10, <1>11, <1>12, <1>13, NoBarrier
<1> QED BY <1>5, <1>13

\* For an application that closes the runner after an error, whose partitions
\* are saved whenever they move, the state of every partition is the prefix
\* it committed (Close, release, OnPartitionsAssigned and rollback).
THEOREM CommittedPrefix ==
  ASSUME Epoch = {}
  PROVE  Spec => []PrefixInv
<1>1. Init => PrefixInv
  <2> SUFFICES ASSUME Init, NEW r \in Record
               PROVE  LET l == Partition[r[1]]
                      IN /\ Count(Resting(l), r) = InPrefix(r)
                         /\ l \notin LogicalsOf(owned)
    BY DEF PrefixInv
  <2>1. r[1] \in TopicPartition /\ r[2] \in Nat /\ Partition[r[1]] \in Logical
    BY RecordParts
  <2>2. Partition[r[1]] \notin LogicalsOf(owned)
    BY DEF Init, LogicalsOf
  <2>3. Resting(Partition[r[1]]) = Nothing
    BY <2>1, <2>2 DEF Init, Resting
  <2>4. ~(r[2] < committed[r[1]])
    BY <2>1 DEF Init
  <2> QED BY <2>2, <2>3, <2>4, CountEmpty DEF InPrefix
<1>2. RunnerInv /\ RunnerInv' /\ NoGapInv /\ PrefixInv /\ [Next]_vars => PrefixInv'
  BY PrefixStep
<1> QED BY <1>1, <1>2, RunnerInvariant, NoGap, PTL DEF Spec

\* Between rounds the state of an owned partition is the effect of the records
\* before its frontier, each once, without those the error policy set aside:
\* nothing is lost or applied twice by revocations, rollbacks and closes.  The
\* assumption leaves out the applications that the runner does not promise
\* this to: one whose process dies, or whose partitions move, without a save.
THEOREM StateFollowsCommits ==
  ASSUME Epoch = {}, \A m \in Modes : m.onError # "continue" => Orderly(m)
  PROVE  Spec => []StateIsPrefix
<1>1. RunnerInv /\ NoGapInv /\ PrefixInv => StateIsPrefix
  <2> SUFFICES ASSUME RunnerInv, NoGapInv, PrefixInv
               PROVE  StateIsPrefix
    OBVIOUS
  <2>1. \A l \in Logical : processors[l] # Nothing => l \in LogicalsOf(owned)
    BY DEF RunnerInv, StateInv
  <2>2. ASSUME pc \in {"idle", "poll"}, OnError # "continue", NEW tp \in owned
        PROVE  HoldsPrefix(processors[Partition[tp]], tp, Frontier(tp))
    <3>1. Orderly(mode)
      BY <2>2 DEF RunnerInv, RunnerType, OnError
    <3>2. tp \in TopicPartition /\ aligner = NewBarrierAligner /\ round = NoRound
      BY <2>2 DEF RunnerInv, RunnerType, RoundInv
    <3>3. Frontier(tp) = committed[tp]
      <4>1. aligner.held[tp] = <<>>
        BY <3>2, AlignerIdle
      <4>2. ~failed => position[tp] = committed[tp]
        BY <2>2, <3>2, NoRoundFacts DEF NoGapInv, Reached
      <4> QED BY <4>1, <4>2 DEF Frontier
    <3>4. ASSUME NEW r \in Record, r[1] = tp
          PROVE  Count(processors[Partition[tp]], r)
                 = IF r \in Data \ setAside /\ r[2] < committed[tp] THEN 1 ELSE 0
      <4>1. Partition[r[1]] \in LogicalsOf(owned)
        BY <3>4 DEF LogicalsOf
      <4>2. Count(processors[Partition[r[1]]], r) = InPrefix(r)
        BY <2>2, <3>1, <4>1, RestingIdle
      <4>3. r \in Data
        BY DEF Data
      <4> QED BY <3>4, <4>2, <4>3 DEF InPrefix
    <3> QED BY <3>3, <3>4 DEF HoldsPrefix
  <2> QED BY <2>1, <2>2 DEF StateIsPrefix
<1> QED BY <1>1, RunnerInvariant, NoGap, CommittedPrefix, PTL
=============================================================================
