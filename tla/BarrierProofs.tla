---------------------------- MODULE BarrierProofs ---------------------------
(***************************************************************************)
(* Proofs about GroupRunner with a barrier group, for any topic            *)
(* partitions, any cuts, a log of any length, every fault, and any number  *)
(* of crashes, restarts and restores: the snapshot of a finished barrier   *)
(* is the state at its cut, the barrier commits the cut, a restore         *)
(* continues exactly from it, and nothing below a committed offset is      *)
(* skipped.                                                                *)
(***************************************************************************)
EXTENDS GroupRunnerProofs, WellFoundedInduction

-----------------------------------------------------------------------------
(***************************************************************************)
(* The least and the greatest of some offsets.                             *)
(***************************************************************************)
\* A non-empty set of naturals has a least element, which Min chooses.
LEMMA MinFacts ==
  ASSUME NEW T, T \subseteq Nat, T # {}
  PROVE  Min(T) \in T /\ \A j \in T : Min(T) <= j
<1> DEFINE below == {ss \in Nat \X Nat : ss[1] < ss[2]}
<1>1. IsWellFoundedOn(below, Nat)
  BY NatLessThanWellFounded, Zenon DEF OpToRel
<1> HIDE DEF below
<1>2. \E i \in T : \A j \in T : ~(<<j, i>> \in below)
  BY <1>1, WFMin
<1>3. ASSUME NEW i \in Nat, NEW j \in Nat, ~(<<j, i>> \in below) PROVE i <= j
  <2>1. <<j, i>>[1] = j /\ <<j, i>>[2] = i /\ <<j, i>> \in Nat \X Nat
    OBVIOUS
  <2>2. ~(j < i)
    BY <1>3, <2>1, Zenon DEF below
  <2> QED BY <2>2
<1>4. \E i \in T : \A j \in T : i =< j
  BY <1>2, <1>3
<1> QED BY <1>4, Zenon DEF Min

\* Max of two offsets is the larger one.
LEMMA MaxFacts ==
  ASSUME NEW a \in Nat, NEW b \in Nat
  PROVE  Max({a, b}) = IF a >= b THEN a ELSE b
<1>1. \E x \in {a, b} : \A y \in {a, b} : x >= y
  <2>1. a >= b \/ b >= a
    OBVIOUS
  <2> QED BY <2>1
<1>2. Max({a, b}) \in {a, b} /\ \A y \in {a, b} : Max({a, b}) >= y
  BY <1>1, Zenon DEF Max
<1> QED BY <1>2

-----------------------------------------------------------------------------
(***************************************************************************)
(* Ascending sequences of offsets, and where a cut splits them.            *)
(***************************************************************************)
\* The elements of a listed sequence, the last of them, and how often each
\* occurs.
LEMMA ListsFacts ==
  ASSUME NEW s, NEW S, Lists(s, S)
  PROVE  /\ Range(s) = S /\ S \subseteq Nat /\ (s = <<>> <=> S = {})
         /\ s # <<>> => s[Len(s)] \in S /\ \A o \in S : o <= s[Len(s)]
<1>1. s \in Seq(Nat) /\ Len(s) \in Nat /\ DOMAIN s = 1 .. Len(s)
      /\ \A i \in 1 .. Len(s) : s[i] \in Nat
  BY DEF Lists
<1>2. S = {s[i] : i \in 1 .. Len(s)}
  BY DEF Lists
<1>3. Range(s) = S /\ S \subseteq Nat
  BY <1>1, <1>2 DEF Range
<1>4. s = <<>> <=> S = {}
  <2>1. s = <<>> <=> Len(s) = 0
    BY <1>1
  <2>2. Len(s) # 0 => s[1] \in S
    BY <1>1, <1>2
  <2>3. Len(s) = 0 => S = {}
    BY <1>1, <1>2
  <2> QED BY <2>1, <2>2, <2>3
<1>5. ASSUME s # <<>>
      PROVE  s[Len(s)] \in S /\ \A o \in S : o <= s[Len(s)]
  <2>1. Len(s) \in 1 .. Len(s)
    BY <1>1, <1>5
  <2>2. ASSUME NEW o \in S PROVE o <= s[Len(s)]
    <3>1. PICK i \in 1 .. Len(s) : o = s[i]
      BY <1>2
    <3>2. i < Len(s) \/ i = Len(s)
      <4>1. i \in Int /\ Len(s) \in Int /\ i <= Len(s)
        BY <1>1
      <4> QED BY <4>1
    <3>3. i < Len(s) => s[i] < s[Len(s)]
      BY <2>1 DEF Lists
    <3>4. s[i] \in Nat /\ s[Len(s)] \in Nat
      BY <1>1, <2>1
    <3>5. s[i] <= s[Len(s)]
      BY <3>2, <3>3, <3>4
    <3> QED BY <3>1, <3>5
  <2> QED BY <2>1, <2>2, <1>2
<1> QED BY <1>3, <1>4, <1>5

\* An ascending sequence holds each of its offsets once.
LEMMA ListsOnce ==
  ASSUME NEW s, NEW S, Lists(s, S), NEW o
  PROVE  Cardinality({i \in DOMAIN s : s[i] = o}) = IF o \in S THEN 1 ELSE 0
<1>1. s \in Seq(Nat) /\ Len(s) \in Nat /\ DOMAIN s = 1 .. Len(s)
      /\ \A i \in 1 .. Len(s) : s[i] \in Nat
  BY DEF Lists
<1>2. S = {s[i] : i \in 1 .. Len(s)}
  BY DEF Lists
<1>3. CASE o \in S
  <2>1. PICK i \in 1 .. Len(s) : o = s[i]
    BY <1>2, <1>3
  <2>2. ASSUME NEW j \in 1 .. Len(s), s[j] = s[i] PROVE j = i
    <3>1. ~(i < j) /\ ~(j < i)
      BY <1>1, <2>2 DEF Lists
    <3> QED BY <3>1
  <2>3. {j \in DOMAIN s : s[j] = o} = {i}
    BY <1>1, <2>1, <2>2
  <2> QED BY <2>3, <1>3, FS_Singleton, Zenon
<1>4. CASE o \notin S
  <2>1. {j \in DOMAIN s : s[j] = o} = {}
    BY <1>1, <1>2, <1>4
  <2> QED BY <2>1, <1>4, FS_EmptySet, Zenon
<1> QED BY <1>3, <1>4

\* A prefix of an ascending sequence up to an offset, and the rest.
LEMMA SplitLists ==
  ASSUME NEW s, NEW S, Lists(s, S), NEW k \in 0 .. Len(s), NEW c \in Nat,
         \A i \in 1 .. k : s[i] < c, \A i \in k + 1 .. Len(s) : s[i] >= c
  PROVE  /\ Lists(SubSeq(s, 1, k), {o \in S : o < c})
         /\ Lists(SubSeq(s, k + 1, Len(s)), {o \in S : o >= c})
<1>1. s \in Seq(Nat) /\ Len(s) \in Nat /\ k \in Nat /\ k <= Len(s)
      /\ \A i \in 1 .. Len(s) : s[i] \in Nat
  BY DEF Lists
<1>2. S = {s[i] : i \in 1 .. Len(s)}
  BY DEF Lists
<1>3. \A i, j \in 1 .. Len(s) : i < j => s[i] < s[j]
  BY DEF Lists
<1>4. Lists(SubSeq(s, 1, k), {o \in S : o < c})
  <2> DEFINE t == SubSeq(s, 1, k)
  <2>1. t \in Seq(Nat) /\ Len(t) = k /\ \A i \in 1 .. k : t[i] = s[i]
    BY <1>1
  <2> HIDE DEF t
  <2>2. \A i, j \in 1 .. Len(t) : i < j => t[i] < t[j]
    <3> SUFFICES ASSUME NEW i \in 1 .. k, NEW j \in 1 .. k, i < j PROVE t[i] < t[j]
      BY <2>1
    <3>1. i \in 1 .. Len(s) /\ j \in 1 .. Len(s)
      BY <1>1
    <3> QED BY <3>1, <2>1, <1>3
  <2>3. ASSUME NEW o, o \in S, o < c PROVE \E i \in 1 .. k : o = t[i]
    <3>1. PICK i \in 1 .. Len(s) : o = s[i]
      BY <1>2, <2>3
    <3>2. i \in 1 .. k
      <4>1. i \in k + 1 .. Len(s) \/ i \in 1 .. k
        BY <1>1
      <4>2. i \in k + 1 .. Len(s) => s[i] >= c
        OBVIOUS
      <4> QED BY <4>1, <4>2, <3>1, <2>3, <1>1
    <3> QED BY <3>1, <3>2, <2>1
  <2>4. ASSUME NEW i \in 1 .. k PROVE t[i] \in S /\ t[i] < c
    <3>1. i \in 1 .. Len(s)
      BY <1>1
    <3> QED BY <3>1, <2>1, <1>2
  <2>5. {o \in S : o < c} = {t[i] : i \in 1 .. Len(t)}
    BY <2>1, <2>3, <2>4
  <2> QED BY <2>1, <2>2, <2>5 DEF Lists, t
<1>5. Lists(SubSeq(s, k + 1, Len(s)), {o \in S : o >= c})
  <2> DEFINE t == SubSeq(s, k + 1, Len(s))
             n == Len(s) - k
  <2>0. n \in Nat
    BY <1>1
  <2>1. t \in Seq(Nat) /\ Len(t) = n /\ \A i \in 1 .. n : t[i] = s[k + i]
    <3>1. k + 1 \in Nat /\ \A i \in k + 1 .. Len(s) : s[i] \in Nat
      BY <1>1
    <3>2. Len(s) - (k + 1) + 1 = n
      BY <1>1
    <3>3. t = [i \in 1 .. n |-> s[k + i]]
      <4>1. \A i \in 1 .. n : (i + (k + 1)) - 1 = k + i
        BY <1>1
      <4> QED BY <1>1, <3>2, <4>1
    <3>4. \A i \in 1 .. n : s[k + i] \in Nat
      BY <1>1
    <3> HIDE DEF t
    <3> QED BY <3>3, <3>4, <2>0
  <2>2. \A i \in 1 .. n : k + i \in 1 .. Len(s) /\ k + i \in k + 1 .. Len(s)
    BY <1>1
  <2> HIDE DEF t, n
  <2>3. \A i, j \in 1 .. Len(t) : i < j => t[i] < t[j]
    <3> SUFFICES ASSUME NEW i \in 1 .. n, NEW j \in 1 .. n, i < j PROVE t[i] < t[j]
      BY <2>1
    <3>1. k + i \in 1 .. Len(s) /\ k + j \in 1 .. Len(s) /\ k + i < k + j
      BY <1>1, <2>2
    <3>2. s[k + i] < s[k + j]
      BY <3>1, <1>3
    <3> QED BY <3>2, <2>1
  <2>4. ASSUME NEW o, o \in S, o >= c PROVE \E i \in 1 .. n : o = t[i]
    <3>1. PICK i \in 1 .. Len(s) : o = s[i]
      BY <1>2, <2>4
    <3>2. i \in k + 1 .. Len(s)
      <4>1. i \in k + 1 .. Len(s) \/ i \in 1 .. k
        BY <1>1
      <4>2. i \in 1 .. k => s[i] < c
        OBVIOUS
      <4> QED BY <4>1, <4>2, <3>1, <2>4, <1>1
    <3>3. i - k \in 1 .. n /\ k + (i - k) = i
      BY <3>2, <1>1 DEF n
    <3>4. t[i - k] = s[k + (i - k)]
      BY <3>3, <2>1
    <3> QED BY <3>1, <3>3, <3>4
  <2>5. ASSUME NEW i \in 1 .. n PROVE t[i] \in S /\ t[i] >= c
    <3>1. k + i \in 1 .. Len(s) /\ k + i \in k + 1 .. Len(s) /\ t[i] = s[k + i]
      BY <2>1, <2>2
    <3> QED BY <3>1, <1>2
  <2>6. {o \in S : o >= c} = {t[i] : i \in 1 .. Len(t)}
    BY <2>1, <2>4, <2>5
  <2> QED BY <2>1, <2>3, <2>6 DEF Lists, t
<1> QED BY <1>4, <1>5

\* The records of a partition that lie behind the pending cut.
Past(a, tp, S) == {o \in S : tp \in a.aligned /\ o >= Cut[a.pending][tp]}

\* Split accepts what is before the pending cut, and leaves what is behind it.
LEMMA SplitAtCut ==
  ASSUME NEW a, NEW tp, NEW s, NEW S, Lists(s, S),
         tp \in a.aligned => Cut[a.pending][tp] \in Nat
  PROVE  /\ Lists(SubSeq(s, 1, Split(a, tp, s)), S \ Past(a, tp, S))
         /\ Lists(SubSeq(s, Split(a, tp, s) + 1, Len(s)), Past(a, tp, S))
<1> DEFINE c == Cut[a.pending][tp]
           past == {i \in DOMAIN s : s[i] >= c}
<1>1. s \in Seq(Nat) /\ Len(s) \in Nat /\ DOMAIN s = 1 .. Len(s)
      /\ \A i \in 1 .. Len(s) : s[i] \in Nat
  BY DEF Lists
<1>2. S \subseteq Nat
  BY ListsFacts
<1>3. CASE tp \notin a.aligned
  <2>1. Split(a, tp, s) = Len(s) /\ Past(a, tp, S) = {}
    BY <1>3 DEF Split, Past
  <2>2. SubSeq(s, 1, Len(s)) = s
    BY <1>1
  <2>3. SubSeq(s, Len(s) + 1, Len(s)) = <<>>
    BY <1>1
  <2>4. Lists(<<>>, {})
    BY DEF Lists
  <2>5. S \ {} = S
    OBVIOUS
  <2> QED BY <2>1, <2>2, <2>3, <2>4, <2>5
<1>4. CASE tp \in a.aligned
  <2>0. c \in Nat
    BY <1>4
  <2>1. Past(a, tp, S) = {o \in S : o >= c}
    BY <1>4 DEF Past
  <2>2. S \ Past(a, tp, S) = {o \in S : o < c}
    <3>1. \A o \in S : o < c <=> ~(o >= c)
      BY <2>0, <1>2
    <3> QED BY <2>1, <3>1
  <2>3. Split(a, tp, s) = IF past = {} THEN Len(s) ELSE Min(past) - 1
    BY <1>4 DEF Split
  <2> HIDE DEF c
  <2>4. PICK k \in 0 .. Len(s) : /\ k = Split(a, tp, s)
                                 /\ \A i \in 1 .. k : s[i] < c
                                 /\ \A i \in k + 1 .. Len(s) : s[i] >= c
    <3>1. CASE past = {}
      <4>1. Len(s) \in 0 .. Len(s) /\ Split(a, tp, s) = Len(s)
        BY <1>1, <2>3, <3>1
      <4>2. \A i \in 1 .. Len(s) : s[i] < c
        BY <1>1, <3>1, <2>0
      <4>3. \A i \in Len(s) + 1 .. Len(s) : s[i] >= c
        BY <1>1
      <4> QED BY <4>1, <4>2, <4>3
    <3>2. CASE past # {}
      <4>1. past \subseteq Nat
        BY <1>1
      <4>2. Min(past) \in past /\ \A j \in past : Min(past) <= j
        BY <3>2, <4>1, MinFacts
      <4>3. PICK m \in past : m = Min(past) /\ \A j \in past : m <= j
        BY <4>2
      <4>4. m \in 1 .. Len(s) /\ s[m] >= c
        BY <1>1
      <4>5. m - 1 \in 0 .. Len(s) /\ Split(a, tp, s) = m - 1
        BY <1>1, <2>3, <3>2, <4>3, <4>4
      <4>6. ASSUME NEW i \in 1 .. m - 1 PROVE s[i] < c
        <5>1. i \in 1 .. Len(s) /\ ~(m <= i)
          BY <1>1, <4>4
        <5>2. ~(s[i] >= c)
          BY <5>1, <4>3, <1>1
        <5> QED BY <5>1, <5>2, <2>0, <1>1
      <4>7. ASSUME NEW i \in (m - 1) + 1 .. Len(s) PROVE s[i] >= c
        <5>1. i \in 1 .. Len(s) /\ (i = m \/ m < i)
          BY <1>1, <4>4
        <5>2. m < i => s[m] < s[i]
          BY <5>1, <4>4 DEF Lists
        <5>3. s[i] \in Nat /\ s[m] \in Nat
          BY <5>1, <4>4, <1>1
        <5>4. m < i => s[i] >= c
          BY <5>2, <5>3, <4>4, <2>0
        <5> QED BY <5>1, <5>4, <4>4
      <4> QED BY <4>5, <4>6, <4>7
    <3> QED BY <3>1, <3>2
  <2>5. /\ Lists(SubSeq(s, 1, k), {o \in S : o < c})
        /\ Lists(SubSeq(s, k + 1, Len(s)), {o \in S : o >= c})
    BY <2>0, <2>4, SplitLists
  <2> QED BY <2>1, <2>2, <2>4, <2>5
<1> QED BY <1>3, <1>4

\* Applying listed records adds one to the count of each of them.
LEMMA AppliedLists ==
  ASSUME NEW state \in Snapshot, NEW input, NEW S,
         \A tp \in TopicPartition : Lists(input[tp], S[tp])
  PROVE  /\ Applied(state, input) \in Snapshot
         /\ \A r \in Record : Count(Applied(state, input), r)
                              = Count(state, r) + (IF r[2] \in S[r[1]] THEN 1 ELSE 0)
<1> DEFINE n(r) == Cardinality({i \in DOMAIN input[r[1]] : input[r[1]][i] = r[2]})
<1>1. ASSUME NEW r \in Record
      PROVE  n(r) = (IF r[2] \in S[r[1]] THEN 1 ELSE 0) /\ Count(state, r) \in Nat
  <2>1. r[1] \in TopicPartition
    BY RecordParts
  <2>2. Count(state, r) \in Nat
    BY DEF Count, Snapshot
  <2> QED BY <2>1, <2>2, ListsOnce
<1>2. Applied(state, input) = [r \in Record |-> Count(state, r) + n(r)]
  BY DEF Applied, Count
<1> HIDE DEF n
<1>3. \A r \in Record : Count(state, r) + n(r) \in Nat
  BY <1>1
<1>4. Applied(state, input) \in [Record -> Nat]
  BY <1>2, <1>3
<1>5. Applied(state, input) # Nothing
  BY <1>4, NothingAssumption
<1>6. \A r \in Record : Count(Applied(state, input), r) = Count(state, r) + n(r)
  BY <1>2, <1>5 DEF Count
<1> QED BY <1>1, <1>4, <1>6 DEF Snapshot

-----------------------------------------------------------------------------
(***************************************************************************)
(* The inductive invariant.                                                *)
(***************************************************************************)
\* The barrier groups proved about.  Every cut names every partition, later
\* cuts are not before earlier ones, and all of them are published before the
\* runner starts.  The partitions are assigned together and stay until the
\* process ends; an error ends it, and a new process restores a cut whose
\* barrier the listener reported.
BarrierGroup ==
  /\ Epoch # {} /\ ~LateCuts /\ RestoreFirst
  /\ \A e \in Epoch : DOMAIN Cut[e] = TopicPartition
  /\ \A e, f \in Epoch : e <= f => \A tp \in TopicPartition : Cut[e][tp] <= Cut[f][tp]
  /\ Batches \subseteq {TopicPartition} /\ MaxRebalances = 0
  /\ \A m \in Modes : m.policy = "fail" /\ m.onError # "continue"

AlignerType ==
  [lastEpoch : Epoch \union {NoEpoch}, pending : Epoch \union {NoEpoch},
   aligned : SUBSET TopicPartition, reached : SUBSET TopicPartition,
   held : [TopicPartition -> Seq(Nat)], positions : [TopicPartition -> Nat],
   assigned : {{}, TopicPartition}]

\* A runner that has neither failed nor a restore ahead of it.
Running == ~stale /\ ~failed

\* The offsets an aligner holds back of a partition.
HeldBack(a, tp) == Range(a.held[tp])

\* The records that ran: fetched, and not held back.
Ran(a, p) == {r \in Data : r[2] < p[r[1]] /\ r[2] \notin HeldBack(a, r[1])}

\* The pending cut is the first that is not finished, every partition waits
\* for it, and the ones that reached it did.
Waits(a) ==
  IF a.pending = NoEpoch THEN a.aligned = {}
  ELSE /\ a.aligned = TopicPartition
       /\ a.pending > a.lastEpoch
       /\ \A e \in Epoch : e > a.lastEpoch => e >= a.pending
       /\ \A tp \in a.reached : a.positions[tp] >= Cut[a.pending][tp]

\* What is held back was fetched, and is held in order; the aligner is not
\* ahead of the consumer.
Keeps(a, p) ==
  \A tp \in TopicPartition :
    /\ Lists(a.held[tp], HeldBack(a, tp))
    /\ \A o \in HeldBack(a, tp) : <<tp, o>> \in Data /\ o < p[tp]
    /\ a.positions[tp] <= p[tp]

\* Only what lies behind the pending cut is held back.
HoldsPast(a) ==
  \A tp \in TopicPartition : \A o \in HeldBack(a, tp) :
    a.pending # NoEpoch /\ o >= Cut[a.pending][tp]

\* Without a pending cut every cut is finished.
NoCutLeft(a) == a.pending = NoEpoch => \A e \in Epoch : e <= a.lastEpoch

CutType ==
  /\ mode \in Modes
  /\ committed \in [TopicPartition -> Nat] /\ position \in [TopicPartition -> Nat]
  /\ setAside = {}
  /\ manifest = [e \in Epoch |-> "complete"]
  /\ store \in [Logical -> [Epoch \union {NoEpoch} -> Snapshot]]
  /\ processors \in [Logical -> Snapshot]
  /\ owned \in {{}, TopicPartition}
  /\ pc \in {"idle", "poll", "send", "save", "commit"}
  /\ failed \in BOOLEAN /\ stale \in BOOLEAN
  /\ aligner \in AlignerType
  /\ finished \in SUBSET (Epoch \X Logical)
  /\ rebalances = 0

\* A round commits what ran, and a barrier commits the cut, which every
\* partition reached, and saves the state at it.
CutRound ==
  /\ pc \in {"idle", "poll"} => round = NoRound
  /\ pc # "idle" => Running
  /\ pc = "save" => round.barrier
  /\ round.bad = {}
  /\ DOMAIN round.offsets \in SUBSET TopicPartition
  /\ \A tp \in DOMAIN round.offsets : round.offsets[tp] \in Nat
  /\ \A l \in DOMAIN round.prior : round.prior[l] \in Snapshot
  /\ round.barrier =>
       /\ aligner.pending # NoEpoch /\ DOMAIN round.offsets = TopicPartition
       /\ \A tp \in TopicPartition : /\ round.offsets[tp] = Cut[aligner.pending][tp]
                                     /\ Cut[aligner.pending][tp] <= aligner.positions[tp]
  /\ \A tp \in DOMAIN round.offsets : round.offsets[tp] <= position[tp]
  /\ \A r \in Data : r[1] \in DOMAIN round.offsets /\ r[2] < round.offsets[r[1]]
                     => r \in Ran(aligner, position)
  /\ pc \in {"save", "commit"} /\ ~Transactional => round.records \subseteq handled
  /\ pc = "commit" /\ round.barrier =>
       \A l \in Logical : store[l][aligner.pending] = processors[l]

\* The state of a running runner is the effect of the records that ran; they
\* lie before every cut that is not finished.  Before the first assignment
\* nothing is committed or saved.
CutState ==
  /\ Waits(aligner) /\ Keeps(aligner, position)
  /\ pc # "idle" => NoCutLeft(aligner)
  /\ pc \in {"send", "save", "commit"} => HoldsPast(aligner)
  /\ \A r \in Record :
       Count(processors[Partition[r[1]]], r) = Holds(Ran(aligner, position), r)
  /\ \A r \in Ran(aligner, position), e \in Epoch :
       e > aligner.lastEpoch => r[2] < Cut[e][r[1]]
  /\ Ran(aligner, position) \subseteq handled \union round.records
  /\ owned = {} => /\ \A tp \in TopicPartition : position[tp] = 0 /\ committed[tp] = 0
                   /\ \A l \in Logical : store[l][NoEpoch] = Nothing

\* Every record below the cut of a finished barrier was handled.
CutHandled ==
  \A e \in Epoch, r \in Data :
    <<e, Partition[r[1]]>> \in finished /\ r[2] < Cut[e][r[1]] => r \in handled

\* A snapshot of an epoch is the state at its cut, also when its round then
\* failed.
SavedAtTheCut ==
  \A e \in Epoch, tp \in TopicPartition :
    store[Partition[tp]][e] # Nothing
    => HoldsPrefix(store[Partition[tp]][e], tp, Cut[e][tp])

CutDurable == SnapshotIsTheCut /\ SavedAtTheCut /\ CutHandled /\ NothingSkipped

CutInv == CutType /\ CutRound /\ CutDurable /\ (Running => CutState)

-----------------------------------------------------------------------------
(***************************************************************************)
(* The aligner.                                                            *)
(***************************************************************************)
\* A marker has an offset in every partition, and an epoch is one.
LEMMA CutNat ==
  ASSUME BarrierGroup, NEW e \in Epoch
  PROVE  /\ e \in Nat /\ e # NoEpoch /\ DOMAIN Cut[e] = TopicPartition
         /\ \A tp \in TopicPartition : Cut[e][tp] \in Nat
<1>1. e \in Nat
  BY EpochAssumption
<1>2. DOMAIN Cut[e] = TopicPartition
  BY DEF BarrierGroup
<1> QED BY <1>1, <1>2, CutAssumption DEF NoEpoch

\* NoEpoch is below every epoch.
LEMMA EpochInt ==
  ASSUME NEW e \in Epoch \union {NoEpoch}
  PROVE  e \in Int
<1>1. NoEpoch \in Int
  BY DEF NoEpoch
<1> QED BY <1>1, EpochAssumption

\* Realign makes every partition wait for the pending cut, whatever the
\* assignment was; it drops nothing.
LEMMA RealignFacts ==
  ASSUME BarrierGroup, NEW a \in AlignerType, a.pending \in Epoch
  PROVE  /\ Realign(a) \in AlignerType
         /\ Realign(a).pending = a.pending /\ Realign(a).lastEpoch = a.lastEpoch
         /\ Realign(a).held = a.held /\ Realign(a).positions = a.positions
         /\ Realign(a).aligned = TopicPartition
         /\ \A tp \in Realign(a).reached :
              tp \in a.reached \/ a.positions[tp] >= Cut[a.pending][tp]
<1> DEFINE aligned == {tp \in DOMAIN Cut[a.pending] : Owns(a, tp)}
           passed == {tp \in aligned : a.positions[tp] >= Cut[a.pending][tp]}
           reached == (a.reached \union passed) \intersect aligned
           held == [tp \in TopicPartition |->
                      IF tp \in aligned \/ Owns(a, tp) THEN a.held[tp] ELSE <<>>]
<1>1. aligned = TopicPartition
  <2>1. DOMAIN Cut[a.pending] = TopicPartition
    BY CutNat
  <2>2. a.assigned \in {{}, TopicPartition}
    BY DEF AlignerType
  <2> QED BY <2>1, <2>2 DEF Owns
<1>2. held = a.held
  <2>1. a.held \in [TopicPartition -> Seq(Nat)]
    BY DEF AlignerType
  <2>2. \A tp \in TopicPartition : held[tp] = a.held[tp]
    BY <1>1
  <2> QED BY <2>1, <2>2
<1>3. Realign(a) = [a EXCEPT !.aligned = aligned, !.reached = reached, !.held = held]
  BY DEF Realign
<1>4. reached \in SUBSET TopicPartition
  BY <1>1
<1>5. \A tp \in reached : tp \in a.reached \/ a.positions[tp] >= Cut[a.pending][tp]
  OBVIOUS
<1> HIDE DEF aligned, reached, held
<1>6. Realign(a) \in AlignerType
  BY <1>1, <1>2, <1>3, <1>4 DEF AlignerType
<1> QED BY <1>1, <1>2, <1>3, <1>5, <1>6 DEF AlignerType

\* Refresh takes the first cut that is not finished, if there is one.
LEMMA RefreshFacts ==
  ASSUME BarrierGroup, NEW a \in AlignerType, NEW S \in {{}, TopicPartition}
  PROVE  /\ Refresh(a, S, Epoch) \in AlignerType
         /\ Refresh(a, S, Epoch).lastEpoch = a.lastEpoch
         /\ Refresh(a, S, Epoch).held = a.held
         /\ Refresh(a, S, Epoch).positions = a.positions
         /\ Waits(a) => Waits(Refresh(a, S, Epoch)) /\ NoCutLeft(Refresh(a, S, Epoch))
<1> DEFINE b == [a EXCEPT !.assigned = S]
           next == {e \in Epoch : e > a.lastEpoch}
           c == Refresh(a, S, Epoch)
<1>1. /\ b \in AlignerType /\ b.lastEpoch = a.lastEpoch /\ b.pending = a.pending
      /\ b.held = a.held /\ b.positions = a.positions /\ b.aligned = a.aligned
      /\ b.reached = a.reached
  BY DEF AlignerType
<1>2. a.pending \in Epoch \union {NoEpoch} /\ a.lastEpoch \in Epoch \union {NoEpoch}
  BY DEF AlignerType
<1>3. c = IF a.pending # NoEpoch THEN Realign(b)
          ELSE IF next = {} THEN b ELSE BeginCut(b, Min(next))
  BY DEF Refresh
<1> HIDE DEF b, c
<1>4. CASE a.pending # NoEpoch
  <2>1. a.pending \in Epoch /\ c = Realign(b)
    BY <1>2, <1>3, <1>4
  <2>2. /\ c \in AlignerType /\ c.pending = a.pending /\ c.lastEpoch = a.lastEpoch
        /\ c.held = a.held /\ c.positions = a.positions /\ c.aligned = TopicPartition
        /\ \A tp \in c.reached : tp \in a.reached \/ a.positions[tp] >= Cut[a.pending][tp]
    BY <2>1, <1>1, RealignFacts
  <2>3. Waits(a) => Waits(c)
    BY <2>2, <1>4 DEF Waits
  <2>4. NoCutLeft(c)
    BY <2>2, <1>4 DEF NoCutLeft
  <2> QED BY <2>2, <2>3, <2>4 DEF c
<1>5. CASE a.pending = NoEpoch /\ next = {}
  <2>1. c = b
    BY <1>3, <1>5
  <2>2. NoCutLeft(c)
    <3>1. ASSUME NEW e \in Epoch PROVE e <= a.lastEpoch
      <4>1. ~(e > a.lastEpoch)
        BY <1>5
      <4>2. e \in Int /\ a.lastEpoch \in Int
        BY <1>2, EpochInt
      <4> QED BY <4>1, <4>2
    <3> QED BY <3>1, <2>1, <1>1 DEF NoCutLeft
  <2>3. Waits(a) => Waits(c)
    BY <2>1, <1>1, <1>5 DEF Waits
  <2> QED BY <2>1, <2>2, <2>3, <1>1 DEF c
<1>6. CASE a.pending = NoEpoch /\ next # {}
  <2> DEFINE d == [b EXCEPT !.pending = Min(next), !.reached = {}]
  <2>1. next \subseteq Nat
    BY EpochAssumption
  <2>2. Min(next) \in next /\ \A j \in next : Min(next) <= j
    BY <2>1, <1>6, MinFacts
  <2>3. PICK m \in Epoch : m = Min(next) /\ m > a.lastEpoch /\ \A j \in next : m <= j
    BY <2>2
  <2>4. /\ d \in AlignerType /\ d.lastEpoch = a.lastEpoch /\ d.pending = m
        /\ d.held = a.held /\ d.positions = a.positions /\ d.reached = {}
    BY <2>3, <1>1 DEF AlignerType
  <2>5. c = Realign(d)
    BY <1>3, <1>6 DEF BeginCut
  <2> HIDE DEF d
  <2>6. /\ c \in AlignerType /\ c.pending = m /\ c.lastEpoch = a.lastEpoch
        /\ c.held = a.held /\ c.positions = a.positions /\ c.aligned = TopicPartition
        /\ \A tp \in c.reached : a.positions[tp] >= Cut[m][tp]
    BY <2>4, <2>5, RealignFacts
  <2>7. m # NoEpoch
    BY CutNat
  <2>8. ASSUME NEW e \in Epoch, e > a.lastEpoch PROVE e >= m
    <3>1. m <= e
      BY <2>3, <2>8
    <3> QED BY <3>1, EpochAssumption
  <2>9. Waits(c)
    BY <2>3, <2>6, <2>7, <2>8 DEF Waits
  <2>10. NoCutLeft(c)
    BY <2>6, <2>7 DEF NoCutLeft
  <2> QED BY <2>6, <2>9, <2>10 DEF c
<1> QED BY <1>4, <1>5, <1>6

\* The positions of the consumer do not take the aligner ahead of it.
LEMMA ObserveFacts ==
  ASSUME BarrierGroup, NEW a \in AlignerType, NEW p \in [TopicPartition -> Nat]
  PROVE  /\ ObservePositions(a, p) \in AlignerType
         /\ ObservePositions(a, p).lastEpoch = a.lastEpoch
         /\ ObservePositions(a, p).pending = a.pending
         /\ ObservePositions(a, p).held = a.held
         /\ \A tp \in TopicPartition : a.positions[tp] <= p[tp]
                                       => ObservePositions(a, p).positions[tp] <= p[tp]
         /\ Waits(a) => Waits(ObservePositions(a, p))
<1> DEFINE ps == [tp \in TopicPartition |->
                    IF tp \in a.aligned THEN Max({a.positions[tp], p[tp]})
                    ELSE a.positions[tp]]
           b == [a EXCEPT !.positions = ps]
           c == ObservePositions(a, p)
<1>1. ASSUME NEW tp \in TopicPartition
      PROVE  /\ ps[tp] \in Nat /\ a.positions[tp] \in Nat /\ a.positions[tp] <= ps[tp]
             /\ a.positions[tp] <= p[tp] => ps[tp] <= p[tp]
  <2>1. a.positions[tp] \in Nat /\ p[tp] \in Nat
    BY DEF AlignerType
  <2>2. ps[tp] = IF tp \in a.aligned THEN Max({a.positions[tp], p[tp]}) ELSE a.positions[tp]
    OBVIOUS
  <2> HIDE DEF ps
  <2>3. Max({a.positions[tp], p[tp]}) = IF a.positions[tp] >= p[tp] THEN a.positions[tp] ELSE p[tp]
    BY <2>1, MaxFacts
  <2> QED BY <2>1, <2>2, <2>3
<1>2. ps \in [TopicPartition -> Nat]
  BY <1>1
<1> HIDE DEF ps
<1>3. /\ b \in AlignerType /\ b.lastEpoch = a.lastEpoch /\ b.pending = a.pending
      /\ b.held = a.held /\ b.positions = ps /\ b.reached = a.reached
  BY <1>2 DEF AlignerType
<1>4. c = IF a.pending = NoEpoch THEN a ELSE Realign(b)
  BY DEF ObservePositions, ps
<1> HIDE DEF b, c
<1>5. CASE a.pending = NoEpoch
  BY <1>4, <1>5 DEF c
<1>6. CASE a.pending # NoEpoch
  <2>1. a.pending \in Epoch
    BY <1>6 DEF AlignerType
  <2>2. /\ c \in AlignerType /\ c.pending = a.pending /\ c.lastEpoch = a.lastEpoch
        /\ c.held = a.held /\ c.positions = ps /\ c.aligned = TopicPartition
        /\ \A tp \in c.reached : tp \in a.reached \/ ps[tp] >= Cut[a.pending][tp]
    BY <2>1, <1>3, <1>4, <1>6, RealignFacts
  <2>3. ASSUME Waits(a), NEW tp \in c.reached
        PROVE  ps[tp] >= Cut[a.pending][tp]
    <3>1. tp \in TopicPartition
      BY <2>2 DEF AlignerType
    <3>2. Cut[a.pending][tp] \in Nat
      BY <2>1, <3>1, CutNat
    <3>3. tp \in a.reached => a.positions[tp] >= Cut[a.pending][tp]
      BY <2>3, <1>6 DEF Waits
    <3> QED BY <2>2, <3>1, <3>2, <3>3, <1>1
  <2>4. Waits(a) => Waits(c)
    BY <2>2, <2>3, <1>6 DEF Waits
  <2> QED BY <2>2, <2>4, <1>1 DEF c
<1> QED BY <1>5, <1>6

\* A round starts with the first cut that is not finished.
LEMMA StartFacts ==
  ASSUME BarrierGroup, CutType
  PROVE  /\ Refreshed \in AlignerType /\ StartAligner \in AlignerType
         /\ StartAligner.held = aligner.held /\ StartAligner.lastEpoch = aligner.lastEpoch
         /\ Waits(aligner) => Waits(StartAligner) /\ NoCutLeft(StartAligner)
         /\ Keeps(aligner, position) => Keeps(StartAligner, position)
<1>1. CompleteCuts = Epoch
  BY DEF CutType, CompleteCuts
<1>2. aligner \in AlignerType /\ owned \in {{}, TopicPartition} /\ position \in [TopicPartition -> Nat]
  BY DEF CutType
<1> DEFINE b == Refreshed
           c == StartAligner
<1>3. /\ b \in AlignerType /\ b.lastEpoch = aligner.lastEpoch
      /\ b.held = aligner.held /\ b.positions = aligner.positions
      /\ Waits(aligner) => Waits(b) /\ NoCutLeft(b)
  BY <1>1, <1>2, RefreshFacts DEF Refreshed
<1>4. c = IF HasPositions /\ owned # {} THEN ObservePositions(b, position) ELSE b
  BY DEF StartAligner, BarrierGroup
<1> HIDE DEF b, c
<1>5. CASE HasPositions /\ owned # {}
  <2>1. /\ c \in AlignerType /\ c.lastEpoch = b.lastEpoch /\ c.pending = b.pending
        /\ c.held = b.held
        /\ Waits(b) => Waits(c)
        /\ \A tp \in TopicPartition : b.positions[tp] <= position[tp]
                                      => c.positions[tp] <= position[tp]
    BY <1>2, <1>3, <1>4, <1>5, ObserveFacts
  <2>2. NoCutLeft(b) => NoCutLeft(c)
    BY <2>1 DEF NoCutLeft
  <2>3. Keeps(aligner, position) => Keeps(c, position)
    BY <2>1, <1>3 DEF Keeps, HeldBack
  <2> QED BY <2>1, <2>2, <2>3, <1>3 DEF b, c
<1>6. CASE ~(HasPositions /\ owned # {})
  <2>1. c = b
    BY <1>4, <1>6
  <2>2. Keeps(aligner, position) => Keeps(c, position)
    BY <2>1, <1>3 DEF Keeps, HeldBack
  <2> QED BY <2>1, <2>2, <1>3 DEF b, c
<1> QED BY <1>5, <1>6

\* The offsets a poll has to place: those held back, and those fetched.
Merged(next, tp) ==
  HeldBack(aligner, tp)
  \union {o \in position[tp] .. next[tp] - 1 : <<tp, o>> \in Data}

\* The offsets a poll runs.
Runs(next, tp) == Merged(next, tp) \ Past(aligner, tp, Merged(next, tp))

\* What the aligner merges is what it held, followed by what was fetched.
LEMMA MergeFacts ==
  ASSUME CutType, Keeps(aligner, position), NEW next \in Offsets,
         \A tp \in TopicPartition : position[tp] <= next[tp],
         NEW tp \in TopicPartition
  PROVE  /\ Lists(Merge(aligner, Fetched(next))[tp], Merged(next, tp))
         /\ \A o \in Merged(next, tp) : o \in Nat /\ <<tp, o>> \in Data /\ o < next[tp]
         /\ position[tp] \in Nat /\ next[tp] \in Nat
<1> DEFINE H == HeldBack(aligner, tp)
           F == {o \in position[tp] .. next[tp] - 1 : <<tp, o>> \in Data}
<1>1. position[tp] \in Nat /\ next[tp] \in Nat /\ position[tp] <= next[tp]
  <2>1. next[tp] \in 0 .. End /\ End \in Nat
    BY RunnerAssumption DEF Offsets
  <2> QED BY <2>1 DEF CutType
<1>2. Lists(aligner.held[tp], H) /\ \A o \in H : <<tp, o>> \in Data /\ o < position[tp]
  BY DEF Keeps
<1>3. IsFiniteSet(F) /\ F \subseteq Nat
  <2>1. F \subseteq position[tp] .. next[tp] - 1
    OBVIOUS
  <2>2. IsFiniteSet(position[tp] .. next[tp] - 1)
    BY <1>1, FS_Interval
  <2>3. position[tp] .. next[tp] - 1 \subseteq Nat
    BY <1>1
  <2>4. F \in SUBSET (position[tp] .. next[tp] - 1)
    BY <2>1
  <2>5. IsFiniteSet(F)
    BY <2>2, <2>4, FS_Subset
  <2> QED BY <2>1, <2>3, <2>5
<1>4. Fetched(next)[tp] = InOrder(F)
  BY DEF Fetched
<1>5. Lists(InOrder(F), F)
  BY <1>3, InOrderLists
<1>6. H \subseteq Nat
  BY <1>2, ListsFacts
<1>7. \A o \in H, p \in F : o < p
  <2> SUFFICES ASSUME NEW o \in H, NEW p \in F PROVE o < p
    OBVIOUS
  <2>1. o \in Nat /\ o < position[tp]
    BY <1>2, <1>6
  <2>2. p \in Nat /\ position[tp] <= p
    BY <1>1
  <2> QED BY <1>1, <2>1, <2>2
<1>8. Lists(aligner.held[tp] \o InOrder(F), H \union F)
  BY <1>2, <1>5, <1>7, ListsConcat
<1>9. Merge(aligner, Fetched(next))[tp] = aligner.held[tp] \o InOrder(F)
  BY <1>4 DEF Merge
<1>10. \A o \in H \union F : o \in Nat /\ <<tp, o>> \in Data /\ o < next[tp]
  BY <1>1, <1>2, <1>3, <1>6
<1> QED BY <1>1, <1>8, <1>9, <1>10 DEF Merged

\* A poll runs, of what was held and fetched, the records before the pending
\* cut, and holds back the others.
LEMMA PollSplits ==
  ASSUME BarrierGroup, CutType, Waits(aligner), Keeps(aligner, position),
         NEW next \in Offsets, \A tp \in TopicPartition : position[tp] <= next[tp]
  PROVE  /\ AcceptedAligner(next) \in AlignerType
         /\ AcceptedAligner(next).pending = aligner.pending
         /\ AcceptedAligner(next).lastEpoch = aligner.lastEpoch
         /\ AcceptedAligner(next).aligned = aligner.aligned
         /\ Waits(AcceptedAligner(next)) /\ Keeps(AcceptedAligner(next), next)
         /\ HoldsPast(AcceptedAligner(next))
         /\ \A tp \in TopicPartition :
              /\ Lists(Input(next)[tp], Runs(next, tp))
              /\ HeldBack(AcceptedAligner(next), tp) = Past(aligner, tp, Merged(next, tp))
<1> DEFINE m == Merge(aligner, Fetched(next))
           some == {tp \in TopicPartition : m[tp] # <<>>}
           ps == [tp \in TopicPartition |->
                    IF tp \in some
                    THEN Max({aligner.positions[tp], m[tp][Len(m[tp])] + 1})
                    ELSE aligner.positions[tp]]
           hs == [tp \in TopicPartition |->
                    SubSeq(m[tp], Split(aligner, tp, m[tp]) + 1, Len(m[tp]))]
           rs == aligner.reached \union {tp \in aligner.aligned \intersect some :
                                           ps[tp] >= Cut[aligner.pending][tp]}
           b == AcceptedAligner(next)
<1>1. b = [aligner EXCEPT !.positions = ps, !.held = hs, !.reached = rs]
  BY DEF AcceptedAligner, AcceptAll, BarrierGroup
<1>2. aligner \in AlignerType
  BY DEF CutType
<1>3. ASSUME NEW tp \in TopicPartition
      PROVE  tp \in aligner.aligned => aligner.pending \in Epoch /\ Cut[aligner.pending][tp] \in Nat
  <2>1. tp \in aligner.aligned => aligner.pending # NoEpoch
    BY DEF Waits
  <2>2. aligner.pending \in Epoch \union {NoEpoch}
    BY <1>2 DEF AlignerType
  <2> QED BY <2>1, <2>2, CutNat
<1>4. ASSUME NEW tp \in TopicPartition
      PROVE  /\ Lists(m[tp], Merged(next, tp))
             /\ \A o \in Merged(next, tp) : o \in Nat /\ <<tp, o>> \in Data /\ o < next[tp]
             /\ position[tp] \in Nat /\ next[tp] \in Nat
             /\ aligner.positions[tp] \in Nat /\ aligner.positions[tp] <= position[tp]
             /\ position[tp] <= next[tp]
  <2>1. aligner.positions[tp] \in Nat
    BY <1>2 DEF AlignerType
  <2>2. aligner.positions[tp] <= position[tp]
    BY DEF Keeps
  <2> QED BY <2>1, <2>2, MergeFacts
<1> HIDE DEF m
<1>5. ASSUME NEW tp \in TopicPartition
      PROVE  /\ Lists(SubSeq(m[tp], 1, Split(aligner, tp, m[tp])), Runs(next, tp))
             /\ Lists(hs[tp], Past(aligner, tp, Merged(next, tp)))
  BY <1>3, <1>4, SplitAtCut DEF Runs
<1>6. ASSUME NEW tp \in TopicPartition
      PROVE  /\ ps[tp] \in Nat /\ aligner.positions[tp] <= ps[tp] /\ ps[tp] <= next[tp]
  <2>1. /\ aligner.positions[tp] \in Nat /\ next[tp] \in Nat
        /\ aligner.positions[tp] <= next[tp]
    BY <1>4
  <2>2. CASE tp \in some
    <3>1. m[tp][Len(m[tp])] \in Merged(next, tp)
      BY <1>4, <2>2, ListsFacts
    <3>2. PICK o \in Nat : o = m[tp][Len(m[tp])] /\ o < next[tp]
      BY <3>1, <1>4
    <3>3. ps[tp] = Max({aligner.positions[tp], o + 1})
      BY <2>2, <3>2
    <3>4. Max({aligner.positions[tp], o + 1})
            = IF aligner.positions[tp] >= o + 1 THEN aligner.positions[tp] ELSE o + 1
      BY <2>1, MaxFacts
    <3> HIDE DEF ps
    <3> QED BY <2>1, <3>2, <3>3, <3>4
  <2>3. CASE tp \notin some
    BY <2>1, <2>3
  <2> QED BY <2>2, <2>3
<1>7. ps \in [TopicPartition -> Nat]
  BY <1>6
<1>8. hs \in [TopicPartition -> Seq(Nat)]
  <2>1. \A tp \in TopicPartition : hs[tp] \in Seq(Nat)
    BY <1>5 DEF Lists
  <2> QED BY <2>1
<1>9. rs \in SUBSET TopicPartition
      /\ \A tp \in rs : tp \in aligner.reached \/ ps[tp] >= Cut[aligner.pending][tp]
  <2>1. aligner.reached \in SUBSET TopicPartition /\ aligner.aligned \in SUBSET TopicPartition
    BY <1>2 DEF AlignerType
  <2> QED BY <2>1
<1> HIDE DEF some, ps, hs, rs, b
<1>10. /\ b \in AlignerType /\ b.pending = aligner.pending /\ b.lastEpoch = aligner.lastEpoch
       /\ b.aligned = aligner.aligned /\ b.positions = ps /\ b.held = hs /\ b.reached = rs
  BY <1>1, <1>2, <1>7, <1>8, <1>9 DEF AlignerType
<1>11. Waits(b)
  <2>1. CASE aligner.pending = NoEpoch
    BY <2>1, <1>10 DEF Waits
  <2>2. CASE aligner.pending # NoEpoch
    <3>1. ASSUME NEW tp \in rs PROVE ps[tp] >= Cut[aligner.pending][tp]
      <4>1. tp \in TopicPartition /\ (tp \in aligner.reached \/ ps[tp] >= Cut[aligner.pending][tp])
        BY <1>9
      <4>2. tp \in aligner.reached => aligner.positions[tp] >= Cut[aligner.pending][tp]
        BY <2>2 DEF Waits
      <4>3. tp \in aligner.aligned
        BY <4>1, <2>2 DEF Waits
      <4>4. Cut[aligner.pending][tp] \in Nat
        BY <4>1, <4>3, <1>3
      <4> QED BY <4>1, <4>2, <4>4, <1>4, <1>6
    <3> QED BY <2>2, <3>1, <1>10 DEF Waits
  <2> QED BY <2>1, <2>2
<1>12. ASSUME NEW tp \in TopicPartition
       PROVE  /\ HeldBack(b, tp) = Past(aligner, tp, Merged(next, tp))
              /\ Lists(b.held[tp], HeldBack(b, tp))
  <2>1. Range(hs[tp]) = Past(aligner, tp, Merged(next, tp))
    BY <1>5, ListsFacts
  <2> QED BY <2>1, <1>5, <1>10 DEF HeldBack
<1>13. Keeps(b, next)
  <2>1. ASSUME NEW tp \in TopicPartition, NEW o \in HeldBack(b, tp)
        PROVE  <<tp, o>> \in Data /\ o < next[tp]
    <3>1. o \in Merged(next, tp)
      BY <1>12 DEF Past
    <3> QED BY <3>1, <1>4
  <2>2. \A tp \in TopicPartition : b.positions[tp] <= next[tp]
    BY <1>6, <1>10
  <2> QED BY <2>1, <2>2, <1>12 DEF Keeps
<1>14. HoldsPast(b)
  <2> SUFFICES ASSUME NEW tp \in TopicPartition, NEW o \in HeldBack(b, tp)
               PROVE  b.pending # NoEpoch /\ o >= Cut[b.pending][tp]
    BY DEF HoldsPast
  <2>1. tp \in aligner.aligned /\ o >= Cut[aligner.pending][tp]
    BY <1>12 DEF Past
  <2>2. aligner.pending # NoEpoch
    BY <2>1 DEF Waits
  <2> QED BY <2>1, <2>2, <1>10
<1>15. \A tp \in TopicPartition : Input(next)[tp] = SubSeq(m[tp], 1, Split(aligner, tp, m[tp]))
  BY DEF Input, Accepted, m
<1> QED BY <1>5, <1>10, <1>11, <1>12, <1>13, <1>14, <1>15 DEF b

-----------------------------------------------------------------------------
(***************************************************************************)
(* What the steps have in common.                                          *)
(***************************************************************************)
\* Every logical partition is that of a topic partition.
LEMMA AllLogicals ==
  LogicalsOf(TopicPartition) = Logical /\ LogicalsOf({}) = {}
BY RunnerAssumption DEF LogicalsOf, Logical, Range

\* What ran depends on the held records and the positions.
LEMMA SameRan ==
  ASSUME NEW a, NEW b, NEW p, a.held = b.held
  PROVE  Ran(a, p) = Ran(b, p)
BY DEF Ran, HeldBack

\* An aligner that holds nothing back.
LEMMA KeepsNothing ==
  ASSUME NEW a, NEW p, \A tp \in TopicPartition : a.held[tp] = <<>>,
         \A tp \in TopicPartition : a.positions[tp] <= p[tp]
  PROVE  Keeps(a, p) /\ \A tp \in TopicPartition : HeldBack(a, tp) = {}
<1>1. Range(<<>>) = {} /\ Lists(<<>>, {})
  <2>1. Range(<<>>) = {}
    BY DEF Range
  <2>2. Lists(<<>>, {})
    BY DEF Lists
  <2> QED BY <2>1, <2>2
<1>2. \A tp \in TopicPartition : HeldBack(a, tp) = {}
  BY <1>1 DEF HeldBack
<1> QED BY <1>1, <1>2 DEF Keeps

\* Between rounds there is nothing to say of the round.
LEMMA NoRoundCut ==
  ASSUME round' = NoRound, pc' \in {"idle", "poll"}, pc' # "idle" => Running'
  PROVE  CutRound'
BY NoRoundFacts DEF CutRound

\* A step that leaves the commits, and the snapshots of the epochs, as they
\* are keeps what is durable.
LEMMA DurableKept ==
  ASSUME CutDurable, UNCHANGED <<committed, finished, setAside>>,
         handled \subseteq handled',
         \A l \in Logical, e \in Epoch : store'[l][e] = store[l][e]
  PROVE  CutDurable'
<1>1. \A tp \in TopicPartition : Partition[tp] \in Logical
  BY RunnerAssumption DEF Logical, Range
<1>2. SnapshotIsTheCut'
  <2> SUFFICES ASSUME NEW e \in Epoch, NEW tp \in TopicPartition,
                      <<e, Partition[tp]>> \in finished, tp \in DOMAIN Cut[e]
               PROVE  HoldsPrefix(store[Partition[tp]][e], tp, Cut[e][tp])'
    BY DEF SnapshotIsTheCut
  <2>1. HoldsPrefix(store[Partition[tp]][e], tp, Cut[e][tp])
    BY DEF CutDurable, SnapshotIsTheCut
  <2>2. store'[Partition[tp]][e] = store[Partition[tp]][e]
    BY <1>1
  <2> QED BY <2>1, <2>2 DEF HoldsPrefix
<1>3. CutHandled'
  BY DEF CutDurable, CutHandled
<1>4. NothingSkipped'
  BY DEF CutDurable, NothingSkipped
<1>5. SavedAtTheCut'
  <2> SUFFICES ASSUME NEW e \in Epoch, NEW tp \in TopicPartition,
                      store'[Partition[tp]][e] # Nothing
               PROVE  HoldsPrefix(store[Partition[tp]][e], tp, Cut[e][tp])'
    BY DEF SavedAtTheCut
  <2>1. store'[Partition[tp]][e] = store[Partition[tp]][e]
    BY <1>1
  <2>2. HoldsPrefix(store[Partition[tp]][e], tp, Cut[e][tp])
    BY <2>1 DEF CutDurable, SavedAtTheCut
  <2> QED BY <2>1, <2>2 DEF HoldsPrefix
<1> QED BY <1>2, <1>3, <1>4, <1>5 DEF CutDurable

\* A step that returns an error to the application has only to keep types and
\* what is durable.
LEMMA FailedKeeps ==
  ASSUME CutType', CutDurable', ReturnError
  PROVE  CutInv'
<1>1. CutRound'
  BY NoRoundCut DEF ReturnError
<1>2. ~Running'
  BY DEF Running, ReturnError
<1> QED BY <1>1, <1>2 DEF CutInv

\* An application that calls the runner has had no error.
LEMMA CallsUnfailed ==
  ASSUME BarrierGroup, CutInv, Calls
  PROVE  ~failed /\ pc = "idle" /\ round = NoRound
<1>1. mode \in Modes /\ failed \in BOOLEAN
  BY DEF CutInv, CutType
<1>2. OnError # "continue"
  BY <1>1 DEF BarrierGroup, OnError
<1> QED BY <1>1, <1>2 DEF Calls, CutInv, CutRound

-----------------------------------------------------------------------------
(***************************************************************************)
(* Every step keeps the invariant.                                         *)
(***************************************************************************)
LEMMA CutStart ==
  ASSUME BarrierGroup, Init
  PROVE  CutInv
<1>1. CutType
  <2>1. NewBarrierAligner \in AlignerType
    BY DEF NewBarrierAligner, AlignerType, NothingHeld
  <2>2. Nothing \in Snapshot
    BY DEF Snapshot
  <2>3. manifest = [e \in Epoch |-> "complete"]
    BY DEF Init, BarrierGroup
  <2>4. /\ store \in [Logical -> [Epoch \union {NoEpoch} -> Snapshot]]
        /\ processors \in [Logical -> Snapshot]
    BY <2>2 DEF Init
  <2> QED BY <2>1, <2>3, <2>4 DEF CutType, Init
<1>2. CutRound
  BY NoRoundFacts DEF CutRound, Init
<1>3. \A tp \in TopicPartition : committed[tp] = 0 /\ position[tp] = 0
  BY DEF Init
<1>4. \A r \in Record : r[1] \in TopicPartition /\ ~(r[2] < 0)
  <2> SUFFICES ASSUME NEW r \in Record PROVE r[1] \in TopicPartition /\ ~(r[2] < 0)
    OBVIOUS
  <2>1. r[1] \in TopicPartition /\ r[2] \in Nat
    BY RecordParts
  <2> QED BY <2>1
<1>5. Data \subseteq Record
  BY DEF Data
<1>6. CutDurable
  <2>1. SnapshotIsTheCut /\ CutHandled
    BY DEF Init, SnapshotIsTheCut, CutHandled
  <2>2. NothingSkipped
    BY <1>3, <1>4, <1>5 DEF NothingSkipped
  <2>3. SavedAtTheCut
    <3>1. \A e \in Epoch, tp \in TopicPartition : store[Partition[tp]][e] = Nothing
      BY RunnerAssumption DEF Init, Logical, Range
    <3> QED BY <3>1 DEF SavedAtTheCut
  <2> QED BY <2>1, <2>2, <2>3 DEF CutDurable
<1>7. CutState
  <2>1. aligner = NewBarrierAligner /\ pc = "idle"
    BY DEF Init
  <2>2. /\ aligner.pending = NoEpoch /\ aligner.aligned = {}
        /\ \A tp \in TopicPartition : aligner.held[tp] = <<>> /\ aligner.positions[tp] = 0
    BY <2>1 DEF NewBarrierAligner, NothingHeld
  <2>3. Waits(aligner)
    BY <2>2 DEF Waits
  <2>4. \A tp \in TopicPartition : aligner.positions[tp] <= position[tp]
    BY <2>2, <1>3
  <2>5. Keeps(aligner, position)
    BY <2>2, <2>4, KeepsNothing
  <2>6. Ran(aligner, position) = {}
    BY <1>3, <1>4, <1>5 DEF Ran
  <2>7. \A r \in Record : Count(processors[Partition[r[1]]], r) = 0
    <3> SUFFICES ASSUME NEW r \in Record PROVE Count(processors[Partition[r[1]]], r) = 0
      OBVIOUS
    <3>1. processors[Partition[r[1]]] = Nothing
      BY RecordParts DEF Init
    <3> QED BY <3>1, CountEmpty
  <2>8. \A l \in Logical : store[l][NoEpoch] = Nothing
    BY DEF Init
  <2> QED BY <2>1, <2>3, <2>5, <2>6, <2>7, <2>8, <1>3 DEF CutState, Holds
<1> QED BY <1>1, <1>2, <1>6, <1>7 DEF CutInv

LEMMA CutStutter ==
  ASSUME CutInv, UNCHANGED vars
  PROVE  CutInv'
<1>1. CutType'
  BY DEF CutInv, CutType, vars, broker, consumer, bounds
<1>2. CutRound'
  BY DEF CutInv, CutRound, vars, broker, consumer, bounds, Running, Transactional
<1>3. CutDurable'
  BY DurableKept DEF CutInv, vars, broker, consumer
<1>4. Running' => CutState'
  BY DEF CutInv, CutState, vars, broker, consumer, Running
<1> QED BY <1>1, <1>2, <1>3, <1>4 DEF CutInv

LEMMA CutStartRound ==
  ASSUME BarrierGroup, CutInv, StartRound
  PROVE  CutInv'
<1>1. ~failed /\ pc = "idle" /\ round = NoRound
  BY CallsUnfailed DEF StartRound
<1>2. ~stale
  BY DEF StartRound, BarrierGroup
<1>3. /\ aligner' = StartAligner /\ pc' = "poll" /\ failed' = FALSE
      /\ UNCHANGED <<committed, handled, setAside, mode, manifest, store, owned,
                     position, processors, round, finished, stale, rebalances>>
  BY DEF StartRound, broker, consumer, bounds
<1>4. Running /\ Running'
  BY <1>1, <1>2, <1>3 DEF Running
<1>5. CutType /\ CutState /\ CutDurable
  BY <1>4 DEF CutInv
<1>6. /\ StartAligner \in AlignerType
      /\ StartAligner.held = aligner.held /\ StartAligner.lastEpoch = aligner.lastEpoch
      /\ Waits(StartAligner) /\ NoCutLeft(StartAligner) /\ Keeps(StartAligner, position)
  BY <1>5, StartFacts DEF CutState
<1>7. CutType'
  BY <1>3, <1>5, <1>6 DEF CutType
<1>8. CutRound'
  BY <1>1, <1>3, <1>4, NoRoundCut
<1>9. CutDurable'
  BY <1>3, <1>5, DurableKept
<1>10. CutState'
  <2>1. Ran(aligner', position') = Ran(aligner, position)
    BY <1>3, <1>6, SameRan
  <2>2. aligner'.lastEpoch = aligner.lastEpoch
    BY <1>3, <1>6
  <2>3. Waits(aligner)' /\ NoCutLeft(aligner)' /\ Keeps(aligner, position)'
    BY <1>3, <1>6
  <2> QED BY <2>1, <2>2, <2>3, <1>3, <1>5 DEF CutState
<1> QED BY <1>7, <1>8, <1>9, <1>10 DEF CutInv

\* The cut reader, the position reader or BeginTransaction fails.
LEMMA CutStartFails ==
  ASSUME BarrierGroup, CutInv, StartRoundFails
  PROVE  CutInv'
<1>1. CutType /\ CutDurable
  BY DEF CutInv
<1>2. ReturnError
      /\ UNCHANGED <<committed, handled, setAside, mode, manifest, store, owned,
                     position, processors, finished, stale, rebalances>>
  BY DEF StartRoundFails, broker, consumer, bounds
<1>3. aligner' \in AlignerType
  <2>1. [aligner EXCEPT !.assigned = owned] \in AlignerType
    <3>1. aligner \in AlignerType /\ owned \in {{}, TopicPartition}
      BY <1>1 DEF CutType
    <3> QED BY <3>1 DEF AlignerType
  <2>2. Refreshed \in AlignerType /\ StartAligner \in AlignerType
    BY <1>1, StartFacts
  <2> QED BY <2>1, <2>2 DEF StartRoundFails
<1>4. CutType'
  BY <1>1, <1>2, <1>3 DEF CutType, ReturnError
<1>5. CutDurable'
  BY <1>1, <1>2, DurableKept
<1> QED BY <1>2, <1>4, <1>5, FailedKeeps

LEMMA CutPollFails ==
  ASSUME CutInv, PollFails
  PROVE  CutInv'
<1>1. CutType /\ CutDurable
  BY DEF CutInv
<1>2. ReturnError
      /\ UNCHANGED <<committed, handled, setAside, mode, manifest, store, owned,
                     position, processors, aligner, finished, stale, rebalances>>
  BY DEF PollFails, broker, consumer, bounds
<1>3. CutType'
  BY <1>1, <1>2 DEF CutType, ReturnError
<1>4. CutDurable'
  BY <1>1, <1>2, DurableKept
<1> QED BY <1>2, <1>3, <1>4, FailedKeeps

\* A poll moves the consumer on, and finds the runner in order.
LEMMA FetchFacts ==
  ASSUME CutInv, NEW next \in Offsets, FetchUpTo(next)
  PROVE  /\ pc = "poll" /\ round = NoRound /\ Running /\ CutState
         /\ position' = next /\ next \in [TopicPartition -> Nat]
         /\ \A tp \in TopicPartition : position[tp] <= next[tp]
         /\ owned = {} => next = position
<1>1. pc = "poll" /\ position' = next
  BY DEF FetchUpTo
<1>2. round = NoRound /\ Running /\ CutState
  BY <1>1 DEF CutInv, CutRound
<1>3. next \in [TopicPartition -> Nat]
  <2>1. End \in Nat
    BY RunnerAssumption
  <2> QED BY <2>1 DEF Offsets
<1>4. position \in [TopicPartition -> Nat]
  BY DEF CutInv, CutType
<1>5. \A tp \in TopicPartition : position[tp] <= next[tp]
  <2> SUFFICES ASSUME NEW tp \in TopicPartition PROVE position[tp] <= next[tp]
    OBVIOUS
  <2>1. position[tp] \in Nat /\ next[tp] \in Nat
    BY <1>3, <1>4
  <2>2. next[tp] >= position[tp] \/ next[tp] = position[tp]
    BY DEF FetchUpTo
  <2> QED BY <2>1, <2>2
<1>6. owned = {} => next = position
  <2>1. owned = {} => \A tp \in TopicPartition : next[tp] = position[tp]
    BY DEF FetchUpTo
  <2> QED BY <2>1, <1>3, <1>4
<1> QED BY <1>1, <1>2, <1>3, <1>5, <1>6

LEMMA CutProcessFails ==
  ASSUME BarrierGroup, CutInv, NEW next \in Offsets, ProcessFails(next)
  PROVE  CutInv'
<1>1. CutType /\ CutDurable
  BY DEF CutInv
<1>2. /\ ReturnError /\ FetchUpTo(next) /\ aligner' = AcceptedAligner(next)
      /\ UNCHANGED <<committed, handled, setAside, mode, manifest, store, owned,
                     processors, finished, stale, rebalances>>
  BY DEF ProcessFails, broker, bounds
<1>3. /\ CutState /\ position' = next /\ next \in [TopicPartition -> Nat]
      /\ \A tp \in TopicPartition : position[tp] <= next[tp]
  BY <1>2, FetchFacts
<1>4. AcceptedAligner(next) \in AlignerType
  BY <1>1, <1>3, PollSplits DEF CutState
<1>5. CutType'
  BY <1>1, <1>2, <1>3, <1>4 DEF CutType, ReturnError
<1>6. CutDurable'
  BY <1>1, <1>2, DurableKept
<1> QED BY <1>2, <1>5, <1>6, FailedKeeps

\* Rolling back leaves a state of its type.
LEMMA RollbackType ==
  ASSUME CutInv, Rollback
  PROVE  processors' \in [Logical -> Snapshot]
<1>1. /\ processors \in [Logical -> Snapshot]
      /\ \A l \in DOMAIN round.prior : round.prior[l] \in Snapshot
  BY DEF CutInv, CutType, CutRound
<1> QED BY <1>1 DEF Rollback

LEMMA CutSendFails ==
  ASSUME CutInv, NEW acknowledged, SendFails(acknowledged)
  PROVE  CutInv'
<1>1. CutType /\ CutDurable
  BY DEF CutInv
<1>2. /\ ReturnError /\ Rollback
      /\ UNCHANGED <<committed, handled, setAside, mode, manifest, store, owned,
                     position, aligner, finished, stale, rebalances>>
  BY DEF SendFails, consumer, bounds
<1>3. CutType'
  BY <1>1, <1>2, RollbackType DEF CutType, ReturnError
<1>4. CutDurable'
  BY <1>1, <1>2, DurableKept
<1> QED BY <1>2, <1>3, <1>4, FailedKeeps

\* A new process starts with nothing, and with a restore ahead of it.
LEMMA CutEnds ==
  ASSUME BarrierGroup, CutInv, Close \/ Crash
  PROVE  CutInv'
<1>1. CutType /\ CutDurable
  BY DEF CutInv
<1>2. /\ pc' = "idle" /\ failed' = FALSE /\ round' = NoRound /\ owned' = {}
      /\ aligner' = NewBarrierAligner /\ stale' = TRUE
      /\ position' = [tp \in TopicPartition |-> 0]
      /\ processors' = [l \in Logical |-> Nothing]
      /\ UNCHANGED <<committed, handled, setAside, mode, manifest, finished, rebalances>>
  BY DEF Close, Crash, Fresh, broker, BarrierGroup
<1>3. /\ store' \in [Logical -> [Epoch \union {NoEpoch} -> Snapshot]]
      /\ \A l \in Logical, e \in Epoch : store'[l][e] = store[l][e]
  <2>1. /\ store \in [Logical -> [Epoch \union {NoEpoch} -> Snapshot]]
        /\ processors \in [Logical -> Snapshot]
    BY <1>1 DEF CutType
  <2>2. CASE Crash
    BY <2>1, <2>2 DEF Crash
  <2>3. CASE Close
    <3>1. store' = [l \in Logical |->
            IF l \in LogicalsOf(owned)
            THEN [store[l] EXCEPT ![NoEpoch] = processors[l]] ELSE store[l]]
      BY <2>3 DEF Close
    <3>2. \A e \in Epoch : e # NoEpoch
      BY CutNat
    <3>3. ASSUME NEW l \in Logical
          PROVE  /\ store'[l] \in [Epoch \union {NoEpoch} -> Snapshot]
                 /\ \A e \in Epoch : store'[l][e] = store[l][e]
      <4>1. store[l] \in [Epoch \union {NoEpoch} -> Snapshot] /\ processors[l] \in Snapshot
        BY <2>1
      <4>2. store'[l] = IF l \in LogicalsOf(owned)
                        THEN [store[l] EXCEPT ![NoEpoch] = processors[l]] ELSE store[l]
        BY <3>1
      <4> QED BY <4>1, <4>2, <3>2
    <3> QED BY <3>1, <3>3
  <2> QED BY <2>2, <2>3
<1>4. CutType'
  <2>1. NewBarrierAligner \in AlignerType
    BY DEF NewBarrierAligner, AlignerType, NothingHeld
  <2>2. position' \in [TopicPartition -> Nat] /\ processors' \in [Logical -> Snapshot]
    BY <1>2 DEF Snapshot
  <2> QED BY <1>1, <1>2, <1>3, <2>1, <2>2 DEF CutType
<1>5. CutRound'
  BY <1>2, NoRoundCut
<1>6. CutDurable'
  BY <1>1, <1>2, <1>3, DurableKept
<1>7. ~Running'
  BY <1>2 DEF Running
<1> QED BY <1>4, <1>5, <1>6, <1>7 DEF CutInv

\* The first assignment starts where nothing ran.  After a restart it only
\* prepares a restore.
LEMMA CutAssigned ==
  ASSUME BarrierGroup, CutInv, NEW S \in Batches, S \intersect owned = {},
         NEW unloaded, OnPartitionsAssigned(S, unloaded)
  PROVE  CutInv'
<1>1. CutType /\ CutDurable /\ CutRound
  BY DEF CutInv
<1>2. S = TopicPartition /\ owned = {}
  <2>1. S = TopicPartition
    BY DEF BarrierGroup
  <2>2. owned \in {{}, TopicPartition}
    BY <1>1 DEF CutType
  <2> QED BY <2>1, <2>2
<1> DEFINE restored == LogicalsOf(S) \ LogicalsOf(owned)
<1>3. /\ pc \in {"idle", "poll"} /\ owned' = TopicPartition
      /\ position' = [tp \in TopicPartition |->
                        IF tp \in TopicPartition THEN committed[tp] ELSE position[tp]]
      /\ processors' = [l \in Logical |->
           IF l \in restored \ unloaded
           THEN RestorePartition(processors[l], store[l][NoEpoch]) ELSE processors[l]]
      /\ UNCHANGED <<committed, handled, setAside, mode, manifest, store, pc, failed,
                     aligner, round, finished, stale, rebalances>>
  BY <1>2 DEF OnPartitionsAssigned, CallbackPoint, broker, bounds, Load
<1> HIDE DEF restored
<1>4. round = NoRound
  BY <1>1, <1>3 DEF CutRound
<1>5. committed \in [TopicPartition -> Nat] /\ position' = committed
  BY <1>1, <1>3 DEF CutType
<1>6. /\ store \in [Logical -> [Epoch \union {NoEpoch} -> Snapshot]]
      /\ processors \in [Logical -> Snapshot]
  BY <1>1 DEF CutType
<1>7. ASSUME NEW l \in Logical
      PROVE  /\ processors'[l] \in Snapshot
             /\ store[l][NoEpoch] = Nothing =>
                  \A r \in Record : Count(processors'[l], r) = Count(processors[l], r)
  <2>1. processors[l] \in Snapshot /\ store[l][NoEpoch] \in Snapshot
    BY <1>6
  <2>2. processors'[l] = processors[l]
        \/ processors'[l] = RestorePartition(processors[l], store[l][NoEpoch])
    BY <1>3
  <2>3. Zero \in Snapshot
    BY DEF Zero, Snapshot
  <2>4. RestorePartition(processors[l], store[l][NoEpoch]) \in Snapshot
    BY <2>1, <2>3 DEF RestorePartition
  <2>5. ASSUME store[l][NoEpoch] = Nothing, NEW r \in Record
        PROVE  Count(RestorePartition(processors[l], store[l][NoEpoch]), r)
               = Count(processors[l], r)
    BY <2>5, CountEmpty DEF RestorePartition
  <2> QED BY <2>1, <2>2, <2>4, <2>5
<1>8. processors' \in [Logical -> Snapshot]
  BY <1>3, <1>7
<1>9. CutType'
  BY <1>1, <1>3, <1>5, <1>8 DEF CutType
<1>10. CutRound'
  <2>1. pc' # "idle" => Running'
    BY <1>1, <1>3 DEF CutRound, Running
  <2> QED BY <2>1, <1>3, <1>4, NoRoundCut
<1>11. CutDurable'
  BY <1>1, <1>3, DurableKept
<1>12. ASSUME Running' PROVE CutState'
  <2>1. CutState
    BY <1>3, <1>12 DEF CutInv, Running
  <2>2. \A tp \in TopicPartition : position[tp] = 0 /\ committed[tp] = 0
    BY <1>2, <2>1 DEF CutState
  <2>3. position' = position
    <3>1. position \in [TopicPartition -> Nat]
      BY <1>1 DEF CutType
    <3> QED BY <3>1, <2>2, <1>5
  <2>4. \A l \in Logical : store[l][NoEpoch] = Nothing
    BY <1>2, <2>1 DEF CutState
  <2>5. \A r \in Record : Count(processors'[Partition[r[1]]], r)
                          = Count(processors[Partition[r[1]]], r)
    BY <1>7, <2>4, RecordParts
  <2>6. owned' = {} => /\ \A tp \in TopicPartition : position'[tp] = 0 /\ committed'[tp] = 0
                       /\ \A l \in Logical : store'[l][NoEpoch] = Nothing
    BY <1>3, <2>2, <2>3, <2>4
  <2> QED BY <1>3, <2>1, <2>3, <2>5, <2>6 DEF CutState
<1> QED BY <1>9, <1>10, <1>11, <1>12 DEF CutInv

\* What a restore loads has the type of a state, and the counts of the
\* snapshot.
LEMMA RestoredFacts ==
  ASSUME CutType, NEW e \in Epoch, NEW logicals
  PROVE  /\ RestoredProcessors(e, logicals) \in [Logical -> Snapshot]
         /\ \A l \in Logical, r \in Record : l \in logicals =>
              Count(RestoredProcessors(e, logicals)[l], r) = Count(store[l][e], r)
<1>1. /\ store \in [Logical -> [Epoch \union {NoEpoch} -> Snapshot]]
      /\ processors \in [Logical -> Snapshot]
  BY DEF CutType
<1>2. ASSUME NEW l \in Logical
      PROVE  /\ store[l][e] \in Snapshot /\ processors[l] \in Snapshot
             /\ RestorePartition(Nothing, store[l][e]) \in Snapshot
             /\ \A r \in Record :
                  Count(RestorePartition(Nothing, store[l][e]), r) = Count(store[l][e], r)
  <2>1. store[l][e] \in Snapshot /\ processors[l] \in Snapshot
    BY <1>1
  <2> QED BY <2>1, RestoreCounts
<1>3. RestoredProcessors(e, logicals)
      = [l \in Logical |-> IF l \in logicals THEN RestorePartition(Nothing, store[l][e])
                           ELSE processors[l]]
  BY DEF RestoredProcessors, Load
<1> QED BY <1>2, <1>3

LEMMA CutRestoreFails ==
  ASSUME BarrierGroup, CutInv, NEW e \in Epoch, NEW logicals, NEW released, NEW sought,
         RestoreFails(e, logicals, released, sought)
  PROVE  CutInv'
<1>1. CutType /\ CutDurable
  BY DEF CutInv
<1>2. /\ ReturnError /\ stale' = TRUE
      /\ processors' = [l \in Logical |-> IF l \in released THEN Nothing
                                          ELSE RestoredProcessors(e, logicals)[l]]
      /\ position' = [tp \in TopicPartition |->
                        IF tp \in sought THEN Cut[e][tp] ELSE position[tp]]
      /\ UNCHANGED <<committed, handled, setAside, mode, manifest, store, owned,
                     aligner, finished, rebalances>>
  BY DEF RestoreFails, broker, bounds
<1>3. CutType'
  <2>1. processors' \in [Logical -> Snapshot]
    BY <1>1, <1>2, RestoredFacts DEF Snapshot
  <2>2. position' \in [TopicPartition -> Nat]
    BY <1>1, <1>2, CutNat DEF CutType
  <2> QED BY <1>1, <1>2, <2>1, <2>2 DEF CutType, ReturnError
<1>4. CutDurable'
  BY <1>1, <1>2, DurableKept
<1> QED BY <1>2, <1>3, <1>4, FailedKeeps

\* What a restore does: everything continues from the cut, and the runner is
\* stale unless the listener was told of the barrier of every partition.
LEMMA RestoreEffect ==
  ASSUME BarrierGroup, CutInv, NEW e \in Epoch, RestoreToEpoch(e)
  PROVE  /\ owned = TopicPartition /\ Targets(e) = TopicPartition
         /\ processors' = RestoredProcessors(e, Logical)
         /\ position' = [tp \in TopicPartition |-> Cut[e][tp]]
         /\ aligner' = Restored(aligner, e, TopicPartition)
         /\ stale' \in BOOLEAN
         /\ ~stale' => \A l \in Logical : <<e, l>> \in finished
         /\ ~failed /\ pc = "idle" /\ round = NoRound
         /\ UNCHANGED <<committed, handled, setAside, mode, manifest, store, owned, pc,
                        failed, round, finished, rebalances>>
<1>1. owned = TopicPartition
  <2>1. owned \in {{}, TopicPartition} /\ owned # {}
    BY DEF CutInv, CutType, RestoreToEpoch
  <2> QED BY <2>1
<1>2. Targets(e) = TopicPartition
  BY <1>1, CutNat DEF Targets
<1>3. LogicalsOf(Targets(e)) = Logical
  BY <1>2, AllLogicals
<1>4. /\ stale' \in BOOLEAN
      /\ ~stale' => \A l \in Logical : <<e, l>> \in finished
  <2>1. stale' = (Targets(e) # owned \/ ~Snapshotted(e))
    BY DEF RestoreToEpoch
  <2>2. Snapshotted(e) => \A l \in Logical : <<e, l>> \in finished
    BY <1>3 DEF Snapshotted
  <2> QED BY <2>1, <2>2
<1>5. ~failed /\ pc = "idle" /\ round = NoRound
  BY CallsUnfailed DEF RestoreToEpoch
<1>6. /\ processors' = RestoredProcessors(e, LogicalsOf(Targets(e)))
      /\ position' = [tp \in TopicPartition |->
                        IF tp \in Targets(e) THEN Cut[e][tp] ELSE position[tp]]
      /\ aligner' = Restored(aligner, e, Targets(e))
      /\ UNCHANGED <<committed, handled, setAside, mode, manifest, store, owned, pc,
                     failed, round, finished, rebalances>>
  BY DEF RestoreToEpoch, broker
<1>7. position' = [tp \in TopicPartition |-> Cut[e][tp]]
  BY <1>2, <1>6
<1> QED BY <1>1, <1>2, <1>3, <1>4, <1>5, <1>6, <1>7

\* A partition restored from a reported cut holds the records below it.
LEMMA RestoreCut ==
  ASSUME BarrierGroup, CutInv, NEW e \in Epoch, RestoreToEpoch(e), ~stale', NEW r \in Record
  PROVE  Count(processors'[Partition[r[1]]], r)
         = IF r \in Data /\ r[2] < Cut[e][r[1]] THEN 1 ELSE 0
<1>1. r[1] \in TopicPartition /\ Partition[r[1]] \in Logical
  BY RecordParts
<1>2. /\ <<e, Partition[r[1]]>> \in finished
      /\ processors' = RestoredProcessors(e, Logical)
  BY <1>1, RestoreEffect
<1>3. Count(processors'[Partition[r[1]]], r) = Count(store[Partition[r[1]]][e], r)
  BY <1>1, <1>2, RestoredFacts DEF CutInv
<1>4. HoldsPrefix(store[Partition[r[1]]][e], r[1], Cut[e][r[1]])
  BY <1>1, <1>2, CutNat DEF CutInv, CutDurable, SnapshotIsTheCut
<1>5. setAside = {}
  BY DEF CutInv, CutType
<1>6. Count(store[Partition[r[1]]][e], r)
      = IF r \in Data \ setAside /\ r[2] < Cut[e][r[1]] THEN 1 ELSE 0
  BY <1>4 DEF HoldsPrefix
<1>7. r \in Data \ setAside <=> r \in Data
  BY <1>5
<1> QED BY <1>3, <1>6, <1>7

LEMMA CutRestored ==
  ASSUME BarrierGroup, CutInv, NEW e \in Epoch, RestoreToEpoch(e)
  PROVE  CutInv'
<1>1. CutType /\ CutDurable
  BY DEF CutInv
<1>2. /\ owned = TopicPartition
      /\ ~stale' => \A l \in Logical : <<e, l>> \in finished
      /\ processors' = RestoredProcessors(e, Logical)
      /\ position' = [tp \in TopicPartition |-> Cut[e][tp]]
      /\ aligner' = Restored(aligner, e, TopicPartition)
      /\ stale' \in BOOLEAN /\ ~failed /\ pc = "idle" /\ round = NoRound
      /\ UNCHANGED <<committed, handled, setAside, mode, manifest, store, owned, pc,
                     failed, round, finished, rebalances>>
  BY RestoreEffect
<1>3. \A tp \in TopicPartition : Cut[e][tp] \in Nat
  BY CutNat
<1>4. /\ aligner' \in AlignerType
      /\ aligner'.lastEpoch = e /\ aligner'.pending = NoEpoch /\ aligner'.aligned = {}
      /\ \A tp \in TopicPartition : aligner'.held[tp] = <<>> /\ aligner'.positions[tp] = Cut[e][tp]
  <2> DEFINE ps == [tp \in TopicPartition |-> IF tp \in TopicPartition THEN Cut[e][tp]
                                             ELSE aligner.positions[tp]]
  <2>1. aligner \in AlignerType
    BY <1>1 DEF CutType
  <2>2. ps \in [TopicPartition -> Nat] /\ \A tp \in TopicPartition : ps[tp] = Cut[e][tp]
    BY <1>3
  <2>3. aligner' = [aligner EXCEPT !.lastEpoch = e, !.pending = NoEpoch, !.aligned = {},
                      !.reached = {}, !.held = NothingHeld, !.positions = ps]
    BY <1>2 DEF Restored
  <2>4. /\ NothingHeld \in [TopicPartition -> Seq(Nat)]
        /\ \A tp \in TopicPartition : NothingHeld[tp] = <<>>
    BY DEF NothingHeld
  <2> HIDE DEF ps
  <2> QED BY <2>1, <2>2, <2>3, <2>4 DEF AlignerType
<1>5. CutType'
  <2>1. position' \in [TopicPartition -> Nat]
    BY <1>2, <1>3
  <2>2. processors' \in [Logical -> Snapshot]
    BY <1>1, <1>2, RestoredFacts
  <2> QED BY <1>1, <1>2, <1>4, <2>1, <2>2 DEF CutType
<1>6. CutRound'
  BY <1>2, NoRoundCut
<1>7. CutDurable'
  BY <1>1, <1>2, DurableKept
<1>8. ASSUME ~stale' PROVE CutState'
  <2>1. Waits(aligner)'
    BY <1>4 DEF Waits
  <2>2. \A tp \in TopicPartition : aligner'.positions[tp] <= position'[tp]
    BY <1>2, <1>3, <1>4
  <2>3. Keeps(aligner', position') /\ \A tp \in TopicPartition : HeldBack(aligner', tp) = {}
    BY <1>4, <2>2, KeepsNothing
  <2>4. \A r \in Data : r \in Record /\ r[1] \in TopicPartition
    BY RecordParts DEF Data
  <2>5. Ran(aligner', position') = {r \in Data : r[2] < Cut[e][r[1]]}
    BY <1>2, <2>3, <2>4 DEF Ran
  <2>6. \A r \in Record : Count(processors'[Partition[r[1]]], r)
                          = Holds(Ran(aligner', position'), r)
    BY <1>8, <2>5, RestoreCut DEF Holds
  <2>7. ASSUME NEW r \in Ran(aligner', position'), NEW f \in Epoch, f > e
        PROVE  r[2] < Cut[f][r[1]]
    <3>1. r \in Record /\ r[1] \in TopicPartition /\ r[2] < Cut[e][r[1]]
      BY <2>4, <2>5
    <3>2. e <= f
      BY <2>7, CutNat
    <3>3. Cut[e][r[1]] <= Cut[f][r[1]]
      BY <3>1, <3>2 DEF BarrierGroup
    <3>4. Cut[e][r[1]] \in Nat /\ Cut[f][r[1]] \in Nat /\ r[2] \in Nat
      BY <3>1, CutNat, RecordParts
    <3> QED BY <3>1, <3>3, <3>4
  <2>8. Ran(aligner', position') \subseteq handled'
    <3> SUFFICES ASSUME NEW r \in Ran(aligner', position') PROVE r \in handled
      BY <1>2
    <3>1. r \in Data /\ r[2] < Cut[e][r[1]] /\ Partition[r[1]] \in Logical
      BY <2>4, <2>5, RecordParts
    <3> QED BY <3>1, <1>1, <1>2, <1>8 DEF CutDurable, CutHandled
  <2>9. owned' = {} => /\ \A tp \in TopicPartition : position'[tp] = 0 /\ committed'[tp] = 0
                       /\ \A l \in Logical : store'[l][NoEpoch] = Nothing
    <3>1. owned' = {} => TopicPartition = {}
      BY <1>2
    <3>2. TopicPartition = {} => Logical = {}
      BY AllLogicals
    <3> QED BY <3>1, <3>2
  <2> QED BY <1>2, <1>4, <2>1, <2>3, <2>6, <2>7, <2>8, <2>9 DEF CutState
<1> QED BY <1>5, <1>6, <1>7, <1>8 DEF CutInv, Running

\* When the barrier fires, what ran is what lies below the cut, and the state
\* is the effect of it.
LEMMA BarrierAtCut ==
  ASSUME BarrierGroup, CutInv, round.barrier
  PROVE  /\ aligner.pending \in Epoch /\ aligner.aligned = TopicPartition
         /\ \A r \in Data : r \in Ran(aligner, position) <=> r[2] < Cut[aligner.pending][r[1]]
         /\ \A tp \in TopicPartition :
              HoldsPrefix(processors[Partition[tp]], tp, Cut[aligner.pending][tp])
<1> DEFINE e == aligner.pending
<1>1. pc \in {"send", "save", "commit"}
  <2>1. pc \notin {"idle", "poll"}
    BY NoRoundFacts DEF CutInv, CutRound
  <2> QED BY <2>1 DEF CutInv, CutType
<1>2. Running /\ CutState
  BY <1>1 DEF CutInv, CutRound
<1>3. aligner \in AlignerType /\ position \in [TopicPartition -> Nat] /\ setAside = {}
  BY DEF CutInv, CutType
<1>4. e # NoEpoch /\ \A tp \in TopicPartition : Cut[e][tp] <= aligner.positions[tp]
  BY DEF CutInv, CutRound
<1>5. e \in Epoch
  BY <1>3, <1>4 DEF AlignerType
<1>6. Waits(aligner) /\ Keeps(aligner, position) /\ HoldsPast(aligner)
  BY <1>1, <1>2 DEF CutState
<1>7. aligner.aligned = TopicPartition /\ e > aligner.lastEpoch
  BY <1>4, <1>6 DEF Waits
<1>8. ASSUME NEW r \in Data
      PROVE  r \in Ran(aligner, position) <=> r[2] < Cut[e][r[1]]
  <2>1. r \in Record /\ r[1] \in TopicPartition /\ r[2] \in Nat
    BY RecordParts DEF Data
  <2>2. r \in Ran(aligner, position) => r[2] < Cut[e][r[1]]
    BY <1>2, <1>5, <1>7 DEF CutState
  <2>3. ASSUME r[2] < Cut[e][r[1]] PROVE r \in Ran(aligner, position)
    <3>1. Cut[e][r[1]] \in Nat /\ aligner.positions[r[1]] \in Nat /\ position[r[1]] \in Nat
      BY <2>1, <1>3, <1>5, CutNat DEF AlignerType
    <3>2. Cut[e][r[1]] <= aligner.positions[r[1]] /\ aligner.positions[r[1]] <= position[r[1]]
      BY <2>1, <1>4, <1>6 DEF Keeps
    <3>3. r[2] < position[r[1]]
      BY <2>1, <2>3, <3>1, <3>2
    <3>4. r[2] \notin HeldBack(aligner, r[1])
      <4>1. r[2] \in HeldBack(aligner, r[1]) => r[2] >= Cut[e][r[1]]
        BY <2>1, <1>6 DEF HoldsPast
      <4> QED BY <4>1, <2>1, <2>3, <3>1
    <3> QED BY <3>3, <3>4 DEF Ran
  <2> QED BY <2>2, <2>3
<1>9. ASSUME NEW tp \in TopicPartition
      PROVE  HoldsPrefix(processors[Partition[tp]], tp, Cut[e][tp])
  <2> SUFFICES ASSUME NEW r \in Record, r[1] = tp
               PROVE  Count(processors[Partition[tp]], r)
                      = IF r \in Data \ setAside /\ r[2] < Cut[e][tp] THEN 1 ELSE 0
    BY DEF HoldsPrefix
  <2>1. Count(processors[Partition[tp]], r) = Holds(Ran(aligner, position), r)
    BY <1>2 DEF CutState
  <2>2. r \in Ran(aligner, position) <=> r \in Data /\ r[2] < Cut[e][tp]
    BY <1>8 DEF Ran
  <2> QED BY <2>1, <2>2, <1>3 DEF Holds
<1> QED BY <1>5, <1>7, <1>8, <1>9

LEMMA CutSend ==
  ASSUME BarrierGroup, CutInv, Send
  PROVE  CutInv'
<1>1. CutType /\ CutDurable /\ CutRound
  BY DEF CutInv
<1>2. /\ pc = "send" /\ pc' = IF round.barrier THEN "save" ELSE "commit"
      /\ Transactional => handled' = handled
      /\ ~Transactional => handled' = handled \union round.records
      /\ UNCHANGED <<committed, setAside, mode, manifest, store, owned, position, failed,
                     processors, aligner, round, finished, stale, rebalances>>
  BY DEF Send, consumer, bounds
<1>3. Running /\ Running' /\ CutState
  BY <1>1, <1>2 DEF CutInv, CutRound, Running
<1>4. handled \subseteq handled' /\ pc' \in {"save", "commit"}
  BY <1>2
<1>5. CutType'
  BY <1>1, <1>2, <1>4 DEF CutType
<1>6. CutDurable'
  BY <1>1, <1>2, <1>4, DurableKept
<1>7. CutRound'
  <2>1. Transactional' = Transactional
    BY <1>2 DEF Transactional
  <2>2. pc' = "save" => round'.barrier
    BY <1>2
  <2>3. ~(pc' = "commit" /\ round'.barrier)
    BY <1>2
  <2>4. ~Transactional => round'.records \subseteq handled'
    BY <1>2
  <2> QED BY <1>1, <1>2, <1>3, <1>4, <2>1, <2>2, <2>3, <2>4 DEF CutRound
<1>8. CutState'
  BY <1>2, <1>3, <1>4 DEF CutState
<1> QED BY <1>3, <1>5, <1>6, <1>7, <1>8 DEF CutInv

\* Saving partitions of the barrier writes the state at the cut.
LEMMA SaveEffect ==
  ASSUME BarrierGroup, CutInv, round.barrier, NEW logicals, SaveEpoch(logicals),
         UNCHANGED <<committed, handled, finished, setAside>>
  PROVE  /\ store' \in [Logical -> [Epoch \union {NoEpoch} -> Snapshot]]
         /\ \A l \in Logical \intersect logicals : store'[l][aligner.pending] = processors[l]
         /\ \A l \in Logical : store'[l][NoEpoch] = store[l][NoEpoch]
         /\ CutDurable'
<1>1. /\ store \in [Logical -> [Epoch \union {NoEpoch} -> Snapshot]]
      /\ processors \in [Logical -> Snapshot]
  BY DEF CutInv, CutType
<1>2. PICK e \in Epoch : e = aligner.pending
  BY BarrierAtCut
<1>3. store' = [l \in Logical |->
        IF l \in logicals THEN [store[l] EXCEPT ![e] = processors[l]] ELSE store[l]]
  BY <1>2 DEF SaveEpoch
<1>4. e # NoEpoch
  BY CutNat
<1>5. ASSUME NEW l \in Logical
      PROVE  /\ store'[l] \in [Epoch \union {NoEpoch} -> Snapshot]
             /\ l \in logicals => store'[l][e] = processors[l]
             /\ \A f \in Epoch \union {NoEpoch} :
                  store'[l][f] = store[l][f] \/ (f = e /\ store'[l][f] = processors[l])
  <2>1. store[l] \in [Epoch \union {NoEpoch} -> Snapshot] /\ processors[l] \in Snapshot
    BY <1>1
  <2>2. store'[l] = IF l \in logicals THEN [store[l] EXCEPT ![e] = processors[l]] ELSE store[l]
    BY <1>3
  <2> QED BY <2>1, <2>2
<1>6. store' \in [Logical -> [Epoch \union {NoEpoch} -> Snapshot]]
  BY <1>3, <1>5
<1>7. SnapshotIsTheCut'
  <2> SUFFICES ASSUME NEW f \in Epoch, NEW tp \in TopicPartition,
                      <<f, Partition[tp]>> \in finished, tp \in DOMAIN Cut[f]
               PROVE  HoldsPrefix(store[Partition[tp]][f], tp, Cut[f][tp])'
    BY DEF SnapshotIsTheCut
  <2>1. Partition[tp] \in Logical
    BY RunnerAssumption DEF Logical, Range
  <2>2. HoldsPrefix(store[Partition[tp]][f], tp, Cut[f][tp])
    BY DEF CutInv, CutDurable, SnapshotIsTheCut
  <2>3. f = e => HoldsPrefix(processors[Partition[tp]], tp, Cut[f][tp])
    BY <1>2, BarrierAtCut
  <2>4. store'[Partition[tp]][f] = store[Partition[tp]][f]
        \/ (f = e /\ store'[Partition[tp]][f] = processors[Partition[tp]])
    BY <2>1, <1>5
  <2>5. HoldsPrefix(store'[Partition[tp]][f], tp, Cut[f][tp])
    BY <2>2, <2>3, <2>4
  <2> QED BY <2>5 DEF HoldsPrefix
<1>8. CutHandled' /\ NothingSkipped'
  BY DEF CutInv, CutDurable, CutHandled, NothingSkipped
<1>9. SavedAtTheCut'
  <2> SUFFICES ASSUME NEW f \in Epoch, NEW tp \in TopicPartition,
                      store'[Partition[tp]][f] # Nothing
               PROVE  HoldsPrefix(store[Partition[tp]][f], tp, Cut[f][tp])'
    BY DEF SavedAtTheCut
  <2>1. Partition[tp] \in Logical
    BY RunnerAssumption DEF Logical, Range
  <2>2. store[Partition[tp]][f] # Nothing
        => HoldsPrefix(store[Partition[tp]][f], tp, Cut[f][tp])
    BY DEF CutInv, CutDurable, SavedAtTheCut
  <2>3. f = e => HoldsPrefix(processors[Partition[tp]], tp, Cut[f][tp])
    BY <1>2, BarrierAtCut
  <2>4. store'[Partition[tp]][f] = store[Partition[tp]][f]
        \/ (f = e /\ store'[Partition[tp]][f] = processors[Partition[tp]])
    BY <2>1, <1>5
  <2>5. HoldsPrefix(store'[Partition[tp]][f], tp, Cut[f][tp])
    BY <2>2, <2>3, <2>4
  <2> QED BY <2>5 DEF HoldsPrefix
<1> QED BY <1>2, <1>4, <1>5, <1>6, <1>7, <1>8, <1>9 DEF CutDurable

LEMMA CutSave ==
  ASSUME BarrierGroup, CutInv, Save
  PROVE  CutInv'
<1>1. CutType /\ CutDurable /\ CutRound
  BY DEF CutInv
<1>2. /\ pc = "save" /\ pc' = "commit" /\ SaveEpoch(LogicalsOf(aligner.aligned))
      /\ UNCHANGED <<committed, handled, setAside, mode, manifest, owned, position, failed,
                     processors, aligner, round, finished, stale, rebalances>>
  BY DEF Save, broker, consumer, bounds
<1>3. Running /\ Running' /\ CutState /\ round.barrier
  BY <1>1, <1>2 DEF CutInv, CutRound, Running
<1>4. LogicalsOf(aligner.aligned) = Logical
  BY <1>3, BarrierAtCut, AllLogicals
<1>5. /\ store' \in [Logical -> [Epoch \union {NoEpoch} -> Snapshot]]
      /\ \A l \in Logical \intersect Logical : store'[l][aligner.pending] = processors[l]
      /\ \A l \in Logical : store'[l][NoEpoch] = store[l][NoEpoch]
      /\ CutDurable'
  BY <1>2, <1>3, <1>4, SaveEffect
<1>6. CutType'
  BY <1>1, <1>2, <1>5 DEF CutType
<1>7. CutRound'
  <2>1. Transactional' = Transactional
    BY <1>2 DEF Transactional
  <2>2. \A l \in Logical : store'[l][aligner'.pending] = processors'[l]
    BY <1>2, <1>5
  <2>3. ~Transactional => round.records \subseteq handled
    BY <1>1, <1>2 DEF CutRound
  <2> QED BY <1>1, <1>2, <1>3, <2>1, <2>2, <2>3 DEF CutRound
<1>8. CutState'
  <2>1. (\A l \in Logical : store[l][NoEpoch] = Nothing)
        => \A l \in Logical : store'[l][NoEpoch] = Nothing
    BY <1>5
  <2> QED BY <1>2, <1>3, <2>1 DEF CutState
<1> QED BY <1>3, <1>5, <1>6, <1>7, <1>8 DEF CutInv

LEMMA CutSaveFails ==
  ASSUME BarrierGroup, CutInv, NEW failing, SaveFails(failing)
  PROVE  CutInv'
<1>1. CutType /\ CutRound
  BY DEF CutInv
<1> DEFINE saved == {l \in LogicalsOf(aligner.aligned) : l < failing}
<1>2. /\ pc = "save" /\ SaveEpoch(saved) /\ Rollback /\ ReturnError
      /\ UNCHANGED <<committed, handled, setAside, mode, manifest, owned, position,
                     aligner, finished, stale, rebalances>>
  BY DEF SaveFails, broker, consumer, bounds
<1>3. round.barrier
  BY <1>1, <1>2 DEF CutRound
<1> HIDE DEF saved
<1>4. store' \in [Logical -> [Epoch \union {NoEpoch} -> Snapshot]] /\ CutDurable'
  BY <1>2, <1>3, SaveEffect
<1>5. CutType'
  BY <1>1, <1>2, <1>4, RollbackType DEF CutType, ReturnError
<1> QED BY <1>2, <1>4, <1>5, FailedKeeps

\* A commit covers records that were handled, or are with it.
LEMMA CutCommitRound ==
  ASSUME BarrierGroup, CutInv, pc = "commit", CommitRound
  PROVE  /\ committed' \in [TopicPartition -> Nat] /\ setAside' = {}
         /\ handled \subseteq handled' /\ Ran(aligner, position) \subseteq handled'
         /\ NothingSkipped'
         /\ owned = {} => \A tp \in TopicPartition : committed'[tp] = 0
         /\ round.barrier => \A tp \in TopicPartition :
                               committed'[tp] = Cut[aligner.pending][tp]
<1>1. CutType /\ CutRound /\ CutDurable /\ Running /\ CutState
  BY DEF CutInv, CutRound
<1>2. /\ committed' = [tp \in TopicPartition |->
           IF tp \in DOMAIN round.offsets THEN round.offsets[tp] ELSE committed[tp]]
      /\ setAside' = (setAside \ round.records) \union round.bad
      /\ Transactional => handled' = handled \union round.records
      /\ ~Transactional => handled' = handled
  BY DEF CommitRound
<1>3. /\ committed \in [TopicPartition -> Nat] /\ position \in [TopicPartition -> Nat]
      /\ setAside = {} /\ owned \in {{}, TopicPartition}
  BY <1>1 DEF CutType
<1>4. /\ DOMAIN round.offsets \in SUBSET TopicPartition /\ round.bad = {}
      /\ \A tp \in DOMAIN round.offsets : round.offsets[tp] \in Nat
                                          /\ round.offsets[tp] <= position[tp]
      /\ \A r \in Data : r[1] \in DOMAIN round.offsets /\ r[2] < round.offsets[r[1]]
                         => r \in Ran(aligner, position)
      /\ ~Transactional => round.records \subseteq handled
      /\ round.barrier => /\ DOMAIN round.offsets = TopicPartition
                          /\ \A tp \in TopicPartition :
                               round.offsets[tp] = Cut[aligner.pending][tp]
  BY <1>1 DEF CutRound
<1>5. Ran(aligner, position) \subseteq handled \union round.records
  BY <1>1 DEF CutState
<1>6. handled \subseteq handled' /\ Ran(aligner, position) \subseteq handled'
  BY <1>2, <1>4, <1>5
<1>7. committed' \in [TopicPartition -> Nat] /\ setAside' = {}
  BY <1>2, <1>3, <1>4
<1>8. NothingSkipped'
  <2> SUFFICES ASSUME NEW r \in Data, r[2] < committed'[r[1]] PROVE r \in handled'
    BY DEF NothingSkipped
  <2>1. r[1] \in TopicPartition
    BY RecordParts DEF Data
  <2>2. CASE r[1] \in DOMAIN round.offsets
    <3>1. r[2] < round.offsets[r[1]]
      BY <2>1, <2>2, <1>2
    <3> QED BY <3>1, <2>2, <1>4, <1>6
  <2>3. CASE r[1] \notin DOMAIN round.offsets
    <3>1. r[2] < committed[r[1]]
      BY <2>1, <2>3, <1>2
    <3>2. r \in handled
      BY <3>1, <1>1 DEF CutDurable, NothingSkipped
    <3> QED BY <3>2, <1>6
  <2> QED BY <2>2, <2>3
<1>9. ASSUME owned = {}, NEW tp \in TopicPartition PROVE committed'[tp] = 0
  <2>1. position[tp] = 0 /\ committed[tp] = 0
    BY <1>1, <1>9 DEF CutState
  <2>2. tp \in DOMAIN round.offsets => round.offsets[tp] = 0
    <3> SUFFICES ASSUME tp \in DOMAIN round.offsets PROVE round.offsets[tp] = 0
      OBVIOUS
    <3>1. round.offsets[tp] \in Nat /\ round.offsets[tp] <= 0
      BY <2>1, <1>4
    <3> QED BY <3>1
  <2> QED BY <2>1, <2>2, <1>2
<1>10. round.barrier => \A tp \in TopicPartition : committed'[tp] = Cut[aligner.pending][tp]
  BY <1>2, <1>4
<1> QED BY <1>6, <1>7, <1>8, <1>9, <1>10

\* What is durable, when the commits moved and nothing finished.
LEMMA DurableCommitted ==
  ASSUME CutDurable, NothingSkipped', handled \subseteq handled', setAside' = setAside,
         UNCHANGED <<finished, store>>
  PROVE  CutDurable'
<1>1. SnapshotIsTheCut'
  BY DEF CutDurable, SnapshotIsTheCut, HoldsPrefix
<1>2. CutHandled'
  BY DEF CutDurable, CutHandled
<1>3. SavedAtTheCut'
  BY DEF CutDurable, SavedAtTheCut, HoldsPrefix
<1> QED BY <1>1, <1>2, <1>3 DEF CutDurable

LEMMA CutCommitFails ==
  ASSUME BarrierGroup, CutInv, NEW applied \in BOOLEAN, CommitFails(applied)
  PROVE  CutInv'
<1>1. CutType /\ CutDurable
  BY DEF CutInv
<1>2. /\ pc = "commit" /\ Rollback /\ ReturnError
      /\ IF applied THEN CommitRound ELSE UNCHANGED broker
      /\ UNCHANGED <<mode, manifest, store, owned, position, aligner, finished, stale,
                     rebalances>>
  BY DEF CommitFails, consumer, bounds
<1>3. /\ committed' \in [TopicPartition -> Nat] /\ setAside' = {} /\ CutDurable'
  <2>1. committed \in [TopicPartition -> Nat] /\ setAside = {}
    BY <1>1 DEF CutType
  <2>2. CASE applied
    <3>1. CommitRound
      BY <1>2, <2>2
    <3>2. /\ committed' \in [TopicPartition -> Nat] /\ setAside' = {}
          /\ handled \subseteq handled' /\ NothingSkipped'
      BY <1>2, <3>1, CutCommitRound
    <3> QED BY <3>2, <2>1, <1>1, <1>2, DurableCommitted
  <2>3. CASE ~applied
    <3>1. UNCHANGED <<committed, handled, setAside>>
      BY <1>2, <2>3 DEF broker
    <3> QED BY <3>1, <2>1, <1>1, <1>2, DurableKept
  <2> QED BY <2>2, <2>3
<1>4. CutType'
  BY <1>1, <1>2, <1>3, RollbackType DEF CutType, ReturnError
<1> QED BY <1>2, <1>3, <1>4, FailedKeeps

\* Finish ends the wait for the cut, and keeps what is held back.
LEMMA FinishFacts ==
  ASSUME BarrierGroup, CutInv, round.barrier
  PROVE  /\ Finish(aligner, round.offsets) \in AlignerType
         /\ Finish(aligner, round.offsets).lastEpoch = aligner.pending
         /\ Finish(aligner, round.offsets).held = aligner.held
         /\ Finish(aligner, round.offsets).positions = aligner.positions
         /\ Waits(Finish(aligner, round.offsets))
<1> DEFINE ps == [tp \in TopicPartition |->
                    IF tp \in aligner.aligned
                    THEN Max({aligner.positions[tp], round.offsets[tp]})
                    ELSE aligner.positions[tp]]
           b == Finish(aligner, round.offsets)
<1>1. aligner \in AlignerType /\ aligner.positions \in [TopicPartition -> Nat]
  BY DEF CutInv, CutType, AlignerType
<1>2. aligner.pending \in Epoch
  BY BarrierAtCut
<1>3. ASSUME NEW tp \in TopicPartition PROVE ps[tp] = aligner.positions[tp]
  <2>1. /\ round.offsets[tp] \in Nat /\ aligner.positions[tp] \in Nat
        /\ round.offsets[tp] <= aligner.positions[tp]
    BY <1>1 DEF CutInv, CutRound
  <2>2. Max({aligner.positions[tp], round.offsets[tp]})
        = IF aligner.positions[tp] >= round.offsets[tp] THEN aligner.positions[tp]
          ELSE round.offsets[tp]
    BY <2>1, MaxFacts
  <2>3. Max({aligner.positions[tp], round.offsets[tp]}) = aligner.positions[tp]
    BY <2>1, <2>2
  <2> QED BY <2>3
<1>4. ps = aligner.positions
  BY <1>1, <1>3
<1>5. b = [aligner EXCEPT !.lastEpoch = aligner.pending, !.pending = NoEpoch,
                          !.aligned = {}, !.reached = {}, !.positions = ps]
  BY DEF Finish
<1> HIDE DEF ps, b
<1>6. /\ b \in AlignerType /\ b.lastEpoch = aligner.pending /\ b.held = aligner.held
      /\ b.positions = aligner.positions /\ b.pending = NoEpoch /\ b.aligned = {}
  BY <1>1, <1>2, <1>4, <1>5 DEF AlignerType
<1>7. Waits(b)
  BY <1>6 DEF Waits
<1> QED BY <1>6, <1>7 DEF b

LEMMA CutCommit ==
  ASSUME BarrierGroup, CutInv, Commit
  PROVE  CutInv'
<1>1. CutType /\ CutRound /\ CutDurable
  BY DEF CutInv
<1>2. /\ pc = "commit" /\ CommitRound /\ pc' = "idle" /\ round' = NoRound
      /\ UNCHANGED <<mode, manifest, store, owned, position, failed, processors, stale,
                     rebalances>>
  BY DEF Commit, consumer, bounds
<1>3. Running /\ Running' /\ CutState
  BY <1>1, <1>2 DEF CutInv, CutRound, Running
<1>4. /\ committed' \in [TopicPartition -> Nat] /\ setAside' = {}
      /\ handled \subseteq handled' /\ Ran(aligner, position) \subseteq handled'
      /\ NothingSkipped'
      /\ owned = {} => \A tp \in TopicPartition : committed'[tp] = 0
  BY <1>2, CutCommitRound
<1>5. CutRound'
  BY <1>2, NoRoundCut
<1>6. setAside = {} /\ aligner \in AlignerType /\ finished \in SUBSET (Epoch \X Logical)
  BY <1>1 DEF CutType
<1>7. /\ CutDurable' /\ finished' \in SUBSET (Epoch \X Logical)
      /\ aligner' \in AlignerType /\ aligner'.held = aligner.held
      /\ aligner'.positions = aligner.positions /\ Waits(aligner')
      /\ \A e \in Epoch : e > aligner'.lastEpoch => e > aligner.lastEpoch
  <2>1. CASE ~round.barrier
    <3>1. UNCHANGED <<aligner, finished>>
      BY <2>1 DEF Commit
    <3>2. CutDurable'
      BY <3>1, <1>1, <1>2, <1>4, <1>6, DurableCommitted
    <3> QED BY <3>1, <3>2, <1>3, <1>6 DEF CutState
  <2>2. CASE round.barrier
    <3>1. /\ aligner' = Finish(aligner, round.offsets)
          /\ finished' = finished \union
               ({aligner.pending} \X LogicalsOf(aligner.aligned))
      BY <2>2 DEF Commit
    <3>2. /\ aligner.pending \in Epoch /\ aligner.aligned = TopicPartition
          /\ \A r \in Data : r \in Ran(aligner, position) <=> r[2] < Cut[aligner.pending][r[1]]
          /\ \A tp \in TopicPartition :
               HoldsPrefix(processors[Partition[tp]], tp, Cut[aligner.pending][tp])
      BY <2>2, BarrierAtCut
    <3>3. finished' = finished \union ({aligner.pending} \X Logical)
      BY <3>1, <3>2, AllLogicals
    <3>4. /\ aligner' \in AlignerType /\ aligner'.lastEpoch = aligner.pending
          /\ aligner'.held = aligner.held /\ aligner'.positions = aligner.positions
          /\ Waits(aligner')
      BY <2>2, <3>1, FinishFacts
    <3>5. SnapshotIsTheCut'
      <4> SUFFICES ASSUME NEW f \in Epoch, NEW tp \in TopicPartition,
                          <<f, Partition[tp]>> \in finished', tp \in DOMAIN Cut[f]
                   PROVE  HoldsPrefix(store[Partition[tp]][f], tp, Cut[f][tp])'
        BY DEF SnapshotIsTheCut
      <4>1. Partition[tp] \in Logical
        BY RunnerAssumption DEF Logical, Range
      <4>2. CASE <<f, Partition[tp]>> \in finished
        <5>1. HoldsPrefix(store[Partition[tp]][f], tp, Cut[f][tp])
          BY <4>2, <1>1 DEF CutDurable, SnapshotIsTheCut
        <5> QED BY <5>1, <1>2, <1>4, <1>6 DEF HoldsPrefix
      <4>3. CASE f = aligner.pending
        <5>1. store[Partition[tp]][f] = processors[Partition[tp]]
          BY <4>1, <4>3, <2>2, <1>1, <1>2 DEF CutRound
        <5>2. HoldsPrefix(store[Partition[tp]][f], tp, Cut[f][tp])
          BY <4>3, <5>1, <3>2
        <5> QED BY <5>2, <1>2, <1>4, <1>6 DEF HoldsPrefix
      <4> QED BY <4>2, <4>3, <3>3
    <3>6. CutHandled'
      <4> SUFFICES ASSUME NEW f \in Epoch, NEW r \in Data,
                          <<f, Partition[r[1]]>> \in finished', r[2] < Cut[f][r[1]]
                   PROVE  r \in handled'
        BY DEF CutHandled
      <4>1. CASE <<f, Partition[r[1]]>> \in finished
        BY <4>1, <1>1, <1>4 DEF CutDurable, CutHandled
      <4>2. CASE f = aligner.pending
        BY <4>2, <3>2, <1>4
      <4> QED BY <4>1, <4>2, <3>3
    <3>7. ASSUME NEW e \in Epoch, e > aligner'.lastEpoch PROVE e > aligner.lastEpoch
      <4>1. aligner.pending > aligner.lastEpoch
        <5>1. aligner.pending # NoEpoch
          BY <3>2, CutNat
        <5> QED BY <5>1, <1>3 DEF CutState, Waits
      <4>2. e \in Int /\ aligner.pending \in Int /\ aligner.lastEpoch \in Int
        BY <1>6, EpochInt DEF AlignerType
      <4> QED BY <4>1, <4>2, <3>4, <3>7
    <3>8. finished' \in SUBSET (Epoch \X Logical)
      BY <3>2, <3>3, <1>6
    <3>9. SavedAtTheCut'
      BY <1>1, <1>2, <1>4, <1>6 DEF CutDurable, SavedAtTheCut, HoldsPrefix
    <3> QED BY <3>4, <3>5, <3>6, <3>7, <3>8, <3>9, <1>4 DEF CutDurable
  <2> QED BY <2>1, <2>2
<1>8. CutType'
  BY <1>1, <1>2, <1>4, <1>7 DEF CutType
<1>9. CutState'
  <2>1. Ran(aligner', position') = Ran(aligner, position)
    BY <1>2, <1>7, SameRan
  <2>2. Keeps(aligner', position')
    BY <1>2, <1>3, <1>7 DEF CutState, Keeps, HeldBack
  <2>3. \A r \in Record : Count(processors'[Partition[r[1]]], r)
                          = Holds(Ran(aligner', position'), r)
    BY <2>1, <1>2, <1>3 DEF CutState
  <2>4. \A r \in Ran(aligner', position'), e \in Epoch :
          e > aligner'.lastEpoch => r[2] < Cut[e][r[1]]
    BY <2>1, <1>3, <1>7 DEF CutState
  <2>5. owned' = {} => /\ \A tp \in TopicPartition : position'[tp] = 0 /\ committed'[tp] = 0
                       /\ \A l \in Logical : store'[l][NoEpoch] = Nothing
    BY <1>2, <1>3, <1>4 DEF CutState
  <2> QED BY <2>1, <2>2, <2>3, <2>4, <2>5, <1>2, <1>4, <1>7 DEF CutState
<1> QED BY <1>5, <1>7, <1>8, <1>9 DEF CutInv

\* A poll runs the records before the cut, and none of them ran before.
LEMMA PollRuns ==
  ASSUME BarrierGroup, CutType, Waits(aligner), Keeps(aligner, position),
         NEW next \in Offsets, \A tp \in TopicPartition : position[tp] <= next[tp],
         NEW r \in Record
  PROVE  /\ r \in Ran(AcceptedAligner(next), next)
            <=> r \in Ran(aligner, position) \/ r[2] \in Runs(next, r[1])
         /\ ~(r \in Ran(aligner, position) /\ r[2] \in Runs(next, r[1]))
<1> DEFINE tp == r[1]
           o == r[2]
           b == AcceptedAligner(next)
           M == Merged(next, tp)
           P == Past(aligner, tp, M)
<1>1. tp \in TopicPartition /\ o \in Nat /\ r = <<tp, o>>
  BY RecordParts DEF Record
<1>2. HeldBack(b, tp) = P
  BY <1>1, PollSplits
<1>3. /\ \A x \in M : x \in Nat /\ <<tp, x>> \in Data /\ x < next[tp]
      /\ position[tp] \in Nat /\ next[tp] \in Nat /\ position[tp] <= next[tp]
  BY <1>1, MergeFacts
<1>4. o \in M <=> o \in HeldBack(aligner, tp)
                  \/ (position[tp] <= o /\ o < next[tp] /\ r \in Data)
  <2>1. o \in position[tp] .. next[tp] - 1 <=> position[tp] <= o /\ o < next[tp]
    BY <1>1, <1>3
  <2> QED BY <1>1, <2>1 DEF Merged
<1>5. P \subseteq M
  BY DEF Past
<1>6. r \in Ran(b, next) <=> r \in Data /\ o < next[tp] /\ o \notin P
  BY <1>2 DEF Ran
<1>7. r \in Ran(aligner, position)
      <=> r \in Data /\ o < position[tp] /\ o \notin HeldBack(aligner, tp)
  BY DEF Ran
<1>8. o \in Runs(next, tp) <=> o \in M /\ o \notin P
  BY DEF Runs
<1>9. o \in M => r \in Data /\ o < next[tp]
  BY <1>1, <1>3
<1>10. (o < position[tp] <=> ~(position[tp] <= o)) /\ (o < position[tp] => o < next[tp])
  BY <1>1, <1>3
<1> HIDE DEF tp, o, b, M, P
<1>11. /\ r \in Ran(b, next) <=> r \in Ran(aligner, position) \/ o \in Runs(next, tp)
       /\ ~(r \in Ran(aligner, position) /\ o \in Runs(next, tp))
  BY <1>4, <1>5, <1>6, <1>7, <1>8, <1>9, <1>10
<1> QED BY <1>11 DEF tp, o, b

\* The offset after the last record that runs: everything below it has run,
\* and it is not past the cut.
LEMMA PollOffsets ==
  ASSUME BarrierGroup, CutType, Waits(aligner), Keeps(aligner, position),
         NEW next \in Offsets, \A tp \in TopicPartition : position[tp] <= next[tp],
         NEW tp \in WithRecords(Input(next))
  PROVE  /\ NextOffsets(Input(next))[tp] \in Nat
         /\ NextOffsets(Input(next))[tp] <= next[tp]
         /\ tp \in aligner.aligned
            => NextOffsets(Input(next))[tp] <= Cut[aligner.pending][tp]
         /\ \A r \in Data : r[1] = tp /\ r[2] < NextOffsets(Input(next))[tp]
                            => r \in Ran(AcceptedAligner(next), next)
<1> DEFINE M == Merged(next, tp)
           s == Input(next)[tp]
           b == AcceptedAligner(next)
<1>1. tp \in TopicPartition /\ s # <<>>
  BY DEF WithRecords
<1>2. Lists(s, Runs(next, tp)) /\ HeldBack(b, tp) = Past(aligner, tp, M)
  BY <1>1, PollSplits
<1>3. /\ \A x \in M : x \in Nat /\ <<tp, x>> \in Data /\ x < next[tp]
      /\ next[tp] \in Nat
  BY <1>1, MergeFacts
<1>4. s[Len(s)] \in Runs(next, tp)
  BY <1>1, <1>2, ListsFacts
<1>5. PICK x \in Nat : /\ x = s[Len(s)] /\ x \in M /\ x \notin Past(aligner, tp, M)
                       /\ x < next[tp]
  BY <1>3, <1>4 DEF Runs
<1>6. NextOffsets(Input(next))[tp] = x + 1
  BY <1>5 DEF NextOffsets
<1>7. ASSUME tp \in aligner.aligned
      PROVE  Cut[aligner.pending][tp] \in Nat /\ x < Cut[aligner.pending][tp]
  <2>1. aligner.pending # NoEpoch /\ aligner.pending \in Epoch \union {NoEpoch}
    BY <1>7 DEF Waits, CutType, AlignerType
  <2>2. Cut[aligner.pending][tp] \in Nat
    BY <1>1, <2>1, CutNat
  <2>3. ~(x >= Cut[aligner.pending][tp])
    BY <1>5, <1>7 DEF Past
  <2> QED BY <2>2, <2>3
<1>8. ASSUME NEW r \in Data, r[1] = tp, r[2] < x + 1
      PROVE  r \in Ran(b, next)
  <2>1. r[2] \in Nat
    BY RecordParts DEF Data
  <2>2. r[2] < next[tp]
    BY <1>3, <1>5, <1>8, <2>1
  <2>3. r[2] \notin HeldBack(b, tp)
    <3> SUFFICES ASSUME r[2] \in HeldBack(b, tp) PROVE FALSE
      OBVIOUS
    <3>1. tp \in aligner.aligned /\ r[2] >= Cut[aligner.pending][tp]
      BY <1>2 DEF Past
    <3> QED BY <3>1, <1>7, <1>8, <2>1
  <2> QED BY <2>2, <2>3, <1>8 DEF Ran
<1> QED BY <1>3, <1>5, <1>6, <1>7, <1>8

\* The state of every partition takes in what the poll runs of it.
LEMMA PollStates ==
  ASSUME CutType, NEW input, NEW S, \A tp \in TopicPartition : Lists(input[tp], S[tp]),
         NEW after,
         after = [l \in Logical |->
           IF l \in LogicalsOf(WithRecords(input))
           THEN Applied(processors[l],
                  [tp \in TopicPartition |->
                     IF Partition[tp] = l THEN input[tp] ELSE <<>>])
           ELSE processors[l]]
  PROVE  /\ after \in [Logical -> Snapshot]
         /\ \A r \in Record : Count(after[Partition[r[1]]], r)
              = Count(processors[Partition[r[1]]], r) + (IF r[2] \in S[r[1]] THEN 1 ELSE 0)
         /\ \A r \in Record : r[2] \in S[r[1]] =>
              r \in RecordsOf(input, LogicalsOf(WithRecords(input)))
<1>1. processors \in [Logical -> Snapshot]
  BY DEF CutType
<1>2. Lists(<<>>, {})
  BY DEF Lists
<1>3. ASSUME NEW l \in Logical
      PROVE  /\ after[l] \in Snapshot
             /\ l \in LogicalsOf(WithRecords(input)) =>
                  \A r \in Record : Partition[r[1]] = l =>
                    Count(after[l], r)
                    = Count(processors[l], r) + (IF r[2] \in S[r[1]] THEN 1 ELSE 0)
  <2> DEFINE part == [tp \in TopicPartition |-> IF Partition[tp] = l THEN input[tp] ELSE <<>>]
             T == [tp \in TopicPartition |-> IF Partition[tp] = l THEN S[tp] ELSE {}]
  <2>1. \A tp \in TopicPartition : Lists(part[tp], T[tp])
    BY <1>2
  <2>2. \A r \in Record : Partition[r[1]] = l => T[r[1]] = S[r[1]]
    BY RecordParts
  <2>3. after[l] = IF l \in LogicalsOf(WithRecords(input)) THEN Applied(processors[l], part)
                   ELSE processors[l]
    OBVIOUS
  <2>4. processors[l] \in Snapshot
    BY <1>1
  <2> HIDE DEF part, T
  <2>5. /\ Applied(processors[l], part) \in Snapshot
        /\ \A r \in Record : Count(Applied(processors[l], part), r)
             = Count(processors[l], r) + (IF r[2] \in T[r[1]] THEN 1 ELSE 0)
    BY <2>1, <2>4, AppliedLists
  <2> QED BY <2>2, <2>3, <2>4, <2>5
<1>4. after \in [Logical -> Snapshot]
  BY <1>3
<1>5. ASSUME NEW r \in Record, r[2] \in S[r[1]]
      PROVE  /\ Partition[r[1]] \in LogicalsOf(WithRecords(input))
             /\ r \in RecordsOf(input, LogicalsOf(WithRecords(input)))
  <2>1. r[1] \in TopicPartition /\ Lists(input[r[1]], S[r[1]])
    BY RecordParts
  <2>2. input[r[1]] # <<>> /\ Range(input[r[1]]) = S[r[1]]
    BY <2>1, <1>5, ListsFacts
  <2>3. r[1] \in WithRecords(input)
    BY <2>1, <2>2 DEF WithRecords
  <2> QED BY <2>2, <2>3, <1>5 DEF LogicalsOf, RecordsOf
<1>6. ASSUME NEW r \in Record
      PROVE  Count(after[Partition[r[1]]], r)
             = Count(processors[Partition[r[1]]], r) + (IF r[2] \in S[r[1]] THEN 1 ELSE 0)
  <2>1. Partition[r[1]] \in Logical
    BY RecordParts
  <2>2. CASE Partition[r[1]] \in LogicalsOf(WithRecords(input))
    BY <2>1, <2>2, <1>3
  <2>3. CASE Partition[r[1]] \notin LogicalsOf(WithRecords(input))
    <3>1. r[2] \notin S[r[1]]
      BY <2>3, <1>5
    <3>2. after[Partition[r[1]]] = processors[Partition[r[1]]]
      BY <2>1, <2>3
    <3>3. Count(processors[Partition[r[1]]], r) \in Nat
      BY <1>1, <2>1, CountNat
    <3> QED BY <3>1, <3>2, <3>3
  <2> QED BY <2>2, <2>3
<1> QED BY <1>4, <1>5, <1>6

\* The offsets a round commits: what ran, or the cut when the barrier fires.
LEMMA RoundOffsets ==
  ASSUME BarrierGroup, CutType, Waits(aligner), Keeps(aligner, position),
         NEW next \in Offsets, \A tp \in TopicPartition : position[tp] <= next[tp],
         NEW offsets,
         offsets = IF Fired(AcceptedAligner(next))
                   THEN BarrierOffsets(AcceptedAligner(next), NextOffsets(Input(next)))
                   ELSE NextOffsets(Input(next))
  PROVE  /\ DOMAIN offsets \in SUBSET TopicPartition
         /\ \A tp \in DOMAIN offsets : offsets[tp] \in Nat /\ offsets[tp] <= next[tp]
         /\ \A r \in Data : r[1] \in DOMAIN offsets /\ r[2] < offsets[r[1]]
                            => r \in Ran(AcceptedAligner(next), next)
         /\ Fired(AcceptedAligner(next)) =>
              /\ aligner.pending # NoEpoch /\ DOMAIN offsets = TopicPartition
              /\ \A tp \in TopicPartition :
                   /\ offsets[tp] = Cut[aligner.pending][tp]
                   /\ Cut[aligner.pending][tp] <= AcceptedAligner(next).positions[tp]
<1> DEFINE b == AcceptedAligner(next)
           ns == NextOffsets(Input(next))
<1>1. /\ b \in AlignerType /\ b.pending = aligner.pending /\ b.aligned = aligner.aligned
      /\ Waits(b) /\ Keeps(b, next) /\ HoldsPast(b)
  BY PollSplits
<1>2. DOMAIN ns = WithRecords(Input(next)) /\ DOMAIN ns \in SUBSET TopicPartition
  BY DEF NextOffsets, WithRecords
<1>3. ASSUME NEW tp \in DOMAIN ns
      PROVE  /\ ns[tp] \in Nat /\ ns[tp] <= next[tp]
             /\ tp \in aligner.aligned => ns[tp] <= Cut[aligner.pending][tp]
             /\ \A r \in Data : r[1] = tp /\ r[2] < ns[tp] => r \in Ran(b, next)
  BY <1>2, PollOffsets
<1> HIDE DEF b, ns
<1>4. CASE ~Fired(b)
  <2>1. offsets = ns
    BY <1>4 DEF b, ns
  <2> QED BY <2>1, <1>2, <1>3, <1>4 DEF b
<1>5. CASE Fired(b)
  <2>1. aligner.pending # NoEpoch /\ b.aligned \subseteq b.reached
    BY <1>1, <1>5 DEF Fired
  <2>2. PICK e \in Epoch : e = aligner.pending
    BY <2>1 DEF CutType, AlignerType
  <2>3. b.aligned = TopicPartition
    BY <1>1, <2>1 DEF Waits
  <2>4. ASSUME NEW tp \in TopicPartition
        PROVE  /\ Cut[e][tp] \in Nat /\ b.positions[tp] \in Nat /\ next[tp] \in Nat
               /\ Cut[e][tp] <= b.positions[tp] /\ b.positions[tp] <= next[tp]
    <3>1. Cut[e][tp] \in Nat /\ b.positions[tp] \in Nat /\ next[tp] \in Nat
      BY <1>1, CutNat, OffsetNat DEF AlignerType
    <3>2. b.positions[tp] >= Cut[e][tp]
      BY <1>1, <2>1, <2>2, <2>3 DEF Waits
    <3>3. b.positions[tp] <= next[tp]
      BY <1>1 DEF Keeps
    <3> QED BY <3>1, <3>2, <3>3
  <2>5. offsets = [tp \in DOMAIN ns \union TopicPartition |->
                     IF tp \notin TopicPartition THEN ns[tp]
                     ELSE IF tp \notin DOMAIN ns THEN Cut[e][tp]
                     ELSE Max({ns[tp], Cut[e][tp]})]
    BY <1>1, <1>5, <2>2, <2>3 DEF BarrierOffsets, b, ns
  <2>6. DOMAIN ns \union TopicPartition = TopicPartition
    BY <1>2
  <2>7. DOMAIN offsets = TopicPartition
    BY <2>5, <2>6
  <2>8. ASSUME NEW tp \in TopicPartition PROVE offsets[tp] = Cut[e][tp]
    <3>1. CASE tp \notin DOMAIN ns
      BY <2>5, <2>6, <3>1
    <3>2. CASE tp \in DOMAIN ns
      <4>1. ns[tp] \in Nat /\ ns[tp] <= Cut[e][tp] /\ Cut[e][tp] \in Nat
        BY <3>2, <1>1, <1>3, <2>2, <2>3, <2>4
      <4>2. Max({ns[tp], Cut[e][tp]}) = IF ns[tp] >= Cut[e][tp] THEN ns[tp] ELSE Cut[e][tp]
        BY <4>1, MaxFacts
      <4>3. Max({ns[tp], Cut[e][tp]}) = Cut[e][tp]
        BY <4>1, <4>2
      <4> QED BY <4>3, <3>2, <2>5, <2>6
    <3> QED BY <3>1, <3>2
  <2>9. ASSUME NEW r \in Data, r[2] < Cut[e][r[1]]
        PROVE  r \in Ran(b, next)
    <3>1. r[1] \in TopicPartition /\ r[2] \in Nat
      BY RecordParts DEF Data
    <3>2. r[2] < next[r[1]]
      BY <2>4, <2>9, <3>1
    <3>3. r[2] \in HeldBack(b, r[1]) => r[2] >= Cut[e][r[1]]
      BY <1>1, <2>2, <3>1 DEF HoldsPast
    <3>4. r[2] \notin HeldBack(b, r[1])
      BY <2>4, <2>9, <3>1, <3>3
    <3> QED BY <3>2, <3>4 DEF Ran
  <2>10. \A tp \in TopicPartition : Cut[e][tp] <= next[tp]
    <3> SUFFICES ASSUME NEW tp \in TopicPartition PROVE Cut[e][tp] <= next[tp]
      OBVIOUS
    <3> QED BY <2>4
  <2> QED BY <2>1, <2>2, <2>4, <2>7, <2>8, <2>9, <2>10 DEF b
<1> QED BY <1>4, <1>5

LEMMA CutPoll ==
  ASSUME BarrierGroup, CutInv, NEW next \in Offsets, NEW bad, Poll(next, bad)
  PROVE  CutInv'
<1> DEFINE input == Input(next)
           ran == LogicalsOf(WithRecords(input))
           b == AcceptedAligner(next)
           offsets == IF Fired(b) THEN BarrierOffsets(b, NextOffsets(input))
                      ELSE NextOffsets(input)
           S == [tp \in TopicPartition |-> Runs(next, tp)]
<1>1. CutType /\ CutDurable
  BY DEF CutInv
<1>2. bad = {}
  <2>1. mode \in Modes
    BY <1>1 DEF CutType
  <2>2. Policy = "fail"
    BY <2>1 DEF BarrierGroup, Policy
  <2> QED BY <2>2 DEF Poll
<1>3. FetchUpTo(next)
  BY DEF Poll
<1>4. /\ pc = "poll" /\ round = NoRound /\ Running /\ CutState
      /\ position' = next /\ next \in [TopicPartition -> Nat]
      /\ \A tp \in TopicPartition : position[tp] <= next[tp]
      /\ owned = {} => next = position
  BY <1>3, FetchFacts
<1>5. Waits(aligner) /\ Keeps(aligner, position) /\ NoCutLeft(aligner)
  BY <1>4 DEF CutState
<1>6. /\ aligner' = b /\ pc' = "send"
      /\ round'.offsets = offsets /\ round'.barrier = Fired(b)
      /\ round'.records = RecordsOf(input, ran) /\ round'.bad = RecordsOf(input, {})
      /\ round'.prior = [l \in ran \ {} |-> processors[l]]
      /\ UNCHANGED <<committed, handled, setAside, mode, manifest, store, owned, failed,
                     finished, stale, rebalances>>
  BY <1>2 DEF Poll, broker, bounds
<1>7. processors' = [l \in Logical |->
        IF l \in ran
        THEN Applied(processors[l],
               [tp \in TopicPartition |-> IF Partition[tp] = l THEN input[tp] ELSE <<>>])
        ELSE processors[l]]
  <2>1. ran \ {} = ran
    OBVIOUS
  <2>2. processors' = [l \in Logical |->
          IF l \in ran \ bad
          THEN Applied(processors[l],
                 [tp \in TopicPartition |-> IF Partition[tp] = l THEN input[tp] ELSE <<>>])
          ELSE processors[l]]
    BY DEF Poll
  <2> QED BY <1>2, <2>1, <2>2
<1>8. /\ b \in AlignerType /\ b.pending = aligner.pending /\ b.lastEpoch = aligner.lastEpoch
      /\ b.aligned = aligner.aligned /\ Waits(b) /\ Keeps(b, next) /\ HoldsPast(b)
      /\ \A tp \in TopicPartition : Lists(input[tp], Runs(next, tp))
  BY <1>1, <1>4, <1>5, PollSplits
<1>9. \A tp \in TopicPartition : Lists(input[tp], S[tp])
  BY <1>8
<1>10. \A r \in Record : S[r[1]] = Runs(next, r[1])
  BY RecordParts
<1>11. /\ DOMAIN offsets \in SUBSET TopicPartition
       /\ \A tp \in DOMAIN offsets : offsets[tp] \in Nat /\ offsets[tp] <= next[tp]
       /\ \A r \in Data : r[1] \in DOMAIN offsets /\ r[2] < offsets[r[1]] => r \in Ran(b, next)
       /\ Fired(b) =>
            /\ aligner.pending # NoEpoch /\ DOMAIN offsets = TopicPartition
            /\ \A tp \in TopicPartition : /\ offsets[tp] = Cut[aligner.pending][tp]
                                          /\ Cut[aligner.pending][tp] <= b.positions[tp]
  BY <1>1, <1>4, <1>5, RoundOffsets
<1>12. ran \subseteq Logical
  BY RunnerAssumption DEF LogicalsOf, WithRecords, Logical, Range
<1>13. RecordsOf(input, {}) = {}
  BY DEF RecordsOf
<1> HIDE DEF input, b, offsets, S
<1>14. /\ processors' \in [Logical -> Snapshot]
       /\ \A r \in Record : Count(processors'[Partition[r[1]]], r)
            = Count(processors[Partition[r[1]]], r) + (IF r[2] \in S[r[1]] THEN 1 ELSE 0)
       /\ \A r \in Record : r[2] \in S[r[1]] => r \in RecordsOf(input, ran)
  BY <1>1, <1>7, <1>9, PollStates
<1> HIDE DEF ran
<1>15. ASSUME NEW r \in Record
       PROVE  /\ r \in Ran(b, next) <=> r \in Ran(aligner, position) \/ r[2] \in Runs(next, r[1])
              /\ ~(r \in Ran(aligner, position) /\ r[2] \in Runs(next, r[1]))
  BY <1>1, <1>4, <1>5, PollRuns DEF b
<1>16. CutType'
  BY <1>1, <1>4, <1>6, <1>8, <1>14 DEF CutType
<1>17. CutDurable'
  BY <1>1, <1>6, DurableKept
<1>18. Running'
  BY <1>4, <1>6 DEF Running
<1>19. CutRound'
  <2>1. \A l \in DOMAIN round'.prior : round'.prior[l] \in Snapshot
    <3>1. processors \in [Logical -> Snapshot]
      BY <1>1 DEF CutType
    <3> QED BY <3>1, <1>6, <1>12
  <2>2. round'.barrier =>
          /\ aligner'.pending # NoEpoch /\ DOMAIN round'.offsets = TopicPartition
          /\ \A tp \in TopicPartition : /\ round'.offsets[tp] = Cut[aligner'.pending][tp]
                                        /\ Cut[aligner'.pending][tp] <= aligner'.positions[tp]
    BY <1>6, <1>8, <1>11
  <2>3. /\ DOMAIN round'.offsets \in SUBSET TopicPartition
        /\ \A tp \in DOMAIN round'.offsets : round'.offsets[tp] \in Nat
        /\ \A tp \in DOMAIN round'.offsets : round'.offsets[tp] <= position'[tp]
        /\ \A r \in Data : r[1] \in DOMAIN round'.offsets /\ r[2] < round'.offsets[r[1]]
                           => r \in Ran(aligner', position')
    BY <1>4, <1>6, <1>11
  <2>4. round'.bad = {}
    BY <1>6, <1>13
  <2> QED BY <1>6, <1>18, <2>1, <2>2, <2>3, <2>4 DEF CutRound
<1>20. CutState'
  <2>1. Ran(aligner', position') = Ran(b, next) /\ aligner'.lastEpoch = aligner.lastEpoch
    BY <1>4, <1>6, <1>8
  <2>2. \A r \in Data : r \in Record
    BY DEF Data
  <2>3. ASSUME NEW r \in Record
        PROVE  Count(processors'[Partition[r[1]]], r) = Holds(Ran(b, next), r)
    <3>1. Count(processors[Partition[r[1]]], r) = Holds(Ran(aligner, position), r)
      BY <1>4 DEF CutState
    <3>2. Count(processors'[Partition[r[1]]], r)
          = Holds(Ran(aligner, position), r) + (IF r[2] \in Runs(next, r[1]) THEN 1 ELSE 0)
      BY <3>1, <1>10, <1>14
    <3> QED BY <3>2, <1>15 DEF Holds
  <2>4. ASSUME NEW r \in Ran(b, next), NEW e \in Epoch, e > aligner.lastEpoch
        PROVE  r[2] < Cut[e][r[1]]
    <3>1. r \in Record /\ r[1] \in TopicPartition /\ r[2] \in Nat
      BY <2>2, RecordParts DEF Ran
    <3>2. CASE r \in Ran(aligner, position)
      BY <3>2, <2>4, <1>4 DEF CutState
    <3>3. CASE r[2] \in Runs(next, r[1])
      <4>1. aligner.pending # NoEpoch
        <5>1. e \in Int /\ aligner.lastEpoch \in Int
          BY <1>1, EpochInt DEF CutType, AlignerType
        <5>2. ~(e <= aligner.lastEpoch)
          BY <5>1, <2>4
        <5> QED BY <5>2, <1>5 DEF NoCutLeft
      <4>2. PICK f \in Epoch : f = aligner.pending
        BY <4>1, <1>1 DEF CutType, AlignerType
      <4>3. aligner.aligned = TopicPartition /\ e >= f
        BY <4>1, <4>2, <2>4, <1>5 DEF Waits
      <4>4. ~(r[2] >= Cut[f][r[1]])
        BY <3>1, <3>3, <4>2, <4>3 DEF Runs, Past
      <4>5. f <= e
        BY <4>3, CutNat
      <4>6. Cut[f][r[1]] <= Cut[e][r[1]]
        BY <3>1, <4>5 DEF BarrierGroup
      <4>7. Cut[f][r[1]] \in Nat /\ Cut[e][r[1]] \in Nat
        BY <3>1, CutNat
      <4> QED BY <3>1, <4>4, <4>6, <4>7
    <3> QED BY <3>1, <3>2, <3>3, <1>15
  <2>5. ASSUME NEW r \in Ran(b, next) PROVE r \in handled' \union round'.records
    <3>1. r \in Record
      BY <2>2 DEF Ran
    <3>2. CASE r \in Ran(aligner, position)
      BY <3>2, <1>4, <1>6, NoRoundFacts DEF CutState
    <3>3. CASE r[2] \in Runs(next, r[1])
      BY <3>1, <3>3, <1>6, <1>10, <1>14
    <3> QED BY <3>1, <3>2, <3>3, <1>15
  <2>6. owned' = {} => /\ \A tp \in TopicPartition : position'[tp] = 0 /\ committed'[tp] = 0
                       /\ \A l \in Logical : store'[l][NoEpoch] = Nothing
    BY <1>4, <1>6 DEF CutState
  <2>7. Waits(aligner') /\ Keeps(aligner', position') /\ NoCutLeft(aligner') /\ HoldsPast(aligner')
    BY <1>4, <1>5, <1>6, <1>8 DEF NoCutLeft
  <2> QED BY <2>1, <2>3, <2>4, <2>5, <2>6, <2>7 DEF CutState
<1> QED BY <1>16, <1>17, <1>19, <1>20 DEF CutInv

-----------------------------------------------------------------------------
(***************************************************************************)
(* The theorems.                                                           *)
(***************************************************************************)
\* Nobody else runs the partitions, and no cut is published late.
LEMMA CutExcluded ==
  ASSUME BarrierGroup, CutInv
  PROVE  /\ ~ \E l \in Logical, next \in Offsets : OtherMember(l, next)
         /\ ~ \E S \in Batches \intersect SUBSET owned :
                OnPartitionsRevoked(S) \/ RevokedUnsaved(S) \/ OnPartitionsLost(S)
         /\ ~ \E e \in Epoch, status \in {"absent", "partial", "complete"} :
                Publish(e, status)
<1>1. Epoch # {} /\ ~LateCuts /\ MaxRebalances = 0
  BY DEF BarrierGroup
<1>2. rebalances = 0
  BY DEF CutInv, CutType
<1>3. ~Rebalance
  BY <1>1, <1>2 DEF Rebalance
<1>4. ASSUME NEW S PROVE ~(OnPartitionsRevoked(S) \/ RevokedUnsaved(S) \/ OnPartitionsLost(S))
  BY <1>3 DEF OnPartitionsRevoked, RevokedUnsaved, OnPartitionsLost
<1>5. ASSUME NEW l, NEW next PROVE ~OtherMember(l, next)
  BY <1>1 DEF OtherMember
<1>6. ASSUME NEW e, NEW status PROVE ~Publish(e, status)
  BY <1>1 DEF Publish
<1> QED BY <1>4, <1>5, <1>6

\* Every step keeps the invariant.
LEMMA CutStep ==
  ASSUME BarrierGroup, CutInv, [Next]_vars
  PROVE  CutInv'
<1>1. CASE Round
  <2>1. CASE StartRound
    BY <2>1, CutStartRound
  <2>2. CASE \E next \in Offsets, bad \in SUBSET Logical : Poll(next, bad)
    BY <2>2, CutPoll
  <2>3. CASE Send
    BY <2>3, CutSend
  <2>4. CASE Save
    BY <2>4, CutSave
  <2>5. CASE Commit
    BY <2>5, CutCommit
  <2> QED BY <1>1, <2>1, <2>2, <2>3, <2>4, <2>5 DEF Round
<1>2. CASE Failure
  <2>1. CASE StartRoundFails
    BY <2>1, CutStartFails
  <2>2. CASE PollFails
    BY <2>2, CutPollFails
  <2>3. CASE \E next \in Offsets : ProcessFails(next)
    BY <2>3, CutProcessFails
  <2>4. CASE \E acknowledged \in SUBSET round.outputs : SendFails(acknowledged)
    BY <2>4, CutSendFails
  <2>5. CASE \E l \in Logical : SaveFails(l)
    BY <2>5, CutSaveFails
  <2>6. CASE \E applied \in BOOLEAN : CommitFails(applied)
    BY <2>6, CutCommitFails
  <2> QED BY <1>2, <2>1, <2>2, <2>3, <2>4, <2>5, <2>6 DEF Failure
<1>3. CASE Group
  <2>1. PICK S \in Batches, unloaded \in SUBSET Logical :
          S \intersect owned = {} /\ OnPartitionsAssigned(S, unloaded)
    BY <1>3, CutExcluded DEF Group
  <2> QED BY <2>1, CutAssigned
<1>4. CASE Close \/ Crash
  BY <1>4, CutEnds
<1>5. CASE \E e \in Epoch : RestoreToEpoch(e)
  BY <1>5, CutRestored
<1>6. CASE \E e \in Epoch, logicals, released \in SUBSET Logical, sought \in SUBSET owned :
             RestoreFails(e, logicals, released, sought)
  BY <1>6, CutRestoreFails
<1>7. CASE UNCHANGED vars
  BY <1>7, CutStutter
<1> QED BY <1>1, <1>2, <1>3, <1>4, <1>5, <1>6, <1>7, CutExcluded DEF Next

\* Only the commit of a barrier tells the listener of a barrier.
LEMMA OnlyCommitFinishes ==
  ASSUME [Next]_vars, finished' # finished
  PROVE  Commit /\ round.barrier
<1>1. ~UNCHANGED vars
  BY DEF vars
<1>2. CASE Round
  <2>1. ~StartRound
    BY DEF StartRound
  <2>2. ASSUME NEW next, NEW bad PROVE ~Poll(next, bad)
    BY DEF Poll
  <2>3. ~Send
    BY DEF Send
  <2>4. ~Save
    BY DEF Save
  <2>5. Commit
    BY <1>2, <2>1, <2>2, <2>3, <2>4 DEF Round
  <2> QED BY <2>5 DEF Commit
<1>3. ~Failure
  <2>1. ~StartRoundFails
    BY DEF StartRoundFails
  <2>2. ~PollFails
    BY DEF PollFails
  <2>3. ASSUME NEW next PROVE ~ProcessFails(next)
    BY DEF ProcessFails
  <2>4. ASSUME NEW acknowledged PROVE ~SendFails(acknowledged)
    BY DEF SendFails
  <2>5. ASSUME NEW l PROVE ~SaveFails(l)
    BY DEF SaveFails
  <2>6. ASSUME NEW applied PROVE ~CommitFails(applied)
    BY DEF CommitFails
  <2> QED BY <2>1, <2>2, <2>3, <2>4, <2>5, <2>6 DEF Failure
<1>4. ~Group
  <2>1. ASSUME NEW S, NEW unloaded PROVE ~OnPartitionsAssigned(S, unloaded)
    BY DEF OnPartitionsAssigned
  <2>2. ~Rebalance
    BY DEF Rebalance
  <2>3. ASSUME NEW l, NEW next PROVE ~OtherMember(l, next)
    BY DEF OtherMember
  <2> QED BY <2>1, <2>2, <2>3
          DEF Group, OnPartitionsRevoked, RevokedUnsaved, OnPartitionsLost
<1>5. ASSUME NEW e, NEW status PROVE ~Publish(e, status)
  BY DEF Publish
<1>6. ~Close /\ ~Crash
  BY DEF Close, Crash, Fresh
<1>7. ASSUME NEW e PROVE ~RestoreToEpoch(e)
  BY DEF RestoreToEpoch
<1>8. ASSUME NEW e, NEW logicals, NEW released, NEW sought
      PROVE  ~RestoreFails(e, logicals, released, sought)
  BY DEF RestoreFails
<1> QED BY <1>1, <1>2, <1>3, <1>4, <1>5, <1>6, <1>7, <1>8 DEF Next

\* The invariant of a barrier group (barrieralign.go and the barrier part of
\* runner.go): what a running runner ran is what it fetched and does not
\* hold back, its state is the effect of that, and it lies before every cut
\* that is not finished.
THEOREM BarrierInvariant ==
  ASSUME BarrierGroup
  PROVE  Spec => []CutInv
<1>1. Init => CutInv
  BY CutStart
<1>2. CutInv /\ [Next]_vars => CutInv'
  BY CutStep
<1> QED BY <1>1, <1>2, PTL DEF Spec

\* The snapshot the listener was told of (finish, after the
\* commit of the barrier round) is the state at the cut, whatever was polled
\* together across it, held back, refused, rolled back or restored before.
THEOREM SnapshotAtTheCut ==
  ASSUME BarrierGroup
  PROVE  Spec => []SnapshotIsTheCut
<1>1. CutInv => SnapshotIsTheCut
  BY DEF CutInv, CutDurable
<1> QED BY <1>1, BarrierInvariant, PTL

\* A barrier group never commits past a record it did not send: the commit of
\* a barrier goes to the cut and not past the records it holds back, and a
\* restore resumes where everything below was handled.
THEOREM NothingSkippedAtCuts ==
  ASSUME BarrierGroup
  PROVE  Spec => []NothingSkipped
<1>1. CutInv => NothingSkipped
  BY DEF CutInv, CutDurable
<1> QED BY <1>1, BarrierInvariant, PTL

\* The listener hears of a barrier (Finish in barrieralign.go) only when the
\* cut was committed in every aligned partition.
THEOREM CommitsTheCut ==
  ASSUME BarrierGroup
  PROVE  Spec => BarrierCommitsTheCut
<1>1. ASSUME CutInv, [Next]_vars, finished' # finished, NEW tp \in TopicPartition
      PROVE  committed'[tp] = Cut[aligner.pending][tp]
  <2>1. Commit /\ round.barrier
    BY <1>1, OnlyCommitFinishes
  <2>2. pc = "commit" /\ CommitRound
    BY <2>1 DEF Commit
  <2> QED BY <1>1, <2>1, <2>2, CutCommitRound
<1>2. CutInv /\ [Next]_vars
      => [\A tp \in TopicPartition :
            finished' # finished /\ tp \in aligner.aligned
            => committed'[tp] = Cut[aligner.pending][tp]]_vars
  BY <1>1
<1> QED BY <1>2, BarrierInvariant, PTL DEF Spec, BarrierCommitsTheCut

\* RestoreToEpoch puts the state of every partition that has a snapshot of
\* the epoch exactly at the cut, whether or not the round that saved it was
\* committed: it holds every record below the offset the partition is sought
\* to, and no other.  A partition without one starts empty.
THEOREM ExactRestore ==
  ASSUME BarrierGroup
  PROVE  Spec => RestoreIsExact
<1>1. ASSUME CutInv, NEW e \in Epoch, RestoreToEpoch(e), NEW tp \in Targets(e)
      PROVE  HoldsPrefix(processors'[Partition[tp]], tp,
                         IF Load(Partition[tp], e) = Nothing THEN 0 ELSE Cut[e][tp])
  <2> DEFINE l == Partition[tp]
  <2>1. tp \in TopicPartition /\ l \in Logical
    <3>1. tp \in TopicPartition
      BY <1>1, RestoreEffect
    <3> QED BY <3>1, RunnerAssumption DEF Logical, Range
  <2>2. \A r \in Record : Count(processors'[l], r) = Count(store[l][e], r)
    <3>1. processors' = RestoredProcessors(e, Logical)
      BY <1>1, RestoreEffect
    <3> QED BY <3>1, <2>1, <1>1, RestoredFacts DEF CutInv
  <2>3. CASE store[l][e] = Nothing
    <3> SUFFICES ASSUME NEW r \in Record, r[1] = tp
                 PROVE  Count(processors'[l], r)
                        = IF r \in Data \ setAside /\ r[2] < 0 THEN 1 ELSE 0
      BY <2>3 DEF HoldsPrefix, Load
    <3>1. Count(processors'[l], r) = 0
      BY <2>2, <2>3, CountEmpty
    <3>2. r[2] \in Nat
      BY RecordParts
    <3> QED BY <3>1, <3>2
  <2>4. CASE store[l][e] # Nothing
    <3>1. HoldsPrefix(store[l][e], tp, Cut[e][tp])
      BY <2>1, <2>4, <1>1 DEF CutInv, CutDurable, SavedAtTheCut
    <3>2. HoldsPrefix(processors'[l], tp, Cut[e][tp])
      BY <2>2, <3>1 DEF HoldsPrefix
    <3> QED BY <2>4, <3>2 DEF Load
  <2> QED BY <2>3, <2>4
<1>2. CutInv /\ [Next]_vars
      => [\A e \in Epoch : RestoreToEpoch(e) =>
            \A tp \in Targets(e) :
              HoldsPrefix(processors'[Partition[tp]], tp,
                IF Load(Partition[tp], e) = Nothing THEN 0 ELSE Cut[e][tp])]_vars
  BY <1>1
<1> QED BY <1>2, BarrierInvariant, PTL DEF Spec, RestoreIsExact
=============================================================================
