--------------------------- MODULE BarrierAligner ---------------------------
(***************************************************************************)
(* The barrier state of one group runner (columnar/barrieralign.go): which *)
(* cut it waits for, which records it holds past that cut, and how far     *)
(* every partition got.  The methods of barrierAligner are operators from  *)
(* the aligner's value before a call to its value after it.                *)
(***************************************************************************)
EXTENDS Integers, Sequences, FiniteSetsExt

CONSTANTS
  TopicPartition,   \* the source partitions
  Epoch,            \* the epochs of the barrier group; empty without one
  Cut               \* Cut[e][tp]: offset of the marker of epoch e in tp

NoEpoch == -1

ASSUME EpochAssumption == Epoch \subseteq Nat
ASSUME CutAssumption ==
  \A e \in Epoch : DOMAIN Cut[e] \subseteq TopicPartition
                   /\ \A tp \in DOMAIN Cut[e] : Cut[e][tp] \in Nat

NothingHeld == [tp \in TopicPartition |-> <<>>]

NewBarrierAligner ==
  [lastEpoch |-> NoEpoch, pending |-> NoEpoch, aligned |-> {}, reached |-> {},
   held |-> NothingHeld, positions |-> [tp \in TopicPartition |-> 0],
   assigned |-> {}]

(* A runner with no assignment yet waits for every partition of the cut. *)
Owns(a, tp) == a.assigned = {} \/ tp \in a.assigned

(* Defect: a partition reaches a cut only by a record. *)
RealignByRecords(a) ==
  LET aligned == {tp \in DOMAIN Cut[a.pending] : Owns(a, tp)}
  IN [a EXCEPT !.aligned = aligned, !.reached = @ \intersect aligned]

Realign(a) ==
  LET offsets == Cut[a.pending]
      aligned == {tp \in DOMAIN offsets : Owns(a, tp)}
      passed  == {tp \in aligned : a.positions[tp] >= offsets[tp]}
  IN [a EXCEPT !.aligned = aligned,
               !.reached = (a.reached \union passed) \intersect aligned,
               !.held = [tp \in TopicPartition |->
                           IF tp \in aligned \/ Owns(a, tp)
                           THEN a.held[tp] ELSE <<>>]]

BeginCut(a, epoch) == Realign([a EXCEPT !.pending = epoch, !.reached = {}])

(* cuts: the epochs of the complete cuts that the cut reader knows. *)
Refresh(a, assigned, cuts) ==
  LET b    == [a EXCEPT !.assigned = assigned]
      next == {e \in cuts : e > a.lastEpoch}
  IN IF a.pending # NoEpoch THEN Realign(b)
     ELSE IF next = {} THEN b
     ELSE BeginCut(b, Min(next))

(* The positions the consumer reports for the aligned partitions. *)
ObservePositions(a, positions) ==
  IF a.pending = NoEpoch THEN a
  ELSE Realign([a EXCEPT !.positions =
         [tp \in TopicPartition |->
            IF tp \in a.aligned THEN Max({a.positions[tp], positions[tp]})
            ELSE a.positions[tp]]])

Merge(a, polled) == [tp \in TopicPartition |-> a.held[tp] \o polled[tp]]

(* How many of these records run before the cut. *)
Split(a, tp, records) ==
  LET past == {i \in DOMAIN records : records[i] >= Cut[a.pending][tp]}
  IN IF tp \notin a.aligned \/ past = {} THEN Len(records) ELSE Min(past) - 1

Accepted(a, merged) ==
  [tp \in TopicPartition |->
     SubSeq(merged[tp], 1, Split(a, tp, merged[tp]))]

(* The aligner after merge and one accept per partition with records. *)
AcceptAll(a, merged) ==
  LET some == {tp \in TopicPartition : merged[tp] # <<>>}
      positions == [tp \in TopicPartition |->
                      IF tp \in some
                      THEN Max({a.positions[tp], merged[tp][Len(merged[tp])] + 1})
                      ELSE a.positions[tp]]
  IN [a EXCEPT !.positions = positions,
               !.held = [tp \in TopicPartition |->
                 SubSeq(merged[tp], Split(a, tp, merged[tp]) + 1, Len(merged[tp]))],
               !.reached = @ \union {tp \in a.aligned \intersect some :
                                       positions[tp] >= Cut[a.pending][tp]}]

(* Defect: the barrier fires with the first partition. *)
FiredAny(a) == a.pending # NoEpoch /\ a.aligned \intersect a.reached # {}

Fired(a) == a.pending # NoEpoch /\ a.aligned \subseteq a.reached

(* Defect: the commit steps over the marker. *)
BarrierOffsetsPastMarker(a, offsets) ==
  [tp \in DOMAIN offsets \union a.aligned |->
     IF tp \in a.aligned THEN Cut[a.pending][tp] + 1 ELSE offsets[tp]]

(* Defect: the position reached is committed, the held records included. *)
BarrierOffsetsReached(a, offsets) ==
  [tp \in DOMAIN offsets \union a.aligned |->
     IF tp \in a.aligned THEN a.positions[tp] ELSE offsets[tp]]

(* Raises the offsets of the aligned partitions to the cut. *)
BarrierOffsets(a, offsets) ==
  [tp \in DOMAIN offsets \union a.aligned |->
     IF tp \notin a.aligned THEN offsets[tp]
     ELSE IF tp \notin DOMAIN offsets THEN Cut[a.pending][tp]
     ELSE Max({offsets[tp], Cut[a.pending][tp]})]

Finish(a, offsets) ==
  [a EXCEPT !.lastEpoch = a.pending, !.pending = NoEpoch,
            !.aligned = {}, !.reached = {},
            !.positions = [tp \in TopicPartition |->
               IF tp \in a.aligned THEN Max({a.positions[tp], offsets[tp]})
               ELSE a.positions[tp]]]

Restored(a, epoch, targets) ==
  [a EXCEPT !.lastEpoch = epoch, !.pending = NoEpoch,
            !.aligned = {}, !.reached = {}, !.held = NothingHeld,
            !.positions = [tp \in TopicPartition |->
               IF tp \in targets THEN Cut[epoch][tp] ELSE a.positions[tp]]]
=============================================================================
