---------------------------- MODULE OffsetOrder -----------------------------
(***************************************************************************)
(* The order in which a Kafka client hands over the records of a           *)
(* partition: ascending offsets, whatever gaps the control records, the    *)
(* aborted records and the barrier markers leave.                          *)
(***************************************************************************)
EXTENDS Integers, FiniteSets

\* A set of offsets in ascending order: the i-th has i - 1 below it.
InOrder(S) ==
  [i \in 1 .. Cardinality(S) |->
     CHOOSE o \in S : Cardinality({p \in S : p < o}) = i - 1]
=============================================================================
