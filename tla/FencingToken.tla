---------------------------- MODULE FencingToken ----------------------------
(***************************************************************************)
(* The fencing token of a role (coordination/record.go): the pair          *)
(* (producer id, producer epoch) that the transaction coordinator mints.   *)
(* The epoch is an int16; past MaxEpoch the coordinator allocates a fresh  *)
(* producer id and starts again from epoch 0.                              *)
(***************************************************************************)
EXTENDS Integers

CONSTANT MaxEpoch  \* the largest producer epoch a producer id is used with

ASSUME MaxEpochAssumption == MaxEpoch \in Nat

\* NewFencingToken refuses a negative value in either position.
MintedToken == [pid : Nat, epoch : 0 .. MaxEpoch]

\* The token of a role that no member has ever taken.
NoEpoch == [pid |-> -1, epoch |-> -1]

Token == MintedToken \union {NoEpoch}

\* FencingToken.Compare(t, other) > 0: the producer id leads.
Supersedes(t, other) ==
  \/ t.pid > other.pid
  \/ t.pid = other.pid /\ t.epoch > other.epoch

\* InitProducerId at the coordinator: the next epoch, or a fresh producer id
\* once the epochs of this one are used up.
NextToken(t) ==
  IF t = NoEpoch \/ t.epoch = MaxEpoch
  THEN [pid |-> t.pid + 1, epoch |-> 0]
  ELSE [pid |-> t.pid, epoch |-> t.epoch + 1]
=============================================================================
