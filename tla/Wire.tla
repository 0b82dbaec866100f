-------------------------------- MODULE Wire --------------------------------
(***************************************************************************)
(* The big-endian layouts of the library's records and snapshots: the      *)
(* appenders and the readers of coordination/record.go (stateReader),      *)
(* columnar/barrier.go (barrierReader) and columnar/ops.go (valueReader).  *)
(*                                                                         *)
(* A byte is a number below Radix.  Fields have as many bytes as in the    *)
(* code; a small Radix keeps 64-bit values inside the integers of TLC.     *)
(***************************************************************************)
EXTENDS Integers, SequencesExt

CONSTANT Radix

ASSUME RadixAssumption == Radix \in Nat \ {0} /\ Radix % 2 = 0

Byte == 0 .. Radix - 1

(* Two's complement in this many bytes. *)
BigEndian(width, n) == [i \in 1 .. width |-> (n \div Radix ^ (width - i)) % Radix]

Unsigned(bytes) == FoldLeft(LAMBDA n, b : n * Radix + b, 0, bytes)

Signed(bytes) ==
  LET modulus == Radix ^ Len(bytes)
      n       == Unsigned(bytes)
  IN IF n < modulus \div 2 THEN n ELSE n - modulus

appendString(value) == BigEndian(2, Len(value)) \o value

(* Defect: the length of the bytes is not written. *)
appendUnsized(data) == data

appendSized(data) == BigEndian(4, Len(data)) \o data

---------------------------------------------------------------------------
(* A reader returns the value read and what is left of its data. *)

Failed            == [ok |-> FALSE, value |-> <<>>, rest |-> <<>>]
Read(value, rest) == [ok |-> TRUE, value |-> value, rest |-> rest]

Take(length, data) ==
  IF length < 0 \/ length > Len(data) THEN Failed
  ELSE Read(SubSeq(data, 1, length), SubSeq(data, length + 1, Len(data)))

Mapped(read, Value(_)) == IF read.ok THEN Read(Value(read.value), read.rest) ELSE read

ReadInt(width, data)  == Mapped(Take(width, data), Signed)
ReadUint(width, data) == Mapped(Take(width, data), Unsigned)

(* A string has a signed length, which must not be negative; sized bytes   *)
(* have an unsigned one.                                                   *)
Text(data)  == LET length == ReadInt(2, data)
               IN IF length.ok THEN Take(length.value, length.rest) ELSE Failed
Sized(data) == LET length == ReadUint(4, data)
               IN IF length.ok THEN Take(length.value, length.rest) ELSE Failed

Field(kind, data) ==
  CASE kind = "int8"   -> ReadInt(1, data)
    [] kind = "int16"  -> ReadInt(2, data)
    [] kind = "int32"  -> ReadInt(4, data)
    [] kind = "int64"  -> ReadInt(8, data)
    [] kind = "uint8"  -> ReadUint(1, data)
    [] kind = "uint32" -> ReadUint(4, data)
    [] kind = "uint64" -> ReadUint(8, data)
    [] kind = "string" -> Text(data)
    [] kind = "sized"  -> Sized(data)

(* One item after another, up to the first that fails. *)
Sequenced(Item(_, _), items, data) ==
  FoldLeft(LAMBDA read, item :
             IF ~read.ok THEN read
             ELSE LET next == Item(item, read.rest)
                  IN IF next.ok THEN Read(Append(read.value, next.value), next.rest)
                     ELSE Failed,
           Read(<<>>, data), items)

Fields(layout, data) == Sequenced(Field, layout, data)

(* A counted array.  Every entry takes a byte or more, so a count past the *)
(* data fails on an entry; a negative one is malformed.                    *)
CountFits(count) == count.ok /\ count.value \in 0 .. Len(count.rest)

Counted(count, Entry(_, _)) ==
  IF CountFits(count) THEN Sequenced(Entry, [i \in 1 .. count.value |-> i], count.rest)
  ELSE Failed

---------------------------------------------------------------------------
(* What damage leaves of an encoding: a part of it, more than it, or the   *)
(* encoding with one byte changed.                                         *)
Truncated(data) == {SubSeq(data, 1, n) : n \in 0 .. Len(data) - 1}
Extended(data)  == {Append(data, b) : b \in Byte}
Altered(data)   == {ReplaceAt(data, i, b) : i \in DOMAIN data, b \in Byte}
=============================================================================
