----------------------------- MODULE WireFormat -----------------------------
(***************************************************************************)
(* The Confluent frames around a record (schema/wireformat.go): a magic    *)
(* byte and a 32-bit schema ID, then for Protobuf a path of message        *)
(* indexes as zigzag varints, then the body.                               *)
(*                                                                         *)
(* A varint byte has a continuation flag and as many payload values as     *)
(* half the radix; a varint fills a word of Word values.                   *)
(***************************************************************************)
EXTENDS Wire

CONSTANT Word

Magic      == 0
headerSize == 5
Half       == Radix \div 2
Int32      == -(Radix ^ 4 \div 2) .. Radix ^ 4 \div 2 - 1

(* A word is wider than an int32. *)
ASSUME WordAssumption == Word \in Nat /\ Word % 2 = 0 /\ Word > Radix ^ 4

Frame(schemaID) == <<Magic>> \o BigEndian(4, schemaID)

Encode(schemaID, body) == Frame(schemaID) \o body

checkHeader(data) == Len(data) >= headerSize /\ data[1] = Magic

Decode(data) ==
  IF checkHeader(data)
  THEN Read([schemaID |-> Signed(SubSeq(data, 2, 5)), body |-> SubSeq(data, 6, Len(data))], <<>>)
  ELSE Failed

---------------------------------------------------------------------------
(* Zigzag varints. *)

ZigZag(value)   == IF value >= 0 THEN 2 * value ELSE -2 * value - 1
UnZigZag(coded) == IF coded % 2 = 0 THEN coded \div 2 ELSE -((coded + 1) \div 2)

appendZigzag(value) ==
  LET groups[coded \in Nat] == IF coded < Half THEN <<coded>>
                               ELSE <<Half + (coded % Half)>> \o groups[coded \div Half]
  IN groups[ZigZag(value)]

(* How many bytes the shift reaches over the word. *)
MaxVarint == CHOOSE n \in 1 .. Word : Half ^ n >= Word /\ Half ^ (n - 1) < Word

readZigzag(data) ==
  LET ends   == {i \in DOMAIN data : data[i] < Half}
      length == Min(ends)
      coded  == FoldRight(LAMBDA b, n : (b % Half) + Half * n, SubSeq(data, 1, length), 0)
  IN IF ends = {} \/ length > MaxVarint THEN Failed
     ELSE Read(UnZigZag(coded % Word), SubSeq(data, length + 1, Len(data)))

---------------------------------------------------------------------------
(* Protobuf frames. *)

(* Defect: every path of one index is written in the short form. *)
EncodeAllShort(schemaID, indexes, body) ==
  Frame(schemaID)
  \o (IF Len(indexes) = 1 THEN <<0>>
      ELSE appendZigzag(Len(indexes))
           \o FlattenSeq([i \in DOMAIN indexes |-> appendZigzag(indexes[i])]))
  \o body

(* The path of the first message has a short form; a path is not empty. *)
EncodeProtobuf(schemaID, indexes, body) ==
  Frame(schemaID)
  \o (IF indexes = <<0>> THEN <<0>>
      ELSE appendZigzag(Len(indexes))
           \o FlattenSeq([i \in DOMAIN indexes |-> appendZigzag(indexes[i])]))
  \o body

DecodeProtobuf(data) ==
  LET header  == Decode(data)
      count   == readZigzag(header.value.body)
      indexes == Counted(count, LAMBDA i, d :
                   LET index == readZigzag(d)
                   IN IF index.ok /\ index.value \in Int32 THEN index ELSE Failed)
      frame(path, rest) ==
        Read([schemaID |-> header.value.schemaID, indexes |-> path, body |-> rest], <<>>)
  IN IF ~header.ok \/ ~count.ok THEN Failed
     ELSE IF count.value = 0 THEN frame(<<0>>, count.rest)
     ELSE IF count.value \in Int32 /\ indexes.ok THEN frame(indexes.value, indexes.rest)
     ELSE Failed

---------------------------------------------------------------------------
SomeBodies == {<<>>, <<0>>, <<Radix - 1>>, <<1, 0, Radix - 1>>}
SomePaths  == {<<0>>, <<1>>, <<0, 0>>, <<Half, 0, Radix>>, <<Radix ^ 4 \div 2 - 1>>,
               <<-(Radix ^ 4 \div 2)>>}

(* A frame gives back its schema ID, its path and its body whatever the    *)
(* bytes of the body; one that ends in its header or its path is refused,  *)
(* and so is an index outside 32 bits.                                     *)
FrameSurvives(id) ==
  /\ \A body \in SomeBodies :
       /\ Decode(Encode(id, body)) = Read([schemaID |-> id, body |-> body], <<>>)
       /\ \A path \in SomePaths :
            DecodeProtobuf(EncodeProtobuf(id, path, body))
            = Read([schemaID |-> id, indexes |-> path, body |-> body], <<>>)
  /\ \A path \in SomePaths : \A data \in Truncated(EncodeProtobuf(id, path, <<>>)) :
       ~DecodeProtobuf(data).ok
  /\ ~DecodeProtobuf(EncodeProtobuf(id, <<Radix ^ 4 \div 2>>, <<>>)).ok

SampleFramesSurvive == \A id \in {0, 1, Radix ^ 4 \div 2 - 1} : FrameSurvives(id)
=============================================================================
