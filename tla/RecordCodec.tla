---------------------------- MODULE RecordCodec ----------------------------
(***************************************************************************)
(* The records of the coordination state topic as bytes                    *)
(* (coordination/record.go).  The key is a compaction key: the broker      *)
(* keeps the last value of every distinct sequence of bytes.               *)
(***************************************************************************)
EXTENDS Wire

CONSTANTS MaxRoleLen, MaxMemberIDLen

ASSUME NameBoundsAssumption ==
  {MaxRoleLen, MaxMemberIDLen} \subseteq 1 .. Radix ^ 2 \div 2 - 1

recordVersion    == 0
KindRegistration == 0
KindLease        == 1

checkName(name, bound) == name # <<>> /\ Len(name) <= bound

(* utf8.ValidString, of names without sequences of several bytes. *)
ValidString(name) == \A i \in DOMAIN name : name[i] < Radix \div 2

NewFencingToken(producerID, producerEpoch) == producerID >= 0 /\ producerEpoch >= 0

(* Defect: a lease key names the member that writes it. *)
EncodeMember(key) ==
  BigEndian(2, recordVersion) \o BigEndian(2, key.kind)
  \o appendString(key.role) \o appendString(key.member)

EncodeKey(key) ==
  BigEndian(2, recordVersion) \o BigEndian(2, key.kind) \o appendString(key.role)
  \o appendString(IF key.kind = KindRegistration THEN key.member ELSE <<>>)

EncodeRegistration(r) ==
  BigEndian(2, recordVersion) \o appendString(r.member) \o BigEndian(8, r.registeredAt)

EncodeLease(l) ==
  BigEndian(2, recordVersion) \o appendString(l.member) \o BigEndian(8, l.producerID)
  \o BigEndian(2, l.producerEpoch) \o BigEndian(8, l.grantedAt) \o BigEndian(8, l.deadline)

(* What is read in this layout, whole and of a known version. *)
Versioned(layout, data) ==
  LET read == Fields(<<"int16">> \o layout, data)
  IN IF /\ read.ok
        /\ read.rest = <<>>
        /\ read.value[1] = recordVersion
        /\ \A i \in DOMAIN layout :
             layout[i] = "string" => ValidString(read.value[i + 1])
     THEN Read(Tail(read.value), <<>>) ELSE Failed

Key(fields) == [kind |-> fields[1], role |-> fields[2], member |-> fields[3]]

DecodeKey(data) ==
  LET read == Versioned(<<"int16", "string", "string">>, data)
      key  == Key(read.value)
  IN IF /\ read.ok
        /\ key.kind \in {KindRegistration, KindLease}
        /\ checkName(key.role, MaxRoleLen)
        /\ IF key.kind = KindLease THEN key.member = <<>>
           ELSE checkName(key.member, MaxMemberIDLen)
     THEN Read(key, <<>>) ELSE Failed

DecodeRegistration(data) ==
  LET read == Versioned(<<"string", "int64">>, data)
  IN IF read.ok /\ checkName(read.value[1], MaxMemberIDLen)
     THEN Read([member |-> read.value[1], registeredAt |-> read.value[2]], <<>>)
     ELSE Failed

(* Defect: the deadline and the grant are read in the wrong order. *)
DecodeSwapped(data) ==
  LET read == Versioned(<<"string", "int64", "int16", "int64", "int64">>, data)
  IN IF /\ read.ok
        /\ checkName(read.value[1], MaxMemberIDLen)
        /\ NewFencingToken(read.value[2], read.value[3])
     THEN Read([member |-> read.value[1], producerID |-> read.value[2],
                producerEpoch |-> read.value[3], deadline |-> read.value[4],
                grantedAt |-> read.value[5]], <<>>)
     ELSE Failed

DecodeLease(data) ==
  LET read == Versioned(<<"string", "int64", "int16", "int64", "int64">>, data)
  IN IF /\ read.ok
        /\ checkName(read.value[1], MaxMemberIDLen)
        /\ NewFencingToken(read.value[2], read.value[3])
     THEN Read([member |-> read.value[1], producerID |-> read.value[2],
                producerEpoch |-> read.value[3], grantedAt |-> read.value[4],
                deadline |-> read.value[5]], <<>>)
     ELSE Failed

---------------------------------------------------------------------------
(* Samples: names and times of every length and sign. *)

SomeNames(bound) == {<<1>>, <<0>>, [i \in 1 .. bound |-> i % 2]}
SomeTimes        == {-1, 0, 1, Radix ^ 8 \div 2 - 1, -(Radix ^ 8 \div 2)}

SomeKeys ==
  [kind : {KindRegistration}, role : SomeNames(MaxRoleLen), member : SomeNames(MaxMemberIDLen)]
  \union [kind : {KindLease}, role : SomeNames(MaxRoleLen), member : {<<>>}]

SomeRegistrations == [member : SomeNames(MaxMemberIDLen), registeredAt : SomeTimes]

SomeLeases ==
  [member : SomeNames(MaxMemberIDLen), producerID : SomeTimes \cap Nat,
   producerEpoch : {0, Radix ^ 2 \div 2 - 1}, grantedAt : {0, Radix}, deadline : SomeTimes]

(* Every record decodes to itself, no part or extension of its bytes       *)
(* decodes, and bytes that do decode after a change are the encoding of    *)
(* what they decode to.                                                    *)
Canonical(samples, Encode(_), Decode(_)) ==
  \A sample \in samples :
    LET data == Encode(sample)
    IN /\ Decode(data) = Read(sample, <<>>)
       /\ \A d \in Truncated(data) \union Extended(data) : ~Decode(d).ok
       /\ \A d \in Altered(data) : Decode(d).ok => Encode(Decode(d).value) = d

KeysRoundTrip == Canonical(SomeKeys, EncodeKey, DecodeKey)

ValuesRoundTrip ==
  /\ Canonical(SomeRegistrations, EncodeRegistration, DecodeRegistration)
  /\ Canonical(SomeLeases, EncodeLease, DecodeLease)
=============================================================================
