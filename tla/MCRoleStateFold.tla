-------------------------- MODULE MCRoleStateFold ---------------------------
(* Every partition of at most MaxRecords records over two members, with    *)
(* registrations, leases, both tombstones and a record of another role.    *)
EXTENDS RoleStateFold, RecordCodec

CONSTANTS MaxRecords, a, b

MCMember == {a, b}

Shape ==
  {[role |-> Role, kind |-> k, member |-> m, tombstone |-> t] :
     k \in {"registration", "lease"}, m \in Member, t \in BOOLEAN}
  \union {[role |-> "other", kind |-> "lease", member |-> a, tombstone |-> FALSE],
          [role |-> "other", kind |-> "registration", member |-> b, tombstone |-> TRUE]}

\* The record of a shape at an offset; the instant and the token name it.
RecordAt(i, s) ==
  [offset |-> i, role |-> s.role, kind |-> s.kind, member |-> s.member,
   tombstone |-> s.tombstone, at |-> i, deadline |-> i + Duration,
   token |-> [pid |-> i, epoch |-> 0]]

MCPartitions ==
  {{RecordAt(i, f[i]) : i \in DOMAIN f} :
     f \in UNION {[0 .. n - 1 -> Shape] : n \in 0 .. MaxRecords}}

-----------------------------------------------------------------------------
\* The records of a partition as bytes.
NameOf(member)  == IF member = a THEN <<1>> ELSE <<1, 1>>
RoleName(role)  == IF role = Role THEN <<0>> ELSE <<0, 1>>
KindOf(r)       == IF r.kind = "lease" THEN KindLease ELSE KindRegistration

\* Its writer passes the key the role and its own member id.
KeyBytes(r) == EncodeKey([kind |-> KindOf(r), role |-> RoleName(r.role),
                          member |-> NameOf(r.member)])

RegistrationValue(r) == [member |-> NameOf(r.member), registeredAt |-> r.at]
LeaseRecordValue(r)  ==
  [member |-> NameOf(r.member), producerID |-> r.token.pid,
   producerEpoch |-> r.token.epoch, grantedAt |-> r.at, deadline |-> r.deadline]

\* Compaction keeps one record per sequence of key bytes: one lease of a
\* role, whichever member wrote it, and one registration of every member
\* (EncodeKey: "the frozen layout gives a lease no member").
KeysAreSlots ==
  \A r, s \in records :
    KeyBytes(r) = KeyBytes(s) <=>
      /\ r.role = s.role /\ r.kind = s.kind
      /\ r.kind = "registration" => r.member = s.member

ReadAsWritten(r) ==
  ~r.tombstone =>
    IF r.kind = "lease"
    THEN DecodeLease(EncodeLease(LeaseRecordValue(r))) = Read(LeaseRecordValue(r), <<>>)
    ELSE DecodeRegistration(EncodeRegistration(RegistrationValue(r)))
           = Read(RegistrationValue(r), <<>>)

\* The records of a partition have one key for every slot of the role state,
\* and every record that is applied is read as it was written.  Of bytes that
\* a reader accepts no two are the same key or value; bytes that are cut,
\* continued or changed are refused or are another value's own (DecodeLease:
\* a format error "for a truncated buffer, for trailing bytes").
RecordsAreCanonical ==
  [][/\ KeysAreSlots
     /\ \A r \in pending \ pending' : ReadAsWritten(r)
     /\ KeysRoundTrip /\ ValuesRoundTrip]_vars
=============================================================================
