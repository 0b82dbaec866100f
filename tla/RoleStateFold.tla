--------------------------- MODULE RoleStateFold ----------------------------
(***************************************************************************)
(* BuildRoleState as a process: the records of one partition are applied   *)
(* to the builder one at a time.  The comment on BuildRoleState promises   *)
(* that the fold gives the same answer for every order, so Apply takes any *)
(* record that is left, and records of another role share the partition.   *)
(***************************************************************************)
EXTENDS Succession

CONSTANTS Role,       \* the role of the builder
          Partitions  \* the partitions to fold: sets of state records

\* Offsets are unique in a partition, and none is negative.
ASSUME PartitionsAssumption ==
  \A p \in Partitions :
    /\ \A r \in p : /\ r.offset \in Nat /\ r.member \in Member
                    /\ r.kind \in {"registration", "lease"}
                    /\ r.tombstone \in BOOLEAN
    /\ \A r, s \in p : r.offset = s.offset => r = s

VARIABLES records,  \* the partition that is read
          pending,  \* its records that are not applied yet
          builder   \* the RoleStateBuilder

vars == <<records, pending, builder>>

Init ==
  /\ records \in Partitions
  /\ pending = records
  /\ builder = EmptyBuilder

Apply(r) ==
  /\ builder' = ApplyRecord(Role, builder, r)
  /\ pending' = pending \ {r}
  /\ UNCHANGED records

Next == \E r \in pending : Apply(r)

Spec == Init /\ [][Next]_vars

-----------------------------------------------------------------------------
\* The records folded so far.
Applied == records \ pending

NewestIn(S, r) == r \in S /\ \A s \in S : s.offset <= r.offset

\* After any number of records in any order, a member's slot is its newest
\* record applied so far: registered with that record's offset and instant,
\* or gone when that record is a tombstone (RoleStateBuilder.putMember).
RosterIsNewest ==
  \A m \in Member :
    LET slot == builder.members[m] IN
    /\ OfMember(Role, Applied, m) = {} => slot = EmptySlot
    /\ \A r \in Applied : NewestIn(OfMember(Role, Applied, m), r) =>
         /\ slot.offset = r.offset
         /\ slot.registered = ~r.tombstone
         /\ ~r.tombstone => slot.registeredAt = r.at

\* The lease of the role state is the newest lease record applied so far, or
\* none when that record is a tombstone: a lease of a lower offset that is
\* applied after the tombstone revives nothing (RoleStateBuilder.putLease).
LeaseIsNewest ==
  /\ OfLease(Role, Applied) = {} => builder.lease.lease = NoLease
  /\ \A r \in Applied : NewestIn(OfLease(Role, Applied), r) =>
       /\ builder.lease.offset = r.offset
       /\ builder.lease.lease = IF r.tombstone THEN NoLease
                                ELSE LeaseOfRecord(r)

\* The comment on BuildRoleState: the fold gives the same answer for another
\* order.  After every record, in every order, every slot is that of the
\* newest record of its key among those applied, and so is the role state.
FoldIsOrderFree ==
  /\ RosterIsNewest
  /\ LeaseIsNewest
  /\ BuildState(builder) = BuildRoleState(Role, Applied)

\* At the end two registered members never share a rank among the standbys,
\* and the standbys' ranks leave no gap, so each stagger slot has one member
\* (RoleState.RankOf over RoleStateBuilder.Build).
RanksAreASuccession ==
  pending = {} =>
    LET s    == BuildState(builder)
        stby == {e.member : e \in {x \in s.roster : ~IsHolder(s, x.member)}}
    IN  {RankOf(s, m) : m \in stby} = 0 .. Cardinality(stby) - 1
=============================================================================
