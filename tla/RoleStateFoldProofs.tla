------------------------ MODULE RoleStateFoldProofs -------------------------
(***************************************************************************)
(* Proofs about RoleStateFold for every set of partitions, of any size,    *)
(* and every order in which their records are applied.  The builder has a  *)
(* slot per key; FoldInv says which applied record each slot stands for.   *)
(***************************************************************************)
EXTENDS RoleStateFold, FiniteSetTheorems, TLAPS

\* The member slot and the lease slot that a record writes.
SlotOf(r) ==
  IF r.tombstone THEN [offset |-> r.offset, registeredAt |-> 0, registered |-> FALSE]
  ELSE [offset |-> r.offset, registeredAt |-> r.at, registered |-> TRUE]

LeaseSlotOf(r) ==
  [offset |-> r.offset, lease |-> IF r.tombstone THEN NoLease ELSE LeaseOfRecord(r)]

PartitionInv == records \in Partitions /\ pending \subseteq records

BuilderShape ==
  /\ builder = [members |-> builder.members, lease |-> builder.lease]
  /\ builder.members = [m \in Member |-> builder.members[m]]

\* A slot is empty and its key has no applied record, or it is the slot of
\* the newest applied record of its key.  The newest record is there by its
\* witness: nothing here needs a partition to be finite.
MemberSlots ==
  \A m \in Member :
    LET R == OfMember(Role, Applied, m) IN
    \/ R = {} /\ builder.members[m] = EmptySlot
    \/ \E r \in R : NewestIn(R, r) /\ builder.members[m] = SlotOf(r)

LeaseSlot ==
  LET R == OfLease(Role, Applied) IN
  \/ R = {} /\ builder.lease = [offset |-> -1, lease |-> NoLease]
  \/ \E r \in R : NewestIn(R, r) /\ builder.lease = LeaseSlotOf(r)

FoldInv == PartitionInv /\ BuilderShape /\ MemberSlots /\ LeaseSlot

-----------------------------------------------------------------------------
\* The records of a partition that the builder may meet.
LEMMA RecordFacts ==
  ASSUME PartitionInv, NEW r \in records
  PROVE  /\ r.offset \in Nat /\ r.member \in Member
         /\ r.kind \in {"registration", "lease"} /\ r.tombstone \in BOOLEAN
         /\ \A s \in records : r.offset = s.offset => r = s
BY PartitionsAssumption DEF PartitionInv

\* Before the first record every slot is empty (NewRoleStateBuilder).
LEMMA FoldInit == Init => FoldInv
BY DEF Init, FoldInv, PartitionInv, BuilderShape, MemberSlots, LeaseSlot, Applied,
       EmptyBuilder, EmptySlot, OfMember, OfLease

\* Applying one more record keeps every slot that of the newest record of its
\* key: the record replaces a slot of a lower offset, and is dropped by a
\* slot of a higher one (putMember, putLease).
LEMMA FoldStep == FoldInv /\ [Next]_vars => FoldInv'
<1> SUFFICES ASSUME FoldInv, [Next]_vars PROVE FoldInv'
  OBVIOUS
<1>1. CASE UNCHANGED vars
  BY <1>1 DEF vars, FoldInv, PartitionInv, BuilderShape, MemberSlots, LeaseSlot, Applied
<1>2. CASE Next
  <2>1. PICK r \in pending : Apply(r)
    BY <1>2 DEF Next
  <2>2. /\ r \in records /\ records' = records /\ pending' = pending \ {r}
        /\ Applied' = Applied \union {r} /\ Applied \subseteq records /\ r \notin Applied
    BY <2>1 DEF Apply, Applied, FoldInv, PartitionInv
  <2>3. PartitionInv'
    BY <2>2 DEF FoldInv, PartitionInv
  <2>4. /\ r.offset \in Nat /\ r.member \in Member /\ r.tombstone \in BOOLEAN
        /\ r.kind \in {"registration", "lease"}
    BY <2>2, RecordFacts DEF FoldInv
  <2>5. \A s \in Applied : s.offset \in Nat /\ s.offset # r.offset /\ s.tombstone \in BOOLEAN
    BY <2>2, RecordFacts DEF FoldInv
  <2>6. CASE r.role # Role
    <3>1. builder' = builder
      BY <2>1, <2>6 DEF Apply, ApplyRecord
    <3>2. \A m \in Member : OfMember(Role, Applied', m) = OfMember(Role, Applied, m)
      BY <2>2, <2>6 DEF OfMember
    <3>3. OfLease(Role, Applied') = OfLease(Role, Applied)
      BY <2>2, <2>6 DEF OfLease
    <3> QED BY <2>3, <3>1, <3>2, <3>3 DEF FoldInv, BuilderShape, MemberSlots, LeaseSlot
  <2>7. CASE r.role = Role /\ r.kind = "registration"
    <3> DEFINE m0 == r.member
               R0 == OfMember(Role, Applied, m0)
               R1 == OfMember(Role, Applied', m0)
    <3>1. builder' = PutMember(builder, r.offset, m0, SlotOf(r))
      BY <2>1, <2>7 DEF Apply, ApplyRecord, SlotOf
    <3>2. R1 = R0 \union {r} /\ R0 \subseteq Applied
      BY <2>2, <2>7 DEF OfMember
    <3>3. \A m \in Member : m # m0 =>
            OfMember(Role, Applied', m) = OfMember(Role, Applied, m)
      BY <2>2 DEF OfMember
    <3>4. OfLease(Role, Applied') = OfLease(Role, Applied)
      BY <2>2, <2>7 DEF OfLease
    <3>5. BuilderShape' /\ builder'.lease = builder.lease
          /\ \A m \in Member : m # m0 => builder'.members[m] = builder.members[m]
      <4>1. CASE builder.members[m0].offset >= r.offset
        BY <4>1, <3>1 DEF PutMember, FoldInv, BuilderShape
      <4>2. CASE ~(builder.members[m0].offset >= r.offset)
        <5>1. builder' = [builder EXCEPT !.members[m0] = SlotOf(r)]
          BY <3>1, <4>2 DEF PutMember
        <5>2. builder' = [members |-> [builder.members EXCEPT ![m0] = SlotOf(r)],
                          lease |-> builder.lease]
          BY <5>1 DEF FoldInv, BuilderShape
        <5>3. builder'.members = [builder.members EXCEPT ![m0] = SlotOf(r)]
              /\ builder'.lease = builder.lease
          BY <5>2
        <5> QED BY <5>2, <5>3 DEF FoldInv, BuilderShape
      <4> QED BY <4>1, <4>2
    <3>6. \/ R1 = {} /\ builder'.members[m0] = EmptySlot
          \/ \E x \in R1 : NewestIn(R1, x) /\ builder'.members[m0] = SlotOf(x)
      <4>1. CASE R0 = {} /\ builder.members[m0] = EmptySlot
        <5>1. builder' = [builder EXCEPT !.members[m0] = SlotOf(r)]
          BY <3>1, <4>1, <2>4 DEF PutMember, EmptySlot
        <5>2. builder'.members[m0] = SlotOf(r)
          BY <5>1, <2>4 DEF FoldInv, BuilderShape
        <5>3. NewestIn(R1, r)
          BY <3>2, <4>1, <2>4 DEF NewestIn
        <5> QED BY <5>2, <5>3, <3>2
      <4>2. CASE \E x \in R0 : NewestIn(R0, x) /\ builder.members[m0] = SlotOf(x)
        <5>1. PICK x \in R0 : NewestIn(R0, x) /\ builder.members[m0] = SlotOf(x)
          BY <4>2
        <5>2. builder.members[m0].offset = x.offset /\ x.offset \in Nat /\ x.offset # r.offset
          BY <5>1, <3>2, <2>5 DEF SlotOf
        <5>3. \A s \in R0 : s.offset \in Nat /\ s.offset <= x.offset
          BY <5>1, <3>2, <2>5 DEF NewestIn
        <5>4. CASE x.offset > r.offset
          <6>1. builder' = builder
            BY <5>2, <5>4, <3>1, <2>4 DEF PutMember
          <6>2. NewestIn(R1, x)
            BY <5>1, <5>2, <5>3, <5>4, <3>2, <2>4 DEF NewestIn
          <6> QED BY <6>1, <6>2, <5>1, <3>2
        <5>5. CASE x.offset < r.offset
          <6>1. builder' = [builder EXCEPT !.members[m0] = SlotOf(r)]
            BY <5>2, <5>5, <3>1, <2>4 DEF PutMember
          <6>2. builder'.members[m0] = SlotOf(r)
            BY <6>1, <2>4 DEF FoldInv, BuilderShape
          <6>3. NewestIn(R1, r)
            BY <5>3, <5>2, <5>5, <3>2, <2>4 DEF NewestIn
          <6> QED BY <6>2, <6>3, <3>2
        <5> QED BY <5>2, <5>4, <5>5, <2>4
      <4> QED BY <4>1, <4>2, <2>4 DEF FoldInv, MemberSlots
    <3>7. MemberSlots'
      BY <3>3, <3>5, <3>6 DEF FoldInv, MemberSlots
    <3>8. LeaseSlot'
      BY <3>4, <3>5 DEF FoldInv, LeaseSlot
    <3> QED BY <2>3, <3>5, <3>7, <3>8 DEF FoldInv
  <2>8. CASE r.role = Role /\ r.kind = "lease"
    <3> DEFINE R0 == OfLease(Role, Applied)
               R1 == OfLease(Role, Applied')
    <3>1. builder' = PutLease(builder, r.offset, LeaseSlotOf(r).lease)
      BY <2>1, <2>8 DEF Apply, ApplyRecord, LeaseSlotOf
    <3>2. R1 = R0 \union {r} /\ R0 \subseteq Applied
      BY <2>2, <2>8 DEF OfLease
    <3>3. \A m \in Member : OfMember(Role, Applied', m) = OfMember(Role, Applied, m)
      BY <2>2, <2>8 DEF OfMember
    <3>4. ASSUME builder.lease.offset < r.offset, builder.lease.offset \in Int
          PROVE  builder'.lease = LeaseSlotOf(r)
      BY <3>1, <3>4, <2>4 DEF PutLease, LeaseSlotOf, FoldInv, BuilderShape
    <3>5. BuilderShape' /\ builder'.members = builder.members
      BY <3>1 DEF PutLease, FoldInv, BuilderShape
    <3>6. LeaseSlot'
      <4>1. CASE R0 = {} /\ builder.lease = [offset |-> -1, lease |-> NoLease]
        <5>1. builder'.lease = LeaseSlotOf(r)
          BY <4>1, <3>4, <2>4
        <5>2. NewestIn(R1, r)
          BY <3>2, <4>1, <2>4 DEF NewestIn
        <5> QED BY <5>1, <5>2, <3>2 DEF LeaseSlot
      <4>2. CASE \E x \in R0 : NewestIn(R0, x) /\ builder.lease = LeaseSlotOf(x)
        <5>1. PICK x \in R0 : NewestIn(R0, x) /\ builder.lease = LeaseSlotOf(x)
          BY <4>2
        <5>2. builder.lease.offset = x.offset /\ x.offset \in Nat /\ x.offset # r.offset
          BY <5>1, <3>2, <2>5 DEF LeaseSlotOf
        <5>3. \A s \in R0 : s.offset \in Nat /\ s.offset <= x.offset
          BY <5>1, <3>2, <2>5 DEF NewestIn
        <5>4. CASE x.offset > r.offset
          <6>1. builder' = builder
            BY <5>2, <5>4, <3>1, <2>4 DEF PutLease
          <6>2. NewestIn(R1, x)
            BY <5>1, <5>2, <5>3, <5>4, <3>2, <2>4 DEF NewestIn
          <6> QED BY <6>1, <6>2, <5>1, <3>2 DEF LeaseSlot
        <5>5. CASE x.offset < r.offset
          <6>1. builder'.lease = LeaseSlotOf(r)
            BY <5>2, <5>5, <3>4
          <6>2. NewestIn(R1, r)
            BY <5>3, <5>2, <5>5, <3>2, <2>4 DEF NewestIn
          <6> QED BY <6>1, <6>2, <3>2 DEF LeaseSlot
        <5> QED BY <5>2, <5>4, <5>5, <2>4
      <4> QED BY <4>1, <4>2 DEF FoldInv, LeaseSlot
    <3>7. MemberSlots'
      BY <3>3, <3>5 DEF FoldInv, MemberSlots
    <3> QED BY <2>3, <3>5, <3>6, <3>7 DEF FoldInv
  <2> QED BY <2>4, <2>6, <2>7, <2>8
<1> QED BY <1>1, <1>2
-----------------------------------------------------------------------------
\* The inductive invariant: what each slot of the builder stands for.
THEOREM FoldInvariant == Spec => []FoldInv
BY FoldInit, FoldStep, PTL DEF Spec

\* A set of records of one partition has at most one newest record, and
\* Newest finds it.
LEMMA NewestUnique ==
  ASSUME PartitionInv, NEW R \in SUBSET records, NEW r \in R, NewestIn(R, r)
  PROVE  Newest(R) = r /\ \A s \in R : NewestIn(R, s) => s = r
<1>1. \A s \in R : s.offset \in Nat /\ (s.offset = r.offset => s = r)
  BY RecordFacts
<1>2. \A s \in R : NewestIn(R, s) => s = r
  BY <1>1 DEF NewestIn
<1>3. Newest(R) \in R /\ NewestIn(R, Newest(R))
  BY DEF Newest, NewestIn
<1> QED BY <1>2, <1>3

\* Every slot is that of the newest applied record, by witness and so for
\* every newest record (RoleStateBuilder.putMember and putLease).
LEMMA SlotsAreNewest ==
  ASSUME FoldInv
  PROVE  RosterIsNewest /\ LeaseIsNewest
<1>0. PartitionInv /\ Applied \subseteq records
  BY DEF FoldInv, PartitionInv, Applied
<1>1. ASSUME NEW m \in Member
      PROVE  /\ OfMember(Role, Applied, m) = {} => builder.members[m] = EmptySlot
             /\ \A r \in Applied : NewestIn(OfMember(Role, Applied, m), r) =>
                  /\ builder.members[m].offset = r.offset
                  /\ builder.members[m].registered = ~r.tombstone
                  /\ ~r.tombstone => builder.members[m].registeredAt = r.at
  <2> DEFINE R == OfMember(Role, Applied, m)
  <2>1. R \subseteq records
    BY <1>0 DEF OfMember
  <2>2. \/ R = {} /\ builder.members[m] = EmptySlot
        \/ \E x \in R : NewestIn(R, x) /\ builder.members[m] = SlotOf(x)
    BY <1>1 DEF FoldInv, MemberSlots
  <2>3. ASSUME NEW r \in Applied, NewestIn(R, r)
        PROVE  builder.members[m] = SlotOf(r)
    <3>1. r \in R
      BY <2>3 DEF NewestIn
    <3>2. PICK x \in R : NewestIn(R, x) /\ builder.members[m] = SlotOf(x)
      BY <2>2, <3>1
    <3>3. x = r
      BY <2>1, <2>3, <3>1, <3>2, <1>0, NewestUnique
    <3> QED BY <3>2, <3>3
  <2>4. \A r \in Applied : r.tombstone \in BOOLEAN
    BY <1>0, RecordFacts
  <2>5. R = {} => builder.members[m] = EmptySlot
    BY <2>2
  <2>6. ASSUME NEW r \in Applied
        PROVE  /\ SlotOf(r).offset = r.offset /\ SlotOf(r).registered = ~r.tombstone
               /\ ~r.tombstone => SlotOf(r).registeredAt = r.at
    <3>1. CASE r.tombstone
      BY <3>1, <2>4 DEF SlotOf
    <3>2. CASE ~r.tombstone
      BY <3>2, <2>4 DEF SlotOf
    <3> QED BY <3>1, <3>2
  <2> QED BY <2>3, <2>5, <2>6
<1>2. LeaseIsNewest
  <2> DEFINE R == OfLease(Role, Applied)
  <2>1. R \subseteq records
    BY <1>0 DEF OfLease
  <2>2. \/ R = {} /\ builder.lease = [offset |-> -1, lease |-> NoLease]
        \/ \E x \in R : NewestIn(R, x) /\ builder.lease = LeaseSlotOf(x)
    BY DEF FoldInv, LeaseSlot
  <2>3. ASSUME NEW r \in Applied, NewestIn(R, r)
        PROVE  builder.lease = LeaseSlotOf(r)
    <3>1. r \in R
      BY <2>3 DEF NewestIn
    <3>2. PICK x \in R : NewestIn(R, x) /\ builder.lease = LeaseSlotOf(x)
      BY <2>2, <3>1
    <3>3. x = r
      BY <2>1, <2>3, <3>1, <3>2, <1>0, NewestUnique
    <3> QED BY <3>2, <3>3
  <2>5. R = {} => builder.lease.lease = NoLease
    BY <2>2
  <2>6. \A r : /\ LeaseSlotOf(r).offset = r.offset
              /\ LeaseSlotOf(r).lease = IF r.tombstone THEN NoLease ELSE LeaseOfRecord(r)
    BY DEF LeaseSlotOf
  <2> QED BY <2>3, <2>5, <2>6 DEF LeaseIsNewest
<1> QED BY <1>1, <1>2 DEF RosterIsNewest

\* The role state that Build returns is the one the newest records determine.
LEMMA BuildIsNewest ==
  ASSUME FoldInv
  PROVE  BuildState(builder) = BuildRoleState(Role, Applied)
<1>0. PartitionInv /\ Applied \subseteq records
  BY DEF FoldInv, PartitionInv, Applied
<1> DEFINE R(m) == OfMember(Role, Applied, m)
           L == OfLease(Role, Applied)
           slot(m) == builder.members[m]
           live == {m \in Member : R(m) # {} /\ ~Newest(R(m)).tombstone}
<1>1. ASSUME NEW m \in Member
      PROVE  /\ slot(m).registered <=> R(m) # {} /\ ~Newest(R(m)).tombstone
             /\ slot(m).registered => /\ slot(m).offset = Newest(R(m)).offset
                                      /\ slot(m).registeredAt = Newest(R(m)).at
  <2>1. CASE R(m) = {} /\ slot(m) = EmptySlot
    BY <2>1 DEF EmptySlot
  <2>2. CASE \E x \in R(m) : NewestIn(R(m), x) /\ slot(m) = SlotOf(x)
    <3>1. PICK x \in R(m) : NewestIn(R(m), x) /\ slot(m) = SlotOf(x)
      BY <2>2
    <3>2. R(m) \subseteq records
      BY <1>0 DEF OfMember
    <3>3. Newest(R(m)) = x
      BY <1>0, <3>1, <3>2, NewestUnique
    <3>4. x.tombstone \in BOOLEAN
      BY <1>0, <3>1, <3>2, RecordFacts
    <3> QED BY <3>1, <3>3, <3>4 DEF SlotOf
  <2> QED BY <2>1, <2>2, <1>1 DEF FoldInv, MemberSlots
<1>2. builder.lease.lease = IF L = {} THEN NoLease
                            ELSE IF Newest(L).tombstone THEN NoLease
                            ELSE LeaseOfRecord(Newest(L))
  <2>1. CASE L = {} /\ builder.lease = [offset |-> -1, lease |-> NoLease]
    BY <2>1
  <2>2. CASE \E x \in L : NewestIn(L, x) /\ builder.lease = LeaseSlotOf(x)
    <3>1. PICK x \in L : NewestIn(L, x) /\ builder.lease = LeaseSlotOf(x)
      BY <2>2
    <3>2. L \subseteq records
      BY <1>0 DEF OfLease
    <3>3. Newest(L) = x
      BY <1>0, <3>1, <3>2, NewestUnique
    <3> QED BY <3>1, <3>3 DEF LeaseSlotOf
  <2> QED BY <2>1, <2>2 DEF FoldInv, LeaseSlot
<1>3. {m \in Member : slot(m).registered} = live
  BY <1>1
<1>4. \A m \in live : /\ slot(m).offset = Newest(R(m)).offset
                      /\ slot(m).registeredAt = Newest(R(m)).at
  BY <1>1
<1>5. {[member |-> m, offset |-> slot(m).offset, registeredAt |-> slot(m).registeredAt] :
         m \in {x \in Member : slot(x).registered}}
      = {[member |-> m, offset |-> Newest(R(m)).offset,
          registeredAt |-> Newest(R(m)).at] : m \in live}
  BY <1>3, <1>4
<1> QED BY <1>2, <1>5 DEF BuildState, BuildRoleState

\* The comment on BuildRoleState: the fold gives the same answer for another
\* order.  For every partition and after any number of its records in any
\* order, every slot and the role state are those of the newest records.
THEOREM OrderFree == Spec => []FoldIsOrderFree
<1>1. FoldInv => FoldIsOrderFree
  BY SlotsAreNewest, BuildIsNewest DEF FoldIsOrderFree
<1> QED BY <1>1, FoldInvariant, PTL
-----------------------------------------------------------------------------
(***************************************************************************)
(* The ranks.  The rank of an entry counts the entries before it; over     *)
(* distinct offsets that count is an injection into 0 .. n-1, and so it is *)
(* onto.                                                                   *)
(***************************************************************************)
\* The entries of a roster that come before an entry.
Before(E, e) == {x \in E : x.offset < e.offset}

\* Counting the entries before each one gives every number below the number
\* of entries, once (RoleState.RankOf, an index in the sorted roster).
LEMMA CountsFill ==
  ASSUME NEW E, IsFiniteSet(E), \A e \in E : e.offset \in Int,
         \A e, f \in E : e.offset = f.offset => e = f
  PROVE  {Cardinality(Before(E, e)) : e \in E} = 0 .. Cardinality(E) - 1
<1> DEFINE n == Cardinality(E)
           rank == [e \in E |-> Cardinality(Before(E, e))]
<1>1. n \in Nat
  BY FS_CardinalityType
<1>2. ASSUME NEW e \in E
      PROVE  IsFiniteSet(Before(E, e)) /\ rank[e] \in 0 .. n - 1
  <2>1. IsFiniteSet(E \ {e}) /\ Cardinality(E \ {e}) = n - 1
    BY FS_RemoveElement
  <2>2. Before(E, e) \in SUBSET (E \ {e})
    BY DEF Before
  <2>3. IsFiniteSet(Before(E, e)) /\ Cardinality(Before(E, e)) <= n - 1
    BY <2>1, <2>2, FS_Subset
  <2>4. Cardinality(Before(E, e)) \in Nat
    BY <2>3, FS_CardinalityType
  <2> QED BY <2>3, <2>4, <1>1
<1>3. ASSUME NEW e \in E, NEW f \in E, e.offset < f.offset
      PROVE  rank[e] < rank[f]
  <2>1. Before(E, e) \in SUBSET Before(E, f)
    BY <1>3 DEF Before
  <2>2. e \in Before(E, f) /\ e \notin Before(E, e)
    BY <1>3 DEF Before
  <2>3. /\ Cardinality(Before(E, e)) <= Cardinality(Before(E, f))
        /\ Cardinality(Before(E, f)) # Cardinality(Before(E, e))
    BY <2>1, <2>2, <1>2, FS_Subset
  <2>4. Cardinality(Before(E, e)) \in Nat /\ Cardinality(Before(E, f)) \in Nat
    BY <1>2, FS_CardinalityType
  <2> QED BY <2>3, <2>4
<1>4. rank \in Injection(E, 0 .. n - 1)
  <2>1. rank \in [E -> 0 .. n - 1]
    BY <1>2
  <2>2. ASSUME NEW e \in E, NEW f \in E, rank[e] = rank[f]
        PROVE  e = f
    <3>1. rank[e] \in Int /\ rank[f] \in Int
      BY <1>2, <1>1
    <3>2. ~(e.offset < f.offset) /\ ~(f.offset < e.offset)
      BY <2>2, <3>1, <1>3
    <3> QED BY <3>2
  <2> QED BY <2>1, <2>2 DEF Injection, IsInjective
<1>5. IsFiniteSet(0 .. n - 1) /\ Cardinality(0 .. n - 1) = n
  BY <1>1, FS_Interval
<1>6. rank \in Surjection(E, 0 .. n - 1)
  BY <1>4, <1>5, FS_Injection
<1>7. \A k \in 0 .. n - 1 : \E e \in E : rank[e] = k
  BY <1>6 DEF Surjection
<1> QED BY <1>2, <1>7

\* A builder whose slots come from records has one entry per member, and no
\* two entries with the same offset.
LEMMA RosterFacts ==
  ASSUME FoldInv, NEW e \in BuildState(builder).roster, NEW f \in BuildState(builder).roster
  PROVE  /\ e.offset \in Nat /\ e.member \in Member
         /\ e.offset = f.offset => e = f
         /\ e.member = f.member => e = f
<1>0. PartitionInv /\ Applied \subseteq records
  BY DEF FoldInv, PartitionInv, Applied
<1>1. ASSUME NEW m \in Member, builder.members[m].registered
      PROVE  \E r \in OfMember(Role, Applied, m) : builder.members[m].offset = r.offset
  <2>1. builder.members[m] # EmptySlot
    BY <1>1 DEF EmptySlot
  <2>2. PICK r \in OfMember(Role, Applied, m) : builder.members[m] = SlotOf(r)
    BY <1>1, <2>1 DEF FoldInv, MemberSlots
  <2> QED BY <2>2 DEF SlotOf
<1>2. PICK m \in Member : /\ builder.members[m].registered
                          /\ e = [member |-> m, offset |-> builder.members[m].offset,
                                  registeredAt |-> builder.members[m].registeredAt]
  BY DEF BuildState
<1>3. PICK k \in Member : /\ builder.members[k].registered
                          /\ f = [member |-> k, offset |-> builder.members[k].offset,
                                  registeredAt |-> builder.members[k].registeredAt]
  BY DEF BuildState
<1>4. PICK r \in OfMember(Role, Applied, m) : builder.members[m].offset = r.offset
  BY <1>1, <1>2
<1>5. PICK s \in OfMember(Role, Applied, k) : builder.members[k].offset = s.offset
  BY <1>1, <1>3
<1>6. r \in records /\ s \in records /\ r.member = m /\ s.member = k
  BY <1>0, <1>4, <1>5 DEF OfMember
<1>7. r.offset \in Nat /\ (r.offset = s.offset => r = s)
  BY <1>0, <1>6, RecordFacts
<1>8. e.offset = r.offset /\ f.offset = s.offset /\ e.member = m /\ f.member = k
  BY <1>2, <1>3, <1>4, <1>5
<1>9. m = k => e = f
  BY <1>2, <1>3
<1> QED BY <1>6, <1>7, <1>8, <1>9

\* No two standbys of a role state share a rank and no rank is left out,
\* whatever the partition and after any prefix of any order of its records.
LEMMA RanksFill ==
  ASSUME FoldInv
  PROVE  LET s    == BuildState(builder)
             stby == {e.member : e \in {x \in s.roster : ~IsHolder(s, x.member)}}
         IN  {RankOf(s, m) : m \in stby} = 0 .. Cardinality(stby) - 1
<1> DEFINE s    == BuildState(builder)
           E    == {x \in s.roster : ~IsHolder(s, x.member)}
           stby == {e.member : e \in E}
<1>1. \A e, f \in s.roster : /\ e.offset \in Nat /\ e.member \in Member
                             /\ e.offset = f.offset => e = f
                             /\ e.member = f.member => e = f
  BY RosterFacts
<1> DEFINE name == [e \in E |-> e.member]
<1>2. stby \in SUBSET Member
  BY <1>1
<1>3. IsFiniteSet(stby)
  BY <1>2, MemberAssumption, FS_Subset
<1>4. name \in Injection(E, stby) /\ name \in Surjection(E, stby)
  <2>1. name \in [E -> stby]
    OBVIOUS
  <2>2. \A e, f \in E : name[e] = name[f] => e = f
    BY <1>1
  <2>3. \A m \in stby : \E e \in E : name[e] = m
    OBVIOUS
  <2> QED BY <2>1, <2>2, <2>3 DEF Injection, IsInjective, Surjection
<1>5. IsFiniteSet(E) /\ Cardinality(E) = Cardinality(stby)
  BY <1>3, <1>4, FS_Injection
<1>6. {Cardinality(Before(E, e)) : e \in E} = 0 .. Cardinality(E) - 1
  <2>1. \A e \in E : e.offset \in Int
    BY <1>1
  <2>2. \A e, f \in E : e.offset = f.offset => e = f
    BY <1>1
  <2> HIDE DEF E
  <2> QED BY <2>1, <2>2, <1>5, CountsFill
<1>7. ASSUME NEW e \in E
      PROVE  RankOf(s, e.member) = Cardinality(Before(E, e))
  <2>1. Entry(s, e.member) \in s.roster /\ Entry(s, e.member).member = e.member
    BY DEF Entry
  <2>2. Entry(s, e.member) = e
    BY <2>1, <1>1
  <2>3. {x \in s.roster : /\ ~IsHolder(s, x.member)
                          /\ x.offset < Entry(s, e.member).offset} = Before(E, e)
    BY <2>2 DEF Before
  <2>4. ~IsHolder(s, e.member)
    OBVIOUS
  <2> QED BY <2>3, <2>4 DEF RankOf
<1>8. {RankOf(s, m) : m \in stby} = {Cardinality(Before(E, e)) : e \in E}
  <2>1. ASSUME NEW v \in {RankOf(s, m) : m \in stby}
        PROVE  v \in {Cardinality(Before(E, e)) : e \in E}
    <3>1. PICK e \in E : v = RankOf(s, e.member)
      BY <2>1
    <3> QED BY <3>1, <1>7
  <2>2. ASSUME NEW v \in {Cardinality(Before(E, e)) : e \in E}
        PROVE  v \in {RankOf(s, m) : m \in stby}
    <3>1. PICK e \in E : v = Cardinality(Before(E, e))
      BY <2>2
    <3>2. v = RankOf(s, e.member) /\ e.member \in stby
      BY <3>1, <1>7
    <3> QED BY <3>2
  <2> QED BY <2>1, <2>2
<1> QED BY <1>5, <1>6, <1>8

\* Every stagger slot of the succession has exactly one standby: the ranks of
\* the standbys are 0 .. n-1 (RoleState.RankOf over RoleStateBuilder.Build).
THEOREM OneMemberPerRank == Spec => []RanksAreASuccession
<1>1. FoldInv => RanksAreASuccession
  BY RanksFill DEF RanksAreASuccession
<1> QED BY <1>1, FoldInvariant, PTL
=============================================================================
