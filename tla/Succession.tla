----------------------------- MODULE Succession -----------------------------
(***************************************************************************)
(* The succession rules of coordination/succession.go: the fold of the     *)
(* records of a coordination partition into the state of one role, the     *)
(* rank of a member, and the decision a member takes about the role.       *)
(*                                                                         *)
(* A state record is [offset, role, kind, member, tombstone, at, deadline, *)
(* token]; `at` is the registration instant or the grant instant.  The     *)
(* codec that turns it into bytes (record.go) is abstracted.               *)
(***************************************************************************)
EXTENDS Integers, FiniteSets, FencingToken, Lease

CONSTANTS Member,   \* member ids
          NoLease   \* the nil lease of a role state

LeaseValue == [member : Member, at : Int, deadline : Int, token : Token]

ASSUME MemberAssumption == IsFiniteSet(Member)
ASSUME NoLeaseAssumption == NoLease \notin LeaseValue

(***************************************************************************)
(* RoleStateBuilder.  A slot of offset -1 is an absent map entry; a        *)
(* tombstoned slot stays, so that a record of a lower offset which is      *)
(* applied later revives nothing.                                          *)
(***************************************************************************)
EmptySlot == [offset |-> -1, registeredAt |-> 0, registered |-> FALSE]

EmptyBuilder == [members |-> [m \in Member |-> EmptySlot],
                 lease   |-> [offset |-> -1, lease |-> NoLease]]

\* putMember with a comparison that keeps the record applied last.
PutMemberLast(b, offset, member, slot) == [b EXCEPT !.members[member] = slot]

PutMember(b, offset, member, slot) ==
  IF b.members[member].offset >= offset THEN b
  ELSE [b EXCEPT !.members[member] = slot]

PutLease(b, offset, lease) ==
  IF b.lease.offset >= offset THEN b
  ELSE [b EXCEPT !.lease = [offset |-> offset, lease |-> lease]]

LeaseOfRecord(r) == [member |-> r.member, at |-> r.at,
                     deadline |-> r.deadline, token |-> r.token]

\* RoleStateBuilder.Apply, for a builder of `role`.  A record that does not
\* decode is an error: it changes no slot and ends the read (CancelAcquire in
\* Leadership; RecordCodec says which bytes decode).
ApplyRecord(role, b, r) ==
  IF r.role # role THEN b
  ELSE IF r.kind = "registration"
  THEN PutMember(b, r.offset, r.member,
         IF r.tombstone
         THEN [offset |-> r.offset, registeredAt |-> 0, registered |-> FALSE]
         ELSE [offset |-> r.offset, registeredAt |-> r.at, registered |-> TRUE])
  ELSE PutLease(b, r.offset, IF r.tombstone THEN NoLease ELSE LeaseOfRecord(r))

\* RoleStateBuilder.Build.  The roster is a set: its entries have distinct
\* offsets, and the offset order is the roster order.
BuildState(b) ==
  [roster |-> {[member |-> m, offset |-> b.members[m].offset,
                registeredAt |-> b.members[m].registeredAt] :
                  m \in {x \in Member : b.members[x].registered}},
   lease  |-> b.lease.lease]

(***************************************************************************)
(* What the fold computes, stated without one: per key the record of the   *)
(* highest offset.  RoleStateFold shows that the builder computes this for *)
(* every order of the records.                                             *)
(***************************************************************************)
OfMember(role, S, m) ==
  {r \in S : r.role = role /\ r.kind = "registration" /\ r.member = m}

OfLease(role, S) == {r \in S : r.role = role /\ r.kind = "lease"}

Newest(R) == CHOOSE r \in R : \A s \in R : s.offset <= r.offset

BuildRoleState(role, S) ==
  LET live == {m \in Member : /\ OfMember(role, S, m) # {}
                              /\ ~Newest(OfMember(role, S, m)).tombstone}
      lease == Newest(OfLease(role, S))
  IN  [roster |-> {[member |-> m, offset |-> Newest(OfMember(role, S, m)).offset,
                    registeredAt |-> Newest(OfMember(role, S, m)).at] : m \in live},
       lease  |-> IF OfLease(role, S) = {} THEN NoLease
                  ELSE IF lease.tombstone THEN NoLease ELSE LeaseOfRecord(lease)]

(***************************************************************************)
(* The rank of a member and its decision.                                  *)
(***************************************************************************)
Registered(state, m) == \E e \in state.roster : e.member = m

Entry(state, m) == CHOOSE e \in state.roster : e.member = m

IsHolder(state, m) == state.lease # NoLease /\ state.lease.member = m

\* The index in the whole roster.
RankInRoster(state, m) ==
  IF IsHolder(state, m) THEN 0
  ELSE Cardinality({e \in state.roster : e.offset < Entry(state, m).offset})

\* The index in the roster after the removal of the holder; the holder
\* itself keeps rank 0.
RankOf(state, m) ==
  IF IsHolder(state, m) THEN 0
  ELSE Cardinality({e \in state.roster : /\ ~IsHolder(state, e.member)
                                         /\ e.offset < Entry(state, m).offset})

\* The instant from which a registered member challenges.
ChallengeInstant(state, m) ==
  IF state.lease # NoLease
  THEN ChallengeAt(state.lease.deadline, RankOf(state, m))
  ELSE AddMillis(Entry(state, m).registeredAt, ChallengeDelay(RankOf(state, m)))

\* Evaluate with an anchor that moves with the clock when there is no lease.
EvaluateMovingAnchor(state, m, nowMillis) ==
  IF ~Registered(state, m) THEN [action |-> "not registered", until |-> 0]
  ELSE IF IsHolder(state, m) /\ LiveAt(state.lease.deadline, nowMillis)
  THEN [action |-> "hold", until |-> 0]
  ELSE LET at == IF state.lease # NoLease THEN ChallengeInstant(state, m)
                 ELSE AddMillis(nowMillis, ChallengeDelay(RankOf(state, m)))
       IN  IF nowMillis >= at THEN [action |-> "challenge", until |-> 0]
           ELSE [action |-> "wait", until |-> at]

Evaluate(state, m, nowMillis) ==
  IF ~Registered(state, m) THEN [action |-> "not registered", until |-> 0]
  ELSE IF IsHolder(state, m) /\ LiveAt(state.lease.deadline, nowMillis)
  THEN [action |-> "hold", until |-> 0]
  ELSE IF nowMillis >= ChallengeInstant(state, m)
  THEN [action |-> "challenge", until |-> 0]
  ELSE [action |-> "wait", until |-> ChallengeInstant(state, m)]
=============================================================================
