------------------------------- MODULE Lease --------------------------------
(***************************************************************************)
(* The lease policy and the lease clock of coordination/lease.go.  Every   *)
(* instant is an integer on the epoch-millisecond line; a lease carries    *)
(* the instant it was granted and the deadline its writer computed.        *)
(***************************************************************************)
EXTENDS Integers

CONSTANTS Duration,          \* extent of a lease
          RenewInterval,     \* gap between two renewals by the holder
          ChallengeStagger,  \* extra delay of one rank of succession
          MaxMillis,         \* largest instant (math.MaxInt64)
          MaxExtent          \* largest time.Duration (MaxInt64 nanoseconds)

\* NewLeaseConfig refuses every other configuration.
ASSUME LeaseConfigAssumption ==
  /\ Duration \in Nat \ {0} /\ RenewInterval \in Nat \ {0}
  /\ ChallengeStagger \in Nat \ {0} /\ MaxMillis \in Nat /\ MaxExtent \in Nat
  /\ RenewInterval < Duration

MinOf(a, b) == IF a <= b THEN a ELSE b

\* addMillis saturates instead of wrapping.  An extent is a whole number of
\* milliseconds here; the code drops the part of a time.Duration below one.
AddMillis(instant, extent) ==
  IF extent > 0 /\ instant > MaxMillis - extent THEN MaxMillis
                                                ELSE instant + extent

\* The extra delay of a challenger of this rank; it saturates at the largest
\* duration.
ChallengeDelay(rank) ==
  IF rank <= 0 THEN 0
  ELSE IF rank > MaxExtent \div ChallengeStagger THEN MaxExtent
  ELSE rank * ChallengeStagger

\* The deadline that LeaseConfig.Grant writes at nowMillis.
GrantDeadline(nowMillis) == AddMillis(nowMillis, Duration)

LiveAt(deadline, nowMillis) == nowMillis < deadline

\* A renewal at the last instant of the lease.
RenewAtDeadline(grantedAt, deadline) ==
  IF AddMillis(grantedAt, RenewInterval) <= deadline THEN deadline
  ELSE AddMillis(grantedAt, RenewInterval)

\* The grant instant plus the renew interval, never past the deadline.
RenewAt(grantedAt, deadline) ==
  MinOf(AddMillis(grantedAt, RenewInterval), deadline)

ChallengeAt(deadline, rank) == AddMillis(deadline, ChallengeDelay(rank))
=============================================================================
