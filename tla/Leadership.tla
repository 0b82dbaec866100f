----------------------------- MODULE Leadership -----------------------------
(***************************************************************************)
(* One role of the coordination package: the members that compete for it   *)
(* (AcquireLeadership), the handle of the member that won (Leadership with *)
(* its renewLoop, Renew and Resign), and the cluster behind Transport: the *)
(* transaction coordinator that mints the token and the partition that     *)
(* holds the records of the role.                                          *)
(*                                                                         *)
(* Per member there are four writers of the lease key, each a goroutine:   *)
(*   acquire  the first lease record, written by challenge                 *)
(*   loop     the renewal of renewLoop                                     *)
(*   renew    a renewal that the caller drives                             *)
(*   resign   the tombstone of Resign                                      *)
(* WriteLease is a transaction (begin, produce, commit) under the mutex of *)
(* the producer that minted the token, so a write is open in the log       *)
(* between its two steps, and another member may mint in between.          *)
(*                                                                         *)
(* Faults: a call that fails before or after it took effect (MaxFaults), a *)
(* process that stops or an acquisition whose context ends (MaxStops).     *)
(* Each member reads its own clock, now + Skew[m].                         *)
(***************************************************************************)
EXTENDS Succession, Sequences

CONSTANTS Skew,          \* Skew[m]: offset of the wall clock of member m
          PollInterval,  \* pause between two reads, and the renewal retry
          Role,          \* the role
          CallerCalls,   \* what callers do with a handle: renew, resign
          StopKinds,     \* how a competitor stops: crash, cancel
          MaxNow,        \* bound: the last instant of the cluster clock
          StartBy,       \* bound: the last instant a caller starts to compete
          MaxLog,        \* bound: records in the partition
          MaxMints,      \* bound: tokens that are minted
          MaxFaults,     \* bound: calls that fail for no fence
          MaxStops,      \* bound: crashes and cancelled acquisitions
          StopBy         \* bound: the last instant of such a stop

ASSUME LeadershipAssumption ==
  /\ Skew \in [Member -> Int]
  /\ PollInterval \in Nat \ {0}
  /\ CallerCalls \subseteq {"renew", "resign"}
  /\ StopKinds \subseteq {"crash", "cancel"}
  /\ {MaxNow, StartBy, MaxLog, MaxMints, MaxFaults, MaxStops, StopBy} \subseteq Nat

VARIABLES
  now,         \* the cluster clock
  coord,       \* the token the coordinator holds for the role
  log,         \* the partition of the role; the offset is the index
  pc,          \* pc[m]: where the process of m is
  registered,  \* registered[m]: the flag of AcquireLeadership
  seen,        \* seen[m]: the last stable offset of a read, until evaluated
  wake,        \* wake[m]: when the pause of the acquire loop ends
  token,       \* token[m]: the token m minted last, NoEpoch without one
  held,        \* held[m]: "none", "live", or why the handle of m ended
  lease,       \* lease[m]: grant instant of the handle's lease
  writer,      \* writer[m][w]: the state of each lease writer of m
  timing,      \* timing[m]: grant instant of the lease the loop times by
  faults,      \* number of calls that failed
  stops,       \* number of crashes and cancelled acquisitions
  bornAt       \* history: length of the log when m began to acquire

clusterVars == <<coord, log>>
acquireVars == <<pc, registered, seen, wake, bornAt>>
handleVars  == <<token, held, lease, writer, timing>>
boundVars   == <<faults, stops>>
vars == <<now, clusterVars, acquireVars, handleVars, boundVars>>

Writers == {"acquire", "loop", "renew", "resign"}

\* off        no call in progress          granted  value built, not sent
\* produced   the record is in the log     acked    committed, before l.lease
\* top, sleep, failed, retry               the rest of renewLoop
\* checked    Resign read Err(), before end()
\* done       Resign cleared the lease
WriterPcs == {"off", "granted", "produced", "acked", "top", "sleep", "failed",
              "retry", "checked", "done"}

WriterState == [pc : WriterPcs, at : Int]

Off == [pc |-> "off", at |-> 0]
AllOff == [w \in Writers |-> Off]

LocalNow(m) == now + Skew[m]

-----------------------------------------------------------------------------
(***************************************************************************)
(* The partition.  A registration is committed when it is appended; a      *)
(* lease record is open until its transaction ends.                        *)
(***************************************************************************)
LogRecord == [kind : {"registration", "lease"}, member : Member,
              tombstone : BOOLEAN, at : Int, deadline : Int, token : Token,
              status : {"open", "committed", "aborted"}]

RegistrationRecord(m) ==
  [kind |-> "registration", member |-> m, tombstone |-> FALSE,
   at |-> LocalNow(m), deadline |-> 0, token |-> NoEpoch,
   status |-> "committed"]

LeaseRecord(m, at, tomb) ==
  [kind |-> "lease", member |-> m, tombstone |-> tomb, at |-> at,
   deadline |-> GrantDeadline(at), token |-> token[m], status |-> "open"]

\* The open transaction ends with this verdict.
EndOpen(l, verdict) ==
  [i \in DOMAIN l |-> IF l[i].status = "open"
                      THEN [l[i] EXCEPT !.status = verdict] ELSE l[i]]

OpenOffsets(l) == {i \in DOMAIN l : l[i].status = "open"}

\* A read of committed records stops at the first open transaction.
LastStableOffset(l) ==
  IF OpenOffsets(l) = {} THEN Len(l)
  ELSE (CHOOSE i \in OpenOffsets(l) : \A j \in OpenOffsets(l) : i <= j) - 1

\* The role state of the committed records among the first n.
VisibleRecords(n) ==
  {[offset |-> i, role |-> Role, kind |-> log[i].kind, member |-> log[i].member,
    tombstone |-> log[i].tombstone, at |-> log[i].at,
    deadline |-> log[i].deadline, token |-> log[i].token] :
      i \in {j \in 1 .. n : log[j].status = "committed"}}

RoleStateAt(n) == BuildRoleState(Role, VisibleRecords(n))

Init ==
  /\ now = 0
  /\ coord = NoEpoch
  /\ log = <<>>
  /\ pc = [m \in Member |-> "idle"]
  /\ registered = [m \in Member |-> FALSE]
  /\ seen = [m \in Member |-> 0]
  /\ wake = [m \in Member |-> 0]
  /\ token = [m \in Member |-> NoEpoch]
  /\ held = [m \in Member |-> "none"]
  /\ lease = [m \in Member |-> 0]
  /\ writer = [m \in Member |-> AllOff]
  /\ timing = [m \in Member |-> 0]
  /\ faults = 0 /\ stops = 0
  /\ bornAt = [m \in Member |-> 0]

-----------------------------------------------------------------------------
(***************************************************************************)
(* AcquireLeadership.                                                      *)
(***************************************************************************)
Quiet(m) == \A w \in Writers : writer[m][w].pc \in {"off", "done"}

\* A caller starts to compete.  It does so again after its handle ended and
\* the calls on that handle returned, and it drops that handle.
StartAcquire(m) ==
  /\ pc[m] = "idle" /\ held[m] # "live" /\ Quiet(m) /\ now <= StartBy
  /\ pc' = [pc EXCEPT ![m] = "read"]
  /\ registered' = [registered EXCEPT ![m] = FALSE]
  /\ bornAt' = [bornAt EXCEPT ![m] = Len(log)]
  /\ held' = [held EXCEPT ![m] = "none"]
  /\ writer' = [writer EXCEPT ![m] = AllOff]
  /\ UNCHANGED <<now, clusterVars, seen, wake, token, lease, timing, boundVars>>

\* A read that asks for uncommitted records.
ReadUncommitted(m) ==
  /\ pc[m] = "read"
  /\ pc' = [pc EXCEPT ![m] = "evaluate"]
  /\ seen' = [seen EXCEPT ![m] = Len(log)]
  /\ UNCHANGED <<now, clusterVars, registered, wake, bornAt, handleVars, boundVars>>

\* A read that takes the offset behind the last record for a record.
ReadPastEnd(m) ==
  /\ pc[m] = "read"
  /\ pc' = [pc EXCEPT ![m] = "evaluate"]
  /\ seen' = [seen EXCEPT ![m] = LastStableOffset(log) + 1]
  /\ UNCHANGED <<now, clusterVars, registered, wake, bornAt, handleVars, boundVars>>

\* ReadPartition of readRoleState, through the last stable offset.
ReadRoleState(m) ==
  /\ pc[m] = "read"
  /\ pc' = [pc EXCEPT ![m] = "evaluate"]
  /\ seen' = [seen EXCEPT ![m] = LastStableOffset(log)]
  /\ UNCHANGED <<now, clusterVars, registered, wake, bornAt, handleVars, boundVars>>

\* The switch of AcquireLeadership: register, pause until the earlier of
\* WaitUntil and one poll interval, or challenge.
Act(m, d) ==
  \/ /\ d.action = "not registered" /\ ~registered[m]
     /\ pc' = [pc EXCEPT ![m] = "register"]
     /\ UNCHANGED wake
  \/ /\ d.action = "not registered" /\ registered[m]
     /\ pc' = [pc EXCEPT ![m] = "pause"]
     /\ wake' = [wake EXCEPT ![m] = LocalNow(m) + PollInterval]
  \/ /\ d.action = "wait"
     /\ pc' = [pc EXCEPT ![m] = "pause"]
     /\ wake' = [wake EXCEPT ![m] = MinOf(d.until, LocalNow(m) + PollInterval)]
  \/ /\ d.action \in {"hold", "challenge"}
     /\ pc' = [pc EXCEPT ![m] = "mint"]
     /\ UNCHANGED wake

\* The fold of what was read, and Evaluate at the member's own clock.
EvaluateState(m) ==
  /\ pc[m] = "evaluate"
  /\ \E state \in {RoleStateAt(seen[m])} :
       \E d \in {Evaluate(state, m, LocalNow(m))} : Act(m, d)
  /\ seen' = [seen EXCEPT ![m] = 0]
  /\ UNCHANGED <<now, clusterVars, registered, bornAt, handleVars, boundVars>>

WakeUp(m) ==
  /\ pc[m] = "pause" /\ LocalNow(m) >= wake[m]
  /\ pc' = [pc EXCEPT ![m] = "read"]
  /\ wake' = [wake EXCEPT ![m] = 0]
  /\ UNCHANGED <<now, clusterVars, registered, seen, bornAt, handleVars, boundVars>>

\* A registration that the acquire loop does not remember.
RegisterForgets(m) ==
  /\ pc[m] = "register" /\ Len(log) < MaxLog
  /\ log' = Append(log, RegistrationRecord(m))
  /\ pc' = [pc EXCEPT ![m] = "read"]
  /\ UNCHANGED <<now, coord, registered, seen, wake, bornAt, handleVars, boundVars>>

\* The registration is appended outside any transaction.
Register(m) ==
  /\ pc[m] = "register" /\ Len(log) < MaxLog
  /\ log' = Append(log, RegistrationRecord(m))
  /\ registered' = [registered EXCEPT ![m] = TRUE]
  /\ pc' = [pc EXCEPT ![m] = "read"]
  /\ UNCHANGED <<now, coord, seen, wake, bornAt, handleVars, boundVars>>

\* A registration that fails ends the acquisition; the record may have
\* reached the partition all the same.
RegisterFails(m) ==
  /\ pc[m] = "register" /\ faults < MaxFaults
  /\ \/ UNCHANGED log
     \/ Len(log) < MaxLog /\ log' = Append(log, RegistrationRecord(m))
  /\ pc' = [pc EXCEPT ![m] = "idle"]
  /\ faults' = faults + 1
  /\ UNCHANGED <<now, coord, registered, seen, wake, bornAt, handleVars, stops>>

\* How many tokens the coordinator has minted.
Mints == IF coord = NoEpoch THEN 0 ELSE coord.pid * (MaxEpoch + 1) + coord.epoch + 1

\* InitProducerId at the coordinator: it ends the open transaction of the
\* previous epoch with an abort, and the new epoch fences that epoch.
MintAtCoordinator ==
  /\ Mints < MaxMints
  /\ coord' = NextToken(coord)
  /\ log' = EndOpen(log, "aborted")

\* An adapter that answers with the epoch it can describe.
AcquireEpochByDescribe(m) ==
  /\ pc[m] = "mint"
  /\ IF coord = NoEpoch THEN MintAtCoordinator ELSE UNCHANGED <<coord, log>>
  /\ token' = [token EXCEPT ![m] = coord']
  /\ writer' = [writer EXCEPT ![m]["acquire"] = [pc |-> "granted", at |-> LocalNow(m)]]
  /\ pc' = [pc EXCEPT ![m] = "write"]
  /\ UNCHANGED <<now, registered, seen, wake, bornAt, held, lease, timing, boundVars>>

\* An adapter whose producer has an epoch and no transactional id: nothing
\* ends the transaction of the epoch before.
AcquireEpochIdempotent(m) ==
  /\ pc[m] = "mint" /\ Mints < MaxMints
  /\ coord' = NextToken(coord)
  /\ token' = [token EXCEPT ![m] = NextToken(coord)]
  /\ writer' = [writer EXCEPT ![m]["acquire"] = [pc |-> "granted", at |-> LocalNow(m)]]
  /\ pc' = [pc EXCEPT ![m] = "write"]
  /\ UNCHANGED <<now, log, registered, seen, wake, bornAt, held, lease, timing, boundVars>>

\* challenge: mint the epoch, then build the first lease.
AcquireEpoch(m) ==
  /\ pc[m] = "mint"
  /\ MintAtCoordinator
  /\ token' = [token EXCEPT ![m] = NextToken(coord)]
  /\ writer' = [writer EXCEPT ![m]["acquire"] = [pc |-> "granted", at |-> LocalNow(m)]]
  /\ pc' = [pc EXCEPT ![m] = "write"]
  /\ UNCHANGED <<now, registered, seen, wake, bornAt, held, lease, timing, boundVars>>

\* AcquireEpoch fails: before the mint, or with its answer lost after it.
AcquireEpochFails(m) ==
  /\ pc[m] = "mint" /\ faults < MaxFaults
  /\ MintAtCoordinator \/ UNCHANGED <<coord, log>>
  /\ pc' = [pc EXCEPT ![m] = "idle"]
  /\ faults' = faults + 1
  /\ UNCHANGED <<now, registered, seen, wake, bornAt, handleVars, stops>>

-----------------------------------------------------------------------------
(***************************************************************************)
(* WriteLease, for every writer.  Settle(m, w, outcome) is what the code   *)
(* does with the answer.                                                   *)
(***************************************************************************)
SetPc(m, w, to) ==
  writer' = [writer EXCEPT ![m][w] =
               [pc |-> to, at |-> IF to \in {"off", "done", "top"} THEN 0 ELSE @.at]]

\* Leadership.end: the first reason stays.
EndReason(m, reason) == IF held[m] = "live" THEN reason ELSE held[m]

\* The producer's mutex: one transaction at a time per token.
ProducerFree(m) == \A w \in Writers : writer[m][w].pc # "produced"

\* end cancels the context of the renewal loop, and of nothing else.
Cancelled(m, w) == w = "loop" /\ held[m] # "live"

\* The broker accepts a write of the current epoch only.
Accepted(m) == token[m] = coord

\* A fence that the renewal takes for a passing failure.
SettleFencedAsFailure(m, w) ==
  /\ SetPc(m, w, IF w = "loop" THEN "top" ELSE "off")
  /\ UNCHANGED <<lease, held>>
  /\ pc' = [pc EXCEPT ![m] = IF w = "acquire" THEN "read" ELSE @]

\* ErrFenced: challenge reads the partition again; Renew ends the
\* leadership; Resign ignores it.
SettleFenced(m, w) ==
  /\ SetPc(m, w, "off")
  /\ UNCHANGED lease
  /\ held' = [held EXCEPT ![m] = IF w \in {"loop", "renew"}
                                 THEN EndReason(m, "fenced") ELSE @]
  /\ pc' = [pc EXCEPT ![m] = IF w = "acquire" THEN "read" ELSE @]

\* Any other error: challenge, a caller's Renew and Resign return it; the
\* loop looks at the deadline, or stops when its context is cancelled.
SettleFailed(m, w) ==
  /\ SetPc(m, w, IF w = "loop" /\ ~Cancelled(m, w) THEN "failed" ELSE "off")
  /\ pc' = [pc EXCEPT ![m] = IF w = "acquire" THEN "idle" ELSE @]
  /\ UNCHANGED <<held, lease>>

WriteUnchanged == UNCHANGED <<now, coord, registered, seen, wake, bornAt, token,
                              timing, stops>>

\* A lease write through the plain producer: no epoch, no transaction.
ProducePlain(m, w) ==
  /\ writer[m][w].pc = "granted" /\ ProducerFree(m) /\ ~Cancelled(m, w)
  /\ Len(log) < MaxLog
  /\ log' = Append(log, [LeaseRecord(m, writer[m][w].at, w = "resign")
                          EXCEPT !.status = "committed"])
  /\ SetPc(m, w, "produced")
  /\ UNCHANGED <<pc, held, lease, faults>>
  /\ WriteUnchanged

\* BeginTransaction and the send of the record.
Produce(m, w) ==
  /\ writer[m][w].pc = "granted" /\ ProducerFree(m) /\ ~Cancelled(m, w)
  /\ Accepted(m) /\ Len(log) < MaxLog
  /\ log' = Append(log, LeaseRecord(m, writer[m][w].at, w = "resign"))
  /\ SetPc(m, w, "produced")
  /\ UNCHANGED <<pc, held, lease, faults>>
  /\ WriteUnchanged

ProduceFenced(m, w) ==
  /\ writer[m][w].pc = "granted" /\ ProducerFree(m) /\ ~Cancelled(m, w)
  /\ ~Accepted(m)
  /\ SettleFenced(m, w)
  /\ UNCHANGED <<log, faults>>
  /\ WriteUnchanged

\* The send fails, or the context of the loop is cancelled by then.  The
\* record may have reached the broker all the same, and the abort that
\* follows may end the transaction or fail as well.
ProduceFails(m, w) ==
  /\ writer[m][w].pc = "granted" /\ ProducerFree(m)
  /\ IF Cancelled(m, w) THEN UNCHANGED faults
     ELSE faults < MaxFaults /\ faults' = faults + 1
  /\ \/ UNCHANGED log
     \/ /\ Accepted(m) /\ Len(log) < MaxLog
        /\ log' = Append(log, LeaseRecord(m, writer[m][w].at, w = "resign"))
     \/ Accepted(m) /\ ~Cancelled(m, w) /\ log' = EndOpen(log, "aborted")
  /\ SettleFailed(m, w)
  /\ WriteUnchanged

\* EndTransaction commits everything the transaction holds.
Commit(m, w) ==
  /\ w # "acquire"
  /\ writer[m][w].pc = "produced" /\ Accepted(m) /\ OpenOffsets(log) # {}
  /\ log' = EndOpen(log, "committed")
  /\ SetPc(m, w, IF w = "resign" THEN "done" ELSE "acked")
  /\ UNCHANGED <<pc, held, lease, faults>>
  /\ WriteUnchanged

\* The first lease is committed: newLeadership builds the live handle with
\* it and starts the loop.
CommitAcquire(m) ==
  /\ writer[m]["acquire"].pc = "produced" /\ Accepted(m) /\ OpenOffsets(log) # {}
  /\ log' = EndOpen(log, "committed")
  /\ pc' = [pc EXCEPT ![m] = "idle"]
  /\ held' = [held EXCEPT ![m] = "live"]
  /\ lease' = [lease EXCEPT ![m] = writer[m]["acquire"].at]
  /\ writer' = [writer EXCEPT ![m]["acquire"] = Off,
                              ![m]["loop"] = [pc |-> "top", at |-> 0]]
  /\ UNCHANGED faults
  /\ WriteUnchanged

CommitFenced(m, w) ==
  /\ writer[m][w].pc = "produced" /\ ~Accepted(m)
  /\ SettleFenced(m, w)
  /\ UNCHANGED <<log, faults>>
  /\ WriteUnchanged

\* The answer of EndTransaction is lost, or the request is: the record is
\* then committed, or the transaction stays open for the next commit of this
\* producer, the next epoch, or the coordinator to end.  A transaction that
\* timed out can only fail.
CommitFails(m, w) ==
  /\ writer[m][w].pc = "produced" /\ Accepted(m)
  /\ IF Cancelled(m, w) \/ OpenOffsets(log) = {} THEN UNCHANGED faults
     ELSE faults < MaxFaults /\ faults' = faults + 1
  /\ log' = EndOpen(log, "committed") \/ UNCHANGED log
  /\ SettleFailed(m, w)
  /\ WriteUnchanged

\* The coordinator aborts a transaction that outlives its timeout, which is
\* the lease duration, and it may advance the epoch when it does.
TimedOut ==
  \E i \in OpenOffsets(log) : ~LiveAt(log[i].deadline, LocalNow(log[i].member))

TransactionTimeout ==
  /\ TimedOut
  /\ \/ MintAtCoordinator
     \/ log' = EndOpen(log, "aborted") /\ UNCHANGED coord
  /\ UNCHANGED <<now, acquireVars, handleVars, faults, stops>>

-----------------------------------------------------------------------------
(***************************************************************************)
(* The handle: renewLoop, Renew and Resign.                                *)
(***************************************************************************)
HandleUnchanged == UNCHANGED <<now, clusterVars, acquireVars, token, boundVars>>

\* The head of renewLoop takes the timing of the handle's lease.
LoopTop(m) ==
  /\ writer[m]["loop"].pc = "top"
  /\ timing' = [timing EXCEPT ![m] = lease[m]]
  /\ SetPc(m, "loop", "sleep")
  /\ UNCHANGED <<held, lease>>
  /\ HandleUnchanged

RenewDue(m) == LocalNow(m) >= RenewAt(timing[m], GrantDeadline(timing[m]))

\* The loop calls Renew, which builds a lease while the handle is live.
LoopRenew(m) ==
  /\ writer[m]["loop"].pc = "sleep" /\ held[m] = "live" /\ RenewDue(m)
  /\ writer' = [writer EXCEPT ![m]["loop"] = [pc |-> "granted", at |-> LocalNow(m)]]
  /\ UNCHANGED <<held, lease, timing>>
  /\ HandleUnchanged

\* A failed renewal that looks at no deadline.
LoopFailedForever(m) ==
  /\ writer[m]["loop"].pc = "failed"
  /\ writer' = [writer EXCEPT ![m]["loop"] =
                  [pc |-> "retry", at |-> LocalNow(m) + PollInterval]]
  /\ UNCHANGED <<held, lease, timing>>
  /\ HandleUnchanged

\* After a failed renewal: the deadline of the timing decides.
LoopFailed(m) ==
  /\ writer[m]["loop"].pc = "failed"
  /\ IF LocalNow(m) >= GrantDeadline(timing[m])
     THEN /\ held' = [held EXCEPT ![m] = EndReason(m, "expired")]
          /\ SetPc(m, "loop", "off")
     ELSE /\ writer' = [writer EXCEPT ![m]["loop"] =
                          [pc |-> "retry", at |-> LocalNow(m) + PollInterval]]
          /\ UNCHANGED held
  /\ UNCHANGED <<lease, timing>>
  /\ HandleUnchanged

LoopRetry(m) ==
  /\ writer[m]["loop"].pc = "retry" /\ LocalNow(m) >= writer[m]["loop"].at
  /\ held[m] = "live"
  /\ SetPc(m, "loop", "top")
  /\ UNCHANGED <<held, lease, timing>>
  /\ HandleUnchanged

\* end cancelled the context: every wait of the loop returns.
LoopStops(m) ==
  /\ writer[m]["loop"].pc \in {"top", "sleep", "retry"} /\ held[m] # "live"
  /\ SetPc(m, "loop", "off")
  /\ UNCHANGED <<held, lease, timing>>
  /\ HandleUnchanged

\* A renewal that succeeded: l.lease = lease under the lock.
RenewAcked(m, w) ==
  /\ writer[m][w].pc = "acked"
  /\ lease' = [lease EXCEPT ![m] = writer[m][w].at]
  /\ SetPc(m, w, IF w = "loop" THEN "top" ELSE "off")
  /\ UNCHANGED <<held, timing>>
  /\ HandleUnchanged

\* A caller renews while Err() is nil.
CallRenew(m) ==
  /\ "renew" \in CallerCalls /\ writer[m]["renew"].pc = "off" /\ held[m] = "live"
  /\ writer' = [writer EXCEPT ![m]["renew"] = [pc |-> "granted", at |-> LocalNow(m)]]
  /\ UNCHANGED <<held, lease, timing>>
  /\ HandleUnchanged

\* Resign reads Err() first, and ends the leadership in a second step.
CallResign(m) ==
  /\ "resign" \in CallerCalls /\ writer[m]["resign"].pc = "off" /\ held[m] = "live"
  /\ writer' = [writer EXCEPT ![m]["resign"] = [pc |-> "checked", at |-> 0]]
  /\ UNCHANGED <<held, lease, timing>>
  /\ HandleUnchanged

\* end(ErrNotHeld), then the tombstone is built.
ResignEnds(m) ==
  /\ writer[m]["resign"].pc = "checked"
  /\ held' = [held EXCEPT ![m] = EndReason(m, "not held")]
  /\ writer' = [writer EXCEPT ![m]["resign"] = [pc |-> "granted", at |-> LocalNow(m)]]
  /\ UNCHANGED <<lease, timing>>
  /\ HandleUnchanged

-----------------------------------------------------------------------------
(***************************************************************************)
(* The environment.                                                        *)
(***************************************************************************)
Tick ==
  /\ now < MaxNow
  /\ now' = now + 1
  /\ UNCHANGED <<clusterVars, acquireVars, handleVars, boundVars>>

\* The process stops.  An open transaction stays open at the broker.
Crash(m) ==
  /\ "crash" \in StopKinds /\ pc[m] # "down" /\ stops < MaxStops /\ now <= StopBy
  /\ pc' = [pc EXCEPT ![m] = "down"]
  /\ token' = [token EXCEPT ![m] = NoEpoch]
  /\ held' = [held EXCEPT ![m] = "none"]
  /\ writer' = [writer EXCEPT ![m] = AllOff]
  /\ registered' = [registered EXCEPT ![m] = FALSE]
  /\ seen' = [seen EXCEPT ![m] = 0]
  /\ wake' = [wake EXCEPT ![m] = 0]
  /\ lease' = [lease EXCEPT ![m] = 0]
  /\ timing' = [timing EXCEPT ![m] = 0]
  /\ stops' = stops + 1
  /\ UNCHANGED <<now, clusterVars, bornAt, faults>>

Restart(m) ==
  /\ pc[m] = "down"
  /\ pc' = [pc EXCEPT ![m] = "idle"]
  /\ UNCHANGED <<now, clusterVars, registered, seen, wake, bornAt, handleVars,
                 boundVars>>

\* The caller's context ends, or the read of the partition fails: the
\* acquisition returns.
CancelAcquire(m) ==
  /\ "cancel" \in StopKinds /\ pc[m] \in {"read", "pause"} /\ stops < MaxStops /\ now <= StopBy
  /\ pc' = [pc EXCEPT ![m] = "idle"]
  /\ stops' = stops + 1
  /\ UNCHANGED <<now, clusterVars, registered, seen, wake, bornAt, handleVars,
                 faults>>

\* The loop of AcquireLeadership.
CompeteStep(m) ==
  \/ ReadRoleState(m) \/ EvaluateState(m) \/ WakeUp(m)
  \/ Register(m) \/ AcquireEpoch(m) \/ CommitAcquire(m)

AcquireStep(m) == StartAcquire(m) \/ CompeteStep(m)

WriteStep(m) ==
  \E w \in Writers :
    Produce(m, w) \/ ProduceFenced(m, w) \/ Commit(m, w) \/ CommitFenced(m, w)
    \/ RenewAcked(m, w)

LoopStep(m) ==
  LoopTop(m) \/ LoopRenew(m) \/ LoopFailed(m) \/ LoopRetry(m) \/ LoopStops(m)

CallerStep(m) == CallRenew(m) \/ CallResign(m) \/ ResignEnds(m)

FaultStep(m) ==
  \/ RegisterFails(m) \/ AcquireEpochFails(m)
  \/ \E w \in Writers : ProduceFails(m, w) \/ CommitFails(m, w)
  \/ Crash(m) \/ Restart(m) \/ CancelAcquire(m)

Next ==
  \/ Tick
  \/ TransactionTimeout
  \/ \E m \in Member : \/ AcquireStep(m) \/ WriteStep(m) \/ LoopStep(m)
                       \/ CallerStep(m) \/ FaultStep(m)

Spec == Init /\ [][Next]_vars

-----------------------------------------------------------------------------
(***************************************************************************)
(* Safety under arbitrary scheduling, clocks and faults.                   *)
(***************************************************************************)
ClusterType == now \in Nat /\ coord \in Token /\ log \in Seq(LogRecord)

AcquireType ==
  /\ pc \in [Member -> {"down", "idle", "read", "evaluate", "register",
                        "pause", "mint", "write"}]
  /\ registered \in [Member -> BOOLEAN]
  /\ seen \in [Member -> Nat] /\ \A m \in Member : seen[m] <= Len(log)
  /\ wake \in [Member -> Int]
  /\ bornAt \in [Member -> Nat]

HandleType ==
  /\ token \in [Member -> Token]
  /\ held \in [Member -> {"none", "live", "fenced", "not held", "expired"}]
  /\ lease \in [Member -> Int] /\ timing \in [Member -> Int]
  /\ writer \in [Member -> [Writers -> WriterState]]

TypeOK ==
  /\ ClusterType /\ AcquireType /\ HandleType
  /\ faults \in Nat /\ stops \in Nat

\* LeadershipStatus.Authoritative of DescribeLeadership.
Authoritative(t) == coord # NoEpoch /\ t = coord

\* A third party that asks the coordinator finds at most one member whose
\* token is authoritative, whatever the clocks, crashes, lost answers and
\* simultaneous challenges were: no token is ever handed to two members.
AtMostOneAuthority ==
  \A m, n \in Member : Authoritative(token[m]) /\ Authoritative(token[n]) => m = n

\* The partition never shows a lease of a deposed member behind a lease of
\* its successor: the tokens of the lease records that are not aborted grow
\* with the offset, across the wrap of the epoch, although a write is open
\* while another member mints.
LeaseTokensGrow ==
  \A i, j \in DOMAIN log :
    /\ i < j /\ log[i].kind = "lease" /\ log[j].kind = "lease"
    /\ log[i].status # "aborted" /\ log[j].status # "aborted"
    => ~Supersedes(log[i].token, log[j].token)

\* The write of a fenced member that was in flight when it lost the role
\* can no longer be committed: every open record carries the token that the
\* coordinator holds now.
OpenWritesAreCurrent ==
  \A i \in DOMAIN log : log[i].status = "open" => log[i].token = coord

\* A lease record authenticates its author: two records of one token name
\* one member, and a member that holds the token of a record is its author.
LeaseProvesAuthor ==
  /\ \A i, j \in DOMAIN log :
       log[i].kind = "lease" /\ log[j].kind = "lease" /\ log[i].token = log[j].token
         => log[i].member = log[j].member
  /\ \A i \in DOMAIN log, m \in Member :
       log[i].kind = "lease" /\ token[m] = log[i].token => log[i].member = m

\* What a member read stays true while it decides: no record below the
\* position of its read is committed, aborted or replaced afterwards, so a
\* decision on a stale read is late and never wrong about the past.
StableReads ==
  [][\A m \in Member : pc[m] = "evaluate" =>
       \A i \in 1 .. seen[m] : log'[i] = log[i]]_vars

\* One acquisition appends its registration at most once, even when an open
\* transaction of the holder keeps the record out of its reads.
RegistersOnce ==
  \A m \in Member : pc[m] \in {"read", "evaluate", "register", "pause", "mint"} =>
    Cardinality({i \in bornAt[m] + 1 .. Len(log) :
                   log[i].kind = "registration" /\ log[i].member = m}) <= 1

-----------------------------------------------------------------------------
(***************************************************************************)
(* The refinement of RoleAuthority: the holder is the member whose token   *)
(* the coordinator holds, the ledger the committed lease records.          *)
(***************************************************************************)
CurrentHolder ==
  IF \E m \in Member : Authoritative(token[m])
  THEN CHOOSE m \in Member : Authoritative(token[m])
  ELSE NoLease

Ledger ==
  {[offset |-> i, member |-> log[i].member, token |-> log[i].token] :
     i \in {j \in DOMAIN log : log[j].kind = "lease" /\ log[j].status = "committed"}}

Authority == INSTANCE RoleAuthority
  WITH current <- coord, holder <- CurrentHolder, ledger <- Ledger, NoMember <- NoLease

\* The members, the handles and the partition implement RoleAuthority: only
\* the member with the newest token ever adds a visible lease record, always
\* behind the records of its predecessors, and a token is never taken back.
ImplementsAuthority == Authority!Spec

-----------------------------------------------------------------------------
(***************************************************************************)
(* Prompt scheduling: the clock moves only while every process waits and   *)
(* no transaction is overdue.  It is the reading under which the timing of *)
(* the leases says anything: a step takes less than one tick.              *)
(***************************************************************************)
Waiting(m) ==
  /\ \/ pc[m] \in {"down", "idle"}
     \/ pc[m] = "pause" /\ LocalNow(m) < wake[m]
  /\ \A w \in Writers :
       \/ writer[m][w].pc \in {"off", "done"}
       \/ writer[m][w].pc = "sleep" /\ held[m] = "live" /\ ~RenewDue(m)
       \/ writer[m][w].pc = "retry" /\ held[m] = "live"
            /\ LocalNow(m) < writer[m][w].at

PromptTick == Tick /\ ~TimedOut /\ \A m \in Member : Waiting(m)

PromptNext ==
  \/ PromptTick
  \/ TransactionTimeout
  \/ \E m \in Member : \/ AcquireStep(m) \/ WriteStep(m) \/ LoopStep(m)
                       \/ CallerStep(m) \/ FaultStep(m)

PromptSpec == Init /\ [][PromptNext]_vars

\* Every call that was made goes on, time passes, and the coordinator ends a
\* transaction that timed out.  No call of the application is assumed.
Fairness ==
  /\ WF_vars(PromptTick) /\ WF_vars(TransactionTimeout)
  /\ \A m \in Member :
       WF_vars(CompeteStep(m) \/ WriteStep(m) \/ LoopStep(m) \/ ResignEnds(m))

FairSpec == PromptSpec /\ Fairness

\* Anti-flap: with no fault and no resignation a holder that keeps its
\* schedule is never deposed, as long as the clocks differ by less than the
\* slack between the renewal and the deadline.  Ranks, staggers and renewals
\* together keep every standby from a challenge.
HealthyHolderKeepsRole ==
  faults = 0 /\ stops = 0 =>
    \A m \in Member : held[m] = "live" => token[m] = coord

\* A holder that cannot renew gives up by itself: its handle is live for less
\* than one retry past the deadline of its last lease.
LiveHandleIsBounded ==
  \A m \in Member :
    held[m] = "live" => LocalNow(m) < GrantDeadline(lease[m]) + PollInterval

\* A member that competes does not wait for ever for a dead holder or a dead
\* member of a better rank: some member leads, or it stopped itself.
CompetitionIsServed ==
  \A m \in Member :
    (pc[m] = "pause" /\ now <= StopBy) ~>
      (pc[m] \in {"down", "idle"} \/ \E n \in Member : held[n] = "live" /\ token[n] = coord)

\* A deposed holder learns it: its handle does not stay live.
DeposedHolderLearns ==
  \A m \in Member :
    (held[m] = "live" /\ token[m] # coord /\ now <= StopBy) ~> (held[m] # "live")
=============================================================================
