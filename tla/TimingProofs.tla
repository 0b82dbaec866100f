---------------------------- MODULE TimingProofs ----------------------------
(***************************************************************************)
(* Proofs about Leadership under prompt scheduling (PromptSpec), where the *)
(* clock moves only while every process waits: what the times of a lease   *)
(* promise, for every set of members, skew, lease configuration and bound. *)
(***************************************************************************)
EXTENDS LeadershipProofs

\* No clock passes this instant.
ClocksEndBy(instant) == \A m \in Member : MaxNow + Skew[m] <= instant

-----------------------------------------------------------------------------
(***************************************************************************)
(* How long a handle is live.  A lease is written in the tick that it was  *)
(* granted in.  The loop of a live handle runs; it times by a lease that   *)
(* is not newer than the handle's, sleeps at most until the deadline, and  *)
(* retries for less than one interval after it.                            *)
(***************************************************************************)
Sending == {"granted", "produced", "acked"}

Lived(m) ==
  held[m] = "live" =>
    /\ writer[m]["loop"].pc \notin {"off", "checked", "done"}
    /\ lease[m] <= LocalNow(m) /\ LocalNow(m) < GrantDeadline(lease[m]) + PollInterval
    /\ writer[m]["loop"].pc # "top" => timing[m] <= lease[m]
    /\ writer[m]["loop"].pc = "retry" =>
         /\ LocalNow(m) <= writer[m]["loop"].at
         /\ writer[m]["loop"].at < GrantDeadline(timing[m]) + PollInterval

SentAtOnce(m) ==
  \A w \in Writers : writer[m][w].pc \in Sending => writer[m][w].at = LocalNow(m)

TimedInv == now <= MaxNow /\ \A m \in Member : SentAtOnce(m) /\ Lived(m)

\* The step changes no handle but that of m.
HandleOf(m) ==
  \A n \in Member : n # m =>
    /\ held'[n] = held[n] /\ lease'[n] = lease[n] /\ timing'[n] = timing[n]
    /\ writer'[n] = writer[n]

\* A later grant has a later deadline, and no renewal waits for more than the
\* renew interval or past the deadline.
LEMMA DeadlineGrows ==
  ASSUME NEW s \in Int, NEW t \in Int, s <= t
  PROVE  GrantDeadline(s) <= GrantDeadline(t)
BY LeaseConfigAssumption DEF GrantDeadline, AddMillis

\* The renewal of a lease is due before its deadline and within the interval.
LEMMA RenewInTime ==
  ASSUME NEW t \in Int
  PROVE  /\ GrantDeadline(t) \in Int
         /\ RenewAt(t, GrantDeadline(t)) \in Int
         /\ RenewAt(t, GrantDeadline(t)) <= GrantDeadline(t)
         /\ RenewAt(t, GrantDeadline(t)) <= t + RenewInterval
         /\ t <= MaxMillis => t <= GrantDeadline(t)
BY LeaseConfigAssumption DEF RenewAt, GrantDeadline, AddMillis, MinOf

\* The clock of a member, and the instants of its handle.
LEMMA HandleInstants ==
  ASSUME TypeOK, NEW m \in Member
  PROVE  /\ now \in Nat /\ MaxNow \in Nat /\ PollInterval \in Nat \ {0}
         /\ Skew[m] \in Int /\ LocalNow(m) \in Int
         /\ lease[m] \in Int /\ timing[m] \in Int
         /\ \A w \in Writers : writer[m][w].at \in Int
<1>1. HandleType /\ now \in Nat
  BY DEF TypeOK, ClusterType
<1>2. lease[m] \in Int /\ timing[m] \in Int
  <2>1. lease \in [Member -> Int] /\ timing \in [Member -> Int]
    BY <1>1, Zenon DEF HandleType
  <2> QED BY <2>1
<1>3. \A w \in Writers : writer[m][w].at \in Int
  BY <1>1, WriterTyped
<1>4. Skew[m] \in Int /\ MaxNow \in Nat /\ PollInterval \in Nat \ {0}
  BY LeadershipAssumption
<1> QED BY <1>1, <1>2, <1>3, <1>4 DEF LocalNow

\* What an update of one writer does.
LEMMA WriterSet ==
  ASSUME HandleType, NEW m \in Member, NEW w \in Writers, NEW v,
         writer' = [writer EXCEPT ![m][w] = v]
  PROVE  /\ writer'[m][w] = v
         /\ \A u \in Writers : u # w => writer'[m][u] = writer[m][u]
         /\ \A n \in Member : n # m => writer'[n] = writer[n]
<1>1. writer \in [Member -> [Writers -> WriterState]]
  BY Zenon DEF HandleType
<1> QED BY <1>1

\* What a move of one writer does.
LEMMA PcSet ==
  ASSUME HandleType, NEW m \in Member, NEW w \in Writers, NEW to, SetPc(m, w, to)
  PROVE  /\ writer'[m][w].pc = to
         /\ to \notin {"off", "done", "top"} => writer'[m][w].at = writer[m][w].at
         /\ \A u \in Writers : u # w => writer'[m][u] = writer[m][u]
         /\ \A n \in Member : n # m => writer'[n] = writer[n]
<1> DEFINE v == [pc |-> to, at |-> IF to \in {"off", "done", "top"} THEN 0
                                   ELSE writer[m][w].at]
<1>1. writer \in [Member -> [Writers -> WriterState]]
  BY Zenon DEF HandleType
<1>2. writer' = [writer EXCEPT ![m][w] = v]
  BY DEF SetPc
<1>3. v.pc = to /\ (to \notin {"off", "done", "top"} => v.at = writer[m][w].at)
  OBVIOUS
<1> HIDE DEF v
<1> QED BY <1>1, <1>2, <1>3, WriterSet

\* What an update of one handle's state does.
LEMMA HeldSet ==
  ASSUME HandleType, NEW m \in Member, NEW v, held' = [held EXCEPT ![m] = v]
  PROVE  /\ held'[m] = v /\ \A n \in Member : n # m => held'[n] = held[n]
         /\ v = held[m] => held' = held
<1>1. held \in HeldType
  BY Zenon DEF HandleType, HeldType
<1>2. DOMAIN held = Member
  BY <1>1, Zenon DEF HeldType
<1>3. held = [n \in Member |-> held[n]]
  BY <1>1, Zenon DEF HeldType
<1>4. held' = [n \in Member |-> IF n = m THEN v ELSE held[n]]
  BY <1>2
<1> QED BY <1>2, <1>3, <1>4

\* end puts a reason in the place of a live handle.
LEMMA EndReasonEnds ==
  ASSUME HandleType, NEW m \in Member, NEW reason, reason # "live",
         held' = [held EXCEPT ![m] = EndReason(m, reason)]
  PROVE  held'[m] # "live" /\ \A n \in Member : n # m => held'[n] = held[n]
<1>1. EndReason(m, reason) # "live"
  BY DEF EndReason
<1> QED BY <1>1, HeldSet, Zenon

\* A step of one handle, while the clock stands still, keeps TimedInv when it
\* keeps it for that handle.
LEMMA TimedKept ==
  ASSUME TimedInv, UNCHANGED now, NEW m \in Member, HandleOf(m),
         SentAtOnce(m)', Lived(m)'
  PROVE  TimedInv'
BY DEF TimedInv, HandleOf, SentAtOnce, Lived, LocalNow

\* The members, their writers and the pcs.
LEMMA FourWriters ==
  /\ "acquire" \in Writers /\ "loop" \in Writers
  /\ "renew" \in Writers /\ "resign" \in Writers
BY DEF Writers

\* A step of another writer than the loop keeps the times of the handle while
\* the handle's lease stays.
LEMMA LivedKept ==
  ASSUME NEW m \in Member, Lived(m), UNCHANGED now, timing'[m] = timing[m],
         lease'[m] = lease[m], held'[m] = held[m] \/ held'[m] # "live",
         writer'[m]["loop"] = writer[m]["loop"]
  PROVE  Lived(m)'
BY DEF Lived, LocalNow

\* A writer that stops, waits or sends on what it was granted keeps SentAtOnce.
LEMMA SentKept ==
  ASSUME NEW m \in Member, SentAtOnce(m), UNCHANGED now, NEW w \in Writers,
         \A u \in Writers : u # w => writer'[m][u] = writer[m][u],
         writer'[m][w].pc \in Sending => writer'[m][w].at = LocalNow(m)
  PROVE  SentAtOnce(m)'
BY DEF SentAtOnce, LocalNow

-----------------------------------------------------------------------------
(***************************************************************************)
(* The steps.                                                              *)
(***************************************************************************)
\* The clock moves while every writer rests, sleeps before the renewal is due
\* or waits for its retry.
LEMMA TickTimed ==
  ASSUME TypeOK, TimedInv, PromptTick
  PROVE  TimedInv'
<1>1. now' = now + 1 /\ now < MaxNow /\ UNCHANGED handleVars
  BY DEF PromptTick, Tick
<1>2. UNCHANGED <<held, lease, writer, timing>>
  BY <1>1 DEF handleVars
<1>3. now \in Nat /\ MaxNow \in Nat
  BY LeadershipAssumption DEF TypeOK, ClusterType
<1>4. ASSUME NEW m \in Member PROVE SentAtOnce(m)' /\ Lived(m)'
  <2>1. /\ Skew[m] \in Int /\ LocalNow(m) \in Int /\ lease[m] \in Int
        /\ timing[m] \in Int /\ PollInterval \in Nat \ {0}
        /\ \A w \in Writers : writer[m][w].at \in Int
    BY HandleInstants
  <2>2. LocalNow(m)' = LocalNow(m) + 1
    BY <1>1, <1>3, <2>1 DEF LocalNow
  <2>3. \A w \in Writers :
          \/ writer[m][w].pc \in {"off", "done"}
          \/ writer[m][w].pc = "sleep" /\ ~RenewDue(m)
          \/ writer[m][w].pc = "retry" /\ LocalNow(m) < writer[m][w].at
    BY <1>4 DEF PromptTick, Waiting
  <2>4. SentAtOnce(m)'
    BY <1>2, <2>3 DEF SentAtOnce, Sending
  <2>5. ASSUME held[m] = "live" PROVE Lived(m)'
    <3>1. Lived(m)
      BY DEF TimedInv
    <3>2. writer[m]["loop"].pc \in {"sleep", "retry"} /\ timing[m] <= lease[m]
      BY <2>3, <2>5, <3>1, FourWriters DEF Lived
    <3>3. GrantDeadline(timing[m]) <= GrantDeadline(lease[m])
      BY <2>1, <3>2, DeadlineGrows
    <3>4. GrantDeadline(timing[m]) \in Int /\ GrantDeadline(lease[m]) \in Int
      BY <2>1, RenewInTime
    <3>5. CASE writer[m]["loop"].pc = "sleep"
      <4>1. LocalNow(m) < RenewAt(timing[m], GrantDeadline(timing[m]))
        BY <2>1, <2>3, <3>5, FourWriters, RenewInTime DEF RenewDue
      <4>2. LocalNow(m) < GrantDeadline(timing[m])
        BY <2>1, <4>1, RenewInTime
      <4>3. /\ lease[m] <= LocalNow(m) + 1
            /\ LocalNow(m) + 1 < GrantDeadline(lease[m]) + PollInterval
        BY <2>1, <2>5, <3>1, <3>3, <3>4, <4>2 DEF Lived
      <4> QED BY <1>2, <2>2, <3>2, <3>5, <4>3 DEF Lived
    <3>6. CASE writer[m]["loop"].pc = "retry"
      <4>1. LocalNow(m) < writer[m]["loop"].at
        BY <2>3, <3>6, FourWriters
      <4>2. /\ LocalNow(m) + 1 <= writer[m]["loop"].at
            /\ writer[m]["loop"].at < GrantDeadline(timing[m]) + PollInterval
        BY <2>1, <2>5, <3>1, <3>6, <4>1, FourWriters DEF Lived
      <4>3. /\ lease[m] <= LocalNow(m) + 1
            /\ LocalNow(m) + 1 < GrantDeadline(lease[m]) + PollInterval
        BY <2>1, <2>5, <3>1, <3>3, <3>4, <4>2, FourWriters DEF Lived
      <4> QED BY <1>2, <2>2, <3>2, <3>6, <4>2, <4>3 DEF Lived
    <3> QED BY <3>2, <3>5, <3>6
  <2>6. held[m] # "live" => Lived(m)'
    BY <1>2 DEF Lived
  <2> QED BY <2>4, <2>5, <2>6
<1>5. now' <= MaxNow
  BY <1>1, <1>3
<1> QED BY <1>4, <1>5 DEF TimedInv

\* The acquire loop: a new token grants the first lease, and its commit makes
\* the handle live with a lease of this instant.
LEMMA AcquireTimed ==
  ASSUME TypeOK, TimedInv, NEW m \in Member, AcquireStep(m), ClocksEndBy(MaxMillis)
  PROVE  TimedInv'
<1>1. HandleType /\ UNCHANGED now
  BY Zenon DEF TypeOK, AcquireStep, CompeteStep, StartAcquire, ReadRoleState, EvaluateState, WakeUp,
               Register, AcquireEpoch, CommitAcquire, WriteUnchanged
<1>2. /\ held \in HeldType /\ lease \in [Member -> Int]
      /\ writer \in [Member -> [Writers -> WriterState]]
  BY Zenon DEF TypeOK, HandleType, HeldType
<1>3. SentAtOnce(m) /\ Lived(m)
  BY DEF TimedInv
<1>4. CASE ReadRoleState(m) \/ EvaluateState(m) \/ WakeUp(m) \/ Register(m)
  <2>1. UNCHANGED handleVars
    BY <1>4, Zenon DEF ReadRoleState, EvaluateState, WakeUp, Register
  <2> QED BY <1>1, <2>1 DEF handleVars, TimedInv, SentAtOnce, Lived, LocalNow
<1>5. CASE StartAcquire(m)
  <2>1. HandleOf(m) /\ held'[m] = "none" /\ writer'[m] = AllOff
    <3>1. /\ held' = [held EXCEPT ![m] = "none"]
          /\ writer' = [writer EXCEPT ![m] = AllOff] /\ UNCHANGED <<lease, timing>>
      BY <1>5 DEF StartAcquire
    <3>2. writer'[m] = AllOff /\ \A n \in Member : n # m => writer'[n] = writer[n]
      BY <1>2, <3>1
    <3>3. held'[m] = "none" /\ \A n \in Member : n # m => held'[n] = held[n]
      BY <1>1, <3>1, HeldSet
    <3> QED BY <3>1, <3>2, <3>3 DEF HandleOf
  <2>2. SentAtOnce(m)' /\ Lived(m)'
    BY <2>1 DEF SentAtOnce, Lived, Sending, AllOff, Off
  <2> QED BY <1>1, <2>1, <2>2, TimedKept
<1>6. CASE AcquireEpoch(m)
  <2>1. /\ writer' = [writer EXCEPT ![m]["acquire"] = [pc |-> "granted", at |-> LocalNow(m)]]
        /\ UNCHANGED <<held, lease, timing>>
    BY <1>6 DEF AcquireEpoch
  <2>2. /\ writer'[m]["acquire"] = [pc |-> "granted", at |-> LocalNow(m)]
        /\ \A u \in Writers : u # "acquire" => writer'[m][u] = writer[m][u]
        /\ \A n \in Member : n # m => writer'[n] = writer[n]
    BY <1>1, <2>1, WriterSet, FourWriters
  <2>3. HandleOf(m)
    BY <2>1, <2>2 DEF HandleOf
  <2>4. SentAtOnce(m)'
    BY <1>1, <1>3, <2>2, SentKept, FourWriters
  <2>5. Lived(m)'
    BY <1>1, <1>3, <2>1, <2>2, LivedKept, FourWriters
  <2> QED BY <1>1, <2>3, <2>4, <2>5, TimedKept
<1>7. CASE CommitAcquire(m)
  <2>1. /\ held' = [held EXCEPT ![m] = "live"]
        /\ lease' = [lease EXCEPT ![m] = writer[m]["acquire"].at]
        /\ writer' = [writer EXCEPT ![m]["acquire"] = Off,
                                    ![m]["loop"] = [pc |-> "top", at |-> 0]]
        /\ UNCHANGED timing /\ writer[m]["acquire"].pc = "produced"
    BY <1>7 DEF CommitAcquire, WriteUnchanged
  <2>2. HandleOf(m) /\ held'[m] = "live"
    <3>1. \A n \in Member : n # m => writer'[n] = writer[n] /\ lease'[n] = lease[n]
      BY <1>2, <2>1
    <3>2. held'[m] = "live" /\ \A n \in Member : n # m => held'[n] = held[n]
      BY <1>1, <2>1, HeldSet
    <3> QED BY <2>1, <3>1, <3>2 DEF HandleOf
  <2>3. /\ writer'[m]["loop"].pc = "top" /\ writer'[m]["acquire"].pc = "off"
        /\ \A u \in Writers : u \notin {"acquire", "loop"} => writer'[m][u] = writer[m][u]
    BY <1>2, <2>1, FourWriters DEF Off
  <2>4. SentAtOnce(m)'
    BY <1>1, <1>3, <2>3 DEF SentAtOnce, Sending, LocalNow
  <2>5. held'[m] = "live" /\ lease'[m] = LocalNow(m)
    BY <1>2, <1>3, <2>1, <2>2, FourWriters DEF SentAtOnce, Sending
  <2>6. LocalNow(m) \in Int /\ LocalNow(m) <= MaxMillis /\ PollInterval \in Nat \ {0}
    BY HandleInstants, LeaseConfigAssumption DEF ClocksEndBy, TimedInv, LocalNow
  <2>7. LocalNow(m) < GrantDeadline(LocalNow(m)) + PollInterval
    BY <2>6, RenewInTime
  <2>8. LocalNow(m)' = LocalNow(m)
    BY <1>1 DEF LocalNow
  <2>9. Lived(m)'
    BY <2>3, <2>5, <2>6, <2>7, <2>8 DEF Lived
  <2> QED BY <1>1, <2>2, <2>4, <2>9, TimedKept
<1> QED BY <1>4, <1>5, <1>6, <1>7 DEF AcquireStep, CompeteStep

\* A lease write sends what was granted, and settles its answer.
LEMMA WriteTimed ==
  ASSUME TypeOK, TimedInv, NEW m \in Member, NEW w \in Writers,
         \/ Produce(m, w) \/ ProduceFenced(m, w) \/ Commit(m, w)
         \/ CommitFenced(m, w) \/ ProduceFails(m, w) \/ CommitFails(m, w)
  PROVE  TimedInv'
<1>1. /\ HandleType /\ held \in HeldType
      /\ writer \in [Member -> [Writers -> WriterState]]
  BY Zenon DEF TypeOK, HandleType, HeldType
<1>2. WriteUnchanged /\ UNCHANGED lease
  BY Zenon DEF Produce, ProduceFenced, Commit, CommitFenced, ProduceFails, CommitFails,
               SettleFenced, SettleFailed
<1>3. UNCHANGED <<now, timing>>
  BY <1>2 DEF WriteUnchanged
<1>4. writer[m][w].pc \in {"granted", "produced"}
  BY Zenon DEF Produce, ProduceFenced, Commit, CommitFenced, ProduceFails, CommitFails
<1>5. SentAtOnce(m) /\ Lived(m)
  BY DEF TimedInv
<1>6. \/ /\ UNCHANGED held
         /\ \E to \in {"produced", "acked"} : SetPc(m, w, to)
      \/ UNCHANGED held /\ w # "loop" /\ \E to : to \notin Sending /\ SetPc(m, w, to)
      \/ UNCHANGED held /\ w = "loop" /\ held[m] = "live" /\ SetPc(m, w, "failed")
      \/ /\ UNCHANGED held /\ held[m] # "live"
         /\ \E to : to \notin Sending /\ SetPc(m, w, to)
      \/ /\ \E reason : held' = [held EXCEPT ![m] = reason] /\ held'[m] # "live"
         /\ \E to : to \notin Sending /\ SetPc(m, w, to)
  <2>1. CASE Produce(m, w) \/ Commit(m, w)
    BY <2>1 DEF Produce, Commit, Sending
  <2>2. CASE SettleFailed(m, w)
    BY <2>2 DEF SettleFailed, Cancelled, Sending
  <2>3. CASE SettleFenced(m, w)
    <3>1. SetPc(m, w, "off") /\ "off" \notin Sending
      BY <2>3 DEF SettleFenced, Sending
    <3>2. CASE w \in {"loop", "renew"}
      <4>1. held' = [held EXCEPT ![m] = EndReason(m, "fenced")]
        BY <2>3, <3>2 DEF SettleFenced
      <4>2. held'[m] # "live"
        BY <1>1, <4>1, EndReasonEnds, Zenon
      <4> QED BY <3>1, <4>1, <4>2
    <3>3. CASE w \notin {"loop", "renew"}
      <4>1. held' = [held EXCEPT ![m] = held[m]]
        BY <2>3, <3>3 DEF SettleFenced
      <4>2. UNCHANGED held
        BY <1>1, <4>1, HeldSet
      <4> QED BY <3>1, <3>3, <4>2
    <3> QED BY <3>2, <3>3
  <2> QED BY <2>1, <2>2, <2>3, Zenon DEF ProduceFenced, CommitFenced, ProduceFails,
                                         CommitFails
<1>7. PICK to : SetPc(m, w, to)
  BY <1>6, Zenon
<1>8. HandleOf(m)
  <2>1. \A n \in Member : n # m => writer'[n] = writer[n]
    BY <1>1, <1>7, PcSet
  <2>2. \A n \in Member : n # m => held'[n] = held[n]
    BY <1>1, <1>6, HeldSet
  <2> QED BY <1>2, <1>3, <2>1, <2>2 DEF HandleOf
<1>9. /\ writer'[m][w].pc = to
      /\ to \notin {"off", "done", "top"} => writer'[m][w].at = writer[m][w].at
      /\ \A u \in Writers : u # w => writer'[m][u] = writer[m][u]
  BY <1>1, <1>7, PcSet
<1>10. SentAtOnce(m)'
  <2>1. to \in Sending => writer'[m][w].at = LocalNow(m)
    BY <1>4, <1>5, <1>9 DEF SentAtOnce, Sending
  <2> QED BY <1>3, <1>5, <1>9, <2>1, SentKept
<1>11. Lived(m)'
  <2>1. CASE held'[m] # "live"
    BY <2>1 DEF Lived
  <2>2. CASE w # "loop" /\ held'[m] = "live"
    <3>1. held'[m] = held[m]
      BY <1>6, <2>2
    <3> QED BY <1>2, <1>3, <1>5, <1>9, <2>2, <3>1, LivedKept, FourWriters
  <2>3. CASE w = "loop" /\ held'[m] = "live"
    <3>1. held[m] = "live" /\ writer'[m]["loop"].pc \in {"produced", "acked", "failed"}
      <4>1. \/ \E x \in {"produced", "acked", "failed"} : SetPc(m, w, x)
            \/ held'[m] # "live"
        BY <1>6, <2>3
      <4>2. PICK x \in {"produced", "acked", "failed"} : SetPc(m, w, x)
        BY <2>3, <4>1
      <4>3. writer'[m][w].pc = x
        BY <1>1, <4>2, PcSet
      <4>4. held[m] = "live"
        BY <1>6, <2>3
      <4> QED BY <2>3, <4>3, <4>4
    <3>2. timing[m] <= lease[m]
      BY <1>4, <1>5, <2>3, <3>1 DEF Lived
    <3> QED BY <1>2, <1>3, <1>5, <2>3, <3>1, <3>2 DEF Lived, LocalNow
  <2> QED BY <2>1, <2>2, <2>3
<1> QED BY <1>3, <1>8, <1>10, <1>11, TimedKept

\* A renewal that was acknowledged gives the handle a lease of this instant.
LEMMA AckedTimed ==
  ASSUME TypeOK, TimedInv, NEW m \in Member, NEW w \in Writers, RenewAcked(m, w),
         ClocksEndBy(MaxMillis)
  PROVE  TimedInv'
<1>1. HandleType /\ lease \in [Member -> Int]
  BY Zenon DEF TypeOK, HandleType
<1>2. UNCHANGED <<now, held, timing>> /\ writer[m][w].pc = "acked"
  BY DEF RenewAcked, HandleUnchanged
<1>3. lease' = [lease EXCEPT ![m] = writer[m][w].at]
  BY DEF RenewAcked
<1>4. PICK to \in {"top", "off"} : SetPc(m, w, to) /\ (to = "off" => w # "loop")
  BY DEF RenewAcked
<1>5. /\ writer'[m][w].pc = to
      /\ \A u \in Writers : u # w => writer'[m][u] = writer[m][u]
      /\ \A n \in Member : n # m => writer'[n] = writer[n]
  BY <1>1, <1>4, PcSet
<1>6. HandleOf(m)
  BY <1>1, <1>2, <1>3, <1>5 DEF HandleOf
<1>7. SentAtOnce(m) /\ Lived(m)
  BY DEF TimedInv
<1>8. SentAtOnce(m)'
  BY <1>2, <1>5, <1>7, SentKept DEF Sending
<1>9. lease'[m] = LocalNow(m)
  BY <1>1, <1>2, <1>3, <1>7 DEF SentAtOnce, Sending
<1>10. /\ LocalNow(m) \in Int /\ LocalNow(m) <= MaxMillis /\ PollInterval \in Nat \ {0}
       /\ timing[m] \in Int /\ lease[m] \in Int
  BY HandleInstants, LeaseConfigAssumption DEF ClocksEndBy, TimedInv, LocalNow
<1>11. LocalNow(m) < GrantDeadline(LocalNow(m)) + PollInterval
  BY <1>10, RenewInTime
<1>12. LocalNow(m)' = LocalNow(m)
  BY <1>2 DEF LocalNow
<1>13. ASSUME held[m] = "live" PROVE Lived(m)'
  <2>1. writer[m]["loop"].pc # "top" => timing[m] <= LocalNow(m)
    BY <1>7, <1>10, <1>13 DEF Lived
  <2>2. CASE w = "loop"
    BY <1>2, <1>4, <1>5, <1>9, <1>10, <1>11, <1>12, <1>13, <2>2 DEF Lived
  <2>3. CASE w # "loop"
    <3>1. writer'[m]["loop"] = writer[m]["loop"]
      BY <1>5, <2>3, FourWriters
    <3> QED BY <1>2, <1>7, <1>9, <1>10, <1>11, <1>12, <1>13, <2>1, <3>1 DEF Lived
  <2> QED BY <2>2, <2>3
<1>14. Lived(m)'
  BY <1>2, <1>13 DEF Lived
<1> QED BY <1>2, <1>6, <1>8, <1>14, TimedKept

\* The loop takes its timing, sleeps, renews, gives up at the deadline or
\* retries one interval later.
LEMMA LoopTimed ==
  ASSUME TypeOK, TimedInv, NEW m \in Member, LoopStep(m)
  PROVE  TimedInv'
<1>1. HandleType /\ timing \in [Member -> Int]
  BY Zenon DEF TypeOK, HandleType
<1>2. HandleUnchanged /\ UNCHANGED lease
  BY Zenon DEF LoopStep, LoopTop, LoopRenew, LoopFailed, LoopRetry, LoopStops
<1>3. UNCHANGED <<now, lease>>
  BY <1>2 DEF HandleUnchanged
<1>4. SentAtOnce(m) /\ Lived(m)
  BY DEF TimedInv
<1>5. LocalNow(m)' = LocalNow(m)
  BY <1>3 DEF LocalNow
<1>6. /\ LocalNow(m) \in Int /\ PollInterval \in Nat \ {0}
      /\ timing[m] \in Int /\ lease[m] \in Int
      /\ GrantDeadline(timing[m]) \in Int
  BY HandleInstants, RenewInTime
<1>7. CASE LoopTop(m)
  <2>1. /\ timing' = [timing EXCEPT ![m] = lease[m]] /\ SetPc(m, "loop", "sleep")
        /\ UNCHANGED held
    BY <1>7 DEF LoopTop
  <2>2. /\ writer'[m]["loop"].pc = "sleep"
        /\ \A u \in Writers : u # "loop" => writer'[m][u] = writer[m][u]
        /\ \A n \in Member : n # m => writer'[n] = writer[n]
    BY <1>1, <2>1, PcSet, FourWriters
  <2>3. HandleOf(m) /\ timing'[m] = lease[m]
    BY <1>1, <1>3, <2>1, <2>2 DEF HandleOf
  <2>4. SentAtOnce(m)'
    BY <1>3, <1>4, <2>2, SentKept, FourWriters DEF Sending
  <2>5. Lived(m)'
    BY <1>3, <1>4, <1>5, <1>6, <2>1, <2>2, <2>3 DEF Lived
  <2> QED BY <1>3, <2>3, <2>4, <2>5, TimedKept
<1>8. CASE LoopRenew(m)
  <2>1. /\ writer' = [writer EXCEPT ![m]["loop"] = [pc |-> "granted", at |-> LocalNow(m)]]
        /\ UNCHANGED <<held, timing>> /\ writer[m]["loop"].pc = "sleep"
    BY <1>8 DEF LoopRenew
  <2>2. /\ writer'[m]["loop"] = [pc |-> "granted", at |-> LocalNow(m)]
        /\ \A u \in Writers : u # "loop" => writer'[m][u] = writer[m][u]
        /\ \A n \in Member : n # m => writer'[n] = writer[n]
    BY <1>1, <2>1, WriterSet, FourWriters
  <2>3. HandleOf(m)
    BY <1>3, <2>1, <2>2 DEF HandleOf
  <2>4. SentAtOnce(m)'
    BY <1>3, <1>4, <2>2, SentKept, FourWriters
  <2>5. Lived(m)'
    BY <1>3, <1>4, <1>5, <2>1, <2>2 DEF Lived
  <2> QED BY <1>3, <2>3, <2>4, <2>5, TimedKept
<1>9. CASE LoopFailed(m) /\ LocalNow(m) < GrantDeadline(timing[m])
  <2>1. /\ writer' = [writer EXCEPT ![m]["loop"] =
                        [pc |-> "retry", at |-> LocalNow(m) + PollInterval]]
        /\ UNCHANGED <<held, timing>> /\ writer[m]["loop"].pc = "failed"
    BY <1>6, <1>9 DEF LoopFailed
  <2>2. /\ writer'[m]["loop"] = [pc |-> "retry", at |-> LocalNow(m) + PollInterval]
        /\ \A u \in Writers : u # "loop" => writer'[m][u] = writer[m][u]
        /\ \A n \in Member : n # m => writer'[n] = writer[n]
    BY <1>1, <2>1, WriterSet, FourWriters
  <2>3. HandleOf(m)
    BY <1>3, <2>1, <2>2 DEF HandleOf
  <2>4. SentAtOnce(m)'
    BY <1>3, <1>4, <2>2, SentKept, FourWriters DEF Sending
  <2>5. /\ LocalNow(m) <= LocalNow(m) + PollInterval
        /\ LocalNow(m) + PollInterval < GrantDeadline(timing[m]) + PollInterval
    BY <1>6, <1>9
  <2>6. Lived(m)'
    BY <1>3, <1>4, <1>5, <2>1, <2>2, <2>5 DEF Lived
  <2> QED BY <1>3, <2>3, <2>4, <2>6, TimedKept
<1>10. ASSUME \/ LoopFailed(m) /\ ~(LocalNow(m) < GrantDeadline(timing[m]))
              \/ LoopStops(m)
       PROVE  TimedInv'
  <2>1. UNCHANGED timing /\ SetPc(m, "loop", "off")
    BY <1>6, <1>10 DEF LoopFailed, LoopStops
  <2>2. held'[m] # "live" /\ \A n \in Member : n # m => held'[n] = held[n]
    <3>1. CASE LoopStops(m)
      BY <3>1 DEF LoopStops
    <3>2. CASE LoopFailed(m) /\ ~(LocalNow(m) < GrantDeadline(timing[m]))
      <4>1. held' = [held EXCEPT ![m] = EndReason(m, "expired")]
        BY <1>6, <3>2 DEF LoopFailed
      <4> QED BY <1>1, <4>1, EndReasonEnds, Zenon
    <3> QED BY <1>10, <3>1, <3>2
  <2>3. /\ writer'[m]["loop"].pc = "off"
        /\ \A u \in Writers : u # "loop" => writer'[m][u] = writer[m][u]
        /\ \A n \in Member : n # m => writer'[n] = writer[n]
    BY <1>1, <2>1, PcSet, FourWriters
  <2>4. HandleOf(m)
    BY <1>3, <2>1, <2>2, <2>3 DEF HandleOf
  <2>5. SentAtOnce(m)'
    BY <1>3, <1>4, <2>3, SentKept, FourWriters DEF Sending
  <2>6. Lived(m)'
    BY <2>2 DEF Lived
  <2> QED BY <1>3, <2>4, <2>5, <2>6, TimedKept
<1>11. CASE LoopRetry(m)
  <2>1. UNCHANGED <<timing, held>> /\ SetPc(m, "loop", "top")
    BY <1>11 DEF LoopRetry
  <2>2. /\ writer'[m]["loop"].pc = "top"
        /\ \A u \in Writers : u # "loop" => writer'[m][u] = writer[m][u]
        /\ \A n \in Member : n # m => writer'[n] = writer[n]
    BY <1>1, <2>1, PcSet, FourWriters
  <2>3. HandleOf(m)
    BY <1>3, <2>1, <2>2 DEF HandleOf
  <2>4. SentAtOnce(m)'
    BY <1>3, <1>4, <2>2, SentKept, FourWriters DEF Sending
  <2>5. Lived(m)'
    BY <1>3, <1>4, <1>5, <2>1, <2>2 DEF Lived
  <2> QED BY <1>3, <2>3, <2>4, <2>5, TimedKept
<1> QED BY <1>7, <1>8, <1>9, <1>10, <1>11 DEF LoopStep

\* The calls of the application, and a process that stops.
LEMMA CallerTimed ==
  ASSUME TypeOK, TimedInv, NEW m \in Member, CallerStep(m)
  PROVE  TimedInv'
<1>1. HandleType
  BY DEF TypeOK
<1>2. HandleUnchanged /\ UNCHANGED <<lease, timing>>
  BY Zenon DEF CallerStep, CallRenew, CallResign, ResignEnds
<1>3. UNCHANGED <<now, lease, timing>>
  BY <1>2 DEF HandleUnchanged
<1>4. SentAtOnce(m) /\ Lived(m)
  BY DEF TimedInv
<1>5. \/ writer' = [writer EXCEPT ![m]["renew"] = [pc |-> "granted", at |-> LocalNow(m)]]
      \/ writer' = [writer EXCEPT ![m]["resign"] = [pc |-> "granted", at |-> LocalNow(m)]]
      \/ writer' = [writer EXCEPT ![m]["resign"] = [pc |-> "checked", at |-> 0]]
  BY Zenon DEF CallerStep, CallRenew, CallResign, ResignEnds
<1>6. PICK w \in Writers, v \in {[pc |-> "granted", at |-> LocalNow(m)],
                                 [pc |-> "checked", at |-> 0]} :
        w # "loop" /\ writer' = [writer EXCEPT ![m][w] = v]
  BY <1>5, FourWriters
<1>7. /\ writer'[m][w] = v
      /\ \A u \in Writers : u # w => writer'[m][u] = writer[m][u]
      /\ \A n \in Member : n # m => writer'[n] = writer[n]
  BY <1>1, <1>6, WriterSet
<1>8. /\ held'[m] = held[m] \/ held'[m] # "live"
      /\ \A n \in Member : n # m => held'[n] = held[n]
  <2>1. UNCHANGED held \/ held' = [held EXCEPT ![m] = EndReason(m, "not held")]
    BY Zenon DEF CallerStep, CallRenew, CallResign, ResignEnds
  <2>2. "not held" # "live"
    BY Zenon
  <2>3. CASE held' = [held EXCEPT ![m] = EndReason(m, "not held")]
    BY <1>1, <2>2, <2>3, EndReasonEnds, Zenon
  <2> QED BY <2>1, <2>3, Zenon
<1>9. HandleOf(m)
  BY <1>3, <1>7, <1>8 DEF HandleOf
<1>10. v.pc \in Sending => v.at = LocalNow(m)
  BY DEF Sending
<1>11. SentAtOnce(m)'
  BY <1>3, <1>4, <1>7, <1>10, SentKept
<1>12. Lived(m)'
  BY <1>3, <1>4, <1>6, <1>7, <1>8, LivedKept, FourWriters
<1> QED BY <1>3, <1>9, <1>11, <1>12, TimedKept

\* A crash leaves no handle and no writer.
LEMMA CrashTimed ==
  ASSUME TypeOK, TimedInv, NEW m \in Member, Crash(m)
  PROVE  TimedInv'
<1>1. /\ HandleType /\ writer \in [Member -> [Writers -> WriterState]]
      /\ lease \in [Member -> Int] /\ timing \in [Member -> Int]
  BY Zenon DEF TypeOK, HandleType
<1>2. /\ UNCHANGED now /\ held' = [held EXCEPT ![m] = "none"]
      /\ writer' = [writer EXCEPT ![m] = AllOff]
      /\ lease' = [lease EXCEPT ![m] = 0] /\ timing' = [timing EXCEPT ![m] = 0]
  BY DEF Crash
<1>3. held'[m] = "none" /\ \A n \in Member : n # m => held'[n] = held[n]
  BY <1>1, <1>2, HeldSet
<1>4. /\ writer'[m] = AllOff
      /\ \A n \in Member : n # m => writer'[n] = writer[n] /\ lease'[n] = lease[n]
                                    /\ timing'[n] = timing[n]
  BY <1>1, <1>2
<1>5. HandleOf(m)
  BY <1>3, <1>4 DEF HandleOf
<1>6. SentAtOnce(m)' /\ Lived(m)'
  BY <1>3, <1>4 DEF SentAtOnce, Lived, Sending, AllOff, Off
<1> QED BY <1>2, <1>5, <1>6, TimedKept

\* A prompt step is a step.
LEMMA PromptIsNext == [PromptNext]_vars => [Next]_vars
BY DEF PromptNext, PromptTick, Next

\* Every step of the prompt schedule keeps TimedInv.
LEMMA TimedStep ==
  ASSUME TypeOK, TimedInv, [PromptNext]_vars, ClocksEndBy(MaxMillis)
  PROVE  TimedInv'
<1>1. CASE UNCHANGED now /\ UNCHANGED handleVars
  BY <1>1 DEF handleVars, TimedInv, SentAtOnce, Lived, LocalNow
<1>2. CASE UNCHANGED vars
  BY <1>1, <1>2 DEF vars
<1>3. CASE PromptTick
  BY <1>3, TickTimed
<1>4. CASE TransactionTimeout
  BY <1>1, <1>4, Zenon DEF TransactionTimeout
<1>5. ASSUME NEW m \in Member, WriteStep(m) PROVE TimedInv'
  BY <1>5, WriteTimed, AckedTimed DEF WriteStep
<1>6. ASSUME NEW m \in Member, FaultStep(m) PROVE TimedInv'
  <2>1. CASE RegisterFails(m) \/ AcquireEpochFails(m) \/ Restart(m) \/ CancelAcquire(m)
    BY <1>1, <2>1, Zenon DEF RegisterFails, AcquireEpochFails, Restart, CancelAcquire
  <2> QED BY <1>6, <2>1, WriteTimed, CrashTimed DEF FaultStep
<1>7. ASSUME NEW m \in Member, AcquireStep(m) \/ LoopStep(m) \/ CallerStep(m)
      PROVE  TimedInv'
  BY <1>7, AcquireTimed, LoopTimed, CallerTimed
<1> QED BY <1>2, <1>3, <1>4, <1>5, <1>6, <1>7 DEF PromptNext

\* Under prompt scheduling the times of every handle are in order: a lease is
\* written in the tick that it was granted in, and the loop of a live handle
\* (renewLoop) neither sleeps past the deadline nor times by a newer lease than
\* the handle's.
THEOREM PromptInvariant ==
  ASSUME ClocksEndBy(MaxMillis)
  PROVE  PromptSpec => []TimedInv /\ []TypeOK
<1>1. Init => TypeOK /\ TimedInv
  <2>1. Init => TimedInv
    BY LeadershipAssumption DEF Init, TimedInv, SentAtOnce, Lived, Sending, AllOff, Off
  <2> QED BY <2>1, InitTyped
<1>2. TypeOK /\ TimedInv /\ [PromptNext]_vars => TypeOK' /\ TimedInv'
  BY TimedStep, PromptIsNext, StepTyped
<1> QED BY <1>1, <1>2, PTL DEF PromptSpec

\* A holder that cannot renew gives up by itself: its handle is live for less
\* than one retry past the deadline of its last lease, whatever fails and
\* whoever renews (renewLoop: the deadline of the timing decides).
THEOREM BoundedHandle ==
  ASSUME ClocksEndBy(MaxMillis)
  PROVE  PromptSpec => []LiveHandleIsBounded
<1>1. TimedInv => LiveHandleIsBounded
  BY DEF TimedInv, Lived, LiveHandleIsBounded
<1> QED BY <1>1, PromptInvariant, PTL

-----------------------------------------------------------------------------
(***************************************************************************)
(* Who challenges.  Without a fault and without a resignation the first    *)
(* member that registered takes the role in the tick of its registration,  *)
(* and a standby that reads no lease registered in this very tick.  Later  *)
(* every read shows a lease that was granted at most one renew interval    *)
(* ago, which no clock within the slack takes for expired.                 *)
(***************************************************************************)
\* What the anti-flap promise rests on: nobody resigns, the clocks differ by
\* less than the slack of a lease, and they stay away from the last instant.
Calm ==
  /\ "resign" \notin CallerCalls /\ MaxExtent >= 1
  /\ ClocksEndBy(MaxMillis - Duration)
  /\ \A m, n \in Member : Skew[n] - Skew[m] < Duration - RenewInterval

First == log[1].member

\* The committed lease records among the first k.
Leases(k) == {i \in 1 .. k : log[i].kind = "lease" /\ log[i].status = "committed"}

\* A read of the first k records is of this tick, or shows a recent lease.
Current(k) ==
  IF Leases(k) = {}
  THEN \A i \in 1 .. k : log[i].kind = "registration" => log[i].at = LocalNow(log[i].member)
  ELSE \E i \in Leases(k) : log[i].at >= LocalNow(First) - RenewInterval

FirstRegistration(i) ==
  log[i].status = "committed" /\ ~log[i].tombstone /\ (log[i].member = First => i = 1)

LeaseOfFirst(i) ==
  /\ i > 1 /\ log[i].member = First /\ ~log[i].tombstone
  /\ log[i].status \in {"open", "committed"}
  /\ log[i].deadline = GrantDeadline(log[i].at) /\ log[i].at <= LocalNow(First)
  /\ log[i].status = "open" => log[i].at = LocalNow(First)

RecordsKept ==
  \A i \in 1 .. Len(log) : IF log[i].kind = "registration" THEN FirstRegistration(i)
                                                           ELSE LeaseOfFirst(i)

\* Leases are granted in the order of their offsets, and the open one is last.
LeasesOrdered ==
  \A i, j \in 1 .. Len(log) :
    log[i].kind = "lease" /\ log[j].kind = "lease" =>
      /\ i <= j => log[i].at <= log[j].at
      /\ log[i].status = "open" => j <= i

LogInv == RecordsKept /\ LeasesOrdered /\ Current(Len(log))

ReadsInv == \A n \in Member : pc[n] = "evaluate" => Current(seen[n])

Standbys ==
  \A n \in Member : log = <<>> \/ n # First =>
    pc[n] \in {"idle", "read", "evaluate", "register", "pause"} /\ token[n] = NoEpoch

Tokens == IF log = <<>> THEN coord = NoEpoch ELSE token[First] = coord

\* The first member acquires the role,
Entering ==
  /\ pc[First] \in {"read", "evaluate", "mint"} /\ token[First] = NoEpoch
  /\ \A i \in 1 .. Len(log) : log[i].kind = "registration"
  /\ pc[First] = "evaluate" => seen[First] >= 1

\* writes its first lease,
Claiming ==
  /\ pc[First] = "write" /\ held[First] # "live"
  /\ writer[First]["acquire"].pc \in {"granted", "produced"}
  /\ \A w \in Writers \ {"acquire"} : writer[First][w].pc = "off"

\* and keeps it.
Leading ==
  /\ pc[First] = "idle" /\ held[First] = "live"
  /\ writer[First]["acquire"].pc = "off" /\ writer[First]["resign"].pc = "off"
  /\ writer[First]["loop"].pc \in {"top", "sleep", "granted", "produced", "acked"}
  /\ writer[First]["renew"].pc \in {"off", "granted", "produced", "acked"}
  /\ \E i \in Leases(Len(log)) : log[i].at >= lease[First]

FirstWrites ==
  \A w \in Writers :
    /\ writer[First][w].pc = "produced" =>
         /\ OpenOffsets(log) # {}
         /\ \A v \in Writers : writer[First][v].pc = "produced" => v = w
    /\ writer[First][w].pc = "acked" =>
         \E i \in Leases(Len(log)) : log[i].at >= writer[First][w].at

\* An open lease is being written.
OpenIsProduced ==
  OpenOffsets(log) # {} => \E w \in Writers : writer[First][w].pc = "produced"

FirstInv == (Entering \/ Claiming \/ Leading) /\ FirstWrites /\ OpenIsProduced

Healthy == /\ LogInv /\ ReadsInv /\ Standbys /\ Tokens
           /\ log # <<>> => FirstInv

HealthyInv == faults = 0 /\ stops = 0 => Healthy

\* A log that is not empty has a first record.
LEMMA FirstTyped ==
  ASSUME log \in Seq(LogRecord)
  PROVE  /\ Len(log) \in Nat /\ log # <<>> <=> Len(log) >= 1
         /\ Len(log) >= 1 => First \in Member
         /\ \A i \in 1 .. Len(log) :
              /\ log[i].kind \in {"registration", "lease"} /\ log[i].member \in Member
              /\ log[i].at \in Int /\ log[i].status \in {"open", "committed", "aborted"}
<1>1. Len(log) \in Nat /\ \A i \in 1 .. Len(log) : log[i] \in LogRecord
  OBVIOUS
<1>2. log # <<>> <=> Len(log) >= 1
  OBVIOUS
<1>3. \A i \in 1 .. Len(log) :
        /\ log[i].kind \in {"registration", "lease"} /\ log[i].member \in Member
        /\ log[i].at \in Int /\ log[i].status \in {"open", "committed", "aborted"}
  BY <1>1 DEF LogRecord
<1>4. Len(log) >= 1 => 1 \in 1 .. Len(log)
  BY <1>1
<1> QED BY <1>1, <1>2, <1>3, <1>4 DEF First

-----------------------------------------------------------------------------
(***************************************************************************)
(* What a member reads.                                                    *)
(***************************************************************************)
\* A visible record is a committed record of the log.
LEMMA VisibleIs ==
  ASSUME ClusterType, NEW k \in Nat, k <= Len(log), NEW r \in VisibleRecords(k)
  PROVE  \E i \in 1 .. k :
           /\ log[i].status = "committed" /\ r.offset = i /\ r.kind = log[i].kind
           /\ r.role = Role /\ r.member = log[i].member /\ r.at = log[i].at
           /\ r.tombstone = log[i].tombstone /\ r.deadline = log[i].deadline
BY DEF VisibleRecords

\* A committed record of the log is visible.
LEMMA IsVisible ==
  ASSUME ClusterType, NEW k \in Nat, k <= Len(log), NEW i \in 1 .. k,
         log[i].status = "committed"
  PROVE  \E r \in VisibleRecords(k) :
           /\ r.offset = i /\ r.kind = log[i].kind
           /\ r.role = Role /\ r.member = log[i].member /\ r.at = log[i].at
           /\ r.tombstone = log[i].tombstone /\ r.deadline = log[i].deadline
<1> DEFINE r == [offset |-> i, role |-> Role, kind |-> log[i].kind, member |-> log[i].member,
                 tombstone |-> log[i].tombstone, at |-> log[i].at,
                 deadline |-> log[i].deadline, token |-> log[i].token]
<1>1. r \in VisibleRecords(k)
  BY DEF VisibleRecords
<1>2. /\ r.offset = i /\ r.kind = log[i].kind
      /\ r.role = Role /\ r.member = log[i].member /\ r.at = log[i].at
      /\ r.tombstone = log[i].tombstone /\ r.deadline = log[i].deadline
  OBVIOUS
<1> HIDE DEF r
<1> QED BY <1>1, <1>2

\* The newest record of some is at least as new as each of them.
LEMMA NewestIs ==
  ASSUME NEW n \in Nat, NEW R, R # {}, R \subseteq StateRecord,
         \A r \in R : r.offset \in 0 .. n
  PROVE  Newest(R) \in R /\ \A s \in R : s.offset <= Newest(R).offset
<1> DEFINE T == {r.offset : r \in R}
<1>1. T \subseteq 0 .. n /\ T # {}
  OBVIOUS
<1>2. \E i \in T : \A j \in T : j <= i
  <2> HIDE DEF T
  <2> QED BY <1>1, GreatestNatural
<1>3. \E r \in R : \A s \in R : s.offset <= r.offset
  BY <1>2
<1> QED BY <1>3 DEF Newest

\* The entry of a member in what it reads is one of its registrations.
LEMMA EntryIs ==
  ASSUME ClusterType, NEW k \in Nat, k <= Len(log), NEW m \in Member,
         Registered(RoleStateAt(k), m)
  PROVE  /\ Entry(RoleStateAt(k), m) \in RoleStateAt(k).roster
         /\ Entry(RoleStateAt(k), m).member = m
         /\ \E i \in 1 .. k :
              /\ log[i].kind = "registration" /\ log[i].member = m
              /\ Entry(RoleStateAt(k), m).offset = i
              /\ Entry(RoleStateAt(k), m).registeredAt = log[i].at
<1> DEFINE S == VisibleRecords(k)
           e == Entry(RoleStateAt(k), m)
           live == {x \in Member : /\ OfMember(Role, S, x) # {}
                                   /\ ~Newest(OfMember(Role, S, x)).tombstone}
<1>1. S \subseteq StateRecord /\ \A r \in S : r.offset \in 0 .. k
  BY VisibleTyped
<1>2. RoleStateAt(k).roster =
        {[member |-> x, offset |-> Newest(OfMember(Role, S, x)).offset,
          registeredAt |-> Newest(OfMember(Role, S, x)).at] : x \in live}
  BY DEF RoleStateAt, BuildRoleState
<1>3. e \in RoleStateAt(k).roster /\ e.member = m
  BY DEF Registered, Entry
<1> HIDE DEF S, e
<1>4. /\ OfMember(Role, S, m) # {}
      /\ e.offset = Newest(OfMember(Role, S, m)).offset
      /\ e.registeredAt = Newest(OfMember(Role, S, m)).at
  BY <1>2, <1>3
<1>5. OfMember(Role, S, m) \subseteq S
  BY DEF OfMember
<1>6. Newest(OfMember(Role, S, m)) \in OfMember(Role, S, m)
  BY <1>1, <1>4, <1>5, NewestTyped
<1>7. PICK r \in S : /\ r = Newest(OfMember(Role, S, m))
                     /\ r.kind = "registration" /\ r.member = m
  BY <1>6 DEF OfMember
<1>8. PICK i \in 1 .. k : r.offset = i /\ r.kind = log[i].kind /\ r.member = log[i].member
                          /\ r.at = log[i].at
  BY <1>7, VisibleIs DEF S
<1> QED BY <1>3, <1>4, <1>7, <1>8 DEF e

\* A member with a committed registration and no tombstone is in the roster.
LEMMA RegisteredBy ==
  ASSUME ClusterType, NEW k \in Nat, k <= Len(log), NEW i \in 1 .. k,
         log[i].kind = "registration", log[i].status = "committed",
         \A j \in 1 .. k : log[j].kind = "registration" => ~log[j].tombstone
  PROVE  log[i].member \in Member /\ Registered(RoleStateAt(k), log[i].member)
<1> DEFINE S == VisibleRecords(k)
           m == log[i].member
           live == {x \in Member : /\ OfMember(Role, S, x) # {}
                                   /\ ~Newest(OfMember(Role, S, x)).tombstone}
           entry(x) == [member |-> x, offset |-> Newest(OfMember(Role, S, x)).offset,
                        registeredAt |-> Newest(OfMember(Role, S, x)).at]
<1>1. S \subseteq StateRecord /\ \A r \in S : r.offset \in 0 .. k
  BY VisibleTyped
<1>2. m \in Member
  BY FirstTyped DEF ClusterType
<1>3. OfMember(Role, S, m) # {} /\ OfMember(Role, S, m) \subseteq S
  BY IsVisible DEF OfMember
<1>4. Newest(OfMember(Role, S, m)) \in OfMember(Role, S, m)
  <2> HIDE DEF S, m
  <2> QED BY <1>1, <1>3, NewestTyped
<1>5. ~Newest(OfMember(Role, S, m)).tombstone
  BY <1>4, VisibleIs DEF OfMember
<1>6. entry(m) \in RoleStateAt(k).roster
  BY <1>2, <1>3, <1>5 DEF RoleStateAt, BuildRoleState
<1>7. entry(m).member = m
  OBVIOUS
<1> QED BY <1>2, <1>6, <1>7 DEF Registered

\* The lease that a member reads is the last one that is committed.
LEMMA LeaseIs ==
  ASSUME ClusterType, NEW k \in Nat, k <= Len(log),
         \A j \in 1 .. k : log[j].kind = "lease" => ~log[j].tombstone
  PROVE  IF Leases(k) = {} THEN RoleStateAt(k).lease = NoLease
         ELSE \E i \in Leases(k) :
                /\ \A j \in Leases(k) : j <= i
                /\ RoleStateAt(k).lease # NoLease
                /\ RoleStateAt(k).lease.member = log[i].member
                /\ RoleStateAt(k).lease.deadline = log[i].deadline
<1> DEFINE S == VisibleRecords(k)
           R == OfLease(Role, S)
<1>1. S \subseteq StateRecord /\ \A r \in S : r.offset \in 0 .. k
  BY VisibleTyped
<1>2. R \subseteq S
  BY DEF OfLease
<1>3. RoleStateAt(k).lease = IF R = {} THEN NoLease
                             ELSE IF Newest(R).tombstone THEN NoLease
                             ELSE LeaseOfRecord(Newest(R))
  BY DEF RoleStateAt, BuildRoleState
<1>4. \A r \in R : \E i \in Leases(k) :
        /\ r.offset = i /\ r.member = log[i].member
        /\ r.tombstone = log[i].tombstone /\ r.deadline = log[i].deadline
  BY VisibleIs DEF OfLease, Leases
<1>5. \A i \in Leases(k) : \E r \in R : r.offset = i
  BY IsVisible DEF OfLease, Leases
<1>6. CASE Leases(k) = {}
  BY <1>3, <1>4, <1>6
<1>7. CASE Leases(k) # {}
  <2>1. R # {}
    BY <1>5, <1>7
  <2>2. Newest(R) \in R /\ \A s \in R : s.offset <= Newest(R).offset
    <3> HIDE DEF S, R
    <3> QED BY <1>1, <1>2, <2>1, NewestIs
  <2>3. PICK i \in Leases(k) :
          /\ Newest(R).offset = i /\ Newest(R).member = log[i].member
          /\ Newest(R).tombstone = log[i].tombstone
          /\ Newest(R).deadline = log[i].deadline
    BY <1>4, <2>2
  <2>4. ~Newest(R).tombstone
    BY <2>3 DEF Leases
  <2>5. RoleStateAt(k).lease = LeaseOfRecord(Newest(R))
    BY <1>3, <2>1, <2>4
  <2>6. LeaseOfRecord(Newest(R)) \in LeaseValue
    BY <1>1, <1>2, <2>2 DEF StateRecord, LeaseOfRecord, LeaseValue
  <2>7. LeaseOfRecord(Newest(R)) # NoLease
    BY <2>6, NoLeaseAssumption
  <2>8. /\ LeaseOfRecord(Newest(R)).member = log[i].member
        /\ LeaseOfRecord(Newest(R)).deadline = log[i].deadline
    BY <2>3 DEF LeaseOfRecord
  <2>9. \A j \in Leases(k) : j <= i
    BY <1>5, <2>2, <2>3
  <2> QED BY <1>7, <2>5, <2>7, <2>8, <2>9
<1> QED BY <1>6, <1>7

\* The offsets of a roster are offsets of the log.
LEMMA RosterOffsets ==
  ASSUME ClusterType, NEW k \in Nat, k <= Len(log)
  PROVE  \A e \in RoleStateAt(k).roster : e.offset \in 1 .. k
<1> DEFINE S == VisibleRecords(k)
           live == {x \in Member : /\ OfMember(Role, S, x) # {}
                                   /\ ~Newest(OfMember(Role, S, x)).tombstone}
<1>1. S \subseteq StateRecord /\ \A r \in S : r.offset \in 0 .. k
  BY VisibleTyped
<1>2. \A r \in S : r.offset \in 1 .. k
  BY VisibleIs
<1>3. RoleStateAt(k).roster =
        {[member |-> x, offset |-> Newest(OfMember(Role, S, x)).offset,
          registeredAt |-> Newest(OfMember(Role, S, x)).at] : x \in live}
  BY DEF RoleStateAt, BuildRoleState
<1> HIDE DEF S
<1>4. \A x \in live : Newest(OfMember(Role, S, x)) \in S
  <2> TAKE x \in live
  <2>1. OfMember(Role, S, x) # {} /\ OfMember(Role, S, x) \subseteq S
    BY DEF OfMember
  <2> QED BY <1>1, <2>1, NewestTyped
<1> QED BY <1>2, <1>3, <1>4

-----------------------------------------------------------------------------
(***************************************************************************)
(* What a member decides.                                                  *)
(***************************************************************************)
Takes == {"hold", "challenge"}

\* Evaluate lets a registered member act that holds the lease or whose
\* instant has come, and no other.
LEMMA WhoTakes ==
  ASSUME NEW state, NEW m, NEW t, Evaluate(state, m, t).action \in Takes
  PROVE  Registered(state, m) /\ (IsHolder(state, m) \/ t >= ChallengeInstant(state, m))
<1>1. "not registered" \notin Takes /\ "wait" \notin Takes
  BY Zenon DEF Takes
<1>2. CASE ~Registered(state, m)
  <2>1. Evaluate(state, m, t).action = "not registered"
    BY <1>2, Zenon DEF Evaluate
  <2> QED BY <1>1, <2>1, Zenon
<1>3. CASE Registered(state, m) /\ ~IsHolder(state, m) /\ ~(t >= ChallengeInstant(state, m))
  <2>1. Evaluate(state, m, t).action = "wait"
    BY <1>3, Zenon DEF Evaluate
  <2> QED BY <1>1, <2>1, Zenon
<1> QED BY <1>2, <1>3, Zenon

\* Who is registered takes the role from its challenge instant on.
LEMMA TakesInTime ==
  ASSUME NEW state, NEW m, NEW t, Registered(state, m), t >= ChallengeInstant(state, m)
  PROVE  Evaluate(state, m, t).action \in Takes
BY Zenon DEF Evaluate, Takes

\* The delay of a rank, and an instant that it is added to.
LEMMA DelayOfRank ==
  ASSUME NEW rank \in Nat, MaxExtent >= 1
  PROVE  /\ ChallengeDelay(rank) \in Nat
         /\ rank >= 1 => ChallengeDelay(rank) >= 1
         /\ rank = 0 => ChallengeDelay(rank) = 0
<1>1. ChallengeStagger \in Nat \ {0} /\ MaxExtent \in Nat
  BY LeaseConfigAssumption
<1>2. ASSUME rank >= 1 PROVE rank * ChallengeStagger \in Nat \ {0}
  BY <1>1, <1>2
<1>3. CASE rank = 0
  BY <1>3 DEF ChallengeDelay
<1>4. CASE rank # 0
  <2>1. ~(rank <= 0) /\ rank >= 1
    BY <1>4
  <2>2. ChallengeDelay(rank) \in {MaxExtent, rank * ChallengeStagger}
    BY <2>1 DEF ChallengeDelay
  <2> QED BY <1>1, <1>2, <1>4, <2>1, <2>2
<1> QED BY <1>3, <1>4

\* An instant and a delay below the last instant add up.
LEMMA DelayAdds ==
  ASSUME NEW t \in Int, NEW d \in Nat, t <= MaxMillis
  PROVE  /\ AddMillis(t, d) \in Int /\ AddMillis(t, d) >= t
         /\ d >= 1 /\ t < MaxMillis => AddMillis(t, d) > t
         /\ d = 0 => AddMillis(t, d) = t
BY LeaseConfigAssumption DEF AddMillis

\* A lease that was granted by a clock g at most a renew interval ago is live
\* by a clock h within the slack.
LEMMA LiveBySlack ==
  ASSUME NEW t \in Int, NEW g \in Int, NEW h \in Int, NEW at \in Int,
         t + g - RenewInterval <= at, at <= t + g, t + g + Duration <= MaxMillis,
         h - g < Duration - RenewInterval
  PROVE  /\ GrantDeadline(at) \in Int /\ t + h < GrantDeadline(at)
         /\ GrantDeadline(at) <= MaxMillis
BY LeaseConfigAssumption DEF GrantDeadline, AddMillis

\* The ranks of a role state are natural numbers.
LEMMA RankTyped ==
  ASSUME NEW state, IsFiniteSet(state.roster), NEW m
  PROVE  RankOf(state, m) \in Nat
<1> DEFINE ahead == {e \in state.roster : /\ ~IsHolder(state, e.member)
                                          /\ e.offset < Entry(state, m).offset}
<1>1. IsFiniteSet(ahead)
  BY FS_Subset
<1>2. Cardinality(ahead) \in Nat
  <2> HIDE DEF ahead
  <2> QED BY <1>1, FS_CardinalityType
<1> QED BY <1>2 DEF RankOf

\* Who is behind another member in a roster without a lease has a rank above 0.
LEMMA RankBehind ==
  ASSUME NEW state, IsFiniteSet(state.roster), state.lease = NoLease, NEW m,
         NEW e \in state.roster, e.offset < Entry(state, m).offset
  PROVE  RankOf(state, m) \in Nat /\ RankOf(state, m) >= 1
<1> DEFINE ahead == {x \in state.roster : /\ ~IsHolder(state, x.member)
                                          /\ x.offset < Entry(state, m).offset}
<1>1. IsFiniteSet(ahead) /\ e \in ahead
  BY FS_Subset DEF IsHolder
<1>2. Cardinality(ahead) \in Nat /\ Cardinality(ahead) # 0
  <2> HIDE DEF ahead
  <2> QED BY <1>1, FS_CardinalityType, FS_EmptySet
<1>3. RankOf(state, m) = Cardinality(ahead)
  BY DEF RankOf, IsHolder
<1> QED BY <1>2, <1>3

\* The clocks of calm members.
LEMMA CalmClocks ==
  ASSUME Calm, TypeOK, TimedInv, NEW m \in Member
  PROVE  /\ now \in Nat /\ Skew[m] \in Int /\ LocalNow(m) \in Int
         /\ LocalNow(m) + Duration <= MaxMillis /\ LocalNow(m) < MaxMillis
         /\ Duration \in Nat \ {0} /\ RenewInterval \in Nat \ {0}
         /\ MaxMillis \in Nat /\ RenewInterval < Duration
<1>1. now \in Nat /\ Skew[m] \in Int /\ MaxNow \in Nat /\ LocalNow(m) \in Int
  BY HandleInstants
<1>2. MaxNow + Skew[m] <= MaxMillis - Duration /\ now <= MaxNow
  BY DEF Calm, ClocksEndBy, TimedInv
<1> QED BY <1>1, <1>2, LeaseConfigAssumption DEF LocalNow

\* A standby does not challenge: what it reads is of this tick, when it is
\* behind the first member, or shows a lease that is live by its clock.
LEMMA StandbyWaits ==
  ASSUME Calm, TypeOK, TimedInv, RecordsKept, LeasesOrdered, NEW n \in Member,
         NEW k \in Nat, k <= Len(log), Current(k), log = <<>> \/ n # First
  PROVE  Evaluate(RoleStateAt(k), n, LocalNow(n)).action \notin Takes
<1> DEFINE state == RoleStateAt(k)
<1> SUFFICES ASSUME Evaluate(state, n, LocalNow(n)).action \in Takes PROVE FALSE
  OBVIOUS
<1>1. /\ Registered(state, n)
      /\ IsHolder(state, n) \/ LocalNow(n) >= ChallengeInstant(state, n)
  BY WhoTakes
<1>2. ClusterType /\ log \in Seq(LogRecord) /\ Len(log) \in Nat
  BY DEF TypeOK, ClusterType
<1>3. PICK i \in 1 .. k : /\ log[i].kind = "registration" /\ log[i].member = n
                          /\ Entry(state, n).offset = i
                          /\ Entry(state, n).registeredAt = log[i].at
  BY <1>1, <1>2, EntryIs
<1>4. /\ Len(log) >= 1 /\ log # <<>> /\ n # First /\ First \in Member
      /\ i # 1 /\ 1 \in 1 .. k
  <2>1. Len(log) >= 1 /\ log # <<>> /\ First \in Member
    BY <1>2, <1>3, FirstTyped
  <2> QED BY <1>2, <1>3, <2>1 DEF First
<1>5. IsFiniteSet(state.roster)
  BY <1>2, RoleStateTyped
<1>6. \A j \in 1 .. k : /\ log[j].kind = "lease" => LeaseOfFirst(j)
                        /\ log[j].kind = "registration" => FirstRegistration(j)
  BY <1>2, FirstTyped DEF RecordsKept
<1>7. \A j \in 1 .. k : log[j].kind \in {"lease", "registration"} /\ ~log[j].tombstone
  BY <1>2, <1>6, FirstTyped DEF LeaseOfFirst, FirstRegistration
<1>8. RankOf(state, n) \in Nat
  BY <1>5, RankTyped
<1>9. /\ LocalNow(n) \in Int /\ LocalNow(n) < MaxMillis
      /\ LocalNow(First) \in Int /\ LocalNow(First) + Duration <= MaxMillis
      /\ Skew[n] \in Int /\ Skew[First] \in Int /\ now \in Nat
      /\ Duration \in Nat \ {0} /\ RenewInterval \in Nat \ {0} /\ MaxMillis \in Nat
  BY <1>4, CalmClocks
<1>10. CASE Leases(k) = {}
  <2>1. state.lease = NoLease
    BY <1>2, <1>7, <1>10, LeaseIs
  <2>2. log[i].at = LocalNow(n)
    BY <1>3, <1>10 DEF Current
  <2>3. FirstRegistration(1) /\ log[1].kind = "registration"
    BY <1>4, <1>6, <1>7 DEF LeaseOfFirst
  <2>4. Registered(state, First)
    BY <1>2, <1>4, <1>7, <2>3, RegisteredBy DEF First, FirstRegistration
  <2>5. PICK j \in 1 .. k : /\ log[j].kind = "registration" /\ log[j].member = First
                            /\ Entry(state, First).offset = j
    BY <1>2, <1>4, <2>4, EntryIs
  <2>6. j = 1 /\ Entry(state, First) \in state.roster
    BY <1>2, <1>4, <1>6, <2>4, <2>5, EntryIs DEF FirstRegistration
  <2>7. Entry(state, First).offset < Entry(state, n).offset
    BY <1>2, <1>3, <1>4, <2>5, <2>6
  <2>8. RankOf(state, n) >= 1
    BY <1>5, <2>1, <2>6, <2>7, RankBehind
  <2>9. ChallengeDelay(RankOf(state, n)) \in Nat /\ ChallengeDelay(RankOf(state, n)) >= 1
    BY <1>8, <2>8, DelayOfRank DEF Calm
  <2>10. ChallengeInstant(state, n) > LocalNow(n) /\ ChallengeInstant(state, n) \in Int
    <3>1. ChallengeInstant(state, n) = AddMillis(LocalNow(n), ChallengeDelay(RankOf(state, n)))
      BY <1>3, <2>1, <2>2 DEF ChallengeInstant
    <3>2. PICK t \in Int, d \in Nat : t = LocalNow(n) /\ d = ChallengeDelay(RankOf(state, n))
      BY <1>9, <2>9
    <3>3. t < MaxMillis /\ d >= 1 /\ ChallengeInstant(state, n) = AddMillis(t, d)
      BY <1>9, <2>9, <3>1, <3>2
    <3>4. AddMillis(t, d) > t /\ AddMillis(t, d) \in Int
      BY <3>3, DelayAdds, LeaseConfigAssumption
    <3> QED BY <3>2, <3>3, <3>4
  <2>11. ~IsHolder(state, n)
    BY <2>1 DEF IsHolder
  <2> HIDE DEF state
  <2> QED BY <1>1, <1>9, <2>10, <2>11
<1>11. CASE Leases(k) # {}
  <2>1. PICK l \in Leases(k) :
          /\ \A j \in Leases(k) : j <= l
          /\ state.lease # NoLease
          /\ state.lease.member = log[l].member
          /\ state.lease.deadline = log[l].deadline
    BY <1>2, <1>7, <1>11, LeaseIs
  <2>2. l \in 1 .. k /\ log[l].kind = "lease" /\ LeaseOfFirst(l)
    BY <1>6, <2>1 DEF Leases
  <2>3. ~IsHolder(state, n)
    BY <1>4, <2>1, <2>2 DEF IsHolder, LeaseOfFirst
  <2>4. PICK r \in Leases(k) : log[r].at >= LocalNow(First) - RenewInterval
    BY <1>11 DEF Current
  <2>5. log[r].at <= log[l].at
    <3>1. r \in 1 .. Len(log) /\ l \in 1 .. Len(log) /\ log[r].kind = "lease" /\ r <= l
      BY <1>2, <2>1, <2>2, <2>4 DEF Leases
    <3> QED BY <2>2, <3>1 DEF LeasesOrdered
  <2>6. log[r].at \in Int /\ log[l].at \in Int
    BY <1>2, <2>2, <2>4, FirstTyped DEF Leases
  <2> DEFINE t == now
             g == Skew[First]
             h == Skew[n]
             old == log[r].at
             at == log[l].at
  <2>7. t \in Int /\ g \in Int /\ h \in Int /\ old \in Int /\ at \in Int
    BY <1>9, <2>6
  <2>8. LocalNow(First) = t + g /\ LocalNow(n) = t + h
    BY DEF LocalNow
  <2>9. old >= t + g - RenewInterval /\ old <= at
    <3>1. LocalNow(First) - RenewInterval = t + g - RenewInterval
      BY <2>7, LeaseConfigAssumption DEF LocalNow
    <3>2. old >= LocalNow(First) - RenewInterval /\ old <= at
      BY <2>4, <2>5
    <3> QED BY <3>1, <3>2, Zenon
  <2>10. /\ log[l].deadline = GrantDeadline(at) /\ at <= t + g
         /\ t + g + Duration <= MaxMillis
    BY <1>9, <2>2, <2>8, Zenon DEF LeaseOfFirst
  <2>11. h - g < Duration - RenewInterval
    BY <1>4 DEF Calm
  <2> HIDE DEF t, g, h, old, at
  <2>12. t + g - RenewInterval <= at
    BY <2>7, <2>9, LeaseConfigAssumption
  <2>13. PICK deadline \in Int :
           log[l].deadline = deadline /\ t + h < deadline /\ deadline <= MaxMillis
    BY <2>7, <2>10, <2>11, <2>12, LiveBySlack
  <2>14. PICK d \in Nat : d = ChallengeDelay(RankOf(state, n))
    BY <1>8, DelayOfRank DEF Calm
  <2>15. ChallengeInstant(state, n) = AddMillis(deadline, d)
    BY <2>1, <2>13, <2>14 DEF ChallengeInstant, ChallengeAt
  <2>16. AddMillis(deadline, d) >= deadline /\ AddMillis(deadline, d) \in Int
    BY <2>13, DelayAdds
  <2>17. ~(t + h >= AddMillis(deadline, d))
    BY <2>7, <2>13, <2>16
  <2> QED BY <1>1, <2>3, <2>8, <2>15, <2>17
<1> QED BY <1>10, <1>11

\* The first member has rank 0 and challenges in the tick it registered in.
LEMMA FirstTakes ==
  ASSUME Calm, TypeOK, TimedInv, RecordsKept, NEW k \in Nat, k <= Len(log), k >= 1,
         Current(k), \A i \in 1 .. Len(log) : log[i].kind = "registration"
  PROVE  Evaluate(RoleStateAt(k), First, LocalNow(First)).action \in Takes
<1> DEFINE state == RoleStateAt(k)
<1>1. ClusterType /\ log \in Seq(LogRecord) /\ Len(log) \in Nat /\ 1 \in 1 .. k
  BY DEF TypeOK, ClusterType
<1>2. First \in Member
  BY <1>1, FirstTyped
<1>3. \A j \in 1 .. k : log[j].kind = "registration" /\ FirstRegistration(j)
  BY <1>1 DEF RecordsKept
<1>4. Leases(k) = {}
  BY <1>3 DEF Leases
<1>5. state.lease = NoLease
  BY <1>1, <1>3, <1>4, LeaseIs
<1>6. Registered(state, First)
  BY <1>1, <1>3, RegisteredBy DEF First, FirstRegistration
<1>7. PICK i \in 1 .. k : /\ log[i].kind = "registration" /\ log[i].member = First
                          /\ Entry(state, First).offset = i
                          /\ Entry(state, First).registeredAt = log[i].at
  BY <1>1, <1>2, <1>6, EntryIs
<1>8. i = 1 /\ log[i].at = LocalNow(First)
  BY <1>3, <1>4, <1>7 DEF FirstRegistration, Current
<1>9. state.roster \subseteq [member : Member, offset : Nat, registeredAt : Int]
  BY <1>1, RoleStateTyped DEF RoleStates
<1>10. RankOf(state, First) = 0
  <2> DEFINE ahead == {e \in state.roster : /\ ~IsHolder(state, e.member)
                                            /\ e.offset < Entry(state, First).offset}
  <2>1. \A e \in state.roster : Registered(state, e.member) /\ e.member \in Member
    BY <1>9 DEF Registered
  <2>2. \A e \in state.roster : e.offset \in Nat
    BY <1>9
  <2>3. \A e \in state.roster : e.offset >= 1
    BY <1>1, RosterOffsets
  <2>4. ahead = {}
    BY <1>7, <1>8, <2>2, <2>3
  <2>5. RankOf(state, First) = Cardinality(ahead)
    BY <1>5 DEF RankOf, IsHolder
  <2> QED BY <2>4, <2>5, FS_EmptySet
<1>11. LocalNow(First) \in Int /\ LocalNow(First) < MaxMillis
  BY <1>2, CalmClocks
<1>12. ChallengeInstant(state, First) = LocalNow(First)
  <2>1. ChallengeInstant(state, First) = AddMillis(LocalNow(First), ChallengeDelay(0))
    BY <1>5, <1>7, <1>8, <1>10 DEF ChallengeInstant
  <2>2. ChallengeDelay(0) = 0
    BY DelayOfRank DEF Calm
  <2>3. PICK t \in Int : t = LocalNow(First) /\ t < MaxMillis
    BY <1>11
  <2>4. t <= MaxMillis
    BY <2>3, LeaseConfigAssumption
  <2>5. AddMillis(t, 0) = t
    BY <2>4, DelayAdds
  <2> QED BY <2>1, <2>2, <2>3, <2>5, Zenon
<1>13. LocalNow(First) >= ChallengeInstant(state, First)
  <2> HIDE DEF state
  <2> QED BY <1>11, <1>12
<1> QED BY <1>6, <1>13, TakesInTime

-----------------------------------------------------------------------------
(***************************************************************************)
(* The log, step by step, while the clock stands still.                    *)
(***************************************************************************)
\* What was read stays of this tick.
LEMMA CurrentStays ==
  ASSUME NEW k \in Nat, \A i \in 1 .. k : log'[i] = log[i], UNCHANGED now, Current(k)
  PROVE  Current(k)'
<1>1. Leases(k)' = Leases(k)
  BY DEF Leases
<1>2. CASE Leases(k) = {}
  <2>1. \A i \in 1 .. k : log[i].kind = "registration" => log[i].at = LocalNow(log[i].member)
    BY <1>2 DEF Current
  <2> QED BY <1>1, <1>2, <2>1 DEF Current, LocalNow
<1>3. CASE Leases(k) # {}
  <2>1. PICK i \in Leases(k) : log[i].at >= LocalNow(First) - RenewInterval
    BY <1>3 DEF Current
  <2>2. i \in 1 .. k /\ 1 \in 1 .. k
    BY <2>1 DEF Leases
  <2>3. log'[i].at = log[i].at /\ LocalNow(First)' = LocalNow(First)
    BY <2>2 DEF LocalNow, First
  <2> QED BY <1>1, <1>3, <2>1, <2>3 DEF Current
<1> QED BY <1>2, <1>3

\* A committed lease stays.
LEMMA LeasesStay ==
  ASSUME log \in Seq(LogRecord), LogStep
  PROVE  \A i \in Leases(Len(log)) : i \in Leases(Len(log))' /\ log'[i].at = log[i].at
<1>1. /\ log' \in Seq(LogRecord) /\ Len(log') \in Nat /\ Len(log) <= Len(log')
      /\ Len(log) \in Nat
  BY LogStepTyped
<1>2. ASSUME NEW i \in Leases(Len(log))
      PROVE  i \in Leases(Len(log))' /\ log'[i].at = log[i].at
  <2>1. i \in 1 .. Len(log) /\ log[i].status # "open" /\ i \in 1 .. Len(log')
    BY <1>1, <1>2 DEF Leases
  <2>2. log'[i] = log[i]
    BY <2>1, ClosedRecordsStay
  <2> QED BY <1>2, <2>1, <2>2 DEF Leases
<1> QED BY <1>2

\* A step that leaves the log and the clock alone keeps LogInv.
LEMMA LogSame ==
  ASSUME LogInv, UNCHANGED <<log, now>>
  PROVE  LogInv'
BY DEF LogInv, RecordsKept, FirstRegistration, LeaseOfFirst, LeasesOrdered, Current, Leases,
       First, LocalNow

\* A member other than the first registers, or the first does.
LEMMA LogRegister ==
  ASSUME TypeOK, LogInv, UNCHANGED now, NEW n \in Member, log = <<>> \/ n # First,
         log' = Append(log, RegistrationRecord(n))
  PROVE  /\ LogInv' /\ log' # <<>>
         /\ First' = IF log = <<>> THEN n ELSE First
         /\ OpenOffsets(log') = OpenOffsets(log)
         /\ (\A i \in 1 .. Len(log) : log[i].kind = "registration")
            => \A i \in 1 .. Len(log') : log'[i].kind = "registration"
<1> DEFINE r == RegistrationRecord(n)
<1>1. /\ r \in LogRecord /\ r.kind = "registration" /\ r.status = "committed"
      /\ ~r.tombstone /\ r.member = n /\ r.at = LocalNow(n)
  BY RecordsTyped DEF RegistrationRecord, TypeOK
<1> HIDE DEF r
<1>2. /\ log \in Seq(LogRecord) /\ Len(log) \in Nat /\ Len(log') = Len(log) + 1
      /\ \A i \in 1 .. Len(log) : log'[i] = log[i]
      /\ log'[Len(log) + 1] = r /\ log' \in Seq(LogRecord)
  BY <1>1, AppendFacts DEF r, TypeOK, ClusterType
<1>3. \A i \in 1 .. Len(log') : i \in 1 .. Len(log) \/ i = Len(log) + 1
  BY <1>2
<1>4. /\ log # <<>> <=> Len(log) >= 1
      /\ \A i \in 1 .. Len(log) : log[i].kind \in {"registration", "lease"}
  BY <1>2, FirstTyped
<1>5. log' # <<>> /\ First' = IF log = <<>> THEN n ELSE First
  BY <1>1, <1>2, <1>4 DEF First
<1>6. RecordsKept'
  <2> SUFFICES ASSUME NEW i \in 1 .. Len(log')
               PROVE  (IF log[i].kind = "registration" THEN FirstRegistration(i)
                                                       ELSE LeaseOfFirst(i))'
    BY DEF RecordsKept
  <2>1. CASE i \in 1 .. Len(log)
    <3>1. log'[i] = log[i] /\ First' = First
      BY <1>2, <1>4, <1>5, <2>1
    <3>2. IF log[i].kind = "registration" THEN FirstRegistration(i) ELSE LeaseOfFirst(i)
      BY <2>1 DEF LogInv, RecordsKept
    <3> QED BY <3>1, <3>2 DEF FirstRegistration, LeaseOfFirst, LocalNow
  <2>2. CASE i = Len(log) + 1
    <3>1. FirstRegistration(i)'
      BY <1>1, <1>2, <1>4, <1>5, <2>2 DEF FirstRegistration
    <3> QED BY <1>1, <1>2, <2>2, <3>1
  <2> QED BY <1>3, <2>1, <2>2
<1>7. LeasesOrdered'
  BY <1>1, <1>2, <1>3 DEF LogInv, LeasesOrdered
<1>8. Leases(Len(log))' = Leases(Len(log))
  BY <1>1, <1>2, <1>3 DEF Leases
<1>9. Current(Len(log))'
  <2>1. CASE Leases(Len(log)) = {}
    <3>1. \A i \in 1 .. Len(log) :
            log[i].kind = "registration" => log[i].at = LocalNow(log[i].member)
      BY <2>1 DEF LogInv, Current
    <3>2. \A i \in 1 .. Len(log') :
            log'[i].kind = "registration" => log'[i].at = LocalNow(log'[i].member)
      BY <1>1, <1>2, <1>3, <3>1
    <3> QED BY <1>8, <2>1, <3>2 DEF Current, LocalNow
  <2>2. CASE Leases(Len(log)) # {}
    <3>1. PICK i \in Leases(Len(log)) : log[i].at >= LocalNow(First) - RenewInterval
      BY <2>2 DEF LogInv, Current
    <3>2. i \in 1 .. Len(log) /\ log # <<>>
      BY <1>2, <1>4, <3>1 DEF Leases
    <3>3. log'[i] = log[i] /\ First' = First
      BY <1>2, <1>5, <3>2
    <3> QED BY <1>8, <2>2, <3>1, <3>3 DEF Current, LocalNow
  <2> QED BY <2>1, <2>2
<1>10. OpenOffsets(log') = OpenOffsets(log)
  <2>1. DOMAIN log' = 1 .. Len(log') /\ DOMAIN log = 1 .. Len(log)
    BY <1>2
  <2>2. \A i \in 1 .. Len(log) : i \in 1 .. Len(log')
    BY <1>2
  <2> QED BY <1>1, <1>2, <1>3, <2>1, <2>2 DEF OpenOffsets
<1>11. (\A i \in 1 .. Len(log) : log[i].kind = "registration")
       => \A i \in 1 .. Len(log') : log'[i].kind = "registration"
  BY <1>1, <1>2, <1>3
<1> QED BY <1>5, <1>6, <1>7, <1>9, <1>10, <1>11 DEF LogInv

\* The first member appends a lease of this instant.
LEMMA LogLease ==
  ASSUME log \in Seq(LogRecord), log' \in Seq(LogRecord), LogInv, UNCHANGED now,
         log # <<>>, OpenOffsets(log) = {},
         NEW r \in LogRecord, NEW t \in Int, t = LocalNow(First),
         r.kind = "lease", r.status = "open", ~r.tombstone, r.member = First,
         r.at = t, r.deadline = GrantDeadline(t),
         NEW len \in Nat, Len(log) = len, Len(log') = len + 1,
         \A i \in 1 .. len : log'[i] = log[i], log'[len + 1] = r
  PROVE  LogInv' /\ log' # <<>> /\ First' = First /\ OpenOffsets(log') # {}
<1>1. /\ First \in Member /\ len >= 1
      /\ \A i \in 1 .. len : /\ log[i].kind \in {"registration", "lease"}
                             /\ log[i].at \in Int
  BY FirstTyped
<1>2. \A i \in 1 .. Len(log') : i \in 1 .. len \/ i = len + 1
  OBVIOUS
<1>3. 1 \in 1 .. len /\ len + 1 > 1
  BY <1>1
<1>4. log' # <<>> /\ First' = First
  <2>1. log'[1] = log[1]
    BY <1>3
  <2>2. log' # <<>>
    BY <1>1
  <2> QED BY <2>1, <2>2 DEF First
<1>5. LocalNow(First)' = t
  BY <1>4 DEF LocalNow
<1>6. \A i \in 1 .. len :
        log[i].status # "open" /\ (log[i].kind = "lease" => log[i].at <= t)
  <2>1. \A i \in 1 .. len : log[i].status # "open"
    BY <1>1 DEF OpenOffsets
  <2>2. \A i \in 1 .. len : log[i].kind = "lease" => LeaseOfFirst(i)
    BY DEF LogInv, RecordsKept
  <2> QED BY <2>1, <2>2 DEF LeaseOfFirst
<1>7. RecordsKept'
  <2> SUFFICES ASSUME NEW i \in 1 .. Len(log')
               PROVE  (IF log[i].kind = "registration" THEN FirstRegistration(i)
                                                       ELSE LeaseOfFirst(i))'
    BY DEF RecordsKept
  <2>1. CASE i \in 1 .. len
    <3>1. log'[i] = log[i]
      BY <2>1
    <3>2. IF log[i].kind = "registration" THEN FirstRegistration(i) ELSE LeaseOfFirst(i)
      BY <2>1 DEF LogInv, RecordsKept
    <3> QED BY <1>4, <3>1, <3>2 DEF FirstRegistration, LeaseOfFirst, LocalNow
  <2>2. CASE i = len + 1
    <3>1. log'[i] = r /\ i > 1
      BY <1>3, <2>2
    <3>2. /\ log'[i].member = First' /\ ~log'[i].tombstone /\ log'[i].status = "open"
          /\ log'[i].at = t /\ log'[i].deadline = GrantDeadline(log'[i].at)
          /\ log'[i].kind = "lease"
      BY <1>4, <3>1
    <3>3. LeaseOfFirst(i)'
      BY <1>5, <3>1, <3>2 DEF LeaseOfFirst
    <3> QED BY <3>2, <3>3
  <2> QED BY <1>2, <2>1, <2>2
<1>8. LeasesOrdered'
  <2> SUFFICES ASSUME NEW i \in 1 .. Len(log'), NEW j \in 1 .. Len(log'),
                      log'[i].kind = "lease", log'[j].kind = "lease"
               PROVE  /\ i <= j => log'[i].at <= log'[j].at
                      /\ log'[i].status = "open" => j <= i
    BY DEF LeasesOrdered
  <2>1. CASE i \in 1 .. len /\ j \in 1 .. len
    BY <1>6, <2>1 DEF LogInv, LeasesOrdered
  <2>2. CASE i \in 1 .. len /\ j = len + 1
    BY <1>6, <2>2
  <2>3. CASE i = len + 1 /\ j \in 1 .. len
    BY <2>3
  <2>4. CASE i = len + 1 /\ j = len + 1
    BY <2>4
  <2> QED BY <1>2, <2>1, <2>2, <2>3, <2>4
<1>9. Leases(Len(log))' = Leases(Len(log))
  <2>1. ASSUME NEW i PROVE i \in Leases(Len(log))' <=> i \in Leases(Len(log))
    <3>1. CASE i \in 1 .. len
      BY <3>1 DEF Leases
    <3>2. CASE i = len + 1
      BY <3>2 DEF Leases
    <3>3. CASE i \notin 1 .. len + 1
      BY <3>3 DEF Leases
    <3> QED BY <3>1, <3>2, <3>3
  <2> QED BY <2>1
<1>10. Current(Len(log))'
  <2>1. CASE Leases(Len(log)) = {}
    <3>1. \A i \in 1 .. len :
            log[i].kind = "registration" => log[i].at = LocalNow(log[i].member)
      BY <2>1 DEF LogInv, Current
    <3>2. \A i \in 1 .. Len(log') :
            log'[i].kind = "registration" => log'[i].at = LocalNow(log'[i].member)
      BY <1>2, <3>1
    <3> QED BY <1>9, <2>1, <3>2 DEF Current, LocalNow
  <2>2. CASE Leases(Len(log)) # {}
    <3>1. PICK i \in Leases(Len(log)) : log[i].at >= LocalNow(First) - RenewInterval
      BY <2>2 DEF LogInv, Current
    <3>2. i \in 1 .. len /\ log'[i] = log[i]
      BY <3>1 DEF Leases
    <3> QED BY <1>4, <1>9, <2>2, <3>1, <3>2 DEF Current, LocalNow
  <2> QED BY <2>1, <2>2
<1>11. len + 1 \in OpenOffsets(log')
  BY DEF OpenOffsets
<1> QED BY <1>4, <1>7, <1>8, <1>10, <1>11 DEF LogInv

\* The same for the record that Produce appends.
LEMMA LogProduce ==
  ASSUME TypeOK, LogInv, UNCHANGED now, log # <<>>, OpenOffsets(log) = {},
         log' = Append(log, LeaseRecord(First, LocalNow(First), FALSE))
  PROVE  LogInv' /\ log' # <<>> /\ First' = First /\ OpenOffsets(log') # {}
<1>1. log \in Seq(LogRecord) /\ First \in Member
  BY FirstTyped DEF TypeOK, ClusterType
<1>2. PICK t \in Int : t = LocalNow(First)
  BY <1>1, HandleInstants
<1>3. PICK r \in LogRecord : r = LeaseRecord(First, t, FALSE)
  BY <1>1, <1>2, RecordsTyped DEF TypeOK
<1>4. /\ r.kind = "lease" /\ r.status = "open" /\ ~r.tombstone /\ r.member = First
      /\ r.at = t /\ r.deadline = GrantDeadline(t)
  BY <1>3 DEF LeaseRecord
<1>5. log' = Append(log, r)
  BY <1>2, <1>3, Zenon
<1>6. PICK len \in Nat : /\ Len(log) = len /\ Len(log') = len + 1 /\ log' \in Seq(LogRecord)
                         /\ \A i \in 1 .. len : log'[i] = log[i]
                         /\ log'[len + 1] = r
  BY <1>1, <1>5, AppendFacts
<1> QED BY <1>1, <1>2, <1>4, <1>6, LogLease

\* The commit makes the open lease, which is of this instant, visible.
LEMMA LogCommit ==
  ASSUME TypeOK, LogInv, UNCHANGED now, OpenOffsets(log) # {},
         log' = EndOpen(log, "committed")
  PROVE  /\ LogInv' /\ log # <<>> /\ log' # <<>> /\ First' = First
         /\ OpenOffsets(log') = {}
         /\ \E i \in Leases(Len(log))' : log'[i].at = LocalNow(First)
<1>1. /\ log \in Seq(LogRecord) /\ Len(log) \in Nat
      /\ \A i \in 1 .. Len(log) : /\ log[i].kind \in {"registration", "lease"}
                                  /\ log[i] \in LogRecord
                                  /\ log[i].at \in Int
  BY FirstTyped DEF TypeOK, ClusterType
<1>2. DOMAIN log = 1 .. Len(log) /\ log' \in Seq(LogRecord) /\ DOMAIN log' = DOMAIN log
  BY <1>1, EndOpenFacts
<1>3. Len(log') = Len(log)
  BY <1>1, <1>2
<1>4. \A i \in 1 .. Len(log) :
        /\ log'[i].kind = log[i].kind /\ log'[i].member = log[i].member
        /\ log'[i].at = log[i].at /\ log'[i].deadline = log[i].deadline
        /\ log'[i].tombstone = log[i].tombstone
        /\ log'[i].status = IF log[i].status = "open" THEN "committed" ELSE log[i].status
  <2>1. \A i \in 1 .. Len(log) : log'[i] = IF log[i].status = "open"
                                           THEN [log[i] EXCEPT !.status = "committed"]
                                           ELSE log[i]
    BY <1>2 DEF EndOpen
  <2> QED BY <1>1, <2>1 DEF LogRecord
<1>5. PICK o \in 1 .. Len(log) : log[o].status = "open"
  BY <1>2 DEF OpenOffsets
<1>6. log # <<>> /\ log' # <<>> /\ First' = First /\ First \in Member
  BY <1>1, <1>2, <1>3, <1>4, <1>5, FirstTyped DEF First
<1>7. log[o].kind = "lease" /\ log[o].at = LocalNow(First)
  BY <1>1, <1>5 DEF LogInv, RecordsKept, FirstRegistration, LeaseOfFirst
<1>8. RecordsKept'
  <2> SUFFICES ASSUME NEW i \in 1 .. Len(log)
               PROVE  (IF log[i].kind = "registration" THEN FirstRegistration(i)
                                                       ELSE LeaseOfFirst(i))'
    BY <1>3 DEF RecordsKept
  <2>1. IF log[i].kind = "registration" THEN FirstRegistration(i) ELSE LeaseOfFirst(i)
    BY DEF LogInv, RecordsKept
  <2>2. LocalNow(First)' = LocalNow(First)
    BY <1>6 DEF LocalNow
  <2>3. CASE log[i].kind = "registration"
    BY <1>4, <1>6, <2>1, <2>3 DEF FirstRegistration
  <2>4. CASE log[i].kind # "registration"
    BY <1>4, <1>6, <2>1, <2>2, <2>4 DEF LeaseOfFirst
  <2> QED BY <2>3, <2>4
<1>9. \A i \in 1 .. Len(log') : log'[i].status # "open"
  BY <1>3, <1>4
<1>10. LeasesOrdered'
  BY <1>3, <1>4, <1>9 DEF LogInv, LeasesOrdered
<1>11. OpenOffsets(log') = {}
  BY <1>2, <1>3, <1>9 DEF OpenOffsets
<1>12. o \in Leases(Len(log))' /\ log'[o].at = LocalNow(First)
  BY <1>3, <1>4, <1>5, <1>7 DEF Leases
<1>13. LocalNow(First) >= LocalNow(First) - RenewInterval
  <2>1. LocalNow(First) \in Int
    BY <1>6, HandleInstants
  <2> QED BY <2>1, LeaseConfigAssumption
<1>14. Current(Len(log))'
  <2>1. LocalNow(First)' = LocalNow(First)
    BY <1>6 DEF LocalNow
  <2>2. log'[o].at >= (LocalNow(First) - RenewInterval)'
    BY <1>12, <1>13, <2>1, Zenon
  <2> QED BY <1>12, <2>2 DEF Current
<1> QED BY <1>6, <1>8, <1>10, <1>11, <1>12, <1>14 DEF LogInv

-----------------------------------------------------------------------------
(***************************************************************************)
(* The steps while nothing fails.                                          *)
(***************************************************************************)
\* A read through the last stable offset sees every committed lease.
LEMMA StableIsCurrent ==
  ASSUME log \in Seq(LogRecord), LogInv
  PROVE  Current(LastStableOffset(log))
<1>1. Len(log) \in Nat /\ Current(Len(log)) /\ LeasesOrdered
  BY DEF LogInv
<1>2. CASE OpenOffsets(log) = {}
  BY <1>1, <1>2 DEF LastStableOffset
<1>3. CASE OpenOffsets(log) # {}
  <2>1. OpenOffsets(log) \subseteq 1 .. Len(log) /\ OpenOffsets(log) \subseteq Nat
    BY <1>1 DEF OpenOffsets
  <2>2. \E i \in OpenOffsets(log) : \A j \in OpenOffsets(log) : i <= j
    BY <1>3, <2>1, LeastNatural
  <2>3. PICK o \in OpenOffsets(log) : LastStableOffset(log) = o - 1
    BY <1>3, <2>2 DEF LastStableOffset
  <2>4. o \in 1 .. Len(log) /\ log[o].status = "open" /\ o \in Nat
    BY <2>1 DEF OpenOffsets
  <2>5. log[o].kind = "lease"
    BY <2>4, FirstTyped DEF LogInv, RecordsKept, FirstRegistration
  <2>6. PICK k \in Nat : k = o - 1 /\ k <= Len(log)
    BY <1>1, <2>4
  <2>7. Leases(k) = Leases(Len(log))
    <3>1. ASSUME NEW j \in Leases(Len(log)) PROVE j \in 1 .. k
      <4>1. /\ j \in 1 .. Len(log) /\ log[j].kind = "lease" /\ log[j].status = "committed"
        BY DEF Leases
      <4>2. j <= o /\ j # o
        BY <1>1, <2>4, <2>5, <4>1 DEF LeasesOrdered
      <4> QED BY <2>4, <2>6, <4>1, <4>2
    <3>2. \A j \in 1 .. k : j \in 1 .. Len(log)
      BY <1>1, <2>6
    <3> QED BY <3>1, <3>2 DEF Leases
  <2>8. \A j \in 1 .. k : j \in 1 .. Len(log)
    BY <1>1, <2>6
  <2>9. Current(k)
    BY <1>1, <2>7, <2>8 DEF Current
  <2> QED BY <2>3, <2>6, <2>9
<1> QED BY <1>2, <1>3

\* A step of another member leaves the first member where it is.
LEMMA FirstKept ==
  ASSUME FirstInv, UNCHANGED <<log, now>>, pc'[First] = pc[First],
         seen'[First] = seen[First], token'[First] = token[First],
         held'[First] = held[First], lease'[First] = lease[First],
         writer'[First] = writer[First]
  PROVE  FirstInv'
<1>1. First' = First /\ Leases(Len(log))' = Leases(Len(log))
  BY DEF First, Leases
<1> QED BY <1>1 DEF FirstInv, Entering, Claiming, Leading, FirstWrites, OpenIsProduced

\* Who has read goes on to decide on a current read.
LEMMA ReadsKept ==
  ASSUME TypeOK, SeenStable, ReadsInv, [Next]_vars, UNCHANGED now,
         \A n \in Member : pc'[n] = "evaluate" =>
           \/ pc[n] = "evaluate" /\ seen'[n] = seen[n]
           \/ UNCHANGED log /\ seen'[n] = LastStableOffset(log) /\ LogInv
  PROVE  ReadsInv'
<1>1. log \in Seq(LogRecord) /\ seen \in [Member -> Nat]
  BY DEF TypeOK, ClusterType, AcquireType
<1>2. ASSUME NEW n \in Member, pc'[n] = "evaluate"
      PROVE  Current(seen[n])'
  <2>1. CASE pc[n] = "evaluate" /\ seen'[n] = seen[n]
    <3>1. PICK k \in Nat : k = seen[n] /\ seen'[n] = k
      BY <1>1, <2>1
    <3>2. \A i \in 1 .. k : log'[i] = log[i]
      BY <3>1, SeenStep
    <3>3. Current(k)
      BY <2>1, <3>1 DEF ReadsInv
    <3>4. Current(k)'
      BY <3>2, <3>3, CurrentStays
    <3> QED BY <3>1, <3>4 DEF Current, Leases
  <2>2. CASE UNCHANGED log /\ seen'[n] = LastStableOffset(log) /\ LogInv
    <3>1. PICK k \in Nat : k = LastStableOffset(log) /\ seen'[n] = k
      BY <1>1, <2>2, LastStableTyped
    <3>2. Current(k)
      BY <1>1, <2>2, <3>1, StableIsCurrent
    <3>3. Current(k)'
      BY <2>2, <3>2, CurrentStays
    <3> QED BY <3>1, <3>3 DEF Current, Leases
  <2> QED BY <1>2, <2>1, <2>2
<1> QED BY <1>2 DEF ReadsInv

\* What a move of one process does.
LEMMA PcMoves ==
  ASSUME AcquireType, NEW m \in Member, NEW to, pc' = [pc EXCEPT ![m] = to]
  PROVE  pc'[m] = to /\ \A n \in Member : n # m => pc'[n] = pc[n]
BY DEF AcquireType

\* What the decision of a member makes it do.
LEMMA EvaluateMoves ==
  ASSUME NEW m \in Member, EvaluateState(m)
  PROVE  /\ pc[m] = "evaluate" /\ seen' = [seen EXCEPT ![m] = 0]
         /\ UNCHANGED <<now, coord, log, token, held, lease, writer, timing>>
         /\ \/ /\ Evaluate(RoleStateAt(seen[m]), m, LocalNow(m)).action \in Takes
               /\ pc' = [pc EXCEPT ![m] = "mint"]
            \/ /\ Evaluate(RoleStateAt(seen[m]), m, LocalNow(m)).action \notin Takes
               /\ \E to \in {"register", "pause"} : pc' = [pc EXCEPT ![m] = to]
<1>1. PICK d : d = Evaluate(RoleStateAt(seen[m]), m, LocalNow(m)) /\ Act(m, d)
  BY Zenon DEF EvaluateState
<1>2. \/ d.action \in Takes /\ pc' = [pc EXCEPT ![m] = "mint"]
      \/ d.action \notin Takes /\ \E to \in {"register", "pause"} : pc' = [pc EXCEPT ![m] = to]
  BY <1>1, Zenon DEF Act, Takes
<1>3. /\ pc[m] = "evaluate" /\ seen' = [seen EXCEPT ![m] = 0]
      /\ UNCHANGED <<now, coord, log, token, held, lease, writer, timing>>
  BY Zenon DEF EvaluateState, clusterVars, handleVars
<1> QED BY <1>1, <1>2, <1>3, Zenon

\* A standby has no token, so it writes nothing and its handle is not live.
LEMMA StandbyIsSilent ==
  ASSUME Standbys, TokenBacksWrites, NEW n \in Member, log = <<>> \/ n # First
  PROVE  /\ pc[n] \in {"idle", "read", "evaluate", "register", "pause"}
         /\ token[n] = NoEpoch /\ Silent(n)
<1>1. pc[n] \in {"idle", "read", "evaluate", "register", "pause"} /\ token[n] = NoEpoch
  BY DEF Standbys
<1> QED BY <1>1, WriterHasToken, FourWriters DEF Silent

\* A step of a standby that leaves the log alone.
LEMMA StandbyKept ==
  ASSUME TypeOK, Healthy, SeenStable, [Next]_vars, NEW m \in Member,
         log = <<>> \/ m # First,
         UNCHANGED <<now, coord, log, token, lease>>,
         pc'[m] \in {"idle", "read", "evaluate", "register", "pause"},
         \A n \in Member : n # m => /\ pc'[n] = pc[n] /\ seen'[n] = seen[n]
                                    /\ held'[n] = held[n] /\ writer'[n] = writer[n],
         pc'[m] = "evaluate" => seen'[m] = LastStableOffset(log)
  PROVE  Healthy'
<1>1. log \in Seq(LogRecord)
  BY DEF TypeOK, ClusterType
<1>2. LogInv' /\ First' = First
  BY LogSame DEF Healthy, First
<1>3. ReadsInv'
  <2>1. ReadsInv /\ LogInv
    BY DEF Healthy
  <2> QED BY <2>1, ReadsKept
<1>4. Standbys' /\ Tokens'
  BY <1>2 DEF Healthy, Standbys, Tokens
<1>5. ASSUME log # <<>> PROVE FirstInv'
  <2>1. First \in Member /\ First # m /\ FirstInv
    BY <1>1, <1>5, FirstTyped DEF Healthy
  <2> QED BY <2>1, FirstKept
<1> QED BY <1>2, <1>3, <1>4, <1>5 DEF Healthy

\* Standbys read, wait and register; they take nothing.
LEMMA StandbyStep ==
  ASSUME Calm, TypeOK, TimedInv, Healthy, SeenStable, TokenBacksWrites,
         NEW m \in Member, log = <<>> \/ m # First, AcquireStep(m)
  PROVE  Healthy'
<1>1. /\ log \in Seq(LogRecord) /\ seen \in [Member -> Nat] /\ AcquireType /\ HandleType
      /\ \A n \in Member : seen[n] <= Len(log)
  BY DEF TypeOK, ClusterType, AcquireType
<1>2. [Next]_vars
  BY DEF Next
<1>3. /\ pc[m] \in {"idle", "read", "evaluate", "register", "pause"}
      /\ token[m] = NoEpoch /\ Silent(m)
  BY StandbyIsSilent DEF Healthy
<1>4. CASE StartAcquire(m)
  <2>1. /\ UNCHANGED <<now, coord, log, token, lease, seen>>
        /\ pc' = [pc EXCEPT ![m] = "read"] /\ held' = [held EXCEPT ![m] = "none"]
        /\ writer' = [writer EXCEPT ![m] = AllOff]
    BY <1>4 DEF StartAcquire, clusterVars
  <2>2. \A n \in Member : n # m => writer'[n] = writer[n]
    <3>1. writer \in [Member -> [Writers -> WriterState]]
      BY <1>1, Zenon DEF HandleType
    <3> QED BY <2>1, <3>1
  <2>3. \A n \in Member : n # m => held'[n] = held[n]
    BY <1>1, <2>1, HeldSet
  <2>4. pc'[m] = "read" /\ \A n \in Member : n # m => pc'[n] = pc[n]
    BY <1>1, <2>1, PcMoves
  <2> QED BY <1>2, <2>1, <2>2, <2>3, <2>4, StandbyKept
<1>5. CASE ReadRoleState(m)
  <2>1. /\ UNCHANGED <<now, coord, log, token, lease, held, writer>>
        /\ pc' = [pc EXCEPT ![m] = "evaluate"]
        /\ seen' = [seen EXCEPT ![m] = LastStableOffset(log)]
    BY <1>5 DEF ReadRoleState, clusterVars, handleVars
  <2>2. pc'[m] = "evaluate" /\ \A n \in Member : n # m => pc'[n] = pc[n]
    BY <1>1, <2>1, PcMoves
  <2>3. seen'[m] = LastStableOffset(log) /\ \A n \in Member : n # m => seen'[n] = seen[n]
    BY <1>1, <2>1
  <2> QED BY <1>2, <2>1, <2>2, <2>3, StandbyKept
<1>6. CASE EvaluateState(m)
  <2>1. /\ pc[m] = "evaluate" /\ seen' = [seen EXCEPT ![m] = 0]
        /\ UNCHANGED <<now, coord, log, token, held, lease, writer, timing>>
    BY <1>6, EvaluateMoves
  <2>2. Current(seen[m]) /\ RecordsKept /\ LeasesOrdered
    BY <2>1 DEF Healthy, ReadsInv, LogInv
  <2>3. Evaluate(RoleStateAt(seen[m]), m, LocalNow(m)).action \notin Takes
    BY <1>1, <2>2, StandbyWaits
  <2>4. PICK to \in {"register", "pause"} : pc' = [pc EXCEPT ![m] = to]
    BY <1>6, <2>3, EvaluateMoves
  <2>5. pc'[m] = to /\ \A n \in Member : n # m => pc'[n] = pc[n]
    BY <1>1, <2>4, PcMoves
  <2>6. \A n \in Member : n # m => seen'[n] = seen[n]
    BY <1>1, <2>1
  <2> QED BY <1>2, <2>1, <2>4, <2>5, <2>6, StandbyKept
<1>7. CASE WakeUp(m)
  <2>1. /\ UNCHANGED <<now, coord, log, token, lease, held, writer, seen>>
        /\ pc' = [pc EXCEPT ![m] = "read"]
    BY <1>7 DEF WakeUp, clusterVars, handleVars
  <2>2. pc'[m] = "read" /\ \A n \in Member : n # m => pc'[n] = pc[n]
    BY <1>1, <2>1, PcMoves
  <2> QED BY <1>2, <2>1, <2>2, StandbyKept
<1>8. CASE Register(m)
  <2>1. /\ UNCHANGED <<now, coord, seen, token, held, lease, writer>>
        /\ pc' = [pc EXCEPT ![m] = "read"]
        /\ log' = Append(log, RegistrationRecord(m))
    BY <1>8 DEF Register, handleVars
  <2>2. pc'[m] = "read" /\ \A n \in Member : n # m => pc'[n] = pc[n]
    BY <1>1, <2>1, PcMoves
  <2>3. LogInv
    BY DEF Healthy
  <2>4. /\ LogInv' /\ log' # <<>>
        /\ First' = IF log = <<>> THEN m ELSE First
        /\ OpenOffsets(log') = OpenOffsets(log)
        /\ (\A i \in 1 .. Len(log) : log[i].kind = "registration")
           => \A i \in 1 .. Len(log') : log'[i].kind = "registration"
    BY <2>1, <2>3, LogRegister
  <2>5. \A i \in Leases(Len(log)) : i \in Leases(Len(log))' /\ log'[i].at = log[i].at
    <3>1. LogStep
      BY <1>2, NextReads
    <3> QED BY <1>1, <3>1, LeasesStay
  <2>6. ReadsInv'
    <3>1. ReadsInv
      BY DEF Healthy
    <3> QED BY <1>2, <2>1, <2>2, <3>1, ReadsKept
  <2>7. Standbys'
    <3>1. ASSUME NEW n \in Member, n # First'
          PROVE  pc'[n] \in {"idle", "read", "evaluate", "register", "pause"}
                 /\ token'[n] = NoEpoch
      <4>1. log = <<>> \/ n # First
        BY <2>4, <3>1
      <4>2. Standbys
        BY DEF Healthy
      <4> QED BY <2>1, <2>2, <4>1, <4>2 DEF Standbys
    <3> QED BY <2>4, <3>1 DEF Standbys
  <2>8. Tokens' /\ FirstInv'
    <3>1. CASE log = <<>>
      <4>1. First' = m /\ OpenOffsets(log') = {}
        BY <2>4, <3>1 DEF OpenOffsets
      <4>2. \A i \in 1 .. Len(log') : log'[i].kind = "registration"
        BY <2>4, <3>1
      <4>3. token'[m] = NoEpoch /\ coord' = NoEpoch
        BY <1>3, <2>1, <3>1 DEF Healthy, Tokens
      <4>4. \A w \in Writers : writer'[m][w].pc = "off"
        BY <1>3, <2>1 DEF Silent
      <4>5. Entering'
        BY <2>2, <4>1, <4>2, <4>3 DEF Entering
      <4>6. FirstWrites' /\ OpenIsProduced'
        BY <4>1, <4>4 DEF FirstWrites, OpenIsProduced
      <4> QED BY <2>4, <4>1, <4>3, <4>5, <4>6 DEF Tokens, FirstInv
    <3>2. CASE log # <<>>
      <4>1. First' = First /\ First \in Member /\ First # m
        BY <1>1, <2>4, <3>2, FirstTyped
      <4>2. pc'[First] = pc[First]
        BY <2>2, <4>1
      <4>3. FirstInv /\ token[First] = coord
        BY <3>2 DEF Healthy, Tokens
      <4>4. Entering => Entering'
        BY <2>1, <2>4, <4>1, <4>2 DEF Entering
      <4>5. Claiming => Claiming'
        BY <2>1, <4>1, <4>2 DEF Claiming
      <4>6. Leading => Leading'
        BY <2>1, <2>5, <4>1, <4>2 DEF Leading
      <4>7. ASSUME FirstWrites PROVE FirstWrites'
        <5>1. ASSUME NEW w \in Writers, writer[First][w].pc = "acked"
              PROVE  \E i \in Leases(Len(log))' : log'[i].at >= writer[First][w].at
          <6>1. PICK i \in Leases(Len(log)) : log[i].at >= writer[First][w].at
            BY <4>7, <5>1 DEF FirstWrites
          <6> QED BY <2>5, <6>1
        <5> QED BY <2>1, <2>4, <4>1, <4>7, <5>1 DEF FirstWrites
      <4>8. OpenIsProduced => OpenIsProduced'
        BY <2>1, <2>4, <4>1 DEF OpenIsProduced
      <4> QED BY <2>1, <2>4, <4>1, <4>3, <4>4, <4>5, <4>6, <4>7, <4>8 DEF FirstInv, Tokens
    <3> QED BY <3>1, <3>2
  <2> QED BY <2>4, <2>6, <2>7, <2>8 DEF Healthy
<1>9. CASE AcquireEpoch(m)
  BY <1>3, <1>9 DEF AcquireEpoch
<1>10. CASE CommitAcquire(m)
  BY <1>3, <1>10, FourWriters DEF CommitAcquire, Silent
<1> QED BY <1>4, <1>5, <1>6, <1>7, <1>8, <1>9, <1>10 DEF AcquireStep, CompeteStep

\* A step of the first member leaves the standbys where they are.
LEMMA FirstMoves ==
  ASSUME TypeOK, Healthy, SeenStable, [Next]_vars, UNCHANGED now, log # <<>>,
         log' # <<>>, First' = First, LogInv', Tokens', FirstInv',
         \A n \in Member : n # First => /\ pc'[n] = pc[n] /\ token'[n] = token[n]
                                        /\ seen'[n] = seen[n],
         pc'[First] = "evaluate" => UNCHANGED log /\ seen'[First] = LastStableOffset(log)
  PROVE  Healthy'
<1>1. ReadsInv'
  <2>1. ReadsInv /\ LogInv
    BY DEF Healthy
  <2> QED BY <2>1, ReadsKept
<1>2. Standbys'
  BY DEF Healthy, Standbys
<1> QED BY <1>1, <1>2 DEF Healthy

\* While it enters, the first member reads its registration, decides to take
\* the role and mints: no lease is open that the mint could abort.
LEMMA EnterStep ==
  ASSUME Calm, TypeOK, TimedInv, Healthy, SeenStable, TokenBacksWrites,
         log # <<>>, Entering, AcquireStep(First)
  PROVE  Healthy'
<1>1. /\ log \in Seq(LogRecord) /\ seen \in [Member -> Nat] /\ AcquireType /\ HandleType
      /\ (\A n \in Member : seen[n] <= Len(log)) /\ token \in [Member -> Token]
      /\ DOMAIN log = 1 .. Len(log)
  <2>1. token \in [Member -> Token]
    BY Zenon DEF TypeOK, HandleType
  <2> QED BY <2>1 DEF TypeOK, ClusterType, AcquireType
<1>2. First \in Member /\ Len(log) \in Nat /\ Len(log) >= 1
  BY <1>1, FirstTyped
<1>3. [Next]_vars
  BY <1>2 DEF Next
<1>4. /\ pc[First] \in {"read", "evaluate", "mint"} /\ token[First] = NoEpoch
      /\ \A i \in 1 .. Len(log) : log[i].kind = "registration"
  BY DEF Entering
<1>5. Silent(First)
  BY <1>2, <1>4, WriterHasToken, FourWriters DEF Silent
<1>6. OpenOffsets(log) = {}
  BY <1>1, <1>4 DEF OpenOffsets, Healthy, LogInv, RecordsKept, FirstRegistration
<1>7. LogInv /\ ReadsInv /\ Tokens /\ FirstInv
  BY DEF Healthy
<1>8. CASE ReadRoleState(First)
  <2>1. /\ UNCHANGED <<now, coord, log, token, lease, held, writer>>
        /\ pc' = [pc EXCEPT ![First] = "evaluate"]
        /\ seen' = [seen EXCEPT ![First] = LastStableOffset(log)]
    BY <1>8 DEF ReadRoleState, clusterVars, handleVars
  <2>2. pc'[First] = "evaluate" /\ \A n \in Member : n # First => pc'[n] = pc[n]
    BY <1>1, <1>2, <2>1, PcMoves
  <2>3. /\ seen'[First] = LastStableOffset(log)
        /\ \A n \in Member : n # First => seen'[n] = seen[n]
    BY <1>1, <1>2, <2>1
  <2>4. LastStableOffset(log) >= 1
    BY <1>2, <1>6 DEF LastStableOffset
  <2>5. First' = First /\ LogInv' /\ Tokens'
    BY <1>7, <2>1, LogSame DEF First, Tokens
  <2>6. Entering'
    BY <1>4, <2>1, <2>2, <2>3, <2>4, <2>5 DEF Entering
  <2>7. FirstWrites' /\ OpenIsProduced'
    BY <1>5, <1>6, <2>1, <2>5 DEF FirstWrites, OpenIsProduced, Silent
  <2>8. FirstInv'
    BY <2>6, <2>7 DEF FirstInv
  <2> QED BY <1>2, <1>3, <2>1, <2>2, <2>3, <2>5, <2>8, FirstMoves
<1>9. CASE EvaluateState(First)
  <2>1. /\ pc[First] = "evaluate" /\ seen' = [seen EXCEPT ![First] = 0]
        /\ UNCHANGED <<now, coord, log, token, held, lease, writer, timing>>
    BY <1>2, <1>9, EvaluateMoves
  <2>2. Current(seen[First]) /\ RecordsKept /\ seen[First] >= 1
    BY <1>2, <1>7, <2>1 DEF ReadsInv, LogInv, Entering
  <2>3. Evaluate(RoleStateAt(seen[First]), First, LocalNow(First)).action \in Takes
    BY <1>1, <1>2, <1>4, <2>2, FirstTakes
  <2>4. pc' = [pc EXCEPT ![First] = "mint"]
    BY <1>2, <1>9, <2>3, EvaluateMoves
  <2>5. pc'[First] = "mint" /\ \A n \in Member : n # First => pc'[n] = pc[n]
    BY <1>1, <1>2, <2>4, PcMoves
  <2>6. \A n \in Member : n # First => seen'[n] = seen[n]
    BY <1>1, <2>1
  <2>7. First' = First /\ LogInv' /\ Tokens'
    BY <1>7, <2>1, LogSame DEF First, Tokens
  <2>8. Entering'
    BY <1>4, <2>1, <2>5, <2>7 DEF Entering
  <2>9. FirstWrites' /\ OpenIsProduced'
    BY <1>5, <1>6, <2>1, <2>7 DEF FirstWrites, OpenIsProduced, Silent
  <2>10. FirstInv'
    BY <2>8, <2>9 DEF FirstInv
  <2> QED BY <1>2, <1>3, <2>1, <2>5, <2>6, <2>7, <2>10, FirstMoves
<1>10. CASE AcquireEpoch(First)
  <2>1. /\ UNCHANGED <<now, seen, held>> /\ pc' = [pc EXCEPT ![First] = "write"]
        /\ coord' = NextToken(coord) /\ log' = EndOpen(log, "aborted")
        /\ token' = [token EXCEPT ![First] = NextToken(coord)]
        /\ writer' = [writer EXCEPT ![First]["acquire"] =
                        [pc |-> "granted", at |-> LocalNow(First)]]
    BY <1>10 DEF AcquireEpoch, MintAtCoordinator
  <2>2. log' = log
    <3>1. log' = [i \in 1 .. Len(log) |-> log[i]]
      BY <1>1, <1>6, <2>1 DEF EndOpen, OpenOffsets
    <3> QED BY <1>1, <3>1
  <2>3. First' = First /\ LogInv'
    BY <1>7, <2>1, <2>2, LogSame DEF First
  <2>4. pc'[First] = "write" /\ \A n \in Member : n # First => pc'[n] = pc[n]
    BY <1>1, <1>2, <2>1, PcMoves
  <2>5. token'[First] = coord' /\ \A n \in Member : n # First => token'[n] = token[n]
    BY <1>1, <1>2, <2>1
  <2>6. /\ writer'[First]["acquire"] = [pc |-> "granted", at |-> LocalNow(First)]
        /\ \A u \in Writers : u # "acquire" => writer'[First][u] = writer[First][u]
    <3>1. PICK v : v = [pc |-> "granted", at |-> LocalNow(First)]
      OBVIOUS
    <3>2. writer' = [writer EXCEPT ![First]["acquire"] = v]
      BY <2>1, <3>1
    <3>3. writer \in [Member -> [Writers -> WriterState]]
      BY <1>1, Zenon DEF HandleType
    <3>4. /\ writer'[First]["acquire"] = v
          /\ \A u \in Writers : u # "acquire" => writer'[First][u] = writer[First][u]
      BY <1>2, <3>2, <3>3, FourWriters
    <3> QED BY <3>1, <3>4
  <2>7. /\ writer'[First]["acquire"].pc = "granted"
        /\ \A u \in Writers : u # "acquire" => writer'[First][u].pc = "off"
    BY <1>5, <2>6 DEF Silent
  <2>8. Claiming'
    BY <1>5, <2>1, <2>3, <2>4, <2>7 DEF Claiming, Silent
  <2>9. \A u \in Writers : writer'[First][u].pc \in {"granted", "off"}
    BY <2>7
  <2>10. FirstWrites' /\ OpenIsProduced'
    BY <1>6, <2>2, <2>3, <2>9 DEF FirstWrites, OpenIsProduced
  <2>11. FirstInv' /\ Tokens'
    BY <2>2, <2>3, <2>5, <2>8, <2>10 DEF FirstInv, Tokens
  <2> QED BY <1>2, <1>3, <2>1, <2>2, <2>3, <2>4, <2>5, <2>11, FirstMoves
<1>11. CASE StartAcquire(First) \/ WakeUp(First) \/ Register(First)
  BY <1>4, <1>11 DEF StartAcquire, WakeUp, Register
<1>12. CASE CommitAcquire(First)
  BY <1>5, <1>12, FourWriters DEF CommitAcquire, Silent
<1> QED BY <1>8, <1>9, <1>10, <1>11, <1>12 DEF AcquireStep, CompeteStep

\* Who writes: the claim its first lease, the leader its renewals.
LEMMA WhoWrites ==
  ASSUME Healthy, TokenBacksWrites, NEW f \in Member, f = First, log # <<>>,
         NEW w \in Writers, writer[f][w].pc \in Sending
  PROVE  /\ w # "resign" /\ ~Cancelled(f, w) /\ token[f] = coord
         /\ \/ Claiming /\ w = "acquire" /\ writer[f][w].pc # "acked"
            \/ Leading /\ w \in {"loop", "renew"}
<1>1. writer[f][w].pc # "off"
  BY DEF Sending
<1>2. ~Entering
  BY <1>1, WriterHasToken DEF Entering
<1>3. Claiming \/ Leading
  BY <1>2 DEF Healthy, FirstInv
<1>4. Claiming => w = "acquire" /\ writer[f][w].pc # "acked"
  BY <1>1 DEF Claiming
<1>5. Leading => w \in {"loop", "renew"} /\ held[f] = "live"
  BY <1>1 DEF Leading, Writers
<1>6. token[f] = coord
  BY DEF Healthy, Tokens
<1> QED BY <1>3, <1>4, <1>5, <1>6 DEF Cancelled

\* The lease that a leader or an answered write refers to stays in the log.
LEMMA LeaseStaysShown ==
  ASSUME log \in Seq(LogRecord), LogStep, NEW at, \E i \in Leases(Len(log)) : log[i].at >= at
  PROVE  \E i \in Leases(Len(log))' : log'[i].at >= at
<1>1. PICK i \in Leases(Len(log)) : log[i].at >= at
  OBVIOUS
<1>2. i \in Leases(Len(log))' /\ log'[i].at = log[i].at
  BY LeasesStay
<1> QED BY <1>1, <1>2

\* The first member sends a lease.
LEMMA ProduceStep ==
  ASSUME TypeOK, TimedInv, Healthy, SeenStable, TokenBacksWrites, log # <<>>,
         NEW f \in Member, f = First, NEW w \in Writers, Produce(f, w)
  PROVE  Healthy'
<1>1. /\ log \in Seq(LogRecord) /\ HandleType
  BY DEF TypeOK, ClusterType
<1>2. [Next]_vars
  BY DEF Next, WriteStep
<1>3. /\ writer[f][w].pc = "granted" /\ ProducerFree(f) /\ SetPc(f, w, "produced")
      /\ log' = Append(log, LeaseRecord(f, writer[f][w].at, w = "resign"))
      /\ UNCHANGED <<pc, held, lease, now, coord, token, seen>>
  BY DEF Produce, WriteUnchanged
<1>4. /\ w # "resign" /\ ~Cancelled(f, w) /\ token[f] = coord
      /\ (Claiming /\ w = "acquire") \/ (Leading /\ w \in {"loop", "renew"})
  BY <1>3, WhoWrites DEF Sending
<1>5. FirstInv /\ LogInv /\ Tokens
  BY DEF Healthy
<1>6. OpenOffsets(log) = {}
  BY <1>3, <1>5 DEF FirstInv, OpenIsProduced, ProducerFree
<1>7. writer[f][w].at = LocalNow(First)
  BY <1>3 DEF TimedInv, SentAtOnce, Sending
<1>8. log' = Append(log, LeaseRecord(First, LocalNow(First), FALSE))
  <2>1. (w = "resign") = FALSE
    BY <1>4
  <2> QED BY <1>3, <1>7, <2>1
<1>9. LogInv' /\ log' # <<>> /\ First' = First /\ OpenOffsets(log') # {}
  BY <1>3, <1>5, <1>6, <1>8, LogProduce
<1>10. /\ writer'[f][w].pc = "produced"
       /\ \A u \in Writers : u # w => writer'[f][u] = writer[f][u]
  BY <1>1, <1>3, PcSet
<1>11. LogStep
  BY <1>2, NextReads
<1>12. Claiming /\ w = "acquire" => Claiming'
  BY <1>3, <1>9, <1>10 DEF Claiming
<1>13. Leading /\ w \in {"loop", "renew"} => Leading'
  <2>1. ASSUME Leading PROVE \E i \in Leases(Len(log))' : log'[i].at >= lease[f]
    BY <1>1, <1>11, <2>1, LeaseStaysShown DEF Leading
  <2> QED BY <1>3, <1>9, <1>10, <2>1, FourWriters DEF Leading
<1>14. FirstWrites'
  <2>1. \A v \in Writers : writer'[f][v].pc = "produced" => v = w
    BY <1>3, <1>10 DEF ProducerFree
  <2>2. ASSUME NEW v \in Writers, writer'[f][v].pc = "acked"
        PROVE  \E i \in Leases(Len(log))' : log'[i].at >= writer'[f][v].at
    <3>1. v # w /\ writer'[f][v] = writer[f][v]
      BY <1>10, <2>2
    <3>2. \E i \in Leases(Len(log)) : log[i].at >= writer[f][v].at
      BY <1>5, <2>2, <3>1 DEF FirstInv, FirstWrites
    <3> QED BY <1>1, <1>11, <3>1, <3>2, LeaseStaysShown
  <2> QED BY <1>9, <2>1, <2>2 DEF FirstWrites
<1>15. OpenIsProduced'
  BY <1>9, <1>10 DEF OpenIsProduced
<1>16. FirstInv' /\ Tokens'
  BY <1>3, <1>4, <1>5, <1>9, <1>12, <1>13, <1>14, <1>15 DEF FirstInv, Tokens
<1>17. pc'[First] # "evaluate"
  BY <1>3, <1>4 DEF Claiming, Leading
<1> QED BY <1>2, <1>3, <1>9, <1>16, <1>17, FirstMoves

\* The commit of a renewal.
LEMMA CommitStep ==
  ASSUME TypeOK, TimedInv, Healthy, SeenStable, TokenBacksWrites, log # <<>>,
         NEW f \in Member, f = First, NEW w \in Writers, Commit(f, w)
  PROVE  Healthy'
<1>1. /\ log \in Seq(LogRecord) /\ HandleType
  BY DEF TypeOK, ClusterType
<1>2. [Next]_vars
  BY DEF Next, WriteStep
<1>3. /\ writer[f][w].pc = "produced" /\ w # "acquire" /\ OpenOffsets(log) # {}
      /\ log' = EndOpen(log, "committed")
      /\ SetPc(f, w, IF w = "resign" THEN "done" ELSE "acked")
      /\ UNCHANGED <<pc, held, lease, now, coord, token, seen>>
  BY DEF Commit, WriteUnchanged
<1>4. w # "resign" /\ Leading /\ w \in {"loop", "renew"}
  BY <1>3, WhoWrites DEF Sending
<1>5. FirstInv /\ LogInv /\ Tokens
  BY DEF Healthy
<1>6. /\ LogInv' /\ log' # <<>> /\ First' = First /\ OpenOffsets(log') = {}
      /\ \E i \in Leases(Len(log))' : log'[i].at = LocalNow(First)
  BY <1>3, <1>5, LogCommit
<1>7. SetPc(f, w, "acked")
  BY <1>3, <1>4
<1>8. /\ writer'[f][w].pc = "acked" /\ writer'[f][w].at = writer[f][w].at
      /\ \A u \in Writers : u # w => writer'[f][u] = writer[f][u]
  BY <1>1, <1>7, PcSet
<1>9. writer[f][w].at = LocalNow(First)
  BY <1>3 DEF TimedInv, SentAtOnce, Sending
<1>10. LogStep
  BY <1>2, NextReads
<1>11. Leading'
  <2>1. \E i \in Leases(Len(log))' : log'[i].at >= lease[f]
    BY <1>1, <1>4, <1>10, LeaseStaysShown DEF Leading
  <2> QED BY <1>3, <1>4, <1>6, <1>8, <2>1, FourWriters DEF Leading
<1>12. \A v \in Writers : writer'[f][v].pc # "produced"
  BY <1>3, <1>5, <1>8 DEF FirstInv, FirstWrites
<1>13. ASSUME NEW v \in Writers, writer'[f][v].pc = "acked"
       PROVE  \E i \in Leases(Len(log))' : log'[i].at >= writer'[f][v].at
  <2>1. CASE v = w
    <3>1. PICK i \in Leases(Len(log))' : log'[i].at = LocalNow(First)
      BY <1>6
    <3>2. PICK t \in Int : t = LocalNow(First)
      BY HandleInstants
    <3>3. log'[i].at >= t
      BY <3>1, <3>2
    <3> QED BY <1>8, <1>9, <2>1, <3>1, <3>2, <3>3
  <2>2. CASE v # w
    <3>1. writer'[f][v] = writer[f][v]
      BY <1>8, <2>2
    <3>2. \E i \in Leases(Len(log)) : log[i].at >= writer[f][v].at
      BY <1>5, <1>13, <3>1 DEF FirstInv, FirstWrites
    <3> QED BY <1>1, <1>10, <3>1, <3>2, LeaseStaysShown
  <2> QED BY <2>1, <2>2
<1>14. FirstWrites' /\ OpenIsProduced'
  BY <1>6, <1>12, <1>13 DEF FirstWrites, OpenIsProduced
<1>15. FirstInv' /\ Tokens'
  BY <1>3, <1>5, <1>6, <1>11, <1>14 DEF FirstInv, Tokens
<1>16. pc'[First] # "evaluate"
  BY <1>3, <1>4 DEF Leading
<1> QED BY <1>2, <1>3, <1>6, <1>15, <1>16, FirstMoves

\* The commit of the first lease makes the handle live.
LEMMA ClaimStep ==
  ASSUME TypeOK, TimedInv, Healthy, SeenStable, TokenBacksWrites, log # <<>>,
         NEW f \in Member, f = First, CommitAcquire(f)
  PROVE  Healthy'
<1>1. /\ log \in Seq(LogRecord) /\ HandleType /\ AcquireType
  BY DEF TypeOK, ClusterType
<1>2. [Next]_vars
  BY DEF Next, AcquireStep, CompeteStep
<1>3. /\ writer[f]["acquire"].pc = "produced" /\ OpenOffsets(log) # {}
      /\ log' = EndOpen(log, "committed") /\ pc' = [pc EXCEPT ![f] = "idle"]
      /\ held' = [held EXCEPT ![f] = "live"]
      /\ lease' = [lease EXCEPT ![f] = writer[f]["acquire"].at]
      /\ writer' = [writer EXCEPT ![f]["acquire"] = Off,
                                  ![f]["loop"] = [pc |-> "top", at |-> 0]]
      /\ UNCHANGED <<now, coord, token, seen>>
  BY DEF CommitAcquire, WriteUnchanged
<1>4. Claiming
  BY <1>3, WhoWrites, FourWriters DEF Sending
<1>5. FirstInv /\ LogInv /\ Tokens
  BY DEF Healthy
<1>6. /\ LogInv' /\ log' # <<>> /\ First' = First /\ OpenOffsets(log') = {}
      /\ \E i \in Leases(Len(log))' : log'[i].at = LocalNow(First)
  BY <1>3, <1>5, LogCommit
<1>7. /\ writer'[f]["acquire"].pc = "off" /\ writer'[f]["loop"].pc = "top"
      /\ \A u \in Writers : u \notin {"acquire", "loop"} => writer'[f][u] = writer[f][u]
  <2>1. writer \in [Member -> [Writers -> WriterState]]
    BY <1>1, Zenon DEF HandleType
  <2> QED BY <1>3, <2>1, FourWriters DEF Off
<1>8. held'[f] = "live"
  BY <1>1, <1>3, HeldSet
<1>9. pc'[f] = "idle" /\ \A n \in Member : n # f => pc'[n] = pc[n]
  BY <1>1, <1>3, PcMoves
<1>10. lease'[f] = LocalNow(First)
  <2>1. lease \in [Member -> Int]
    BY <1>1, Zenon DEF HandleType
  <2>2. writer[f]["acquire"].at = LocalNow(First)
    BY <1>3, FourWriters DEF TimedInv, SentAtOnce, Sending
  <2> QED BY <1>3, <2>1, <2>2
<1>11. \E i \in Leases(Len(log))' : log'[i].at >= lease'[f]
  <2>1. PICK i \in Leases(Len(log))' : log'[i].at = LocalNow(First)
    BY <1>6
  <2>2. PICK t \in Int : t = LocalNow(First)
    BY HandleInstants
  <2>3. log'[i].at >= t /\ lease'[f] = t
    BY <1>10, <2>1, <2>2
  <2> QED BY <2>1, <2>3
<1>12. /\ writer'[f]["renew"].pc = "off" /\ writer'[f]["resign"].pc = "off"
       /\ \A u \in Writers : writer'[f][u].pc \in {"off", "top"}
  BY <1>4, <1>7, FourWriters DEF Claiming, Writers
<1>13. Leading'
  BY <1>6, <1>7, <1>8, <1>9, <1>11, <1>12 DEF Leading
<1>14. FirstWrites' /\ OpenIsProduced'
  BY <1>6, <1>12 DEF FirstWrites, OpenIsProduced
<1>15. FirstInv' /\ Tokens'
  BY <1>3, <1>5, <1>6, <1>13, <1>14 DEF FirstInv, Tokens
<1> QED BY <1>2, <1>3, <1>6, <1>9, <1>15, FirstMoves

\* A step of the leader's handle that sends nothing.
LEMMA LeadsOn ==
  ASSUME TypeOK, Healthy, SeenStable, [Next]_vars, log # <<>>, Leading,
         UNCHANGED <<now, coord, log, pc, seen, token, held>>,
         NEW f \in Member, f = First, NEW w \in Writers,
         writer[f][w].pc # "produced",
         \/ w = "loop" /\ writer'[f][w].pc \in {"top", "sleep", "granted"}
         \/ w = "renew" /\ writer'[f][w].pc \in {"off", "granted"},
         \A u \in Writers : u # w => writer'[f][u] = writer[f][u],
         \E i \in Leases(Len(log)) : log[i].at >= lease'[f]
  PROVE  Healthy'
<1>1. FirstInv /\ LogInv /\ Tokens
  BY DEF Healthy
<1>2. First' = First /\ Leases(Len(log))' = Leases(Len(log)) /\ LogInv' /\ Tokens'
  BY <1>1, LogSame DEF First, Leases, Tokens
<1>3. Leading'
  BY <1>2, FourWriters DEF Leading
<1>4. \A v \in Writers : writer'[f][v].pc \in {"produced", "acked"} =>
        v # w /\ writer'[f][v] = writer[f][v]
  OBVIOUS
<1>5. FirstWrites'
  BY <1>1, <1>2, <1>4 DEF FirstInv, FirstWrites
<1>6. OpenIsProduced'
  <2>1. ASSUME OpenOffsets(log) # {} PROVE \E v \in Writers : writer'[f][v].pc = "produced"
    <3>1. PICK v \in Writers : writer[f][v].pc = "produced"
      BY <1>1, <2>1 DEF FirstInv, OpenIsProduced
    <3> QED BY <3>1
  <2> QED BY <1>2, <2>1 DEF OpenIsProduced
<1>7. FirstInv'
  BY <1>3, <1>5, <1>6 DEF FirstInv
<1>8. pc'[First] # "evaluate"
  BY DEF Leading
<1> QED BY <1>2, <1>7, <1>8, FirstMoves

\* An answered renewal gives the handle its lease.
LEMMA AckStep ==
  ASSUME TypeOK, TimedInv, Healthy, SeenStable, TokenBacksWrites, log # <<>>,
         NEW f \in Member, f = First, NEW w \in Writers, RenewAcked(f, w)
  PROVE  Healthy'
<1>1. HandleType
  BY DEF TypeOK
<1>2. [Next]_vars
  BY DEF Next, WriteStep
<1>3. /\ writer[f][w].pc = "acked" /\ lease' = [lease EXCEPT ![f] = writer[f][w].at]
      /\ SetPc(f, w, IF w = "loop" THEN "top" ELSE "off")
      /\ UNCHANGED <<now, coord, log, pc, seen, token, held>>
  BY DEF RenewAcked, HandleUnchanged, clusterVars, acquireVars
<1>4. Leading /\ w \in {"loop", "renew"}
  BY <1>3, WhoWrites DEF Sending
<1>5. /\ writer'[f][w].pc = IF w = "loop" THEN "top" ELSE "off"
      /\ \A u \in Writers : u # w => writer'[f][u] = writer[f][u]
  BY <1>1, <1>3, PcSet
<1>6. lease'[f] = writer[f][w].at
  <2>1. lease \in [Member -> Int]
    BY <1>1, Zenon DEF HandleType
  <2> QED BY <1>3, <2>1
<1>7. \E i \in Leases(Len(log)) : log[i].at >= lease'[f]
  BY <1>3, <1>6 DEF Healthy, FirstInv, FirstWrites
<1>8. \/ w = "loop" /\ writer'[f][w].pc \in {"top", "sleep", "granted"}
      \/ w = "renew" /\ writer'[f][w].pc \in {"off", "granted"}
  BY <1>4, <1>5
<1> QED BY <1>2, <1>3, <1>4, <1>5, <1>7, <1>8, LeadsOn

\* The loop of the leader times, sleeps and renews, and callers renew.
LEMMA HandleStep ==
  ASSUME Calm, TypeOK, TimedInv, Healthy, SeenStable, TokenBacksWrites, log # <<>>,
         NEW f \in Member, f = First, LoopStep(f) \/ CallerStep(f)
  PROVE  Healthy'
<1>1. HandleType /\ "loop" \in Writers /\ "renew" \in Writers /\ "resign" \in Writers
  BY FourWriters DEF TypeOK
<1>2. [Next]_vars
  BY DEF Next
<1>3. Leading
  <2>1. held[f] = "live" \/ \E w \in Writers : w # "acquire" /\ writer[f][w].pc # "off"
    <3>1. CASE LoopStep(f)
      BY <1>1, <3>1 DEF LoopStep, LoopTop, LoopRenew, LoopFailed, LoopRetry, LoopStops
    <3>2. CASE CallerStep(f)
      BY <1>1, <3>2, Zenon DEF CallerStep, CallRenew, CallResign, ResignEnds
    <3> QED BY <3>1, <3>2
  <2>2. ~Claiming
    BY <2>1 DEF Claiming
  <2>3. ~Entering
    BY <1>1, <2>1, WriterHasToken DEF Entering
  <2> QED BY <2>2, <2>3 DEF Healthy, FirstInv
<1>4. /\ held[f] = "live" /\ writer[f]["resign"].pc = "off"
      /\ writer[f]["loop"].pc \in {"top", "sleep", "granted", "produced", "acked"}
      /\ \E i \in Leases(Len(log)) : log[i].at >= lease[f]
  BY <1>3 DEF Leading
<1>5. CASE LoopTop(f)
  <2>1. /\ writer[f]["loop"].pc = "top" /\ SetPc(f, "loop", "sleep")
        /\ UNCHANGED <<now, coord, log, pc, seen, token, held, lease>>
    BY <1>5 DEF LoopTop, HandleUnchanged, clusterVars, acquireVars
  <2>2. /\ writer'[f]["loop"].pc = "sleep"
        /\ \A u \in Writers : u # "loop" => writer'[f][u] = writer[f][u]
    BY <1>1, <2>1, PcSet
  <2> QED BY <1>1, <1>2, <1>3, <1>4, <2>1, <2>2, LeadsOn
<1>6. ASSUME NEW w \in {"loop", "renew"}, writer[f][w].pc # "produced",
             writer' = [writer EXCEPT ![f][w] = [pc |-> "granted", at |-> LocalNow(f)]],
             UNCHANGED <<now, coord, log, pc, seen, token, held, lease>>
      PROVE  Healthy'
  <2>1. writer \in [Member -> [Writers -> WriterState]] /\ w \in Writers
    BY <1>1, Zenon DEF HandleType
  <2>2. /\ writer'[f][w].pc = "granted"
        /\ \A u \in Writers : u # w => writer'[f][u] = writer[f][u]
    BY <1>6, <2>1
  <2> QED BY <1>2, <1>3, <1>4, <1>6, <2>1, <2>2, LeadsOn
<1>7. CASE LoopRenew(f)
  BY <1>6, <1>7 DEF LoopRenew, HandleUnchanged, clusterVars, acquireVars
<1>8. CASE CallRenew(f)
  BY <1>6, <1>8 DEF CallRenew, HandleUnchanged, clusterVars, acquireVars
<1>9. CASE LoopFailed(f) \/ LoopRetry(f) \/ LoopStops(f)
  <2>1. \/ writer[f]["loop"].pc \in {"failed", "retry"} \/ held[f] # "live"
    BY <1>9, Zenon DEF LoopFailed, LoopRetry, LoopStops
  <2> QED BY <1>4, <2>1
<1>10. CASE CallResign(f) \/ ResignEnds(f)
  <2>1. "resign" \in CallerCalls \/ writer[f]["resign"].pc = "checked"
    BY <1>10, Zenon DEF CallResign, ResignEnds
  <2> QED BY <1>4, <2>1 DEF Calm
<1> QED BY <1>5, <1>7, <1>8, <1>9, <1>10 DEF LoopStep, CallerStep

\* A lease that is open was granted in this tick: no transaction times out.
LEMMA NothingTimesOut ==
  ASSUME Calm, TypeOK, TimedInv, LogInv
  PROVE  ~TimedOut
<1>1. log \in Seq(LogRecord) /\ DOMAIN log = 1 .. Len(log)
  BY DEF TypeOK, ClusterType
<1>2. ASSUME NEW i \in OpenOffsets(log), ~LiveAt(log[i].deadline, LocalNow(log[i].member))
      PROVE  FALSE
  <2>1. i \in 1 .. Len(log) /\ log[i].status = "open"
    BY <1>1, <1>2 DEF OpenOffsets
  <2>2. /\ log[i].kind = "lease" /\ log[i].member = First /\ First \in Member
        /\ log[i].at = LocalNow(First) /\ log[i].deadline = GrantDeadline(log[i].at)
    BY <1>1, <2>1, FirstTyped
       DEF LogInv, RecordsKept, FirstRegistration, LeaseOfFirst
  <2>3. PICK m \in Member : m = First
    BY <2>2
  <2>4. /\ now \in Nat /\ Skew[m] \in Int /\ now + Skew[m] + Duration <= MaxMillis
        /\ Duration \in Nat \ {0} /\ RenewInterval \in Nat \ {0} /\ RenewInterval < Duration
        /\ MaxMillis \in Nat
    BY CalmClocks DEF LocalNow
  <2>5. PICK t \in Int : t = LocalNow(m) /\ t + Duration <= MaxMillis
    BY <2>4 DEF LocalNow
  <2>6. GrantDeadline(t) \in Int /\ t < GrantDeadline(t)
    BY <2>4, <2>5, LeaseConfigAssumption DEF GrantDeadline, AddMillis
  <2>7. LiveAt(GrantDeadline(t), t)
    BY <2>5, <2>6 DEF LiveAt
  <2> QED BY <1>2, <2>2, <2>3, <2>5, <2>7, Zenon
<1> QED BY <1>2 DEF TimedOut

\* One tick later the newest lease is still recent.
LEMMA StillRecent ==
  ASSUME NEW at \in Int, NEW l \in Int, NEW s \in Int, NEW d \in Int, NEW t \in Int,
         at >= l, s <= l, t < s + d
  PROVE  at >= (t + 1) - d
OBVIOUS

\* The clock moves while the leader sleeps before its renewal is due, so the
\* newest lease stays younger than a renew interval.
LEMMA TickHealthy ==
  ASSUME Calm, TypeOK, TimedInv, Healthy, PromptTick
  PROVE  Healthy'
<1>1. /\ now' = now + 1 /\ now \in Nat
      /\ UNCHANGED <<coord, log, pc, seen, token, held, lease, writer, timing>>
  BY DEF PromptTick, Tick, clusterVars, acquireVars, handleVars, TypeOK, ClusterType
<1>2. \A n \in Member : Waiting(n)
  BY DEF PromptTick
<1>3. log \in Seq(LogRecord) /\ DOMAIN log = 1 .. Len(log) /\ Len(log) \in Nat
  BY DEF TypeOK, ClusterType
<1>4. ReadsInv'
  <2>1. \A n \in Member : pc[n] # "evaluate"
    BY <1>2 DEF Waiting
  <2> QED BY <1>1, <2>1 DEF ReadsInv
<1>5. First' = First /\ Leases(Len(log))' = Leases(Len(log))
  BY <1>1 DEF First, Leases
<1>6. Standbys' /\ Tokens'
  BY <1>1, <1>5 DEF Healthy, Standbys, Tokens
<1>7. CASE log = <<>>
  <2>1. Len(log) = 0 /\ Len(log') = 0 /\ log' = <<>>
    BY <1>1, <1>7
  <2>2. Leases(Len(log))' = {} /\ Current(Len(log))'
    BY <2>1 DEF Leases, Current
  <2>3. RecordsKept' /\ LeasesOrdered'
    BY <2>1 DEF RecordsKept, LeasesOrdered
  <2> QED BY <1>4, <1>6, <2>1, <2>2, <2>3 DEF Healthy, LogInv
<1>8. CASE log # <<>>
  <2>1. First \in Member /\ FirstInv /\ LogInv
    BY <1>3, <1>8, FirstTyped DEF Healthy
  <2>2. PICK f \in Member : f = First
    BY <2>1
  <2>3. \A w \in Writers :
          \/ writer[f][w].pc \in {"off", "done"}
          \/ writer[f][w].pc = "sleep" /\ ~RenewDue(f)
          \/ writer[f][w].pc = "retry"
    BY <1>2 DEF Waiting
  <2>4. pc[f] \in {"down", "idle", "pause"}
    BY <1>2 DEF Waiting
  <2>5. Leading
    BY <2>1, <2>2, <2>3, <2>4, FourWriters DEF FirstInv, Entering, Claiming
  <2>6. writer[f]["loop"].pc = "sleep" /\ ~RenewDue(f) /\ held[f] = "live"
    BY <2>2, <2>3, <2>5, FourWriters DEF Leading
  <2>7. \A i \in 1 .. Len(log) : log[i].status # "open"
    BY <1>3, <2>1, <2>2, <2>3 DEF FirstInv, OpenIsProduced, OpenOffsets
  <2>8. PICK t \in Int : t = LocalNow(f) /\ LocalNow(f)' = t + 1
    <3>1. LocalNow(f) \in Int /\ Skew[f] \in Int
      BY HandleInstants
    <3> QED BY <1>1, <3>1 DEF LocalNow
  <2>9. LocalNow(First)' = t + 1 /\ LocalNow(First) = t
    BY <1>5, <2>2, <2>8 DEF LocalNow
  <2>10. RecordsKept'
    <3> SUFFICES ASSUME NEW i \in 1 .. Len(log')
                 PROVE  (IF log[i].kind = "registration" THEN FirstRegistration(i)
                                                         ELSE LeaseOfFirst(i))'
      BY DEF RecordsKept
    <3>1. /\ IF log[i].kind = "registration" THEN FirstRegistration(i) ELSE LeaseOfFirst(i)
          /\ log'[i] = log[i] /\ log[i].status # "open" /\ log[i].at \in Int
      BY <1>1, <1>3, <2>1, <2>7, FirstTyped DEF LogInv, RecordsKept
    <3>2. CASE log[i].kind = "registration"
      BY <1>5, <3>1, <3>2 DEF FirstRegistration
    <3>3. CASE log[i].kind # "registration"
      <4>1. LeaseOfFirst(i)
        BY <3>1, <3>3
      <4>2. log[i].at <= t + 1
        BY <2>9, <3>1, <4>1 DEF LeaseOfFirst
      <4>3. LeaseOfFirst(i)'
        BY <1>5, <2>9, <3>1, <4>1, <4>2 DEF LeaseOfFirst
      <4> QED BY <3>1, <3>3, <4>3
    <3> QED BY <3>2, <3>3
  <2>11. LeasesOrdered'
    BY <1>1, <2>1 DEF LogInv, LeasesOrdered
  <2>12. Current(Len(log))'
    <3>1. PICK i \in Leases(Len(log)) : log[i].at >= lease[f]
      BY <2>2, <2>5 DEF Leading
    <3>2. i \in 1 .. Len(log) /\ log[i].at \in Int
      BY <1>3, <3>1, FirstTyped DEF Leases
    <3>3. timing[f] <= lease[f] /\ timing[f] \in Int /\ lease[f] \in Int
      BY <2>6, HandleInstants DEF TimedInv, Lived
    <3>4. t < timing[f] + RenewInterval
      <4>1. PICK s \in Int : s = timing[f]
        BY <3>3
      <4>2. PICK r \in Int : r = RenewAt(s, GrantDeadline(s)) /\ r <= s + RenewInterval
        BY <4>1, RenewInTime
      <4>3. t < r
        BY <2>6, <2>8, <4>1, <4>2 DEF RenewDue
      <4> QED BY <4>1, <4>2, <4>3, LeaseConfigAssumption
    <3>5. log[i].at >= (t + 1) - RenewInterval
      BY <3>1, <3>2, <3>3, <3>4, StillRecent, LeaseConfigAssumption
    <3>6. log'[i].at >= LocalNow(First)' - RenewInterval
      BY <1>1, <2>9, <3>5
    <3> QED BY <1>5, <3>1, <3>6 DEF Current
  <2>13. FirstInv'
    <3>1. Leading'
      BY <1>1, <1>5, <2>5 DEF Leading
    <3>2. FirstWrites' /\ OpenIsProduced'
      BY <1>1, <1>5, <2>1 DEF FirstInv, FirstWrites, OpenIsProduced
    <3> QED BY <3>1, <3>2 DEF FirstInv
  <2> QED BY <1>4, <1>6, <2>10, <2>11, <2>12, <2>13 DEF Healthy, LogInv
<1> QED BY <1>7, <1>8

\* A call that fails, a stop and a cancelled acquisition are counted.
LEMMA FaultsCount ==
  ASSUME TypeOK, Healthy, TokenBacksWrites, NEW m \in Member, FaultStep(m),
         faults' = faults, stops' = stops
  PROVE  FALSE
<1>1. faults \in Nat /\ stops \in Nat /\ log \in Seq(LogRecord)
  BY DEF TypeOK, ClusterType
<1>2. faults + 1 # faults /\ stops + 1 # stops
  BY <1>1
<1>3. CASE RegisterFails(m) \/ AcquireEpochFails(m) \/ Crash(m) \/ CancelAcquire(m)
  <2>1. faults' = faults + 1 \/ stops' = stops + 1
    BY <1>3, Zenon DEF RegisterFails, AcquireEpochFails, Crash, CancelAcquire
  <2> QED BY <1>2, <2>1
<1>4. CASE Restart(m)
  <2>1. pc[m] = "down"
    BY <1>4 DEF Restart
  <2>2. log # <<>> /\ m = First
    BY <2>1 DEF Healthy, Standbys
  <2> QED BY <2>1, <2>2 DEF Healthy, FirstInv, Entering, Claiming, Leading
<1>5. ASSUME NEW w \in Writers, ProduceFails(m, w) \/ CommitFails(m, w) PROVE FALSE
  <2>1. writer[m][w].pc \in {"granted", "produced"}
    BY <1>5, Zenon DEF ProduceFails, CommitFails
  <2>2. ~Silent(m)
    BY <2>1 DEF Silent
  <2>3. log # <<>> /\ m = First
    BY <2>2, StandbyIsSilent DEF Healthy
  <2>4. ~Cancelled(m, w)
    BY <2>1, <2>3, WhoWrites DEF Sending
  <2>5. CASE ProduceFails(m, w)
    BY <1>2, <2>4, <2>5 DEF ProduceFails
  <2>6. CASE CommitFails(m, w)
    <3>1. OpenOffsets(log) # {}
      BY <2>3, <2>6 DEF CommitFails, Healthy, FirstInv, FirstWrites
    <3> QED BY <1>2, <2>4, <2>6, <3>1 DEF CommitFails
  <2> QED BY <1>5, <2>5, <2>6
<1> QED BY <1>3, <1>4, <1>5 DEF FaultStep

\* No step takes the number of faults or stops back.
LEMMA CountsGrow ==
  ASSUME TypeOK, [PromptNext]_vars, faults' = 0, stops' = 0
  PROVE  faults = 0 /\ stops = 0 /\ UNCHANGED <<faults, stops>>
<1>1. faults \in Nat /\ stops \in Nat
  BY DEF TypeOK
<1>2. faults + 1 # 0 /\ stops + 1 # 0
  BY <1>1
<1>3. faults' \in {faults, faults + 1} /\ stops' \in {stops, stops + 1}
  <2>1. CASE UNCHANGED vars \/ PromptTick \/ TransactionTimeout
    BY <2>1 DEF vars, PromptTick, Tick, TransactionTimeout, boundVars
  <2>2. ASSUME NEW m \in Member, AcquireStep(m) \/ LoopStep(m) \/ CallerStep(m)
        PROVE  UNCHANGED <<faults, stops>>
    <3>1. CASE AcquireStep(m)
      BY <3>1, Zenon DEF AcquireStep, CompeteStep, StartAcquire, ReadRoleState, EvaluateState, WakeUp,
                         Register, AcquireEpoch, CommitAcquire, WriteUnchanged, boundVars
    <3>2. CASE LoopStep(m)
      BY <3>2, Zenon DEF LoopStep, LoopTop, LoopRenew, LoopFailed, LoopRetry, LoopStops,
                         HandleUnchanged, boundVars
    <3>3. CASE CallerStep(m)
      BY <3>3, Zenon DEF CallerStep, CallRenew, CallResign, ResignEnds, HandleUnchanged,
                         boundVars
    <3> QED BY <2>2, <3>1, <3>2, <3>3
  <2>3. ASSUME NEW m \in Member, WriteStep(m) PROVE UNCHANGED <<faults, stops>>
    BY <2>3, Zenon DEF WriteStep, Produce, ProduceFenced, Commit, CommitFenced, RenewAcked,
                       WriteUnchanged, HandleUnchanged, boundVars
  <2>4. ASSUME NEW m \in Member, FaultStep(m)
        PROVE  faults' \in {faults, faults + 1} /\ stops' \in {stops, stops + 1}
    <3>1. CASE \/ RegisterFails(m) \/ AcquireEpochFails(m) \/ Crash(m) \/ Restart(m)
               \/ CancelAcquire(m)
      BY <3>1 DEF RegisterFails, AcquireEpochFails, Crash, Restart, CancelAcquire, boundVars
    <3>2. CASE \E w \in Writers : ProduceFails(m, w) \/ CommitFails(m, w)
      BY <3>2, Zenon DEF ProduceFails, CommitFails, WriteUnchanged
    <3> QED BY <2>4, <3>1, <3>2 DEF FaultStep
  <2> QED BY <2>1, <2>2, <2>3, <2>4 DEF PromptNext
<1> QED BY <1>2, <1>3

\* Every step keeps HealthyInv.
LEMMA HealthyStep ==
  ASSUME Calm, TypeOK, TimedInv, SeenStable, TokenBacksWrites, HealthyInv, [PromptNext]_vars
  PROVE  HealthyInv'
<1> SUFFICES ASSUME faults' = 0, stops' = 0 PROVE Healthy'
  BY DEF HealthyInv
<1>1. Healthy /\ UNCHANGED <<faults, stops>>
  BY CountsGrow DEF HealthyInv
<1>2. log \in Seq(LogRecord)
  BY DEF TypeOK, ClusterType
<1>3. CASE UNCHANGED vars
  <2>1. UNCHANGED <<now, coord, log, pc, seen, token, held, lease, writer>>
    BY <1>3 DEF vars, clusterVars, acquireVars, handleVars
  <2>2. First' = First /\ LogInv'
    BY <1>1, <2>1, LogSame DEF Healthy, First
  <2>3. Standbys' /\ Tokens'
    BY <1>1, <2>1, <2>2 DEF Healthy, Standbys, Tokens
  <2>4. ReadsInv'
    <3>1. [Next]_vars /\ ReadsInv
      BY <1>1, <1>3 DEF Healthy
    <3> QED BY <2>1, <3>1, ReadsKept
  <2>5. log # <<>> => FirstInv'
    BY <1>1, <2>1, FirstKept DEF Healthy
  <2> QED BY <2>1, <2>2, <2>3, <2>4, <2>5 DEF Healthy
<1>4. CASE PromptTick
  BY <1>1, <1>4, TickHealthy
<1>5. CASE TransactionTimeout
  BY <1>1, <1>5, NothingTimesOut DEF TransactionTimeout, Healthy
<1>6. ASSUME NEW m \in Member, log = <<>> \/ m # First,
             WriteStep(m) \/ LoopStep(m) \/ CallerStep(m)
      PROVE  FALSE
  <2>1. held[m] # "live" /\ \A w \in Writers : writer[m][w].pc = "off"
    BY <1>1, <1>6, StandbyIsSilent DEF Healthy, Silent
  <2>2. ~WriteStep(m)
    BY <2>1, Zenon DEF WriteStep, Produce, ProduceFenced, Commit, CommitFenced, RenewAcked
  <2>3. ~LoopStep(m)
    BY <2>1, FourWriters DEF LoopStep, LoopTop, LoopRenew, LoopFailed, LoopRetry, LoopStops
  <2>4. ~CallerStep(m)
    BY <2>1, FourWriters, Zenon DEF CallerStep, CallRenew, CallResign, ResignEnds
  <2> QED BY <1>6, <2>2, <2>3, <2>4
<1>7. ASSUME NEW m \in Member, log # <<>>, m = First, WriteStep(m) PROVE Healthy'
  <2>1. PICK w \in Writers : \/ Produce(m, w) \/ ProduceFenced(m, w) \/ Commit(m, w)
                             \/ CommitFenced(m, w) \/ RenewAcked(m, w)
    BY <1>7 DEF WriteStep
  <2>2. CASE ProduceFenced(m, w) \/ CommitFenced(m, w)
    <3>1. writer[m][w].pc \in {"granted", "produced"} /\ ~Accepted(m)
      BY <2>2, Zenon DEF ProduceFenced, CommitFenced
    <3> QED BY <1>1, <1>7, <3>1, WhoWrites DEF Sending, Accepted
  <2> QED BY <1>1, <1>7, <2>1, <2>2, ProduceStep, CommitStep, AckStep
<1>8. ASSUME NEW m \in Member, log # <<>>, m = First, AcquireStep(m) PROVE Healthy'
  <2>1. CASE Entering
    BY <1>1, <1>7, <1>8, <2>1, EnterStep
  <2>2. CASE CommitAcquire(m)
    BY <1>1, <1>8, <2>2, ClaimStep
  <2>3. CASE ~Entering /\ ~CommitAcquire(m)
    <3>1. Claiming \/ Leading
      BY <1>1, <1>8, <2>3 DEF Healthy, FirstInv
    <3>2. pc[m] = "write" \/ (pc[m] = "idle" /\ held[m] = "live")
      BY <1>8, <3>1 DEF Claiming, Leading
    <3> QED BY <1>8, <2>3, <3>2, Zenon DEF AcquireStep, CompeteStep, StartAcquire, ReadRoleState,
              EvaluateState, WakeUp, Register, AcquireEpoch
  <2> QED BY <2>1, <2>2, <2>3
<1>9. ASSUME NEW m \in Member, AcquireStep(m) \/ WriteStep(m) \/ LoopStep(m) \/ CallerStep(m)
      PROVE  Healthy'
  <2>1. CASE log = <<>> \/ m # First
    BY <1>1, <1>6, <1>9, <2>1, StandbyStep
  <2>2. CASE log # <<>> /\ m = First
    BY <1>1, <1>7, <1>8, <1>9, <2>2, HandleStep
  <2> QED BY <2>1, <2>2
<1>10. \A m \in Member : ~FaultStep(m)
  BY <1>1, FaultsCount
<1> QED BY <1>3, <1>4, <1>5, <1>9, <1>10 DEF PromptNext

\* Anti-flap: with no fault and no resignation a holder that keeps its
\* schedule is never deposed, for any number of members and any clocks that
\* differ by less than the slack between the renewal and the deadline
\* (AcquireLeadership with Evaluate, and renewLoop).
THEOREM HealthyHolder ==
  ASSUME Calm
  PROVE  PromptSpec => []HealthyHolderKeepsRole
<1>1. ClocksEndBy(MaxMillis)
  BY LeaseConfigAssumption, LeadershipAssumption DEF Calm, ClocksEndBy
<1> DEFINE Inv == SeenStable /\ TokenBacksWrites /\ HealthyInv
<1>2. Init => Inv
  <2>1. Init => SeenStable
    BY DEF Init, SeenStable
  <2>2. Init => Healthy
    BY DEF Init, Healthy, LogInv, RecordsKept, LeasesOrdered, Current, Leases, ReadsInv,
           Standbys, Tokens
  <2> QED BY <2>1, <2>2, InitAuthority DEF HealthyInv
<1>3. Inv /\ TypeOK /\ TimedInv /\ [PromptNext]_vars => Inv'
  <2> SUFFICES ASSUME Inv, TypeOK, TimedInv, [PromptNext]_vars PROVE Inv'
    OBVIOUS
  <2>1. [Next]_vars
    BY PromptIsNext
  <2>2. SeenStable'
    BY <2>1, SeenStep
  <2>3. TokenBacksWrites'
    <3>1. CASE UNCHANGED vars
      BY <3>1 DEF vars, handleVars, TokenBacksWrites
    <3> QED BY <2>1, <3>1, BacksStep
  <2>4. HealthyInv'
    BY HealthyStep
  <2> QED BY <2>2, <2>3, <2>4
<1>4. Inv /\ TypeOK => HealthyHolderKeepsRole
  <2> SUFFICES ASSUME Inv, TypeOK, faults = 0, stops = 0, NEW m \in Member, held[m] = "live"
               PROVE  token[m] = coord
    BY DEF HealthyHolderKeepsRole
  <2>1. Healthy
    BY DEF HealthyInv
  <2>2. log # <<>> /\ m = First
    BY <2>1, StandbyIsSilent DEF Healthy, Silent
  <2> QED BY <2>1, <2>2 DEF Healthy, Tokens
<1> QED BY <1>1, <1>2, <1>3, <1>4, PromptInvariant, PTL DEF PromptSpec
=============================================================================
