---------------------------- MODULE GroupRunner ----------------------------
(***************************************************************************)
(* A consumer-group runner (columnar/runner.go, barrieralign.go) between a *)
(* consumer, a producer and a state store.  One RunOnce is five steps:     *)
(* StartRound, Poll, Send, Save and Commit; each of them may fail, and the *)
(* process may crash between any two.  Rebalance callbacks run between     *)
(* rounds and inside Poll, where Kafka consumers deliver them.             *)
(*                                                                         *)
(* The state of a logical partition is how often every record was applied  *)
(* to it.  A record is its topic partition and offset.                     *)
(***************************************************************************)
EXTENDS BarrierAligner, OffsetOrder, Functions

CONSTANTS
  Partition,        \* Partition[tp]: the logical partition of tp
  End,              \* log end offset of every topic partition
  Nothing,          \* the empty snapshot; no processors
  Modes,            \* how the application runs it: the modes explored
  HasPositions,     \* the consumer implements PositionReader
  LateCuts,         \* manifests appear while the runner runs
  RestoreFirst,     \* a restarted application restores a reported cut first
  Batches,          \* the sets of partitions that move in one rebalance
  MaxFaults, MaxRebalances, MaxRestarts, MaxRestores

Kinds == {"start", "poll", "process", "send", "save", "commit", "commit_answer",
          "load", "revoke_save", "restore", "lost", "crash"}

ASSUME RunnerAssumption ==
  /\ Partition \in [TopicPartition -> Nat]
  /\ End \in Nat
  /\ Modes \subseteq [policy        : {"fail", "skip", "dead_letter"},
                      transactional : BOOLEAN,
                      onError       : {"continue", "close", "restart"},
                      faults        : SUBSET Kinds]
  /\ {HasPositions, LateCuts, RestoreFirst} \subseteq BOOLEAN
  /\ Batches \subseteq SUBSET TopicPartition

Logical == Range(Partition)
Record  == TopicPartition \X (0 .. End - 1)
Zero    == [r \in Record |-> 0]

ASSUME NothingAssumption == Nothing \notin [Record -> Nat]

(* The records that are not the marker of a cut. *)
Data == {r \in Record : \A e \in Epoch :
           r[1] \in DOMAIN Cut[e] => Cut[e][r[1]] # r[2]}

Sources(l) == {tp \in TopicPartition : Partition[tp] = l}

VARIABLES
  mode,
  committed,    \* committed offset of every topic partition
  output,       \* how often the output of every record is in the sink
  handled,      \* ghost: the records sent, dead-lettered or skipped
  setAside,     \* ghost: the records last dead-lettered or skipped
  manifest,     \* the barrier state topic: status of every epoch's cut
  store,        \* the state store, by partition and epoch
  owned,        \* the assignment
  position,     \* the consumer's next fetch offset
  pc,           \* the step of the round
  failed,       \* the last call of the application returned an error
  processors,   \* the topology's state per logical partition
  aligner,
  round,        \* what one round carries from processPoll to its commit
  finished,     \* ghost: the epochs and partitions the listener was told
  stale,        \* ghost: restarted or restored, and not at a reported cut
  faults, rebalances, restarts, restores

broker   == <<committed, output, handled, setAside>>
consumer == <<owned, position>>
bounds   == <<rebalances, restarts, restores>>
vars == <<mode, broker, manifest, store, consumer, pc, failed, processors, aligner,
          round, finished, stale, faults, bounds>>

Policy        == mode.policy         \* the error policy
Transactional == mode.transactional  \* RunOnceTransactional instead of RunOnce
OnError       == mode.onError        \* after an error the application may "continue"
                                     \* its loop, "close" or "restart" the runner
Faults        == mode.faults         \* what may fail

---------------------------------------------------------------------------
(* The topology's partition state (built.go). *)

(* Applying records to processors that exist or are created. *)
Applied(state, input) ==
  [r \in Record |->
     (IF state = Nothing THEN 0 ELSE state[r])
     + Cardinality({i \in DOMAIN input[r[1]] : input[r[1]][i] = r[2]})]

(* RestorePartition creates the processors, and replaces the state of      *)
(* those the snapshot names: an empty snapshot leaves them as they are.    *)
RestorePartition(state, snapshot) ==
  IF snapshot # Nothing THEN snapshot
  ELSE IF state = Nothing THEN Zero ELSE state

Load(l, epoch) == store[l][epoch]

---------------------------------------------------------------------------
NoRound == [offsets |-> <<>>, records |-> {}, bad |-> {}, outputs |-> {},
            prior |-> <<>>, barrier |-> FALSE]

CompleteCuts == {e \in Epoch : manifest[e] = "complete"}

Init ==
  /\ mode \in Modes
  /\ committed = [tp \in TopicPartition |-> 0]
  /\ output = Zero
  /\ handled = {} /\ setAside = {}
  /\ manifest = [e \in Epoch |-> IF LateCuts THEN "absent" ELSE "complete"]
  /\ store = [l \in Logical |-> [e \in Epoch \union {NoEpoch} |-> Nothing]]
  /\ owned = {}
  /\ position = [tp \in TopicPartition |-> 0]
  /\ pc = "idle"
  /\ failed = FALSE
  /\ processors = [l \in Logical |-> Nothing]
  /\ aligner = NewBarrierAligner
  /\ round = NoRound
  /\ finished = {}
  /\ stale = FALSE
  /\ faults = 0 /\ rebalances = 0 /\ restarts = 0 /\ restores = 0

(* A failure of this kind happens now. *)
Fault(kind) ==
  /\ kind \in Faults
  /\ faults < MaxFaults
  /\ faults' = faults + 1

(* The call returns an error to the application. *)
ReturnError == pc' = "idle" /\ failed' = TRUE /\ round' = NoRound

(* The application calls the runner again. *)
Calls == pc = "idle" /\ (failed => OnError = "continue")

---------------------------------------------------------------------------
(* Rebalance callbacks. *)

CallbackPoint == pc \in {"idle", "poll"}

LogicalsOf(S) == {Partition[tp] : tp \in S}

(* OnPartitionsAssigned; a snapshot that cannot be loaded is ignored. *)
OnPartitionsAssigned(S, unloaded) ==
  LET restored == LogicalsOf(S) \ LogicalsOf(owned)
  IN /\ CallbackPoint
     /\ IF unloaded = {} THEN UNCHANGED faults
        ELSE unloaded \subseteq restored /\ Fault("load")
     /\ owned' = owned \union S
     /\ position' = [tp \in TopicPartition |->
                       IF tp \in S THEN committed[tp] ELSE position[tp]]
     /\ processors' = [l \in Logical |->
          IF l \in restored \ unloaded
          THEN RestorePartition(processors[l], Load(l, NoEpoch))
          ELSE processors[l]]
     /\ UNCHANGED <<broker, mode, manifest, store, pc, failed, aligner, round,
                    finished, stale, bounds>>

(* Defect: a revoked partition keeps its processors. *)
ReleaseKeepsState(S, saved) ==
  /\ owned' = owned \ S
  /\ store' = [l \in Logical |->
       IF l \in (LogicalsOf(S) \ LogicalsOf(owned \ S)) \intersect saved
       THEN [store[l] EXCEPT ![NoEpoch] = processors[l]] ELSE store[l]]
  /\ UNCHANGED processors

(* release: the partitions nobody owns any longer are saved and dropped. *)
Release(S, saved) ==
  LET released == LogicalsOf(S) \ LogicalsOf(owned \ S)
  IN /\ owned' = owned \ S
     /\ store' = [l \in Logical |->
          IF l \in released \intersect saved
          THEN [store[l] EXCEPT ![NoEpoch] = processors[l]] ELSE store[l]]
     /\ processors' = [l \in Logical |->
          IF l \in released THEN Nothing ELSE processors[l]]

Rebalance ==
  /\ CallbackPoint
  /\ rebalances < MaxRebalances
  /\ rebalances' = rebalances + 1
  /\ UNCHANGED <<broker, mode, manifest, position, pc, failed, aligner, round,
                 finished, stale, restarts, restores>>

OnPartitionsRevoked(S) == Rebalance /\ Release(S, Logical) /\ UNCHANGED faults

(* The error of Save is ignored. *)
RevokedUnsaved(S) == Rebalance /\ Fault("revoke_save") /\ Release(S, {})

OnPartitionsLost(S) ==
  Rebalance /\ "lost" \in Faults /\ Release(S, {}) /\ UNCHANGED faults

(* Another member of the group, which runs the same code, is assigned this *)
(* partition, runs one round, and has it revoked again.                    *)
OtherMember(l, next) ==
  LET input == [tp \in TopicPartition |->
                  [i \in 1 .. next[tp] - committed[tp] |-> committed[tp] + i - 1]]
      state == RestorePartition(Nothing, Load(l, NoEpoch))
      ran   == {r \in Record : r[1] \in Sources(l)
                               /\ r[2] >= committed[r[1]] /\ r[2] < next[r[1]]}
  IN /\ Epoch = {}
     /\ l \notin LogicalsOf(owned)
     /\ \A tp \in TopicPartition :
          IF tp \in Sources(l) THEN next[tp] >= committed[tp]
          ELSE next[tp] = committed[tp]
     /\ ran # {}
     /\ committed' = next
     /\ output' = [r \in Record |-> output[r] + (IF r \in ran THEN 1 ELSE 0)]
     /\ handled' = handled \union ran
     /\ setAside' = setAside \ ran
     /\ store' = [store EXCEPT ![l][NoEpoch] = Applied(state, input)]
     /\ UNCHANGED <<mode, manifest, consumer, pc, failed, processors, aligner,
                    round, finished, stale, faults, bounds>>

---------------------------------------------------------------------------
(* The barrier state topic (barriercut.go). *)

(* The broker writes the manifest of a cut.  A tombstone drops a partial   *)
(* one; how long complete ones are retained is not modelled.               *)
Publish(e, status) ==
  /\ LateCuts
  /\ <<manifest[e], status>> \in {<<"absent", "partial">>, <<"absent", "complete">>,
                                  <<"partial", "absent">>}
  /\ manifest' = [manifest EXCEPT ![e] = status]
  /\ UNCHANGED <<mode, broker, store, consumer, pc, failed, processors, aligner,
                 round, finished, stale, faults, bounds>>

---------------------------------------------------------------------------
(* One round. *)

Refreshed == Refresh(aligner, owned, CompleteCuts)

(* groupRun: take the next cut, and the consumer's positions. *)
StartAligner ==
  IF Epoch = {} THEN aligner
  ELSE IF HasPositions /\ owned # {} THEN ObservePositions(Refreshed, position)
  ELSE Refreshed

StartRound ==
  /\ Calls
  /\ RestoreFirst => ~stale
  /\ aligner' = StartAligner
  /\ pc' = "poll"
  /\ failed' = FALSE
  /\ UNCHANGED <<broker, mode, manifest, store, consumer, processors, round,
                 finished, stale, faults, bounds>>

(* The cut reader, the position reader or BeginTransaction fails. *)
StartRoundFails ==
  /\ Calls
  /\ Fault("start")
  /\ \/ /\ Epoch # {} /\ aligner.pending = NoEpoch
        /\ aligner' = [aligner EXCEPT !.assigned = owned]
     \/ Epoch # {} /\ HasPositions /\ owned # {} /\ aligner' = Refreshed
     \/ Transactional /\ aligner' = StartAligner
  /\ ReturnError
  /\ UNCHANGED <<broker, mode, manifest, store, consumer, processors, finished,
                 stale, bounds>>

(* Poll fetches up to next; the markers reach no consumer. *)
Fetched(next) ==
  [tp \in TopicPartition |->
     InOrder({offset \in position[tp] .. next[tp] - 1 : <<tp, offset>> \in Data})]

FetchUpTo(next) ==
  /\ pc = "poll"
  /\ \A tp \in TopicPartition : IF tp \in owned THEN next[tp] >= position[tp]
                                ELSE next[tp] = position[tp]
  /\ position' = next

Input(next) == Accepted(aligner, Merge(aligner, Fetched(next)))

AcceptedAligner(next) ==
  IF Epoch = {} THEN aligner
  ELSE AcceptAll(aligner, Merge(aligner, Fetched(next)))

WithRecords(input) == {tp \in TopicPartition : input[tp] # <<>>}

RecordsOf(input, logicals) ==
  {r \in Record : Partition[r[1]] \in logicals /\ r[2] \in Range(input[r[1]])}

(* Defect: the offset after the next record. *)
NextOffsetsPast(input) ==
  [tp \in WithRecords(input) |-> input[tp][Len(input[tp])] + 2]

NextOffsets(input) ==
  [tp \in WithRecords(input) |-> input[tp][Len(input[tp])] + 1]

(* processPoll when it succeeds.  The partitions of bad fail, and the      *)
(* policy drops or dead-letters their records.                             *)
Poll(next, bad) ==
  LET input   == Input(next)
      ran     == LogicalsOf(WithRecords(input))
      after   == AcceptedAligner(next)
      offsets == NextOffsets(input)
  IN /\ FetchUpTo(next)
     /\ bad \subseteq ran
     /\ IF bad = {} THEN UNCHANGED faults
        ELSE Policy # "fail" /\ Fault("process")
     /\ aligner' = after
     /\ processors' = [l \in Logical |->
          IF l \in ran \ bad
          THEN Applied(processors[l],
                 [tp \in TopicPartition |->
                    IF Partition[tp] = l THEN input[tp] ELSE <<>>])
          ELSE processors[l]]
     /\ round' =
          [offsets |-> IF Fired(after) THEN BarrierOffsets(after, offsets)
                       ELSE offsets,
           records |-> RecordsOf(input, ran),
           bad     |-> RecordsOf(input, bad),
           outputs |-> RecordsOf(input, IF Policy = "skip" THEN ran \ bad ELSE ran),
           prior   |-> [l \in ran \ bad |-> processors[l]],
           barrier |-> Fired(after)]
     /\ pc' = "send"
     /\ UNCHANGED <<broker, mode, manifest, store, owned, failed, finished, stale,
                    bounds>>

(* Poll itself fails, and fetches nothing. *)
PollFails ==
  /\ pc = "poll"
  /\ Fault("poll")
  /\ ReturnError
  /\ UNCHANGED <<broker, mode, manifest, store, consumer, processors, aligner,
                 finished, stale, bounds>>

(* A batch fails under the fail policy, or with a retriable error.  The    *)
(* state of every partition of the round is rolled back.                   *)
ProcessFails(next) ==
  /\ FetchUpTo(next)
  /\ WithRecords(Input(next)) # {}
  /\ Fault("process")
  /\ aligner' = AcceptedAligner(next)
  /\ ReturnError
  /\ UNCHANGED <<broker, mode, manifest, store, owned, processors, finished, stale,
                 bounds>>

(* Defect: the state of a failed round stays. *)
NoRollback == UNCHANGED processors

(* rollback: restorePrior of every partition that ran. *)
Rollback ==
  processors' = [l \in Logical |->
    IF l \in DOMAIN round.prior THEN round.prior[l] ELSE processors[l]]

AddOutputs(records) ==
  output' = [r \in Record |-> output[r] + (IF r \in records THEN 1 ELSE 0)]

(* SendAll; a transaction's records stay invisible until it commits. *)
Send ==
  /\ pc = "send"
  /\ IF Transactional THEN UNCHANGED <<output, handled>>
     ELSE AddOutputs(round.outputs) /\ handled' = handled \union round.records
  /\ pc' = IF round.barrier THEN "save" ELSE "commit"
  /\ UNCHANGED <<committed, setAside, mode, manifest, store, consumer, failed,
                 processors, aligner, round, finished, stale, faults, bounds>>

(* Defect: the error of a send is dropped. *)
SendErrorDropped(acknowledged) ==
  /\ pc = "send"
  /\ acknowledged \subseteq round.outputs
  /\ acknowledged # round.outputs
  /\ Fault("send")
  /\ AddOutputs(IF Transactional THEN {} ELSE acknowledged)
  /\ pc' = "commit"
  /\ UNCHANGED <<committed, handled, setAside, mode, manifest, store, consumer,
                 failed, processors, aligner, round, finished, stale, bounds>>

(* Some records were acknowledged before the first error. *)
SendFails(acknowledged) ==
  /\ pc = "send"
  /\ acknowledged \subseteq round.outputs
  /\ acknowledged # round.outputs
  /\ Fault("send")
  /\ AddOutputs(IF Transactional THEN {} ELSE acknowledged)
  /\ Rollback
  /\ ReturnError
  /\ UNCHANGED <<committed, handled, setAside, mode, manifest, store, consumer,
                 aligner, finished, stale, bounds>>

(* The store after save wrote these partitions of the barrier. *)
SaveEpoch(logicals) ==
  store' = [l \in Logical |->
    IF l \in logicals THEN [store[l] EXCEPT ![aligner.pending] = processors[l]]
    ELSE store[l]]

Save ==
  /\ pc = "save"
  /\ SaveEpoch(LogicalsOf(aligner.aligned))
  /\ pc' = "commit"
  /\ UNCHANGED <<broker, mode, manifest, consumer, failed, processors, aligner,
                 round, finished, stale, faults, bounds>>

(* The partitions are saved in ascending order, up to the failing one. *)
SaveFails(failing) ==
  /\ pc = "save"
  /\ failing \in LogicalsOf(aligner.aligned)
  /\ Fault("save")
  /\ SaveEpoch({l \in LogicalsOf(aligner.aligned) : l < failing})
  /\ Rollback
  /\ ReturnError
  /\ UNCHANGED <<broker, mode, manifest, consumer, aligner, finished, stale, bounds>>

(* Defect: the offsets are not part of the commit. *)
CommitWithoutOffsets ==
  /\ AddOutputs(IF Transactional THEN round.outputs ELSE {})
  /\ handled' = handled \union round.records
  /\ UNCHANGED <<committed, setAside>>

(* Defect: a partition without records commits the map's zero value. *)
CommitEveryPartition ==
  /\ committed' = [tp \in TopicPartition |->
       IF tp \in DOMAIN round.offsets THEN round.offsets[tp] ELSE 0]
  /\ AddOutputs(IF Transactional THEN round.outputs ELSE {})
  /\ handled' = handled \union round.records
  /\ UNCHANGED setAside

(* What the commit makes durable. *)
CommitRound ==
  /\ committed' = [tp \in TopicPartition |->
       IF tp \in DOMAIN round.offsets THEN round.offsets[tp] ELSE committed[tp]]
  /\ setAside' = (setAside \ round.records) \union round.bad
  /\ IF Transactional
     THEN AddOutputs(round.outputs) /\ handled' = handled \union round.records
     ELSE UNCHANGED <<output, handled>>

(* CommitOffsets, or SendOffsets and CommitTransaction; then finish. *)
Commit ==
  /\ pc = "commit"
  /\ CommitRound
  /\ IF round.barrier
     THEN /\ aligner' = Finish(aligner, round.offsets)
          /\ finished' = finished \union
               ({aligner.pending} \X LogicalsOf(aligner.aligned))
     ELSE UNCHANGED <<aligner, finished>>
  /\ pc' = "idle"
  /\ round' = NoRound
  /\ UNCHANGED <<mode, manifest, store, consumer, failed, processors, stale, faults,
                 bounds>>

(* Defect: a failed commit does not roll back. *)
CommitFailsKeepsState(applied) ==
  /\ pc = "commit"
  /\ Transactional \/ DOMAIN round.offsets # {}
  /\ Fault(IF applied THEN "commit_answer" ELSE "commit")
  /\ IF applied THEN CommitRound ELSE UNCHANGED broker
  /\ ReturnError
  /\ UNCHANGED <<mode, manifest, store, consumer, processors, aligner, finished,
                 stale, bounds>>

(* The commit is refused, or it is applied and its answer is lost. *)
CommitFails(applied) ==
  /\ pc = "commit"
  /\ Transactional \/ DOMAIN round.offsets # {}
  /\ Fault(IF applied THEN "commit_answer" ELSE "commit")
  /\ IF applied THEN CommitRound ELSE UNCHANGED broker
  /\ Rollback
  /\ ReturnError
  /\ UNCHANGED <<mode, manifest, store, consumer, aligner, finished, stale, bounds>>

---------------------------------------------------------------------------
(* The life of the process. *)

(* NewGroupRunner in a new process. *)
Fresh ==
  /\ restarts < MaxRestarts
  /\ restarts' = restarts + 1
  /\ pc' = "idle"
  /\ failed' = FALSE
  /\ round' = NoRound
  /\ aligner' = NewBarrierAligner
  /\ position' = [tp \in TopicPartition |-> 0]
  /\ stale' = (Epoch # {})
  /\ UNCHANGED <<broker, mode, manifest, finished, faults, rebalances, restores>>

(* Close saves and releases every owned partition, then the topology. *)
Close ==
  /\ pc = "idle"
  /\ OnError = "close"
  /\ Fresh
  /\ owned' = {}
  /\ store' = [l \in Logical |->
       IF l \in LogicalsOf(owned)
       THEN [store[l] EXCEPT ![NoEpoch] = processors[l]] ELSE store[l]]
  /\ processors' = [l \in Logical |-> Nothing]

(* The process dies between two steps; an open transaction is aborted. *)
Crash ==
  /\ "crash" \in Faults \/ (failed /\ OnError = "restart")
  /\ Fresh
  /\ owned' = {}
  /\ processors' = [l \in Logical |-> Nothing]
  /\ UNCHANGED store

---------------------------------------------------------------------------
(* RestoreToEpoch; RestoreToLatestCut takes the latest complete cut. *)

Targets(e) == owned \intersect DOMAIN Cut[e]

(* Defect: the snapshot of the last rebalance is loaded. *)
RestoredUnderNoEpoch(e, logicals) ==
  [l \in Logical |-> IF l \in logicals
                     THEN RestorePartition(Nothing, Load(l, NoEpoch))
                     ELSE processors[l]]

RestoredProcessors(e, logicals) ==
  [l \in Logical |-> IF l \in logicals
                     THEN RestorePartition(Nothing, Load(l, e))
                     ELSE processors[l]]

(* The listener reported the barrier of e for every target. *)
Snapshotted(e) == {e} \X LogicalsOf(Targets(e)) \subseteq finished

(* The cut has to be complete; whether its snapshots exist is not asked. *)
RestoreToEpoch(e) ==
  /\ Calls
  /\ owned # {}
  /\ e \in CompleteCuts
  /\ processors' = RestoredProcessors(e, LogicalsOf(Targets(e)))
  /\ position' = [tp \in TopicPartition |->
                    IF tp \in Targets(e) THEN Cut[e][tp] ELSE position[tp]]
  /\ aligner' = Restored(aligner, e, Targets(e))
  /\ stale' = (Targets(e) # owned \/ ~Snapshotted(e))
  /\ restores < MaxRestores /\ restores' = restores + 1
  /\ UNCHANGED <<broker, mode, manifest, store, owned, pc, failed, round, finished,
                 faults, rebalances, restarts>>

(* The partitions are restored in ascending order.  Loading the snapshot   *)
(* of one fails; or restoring it does, and leaves it released; or a seek   *)
(* fails after all of them were restored and some partitions sought.       *)
RestoreFails(e, logicals, released, sought) ==
  LET rest == LogicalsOf(Targets(e)) \ logicals
  IN /\ Calls
     /\ owned # {}
     /\ e \in CompleteCuts
     /\ logicals \subseteq LogicalsOf(Targets(e))
     /\ \A l \in logicals, k \in rest : l < k
     /\ released \subseteq {l \in rest : \A k \in rest : l <= k}
     /\ sought \subseteq Targets(e) /\ sought # Targets(e)
     /\ sought # {} => rest = {}
     /\ Fault("restore")
     /\ processors' = [l \in Logical |-> IF l \in released THEN Nothing
                                         ELSE RestoredProcessors(e, logicals)[l]]
     /\ position' = [tp \in TopicPartition |->
                       IF tp \in sought THEN Cut[e][tp] ELSE position[tp]]
     /\ stale' = TRUE
     /\ ReturnError
     /\ UNCHANGED <<broker, mode, manifest, store, owned, aligner, finished, bounds>>

---------------------------------------------------------------------------
Offsets == [TopicPartition -> 0 .. End]

Round ==
  \/ StartRound
  \/ \E next \in Offsets, bad \in SUBSET Logical : Poll(next, bad)
  \/ Send
  \/ Save
  \/ Commit

Failure ==
  \/ StartRoundFails
  \/ PollFails
  \/ \E next \in Offsets : ProcessFails(next)
  \/ \E acknowledged \in SUBSET round.outputs : SendFails(acknowledged)
  \/ \E l \in Logical : SaveFails(l)
  \/ \E applied \in BOOLEAN : CommitFails(applied)

Group ==
  \/ \E S \in Batches, unloaded \in SUBSET Logical :
       S \intersect owned = {} /\ OnPartitionsAssigned(S, unloaded)
  \/ \E S \in Batches \intersect SUBSET owned :
       OnPartitionsRevoked(S) \/ RevokedUnsaved(S) \/ OnPartitionsLost(S)
  \/ \E l \in Logical, next \in Offsets : OtherMember(l, next)

Next ==
  \/ Round
  \/ Failure
  \/ Group
  \/ \E e \in Epoch, status \in {"absent", "partial", "complete"} : Publish(e, status)
  \/ Close
  \/ Crash
  \/ \E e \in Epoch : RestoreToEpoch(e)
  \/ \E e \in Epoch, logicals, released \in SUBSET Logical, sought \in SUBSET owned :
       RestoreFails(e, logicals, released, sought)

Spec == Init /\ [][Next]_vars

(* The application keeps calling; a poll is in the end answered with what  *)
(* the broker has; an unassigned partition is in the end assigned.         *)
FetchAll == \E next \in Offsets : /\ \A tp \in owned : next[tp] = End
                                 /\ Poll(next, {})

AssignRest == \E S \in Batches : S \intersect owned = {} /\ OnPartitionsAssigned(S, {})

FairSpec ==
  /\ Spec
  /\ WF_vars(StartRound) /\ SF_vars(FetchAll)
  /\ WF_vars(Send) /\ WF_vars(Save) /\ WF_vars(Commit)
  /\ SF_vars(AssignRest)

---------------------------------------------------------------------------
(* Properties. *)

Snapshot == [Record -> Nat] \union {Nothing}

OffsetSeq == UNION {[1 .. n -> 0 .. End - 1] : n \in 0 .. 2 * End}

(* Every variable has its type, and a pending cut is one the broker        *)
(* published.                                                              *)
TypeOK ==
  /\ committed \in Offsets /\ position \in Offsets
  /\ output \in [Record -> Nat] /\ handled \subseteq Record
  /\ manifest \in [Epoch -> {"absent", "partial", "complete"}]
  /\ \A l \in Logical : processors[l] \in Snapshot
                        /\ \A e \in Epoch \union {NoEpoch} : store[l][e] \in Snapshot
  /\ owned \subseteq TopicPartition
  /\ pc \in {"idle", "poll", "send", "save", "commit"}
  /\ {failed, stale} \subseteq BOOLEAN
  /\ aligner.pending \in CompleteCuts \union {NoEpoch}
  /\ aligner.lastEpoch \in Epoch \union {NoEpoch}
  /\ aligner.reached \subseteq aligner.aligned
  /\ \A tp \in TopicPartition : aligner.held[tp] \in OffsetSeq
  /\ DOMAIN round.offsets \subseteq TopicPartition
  /\ round.outputs \subseteq round.records /\ round.records \subseteq Record
  /\ round.bad \subseteq round.records /\ setAside \subseteq handled

Count(snapshot, r) == IF snapshot = Nothing THEN 0 ELSE snapshot[r]

(* The snapshot holds every record of tp below the offset once, without    *)
(* those the error policy set aside, and no other.                         *)
HoldsPrefix(snapshot, tp, offset) ==
  \A r \in Record : r[1] = tp =>
    Count(snapshot, r) = IF r \in Data \ setAside /\ r[2] < offset THEN 1 ELSE 0

(* What the runner ran of a partition: all it fetched and does not hold;   *)
(* after a failed round, what it committed, which is what Close then saves. *)
Frontier(tp) == IF failed THEN committed[tp]
                ELSE IF aligner.held[tp] # <<>> THEN aligner.held[tp][1]
                ELSE position[tp]

(* Only owned partitions have processors (GroupRunner: "partition state    *)
(* follows assignments"), and between rounds the state of an owned         *)
(* partition is exactly the effect of the records before its frontier:     *)
(* nothing is lost or applied twice by revocations, rollbacks, closes and  *)
(* restores.  (A loop that continues after an error skips records: see     *)
(* NothingSkipped.)                                                        *)
StateIsPrefix ==
  /\ \A l \in Logical : processors[l] # Nothing => l \in LogicalsOf(owned)
  /\ /\ pc \in {"idle", "poll"} /\ ~stale /\ OnError # "continue"
     /\ failed => OnError = "close"
     => \A tp \in owned : HoldsPrefix(processors[Partition[tp]], tp, Frontier(tp))

(* Every record below a committed offset was sent, dead-lettered or        *)
(* skipped: a failed round does not move the commit past its records       *)
(* ("retriable errors always fail the poll so the records are retried").   *)
NothingSkipped ==
  \A r \in Data : r[2] < committed[r[1]] => r \in handled

(* No record is applied twice to a partition's state, whatever fails, and  *)
(* whoever ran the partition before; in transactions, its output is        *)
(* committed at most once.                                                 *)
NoRecordTwice ==
  \A r \in Record : /\ \A l \in Logical : Count(processors[l], r) <= 1
                    /\ Transactional => output[r] <= 1

(* The snapshot of a rebalance never holds a record that its next owner    *)
(* will fetch: save and commit are two steps on two systems.               *)
SavedNeverAhead ==
  \A l \in Logical, r \in Record :
    Count(store[l][NoEpoch], r) > 0 => r[2] < committed[r[1]]

(* An application that closes the runner after an error loses nothing.     *)
CloseLosesNothing == OnError = "close" => NothingSkipped

(* A committed offset goes back only by the barrier of a cut that was      *)
(* published after the runner had committed past it, and then to that cut. *)
(* (The documentation has such a cut not rewind the commit: "The runner    *)
(* commits the higher of the two".)                                        *)
RewindsOnlyToALateCut ==
  [][\A tp \in TopicPartition :
       \/ committed'[tp] >= committed[tp]
       \/ round.barrier /\ committed'[tp] = Cut[aligner.pending][tp]]_vars

(* The snapshot the listener was told of is the state at the cut: every    *)
(* record below it, and no record after it.                                *)
SnapshotIsTheCut ==
  \A e \in Epoch, tp \in TopicPartition :
    <<e, Partition[tp]>> \in finished /\ tp \in DOMAIN Cut[e] =>
      HoldsPrefix(store[Partition[tp]][e], tp, Cut[e][tp])

(* A finished barrier committed exactly the cut in every aligned           *)
(* partition: neither the marker nor a record that is held back, also when *)
(* it is told of the cut after it passed it.                               *)
BarrierCommitsTheCut ==
  [][\A tp \in TopicPartition :
       finished' # finished /\ tp \in aligner.aligned
       => committed'[tp] = Cut[aligner.pending][tp]]_vars

(* A restore puts the state of a partition exactly at the cut it seeks to  *)
(* ("continues from an exact, reproducible point") if the partition has a  *)
(* snapshot of that epoch, also one whose round then failed.  Without one  *)
(* it starts empty at the cut, and says nothing.                           *)
RestoreIsExact ==
  [][\A e \in Epoch : RestoreToEpoch(e) =>
       \A tp \in Targets(e) :
         HoldsPrefix(processors'[Partition[tp]], tp,
                     IF Load(Partition[tp], e) = Nothing THEN 0 ELSE Cut[e][tp])]_vars

(* Every complete cut is in the end committed by the runner, or passed.    *)
CutIsReached ==
  \A e \in Epoch : manifest[e] = "complete" ~> aligner.lastEpoch >= e
=============================================================================
