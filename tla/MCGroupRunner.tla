-------------------------- MODULE MCGroupRunner --------------------------
(* Instances of GroupRunner: topics a and b, logical partitions 0 and 1. *)
EXTENDS GroupRunner, BarrierCodec

CONSTANTS a0, b0, a1

SharedState == {a0, b0}
TwoPartitions == {a0, a1}
PartitionOf == [tp \in TopicPartition |-> IF tp = a1 THEN 1 ELSE 0]

Mode(policy, transactional, onError, kinds) ==
  [policy |-> policy, transactional |-> transactional, onError |-> onError,
   faults |-> kinds]

(* A plain loop, as in the documentation. *)
Looping    == {Mode("fail", FALSE, "continue", {"process", "lost"})}
(* A runner that is restarted and restored to a cut on an error. *)
Restarting == {Mode("fail", FALSE, "restart",
                 {"start", "process", "send", "save", "commit", "commit_answer",
                  "restore", "crash"})}
(* A runner that is closed on an error, and a transactional one in a loop. *)
Handling   == {Mode("dead_letter", FALSE, "close", {"poll", "process", "send", "commit"}),
               Mode("skip", TRUE, "continue",
                 {"start", "poll", "process", "send", "commit", "commit_answer",
                  "load", "revoke_save", "lost", "crash"})}

Singles == {{tp} : tp \in TopicPartition}
Together == {TopicPartition}

NoCuts == <<>>
(* Markers at offset 1 of both; then at the end of a0 and right after the  *)
(* first marker in a1.                                                     *)
TwoCuts == [e \in {1, 2} |-> [tp \in TopicPartition |->
              IF e = 1 THEN 1 ELSE IF tp = a1 THEN 2 ELSE 3]]
(* A marker between the two records of each partition. *)
FirstCut == [e \in {1} |-> [tp \in TopicPartition |-> 1]]

-----------------------------------------------------------------------------
(* The manifests as records of the barrier state topic. *)

Address(tp) == <<IF tp = b0 THEN <<2>> ELSE <<1>>, PartitionOf[tp]>>

Manifest(e) ==
  LET tps == SetToSeq(DOMAIN Cut[e])
  IN [group |-> <<1>>, epoch |-> e, triggeredAt |-> 0, completedAt |-> 0, missing |-> <<>>,
      status |-> IF manifest[e] = "complete" THEN CutComplete ELSE CutPartial,
      topics |-> [i \in DOMAIN tps |-> <<Address(tps[i])[1], <<<<Address(tps[i])[2], Cut[e][tps[i]]>>>>>>]]

BarrierTopic ==
  LET epochs == SetToSeq({e \in Epoch : manifest[e] # "absent"})
  IN [i \in DOMAIN epochs |-> CutRecord(Manifest(epochs[i]))]

ReadsTheCuts ==
  LET cuts == CompleteCutsAfter(FoldLeft(accept, NoCutsRead, BarrierTopic), <<1>>, NoEpoch)
  IN /\ {cuts[i].epoch : i \in DOMAIN cuts} = CompleteCuts
     /\ \A i \in DOMAIN cuts : \A tp \in TopicPartition :
          cuts[i].offsets[Address(tp)] = Cut[cuts[i].epoch][tp]

(* In every round the cut reader knows exactly the complete cuts of its    *)
(* group, oldest first, each with the offset of every partition, after     *)
(* partial cuts, tombstones, other records and other groups; a damaged cut *)
(* is refused and never taken for another (CompleteCutsAfter: "Partial     *)
(* cuts are left out").                                                    *)
CutsAreReadAsWritten ==
  [][StartRound => ReadsTheCuts /\ CutsDecode /\ CutsAreTheNewest]_vars
=============================================================================
