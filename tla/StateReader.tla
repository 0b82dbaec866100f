----------------------------- MODULE StateReader ----------------------------
(***************************************************************************)
(* KafkaTransport.ReadPartition: the poll loop that reads a coordination   *)
(* partition from its first offset through the last stable offset, while   *)
(* registrations and lease transactions are written to it.                 *)
(*                                                                         *)
(* The partition holds data records and the control records that end a     *)
(* transaction; each takes an offset.  The Kafka client (external) fetches *)
(* in the background, keeps its own position, and hands the loop only data *)
(* records that are committed: a fetch without one wakes no poll.          *)
(***************************************************************************)
EXTENDS OffsetOrder, Sequences, SequencesExt

CONSTANTS LogStarts,  \* first offsets a partition may have
          MaxLog      \* bound: records and control records in the partition

ASSUME StateReaderAssumption == LogStarts \subseteq Nat /\ MaxLog \in Nat

VARIABLES start,    \* the log start offset
          log,      \* the partition: log[i] has the offset start + i - 1
          phase,    \* "idle", "polling", "returned" or "failed"
          records,  \* offsets of the records the loop has collected
          nextOffset,
          position, \* the offset the client fetches next
          fetched,  \* the fetch the client holds for the loop, or NoFetch
          stableAtCall  \* history: the last stable offset when the read began

partitionVars == <<start, log>>
readerVars == <<phase, records, nextOffset, position, fetched, stableAtCall>>
vars == <<partitionVars, readerVars>>

NoFetch == [offsets |-> <<>>, logStart |-> -1, stable |-> -1]

EndOffset == start + Len(log)
At(offset) == log[offset - start + 1]

OpenOffsets == {o \in start .. EndOffset - 1 : At(o) = "open"}

LastStableOffset ==
  IF OpenOffsets = {} THEN EndOffset
  ELSE CHOOSE o \in OpenOffsets : \A p \in OpenOffsets : o <= p

\* The committed data records from one offset to another, in order.
CommittedFrom(from, to) ==
  InOrder({o \in from .. to - 1 : At(o) = "committed"})

Init ==
  /\ start \in LogStarts /\ log = <<>>
  /\ phase = "idle" /\ records = <<>> /\ nextOffset = 0
  /\ position = 0 /\ fetched = NoFetch /\ stableAtCall = 0

-----------------------------------------------------------------------------
(***************************************************************************)
(* The writers of the partition: Append, and the transaction of WriteLease.*)
(***************************************************************************)
AppendOne(kind) == Len(log) < MaxLog /\ log' = Append(log, kind)

AppendRegistration == AppendOne("committed") /\ UNCHANGED <<start, readerVars>>

BeginLease == OpenOffsets = {} /\ AppendOne("open") /\ UNCHANGED <<start, readerVars>>

\* The control record of the transaction takes the next offset.
EndLease(verdict) ==
  /\ OpenOffsets # {}
  /\ log' = Append([i \in DOMAIN log |-> IF log[i] = "open" THEN verdict ELSE log[i]],
                   "marker")
  /\ UNCHANGED <<start, readerVars>>

-----------------------------------------------------------------------------
(***************************************************************************)
(* The reader.                                                             *)
(***************************************************************************)
\* A new client that consumes from the start of the partition.
StartRead ==
  /\ phase # "polling"
  /\ phase' = "polling" /\ records' = <<>> /\ nextOffset' = 0
  /\ position' = start /\ fetched' = NoFetch
  /\ stableAtCall' = LastStableOffset
  /\ UNCHANGED partitionVars

\* The client fetches up to some offset, at most the last stable one.  It
\* buffers the fetch for the loop when a record is in it, with the stable
\* offset of this moment; otherwise only its position moves.
Fetch ==
  /\ phase = "polling" /\ fetched = NoFetch
  /\ \E upTo \in position + 1 .. LastStableOffset :
       /\ fetched' = IF CommittedFrom(position, upTo) = <<>> THEN NoFetch
                     ELSE [offsets |-> CommittedFrom(position, upTo), logStart |-> start,
                           stable |-> LastStableOffset]
       /\ position' = upTo
  /\ UNCHANGED <<partitionVars, phase, records, nextOffset, stableAtCall>>

Larger(a, b) == IF a >= b THEN a ELSE b

\* A loop that returns one offset before the end.
CollectsOneEarly(f) ==
  LET next == Larger(Larger(nextOffset, f.logStart), Last(f.offsets) + 1)
  IN  /\ records' = records \o f.offsets
      /\ nextOffset' = next
      /\ phase' = IF f.stable >= 0 /\ next + 1 >= f.stable THEN "returned" ELSE "polling"

\* A loop that waits for an offset behind the end.
CollectsPastTheEnd(f) ==
  LET next == Larger(Larger(nextOffset, f.logStart), Last(f.offsets) + 1)
  IN  /\ records' = records \o f.offsets
      /\ nextOffset' = next
      /\ phase' = IF f.stable >= 0 /\ next > f.stable THEN "returned" ELSE "polling"

\* The body of the loop for one result of PollFetches.
Collects(f) ==
  LET next == Larger(Larger(nextOffset, f.logStart), Last(f.offsets) + 1)
  IN  /\ records' = records \o f.offsets
      /\ nextOffset' = next
      /\ phase' = IF f.stable >= 0 /\ next >= f.stable THEN "returned" ELSE "polling"

\* A poll that returns the buffered fetch of the partition.
Poll ==
  /\ phase = "polling" /\ fetched # NoFetch
  /\ Collects(fetched)
  /\ fetched' = NoFetch
  /\ UNCHANGED <<partitionVars, position, stableAtCall>>

\* The context ends, or the fetch carries an error.
ReadFails ==
  /\ phase = "polling"
  /\ phase' = "failed" /\ records' = <<>> /\ fetched' = NoFetch
  /\ UNCHANGED <<partitionVars, nextOffset, position, stableAtCall>>

Next ==
  \/ AppendRegistration \/ BeginLease
  \/ \E verdict \in {"committed", "aborted"} : EndLease(verdict)
  \/ StartRead \/ Fetch \/ Poll \/ ReadFails

Spec == Init /\ [][Next]_vars

\* The client keeps fetching and the loop keeps polling.
FairSpec == Spec /\ WF_vars(Fetch) /\ WF_vars(Poll)

-----------------------------------------------------------------------------
\* What a read returns is the role's whole committed past: every committed
\* record up to a point that is not before the last stable offset of the
\* moment the call began, each once, in offset order, and no aborted write,
\* whatever was written, committed or aborted while the loop polled.
ReadIsCompletePrefix ==
  phase = "returned" =>
    /\ nextOffset >= stableAtCall
    /\ records = CommittedFrom(start, nextOffset)

\* The offset below the last stable one holds a record the client delivers.
TailIsDelivered ==
  LastStableOffset > start /\ At(LastStableOffset - 1) = "committed"

\* A read returns, also from a log that starts behind offset 0, while the
\* partition ends with a record that is delivered.  Only then: a partition
\* that is empty, or ends with a control record or an aborted one, wakes no
\* poll, and the read lasts until its context ends (see ReadReturns).
ReadReturnsBehindARecord ==
  phase = "polling" ~> (phase # "polling" \/ ~TailIsDelivered)

\* StateReader's contract in transport.go, docs/coordination.md rule 3: the
\* reader walks to the last stable offset and returns the records.
ReadReturns == phase = "polling" ~> phase # "polling"
=============================================================================
