-------------------------- MODULE StateReaderProofs -------------------------
(***************************************************************************)
(* Proofs about StateReader for every log start and a partition of any     *)
(* length: the read returns the whole committed past, whatever is written  *)
(* while it polls.                                                         *)
(***************************************************************************)
EXTENDS StateReader, OffsetOrderProofs

Kind == {"committed", "open", "aborted", "marker"}

\* The committed data records from one offset to another, as a set.
Committed(from, to) == {o \in from .. to - 1 : At(o) = "committed"}

\* No write below this offset is still open: it is at or below the last
\* stable offset, so what is below it never changes again.
Settled(offset) ==
  /\ offset <= EndOffset
  /\ \A o \in start .. offset - 1 : At(o) # "open"

\* The loop has collected what is committed below this offset: all of it, in
\* order, and nextOffset is behind the last of it.
Collected(upTo) ==
  /\ Lists(records, Committed(start, upTo))
  /\ nextOffset <= upTo /\ Committed(Larger(nextOffset, start), upTo) = {}

ReaderType ==
  /\ start \in Nat /\ log \in Seq(Kind) /\ nextOffset \in Nat /\ position \in Nat
  /\ stableAtCall \in Nat /\ phase \in {"idle", "polling", "returned", "failed"}

\* A coordination partition has one open transaction at a time.
OneOpen == \A o, p \in OpenOffsets : o = p

\* While the loop polls, the client is ahead of it by the fetch it holds.
PollingInv ==
  phase = "polling" =>
    /\ start <= position /\ Settled(position) /\ Settled(stableAtCall)
    /\ \/ fetched = NoFetch /\ Collected(position)
       \/ \E mid \in start .. position :
            /\ Collected(mid)
            /\ Lists(fetched.offsets, Committed(mid, position)) /\ fetched.offsets # <<>>
            /\ fetched.logStart = start /\ fetched.stable \in Nat
            /\ position <= fetched.stable /\ stableAtCall <= fetched.stable

ReturnedInv ==
  phase = "returned" =>
    /\ start <= nextOffset /\ Settled(nextOffset) /\ stableAtCall <= nextOffset
    /\ Lists(records, Committed(start, nextOffset))

ReaderInv == ReaderType /\ OneOpen /\ PollingInv /\ ReturnedInv

-----------------------------------------------------------------------------
(***************************************************************************)
(* The partition.                                                          *)
(***************************************************************************)
\* The last stable offset is the largest offset below which nothing is open.
LEMMA StableFacts ==
  ASSUME ReaderType, OneOpen
  PROVE  /\ LastStableOffset \in Nat /\ start <= LastStableOffset
         /\ Settled(LastStableOffset)
         /\ \A k \in Nat : Settled(k) => k <= LastStableOffset
<1>1. start \in Nat /\ Len(log) \in Nat /\ EndOffset \in Nat /\ start <= EndOffset
  BY DEF ReaderType, EndOffset
<1>2. CASE OpenOffsets = {}
  <2>1. LastStableOffset = EndOffset
    BY <1>2 DEF LastStableOffset
  <2>2. \A o \in start .. EndOffset - 1 : At(o) # "open"
    BY <1>2 DEF OpenOffsets
  <2> QED BY <1>1, <2>1, <2>2 DEF Settled
<1>3. CASE OpenOffsets # {}
  <2>1. PICK o \in OpenOffsets : TRUE
    BY <1>3
  <2>2. \A p \in OpenOffsets : p = o
    BY <2>1 DEF OneOpen
  <2>3. o \in Nat /\ start <= o /\ o < EndOffset /\ At(o) = "open"
    BY <1>1 DEF OpenOffsets
  <2>4. LastStableOffset = o
    <3>1. \A p \in OpenOffsets : o <= p
      BY <2>2, <2>3
    <3>2. LastStableOffset = CHOOSE x \in OpenOffsets : \A p \in OpenOffsets : x <= p
      BY <1>3 DEF LastStableOffset
    <3>3. LastStableOffset \in OpenOffsets
      BY <3>1, <3>2
    <3> QED BY <3>3, <2>2
  <2>5. Settled(o)
    <3>1. ASSUME NEW p \in start .. o - 1 PROVE At(p) # "open"
      <4>1. p \in start .. EndOffset - 1 /\ p # o
        BY <1>1, <2>3
      <4> QED BY <4>1, <2>2 DEF OpenOffsets
    <3> QED BY <3>1, <2>3, <1>1 DEF Settled
  <2>6. ASSUME NEW k \in Nat, Settled(k) PROVE k <= o
    <3>1. ~(o \in start .. k - 1)
      BY <2>3, <2>6 DEF Settled
    <3> QED BY <3>1, <2>3, <1>1
  <2> QED BY <2>3, <2>4, <2>5, <2>6
<1> QED BY <1>2, <1>3

\* What a set of committed offsets is made of.
LEMMA CommittedFacts ==
  ASSUME ReaderType, NEW a \in Nat, NEW b \in Nat
  PROVE  /\ Committed(a, b) \subseteq Nat /\ IsFiniteSet(Committed(a, b))
         /\ \A o \in Committed(a, b) : a <= o /\ o < b
         /\ CommittedFrom(a, b) = InOrder(Committed(a, b))
<1>1. Committed(a, b) \in SUBSET (a .. b - 1)
  BY DEF Committed
<1>2. IsFiniteSet(a .. b - 1)
  BY FS_Interval
<1>3. IsFiniteSet(Committed(a, b))
  BY <1>1, <1>2, FS_Subset
<1> QED BY <1>1, <1>3 DEF CommittedFrom, Committed

\* The committed offsets of two adjacent stretches.
LEMMA CommittedSplits ==
  ASSUME NEW a \in Nat, NEW b \in Nat, NEW c \in Nat, a <= b, b <= c
  PROVE  Committed(a, c) = Committed(a, b) \union Committed(b, c)
<1>1. \A o : o \in a .. c - 1 <=> o \in a .. b - 1 \/ o \in b .. c - 1
  OBVIOUS
<1> QED BY <1>1 DEF Committed

\* A write to the partition: a record or a control record is appended, and a
\* record that is there keeps its kind unless it is open.
Writes ==
  /\ start' = start /\ log' \in Seq(Kind) /\ Len(log') = Len(log) + 1
  /\ \A i \in 1 .. Len(log) : log[i] # "open" => log'[i] = log[i]

\* A write changes nothing below an offset that is settled: EndTransaction
\* ends an open record, and an append is behind the end.
LEMMA WriteKeepsSettled ==
  ASSUME ReaderType, Writes, NEW k \in Nat, Settled(k)
  PROVE  /\ k <= start' + Len(log')
         /\ \A o \in start .. k - 1 : log'[o - start' + 1] = log[o - start + 1]
<1>1. start \in Nat /\ Len(log) \in Nat /\ k <= start + Len(log)
  BY DEF ReaderType, Settled, EndOffset
<1>2. ASSUME NEW o \in start .. k - 1
      PROVE  log'[o - start' + 1] = log[o - start + 1]
  <2>1. o - start + 1 \in 1 .. Len(log)
    BY <1>1
  <2>2. log[o - start + 1] # "open"
    BY DEF Settled, At
  <2> QED BY <2>1, <2>2 DEF Writes
<1> QED BY <1>1, <1>2 DEF Writes

\* So the committed offsets below a settled offset are settled too.
LEMMA WriteKeepsCommitted ==
  ASSUME ReaderType, Writes, NEW k \in Nat, Settled(k)
  PROVE  /\ k <= EndOffset' /\ \A o \in start' .. k - 1 : (log'[o - start' + 1]) # "open"
         /\ \A a \in Nat, b \in Nat : start <= a /\ b <= k =>
              {o \in a .. b - 1 : log'[o - start' + 1] = "committed"} = Committed(a, b)
<1>1. /\ k <= start' + Len(log')
      /\ \A o \in start .. k - 1 : log'[o - start' + 1] = log[o - start + 1]
  BY WriteKeepsSettled
<1>2. start' = start /\ start \in Nat
  BY DEF Writes, ReaderType
<1>3. \A o \in start .. k - 1 : log[o - start + 1] # "open"
  BY DEF Settled, At
<1>4. ASSUME NEW a \in Nat, NEW b \in Nat, start <= a, b <= k
      PROVE  {o \in a .. b - 1 : log'[o - start' + 1] = "committed"} = Committed(a, b)
  <2>1. \A o \in a .. b - 1 : o \in start .. k - 1
    BY <1>4, <1>2
  <2>2. \A o \in a .. b - 1 : log'[o - start' + 1] = log[o - start + 1]
    BY <2>1, <1>1
  <2> QED BY <2>2 DEF Committed, At
<1> QED BY <1>1, <1>2, <1>3, <1>4 DEF EndOffset

\* A write keeps what the reader relies on.
LEMMA WriteStep ==
  ASSUME ReaderInv, Writes, OneOpen', UNCHANGED readerVars
  PROVE  ReaderInv'
<1> USE DEF readerVars
<1>1. ReaderType /\ ReaderType'
  BY DEF ReaderInv, ReaderType, Writes
<1>2. start' = start
  BY DEF Writes
<1>3. \A k \in Nat : Settled(k) =>
        /\ k <= EndOffset' /\ \A o \in start' .. k - 1 : (log'[o - start' + 1]) # "open"
        /\ \A a \in Nat, b \in Nat : start <= a /\ b <= k =>
             {o \in a .. b - 1 : log'[o - start' + 1] = "committed"} = Committed(a, b)
  BY <1>1, WriteKeepsCommitted
<1>4. ASSUME phase = "polling" PROVE PollingInv'
  <2>1. start <= position /\ Settled(position) /\ Settled(stableAtCall)
    BY <1>4 DEF ReaderInv, PollingInv
  <2>2. Settled(position)' /\ Settled(stableAtCall)'
    BY <2>1, <1>1, <1>3 DEF Settled, At, ReaderType
  <2>3. \A a, b \in Nat : start <= a /\ b <= position =>
          {o \in a .. b - 1 : log'[o - start' + 1] = "committed"} = Committed(a, b)
    BY <2>1, <1>1, <1>3 DEF ReaderType
  <2>4. \A mid \in start .. position : Collected(mid) => Collected(mid)'
    <3> SUFFICES ASSUME NEW mid \in start .. position, Collected(mid) PROVE Collected(mid)'
      OBVIOUS
    <3>1. mid \in Nat /\ Larger(nextOffset, start) \in Nat /\ start <= Larger(nextOffset, start)
      BY <1>1 DEF ReaderType, Larger
    <3>2. Committed(start, mid)' = Committed(start, mid)
      BY <3>1, <2>3, <1>1, <1>2 DEF Committed, At, ReaderType
    <3>3. Committed(Larger(nextOffset, start), mid)' = Committed(Larger(nextOffset, start), mid)
      BY <3>1, <2>3, <1>1, <1>2 DEF Committed, At, ReaderType, Larger
    <3> QED BY <3>2, <3>3 DEF Collected, Lists
  <2>5. CASE fetched = NoFetch /\ Collected(position)
    <3>1. PICK mid \in start .. position : mid = position
      BY <2>1, <1>1 DEF ReaderType
    <3>2. Collected(mid) /\ position' = mid
      BY <2>5, <3>1
    <3>3. Collected(position)'
      BY <2>4, <3>2 DEF Collected
    <3> QED BY <2>1, <2>2, <2>5, <3>3, <1>2 DEF PollingInv, NoFetch
  <2>6. CASE \E mid \in start .. position :
               /\ Collected(mid)
               /\ Lists(fetched.offsets, Committed(mid, position)) /\ fetched.offsets # <<>>
               /\ fetched.logStart = start /\ fetched.stable \in Nat
               /\ position <= fetched.stable /\ stableAtCall <= fetched.stable
    <3>1. PICK mid \in start .. position :
               /\ Collected(mid)
               /\ Lists(fetched.offsets, Committed(mid, position)) /\ fetched.offsets # <<>>
               /\ fetched.logStart = start /\ fetched.stable \in Nat
               /\ position <= fetched.stable /\ stableAtCall <= fetched.stable
      BY <2>6
    <3>2. Collected(mid)'
      BY <3>1, <2>4
    <3>3. Committed(mid, position)' = Committed(mid, position)
      BY <2>3, <1>1, <1>2 DEF Committed, At, ReaderType
    <3>4. Lists(fetched.offsets, Committed(mid, position))'
      BY <3>1, <3>3 DEF Lists
    <3> QED BY <2>1, <2>2, <3>1, <3>2, <3>4, <1>2 DEF PollingInv
  <2> QED BY <1>4, <2>5, <2>6 DEF ReaderInv, PollingInv
<1>5. ASSUME phase = "returned" PROVE ReturnedInv'
  <2>1. /\ start <= nextOffset /\ Settled(nextOffset) /\ stableAtCall <= nextOffset
        /\ Lists(records, Committed(start, nextOffset))
    BY <1>5 DEF ReaderInv, ReturnedInv
  <2>2. Settled(nextOffset)'
    BY <2>1, <1>1, <1>3 DEF Settled, At, ReaderType
  <2>3. Committed(start, nextOffset)' = Committed(start, nextOffset)
    BY <2>1, <1>1, <1>2, <1>3 DEF Committed, At, ReaderType
  <2> QED BY <2>1, <2>2, <2>3, <1>2 DEF ReturnedInv, Lists
<1>6. PollingInv' /\ ReturnedInv'
  BY <1>4, <1>5 DEF PollingInv, ReturnedInv
<1> QED BY <1>1, <1>6 DEF ReaderInv
-----------------------------------------------------------------------------
(***************************************************************************)
(* The steps.                                                              *)
(***************************************************************************)
\* The writers of the partition are writes in this sense and leave at most
\* one record open.
LEMMA WritersWrite ==
  ASSUME ReaderInv,
         \/ AppendRegistration \/ BeginLease
         \/ \E verdict \in {"committed", "aborted"} : EndLease(verdict)
  PROVE  Writes /\ OneOpen' /\ UNCHANGED readerVars
<1>0. start \in Nat /\ log \in Seq(Kind) /\ Len(log) \in Nat
  BY DEF ReaderInv, ReaderType
<1>1. ASSUME NEW kind \in Kind, log' = Append(log, kind), start' = start,
             kind = "open" => OpenOffsets = {}
      PROVE  Writes /\ OneOpen'
  <2>1. /\ log' \in Seq(Kind) /\ Len(log') = Len(log) + 1
        /\ \A i \in 1 .. Len(log) : log'[i] = log[i]
        /\ log'[Len(log) + 1] = kind
    BY <1>0, <1>1
  <2>2. ASSUME NEW o \in OpenOffsets'
        PROVE  \/ o \in OpenOffsets
               \/ kind = "open" /\ o = EndOffset
    <3>1. o \in start .. start + Len(log) /\ log'[o - start + 1] = "open"
      BY <1>0, <1>1, <2>1 DEF OpenOffsets, EndOffset, At
    <3>2. CASE o = start + Len(log)
      BY <3>1, <3>2, <2>1, <1>0 DEF EndOffset
    <3>3. CASE o # start + Len(log)
      <4>1. o \in start .. start + Len(log) - 1 /\ o - start + 1 \in 1 .. Len(log)
        BY <3>1, <3>3, <1>0
      <4>2. log[o - start + 1] = "open"
        BY <4>1, <3>1, <2>1
      <4>3. o \in OpenOffsets
        BY <1>0, <4>1, <4>2 DEF OpenOffsets, EndOffset, At
      <4> QED BY <4>3
    <3> QED BY <3>2, <3>3
  <2>3. OneOpen'
    BY <2>2, <1>1 DEF OneOpen, ReaderInv
  <2> QED BY <2>1, <2>3, <1>1 DEF Writes
<1>2. CASE AppendRegistration
  BY <1>1, <1>2 DEF AppendRegistration, AppendOne, Kind
<1>3. CASE BeginLease
  BY <1>1, <1>3 DEF BeginLease, AppendOne, Kind
<1>4. CASE \E verdict \in {"committed", "aborted"} : EndLease(verdict)
  <2>1. PICK verdict \in {"committed", "aborted"} : EndLease(verdict)
    BY <1>4
  <2> DEFINE ended == [i \in DOMAIN log |-> IF log[i] = "open" THEN verdict ELSE log[i]]
  <2>2. ended \in Seq(Kind) /\ Len(ended) = Len(log)
        /\ \A i \in 1 .. Len(log) : ended[i] = IF log[i] = "open" THEN verdict ELSE log[i]
    <3>1. DOMAIN log = 1 .. Len(log) /\ \A i \in 1 .. Len(log) : log[i] \in Kind
      BY <1>0
    <3>2. \A i \in 1 .. Len(log) : (IF log[i] = "open" THEN verdict ELSE log[i]) \in Kind
      BY <3>1 DEF Kind
    <3> QED BY <1>0, <3>1, <3>2
  <2>3. log' = Append(ended, "marker") /\ start' = start
    BY <2>1 DEF EndLease
  <2>4. /\ log' \in Seq(Kind) /\ Len(log') = Len(log) + 1
        /\ \A i \in 1 .. Len(log) : log'[i] = ended[i]
        /\ log'[Len(log) + 1] = "marker"
    <3> HIDE DEF ended
    <3> QED BY <1>0, <2>2, <2>3 DEF Kind
  <2>5. \A i \in 1 .. Len(log) : /\ log'[i] # "open"
                                 /\ log[i] # "open" => log'[i] = log[i]
    BY <2>2, <2>4
  <2>6. OpenOffsets' = {}
    <3> SUFFICES ASSUME NEW o \in OpenOffsets' PROVE FALSE
      OBVIOUS
    <3>1. o \in start .. start + Len(log) /\ log'[o - start + 1] = "open"
      BY <1>0, <2>3, <2>4 DEF OpenOffsets, EndOffset, At
    <3>2. o - start + 1 \in 1 .. Len(log) \/ o - start + 1 = Len(log) + 1
      BY <3>1, <1>0
    <3> QED BY <3>1, <3>2, <2>4, <2>5
  <2>7. OneOpen'
    BY <2>6 DEF OneOpen
  <2> QED BY <2>1, <2>3, <2>4, <2>5, <2>7 DEF Writes, EndLease
<1>5. UNCHANGED readerVars
  BY DEF AppendRegistration, BeginLease, EndLease
<1> QED BY <1>2, <1>3, <1>4, <1>5

\* The client fetches: it goes ahead of the loop by what is committed up to
\* its new position, and the stable offset it reports is not before the one
\* of the moment the call began.
LEMMA FetchStep ==
  ASSUME ReaderInv, Fetch
  PROVE  ReaderInv'
<1>1. ReaderType /\ OneOpen /\ UNCHANGED <<start, log, phase, records, nextOffset, stableAtCall>>
      /\ phase = "polling" /\ fetched = NoFetch
  BY DEF ReaderInv, Fetch, partitionVars
<1>2. PICK upTo \in position + 1 .. LastStableOffset :
        /\ fetched' = IF CommittedFrom(position, upTo) = <<>> THEN NoFetch
                      ELSE [offsets |-> CommittedFrom(position, upTo), logStart |-> start,
                            stable |-> LastStableOffset]
        /\ position' = upTo
  BY DEF Fetch
<1>3. /\ LastStableOffset \in Nat /\ start <= LastStableOffset /\ Settled(LastStableOffset)
      /\ \A k \in Nat : Settled(k) => k <= LastStableOffset
  BY <1>1, StableFacts
<1>4. start <= position /\ Settled(position) /\ Settled(stableAtCall)
  BY <1>1 DEF ReaderInv, PollingInv
<1>5. start \in Nat /\ position \in Nat /\ upTo \in Nat /\ position <= upTo /\ start <= upTo
      /\ stableAtCall \in Nat /\ nextOffset \in Nat
  BY <1>1, <1>2, <1>3, <1>4 DEF ReaderType
<1>6. Settled(upTo)
  BY <1>2, <1>3, <1>5 DEF Settled, EndOffset, ReaderInv, ReaderType
<1>7. Lists(CommittedFrom(position, upTo), Committed(position, upTo))
  <2>1. CommittedFrom(position, upTo) = InOrder(Committed(position, upTo))
    BY <1>1, <1>5, CommittedFacts
  <2>2. Committed(position, upTo) \subseteq Nat /\ IsFiniteSet(Committed(position, upTo))
    BY <1>1, <1>5, CommittedFacts
  <2> QED BY <2>1, <2>2, InOrderLists
<1>8. Collected(position)
  <2>1. ASSUME NEW mid \in start .. position, fetched.logStart = start PROVE FALSE
    BY <2>1, <1>1, <1>5 DEF NoFetch
  <2> QED BY <1>1, <2>1 DEF ReaderInv, PollingInv
<1>9. Settled(position)' /\ Settled(stableAtCall)'
  BY <1>1, <1>2, <1>4, <1>6 DEF Settled, EndOffset, At
<1>10. ASSUME CommittedFrom(position, upTo) = <<>> PROVE PollingInv'
  <2>1. fetched' = NoFetch /\ Committed(position, upTo) = {}
    BY <1>2, <1>7, <1>10 DEF Lists
  <2>2. /\ Lists(records, Committed(start, position)) /\ nextOffset <= position
        /\ Committed(Larger(nextOffset, start), position) = {}
    BY <1>8 DEF Collected
  <2>3. Committed(start, upTo) = Committed(start, position) \union Committed(position, upTo)
    BY <1>4, <1>5, CommittedSplits
  <2>4. PICK from \in Nat : from = Larger(nextOffset, start) /\ from <= position
    BY <1>4, <1>5, <2>2 DEF Larger
  <2>5. Committed(from, upTo) = Committed(from, position) \union Committed(position, upTo)
    BY <1>5, <2>4, CommittedSplits
  <2>6. /\ Lists(records, Committed(start, upTo)) /\ nextOffset <= upTo
        /\ Committed(Larger(nextOffset, start), upTo) = {}
    BY <1>5, <2>1, <2>2, <2>3, <2>4, <2>5
  <2>7. Collected(position)'
    BY <1>1, <1>2, <2>6 DEF Collected, Lists, Committed, At, Larger
  <2> QED BY <1>1, <1>2, <1>5, <1>9, <2>1, <2>7 DEF PollingInv, NoFetch
<1>11. ASSUME CommittedFrom(position, upTo) # <<>> PROVE PollingInv'
  <2>1. /\ fetched'.offsets = CommittedFrom(position, upTo) /\ fetched'.offsets # <<>>
        /\ fetched'.logStart = start' /\ fetched'.stable = LastStableOffset
    BY <1>1, <1>2, <1>11
  <2>2. PICK mid \in start .. upTo : mid = position
    <3>1. position \in start .. upTo
      BY <1>4, <1>5
    <3> QED BY <3>1
  <2>3. /\ Lists(records, Committed(start, mid)) /\ nextOffset <= mid
        /\ Committed(Larger(nextOffset, start), mid) = {}
        /\ Lists(fetched'.offsets, Committed(mid, upTo))
    BY <1>7, <1>8, <2>1, <2>2 DEF Collected
  <2>4. Collected(mid)' /\ Lists(fetched.offsets, Committed(mid, position))'
    BY <1>1, <1>2, <2>3 DEF Collected, Lists, Committed, At, Larger
  <2>5. upTo <= LastStableOffset /\ stableAtCall <= LastStableOffset
    BY <1>2, <1>3, <1>4, <1>5
  <2> QED BY <1>1, <1>2, <1>3, <1>5, <1>9, <2>1, <2>2, <2>4, <2>5 DEF PollingInv
<1>12. PollingInv'
  BY <1>10, <1>11
<1>13. ReaderType' /\ OneOpen' /\ ReturnedInv'
  BY <1>1, <1>2, <1>5 DEF ReaderType, OneOpen, OpenOffsets, EndOffset, At, ReturnedInv
<1> QED BY <1>12, <1>13 DEF ReaderInv

\* A poll that returns the fetch: the loop catches up with the client, and
\* when it returns it stands at the client's position, at or behind the
\* stable offset of the moment the call began.
LEMMA PollStep ==
  ASSUME ReaderInv, Poll
  PROVE  ReaderInv'
<1>1. /\ ReaderType /\ OneOpen /\ phase = "polling" /\ fetched # NoFetch /\ fetched' = NoFetch
      /\ UNCHANGED <<start, log, position, stableAtCall>> /\ Collects(fetched)
  BY DEF ReaderInv, Poll, partitionVars
<1>2. start <= position /\ Settled(position) /\ Settled(stableAtCall)
  BY <1>1 DEF ReaderInv, PollingInv
<1>3. PICK mid \in start .. position :
        /\ Collected(mid)
        /\ Lists(fetched.offsets, Committed(mid, position)) /\ fetched.offsets # <<>>
        /\ fetched.logStart = start /\ fetched.stable \in Nat
        /\ position <= fetched.stable /\ stableAtCall <= fetched.stable
  BY <1>1 DEF ReaderInv, PollingInv
<1>4. start \in Nat /\ position \in Nat /\ mid \in Nat /\ nextOffset \in Nat
      /\ stableAtCall \in Nat /\ start <= mid /\ mid <= position
  BY <1>1, <1>2 DEF ReaderType
<1> DEFINE f == fetched.offsets
           from == Larger(nextOffset, start)
           next == Larger(from, Last(f) + 1)
<1>5. /\ records' = records \o f /\ nextOffset' = next
      /\ phase' = IF fetched.stable >= 0 /\ next >= fetched.stable
                  THEN "returned" ELSE "polling"
  BY <1>1, <1>3 DEF Collects
<1>6. Lists(records', Committed(start, position))
  <2>1. Lists(records, Committed(start, mid))
    BY <1>3 DEF Collected
  <2>2. \A o \in Committed(start, mid), p \in Committed(mid, position) : o < p
    <3>1. \A o \in Committed(start, mid) : o \in Nat /\ o < mid
      BY <1>1, <1>4, CommittedFacts
    <3>2. \A p \in Committed(mid, position) : p \in Nat /\ mid <= p
      BY <1>1, <1>4, CommittedFacts
    <3> QED BY <3>1, <3>2, <1>4
  <2>3. Committed(start, position) = Committed(start, mid) \union Committed(mid, position)
    BY <1>4, CommittedSplits
  <2> QED BY <2>1, <2>2, <2>3, <1>3, <1>5, ListsConcat
<1>7. /\ from \in Nat /\ start <= from /\ from <= mid /\ Committed(from, mid) = {}
  BY <1>3, <1>4 DEF Collected, Larger
<1>8. /\ next \in Nat /\ start <= next /\ next <= position
      /\ Committed(next, position) = {}
  <2>1. f \in Seq(Nat) /\ Len(f) \in Nat /\ Len(f) # 0 /\ Len(f) \in 1 .. Len(f)
    BY <1>3 DEF Lists
  <2>2. Last(f) = f[Len(f)] /\ Last(f) \in Committed(mid, position) /\ Last(f) \in Nat
    BY <2>1, <1>3 DEF Lists, Last
  <2>3. mid <= Last(f) /\ Last(f) < position
    BY <2>2, <1>1, <1>4, CommittedFacts
  <2>4. next = Last(f) + 1
    BY <2>2, <2>3, <1>4, <1>7 DEF Larger
  <2>5. \A o \in Committed(mid, position) : o \in Nat /\ o <= Last(f)
    BY <2>1, <2>2, <1>3 DEF Lists
  <2>6. ASSUME NEW o \in Committed(next, position) PROVE FALSE
    <3>1. o \in Nat /\ Last(f) < o
      BY <2>2, <2>4, <1>1, <1>4, CommittedFacts
    <3>2. o \in Committed(mid, position)
      BY <2>2, <2>3, <2>4, <1>4 DEF Committed
    <3> QED BY <3>1, <3>2, <2>2, <2>5
  <2> QED BY <2>2, <2>3, <2>4, <2>6, <1>4
<1> HIDE DEF next, from, f
<1>9. Settled(position)' /\ Settled(stableAtCall)'
  BY <1>1, <1>2 DEF Settled, EndOffset, At
<1>10. Lists(records, Committed(start, position))'
  BY <1>1, <1>6 DEF Lists, Committed, At
<1>11. /\ nextOffset' \in Nat /\ start' <= nextOffset' /\ nextOffset' <= position'
       /\ Committed(nextOffset, position)' = {}
  BY <1>1, <1>5, <1>8 DEF Committed, At
<1>12. Larger(nextOffset', start') = nextOffset'
  BY <1>11, <1>1, <1>4 DEF Larger
<1>13. Collected(position)'
  BY <1>10, <1>11, <1>12 DEF Collected
<1>14. phase' \in {"returned", "polling"}
  BY <1>5
<1>15. ASSUME phase' = "returned" PROVE ReturnedInv'
  <2>1. next >= fetched.stable
    BY <1>15, <1>5
  <2>2. nextOffset' = position' /\ stableAtCall' <= nextOffset'
    BY <2>1, <1>1, <1>3, <1>4, <1>5, <1>8
  <2> QED BY <2>2, <1>9, <1>10, <1>11 DEF ReturnedInv
<1>16. PollingInv'
  BY <1>1, <1>2, <1>9, <1>13 DEF PollingInv, NoFetch
<1>17. ReaderType' /\ OneOpen'
  BY <1>1, <1>11, <1>14 DEF ReaderType, OneOpen, OpenOffsets, EndOffset, At
<1> QED BY <1>15, <1>16, <1>17 DEF ReaderInv, ReturnedInv

\* A new read stands at the log start with nothing collected.
LEMMA StartStep ==
  ASSUME ReaderInv, StartRead
  PROVE  ReaderInv'
<1>1. /\ ReaderType /\ OneOpen /\ phase' = "polling" /\ records' = <<>> /\ nextOffset' = 0
      /\ position' = start /\ fetched' = NoFetch /\ stableAtCall' = LastStableOffset
      /\ start' = start /\ log' = log
  BY DEF ReaderInv, StartRead, partitionVars
<1>2. LastStableOffset \in Nat /\ Settled(LastStableOffset)
  BY <1>1, StableFacts
<1>3. start \in Nat /\ Len(log) \in Nat
  BY <1>1 DEF ReaderType
<1>4. Settled(position)' /\ Settled(stableAtCall)'
  BY <1>1, <1>2, <1>3 DEF Settled, EndOffset, At
<1>5. Committed(start, position)' = {}
  BY <1>1, <1>3 DEF Committed
<1>6. Lists(records, Committed(start, position))'
  BY <1>1, <1>5 DEF Lists
<1>7. Larger(nextOffset, start)' = start'
  BY <1>1, <1>3 DEF Larger
<1>8. Collected(position)'
  BY <1>1, <1>3, <1>5, <1>6, <1>7 DEF Collected
<1>9. PollingInv' /\ ReturnedInv'
  BY <1>1, <1>3, <1>4, <1>8 DEF PollingInv, ReturnedInv, NoFetch
<1>10. ReaderType' /\ OneOpen'
  BY <1>1, <1>2, <1>3 DEF ReaderType, OneOpen, OpenOffsets, EndOffset, At
<1> QED BY <1>9, <1>10 DEF ReaderInv

\* Every step keeps the invariant of the reader.
LEMMA ReaderStep == ReaderInv /\ [Next]_vars => ReaderInv'
<1> SUFFICES ASSUME ReaderInv, [Next]_vars PROVE ReaderInv'
  OBVIOUS
<1>1. ASSUME UNCHANGED vars PROVE ReaderInv'
  <2>1. UNCHANGED <<start, log, phase, records, nextOffset, position, fetched, stableAtCall>>
    BY <1>1 DEF vars, readerVars, partitionVars
  <2>2. ReaderType' /\ OneOpen'
    BY <2>1 DEF ReaderInv, ReaderType, OneOpen, OpenOffsets, EndOffset, At
  <2>3. PollingInv'
    <3>1. Settled(position)' = Settled(position) /\ Settled(stableAtCall)' = Settled(stableAtCall)
      BY <2>1 DEF Settled, EndOffset, At
    <3>2. Collected(position)' = Collected(position)
          /\ \A mid : Collected(mid)' = Collected(mid)
      BY <2>1 DEF Collected, Committed, Lists, At, Larger
    <3>3. \A mid : Lists(fetched.offsets, Committed(mid, position))'
                 = Lists(fetched.offsets, Committed(mid, position))
      BY <2>1 DEF Committed, Lists, At
    <3> QED BY <2>1, <3>1, <3>2, <3>3 DEF ReaderInv, PollingInv, NoFetch
  <2>4. ReturnedInv'
    BY <2>1 DEF ReaderInv, ReturnedInv, Settled, EndOffset, At, Committed, Lists
  <2> QED BY <2>2, <2>3, <2>4 DEF ReaderInv
<1>2. CASE \/ AppendRegistration \/ BeginLease
           \/ \E verdict \in {"committed", "aborted"} : EndLease(verdict)
  BY <1>2, WritersWrite, WriteStep
<1>3. CASE StartRead
  BY <1>3, StartStep
<1>4. CASE Fetch
  BY <1>4, FetchStep
<1>5. CASE Poll
  BY <1>5, PollStep
<1>6. CASE ReadFails
  <2>1. phase' = "failed" /\ UNCHANGED <<start, log, nextOffset, position, stableAtCall>>
    BY <1>6 DEF ReadFails, partitionVars
  <2> QED BY <2>1 DEF ReaderInv, ReaderType, OneOpen, OpenOffsets, EndOffset, At,
             PollingInv, ReturnedInv
<1> QED BY <1>1, <1>2, <1>3, <1>4, <1>5, <1>6 DEF Next

\* The inductive invariant of the reader.
THEOREM ReaderInvariant == Spec => []ReaderInv
<1>1. Init => ReaderInv
  <2> SUFFICES ASSUME Init PROVE ReaderInv
    OBVIOUS
  <2>1. start \in Nat /\ log = <<>>
    BY StateReaderAssumption DEF Init
  <2>2. OpenOffsets = {}
    BY <2>1 DEF OpenOffsets, EndOffset
  <2> QED BY <2>1, <2>2 DEF Init, ReaderInv, ReaderType, OneOpen, PollingInv, ReturnedInv
<1> QED BY <1>1, ReaderStep, PTL DEF Spec

\* What ReadPartition returns is the whole committed past up to a point that
\* is not before the last stable offset of the moment the call began: for
\* every log start, a log of any length, and any interleaving of the fetches
\* and polls with the writers.
THEOREM CompletePrefix == Spec => []ReadIsCompletePrefix
<1>1. ReaderInv => ReadIsCompletePrefix
  <2> SUFFICES ASSUME ReaderInv, phase = "returned"
               PROVE  nextOffset >= stableAtCall /\ records = CommittedFrom(start, nextOffset)
    BY DEF ReadIsCompletePrefix
  <2>1. /\ start \in Nat /\ nextOffset \in Nat /\ stableAtCall \in Nat
        /\ stableAtCall <= nextOffset
        /\ Lists(records, Committed(start, nextOffset))
    BY DEF ReaderInv, ReaderType, ReturnedInv
  <2>2. records = InOrder(Committed(start, nextOffset))
    BY <2>1, ListsIsInOrder
  <2> QED BY <2>1, <2>2 DEF CommittedFrom, Committed
<1> QED BY <1>1, ReaderInvariant, PTL
=============================================================================
