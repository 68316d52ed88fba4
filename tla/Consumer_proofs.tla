--------------------------- MODULE Consumer_proofs ---------------------------
(***************************************************************************)
(* Theorems about Consumer: the offset a consumer group commits never      *)
(* passes a message that is not accounted for, for any number of messages, *)
(* faults, crashes and rebalances and any batch size.                      *)
(***************************************************************************)
EXTENDS Consumer, FiniteSetTheorems, TLAPS

\* Written, dead-lettered or passed over.
Accounted(o) == Handled(o) \/ PassedOver(o)

\* What has been fetched is accounted for or waits in the batch.
FetchedAccounted == \A o \in Offsets : o < position => Accounted(o) \/ InBatch(o)

\* So is everything before a message of the batch.  It does not follow from
\* FetchedAccounted: a rebalance puts position back and keeps the batch.
BatchAccounted ==
    \A i \in DOMAIN batch : \A o \in Offsets : o < batch[i] => Accounted(o) \/ InBatch(o)

\* A batch is committed after it is written or dead-lettered.
BatchHandled == pc = "commitBatch" => \A i \in DOMAIN batch : Handled(batch[i])

\* A message committed by itself has nothing before it that is not accounted for.
CurrentAccounted == pc = "commitOne" => \A o \in Offsets : o <= current => Accounted(o)

\* Only the workout.sample loop has a batch.
FinishedUnbatched == topic = "race.finished" => batch = <<>>

Inv ==
    /\ TypeOK /\ FinishedUnbatched
    /\ CommittedHandled /\ FetchedAccounted /\ BatchAccounted /\ BatchHandled /\ CurrentAccounted

-----------------------------------------------------------------------------
\* No step deletes a row.
RowsKept == \A o \in Offsets : stored[o] > 0 => stored'[o] > 0

\* A batch adds to the rows of each of its messages, and takes none away.
LEMMA InsertAdds ==
    ASSUME TypeOK, InsertBatch
    PROVE  /\ stored' \in [Offsets -> Nat]
           /\ RowsKept
           /\ \A i \in DOMAIN batch : stored'[batch[i]] > 0
<1> DEFINE Places(o) == {i \in DOMAIN batch : batch[i] = o}
<1>1. DOMAIN batch = 1..Len(batch) /\ Len(batch) \in Nat
  BY DEF TypeOK
<1>2. IsFiniteSet(1..Len(batch))
  BY <1>1, FS_Interval
<1>3. ASSUME NEW o \in Offsets
      PROVE  IsFiniteSet(Places(o)) /\ Cardinality(Places(o)) \in Nat
  <2>1. Places(o) \subseteq 1..Len(batch)
    BY <1>1
  <2>2. IsFiniteSet(Places(o))
    BY <2>1, <1>2, FS_Subset
  <2> QED
    BY <2>2, FS_CardinalityType
<1>4. \A o \in Offsets : stored[o] \in Nat
  BY DEF TypeOK
<1>5. stored' = [o \in Offsets |-> stored[o] + Cardinality(Places(o))]
  BY DEF InsertBatch
<1>6. stored' \in [Offsets -> Nat]
  BY <1>3, <1>4, <1>5
<1>7. RowsKept
  BY <1>3, <1>4, <1>5 DEF RowsKept
<1>8. ASSUME NEW i \in DOMAIN batch
      PROVE  stored'[batch[i]] > 0
  <2>1. batch[i] \in Offsets
    BY DEF TypeOK
  <2>2. i \in Places(batch[i])
    OBVIOUS
  <2>3. Cardinality(Places(batch[i])) # 0
    BY <1>3, <2>1, <2>2, FS_EmptySet
  <2> QED
    BY <1>3, <1>4, <1>5, <2>1, <2>3
<1> QED
  BY <1>6, <1>7, <1>8

-----------------------------------------------------------------------------
\* Every step of a loop, and every fault and disruption, keeps the types.
LEMMA NextType ==
    ASSUME TypeOK, [Next]_vars
    PROVE  TypeOK'
<1> USE TopicsAssumption, SizeAssumption, BoundsAssumption
<1>1. CASE AddSample
  <2>1. position \in Offsets
    BY <1>1 DEF AddSample, Fetches, TypeOK, Offsets
  <2>2. batch' \in Seq(Offsets)
    BY <1>1, <2>1 DEF AddSample, TypeOK
  <2>3. aged' \in BOOLEAN
    BY <1>1 DEF AddSample, TypeOK
  <2>4. position' \in 0..NumMessages
    BY <1>1 DEF AddSample, Fetches, TypeOK
  <2>5. pc' \in {"poll", "flush"}
    BY <1>1 DEF AddSample
  <2> QED
    BY <1>1, <2>2, <2>3, <2>4, <2>5 DEF AddSample, TypeOK, sinkVars, boundVars
<1>2. CASE DropMalformed
  <2>1. position \in Offsets /\ position' \in 0..NumMessages
    BY <1>2 DEF DropMalformed, Fetches, TypeOK, Offsets
  <2>2. dead' \subseteq Offsets /\ dlq' \subseteq dead'
    BY <1>2, <2>1 DEF DropMalformed, deadLetter, TypeOK
  <2> QED
    BY <1>2, <2>1, <2>2 DEF DropMalformed, TypeOK, batchVars, boundVars, Offsets
<1>3. CASE PollTimeout
  BY <1>3 DEF PollTimeout, TypeOK, brokerVars, batchVars, sinkVars, boundVars
<1>4. CASE FlushInserts
  <2>1. stored' \in [Offsets -> Nat]
    BY <1>4, InsertAdds DEF FlushInserts
  <2> QED
    BY <1>4, <2>1 DEF FlushInserts, TypeOK, brokerVars, batchVars, boundVars
<1>5. CASE FlushDeadLetters
  <2>1. {batch[i] : i \in DOMAIN batch} \subseteq Offsets
    BY DEF TypeOK
  <2>2. dead' \subseteq Offsets /\ dlq' \subseteq dead'
    BY <1>5, <2>1 DEF FlushDeadLetters, deadLetter, Batched, TypeOK
  <2> QED
    BY <1>5, <2>2 DEF FlushDeadLetters, TypeOK, brokerVars, batchVars, boundVars
<1>6. CASE FlushFails
  <2>1. stored' \in [Offsets -> Nat]
    BY <1>6, InsertAdds DEF FlushFails, TypeOK
  <2>2. faults' \in 0..MaxFaults
    BY <1>6 DEF FlushFails, WriteFails, CallFails, TypeOK
  <2> QED
    BY <1>6, <2>1, <2>2 DEF FlushFails, AfterFlush, TypeOK, brokerVars, batchVars
<1>7. CASE CommitBatch
  <2>1. faults' \in 0..MaxFaults
    BY <1>7 DEF CommitBatch, CallFails, TypeOK
  <2>2. committed' \in 0..NumMessages
    BY <1>7 DEF CommitBatch, CommitOffset, TypeOK, Offsets
  <2>3. batch' \in Seq(Offsets)
    BY <1>7 DEF CommitBatch
  <2> QED
    BY <1>7, <2>1, <2>2, <2>3 DEF CommitBatch, AfterFlush, TypeOK, sinkVars
<1>8. CASE FinishReconciled
  <2>1. position \in Offsets /\ position' \in 0..NumMessages
    BY <1>8 DEF FinishReconciled, Fetches, TypeOK, Offsets
  <2>2. stored' \in [Offsets -> Nat]
    BY <1>8, <2>1 DEF FinishReconciled, ReconcileParticipantResults, TypeOK
  <2> QED
    BY <1>8, <2>1, <2>2 DEF FinishReconciled, TypeOK, batchVars, boundVars, Offsets
<1>9. CASE FinishDeadLettered
  <2>1. position \in Offsets /\ position' \in 0..NumMessages
    BY <1>9 DEF FinishDeadLettered, Fetches, TypeOK, Offsets
  <2>2. dead' \subseteq Offsets /\ dlq' \subseteq dead'
    BY <1>9, <2>1 DEF FinishDeadLettered, deadLetter, TypeOK
  <2> QED
    BY <1>9, <2>1, <2>2 DEF FinishDeadLettered, TypeOK, batchVars, boundVars, Offsets
<1>10. CASE FinishFails
  <2>1. position \in Offsets /\ position' \in 0..NumMessages
    BY <1>10 DEF FinishFails, Fetches, TypeOK, Offsets
  <2>2. stored' \in [Offsets -> Nat]
    BY <1>10, <2>1 DEF FinishFails, ReconcileParticipantResults, TypeOK
  <2>3. faults' \in 0..MaxFaults
    BY <1>10 DEF FinishFails, WriteFails, CallFails, TypeOK
  <2> QED
    BY <1>10, <2>1, <2>2, <2>3 DEF FinishFails, TypeOK, batchVars
<1>11. CASE CommitOne
  <2>1. faults' \in 0..MaxFaults
    BY <1>11 DEF CommitOne, CallFails, TypeOK
  <2>2. committed' \in 0..NumMessages
    BY <1>11 DEF CommitOne, CommitOffset, TypeOK, Offsets
  <2> QED
    BY <1>11, <2>1, <2>2 DEF CommitOne, TypeOK, batchVars, sinkVars
<1>12. CASE Stop
  BY <1>12 DEF Stop, TypeOK, brokerVars, batchVars, sinkVars, boundVars
<1>13. CASE FlushIntervalPasses
  BY <1>13 DEF FlushIntervalPasses, TypeOK, brokerVars, sinkVars, boundVars
<1>14. CASE Sigterm
  BY <1>14 DEF Sigterm, Disrupts, TypeOK, brokerVars, batchVars, sinkVars
<1>15. CASE Crash
  BY <1>15 DEF Crash, Disrupts, TypeOK, brokerVars, batchVars, sinkVars
<1>16. CASE Restart
  <2>1. batch' \in Seq(Offsets)
    BY <1>16 DEF Restart
  <2>2. aged' \in BOOLEAN /\ ctxDone' \in BOOLEAN /\ last' \in BOOLEAN
    BY <1>16 DEF Restart
  <2>3. position' \in 0..NumMessages /\ pc' = "poll"
    BY <1>16 DEF Restart, TypeOK
  <2> QED
    BY <1>16, <2>1, <2>2, <2>3 DEF Restart, TypeOK, sinkVars, boundVars
<1>17. CASE Rebalance
  BY <1>17 DEF Rebalance, Disrupts, TypeOK, batchVars, sinkVars
<1>18. CASE UNCHANGED vars
  BY <1>18 DEF vars, TypeOK, brokerVars, batchVars, sinkVars, boundVars
<1> QED
  BY <1>1, <1>2, <1>3, <1>4, <1>5, <1>6, <1>7, <1>8, <1>9, <1>10, <1>11, <1>12, <1>13, <1>14,
     <1>15, <1>16, <1>17, <1>18
  DEF Next, Loop, runWorkoutSampleLoop, flushWorkoutSampleBatch, runRaceFinishedLoop

\* A consumer that has read nothing is well typed.
LEMMA InitType == Init => TypeOK
<1> SUFFICES ASSUME Init PROVE TypeOK
  OBVIOUS
<1>1. batch \in Seq(Offsets) /\ stored \in [Offsets -> Nat]
  BY DEF Init
<1>2. aged \in BOOLEAN /\ ctxDone \in BOOLEAN /\ last \in BOOLEAN
  BY DEF Init
<1>3. position \in 0..NumMessages /\ committed \in 0..NumMessages /\ current \in Nat
  BY SizeAssumption DEF Init
<1>4. faults \in 0..MaxFaults /\ disruptions \in 0..MaxDisruptions
  BY BoundsAssumption DEF Init
<1> QED
  BY <1>1, <1>2, <1>3, <1>4 DEF Init, TypeOK

\* The loops keep every variable in its type, whatever fails in between.
THEOREM ConsumerTypeCorrect == Spec => []TypeOK
<1>1. TypeOK /\ [Next]_vars => TypeOK'
  BY NextType
<1> QED
  BY InitType, <1>1, PTL DEF Spec
-----------------------------------------------------------------------------
\* Without a batch, what has been fetched is accounted for.
LEMMA UnbatchedAccounted ==
    ASSUME Inv, topic = "race.finished"
    PROVE  \A o \in Offsets : o < position => Accounted(o)
BY DEF Inv, FinishedUnbatched, FetchedAccounted, InBatch

\* What is accounted for stays so: rows are not deleted, dead letters not recalled.
LEMMA AccountedStays ==
    ASSUME TypeOK, TypeOK', kind' = kind, dead \subseteq dead', failed \subseteq failed',
           RowsKept
    PROVE  \A o \in Offsets : (Handled(o) => Handled(o)') /\ (Accounted(o) => Accounted(o)')
BY DEF RowsKept, Accounted, Handled, PassedOver, TypeOK, Offsets

\* A step that leaves the broker, the batch and the place in the loop alone, or
\* moves only to a place where nothing is about to be committed, keeps Inv.
LEMMA QuietStep ==
    ASSUME Inv, TypeOK', kind' = kind, topic' = topic, committed' = committed,
           position' = position \/ position' = committed,
           batch' = batch, dead \subseteq dead', failed \subseteq failed',
           RowsKept,
           pc' = "commitBatch" => pc = "commitBatch",
           pc' = "commitOne" => pc = "commitOne" /\ current' = current
    PROVE  Inv'
<1>1. \A o \in Offsets : (Handled(o) => Handled(o)') /\ (Accounted(o) => Accounted(o)')
  BY AccountedStays DEF Inv
<1>2. \A o \in Offsets : InBatch(o) <=> InBatch(o)'
  BY DEF InBatch
<1>3. CommittedHandled'
  BY <1>1 DEF Inv, CommittedHandled, Accounted
<1>4. FetchedAccounted'
  BY <1>1, <1>2 DEF Inv, FetchedAccounted, CommittedHandled, Accounted
<1>5. BatchAccounted'
  BY <1>1, <1>2 DEF Inv, BatchAccounted
<1>6. BatchHandled'
  BY <1>1 DEF Inv, BatchHandled, TypeOK
<1>7. CurrentAccounted'
  BY <1>1 DEF Inv, CurrentAccounted
<1>8. FinishedUnbatched'
  BY DEF Inv, FinishedUnbatched
<1> QED
  BY <1>3, <1>4, <1>5, <1>6, <1>7, <1>8 DEF Inv

\* A message that is fetched and at once accounted for, with everything before it.
LEMMA SingleStep ==
    ASSUME Inv, TypeOK', kind' = kind, topic' = topic, committed' = committed,
           batch' = batch, dead \subseteq dead', failed \subseteq failed',
           RowsKept,
           position \in Offsets, position' = position + 1,
           \A o \in Offsets : o <= position => Accounted(o)',
           pc' # "commitBatch", pc' = "commitOne" => current' = position
    PROVE  Inv'
<1>1. \A o \in Offsets : (Handled(o) => Handled(o)') /\ (Accounted(o) => Accounted(o)')
  BY AccountedStays DEF Inv
<1>2. \A o \in Offsets : InBatch(o) <=> InBatch(o)'
  BY DEF InBatch
<1>3. CommittedHandled'
  BY <1>1 DEF Inv, CommittedHandled, Accounted
<1>4. FetchedAccounted'
  BY DEF FetchedAccounted, Offsets
<1>5. BatchAccounted'
  BY <1>1, <1>2 DEF Inv, BatchAccounted
<1>6. BatchHandled'
  BY DEF BatchHandled
<1>7. CurrentAccounted'
  BY DEF CurrentAccounted
<1>8. FinishedUnbatched'
  BY DEF Inv, FinishedUnbatched
<1> QED
  BY <1>3, <1>4, <1>5, <1>6, <1>7, <1>8 DEF Inv

\* Every step keeps what is fetched accounted for.
LEMMA NextInv ==
    ASSUME Inv, [Next]_vars
    PROVE  Inv'
<1> USE SizeAssumption
<1>0. TypeOK /\ TypeOK'
  BY NextType DEF Inv
<1>s. \A o \in Offsets : stored[o] \in Nat
  BY <1>0 DEF TypeOK
<1>r. UNCHANGED stored => RowsKept
  BY DEF RowsKept
<1>1. CASE AddSample
  <2>1. position \in Offsets /\ position' = position + 1 /\ topic = "workout.sample" /\ topic' = topic
    BY <1>0, <1>1 DEF AddSample, Fetches, TypeOK, Offsets
  <2>2. \A o \in Offsets : Handled(o)' = Handled(o) /\ Accounted(o)' = Accounted(o)
    BY <1>1 DEF AddSample, Handled, Accounted, PassedOver, sinkVars
  <2>3. batch' = Append(batch, position) /\ batch \in Seq(Offsets)
    BY <1>0, <1>1 DEF AddSample, TypeOK
  <2>4. DOMAIN batch' = DOMAIN batch \cup {Len(batch) + 1} /\ batch'[Len(batch) + 1] = position
    BY <2>3
  <2>5. \A i \in DOMAIN batch : i \in DOMAIN batch' /\ batch'[i] = batch[i]
    BY <2>3
  <2>6. \A o \in Offsets : InBatch(o) => InBatch(o)'
    BY <2>5 DEF InBatch
  <2>7. \A o \in Offsets : o = position => InBatch(o)'
    BY <2>4, <2>1 DEF InBatch
  <2>8. CommittedHandled'
    BY <1>1, <2>2 DEF Inv, CommittedHandled, Accounted, AddSample
  <2>9. FetchedAccounted'
    BY <2>1, <2>2, <2>6, <2>7 DEF Inv, FetchedAccounted, Offsets
  <2>10. BatchAccounted'
    <3> SUFFICES ASSUME NEW i \in DOMAIN batch', NEW o \in Offsets, o < batch'[i]
                 PROVE  Accounted(o)' \/ InBatch(o)'
      BY DEF BatchAccounted
    <3>1. CASE i \in DOMAIN batch
      BY <3>1, <2>2, <2>5, <2>6 DEF Inv, BatchAccounted
    <3>2. CASE i = Len(batch) + 1
      BY <3>2, <2>2, <2>4, <2>6 DEF Inv, FetchedAccounted
    <3> QED
      BY <3>1, <3>2, <2>4
  <2>11. BatchHandled' /\ CurrentAccounted'
    BY <1>1 DEF AddSample, BatchHandled, CurrentAccounted
  <2>12. FinishedUnbatched'
    BY <2>1 DEF FinishedUnbatched
  <2> QED
    BY <1>0, <2>8, <2>9, <2>10, <2>11, <2>12 DEF Inv
<1>2. CASE DropMalformed
  <2>1. position \in Offsets /\ position' = position + 1 /\ kind[position] = "malformed"
    BY <1>0, <1>2 DEF DropMalformed, Fetches, TypeOK, Offsets
  <2>2. position \in dead' /\ dead \subseteq dead'
    BY <1>2 DEF DropMalformed, deadLetter
  <2>3. \A o \in Offsets : o <= position => Accounted(o)'
    BY <1>2, <2>1, <2>2 DEF DropMalformed, Accounted, Handled, PassedOver, Offsets
  <2> QED
    BY <1>0, <1>2, <1>r, <2>1, <2>2, <2>3, SingleStep DEF DropMalformed, batchVars
<1>3. CASE PollTimeout
  BY <1>0, <1>3, <1>r, QuietStep DEF PollTimeout, brokerVars, batchVars, sinkVars
<1>4. CASE FlushInserts
  <2>1. RowsKept /\ \A i \in DOMAIN batch : stored'[batch[i]] > 0
    BY <1>0, <1>4, InsertAdds DEF FlushInserts
  <2>2. BatchHandled'
    BY <1>4, <2>1 DEF FlushInserts, BatchHandled, Handled, batchVars
  <2>3. \A o \in Offsets : (Handled(o) => Handled(o)') /\ (Accounted(o) => Accounted(o)')
    BY <1>0, <1>4, <2>1, AccountedStays DEF FlushInserts
  <2>4. \A o \in Offsets : InBatch(o) => InBatch(o)'
    BY <1>4 DEF FlushInserts, InBatch, batchVars
  <2>5. CommittedHandled' /\ FetchedAccounted' /\ BatchAccounted'
    BY <1>4, <2>3, <2>4
    DEF Inv, FlushInserts, CommittedHandled, FetchedAccounted, BatchAccounted, Accounted, brokerVars, batchVars
  <2>6. CurrentAccounted' /\ FinishedUnbatched'
    BY <1>4 DEF Inv, FlushInserts, CurrentAccounted, FinishedUnbatched, batchVars
  <2> QED
    BY <1>0, <2>2, <2>5, <2>6 DEF Inv
<1>5. CASE FlushDeadLetters
  <2>1. dead \subseteq dead' /\ \A i \in DOMAIN batch : batch[i] \in dead'
    BY <1>5 DEF FlushDeadLetters, deadLetter, Batched
  <2>2. BatchHandled'
    BY <1>5, <2>1 DEF FlushDeadLetters, BatchHandled, Handled, batchVars
  <2>3. \A o \in Offsets : (Handled(o) => Handled(o)') /\ (Accounted(o) => Accounted(o)')
    BY <1>0, <1>5, <1>r, <2>1, AccountedStays DEF FlushDeadLetters
  <2>4. \A o \in Offsets : InBatch(o) => InBatch(o)'
    BY <1>5 DEF FlushDeadLetters, InBatch, batchVars
  <2>5. CommittedHandled' /\ FetchedAccounted' /\ BatchAccounted'
    BY <1>5, <2>3, <2>4
    DEF Inv, FlushDeadLetters, CommittedHandled, FetchedAccounted, BatchAccounted, Accounted, brokerVars, batchVars
  <2>6. CurrentAccounted' /\ FinishedUnbatched'
    BY <1>5 DEF Inv, FlushDeadLetters, CurrentAccounted, FinishedUnbatched, batchVars
  <2> QED
    BY <1>0, <2>2, <2>5, <2>6 DEF Inv
<1>6. CASE FlushFails
  <2>1. RowsKept
    BY <1>0, <1>6, <1>r, InsertAdds DEF FlushFails
  <2>2. pc' \in {"exited", "poll"}
    BY <1>6 DEF FlushFails, AfterFlush
  <2> QED
    BY <1>0, <1>6, <2>1, <2>2, QuietStep DEF FlushFails, brokerVars, batchVars
<1>7. CASE CommitBatch
  <2>1. \A o \in Offsets : Handled(o)' = Handled(o) /\ Accounted(o)' = Accounted(o)
    BY <1>7 DEF CommitBatch, Handled, Accounted, PassedOver, sinkVars
  <2>2. \A o \in Offsets : InBatch(o) => Accounted(o)
    BY <1>7 DEF Inv, CommitBatch, BatchHandled, InBatch, Accounted
  <2>3. CommittedHandled'
    <3>1. CASE UNCHANGED committed
      BY <2>1, <3>1 DEF Inv, CommittedHandled, Accounted
    <3>2. CASE \E i \in DOMAIN batch : CommitOffset(batch[i])
      <4>1. PICK i \in DOMAIN batch : committed' = batch[i] + 1
        BY <3>2 DEF CommitOffset
      <4>2. batch[i] \in Offsets
        BY <1>0 DEF TypeOK
      <4>3. \A o \in Offsets : o < committed' => o < batch[i] \/ o = batch[i]
        BY <4>1, <4>2 DEF Offsets
      <4>4. \A o \in Offsets : o < committed' => Accounted(o)
        BY <4>2, <4>3, <2>2 DEF Inv, BatchAccounted, InBatch
      <4> QED
        BY <4>4, <2>1 DEF CommittedHandled, Accounted
    <3> QED
      BY <1>7, <3>1, <3>2 DEF CommitBatch
  <2>4. FetchedAccounted'
    BY <1>7, <2>1, <2>2 DEF Inv, CommitBatch, FetchedAccounted
  <2>5. batch' = <<>> /\ DOMAIN batch' = {}
    BY <1>7 DEF CommitBatch
  <2>6. BatchAccounted' /\ BatchHandled' /\ FinishedUnbatched'
    BY <2>5 DEF BatchAccounted, BatchHandled, FinishedUnbatched
  <2>7. CurrentAccounted'
    BY <1>7 DEF CommitBatch, AfterFlush, CurrentAccounted
  <2> QED
    BY <1>0, <2>3, <2>4, <2>6, <2>7 DEF Inv
<1>8. CASE FinishReconciled
  <2>1. position \in Offsets /\ position' = position + 1 /\ topic = "race.finished"
    BY <1>0, <1>8 DEF FinishReconciled, Fetches, TypeOK, Offsets
  <2>2. stored'[position] = 1 /\ \A o \in Offsets : o # position => stored'[o] = stored[o]
    BY <1>0, <1>8, <2>1 DEF FinishReconciled, ReconcileParticipantResults, TypeOK
  <2>3. RowsKept
    BY <1>s, <2>1, <2>2 DEF RowsKept
  <2>4. \A o \in Offsets : Accounted(o) => Accounted(o)'
    BY <1>0, <1>8, <2>3, AccountedStays DEF FinishReconciled
  <2>5. \A o \in Offsets : o <= position => Accounted(o)'
    BY <2>1, <2>2, <2>4, UnbatchedAccounted DEF Accounted, Handled, Offsets
  <2> QED
    BY <1>0, <1>8, <2>1, <2>3, <2>5, SingleStep DEF FinishReconciled, batchVars
<1>9. CASE FinishDeadLettered
  <2>1. position \in Offsets /\ position' = position + 1 /\ topic = "race.finished"
    BY <1>0, <1>9 DEF FinishDeadLettered, Fetches, TypeOK, Offsets
  <2>2. dead \subseteq dead' /\ position \in dead'
    BY <1>9 DEF FinishDeadLettered, deadLetter
  <2>4. \A o \in Offsets : Accounted(o) => Accounted(o)'
    BY <1>0, <1>9, <1>r, <2>2, AccountedStays DEF FinishDeadLettered
  <2>5. \A o \in Offsets : o <= position => Accounted(o)'
    BY <2>1, <2>2, <2>4, UnbatchedAccounted DEF Accounted, Handled, Offsets
  <2> QED
    BY <1>0, <1>9, <1>r, <2>1, <2>2, <2>5, SingleStep DEF FinishDeadLettered, batchVars
<1>10. CASE FinishFails
  <2>1. position \in Offsets /\ position' = position + 1 /\ topic = "race.finished" /\ pc = "poll"
    BY <1>0, <1>10 DEF FinishFails, Fetches, TypeOK, Offsets
  <2>2. failed \subseteq failed' /\ position \in failed'
    BY <1>10 DEF FinishFails
  <2>3. RowsKept
    BY <1>0, <1>10, <2>1 DEF FinishFails, ReconcileParticipantResults, RowsKept, TypeOK
  <2>4. \A o \in Offsets : Accounted(o) => Accounted(o)'
    BY <1>0, <1>10, <2>2, <2>3, AccountedStays DEF FinishFails
  <2>5. \A o \in Offsets : o <= position => Accounted(o)'
    BY <2>1, <2>2, <2>4, UnbatchedAccounted DEF Accounted, PassedOver, Offsets
  <2> QED
    BY <1>0, <1>10, <2>1, <2>2, <2>3, <2>5, SingleStep DEF FinishFails, batchVars
<1>11. CASE CommitOne
  <2>1. \A o \in Offsets : Handled(o)' = Handled(o) /\ Accounted(o)' = Accounted(o) /\ InBatch(o)' = InBatch(o)
    BY <1>11 DEF CommitOne, Handled, Accounted, PassedOver, InBatch, sinkVars, batchVars
  <2>2. CommittedHandled'
    <3>1. CASE UNCHANGED committed
      BY <2>1, <3>1 DEF Inv, CommittedHandled, Accounted
    <3>2. CASE committed' = current + 1
      <4>1. current \in Nat /\ \A o \in Offsets : o <= current => Accounted(o)
        BY <1>0, <1>11 DEF Inv, CommitOne, CurrentAccounted, TypeOK
      <4>2. \A o \in Offsets : o < current + 1 => o <= current
        BY <4>1 DEF Offsets
      <4> QED
        BY <2>1, <3>2, <4>1, <4>2 DEF CommittedHandled, Accounted
    <3> QED
      BY <1>11, <3>1, <3>2 DEF CommitOne, CommitOffset
  <2>3. FetchedAccounted' /\ BatchAccounted'
    BY <1>11, <2>1 DEF Inv, CommitOne, FetchedAccounted, BatchAccounted, batchVars
  <2>4. BatchHandled' /\ CurrentAccounted' /\ FinishedUnbatched'
    BY <1>11 DEF Inv, CommitOne, BatchHandled, CurrentAccounted, FinishedUnbatched, batchVars
  <2> QED
    BY <1>0, <2>2, <2>3, <2>4 DEF Inv
<1>12. CASE Stop
  BY <1>0, <1>12, <1>r, QuietStep DEF Stop, brokerVars, batchVars, sinkVars
<1>13. CASE FlushIntervalPasses
  BY <1>0, <1>13, <1>r, QuietStep DEF FlushIntervalPasses, brokerVars, sinkVars
<1>14. CASE Sigterm
  BY <1>0, <1>14, <1>r, QuietStep DEF Sigterm, brokerVars, batchVars, sinkVars
<1>15. CASE Crash
  BY <1>0, <1>15, <1>r, QuietStep DEF Crash, brokerVars, batchVars, sinkVars
<1>16. CASE Restart
  <2>1. \A o \in Offsets : Accounted(o)' = Accounted(o)
    BY <1>16 DEF Restart, Handled, Accounted, PassedOver, sinkVars
  <2>2. CommittedHandled' /\ FetchedAccounted'
    BY <1>16, <2>1 DEF Inv, Restart, CommittedHandled, FetchedAccounted, Accounted
  <2>3. batch' = <<>> /\ DOMAIN batch' = {}
    BY <1>16 DEF Restart
  <2>4. BatchAccounted' /\ BatchHandled' /\ CurrentAccounted' /\ FinishedUnbatched'
    BY <1>16, <2>3 DEF Restart, BatchAccounted, BatchHandled, CurrentAccounted, FinishedUnbatched
  <2> QED
    BY <1>0, <2>2, <2>4 DEF Inv
<1>17. CASE Rebalance
  BY <1>0, <1>17, <1>r, QuietStep DEF Rebalance, batchVars, sinkVars
<1>18. CASE UNCHANGED vars
  BY <1>0, <1>18, <1>r, QuietStep DEF vars, brokerVars, batchVars, sinkVars
<1> QED
  BY <1>1, <1>2, <1>3, <1>4, <1>5, <1>6, <1>7, <1>8, <1>9, <1>10, <1>11, <1>12, <1>13, <1>14,
     <1>15, <1>16, <1>17, <1>18
  DEF Next, Loop, runWorkoutSampleLoop, flushWorkoutSampleBatch, runRaceFinishedLoop

\* At first there is nothing to account for.
LEMMA InitInv == Init => Inv
BY InitType, SizeAssumption
DEF Init, Inv, FinishedUnbatched, CommittedHandled, FetchedAccounted, BatchAccounted, BatchHandled,
    CurrentAccounted, Offsets

\* CommittedHandled holds of every consumer: whatever fails, and however often the
\* group is rebalanced, the offset passes nothing but what is written,
\* dead-lettered or passed over.
THEOREM OffsetsHandled == Spec => []CommittedHandled
<1>1. Inv /\ [Next]_vars => Inv'
  BY NextInv
<1>2. Inv => CommittedHandled
  BY DEF Inv
<1> QED
  BY InitInv, <1>1, <1>2, PTL DEF Spec

-----------------------------------------------------------------------------
(* No message is written twice.                                             *)

\* A loop that nothing has disturbed is not on its way out, and holds each message it
\* has fetched once: in the batch, not yet written, or written in one row.
CalmState ==
    /\ ~ctxDone /\ ~last /\ Up
    /\ \A i, j \in DOMAIN batch : batch[i] = batch[j] => i = j
    /\ \A i \in DOMAIN batch : batch[i] < position
    /\ \A o \in Offsets : o >= position => stored[o] = 0
    /\ \A o \in Offsets : stored[o] <= 1
    /\ pc # "commitBatch" => \A i \in DOMAIN batch : stored[batch[i]] = 0

Calm == faults + disruptions = 0 => CalmState

\* The reconciliation never writes twice, whatever disturbs the loop.
FinishedOnce == topic = "race.finished" => \A o \in Offsets : stored[o] <= 1

OnceInv == Inv /\ FinishedOnce /\ Calm

\* What a batch adds to a message's rows.
LEMMA InsertOnce ==
    ASSUME TypeOK, InsertBatch, NEW o \in Offsets
    PROVE  /\ ~InBatch(o) => stored'[o] = stored[o]
           /\ (\A i, j \in DOMAIN batch : batch[i] = batch[j] => i = j) => stored'[o] <= stored[o] + 1
<1> DEFINE P == {i \in DOMAIN batch : batch[i] = o}
<1>1. stored'[o] = stored[o] + Cardinality(P) /\ stored[o] \in Nat
  BY DEF InsertBatch, TypeOK
<1>2. ASSUME ~InBatch(o) PROVE stored'[o] = stored[o]
  <2>1. P = {}
    BY <1>2 DEF InBatch
  <2> QED
    BY <1>1, <2>1, FS_EmptySet
<1>3. ASSUME \A i, j \in DOMAIN batch : batch[i] = batch[j] => i = j, InBatch(o)
      PROVE  stored'[o] = stored[o] + 1
  <2>1. PICK i \in DOMAIN batch : batch[i] = o
    BY <1>3 DEF InBatch
  <2>2. P = {i}
    BY <1>3, <2>1
  <2> QED
    BY <1>1, <2>2, FS_Singleton
<1> QED
  BY <1>1, <1>2, <1>3

\* Faults and disruptions are only ever added.
LEMMA DisturbancesGrow ==
    ASSUME TypeOK, [Next]_vars
    PROVE  /\ faults \in Nat /\ disruptions \in Nat
           /\ faults' = faults \/ faults' = faults + 1
           /\ disruptions' = disruptions \/ disruptions' = disruptions + 1
<1>1. faults \in Nat /\ disruptions \in Nat
  BY BoundsAssumption DEF TypeOK
<1>2. CASE Loop
  BY <1>1, <1>2
  DEF Loop, runWorkoutSampleLoop, flushWorkoutSampleBatch, runRaceFinishedLoop, AddSample, DropMalformed,
      PollTimeout, FlushInserts, FlushDeadLetters, FlushFails, CommitBatch, FinishReconciled,
      FinishDeadLettered, FinishFails, CommitOne, Stop, WriteFails, CallFails, boundVars
<1>3. CASE FlushIntervalPasses \/ Sigterm \/ Crash \/ Restart \/ Rebalance \/ UNCHANGED vars
  BY <1>1, <1>3 DEF FlushIntervalPasses, Sigterm, Crash, Restart, Rebalance, Disrupts, boundVars, vars
<1> QED
  BY <1>1, <1>2, <1>3 DEF Next

\* A step that writes no row and moves none into the batch keeps a calm loop calm.
LEMMA CalmStep ==
    ASSUME TypeOK, TypeOK', CalmState, stored' = stored, batch' = batch \/ batch' = <<>>,
           position' = position \/ position' = position + 1,
           ~ctxDone', ~last', pc' \in {"poll", "flush", "commitBatch", "commitOne"},
           pc' # "commitBatch" => pc # "commitBatch" \/ batch' = <<>>
    PROVE  CalmState'
<1>1. position \in Nat /\ \A i \in DOMAIN batch : batch[i] \in Offsets
  BY SizeAssumption DEF TypeOK
<1>2. DOMAIN <<>> = {}
  OBVIOUS
<1>3. \A i \in DOMAIN batch' : i \in DOMAIN batch /\ batch'[i] = batch[i]
  BY <1>2
<1>4. (\A i, j \in DOMAIN batch' : batch'[i] = batch'[j] => i = j) /\ \A i \in DOMAIN batch' : batch'[i] < position'
  BY <1>1, <1>3 DEF CalmState, Offsets
<1>5. \A o \in Offsets : (o >= position' => stored'[o] = 0) /\ stored'[o] <= 1
  BY <1>1 DEF CalmState, Offsets
<1>6. pc' # "commitBatch" => \A i \in DOMAIN batch' : stored'[batch'[i]] = 0
  BY <1>2, <1>3 DEF CalmState
<1> QED
  BY <1>4, <1>5, <1>6 DEF CalmState, Up

\* While nothing has disturbed the loop, each of its steps keeps it calm.
LEMMA NextCalm ==
    ASSUME OnceInv, [Next]_vars
    PROVE  Calm'
<1> SUFFICES ASSUME faults' + disruptions' = 0 PROVE CalmState'
  BY DEF Calm
<1>0. TypeOK /\ TypeOK' /\ FinishedUnbatched /\ FinishedOnce
  BY NextType DEF OnceInv, Inv
<1>1. faults = 0 /\ disruptions = 0 /\ faults' = 0 /\ disruptions' = 0 /\ CalmState
  BY <1>0, DisturbancesGrow DEF OnceInv, Calm
<1>2. ~ctxDone /\ ~last /\ Up
  BY <1>1 DEF CalmState
<1>3. \A o \in Offsets : stored[o] \in Nat
  BY <1>0 DEF TypeOK
<1>4. position \in Nat /\ batch \in Seq(Offsets)
  BY <1>0, SizeAssumption DEF TypeOK
<1>5. CASE AddSample
  <2>1. /\ position \in Offsets /\ position' = position + 1 /\ batch' = Append(batch, position)
        /\ stored' = stored /\ ctxDone' = ctxDone /\ last' = last /\ pc' \in {"flush", "poll"} /\ pc = "poll"
    BY <1>4, <1>5, SizeAssumption DEF AddSample, Fetches, sinkVars, Offsets
  <2>2. /\ DOMAIN batch' = DOMAIN batch \cup {Len(batch) + 1} /\ Len(batch) + 1 \notin DOMAIN batch
        /\ batch'[Len(batch) + 1] = position /\ \A i \in DOMAIN batch : batch'[i] = batch[i]
    BY <1>4, <2>1
  <2>3. \A i \in DOMAIN batch : batch[i] \in Offsets /\ batch[i] < position /\ stored[batch[i]] = 0
    BY <1>1, <1>4, <2>1 DEF CalmState
  <2>4. \A i, j \in DOMAIN batch : batch[i] = batch[j] => i = j
    BY <1>1 DEF CalmState
  <2>5. \A i, j \in DOMAIN batch' : batch'[i] = batch'[j] => i = j
    BY <2>2, <2>3, <2>4 DEF Offsets
  <2>6. \A i \in DOMAIN batch' : batch'[i] < position'
    BY <1>4, <2>1, <2>2, <2>3 DEF Offsets
  <2>7. stored[position] = 0
    BY <1>1, <1>4, <2>1 DEF CalmState
  <2>8. \A i \in DOMAIN batch' : stored'[batch'[i]] = 0
    BY <2>1, <2>2, <2>3, <2>7
  <2>9. \A o \in Offsets : (o >= position' => stored'[o] = 0) /\ stored'[o] <= 1
    BY <1>1, <1>4, <2>1 DEF CalmState, Offsets
  <2> QED
    BY <1>2, <2>1, <2>5, <2>6, <2>8, <2>9 DEF CalmState, Up
<1>6. CASE DropMalformed \/ FinishDeadLettered
  BY <1>0, <1>1, <1>2, <1>6, CalmStep DEF DropMalformed, FinishDeadLettered, Fetches, batchVars
<1>7. CASE PollTimeout
  BY <1>0, <1>1, <1>2, <1>7, CalmStep DEF PollTimeout, brokerVars, batchVars, sinkVars
<1>8. CASE FlushInserts
  <2>1. /\ InsertBatch /\ pc' = "commitBatch" /\ pc = "flush"
        /\ UNCHANGED <<position, batch, ctxDone, last>>
    BY <1>8 DEF FlushInserts, brokerVars, batchVars
  <2>2. /\ \A i, j \in DOMAIN batch : batch[i] = batch[j] => i = j
        /\ \A i \in DOMAIN batch : batch[i] < position /\ stored[batch[i]] = 0
        /\ \A o \in Offsets : (o >= position => stored[o] = 0) /\ stored[o] <= 1
    BY <1>1, <2>1 DEF CalmState
  <2>3. \A o \in Offsets : stored'[o] \in Nat
    BY <1>0 DEF TypeOK
  <2>4. ASSUME NEW o \in Offsets PROVE (o >= position => stored'[o] = 0) /\ stored'[o] <= 1
    <3>1. CASE InBatch(o)
      <4>1. stored[o] = 0 /\ o < position
        BY <2>2, <3>1 DEF InBatch
      <4>2. stored'[o] <= stored[o] + 1
        BY <1>0, <2>1, <2>2, InsertOnce
      <4> QED
        BY <1>4, <2>3, <4>1, <4>2 DEF Offsets
    <3>2. CASE ~InBatch(o)
      BY <1>0, <2>1, <2>2, <3>2, InsertOnce
    <3> QED
      BY <3>1, <3>2
  <2> QED
    BY <1>2, <2>1, <2>2, <2>4 DEF CalmState, Up
<1>9. CASE FlushDeadLetters
  BY <1>0, <1>1, <1>2, <1>9, CalmStep DEF FlushDeadLetters, brokerVars, batchVars
<1>10. CASE FlushFails \/ FinishFails
  <2>1. ~CallFails(FlushCancelled) /\ ~CallFails(FALSE)
    BY <1>1, <1>2 DEF FlushCancelled, CallFails
  <2>2. CASE FlushFails
    <3>1. Some("unwritable", Batched) /\ stored' = stored /\ pc = "flush" /\ pc' = "poll"
      BY <1>2, <2>1, <2>2 DEF FlushFails, WriteFails, AfterFlush
    <3> QED
      BY <1>0, <1>1, <1>2, <2>2, <3>1, CalmStep DEF FlushFails, brokerVars, batchVars
  <2>3. CASE FinishFails
    <3>1. Some("unwritable", {position})
      BY <2>1, <2>3 DEF FinishFails, WriteFails
    <3>2. kind[position] # "good"
      BY <3>1 DEF Some
    <3>3. stored' = stored /\ pc = "poll" /\ pc' = pc /\ position' = position + 1
      BY <2>3, <3>2 DEF FinishFails, Fetches
    <3> QED
      BY <1>0, <1>1, <1>2, <2>3, <3>3, CalmStep DEF FinishFails, batchVars
  <2> QED
    BY <1>10, <2>2, <2>3
<1>11. CASE CommitBatch
  BY <1>0, <1>1, <1>2, <1>11, CalmStep DEF CommitBatch, AfterFlush, sinkVars
<1>12. CASE FinishReconciled
  <2>1. /\ position \in Offsets /\ position' = position + 1 /\ stored' = [stored EXCEPT ![position] = 1]
        /\ topic = "race.finished" /\ UNCHANGED <<batch, ctxDone, last>> /\ pc' = "commitOne"
    BY <1>4, <1>12, SizeAssumption
    DEF FinishReconciled, Fetches, ReconcileParticipantResults, batchVars, Offsets
  <2>2. batch = <<>> /\ DOMAIN batch = {}
    BY <1>0, <2>1 DEF FinishedUnbatched
  <2>3. \A o \in Offsets : stored'[o] = IF o = position THEN 1 ELSE stored[o]
    BY <1>0, <2>1 DEF TypeOK
  <2>4. \A o \in Offsets : (o >= position' => stored'[o] = 0) /\ stored'[o] <= 1
    BY <1>1, <1>4, <2>1, <2>3 DEF CalmState, Offsets
  <2> QED
    BY <1>2, <2>1, <2>2, <2>4 DEF CalmState, Up
<1>13. CASE CommitOne
  BY <1>0, <1>1, <1>2, <1>13, CalmStep DEF CommitOne, batchVars, sinkVars
<1>14. CASE FlushIntervalPasses
  <2>1. pc \in {"poll", "flush", "commitBatch", "commitOne"}
    BY <1>0, <1>2 DEF TypeOK, Up
  <2> QED
    BY <1>0, <1>1, <1>2, <1>14, <2>1, CalmStep DEF FlushIntervalPasses, brokerVars, sinkVars
<1>15. CASE Sigterm \/ Crash \/ Rebalance
  BY <1>1, <1>15 DEF Sigterm, Crash, Rebalance, Disrupts
<1>16. CASE Stop \/ Restart
  BY <1>2, <1>16 DEF Stop, Restart
<1>17. CASE UNCHANGED vars
  <2>1. UNCHANGED <<ctxDone, last, pc, batch, position, stored>>
    BY <1>17 DEF vars, brokerVars, batchVars, sinkVars
  <2> QED
    BY <1>1, <2>1 DEF CalmState, Up
<1> QED
  BY <1>5, <1>6, <1>7, <1>8, <1>9, <1>10, <1>11, <1>12, <1>13, <1>14, <1>15, <1>16, <1>17
  DEF Next, Loop, runWorkoutSampleLoop, flushWorkoutSampleBatch, runRaceFinishedLoop

\* The race.finished loop writes nothing but through the reconciliation.
LEMMA NextFinishedOnce ==
    ASSUME Inv, FinishedOnce, [Next]_vars
    PROVE  FinishedOnce'
<1>0. TypeOK /\ FinishedUnbatched
  BY DEF Inv
<1> SUFFICES ASSUME topic' = "race.finished" PROVE \A o \in Offsets : stored'[o] <= 1
  BY DEF FinishedOnce
<1>1. topic = "race.finished"
  BY DEF Next, Loop, runWorkoutSampleLoop, flushWorkoutSampleBatch, runRaceFinishedLoop, AddSample,
         DropMalformed, PollTimeout, FlushInserts, FlushDeadLetters, FlushFails, CommitBatch, FinishReconciled,
         FinishDeadLettered, FinishFails, CommitOne, Stop, FlushIntervalPasses, Sigterm, Crash, Restart,
         Rebalance, vars
<1>2. \A o \in Offsets : stored[o] <= 1 /\ ~InBatch(o)
  <2>1. DOMAIN batch = {}
    BY <1>0, <1>1 DEF FinishedUnbatched
  <2> QED
    BY <1>1, <2>1 DEF FinishedOnce, InBatch
<1>3. stored' = stored \/ InsertBatch \/ \E p : stored' = [stored EXCEPT ![p] = 1]
  BY DEF Next, Loop, runWorkoutSampleLoop, flushWorkoutSampleBatch, runRaceFinishedLoop, AddSample,
         DropMalformed, PollTimeout, FlushInserts, FlushDeadLetters, FlushFails, CommitBatch, FinishReconciled,
         FinishDeadLettered, FinishFails, CommitOne, Stop, FlushIntervalPasses, Sigterm, Crash, Restart,
         Rebalance, ReconcileParticipantResults, vars, sinkVars
<1>4. CASE InsertBatch
  BY <1>0, <1>2, <1>4, InsertOnce
<1>5. CASE stored' = stored
  BY <1>2, <1>5
<1>6. CASE \E p : stored' = [stored EXCEPT ![p] = 1]
  BY <1>0, <1>2, <1>6 DEF TypeOK
<1> QED
  BY <1>3, <1>4, <1>5, <1>6

\* A sample is one row in Postgres as long as no call fails and no process or group is
\* disrupted, and a race's results are written once whatever happens, for any number of
\* messages and any batch size.
THEOREM WrittenOnce == Spec => []ExactlyOnce
<1>1. Init => OnceInv
  <2> SUFFICES ASSUME Init PROVE OnceInv
    OBVIOUS
  <2>1. \A o \in Offsets : stored[o] = 0
    BY DEF Init
  <2>2. DOMAIN batch = {} /\ ~ctxDone /\ ~last /\ pc = "poll"
    BY DEF Init
  <2>3. CalmState /\ FinishedOnce
    BY <2>1, <2>2 DEF CalmState, FinishedOnce, Up
  <2> QED
    BY <2>3, InitInv DEF OnceInv, Calm
<1>2. OnceInv /\ [Next]_vars => OnceInv'
  BY NextInv, NextCalm, NextFinishedOnce DEF OnceInv
<1>3. OnceInv => ExactlyOnce
  <2> SUFFICES ASSUME OnceInv, NEW o \in Offsets, stored[o] > 1
               PROVE  topic = "workout.sample" /\ faults + disruptions > 0
    BY DEF ExactlyOnce
  <2>1. /\ stored[o] \in Nat /\ topic \in {"workout.sample", "race.finished"}
        /\ faults \in Nat /\ disruptions \in Nat
    BY TopicsAssumption, BoundsAssumption DEF OnceInv, Inv, TypeOK
  <2>2. topic # "race.finished"
    BY <2>1 DEF OnceInv, FinishedOnce
  <2>3. faults + disruptions # 0
    BY <2>1 DEF OnceInv, Calm, CalmState
  <2> QED
    BY <2>1, <2>2, <2>3
<1> QED
  BY <1>1, <1>2, <1>3, PTL DEF Spec

==============================================================================
