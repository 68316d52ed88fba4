------------------------------ MODULE Consumer -------------------------------
(***************************************************************************)
(* cmd/consumer: the two Kafka reader loops of                             *)
(* backend/internal/consumer, which carry workout.sample and race.finished *)
(* to Postgres.  The loops share no state (consumer.go:135-138), so a      *)
(* behaviour is that of one of them, the one `topic` names, on one         *)
(* partition of its topic.                                                 *)
(*                                                                         *)
(* The broker keeps one offset for the group: what CommitMessages was last *)
(* given, not a set of messages.  A restart or a rebalance reads on from   *)
(* there; nothing else makes the reader go back.                           *)
(***************************************************************************)
EXTENDS Integers, Sequences, FiniteSets

CONSTANTS
    Topics,          \* the loops looked at, among workout.sample and race.finished
    NumMessages,     \* bound: messages in the partition
    FlushBatchSize,  \* flushBatchSize (200 in the code)
    MaxFaults,       \* bound: calls to Postgres or to the broker that fail
    MaxDisruptions   \* bound: crashes, shutdowns and rebalances

ASSUME TopicsAssumption == Topics \subseteq {"workout.sample", "race.finished"}
ASSUME SizeAssumption == NumMessages \in Nat /\ FlushBatchSize \in Nat \ {0}
ASSUME BoundsAssumption == MaxFaults \in Nat /\ MaxDisruptions \in Nat

Offsets == 0..(NumMessages - 1)

\* What decoding and writing a message come to: it can be written; it is no
\* JSON of the topic's shape; the write fails for good and says so
\* (ErrPermanentWrite, for a sample a race_id or user_id that does not exist); or
\* it fails every time with an error like any other (an id that is no UUID).
Kinds == {"good", "malformed", "rejected", "unwritable"}

VARIABLES
    topic,       \* the loop this behaviour is about
    kind,        \* the partition's messages
    position,    \* offset FetchMessage returns next
    committed,   \* the group's offset at the broker: where a restart reads on
    pc,          \* where the loop's goroutine stands
    current,     \* message that is committed by itself
    batch,       \* offsets in sampleBatch
    aged,        \* flushInterval has passed since the batch was opened
    ctxDone,     \* SIGTERM has cancelled the loop's context
    last,        \* the flush under way is the one before the loop returns
    stored,      \* rows each message has in Postgres
    dead,        \* messages handed to deadLetter (IncDLQ counts them)
    dlq,         \* messages that reached the dead-letter topic
    failed,      \* history: race.finished messages left alone after an error
    faults, disruptions

batchVars == <<batch, aged>>
brokerVars == <<position, committed>>
sinkVars == <<stored, dead, dlq>>
boundVars == <<faults, disruptions>>
vars == <<topic, kind, brokerVars, pc, current, batchVars, ctxDone, last, sinkVars, failed, boundVars>>

Init ==
    /\ topic \in Topics
    /\ kind \in [Offsets -> Kinds]
    /\ position = 0 /\ committed = 0
    /\ pc = "poll" /\ current = 0 /\ batch = <<>> /\ aged = FALSE
    /\ ctxDone = FALSE /\ last = FALSE
    /\ stored = [o \in Offsets |-> 0] /\ dead = {} /\ dlq = {} /\ failed = {}
    /\ faults = 0 /\ disruptions = 0

Batched == {batch[i] : i \in DOMAIN batch}
InBatch(o) == \E i \in DOMAIN batch : batch[i] = o

-----------------------------------------------------------------------------
(* What the loops call.                                                     *)

\* A call fails because the service does, or because its context is cancelled.
CallFails(cancelled) ==
    \/ cancelled /\ UNCHANGED faults
    \/ faults < MaxFaults /\ faults' = faults + 1

Some(k, msgs) == \E m \in msgs : kind[m] = k

\* A write to Postgres fails for a reason that is not reported as permanent.
WriteFails(cancelled, msgs) ==
    \/ CallFails(cancelled)
    \/ Some("unwritable", msgs) /\ UNCHANGED faults

\* A failed publish is logged, no more.
deadLetter(msgs) ==
    /\ dead' = dead \cup msgs
    /\ \E reached \in SUBSET msgs : dlq' = dlq \cup reached

\* CopyFrom is one statement: every row of the batch or none.
InsertBatch ==
    stored' = [o \in Offsets |-> stored[o] + Cardinality({i \in DOMAIN batch : batch[i] = o})]

\* UPDATE ... WHERE finish_rank IS NULL: a second time changes nothing.
ReconcileParticipantResults(o) == stored' = [stored EXCEPT ![o] = 1]

\* Mutant: one offset too far.
CommitOffset_Next(o) == committed' = o + 2
\* The group's offset becomes the one after o, wherever it was.
CommitOffset(o) == committed' = o + 1

-----------------------------------------------------------------------------
(* runWorkoutSampleLoop.                                                    *)

\* Mutant: no flushInterval.
shouldFlush_BySize(n, old) == n >= FlushBatchSize
shouldFlush(n, old) == n > 0 /\ (n >= FlushBatchSize \/ old)

\* FetchMessage hands over the next message.  The workout.sample loop has looked at
\* its context first; the race.finished loop leaves that to FetchMessage, whose
\* select may still pick a message.
Fetches(t) ==
    /\ topic = t /\ pc = "poll" /\ position < NumMessages
    /\ t = "workout.sample" => ~ctxDone
    /\ position' = position + 1

\* A sample that decodes joins the batch, which may then be due.
AddSample ==
    /\ Fetches("workout.sample") /\ kind[position] # "malformed"
    /\ batch' = Append(batch, position)
    /\ aged' = (aged /\ batch # <<>>)
    /\ pc' = IF shouldFlush(Len(batch'), aged') THEN "flush" ELSE "poll"
    /\ UNCHANGED <<topic, kind, committed, current, ctxDone, last, sinkVars, failed, boundVars>>

\* One that does not is dead-lettered and committed, whatever the batch holds.
DropMalformed ==
    /\ Fetches("workout.sample") /\ kind[position] = "malformed"
    /\ deadLetter({position})
    /\ current' = position /\ pc' = "commitOne"
    /\ UNCHANGED <<topic, kind, committed, batchVars, ctxDone, last, stored, failed, boundVars>>

FlushIntervalPasses ==
    /\ batch # <<>> /\ ~aged
    /\ aged' = TRUE
    /\ UNCHANGED <<topic, kind, brokerVars, pc, current, batch, ctxDone, last, sinkVars, failed, boundVars>>

\* No message within fetchPollTimeout.
PollTimeout ==
    /\ topic = "workout.sample" /\ pc = "poll" /\ ~ctxDone
    /\ shouldFlush(Len(batch), aged)
    /\ pc' = "flush"
    /\ UNCHANGED <<topic, kind, brokerVars, current, batchVars, ctxDone, last, sinkVars, failed, boundVars>>

\* flushWorkoutSampleBatch returns to the loop, or to the end of it.
AfterFlush == IF last THEN "exited" ELSE "poll"

\* The last flush runs with context.Background().
FlushCancelled == ctxDone /\ ~last

FlushInserts ==
    /\ pc = "flush" /\ ~Some("rejected", Batched) /\ ~Some("unwritable", Batched)
    /\ InsertBatch
    /\ pc' = "commitBatch"
    /\ UNCHANGED <<topic, kind, brokerVars, current, batchVars, ctxDone, last, dead, dlq, failed, boundVars>>

\* One rejected sample takes the batch with it.  An unwritable one comes first: it
\* fails before Postgres looks at the foreign keys.
FlushDeadLetters ==
    /\ pc = "flush" /\ Some("rejected", Batched) /\ ~Some("unwritable", Batched)
    /\ deadLetter(Batched)
    /\ pc' = "commitBatch"
    /\ UNCHANGED <<topic, kind, brokerVars, current, batchVars, ctxDone, last, stored, failed, boundVars>>

\* Mutant: the batch is reset after a failed insert, too.
FlushFails_Resets ==
    /\ pc = "flush" /\ WriteFails(FlushCancelled, Batched)
    /\ batch' = <<>> /\ aged' = FALSE
    /\ pc' = AfterFlush
    /\ UNCHANGED <<topic, kind, brokerVars, current, ctxDone, last, sinkVars, failed, disruptions>>
\* Any other error: the batch stays.  The rows may be there all the same, if
\* the connection was lost after the statement took effect.
FlushFails ==
    /\ pc = "flush" /\ WriteFails(FlushCancelled, Batched)
    /\ \/ UNCHANGED stored
       \/ ~Some("rejected", Batched) /\ ~Some("unwritable", Batched) /\ InsertBatch
    /\ pc' = AfterFlush
    /\ UNCHANGED <<topic, kind, brokerVars, current, batchVars, ctxDone, last, dead, dlq, failed, disruptions>>

\* Mutant: the batch is not reset.
CommitBatch_Keeps ==
    /\ pc = "commitBatch"
    /\ committed' = position
    /\ pc' = AfterFlush
    /\ UNCHANGED <<topic, kind, position, current, batchVars, ctxDone, last, sinkVars, failed, boundVars>>
\* The batch is reset whether the commit succeeds or not.
CommitBatch ==
    /\ pc = "commitBatch"
    /\ \/ /\ \E i \in DOMAIN batch :
                /\ \A j \in DOMAIN batch : batch[j] <= batch[i]
                /\ CommitOffset(batch[i])
          /\ UNCHANGED faults
       \/ CallFails(FlushCancelled) /\ UNCHANGED committed
    /\ batch' = <<>> /\ aged' = FALSE
    /\ pc' = AfterFlush
    /\ UNCHANGED <<topic, kind, position, current, ctxDone, last, sinkVars, failed, disruptions>>

-----------------------------------------------------------------------------
(* runRaceFinishedLoop and processRaceFinishedMessage, whose context is its *)
(* own and is not cancelled.                                                *)

FinishReconciled ==
    /\ Fetches("race.finished") /\ kind[position] = "good"
    /\ ReconcileParticipantResults(position)
    /\ current' = position /\ pc' = "commitOne"
    /\ UNCHANGED <<topic, kind, committed, batchVars, ctxDone, last, dead, dlq, failed, boundVars>>

FinishDeadLettered ==
    /\ Fetches("race.finished") /\ kind[position] \in {"malformed", "rejected"}
    /\ deadLetter({position})
    /\ current' = position /\ pc' = "commitOne"
    /\ UNCHANGED <<topic, kind, committed, batchVars, ctxDone, last, stored, failed, boundVars>>

\* Any other error: no commit, and the loop goes on to the next message.  As
\* with a flush, the update may have taken effect.
FinishFails ==
    /\ Fetches("race.finished") /\ kind[position] # "malformed"
    /\ WriteFails(FALSE, {position})
    /\ failed' = failed \cup {position}
    /\ \/ UNCHANGED stored
       \/ kind[position] = "good" /\ ReconcileParticipantResults(position)
    /\ UNCHANGED <<topic, kind, committed, pc, current, batchVars, ctxDone, last, dead, dlq, disruptions>>

\* The commit of a single message, in either loop.
CommitOne ==
    /\ pc = "commitOne"
    /\ \/ CommitOffset(current) /\ UNCHANGED faults
       \/ CallFails(topic = "workout.sample" /\ ctxDone) /\ UNCHANGED committed
    /\ pc' = "poll"
    /\ UNCHANGED <<topic, kind, position, current, batchVars, ctxDone, last, sinkVars, failed, disruptions>>

-----------------------------------------------------------------------------
(* The process and the group.                                               *)

Up == pc \notin {"exited", "crashed"}

Disrupts == disruptions < MaxDisruptions /\ disruptions' = disruptions + 1

Sigterm ==
    /\ Up /\ ~ctxDone /\ Disrupts
    /\ ctxDone' = TRUE
    /\ UNCHANGED <<topic, kind, brokerVars, pc, current, batchVars, last, sinkVars, failed, faults>>

\* The top of the loop sees the cancelled context: flush, then return.
Stop ==
    /\ pc = "poll" /\ ctxDone
    /\ last' = (batch # <<>>)
    /\ pc' = IF batch = <<>> THEN "exited" ELSE "flush"
    /\ UNCHANGED <<topic, kind, brokerVars, current, batchVars, ctxDone, sinkVars, failed, boundVars>>

Crash ==
    /\ Up /\ Disrupts
    /\ pc' = "crashed"
    /\ UNCHANGED <<topic, kind, brokerVars, current, batchVars, ctxDone, last, sinkVars, failed, faults>>

\* Kubernetes starts another pod: an empty batch, and the group's offset.
Restart ==
    /\ ~Up
    /\ pc' = "poll" /\ position' = committed
    /\ batch' = <<>> /\ aged' = FALSE /\ ctxDone' = FALSE /\ last' = FALSE
    /\ UNCHANGED <<topic, kind, committed, current, sinkVars, failed, boundVars>>

\* The reader is assigned its partition again and fetches from the group's
\* offset; the batch is still there.
Rebalance ==
    /\ Up /\ Disrupts
    /\ position' = committed
    /\ UNCHANGED <<topic, kind, committed, pc, current, batchVars, ctxDone, last, sinkVars, failed, faults>>

-----------------------------------------------------------------------------
flushWorkoutSampleBatch == FlushInserts \/ FlushDeadLetters \/ FlushFails \/ CommitBatch
runWorkoutSampleLoop == AddSample \/ DropMalformed \/ PollTimeout \/ flushWorkoutSampleBatch
runRaceFinishedLoop == FinishReconciled \/ FinishDeadLettered \/ FinishFails
Loop == runWorkoutSampleLoop \/ runRaceFinishedLoop \/ CommitOne \/ Stop

Next == Loop \/ FlushIntervalPasses \/ Sigterm \/ Crash \/ Restart \/ Rebalance

Spec == Init /\ [][Next]_vars

(* The loop's goroutine runs, time passes, a consumer that is down is       *)
(* started again, and FetchMessage does not time out for ever on a          *)
(* partition with messages.  Faults and disruptions may happen or not.      *)
FairSpec ==
    /\ Spec /\ WF_vars(Loop) /\ WF_vars(FlushIntervalPasses) /\ WF_vars(Restart)
    /\ SF_vars(AddSample \/ DropMalformed)

-----------------------------------------------------------------------------
(* Properties.                                                              *)

\* Every variable has its type.
TypeOK ==
    /\ topic \in Topics /\ kind \in [Offsets -> Kinds]
    /\ position \in 0..NumMessages /\ committed \in 0..NumMessages
    /\ pc \in {"poll", "flush", "commitBatch", "commitOne", "exited", "crashed"}
    /\ current \in Nat /\ (pc = "commitOne" => current \in Offsets)
    /\ batch \in Seq(Offsets) /\ aged \in BOOLEAN /\ ctxDone \in BOOLEAN /\ last \in BOOLEAN
    /\ stored \in [Offsets -> Nat] /\ dead \subseteq Offsets /\ dlq \subseteq dead
    /\ failed \subseteq Offsets
    /\ faults \in 0..MaxFaults /\ disruptions \in 0..MaxDisruptions

\* Written to Postgres, or counted, logged and offered to the dead-letter topic.
Handled(o) == stored[o] > 0 \/ o \in dead

\* The two ways past a message: a later malformed sample was committed over it
\* (workout_sample_loop.go:82), or its reconciliation failed and the loop went on
\* (race_finished_loop.go:80).
PassedOver(o) ==
    \/ \E m \in dead : m > o /\ kind[m] = "malformed"
    \/ o \in failed

\* The group's offset never passes a message that is neither written nor
\* dead-lettered, through failed inserts, failed commits, crashes in between and
\* rebalances, except in the two ways the code allows.
CommittedHandled == \A o \in Offsets : o < committed => Handled(o) \/ PassedOver(o)

\* Without faults, crashes or rebalances a sample is one row: a batch is not
\* written twice.  A race's results are never written twice (race_repository.go:309-313).
ExactlyOnce ==
    \A o \in Offsets : stored[o] > 1 => topic = "workout.sample" /\ faults + disruptions > 0

\* o waits in a batch that an unwritable message keeps from Postgres.
Stuck(o) == InBatch(o) /\ Some("unwritable", Batched)

\* Every message is written, dead-lettered or passed over some day: a half-empty
\* batch does not wait for ever, nor does one whose insert failed.  One message
\* alone can hold others back for ever, an unwritable one in their batch, which is
\* kept and tried again (workout_sample_loop.go:139).
MessagesHandled == \A o \in Offsets : <>(Handled(o) \/ PassedOver(o)) \/ <>[]Stuck(o)
=============================================================================
