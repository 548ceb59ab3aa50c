---------------------------- MODULE HistoryExport ----------------------------
(***************************************************************************)
(* apps/history/src/handler.ts: the BullMQ job that exports the whole      *)
(* history of one chat.  The job walks the chat oldest first, hands the    *)
(* messages to the {history-messages} queue in batches, keeps a checkpoint *)
(* in Redis so that a retry resumes, and flags the chat as exported in     *)
(* Postgres.                                                               *)
(*                                                                         *)
(* One action stands for one awaited call together with the synchronous    *)
(* code up to the next await.  Any await may throw (Throw) and the process *)
(* may die between any two of them (Crash); a call that took effect but    *)
(* reported an error is that call followed by Throw.                       *)
(***************************************************************************)
EXTENDS ChunkIter

CONSTANTS
  BatchSize,    \* a batch is handed over once it holds more than this (500)
  MaxAttempts,  \* `attempts` of the export job (5)
  MaxStalls     \* times BullMQ restarts a job whose worker died (1)

ASSUME BatchSizeAssumption == BatchSize \in Nat
ASSUME AttemptsAssumption == MaxAttempts \in Nat \ {0} /\ MaxStalls \in Nat

VARIABLES
  \* Redis, keys history:chat:<id>:*
  checkpoint,     \* currentMessageId (0 when absent)
  totalMessages,  \* totalMessages (0 when absent)
  totalDone,      \* totalMessagesDone (0 when absent)
  \* Postgres
  exported,       \* chats.exportedInFull
  \* BullMQ
  queued,         \* how often each message was added to {history-messages}
  status,         \* state of the export job
  attempts,       \* failed attempts of the job
  stalls,         \* times the job was taken from a dead worker
  \* locals of the running attempt
  pc,
  messages,       \* the batch being filled
  totalJobs,
  \* history variables
  skipped,        \* checkpointed by an attempt that ended before addBulk
  horizon,        \* the chat's highest id when the last request was answered
  promised,       \* messages the exportedInFull flag vouches for
  tail            \* the tail handed over last, but for what a batch took since

redisVars  == <<checkpoint, totalMessages, totalDone>>
jobVars    == <<status, attempts, stalls>>
localVars  == <<pc, messages, totalJobs>>
ghostVars  == <<skipped, horizon, promised, tail>>
vars == <<chatVars, iterVars, redisVars, exported, queued, jobVars,
          localVars, ghostVars>>

Labels == {"idle", "load", "iterate", "saveCheckpoint", "addBulk",
           "saveDone", "markExported", "addTail", "sayHello"}

TypeOK ==
  /\ IterTypeOK
  /\ checkpoint \in Nat
  /\ totalMessages \in Nat
  /\ totalDone \in Nat
  /\ exported \in BOOLEAN
  /\ queued \in [MsgIds -> Nat]
  /\ status \in {"waiting", "active", "completed", "failed"}
  /\ attempts \in 0..MaxAttempts
  /\ stalls \in 0..(MaxStalls + 1)
  /\ pc \in Labels
  /\ messages \subseteq MsgIds
  /\ totalJobs \in Nat
  /\ skipped \subseteq MsgIds
  /\ horizon \in Nat
  /\ promised \subseteq MsgIds
  /\ tail \subseteq MsgIds

Init ==
  /\ chat \in SUBSET MsgIds
  /\ topId \in MsgIds \cup {0}
  /\ \A m \in chat : m <= topId
  /\ cursor = 0 /\ chunk = {} /\ exhausted = FALSE
  /\ checkpoint = 0 /\ totalMessages = 0 /\ totalDone = 0
  /\ exported = FALSE
  /\ queued = [m \in MsgIds |-> 0]
  /\ status = "waiting" /\ attempts = 0 /\ stalls = 0
  /\ pc = "idle" /\ messages = {} /\ totalJobs = 0
  /\ skipped = {} /\ horizon = 0 /\ promised = {} /\ tail = {}

----------------------------------------------------------------------------

\* queue.addBulk(messages): no jobId, so BullMQ does not deduplicate.
AddBulk == queued' = [m \in MsgIds |-> IF m \in messages THEN queued[m] + 1
                                                         ELSE queued[m]]

Goto(from, to) == pc = from /\ pc' = to

StartJob ==
  /\ status = "waiting"
  /\ Goto("idle", "load")
  /\ status' = "active"
  /\ UNCHANGED <<chatVars, iterVars, redisVars, exported, queued, attempts,
                 stalls, messages, totalJobs, ghostVars>>

\* What an attempt picks up from Redis: the offset to iterate from (exclusive)
\* and the counter.
ResumeOffsetPlusOne == checkpoint + 1  \* Mutant: _init adds the one by itself.
NoResumeOffset == 0                    \* Mutant: a retry starts over.
ResumeOffset == checkpoint

CountOfLastAttempt == totalJobs        \* Mutant: the counter is not reset.
ResumeCount == totalDone

\* Read the three keys, ask Telegram for the total when Redis has none (which
\* throws on an empty chat: that is Throw at "load"), write it back and open
\* the iterator.
LoadProgress ==
  /\ Goto("load", "iterate")
  /\ totalMessages # 0 \/ chat # {}
  /\ totalMessages' = IF totalMessages # 0 THEN totalMessages
                                           ELSE Cardinality(chat)
  /\ totalJobs' = ResumeCount
  /\ messages' = {}
  /\ Open(ResumeOffset)
  /\ UNCHANGED <<chatVars, checkpoint, totalDone, exported, queued, jobVars,
                 ghostVars>>

FetchChunk ==
  /\ pc = "iterate"
  /\ LoadChunk
  /\ horizon' = topId
  /\ UNCHANGED <<chatVars, redisVars, exported, queued, jobVars, localVars,
                 skipped, promised, tail>>

\* The loop body up to its first await.
TakeMessage ==
  /\ pc = "iterate"
  /\ \E m \in chunk :
       /\ Yield(m)
       /\ messages' = messages \cup {m}
  /\ totalJobs' = totalJobs + 1
  /\ pc' = IF Cardinality(messages') > BatchSize THEN "saveCheckpoint"
                                                 ELSE "iterate"
  /\ UNCHANGED <<chatVars, redisVars, exported, queued, jobVars, ghostVars>>

\* Mutant: the last message fetched.
EndOfFetch(m) ==
  m \in messages \cup chunk /\ \A x \in messages \cup chunk : x <= m

\* Mutant: the first message of the batch.
StartOfBatch(m) == m \in messages /\ \A x \in messages : m <= x

\* The message just taken, which is the last of the batch.
EndOfBatch(m) == m \in messages /\ \A x \in messages : x <= m

\* The checkpoint moves past the batch before the batch is handed over.
SaveCheckpoint ==
  /\ Goto("saveCheckpoint", "addBulk")
  /\ \E m \in MsgIds : EndOfBatch(m) /\ checkpoint' = m
  /\ UNCHANGED <<chatVars, iterVars, totalMessages, totalDone, exported,
                 queued, jobVars, messages, totalJobs, ghostVars>>

HandOverBatch ==
  /\ Goto("addBulk", "saveDone")
  /\ AddBulk
  /\ messages' = {}
  /\ tail' = tail \ messages
  /\ UNCHANGED <<chatVars, iterVars, redisVars, exported, jobVars, totalJobs,
                 skipped, horizon, promised>>

SaveDone ==
  /\ Goto("saveDone", "iterate")
  /\ totalDone' = totalJobs
  /\ UNCHANGED <<chatVars, iterVars, checkpoint, totalMessages, exported,
                 queued, jobVars, messages, totalJobs, ghostVars>>

\* Mutant: takes the end of a chunk for the end of the history.
EndOfChunk ==
  /\ Goto("iterate", "markExported")
  /\ chunk = {} /\ horizon # 0
  /\ UNCHANGED <<chatVars, iterVars, redisVars, exported, queued, jobVars,
                 messages, totalJobs, ghostVars>>

EndOfHistory ==
  /\ Goto("iterate", "markExported")
  /\ IterDone
  /\ UNCHANGED <<chatVars, iterVars, redisVars, exported, queued, jobVars,
                 messages, totalJobs, ghostVars>>

\* The flag is set while the last batch is still in memory.
MarkExported ==
  /\ Goto("markExported", "addTail")
  /\ exported' = TRUE
  /\ promised' = promised \cup {m \in chat : m <= horizon}
  /\ UNCHANGED <<chatVars, iterVars, redisVars, queued, jobVars, messages,
                 totalJobs, skipped, horizon, tail>>

\* Mutant: forgets the messages left over after the last full batch.
DropTail ==
  /\ Goto("addTail", "sayHello")
  /\ messages' = {}
  /\ UNCHANGED <<chatVars, iterVars, redisVars, exported, queued, jobVars,
                 totalJobs, ghostVars>>

HandOverTail ==
  /\ Goto("addTail", "sayHello")
  /\ AddBulk
  /\ messages' = {}
  /\ tail' = messages
  /\ UNCHANGED <<chatVars, iterVars, redisVars, exported, jobVars, totalJobs,
                 skipped, horizon, promised>>

SayHello ==
  /\ Goto("sayHello", "idle")
  /\ status' = "completed"
  /\ UNCHANGED <<chatVars, iterVars, redisVars, exported, queued, attempts,
                 stalls, messages, totalJobs, ghostVars>>

----------------------------------------------------------------------------
(* Failures.                                                               *)

\* The attempt's locals are gone.  A batch whose checkpoint was saved but
\* which was not added is passed over by every later attempt.
AbandonAttempt ==
  /\ pc # "idle"
  /\ pc' = "idle"
  /\ messages' = {}
  /\ skipped' = IF pc = "addBulk" THEN skipped \cup messages ELSE skipped
  /\ UNCHANGED <<chatVars, iterVars, redisVars, exported, queued, totalJobs,
                 horizon, promised, tail>>

\* An awaited call rejects: BullMQ retries with backoff up to MaxAttempts.
Throw ==
  /\ AbandonAttempt
  /\ attempts' = attempts + 1
  /\ status' = IF attempts' < MaxAttempts THEN "waiting" ELSE "failed"
  /\ UNCHANGED stalls

\* The process dies: BullMQ finds the job stalled and restarts it, at most
\* MaxStalls times.
Crash ==
  /\ AbandonAttempt
  /\ stalls' = stalls + 1
  /\ status' = IF stalls' <= MaxStalls THEN "waiting" ELSE "failed"
  /\ UNCHANGED attempts

ChatChanges ==
  /\ NewMessage \/ DeleteMessage
  /\ UNCHANGED <<iterVars, redisVars, exported, queued, jobVars, localVars,
                 ghostVars>>

Attempt ==
  \/ StartJob
  \/ LoadProgress
  \/ FetchChunk
  \/ TakeMessage
  \/ SaveCheckpoint
  \/ HandOverBatch
  \/ SaveDone
  \/ EndOfHistory
  \/ MarkExported
  \/ HandOverTail
  \/ SayHello

Next == Attempt \/ Throw \/ Crash \/ ChatChanges

Spec == Init /\ [][Next]_vars

\* A running worker keeps going: every await settles, in success or in error.
Fairness == WF_vars(Attempt \/ Throw)

FairSpec == Spec /\ Fairness

----------------------------------------------------------------------------
(* Properties.                                                             *)

Queued == {m \in MsgIds : queued[m] > 0}

\* The {history-messages} queue receives the chat without holes: when a
\* message was handed over, so was every older message that still exists,
\* except those of a batch whose attempt died between saving the checkpoint
\* (handler.ts:258) and adding the batch (handler.ts:259).
NoHoles ==
  \A m \in chat : (\E q \in Queued : m < q) => m \in Queued \cup skipped

\* The checkpoint a retry resumes from never covers a message that was not
\* handed over, other than the batch being handed over right now and the
\* batches lost that way.
CheckpointCovered ==
  \A m \in chat :
    m <= checkpoint => \/ m \in Queued \cup skipped
                       \/ pc = "addBulk" /\ m \in messages

\* One attempt adds a message at most once, however its batches fall.
AtMostOncePerAttempt ==
  \A m \in MsgIds : queued[m] <= attempts + stalls + 1

\* What is queued again was in the last tail to be handed over
\* (handler.ts:274), at most BatchSize messages, and in no full batch since:
\* a message that was queued with a batch, whose checkpoint covers it, is
\* never queued again, whatever is retried and whenever the chat grows.
DuplicatesOnlyInTail ==
  [][\A m \in MsgIds :
       queued[m] > 0 /\ queued'[m] > queued[m]
         => m \in tail /\ Cardinality(tail) <= BatchSize]_vars

\* totalMessagesDone may lag behind the queue after a crash but never claims
\* more messages than were handed over.
DoneNeverOverstates == totalDone <= Cardinality(Queued)

\* Once the job completes, every message the exportedInFull flag spoke for
\* (all that the chat held at the last request) and that was not deleted since
\* has been queued, or was lost at a hand-over.
PromiseKept ==
  status = "completed" => promised \cap chat \subseteq Queued \cup skipped

\* The persisted checkpoint never moves back, whatever is retried.
CheckpointMonotone == [][checkpoint' >= checkpoint]_vars

\* A message present when the job is picked up is eventually handed over, lost
\* at a hand-over or deleted, unless the job fails for good.
EveryMessageHandled ==
  \A m \in MsgIds :
    (m \in chat /\ status = "waiting")
      ~> (m \in Queued \cup skipped \/ m \notin chat \/ status = "failed")
=============================================================================
