------------------------- MODULE HistoryExportProofs -------------------------
(***************************************************************************)
(* Proofs about the export job, for every chat, batch size, chunk size and *)
(* number of attempts.                                                     *)
(***************************************************************************)
EXTENDS HistoryExport, FiniteSetTheorems, TLAPS

USE MsgIdsAssumption, ChunkSizeAssumption, BatchSizeAssumption,
    AttemptsAssumption
    DEF MsgIdsAssumption, ChunkSizeAssumption, BatchSizeAssumption,
        AttemptsAssumption,
        EndOfBatch, ResumeOffset, ResumeCount   \* one-line abbreviations

\* Only an active job has a running attempt, and only a job with retries left
\* is waiting or active.
JobOK ==
  /\ pc # "idle" => status = "active"
  /\ status \in {"waiting", "active"} => /\ attempts < MaxAttempts
                                         /\ stalls <= MaxStalls

LEMMA TypeAndJob == Spec => [](TypeOK /\ JobOK)
<1> DEFINE Inv == TypeOK /\ JobOK
<1>1. Init => Inv
  <2> SUFFICES ASSUME Init PROVE Inv
    OBVIOUS
  <2>1. IterTypeOK
    <3>1. topId \in Nat
      BY DEF Init
    <3>2. QED
      BY <3>1 DEF Init, IterTypeOK
  <2>2. attempts \in 0..MaxAttempts /\ stalls \in 0..(MaxStalls + 1)
    BY DEF Init
  <2>3. queued \in [MsgIds -> Nat]
    BY DEF Init
  <2>4. JobOK
    BY DEF Init, JobOK
  <2>5. QED
    BY <2>1, <2>2, <2>3, <2>4 DEF Init, TypeOK, Labels
<1>2. Inv /\ [Next]_vars => Inv'
  <2> USE DEF JobOK
  <2> SUFFICES ASSUME Inv, [Next]_vars PROVE Inv'
    OBVIOUS
  <2>1. CASE StartJob
    BY <2>1 DEF TypeOK, IterTypeOK, Labels, StartJob, Goto, chatVars, iterVars,
                redisVars, ghostVars
  <2>2. CASE LoadProgress
    <3>1. chat # {} => Cardinality(chat) \in Nat
      BY FS_Subset, FS_CardinalityType DEF TypeOK, IterTypeOK
    <3>2. QED
      BY <2>2, <3>1 DEF TypeOK, IterTypeOK, Labels, LoadProgress, Goto, Open,
           chatVars, jobVars, ghostVars
  <2>3. CASE FetchChunk
    BY <2>3 DEF TypeOK, IterTypeOK, Labels, FetchChunk, LoadChunk, chatVars,
                redisVars, jobVars, localVars
  <2>4. CASE TakeMessage
    BY <2>4 DEF TypeOK, IterTypeOK, Labels, TakeMessage, Yield, IsNext,
                chatVars, redisVars, jobVars, ghostVars
  <2>5. CASE SaveCheckpoint
    BY <2>5 DEF TypeOK, IterTypeOK, Labels, SaveCheckpoint, Goto, chatVars,
                iterVars, jobVars, ghostVars
  <2>6. CASE HandOverBatch
    BY <2>6 DEF TypeOK, IterTypeOK, Labels, HandOverBatch, AddBulk, Goto,
                chatVars, iterVars, redisVars, jobVars, ghostVars
  <2>7. CASE SaveDone
    BY <2>7 DEF TypeOK, IterTypeOK, Labels, SaveDone, Goto, chatVars, iterVars,
                jobVars, ghostVars
  <2>8. CASE EndOfHistory
    BY <2>8 DEF TypeOK, IterTypeOK, Labels, EndOfHistory, Goto, chatVars,
                iterVars, redisVars, jobVars, ghostVars
  <2>9. CASE MarkExported
    BY <2>9 DEF TypeOK, IterTypeOK, Labels, MarkExported, Goto, chatVars,
                iterVars, redisVars, jobVars
  <2>10. CASE HandOverTail
    BY <2>10 DEF TypeOK, IterTypeOK, Labels, HandOverTail, AddBulk, Goto,
                 chatVars, iterVars, redisVars, jobVars, ghostVars
  <2>11. CASE SayHello
    BY <2>11 DEF TypeOK, IterTypeOK, Labels, SayHello, Goto, chatVars, iterVars,
                 redisVars, ghostVars
  <2>12. CASE Throw
    BY <2>12 DEF TypeOK, IterTypeOK, Labels, Throw, AbandonAttempt, chatVars,
                 iterVars, redisVars
  <2>13. CASE Crash
    BY <2>13 DEF TypeOK, IterTypeOK, Labels, Crash, AbandonAttempt, chatVars,
                 iterVars, redisVars
  <2>14. CASE ChatChanges
    BY <2>14 DEF TypeOK, IterTypeOK, ChatChanges, NewMessage, DeleteMessage,
                 iterVars, redisVars, jobVars, localVars, ghostVars
  <2>15. CASE UNCHANGED vars
    BY <2>15 DEF TypeOK, IterTypeOK, vars, chatVars, iterVars, redisVars,
                 jobVars, localVars, ghostVars
  <2>16. QED
    BY <2>1, <2>2, <2>3, <2>4, <2>5, <2>6, <2>7, <2>8, <2>9, <2>10, <2>11,
       <2>12, <2>13, <2>14, <2>15 DEF Next, Attempt
<1>3. QED
  BY <1>1, <1>2, PTL DEF Spec

\* The variables keep their types: in particular attempts and stalls stay
\* within the retry limits BullMQ is given.
THEOREM TypeCorrect == Spec => []TypeOK
BY TypeAndJob, PTL

----------------------------------------------------------------------------
(* The inductive invariant behind the safety properties.                   *)

Running == pc \notin {"idle", "load"}
Handed == Queued \cup skipped

\* Nothing refers to an id the chat has not assigned yet.
IdsAssigned ==
  /\ \A m \in chat \cup Queued : m <= topId
  /\ checkpoint <= topId
  /\ horizon <= topId
  /\ \A m \in promised : m <= horizon

\* The iterator: everything older than the cursor has been taken, the chunk
\* continues it without a gap, and after the last request nothing else is left.
IteratorInv ==
  Running =>
    /\ cursor <= topId
    /\ \A c \in chunk : /\ cursor < c /\ c <= horizon
                        /\ \A m \in chat : cursor < m /\ m < c => m \in chunk
    /\ exhausted => \A m \in chat : m <= horizon => m <= cursor \/ m \in chunk

\* The batch lies between the checkpoint and the cursor until it is handed
\* over, when the checkpoint has caught up with the cursor.
BatchInv ==
  Running =>
    /\ checkpoint <= cursor
    /\ \A m \in messages : m <= cursor /\ m <= horizon
    /\ \A m \in chat : m <= cursor => m \in Handed \cup messages
    /\ pc \in {"iterate", "saveCheckpoint", "markExported", "addTail"}
         => \A m \in messages : checkpoint < m
    /\ pc = "saveCheckpoint" => cursor \in messages
    /\ pc \in {"addBulk", "saveDone"} => checkpoint = cursor
    /\ pc \in {"saveDone", "sayHello"} => messages = {}
    /\ pc \in {"markExported", "addTail", "sayHello"} => IterDone

\* A tail is smaller than a batch, and what was taken since the checkpoint is in
\* the batch being filled.
TailInv ==
  /\ Cardinality(tail) <= BatchSize
  /\ \A m \in tail : m <= horizon
  /\ pc \in {"iterate", "markExported", "addTail"}
       => Cardinality(messages) <= BatchSize
  /\ pc \in {"iterate", "saveCheckpoint", "markExported", "addTail"}
       => \A m \in chat : checkpoint < m /\ m <= cursor => m \in messages

\* What has been queued lies behind the checkpoint or was in the last tail.
DuplicateInv ==
  /\ \A m \in chat : queued[m] > 0 => m <= checkpoint \/ m \in tail
  /\ Running => \A m \in chunk \cup messages : queued[m] > 0 => m \in tail

\* A finished or failed attempt accounts for at most one addition of a message.
AttemptInv ==
  \A m \in MsgIds :
    \/ queued[m] <= attempts + stalls
    \/ /\ queued[m] <= attempts + stalls + 1
       /\ \/ status = "completed"
          \/ Running /\ m <= cursor /\ m \notin messages

CompletedInv ==
  status = "completed" => \A m \in chat : m <= horizon => m \in Handed

CountInv ==
  /\ totalDone <= Cardinality({q \in Queued : q <= checkpoint})
  /\ Running => totalJobs <= Cardinality({q \in Queued \cup messages : q <= cursor})

ExportInv ==
  /\ IdsAssigned
  /\ IteratorInv
  /\ BatchInv
  /\ NoHoles
  /\ CheckpointCovered
  /\ TailInv
  /\ DuplicateInv
  /\ AttemptInv
  /\ CompletedInv
  /\ CountInv

----------------------------------------------------------------------------
(* Every action preserves every part of the invariant.                     *)

LEMMA AddBulkQueued ==
  ASSUME TypeOK, AddBulk
  PROVE  /\ Queued' = Queued \cup messages
         /\ \A m \in MsgIds : queued'[m] = IF m \in messages THEN queued[m] + 1
                                                             ELSE queued[m]
<1>1. \A m \in MsgIds : queued'[m] = IF m \in messages THEN queued[m] + 1
                                                       ELSE queued[m]
  BY DEF AddBulk
<1>2. \A m \in MsgIds : queued[m] \in Nat
  BY DEF TypeOK
<1>3. \A m \in MsgIds : queued'[m] > 0 <=> queued[m] > 0 \/ m \in messages
  BY <1>1, <1>2
<1>4. QED
  BY <1>1, <1>3 DEF TypeOK, Queued

\* What a change of the chat means for the invariants.
LEMMA ChatStep ==
  ASSUME TypeOK, ChatChanges
  PROVE  /\ UNCHANGED <<iterVars, redisVars, exported, queued, jobVars,
                        localVars, ghostVars>>
         /\ topId' \in Nat /\ topId <= topId'
         /\ \A m \in chat' : /\ m \in Nat
                             /\ m \in chat \/ (topId < m /\ m = topId')
         /\ chat' \subseteq MsgIds
<1>1. CASE NewMessage
  BY <1>1 DEF ChatChanges, NewMessage, TypeOK, IterTypeOK
<1>2. CASE DeleteMessage
  BY <1>2 DEF ChatChanges, DeleteMessage, TypeOK, IterTypeOK
<1>3. QED
  BY <1>1, <1>2 DEF ChatChanges

LEMMA IdsAssignedStep ==
  ASSUME TypeOK, ExportInv, [Next]_vars
  PROVE  IdsAssigned'
<1> USE DEF ExportInv, IdsAssigned, TypeOK, IterTypeOK, Queued
<1>1. CASE ChatChanges
  <2>1. /\ Queued' = Queued
        /\ UNCHANGED <<checkpoint, horizon, promised>>
        /\ topId' \in Nat /\ topId <= topId'
    BY <1>1, ChatStep DEF redisVars, ghostVars
  <2>2. ASSUME NEW m \in chat' PROVE m <= topId'
    <3>1. CASE m \in chat
      BY <1>1, <2>1, <3>1, ChatStep
    <3>2. QED
      BY <1>1, <3>1, ChatStep
  <2>3. \A m \in Queued : m <= topId'
    BY <2>1
  <2>4. checkpoint <= topId' /\ horizon <= topId'
    BY <2>1
  <2>5. QED
    BY <2>1, <2>2, <2>3, <2>4
<1>2. CASE FetchChunk
  BY <1>2 DEF FetchChunk, LoadChunk, chatVars, redisVars, jobVars, localVars
<1>3. CASE SaveCheckpoint
  BY <1>3 DEF SaveCheckpoint, Goto, BatchInv, Running, chatVars, iterVars,
              jobVars, ghostVars
<1>4. CASE HandOverBatch \/ HandOverTail
  <2>1. \A m \in messages : m <= topId
    BY <1>4 DEF HandOverBatch, HandOverTail, Goto, BatchInv, Running
  <2>2. QED
    BY <1>4, <2>1, AddBulkQueued DEF HandOverBatch, HandOverTail, Goto,
         chatVars, iterVars, redisVars, jobVars, ghostVars
<1>5. CASE MarkExported
  BY <1>5 DEF MarkExported, Goto, chatVars, iterVars, redisVars, jobVars
<1>6. CASE Throw \/ Crash
  BY <1>6 DEF Throw, Crash, AbandonAttempt, chatVars, iterVars, redisVars
<1>7. CASE StartJob \/ LoadProgress \/ TakeMessage \/ SaveDone
             \/ EndOfHistory \/ SayHello \/ UNCHANGED vars
  BY <1>7 DEF StartJob, LoadProgress, TakeMessage, SaveDone, EndOfHistory,
       SayHello, vars, chatVars, iterVars, redisVars, jobVars, localVars,
       ghostVars
<1>8. QED
  BY <1>1, <1>2, <1>3, <1>4, <1>5, <1>6, <1>7 DEF Next, Attempt

LEMMA IteratorInvStep ==
  ASSUME TypeOK, ExportInv, [Next]_vars
  PROVE  IteratorInv'
<1> USE DEF ExportInv, IteratorInv, IdsAssigned, Running, TypeOK, IterTypeOK
<1>1. CASE ChatChanges
  <2> SUFFICES ASSUME Running
               PROVE  /\ cursor <= topId'
                      /\ \A c \in chunk, m \in chat' :
                           cursor < m /\ m < c => m \in chunk
                      /\ exhausted => \A m \in chat' :
                           m <= horizon => m <= cursor \/ m \in chunk
    BY <1>1, ChatStep DEF iterVars, localVars, ghostVars
  <2>1. cursor <= topId'
    BY <1>1, ChatStep
  <2>2. \A m \in chat' : m \in Nat /\ (m \in chat \/ horizon < m)
    BY <1>1, ChatStep
  <2>3. \A c \in chunk : c \in Nat /\ c <= horizon
    BY <2>2
  <2>4. QED
    BY <2>1, <2>2, <2>3
<1>2. CASE FetchChunk
  BY <1>2 DEF FetchChunk, LoadChunk, IsFirstChunk, chatVars, redisVars,
              jobVars, localVars
<1>3. CASE TakeMessage
  BY <1>3 DEF TakeMessage, Yield, IsNext, chatVars, redisVars, jobVars,
              ghostVars
<1>4. CASE LoadProgress
  BY <1>4 DEF LoadProgress, Goto, Open, chatVars, jobVars, ghostVars
<1>5. CASE Throw \/ Crash
  BY <1>5 DEF Throw, Crash, AbandonAttempt
<1>6. CASE StartJob \/ SayHello
  BY <1>6 DEF StartJob, SayHello, Goto
<1>7. CASE SaveCheckpoint \/ HandOverBatch \/ SaveDone \/ EndOfHistory
             \/ MarkExported \/ HandOverTail \/ UNCHANGED vars
  BY <1>7 DEF SaveCheckpoint, HandOverBatch, SaveDone, EndOfHistory,
       MarkExported, HandOverTail, Goto, vars, chatVars, iterVars, localVars,
       ghostVars
<1>8. QED
  BY <1>1, <1>2, <1>3, <1>4, <1>5, <1>6, <1>7 DEF Next, Attempt

LEMMA BatchInvStep ==
  ASSUME TypeOK, ExportInv, [Next]_vars
  PROVE  BatchInv'
<1> USE DEF ExportInv, BatchInv, IdsAssigned, Running, Handed
<1>0. /\ \A m \in MsgIds : m \in Nat
      /\ chat \subseteq MsgIds /\ chunk \subseteq MsgIds
      /\ messages \subseteq MsgIds
      /\ cursor \in Nat /\ topId \in Nat /\ checkpoint \in Nat /\ horizon \in Nat
  BY DEF TypeOK, IterTypeOK
<1>1. CASE ChatChanges
  <2>1. /\ UNCHANGED <<cursor, chunk, exhausted, checkpoint, skipped, horizon,
                       messages, pc>>
        /\ Queued' = Queued
    BY <1>1, ChatStep DEF iterVars, redisVars, ghostVars, localVars, Queued
  <2>2. Running => \A m \in chat' : m \in chat \/ ~(m <= cursor)
    BY <1>0, <1>1, ChatStep DEF IteratorInv
  <2>3. QED
    BY <2>1, <2>2 DEF IterDone
<1>2. CASE StartJob \/ SayHello \/ Throw \/ Crash
  BY <1>2 DEF StartJob, SayHello, Throw, Crash, AbandonAttempt, Goto
<1>3. CASE LoadProgress
  <2>1. \A m \in chat : m <= checkpoint => m \in Handed
    BY <1>3 DEF CheckpointCovered, LoadProgress, Goto
  <2>2. QED
    BY <1>0, <1>3, <2>1 DEF LoadProgress, Goto, Open, chatVars, ghostVars,
         Queued
<1>4. CASE FetchChunk
  BY <1>0, <1>4 DEF FetchChunk, LoadChunk, chatVars, redisVars, localVars,
       Queued
<1>5. CASE TakeMessage
  <2> PICK m0 \in chunk : Yield(m0) /\ messages' = messages \cup {m0}
    BY <1>5 DEF TakeMessage
  <2>1. /\ pc = "iterate" /\ pc' \in {"iterate", "saveCheckpoint"}
        /\ UNCHANGED <<chat, checkpoint, skipped, horizon>> /\ Queued' = Queued
        /\ cursor' = m0
    BY <1>5 DEF TakeMessage, Yield, chatVars, redisVars, ghostVars, Queued
  <2>2. cursor < m0 /\ m0 <= horizon /\ m0 \in Nat
    BY <1>0, <2>1 DEF IteratorInv
  <2>3. \A m \in chat : m <= m0 => m <= cursor \/ m = m0
    BY <1>0, <2>1, <2>2 DEF IteratorInv, Yield, IsNext
  <2>4. /\ \A m \in messages : m \in Nat /\ checkpoint < m /\ m <= cursor
                                /\ m <= horizon
        /\ checkpoint <= cursor
        /\ \A m \in chat : m <= cursor => m \in Handed \cup messages
    BY <1>0, <2>1
  <2>5. \A m \in messages' : checkpoint < m /\ m <= m0 /\ m <= horizon
    BY <1>0, <2>2, <2>4
  <2>6. \A m \in chat : m <= m0 => m \in Handed \cup messages'
    BY <2>3, <2>4
  <2>7. checkpoint <= m0 /\ m0 \in messages'
    BY <1>0, <2>2, <2>4
  <2>8. QED
    BY <2>1, <2>5, <2>6, <2>7
<1>6. CASE SaveCheckpoint
  <2>1. checkpoint' = cursor
    BY <1>0, <1>6 DEF SaveCheckpoint, Goto
  <2>2. QED
    BY <1>0, <1>6, <2>1 DEF SaveCheckpoint, Goto, chatVars, iterVars,
         ghostVars, Queued
<1>7. CASE HandOverBatch \/ HandOverTail
  BY <1>7, AddBulkQueued DEF HandOverBatch, HandOverTail, Goto, chatVars,
       iterVars, redisVars, ghostVars, IterDone
<1>8. CASE SaveDone \/ EndOfHistory \/ MarkExported
  BY <1>8 DEF SaveDone, EndOfHistory, MarkExported, Goto, chatVars, iterVars,
       redisVars, ghostVars, IterDone, Queued
<1>9. CASE UNCHANGED vars
  BY <1>9 DEF vars, chatVars, iterVars, redisVars, ghostVars, localVars,
       IterDone, Queued
<1>10. QED
  BY <1>1, <1>2, <1>3, <1>4, <1>5, <1>6, <1>7, <1>8, <1>9 DEF Next, Attempt

LEMMA NoHolesStep ==
  ASSUME TypeOK, ExportInv, [Next]_vars
  PROVE  NoHoles'
<1> USE DEF ExportInv, NoHoles
<1>0. /\ \A m \in MsgIds : m \in Nat
      /\ chat \subseteq MsgIds /\ messages \subseteq MsgIds
      /\ cursor \in Nat /\ topId \in Nat
      /\ \A q \in Queued : q \in Nat
  BY DEF TypeOK, IterTypeOK, Queued
<1>1. CASE ChatChanges
  <2>1. Queued' = Queued /\ skipped' = skipped
    BY <1>1, ChatStep DEF ghostVars, Queued
  <2>2. \A m \in chat' : m \in Nat /\ (m \in chat \/ topId < m)
    BY <1>1, ChatStep
  <2>3. QED
    BY <1>0, <2>1, <2>2 DEF IdsAssigned
<1>2. CASE HandOverBatch \/ HandOverTail
  <2>1. /\ Queued' = Queued \cup messages
        /\ UNCHANGED <<chat, skipped>>
        /\ Running
    BY <1>2, AddBulkQueued DEF HandOverBatch, HandOverTail, Goto, chatVars,
         ghostVars, Running
  <2>2. \A m \in chat, q \in messages :
          m < q => m \in Queued \cup skipped \cup messages
    BY <1>0, <2>1 DEF BatchInv, Handed
  <2>3. QED
    BY <2>1, <2>2
<1>3. CASE Throw \/ Crash
  BY <1>3 DEF Throw, Crash, AbandonAttempt, chatVars, Queued
<1>4. CASE StartJob \/ LoadProgress \/ FetchChunk \/ TakeMessage
             \/ SaveCheckpoint \/ SaveDone \/ EndOfHistory \/ MarkExported
             \/ SayHello \/ UNCHANGED vars
  BY <1>4 DEF StartJob, LoadProgress, FetchChunk, TakeMessage, SaveCheckpoint,
       SaveDone, EndOfHistory, MarkExported, SayHello, vars, chatVars,
       ghostVars, Queued
<1>5. QED
  BY <1>1, <1>2, <1>3, <1>4 DEF Next, Attempt

LEMMA CheckpointCoveredStep ==
  ASSUME TypeOK, ExportInv, [Next]_vars
  PROVE  CheckpointCovered'
<1> USE DEF ExportInv, CheckpointCovered
<1>0. /\ \A m \in MsgIds : m \in Nat
      /\ chat \subseteq MsgIds /\ messages \subseteq MsgIds
      /\ cursor \in Nat /\ topId \in Nat /\ checkpoint \in Nat
  BY DEF TypeOK, IterTypeOK
<1>1. CASE ChatChanges
  <2>1. /\ Queued' = Queued
        /\ UNCHANGED <<skipped, checkpoint, pc, messages>>
    BY <1>1, ChatStep DEF ghostVars, redisVars, localVars, Queued
  <2>2. \A m \in chat' : m \in chat \/ checkpoint < m
    BY <1>0, <1>1, ChatStep DEF IdsAssigned
  <2>3. QED
    BY <1>0, <1>1, <2>1, <2>2, ChatStep
<1>2. CASE SaveCheckpoint
  <2>1. /\ \A m \in chat : m <= cursor => m \in Queued \cup skipped \cup messages
        /\ checkpoint' \in Nat /\ checkpoint' <= cursor
        /\ pc' = "addBulk" /\ UNCHANGED <<chat, skipped, messages>>
        /\ Queued' = Queued
    BY <1>0, <1>2 DEF SaveCheckpoint, Goto, BatchInv, Running, Handed, chatVars,
         ghostVars, Queued
  <2>2. QED
    BY <1>0, <2>1
<1>3. CASE HandOverBatch \/ HandOverTail
  BY <1>3, AddBulkQueued DEF HandOverBatch, HandOverTail, Goto, chatVars,
       redisVars, ghostVars
<1>4. CASE Throw \/ Crash
  BY <1>4 DEF Throw, Crash, AbandonAttempt, chatVars, redisVars, Queued
<1>5. CASE StartJob \/ LoadProgress \/ FetchChunk \/ TakeMessage
             \/ SaveDone \/ EndOfHistory \/ MarkExported
             \/ SayHello \/ UNCHANGED vars
  BY <1>5 DEF StartJob, LoadProgress, FetchChunk, TakeMessage, SaveDone,
       EndOfHistory, MarkExported, SayHello, Goto, vars, chatVars, redisVars,
       localVars, ghostVars, Queued
<1>6. QED
  BY <1>1, <1>2, <1>3, <1>4, <1>5 DEF Next, Attempt

LEMMA TailInvStep ==
  ASSUME TypeOK, ExportInv, [Next]_vars
  PROVE  TailInv'
<1> USE DEF ExportInv, TailInv, Running
<1>0. /\ \A m \in MsgIds : m \in Nat
      /\ chat \subseteq MsgIds /\ messages \subseteq MsgIds
      /\ chunk \subseteq MsgIds /\ tail \subseteq MsgIds
      /\ cursor \in Nat /\ topId \in Nat /\ checkpoint \in Nat /\ horizon \in Nat
  BY DEF TypeOK, IterTypeOK
<1>e. Cardinality({}) = 0
  BY FS_EmptySet
<1>1. CASE ChatChanges
  <2>1. UNCHANGED <<tail, horizon, checkpoint, cursor, pc, messages>>
    BY <1>1, ChatStep DEF ghostVars, redisVars, localVars, iterVars
  <2>2. pc \in {"iterate", "saveCheckpoint", "markExported", "addTail"}
          => \A m \in chat' : m \in chat \/ cursor < m
    BY <1>0, <1>1, ChatStep DEF IteratorInv
  <2>3. \A m \in chat' : m \in Nat
    BY <1>1, ChatStep
  <2>4. QED
    BY <1>0, <2>1, <2>2, <2>3
<1>2. CASE FetchChunk
  BY <1>0, <1>2 DEF FetchChunk, LoadChunk, IdsAssigned, chatVars, redisVars,
       localVars
<1>3. CASE TakeMessage
  <2> PICK m0 \in chunk : Yield(m0) /\ messages' = messages \cup {m0}
    BY <1>3 DEF TakeMessage
  <2>1. /\ UNCHANGED <<chat, checkpoint, horizon, tail>>
        /\ pc = "iterate" /\ cursor' = m0
        /\ pc' = IF Cardinality(messages') > BatchSize THEN "saveCheckpoint"
                                                       ELSE "iterate"
    BY <1>3 DEF TakeMessage, Yield, chatVars, redisVars, ghostVars
  <2>2. \A m \in chat : m <= m0 => m <= cursor \/ m = m0
    BY <1>0, <2>1 DEF IteratorInv, Yield, IsNext
  <2>3. Cardinality(messages') \in Nat
    <3>1. messages' \subseteq MsgIds
      BY <1>0, <2>1
    <3>2. QED
      BY <3>1, FS_Subset, FS_CardinalityType
  <2>4. pc' = "iterate" => Cardinality(messages') <= BatchSize
    BY <2>1, <2>3
  <2>5. \A m \in chat : checkpoint < m /\ m <= m0 => m \in messages'
    BY <1>0, <2>1, <2>2
  <2>6. QED
    BY <2>1, <2>4, <2>5
<1>4. CASE LoadProgress
  BY <1>0, <1>4, <1>e DEF LoadProgress, Goto, Open, chatVars, ghostVars
<1>5. CASE HandOverBatch
  <2>1. /\ Cardinality(tail \ messages) <= Cardinality(tail)
        /\ Cardinality(tail \ messages) \in Nat /\ Cardinality(tail) \in Nat
    <3>1. IsFiniteSet(tail) /\ tail \ messages \subseteq tail
      BY <1>0, FS_Subset
    <3>2. QED
      BY <3>1, FS_Subset, FS_CardinalityType
  <2>2. QED
    BY <1>0, <1>5, <2>1 DEF HandOverBatch, Goto
<1>6. CASE HandOverTail
  BY <1>6 DEF HandOverTail, Goto, BatchInv
<1>7. CASE SaveDone
  <2>1. /\ messages = {} /\ checkpoint = cursor
        /\ UNCHANGED <<chat, messages, checkpoint, cursor, tail, horizon>>
    BY <1>7 DEF SaveDone, Goto, BatchInv, chatVars, iterVars, ghostVars
  <2>2. Cardinality(messages) <= BatchSize
    BY <1>e, <2>1
  <2>3. \A m \in chat : ~(checkpoint < m /\ m <= cursor)
    BY <1>0, <2>1
  <2>4. QED
    BY <2>1, <2>2, <2>3
<1>8. CASE SaveCheckpoint
  BY <1>8 DEF SaveCheckpoint, Goto, ghostVars
<1>9. CASE Throw \/ Crash \/ StartJob \/ SayHello
  BY <1>9 DEF Throw, Crash, AbandonAttempt, StartJob, SayHello, Goto, ghostVars
<1>10. CASE EndOfHistory \/ MarkExported \/ UNCHANGED vars
  BY <1>10 DEF EndOfHistory, MarkExported, Goto, vars, chatVars, iterVars,
       redisVars, localVars, ghostVars
<1>11. QED
  BY <1>1, <1>2, <1>3, <1>4, <1>5, <1>6, <1>7, <1>8, <1>9, <1>10 DEF Next, Attempt

LEMMA DuplicateInvStep ==
  ASSUME TypeOK, ExportInv, [Next]_vars
  PROVE  DuplicateInv'
<1> USE DEF ExportInv, DuplicateInv, Running
<1>0. /\ \A m \in MsgIds : m \in Nat /\ queued[m] \in Nat
      /\ chat \subseteq MsgIds /\ messages \subseteq MsgIds
      /\ chunk \subseteq MsgIds
      /\ cursor \in Nat /\ topId \in Nat /\ checkpoint \in Nat /\ horizon \in Nat
  BY DEF TypeOK, IterTypeOK
<1>1. CASE ChatChanges
  <2>1. UNCHANGED <<queued, tail, checkpoint, pc, messages, chunk>>
    BY <1>1, ChatStep DEF ghostVars, redisVars, localVars, iterVars
  <2>2. \A m \in chat' : m \in chat \/ ~(queued[m] > 0)
    <3> TAKE m \in chat'
    <3>1. m \in MsgIds /\ m \in Nat /\ (m \in chat \/ topId < m)
      BY <1>1, ChatStep
    <3>2. queued[m] > 0 => m <= topId
      BY <3>1 DEF IdsAssigned, Queued
    <3>3. QED
      BY <1>0, <3>1, <3>2
  <2>3. QED
    BY <2>1, <2>2
<1>2. CASE FetchChunk
  <2>1. /\ chunk' \subseteq {m \in chat : m > cursor} /\ pc = "iterate"
        /\ UNCHANGED <<chat, queued, tail, checkpoint, messages, pc>>
    BY <1>2 DEF FetchChunk, LoadChunk, IsFirstChunk, chatVars, redisVars, localVars
  <2>2. \A m \in chunk' : queued[m] > 0 => m \in tail
    BY <1>0, <2>1 DEF BatchInv
  <2>3. QED
    BY <2>1, <2>2
<1>3. CASE TakeMessage
  BY <1>3 DEF TakeMessage, Yield, chatVars, redisVars, ghostVars
<1>4. CASE SaveCheckpoint
  <2>1. checkpoint' = cursor /\ checkpoint <= cursor
    BY <1>0, <1>4 DEF SaveCheckpoint, Goto, BatchInv
  <2>2. QED
    BY <1>0, <1>4, <2>1 DEF SaveCheckpoint, Goto, chatVars, iterVars, jobVars,
         ghostVars
<1>5. CASE HandOverBatch
  <2>1. \A m \in messages : m <= checkpoint
    BY <1>5 DEF HandOverBatch, Goto, BatchInv
  <2>2. \A m \in MsgIds : queued'[m] = IF m \in messages THEN queued[m] + 1
                                                        ELSE queued[m]
    BY <1>5, AddBulkQueued DEF HandOverBatch
  <2>3. \A m \in chunk : m \notin messages
    BY <1>0, <1>5 DEF HandOverBatch, Goto, IteratorInv, BatchInv
  <2>4. /\ tail' = tail \ messages /\ messages' = {}
        /\ UNCHANGED <<chat, chunk, checkpoint>> /\ pc = "addBulk"
    BY <1>5 DEF HandOverBatch, Goto, chatVars, iterVars, redisVars
  <2>5. \A m \in chat : queued'[m] > 0 => m <= checkpoint \/ m \in tail'
    <3> TAKE m \in chat
    <3>1. CASE m \in messages
      BY <2>1, <3>1
    <3>2. CASE m \notin messages
      BY <1>0, <2>2, <2>4, <3>2
    <3>3. QED
      BY <3>1, <3>2
  <2>6. \A m \in chunk : queued'[m] > 0 => m \in tail'
    BY <1>0, <2>2, <2>3, <2>4
  <2>7. QED
    BY <2>4, <2>5, <2>6
<1>6. CASE HandOverTail
  <2>1. \A m \in MsgIds : queued'[m] = IF m \in messages THEN queued[m] + 1
                                                        ELSE queued[m]
    BY <1>6, AddBulkQueued DEF HandOverTail
  <2>2. /\ tail' = messages /\ messages' = {} /\ chunk' = {} /\ pc = "addTail"
        /\ UNCHANGED <<chat, checkpoint>> /\ exhausted /\ chunk = {}
    BY <1>6 DEF HandOverTail, Goto, BatchInv, IterDone, chatVars, iterVars, redisVars
  <2>3. \A m \in chat : queued[m] > 0 => m <= checkpoint \/ m \in messages
    <3> TAKE m \in chat
    <3>1. m \in tail => m <= cursor
      BY <1>0, <2>2 DEF TailInv, IteratorInv
    <3>2. checkpoint < m /\ m <= cursor => m \in messages
      BY <2>2 DEF TailInv
    <3>3. m \in Nat
      BY <1>0
    <3>4. QED
      BY <1>0, <3>1, <3>2, <3>3
  <2>4. \A m \in chat : queued'[m] > 0 => m <= checkpoint \/ m \in messages
    BY <1>0, <2>1, <2>3
  <2>5. QED
    BY <2>2, <2>4
<1>7. CASE Throw \/ Crash
  BY <1>7 DEF Throw, Crash, AbandonAttempt, chatVars, redisVars
<1>8. CASE LoadProgress
  BY <1>8 DEF LoadProgress, Goto, Open, chatVars, ghostVars
<1>9. CASE StartJob \/ SaveDone \/ EndOfHistory \/ MarkExported \/ SayHello
             \/ UNCHANGED vars
  BY <1>9 DEF StartJob, SaveDone, EndOfHistory, MarkExported, SayHello, Goto,
       vars, chatVars, iterVars, redisVars, localVars, ghostVars
<1>10. QED
  BY <1>1, <1>2, <1>3, <1>4, <1>5, <1>6, <1>7, <1>8, <1>9 DEF Next, Attempt

LEMMA AttemptInvStep ==
  ASSUME TypeOK, JobOK, ExportInv, [Next]_vars
  PROVE  AttemptInv'
<1> USE DEF ExportInv, AttemptInv, Running
<1>0. /\ \A m \in MsgIds : m \in Nat /\ queued[m] \in Nat
      /\ messages \subseteq MsgIds /\ chunk \subseteq MsgIds
      /\ cursor \in Nat /\ attempts \in Nat /\ stalls \in Nat
  BY DEF TypeOK, IterTypeOK
<1>1. CASE TakeMessage
  <2> PICK m0 \in chunk : Yield(m0) /\ messages' = messages \cup {m0}
    BY <1>1 DEF TakeMessage
  <2>1. /\ UNCHANGED <<queued, attempts, stalls, status>>
        /\ pc = "iterate" /\ pc' \notin {"idle", "load"}
        /\ cursor' = m0
    BY <1>1 DEF TakeMessage, Yield, jobVars
  <2>2. cursor < m0
    BY <2>1 DEF IteratorInv
  <2>3. QED
    BY <1>0, <2>1, <2>2
<1>2. CASE HandOverBatch \/ HandOverTail
  <2>1. \A m \in MsgIds : queued'[m] = IF m \in messages THEN queued[m] + 1
                                                        ELSE queued[m]
    BY <1>2, AddBulkQueued DEF HandOverBatch, HandOverTail
  <2>2. \A m \in messages : m <= cursor
    BY <1>2 DEF HandOverBatch, HandOverTail, Goto, BatchInv
  <2>3. status = "active"
    BY <1>2 DEF HandOverBatch, HandOverTail, Goto, JobOK
  <2>4. QED
    BY <1>0, <1>2, <2>1, <2>2, <2>3 DEF HandOverBatch, HandOverTail, Goto,
         iterVars, jobVars
<1>3. CASE Throw \/ Crash
  <2>1. attempts' + stalls' = attempts + stalls + 1 /\ queued' = queued
    BY <1>0, <1>3 DEF Throw, Crash, AbandonAttempt
  <2>2. QED
    BY <1>0, <2>1
<1>4. CASE SayHello
  BY <1>0, <1>4 DEF SayHello
<1>5. CASE StartJob \/ LoadProgress
  BY <1>0, <1>5 DEF StartJob, LoadProgress, Goto, JobOK, jobVars
<1>6. CASE FetchChunk \/ SaveCheckpoint \/ SaveDone \/ EndOfHistory
             \/ MarkExported
  BY <1>0, <1>6 DEF FetchChunk, LoadChunk, SaveCheckpoint, SaveDone,
       EndOfHistory, MarkExported, Goto, iterVars, localVars, jobVars
<1>7. CASE ChatChanges \/ UNCHANGED vars
  BY <1>0, <1>7, ChatStep DEF vars, iterVars, localVars, jobVars
<1>8. QED
  BY <1>1, <1>2, <1>3, <1>4, <1>5, <1>6, <1>7 DEF Next, Attempt

LEMMA CompletedInvStep ==
  ASSUME TypeOK, JobOK, ExportInv, [Next]_vars
  PROVE  CompletedInv'
<1> USE DEF ExportInv, CompletedInv, Handed
<1>0. /\ \A m \in MsgIds : m \in Nat
      /\ chat \subseteq MsgIds
      /\ cursor \in Nat /\ topId \in Nat /\ horizon \in Nat
  BY DEF TypeOK, IterTypeOK
<1>1. CASE SayHello
  <2>1. /\ Running /\ IterDone /\ messages = {}
    BY <1>1 DEF SayHello, Goto, BatchInv, Running
  <2>2. \A m \in chat : m <= horizon => m \in Queued \cup skipped
    BY <2>1 DEF IteratorInv, BatchInv, IterDone
  <2>3. QED
    BY <1>1, <2>2 DEF SayHello, chatVars, ghostVars, Queued
<1>2. CASE ChatChanges
  <2>1. Queued' = Queued /\ UNCHANGED <<skipped, horizon, status>>
    BY <1>2, ChatStep DEF ghostVars, jobVars, Queued
  <2>2. \A m \in chat' : m \in chat \/ ~(m <= horizon)
    BY <1>0, <1>2, ChatStep DEF IdsAssigned
  <2>3. QED
    BY <2>1, <2>2
<1>3. CASE StartJob \/ Throw \/ Crash
  BY <1>3 DEF StartJob, Throw, Crash
<1>4. CASE LoadProgress \/ FetchChunk \/ TakeMessage \/ SaveCheckpoint
             \/ HandOverBatch \/ SaveDone \/ EndOfHistory \/ MarkExported
             \/ HandOverTail
  <2>1. pc # "idle" /\ UNCHANGED status
    BY <1>4 DEF LoadProgress, FetchChunk, TakeMessage, SaveCheckpoint,
         HandOverBatch, SaveDone, EndOfHistory, MarkExported, HandOverTail,
         Goto, jobVars
  <2>2. QED
    BY <2>1 DEF JobOK
<1>5. CASE UNCHANGED vars
  BY <1>5 DEF vars, chatVars, jobVars, ghostVars, Queued
<1>6. QED
  BY <1>1, <1>2, <1>3, <1>4, <1>5 DEF Next, Attempt

\* A larger set of ids has at least as many members.
LEMMA CountMonotone ==
  ASSUME NEW S \in SUBSET MsgIds, NEW T \in SUBSET S
  PROVE  /\ Cardinality(S) \in Nat /\ Cardinality(T) \in Nat
         /\ Cardinality(T) <= Cardinality(S)
<1>1. IsFiniteSet(S)
  BY FS_Subset
<1>2. QED
  BY <1>1, FS_Subset, FS_CardinalityType

LEMMA CountInvStep ==
  ASSUME TypeOK, ExportInv, [Next]_vars
  PROVE  CountInv'
<1> DEFINE Covered == {q \in Queued : q <= checkpoint}
           Taken   == {q \in Queued \cup messages : q <= cursor}
<1> USE DEF ExportInv, CountInv, Running
<1>0. /\ \A m \in MsgIds : m \in Nat
      /\ messages \subseteq MsgIds /\ chunk \subseteq MsgIds
      /\ Queued \subseteq MsgIds /\ Queued' \subseteq MsgIds
      /\ cursor \in Nat /\ checkpoint \in Nat
      /\ totalDone \in Nat /\ totalJobs \in Nat
  BY DEF TypeOK, IterTypeOK, Queued
<1>c. Cardinality(Covered) \in Nat /\ Cardinality(Taken) \in Nat
  BY <1>0, CountMonotone
<1>1. CASE LoadProgress
  <2>1. Taken' = Covered /\ Covered' = Covered
    BY <1>1 DEF LoadProgress, Open, Queued
  <2>2. QED
    BY <1>1, <2>1 DEF LoadProgress
<1>2. CASE TakeMessage
  <2> PICK m0 \in chunk : Yield(m0) /\ messages' = messages \cup {m0}
    BY <1>2 DEF TakeMessage
  <2>1. /\ Queued' = Queued /\ UNCHANGED <<checkpoint, totalDone>>
        /\ cursor' = m0 /\ totalJobs' = totalJobs + 1 /\ Running
    BY <1>2 DEF TakeMessage, Yield, redisVars, Queued
  <2>2. cursor < m0 /\ m0 \in Nat
    BY <1>0, <2>1 DEF IteratorInv
  <2>3. /\ Taken \cup {m0} \subseteq Taken'
        /\ m0 \notin Taken
    <3>1. \A q \in Queued \cup messages : q \in Nat /\ (q <= cursor => q <= m0)
      BY <1>0, <2>2
    <3>2. Taken' = {q \in Queued \cup messages \cup {m0} : q <= m0}
      BY <2>1
    <3>3. ~(m0 <= cursor) /\ m0 <= m0
      BY <1>0, <2>2
    <3>4. QED
      BY <3>1, <3>2, <3>3
  <2>4. Cardinality(Taken \cup {m0}) = Cardinality(Taken) + 1
    <3>1. IsFiniteSet(Taken)
      BY <1>0, FS_Subset
    <3>2. QED
      BY <2>3, <3>1, FS_AddElement
  <2>5. Taken' \in SUBSET MsgIds
    BY <1>0, <2>1
  <2>6. /\ Cardinality(Taken \cup {m0}) <= Cardinality(Taken')
        /\ Cardinality(Taken') \in Nat
    BY <2>3, <2>5, CountMonotone
  <2>7. totalJobs' <= Cardinality(Taken')
    BY <1>0, <1>c, <2>1, <2>4, <2>6
  <2>8. QED
    BY <2>1, <2>7
<1>3. CASE SaveCheckpoint
  <2>1. checkpoint' = cursor /\ checkpoint <= cursor /\ Queued' = Queued
    BY <1>0, <1>3 DEF SaveCheckpoint, Goto, BatchInv, Queued, ghostVars
  <2>2. Covered \subseteq Covered' /\ Covered' \in SUBSET MsgIds
    <3>1. \A q \in Queued : q \in Nat /\ (q <= checkpoint => q <= cursor)
      BY <1>0, <2>1
    <3>2. QED
      BY <1>0, <2>1, <3>1
  <2>3. Cardinality(Covered) <= Cardinality(Covered') /\ Cardinality(Covered') \in Nat
    BY <2>2, CountMonotone
  <2>4. Taken' = Taken /\ UNCHANGED <<totalDone, totalJobs>>
    BY <1>3, <2>1 DEF SaveCheckpoint, iterVars
  <2>5. QED
    BY <1>0, <1>3, <1>c, <2>3, <2>4 DEF SaveCheckpoint, Goto
<1>4. CASE HandOverBatch \/ HandOverTail
  <2>1. /\ Queued' = Queued \cup messages /\ messages' = {} /\ Running
        /\ UNCHANGED <<cursor, checkpoint, totalDone, totalJobs>>
    BY <1>4, AddBulkQueued DEF HandOverBatch, HandOverTail, Goto, iterVars,
         redisVars
  <2>2. Taken' = Taken /\ Covered \subseteq Covered' /\ Covered' \in SUBSET MsgIds
    BY <1>0, <2>1
  <2>3. Cardinality(Covered) <= Cardinality(Covered') /\ Cardinality(Covered') \in Nat
    BY <2>2, CountMonotone
  <2>4. QED
    BY <1>0, <1>c, <2>1, <2>2, <2>3
<1>5. CASE SaveDone
  <2>1. checkpoint = cursor /\ messages = {} /\ Queued' = Queued
    BY <1>5 DEF SaveDone, Goto, BatchInv, Queued
  <2>2. Covered' = Taken /\ Taken' = Taken
    BY <1>5, <2>1 DEF SaveDone, iterVars
  <2>3. QED
    BY <1>5, <2>2 DEF SaveDone, Goto
<1>6. CASE StartJob \/ SayHello \/ Throw \/ Crash
  BY <1>6 DEF StartJob, SayHello, Throw, Crash, AbandonAttempt, Goto, redisVars,
       Queued
<1>7. CASE FetchChunk \/ EndOfHistory \/ MarkExported \/ ChatChanges
             \/ UNCHANGED vars
  <2>1. /\ UNCHANGED <<cursor, checkpoint, totalDone, totalJobs, messages>>
        /\ Queued' = Queued /\ (Running' => Running)
    BY <1>7, ChatStep DEF FetchChunk, LoadChunk, EndOfHistory, MarkExported, Goto,
         vars, iterVars, redisVars, localVars, Queued
  <2>2. QED
    BY <2>1
<1>8. QED
  BY <1>1, <1>2, <1>3, <1>4, <1>5, <1>6, <1>7 DEF Next, Attempt

----------------------------------------------------------------------------
(* The theorems.                                                           *)

\* The inductive invariant holds in every reachable state.
THEOREM ExportInvariant == Spec => [](TypeOK /\ JobOK /\ ExportInv)
<1>1. Init => ExportInv
  <2> SUFFICES ASSUME Init PROVE ExportInv
    OBVIOUS
  <2>1. /\ Queued = {} /\ \A m \in MsgIds : queued[m] = 0
    BY DEF Init, Queued
  <2>2. /\ {q \in Queued : q <= checkpoint} = {} /\ Cardinality({}) = 0
    BY <2>1, FS_EmptySet
  <2>3. topId \in Nat
    BY DEF Init
  <2>4. IdsAssigned /\ CountInv
    BY <2>1, <2>2, <2>3 DEF Init, IdsAssigned, CountInv, Running
  <2>5. NoHoles /\ CheckpointCovered
    <3>1. \A m \in chat : ~(m <= 0)
      BY DEF Init
    <3>2. QED
      BY <2>1, <3>1 DEF Init, NoHoles, CheckpointCovered
  <2>6. TailInv /\ DuplicateInv
    BY <2>1, <2>2 DEF Init, TailInv, DuplicateInv, Running
  <2>7. AttemptInv
    BY <2>1 DEF Init, AttemptInv
  <2>8. IteratorInv /\ BatchInv /\ CompletedInv
    BY DEF Init, IteratorInv, BatchInv, CompletedInv, Running
  <2>9. QED
    BY <2>4, <2>5, <2>6, <2>7, <2>8 DEF ExportInv
<1>2. TypeOK /\ JobOK /\ ExportInv /\ [Next]_vars => ExportInv'
  BY IdsAssignedStep, IteratorInvStep, BatchInvStep, NoHolesStep,
     CheckpointCoveredStep, TailInvStep, DuplicateInvStep, AttemptInvStep, CompletedInvStep,
     CountInvStep DEF ExportInv
<1>3. QED
  BY <1>1, <1>2, TypeAndJob, PTL DEF Spec

\* Batches reach the queue in order and without holes (handler.ts:247-274).
THEOREM HandOverWithoutHoles == Spec => []NoHoles
BY ExportInvariant, PTL DEF ExportInv

\* A retry resumes behind everything handed over (handler.ts:187-190, 258).
THEOREM CheckpointIsCovered == Spec => []CheckpointCovered
BY ExportInvariant, PTL DEF ExportInv

\* Only what the last addTail handed over (handler.ts:274-275), and no full batch
\* since, can be queued again.
THEOREM DuplicatesAreTail == Spec => DuplicatesOnlyInTail
<1> DEFINE OnlyTail == \A m \in MsgIds :
             queued[m] > 0 /\ queued'[m] > queued[m]
               => m \in tail /\ Cardinality(tail) <= BatchSize
<1>1. TypeOK /\ ExportInv /\ [Next]_vars => [OnlyTail]_vars
  <2> SUFFICES ASSUME TypeOK, ExportInv, [Next]_vars PROVE OnlyTail
    OBVIOUS
  <2>0. \A m \in MsgIds : queued[m] \in Nat
    BY DEF TypeOK
  <2>1. CASE HandOverBatch \/ HandOverTail
    <3>1. \A m \in MsgIds : queued'[m] = IF m \in messages THEN queued[m] + 1
                                                          ELSE queued[m]
      BY <2>1, AddBulkQueued DEF HandOverBatch, HandOverTail
    <3>2. \A m \in messages : queued[m] > 0 => m \in tail
      BY <2>1 DEF HandOverBatch, HandOverTail, Goto, ExportInv, DuplicateInv, Running
    <3>3. QED
      BY <2>0, <3>1, <3>2 DEF ExportInv, TailInv
  <2>2. CASE ~(HandOverBatch \/ HandOverTail)
    <3>1. UNCHANGED queued
      BY <2>2, ChatStep DEF Next, Attempt, StartJob, LoadProgress, FetchChunk,
           TakeMessage, SaveCheckpoint, SaveDone, EndOfHistory, MarkExported,
           SayHello, Throw, Crash, AbandonAttempt, vars
    <3>2. QED
      BY <2>0, <3>1
  <2>3. QED
    BY <2>1, <2>2
<1>2. QED
  BY <1>1, ExportInvariant, PTL DEF Spec, DuplicatesOnlyInTail

\* An attempt adds each message at most once.
THEOREM OncePerAttempt == Spec => []AtMostOncePerAttempt
<1>1. TypeOK /\ ExportInv => AtMostOncePerAttempt
  BY DEF TypeOK, ExportInv, AttemptInv, AtMostOncePerAttempt
<1>2. QED
  BY <1>1, ExportInvariant, PTL

\* The progress counter never overstates what was handed over.
THEOREM DoneIsSound == Spec => []DoneNeverOverstates
<1>1. TypeOK /\ ExportInv => DoneNeverOverstates
  <2> SUFFICES ASSUME TypeOK, ExportInv PROVE DoneNeverOverstates
    OBVIOUS
  <2>1. Queued \in SUBSET MsgIds /\ {q \in Queued : q <= checkpoint} \in SUBSET Queued
    BY DEF Queued
  <2>2. /\ Cardinality({q \in Queued : q <= checkpoint}) <= Cardinality(Queued)
        /\ Cardinality({q \in Queued : q <= checkpoint}) \in Nat
        /\ Cardinality(Queued) \in Nat
    BY <2>1, CountMonotone
  <2>3. QED
    BY <2>2 DEF TypeOK, ExportInv, CountInv, DoneNeverOverstates
<1>2. QED
  BY <1>1, ExportInvariant, PTL

\* When the job completes, what exportedInFull vouches for has been handed over.
THEOREM FlagIsTruthful == Spec => []PromiseKept
<1>1. ExportInv => PromiseKept
  BY DEF ExportInv, IdsAssigned, CompletedInv, PromiseKept, Handed
<1>2. QED
  BY <1>1, ExportInvariant, PTL

\* The persisted checkpoint never moves back.
THEOREM CheckpointNeverMovesBack == Spec => CheckpointMonotone
<1>1. TypeOK /\ ExportInv /\ [Next]_vars => [checkpoint' >= checkpoint]_vars
  <2> SUFFICES ASSUME TypeOK, ExportInv, [Next]_vars
               PROVE  checkpoint' >= checkpoint
    OBVIOUS
  <2>0. checkpoint \in Nat
    BY DEF TypeOK
  <2>1. CASE SaveCheckpoint
    <3>1. \A m \in MsgIds : m \in Nat
      OBVIOUS
    <3>2. \A m \in messages : m \in Nat /\ checkpoint < m
      BY <2>1, <3>1 DEF SaveCheckpoint, Goto, ExportInv, BatchInv, Running, TypeOK
    <3>3. QED
      BY <2>0, <2>1, <3>2 DEF SaveCheckpoint
  <2>2. CASE ~SaveCheckpoint
    <3>1. UNCHANGED checkpoint
      BY <2>2, ChatStep DEF Next, Attempt, StartJob, LoadProgress, FetchChunk,
           TakeMessage, HandOverBatch, SaveDone, EndOfHistory, MarkExported,
           HandOverTail, SayHello, Throw, Crash, AbandonAttempt, vars,
           redisVars
    <3>2. QED
      BY <2>0, <3>1
  <2>3. QED
    BY <2>1, <2>2
<1>2. QED
  BY <1>1, ExportInvariant, PTL DEF Spec, CheckpointMonotone
=============================================================================
