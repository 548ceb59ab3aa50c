------------------------- MODULE HistoryJobsProofs -------------------------
(***************************************************************************)
(* Proofs about the queue jobs of the history application: the export      *)
(* jobs of several processes (ExportCopies), then the import buffers, for  *)
(* any jobs, threshold and bounds.                                         *)
(***************************************************************************)
EXTENDS HistoryImport, ExportCopies, FiniteSetTheorems, WellFoundedInduction,
        NaturalsInduction, TLAPS

----------------------------------------------------------------------------
(* The export jobs of several processes, for any processes, requests,      *)
(* dialogs, chats, batches and bounds.  First the types.                   *)

\* Only an active job is locked, and one that may still be taken or is being taken
\* has attempts and stalls left.
JobsLegal ==
  \A r \in Requests :
    /\ lock[r] # None => status[r] = "active"
    /\ status[r] \in {"waiting", "active"} => attempts[r] < Attempts /\ stalls[r] <= MaxStalls

CopiesTypes == CopiesTypeOK /\ JobsLegal

LEMMA CopiesLeastIndex ==
  ASSUME NEW S \in SUBSET Nat, S # {}
  PROVE  \E x \in S : \A y \in S : x <= y
<1> DEFINE Less == OpToRel(<, Nat)
<1>1. IsWellFoundedOn(Less, Nat)
  BY NatLessThanWellFounded, Zenon
<1>2. \A x, y \in Nat : x < y => <<x, y>> \in Less
  BY Zenon DEF OpToRel
<1> HIDE DEF Less
<1>3. PICK x \in S : \A y \in S : ~ (<<y, x>> \in Less)
  BY <1>1, WFMin, Zenon
<1>4. \A y \in S : ~ (y < x)
  BY <1>2, <1>3
<1> QED
  BY <1>4

\* A request is for some dialog of the account, the first that fits.
LEMMA DialogIsChat ==
  ASSUME NEW r \in Requests
  PROVE  Dialog(r) \in Chats
<1> DEFINE Fits == {i \in DOMAIN Dialogs : <<r, Dialogs[i]>> \in Includes}
<1>1. DOMAIN Dialogs \subseteq Nat
  BY CopiesAssumption DEF CopiesAssumption
<1>2. Fits # {}
  BY CopiesAssumption DEF CopiesAssumption, Chats
<1>3. PICK i \in Fits : \A j \in Fits : i <= j
  <2> HIDE DEF Fits
  <2>1. Fits \in SUBSET Nat
    BY <1>1 DEF Fits
  <2> QED
    BY <2>1, <1>2, CopiesLeastIndex
<1>4. \E k \in DOMAIN Dialogs :
        /\ <<r, Dialogs[k]>> \in Includes
        /\ \A j \in DOMAIN Dialogs : <<r, Dialogs[j]>> \in Includes => k <= j
  BY <1>3
<1> QED
  BY <1>4 DEF Dialog, Chats

LEMMA ChatIsChat ==
  ASSUME CopiesTypes, NEW w \in Workers, Busy(w)
  PROVE  request[w] \in Requests /\ Chat(w) \in Chats
<1>1. request[w] \in Requests
  BY DEF CopiesTypes, CopiesTypeOK, Busy
<1> QED
  BY <1>1, DialogIsChat DEF Chat

\* What the end of an attempt does to the locals of its worker.
LEMMA ReleaseTypes ==
  ASSUME CopiesTypes, NEW w \in Workers, Busy(w), Release(w)
  PROVE  /\ request' \in [Workers -> Requests \cup {None}]
         /\ pc' \in [Workers -> {"load", "iterate", "saveCheckpoint", "addBulk", "saveDone",
                                 "markExported", "addTail", "sayHello"}]
         /\ cursor' \in [Workers -> 0..Size] /\ batch' \in [Workers -> SUBSET (1..Size)]
         /\ \A v \in Workers : Cardinality(batch'[v]) <= BatchSize + 1
         /\ count' \in [Workers -> Nat] /\ skipped' \subseteq Chats \X (1..Size)
<1> USE CopiesAssumption DEF CopiesAssumption
<1>1. Chat(w) \in Chats /\ batch[w] \subseteq 1..Size
  BY ChatIsChat DEF CopiesTypes, CopiesTypeOK
<1>2. Cardinality({}) = 0
  BY FS_EmptySet
<1>3. \A v \in Workers : Cardinality(batch'[v]) <= BatchSize + 1
  BY <1>2 DEF CopiesTypes, CopiesTypeOK, Release
<1>4. skipped' \subseteq Chats \X (1..Size)
  BY <1>1 DEF CopiesTypes, CopiesTypeOK, Release
<1> QED
  BY <1>3, <1>4 DEF CopiesTypes, CopiesTypeOK, Release

LEMMA HandOverTypes ==
  ASSUME CopiesTypes, NEW w \in Workers, Busy(w), HandOver(w),
         pc' \in [Workers -> {"load", "iterate", "saveCheckpoint", "addBulk", "saveDone",
                              "markExported", "addTail", "sayHello"}]
  PROVE  CopiesTypes'
<1> USE CopiesAssumption DEF CopiesAssumption
<1>1. Chat(w) \in Chats
  BY ChatIsChat
<1>2. queued' \in [Chats -> [1..Size -> Nat]]
  <2>1. queued[Chat(w)] \in [1..Size -> Nat]
    BY <1>1 DEF CopiesTypes, CopiesTypeOK
  <2> DEFINE new == [m \in 1..Size |-> IF m \in batch[w] THEN queued[Chat(w)][m] + 1
                                                          ELSE queued[Chat(w)][m]]
  <2>2. new \in [1..Size -> Nat]
    BY <2>1
  <2>3. queued' = [queued EXCEPT ![Chat(w)] = new]
    BY <1>1 DEF HandOver
  <2> HIDE DEF new
  <2> QED
    BY <1>1, <2>2, <2>3 DEF CopiesTypes, CopiesTypeOK
<1>3. Cardinality({}) = 0
  BY FS_EmptySet
<1>4. \A v \in Workers : Cardinality(batch'[v]) <= BatchSize + 1
  BY <1>3 DEF CopiesTypes, CopiesTypeOK, HandOver
<1> QED
  BY <1>2, <1>4 DEF CopiesTypes, CopiesTypeOK, JobsLegal, HandOver, keys, jobs
\* The types hold because a job that may be taken has attempts and stalls left.
THEOREM CopiesTypesHold == CopiesSpec => []CopiesTypes
<1> USE CopiesAssumption DEF CopiesAssumption
<1>1. CopiesInit => CopiesTypes
  <2> SUFFICES ASSUME CopiesInit
               PROVE  CopiesTypes
    OBVIOUS
  <2>1. Cardinality({}) = 0
    BY FS_EmptySet
  <2>2. queued \in [Chats -> [1..Size -> Nat]]
    BY DEF CopiesInit
  <2>3. \A w \in Workers : Cardinality(batch[w]) <= BatchSize + 1
    BY <2>1 DEF CopiesInit
  <2> QED
    BY <2>2, <2>3 DEF CopiesInit, CopiesTypes, CopiesTypeOK, JobsLegal
<1>2. CopiesTypes /\ [CopiesNext]_copiesVars => CopiesTypes'
  <2> SUFFICES ASSUME CopiesTypes, [CopiesNext]_copiesVars
               PROVE  CopiesTypes'
    OBVIOUS
  <2> USE DEF CopiesTypes, CopiesTypeOK, JobsLegal, keys, jobs, locals
  <2>1. ASSUME NEW w \in Workers, NEW r \in Requests, Take(w, r)
        PROVE  CopiesTypes'
    <3>1. shared' \subseteq Chats
      BY <2>1, DialogIsChat DEF Take
    <3> QED
      BY <2>1, <3>1 DEF Take
  <2>2. ASSUME NEW w \in Workers, Load(w)
        PROVE  CopiesTypes'
    BY <2>2, ChatIsChat DEF Load, Goto
  <2>3. ASSUME NEW w \in Workers, Iterate(w)
        PROVE  CopiesTypes'
    <3> DEFINE last == IF cursor[w] + BatchSize + 1 <= Size
                       THEN cursor[w] + BatchSize + 1 ELSE Size
    <3>1. /\ cursor[w] \in 0..Size /\ last \in cursor[w]..Size
          /\ last - cursor[w] <= BatchSize + 1
      OBVIOUS
    <3>2. Cardinality((cursor[w] + 1)..last) <= BatchSize + 1
      <4>1. Cardinality((cursor[w] + 1)..last)
              = IF cursor[w] + 1 > last THEN 0 ELSE last - (cursor[w] + 1) + 1
        <5>1. cursor[w] + 1 \in Int /\ last \in Int
          BY <3>1
        <5> HIDE DEF last
        <5> QED
          BY <5>1, FS_Interval
      <4> HIDE DEF last
      <4> QED
        BY <3>1, <4>1
    <3>3. /\ batch' = [batch EXCEPT ![w] = (cursor[w] + 1)..last]
          /\ cursor' = [cursor EXCEPT ![w] = last]
          /\ count' = [count EXCEPT ![w] = @ + last - cursor[w]]
          /\ pc' \in [Workers -> {"load", "iterate", "saveCheckpoint", "addBulk", "saveDone",
                                  "markExported", "addTail", "sayHello"}]
          /\ UNCHANGED <<keys, exported, queued, jobs, request, skipped, shared, faults>>
      BY <2>3 DEF Iterate, Goto
    <3> HIDE DEF last
    <3>4. count' \in [Workers -> Nat]
      BY <3>1, <3>3
    <3>5. /\ batch' \in [Workers -> SUBSET (1..Size)]
          /\ \A v \in Workers : Cardinality(batch'[v]) <= BatchSize + 1
      BY <3>1, <3>2, <3>3
    <3>6. cursor' \in [Workers -> 0..Size]
      BY <3>1, <3>3
    <3> QED
      BY <3>3, <3>4, <3>5, <3>6
  <2>4. ASSUME NEW w \in Workers, SaveCheckpoint(w)
        PROVE  CopiesTypes'
    BY <2>4, ChatIsChat DEF SaveCheckpoint, Goto
  <2>5. ASSUME NEW w \in Workers, AddBatch(w) \/ AddTail(w)
        PROVE  CopiesTypes'
    BY <2>5, HandOverTypes DEF AddBatch, AddTail, Goto
  <2>6. ASSUME NEW w \in Workers, SaveDone(w)
        PROVE  CopiesTypes'
    BY <2>6, ChatIsChat DEF SaveDone, Goto
  <2>7. ASSUME NEW w \in Workers, MarkExported(w)
        PROVE  CopiesTypes'
    BY <2>7, ChatIsChat DEF MarkExported, Goto
  <2>8. ASSUME NEW w \in Workers, Finish(w)
        PROVE  CopiesTypes'
    BY <2>8, ChatIsChat, ReleaseTypes DEF Finish, Holds
  <2>9. ASSUME NEW w \in Workers, Throw(w)
        PROVE  CopiesTypes'
    <3>1. Busy(w) /\ Release(w) /\ faults' \in 0..MaxFaults /\ request[w] \in Requests
      BY SMTT(30), <2>9, ChatIsChat DEF Throw, Fault
    <3>2. /\ status' \in [Requests -> {"waiting", "active", "completed", "failed"}]
          /\ lock' \in [Requests -> Workers \cup {None}]
          /\ attempts' \in [Requests -> 0..Attempts]
          /\ JobsLegal'
      <4>1. CASE Holds(w)
        <5>1. status[request[w]] = "active" /\ attempts[request[w]] + 1 \in 0..Attempts
          BY SMTT(30), <3>1, <4>1 DEF Holds
        <5>2. /\ attempts' = [attempts EXCEPT ![request[w]] = @ + 1]
              /\ lock' = [lock EXCEPT ![request[w]] = None]
              /\ status' = [status EXCEPT ![request[w]] =
                              IF attempts[request[w]] + 1 < Attempts THEN "waiting" ELSE "failed"]
              /\ stalls' = stalls
          BY <2>9, <4>1 DEF Throw
        <5>3. attempts' \in [Requests -> 0..Attempts]
          BY <3>1, <5>1, <5>2
        <5> QED
          BY <3>1, <5>1, <5>2, <5>3
      <4>2. CASE ~ Holds(w)
        BY <2>9, <4>2 DEF Throw
      <4> QED
        BY <4>1, <4>2
    <3> QED
      BY <2>9, <3>1, <3>2, ReleaseTypes DEF Throw
  <2>10. ASSUME NEW w \in Workers, CrashWorker(w)
         PROVE  CopiesTypes'
    <3>1. Busy(w) /\ Release(w) /\ faults' \in 0..MaxFaults /\ request[w] \in Requests
      BY SMTT(30), <2>10, ChatIsChat DEF CrashWorker, Fault
    <3> QED
      BY <2>10, <3>1, ReleaseTypes DEF CrashWorker
  <2>11. ASSUME NEW r \in Requests, Expire(r)
         PROVE  CopiesTypes'
    <3>1. faults' \in 0..MaxFaults /\ lock' = [lock EXCEPT ![r] = None]
      BY <2>11 DEF Expire, Fault
    <3> QED
      BY <2>11, <3>1 DEF Expire
  <2>12. ASSUME NEW r \in Requests, Stalled(r)
         PROVE  CopiesTypes'
    <3>1. stalls[r] \in 0..MaxStalls /\ lock[r] = None
      BY <2>12 DEF Stalled
    <3>2. /\ stalls' = [stalls EXCEPT ![r] = @ + 1]
          /\ status' = [status EXCEPT ![r] = IF stalls[r] < MaxStalls THEN "waiting" ELSE "failed"]
          /\ UNCHANGED <<keys, exported, queued, lock, attempts, locals, skipped, shared, faults>>
      BY <2>12 DEF Stalled
    <3>3. stalls' \in [Requests -> 0..(MaxStalls + 1)]
      BY <3>1, <3>2
    <3>4. JobsLegal'
      <4> SUFFICES ASSUME NEW q \in Requests
                   PROVE  /\ lock'[q] # None => status'[q] = "active"
                          /\ status'[q] \in {"waiting", "active"}
                               => attempts'[q] < Attempts /\ stalls'[q] <= MaxStalls
        OBVIOUS
      <4>1. CASE q = r
        <5>1. status'[q] \in {"waiting", "active"} => stalls[r] < MaxStalls
          BY <3>2, <4>1
        <5>2. stalls'[q] = stalls[r] + 1 /\ attempts'[q] = attempts[r] /\ lock'[q] = None
          BY <3>1, <3>2, <4>1
        <5>3. attempts[r] < Attempts
          BY <2>12 DEF Stalled
        <5> QED
          BY <3>1, <5>1, <5>2, <5>3
      <4>2. CASE q # r
        BY <3>2, <4>2
      <4> QED
        BY <4>1, <4>2
    <3> QED
      BY <3>2, <3>3, <3>4
  <2>13. CASE UNCHANGED copiesVars
    BY <2>13 DEF copiesVars
  <2> QED
    BY <2>1, <2>2, <2>3, <2>4, <2>5, <2>6, <2>7, <2>8, <2>9, <2>10, <2>11, <2>12, <2>13
    DEF CopiesNext, Attempt
<1> QED
  BY <1>1, <1>2, PTL DEF CopiesSpec

----------------------------------------------------------------------------
(* No message is passed over.                                              *)

\* The message was handed over, was lost with a batch, or is in a batch whose
\* checkpoint is saved and which is about to be handed over.
Covered(c, m) ==
  \/ queued[c][m] > 0
  \/ <<c, m>> \in skipped
  \/ \E v \in Workers : Busy(v) /\ Chat(v) = c /\ pc[v] = "addBulk" /\ m \in batch[v]

Collected == {"saveCheckpoint", "markExported", "addTail"}
AtEnd == {"markExported", "addTail", "sayHello"}

\* No checkpoint passes a message over.
CheckpointsCover ==
  \A c \in Chats : \A m \in 1..Size : m <= checkpoint[c] => Covered(c, m)

\* An attempt passes no message over: what is behind it is covered or in its batch.
WalkCovers(w) ==
  \A m \in 1..Size :
    Busy(w) /\ pc[w] # "load" /\ m <= cursor[w]
      => Covered(Chat(w), m) \/ (pc[w] \in Collected /\ m \in batch[w])

\* The last steps of an attempt are taken at the end of the chat.
EndsAtSize(w) == pc[w] \in AtEnd => cursor[w] = Size

WalksCover == \A w \in Workers : WalkCovers(w) /\ EndsAtSize(w)

CompletedCover ==
  \A r \in Requests : \A m \in 1..Size : status[r] = "completed" => Covered(Dialog(r), m)

CoverInv == CopiesTypes /\ CheckpointsCover /\ WalksCover /\ CompletedCover

\* What a step of one worker leaves alone.
Others(w) ==
  \A v \in Workers : v # w =>
    /\ request'[v] = request[v] /\ pc'[v] = pc[v]
    /\ cursor'[v] = cursor[v] /\ batch'[v] = batch[v]

Stays == \A c \in Chats : \A m \in 1..Size : Covered(c, m) => Covered(c, m)'

\* What was covered stays covered when the batch a worker was to hand over does.
LEMMA CoveredStays ==
  ASSUME NEW w \in Workers, Others(w), skipped \subseteq skipped',
         \A c \in Chats : \A m \in 1..Size : queued[c][m] > 0 => queued'[c][m] > 0,
         \A c \in Chats : \A m \in batch[w] :
           Busy(w) /\ Chat(w) = c /\ pc[w] = "addBulk" => Covered(c, m)'
  PROVE  Stays
<1> SUFFICES ASSUME NEW c \in Chats, NEW m \in 1..Size, Covered(c, m)
             PROVE  Covered(c, m)'
  BY DEF Stays
<1>1. CASE queued[c][m] > 0 \/ <<c, m>> \in skipped
  BY <1>1 DEF Covered
<1>2. ASSUME NEW v \in Workers, Busy(v), Chat(v) = c, pc[v] = "addBulk", m \in batch[v]
      PROVE  Covered(c, m)'
  <2>1. CASE v = w
    BY <1>2, <2>1
  <2>2. CASE v # w
    <3>1. Busy(v)' /\ Chat(v)' = c /\ pc'[v] = "addBulk" /\ m \in batch'[v]
      BY <1>2, <2>2 DEF Others, Busy, Chat
    <3> QED
      BY <3>1 DEF Covered
  <2> QED
    BY <2>1, <2>2
<1> QED
  BY <1>1, <1>2 DEF Covered

\* The step of one worker, from what it does to that worker and to what is shared.
LEMMA CoverOfWorker ==
  ASSUME CoverInv, CopiesTypes', NEW w \in Workers, Others(w), Stays,
         WalkCovers(w)', EndsAtSize(w)',
         \A c \in Chats : \/ checkpoint'[c] = checkpoint[c]
                          \/ \A m \in 1..Size : m <= checkpoint'[c] => Covered(c, m)',
         \A r \in Requests : status'[r] = "completed"
           => \/ status[r] = "completed"
              \/ \A m \in 1..Size : Covered(Dialog(r), m)'
  PROVE  CoverInv'
<1>1. CheckpointsCover'
  BY DEF CoverInv, CheckpointsCover, Stays
<1>2. CompletedCover'
  BY DialogIsChat DEF CoverInv, CompletedCover, Stays
<1>3. ASSUME NEW v \in Workers
      PROVE  WalkCovers(v)' /\ EndsAtSize(v)'
  <2>1. CASE v = w
    BY <2>1
  <2>2. CASE v # w
    <3>1. /\ request'[v] = request[v] /\ pc'[v] = pc[v]
          /\ cursor'[v] = cursor[v] /\ batch'[v] = batch[v]
      BY <2>2 DEF Others
    <3>2. WalkCovers(v) /\ EndsAtSize(v)
      BY DEF CoverInv, WalksCover
    <3>3. ASSUME NEW m \in 1..Size, Busy(v)', pc'[v] # "load", m <= cursor'[v]
          PROVE  Covered(Chat(v), m)' \/ (pc'[v] \in Collected /\ m \in batch'[v])
      <4>1. Busy(v) /\ Chat(v)' = Chat(v)
        BY <3>1, <3>3 DEF Busy, Chat
      <4>2. Covered(Chat(v), m) \/ (pc[v] \in Collected /\ m \in batch[v])
        BY <3>1, <3>2, <3>3, <4>1 DEF WalkCovers
      <4>3. Chat(v) \in Chats
        BY <4>1, ChatIsChat DEF CoverInv
      <4>4. Covered(Chat(v), m) => Covered(Chat(v), m)'
        <5>1. \A c \in Chats : c = Chat(v) => (Covered(c, m) => Covered(Chat(v), m)')
          <6> SUFFICES ASSUME NEW c \in Chats, c = Chat(v), Covered(c, m)
                       PROVE  Covered(Chat(v), m)'
            OBVIOUS
          <6>1. Covered(c, m)' /\ c = Chat(v)'
            BY <4>1 DEF Stays
          <6> QED
            BY <6>1 DEF Covered
        <5> QED
          BY <4>3, <5>1
      <4> QED
        BY <3>1, <4>2, <4>4
    <3> QED
      BY <3>1, <3>2, <3>3 DEF WalkCovers, EndsAtSize
  <2> QED
    BY <2>1, <2>2
<1> QED
  BY <1>1, <1>2, <1>3 DEF CoverInv, WalksCover

\* A hand-over covers what it hands over.
LEMMA HandOverCovers ==
  ASSUME CoverInv, NEW w \in Workers, Busy(w), HandOver(w), Others(w)
  PROVE  /\ Stays
         /\ \A c \in Chats : \A m \in batch[w] : Chat(w) = c => Covered(c, m)'
<1>1. Chat(w) \in Chats /\ batch[w] \subseteq 1..Size /\ queued \in [Chats -> [1..Size -> Nat]]
  BY ChatIsChat DEF CoverInv, CopiesTypes, CopiesTypeOK
<1>2. \A m \in 1..Size :
        queued'[Chat(w)][m] = IF m \in batch[w] THEN queued[Chat(w)][m] + 1 ELSE queued[Chat(w)][m]
  BY <1>1 DEF HandOver
<1>3. \A c \in Chats : c # Chat(w) => queued'[c] = queued[c]
  BY <1>1 DEF HandOver
<1>4. skipped' = skipped
  BY DEF HandOver
<1>5. \A m \in batch[w] : queued'[Chat(w)][m] > 0
  <2> SUFFICES ASSUME NEW m \in batch[w]
               PROVE  queued'[Chat(w)][m] > 0
    OBVIOUS
  <2>1. queued[Chat(w)][m] \in Nat /\ m \in 1..Size
    BY <1>1
  <2> QED
    BY <1>2, <2>1
<1>6. \A c \in Chats : \A m \in batch[w] : Chat(w) = c => Covered(c, m)'
  BY <1>5 DEF Covered
<1>7. \A c \in Chats : \A m \in 1..Size : queued[c][m] > 0 => queued'[c][m] > 0
  <2> SUFFICES ASSUME NEW c \in Chats, NEW m \in 1..Size, queued[c][m] > 0
               PROVE  queued'[c][m] > 0
    OBVIOUS
  <2>1. CASE c = Chat(w)
    BY <1>2, <1>5, <2>1
  <2>2. CASE c # Chat(w)
    BY <1>3, <2>2
  <2> QED
    BY <2>1, <2>2
<1> QED
  BY <1>4, <1>6, <1>7, CoveredStays

\* What a worker lets go of is covered, as lost, if its checkpoint was saved.
LEMMA ReleaseCovers ==
  ASSUME CoverInv, NEW w \in Workers, Busy(w), Release(w), UNCHANGED queued
  PROVE  Others(w) /\ Stays /\ WalkCovers(w)' /\ EndsAtSize(w)'
<1>1. Others(w)
  BY DEF Release, Others, CoverInv, CopiesTypes, CopiesTypeOK
<1>2. pc'[w] = "load"
  BY DEF Release, CoverInv, CopiesTypes, CopiesTypeOK
<1>3. skipped \subseteq skipped'
  BY DEF Release
<1>4. ASSUME NEW c \in Chats, NEW m \in batch[w], pc[w] = "addBulk", Chat(w) = c
      PROVE  Covered(c, m)'
  <2>2. <<c, m>> \in skipped'
    BY <1>4 DEF Release
  <2> QED
    BY <2>2 DEF Covered
<1> QED
  BY <1>1, <1>2, <1>3, <1>4, CoveredStays DEF WalkCovers, EndsAtSize, AtEnd

LEMMA CoverStep ==
  ASSUME CoverInv, CopiesTypes', [CopiesNext]_copiesVars
  PROVE  CoverInv'
<1> USE CopiesAssumption DEF CopiesAssumption
<1> USE DEF keys, jobs, locals
<1>1. CopiesTypes /\ CopiesTypeOK
  BY DEF CoverInv, CopiesTypes
<1>2. ASSUME NEW w \in Workers, NEW r \in Requests, Take(w, r)
      PROVE  CoverInv'
  <2>1. Others(w) /\ pc'[w] = "load"
    BY <1>1, <1>2 DEF Take, Others, CopiesTypeOK
  <2>2. Stays
    BY <1>2, <2>1, CoveredStays DEF Take
  <2>3. WalkCovers(w)' /\ EndsAtSize(w)'
    BY <2>1 DEF WalkCovers, EndsAtSize, AtEnd
  <2>4. \A q \in Requests : status'[q] = "completed" => status[q] = "completed"
    BY <1>1, <1>2 DEF Take, CopiesTypeOK
  <2> QED
    BY <1>2, <2>1, <2>2, <2>3, <2>4, CoverOfWorker DEF Take
<1>3. ASSUME NEW w \in Workers, Load(w)
      PROVE  CoverInv'
  <2>1. /\ Others(w) /\ Busy(w) /\ Busy(w)' /\ Chat(w)' = Chat(w)
        /\ pc'[w] = "iterate" /\ cursor'[w] = checkpoint[Chat(w)]
    BY <1>1, <1>3 DEF Load, Goto, Others, CopiesTypeOK, Busy, Chat
  <2>2. Stays
    BY <1>3, <2>1, CoveredStays DEF Load, Goto
  <2>3. WalkCovers(w)'
    <3> SUFFICES ASSUME NEW m \in 1..Size, m <= cursor'[w]
                 PROVE  Covered(Chat(w), m)'
      BY DEF WalkCovers
    <3> DEFINE c == Chat(w)
    <3>1. c \in Chats
      BY <1>1, <2>1, ChatIsChat
    <3>2. PICK d \in Chats : d = Chat(w)
      BY <3>1
    <3>3. Covered(d, m)
      BY <2>1, <3>2 DEF CoverInv, CheckpointsCover
    <3>4. Covered(d, m)'
      BY <2>2, <3>3 DEF Stays
    <3> QED
      BY <2>1, <3>2, <3>4 DEF Covered
  <2>4. EndsAtSize(w)'
    BY <2>1 DEF EndsAtSize, AtEnd
  <2> QED
    BY <1>3, <2>1, <2>2, <2>3, <2>4, CoverOfWorker DEF Load
<1>4. ASSUME NEW w \in Workers, Iterate(w)
      PROVE  CoverInv'
  <2> DEFINE last == IF cursor[w] + BatchSize + 1 <= Size
                     THEN cursor[w] + BatchSize + 1 ELSE Size
  <2>1. /\ Others(w) /\ Busy(w) /\ Busy(w)' /\ Chat(w)' = Chat(w) /\ pc[w] = "iterate"
        /\ cursor'[w] = last /\ batch'[w] = (cursor[w] + 1)..last
        /\ pc'[w] = IF last = cursor[w] + BatchSize + 1 THEN "saveCheckpoint" ELSE "markExported"
    BY <1>1, <1>4 DEF Iterate, Goto, Others, CopiesTypeOK, Busy, Chat
  <2>2. Stays
    BY <1>4, <2>1, CoveredStays DEF Iterate, Goto
  <2>3. cursor[w] \in 0..Size /\ last \in Nat
    BY <1>1 DEF CopiesTypeOK
  <2>4. EndsAtSize(w)'
    BY <2>1, <2>3 DEF EndsAtSize, AtEnd
  <2>5. WalkCovers(w)'
    <3> SUFFICES ASSUME NEW m \in 1..Size, m <= cursor'[w], m \notin batch'[w]
                 PROVE  Covered(Chat(w), m)'
      BY <2>1 DEF WalkCovers, Collected
    <3>1. m <= cursor[w]
      <4> HIDE DEF last
      <4> QED
        BY <2>1, <2>3
    <3>2. PICK d \in Chats : d = Chat(w)
      BY <1>1, <2>1, ChatIsChat
    <3>3. Covered(d, m)
      BY <2>1, <3>1, <3>2 DEF CoverInv, WalksCover, WalkCovers, Collected
    <3>4. Covered(d, m)'
      BY <2>2, <3>3 DEF Stays
    <3> QED
      BY <2>1, <3>2, <3>4 DEF Covered
  <2> QED
    BY <1>4, <2>1, <2>2, <2>4, <2>5, CoverOfWorker DEF Iterate
<1>5. ASSUME NEW w \in Workers, SaveCheckpoint(w)
      PROVE  CoverInv'
  <2>1. /\ Others(w) /\ Busy(w) /\ Busy(w)' /\ Chat(w)' = Chat(w) /\ pc[w] = "saveCheckpoint"
        /\ pc'[w] = "addBulk" /\ cursor'[w] = cursor[w] /\ batch'[w] = batch[w]
    BY <1>1, <1>5 DEF SaveCheckpoint, Goto, Others, CopiesTypeOK, Busy, Chat
  <2>2. Stays
    BY <1>5, <2>1, CoveredStays DEF SaveCheckpoint, Goto
  <2>3. PICK d \in Chats : d = Chat(w)
    BY <1>1, <2>1, ChatIsChat
  <2>4. ASSUME NEW m \in 1..Size, m <= cursor[w]
        PROVE  Covered(d, m)'
    <3>1. Covered(d, m) \/ m \in batch[w]
      BY <2>1, <2>3, <2>4 DEF CoverInv, WalksCover, WalkCovers
    <3>2. m \in batch[w] => Covered(d, m)'
      BY <2>1, <2>3 DEF Covered
    <3> QED
      BY <2>2, <3>1, <3>2 DEF Stays
  <2>5. WalkCovers(w)'
    <3> SUFFICES ASSUME NEW m \in 1..Size, m <= cursor'[w]
                 PROVE  Covered(Chat(w), m)'
      BY DEF WalkCovers
    <3>1. Covered(d, m)'
      BY <2>1, <2>4
    <3> QED
      BY <2>1, <2>3, <3>1 DEF Covered
  <2>6. EndsAtSize(w)'
    BY <2>1 DEF EndsAtSize, AtEnd
  <2>7. ASSUME NEW c \in Chats
        PROVE  \/ checkpoint'[c] = checkpoint[c]
               \/ \A m \in 1..Size : m <= checkpoint'[c] => Covered(c, m)'
    <3>1. CASE c = d
      <4>1. checkpoint'[d] = cursor[w]
        BY <1>1, <1>5, <2>3 DEF SaveCheckpoint, CopiesTypeOK
      <4> QED
        BY <2>4, <3>1, <4>1
    <3>2. CASE c # d
      BY <1>1, <1>5, <2>3, <3>2 DEF SaveCheckpoint, CopiesTypeOK
    <3> QED
      BY <3>1, <3>2
  <2> QED
    BY <1>5, <2>1, <2>2, <2>5, <2>6, <2>7, CoverOfWorker DEF SaveCheckpoint
<1>6. ASSUME NEW w \in Workers, AddBatch(w) \/ AddTail(w)
      PROVE  CoverInv'
  <2>1. /\ Others(w) /\ Busy(w) /\ Busy(w)' /\ Chat(w)' = Chat(w)
        /\ \/ pc[w] = "addBulk" /\ pc'[w] = "saveDone"
           \/ pc[w] = "addTail" /\ pc'[w] = "sayHello"
        /\ HandOver(w) /\ cursor'[w] = cursor[w]
    BY <1>1, <1>6 DEF AddBatch, AddTail, HandOver, Goto, Others, CopiesTypeOK, Busy, Chat
  <2>2. Stays
    BY <2>1, HandOverCovers
  <2>3. EndsAtSize(w)'
    BY <2>1 DEF EndsAtSize, AtEnd, CoverInv, WalksCover
  <2>4. WalkCovers(w)'
    <3> SUFFICES ASSUME NEW m \in 1..Size, m <= cursor'[w]
                 PROVE  Covered(Chat(w), m)'
      BY DEF WalkCovers
    <3>1. PICK d \in Chats : d = Chat(w)
      BY <1>1, <2>1, ChatIsChat
    <3>2. Covered(d, m) \/ m \in batch[w]
      BY <2>1, <3>1 DEF CoverInv, WalksCover, WalkCovers
    <3>3. Covered(d, m)'
      BY <2>1, <2>2, <3>1, <3>2, HandOverCovers DEF Stays
    <3> QED
      BY <2>1, <3>1, <3>3 DEF Covered
  <2> QED
    BY <2>1, <2>2, <2>3, <2>4, CoverOfWorker DEF HandOver
<1>7. ASSUME NEW w \in Workers, SaveDone(w) \/ MarkExported(w)
      PROVE  CoverInv'
  <2>1. /\ Others(w) /\ Busy(w) /\ Busy(w)' /\ Chat(w)' = Chat(w)
        /\ \/ pc[w] = "saveDone" /\ pc'[w] = "iterate"
           \/ pc[w] = "markExported" /\ pc'[w] = "addTail"
        /\ cursor'[w] = cursor[w] /\ batch'[w] = batch[w]
        /\ UNCHANGED <<checkpoint, queued, jobs, skipped>>
    BY <1>1, <1>7 DEF SaveDone, MarkExported, Goto, Others, CopiesTypeOK, Busy, Chat
  <2>2. Stays
    BY <2>1, CoveredStays
  <2>3. EndsAtSize(w)'
    BY <2>1 DEF EndsAtSize, AtEnd, CoverInv, WalksCover
  <2>4. WalkCovers(w)'
    <3> SUFFICES ASSUME NEW m \in 1..Size, m <= cursor'[w]
                 PROVE  Covered(Chat(w), m)' \/ (pc'[w] \in Collected /\ m \in batch'[w])
      BY DEF WalkCovers
    <3>1. PICK d \in Chats : d = Chat(w)
      BY <1>1, <2>1, ChatIsChat
    <3>2. Covered(d, m) \/ (pc[w] \in Collected /\ m \in batch[w])
      BY <2>1, <3>1 DEF CoverInv, WalksCover, WalkCovers
    <3>3. CASE Covered(d, m)
      <4>1. Covered(d, m)'
        BY <2>2, <3>3 DEF Stays
      <4> QED
        BY <2>1, <3>1, <4>1 DEF Covered
    <3>4. CASE pc[w] \in Collected /\ m \in batch[w]
      BY <2>1, <3>4 DEF Collected
    <3> QED
      BY <3>2, <3>3, <3>4
  <2> QED
    BY <2>1, <2>2, <2>3, <2>4, CoverOfWorker
<1>8. ASSUME NEW w \in Workers, Finish(w)
      PROVE  CoverInv'
  <2>1. /\ Busy(w) /\ pc[w] = "sayHello" /\ Release(w)
        /\ UNCHANGED <<keys, queued>>
    BY <1>8 DEF Finish
  <2>2. Others(w) /\ Stays /\ WalkCovers(w)' /\ EndsAtSize(w)'
    BY <2>1, ReleaseCovers
  <2>3. request[w] \in Requests /\ cursor[w] = Size
    BY <1>1, <2>1, ChatIsChat DEF EndsAtSize, AtEnd, CoverInv, WalksCover
  <2>4. \A m \in 1..Size : Covered(Dialog(request[w]), m)
    <3> SUFFICES ASSUME NEW m \in 1..Size
                 PROVE  Covered(Dialog(request[w]), m)
      OBVIOUS
    <3>1. m <= cursor[w]
      BY <2>3
    <3> QED
      BY <2>1, <3>1 DEF Chat, CoverInv, WalksCover, WalkCovers, Collected
  <2>5. ASSUME NEW r \in Requests, status'[r] = "completed", status[r] # "completed"
        PROVE  \A m \in 1..Size : Covered(Dialog(r), m)'
    <3>1. r = request[w]
      BY <1>1, <1>8, <2>5 DEF Finish, CopiesTypeOK
    <3>2. \A m \in 1..Size : Covered(Dialog(r), m)
      BY <2>4, <3>1
    <3> QED
      BY <2>2, <3>2, DialogIsChat DEF Stays
  <2> QED
    BY <2>1, <2>2, <2>5, CoverOfWorker
<1>9. ASSUME NEW w \in Workers, Throw(w) \/ CrashWorker(w)
      PROVE  CoverInv'
  <2>1. Busy(w) /\ Release(w) /\ UNCHANGED <<keys, queued>>
    BY <1>9 DEF Throw, CrashWorker
  <2>2. Others(w) /\ Stays /\ WalkCovers(w)' /\ EndsAtSize(w)'
    BY <2>1, ReleaseCovers
  <2>3. \A r \in Requests : status'[r] = "completed" => status[r] = "completed"
    BY <1>1, <1>9 DEF Throw, CrashWorker, CopiesTypeOK
  <2> QED
    BY <2>1, <2>2, <2>3, CoverOfWorker
<1>10. ASSUME UNCHANGED <<keys, queued, locals, skipped>>,
              \A r \in Requests : status'[r] = "completed" => status[r] = "completed"
       PROVE  CoverInv'
  <2>1. \A c \in Chats : \A m \in 1..Size : Covered(c, m)' <=> Covered(c, m)
    BY <1>10 DEF Covered, Busy, Chat
  <2>2. CheckpointsCover'
    BY <1>10, <2>1 DEF CoverInv, CheckpointsCover
  <2>3. CompletedCover'
    BY <1>10, <2>1, DialogIsChat DEF CoverInv, CompletedCover
  <2>4. WalksCover'
    BY <1>10 DEF CoverInv, WalksCover, WalkCovers, EndsAtSize, Covered, Busy, Chat
  <2> QED
    BY <2>2, <2>3, <2>4 DEF CoverInv
<1>11. ASSUME NEW r \in Requests, Expire(r) \/ Stalled(r)
       PROVE  CoverInv'
  BY <1>1, <1>10, <1>11 DEF Expire, Stalled, CopiesTypeOK
<1>12. CASE UNCHANGED copiesVars
  BY <1>10, <1>12 DEF copiesVars
<1> QED
  BY <1>2, <1>3, <1>4, <1>5, <1>6, <1>7, <1>8, <1>9, <1>11, <1>12
  DEF CopiesNext, Attempt

LEMMA CoverHolds == CopiesSpec => []CoverInv
<1>1. CopiesInit /\ CopiesTypes => CoverInv
  <2> SUFFICES ASSUME CopiesInit, CopiesTypes
               PROVE  CoverInv
    OBVIOUS
  <2>1. CheckpointsCover
    BY CopiesAssumption DEF CopiesInit, CheckpointsCover, CopiesAssumption
  <2>2. WalksCover
    BY DEF CopiesInit, WalksCover, WalkCovers, EndsAtSize, AtEnd
  <2>3. CompletedCover
    BY DEF CopiesInit, CompletedCover
  <2> QED
    BY <2>1, <2>2, <2>3 DEF CoverInv
<1>2. CoverInv /\ CopiesTypes' /\ [CopiesNext]_copiesVars => CoverInv'
  BY CoverStep
<1> QED
  BY <1>1, <1>2, CopiesTypesHold, PTL DEF CopiesSpec

\* The flag of a completed job tells the truth about the chat that was meant, unless
\* another dialog was walked, for any processes, dialogs, chats, batches and bounds:
\* behind a checkpoint, and behind the cursor of an attempt, a message was handed
\* over, was lost with a batch, or is about to be.
THEOREM FlagTellsTheTruth == CopiesSpec => []FlagExplained
<1>1. CoverInv => FlagExplained
  <2> SUFFICES ASSUME CoverInv, NEW r \in Requests, status[r] = "completed",
                      ~ Walked(Own[r]), Dialog(r) = Own[r]
               PROVE  Handed(Own[r]) \cup Lost(Own[r]) = 1..Size
    BY DEF FlagExplained
  <2>1. ASSUME NEW m \in 1..Size
        PROVE  queued[Own[r]][m] > 0 \/ <<Own[r], m>> \in skipped
    <3>1. Covered(Own[r], m)
      BY DEF CoverInv, CompletedCover
    <3> QED
      BY <3>1 DEF Covered, Walked
  <2> QED
    BY <2>1 DEF Handed, Lost
<1> QED
  BY <1>1, CoverHolds, PTL

----------------------------------------------------------------------------
(* No message of a full batch is handed over twice.                        *)

FullBatch == BatchSize + 1

\* The number is the length of some full batches.
Whole(n) == \E k \in Nat : n = k * FullBatch

\* The part of a chat that full batches cover.
LastFull == Size - (Size % FullBatch)

Alone(w) == Busy(w) /\ Chat(w) \notin shared

AloneInChat ==
  \A v, w \in Workers : Alone(v) /\ Busy(w) /\ Chat(w) = Chat(v) => v = w

CheckpointsWhole == \A c \in Chats : Whole(checkpoint[c])

CursorWhole(w) ==
  pc[w] \in {"iterate", "saveCheckpoint", "addBulk", "saveDone"} => Whole(cursor[w])

\* The tail of a chat is what follows its last full batch.
TailFollows(w) ==
  pc[w] \in {"markExported", "addTail"} => \A m \in batch[w] : m > LastFull

\* An attempt alone in its chat moves with the checkpoint.
MovesWithCheckpoint(w) ==
  Alone(w) =>
    /\ pc[w] \in {"iterate", "addBulk", "saveDone"} => cursor[w] = checkpoint[Chat(w)]
    /\ pc[w] = "saveCheckpoint" =>
         /\ checkpoint[Chat(w)] <= cursor[w]
         /\ \A m \in batch[w] : checkpoint[Chat(w)] < m /\ m <= cursor[w]
    /\ pc[w] = "addBulk" =>
         \A m \in batch[w] :
           m <= checkpoint[Chat(w)] /\ (m <= LastFull => queued[Chat(w)][m] = 0)

WorkerOnce(w) == CursorWhole(w) /\ TailFollows(w) /\ MovesWithCheckpoint(w)

\* In a chat that was never shared, no message of a full batch is handed over
\* twice, and none before the checkpoint passes it.
HandedOnce(c) ==
  \A m \in 1..Size :
    m <= LastFull => queued[c][m] <= 1 /\ (m > checkpoint[c] => queued[c][m] = 0)

OnceInv ==
  /\ CopiesTypes /\ AloneInChat /\ CheckpointsWhole
  /\ \A w \in Workers : WorkerOnce(w)
  /\ \A c \in Chats \ shared : HandedOnce(c)

\* What follows whole batches and fills no batch follows the last full batch.
LEMMA WholeBatches ==
  ASSUME NEW n \in Nat, Whole(n)
  PROVE  /\ Whole(n + FullBatch)
         /\ n + FullBatch > Size => LastFull <= n
<1> USE CopiesAssumption DEF CopiesAssumption
<1>1. FullBatch \in Nat \ {0} /\ Size \in Nat
  BY DEF FullBatch
<1>2. PICK k \in Nat : n = k * FullBatch
  BY DEF Whole
<1>3. n + FullBatch = (k + 1) * FullBatch /\ k + 1 \in Nat
  BY <1>1, <1>2
<1>4. Whole(n + FullBatch)
  BY <1>3 DEF Whole
<1>5. ASSUME n + FullBatch > Size
      PROVE  LastFull <= n
  <2>1. PICK q \in Nat : Size = q * FullBatch + (Size % FullBatch)
    <3>1. Size = FullBatch * (Size \div FullBatch) + (Size % FullBatch) /\ Size \div FullBatch \in Nat
      BY <1>1
    <3>2. FullBatch * (Size \div FullBatch) = (Size \div FullBatch) * FullBatch
      BY <1>1, <3>1
    <3> QED
      BY <3>1, <3>2
  <2>2. Size % FullBatch \in Nat
    BY <1>1
  <2>3. LastFull = q * FullBatch /\ q * FullBatch <= Size
    <3>1. q * FullBatch \in Nat
      BY <1>1
    <3> QED
      BY <1>1, <2>1, <2>2, <3>1 DEF LastFull
  <2>4. q <= k
    <3> SUFFICES ASSUME q > k
                 PROVE  FALSE
      OBVIOUS
    <3>1. PICK d \in Nat : q = k + 1 + d
      <4>1. q - (k + 1) \in Nat /\ q = k + 1 + (q - (k + 1))
        OBVIOUS
      <4> QED
        BY <4>1
    <3>2. q * FullBatch = (k + 1) * FullBatch + d * FullBatch
      BY <1>1, <3>1
    <3>3. d * FullBatch \in Nat /\ (k + 1) * FullBatch \in Nat
      BY <1>1
    <3> QED
      BY <1>1, <1>3, <1>5, <2>3, <3>2, <3>3
  <2>5. PICK d \in Nat : k = q + d
    <3>1. k - q \in Nat /\ k = q + (k - q)
      BY <2>4
    <3> QED
      BY <3>1
  <2>6. k * FullBatch = q * FullBatch + d * FullBatch
    BY <1>1, <2>5
  <2>7. d * FullBatch \in Nat /\ q * FullBatch \in Nat
    BY <1>1
  <2> QED
    BY <1>2, <2>3, <2>6, <2>7
<1> QED
  BY <1>4, <1>5

LEMMA WholeZero == Whole(0)
<1>1. 0 = 0 * FullBatch
  BY CopiesAssumption DEF CopiesAssumption, FullBatch
<1> QED
  BY <1>1 DEF Whole

\* The step of one worker, from what it does to that worker and to its chat.
LEMMA OnceOfWorker ==
  ASSUME OnceInv, CopiesTypes', NEW w \in Workers, Others(w), shared \subseteq shared',
         AloneInChat', WorkerOnce(w)',
         \A c \in Chats : ~ (Busy(w) /\ Chat(w) = c)
           => checkpoint'[c] = checkpoint[c] /\ queued'[c] = queued[c],
         \A c \in Chats : Busy(w) /\ Chat(w) = c => Whole(checkpoint'[c]),
         \A c \in Chats \ shared' : Busy(w) /\ Chat(w) = c => HandedOnce(c)'
  PROVE  OnceInv'
<1>1. CheckpointsWhole'
  BY DEF OnceInv, CheckpointsWhole
<1>2. ASSUME NEW c \in Chats \ shared'
      PROVE  HandedOnce(c)'
  <2>1. CASE Busy(w) /\ Chat(w) = c
    BY <2>1
  <2>2. CASE ~ (Busy(w) /\ Chat(w) = c)
    <3>1. checkpoint'[c] = checkpoint[c] /\ queued'[c] = queued[c] /\ HandedOnce(c)
      BY <2>2 DEF OnceInv
    <3> QED
      BY <3>1 DEF HandedOnce
  <2> QED
    BY <2>1, <2>2
<1>3. ASSUME NEW v \in Workers
      PROVE  WorkerOnce(v)'
  <2>1. CASE v = w
    BY <2>1
  <2>2. CASE v # w
    <3>1. /\ request'[v] = request[v] /\ pc'[v] = pc[v]
          /\ cursor'[v] = cursor[v] /\ batch'[v] = batch[v]
      BY <2>2 DEF Others
    <3>2. WorkerOnce(v)
      BY DEF OnceInv
    <3>3. CursorWhole(v)' /\ TailFollows(v)'
      BY <3>1, <3>2 DEF WorkerOnce, CursorWhole, TailFollows
    <3>4. MovesWithCheckpoint(v)'
      <4> SUFFICES ASSUME Alone(v)'
                   PROVE  MovesWithCheckpoint(v)'
        BY DEF MovesWithCheckpoint
      <4>1. Alone(v) /\ Chat(v)' = Chat(v)
        BY <3>1 DEF Alone, Busy, Chat
      <4>2. PICK c \in Chats : c = Chat(v)
        BY <4>1, ChatIsChat DEF OnceInv, Alone
      <4>3. ~ (Busy(w) /\ Chat(w) = c)
        BY <2>2, <4>1, <4>2 DEF OnceInv, AloneInChat
      <4>4. checkpoint'[c] = checkpoint[c] /\ queued'[c] = queued[c]
        BY <4>3
      <4> QED
        BY <3>1, <3>2, <4>1, <4>2, <4>4 DEF WorkerOnce, MovesWithCheckpoint
    <3> QED
      BY <3>3, <3>4 DEF WorkerOnce
  <2> QED
    BY <2>1, <2>2
<1> QED
  BY <1>1, <1>2, <1>3 DEF OnceInv

\* Who goes on in its chat, or leaves it, does not come upon another.
LEMMA AloneStays ==
  ASSUME OnceInv, NEW w \in Workers, Others(w), shared \subseteq shared',
         Busy(w)' => Busy(w) /\ request'[w] = request[w]
  PROVE  AloneInChat'
<1> SUFFICES ASSUME NEW u \in Workers, NEW v \in Workers,
                    Alone(u)', Busy(v)', Chat(v)' = Chat(u)'
             PROVE  u = v
  BY DEF AloneInChat
<1>1. Busy(v) /\ Chat(v)' = Chat(v)
  BY DEF Others, Busy, Chat
<1>2. Busy(u) /\ Chat(u)' = Chat(u)
  BY DEF Others, Alone, Busy, Chat
<1>3. Alone(u)
  BY <1>2 DEF Alone
<1> QED
  BY <1>1, <1>2, <1>3 DEF OnceInv, AloneInChat

\* A step of a worker that leaves the checkpoints and what was handed over alone.
LEMMA OnceOfLocals ==
  ASSUME OnceInv, CopiesTypes', NEW w \in Workers, Others(w),
         UNCHANGED <<checkpoint, queued, shared>>,
         Busy(w)' => Busy(w) /\ request'[w] = request[w],
         WorkerOnce(w)'
  PROVE  OnceInv'
<1>1. AloneInChat'
  BY AloneStays
<1>2. \A c \in Chats : Whole(checkpoint'[c])
  BY DEF OnceInv, CheckpointsWhole
<1>3. \A c \in Chats \ shared' : HandedOnce(c)'
  BY DEF OnceInv, HandedOnce
<1> QED
  BY <1>1, <1>2, <1>3, OnceOfWorker

LEMMA OnceStep ==
  ASSUME OnceInv, CopiesTypes', [CopiesNext]_copiesVars
  PROVE  OnceInv'
<1> USE CopiesAssumption DEF CopiesAssumption
<1> USE DEF keys, jobs, locals
<1>1. CopiesTypes /\ CopiesTypeOK
  BY DEF OnceInv, CopiesTypes
<1>2. ASSUME NEW w \in Workers, NEW r \in Requests, Take(w, r)
      PROVE  OnceInv'
  <2>1. /\ Others(w) /\ pc'[w] = "load" /\ ~ Busy(w) /\ Chat(w)' = Dialog(r)
        /\ shared \subseteq shared' /\ UNCHANGED <<checkpoint, queued>>
    BY <1>1, <1>2 DEF Take, Others, CopiesTypeOK, Chat
  <2>2. \A v \in Workers : Busy(v) /\ Chat(v) = Dialog(r) => Dialog(r) \in shared'
    BY <1>2 DEF Take
  <2>3. AloneInChat'
    <3> SUFFICES ASSUME NEW u \in Workers, NEW v \in Workers,
                        Alone(u)', Busy(v)', Chat(v)' = Chat(u)', u # v
                 PROVE  FALSE
      BY DEF AloneInChat
    <3>1. \A x \in Workers : x # w => Busy(x)' = Busy(x) /\ Chat(x)' = Chat(x)
      BY <2>1 DEF Others, Busy, Chat
    <3>2. Busy(u)' /\ Chat(u)' \notin shared'
      BY DEF Alone
    <3>3. CASE u = w
      BY <2>1, <2>2, <3>1, <3>2, <3>3
    <3>4. CASE v = w
      BY <2>1, <2>2, <3>1, <3>2, <3>4
    <3>5. CASE u # w /\ v # w
      BY <2>1, <3>1, <3>2, <3>5 DEF Alone, OnceInv, AloneInChat
    <3> QED
      BY <3>3, <3>4, <3>5
  <2>4. WorkerOnce(w)'
    BY <2>1 DEF WorkerOnce, CursorWhole, TailFollows, MovesWithCheckpoint
  <2> QED
    BY <2>1, <2>3, <2>4, OnceOfWorker
<1>3. ASSUME NEW w \in Workers, Load(w)
      PROVE  OnceInv'
  <2>1. /\ Others(w) /\ Busy(w) /\ Chat(w)' = Chat(w) /\ request' = request
        /\ pc'[w] = "iterate" /\ cursor'[w] = checkpoint[Chat(w)]
        /\ UNCHANGED <<checkpoint, queued, shared>>
    BY <1>1, <1>3 DEF Load, Goto, Others, CopiesTypeOK, Busy, Chat
  <2>2. Chat(w) \in Chats
    BY <1>1, <2>1, ChatIsChat
  <2>3. WorkerOnce(w)'
    BY <2>1, <2>2
    DEF OnceInv, CheckpointsWhole, WorkerOnce, CursorWhole, TailFollows, MovesWithCheckpoint
  <2> QED
    BY <2>1, <2>3, OnceOfLocals
<1>4. ASSUME NEW w \in Workers, Iterate(w)
      PROVE  OnceInv'
  <2> DEFINE last == IF cursor[w] + BatchSize + 1 <= Size
                     THEN cursor[w] + BatchSize + 1 ELSE Size
  <2>1. /\ Others(w) /\ Busy(w) /\ Chat(w)' = Chat(w) /\ request' = request /\ pc[w] = "iterate"
        /\ cursor'[w] = last /\ batch'[w] = (cursor[w] + 1)..last
        /\ pc'[w] = IF last = cursor[w] + BatchSize + 1 THEN "saveCheckpoint" ELSE "markExported"
        /\ UNCHANGED <<checkpoint, queued, shared>>
    BY <1>1, <1>4 DEF Iterate, Goto, Others, CopiesTypeOK, Busy, Chat
  <2>2. cursor[w] \in 0..Size /\ last \in Nat
    BY <1>1 DEF CopiesTypeOK
  <2>3. Whole(cursor[w]) /\ (Alone(w) => cursor[w] = checkpoint[Chat(w)])
    BY <2>1 DEF OnceInv, WorkerOnce, CursorWhole, MovesWithCheckpoint
  <2>4. /\ Whole(cursor[w] + BatchSize + 1)
        /\ cursor[w] + BatchSize + 1 > Size => LastFull <= cursor[w]
    <3>1. cursor[w] + FullBatch = cursor[w] + BatchSize + 1
      BY <2>2 DEF FullBatch
    <3> QED
      BY <2>2, <2>3, <3>1, WholeBatches
  <2>5. CursorWhole(w)'
    BY <2>1, <2>4 DEF CursorWhole
  <2>6. TailFollows(w)'
    <3> SUFFICES ASSUME pc'[w] \in {"markExported", "addTail"}, NEW m \in batch'[w]
                 PROVE  m > LastFull
      BY DEF TailFollows
    <3>1. cursor[w] + BatchSize + 1 > Size
      BY <2>1, <2>2
    <3>2. m \in Nat /\ m > cursor[w]
      <4> HIDE DEF last
      <4> QED
        BY <2>1, <2>2
    <3>3. LastFull \in Int
      BY DEF LastFull, FullBatch
    <3> QED
      BY <2>2, <2>4, <3>1, <3>2, <3>3
  <2>7. MovesWithCheckpoint(w)'
    <3> SUFFICES ASSUME Alone(w)', pc'[w] = "saveCheckpoint"
                 PROVE  /\ checkpoint[Chat(w)] <= cursor'[w]
                        /\ \A m \in batch'[w] : checkpoint[Chat(w)] < m /\ m <= cursor'[w]
      BY <2>1 DEF MovesWithCheckpoint
    <3>1. cursor[w] = checkpoint[Chat(w)]
      BY <2>1, <2>3 DEF Alone, Busy
    <3>2. cursor[w] <= last
      BY <2>2
    <3> HIDE DEF last
    <3> QED
      BY <2>1, <2>2, <3>1, <3>2
  <2>8. WorkerOnce(w)'
    BY <2>5, <2>6, <2>7 DEF WorkerOnce
  <2> QED
    BY <2>1, <2>8, OnceOfLocals
<1>5. ASSUME NEW w \in Workers, SaveCheckpoint(w)
      PROVE  OnceInv'
  <2>1. /\ Others(w) /\ Busy(w) /\ Chat(w)' = Chat(w) /\ request' = request
        /\ pc[w] = "saveCheckpoint" /\ pc'[w] = "addBulk"
        /\ cursor'[w] = cursor[w] /\ batch'[w] = batch[w] /\ UNCHANGED <<queued, shared>>
        /\ checkpoint' = [checkpoint EXCEPT ![Chat(w)] = cursor[w]]
    BY <1>1, <1>5 DEF SaveCheckpoint, Goto, Others, CopiesTypeOK, Busy, Chat
  <2>2. PICK d \in Chats : d = Chat(w)
    BY <1>1, <2>1, ChatIsChat
  <2>3. checkpoint'[d] = cursor[w] /\ \A c \in Chats : c # d => checkpoint'[c] = checkpoint[c]
    BY <1>1, <2>1, <2>2 DEF CopiesTypeOK
  <2>4. WorkerOnce(w)
    BY DEF OnceInv
  <2>5. Whole(cursor[w])
    BY <2>1, <2>4 DEF WorkerOnce, CursorWhole
  <2>6. ASSUME d \notin shared
        PROVE  /\ checkpoint[d] <= cursor[w]
               /\ \A m \in batch[w] : checkpoint[d] < m /\ m <= cursor[w]
               /\ HandedOnce(d)
    BY <2>1, <2>2, <2>4, <2>6 DEF WorkerOnce, MovesWithCheckpoint, Alone, OnceInv
  <2>7. /\ cursor[w] \in Nat /\ checkpoint[d] \in Nat /\ batch[w] \subseteq 1..Size
        /\ \A m \in 1..Size : queued[d][m] \in Nat
    BY <1>1 DEF CopiesTypeOK
  <2>8. MovesWithCheckpoint(w)'
    <3> SUFFICES ASSUME d \notin shared
                 PROVE  \A m \in batch[w] : m <= cursor[w] /\ (m <= LastFull => queued[d][m] = 0)
      BY <2>1, <2>2, <2>3 DEF MovesWithCheckpoint, Alone
    <3>1. \A m \in batch[w] : m \in 1..Size /\ m > checkpoint[d] /\ m <= cursor[w]
      BY <2>6, <2>7
    <3> QED
      BY <2>6, <3>1 DEF HandedOnce
  <2>9. WorkerOnce(w)'
    BY <2>1, <2>5, <2>8 DEF WorkerOnce, CursorWhole, TailFollows
  <2>10. d \notin shared => HandedOnce(d)'
    <3> SUFFICES ASSUME d \notin shared, NEW m \in 1..Size, m <= LastFull
                 PROVE  queued[d][m] <= 1 /\ (m > cursor[w] => queued[d][m] = 0)
      BY <2>1, <2>3 DEF HandedOnce
    <3>1. m > cursor[w] => m > checkpoint[d]
      BY <2>6, <2>7
    <3> QED
      BY <2>6, <3>1 DEF HandedOnce
  <2>11. AloneInChat'
    BY <2>1, AloneStays DEF Busy
  <2>12. \A c \in Chats : ~ (Busy(w) /\ Chat(w) = c)
           => checkpoint'[c] = checkpoint[c] /\ queued'[c] = queued[c]
    BY <2>1, <2>2, <2>3
  <2>13. \A c \in Chats : Busy(w) /\ Chat(w) = c => Whole(checkpoint'[c])
    BY <2>2, <2>3, <2>5
  <2>14. \A c \in Chats \ shared' : Busy(w) /\ Chat(w) = c => HandedOnce(c)'
    <3> SUFFICES ASSUME NEW c \in Chats \ shared', Chat(w) = c
                 PROVE  HandedOnce(c)'
      OBVIOUS
    <3>1. c = d /\ d \notin shared
      BY <2>1, <2>2
    <3> QED
      BY <2>10, <3>1
  <2> QED
    BY <2>1, <2>9, <2>11, <2>12, <2>13, <2>14, OnceOfWorker
<1>6. ASSUME NEW w \in Workers, AddBatch(w) \/ AddTail(w)
      PROVE  OnceInv'
  <2>1. /\ Others(w) /\ Busy(w) /\ Chat(w)' = Chat(w) /\ request' = request
        /\ \/ pc[w] = "addBulk" /\ pc'[w] = "saveDone"
           \/ pc[w] = "addTail" /\ pc'[w] = "sayHello"
        /\ HandOver(w) /\ cursor'[w] = cursor[w] /\ UNCHANGED <<checkpoint, shared>>
    BY <1>1, <1>6 DEF AddBatch, AddTail, HandOver, Goto, Others, CopiesTypeOK, Busy, Chat
  <2>2. PICK d \in Chats : d = Chat(w)
    BY <1>1, <2>1, ChatIsChat
  <2>3. /\ \A m \in 1..Size :
             queued'[d][m] = IF m \in batch[w] THEN queued[d][m] + 1 ELSE queued[d][m]
        /\ \A c \in Chats : c # d => queued'[c] = queued[c]
    BY <1>1, <2>1, <2>2 DEF HandOver, CopiesTypeOK
  <2>4. WorkerOnce(w)
    BY DEF OnceInv
  <2>5. WorkerOnce(w)'
    <3>1. CursorWhole(w)' /\ TailFollows(w)'
      BY <2>1, <2>4 DEF WorkerOnce, CursorWhole, TailFollows
    <3>2. MovesWithCheckpoint(w)'
      BY <2>1, <2>4 DEF WorkerOnce, MovesWithCheckpoint, Alone, Busy
    <3> QED
      BY <3>1, <3>2 DEF WorkerOnce
  <2>6. d \notin shared => HandedOnce(d)'
    <3> SUFFICES ASSUME d \notin shared, NEW m \in 1..Size, m <= LastFull
                 PROVE  queued'[d][m] <= 1 /\ (m > checkpoint[d] => queued'[d][m] = 0)
      BY <2>1 DEF HandedOnce
    <3>1. queued[d][m] <= 1 /\ (m > checkpoint[d] => queued[d][m] = 0)
      BY DEF OnceInv, HandedOnce
    <3>2. CASE m \notin batch[w]
      BY <2>3, <3>1, <3>2
    <3>3. CASE m \in batch[w]
      <4>1. pc[w] = "addBulk"
        <5>1. LastFull \in Int
          BY DEF LastFull, FullBatch
        <5> QED
          BY <2>1, <2>4, <3>3, <5>1 DEF WorkerOnce, TailFollows
      <4>2. m <= checkpoint[d] /\ queued[d][m] = 0
        BY <2>1, <2>2, <2>4, <3>3, <4>1 DEF WorkerOnce, MovesWithCheckpoint, Alone
      <4>3. queued'[d][m] = 1
        BY <2>3, <3>3, <4>2
      <4>4. checkpoint[d] \in Nat
        BY <1>1 DEF CopiesTypeOK
      <4> QED
        BY <4>2, <4>3, <4>4
    <3> QED
      BY <3>2, <3>3
  <2>7. AloneInChat'
    BY <2>1, AloneStays DEF Busy
  <2>8. \A c \in Chats : ~ (Busy(w) /\ Chat(w) = c)
           => checkpoint'[c] = checkpoint[c] /\ queued'[c] = queued[c]
    BY <2>1, <2>2, <2>3
  <2>9. \A c \in Chats : Busy(w) /\ Chat(w) = c => Whole(checkpoint'[c])
    BY <2>1 DEF OnceInv, CheckpointsWhole
  <2>10. \A c \in Chats \ shared' : Busy(w) /\ Chat(w) = c => HandedOnce(c)'
    <3> SUFFICES ASSUME NEW c \in Chats \ shared', Chat(w) = c
                 PROVE  HandedOnce(c)'
      OBVIOUS
    <3>1. c = d /\ d \notin shared
      BY <2>1, <2>2
    <3> QED
      BY <2>6, <3>1
  <2> QED
    BY <2>1, <2>5, <2>7, <2>8, <2>9, <2>10, OnceOfWorker
<1>7. ASSUME NEW w \in Workers, SaveDone(w) \/ MarkExported(w)
      PROVE  OnceInv'
  <2>1. /\ Others(w) /\ Busy(w) /\ Chat(w)' = Chat(w) /\ request' = request
        /\ \/ pc[w] = "saveDone" /\ pc'[w] = "iterate"
           \/ pc[w] = "markExported" /\ pc'[w] = "addTail"
        /\ cursor'[w] = cursor[w] /\ batch'[w] = batch[w]
        /\ UNCHANGED <<checkpoint, queued, shared>>
    BY <1>1, <1>7 DEF SaveDone, MarkExported, Goto, Others, CopiesTypeOK, Busy, Chat
  <2>2. WorkerOnce(w)
    BY DEF OnceInv
  <2>3. CursorWhole(w)' /\ TailFollows(w)'
    BY <2>1, <2>2 DEF WorkerOnce, CursorWhole, TailFollows
  <2>4. MovesWithCheckpoint(w)'
    BY <2>1, <2>2 DEF WorkerOnce, MovesWithCheckpoint, Alone, Busy
  <2> QED
    BY <2>1, <2>3, <2>4, OnceOfLocals DEF WorkerOnce
<1>8. ASSUME NEW w \in Workers, Finish(w) \/ Throw(w) \/ CrashWorker(w)
      PROVE  OnceInv'
  <2>1. Release(w) /\ UNCHANGED <<checkpoint, queued, shared>>
    BY <1>8 DEF Finish, Throw, CrashWorker
  <2>2. Others(w) /\ pc'[w] = "load" /\ ~ Busy(w)'
    BY <1>1, <2>1 DEF Release, Others, CopiesTypeOK, Busy
  <2>3. WorkerOnce(w)'
    BY <2>2 DEF WorkerOnce, CursorWhole, TailFollows, MovesWithCheckpoint
  <2> QED
    BY <2>1, <2>2, <2>3, OnceOfLocals
<1>9. ASSUME UNCHANGED <<checkpoint, queued, locals, shared>>
      PROVE  OnceInv'
  <2>1. AloneInChat' /\ CheckpointsWhole'
    BY <1>9 DEF OnceInv, AloneInChat, CheckpointsWhole, Alone, Busy, Chat
  <2>2. \A w \in Workers : WorkerOnce(w)'
    BY <1>9
    DEF OnceInv, WorkerOnce, CursorWhole, TailFollows, MovesWithCheckpoint, Alone, Busy, Chat
  <2>3. \A c \in Chats \ shared' : HandedOnce(c)'
    BY <1>9 DEF OnceInv, HandedOnce
  <2> QED
    BY <2>1, <2>2, <2>3 DEF OnceInv
<1>10. ASSUME NEW r \in Requests, Expire(r) \/ Stalled(r)
       PROVE  OnceInv'
  BY <1>9, <1>10 DEF Expire, Stalled
<1>11. CASE UNCHANGED copiesVars
  BY <1>9, <1>11 DEF copiesVars
<1> QED
  BY <1>2, <1>3, <1>4, <1>5, <1>6, <1>7, <1>8, <1>10, <1>11
  DEF CopiesNext, Attempt

\* A message is handed over twice only in a chat that two attempts walked at the same
\* time, or after the last full batch, for any processes, dialogs, chats and batches:
\* the checkpoint of a chat moves by whole batches, before each is handed over, and
\* whoever walks a chat alone goes from checkpoint to checkpoint.
THEOREM HandedTwiceExplained == CopiesSpec => []TwiceExplained
<1>1. CopiesInit /\ CopiesTypes => OnceInv
  <2> SUFFICES ASSUME CopiesInit, CopiesTypes
               PROVE  OnceInv
    OBVIOUS
  <2>1. CheckpointsWhole
    BY WholeZero DEF CopiesInit, CheckpointsWhole
  <2>2. AloneInChat /\ \A w \in Workers : WorkerOnce(w)
    BY DEF CopiesInit, AloneInChat, WorkerOnce, CursorWhole, TailFollows,
           MovesWithCheckpoint, Alone, Busy
  <2>3. \A c \in Chats : HandedOnce(c)
    BY DEF CopiesInit, HandedOnce
  <2> QED
    BY <2>1, <2>2, <2>3 DEF OnceInv
<1>2. OnceInv /\ CopiesTypes' /\ [CopiesNext]_copiesVars => OnceInv'
  BY OnceStep
<1>3. OnceInv => TwiceExplained
  <2> SUFFICES ASSUME OnceInv, NEW c \in Chats \ shared, NEW m \in 1..Size, m <= LastFull
               PROVE  ~ (queued[c][m] > 1)
    <3>1. LastFull \in Int
      BY CopiesAssumption DEF LastFull, FullBatch, CopiesAssumption
    <3> QED
      BY <3>1 DEF TwiceExplained, LastFull, FullBatch
  <2>1. queued[c][m] \in Nat /\ queued[c][m] <= 1
    BY DEF OnceInv, HandedOnce, CopiesTypes, CopiesTypeOK
  <2> QED
    BY <2>1
<1> QED
  BY <1>1, <1>2, <1>3, CopiesTypesHold, PTL DEF CopiesSpec
----------------------------------------------------------------------------
(* The import buffers.                                                     *)

USE ThresholdAssumption, BoundsAssumption
    DEF ThresholdAssumption, BoundsAssumption

(* Items of sequences and of batches.                                      *)

LEMMA ItemsOfConcat ==
  ASSUME NEW s \in Seq(Nat), NEW t \in Seq(Nat)
  PROVE  s \o t \in Seq(Nat) /\ ItemsOf(s \o t) = ItemsOf(s) \cup ItemsOf(t)
<1>1. ItemsOf(s \o t) \subseteq ItemsOf(s) \cup ItemsOf(t)
  BY DEF ItemsOf
<1>2. ItemsOf(s) \subseteq ItemsOf(s \o t)
  BY DEF ItemsOf
<1>3. ItemsOf(t) \subseteq ItemsOf(s \o t)
  <2> SUFFICES ASSUME NEW i \in DOMAIN t
               PROVE  t[i] \in ItemsOf(s \o t)
    BY DEF ItemsOf
  <2>1. Len(s) + i \in DOMAIN (s \o t) /\ (s \o t)[Len(s) + i] = t[i]
    OBVIOUS
  <2> QED
    BY <2>1 DEF ItemsOf
<1> QED
  BY <1>1, <1>2, <1>3

LEMMA ItemsOfAppend ==
  ASSUME NEW s \in Seq(Nat), NEW n \in Nat
  PROVE  Append(s, n) \in Seq(Nat) /\ ItemsOf(Append(s, n)) = ItemsOf(s) \cup {n}
<1>1. ItemsOf(Append(s, n)) \subseteq ItemsOf(s) \cup {n}
  BY DEF ItemsOf
<1>2. ItemsOf(s) \subseteq ItemsOf(Append(s, n))
  BY DEF ItemsOf
<1>3. n \in ItemsOf(Append(s, n))
  <2>1. Len(s) + 1 \in DOMAIN Append(s, n) /\ Append(s, n)[Len(s) + 1] = n
    OBVIOUS
  <2> QED
    BY <2>1 DEF ItemsOf
<1> QED
  BY <1>1, <1>2, <1>3

LEMMA ItemsOfEmpty == ItemsOf(<< >>) = {}
  BY DEF ItemsOf

----------------------------------------------------------------------------
(* Types.                                                                  *)

All == updates \o overflowQueue

\* What a finally block does to the buffers, in one of two ways.
LEMMA FinallyCases ==
  ASSUME TypeOK, NEW F, Finally(F)
  PROVE  /\ overflowQueue' = <<>>
         /\ All \in Seq(Nat)
         /\ ItemsOf(All) = ItemsOf(updates) \cup ItemsOf(overflowQueue)
         /\ \/ /\ isFlushing' = TRUE
               /\ updates' = <<>>
               /\ inFlight' = F \cup {All}
            \/ /\ isFlushing' = FALSE
               /\ updates' = All
               /\ inFlight' = F
<1>1. All \in Seq(Nat)
        /\ ItemsOf(All) = ItemsOf(updates) \cup ItemsOf(overflowQueue)
  BY ItemsOfConcat DEF TypeOK, All
<1> QED
  BY <1>1 DEF Finally, StartSend, All

LEMMA FinallyType ==
  ASSUME TypeOK, NEW F \in SUBSET Seq(Nat), Finally(F)
  PROVE  /\ isFlushing' \in BOOLEAN
         /\ updates' \in Seq(Nat)
         /\ overflowQueue' \in Seq(Nat)
         /\ inFlight' \subseteq Seq(Nat)
<1>1. isFlushing' \in BOOLEAN
  BY FinallyCases, Zenon
<1>2. updates' \in Seq(Nat) /\ overflowQueue' \in Seq(Nat)
  <2>1. updates' = <<>> \/ updates' = All
    BY FinallyCases, Zenon
  <2>2. All \in Seq(Nat) /\ overflowQueue' = <<>>
    BY FinallyCases, Zenon
  <2>3. <<>> \in Seq(Nat)
    OBVIOUS
  <2> QED
    BY <2>1, <2>2, <2>3, Zenon
<1>3. inFlight' \subseteq Seq(Nat)
  BY FinallyCases
<1> QED
  BY <1>1, <1>2, <1>3

LEMMA InMemoryType ==
  ASSUME TypeOK
  PROVE  InMemory \subseteq Nat /\ InFlight \subseteq InMemory
<1>1. \A s \in Seq(Nat) : ItemsOf(s) \subseteq Nat
  BY DEF ItemsOf
<1>2. InFlight \subseteq Nat
  BY <1>1 DEF InFlight, TypeOK
<1> QED
  BY <1>1, <1>2 DEF TypeOK, InMemory

\* The types are inductive without help.
THEOREM TypeCorrect == Spec => []TypeOK
<1>1. Init => TypeOK
  <2> SUFFICES ASSUME Init
               PROVE  TypeOK
    OBVIOUS
  <2>1. isFlushing \in BOOLEAN
    BY Zenon DEF Init, EmptyBuffers
  <2> QED
    BY <2>1 DEF Init, TypeOK, EmptyBuffers
<1>2. TypeOK /\ [Next]_vars => TypeOK'
  <2> SUFFICES ASSUME TypeOK, [Next]_vars
               PROVE  TypeOK'
    OBVIOUS
  <2>1. ASSUME NEW j \in Jobs, TakeJob(j)
        PROVE  TypeOK'
    <3>1. updates' \in Seq(Nat) /\ overflowQueue' \in Seq(Nat)
      BY <2>1, ItemsOfAppend DEF TakeJob, AddItem, TypeOK
    <3> QED
      BY <2>1, <3>1 DEF TakeJob, AddItem, TypeOK
  <2>2. ASSUME NEW j \in Jobs, AckJob(j)
        PROVE  TypeOK'
    BY <2>2 DEF AckJob, TypeOK, bufferVars
  <2>3. CASE Flush
    <3>1. CASE updates # <<>>
      BY <2>3, <3>1 DEF Flush, FlushItems, StartSend, TypeOK
    <3>2. CASE updates = <<>>
      <4>1. Finally(inFlight)
        BY <2>3, <3>2 DEF Flush, FlushItems
      <4> QED
        BY <2>3, <4>1, FinallyType DEF Flush, TypeOK
    <3> QED
      BY <3>1, <3>2
  <2>4. ASSUME NEW b \in inFlight, SendSucceeds(b)
        PROVE  TypeOK'
    <3>1. Finally(inFlight \ {b})
      BY <2>4 DEF SendSucceeds
    <3>2. ItemsOf(b) \subseteq Nat
      BY DEF TypeOK, ItemsOf
    <3> QED
      BY <2>4, <3>1, <3>2, FinallyType DEF SendSucceeds, TypeOK
  <2>5. ASSUME NEW b \in inFlight, SendFails(b)
        PROVE  TypeOK'
    <3>1. Finally(inFlight \ {b})
      BY <2>5 DEF SendFails
    <3>2. ItemsOf(b) \subseteq Nat
      BY DEF TypeOK, ItemsOf
    <3> QED
      BY <2>5, <3>1, <3>2, FinallyType DEF SendFails, TypeOK
  <2>6. CASE Crash
    <3>1. delivered' \subseteq Nat /\ lost' \subseteq Nat
      BY <2>6, InMemoryType DEF Crash, TypeOK
    <3>2. isFlushing' \in BOOLEAN
      BY <2>6, Zenon DEF Crash
    <3>3. /\ updates' \in Seq(Nat) /\ overflowQueue' \in Seq(Nat)
          /\ inFlight' \subseteq Seq(Nat)
      BY <2>6 DEF Crash
    <3>4. /\ waiting' \subseteq Jobs /\ active' \subseteq Jobs
          /\ accepted' \in Seq(Jobs) /\ dropped' \subseteq Nat
          /\ crashes' \in 0..MaxCrashes
      BY <2>6 DEF Crash, TypeOK
    <3> QED
      BY <3>1, <3>2, <3>3, <3>4 DEF TypeOK
  <2>7. CASE UNCHANGED vars
    BY <2>7 DEF vars, bufferVars, TypeOK
  <2> QED
    BY <2>1, <2>2, <2>3, <2>4, <2>5, <2>6, <2>7
       DEF Next, EveryTenSeconds, EveryMinute
<1> QED
  BY <1>1, <1>2, PTL DEF Spec

----------------------------------------------------------------------------
(* The flag.                                                               *)

\* A set flag has a send behind it that will clear it, and a clear flag leaves
\* nothing in the overflow.
THEOREM FlagIsHonest == Spec => []FlagDiscipline
<1>1. Init => FlagDiscipline
  BY DEF Init, FlagDiscipline, EmptyBuffers
<1>2. TypeOK /\ FlagDiscipline /\ [Next]_vars => FlagDiscipline'
  <2> SUFFICES ASSUME TypeOK, FlagDiscipline, [Next]_vars
               PROVE  FlagDiscipline'
    OBVIOUS
  <2>1. ASSUME NEW F, Finally(F)
        PROVE  FlagDiscipline'
    BY <2>1, FinallyCases DEF FlagDiscipline
  <2>2. ASSUME NEW j \in Jobs, TakeJob(j)
        PROVE  FlagDiscipline'
    BY <2>2 DEF TakeJob, AddItem, FlagDiscipline, TypeOK
  <2>3. CASE Flush
    <3>1. CASE updates # <<>>
      BY <2>3, <3>1 DEF Flush, FlushItems, StartSend, FlagDiscipline
    <3>2. CASE updates = <<>>
      BY <2>1, <2>3, <3>2 DEF Flush, FlushItems
    <3> QED
      BY <3>1, <3>2
  <2>4. CASE \E b \in inFlight : SendSucceeds(b) \/ SendFails(b)
    BY <2>1, <2>4 DEF SendSucceeds, SendFails
  <2>5. CASE Crash
    BY <2>5 DEF Crash, FlagDiscipline
  <2>6. ASSUME UNCHANGED <<bufferVars, inFlight>>
        PROVE  FlagDiscipline'
    BY <2>6 DEF FlagDiscipline, bufferVars
  <2> QED
    BY <2>2, <2>3, <2>4, <2>5, <2>6
       DEF Next, EveryTenSeconds, EveryMinute, AckJob, vars
<1> QED
  BY <1>1, <1>2, TypeCorrect, PTL DEF Spec

----------------------------------------------------------------------------
(* Nothing is lost or kept twice: the sets that make up the memory.        *)

ItemsIn(F) == UNION {ItemsOf(b) : b \in F}
Buffered == ItemsOf(updates) \cup ItemsOf(overflowQueue)

\* The part of Conservation that is about the memory.
MemoryDisjoint ==
  /\ ItemsOf(updates) \cap ItemsOf(overflowQueue) = {}
  /\ InFlight \cap Buffered = {}
  /\ \A b, c \in inFlight : b # c => ItemsOf(b) \cap ItemsOf(c) = {}

\* The part that is about where an item is.
Accounted ==
  /\ 1..Len(accepted) = InMemory \cup delivered \cup dropped \cup lost
  /\ InMemory \cap (delivered \cup dropped \cup lost) = {}
  /\ delivered \cap (dropped \cup lost) = {}
  /\ dropped \cap lost = {}

LEMMA ConservationParts == Conservation <=> MemoryDisjoint /\ Accounted
  BY DEF Conservation, MemoryDisjoint, Accounted, Buffered

LEMMA ItemsInMore ==
  ASSUME NEW F, NEW b
  PROVE  ItemsIn(F \cup {b}) = ItemsIn(F) \cup ItemsOf(b)
  BY DEF ItemsIn

\* A finally block moves items without losing or copying any.
LEMMA FinallyMoves ==
  ASSUME TypeOK, MemoryDisjoint, NEW F \in SUBSET inFlight, Finally(F)
  PROVE  MemoryDisjoint' /\ InMemory' = Buffered \cup ItemsIn(F)
<1>1. ItemsOf(overflowQueue') = {} /\ ItemsOf(All) = Buffered
  BY FinallyCases, ItemsOfEmpty DEF Buffered
<1>2. /\ InFlight' = ItemsIn(inFlight')
      /\ ItemsIn(F) \cap Buffered = {}
      /\ \A b \in F : ItemsOf(b) \subseteq ItemsIn(F)
  BY DEF InFlight, ItemsIn, MemoryDisjoint
<1>3. CASE updates' = <<>> /\ inFlight' = F \cup {All}
  <2>1. ItemsOf(updates') = {}
    BY <1>3, ItemsOfEmpty
  <2>2. InFlight' = ItemsIn(F) \cup Buffered
    BY <1>1, <1>2, <1>3, ItemsInMore
  <2>3. \A b, c \in inFlight' : b # c => ItemsOf(b) \cap ItemsOf(c) = {}
    BY <1>1, <1>2, <1>3 DEF MemoryDisjoint
  <2>4. InMemory' = Buffered \cup ItemsIn(F)
    BY <1>1, <2>1, <2>2 DEF InMemory
  <2>5. MemoryDisjoint'
    BY <1>1, <2>1, <2>3 DEF MemoryDisjoint, Buffered
  <2> QED
    BY <2>4, <2>5
<1>4. CASE updates' = All /\ inFlight' = F
  <2>1. ItemsOf(updates') = Buffered /\ InFlight' = ItemsIn(F)
    BY <1>1, <1>2, <1>4
  <2>2. \A b, c \in inFlight' : b # c => ItemsOf(b) \cap ItemsOf(c) = {}
    BY <1>4 DEF MemoryDisjoint
  <2>3. InMemory' = Buffered \cup ItemsIn(F)
    BY <1>1, <2>1 DEF InMemory
  <2>4. Buffered' = Buffered
    BY <1>1, <2>1 DEF Buffered
  <2>5. MemoryDisjoint'
    BY <1>1, <1>2, <2>1, <2>2, <2>4 DEF MemoryDisjoint
  <2> QED
    BY <2>3, <2>5
<1> QED
  BY <1>3, <1>4, FinallyCases

\* So settling one batch removes exactly its items from memory.
LEMMA SettleMoves ==
  ASSUME TypeOK, MemoryDisjoint, NEW b \in inFlight, Finally(inFlight \ {b})
  PROVE  /\ MemoryDisjoint'
         /\ ItemsOf(b) \subseteq InMemory
         /\ InMemory' = InMemory \ ItemsOf(b)
<1> DEFINE F == inFlight \ {b}
<1>1. MemoryDisjoint' /\ InMemory' = Buffered \cup ItemsIn(F)
  BY FinallyMoves
<1>2. InFlight = ItemsIn(F) \cup ItemsOf(b)
  BY DEF InFlight, ItemsIn
<1>3. ItemsIn(F) \cap ItemsOf(b) = {}
  BY DEF ItemsIn, MemoryDisjoint
<1>4. InMemory = Buffered \cup InFlight
  BY DEF InMemory, Buffered
<1> QED
  BY <1>1, <1>2, <1>3, <1>4 DEF MemoryDisjoint

LEMMA FlushMoves ==
  ASSUME TypeOK, MemoryDisjoint, Flush
  PROVE  MemoryDisjoint' /\ InMemory' = InMemory
<1>1. InMemory = Buffered \cup ItemsIn(inFlight)
  BY DEF InMemory, Buffered, InFlight, ItemsIn
<1>2. CASE updates = <<>>
  BY <1>1, <1>2, FinallyMoves DEF Flush, FlushItems
<1>3. CASE updates # <<>>
  <2>1. /\ updates' = <<>>
        /\ overflowQueue' = overflowQueue
        /\ inFlight' = inFlight \cup {updates}
    BY <1>3 DEF Flush, FlushItems, StartSend
  <2>2. ItemsOf(updates') = {}
    BY <2>1, ItemsOfEmpty
  <2>3. InFlight' = InFlight \cup ItemsOf(updates)
    BY <2>1, ItemsInMore DEF InFlight, ItemsIn
  <2>4. InMemory' = InMemory
    BY <2>1, <2>2, <2>3 DEF InMemory
  <2>5. \A b \in inFlight : ItemsOf(b) \cap ItemsOf(updates) = {}
    BY DEF MemoryDisjoint, InFlight, Buffered
  <2>6. \A b, c \in inFlight' : b # c => ItemsOf(b) \cap ItemsOf(c) = {}
    BY <2>1, <2>5 DEF MemoryDisjoint
  <2>7. Buffered' = ItemsOf(overflowQueue)
    BY <2>1, <2>2 DEF Buffered
  <2>8. MemoryDisjoint'
    BY <2>1, <2>2, <2>3, <2>6, <2>7 DEF MemoryDisjoint, Buffered
  <2> QED
    BY <2>4, <2>8
<1> QED
  BY <1>2, <1>3

LEMMA TakeMoves ==
  ASSUME TypeOK, MemoryDisjoint, NEW j \in Jobs, TakeJob(j),
         Len(accepted) + 1 \notin InMemory
  PROVE  MemoryDisjoint' /\ InMemory' = InMemory \cup {Len(accepted) + 1}
<1> DEFINE n == Len(accepted) + 1
<1>1. n \in Nat
  BY DEF TypeOK
<1>2. InFlight' = InFlight /\ inFlight' = inFlight
  BY DEF TakeJob, InFlight
<1>3. \/ /\ ItemsOf(updates') = ItemsOf(updates)
         /\ ItemsOf(overflowQueue') = ItemsOf(overflowQueue) \cup {n}
      \/ /\ ItemsOf(updates') = ItemsOf(updates) \cup {n}
         /\ ItemsOf(overflowQueue') = ItemsOf(overflowQueue)
  BY <1>1, ItemsOfAppend DEF TakeJob, AddItem, TypeOK
<1>4. n \notin Buffered /\ n \notin InFlight
  BY DEF InMemory, Buffered
<1> HIDE DEF n
<1>5. InMemory' = InMemory \cup {n}
  BY <1>2, <1>3 DEF InMemory
<1>6. MemoryDisjoint'
  BY <1>2, <1>3, <1>4 DEF MemoryDisjoint, Buffered
<1> QED
  BY <1>5, <1>6 DEF n

----------------------------------------------------------------------------
(* Where the items are.                                                    *)

ConsInv == TypeOK /\ MemoryDisjoint /\ Accounted

\* Every step is one of these, seen from outside the buffers.
Takes == /\ Len(accepted) < MaxAccepts
         /\ Len(accepted) + 1 \notin InMemory \cup delivered \cup dropped \cup lost
         /\ Len(accepted') = Len(accepted) + 1
         /\ InMemory' = InMemory \cup {Len(accepted) + 1}
         /\ UNCHANGED <<delivered, dropped, lost>>

SettlesAs(d, f, l) ==
  /\ d \cap (f \cup l) = {} /\ f \cap l = {}
  /\ InMemory' = InMemory \ (d \cup f \cup l)
  /\ delivered' = delivered \cup d
  /\ dropped' = dropped \cup f
  /\ lost' = lost \cup l
  /\ UNCHANGED accepted

Settles == \E d, f, l \in SUBSET InMemory : SettlesAs(d, f, l)

Rearranges == /\ InMemory' = InMemory
              /\ UNCHANGED <<delivered, dropped, lost, accepted>>

LEMMA StepKinds ==
  ASSUME ConsInv, [Next]_vars
  PROVE  MemoryDisjoint' /\ (Takes \/ Settles \/ Rearranges)
<1> USE DEF ConsInv
<1>1. ASSUME NEW j \in Jobs, TakeJob(j)
      PROVE  MemoryDisjoint' /\ Takes
  <2>1. Len(accepted) \in Nat
    BY DEF TypeOK
  <2>2. Len(accepted) + 1 \notin 1..Len(accepted)
    BY <2>1
  <2>3. Len(accepted) + 1 \notin InMemory \cup delivered \cup dropped \cup lost
    BY <2>2 DEF Accounted
  <2>4. MemoryDisjoint' /\ InMemory' = InMemory \cup {Len(accepted) + 1}
    BY <1>1, <2>3, TakeMoves
  <2>5. Len(accepted') = Len(accepted) + 1
    BY <1>1 DEF TakeJob, TypeOK
  <2> QED
    BY <1>1, <2>3, <2>4, <2>5 DEF TakeJob, Takes
<1>2. ASSUME UNCHANGED <<bufferVars, inFlight, delivered, dropped, lost, accepted>>
      PROVE  MemoryDisjoint' /\ Rearranges
  BY <1>2 DEF MemoryDisjoint, Rearranges, InMemory, InFlight, Buffered, bufferVars
<1>3. ASSUME Flush
      PROVE  MemoryDisjoint' /\ Rearranges
  BY <1>3, FlushMoves DEF Flush, Rearranges
<1>4. ASSUME NEW b \in inFlight, SendSucceeds(b)
      PROVE  MemoryDisjoint' /\ Settles
  <2>1. /\ MemoryDisjoint'
        /\ ItemsOf(b) \in SUBSET InMemory
        /\ InMemory' = InMemory \ ItemsOf(b)
    BY <1>4, SettleMoves DEF SendSucceeds
  <2>2. /\ delivered' = delivered \cup ItemsOf(b)
        /\ UNCHANGED <<dropped, lost, accepted>>
    BY <1>4 DEF SendSucceeds
  <2>3. Settles
    <3>1. SettlesAs(ItemsOf(b), {}, {})
      BY <2>1, <2>2 DEF SettlesAs
    <3> QED
      BY <2>1, <3>1 DEF Settles
  <2> QED
    BY <2>1, <2>3
<1>5. ASSUME NEW b \in inFlight, SendFails(b)
      PROVE  MemoryDisjoint' /\ Settles
  <2>1. /\ MemoryDisjoint'
        /\ ItemsOf(b) \in SUBSET InMemory
        /\ InMemory' = InMemory \ ItemsOf(b)
    BY <1>5, SettleMoves DEF SendFails
  <2>2. PICK d \in SUBSET ItemsOf(b) :
          /\ delivered' = delivered \cup d
          /\ dropped' = dropped \cup (ItemsOf(b) \ d)
    BY <1>5 DEF SendFails
  <2>3. UNCHANGED <<lost, accepted>>
    BY <1>5 DEF SendFails
  <2>4. Settles
    <3>1. d \in SUBSET InMemory /\ ItemsOf(b) \ d \in SUBSET InMemory
      BY <2>1
    <3>2. SettlesAs(d, ItemsOf(b) \ d, {})
      BY <2>1, <2>2, <2>3 DEF SettlesAs
    <3> QED
      BY <3>1, <3>2 DEF Settles
  <2> QED
    BY <2>1, <2>4
<1>6. ASSUME Crash
      PROVE  MemoryDisjoint' /\ Settles
  <2>1. PICK d \in SUBSET InFlight :
          /\ delivered' = delivered \cup d
          /\ lost' = lost \cup (InMemory \ d)
    BY <1>6 DEF Crash
  <2>2. /\ updates' = <<>> /\ overflowQueue' = <<>> /\ inFlight' = {}
        /\ UNCHANGED <<dropped, accepted>>
    BY <1>6 DEF Crash
  <2>3. ItemsOf(updates') = {} /\ ItemsOf(overflowQueue') = {} /\ InFlight' = {}
    BY <2>2, ItemsOfEmpty DEF InFlight
  <2>4. MemoryDisjoint' /\ InMemory' = {}
    BY <2>2, <2>3 DEF MemoryDisjoint, InMemory, Buffered
  <2>5. d \in SUBSET InMemory /\ InMemory \ d \in SUBSET InMemory
    BY InMemoryType
  <2>6. Settles
    <3>1. SettlesAs(d, {}, InMemory \ d)
      BY <2>1, <2>2, <2>4, <2>5 DEF SettlesAs
    <3> QED
      BY <2>5, <3>1 DEF Settles
  <2> QED
    BY <2>4, <2>6
<1> QED
  BY <1>1, <1>2, <1>3, <1>4, <1>5, <1>6
     DEF Next, EveryTenSeconds, EveryMinute, AckJob, vars

LEMMA AccountedStep ==
  ASSUME ConsInv, Takes \/ Settles \/ Rearranges
  PROVE  Accounted'
<1>1. CASE Takes
  <2>1. Len(accepted) \in Nat
    BY DEF ConsInv, TypeOK
  <2>2. 1..Len(accepted') = 1..Len(accepted) \cup {Len(accepted) + 1}
    BY <1>1, <2>1 DEF Takes
  <2> DEFINE n == Len(accepted) + 1
             old == 1..Len(accepted)
             new == 1..Len(accepted')
  <2>3. /\ n \notin InMemory \cup delivered \cup dropped \cup lost
        /\ InMemory' = InMemory \cup {n}
        /\ UNCHANGED <<delivered, dropped, lost>>
        /\ new = old \cup {n}
    BY <1>1, <2>2 DEF Takes
  <2>4. /\ old = InMemory \cup delivered \cup dropped \cup lost
        /\ InMemory \cap (delivered \cup dropped \cup lost) = {}
        /\ delivered \cap (dropped \cup lost) = {}
        /\ dropped \cap lost = {}
    BY DEF ConsInv, Accounted
  <2> HIDE DEF n, old, new
  <2>5. /\ new = InMemory' \cup delivered' \cup dropped' \cup lost'
        /\ InMemory' \cap (delivered' \cup dropped' \cup lost') = {}
        /\ delivered' \cap (dropped' \cup lost') = {}
        /\ dropped' \cap lost' = {}
    BY <2>3, <2>4
  <2> QED
    BY <2>5 DEF Accounted, new
<1>2. CASE Settles
  BY <1>2 DEF ConsInv, Accounted, Settles, SettlesAs
<1>3. CASE Rearranges
  BY <1>3 DEF ConsInv, Accounted, Rearranges
<1> QED
  BY <1>1, <1>2, <1>3

THEOREM ConsInvariant == Spec => []ConsInv
<1>1. Init => MemoryDisjoint /\ Accounted
  <2> SUFFICES ASSUME Init
               PROVE  MemoryDisjoint /\ Accounted
    OBVIOUS
  <2>1. ItemsOf(updates) = {} /\ ItemsOf(overflowQueue) = {} /\ InFlight = {}
    BY ItemsOfEmpty DEF Init, EmptyBuffers, InFlight
  <2>2. 1..Len(accepted) = {}
    BY DEF Init
  <2> QED
    BY <2>1, <2>2
       DEF Init, MemoryDisjoint, Accounted, Buffered, InMemory
<1>2. ConsInv /\ [Next]_vars => MemoryDisjoint' /\ Accounted'
  BY StepKinds, AccountedStep
<1> QED
  BY <1>1, <1>2, TypeCorrect, PTL DEF Spec, ConsInv

\* No interleaving of timers, sends and jobs loses or copies an update.
THEOREM NothingLostOrCopied == Spec => []Conservation
<1>1. ConsInv => Conservation
  BY ConservationParts DEF ConsInv
<1> QED
  BY <1>1, ConsInvariant, PTL

----------------------------------------------------------------------------
(* The order of arrival.                                                   *)

\* Of two batches one is wholly older, when each is wholly older or younger.
OlderFirst(b, c) ==
  (\E n \in ItemsOf(b), m \in ItemsOf(c) : n < m)
    => \A n \in ItemsOf(b), m \in ItemsOf(c) : n < m

\* ArrivalOrder for given flights and a given content of the buffers.
Ordered(F, all) ==
  /\ Increasing(all)
  /\ \A b \in F : Increasing(b)
  /\ \A b \in F : \A n \in ItemsOf(b), m \in ItemsOf(all) : n < m
  /\ \A b \in F : \A c \in F \ {b} : OlderFirst(b, c)

LEMMA OrderedIsArrivalOrder == ArrivalOrder <=> Ordered(inFlight, All)
  BY DEF ArrivalOrder, Ordered, OlderFirst, All

\* Sending what the buffers hold keeps the order.
LEMMA OrderedSend ==
  ASSUME NEW F \in SUBSET Seq(Nat), NEW all \in Seq(Nat), Ordered(F, all)
  PROVE  Ordered(F \cup {all}, <<>>)
<1>1. Increasing(<<>>) /\ ItemsOf(<<>>) = {}
  BY DEF Increasing, ItemsOf
<1>2. \A b \in F \cup {all} : ItemsOf(b) \subseteq Nat
  BY DEF ItemsOf
<1>3. ASSUME NEW b \in F \cup {all}, NEW c \in (F \cup {all}) \ {b}
      PROVE  OlderFirst(b, c)
  <2>1. CASE b \in F /\ c \in F
    BY <1>3, <2>1 DEF Ordered
  <2>2. CASE c = all
    BY <1>3, <2>2 DEF Ordered, OlderFirst
  <2>3. CASE b = all
    BY <1>2, <1>3, <2>3 DEF Ordered, OlderFirst
  <2> QED
    BY <1>3, <2>1, <2>2, <2>3
<1> QED
  BY <1>1, <1>3 DEF Ordered

\* So does buffering an item that is younger than all others.
LEMMA OrderedAppend ==
  ASSUME NEW F, NEW all \in Seq(Nat), NEW n \in Nat, Ordered(F, all),
         \A m \in ItemsOf(all) \cup ItemsIn(F) : m < n
  PROVE  Ordered(F, Append(all, n))
<1>1. Increasing(Append(all, n))
  <2>1. \A i \in DOMAIN all : all[i] < n
    BY DEF ItemsOf
  <2> QED
    BY <2>1 DEF Ordered, Increasing
<1>2. ItemsOf(Append(all, n)) = ItemsOf(all) \cup {n}
  BY ItemsOfAppend
<1>3. \A b \in F : \A m \in ItemsOf(b) : m < n
  BY DEF ItemsIn
<1> QED
  BY <1>1, <1>2, <1>3 DEF Ordered

LEMMA FinallyOrdered ==
  ASSUME TypeOK, NEW F \in SUBSET inFlight, Ordered(inFlight, All), Finally(F)
  PROVE  Ordered(inFlight', All')
<1>1. F \in SUBSET Seq(Nat) /\ Ordered(F, All) /\ All \in Seq(Nat) /\ overflowQueue' = <<>>
  BY FinallyCases DEF TypeOK, Ordered
<1>2. CASE updates' = <<>> /\ inFlight' = F \cup {All}
  <2>1. All' = <<>>
    BY <1>1, <1>2 DEF All
  <2> QED
    BY <1>1, <1>2, <2>1, OrderedSend
<1>3. CASE updates' = All /\ inFlight' = F
  <2>1. All' = updates' \o <<>>
    BY <1>1 DEF All
  <2>2. All' = All
    BY <1>1, <1>3, <2>1
  <2> QED
    BY <1>1, <1>3, <2>2
<1> QED
  BY <1>2, <1>3, FinallyCases

\* However flushes overlap, the buffers and the batches under way keep the order in which jobs
\* were accepted (index.ts:9-66): nothing in a batch is younger than what is still buffered.
THEOREM SentInOrder == Spec => []ArrivalOrder
<1>1. Init => Ordered(inFlight, All)
  BY DEF Init, EmptyBuffers, Ordered, Increasing, ItemsOf, All
<1>2. ConsInv /\ FlagDiscipline /\ Ordered(inFlight, All) /\ [Next]_vars
        => Ordered(inFlight, All)'
  <2> SUFFICES ASSUME ConsInv, FlagDiscipline, Ordered(inFlight, All), [Next]_vars
               PROVE  Ordered(inFlight', All')
    OBVIOUS
  <2> USE DEF ConsInv
  <2>1. ASSUME NEW j \in Jobs, TakeJob(j)
        PROVE  Ordered(inFlight', All')
    <3> DEFINE n == Len(accepted) + 1
    <3>1. n \in Nat /\ All \in Seq(Nat)
      BY DEF TypeOK, All
    <3>2. \A m \in ItemsOf(All) \cup ItemsIn(inFlight) : m < n
      <4>1. ItemsOf(All) \cup ItemsIn(inFlight) = InMemory
        BY ItemsOfConcat DEF TypeOK, All, InMemory, InFlight, ItemsIn
      <4>2. InMemory \subseteq 1..Len(accepted) /\ Len(accepted) \in Nat
        BY DEF Accounted, TypeOK
      <4>3. \A m \in 1..Len(accepted) : m < n
        BY <4>2
      <4> HIDE DEF n
      <4> QED
        BY <4>1, <4>2, <4>3
    <3>3. All' = Append(All, n) /\ inFlight' = inFlight
      <4>1. CASE isFlushing
        <5>1. updates' = updates /\ overflowQueue' = Append(overflowQueue, n)
          BY <2>1, <4>1 DEF TakeJob, AddItem
        <5> QED
          BY SMTT(30), <2>1, <3>1, <5>1 DEF TakeJob, All, TypeOK
      <4>2. CASE ~isFlushing
        <5>1. updates' = Append(updates, n) /\ overflowQueue' = <<>> /\ overflowQueue = <<>>
          BY <2>1, <4>2 DEF TakeJob, AddItem, FlagDiscipline
        <5> QED
          BY <2>1, <3>1, <5>1 DEF TakeJob, All, TypeOK
      <4> QED
        BY <4>1, <4>2
    <3> HIDE DEF n
    <3> QED
      BY <3>1, <3>2, <3>3, OrderedAppend
  <2>2. ASSUME Flush
        PROVE  Ordered(inFlight', All')
    <3>1. CASE updates = <<>>
      BY <2>2, <3>1, FinallyOrdered DEF Flush, FlushItems
    <3>2. CASE updates # <<>>
      <4>1. /\ updates' = <<>> /\ overflowQueue' = <<>> /\ overflowQueue = <<>>
            /\ inFlight' = inFlight \cup {updates}
        BY <2>2, <3>2 DEF Flush, FlushItems, StartSend, FlagDiscipline, TypeOK
      <4>2. All = updates /\ All' = <<>> /\ updates \in Seq(Nat) /\ inFlight \in SUBSET Seq(Nat)
        BY <4>1 DEF All, TypeOK
      <4> QED
        BY <4>1, <4>2, OrderedSend
    <3> QED
      BY <3>1, <3>2
  <2>3. ASSUME NEW b \in inFlight, SendSucceeds(b) \/ SendFails(b)
        PROVE  Ordered(inFlight', All')
    <3>1. Finally(inFlight \ {b})
      BY <2>3 DEF SendSucceeds, SendFails
    <3> QED
      BY <3>1, FinallyOrdered
  <2>4. ASSUME Crash
        PROVE  Ordered(inFlight', All')
    BY <2>4 DEF Crash, Ordered, Increasing, ItemsOf, All
  <2>5. ASSUME UNCHANGED <<bufferVars, inFlight>>
        PROVE  Ordered(inFlight', All')
    BY <2>5 DEF bufferVars, All
  <2> QED
    BY <2>1, <2>2, <2>3, <2>4, <2>5
       DEF Next, EveryTenSeconds, EveryMinute, AckJob, vars
<1>3. Spec => []Ordered(inFlight, All)
  BY <1>1, <1>2, ConsInvariant, FlagIsHonest, PTL DEF Spec
<1> QED
  BY <1>3, OrderedIsArrivalOrder, PTL

\* The buffers implement the relay.
THEOREM ImportIsARelay == Spec => ImplementsRelay
<1>1. Init => R!RelayInit
  <2> SUFFICES ASSUME Init
               PROVE  R!RelayInit
    OBVIOUS
  <2>1. ItemsOf(updates) = {} /\ ItemsOf(overflowQueue) = {} /\ InFlight = {}
    BY ItemsOfEmpty DEF Init, EmptyBuffers, InFlight
  <2> QED
    BY <2>1 DEF Init, InMemory, R!RelayInit
<1>2. ConsInv /\ [Next]_vars => [R!RelayNext]_(R!relayVars)
  <2> SUFFICES ASSUME ConsInv, [Next]_vars
               PROVE  [R!RelayNext]_(R!relayVars)
    OBVIOUS
  <2>1. CASE Takes
    <3>1. Len(accepted) + 1 \in 1..MaxAccepts
      BY <2>1 DEF Takes, ConsInv, TypeOK
    <3>2. R!Accept(Len(accepted) + 1)
      BY <2>1 DEF Takes, R!Accept
    <3> QED
      BY <3>1, <3>2 DEF R!RelayNext
  <2>2. CASE Settles
    <3>1. PICK d \in SUBSET InMemory, f \in SUBSET InMemory,
               l \in SUBSET InMemory : SettlesAs(d, f, l)
      BY <2>2 DEF Settles
    <3>2. R!Settle(d, f \cup l)
      BY <3>1 DEF SettlesAs, R!Settle
    <3> QED
      BY <3>2 DEF R!RelayNext
  <2>3. CASE Rearranges
    BY <2>3 DEF Rearranges, R!relayVars
  <2> QED
    BY <2>1, <2>2, <2>3, StepKinds
<1> QED
  BY <1>1, <1>2, ConsInvariant, PTL DEF Spec, ImplementsRelay, R!RelaySpec
==================================================
