---------------------------- MODULE ExportCopies ----------------------------
(***************************************************************************)
(* The export jobs of apps/history/src/handler.ts when several processes   *)
(* take them from one queue, as the sessions history-0 and history-1 do:   *)
(* a job whose lock expires is given to another process while the first    *)
(* goes on, and the chat is chosen by a part of its id, so two jobs may    *)
(* walk one chat.  The steps of one attempt in a chat that changes are in  *)
(* HistoryExport; here chats do not change.                                *)
(***************************************************************************)
EXTENDS Integers, Sequences, FiniteSets

CONSTANTS
  Workers,      \* processes, one job at a time each
  Requests,     \* the chats that are requested, one job for each
  Dialogs,      \* the account's dialogs, in the order of getDialogs()
  Includes,     \* <<request, dialog>>: the dialog's id includes the requested one
  Own,          \* request -> the chat that was meant
  Size,         \* messages of a chat, 1 to Size
  BatchSize,    \* a batch is handed over once it holds more than this (500)
  Attempts, None,
  MaxStalls,    \* times a job is given out again after its lock expired
  MaxFaults     \* bound on failing calls, crashes and expired locks

Chats == {Dialogs[i] : i \in DOMAIN Dialogs}

ASSUME CopiesAssumption ==
  /\ None \notin Workers \cup Requests /\ Dialogs \in Seq(Chats)
  /\ Size \in Nat /\ BatchSize \in Nat /\ Attempts \in Nat \ {0}
  /\ MaxStalls \in Nat /\ MaxFaults \in Nat
  /\ Own \in [Requests -> Chats]
  /\ \A r \in Requests : \E c \in Chats : <<r, c>> \in Includes

VARIABLES
  checkpoint, done,  \* Redis, per chat: currentMessageId, totalMessagesDone
  exported,          \* Postgres: requests flagged exportedInFull
  queued,            \* per chat and message, how often it was added to {history-messages}
  status, lock, attempts, stalls,    \* BullMQ, per job
  request, pc, cursor, batch, count, \* per worker: its job and the locals of its attempt
  skipped,           \* <<chat, message>> of batches that were lost after their checkpoint
  shared,            \* chats that two attempts have walked at the same time
  faults

keys == <<checkpoint, done>>
jobs == <<status, lock, attempts, stalls>>
locals == <<request, pc, cursor, batch, count>>
copiesVars == <<keys, exported, queued, jobs, locals, skipped, shared, faults>>

CopiesTypeOK ==
  /\ checkpoint \in [Chats -> 0..Size] /\ done \in [Chats -> Nat]
  /\ exported \subseteq Requests /\ queued \in [Chats -> [1..Size -> Nat]]
  /\ status \in [Requests -> {"waiting", "active", "completed", "failed"}]
  /\ lock \in [Requests -> Workers \cup {None}]
  /\ attempts \in [Requests -> 0..Attempts] /\ stalls \in [Requests -> 0..(MaxStalls + 1)]
  /\ request \in [Workers -> Requests \cup {None}]
  /\ pc \in [Workers -> {"load", "iterate", "saveCheckpoint", "addBulk", "saveDone",
                         "markExported", "addTail", "sayHello"}]
  /\ cursor \in [Workers -> 0..Size] /\ batch \in [Workers -> SUBSET (1..Size)]
  /\ \A w \in Workers : Cardinality(batch[w]) <= BatchSize + 1
  /\ count \in [Workers -> Nat] /\ skipped \subseteq Chats \X (1..Size)
  /\ shared \subseteq Chats /\ faults \in 0..MaxFaults

CopiesInit ==
  /\ checkpoint = [c \in Chats |-> 0] /\ done = [c \in Chats |-> 0] /\ exported = {}
  /\ queued = [c \in Chats |-> [m \in 1..Size |-> 0]]
  /\ status = [r \in Requests |-> "waiting"] /\ lock = [r \in Requests |-> None]
  /\ attempts = [r \in Requests |-> 0] /\ stalls = [r \in Requests |-> 0]
  /\ request = [w \in Workers |-> None] /\ pc = [w \in Workers |-> "load"]
  /\ cursor = [w \in Workers |-> 0] /\ batch = [w \in Workers |-> {}]
  /\ count = [w \in Workers |-> 0] /\ skipped = {} /\ shared = {} /\ faults = 0

----------------------------------------------------------------------------
(* An attempt. *)

\* The first dialog whose id includes the requested one.
Dialog(r) ==
  Dialogs[CHOOSE i \in DOMAIN Dialogs :
    /\ <<r, Dialogs[i]>> \in Includes
    /\ \A j \in DOMAIN Dialogs : <<r, Dialogs[j]>> \in Includes => i <= j]

Busy(w) == request[w] # None
Chat(w) == Dialog(request[w])
Goto(w, from, to) == Busy(w) /\ pc[w] = from /\ pc' = [pc EXCEPT ![w] = to]

Take(w, r) ==
  /\ ~Busy(w) /\ status[r] = "waiting"
  /\ status' = [status EXCEPT ![r] = "active"] /\ lock' = [lock EXCEPT ![r] = w]
  /\ request' = [request EXCEPT ![w] = r] /\ pc' = [pc EXCEPT ![w] = "load"]
  /\ shared' = shared \cup {c \in {Dialog(r)} : \E v \in Workers : Busy(v) /\ Chat(v) = c}
  /\ UNCHANGED <<keys, exported, queued, attempts, stalls, cursor, batch, count, skipped, faults>>

\* Mutant: an attempt starts over.
LoadNothing(w) ==
  /\ Goto(w, "load", "iterate")
  /\ cursor' = [cursor EXCEPT ![w] = 0] /\ count' = [count EXCEPT ![w] = done[Chat(w)]]
  /\ UNCHANGED <<keys, exported, queued, jobs, request, batch, skipped, shared, faults>>

Load(w) ==
  /\ Goto(w, "load", "iterate")
  /\ cursor' = [cursor EXCEPT ![w] = checkpoint[Chat(w)]]
  /\ count' = [count EXCEPT ![w] = done[Chat(w)]]
  /\ UNCHANGED <<keys, exported, queued, jobs, request, batch, skipped, shared, faults>>

\* The loop, up to the next full batch or the end of the chat.
Iterate(w) ==
  LET last == IF cursor[w] + BatchSize + 1 <= Size THEN cursor[w] + BatchSize + 1 ELSE Size IN
  /\ Goto(w, "iterate", IF last = cursor[w] + BatchSize + 1 THEN "saveCheckpoint"
                                                            ELSE "markExported")
  /\ batch' = [batch EXCEPT ![w] = (cursor[w] + 1)..last]
  /\ cursor' = [cursor EXCEPT ![w] = last]
  /\ count' = [count EXCEPT ![w] = @ + last - cursor[w]]
  /\ UNCHANGED <<keys, exported, queued, jobs, request, skipped, shared, faults>>

SaveCheckpoint(w) ==
  /\ Goto(w, "saveCheckpoint", "addBulk")
  /\ checkpoint' = [checkpoint EXCEPT ![Chat(w)] = cursor[w]]
  /\ UNCHANGED <<done, exported, queued, jobs, request, cursor, batch, count, skipped, shared, faults>>

HandOver(w) ==
  /\ queued' = [queued EXCEPT ![Chat(w)] =
                  [m \in 1..Size |-> IF m \in batch[w] THEN @[m] + 1 ELSE @[m]]]
  /\ batch' = [batch EXCEPT ![w] = {}]
  /\ UNCHANGED <<keys, exported, jobs, request, cursor, count, skipped, shared, faults>>

AddBatch(w) == Goto(w, "addBulk", "saveDone") /\ HandOver(w)

SaveDone(w) ==
  /\ Goto(w, "saveDone", "iterate") /\ done' = [done EXCEPT ![Chat(w)] = count[w]]
  /\ UNCHANGED <<checkpoint, exported, queued, jobs, request, cursor, batch, count, skipped, shared, faults>>

\* The flag goes to the requested chat, whatever dialog was walked.
MarkExported(w) ==
  /\ Goto(w, "markExported", "addTail") /\ exported' = exported \cup {request[w]}
  /\ UNCHANGED <<keys, queued, jobs, request, cursor, batch, count, skipped, shared, faults>>

\* Mutant: the rest is only handed over when it fills a batch.
AddTailIfFull(w) ==
  /\ Goto(w, "addTail", "sayHello") /\ batch' = [batch EXCEPT ![w] = {}]
  /\ UNCHANGED <<keys, exported, queued, jobs, request, cursor, count, skipped, shared, faults>>

AddTail(w) == Goto(w, "addTail", "sayHello") /\ HandOver(w)

----------------------------------------------------------------------------
(* The end of an attempt, and the queue. *)

Holds(w) == lock[request[w]] = w

\* The worker is free; a batch between its checkpoint and its hand-over is lost.
Release(w) ==
  /\ request' = [request EXCEPT ![w] = None] /\ pc' = [pc EXCEPT ![w] = "load"]
  /\ batch' = [batch EXCEPT ![w] = {}] /\ cursor' = [cursor EXCEPT ![w] = 0]
  /\ count' = [count EXCEPT ![w] = 0]
  /\ skipped' = IF pc[w] = "addBulk" THEN skipped \cup ({Chat(w)} \X batch[w]) ELSE skipped

\* The last message is sent; the job is completed by whoever holds its lock.
Finish(w) ==
  LET r == request[w] IN
  /\ Busy(w) /\ pc[w] = "sayHello" /\ Release(w)
  /\ status' = IF Holds(w) THEN [status EXCEPT ![r] = "completed"] ELSE status
  /\ lock' = IF Holds(w) THEN [lock EXCEPT ![r] = None] ELSE lock
  /\ UNCHANGED <<keys, exported, queued, attempts, stalls, shared, faults>>

Fault == faults < MaxFaults /\ faults' = faults + 1

\* A call rejects: the job is retried, if its lock is still held.
Throw(w) ==
  LET r == request[w] IN
  /\ Fault /\ Busy(w) /\ Release(w)
  /\ IF Holds(w)
       THEN /\ attempts' = [attempts EXCEPT ![r] = @ + 1] /\ lock' = [lock EXCEPT ![r] = None]
            /\ status' = [status EXCEPT ![r] = IF attempts[r] + 1 < Attempts THEN "waiting"
                                                                             ELSE "failed"]
       ELSE UNCHANGED <<attempts, lock, status>>
  /\ UNCHANGED <<keys, exported, queued, stalls, shared>>

CrashWorker(w) ==
  /\ Fault /\ Busy(w) /\ Release(w)
  /\ lock' = IF Holds(w) THEN [lock EXCEPT ![request[w]] = None] ELSE lock
  /\ UNCHANGED <<keys, exported, queued, status, attempts, stalls, shared>>

\* The lock expires, while its worker goes on.
Expire(r) ==
  /\ Fault /\ lock[r] # None /\ lock' = [lock EXCEPT ![r] = None]
  /\ UNCHANGED <<keys, exported, queued, status, attempts, stalls, locals, skipped, shared>>

\* The check for stalled jobs gives an active job without a lock out again.
Stalled(r) ==
  /\ status[r] = "active" /\ lock[r] = None /\ stalls' = [stalls EXCEPT ![r] = @ + 1]
  /\ status' = [status EXCEPT ![r] = IF stalls[r] < MaxStalls THEN "waiting" ELSE "failed"]
  /\ UNCHANGED <<keys, exported, queued, lock, attempts, locals, skipped, shared, faults>>

Attempt(w) ==
  \/ \E r \in Requests : Take(w, r)
  \/ Load(w) \/ Iterate(w) \/ SaveCheckpoint(w) \/ AddBatch(w) \/ SaveDone(w)
  \/ MarkExported(w) \/ AddTail(w) \/ Finish(w)

CopiesNext ==
  \/ \E w \in Workers : Attempt(w) \/ Throw(w) \/ CrashWorker(w)
  \/ \E r \in Requests : Expire(r) \/ Stalled(r)

CopiesSpec == CopiesInit /\ [][CopiesNext]_copiesVars

----------------------------------------------------------------------------
(* Properties. *)

Walked(c) == \E w \in Workers : Busy(w) /\ Chat(w) = c
Handed(c) == {m \in 1..Size : queued[c][m] > 0}
Lost(c) == {m \in 1..Size : <<c, m>> \in skipped}

\* The flag of a completed job tells the truth about the chat that was meant, unless
\* another dialog's id includes the requested one.
FlagExplained ==
  \A r \in Requests :
    r \in exported /\ status[r] = "completed" /\ ~Walked(Own[r])
      => Handed(Own[r]) \cup Lost(Own[r]) = 1..Size \/ Dialog(r) # Own[r]

\* A message is handed over twice only in a chat that two attempts walked at the same
\* time, or in the part after the last full batch, which no checkpoint covers.
TwiceExplained ==
  \A c \in Chats, m \in 1..Size :
    queued[c][m] > 1 => c \in shared \/ m > Size - (Size % (BatchSize + 1))
=============================================================================
