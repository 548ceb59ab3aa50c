---------------------------- MODULE MessageWorker ----------------------------
(***************************************************************************)
(* Turning a Telegram message into an update event: handleMessage.ts, as   *)
(* run by the BullMQ worker of apps/history (worker.ts, up to 35 jobs at a *)
(* time, with retries) and by the event handler of apps/worker (index.ts,  *)
(* all new messages at once, nothing persisted before the send).  Both     *)
(* share the profile pictures in the object store and, in Redis, the name  *)
(* of the file each picture was stored under.                              *)
(*                                                                         *)
(* isUserCached and isChatCached return true, so full users and chats are  *)
(* never asked for.                                                        *)
(***************************************************************************)
EXTENDS Naturals, Sequences, FiniteSets

CONSTANTS
  Queued,       \* messages exported into the queue
  Live,         \* messages that arrive at the live worker
  Skipped,      \* messages without a sender, or in a chat of an unknown kind
  Photos,       \* profile pictures
  Photo,        \* message -> those of its sender and of its chat, in the order they are asked for
  Workers,      \* concurrency of the queue's worker
  None,
  Attempts,     \* attempts a job has
  MaxFailures,  \* bound on failing steps
  MaxCrashes    \* bound on crashes and lost locks of the queue's process

Messages == Queued \cup Live

ASSUME MessagesAssumption ==
  /\ Queued \cap Live = {} /\ Skipped \subseteq Messages /\ Workers \cap Messages = {}
  /\ None \notin Messages \cup Workers /\ IsFiniteSet(Workers) /\ IsFiniteSet(Live)
  /\ Photo \in [Messages -> Seq(Photos)]
ASSUME WorkerBoundsAssumption ==
  Attempts \in Nat \ {0} /\ MaxFailures \in Nat /\ MaxCrashes \in Nat

\* A live message has a handler of its own.
Handlers == Workers \cup Live

VARIABLES
  job,      \* per message: "waiting", "active", "done", "failed"
  attempts, stalls, owner,  \* of the job; owner: who holds its lock
  message, step, picture,   \* per handler; step: "lookup", "download", "store", "media",
                            \* "add", "complete"; picture: the files it has, in Photo's order
  files,    \* uploaded pictures <<photo, number>>
  cache,    \* Redis: photo -> file
  results,  \* message -> events sent for it, each with its pictures
  producer, \* whether the live worker's producer is connected
  failures, crashes

jobs == <<job, attempts, stalls, owner>>
handling == <<message, step, picture>>
pictures == <<files, cache>>
workerVars == <<jobs, handling, pictures, results, producer, failures, crashes>>

WorkerTypeOK ==
  /\ job \in [Messages -> {"waiting", "active", "done", "failed"}]
  /\ attempts \in [Messages -> 0..Attempts]
  /\ stalls \in [Messages -> Nat]
  /\ owner \in [Messages -> Handlers \cup {None}]
  /\ message \in [Handlers -> Messages \cup {None}]
  /\ step \in [Handlers -> {"lookup", "download", "store", "media", "add", "complete"}]
  /\ \A f \in files : f[1] \in Photos /\ f[2] \in Nat
  /\ \A h \in Handlers : picture[h] \in Seq(Photos \X Nat)
  /\ \A m \in Messages : results[m] \in Seq(Seq(Photos \X Nat))
  /\ producer \in BOOLEAN
  /\ failures \in 0..MaxFailures /\ crashes \in 0..MaxCrashes

WorkerInit ==
  /\ job = [m \in Messages |-> "waiting"] /\ attempts = [m \in Messages |-> 0]
  /\ stalls = [m \in Messages |-> 0] /\ owner = [m \in Messages |-> None]
  /\ message = [h \in Handlers |-> None] /\ step = [h \in Handlers |-> "lookup"]
  /\ picture = [h \in Handlers |-> <<>>]
  /\ files = {} /\ cache = [p \in Photos |-> None]
  /\ results = [m \in Messages |-> <<>>]
  /\ producer = TRUE /\ failures = 0 /\ crashes = 0

----------------------------------------------------------------------------
(* The jobs: BullMQ, and the event handler of the live worker.             *)

\* Where a handler goes that has n of the message's pictures: a chat of an unknown kind is
\* noticed after the sender's.
StepAfter(m, n) ==
  IF n < Len(Photo[m]) THEN "lookup" ELSE IF m \in Skipped THEN "complete" ELSE "media"

\* Mutant: a job that is being handled is taken again.
TakeUnlocked(h, m) ==
  /\ message[h] = None /\ job[m] \in {"waiting", "active"}
  /\ IF h \in Workers THEN m \in Queued ELSE m = h /\ producer
  /\ job' = [job EXCEPT ![m] = "active"]
  /\ owner' = [owner EXCEPT ![m] = h]
  /\ message' = [message EXCEPT ![h] = m]
  /\ step' = [step EXCEPT ![h] = StepAfter(m, 0)]
  /\ picture' = [picture EXCEPT ![h] = <<>>]
  /\ UNCHANGED <<attempts, stalls, pictures, results, producer, failures, crashes>>

\* A worker takes a job; a live message arrives at its handler.
Take(h, m) ==
  /\ message[h] = None /\ job[m] = "waiting"
  /\ IF h \in Workers THEN m \in Queued ELSE m = h /\ producer
  /\ job' = [job EXCEPT ![m] = "active"]
  /\ owner' = [owner EXCEPT ![m] = h]
  /\ message' = [message EXCEPT ![h] = m]
  /\ step' = [step EXCEPT ![h] = StepAfter(m, 0)]
  /\ picture' = [picture EXCEPT ![h] = <<>>]
  /\ UNCHANGED <<attempts, stalls, pictures, results, producer, failures, crashes>>

Release(h) ==
  /\ message' = [message EXCEPT ![h] = None]
  /\ step' = [step EXCEPT ![h] = "lookup"]
  /\ picture' = [picture EXCEPT ![h] = <<>>]

\* The job is removed, unless its lock is gone.
Complete(h) ==
  /\ message[h] # None /\ step[h] = "complete"
  /\ Release(h)
  /\ job' = IF owner[message[h]] = h THEN [job EXCEPT ![message[h]] = "done"] ELSE job
  /\ UNCHANGED <<attempts, stalls, owner, pictures, results, producer, failures, crashes>>

\* The handler throws.  A job is tried again, a live message is lost.
Throw(h) ==
  LET m == message[h]  again == h \in Workers /\ attempts[m] + 1 < Attempts IN
  /\ Release(h)
  /\ IF owner[m] = h
     THEN /\ attempts' = [attempts EXCEPT ![m] = @ + 1]
          /\ job' = [job EXCEPT ![m] = IF again THEN "waiting" ELSE "failed"]
          /\ owner' = [owner EXCEPT ![m] = None]
     ELSE UNCHANGED <<attempts, job, owner>>
  /\ UNCHANGED <<stalls, pictures, results, producer, crashes>>

Fail(h) ==
  /\ message[h] # None /\ (h \in Workers \/ step[h] # "complete")
  /\ failures < MaxFailures /\ failures' = failures + 1
  /\ Throw(h)

\* The process of the queue's worker ends, and is started again.
Crash ==
  /\ crashes < MaxCrashes /\ crashes' = crashes + 1
  /\ message' = [h \in Handlers |-> IF h \in Workers THEN None ELSE message[h]]
  /\ step' = [h \in Handlers |-> IF h \in Workers THEN "lookup" ELSE step[h]]
  /\ picture' = [h \in Handlers |-> IF h \in Workers THEN <<>> ELSE picture[h]]
  /\ owner' = [m \in Messages |-> IF m \in Queued THEN None ELSE owner[m]]
  /\ UNCHANGED <<job, attempts, stalls, pictures, results, producer, failures>>

\* A lock is not renewed in time, while the handler goes on.
LoseLock(m) ==
  /\ crashes < MaxCrashes /\ crashes' = crashes + 1
  /\ m \in Queued /\ owner[m] # None /\ job[m] = "active"
  /\ owner' = [owner EXCEPT ![m] = None]
  /\ UNCHANGED <<job, attempts, stalls, handling, pictures, results, producer, failures>>

\* The check for stalled jobs gives such a job out again, once.
Stalled(m) ==
  /\ m \in Queued /\ job[m] = "active" /\ owner[m] = None
  /\ stalls' = [stalls EXCEPT ![m] = @ + 1]
  /\ job' = [job EXCEPT ![m] = IF stalls[m] = 0 THEN "waiting" ELSE "failed"]
  /\ UNCHANGED <<attempts, owner, handling, pictures, results, producer, failures, crashes>>

\* The shutdown handler of the live worker: handlers that are under way go on
\* and find the producer disconnected.
Shutdown ==
  /\ producer /\ producer' = FALSE
  /\ UNCHANGED <<jobs, handling, pictures, results, failures, crashes>>

----------------------------------------------------------------------------
(* handleMessage.                                                          *)

At(h, s) == message[h] # None /\ step[h] = s
PhotoOf(h) == Photo[message[h]][Len(picture[h]) + 1]
FreshFile(h) == <<PhotoOf(h), Cardinality({f \in files : f[1] = PhotoOf(h)})>>
Goto(h, s) == step' = [step EXCEPT ![h] = s]
Keep(h, f) == picture' = [picture EXCEPT ![h] = Append(@, f)]

\* redis.get answers: the file, or nothing.
Lookup(h) ==
  /\ At(h, "lookup")
  /\ LET f == cache[PhotoOf(h)] IN
     \/ f = None /\ Goto(h, "download") /\ UNCHANGED picture
     \/ f # None /\ Keep(h, f) /\ Goto(h, StepAfter(message[h], Len(picture[h]) + 1))
  /\ UNCHANGED <<jobs, message, pictures, results, producer, failures, crashes>>

\* Mutant: the name goes to Redis before the file goes to the store.
StoreNameFirst(h) ==
  /\ At(h, "download")
  /\ cache' = [cache EXCEPT ![PhotoOf(h)] = FreshFile(h)]
  /\ Keep(h, FreshFile(h))
  /\ Goto(h, "store")
  /\ UNCHANGED <<jobs, message, files, results, producer, failures, crashes>>

\* The picture is downloaded and uploaded under a fresh name.
Upload(h) ==
  /\ At(h, "download")
  /\ files' = files \cup {FreshFile(h)}
  /\ Keep(h, FreshFile(h))
  /\ Goto(h, "store")
  /\ UNCHANGED <<jobs, message, cache, results, producer, failures, crashes>>

\* redis.set of the name of the file just uploaded.
Store(h) ==
  /\ At(h, "store")
  /\ LET f == picture[h][Len(picture[h])] IN cache' = [cache EXCEPT ![f[1]] = f]
  /\ Goto(h, StepAfter(message[h], Len(picture[h])))
  /\ UNCHANGED <<jobs, message, picture, files, results, producer, failures, crashes>>

\* Mutant: a message without pictures is not sent.
MediaMissing(h) ==
  /\ At(h, "media")
  /\ Goto(h, IF picture[h] = <<>> THEN "complete" ELSE "add")
  /\ UNCHANGED <<jobs, message, picture, pictures, results, producer, failures, crashes>>

\* The message's own photo or document.
Media(h) ==
  /\ At(h, "media")
  /\ Goto(h, "add")
  /\ UNCHANGED <<jobs, message, picture, pictures, results, producer, failures, crashes>>

\* The event is added to history-results, or sent to Kafka.
Add(h) ==
  /\ At(h, "add")
  /\ IF h \in Workers \/ producer
     THEN /\ results' = [results EXCEPT ![message[h]] = Append(@, picture[h])]
          /\ Goto(h, "complete")
          /\ UNCHANGED <<jobs, message, picture, pictures, producer, crashes>>
     ELSE Throw(h)
  /\ UNCHANGED failures

Handle(h) ==
  \/ Lookup(h) \/ Upload(h) \/ Store(h) \/ Media(h) \/ Add(h) \/ Complete(h)
  \/ \E m \in Messages : Take(h, m)

WorkerNext ==
  \/ \E h \in Handlers : Handle(h) \/ Fail(h)
  \/ \E m \in Messages : LoseLock(m) \/ Stalled(m)
  \/ Crash
  \/ Shutdown

WorkerSpec == WorkerInit /\ [][WorkerNext]_workerVars

\* Requests are answered, workers take jobs, and stalled jobs are looked for.
WorkerFairness ==
  /\ \A h \in Handlers : WF_workerVars(Handle(h))
  /\ \A m \in Messages : WF_workerVars(Stalled(m))

FairWorkerSpec == WorkerSpec /\ WorkerFairness

----------------------------------------------------------------------------
(* Properties.                                                             *)

\* A name in Redis is that of an uploaded file with the right picture, and an event names
\* such a file for each picture its sender and its chat have, whatever handlers fail or die
\* between the two writes.
PicturesExist ==
  /\ \A p \in Photos : cache[p] # None => cache[p] \in files /\ cache[p][1] = p
  /\ \A m \in Messages : \A i \in 1..Len(results[m]) :
       /\ Len(results[m][i]) = Len(Photo[m])
       /\ \A k \in 1..Len(Photo[m]) :
            results[m][i][k] \in files /\ results[m][i][k][1] = Photo[m][k]

\* A job that is done has sent its event, unless the message is one to skip.
DoneMeansSent ==
  \A m \in Queued \ Skipped : job[m] = "done" => results[m] # <<>>

\* A message is sent twice only when its job failed, lost its lock or its
\* process after the first time.
DuplicatesExplained == \A m \in Messages : Len(results[m]) <= 1 + attempts[m] + stalls[m]

\* Every message is sent, unless it is one to skip, its job ran out of attempts
\* or stalled twice, or the live worker failed on it or was shut down.
Sent ==
  \A m \in Messages \ Skipped :
    <>(results[m] # <<>> \/ job[m] = "failed" \/ (m \in Live /\ ~producer))
=============================================================================
