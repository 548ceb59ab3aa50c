---------------------------- MODULE FetchManager ----------------------------
(***************************************************************************)
(* packages/kafkajs consumer/fetchManager.js, fetcher.js, workerQueue.js,  *)
(* worker.js and the part of runner.js that starts and stops them: one     *)
(* fetcher per broker, a queue of batches all fetchers share, workers that *)
(* handle them, a restart when the set of brokers changes, and stop().     *)
(***************************************************************************)
EXTENDS Naturals, Sequences, FiniteSets, SequencesExt

CONSTANTS
  Nodes, Partitions, Workers,
  None,
  MaxChanges,  \* bound on metadata changes
  MaxErrors    \* bound on failing fetches and batches

ASSUME NoneAssumption == None \notin Nodes /\ None \notin Partitions \cup (Partitions \X Nodes)
ASSUME PartitionsAssumption == IsFiniteSet(Partitions)
ASSUME BoundsAssumption == MaxChanges \in Nat /\ MaxErrors \in Nat

VARIABLES
  nodes, leader,   \* cluster metadata: the brokers, and where p is read from
  manager,         \* start(): "running", "catching" (in stop()), "returned"
  error,           \* what start() caught: "none", "rebalance", "other"
  created,         \* nodeIds the fetchers were made for
  fetcher,         \* "top" of the loop, "fetching", "pushing", "ended"
  isRunning,
  requested,       \* partitions of the fetch request under way
  assignments,     \* partitionAssignments
  outstanding,     \* partitions pushed by the fetcher and not settled yet
  failed,          \* whether one of them was rejected
  queue,           \* batches <<partition, node>>
  worker,          \* the batch a worker handles, or None
  catchWaits, stopWaits,  \* fetchers whose "end" the two calls of stop() await
  running, consuming, \* of the runner
  stopping,        \* Runner.stop(): "no", "fetchers", "consumer", "left"
  changes, errors

metadata == <<nodes, leader, changes>>
loops == <<fetcher, isRunning, requested>>
pushes == <<assignments, outstanding, failed>>
work == <<queue, worker>>
runner == <<running, consuming, stopping>>
vars == <<metadata, manager, error, created, loops, pushes, work,
          catchWaits, stopWaits, runner, errors>>

Batches == Partitions \X Nodes

TypeOK ==
  /\ nodes \in (SUBSET Nodes) \ {{}} /\ leader \in [Partitions -> nodes]
  /\ manager \in {"running", "catching", "returned"}
  /\ error \in {"none", "rebalance", "other"}
  /\ created \subseteq Nodes
  /\ fetcher \in [Nodes -> {"top", "fetching", "pushing", "ended"}]
  /\ isRunning \in [Nodes -> BOOLEAN]
  /\ requested \in [Nodes -> SUBSET Partitions]
  /\ assignments \in [Partitions -> Nodes \cup {None}]
  /\ outstanding \in [Nodes -> SUBSET Partitions]
  /\ failed \in [Nodes -> BOOLEAN]
  /\ queue \in Seq(Batches)
  /\ worker \in [Workers -> Batches \cup {None}]
  /\ catchWaits \subseteq Nodes /\ stopWaits \subseteq Nodes
  /\ running \in BOOLEAN /\ consuming \in BOOLEAN
  /\ stopping \in {"no", "fetchers", "consumer", "left"}
  /\ changes \in 0..MaxChanges /\ errors \in 0..MaxErrors

Init ==
  /\ nodes \in (SUBSET Nodes) \ {{}} /\ leader \in [Partitions -> nodes]
  /\ manager = "returned" /\ error = "none" /\ created = {}
  /\ fetcher = [n \in Nodes |-> "ended"] /\ isRunning = [n \in Nodes |-> FALSE]
  /\ requested = [n \in Nodes |-> {}]
  /\ assignments = [p \in Partitions |-> None]
  /\ outstanding = [n \in Nodes |-> {}] /\ failed = [n \in Nodes |-> FALSE]
  /\ queue = <<>> /\ worker = [w \in Workers |-> None]
  /\ catchWaits = {} /\ stopWaits = {}
  /\ running = TRUE /\ consuming = TRUE /\ stopping = "no"
  /\ changes = 0 /\ errors = 0

----------------------------------------------------------------------------
(* fetchManager.start().                                                   *)

\* createFetchers, and the start of each: one per broker, with a fresh map of
\* assignments.
CreateFetchers ==
  /\ manager' = "running" /\ created' = nodes /\ error' = "none"
  /\ isRunning' = [n \in Nodes |-> n \in nodes]
  /\ fetcher' = [n \in Nodes |-> IF n \in nodes THEN "top" ELSE "ended"]
  /\ assignments' = [p \in Partitions |-> None]

Running == {n \in Nodes : isRunning[n]}

\* The fetcher's loop ends, and whoever awaits its "end" hears of it.
End(n) ==
  /\ fetcher' = [fetcher EXCEPT ![n] = "ended"]
  /\ isRunning' = [isRunning EXCEPT ![n] = FALSE]
  /\ catchWaits' = catchWaits \ {n}
  /\ stopWaits' = stopWaits \ {n}
  /\ UNCHANGED <<manager, error>>

\* Mutant: start() goes on without waiting for the other fetchers.
ThrowWithoutWaiting(n, kind) ==
  /\ fetcher' = [fetcher EXCEPT ![n] = "ended"]
  /\ stopWaits' = stopWaits \ {n}
  /\ isRunning' = [m \in Nodes |-> FALSE]
  /\ catchWaits' = {}
  /\ manager' = "catching" /\ error' = kind

\* A fetcher throws.  The first time start() catches it and stops the others:
\* stop() waits for the "end" of those that are still meant to run.
Throw(n, kind) ==
  /\ fetcher' = [fetcher EXCEPT ![n] = "ended"]
  /\ stopWaits' = stopWaits \ {n}
  /\ IF manager = "running"
     THEN /\ isRunning' = [m \in Nodes |-> FALSE]
          /\ catchWaits' = Running \ {n}
          /\ manager' = "catching" /\ error' = kind
     ELSE /\ isRunning' = [isRunning EXCEPT ![n] = FALSE]
          /\ catchWaits' = catchWaits \ {n}
          /\ UNCHANGED <<manager, error>>

\* The fetchers changed: make new ones, whether or not the runner was stopped
\* meanwhile.  Any other error is the runner's.
Caught ==
  /\ manager = "catching" /\ catchWaits = {}
  /\ IF error = "rebalance"
     THEN CreateFetchers
     ELSE /\ manager' = "returned"
          /\ UNCHANGED <<error, created, fetcher, isRunning, assignments>>
  /\ UNCHANGED <<metadata, requested, outstanding, failed, work, catchWaits, stopWaits,
                 runner, errors>>

AllEnded ==
  /\ manager = "running" /\ \A n \in created : fetcher[n] = "ended"
  /\ manager' = "returned"
  /\ UNCHANGED <<metadata, error, created, loops, pushes, work, catchWaits, stopWaits,
                 runner, errors>>

----------------------------------------------------------------------------
(* fetcher.start().                                                        *)

\* The loop's condition, then the manager's check of the brokers, then the
\* runner's fetch().  (That returns an empty list at once when the runner is
\* not running: the fetcher goes round without waiting for anything.)
LoopEnds(n) ==
  /\ fetcher[n] = "top" /\ ~isRunning[n]
  /\ End(n)
  /\ UNCHANGED <<metadata, created, requested, pushes, work, runner, errors>>

\* Mutant: looks at the number of brokers only.
HasChangedInNumber == Cardinality(nodes) # Cardinality(created)

HasChanged == nodes # created

BrokersChanged(n) ==
  /\ fetcher[n] = "top" /\ isRunning[n] /\ HasChanged
  /\ Throw(n, "rebalance")
  /\ UNCHANGED <<metadata, created, requested, pushes, work, runner, errors>>

Fetch(n) ==
  /\ fetcher[n] = "top" /\ isRunning[n] /\ ~HasChanged /\ running
  /\ fetcher' = [fetcher EXCEPT ![n] = "fetching"]
  /\ requested' = [requested EXCEPT ![n] = {p \in Partitions : leader[p] = n}]
  /\ UNCHANGED <<metadata, manager, error, created, isRunning, pushes, work,
                 catchWaits, stopWaits, runner, errors>>

Available(n, batches) == {p \in batches : assignments[p] \in {None, n}}

Enqueued(n, batches) ==
  {queue \o order : order \in SetToSeqs({<<p, n>> : p \in batches})}

\* The broker has batches for some of the partitions.
FetchReturns(n) ==
  /\ fetcher[n] = "fetching"
  /\ requested' = [requested EXCEPT ![n] = {}]
  /\ \E batches \in SUBSET requested[n] :
       LET mine == IF isRunning[n] THEN Available(n, batches) ELSE {} IN
       /\ fetcher' = [fetcher EXCEPT ![n] = IF mine = {} THEN "top" ELSE "pushing"]
       /\ assignments' = [p \in Partitions |-> IF p \in mine THEN n ELSE assignments[p]]
       /\ outstanding' = [outstanding EXCEPT ![n] = mine]
       /\ failed' = [failed EXCEPT ![n] = FALSE]
       /\ queue' \in Enqueued(n, mine)
  /\ UNCHANGED <<metadata, manager, error, created, isRunning, worker, catchWaits,
                 stopWaits, runner, errors>>

\* The request, or a heartbeat, fails.
FetchFails(n) ==
  /\ fetcher[n] = "fetching"
  /\ errors < MaxErrors /\ errors' = errors + 1
  /\ requested' = [requested EXCEPT ![n] = {}]
  /\ Throw(n, "other")
  /\ UNCHANGED <<metadata, created, pushes, work, runner>>

\* All batches of the push are settled; the first rejection is thrown.
PushSettles(n) ==
  /\ fetcher[n] = "pushing" /\ outstanding[n] = {}
  /\ assignments' = [p \in Partitions |-> IF assignments[p] = n THEN None ELSE assignments[p]]
  /\ IF failed[n]
     THEN Throw(n, "other")
     ELSE /\ fetcher' = [fetcher EXCEPT ![n] = "top"]
          /\ UNCHANGED <<manager, error, isRunning, catchWaits, stopWaits>>
  /\ failed' = [failed EXCEPT ![n] = FALSE]
  /\ UNCHANGED <<metadata, created, requested, outstanding, work, runner, errors>>

----------------------------------------------------------------------------
(* workerQueue.js and worker.js.                                           *)

\* push() sets every idle worker going; each takes batches until none is left.
Take(w) ==
  /\ worker[w] = None /\ queue # <<>>
  /\ worker' = [worker EXCEPT ![w] = Head(queue)]
  /\ queue' = Tail(queue)
  /\ UNCHANGED <<metadata, manager, error, created, loops, pushes, catchWaits,
                 stopWaits, runner, errors>>

\* handleBatch returns (at once when the runner is not running), or throws.
Settle(w) ==
  /\ worker[w] # None
  /\ LET p == worker[w][1]  n == worker[w][2] IN
     /\ outstanding' = [outstanding EXCEPT ![n] = @ \ {p}]
     /\ \/ UNCHANGED <<failed, errors>>
        \/ /\ errors < MaxErrors /\ errors' = errors + 1
           /\ failed' = [failed EXCEPT ![n] = TRUE]
  /\ worker' = [worker EXCEPT ![w] = None]
  /\ UNCHANGED <<metadata, manager, error, created, loops, assignments, queue,
                 catchWaits, stopWaits, runner>>

----------------------------------------------------------------------------
(* runner.js.                                                              *)

\* scheduleFetchManager, also after the pause that follows an error and after
\* joining again.
Schedule ==
  /\ manager = "returned" /\ consuming
  /\ IF running
     THEN CreateFetchers /\ UNCHANGED consuming
     ELSE /\ consuming' = FALSE
          /\ UNCHANGED <<manager, error, created, fetcher, isRunning, assignments>>
  /\ UNCHANGED <<metadata, requested, outstanding, failed, work, catchWaits, stopWaits,
                 running, stopping, errors>>

Stop ==
  /\ stopping = "no" /\ running
  /\ running' = FALSE /\ stopping' = "fetchers"
  /\ stopWaits' = Running
  /\ isRunning' = [n \in Nodes |-> FALSE]
  /\ UNCHANGED <<metadata, manager, error, created, fetcher, requested, pushes, work,
                 catchWaits, consuming, errors>>

FetchersStopped ==
  /\ stopping = "fetchers" /\ stopWaits = {}
  /\ stopping' = "consumer"
  /\ UNCHANGED <<metadata, manager, error, created, loops, pushes, work, catchWaits,
                 stopWaits, running, consuming, errors>>

\* Mutant: leaves without waiting for the consumer.
LeaveAtOnce ==
  /\ stopping = "consumer"
  /\ stopping' = "left"
  /\ UNCHANGED <<metadata, manager, error, created, loops, pushes, work, catchWaits,
                 stopWaits, running, consuming, errors>>

\* waitForConsumer, and consumerGroup.leave().
Leave ==
  /\ stopping = "consumer" /\ ~consuming
  /\ stopping' = "left"
  /\ UNCHANGED <<metadata, manager, error, created, loops, pushes, work, catchWaits,
                 stopWaits, running, consuming, errors>>

\* The metadata is refreshed: brokers come and go, partitions move.
Refresh ==
  /\ changes < MaxChanges /\ changes' = changes + 1
  /\ nodes' \in (SUBSET Nodes) \ {{}} /\ leader' \in [Partitions -> nodes']
  /\ <<nodes, leader>>' # <<nodes, leader>>
  /\ UNCHANGED <<manager, error, created, loops, pushes, work, catchWaits, stopWaits,
                 runner, errors>>

Managing == Caught \/ AllEnded \/ Schedule
Fetching(n) ==
  LoopEnds(n) \/ BrokersChanged(n) \/ Fetch(n) \/ FetchReturns(n) \/ PushSettles(n)
Working(w) == Take(w) \/ Settle(w)
Stopping == FetchersStopped \/ Leave

Next ==
  \/ Managing
  \/ \E n \in Nodes : Fetching(n) \/ FetchFails(n)
  \/ \E w \in Workers : Working(w)
  \/ Stopping
  \/ Stop
  \/ Refresh

Spec == Init /\ [][Next]_vars

\* Requests and handlers settle and the event loop goes round; nobody has to
\* stop the consumer.
Fairness ==
  /\ WF_vars(Managing) /\ WF_vars(Stopping)
  /\ \A n \in Nodes : WF_vars(Fetching(n))
  /\ \A w \in Workers : WF_vars(Working(w))

FairSpec == Spec /\ Fairness

----------------------------------------------------------------------------
(* Properties.                                                             *)

InHand == (ToSet(queue) \cup {worker[w] : w \in Workers}) \ {None}

\* Two batches of one partition are never waiting or being handled at the same
\* time, also when its leader moves, brokers come and go, and fetchers are made
\* anew after an error: their handlers would resolve offsets over each other.
OneBatchPerPartition ==
  /\ IsInjective(queue)
  /\ \A v, w \in Workers : worker[v] = worker[w] /\ v # w => worker[v] = None
  /\ \A w \in Workers : worker[w] \notin ToSet(queue)
  /\ \A b, c \in InHand : b[1] = c[1] => b = c

\* A consumer that has left the group handles nothing: whichever call of stop()
\* waits for a fetcher, Runner.stop() returns after the last batch.
QuietAfterLeaving == stopping = "left" => InHand = {}

\* Fetchers are made for the brokers there are.
FetchersFollowBrokers == (running /\ nodes # created) ~> (~running \/ nodes = created)
=============================================================================
