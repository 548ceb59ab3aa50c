-------------------------- MODULE FetchManagerProofs --------------------------
(***************************************************************************)
(* Proofs about FetchManager, for any brokers, finitely many partitions,   *)
(* any workers and any number of changes and errors.                       *)
(***************************************************************************)
EXTENDS FetchManager, FiniteSetTheorems, TLAPS

Ended(n) == fetcher[n] = "ended"
Busy(n) == fetcher[n] \in {"fetching", "pushing"}

\* Whenever start() may make new fetchers, the old ones have ended: while they run they are
\* all meant to, or (after stop()) none is; and start() waits for all others after one threw,
\* unless stop() had told them to end and the error was no change of brokers.
Loops ==
  /\ \A n \in Nodes : n \in created \/ Ended(n)
  /\ manager = "running" => \/ \A n \in Nodes : Ended(n) \/ isRunning[n]
                            \/ ~running /\ \A n \in Nodes : ~isRunning[n]
  /\ manager = "catching" /\ (running \/ error = "rebalance") =>
       \A n \in Nodes : Ended(n) \/ n \in catchWaits
  /\ manager = "returned" /\ running => \A n \in Nodes : Ended(n)

\* After stop(), one of its two callers waits for every fetcher that fetches or pushes.
Stopped ==
  /\ stopping = "no" <=> running
  /\ ~running => \A n \in Nodes : Busy(n) =>
       n \in stopWaits \/ (manager = "catching" /\ n \in catchWaits)
  /\ stopping \in {"consumer", "left"} => stopWaits = {}
  /\ ~consuming => manager = "returned" /\ ~running
  /\ stopping = "left" => ~consuming

\* A batch in the queue or with a worker is outstanding for its fetcher, which waits for it
\* and has the partition assigned.
Pushes ==
  /\ \A n \in Nodes : outstanding[n] # {} => fetcher[n] = "pushing"
  /\ \A n \in Nodes, p \in Partitions : p \in outstanding[n] => assignments[p] = n
  /\ \A i \in DOMAIN queue : queue[i][1] \in outstanding[queue[i][2]]
  /\ \A w \in Workers : worker[w] # None => worker[w][1] \in outstanding[worker[w][2]]

\* No batch is there twice.
Unique ==
  /\ \A i, j \in DOMAIN queue : queue[i] = queue[j] => i = j
  /\ \A v, w \in Workers : worker[v] = worker[w] /\ v # w => worker[v] = None
  /\ \A w \in Workers, i \in DOMAIN queue : worker[w] # queue[i]

IInv == TypeOK /\ Loops /\ Stopped /\ Pushes /\ Unique


----------------------------------------------------------------------------
(* Sequences of batches. *)

\* The queue with one batch of each of some partitions at its end, in any order.
LEMMA EnqueuedBatches ==
  ASSUME NEW n \in Nodes, NEW mine \in SUBSET Partitions, queue \in Seq(Batches),
         NEW q, q \in Enqueued(n, mine)
  PROVE  /\ q \in Seq(Batches)
         /\ DOMAIN queue \subseteq DOMAIN q
         /\ \A i \in DOMAIN queue : q[i] = queue[i]
         /\ \A i \in DOMAIN q \ DOMAIN queue : q[i] \in mine \X {n}
         /\ \A i, j \in DOMAIN q \ DOMAIN queue : q[i] = q[j] => i = j
<1> DEFINE S == {<<p, n>> : p \in mine}
<1>1. IsFiniteSet(S)
  <2>1. IsFiniteSet(mine)
    BY PartitionsAssumption, FS_Subset DEF PartitionsAssumption
  <2> DEFINE f == [p \in mine |-> <<p, n>>]
  <2>2. f \in Surjection(mine, S)
    BY DEF Surjection
  <2> QED
    BY <2>1, <2>2, FS_Surjection
<1>2. Cardinality(S) \in Nat
  BY <1>1, FS_CardinalityType
<1>3. PICK order \in SetToSeqs(S) : q = queue \o order
  BY DEF Enqueued
<1>4. /\ order \in [1..Cardinality(S) -> S]
      /\ \A i, j \in 1..Cardinality(S) : i # j => order[i] # order[j]
  BY DEF SetToSeqs
<1>5. S \subseteq Batches /\ S \subseteq mine \X {n}
  BY DEF Batches
<1>6. order \in Seq(Batches) /\ Len(order) = Cardinality(S)
  BY <1>2, <1>4, <1>5
<1>7. DOMAIN q = 1..(Len(queue) + Len(order)) /\ q \in Seq(Batches)
  BY <1>3, <1>6
<1>8. \A i \in DOMAIN q \ DOMAIN queue :
        i - Len(queue) \in 1..Len(order) /\ q[i] = order[i - Len(queue)]
  BY <1>3, <1>6, <1>7
<1>9. \A i \in DOMAIN queue : i \in DOMAIN q /\ q[i] = queue[i]
  BY <1>3, <1>6, <1>7
<1>10. \A i \in DOMAIN q \ DOMAIN queue : q[i] \in mine \X {n}
  BY <1>4, <1>5, <1>6, <1>8
<1>11. ASSUME NEW i \in DOMAIN q \ DOMAIN queue, NEW j \in DOMAIN q \ DOMAIN queue, q[i] = q[j]
       PROVE  i = j
  <2>1. i - Len(queue) = j - Len(queue)
    BY <1>4, <1>6, <1>8, <1>11
  <2>2. i \in Nat /\ j \in Nat /\ Len(queue) \in Nat
    BY <1>7
  <2> QED
    BY <2>1, <2>2
<1> QED
  BY <1>7, <1>9, <1>10, <1>11

----------------------------------------------------------------------------
(* The initial states, and steps that change nothing. *)

LEMMA InitIInv == Init => IInv
<1> SUFFICES ASSUME Init PROVE IInv
  OBVIOUS
<1>1. TypeOK
  BY BoundsAssumption DEF Init, TypeOK, BoundsAssumption
<1>2. Loops /\ Stopped
  BY DEF Init, Loops, Stopped, Ended, Busy
<1>3. Pushes /\ Unique
  BY DEF Init, Pushes, Unique
<1> QED
  BY <1>1, <1>2, <1>3 DEF IInv

LEMMA StutterIInv == IInv /\ UNCHANGED vars => IInv'
  BY DEF IInv, TypeOK, Loops, Stopped, Pushes, Unique, Ended, Busy, vars, metadata, loops,
         pushes, work, runner

----------------------------------------------------------------------------
(* Types are kept by every step. *)

FetchersTyped ==
  /\ manager \in {"running", "catching", "returned"} /\ error \in {"none", "rebalance", "other"}
  /\ created \subseteq Nodes
  /\ fetcher \in [Nodes -> {"top", "fetching", "pushing", "ended"}]
  /\ isRunning \in [Nodes -> BOOLEAN]
  /\ assignments \in [Partitions -> Nodes \cup {None}]
  /\ catchWaits \subseteq Nodes /\ stopWaits \subseteq Nodes

LEMMA CreateFetchersTypes ==
  ASSUME TypeOK, CreateFetchers, UNCHANGED <<catchWaits, stopWaits>>
  PROVE  FetchersTyped'
  BY DEF TypeOK, FetchersTyped, CreateFetchers

LEMMA ThrowTypes ==
  ASSUME TypeOK, NEW n \in Nodes, NEW kind \in {"rebalance", "other"}, Throw(n, kind),
         assignments' \in [Partitions -> Nodes \cup {None}], UNCHANGED created
  PROVE  FetchersTyped'
  BY DEF TypeOK, FetchersTyped, Throw, Running

LEMMA NextTypeOK == TypeOK /\ [Next]_vars => TypeOK'
<1> SUFFICES ASSUME TypeOK, [Next]_vars PROVE TypeOK'
  OBVIOUS
<1> USE DEF TypeOK, metadata, loops, pushes, work, runner
<1>1. CASE UNCHANGED vars
  BY <1>1 DEF vars
<1>2. CASE Managing
  <2>1. CASE Caught
    <3>1. FetchersTyped'
      <4>1. CASE error = "rebalance"
        BY <2>1, <4>1, CreateFetchersTypes DEF Caught
      <4>2. CASE error # "rebalance"
        BY <2>1, <4>2 DEF Caught, FetchersTyped
      <4> QED
        BY <4>1, <4>2
    <3> QED
      BY <2>1, <3>1 DEF Caught, FetchersTyped
  <2>2. CASE AllEnded
    BY <2>2 DEF AllEnded
  <2>3. CASE Schedule
    <3>1. FetchersTyped' /\ consuming' \in BOOLEAN
      <4>1. CASE running
        BY <2>3, <4>1, CreateFetchersTypes DEF Schedule
      <4>2. CASE ~running
        BY <2>3, <4>2 DEF Schedule, FetchersTyped
      <4> QED
        BY <4>1, <4>2
    <3> QED
      BY <2>3, <3>1 DEF Schedule, FetchersTyped
  <2> QED
    BY <1>2, <2>1, <2>2, <2>3 DEF Managing
<1>3. ASSUME NEW n \in Nodes, Fetching(n) PROVE TypeOK'
  <2>1. CASE LoopEnds(n)
    BY <2>1 DEF LoopEnds, End
  <2>2. CASE BrokersChanged(n)
    BY <2>2 DEF BrokersChanged, Throw, Running
  <2>3. CASE Fetch(n)
    BY <2>3 DEF Fetch
  <2>4. CASE FetchReturns(n)
    <3>1. PICK batches \in SUBSET requested[n] :
            LET mine == IF isRunning[n] THEN Available(n, batches) ELSE {} IN
            /\ fetcher' = [fetcher EXCEPT ![n] = IF mine = {} THEN "top" ELSE "pushing"]
            /\ assignments' = [p \in Partitions |-> IF p \in mine THEN n ELSE assignments[p]]
            /\ outstanding' = [outstanding EXCEPT ![n] = mine]
            /\ failed' = [failed EXCEPT ![n] = FALSE]
            /\ queue' \in Enqueued(n, mine)
      BY <2>4 DEF FetchReturns
    <3> DEFINE mine == IF isRunning[n] THEN Available(n, batches) ELSE {}
    <3>2. mine \in SUBSET Partitions
      BY DEF Available
    <3>3. queue' \in Seq(Batches)
      BY <3>1, <3>2, EnqueuedBatches
    <3>4. /\ assignments' \in [Partitions -> Nodes \cup {None}]
          /\ outstanding' \in [Nodes -> SUBSET Partitions]
      <4> HIDE DEF mine
      <4> QED
        BY <3>1, <3>2 DEF mine
    <3>5. /\ fetcher' \in [Nodes -> {"top", "fetching", "pushing", "ended"}]
          /\ failed' \in [Nodes -> BOOLEAN] /\ requested' \in [Nodes -> SUBSET Partitions]
      BY <2>4, <3>1 DEF FetchReturns
    <3> QED
      BY <2>4, <3>3, <3>4, <3>5 DEF FetchReturns
  <2>5. CASE PushSettles(n)
    <3>1. assignments' \in [Partitions -> Nodes \cup {None}]
      BY <2>5 DEF PushSettles
    <3>2. CASE failed[n]
      <4>1. FetchersTyped'
        BY <2>5, <3>1, <3>2, ThrowTypes DEF PushSettles
      <4> QED
        BY <2>5, <3>1, <4>1 DEF PushSettles, FetchersTyped
    <3>3. CASE ~failed[n]
      BY <2>5, <3>1, <3>3 DEF PushSettles
    <3> QED
      BY <3>2, <3>3
  <2> QED
    BY <1>3, <2>1, <2>2, <2>3, <2>4, <2>5 DEF Fetching
<1>4. ASSUME NEW n \in Nodes, FetchFails(n) PROVE TypeOK'
  <2>1. FetchersTyped'
    BY <1>4, ThrowTypes DEF FetchFails
  <2>2. errors' \in 0..MaxErrors
    BY <1>4, BoundsAssumption DEF FetchFails, BoundsAssumption
  <2> QED
    BY <1>4, <2>1, <2>2 DEF FetchFails, FetchersTyped
<1>5. ASSUME NEW w \in Workers, Working(w) PROVE TypeOK'
  <2>1. CASE Take(w)
    BY <2>1 DEF Take
  <2>2. CASE Settle(w)
    <3>1. worker[w] \in Batches
      BY <2>2 DEF Settle
    <3>2. outstanding' \in [Nodes -> SUBSET Partitions]
      BY <2>2, <3>1 DEF Settle, Batches
    <3>3. failed' \in [Nodes -> BOOLEAN] /\ errors' \in 0..MaxErrors
      <4>1. \/ UNCHANGED <<failed, errors>>
            \/ /\ errors < MaxErrors /\ errors' = errors + 1
               /\ failed' = [failed EXCEPT ![worker[w][2]] = TRUE]
        BY <2>2 DEF Settle
      <4>2. failed' \in [Nodes -> BOOLEAN]
        BY <4>1
      <4>3. errors' \in 0..MaxErrors
        BY <4>1, BoundsAssumption DEF BoundsAssumption
      <4> QED
        BY <4>2, <4>3
    <3> QED
      BY <2>2, <3>2, <3>3 DEF Settle
  <2> QED
    BY <1>5, <2>1, <2>2 DEF Working
<1>6. CASE Stopping
  BY <1>6 DEF Stopping, FetchersStopped, Leave
<1>7. CASE Stop
  BY <1>7 DEF Stop, Running
<1>8. CASE Refresh
  BY <1>8, BoundsAssumption DEF Refresh, BoundsAssumption
<1> QED
  BY <1>1, <1>2, <1>3, <1>4, <1>5, <1>6, <1>7, <1>8 DEF Next

----------------------------------------------------------------------------
(* The fetchers and those that wait for them. *)

\* A fetcher that throws has ended, and start() waits for the others.
LEMMA ThrowWaits ==
  ASSUME IInv, NEW n \in Nodes, NEW kind \in {"rebalance", "other"}, Throw(n, kind),
         ~Ended(n), kind = "rebalance" => isRunning[n], UNCHANGED <<created, runner>>
  PROVE  Loops' /\ Stopped'
<1> USE DEF IInv, TypeOK, Ended, runner
<1>1. /\ fetcher'[n] = "ended" /\ \A m \in Nodes : m # n => fetcher'[m] = fetcher[m]
      /\ \A m \in Nodes : m # n => (m \in stopWaits <=> m \in stopWaits')
      /\ stopWaits' \subseteq stopWaits
  BY DEF Throw
<1>2. CASE manager = "running"
  <2>1. /\ manager' = "catching" /\ error' = kind /\ catchWaits' = Running \ {n}
        /\ \A m \in Nodes : ~isRunning'[m]
    BY <1>2 DEF Throw
  <2>2. running \/ kind = "rebalance" =>
          \A m \in Nodes : Ended(m) \/ isRunning[m]
    BY <1>2 DEF Loops
  <2>3. Loops'
    BY <1>1, <2>1, <2>2 DEF Loops, Running
  <2>4. Stopped'
    BY <1>1, <1>2, <2>1, <2>2 DEF Stopped, Running, Busy
  <2> QED
    BY <2>3, <2>4
<1>3. CASE manager # "running"
  <2>1. /\ UNCHANGED <<manager, error>> /\ catchWaits' = catchWaits \ {n}
    BY <1>3 DEF Throw
  <2>2. Loops'
    BY <1>1, <1>3, <2>1 DEF Loops
  <2>3. Stopped'
    BY <1>1, <1>3, <2>1 DEF Stopped, Busy
  <2> QED
    BY <2>2, <2>3
<1> QED
  BY <1>2, <1>3

LEMMA NextLoops == IInv /\ [Next]_vars => Loops' /\ Stopped'
<1> SUFFICES ASSUME IInv, [Next]_vars PROVE Loops' /\ Stopped'
  OBVIOUS
<1> USE DEF IInv, TypeOK, Ended, Busy, metadata, loops, pushes, work, runner
<1>1. CASE UNCHANGED vars
  BY <1>1 DEF vars, Loops, Stopped
<1>2. CASE Caught
  BY <1>2 DEF Caught, CreateFetchers, Loops, Stopped
<1>3. CASE AllEnded
  BY <1>3 DEF AllEnded, Loops, Stopped
<1>4. CASE Schedule
  <2>1. CASE running
    <3>1. CreateFetchers /\ UNCHANGED <<consuming, runner, catchWaits, stopWaits>>
      BY <1>4, <2>1 DEF Schedule
    <3>2. Loops'
      BY <3>1 DEF CreateFetchers, Loops
    <3>3. Stopped'
      BY <2>1, <3>1 DEF CreateFetchers, Stopped
    <3> QED
      BY <3>2, <3>3
  <2>2. CASE ~running
    BY <1>4, <2>2 DEF Schedule, Loops, Stopped
  <2> QED
    BY <2>1, <2>2
<1>5. ASSUME NEW n \in Nodes, Fetching(n) PROVE Loops' /\ Stopped'
  <2>1. CASE LoopEnds(n)
    <3>1. Loops'
      BY <2>1 DEF LoopEnds, End, Loops
    <3>2. Stopped'
      BY <2>1 DEF LoopEnds, End, Stopped
    <3> QED
      BY <3>1, <3>2
  <2>2. CASE BrokersChanged(n)
    BY <2>2, ThrowWaits DEF BrokersChanged
  <2>3. CASE Fetch(n)
    BY <2>3 DEF Fetch, Loops, Stopped
  <2>4. CASE FetchReturns(n)
    <3>1. /\ fetcher[n] = "fetching" /\ fetcher'[n] # "ended"
          /\ \A m \in Nodes : m # n => fetcher'[m] = fetcher[m]
          /\ UNCHANGED <<manager, error, created, isRunning, catchWaits, stopWaits, runner>>
      BY <2>4 DEF FetchReturns
    <3> QED
      BY <3>1 DEF Loops, Stopped
  <2>5. CASE PushSettles(n)
    <3>1. CASE failed[n]
      BY <2>5, <3>1, ThrowWaits DEF PushSettles
    <3>2. CASE ~failed[n]
      BY <2>5, <3>2 DEF PushSettles, Loops, Stopped
    <3> QED
      BY <3>1, <3>2
  <2> QED
    BY <1>5, <2>1, <2>2, <2>3, <2>4, <2>5 DEF Fetching
<1>6. ASSUME NEW n \in Nodes, FetchFails(n) PROVE Loops' /\ Stopped'
  BY <1>6, ThrowWaits DEF FetchFails
<1>7. ASSUME NEW w \in Workers, Working(w) PROVE Loops' /\ Stopped'
  BY <1>7 DEF Working, Take, Settle, Loops, Stopped
<1>8. CASE Stopping
  BY <1>8 DEF Stopping, FetchersStopped, Leave, Loops, Stopped
<1>9. CASE Stop
  BY <1>9 DEF Stop, Running, Loops, Stopped
<1>10. CASE Refresh
  BY <1>10 DEF Refresh, Loops, Stopped
<1> QED
  BY <1>1, <1>2, <1>3, <1>4, <1>5, <1>6, <1>7, <1>8, <1>9, <1>10 DEF Next, Managing

----------------------------------------------------------------------------
(* The batches. *)

\* Ending is for fetchers without an outstanding batch: what is outstanding stays, and stays
\* assigned.
LEMMA NextPushes == IInv /\ [Next]_vars => Pushes' /\ Unique'
<1> SUFFICES ASSUME IInv, [Next]_vars PROVE Pushes' /\ Unique'
  OBVIOUS
<1> USE DEF IInv, TypeOK, metadata, loops, pushes, work, runner
<1>1. CASE UNCHANGED vars
  BY <1>1 DEF vars, Pushes, Unique
<1>2. ASSUME \A n \in Nodes : outstanding[n] = {}, UNCHANGED <<outstanding, work>>
      PROVE  Pushes' /\ Unique'
  BY <1>2 DEF Pushes, Unique
<1>3. ASSUME UNCHANGED <<outstanding, work>>,
             \A n \in Nodes : outstanding[n] # {} => fetcher'[n] = fetcher[n],
             \A p \in Partitions : assignments'[p] = assignments[p]
               \/ \A n \in Nodes : p \notin outstanding[n]
      PROVE  Pushes' /\ Unique'
  BY SMTT(30), <1>3 DEF Pushes, Unique
<1>4. (\A n \in Nodes : Ended(n)) => \A n \in Nodes : outstanding[n] = {}
  BY DEF Ended, Pushes
<1>5. CASE Caught
  BY <1>2, <1>3, <1>4, <1>5 DEF Caught, Loops
<1>6. CASE Schedule
  BY <1>2, <1>3, <1>4, <1>6 DEF Schedule, Loops
<1>7. CASE AllEnded \/ Stopping \/ Stop \/ Refresh
  BY <1>3, <1>7 DEF AllEnded, Stopping, FetchersStopped, Leave, Stop, Refresh
<1>8. ASSUME NEW n \in Nodes, Fetching(n) \/ FetchFails(n) PROVE Pushes' /\ Unique'
  <2>1. CASE LoopEnds(n) \/ BrokersChanged(n) \/ Fetch(n) \/ FetchFails(n)
    <3>1. fetcher[n] # "pushing" /\ \A m \in Nodes : m # n => fetcher'[m] = fetcher[m]
      BY <2>1 DEF LoopEnds, End, BrokersChanged, Throw, Fetch, FetchFails
    <3>2. UNCHANGED <<outstanding, work, assignments>>
      BY <2>1 DEF LoopEnds, BrokersChanged, Fetch, FetchFails
    <3> QED
      BY <1>3, <3>1, <3>2 DEF Pushes
  <2>2. CASE PushSettles(n)
    <3>1. outstanding[n] = {} /\ \A m \in Nodes : m # n => fetcher'[m] = fetcher[m]
      BY <2>2 DEF PushSettles, Throw
    <3>2. /\ UNCHANGED <<outstanding, work>>
          /\ \A p \in Partitions : assignments[p] # n => assignments'[p] = assignments[p]
      BY <2>2 DEF PushSettles
    <3>3. \A p \in Partitions : assignments'[p] = assignments[p]
            \/ \A m \in Nodes : p \notin outstanding[m]
      BY <3>1, <3>2 DEF Pushes
    <3> QED
      BY <1>3, <3>1, <3>2, <3>3
  <2>3. CASE FetchReturns(n)
    <3>1. PICK batches \in SUBSET requested[n] :
            LET mine == IF isRunning[n] THEN Available(n, batches) ELSE {} IN
            /\ fetcher' = [fetcher EXCEPT ![n] = IF mine = {} THEN "top" ELSE "pushing"]
            /\ assignments' = [p \in Partitions |-> IF p \in mine THEN n ELSE assignments[p]]
            /\ outstanding' = [outstanding EXCEPT ![n] = mine]
            /\ queue' \in Enqueued(n, mine)
      BY <2>3 DEF FetchReturns
    <3> DEFINE mine == IF isRunning[n] THEN Available(n, batches) ELSE {}
    <3>2. mine \in SUBSET Partitions /\ \A p \in mine : assignments[p] \in {None, n}
      BY DEF Available
    <3>3. /\ DOMAIN queue \subseteq DOMAIN queue'
          /\ \A i \in DOMAIN queue : queue'[i] = queue[i]
          /\ \A i \in DOMAIN queue' \ DOMAIN queue : queue'[i] \in mine \X {n}
          /\ \A i, j \in DOMAIN queue' \ DOMAIN queue : queue'[i] = queue'[j] => i = j
      BY <3>1, <3>2, EnqueuedBatches
    <3>4. /\ fetcher'[n] = IF mine = {} THEN "top" ELSE "pushing"
          /\ \A m \in Nodes : m # n => fetcher'[m] = fetcher[m]
          /\ outstanding'[n] = mine
          /\ \A m \in Nodes : m # n => outstanding'[m] = outstanding[m]
          /\ \A p \in Partitions : assignments'[p] = IF p \in mine THEN n ELSE assignments[p]
          /\ worker' = worker
      BY <2>3, <3>1 DEF FetchReturns
    <3>5. outstanding[n] = {}
      BY <2>3 DEF FetchReturns, Pushes
    <3> HIDE DEF mine
    <3>6. \A i \in DOMAIN queue : queue[i] \in Batches /\ queue[i][2] # n
      BY <3>5 DEF Pushes
    <3>7. \A w \in Workers : worker[w] # None => worker[w] \in Batches /\ worker[w][2] # n
      BY <3>5 DEF Pushes
    <3>8. Unique'
      <4>1. \A i \in DOMAIN queue, j \in DOMAIN queue' \ DOMAIN queue : queue'[i] # queue'[j]
        BY <3>3, <3>6
      <4>2. \A w \in Workers, i \in DOMAIN queue' \ DOMAIN queue : worker[w] # queue'[i]
        BY <3>2, <3>3, <3>7, NoneAssumption DEF NoneAssumption
      <4> QED
        BY SMTT(30), <3>3, <3>4, <4>1, <4>2 DEF Unique
    <3>9. Pushes'
      <4>1. \A m \in Nodes : outstanding'[m] # {} => fetcher'[m] = "pushing"
        BY <3>4 DEF Pushes
      <4>2. \A m \in Nodes, p \in Partitions : p \in outstanding'[m] => assignments'[p] = m
        BY <3>2, <3>4, NoneAssumption DEF Pushes, NoneAssumption
      <4>3. \A i \in DOMAIN queue' : queue'[i][1] \in outstanding'[queue'[i][2]]
        <5>1. \A i \in DOMAIN queue : queue'[i][1] \in outstanding'[queue'[i][2]]
          BY <3>3, <3>4, <3>6 DEF Pushes, Batches
        <5>2. \A i \in DOMAIN queue' \ DOMAIN queue :
                 queue'[i][1] \in outstanding'[queue'[i][2]]
          BY <3>3, <3>4
        <5> QED
          BY <5>1, <5>2
      <4>4. \A w \in Workers : worker'[w] # None =>
              worker'[w][1] \in outstanding'[worker'[w][2]]
        BY <3>4, <3>7 DEF Pushes, Batches
      <4> QED
        BY <4>1, <4>2, <4>3, <4>4 DEF Pushes
    <3> QED
      BY <3>8, <3>9
  <2> QED
    BY <1>8, <2>1, <2>2, <2>3 DEF Fetching
<1>9. ASSUME NEW w \in Workers, Take(w) PROVE Pushes' /\ Unique'
  <2>1. /\ worker[w] = None /\ Len(queue) > 0 /\ worker'[w] = queue[1]
        /\ \A v \in Workers : v # w => worker'[v] = worker[v]
        /\ UNCHANGED <<outstanding, fetcher, assignments>>
    BY <1>9 DEF Take
  <2>2. /\ DOMAIN queue' = 1..(Len(queue) - 1)
        /\ \A i \in DOMAIN queue' : i + 1 \in DOMAIN queue /\ queue'[i] = queue[i + 1]
    BY <1>9, <2>1 DEF Take
  <2>3. Pushes'
    <3>1. 1 \in DOMAIN queue
      BY <2>1
    <3>2. \A i \in DOMAIN queue' : queue'[i][1] \in outstanding'[queue'[i][2]]
      BY <2>1, <2>2 DEF Pushes
    <3>3. \A v \in Workers : worker'[v] # None
              => worker'[v][1] \in outstanding'[worker'[v][2]]
      BY <2>1, <3>1 DEF Pushes
    <3> QED
      BY <2>1, <3>2, <3>3 DEF Pushes
  <2>4. Unique'
    <3>1. \A i, j \in DOMAIN queue' : queue'[i] = queue'[j] => i = j
      BY <2>2 DEF Unique
    <3>2. \A u, v \in Workers : worker'[u] = worker'[v] /\ u # v => worker'[u] = None
      BY <2>1 DEF Unique
    <3>3. \A v \in Workers, i \in DOMAIN queue' : worker'[v] # queue'[i]
      BY <2>1, <2>2 DEF Unique
    <3> QED
      BY <3>1, <3>2, <3>3 DEF Unique
  <2> QED
    BY <2>3, <2>4
<1>10. ASSUME NEW w \in Workers, Settle(w) PROVE Pushes' /\ Unique'
  <2> DEFINE p == worker[w][1]  n == worker[w][2]
  <2>1. worker[w] \in Batches /\ worker[w] # None /\ worker'[w] = None
    BY <1>10 DEF Settle
  <2>2. p \in Partitions /\ n \in Nodes /\ worker[w] = <<p, n>>
    BY <2>1 DEF Batches
  <2>3. /\ outstanding'[n] = outstanding[n] \ {p}
        /\ \A m \in Nodes : m # n => outstanding'[m] = outstanding[m]
        /\ \A v \in Workers : v # w => worker'[v] = worker[v]
        /\ UNCHANGED <<queue, fetcher, assignments>>
    BY <1>10, <2>2 DEF Settle
  <2> HIDE DEF p, n
  <2>4. \A b \in Batches : b # worker[w] /\ b[1] \in outstanding[b[2]]
                              => b[1] \in outstanding'[b[2]]
    BY <2>2, <2>3 DEF Batches
  <2>5. \A i \in DOMAIN queue : queue[i][1] \in outstanding'[queue[i][2]]
    BY <2>4 DEF Pushes, Unique
  <2>6. \A v \in Workers : worker'[v] # None => worker'[v][1] \in outstanding'[worker'[v][2]]
    BY <2>1, <2>3, <2>4 DEF Pushes, Unique
  <2>7. Pushes'
    BY <2>2, <2>3, <2>5, <2>6 DEF Pushes
  <2>8. Unique'
    <3>1. \A i \in DOMAIN queue : queue[i] # None
      <4>1. \A i \in DOMAIN queue : queue[i] \in Batches
        OBVIOUS
      <4> QED
        BY <4>1, NoneAssumption DEF NoneAssumption, Batches
    <3>2. \A v \in Workers, i \in DOMAIN queue' : worker'[v] # queue'[i]
      BY <2>1, <2>3, <3>1 DEF Unique
    <3>3. \A u, v \in Workers : worker'[u] = worker'[v] /\ u # v => worker'[u] = None
      BY <2>1, <2>3 DEF Unique
    <3> QED
      BY <2>3, <3>2, <3>3 DEF Unique
  <2> QED
    BY <2>7, <2>8
<1> QED
  BY <1>1, <1>5, <1>6, <1>7, <1>8, <1>9, <1>10 DEF Next, Managing, Working

----------------------------------------------------------------------------
(* The theorems. *)

LEMMA FetchInvariant == Spec => []IInv
<1>1. Init => IInv
  BY InitIInv
<1>2. IInv /\ [Next]_vars => IInv'
  BY NextTypeOK, NextLoops, NextPushes DEF IInv
<1> QED
  BY <1>1, <1>2, PTL DEF Spec

\* Types are kept, for any brokers, partitions and workers.
THEOREM FetchTypes == Spec => []TypeOK
<1>1. IInv => TypeOK
  BY DEF IInv
<1> QED
  BY <1>1, FetchInvariant, PTL

\* However brokers come and go, fetchers fail and stop() is called, no two batches of a
\* partition are waiting or being handled at the same time.
THEOREM FetchOneBatch == Spec => []OneBatchPerPartition
<1>1. ASSUME IInv PROVE OneBatchPerPartition
  <2> USE <1>1 DEF IInv, TypeOK
  <2>1. IsInjective(queue)
    BY DEF Unique, IsInjective
  <2>2. \A w \in Workers : worker[w] \notin ToSet(queue)
    BY DEF Unique, ToSet
  <2>3. \A b \in InHand : b \in Batches /\ b[1] \in outstanding[b[2]]
    BY DEF InHand, ToSet, Pushes
  <2>4. \A b, c \in InHand : b[1] = c[1] => b = c
    BY <2>3 DEF Pushes, Batches
  <2> QED
    BY <2>1, <2>2, <2>4 DEF Unique, OneBatchPerPartition
<1> QED
  BY <1>1, FetchInvariant, PTL

\* When the consumer has left its group, no batch is waiting or being handled.
THEOREM FetchQuiet == Spec => []QuietAfterLeaving
<1>1. ASSUME IInv PROVE QuietAfterLeaving
  <2> USE <1>1 DEF IInv, TypeOK
  <2>1. ASSUME stopping = "left" PROVE \A n \in Nodes : outstanding[n] = {}
    BY <2>1 DEF Stopped, Pushes, Busy
  <2>2. \A b \in InHand : b \in Batches /\ b[1] \in outstanding[b[2]]
    BY DEF InHand, ToSet, Pushes
  <2> QED
    BY <2>1, <2>2 DEF QuietAfterLeaving, Batches
<1> QED
  BY <1>1, FetchInvariant, PTL
=============================================================================
