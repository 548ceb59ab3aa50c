------------------------------- MODULE Producer -------------------------------
(***************************************************************************)
(* Sending messages with the kafkajs producer: sendMessages.js with its    *)
(* retries, the sequence numbers and locks of eosManager/index.js for the  *)
(* idempotent producer, and the brokers it writes to.                      *)
(*                                                                         *)
(* A send is cut into one request per broker that leads a partition of it. *)
(* When one request fails, the whole function runs again; what the send    *)
(* remembers between its runs is responsePerBroker.                        *)
(***************************************************************************)
EXTENDS Naturals, Sequences, SequencesExt, FiniteSets, FiniteSetsExt, Functions

CONSTANTS
  Sends,         \* numbered in the order they are called
  Partitions, Brokers,
  Partitionings, \* send -> the ways the partitioner may lay out its messages:
                 \* functions from partitions to numbers of messages
  Leader,        \* partition -> leader at first
  Idempotent,    \* the producer's option
  Concurrent,    \* whether the caller starts a send before the last has ended
  LosesAnswers,  \* whether a request may fail after it was written
  Retries,
  MaxFailures, MaxMoves

SendsAssumption == Sends \subseteq Nat /\ IsFiniteSet(Sends)
BoundsAssumption ==
  /\ Retries \in Nat /\ MaxFailures \in Nat /\ MaxMoves \in Nat
  /\ \A s \in Sends : \A parts \in Partitionings[s] : \A p \in DOMAIN parts :
       p \in Partitions /\ parts[p] \in Nat \ {0}

VARIABLES
  leader, log,        \* of each partition; log: batches [send, first, size]
  metadata,           \* the leaders the client knows
  generation,         \* broker -> how many objects stood for it so far
  producerSequence, brokerMutexLocks,  \* a lock is its holder and those who wait
  wire,               \* broker -> requests it has yet to handle
  requests,           \* request -> [topicData, first, answer]
  phase, attempt, pending, responsePerBroker, stale,  \* per send
  failures, moves

cluster == <<leader, log, metadata, generation, moves>>
eos == <<producerSequence, brokerMutexLocks>>
sending == <<phase, attempt, pending, responsePerBroker, stale>>
vars == <<cluster, eos, wire, requests, sending, failures>>

\* A request is named by its send, the attempt and the broker object.
Send(r) == r[1]
Node(r) == r[3][1]
BrokerObjects == Brokers \X Nat

TypeOK ==
  /\ leader \in [Partitions -> Brokers] /\ metadata \in [Partitions -> Brokers]
  /\ \A p \in Partitions : \A i \in 1..Len(log[p]) :
       log[p][i].send \in Sends /\ log[p][i].first \in Nat
  /\ generation \in [Brokers -> Nat]
  /\ producerSequence \in [Partitions -> Nat]
  /\ \A b \in Brokers :
       /\ ToSet(brokerMutexLocks[b]) \subseteq DOMAIN requests
       /\ ToSet(wire[b]) \subseteq DOMAIN requests
  /\ phase \in [Sends -> {"ready", "sending", "retry", "done", "failed"}]
  /\ \A s \in Sends : /\ pending[s] \subseteq DOMAIN requests
                      /\ DOMAIN responsePerBroker[s] \subseteq BrokerObjects
                      /\ attempt[s] \in 0..(Retries + 1) /\ stale[s] \in BOOLEAN
  /\ failures \in 0..MaxFailures /\ moves \in 0..MaxMoves

Init ==
  /\ leader = Leader /\ metadata = Leader /\ moves = 0
  /\ log = [p \in Partitions |-> <<>>]
  /\ generation = [b \in Brokers |-> 0]
  /\ producerSequence = [p \in Partitions |-> 0]
  /\ brokerMutexLocks = [b \in Brokers |-> <<>>]
  /\ wire = [b \in Brokers |-> <<>>]
  /\ requests = <<>>
  /\ phase = [s \in Sends |-> "ready"] /\ attempt = [s \in Sends |-> 0]
  /\ pending = [s \in Sends |-> {}] /\ stale = [s \in Sends |-> FALSE]
  /\ responsePerBroker = [s \in Sends |-> <<>>]
  /\ failures = 0

----------------------------------------------------------------------------
(* One run of the retried function.                                        *)

Without(f, S) == [x \in DOMAIN f \ S |-> f[x]]

\* The caller has called send() with these messages.
Called(s) ==
  \/ phase[s] = "retry"
  \/ /\ phase[s] = "ready"
     /\ \/ Concurrent
        \/ \A t \in Sends : t # s =>
             phase[t] \in (IF t < s THEN {"done", "failed"} ELSE {"ready"})

\* The metadata are refreshed if the last run found them stale, the messages are
\* partitioned, and each broker object without an answer is sent what its node leads.
CreateProducerRequests(s) ==
  /\ Called(s)
  /\ metadata' = IF stale[s] THEN leader ELSE metadata
  /\ \E parts \in Partitionings[s] :
       LET known == responsePerBroker[s]
           leaders == {<<metadata'[p], generation[metadata'[p]]>> : p \in DOMAIN parts}
           response == [o \in DOMAIN known \cup leaders |->
                          o \in DOMAIN known /\ known[o]]
           new == {<<s, attempt[s] + 1, o>> : o \in {o \in DOMAIN response : ~response[o]}}
           data(r) == Restrict(parts, {p \in DOMAIN parts : metadata'[p] = Node(r)})
       IN /\ responsePerBroker' = [responsePerBroker EXCEPT ![s] = response]
          /\ requests' = [r \in DOMAIN requests \cup new |->
               IF r \in new THEN [topicData |-> data(r), first |-> <<>>, answer |-> "none"]
               ELSE requests[r]]
          /\ brokerMutexLocks' = [b \in Brokers |->
               brokerMutexLocks[b] \o SetToSeq({r \in new : Node(r) = b})]
          /\ pending' = [pending EXCEPT ![s] = new]
          /\ phase' = [phase EXCEPT ![s] = IF new = {} THEN "done" ELSE "sending"]
  /\ attempt' = [attempt EXCEPT ![s] = @ + 1]
  /\ stale' = [stale EXCEPT ![s] = FALSE]
  /\ UNCHANGED <<leader, log, generation, moves, producerSequence, wire, failures>>

\* The request has the lock of its broker; without idempotence there is none.
HasLock(r) ==
  /\ r \in ToSet(brokerMutexLocks[Node(r)])
  /\ Idempotent => r = Head(brokerMutexLocks[Node(r)])

\* Whether a request has been handed to its broker and not been given up.
Sent(r) == HasLock(r) /\ requests[r].first # <<>>

Waiting(r) ==
  /\ r \in ToSet(brokerMutexLocks[Node(r)])
  /\ requests[r].first = <<>> /\ requests[r].answer = "none"

\* With the lock, sequences are taken and the request is sent.
Produce(r) ==
  /\ Waiting(r) /\ HasLock(r)
  /\ LET data == requests[r].topicData IN
     /\ requests' = [requests EXCEPT ![r].first =
          [p \in Partitions |-> producerSequence[p]]]
     /\ producerSequence' = IF ~Idempotent THEN producerSequence
          ELSE [p \in Partitions |->
                 producerSequence[p] + (IF p \in DOMAIN data THEN data[p] ELSE 0)]
  /\ wire' = [wire EXCEPT ![Node(r)] = Append(@, r)]
  /\ UNCHANGED <<cluster, brokerMutexLocks, sending, failures>>

Released(R) == [b \in Brokers |-> SelectSeq(brokerMutexLocks[b], LAMBDA r : r \notin R)]

----------------------------------------------------------------------------
(* The brokers.                                                            *)

NextSequence(p) == IF log[p] = <<>> THEN 0 ELSE Last(log[p]).first + Last(log[p]).size

\* A batch with the sequence numbers of one of the last five is not written again.
IsDuplicate(p, first, size) ==
  \E i \in 1..Len(log[p]) :
    i > Len(log[p]) - 5 /\ log[p][i].first = first /\ log[p][i].size = size

Verdict(r, p) ==
  LET first == requests[r].first[p]  size == requests[r].topicData[p] IN
  IF leader[p] # Node(r) THEN "notLeader"
  ELSE IF ~Idempotent THEN "append"
  ELSE IF IsDuplicate(p, first, size) THEN "duplicate"
  ELSE IF first = NextSequence(p) THEN "append" ELSE "outOfOrder"

\* Each partition is written or not on its own; any error fails the request.
Handle(b) ==
  /\ wire[b] # <<>>
  /\ wire' = [wire EXCEPT ![b] = Tail(@)]
  /\ LET r == Head(wire[b])
         data == requests[r].topicData
         errors == {Verdict(r, p) : p \in DOMAIN data} \ {"append", "duplicate"}
     IN /\ log' = [p \in Partitions |->
             IF p \in DOMAIN data /\ Verdict(r, p) = "append"
             THEN Append(log[p], [send |-> Send(r), first |-> requests[r].first[p],
                                  size |-> data[p]])
             ELSE log[p]]
        /\ IF r \in ToSet(brokerMutexLocks[b])
           THEN \E e \in IF errors = {} THEN {"ok"} ELSE errors :
                  requests' = [requests EXCEPT ![r].answer = e]
           ELSE requests' = Without(requests, {r})
  /\ UNCHANGED <<leader, metadata, generation, moves, eos, sending, failures>>

\* A replica that has everything becomes the leader.
Move(p) ==
  /\ moves < MaxMoves /\ moves' = moves + 1
  /\ \E b \in Brokers \ {leader[p]} : leader' = [leader EXCEPT ![p] = b]
  /\ UNCHANGED <<log, metadata, generation, eos, wire, requests, sending, failures>>

----------------------------------------------------------------------------
(* The end of a request.                                                   *)

\* The answer is kept, the lock released; a run ends well with its last request.
Answered(r) ==
  LET s == Send(r) IN
  /\ Sent(r) /\ requests[r].answer = "ok"
  /\ requests' = Without(requests, {r})
  /\ brokerMutexLocks' = Released({r})
  /\ responsePerBroker' = [responsePerBroker EXCEPT
       ![s] = [o \in DOMAIN @ \cup {r[3]} |-> o = r[3] \/ @[o]]]
  /\ pending' = [pending EXCEPT ![s] = @ \ {r}]
  /\ phase' = IF pending[s] = {r} THEN [phase EXCEPT ![s] = "done"] ELSE phase
  /\ UNCHANGED <<cluster, producerSequence, wire, attempt, stale, failures>>

\* Promise.all rejects with the first request that fails and does not wait for the
\* others; only then the run ends.
RunFails(R, retriable, finds) ==
  LET failed == {s \in Sends : pending[s] \cap R # {}} IN
  /\ phase' = [s \in Sends |->
       IF s \notin failed THEN phase[s]
       ELSE IF retriable /\ attempt[s] <= Retries THEN "retry" ELSE "failed"]
  /\ pending' = [s \in Sends |-> IF s \in failed THEN {} ELSE pending[s]]
  /\ stale' = [s \in Sends |-> IF s \in failed THEN finds ELSE stale[s]]

\* The sequences the requests had taken are given back.
RolledBack(R) ==
  LET taken(p) == MapThenSumSet(
        LAMBDA r : IF p \in DOMAIN requests[r].topicData THEN requests[r].topicData[p] ELSE 0, R)
  IN IF Idempotent THEN [p \in Partitions |-> producerSequence[p] - taken(p)]
     ELSE producerSequence

\* A request that fails removes its broker from the answers.
Forgotten(R) ==
  [s \in Sends |-> Without(responsePerBroker[s], {r[3] : r \in {t \in R : Send(t) = s}})]

\* Requests that had been sent fail.
Fail(R, retriable, finds) ==
  /\ producerSequence' = RolledBack(R)
  /\ brokerMutexLocks' = Released(R)
  /\ responsePerBroker' = Forgotten(R)
  /\ RunFails(R, retriable, finds)
  /\ UNCHANGED attempt

\* The broker answers with an error.
Refused(r) ==
  /\ Sent(r) /\ requests[r].answer \notin {"none", "ok"}
  /\ LET retriable == requests[r].answer = "notLeader" IN Fail({r}, retriable, retriable)
  /\ requests' = Without(requests, {r})
  /\ UNCHANGED <<cluster, wire, failures>>

\* A request may fail without an answer before it was handled or after.
MayFail(R) ==
  /\ failures < MaxFailures /\ failures' = failures + 1
  /\ LosesAnswers \/ \A r \in R : requests[r].answer = "none"

\* The answer does not come in time.  The broker may still get the request.
TimesOut(r) ==
  /\ Sent(r) /\ MayFail({r}) /\ LosesAnswers
  /\ Fail({r}, TRUE, FALSE)
  /\ requests' = IF r \in ToSet(wire[Node(r)]) THEN requests ELSE Without(requests, {r})
  /\ UNCHANGED <<cluster, wire>>

\* The connection is lost with everything on it; the broker object is removed.
ConnectionClosed(b) ==
  LET R == {r \in DOMAIN requests : Node(r) = b /\ Sent(r)} IN
  /\ R # {} /\ MayFail(R)
  /\ Fail(R, TRUE, TRUE)
  /\ requests' = Without(requests, R \cup ToSet(wire[b]))
  /\ wire' = [wire EXCEPT ![b] = <<>>]
  /\ generation' = [generation EXCEPT ![b] = @ + 1]
  /\ UNCHANGED <<leader, log, metadata, moves>>

\* A request waits too long for the lock; this is outside the try.
LockTimesOut(r) ==
  /\ Idempotent /\ Waiting(r) /\ ~HasLock(r)
  /\ failures < MaxFailures /\ failures' = failures + 1
  /\ brokerMutexLocks' = Released({r})
  /\ requests' = Without(requests, {r})
  /\ RunFails({r}, FALSE, FALSE)
  /\ UNCHANGED <<cluster, producerSequence, wire, attempt, responsePerBroker>>

----------------------------------------------------------------------------
Ended == \A s \in Sends : phase[s] \in {"done", "failed"}

Next ==
  \/ \E s \in Sends : CreateProducerRequests(s)
  \/ \E r \in DOMAIN requests :
       \/ Produce(r) \/ Answered(r) \/ Refused(r) \/ TimesOut(r) \/ LockTimesOut(r)
  \/ \E b \in Brokers : Handle(b) \/ ConnectionClosed(b)
  \/ \E p \in Partitions : Move(p)

Spec == Init /\ [][Next]_vars

\* Retries are timers, requests reach brokers that work, and answers come back.
FairSpec ==
  /\ Spec
  /\ \A s \in Sends : WF_vars(CreateProducerRequests(s))
  /\ \A b \in Brokers : WF_vars(Handle(b))
  /\ WF_vars(\E r \in DOMAIN requests : Produce(r))
  /\ WF_vars(\E r \in DOMAIN requests : Answered(r) \/ Refused(r))

----------------------------------------------------------------------------
Copies(s, p) == Cardinality({i \in 1..Len(log[p]) : log[p][i].send = s})

\* What send() resolves for is in the log, wherever it failed on the way, and in
\* whichever partitions its messages were laid out.
AckedWritten ==
  \A s \in Sends : phase[s] = "done" =>
    \E parts \in Partitionings[s] : \A p \in DOMAIN parts : Copies(s, p) > 0

\* No message is written twice, whatever is retried.
WrittenOnce ==
  \A s \in Sends : \E parts \in Partitionings[s] : \A p \in Partitions :
    Copies(s, p) <= (IF p \in DOMAIN parts THEN 1 ELSE 0)

\* Awaited one by one, every send of the idempotent producer even succeeds.
SendsSucceed == \A s \in Sends : <>(phase[s] = "done")
===============================================================================
