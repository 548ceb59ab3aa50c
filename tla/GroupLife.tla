----------------------------- MODULE GroupLife -----------------------------
(***************************************************************************)
(* The ingest group on a topic that grows: members that join before and    *)
(* after the first commit, rounds of batches, errors that are retried,     *)
(* errors after which a member starts anew, and events that are not JSON,  *)
(* after which it does not.  apps/consumer/src/index.ts with run() of      *)
(* packages/kafkajs (consumer/index.js, runner.js, fetchManager.js,        *)
(* workerQueue.js, retry/index.js).  What a handler writes is in Ingest;   *)
(* here a batch is handled as a whole or not at all.                       *)
(***************************************************************************)
EXTENDS Integers, SequencesExt

CONSTANTS
  Members, Partitions,
  Retries,     \* retries before a member starts anew
  MaxEvents,   \* bound on events
  MaxBad,      \* bound on events that are not JSON
  MaxFaults    \* bound on failing requests, crashes and rebalances

ASSUME LifeAssumption ==
  /\ IsFiniteSet(Partitions)
  /\ Retries \in Nat /\ MaxEvents \in Nat /\ MaxBad \in Nat /\ MaxFaults \in Nat

VARIABLES
  log,        \* per partition, its events: "good" or "bad"
  committed,  \* per partition, the next offset of the group, -1 if there is none
  owner,      \* the member a partition is assigned to
  current,    \* per member: no rebalance since it joined
  pc,         \* per member: "join", "fetch", "handle", "commit", "end", "stopped"
  position,   \* per member: its partitions and the next offset of each
  resolved,   \* per member: partitions with resolved offsets it has not committed
  round,      \* per member: the batches it has fetched and not handled
  error,      \* per member: the first error of its round
  retries,    \* per member
  handled,    \* events <<partition, offset>> that were stored
  early,      \* events produced while their partition had no committed offset
  faults

group == <<committed, owner, current>>
member == <<pc, position, resolved, round, error, retries>>
vars == <<log, group, member, handled, early, faults>>

Errors == {"none", "rebalance", "failed", "bad"}
Batches == [partition : Partitions, to : 1..MaxEvents]
Positions == UNION {[S -> 0..MaxEvents] : S \in SUBSET Partitions}
NoPosition == [p \in {} |-> 0]

TypeOK ==
  /\ log \in [Partitions -> Seq({"good", "bad"})]
  /\ \A p \in Partitions : committed[p] \in -1..Len(log[p])
  /\ owner \in [Partitions -> Members] /\ current \in [Members -> BOOLEAN]
  /\ pc \in [Members -> {"join", "fetch", "handle", "commit", "end", "stopped"}]
  /\ position \in [Members -> Positions] /\ resolved \in [Members -> SUBSET Partitions]
  /\ round \in [Members -> Seq(Batches)]
  /\ \A m \in Members :
       /\ resolved[m] \subseteq DOMAIN position[m]
       /\ \A p \in DOMAIN position[m] : position[m][p] <= Len(log[p])
       /\ pc[m] \in {"handle", "commit"} => round[m] # <<>>
  /\ error \in [Members -> Errors] /\ retries \in [Members -> 0..Retries]
  /\ handled \subseteq Partitions \X (0..MaxEvents) /\ early \subseteq Partitions \X (0..MaxEvents)
  /\ faults \in 0..MaxFaults

\* A new group, or one that has consumed all there was (the log is what comes after).
Init ==
  /\ log = [p \in Partitions |-> <<>>]
  /\ \E offset \in {-1, 0} : committed = [p \in Partitions |-> offset]
  /\ owner \in [Partitions -> Members] /\ current = [m \in Members |-> FALSE]
  /\ pc = [m \in Members |-> "join"] /\ position = [m \in Members |-> NoPosition]
  /\ resolved = [m \in Members |-> {}] /\ round = [m \in Members |-> <<>>]
  /\ error = [m \in Members |-> "none"] /\ retries = [m \in Members |-> 0]
  /\ handled = {} /\ early = {} /\ faults = 0

Bad(p, o) == log[p][o + 1] = "bad"
Fault == faults < MaxFaults /\ faults' = faults + 1
Goto(m, label) == pc' = [pc EXCEPT ![m] = label]

\* The events so far, by partition and offset.
Events == {e \in Partitions \X (0..MaxEvents) : e[2] < Len(log[e[1]])}

Produce(p, kind) ==
  /\ Cardinality(Events) < MaxEvents
  /\ kind = "bad" => Cardinality({e \in Events : Bad(e[1], e[2])}) < MaxBad
  /\ log' = [log EXCEPT ![p] = Append(@, kind)]
  /\ early' = IF committed[p] = -1 THEN early \cup {<<p, Len(log[p])>>} ELSE early
  /\ UNCHANGED <<group, member, handled, faults>>

----------------------------------------------------------------------------
(* Joining and leaving. *)

\* `fromBeginning: false`: a partition without a committed offset is read from its end.
StartAt(p) == IF committed[p] = -1 THEN Len(log[p]) ELSE committed[p]

\* joinAndSync, with an offset manager and, at its return, a retrier of its own.
Join(m) ==
  /\ pc[m] = "join" /\ Goto(m, "fetch")
  /\ current' = [current EXCEPT ![m] = TRUE]
  /\ position' = [position EXCEPT ![m] = [p \in {q \in Partitions : owner[q] = m} |-> StartAt(p)]]
  /\ resolved' = [resolved EXCEPT ![m] = {}] /\ retries' = [retries EXCEPT ![m] = 0]
  /\ UNCHANGED <<log, committed, owner, round, error, handled, early, faults>>

\* The coordinator assigns the partitions anew, to members that run.
Reassign(running) ==
  /\ current' = [m \in Members |-> FALSE]
  /\ IF running = {} THEN UNCHANGED owner ELSE owner' \in [Partitions -> running]

Running == {m \in Members : pc[m] # "stopped"}

Rebalance ==
  /\ Fault /\ Reassign(Running)
  /\ UNCHANGED <<log, committed, member, handled, early>>

\* A process ends and is started again.
Crash(m) ==
  /\ Fault /\ Goto(m, "join") /\ Reassign(Running \cup {m})
  /\ round' = [round EXCEPT ![m] = <<>>] /\ error' = [error EXCEPT ![m] = "none"]
  /\ resolved' = [resolved EXCEPT ![m] = {}] /\ position' = [position EXCEPT ![m] = NoPosition]
  /\ UNCHANGED <<log, committed, retries, handled, early>>

----------------------------------------------------------------------------
(* A round. *)

Ready(m) == {p \in DOMAIN position[m] : position[m][p] < Len(log[p])}

\* Where the batches of some partitions may end.
Ends(m, S) == {end \in [S -> 1..MaxEvents] :
                 \A p \in S : end[p] \in (position[m][p] + 1)..Len(log[p])}

BatchesOf(order, end) == [i \in DOMAIN order |-> [partition |-> order[i], to |-> end[order[i]]]]

\* One batch for each of some partitions that have events, in any order.
Fetch(m) ==
  /\ pc[m] = "fetch" /\ Goto(m, "handle")
  /\ \E S \in SUBSET Ready(m) : S # {} /\ \E order \in SetToSeqs(S), end \in Ends(m, S) :
       round' = [round EXCEPT ![m] = BatchesOf(order, end)]
  /\ UNCHANGED <<log, group, position, resolved, error, retries, handled, early, faults>>

Batch(m) == Head(round[m])
Offsets(m) == position[m][Batch(m).partition]..(Batch(m).to - 1)
HasBad(m) == \E o \in Offsets(m) : Bad(Batch(m).partition, o)

\* The next batch, whatever has become of this one.
NextBatch(m, e) ==
  /\ round' = [round EXCEPT ![m] = Tail(@)]
  /\ error' = [error EXCEPT ![m] = IF @ = "none" THEN e ELSE @]
  /\ Goto(m, IF Len(round[m]) = 1 THEN "end" ELSE "handle")

CommitResolved(m) ==
  committed' = [p \in Partitions |-> IF p \in resolved[m] THEN position[m][p] ELSE committed[p]]

\* The handler returns: the batch is resolved.
Handle(m) ==
  /\ pc[m] = "handle" /\ ~HasBad(m) /\ Goto(m, "commit")
  /\ handled' = handled \cup {<<Batch(m).partition, o>> : o \in Offsets(m)}
  /\ position' = [position EXCEPT ![m][Batch(m).partition] = Batch(m).to]
  /\ resolved' = [resolved EXCEPT ![m] = @ \cup {Batch(m).partition}]
  /\ UNCHANGED <<log, group, round, error, retries, early, faults>>

\* A commit is taken from a current member; one without offsets is not sent.
Commit(m) ==
  /\ pc[m] = "commit"
  /\ IF current[m] THEN /\ CommitResolved(m) /\ resolved' = [resolved EXCEPT ![m] = {}]
                        /\ NextBatch(m, "none")
                   ELSE NextBatch(m, "rebalance") /\ UNCHANGED <<committed, resolved>>
  /\ UNCHANGED <<log, owner, current, position, retries, handled, early, faults>>

\* The handler throws e: what was resolved before is committed, and if that fails, its
\* error is thrown instead.
Throw(m, e) ==
  IF current[m] THEN /\ CommitResolved(m) /\ resolved' = [resolved EXCEPT ![m] = {}]
                     /\ NextBatch(m, e)
  ELSE /\ NextBatch(m, IF resolved[m] = {} THEN e ELSE "rebalance")
       /\ UNCHANGED <<committed, resolved>>

\* Mutant: the batch is resolved although the handler threw.
BadEventResolved(m) ==
  /\ pc[m] = "handle" /\ HasBad(m) /\ NextBatch(m, "bad")
  /\ position' = [position EXCEPT ![m][Batch(m).partition] = Batch(m).to]
  /\ resolved' = [resolved EXCEPT ![m] = @ \cup {Batch(m).partition}]
  /\ UNCHANGED <<log, group, retries, handled, early, faults>>

\* JSON.parse throws before anything is stored.
BadEvent(m) ==
  /\ pc[m] = "handle" /\ HasBad(m) /\ Throw(m, "bad")
  /\ UNCHANGED <<log, owner, current, position, retries, handled, early, faults>>

\* A heartbeat of the handler is told of the rebalance.
Heartbeat(m) ==
  /\ pc[m] = "handle" /\ ~HasBad(m) /\ ~current[m] /\ Throw(m, "rebalance")
  /\ UNCHANGED <<log, owner, current, position, retries, handled, early, faults>>

\* A statement of the handler fails, or its commit does.
Fails(m) ==
  /\ Fault
  /\ \/ pc[m] = "handle" /\ ~HasBad(m) /\ Throw(m, "failed")
     \/ pc[m] = "commit" /\ NextBatch(m, "failed") /\ UNCHANGED <<committed, resolved>>
  /\ UNCHANGED <<log, owner, current, position, retries, handled, early>>

EndRound(m) == pc[m] = "end" /\ error' = [error EXCEPT ![m] = "none"]

\* The round went well, or its error is retried: the positions stay.
NextRound(m) ==
  /\ EndRound(m) /\ Goto(m, "fetch")
  /\ \/ error[m] = "none" /\ UNCHANGED retries
     \/ error[m] = "failed" /\ retries[m] < Retries /\ retries' = [retries EXCEPT ![m] = @ + 1]
  /\ UNCHANGED <<log, group, position, resolved, round, handled, early, faults>>

\* Told of a rebalance, by its round or by the heartbeat of a fetch.
Rejoin(m) ==
  /\ \/ EndRound(m) /\ error[m] = "rebalance"
     \/ pc[m] = "fetch" /\ ~current[m] /\ UNCHANGED error
  /\ Goto(m, "join")
  /\ UNCHANGED <<log, group, position, resolved, round, retries, handled, early, faults>>

\* No retry is left: the member leaves the group and a new one starts in its place.
StartAnew(m) ==
  /\ EndRound(m) /\ error[m] = "failed" /\ retries[m] = Retries
  /\ Goto(m, "join") /\ Reassign(Running)
  /\ UNCHANGED <<log, committed, position, resolved, round, retries, handled, early, faults>>

\* Mutant: it stops without leaving the group.
StopSilently(m) ==
  /\ EndRound(m) /\ error[m] = "bad" /\ Goto(m, "stopped")
  /\ UNCHANGED <<log, group, position, resolved, round, retries, handled, early, faults>>

\* A SyntaxError is not retried, and a consumer that crashes with it is not restarted.
Stop(m) ==
  /\ EndRound(m) /\ error[m] = "bad"
  /\ Goto(m, "stopped") /\ Reassign(Running \ {m})
  /\ UNCHANGED <<log, committed, position, resolved, round, retries, handled, early, faults>>

Run(m) ==
  \/ Join(m) \/ Fetch(m) \/ Handle(m) \/ BadEvent(m) \/ Heartbeat(m) \/ Commit(m)
  \/ NextRound(m) \/ Rejoin(m) \/ StartAnew(m) \/ Stop(m)

Next ==
  \/ \E p \in Partitions, kind \in {"good", "bad"} : Produce(p, kind)
  \/ \E m \in Members : Run(m) \/ Fails(m) \/ Crash(m)
  \/ Rebalance

Spec == Init /\ [][Next]_vars

\* A member that can take a step takes one.
FairSpec == Spec /\ \A m \in Members : WF_vars(Run(m))

----------------------------------------------------------------------------
(* Properties. *)

Passed(p, o) == o < committed[p]

\* The group passes over an event only if it was produced before the first commit of its
\* partition; then any join may do so, and nothing says which events they were.
SkippedExplained ==
  \A e \in Events : Passed(e[1], e[2]) => e \in handled \cup early

\* Again and again every event is stored, unless an event that is not JSON stands before it,
\* all members have stopped at such events, or it came before the first commit.
Stored ==
  []<>(\A e \in Events \ early :
         \/ e \in handled \/ Running = {}
         \/ \E b \in 0..e[2] : ~Passed(e[1], b) /\ Bad(e[1], b))
=============================================================================
