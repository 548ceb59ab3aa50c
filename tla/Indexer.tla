------------------------------- MODULE Indexer -------------------------------
(***************************************************************************)
(* apps/qdrant/src/index.ts: the consumer group that embeds the rows of    *)
(* KAFKA_DATA_TOPIC and puts the vectors into Qdrant.  Unlike the ingest   *)
(* stage it resolves and commits a batch piece by piece, and when a        *)
(* heartbeat fails it joins the group again itself and goes on with the    *)
(* batch it has, under a new offset manager.                               *)
(*                                                                         *)
(* Every await of the handler is an action.  Nothing stops this consumer,  *)
(* so isRunning() holds throughout, and nobody seeks.                      *)
(***************************************************************************)
EXTENDS Naturals, Sequences, FiniteSets

CONSTANTS
  Members,     \* processes of the consumer group
  Partitions,  \* partitions of the topic
  Text,        \* Text[p][i]: what row i of partition p has for its text
  GroupSize,   \* rows embedded and stored together (ten chunks of 90)
  None,
  MaxFaults    \* bound on failures, crashes and rebalances together

ASSUME NoneAssumption == None \notin Partitions
ASSUME TextAssumption == Text \in [Partitions -> Seq({"text", "empty", "null"})]
ASSUME BoundsAssumption == GroupSize \in Nat \ {0} /\ MaxFaults \in Nat

VARIABLES
  produced,    \* per partition, its rows so far
  generation, owner, committed,  \* Kafka's group coordinator
  indexed,     \* the rows <<p, i>> in the collection
  joined,      \* per member, the generation it last joined (0: none)
  assigned,    \* its memberAssignment
  resolved,    \* resolvedOffsets: partition -> number of rows resolved
  known,       \* committedOffsets, as this member knows them
  pc,
  batch,
  position,    \* rows of the batch that are resolved or need not be
  strays,      \* history: partitions resolved by a batch of an earlier generation
  strayed,     \* history: partitions such an offset was committed for
  faults

group == <<produced, generation, owner, committed, strayed>>
offsets == <<joined, assigned, resolved, known, strays>>
vars == <<group, indexed, offsets, pc, batch, position, faults>>

NoBatch == [partition |-> None, from |-> 0, to |-> 0, generation |-> 0]
EmptyMap == [x \in {} |-> 0]
Put(f, x, v) == [y \in DOMAIN f \cup {x} |-> IF y = x THEN v ELSE f[y]]

InBatch(m) == pc[m] \notin {"join", "idle", "stopped"}
Running == {m \in Members : pc[m] # "stopped"}

\* What a member knows of its partitions is within them.
MemberOK(m) ==
  /\ joined[m] \in 0..generation
  /\ DOMAIN resolved[m] \subseteq Partitions /\ DOMAIN known[m] \subseteq Partitions
  /\ \A p \in DOMAIN resolved[m] : resolved[m][p] \in 0..Len(Text[p])
  /\ \A p \in DOMAIN known[m] : known[m][p] \in 0..Len(Text[p])
  /\ strays[m] \subseteq DOMAIN resolved[m]
  /\ InBatch(m) =>
       /\ batch[m].partition \in Partitions
       /\ batch[m].generation \in 0..joined[m]
       /\ batch[m].from \in Nat /\ batch[m].to \in 0..Len(Text[batch[m].partition])
       /\ position[m] \in batch[m].from..batch[m].to

TypeOK ==
  /\ produced \in [Partitions -> Nat]
  /\ \A p \in Partitions : produced[p] <= Len(Text[p])
  /\ generation \in Nat \ {0}
  /\ owner \in [Partitions -> Members]
  /\ committed \in [Partitions -> Nat]
  /\ \A p \in Partitions : committed[p] <= Len(Text[p])
  /\ \A r \in indexed : r[1] \in Partitions /\ r[2] \in 1..Len(Text[r[1]])
  /\ pc \in [Members -> {"join", "idle", "group", "resolve", "commitGroup",
                         "heartbeat", "end", "commit", "stopped"}]
  /\ assigned \in [Members -> SUBSET Partitions]
  /\ DOMAIN joined = Members /\ DOMAIN resolved = Members /\ DOMAIN known = Members
  /\ DOMAIN strays = Members /\ DOMAIN batch = Members /\ DOMAIN position = Members
  /\ \A m \in Members : MemberOK(m)
  /\ strayed \subseteq Partitions
  /\ faults \in 0..MaxFaults

Init ==
  /\ produced = [p \in Partitions |-> 0]
  /\ generation = 1
  /\ owner \in [Partitions -> Members]
  /\ committed = [p \in Partitions |-> 0]   \* fromBeginning: true
  /\ indexed = {}
  /\ joined = [m \in Members |-> 0]
  /\ assigned = [m \in Members |-> {}]
  /\ resolved = [m \in Members |-> EmptyMap]
  /\ known = [m \in Members |-> EmptyMap]
  /\ strays = [m \in Members |-> {}]
  /\ strayed = {}
  /\ pc = [m \in Members |-> "join"]
  /\ batch = [m \in Members |-> NoBatch]
  /\ position = [m \in Members |-> 0]
  /\ faults = 0

\* The data stage writes another row.
Produce(p) ==
  /\ produced[p] < Len(Text[p])
  /\ produced' = [produced EXCEPT ![p] = @ + 1]
  /\ UNCHANGED <<generation, owner, committed, strayed, indexed, offsets, pc, batch,
                 position, faults>>

----------------------------------------------------------------------------
(* kafkajs.                                                                *)

Goto(m, from, to) == pc[m] = from /\ pc' = [pc EXCEPT ![m] = to]
Current(m) == joined[m] = generation

\* joinAndSync: a new OffsetManager for the new assignment.
JoinGroup(m) ==
  /\ joined' = [joined EXCEPT ![m] = generation]
  /\ assigned' = [assigned EXCEPT ![m] = {p \in Partitions : owner[p] = m}]
  /\ resolved' = [resolved EXCEPT ![m] = EmptyMap]
  /\ known' = [known EXCEPT ![m] = EmptyMap]
  /\ strays' = [strays EXCEPT ![m] = {}]

Join(m) ==
  /\ Goto(m, "join", "idle")
  /\ JoinGroup(m)
  /\ UNCHANGED <<group, indexed, batch, position, faults>>

\* resolveOffsets: fetches the group's offsets it does not know yet.
Known(m) == [p \in DOMAIN known[m] \cup assigned[m] |->
               IF p \in DOMAIN known[m] THEN known[m][p] ELSE committed[p]]

NextOffset(m, p) == IF p \in DOMAIN resolved[m] THEN resolved[m][p] ELSE Known(m)[p]

\* nextOffset resolves the offset it starts from.
Fetch(m) ==
  /\ Goto(m, "idle", "group")
  /\ known' = [known EXCEPT ![m] = Known(m)]
  /\ \E p \in assigned[m] :
       LET from == NextOffset(m, p) IN
       \E to \in (from + 1)..produced[p] :
         /\ batch' = [batch EXCEPT ![m] = [partition |-> p, from |-> from, to |-> to,
                                           generation |-> joined[m]]]
         /\ position' = [position EXCEPT ![m] = from]
         /\ resolved' = [resolved EXCEPT ![m] = Put(@, p, from)]
  /\ UNCHANGED <<group, indexed, joined, assigned, strays, faults>>

EndBatch(m) ==
  /\ batch' = [batch EXCEPT ![m] = NoBatch]
  /\ position' = [position EXCEPT ![m] = 0]

\* uncommittedOffsets: a partition of another member counts as changed.
Uncommitted(m) ==
  {p \in DOMAIN resolved[m] : p \notin DOMAIN known[m] \/ known[m][p] # resolved[m][p]}

SendOffsets(m) ==
  /\ committed' = [p \in Partitions |-> IF p \in Uncommitted(m) THEN resolved[m][p]
                                                                ELSE committed[p]]
  /\ known' = [known EXCEPT ![m] =
                 [p \in DOMAIN @ \cup Uncommitted(m) |->
                    IF p \in Uncommitted(m) THEN resolved[m][p] ELSE @[p]]]
  /\ strayed' = strayed \cup (Uncommitted(m) \cap strays[m])

\* Mutant: the coordinator takes them from anybody.
CommitAtAnyTime(m) == SendOffsets(m)

\* The coordinator takes offsets from members of the current generation, for
\* whatever partitions they name.
CommitOffsets(m) == Current(m) /\ SendOffsets(m)

ResolveOffset(m, n) ==
  LET p == batch[m].partition IN
  /\ resolved' = [resolved EXCEPT ![m] = Put(@, p, n)]
  /\ strays' = [strays EXCEPT ![m] =
                  IF batch[m].generation = joined[m] THEN @ ELSE @ \cup {p}]

\* The coordinator starts a generation of the members that run.
Reassign(running) ==
  /\ generation' = generation + 1
  /\ IF running = {} THEN UNCHANGED owner ELSE owner' \in [Partitions -> running]

\* A TypeError is not retried, and a consumer that crashes with it leaves the group and is
\* not restarted.
Stop(m) ==
  /\ pc' = [pc EXCEPT ![m] = "stopped"]
  /\ EndBatch(m)
  /\ Reassign(Running \ {m})

----------------------------------------------------------------------------
(* The eachBatch handler.                                                  *)

\* The filter at the start of a batch asks every text for its length.
HasNull(m) == \E i \in (batch[m].from + 1)..batch[m].to : Text[batch[m].partition][i] = "null"

\* Null instead of a text: a TypeError before anything is embedded.  What was resolved is
\* committed first, if there is anything.
NullText(m) ==
  /\ pc[m] = "group" /\ HasNull(m)
  /\ \/ CommitOffsets(m)
     \/ Uncommitted(m) = {} /\ UNCHANGED <<committed, known, strayed>>
  /\ Stop(m)
  /\ UNCHANGED <<produced, indexed, joined, assigned, resolved, strays, faults>>

Rows(m) ==
  {i \in (position[m] + 1)..batch[m].to : Text[batch[m].partition][i] # "empty"}

\* The rows with a text up to the GroupSize-th from here on, and the last one.
Group(m) == {i \in Rows(m) : Cardinality({j \in Rows(m) : j <= i}) <= GroupSize}
LastOf(S) == CHOOSE i \in S : \A j \in S : j <= i

UpsertGroup(m) ==
  /\ ~HasNull(m) /\ Group(m) # {}
  /\ Goto(m, "group", "resolve")
  /\ indexed' = indexed \cup {<<batch[m].partition, i>> : i \in Group(m)}
  /\ UNCHANGED <<group, offsets, batch, position, faults>>

\* Mutant: resolves the whole batch.
ResolveAll(m) ==
  /\ assigned[m] # {}
  /\ Goto(m, "resolve", "commitGroup")
  /\ ResolveOffset(m, batch[m].to)
  /\ position' = [position EXCEPT ![m] = LastOf(Group(m))]
  /\ UNCHANGED <<group, indexed, joined, assigned, known, batch, faults>>

\* resolveOffset(lastMessage.offset).
ResolveGroup(m) ==
  /\ assigned[m] # {}
  /\ Goto(m, "resolve", "commitGroup")
  /\ ResolveOffset(m, LastOf(Group(m)))
  /\ position' = [position EXCEPT ![m] = LastOf(Group(m))]
  /\ UNCHANGED <<group, indexed, joined, assigned, known, batch, faults>>

\* A manager without any partition has no entry for the topic: resolveOffset
\* throws a TypeError, and the attempt to commit finds nothing to commit.
ResolveThrows(m) ==
  /\ assigned[m] = {}
  /\ pc[m] \in {"resolve", "end"}
  /\ Stop(m)
  /\ UNCHANGED <<produced, committed, strayed, indexed, offsets, faults>>

\* commitOffsetsIfNecessary: when five seconds have passed.
CommitGroup(m) ==
  /\ Goto(m, "commitGroup", "heartbeat")
  /\ \/ CommitOffsets(m)
     \/ UNCHANGED <<committed, known, strayed>>
  /\ UNCHANGED <<produced, generation, owner, indexed, joined, assigned, resolved, strays,
                 batch, position, faults>>

\* The heartbeat is answered, or not due yet.
HeartbeatPasses(m) ==
  /\ Goto(m, "heartbeat", "group")
  /\ UNCHANGED <<group, indexed, offsets, batch, position, faults>>

\* The heartbeat fails: consumer.joinAndSync(), and on with the batch.
RejoinInBatch(m) ==
  /\ ~Current(m)
  /\ Goto(m, "heartbeat", "group")
  /\ JoinGroup(m)
  /\ UNCHANGED <<group, indexed, batch, position, faults>>

GroupsDone(m) ==
  /\ ~HasNull(m) /\ Group(m) = {}
  /\ Goto(m, "group", "end")
  /\ UNCHANGED <<group, indexed, offsets, batch, position, faults>>

----------------------------------------------------------------------------
(* kafkajs: the end of a batch, and of an attempt.                         *)

\* eachBatchAutoResolve
AutoResolve(m) ==
  /\ assigned[m] # {}
  /\ Goto(m, "end", "commit")
  /\ ResolveOffset(m, batch[m].to)
  /\ UNCHANGED <<group, indexed, joined, assigned, known, batch, position, faults>>

Commit(m) ==
  /\ Goto(m, "commit", "idle")
  /\ CommitOffsets(m)
  /\ EndBatch(m)
  /\ UNCHANGED <<produced, generation, owner, indexed, joined, assigned, resolved, strays,
                 faults>>

\* Mutant: goes on in the old generation.
RejoinNever(m) ==
  /\ ~Current(m)
  /\ pc[m] \in {"commitGroup", "commit"}
  /\ pc' = [pc EXCEPT ![m] = "idle"]
  /\ EndBatch(m)
  /\ UNCHANGED <<group, indexed, offsets, faults>>

\* A commit, also the one after a null text, or a heartbeat of the runner tells the member
\* that the group went on: the runner abandons the batch, if there is one, and joins again.
Rejoin(m) ==
  /\ ~Current(m)
  /\ \/ pc[m] \in {"idle", "commitGroup", "commit"}
     \/ pc[m] = "group" /\ HasNull(m) /\ Uncommitted(m) # {}
  /\ pc' = [pc EXCEPT ![m] = "join"]
  /\ EndBatch(m)
  /\ UNCHANGED <<group, indexed, offsets, faults>>

\* Decoding, embedding, the upsert or a request fails: what was resolved is
\* committed, if the coordinator takes it, and the rest is fetched again.
BatchFails(m) ==
  /\ faults < MaxFaults /\ faults' = faults + 1
  /\ InBatch(m)
  /\ pc' = [pc EXCEPT ![m] = "idle"]
  /\ EndBatch(m)
  /\ CommitOffsets(m) \/ UNCHANGED <<committed, known, strayed>>
  /\ UNCHANGED <<produced, generation, owner, indexed, joined, assigned, resolved, strays>>

\* A process that has not joined yet, and whose batch, if it had one, is gone.
StartAnew(m) ==
  /\ pc' = [pc EXCEPT ![m] = "join"]
  /\ joined' = [joined EXCEPT ![m] = 0]
  /\ assigned' = [assigned EXCEPT ![m] = {}]
  /\ resolved' = [resolved EXCEPT ![m] = EmptyMap]
  /\ known' = [known EXCEPT ![m] = EmptyMap]
  /\ strays' = [strays EXCEPT ![m] = {}]
  /\ EndBatch(m)

\* The process dies and is restarted; a request under way may be served.
Crash(m) ==
  /\ faults < MaxFaults /\ faults' = faults + 1
  /\ pc[m] \notin {"join", "stopped"}
  /\ StartAnew(m)
  /\ UNCHANGED <<group, indexed>>

\* The process of a member that has stopped is restarted: somebody new in the group.
Restart(m) ==
  /\ faults < MaxFaults /\ faults' = faults + 1
  /\ pc[m] = "stopped"
  /\ StartAnew(m)
  /\ Reassign(Running \cup {m})
  /\ UNCHANGED <<produced, committed, strayed, indexed>>

Rebalance ==
  /\ faults < MaxFaults /\ faults' = faults + 1
  /\ Reassign(Running)
  /\ UNCHANGED <<produced, committed, strayed, indexed, offsets, pc, batch, position>>

Handle(m) ==
  \/ Join(m)
  \/ Fetch(m)
  \/ NullText(m)
  \/ UpsertGroup(m)
  \/ ResolveGroup(m)
  \/ ResolveThrows(m)
  \/ CommitGroup(m)
  \/ HeartbeatPasses(m)
  \/ RejoinInBatch(m)
  \/ GroupsDone(m)
  \/ AutoResolve(m)
  \/ Commit(m)
  \/ Rejoin(m)

Next ==
  \/ \E m \in Members : Handle(m) \/ BatchFails(m) \/ Crash(m) \/ Restart(m)
  \/ Rebalance
  \/ \E p \in Partitions : Produce(p)

Spec == Init /\ [][Next]_vars

\* Awaits settle and a dead process is restarted; a heartbeat is sent now and
\* then.
Fairness == \A m \in Members : WF_vars(Handle(m)) /\ WF_vars(Rejoin(m))

FairSpec == Spec /\ Fairness

----------------------------------------------------------------------------
(* Properties.                                                             *)

RowsUpTo(p, n) == {<<p, i>> : i \in {j \in 1..n : Text[p][j] # "empty"}}

\* A committed row is in the collection or has an empty text, and a null one is never
\* passed: neither the piecewise resolves nor going on with an old batch under a new offset
\* manager, for a partition that may belong to somebody else, commits ahead of the upserts.
CommittedIsIndexed ==
  \A p \in Partitions : RowsUpTo(p, committed[p]) \subseteq indexed

\* Only the rejoin inside a batch moves commits back: when the group's offset
\* of a partition decreases, an offset resolved by a batch of an earlier
\* generation is being committed for it, or one was before and overtook the
\* partition's new owner.
CommitsMoveBackByStrays ==
  [][\A p \in Partitions : committed'[p] < committed[p] => p \in strayed']_vars

\* Again and again every row is in the collection, those with an empty text excepted, unless
\* every member has stopped, at a null text or for want of a partition.
EverythingIndexed ==
  []<>(Running = {} \/ \A p \in Partitions : RowsUpTo(p, produced[p]) \subseteq indexed)
=============================================================================
