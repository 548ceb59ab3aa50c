-------------------------------- MODULE Ingest --------------------------------
(***************************************************************************)
(* apps/consumer/src/index.ts: the consumer group that writes the events   *)
(* of KAFKA_MESSAGES_TOPIC to Postgres, run by packages/kafkajs.           *)
(*                                                                         *)
(* Every statement of the handler is one step, because the handler awaits  *)
(* each of them and uses no transaction.  Between two steps the group may  *)
(* rebalance, and a member that has not noticed goes on writing the batch  *)
(* that another member has been given again.                               *)
(***************************************************************************)
EXTENDS Naturals, Sequences, FiniteSets

CONSTANTS
  Members,     \* processes of the consumer group
  Partitions,  \* partitions of the topic
  Log,         \* Log[p] is the sequence of events in partition p
  None,        \* an absent field
  MaxFaults    \* bound on failures, crashes and rebalances together

ASSUME NoMember == None \notin Members \cup Partitions
ASSUME MaxFaultsAssumption == MaxFaults \in Nat
ASSUME LogAssumption == Log \in [Partitions -> Seq([
  chat : STRING \cup {None},  \* fromChatFull.id
  msg : STRING,               \* messageId
  user : STRING \cup {None},  \* fromUserFull.id
  name : STRING \cup {None},  \* a profile field the sender may omit
  file : STRING \cup {None},  \* media.fileId
  date : Nat])]

VARIABLES
  \* Kafka's group coordinator
  generation, owner,  \* the current generation and its assignment
  committed,          \* per partition, how many events are committed
  \* Postgres
  users,              \* user id -> profile field
  chats,              \* chat id -> lastMessageDate
  documents,          \* rows <<file, n>>: the n-th row of that file
  messages,           \* <<chat, msg>> -> [user, document]
  \* per member
  joined,             \* the generation it last joined (0: none)
  resolved,           \* the partitions it was given -> offset resolved locally
  pc,
  batch,              \* the batch being handled
  docs,               \* documentsMap: file -> row inserted by this batch
  faults

group == <<generation, owner, committed>>
tables == <<users, chats, documents, messages>>
member == <<joined, resolved, pc, batch, docs>>
vars == <<group, tables, member, faults>>

Event(p, i) == Log[p][i]
Key(p, i) == <<Event(p, i).chat, Event(p, i).msg>>

\* Events without a chat are filtered out.
Valid(p, i) == Event(p, i).chat # None

KeysUpTo(p, n) == {Key(p, i) : i \in {j \in 1..n : Valid(p, j)}}
Offsets(p) == 0..Len(Log[p])
AllKeys == UNION {KeysUpTo(p, Len(Log[p])) : p \in Partitions}

NoBatch == [partition |-> None, from |-> 0, to |-> 0]
EmptyMap == [x \in {} |-> None]

Init ==
  /\ generation = 1
  /\ owner \in [Partitions -> Members]
  /\ committed = [p \in Partitions |-> 0]
  /\ users = EmptyMap /\ chats = EmptyMap /\ messages = EmptyMap
  /\ documents = {}
  /\ joined = [m \in Members |-> 0]
  /\ resolved = [m \in Members |-> EmptyMap]
  /\ pc = [m \in Members |-> "join"]
  /\ batch = [m \in Members |-> NoBatch]
  /\ docs = [m \in Members |-> EmptyMap]
  /\ faults = 0

----------------------------------------------------------------------------
(* kafkajs: joining, fetching.                                             *)

Goto(m, from, to) == pc[m] = from /\ pc' = [pc EXCEPT ![m] = to]

\* joinAndSync: a new OffsetManager, which starts at the committed offsets.
Join(m) ==
  /\ Goto(m, "join", "idle")
  /\ joined' = [joined EXCEPT ![m] = generation]
  /\ resolved' = [resolved EXCEPT ![m] =
                    [p \in {q \in Partitions : owner[q] = m} |-> committed[p]]]
  /\ UNCHANGED <<group, tables, batch, docs, faults>>

\* A batch is whatever the broker returns from the resolved offset on.
Fetch(m) ==
  /\ Goto(m, "idle", "users")
  /\ \E p \in DOMAIN resolved[m] :
       \E to \in (resolved[m][p] + 1)..Len(Log[p]) :
         batch' = [batch EXCEPT ![m] = [partition |-> p,
                                        from |-> resolved[m][p] + 1,
                                        to |-> to]]
  /\ UNCHANGED <<group, tables, joined, resolved, docs, faults>>

----------------------------------------------------------------------------
(* The eachBatch handler.                                                  *)

BatchEvent(m, i) == Event(batch[m].partition, i)
BatchKey(m, i) == Key(batch[m].partition, i)

\* `values`
Values(m) == {i \in batch[m].from..batch[m].to : Valid(batch[m].partition, i)}

\* getUniqueByKey: the first event with each value of a field.
Unique(m, field) ==
  {i \in Values(m) :
     /\ BatchEvent(m, i)[field] # None
     /\ \A j \in Values(m) :
          j < i => BatchEvent(m, j)[field] # BatchEvent(m, i)[field]}

Found(m, field) == {BatchEvent(m, i)[field] : i \in Unique(m, field)}
FirstWith(m, field, v) ==
  CHOOSE i \in Unique(m, field) : BatchEvent(m, i)[field] = v

Coalesce(new, old) == IF new # None THEN new ELSE old
Newest(a, b) == b    \* Mutant: the date of the last delivery.
Greatest(a, b) == IF a >= b THEN a ELSE b

\* INSERT ... ON CONFLICT (user_id) DO UPDATE SET x = COALESCE(excluded.x, x)
UpsertUsers(m) ==
  /\ Goto(m, "users", "chats")
  /\ LET name(u) == BatchEvent(m, FirstWith(m, "user", u)).name
     IN users' = [u \in DOMAIN users \cup Found(m, "user") |->
                    IF u \notin Found(m, "user") THEN users[u]
                    ELSE IF u \notin DOMAIN users THEN name(u)
                    ELSE Coalesce(name(u), users[u])]
  /\ UNCHANGED <<group, chats, documents, messages, joined, resolved, batch,
                 docs, faults>>

\* INSERT ... SET last_message_date = GREATEST(last_message_date, excluded)
UpsertChats(m) ==
  /\ Goto(m, "chats", "documents")
  /\ LET date(c) == BatchEvent(m, FirstWith(m, "chat", c)).date
     IN chats' = [c \in DOMAIN chats \cup Found(m, "chat") |->
                    IF c \notin Found(m, "chat") THEN chats[c]
                    ELSE IF c \notin DOMAIN chats THEN date(c)
                    ELSE Greatest(chats[c], date(c))]
  /\ UNCHANGED <<group, users, documents, messages, joined, resolved, batch,
                 docs, faults>>

\* Mutant: the rows are numbered but not written.
InsertNoDocuments(m) ==
  /\ Goto(m, "documents", "messages")
  /\ docs' = [docs EXCEPT ![m] = [f \in Found(m, "file") |-> <<f, 1>>]]
  /\ UNCHANGED <<group, tables, joined, resolved, batch, faults>>

\* Nothing is unique about file_id, so ON CONFLICT DO NOTHING never applies:
\* every delivery of a file inserts a row.
InsertDocuments(m) ==
  /\ Goto(m, "documents", "messages")
  /\ docs' = [docs EXCEPT ![m] =
                [f \in Found(m, "file") |->
                   <<f, Cardinality({d \in documents : d[1] = f}) + 1>>]]
  /\ documents' = documents \cup {docs'[m][f] : f \in Found(m, "file")}
  /\ UNCHANGED <<group, users, chats, messages, joined, resolved, batch,
                 faults>>

\* The row of the first event of the batch with that key.
MessageRow(m, k) ==
  LET i == CHOOSE i \in Values(m) :
             /\ BatchKey(m, i) = k
             /\ \A j \in Values(m) : BatchKey(m, j) = k => i <= j
      file == BatchEvent(m, i).file
  IN [user |-> BatchEvent(m, i).user,
      document |-> IF file = None THEN None ELSE docs[m][file]]

\* INSERT ... ON CONFLICT DO NOTHING, on the unique (chat_id, message_id).
InsertMessages(m) ==
  /\ Goto(m, "messages", "resolve")
  /\ messages' = [k \in DOMAIN messages
                          \cup {BatchKey(m, i) : i \in Values(m)} |->
                    IF k \in DOMAIN messages THEN messages[k]
                                             ELSE MessageRow(m, k)]
  /\ UNCHANGED <<group, users, chats, documents, joined, resolved, batch,
                 docs, faults>>

----------------------------------------------------------------------------
(* kafkajs: the end of a batch, and of an attempt.                         *)

\* eachBatchAutoResolve: the handler returned, the whole batch is resolved.
Resolve(m) ==
  /\ Goto(m, "resolve", "commit")
  /\ resolved' = [resolved EXCEPT ![m][batch[m].partition] = batch[m].to]
  /\ UNCHANGED <<group, tables, joined, batch, docs, faults>>

\* The coordinator takes offsets from members of the current generation only.
Current(m) == joined[m] = generation

\* Mutant: commits the batch, resolved or not.
CommitFetched(m) ==
  committed' = [committed EXCEPT ![batch[m].partition] = batch[m].to]

CommitResolved(m) ==
  committed' = [p \in Partitions |-> IF p \in DOMAIN resolved[m]
                                       THEN resolved[m][p] ELSE committed[p]]

EndBatch(m) ==
  /\ batch' = [batch EXCEPT ![m] = NoBatch]
  /\ docs' = [docs EXCEPT ![m] = EmptyMap]

\* Mutant: a commit of an earlier generation is taken.
CommitLate(m) ==
  /\ Goto(m, "commit", "idle")
  /\ CommitResolved(m)
  /\ EndBatch(m)
  /\ UNCHANGED <<generation, owner, tables, joined, resolved, faults>>

Commit(m) ==
  /\ Current(m)
  /\ Goto(m, "commit", "idle")
  /\ CommitResolved(m)
  /\ EndBatch(m)
  /\ UNCHANGED <<generation, owner, tables, joined, resolved, faults>>

\* Mutant: abandons the batch but keeps the old assignment.
RejoinWithoutJoin(m) ==
  /\ ~Current(m)
  /\ pc[m] # "join"
  /\ pc' = [pc EXCEPT ![m] = "idle"]
  /\ EndBatch(m)
  /\ UNCHANGED <<group, tables, joined, resolved, faults>>

\* A heartbeat or the commit tells the member that the group went on without
\* it: the runner abandons the batch and joins again.
Rejoin(m) ==
  /\ ~Current(m)
  /\ pc[m] # "join"
  /\ pc' = [pc EXCEPT ![m] = "join"]
  /\ EndBatch(m)
  /\ UNCHANGED <<group, tables, joined, resolved, faults>>

InBatch(m) == pc[m] \in {"users", "chats", "documents", "messages",
                         "resolve", "commit"}

\* A statement or a request fails: what was resolved before is committed, if
\* the coordinator takes it, and the batch is fetched again.
BatchFails(m) ==
  /\ faults < MaxFaults /\ faults' = faults + 1
  /\ InBatch(m)
  /\ pc' = [pc EXCEPT ![m] = "idle"]
  /\ EndBatch(m)
  /\ \/ Current(m) /\ CommitResolved(m)
     \/ UNCHANGED committed
  /\ UNCHANGED <<generation, owner, tables, joined, resolved>>

\* The process dies and is restarted.
Crash(m) ==
  /\ faults < MaxFaults /\ faults' = faults + 1
  /\ pc[m] # "join"
  /\ pc' = [pc EXCEPT ![m] = "join"]
  /\ joined' = [joined EXCEPT ![m] = 0]
  /\ resolved' = [resolved EXCEPT ![m] = EmptyMap]
  /\ EndBatch(m)
  /\ UNCHANGED <<group, tables>>

\* The coordinator starts a generation with some assignment.
Rebalance ==
  /\ faults < MaxFaults /\ faults' = faults + 1
  /\ generation' = generation + 1
  /\ owner' \in [Partitions -> Members]
  /\ UNCHANGED <<committed, tables, member>>

Handle(m) ==
  \/ Join(m)
  \/ Fetch(m)
  \/ UpsertUsers(m)
  \/ UpsertChats(m)
  \/ InsertDocuments(m)
  \/ InsertMessages(m)
  \/ Resolve(m)
  \/ Commit(m)
  \/ Rejoin(m)

Next ==
  \/ \E m \in Members : Handle(m) \/ BatchFails(m) \/ Crash(m)
  \/ Rebalance

Spec == Init /\ [][Next]_vars

\* Every process keeps running: awaits settle, and a dead one is restarted.
Fairness == \A m \in Members : WF_vars(Handle(m))

FairSpec == Spec /\ Fairness
=============================================================================
