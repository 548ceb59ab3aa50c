# A verification project for telegram-monorepo

The repository ingests Telegram chats. Messages arrive live or from an export
of a chat's history, pass through BullMQ queues in Redis and a Kafka topic, and
end up in Postgres, from where a change-data-capture connector feeds search
indexes and a web application reads them. Underneath lie two forks that the
repository keeps and changes as its own packages, the Telegram client `gramjs`
and the Kafka client `kafkajs`. This directory holds TLA+ models of the parts
that decide whether messages get lost, repeated or mixed up on that way, the TLC
configurations that check them on small instances, and proofs that TLAPS checks
for every instance.

```
 Telegram ── apps/history handler ──► {history-messages} ──► apps/history worker
    │          (export, pager)                                      │
    │ gramjs                                               {history-results}
    │                                                               │
    └── apps/worker (live) ──► KAFKA_MESSAGES_TOPIC ◄── apps/history-import
                                      │ kafkajs
                              apps/consumer (ingest) ──► Postgres ──► debezium
                                      │                     │             │
                                   Pusher ──► apps/www ◄────┘    KAFKA_DATA_TOPIC
                                                                          │
                                                             apps/qdrant (vectors)
```

## Inventory

| Component | State it keeps | Operations | Hard part | What makes it correct | Module |
| --- | --- | --- | --- | --- | --- |
| History export job, `apps/history/src/handler.ts` | Redis keys `history:chat:<id>:{currentMessageId,totalMessages,totalMessagesDone}`, `chats.exportedInFull`, the batch in memory | resume, walk the chat, checkpoint, hand a batch to the queue, flag the chat | retries and crashes between any two awaits, a chat that changes, two copies of a job | no message passed over, none queued twice without need, the flag tells the truth | `HistoryExport`, `ExportCopies` |
| Pager, `messagesClass.ts` on `gramjs/requestIter.ts` | request offset, last id, messages left, the fetched chunk | `_init`, `_loadNextChunk`, `next` | four numeric bounds, two directions, a moving window | every selected message once and in order | `MessagesIter` |
| History message worker and live worker, `worker.ts`, `handleMessage.ts`, `apps/worker` | profile picture cache in Redis | convert a message, fetch media, hand the event on | 35 at a time, check-then-act on the cache, retries, stalls | each message handed on unless its job gives up, pictures exist | `MessageWorker` |
| History import, `apps/history-import` | `isFlushing`, `updates`, `overflowQueue` | accept a job, flush on two timers, flush recursively | one flag for overlapping flushes, partial send failures, crashes | nothing lost or copied except as the code gives it up, order kept, memory drains | `HistoryImport` |
| Ingest consumer, `apps/consumer` | four Postgres tables | upsert users and chats, insert documents and messages, notify | no transaction, rebalances, redelivery, late members | at least once, idempotent, no dangling rows, nothing moves back | `Ingest`, `GroupLife` |
| Vector indexer, `apps/qdrant` | a Qdrant collection | embed and upsert in chunks, commit per chunk | `joinAndSync` inside a batch, leaving a stale batch | every committed row is indexed | `Indexer` |
| kafkajs consumer | generation, assignment, resolved and committed offsets, fetchers, queue, seeks, pauses | join, fetch, resolve, commit, rejoin, seek, pause, stop, restart | fetchers that share state, answers older than a seek, brokers that change | nothing skipped, one batch per partition, partitions read to their end, restarts lead on | `ConsumerFetch`, `FetchManager`, `GroupLife`, and under `Ingest`, `Indexer` |
| kafkajs producer | sequence numbers, locks per broker, answers per broker | send, retry | retries over brokers, answers that get lost, partitions that move | what is acknowledged is written, once | `Producer` |
| kafkajs connection | sockets, request queue, in-flight requests, timers | connect, send, answer, throttle, time out, disconnect | sockets that overlap, timers cleared by others | each request settled once, none forgotten | `Connection` |
| gramjs sender | send queue, pending states, two loops, a connection | invoke, pack, answer, reject, reconnect, disconnect | reconnection by the receive loop or the pings while requests come in, a key the server forgot | no request doubled or stuck, the loops run | `MTProtoSender` |
| gramjs state of a session | message ids, sequence numbers, time offset | number a message, correct the clock, start a session | a clock that is wrong, corrections in the middle | ids grow, sequence follows order | `MTProtoState` |
| gramjs borrowed senders | a promise, a sender and a timer per data centre | borrow, connect, authorize, release, reconnect, clean up | borrowers who await the same promise | requests answered, nothing left open | `SenderPool` |
| Session store, `gramjs/sessions/RedisSession.ts` | session keys in Redis | load, setDC, setAuthKey | writes not awaited, several processes | a loaded session is one that was stored | `SessionStore` |
| Web tag cache, `apps/www/src/lib/server/api.ts`, `new_tag.tsx` | Next.js data cache, tag tables, optimistic tags | cached reads, link, unlink | invalidation before the write, overlapping clicks | old tags stay in the cache only through a read beside a write; a change stays on the screen | `TagEditor` |
| Web workspace links, `apps/www/src/app/data` | a link table and an array column | link, unlink | two statements, no transaction | table and array agree | `WorkspaceLinks` |
| Web chat list, `chat_list.tsx` | pushed changes, fetched pages | merge, reload | any order of pushes, refetches and renders | the newest known state is shown | `ChatList` |
| Database schema, `packages/db` | table definitions and unique keys | — | — | its unique keys carry the conflict clauses | in `Ingest` |
| Downloads, read replicas, transactions, entity consumer, file import, session setup, pages, CDC, small packages, experiments | — | — | — | see "Not modelled" | — |

`PROJECT.json` lists the same components with their status, and every hazard at
the line where it bites, with the properties that watch it or the reason why
none does.

## Modules

| Module | Models |
| --- | --- |
| `ChunkIter` | abstract: the iterator the export job needs, everything newer than an offset, oldest first, a chunk at a time, over a chat that changes. |
| `HistoryExport` | the export job of `handler.ts`, attempt after attempt; extends `ChunkIter`. |
| `MessagesIter` | the pager in detail; implements `ChunkIter`. |
| `ExportCopies` | several processes and jobs that export one chat. |
| `MessageWorker` | a message turned into an event, by the queue's worker and by the live worker. |
| `Relay` | abstract: an in-memory hop delivers an item once or gives it up, and it never comes back. |
| `HistoryImport` | the buffers of `history-import`; implements `Relay`. |
| `EventSink` | abstract: events are acknowledged once stored, neither moves back. |
| `Ingest`, `IngestProperties` | the ingest consumer and the group underneath; implements `EventSink`. |
| `GroupLife` | the ingest group over its life: joins, restarts, events that are not JSON. |
| `Indexer` | the vector indexer on the group. |
| `FetchManager` | fetchers, their queue, workers, restarts and `stop()`. |
| `ConsumerFetch` | from which offset a partition is read; seek, pause and resume. |
| `Producer` | sends, retries, sequence numbers and locks. |
| `Connection` | one connection and its request queue. |
| `MTProtoSender`, `MTProtoState`, `SenderPool`, `SessionStore` | the Telegram client. |
| `TagEditor`, `WorkspaceLinks`, `ChatList` | the web application. |
| `MC*` | instances for TLC, where a constant is a sequence, a function or a set of records; other modules get their values in the `.cfg` alone. |
| `*Proofs` | the theorems. |

The stages meet at queues and topics, and the models meet there too: what
`HistoryExport` queues is what `MessageWorker` takes; what it sends is what
`HistoryImport` accepts; the topic `HistoryImport` sends to, with the guarantees
and failures of `Producer`, is the `Log` of `Ingest`. `Ingest` and `Indexer` are
compositions already (handler, runner, offset manager and coordinator), since
what matters there is between those.

An operator commented "Mutant" is a plausible bug: a variant of the definition
that follows it, kept to show that a property notices it. The specifications
never use one.

Several properties have names that end in `Explained`. They belong to code that
can go wrong in ways its authors accepted or did not see. A history variable
records each cause when it happens, and the property says that nothing goes
wrong without one of the recorded causes.

## Correspondence: from the chat to the tables

### HistoryExport

One action is one awaited call with the synchronous code up to the next await.
The program counter `pc` names the await: `load` (177–251: the Redis reads, the
total, opening the iterator), `iterate` (the loop), `saveCheckpoint` (258),
`addBulk` (259), `saveDone` (261), `markExported` (269), `addTail` (274) and
`sayHello` (275). The Redis keys, the Postgres flag, the number of times each
message was queued and the BullMQ state of the job survive an attempt;
`messages`, `totalJobs` and the iterator do not. `Throw` is any await rejecting
(BullMQ retries up to `attempts: 5`), `Crash` is the process dying (BullMQ
gives a stalled job out again, once by default). A call that took effect and
still reported an error is that call followed by `Throw`. Telegram is external:
ids grow and are never reused, messages are deleted at any time.

The code saves the checkpoint before it adds the batch. An attempt that ends
between the two loses the batch: no later attempt looks at it again. The model
records such batches in the history variable `skipped`, and the properties say
that this is the *only* way to lose a message. `promised` records what the
`exportedInFull` flag vouched for when it was set, which is before the last
batch is handed over.

Reads at the start of an attempt are one action: in this module nobody else
writes the keys while the attempt runs. The takeout session and progress reports
are left out.

### ExportCopies

The same steps for several processes that share the keys, without changes of the
chat. BullMQ gives a job whose lock expired to another process while the first
goes on; two sessions (`history-0`, `history-1`) share one queue; and the dialog
is picked by a substring of its id (`handler.ts:172`), so that two requests may
walk one chat under different flags, which `Dialog` models with the relation
`Includes`. `FlagExplained` says when the flag of a chat speaks
for messages no queue has, `TwiceExplained` when a message is queued twice.
The Redis reads of `Load` are one
step, and a request no dialog fits is left out.

### MessagesIter

`params` are the arguments of `iterMessages`; `Limit` is the constructor's
treatment of them, `StartOffset`, `NothingBetween`, `InitGivesUp`, `InitTotal`
and `InitRequest` are `_init`, `LoadNextChunk` is the request, the range check,
`lastId` and `_updateOffset`, `Yield` and `Finish` are `next()`. `GetHistory`
is external and modelled from how Telegram documents the window: the messages
sorted newest first, `addOffset` places from the ids at or above the offset.
`MaxSafeInteger` stands for `Number.MAX_SAFE_INTEGER`, above every id and count.

A message's date plays no role: `offsetDate` is only set from the last message,
whose id is the offset already. Arguments the code leaves undefined are 0: the
export job passes `offsetId: undefined` for a fresh start, `Math.max` turns it
into NaN, and NaN fails every test in the way 0 does.

Two things the model shows about the code. If the bounds leave nothing between
them, `_init` returns false, but `next()` only looks for true, and
`_loadNextChunk` throws "Request not set yet" where an empty result is meant
(phase `failed`). And newest first, `offsetId` and `maxId` are merged with
`Math.max`: with both given and `maxId` larger, messages at and after `offsetId`
come out, although the comment on the parameter calls it exclusive
(`messagesClass.ts:88`, `400`). `OffsetIsExclusive` states it and
`MessagesIterOffset.cfg` refutes it; the export passes `reverse: true` and is not
affected.

### MessageWorker

A handler is one message on its way through `handleMessage.ts`: for the picture of
the sender and then for that of the chat (`Photo`, none, one or both) `Lookup` the
stored name, and if there is none `Upload` the picture and `Store` its name; then
fetch `Media`, `Add` the result. Messages of the queue run under a BullMQ job (retries
up to `Attempts`, stalls when the process dies or the lock expires, in which
case a second copy runs beside the first); live messages run once, at once, and
share the picture cache. `Shutdown` is the live worker's signal handler, which
disconnects the producer under handlers that still wait. `Skipped` messages are
those of a chat of an unknown kind, for which `handleMessage` returns nothing
(`handleMessage.ts:293`) and the job completes without an event; it finds out
after the sender's picture (`StepAfter`). What the event holds besides the
pictures is left out; `isUserCached` and
`isChatCached` return true in the code.

### HistoryImport

The process is a single thread, so the code between two awaits is one step, and
`flushItems` awaits only `producer.sendBatch`. `inFlight` holds the
`itemsToFlush` of every call that waits there. `Finally` is the finally block
with its recursive call; a flush of an empty buffer has no await and runs to its
end in the same step. Items are numbered in the order of acceptance, so a
redelivered job is a new item. `dropped` collects what the catch block gives up,
`lost` what a crash takes from memory. `waiting` and `active` are the queue's
jobs: an active one comes back after a crash.

### Ingest

Each statement of the handler is an action, since each is awaited and there is
no transaction. The topic is a constant, `Log`; an event has the fields the
tables depend on. `Unique` and `FirstWith` are `getUniqueByKey`, which keeps the
first event with a key, so that a later event of the same batch does not update
its chat or user; `Coalesce` and `Greatest` are the conflict clauses;
`InsertMessages` ignores a key that is there. Documents carry a row number,
because nothing makes `file_id` unique and each delivery adds a row.

`Join` is `joinAndSync` with the new `OffsetManager`, `Fetch` a batch of any
length from the resolved offset, `Resolve` the auto-resolve, `Commit` and
`BatchFails` the two commits of the runner, `Rejoin` what it does when a
heartbeat or commit tells it that the group went on. The coordinator is
external: it bumps the generation, assigns partitions in any way, and takes
commits from members of the current generation. Kafka's preparing phase, in
which a rebalance has begun and old commits still count, is folded into the
moment before `Rebalance`.

A member that has not noticed a rebalance goes on writing its batch while
another member writes the same events. That is the case the properties are for.

### GroupLife

Here a batch is handled as a whole or not at all, the topic grows, and what
matters is which offset a member starts from and whether it goes on. A group
without a committed offset starts at the end of the partition at *every* join
before the first commit (`fromBeginning` is not set), so whatever was produced
before is passed over (`early`); `SkippedExplained` says that nothing else is. A round of
batches rejects with its first error only. An ordinary error is retried and then
makes the member start anew; `JSON.parse` throws a `SyntaxError`, which kafkajs
treats as unrecoverable: the member stops for good, and the next member gets the
partition and stops in turn. `Stored` says what is read in spite of that. There
is one broker, so one fetcher; the assignment may change at any rebalance. The
group begins without committed offsets or with all of them at the beginning.
Errors the runner does not retry, other than a handler's, are left out.

### Indexer

Every await of the handler in `apps/qdrant` is an action: the upsert of a group,
its resolve and commit, the heartbeat, and, if that fails, `joinAndSync` in the
middle of the batch (`RejoinInBatch`), after which the loop goes on with the
rows it has under a new `OffsetManager`. Offsets it resolves after that for a
partition it may no longer own are *strays*: `CommitsMoveBackByStrays` says that
only those move commits back. `Text` says of each row whether it has a text to
embed, an empty one, or null: the filter at the start of a batch asks a null text
for its length (`index.ts:193`), and that `TypeError` is not retried and ends the
consumer without a restart (`NullText`, `Stop`), as does a resolve by a member
without partitions (`ResolveThrows`). The partition goes to the next member, which
stops as well. So `EverythingIndexed` holds as long as a member runs. Qdrant answers before it has stored (`wait: false`), which is outside the code.

## Correspondence: the Kafka client

### Connection

An action is one event of the process (a socket event, a timer, a call from
above) with everything that runs synchronously on it. `disconnect()` is two
actions: its await is resolved by the emptied queue, and only promise callbacks
run before it goes on (`finishing`). Callbacks of a socket act on the connection
whatever socket it has by then, which is why `MaxSockets` is two and `Overlap`
says whether a second socket may come up beside the first. Modelled are the
in-flight limit, the throttle, the two timers, the timeout of a request and late
responses. SASL, the framing of responses and the wrap of correlation ids are
left out.

### FetchManager

`start()` with `Promise.all`, the fetchers' loops, the shared `assignments` map
and queue, the workers, `HasChanged` for a change of brokers, `Caught` for the
error that restarts or ends everything, `Schedule`, `Stop` and `Leave` of the
runner. A fetcher that is told to stop ends after its pushes settle. Handlers may fail at
any time, after `stop()` too. Batches are
one per partition: which offsets they hold is `ConsumerFetch`. What follows when
retries run out is `GroupLife`.

### ConsumerFetch

One member that consumes all partitions of a topic with auto-commit; the
topic's partitions have leaders on several brokers, and leaders move. A fetcher
pops the user's seeks (`PopSeek`, whose commit waits for the coordinator),
resolves offsets (`ResolveOffsets`), asks, and waits for the workers; the user
seeks, pauses and resumes at any time, also for the whole topic. Requests to the
coordinator share a connection and are applied and answered in order (`wire`).
A heartbeat that is refused because of a rebalance commits before it throws
(`HeartbeatRefused`, `LeaveCommitted`, `Leaving`, `Leave`; `runner.js:207`).
Code that only takes a few turns of the microtask queue must come to rest
(`Settled`) before the next network event. Requests to a former leader,
rejoining within `fetch()` and `autoCommit: false` are left out.

### Producer

A send is cut into a request per leader, the whole function runs
again when one fails, and `responsePerBroker` is what is remembered. Requests
travel in order on the wire to a broker; answers may be lost, requests time out,
connections close, leaders move. The broker is external and remembers the last
five batches of each producer and partition. Without idempotence the lock of a
broker does not exist; the set of active requests takes its place. This is how
`apps/history-import` sends (several messages at once, without keys, not
idempotent); the workers send one message at a time. Acks 0 and 1, a cluster
without any connection and the rotation of sequence numbers are left out.

## Correspondence: the Telegram client

### MTProtoSender

Awaits that take only a few turns of the microtask queue are not steps of their
own; network events, the second before a reconnect, the wait for something to
send and the encryption of a batch are. Requests travel in containers (`Pack`);
a rejection names a message or its container (`PopStates`). `StartReconnect` and
`Connected` are the two ends of a reconnection. It is started by the receive loop
when the connection ends (`Drop`) or something undecodable arrives (`Garbled`),
and by the pings of the update loop (`PingsTimeOut`). When the server has forgotten
the key (404) the receive loop of a main sender ends and nobody reconnects
(`KeyForgotten`, `MTProtoSender.ts:573`): the sender stays connected without it
until the pings, which nobody hears answered, time out. A request can leave the
sender without being settled: packed when a reconnection is due, in a batch that
could not be sent, or in the queue when a reconnection clears it. `forgotten`
records these; see "Finding". `stranded` are requests that are pending when the
user connects anew while the old send loop still waits; only another reconnection
sends them again.
`disconnect()` by the user during a reconnection does not stop it. `connect()`
is assumed not to be called while the sender reconnects, and encrypting a batch
to be faster than connecting. Acknowledgements, updates, `invokeAfterMsg`,
oversized payloads and the key exchange are left out.

### MTProtoState

A message id is the clock's time with an offset, `Fine` ids to a tick of the
clock, and grows by one when the time does not; `Jump` sets the clock of the
machine, `UpdateTimeOffset` corrects the offset and forgets the last id,
`PumpSequence` and `LowerSequence` are the two notifications about sequence
numbers, `Reset` a new session. Encryption and the check of received ids are
left out.

### SenderPool

The promise of a data centre, its sender, the borrowers that await it, the
release timer. `Connect`, `Connected`, `Authorize` and `GoRound` are the steps of
`_connectSender`, `After` the branches behind a connect; `Release`, `Cleanup`,
`Break`, `Reconnect` and its two followers, and `BreakKey` change a sender under
those who use it. Only a data centre other than the session's is modelled, with
no key for it at the start; `getDC` is part of the first step; of two
reconnections of one sender only one is modelled at a time.

### SessionStore

Redis takes the commands of a process in order; the writes of `setDC` are not
awaited, so a crash leaves a prefix of them (`Halfway`) and another process may
load in between. `StoredTogether` says what a lone process finds,
`BrokenExplained` when a process uses a key that was made with another data
centre. One cause of that is `_switchDC`, which clears the key in memory while
Redis keeps it, so that the next `connect()` loads it again (`left`). The port
goes with the address; entity rows are left out.

## Correspondence: the web application

### TagEditor

The tags of one entity: the table, the cached list of `unstable_cache`, and
editors with react-query's optimistic updates. A server action invalidates the
cache and writes; nothing orders the two (`revalidateTag` is not awaited by the
cache handler), and both are finished before the answer. A read that began
before the invalidation may fill the cache after it. `Click` is `onMutate`,
`Settle` and `SettleError` what follows. A revalidation that fails, the creation
of tags and the list of all tags are left out.

### WorkspaceLinks

A call links or unlinks a message or user and a workspace in two statements
(`First`, `Second`), and may break off between them. Calls come in any number and
order. `row` is the link row, `ids` the copies of the id in the array.

### ChatList

Pages by offset, a cache that is a minute old at most, changes that Pusher
pushes, and handlers that compare a change with the list of *their* render.
`Receive` delivers to the handlers subscribed at that moment; `Effect` leaves the
channel and joins again after a render. react-query, Pusher and React are
external. Searching, the selected chat and failing requests are left out.

## Runs

| Run | Instance | Distinct states | Shows |
| --- | --- | --- | --- |
| `export` | 4 ids, chunks of 3, batches of 2, 2 attempts, 1 stall | 549,704 | no hole but a batch lost at a hand-over, the checkpoint is covered and never moves back, repeats only of a tail of less than a full batch, the counter never overstates, the flag keeps its promise, every message is dealt with |
| `import` | 3 jobs, threshold 2, 5 accepts, 1 crash | 401,180 | conservation, flag discipline, arrival order, memory drains, implements `Relay` |
| `pager` | 5 ids, chunks of 2, 216 combinations of arguments | 250,607 | in order, in bounds, nothing skipped; with the export's arguments implements `ChunkIter` |
| `ingest` | 2 members, 2 partitions with one message each of one chat, an event without a chat, 2 faults | 743,324 | commits behind the store, references, nothing regresses, implements `EventSink`, everything is stored |
| `message_worker` | 2 queued messages, one of them to be skipped, 1 live with two pictures, one of them shared, 2 handlers, 2 attempts, 1 failure, 1 crash | 560,758 | stored and sent names are those of uploaded pictures, duplicates are paid for by a failure or a stall, everything is sent |
| `indexer` | 2 members, 1 partition of 4 rows, one with an empty text and one with null, groups of 1, 2 faults | 592,334 | commits behind the collection, commits move back by strays only, everything is indexed while a member runs |
| `group_life` | 2 members, 2 partitions, 2 events, one of them not JSON, 1 retry, 2 faults | 526,730 | what is passed over came before the first commit; everything else is stored |
| `fetchers` | 2 brokers, 2 partitions, 2 workers, 3 changes, 2 errors | 73,818 | one batch per partition, quiet after leaving, fetchers follow the brokers |
| `positions` | 2 brokers, 1 partition of 2 messages, seeks to 0, 1 and beyond the end, 3 events | 233,644 | nothing skipped, read to the end |
| `sender` | 3 requests, 3 breaks, rejections or lost keys, 1 disconnect | 138,067 | no duplicates, the loops run, nothing stuck |
| `sender_retry` | 2 requests, 1 break | — | a disagreement with a comment, see "Finding" |
| `export_copies` | 2 processes, 2 jobs, 2 chats of 5, batches of 2, 2 attempts, 1 stall, 2 faults | 628,939 | what a flag and a double message can be traced to |

Bounds and why they are enough. The export needs a full batch, a second chunk
and a tail, an attempt that dies and one that follows: four ids with chunks of
three and batches of two give all of them, with messages arriving and vanishing
between. Chunks and batches do not end at the same message, as in the code (100
and 501). Two copies of a job need a batch border between them and a tail: five
messages in batches of two, and two faults for a lost lock and a death. The
pager needs a last chunk smaller than the others and bounds that fall inside, on
and outside the chat's ids: five ids, limits -1, 0, 1 and 3, and offsets and
bounds around them. The import needs two sends that overlap, an overflow filled
while both wait, and a refill: five accepts with a threshold of two. The ingest
stage needs a member that is two steps behind the group and an event that
another member overtakes: two faults, and a chat that the partitions share, with
different dates and senders. No two events have the same key, so an event that is
lost leaves its key out. The message worker needs a failure or a death at each
step and a second copy of a job; that a job fails for good, or stalls twice, is
beyond its bounds and covered by the theorems. The indexer needs a group after the
one in which it rejoins, a fault after that, and a null text behind rows that are
fine. The group needs a partition that
is blocked beside one that is not. Fetchers need a change of brokers while a
batch is in hand and an error on top. Positions need a seek, a move or
rebalance, and a failure that fall into one fetch round. The sender needs a
container of two, a request invoked while it reconnects, and a second break
during the first reconnection. `MaxEvents`, `MaxFaults`, `MaxCrashes`,
`MaxAccepts`, `MaxChanges`, `MaxErrors`, `MaxDrops` and `MaxQuits` bound the
environment, not the code. No symmetry is used in a run with a liveness
property.

Deadlock is not checked: each of these systems may stop, when the job has
completed or failed, the topic is read to its end, or the bounds are used up.

### Fairness

No specification assumes that a call succeeds unless failures are counted.

- `HistoryExport`: the running attempt keeps going; every await settles in
  success or error.
- `HistoryImport`: intervals keep firing and every send settles; a send may
  always fail.
- `Ingest`, `Indexer`, `GroupLife`: a process that can take a step takes one,
  which includes restarting; the indexer's step out of a stale group is fair on
  its own, because its heartbeat is a call of its own.
- `MessageWorker`: a handler goes on, and BullMQ's check for stalled jobs keeps
  running.
- `FetchManager`: each of the manager, the runner's stop, the fetchers and the
  workers goes on.
- `ConsumerFetch`: each fetcher and worker goes on, strongly: the model lets a
  network event happen only when the promise callbacks of the last one have run
  (`Settled`), and another fetcher's empty rounds, which need no network of
  this partition, interrupt that state again and again without anything
  standing in the way of the event.
- `MTProtoSender`: the send loop goes on, the server answers what it was sent
  and has not rejected, a reconnection comes to its end, and the update loop goes
  on pinging, so that a sender that receives nothing reconnects. The user invokes
  and quits when they like.

### Properties that are deliberately not claimed

That every event's offset gets committed (a failed last commit is repeated only
after the next batch); that a chat's last message date is the newest in its batch
(`getUniqueByKey` keeps the first event); that a file has one document row; that
a picture is uploaded once (handlers that look at the same time each upload it);
that a live message survives the shutdown of its worker; that the position of a
consumer survives a seek whose commit is refused; that a seek back is carried out
(an older answer may undo it, and `due`, with which `NothingSkipped` compares, never
moves back); that a profile field keeps its newest value (an older batch may
overwrite it, with anything but null); that a flag is taken back when its job fails
for good.

What some properties do not notice: `DuplicatesExplained` counts, so that a failure
before the first event pays for a repeat as well; `FlagExplained` excepts a chat
for which another dialog was walked; and with one partition in `positions`, pausing
it cannot be seen to resume the others of a paused topic.

## Finding

`sender_retry`: the class comment of the sender says that reconnecting is its
concern, "including retry of messages that could not be sent successfully"
(`MTProtoSender.ts:7-9`). When `connection.send` throws, the send loop returns
(`MTProtoSender.ts:508`), and the batch, which becomes pending only after the send,
is in no list any more. The same goes for what the loop takes from the queue before
it notices that a reconnection is due (`481`) and for what is in the queue when
`_reconnect` clears it (`992`). Nothing settles the promises of these requests or
sends them again. `Retried` says that a request which is not settled is still
somewhere to be sent from; TLC finds a batch that is lost when the connection breaks
while it is being encrypted. `NothingStuck` excepts such requests and shows that
all others are settled.

## Further configurations

These modules are complete and checked in the same way, each with the
configuration of its name; no run of `PROJECT.json` lists them. Their
assumptions on the constants are among the invariants of the configuration.
`MessagesIterOffset.cfg` is one more, for `MCMessagesIter`: it refutes
`OffsetIsExclusive` (see "MessagesIter").

| Module | Instance | Distinct states | Properties |
| --- | --- | --- | --- |
| `Connection` | 4 requests, one without a response, 2 in flight, 2 sockets, which may overlap | 540,594 | `InFlightBound`, `NothingForgotten`, `InFlightWatched`, `SettledOnce` |
| `Producer` | idempotent, 3 sends awaited one by one, 2 brokers, 3 failures, 2 moves | 45,163 | `AckedWritten`, `WrittenOnce`, `SendsSucceed` |
| `SenderPool` | 2 borrowers, 2 senders, 2 failures | 156,166 | `ImportedExplained`, `NothingLeftOpen`, `CurrentIsOpen`, `Served` |
| `SessionStore` | 2 processes, 2 data centres, 4 starts | 291,807 | `BrokenExplained`, `StoredTogether` |
| `TagEditor` | 2 editors of 1 tag, 3 clicks, 1 failure | 2,418,014 | `CacheExplained`, `StaysShown` |
| `WorkspaceLinks` | 4 calls | 63,648 | `DriftExplained`, `AloneTakesEffect` |
| `ChatList` | 2 chats on 2 pages of 1, 2 messages | 3,640,000 | `DatesExplained`, `ChatsExplained`, `BackExplained` |

## Proofs

All constants are arbitrary, within the assumptions the modules name: ids are
positive and finite in number, sizes and bounds are numbers, the log is a
function to sequences of events. TLC evaluates the assumptions of the modules
with a run; `MTProtoState` has none, so its assumption is a hypothesis of its
theorems.

A proof module extends the modules it is about; `MTProtoState` and
`WorkspaceLinks` are instantiated by name instead (`State`, `Links`). Where
specifications share a proof module, all but one have a prefix on `Init`,
`Next`, `Spec`, `TypeOK` and `vars` (`WorkerSpec`, `SenderSpec`, `CopiesSpec`).

`HistoryExportProofs`. The invariant that carries the argument says where each
message at or below the iterator's cursor is: queued, in the batch, lost at a
hand-over, or deleted; that the batch lies between the checkpoint and the cursor;
that the checkpoint has not overtaken what is covered; and that what was queued
beyond the checkpoint is the tail last handed over. `NoHoles` alone is not
inductive: a step that queues a batch fills no hole unless one knows that
everything older than the batch is covered already. From it follow `NoHoles`,
`CheckpointCovered`, `DuplicatesOnlyInTail`, `AtMostOncePerAttempt`,
`DoneNeverOverstates` (with a count of the batch and the queue), `PromiseKept`
and `CheckpointMonotone`.

`HistoryJobsProofs`, the export by several processes (`ExportCopies`).
`FlagExplained` rests on `CoverInv`: what a checkpoint, a walk or a completed
request has behind it is queued, was lost with a batch, or is in a batch that
some process is about to hand over. A process that dies takes the last case
away, and that is where `skipped` records. `TwiceExplained` is about chats that
no two jobs or copies walked at once. `OnceInv` says of those that there is one
worker, that its cursor moves with the checkpoint, that checkpoint and cursor
stand at the end of whole batches, and so that the tail, which has no checkpoint
of its own, is all that a later attempt can repeat (`LastFull`).

`HistoryJobsProofs`, the import (`HistoryImport`). `TypeOK` and `FlagDiscipline`
are inductive as they are. For `Conservation` each step is first shown to be one
of three as seen from outside the buffers: it takes an item, settles some items,
or rearranges them (`StepKinds`). The lemmas below it say that a finally block,
a flush and a settled batch move exactly the items they should, which needs the
disjointness of the buffers and of the batches in flight (`MemoryDisjoint`). The
same three kinds give the refinement of `Relay`. `ArrivalOrder` (`SentInOrder`) is
about the order in which jobs were accepted, in the buffers and among the batches
under way; it needs what a flush in its finally block does to both buffers at once.

`TelegramProofs`, the message worker. A budget for each message: events sent,
handlers that may still send, and the one still due never exceed one plus the
failed attempts and stalls. It is inductive and implies `DuplicatesExplained`.
`PicturesExist` needs that the names a handler holds, also between upload and store,
are those of uploaded pictures, in the order of its message's.

`TelegramProofs`, the pager. The invariant places the cursor of the last message
yielded, the fetched buffer and the request's offset on one line: the buffer
lies beyond the cursor, has no selected message between its members that stayed
in the chat, and the next request starts where it ends. `InOrder` and
`WithinBounds` follow, `NothingSkipped` needs in addition that a short answer is
the last. `PagerIsChunkIter` is the refinement: with the export's arguments
every step of the pager is one of `ChunkIter`'s or none, so what
`HistoryExportProofs` shows of the iterator holds for the real one.

`TelegramProofs`, the sender and its session. `OneEntry`: a request has at most
one entry in the send queue, the batch being sent and the pending states
together, and none once it is settled. It gives `NoDuplicates`; its lemma
`WithoutEntries` says what is left of a sequence when some entries are taken
out. `LoopsRun` is inductive with
`keyBroken` marking a receive loop that a 404 ended. Message ids grow between two corrections of the clock,
and sequence numbers follow the order of the messages until a notification
lowers them (`StateIds`, `StateSequence`).

`IngestProofs`. The invariant says, per member and step, that the keys below its
resolved offset are stored, that its batch starts right after that offset, and
that from the step after the insert the batch's keys are stored too; further,
that a member of the current generation owns what it believes it owns and that
its resolved offsets are not behind the committed ones. The first part gives
`CommittedIsStored`; the second is what makes commits monotone and with them the
refinement of `EventSink`. `NothingRegresses` follows step by step from the
conflict clauses, with dates being numbers. `References` (`RowsRefer`) adds what
each of the four statements has written by the time the next one runs. The same module shows of the workspace
links that the drift of row and array is bounded by the calls that broke off or
overlapped, and that a call that runs alone ends with both as asked.

`IndexerProofs`. `StoredInv` says of every member that the rows behind its
resolved offsets, behind the offsets it read at its last join, and behind its
place in the batch are in the collection, whether or not it still owns the
partition; so even a stray commits nothing that is not indexed.
`CommitsMoveBackByStrays` needs the owners: leaving the strays aside, a current
member has resolved offsets of its own partitions only, and they are not behind
what is committed (`Placed`, `Ahead`). `GroupsFilled`, part of the types, is what
tells that a resolved group moves the offset at all.

`GroupLifeProofs`. `SkippedExplained` is not inductive: the committed offset is
overwritten by what any member has as its position, one of an older generation
included. `NothingPassed` therefore says of every position and of every
committed offset that the events before it are stored or came before the first
commit, and `FirstCommit` that without a commit these are all there is.
`RoundOK` types the round of batches a member works through.

`FetchManagerProofs`. Every batch in the queue or with a worker is outstanding
at exactly one fetcher, to which its partition is assigned, and which waits for
it; a fetcher that waits cannot end, and neither a restart nor `stop()` goes on
before it has. That gives `OneBatchPerPartition` and `QuietAfterLeaving`.

`ConsumerFetchProofs`. `NothingSkipped` says when a handler may be called; an
offset comes to that call over the coordinator, the offset manager, a seek, a
request and a batch, and may be overtaken at each. `ReachInv` says of all these
places at once that an offset there is due, so that what is before it has been
handled or sought past, or is at or beyond the end, where nothing is called. It
holds for offsets that are out of date as well, because what is due never moves
back. A message handled or a seek raises what is due (`DueGrows`); requests and
answers keep what they carry (`SendKeeps`, `AnswerKeeps`); and a batch whose
handler failed or whose partition was sought calls nobody again (`Calmer`).

With these, every invariant and every action property that a passing run checks is
a theorem. Model-checked only: all liveness under fairness (`EveryMessageHandled`,
`MemoryDrains`, `EverythingStored`, `Sent`, `EverythingIndexed`, `Stored`,
`FetchersFollowBrokers`, `ReadToTheEnd`, `NothingStuck`, `SendsSucceed`,
`Served`), which is out of the prover's reach; and the safety properties of the
modules under "Further configurations" except `WorkspaceLinks`: `Connection`,
`Producer`, `SenderPool`, `SessionStore`, `TagEditor` and `ChatList`.

## Plan

What has been done: the chain from the chat to the tables and the index, the
Kafka consumer underneath it, the sender and the sessions of the Telegram client,
and the parts of the web application that keep state of their own; and the proofs
of all that the runs check except liveness. What follows, in this order:

1. Proofs for the modules under "Further configurations", `SessionStore` and
   `SenderPool` first.
2. The chain export, message worker, import as one specification, with an
   end-to-end "handed over, dropped visibly or lost at a named place".
3. The downloads of the Telegram client and the update gap handling.

## Not modelled

- Reads of committed transactions, transactions and read replicas of `kafkajs`:
  nothing in this repository uses them.
- Downloads of `gramjs`: one file, sequentially, without state that messages
  depend on; `MessageWorker` has a download as a step that succeeds or fails.
- Rendering and queries of the web application, wording and formatting, metrics,
  logging, media upload, the schema registry client, generated Xata code,
  connectors and experiments. They hold no state the messages depend on, or they
  are not this program's code.
- The remaining API helpers of `gramjs`, entities and updates: parsing and
  wrapping. Key exchange and encryption are cryptography.
- `entity-consumer` ignores every error and keeps nothing; what a partly
  duplicate create does is up to Xata.

## Running

```
tlc -config HistoryExport.cfg MCHistoryExport
tlapm HistoryExportProofs.tla
```

A `.cfg` belongs to the `MC` module of its name, `MessagesIterOffset.cfg` to
`MCMessagesIter`; where there is none, to the module itself.
