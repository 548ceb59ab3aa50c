---------------------------- MODULE ConsumerFetch ----------------------------
(***************************************************************************)
(* packages/kafkajs consumer: from which offset a partition is read, and   *)
(* when its messages reach eachMessage.  One member of a group consumes    *)
(* all partitions of a topic with auto-commit; each broker has a fetcher,  *)
(* which pops the user's seeks, resolves offsets, fetches, and waits for   *)
(* the workers to handle what it got, while the user seeks, pauses and     *)
(* resumes.  (consumerGroup.js fetch and seekOffsets, offsetManager,       *)
(* subscriptionState.js, seekOffsets.js, runner.js processEachMessage.)    *)
(*                                                                         *)
(* Requests to the coordinator travel over one connection, so they are     *)
(* applied and answered in the order they are sent: `wire'.  Which fetcher *)
(* may hand on a batch, and how fetchers are stopped, is FetchManager.     *)
(***************************************************************************)
EXTENDS Naturals, Sequences, FiniteSets

CONSTANTS
  Nodes, Partitions, None,
  End,          \* every partition holds the messages 0 .. End - 1
  Concurrency,  \* partitionsConsumedConcurrently
  SeekOffsets,  \* offsets the user seeks to
  WholeTopic,   \* whether the user pauses and resumes the whole topic, too
  MaxEvents     \* bound on seeks, pauses, moves, rebalances and failures together

ASSUME NoneAssumption == None \notin Nat
ASSUME OffsetsAssumption == End \in Nat \ {0} /\ SeekOffsets \subseteq Nat
ASSUME ConcurrencyAssumption == Concurrency \in Nat \ {0}
ASSUME BoundsAssumption == MaxEvents \in Nat

VARIABLES
  stored,               \* offsets at the coordinator; None: none, or "earliest"
  wire,                 \* requests sent to it and not answered
  rebalancing,
  committed, resolved,  \* offsetManager; None: unset
  seekTo,               \* seekOffset
  paused, pauseAll, resumed,  \* subscriptionState of the topic
  leader,
  mode,    \* of the fetch manager: "running", or stopping for an "error" or to "rejoin"
  pc,      \* fetcher: "idle", "seeking", "sought", "reading", "listing", "fetching",
           \* "resetting", "handling", "ended"
  mine,    \* the partitions it fetches this round
  todo,    \* those whose seek it has not looked at yet
  got,     \* answer to offsetFetch while offsets are listed
  asked,   \* offsets in the fetch request
  rejected, \* how the push ends: "no", "error", "rejoin"
  batch,   \* per partition
  wanted,  \* history: partitions the user paused and did not resume
  due,     \* history: one more than the last offset handled or sought
  events   \* so far

coordinator == <<stored, wire>>
offsets == <<committed, resolved>>
topic == <<paused, pauseAll, resumed, wanted>>
fetchers == <<mode, pc, mine, todo, got, asked, rejected>>
vars == <<coordinator, rebalancing, offsets, seekTo, topic, leader, fetchers, batch,
          due, events>>

Offsets == 0..End \cup SeekOffsets
MaybeOffsets == Offsets \cup {None}
NoBatch == [phase |-> "none", next |-> 0, node |-> None]
Maps == UNION {[ps -> MaybeOffsets] : ps \in SUBSET Partitions}
EmptyMap == [p \in {} |-> None]

Requests ==
  [kind : {"seek", "reset", "commit", "read"}, who : Nodes \cup Partitions, ok : BOOLEAN,
   offsets : Maps]

Batches ==
  [phase : {"none", "queued", "handling", "committing", "between", "finishing", "failing",
            "leaving", "left"},
   next : 0..(End - 1), node : Nodes \cup {None}]

TypeOK ==
  /\ stored \in [Partitions -> MaybeOffsets]
  /\ committed \in [Partitions -> MaybeOffsets] /\ resolved \in [Partitions -> MaybeOffsets]
  /\ seekTo \in [Partitions -> MaybeOffsets]
  /\ wire \in Seq(Requests)
  /\ rebalancing \in BOOLEAN
  /\ paused \subseteq Partitions /\ resumed \subseteq Partitions /\ pauseAll \in BOOLEAN
  /\ wanted \subseteq Partitions
  /\ leader \in [Partitions -> Nodes]
  /\ mode \in {"running", "error", "rejoin"}
  /\ pc \in [Nodes -> {"idle", "seeking", "sought", "reading", "listing", "fetching",
                       "resetting", "handling", "leaving", "left", "ended"}]
  /\ mine \in [Nodes -> SUBSET Partitions] /\ todo \in [Nodes -> SUBSET Partitions]
  /\ got \in [Nodes -> Maps]
  /\ asked \in [Nodes -> UNION {[ps -> Offsets] : ps \in SUBSET Partitions}]
  /\ rejected \in [Nodes -> {"no", "error", "rejoin"}]
  /\ batch \in [Partitions -> Batches] /\ due \in [Partitions -> 0..End]
  /\ events \in 0..MaxEvents

Init ==
  /\ stored = [p \in Partitions |-> None] /\ wire = <<>> /\ rebalancing = FALSE
  /\ committed = [p \in Partitions |-> None] /\ resolved = [p \in Partitions |-> None]
  /\ seekTo = [p \in Partitions |-> None]
  /\ paused = {} /\ pauseAll = FALSE /\ resumed = {}
  /\ leader \in [Partitions -> Nodes]
  /\ mode = "running" /\ pc = [n \in Nodes |-> "idle"]
  /\ mine = [n \in Nodes |-> {}] /\ todo = [n \in Nodes |-> {}]
  /\ got = [n \in Nodes |-> EmptyMap] /\ asked = [n \in Nodes |-> EmptyMap]
  /\ rejected = [n \in Nodes |-> "no"]
  /\ batch = [p \in Partitions |-> NoBatch]
  /\ wanted = {}
  /\ due = [p \in Partitions |-> 0]
  /\ events = 0

\* The map f where it is defined, and g elsewhere.
Over(f, g) == [p \in Partitions |-> IF p \in DOMAIN f THEN f[p] ELSE g[p]]

Spend == events < MaxEvents /\ events' = events + 1

----------------------------------------------------------------------------
(* Pausing: subscriptionState.js.                                          *)

IsPaused(p) == (pauseAll /\ p \notin resumed) \/ p \in paused

PauseTopic ==
  /\ WholeTopic /\ Spend
  /\ paused' = {} /\ resumed' = {} /\ pauseAll' = TRUE
  /\ wanted' = Partitions

PausePartition(p) ==
  /\ Spend
  /\ paused' = paused \cup {p} /\ resumed' = resumed \ {p} /\ pauseAll' = FALSE
  /\ wanted' = wanted \cup {p}

ResumeTopic ==
  /\ WholeTopic /\ wanted # {}
  /\ paused' = {} /\ resumed' = {} /\ pauseAll' = FALSE
  /\ wanted' = {} /\ UNCHANGED events

\* Mutant: forgets which partitions of a paused topic were resumed.
ResumePausedOnly(p) ==
  /\ p \in wanted
  /\ paused' = paused \ {p}
  /\ wanted' = wanted \ {p} /\ UNCHANGED <<pauseAll, resumed, events>>

ResumePartition(p) ==
  /\ p \in wanted
  /\ paused' = paused \ {p}
  /\ resumed' = IF pauseAll THEN resumed \cup {p} ELSE resumed
  /\ wanted' = wanted \ {p} /\ UNCHANGED <<pauseAll, events>>

Pausing ==
  /\ PauseTopic \/ ResumeTopic \/ \E p \in Partitions : PausePartition(p) \/ ResumePartition(p)
  /\ UNCHANGED <<coordinator, rebalancing, offsets, seekTo, leader, fetchers, batch, due>>

\* consumer.seek(): used on the next fetch.  An offset beyond the end answers nothing.
Seek(p, o) ==
  /\ Spend
  /\ seekTo' = [seekTo EXCEPT ![p] = o]
  /\ due' = [due EXCEPT ![p] = IF @ < o /\ o < End THEN o ELSE @]
  /\ UNCHANGED <<coordinator, rebalancing, offsets, topic, leader, fetchers, batch>>

----------------------------------------------------------------------------
(* The coordinator.                                                        *)

\* A commit may be refused while the group rebalances.
Send(kind, who, os) ==
  \E ok \in {TRUE} \cup (IF rebalancing /\ kind # "read" THEN {FALSE} ELSE {}) :
    /\ wire' = Append(wire, [kind |-> kind, who |-> who, ok |-> ok, offsets |-> os])
    /\ stored' = IF ok /\ kind # "read" THEN Over(os, stored) ELSE stored

Answered(kind, who) ==
  /\ wire # <<>> /\ Head(wire).kind = kind /\ Head(wire).who = who
  /\ wire' = Tail(wire) /\ UNCHANGED stored

Rebalance ==
  /\ ~rebalancing /\ Spend
  /\ rebalancing' = TRUE
  /\ UNCHANGED <<coordinator, offsets, seekTo, topic, leader, fetchers, batch, due>>

\* The metadata names another leader.  (Requests the old one would refuse are left out.)
Move(p, n) ==
  /\ n # leader[p] /\ Spend
  /\ ~(pc[leader[p]] = "fetching" /\ p \in DOMAIN asked[leader[p]])
  /\ leader' = [leader EXCEPT ![p] = n]
  /\ UNCHANGED <<coordinator, rebalancing, offsets, seekTo, topic, fetchers, batch, due>>

----------------------------------------------------------------------------
(* A fetcher's round: consumerGroup.fetch().                               *)

\* fetcher n throws, and the others are to end.
Throw(n, why) ==
  /\ pc' = [pc EXCEPT ![n] = "ended"]
  /\ mode' = IF mode = "running" THEN why ELSE mode

\* clearOffsets.
Clear(os) ==
  LET none == [p \in DOMAIN os |-> None] IN
  /\ committed' = Over(none, committed)
  /\ resolved' = Over(none, resolved)

BeginFetch(n) ==
  /\ pc[n] = "idle"
  /\ IF mode = "running"
     THEN /\ pc' = [pc EXCEPT ![n] = "seeking"]
          /\ mine' = [mine EXCEPT ![n] = {p \in Partitions : leader[p] = n}]
          /\ todo' = [todo EXCEPT ![n] = {p \in Partitions : leader[p] = n}]
     ELSE /\ pc' = [pc EXCEPT ![n] = "ended"]
          /\ UNCHANGED <<mine, todo>>
  /\ UNCHANGED <<coordinator, rebalancing, offsets, seekTo, topic, leader, mode, got, asked,
                 rejected, batch, due, events>>

\* seekOffsets: the next partition with a seek; those before it have none.
PopSeek(n) ==
  /\ pc[n] = "seeking"
  /\ \E p \in todo[n] : \E before \in SUBSET {q \in todo[n] : seekTo[q] = None} :
       /\ seekTo[p] # None
       /\ seekTo' = [seekTo EXCEPT ![p] = None]
       /\ todo' = [todo EXCEPT ![n] = @ \ ({p} \cup before)]
       /\ Send("seek", n, [q \in {p} |-> seekTo[p]])
  /\ pc' = [pc EXCEPT ![n] = "sought"]
  /\ UNCHANGED <<rebalancing, offsets, topic, leader, mode, mine, got, asked, rejected, batch,
                 due, events>>

SeekCommitted(n) ==
  /\ Answered("seek", n)
  /\ IF Head(wire).ok
     THEN Clear(Head(wire).offsets) /\ pc' = [pc EXCEPT ![n] = "seeking"] /\ UNCHANGED mode
     ELSE Throw(n, "rejoin") /\ UNCHANGED offsets
  /\ UNCHANGED <<rebalancing, seekTo, topic, leader, mine, todo, got, asked, rejected, batch,
                 due, events>>

\* No answer, or nothing to ask for: a heartbeat, and another round unless the group
\* rebalances.
NothingFetched(n) ==
  /\ \/ pc' = [pc EXCEPT ![n] = "idle"]
     \/ rebalancing /\ pc' = [pc EXCEPT ![n] = "leaving"]
  /\ UNCHANGED mode

\* uncommittedOffsets, of all partitions.
Uncommitted(res) ==
  [p \in {q \in Partitions : res[q] \notin {None, committed[q]}} |-> res[p]]

\* heartbeat() is refused because of a rebalance: commits, then throws whatever
\* becomes of that.
HeartbeatRefused(n) ==
  /\ pc[n] = "leaving"
  /\ IF DOMAIN Uncommitted(resolved) = {}
     THEN Throw(n, "rejoin") /\ UNCHANGED coordinator
     ELSE /\ Send("commit", n, Uncommitted(resolved))
          /\ pc' = [pc EXCEPT ![n] = "left"] /\ UNCHANGED mode
  /\ UNCHANGED <<rebalancing, offsets, seekTo, topic, leader, mine, todo, got, asked, rejected,
                 batch, due, events>>

LeaveCommitted(n) ==
  /\ Answered("commit", n)
  /\ committed' = IF Head(wire).ok THEN Over(Head(wire).offsets, committed) ELSE committed
  /\ Throw(n, "rejoin")
  /\ UNCHANGED <<rebalancing, resolved, seekTo, topic, leader, mine, todo, got, asked, rejected,
                 batch, due, events>>

\* The fetch request: nextOffset() of the active partitions with known offsets.
Ask(n, known) ==
  LET active == {p \in mine[n] : known[p] # None /\ ~IsPaused(p)}
      from == [p \in active |-> IF resolved[p] # None THEN resolved[p] ELSE known[p]] IN
  /\ committed' = known
  /\ resolved' = Over(from, resolved)
  /\ asked' = [asked EXCEPT ![n] = from]
  /\ IF active = {} THEN NothingFetched(n)
                    ELSE pc' = [pc EXCEPT ![n] = "fetching"] /\ UNCHANGED mode

\* resolveOffsets, of all partitions of the member.
ResolveOffsets(n) ==
  /\ pc[n] = "seeking" /\ \A p \in todo[n] : seekTo[p] = None
  /\ LET pending == {p \in Partitions : committed[p] = None} IN
     IF pending = {}
     THEN Ask(n, committed) /\ UNCHANGED coordinator
     ELSE /\ Send("read", n, [p \in pending |-> stored[p]])
          /\ pc' = [pc EXCEPT ![n] = "reading"]
          /\ UNCHANGED <<offsets, mode, asked>>
  /\ todo' = [todo EXCEPT ![n] = {}]
  /\ UNCHANGED <<rebalancing, seekTo, topic, leader, mine, got, rejected, batch, due,
                 events>>

OffsetsRead(n) ==
  /\ Answered("read", n)
  /\ LET os == Head(wire).offsets IN
     IF \A p \in DOMAIN os : os[p] # None
     THEN Ask(n, Over(os, committed)) /\ UNCHANGED got
     ELSE /\ got' = [got EXCEPT ![n] = os]
          /\ pc' = [pc EXCEPT ![n] = "listing"]
          /\ UNCHANGED <<offsets, mode, asked>>
  /\ UNCHANGED <<rebalancing, seekTo, topic, leader, mine, todo, rejected, batch, due,
                 events>>

\* initializeConsumerOffsets, from the beginning, once the brokers have answered.
OffsetsListed(n) ==
  /\ pc[n] = "listing"
  /\ LET os == [p \in DOMAIN got[n] |-> IF got[n][p] = None THEN 0 ELSE got[n][p]] IN
     Ask(n, Over(os, committed))
  /\ got' = [got EXCEPT ![n] = EmptyMap]
  /\ UNCHANGED <<coordinator, rebalancing, seekTo, topic, leader, mine, todo, rejected, batch,
                 due, events>>

InRange(n) == \A p \in DOMAIN asked[n] : asked[n][p] <= End

\* The batches handed to the workers: neither sought, nor paused, nor in
\* another fetcher's hands.
Welcome(n) ==
  {p \in DOMAIN asked[n] : asked[n][p] < End /\ seekTo[p] = None /\ ~IsPaused(p)
                             /\ batch[p] = NoBatch}

FetchReturns(n) ==
  /\ pc[n] = "fetching" /\ InRange(n)
  /\ LET fresh == IF mode = "running" THEN Welcome(n) ELSE {} IN
     /\ batch' = [p \in Partitions |->
          IF p \in fresh THEN [phase |-> "queued", next |-> asked[n][p], node |-> n]
                         ELSE batch[p]]
     /\ IF fresh = {} THEN NothingFetched(n)
                      ELSE pc' = [pc EXCEPT ![n] = "handling"] /\ UNCHANGED mode
  /\ asked' = [asked EXCEPT ![n] = EmptyMap]
  /\ UNCHANGED <<coordinator, rebalancing, offsets, seekTo, topic, leader, mine, todo, got,
                 rejected, due, events>>

\* recoverFromOffsetOutOfRange: the default offset is committed.
OutOfRange(n) ==
  /\ pc[n] = "fetching"
  /\ \E p \in DOMAIN asked[n] :
       asked[n][p] > End /\ Send("reset", n, [q \in {p} |-> None])
  /\ pc' = [pc EXCEPT ![n] = "resetting"]
  /\ asked' = [asked EXCEPT ![n] = EmptyMap]
  /\ UNCHANGED <<rebalancing, offsets, seekTo, topic, leader, mode, mine, todo, got, rejected,
                 batch, due, events>>

ResetCommitted(n) ==
  /\ Answered("reset", n)
  /\ IF Head(wire).ok
     THEN Clear(Head(wire).offsets) /\ NothingFetched(n)
     ELSE Throw(n, "rejoin") /\ UNCHANGED offsets
  /\ UNCHANGED <<rebalancing, seekTo, topic, leader, mine, todo, got, asked, rejected, batch,
                 due, events>>

\* The push is settled.
PushDone(n) ==
  /\ pc[n] = "handling" /\ \A p \in Partitions : batch[p].node # n
  /\ IF rejected[n] = "no" THEN pc' = [pc EXCEPT ![n] = "idle"] /\ UNCHANGED mode
                           ELSE Throw(n, rejected[n])
  /\ rejected' = [rejected EXCEPT ![n] = "no"]
  /\ UNCHANGED <<coordinator, rebalancing, offsets, seekTo, topic, leader, mine, todo, got,
                 asked, batch, due, events>>

\* scheduleFetchManager: after a rebalance the offset manager is a new one.
Restart ==
  /\ mode # "running" /\ \A n \in Nodes : pc[n] = "ended"
  /\ mode' = "running" /\ pc' = [n \in Nodes |-> "idle"]
  /\ IF mode = "rejoin"
     THEN /\ rebalancing' = FALSE
          /\ committed' = [p \in Partitions |-> None]
          /\ resolved' = [p \in Partitions |-> None]
     ELSE UNCHANGED <<rebalancing, offsets>>
  /\ UNCHANGED <<coordinator, seekTo, topic, leader, mine, todo, got, asked, rejected, batch,
                 due, events>>

----------------------------------------------------------------------------
(* A worker: runner.js handleBatch and processEachMessage.                 *)

Busy == {p \in Partitions : batch[p].phase \notin {"none", "queued"}}

Phase(p, phase) == batch' = [batch EXCEPT ![p].phase = phase]

Settle(p, how) ==
  /\ batch' = [batch EXCEPT ![p] = NoBatch]
  /\ rejected' = IF how = "no" THEN rejected
                 ELSE [rejected EXCEPT ![batch[p].node] = how]

\* heartbeat() finds out about a rebalance.
Leaving(p) == rebalancing /\ Phase(p, "leaving") /\ UNCHANGED rejected

\* After the commit of a phase: the next message, or the end of the batch.
Proceed(p, phase) ==
  \/ phase = "committing" /\ Phase(p, "between") /\ UNCHANGED rejected
  \/ phase = "finishing" /\ (Settle(p, "no") \/ Leaving(p))
  \/ phase = "failing" /\ Settle(p, "error")
  \/ phase = "left" /\ Settle(p, "rejoin")

\* commitOffsets, then what follows; at once with nothing to commit.
CommitAnd(p, phase) ==
  IF DOMAIN Uncommitted(resolved) = {}
  THEN Proceed(p, phase) /\ UNCHANGED coordinator
  ELSE Send("commit", p, Uncommitted(resolved)) /\ Phase(p, phase) /\ UNCHANGED rejected

\* eachMessage is called.
Handling(p, o) ==
  /\ batch' = [batch EXCEPT ![p].phase = "handling", ![p].next = o]
  /\ UNCHANGED <<coordinator, rejected>>

Start(p) ==
  /\ batch[p].phase = "queued" /\ Cardinality(Busy) < Concurrency
  /\ IF seekTo[p] # None
     THEN CommitAnd(p, "finishing")
     ELSE Handling(p, batch[p].next)
  /\ UNCHANGED <<rebalancing, offsets, seekTo, topic, leader, mode, pc, mine, todo, got, asked,
                 due, events>>

\* eachMessage returns: the offset is resolved, perhaps committed.  The
\* heartbeat that follows may find out about a rebalance.
Handled(p) ==
  /\ batch[p].phase = "handling"
  /\ LET o == batch[p].next  res == [resolved EXCEPT ![p] = o + 1] IN
     /\ resolved' = res
     /\ due' = [due EXCEPT ![p] = IF o + 1 > @ THEN o + 1 ELSE @]
     /\ \/ Phase(p, "between") /\ UNCHANGED <<coordinator, rejected>>
        \/ /\ DOMAIN Uncommitted(res) # {} /\ Send("commit", p, Uncommitted(res))
           /\ Phase(p, "committing") /\ UNCHANGED rejected
        \/ Leaving(p) /\ UNCHANGED coordinator
  /\ UNCHANGED <<rebalancing, committed, seekTo, topic, leader, mode, pc, mine, todo, got,
                 asked, events>>

\* Mutant: an offset is resolved although its handler failed.
FailsResolved(p) ==
  /\ batch[p].phase = "handling" /\ Spend
  /\ CommitAnd(p, "failing")
  /\ resolved' = [resolved EXCEPT ![p] = batch[p].next + 1]
  /\ UNCHANGED <<rebalancing, committed, seekTo, topic, leader, mode, pc, mine, todo, got,
                 asked, due>>

\* eachMessage throws: what was resolved before is committed.
Fails(p) ==
  /\ batch[p].phase = "handling" /\ Spend
  /\ CommitAnd(p, "failing")
  /\ UNCHANGED <<rebalancing, offsets, seekTo, topic, leader, mode, pc, mine, todo, got, asked,
                 due>>

Committed(p) ==
  /\ Answered("commit", p)
  /\ IF Head(wire).ok
     THEN /\ committed' = Over(Head(wire).offsets, committed)
          /\ Proceed(p, batch[p].phase)
     ELSE UNCHANGED committed /\ Settle(p, "rejoin")
  /\ UNCHANGED <<rebalancing, resolved, seekTo, topic, leader, mode, pc, mine, todo, got, asked,
                 due, events>>

\* The next message, unless the partition is paused or sought.
Continue(p) ==
  /\ batch[p].phase = "between"
  /\ IF IsPaused(p) \/ seekTo[p] # None \/ batch[p].next + 1 = End
     THEN CommitAnd(p, "finishing")
     ELSE Handling(p, batch[p].next + 1)
  /\ UNCHANGED <<rebalancing, offsets, seekTo, topic, leader, mode, pc, mine, todo, got, asked,
                 due, events>>

\* The heartbeat is refused: commits, then rejects the push.
Leave(p) ==
  /\ batch[p].phase = "leaving" /\ CommitAnd(p, "left")
  /\ UNCHANGED <<rebalancing, offsets, seekTo, topic, leader, mode, pc, mine, todo, got, asked,
                 due, events>>

Working(p) == Handled(p) \/ Committed(p) \/ Continue(p) \/ Leave(p)

\* A fetcher between an answer and its next request, and a free worker that is
\* set going: nothing else runs meanwhile.
Going(n) == PopSeek(n) \/ ResolveOffsets(n)

Settled ==
  /\ \A n \in Nodes : pc[n] # "seeking"
  /\ Cardinality(Busy) < Concurrency => \A p \in Partitions : batch[p].phase # "queued"

Fetching(n) ==
  \/ BeginFetch(n) \/ SeekCommitted(n) \/ OffsetsRead(n) \/ OffsetsListed(n)
  \/ FetchReturns(n) \/ OutOfRange(n) \/ ResetCommitted(n) \/ PushDone(n)
  \/ HeartbeatRefused(n) \/ LeaveCommitted(n)

Next ==
  \/ \E n \in Nodes : Going(n)
  \/ \E p \in Partitions : Start(p)
  \/ /\ Settled
     /\ \/ \E n \in Nodes : Fetching(n)
        \/ \E p \in Partitions : Working(p) \/ Fails(p)
        \/ Restart
        \/ Pausing
        \/ \E p \in Partitions, o \in SeekOffsets : Seek(p, o)
        \/ Rebalance
        \/ \E p \in Partitions, n \in Nodes : Move(p, n)

Spec == Init /\ [][Next]_vars

\* Requests are answered and handlers return; the event loop is fair.  Strongly:
\* another fetcher's empty rounds keep interrupting what is Settled.  (With one
\* worker, batches wait for it in turn: nothing else adds to the queue.)
Fairness ==
  /\ \A n \in Nodes : WF_vars(Going(n)) /\ SF_vars(Settled /\ Fetching(n))
  /\ \A p \in Partitions : WF_vars(Start(p)) /\ SF_vars(Settled /\ Working(p))
  /\ SF_vars(Settled /\ Restart)

FairSpec == Spec /\ Fairness

----------------------------------------------------------------------------
(* Properties.                                                             *)

\* eachMessage is called with message o of p.
Calls(p, o) ==
  batch[p].phase # "handling" /\ batch'[p].phase = "handling" /\ batch'[p].next = o

\* No message is skipped: a handler is called with an offset only when those
\* before it, from the beginning, have been handled at some time or sought
\* past; in spite of failing handlers, refused commits, late answers and moving
\* leaders.  (What is due never moves back: whether a seek back takes effect is
\* not asked.)
NothingSkipped == [][\A p \in Partitions, o \in 0..End : Calls(p, o) => o <= due[p]]_vars

\* Every partition is read to its end, unless it stays paused.
ReadToTheEnd == \A p \in Partitions : []<>(due[p] = End \/ p \in wanted)
=============================================================================
