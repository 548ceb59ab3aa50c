--------------------------- MODULE IngestProperties ---------------------------
(* What the ingest stage guarantees; see Ingest.                           *)
EXTENDS Ingest

Steps == {"join", "idle", "users", "chats", "documents", "messages",
          "resolve", "commit"}

TypeOK ==
  /\ generation \in Nat \ {0}
  /\ owner \in [Partitions -> Members]
  /\ committed \in [Partitions -> Nat]
  /\ \A p \in Partitions : committed[p] \in Offsets(p)
  /\ DOMAIN messages \subseteq AllKeys
  /\ joined \in [Members -> Nat]
  /\ DOMAIN resolved = Members
  /\ \A m \in Members :
       /\ DOMAIN resolved[m] \subseteq Partitions
       /\ \A p \in DOMAIN resolved[m] : resolved[m][p] \in Offsets(p)
  /\ pc \in [Members -> Steps]
  /\ DOMAIN batch = Members
  /\ \A m \in Members :
       InBatch(m) =>
         /\ batch[m].partition \in DOMAIN resolved[m]
         /\ batch[m].from \in 1..batch[m].to
         /\ batch[m].to \in Offsets(batch[m].partition)
  /\ faults \in 0..MaxFaults

Stored(p, n) == KeysUpTo(p, n) \subseteq DOMAIN messages

\* At least once: an event is never committed before its message is stored,
\* whoever handled it and however often the group rebalanced meanwhile.
CommittedIsStored == \A p \in Partitions : Stored(p, committed[p])

\* Every stored message refers to rows that exist, its chat and its sender,
\* and to a document that holds the file of an event with its key, even when
\* two members stored different parts of the same batch.
References ==
  \A k \in DOMAIN messages :
    /\ k[1] \in DOMAIN chats
    /\ messages[k].user # None => messages[k].user \in DOMAIN users
    /\ \E p \in Partitions : \E i \in 1..Len(Log[p]) :
         /\ Key(p, i) = k
         /\ Event(p, i).user = messages[k].user
         /\ IF Event(p, i).file = None
              THEN messages[k].document = None
              ELSE /\ messages[k].document \in documents
                   /\ messages[k].document[1] = Event(p, i).file

\* Redelivered and late batches never undo anything: message rows do not
\* change, dates do not move back and profile fields are not erased.
NothingRegresses ==
  [][ /\ \A k \in DOMAIN messages :
           k \in DOMAIN messages' /\ messages'[k] = messages[k]
      /\ \A c \in DOMAIN chats : c \in DOMAIN chats' /\ chats'[c] >= chats[c]
      /\ \A u \in DOMAIN users :
           /\ u \in DOMAIN users'
           /\ users[u] # None => users'[u] # None ]_vars

\* The stage is a sink: it acknowledges what it has stored, and neither the
\* messages nor the committed offsets move back.
Sink == INSTANCE EventSink WITH Keys <- AllKeys, Partition <- Partitions,
                                stored <- DOMAIN messages, acked <- committed
ImplementsSink == Sink!SinkSpec

\* Once faults stop, every event gets stored.  (Its offset need not get
\* committed: a commit that fails is only repeated after the next batch.)
EverythingStored == <>(AllKeys \subseteq DOMAIN messages)
=============================================================================
