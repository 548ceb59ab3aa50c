------------------------------ MODULE EventSink ------------------------------
(***************************************************************************)
(* What the ingest stage promises to the rest of the pipeline: an event is *)
(* acknowledged only once it is stored, and neither the store nor the      *)
(* acknowledgements ever move back.                                        *)
(***************************************************************************)
EXTENDS Naturals

CONSTANTS
  Keys,          \* the keys events are stored under
  Partition,     \* the partitions of the topic
  KeysUpTo(_, _) \* the keys of the first n events of a partition

VARIABLES
  stored,        \* the keys in the store
  acked          \* per partition, how many events are acknowledged

sinkVars == <<stored, acked>>

SinkInit == stored = {} /\ acked = [p \in Partition |-> 0]

Store ==
  \E S \in SUBSET Keys : stored' = stored \cup S /\ UNCHANGED acked

\* acked may grow to anything that is stored.
Acknowledge ==
  /\ UNCHANGED stored
  /\ DOMAIN acked' = Partition
  /\ \A p \in Partition : /\ acked'[p] >= acked[p]
                          /\ KeysUpTo(p, acked'[p]) \subseteq stored

SinkNext == Store \/ Acknowledge

SinkSpec == SinkInit /\ [][SinkNext]_sinkVars
=============================================================================
