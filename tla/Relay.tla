-------------------------------- MODULE Relay --------------------------------
(***************************************************************************)
(* What an in-memory hop of the pipeline promises: an item it accepts      *)
(* leaves it once, delivered downstream or given up, and never comes back. *)
(***************************************************************************)
EXTENDS Naturals

CONSTANT Item

VARIABLES
  pending,    \* accepted and still in memory
  delivered,  \* handed downstream
  gone        \* given up: a failed send, or memory lost in a crash

relayVars == <<pending, delivered, gone>>

RelayInit == pending = {} /\ delivered = {} /\ gone = {}

Accept(i) ==
  /\ i \notin pending \cup delivered \cup gone
  /\ pending' = pending \cup {i}
  /\ UNCHANGED <<delivered, gone>>

\* Some pending items settle together: those in d downstream, those in g not.
Settle(d, g) ==
  /\ d \cup g \subseteq pending /\ d \cap g = {}
  /\ pending' = pending \ (d \cup g)
  /\ delivered' = delivered \cup d
  /\ gone' = gone \cup g

RelayNext ==
  \/ \E i \in Item : Accept(i)
  \/ \E d, g \in SUBSET pending : Settle(d, g)

RelaySpec == RelayInit /\ [][RelayNext]_relayVars
=============================================================================
