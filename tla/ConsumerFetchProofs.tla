------------------------ MODULE ConsumerFetchProofs ------------------------
(***************************************************************************)
(* Proofs about ConsumerFetch, for every number of brokers, partitions,    *)
(* messages and workers: its types, and that no message is skipped.        *)
(***************************************************************************)
EXTENDS ConsumerFetch, SequenceTheorems, TLAPS

USE NoneAssumption, OffsetsAssumption, ConcurrencyAssumption, BoundsAssumption

\* An offset from which partition p may be read: a message that is due, or one
\* there is not; those before it have been handled, or sought past.
Reaches(d, os) == \A p \in DOMAIN os : os[p] \in Nat => os[p] <= d[p] \/ os[p] >= End

WireReaches(d, w) == \A i \in DOMAIN w : Reaches(d, w[i].offsets)

PositionsReach ==
  /\ Reaches(due, stored) /\ Reaches(due, committed) /\ Reaches(due, resolved)
  /\ Reaches(due, seekTo)

FetchesReach == \A n \in Nodes : Reaches(due, got[n]) /\ Reaches(due, asked[n])

BatchesReach ==
  \A p \in Partitions :
    /\ batch[p].phase \in {"queued", "handling"} => batch[p].next <= due[p]
    /\ batch[p].phase \in {"committing", "between"} => batch[p].next < due[p]

\* The inductive invariant: all the offsets that are kept, under way or in hand.
ReachInv ==
  TypeOK /\ PositionsReach /\ FetchesReach /\ WireReaches(due, wire) /\ BatchesReach

Dues == [Partitions -> 0..End]
Kinds == {"seek", "reset", "commit", "read"}

----------------------------------------------------------------------------
(* Maps of offsets.                                                        *)

LEMMA OffsetsNatural == Offsets \subseteq Nat
BY DEF Offsets

LEMMA OverMaps ==
  ASSUME NEW f \in Maps, NEW g \in [Partitions -> MaybeOffsets]
  PROVE  /\ Over(f, g) \in [Partitions -> MaybeOffsets]
         /\ \A d \in Dues : Reaches(d, f) /\ Reaches(d, g) => Reaches(d, Over(f, g))
BY DEF Over, Maps, Reaches, Dues

LEMMA ReachGrows ==
  ASSUME NEW os \in Maps, NEW d \in Dues, NEW e \in Dues,
         \A p \in Partitions : d[p] <= e[p], Reaches(d, os)
  PROVE  Reaches(e, os)
<1> SUFFICES ASSUME NEW p \in DOMAIN os, os[p] \in Nat
             PROVE  os[p] <= e[p] \/ os[p] >= End
  BY DEF Reaches
<1>1. p \in Partitions
  BY DEF Maps
<1>2. os[p] <= d[p] \/ os[p] >= End
  BY DEF Reaches
<1>3. d[p] <= e[p] /\ d[p] \in Nat /\ e[p] \in Nat
  BY <1>1 DEF Dues
<1> QED
  BY <1>2, <1>3

LEMMA WholeMaps ==
  ASSUME NEW f \in [Partitions -> MaybeOffsets]
  PROVE  f \in Maps
BY DEF Maps

LEMMA AskedMaps ==
  ASSUME NEW f \in UNION {[ps -> Offsets] : ps \in SUBSET Partitions}
  PROVE  f \in Maps
<1>1. PICK ps \in SUBSET Partitions : f \in [ps -> Offsets]
  OBVIOUS
<1>2. f \in [ps -> MaybeOffsets]
  BY <1>1 DEF MaybeOffsets
<1> QED
  BY <1>2 DEF Maps

\* What is sent to the coordinator, and what it has then.
LEMMA SendKeeps ==
  ASSUME TypeOK, NEW kind \in Kinds, NEW who \in Nodes \cup Partitions,
         NEW os \in Maps, Send(kind, who, os)
  PROVE  /\ wire' \in Seq(Requests) /\ stored' \in [Partitions -> MaybeOffsets]
         /\ \A d \in Dues :
              Reaches(d, os) /\ Reaches(d, stored) /\ WireReaches(d, wire)
                => Reaches(d, stored') /\ WireReaches(d, wire')
<1>1. PICK ok \in BOOLEAN :
        /\ wire' = Append(wire, [kind |-> kind, who |-> who, ok |-> ok, offsets |-> os])
        /\ stored' = IF ok /\ kind # "read" THEN Over(os, stored) ELSE stored
  BY DEF Send
<1> DEFINE r == [kind |-> kind, who |-> who, ok |-> ok, offsets |-> os]
<1>2. r \in Requests /\ r.offsets = os
  BY DEF Requests, Kinds
<1>3. wire \in Seq(Requests) /\ stored \in [Partitions -> MaybeOffsets]
  BY DEF TypeOK
<1> HIDE DEF r
<1>4. wire' = Append(wire, r)
  BY <1>1 DEF r
<1>5. /\ wire' \in Seq(Requests) /\ Len(wire') = Len(wire) + 1
      /\ \A i \in 1..Len(wire) : wire'[i] = wire[i]
      /\ wire'[Len(wire) + 1] = r
  BY <1>2, <1>3, <1>4
<1>6. stored' \in [Partitions -> MaybeOffsets]
  BY <1>1, <1>3, OverMaps
<1>7. ASSUME NEW d \in Dues, Reaches(d, os), Reaches(d, stored), WireReaches(d, wire)
      PROVE  Reaches(d, stored') /\ WireReaches(d, wire')
  <2>1. Reaches(d, stored')
    BY <1>1, <1>3, <1>7, OverMaps
  <2>2. ASSUME NEW i \in DOMAIN wire' PROVE Reaches(d, wire'[i].offsets)
    <3>1. i \in 1..Len(wire) \/ i = Len(wire) + 1
      BY <1>3, <1>5
    <3>2. CASE i \in 1..Len(wire)
      BY <1>3, <1>5, <1>7, <3>2 DEF WireReaches
    <3>3. CASE i = Len(wire) + 1
      BY <1>2, <1>5, <1>7, <3>3
    <3> QED
      BY <3>1, <3>2, <3>3
  <2> QED
    BY <2>1, <2>2 DEF WireReaches
<1> QED
  BY <1>5, <1>6, <1>7

\* What an answer takes from the wire, and what it says.
LEMMA AnswerKeeps ==
  ASSUME TypeOK, NEW kind, NEW who, Answered(kind, who)
  PROVE  /\ wire' \in Seq(Requests) /\ stored' = stored
         /\ Head(wire) \in Requests /\ Head(wire).offsets \in Maps
         /\ \A d \in Dues :
              WireReaches(d, wire) => WireReaches(d, wire') /\ Reaches(d, Head(wire).offsets)
<1>1. wire \in Seq(Requests) /\ wire # <<>> /\ wire' = Tail(wire) /\ stored' = stored
  BY DEF TypeOK, Answered
<1>2. /\ wire' \in Seq(Requests) /\ Len(wire') = Len(wire) - 1
      /\ \A i \in 1..Len(wire') : wire'[i] = wire[i + 1]
  BY <1>1, HeadTailProperties
<1>3. Head(wire) \in Requests /\ Head(wire) = wire[1] /\ 1 \in DOMAIN wire
  BY <1>1
<1>4. Head(wire).offsets \in Maps
  BY <1>3 DEF Requests
<1>5. ASSUME NEW d \in Dues, WireReaches(d, wire)
      PROVE  WireReaches(d, wire') /\ Reaches(d, Head(wire).offsets)
  <2>1. Reaches(d, Head(wire).offsets)
    BY <1>3, <1>5 DEF WireReaches
  <2>2. ASSUME NEW i \in DOMAIN wire' PROVE Reaches(d, wire'[i].offsets)
    <3>1. i \in 1..Len(wire') /\ i + 1 \in 1..Len(wire)
      BY <1>1, <1>2
    <3> QED
      BY <1>1, <1>2, <1>5, <3>1 DEF WireReaches
  <2> QED
    BY <2>1, <2>2 DEF WireReaches
<1> QED
  BY <1>1, <1>2, <1>3, <1>4, <1>5

----------------------------------------------------------------------------
(* Pausing, seeking, and what happens to the group.                        *)

Calling == \A p \in Partitions, o \in 0..End : Calls(p, o) => o <= due[p]

\* A step that leaves the offsets and the batches alone.
LEMMA Aside ==
  ASSUME ReachInv, TypeOK',
         UNCHANGED <<coordinator, offsets, seekTo, got, asked, batch, due>>
  PROVE  ReachInv' /\ Calling
<1>1. PositionsReach' /\ WireReaches(due, wire)' /\ BatchesReach'
  BY DEF ReachInv, PositionsReach, WireReaches, BatchesReach, Reaches, coordinator, offsets
<1>2. FetchesReach'
  BY DEF ReachInv, FetchesReach, Reaches
<1>3. Calling
  BY DEF Calling, Calls
<1> QED
  BY <1>1, <1>2, <1>3 DEF ReachInv

LEMMA SpendTypes ==
  ASSUME TypeOK, Spend
  PROVE  events' \in 0..MaxEvents
BY DEF TypeOK, Spend

LEMMA PausingStep ==
  ASSUME ReachInv, Pausing
  PROVE  ReachInv' /\ Calling
<1>1. events' \in 0..MaxEvents
  BY SpendTypes DEF ReachInv, Pausing, PauseTopic, ResumeTopic, PausePartition,
       ResumePartition, TypeOK
<1>2. /\ paused' \subseteq Partitions /\ resumed' \subseteq Partitions
      /\ wanted' \subseteq Partitions /\ pauseAll' \in BOOLEAN
  BY DEF ReachInv, Pausing, PauseTopic, ResumeTopic, PausePartition, ResumePartition, TypeOK
<1>3. UNCHANGED <<coordinator, rebalancing, offsets, seekTo, leader, fetchers, batch, due>>
  BY DEF Pausing
<1>4. TypeOK'
  BY <1>1, <1>2, <1>3 DEF ReachInv, TypeOK, coordinator, offsets, fetchers
<1> QED
  BY <1>3, <1>4, Aside DEF fetchers

LEMMA RebalanceStep ==
  ASSUME ReachInv, Rebalance
  PROVE  ReachInv' /\ Calling
<1>1. TypeOK'
  BY SpendTypes DEF ReachInv, TypeOK, Rebalance, coordinator, offsets, topic, fetchers
<1> QED
  BY <1>1, Aside DEF Rebalance, fetchers

LEMMA MoveStep ==
  ASSUME ReachInv, NEW p \in Partitions, NEW n \in Nodes, Move(p, n)
  PROVE  ReachInv' /\ Calling
<1>1. TypeOK'
  BY SpendTypes DEF ReachInv, TypeOK, Move, coordinator, offsets, topic, fetchers
<1> QED
  BY <1>1, Aside DEF Move, fetchers

\* Whatever is handled or sought raises what is due.
LEMMA DueGrows ==
  ASSUME ReachInv, due' \in Dues, \A p \in Partitions : due[p] <= due'[p]
  PROVE  /\ Reaches(due', stored) /\ Reaches(due', committed) /\ Reaches(due', resolved)
         /\ Reaches(due', seekTo) /\ WireReaches(due', wire)
         /\ \A n \in Nodes : Reaches(due', got[n]) /\ Reaches(due', asked[n])
<1>1. due \in Dues
  BY DEF ReachInv, TypeOK, Dues
<1>2. stored \in Maps /\ committed \in Maps /\ resolved \in Maps /\ seekTo \in Maps
  BY WholeMaps DEF ReachInv, TypeOK
<1>3. \A n \in Nodes : got[n] \in Maps /\ asked[n] \in Maps
  BY AskedMaps DEF ReachInv, TypeOK
<1>4. \A i \in DOMAIN wire : wire[i].offsets \in Maps
  <2>1. wire \in Seq(Requests)
    BY DEF ReachInv, TypeOK
  <2>2. \A i \in DOMAIN wire : wire[i] \in Requests
    BY <2>1
  <2> QED
    BY <2>2 DEF Requests
<1>5. /\ Reaches(due', stored) /\ Reaches(due', committed) /\ Reaches(due', resolved)
      /\ Reaches(due', seekTo)
  BY <1>1, <1>2, ReachGrows DEF ReachInv, PositionsReach
<1>6. WireReaches(due', wire)
  BY <1>1, <1>4, ReachGrows DEF ReachInv, WireReaches
<1>7. \A n \in Nodes : Reaches(due', got[n]) /\ Reaches(due', asked[n])
  BY <1>1, <1>3, ReachGrows DEF ReachInv, FetchesReach
<1> QED
  BY <1>5, <1>6, <1>7

LEMMA SeekStep ==
  ASSUME ReachInv, NEW p \in Partitions, NEW o \in SeekOffsets, Seek(p, o)
  PROVE  ReachInv' /\ Calling
<1>1. /\ seekTo' = [seekTo EXCEPT ![p] = o]
      /\ due' = [due EXCEPT ![p] = IF @ < o /\ o < End THEN o ELSE @]
      /\ UNCHANGED <<coordinator, rebalancing, offsets, topic, leader, fetchers, batch>>
  BY DEF Seek
<1>2. o \in Nat /\ o \in MaybeOffsets
  BY DEF MaybeOffsets, Offsets
<1>3. due \in [Partitions -> 0..End] /\ seekTo \in [Partitions -> MaybeOffsets]
  BY DEF ReachInv, TypeOK
<1>4. due' \in Dues /\ \A q \in Partitions : due[q] <= due'[q]
  BY <1>1, <1>2, <1>3 DEF Dues
<1>5. seekTo' \in [Partitions -> MaybeOffsets]
  BY <1>1, <1>2, <1>3
<1>6. events' \in 0..MaxEvents
  BY SpendTypes DEF ReachInv, Seek
<1>7. TypeOK'
  BY <1>1, <1>4, <1>5, <1>6 DEF ReachInv, TypeOK, Dues, coordinator, offsets, topic, fetchers
<1>8. Reaches(due', seekTo')
  <2>1. Reaches(due', seekTo)
    BY <1>4, DueGrows
  <2>2. ASSUME NEW q \in Partitions, seekTo'[q] \in Nat
        PROVE  seekTo'[q] <= due'[q] \/ seekTo'[q] >= End
    <3>1. CASE q = p
      BY <1>1, <1>2, <1>3, <3>1
    <3>2. CASE q # p
      BY <1>1, <1>3, <2>1, <2>2, <3>2 DEF Reaches
    <3> QED
      BY <3>1, <3>2
  <2> QED
    BY <1>5, <2>2 DEF Reaches
<1>9. PositionsReach' /\ WireReaches(due, wire)'
  BY <1>1, <1>4, <1>8, DueGrows DEF PositionsReach, coordinator, offsets
<1>10. FetchesReach'
  BY <1>1, <1>4, DueGrows DEF FetchesReach, fetchers
<1>11. BatchesReach'
  <2>1. \A q \in Partitions : batch[q].next \in Nat /\ due[q] \in Nat /\ due'[q] \in Nat
    BY <1>4 DEF ReachInv, TypeOK, Batches, Dues
  <2> QED
    BY <1>1, <1>4, <2>1 DEF ReachInv, BatchesReach
<1>12. Calling
  BY <1>1 DEF Calling, Calls
<1> QED
  BY <1>7, <1>9, <1>10, <1>11, <1>12 DEF ReachInv

----------------------------------------------------------------------------
(* The fetchers.                                                           *)

Pcs == {"idle", "seeking", "sought", "reading", "listing", "fetching", "resetting",
        "handling", "leaving", "left", "ended"}
Modes == {"running", "error", "rejoin"}
Asking == UNION {[ps -> Offsets] : ps \in SUBSET Partitions}

LEMMA ThrowTypes ==
  ASSUME TypeOK, NEW n \in Nodes, NEW why \in {"error", "rejoin"}, Throw(n, why)
  PROVE  pc' \in [Nodes -> Pcs] /\ mode' \in Modes
BY DEF TypeOK, Throw, Pcs, Modes

LEMMA NothingFetchedTypes ==
  ASSUME TypeOK, NEW n \in Nodes, NothingFetched(n)
  PROVE  pc' \in [Nodes -> Pcs] /\ mode' \in Modes
<1>1. CASE pc' = [pc EXCEPT ![n] = "idle"] /\ UNCHANGED mode
  BY <1>1 DEF TypeOK, Pcs, Modes
<1>2. CASE pc' = [pc EXCEPT ![n] = "leaving"] /\ UNCHANGED mode
  BY <1>2 DEF TypeOK, Pcs, Modes
<1> QED
  BY <1>1, <1>2 DEF NothingFetched

LEMMA UncommittedMaps ==
  ASSUME NEW res \in [Partitions -> MaybeOffsets]
  PROVE  /\ Uncommitted(res) \in Maps
         /\ \A d : Reaches(d, res) => Reaches(d, Uncommitted(res))
<1> DEFINE ps == {q \in Partitions : res[q] \notin {None, committed[q]}}
<1>1. Uncommitted(res) \in [ps -> MaybeOffsets] /\ ps \in SUBSET Partitions
  BY DEF Uncommitted
<1>2. Uncommitted(res) \in Maps
  BY <1>1 DEF Maps
<1>3. \A d : Reaches(d, res) => Reaches(d, Uncommitted(res))
  BY DEF Uncommitted, Reaches
<1> QED
  BY <1>2, <1>3

LEMMA ClearKeeps ==
  ASSUME TypeOK, NEW os \in Maps, Clear(os)
  PROVE  /\ committed' \in [Partitions -> MaybeOffsets]
         /\ resolved' \in [Partitions -> MaybeOffsets]
         /\ \A d \in Dues : Reaches(d, committed) => Reaches(d, committed')
         /\ \A d \in Dues : Reaches(d, resolved) => Reaches(d, resolved')
<1> DEFINE none == [p \in DOMAIN os |-> None]
<1>1. none \in Maps /\ \A d : Reaches(d, none)
  BY DEF Maps, MaybeOffsets, Reaches
<1>2. committed' = Over(none, committed) /\ resolved' = Over(none, resolved)
  BY DEF Clear
<1>3. committed \in [Partitions -> MaybeOffsets] /\ resolved \in [Partitions -> MaybeOffsets]
  BY DEF TypeOK
<1> HIDE DEF none
<1> QED
  BY <1>1, <1>2, <1>3, OverMaps

LEMMA AskKeeps ==
  ASSUME ReachInv, NEW n \in Nodes, NEW known \in [Partitions -> MaybeOffsets],
         Reaches(due, known), Ask(n, known)
  PROVE  /\ committed' \in [Partitions -> MaybeOffsets] /\ Reaches(due, committed')
         /\ resolved' \in [Partitions -> MaybeOffsets] /\ Reaches(due, resolved')
         /\ asked' \in [Nodes -> Asking] /\ \A m \in Nodes : Reaches(due, asked'[m])
         /\ pc' \in [Nodes -> Pcs] /\ mode' \in Modes
<1> DEFINE active == {p \in mine[n] : known[p] # None /\ ~IsPaused(p)}
           from == [p \in active |-> IF resolved[p] # None THEN resolved[p] ELSE known[p]]
<1>1. /\ committed' = known /\ resolved' = Over(from, resolved)
      /\ asked' = [asked EXCEPT ![n] = from]
      /\ IF active = {} THEN NothingFetched(n)
                        ELSE pc' = [pc EXCEPT ![n] = "fetching"] /\ UNCHANGED mode
  BY DEF Ask
<1>2. resolved \in [Partitions -> MaybeOffsets] /\ due \in Dues /\ Reaches(due, resolved)
  BY DEF ReachInv, TypeOK, PositionsReach, Dues
<1>3. active \in SUBSET Partitions
  BY DEF ReachInv, TypeOK
<1>4. from \in [active -> Offsets]
  BY <1>2, <1>3 DEF MaybeOffsets
<1>5. from \in Asking
  BY <1>3, <1>4 DEF Asking
<1>6. from \in Maps
  BY <1>5, AskedMaps DEF Asking
<1>7. Reaches(due, from)
  BY <1>2, <1>3 DEF Reaches
<1>8. pc' \in [Nodes -> Pcs] /\ mode' \in Modes
  BY <1>1, NothingFetchedTypes DEF ReachInv, TypeOK, Pcs, Modes
<1> HIDE DEF from, active
<1>9. resolved' \in [Partitions -> MaybeOffsets] /\ Reaches(due, resolved')
  BY <1>1, <1>2, <1>6, <1>7, OverMaps
<1>10. asked' \in [Nodes -> Asking]
  BY <1>1, <1>5 DEF ReachInv, TypeOK, Asking
<1>11. \A m \in Nodes : Reaches(due, asked'[m])
  <2>1. \A m \in Nodes : asked'[m] = IF m = n THEN from ELSE asked[m]
    BY <1>1 DEF ReachInv, TypeOK
  <2> QED
    BY <1>7, <2>1 DEF ReachInv, FetchesReach
<1> QED
  BY <1>1, <1>8, <1>9, <1>10, <1>11

\* A fetcher's step that touches no offset and no batch.
LEMMA BeginFetchStep ==
  ASSUME ReachInv, NEW n \in Nodes, BeginFetch(n)
  PROVE  ReachInv' /\ Calling
<1>1. pc' \in [Nodes -> Pcs] /\ mine' \in [Nodes -> SUBSET Partitions]
      /\ todo' \in [Nodes -> SUBSET Partitions]
  <2> DEFINE led == {p \in Partitions : leader[p] = n}
  <2>1. \/ /\ pc' = [pc EXCEPT ![n] = "seeking"] /\ mine' = [mine EXCEPT ![n] = led]
           /\ todo' = [todo EXCEPT ![n] = led]
        \/ pc' = [pc EXCEPT ![n] = "ended"] /\ UNCHANGED <<mine, todo>>
    BY DEF BeginFetch
  <2>2. led \in SUBSET Partitions
    OBVIOUS
  <2> HIDE DEF led
  <2> QED
    BY <2>1, <2>2 DEF ReachInv, TypeOK, Pcs
<1>2. TypeOK'
  BY <1>1 DEF ReachInv, TypeOK, BeginFetch, coordinator, offsets, topic, Pcs
<1> QED
  BY <1>2, Aside DEF BeginFetch

LEMMA PopSeekStep ==
  ASSUME ReachInv, NEW n \in Nodes, PopSeek(n)
  PROVE  ReachInv' /\ Calling
<1>1. PICK p \in todo[n] : \E before \in SUBSET todo[n] :
        /\ seekTo' = [seekTo EXCEPT ![p] = None]
        /\ todo' = [todo EXCEPT ![n] = @ \ ({p} \cup before)]
        /\ Send("seek", n, [q \in {p} |-> seekTo[p]])
  BY DEF PopSeek
<1>2. p \in Partitions /\ seekTo[p] \in MaybeOffsets /\ due \in Dues
  BY DEF ReachInv, TypeOK, Dues
<1> DEFINE os == [q \in {p} |-> seekTo[p]]
<1>3. os \in Maps
  <2>1. os \in [{p} -> MaybeOffsets] /\ {p} \in SUBSET Partitions
    BY <1>2
  <2> QED
    BY <2>1 DEF Maps
<1>4. Reaches(due, os)
  BY <1>2 DEF ReachInv, PositionsReach, Reaches, TypeOK
<1>5. Send("seek", n, os) /\ TypeOK
  BY <1>1 DEF ReachInv
<1> HIDE DEF os
<1>6. /\ wire' \in Seq(Requests) /\ stored' \in [Partitions -> MaybeOffsets]
      /\ Reaches(due, stored') /\ WireReaches(due, wire')
  BY <1>2, <1>3, <1>4, <1>5, SendKeeps DEF ReachInv, PositionsReach, Kinds
<1>7. seekTo' \in [Partitions -> MaybeOffsets] /\ Reaches(due, seekTo')
  BY <1>1, <1>2 DEF ReachInv, TypeOK, PositionsReach, Reaches, MaybeOffsets
<1>8. /\ pc' = [pc EXCEPT ![n] = "sought"]
      /\ UNCHANGED <<rebalancing, offsets, topic, leader, mode, mine, got, asked, rejected,
                     batch, due, events>>
  BY DEF PopSeek
<1>9. pc' \in [Nodes -> Pcs] /\ todo' \in [Nodes -> SUBSET Partitions]
  BY <1>1, <1>8 DEF ReachInv, TypeOK, Pcs
<1>10. TypeOK'
  BY <1>6, <1>7, <1>8, <1>9 DEF ReachInv, TypeOK, offsets, topic, Pcs
<1>11. PositionsReach' /\ WireReaches(due, wire)' /\ FetchesReach' /\ BatchesReach'
  BY <1>6, <1>7, <1>8 DEF ReachInv, PositionsReach, FetchesReach, BatchesReach, offsets
<1>12. Calling
  BY <1>8 DEF Calling, Calls
<1> QED
  BY <1>10, <1>11, <1>12 DEF ReachInv

LEMMA SeekCommittedStep ==
  ASSUME ReachInv, NEW n \in Nodes, SeekCommitted(n)
  PROVE  ReachInv' /\ Calling
<1>1. /\ wire' \in Seq(Requests) /\ stored' = stored /\ Head(wire).offsets \in Maps
      /\ due \in Dues /\ WireReaches(due, wire')
  BY AnswerKeeps DEF ReachInv, SeekCommitted, TypeOK, Dues
<1>2. /\ committed' \in [Partitions -> MaybeOffsets] /\ resolved' \in [Partitions -> MaybeOffsets]
      /\ Reaches(due, committed') /\ Reaches(due, resolved')
      /\ pc' \in [Nodes -> Pcs] /\ mode' \in Modes
  <2>1. CASE Clear(Head(wire).offsets) /\ pc' = [pc EXCEPT ![n] = "seeking"] /\ UNCHANGED mode
    <3>1. pc' \in [Nodes -> Pcs] /\ mode' \in Modes
      BY <2>1 DEF ReachInv, TypeOK, Pcs, Modes
    <3> QED
      BY <1>1, <2>1, <3>1, ClearKeeps DEF ReachInv, PositionsReach
  <2>2. CASE Throw(n, "rejoin") /\ UNCHANGED offsets
    BY <2>2, ThrowTypes DEF ReachInv, PositionsReach, TypeOK, offsets
  <2> QED
    BY <2>1, <2>2 DEF SeekCommitted
<1>3. UNCHANGED <<rebalancing, seekTo, topic, leader, mine, todo, got, asked, rejected, batch,
                  due, events>>
  BY DEF SeekCommitted
<1>4. TypeOK'
  BY <1>1, <1>2, <1>3 DEF ReachInv, TypeOK, topic, Pcs, Modes
<1>5. PositionsReach' /\ WireReaches(due, wire)' /\ FetchesReach' /\ BatchesReach'
  BY <1>1, <1>2, <1>3 DEF ReachInv, PositionsReach, FetchesReach, BatchesReach
<1>6. Calling
  BY <1>3 DEF Calling, Calls
<1> QED
  BY <1>4, <1>5, <1>6 DEF ReachInv

LEMMA ResolveOffsetsStep ==
  ASSUME ReachInv, NEW n \in Nodes, ResolveOffsets(n)
  PROVE  ReachInv' /\ Calling
<1> DEFINE pending == {p \in Partitions : committed[p] = None}
           os == [p \in pending |-> stored[p]]
<1>1. /\ todo' = [todo EXCEPT ![n] = {}]
      /\ UNCHANGED <<rebalancing, seekTo, topic, leader, mine, got, rejected, batch, due,
                     events>>
  BY DEF ResolveOffsets
<1>2. /\ due \in Dues /\ TypeOK /\ PositionsReach /\ FetchesReach /\ WireReaches(due, wire)
      /\ stored \in [Partitions -> MaybeOffsets] /\ committed \in [Partitions -> MaybeOffsets]
      /\ resolved \in [Partitions -> MaybeOffsets] /\ asked \in [Nodes -> Asking]
      /\ mode \in Modes /\ wire \in Seq(Requests)
  BY DEF ReachInv, TypeOK, Dues, Asking, Modes
<1>3. \/ Ask(n, committed) /\ UNCHANGED coordinator
      \/ /\ Send("read", n, os) /\ pc' = [pc EXCEPT ![n] = "reading"]
         /\ UNCHANGED <<offsets, mode, asked>>
  BY DEF ResolveOffsets
<1>4. /\ wire' \in Seq(Requests) /\ WireReaches(due, wire')
      /\ stored' \in [Partitions -> MaybeOffsets] /\ Reaches(due, stored')
      /\ committed' \in [Partitions -> MaybeOffsets] /\ Reaches(due, committed')
      /\ resolved' \in [Partitions -> MaybeOffsets] /\ Reaches(due, resolved')
      /\ asked' \in [Nodes -> Asking] /\ \A m \in Nodes : Reaches(due, asked'[m])
      /\ pc' \in [Nodes -> Pcs] /\ mode' \in Modes
  <2>1. CASE Ask(n, committed) /\ UNCHANGED coordinator
    <3>1. Reaches(due, committed)
      BY <1>2 DEF PositionsReach
    <3> QED
      BY <1>2, <2>1, <3>1, AskKeeps DEF PositionsReach, coordinator
  <2>2. CASE /\ Send("read", n, os) /\ pc' = [pc EXCEPT ![n] = "reading"]
             /\ UNCHANGED <<offsets, mode, asked>>
    <3>1. os \in Maps /\ Reaches(due, os)
      <4>1. os \in [pending -> MaybeOffsets] /\ pending \in SUBSET Partitions
        BY <1>2
      <4>2. os \in Maps
        BY <4>1 DEF Maps
      <4>3. Reaches(due, os)
        BY <1>2 DEF Reaches, PositionsReach
      <4> QED
        BY <4>2, <4>3
    <3>2. Send("read", n, os)
      BY <2>2
    <3>3. pc' \in [Nodes -> Pcs]
      BY <2>2 DEF ReachInv, TypeOK, Pcs
    <3> HIDE DEF os
    <3>4. /\ wire' \in Seq(Requests) /\ stored' \in [Partitions -> MaybeOffsets]
          /\ Reaches(due, stored') /\ WireReaches(due, wire')
      BY <1>2, <3>1, <3>2, SendKeeps DEF PositionsReach, Kinds
    <3> QED
      BY <1>2, <2>2, <3>3, <3>4 DEF PositionsReach, FetchesReach, offsets
  <2> QED
    BY <1>3, <2>1, <2>2
<1>5. todo' \in [Nodes -> SUBSET Partitions]
  BY <1>1 DEF ReachInv, TypeOK
<1>6. TypeOK'
  BY <1>1, <1>4, <1>5 DEF ReachInv, TypeOK, topic, Pcs, Modes, Asking
<1>7. PositionsReach' /\ WireReaches(due, wire)' /\ FetchesReach' /\ BatchesReach'
  BY <1>1, <1>4 DEF ReachInv, PositionsReach, FetchesReach, BatchesReach
<1>8. Calling
  BY <1>1 DEF Calling, Calls
<1> QED
  BY <1>6, <1>7, <1>8 DEF ReachInv

LEMMA OffsetsReadStep ==
  ASSUME ReachInv, NEW n \in Nodes, OffsetsRead(n)
  PROVE  ReachInv' /\ Calling
<1> DEFINE os == Head(wire).offsets
<1>1. /\ wire' \in Seq(Requests) /\ stored' = stored /\ os \in Maps
      /\ due \in Dues /\ WireReaches(due, wire') /\ Reaches(due, os)
  BY AnswerKeeps DEF ReachInv, OffsetsRead, TypeOK, Dues
<1>2. UNCHANGED <<rebalancing, seekTo, topic, leader, mine, todo, rejected, batch, due, events>>
  BY DEF OffsetsRead
<1>3. \/ Ask(n, Over(os, committed)) /\ UNCHANGED got
      \/ /\ got' = [got EXCEPT ![n] = os] /\ pc' = [pc EXCEPT ![n] = "listing"]
         /\ UNCHANGED <<offsets, mode, asked>>
  BY DEF OffsetsRead
<1> HIDE DEF os
<1>4. /\ committed' \in [Partitions -> MaybeOffsets] /\ Reaches(due, committed')
      /\ resolved' \in [Partitions -> MaybeOffsets] /\ Reaches(due, resolved')
      /\ asked' \in [Nodes -> Asking] /\ \A m \in Nodes : Reaches(due, asked'[m])
      /\ got' \in [Nodes -> Maps] /\ \A m \in Nodes : Reaches(due, got'[m])
      /\ pc' \in [Nodes -> Pcs] /\ mode' \in Modes
  <2>1. CASE Ask(n, Over(os, committed)) /\ UNCHANGED got
    <3>1. /\ committed \in [Partitions -> MaybeOffsets] /\ Reaches(due, committed)
          /\ got \in [Nodes -> Maps] /\ \A m \in Nodes : Reaches(due, got[m])
      BY DEF ReachInv, TypeOK, PositionsReach, FetchesReach
    <3> DEFINE known == Over(os, committed)
    <3>2. known \in [Partitions -> MaybeOffsets] /\ Reaches(due, known) /\ Ask(n, known)
      BY <1>1, <2>1, <3>1, OverMaps
    <3> HIDE DEF known
    <3> QED
      BY <2>1, <3>1, <3>2, AskKeeps
  <2>2. CASE /\ got' = [got EXCEPT ![n] = os] /\ pc' = [pc EXCEPT ![n] = "listing"]
             /\ UNCHANGED <<offsets, mode, asked>>
    <3>1. got' \in [Nodes -> Maps] /\ \A m \in Nodes : Reaches(due, got'[m])
      BY <1>1, <2>2 DEF ReachInv, TypeOK, FetchesReach
    <3>2. pc' \in [Nodes -> Pcs] /\ mode' \in Modes
      BY <2>2 DEF ReachInv, TypeOK, Pcs, Modes
    <3> QED
      BY <2>2, <3>1, <3>2
      DEF ReachInv, TypeOK, PositionsReach, FetchesReach, offsets, Asking
  <2> QED
    BY <1>3, <2>1, <2>2
<1>5. TypeOK'
  BY <1>1, <1>2, <1>4 DEF ReachInv, TypeOK, topic, Pcs, Modes, Asking
<1>6. PositionsReach' /\ WireReaches(due, wire)' /\ FetchesReach' /\ BatchesReach'
  BY <1>1, <1>2, <1>4 DEF ReachInv, PositionsReach, FetchesReach, BatchesReach
<1>7. Calling
  BY <1>2 DEF Calling, Calls
<1> QED
  BY <1>5, <1>6, <1>7 DEF ReachInv

LEMMA OffsetsListedStep ==
  ASSUME ReachInv, NEW n \in Nodes, OffsetsListed(n)
  PROVE  ReachInv' /\ Calling
<1> DEFINE os == [p \in DOMAIN got[n] |-> IF got[n][p] = None THEN 0 ELSE got[n][p]]
           known == Over(os, committed)
<1>1. /\ Ask(n, known) /\ got' = [got EXCEPT ![n] = EmptyMap]
      /\ UNCHANGED <<coordinator, rebalancing, seekTo, topic, leader, mine, todo, rejected,
                     batch, due, events>>
  BY DEF OffsetsListed
<1>2. /\ got[n] \in Maps /\ Reaches(due, got[n]) /\ due \in Dues
      /\ committed \in [Partitions -> MaybeOffsets] /\ Reaches(due, committed)
  BY DEF ReachInv, TypeOK, FetchesReach, PositionsReach, Dues
<1>3. os \in Maps
  <2>1. PICK ps \in SUBSET Partitions : got[n] \in [ps -> MaybeOffsets]
    BY <1>2 DEF Maps
  <2>2. 0 \in MaybeOffsets
    BY DEF MaybeOffsets, Offsets
  <2>3. os \in [ps -> MaybeOffsets]
    BY <2>1, <2>2
  <2> HIDE DEF os
  <2> QED
    BY <2>3 DEF Maps
<1>4. Reaches(due, os)
  <2>1. \A p \in DOMAIN got[n] : due[p] \in Nat
    BY <1>2 DEF Maps, Dues
  <2> QED
    BY <1>2, <2>1 DEF Reaches
<1>5. known \in [Partitions -> MaybeOffsets] /\ Reaches(due, known)
  <2> HIDE DEF os
  <2> QED
    BY <1>2, <1>3, <1>4, OverMaps
<1> HIDE DEF known, os
<1>6. /\ committed' \in [Partitions -> MaybeOffsets] /\ Reaches(due, committed')
      /\ resolved' \in [Partitions -> MaybeOffsets] /\ Reaches(due, resolved')
      /\ asked' \in [Nodes -> Asking] /\ \A m \in Nodes : Reaches(due, asked'[m])
      /\ pc' \in [Nodes -> Pcs] /\ mode' \in Modes
  BY <1>1, <1>5, AskKeeps
<1>7. EmptyMap \in Maps /\ Reaches(due, EmptyMap)
  <2>1. EmptyMap \in [{} -> MaybeOffsets] /\ {} \in SUBSET Partitions
    BY DEF EmptyMap
  <2> QED
    BY <2>1 DEF Maps, Reaches
<1>8. got' \in [Nodes -> Maps] /\ \A m \in Nodes : Reaches(due, got'[m])
  BY <1>1, <1>7 DEF ReachInv, TypeOK, FetchesReach
<1>9. TypeOK'
  BY <1>1, <1>6, <1>8 DEF ReachInv, TypeOK, topic, coordinator, Pcs, Modes, Asking
<1>10. PositionsReach' /\ WireReaches(due, wire)' /\ FetchesReach' /\ BatchesReach'
  BY <1>1, <1>6, <1>8 DEF ReachInv, PositionsReach, FetchesReach, BatchesReach, coordinator
<1>11. Calling
  BY <1>1 DEF Calling, Calls
<1> QED
  BY <1>9, <1>10, <1>11 DEF ReachInv

LEMMA NothingAsked ==
  ASSUME ReachInv, NEW n \in Nodes, asked' = [asked EXCEPT ![n] = EmptyMap]
  PROVE  asked' \in [Nodes -> Asking] /\ \A m \in Nodes : Reaches(due, asked'[m])
<1>1. EmptyMap \in [{} -> Offsets] /\ {} \in SUBSET Partitions
  BY DEF EmptyMap
<1>2. EmptyMap \in Asking /\ Reaches(due, EmptyMap)
  BY <1>1 DEF Asking, Reaches
<1> QED
  BY <1>2 DEF ReachInv, TypeOK, FetchesReach, Asking

LEMMA FetchReturnsStep ==
  ASSUME ReachInv, NEW n \in Nodes, FetchReturns(n)
  PROVE  ReachInv' /\ Calling
<1> DEFINE fresh == IF mode = "running" THEN Welcome(n) ELSE {}
<1>1. /\ batch' = [p \in Partitions |->
             IF p \in fresh THEN [phase |-> "queued", next |-> asked[n][p], node |-> n]
                            ELSE batch[p]]
      /\ \/ NothingFetched(n)
         \/ pc' = [pc EXCEPT ![n] = "handling"] /\ UNCHANGED mode
      /\ asked' = [asked EXCEPT ![n] = EmptyMap]
      /\ UNCHANGED <<coordinator, rebalancing, offsets, seekTo, topic, leader, mine, todo, got,
                     rejected, due, events>>
  BY DEF FetchReturns
<1>2. pc' \in [Nodes -> Pcs] /\ mode' \in Modes
  BY <1>1, NothingFetchedTypes DEF ReachInv, TypeOK, Pcs, Modes
<1>3. asked[n] \in Asking /\ Reaches(due, asked[n]) /\ due \in Dues
      /\ batch \in [Partitions -> Batches]
  BY DEF ReachInv, TypeOK, Asking, FetchesReach, Dues
<1>4. ASSUME NEW p \in fresh
      PROVE  p \in Partitions /\ asked[n][p] \in 0..(End - 1) /\ asked[n][p] <= due[p]
  <2>1. p \in DOMAIN asked[n] /\ asked[n][p] < End
    BY <1>4 DEF Welcome
  <2>2. p \in Partitions /\ asked[n][p] \in Nat
    <3>1. PICK ps \in SUBSET Partitions : asked[n] \in [ps -> Offsets]
      BY <1>3 DEF Asking
    <3>2. p \in ps /\ asked[n][p] \in Offsets
      BY <2>1, <3>1
    <3> QED
      BY <3>1, <3>2, OffsetsNatural
  <2>3. asked[n][p] <= due[p]
    BY <1>3, <2>1, <2>2 DEF Reaches
  <2> QED
    BY <2>1, <2>2, <2>3
<1>5. batch' \in [Partitions -> Batches]
  BY <1>1, <1>3, <1>4 DEF Batches
<1>6. BatchesReach'
  BY <1>1, <1>3, <1>4 DEF ReachInv, BatchesReach, Batches
<1>7. asked' \in [Nodes -> Asking] /\ \A m \in Nodes : Reaches(due, asked'[m])
  BY <1>1, NothingAsked
<1>8. TypeOK'
  BY <1>1, <1>2, <1>5, <1>7 DEF ReachInv, TypeOK, topic, coordinator, offsets, Pcs, Modes, Asking
<1>9. PositionsReach' /\ WireReaches(due, wire)' /\ FetchesReach'
  BY <1>1, <1>7 DEF ReachInv, PositionsReach, FetchesReach, coordinator, offsets
<1>10. Calling
  BY <1>1, <1>3 DEF Calling, Calls, Batches
<1> QED
  BY <1>6, <1>8, <1>9, <1>10 DEF ReachInv

LEMMA OutOfRangeStep ==
  ASSUME ReachInv, NEW n \in Nodes, OutOfRange(n)
  PROVE  ReachInv' /\ Calling
<1>1. PICK p \in DOMAIN asked[n] : Send("reset", n, [q \in {p} |-> None])
  BY DEF OutOfRange
<1> DEFINE os == [q \in {p} |-> None]
<1>2. p \in Partitions
  BY DEF ReachInv, TypeOK
<1>3. os \in Maps /\ Reaches(due, os)
  <2>1. os \in [{p} -> MaybeOffsets] /\ {p} \in SUBSET Partitions
    BY <1>2 DEF MaybeOffsets
  <2> QED
    BY <2>1 DEF Maps, Reaches
<1>4. Send("reset", n, os) /\ TypeOK /\ due \in Dues
  BY <1>1 DEF ReachInv, TypeOK, Dues
<1> HIDE DEF os
<1>5. /\ wire' \in Seq(Requests) /\ stored' \in [Partitions -> MaybeOffsets]
      /\ Reaches(due, stored') /\ WireReaches(due, wire')
  BY <1>3, <1>4, SendKeeps DEF ReachInv, PositionsReach, Kinds
<1>6. /\ pc' = [pc EXCEPT ![n] = "resetting"] /\ asked' = [asked EXCEPT ![n] = EmptyMap]
      /\ UNCHANGED <<rebalancing, offsets, seekTo, topic, leader, mode, mine, todo, got,
                     rejected, batch, due, events>>
  BY DEF OutOfRange
<1>7. asked' \in [Nodes -> Asking] /\ \A m \in Nodes : Reaches(due, asked'[m])
  BY <1>6, NothingAsked
<1>8. pc' \in [Nodes -> Pcs]
  BY <1>6 DEF ReachInv, TypeOK, Pcs
<1>9. TypeOK'
  BY <1>5, <1>6, <1>7, <1>8 DEF ReachInv, TypeOK, topic, offsets, Pcs, Asking
<1>10. PositionsReach' /\ WireReaches(due, wire)' /\ FetchesReach' /\ BatchesReach'
  BY <1>5, <1>6, <1>7 DEF ReachInv, PositionsReach, FetchesReach, BatchesReach, offsets
<1>11. Calling
  BY <1>6 DEF Calling, Calls
<1> QED
  BY <1>9, <1>10, <1>11 DEF ReachInv

LEMMA ResetCommittedStep ==
  ASSUME ReachInv, NEW n \in Nodes, ResetCommitted(n)
  PROVE  ReachInv' /\ Calling
<1>1. /\ wire' \in Seq(Requests) /\ stored' = stored /\ Head(wire).offsets \in Maps
      /\ due \in Dues /\ WireReaches(due, wire')
  BY AnswerKeeps DEF ReachInv, ResetCommitted, TypeOK, Dues
<1>2. /\ committed' \in [Partitions -> MaybeOffsets] /\ resolved' \in [Partitions -> MaybeOffsets]
      /\ Reaches(due, committed') /\ Reaches(due, resolved')
      /\ pc' \in [Nodes -> Pcs] /\ mode' \in Modes
  <2>1. CASE Clear(Head(wire).offsets) /\ NothingFetched(n)
    BY <1>1, <2>1, ClearKeeps, NothingFetchedTypes DEF ReachInv, PositionsReach
  <2>2. CASE Throw(n, "rejoin") /\ UNCHANGED offsets
    BY <2>2, ThrowTypes DEF ReachInv, PositionsReach, TypeOK, offsets
  <2> QED
    BY <2>1, <2>2 DEF ResetCommitted
<1>3. UNCHANGED <<rebalancing, seekTo, topic, leader, mine, todo, got, asked, rejected, batch,
                  due, events>>
  BY DEF ResetCommitted
<1>4. TypeOK'
  BY <1>1, <1>2, <1>3 DEF ReachInv, TypeOK, topic, Pcs, Modes
<1>5. PositionsReach' /\ WireReaches(due, wire)' /\ FetchesReach' /\ BatchesReach'
  BY <1>1, <1>2, <1>3 DEF ReachInv, PositionsReach, FetchesReach, BatchesReach
<1>6. Calling
  BY <1>3 DEF Calling, Calls
<1> QED
  BY <1>4, <1>5, <1>6 DEF ReachInv

LEMMA PushDoneStep ==
  ASSUME ReachInv, NEW n \in Nodes, PushDone(n)
  PROVE  ReachInv' /\ Calling
<1>1. rejected[n] \in {"no", "error", "rejoin"} /\ TypeOK
  BY DEF ReachInv, TypeOK
<1>2. pc' \in [Nodes -> Pcs] /\ mode' \in Modes
  <2>1. CASE rejected[n] = "no"
    BY <1>1, <2>1 DEF PushDone, TypeOK, Pcs, Modes
  <2>2. CASE rejected[n] # "no"
    BY <1>1, <2>2, ThrowTypes DEF PushDone
  <2> QED
    BY <2>1, <2>2
<1>3. TypeOK'
  BY <1>1, <1>2 DEF TypeOK, PushDone, coordinator, offsets, topic, Pcs, Modes
<1> QED
  BY <1>3, Aside DEF PushDone

LEMMA RestartStep ==
  ASSUME ReachInv, Restart
  PROVE  ReachInv' /\ Calling
<1>1. /\ committed' \in [Partitions -> MaybeOffsets] /\ Reaches(due, committed')
      /\ resolved' \in [Partitions -> MaybeOffsets] /\ Reaches(due, resolved')
      /\ rebalancing' \in BOOLEAN
  <2>1. CASE mode = "rejoin"
    BY <2>1 DEF Restart, MaybeOffsets, Reaches
  <2>2. CASE mode # "rejoin"
    BY <2>2 DEF Restart, ReachInv, TypeOK, PositionsReach, offsets
  <2> QED
    BY <2>1, <2>2
<1>2. TypeOK'
  BY <1>1 DEF ReachInv, TypeOK, Restart, coordinator, topic
<1>3. PositionsReach' /\ WireReaches(due, wire)' /\ FetchesReach' /\ BatchesReach'
  BY <1>1 DEF Restart, ReachInv, PositionsReach, FetchesReach, BatchesReach, coordinator
<1>4. Calling
  BY DEF Restart, Calling, Calls
<1> QED
  BY <1>2, <1>3, <1>4 DEF ReachInv

LEMMA HeartbeatRefusedStep ==
  ASSUME ReachInv, NEW n \in Nodes, HeartbeatRefused(n)
  PROVE  ReachInv' /\ Calling
<1> DEFINE os == Uncommitted(resolved)
<1>1. /\ TypeOK /\ due \in Dues
      /\ resolved \in [Partitions -> MaybeOffsets] /\ Reaches(due, resolved)
      /\ wire \in Seq(Requests) /\ stored \in [Partitions -> MaybeOffsets]
      /\ Reaches(due, stored) /\ WireReaches(due, wire)
  BY DEF ReachInv, TypeOK, PositionsReach, Dues
<1>2. os \in Maps /\ Reaches(due, os)
  BY <1>1, UncommittedMaps
<1>3. /\ \/ Throw(n, "rejoin") /\ UNCHANGED coordinator
         \/ Send("commit", n, os) /\ pc' = [pc EXCEPT ![n] = "left"] /\ UNCHANGED mode
      /\ UNCHANGED <<rebalancing, offsets, seekTo, topic, leader, mine, todo, got, asked,
                     rejected, batch, due, events>>
  BY DEF HeartbeatRefused
<1> HIDE DEF os
<1>4. /\ wire' \in Seq(Requests) /\ stored' \in [Partitions -> MaybeOffsets]
      /\ Reaches(due, stored') /\ WireReaches(due, wire')
  <2>1. CASE UNCHANGED coordinator
    BY <1>1, <2>1 DEF coordinator
  <2>2. CASE Send("commit", n, os)
    BY <1>1, <1>2, <2>2, SendKeeps DEF Kinds
  <2> QED
    BY <1>3, <2>1, <2>2
<1>5. pc' \in [Nodes -> Pcs] /\ mode' \in Modes
  <2>1. CASE Throw(n, "rejoin")
    BY <1>1, <2>1, ThrowTypes
  <2>2. CASE pc' = [pc EXCEPT ![n] = "left"] /\ UNCHANGED mode
    BY <1>1, <2>2 DEF TypeOK, Pcs, Modes
  <2> QED
    BY <1>3, <2>1, <2>2
<1>6. TypeOK'
  BY <1>1, <1>3, <1>4, <1>5 DEF TypeOK, offsets, topic, Pcs, Modes
<1>7. PositionsReach' /\ WireReaches(due, wire)' /\ FetchesReach' /\ BatchesReach'
  BY <1>3, <1>4 DEF ReachInv, PositionsReach, FetchesReach, BatchesReach, offsets
<1>8. Calling
  BY <1>3 DEF Calling, Calls
<1> QED
  BY <1>6, <1>7, <1>8 DEF ReachInv

LEMMA LeaveCommittedStep ==
  ASSUME ReachInv, NEW n \in Nodes, LeaveCommitted(n)
  PROVE  ReachInv' /\ Calling
<1> DEFINE os == Head(wire).offsets
<1>1. /\ wire' \in Seq(Requests) /\ stored' = stored /\ os \in Maps
      /\ WireReaches(due, wire') /\ Reaches(due, os)
  BY AnswerKeeps DEF ReachInv, LeaveCommitted, TypeOK, Dues
<1>2. /\ committed' \in {committed, Over(os, committed)} /\ Throw(n, "rejoin")
      /\ UNCHANGED <<rebalancing, resolved, seekTo, topic, leader, mine, todo, got, asked,
                     rejected, batch, due, events>>
  BY DEF LeaveCommitted
<1> HIDE DEF os
<1>3. /\ TypeOK /\ due \in Dues
      /\ committed \in [Partitions -> MaybeOffsets] /\ Reaches(due, committed)
  BY DEF ReachInv, TypeOK, Dues, PositionsReach
<1>4. committed' \in [Partitions -> MaybeOffsets] /\ Reaches(due, committed')
  BY <1>1, <1>2, <1>3, OverMaps
<1>5. pc' \in [Nodes -> Pcs] /\ mode' \in Modes
  BY <1>2, <1>3, ThrowTypes
<1>6. TypeOK'
  BY <1>1, <1>2, <1>3, <1>4, <1>5 DEF TypeOK, topic, Pcs, Modes
<1>7. PositionsReach' /\ WireReaches(due, wire)' /\ FetchesReach' /\ BatchesReach'
  BY <1>1, <1>2, <1>4 DEF ReachInv, PositionsReach, FetchesReach, BatchesReach
<1>8. Calling
  BY <1>2 DEF Calling, Calls
<1> QED
  BY <1>6, <1>7, <1>8 DEF ReachInv

LEMMA FetchingStep ==
  ASSUME ReachInv, NEW n \in Nodes, Fetching(n)
  PROVE  ReachInv' /\ Calling
BY BeginFetchStep, SeekCommittedStep, OffsetsReadStep, OffsetsListedStep, FetchReturnsStep,
   OutOfRangeStep, ResetCommittedStep, PushDoneStep, HeartbeatRefusedStep,
   LeaveCommittedStep DEF Fetching

----------------------------------------------------------------------------
(* The workers.                                                            *)

\* A batch ends, or waits for its last answer: no message is in hand.
Calmer ==
  /\ batch' \in [Partitions -> Batches]
  /\ \A q \in Partitions :
       batch'[q].phase \in {"queued", "handling", "committing", "between"}
         => batch'[q] = batch[q]

Rejections == {"no", "error", "rejoin"}
Lasts == {"finishing", "failing", "leaving", "left"}

LEMMA SettleCalms ==
  ASSUME TypeOK, NEW p \in Partitions, NEW how \in Rejections, Settle(p, how)
  PROVE  Calmer /\ rejected' \in [Nodes -> Rejections]
<1>1. NoBatch \in Batches /\ NoBatch.phase = "none"
  BY DEF NoBatch, Batches
<1>2. batch \in [Partitions -> Batches] /\ rejected \in [Nodes -> Rejections]
  BY DEF TypeOK, Rejections
<1>3. batch' = [batch EXCEPT ![p] = NoBatch]
  BY DEF Settle
<1>4. Calmer
  BY <1>1, <1>2, <1>3 DEF Calmer
<1>5. rejected' \in [Nodes -> Rejections]
  BY <1>2 DEF Settle
<1> QED
  BY <1>4, <1>5

LEMMA PhaseCalms ==
  ASSUME TypeOK, NEW p \in Partitions, NEW phase \in Lasts, Phase(p, phase)
  PROVE  Calmer
<1>1. batch \in [Partitions -> Batches] /\ batch' = [batch EXCEPT ![p].phase = phase]
  BY DEF TypeOK, Phase
<1>2. /\ batch' \in [Partitions -> Batches] /\ batch'[p].phase = phase
      /\ \A q \in Partitions \ {p} : batch'[q] = batch[q]
  BY <1>1 DEF Batches, Lasts
<1>3. phase \notin {"queued", "handling", "committing", "between"}
  BY DEF Lasts
<1> QED
  BY <1>2, <1>3 DEF Calmer

LEMMA ProceedCalms ==
  ASSUME TypeOK, NEW p \in Partitions, NEW phase, phase # "committing", Proceed(p, phase)
  PROVE  Calmer /\ rejected' \in [Nodes -> Rejections]
<1>1. CASE \E how \in Rejections : Settle(p, how)
  BY <1>1, SettleCalms
<1>2. CASE Leaving(p)
  <2>1. Phase(p, "leaving") /\ UNCHANGED rejected
    BY <1>2 DEF Leaving
  <2>2. Calmer
    BY <2>1, PhaseCalms DEF Lasts
  <2> QED
    BY <2>1, <2>2 DEF TypeOK, Rejections
<1>3. (\E how \in Rejections : Settle(p, how)) \/ Leaving(p)
  BY DEF Proceed, Rejections
<1> QED
  BY <1>1, <1>2, <1>3

LEMMA CalmKeeps ==
  ASSUME ReachInv, Calmer, due' \in Dues, \A p \in Partitions : due[p] <= due'[p]
  PROVE  BatchesReach' /\ Calling
<1>1. \A p \in Partitions : batch[p].next \in Nat /\ due[p] \in Nat /\ due'[p] \in Nat
  BY DEF ReachInv, TypeOK, Batches, Dues
<1>2. BatchesReach'
  BY <1>1 DEF ReachInv, BatchesReach, Calmer
<1>3. Calling
  BY DEF Calling, Calls, Calmer
<1> QED
  BY <1>2, <1>3

LEMMA CommitAndKeeps ==
  ASSUME ReachInv, NEW p \in Partitions, NEW phase \in Lasts, CommitAnd(p, phase)
  PROVE  /\ wire' \in Seq(Requests) /\ stored' \in [Partitions -> MaybeOffsets]
         /\ Reaches(due, stored') /\ WireReaches(due, wire')
         /\ Calmer /\ rejected' \in [Nodes -> Rejections]
<1>1. /\ TypeOK /\ due \in Dues /\ rejected \in [Nodes -> Rejections]
      /\ resolved \in [Partitions -> MaybeOffsets] /\ Reaches(due, resolved)
      /\ wire \in Seq(Requests) /\ stored \in [Partitions -> MaybeOffsets]
      /\ Reaches(due, stored) /\ WireReaches(due, wire)
  BY DEF ReachInv, TypeOK, PositionsReach, Dues, Rejections
<1> DEFINE os == Uncommitted(resolved)
<1>2. os \in Maps /\ Reaches(due, os)
  BY <1>1, UncommittedMaps
<1>3. CASE Proceed(p, phase) /\ UNCHANGED coordinator
  <2>1. phase # "committing"
    BY DEF Lasts
  <2>2. Calmer /\ rejected' \in [Nodes -> Rejections]
    BY <1>1, <1>3, <2>1, ProceedCalms
  <2> QED
    BY <1>1, <1>3, <2>2 DEF coordinator
<1>4. CASE Send("commit", p, os) /\ Phase(p, phase) /\ UNCHANGED rejected
  <2>1. Calmer
    BY <1>1, <1>4, PhaseCalms
  <2>2. Send("commit", p, os)
    BY <1>4
  <2> HIDE DEF os
  <2>3. /\ wire' \in Seq(Requests) /\ stored' \in [Partitions -> MaybeOffsets]
        /\ Reaches(due, stored') /\ WireReaches(due, wire')
    BY <1>1, <1>2, <2>2, SendKeeps DEF Kinds
  <2> QED
    BY <1>1, <1>4, <2>1, <2>3
<1> QED
  BY <1>3, <1>4 DEF CommitAnd

LEMMA HandlingKeeps ==
  ASSUME ReachInv, NEW p \in Partitions, NEW o \in 0..(End - 1), o <= due[p],
         Handling(p, o), due' = due
  PROVE  /\ batch' \in [Partitions -> Batches] /\ BatchesReach' /\ Calling
         /\ wire' \in Seq(Requests) /\ stored' \in [Partitions -> MaybeOffsets]
         /\ Reaches(due, stored') /\ WireReaches(due, wire')
         /\ rejected' \in [Nodes -> Rejections]
<1>1. batch \in [Partitions -> Batches] /\ due \in Dues
  BY DEF ReachInv, TypeOK, Dues
<1>2. batch' = [batch EXCEPT ![p].phase = "handling", ![p].next = o]
  BY DEF Handling
<1>3. /\ batch' \in [Partitions -> Batches]
      /\ batch'[p].phase = "handling" /\ batch'[p].next = o
      /\ \A q \in Partitions \ {p} : batch'[q] = batch[q]
  BY <1>1, <1>2 DEF Batches
<1>4. BatchesReach'
  BY <1>1, <1>3 DEF ReachInv, BatchesReach, Dues
<1>5. Calling
  BY <1>3 DEF Calling, Calls
<1>6. /\ wire' \in Seq(Requests) /\ stored' \in [Partitions -> MaybeOffsets]
      /\ Reaches(due, stored') /\ WireReaches(due, wire')
      /\ rejected' \in [Nodes -> Rejections]
  BY DEF Handling, ReachInv, TypeOK, PositionsReach, coordinator, Rejections
<1> QED
  BY <1>3, <1>4, <1>5, <1>6

LEMMA StartStep ==
  ASSUME ReachInv, NEW p \in Partitions, Start(p)
  PROVE  ReachInv' /\ Calling
<1>1. /\ batch[p].phase = "queued"
      /\ CommitAnd(p, "finishing") \/ Handling(p, batch[p].next)
      /\ UNCHANGED <<rebalancing, offsets, seekTo, topic, leader, mode, pc, mine, todo, got,
                     asked, due, events>>
  BY DEF Start
<1>2. due' \in Dues /\ \A q \in Partitions : due[q] <= due'[q]
  BY <1>1 DEF ReachInv, TypeOK, Dues
<1>3. batch[p].next \in 0..(End - 1) /\ batch[p].next <= due[p]
  BY <1>1 DEF ReachInv, TypeOK, Batches, BatchesReach
<1>4. /\ batch' \in [Partitions -> Batches] /\ BatchesReach' /\ Calling
      /\ wire' \in Seq(Requests) /\ stored' \in [Partitions -> MaybeOffsets]
      /\ Reaches(due, stored') /\ WireReaches(due, wire')
      /\ rejected' \in [Nodes -> Rejections]
  <2>1. CASE CommitAnd(p, "finishing")
    BY <1>2, <2>1, CommitAndKeeps, CalmKeeps DEF Calmer, Rejections, Lasts
  <2>2. CASE Handling(p, batch[p].next)
    BY <1>1, <1>3, <2>2, HandlingKeeps
  <2> QED
    BY <1>1, <2>1, <2>2
<1>5. TypeOK'
  BY <1>1, <1>4 DEF ReachInv, TypeOK, offsets, topic, Rejections
<1>6. PositionsReach' /\ WireReaches(due, wire)' /\ FetchesReach'
  BY <1>1, <1>4 DEF ReachInv, PositionsReach, FetchesReach, offsets
<1> QED
  BY <1>4, <1>5, <1>6 DEF ReachInv

LEMMA HandledStep ==
  ASSUME ReachInv, NEW p \in Partitions, Handled(p)
  PROVE  ReachInv' /\ Calling
<1> DEFINE o == batch[p].next
           res == [resolved EXCEPT ![p] = o + 1]
<1>1. /\ batch[p].phase = "handling" /\ resolved' = res
      /\ due' = [due EXCEPT ![p] = IF o + 1 > @ THEN o + 1 ELSE @]
      /\ UNCHANGED <<rebalancing, committed, seekTo, topic, leader, mode, pc, mine, todo, got,
                     asked, events>>
      /\ \/ Phase(p, "between") /\ UNCHANGED <<coordinator, rejected>>
         \/ /\ Send("commit", p, Uncommitted(res)) /\ Phase(p, "committing")
            /\ UNCHANGED rejected
         \/ Leaving(p) /\ UNCHANGED coordinator
  BY DEF Handled
<1>2. /\ TypeOK /\ due \in Dues /\ batch \in [Partitions -> Batches]
      /\ resolved \in [Partitions -> MaybeOffsets] /\ rejected \in [Nodes -> Rejections]
  BY DEF ReachInv, TypeOK, Dues, Rejections
<1>3. o \in Nat /\ o + 1 \in 0..End /\ o + 1 \in MaybeOffsets
  BY <1>2 DEF Batches, MaybeOffsets, Offsets
<1>4. res \in [Partitions -> MaybeOffsets]
  BY <1>2, <1>3
<1> HIDE DEF o
<1>5. due' \in Dues /\ (\A q \in Partitions : due[q] <= due'[q]) /\ o + 1 <= due'[p]
  BY <1>1, <1>2, <1>3 DEF Dues
<1>6. Reaches(due', res)
  <2>1. Reaches(due', resolved)
    BY <1>5, DueGrows
  <2> QED
    BY <1>2, <1>3, <1>5, <2>1 DEF Reaches
<1> HIDE DEF res
<1>7. Uncommitted(res) \in Maps /\ Reaches(due', Uncommitted(res))
  BY <1>4, <1>6, UncommittedMaps
<1>8. /\ wire' \in Seq(Requests) /\ stored' \in [Partitions -> MaybeOffsets]
      /\ Reaches(due', stored') /\ WireReaches(due', wire')
  <2>1. Reaches(due', stored) /\ WireReaches(due', wire)
    BY <1>5, DueGrows
  <2>2. CASE UNCHANGED coordinator
    BY <2>1, <2>2, <1>2 DEF TypeOK, coordinator
  <2>3. CASE Send("commit", p, Uncommitted(res))
    BY <1>2, <1>5, <1>7, <2>1, <2>3, SendKeeps DEF Kinds
  <2> QED
    BY <1>1, <2>2, <2>3 DEF coordinator
<1>9. /\ batch' \in [Partitions -> Batches] /\ BatchesReach' /\ Calling
      /\ rejected' \in [Nodes -> Rejections]
  <2>1. CASE Leaving(p)
    <3>1. Phase(p, "leaving") /\ UNCHANGED rejected
      BY <2>1 DEF Leaving
    <3>2. Calmer
      BY <1>2, <3>1, PhaseCalms DEF Lasts
    <3> QED
      BY <1>2, <1>5, <3>1, <3>2, CalmKeeps DEF Calmer
  <2>2. ASSUME NEW phase \in {"between", "committing"}, Phase(p, phase), UNCHANGED rejected
        PROVE  /\ batch' \in [Partitions -> Batches] /\ BatchesReach' /\ Calling
               /\ rejected' \in [Nodes -> Rejections]
    <3>1. /\ batch' \in [Partitions -> Batches]
          /\ batch'[p].phase = phase /\ batch'[p].next = o
          /\ \A q \in Partitions \ {p} : batch'[q] = batch[q]
      BY <1>2, <2>2 DEF Phase, Batches, o
    <3>2. \A q \in Partitions : batch[q].next \in Nat /\ due[q] \in Nat /\ due'[q] \in Nat
      BY <1>2, <1>5 DEF Batches, Dues
    <3>3. BatchesReach'
      <4>1. batch'[p].next < due'[p]
        BY <1>3, <1>5, <3>1, <3>2
      <4>2. ASSUME NEW q \in Partitions \ {p}
            PROVE  /\ batch'[q].phase \in {"queued", "handling"} => batch'[q].next <= due'[q]
                   /\ batch'[q].phase \in {"committing", "between"}
                        => batch'[q].next < due'[q]
        BY <1>5, <3>1, <3>2 DEF ReachInv, BatchesReach
      <4> QED
        BY <2>2, <3>1, <4>1, <4>2 DEF BatchesReach
    <3>4. Calling
      BY <2>2, <3>1 DEF Calling, Calls
    <3> QED
      BY <1>2, <2>2, <3>1, <3>3, <3>4
  <2> QED
    BY <1>1, <2>1, <2>2
<1>10. PositionsReach'
  BY <1>1, <1>5, <1>6, <1>8, DueGrows DEF PositionsReach
<1>11. FetchesReach'
  BY <1>1, <1>5, DueGrows DEF FetchesReach
<1>12. TypeOK'
  BY <1>1, <1>2, <1>4, <1>5, <1>8, <1>9 DEF TypeOK, topic, Rejections, Dues
<1> QED
  BY <1>8, <1>9, <1>10, <1>11, <1>12 DEF ReachInv

LEMMA FailsStep ==
  ASSUME ReachInv, NEW p \in Partitions, Fails(p)
  PROVE  ReachInv' /\ Calling
<1>1. /\ CommitAnd(p, "failing") /\ Spend
      /\ UNCHANGED <<rebalancing, offsets, seekTo, topic, leader, mode, pc, mine, todo, got,
                     asked, due>>
  BY DEF Fails
<1>2. due' \in Dues /\ \A q \in Partitions : due[q] <= due'[q]
  BY <1>1 DEF ReachInv, TypeOK, Dues
<1>3. /\ wire' \in Seq(Requests) /\ stored' \in [Partitions -> MaybeOffsets]
      /\ Reaches(due, stored') /\ WireReaches(due, wire')
      /\ Calmer /\ rejected' \in [Nodes -> Rejections]
  BY <1>1, CommitAndKeeps DEF Rejections, Lasts
<1>4. BatchesReach' /\ Calling
  BY <1>2, <1>3, CalmKeeps
<1>5. TypeOK'
  BY <1>1, <1>3, SpendTypes DEF ReachInv, TypeOK, offsets, topic, Rejections, Calmer
<1>6. PositionsReach' /\ WireReaches(due, wire)' /\ FetchesReach'
  BY <1>1, <1>3 DEF ReachInv, PositionsReach, FetchesReach, offsets
<1> QED
  BY <1>4, <1>5, <1>6 DEF ReachInv

LEMMA CommittedStep ==
  ASSUME ReachInv, NEW p \in Partitions, Committed(p)
  PROVE  ReachInv' /\ Calling
<1> DEFINE os == Head(wire).offsets
<1>1. /\ wire' \in Seq(Requests) /\ stored' = stored /\ os \in Maps
      /\ WireReaches(due, wire') /\ Reaches(due, os)
  BY AnswerKeeps DEF ReachInv, Committed, TypeOK, Dues
<1>2. /\ UNCHANGED <<rebalancing, resolved, seekTo, topic, leader, mode, pc, mine, todo, got,
                     asked, due, events>>
      /\ committed' \in {committed, Over(os, committed)}
      /\ \/ batch[p].phase = "committing" /\ Phase(p, "between") /\ UNCHANGED rejected
         \/ batch[p].phase # "committing" /\ Proceed(p, batch[p].phase)
         \/ Settle(p, "rejoin")
  BY DEF Committed, Proceed
<1> HIDE DEF os
<1>3. /\ TypeOK /\ due \in Dues /\ due' = due /\ batch \in [Partitions -> Batches]
      /\ committed \in [Partitions -> MaybeOffsets] /\ Reaches(due, committed)
      /\ rejected \in [Nodes -> Rejections]
  BY <1>2 DEF ReachInv, TypeOK, Dues, PositionsReach, Rejections
<1>4. committed' \in [Partitions -> MaybeOffsets] /\ Reaches(due, committed')
  BY <1>1, <1>2, <1>3, OverMaps
<1>5. /\ batch' \in [Partitions -> Batches] /\ BatchesReach' /\ Calling
      /\ rejected' \in [Nodes -> Rejections]
  <2>1. CASE \/ batch[p].phase # "committing" /\ Proceed(p, batch[p].phase)
             \/ Settle(p, "rejoin")
    <3>1. Calmer /\ rejected' \in [Nodes -> Rejections]
      BY <1>3, <2>1, SettleCalms, ProceedCalms DEF Rejections
    <3>2. \A q \in Partitions : due[q] <= due'[q]
      BY <1>3 DEF Dues
    <3> QED
      BY <1>3, <3>1, <3>2, CalmKeeps DEF Calmer
  <2>2. CASE batch[p].phase = "committing" /\ Phase(p, "between") /\ UNCHANGED rejected
    <3>1. /\ batch' \in [Partitions -> Batches]
          /\ batch'[p].phase = "between" /\ batch'[p].next = batch[p].next
          /\ \A q \in Partitions \ {p} : batch'[q] = batch[q]
      BY <1>3, <2>2 DEF Phase, Batches
    <3>2. BatchesReach'
      BY <1>3, <2>2, <3>1 DEF ReachInv, BatchesReach
    <3>3. Calling
      BY <3>1 DEF Calling, Calls
    <3> QED
      BY <1>3, <2>2, <3>1, <3>2, <3>3
  <2> QED
    BY <1>2, <2>1, <2>2
<1>6. TypeOK'
  BY <1>1, <1>2, <1>3, <1>4, <1>5 DEF TypeOK, topic, Rejections
<1>7. PositionsReach' /\ WireReaches(due, wire)' /\ FetchesReach'
  BY <1>1, <1>2, <1>4 DEF ReachInv, PositionsReach, FetchesReach
<1> QED
  BY <1>5, <1>6, <1>7 DEF ReachInv

LEMMA ContinueStep ==
  ASSUME ReachInv, NEW p \in Partitions, Continue(p)
  PROVE  ReachInv' /\ Calling
<1>1. /\ batch[p].phase = "between"
      /\ \/ CommitAnd(p, "finishing")
         \/ batch[p].next + 1 # End /\ Handling(p, batch[p].next + 1)
      /\ UNCHANGED <<rebalancing, offsets, seekTo, topic, leader, mode, pc, mine, todo, got,
                     asked, due, events>>
  BY DEF Continue
<1>2. due' \in Dues /\ \A q \in Partitions : due[q] <= due'[q]
  BY <1>1 DEF ReachInv, TypeOK, Dues
<1>3. /\ batch[p].next \in 0..(End - 1) /\ batch[p].next < due[p] /\ due[p] \in Nat
  BY <1>1 DEF ReachInv, TypeOK, Batches, BatchesReach
<1>4. /\ batch' \in [Partitions -> Batches] /\ BatchesReach' /\ Calling
      /\ wire' \in Seq(Requests) /\ stored' \in [Partitions -> MaybeOffsets]
      /\ Reaches(due, stored') /\ WireReaches(due, wire')
      /\ rejected' \in [Nodes -> Rejections]
  <2>1. CASE CommitAnd(p, "finishing")
    BY <1>2, <2>1, CommitAndKeeps, CalmKeeps DEF Calmer, Rejections, Lasts
  <2>2. CASE batch[p].next + 1 # End /\ Handling(p, batch[p].next + 1)
    <3>1. batch[p].next + 1 \in 0..(End - 1) /\ batch[p].next + 1 <= due[p]
      BY <1>3, <2>2
    <3> QED
      BY <1>1, <2>2, <3>1, HandlingKeeps
  <2> QED
    BY <1>1, <2>1, <2>2
<1>5. TypeOK'
  BY <1>1, <1>4 DEF ReachInv, TypeOK, offsets, topic, Rejections
<1>6. PositionsReach' /\ WireReaches(due, wire)' /\ FetchesReach'
  BY <1>1, <1>4 DEF ReachInv, PositionsReach, FetchesReach, offsets
<1> QED
  BY <1>4, <1>5, <1>6 DEF ReachInv

LEMMA LeaveStep ==
  ASSUME ReachInv, NEW p \in Partitions, Leave(p)
  PROVE  ReachInv' /\ Calling
<1>1. /\ CommitAnd(p, "left")
      /\ UNCHANGED <<rebalancing, offsets, seekTo, topic, leader, mode, pc, mine, todo, got,
                     asked, due, events>>
  BY DEF Leave
<1>2. due' \in Dues /\ \A q \in Partitions : due[q] <= due'[q]
  BY <1>1 DEF ReachInv, TypeOK, Dues
<1>3. /\ wire' \in Seq(Requests) /\ stored' \in [Partitions -> MaybeOffsets]
      /\ Reaches(due, stored') /\ WireReaches(due, wire')
      /\ Calmer /\ rejected' \in [Nodes -> Rejections]
  BY <1>1, CommitAndKeeps DEF Lasts
<1>4. BatchesReach' /\ Calling
  BY <1>2, <1>3, CalmKeeps
<1>5. TypeOK'
  BY <1>1, <1>3 DEF ReachInv, TypeOK, offsets, topic, Rejections, Calmer
<1>6. PositionsReach' /\ WireReaches(due, wire)' /\ FetchesReach'
  BY <1>1, <1>3 DEF ReachInv, PositionsReach, FetchesReach, offsets
<1> QED
  BY <1>4, <1>5, <1>6 DEF ReachInv

----------------------------------------------------------------------------
(* The theorems.                                                           *)

LEMMA ReachInit ==
  ASSUME Init
  PROVE  ReachInv
<1>1. EmptyMap \in [{} -> Offsets] /\ {} \in SUBSET Partitions /\ DOMAIN EmptyMap = {}
  BY DEF EmptyMap
<1>2. EmptyMap \in Asking
  BY <1>1 DEF Asking
<1>3a. EmptyMap \in Maps
  BY <1>2, AskedMaps DEF Asking
<1>3b. Reaches(due, EmptyMap)
  BY <1>1 DEF Reaches
<1>3. NoBatch \in Batches /\ NoBatch.phase = "none"
  BY DEF NoBatch, Batches
<1>4. wire \in Seq(Requests)
  BY DEF Init
<1>5. TypeOK
  <2>1. /\ stored \in [Partitions -> MaybeOffsets] /\ committed \in [Partitions -> MaybeOffsets]
        /\ resolved \in [Partitions -> MaybeOffsets] /\ seekTo \in [Partitions -> MaybeOffsets]
    BY DEF Init, MaybeOffsets
  <2>2. batch \in [Partitions -> Batches] /\ due \in [Partitions -> 0..End]
    BY <1>3 DEF Init
  <2>3. got \in [Nodes -> Maps] /\ asked \in [Nodes -> Asking]
    BY <1>2, <1>3a DEF Init
  <2>4. /\ mine \in [Nodes -> SUBSET Partitions] /\ todo \in [Nodes -> SUBSET Partitions]
        /\ pc \in [Nodes -> Pcs] /\ rejected \in [Nodes -> Rejections]
    BY DEF Init, Pcs, Rejections
  <2>5. /\ rebalancing \in BOOLEAN /\ pauseAll \in BOOLEAN
        /\ leader \in [Partitions -> Nodes]
    BY Zenon DEF Init
  <2>6. /\ paused \subseteq Partitions /\ resumed \subseteq Partitions
        /\ wanted \subseteq Partitions /\ mode \in {"running", "error", "rejoin"}
    BY DEF Init
  <2>7. events \in 0..MaxEvents
    BY DEF Init
  <2> QED
    BY <1>4, <2>1, <2>2, <2>3, <2>4, <2>5, <2>6, <2>7 DEF TypeOK, Asking, Pcs, Rejections
<1>6. PositionsReach /\ WireReaches(due, wire)
  BY DEF Init, PositionsReach, Reaches, WireReaches
<1>7. FetchesReach /\ BatchesReach
  BY <1>3b, <1>3 DEF Init, FetchesReach, BatchesReach
<1> QED
  BY <1>5, <1>6, <1>7 DEF ReachInv

LEMMA ReachStep ==
  ASSUME ReachInv, [Next]_vars
  PROVE  ReachInv' /\ Calling
<1>1. CASE UNCHANGED vars
  <2>1. UNCHANGED <<coordinator, offsets, seekTo, got, asked, batch, due>>
    BY <1>1 DEF vars, fetchers
  <2>2. TypeOK'
    BY <1>1 DEF ReachInv, TypeOK, vars, coordinator, offsets, topic, fetchers
  <2> QED
    BY <2>1, <2>2, Aside
<1>2. ASSUME NEW n \in Nodes, Going(n) \/ Fetching(n)
      PROVE  ReachInv' /\ Calling
  BY <1>2, PopSeekStep, ResolveOffsetsStep, FetchingStep DEF Going
<1>3. ASSUME NEW p \in Partitions, Start(p) \/ Working(p) \/ Fails(p)
      PROVE  ReachInv' /\ Calling
  BY <1>3, StartStep, HandledStep, CommittedStep, ContinueStep, FailsStep, LeaveStep DEF Working
<1>4. CASE Restart \/ Pausing \/ Rebalance
  BY <1>4, RestartStep, PausingStep, RebalanceStep
<1>5. ASSUME NEW p \in Partitions, NEW o \in SeekOffsets, Seek(p, o)
      PROVE  ReachInv' /\ Calling
  BY <1>5, SeekStep
<1>6. ASSUME NEW p \in Partitions, NEW n \in Nodes, Move(p, n)
      PROVE  ReachInv' /\ Calling
  BY <1>6, MoveStep
<1> QED
  BY <1>1, <1>2, <1>3, <1>4, <1>5, <1>6 DEF Next

\* Every offset that is stored, kept, under way or in hand is one from which its
\* partition may be read (offsetManager.js, seekOffsets.js, runner.js).
THEOREM OffsetsReach == Spec => []ReachInv
<1>1. Init => ReachInv
  BY ReachInit
<1>2. ReachInv /\ [Next]_vars => ReachInv'
  BY ReachStep
<1> QED
  BY <1>1, <1>2, PTL DEF Spec

\* The types of the fetchers' and workers' state.
THEOREM FetchTypes == Spec => []TypeOK
<1>1. ReachInv => TypeOK
  BY DEF ReachInv
<1> QED
  BY <1>1, OffsetsReach, PTL

\* eachMessage is called with an offset only when all before it, from the
\* beginning, have been handled at some time or sought past.
THEOREM ReadWithoutHoles == Spec => NothingSkipped
<1>1. ReachInv /\ [Next]_vars
        => [\A p \in Partitions, o \in 0..End : Calls(p, o) => o <= due[p]]_vars
  BY ReachStep DEF Calling
<1> QED
  BY <1>1, OffsetsReach, PTL DEF Spec, NothingSkipped
=============================================================================
