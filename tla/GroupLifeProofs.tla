--------------------------- MODULE GroupLifeProofs ---------------------------
(***************************************************************************)
(* Proofs about GroupLife, for any members, finitely many partitions, any  *)
(* number of retries, events, faults and rebalances.                       *)
(***************************************************************************)
EXTENDS GroupLife, FiniteSetTheorems, TLAPS

\* The events before the offset were stored, or came before the first commit.
Accounted(p, n) == \A i \in Nat : i < n => <<p, i>> \in handled \cup early

\* What came before the first commit, while there is none, is all there is.
FirstCommit ==
  \A p \in Partitions : \A i \in Nat :
    committed[p] = -1 /\ i < Len(log[p]) => <<p, i>> \in early

\* A log holds no more events than are ever produced.
LogsBounded == \A p \in Partitions : Len(log[p]) <= MaxEvents

\* The batches a member has fetched are of its partitions, and of events there are.
RoundOK(m) ==
  pc[m] \in {"handle", "commit"} =>
    \A i \in DOMAIN round[m] :
      /\ round[m][i].partition \in DOMAIN position[m]
      /\ round[m][i].to <= Len(log[round[m][i].partition])

LifeTypes == TypeOK /\ LogsBounded /\ \A m \in Members : RoundOK(m)

\* Nothing is passed over, by the group or by a member.
NothingPassed ==
  /\ \A p \in Partitions : Accounted(p, committed[p])
  /\ \A m \in Members : \A p \in DOMAIN position[m] : Accounted(p, position[m][p])

LifeInv == LifeTypes /\ FirstCommit /\ NothingPassed
----------------------------------------------------------------------------
(* Positions and rounds.                                                   *)

LEMMA PositionTypes ==
  ASSUME NEW f, f \in Positions
  PROVE  DOMAIN f \subseteq Partitions /\ f \in [DOMAIN f -> 0..MaxEvents]
  BY DEF Positions

LEMMA PositionMoves ==
  ASSUME NEW f, f \in Positions, NEW p, NEW n \in 0..MaxEvents
  PROVE  /\ [f EXCEPT ![p] = n] \in Positions
         /\ DOMAIN [f EXCEPT ![p] = n] = DOMAIN f
         /\ \A q \in DOMAIN f : [f EXCEPT ![p] = n][q] = IF q = p THEN n ELSE f[q]
<1> DEFINE g == [f EXCEPT ![p] = n]
<1>1. f \in [DOMAIN f -> 0..MaxEvents] /\ DOMAIN f \subseteq Partitions
  BY PositionTypes
<1>2. g \in [DOMAIN f -> 0..MaxEvents]
  BY <1>1
<1>3. g \in Positions
  <2> HIDE DEF g
  <2> QED
    BY <1>1, <1>2 DEF Positions
<1> QED
  BY <1>1, <1>3

\* A round is of batches of the member's partitions, one at least.
LEMMA RoundTypes ==
  ASSUME TypeOK, LogsBounded, NEW m \in Members, NEW S \in SUBSET Ready(m), S # {},
         NEW order \in SetToSeqs(S), NEW end \in Ends(m, S)
  PROVE  LET b == BatchesOf(order, end) IN
         /\ b \in Seq(Batches) /\ b # <<>>
         /\ \A i \in DOMAIN b : /\ b[i].partition \in DOMAIN position[m]
                                /\ b[i].to <= Len(log[b[i].partition])
<1> DEFINE b == BatchesOf(order, end)
<1>2. b = [i \in DOMAIN order |-> [partition |-> order[i], to |-> end[order[i]]]]
  BY DEF BatchesOf
<1>3. S \subseteq DOMAIN position[m] /\ S \subseteq Partitions /\ S # {}
  <2>1. S \subseteq DOMAIN position[m] /\ S # {}
    BY DEF Ready
  <2>2. position[m] \in Positions
    BY DEF TypeOK
  <2> QED
    BY <2>1, <2>2, PositionTypes
<1>4. IsFiniteSet(S) /\ Cardinality(S) \in Nat /\ Cardinality(S) # 0
  <2>1. IsFiniteSet(S)
    BY <1>3, FS_Subset, LifeAssumption DEF LifeAssumption
  <2> QED
    BY <2>1, <1>3, FS_CardinalityType, FS_EmptySet
<1>5. order \in [1..Cardinality(S) -> S]
  BY DEF SetToSeqs
<1>6. end \in [S -> 1..MaxEvents] /\ \A p \in S : end[p] <= Len(log[p])
  <2>1. \A p \in S : Len(log[p]) \in Nat /\ position[m][p] \in Nat
    BY <1>3, PositionTypes DEF TypeOK
  <2> QED
    BY <2>1 DEF Ends
<1> HIDE DEF b
<1>7. DOMAIN b = 1..Cardinality(S)
  BY <1>2, <1>5
<1>8. ASSUME NEW i \in 1..Cardinality(S)
      PROVE  /\ b[i] = [partition |-> order[i], to |-> end[order[i]]]
             /\ order[i] \in S
  BY <1>2, <1>5, <1>8
<1>9. \A i \in 1..Cardinality(S) :
        /\ b[i] \in Batches
        /\ b[i].partition \in DOMAIN position[m]
        /\ b[i].to <= Len(log[b[i].partition])
  <2> SUFFICES ASSUME NEW i \in 1..Cardinality(S)
               PROVE  /\ b[i] \in Batches
                      /\ b[i].partition \in DOMAIN position[m]
                      /\ b[i].to <= Len(log[b[i].partition])
    OBVIOUS
  <2>1. b[i] = [partition |-> order[i], to |-> end[order[i]]] /\ order[i] \in S
    BY <1>8
  <2>2. order[i] \in Partitions /\ end[order[i]] \in 1..MaxEvents
    BY <2>1, <1>3, <1>6
  <2>3. b[i].partition = order[i] /\ b[i].to = end[order[i]]
    BY <2>1
  <2> QED
    BY <2>1, <2>2, <2>3, <1>3, <1>6 DEF Batches
<1>10. b \in Seq(Batches)
  <2>1. b = [i \in 1..Cardinality(S) |-> b[i]]
    BY <1>2, <1>5
  <2> QED
    BY <1>4, <1>9, <2>1
<1> QED
  BY <1>4, <1>7, <1>9, <1>10 DEF b

\* A partition's log is at most as long as there are events.
LEMMA LogsAreEvents ==
  ASSUME LifeTypes, NEW p \in Partitions
  PROVE  Len(log[p]) <= Cardinality(Events)
<1> USE LifeAssumption DEF LifeAssumption
<1> DEFINE n == Len(log[p])
<1>1. n \in Nat /\ n <= MaxEvents
  BY DEF LifeTypes, TypeOK, LogsBounded
<1>2. IsFiniteSet(0..MaxEvents) /\ IsFiniteSet(0..(n - 1)) /\ Cardinality(0..(n - 1)) = n
  <2>1. n - 1 \in Int /\ 0 \in Int
    BY <1>1
  <2>2. Cardinality(0..(n - 1)) = IF 0 > n - 1 THEN 0 ELSE n - 1 - 0 + 1
    BY <2>1, FS_Interval
  <2> HIDE DEF n
  <2> QED
    BY <1>1, <2>1, <2>2, FS_Interval
<1>3. IsFiniteSet(Events)
  <2>1. IsFiniteSet(Partitions \X (0..MaxEvents))
    BY <1>2, FS_Product
  <2>2. Events \in SUBSET (Partitions \X (0..MaxEvents))
    BY DEF Events
  <2> QED
    BY <2>1, <2>2, FS_Subset
<1>4. Cardinality({p} \X (0..(n - 1))) = n
  <2>1. IsFiniteSet({p}) /\ Cardinality({p}) = 1
    BY FS_Singleton
  <2>2. Cardinality({p} \X (0..(n - 1))) = 1 * n
    <3> HIDE DEF n
    <3> QED
      BY ZenonT(60), <1>2, <2>1, FS_Product
  <2> QED
    BY <1>1, <2>2
<1>5. {p} \X (0..(n - 1)) \in SUBSET Events
  BY <1>1 DEF Events
<1> HIDE DEF n
<1>6. Cardinality({p} \X (0..(n - 1))) <= Cardinality(Events)
  BY <1>3, <1>5, FS_Subset
<1> QED
  BY <1>4, <1>6 DEF n

----------------------------------------------------------------------------
(* Types.                                                                  *)

Labels == {"join", "fetch", "handle", "commit", "end", "stopped"}

\* The part of the types that a round is about.
RoundTyped ==
  /\ pc \in [Members -> Labels]
  /\ round \in [Members -> Seq(Batches)] /\ error \in [Members -> Errors]
  /\ \A m \in Members : (pc[m] \in {"handle", "commit"} => round[m] # <<>>) /\ RoundOK(m)

LEMMA TailEntries ==
  ASSUME NEW T, NEW s \in Seq(T), s # <<>>
  PROVE  /\ Tail(s) \in Seq(T) /\ Len(s) \in Nat \ {0}
         /\ Len(s) # 1 => Tail(s) # <<>>
         /\ \A i \in DOMAIN Tail(s) : i + 1 \in DOMAIN s /\ Tail(s)[i] = s[i + 1]
<1>1. Tail(s) \in Seq(T) /\ Len(s) \in Nat /\ Len(s) # 0
  OBVIOUS
<1>2. Len(Tail(s)) = Len(s) - 1 /\ DOMAIN Tail(s) = 1..(Len(s) - 1) /\ DOMAIN s = 1..Len(s)
  OBVIOUS
<1>3. Len(s) # 1 => Tail(s) # <<>>
  <2> SUFFICES ASSUME Tail(s) = <<>>
               PROVE  Len(s) = 1
    OBVIOUS
  <2>1. Len(Tail(s)) = 0
    <3>1. Len(<< >>) = 0
      OBVIOUS
    <3>2. Len(Tail(s)) = Len(<< >>)
      BY Zenon
    <3> QED
      BY <3>1, <3>2, Zenon
  <2> QED
    BY <2>1, <1>1, <1>2
<1>4. ASSUME NEW i \in 1..(Len(s) - 1)
      PROVE  i + 1 \in 1..Len(s) /\ Tail(s)[i] = s[i + 1]
  BY <1>1
<1> QED
  BY <1>1, <1>2, <1>3, <1>4

LEMMA NextBatchTypes ==
  ASSUME LifeTypes, NEW m \in Members, pc[m] \in {"handle", "commit"},
         NEW e \in Errors, NextBatch(m, e), UNCHANGED <<log, position>>
  PROVE  RoundTyped'
<1>1. round[m] \in Seq(Batches) /\ round[m] # <<>>
  BY DEF LifeTypes, TypeOK
<1>2. /\ Tail(round[m]) \in Seq(Batches) /\ Len(round[m]) \in Nat \ {0}
      /\ Len(round[m]) # 1 => Tail(round[m]) # <<>>
      /\ \A i \in DOMAIN Tail(round[m]) :
           i + 1 \in DOMAIN round[m] /\ Tail(round[m])[i] = round[m][i + 1]
  BY <1>1, TailEntries
<1>3. /\ round' = [round EXCEPT ![m] = Tail(round[m])]
      /\ error' = [error EXCEPT ![m] = IF error[m] = "none" THEN e ELSE error[m]]
      /\ pc' = [pc EXCEPT ![m] = IF Len(round[m]) = 1 THEN "end" ELSE "handle"]
  BY DEF NextBatch, Goto
<1>4. /\ pc' \in [Members -> Labels] /\ round' \in [Members -> Seq(Batches)]
      /\ error' \in [Members -> Errors]
  BY <1>2, <1>3 DEF LifeTypes, TypeOK, Labels
<1>5. ASSUME NEW v \in Members
      PROVE  (pc'[v] \in {"handle", "commit"} => round'[v] # <<>>) /\ RoundOK(v)'
  <2>1. CASE v = m
    <3>1. round'[m] = Tail(round[m]) /\ pc'[m] = IF Len(round[m]) = 1 THEN "end" ELSE "handle"
      BY <1>3 DEF LifeTypes, TypeOK
    <3>2. \A i \in DOMAIN round[m] :
            /\ round[m][i].partition \in DOMAIN position[m]
            /\ round[m][i].to <= Len(log[round[m][i].partition])
      BY DEF LifeTypes, RoundOK
    <3> QED
      BY <1>2, <2>1, <3>1, <3>2 DEF RoundOK
  <2>2. CASE v # m
    <3>1. round'[v] = round[v] /\ pc'[v] = pc[v]
      BY <1>3, <2>2 DEF LifeTypes, TypeOK
    <3> QED
      BY <3>1 DEF LifeTypes, TypeOK, RoundOK
  <2> QED
    BY <2>1, <2>2
<1> QED
  BY <1>4, <1>5 DEF RoundTyped

LEMMA CommitTypes ==
  ASSUME LifeTypes, NEW m \in Members, CommitResolved(m)
  PROVE  \A p \in Partitions :
           /\ committed'[p] \in -1..Len(log[p])
           /\ p \notin resolved[m] => committed'[p] = committed[p]
           /\ p \in resolved[m] => /\ committed'[p] = position[m][p] /\ committed'[p] # -1
                                   /\ p \in DOMAIN position[m]
<1> SUFFICES ASSUME NEW p \in Partitions
             PROVE  /\ committed'[p] \in -1..Len(log[p])
                    /\ p \notin resolved[m] => committed'[p] = committed[p]
                    /\ p \in resolved[m] => /\ committed'[p] = position[m][p] /\ committed'[p] # -1
                                            /\ p \in DOMAIN position[m]
  OBVIOUS
<1>1. committed'[p] = IF p \in resolved[m] THEN position[m][p] ELSE committed[p]
  BY DEF CommitResolved
<1>2. CASE p \in resolved[m]
  <2>1. p \in DOMAIN position[m] /\ position[m][p] \in Nat /\ position[m][p] <= Len(log[p])
    BY <1>2, PositionTypes DEF LifeTypes, TypeOK
  <2>2. Len(log[p]) \in Nat
    BY DEF LifeTypes, TypeOK
  <2> QED
    BY <1>1, <1>2, <2>1, <2>2
<1>3. CASE p \notin resolved[m]
  BY <1>1, <1>3 DEF LifeTypes, TypeOK
<1> QED
  BY <1>2, <1>3

LEMMA ThrowTypes ==
  ASSUME LifeTypes, NEW m \in Members, pc[m] = "handle", NEW e \in Errors, Throw(m, e),
         UNCHANGED <<log, position>>
  PROVE  /\ RoundTyped'
         /\ resolved' \in [Members -> SUBSET Partitions]
         /\ \A v \in Members : resolved'[v] \subseteq resolved[v]
         /\ UNCHANGED committed \/ CommitResolved(m)
<1>1. \E f \in Errors : NextBatch(m, f)
  <2>1. "rebalance" \in Errors
    BY DEF Errors
  <2> QED
    BY <2>1 DEF Throw
<1>2. RoundTyped'
  BY <1>1, NextBatchTypes
<1>3. resolved' = resolved \/ resolved' = [resolved EXCEPT ![m] = {}]
  BY DEF Throw
<1>4. UNCHANGED committed \/ CommitResolved(m)
  BY DEF Throw
<1> QED
  BY <1>2, <1>3, <1>4 DEF LifeTypes, TypeOK

\* What a step does to the positions.
PositionsTyped ==
  /\ position \in [Members -> Positions] /\ resolved \in [Members -> SUBSET Partitions]
  /\ \A m \in Members : /\ resolved[m] \subseteq DOMAIN position[m]
                        /\ \A p \in DOMAIN position[m] : position[m][p] <= Len(log[p])

\* The types after a step, from its parts.
LEMMA TypesOfParts ==
  ASSUME LifeTypes, RoundTyped', PositionsTyped',
         \A p \in Partitions : committed'[p] \in -1..Len(log[p]),
         owner' \in [Partitions -> Members], current' \in [Members -> BOOLEAN],
         retries' \in [Members -> 0..Retries],
         handled' \subseteq Partitions \X (0..MaxEvents),
         faults' \in 0..MaxFaults,
         UNCHANGED <<log, early>>
  PROVE  LifeTypes'
<1>1. TypeOK'
  BY DEF LifeTypes, TypeOK, RoundTyped, PositionsTyped, Labels
<1>2. LogsBounded'
  BY DEF LifeTypes, LogsBounded
<1> QED
  BY <1>1, <1>2 DEF LifeTypes, RoundTyped

LEMMA RoundIsTyped == LifeTypes => RoundTyped
  BY DEF LifeTypes, TypeOK, RoundTyped, Labels

\* A label that is not within a round.
LEMMA GotoTypes ==
  ASSUME LifeTypes, NEW m \in Members, NEW l \in {"join", "fetch", "end", "stopped"},
         Goto(m, l), UNCHANGED log, error' \in [Members -> Errors],
         round' \in [Members -> Seq(Batches)],
         \A v \in Members : v # m => round'[v] = round[v] /\ position'[v] = position[v]
  PROVE  RoundTyped'
<1>1. pc' \in [Members -> Labels] /\ pc'[m] = l
  BY DEF Goto, LifeTypes, TypeOK, Labels
<1>2. ASSUME NEW v \in Members
      PROVE  (pc'[v] \in {"handle", "commit"} => round'[v] # <<>>) /\ RoundOK(v)'
  <2>1. CASE v = m
    BY <1>1, <2>1 DEF RoundOK
  <2>2. CASE v # m
    <3>1. pc'[v] = pc[v] /\ round'[v] = round[v] /\ position'[v] = position[v]
      BY <2>2 DEF Goto, LifeTypes, TypeOK
    <3> QED
      BY <3>1 DEF LifeTypes, TypeOK, RoundOK
  <2> QED
    BY <2>1, <2>2
<1> QED
  BY <1>1, <1>2 DEF RoundTyped, LifeTypes, TypeOK

LEMMA ReassignTypes ==
  ASSUME LifeTypes, NEW running \in SUBSET Members, Reassign(running)
  PROVE  owner' \in [Partitions -> Members] /\ current' \in [Members -> BOOLEAN]
  BY DEF Reassign, LifeTypes, TypeOK

LEMMA LifeTypesStep ==
  ASSUME LifeTypes, [Next]_vars
  PROVE  LifeTypes'
<1> USE LifeAssumption DEF LifeAssumption
<1> USE DEF group, member
<1>0. TypeOK /\ RoundTyped
  BY RoundIsTyped DEF LifeTypes
<1>1. ASSUME NEW p \in Partitions, NEW kind \in {"good", "bad"}, Produce(p, kind)
      PROVE  LifeTypes'
  <2>1. Len(log[p]) < MaxEvents
    <3>1. Cardinality(Events) < MaxEvents
      BY <1>1 DEF Produce
    <3>2. IsFiniteSet(Events)
      <4>1. IsFiniteSet(0..MaxEvents)
        BY FS_Interval
      <4>2. IsFiniteSet(Partitions \X (0..MaxEvents))
        BY <4>1, FS_Product
      <4>3. Events \in SUBSET (Partitions \X (0..MaxEvents))
        BY DEF Events
      <4> QED
        BY <4>2, <4>3, FS_Subset
    <3>3. Cardinality(Events) \in Nat
      BY <3>2, FS_CardinalityType
    <3>4. Len(log[p]) \in Nat
      BY <1>0 DEF TypeOK
    <3> QED
      BY <3>1, <3>3, <3>4, LogsAreEvents
  <2>2. /\ log' \in [Partitions -> Seq({"good", "bad"})]
        /\ \A q \in Partitions : /\ Len(log'[q]) \in Nat /\ Len(log[q]) <= Len(log'[q])
                                 /\ Len(log'[q]) <= MaxEvents
    <3>1. log[p] \in Seq({"good", "bad"})
      BY <1>0 DEF TypeOK
    <3>2. /\ Append(log[p], kind) \in Seq({"good", "bad"})
          /\ Len(Append(log[p], kind)) = Len(log[p]) + 1 /\ Len(log[p]) \in Nat
      BY <3>1
    <3>3. log' = [log EXCEPT ![p] = Append(log[p], kind)]
      BY <1>1 DEF Produce
    <3>4. \A q \in Partitions : log[q] \in Seq({"good", "bad"}) /\ Len(log[q]) \in Nat
      BY <1>0 DEF TypeOK
    <3>5. \A q \in Partitions : log'[q] = IF q = p THEN Append(log[p], kind) ELSE log[q]
      BY <3>3, <1>0 DEF TypeOK
    <3>6. log' \in [Partitions -> Seq({"good", "bad"})]
      BY <3>2, <3>3, <1>0 DEF TypeOK
    <3>7. \A q \in Partitions : Len(log[q]) <= MaxEvents
      BY DEF LifeTypes, LogsBounded
    <3> QED
      BY <2>1, <3>2, <3>4, <3>5, <3>6, <3>7
  <2>3. early' \subseteq Partitions \X (0..MaxEvents)
    <3>1. Len(log[p]) \in 0..MaxEvents
      BY <2>1, <1>0 DEF TypeOK
    <3> QED
      BY <1>1, <3>1, <1>0 DEF Produce, TypeOK
  <2>4. UNCHANGED <<group, member, handled, faults>>
    BY <1>1 DEF Produce
  <2>5. \A q \in Partitions : committed'[q] \in -1..Len(log'[q])
    <3> SUFFICES ASSUME NEW q \in Partitions
                 PROVE  committed[q] \in -1..Len(log'[q])
      BY <2>4
    <3>1. committed[q] \in -1..Len(log[q]) /\ Len(log[q]) \in Nat
      BY <1>0 DEF TypeOK
    <3> QED
      BY <2>2, <3>1
  <2>6. \A m \in Members : \A q \in DOMAIN position[m] :
          q \in Partitions /\ position[m][q] <= Len(log'[q])
    <3> SUFFICES ASSUME NEW m \in Members, NEW q \in DOMAIN position[m]
                 PROVE  q \in Partitions /\ position[m][q] <= Len(log'[q])
      OBVIOUS
    <3>1. position[m] \in Positions /\ position[m][q] <= Len(log[q])
      BY <1>0 DEF TypeOK
    <3>2. q \in Partitions /\ position[m][q] \in Nat
      BY <3>1, PositionTypes
    <3>3. Len(log[q]) \in Nat
      BY <3>2, <1>0 DEF TypeOK
    <3> QED
      BY <2>2, <3>1, <3>2, <3>3
  <2>7. \A m \in Members : RoundOK(m)'
    <3> SUFFICES ASSUME NEW m \in Members, pc[m] \in {"handle", "commit"},
                        NEW i \in DOMAIN round[m]
                 PROVE  /\ round[m][i].partition \in DOMAIN position[m]
                        /\ round[m][i].to <= Len(log'[round[m][i].partition])
      BY <2>4 DEF RoundOK
    <3>1. /\ round[m][i].partition \in DOMAIN position[m]
          /\ round[m][i].to <= Len(log[round[m][i].partition])
      BY DEF LifeTypes, RoundOK
    <3>2. round[m][i].partition \in Partitions /\ round[m][i].to \in Nat
      <4>1. round[m] \in Seq(Batches)
        BY <1>0 DEF TypeOK
      <4>2. round[m][i] \in Batches
        BY <4>1
      <4> QED
        BY <4>2 DEF Batches
    <3>3. Len(log[round[m][i].partition]) \in Nat
      BY <3>2, <1>0 DEF TypeOK
    <3> QED
      BY <2>2, <3>1, <3>2, <3>3
  <2>8. TypeOK'
    BY <1>0, <2>2, <2>3, <2>4, <2>5, <2>6 DEF TypeOK
  <2>9. LogsBounded'
    BY <2>2 DEF LogsBounded
  <2> QED
    BY <2>7, <2>8, <2>9 DEF LifeTypes
<1>2. ASSUME NEW m \in Members, Join(m)
      PROVE  LifeTypes'
  <2> DEFINE mine == {q \in Partitions : owner[q] = m}
  <2>1. /\ position' = [position EXCEPT ![m] = [p \in mine |-> StartAt(p)]]
        /\ resolved' = [resolved EXCEPT ![m] = {}] /\ retries' = [retries EXCEPT ![m] = 0]
        /\ current' = [current EXCEPT ![m] = TRUE] /\ Goto(m, "fetch")
        /\ UNCHANGED <<log, committed, owner, round, error, handled, early, faults>>
    BY <1>2 DEF Join
  <2>2. \A p \in Partitions : StartAt(p) \in 0..Len(log[p]) /\ StartAt(p) \in 0..MaxEvents
    BY <1>0 DEF StartAt, TypeOK, LifeTypes, LogsBounded
  <2>3. [p \in mine |-> StartAt(p)] \in Positions
    <3>1. mine \in SUBSET Partitions
      OBVIOUS
    <3>2. [p \in mine |-> StartAt(p)] \in [mine -> 0..MaxEvents]
      BY <2>2
    <3> HIDE DEF mine
    <3> QED
      BY <3>1, <3>2 DEF Positions
  <2>4. PositionsTyped'
    <3>1. position' \in [Members -> Positions] /\ resolved' \in [Members -> SUBSET Partitions]
      BY <2>1, <2>3, <1>0 DEF TypeOK
    <3>2. ASSUME NEW v \in Members
          PROVE  /\ resolved'[v] \subseteq DOMAIN position'[v]
                 /\ \A p \in DOMAIN position'[v] : position'[v][p] <= Len(log'[p])
      <4>1. CASE v = m
        <5>1. resolved'[v] = {} /\ position'[v] = [p \in mine |-> StartAt(p)]
          BY <2>1, <4>1, <1>0 DEF TypeOK
        <5> QED
          BY <5>1, <2>1, <2>2
      <4>2. CASE v # m
        BY <2>1, <4>2, <1>0 DEF TypeOK
      <4> QED
        BY <4>1, <4>2
    <3> QED
      BY <3>1, <3>2 DEF PositionsTyped
  <2>5. RoundTyped'
    BY <2>1, GotoTypes, <1>0 DEF TypeOK
  <2> QED
    BY <2>1, <2>4, <2>5, TypesOfParts, <1>0 DEF TypeOK
<1>3. ASSUME UNCHANGED <<log, position, resolved>>
      PROVE  PositionsTyped'
  BY <1>3, <1>0 DEF TypeOK, PositionsTyped
<1>4. CASE Rebalance
  <2>1. /\ owner' \in [Partitions -> Members] /\ current' \in [Members -> BOOLEAN]
        /\ faults' \in 0..MaxFaults
        /\ UNCHANGED <<log, committed, member, handled, early>>
    BY <1>4, ReassignTypes, <1>0 DEF Rebalance, Fault, Running, TypeOK
  <2>2. RoundTyped'
    BY <2>1, <1>0 DEF RoundTyped, RoundOK
  <2> QED
    BY <2>1, <2>2, <1>3, TypesOfParts, <1>0 DEF TypeOK
<1>5. ASSUME NEW m \in Members, Crash(m)
      PROVE  LifeTypes'
  <2>1. /\ owner' \in [Partitions -> Members] /\ current' \in [Members -> BOOLEAN]
        /\ faults' \in 0..MaxFaults
    BY <1>5, ReassignTypes, <1>0 DEF Crash, Fault, Running, TypeOK
  <2>2. /\ round' = [round EXCEPT ![m] = <<>>] /\ error' = [error EXCEPT ![m] = "none"]
        /\ resolved' = [resolved EXCEPT ![m] = {}]
        /\ position' = [position EXCEPT ![m] = NoPosition]
        /\ Goto(m, "join") /\ UNCHANGED <<log, committed, retries, handled, early>>
    BY <1>5 DEF Crash
  <2>3. NoPosition \in Positions /\ DOMAIN NoPosition = {}
    <3>1. NoPosition \in [{} -> 0..MaxEvents] /\ {} \in SUBSET Partitions /\ DOMAIN NoPosition = {}
      BY DEF NoPosition
    <3> QED
      BY <3>1 DEF Positions
  <2>4. PositionsTyped'
    <3>1. position' \in [Members -> Positions] /\ resolved' \in [Members -> SUBSET Partitions]
      BY <2>2, <2>3, <1>0 DEF TypeOK
    <3>2. ASSUME NEW v \in Members
          PROVE  /\ resolved'[v] \subseteq DOMAIN position'[v]
                 /\ \A p \in DOMAIN position'[v] : position'[v][p] <= Len(log'[p])
      BY <2>2, <2>3, <1>0 DEF TypeOK
    <3> QED
      BY <3>1, <3>2 DEF PositionsTyped
  <2>5. round' \in [Members -> Seq(Batches)] /\ error' \in [Members -> Errors]
    BY <2>2, <1>0 DEF TypeOK, Errors
  <2>6. RoundTyped'
    BY <2>2, <2>5, GotoTypes, <1>0 DEF TypeOK
  <2> QED
    BY <2>1, <2>2, <2>4, <2>6, TypesOfParts, <1>0 DEF TypeOK
<1>6. ASSUME NEW m \in Members, Fetch(m)
      PROVE  LifeTypes'
  <2>1. /\ Goto(m, "handle")
        /\ UNCHANGED <<log, group, position, resolved, error, retries, handled, early, faults>>
    BY <1>6 DEF Fetch
  <2>2. PICK S \in SUBSET Ready(m) :
          S # {} /\ \E order \in SetToSeqs(S), end \in Ends(m, S) :
                      round' = [round EXCEPT ![m] = BatchesOf(order, end)]
    BY <1>6 DEF Fetch
  <2>3. PICK order \in SetToSeqs(S), end \in Ends(m, S) :
          round' = [round EXCEPT ![m] = BatchesOf(order, end)]
    BY <2>2
  <2> DEFINE b == BatchesOf(order, end)
  <2>4. /\ b \in Seq(Batches) /\ b # <<>>
        /\ \A i \in DOMAIN b : /\ b[i].partition \in DOMAIN position[m]
                               /\ b[i].to <= Len(log[b[i].partition])
    <3>1. LogsBounded
      BY DEF LifeTypes
    <3> QED
      BY <2>2, <3>1, <1>0, RoundTypes
  <2>5. round' = [round EXCEPT ![m] = b]
    BY <2>3
  <2> HIDE DEF b
  <2>6. RoundTyped'
    <3>1. pc' \in [Members -> Labels] /\ round' \in [Members -> Seq(Batches)]
      BY <2>1, <2>4, <2>5, <1>0 DEF Goto, TypeOK, Labels
    <3>2. ASSUME NEW v \in Members
          PROVE  (pc'[v] \in {"handle", "commit"} => round'[v] # <<>>) /\ RoundOK(v)'
      <4>1. CASE v = m
        <5>1. round'[v] = b
          BY <2>5, <4>1, <1>0 DEF TypeOK
        <5> QED
          BY <5>1, <2>1, <2>4, <4>1 DEF RoundOK
      <4>2. CASE v # m
        <5>1. pc'[v] = pc[v] /\ round'[v] = round[v]
          BY <2>1, <2>5, <4>2, <1>0 DEF TypeOK, Goto
        <5> QED
          BY <5>1, <2>1, <1>0 DEF RoundTyped, RoundOK
      <4> QED
        BY <4>1, <4>2
    <3> QED
      BY <3>1, <3>2, <2>1, <1>0 DEF RoundTyped
  <2> QED
    BY <2>1, <2>6, <1>3, TypesOfParts, <1>0 DEF TypeOK
<1>7. ASSUME NEW m \in Members, Handle(m)
      PROVE  LifeTypes'
  <2> DEFINE p == Batch(m).partition
             to == Batch(m).to
  <2>1. /\ position' = [position EXCEPT ![m][p] = to]
        /\ resolved' = [resolved EXCEPT ![m] = @ \cup {p}]
        /\ handled' = handled \cup {<<p, o>> : o \in Offsets(m)}
        /\ Goto(m, "commit") /\ pc[m] = "handle"
        /\ UNCHANGED <<log, group, round, error, retries, early, faults>>
    BY <1>7 DEF Handle
  <2>2. /\ p \in DOMAIN position[m] /\ p \in Partitions /\ to \in 1..MaxEvents
        /\ to <= Len(log[p]) /\ Offsets(m) \subseteq 0..MaxEvents
    <3>1. round[m] \in Seq(Batches) /\ round[m] # <<>>
      BY <2>1, <1>0 DEF TypeOK
    <3>2. 1 \in DOMAIN round[m] /\ Batch(m) = round[m][1] /\ Batch(m) \in Batches
      BY <3>1 DEF Batch
    <3>3. p \in DOMAIN position[m] /\ to <= Len(log[p])
      BY <2>1, <3>2, <1>0 DEF RoundTyped, RoundOK
    <3>4. p \in Partitions /\ to \in 1..MaxEvents
      BY <3>2 DEF Batches
    <3>5. position[m] \in [DOMAIN position[m] -> 0..MaxEvents]
      BY PositionTypes, <1>0 DEF TypeOK
    <3>6. position[m][p] \in 0..MaxEvents
      BY <3>3, <3>5
    <3> QED
      BY <3>3, <3>4, <3>6 DEF Offsets
  <2> HIDE DEF p, to
  <2>3. /\ position'[m] \in Positions /\ DOMAIN position'[m] = DOMAIN position[m]
        /\ \A q \in DOMAIN position[m] :
             position'[m][q] = IF q = p THEN to ELSE position[m][q]
        /\ \A v \in Members : v # m => position'[v] = position[v]
        /\ position' \in [Members -> Positions]
    <3>1. position[m] \in Positions /\ to \in 0..MaxEvents
      BY <2>2, <1>0 DEF TypeOK
    <3>2. position' = [position EXCEPT ![m] = [position[m] EXCEPT ![p] = to]]
      BY <2>1
    <3>3. /\ position'[m] = [position[m] EXCEPT ![p] = to]
          /\ \A v \in Members : v # m => position'[v] = position[v]
      BY <3>2, <1>0 DEF TypeOK
    <3>4. [position[m] EXCEPT ![p] = to] \in Positions
      BY <3>1, PositionMoves
    <3>5. position' \in [Members -> Positions]
      BY <3>2, <3>4, <1>0 DEF TypeOK
    <3> QED
      BY <3>1, <3>3, <3>4, <3>5, PositionMoves
  <2>4. PositionsTyped'
    <3>1. resolved' \in [Members -> SUBSET Partitions]
      BY <2>1, <2>2, <1>0 DEF TypeOK
    <3>2. ASSUME NEW v \in Members
          PROVE  /\ resolved'[v] \subseteq DOMAIN position'[v]
                 /\ \A q \in DOMAIN position'[v] : position'[v][q] <= Len(log'[q])
      <4>1. CASE v = m
        <5>1. resolved'[m] = resolved[m] \cup {p} /\ log' = log
          BY <2>1, <1>0 DEF TypeOK
        <5>2. /\ resolved[m] \subseteq DOMAIN position[m]
              /\ \A q \in DOMAIN position[m] : position[m][q] <= Len(log[q])
          BY <1>0 DEF TypeOK
        <5> QED
          BY <5>1, <5>2, <2>2, <2>3, <4>1
      <4>2. CASE v # m
        BY <2>1, <2>3, <4>2, <1>0 DEF TypeOK
      <4> QED
        BY <4>1, <4>2
    <3> QED
      BY <2>3, <3>1, <3>2 DEF PositionsTyped
  <2>5. RoundTyped'
    <3>1. pc' \in [Members -> Labels] /\ \A v \in Members : v # m => pc'[v] = pc[v]
      BY <2>1, <1>0 DEF Goto, TypeOK, Labels
    <3>2. ASSUME NEW v \in Members
          PROVE  (pc'[v] \in {"handle", "commit"} => round'[v] # <<>>) /\ RoundOK(v)'
      <4>1. pc'[v] \in {"handle", "commit"} => pc[v] \in {"handle", "commit"}
        BY <2>1, <3>1
      <4>2. DOMAIN position'[v] = DOMAIN position[v]
        BY <2>3
      <4> QED
        BY <4>1, <4>2, <2>1, <1>0 DEF RoundTyped, RoundOK
    <3> QED
      BY <3>1, <3>2, <2>1, <1>0 DEF RoundTyped
  <2>6. handled' \subseteq Partitions \X (0..MaxEvents)
    BY <2>1, <2>2, <1>0 DEF TypeOK
  <2> QED
    BY <2>1, <2>4, <2>5, <2>6, TypesOfParts, <1>0 DEF TypeOK
<1>8. ASSUME NEW m \in Members, pc[m] \in {"handle", "commit"},
             UNCHANGED <<log, owner, current, position, retries, handled, early>>,
             faults' \in 0..MaxFaults, RoundTyped',
             UNCHANGED committed \/ CommitResolved(m),
             resolved' = resolved \/ resolved' = [resolved EXCEPT ![m] = {}]
      PROVE  LifeTypes'
  <2>1. \A p \in Partitions : committed'[p] \in -1..Len(log[p])
    BY <1>8, CommitTypes, <1>0 DEF TypeOK
  <2>2. PositionsTyped'
    BY <1>8, <1>0 DEF TypeOK, PositionsTyped
  <2> QED
    BY <1>8, <2>1, <2>2, TypesOfParts, <1>0 DEF TypeOK
<1>9. ASSUME NEW m \in Members, Commit(m)
      PROVE  LifeTypes'
  <2>1. \E e \in Errors : NextBatch(m, e)
    BY <1>9 DEF Commit, Errors
  <2>2. RoundTyped'
    BY <1>9, <2>1, NextBatchTypes DEF Commit
  <2>3. faults' \in 0..MaxFaults
    BY <1>9, <1>0 DEF Commit, TypeOK
  <2>4. /\ UNCHANGED committed \/ CommitResolved(m)
        /\ resolved' = resolved \/ resolved' = [resolved EXCEPT ![m] = {}]
        /\ UNCHANGED <<log, owner, current, position, retries, handled, early>>
        /\ pc[m] \in {"handle", "commit"}
    BY <1>9 DEF Commit
  <2> QED
    BY <2>2, <2>3, <2>4, <1>8
<1>10. ASSUME NEW m \in Members, NEW e \in Errors, Throw(m, e), pc[m] = "handle",
              UNCHANGED <<log, owner, current, position, retries, handled, early>>,
              faults' \in 0..MaxFaults
       PROVE  LifeTypes'
  <2>1. RoundTyped'
    BY <1>10, ThrowTypes
  <2>2. /\ UNCHANGED committed \/ CommitResolved(m)
        /\ resolved' = resolved \/ resolved' = [resolved EXCEPT ![m] = {}]
    BY <1>10 DEF Throw
  <2>3. pc[m] \in {"handle", "commit"}
    BY <1>10
  <2> QED
    BY <1>10, <2>1, <2>2, <2>3, <1>8
<1>11. ASSUME NEW m \in Members, BadEvent(m) \/ Heartbeat(m)
       PROVE  LifeTypes'
  <2>1. PICK e \in Errors : Throw(m, e)
    BY <1>11 DEF BadEvent, Heartbeat, Errors
  <2>2. faults' \in 0..MaxFaults
    BY <1>11, <1>0 DEF BadEvent, Heartbeat, TypeOK
  <2>3. /\ pc[m] = "handle"
        /\ UNCHANGED <<log, owner, current, position, retries, handled, early>>
    BY <1>11 DEF BadEvent, Heartbeat
  <2> QED
    BY <2>1, <2>2, <2>3, <1>10
<1>12. ASSUME NEW m \in Members, Fails(m)
       PROVE  LifeTypes'
  <2>1. faults' \in 0..MaxFaults
    BY <1>12, <1>0 DEF Fails, Fault, TypeOK
  <2>2. UNCHANGED <<log, owner, current, position, retries, handled, early>>
    BY <1>12 DEF Fails
  <2>3. "failed" \in Errors
    BY DEF Errors
  <2>4. CASE pc[m] = "handle" /\ Throw(m, "failed")
    BY <2>1, <2>2, <2>3, <2>4, <1>10
  <2>5. CASE pc[m] = "commit" /\ NextBatch(m, "failed") /\ UNCHANGED <<committed, resolved>>
    <3>1. RoundTyped'
      BY <2>2, <2>3, <2>5, NextBatchTypes
    <3>2. pc[m] \in {"handle", "commit"} /\ committed' = committed /\ resolved' = resolved
      BY <2>5
    <3> QED
      BY <2>1, <2>2, <3>1, <3>2, <1>8
  <2> QED
    BY <1>12, <2>4, <2>5 DEF Fails
<1>13. ASSUME NEW m \in Members, NextRound(m) \/ Rejoin(m)
       PROVE  LifeTypes'
  <2>0. error' \in [Members -> Errors]
    BY <1>13, <1>0 DEF NextRound, Rejoin, EndRound, TypeOK, Errors
  <2>1. error' \in [Members -> Errors] /\ retries' \in [Members -> 0..Retries]
    <3>1. \/ UNCHANGED retries
          \/ retries[m] < Retries /\ retries' = [retries EXCEPT ![m] = @ + 1]
      BY <1>13 DEF NextRound, Rejoin
    <3>2. retries \in [Members -> 0..Retries]
      BY <1>0 DEF TypeOK
    <3>3. retries[m] < Retries => retries[m] + 1 \in 0..Retries
      BY <3>2
    <3>4. retries' \in [Members -> 0..Retries]
      BY <3>1, <3>2, <3>3
    <3> QED
      BY <2>0, <3>4
  <2>2. /\ UNCHANGED <<log, group, position, resolved, round, handled, early, faults>>
        /\ Goto(m, "fetch") \/ Goto(m, "join")
    BY <1>13 DEF NextRound, Rejoin
  <2>3. RoundTyped'
    BY <2>1, <2>2, GotoTypes, <1>0 DEF TypeOK
  <2> QED
    BY <2>1, <2>2, <2>3, <1>3, TypesOfParts, <1>0 DEF TypeOK
<1>14. ASSUME NEW m \in Members, StartAnew(m) \/ Stop(m)
       PROVE  LifeTypes'
  <2>1. error' \in [Members -> Errors]
    BY <1>14, <1>0 DEF StartAnew, Stop, EndRound, TypeOK, Errors
  <2>2. /\ UNCHANGED <<log, committed, position, resolved, round, retries, handled, early, faults>>
        /\ Goto(m, "join") \/ Goto(m, "stopped")
    BY <1>14 DEF StartAnew, Stop
  <2>3. owner' \in [Partitions -> Members] /\ current' \in [Members -> BOOLEAN]
    BY <1>14, ReassignTypes DEF StartAnew, Stop, Running
  <2>4. RoundTyped'
    BY <2>1, <2>2, GotoTypes, <1>0 DEF TypeOK
  <2> QED
    BY <2>1, <2>2, <2>3, <2>4, <1>3, TypesOfParts, <1>0 DEF TypeOK
<1>15. CASE UNCHANGED vars
  BY <1>15, <1>0 DEF vars, LifeTypes, TypeOK, LogsBounded, RoundOK
<1> QED
  BY <1>1, <1>2, <1>4, <1>5, <1>6, <1>7, <1>9, <1>11, <1>12, <1>13, <1>14, <1>15
  DEF Next, Run

LEMMA LifeTypesHold == Spec => []LifeTypes
<1> USE LifeAssumption DEF LifeAssumption
<1>1. Init => LifeTypes
  <2> SUFFICES ASSUME Init
               PROVE  LifeTypes
    OBVIOUS
  <2>1. NoPosition \in Positions /\ DOMAIN NoPosition = {}
    <3>1. NoPosition \in [{} -> 0..MaxEvents] /\ {} \in SUBSET Partitions /\ DOMAIN NoPosition = {}
      BY DEF NoPosition
    <3> QED
      BY <3>1 DEF Positions
  <2>2. <<>> \in Seq({"good", "bad"}) /\ <<>> \in Seq(Batches) /\ Len(<<>>) = 0
    OBVIOUS
  <2>3. \A p \in Partitions : log[p] = <<>> /\ Len(log[p]) = 0
    BY <2>2 DEF Init
  <2>4. LogsBounded
    BY <2>3 DEF LogsBounded
  <2>5. TypeOK
    <3>1. \A p \in Partitions : committed[p] \in -1..Len(log[p])
      BY <2>3 DEF Init
    <3>2. log \in [Partitions -> Seq({"good", "bad"})] /\ round \in [Members -> Seq(Batches)]
      BY <2>2 DEF Init
    <3>3. \A m \in Members : resolved[m] = {} /\ DOMAIN position[m] = {} /\ pc[m] = "join"
      BY <2>1 DEF Init
    <3>4. position \in [Members -> Positions] /\ resolved \in [Members -> SUBSET Partitions]
      BY <2>1 DEF Init
    <3>5. /\ owner \in [Partitions -> Members] /\ current \in [Members -> BOOLEAN]
          /\ pc \in [Members -> {"join", "fetch", "handle", "commit", "end", "stopped"}]
          /\ error \in [Members -> Errors] /\ retries \in [Members -> 0..Retries]
          /\ handled = {} /\ early = {} /\ faults \in 0..MaxFaults
      BY DEF Init, Errors
    <3> QED
      BY <3>1, <3>2, <3>3, <3>4, <3>5 DEF TypeOK
  <2>6. \A m \in Members : RoundOK(m)
    BY DEF Init, RoundOK
  <2> QED
    BY <2>4, <2>5, <2>6 DEF LifeTypes
<1>2. LifeTypes /\ [Next]_vars => LifeTypes'
  BY LifeTypesStep
<1> QED
  BY <1>1, <1>2, PTL DEF Spec

\* The types of the group's life hold: a round's batches are of the member's own
\* partitions, and no log is longer than the events there are.
THEOREM LifeTypesCorrect == Spec => []TypeOK
<1>1. LifeTypes => TypeOK
  BY DEF LifeTypes
<1> QED
  BY <1>1, LifeTypesHold, PTL

----------------------------------------------------------------------------
(* Nothing is passed over.                                                 *)

\* What was stored, or came early, stays so.
LEMMA AccountedStays ==
  ASSUME handled \subseteq handled', early \subseteq early',
         NEW p, NEW n, Accounted(p, n)
  PROVE  Accounted(p, n)'
  BY DEF Accounted

\* A step that moves no position and commits what is resolved, or nothing.
LEMMA PassedByCommit ==
  ASSUME LifeInv, LifeTypes', UNCHANGED <<log, position, handled, early>>,
         UNCHANGED committed \/ \E m \in Members : CommitResolved(m)
  PROVE  LifeInv'
<1>1. ASSUME NEW p \in Partitions
      PROVE  /\ Accounted(p, committed[p])'
             /\ committed'[p] = -1 => committed[p] = -1
  <2>1. CASE committed'[p] = committed[p]
    <3>1. Accounted(p, committed[p])
      BY DEF LifeInv, NothingPassed
    <3> QED
      BY <2>1, <3>1 DEF Accounted
  <2>2. ASSUME NEW m \in Members, CommitResolved(m), p \in resolved[m]
        PROVE  Accounted(p, committed[p])' /\ committed'[p] # -1
    <3>1. committed'[p] = position[m][p] /\ committed'[p] # -1 /\ p \in DOMAIN position[m]
      BY <2>2, CommitTypes DEF LifeInv
    <3>2. Accounted(p, position[m][p])
      BY <3>1 DEF LifeInv, NothingPassed
    <3> QED
      BY <3>1, <3>2 DEF Accounted
  <2>3. ASSUME NEW m \in Members, CommitResolved(m), p \notin resolved[m]
        PROVE  committed'[p] = committed[p]
    BY <2>3 DEF CommitResolved
  <2> QED
    BY <2>1, <2>2, <2>3
<1>2. FirstCommit'
  BY <1>1 DEF LifeInv, FirstCommit
<1>3. NothingPassed'
  BY <1>1 DEF LifeInv, NothingPassed, Accounted
<1> QED
  BY <1>2, <1>3 DEF LifeInv

LEMMA LifeInvStep ==
  ASSUME LifeInv, LifeTypes', [Next]_vars
  PROVE  LifeInv'
<1> USE DEF group, member
<1>0. LifeTypes /\ TypeOK
  BY DEF LifeInv, LifeTypes
<1>1. ASSUME NEW p \in Partitions, NEW kind \in {"good", "bad"}, Produce(p, kind)
      PROVE  LifeInv'
  <2>1. /\ log' = [log EXCEPT ![p] = Append(log[p], kind)]
        /\ early' = IF committed[p] = -1 THEN early \cup {<<p, Len(log[p])>>} ELSE early
        /\ UNCHANGED <<group, member, handled, faults>>
    BY <1>1 DEF Produce
  <2>2. FirstCommit'
    <3> SUFFICES ASSUME NEW q \in Partitions, NEW i \in Nat, committed[q] = -1, i < Len(log'[q])
                 PROVE  <<q, i>> \in early'
      BY <2>1 DEF FirstCommit
    <3>1. CASE q = p
      <4>1. log[p] \in Seq({"good", "bad"}) /\ Len(log[p]) \in Nat
        BY <1>0 DEF TypeOK
      <4>2. Len(log'[p]) = Len(log[p]) + 1
        BY <2>1, <4>1, <1>0 DEF TypeOK
      <4>3. i < Len(log[p]) \/ i = Len(log[p])
        BY <3>1, <4>1, <4>2
      <4> QED
        BY <2>1, <3>1, <4>3 DEF LifeInv, FirstCommit
    <3>2. CASE q # p
      BY <2>1, <3>2, <1>0 DEF LifeInv, FirstCommit, TypeOK
    <3> QED
      BY <3>1, <3>2
  <2>3. NothingPassed'
    BY <2>1 DEF LifeInv, NothingPassed, Accounted
  <2> QED
    BY <2>2, <2>3 DEF LifeInv
<1>2. ASSUME NEW m \in Members, Join(m)
      PROVE  LifeInv'
  <2> DEFINE mine == {q \in Partitions : owner[q] = m}
  <2>1. /\ position' = [position EXCEPT ![m] = [p \in mine |-> StartAt(p)]]
        /\ UNCHANGED <<log, committed, handled, early>>
    BY <1>2 DEF Join
  <2>2. ASSUME NEW p \in Partitions
        PROVE  Accounted(p, StartAt(p))
    BY <1>0 DEF StartAt, LifeInv, NothingPassed, FirstCommit, Accounted, TypeOK
  <2>3. ASSUME NEW v \in Members, NEW p \in DOMAIN position'[v]
        PROVE  Accounted(p, position'[v][p])
    <3>1. CASE v = m
      <4>1. position'[v] = [q \in mine |-> StartAt(q)]
        BY <2>1, <3>1, <1>0 DEF TypeOK
      <4>2. p \in mine /\ position'[v][p] = StartAt(p)
        BY <4>1
      <4> QED
        BY <2>2, <4>2
    <3>2. CASE v # m
      <4>1. position'[v] = position[v]
        BY <2>1, <3>2, <1>0 DEF TypeOK
      <4> QED
        BY <4>1 DEF LifeInv, NothingPassed
    <3> QED
      BY <3>1, <3>2
  <2>4. NothingPassed'
    BY <2>1, <2>3 DEF LifeInv, NothingPassed, Accounted
  <2> QED
    BY <2>1, <2>4 DEF LifeInv, FirstCommit
<1>3. ASSUME NEW m \in Members, Crash(m)
      PROVE  LifeInv'
  <2>1. /\ position' = [position EXCEPT ![m] = NoPosition]
        /\ UNCHANGED <<log, committed, handled, early>>
    BY <1>3 DEF Crash
  <2>2. \A v \in Members : v # m => position'[v] = position[v]
    BY <2>1, <1>0 DEF TypeOK
  <2>3. DOMAIN position'[m] = {}
    BY <2>1, <1>0 DEF TypeOK, NoPosition
  <2>4. NothingPassed'
    BY <2>1, <2>2, <2>3 DEF LifeInv, NothingPassed, Accounted
  <2> QED
    BY <2>1, <2>4 DEF LifeInv, FirstCommit
<1>4. ASSUME NEW m \in Members, Handle(m)
      PROVE  LifeInv'
  <2> DEFINE p == Batch(m).partition
             to == Batch(m).to
  <2>1. /\ position' = [position EXCEPT ![m][p] = to]
        /\ handled' = handled \cup {<<p, o>> : o \in Offsets(m)}
        /\ UNCHANGED <<log, committed, early>>
    BY <1>4 DEF Handle
  <2>2. to \in Nat /\ Offsets(m) = position[m][p]..(to - 1)
    <3>1. round[m] \in Seq(Batches) /\ round[m] # <<>>
      BY <1>4, <1>0 DEF Handle, TypeOK
    <3>2. Batch(m) \in Batches
      BY <3>1 DEF Batch
    <3> QED
      BY <3>2 DEF Batches, Offsets
  <2> HIDE DEF p, to
  <2>3. /\ DOMAIN position'[m] = DOMAIN position[m]
        /\ \A q \in DOMAIN position[m] :
             position'[m][q] = IF q = p THEN to ELSE position[m][q]
        /\ \A v \in Members : v # m => position'[v] = position[v]
    <3>1. position' = [position EXCEPT ![m] = [position[m] EXCEPT ![p] = to]]
      BY <2>1
    <3>2. /\ position'[m] = [position[m] EXCEPT ![p] = to]
          /\ \A v \in Members : v # m => position'[v] = position[v]
      BY <3>1, <1>0 DEF TypeOK
    <3>3. position[m] \in [DOMAIN position[m] -> 0..MaxEvents]
      BY PositionTypes, <1>0 DEF TypeOK
    <3> QED
      BY <3>2, <3>3
  <2>4. \A c, n : Accounted(c, n) => \A i \in Nat : i < n => <<c, i>> \in handled' \cup early'
    BY <2>1 DEF Accounted
  <2>5. ASSUME p \in DOMAIN position[m], NEW i \in Nat, i < to
        PROVE  <<p, i>> \in handled' \cup early'
    <3>1. position[m][p] \in Nat
      BY <2>5, PositionTypes, <1>0 DEF TypeOK
    <3>2. CASE i < position[m][p]
      BY <2>4, <2>5, <3>2 DEF LifeInv, NothingPassed
    <3>3. CASE ~ (i < position[m][p])
      <4>1. i \in Offsets(m)
        BY <2>2, <2>5, <3>1, <3>3
      <4> QED
        BY <2>1, <4>1
    <3> QED
      BY <3>2, <3>3
  <2>6. ASSUME NEW v \in Members, NEW q \in DOMAIN position'[v]
        PROVE  \A i \in Nat : i < position'[v][q] => <<q, i>> \in handled' \cup early'
    <3>1. CASE v = m /\ q = p
      BY <2>3, <2>5, <3>1
    <3>2. CASE ~ (v = m /\ q = p)
      <4>1. position'[v][q] = position[v][q] /\ q \in DOMAIN position[v]
        BY <2>3, <3>2
      <4> QED
        BY <2>4, <4>1 DEF LifeInv, NothingPassed
    <3> QED
      BY <3>1, <3>2
  <2>7. NothingPassed'
    BY <2>1, <2>4, <2>6 DEF LifeInv, NothingPassed, Accounted
  <2> QED
    BY <2>1, <2>7 DEF LifeInv, FirstCommit
<1>5. ASSUME NEW m \in Members,
             Commit(m) \/ BadEvent(m) \/ Heartbeat(m) \/ Fails(m)
      PROVE  LifeInv'
  <2>1. /\ UNCHANGED <<log, position, handled, early>>
        /\ UNCHANGED committed \/ CommitResolved(m)
    BY <1>5 DEF Commit, BadEvent, Heartbeat, Fails, Throw
  <2> QED
    BY <2>1, PassedByCommit
<1>6. ASSUME NEW m \in Members,
             Fetch(m) \/ NextRound(m) \/ Rejoin(m) \/ StartAnew(m) \/ Stop(m)
      PROVE  LifeInv'
  <2>1. UNCHANGED <<log, position, handled, early, committed>>
    BY <1>6 DEF Fetch, NextRound, Rejoin, StartAnew, Stop
  <2> QED
    BY <2>1, PassedByCommit
<1>7. CASE Rebalance
  <2>1. UNCHANGED <<log, position, handled, early, committed>>
    BY <1>7 DEF Rebalance
  <2> QED
    BY <2>1, PassedByCommit
<1>8. CASE UNCHANGED vars
  <2>1. UNCHANGED <<log, position, handled, early, committed>>
    BY <1>8 DEF vars
  <2> QED
    BY <2>1, PassedByCommit
<1> QED
  BY <1>1, <1>2, <1>3, <1>4, <1>5, <1>6, <1>7, <1>8
  DEF Next, Run

\* The group passes over an event only if it came before the first commit of its
\* partition, for any members, partitions, retries and bounds: neither a commit nor
\* the position of any member, of an older generation too, is ever ahead of an
\* event that is neither stored nor early.
THEOREM NothingElseSkipped == Spec => []SkippedExplained
<1>1. Init /\ LifeTypes => LifeInv
  <2> SUFFICES ASSUME Init, LifeTypes
               PROVE  LifeInv
    OBVIOUS
  <2>1. \A p \in Partitions : committed[p] \in {-1, 0} /\ Len(log[p]) = 0
    BY DEF Init
  <2>2. \A m \in Members : DOMAIN position[m] = {}
    BY DEF Init, NoPosition
  <2>3. FirstCommit
    BY <2>1 DEF FirstCommit
  <2>4. NothingPassed
    BY <2>1, <2>2 DEF NothingPassed, Accounted
  <2> QED
    BY <2>3, <2>4 DEF LifeInv
<1>2. LifeInv /\ LifeTypes' /\ [Next]_vars => LifeInv'
  BY LifeInvStep
<1>3. LifeInv => SkippedExplained
  <2> SUFFICES ASSUME LifeInv, NEW e \in Events, Passed(e[1], e[2])
               PROVE  e \in handled \cup early
    BY DEF SkippedExplained
  <2>1. e[1] \in Partitions /\ e[2] \in Nat /\ e = <<e[1], e[2]>>
    BY LifeAssumption DEF Events, LifeAssumption
  <2>2. Accounted(e[1], committed[e[1]])
    BY <2>1 DEF LifeInv, NothingPassed
  <2> QED
    BY <2>1, <2>2 DEF Accounted, Passed
<1> QED
  BY <1>1, <1>2, <1>3, LifeTypesHold, PTL DEF Spec
=============================================================================
