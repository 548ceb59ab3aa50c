--------------------------- MODULE IndexerProofs ---------------------------
(***************************************************************************)
(* Proofs about the indexing stage, for any group, topic, group size and   *)
(* number of faults.                                                       *)
(***************************************************************************)
EXTENDS Indexer, FiniteSetTheorems, TLAPS

\* What the commits rest on: whatever a member may commit, or has read as committed, is in
\* the collection, and so are the rows its batch has behind it.
Stored(p, n) == RowsUpTo(p, n) \subseteq indexed

MemberStored(m) ==
  /\ \A p \in DOMAIN resolved[m] : Stored(p, resolved[m][p])
  /\ \A p \in DOMAIN known[m] : Stored(p, known[m][p])
  /\ InBatch(m) => Stored(batch[m].partition, position[m])
  /\ pc[m] = "resolve" => \A i \in Group(m) : <<batch[m].partition, i>> \in indexed
  /\ pc[m] = "end" => Stored(batch[m].partition, batch[m].to)

StoredInv == CommittedIsIndexed /\ \A m \in Members : MemberStored(m)

\* The partitions whose resolved offset is of the generation the member is in.
Straight(m) == DOMAIN resolved[m] \ strays[m]

\* What a member has resolved is its own, or an offset of an earlier generation.
Placed(m) ==
  /\ Current(m) => assigned[m] = {p \in Partitions : owner[p] = m}
  /\ Straight(m) \subseteq assigned[m]
  /\ InBatch(m) /\ batch[m].generation = joined[m] =>
       /\ batch[m].partition \in assigned[m]
       /\ batch[m].partition \in DOMAIN resolved[m]
       /\ pc[m] # "commit" /\ batch[m].partition \in Straight(m) =>
            resolved[m][batch[m].partition] <= position[m]

\* A current member knows what is committed of its partitions, and is ahead of it.
Ahead(m) ==
  Current(m) =>
    \A p \in assigned[m] \ strayed :
      /\ p \in DOMAIN known[m] => known[m][p] = committed[p]
      /\ p \in Straight(m) => committed[p] <= resolved[m][p]

StraysInv == \A m \in Members : Placed(m) /\ Ahead(m)

LEMMA TextLength == \A p \in Partitions : Len(Text[p]) \in Nat
  BY TextAssumption DEF TextAssumption

LEMMA TypeInit == Init => TypeOK
  BY TextLength, NoneAssumption, BoundsAssumption DEF Init, TypeOK, MemberOK, InBatch,
     NoneAssumption, BoundsAssumption, EmptyMap, NoBatch

\* A map with an entry put into it.
LEMMA PutDomain == \A f, x, v : DOMAIN Put(f, x, v) = DOMAIN f \cup {x}
  BY DEF Put

LEMMA PutNew == \A f, x, v : Put(f, x, v)[x] = v
  BY DEF Put

LEMMA PutOld == \A f, x, v : \A y \in DOMAIN f \ {x} : Put(f, x, v)[y] = f[y]
  BY DEF Put

LEMMA PutTypes ==
  ASSUME NEW f, DOMAIN f \subseteq Partitions,
         \A q \in DOMAIN f : f[q] \in 0..Len(Text[q]),
         NEW x \in Partitions, NEW v \in 0..Len(Text[x])
  PROVE  /\ DOMAIN Put(f, x, v) \subseteq Partitions
         /\ \A q \in DOMAIN Put(f, x, v) : Put(f, x, v)[q] \in 0..Len(Text[q])
<1> DEFINE g == Put(f, x, v)
<1>1. DOMAIN g = DOMAIN f \cup {x}
  BY PutDomain
<1>2. g[x] = v
  BY PutNew
<1>3. \A y \in DOMAIN f \ {x} : g[y] = f[y]
  BY PutOld
<1> HIDE DEF g
<1>4. DOMAIN g \subseteq Partitions /\ \A q \in DOMAIN g : g[q] \in 0..Len(Text[q])
  BY <1>1, <1>2, <1>3
<1> QED
  BY <1>4 DEF g

LEMMA LeastIndex ==
  ASSUME NEW S \in SUBSET Nat, S # {}
  PROVE  \E x \in S : \A y \in S : x <= y
<1> DEFINE Less == OpToRel(<, Nat)
<1>1. IsWellFoundedOn(Less, Nat)
  BY NatLessThanWellFounded, Zenon
<1>2. \A x, y \in Nat : x < y => <<x, y>> \in Less
  BY Zenon DEF OpToRel
<1> HIDE DEF Less
<1>3. PICK x \in S : \A y \in S : ~ (<<y, x>> \in Less)
  BY <1>1, WFMin, Zenon
<1>4. \A y \in S : ~ (y < x)
  BY <1>2, <1>3
<1> QED
  BY <1>4

\* A set of indexes that is not empty has a greatest one.
LEMMA GreatestIndex ==
  ASSUME NEW n \in Nat, NEW S \in SUBSET (0..n), S # {}
  PROVE  LastOf(S) \in S /\ \A j \in S : j <= LastOf(S)
<1> DEFINE T == {n - x : x \in S}
<1>2. \A x \in S : n - x \in Nat
  OBVIOUS
<1>3. T \in SUBSET Nat /\ T # {}
  BY <1>2
<1>5. PICK t \in T : \A u \in T : t <= u
  BY <1>3, LeastIndex
<1>6. PICK x \in S : t = n - x
  BY DEF T
<1>7. \A y \in S : y <= x
  <2> TAKE y \in S
  <2>1. n - y \in T
    OBVIOUS
  <2>2. t <= n - y
    BY <1>5, <2>1
  <2> HIDE DEF T
  <2> QED
    BY <1>6, <2>2
<1>8. \E i \in S : \A j \in S : j <= i
  BY <1>6, <1>7
<1> HIDE DEF T
<1> QED
  BY <1>8, Zenon DEF LastOf

LEMMA RowsIn ==
  ASSUME TypeOK, NEW m \in Members, InBatch(m)
  PROVE  /\ batch[m].partition \in Partitions
         /\ batch[m].to \in Nat /\ batch[m].to <= Len(Text[batch[m].partition])
         /\ position[m] \in Nat /\ position[m] <= batch[m].to
         /\ Rows(m) \subseteq (position[m] + 1)..batch[m].to
<1> DEFINE p == batch[m].partition
<1>1. /\ p \in Partitions /\ batch[m].from \in Nat
      /\ batch[m].to \in 0..Len(Text[p]) /\ position[m] \in batch[m].from..batch[m].to
  BY DEF TypeOK, MemberOK
<1>2. Len(Text[p]) \in Nat
  BY <1>1, TextLength
<1> QED
  BY <1>1, <1>2 DEF Rows

\* A group is a beginning of the rows left, and a whole one if it is not full.
LEMMA GroupFacts ==
  ASSUME TypeOK, NEW m \in Members, InBatch(m)
  PROVE  /\ Group(m) = {} => Rows(m) = {}
         /\ Group(m) # {} =>
              /\ LastOf(Group(m)) \in Group(m)
              /\ LastOf(Group(m)) \in (position[m] + 1)..batch[m].to
              /\ \A j \in Rows(m) : j <= LastOf(Group(m)) => j \in Group(m)
<1> DEFINE p == batch[m].partition
           upTo(i) == {j \in Rows(m) : j <= i}
<1>1. /\ position[m] \in Nat /\ batch[m].to \in Nat
      /\ Rows(m) \subseteq (position[m] + 1)..batch[m].to
  BY RowsIn
<1>2. \A i : IsFiniteSet(upTo(i))
  <2> SUFFICES ASSUME NEW i PROVE IsFiniteSet(upTo(i))
    OBVIOUS
  <2>1. upTo(i) \in SUBSET Nat /\ \A s \in upTo(i) : s <= batch[m].to
    BY <1>1
  <2> QED
    BY <1>1, <2>1, FS_BoundedSetOfNaturals
<1>3. GroupSize \in Nat /\ GroupSize >= 1
  BY BoundsAssumption DEF BoundsAssumption
<1>4. Rows(m) # {} => Group(m) # {}
  <2> SUFFICES ASSUME Rows(m) # {} PROVE Group(m) # {}
    OBVIOUS
  <2>1. PICK i \in Rows(m) : \A j \in Rows(m) : i <= j
    BY <1>1, LeastIndex
  <2>2. upTo(i) = {i}
    BY <1>1, <2>1
  <2>3. Cardinality(upTo(i)) <= GroupSize
    BY <1>3, <2>2, FS_Singleton
  <2> QED
    BY <2>1, <2>3 DEF Group
<1>5. ASSUME Group(m) # {}
      PROVE  /\ LastOf(Group(m)) \in Group(m)
             /\ LastOf(Group(m)) \in (position[m] + 1)..batch[m].to
  <2>1. Group(m) \in SUBSET (0..batch[m].to)
    BY <1>1 DEF Group
  <2> QED
    BY <1>1, <1>5, <2>1, GreatestIndex DEF Group
<1>6. ASSUME Group(m) # {}, NEW j \in Rows(m), j <= LastOf(Group(m))
      PROVE  j \in Group(m)
  <2> DEFINE last == LastOf(Group(m))
  <2>1. last \in Rows(m) /\ Cardinality(upTo(last)) <= GroupSize
    BY <1>5, <1>6 DEF Group
  <2>2. upTo(j) \in SUBSET upTo(last)
    BY <1>1, <1>6, <2>1
  <2>3. Cardinality(upTo(j)) <= Cardinality(upTo(last))
    BY <1>2, <2>2, FS_Subset
  <2>4. Cardinality(upTo(j)) \in Nat /\ Cardinality(upTo(last)) \in Nat
    BY <1>2, FS_CardinalityType
  <2> QED
    BY <1>3, <2>1, <2>3, <2>4 DEF Group
<1> QED
  BY <1>4, <1>5, <1>6

\* What a member has, and a step of another member leaves alone.
Kept(k) ==
  /\ joined'[k] = joined[k] /\ assigned'[k] = assigned[k]
  /\ resolved'[k] = resolved[k] /\ known'[k] = known[k] /\ strays'[k] = strays[k]
  /\ pc'[k] = pc[k] /\ batch'[k] = batch[k] /\ position'[k] = position[k]

LEMMA OthersKept ==
  ASSUME TypeOK, NEW m \in Members, Handle(m) \/ BatchFails(m) \/ Crash(m) \/ Restart(m)
  PROVE  \A k \in Members \ {m} : Kept(k)
<1> SUFFICES ASSUME NEW k \in Members \ {m} PROVE Kept(k)
  OBVIOUS
<1>1. CASE Join(m) \/ RejoinInBatch(m) \/ Crash(m) \/ Restart(m)
  BY <1>1 DEF TypeOK, Kept, Join, RejoinInBatch, Crash, Restart, StartAnew, JoinGroup,
     EndBatch, Goto
<1>2. CASE Fetch(m) \/ UpsertGroup(m) \/ HeartbeatPasses(m) \/ GroupsDone(m)
  BY <1>2 DEF TypeOK, Kept, Fetch, UpsertGroup, HeartbeatPasses, GroupsDone, Goto,
     offsets
<1>3. CASE ResolveGroup(m) \/ AutoResolve(m)
  BY <1>3 DEF TypeOK, Kept, ResolveGroup, AutoResolve, ResolveOffset, Goto
<1>4. CASE ResolveThrows(m) \/ Rejoin(m)
  BY <1>4 DEF TypeOK, Kept, ResolveThrows, Rejoin, Stop, EndBatch, offsets
<1>5. CASE CommitGroup(m) \/ Commit(m) \/ BatchFails(m) \/ NullText(m)
  BY <1>5 DEF TypeOK, Kept, CommitGroup, Commit, BatchFails, NullText, CommitOffsets,
     SendOffsets, Stop, EndBatch, Goto
<1> QED
  BY <1>1, <1>2, <1>3, <1>4, <1>5 DEF Handle

LEMMA KeptOK ==
  ASSUME TypeOK, generation' = generation \/ generation' = generation + 1,
         NEW k \in Members, Kept(k)
  PROVE  MemberOK(k)'
  BY SMTT(30) DEF TypeOK, MemberOK, Kept, InBatch

LEMMA SendTypes ==
  ASSUME TypeOK, NEW m \in Members, SendOffsets(m)
  PROVE  /\ committed' \in [Partitions -> Nat]
         /\ \A p \in Partitions : committed'[p] <= Len(Text[p])
         /\ DOMAIN known' = Members
         /\ \A k \in Members \ {m} : known'[k] = known[k]
         /\ DOMAIN known'[m] \subseteq Partitions
         /\ \A p \in DOMAIN known'[m] : known'[m][p] \in 0..Len(Text[p])
         /\ strayed' \subseteq Partitions
<1>1. /\ MemberOK(m) /\ m \in DOMAIN known /\ strayed \subseteq Partitions
      /\ committed \in [Partitions -> Nat]
      /\ \A p \in Partitions : committed[p] <= Len(Text[p])
  BY DEF TypeOK
<1>2. Uncommitted(m) \subseteq DOMAIN resolved[m] /\ DOMAIN resolved[m] \subseteq Partitions
  BY <1>1 DEF Uncommitted, MemberOK
<1>3. \A p \in Uncommitted(m) : resolved[m][p] \in 0..Len(Text[p])
  BY <1>1, <1>2 DEF MemberOK
<1>4. \A p \in Partitions :
        /\ committed'[p] = IF p \in Uncommitted(m) THEN resolved[m][p] ELSE committed[p]
        /\ committed'[p] \in Nat /\ committed'[p] <= Len(Text[p])
  BY <1>1, <1>2, <1>3, TextLength DEF SendOffsets
<1>5. committed' \in [Partitions -> Nat]
  BY <1>4 DEF SendOffsets
<1>6. known'[m] = [p \in DOMAIN known[m] \cup Uncommitted(m) |->
                    IF p \in Uncommitted(m) THEN resolved[m][p] ELSE known[m][p]]
  BY <1>1 DEF SendOffsets
<1>7. DOMAIN known' = Members /\ \A k \in Members \ {m} : known'[k] = known[k]
  BY DEF SendOffsets, TypeOK
<1>8. /\ DOMAIN known'[m] \subseteq Partitions
      /\ \A p \in DOMAIN known'[m] : known'[m][p] \in 0..Len(Text[p])
  BY <1>1, <1>2, <1>3, <1>6 DEF MemberOK
<1>9. strayed' \subseteq Partitions
  BY <1>1, <1>2 DEF SendOffsets
<1> QED
  BY <1>4, <1>5, <1>7, <1>8, <1>9

LEMMA TypeProduce == ASSUME TypeOK, NEW p \in Partitions, Produce(p) PROVE TypeOK'
<1>1. \A k \in Members : Kept(k)
  BY DEF Produce, Kept, offsets
<1>2. \A k \in Members : MemberOK(k)'
  BY <1>1, KeptOK DEF Produce
<1>3. /\ produced' \in [Partitions -> Nat]
      /\ \A q \in Partitions : produced'[q] <= Len(Text[q])
  BY TextLength DEF TypeOK, Produce
<1> HIDE DEF MemberOK
<1> QED
  BY <1>2, <1>3 DEF TypeOK, Produce, offsets

\* The coordinator gives every partition to a member.
LEMMA ReassignTypes ==
  ASSUME TypeOK, NEW running \in SUBSET Members, Reassign(running)
  PROVE  /\ generation' \in Nat \ {0} /\ generation' = generation + 1
         /\ owner' \in [Partitions -> Members]
<1>1. CASE running = {}
  BY <1>1 DEF TypeOK, Reassign
<1>2. CASE running # {}
  BY <1>2 DEF TypeOK, Reassign
<1> QED
  BY <1>1, <1>2

LEMMA TypeCrash ==
  ASSUME TypeOK, NEW m \in Members, Crash(m) \/ Restart(m)
  PROVE  TypeOK'
<1>1. /\ StartAnew(m) /\ UNCHANGED <<produced, committed, strayed, indexed>>
      /\ faults < MaxFaults /\ faults' = faults + 1
  BY DEF Crash, Restart, group
<1>2. /\ generation' \in Nat \ {0}
      /\ generation' = generation \/ generation' = generation + 1
      /\ owner' \in [Partitions -> Members]
  <2>1. CASE Crash(m)
    BY <2>1 DEF Crash, group, TypeOK
  <2>2. CASE Restart(m)
    BY <2>2, ReassignTypes DEF Restart, Running
  <2> QED
    BY <2>1, <2>2
<1>3. \A k \in Members \ {m} : Kept(k)
  BY <1>1 DEF TypeOK, Kept, StartAnew, EndBatch
<1>4. \A k \in Members \ {m} : MemberOK(k)'
  BY <1>2, <1>3, KeptOK
<1>5. MemberOK(m)'
  BY <1>1, <1>2, TextLength DEF TypeOK, MemberOK, StartAnew, InBatch, EndBatch, EmptyMap
<1>6. \A k \in Members : MemberOK(k)'
  BY <1>4, <1>5
<1> HIDE DEF MemberOK
<1> QED
  BY <1>1, <1>2, <1>6, BoundsAssumption DEF BoundsAssumption, TypeOK, StartAnew, EndBatch

LEMMA TypeUpsertGroup == ASSUME TypeOK, NEW m \in Members, UpsertGroup(m) PROVE TypeOK'
<1>0. Group(m) \subseteq 1..Len(Text[batch[m].partition]) /\ batch[m].partition \in Partitions
  <2>1. InBatch(m)
    BY DEF UpsertGroup, Goto, InBatch
  <2>2. Len(Text[batch[m].partition]) \in Nat
    BY <2>1, RowsIn, TextLength
  <2>3. Group(m) \subseteq Rows(m)
    BY DEF Group
  <2> QED
    BY <2>1, <2>2, <2>3, RowsIn
<1>5. \A r \in indexed' : r[1] \in Partitions /\ r[2] \in 1..Len(Text[r[1]])
  <2> TAKE r \in indexed'
  <2>1. r \in indexed \/ \E i \in Group(m) : r = <<batch[m].partition, i>>
    BY DEF UpsertGroup
  <2>2. CASE r \in indexed
    BY <2>2 DEF TypeOK
  <2> QED
    BY <1>0, <2>1, <2>2
<1>1. /\ generation' = generation /\ owner' = owner
      /\ \A k \in Members \ {m} : Kept(k)
  BY <1>0 DEF TypeOK, UpsertGroup, Kept, Goto, group, offsets, Group
<1>2. \A k \in Members \ {m} : MemberOK(k)'
  BY <1>1, KeptOK
<1>3. MemberOK(m)'
  BY TextLength DEF TypeOK, MemberOK, UpsertGroup, Goto, InBatch, NoBatch, group,
     offsets, Group
<1>4. \A k \in Members : MemberOK(k)'
  BY <1>2, <1>3
<1> HIDE DEF MemberOK
<1> QED
  BY <1>1, <1>4, <1>5 DEF TypeOK, UpsertGroup, Goto, group, offsets

LEMMA TypeResolveGroup ==
  ASSUME TypeOK, NEW m \in Members, Group(m) # {}, ResolveGroup(m)
  PROVE  TypeOK'
<1>0. InBatch(m) /\ LastOf(Group(m)) \in (position[m] + 1)..batch[m].to
  <2>1. InBatch(m)
    BY DEF ResolveGroup, Goto, InBatch
  <2> QED
    BY <2>1, GroupFacts
<1>1. /\ generation' = generation /\ owner' = owner /\ InBatch(m)
      /\ \A k \in Members \ {m} : Kept(k)
  BY DEF TypeOK, ResolveGroup, ResolveOffset, Kept, Goto, group, InBatch
<1>2. \A k \in Members \ {m} : MemberOK(k)'
  BY <1>1, KeptOK
<1>3. MemberOK(m)'
  <2> DEFINE p == batch[m].partition
  <2>1. /\ joined'[m] = joined[m] /\ batch'[m] = batch[m] /\ known'[m] = known[m]
        /\ strays'[m] \subseteq strays[m] \cup {p}
        /\ resolved'[m] = Put(resolved[m], p, LastOf(Group(m)))
        /\ position'[m] \in {position[m], LastOf(Group(m))}
    BY DEF TypeOK, ResolveGroup, ResolveOffset
  <2>2. /\ p \in Partitions /\ LastOf(Group(m)) \in 0..Len(Text[p])
        /\ LastOf(Group(m)) \in position[m]..batch[m].to
    BY <1>0, RowsIn, TextLength
  <2>3. /\ DOMAIN resolved'[m] = DOMAIN resolved[m] \cup {p}
        /\ \A q \in DOMAIN resolved'[m] : resolved'[m][q] \in 0..Len(Text[q])
    <3>1. /\ DOMAIN resolved[m] \subseteq Partitions
          /\ \A q \in DOMAIN resolved[m] : resolved[m][q] \in 0..Len(Text[q])
      BY DEF TypeOK, MemberOK
    <3>2. /\ DOMAIN Put(resolved[m], p, LastOf(Group(m))) \subseteq Partitions
          /\ \A q \in DOMAIN Put(resolved[m], p, LastOf(Group(m))) :
               Put(resolved[m], p, LastOf(Group(m)))[q] \in 0..Len(Text[q])
      BY <2>2, <3>1, PutTypes
    <3>3. DOMAIN Put(resolved[m], p, LastOf(Group(m))) = DOMAIN resolved[m] \cup {p}
      BY PutDomain
    <3> QED
      BY <2>1, <3>2, <3>3
  <2>4. /\ MemberOK(m) /\ batch[m].from \in Nat /\ position[m] \in batch[m].from..batch[m].to
        /\ batch[m].to \in 0..Len(Text[p])
    BY <1>1 DEF TypeOK, MemberOK
  <2>5. position'[m] \in batch[m].from..batch[m].to
    BY <2>1, <2>2, <2>4
  <2> QED
    BY <1>1, <2>1, <2>2, <2>3, <2>4, <2>5 DEF MemberOK
<1>4. \A k \in Members : MemberOK(k)'
  BY <1>2, <1>3
<1> HIDE DEF MemberOK
<1> QED
  BY <1>1, <1>4 DEF TypeOK, ResolveGroup, ResolveOffset, Goto, group

LEMMA TypeAutoResolve == ASSUME TypeOK, NEW m \in Members, AutoResolve(m) PROVE TypeOK'
<1>0. InBatch(m)
  BY DEF AutoResolve, Goto, InBatch
<1>1. /\ generation' = generation /\ owner' = owner /\ InBatch(m)
      /\ \A k \in Members \ {m} : Kept(k)
  BY DEF TypeOK, AutoResolve, ResolveOffset, Kept, Goto, group, InBatch
<1>2. \A k \in Members \ {m} : MemberOK(k)'
  BY <1>1, KeptOK
<1>3. MemberOK(m)'
  <2> DEFINE p == batch[m].partition
  <2>1. /\ joined'[m] = joined[m] /\ batch'[m] = batch[m] /\ known'[m] = known[m]
        /\ strays'[m] \subseteq strays[m] \cup {p}
        /\ resolved'[m] = Put(resolved[m], p, batch[m].to)
        /\ position'[m] \in {position[m], batch[m].to}
    BY DEF TypeOK, AutoResolve, ResolveOffset
  <2>2. /\ p \in Partitions /\ batch[m].to \in 0..Len(Text[p])
        /\ batch[m].to \in position[m]..batch[m].to
    BY <1>0, RowsIn, TextLength
  <2>3. /\ DOMAIN resolved'[m] = DOMAIN resolved[m] \cup {p}
        /\ \A q \in DOMAIN resolved'[m] : resolved'[m][q] \in 0..Len(Text[q])
    <3>1. /\ DOMAIN resolved[m] \subseteq Partitions
          /\ \A q \in DOMAIN resolved[m] : resolved[m][q] \in 0..Len(Text[q])
      BY DEF TypeOK, MemberOK
    <3>2. /\ DOMAIN Put(resolved[m], p, batch[m].to) \subseteq Partitions
          /\ \A q \in DOMAIN Put(resolved[m], p, batch[m].to) :
               Put(resolved[m], p, batch[m].to)[q] \in 0..Len(Text[q])
      BY <2>2, <3>1, PutTypes
    <3>3. DOMAIN Put(resolved[m], p, batch[m].to) = DOMAIN resolved[m] \cup {p}
      BY PutDomain
    <3> QED
      BY <2>1, <3>2, <3>3
  <2>4. /\ MemberOK(m) /\ batch[m].from \in Nat /\ position[m] \in batch[m].from..batch[m].to
        /\ batch[m].to \in 0..Len(Text[p])
    BY <1>1 DEF TypeOK, MemberOK
  <2>5. position'[m] \in batch[m].from..batch[m].to
    BY <2>1, <2>2, <2>4
  <2> QED
    BY <1>1, <2>1, <2>2, <2>3, <2>4, <2>5 DEF MemberOK
<1>4. \A k \in Members : MemberOK(k)'
  BY <1>2, <1>3
<1> HIDE DEF MemberOK
<1> QED
  BY <1>1, <1>4 DEF TypeOK, AutoResolve, ResolveOffset, Goto, group

LEMMA TypeCommitGroup == ASSUME TypeOK, NEW m \in Members, CommitGroup(m) PROVE TypeOK'
<1>1. /\ generation' = generation /\ owner' = owner
      /\ \A k \in Members \ {m} : Kept(k)
  BY SendTypes DEF TypeOK, CommitGroup, Kept, Goto, group, offsets, EndBatch,
     CommitOffsets
<1>2. \A k \in Members \ {m} : MemberOK(k)'
  BY <1>1, KeptOK
<1>3. MemberOK(m)'
  BY TextLength, SendTypes DEF TypeOK, MemberOK, CommitGroup, Goto, InBatch, NoBatch,
     group, offsets, EndBatch, CommitOffsets
<1>4. \A k \in Members : MemberOK(k)'
  BY <1>2, <1>3
<1> HIDE DEF MemberOK
<1> QED
  BY <1>1, <1>4, SendTypes DEF TypeOK, CommitGroup, Goto, group, offsets, EndBatch,
     CommitOffsets

LEMMA TypeBatchFails == ASSUME TypeOK, NEW m \in Members, BatchFails(m) PROVE TypeOK'
<1>1. /\ generation' = generation /\ owner' = owner
      /\ \A k \in Members \ {m} : Kept(k)
  BY SendTypes DEF TypeOK, BatchFails, Kept, Goto, group, offsets, EndBatch,
     CommitOffsets
<1>2. \A k \in Members \ {m} : MemberOK(k)'
  BY <1>1, KeptOK
<1>3. MemberOK(m)'
  BY TextLength, SendTypes DEF TypeOK, MemberOK, BatchFails, Goto, InBatch, NoBatch,
     group, offsets, EndBatch, CommitOffsets
<1>4. \A k \in Members : MemberOK(k)'
  BY <1>2, <1>3
<1> HIDE DEF MemberOK
<1> QED
  BY <1>1, <1>4, SendTypes, BoundsAssumption DEF BoundsAssumption, TypeOK, BatchFails,
     Goto, group, offsets, EndBatch, CommitOffsets

LEMMA FetchTypes ==
  ASSUME TypeOK, NEW m \in Members
  PROVE  /\ assigned[m] \subseteq Partitions
         /\ DOMAIN Known(m) = DOMAIN known[m] \cup assigned[m]
         /\ \A p \in DOMAIN Known(m) : Known(m)[p] \in 0..Len(Text[p])
         /\ \A p \in assigned[m] : NextOffset(m, p) \in 0..Len(Text[p])
<1>1. assigned[m] \subseteq Partitions /\ MemberOK(m)
  BY DEF TypeOK
<1>2. \A p \in Partitions : committed[p] \in 0..Len(Text[p])
  BY TextLength DEF TypeOK
<1>3. DOMAIN Known(m) = DOMAIN known[m] \cup assigned[m]
  BY DEF Known
<1>4. \A p \in DOMAIN Known(m) : Known(m)[p] \in 0..Len(Text[p])
  BY <1>1, <1>2, <1>3 DEF Known, MemberOK
<1>5. \A p \in assigned[m] : NextOffset(m, p) \in 0..Len(Text[p])
  BY <1>1, <1>3, <1>4 DEF NextOffset, MemberOK
<1> QED
  BY <1>1, <1>3, <1>4, <1>5

LEMMA TypeFetch == ASSUME TypeOK, NEW m \in Members, Fetch(m) PROVE TypeOK'
<1>1. /\ generation' = generation /\ owner' = owner
      /\ \A k \in Members \ {m} : Kept(k)
  BY DEF TypeOK, Fetch, Kept, Goto, group
<1>2. \A k \in Members \ {m} : MemberOK(k)'
  BY <1>1, KeptOK
<1>3. MemberOK(m)'
  <2>0. PICK p \in assigned[m] : \E to \in (NextOffset(m, p) + 1)..produced[p] :
          /\ batch'[m] = [partition |-> p, from |-> NextOffset(m, p), to |-> to,
                          generation |-> joined[m]]
          /\ position'[m] = NextOffset(m, p)
          /\ resolved'[m] = Put(resolved[m], p, NextOffset(m, p))
    BY DEF Fetch, TypeOK
  <2>1. PICK to \in (NextOffset(m, p) + 1)..produced[p] :
          /\ batch'[m] = [partition |-> p, from |-> NextOffset(m, p), to |-> to,
                          generation |-> joined[m]]
          /\ position'[m] = NextOffset(m, p)
          /\ resolved'[m] = Put(resolved[m], p, NextOffset(m, p))
    BY <2>0
  <2>2. joined'[m] = joined[m] /\ strays'[m] = strays[m] /\ known'[m] = Known(m)
    BY DEF Fetch, TypeOK
  <2>3. /\ p \in Partitions /\ NextOffset(m, p) \in 0..Len(Text[p]) /\ Len(Text[p]) \in Nat
        /\ produced[p] \in Nat /\ produced[p] <= Len(Text[p])
    BY FetchTypes, TextLength DEF TypeOK
  <2>4. MemberOK(m) /\ assigned[m] \subseteq Partitions
    BY DEF TypeOK
  <2>5. /\ DOMAIN resolved'[m] = DOMAIN resolved[m] \cup {p}
        /\ \A q \in DOMAIN resolved'[m] : resolved'[m][q] \in 0..Len(Text[q])
    <3>1. /\ DOMAIN resolved[m] \subseteq Partitions
          /\ \A q \in DOMAIN resolved[m] : resolved[m][q] \in 0..Len(Text[q])
      BY <2>4 DEF MemberOK
    <3>2. /\ DOMAIN Put(resolved[m], p, NextOffset(m, p)) \subseteq Partitions
          /\ \A q \in DOMAIN Put(resolved[m], p, NextOffset(m, p)) :
               Put(resolved[m], p, NextOffset(m, p))[q] \in 0..Len(Text[q])
      BY <2>3, <3>1, PutTypes
    <3>3. DOMAIN Put(resolved[m], p, NextOffset(m, p)) = DOMAIN resolved[m] \cup {p}
      BY PutDomain, PutNew, PutOld
    <3> QED
      BY <2>1, <3>2, <3>3
  <2>6. /\ to \in 0..Len(Text[p]) /\ NextOffset(m, p) \in NextOffset(m, p)..to
        /\ NextOffset(m, p) \in Nat
    BY <2>3
  <2>7. generation \in Nat /\ joined[m] \in 0..joined[m]
    BY <2>4 DEF TypeOK, MemberOK
  <2>8. /\ batch'[m].partition = p /\ batch'[m].from = NextOffset(m, p)
        /\ batch'[m].to = to /\ batch'[m].generation = joined[m]
    BY <2>1
  <2>9. /\ DOMAIN known'[m] \subseteq Partitions
        /\ \A q \in DOMAIN known'[m] : known'[m][q] \in 0..Len(Text[q])
    BY <2>2, <2>4, FetchTypes DEF MemberOK
  <2> QED
    BY <1>1, <2>1, <2>2, <2>3, <2>4, <2>5, <2>6, <2>7, <2>8, <2>9 DEF MemberOK
<1>4. \A k \in Members : MemberOK(k)'
  BY <1>2, <1>3
<1> HIDE DEF MemberOK
<1> QED
  BY <1>1, <1>4 DEF TypeOK, Fetch, Goto, group

LEMMA TypeJoin == ASSUME TypeOK, NEW m \in Members, Join(m) PROVE TypeOK'
  BY TextLength DEF TypeOK, MemberOK, Join, Goto, InBatch, NoBatch, group, offsets,
     JoinGroup, EmptyMap

\* A member stops, and may have committed before.
LEMMA TypeStop ==
  ASSUME TypeOK, NEW m \in Members, NullText(m) \/ ResolveThrows(m)
  PROVE  TypeOK'
<1>1. /\ Stop(m) /\ UNCHANGED <<produced, indexed, joined, assigned, resolved, strays, faults>>
      /\ SendOffsets(m) \/ UNCHANGED <<committed, known, strayed>>
  BY DEF NullText, ResolveThrows, CommitOffsets, offsets
<1>2. /\ generation' \in Nat \ {0} /\ generation' = generation + 1
      /\ owner' \in [Partitions -> Members]
  BY <1>1, ReassignTypes DEF Stop, Running
<1>3. \A k \in Members \ {m} : Kept(k)
  BY <1>1, SendTypes DEF TypeOK, Kept, Stop, EndBatch
<1>4. \A k \in Members \ {m} : MemberOK(k)'
  BY <1>2, <1>3, KeptOK
<1>5. /\ committed' \in [Partitions -> Nat]
      /\ \A p \in Partitions : committed'[p] <= Len(Text[p])
      /\ DOMAIN known' = Members /\ strayed' \subseteq Partitions
      /\ DOMAIN known'[m] \subseteq Partitions
      /\ \A p \in DOMAIN known'[m] : known'[m][p] \in 0..Len(Text[p])
  BY <1>1, SendTypes DEF TypeOK, MemberOK
<1>6. MemberOK(m)'
  BY <1>1, <1>2, <1>5 DEF TypeOK, MemberOK, Stop, InBatch
<1>7. \A k \in Members : MemberOK(k)'
  BY <1>4, <1>6
<1> HIDE DEF MemberOK
<1> QED
  BY <1>1, <1>2, <1>5, <1>7 DEF TypeOK, Stop, EndBatch

LEMMA TypeHeartbeatPasses ==
  ASSUME TypeOK, NEW m \in Members, HeartbeatPasses(m)
  PROVE  TypeOK'
  BY TextLength DEF TypeOK, MemberOK, HeartbeatPasses, Goto, InBatch, NoBatch, group,
     offsets

LEMMA TypeRejoinInBatch ==
  ASSUME TypeOK, NEW m \in Members, RejoinInBatch(m)
  PROVE  TypeOK'
  BY TextLength DEF TypeOK, MemberOK, RejoinInBatch, Goto, InBatch, NoBatch, group,
     offsets, JoinGroup, EmptyMap

LEMMA TypeGroupsDone == ASSUME TypeOK, NEW m \in Members, GroupsDone(m) PROVE TypeOK'
  BY TextLength DEF TypeOK, MemberOK, GroupsDone, Goto, InBatch, NoBatch, group, offsets

LEMMA TypeRejoin == ASSUME TypeOK, NEW m \in Members, Rejoin(m) PROVE TypeOK'
  BY TextLength DEF TypeOK, MemberOK, Rejoin, Goto, InBatch, NoBatch, group, offsets,
     EndBatch

LEMMA TypeCommit == ASSUME TypeOK, NEW m \in Members, Commit(m) PROVE TypeOK'
<1>1. /\ generation' = generation /\ owner' = owner
      /\ \A k \in Members \ {m} : Kept(k)
  BY SendTypes DEF TypeOK, Commit, Kept, Goto, EndBatch, CommitOffsets
<1>2. \A k \in Members \ {m} : MemberOK(k)'
  BY <1>1, KeptOK
<1>3. MemberOK(m)'
  BY SendTypes DEF TypeOK, MemberOK, Commit, Goto, InBatch, EndBatch, CommitOffsets
<1>4. \A k \in Members : MemberOK(k)'
  BY <1>2, <1>3
<1> HIDE DEF MemberOK
<1> QED
  BY <1>1, <1>4, SendTypes DEF TypeOK, Commit, Goto, EndBatch, CommitOffsets

LEMMA TypeRebalance == ASSUME TypeOK, Rebalance PROVE TypeOK'
<1>1. /\ generation' \in Nat \ {0} /\ generation' = generation + 1
      /\ owner' \in [Partitions -> Members]
  BY ReassignTypes DEF Rebalance, Running
<1>2. \A k \in Members : Kept(k)
  BY DEF Rebalance, Kept, offsets
<1>3. \A k \in Members : MemberOK(k)'
  BY <1>1, <1>2, KeptOK
<1> HIDE DEF MemberOK
<1> QED
  BY <1>1, <1>3, BoundsAssumption DEF TypeOK, Rebalance, offsets, BoundsAssumption

\* What is about to be resolved is a group of rows.
GroupsFilled == \A m \in Members : pc[m] = "resolve" => Group(m) # {}

LEMMA FilledStep ==
  ASSUME TypeOK, GroupsFilled, [Next]_vars PROVE GroupsFilled'
<1> SUFFICES ASSUME NEW k \in Members, pc'[k] = "resolve" PROVE Group(k)' # {}
  BY DEF GroupsFilled
<1>1. ASSUME pc[k] = "resolve", batch'[k] = batch[k], position'[k] = position[k]
      PROVE  Group(k)' # {}
  BY <1>1 DEF GroupsFilled, Group, Rows
<1>2. ASSUME NEW m \in Members, Handle(m) \/ BatchFails(m) \/ Crash(m) \/ Restart(m)
      PROVE  \/ pc[k] = "resolve" /\ batch'[k] = batch[k] /\ position'[k] = position[k]
             \/ m = k /\ UpsertGroup(k)
  BY <1>2 DEF TypeOK, Handle, Join, Fetch, UpsertGroup, ResolveGroup, ResolveThrows,
     CommitGroup, HeartbeatPasses, RejoinInBatch, GroupsDone, AutoResolve, Commit,
     Rejoin, BatchFails, Crash, Restart, StartAnew, NullText, Stop, Goto, EndBatch
<1>3. ASSUME UpsertGroup(k) PROVE Group(k)' # {}
  BY <1>3 DEF UpsertGroup, Group, Rows
<1>4. ASSUME Rebalance \/ (\E p \in Partitions : Produce(p)) \/ UNCHANGED vars
      PROVE  pc[k] = "resolve" /\ batch'[k] = batch[k] /\ position'[k] = position[k]
  BY <1>4 DEF Rebalance, Produce, vars
<1> QED
  BY <1>1, <1>2, <1>3, <1>4 DEF Next

\* Whatever fails, every offset a member holds stays within its partition, and a batch whose
\* group was stored has that group to resolve.
THEOREM IndexerTypes == Spec => [](TypeOK /\ GroupsFilled)
<1>1. Init => TypeOK /\ GroupsFilled
  BY TypeInit DEF Init, GroupsFilled
<1>2. TypeOK /\ GroupsFilled /\ [Next]_vars => TypeOK' /\ GroupsFilled'
  <2> SUFFICES ASSUME TypeOK, GroupsFilled, [Next]_vars PROVE TypeOK'
    BY FilledStep
  <2>1. ASSUME NEW m \in Members, Handle(m) \/ BatchFails(m) \/ Crash(m) \/ Restart(m)
        PROVE  TypeOK'
    <3>1. ASSUME ResolveGroup(m) PROVE Group(m) # {}
      BY <3>1 DEF GroupsFilled, ResolveGroup, Goto
    <3> QED
      BY <2>1, <3>1, TypeJoin, TypeFetch, TypeUpsertGroup, TypeResolveGroup,
         TypeStop, TypeCommitGroup, TypeHeartbeatPasses, TypeRejoinInBatch,
         TypeGroupsDone, TypeAutoResolve, TypeCommit, TypeRejoin, TypeBatchFails,
         TypeCrash, Zenon DEF Handle
  <2>2. CASE UNCHANGED vars
    BY <2>2 DEF TypeOK, MemberOK, InBatch, vars, group, offsets
  <2> QED
    BY <2>1, <2>2, TypeRebalance, TypeProduce DEF Next
<1> QED
  BY <1>1, <1>2, PTL DEF Spec

----------------------------------------------------------------------------
(* What is committed is indexed. *)

LEMMA StoredInit == Init => StoredInv
<1> SUFFICES ASSUME Init PROVE StoredInv
  OBVIOUS
<1>1. \A p : RowsUpTo(p, 0) = {}
  BY DEF RowsUpTo
<1>2. CommittedIsIndexed
  BY <1>1 DEF Init, CommittedIsIndexed
<1>3. \A m \in Members : MemberStored(m)
  BY DEF Init, MemberStored, InBatch, EmptyMap
<1> QED
  BY <1>2, <1>3 DEF StoredInv

\* Rows do not leave the collection.
LEMMA IndexedGrows == Next \/ UNCHANGED vars => indexed \subseteq indexed'
  BY DEF Next, Handle, Join, Fetch, UpsertGroup, ResolveGroup, ResolveThrows,
     CommitGroup, HeartbeatPasses, RejoinInBatch, GroupsDone, AutoResolve, Commit,
     Rejoin, BatchFails, Crash, Restart, NullText, Rebalance, Produce, vars

LEMMA KeptStored ==
  ASSUME indexed \subseteq indexed', NEW k \in Members, MemberStored(k), Kept(k)
  PROVE  MemberStored(k)'
<1>1. \A p, n : Stored(p, n) => Stored(p, n)'
  BY DEF Stored, RowsUpTo
<1>2. Group(k)' = Group(k)
  BY DEF Kept, Group, Rows
<1>3. /\ (\A p \in DOMAIN resolved[k] : Stored(p, resolved[k][p]))'
      /\ (\A p \in DOMAIN known[k] : Stored(p, known[k][p]))'
  BY <1>1 DEF Kept, MemberStored
<1>4. /\ (InBatch(k) => Stored(batch[k].partition, position[k]))'
      /\ (pc[k] = "end" => Stored(batch[k].partition, batch[k].to))'
  BY <1>1 DEF Kept, InBatch, MemberStored
<1>5. (pc[k] = "resolve" => \A i \in Group(k) : <<batch[k].partition, i>> \in indexed)'
  BY <1>2 DEF Kept, MemberStored
<1> QED
  BY <1>3, <1>4, <1>5 DEF MemberStored

\* What is stored up to a row, and the rows with a text between it and another one.
LEMMA StoredUpTo ==
  ASSUME NEW p, NEW a \in Nat, NEW b \in Nat, Stored(p, a),
         \A i \in (a + 1)..b : Text[p][i] # "empty" => <<p, i>> \in indexed
  PROVE  Stored(p, b)
<1> SUFFICES ASSUME NEW i \in 1..b, Text[p][i] # "empty" PROVE <<p, i>> \in indexed
  BY DEF Stored, RowsUpTo
<1>1. CASE i <= a
  BY <1>1 DEF Stored, RowsUpTo
<1>2. CASE i > a
  BY <1>2
<1> QED
  BY <1>1, <1>2

\* A group that is stored, and then the rows up to the last of it.
LEMMA GroupStored ==
  ASSUME TypeOK, NEW m \in Members, InBatch(m), Stored(batch[m].partition, position[m]),
         \A i \in Group(m) : <<batch[m].partition, i>> \in indexed
  PROVE  /\ Group(m) # {} => Stored(batch[m].partition, LastOf(Group(m)))
         /\ Group(m) = {} => Stored(batch[m].partition, batch[m].to)
<1> DEFINE p == batch[m].partition
           last == LastOf(Group(m))
<1>1. position[m] \in Nat /\ batch[m].to \in Nat
  BY RowsIn
<1>2. ASSUME Group(m) # {} PROVE Stored(p, last)
  <2>1. /\ last \in (position[m] + 1)..batch[m].to
        /\ \A j \in Rows(m) : j <= last => j \in Group(m)
    BY <1>2, GroupFacts
  <2>2. last \in Nat /\ last <= batch[m].to
    BY <1>1, <2>1
  <2> HIDE DEF last
  <2>3. ASSUME NEW i \in (position[m] + 1)..last, Text[p][i] # "empty" PROVE <<p, i>> \in indexed
    <3>1. i \in (position[m] + 1)..batch[m].to /\ i <= last
      BY <1>1, <2>2
    <3>2. i \in Rows(m)
      BY <2>3, <3>1 DEF Rows
    <3> QED
      BY <2>1, <3>1, <3>2
  <2> QED
    BY <1>1, <2>2, <2>3, StoredUpTo
<1>3. ASSUME Group(m) = {} PROVE Stored(p, batch[m].to)
  <2>1. Rows(m) = {}
    BY <1>3, GroupFacts
  <2>2. \A i \in (position[m] + 1)..batch[m].to : Text[p][i] = "empty"
    BY <2>1 DEF Rows
  <2> QED
    BY <1>1, <2>2, StoredUpTo
<1> QED
  BY <1>2, <1>3

LEMMA PutStored ==
  ASSUME NEW f, \A q \in DOMAIN f : Stored(q, f[q]), NEW x, NEW v, Stored(x, v)
  PROVE  \A q \in DOMAIN Put(f, x, v) : Stored(q, Put(f, x, v)[q])
<1> SUFFICES ASSUME NEW q \in DOMAIN Put(f, x, v) PROVE Stored(q, Put(f, x, v)[q])
  OBVIOUS
<1>1. CASE q = x
  <2>1. Put(f, x, v)[x] = v
    BY PutNew
  <2> QED
    BY <1>1, <2>1
<1>2. CASE q # x
  <2>1. q \in DOMAIN f
    BY <1>2 DEF Put
  <2>2. Put(f, x, v)[q] = f[q]
    BY <1>2, <2>1, PutOld
  <2> QED
    BY <2>1, <2>2
<1> QED
  BY <1>1, <1>2

LEMMA SendStored ==
  ASSUME TypeOK, StoredInv, NEW m \in Members, SendOffsets(m), indexed' = indexed
  PROVE  /\ CommittedIsIndexed'
         /\ \A p \in DOMAIN known'[m] : Stored(p, known'[m][p])
         /\ \A k \in Members \ {m} : known'[k] = known[k]
<1>1. /\ m \in DOMAIN known /\ DOMAIN known = Members
      /\ Uncommitted(m) \subseteq DOMAIN resolved[m]
  BY DEF TypeOK, Uncommitted
<1>2. \A p \in Uncommitted(m) : Stored(p, resolved[m][p])
  BY <1>1 DEF StoredInv, MemberStored
<1>3. \A p \in Partitions : Stored(p, committed[p])
  BY DEF StoredInv, CommittedIsIndexed, Stored
<1>4. \A p \in Partitions :
        committed'[p] = IF p \in Uncommitted(m) THEN resolved[m][p] ELSE committed[p]
  BY DEF SendOffsets
<1>5. \A p \in Partitions : Stored(p, committed'[p])
  BY <1>2, <1>3, <1>4
<1>6. CommittedIsIndexed'
  BY <1>5 DEF CommittedIsIndexed, Stored, RowsUpTo
<1>7. known'[m] = [p \in DOMAIN known[m] \cup Uncommitted(m) |->
                    IF p \in Uncommitted(m) THEN resolved[m][p] ELSE known[m][p]]
  BY <1>1 DEF SendOffsets
<1>8. \A p \in DOMAIN known'[m] : Stored(p, known'[m][p])
  BY <1>2, <1>7 DEF StoredInv, MemberStored
<1>9. \A k \in Members \ {m} : known'[k] = known[k]
  BY <1>1 DEF SendOffsets
<1> QED
  BY <1>6, <1>8, <1>9

\* One lemma for each action: what the member that takes it has resolved, known and
\* handled is stored.
LEMMA StoredJoin ==
  ASSUME TypeOK, StoredInv, NEW m \in Members,
         Join(m) \/ RejoinInBatch(m) \/ Crash(m) \/ Restart(m)
  PROVE  MemberStored(m)'
<1>1. /\ resolved'[m] = EmptyMap /\ known'[m] = EmptyMap /\ indexed' = indexed
      /\ \/ pc'[m] \in {"idle", "join"}
         \/ /\ pc'[m] = "group" /\ InBatch(m)
            /\ batch'[m] = batch[m] /\ position'[m] = position[m]
  <2>1. m \in DOMAIN resolved /\ m \in DOMAIN known /\ DOMAIN pc = Members
    BY DEF TypeOK
  <2>2. CASE Join(m)
    BY <2>1, <2>2 DEF Join, JoinGroup, Goto
  <2>3. CASE RejoinInBatch(m)
    BY <2>1, <2>3 DEF RejoinInBatch, JoinGroup, Goto, InBatch
  <2>4. CASE Crash(m) \/ Restart(m)
    BY <2>1, <2>4 DEF Crash, Restart, StartAnew
  <2> QED
    BY <2>2, <2>3, <2>4
<1>2. MemberStored(m)
  BY DEF StoredInv
<1> QED
  BY <1>1, <1>2 DEF MemberStored, InBatch, EmptyMap, Stored, RowsUpTo

LEMMA StoredFetch ==
  ASSUME TypeOK, StoredInv, NEW m \in Members, Fetch(m)
  PROVE  MemberStored(m)'
<1>1. PICK p \in assigned[m] :
        /\ batch'[m].partition = p /\ position'[m] = NextOffset(m, p)
        /\ resolved'[m] = Put(resolved[m], p, NextOffset(m, p))
  <2>1. m \in DOMAIN batch /\ m \in DOMAIN position /\ m \in DOMAIN resolved
    BY DEF TypeOK
  <2> QED
    BY <2>1 DEF Fetch
<1>2. known'[m] = Known(m) /\ indexed' = indexed /\ pc'[m] = "group"
  BY DEF Fetch, TypeOK, Goto
<1>3. MemberStored(m) /\ \A q \in Partitions : Stored(q, committed[q])
  BY DEF StoredInv, CommittedIsIndexed, Stored
<1>4. assigned[m] \subseteq Partitions
  BY FetchTypes
<1>5. \A q \in DOMAIN Known(m) : Stored(q, Known(m)[q])
  BY <1>3, <1>4 DEF Known, MemberStored
<1>6. Stored(p, NextOffset(m, p))
  BY <1>3, <1>5, FetchTypes DEF NextOffset, MemberStored
<1>7. \A q \in DOMAIN resolved'[m] : Stored(q, resolved'[m][q])
  BY <1>1, <1>3, <1>6, PutStored DEF MemberStored
<1>8. \A q, n : Stored(q, n)' <=> Stored(q, n)
  BY <1>2 DEF Stored, RowsUpTo
<1> QED
  BY <1>1, <1>2, <1>5, <1>6, <1>7, <1>8 DEF MemberStored, InBatch

LEMMA StoredUpsert ==
  ASSUME TypeOK, StoredInv, NEW m \in Members, UpsertGroup(m)
  PROVE  MemberStored(m)'
<1>1. /\ Group(m)' = Group(m) /\ batch'[m] = batch[m] /\ position'[m] = position[m]
      /\ resolved'[m] = resolved[m] /\ known'[m] = known[m] /\ InBatch(m) /\ pc'[m] = "resolve"
  BY DEF UpsertGroup, Group, Rows, offsets, InBatch, Goto, TypeOK
<1>2. indexed \subseteq indexed' /\ \A i \in Group(m) : <<batch[m].partition, i>> \in indexed'
  BY DEF UpsertGroup
<1>3. \A q, n : Stored(q, n) => Stored(q, n)'
  BY <1>2 DEF Stored, RowsUpTo
<1>4. MemberStored(m)
  BY DEF StoredInv
<1> QED
  BY <1>1, <1>2, <1>3, <1>4 DEF MemberStored

LEMMA StoredResolve ==
  ASSUME TypeOK, GroupsFilled, StoredInv, NEW m \in Members, ResolveGroup(m) \/ AutoResolve(m)
  PROVE  MemberStored(m)'
<1> DEFINE p == batch[m].partition
           last == IF pc[m] = "end" THEN batch[m].to ELSE LastOf(Group(m))
<1>1. /\ resolved'[m] = Put(resolved[m], p, last) /\ known'[m] = known[m]
      /\ indexed' = indexed /\ batch'[m] = batch[m] /\ InBatch(m)
      /\ \/ pc[m] = "resolve" /\ pc'[m] = "commitGroup" /\ position'[m] = last
         \/ pc[m] = "end" /\ pc'[m] = "commit" /\ position'[m] = position[m]
  BY DEF ResolveGroup, AutoResolve, ResolveOffset, Goto, TypeOK, InBatch
<1>2. MemberStored(m)
  BY DEF StoredInv
<1>3. Stored(p, last) /\ Stored(p, position[m])
  <2>1. CASE pc[m] = "end"
    BY <1>1, <1>2, <2>1 DEF MemberStored
  <2>2. CASE pc[m] = "resolve"
    BY <1>1, <1>2, <2>2, GroupStored DEF MemberStored, GroupsFilled
  <2> QED
    BY <1>1, <2>1, <2>2
<1> HIDE DEF last
<1>4. \A q \in DOMAIN resolved'[m] : Stored(q, resolved'[m][q])
  BY <1>1, <1>2, <1>3, PutStored DEF MemberStored
<1>5. \A q, n : Stored(q, n)' <=> Stored(q, n)
  BY <1>1 DEF Stored, RowsUpTo
<1> QED
  BY <1>1, <1>2, <1>3, <1>4, <1>5 DEF MemberStored, InBatch

LEMMA StoredCommit ==
  ASSUME TypeOK, StoredInv, NEW m \in Members,
         CommitGroup(m) \/ Commit(m) \/ BatchFails(m) \/ NullText(m)
  PROVE  CommittedIsIndexed' /\ MemberStored(m)'
<1>1. /\ resolved'[m] = resolved[m] /\ indexed' = indexed
      /\ \/ /\ pc'[m] = "heartbeat" /\ InBatch(m)
            /\ batch'[m] = batch[m] /\ position'[m] = position[m]
         \/ pc'[m] \in {"idle", "stopped"}
      /\ SendOffsets(m) \/ UNCHANGED <<committed, known>>
  BY DEF CommitGroup, Commit, BatchFails, NullText, Stop, CommitOffsets, Goto, TypeOK, InBatch
<1>2. MemberStored(m) /\ CommittedIsIndexed
  BY DEF StoredInv
<1>3. /\ CommittedIsIndexed'
      /\ \A p \in DOMAIN known'[m] : Stored(p, known'[m][p])
  BY <1>1, <1>2, SendStored DEF MemberStored, CommittedIsIndexed, RowsUpTo
<1>4. \A q, n : Stored(q, n)' <=> Stored(q, n)
  BY <1>1 DEF Stored, RowsUpTo
<1> QED
  BY <1>1, <1>2, <1>3, <1>4 DEF MemberStored, InBatch

LEMMA StoredOther ==
  ASSUME TypeOK, StoredInv, NEW m \in Members,
         HeartbeatPasses(m) \/ GroupsDone(m) \/ ResolveThrows(m) \/ Rejoin(m)
  PROVE  MemberStored(m)'
<1>1. /\ resolved'[m] = resolved[m] /\ known'[m] = known[m] /\ indexed' = indexed
      /\ \/ pc'[m] \in {"join", "stopped"}
         \/ /\ InBatch(m) /\ batch'[m] = batch[m] /\ position'[m] = position[m]
            /\ \/ pc'[m] = "group"
               \/ pc'[m] = "end" /\ Group(m) = {}
  <2>1. DOMAIN pc = Members
    BY DEF TypeOK
  <2>2. CASE HeartbeatPasses(m)
    BY <2>1, <2>2 DEF HeartbeatPasses, Goto, InBatch, offsets
  <2>3. CASE GroupsDone(m)
    BY <2>1, <2>3 DEF GroupsDone, Goto, InBatch, offsets
  <2>4. CASE ResolveThrows(m) \/ Rejoin(m)
    BY <2>1, <2>4 DEF ResolveThrows, Stop, Rejoin, offsets
  <2> QED
    BY <2>2, <2>3, <2>4
<1>2. MemberStored(m)
  BY DEF StoredInv
<1>3. InBatch(m) /\ Group(m) = {} => Stored(batch[m].partition, batch[m].to)
  BY <1>2, GroupStored DEF MemberStored
<1>4. \A q, n : Stored(q, n)' <=> Stored(q, n)
  BY <1>1 DEF Stored, RowsUpTo
<1> QED
  BY <1>1, <1>2, <1>3, <1>4 DEF MemberStored, InBatch

LEMMA StoredStep ==
  ASSUME TypeOK, GroupsFilled, StoredInv, [Next]_vars PROVE StoredInv'
<1>1. indexed \subseteq indexed'
  BY IndexedGrows
<1>2. ASSUME committed' = committed PROVE CommittedIsIndexed'
  BY <1>1, <1>2 DEF StoredInv, CommittedIsIndexed, RowsUpTo
<1>3. ASSUME NEW m \in Members, Handle(m) \/ BatchFails(m) \/ Crash(m) \/ Restart(m)
      PROVE  StoredInv'
  <2>1. \A k \in Members \ {m} : Kept(k)
    BY <1>3, OthersKept
  <2>2. \A k \in Members \ {m} : MemberStored(k)'
    BY <1>1, <2>1, KeptStored DEF StoredInv
  <2>3. MemberStored(m)'
    BY <1>3, StoredJoin, StoredFetch, StoredUpsert, StoredResolve, StoredCommit,
       StoredOther, Zenon DEF Handle
  <2>4. CommittedIsIndexed'
    <3>1. \/ CommitGroup(m) \/ Commit(m) \/ BatchFails(m) \/ NullText(m)
          \/ committed' = committed
      BY <1>3 DEF Handle, Join, Fetch, UpsertGroup, ResolveGroup, ResolveThrows,
         HeartbeatPasses, RejoinInBatch, GroupsDone, AutoResolve, Rejoin, Crash, Restart, group
    <3> QED
      BY <1>2, <3>1, StoredCommit
  <2> QED
    BY <2>2, <2>3, <2>4 DEF StoredInv
<1>4. ASSUME Rebalance \/ (\E p \in Partitions : Produce(p)) \/ UNCHANGED vars
      PROVE  StoredInv'
  <2>1. committed' = committed /\ \A k \in Members : Kept(k)
    BY <1>4 DEF Rebalance, Produce, vars, offsets, group, Kept
  <2> QED
    BY <1>1, <1>2, <2>1, KeptStored DEF StoredInv
<1> QED
  BY <1>3, <1>4 DEF Next

\* A committed row with a text is in the collection, although a batch is resolved piece by
\* piece and may go on, and commit, after the group was joined again.
THEOREM CommitsFollowUpserts == Spec => []CommittedIsIndexed
<1>1. TypeOK /\ GroupsFilled /\ StoredInv /\ [Next]_vars => StoredInv'
  BY StoredStep
<1>2. StoredInv => CommittedIsIndexed
  BY DEF StoredInv
<1> QED
  BY <1>1, <1>2, StoredInit, IndexerTypes, PTL DEF Spec

----------------------------------------------------------------------------
(* When commits move back. *)

LEMMA StraysInit == Init => StraysInv
  BY DEF Init, StraysInv, Placed, Ahead, Current, Straight, InBatch, EmptyMap

LEMMA KeptPlaced ==
  ASSUME generation' = generation, owner' = owner, NEW k \in Members, Kept(k), Placed(k)
  PROVE  Placed(k)'
  BY DEF Kept, Placed, Current, Straight, InBatch

LEMMA KeptAhead ==
  ASSUME generation' = generation, NEW k \in Members, Kept(k), Ahead(k),
         strayed \subseteq strayed',
         Current(k) => \A p \in assigned[k] \ strayed' : committed'[p] = committed[p]
  PROVE  Ahead(k)'
  BY DEF Kept, Ahead, Current, Straight

\* A commit of an offset for another member's partition is a stray one.
LEMMA CommitOfOthers ==
  ASSUME StraysInv, TypeOK, NEW m \in Members, Current(m), SendOffsets(m),
         NEW k \in Members \ {m}, Current(k), NEW p \in assigned[k] \ strayed'
  PROVE  committed'[p] = committed[p]
<1>1. p \in Partitions /\ owner[p] = k
  BY DEF StraysInv, Placed
<1>2. p \notin assigned[m]
  BY <1>1 DEF StraysInv, Placed
<1>3. p \notin Straight(m)
  BY <1>2 DEF StraysInv, Placed
<1>4. Uncommitted(m) \subseteq DOMAIN resolved[m]
  BY DEF Uncommitted
<1>5. p \notin Uncommitted(m)
  BY <1>3, <1>4 DEF Straight, SendOffsets
<1> QED
  BY <1>1, <1>5 DEF SendOffsets

\* A member that the group has gone on without commits nothing.
LEMMA StraysAside ==
  ASSUME TypeOK, StraysInv, generation' = generation + 1, NEW k \in Members,
         joined'[k] = joined[k], assigned'[k] = assigned[k],
         resolved'[k] = resolved[k], strays'[k] = strays[k],
         \/ ~InBatch(k)'
         \/ pc'[k] = pc[k] /\ batch'[k] = batch[k] /\ position'[k] = position[k]
  PROVE  Placed(k)' /\ Ahead(k)'
<1>1. ~Current(k)'
  BY DEF TypeOK, MemberOK, Current
<1>2. Placed(k)
  BY DEF StraysInv
<1>3. Placed(k)'
  BY <1>1, <1>2 DEF Placed, Straight, InBatch
<1> QED
  BY <1>1, <1>3 DEF Ahead

LEMMA StraysJoin ==
  ASSUME TypeOK, StraysInv, NEW m \in Members, Join(m) \/ RejoinInBatch(m) \/ Crash(m)
  PROVE  Placed(m)' /\ Ahead(m)'
<1>1. /\ resolved'[m] = EmptyMap /\ known'[m] = EmptyMap
      /\ owner' = owner /\ generation' = generation /\ joined[m] \in 0..generation
      /\ generation \in Nat \ {0}
  BY DEF TypeOK, MemberOK, Join, RejoinInBatch, Crash, StartAnew, JoinGroup, group
<1>2. ASSUME Join(m) \/ RejoinInBatch(m)
      PROVE  joined'[m] = generation /\ assigned'[m] = {p \in Partitions : owner[p] = m}
  BY <1>2 DEF TypeOK, Join, RejoinInBatch, JoinGroup
<1>3. ASSUME Crash(m) PROVE joined'[m] = 0
  BY <1>3 DEF TypeOK, Crash, StartAnew
<1>4. ASSUME RejoinInBatch(m) PROVE batch'[m].generation # joined'[m]
  <2>1. batch'[m] = batch[m] /\ joined[m] # generation /\ InBatch(m)
    BY <1>4 DEF RejoinInBatch, Current, Goto, InBatch
  <2>2. batch[m].generation \in 0..joined[m]
    BY <2>1 DEF TypeOK, MemberOK
  <2> QED
    BY <1>1, <1>2, <1>4, <2>1, <2>2
<1>5. ASSUME Join(m) \/ Crash(m) PROVE ~ InBatch(m)'
  BY <1>5 DEF Join, Crash, StartAnew, Goto, InBatch, TypeOK
<1>6. DOMAIN EmptyMap = {}
  BY DEF EmptyMap
<1>7. Placed(m)'
  BY <1>1, <1>2, <1>3, <1>4, <1>5, <1>6 DEF Placed, Current, Straight
<1>8. Ahead(m)'
  BY <1>1, <1>6 DEF Ahead, Straight
<1> QED
  BY <1>7, <1>8

LEMMA StraysFetch ==
  ASSUME TypeOK, StraysInv, NEW m \in Members, Fetch(m)
  PROVE  Placed(m)' /\ Ahead(m)'
<1>1. PICK p \in assigned[m] :
        /\ batch'[m].partition = p /\ position'[m] = NextOffset(m, p)
        /\ resolved'[m] = Put(resolved[m], p, NextOffset(m, p))
  <2>1. m \in DOMAIN batch /\ m \in DOMAIN position /\ m \in DOMAIN resolved
    BY DEF TypeOK
  <2> QED
    BY <2>1 DEF Fetch
<1>2. /\ known'[m] = Known(m) /\ pc'[m] = "group" /\ joined' = joined /\ assigned' = assigned
      /\ strays' = strays /\ UNCHANGED group
  BY DEF Fetch, TypeOK, Goto
<1>3. NextOffset(m, p) \in Nat /\ NextOffset(m, p) <= NextOffset(m, p)
  <2>1. assigned[m] \subseteq Partitions /\ NextOffset(m, p) \in 0..Len(Text[p])
    BY FetchTypes
  <2> QED
    BY <2>1, TextLength
<1>4. DOMAIN resolved'[m] = DOMAIN resolved[m] \cup {p}
  <2>1. resolved'[m] = Put(resolved[m], p, NextOffset(m, p))
    BY <1>1
  <2>2. DOMAIN Put(resolved[m], p, NextOffset(m, p)) = DOMAIN resolved[m] \cup {p}
    BY PutDomain
  <2> QED
    BY <2>1, <2>2
<1>5. resolved'[m][p] = NextOffset(m, p)
  BY <1>1, PutNew
<1>6. \A q \in DOMAIN resolved[m] \ {p} : resolved'[m][q] = resolved[m][q]
  BY <1>1, PutOld
<1>7. Placed(m) /\ Ahead(m)
  BY DEF StraysInv
<1>8. Placed(m)'
  <2>1. Straight(m)' \subseteq assigned'[m]
    BY <1>2, <1>4, <1>7 DEF Placed, Straight
  <2> QED
    BY <1>1, <1>2, <1>3, <1>4, <1>5, <1>7, <2>1 DEF Placed, Current, group
<1>9. Ahead(m)'
  <2> SUFFICES ASSUME Current(m), NEW q \in assigned[m] \ strayed
               PROVE  /\ q \in DOMAIN Known(m) => Known(m)[q] = committed[q]
                      /\ q \in Straight(m)' => committed[q] <= resolved'[m][q]
    BY <1>2 DEF Ahead, Current, group
  <2>1. Known(m)[q] = committed[q]
    BY <1>7 DEF Known, Ahead
  <2>2. q \in Partitions /\ committed[q] \in Nat
    BY DEF TypeOK
  <2>3. ASSUME q \in Straight(m)' PROVE committed[q] <= resolved'[m][q]
    <3>1. CASE q \in DOMAIN resolved[m]
      <4>1. resolved'[m][q] = resolved[m][q]
        BY <1>5, <1>6, <3>1 DEF NextOffset
      <4> QED
        BY <1>2, <1>7, <2>3, <3>1, <4>1 DEF Straight, Ahead
    <3>2. CASE q \notin DOMAIN resolved[m]
      <4>1. q = p
        BY <1>4, <2>3, <3>2 DEF Straight
      <4> QED
        BY <1>5, <2>1, <2>2, <3>2, <4>1 DEF NextOffset
    <3> QED
      BY <3>1, <3>2
  <2> QED
    BY <2>1, <2>3
<1> QED
  BY <1>8, <1>9

LEMMA StraysResolve ==
  ASSUME TypeOK, GroupsFilled, StraysInv, NEW m \in Members, ResolveGroup(m) \/ AutoResolve(m)
  PROVE  Placed(m)' /\ Ahead(m)'
<1> DEFINE p == batch[m].partition
           last == IF pc[m] = "end" THEN batch[m].to ELSE LastOf(Group(m))
<1>1. /\ resolved'[m] = Put(resolved[m], p, last) /\ known'[m] = known[m]
      /\ joined' = joined /\ assigned' = assigned /\ UNCHANGED group
      /\ batch'[m] = batch[m] /\ InBatch(m)
      /\ \/ pc[m] = "resolve" /\ pc'[m] = "commitGroup" /\ position'[m] = last
         \/ pc[m] = "end" /\ pc'[m] = "commit" /\ position'[m] = position[m]
      /\ strays'[m] = IF batch[m].generation = joined[m] THEN strays[m] ELSE strays[m] \cup {p}
  BY DEF ResolveGroup, AutoResolve, ResolveOffset, Goto, TypeOK, InBatch
<1>2. last \in Nat /\ position[m] \in Nat /\ position[m] <= last
  <2>1. position[m] \in Nat /\ batch[m].to \in Nat /\ position[m] <= batch[m].to
    BY <1>1, RowsIn
  <2>2. CASE pc[m] = "end"
    BY <2>1, <2>2
  <2>3. CASE pc[m] = "resolve"
    <3>1. LastOf(Group(m)) \in (position[m] + 1)..batch[m].to
      BY <1>1, <2>3, GroupFacts DEF GroupsFilled
    <3> QED
      BY <2>1, <2>3, <3>1
  <2> QED
    BY <1>1, <2>2, <2>3
<1> HIDE DEF last
<1>4. DOMAIN resolved'[m] = DOMAIN resolved[m] \cup {p}
  <2>1. resolved'[m] = Put(resolved[m], p, last)
    BY <1>1
  <2>2. DOMAIN Put(resolved[m], p, last) = DOMAIN resolved[m] \cup {p}
    BY PutDomain
  <2> QED
    BY <2>1, <2>2
<1>5. resolved'[m][p] = last
  BY <1>1, PutNew
<1>6. \A q \in DOMAIN resolved[m] \ {p} : resolved'[m][q] = resolved[m][q]
  BY <1>1, PutOld
<1>7. Placed(m) /\ Ahead(m)
  BY DEF StraysInv
<1>8. batch[m].generation = joined[m] => p \in assigned[m] /\ p \in DOMAIN resolved[m]
  BY <1>1, <1>7 DEF Placed
<1>9. Placed(m)'
  <2>1. Straight(m)' \subseteq Straight(m)
    BY <1>1, <1>4, <1>8 DEF Straight
  <2>2. (pc[m] # "commit" => resolved[m][p] <= position[m])'
    BY <1>1, <1>2, <1>5
  <2> QED
    BY <1>1, <1>4, <1>7, <1>8, <2>1, <2>2 DEF Placed, Current, group, InBatch
<1>10. Ahead(m)'
  <2> SUFFICES ASSUME Current(m), NEW q \in assigned[m] \ strayed, q \in Straight(m)'
               PROVE  committed[q] <= resolved'[m][q]
    BY <1>1, <1>7 DEF Ahead, Current, group
  <2>1. q \in Straight(m)
    BY <1>1, <1>4, <1>8 DEF Straight
  <2>2. committed[q] <= resolved[m][q]
    BY <1>7, <2>1 DEF Ahead
  <2>3. CASE q # p
    BY <1>6, <2>1, <2>2, <2>3 DEF Straight
  <2>4. CASE q = p
    <3>1. batch[m].generation = joined[m]
      BY <1>1, <2>4 DEF Straight
    <3>2. resolved[m][p] <= position[m]
      BY <1>1, <1>7, <2>1, <2>4, <3>1 DEF Placed
    <3>3. q \in Partitions /\ q \in DOMAIN resolved[m]
      BY <2>1 DEF TypeOK, Straight
    <3>4. committed[q] \in Nat /\ resolved[m][q] \in 0..Len(Text[q]) /\ Len(Text[q]) \in Nat
      BY <3>3, TextLength DEF TypeOK, MemberOK
    <3> QED
      BY <1>2, <1>5, <2>2, <2>4, <3>2, <3>4
  <2> QED
    BY <2>3, <2>4
<1> QED
  BY <1>9, <1>10

LEMMA StraysCommit ==
  ASSUME TypeOK, StraysInv, NEW m \in Members,
         CommitGroup(m) \/ Commit(m) \/ BatchFails(m)
  PROVE  Placed(m)' /\ Ahead(m)'
<1>1. /\ resolved' = resolved /\ joined' = joined /\ assigned' = assigned /\ strays' = strays
      /\ generation' = generation /\ owner' = owner
      /\ \/ /\ pc[m] = "commitGroup" /\ pc'[m] = "heartbeat"
            /\ batch'[m] = batch[m] /\ position'[m] = position[m]
         \/ pc'[m] = "idle"
  BY DEF CommitGroup, Commit, BatchFails, Goto, TypeOK
<1>2. \/ SendOffsets(m) /\ Current(m)
      \/ UNCHANGED <<committed, known, strayed>>
  BY DEF CommitGroup, Commit, BatchFails, CommitOffsets
<1>3. Placed(m) /\ Ahead(m)
  BY DEF StraysInv
<1>4. Placed(m)'
  BY <1>1, <1>3 DEF Placed, Current, Straight, InBatch
<1>5. Ahead(m)'
  <2>1. CASE UNCHANGED <<committed, known, strayed>>
    BY <1>1, <1>3, <2>1 DEF Ahead, Current, Straight
  <2>2. CASE SendOffsets(m) /\ Current(m)
    <3>1. known'[m] = [p \in DOMAIN known[m] \cup Uncommitted(m) |->
                        IF p \in Uncommitted(m) THEN resolved[m][p] ELSE known[m][p]]
      BY <2>2 DEF SendOffsets, TypeOK
    <3>2. strayed \subseteq strayed'
      BY <2>2 DEF SendOffsets
    <3> SUFFICES ASSUME NEW p \in assigned[m] \ strayed'
                 PROVE  /\ p \in DOMAIN known'[m] => known'[m][p] = committed'[p]
                        /\ p \in Straight(m) => committed'[p] <= resolved[m][p]
      BY <1>1 DEF Ahead, Current, Straight
    <3>3. p \in Partitions /\ p \in assigned[m] \ strayed
      BY <3>2 DEF TypeOK
    <3>4. committed'[p] = IF p \in Uncommitted(m) THEN resolved[m][p] ELSE committed[p]
      BY <2>2, <3>3 DEF SendOffsets
    <3>5. p \in DOMAIN resolved[m] =>
            resolved[m][p] \in 0..Len(Text[p]) /\ Len(Text[p]) \in Nat
      BY <3>3, TextLength DEF TypeOK, MemberOK
    <3> QED
      BY <1>3, <2>2, <3>1, <3>3, <3>4, <3>5 DEF Ahead, Straight
  <2> QED
    BY <1>2, <2>1, <2>2
<1> QED
  BY <1>4, <1>5

LEMMA StraysOther ==
  ASSUME TypeOK, StraysInv, NEW m \in Members,
         UpsertGroup(m) \/ HeartbeatPasses(m) \/ GroupsDone(m) \/ Rejoin(m)
  PROVE  Placed(m)' /\ Ahead(m)'
<1>1. /\ UNCHANGED <<group, offsets>>
      /\ \/ pc'[m] = "join"
         \/ /\ InBatch(m) /\ pc[m] # "commit"
            /\ batch'[m] = batch[m] /\ position'[m] = position[m]
  <2>1. DOMAIN pc = Members
    BY DEF TypeOK
  <2>2. CASE UpsertGroup(m) \/ HeartbeatPasses(m) \/ GroupsDone(m)
    BY <2>2 DEF UpsertGroup, HeartbeatPasses, GroupsDone, Goto, InBatch
  <2>3. CASE Rejoin(m)
    BY <2>1, <2>3 DEF Rejoin
  <2> QED
    BY <2>2, <2>3
<1>2. Placed(m) /\ Ahead(m)
  BY DEF StraysInv
<1> QED
  BY <1>1, <1>2 DEF Placed, Ahead, Current, Straight, InBatch, group, offsets

\* A member that stops or is restarted begins a generation.
Regroups(m) == NullText(m) \/ ResolveThrows(m) \/ Restart(m)

LEMMA StraysRegroup ==
  ASSUME TypeOK, StraysInv, NEW m \in Members, Regroups(m) PROVE StraysInv'
<1>1. generation \in Nat /\ generation' = generation + 1
  BY DEF TypeOK, Regroups, NullText, ResolveThrows, Restart, Stop, Reassign
<1>2. \A k \in Members \ {m} : Kept(k)
  BY OthersKept DEF Regroups, Handle
<1>3. \A k \in Members \ {m} : Placed(k)' /\ Ahead(k)'
  BY <1>1, <1>2, StraysAside DEF Kept
<1>4. Placed(m)' /\ Ahead(m)'
  <2>1. CASE NullText(m) \/ ResolveThrows(m)
    <3>1. /\ UNCHANGED <<joined, assigned, resolved, strays>> /\ pc'[m] = "stopped"
      BY <2>1 DEF TypeOK, NullText, ResolveThrows, Stop, offsets
    <3> QED
      BY <1>1, <3>1, StraysAside DEF InBatch
  <2>2. CASE Restart(m)
    <3>1. /\ joined'[m] = 0 /\ resolved'[m] = EmptyMap /\ pc'[m] = "join"
      BY <2>2 DEF TypeOK, Restart, StartAnew
    <3> QED
      BY <1>1, <3>1 DEF Placed, Ahead, Current, Straight, InBatch, EmptyMap
  <2> QED
    BY <2>1, <2>2 DEF Regroups
<1> QED
  BY <1>3, <1>4 DEF StraysInv

LEMMA StraysStep ==
  ASSUME TypeOK, GroupsFilled, StraysInv, [Next]_vars PROVE StraysInv'
<1>1. ASSUME NEW m \in Members, Handle(m) \/ BatchFails(m) \/ Crash(m), ~Regroups(m)
      PROVE  StraysInv'
  <2>1. \A k \in Members \ {m} : Kept(k)
    BY <1>1, OthersKept
  <2>2. /\ generation' = generation /\ owner' = owner
        /\ \/ SendOffsets(m) /\ Current(m)
           \/ UNCHANGED <<committed, strayed>>
    <3>1. CASE CommitGroup(m) \/ Commit(m) \/ BatchFails(m)
      BY <3>1 DEF CommitGroup, Commit, BatchFails, CommitOffsets
    <3>2. CASE (Handle(m) /\ ~ (CommitGroup(m) \/ Commit(m))) \/ Crash(m)
      BY <1>1, <3>2 DEF Handle, Join, Fetch, UpsertGroup, ResolveGroup, Regroups,
         HeartbeatPasses, RejoinInBatch, GroupsDone, AutoResolve, Rejoin, Crash, group
    <3> QED
      BY <1>1, <3>1, <3>2
  <2>3. \A k \in Members \ {m} : Placed(k)'
    BY <2>1, <2>2, KeptPlaced DEF StraysInv
  <2>4. \A k \in Members \ {m} : Ahead(k)'
    <3>1. strayed \subseteq strayed'
      BY <2>2 DEF SendOffsets
    <3> TAKE k \in Members \ {m}
    <3>2. Current(k) => \A p \in assigned[k] \ strayed' : committed'[p] = committed[p]
      BY <2>2, CommitOfOthers
    <3> QED
      BY <2>1, <2>2, <3>1, <3>2, KeptAhead DEF StraysInv
  <2>5. Placed(m)' /\ Ahead(m)'
    BY <1>1, StraysJoin, StraysFetch, StraysResolve, StraysCommit, StraysOther,
       Zenon DEF Handle, Regroups
  <2> QED
    BY <2>3, <2>4, <2>5 DEF StraysInv
<1>2. CASE Rebalance
  <2>1. /\ generation' = generation + 1
        /\ UNCHANGED <<joined, assigned, resolved, strays, pc, batch, position>>
    BY <1>2 DEF Rebalance, Reassign, offsets
  <2>2. \A k \in Members : Placed(k)' /\ Ahead(k)'
    BY <2>1, StraysAside
  <2> QED
    BY <2>2 DEF StraysInv
<1>3. CASE (\E p \in Partitions : Produce(p)) \/ UNCHANGED vars
  <2>1. UNCHANGED <<generation, owner, committed, strayed, offsets, pc, batch, position>>
    BY <1>3 DEF Produce, vars, group
  <2> QED
    BY <2>1 DEF StraysInv, Placed, Ahead, Current, Straight, InBatch, offsets
<1> QED
  BY <1>1, <1>2, <1>3, StraysRegroup DEF Next, Regroups

LEMMA MovesBackStep ==
  ASSUME TypeOK, StraysInv, [Next]_vars, NEW p \in Partitions, committed'[p] < committed[p]
  PROVE  p \in strayed'
<1>1. PICK m \in Members : SendOffsets(m) /\ Current(m)
  <2>1. committed[p] \in Nat
    BY DEF TypeOK
  <2>2. committed' # committed
    BY <2>1
  <2> QED
    BY <2>2 DEF Next, Handle, Join, Fetch, UpsertGroup, ResolveGroup, ResolveThrows,
       CommitGroup, HeartbeatPasses, RejoinInBatch, GroupsDone, AutoResolve, Commit,
       Rejoin, BatchFails, NullText, Crash, Restart, Rebalance, Produce, vars, group,
       CommitOffsets
<1>2. p \in Uncommitted(m) /\ committed'[p] = resolved[m][p]
  BY <1>1 DEF SendOffsets, TypeOK
<1>3. p \in DOMAIN resolved[m] /\ strayed \subseteq strayed'
  BY <1>1, <1>2 DEF Uncommitted, SendOffsets
<1>4. p \in strays[m] => p \in strayed'
  BY <1>1, <1>2 DEF SendOffsets
<1>5. CASE p \in Straight(m)
  <2>1. p \in assigned[m]
    BY <1>5 DEF StraysInv, Placed
  <2>2. p \notin strayed => committed[p] <= resolved[m][p]
    BY <1>1, <1>5, <2>1 DEF StraysInv, Ahead
  <2>3. committed[p] \in Nat /\ resolved[m][p] \in 0..Len(Text[p]) /\ Len(Text[p]) \in Nat
    BY <1>3, TextLength DEF TypeOK, MemberOK
  <2> QED
    BY <1>2, <1>3, <2>2, <2>3
<1> QED
  BY <1>3, <1>4, <1>5 DEF Straight

\* Only offsets of a batch that outlived its generation move the group's offset back.
THEOREM OnlyStraysMoveBack == Spec => CommitsMoveBackByStrays
<1>1. TypeOK /\ GroupsFilled /\ StraysInv /\ [Next]_vars => StraysInv'
  BY StraysStep
<1>2. TypeOK /\ StraysInv /\ [Next]_vars
        => [\A p \in Partitions : committed'[p] < committed[p] => p \in strayed']_vars
  BY MovesBackStep
<1> QED
  BY <1>1, <1>2, StraysInit, IndexerTypes, PTL DEF Spec, CommitsMoveBackByStrays
=============================================================================
