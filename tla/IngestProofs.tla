---------------------------- MODULE IngestProofs ----------------------------
(***************************************************************************)
(* Proofs about the two writers of the database: the ingest stage, for any *)
(* group, topic and number of faults, and the workspace links of the web   *)
(* application, for any calls.                                             *)
(***************************************************************************)
EXTENDS IngestProperties, WellFoundedInduction, TLAPS

USE NoMember, MaxFaultsAssumption DEF NoMember, MaxFaultsAssumption

LEMMA LogLength == \A p \in Partitions : Len(Log[p]) \in Nat
  BY LogAssumption DEF LogAssumption

\* The keys of a longer prefix, given where the prefix was cut.
LEMMA KeysSplit ==
  ASSUME NEW p, NEW r \in Nat, NEW n \in Nat, r <= n
  PROVE  KeysUpTo(p, n) = KeysUpTo(p, r)
           \cup {Key(p, i) : i \in {j \in (r + 1)..n : Valid(p, j)}}
<1>1. \A j : j \in 1..n <=> j \in 1..r \/ j \in (r + 1)..n
  OBVIOUS
<1> QED
  BY <1>1 DEF KeysUpTo

LEMMA KeysInLog ==
  ASSUME NEW p \in Partitions, NEW i \in 1..Len(Log[p]), Valid(p, i)
  PROVE  Key(p, i) \in AllKeys
<1>1. Key(p, i) \in KeysUpTo(p, Len(Log[p]))
  BY DEF KeysUpTo
<1> QED
  BY <1>1 DEF AllKeys

\* Messages are never removed, by any step.
LEMMA MessagesGrow ==
  ASSUME [Next]_vars
  PROVE  DOMAIN messages \subseteq DOMAIN messages'
<1>1. ASSUME NEW m \in Members, InsertMessages(m)
      PROVE  DOMAIN messages \subseteq DOMAIN messages'
  BY <1>1 DEF InsertMessages
<1>2. ASSUME ~ \E m \in Members : InsertMessages(m)
      PROVE  UNCHANGED messages
  BY <1>2 DEF Next, Handle, Join, Fetch, UpsertUsers, UpsertChats,
     InsertDocuments, Resolve, Commit, Rejoin, BatchFails, Crash, Rebalance,
     vars, tables
<1> QED
  BY <1>1, <1>2

LEMMA StoredStays ==
  ASSUME [Next]_vars, NEW p, NEW n, Stored(p, n)
  PROVE  Stored(p, n)'
<1>1. KeysUpTo(p, n)' = KeysUpTo(p, n)
  BY DEF KeysUpTo
<1> QED
  BY MessagesGrow, <1>1 DEF Stored

----------------------------------------------------------------------------
(* Types.                                                                  *)

LEMMA OffsetsAreNat ==
  ASSUME NEW p \in Partitions
  PROVE  Offsets(p) \subseteq Nat /\ 0 \in Offsets(p)
  BY LogLength DEF Offsets

\* What a step of the handler leaves alone, or sets by EndBatch.
LEMMA BatchEnded ==
  ASSUME NEW m \in Members, EndBatch(m), DOMAIN batch = Members
  PROVE  DOMAIN batch' = Members
           /\ \A q \in Members : q # m => batch'[q] = batch[q]
  BY DEF EndBatch

THEOREM TypeCorrect == Spec => []TypeOK
<1>1. Init => TypeOK
  BY OffsetsAreNat DEF Init, TypeOK, Steps, EmptyMap, InBatch
<1>2. ASSUME TypeOK, [Next]_vars
      PROVE  TypeOK'
  <2> USE <1>2, OffsetsAreNat
  <2>1. ASSUME NEW m \in Members, Join(m)
        PROVE  TypeOK'
    BY <2>1 DEF TypeOK, Join, Goto, InBatch, Steps, group, tables
  <2>2. ASSUME NEW m \in Members, Fetch(m)
        PROVE  TypeOK'
    <3>1. PICK p \in DOMAIN resolved[m] :
            \E to \in (resolved[m][p] + 1)..Len(Log[p]) :
              batch' = [batch EXCEPT ![m] = [partition |-> p,
                                             from |-> resolved[m][p] + 1,
                                             to |-> to]]
      BY <2>2 DEF Fetch
    <3>2. PICK to \in (resolved[m][p] + 1)..Len(Log[p]) :
              batch' = [batch EXCEPT ![m] = [partition |-> p,
                                             from |-> resolved[m][p] + 1,
                                             to |-> to]]
      BY <3>1
    <3>3. p \in Partitions /\ resolved[m][p] \in Nat /\ Len(Log[p]) \in Nat
      BY LogLength DEF TypeOK
    <3>4. to \in Offsets(p) /\ resolved[m][p] + 1 \in 1..to
      BY <3>2, <3>3 DEF Offsets
    <3> QED
      BY <2>2, <3>2, <3>3, <3>4 DEF TypeOK, Fetch, Goto, InBatch, Steps, group,
         tables
  <2>3. ASSUME NEW m \in Members,
               UpsertUsers(m) \/ UpsertChats(m) \/ InsertDocuments(m)
        PROVE  TypeOK'
    BY <2>3 DEF TypeOK, UpsertUsers, UpsertChats, InsertDocuments, Goto,
       InBatch, Steps, group
  <2>4. ASSUME NEW m \in Members, InsertMessages(m)
        PROVE  TypeOK'
    <3>1. DOMAIN messages' \subseteq AllKeys
      <4>1. DOMAIN messages' =
              DOMAIN messages \cup {BatchKey(m, i) : i \in Values(m)}
        BY <2>4 DEF InsertMessages
      <4>2. ASSUME NEW i \in Values(m)
            PROVE  BatchKey(m, i) \in AllKeys
        <5>1. /\ batch[m].partition \in Partitions
              /\ i \in 1..Len(Log[batch[m].partition])
              /\ Valid(batch[m].partition, i)
          BY <2>4, <4>2, LogLength DEF InsertMessages, Goto, TypeOK, InBatch,
             Values, Offsets
        <5> QED
          BY <5>1, KeysInLog DEF BatchKey
      <4> QED
        BY <4>1, <4>2 DEF TypeOK
    <3>2. AllKeys' = AllKeys
      BY DEF AllKeys, KeysUpTo
    <3> QED
      BY <2>4, <3>1, <3>2 DEF TypeOK, InsertMessages, Goto, InBatch, Steps,
         group
  <2>5. ASSUME NEW m \in Members, Resolve(m)
        PROVE  TypeOK'
    BY <2>5 DEF TypeOK, Resolve, Goto, InBatch, Steps, group, tables
  <2>6. ASSUME NEW m \in Members, CommitResolved(m)
        PROVE  /\ committed' \in [Partitions -> Nat]
               /\ \A p \in Partitions : committed'[p] \in Offsets(p)
    BY <2>6 DEF CommitResolved, TypeOK
  <2>7. ASSUME NEW m \in Members, Commit(m)
        PROVE  TypeOK'
    BY <2>6, <2>7, BatchEnded DEF TypeOK, Commit, Goto, InBatch, Steps, tables
  <2>8. ASSUME NEW m \in Members, BatchFails(m)
        PROVE  TypeOK'
    <3>1. /\ committed' \in [Partitions -> Nat]
          /\ \A p \in Partitions : committed'[p] \in Offsets(p)
      BY <2>6, <2>8 DEF BatchFails, TypeOK
    <3> QED
      BY <2>8, <3>1, BatchEnded DEF TypeOK, BatchFails, InBatch, Steps, tables
  <2>9. ASSUME NEW m \in Members, Rejoin(m)
        PROVE  TypeOK'
    BY <2>9, BatchEnded DEF TypeOK, Rejoin, InBatch, Steps, group, tables
  <2>12. ASSUME NEW m \in Members, Crash(m)
        PROVE  TypeOK'
    <3>1. DOMAIN EmptyMap = {}
      BY DEF EmptyMap
    <3>2. /\ DOMAIN resolved' = Members
          /\ \A q \in Members :
               resolved'[q] = IF q = m THEN EmptyMap ELSE resolved[q]
      BY <2>12 DEF Crash, TypeOK
    <3>3. /\ pc' \in [Members -> Steps]
          /\ \A q \in Members : InBatch(q)' => q # m /\ InBatch(q)
          /\ faults' \in 0..MaxFaults /\ joined' \in [Members -> Nat]
      BY <2>12 DEF Crash, TypeOK, InBatch, Steps
    <3>4. \A q \in Members : q # m => batch'[q] = batch[q]
      BY <2>12, BatchEnded DEF Crash, TypeOK
    <3>5. DOMAIN batch' = Members
      BY <2>12, BatchEnded DEF Crash, TypeOK
    <3> QED
      BY <2>12, <3>1, <3>2, <3>3, <3>4, <3>5 DEF TypeOK, Crash, group, tables
  <2>10. CASE Rebalance
    BY <2>10 DEF TypeOK, Rebalance, InBatch, tables, member
  <2>11. CASE UNCHANGED vars
    BY <2>11 DEF TypeOK, vars, group, tables, member, InBatch
  <2> QED
    BY <2>1, <2>2, <2>3, <2>4, <2>5, <2>7, <2>8, <2>9, <2>10, <2>11,
       <2>12 DEF Next, Handle
<1> QED
  BY <1>1, <1>2, PTL DEF Spec

----------------------------------------------------------------------------
(* At least once.                                                          *)

\* What a member is about to acknowledge is stored: everything up to its
\* resolved offsets, and the batch once its messages are inserted.  None of
\* this depends on who owns the partition, so a late member does no harm.
StoredInv ==
  /\ CommittedIsStored
  /\ \A m \in Members : \A p \in DOMAIN resolved[m] : Stored(p, resolved[m][p])
  /\ \A m \in Members :
       InBatch(m) /\ pc[m] # "commit"
         => batch[m].from = resolved[m][batch[m].partition] + 1
  /\ \A m \in Members :
       pc[m] = "resolve" => Stored(batch[m].partition, batch[m].to)

LEMMA NothingToStore == \A p : Stored(p, 0)
<1>1. 1..0 = {}
  OBVIOUS
<1> QED
  BY <1>1 DEF Stored, KeysUpTo

LEMMA CommitStored ==
  ASSUME NEW m \in Members, CommitResolved(m), StoredInv, TypeOK, [Next]_vars
  PROVE  CommittedIsStored'
  BY StoredStays DEF CommitResolved, StoredInv, CommittedIsStored, TypeOK

THEOREM StoredInvariant == Spec => [](TypeOK /\ StoredInv)
<1> DEFINE Inv == TypeOK /\ StoredInv
<1>1. Init => StoredInv
  BY NothingToStore
     DEF Init, StoredInv, CommittedIsStored, EmptyMap, InBatch
<1>2. ASSUME TypeOK, TypeOK', StoredInv, [Next]_vars
      PROVE  StoredInv'
  <2> USE <1>2
  \* A step that moves no offset and no batch keeps the invariant.
  <2>1. ASSUME UNCHANGED <<committed, resolved>>,
               NEW m \in Members,
               \A q \in Members : q # m => /\ pc'[q] = pc[q]
                                           /\ batch'[q] = batch[q],
               pc'[m] # "resolve",
               \/ pc'[m] \in {"join", "idle", "commit"}
               \/ InBatch(m) /\ pc[m] # "commit" /\ batch'[m] = batch[m]
        PROVE  StoredInv'
    <3>1. CommittedIsStored'
      BY <2>1, StoredStays DEF StoredInv, CommittedIsStored
    <3>2. \A q \in Members : \A p \in DOMAIN resolved'[q] :
            Stored(p, resolved[q][p])'
      BY <2>1, StoredStays DEF StoredInv
    <3>3. \A q \in Members :
            InBatch(q)' /\ pc'[q] # "commit"
              => batch'[q].from = resolved'[q][batch'[q].partition] + 1
      BY <2>1 DEF StoredInv, InBatch
    <3>4. \A q \in Members :
            pc'[q] = "resolve" => Stored(batch[q].partition, batch[q].to)'
      <4>1. \A q \in Members :
              q # m /\ pc[q] = "resolve"
                => Stored(batch[q].partition, batch[q].to)
        BY DEF StoredInv
      <4> QED
        BY <2>1, <4>1, StoredStays DEF Stored, KeysUpTo
    <3> QED
      BY <2>1, <3>1, <3>2, <3>3, <3>4 DEF StoredInv
  <2>2. ASSUME NEW m \in Members, Join(m)
        PROVE  StoredInv'
    <3>1. CommittedIsStored'
      BY <2>2, StoredStays DEF Join, group, StoredInv, CommittedIsStored
    <3>2. \A q \in Members : \A p \in DOMAIN resolved'[q] :
            Stored(p, resolved'[q][p])
      BY <2>2 DEF Join, StoredInv, CommittedIsStored, TypeOK
    <3>3. \A q \in Members : \A p \in DOMAIN resolved'[q] :
            Stored(p, resolved[q][p])'
      BY <2>2, <3>2 DEF Stored, KeysUpTo, Join, tables
    <3>4. /\ pc'[m] = "idle"
          /\ \A q \in Members : q # m => pc'[q] = pc[q]
                                        /\ resolved'[q] = resolved[q]
          /\ UNCHANGED <<batch, messages>>
      BY <2>2 DEF Join, Goto, TypeOK, tables
    <3>5. \A q \in Members :
            InBatch(q)' /\ pc'[q] # "commit"
              => batch'[q].from = resolved'[q][batch'[q].partition] + 1
      BY <3>4 DEF StoredInv, InBatch
    <3>6. \A q \in Members :
            pc'[q] = "resolve" => Stored(batch[q].partition, batch[q].to)'
      BY <3>4 DEF StoredInv, Stored, KeysUpTo
    <3> QED
      BY <3>1, <3>3, <3>5, <3>6 DEF StoredInv
  <2>3. ASSUME NEW m \in Members, Fetch(m)
        PROVE  StoredInv'
    <3>1. /\ pc'[m] = "users"
          /\ \A q \in Members : q # m => /\ pc'[q] = pc[q]
                                        /\ batch'[q] = batch[q]
          /\ UNCHANGED <<committed, resolved, messages>>
          /\ batch'[m].from = resolved[m][batch'[m].partition] + 1
      BY <2>3 DEF Fetch, Goto, TypeOK, group, tables
    <3>2. \A q \in Members :
            pc'[q] = "resolve" => Stored(batch[q].partition, batch[q].to)'
      BY <3>1 DEF StoredInv, Stored, KeysUpTo
    <3>3. \A q \in Members :
            InBatch(q)' /\ pc'[q] # "commit"
              => batch'[q].from = resolved'[q][batch'[q].partition] + 1
      BY <3>1 DEF StoredInv, InBatch
    <3>4. /\ CommittedIsStored'
          /\ \A q \in Members : \A p \in DOMAIN resolved'[q] :
               Stored(p, resolved[q][p])'
      BY <3>1 DEF StoredInv, CommittedIsStored, Stored, KeysUpTo
    <3> QED
      BY <3>2, <3>3, <3>4 DEF StoredInv
  <2>4. ASSUME NEW m \in Members,
               UpsertUsers(m) \/ UpsertChats(m) \/ InsertDocuments(m)
        PROVE  StoredInv'
    <3>1. /\ UNCHANGED <<committed, resolved, batch>>
          /\ \A q \in Members : q # m => pc'[q] = pc[q]
          /\ pc'[m] # "resolve" /\ InBatch(m) /\ pc[m] # "commit"
      BY <2>4 DEF UpsertUsers, UpsertChats, InsertDocuments, Goto, InBatch,
         TypeOK, group
    <3> QED
      BY <2>1, <3>1
  <2>5. ASSUME NEW m \in Members, InsertMessages(m)
        PROVE  StoredInv'
    <3>1. /\ UNCHANGED <<committed, resolved, batch>>
          /\ \A q \in Members : q # m => pc'[q] = pc[q]
          /\ pc[m] = "messages"
          /\ InBatch(m)
      BY <2>5 DEF InsertMessages, Goto, InBatch, TypeOK, group
    <3>2. Stored(batch[m].partition, batch[m].to)'
      <4> DEFINE p == batch[m].partition
                 r == resolved[m][p]
                 n == batch[m].to
      <4>1. p \in Partitions /\ r \in Nat /\ n \in Nat /\ r <= n
              /\ batch[m].from = r + 1
        <5>1. /\ p \in DOMAIN resolved[m]
              /\ batch[m].from \in 1..n /\ n \in Offsets(p)
              /\ batch[m].from = r + 1
          BY <3>1 DEF TypeOK, StoredInv
        <5>2. p \in Partitions /\ r \in Offsets(p)
          BY <5>1 DEF TypeOK
        <5>3. r \in Nat /\ n \in Nat
          BY <5>1, <5>2, OffsetsAreNat
        <5> QED
          BY <5>1, <5>2, <5>3
      <4>2. Stored(p, r)'
        <5>1. p \in DOMAIN resolved[m]
          BY <3>1 DEF TypeOK
        <5>2. Stored(p, r)
          BY <5>1 DEF StoredInv
        <5>3. KeysUpTo(p, r) \subseteq DOMAIN messages'
          BY <5>2, MessagesGrow DEF Stored
        <5> QED
          BY <3>1, <5>3 DEF Stored, KeysUpTo
      <4>3. {Key(p, i) : i \in {j \in (r + 1)..n : Valid(p, j)}}
              \subseteq DOMAIN messages'
        BY <2>5, <4>1 DEF InsertMessages, Values, BatchKey
      <4>4. KeysUpTo(p, n) \subseteq DOMAIN messages'
        <5>1. KeysUpTo(p, r) \subseteq DOMAIN messages'
          BY <3>1, <4>2 DEF Stored, KeysUpTo
        <5> QED
          BY <4>1, <4>3, <5>1, KeysSplit
      <4> QED
        BY <3>1, <4>4 DEF Stored, KeysUpTo
    <3>3. \A q \in Members :
            pc'[q] = "resolve" => Stored(batch[q].partition, batch[q].to)'
      <4>1. \A q \in Members \ {m} :
              pc'[q] = "resolve" => Stored(batch[q].partition, batch[q].to)
        BY <3>1 DEF StoredInv
      <4> QED
        BY <3>1, <3>2, <4>1, MessagesGrow DEF Stored, KeysUpTo
    <3>4. /\ CommittedIsStored'
          /\ \A q \in Members : \A p \in DOMAIN resolved'[q] :
               Stored(p, resolved[q][p])'
      BY <3>1, StoredStays DEF StoredInv, CommittedIsStored
    <3>5. \A q \in Members :
            InBatch(q)' /\ pc'[q] # "commit"
              => batch'[q].from = resolved'[q][batch'[q].partition] + 1
      BY <3>1 DEF StoredInv, InBatch
    <3> QED
      BY <3>3, <3>4, <3>5 DEF StoredInv
  <2>6. ASSUME NEW m \in Members, Resolve(m)
        PROVE  StoredInv'
    <3>1. /\ UNCHANGED <<committed, batch, messages>>
          /\ \A q \in Members : q # m => pc'[q] = pc[q]
          /\ pc[m] = "resolve" /\ pc'[m] = "commit"
          /\ \A q \in Members : q # m => resolved'[q] = resolved[q]
          /\ resolved'[m] = [resolved[m] EXCEPT ![batch[m].partition] =
                                                 batch[m].to]
      BY <2>6 DEF Resolve, Goto, TypeOK, group, tables
    <3>2. Stored(batch[m].partition, batch[m].to)
      BY <3>1 DEF StoredInv
    <3>3. \A q \in Members : \A p \in DOMAIN resolved'[q] :
            Stored(p, resolved'[q][p])
      BY <3>1, <3>2 DEF StoredInv
    <3>4. \A q \in Members : \A p \in DOMAIN resolved'[q] :
            Stored(p, resolved[q][p])'
      BY <3>1, <3>3 DEF Stored, KeysUpTo
    <3>5. CommittedIsStored'
      BY <3>1, StoredStays DEF StoredInv, CommittedIsStored
    <3>6. \A q \in Members :
            pc'[q] = "resolve" => Stored(batch[q].partition, batch[q].to)'
      BY <3>1 DEF StoredInv, Stored, KeysUpTo
    <3>7. \A q \in Members :
            InBatch(q)' /\ pc'[q] # "commit"
              => batch'[q].from = resolved'[q][batch'[q].partition] + 1
      BY <3>1 DEF StoredInv, InBatch
    <3> QED
      BY <3>4, <3>5, <3>6, <3>7 DEF StoredInv
  <2>7. ASSUME NEW m \in Members, Commit(m) \/ BatchFails(m)
        PROVE  StoredInv'
    <3>1. /\ UNCHANGED <<resolved, messages>>
          /\ \A q \in Members : q # m => /\ pc'[q] = pc[q]
                                        /\ batch'[q] = batch[q]
          /\ pc'[m] = "idle"
      BY <2>7, BatchEnded DEF Commit, BatchFails, Goto, TypeOK, tables
    <3>2. CommittedIsStored'
      <4>1. CASE CommitResolved(m)
        BY <4>1, CommitStored
      <4>2. CASE UNCHANGED committed
        BY <4>2, StoredStays DEF StoredInv, CommittedIsStored
      <4> QED
        BY <2>7, <4>1, <4>2 DEF Commit, BatchFails
    <3>3. \A q \in Members : \A p \in DOMAIN resolved'[q] :
            Stored(p, resolved[q][p])'
      BY <3>1, StoredStays DEF StoredInv
    <3>4. \A q \in Members :
            InBatch(q)' /\ pc'[q] # "commit"
              => batch'[q].from = resolved'[q][batch'[q].partition] + 1
      BY <3>1 DEF StoredInv, InBatch
    <3>5. \A q \in Members :
            pc'[q] = "resolve" => Stored(batch[q].partition, batch[q].to)'
      BY <3>1 DEF StoredInv, Stored, KeysUpTo
    <3> QED
      BY <3>2, <3>3, <3>4, <3>5 DEF StoredInv
  <2>8. ASSUME NEW m \in Members, Rejoin(m)
        PROVE  StoredInv'
    <3>1. /\ UNCHANGED <<committed, resolved>>
          /\ \A q \in Members : q # m => /\ pc'[q] = pc[q]
                                        /\ batch'[q] = batch[q]
          /\ pc'[m] = "join"
      BY <2>8, BatchEnded DEF Rejoin, TypeOK, group
    <3> QED
      BY <2>1, <3>1
  <2>9. ASSUME NEW m \in Members, Crash(m)
        PROVE  StoredInv'
    <3>1. /\ UNCHANGED <<committed, messages>>
          /\ \A q \in Members : q # m => /\ pc'[q] = pc[q]
                                        /\ batch'[q] = batch[q]
                                        /\ resolved'[q] = resolved[q]
          /\ pc'[m] = "join"
          /\ DOMAIN resolved'[m] = {}
      BY <2>9, BatchEnded DEF Crash, TypeOK, group, tables, EmptyMap
    <3>2. /\ CommittedIsStored'
          /\ \A q \in Members : \A p \in DOMAIN resolved'[q] :
               Stored(p, resolved[q][p])'
      BY <3>1 DEF StoredInv, CommittedIsStored, Stored, KeysUpTo
    <3>3. \A q \in Members :
            InBatch(q)' /\ pc'[q] # "commit"
              => batch'[q].from = resolved'[q][batch'[q].partition] + 1
      BY <3>1 DEF StoredInv, InBatch
    <3>4. \A q \in Members :
            pc'[q] = "resolve" => Stored(batch[q].partition, batch[q].to)'
      BY <3>1 DEF StoredInv, Stored, KeysUpTo
    <3> QED
      BY <3>2, <3>3, <3>4 DEF StoredInv
  <2>10. CASE Rebalance \/ UNCHANGED vars
    BY <2>10 DEF Rebalance, vars, group, tables, member, StoredInv,
       CommittedIsStored, Stored, KeysUpTo, InBatch
  <2> QED
    BY <2>2, <2>3, <2>4, <2>5, <2>6, <2>7, <2>8, <2>9, <2>10 DEF Next, Handle
<1> QED
  BY <1>1, <1>2, TypeCorrect, PTL DEF Spec

\* For every group and topic, a committed event is a stored event.
THEOREM CommitsAreSafe == Spec => []CommittedIsStored
  BY StoredInvariant, PTL DEF StoredInv

----------------------------------------------------------------------------
(* The sink.                                                               *)

\* A member of the current generation holds the partitions that generation
\* gave it and has resolved at least what is committed of them: only the owner
\* of a partition commits its offsets, so they never move back.
OwnerInv ==
  /\ \A m \in Members : joined[m] <= generation
  /\ \A m \in Members : Current(m) =>
       \A p \in DOMAIN resolved[m] :
         owner[p] = m /\ committed[p] <= resolved[m][p]

LEMMA CommitMonotone ==
  ASSUME NEW m \in Members, Current(m), CommitResolved(m), TypeOK, OwnerInv
  PROVE  /\ committed' \in [Partitions -> Nat]
         /\ \A p \in Partitions :
              /\ committed[p] <= committed'[p]
              /\ p \in DOMAIN resolved[m] => committed'[p] = resolved[m][p]
              /\ p \notin DOMAIN resolved[m] => committed'[p] = committed[p]
<1>1. \A p \in DOMAIN resolved[m] : p \in Partitions /\ resolved[m][p] \in Nat
  BY OffsetsAreNat DEF TypeOK
<1> QED
  BY <1>1 DEF CommitResolved, TypeOK, OwnerInv

LEMMA CommitKeepsOwner ==
  ASSUME NEW m \in Members, Current(m), CommitResolved(m), TypeOK, OwnerInv,
         UNCHANGED <<generation, owner, joined, resolved>>
  PROVE  OwnerInv'
<1>1. \A q \in Members : \A p \in DOMAIN resolved[q] :
        p \in Partitions /\ resolved[q][p] \in Nat
  BY OffsetsAreNat DEF TypeOK
<1>2. ASSUME NEW q \in Members, Current(q), NEW p \in DOMAIN resolved[q]
      PROVE  owner[p] = q /\ committed'[p] <= resolved[q][p]
  <2>1. owner[p] = q /\ committed[p] <= resolved[q][p]
    BY <1>2 DEF OwnerInv
  <2>2. CASE q = m
    BY <1>1, <2>1, <2>2, CommitMonotone
  <2>3. CASE q # m
    <3>1. p \notin DOMAIN resolved[m]
      BY <2>1, <2>3 DEF OwnerInv
    <3> QED
      BY <1>1, <2>1, <3>1, CommitMonotone
  <2> QED
    BY <2>2, <2>3
<1> QED
  BY <1>2 DEF OwnerInv, Current

THEOREM OwnerInvariant == Spec => [](TypeOK /\ StoredInv /\ OwnerInv)
<1>1. Init => OwnerInv
  BY DEF Init, OwnerInv, Current
<1>2. ASSUME TypeOK, StoredInv, OwnerInv, [Next]_vars
      PROVE  OwnerInv'
  <2> USE <1>2
  <2>1. ASSUME NEW m \in Members, Join(m)
        PROVE  OwnerInv'
    BY <2>1 DEF Join, group, OwnerInv, Current, TypeOK
  <2>2. ASSUME NEW m \in Members,
               \/ Fetch(m) \/ UpsertUsers(m) \/ UpsertChats(m)
               \/ InsertDocuments(m) \/ InsertMessages(m) \/ Rejoin(m)
        PROVE  OwnerInv'
    BY <2>2 DEF Fetch, UpsertUsers, UpsertChats, InsertDocuments,
       InsertMessages, Rejoin, group, OwnerInv, Current
  <2>3. ASSUME NEW m \in Members, Resolve(m)
        PROVE  OwnerInv'
    <3> DEFINE b == batch[m].partition
    <3>1. /\ b \in DOMAIN resolved[m] /\ b \in Partitions
          /\ committed[b] \in Nat /\ resolved[m][b] \in Nat
          /\ batch[m].to \in Nat
          /\ resolved[m][b] <= batch[m].to
      <4>1. InBatch(m) /\ pc[m] = "resolve"
        BY <2>3 DEF Resolve, Goto, InBatch
      <4>2. /\ b \in DOMAIN resolved[m] /\ batch[m].from \in 1..batch[m].to
            /\ batch[m].to \in Offsets(b)
            /\ batch[m].from = resolved[m][b] + 1
        BY <2>3, <4>1 DEF TypeOK, StoredInv
      <4>3. b \in Partitions /\ committed[b] \in Nat
              /\ resolved[m][b] \in Offsets(b)
        BY <4>2 DEF TypeOK
      <4>4. resolved[m][b] \in Nat /\ batch[m].to \in Nat
        BY <4>2, <4>3, OffsetsAreNat
      <4> QED
        BY <4>2, <4>3, <4>4
    <3>2. /\ UNCHANGED <<generation, owner, committed, joined>>
          /\ \A q \in Members : q # m => resolved'[q] = resolved[q]
          /\ resolved'[m] = [resolved[m] EXCEPT ![b] = batch[m].to]
      BY <2>3 DEF Resolve, group, TypeOK
    <3> QED
      BY <3>1, <3>2 DEF OwnerInv, Current
  <2>4. ASSUME NEW m \in Members, Commit(m) \/ BatchFails(m)
        PROVE  OwnerInv'
    <3>1. CASE Current(m) /\ CommitResolved(m)
      BY <2>4, <3>1, CommitKeepsOwner DEF Commit, BatchFails
    <3>2. CASE UNCHANGED committed
      BY <2>4, <3>2 DEF Commit, BatchFails, OwnerInv, Current
    <3> QED
      BY <2>4, <3>1, <3>2 DEF Commit, BatchFails
  <2>5. ASSUME NEW m \in Members, Crash(m)
        PROVE  OwnerInv'
    BY <2>5 DEF Crash, group, OwnerInv, Current, EmptyMap, TypeOK
  <2>6. CASE Rebalance
    BY <2>6 DEF Rebalance, member, OwnerInv, Current, TypeOK
  <2>7. CASE UNCHANGED vars
    BY <2>7 DEF vars, group, member, OwnerInv, Current
  <2> QED
    BY <2>1, <2>2, <2>3, <2>4, <2>5, <2>6, <2>7 DEF Next, Handle
<1> QED
  BY <1>1, <1>2, StoredInvariant, PTL DEF Spec

\* The ingest stage implements the sink: whatever members are late, crash or
\* take a batch over, offsets are acknowledged in order and after the store.
THEOREM IngestIsASink == Spec => ImplementsSink
<1>1. Init => Sink!SinkInit
  BY DEF Init, Sink!SinkInit, EmptyMap
<1>2. ASSUME TypeOK, TypeOK', StoredInv, StoredInv', OwnerInv, [Next]_vars
      PROVE  [Sink!SinkNext]_(Sink!sinkVars)
  <2> USE <1>2
  <2>1. ASSUME NEW m \in Members, InsertMessages(m)
        PROVE  Sink!Store
    <3>1. DOMAIN messages \subseteq DOMAIN messages'
      BY MessagesGrow
    <3>2. DOMAIN messages' \in SUBSET AllKeys
      BY DEF TypeOK, AllKeys, KeysUpTo
    <3>3. DOMAIN messages' = DOMAIN messages \cup DOMAIN messages'
      BY <3>1
    <3>4. UNCHANGED committed
      BY <2>1 DEF InsertMessages, group
    <3> QED
      BY <3>2, <3>3, <3>4 DEF Sink!Store
  <2>2. ASSUME NEW m \in Members, Current(m), CommitResolved(m),
               UNCHANGED messages
        PROVE  Sink!Acknowledge
    <3>1. /\ committed' \in [Partitions -> Nat]
          /\ \A p \in Partitions : committed[p] <= committed'[p]
      BY <2>2, CommitMonotone
    <3>2. \A p \in Partitions :
            KeysUpTo(p, committed'[p]) \subseteq DOMAIN messages
      BY <2>2 DEF StoredInv, CommittedIsStored, Stored, KeysUpTo
    <3>3. \A p \in Partitions : committed'[p] >= committed[p]
      BY <3>1 DEF TypeOK
    <3> QED
      BY <2>2, <3>1, <3>2, <3>3 DEF Sink!Acknowledge
  <2>3. ASSUME UNCHANGED <<messages, committed>>
        PROVE  UNCHANGED Sink!sinkVars
    BY <2>3 DEF Sink!sinkVars
  <2>4. ASSUME NEW m \in Members, Commit(m) \/ BatchFails(m)
        PROVE  [Sink!SinkNext]_(Sink!sinkVars)
    <3>1. UNCHANGED messages
      BY <2>4 DEF Commit, BatchFails, tables
    <3>2. (Current(m) /\ CommitResolved(m)) \/ UNCHANGED committed
      BY <2>4 DEF Commit, BatchFails
    <3> QED
      BY <2>2, <2>3, <3>1, <3>2 DEF Sink!SinkNext
  <2>5. ASSUME NEW m \in Members,
               \/ Join(m) \/ Fetch(m) \/ UpsertUsers(m) \/ UpsertChats(m)
               \/ InsertDocuments(m) \/ Resolve(m) \/ Rejoin(m) \/ Crash(m)
        PROVE  UNCHANGED <<messages, committed>>
    BY <2>5 DEF Join, Fetch, UpsertUsers, UpsertChats, InsertDocuments, Resolve,
       Rejoin, Crash, group, tables
  <2>6. CASE Rebalance \/ UNCHANGED vars
    BY <2>3, <2>6 DEF Rebalance, vars, group, tables
  <2> QED
    BY <2>1, <2>3, <2>4, <2>5, <2>6 DEF Next, Handle, Sink!SinkNext
<1> QED
  BY <1>1, <1>2, OwnerInvariant, PTL DEF Spec, ImplementsSink, Sink!SinkSpec

----------------------------------------------------------------------------
(* Nothing regresses.                                                      *)

DatesAreNat == \A c \in DOMAIN chats : chats[c] \in Nat

\* The date UpsertChats writes for a chat of the batch.
LEMMA BatchDate ==
  ASSUME TypeOK, NEW m \in Members, pc[m] = "chats",
         NEW c \in Found(m, "chat")
  PROVE  BatchEvent(m, FirstWith(m, "chat", c)).date \in Nat
<1> DEFINE p == batch[m].partition
           i == FirstWith(m, "chat", c)
<1>1. i \in Unique(m, "chat")
  <2>1. PICK j \in Unique(m, "chat") : BatchEvent(m, j)["chat"] = c
    BY DEF Found
  <2> QED
    BY <2>1 DEF FirstWith
<1>2. i \in batch[m].from..batch[m].to
  BY <1>1 DEF Unique, Values
<1>3. p \in Partitions /\ batch[m].from \in 1..batch[m].to
        /\ batch[m].to \in 0..Len(Log[p])
  BY DEF TypeOK, InBatch, Offsets
<1>4. i \in 1..Len(Log[p])
  BY <1>2, <1>3, LogLength
<1>5. Log[p] \in Seq([chat : STRING \cup {None}, msg : STRING,
                     user : STRING \cup {None}, name : STRING \cup {None},
                     file : STRING \cup {None}, date : Nat])
  BY <1>3, LogAssumption DEF LogAssumption
<1>6. Log[p][i].date \in Nat
  <2> DEFINE Row == [chat : STRING \cup {None}, msg : STRING,
                     user : STRING \cup {None}, name : STRING \cup {None},
                     file : STRING \cup {None}, date : Nat]
             log == Log[p]
  <2>1. log \in Seq(Row) /\ i \in 1..Len(log)
    BY <1>4, <1>5
  <2>2. \A r \in Row : r.date \in Nat
    OBVIOUS
  <2> HIDE DEF Row, log, p, i
  <2>3. log[i] \in Row
    BY <2>1
  <2>4. log[i].date \in Nat
    BY <2>2, <2>3
  <2> QED
    BY <2>4 DEF log
<1> QED
  BY <1>6 DEF BatchEvent, Event

LEMMA DateStep ==
  ASSUME TypeOK, DatesAreNat, [Next]_vars
  PROVE  /\ DatesAreNat'
         /\ \A c \in DOMAIN chats : c \in DOMAIN chats' /\ chats'[c] >= chats[c]
<1>1. ASSUME NEW m \in Members, UpsertChats(m)
      PROVE  /\ DatesAreNat'
             /\ \A c \in DOMAIN chats :
                  c \in DOMAIN chats' /\ chats'[c] >= chats[c]
  <2> DEFINE date(c) == BatchEvent(m, FirstWith(m, "chat", c)).date
  <2>1. \A c \in Found(m, "chat") : date(c) \in Nat
    BY <1>1, BatchDate DEF UpsertChats, Goto
  <2>2. chats' = [c \in DOMAIN chats \cup Found(m, "chat") |->
                    IF c \notin Found(m, "chat") THEN chats[c]
                    ELSE IF c \notin DOMAIN chats THEN date(c)
                    ELSE Greatest(chats[c], date(c))]
    BY <1>1 DEF UpsertChats
  <2> HIDE DEF date
  <2>3. DOMAIN chats' = DOMAIN chats \cup Found(m, "chat")
    BY <2>2
  <2>4. \A c \in DOMAIN chats' :
          chats'[c] = IF c \notin Found(m, "chat") THEN chats[c]
                      ELSE IF c \notin DOMAIN chats THEN date(c)
                      ELSE IF chats[c] >= date(c) THEN chats[c] ELSE date(c)
    BY <2>2 DEF Greatest
  <2>5. DatesAreNat'
    BY <2>1, <2>3, <2>4 DEF DatesAreNat
  <2>6. \A c \in DOMAIN chats : chats'[c] >= chats[c]
    BY <2>1, <2>3, <2>4 DEF DatesAreNat
  <2> QED
    BY <2>3, <2>5, <2>6
<1>2. ASSUME ~ \E m \in Members : UpsertChats(m)
      PROVE  UNCHANGED chats
  BY <1>2 DEF Next, Handle, Join, Fetch, UpsertUsers, InsertDocuments,
     InsertMessages, Resolve, Commit, Rejoin, BatchFails, Crash, Rebalance,
     vars, tables
<1> QED
  BY <1>1, <1>2 DEF DatesAreNat

LEMMA UserStep ==
  ASSUME [Next]_vars
  PROVE  \A u \in DOMAIN users :
           u \in DOMAIN users' /\ (users[u] # None => users'[u] # None)
<1>1. ASSUME NEW m \in Members, UpsertUsers(m)
      PROVE  \A u \in DOMAIN users :
               u \in DOMAIN users' /\ (users[u] # None => users'[u] # None)
  BY <1>1 DEF UpsertUsers, Coalesce
<1>2. ASSUME ~ \E m \in Members : UpsertUsers(m)
      PROVE  UNCHANGED users
  BY <1>2 DEF Next, Handle, Join, Fetch, UpsertChats, InsertDocuments,
     InsertMessages, Resolve, Commit, Rejoin, BatchFails, Crash, Rebalance,
     vars, tables
<1> QED
  BY <1>1, <1>2

LEMMA MessageStep ==
  ASSUME [Next]_vars
  PROVE  \A k \in DOMAIN messages :
           k \in DOMAIN messages' /\ messages'[k] = messages[k]
<1>1. ASSUME NEW m \in Members, InsertMessages(m)
      PROVE  \A k \in DOMAIN messages :
               k \in DOMAIN messages' /\ messages'[k] = messages[k]
  BY <1>1 DEF InsertMessages
<1>2. ASSUME ~ \E m \in Members : InsertMessages(m)
      PROVE  UNCHANGED messages
  BY <1>2 DEF Next, Handle, Join, Fetch, UpsertUsers, UpsertChats,
     InsertDocuments, Resolve, Commit, Rejoin, BatchFails, Crash, Rebalance,
     vars, tables
<1> QED
  BY <1>1, <1>2

\* Redelivery and late members never undo what is in the tables.
THEOREM RedeliveryUndoesNothing == Spec => NothingRegresses
<1>1. Init => DatesAreNat
  BY DEF Init, DatesAreNat, EmptyMap
<1>2. TypeOK /\ DatesAreNat /\ [Next]_vars => DatesAreNat'
  BY DateStep
<1>3. TypeOK /\ DatesAreNat /\ [Next]_vars
        => [ /\ \A k \in DOMAIN messages :
                  k \in DOMAIN messages' /\ messages'[k] = messages[k]
             /\ \A c \in DOMAIN chats :
                  c \in DOMAIN chats' /\ chats'[c] >= chats[c]
             /\ \A u \in DOMAIN users :
                  /\ u \in DOMAIN users'
                  /\ users[u] # None => users'[u] # None ]_vars
  BY DateStep, UserStep, MessageStep
<1> QED
  BY <1>1, <1>2, <1>3, TypeCorrect, PTL DEF Spec, NothingRegresses
----------------------------------------------------------------------------
(* References.                                                             *)

\* A set of indexes that is not empty has a least one.
LEMMA LeastIndex ==
  ASSUME NEW S \in SUBSET Nat, S # {}
  PROVE  \E x \in S : \A y \in S : x <= y
<1> DEFINE Less == OpToRel(<, Nat)
<1>1. IsWellFoundedOn(Less, Nat)
  BY NatLessThanWellFounded, Zenon
<1>2. \A x, y \in Nat : x < y => <<x, y>> \in Less
  BY Zenon DEF OpToRel
<1> HIDE DEF Less
<1>3. PICK x \in S : \A y \in S : ~ (<<y, x>> \in Less)
  BY <1>1, WFMin, Zenon
<1>4. \A y \in S : ~ (y < x)
  BY <1>2, <1>3
<1> QED
  BY <1>4

LEMMA ValuesInLog ==
  ASSUME TypeOK, NEW m \in Members, InBatch(m)
  PROVE  /\ batch[m].partition \in Partitions
         /\ Values(m) \subseteq 1..Len(Log[batch[m].partition])
         /\ Values(m) \subseteq Nat
<1>1. /\ batch[m].partition \in Partitions
      /\ batch[m].from \in 1..batch[m].to
      /\ batch[m].to \in 0..Len(Log[batch[m].partition])
  BY DEF TypeOK, Offsets
<1>2. Len(Log[batch[m].partition]) \in Nat
  BY <1>1, LogLength
<1> QED
  BY <1>1, <1>2 DEF Values

\* getUniqueByKey loses no value of the field.
LEMMA NoValueLost ==
  ASSUME TypeOK, NEW m \in Members, InBatch(m), NEW field, NEW i \in Values(m),
         BatchEvent(m, i)[field] # None
  PROVE  BatchEvent(m, i)[field] \in Found(m, field)
<1> DEFINE S == {j \in Values(m) :
                   BatchEvent(m, j)[field] = BatchEvent(m, i)[field]}
<1>1. S \in SUBSET Nat /\ i \in S
  BY ValuesInLog
<1> HIDE DEF S
<1>2. PICK x \in S : \A y \in S : x <= y
  BY <1>1, LeastIndex
<1>3. x \in Values(m) /\ BatchEvent(m, x)[field] = BatchEvent(m, i)[field]
  BY DEF S
<1>4. \A j \in Values(m) :
        j < x => BatchEvent(m, j)[field] # BatchEvent(m, x)[field]
  <2> TAKE j \in Values(m)
  <2>1. SUFFICES ASSUME BatchEvent(m, j)[field] = BatchEvent(m, x)[field]
                 PROVE  ~ (j < x)
    OBVIOUS
  <2>2. j \in S
    BY <1>3, <2>1 DEF S
  <2> QED
    BY <1>1, <1>2, <2>2
<1>5. x \in Unique(m, field)
  BY <1>3, <1>4 DEF Unique
<1> QED
  BY <1>3, <1>5 DEF Found

\* The row written for a key is that of one event of the batch with that key.
LEMMA RowOfAnEvent ==
  ASSUME TypeOK, NEW m \in Members, InBatch(m), NEW k,
         NEW h \in Values(m), BatchKey(m, h) = k
  PROVE  \E i \in Values(m) :
           /\ BatchKey(m, i) = k
           /\ MessageRow(m, k) =
                [user |-> BatchEvent(m, i).user,
                 document |-> IF BatchEvent(m, i).file = None THEN None
                                ELSE docs[m][BatchEvent(m, i).file]]
<1> DEFINE S == {j \in Values(m) : BatchKey(m, j) = k}
           First(i) == /\ BatchKey(m, i) = k
                       /\ \A j \in Values(m) : BatchKey(m, j) = k => i <= j
<1>1. S \in SUBSET Nat /\ h \in S
  BY ValuesInLog
<1>2. \A j \in Values(m) : BatchKey(m, j) = k => j \in S
  OBVIOUS
<1>3. \A j \in S : j \in Values(m) /\ BatchKey(m, j) = k
  OBVIOUS
<1> HIDE DEF S
<1>4. PICK x \in S : \A y \in S : x <= y
  BY <1>1, LeastIndex
<1>5. x \in Values(m) /\ First(x)
  BY <1>2, <1>3, <1>4
<1> DEFINE i == CHOOSE j \in Values(m) : First(j)
<1>6. i \in Values(m) /\ First(i)
  BY <1>5
<1>7. MessageRow(m, k) =
        [user |-> BatchEvent(m, i).user,
         document |-> IF BatchEvent(m, i).file = None THEN None
                        ELSE docs[m][BatchEvent(m, i).file]]
  BY DEF MessageRow
<1> HIDE DEF i
<1> QED
  BY <1>6, <1>7

\* What the tables hold of a member's batch by the statement it has reached.
Upserted(m) ==
  /\ pc[m] \in {"chats", "documents", "messages"}
       => Found(m, "user") \subseteq DOMAIN users
  /\ pc[m] \in {"documents", "messages"}
       => Found(m, "chat") \subseteq DOMAIN chats
  /\ pc[m] = "messages"
       => \A f \in Found(m, "file") :
            docs[m][f] \in documents /\ docs[m][f][1] = f

LEMMA FoundSame ==
  ASSUME NEW m, NEW field, batch'[m] = batch[m]
  PROVE  Found(m, field)' = Found(m, field)
  BY DEF Found, Unique, Values, BatchEvent

\* Rows of chats, users and documents are never removed.
LEMMA TablesGrow ==
  ASSUME [Next]_vars
  PROVE  /\ DOMAIN users \subseteq DOMAIN users'
         /\ DOMAIN chats \subseteq DOMAIN chats'
         /\ documents \subseteq documents'
<1>1. ASSUME NEW m \in Members, UpsertChats(m)
      PROVE  DOMAIN chats \subseteq DOMAIN chats' /\ UNCHANGED documents
  BY <1>1 DEF UpsertChats
<1>2. ASSUME NEW m \in Members, InsertDocuments(m)
      PROVE  documents \subseteq documents' /\ UNCHANGED chats
  BY <1>2 DEF InsertDocuments
<1>3. ASSUME ~ \E m \in Members : UpsertChats(m) \/ InsertDocuments(m)
      PROVE  UNCHANGED <<chats, documents>>
  BY <1>3 DEF Next, Handle, Join, Fetch, UpsertUsers, InsertMessages, Resolve,
     Commit, Rejoin, BatchFails, Crash, Rebalance, vars, tables
<1>4. DOMAIN users \subseteq DOMAIN users'
  BY UserStep
<1> QED
  BY <1>1, <1>2, <1>3, <1>4

\* A member that does not move keeps what it has upserted.
LEMMA UpsertedStays ==
  ASSUME NEW m, Upserted(m), [Next]_vars,
         pc'[m] = pc[m], batch'[m] = batch[m], docs'[m] = docs[m]
  PROVE  Upserted(m)'
  BY FoundSame, TablesGrow DEF Upserted

DocsKnown == DOMAIN docs = Members

RefsInv ==
  /\ References
  /\ DocsKnown
  /\ \A m \in Members : Upserted(m)

\* The row of a key is that of the i-th event of partition p.
RowOf(k, p, i) ==
  /\ Key(p, i) = k
  /\ Event(p, i).user = messages[k].user
  /\ IF Event(p, i).file = None
       THEN messages[k].document = None
       ELSE /\ messages[k].document \in documents
            /\ messages[k].document[1] = Event(p, i).file

Refers(k) ==
  /\ k[1] \in DOMAIN chats
  /\ messages[k].user # None => messages[k].user \in DOMAIN users
  /\ \E p \in Partitions : \E i \in 1..Len(Log[p]) : RowOf(k, p, i)

LEMMA ReferencesByRow == References <=> \A k \in DOMAIN messages : Refers(k)
  BY DEF References, Refers, RowOf

\* A message row keeps its references.
LEMMA ReferencesStay ==
  ASSUME [Next]_vars, NEW k \in DOMAIN messages, Refers(k)
  PROVE  Refers(k)'
<1>1. messages'[k] = messages[k]
  BY MessageStep
<1>2. \A p, i : RowOf(k, p, i) => RowOf(k, p, i)'
  BY <1>1, TablesGrow DEF RowOf, Key, Event
<1> QED
  BY <1>1, <1>2, TablesGrow DEF Refers

\* The row that a member inserts refers to what it upserted before.
LEMMA NewRowRefers ==
  ASSUME TypeOK, [Next]_vars, NEW m \in Members, InsertMessages(m), Upserted(m),
         NEW k \in DOMAIN messages', k \notin DOMAIN messages
  PROVE  Refers(k)'
<1>1. pc[m] = "messages" /\ InBatch(m)
  BY DEF InsertMessages, Goto, InBatch
<1>2. /\ messages'[k] = MessageRow(m, k)
      /\ \E h \in Values(m) : BatchKey(m, h) = k
      /\ UNCHANGED <<users, chats, documents>>
  BY DEF InsertMessages
<1>3. PICK i \in Values(m) :
        /\ BatchKey(m, i) = k
        /\ MessageRow(m, k) =
             [user |-> BatchEvent(m, i).user,
              document |-> IF BatchEvent(m, i).file = None THEN None
                             ELSE docs[m][BatchEvent(m, i).file]]
  BY <1>1, <1>2, RowOfAnEvent
<1>p. PICK p : p = batch[m].partition
  OBVIOUS
<1>4. p \in Partitions /\ i \in 1..Len(Log[p])
  BY <1>1, <1>p, ValuesInLog
<1>5. /\ messages'[k].user = Event(p, i).user
      /\ messages'[k].document =
           IF Event(p, i).file = None THEN None ELSE docs[m][Event(p, i).file]
      /\ k = <<Event(p, i).chat, Event(p, i).msg>>
  BY <1>2, <1>3, <1>p DEF BatchEvent, BatchKey, Key
<1>6. k[1] \in DOMAIN chats
  <2>1. BatchEvent(m, i)["chat"] # None
    BY DEF Values, Valid, BatchEvent
  <2>2. BatchEvent(m, i)["chat"] \in Found(m, "chat")
    BY <1>1, <2>1, NoValueLost
  <2> QED
    BY <1>1, <1>5, <1>p, <2>2 DEF Upserted, BatchEvent
<1>7. messages'[k].user # None => messages'[k].user \in DOMAIN users
  <2>1. BatchEvent(m, i)["user"] # None
          => BatchEvent(m, i)["user"] \in Found(m, "user")
    BY <1>1, NoValueLost
  <2> QED
    BY <1>1, <1>5, <1>p, <2>1 DEF Upserted, BatchEvent
<1>8. Event(p, i).file # None
        => /\ messages'[k].document \in documents
           /\ messages'[k].document[1] = Event(p, i).file
  <2>1. BatchEvent(m, i)["file"] # None
          => BatchEvent(m, i)["file"] \in Found(m, "file")
    BY <1>1, NoValueLost
  <2> QED
    BY <1>1, <1>5, <1>p, <2>1 DEF Upserted, BatchEvent
<1>9. RowOf(k, p, i)'
  BY <1>2, <1>5, <1>8 DEF RowOf, Key, Event
<1> QED
  BY <1>2, <1>4, <1>6, <1>7, <1>9 DEF Refers

LEMMA ReferencesStep ==
  ASSUME TypeOK, RefsInv, [Next]_vars
  PROVE  References'
<1>1. SUFFICES ASSUME NEW k \in DOMAIN messages'
               PROVE  Refers(k)'
  BY DEF References, Refers, RowOf
<1>2. CASE k \in DOMAIN messages
  BY <1>2, ReferencesStay, ReferencesByRow DEF RefsInv
<1>3. CASE k \notin DOMAIN messages
  <2>1. PICK m \in Members : InsertMessages(m)
    BY <1>3 DEF Next, Handle, Join, Fetch, UpsertUsers, UpsertChats,
       InsertDocuments, Resolve, Commit, Rejoin, BatchFails, Crash, Rebalance,
       vars, tables
  <2> QED
    BY <1>3, <2>1, NewRowRefers DEF RefsInv
<1> QED
  BY <1>2, <1>3

\* A step of a member leaves alone what another has upserted.
LEMMA OthersStay ==
  ASSUME [Next]_vars, NEW m, \A q \in Members : Upserted(q),
         \A q \in Members : q # m => /\ pc'[q] = pc[q]
                                     /\ batch'[q] = batch[q]
                                     /\ docs'[q] = docs[q],
         m \in Members => Upserted(m)'
  PROVE  \A q \in Members : Upserted(q)'
  BY UpsertedStays

\* Every message row refers to rows that exist, whoever stored it.  Members
\* write without a transaction and the constraint is not the table's, so this
\* rests on the order of the statements: each member has upserted what its
\* batch refers to before it inserts a message, and no row is ever removed.
THEOREM RowsRefer == Spec => []References
<1>1. Init => RefsInv
  BY DEF Init, RefsInv, References, Upserted, EmptyMap, DocsKnown
<1>2. TypeOK /\ RefsInv /\ [Next]_vars => RefsInv'
  <2> SUFFICES ASSUME TypeOK, RefsInv, [Next]_vars
               PROVE  RefsInv'
    OBVIOUS
  <2> USE DEF RefsInv
  <2>0. References'
    BY ReferencesStep
  <2>1. ASSUME NEW m \in Members,
               pc'[m] \notin {"chats", "documents", "messages"},
               \A q \in Members : q # m => /\ pc'[q] = pc[q]
                                           /\ batch'[q] = batch[q]
                                           /\ docs'[q] = docs[q]
        PROVE  \A q \in Members : Upserted(q)'
    <3>1. Upserted(m)'
      BY <2>1 DEF Upserted
    <3> QED
      BY <2>1, <3>1, OthersStay
  <2>2. ASSUME NEW m \in Members, UpsertUsers(m)
        PROVE  \A q \in Members : Upserted(q)'
    <3>1. Found(m, "user") \subseteq DOMAIN users'
      BY <2>2 DEF UpsertUsers
    <3>2. pc'[m] = "chats" /\ UNCHANGED <<batch, docs>>
      BY <2>2 DEF UpsertUsers, Goto, TypeOK
    <3>3. Upserted(m)'
      BY <3>1, <3>2, FoundSame DEF Upserted
    <3> QED
      BY <2>2, <3>2, <3>3, OthersStay DEF UpsertUsers, Goto
  <2>3. ASSUME NEW m \in Members, UpsertChats(m)
        PROVE  \A q \in Members : Upserted(q)'
    <3>1. Found(m, "chat") \subseteq DOMAIN chats' /\ UNCHANGED users
      BY <2>3 DEF UpsertChats
    <3>2. pc[m] = "chats" /\ pc'[m] = "documents" /\ UNCHANGED <<batch, docs>>
      BY <2>3 DEF UpsertChats, Goto, TypeOK
    <3>3. Upserted(m)'
      BY <3>1, <3>2, FoundSame DEF Upserted
    <3> QED
      BY <2>3, <3>2, <3>3, OthersStay DEF UpsertChats, Goto
  <2>4. ASSUME NEW m \in Members, InsertDocuments(m)
        PROVE  \A q \in Members : Upserted(q)'
    <3>1. /\ \A f \in Found(m, "file") :
               docs'[m][f] \in documents' /\ docs'[m][f][1] = f
          /\ UNCHANGED <<users, chats, batch>>
      BY <2>4 DEF InsertDocuments, DocsKnown
    <3>2. pc[m] = "documents" /\ pc'[m] = "messages"
      BY <2>4 DEF InsertDocuments, Goto, TypeOK
    <3>3. Upserted(m)'
      BY <3>1, <3>2, FoundSame DEF Upserted
    <3> QED
      BY <2>4, <3>1, <3>2, <3>3, OthersStay DEF InsertDocuments, Goto
  <2>5. ASSUME NEW m \in Members,
               \/ Join(m) \/ Fetch(m) \/ InsertMessages(m) \/ Resolve(m)
        PROVE  \A q \in Members : Upserted(q)'
    <3>1. /\ pc'[m] \notin {"chats", "documents", "messages"}
          /\ \A q \in Members : q # m => /\ pc'[q] = pc[q]
                                         /\ batch'[q] = batch[q]
          /\ UNCHANGED docs
      BY <2>5 DEF Join, Fetch, InsertMessages, Resolve, Goto, TypeOK
    <3> QED
      BY <2>1, <3>1
  <2>6. ASSUME NEW m \in Members,
               \/ Commit(m) \/ Rejoin(m) \/ BatchFails(m) \/ Crash(m)
        PROVE  \A q \in Members : Upserted(q)'
    <3>1. /\ pc'[m] \in {"idle", "join"}
          /\ \A q \in Members : q # m => pc'[q] = pc[q]
          /\ EndBatch(m)
      BY <2>6 DEF Commit, Rejoin, BatchFails, Crash, Goto, TypeOK
    <3>2. \A q \in Members : q # m => /\ batch'[q] = batch[q]
                                      /\ docs'[q] = docs[q]
      BY <3>1 DEF EndBatch, DocsKnown, TypeOK
    <3> QED
      BY <2>1, <3>1, <3>2
  <2>7. ASSUME Rebalance \/ UNCHANGED vars
        PROVE  \A q \in Members : Upserted(q)'
    <3>1. UNCHANGED <<pc, batch, docs>>
      BY <2>7 DEF Rebalance, vars, member
    <3> QED
      BY <3>1, UpsertedStays
  <2>8. DocsKnown'
    BY DEF DocsKnown, Next, Handle, Join, Fetch, UpsertUsers, UpsertChats,
       InsertDocuments, InsertMessages, Resolve, Commit, Rejoin, EndBatch,
       BatchFails, Crash, Rebalance, vars, member
  <2>9. \A q \in Members : Upserted(q)'
    BY <2>2, <2>3, <2>4, <2>5, <2>6, <2>7 DEF Next, Handle
  <2> QED
    BY <2>0, <2>8, <2>9
<1> QED
  BY <1>1, <1>2, TypeCorrect, PTL DEF Spec, RefsInv

----------------------------------------------------------------------------
(* The other writer of the database: the links of the web application, for *)
(* any set of calls.                                                       *)

CONSTANT Calls
VARIABLES row, ids, link, phase, overlapped, settled

Links == INSTANCE WorkspaceLinks

\* A call between its statements that ran alone, or any of them while nothing is amiss,
\* has the row as it wants it and none of the other kind beside it.
HalfAgree ==
  \A c \in Links!Half : settled \/ c \notin overlapped =>
                          (row <=> link[c]) /\ \A d \in Links!Half : link[d] = link[c]

LinksInv == Links!TypeOK /\ HalfAgree /\ Links!DriftExplained

\* The initial states are such states.
LEMMA LinksInit == Links!Init => LinksInv
<1> SUFFICES ASSUME Links!Init PROVE LinksInv
  OBVIOUS
<1>1. Links!TypeOK
  BY DEF Links!Init, Links!TypeOK, Links!Phases
<1>2. Links!Half = {}
  BY DEF Links!Init, Links!Half
<1>3. ~(ids > 0) /\ ~row
  BY DEF Links!Init
<1> QED
  BY <1>1, <1>2, <1>3 DEF LinksInv, HalfAgree, Links!DriftExplained

\* Types are kept by every step.
LEMMA LinksTypesKept == Links!TypeOK /\ [Links!Next]_Links!vars => Links!TypeOK'
<1> SUFFICES ASSUME Links!TypeOK, [Links!Next]_Links!vars PROVE Links!TypeOK'
  OBVIOUS
<1> USE DEF Links!TypeOK, Links!Phases
<1>1. CASE UNCHANGED Links!vars
  BY <1>1 DEF Links!vars
<1>2. ASSUME NEW c \in Calls, Links!Call(c) PROVE Links!TypeOK'
  BY <1>2 DEF Links!Call
<1>3. ASSUME NEW c \in Calls, Links!Refused(c) PROVE Links!TypeOK'
  BY <1>3 DEF Links!Refused
<1>4. ASSUME NEW c \in Calls, Links!First(c) PROVE Links!TypeOK'
  <2>1. Links!Opposing(c) \subseteq Calls
    BY DEF Links!Opposing, Links!Half
  <2>2. row' \in BOOLEAN /\ overlapped' \subseteq Calls /\ settled' \in BOOLEAN
    BY <1>4, <2>1 DEF Links!First
  <2> QED
    BY <1>4, <2>2 DEF Links!First
<1>5. ASSUME NEW c \in Calls, Links!Second(c) PROVE Links!TypeOK'
  BY <1>5 DEF Links!Second
<1>6. ASSUME NEW c \in Calls, Links!Breaks(c) PROVE Links!TypeOK'
  BY <1>6 DEF Links!Breaks
<1> QED
  BY <1>1, <1>2, <1>3, <1>4, <1>5, <1>6 DEF Links!Next

\* The invariant is kept by every step.
LEMMA LinksNext == LinksInv /\ [Links!Next]_Links!vars => LinksInv'
<1> SUFFICES ASSUME LinksInv, [Links!Next]_Links!vars PROVE LinksInv'
  OBVIOUS
<1>0. Links!TypeOK'
  BY LinksTypesKept DEF LinksInv
<1> USE DEF LinksInv, Links!TypeOK, Links!Phases
<1>1. CASE UNCHANGED Links!vars
  BY <1>1 DEF Links!vars, HalfAgree, Links!DriftExplained, Links!Half
<1>2. ASSUME NEW c \in Calls, Links!Call(c) \/ Links!Refused(c) PROVE LinksInv'
  <2>1. Links!Half' = Links!Half /\ UNCHANGED <<row, ids, link, overlapped, settled>>
    BY <1>2 DEF Links!Call, Links!Refused, Links!Half
  <2> QED
    BY <1>0, <2>1 DEF HalfAgree, Links!DriftExplained
<1>3. ASSUME NEW c \in Calls, Links!First(c) PROVE LinksInv'
  <2>1. Links!Half' = Links!Half \cup {c} /\ c \notin Links!Half /\ (row' <=> link[c])
        /\ UNCHANGED <<ids, link>>
    BY <1>3 DEF Links!First, Links!Half
  <2>2. HalfAgree'
    <3>1. CASE Links!Opposing(c) = {}
      <4>1. \A d \in Links!Half' : link'[d] = link[c]
        BY <2>1, <3>1 DEF Links!Opposing
      <4> QED
        BY <2>1, <4>1 DEF HalfAgree
    <3>2. CASE Links!Opposing(c) # {}
      <4>1. ~settled' /\ overlapped' = overlapped \cup Links!Opposing(c) \cup {c}
        BY <1>3, <3>2 DEF Links!First
      <4>2. PICK e \in Links!Half : link[e] # link[c]
        BY <3>2 DEF Links!Opposing
      <4>3. ASSUME NEW d \in Links!Half', d \notin overlapped' PROVE FALSE
        <5>1. d \in Links!Half /\ d \notin overlapped /\ link[d] = link[c]
          BY <2>1, <4>1, <4>3 DEF Links!Opposing
        <5>2. link[e] = link[d]
          BY <4>2, <5>1 DEF HalfAgree
        <5> QED
          BY <4>2, <5>1, <5>2
      <4> QED
        BY <4>1, <4>3 DEF HalfAgree
    <3> QED
      BY <3>1, <3>2
  <2>3. Links!DriftExplained'
    BY <2>1 DEF Links!DriftExplained
  <2> QED
    BY <1>0, <2>2, <2>3
<1>4. ASSUME NEW c \in Calls, Links!Second(c) PROVE LinksInv'
  <2>1. c \in Links!Half /\ Links!Half' = Links!Half \ {c} /\ UNCHANGED <<row, link, overlapped>>
    BY <1>4 DEF Links!Second, Links!Half
  <2>2. settled' => (row <=> link[c]) /\ \A d \in Links!Half : link[d] = link[c]
    BY <1>4, <2>1 DEF Links!Second, HalfAgree
  <2>3. HalfAgree'
    BY <2>1, <2>2 DEF HalfAgree
  <2>4. ids' > 0 <=> link[c]
    BY <1>4 DEF Links!Second
  <2>5. Links!DriftExplained'
    BY <2>1, <2>2, <2>4 DEF Links!DriftExplained
  <2> QED
    BY <1>0, <2>3, <2>5
<1>5. ASSUME NEW c \in Calls, Links!Breaks(c) PROVE LinksInv'
  <2>1. UNCHANGED <<row, ids, link, overlapped>>
    BY <1>5 DEF Links!Breaks
  <2>2. CASE phase[c] = "half"
    <3>1. ~settled' /\ Links!Half' = Links!Half \ {c}
      BY <1>5, <2>2 DEF Links!Breaks, Links!Half
    <3> QED
      BY <1>0, <2>1, <3>1 DEF HalfAgree, Links!DriftExplained
  <2>3. CASE phase[c] = "called"
    <3>1. settled' = settled /\ Links!Half' = Links!Half
      BY <1>5, <2>3 DEF Links!Breaks, Links!Half
    <3> QED
      BY <1>0, <2>1, <3>1 DEF HalfAgree, Links!DriftExplained
  <2> QED
    BY <1>5, <2>2, <2>3 DEF Links!Breaks
<1> QED
  BY <1>1, <1>2, <1>3, <1>4, <1>5 DEF Links!Next

\* The invariant holds of every state of a behaviour.
LEMMA LinksAlways == Links!Spec => []LinksInv
<1>1. Links!Init => LinksInv
  BY LinksInit
<1>2. LinksInv /\ [Links!Next]_Links!vars => LinksInv'
  BY LinksNext
<1> QED
  BY <1>1, <1>2, PTL DEF Links!Spec

\* For any number of calls, the variables keep their types.
THEOREM LinksTypes == Links!Spec => []Links!TypeOK
<1>1. LinksInv => Links!TypeOK
  BY DEF LinksInv
<1> QED
  BY <1>1, LinksAlways, PTL

\* For any number of calls, table and array differ between calls only after one broke off
\* or two of different kinds overlapped, and until one has run alone.
THEOREM LinksDrift == Links!Spec => []Links!DriftExplained
<1>1. LinksInv => Links!DriftExplained
  BY DEF LinksInv
<1> QED
  BY <1>1, LinksAlways, PTL

\* For any number of calls, one that ran alone leaves table and array as asked.
THEOREM LinksAlone == Links!Spec => Links!AloneTakesEffect
<1> DEFINE Takes == \A c \in Calls :
       phase[c] = "half" /\ phase'[c] = "done" /\ c \notin overlapped
         => (row' <=> link[c]) /\ (ids' > 0 <=> link[c])
<1>1. LinksInv /\ [Links!Next]_Links!vars => [Takes]_Links!vars
  <2> SUFFICES ASSUME LinksInv, Links!Next, NEW c \in Calls, phase[c] = "half", phase'[c] = "done",
                      c \notin overlapped
               PROVE (row' <=> link[c]) /\ (ids' > 0 <=> link[c])
    BY DEF Takes
  <2> USE DEF LinksInv, Links!TypeOK, Links!Phases
  <2>1. PICK d \in Calls : \/ Links!Call(d) \/ Links!Refused(d) \/ Links!First(d)
                           \/ Links!Second(d) \/ Links!Breaks(d)
    BY DEF Links!Next
  <2>2. d = c
    BY <2>1 DEF Links!Call, Links!Refused, Links!First, Links!Second, Links!Breaks
  <2>3. Links!Second(c)
    BY <2>1, <2>2 DEF Links!Call, Links!Refused, Links!First, Links!Breaks
  <2>4. row' = row /\ (row <=> link[c])
    BY <2>3 DEF Links!Second, HalfAgree, Links!Half
  <2>5. ids' > 0 <=> link[c]
    BY <2>3 DEF Links!Second
  <2> QED
    BY <2>4, <2>5
<1> QED
  BY <1>1, LinksAlways, PTL DEF Links!Spec, Links!AloneTakesEffect
=============================================================================
