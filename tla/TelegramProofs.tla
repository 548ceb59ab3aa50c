---------------------------- MODULE TelegramProofs ----------------------------
(***************************************************************************)
(* Proofs about what talks to Telegram: the message worker of apps/history *)
(* (MessageWorker), for any messages, finitely many handlers and any       *)
(* number of attempts, failures and crashes; and of packages/gramjs the    *)
(* pager (MessagesIter), for any chat, parameters and chunk size, the      *)
(* sender (MTProtoSender), for any number of requests, broken connections  *)
(* and disconnects, and message ids and sequence numbers (MTProtoState),   *)
(* for every clock.                                                        *)
(***************************************************************************)
EXTENDS MessageWorker, MessagesIter, MTProtoSender, FiniteSetTheorems, FunctionTheorems,
        TLAPS

----------------------------------------------------------------------------
(* The message worker.                                                     *)

\* Types as functions, and finitely many files.
Typed ==
  /\ job \in [Messages -> {"waiting", "active", "done", "failed"}]
  /\ attempts \in [Messages -> 0..Attempts] /\ stalls \in [Messages -> Nat]
  /\ owner \in [Messages -> Handlers \cup {None}]
  /\ message \in [Handlers -> Messages \cup {None}]
  /\ step \in [Handlers -> {"lookup", "download", "store", "media", "add", "complete"}]
  /\ files \subseteq Photos \X Nat /\ IsFiniteSet(files)
  /\ picture \in [Handlers -> Seq(Photos \X Nat)]
  /\ cache \in [Photos -> files \cup {None}]
  /\ results \in [Messages -> Seq(Seq(Photos \X Nat))]
  /\ producer \in BOOLEAN
  /\ failures \in 0..MaxFailures /\ crashes \in 0..MaxCrashes

\* A job that can still be taken has an attempt left, and so has one whose handler still
\* has its lock.
Locked ==
  /\ \A m \in Messages : job[m] \in {"waiting", "active"} => attempts[m] < Attempts
  /\ \A h \in Handlers : message[h] # None /\ owner[message[h]] = h
                           => job[message[h]] = "active"

\* The files ps are uploaded and show the first of m's pictures.
Right(ps, m, fs) ==
  \A k \in 1..Len(ps) : ps[k] \in fs /\ k <= Len(Photo[m]) /\ ps[k][1] = Photo[m][k]

\* What a handler of m has at step s.
Had(m, s, ps, fs) ==
  /\ Right(ps, m, fs) /\ Len(ps) <= Len(Photo[m])
  /\ s \in {"lookup", "download"} => Len(ps) < Len(Photo[m])
  /\ s = "store" => Len(ps) > 0
  /\ s \in {"media", "add"} => Len(ps) = Len(Photo[m])

\* What a handler, Redis and the events name are the right pictures.
Pictures ==
  /\ \A h \in Handlers : IF message[h] = None THEN picture[h] = <<>>
                          ELSE Had(message[h], step[h], picture[h], files)
  /\ \A p \in Photos : cache[p] # None => cache[p][1] = p
  /\ \A m \in Messages : \A i \in 1..Len(results[m]) :
       Right(results[m][i], m, files) /\ Len(results[m][i]) = Len(Photo[m])

\* A handler that has come to the end has sent its event.
Finished ==
  /\ \A h \in Handlers : message[h] # None /\ step[h] = "complete" =>
       message[h] \in Skipped \/ results[message[h]] # <<>>
  /\ \A m \in Messages \ Skipped : job[m] = "done" => results[m] # <<>>

\* The handlers that may still send an event for m.
Unsent(m) == {h \in Handlers : message[h] = m /\ step[h] # "complete"}

Due(m) == IF job[m] = "waiting" THEN 1 ELSE 0

\* What was sent for m, what may still be sent by those that have it and by the one that
\* will take it, come from different starts of its job; each but the first was paid for.
Budget(m) ==
  Len(results[m]) + Cardinality(Unsent(m)) + Due(m)
    <= 1 + attempts[m] + stalls[m]

IInv ==
  /\ Typed /\ Locked /\ Pictures /\ Finished
  /\ \A m \in Messages : Budget(m)

----------------------------------------------------------------------------
(* Numbers of handlers. *)

LEMMA HandlersFinite == IsFiniteSet(Handlers) /\ None \notin Handlers /\ Live \cap Workers = {}
<1>1. IsFiniteSet(Handlers)
  BY MessagesAssumption, FS_Union DEF MessagesAssumption, Handlers
<1> QED
  BY <1>1, MessagesAssumption DEF MessagesAssumption, Handlers, Messages

LEMMA DueRange == \A m : Due(m) \in 0..1 /\ Due(m)' \in 0..1
  BY DEF Due

LEMMA UnsentFinite ==
  \A m : IsFiniteSet(Unsent(m)) /\ Cardinality(Unsent(m)) \in Nat
  BY HandlersFinite, FS_Subset, FS_CardinalityType DEF Unsent

\* Fewer handlers that may still send are a smaller number.
LEMMA UnsentFewer ==
  ASSUME NEW m, Unsent(m)' \subseteq Unsent(m)
  PROVE  /\ Cardinality(Unsent(m)') \in Nat
         /\ Cardinality(Unsent(m)') <= Cardinality(Unsent(m))
<1>1. IsFiniteSet(Unsent(m))
  BY UnsentFinite
<1> QED
  BY <1>1, FS_Subset, FS_CardinalityType

LEMMA UnsentOneLess ==
  ASSUME NEW m, NEW h, h \in Unsent(m), Unsent(m)' = Unsent(m) \ {h}
  PROVE  /\ Cardinality(Unsent(m)') \in Nat
         /\ Cardinality(Unsent(m)') + 1 = Cardinality(Unsent(m))
<1>1. IsFiniteSet(Unsent(m))
  BY UnsentFinite
<1> QED
  BY <1>1, FS_RemoveElement, FS_CardinalityType, FS_Subset

LEMMA UnsentOneMore ==
  ASSUME NEW m, NEW h, Unsent(m)' \subseteq Unsent(m) \cup {h}
  PROVE  /\ Cardinality(Unsent(m)') \in Nat
         /\ Cardinality(Unsent(m)') <= Cardinality(Unsent(m)) + 1
<1>1. IsFiniteSet(Unsent(m)) /\ Cardinality(Unsent(m)) \in Nat
  BY UnsentFinite
<1>2. IsFiniteSet(Unsent(m) \cup {h}) /\ Cardinality(Unsent(m) \cup {h}) <= Cardinality(Unsent(m)) + 1
  BY <1>1, FS_AddElement
<1>3. IsFiniteSet(Unsent(m)') /\ Cardinality(Unsent(m)') <= Cardinality(Unsent(m) \cup {h})
  BY <1>2, FS_Subset
<1> QED
  BY <1>1, <1>2, <1>3, FS_CardinalityType

----------------------------------------------------------------------------
(* Pictures. *)

LEMMA PhotoLen == \A m \in Messages : Photo[m] \in Seq(Photos) /\ Len(Photo[m]) \in Nat
  BY MessagesAssumption DEF MessagesAssumption

LEMMA RightMore ==
  \A ps, m, fs, gs : Right(ps, m, fs) /\ fs \subseteq gs => Right(ps, m, gs)
  BY DEF Right

LEMMA HadMore ==
  \A m, s, ps, fs, gs : Had(m, s, ps, fs) /\ fs \subseteq gs => Had(m, s, ps, gs)
  BY RightMore DEF Had

\* The next picture.
LEMMA RightAppend ==
  ASSUME NEW m \in Messages, NEW ps \in Seq(Photos \X Nat), NEW fs, Right(ps, m, fs),
         NEW f \in fs, f \in Photos \X Nat, Len(ps) < Len(Photo[m]),
         f[1] = Photo[m][Len(ps) + 1]
  PROVE  /\ Right(Append(ps, f), m, fs)
         /\ Append(ps, f) \in Seq(Photos \X Nat)
         /\ Len(Append(ps, f)) = Len(ps) + 1 /\ Append(ps, f)[Len(ps) + 1] = f
<1>1. /\ Len(Append(ps, f)) = Len(ps) + 1 /\ Len(ps) \in Nat
      /\ \A k \in 1..(Len(ps) + 1) :
           Append(ps, f)[k] = IF k <= Len(ps) THEN ps[k] ELSE f
  OBVIOUS
<1>2. Right(Append(ps, f), m, fs)
  <2> SUFFICES ASSUME NEW k \in 1..(Len(ps) + 1)
               PROVE  /\ Append(ps, f)[k] \in fs /\ k <= Len(Photo[m])
                      /\ Append(ps, f)[k][1] = Photo[m][k]
    BY <1>1 DEF Right
  <2>1. CASE k <= Len(ps)
    BY <1>1, <2>1 DEF Right
  <2>2. CASE k = Len(ps) + 1
    BY <1>1, <2>2, PhotoLen
  <2> QED
    BY <1>1, <2>1, <2>2
<1> QED
  BY <1>1, <1>2

\* A handler that has the pictures ps goes where it belongs.
LEMMA HadAfter ==
  ASSUME NEW m \in Messages, NEW ps, NEW fs, Right(ps, m, fs), Len(ps) \in Nat,
         Len(ps) <= Len(Photo[m])
  PROVE  /\ Had(m, StepAfter(m, Len(ps)), ps, fs)
         /\ StepAfter(m, Len(ps)) \in {"lookup", "media", "complete"}
         /\ StepAfter(m, Len(ps)) = "complete" => m \in Skipped
  BY PhotoLen DEF Had, StepAfter

----------------------------------------------------------------------------

LEMMA InitIInv == WorkerInit => IInv
<1> SUFFICES ASSUME WorkerInit PROVE IInv
  OBVIOUS
<1> USE DEF WorkerInit
<1>1. Typed
  BY WorkerBoundsAssumption, FS_EmptySet DEF Typed, WorkerBoundsAssumption
<1>2. Locked /\ Pictures /\ Finished
  BY WorkerBoundsAssumption DEF Locked, Pictures, Finished, WorkerBoundsAssumption
<1>3. ASSUME NEW m \in Messages PROVE Budget(m)
  <2>1. Unsent(m) = {}
    BY MessagesAssumption DEF Unsent, MessagesAssumption
  <2> QED
    BY <2>1, FS_EmptySet DEF Budget, Due
<1> QED
  BY <1>1, <1>2, <1>3 DEF IInv

LEMMA StutterIInv == IInv /\ UNCHANGED workerVars => IInv'
  BY DEF IInv, Typed, Locked, Pictures, Finished, Budget, Unsent, Due, workerVars, jobs, handling, pictures

\* What a handler that gives up, by itself or because it has lost its lock, leaves behind.
LEMMA ThrowIInv ==
  ASSUME IInv, NEW h \in Handlers, message[h] # None, Throw(h), failures' \in 0..MaxFailures,
         step[h] # "complete" \/ h \in Workers
  PROVE  IInv'
<1> USE DEF IInv
<1> DEFINE m == message[h]
<1>0. m \in Messages
  BY DEF Typed
<1>1. /\ \A g \in Handlers : g # h => /\ message'[g] = message[g] /\ step'[g] = step[g]
                                      /\ picture'[g] = picture[g]
      /\ message'[h] = None /\ step'[h] = "lookup" /\ picture'[h] = <<>>
      /\ UNCHANGED <<stalls, files, cache, results, producer, crashes>>
  BY DEF Throw, Release, Typed, pictures
<1>2. /\ \/ /\ owner[m] = h
            /\ attempts' = [attempts EXCEPT ![m] = @ + 1]
            /\ \/ /\ attempts[m] + 1 < Attempts /\ job' = [job EXCEPT ![m] = "waiting"]
               \/ job' = [job EXCEPT ![m] = "failed"]
            /\ owner' = [owner EXCEPT ![m] = None]
         \/ owner[m] # h /\ UNCHANGED <<attempts, job, owner>>
  BY DEF Throw
<1>3. owner[m] = h => attempts[m] \in Nat /\ attempts[m] < Attempts
  BY <1>0, WorkerBoundsAssumption DEF Locked, Typed, WorkerBoundsAssumption
<1>4. Typed'
  <2>1. /\ job' \in [Messages -> {"waiting", "active", "done", "failed"}]
        /\ owner' \in [Messages -> Handlers \cup {None}]
    BY <1>0, <1>2 DEF Typed
  <2>2. attempts' \in [Messages -> 0..Attempts]
    <3>1. attempts' = attempts \/ (attempts[m] + 1 \in 0..Attempts
                                    /\ attempts' = [attempts EXCEPT ![m] = attempts[m] + 1])
      BY <1>2, <1>3, WorkerBoundsAssumption DEF WorkerBoundsAssumption
    <3> QED
      BY <3>1 DEF Typed
  <2>3. /\ message' \in [Handlers -> Messages \cup {None}]
        /\ step' \in [Handlers -> {"lookup", "download", "store", "media", "add", "complete"}]
        /\ picture' \in [Handlers -> Seq(Photos \X Nat)]
    BY DEF Throw, Release, Typed
  <2> QED
    BY <1>1, <2>1, <2>2, <2>3 DEF Typed
<1>5. Locked'
  <2>1. \A k \in Messages : job'[k] \in {"waiting", "active"} => attempts'[k] < Attempts
    BY <1>0, <1>2, <1>3 DEF Locked, Typed
  <2>2. \A g \in Handlers : message'[g] # None /\ owner'[message'[g]] = g
                              => job'[message'[g]] = "active"
    <3> SUFFICES ASSUME NEW g \in Handlers, message'[g] # None, owner'[message'[g]] = g
                 PROVE  job'[message'[g]] = "active"
      OBVIOUS
    <3>1. g # h /\ message'[g] = message[g] /\ message[g] \in Messages
      BY <1>1 DEF Typed
    <3>2. CASE owner[m] = h
      <4>1. message[g] # m
        BY <1>0, <1>2, <3>1, <3>2, HandlersFinite DEF Typed
      <4>2. owner'[message[g]] = owner[message[g]] /\ job'[message[g]] = job[message[g]]
        BY <1>0, <1>2, <3>1, <3>2, <4>1 DEF Typed
      <4> QED
        BY <3>1, <4>2 DEF Locked
    <3>3. CASE owner[m] # h
      BY <1>2, <3>1, <3>3 DEF Locked
    <3> QED
      BY <3>2, <3>3
  <2> QED
    BY <2>1, <2>2 DEF Locked
<1>6. Pictures'
  BY <1>1 DEF Pictures
<1>7. Finished'
  <2>1. \A k \in Messages : job'[k] = "done" => job[k] = "done"
    BY <1>0, <1>2 DEF Typed
  <2>2. \A g \in Handlers : message'[g] # None => message'[g] = message[g] /\ step'[g] = step[g]
    BY <1>1
  <2> QED
    BY <1>1, <2>1, <2>2 DEF Finished
<1>8. ASSUME NEW k \in Messages PROVE Budget(k)'
  <2>1. Unsent(k)' \subseteq Unsent(k)
    BY <1>1, MessagesAssumption DEF Unsent, MessagesAssumption
  <2>2. Cardinality(Unsent(k)') \in Nat /\ Cardinality(Unsent(k)') <= Cardinality(Unsent(k))
    BY <2>1, UnsentFewer
  <2>3. Cardinality(Unsent(k)) \in Nat
    BY UnsentFinite
  <2>4. /\ attempts[k] \in Nat /\ attempts'[k] \in Nat /\ stalls[k] \in Nat
        /\ results'[k] = results[k] /\ Len(results[k]) \in Nat /\ stalls'[k] = stalls[k]
    BY <1>1, <1>4, WorkerBoundsAssumption DEF Typed, WorkerBoundsAssumption
  <2>5. \/ attempts'[k] = attempts[k] + 1
        \/ attempts'[k] = attempts[k] /\ job'[k] = job[k]
    BY <1>0, <1>2 DEF Typed
  <2>6. attempts'[k] = attempts[k] => Due(k)' = Due(k)
    BY <2>4, <2>5 DEF Due
  <2>7. Len(results[k]) + Cardinality(Unsent(k)) + Due(k) <= 1 + attempts[k] + stalls[k]
    BY DEF Budget
  <2>8. Len(results'[k]) + Cardinality(Unsent(k)') + Due(k)' <= 1 + attempts'[k] + stalls'[k]
    <3>1. Due(k) \in 0..1 /\ Due(k)' \in 0..1
      BY DueRange
    <3>2. Due(k)' + attempts[k] + stalls[k] <= Due(k) + attempts'[k] + stalls'[k]
      BY <2>4, <2>5, <2>6, <3>1
    <3>3. Due(k) \in Nat /\ Due(k)' \in Nat /\ stalls'[k] \in Nat
      BY <2>4, <3>1
    <3> DEFINE l == Len(results[k])  c == Cardinality(Unsent(k))  d == Due(k)
             a == attempts[k]  s == stalls[k]
             c2 == Cardinality(Unsent(k)')  d2 == Due(k)'  a2 == attempts'[k]  s2 == stalls'[k]
    <3>4. /\ l \in Nat /\ c \in Nat /\ d \in Nat /\ a \in Nat /\ s \in Nat
          /\ c2 \in Nat /\ d2 \in Nat /\ a2 \in Nat /\ s2 \in Nat
          /\ l + c + d <= 1 + a + s /\ c2 <= c /\ d2 + a + s <= d + a2 + s2
      BY <2>2, <2>3, <2>4, <2>7, <3>2, <3>3
    <3>5. Len(results'[k]) = l
      BY <2>4
    <3> HIDE DEF l, c, d, a, s, c2, d2, a2, s2
    <3>6. l + c2 + d2 <= 1 + a2 + s2
      BY <3>4
    <3> QED
      BY <3>5, <3>6 DEF c2, d2, a2, s2
  <2> QED
    BY <2>8 DEF Budget
<1> QED
  BY <1>4, <1>5, <1>6, <1>7, <1>8 DEF IInv

\* Steps of a handler that leave the jobs alone and send nothing.
LEMMA StepsBudget ==
  ASSUME IInv, UNCHANGED <<jobs, results>>, \A m \in Messages : Unsent(m)' \subseteq Unsent(m)
  PROVE  \A m \in Messages : Budget(m)'
<1> SUFFICES ASSUME NEW m \in Messages PROVE Budget(m)'
  OBVIOUS
<1>1. Cardinality(Unsent(m)') \in Nat /\ Cardinality(Unsent(m)') <= Cardinality(Unsent(m))
  BY UnsentFewer
<1>2. Cardinality(Unsent(m)) \in Nat /\ attempts[m] \in Nat /\ stalls[m] \in Nat
      /\ Len(results[m]) \in Nat
  BY UnsentFinite DEF IInv, Typed
<1>3. Due(m)' = Due(m)
  BY DEF Due, jobs
<1> QED
  BY SMTT(30), <1>1, <1>2, <1>3, DueRange DEF IInv, Budget, jobs

----------------------------------------------------------------------------
(* The jobs. *)

LEMMA TakeIInv ==
  ASSUME IInv, NEW h \in Handlers, NEW m \in Messages, Take(h, m)
  PROVE  IInv'
<1> USE DEF IInv
<1>1. /\ message[h] = None /\ job[m] = "waiting"
      /\ message'[h] = m /\ picture'[h] = <<>> /\ job'[m] = "active" /\ owner'[m] = h
      /\ \A g \in Handlers : g # h => /\ message'[g] = message[g] /\ step'[g] = step[g]
                                      /\ picture'[g] = picture[g]
      /\ \A k \in Messages : k # m => job'[k] = job[k] /\ owner'[k] = owner[k]
      /\ UNCHANGED <<attempts, stalls, files, cache, results, producer, failures, crashes>>
  BY DEF Take, Typed, pictures
<1>2. /\ step'[h] \in {"lookup", "media", "complete"}
      /\ step'[h] = "complete" => m \in Skipped
      /\ Had(m, step'[h], picture'[h], files)
  <2>1. step'[h] = StepAfter(m, 0) /\ Len(<<>>) = 0
    BY DEF Take, Typed
  <2>2. Right(<<>>, m, files) /\ 0 <= Len(Photo[m])
    BY PhotoLen DEF Right
  <2> QED
    BY <1>1, <2>1, <2>2, HadAfter
<1>3. Typed'
  <2>1. step' \in [Handlers -> {"lookup", "download", "store", "media", "add", "complete"}]
    BY <1>2 DEF Take, Typed
  <2> QED
    BY <1>1, <2>1 DEF Take, Typed
<1>4. Locked'
  <2>1. \A k \in Messages : job'[k] \in {"waiting", "active"} => attempts'[k] < Attempts
    BY <1>1 DEF Locked
  <2>2. ASSUME NEW g \in Handlers, message'[g] # None, owner'[message'[g]] = g
        PROVE  job'[message'[g]] = "active"
    <3>1. CASE message'[g] = m
      BY <1>1, <3>1
    <3>2. CASE message'[g] # m
      <4>1. g # h /\ message'[g] = message[g] /\ message[g] \in Messages
        BY <1>1, <2>2, <3>2 DEF Typed
      <4> QED
        BY <1>1, <2>2, <3>2, <4>1 DEF Locked
    <3> QED
      BY <3>1, <3>2
  <2> QED
    BY <2>1, <2>2 DEF Locked
<1>5. Pictures'
  <2>1. \A g \in Handlers : IF message'[g] = None THEN picture'[g] = <<>>
                            ELSE Had(message'[g], step'[g], picture'[g], files)
    BY <1>1, <1>2 DEF Pictures
  <2> QED
    BY <1>1, <2>1 DEF Pictures
<1>6. Finished'
  <2>1. \A g \in Handlers : message'[g] # None /\ step'[g] = "complete" =>
          message'[g] \in Skipped \/ results'[message'[g]] # <<>>
    BY <1>1, <1>2 DEF Finished
  <2>2. \A k \in Messages : job'[k] = "done" => job[k] = "done"
    BY <1>1
  <2> QED
    BY <1>1, <2>1, <2>2 DEF Finished
<1>7. ASSUME NEW k \in Messages PROVE Budget(k)'
  <2>1. Cardinality(Unsent(k)) \in Nat /\ attempts[k] \in Nat /\ stalls[k] \in Nat
        /\ Len(results[k]) \in Nat
    BY UnsentFinite DEF Typed
  <2>2. CASE k = m
    <3>1. Unsent(k)' \subseteq Unsent(k) \cup {h}
      BY <1>1 DEF Unsent
    <3>2. Cardinality(Unsent(k)') \in Nat
          /\ Cardinality(Unsent(k)') <= Cardinality(Unsent(k)) + 1
      BY <3>1, UnsentOneMore
    <3>3. Due(k) = 1 /\ Due(k)' = 0
      BY <1>1, <2>2 DEF Due
    <3>4. Len(results[k]) + Cardinality(Unsent(k)) + Due(k) <= 1 + attempts[k] + stalls[k]
      BY DEF Budget
    <3>5. Len(results'[k]) + Cardinality(Unsent(k)') + Due(k)' <= 1 + attempts'[k] + stalls'[k]
      BY <1>1, <2>1, <3>2, <3>3, <3>4
    <3> QED
      BY <3>5 DEF Budget
  <2>3. CASE k # m
    <3>1. Unsent(k)' \subseteq Unsent(k)
      BY <1>1, <2>3 DEF Unsent
    <3>2. Cardinality(Unsent(k)') \in Nat /\ Cardinality(Unsent(k)') <= Cardinality(Unsent(k))
      BY <3>1, UnsentFewer
    <3>3. Due(k)' = Due(k)
      BY <1>1, <2>3 DEF Due
    <3>4. Len(results[k]) + Cardinality(Unsent(k)) + Due(k) <= 1 + attempts[k] + stalls[k]
      BY DEF Budget
    <3>5. Len(results'[k]) + Cardinality(Unsent(k)') + Due(k)' <= 1 + attempts'[k] + stalls'[k]
      <4>1. results'[k] = results[k] /\ attempts'[k] = attempts[k] /\ stalls'[k] = stalls[k]
        BY <1>1
      <4>2. Due(k) \in 0..1
        BY DueRange
      <4> QED
        BY <2>1, <3>2, <3>3, <3>4, <4>1, <4>2
    <3> QED
      BY <3>5 DEF Budget
  <2> QED
    BY <2>2, <2>3
<1> QED
  BY <1>3, <1>4, <1>5, <1>6, <1>7

LEMMA CompleteIInv ==
  ASSUME IInv, NEW h \in Handlers, Complete(h)
  PROVE  IInv'
<1> USE DEF IInv
<1>1. /\ message[h] # None /\ step[h] = "complete" /\ message[h] \in Messages
      /\ message'[h] = None /\ step'[h] = "lookup" /\ picture'[h] = <<>>
      /\ \A g \in Handlers : g # h => /\ message'[g] = message[g] /\ step'[g] = step[g]
                                      /\ picture'[g] = picture[g]
      /\ job' = IF owner[message[h]] = h THEN [job EXCEPT ![message[h]] = "done"] ELSE job
      /\ UNCHANGED <<attempts, stalls, owner, files, cache, results, producer, failures, crashes>>
  BY DEF Complete, Release, Typed, pictures
<1>2. Typed'
  BY <1>1 DEF Complete, Release, Typed
<1>3. Locked'
  <2>1. \A k \in Messages : job'[k] \in {"waiting", "active"} => job'[k] = job[k]
    BY <1>1 DEF Typed
  <2>2. ASSUME NEW g \in Handlers, message'[g] # None, owner'[message'[g]] = g
        PROVE  job'[message'[g]] = "active"
    <3>1. g # h /\ message'[g] = message[g] /\ message[g] \in Messages
      BY <1>1, <2>2 DEF Typed
    <3>2. job'[message[g]] = job[message[g]]
      BY <1>1, <2>2, <3>1 DEF Typed
    <3> QED
      BY <1>1, <2>2, <3>1, <3>2 DEF Locked
  <2> QED
    BY <1>1, <2>1, <2>2 DEF Locked
<1>4. Pictures'
  BY <1>1 DEF Pictures
<1>5. Finished'
  <2>1. ASSUME NEW g \in Handlers, message'[g] # None, step'[g] = "complete"
        PROVE  message'[g] \in Skipped \/ results'[message'[g]] # <<>>
    <3>1. g # h /\ message'[g] = message[g] /\ step'[g] = step[g]
      BY <1>1, <2>1
    <3> QED
      BY <1>1, <2>1, <3>1 DEF Finished
  <2>2. ASSUME NEW k \in Messages \ Skipped, job'[k] = "done"
        PROVE  results'[k] # <<>>
    <3>1. job[k] = "done" \/ k = message[h]
      BY <1>1, <2>2 DEF Typed
    <3> QED
      BY <1>1, <2>2, <3>1 DEF Finished
  <2> QED
    BY <2>1, <2>2 DEF Finished
<1>6. ASSUME NEW k \in Messages PROVE Budget(k)'
  <2>1. Unsent(k)' \subseteq Unsent(k)
    BY <1>1, MessagesAssumption DEF Unsent, MessagesAssumption
  <2>2. Cardinality(Unsent(k)') \in Nat /\ Cardinality(Unsent(k)') <= Cardinality(Unsent(k))
    BY <2>1, UnsentFewer
  <2>3. Cardinality(Unsent(k)) \in Nat /\ attempts[k] \in Nat /\ stalls[k] \in Nat
        /\ Len(results[k]) \in Nat
    BY UnsentFinite DEF Typed
  <2>4. Due(k)' <= Due(k)
    <3>1. job'[k] = "waiting" => job[k] = "waiting"
      BY <1>1 DEF Typed
    <3> QED
      BY <3>1 DEF Due
  <2>5. Len(results[k]) + Cardinality(Unsent(k)) + Due(k) <= 1 + attempts[k] + stalls[k]
    BY DEF Budget
  <2>6. Len(results'[k]) + Cardinality(Unsent(k)') + Due(k)' <= 1 + attempts'[k] + stalls'[k]
    BY SMTT(30), <1>1, <2>2, <2>3, <2>4, <2>5, DueRange
  <2> QED
    BY <2>6 DEF Budget
<1> QED
  BY <1>2, <1>3, <1>4, <1>5, <1>6

\* Crashes, lost locks, the check for stalled jobs and the shutdown.
LEMMA FaultsIInv ==
  ASSUME IInv, Crash \/ Shutdown \/ \E m \in Messages : LoseLock(m) \/ Stalled(m)
  PROVE  IInv'
<1> USE DEF IInv, jobs, handling, pictures
<1>1. CASE Crash
  <2>1. Typed'
    BY <1>1, WorkerBoundsAssumption DEF Crash, Typed, WorkerBoundsAssumption
  <2>2. /\ \A h \in Handlers : \/ message'[h] = None /\ picture'[h] = <<>>
                              \/ /\ message'[h] = message[h] /\ step'[h] = step[h]
                                 /\ picture'[h] = picture[h]
        /\ \A m \in Messages : owner'[m] \in {None, owner[m]}
        /\ UNCHANGED <<job, attempts, stalls, files, cache, results>>
    BY <1>1 DEF Crash, Typed
  <2>3. Locked' /\ Pictures' /\ Finished'
    <3>1. Locked'
      BY <2>2, HandlersFinite DEF Locked, Typed
    <3>2. Pictures'
      BY <2>2 DEF Pictures
    <3>3. Finished'
      BY <2>2 DEF Finished
    <3> QED
      BY <3>1, <3>2, <3>3
  <2>4. \A m \in Messages : Unsent(m)' \subseteq Unsent(m)
    BY <2>2, MessagesAssumption DEF Unsent, MessagesAssumption
  <2>5. ASSUME NEW m \in Messages PROVE Budget(m)'
    <3>1. Cardinality(Unsent(m)') \in Nat /\ Cardinality(Unsent(m)') <= Cardinality(Unsent(m))
      BY <2>4, UnsentFewer
    <3>2. Cardinality(Unsent(m)) \in Nat /\ attempts[m] \in Nat /\ stalls[m] \in Nat
          /\ Len(results[m]) \in Nat
      BY UnsentFinite DEF Typed
    <3>3. /\ Due(m)' = Due(m) /\ Due(m) \in Nat /\ results'[m] = results[m]
          /\ attempts'[m] = attempts[m] /\ stalls'[m] = stalls[m]
      BY <2>2 DEF Due
    <3>4. Len(results[m]) + Cardinality(Unsent(m)) + Due(m) <= 1 + attempts[m] + stalls[m]
      BY DEF Budget
    <3> HIDE DEF IInv
    <3>5. Len(results'[m]) + Cardinality(Unsent(m)') + Due(m)' <= 1 + attempts'[m] + stalls'[m]
      BY SMTT(30), <3>1, <3>2, <3>3, <3>4
    <3> QED
      BY <3>5 DEF Budget
  <2> QED
    BY <2>1, <2>3, <2>5
<1>2. CASE Shutdown
  <2>1. Typed' /\ Locked' /\ Pictures' /\ Finished'
    BY <1>2 DEF Shutdown, Typed, Locked, Pictures, Finished
  <2>2. \A m \in Messages : Budget(m)'
    BY <1>2, StepsBudget DEF Shutdown, Unsent
  <2> QED
    BY <2>1, <2>2
<1>3. ASSUME NEW m \in Messages, LoseLock(m) PROVE IInv'
  <2>1. Typed'
    BY <1>3, WorkerBoundsAssumption DEF LoseLock, Typed, WorkerBoundsAssumption
  <2>2. Locked' /\ Pictures' /\ Finished'
    BY <1>3, HandlersFinite DEF LoseLock, Locked, Pictures, Finished, Typed
  <2>3. \A k \in Messages : Budget(k)'
    BY <1>3 DEF LoseLock, Budget, Unsent, Due
  <2> QED
    BY <2>1, <2>2, <2>3
<1>4. ASSUME NEW m \in Messages, Stalled(m) PROVE IInv'
  <2>1. Typed'
    BY <1>4 DEF Stalled, Typed
  <2>2. /\ job[m] = "active" /\ owner[m] = None /\ job'[m] \in {"waiting", "failed"}
        /\ \A k \in Messages : k # m => job'[k] = job[k] /\ stalls'[k] = stalls[k]
        /\ stalls'[m] = stalls[m] + 1
        /\ UNCHANGED <<attempts, owner, handling, pictures, results, step, message>>
    BY <1>4 DEF Stalled, Typed
  <2>3. Locked' /\ Pictures' /\ Finished'
    <3>1. Locked'
      BY <2>2, HandlersFinite DEF Locked, Typed
    <3>2. Pictures'
      BY <2>2 DEF Pictures
    <3>3. Finished'
      BY <2>2 DEF Finished, Typed
    <3> QED
      BY <3>1, <3>2, <3>3
  <2>4. ASSUME NEW k \in Messages PROVE Budget(k)'
    <3>1. Unsent(k)' = Unsent(k)
      BY <2>2 DEF Unsent
    <3>2. Cardinality(Unsent(k)) \in Nat /\ attempts[k] \in Nat /\ stalls[k] \in Nat
          /\ Len(results[k]) \in Nat
      BY UnsentFinite DEF Typed
    <3>3. \/ stalls'[k] = stalls[k] + 1
          \/ stalls'[k] = stalls[k] /\ Due(k)' = Due(k)
      BY <2>2 DEF Due
    <3>4. Len(results[k]) + Cardinality(Unsent(k)) + Due(k) <= 1 + attempts[k] + stalls[k]
      BY DEF Budget
    <3>5. Len(results'[k]) + Cardinality(Unsent(k)') + Due(k)' <= 1 + attempts'[k] + stalls'[k]
      <4>1. Due(k) \in 0..1 /\ Due(k)' \in 0..1
        BY DueRange
      <4>2. /\ Due(k)' + attempts[k] + stalls[k] <= Due(k) + attempts[k] + stalls'[k]
            /\ stalls'[k] \in Nat
        BY SMTT(30), <3>2, <3>3, <4>1
      <4>3. Due(k) \in Nat /\ Due(k)' \in Nat
        BY <4>1
      <4>4. results'[k] = results[k] /\ attempts'[k] = attempts[k]
        BY <2>2
      <4>5. Cardinality(Unsent(k)') = Cardinality(Unsent(k))
        BY <3>1
      <4>6. Cardinality(Unsent(k)) <= Cardinality(Unsent(k))
        BY <3>2
      <4> DEFINE l == Len(results[k])  c == Cardinality(Unsent(k))  d == Due(k)
             a == attempts[k]  s == stalls[k]
             c2 == Cardinality(Unsent(k)')  d2 == Due(k)'  a2 == attempts'[k]  s2 == stalls'[k]
      <4>7. /\ l \in Nat /\ c \in Nat /\ d \in Nat /\ a \in Nat /\ s \in Nat
          /\ c2 \in Nat /\ d2 \in Nat /\ a2 \in Nat /\ s2 \in Nat
          /\ l + c + d <= 1 + a + s /\ c2 <= c /\ d2 + a + s <= d + a2 + s2
        BY <3>2, <3>4, <4>2, <4>3, <4>4, <4>5, <4>6
      <4>8. Len(results'[k]) = l
        BY <4>4
      <4> HIDE DEF l, c, d, a, s, c2, d2, a2, s2
      <4>9. l + c2 + d2 <= 1 + a2 + s2
        BY <4>7
      <4> QED
        BY <4>8, <4>9 DEF c2, d2, a2, s2
    <3> QED
      BY <3>5 DEF Budget
  <2> QED
    BY <2>1, <2>3, <2>4
<1> QED
  BY <1>1, <1>2, <1>3, <1>4

----------------------------------------------------------------------------
(* handleMessage. *)

\* The picture a handler is asking for.
LEMMA Asked ==
  ASSUME IInv, NEW h \in Handlers, message[h] # None, step[h] \in {"lookup", "download"}
  PROVE  /\ message[h] \in Messages /\ picture[h] \in Seq(Photos \X Nat)
         /\ Right(picture[h], message[h], files)
         /\ Len(picture[h]) < Len(Photo[message[h]]) /\ PhotoOf(h) \in Photos
<1>1. /\ message[h] \in Messages /\ picture[h] \in Seq(Photos \X Nat)
      /\ Right(picture[h], message[h], files) /\ Len(picture[h]) < Len(Photo[message[h]])
  BY DEF IInv, Typed, Pictures, Had
<1>2. Photo[message[h]] \in Seq(Photos) /\ Len(picture[h]) + 1 \in 1..Len(Photo[message[h]])
  BY <1>1, PhotoLen
<1> QED
  BY <1>1, <1>2 DEF PhotoOf

\* The handlers, when one moves on and has a new picture.
LEMMA HandlersPictures ==
  ASSUME IInv, NEW h \in Handlers, message[h] # None, UNCHANGED <<message, results>>,
         files \subseteq files', \A p \in Photos : cache'[p] # None => cache'[p][1] = p,
         \A g \in Handlers : g # h => step'[g] = step[g] /\ picture'[g] = picture[g],
         Had(message[h], step'[h], picture'[h], files')
  PROVE  Pictures'
<1>1. \A g \in Handlers : IF message'[g] = None THEN picture'[g] = <<>>
                          ELSE Had(message'[g], step'[g], picture'[g], files')
  <2> SUFFICES ASSUME NEW g \in Handlers
               PROVE  IF message[g] = None THEN picture'[g] = <<>>
                      ELSE Had(message[g], step'[g], picture'[g], files')
    OBVIOUS
  <2>1. CASE g = h
    BY <2>1
  <2>2. CASE g # h
    <3>1. step'[g] = step[g] /\ picture'[g] = picture[g]
      BY <2>2
    <3>2. IF message[g] = None THEN picture[g] = <<>>
          ELSE Had(message[g], step[g], picture[g], files)
      BY DEF IInv, Pictures
    <3> QED
      BY <3>1, <3>2, HadMore
  <2> QED
    BY <2>1, <2>2
<1>2. \A m \in Messages : \A i \in 1..Len(results[m]) :
        Right(results[m][i], m, files') /\ Len(results[m][i]) = Len(Photo[m])
  BY RightMore DEF IInv, Pictures
<1> QED
  BY <1>1, <1>2 DEF Pictures

LEMMA LookupIInv ==
  ASSUME IInv, NEW h \in Handlers, Lookup(h)
  PROVE  IInv'
<1> DEFINE f == cache[PhotoOf(h)]  n == Len(picture[h])
<1>1. /\ message[h] # None /\ step[h] = "lookup"
      /\ UNCHANGED <<jobs, message, pictures, files, cache, results, producer, failures, crashes>>
  BY DEF Lookup, At, pictures
<1>2. /\ message[h] \in Messages /\ picture[h] \in Seq(Photos \X Nat) /\ n \in Nat
      /\ Right(picture[h], message[h], files)
      /\ n < Len(Photo[message[h]]) /\ PhotoOf(h) \in Photos
  BY <1>1, Asked
<1>3. /\ Had(message[h], step'[h], picture'[h], files)
      /\ step'[h] \in {"lookup", "download", "media", "complete"}
      /\ step'[h] = "complete" => message[h] \in Skipped
      /\ picture'[h] \in Seq(Photos \X Nat)
  <2>1. CASE f = None
    <3>1. step'[h] = "download" /\ picture'[h] = picture[h]
      BY <2>1 DEF Lookup, Goto, IInv, Typed
    <3>2. n <= Len(Photo[message[h]])
      BY <1>2, PhotoLen
    <3> QED
      BY <1>2, <3>1, <3>2 DEF Had
  <2>2. CASE f # None
    <3>1. f \in files /\ f \in Photos \X Nat /\ f[1] = Photo[message[h]][n + 1]
      <4>1. f \in files \cup {None} /\ f[1] = PhotoOf(h)
        BY <1>2, <2>2 DEF IInv, Typed, Pictures
      <4>2. files \subseteq Photos \X Nat
        BY DEF IInv, Typed
      <4> QED
        BY <2>2, <4>1, <4>2 DEF PhotoOf
    <3>2. /\ step'[h] = StepAfter(message[h], n + 1)
          /\ picture'[h] = Append(picture[h], f)
      BY <2>2 DEF Lookup, Goto, Keep, IInv, Typed
    <3> HIDE DEF f, n
    <3>3. /\ Right(Append(picture[h], f), message[h], files)
          /\ Append(picture[h], f) \in Seq(Photos \X Nat)
          /\ Len(Append(picture[h], f)) = n + 1
      <4>1. /\ Len(picture[h]) < Len(Photo[message[h]])
            /\ f[1] = Photo[message[h]][Len(picture[h]) + 1] /\ n = Len(picture[h])
        BY <1>2, <3>1 DEF n
      <4> QED
        BY <1>2, <3>1, <4>1, RightAppend
    <3>4. n + 1 \in Nat /\ n + 1 <= Len(Photo[message[h]])
      BY <1>2, PhotoLen
    <3> QED
      BY <1>2, <3>2, <3>3, <3>4, HadAfter
  <2> QED
    BY <2>1, <2>2
<1> HIDE DEF f, n
<1>4. /\ step' = [step EXCEPT ![h] = step'[h]]
      /\ picture' = [picture EXCEPT ![h] = picture'[h]]
  BY DEF Lookup, Goto, Keep, IInv, Typed
<1>5. \A g \in Handlers : g # h => step'[g] = step[g] /\ picture'[g] = picture[g]
  BY <1>4 DEF IInv, Typed
<1>6. Typed'
  <2>1. /\ picture' \in [Handlers -> Seq(Photos \X Nat)]
        /\ step' \in [Handlers -> {"lookup", "download", "store", "media", "add", "complete"}]
    BY <1>3, <1>4 DEF IInv, Typed
  <2> QED
    BY <1>1, <2>1 DEF IInv, Typed, jobs
<1>7. Locked' /\ Finished'
  BY <1>1, <1>3, <1>5 DEF IInv, Locked, Finished, jobs
<1>8. Pictures'
  <2>1. \A p \in Photos : cache'[p] # None => cache'[p][1] = p
    BY <1>1 DEF IInv, Pictures
  <2> QED
    BY <1>1, <1>3, <1>5, <2>1, HandlersPictures
<1>9. \A m \in Messages : Unsent(m)' \subseteq Unsent(m)
  BY <1>1, <1>5 DEF Unsent
<1> QED
  BY <1>1, <1>6, <1>7, <1>8, <1>9, StepsBudget DEF IInv

LEMMA UploadIInv ==
  ASSUME IInv, NEW h \in Handlers, Upload(h)
  PROVE  IInv'
<1> DEFINE f == FreshFile(h)
<1>1. /\ message[h] # None /\ step[h] = "download"
      /\ step'[h] = "store" /\ picture'[h] = Append(picture[h], f) /\ files' = files \cup {f}
      /\ \A g \in Handlers : g # h => step'[g] = step[g] /\ picture'[g] = picture[g]
      /\ UNCHANGED <<jobs, message, cache, results, producer, failures, crashes>>
  BY DEF Upload, At, Goto, Keep, IInv, Typed
<1>2. /\ message[h] \in Messages /\ picture[h] \in Seq(Photos \X Nat)
      /\ Right(picture[h], message[h], files)
      /\ Len(picture[h]) < Len(Photo[message[h]]) /\ PhotoOf(h) \in Photos
  BY <1>1, Asked
<1>3. f \in Photos \X Nat /\ f[1] = Photo[message[h]][Len(picture[h]) + 1]
  <2> DEFINE same == {g \in files : g[1] = PhotoOf(h)}
  <2>1. same \subseteq files /\ IsFiniteSet(files)
    BY DEF IInv, Typed
  <2>2. Cardinality(same) \in Nat
    BY <2>1, FS_Subset, FS_CardinalityType
  <2>3. f = <<PhotoOf(h), Cardinality(same)>>
    BY DEF FreshFile
  <2> HIDE DEF same, f
  <2> QED
    BY <1>2, <2>2, <2>3 DEF PhotoOf
<1> HIDE DEF f
<1>4. /\ Right(picture'[h], message[h], files')
      /\ picture'[h] \in Seq(Photos \X Nat) /\ Len(picture'[h]) = Len(picture[h]) + 1
  <2>1. Right(picture[h], message[h], files') /\ f \in files'
    BY <1>1, <1>2, RightMore
  <2> QED
    BY <1>1, <1>2, <1>3, <2>1, RightAppend
<1>5. Typed'
  <2>1. files' \subseteq Photos \X Nat /\ IsFiniteSet(files') /\ files \subseteq files'
    BY <1>1, <1>3, FS_AddElement DEF IInv, Typed
  <2>2. /\ picture' = [picture EXCEPT ![h] = picture'[h]]
        /\ step' = [step EXCEPT ![h] = "store"]
    BY DEF Upload, Goto, Keep, IInv, Typed
  <2>3. /\ picture' \in [Handlers -> Seq(Photos \X Nat)]
        /\ step' \in [Handlers -> {"lookup", "download", "store", "media", "add", "complete"}]
    BY <1>4, <2>2 DEF IInv, Typed
  <2>4. cache' \in [Photos -> files' \cup {None}]
    BY <1>1, <2>1 DEF IInv, Typed
  <2> QED
    BY <1>1, <2>1, <2>3, <2>4 DEF IInv, Typed, jobs
<1>6. Locked' /\ Finished'
  BY <1>1 DEF IInv, Locked, Finished, jobs
<1>7. Pictures'
  <2>1. \A p \in Photos : cache'[p] # None => cache'[p][1] = p
    BY <1>1 DEF IInv, Pictures
  <2>2. Had(message[h], "store", picture'[h], files')
    <3>1. /\ Len(picture[h]) \in Nat /\ Len(Photo[message[h]]) \in Nat
          /\ Len(picture[h]) < Len(Photo[message[h]])
      BY <1>2, PhotoLen
    <3> QED
      BY <1>4, <3>1 DEF Had
  <2> QED
    BY <1>1, <2>1, <2>2, HandlersPictures
<1>8. \A m \in Messages : Unsent(m)' \subseteq Unsent(m)
  BY <1>1 DEF Unsent
<1> QED
  BY <1>1, <1>5, <1>6, <1>7, <1>8, StepsBudget DEF IInv

LEMMA StoreIInv ==
  ASSUME IInv, NEW h \in Handlers, Store(h) \/ Media(h)
  PROVE  IInv'
<1>1. /\ message[h] # None /\ step[h] \in {"store", "media"}
      /\ \A g \in Handlers : g # h => step'[g] = step[g]
      /\ UNCHANGED <<jobs, message, picture, files, results, producer, failures, crashes>>
  BY DEF Store, Media, At, Goto, pictures, IInv, Typed
<1>2. /\ message[h] \in Messages /\ picture[h] \in Seq(Photos \X Nat)
      /\ Had(message[h], step[h], picture[h], files)
  BY <1>1 DEF IInv, Typed, Pictures
<1>3. /\ Had(message[h], step'[h], picture[h], files)
      /\ step'[h] \in {"lookup", "media", "add", "complete"}
      /\ step'[h] = "complete" => message[h] \in Skipped
  <2>1. CASE Store(h)
    <3>1. step'[h] = StepAfter(message[h], Len(picture[h]))
      BY <2>1 DEF Store, Goto, IInv, Typed
    <3>2. /\ Right(picture[h], message[h], files) /\ Len(picture[h]) <= Len(Photo[message[h]])
          /\ Len(picture[h]) \in Nat
      BY <1>2 DEF Had
    <3> QED
      BY <1>2, <3>1, <3>2, HadAfter
  <2>2. CASE Media(h)
    <3>1. step[h] = "media" /\ step'[h] = "add"
      BY <2>2 DEF Media, At, Goto, IInv, Typed
    <3> QED
      BY <1>2, <3>1 DEF Had
  <2> QED
    BY <2>1, <2>2
<1>4. /\ \A p \in Photos : cache'[p] # None => cache'[p][1] = p
      /\ cache' \in [Photos -> files \cup {None}]
  <2>1. /\ \A p \in Photos : cache[p] # None => cache[p][1] = p
        /\ cache \in [Photos -> files \cup {None}] /\ files \subseteq Photos \X Nat
    BY DEF IInv, Pictures, Typed
  <2>2. CASE Store(h)
    <3> DEFINE f == picture[h][Len(picture[h])]
    <3>1. f \in files /\ cache' = [cache EXCEPT ![f[1]] = f]
      <4>1. step[h] = "store" /\ cache' = [cache EXCEPT ![f[1]] = f]
        BY <2>2 DEF Store, At
      <4>2. Len(picture[h]) \in 1..Len(picture[h])
        BY <1>2, <4>1 DEF Had
      <4> QED
        BY <1>2, <4>1, <4>2 DEF Had, Right
    <3>2. f[1] \in Photos
      BY <2>1, <3>1
    <3> HIDE DEF f
    <3>3. \A p \in Photos : cache'[p] = IF p = f[1] THEN f ELSE cache[p]
      BY <2>1, <3>1, <3>2
    <3>4. cache' \in [Photos -> files \cup {None}]
      BY <2>1, <3>1, <3>2
    <3> QED
      BY <2>1, <3>3, <3>4
  <2>3. CASE Media(h)
    BY <2>1, <2>3 DEF Media, pictures
  <2> QED
    BY <2>2, <2>3
<1>5. Typed'
  <2>1. step' \in [Handlers -> {"lookup", "download", "store", "media", "add", "complete"}]
    <3>1. step' = [step EXCEPT ![h] = step'[h]]
      BY DEF Store, Media, Goto, IInv, Typed
    <3> QED
      BY <1>3, <3>1 DEF IInv, Typed
  <2> QED
    BY <1>1, <1>4, <2>1 DEF IInv, Typed, jobs
<1>6. Locked' /\ Finished'
  BY <1>1, <1>3 DEF IInv, Locked, Finished, jobs
<1>7. Pictures'
  BY <1>1, <1>3, <1>4, HandlersPictures
<1>8. \A m \in Messages : Unsent(m)' \subseteq Unsent(m)
  BY <1>1 DEF Unsent
<1> QED
  BY <1>1, <1>5, <1>6, <1>7, <1>8, StepsBudget DEF IInv

LEMMA AddIInv ==
  ASSUME IInv, NEW h \in Handlers, Add(h)
  PROVE  IInv'
<1> USE DEF IInv
<1> DEFINE m == message[h]
<1>1. CASE ~(h \in Workers \/ producer)
  BY <1>1, ThrowIInv DEF Add, At, Typed
<1>2. CASE h \in Workers \/ producer
  <2>1. /\ m \in Messages /\ m # None /\ step[h] = "add" /\ step'[h] = "complete"
        /\ results'[m] = Append(results[m], picture[h])
        /\ \A k \in Messages : k # m => results'[k] = results[k]
        /\ \A g \in Handlers : g # h => step'[g] = step[g]
        /\ UNCHANGED <<jobs, message, picture, pictures, producer, crashes, failures>>
    BY <1>2 DEF Add, At, Goto, Typed
  <2>2. Typed'
    <3>1. results[m] \in Seq(Seq(Photos \X Nat)) /\ picture[h] \in Seq(Photos \X Nat)
      BY <2>1 DEF Typed
    <3>2. results'[m] \in Seq(Seq(Photos \X Nat))
      BY <2>1, <3>1
    <3>3. results' \in [Messages -> Seq(Seq(Photos \X Nat))]
      BY <1>2, <2>1, <3>2 DEF Add, Typed
    <3>4. step' \in [Handlers -> {"lookup", "download", "store", "media", "add", "complete"}]
      BY <1>2 DEF Add, Goto, Typed
    <3> QED
      BY <2>1, <3>3, <3>4 DEF Typed, jobs, pictures
  <2>3. Locked'
    BY <2>1 DEF Locked, jobs
  <2>4. /\ Len(results'[m]) = Len(results[m]) + 1 /\ results'[m] # <<>>
        /\ \A i \in 1..Len(results'[m]) :
             results'[m][i] = IF i <= Len(results[m]) THEN results[m][i] ELSE picture[h]
    <3>1. results[m] \in Seq(Seq(Photos \X Nat)) /\ picture[h] \in Seq(Photos \X Nat)
      BY <2>1 DEF Typed
    <3> DEFINE old == results[m]  new == picture[h]  S == Seq(Photos \X Nat)
    <3>2. old \in Seq(S) /\ new \in S /\ results'[m] = Append(old, new)
      BY <2>1, <3>1
    <3> HIDE DEF old, new, S
    <3>3. /\ Len(results'[m]) = Len(old) + 1 /\ results'[m] # <<>>
          /\ \A i \in 1..Len(results'[m]) :
               results'[m][i] = IF i <= Len(old) THEN old[i] ELSE new
      BY <3>2
    <3> QED
      BY <3>3 DEF old, new
  <2>5. Finished'
    BY <2>1, <2>4 DEF Finished, Typed, jobs
  <2>6. Pictures'
    <3>1. Had(m, "add", picture[h], files)
      BY <2>1 DEF Pictures
    <3>2. Right(picture[h], m, files) /\ Len(picture[h]) = Len(Photo[m])
      BY <3>1 DEF Had
    <3>3. ASSUME NEW k \in Messages, NEW i \in 1..Len(results'[k])
          PROVE  Right(results'[k][i], k, files) /\ Len(results'[k][i]) = Len(Photo[k])
      <4>0. \A j \in 1..Len(results[k]) :
              Right(results[k][j], k, files) /\ Len(results[k][j]) = Len(Photo[k])
        BY DEF Pictures
      <4>1. CASE k = m
        <5>1. Len(results[m]) \in Nat
          BY <2>1 DEF Typed
        <5>2. CASE i <= Len(results[m])
          BY <2>4, <3>3, <4>0, <4>1, <5>1, <5>2
        <5>3. CASE ~(i <= Len(results[m]))
          BY <2>4, <3>2, <3>3, <4>1, <5>3
        <5> QED
          BY <5>2, <5>3
      <4>2. CASE k # m
        BY <2>1, <3>3, <4>0, <4>2
      <4> QED
        BY <4>1, <4>2
    <3>4. \A g \in Handlers : IF message[g] = None THEN picture[g] = <<>>
                              ELSE Had(message[g], step'[g], picture[g], files)
      <4>1. Had(m, "complete", picture[h], files)
        BY <3>1 DEF Had
      <4> QED
        BY <2>1, <4>1 DEF Pictures
    <3> QED
      BY <2>1, <3>3, <3>4 DEF Pictures, pictures
  <2>7. ASSUME NEW k \in Messages PROVE Budget(k)'
    <3>1. Cardinality(Unsent(k)) \in Nat /\ attempts[k] \in Nat /\ stalls[k] \in Nat
          /\ Len(results[k]) \in Nat
      BY UnsentFinite DEF Typed
    <3>2. CASE k = m
      <4>1. h \in Unsent(k) /\ Unsent(k)' = Unsent(k) \ {h}
        BY <2>1, <3>2 DEF Unsent
      <4>2. /\ Cardinality(Unsent(k)') \in Nat
            /\ Cardinality(Unsent(k)') + 1 = Cardinality(Unsent(k))
        BY <4>1, UnsentOneLess
      <4>3. Len(results'[k]) = Len(results[k]) + 1
        BY <2>4, <3>2
      <4>4. Due(k)' = Due(k)
        BY <2>1 DEF Due, jobs
      <4>5. Len(results[k]) + Cardinality(Unsent(k)) + Due(k) <= 1 + attempts[k] + stalls[k]
        BY DEF Budget
      <4>6. Len(results'[k]) + Cardinality(Unsent(k)') + Due(k)' <= 1 + attempts'[k] + stalls'[k]
        <5>1. Due(k) \in 0..1 /\ attempts'[k] = attempts[k] /\ stalls'[k] = stalls[k]
          BY <2>1, DueRange DEF jobs
        <5> QED
          BY SMTT(30), <3>1, <4>2, <4>3, <4>4, <4>5, <5>1
      <4> QED
        BY <4>6 DEF Budget
    <3>3. CASE k # m
      <4>1. Unsent(k)' \subseteq Unsent(k)
        BY <2>1, <3>3 DEF Unsent
      <4>2. Cardinality(Unsent(k)') \in Nat /\ Cardinality(Unsent(k)') <= Cardinality(Unsent(k))
        BY <4>1, UnsentFewer
      <4>3. Due(k)' = Due(k) /\ results'[k] = results[k]
        BY <2>1, <3>3 DEF Due, jobs
      <4>4. Len(results[k]) + Cardinality(Unsent(k)) + Due(k) <= 1 + attempts[k] + stalls[k]
        BY DEF Budget
      <4>5. Len(results'[k]) + Cardinality(Unsent(k)') + Due(k)' <= 1 + attempts'[k] + stalls'[k]
        <5>1. Due(k) \in 0..1 /\ attempts'[k] = attempts[k] /\ stalls'[k] = stalls[k]
          BY <2>1, DueRange DEF jobs
        <5> QED
          BY <3>1, <4>2, <4>3, <4>4, <5>1
      <4> QED
        BY <4>5 DEF Budget
    <3> QED
      BY <3>2, <3>3
  <2> QED
    BY <2>2, <2>3, <2>5, <2>6, <2>7
<1> QED
  BY <1>1, <1>2

LEMMA NextIInv == IInv /\ [WorkerNext]_workerVars => IInv'
<1> SUFFICES ASSUME IInv, [WorkerNext]_workerVars PROVE IInv'
  OBVIOUS
<1>1. ASSUME NEW h \in Handlers, Handle(h) PROVE IInv'
  BY <1>1, LookupIInv, UploadIInv, StoreIInv, AddIInv, CompleteIInv, TakeIInv DEF Handle
<1>2. ASSUME NEW h \in Handlers, Fail(h) PROVE IInv'
  <2>1. failures' \in 0..MaxFailures
    BY <1>2, WorkerBoundsAssumption DEF Fail, IInv, Typed, WorkerBoundsAssumption
  <2> QED
    BY <1>2, <2>1, ThrowIInv DEF Fail
<1> QED
  BY <1>1, <1>2, StutterIInv, FaultsIInv DEF WorkerNext

----------------------------------------------------------------------------
(* The theorems. *)

LEMMA WorkerInvariant == WorkerSpec => []IInv
  BY InitIInv, NextIInv, PTL DEF WorkerSpec

\* Types are kept, for any messages, handlers and bounds.
THEOREM WorkerTypes == WorkerSpec => []WorkerTypeOK
<1>1. ASSUME IInv PROVE WorkerTypeOK
  BY <1>1, WorkerBoundsAssumption DEF IInv, Typed, WorkerTypeOK, WorkerBoundsAssumption
<1> QED
  BY <1>1, WorkerInvariant, PTL

\* A name in Redis is that of an uploaded file with the right picture, and an event names one
\* for each picture its sender and its chat have.
THEOREM WorkerPictures == WorkerSpec => []PicturesExist
<1>1. ASSUME IInv PROVE PicturesExist
  <2>1. \A p \in Photos : cache[p] # None => cache[p] \in files /\ cache[p][1] = p
    BY <1>1 DEF IInv, Typed, Pictures
  <2>2. \A m \in Messages : \A i \in 1..Len(results[m]) :
          /\ Len(results[m][i]) = Len(Photo[m])
          /\ \A k \in 1..Len(Photo[m]) :
               results[m][i][k] \in files /\ results[m][i][k][1] = Photo[m][k]
    BY <1>1 DEF IInv, Pictures, Right
  <2> QED
    BY <2>1, <2>2 DEF PicturesExist
<1> QED
  BY <1>1, WorkerInvariant, PTL

\* A job is never removed before its event was sent.
THEOREM WorkerDone == WorkerSpec => []DoneMeansSent
<1>1. ASSUME IInv PROVE DoneMeansSent
  BY <1>1 DEF IInv, Finished, DoneMeansSent, Messages
<1> QED
  BY <1>1, WorkerInvariant, PTL

\* A message is sent again only after a failed attempt or a stall of its job, however many
\* handlers hold it at the same time.
THEOREM WorkerDuplicates == WorkerSpec => []DuplicatesExplained
<1>1. ASSUME IInv, NEW m \in Messages PROVE Len(results[m]) <= 1 + attempts[m] + stalls[m]
  <2>1. Cardinality(Unsent(m)) \in Nat /\ attempts[m] \in Nat /\ stalls[m] \in Nat
        /\ Len(results[m]) \in Nat
    BY <1>1, UnsentFinite DEF IInv, Typed
  <2>2. Len(results[m]) + Cardinality(Unsent(m)) + Due(m) <= 1 + attempts[m] + stalls[m]
    BY <1>1 DEF IInv, Budget
  <2>3. Due(m) \in 0..1
    BY DueRange
  <2> QED
    BY <2>1, <2>2, <2>3
<1>2. IInv => DuplicatesExplained
  BY <1>1 DEF DuplicatesExplained
<1> QED
  BY <1>2, WorkerInvariant, PTL

----------------------------------------------------------------------------
(* The pager.                                                              *)

LEMMA IdsAreNat ==
  /\ IsFiniteSet(MsgIds)
  /\ \A m \in MsgIds : m \in Nat /\ m # 0 /\ m < MaxSafeInteger
  /\ MaxSafeInteger \in Nat /\ ChunkSize \in Nat \ {0}
  BY MsgIdsAssumption, ChunkSizeAssumption, MaxSafeIntegerAssumption
     DEF MsgIdsAssumption, ChunkSizeAssumption, MaxSafeIntegerAssumption

----------------------------------------------------------------------------
(* Ranks: where a message is in the chat, counted from the newest.         *)

\* A set of ids that is not empty has a least and a greatest one.
LEMMA LeastId ==
  ASSUME NEW S \in SUBSET Nat, S # {}
  PROVE  \E x \in S : \A y \in S : x <= y
<1> DEFINE Less == OpToRel(<, Nat)
<1>1. IsWellFoundedOn(Less, Nat)
  BY NatLessThanWellFounded, Zenon
<1>2. \A x, y \in Nat : x < y => <<x, y>> \in Less
  BY Zenon DEF OpToRel
<1> HIDE DEF Less
<1>3. PICK x \in S : \A y \in S : ~ (<<y, x>> \in Less)
  BY <1>1, WFMin, Zenon
<1>4. \A y \in S : ~ (y < x)
  BY <1>2, <1>3
<1> QED
  BY <1>4

LEMMA GreatestId ==
  ASSUME NEW S \in SUBSET MsgIds, S # {}
  PROVE  \E x \in S : \A y \in S : y <= x
<1> DEFINE T == {MaxSafeInteger - x : x \in S}
<1>1. MaxSafeInteger \in Nat
        /\ \A x \in S : x \in Nat /\ x < MaxSafeInteger
  BY IdsAreNat
<1>2. T \in SUBSET Nat /\ T # {}
  BY <1>1
<1>3. PICK t \in T : \A u \in T : t <= u
  BY <1>2, LeastId
<1>4. PICK x \in S : t = MaxSafeInteger - x
  BY <1>3
<1>5. \A y \in S : MaxSafeInteger - x <= MaxSafeInteger - y
  BY <1>3, <1>4
<1> QED
  BY <1>1, <1>4, <1>5

Newer(m) == {x \in chat : x > m}
From(o) == {x \in chat : x >= o}
Rank(m) == Cardinality(Newer(m))
Count(o) == Cardinality(From(o))

LEMMA FiniteChat ==
  ASSUME chat \subseteq MsgIds, NEW S, S \subseteq chat
  PROVE  IsFiniteSet(S) /\ Cardinality(S) \in Nat
<1>1. S \in SUBSET MsgIds
  OBVIOUS
<1>2. IsFiniteSet(S)
  BY <1>1, IdsAreNat, FS_Subset
<1> QED
  BY <1>2, FS_CardinalityType

LEMMA Fewer ==
  ASSUME chat \subseteq MsgIds, NEW S, NEW T, S \subseteq T, T \subseteq chat
  PROVE  /\ Cardinality(S) \in Nat /\ Cardinality(T) \in Nat
         /\ Cardinality(S) <= Cardinality(T)
         /\ \A x \in T : x \notin S => Cardinality(S) < Cardinality(T)
<1>1. IsFiniteSet(S) /\ IsFiniteSet(T) /\ Cardinality(S) \in Nat
        /\ Cardinality(T) \in Nat
  BY FiniteChat
<1>2. S \in SUBSET T
  OBVIOUS
<1>3. /\ Cardinality(S) <= Cardinality(T)
      /\ Cardinality(T) = Cardinality(S) => T = S
  BY <1>1, <1>2, FS_Subset
<1> QED
  BY <1>1, <1>3

LEMMA Ranks ==
  ASSUME chat \subseteq MsgIds, NEW m \in chat
  PROVE  /\ Rank(m) \in Nat
         /\ \A x \in chat : m < x => Rank(x) < Rank(m)
         /\ \A o \in Nat : /\ Count(o) \in Nat
                           /\ m >= o => Rank(m) < Count(o)
                           /\ m < o => Count(o) <= Rank(m)
<1>1. \A x \in chat : x \in Nat
  BY IdsAreNat
<1>2. Rank(m) \in Nat
  BY FiniteChat DEF Rank, Newer
<1>3. ASSUME NEW x \in chat, m < x
      PROVE  Rank(x) < Rank(m)
  <2>1. Newer(x) \subseteq Newer(m) /\ x \in Newer(m) /\ x \notin Newer(x)
    BY <1>1, <1>3 DEF Newer
  <2>2. Newer(m) \subseteq chat
    BY DEF Newer
  <2> QED
    BY <2>1, <2>2, Fewer DEF Rank
<1>4. ASSUME NEW o \in Nat
      PROVE  /\ Count(o) \in Nat
             /\ m >= o => Rank(m) < Count(o)
             /\ m < o => Count(o) <= Rank(m)
  <2>1. From(o) \subseteq chat /\ Newer(m) \subseteq chat
    BY DEF From, Newer
  <2>2. ASSUME m >= o
        PROVE  Rank(m) < Count(o)
    <3>1. Newer(m) \subseteq From(o) /\ m \in From(o) /\ m \notin Newer(m)
      BY <1>1, <2>2 DEF Newer, From
    <3> QED
      BY <2>1, <3>1, Fewer DEF Rank, Count
  <2>3. ASSUME m < o
        PROVE  Count(o) <= Rank(m)
    <3>1. From(o) \subseteq Newer(m)
      BY <1>1, <2>3 DEF Newer, From
    <3> QED
      BY <2>1, <3>1, Fewer DEF Rank, Count
  <2>4. Count(o) \in Nat
    BY <2>1, FiniteChat DEF Count
  <2> QED
    BY <2>2, <2>3, <2>4
<1> QED
  BY <1>2, <1>3, <1>4

----------------------------------------------------------------------------
(* What the server answers to a request of the pager.                      *)

\* The messages a request may still ask for.
Ahead(m) == IF reverse THEN m >= offsetId ELSE offsetId # 0 => m < offsetId

\* The rank of the newest message of an answer.
FirstRank(limit) ==
  AddOffset(limit) + IF offsetId = 0 THEN 0 ELSE Count(offsetId)

Reply(limit) == GetHistory(offsetId, AddOffset(limit), limit)

Asking == /\ chat \subseteq MsgIds
          /\ offsetId \in Nat
          /\ reverse \in BOOLEAN
          /\ reverse => offsetId # 0

LEMMA AnswerByRank ==
  ASSUME NEW limit
  PROVE  Reply(limit) =
           {m \in chat : /\ FirstRank(limit) <= Rank(m)
                         /\ Rank(m) < FirstRank(limit) + limit}
  BY DEF Reply, GetHistory, FirstRank, Rank, Newer, Count, From

LEMMA FirstRanks ==
  ASSUME Asking, NEW limit \in Nat \ {0}
  PROVE  /\ FirstRank(limit) \in Int
         /\ reverse => FirstRank(limit) + limit = Count(offsetId)
         /\ ~reverse /\ offsetId # 0 => FirstRank(limit) = Count(offsetId)
         /\ ~reverse /\ offsetId = 0 => FirstRank(limit) = 0
<1>1. Count(offsetId) \in Nat
  BY FiniteChat DEF Asking, Count, From
<1> QED
  BY <1>1 DEF Asking, FirstRank, AddOffset

\* An answer holds only messages ahead of the offset, without a gap.
LEMMA AnswerAhead ==
  ASSUME Asking, NEW limit \in Nat \ {0}, NEW m \in Reply(limit)
  PROVE  m \in chat /\ Ahead(m)
<1>1. m \in chat /\ FirstRank(limit) <= Rank(m)
        /\ Rank(m) < FirstRank(limit) + limit
  BY AnswerByRank
<1>2. /\ Rank(m) \in Nat /\ Count(offsetId) \in Nat /\ m \in Nat
      /\ m >= offsetId => Rank(m) < Count(offsetId)
      /\ m < offsetId => Count(offsetId) <= Rank(m)
  BY <1>1, IdsAreNat, Ranks DEF Asking
<1> QED
  BY <1>1, <1>2, FirstRanks DEF Asking, Ahead

LEMMA AnswerContiguous ==
  ASSUME Asking, NEW limit \in Nat \ {0}, NEW m \in Reply(limit),
         NEW x \in chat, Ahead(x), UpTo(x, m)
  PROVE  x \in Reply(limit)
<1>1. m \in chat /\ FirstRank(limit) <= Rank(m)
        /\ Rank(m) < FirstRank(limit) + limit
  BY AnswerByRank
<1>2. /\ Rank(m) \in Nat /\ Rank(x) \in Nat /\ Count(offsetId) \in Nat
      /\ m \in Nat /\ x \in Nat
      /\ x >= offsetId => Rank(x) < Count(offsetId)
      /\ x < offsetId => Count(offsetId) <= Rank(x)
      /\ m < x => Rank(x) < Rank(m)
      /\ x < m => Rank(m) < Rank(x)
  BY <1>1, IdsAreNat, Ranks DEF Asking
<1>3. FirstRank(limit) <= Rank(x) /\ Rank(x) < FirstRank(limit) + limit
  BY <1>1, <1>2, FirstRanks DEF Asking, Ahead, UpTo
<1> QED
  BY <1>3, AnswerByRank

\* It holds no more than was asked for.
LEMMA AnswerSize ==
  ASSUME Asking, NEW limit \in Nat \ {0}
  PROVE  /\ IsFiniteSet(Reply(limit)) /\ Cardinality(Reply(limit)) \in Nat
         /\ Cardinality(Reply(limit)) <= limit
<1> DEFINE A == Reply(limit)
           T == FirstRank(limit)..(FirstRank(limit) + limit - 1)
           f == [m \in A |-> Rank(m)]
<1>1. \A m \in A : m \in chat /\ Rank(m) \in T
  BY AnswerByRank, FirstRanks, Ranks DEF Asking
<1>2. \A a, b \in A : f[a] = f[b] => a = b
  <2> TAKE a, b \in A
  <2>1. a \in Nat /\ b \in Nat /\ Rank(a) \in Nat /\ Rank(b) \in Nat
          /\ (a < b => Rank(b) < Rank(a)) /\ (b < a => Rank(a) < Rank(b))
    BY <1>1, IdsAreNat, Ranks DEF Asking
  <2> QED
    BY <2>1
<1>3. f \in Injection(A, T)
  BY <1>1, <1>2, Fun_IsInj
<1>4. IsFiniteSet(T) /\ Cardinality(T) = limit
  <2>1. FirstRank(limit) \in Int
    BY FirstRanks
  <2> QED
    BY <2>1, FS_Interval
<1> HIDE DEF f, T, A
<1>5. Cardinality(A) <= limit
  BY <1>3, <1>4, FS_Injection
<1>6. IsFiniteSet(A) /\ Cardinality(A) \in Nat
  BY FiniteChat, AnswerAhead DEF A, Asking
<1> QED
  BY <1>5, <1>6 DEF A

\* An answer that is shorter holds all that there was ahead.
LEMMA AnswerComplete ==
  ASSUME Asking, NEW limit \in Nat \ {0}, Cardinality(Reply(limit)) < limit,
         NEW z \in chat, Ahead(z)
  PROVE  z \in Reply(limit)
<1> DEFINE missing == {y \in chat : Ahead(y) /\ y \notin Reply(limit)}
<1>0. chat \subseteq MsgIds /\ \A y \in chat : y \in Nat
  BY IdsAreNat DEF Asking
<1>1. SUFFICES ASSUME missing # {}
               PROVE  FALSE
  OBVIOUS
<1>2. \A x \in chat :
        /\ Rank(x) \in Nat /\ Count(offsetId) \in Nat
        /\ x >= offsetId => Rank(x) < Count(offsetId)
        /\ x < offsetId => Count(offsetId) <= Rank(x)
  BY <1>0, Ranks DEF Asking
<1>3. ASSUME NEW x \in missing
      PROVE  ~ (FirstRank(limit) <= Rank(x) /\ Rank(x) < FirstRank(limit) + limit)
  BY AnswerByRank
<1>4. ASSUME NEW D, D \subseteq Reply(limit)
      PROVE  /\ IsFiniteSet(D) /\ Cardinality(D) \in Nat
             /\ Cardinality(D) < limit
  <2>1. D \in SUBSET Reply(limit)
    BY <1>4
  <2>2. /\ Cardinality(Reply(limit)) \in Nat /\ IsFiniteSet(D)
        /\ Cardinality(D) <= Cardinality(Reply(limit))
    BY <2>1, AnswerSize, FS_Subset
  <2>3. Cardinality(D) \in Nat
    BY <2>2, FS_CardinalityType
  <2> QED
    BY <2>2, <2>3
<1>5. CASE reverse
  <2>1. PICK x \in missing : \A y \in missing : x <= y
    BY <1>0, <1>1, LeastId
  <2> DEFINE D == {y \in chat : y >= offsetId /\ y < x}
  <2>2. x \in chat /\ x >= offsetId /\ offsetId \in Nat /\ x \in Nat
    BY <1>0, <1>5 DEF Ahead, Asking
  <2>3. D \subseteq Reply(limit)
    <3> SUFFICES ASSUME NEW y \in D, y \notin Reply(limit)
                 PROVE  FALSE
      OBVIOUS
    <3>1. y \in missing
      BY <1>5 DEF Ahead
    <3>2. x <= y /\ y < x /\ y \in Nat
      BY <1>0, <2>1, <3>1
    <3> QED
      BY <2>2, <3>2
  <2>4. /\ From(offsetId) = (D \cup Newer(x)) \cup {x}
        /\ x \notin D \cup Newer(x) /\ D \cap Newer(x) = {}
    <3>1. \A y \in chat :
            /\ y >= offsetId <=> (y >= offsetId /\ y < x) \/ y > x \/ y = x
            /\ ~ (y < x /\ y > x)
            /\ y = x => ~ (y < x) /\ ~ (y > x)
      BY <1>0, <2>2
    <3>2. \A y :
                /\ y \in D <=> y \in chat /\ y >= offsetId /\ y < x
                /\ y \in Newer(x) <=> y \in chat /\ y > x
                /\ y \in From(offsetId) <=> y \in chat /\ y >= offsetId
      BY DEF From, Newer
    <3> HIDE DEF D
    <3> QED
      BY <2>2, <3>1, <3>2, Zenon
  <2>5. Count(offsetId) = Cardinality(D) + Rank(x) + 1
    <3>1. IsFiniteSet(D) /\ IsFiniteSet(Newer(x))
            /\ Cardinality(D) \in Nat /\ Cardinality(Newer(x)) \in Nat
      BY <1>0, FiniteChat DEF Newer
    <3>2. /\ IsFiniteSet(D \cup Newer(x))
          /\ Cardinality(D \cup Newer(x))
               = Cardinality(D) + Cardinality(Newer(x)) - Cardinality({})
      BY <2>4, <3>1, FS_Union
    <3>3. Cardinality(From(offsetId)) = Cardinality(D \cup Newer(x)) + 1
      BY <2>4, <3>2, FS_AddElement
    <3>4. Cardinality({}) = 0
      BY FS_EmptySet
    <3> QED
      BY <3>1, <3>2, <3>3, <3>4 DEF Count, Rank
  <2>6. Cardinality(D) \in Nat /\ Cardinality(D) < limit
    BY <1>4, <2>3
  <2> HIDE DEF D, missing
  <2>7. FirstRank(limit) + limit = Count(offsetId) /\ FirstRank(limit) \in Int
    BY <1>5, FirstRanks
  <2>8. Rank(x) \in Nat /\ Rank(x) < Count(offsetId) /\ Count(offsetId) \in Nat
    BY <1>2, <2>2
  <2> QED
    BY <1>3, <2>5, <2>6, <2>7, <2>8
<1>6. CASE ~reverse
  <2>1. PICK x \in missing : \A y \in missing : y <= x
    BY <1>0, <1>1, GreatestId
  <2> DEFINE D == {y \in chat : Ahead(y) /\ y > x}
             B == IF offsetId = 0 THEN {} ELSE From(offsetId)
  <2>2. x \in chat /\ (offsetId # 0 => x < offsetId) /\ offsetId \in Nat
          /\ x \in Nat
    BY <1>0, <1>6 DEF Ahead, Asking
  <2>3. D \subseteq Reply(limit)
    <3> SUFFICES ASSUME NEW y \in D, y \notin Reply(limit)
                 PROVE  FALSE
      OBVIOUS
    <3>1. y \in missing
      OBVIOUS
    <3>2. y <= x /\ x < y /\ y \in Nat
      BY <1>0, <2>1, <3>1
    <3> QED
      BY <2>2, <3>2
  <2>4. Newer(x) = B \cup D /\ B \cap D = {} /\ B \subseteq chat
    <3>1. \A y \in chat :
            /\ y > x <=> (offsetId # 0 /\ y >= offsetId) \/ (Ahead(y) /\ y > x)
            /\ ~ (offsetId # 0 /\ y >= offsetId /\ Ahead(y))
      BY <1>0, <1>6, <2>2 DEF Ahead
    <3>2. \A y :
                /\ y \in D <=> y \in chat /\ Ahead(y) /\ y > x
                /\ y \in Newer(x) <=> y \in chat /\ y > x
                /\ y \in B <=> y \in chat /\ offsetId # 0 /\ y >= offsetId
      BY DEF From, Newer
    <3> HIDE DEF D, B
    <3> QED
      BY <3>1, <3>2, Zenon
  <2>5. Rank(x) = Cardinality(B) + Cardinality(D) /\ Cardinality(B) \in Nat
    <3>1. IsFiniteSet(D) /\ IsFiniteSet(B)
            /\ Cardinality(D) \in Nat /\ Cardinality(B) \in Nat
      BY <1>0, <2>4, FiniteChat
    <3>2. Cardinality(B \cup D)
            = Cardinality(B) + Cardinality(D) - Cardinality({})
      BY <2>4, <3>1, FS_Union
    <3>3. Cardinality({}) = 0
      BY FS_EmptySet
    <3> QED
      BY <2>4, <3>1, <3>2, <3>3 DEF Rank
  <2>6. Cardinality(D) \in Nat /\ Cardinality(D) < limit
    BY <1>4, <2>3
  <2>7. FirstRank(limit) = Cardinality(B)
    BY <1>6, FirstRanks, FS_EmptySet DEF Count
  <2> HIDE DEF D, B, missing
  <2> QED
    BY <1>3, <2>5, <2>6, <2>7
<1> QED
  BY <1>5, <1>6 DEF Asking

----------------------------------------------------------------------------
(* Types.                                                                  *)

LEMMA ParamTypes ==
  ASSUME params \in Params
  PROVE  /\ reverse \in BOOLEAN /\ minId \in Nat /\ params.maxId \in Nat
         /\ params.offsetId \in Nat /\ params.limit \in Int
         /\ StartOffset \in Nat /\ Limit \in Nat
<1>1. params \in [reverse : BOOLEAN, limit : Int, offsetId : Nat,
                  minId : Nat, maxId : Nat]
  BY ParamsAssumption DEF ParamsAssumption
<1>2. /\ params.reverse \in BOOLEAN /\ params.minId \in Nat
      /\ params.maxId \in Nat /\ params.offsetId \in Nat /\ params.limit \in Int
  BY <1>1
<1> QED
  BY <1>2, IdsAreNat DEF reverse, minId, StartOffset, Limit, Larger

\* Every request asks for something, from an offset.
LEMMA LoadAsks ==
  ASSUME TypeOK, left > 0, reverse => offsetId # 0
  PROVE  Asking /\ Smaller(left, ChunkSize) \in Nat \ {0}
  BY IdsAreNat, ParamTypes DEF TypeOK, Asking, Smaller

KeptOf(answer) == {m \in answer : \A x \in answer : UpTo(x, m) => InRange(x)}

THEOREM PagerTypes == Spec => []TypeOK
<1>1. Init => TypeOK
  <2> SUFFICES ASSUME Init PROVE TypeOK
    OBVIOUS
  <2>1. Limit \in Nat
    BY ParamTypes DEF Init
  <2>2. topId \in Nat
    BY IdsAreNat DEF Init
  <2> QED
    BY <2>1, <2>2 DEF Init, TypeOK
<1>2. TypeOK /\ [Next]_vars => TypeOK'
  <2> SUFFICES ASSUME TypeOK, [Next]_vars PROVE TypeOK'
    OBVIOUS
  <2>1. CASE InitGivesUp \/ InitTotal \/ Finish
    BY <2>1 DEF InitGivesUp, InitTotal, Finish, TypeOK
  <2>2. CASE InitRequest
    BY <2>2, IdsAreNat, ParamTypes DEF InitRequest, TypeOK
  <2>3. CASE LoadNextChunk
    <3> DEFINE limit == Smaller(left, ChunkSize)
               answer == GetHistory(offsetId, AddOffset(limit), limit)
               kept == KeptOf(answer)
               over == kept # answer \/ Cardinality(answer) < limit
    <3>1. /\ buffer' = kept
          /\ left' = LeftAfter(kept, over)
          /\ phase' = IF kept = {} THEN "done" ELSE "open"
          /\ IF kept = {} THEN UNCHANGED lastId
                          ELSE \E m \in kept : lastId' = m
          /\ offsetId' = IF over THEN offsetId ELSE OffsetAfter(lastId')
          /\ UNCHANGED <<chat, topId, params, maxId, yielded, stable>>
      BY <2>3 DEF LoadNextChunk, KeptOf
    <3>2. kept \subseteq MsgIds /\ kept \subseteq chat
      BY DEF KeptOf, GetHistory, TypeOK
    <3>3. Cardinality(kept) \in Nat
      BY <3>2, FiniteChat DEF TypeOK
    <3> HIDE DEF kept, over, limit, answer
    <3>4. lastId' \in Nat /\ left' \in Nat
      BY <3>1, <3>2, <3>3, IdsAreNat DEF LeftAfter, TypeOK
    <3>5. offsetId' \in Nat
      <4>1. PICK l \in Nat : l = lastId'
        BY <3>4
      <4>2. l + 1 \in Nat
        OBVIOUS
      <4> QED
        BY <3>1, <4>1, <4>2 DEF OffsetAfter, TypeOK
    <3> QED
      BY <3>1, <3>2, <3>4, <3>5 DEF TypeOK
  <2>4. CASE Yield
    BY <2>4 DEF Yield, OneLess, TypeOK
  <2>5. CASE NewMessage
    BY <2>5, IdsAreNat DEF NewMessage, TypeOK
  <2>6. CASE DeleteMessage
    BY <2>6 DEF DeleteMessage, TypeOK
  <2>7. CASE UNCHANGED vars
    BY <2>7 DEF vars, TypeOK
  <2> QED
    BY <2>1, <2>2, <2>3, <2>4, <2>5, <2>6, <2>7 DEF Next
<1> QED
  BY <1>1, <1>2, PTL DEF Spec

----------------------------------------------------------------------------
(* The invariant of the iteration.                                         *)

Taken == Yielded \cup buffer
Strictly(x, m) == UpTo(x, m) /\ x # m

\* What was taken is in order, and the buffer comes after what was yielded.
Sorted ==
  /\ \A i, j \in DOMAIN yielded : i < j => Strictly(yielded[i], yielded[j])
  /\ \A y \in Yielded, b \in buffer : Strictly(y, b)

\* What may still be asked for is after the start and after the last message.
Bounded ==
  /\ maxId = IF reverse /\ params.maxId = 0 THEN MaxSafeInteger ELSE params.maxId
  /\ reverse => offsetId # 0
  /\ \A m \in MsgIds : Ahead(m) =>
       /\ IF reverse THEN m > StartOffset ELSE StartOffset # 0 => m < StartOffset
       /\ IF reverse THEN m > lastId ELSE m < lastId
  /\ \A m \in Taken : UpTo(m, lastId)

\* More may come: what is selected and was not taken is still ahead, and
\* nothing that was taken comes after it.
Missed(m) == m \in stable /\ Selected(m) /\ m \notin Taken

Running ==
  /\ Bounded
  /\ left + Len(yielded) = Limit
  /\ Cardinality(buffer) <= left
  /\ \A m \in MsgIds : Missed(m) => Ahead(m)

\* The last chunk was received: all that is selected was taken.
LastChunk ==
  /\ left = Cardinality(buffer)
  /\ left + Len(yielded) <= Limit
  /\ \A m \in MsgIds : ~Missed(m)

Ended ==
  /\ buffer = {}
  /\ Len(yielded) <= Limit
  /\ Len(yielded) < Limit => \A m \in MsgIds : ~Missed(m)

IterInv ==
  /\ stable \subseteq chat
  /\ Sorted
  /\ \A m \in Taken : Selected(m)
  /\ \A m \in MsgIds : Missed(m) => \A y \in Taken : Strictly(y, m)
  /\ \/ phase = "new" /\ yielded = <<>> /\ buffer = {} /\ left = Limit
     \/ phase = "open" /\ Running
     \/ phase = "open" /\ LastChunk
     \/ phase = "done" /\ Ended
     \/ phase = "failed" /\ yielded = <<>> /\ buffer = {}

LEMMA NothingTaken ==
  ASSUME yielded = <<>>, buffer = {}
  PROVE  Taken = {} /\ Sorted /\ Len(yielded) = 0
  BY DEF Taken, Yielded, Sorted

\* The invariant says what the runs check.
LEMMA InvImplies ==
  ASSUME TypeOK, IterInv
  PROVE  InOrder /\ WithinBounds /\ NothingSkipped
<1>0. Limit \in Nat /\ left \in Nat /\ Len(yielded) \in Nat
  BY ParamTypes DEF TypeOK
<1>1. InOrder
  BY DEF IterInv, Sorted, Strictly, InOrder
<1>2. \A m \in Yielded : m \in Taken /\ Selected(m)
  BY DEF IterInv, Taken
<1>3. Len(yielded) <= Limit
  BY <1>0, NothingTaken DEF IterInv, Running, LastChunk, Ended
<1>4. NothingSkipped
  <2> SUFFICES ASSUME NEW m \in stable, Selected(m), m \notin Yielded,
                      \/ \E y \in Yielded : UpTo(m, y)
                      \/ phase = "done" /\ Len(yielded) < Limit
               PROVE  FALSE
    BY DEF NothingSkipped
  <2>1. m \in MsgIds /\ m \in Nat
    BY IdsAreNat DEF IterInv, TypeOK
  <2>2. CASE \E y \in Yielded : UpTo(m, y)
    <3>1. PICK y \in Yielded : UpTo(m, y)
      BY <2>2
    <3>2. Strictly(y, m)
      <4>1. CASE m \in buffer
        BY <4>1 DEF IterInv, Sorted
      <4>2. CASE m \notin buffer
        BY <1>2, <2>1, <4>2 DEF IterInv, Missed, Taken
      <4> QED
        BY <4>1, <4>2
    <3>3. y \in Nat
      BY IdsAreNat DEF TypeOK, Yielded
    <3> QED
      BY <2>1, <3>1, <3>2, <3>3 DEF Strictly, UpTo
  <2>3. CASE phase = "done" /\ Len(yielded) < Limit
    BY <2>1, <2>3 DEF IterInv, Ended, Missed, Taken
  <2> QED
    BY <2>2, <2>3
<1> QED
  BY <1>1, <1>2, <1>3, <1>4 DEF WithinBounds

\* A step that only lets messages leave the chat, or enter it anew.
LEMMA ChatChanges ==
  ASSUME IterInv, stable' \subseteq stable, stable' \subseteq chat',
         UNCHANGED <<params, phase, offsetId, lastId, maxId, left, buffer,
                     yielded>>
  PROVE  IterInv'
<1>1. /\ UNCHANGED <<Taken, Yielded, Sorted, Limit, StartOffset, reverse, minId>>
      /\ \A m : UNCHANGED <<Selected(m), Ahead(m)>>
      /\ \A x, y : UNCHANGED <<UpTo(x, y), Strictly(x, y)>>
  BY DEF Taken, Yielded, Sorted, Strictly, UpTo, Limit, StartOffset, reverse,
     minId, Selected, Ahead
<1>2. \A m : Missed(m)' => Missed(m)
  BY <1>1 DEF Missed
<1>3. Bounded => Bounded'
  BY <1>1 DEF Bounded
<1>4. /\ Running => Running'
      /\ LastChunk => LastChunk'
      /\ Ended => Ended'
  BY <1>1, <1>2, <1>3 DEF Running, LastChunk, Ended
<1> QED
  BY <1>1, <1>2, <1>4 DEF IterInv

LEMMA YieldKeeps ==
  ASSUME TypeOK, TypeOK', IterInv, Yield
  PROVE  IterInv'
<1>1. PICK m \in buffer : /\ TakesNext(m)
                          /\ buffer' = buffer \ {m}
                          /\ yielded' = Append(yielded, m)
  BY DEF Yield
<1>2. /\ phase = "open" /\ left > 0 /\ left' = left - 1
      /\ UNCHANGED <<chat, topId, params, phase, offsetId, lastId, maxId, stable>>
  BY DEF Yield, OneLess
<1>3. yielded \in Seq(MsgIds) /\ m \in MsgIds /\ Len(yielded) \in Nat
  BY DEF TypeOK
<1>4. /\ Len(yielded') = Len(yielded) + 1
      /\ \A i \in 1..Len(yielded) : yielded'[i] = yielded[i]
      /\ yielded'[Len(yielded) + 1] = m
      /\ DOMAIN yielded' = 1..(Len(yielded) + 1)
      /\ DOMAIN yielded = 1..Len(yielded)
  BY <1>1, <1>3
<1>5. Yielded' = Yielded \cup {m}
  BY <1>3, <1>4 DEF Yielded
<1>6. Taken' = Taken
  BY <1>1, <1>5 DEF Taken
<1>7. /\ UNCHANGED <<Limit, StartOffset, reverse, minId>>
      /\ \A x : UNCHANGED <<Selected(x), Ahead(x)>>
      /\ \A x, y : UNCHANGED <<UpTo(x, y), Strictly(x, y)>>
  BY <1>2 DEF Strictly, UpTo, Limit, StartOffset, reverse, minId, Selected,
     Ahead
<1>8. \A x : Missed(x)' <=> Missed(x)
  BY <1>2, <1>6, <1>7 DEF Missed
<1>9. Sorted'
  <2>1. \A y \in Yielded : Strictly(y, m)
    BY DEF IterInv, Sorted
  <2>2. \A b \in buffer' : Strictly(m, b)
    BY <1>1 DEF TakesNext, IsFirst, Strictly
  <2>3. \A y \in Yielded', b \in buffer' : Strictly(y, b)
    BY <1>1, <1>5, <2>2 DEF IterInv, Sorted
  <2>4. ASSUME NEW i \in DOMAIN yielded', NEW j \in DOMAIN yielded', i < j
        PROVE  Strictly(yielded'[i], yielded'[j])
    <3>1. i \in 1..Len(yielded)
      BY <1>3, <1>4, <2>4
    <3>2. yielded'[i] = yielded[i] /\ yielded[i] \in Yielded
      BY <1>4, <3>1 DEF Yielded
    <3>3. CASE j \in 1..Len(yielded)
      BY <1>4, <2>4, <3>1, <3>2, <3>3 DEF IterInv, Sorted
    <3>4. CASE j = Len(yielded) + 1
      BY <1>4, <2>1, <3>2, <3>4
    <3> QED
      BY <1>3, <1>4, <3>3, <3>4
  <2> QED
    BY <1>7, <2>3, <2>4 DEF Sorted, Strictly, UpTo
<1>10. Cardinality(buffer') = Cardinality(buffer) - 1
         /\ Cardinality(buffer) \in Nat
  <2>1. IsFiniteSet(buffer)
    BY IdsAreNat, FS_Subset DEF TypeOK
  <2> QED
    BY <1>1, <2>1, FS_RemoveElement, FS_CardinalityType
<1>11. left \in Nat /\ Limit \in Nat
  BY ParamTypes DEF TypeOK
<1>12. Running => Running'
  <2>1. Bounded => Bounded'
    BY <1>2, <1>6, <1>7 DEF Bounded
  <2> DEFINE n == Cardinality(buffer)
             n2 == Cardinality(buffer')
             k == Len(yielded)
             k2 == Len(yielded')
  <2>2. n2 = n - 1 /\ n \in Nat /\ k2 = k + 1 /\ k \in Nat
    BY <1>3, <1>4, <1>10
  <2> HIDE DEF n, n2, k, k2
  <2>3. left + k = Limit /\ n <= left => left' + k2 = Limit' /\ n2 <= left'
    BY <1>2, <1>7, <1>11, <2>2
  <2> QED
    BY <1>7, <1>8, <2>1, <2>3 DEF Running, n, n2, k, k2
<1>13. LastChunk => LastChunk'
  <2> DEFINE n == Cardinality(buffer)
             n2 == Cardinality(buffer')
             k == Len(yielded)
             k2 == Len(yielded')
  <2>2. n2 = n - 1 /\ n \in Nat /\ k2 = k + 1 /\ k \in Nat
    BY <1>3, <1>4, <1>10
  <2> HIDE DEF n, n2, k, k2
  <2>3. left + k <= Limit /\ n = left => left' + k2 <= Limit' /\ n2 = left'
    BY <1>2, <1>7, <1>11, <2>2
  <2> QED
    BY <1>8, <2>3 DEF LastChunk, n, n2, k, k2
<1>14. \A x \in MsgIds : Missed(x)' => \A y \in Taken' : Strictly(y, x)'
  BY <1>6, <1>7, <1>8 DEF IterInv
<1>15. stable' \subseteq chat' /\ \A x \in Taken' : Selected(x)'
  BY <1>2, <1>6, <1>7 DEF IterInv
<1> QED
  BY <1>2, <1>9, <1>12, <1>13, <1>14, <1>15 DEF IterInv

\* Ids are ordered, in the direction of the iteration.
LEMMA Order ==
  ASSUME TypeOK
  PROVE  /\ \A x, y \in Nat : Strictly(x, y) <=> IF reverse THEN x < y ELSE x > y
         /\ \A x, y \in Nat : UpTo(x, y) \/ Strictly(y, x)
         /\ \A x \in Nat : UpTo(x, x)
  BY ParamTypes DEF TypeOK, Strictly, UpTo

\* A message ahead that is in range is selected ...
LEMMA InRangeIsSelected ==
  ASSUME TypeOK, Bounded, NEW m \in MsgIds, Ahead(m), InRange(m)
  PROVE  Selected(m)
  BY IdsAreNat, ParamTypes DEF TypeOK, Bounded, InRange, Selected

\* ... and from one that is not, none is.
LEMMA OutOfRange ==
  ASSUME TypeOK, Bounded, NEW x \in MsgIds, Ahead(x), ~InRange(x),
         NEW m \in MsgIds, UpTo(x, m)
  PROVE  ~Selected(m)
<1>1. /\ x \in Nat /\ m \in Nat /\ m < MaxSafeInteger /\ maxId \in Nat
      /\ lastId \in Nat /\ minId \in Nat /\ params.maxId \in Nat
      /\ MaxSafeInteger \in Nat /\ StartOffset \in Nat
  BY IdsAreNat, ParamTypes DEF TypeOK
<1>2. CASE reverse
  <2>1. x > lastId /\ x <= m
    BY <1>2 DEF Bounded, UpTo
  <2>2. ~ (x < maxId)
    BY <1>2, <2>1 DEF InRange
  <2>3. ~ (m < maxId)
    BY <1>1, <2>1, <2>2
  <2>4. params.maxId # 0 /\ maxId = params.maxId
    BY <1>1, <1>2, <2>3 DEF Bounded
  <2> QED
    BY <1>2, <2>3, <2>4 DEF Selected
<1>3. CASE ~reverse
  <2>1. x < lastId /\ x >= m
    BY <1>3 DEF Bounded, UpTo
  <2>2. ~ (x > minId)
    BY <1>3, <2>1 DEF InRange
  <2>3. ~ (m > minId)
    BY <1>1, <2>1, <2>2
  <2> QED
    BY <1>3, <2>3 DEF Selected
<1> QED
  BY <1>2, <1>3, ParamTypes DEF TypeOK

LEMMA LoadKeeps ==
  ASSUME TypeOK, TypeOK', IterInv, LoadNextChunk
  PROVE  IterInv'
<1> DEFINE limit == Smaller(left, ChunkSize)
           A == Reply(limit)
           K == KeptOf(A)
           over == K # A \/ Cardinality(A) < limit
<1>1. /\ phase = "open" /\ left > 0 /\ buffer = {}
      /\ buffer' = K
      /\ left' = LeftAfter(K, over)
      /\ phase' = IF K = {} THEN "done" ELSE "open"
      /\ IF K = {} THEN UNCHANGED lastId
                   ELSE \E m \in K : IsLast(m, K) /\ lastId' = m
      /\ offsetId' = IF over THEN offsetId ELSE OffsetAfter(lastId')
      /\ UNCHANGED <<chat, topId, params, maxId, yielded, stable>>
  BY DEF LoadNextChunk, KeptOf, Reply
<1>2. Running
  <2>1. Cardinality(buffer) = 0
    BY <1>1, FS_EmptySet
  <2>2. left # 0
    BY <1>1
  <2> QED
    BY <1>1, <2>1, <2>2 DEF IterInv, LastChunk
<1>3. Bounded
  BY <1>2 DEF Running
<1>4. Asking /\ limit \in Nat \ {0} /\ limit <= left /\ left \in Nat
  <2>1. Asking /\ limit \in Nat \ {0}
    BY <1>1, <1>3, LoadAsks DEF Bounded
  <2>2. limit <= left /\ left \in Nat
    BY IdsAreNat DEF TypeOK, Smaller
  <2> QED
    BY <2>1, <2>2
<1> HIDE DEF limit
<1>5. /\ \A m \in A : m \in chat /\ m \in MsgIds /\ m \in Nat /\ Ahead(m)
      /\ \A m \in A : \A x \in chat : Ahead(x) /\ UpTo(x, m) => x \in A
      /\ IsFiniteSet(A) /\ Cardinality(A) \in Nat /\ Cardinality(A) <= limit
      /\ Cardinality(A) < limit => \A x \in chat : Ahead(x) => x \in A
  <2>1. \A m \in A : m \in chat /\ Ahead(m)
    BY <1>4, AnswerAhead
  <2>2. \A m \in A : \A x \in chat : Ahead(x) /\ UpTo(x, m) => x \in A
    BY <1>4, AnswerContiguous
  <2>3. IsFiniteSet(A) /\ Cardinality(A) \in Nat /\ Cardinality(A) <= limit
    BY <1>4, AnswerSize
  <2>4. Cardinality(A) < limit => \A x \in chat : Ahead(x) => x \in A
    BY <1>4, AnswerComplete
  <2> QED
    BY <2>1, <2>2, <2>3, <2>4, IdsAreNat DEF TypeOK
<1> HIDE DEF A
<1>6. /\ K \subseteq A
      /\ IsFiniteSet(K) /\ Cardinality(K) \in Nat /\ Cardinality(K) <= left
  <2>1. K \in SUBSET A
    BY DEF KeptOf
  <2>2. IsFiniteSet(K) /\ Cardinality(K) <= Cardinality(A)
    BY <1>5, <2>1, FS_Subset
  <2>3. Cardinality(K) \in Nat
    BY <2>2, FS_CardinalityType
  <2> QED
    BY <1>4, <1>5, <2>1, <2>2, <2>3
<1>7. \A m \in K : InRange(m) /\ Selected(m)
  <2>1. \A m \in K : InRange(m)
    BY <1>5, <1>6, Order DEF KeptOf
  <2> QED
    BY <1>3, <1>5, <1>6, <2>1, InRangeIsSelected
<1>8. K # A => \E x \in A : ~InRange(x)
  BY <1>6 DEF KeptOf
<1>9. \A m \in A : m \notin K => ~Selected(m)
  <2> SUFFICES ASSUME NEW m \in A, m \notin K
               PROVE  ~Selected(m)
    OBVIOUS
  <2>1. PICK x \in A : UpTo(x, m) /\ ~InRange(x)
    BY DEF KeptOf
  <2> QED
    BY <1>3, <1>5, <2>1, OutOfRange
<1>10. Taken = Yielded /\ Taken' = Yielded \cup K /\ Yielded' = Yielded
         /\ \A y \in Yielded : y \in Nat
  <2>1. \A y \in Yielded : y \in MsgIds
    BY DEF Yielded, TypeOK
  <2> QED
    BY <1>1, <2>1, IdsAreNat DEF Taken, Yielded
<1>11. /\ UNCHANGED <<Limit, StartOffset, reverse, minId>>
       /\ \A x : Selected(x)' = Selected(x)
       /\ \A x, y : UpTo(x, y)' = UpTo(x, y)
       /\ \A x, y : Strictly(x, y)' = Strictly(x, y)
  BY <1>1 DEF Strictly, UpTo, Limit, StartOffset, reverse, minId, Selected
<1>12. \A y \in Yielded, b \in K : Strictly(y, b)
  <2> SUFFICES ASSUME NEW y \in Yielded, NEW b \in K
               PROVE  Strictly(y, b)
    OBVIOUS
  <2>1. /\ UpTo(y, lastId) /\ y \in Nat /\ b \in Nat /\ lastId \in Nat
        /\ IF reverse THEN b > lastId ELSE b < lastId
    BY <1>3, <1>5, <1>6, <1>10 DEF Bounded, TypeOK
  <2> QED
    BY <2>1, Order DEF UpTo
\* Whoever is still missed was ahead, and comes after the whole answer.
<1>13. ASSUME NEW m \in MsgIds, Missed(m)'
       PROVE  /\ m \in chat /\ Ahead(m) /\ Selected(m) /\ m \notin A
              /\ \A y \in A : Strictly(y, m)
              /\ \A y \in Yielded : Strictly(y, m)
  <2>1. m \in stable /\ Selected(m) /\ m \notin Yielded \cup K
    BY <1>1, <1>10, <1>11, <1>13 DEF Missed
  <2>2. Missed(m) /\ m \in chat /\ m \in Nat
    BY <1>10, <2>1, IdsAreNat DEF Missed, IterInv
  <2>3. Ahead(m) /\ \A y \in Yielded : Strictly(y, m)
    BY <1>2, <1>10, <2>2 DEF Running, IterInv
  <2>4. m \notin A
    BY <1>9, <2>1
  <2>5. \A y \in A : Strictly(y, m)
    BY <1>5, <2>2, <2>3, <2>4, Order
  <2> QED
    BY <2>1, <2>2, <2>3, <2>4, <2>5
<1>14. /\ stable' \subseteq chat'
       /\ Sorted'
       /\ \A m \in Taken' : Selected(m)'
       /\ \A m \in MsgIds : Missed(m)' => \A y \in Taken' : Strictly(y, m)'
  <2>1. stable' \subseteq chat'
    BY <1>1 DEF IterInv
  <2>2. \A m \in Taken' : Selected(m)'
    BY <1>7, <1>10, <1>11 DEF IterInv
  <2>3. \A m \in MsgIds : Missed(m)' => \A y \in Taken' : Strictly(y, m)'
    BY <1>6, <1>10, <1>11, <1>13
  <2>4. \A i, j \in DOMAIN yielded' :
          i < j => Strictly(yielded'[i], yielded'[j])
    BY <1>1 DEF IterInv, Sorted
  <2>5. \A y \in Yielded', b \in buffer' : Strictly(y, b)
    BY <1>1, <1>10, <1>12
  <2>6. Sorted'
    BY <1>11, <2>4, <2>5 DEF Sorted, Strictly, UpTo
  <2> QED
    BY <2>1, <2>2, <2>3, <2>6
<1>15. /\ Limit \in Nat /\ Len(yielded) \in Nat /\ left + Len(yielded) = Limit
       /\ Len(yielded') = Len(yielded)
  BY <1>1, <1>2, ParamTypes DEF Running, TypeOK
<1>16. CASE over
  <2>1. \A m \in MsgIds : ~Missed(m)'
    <3> SUFFICES ASSUME NEW m \in MsgIds, Missed(m)'
                 PROVE  FALSE
      OBVIOUS
    <3>1. CASE Cardinality(A) < limit
      BY <1>5, <1>13, <3>1
    <3>2. CASE K # A
      <4>1. PICK x \in A : ~InRange(x)
        BY <1>8, <3>2
      <4>2. Strictly(x, m) /\ Selected(m)
        BY <1>13
      <4> QED
        BY <1>3, <1>5, <4>1, <4>2, OutOfRange DEF Strictly
    <3> QED
      BY <1>16, <3>1, <3>2
  <2>2. left' = Cardinality(K)
    BY <1>1, <1>16 DEF LeftAfter
  <2> DEFINE n == Cardinality(K)
             k == Len(yielded)
  <2>3. n \in Nat /\ n <= left /\ k \in Nat /\ left + k = Limit /\ Limit \in Nat
    BY <1>6, <1>15
  <2> HIDE DEF n, k
  <2>4. n + k <= Limit /\ k <= Limit
    BY <1>4, <2>3
  <2>5. LastChunk'
    BY <1>1, <1>11, <1>15, <2>1, <2>2, <2>4 DEF LastChunk, n, k
  <2>6. K = {} => Ended'
    BY <1>1, <1>11, <1>15, <2>1, <2>4 DEF Ended, k
  <2> QED
    BY <1>1, <1>14, <2>5, <2>6 DEF IterInv
<1>17. CASE ~over
  <2>1. K = A /\ K # {} /\ left' = left
    <3>1. Cardinality(A) >= limit
      BY <1>4, <1>5, <1>17
    <3>2. A # {}
      BY <1>4, <3>1, FS_EmptySet
    <3> QED
      BY <1>1, <1>17, <3>2 DEF LeftAfter
  <2>2. PICK l \in K : IsLast(l, K) /\ lastId' = l
    BY <1>1, <2>1
  <2>3. offsetId' = OffsetAfter(l)
    BY <1>1, <1>17, <2>2
  <2>4. l \in Nat /\ l # 0 /\ Ahead(l) /\ lastId \in Nat
    BY <1>5, <1>6, <2>2, IdsAreNat DEF TypeOK
  <2>5. \A m \in MsgIds : Ahead(m)' <=> IF reverse THEN m > l ELSE m < l
    BY <1>11, <2>3, <2>4, IdsAreNat, ParamTypes DEF Ahead, OffsetAfter, TypeOK
  <2>6. \A m \in Taken' : UpTo(m, l)
    <3>1. \A m \in K : UpTo(m, l)
      BY <2>2 DEF IsLast
    <3>2. \A m \in Yielded : UpTo(m, l)
      BY <1>12, <2>2 DEF Strictly
    <3> QED
      BY <1>10, <3>1, <3>2
  <2>7. \A m \in MsgIds : Ahead(m)' =>
          /\ IF reverse THEN m > StartOffset
                        ELSE StartOffset # 0 => m < StartOffset
          /\ IF reverse THEN m > l ELSE m < l
    <3>1. l \in MsgIds /\ IF reverse THEN l > StartOffset
                                     ELSE StartOffset # 0 => l < StartOffset
      BY <1>3, <1>5, <2>1, <2>2, <2>4 DEF Bounded
    <3>2. StartOffset \in Nat /\ \A m \in MsgIds : m \in Nat
      BY IdsAreNat, ParamTypes DEF TypeOK
    <3> QED
      BY <2>4, <2>5, <3>1, <3>2
  <2>8. reverse => offsetId' # 0
    BY <2>3, <2>4 DEF OffsetAfter
  <2>9. Bounded'
    BY <1>1, <1>3, <1>11, <2>2, <2>6, <2>7, <2>8 DEF Bounded
  <2>10. \A m \in MsgIds : Missed(m)' => Ahead(m)'
    <3> SUFFICES ASSUME NEW m \in MsgIds, Missed(m)'
                 PROVE  Ahead(m)'
      OBVIOUS
    <3>1. Strictly(l, m) /\ m \in Nat
      BY <1>13, <2>1, <2>2, IdsAreNat
    <3>2. IF reverse THEN l < m ELSE l > m
      BY <2>4, <3>1, Order
    <3> QED
      BY <2>4, <2>5, <3>1, <3>2
  <2>11. Running'
    BY <1>1, <1>6, <1>11, <1>15, <2>1, <2>9, <2>10 DEF Running
  <2> QED
    BY <1>1, <1>14, <2>1, <2>11 DEF IterInv
<1> QED
  BY <1>16, <1>17

THEOREM IterInvariant == Spec => [](TypeOK /\ IterInv)
<1>1. TypeOK /\ Init => IterInv
  <2> SUFFICES ASSUME TypeOK, Init PROVE IterInv
    OBVIOUS
  <2>1. Taken = {} /\ Sorted
    BY NothingTaken DEF Init
  <2> QED
    BY <2>1 DEF Init, IterInv
<1>2. TypeOK /\ TypeOK' /\ IterInv /\ [Next]_vars => IterInv'
  <2> SUFFICES ASSUME TypeOK, TypeOK', IterInv, [Next]_vars
               PROVE  IterInv'
    OBVIOUS
  \* A step that only moves on from "new", or from "open" when nothing is left.
  <2>1. ASSUME UNCHANGED <<chat, params, yielded, buffer, stable>>,
               \/ phase' = "open" /\ Running'
               \/ phase' = "done" /\ Ended'
               \/ phase' = "failed" /\ yielded = <<>> /\ buffer = {}
        PROVE  IterInv'
    <3>1. /\ UNCHANGED <<Taken, Yielded, StartOffset, reverse, minId>>
          /\ \A m : Selected(m)' = Selected(m)
          /\ \A x, y : Strictly(x, y)' = Strictly(x, y)
      BY <2>1 DEF Taken, Yielded, Strictly, UpTo, StartOffset, reverse, minId,
         Selected
    <3>2. Sorted'
      BY <2>1, <3>1 DEF IterInv, Sorted
    <3>3. \A m : Missed(m)' <=> Missed(m)
      BY <2>1, <3>1 DEF Missed
    <3>4. /\ stable' \subseteq chat'
          /\ \A m \in Taken' : Selected(m)'
          /\ \A m \in MsgIds : Missed(m)' => \A y \in Taken' : Strictly(y, m)'
      BY <2>1, <3>1, <3>3 DEF IterInv
    <3> QED
      BY <2>1, <3>2, <3>4 DEF IterInv
  <2>2. CASE InitGivesUp \/ InitTotal
    <3>1. /\ phase' = "failed" \/ (phase' = "done" /\ left <= 0)
          /\ yielded = <<>> /\ buffer = {} /\ left = Limit
          /\ UNCHANGED <<chat, params, left, yielded, buffer, stable>>
      BY <2>2 DEF InitGivesUp, InitTotal, IterInv
    <3>2. Len(yielded) = 0 /\ Limit \in Nat
      BY <3>1, ParamTypes DEF TypeOK
    <3>3. phase' = "done" => Ended'
      BY <3>1, <3>2 DEF Ended, Limit
    <3> QED
      BY <2>1, <3>1, <3>3
  <2>3. CASE InitRequest
    <3>1. /\ yielded = <<>> /\ buffer = {} /\ left = Limit /\ phase' = "open"
          /\ offsetId' = IF reverse THEN StartOffset + 1 ELSE StartOffset
          /\ maxId' = IF reverse /\ params.maxId = 0 THEN MaxSafeInteger
                                                     ELSE params.maxId
          /\ lastId' = IF reverse THEN 0 ELSE MaxSafeInteger
          /\ UNCHANGED <<chat, topId, params, left, buffer, yielded, stable>>
      BY <2>3 DEF InitRequest, IterInv
    <3>2. /\ UNCHANGED <<StartOffset, reverse, Limit>>
          /\ Taken = {} /\ Taken' = {} /\ Len(yielded) = 0
          /\ StartOffset \in Nat /\ Limit \in Nat
      BY <3>1, NothingTaken, ParamTypes
         DEF StartOffset, reverse, Limit, minId, TypeOK, Taken, Yielded
    <3>3. \A m \in MsgIds :
            /\ m \in Nat /\ m # 0 /\ m < MaxSafeInteger
            /\ Ahead(m)' <=> IF reverse THEN m > StartOffset
                             ELSE StartOffset # 0 => m < StartOffset
      BY <3>1, <3>2, IdsAreNat, ParamTypes DEF Ahead, TypeOK
    <3>4. reverse => offsetId' # 0
      BY <3>1, <3>2
    <3>5. Bounded'
      BY <3>1, <3>2, <3>3, <3>4 DEF Bounded
    <3>6. \A m \in MsgIds : Missed(m)' => Ahead(m)'
      <4>1. \A m : Missed(m)' => Selected(m)
        BY <3>1 DEF Missed, Selected, StartOffset, reverse, minId
      <4> QED
        BY <3>3, <4>1 DEF Selected
    <3>7. Cardinality(buffer') <= left' /\ left' + Len(yielded') = Limit'
      BY <3>1, <3>2, FS_EmptySet
    <3>8. Running'
      BY <3>5, <3>6, <3>7 DEF Running
    <3> QED
      BY <2>1, <3>1, <3>8
  <2>4. CASE LoadNextChunk
    BY <2>4, LoadKeeps
  <2>5. CASE Yield
    BY <2>5, YieldKeeps
  <2>6. CASE Finish
    <3>1. /\ phase = "open" /\ left <= 0 /\ phase' = "done" /\ left \in Nat
          /\ UNCHANGED <<chat, params, left, buffer, yielded, stable>>
      BY <2>6 DEF Finish, TypeOK
    <3>2. left = 0 /\ Limit \in Nat /\ Len(yielded) \in Nat /\ Limit' = Limit
      BY <3>1, ParamTypes DEF TypeOK, Limit
    <3>3. IsFiniteSet(buffer) /\ Cardinality(buffer) \in Nat
      BY IdsAreNat, FS_Subset, FS_CardinalityType DEF TypeOK
    <3>4. \A m : Missed(m)' <=> Missed(m)
      BY <3>1 DEF Missed, Taken, Yielded, Selected, StartOffset, reverse, minId
    <3>5. CASE Running
      <4>1. Len(yielded) = Limit /\ Cardinality(buffer) = 0
        BY <3>2, <3>3, <3>5 DEF Running
      <4>2. buffer = {}
        BY <3>3, <4>1, FS_EmptySet
      <4> QED
        BY <2>1, <3>1, <3>2, <4>1, <4>2 DEF Ended
    <3>6. CASE LastChunk
      <4>1. Len(yielded) <= Limit /\ Cardinality(buffer) = 0
        BY <3>2, <3>6 DEF LastChunk
      <4>2. buffer = {}
        BY <3>3, <4>1, FS_EmptySet
      <4>3. \A m \in MsgIds : ~Missed(m)'
        BY <3>4, <3>6 DEF LastChunk
      <4> QED
        BY <2>1, <3>1, <3>2, <4>1, <4>2, <4>3 DEF Ended
    <3> QED
      BY <3>1, <3>5, <3>6 DEF IterInv
  <2>7. CASE NewMessage
    BY <2>7, ChatChanges DEF NewMessage, IterInv
  <2>8. CASE DeleteMessage
    BY <2>8, ChatChanges DEF DeleteMessage, IterInv
  <2>9. CASE UNCHANGED vars
    BY <2>9, ChatChanges DEF vars, IterInv
  <2> QED
    BY <2>2, <2>3, <2>4, <2>5, <2>6, <2>7, <2>8, <2>9 DEF Next
<1>3. Spec => []TypeOK
  BY PagerTypes
<1> QED
  BY <1>1, <1>2, <1>3, PTL DEF Spec

\* For every chat, chunk size and arguments, and whatever is sent or deleted
\* between two requests: messages come in order and once, ...
THEOREM PagerInOrder == Spec => []InOrder
  BY IterInvariant, InvImplies, PTL

\* ... only those that the arguments select, and no more than the limit, ...
THEOREM PagerWithinBounds == Spec => []WithinBounds
  BY IterInvariant, InvImplies, PTL

\* ... and none that stayed in the chat is passed over.
THEOREM PagerSkipsNothing == Spec => []NothingSkipped
  BY IterInvariant, InvImplies, PTL

----------------------------------------------------------------------------
(* The export job's use.                                                   *)

LEMMA ExportParams ==
  ASSUME Exporting, TypeOK
  PROVE  /\ reverse = TRUE /\ params.maxId = 0 /\ Limit = MaxSafeInteger
         /\ StartOffset \in MsgIds \cup {0} /\ ~NothingBetween
<1>1. /\ params.reverse /\ params.limit = 0 /\ params.maxId = 0
      /\ StartOffset \in MsgIds \cup {0}
  BY DEF Exporting
<1>2. reverse = TRUE
  BY <1>1, ParamTypes DEF reverse, TypeOK
<1> QED
  BY <1>1, <1>2 DEF Limit, NothingBetween, minId

Exhausted == left = Cardinality(buffer)

\* While more may come, the offset of the next request follows the last message
\* that was taken.
ExportInv ==
  phase = "open" /\ ~Exhausted =>
    /\ offsetId = IF Taken = {} THEN StartOffset + 1 ELSE lastId + 1
    /\ buffer # {} => lastId \in buffer
    /\ buffer = {} /\ yielded # <<>> => yielded[Len(yielded)] = lastId

LEMMA OpenIsRunning ==
  ASSUME IterInv, phase = "open", ~Exhausted
  PROVE  Running
  BY DEF IterInv, LastChunk, Exhausted

\* No limit is ever near: fewer messages can come than it allows.
LEMMA EnoughLeft ==
  ASSUME Exporting, TypeOK, IterInv, phase = "open", ~Exhausted
  PROVE  left > ChunkSize
<1> DEFINE k == Len(yielded)
           n == Cardinality(MsgIds)
<1>1. yielded \in [1..k -> MsgIds] /\ k \in Nat
  BY DEF TypeOK
<1>2. \A i, j \in 1..k : yielded[i] = yielded[j] => i = j
  <2> SUFFICES ASSUME NEW i \in 1..k, NEW j \in 1..k, yielded[i] = yielded[j]
               PROVE  i = j
    OBVIOUS
  <2>1. i \in Nat /\ j \in Nat /\ ~ (i < j) /\ ~ (j < i)
    BY <1>1 DEF IterInv, Sorted, Strictly
  <2> QED
    BY <2>1
<1>3. yielded \in Injection(1..k, MsgIds)
  BY <1>1, <1>2, Fun_IsInj
<1>4. Cardinality(1..k) <= n /\ Cardinality(1..k) = k
  <2>1. Cardinality(1..k) <= n
    BY <1>3, IdsAreNat, FS_Injection
  <2>2. Cardinality(1..k) = k
    <3>1. k \in Nat /\ k \in Int /\ 1 \in Int
      BY <1>1
    <3> HIDE DEF k
    <3>2. Cardinality(1..k) = IF 1 > k THEN 0 ELSE k - 1 + 1
      BY <3>1, FS_Interval
    <3> QED
      BY <3>1, <3>2
  <2> QED
    BY <2>1, <2>2
<1>5. n + ChunkSize < MaxSafeInteger /\ n \in Nat /\ ChunkSize \in Nat
        /\ MaxSafeInteger \in Nat
  BY IdsAreNat, MaxSafeIntegerAssumption, FS_CardinalityType
     DEF MaxSafeIntegerAssumption
<1>6. left + k = MaxSafeInteger /\ left \in Nat
  BY OpenIsRunning, ExportParams DEF Running, TypeOK
<1> HIDE DEF k, n
<1> QED
  BY <1>1, <1>4, <1>5, <1>6

\* Every message of the chat after the cursor is ahead, and no other is.
LEMMA CursorAhead ==
  ASSUME Exporting, TypeOK, IterInv, ExportInv, phase = "open", ~Exhausted,
         buffer = {}
  PROVE  /\ offsetId = Cursor + 1 /\ Cursor \in Nat
         /\ \A m \in Nat : Ahead(m) <=> m > Cursor
<1>1. StartOffset \in Nat /\ reverse = TRUE
  BY ExportParams, IdsAreNat
<1>2. CASE yielded = <<>>
  <2>1. Taken = {}
    BY <1>2, NothingTaken
  <2>2. offsetId = Cursor + 1 /\ Cursor \in Nat
    BY <1>1, <1>2, <2>1 DEF ExportInv, Cursor
  <2> QED
    BY <1>1, <2>2 DEF Ahead
<1>3. CASE yielded # <<>>
  <2>1. Len(yielded) \in DOMAIN yielded
    BY <1>3 DEF TypeOK
  <2>2. yielded[Len(yielded)] = lastId /\ Taken # {} /\ lastId \in Nat
    BY <1>3, <2>1 DEF ExportInv, Taken, Yielded, TypeOK
  <2>3. offsetId = Cursor + 1 /\ Cursor \in Nat
    BY <1>3, <2>2 DEF ExportInv, Cursor
  <2> QED
    BY <1>1, <2>3 DEF Ahead
<1> QED
  BY <1>2, <1>3

\* The instance counts as this module does.
LEMMA SameCardinality == \A S : Iter!Cardinality(S) = Cardinality(S)
  BY DEF Cardinality, IsFiniteSet, Iter!Cardinality, Iter!IsFiniteSet

\* A request of the export is a request of the iterator.
LEMMA ExportLoads ==
  ASSUME Exporting, TypeOK, TypeOK', IterInv, ExportInv, LoadNextChunk
  PROVE  /\ Iter!LoadChunk /\ UNCHANGED <<chat, topId>>
         /\ ExportInv'
<1> DEFINE limit == Smaller(left, ChunkSize)
           A == Reply(limit)
           K == KeptOf(A)
           over == K # A \/ Cardinality(A) < limit
           S == {m \in chat : m > Cursor}
<1>1. /\ phase = "open" /\ left > 0 /\ buffer = {}
      /\ buffer' = K
      /\ left' = LeftAfter(K, over)
      /\ phase' = IF K = {} THEN "done" ELSE "open"
      /\ IF K = {} THEN UNCHANGED lastId
                   ELSE \E m \in K : IsLast(m, K) /\ lastId' = m
      /\ offsetId' = IF over THEN offsetId ELSE OffsetAfter(lastId')
      /\ UNCHANGED <<chat, topId, params, maxId, yielded, stable>>
  BY DEF LoadNextChunk, KeptOf, Reply
<1>2. Cardinality(buffer) = 0 /\ ~Exhausted
  BY <1>1, FS_EmptySet DEF Exhausted, TypeOK
<1>3. Running /\ Bounded /\ left > ChunkSize /\ left \in Nat
        /\ ChunkSize \in Nat \ {0}
  BY <1>1, <1>2, OpenIsRunning, EnoughLeft, IdsAreNat DEF Running, TypeOK
<1>4. limit = ChunkSize /\ Asking
  BY <1>1, <1>3, LoadAsks DEF Bounded, Smaller
<1> HIDE DEF limit
<1>5. /\ Cursor \in Nat /\ reverse = TRUE
      /\ \A m \in chat : m \in MsgIds /\ m \in Nat /\ (Ahead(m) <=> m > Cursor)
  BY <1>1, <1>2, CursorAhead, ExportParams, IdsAreNat DEF TypeOK
<1>6. /\ A \subseteq S
      /\ \A m \in A, x \in S : x < m => x \in A
      /\ IsFiniteSet(A) /\ Cardinality(A) \in Nat
      /\ Cardinality(A) <= ChunkSize
      /\ Cardinality(A) < ChunkSize => A = S
  <2>1. A \subseteq S
    BY <1>3, <1>4, <1>5, AnswerAhead
  <2>2. \A m \in A, x \in S : x < m => x \in A
    <3> SUFFICES ASSUME NEW m \in A, NEW x \in S, x < m
                 PROVE  x \in A
      OBVIOUS
    <3>1. m \in Nat /\ x \in Nat /\ x \in chat /\ Ahead(x)
      BY <1>5, <2>1
    <3>2. UpTo(x, m)
      BY <1>5, <3>1 DEF UpTo
    <3> QED
      BY <1>3, <1>4, <3>1, <3>2, AnswerContiguous
  <2>3. /\ IsFiniteSet(A) /\ Cardinality(A) \in Nat
        /\ Cardinality(A) <= ChunkSize
    BY <1>3, <1>4, AnswerSize
  <2>4. Cardinality(A) < ChunkSize => \A x \in S : x \in A
    BY <1>3, <1>4, <1>5, AnswerComplete
  <2> QED
    BY <2>1, <2>2, <2>3, <2>4
<1> HIDE DEF A
<1>7. K = A
  <2>1. \A x \in A : InRange(x)
    <3> SUFFICES ASSUME NEW x \in A
                 PROVE  InRange(x)
      OBVIOUS
    <3>1. x \in MsgIds /\ Ahead(x) /\ x < MaxSafeInteger
      BY <1>5, <1>6, IdsAreNat
    <3>2. maxId = MaxSafeInteger /\ x > lastId
      BY <1>3, <1>5, <3>1, ExportParams DEF Bounded
    <3> QED
      BY <1>5, <3>1, <3>2 DEF InRange
  <2> QED
    BY <2>1 DEF KeptOf
<1> HIDE DEF K
<1>8. over <=> Cardinality(A) < ChunkSize
  BY <1>4, <1>7
<1>9. (left' = Cardinality(buffer')) <=> Cardinality(A) < ChunkSize
  <2>1. CASE over
    BY <1>1, <1>7, <1>8, <2>1 DEF LeftAfter
  <2>2. CASE ~over
    <3>1. left' = left /\ Cardinality(buffer') = Cardinality(A)
      BY <1>1, <1>7, <2>2 DEF LeftAfter
    <3> QED
      BY <1>3, <1>6, <1>8, <2>2, <3>1
  <2> QED
    BY <2>1, <2>2
<1>10. Cursor' = Cursor
  BY <1>1 DEF Cursor, StartOffset, reverse, minId
<1>11. Iter!LoadChunk
  <2>1. Iter!IsFirstChunk(A, S)
    <3> HIDE DEF S, over
    <3> QED
      BY <1>6, SameCardinality DEF Iter!IsFirstChunk
  <2>2. A \in SUBSET S
    BY <1>6
  <2>3. (left' = Cardinality(buffer')) = (Cardinality(A) < ChunkSize)
    BY <1>9
  <2>4. (left = Cardinality(buffer)) = FALSE
    BY <1>2 DEF Exhausted
  <2> QED
    <3>1. buffer = {} /\ buffer' = A
      BY <1>1, <1>7
    <3> HIDE DEF over
    <3> QED
      BY <1>10, <2>1, <2>2, <2>3, <2>4, <3>1, SameCardinality
         DEF Iter!LoadChunk
<1>12. ExportInv'
  <2> SUFFICES ASSUME phase' = "open", ~Exhausted'
               PROVE  /\ offsetId' = IF Taken' = {} THEN StartOffset' + 1
                                     ELSE lastId' + 1
                      /\ buffer' # {} => lastId' \in buffer'
                      /\ buffer' = {} /\ yielded' # <<>>
                           => yielded'[Len(yielded')] = lastId'
    BY DEF ExportInv
  <2>1. ~over /\ K # {}
    BY <1>1, <1>8, <1>9 DEF Exhausted
  <2>2. lastId' \in K /\ offsetId' = lastId' + 1
    BY <1>1, <1>5, <2>1 DEF IsLast, OffsetAfter
  <2>3. Taken' # {}
    BY <1>1, <2>1 DEF Taken
  <2> QED
    BY <1>1, <2>1, <2>2, <2>3
<1> QED
  BY <1>1, <1>11, <1>12

LEMMA ExportYields ==
  ASSUME Exporting, TypeOK, TypeOK', IterInv, ExportInv, Yield
  PROVE  /\ \E m \in MsgIds : Iter!Yield(m)
         /\ UNCHANGED <<chat, topId>>
         /\ ExportInv'
<1>1. PICK m \in buffer : /\ TakesNext(m)
                          /\ buffer' = buffer \ {m}
                          /\ yielded' = Append(yielded, m)
  BY DEF Yield
<1>2. /\ phase = "open" /\ left > 0 /\ left' = left - 1
      /\ UNCHANGED <<chat, topId, params, phase, offsetId, lastId, maxId, stable>>
  BY DEF Yield, OneLess
<1>3. /\ yielded \in Seq(MsgIds) /\ m \in MsgIds /\ m \in Nat /\ reverse = TRUE
      /\ \A b \in buffer : b \in Nat /\ m <= b
  BY <1>1, ExportParams, IdsAreNat DEF TypeOK, TakesNext, IsFirst, UpTo
<1>4. yielded' # <<>> /\ yielded'[Len(yielded')] = m
  BY <1>1, <1>3
<1>5. Cursor' = m
  BY <1>4 DEF Cursor
<1>6. Cardinality(buffer') = Cardinality(buffer) - 1
        /\ Cardinality(buffer) \in Nat /\ left \in Nat
  <2>1. IsFiniteSet(buffer)
    BY IdsAreNat, FS_Subset DEF TypeOK
  <2> QED
    BY <1>1, <2>1, FS_RemoveElement, FS_CardinalityType DEF TypeOK
<1>7. Exhausted' <=> Exhausted
  <2> DEFINE n == Cardinality(buffer)
             n2 == Cardinality(buffer')
  <2>1. n2 = n - 1 /\ n \in Nat /\ left \in Nat /\ left' = left - 1
    BY <1>2, <1>6
  <2> HIDE DEF n, n2
  <2>2. left' = n2 <=> left = n
    BY <2>1
  <2> QED
    BY <2>2 DEF Exhausted, n, n2
<1>8. Iter!Yield(m)
  <2>1. (left' = Cardinality(buffer')) = (left = Cardinality(buffer))
    BY <1>7 DEF Exhausted
  <2> QED
    BY <1>1, <1>3, <1>5, <2>1 DEF Iter!Yield, Iter!IsNext
<1>9. ExportInv'
  <2> SUFFICES ASSUME ~Exhausted
               PROVE  /\ offsetId' = lastId' + 1
                      /\ buffer' # {} => lastId' \in buffer'
                      /\ buffer' = {} => yielded'[Len(yielded')] = lastId'
    <3>1. Taken' # {}
      BY <1>3, <1>4 DEF Taken, Yielded, TypeOK
    <3> QED
      BY <1>7, <3>1 DEF ExportInv
  <2>1. Bounded
    BY <1>2, OpenIsRunning DEF Running
  <2>2. offsetId = lastId + 1 /\ lastId \in buffer
    BY <1>1, <1>2 DEF ExportInv, Taken
  <2>3. \A b \in buffer : b <= lastId
    BY <1>3, <2>1 DEF Bounded, Taken, UpTo
  <2>4. lastId = m => buffer' = {}
    <3> SUFFICES ASSUME lastId = m, NEW b \in buffer'
                 PROVE  FALSE
      OBVIOUS
    <3>1. b \in Nat /\ m <= b /\ b <= m /\ b # m
      BY <1>1, <1>3, <2>3
    <3> QED
      BY <1>3, <3>1
  <2>5. buffer' = {} => lastId = m
    BY <1>1, <2>2
  <2> QED
    BY <1>1, <1>2, <1>4, <2>2, <2>4, <2>5
<1> QED
  BY <1>2, <1>3, <1>8, <1>9

\* With the arguments of the export job the pager is the iterator the job is
\* built on, for any chat and chunk size: each request is one for everything
\* newer than the last message yielded, and it knows the last one by its size.
THEOREM PagerIsChunkIter == Spec => ImplementsChunkIter
<1>1. TypeOK /\ Init /\ Exporting => Iter!IterInit /\ ExportInv
  <2> SUFFICES ASSUME TypeOK, Init, Exporting PROVE Iter!IterInit /\ ExportInv
    OBVIOUS
  <2>1. Cursor \in MsgIds \cup {0}
    BY ExportParams DEF Init, Cursor
  <2>2. (left = Cardinality(buffer)) = FALSE
    BY ExportParams, FS_EmptySet, MaxSafeIntegerAssumption, IdsAreNat
       DEF Init, MaxSafeIntegerAssumption
  <2> QED
    BY <2>1, <2>2 DEF Init, Iter!IterInit, ExportInv
<1>2. Exporting /\ TypeOK /\ TypeOK' /\ IterInv /\ ExportInv /\ [Next]_vars
        => [Iter!IterNext]_(Iter!iterSpecVars) /\ ExportInv'
  <2> SUFFICES ASSUME Exporting, TypeOK, TypeOK', IterInv, ExportInv, [Next]_vars
               PROVE  [Iter!IterNext]_(Iter!iterSpecVars) /\ ExportInv'
    OBVIOUS
  <2> USE DEF Iter!IterNext, Iter!iterSpecVars, Iter!chatVars, Iter!iterVars
  <2>1. CASE InitGivesUp \/ InitTotal
    <3>1. phase = "new" /\ left <= 0 /\ left = Limit
      BY <2>1, ExportParams DEF InitGivesUp, InitTotal, IterInv
    <3> QED
      BY <3>1, ExportParams, MaxSafeIntegerAssumption, IdsAreNat,
         FS_CardinalityType DEF MaxSafeIntegerAssumption
  <2>2. CASE InitRequest
    <3>1. /\ yielded = <<>> /\ buffer = {} /\ reverse = TRUE
          /\ offsetId' = IF reverse THEN StartOffset + 1 ELSE StartOffset
          /\ UNCHANGED <<chat, topId, params, left, buffer, yielded>>
      BY <2>2, ExportParams DEF InitRequest, IterInv
    <3>2. UNCHANGED <<Cursor, StartOffset>> /\ Taken' = {}
      BY <3>1 DEF Taken, Yielded, Cursor, StartOffset, reverse, minId
    <3> QED
      BY <3>1, <3>2 DEF ExportInv
  <2>3. CASE LoadNextChunk
    BY <2>3, ExportLoads
  <2>4. CASE Yield
    BY <2>4, ExportYields
  <2>5. CASE Finish
    <3>1. /\ UNCHANGED <<chat, topId, Cursor, left, buffer>> /\ phase' = "done"
      BY <2>5 DEF Finish, Cursor, StartOffset, reverse, minId
    <3> QED
      BY <3>1 DEF ExportInv
  <2>6. CASE NewMessage \/ DeleteMessage
    <3>1. UNCHANGED <<Cursor, left, buffer>> /\ ExportInv'
      BY <2>6 DEF NewMessage, DeleteMessage, ExportInv, Exhausted, Cursor,
         StartOffset, reverse, minId, Taken, Yielded
    <3>2. Iter!NewMessage \/ Iter!DeleteMessage
      BY <2>6 DEF NewMessage, DeleteMessage, Iter!NewMessage, Iter!DeleteMessage
    <3> QED
      BY <3>1, <3>2
  <2>7. CASE UNCHANGED vars
    BY <2>7 DEF vars, ExportInv, Exhausted, Cursor, StartOffset, reverse, minId,
       Taken, Yielded
  <2> QED
    BY <2>1, <2>2, <2>3, <2>4, <2>5, <2>6, <2>7 DEF Next
<1>3. [Next]_vars => (Exporting' <=> Exporting)
  BY DEF Next, vars, Exporting, StartOffset, reverse, minId, InitGivesUp, InitTotal,
     InitRequest, LoadNextChunk, Yield, Finish, NewMessage, DeleteMessage
<1> DEFINE Held == Exporting => ExportInv
           Steps == Exporting => [Iter!IterNext]_(Iter!iterSpecVars)
<1>4. TypeOK /\ Init => Held /\ (Exporting => Iter!IterInit)
  BY <1>1
<1>5. TypeOK /\ TypeOK' /\ IterInv /\ Held /\ [Next]_vars => Steps /\ Held'
  BY <1>2, <1>3
<1> HIDE DEF Held, Steps
<1>6. Spec => [][Steps]_vars /\ (Exporting => Iter!IterInit)
  BY <1>4, <1>5, IterInvariant, PTL DEF Spec
<1> QED
  BY <1>6 DEF ImplementsChunkIter, Steps

----------------------------------------------------------------------------
(* The sender.                                                             *)

Distinct(s) == \A i, j \in DOMAIN s : s[i] = s[j] /\ s[i] # Undef => i = j
Apart(s, t) == ToSet(s) \cap ToSet(t) \subseteq {Undef}

\* Wherever its entry is, a request has one, and none once it is settled.
OneEntry ==
  /\ Distinct(queue) /\ Distinct(batch) /\ Distinct(pending)
  /\ Apart(queue, batch) /\ Apart(queue, pending) /\ Apart(batch, pending)
  /\ (ToSet(queue) \cup ToSet(batch) \cup ToSet(pending)) \cap settled = {}

\* A sequence without some entries: at[k] is the place of the k-th that stays, and every place
\* that stays is one of them, because their ranks are as many different numbers as there are.
LEMMA WithoutEntries ==
  ASSUME NEW T, NEW s \in Seq(T), NEW S
  PROVE  /\ Without(s, S) \in Seq(T \ S)
         /\ ToSet(Without(s, S)) \subseteq ToSet(s) \ S
         /\ Distinct(s) => Distinct(Without(s, S))
<1> DEFINE kept == {i \in DOMAIN s : s[i] \notin S}
           n == Cardinality(kept)
           upTo(i) == {j \in kept : j <= i}
           rank == [i \in kept |-> Cardinality(upTo(i))]
           at == [k \in 1..n |-> CHOOSE i \in kept : Cardinality(upTo(i)) = k]
<1>1. Len(s) \in Nat /\ DOMAIN s = 1..Len(s)
  OBVIOUS
<1>2. IsFiniteSet(kept) /\ n \in Nat
  <2>1. IsFiniteSet(1..Len(s))
    BY <1>1, FS_Interval
  <2>2. kept \in SUBSET (1..Len(s))
    BY <1>1
  <2>3. IsFiniteSet(kept)
    BY <2>1, <2>2, FS_Subset
  <2> QED
    BY <2>3, FS_CardinalityType
<1>3. \A i \in kept : /\ IsFiniteSet(upTo(i)) /\ Cardinality(upTo(i)) \in 1..n
  <2> TAKE i \in kept
  <2>1. upTo(i) \in SUBSET kept
    OBVIOUS
  <2>2. IsFiniteSet(upTo(i)) /\ Cardinality(upTo(i)) <= n
    BY <1>2, <2>1, FS_Subset
  <2>3. i \in upTo(i)
    BY <1>1
  <2>4. Cardinality(upTo(i)) # 0
    BY <2>2, <2>3, FS_EmptySet
  <2>5. Cardinality(upTo(i)) \in Nat
    BY <2>2, FS_CardinalityType
  <2> QED
    BY <1>2, <2>2, <2>4, <2>5
<1>4. \A i, j \in kept : i < j => Cardinality(upTo(i)) # Cardinality(upTo(j))
  <2> SUFFICES ASSUME NEW i \in kept, NEW j \in kept, i < j
               PROVE  Cardinality(upTo(i)) # Cardinality(upTo(j))
    OBVIOUS
  <2>1. i \in Nat /\ j \in Nat
    BY <1>1
  <2>2. upTo(i) \in SUBSET upTo(j) /\ j \in upTo(j) /\ j \notin upTo(i)
    BY <1>1, <2>1
  <2>3. upTo(i) # upTo(j)
    BY <2>2
  <2>4. IsFiniteSet(upTo(j))
    BY <1>3
  <2> QED
    BY <2>2, <2>3, <2>4, FS_Subset
<1>5. rank \in Injection(kept, 1..n)
  <2>1. rank \in [kept -> 1..n]
    BY <1>3
  <2>2. \A i, j \in kept : rank[i] = rank[j] => i = j
    <3> SUFFICES ASSUME NEW i \in kept, NEW j \in kept, i # j PROVE rank[i] # rank[j]
      OBVIOUS
    <3>1. i < j \/ j < i
      BY <1>1
    <3> QED
      BY <1>4, <3>1
  <2> HIDE DEF rank, kept, n
  <2> QED
    BY <2>1, <2>2 DEF Injection, IsInjective
<1>6. \A k \in 1..n : \E i \in kept : rank[i] = k
  <2>1. IsFiniteSet(1..n) /\ Cardinality(1..n) = n
    BY <1>2, FS_Interval
  <2> HIDE DEF rank
  <2>2. rank \in Surjection(kept, 1..n)
    BY <1>2, <1>5, <2>1, FS_Injection
  <2> HIDE DEF kept, n
  <2> QED
    BY <2>2 DEF Surjection
<1>7. \A k \in 1..n : at[k] \in kept /\ Cardinality(upTo(at[k])) = k
  <2> TAKE k \in 1..n
  <2>1. \E i \in kept : Cardinality(upTo(i)) = k
    BY <1>6
  <2>2. at[k] = CHOOSE i \in kept : Cardinality(upTo(i)) = k
    OBVIOUS
  <2> HIDE DEF at, kept, upTo
  <2> QED
    BY <2>1, <2>2
<1>8. Without(s, S) = [k \in 1..n |-> s[at[k]]]
  BY DEF Without
<1>9. \A k, l \in 1..n : at[k] = at[l] => k = l
  <2> HIDE DEF at, kept, upTo
  <2> QED
    BY <1>7
<1>10. \A k \in 1..n : at[k] \in DOMAIN s /\ s[at[k]] \notin S
  <2> HIDE DEF at, n
  <2> QED
    BY <1>7
<1> HIDE DEF at, kept, n
<1>11. \A k \in 1..n : s[at[k]] \in T \ S
  BY <1>10
<1>12. Without(s, S) \in Seq(T \ S)
  BY <1>2, <1>8, <1>11
<1>13. DOMAIN Without(s, S) = 1..n /\ \A k \in 1..n : Without(s, S)[k] = s[at[k]]
  BY <1>8
<1>14. ToSet(Without(s, S)) \subseteq ToSet(s) \ S
  BY <1>10, <1>13 DEF ToSet
<1>15. Distinct(s) => Distinct(Without(s, S))
  BY <1>9, <1>10, <1>13 DEF Distinct
<1> QED
  BY <1>12, <1>14, <1>15

LEMMA ToSetIn == ASSUME NEW T, NEW s \in Seq(T) PROVE ToSet(s) \subseteq T
  BY DEF ToSet

LEMMA SeqOfMore == ASSUME NEW S, NEW T, S \subseteq T, NEW s \in Seq(S) PROVE s \in Seq(T)
<1>1. \A i \in 1..Len(s) : s[i] \in T
  OBVIOUS
<1>2. s = [i \in 1..Len(s) |-> s[i]] /\ Len(s) \in Nat
  OBVIOUS
<1> QED
  BY <1>1, <1>2

LEMMA Concatenated ==
  ASSUME NEW T, NEW s \in Seq(T), NEW t \in Seq(T)
  PROVE  /\ s \o t \in Seq(T)
         /\ ToSet(s \o t) = ToSet(s) \cup ToSet(t)
         /\ Distinct(s) /\ Distinct(t) /\ Apart(s, t) => Distinct(s \o t)
<1>1. /\ s \o t \in Seq(T) /\ Len(s) \in Nat /\ Len(t) \in Nat
      /\ DOMAIN s = 1..Len(s) /\ DOMAIN t = 1..Len(t)
      /\ DOMAIN (s \o t) = 1..(Len(s) + Len(t))
      /\ \A i \in 1..Len(s) : (s \o t)[i] = s[i]
      /\ \A i \in 1..Len(t) : (s \o t)[i + Len(s)] = t[i]
  OBVIOUS
<1>2. \A i \in DOMAIN (s \o t) :
        \/ i \in DOMAIN s /\ (s \o t)[i] = s[i]
        \/ i - Len(s) \in DOMAIN t /\ (s \o t)[i] = t[i - Len(s)]
  OBVIOUS
<1>3. ToSet(s \o t) \subseteq ToSet(s) \cup ToSet(t)
  BY <1>2 DEF ToSet
<1>4. ToSet(s) \cup ToSet(t) \subseteq ToSet(s \o t)
  <2>1. \A i \in DOMAIN s : i \in DOMAIN (s \o t)
    BY <1>1
  <2>2. \A i \in DOMAIN t : i + Len(s) \in DOMAIN (s \o t)
    BY <1>1
  <2> QED
    BY <1>1, <2>1, <2>2 DEF ToSet
<1>5. ASSUME Distinct(s), Distinct(t), Apart(s, t),
             NEW i \in DOMAIN (s \o t), NEW j \in DOMAIN (s \o t),
             (s \o t)[i] = (s \o t)[j], (s \o t)[i] # Undef
      PROVE  i = j
  <2>1. ASSUME NEW a \in DOMAIN s, NEW b \in DOMAIN t, s[a] = t[b] PROVE s[a] = Undef
    BY <1>5, <2>1 DEF Apart, ToSet
  <2>2. CASE i \in DOMAIN s /\ (s \o t)[i] = s[i]
    BY <1>2, <1>5, <2>1, <2>2 DEF Distinct
  <2>3. CASE i - Len(s) \in DOMAIN t /\ (s \o t)[i] = t[i - Len(s)]
    <3>1. i \in Int /\ j \in Int /\ Len(s) \in Int
      BY <1>1
    <3>2. j - Len(s) \in DOMAIN t /\ (s \o t)[j] = t[j - Len(s)]
      BY <1>2, <1>5, <2>1, <2>3
    <3>3. i - Len(s) = j - Len(s)
      BY <1>5, <2>3, <3>2 DEF Distinct
    <3> QED
      BY <3>1, <3>3
  <2> QED
    BY <1>2, <2>2, <2>3
<1> QED
  BY <1>1, <1>3, <1>4, <1>5 DEF Distinct

----------------------------------------------------------------------------
(* Types and entries.                                                      *)

LEMMA SenderStarts == SenderInit => SenderTypeOK /\ OneEntry
<1> SUFFICES ASSUME SenderInit PROVE SenderTypeOK /\ OneEntry
  OBVIOUS
<1>1. SenderTypeOK
  <2>1. <<>> \in Seq(0..0) /\ <<>> \in Seq(1..0)
    OBVIOUS
  <2>2. 0 \in 0..MaxRequests /\ 0 \in 0..MaxDrops /\ 0 \in 0..MaxQuits
    BY BoundsAssumption DEF BoundsAssumption
  <2>3. container \in [Requests -> 0..0]
    BY DEF SenderInit
  <2> QED
    BY <2>1, <2>2, <2>3 DEF SenderInit, SenderTypeOK
<1>2. OneEntry
  BY DEF SenderInit, OneEntry, Distinct, Apart, ToSet
<1> QED
  BY <1>1, <1>2

LEMMA Invoking == ASSUME SenderTypeOK, OneEntry, Invoke PROVE SenderTypeOK' /\ OneEntry'
<1> DEFINE r == invoked + 1
<1>1. invoked \in Nat /\ r \in 1..MaxRequests /\ r \notin 0..invoked
  BY BoundsAssumption DEF SenderTypeOK, Invoke, BoundsAssumption
<1>2. invoked' = r /\ queue' = queue \o <<r>>
      /\ UNCHANGED <<settled, sendLoop, batch, pending, packs, net, flags, wire, fates, bounds>>
  BY SMTT(30) DEF Invoke, SenderTypeOK
<1>3. /\ ToSet(queue) \subseteq 0..invoked /\ ToSet(batch) \subseteq 0..invoked
      /\ ToSet(pending) \subseteq 0..invoked /\ settled \subseteq 0..invoked
  BY SMTT(30), <1>1 DEF SenderTypeOK, ToSet
<1>4. queue \in Seq(0..r) /\ batch \in Seq(1..r) /\ pending \in Seq(1..r)
  BY <1>1 DEF SenderTypeOK
<1>5. <<r>> \in Seq(0..r) /\ Distinct(<<r>>) /\ ToSet(<<r>>) = {r}
  BY <1>1 DEF Distinct, ToSet
<1>6. Apart(queue, <<r>>)
  BY <1>1, <1>3, <1>5 DEF Apart
<1>7. queue' \in Seq(0..r) /\ ToSet(queue') = ToSet(queue) \cup {r} /\ Distinct(queue')
  <2> DEFINE last == <<r>>
  <2>1. Distinct(queue) /\ Distinct(last) /\ Apart(queue, last)
    BY <1>5, <1>6 DEF OneEntry
  <2>2. last \in Seq(0..r) /\ ToSet(last) = {r} /\ queue' = queue \o last
    BY <1>2, <1>5
  <2> HIDE DEF last
  <2> QED
    BY <1>4, <2>1, <2>2, Concatenated
<1>8. SenderTypeOK'
  BY <1>1, <1>2, <1>4, <1>7 DEF SenderTypeOK, packs, net, flags, fates, bounds
<1>9. OneEntry'
  BY <1>1, <1>2, <1>3, <1>7 DEF OneEntry, Apart
<1> QED
  BY <1>8, <1>9

LEMMA Packing ==
  ASSUME SenderTypeOK, OneEntry, SkipUndefined \/ Pack PROVE SenderTypeOK' /\ OneEntry'
<1> DEFINE taken == Without(queue, {Undef})
<1>1. queue \in Seq(0..invoked) /\ invoked \in Nat
  BY DEF SenderTypeOK
<1>2. /\ taken \in Seq((0..invoked) \ {Undef})
      /\ ToSet(taken) \subseteq ToSet(queue) \ {Undef} /\ Distinct(taken)
  BY <1>1, WithoutEntries DEF OneEntry
<1>3. (0..invoked) \ {Undef} = 1..invoked
  BY <1>1 DEF Undef
<1>4. taken \in Seq(0..invoked) /\ taken \in Seq(1..invoked)
  BY <1>1, <1>2, <1>3
<1>5. CASE SkipUndefined
  <2>1. SenderTypeOK'
    BY <1>4, <1>5 DEF SkipUndefined, SenderTypeOK, packs, net, flags, fates, bounds,
       LoopGoesOn
  <2>2. OneEntry'
    BY <1>2, <1>5 DEF SkipUndefined, OneEntry, Apart
  <2> QED
    BY <2>1, <2>2
<1>6. CASE Pack /\ isReconnecting
  <2>1. queue' = <<>> /\ ToSet(<<>>) = {} /\ Distinct(<<>>) /\ <<>> \in Seq(0..invoked)
    BY <1>6 DEF Pack, ToSet, Distinct
  <2>2. /\ sendLoop = "waiting" /\ sendLoop' = "none"
        /\ UNCHANGED <<invoked, settled, batch, pending, packs, net, flags, wire, keyBroken,
                       stranded, bounds>>
        /\ forgotten' = forgotten \cup ToSet(taken)
    BY <1>6 DEF Pack
  <2>5. ToSet(taken) \subseteq 1..invoked
    BY <1>4, ToSetIn
  <2>3. SenderTypeOK'
    BY <2>1, <2>2, <2>5 DEF SenderTypeOK, packs, net, flags, bounds
  <2>4. OneEntry'
    BY <2>1, <2>2 DEF OneEntry, Apart
  <2> QED
    BY <2>3, <2>4
<1>7. CASE Pack /\ ~isReconnecting
  <2>1. queue' = <<>> /\ ToSet(<<>>) = {} /\ Distinct(<<>>) /\ <<>> \in Seq(0..invoked)
    BY <1>7 DEF Pack, ToSet, Distinct
  <2>2. /\ sendLoop' = "packed" /\ batch' = taken
        /\ UNCHANGED <<invoked, settled, pending, net, flags, wire, fates, bounds>>
    BY <1>7 DEF Pack, fates
  <2>3. lastContainer' \in Nat /\ container' \in [Requests -> 0..lastContainer']
    <3> DEFINE many == Len(taken) > 1
    <3>1. /\ lastContainer' = IF many THEN lastContainer + 1 ELSE lastContainer
          /\ container' = [r \in Requests |-> IF many /\ Contains(taken, r)
                                             THEN lastContainer + 1 ELSE container[r]]
      BY <1>7 DEF Pack
    <3>2. lastContainer \in Nat /\ \A r \in Requests : container[r] \in 0..lastContainer
      BY DEF SenderTypeOK
    <3> HIDE DEF many, taken
    <3> QED
      BY <3>1, <3>2
  <2>4. SenderTypeOK'
    BY <1>4, <2>1, <2>2, <2>3 DEF SenderTypeOK, net, flags, fates, bounds
  <2>5. OneEntry'
    BY <1>2, <2>1, <2>2 DEF OneEntry, Apart
  <2> QED
    BY <2>4, <2>5
<1> QED
  BY <1>5, <1>6, <1>7

LEMMA Sending ==
  ASSUME SenderTypeOK, OneEntry, Send \/ SendFails PROVE SenderTypeOK' /\ OneEntry'
<1>1. /\ batch \in Seq(1..invoked) /\ pending \in Seq(1..invoked)
      /\ batch' = <<>> /\ ToSet(<<>>) = {} /\ Distinct(<<>>) /\ <<>> \in Seq(1..invoked)
  BY DEF SenderTypeOK, Send, SendFails, ToSet, Distinct
<1>2. CASE Send
  <2>1. Apart(pending, batch)
    BY DEF OneEntry, Apart
  <2>2. /\ pending' \in Seq(1..invoked) /\ ToSet(pending') = ToSet(pending) \cup ToSet(batch)
        /\ Distinct(pending')
    BY <1>1, <1>2, <2>1, Concatenated DEF Send, OneEntry
  <2>3. ToSet(batch) \subseteq 1..invoked
    BY <1>1, ToSetIn
  <2>4. SenderTypeOK'
    BY <1>1, <1>2, <2>2, <2>3 DEF Send, SenderTypeOK, packs, net, flags, fates, bounds,
       LoopGoesOn
  <2>5. OneEntry'
    BY <1>1, <1>2, <2>2 DEF Send, OneEntry, Apart
  <2> QED
    BY <2>4, <2>5
<1>3. CASE SendFails
  <2>1. SenderTypeOK'
    <3>1. ToSet(batch) \subseteq 1..invoked
      BY <1>1, ToSetIn
    <3> QED
      BY <1>1, <1>3, <3>1 DEF SendFails, SenderTypeOK, packs, net, flags, bounds
  <2>2. OneEntry'
    BY <1>1, <1>3 DEF SendFails, OneEntry, Apart
  <2> QED
    BY <2>1, <2>2
<1> QED
  BY <1>2, <1>3

LEMMA Answering ==
  ASSUME SenderTypeOK, OneEntry, NEW r \in Requests, Answer(r) PROVE SenderTypeOK' /\ OneEntry'
<1>1. pending \in Seq(1..invoked) /\ ToSet(pending) \subseteq 1..invoked
  BY SMTT(30) DEF SenderTypeOK, ToSet
<1>2. /\ pending' \in Seq((1..invoked) \ {r})
      /\ ToSet(pending') \subseteq ToSet(pending) \ {r} /\ Distinct(pending')
  BY <1>1, WithoutEntries DEF Answer, OneEntry
<1>3. pending' \in Seq(1..invoked)
  BY <1>2, SeqOfMore
<1>4. SenderTypeOK'
  <2>1. recvLoop' \in BOOLEAN
    BY DEF Answer, Heard, LoopGoesOn, SenderTypeOK
  <2> QED
    BY <1>1, <1>3, <2>1 DEF Answer, SenderTypeOK, packs, flags, fates, bounds
<1>5. Undef \notin 1..invoked
  BY DEF Undef
<1>6. OneEntry'
  BY <1>1, <1>2, <1>5 DEF Answer, OneEntry, Apart
<1> QED
  BY <1>4, <1>6

\* A fault counts, and there are not more of them than the bound.
LEMMA Dropping == ASSUME SenderTypeOK, drops < MaxDrops, drops' = drops + 1 PROVE drops' \in 0..MaxDrops
  BY BoundsAssumption DEF SenderTypeOK, BoundsAssumption

LEMMA Rejecting ==
  ASSUME SenderTypeOK, OneEntry, NEW r \in Requests, Reject(r) PROVE SenderTypeOK' /\ OneEntry'
<1>1. PICK popped :
        /\ wire' = wire \ (popped \cup {r}) /\ pending' = Without(pending, popped)
        /\ queue' = queue \o Without(pending, ToSet(pending) \ popped)
  BY DEF Reject
<1> DEFINE back == Without(pending, ToSet(pending) \ popped)
<1>2. /\ pending \in Seq(1..invoked) /\ ToSet(pending) \subseteq 1..invoked
      /\ queue \in Seq(0..invoked) /\ Undef \notin 1..invoked
  BY SMTT(30) DEF SenderTypeOK, ToSet, Undef
<1>3. /\ pending' \in Seq((1..invoked) \ popped)
      /\ ToSet(pending') \subseteq ToSet(pending) \ popped /\ Distinct(pending')
  BY <1>1, <1>2, WithoutEntries DEF OneEntry
<1>4. /\ back \in Seq((1..invoked) \ (ToSet(pending) \ popped))
      /\ ToSet(back) \subseteq ToSet(pending) \ (ToSet(pending) \ popped) /\ Distinct(back)
  BY <1>2, WithoutEntries DEF OneEntry
<1> HIDE DEF back
<1>5. ToSet(back) \subseteq ToSet(pending) \cap popped
  BY <1>4
<1>6. back \in Seq(0..invoked) /\ pending' \in Seq(1..invoked)
  <2>1. (1..invoked) \ (ToSet(pending) \ popped) \subseteq 0..invoked
    BY DEF SenderTypeOK
  <2>2. back \in Seq(0..invoked)
    BY <1>4, <2>1, SeqOfMore
  <2> QED
    BY <1>3, <2>2, SeqOfMore
<1>7. Apart(queue, back)
  BY <1>5 DEF OneEntry, Apart
<1>8. /\ queue' \in Seq(0..invoked) /\ ToSet(queue') = ToSet(queue) \cup ToSet(back)
      /\ Distinct(queue')
  <2>1. queue' = queue \o back
    BY <1>1 DEF back
  <2> QED
    BY <1>2, <1>4, <1>6, <1>7, <2>1, Concatenated DEF OneEntry
<1>9. SenderTypeOK'
  <2>1. drops' \in 0..MaxDrops /\ UNCHANGED quits
    BY Dropping DEF Reject
  <2>2. wire' \subseteq wire
    BY <1>1
  <2>3. UNCHANGED <<invoked, settled, sendLoop, batch, packs, connected, connecting, flags,
                    fates>>
    BY DEF Reject
  <2>4. recvLoop' \in BOOLEAN
    BY DEF Reject, Heard, LoopGoesOn, SenderTypeOK
  <2> QED
    BY <1>6, <1>8, <2>1, <2>2, <2>3, <2>4 DEF SenderTypeOK, packs, flags, fates
<1>10. OneEntry'
  BY <1>3, <1>5, <1>8 DEF Reject, OneEntry, Apart
<1> QED
  BY <1>9, <1>10

LEMMA Reconnecting ==
  ASSUME SenderTypeOK, OneEntry, StartReconnect \/ Connected PROVE SenderTypeOK' /\ OneEntry'
<1>1. CASE StartReconnect
  <2>1. queue' = <<Undef>> /\ <<Undef>> \in Seq(0..invoked) /\ ToSet(<<Undef>>) = {Undef}
        /\ Distinct(<<Undef>>)
    BY <1>1 DEF StartReconnect, SenderTypeOK, Undef, ToSet, Distinct
  <2>2. Undef \notin settled
    BY DEF SenderTypeOK, Undef
  <2>3. SenderTypeOK'
    <3>1. ToSet(queue) \ {Undef} \subseteq 1..invoked
      <4>1. ToSet(queue) \subseteq 0..invoked
        BY ToSetIn DEF SenderTypeOK
      <4> QED
        BY <4>1 DEF SenderTypeOK, Undef
    <3> QED
      BY <1>1, <2>1, <3>1 DEF StartReconnect, SenderTypeOK, packs, bounds
  <2>4. OneEntry'
    BY <1>1, <2>1, <2>2 DEF StartReconnect, OneEntry, Apart
  <2> QED
    BY <2>3, <2>4
<1>2. CASE Connected
  <2>1. /\ pending \in Seq(0..invoked) /\ queue \in Seq(0..invoked)
        /\ <<>> \in Seq(1..invoked) /\ ToSet(<<>>) = {} /\ Distinct(<<>>)
    BY DEF SenderTypeOK, ToSet, Distinct
  <2>2. Apart(pending, queue)
    BY DEF OneEntry, Apart
  <2>3. /\ pending \o queue \in Seq(0..invoked) /\ Distinct(pending \o queue)
        /\ ToSet(pending \o queue) = ToSet(pending) \cup ToSet(queue)
    BY <2>1, <2>2, Concatenated DEF OneEntry
  <2>4. /\ UNCHANGED <<invoked, settled, batch, packs, userDisconnected, wire, forgotten,
                       bounds>>
        /\ keyBroken' = FALSE /\ stranded' \in {{}, ToSet(pending)}
        /\ sendLoop # "packed" /\ sendLoop' \in {"waiting", sendLoop}
        /\ connected' = TRUE /\ recvLoop' = TRUE /\ userConnected' = TRUE
        /\ isReconnecting' = FALSE /\ connecting' = "no"
        /\ \/ UNCHANGED <<queue, pending>>
           \/ queue' = pending \o queue /\ pending' = <<>>
    BY <1>2 DEF Connected, Requeue
  <2>5. SenderTypeOK'
    <3>1. ToSet(pending) \subseteq 1..invoked
      BY ToSetIn DEF SenderTypeOK
    <3> QED
      BY <2>1, <2>3, <2>4, <3>1 DEF SenderTypeOK, packs, bounds
  <2>6. OneEntry'
    BY <2>1, <2>3, <2>4 DEF OneEntry, Apart
  <2> QED
    BY <2>5, <2>6
<1> QED
  BY <1>1, <1>2

LEMMA Breaking ==
  ASSUME SenderTypeOK, OneEntry,
         \/ Drop \/ Garbled \/ KeyForgotten \/ PingsTimeOut \/ Disconnect \/ Connect
         \/ UNCHANGED senderVars
  PROVE  SenderTypeOK' /\ OneEntry'
<1>1. UNCHANGED <<invoked, settled, store, packs, sendLoop, forgotten, stranded>>
  BY DEF Drop, Garbled, KeyForgotten, PingsTimeOut, Disconnect, Connect, senderVars, fates
<1>2. SenderTypeOK'
  <2>1. CASE Drop \/ Garbled
    <3>1. drops' \in 0..MaxDrops /\ UNCHANGED quits
      BY <2>1, Dropping DEF Drop, Garbled
    <3>2. /\ connected' \in BOOLEAN /\ wire' \in {{}, wire} /\ (wire' # {} => connected')
          /\ recvLoop' = FALSE
          /\ isReconnecting' \in BOOLEAN /\ connecting' \in {"sleep", connecting}
          /\ UNCHANGED <<userConnected, userDisconnected, keyBroken>>
      BY <2>1 DEF Drop, Garbled, RecvFails, SenderTypeOK, fates
    <3> QED
      BY <1>1, <3>1, <3>2 DEF SenderTypeOK, store, packs
  <2>2. CASE KeyForgotten \/ PingsTimeOut
    <3>1. drops' \in 0..MaxDrops /\ UNCHANGED quits
      BY <2>2, Dropping DEF KeyForgotten, PingsTimeOut, SenderTypeOK
    <3>2. /\ recvLoop' \in BOOLEAN /\ isReconnecting' \in BOOLEAN
          /\ connecting' \in {"sleep", connecting} /\ keyBroken' \in BOOLEAN
          /\ UNCHANGED <<connected, userConnected, userDisconnected, wire>>
      BY <2>2 DEF KeyForgotten, PingsTimeOut, SenderTypeOK, flags, fates
    <3> QED
      BY <1>1, <3>1, <3>2 DEF SenderTypeOK, store, packs
  <2>3. CASE Disconnect
    <3>1. quits' \in 0..MaxQuits /\ UNCHANGED drops
      BY <2>3, BoundsAssumption DEF Disconnect, SenderTypeOK, BoundsAssumption
    <3>2. /\ recvLoop' \in BOOLEAN /\ connected' = FALSE /\ wire' = {}
          /\ userConnected' \in BOOLEAN /\ userDisconnected' \in BOOLEAN
          /\ UNCHANGED <<isReconnecting, connecting, keyBroken>>
      BY <2>3 DEF Disconnect, SenderTypeOK, fates
    <3> QED
      BY <1>1, <3>1, <3>2 DEF SenderTypeOK, store, packs
  <2>4. CASE Connect
    BY <1>1, <2>4 DEF SenderTypeOK, Connect, store, packs, fates, bounds
  <2>5. CASE UNCHANGED senderVars
    BY <1>1, <2>5 DEF SenderTypeOK, senderVars, store, packs, net, flags, fates, bounds
  <2> QED
    BY <2>1, <2>2, <2>3, <2>4, <2>5
<1>3. OneEntry'
  BY <1>1 DEF OneEntry, Apart, store
<1> QED
  BY <1>2, <1>3

\* Whatever breaks, the sender's entries are numbers of requests, and a request has one.
THEOREM SenderEntries == SenderSpec => [](SenderTypeOK /\ OneEntry)
<1>1. SenderTypeOK /\ OneEntry /\ [SenderNext]_senderVars => SenderTypeOK' /\ OneEntry'
  BY Invoking, Packing, Sending, Answering, Rejecting, Reconnecting, Breaking
     DEF SenderNext, SendLoop
<1> QED
  BY <1>1, SenderStarts, PTL DEF SenderSpec

\* A request is never in two places at once, nor still in one when it is settled, so it is not
\* sent twice over one connection, nor after its answer.
THEOREM SenderSendsOnce == SenderSpec => []NoDuplicates
<1>1. SenderTypeOK /\ OneEntry => NoDuplicates
  <2> SUFFICES ASSUME SenderTypeOK, OneEntry PROVE NoDuplicates
    OBVIOUS
  <2> DEFINE taken == Without(queue, {Undef})
  <2>1. /\ queue \in Seq(0..invoked) /\ (0..invoked) \ {Undef} = 1..invoked
        /\ pending \in Seq(1..invoked) /\ batch \in Seq(1..invoked)
    BY DEF SenderTypeOK, Undef
  <2>2. /\ taken \in Seq((0..invoked) \ {Undef})
        /\ ToSet(taken) \subseteq ToSet(queue) \ {Undef} /\ Distinct(taken)
    BY <2>1, WithoutEntries DEF OneEntry
  <2> HIDE DEF taken
  <2>3. Apart(pending, batch)
    BY DEF OneEntry, Apart
  <2>4. /\ pending \o batch \in Seq(1..invoked) /\ Distinct(pending \o batch)
        /\ ToSet(pending \o batch) = ToSet(pending) \cup ToSet(batch)
    BY <2>1, <2>3, Concatenated DEF OneEntry
  <2>5. Apart(pending \o batch, taken) /\ taken \in Seq(1..invoked)
    BY <2>1, <2>2, <2>4 DEF OneEntry, Apart
  <2>6. /\ (pending \o batch) \o taken \in Seq(1..invoked)
        /\ Distinct((pending \o batch) \o taken)
        /\ ToSet((pending \o batch) \o taken) = ToSet(pending) \cup ToSet(batch) \cup ToSet(taken)
    <3> DEFINE s == pending \o batch
    <3> HIDE DEF s
    <3>1. s \in Seq(1..invoked) /\ Distinct(s) /\ Apart(s, taken)
      BY <2>4, <2>5 DEF s
    <3>2. /\ s \o taken \in Seq(1..invoked) /\ Distinct(s \o taken)
          /\ ToSet(s \o taken) = ToSet(s) \cup ToSet(taken)
      BY <2>2, <2>5, <3>1, Concatenated
    <3> QED
      BY <2>4, <3>2 DEF s
  <2>7. Kept = (pending \o batch) \o taken
    BY DEF Kept, taken
  <2>8. \A i \in DOMAIN Kept : Kept[i] # Undef
    <3>1. Kept \in Seq(1..invoked) /\ invoked \in Nat
      BY <2>6, <2>7 DEF SenderTypeOK
    <3> QED
      BY <3>1 DEF Undef
  <2>9. IsInjective(Kept)
    BY <2>6, <2>7, <2>8 DEF Distinct, IsInjective
  <2>10. ToSet(Kept) \cap settled = {}
    BY <2>2, <2>6, <2>7 DEF OneEntry
  <2> QED
    BY <2>9, <2>10 DEF NoDuplicates
<1> QED
  BY <1>1, SenderEntries, PTL

\* However the connection broke and whoever brought it up again, a connected sender has a
\* send loop, and a receive loop unless it was told that the server forgot its key.
THEOREM SenderLoopsRun == SenderSpec => []LoopsRun
<1>1. SenderInit => LoopsRun
  BY DEF SenderInit, LoopsRun
<1>2. SenderTypeOK /\ LoopsRun /\ [SenderNext]_senderVars => LoopsRun'
  <2> SUFFICES ASSUME SenderTypeOK, LoopsRun, [SenderNext]_senderVars PROVE LoopsRun'
    OBVIOUS
  <2>1. CASE Invoke \/ UNCHANGED senderVars
    BY <2>1 DEF LoopsRun, Invoke, senderVars, net, flags, fates
  <2>6. CASE \E r \in Requests : Answer(r) \/ Reject(r)
    <3>1. recvLoop' = LoopGoesOn /\ UNCHANGED <<connected, sendLoop, flags, keyBroken>>
      BY <2>6 DEF Answer, Reject, Heard, fates
    <3> QED
      BY <3>1 DEF LoopsRun, LoopGoesOn, flags
  <2>2. CASE SendLoop
    <3>1. UNCHANGED <<net, flags, keyBroken>>
      BY <2>2 DEF SendLoop, SkipUndefined, Pack, Send, SendFails, fates
    <3>2. connected /\ LoopGoesOn => sendLoop' # "none"
      <4>1. CASE SkipUndefined
        BY <4>1 DEF SkipUndefined
      <4>2. CASE Pack
        BY <4>2 DEF Pack, LoopGoesOn
      <4>3. CASE Send
        BY <4>3 DEF Send
      <4>4. CASE SendFails
        BY <4>4 DEF SendFails
      <4> QED
        BY <2>2, <4>1, <4>2, <4>3, <4>4 DEF SendLoop
    <3> QED
      BY <3>1, <3>2 DEF LoopsRun, LoopGoesOn, net, flags
  <2>3. CASE Drop \/ Garbled \/ KeyForgotten \/ PingsTimeOut \/ StartReconnect
    <3>1. CASE Drop
      BY <3>1 DEF LoopsRun, Drop, RecvFails
    <3>2. CASE Garbled
      BY <3>2 DEF LoopsRun, Garbled, RecvFails, fates
    <3>3. CASE KeyForgotten
      BY <3>3 DEF LoopsRun, KeyForgotten, flags
    <3>4. CASE PingsTimeOut
      BY <3>4 DEF LoopsRun, PingsTimeOut
    <3>5. CASE StartReconnect
      BY <3>5 DEF LoopsRun, StartReconnect
    <3> QED
      BY <2>3, <3>1, <3>2, <3>3, <3>4, <3>5
  <2>4. CASE Connected
    BY <2>4 DEF LoopsRun, Connected
  <2>5. CASE Disconnect \/ Connect
    BY <2>5 DEF LoopsRun, Disconnect, Connect
  <2> QED
    BY <2>1, <2>2, <2>3, <2>4, <2>5, <2>6 DEF SenderNext
<1> QED
  BY <1>1, <1>2, SenderEntries, PTL DEF SenderSpec

----------------------------------------------------------------------------
(* The numbers of the messages the sender sends, for every clock and any   *)
(* number of messages and notifications.                                   *)

CONSTANTS Second, Fine, Pump, Lower, MaxTime, MaxSent, MaxJumps, MaxNotices
VARIABLES
  clock, serverTime, timeOffset, lastMsgId, sequence, sent, corrected, lowered,
  jumps, notices

State == INSTANCE MTProtoState

\* What is remembered covers every message it has to: the last id those since the last
\* correction, the sequence all of this session.
LastCovers == \A i \in (corrected + 1)..Len(sent) : sent[i].id <= lastMsgId

SequenceCovers ==
  lowered \/ \A i \in DOMAIN sent :
    IF sent[i].content THEN sent[i].seqNo < 2 * sequence ELSE sent[i].seqNo <= 2 * sequence

StateInv == State!TypeOK /\ LastCovers /\ State!IdsGrow /\ SequenceCovers /\ State!SequenceFollows

\* A new id is a number above the last one.
LEMMA NewMsgIdAbove ==
  ASSUME State!StateAssumption, State!TypeOK
  PROVE  State!NewMsgId \in Int /\ State!NewMsgId > lastMsgId
<1> DEFINE offset == timeOffset * Second
           new == (clock + offset) * Fine
<1>1. offset \in Int BY DEF State!StateAssumption, State!TypeOK
<1>2. clock + offset \in Int BY <1>1 DEF State!StateAssumption, State!TypeOK, State!Times
<1>3. new \in Int BY <1>2 DEF State!StateAssumption
<1>4. State!NewMsgId = IF lastMsgId >= new THEN lastMsgId + 1 ELSE new BY DEF State!NewMsgId
<1> HIDE DEF new
<1> QED BY <1>3, <1>4 DEF State!TypeOK

\* What a message of the session is made of.
LEMMA SentTypes ==
  ASSUME State!TypeOK
  PROVE  /\ Len(sent) \in Nat /\ DOMAIN sent = 1..Len(sent)
         /\ \A i \in DOMAIN sent :
              sent[i].id \in Int /\ sent[i].seqNo \in Int /\ sent[i].content \in BOOLEAN
<1>1. sent \in Seq(State!Messages) BY DEF State!TypeOK
<1>2. Len(sent) \in Nat /\ DOMAIN sent = 1..Len(sent) BY <1>1
<1>3. \A i \in DOMAIN sent : sent[i] \in State!Messages BY <1>1, <1>2
<1> QED BY <1>2, <1>3 DEF State!Messages

LEMMA StateInit == ASSUME State!StateAssumption PROVE State!Init => StateInv
<1> SUFFICES ASSUME State!Init PROVE StateInv OBVIOUS
<1>1. sent = <<>> /\ sent \in Seq(State!Messages) /\ Len(sent) = 0 /\ DOMAIN sent = {}
  BY DEF State!Init
<1>2. State!TypeOK
  <2>1. corrected \in 0..Len(sent) BY <1>1 DEF State!Init
  <2>2. jumps \in 0..MaxJumps /\ notices \in 0..MaxNotices BY DEF State!StateAssumption, State!Init
  <2>3. clock \in State!Times /\ serverTime \in State!Times /\ lowered \in BOOLEAN BY DEF State!Init
  <2>4. timeOffset \in Int /\ lastMsgId \in Int /\ sequence \in Int BY DEF State!Init
  <2> QED BY <1>1, <2>1, <2>2, <2>3, <2>4, Zenon DEF State!TypeOK
<1>3. LastCovers /\ State!IdsGrow
  <2>1. (corrected + 1)..Len(sent) = {} BY <1>1 DEF State!Init
  <2> QED BY <2>1 DEF LastCovers, State!IdsGrow
<1>4. SequenceCovers /\ State!SequenceFollows BY <1>1 DEF SequenceCovers, State!SequenceFollows
<1> QED BY <1>2, <1>3, <1>4 DEF StateInv

\* Writing a message: it comes last, above what is remembered.
LEMMA WriteKeeps ==
  ASSUME State!StateAssumption, StateInv, NEW content \in BOOLEAN, State!WriteDataAsMessage(content)
  PROVE  StateInv'
<1> DEFINE seqNo == IF content THEN sequence * 2 + 1 ELSE sequence * 2
           entry == [id |-> State!NewMsgId, content |-> content, seqNo |-> seqNo]
<1>1. State!NewMsgId \in Int /\ State!NewMsgId > lastMsgId BY NewMsgIdAbove DEF StateInv
<1>2. sequence \in Int /\ seqNo \in Int /\ sent \in Seq(State!Messages) /\ corrected \in 0..Len(sent)
  BY DEF StateInv, State!TypeOK
<1>3. entry \in State!Messages BY <1>1, <1>2 DEF State!Messages
<1>4. /\ sent' = Append(sent, entry) /\ lastMsgId' = State!NewMsgId
      /\ sequence' = IF content THEN sequence + 1 ELSE sequence
      /\ UNCHANGED <<clock, serverTime, timeOffset, corrected, lowered, jumps, notices>>
  BY DEF State!WriteDataAsMessage
<1>5. /\ entry.id = State!NewMsgId /\ entry.content = content /\ entry.seqNo = seqNo
      /\ \A i \in DOMAIN sent : sent[i] \in State!Messages
  BY <1>2
<1> HIDE DEF entry
<1>6. /\ Len(sent) \in Nat /\ DOMAIN sent = 1..Len(sent)
      /\ Len(sent') = Len(sent) + 1 /\ DOMAIN sent' = 1..(Len(sent) + 1)
      /\ sent'[Len(sent) + 1] = entry /\ \A i \in 1..Len(sent) : sent'[i] = sent[i]
      /\ sent' \in Seq(State!Messages)
  BY <1>2, <1>3, <1>4
<1>7. State!TypeOK' BY <1>1, <1>2, <1>4, <1>6 DEF StateInv, State!TypeOK, State!Times
<1>8. lastMsgId \in Int /\ \A i \in DOMAIN sent :
        sent[i].id \in Int /\ sent[i].seqNo \in Int /\ sent[i].content \in BOOLEAN
  BY SentTypes DEF StateInv, State!TypeOK
<1>9. \A i \in (corrected + 1)..Len(sent) : sent'[i].id = sent[i].id /\ sent'[i].id < State!NewMsgId
  BY SMTT(30), <1>1, <1>2, <1>6, <1>8 DEF StateInv, LastCovers
<1>10. LastCovers' /\ State!IdsGrow'
  <2>1. /\ corrected' = corrected /\ corrected \in 0..Len(sent) /\ lastMsgId' = State!NewMsgId
        /\ sent'[Len(sent) + 1].id = State!NewMsgId
    BY <1>2, <1>4, <1>5, <1>6
  <2>2. LastCovers'
    <3> SUFFICES ASSUME NEW i \in (corrected + 1)..(Len(sent) + 1)
                 PROVE sent'[i].id <= State!NewMsgId
      BY <2>1, <1>6 DEF LastCovers
    <3>1. CASE i = Len(sent) + 1 BY <3>1, <2>1, <1>1
    <3>2. CASE i # Len(sent) + 1
      <4>1. i \in (corrected + 1)..Len(sent) /\ i \in DOMAIN sent BY <3>2, <2>1, <1>6
      <4> QED BY <4>1, <1>1, <1>8, <1>9
    <3> QED BY <3>1, <3>2
  <2>3. State!IdsGrow'
    <3> SUFFICES ASSUME NEW i \in (corrected + 1)..(Len(sent) + 1),
                        NEW j \in (corrected + 1)..(Len(sent) + 1), i < j
                 PROVE sent'[i].id < sent'[j].id
      BY <2>1, <1>6 DEF State!IdsGrow
    <3>1. i \in (corrected + 1)..Len(sent) BY <2>1, <1>6
    <3>2. CASE j = Len(sent) + 1 BY <3>1, <3>2, <2>1, <1>9
    <3>3. CASE j # Len(sent) + 1
      <4>1. j \in (corrected + 1)..Len(sent) BY <3>3, <2>1, <1>6
      <4> QED BY <4>1, <3>1, <1>9 DEF StateInv, State!IdsGrow
    <3> QED BY <3>2, <3>3
  <2> QED BY <2>2, <2>3
<1>11. SequenceCovers' /\ State!SequenceFollows'
  <2>1. CASE lowered BY <2>1, <1>4 DEF SequenceCovers, State!SequenceFollows
  <2>2. CASE ~lowered
    <3>1. \A i \in 1..Len(sent) :
            IF sent[i].content THEN sent[i].seqNo < 2 * sequence
                               ELSE sent[i].seqNo <= 2 * sequence
      BY <2>2, <1>6 DEF StateInv, SequenceCovers
    <3>2. \A i, j \in 1..Len(sent) :
            i < j => IF sent[i].content /\ sent[j].content
                     THEN sent[i].seqNo < sent[j].seqNo
                     ELSE sent[i].seqNo <= sent[j].seqNo + 1
      BY <2>2, <1>6 DEF StateInv, State!SequenceFollows
    <3>3. CASE content
      <4>1. sequence' = sequence + 1 /\ seqNo = 2 * sequence + 1 BY <3>3, <1>2, <1>4
      <4>2. SequenceCovers' BY <3>1, <3>3, <4>1, <1>2, <1>5, <1>6, <1>8 DEF SequenceCovers
      <4>3. State!SequenceFollows'
        BY SMTT(30), <3>1, <3>2, <3>3, <4>1, <1>2, <1>5, <1>6, <1>8 DEF State!SequenceFollows
      <4> QED BY <4>2, <4>3
    <3>4. CASE ~content
      <4>1. sequence' = sequence /\ seqNo = 2 * sequence BY <3>4, <1>2, <1>4
      <4>2. SequenceCovers' BY <3>1, <3>4, <4>1, <1>2, <1>5, <1>6, <1>8 DEF SequenceCovers
      <4>3. State!SequenceFollows'
        BY <3>1, <3>2, <3>4, <4>1, <1>2, <1>5, <1>6, <1>8 DEF State!SequenceFollows
      <4> QED BY <4>2, <4>3
    <3> QED BY <3>3, <3>4
  <2> QED BY <2>1, <2>2
<1> QED BY <1>7, <1>10, <1>11 DEF StateInv

\* A correction either leaves the offset and raises the last id, or nothing sent so far
\* counts for the order any more.
LEMMA OffsetKeeps ==
  ASSUME State!StateAssumption, StateInv, State!UpdateTimeOffset
  PROVE  StateInv'
<1> DEFINE offset == serverTime \div Second - clock \div Second
<1>1. State!NewMsgId \in Int /\ State!NewMsgId > lastMsgId BY NewMsgIdAbove DEF StateInv
<1>2. offset \in Int BY DEF State!StateAssumption, StateInv, State!TypeOK, State!Times
<1> HIDE DEF offset
<1>3. /\ timeOffset' = offset
      /\ lastMsgId' = IF offset # timeOffset THEN 0 ELSE State!NewMsgId
      /\ corrected' = IF offset # timeOffset THEN Len(sent) ELSE corrected
      /\ notices < MaxNotices /\ notices' = notices + 1
      /\ UNCHANGED <<clock, serverTime, sequence, sent, lowered, jumps>>
  BY DEF State!UpdateTimeOffset, offset
<1>4. sent \in Seq(State!Messages) /\ Len(sent) \in Nat /\ DOMAIN sent = 1..Len(sent)
  BY SentTypes DEF StateInv, State!TypeOK
<1>5. State!TypeOK' BY <1>1, <1>2, <1>3, <1>4 DEF State!StateAssumption, StateInv, State!TypeOK, State!Times
<1>6. lastMsgId \in Int /\ corrected \in 0..Len(sent)
      /\ \A i \in DOMAIN sent : sent[i].id \in Int
  BY SentTypes DEF StateInv, State!TypeOK
<1>7. LastCovers' /\ State!IdsGrow'
  <2>1. CASE offset # timeOffset
    <3>1. corrected' = Len(sent') /\ Len(sent') \in Nat BY <2>1, <1>3, <1>4
    <3>2. (corrected' + 1)..Len(sent') = {} BY <3>1
    <3> QED BY <3>2 DEF LastCovers, State!IdsGrow
  <2>2. CASE offset = timeOffset
    <3>1. corrected' = corrected /\ sent' = sent /\ lastMsgId' > lastMsgId /\ lastMsgId' \in Int
      BY <2>2, <1>1, <1>3
    <3>2. \A i \in (corrected + 1)..Len(sent) : sent[i].id <= lastMsgId'
      BY <3>1, <1>4, <1>6 DEF StateInv, LastCovers
    <3> QED BY <3>1, <3>2 DEF StateInv, LastCovers, State!IdsGrow
  <2> QED BY <2>1, <2>2
<1>8. SequenceCovers' /\ State!SequenceFollows'
  BY <1>3 DEF StateInv, SequenceCovers, State!SequenceFollows
<1> QED BY <1>5, <1>7, <1>8 DEF StateInv

LEMMA PumpKeeps ==
  ASSUME State!StateAssumption, StateInv, State!PumpSequence
  PROVE  StateInv'
<1>1. State!TypeOK' BY DEF State!StateAssumption, StateInv, State!TypeOK, State!PumpSequence, State!Times
<1>2. LastCovers' /\ State!IdsGrow' /\ State!SequenceFollows'
  BY DEF StateInv, State!PumpSequence, LastCovers, State!IdsGrow, State!SequenceFollows
<1>3. SequenceCovers'
  <2>1. sequence \in Int /\ \A i \in DOMAIN sent : sent[i].seqNo \in Int
    BY SentTypes DEF StateInv, State!TypeOK
  <2>2. sequence' = sequence + Pump /\ UNCHANGED <<sent, lowered>> BY DEF State!PumpSequence
  <2>3. sequence' \in Int /\ sequence' >= sequence BY <2>1, <2>2 DEF State!StateAssumption
  <2>4. CASE lowered BY <2>4, <2>2 DEF SequenceCovers
  <2>5. CASE ~lowered
    <3>1. \A i \in DOMAIN sent : IF sent[i].content THEN sent[i].seqNo < 2 * sequence
                                                    ELSE sent[i].seqNo <= 2 * sequence
      BY <2>5 DEF StateInv, SequenceCovers
    <3>2. \A i \in DOMAIN sent : IF sent[i].content THEN sent[i].seqNo < 2 * sequence'
                                                    ELSE sent[i].seqNo <= 2 * sequence'
      BY <3>1, <2>1, <2>3
    <3> QED BY <3>2, <2>2 DEF SequenceCovers
  <2> QED BY <2>4, <2>5
<1> QED BY <1>1, <1>2, <1>3 DEF StateInv

LEMMA LowerKeeps ==
  ASSUME State!StateAssumption, StateInv, State!LowerSequence
  PROVE  StateInv'
BY DEF State!StateAssumption, StateInv, State!TypeOK, State!LowerSequence, LastCovers,
   State!IdsGrow, SequenceCovers, State!SequenceFollows, State!Times

LEMMA ResetKeeps == ASSUME State!StateAssumption, StateInv, State!Reset PROVE StateInv'
<1>1. sent' = <<>> /\ sent' \in Seq(State!Messages) /\ Len(sent') = 0 /\ DOMAIN sent' = {}
  BY DEF State!Reset
<1>2. State!TypeOK'
  <2>1. corrected' \in 0..Len(sent') BY <1>1 DEF State!Reset
  <2>2. notices' \in 0..MaxNotices BY DEF State!StateAssumption, StateInv, State!TypeOK, State!Reset
  <2>3. /\ clock' \in State!Times /\ serverTime' \in State!Times /\ lowered' \in BOOLEAN
        /\ jumps' \in 0..MaxJumps
    BY Zenon DEF StateInv, State!TypeOK, State!Reset
  <2>4. timeOffset' \in Int /\ lastMsgId' \in Int /\ sequence' \in Int
    BY DEF StateInv, State!TypeOK, State!Reset
  <2> QED BY <1>1, <2>1, <2>2, <2>3, <2>4, Zenon DEF State!TypeOK
<1>3. LastCovers' /\ State!IdsGrow'
  <2>1. (corrected' + 1)..Len(sent') = {} BY <1>1 DEF State!Reset
  <2> QED BY <2>1 DEF LastCovers, State!IdsGrow
<1>4. SequenceCovers' /\ State!SequenceFollows' BY <1>1 DEF SequenceCovers, State!SequenceFollows
<1> QED BY <1>2, <1>3, <1>4 DEF StateInv

\* The steps of the clocks touch nothing that was sent.
LEMMA ClockKeeps ==
  ASSUME State!StateAssumption, StateInv, State!Tick \/ State!Jump \/ UNCHANGED State!vars
  PROVE  StateInv'
<1>1. /\ UNCHANGED <<lastMsgId, timeOffset, sequence, sent, corrected, lowered, notices>>
      /\ clock' \in State!Times /\ serverTime' \in State!Times /\ jumps' \in 0..MaxJumps
  BY SMTT(30) DEF State!StateAssumption, StateInv, State!TypeOK, State!Tick, State!Jump,
     State!vars, State!Times
<1> QED
  BY <1>1 DEF StateInv, State!TypeOK, LastCovers, State!IdsGrow, SequenceCovers,
     State!SequenceFollows

THEOREM StateInvariant == ASSUME State!StateAssumption PROVE State!Spec => []StateInv
<1>1. StateInv /\ [State!Next]_State!vars => StateInv'
  BY WriteKeeps, OffsetKeeps, PumpKeeps, LowerKeeps, ResetKeeps,
     ClockKeeps DEF State!Next
<1> QED BY StateInit, <1>1, PTL DEF State!Spec

\* Message ids of MTProtoState._getNewMsgId only grow between two corrections of the
\* time, whatever happens to the client's clock.
THEOREM StateIds == ASSUME State!StateAssumption PROVE State!Spec => []State!IdsGrow
<1>1. StateInv => State!IdsGrow BY DEF StateInv
<1> QED BY StateInvariant, <1>1, PTL

\* Sequence numbers of MTProtoState._getSeqNo follow the order of the messages until
\* the server's notification takes some off.
THEOREM StateSequence ==
  ASSUME State!StateAssumption
  PROVE  State!Spec => []State!SequenceFollows
<1>1. StateInv => State!SequenceFollows BY DEF StateInv
<1> QED BY StateInvariant, <1>1, PTL
=============================================================================
