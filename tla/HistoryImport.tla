---------------------------- MODULE HistoryImport ----------------------------
(***************************************************************************)
(* apps/history-import/src/index.ts: the worker that takes parsed messages *)
(* off the {history-results} queue, buffers them in memory and flushes the *)
(* buffer to Kafka: on a 10 s timer when it is large, on a 60 s timer      *)
(* whatever it holds.                                                      *)
(*                                                                         *)
(* The process is one JavaScript thread, so the code between two awaits is *)
(* one step.  flushItems awaits only producer.sendBatch; nothing stops a   *)
(* timer from calling it while another call waits for Kafka.               *)
(***************************************************************************)
EXTENDS Naturals, Sequences, FiniteSets

CONSTANTS
  Jobs,         \* jobs of the {history-results} queue, one message each
  Threshold,    \* buffered updates that trigger a flush (1000)
  MaxAccepts,   \* bound on addItem calls
  MaxCrashes    \* bound on crashes

ASSUME ThresholdAssumption == Threshold \in Nat \ {0}
ASSUME BoundsAssumption == MaxAccepts \in Nat /\ MaxCrashes \in Nat

VARIABLES
  waiting,       \* jobs in {history-results}
  active,        \* jobs given to the processor and not yet acknowledged
  isFlushing, updates, overflowQueue,   \* the module-level variables
  inFlight,      \* the itemsToFlush of every call that awaits Kafka
  delivered,     \* what reached KAFKA_MESSAGES_TOPIC
  accepted,      \* history: the jobs of the addItem calls, in order
  dropped,       \* history: given up after sendBatch failed
  lost,          \* history: in memory when the process died
  crashes

\* The buffers, `delivered`, `dropped` and `lost` hold accept numbers: n is the
\* data of the n-th addItem call, which came from job accepted[n].

bufferVars == <<isFlushing, updates, overflowQueue>>
vars == <<waiting, active, bufferVars, inFlight, delivered, accepted, dropped,
          lost, crashes>>

ItemsOf(s) == {s[i] : i \in DOMAIN s}
InFlight == UNION {ItemsOf(b) : b \in inFlight}
InMemory == ItemsOf(updates) \cup ItemsOf(overflowQueue) \cup InFlight

TypeOK ==
  /\ waiting \subseteq Jobs
  /\ active \subseteq Jobs
  /\ isFlushing \in BOOLEAN
  /\ updates \in Seq(Nat)
  /\ overflowQueue \in Seq(Nat)
  /\ inFlight \subseteq Seq(Nat)
  /\ delivered \subseteq Nat
  /\ accepted \in Seq(Jobs)
  /\ dropped \subseteq Nat
  /\ lost \subseteq Nat
  /\ crashes \in 0..MaxCrashes

EmptyBuffers == isFlushing = FALSE /\ updates = <<>> /\ overflowQueue = <<>>

Init ==
  /\ waiting = Jobs /\ active = {}
  /\ EmptyBuffers
  /\ inFlight = {}
  /\ delivered = {} /\ accepted = <<>> /\ dropped = {} /\ lost = {}
  /\ crashes = 0

----------------------------------------------------------------------------

\* Mutant: never looks at the flag.
AddToUpdates(n) ==
  /\ updates' = Append(updates, n)
  /\ UNCHANGED <<isFlushing, overflowQueue>>

AddItem(n) ==
  /\ updates' = IF isFlushing THEN updates ELSE Append(updates, n)
  /\ overflowQueue' = IF isFlushing THEN Append(overflowQueue, n)
                                    ELSE overflowQueue
  /\ UNCHANGED isFlushing

\* The processor is synchronous: it has buffered the data when BullMQ learns
\* that the job is done.
TakeJob(j) ==
  /\ j \in waiting
  /\ Len(accepted) < MaxAccepts
  /\ waiting' = waiting \ {j}
  /\ active' = active \cup {j}
  /\ accepted' = Append(accepted, j)
  /\ AddItem(Len(accepted) + 1)
  /\ UNCHANGED <<inFlight, delivered, dropped, lost, crashes>>

AckJob(j) ==
  /\ j \in active
  /\ active' = active \ {j}
  /\ UNCHANGED <<waiting, bufferVars, inFlight, delivered, accepted, dropped,
                 lost, crashes>>

----------------------------------------------------------------------------
(* flushItems, called while the sends in `flights` are awaiting Kafka.     *)

\* Mutant: the buffer is not emptied when its content is sent.
SendAndKeep(batch, flights) ==
  /\ isFlushing' = TRUE
  /\ inFlight' = flights \cup {batch}
  /\ UNCHANGED updates

\* The first half, with something to send: up to the await.
StartSend(batch, flights) ==
  /\ isFlushing' = TRUE
  /\ updates' = <<>>
  /\ inFlight' = flights \cup {batch}

\* Mutant: a small overflow stays where it is.
FinallyIfLarge(flights) ==
  LET all == updates \o overflowQueue IN
  IF overflowQueue # <<>> /\ Len(all) >= Threshold
    THEN StartSend(all, flights) /\ overflowQueue' = <<>>
    ELSE /\ isFlushing' = FALSE
         /\ inFlight' = flights
         /\ UNCHANGED <<updates, overflowQueue>>

\* The finally block.  The overflow joins the buffer, which is flushed at once
\* (the recursive call) when that makes it large enough.
Finally(flights) ==
  LET all == updates \o overflowQueue IN
  /\ overflowQueue' = <<>>
  /\ IF overflowQueue # <<>> /\ Len(all) >= Threshold
       THEN StartSend(all, flights)
       ELSE /\ isFlushing' = FALSE
            /\ updates' = all
            /\ inFlight' = flights

\* With nothing to send there is no await: the call runs to its end at once.
FlushItems ==
  IF updates # <<>> THEN StartSend(updates, inFlight) /\ UNCHANGED overflowQueue
                    ELSE Finally(inFlight)

Flush ==
  /\ FlushItems
  /\ UNCHANGED <<waiting, active, delivered, accepted, dropped, lost, crashes>>

EveryTenSeconds == Len(updates) >= Threshold /\ Flush
EveryMinute == Flush

\* sendBatch resolves.
SendSucceeds(b) ==
  /\ b \in inFlight
  /\ delivered' = delivered \cup ItemsOf(b)
  /\ Finally(inFlight \ {b})
  /\ UNCHANGED <<waiting, active, accepted, dropped, lost, crashes>>

\* Mutant: the whole batch is sent again.
SendAgain(b) ==
  /\ b \in inFlight
  /\ \E d \in SUBSET ItemsOf(b) : delivered' = delivered \cup d
  /\ UNCHANGED <<waiting, active, bufferVars, inFlight, accepted, dropped,
                 lost, crashes>>

\* sendBatch rejects, some partitions having taken their part: the catch block
\* only logs, so the rest is given up.
SendFails(b) ==
  /\ b \in inFlight
  /\ \E d \in SUBSET ItemsOf(b) :
       /\ delivered' = delivered \cup d
       /\ dropped' = dropped \cup (ItemsOf(b) \ d)
  /\ Finally(inFlight \ {b})
  /\ UNCHANGED <<waiting, active, accepted, lost, crashes>>

\* The process dies and restarts; requests on the wire may still be served.
\* BullMQ gives the unacknowledged jobs out again.
Crash ==
  /\ crashes < MaxCrashes
  /\ crashes' = crashes + 1
  /\ \E d \in SUBSET InFlight :
       /\ delivered' = delivered \cup d
       /\ lost' = lost \cup (InMemory \ d)
  /\ isFlushing' = FALSE /\ updates' = <<>> /\ overflowQueue' = <<>>
  /\ inFlight' = {}
  /\ waiting' = waiting \cup active
  /\ active' = {}
  /\ UNCHANGED <<accepted, dropped>>

Next ==
  \/ \E j \in Jobs : TakeJob(j) \/ AckJob(j)
  \/ EveryTenSeconds
  \/ EveryMinute
  \/ \E b \in inFlight : SendSucceeds(b) \/ SendFails(b)
  \/ Crash

Spec == Init /\ [][Next]_vars

\* Intervals keep firing and every sendBatch settles (kafkajs bounds its
\* retries); nothing makes a send succeed.
Fairness ==
  /\ WF_vars(EveryMinute)
  /\ WF_vars(\E b \in inFlight : SendSucceeds(b) \/ SendFails(b))

FairSpec == Spec /\ Fairness

----------------------------------------------------------------------------
(* Properties.                                                             *)

Increasing(s) == \A i, j \in DOMAIN s : i < j => s[i] < s[j]

\* Every accepted update is in exactly one place (still in memory, in the
\* topic, given up after a failed send, or lost in a crash), however flushes
\* overlap and whatever they move between the buffers.
Conservation ==
  LET buffered == ItemsOf(updates) \cup ItemsOf(overflowQueue) IN
  /\ 1..Len(accepted) = InMemory \cup delivered \cup dropped \cup lost
  /\ ItemsOf(updates) \cap ItemsOf(overflowQueue) = {}
  /\ InFlight \cap buffered = {}
  /\ \A b, c \in inFlight : b # c => ItemsOf(b) \cap ItemsOf(c) = {}
  /\ InMemory \cap (delivered \cup dropped \cup lost) = {}
  /\ delivered \cap (dropped \cup lost) = {}
  /\ dropped \cap lost = {}

\* The flag says which buffer is in use: while it is set `updates` is empty and
\* some send will run the finally block that empties the overflow; while it is
\* clear nothing waits in the overflow.  A timer that finds the flag set thus
\* never starts a second send directly.
FlagDiscipline ==
  /\ isFlushing => updates = <<>> /\ inFlight # {}
  /\ ~isFlushing => overflowQueue = <<>>

\* Updates leave in the order they arrived: each batch is in arrival order and
\* older than everything still buffered, and a later batch is wholly younger.
ArrivalOrder ==
  /\ Increasing(updates \o overflowQueue)
  /\ \A b \in inFlight :
       /\ Increasing(b)
       /\ \A n \in ItemsOf(b), m \in ItemsOf(updates \o overflowQueue) : n < m
       /\ \A c \in inFlight \ {b} :
            (\E n \in ItemsOf(b), m \in ItemsOf(c) : n < m)
              => \A n \in ItemsOf(b), m \in ItemsOf(c) : n < m

\* The buffers implement a relay: what left memory never comes back.
R == INSTANCE Relay WITH Item <- 1..MaxAccepts, pending <- InMemory,
                         gone <- dropped \cup lost
ImplementsRelay == R!RelaySpec

\* Nothing stays in memory for ever: a timer or a finally block always gets to
\* it, even what overflowed while sends were overlapping.
MemoryDrains ==
  \A n \in 1..MaxAccepts : n \in InMemory ~> n \notin InMemory
=============================================================================
