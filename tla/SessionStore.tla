---------------------------- MODULE SessionStore ----------------------------
(***************************************************************************)
(* The session of an account in Redis, shared by the processes that use    *)
(* the account: a data centre, its address and the key made with it.       *)
(* packages/gramjs sessions/RedisSession.ts, and what client/              *)
(* TelegramClient.ts does with it to connect and to move to another data   *)
(* centre.  Redis takes the commands of a process in order.                *)
(***************************************************************************)
EXTENDS Integers, Sequences

CONSTANTS
  Processes,
  Servers,   \* data centres; each has one address
  Default,   \* where a session without an address begins
  None,
  MaxKeys,   \* bound on keys that are made
  MaxStarts  \* bound on starts of processes

SessionAssumption ==
  Default \in Servers /\ None \notin Servers /\ MaxKeys \in Nat /\ MaxStarts \in Nat

VARIABLES
  home,    \* the data centre of the account
  stored,  \* in Redis
  queue,   \* commands of each process Redis has not taken yet
  pc,
  session, \* of each process
  keys, starts,
  left,    \* data centres that processes have moved away from
  begun,   \* how often a session without an address was begun
  cut, crossed \* a crash, or another process, came between the two commands of a setDC

vars == <<home, stored, queue, pc, session, keys, starts, left, begun, cut, crossed>>

Keys == [of : Servers, n : 1..MaxKeys]
Sessions == [dcId : Servers \cup {None}, serverAddress : Servers \cup {None},
             authKey : Keys \cup {None}]
Commands == [field : {"dcId", "serverAddress"}, value : Servers]
              \cup [field : {"authKey"}, value : Keys]
Empty == [dcId |-> None, serverAddress |-> None, authKey |-> None]

TypeOK ==
  /\ home \in Servers /\ stored \in Sessions
  /\ queue \in [Processes -> Seq(Commands)]
  /\ pc \in [Processes -> {"down", "authKey", "dcId", "serverAddress", "connect", "up", "broken"}]
  /\ session \in [Processes -> Sessions]
  /\ keys \in 0..MaxKeys /\ starts \in 0..MaxStarts
  /\ left \subseteq Servers /\ begun \in 0..MaxStarts
  /\ cut \in BOOLEAN /\ crossed \in BOOLEAN

\* A session is stored whole, or not at all.
Init ==
  /\ home \in Servers
  /\ keys = 1
  /\ stored \in {Empty} \cup
       {[dcId |-> s, serverAddress |-> s, authKey |-> [of |-> s, n |-> 1]] : s \in Servers}
  /\ queue = [p \in Processes |-> <<>>] /\ pc = [p \in Processes |-> "down"]
  /\ session = [p \in Processes |-> Empty] /\ starts = 0 /\ left = {}
  /\ begun = 0 /\ cut = FALSE /\ crossed = FALSE

Set(field, value) == [field |-> field, value |-> value]

\* Redis has taken a number of this process, but not its address.
Halfway(p) == queue[p] # <<>> /\ Head(queue[p]).field = "serverAddress"

\* Redis takes a command.
Take(p) ==
  /\ queue[p] # <<>>
  /\ stored' = [stored EXCEPT ![Head(queue[p]).field] = Head(queue[p]).value]
  /\ queue' = [queue EXCEPT ![p] = Tail(@)]
  /\ crossed' = (crossed \/ (Head(queue[p]).field = "dcId" /\ \E q \in Processes : Halfway(q)))
  /\ UNCHANGED <<home, pc, session, keys, starts, left, begun, cut>>

Start(p) ==
  /\ pc[p] = "down" /\ starts < MaxStarts /\ starts' = starts + 1
  /\ pc' = [pc EXCEPT ![p] = "authKey"] /\ session' = [session EXCEPT ![p] = Empty]
  /\ UNCHANGED <<home, stored, queue, keys, left, begun, cut, crossed>>

\* The process ends; commands that were not sent are gone.
Crash(p) ==
  /\ pc[p] # "down" /\ pc' = [pc EXCEPT ![p] = "down"] /\ queue' = [queue EXCEPT ![p] = <<>>]
  /\ cut' = (cut \/ Halfway(p))
  /\ UNCHANGED <<home, stored, session, keys, starts, left, begun, crossed>>

\* One field is read, after the commands sent before; the order is authKey, dcId,
\* serverAddress.  What is missing leaves the session as it is.
Loaded(p, field) ==
  /\ pc[p] = field /\ queue[p] = <<>>
  /\ session' = IF stored[field] = None THEN session
                ELSE [session EXCEPT ![p][field] = stored[field]]

Load(p, field, then) ==
  /\ Loaded(p, field) /\ pc' = [pc EXCEPT ![p] = then]
  /\ UNCHANGED <<home, stored, queue, keys, starts, left, begun, cut, crossed>>

SetDC(p, s) ==
  queue' = [queue EXCEPT ![p] = @ \o <<Set("dcId", s), Set("serverAddress", s)>>]

\* A session without an address begins with the default one.
LoadAddress(p) ==
  /\ pc[p] = "serverAddress" /\ queue[p] = <<>>
  /\ pc' = [pc EXCEPT ![p] = "connect"]
  /\ IF stored.serverAddress # None
       THEN /\ session' = [session EXCEPT ![p].serverAddress = stored.serverAddress]
            /\ UNCHANGED <<queue, begun>>
       ELSE IF session[p].serverAddress # None THEN UNCHANGED <<session, queue, begun>>
       ELSE /\ session' = [session EXCEPT ![p].dcId = Default, ![p].serverAddress = Default]
            /\ SetDC(p, Default) /\ begun' = begun + 1
  /\ UNCHANGED <<home, stored, keys, starts, left, cut, crossed>>

\* The sender connects; without a key it makes one, with another server's it gets nowhere.
Connect(p) ==
  LET server == session[p].serverAddress key == session[p].authKey
      made == [of |-> server, n |-> keys + 1] IN
  /\ pc[p] = "connect"
  /\ IF key = None
       THEN /\ keys < MaxKeys /\ keys' = keys + 1
            /\ session' = [session EXCEPT ![p].authKey = made]
            /\ queue' = [queue EXCEPT ![p] = Append(@, Set("authKey", made))]
            /\ pc' = [pc EXCEPT ![p] = "up"]
       ELSE /\ queue' = [queue EXCEPT ![p] = Append(@, Set("authKey", key))]
            /\ pc' = [pc EXCEPT ![p] = IF key.of = server THEN "up" ELSE "broken"]
            /\ UNCHANGED <<keys, session>>
  /\ UNCHANGED <<home, stored, starts, left, begun, cut, crossed>>

\* The account lives elsewhere: the session gets the new data centre and no key, and the
\* client connects anew, loading the session first.
SwitchDC(p) ==
  /\ pc[p] = "up" /\ session[p].serverAddress # home
  /\ session' = [session EXCEPT ![p] = [dcId |-> home, serverAddress |-> home, authKey |-> None]]
  /\ SetDC(p, home) /\ pc' = [pc EXCEPT ![p] = "authKey"]
  /\ left' = left \cup {session[p].serverAddress}
  /\ UNCHANGED <<home, stored, keys, starts, begun, cut, crossed>>

Next ==
  \E p \in Processes :
    \/ Take(p) \/ Start(p) \/ Crash(p)
    \/ Load(p, "authKey", "dcId") \/ Load(p, "dcId", "serverAddress") \/ LoadAddress(p)
    \/ Connect(p) \/ SwitchDC(p)

Spec == Init /\ [][Next]_vars

----------------------------------------------------------------------------
\* A process uses a foreign key only if the key is of a data centre a process was moved
\* away from, however processes read and write the session.
BrokenExplained ==
  \A p \in Processes : pc[p] = "broken" => session[p].authKey.of \in left \/ begun > 1

\* The data centre and the address stored belong together, unless a setDC is halfway, was
\* cut off by a crash, or was crossed by another process's.
StoredTogether ==
  stored.dcId = stored.serverAddress \/ cut \/ crossed \/ \E p \in Processes : Halfway(p)
=============================================================================
