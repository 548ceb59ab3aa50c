---------------------------- MODULE MTProtoSender ----------------------------
(***************************************************************************)
(* packages/gramjs network/MTProtoSender.ts with MessagePacker and         *)
(* PendingState: the requests of a Telegram client on their way to the     *)
(* server, a send loop, a receive loop, and the reconnection that the      *)
(* receive loop or a failing ping starts.  The sender is a client's main   *)
(* one, which the update loop pings.                                       *)
(*                                                                         *)
(* Awaits that only take a few turns of the microtask queue are not steps  *)
(* of their own; network events, the one second before a reconnect, the    *)
(* wait for something to send and the encryption of a batch are.           *)
(***************************************************************************)
EXTENDS Naturals, Sequences, SequencesExt

CONSTANTS
  MaxRequests,  \* requests are numbered in the order of their invocation
  MaxDrops,     \* bound on connections that break, pings that fail, rejections
  MaxQuits      \* bound on disconnect() by the user

ASSUME BoundsAssumption == MaxRequests \in Nat /\ MaxDrops \in Nat /\ MaxQuits \in Nat

Requests == 1..MaxRequests
Undef == 0   \* clear() leaves an undefined entry in the queue, to wake the loop

VARIABLES
  invoked,         \* number of requests invoked
  settled,         \* requests with a result or an error
  queue,           \* _sendQueue
  sendLoop,        \* "none": _sendLoopHandle is unset
  batch,           \* what the send loop took from the queue
  pending,         \* _pendingState, in insertion order
  container,       \* container[r]: the batch r was last packed in
  recvLoop,        \* whether _recvLoopHandle is set
  userConnected, isReconnecting, userDisconnected,
  connected,       \* _connected of the current connection
  connecting,      \* who runs connect(): "no", "user", "reconnect"; "sleep": not yet
  wire,            \* requests the server has from the current connection
  lastContainer,
  keyBroken,       \* the receive loop ended because the server forgot the key
  forgotten,       \* history: requests the sender dropped unsettled
  stranded,        \* history: pending ones that a new connection did not requeue
  drops, quits

flags == <<userConnected, isReconnecting, userDisconnected>>
net == <<connected, connecting, recvLoop>>
store == <<queue, batch, pending>>
packs == <<container, lastContainer>>
fates == <<keyBroken, forgotten, stranded>>
bounds == <<drops, quits>>
senderVars == <<invoked, settled, store, sendLoop, packs, net, flags, wire, fates, bounds>>

SenderTypeOK ==
  /\ invoked \in 0..MaxRequests
  /\ settled \subseteq 1..invoked
  /\ queue \in Seq(0..invoked)
  /\ batch \in Seq(1..invoked) /\ (batch # <<>> => sendLoop = "packed")
  /\ pending \in Seq(1..invoked)
  /\ sendLoop \in {"none", "waiting", "packed"}
  /\ connecting \in {"no", "user", "sleep", "reconnect"}
  /\ wire \subseteq 1..invoked /\ (wire # {} => connected)
  /\ lastContainer \in Nat /\ container \in [Requests -> 0..lastContainer]
  /\ keyBroken \in BOOLEAN /\ forgotten \subseteq 1..invoked /\ stranded \subseteq 1..invoked
  /\ recvLoop \in BOOLEAN /\ connected \in BOOLEAN
  /\ userConnected \in BOOLEAN /\ isReconnecting \in BOOLEAN /\ userDisconnected \in BOOLEAN
  /\ drops \in 0..MaxDrops /\ quits \in 0..MaxQuits

\* A sender whose first connect() is under way.
SenderInit ==
  /\ invoked = 0 /\ settled = {}
  /\ queue = <<>> /\ sendLoop = "none" /\ batch = <<>> /\ pending = <<>>
  /\ container = [r \in Requests |-> 0] /\ lastContainer = 0
  /\ recvLoop = FALSE /\ connected = FALSE /\ connecting = "user"
  /\ userConnected = FALSE /\ isReconnecting = FALSE /\ userDisconnected = FALSE
  /\ wire = {} /\ keyBroken = FALSE /\ forgotten = {} /\ stranded = {}
  /\ drops = 0 /\ quits = 0

\* The entries that are not in S, in order.
Without(s, S) ==
  LET kept == {i \in DOMAIN s : s[i] \notin S}
      at(k) == CHOOSE i \in kept : Cardinality({j \in kept : j <= i}) = k
  IN [k \in 1..Cardinality(kept) |-> s[at(k)]]

LoopGoesOn == userConnected /\ ~isReconnecting

----------------------------------------------------------------------------
(* Requests and the send loop.                                             *)

\* addStateToQueue: at any time, connected or not.
Invoke ==
  /\ invoked < MaxRequests
  /\ invoked' = invoked + 1
  /\ queue' = Append(queue, invoked + 1)
  /\ UNCHANGED <<settled, sendLoop, batch, pending, packs, net, flags, wire, fates, bounds>>

\* get() looks at the last entry first and only cleans the queue when that is
\* the undefined one.
SkipUndefined ==
  /\ sendLoop = "waiting" /\ queue # <<>> /\ Last(queue) = Undef
  /\ queue' = Without(queue, {Undef})
  /\ sendLoop' = IF LoopGoesOn THEN "waiting" ELSE "none"
  /\ UNCHANGED <<invoked, settled, batch, pending, packs, net, flags, wire, fates, bounds>>

\* get() packs what is in the queue; a loop that finds the sender reconnecting
\* returns with what it took.
Pack ==
  /\ sendLoop = "waiting" /\ queue # <<>> /\ Last(queue) # Undef
  /\ queue' = <<>>
  /\ LET taken == Without(queue, {Undef}) IN
     IF isReconnecting
     THEN /\ sendLoop' = "none" /\ forgotten' = forgotten \cup ToSet(taken)
          /\ UNCHANGED <<batch, packs>>
     ELSE /\ sendLoop' = "packed" /\ batch' = taken
          /\ lastContainer' = IF Len(taken) > 1 THEN lastContainer + 1 ELSE lastContainer
          /\ container' = [r \in Requests |->
                             IF Len(taken) > 1 /\ Contains(taken, r)
                             THEN lastContainer + 1 ELSE container[r]]
          /\ UNCHANGED forgotten
  /\ UNCHANGED <<invoked, settled, pending, net, flags, wire, keyBroken, stranded, bounds>>

\* connection.send takes the encrypted batch.
Send ==
  /\ sendLoop = "packed" /\ connected
  /\ pending' = pending \o batch
  /\ wire' = wire \cup ToSet(batch)
  /\ batch' = <<>>
  /\ sendLoop' = IF LoopGoesOn THEN "waiting" ELSE "none"
  /\ UNCHANGED <<invoked, settled, queue, packs, net, flags, fates, bounds>>

\* connection.send throws: the loop returns and leaves the batch.
SendFails ==
  /\ sendLoop = "packed" /\ ~connected
  /\ batch' = <<>> /\ sendLoop' = "none"
  /\ forgotten' = forgotten \cup ToSet(batch)
  /\ UNCHANGED <<invoked, settled, queue, pending, packs, net, flags, wire, keyBroken,
                 stranded, bounds>>

----------------------------------------------------------------------------
(* What the server sends.                                                  *)

\* The receive loop looks at its conditions after a message: one more may be processed when
\* a reconnect is due.
Heard(r) == recvLoop /\ r \in wire /\ recvLoop' = LoopGoesOn

\* Mutant: the state stays in _pendingState.
AnswerKeepingState(r) ==
  /\ Heard(r) /\ wire' = wire \ {r}
  /\ settled' = settled \cup (ToSet(pending) \cap {r})
  /\ UNCHANGED <<invoked, queue, sendLoop, batch, pending, packs, connected, connecting,
                 flags, fates, bounds>>

\* rpc_result, a result or an error.
Answer(r) ==
  /\ Heard(r) /\ wire' = wire \ {r}
  /\ settled' = settled \cup (ToSet(pending) \cap {r})
  /\ pending' = Without(pending, {r})
  /\ UNCHANGED <<invoked, queue, sendLoop, batch, packs, connected, connecting, flags,
                 fates, bounds>>

\* _popStates: the message with the id, or those of the container with it.
PopStates(r, whole) ==
  IF whole THEN {q \in ToSet(pending) : container[q] = container[r]}
           ELSE {r} \cap ToSet(pending)

\* bad_server_salt, or a bad_msg_notification about the clock or the sequence
\* number, of a message or of a whole container: to be sent again.
Reject(r) ==
  /\ Heard(r) /\ drops < MaxDrops /\ drops' = drops + 1
  /\ \E whole \in {FALSE} \cup {container[r] > 0} :
       LET popped == PopStates(r, whole) IN
       /\ wire' = wire \ (popped \cup {r})
       /\ pending' = Without(pending, popped)
       /\ queue' = queue \o Without(pending, ToSet(pending) \ popped)
  /\ UNCHANGED <<invoked, settled, sendLoop, batch, packs, connected, connecting, flags,
                 fates, quits>>

----------------------------------------------------------------------------
(* Connections.                                                            *)

\* The receive loop's recv() throws.  Unless the user disconnected it calls
\* reconnect(), which acts once and only on a connected sender.
RecvFails(isUserConnected, isUserDisconnected) ==
  /\ recvLoop' = FALSE
  /\ LET starts == recvLoop /\ isUserConnected /\ ~isReconnecting /\ ~isUserDisconnected IN
     /\ isReconnecting' = (isReconnecting \/ starts)
     /\ connecting' = IF starts THEN "sleep" ELSE connecting

\* The server or the network closes the connection.
Drop ==
  /\ connected /\ drops < MaxDrops /\ drops' = drops + 1
  /\ connected' = FALSE /\ wire' = {}
  /\ RecvFails(userConnected, userDisconnected)
  /\ UNCHANGED <<invoked, settled, store, sendLoop, packs, userConnected,
                 userDisconnected, fates, quits>>

\* Something undecodable arrives: the receive loop ends, and reconnects whatever the user
\* does, with the old connection still up.
Garbled ==
  /\ connected /\ recvLoop /\ drops < MaxDrops /\ drops' = drops + 1
  /\ RecvFails(userConnected, FALSE)
  /\ UNCHANGED <<invoked, settled, store, sendLoop, packs, connected, userConnected,
                 userDisconnected, wire, fates, quits>>

\* The server does not know the key (404): the receive loop ends and nobody reconnects.
\* The main sender tells the update callback, which does nothing about it.
KeyForgotten ==
  /\ connected /\ recvLoop /\ drops < MaxDrops /\ drops' = drops + 1
  /\ recvLoop' = FALSE /\ keyBroken' = TRUE
  /\ UNCHANGED <<invoked, settled, store, sendLoop, packs, connected, connecting, flags,
                 wire, forgotten, stranded, quits>>

\* The update loop's pings time out, as they must when nothing is received.
PingsTimeOut ==
  /\ LoopGoesOn
  /\ \/ drops < MaxDrops /\ drops' = drops + 1
     \/ ~recvLoop /\ UNCHANGED drops
  /\ isReconnecting' = TRUE /\ connecting' = "sleep"
  /\ UNCHANGED <<invoked, settled, store, sendLoop, packs, connected, recvLoop,
                 userConnected, userDisconnected, wire, fates, quits>>

\* _reconnect after its second: closes the connection, clears the queue and
\* starts to connect.
StartReconnect ==
  /\ connecting = "sleep" /\ connecting' = "reconnect"
  /\ userConnected' = FALSE /\ userDisconnected' = FALSE
  /\ connected' = FALSE /\ wire' = {} /\ recvLoop' = FALSE
  /\ queue' = <<Undef>> /\ forgotten' = forgotten \cup (ToSet(queue) \ {Undef})
  /\ UNCHANGED <<invoked, settled, sendLoop, batch, pending, packs, isReconnecting,
                 keyBroken, stranded, bounds>>

Requeue == queue' = pending \o queue /\ pending' = <<>> /\ stranded' = {}

\* Mutant: leaves the send loop to whoever connected first.
ConnectedWithoutLoop ==
  /\ sendLoop # "packed"
  /\ connecting \in {"user", "reconnect"} /\ connecting' = "no"
  /\ connected' = TRUE /\ recvLoop' = TRUE
  /\ userConnected' = TRUE /\ isReconnecting' = FALSE
  /\ Requeue
  /\ sendLoop' = IF connecting = "user" THEN "waiting" ELSE sendLoop
  /\ keyBroken' = FALSE
  /\ UNCHANGED <<invoked, settled, batch, packs, userDisconnected, wire, forgotten, bounds>>

\* Mutant: _reconnect leaves the pending states to a new send loop.
ConnectedRequeueingOnce ==
  /\ sendLoop # "packed"
  /\ connecting \in {"user", "reconnect"} /\ connecting' = "no"
  /\ connected' = TRUE /\ recvLoop' = TRUE /\ keyBroken' = FALSE
  /\ userConnected' = TRUE /\ isReconnecting' = FALSE
  /\ IF sendLoop = "none" THEN Requeue ELSE UNCHANGED <<queue, pending, stranded>>
  /\ sendLoop' = "waiting"
  /\ UNCHANGED <<invoked, settled, batch, packs, userDisconnected, wire, forgotten, bounds>>

\* connect() succeeds and starts the loops that do not run; a new send loop,
\* and _reconnect, put the pending states back into the queue.  Assumed: a
\* batch is encrypted in less time than it takes to connect.
Connected ==
  /\ sendLoop # "packed"
  /\ connecting \in {"user", "reconnect"} /\ connecting' = "no"
  /\ connected' = TRUE /\ recvLoop' = TRUE /\ keyBroken' = FALSE
  /\ userConnected' = TRUE /\ isReconnecting' = FALSE
  /\ IF sendLoop = "none" \/ connecting = "reconnect"
     THEN Requeue
     ELSE stranded' = ToSet(pending) /\ UNCHANGED <<queue, pending>>
  /\ sendLoop' = IF sendLoop = "none" THEN "waiting" ELSE sendLoop
  /\ UNCHANGED <<invoked, settled, batch, packs, userDisconnected, wire, forgotten, bounds>>

\* disconnect(), also while a reconnect is under way, which it does not stop.
Disconnect ==
  /\ quits < MaxQuits /\ quits' = quits + 1
  /\ userDisconnected' = TRUE /\ userConnected' = FALSE
  /\ connected' = FALSE /\ wire' = {}
  /\ recvLoop' = IF connected THEN FALSE ELSE recvLoop
  /\ UNCHANGED <<invoked, settled, store, sendLoop, packs, isReconnecting, connecting,
                 fates, drops>>

\* client.connect() with the same sender.  Assumed: not while it reconnects.
Connect ==
  /\ connecting = "no" /\ ~userConnected
  /\ connecting' = "user" /\ userDisconnected' = FALSE
  /\ UNCHANGED <<invoked, settled, store, sendLoop, packs, connected, recvLoop,
                 userConnected, isReconnecting, wire, fates, bounds>>

SendLoop == SkipUndefined \/ Pack \/ Send \/ SendFails

SenderNext ==
  \/ Invoke
  \/ SendLoop
  \/ \E r \in Requests : Answer(r) \/ Reject(r)
  \/ Drop
  \/ Garbled
  \/ KeyForgotten
  \/ PingsTimeOut
  \/ StartReconnect
  \/ Connected
  \/ Disconnect
  \/ Connect

SenderSpec == SenderInit /\ [][SenderNext]_senderVars

\* The event loop is fair, the server answers what it has, some attempt to connect
\* succeeds, and the update loop goes on pinging, so that a sender that receives nothing
\* notices.
Fairness ==
  /\ WF_senderVars(SendLoop)
  /\ \A r \in Requests : WF_senderVars(Answer(r))
  /\ WF_senderVars(StartReconnect)
  /\ WF_senderVars(Connected)
  /\ WF_senderVars(~recvLoop /\ PingsTimeOut)

FairSpec == SenderSpec /\ Fairness

----------------------------------------------------------------------------
(* Properties.                                                             *)

Kept == pending \o batch \o Without(queue, {Undef})

\* However reconnects, new loops and rejections move it, a request has at most
\* one entry in the queue, the batch and the pending states together, and none
\* once it is settled: it is not sent twice over the same connection, and not
\* sent again after its answer.
NoDuplicates == IsInjective(Kept) /\ ToSet(Kept) \cap settled = {}

\* Whoever brings the connection up, and whatever the old loops were waiting for, a
\* connected sender that is not about to reconnect has both loops; only after a 404 it has
\* no receive loop.
LoopsRun ==
  userConnected /\ connected /\ ~isReconnecting /\ ~userDisconnected =>
    sendLoop # "none" /\ (recvLoop \/ keyBroken)

\* A request is settled in the end, however often the connection breaks and whatever the
\* loops were doing, unless the sender forgot it: it was taken or cleared from the queue
\* for a reconnect, or its batch could not be sent.  It waits while the user has
\* disconnected, and while it is pending on a connection that the user made anew with the
\* old send loop still waiting: nothing but another reconnect sends it again.
NothingStuck ==
  \A r \in Requests :
    r <= invoked ~> r \in settled \cup forgotten \cup stranded \/ userDisconnected

\* The class comment: "Automatic reconnection due to temporary network issues is a concern
\* for this class as well, including retry of messages that could not be sent
\* successfully."  So a request that is not settled is still somewhere to be sent from.
Retried == \A r \in 1..invoked : r \in settled \cup ToSet(Kept)
=============================================================================
