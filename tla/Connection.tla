------------------------------ MODULE Connection ------------------------------
(***************************************************************************)
(* packages/kafkajs/src/network: a connection to a broker and its request  *)
(* queue, under every producer and consumer of this repository.            *)
(*                                                                         *)
(* An action is one event of the process (a socket event, a timer, a call  *)
(* from the code above) with everything that runs synchronously on it.     *)
(* disconnect() is two actions: its await is resolved when the queue is    *)
(* empty, and only promise callbacks run before it goes on (`finishing`).  *)
(* SASL and the framing of responses are left out.                         *)
(***************************************************************************)
EXTENDS Naturals, Sequences, FiniteSets, SequencesExt

CONSTANTS
  Requests,      \* requests, named by their correlation ids
  NoResponse,    \* those that expect no response (produce with acks = 0)
  MaxInFlight,   \* maxInFlightRequests
  MaxSockets,    \* bound on connect() calls that open a socket
  MaxCloses,     \* bound on disconnect() calls from above
  Overlap        \* whether connect() is called while a socket is connecting

RequestsAssumption == IsFiniteSet(Requests) /\ NoResponse \subseteq Requests
InFlightAssumption == MaxInFlight \in Nat \ {0}
BoundsAssumption == MaxSockets \in Nat \ {0} /\ MaxCloses \in Nat
OverlapAssumption == Overlap \in BOOLEAN

VARIABLES
  state,         \* the SocketRequest states, "new" before push()
  inflight, pending,
  throttled,     \* throttledUntil is in the future
  checkTimer,    \* throttleCheckTimeoutId is set
  interval,      \* the request timeout interval runs
  status,        \* connectionStatus
  phase,         \* of each socket
  ended,         \* sockets whose end() was called
  socket,        \* this.socket, 0 when there is none
  wire,          \* requests written to each socket and not answered
  undecoded,     \* responses whose promise callbacks have not run
  waiting,       \* a disconnect() awaits the empty queue
  finishing,     \* a disconnect() is about to go on; "open" when a send() may
                 \* be among the promise callbacks that run before it does
  closes,        \* disconnect() calls from above
  late           \* history: pushed while a disconnect() was about to go on

Sockets == 1..MaxSockets
queueVars == <<state, inflight, pending>>
timerVars == <<throttled, checkTimer, interval>>
socketVars == <<phase, ended, socket>>
vars == <<queueVars, timerVars, status, socketVars, wire, undecoded, waiting,
          finishing, closes, late>>

Phases == {"none", "connecting", "overdue", "open", "closed"}
Settled == {"completed", "rejected"}

TypeOK ==
  /\ state \in [Requests -> {"new", "pending", "sent"} \cup Settled]
  /\ inflight \subseteq Requests
  /\ pending \in Seq(Requests)
  /\ throttled \in BOOLEAN /\ checkTimer \in BOOLEAN /\ interval \in BOOLEAN
  /\ status \in {"disconnected", "connected", "disconnecting"}
  /\ phase \in [Sockets -> Phases]
  /\ ended \subseteq Sockets
  /\ socket \in 0..MaxSockets
  /\ wire \in [Sockets -> Seq(Requests)]
  /\ undecoded \subseteq Requests
  /\ waiting \in BOOLEAN /\ finishing \in {"no", "alone", "open"}
  /\ closes \in 0..MaxCloses
  /\ late \subseteq Requests

Init ==
  /\ state = [r \in Requests |-> "new"]
  /\ inflight = {} /\ pending = <<>>
  /\ throttled = FALSE /\ checkTimer = FALSE /\ interval = FALSE
  /\ status = "disconnected"
  /\ phase = [s \in Sockets |-> "none"]
  /\ ended = {} /\ socket = 0
  /\ wire = [s \in Sockets |-> <<>>]
  /\ undecoded = {}
  /\ waiting = FALSE /\ finishing = "no"
  /\ closes = 0 /\ late = {}

\* A disconnecting connection counts as connected (CONNECTED_STATUS).
IsConnected == status # "disconnected"
Expecting(rs) == SelectSeq(rs, LAMBDA r : r \notin NoResponse)
Connecting == {s \in Sockets : phase[s] \in {"connecting", "overdue"}}

----------------------------------------------------------------------------
(* The request queue.                                                      *)

\* With n requests in flight.
CanSend(n) == n < MaxInFlight /\ ~throttled

\* How many of the pending requests leave while `flying` are in flight.
Leaving(flying) ==
  LET InFlightAfter(k) ==
        Cardinality(flying) + Len(Expecting(SubSeq(pending, 1, k)))
      Leaves(k) == \A i \in 0..(k - 1) : CanSend(InFlightAfter(i))
  IN CHOOSE k \in 0..Len(pending) :
       Leaves(k) /\ (k = Len(pending) \/ ~Leaves(k + 1))

\* `rs` are sent on this.socket while `flying` are in flight; `done` is what
\* else changes its state.
Send(rs, flying, done) ==
  /\ inflight' = flying \cup ToSet(Expecting(rs))
  /\ state' = [r \in Requests |->
                 CASE r \in ToSet(rs) /\ r \in NoResponse -> "completed"
                   [] r \in ToSet(rs) -> "sent"
                   [] r \in DOMAIN done -> done[r]
                   [] OTHER -> state[r]]

Write(rs, unanswered) ==
  wire' = [unanswered EXCEPT ![socket] = @ \o Expecting(rs)]

\* checkPendingRequests
CheckPending(flying, unanswered, done) ==
  LET k == Leaving(flying) IN
  /\ pending' = SubSeq(pending, k + 1, Len(pending))
  /\ Send(SubSeq(pending, 1, k), flying, done)
  /\ IF k > 0 THEN Write(SubSeq(pending, 1, k), unanswered)
              ELSE wire' = unanswered
  /\ checkTimer' = TRUE

\* The event that waitForPendingRequests listens to.
QueueEmptied == pending' = <<>> /\ inflight' = {}
EmitEmpty ==
  /\ waiting' = (waiting /\ ~QueueEmptied)
  /\ finishing' = IF waiting /\ QueueEmptied THEN "alone" ELSE "no"

PushRequest(r) ==
  IF CanSend(Cardinality(inflight))
    THEN /\ Send(<<r>>, inflight, <<>>)
         /\ Write(<<r>>, wire)
         /\ UNCHANGED <<pending, checkTimer>>
    ELSE /\ pending' = Append(pending, r)
         /\ state' = [state EXCEPT ![r] = "pending"]
         /\ checkTimer' = TRUE
         /\ UNCHANGED <<inflight, wire>>

\* send(), after the request is encoded.
Push(r) ==
  /\ state[r] = "new"
  /\ IsConnected /\ finishing # "alone"
  /\ PushRequest(r)
  /\ late' = IF finishing = "open" THEN late \cup {r} ELSE late
  /\ UNCHANGED <<throttled, interval, status, socketVars, undecoded, waiting,
                 finishing, closes>>

\* fulfillRequest; a response may come after the request timed out.
Fulfill(s, r) ==
  LET unanswered == [wire EXCEPT ![s] = Tail(@)] IN
  IF r \in inflight
    THEN /\ CheckPending(inflight \ {r}, unanswered, r :> "completed")
         /\ undecoded' = undecoded \cup {r}
    ELSE /\ CheckPending(inflight, unanswered, <<>>)
         /\ UNCHANGED undecoded

\* A broker answers the requests of a connection in order.
Response(s) ==
  /\ finishing = "no"
  /\ phase[s] = "open" /\ wire[s] # <<>>
  /\ Fulfill(s, Head(wire[s]))
  /\ EmitEmpty
  /\ UNCHANGED <<throttled, interval, status, socketVars, closes, late>>

\* The rest of send(): the response may ask for throttling.
Decode(r) ==
  /\ r \in undecoded
  /\ undecoded' = undecoded \ {r}
  /\ throttled' \in {throttled, TRUE}
  /\ UNCHANGED <<queueVars, checkTimer, interval, status, socketVars, wire,
                 waiting, finishing, closes, late>>

ThrottleEnds ==
  /\ throttled /\ throttled' = FALSE
  /\ UNCHANGED <<queueVars, checkTimer, interval, status, socketVars, wire,
                 undecoded, waiting, finishing, closes, late>>

CheckTimerFires ==
  /\ finishing = "no"
  /\ checkTimer
  /\ CheckPending(inflight, wire, <<>>)
  /\ EmitEmpty
  /\ UNCHANGED <<throttled, interval, status, socketVars, undecoded, closes, late>>

\* The interval finds r overdue.
TimeoutRequest(r) ==
  /\ finishing = "no" /\ interval
  /\ r \in inflight
  /\ CheckPending(inflight \ {r}, wire, r :> "rejected")
  /\ EmitEmpty
  /\ UNCHANGED <<throttled, interval, status, socketVars, undecoded, closes, late>>

RejectAll ==
  /\ state' = [r \in Requests |->
                 IF r \in inflight \cup ToSet(pending) THEN "rejected" ELSE state[r]]
  /\ inflight' = {} /\ pending' = <<>>

----------------------------------------------------------------------------
(* The connection.                                                         *)

\* connect(): ConnectionPool.getConnection calls it for every request that
\* finds the connection down.
Connect ==
  /\ ~IsConnected
  /\ socket < MaxSockets
  /\ Overlap \/ Connecting = {}
  /\ socket' = socket + 1
  /\ phase' = [phase EXCEPT ![socket + 1] = "connecting"]
  /\ UNCHANGED <<queueVars, timerVars, status, ended, wire, undecoded, waiting,
                 finishing, closes, late>>

\* scheduleRequestTimeoutCheck starts with destroy(), which clears the timer
\* of the pending requests too.
OnConnect(s) ==
  /\ finishing = "no"
  /\ s \in Connecting
  /\ phase' = [phase EXCEPT ![s] = "open"]
  /\ status' = "connected"
  /\ interval' = TRUE
  /\ checkTimer' = FALSE
  /\ UNCHANGED <<queueVars, throttled, ended, socket, wire, undecoded, waiting,
                 finishing, closes, late>>

\* disconnect() up to its await, when it goes on in the way `how` at once if the
\* queue is empty.
StartDisconnect(how) ==
  /\ status' = "disconnecting"
  /\ finishing' = IF QueueEmptied THEN how ELSE finishing
  /\ waiting' = ~QueueEmptied

OnEnd(s) ==
  /\ finishing = "no"
  /\ phase[s] = "open"
  /\ phase' = [phase EXCEPT ![s] = "closed"]
  /\ wire' = [wire EXCEPT ![s] = <<>>]
  /\ IF IsConnected THEN RejectAll ELSE UNCHANGED queueVars
  /\ StartDisconnect("alone")
  /\ UNCHANGED <<timerVars, ended, socket, undecoded, closes, late>>

\* A write to a closed socket fails with an event as well.
OnError(s) ==
  /\ finishing = "no"
  /\ \/ phase[s] \in {"connecting", "overdue", "open"}
     \/ phase[s] = "closed" /\ wire[s] # <<>>
  /\ phase' = [phase EXCEPT ![s] = "closed"]
  /\ wire' = [wire EXCEPT ![s] = <<>>]
  /\ RejectAll
  /\ StartDisconnect("alone")
  /\ UNCHANGED <<timerVars, ended, socket, undecoded, closes, late>>

\* The connection timeout; the socket goes on connecting.
OnTimeout(s) ==
  /\ finishing = "no"
  /\ phase[s] = "connecting"
  /\ phase' = [phase EXCEPT ![s] = "overdue"]
  /\ RejectAll
  /\ StartDisconnect("alone")
  /\ UNCHANGED <<timerVars, ended, socket, wire, undecoded, closes, late>>

\* disconnect() called from above, in the midst of other promise callbacks: a
\* send() that found the connection up may have its request encoded before
\* disconnect() goes on.  After a socket event or a timer nothing else is about
\* to run, and encoding takes longer than the await.
Disconnect ==
  /\ closes < MaxCloses
  /\ closes' = closes + 1
  /\ UNCHANGED queueVars
  /\ StartDisconnect(IF IsConnected /\ finishing # "alone" THEN "open" ELSE "alone")
  /\ UNCHANGED <<timerVars, socketVars, wire, undecoded, late>>

FinishDisconnect ==
  /\ finishing # "no"
  /\ finishing' = "no"
  /\ interval' = FALSE /\ checkTimer' = FALSE
  /\ ended' = IF socket = 0 THEN ended ELSE ended \cup {socket}
  /\ status' = "disconnected"
  /\ UNCHANGED <<queueVars, throttled, phase, socket, wire, undecoded, waiting,
                 closes, late>>

Next ==
  \/ \E r \in Requests : Push(r) \/ Decode(r) \/ TimeoutRequest(r)
  \/ \E s \in Sockets : Response(s) \/ OnConnect(s) \/ OnEnd(s) \/ OnError(s)
                        \/ OnTimeout(s)
  \/ ThrottleEnds
  \/ CheckTimerFires
  \/ Connect
  \/ Disconnect
  \/ FinishDisconnect

Spec == Init /\ [][Next]_vars

\* Timers fire and promise callbacks run.  Nothing makes a broker answer.
Fairness ==
  /\ \A r \in Requests : WF_vars(TimeoutRequest(r)) /\ WF_vars(Decode(r))
  /\ WF_vars(ThrottleEnds)
  /\ WF_vars(CheckTimerFires)
  /\ WF_vars(FinishDisconnect)

FairSpec == Spec /\ Fairness

----------------------------------------------------------------------------
(* Properties.                                                             *)

\* docs/Producing.md: at most maxInFlightRequests are in progress, whether they
\* were sent at once or from the queue, and whatever timed out in between.
InFlightBound == Cardinality(inflight) <= MaxInFlight

\* A request that was handed to the queue and has no outcome is in exactly one
\* of the two collections, so some event of the queue can still settle it.
NothingForgotten ==
  /\ {r \in Requests : state[r] = "sent"} = inflight
  /\ {r \in Requests : state[r] = "pending"} = ToSet(pending)
  /\ IsInjective(pending)

\* The promise of a request is settled once: neither a response after the
\* timeout nor the rejection of everything changes an outcome (the state check
\* in SocketRequest would throw in the middle of the queue's work).
SettledOnce ==
  [][\A r \in Requests : state[r] \in Settled => state'[r] = state[r]]_vars

\* A request in flight is watched by the timeout interval, however sockets come
\* and go.  What can break this is a request pushed between the moment
\* disconnect() found the queue empty and the moment it goes on, and nothing else.
InFlightWatched == inflight # {} /\ ~interval => late # {}

=============================================================================
