----------------------------- MODULE SenderPool -----------------------------
(***************************************************************************)
(* The senders a Telegram client borrows for another data centre: one      *)
(* promise that everyone who needs the data centre awaits, a timer that    *)
(* disconnects the sender when it was not borrowed for a while, and the    *)
(* authorization that is exported to it.  packages/gramjs client/          *)
(* telegramBaseClient.ts, with connect() and disconnect() of network/      *)
(* MTProtoSender.ts; files are downloaded this way.                        *)
(***************************************************************************)
EXTENDS Integers, Sequences, FiniteSets

CONSTANTS
  Borrowers,
  MaxSenders,  \* bound on senders
  MaxPromises, \* bound on runs of _connectSender
  MaxConns,    \* bound on connections
  MaxFailures  \* bound on broken connections, connects given up and failed exports

PoolAssumption ==
  MaxSenders \in Nat /\ MaxConns \in Nat /\ MaxPromises \in Nat /\ MaxFailures \in Nat

VARIABLES
  slot,      \* the promise of the data centre, 0 if there is none
  promises,  \* runs of _connectSender
  senders,
  open,      \* connections with a socket
  conns, failures,
  timer,     \* the sender to be disconnected, 0 if none
  at,        \* where each borrower is
  cleaning,  \* the promise _cleanupExportedSender awaits, or "no"
  history    \* what has happened

vars == <<slot, promises, senders, open, conns, failures, timer, at, cleaning, history>>

Nothing == [on |-> "no", n |-> 0]
Happenings == {"doubled", "resurrected", "given up", "export failed", "cut off",
               "cleaned"}

TypeOK ==
  /\ slot \in 0..Len(promises)
  /\ promises \in Seq([sender : 1..Len(senders), conn : 0..MaxConns,
                       phase : {"start", "connect", "authorize", "failed", "done"}])
  /\ senders \in Seq([connected : BOOLEAN, connecting : BOOLEAN, conn : 0..MaxConns,
                      key : BOOLEAN, quit : BOOLEAN, authenticated : BOOLEAN, imported : BOOLEAN,
                      again : {"no", "wait", "connect"}, own : 0..MaxConns])
  /\ Len(senders) <= MaxSenders
  /\ open \subseteq 1..conns /\ conns \in 0..MaxConns /\ failures \in 0..MaxFailures
  /\ timer \in 0..Len(senders)
  /\ at \in [Borrowers -> [on : {"no", "promise", "sleep", "sender"}, n : Nat]]
  /\ cleaning \in [on : {"no", "promise"}, n : Nat] /\ history \subseteq Happenings

NewSender == [connected |-> FALSE, connecting |-> FALSE, conn |-> 0, key |-> FALSE, quit |-> FALSE,
              authenticated |-> FALSE, imported |-> FALSE, again |-> "no", own |-> 0]
Run(s) == [sender |-> s, conn |-> 0, phase |-> "start"]

Init ==
  /\ slot = 0 /\ promises = <<>> /\ senders = <<>> /\ open = {} /\ conns = 0 /\ failures = 0
  /\ timer = 0 /\ at = [b \in Borrowers |-> Nothing] /\ cleaning = Nothing /\ history = {}

----------------------------------------------------------------------------
(* Borrowing. *)

Waits(b, n) == at' = [at EXCEPT ![b] = [on |-> "promise", n |-> n]]

\* A new promise, for the sender.
NewPromise(b, s) ==
  /\ Len(promises) < MaxPromises
  /\ promises' = Append(promises, Run(s)) /\ slot' = Len(promises) + 1
  /\ Waits(b, Len(promises) + 1)

Borrow(b) ==
  /\ at[b] = Nothing
  /\ IF slot # 0 THEN Waits(b, slot) /\ UNCHANGED <<slot, promises, senders>>
     ELSE /\ Len(senders) < MaxSenders /\ senders' = Append(senders, NewSender)
          /\ NewPromise(b, Len(senders) + 1)
  /\ UNCHANGED <<open, conns, failures, timer, cleaning, history>>

\* The promise has its sender: one that is connected is used, for one that connects the
\* borrower sleeps, another is connected anew.
Resume(b) ==
  LET s == promises[at[b].n].sender IN
  /\ at[b].on = "promise" /\ promises[at[b].n].phase = "done"
  /\ CASE senders[s].connected ->
            /\ at' = [at EXCEPT ![b] = [on |-> "sender", n |-> s]] /\ timer' = s
            /\ UNCHANGED <<slot, promises>>
       [] ~senders[s].connected /\ senders[s].connecting ->
            /\ at' = [at EXCEPT ![b] = [on |-> "sleep", n |-> s]]
            /\ UNCHANGED <<slot, promises, timer>>
       [] OTHER -> NewPromise(b, s) /\ UNCHANGED timer
  /\ UNCHANGED <<senders, open, conns, failures, cleaning, history>>

WakeUp(b) ==
  /\ at[b].on = "sleep"
  /\ IF slot # 0 THEN Waits(b, slot) /\ UNCHANGED <<slot, promises>>
                 ELSE NewPromise(b, at[b].n)
  /\ UNCHANGED <<senders, open, conns, failures, timer, cleaning, history>>

Alive(s) == senders[s].connected /\ senders[s].conn \in open

\* The request sent with the sender is answered.
Answer(b) ==
  /\ at[b].on = "sender" /\ Alive(at[b].n)
  /\ at' = [at EXCEPT ![b] = Nothing]
  /\ UNCHANGED <<slot, promises, senders, open, conns, failures, timer, cleaning, history>>

----------------------------------------------------------------------------
(* Connecting: the steps of the promise n. *)

\* After connect() a sender that is not authenticated gets the authorization first; the
\* others are handed out, and from then on connect again by themselves.
Ready(s) == [s EXCEPT !.quit = ~s.authenticated /\ @]
After(n, s) == [promises EXCEPT ![n].phase = IF s.authenticated THEN "done" ELSE "authorize"]

\* sender.connect() with a connection of its own; a connected sender stays as it is.
Connect(n) ==
  LET s == promises[n].sender IN
  /\ promises[n].phase = "start"
  /\ IF senders[s].connected
       THEN /\ promises' = After(n, senders[s]) /\ senders' = [senders EXCEPT ![s].quit = FALSE]
            /\ UNCHANGED <<conns, history>>
       ELSE /\ conns < MaxConns /\ conns' = conns + 1
            /\ promises' = [promises EXCEPT ![n].phase = "connect", ![n].conn = conns + 1]
            /\ senders' = [senders EXCEPT ![s].connecting = TRUE, ![s].conn = conns + 1,
                                         ![s].quit = FALSE]
            /\ history' = history \cup (IF senders[s].connecting THEN {"doubled"} ELSE {})
  /\ UNCHANGED <<slot, open, failures, timer, at, cleaning>>

\* A sender with a key counts as authenticated; one without makes a key first.
Up(s) == [s EXCEPT !.connected = TRUE, !.connecting = FALSE, !.key = TRUE,
                   !.authenticated = @ \/ s.key]

Connected(n) ==
  LET s == promises[n].sender IN
  /\ promises[n].phase = "connect" /\ open' = open \cup {promises[n].conn}
  /\ senders' = [senders EXCEPT ![s] = Ready(Up(@))]
  /\ promises' = After(n, Up(senders[s]))
  /\ UNCHANGED <<slot, conns, failures, timer, at, cleaning, history>>

\* All retries have failed; connect() returns false, which nobody looks at.
GiveUp(n) ==
  LET s == promises[n].sender IN
  /\ promises[n].phase = "connect" /\ failures < MaxFailures /\ failures' = failures + 1
  /\ senders' = [senders EXCEPT ![s] = Ready([@ EXCEPT !.connecting = FALSE])]
  /\ promises' = After(n, senders[s])
  /\ history' = history \cup {"given up"}
  /\ UNCHANGED <<slot, open, conns, timer, at, cleaning>>

\* The authorization is exported, and imported as soon as the sender is connected.
Authorize(n) ==
  LET s == promises[n].sender IN
  /\ promises[n].phase = "authorize" /\ promises' = [promises EXCEPT ![n].phase = "done"]
  /\ Alive(s)
  /\ senders' = [senders EXCEPT ![s].authenticated = TRUE, ![s].imported = TRUE,
                                ![s].quit = FALSE]
  /\ UNCHANGED <<slot, open, conns, failures, timer, at, cleaning, history>>

\* It fails: after a second the sender is disconnected and the loop goes round.
ExportFails(n) ==
  /\ promises[n].phase = "authorize"
  /\ failures < MaxFailures /\ failures' = failures + 1
  /\ promises' = [promises EXCEPT ![n].phase = "failed"]
  /\ history' = history \cup {"export failed"}
  /\ UNCHANGED <<slot, senders, open, conns, timer, at, cleaning>>

\* disconnect(): the current connection is closed, if connect() was ever called.
Down(s) ==
  /\ open' = open \ {senders[s].conn}
  /\ senders' = [senders EXCEPT ![s].connected = FALSE, ![s].quit = TRUE]

CutOff(s) == IF \E b \in Borrowers : at[b] = [on |-> "sender", n |-> s] THEN {"cut off"} ELSE {}

GoRound(n) ==
  /\ promises[n].phase = "failed" /\ promises' = [promises EXCEPT ![n].phase = "start"]
  /\ Down(promises[n].sender)
  /\ UNCHANGED <<slot, conns, failures, timer, at, cleaning, history>>

----------------------------------------------------------------------------
(* The timer, broken connections and broken keys. *)

Release ==
  LET s == timer IN
  /\ s # 0 /\ timer' = 0 /\ Down(s)
  /\ history' = history
       \cup CutOff(s)
       \cup (IF senders[s].again # "no" \/ senders[s].connecting THEN {"resurrected"} ELSE {})
  /\ UNCHANGED <<slot, promises, conns, failures, at, cleaning>>

Break ==
  \E c \in open :
    /\ failures < MaxFailures /\ failures' = failures + 1 /\ open' = open \ {c}
    /\ UNCHANGED <<slot, promises, senders, conns, timer, at, cleaning, history>>

\* The receiving loop finds the connection gone.
Reconnect(s) ==
  /\ senders[s].connected /\ ~senders[s].quit /\ senders[s].conn \notin open /\ senders[s].again = "no"
  /\ senders' = [senders EXCEPT ![s].again = "wait"]
  /\ UNCHANGED <<slot, promises, open, conns, failures, timer, at, cleaning, history>>

\* A second later; whatever has happened to the sender since.
ConnectAgain(s) ==
  /\ senders[s].again = "wait" /\ conns < MaxConns /\ conns' = conns + 1
  /\ open' = open \ {senders[s].conn}
  /\ senders' = [senders EXCEPT ![s].again = "connect", ![s].connected = FALSE,
                                ![s].connecting = TRUE, ![s].conn = conns + 1,
                                ![s].own = conns + 1, ![s].quit = FALSE]
  /\ history' = history \cup (IF senders[s].connecting THEN {"doubled"} ELSE {})
  /\ UNCHANGED <<slot, promises, failures, timer, at, cleaning>>

ConnectedAgain(s) ==
  /\ senders[s].again = "connect"
  /\ open' = open \cup {senders[s].own}
  /\ senders' = [senders EXCEPT ![s] = [Up(@) EXCEPT !.again = "no", !.own = 0]]
  /\ UNCHANGED <<slot, promises, conns, failures, timer, at, cleaning, history>>

\* A broken key: the promise is awaited, then whatever promise there is by then goes.
BreakKey ==
  /\ cleaning = Nothing /\ slot # 0 /\ failures < MaxFailures /\ failures' = failures + 1
  /\ Alive(promises[slot].sender)
  /\ cleaning' = [on |-> "promise", n |-> slot]
  /\ UNCHANGED <<slot, promises, senders, open, conns, timer, at, history>>

Cleanup ==
  /\ cleaning # Nothing /\ promises[cleaning.n].phase = "done"
  /\ cleaning' = Nothing /\ slot' = 0 /\ Down(promises[cleaning.n].sender)
  /\ history' = history \cup {"cleaned"} \cup CutOff(promises[cleaning.n].sender)
  /\ UNCHANGED <<promises, conns, failures, timer, at>>

Next ==
  \/ \E b \in Borrowers : Borrow(b) \/ Resume(b) \/ WakeUp(b) \/ Answer(b)
  \/ \E n \in DOMAIN promises :
       Connect(n) \/ Connected(n) \/ GiveUp(n) \/ Authorize(n) \/ ExportFails(n) \/ GoRound(n)
  \/ \E s \in DOMAIN senders : Reconnect(s) \/ ConnectAgain(s) \/ ConnectedAgain(s)
  \/ Release \/ Break \/ BreakKey \/ Cleanup

Spec == Init /\ [][Next]_vars

\* Answers, steps of connecting and timers come; failures and new requests need not.
FairSpec ==
  /\ Spec
  /\ \A b \in Borrowers : WF_vars(Resume(b)) /\ WF_vars(WakeUp(b)) /\ WF_vars(Answer(b))
  /\ \A n \in 1..MaxPromises :
       WF_vars(n \in DOMAIN promises /\ (Connect(n) \/ Connected(n) \/ Authorize(n) \/ GoRound(n)))
  /\ \A s \in 1..MaxSenders :
       WF_vars(s \in DOMAIN senders /\ (Reconnect(s) \/ ConnectAgain(s) \/ ConnectedAgain(s)))
  /\ WF_vars(Release) /\ WF_vars(Cleanup)

----------------------------------------------------------------------------
\* A borrower only gets a sender that has imported the authorization, unless an export
\* failed: the second time round the sender has a key, and counts as authenticated.
ImportedExplained ==
  \A b \in Borrowers : at[b].on = "sender"
    => senders[at[b].n].imported \/ "export failed" \in history

\* When nobody waits and no timer is left, no connection is open, unless two connects of
\* a sender crossed, or a sender was released while it was connecting again.
NothingLeftOpen ==
  (/\ \A b \in Borrowers : at[b] = Nothing
   /\ \A n \in DOMAIN promises : promises[n].phase = "done"
   /\ \A s \in DOMAIN senders : senders[s].again = "no"
   /\ timer = 0)
     => open = {} \/ {"doubled", "resurrected", "cleaned"} \cap history # {}

\* A connection that is open is the current one of its sender, unless two connects crossed.
CurrentIsOpen ==
  \A c \in open : "doubled" \in history \/ \E s \in DOMAIN senders : senders[s].conn = c

\* Whoever needs the data centre gets an answer, unless a sender was released in use or its
\* connect given up.
Served ==
  \A b \in Borrowers :
    at[b].on # "no" ~> (at[b].on = "no" \/ conns = MaxConns \/ Len(promises) = MaxPromises
                         \/ {"given up", "cut off"} \cap history # {})
=============================================================================
