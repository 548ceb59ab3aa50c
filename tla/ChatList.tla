------------------------------ MODULE ChatList ------------------------------
(***************************************************************************)
(* The list of chats in the browser: pages fetched by offset, changes that *)
(* Pusher pushes, and handlers that compare a change with the list of the  *)
(* render they belong to.  apps/www components/chats/chat_sidebar/         *)
(* chat_list.tsx; the pages come from lib/server/api.ts, which caches      *)
(* them; react-query, Pusher and React are external.  Nothing is searched. *)
(***************************************************************************)
EXTENDS Integers, Sequences, FiniteSets, FiniteSetsExt, Functions

CONSTANTS
  Chats,
  PageSize,    \* chats of a page
  MaxPages,    \* bound on the pages loaded
  MaxMessages, \* bound on the messages that arrive
  None

ChatListAssumption ==
  PageSize \in Nat \ {0} /\ MaxPages \in Nat \ {0} /\ MaxMessages \in Nat /\ None \notin Chats

VARIABLES
  date,      \* of each chat's last message in the database, 0 for a chat not there yet
  messages,
  cache,     \* the server's copy of each page
  published, \* changes on their way to Pusher
  pages, updates, \* the state: fetched pages, and the changes on top
  view,      \* the state of the last render
  effectDue, \* its effect, which subscribes anew, has yet to run
  handlers,  \* the views of the handlers bound to the channel
  pending,   \* the channel's subscription is not confirmed yet
  listening, \* Pusher sends the channel's changes to this browser
  toPusher, toBrowser,
  fetch,     \* the request under way
  awaited,   \* changes the handler has left to a reload
  lost       \* changes that got lost

server == <<date, messages, cache>>
channel == <<handlers, pending, listening, toPusher, toBrowser>>
list == <<pages, updates, view, effectDue>>
vars == <<server, published, channel, list, fetch, awaited, lost>>

Changes == [chat : Chats, date : Nat]
Lists == SUBSET Changes
Confirmation == [chat |-> None, date |-> 0]
Idle == [of |-> "none", got |-> <<>>, answer |-> None]

TypeOK ==
  /\ date \in [Chats -> Nat] /\ messages \in 0..MaxMessages
  /\ cache \in [1..MaxPages -> Lists \cup {None}]
  /\ published \in Lists /\ awaited \in Lists /\ lost \in Lists
  /\ pages \in Seq(Lists) /\ updates \in Seq(Changes)
  /\ \A i, j \in DOMAIN updates : updates[i].chat = updates[j].chat => i = j
  /\ view \in [pages : Seq(Lists), updates : Seq(Changes)]
  /\ handlers \in Seq([pages : Seq(Lists), updates : Seq(Changes)])
  /\ {effectDue, pending, listening} \subseteq BOOLEAN
  /\ toPusher \in Seq({"subscribe", "unsubscribe"})
  /\ toBrowser \in Seq(Changes \cup {Confirmation})
  /\ fetch \in [of : {"none", "first", "next", "all"}, got : Seq(Lists),
                answer : Lists \cup {None}]

Entry(c, d) == [chat |-> c, date |-> d]
Now == {Entry(c, date[c]) : c \in Chats}

\* The chats of the page, latest first, by offset.
Page(k) ==
  LET Before(c) == {d \in Chats : date[d] > date[c]} IN
  {e \in Now : e.date > 0 /\ Cardinality(Before(e.chat)) \div PageSize = k - 1}

Init ==
  /\ date \in {f \in [Chats -> 0..Cardinality(Chats)] :
                 \A c, d \in Chats : f[c] = f[d] /\ f[c] # 0 => c = d}
  /\ messages = 0 /\ cache = [k \in 1..MaxPages |-> None] /\ published = {}
  /\ pages = <<>> /\ updates = <<>> /\ view = [pages |-> <<>>, updates |-> <<>>]
  /\ effectDue = TRUE /\ handlers = <<>> /\ pending = FALSE /\ listening = FALSE
  /\ toPusher = <<>> /\ toBrowser = <<>>
  /\ fetch = [Idle EXCEPT !.of = "first"] /\ awaited = {} /\ lost = {}

----------------------------------------------------------------------------
(* The server. *)

\* A message of the chat is stored; the consumer then publishes the chat.
Message(c) ==
  /\ messages < MaxMessages /\ messages' = messages + 1
  /\ date' = [date EXCEPT ![c] = Cardinality(Chats) + messages + 1]
  /\ published' = published \cup {Entry(c, date'[c])}
  /\ UNCHANGED <<cache, channel, list, fetch, awaited, lost>>

\* Pusher sends the change to whoever listens.
Publish ==
  \E e \in published :
    /\ published' = published \ {e}
    /\ IF listening THEN toBrowser' = Append(toBrowser, e) /\ UNCHANGED lost
                    ELSE lost' = lost \cup {e} /\ UNCHANGED toBrowser
    /\ UNCHANGED <<server, handlers, pending, listening, toPusher, list, fetch, awaited>>

\* Pusher takes a request of the browser.
Subscription ==
  /\ toPusher # <<>> /\ toPusher' = Tail(toPusher)
  /\ listening' = (Head(toPusher) = "subscribe")
  /\ toBrowser' = IF listening' THEN Append(toBrowser, Confirmation) ELSE toBrowser
  /\ UNCHANGED <<server, published, handlers, pending, list, fetch, awaited, lost>>

\* Every request is answered from the cache if it can be.
Answer ==
  LET k == Len(fetch.got) + 1
      page == IF cache[k] = None THEN Page(k) ELSE cache[k] IN
  /\ fetch.of # "none" /\ fetch.answer = None
  /\ fetch' = [fetch EXCEPT !.answer = page] /\ cache' = [cache EXCEPT ![k] = page]
  /\ lost' = lost \cup (IF page = Page(k) THEN {} ELSE Now)
  /\ UNCHANGED <<date, messages, published, channel, list, awaited>>

\* The copy has become too old and is made anew.
Refresh ==
  \E k \in 1..MaxPages :
    /\ cache[k] \notin {None, Page(k)} /\ cache' = [cache EXCEPT ![k] = Page(k)]
    /\ UNCHANGED <<date, messages, published, channel, list, fetch, awaited, lost>>

----------------------------------------------------------------------------
(* The browser. *)

Find(es, c) == SelectSeq(es, LAMBDA e : e.chat = c)
Without(es, c) == SelectSeq(es, LAMBDA e : e.chat # c)

\* The chats of a render: changes of chats on no page, and the pages with newer changes.
Shown(v) ==
  LET fetched == UNION Range(v.pages)
      changed == Range(v.updates) IN
  {e \in changed : \A f \in fetched : f.chat # e.chat}
    \cup {LET u == Find(v.updates, f.chat) IN
          IF u # <<>> /\ u[1].date > f.date THEN u[1] ELSE f : f \in fetched}

State == [pages |-> pages, updates |-> updates]

\* What the handler of a view does with a change.
Compared(v, e) ==
  LET update == Find(v.updates, e.chat)
      old == {f \in Shown(v) : f.chat = e.chat} IN
  CASE update # <<>> -> IF e.date < update[1].date THEN "old" ELSE "change"
    [] update = <<>> /\ old # {} -> IF \E f \in old : f.date > e.date THEN "old" ELSE "change"
    [] OTHER -> "reload"

Changed(v, e) == <<e>> \o Without(v.updates, e.chat)

\* Every handler bound gets the change; the last one to set the state wins.  A change of
\* a chat that is not shown invalidates the query, which is fetched again from its first
\* page; but a first fetch under way goes on.
HandleNewChatUpdate(e) ==
  LET Doing(what) == {i \in DOMAIN handlers : Compared(handlers[i], e) = what}
      setting == Doing("change")
      new == IF setting = {} THEN updates ELSE Changed(handlers[Max(setting)], e)
      reload == Doing("reload") # {}
      Gone == {u \in Range(updates) : /\ u.chat = e.chat => u.date > e.date
                                      /\ u \notin Range(new) /\ handlers[Max(setting)] # State}
      early == IF reload /\ pages = <<>> THEN {e} ELSE {} IN
  /\ updates' = new /\ lost' = lost \cup Gone \cup early
  /\ IF reload /\ pages # <<>>
       THEN fetch' = [Idle EXCEPT !.of = "all"] /\ awaited' = awaited \cup {e}
       ELSE UNCHANGED <<fetch, awaited>>

Receive ==
  /\ toBrowser # <<>> /\ toBrowser' = Tail(toBrowser)
  /\ IF Head(toBrowser) = Confirmation
       THEN pending' = FALSE /\ UNCHANGED <<updates, fetch, awaited, lost>>
       ELSE HandleNewChatUpdate(Head(toBrowser)) /\ UNCHANGED pending
  /\ UNCHANGED <<server, published, handlers, listening, toPusher, pages, view, effectDue>>

Render ==
  /\ view # State /\ ~effectDue
  /\ view' = State /\ effectDue' = TRUE
  /\ UNCHANGED <<server, published, channel, pages, updates, fetch, awaited, lost>>

\* The effect of a render unsubscribes and subscribes.  A channel whose subscription is
\* not confirmed yet is kept, with its handlers.
Effect ==
  /\ effectDue /\ effectDue' = FALSE
  /\ IF pending
       THEN handlers' = Append(handlers, view) /\ UNCHANGED <<pending, toPusher>>
       ELSE /\ handlers' = <<view>> /\ pending' = TRUE
            /\ toPusher' = toPusher \o (IF handlers = <<>> THEN <<"subscribe">>
                                        ELSE <<"unsubscribe", "subscribe">>)
  /\ UNCHANGED <<server, published, listening, toBrowser, pages, updates, view, fetch,
                 awaited, lost>>

\* The end of the list comes into view; a reload under way is given up.
FetchNextPage ==
  /\ pages # <<>> /\ Len(pages) < MaxPages /\ fetch.of # "next"
  /\ fetch' = [of |-> "next", got |-> pages, answer |-> None]
  /\ lost' = lost \cup awaited /\ awaited' = {}
  /\ UNCHANGED <<server, published, channel, list>>

\* A page arrives; a reload goes on until it has as many as there were.
Fetched ==
  LET got == Append(fetch.got, fetch.answer) IN
  /\ fetch.answer # None
  /\ IF fetch.of = "all" /\ Len(got) < Len(pages)
       THEN fetch' = [fetch EXCEPT !.got = got, !.answer = None] /\ UNCHANGED <<pages, awaited>>
       ELSE fetch' = Idle /\ pages' = got /\ awaited' = {}
  /\ UNCHANGED <<server, published, channel, updates, view, effectDue, lost>>

Next ==
  \/ \E c \in Chats : Message(c)
  \/ Publish \/ Subscription \/ Answer \/ Refresh
  \/ Receive \/ Render \/ Effect \/ FetchNextPage \/ Fetched

Spec == Init /\ [][Next]_vars

----------------------------------------------------------------------------
Settled ==
  /\ published = {} /\ toPusher = <<>> /\ toBrowser = <<>> /\ fetch = Idle
  /\ view = State /\ ~effectDue

\* When everything has come to rest, a chat is shown with the date of its last message,
\* unless that very change got lost: it was published while the browser was not
\* subscribed, came while the first page or a reload that was then given up was under
\* way, was overwritten by a handler of an earlier render, or the page is a cached one.
DatesExplained ==
  Settled => \A e \in Shown(view) : e.date = date[e.chat] \/ Entry(e.chat, date[e.chat]) \in lost

\* Then also every chat that belongs on the pages loaded is there, wherever it was when
\* they were fetched, unless its change got lost.
ChatsExplained ==
  Settled => \A k \in DOMAIN pages : \A e \in Page(k) :
               e \in lost \/ \E f \in Shown(view) : f.chat = e.chat

Dates(v, c) == {e.date : e \in {f \in Shown(v) : f.chat = c}}

\* The date shown for a chat goes back only when a change as late was lost.
BackExplained ==
  [][\A c \in Chats :
       LET shown == Dates(view, c) shown2 == Dates(view', c) IN
       shown # {} /\ shown2 # {} /\ Max(shown2) < Max(shown)
         => \E l \in lost : l.chat = c /\ l.date >= Max(shown)]_vars
=============================================================================
