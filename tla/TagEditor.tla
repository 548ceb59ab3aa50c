------------------------------ MODULE TagEditor ------------------------------
(***************************************************************************)
(* The tags of one chat, user or message: the database, the server's cache *)
(* of them (unstable_cache and revalidateTag in lib/server/api.ts) and the *)
(* editors open in browsers (new_tag.tsx, a react-query mutation with an   *)
(* optimistic update).                                                     *)
(***************************************************************************)
EXTENDS Naturals, Sequences

CONSTANTS
  Clients, Tags,
  MaxEdits,   \* bound on clicks
  MaxFailures \* bound on requests and answers that are lost and writes that fail

EditorAssumption == MaxEdits \in Nat /\ MaxFailures \in Nat

VARIABLES
  db,       \* the tags linked to the entity
  cache,    \* the server's entry for them: a set of at most one value
  view,     \* per client the tags shown: as the server listed them, and added optimistically
  edits,    \* the mutations, what client and server have done of each
  reads,    \* the fetches of the linked tags
  fetch,    \* per client the fetch whose answer it waits for, or 0
  failures

vars == <<db, cache, view, edits, reads, fetch, failures>>

\* lapped: while the tags were read for this value, a write had revalidated and
\* not yet committed, or revalidated.
Values == [tags : SUBSET Tags, lapped : BOOLEAN]

Unread == [tags |-> {}, lapped |-> FALSE]

Views == [tags : SUBSET Tags, added : SUBSET Tags]

EditRecords == [client : Clients, tag : Tags, selected : BOOLEAN, previous : Views,
                waiting : BOOLEAN, alone : BOOLEAN,
                server : SUBSET {"revalidated", "written", "failed"}]

ReadRecords == [client : Clients, value : Values,
                phase : {"sent", "computing", "answered", "done"}]

TypeOK ==
  /\ db \subseteq Tags /\ cache \subseteq Values /\ \A x, y \in cache : x = y
  /\ view \in [Clients -> Views] /\ fetch \in [Clients -> 0..Len(reads)]
  /\ edits \in Seq(EditRecords) /\ reads \in Seq(ReadRecords)
  /\ Len(edits) <= MaxEdits /\ Len(reads) <= MaxEdits
  /\ failures \in 0..MaxFailures

Init ==
  /\ db \in SUBSET Tags
  /\ cache \in {{}, {[tags |-> db, lapped |-> FALSE]}}
  /\ view = [c \in Clients |-> [tags |-> db, added |-> {}]]
  /\ edits = <<>> /\ reads = <<>> /\ fetch = [c \in Clients |-> 0]
  /\ failures = 0

\* The cache is in Redis and revalidateTag() is not awaited before the write; the answer
\* ends after both.
Finished(m) == {"revalidated", "written"} \subseteq edits[m].server

InServer(m) == ~Finished(m) /\ "failed" \notin edits[m].server

Fails == failures < MaxFailures /\ failures' = failures + 1

----------------------------------------------------------------------------
(* The editor.                                                             *)

\* The tag is chosen by its id, which an entry added optimistically does not have: such
\* a tag is not shown as selected, and is not filtered out.
Click(c, t) ==
  LET selected == t \notin view[c].tags IN
  /\ Len(edits) < MaxEdits
  /\ fetch' = [fetch EXCEPT ![c] = 0]
  /\ view' = [view EXCEPT ![c] = IF selected THEN [@ EXCEPT !.added = @ \cup {t}]
                                             ELSE [@ EXCEPT !.tags = @ \ {t}]]
  /\ edits' = Append([m \in DOMAIN edits |->
                        IF edits[m].client = c THEN [edits[m] EXCEPT !.alone = FALSE]
                                               ELSE edits[m]],
                     [client |-> c, tag |-> t, selected |-> selected, previous |-> view[c],
                      waiting |-> TRUE, server |-> {},
                      alone |-> \A m \in DOMAIN edits :
                                  edits[m].client = c => ~edits[m].waiting])
  /\ UNCHANGED <<db, cache, reads, failures>>

\* invalidateQueries: the linked tags are fetched anew, and the answer to an earlier
\* fetch is ignored.
Refetch(c) ==
  /\ reads' = Append(reads, [client |-> c, value |-> Unread, phase |-> "sent"])
  /\ fetch' = [fetch EXCEPT ![c] = Len(reads')]

\* A mutation succeeds at its client.
Settle(m) ==
  /\ edits[m].waiting /\ Finished(m)
  /\ edits' = [edits EXCEPT ![m].waiting = FALSE]
  /\ Refetch(edits[m].client)
  /\ UNCHANGED <<db, cache, view, failures>>

\* onError and onSettled: the view goes back to what it was before the click.
SettleError(m) ==
  /\ edits[m].waiting
  /\ IF "failed" \in edits[m].server THEN UNCHANGED failures ELSE Fails
  /\ edits' = [edits EXCEPT ![m].waiting = FALSE]
  /\ view' = [view EXCEPT ![edits[m].client] = edits[m].previous]
  /\ Refetch(edits[m].client)
  /\ UNCHANGED <<db, cache>>

Deliver(r) ==
  LET c == reads[r].client IN
  /\ reads[r].phase = "answered"
  /\ reads' = [reads EXCEPT ![r].phase = "done", ![r].value = Unread]
  /\ IF fetch[c] = r
     THEN /\ fetch' = [fetch EXCEPT ![c] = 0]
          /\ view' = [view EXCEPT ![c] = [tags |-> reads[r].value.tags, added |-> {}]]
     ELSE UNCHANGED <<fetch, view>>
  /\ UNCHANGED <<db, cache, edits, failures>>

\* A request or its answer is lost; the fetch is repeated.
Retry(r) ==
  /\ reads[r].phase \in {"sent", "answered"} /\ fetch[reads[r].client] = r /\ Fails
  /\ reads' = [reads EXCEPT ![r].phase = "sent"]
  /\ UNCHANGED <<db, cache, view, edits, fetch>>

----------------------------------------------------------------------------
(* The server.                                                             *)

\* The tags of the entity are revalidated.
Revalidate(m) ==
  /\ InServer(m) /\ "revalidated" \notin edits[m].server
  /\ edits' = [edits EXCEPT ![m].server = @ \cup {"revalidated"}]
  /\ cache' = {}
  /\ reads' = [r \in DOMAIN reads |->
                 IF reads[r].phase = "computing"
                 THEN [reads[r] EXCEPT !.value.lapped = TRUE] ELSE reads[r]]
  /\ UNCHANGED <<db, view, fetch, failures>>

\* The row is inserted (or was there) or deleted (or was not).
Write(m) ==
  /\ InServer(m) /\ "written" \notin edits[m].server
  /\ edits' = [edits EXCEPT ![m].server = @ \cup {"written"}]
  /\ db' = IF edits[m].selected THEN db \cup {edits[m].tag} ELSE db \ {edits[m].tag}
  /\ UNCHANGED <<cache, view, reads, fetch, failures>>

\* The request does not arrive, or the write fails.
EditFails(m) ==
  /\ InServer(m) /\ "written" \notin edits[m].server /\ Fails
  /\ edits' = [edits EXCEPT ![m].server = @ \cup {"failed"}]
  /\ UNCHANGED <<db, cache, view, reads, fetch>>

\* From the cache, or with a query.
ReadStart(r) ==
  /\ reads[r].phase = "sent"
  /\ \/ \E v \in cache :
          reads' = [reads EXCEPT ![r].value = v, ![r].phase = "answered"]
     \/ /\ cache = {}
        /\ reads' = [reads EXCEPT ![r].phase = "computing",
             ![r].value = [tags |-> db,
                           lapped |-> \E m \in DOMAIN edits :
                             InServer(m) /\ "revalidated" \in edits[m].server]]
  /\ UNCHANGED <<db, cache, view, edits, fetch, failures>>

\* The answer is cached without expiry, whatever has been revalidated in the meantime.
ReadEnd(r) ==
  /\ reads[r].phase = "computing"
  /\ reads' = [reads EXCEPT ![r].phase = "answered"]
  /\ cache' = {reads[r].value}
  /\ UNCHANGED <<db, view, edits, fetch, failures>>

----------------------------------------------------------------------------
Next ==
  \/ \E c \in Clients, t \in Tags : Click(c, t)
  \/ \E m \in DOMAIN edits :
       Settle(m) \/ SettleError(m) \/ Revalidate(m) \/ Write(m) \/ EditFails(m)
  \/ \E r \in DOMAIN reads : Deliver(r) \/ Retry(r) \/ ReadStart(r) \/ ReadEnd(r)

Spec == Init /\ [][Next]_vars

----------------------------------------------------------------------------
\* The cache holds old tags only if they were read while a write was on its way; so a
\* write that has ended and that nobody reads along with is seen by every later reader.
CacheExplained == \A v \in cache :
  v.tags = db \/ v.lapped \/ \E m \in DOMAIN edits : InServer(m)

\* While a client waits for one change only, and had none on its way when it was made,
\* the change stays on the screen: no answer to an earlier fetch takes it away.
StaysShown ==
  \A m \in DOMAIN edits :
    edits[m].waiting /\ edits[m].alone =>
      LET shown == view[edits[m].client] IN
      IF edits[m].selected THEN edits[m].tag \in shown.added
                           ELSE edits[m].tag \notin shown.tags
=============================================================================
