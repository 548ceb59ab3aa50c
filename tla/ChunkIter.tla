------------------------------ MODULE ChunkIter ------------------------------
(***************************************************************************)
(* What apps/history needs from iterMessages(client, chat, {reverse: true, *)
(* offsetId}): the messages of a Telegram chat that are newer than an      *)
(* offset, oldest first, fetched a chunk at a time while the chat changes. *)
(*                                                                         *)
(* HistoryExport runs this iterator in its for-await loop; MessagesIter is *)
(* the detailed pager and is shown to implement it.                        *)
(***************************************************************************)
EXTENDS Naturals, FiniteSets

CONSTANTS
  MsgIds,     \* the message ids the chat may ever use
  ChunkSize   \* messages per request (_MAX_CHUNK_SIZE, 100 in the code)

ASSUME MsgIdsAssumption == MsgIds \subseteq Nat \ {0} /\ IsFiniteSet(MsgIds)
ASSUME ChunkSizeAssumption == ChunkSize \in Nat \ {0}

VARIABLES
  chat,       \* ids of the messages the chat now holds
  topId,      \* the highest id the chat has ever assigned
  cursor,     \* id of the last message yielded, or the offset before the first
  chunk,      \* messages fetched and not yet yielded
  exhausted   \* the last request returned fewer messages than it asked for

chatVars == <<chat, topId>>
iterVars == <<cursor, chunk, exhausted>>
iterSpecVars == <<chat, topId, cursor, chunk, exhausted>>

IterTypeOK ==
  /\ chat \subseteq MsgIds
  /\ topId \in Nat
  /\ cursor \in Nat
  /\ chunk \subseteq MsgIds
  /\ exhausted \in BOOLEAN

----------------------------------------------------------------------------
(* The chat, which Telegram changes under the running iterator.            *)

\* Ids are assigned in increasing order and never reused.
NewMessage ==
  \E m \in MsgIds :
    /\ m > topId
    /\ topId' = m
    /\ chat' = chat \cup {m}

DeleteMessage ==
  /\ \E m \in chat : chat' = chat \ {m}
  /\ UNCHANGED topId

----------------------------------------------------------------------------
(* The iterator.                                                           *)

\* The first `ChunkSize` members of S in ascending order, or all of S.
IsFirstChunk(c, S) ==
  /\ c \subseteq S
  /\ \A m \in c, x \in S : x < m => x \in c
  /\ Cardinality(c) <= ChunkSize
  /\ Cardinality(c) < ChunkSize => c = S

Open(offset) ==
  /\ cursor' = offset
  /\ chunk' = {}
  /\ exhausted' = FALSE

\* One messages.GetHistory request: everything newer than the cursor.
LoadChunk ==
  /\ chunk = {}
  /\ ~exhausted
  /\ \E c \in SUBSET {m \in chat : m > cursor} :
       /\ IsFirstChunk(c, {m \in chat : m > cursor})
       /\ chunk' = c
       /\ exhausted' = (Cardinality(c) < ChunkSize)
  /\ UNCHANGED cursor

IsNext(m) == m \in chunk /\ \A x \in chunk : m <= x

Yield(m) ==
  /\ IsNext(m)
  /\ chunk' = chunk \ {m}
  /\ cursor' = m
  /\ UNCHANGED exhausted

IterDone == exhausted /\ chunk = {}

----------------------------------------------------------------------------
(* The iterator on its own, as the specification a pager implements.       *)

IterInit ==
  /\ chat \in SUBSET MsgIds
  /\ topId \in MsgIds \cup {0}
  /\ \A m \in chat : m <= topId
  /\ cursor \in MsgIds \cup {0}
  /\ chunk = {}
  /\ exhausted = FALSE

IterNext ==
  \/ NewMessage /\ UNCHANGED iterVars
  \/ DeleteMessage /\ UNCHANGED iterVars
  \/ LoadChunk /\ UNCHANGED chatVars
  \/ \E m \in MsgIds : Yield(m) /\ UNCHANGED chatVars

IterSpec == IterInit /\ [][IterNext]_iterSpecVars
=============================================================================
