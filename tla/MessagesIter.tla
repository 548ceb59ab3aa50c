----------------------------- MODULE MessagesIter -----------------------------
(***************************************************************************)
(* apps/history/src/messagesClass.ts on top of gramjs/requestIter.ts: the  *)
(* pager behind iterMessages and getMessages, for the messages.GetHistory  *)
(* request (no search, filter, sender, reply or date), in either           *)
(* direction, while the chat changes.                                      *)
(***************************************************************************)
EXTENDS Integers, Sequences, FiniteSets

CONSTANTS
  MsgIds,          \* the message ids the chat may ever use
  ChunkSize,       \* _MAX_CHUNK_SIZE (100)
  MaxSafeInteger,  \* stands for "no bound": above every id and every count
  Params           \* the arguments of iterMessages, as records

ASSUME MsgIdsAssumption == MsgIds \subseteq Nat \ {0} /\ IsFiniteSet(MsgIds)
ASSUME ChunkSizeAssumption == ChunkSize \in Nat \ {0}
ASSUME MaxSafeIntegerAssumption ==
  /\ MaxSafeInteger \in Nat
  /\ \A m \in MsgIds : m < MaxSafeInteger
  /\ Cardinality(MsgIds) + ChunkSize < MaxSafeInteger

\* An id of 0 and a limit of 0 are what the code takes for "not given".
ASSUME ParamsAssumption ==
  Params \subseteq [reverse : BOOLEAN, limit : Int, offsetId : Nat,
                    minId : Nat, maxId : Nat]

VARIABLES
  chat, topId,      \* the chat, as in ChunkIter
  params,           \* the arguments of this iteration
  phase,            \* "new", "open", "done", or "failed" (next() threw)
  offsetId,         \* request.offsetId
  lastId,           \* id of the last message put into the buffer
  maxId,            \* this.maxId
  left,             \* messages still to be yielded
  buffer,           \* messages fetched and not yet yielded
  yielded,          \* history: what the caller was given
  stable            \* history: in the chat from the start until now

vars == <<chat, topId, params, phase, offsetId, lastId, maxId, left, buffer,
          yielded, stable>>

reverse == params.reverse
minId == params.minId

Larger(a, b) == IF a >= b THEN a ELSE b
Smaller(a, b) == IF a <= b THEN a ELSE b

TypeOK ==
  /\ chat \subseteq MsgIds /\ topId \in Nat
  /\ params \in Params
  /\ phase \in {"new", "open", "done", "failed"}
  /\ offsetId \in Nat /\ lastId \in Nat /\ maxId \in Nat
  /\ left \in Nat
  /\ buffer \subseteq MsgIds
  /\ yielded \in Seq(MsgIds)
  /\ stable \subseteq MsgIds

\* The constructor.
Limit == IF params.limit = 0 THEN MaxSafeInteger ELSE Larger(params.limit, 0)

Init ==
  /\ chat \in SUBSET MsgIds
  /\ topId \in MsgIds \cup {0}
  /\ \A m \in chat : m <= topId
  /\ params \in Params
  /\ phase = "new"
  /\ offsetId = 0 /\ lastId = 0 /\ maxId = 0
  /\ left = Limit
  /\ buffer = {} /\ yielded = <<>>
  /\ stable = chat

----------------------------------------------------------------------------
(* _init.                                                                  *)

\* The end to start from, in the direction of the iteration.
StartOffset == IF reverse THEN Larger(params.offsetId, minId)
                          ELSE Larger(params.offsetId, params.maxId)

\* No id lies strictly between the bounds.
NothingBetween ==
  IF reverse
    THEN StartOffset # 0 /\ params.maxId # 0 /\ params.maxId - StartOffset <= 1
    ELSE StartOffset # 0 /\ minId # 0 /\ StartOffset - minId <= 1

\* _init gives up before it makes the request; next() does not look at the
\* `false` it returns, and _loadNextChunk throws "Request not set yet".
InitGivesUp ==
  /\ phase = "new"
  /\ NothingBetween
  /\ phase' = IF left <= 0 THEN "done" ELSE "failed"
  /\ UNCHANGED <<chat, topId, params, offsetId, lastId, maxId, left, buffer,
                 yielded, stable>>

\* A limit below zero only asks for the total: nothing is left to yield.
InitTotal ==
  /\ phase = "new"
  /\ ~NothingBetween
  /\ left <= 0
  /\ phase' = "done"
  /\ UNCHANGED <<chat, topId, params, offsetId, lastId, maxId, left, buffer,
                 yielded, stable>>

InitRequest ==
  /\ phase = "new"
  /\ ~NothingBetween
  /\ left > 0
  /\ phase' = "open"
  /\ offsetId' = IF reverse THEN StartOffset + 1 ELSE StartOffset
  /\ maxId' = IF reverse /\ params.maxId = 0 THEN MaxSafeInteger
                                             ELSE params.maxId
  /\ lastId' = IF reverse THEN 0 ELSE MaxSafeInteger
  /\ UNCHANGED <<chat, topId, params, left, buffer, yielded, stable>>

----------------------------------------------------------------------------
(* _loadNextChunk.                                                         *)

\* The answer of the server: with the chat sorted newest first, the `limit`
\* messages that start `addOffset` places after the ids from offsetId up.
GetHistory(offset, addOffset, limit) ==
  LET newer(m) == Cardinality({x \in chat : x > m})
      first == addOffset + IF offset = 0 THEN 0
                           ELSE Cardinality({x \in chat : x >= offset})
  IN {m \in chat : first <= newer(m) /\ newer(m) < first + limit}

\* Mutant: the bounds are inclusive.
InRangeInclusive(m) ==
  IF reverse THEN m > lastId /\ m <= maxId
             ELSE m < lastId /\ m >= minId

\* _messageInRange
InRange(m) ==
  IF reverse THEN m > lastId /\ m < maxId
             ELSE m < lastId /\ m > minId

\* x comes no later than m.
UpTo(x, m) == IF reverse THEN x <= m ELSE x >= m

IsFirst(m, S) == m \in S /\ \A x \in S : UpTo(m, x)
IsLast(m, S) == m \in S /\ \A x \in S : UpTo(x, m)

\* Mutant: the offset of a request is taken to be exclusive in both directions.
OffsetAtLast(last) == last

\* _updateOffset
OffsetAfter(last) == IF reverse THEN last + 1 ELSE last

\* Mutant: the addOffset of _init is kept for a last, smaller request.
FullAddOffset(n) == IF reverse THEN -ChunkSize ELSE 0

\* addOffset moves the window to the newer side of the offset.
AddOffset(n) == IF reverse THEN -n ELSE 0

\* After the last chunk only the buffer is left.
LeftAfter(kept, over) == IF over THEN Cardinality(kept) ELSE left

LoadNextChunk ==
  /\ phase = "open"
  /\ left > 0 /\ buffer = {}
  /\ LET limit == Smaller(left, ChunkSize)
         answer == GetHistory(offsetId, AddOffset(limit), limit)
         kept == {m \in answer : \A x \in answer : UpTo(x, m) => InRange(x)}
         over == kept # answer \/ Cardinality(answer) < limit
     IN /\ buffer' = kept
        /\ left' = LeftAfter(kept, over)
        /\ phase' = IF kept = {} THEN "done" ELSE "open"
        /\ IF kept = {} THEN UNCHANGED lastId
                        ELSE \E m \in kept : IsLast(m, kept) /\ lastId' = m
        /\ offsetId' = IF over THEN offsetId ELSE OffsetAfter(lastId')
  /\ UNCHANGED <<chat, topId, params, maxId, yielded, stable>>

----------------------------------------------------------------------------
(* next.                                                                   *)

\* Mutant: takes the messages from the far end of the buffer.
TakesLast(m) == IsLast(m, buffer)

TakesNext(m) == IsFirst(m, buffer)

OneLess == left - 1

Yield ==
  /\ phase = "open"
  /\ left > 0
  /\ \E m \in buffer :
       /\ TakesNext(m)
       /\ buffer' = buffer \ {m}
       /\ yielded' = Append(yielded, m)
  /\ left' = OneLess
  /\ UNCHANGED <<chat, topId, params, phase, offsetId, lastId, maxId, stable>>

Finish ==
  /\ phase = "open"
  /\ left <= 0
  /\ phase' = "done"
  /\ UNCHANGED <<chat, topId, params, offsetId, lastId, maxId, left, buffer,
                 yielded, stable>>

----------------------------------------------------------------------------

Unfinished == phase \in {"new", "open"}

NewMessage ==
  /\ Unfinished
  /\ \E m \in MsgIds : m > topId /\ topId' = m /\ chat' = chat \cup {m}
  /\ UNCHANGED <<params, phase, offsetId, lastId, maxId, left, buffer,
                 yielded, stable>>

DeleteMessage ==
  /\ Unfinished
  /\ \E m \in chat : chat' = chat \ {m} /\ stable' = stable \ {m}
  /\ UNCHANGED <<topId, params, phase, offsetId, lastId, maxId, left, buffer,
                 yielded>>

Next ==
  \/ InitGivesUp
  \/ InitTotal
  \/ InitRequest
  \/ LoadNextChunk
  \/ Yield
  \/ Finish
  \/ NewMessage
  \/ DeleteMessage

Spec == Init /\ [][Next]_vars

----------------------------------------------------------------------------
(* Properties.                                                             *)

Yielded == {yielded[i] : i \in DOMAIN yielded}

\* What the arguments select, with the starting offset _init computes.
Selected(m) ==
  IF reverse THEN m > StartOffset /\ (params.maxId # 0 => m < params.maxId)
             ELSE (StartOffset # 0 => m < StartOffset) /\ m > minId

\* Messages come in the direction asked for and none comes twice, whatever is
\* sent or deleted between two requests.
InOrder ==
  \A i, j \in DOMAIN yielded :
    i < j => UpTo(yielded[i], yielded[j]) /\ yielded[i] # yielded[j]

\* Only selected messages are yielded, never more than the limit.
WithinBounds ==
  /\ \A m \in Yielded : Selected(m)
  /\ Len(yielded) <= Limit

\* Nothing is passed over: a selected message that stayed in the chat was
\* yielded if a later one was, and, unless the limit was reached, by the end.
NothingSkipped ==
  \A m \in stable :
    /\ Selected(m)
    /\ \/ \E y \in Yielded : UpTo(m, y)
       \/ phase = "done" /\ Len(yielded) < Limit
    => m \in Yielded

\* The documented meaning of offsetId without `reverse` ("only messages
\* previous to the given ID will be retrieved. Exclusive", messagesClass.ts:400).
OffsetIsExclusive ==
  ~reverse /\ params.offsetId # 0 => \A m \in Yielded : m < params.offsetId

\* The export job's use: oldest first, no limit, no upper bound, from a message
\* of the chat or from the start.
Exporting ==
  /\ params.reverse /\ params.limit = 0 /\ params.maxId = 0
  /\ StartOffset \in MsgIds \cup {0}

\* Where ChunkIter's cursor is: the last message yielded, or the start.
Cursor == IF yielded = <<>> THEN StartOffset ELSE yielded[Len(yielded)]

Iter == INSTANCE ChunkIter WITH cursor <- Cursor, chunk <- buffer,
                                exhausted <- left = Cardinality(buffer)

\* In the export job's use the pager is the iterator HistoryExport relies on:
\* it begins as one, and each of its steps is one of the iterator's or none.
ImplementsChunkIter ==
  /\ Exporting => Iter!IterInit
  /\ [][Exporting => [Iter!IterNext]_(Iter!iterSpecVars)]_vars
=============================================================================
