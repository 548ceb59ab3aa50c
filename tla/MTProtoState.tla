---------------------------- MODULE MTProtoState ----------------------------
(***************************************************************************)
(* The numbers MTProto messages are sent under: message ids, from a clock  *)
(* that may be wrong and a time offset the server corrects, and sequence   *)
(* numbers.  packages/gramjs network/MTProtoState.ts and the notifications *)
(* MTProtoSender.ts handles with it.                                       *)
(***************************************************************************)
EXTENDS Integers, Sequences

CONSTANTS
  Second,      \* ticks of the clock in a second
  Fine,        \* ids in a tick: id + 4 is far less than a millisecond
  Pump, Lower, \* what a notification adds to and takes off the sequence number: 64, 16
  MaxTime,     \* bound on both clocks
  MaxSent,     \* bound on the messages of a session
  MaxJumps,    \* bound on changes of the client's clock
  MaxNotices   \* bound on notifications and on new sessions

StateAssumption ==
  /\ Second \in Nat \ {0} /\ Fine \in Nat \ {0}
  /\ Pump \in Nat /\ Lower \in Nat /\ MaxTime \in Nat /\ MaxSent \in Nat
  /\ MaxJumps \in Nat /\ MaxNotices \in Nat

Times == 0..MaxTime

VARIABLES
  clock,      \* the client's
  serverTime,
  timeOffset, \* in seconds
  lastMsgId,
  sequence,
  sent,       \* the messages of this session: id, sequence number, content-related
  corrected,  \* how many were sent before the last correction
  lowered,    \* a notification has lowered the sequence of this session
  jumps, notices

vars == <<clock, serverTime, timeOffset, lastMsgId, sequence, sent, corrected, lowered,
          jumps, notices>>

Messages == [id : Int, seqNo : Int, content : BOOLEAN]

TypeOK ==
  /\ clock \in Times /\ serverTime \in Times /\ timeOffset \in Int
  /\ lastMsgId \in Int /\ sequence \in Int /\ sent \in Seq(Messages)
  /\ corrected \in 0..Len(sent) /\ lowered \in BOOLEAN
  /\ jumps \in 0..MaxJumps /\ notices \in 0..MaxNotices

Init ==
  /\ clock \in Times /\ serverTime \in Times
  /\ timeOffset = 0 /\ lastMsgId = 0 /\ sequence = 0 /\ sent = <<>> /\ corrected = 0
  /\ lowered = FALSE /\ jumps = 0 /\ notices = 0

Tick ==
  /\ clock < MaxTime /\ serverTime < MaxTime
  /\ clock' = clock + 1 /\ serverTime' = serverTime + 1
  /\ UNCHANGED <<timeOffset, lastMsgId, sequence, sent, corrected, lowered, jumps, notices>>

\* The client's clock is set.
Jump ==
  /\ jumps < MaxJumps /\ jumps' = jumps + 1 /\ clock' \in Times
  /\ UNCHANGED <<serverTime, timeOffset, lastMsgId, sequence, sent, corrected, lowered, notices>>

\* The time with the offset, or just after the last id.
NewMsgId ==
  LET new == (clock + timeOffset * Second) * Fine IN
  IF lastMsgId >= new THEN lastMsgId + 1 ELSE new

\* A message is written.
WriteDataAsMessage(content) ==
  /\ Len(sent) < MaxSent
  /\ sent' = Append(sent, [id |-> NewMsgId, content |-> content,
                           seqNo |-> IF content THEN sequence * 2 + 1 ELSE sequence * 2])
  /\ lastMsgId' = NewMsgId
  /\ sequence' = IF content THEN sequence + 1 ELSE sequence
  /\ UNCHANGED <<clock, serverTime, timeOffset, corrected, lowered, jumps, notices>>

\* The server finds the id of a message too low or too high.
Rejected == \E i \in DOMAIN sent : sent[i].id \div (Fine * Second) # serverTime \div Second

\* The id of its notification gives the server's time.
UpdateTimeOffset ==
  LET offset == serverTime \div Second - clock \div Second IN
  /\ Rejected /\ notices < MaxNotices /\ notices' = notices + 1
  /\ timeOffset' = offset
  /\ lastMsgId' = IF offset # timeOffset THEN 0 ELSE NewMsgId
  /\ corrected' = IF offset # timeOffset THEN Len(sent) ELSE corrected
  /\ UNCHANGED <<clock, serverTime, sequence, sent, lowered, jumps>>

\* Notifications that a sequence number is too low or too high.
PumpSequence ==
  /\ sent # <<>> /\ notices < MaxNotices /\ notices' = notices + 1
  /\ sequence' = sequence + Pump
  /\ UNCHANGED <<clock, serverTime, timeOffset, lastMsgId, sent, corrected, lowered, jumps>>

LowerSequence ==
  /\ sent # <<>> /\ notices < MaxNotices /\ notices' = notices + 1
  /\ sequence' = sequence - Lower /\ lowered' = TRUE
  /\ UNCHANGED <<clock, serverTime, timeOffset, lastMsgId, sent, corrected, jumps>>

\* A reconnection begins a session of its own.
Reset ==
  /\ notices < MaxNotices /\ notices' = notices + 1
  /\ lastMsgId' = 0 /\ sequence' = 0 /\ sent' = <<>> /\ corrected' = 0
  /\ lowered' = FALSE
  /\ UNCHANGED <<clock, serverTime, timeOffset, jumps>>

Next ==
  \/ Tick \/ Jump \/ UpdateTimeOffset \/ PumpSequence \/ LowerSequence \/ Reset
  \/ \E content \in BOOLEAN : WriteDataAsMessage(content)

Spec == Init /\ [][Next]_vars

----------------------------------------------------------------------------
\* Between corrections ids only grow, also when the clock is set back.
IdsGrow == \A i, j \in (corrected + 1)..Len(sent) : i < j => sent[i].id < sent[j].id

\* Unless a notification took some off, sequence numbers follow the order of the
\* messages, and no two content-related ones share theirs.
SequenceFollows ==
  lowered \/ \A i, j \in DOMAIN sent :
    i < j => IF sent[i].content /\ sent[j].content THEN sent[i].seqNo < sent[j].seqNo
                                                   ELSE sent[i].seqNo <= sent[j].seqNo + 1
=============================================================================
