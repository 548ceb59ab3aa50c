------------------------------ MODULE MCIngest ------------------------------
(* Model-checking instance of Ingest.                                      *)
EXTENDS IngestProperties, TLC

CONSTANTS m1, m2, p1, p2

MCMembers == {m1, m2}
MCPartitions == {p1, p2}

Ev(c, n, u, x, f, d) ==
  [chat |-> c, msg |-> n, user |-> u, name |-> x, file |-> f, date |-> d]

\* Two messages of one chat in two partitions, the later one without sender and
\* file, and an event without a chat.  No two events have the same key, so an
\* event that is lost leaves its key out of the table.
MCLog ==
  (p1 :> <<Ev("c", "1", "u", "ann", "f", 1), Ev(None, "1", "v", None, None, 1)>>)
  @@ (p2 :> <<Ev("c", "2", None, None, None, 2)>>)
=============================================================================
