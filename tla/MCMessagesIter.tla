--------------------------- MODULE MCMessagesIter ---------------------------
(* Model-checking instances of MessagesIter.                               *)
EXTENDS MessagesIter

MCMsgIds == 1..5

\* Every combination of direction, limit and bounds, over a few ids.
MCParams ==
  [reverse : BOOLEAN, limit : {-1, 0, 1, 3}, offsetId : {0, 2, 4},
   minId : {0, 1, 3}, maxId : {0, 2, 5}]

\* Both ends of the range given, newest first.
MCBothBounds ==
  [reverse : {FALSE}, limit : {0}, offsetId : {2, 3}, minId : {0},
   maxId : {4}]
=============================================================================
