------------------------------ MODULE MCIndexer ------------------------------
EXTENDS Indexer, TLC

CONSTANTS m1, m2, p1

MCMembers == {m1, m2}
MCOnePartition == {p1}
MCShortText == (p1 :> <<"text", "empty", "text", "null">>)
=============================================================================
