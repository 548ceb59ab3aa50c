------------------------------ MODULE MCProducer ------------------------------
EXTENDS Producer

CONSTANTS p, q, b1, b2

MCPartitions == {p, q}
MCBrokers == {b1, b2}
MCApart == (p :> b1) @@ (q :> b2)
\* Messages with a key go to one partition each time.
MCOnePartition == [s \in Sends |-> {p :> s}]
===============================================================================
