--------------------------- MODULE MCMessageWorker ---------------------------
EXTENDS MessageWorker, TLC

CONSTANTS a, c, l, w1, w2, p, q

MCQueued == {a, c}
MCLive == {l}
MCSkipped == {c}
MCPhotos == {p, q}
MCPhoto == (a :> <<>>) @@ (c :> <<p>>) @@ (l :> <<p, q>>)
MCWorkers == {w1, w2}
=============================================================================
