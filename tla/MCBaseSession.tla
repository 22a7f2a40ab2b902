--------------------------- MODULE MCBaseSession ---------------------------
EXTENDS BaseSession
CONSTANTS s1, s2, b1, b2, f1, f2
\* A buffer on each queue of one stream.
BothStreamOf == [b \in Bufs |-> s1]
BothQueueOf == [b \in Bufs |-> IF b = b1 THEN "out" ELSE "in"]
Symmetry == Permutations(Streams) \cup Permutations(Fmts)
=============================================================================
