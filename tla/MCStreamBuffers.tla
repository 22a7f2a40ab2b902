-------------------------- MODULE MCStreamBuffers --------------------------
(* Instances of StreamBuffers for TLC: one stream with a data queue and its meta queue, and *)
(* two streams with a data buffer each.                                                     *)
EXTENDS StreamBuffers

CONSTANTS b1, b2, m1, q1, qm1, q2, qm2, s1, s2

\* A function on the buffers there are.
On(f) == [b \in Bufs |-> f[b]]

OneQueueOf == On(b1 :> q1 @@ b2 :> q1 @@ m1 :> qm1)
OneOwnerOf == [q \in Queues |-> s1]
OneMetaOf == q1 :> qm1

TwoQueueOf == b1 :> q1 @@ b2 :> q2
TwoOwnerOf == q1 :> s1 @@ qm1 :> s1 @@ q2 :> s2 @@ qm2 :> s2
TwoMetaOf == q1 :> qm1 @@ q2 :> qm2

Symmetry == Permutations(Ids)

\* The two streams may be swapped, with all that is theirs.
Swap ==
  b1 :> b2 @@ b2 :> b1 @@ q1 :> q2 @@ q2 :> q1 @@ qm1 :> qm2 @@ qm2 :> qm1 @@ s1 :> s2 @@ s2 :> s1
TwoSymmetry == Symmetry \cup {Swap} \cup {Swap @@ p : p \in Symmetry}
=============================================================================
