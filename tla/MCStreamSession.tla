-------------------------- MODULE MCStreamSession --------------------------
EXTENDS StreamSession, TLC

Symmetry == Permutations(Streams)
=============================================================================
