---------------------------- MODULE MCEventQueue ----------------------------
(***************************************************************************)
(* Small instances of EventQueue: streams are interchangeable.             *)
(***************************************************************************)
EXTENDS EventQueue, TLC

StreamSymmetry == Permutations(Streams)
=============================================================================
