----------------------------- MODULE MCCmdQueue -----------------------------
(***************************************************************************)
(* Small instances of CmdQueue.  g and h are synchronous commands (a       *)
(* GET_PARAMS and a GET_CONTROL, say), q is an asynchronous one            *)
(* (RESOURCE_QUEUE), issued by one thread at a time.                       *)
(***************************************************************************)
EXTENDS CmdQueue, TLC

CONSTANTS c1, c2, g, h, q

\* No two threads issue the same (stream_id, type) at the same time.
ExclusiveKeys == c1 :> {g, q} @@ c2 :> {h}

\* REQBUFS holds the queue lock and G_FMT the device lock: both send GET_PARAMS.
SharedKeys == c1 :> {g, q} @@ c2 :> {g}

SlotSymmetry == Permutations(Slots)
=============================================================================
