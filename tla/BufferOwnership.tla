-------------------------- MODULE BufferOwnership --------------------------
(***************************************************************************)
(* What the stream buffers promise: a buffer goes from the user to the     *)
(* driver, on to the back end, and the same way back.  Only of a stream    *)
(* that has failed may a buffer return to the user while the back end      *)
(* still uses it.                                                          *)
(***************************************************************************)
CONSTANTS
  Bufs,
  Streams,
  StreamOf   \* the stream of each buffer

VARIABLES
  owner,     \* who has each buffer
  excused    \* streams that have failed, and promise nothing any more

Owners == {"user", "driver", "backend"}

Init ==
  /\ owner = [b \in Bufs |-> "user"]
  /\ excused \subseteq Streams

\* The hands a buffer may change.
Moves ==
  {<<"user", "driver">>, <<"driver", "backend">>, <<"backend", "driver">>, <<"driver", "user">>}

\* One step may move several buffers, each by one move.
Next ==
  /\ excused' \in SUBSET Streams
  /\ excused \subseteq excused'
  /\ owner' \in [Bufs -> Owners]
  /\ \A b \in Bufs :
       \/ owner'[b] = owner[b]
       \/ <<owner[b], owner'[b]>> \in Moves
       \/ StreamOf[b] \in excused'

Spec == Init /\ [][Next]_<<owner, excused>>
=============================================================================
