--------------------------- MODULE StreamSession ---------------------------
(***************************************************************************)
(* The sessions of the build with VIRTIO_VIDEO_MSM: what open and release  *)
(* do to a stream, step by step, the ioctls that are one synchronous       *)
(* command each, the events that the work item brings to a stream while    *)
(* all this goes on, and the back end's side of it.  Buffers and their     *)
(* queues are StreamBuffers, the way a command travels is CmdQueue: here a *)
(* command is a message that is processed in order and answered under its  *)
(* stream id and type, or not answered in time.                            *)
(***************************************************************************)
EXTENDS Integers, Sequences, FiniteSets

CONSTANTS
  Streams,    \* the addresses of streams: a freed one is allocated again
  Codecs,     \* pixel formats an application may set
  Kinds,      \* the kinds of ioctls, of "query", "set", "s_fmt", "s_ctrl", "codec_cmd", "unsubscribe"
  EventKinds, \* the kinds of events, of "error", "eos", "resolution"
  None,
  MaxOpens,   \* bound: how many opens
  MaxCalls,   \* bound: how many ioctls
  MaxEvents   \* bound: how many events

\* What the work item may be handling.
Handled == [stream : Streams, kind : EventKinds, gen : 0..MaxOpens,
            prev : {"idle", "stopped", "error", None}, at : {"update", "exchange", "act"}]

ASSUME BoundsAssumption ==
  /\ IsFiniteSet(Streams) /\ None \notin Streams \cup Handled
  /\ Kinds \subseteq {"query", "set", "s_fmt", "s_ctrl", "codec_cmd", "unsubscribe"}
  /\ EventKinds \subseteq {"error", "eos", "resolution"}
  /\ MaxOpens \in Nat /\ MaxCalls \in Nat /\ MaxEvents \in Nat

VARIABLES
  pc,         \* per stream: where its open, its release or the failure of its open is
  gen,        \* per stream: which open it comes from
  nid,        \* per stream: the id that virtio_video_stream_id_get gave
  state,      \* per stream: stream->state
  codec,      \* per stream: stream->codec
  eos,        \* per stream: stream->enable_eos_event
  held,       \* per stream: what it has acquired beside its id
  op,         \* per stream: the ioctl under way
  idr,        \* vvd->stream_idr
  lock,       \* video_dev->lock: the stream whose ioctl or release holds it
  toBack,     \* commands on their way to the back end
  answers,    \* answers on their way to the driver, as pairs of a stream id and a type
  back,       \* per id: the back end's stream
  events,     \* events on their way to the work item
  wk,         \* the event the work item handles
  opens, calls, posted, \* how many opens, ioctls and events there were
  past,       \* history, per stream: what has happened to it
  orphans,    \* history: opens whose stream the back end was not, or may not be, told to destroy
  collided    \* history: the back end was told to create a stream whose id it has

streamVars == <<pc, gen, nid, state, codec, eos, held, op, lock>>
backVars == <<toBack, answers, back>>
evVars == <<events, wk, posted>>
histVars == <<past, orphans, collided>>
vars == <<streamVars, idr, backVars, evVars, opens, calls, histVars>>

Ids == 1..Cardinality(Streams)
\* What past remembers: a command failed, or had no memory; the back end reported an error; an
\* event meant for another stream came; an error was reset.
Past == {"failed", "nomem", "hit", "misled", "lost"}
Note(s, h) == past' = [past EXCEPT ![s] = @ \cup {h}]
NoOp == [at |-> "none", kind |-> None, val |-> None]
Live == {s \in Streams : pc[s] # "free"}

\* stream->video_dev is set: virtio_video_handle_error may use the stream.
HasDevice(s) == pc[s] \notin {"free", "create", "create_failed", "fields"}

\* What the work item's next step does is given by the code: its stream is still the one it
\* looked up, with the parts that the step uses.
Defined ==
  wk # None =>
    /\ wk.stream \in Live /\ gen[wk.stream] = wk.gen
    /\ wk.at = "act" =>
         IF wk.kind = "error" THEN HasDevice(wk.stream) ELSE "fh" \in held[wk.stream]
-----------------------------------------------------------------------------
\* Open.

GoTo(s, l) == pc' = [pc EXCEPT ![s] = l]

FreeIds == {i \in Ids : idr[i] = None}

\* idr_alloc gives the lowest id that is free.
LowestFree == CHOOSE i \in FreeIds : \A j \in FreeIds : i <= j
IdGet(s, i) == idr' = [idr EXCEPT ![i] = s] /\ nid' = [nid EXCEPT ![s] = i]
IdPut(i) == idr' = [idr EXCEPT ![i] = None]

OpenAlloc(s) ==
  /\ pc[s] = "free" /\ opens < MaxOpens
  /\ GoTo(s, "create")
  /\ opens' = opens + 1 /\ gen' = [gen EXCEPT ![s] = opens']
  /\ IdGet(s, LowestFree)
  /\ UNCHANGED <<state, codec, eos, held, op, lock, backVars, evVars, calls, histVars>>

Command(s, k, v) == [id |-> nid[s], kind |-> k, gen |-> gen[s], val |-> v]
CreateCmd(s) == toBack' = Append(toBack, Command(s, "create", None))
DestroyCmd(s) == toBack' = Append(toBack, Command(s, "destroy", None))

\* Faulty: the id is forgotten when the stream is not created.
OpenCreateKeepsId(s) ==
  /\ pc[s] = "create"
  /\ \/ CreateCmd(s) /\ GoTo(s, "fields")
     \/ UNCHANGED toBack /\ GoTo(s, "fail_free")
  /\ UNCHANGED <<gen, nid, state, codec, eos, held, op, lock, idr, answers, back, evVars,
                 opens, calls, histVars>>

OpenCreate(s) ==
  /\ pc[s] = "create"
  /\ \/ CreateCmd(s) /\ GoTo(s, "fields")
     \/ UNCHANGED toBack /\ GoTo(s, "create_failed")
  /\ UNCHANGED <<gen, nid, state, codec, eos, held, op, lock, idr, answers, back, evVars,
                 opens, calls, histVars>>

OpenFields(s) ==
  /\ pc[s] = "fields" /\ GoTo(s, "reset")
  /\ UNCHANGED <<gen, nid, state, codec, eos, held, op, lock, idr, backVars, evVars,
                 opens, calls, histVars>>

\* virtio_video_state_reset, then v4l2_fh_init.  An error that an event has brought by now is
\* lost.
OpenReset(s) ==
  /\ pc[s] = "reset" /\ GoTo(s, "queues")
  /\ state' = [state EXCEPT ![s] = "idle"]
  /\ IF state[s] = "error" THEN Note(s, "lost") ELSE UNCHANGED past
  /\ held' = [held EXCEPT ![s] = {"fh"}]
  /\ UNCHANGED <<gen, nid, codec, eos, op, lock, idr, backVars, evVars, opens, calls,
                 orphans, collided>>

\* What init_queues sets up, in its order, and what its labels undo when step k fails.
\* vb2_queue_init acquires nothing, and v4l2_m2m_ctx_init frees its context on an error.  The
\* label err_init_ctx is v4l2_fh_exit.
QueueSteps == <<"src", "dst", "in_meta", "in_meta_vb2q", "out_meta", "out_meta_vb2q">>

Undone(k) ==
  (IF k = 6 THEN {"out_meta"} ELSE {}) \cup (IF k >= 4 THEN {"in_meta"} ELSE {})
Memory == {"in_meta", "out_meta"}
SetUp(k) == {QueueSteps[j] : j \in 1..k} \cap Memory

OpenQueuesFail(s) ==
  /\ pc[s] = "queues" /\ GoTo(s, "fail_put")
  /\ \E k \in DOMAIN QueueSteps :
       held' = [held EXCEPT ![s] = (@ \ {"fh"}) \cup (SetUp(k - 1) \ Undone(k))]
  /\ orphans' = orphans \cup {gen[s]}
  /\ UNCHANGED <<gen, nid, state, codec, eos, op, lock, idr, backVars, evVars, opens, calls,
                 past, collided>>

\* v4l2_m2m_ctx_init, msm_export_cache_init, v4l2_fh_add.
OpenQueues(s) ==
  /\ pc[s] = "queues" /\ GoTo(s, "ctrls")
  /\ held' = [held EXCEPT ![s] = @ \cup {"ctx", "slab"} \cup SetUp(Len(QueueSteps))]
  /\ UNCHANGED <<gen, nid, state, codec, eos, op, lock, idr, backVars, evVars, opens, calls,
                 histVars>>

OpenCtrlsFail(s) ==
  /\ pc[s] = "ctrls" /\ GoTo(s, "fail_ctrls")
  /\ held' = [held EXCEPT ![s] = @ \cup {"ctrls"}]
  /\ orphans' = orphans \cup {gen[s]}
  /\ UNCHANGED <<gen, nid, state, codec, eos, op, lock, idr, backVars, evVars, opens, calls,
                 past, collided>>

\* init_ctrls ends with v4l2_ctrl_handler_setup, which sets every control to its default,
\* without video_dev->lock, and whose result is not looked at.
OpenCtrls(s) ==
  /\ pc[s] = "ctrls" /\ GoTo(s, "open")
  /\ held' = [held EXCEPT ![s] = @ \cup {"ctrls"}]
  /\ op' = [op EXCEPT ![s] = [at |-> "check", kind |-> "s_ctrl", val |-> TRUE]]
  /\ UNCHANGED <<gen, nid, state, codec, eos, lock, idr, backVars, evVars, opens, calls, histVars>>

\* The labels err_init_ctrls and err_init_ctx, err_stream_create, then kfree.
FailCtx(s) ==
  /\ pc[s] = "fail_ctrls" /\ lock = None
  /\ GoTo(s, "fail_put")
  /\ held' = [held EXCEPT ![s] = @ \ {"ctx", "fh"}]
  /\ UNCHANGED <<gen, nid, state, codec, eos, op, lock, idr, backVars, evVars, opens, calls,
                 histVars>>

FailPut(s) ==
  /\ pc[s] \in {"create_failed", "fail_put"} /\ GoTo(s, "fail_free")
  /\ IdPut(nid[s])
  /\ UNCHANGED <<gen, nid, state, codec, eos, held, op, lock, backVars, evVars, opens, calls,
                 histVars>>

Free(s) ==
  /\ GoTo(s, "free")
  /\ nid' = [nid EXCEPT ![s] = None]
  /\ state' = [state EXCEPT ![s] = "idle"]
  /\ codec' = [codec EXCEPT ![s] = None] /\ eos' = [eos EXCEPT ![s] = FALSE]
  /\ held' = [held EXCEPT ![s] = {}]
  /\ gen' = [gen EXCEPT ![s] = 0] /\ past' = [past EXCEPT ![s] = {}]
  /\ UNCHANGED <<op, idr, backVars, evVars, opens, calls, orphans, collided>>

FailFree(s) ==
  /\ pc[s] = "fail_free"
  /\ Free(s) /\ UNCHANGED lock
-----------------------------------------------------------------------------
\* Release.  The last reference to the file is gone: no ioctl of the stream is under way.

Close(s) ==
  /\ pc[s] = "open" /\ op[s] = NoOp
  /\ GoTo(s, "closing")
  /\ UNCHANGED <<gen, nid, state, codec, eos, held, op, lock, idr, backVars, evVars, opens, calls,
                 histVars>>

\* Faulty: release sends no stream_destroy command.
CloseLockedOnly(s) ==
  /\ pc[s] = "closing" /\ lock = None
  /\ lock' = s
  /\ held' = [held EXCEPT ![s] = @ \ {"ctx", "fh"}]
  /\ GoTo(s, "put")
  /\ UNCHANGED <<gen, nid, state, codec, eos, op, idr, backVars, evVars, opens, calls, histVars>>

\* With the lock: v4l2_fh_del, v4l2_m2m_ctx_release, v4l2_fh_exit.
CloseLocked(s) ==
  /\ pc[s] = "closing" /\ lock = None
  /\ lock' = s
  /\ held' = [held EXCEPT ![s] = @ \ {"ctx", "fh"}]
  /\ GoTo(s, "destroy")
  /\ UNCHANGED <<gen, nid, state, codec, eos, op, idr, backVars, evVars, opens, calls, histVars>>

\* The result of the stream_destroy command is not looked at.
CloseDestroy(s) ==
  /\ pc[s] = "destroy" /\ GoTo(s, "put")
  /\ \/ DestroyCmd(s) /\ UNCHANGED orphans
     \/ UNCHANGED toBack /\ orphans' = orphans \cup {gen[s]}
  /\ UNCHANGED <<gen, nid, state, codec, eos, held, op, lock, idr, answers, back, evVars,
                 opens, calls, past, collided>>

\* virtio_video_stream_id_put and msm_export_cache_destroy
ClosePut(s) ==
  /\ pc[s] = "put" /\ GoTo(s, "kfree")
  /\ IdPut(nid[s])
  /\ held' = [held EXCEPT ![s] = @ \ {"slab"}]
  /\ UNCHANGED <<gen, nid, state, codec, eos, op, lock, backVars, evVars, opens, calls, histVars>>

CloseFree(s) ==
  /\ pc[s] = "kfree"
  /\ lock' = None
  /\ Free(s)
-----------------------------------------------------------------------------
\* Ioctls.  video_ioctl2 takes video_dev->lock around each, so op[s] is the only one of its
\* device, apart from the s_ctrl of a stream that is being opened.

EnterIoctl(s, k, v) ==
  /\ k \in Kinds
  /\ pc[s] = "open" /\ op[s] = NoOp /\ lock = None /\ calls < MaxCalls
  /\ lock' = s /\ calls' = calls + 1
  /\ op' = [op EXCEPT ![s] = [at |-> "check", kind |-> k, val |-> v]]
  /\ UNCHANGED <<pc, gen, nid, state, codec, eos, held, idr, backVars, evVars, opens, histVars>>

\* querycap, enum_fmt, g_fmt, g_selection, g_parm, g_volatile_ctrl, enum_framesizes and
\* enum_frameintervals; s_selection, s_parm and subscribe_event (whose v4l2_fh part is left out);
\* decoder_cmd and encoder_cmd: a guard and a command.
Query == "query"
Params == "set"
CodecCommand == "codec_cmd"
Plain(s) == \E k \in Kinds \cap {Query, Params, CodecCommand} : EnterIoctl(s, k, None)
SFmt(s) == \E c \in Codecs : EnterIoctl(s, "s_fmt", c)
SCtrl(s) == \E v \in BOOLEAN : EnterIoctl(s, "s_ctrl", v)
Unsubscribe(s) == EnterIoctl(s, "unsubscribe", None)

\* The command type, under which an answer is found.
CmdType(k) ==
  CASE k = "query" -> "GET_PARAMS"
    [] k \in {"set", "s_fmt", "unsubscribe"} -> "SET_PARAMS"
    [] k = "s_ctrl" -> "SET_CONTROL"
    [] k = "codec_cmd" -> "STREAM_START"

\* The ioctl returns.
EndOp(s) ==
  /\ op' = [op EXCEPT ![s] = NoOp]
  /\ lock' = IF lock = s THEN None ELSE lock
OpAt(s, l) == op[s].at = l
GoOn(s, l) == op' = [op EXCEPT ![s].at = l]

IsSessionError(s) == state[s] = "error"

Refused(s) ==
  /\ OpAt(s, "check") /\ op[s].kind # "unsubscribe" /\ IsSessionError(s)
  /\ EndOp(s)
  /\ UNCHANGED <<pc, gen, nid, state, codec, eos, held, idr, backVars, evVars, opens, calls,
                 histVars>>

\* Faulty: msm_v4l2_s_fmt sets the codec before its command.
AdmittedEarly(s) ==
  /\ OpAt(s, "check") /\ (op[s].kind = "unsubscribe" \/ ~IsSessionError(s))
  /\ GoOn(s, "send")
  /\ eos' = IF op[s].kind = "s_ctrl" THEN [eos EXCEPT ![s] = op[s].val] ELSE eos
  /\ codec' = IF op[s].kind = "s_fmt" THEN [codec EXCEPT ![s] = op[s].val] ELSE codec
  /\ UNCHANGED <<pc, gen, nid, state, held, lock, idr, backVars, evVars, opens, calls, histVars>>

\* msm_v4l2_op_s_ctrl sets its fields before the command.
Admitted(s) ==
  /\ OpAt(s, "check") /\ (op[s].kind = "unsubscribe" \/ ~IsSessionError(s))
  /\ GoOn(s, "send")
  /\ eos' = IF op[s].kind = "s_ctrl" THEN [eos EXCEPT ![s] = op[s].val] ELSE eos
  /\ UNCHANGED <<pc, gen, nid, state, codec, held, lock, idr, backVars, evVars, opens, calls,
                 histVars>>

\* virtio_video_v4l2_to_hab: no memory for the vbuf, which is no error of the session.
NoMemory(s) ==
  /\ OpAt(s, "send") /\ EndOp(s)
  /\ Note(s, "nomem")
  /\ UNCHANGED <<pc, gen, nid, state, codec, eos, held, idr, backVars, evVars, opens, calls,
                 orphans, collided>>

Send(s) ==
  /\ OpAt(s, "send") /\ GoOn(s, "wait")
  /\ toBack' = Append(toBack, Command(s, op[s].kind, op[s].val))
  /\ UNCHANGED <<pc, gen, nid, state, codec, eos, held, lock, idr, answers, back, evVars,
                 opens, calls, histVars>>

\* The command is not queued, or not answered in time.
CommandFails(s) ==
  /\ OpAt(s, "send") \/ OpAt(s, "wait")
  /\ state' = [state EXCEPT ![s] = "error"]
  /\ Note(s, "failed")
  /\ EndOp(s)
  /\ UNCHANGED <<pc, gen, nid, codec, eos, held, idr, backVars, evVars, opens, calls,
                 orphans, collided>>

\* An answer under the command's key has come.  msm_v4l2_s_fmt sets the codec then.
Answered(s) ==
  LET key == <<nid[s], CmdType(op[s].kind)>> IN
  /\ OpAt(s, "wait") /\ key \in answers
  /\ answers' = answers \ {key}
  /\ codec' = IF op[s].kind = "s_fmt" THEN [codec EXCEPT ![s] = op[s].val] ELSE codec
  /\ EndOp(s)
  /\ UNCHANGED <<pc, gen, nid, state, eos, held, idr, toBack, back, evVars, opens, calls, histVars>>
-----------------------------------------------------------------------------
\* The back end processes commands in order, and posts events about the streams it has.

Reply(c) ==
  LET i == c.id IN
  CASE c.kind = "create" ->
         /\ back' = IF back[i] = None
                    THEN [back EXCEPT ![i] = [gen |-> c.gen, codec |-> None, eos |-> FALSE]]
                    ELSE back
         /\ collided' = (collided \/ back[i] # None)
         /\ UNCHANGED answers
    [] c.kind = "destroy" ->
         back' = [back EXCEPT ![i] = None] /\ UNCHANGED <<answers, collided>>
    [] OTHER ->
         /\ back' = IF back[i] = None THEN back
                    ELSE CASE c.kind = "s_fmt" -> [back EXCEPT ![i].codec = c.val]
                           [] c.kind = "s_ctrl" -> [back EXCEPT ![i].eos = c.val]
                           [] OTHER -> back
         /\ answers' = answers \cup {<<i, CmdType(c.kind)>>}
         /\ UNCHANGED collided

BackProcess ==
  /\ toBack # <<>>
  /\ toBack' = Tail(toBack)
  /\ Reply(Head(toBack))
  /\ UNCHANGED <<streamVars, idr, evVars, opens, calls, past, orphans>>

BackEvent(i, k) ==
  /\ back[i] # None /\ posted < MaxEvents
  /\ posted' = posted + 1
  /\ events' = Append(events, [id |-> i, kind |-> k, gen |-> back[i].gen])
  /\ past' = [s \in Streams |-> IF k = "error" /\ gen[s] = back[i].gen
                                THEN past[s] \cup {"hit"} ELSE past[s]]
  /\ UNCHANGED <<streamVars, idr, backVars, wk, opens, calls, orphans, collided>>
-----------------------------------------------------------------------------
\* virtio_video_handle_event in the work item, without a lock.

\* Faulty: events of streams that are not open yet, or no longer, are dropped.
HandleFindOpen ==
  /\ wk = None /\ events # <<>>
  /\ events' = Tail(events)
  /\ LET e == Head(events)
         s == idr[e.id] IN
     IF s = None \/ pc[s] # "open" THEN UNCHANGED <<wk, past>>
     ELSE /\ wk' = [stream |-> s, kind |-> e.kind, gen |-> gen[s], prev |-> None,
                    at |-> IF e.kind = "resolution" THEN "act" ELSE "update"]
          /\ IF e.gen # gen[s] THEN Note(s, "misled") ELSE UNCHANGED past
  /\ UNCHANGED <<streamVars, idr, backVars, posted, opens, calls, orphans, collided>>

HandleFind ==
  /\ wk = None /\ events # <<>>
  /\ events' = Tail(events)
  /\ LET e == Head(events)
         s == idr[e.id] IN
     IF s = None THEN UNCHANGED <<wk, past>>
     ELSE /\ wk' = [stream |-> s, kind |-> e.kind, gen |-> gen[s], prev |-> None,
                    at |-> IF e.kind = "resolution" THEN "act" ELSE "update"]
          /\ IF e.gen # gen[s] THEN Note(s, "misled") ELSE UNCHANGED past
  /\ UNCHANGED <<streamVars, idr, backVars, posted, opens, calls, orphans, collided>>

NewState == IF wk.kind = "error" THEN "error" ELSE "stopped"

\* virtio_video_state_update: read the state, then compare and exchange.
UpdateRead ==
  /\ wk # None /\ wk.at = "update"
  /\ wk' = IF state[wk.stream] = "error" THEN [wk EXCEPT !.at = "act"]
           ELSE [wk EXCEPT !.at = "exchange", !.prev = state[wk.stream]]
  /\ UNCHANGED <<streamVars, idr, backVars, events, posted, opens, calls, histVars>>

\* Faulty: the exchange does not compare.
UpdateExchangeBlind ==
  /\ wk # None /\ wk.at = "exchange"
  /\ state' = [state EXCEPT ![wk.stream] = NewState]
  /\ wk' = [wk EXCEPT !.at = "act", !.prev = None]
  /\ UNCHANGED <<pc, gen, nid, codec, eos, held, op, lock, idr, backVars, events, posted, opens, calls, histVars>>

UpdateExchange ==
  /\ wk # None /\ wk.at = "exchange"
  /\ IF state[wk.stream] = wk.prev
     THEN /\ state' = [state EXCEPT ![wk.stream] = NewState]
          /\ wk' = [wk EXCEPT !.at = "act", !.prev = None]
     ELSE UNCHANGED state /\ wk' = [wk EXCEPT !.at = "update", !.prev = None]
  /\ UNCHANGED <<pc, gen, nid, codec, eos, held, op, lock, idr, backVars, events, posted, opens, calls, histVars>>

\* virtio_video_handle_error, or the v4l2 event of the end of stream or the change of resolution.
HandleAct ==
  /\ wk # None /\ wk.at = "act"
  /\ wk' = None
  /\ UNCHANGED <<streamVars, idr, backVars, events, posted, opens, calls, histVars>>
-----------------------------------------------------------------------------
Init ==
  /\ pc = [s \in Streams |-> "free"]
  /\ gen = [s \in Streams |-> 0] /\ nid = [s \in Streams |-> None]
  /\ state = [s \in Streams |-> "idle"]
  /\ codec = [s \in Streams |-> None] /\ eos = [s \in Streams |-> FALSE]
  /\ held = [s \in Streams |-> {}]
  /\ op = [s \in Streams |-> NoOp]
  /\ idr = [i \in Ids |-> None]
  /\ lock = None
  /\ toBack = <<>> /\ answers = {}
  /\ back = [i \in Ids |-> None]
  /\ events = <<>> /\ wk = None
  /\ opens = 0 /\ calls = 0 /\ posted = 0
  /\ past = [s \in Streams |-> {}] /\ orphans = {} /\ collided = FALSE

OpenStep(s) ==
  \/ OpenCreate(s) \/ OpenFields(s) \/ OpenReset(s)
  \/ OpenQueues(s) \/ OpenQueuesFail(s) \/ OpenCtrls(s) \/ OpenCtrlsFail(s)
  \/ FailPut(s) \/ FailFree(s)
CloseStep(s) == CloseDestroy(s) \/ ClosePut(s) \/ CloseFree(s)
TakeLock(s) == FailCtx(s) \/ CloseLocked(s)
Ioctl(s) ==
  \/ Plain(s) \/ SFmt(s) \/ SCtrl(s) \/ Unsubscribe(s)
IoctlStep(s) ==
  \/ Refused(s) \/ Admitted(s) \/ NoMemory(s) \/ Send(s) \/ CommandFails(s) \/ Answered(s)
Work == HandleFind \/ UpdateRead \/ UpdateExchange \/ HandleAct

Next ==
  /\ Defined
  /\ \/ \E s \in Streams :
          \/ OpenAlloc(s) \/ OpenStep(s) \/ Close(s) \/ TakeLock(s) \/ CloseStep(s)
          \/ Ioctl(s) \/ IoctlStep(s)
     \/ BackProcess
     \/ \E i \in Ids, k \in EventKinds : BackEvent(i, k)
     \/ Work

Spec == Init /\ [][Next]_vars
-----------------------------------------------------------------------------
StepsOfOpen == {"create", "create_failed", "fields", "reset", "queues", "ctrls",
                "fail_ctrls", "fail_put", "fail_free"}
StepsOfClose == {"closing", "destroy", "put", "kfree"}
InIdr(s) == pc[s] \notin {"free", "fail_free", "kfree"}

\* Each variable has its type.
TypeOK ==
  /\ pc \in [Streams -> {"free", "open"} \cup StepsOfOpen \cup StepsOfClose]
  /\ gen \in [Streams -> 0..MaxOpens] /\ nid \in [Streams -> Ids \cup {None}]
  /\ state \in [Streams -> {"idle", "stopped", "error"}]
  /\ codec \in [Streams -> Codecs \cup {None}] /\ eos \in [Streams -> BOOLEAN]
  /\ \A s \in Streams : held[s] \subseteq {"fh", "ctx", "slab", "ctrls"} \cup Memory
  /\ \A s \in Streams : op[s] = NoOp \/ (op[s].at \in {"check", "send", "wait"} /\ op[s].kind \in Kinds \cup {"s_ctrl"})
  /\ idr \in [Ids -> Streams \cup {None}] /\ lock \in Streams \cup {None}
  /\ \A i \in Ids : back[i] = None \/ back[i].gen \in 1..MaxOpens
  /\ answers \subseteq Ids \X {"GET_PARAMS", "SET_PARAMS", "SET_CONTROL", "STREAM_START"}
  /\ wk \in Handled \cup {None}
  /\ past \in [Streams -> SUBSET Past] /\ orphans \subseteq 1..MaxOpens

\* stream_idr holds exactly the streams between virtio_video_stream_id_get and _put, each under
\* its id: what idr_find returns is memory that is not freed yet, however an open fails.
IdrExact ==
  /\ \A s \in Streams : InIdr(s) => idr[nid[s]] = s
  /\ \A i \in Ids : idr[i] # None => InIdr(idr[i]) /\ nid[idr[i]] = i

\* An error is of the stream that has it: one of its commands failed, the back end reported it,
\* or an event meant for the former owner of its id came late.
OnlyOwnErrors ==
  \A s \in Live : state[s] = "error" => past[s] \cap {"failed", "hit", "misled"} # {}

\* No command of the stream is under way.
Quiet(s) ==
  op[s] = NoOp /\ \A n \in DOMAIN toBack : toBack[n].gen # gen[s]

\* Unless the stream has an error, what it believes the back end uses is what the back end uses:
\* the pixel format always, the enable_eos_event flag unless an ioctl ran out of memory, for the
\* flag is set before the command is.
ParamsAgree ==
  \A s \in Streams :
    pc[s] = "open" /\ Quiet(s) /\ state[s] # "error" /\ "lost" \notin past[s]
      /\ back[nid[s]] # None /\ back[nid[s]].gen = gen[s]
    => /\ codec[s] = back[nid[s]].codec
       /\ eos[s] = back[nid[s]].eos \/ "nomem" \in past[s]

\* What a stream that is about to be freed leaves behind: the memory of its two meta queues and
\* its controls if it has any, its export cache if it failed in init_ctrls.  Its file handle and
\* m2m context never, and nothing at all if init_queues failed, wherever it did.
LeaksOnly ==
  /\ \A s \in Streams : pc[s] = "kfree" => held[s] \subseteq Memory \cup {"ctrls"}
  /\ \A s \in Streams : pc[s] = "fail_free" =>
       held[s] \in {{}, Memory \cup {"ctrls", "slab"}}

\* Every stream of the back end is that of a live stream, or its destroy command is on its way,
\* unless its open failed after the create command or the destroy command could not be queued.
\* So an id is not created twice, unless there was such an orphan.
NoOrphans ==
  /\ \A i \in Ids : back[i] # None =>
       \/ back[i].gen \in orphans
       \/ \E s \in Streams : gen[s] = back[i].gen /\ pc[s] \notin {"free", "put", "kfree"}
       \/ \E n \in DOMAIN toBack : toBack[n].kind = "destroy" /\ toBack[n].gen = back[i].gen
  /\ collided => orphans # {}

\* A stream in ERROR stays there until it is freed, except that an open that is not past
\* virtio_video_state_reset resets it: the compare and exchange keeps a late end of stream from
\* hiding an error.
ErrorSticks ==
  [][\A s \in Streams : state[s] = "error" =>
       state'[s] = "error" \/ pc[s] = "reset" \/ pc'[s] = "free"]_vars

\* An error that the back end reports of a stream puts it into ERROR once the event is handled,
\* whatever state the stream is in and whoever changes it meanwhile, unless the open of the stream
\* resets it.
ErrorArrives ==
  \A s \in Streams :
    /\ "hit" \in past[s] /\ "lost" \notin past[s] /\ InIdr(s)
    /\ \A n \in DOMAIN events : events[n].gen # gen[s] \/ events[n].kind # "error"
    /\ wk = None \/ wk.gen # gen[s]
    => state[s] = "error"

\* stream_idr is exact in every step of opens, failures and releases, and every variable has its
\* type (virtio_video_stream_id_get, virtio_video_stream_id_put).
StreamsExact == TypeOK /\ IdrExact

\* A stream is in ERROR if it met one of its own (or an event of its id's former owner), and only
\* then (virtio_video_handle_event, virtio_video_v4l2_to_hab).
ErrorsExact == OnlyOwnErrors /\ ErrorArrives

\* Whatever step of an open fails, and in every release, what stays behind in memory and at the
\* back end is what the code is known to leave (virtio_video_device_open, its labels, and
\* virtio_video_device_release).
LeftBehind == LeaksOnly /\ NoOrphans
=============================================================================
