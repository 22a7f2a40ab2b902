---------------------------- MODULE BaseSession ----------------------------
(***************************************************************************)
(* The sessions of the build without VIRTIO_VIDEO_MSM: decoder, encoder    *)
(* and camera.  Three contexts work on a stream: ioctls and release, under *)
(* video_dev->lock, and the work item, which takes it too; the queue       *)
(* ioctls, under the stream's vq_mutex; and the answers to RESOURCE_QUEUE, *)
(* which complete a buffer in virtio_video_cmd_cb, under neither.  What    *)
(* they share is stream->state, the two video_format_info of the stream,   *)
(* and the buffers.  How a command travels is CmdQueue: here one is done   *)
(* by the back end in the step that sends it, or waits for it, and sending *)
(* or waiting may fail.                                                    *)
(***************************************************************************)
EXTENDS Integers, Sequences, SequencesExt, FiniteSets

CONSTANTS
  Streams,    \* streams
  Bufs,       \* buffers an application may have
  StreamOf,   \* the stream of a buffer
  QueueOf,    \* the queue of a buffer, "in" (the OUTPUT type) or "out" (the CAPTURE type)
  Devs,       \* the types of device, of "dec", "enc", "cam"
  Fmts,       \* formats with their sizes; the back end chooses one for a stream it creates
  Kinds,      \* the ioctls under video_dev->lock, of "s_fmt", "s_parm", "s_selection", "start", "stop"
  EventKinds, \* the kinds of events, of "error", "resolution"
  None,
  MaxOwed,    \* bound: how many RESOURCE_QUEUEs of a buffer are to be answered
  MaxOpens,   \* bound: how many opens
  MaxCalls,   \* bound: how many ioctls under video_dev->lock
  MaxEvents   \* bound: how many events

Format == [fmt : Fmts \cup {None}, crop : BOOLEAN]

ASSUME BaseAssumption ==
  /\ IsFiniteSet(Streams) /\ IsFiniteSet(Bufs) /\ "work" \notin Streams
  /\ None \notin Streams \cup 1..Cardinality(Bufs) \cup [{"in", "out"} -> Format] \cup {"work"}
  /\ StreamOf \in [Bufs -> Streams] /\ QueueOf \in [Bufs -> {"in", "out"}]
  /\ Devs \subseteq {"dec", "enc", "cam"}
  /\ Kinds \subseteq {"s_fmt", "s_parm", "s_selection", "start", "stop"}
  /\ EventKinds \subseteq {"error", "resolution"}
  /\ MaxOwed \in Nat /\ MaxOpens \in Nat /\ MaxCalls \in Nat /\ MaxEvents \in Nat

VARIABLES
  dev,        \* vvd->type
  busy,       \* vvd->device_busy
  pc,         \* per stream: where its open or its release is
  state,      \* per stream: stream->state
  info,       \* per stream and queue: in_info and out_info
  params,     \* per stream and queue: what the back end uses
  draining,   \* per stream: the back end has a drain to finish
  streaming,  \* per stream: the queues for which start_streaming was called
  bst,        \* per buffer: its state in vb2; "prep" is queued but not given to the driver
  rid,        \* per buffer: its resource_id
  resource_idr, \* vvd->resource_idr
  attached,   \* buffers whose memory the back end has
  owed,       \* per buffer: how many of its RESOURCE_QUEUEs the back end has to answer
  pending_buf_list, \* vvd->pending_buf_list, which the camera uses
  vd,         \* who holds video_dev->lock: a stream, "work" or None
  iop,        \* per stream: the ioctl under way under video_dev->lock
  qop,        \* per stream: the ioctl under way under vq_mutex, or the stop of a queue by release
  events,     \* events on their way to the work item
  wk,         \* the event the work item handles
  opens, calls, posted, \* how many opens, ioctls and events there were
  past,       \* history, per stream: what has happened to it
  unsent,     \* history: buffers the driver has, or lists, whose RESOURCE_QUEUE was not sent
  early       \* history: buffers that vb2 had back while the back end owed an answer

bufVars == <<bst, rid, resource_idr, attached, owed, pending_buf_list, unsent, early>>
infoVars == <<info, params>>
evVars == <<events, wk, posted>>
countVars == <<opens, calls>>
vars == <<dev, busy, pc, state, infoVars, draining, streaming, bufVars, vd, iop, qop, evVars,
          countVars, past>>

NoInfo == [q \in {"in", "out"} |-> [fmt |-> None, crop |-> FALSE]]
NoOp == [at |-> "none", kind |-> None, q |-> None, v |-> None]
IsM2m == dev # "cam"
Queues == IF IsM2m THEN {"in", "out"} ELSE {"out"}
Ids == 1..Cardinality(Bufs)
BufsOf(s, q) == {b \in Bufs : StreamOf[b] = s /\ QueueOf[b] = q}
\* What past remembers: a drain was over before the state was DRAIN; a clear ended a drain; a
\* command failed and left a format unlike the back end's; the open failed while the work item had
\* the stream.
Past == {"overtaken", "cleared", "failed", "raced"}
Note(s, h) == past' = [past EXCEPT ![s] = @ \cup h]
NoNote == past' = past
NoteFailure(s) ==
  Note(s, IF params[s] # None /\ \E q \in Queues : info'[s][q] # params[s][q] THEN {"failed"} ELSE {})

\* virtio_video_state_update, whose compare and exchange keeps an error.
Order == <<"idle", "init", "dynamic_res_change", "running", "drain", "stopped", "reset", "error">>
AtLeastInit(s) == state[s] # "idle"
IsError(s) == state[s] = "error"
Update(s, new) == state' = [state EXCEPT ![s] = IF IsError(s) THEN @ ELSE new]
-----------------------------------------------------------------------------
\* Open.  The stream is in stream_idr from its id until an open that fails, or release, puts it.

GoTo(s, l) == pc' = [pc EXCEPT ![s] = l]
InIdr(s) == pc[s] \notin {"free", "id", "clear_busy"}

\* Faulty: an open that finds the camera busy goes through the error path.
OpenBusyClears(s) ==
  /\ pc[s] = "free" /\ vd = None /\ opens < MaxOpens
  /\ opens' = opens + 1
  /\ IF IsM2m \/ ~busy
     THEN busy' = ~IsM2m /\ GoTo(s, "id")
     ELSE GoTo(s, "clear_busy") /\ UNCHANGED busy
  /\ UNCHANGED <<dev, state, infoVars, draining, streaming, bufVars, vd, iop, qop, evVars, calls, past>>
\* virtio_video_set_device_busy: only one open of a camera at a time.
OpenBusy(s) ==
  /\ pc[s] = "free" /\ vd = None /\ opens < MaxOpens
  /\ opens' = opens + 1
  /\ IF IsM2m \/ ~busy
     THEN busy' = ~IsM2m /\ GoTo(s, "id")
     ELSE UNCHANGED <<busy, pc>>
  /\ UNCHANGED <<dev, state, infoVars, draining, streaming, bufVars, vd, iop, qop, evVars, calls, past>>

\* virtio_video_stream_id_get and the STREAM_CREATE command, which is not waited for.
OpenCreate(s) ==
  /\ pc[s] = "id"
  /\ \/ /\ \E f \in [{"in", "out"} -> Fmts] :
             params' = [params EXCEPT ![s] = [q \in {"in", "out"} |-> [fmt |-> f[q], crop |-> FALSE]]]
        /\ GoTo(s, "params")
     \/ UNCHANGED params /\ GoTo(s, "fail")
  /\ past' = [past EXCEPT ![s] = {}]
  /\ UNCHANGED <<dev, busy, state, info, draining, streaming, bufVars, vd, iop, qop, evVars,
                 countVars>>

\* virtio_video_state_reset, virtio_video_stream_get_params, virtio_video_stream_get_controls.
OpenParams(s) ==
  /\ pc[s] = "params"
  /\ state' = [state EXCEPT ![s] = "idle"]
  /\ \/ GoTo(s, "queues") /\ info' = [info EXCEPT ![s] = [q \in {"in", "out"} |->
                                        IF q \in Queues THEN params[s][q] ELSE @[q]]]
     \/ GoTo(s, "fail") /\ UNCHANGED info
  /\ UNCHANGED <<dev, busy, params, draining, streaming, bufVars, vd, iop, qop, evVars,
                 countVars, past>>

\* The queues, v4l2_fh_add and init_ctrls.
OpenQueues(s) ==
  /\ pc[s] = "queues"
  /\ GoTo(s, "open") \/ GoTo(s, "fail")
  /\ UNCHANGED <<dev, busy, state, infoVars, draining, streaming, bufVars, vd, iop, qop, evVars,
                 countVars, past>>

Free(s) ==
  /\ state' = [state EXCEPT ![s] = "idle"]
  /\ draining' = [draining EXCEPT ![s] = FALSE]
  /\ info' = [info EXCEPT ![s] = NoInfo]

\* err_stream_create, without video_dev->lock and without STREAM_DESTROY.
OpenFail(s) ==
  /\ pc[s] = "fail" /\ GoTo(s, "clear_busy")
  /\ Free(s)
  /\ Note(s, IF wk.s = s THEN {"raced"} ELSE {})
  /\ UNCHANGED <<dev, busy, params, streaming, bufVars, vd, iop, qop, evVars, countVars>>

\* err
OpenClearBusy(s) ==
  /\ pc[s] = "clear_busy" /\ vd = None
  /\ GoTo(s, "free") /\ busy' = FALSE
  /\ UNCHANGED <<dev, state, infoVars, draining, streaming, bufVars, vd, iop, qop, evVars,
                 countVars, past>>
-----------------------------------------------------------------------------
\* Ioctls under video_dev->lock, one at a time for the whole device.

Enter(s, kind, at, q, v) ==
  /\ kind \in Kinds
  /\ pc[s] = "open" /\ vd = None /\ calls < MaxCalls /\ q \in Queues
  /\ calls' = calls + 1 /\ vd' = s
  /\ iop' = [iop EXCEPT ![s] = [at |-> at, kind |-> kind, q |-> q, v |-> v]]
  /\ UNCHANGED <<dev, busy, pc, state, infoVars, draining, streaming, bufVars, qop, evVars, opens, past>>

IAt(s, l) == iop[s].at = l
IGo(s, l) == iop' = [iop EXCEPT ![s].at = l] /\ UNCHANGED vd
IEnd(s) == iop' = [iop EXCEPT ![s] = NoOp] /\ vd' = None
Rest == <<dev, busy, pc, streaming, bufVars, qop, evVars, countVars>>

\* virtio_video_try_fmt refuses a stream in error; s_parm is an s_fmt of the input queue.
SFmt(s) == \E q \in Queues, f \in Fmts : ~IsError(s) /\ Enter(s, "s_fmt", "set", q, f)
SParm(s) == \E f \in Fmts : dev = "enc" /\ ~IsError(s) /\ Enter(s, "s_parm", "set", "in", f)
SSelection(s) ==
  \E q \in Queues : q = (IF dev = "enc" THEN "in" ELSE "out") /\ Enter(s, "s_selection", "crop", q, None)
\* A camera that gives its format is initialised.
GFmt(s) == dev = "cam" /\ Enter(s, "s_fmt", "test", "out", None)
Cmd(s) ==
  \E k \in {"start", "stop"} :
    IsM2m /\ state[s] \notin {"error", "drain"} /\ Enter(s, k, k, "out", None)

\* virtio_video_cmd_set_params is not waited for.  The back end takes the format it is given,
\* and may choose another one for the output queue of a decoder.
Setting(s, q, f) ==
  \E g \in Fmts :
    params' = [params EXCEPT ![s][q].fmt = f,
                             ![s]["out"].fmt = IF dev = "dec" THEN g ELSE IF q = "out" THEN f ELSE @]
SetParams(s) ==
  /\ IAt(s, "set")
  /\ Setting(s, iop[s].q, iop[s].v) \/ UNCHANGED params
  /\ NoNote
  /\ IGo(s, IF IsM2m THEN "get_in" ELSE "get_out")
  /\ UNCHANGED <<state, info, draining, Rest>>

\* virtio_video_cmd_get_params_cb fills the info when the answer comes, which may be just after
\* the time-out.
Get(s, q) == params[s] # None /\ info' = [info EXCEPT ![s][q] = params[s][q]]
GetParams(s, q, l) ==
  \/ Get(s, q) /\ IGo(s, l) /\ NoNote
  \/ /\ Get(s, q) \/ UNCHANGED info
     /\ IGo(s, "test") /\ NoteFailure(s)
GetIn(s) == IAt(s, "get_in") /\ GetParams(s, "in", "get_out") /\ UNCHANGED <<state, params, draining, Rest>>
GetOut(s) == IAt(s, "get_out") /\ GetParams(s, "out", "test") /\ UNCHANGED <<state, params, draining, Rest>>

\* The queue whose format makes the stream INIT.
InitQueue == IF dev = "dec" THEN "in" ELSE "out"
Test(s) ==
  /\ IAt(s, "test")
  /\ IF iop[s].kind = "s_fmt" /\ iop[s].q = InitQueue /\ state[s] = "idle"
     THEN IGo(s, "init") ELSE IEnd(s)
  /\ UNCHANGED <<state, infoVars, draining, past, Rest>>
SetInit(s) ==
  /\ IAt(s, "init") /\ Update(s, "init") /\ IEnd(s)
  /\ UNCHANGED <<infoVars, draining, past, Rest>>

\* virtio_video_*_s_selection: the crop is set here, the command does not carry it, and what
\* GET_PARAMS brings replaces it.
Crop(s) ==
  LET q == iop[s].q IN
  /\ IAt(s, "crop")
  /\ info' = [info EXCEPT ![s][q].crop = TRUE]
  /\ \/ Setting(s, q, info[s][q].fmt) /\ IGo(s, "get") /\ NoNote
     \/ UNCHANGED params /\ IEnd(s) /\ NoteFailure(s)
  /\ UNCHANGED <<state, draining, Rest>>
CropGet(s) ==
  LET q == iop[s].q IN
  /\ IAt(s, "get") /\ IEnd(s)
  /\ \/ Get(s, q) /\ NoNote
     \/ (Get(s, q) \/ UNCHANGED info) /\ NoteFailure(s)
  /\ UNCHANGED <<state, params, draining, Rest>>

\* V4L2_*_CMD_START
Start(s) ==
  /\ IAt(s, "start") /\ IEnd(s)
  /\ IF dev = "enc" THEN Update(s, "running") ELSE UNCHANGED state
  /\ UNCHANGED <<infoVars, draining, past, Rest>>

\* V4L2_*_CMD_STOP: nothing unless both queues stream, else the STREAM_DRAIN command, which is
\* not waited for, and then the state.
Drain(s) ==
  /\ IAt(s, "stop")
  /\ \/ streaming[s] = {"in", "out"} /\ draining' = [draining EXCEPT ![s] = TRUE] /\ IGo(s, "drain")
     \/ UNCHANGED draining /\ IEnd(s)
  /\ past' = [past EXCEPT ![s] = @ \ {"overtaken", "cleared"}]
  /\ UNCHANGED <<state, infoVars, Rest>>
SetDrain(s) ==
  /\ IAt(s, "drain") /\ Update(s, "drain") /\ IEnd(s)
  /\ UNCHANGED <<infoVars, draining, past, Rest>>
-----------------------------------------------------------------------------
\* Queue ioctls, under the stream's vq_mutex, which the state is read under too.

QBegin(s, kind, at, q, v) ==
  /\ pc[s] = "open" /\ qop[s] = NoOp /\ q \in Queues
  /\ qop' = [qop EXCEPT ![s] = [at |-> at, kind |-> kind, q |-> q, v |-> v]]
QAt(s, l) == qop[s].at = l
QGo(s, l) == qop' = [qop EXCEPT ![s].at = l]
QEnd(s) == qop' = [qop EXCEPT ![s] = NoOp]
QRest == <<dev, busy, infoVars, vd, iop, evVars, countVars>>

\* virtio_video_resource_id_get: idr_alloc gives the lowest free id.
LowestFree == CHOOSE i \in Ids \ resource_idr : \A j \in Ids \ resource_idr : i <= j

\* Faulty: the id is not put when RESOURCE_ATTACH fails.
BufInitKeepsId(b) ==
  LET s == StreamOf[b] IN
  /\ pc[s] = "open" /\ qop[s] = NoOp /\ QueueOf[b] \in Queues /\ ~IsError(s)
  /\ bst[b] = "none" /\ owed[b] = 0 /\ Ids \ resource_idr # {}
  /\ resource_idr' = resource_idr \cup {LowestFree}
  /\ \/ /\ bst' = [bst EXCEPT ![b] = "user"]
        /\ rid' = [rid EXCEPT ![b] = LowestFree]
        /\ attached' = attached \cup {b}
     \/ UNCHANGED <<bst, rid, attached>>
  /\ UNCHANGED <<pc, state, draining, streaming, owed, pending_buf_list, unsent, early, qop, past, QRest>>
\* REQBUFS or CREATE_BUFS: virtio_video_queue_setup, then virtio_video_buf_init, which takes an id
\* and sends RESOURCE_ATTACH; if that fails the id is put.  A buffer the back end has still to
\* answer keeps its name.
BufInit(b) ==
  LET s == StreamOf[b] IN
  /\ pc[s] = "open" /\ qop[s] = NoOp /\ QueueOf[b] \in Queues /\ ~IsError(s)
  /\ bst[b] = "none" /\ owed[b] = 0 /\ \A i \in DOMAIN pending_buf_list : pending_buf_list[i] # b
  /\ \/ /\ bst' = [bst EXCEPT ![b] = "user"]
        /\ rid' = [rid EXCEPT ![b] = LowestFree]
        /\ resource_idr' = resource_idr \cup {LowestFree}
        /\ attached' = attached \cup {b}
     \/ UNCHANGED <<bst, rid, resource_idr, attached>>
  /\ UNCHANGED <<pc, state, draining, streaming, owed, pending_buf_list, unsent, early, qop, past, QRest>>

\* virtio_video_buf_queue for each of B: a camera lists the buffer, and keeps it listed if
\* RESOURCE_QUEUE is not sent.  vb2 does not see that it failed.
Enqueue(B) ==
  /\ \A b \in B : owed[b] < MaxOwed /\ b \notin ToSet(pending_buf_list)
  /\ bst' = [b \in Bufs |-> IF b \in B THEN "active" ELSE bst[b]]
  /\ pending_buf_list' = IF IsM2m THEN pending_buf_list ELSE pending_buf_list \o SetToSeq(B)
  /\ \E lost \in SUBSET B :
       /\ owed' = [b \in Bufs |-> IF b \in B \ lost THEN owed[b] + 1 ELSE owed[b]]
       /\ unsent' = (unsent \ B) \cup lost

\* VIDIOC_QBUF
QBuf(b) ==
  /\ bst[b] = "user" /\ ~IsError(StreamOf[b]) /\ QBegin(StreamOf[b], "qbuf", "queue", QueueOf[b], b)
  /\ UNCHANGED <<pc, state, draining, streaming, bufVars, past, QRest>>
QBufQueue(s) ==
  LET b == qop[s].v IN
  /\ QAt(s, "queue") /\ QEnd(s)
  /\ IF qop[s].q \in streaming[s]
     THEN Enqueue({b})
     ELSE bst' = [bst EXCEPT ![b] = "prep"] /\ UNCHANGED <<owed, pending_buf_list, unsent>>
  /\ UNCHANGED <<pc, state, draining, streaming, rid, resource_idr, attached, early, past, QRest>>

\* VIDIOC_DQBUF
DQBuf(b) ==
  LET s == StreamOf[b] IN
  /\ pc[s] = "open" /\ qop[s] = NoOp /\ bst[b] = "done" /\ ~IsError(s)
  /\ bst' = [bst EXCEPT ![b] = "user"]
  /\ UNCHANGED <<pc, state, draining, streaming, rid, resource_idr, attached, owed, pending_buf_list,
                 unsent, early, qop, past, QRest>>

\* VIDIOC_STREAMON: vb2 gives the buffers to the driver and then calls start_streaming.
StreamOn(s, q) ==
  LET B == {b \in BufsOf(s, q) : bst[b] = "prep"} IN
  /\ q \notin streaming[s] /\ \E b \in BufsOf(s, q) : bst[b] # "none"
  /\ QBegin(s, "streamon", "start", q, None) /\ Enqueue(B)
  /\ UNCHANGED <<pc, state, draining, streaming, rid, resource_idr, attached, early, past, QRest>>

\* The states in which start_streaming makes the stream RUNNING.
Starts(s, q) ==
  CASE dev = "dec" -> q = "out" /\ AtLeastInit(s)
    [] dev = "cam" -> AtLeastInit(s)
    [] OTHER -> \/ state[s] = "init"
                \/ q = "out" /\ state[s] = "reset"
                \/ q = "in" /\ state[s] = "stopped"
On(s) == QEnd(s) /\ streaming' = [streaming EXCEPT ![s] = @ \cup {qop[s].q}]
\* A start that is refused gives vb2 its buffers back; the back end is not asked for them.
StartRefused(s) ==
  LET B == {b \in BufsOf(s, qop[s].q) : bst[b] = "active"} IN
  /\ QAt(s, "start") /\ IsError(s) /\ QEnd(s)
  /\ bst' = [b \in Bufs |-> IF b \in B THEN "prep" ELSE bst[b]]
  /\ early' = early \cup {b \in B : owed[b] > 0}
  /\ unsent' = unsent \ (B \ ToSet(pending_buf_list))
  /\ UNCHANGED <<pc, state, draining, streaming, rid, resource_idr, attached, owed, pending_buf_list,
                 past, QRest>>
StartTest(s) ==
  /\ QAt(s, "start") /\ ~IsError(s)
  /\ IF Starts(s, qop[s].q) THEN QGo(s, "run") /\ UNCHANGED streaming ELSE On(s)
  /\ UNCHANGED <<pc, state, draining, bufVars, past, QRest>>
StartRun(s) ==
  /\ QAt(s, "run") /\ Update(s, "running") /\ On(s)
  /\ UNCHANGED <<pc, draining, bufVars, past, QRest>>

\* VIDIOC_STREAMOFF: stop_streaming if the queue streams, then every buffer is the user's.
StreamOff(s, q) ==
  /\ QBegin(s, "streamoff", IF q \in streaming[s] THEN "clear" ELSE "cancel", q, None)
  /\ UNCHANGED <<pc, state, draining, streaming, bufVars, past, QRest>>

\* QUEUE_CLEAR, which is waited for.  The back end answers every RESOURCE_QUEUE before it, and a
\* drain may be over with it.
Cleared(s, q) ==
  /\ \A b \in BufsOf(s, q) : owed[b] = 0
  /\ \/ UNCHANGED draining /\ NoNote
     \/ draining[s] /\ draining' = [draining EXCEPT ![s] = FALSE] /\ Note(s, {"cleared"})
\* virtio_video_queue_release_buffers of a camera: the head of the list is completed as long as
\* there is one, and only an answer takes it off the list.
Pop ==
  LET b == Head(pending_buf_list) IN
  /\ bst' = [bst EXCEPT ![b] = IF @ = "active" THEN "done" ELSE @]
  /\ early' = IF bst[b] = "active" THEN early \cup {b} ELSE early
  /\ UNCHANGED <<rid, resource_idr, attached, owed, pending_buf_list, unsent>>

\* A decoder and a camera wait whether or not the clear succeeded, an encoder only if it did.
StopClear(s) ==
  /\ QAt(s, "clear")
  /\ \/ Cleared(s, qop[s].q) /\ QGo(s, IF IsM2m THEN "wait" ELSE "pop") /\ UNCHANGED early
     \/ /\ UNCHANGED draining /\ NoNote
        /\ IF dev = "enc"
           THEN QGo(s, "cancel") /\ early' = early \cup {b \in BufsOf(s, qop[s].q) : owed[b] > 0}
           ELSE QGo(s, "wait") /\ UNCHANGED early
  /\ UNCHANGED <<pc, state, streaming, bst, rid, resource_idr, attached, owed, pending_buf_list,
                 unsent, QRest>>
StopPop(s) ==
  /\ QAt(s, "pop")
  /\ IF pending_buf_list = <<>> THEN QGo(s, "wait") /\ UNCHANGED bufVars ELSE Pop /\ UNCHANGED qop
  /\ UNCHANGED <<pc, state, draining, streaming, past, QRest>>
\* Faulty: stop_streaming does not wait.
StopWaitNot(s) ==
  /\ QAt(s, "wait") /\ QGo(s, "cancel")
  /\ IF dev = "enc" THEN Update(s, IF qop[s].q = "in" THEN "stopped" ELSE "reset") ELSE UNCHANGED state
  /\ UNCHANGED <<pc, draining, streaming, bufVars, past, QRest>>
\* vb2_wait_for_all_buffers
StopWait(s) ==
  /\ QAt(s, "wait") /\ \A b \in BufsOf(s, qop[s].q) : bst[b] # "active"
  /\ QGo(s, "cancel")
  /\ IF dev = "enc" THEN Update(s, IF qop[s].q = "in" THEN "stopped" ELSE "reset") ELSE UNCHANGED state
  /\ UNCHANGED <<pc, draining, streaming, bufVars, past, QRest>>
StopCancel(s) ==
  LET B == BufsOf(s, qop[s].q) IN
  /\ QAt(s, "cancel")
  /\ bst' = [b \in Bufs |-> IF b \in B /\ bst[b] # "none" THEN "user" ELSE bst[b]]
  /\ unsent' = unsent \ (B \ ToSet(pending_buf_list))
  /\ streaming' = [streaming EXCEPT ![s] = @ \ {qop[s].q}]
  /\ IF qop[s].kind = "release" THEN QGo(s, "cleanup") ELSE QEnd(s)
  /\ UNCHANGED <<pc, state, draining, rid, resource_idr, attached, owed, pending_buf_list, early,
                 past, QRest>>

\* VIDIOC_REQBUFS with a count of 0: QUEUE_DETACH_RESOURCES is waited for, and then vb2 refuses a
\* queue that streams.
ReqBufs(s, q) ==
  /\ \E b \in BufsOf(s, q) : bst[b] # "none"
  /\ QBegin(s, "reqbufs", "detach", q, None)
  /\ UNCHANGED <<pc, state, draining, streaming, bufVars, past, QRest>>
Detach(s) ==
  LET q == qop[s].q  detached == attached \ BufsOf(s, q) IN
  /\ QAt(s, "detach")
  /\ \/ /\ attached' = detached
        /\ IF q \in streaming[s] THEN QEnd(s) ELSE QGo(s, "cleanup")
     \/ attached' \in {attached, detached} /\ QEnd(s)
  /\ UNCHANGED <<pc, state, draining, streaming, bst, rid, resource_idr, owed, pending_buf_list,
                 unsent, early, past, QRest>>
\* virtio_video_buf_cleanup of every buffer of the queue.  A release goes on with the next queue.
Cleanup(s) ==
  LET q == qop[s].q  B == BufsOf(s, q) IN
  /\ QAt(s, "cleanup")
  /\ bst' = [b \in Bufs |-> IF b \in B THEN "none" ELSE bst[b]]
  /\ rid' = [b \in Bufs |-> IF b \in B THEN None ELSE rid[b]]
  /\ resource_idr' = resource_idr \ {rid[b] : b \in B}
  /\ CASE qop[s].kind = "reqbufs" -> QEnd(s)
       [] qop[s].kind = "release" /\ q = "out" /\ IsM2m ->
            qop' = [qop EXCEPT ![s].q = "in", ![s].at = IF "in" \in streaming[s] THEN "clear" ELSE "cleanup"]
       [] OTHER -> QGo(s, "destroy")
  /\ UNCHANGED <<pc, state, draining, streaming, attached, owed, pending_buf_list, unsent, early,
                 past, QRest>>
-----------------------------------------------------------------------------
\* Release: under video_dev->lock both queues are stopped and freed, then the stream goes.

Close(s) ==
  /\ vd = None /\ vd' = s /\ GoTo(s, "closing")
  /\ QBegin(s, "release", IF "out" \in streaming[s] THEN "clear" ELSE "cleanup", "out", None)
  /\ UNCHANGED <<dev, busy, state, infoVars, draining, streaming, bufVars, iop, evVars, countVars, past>>
\* STREAM_DESTROY, which is not waited for (StreamSession has its failure), and kfree.
CloseFree(s) ==
  /\ QAt(s, "destroy") /\ QEnd(s) /\ GoTo(s, "free")
  /\ Free(s) /\ params' = [params EXCEPT ![s] = None] /\ NoNote
  /\ attached' = {b \in attached : StreamOf[b] # s}
  /\ busy' = FALSE /\ vd' = None
  /\ UNCHANGED <<dev, streaming, bst, rid, resource_idr, owed, pending_buf_list, unsent, early,
                 iop, evVars, countVars>>
-----------------------------------------------------------------------------
\* Answers to RESOURCE_QUEUE: virtio_video_cmd_resource_queue_cb and virtio_video_buf_done.

\* Faulty: an answer for a stream in error does not complete its buffer.
BufDoneUnlessError(b) ==
  /\ owed[b] > 0 /\ owed' = [owed EXCEPT ![b] = @ - 1]
  /\ bst' = [bst EXCEPT ![b] = IF @ = "active" /\ ~IsError(StreamOf[b]) THEN "done" ELSE @]
  /\ pending_buf_list' = RemoveFirst(pending_buf_list, b)
  /\ early' = IF owed[b] = 1 THEN early \ {b} ELSE early
  /\ UNCHANGED <<dev, busy, pc, infoVars, streaming, rid, resource_idr, attached, unsent, vd, iop,
                 qop, evVars, countVars>>
BufDone(b) ==
  /\ owed[b] > 0 /\ owed' = [owed EXCEPT ![b] = @ - 1]
  /\ bst' = [bst EXCEPT ![b] = IF @ = "active" THEN "done" ELSE @]
  /\ pending_buf_list' = RemoveFirst(pending_buf_list, b)
  /\ early' = IF owed[b] = 1 THEN early \ {b} ELSE early
  /\ UNCHANGED <<dev, busy, pc, infoVars, streaming, rid, resource_idr, attached, unsent, vd, iop,
                 qop, evVars, countVars>>
Answer(b) == BufDone(b) /\ UNCHANGED <<state, draining, past>>
\* Faulty: the EOS flag leaves the state.
AnswerEosSilent(b) ==
  LET s == StreamOf[b] IN
  /\ draining[s] /\ QueueOf[b] = "out" /\ bst[b] # "none"
  /\ BufDone(b)
  /\ draining' = [draining EXCEPT ![s] = FALSE]
  /\ UNCHANGED state
  /\ Note(s, IF IAt(s, "drain") THEN {"overtaken"} ELSE {})
\* The last buffer of a drain has the EOS flag.
AnswerEos(b) ==
  LET s == StreamOf[b] IN
  /\ draining[s] /\ QueueOf[b] = "out" /\ bst[b] # "none"
  /\ BufDone(b)
  /\ draining' = [draining EXCEPT ![s] = FALSE]
  /\ Update(s, "stopped")
  /\ Note(s, IF IAt(s, "drain") THEN {"overtaken"} ELSE {})
-----------------------------------------------------------------------------
\* The work item: virtio_video_handle_event, with video_dev->lock from the lookup to the end.

NoEvent == [at |-> "none", s |-> None, k |-> None]
WorkRest == <<dev, busy, pc, streaming, iop, qop, events, posted, countVars>>
WGo(l) == wk' = [wk EXCEPT !.at = l] /\ UNCHANGED vd
WEnd == wk' = NoEvent /\ vd' = None

\* The back end sends an event; the resolution of a decoder's output changed before it does.
Post(s, k) ==
  /\ params[s] # None /\ posted < MaxEvents /\ <<s, k>> \notin events
  /\ posted' = posted + 1 /\ events' = events \cup {<<s, k>>}
  /\ IF k = "resolution"
     THEN dev = "dec" /\ \E f \in Fmts : params' = [params EXCEPT ![s]["out"].fmt = f]
     ELSE UNCHANGED params
  /\ UNCHANGED <<dev, busy, pc, state, info, draining, streaming, bufVars, vd, iop, qop, wk,
                 countVars, past>>

\* Faulty: the event is handled without video_dev->lock, as the MSM build does.
WorkFindUnlocked ==
  /\ wk = NoEvent /\ vd = None
  /\ \E e \in events :
       /\ events' = events \ {e}
       /\ wk' = IF InIdr(e[1]) THEN [at |-> e[2], s |-> e[1], k |-> e[2]] ELSE wk
  /\ UNCHANGED <<dev, busy, pc, state, infoVars, draining, streaming, bufVars, vd, iop, qop, posted,
                 countVars, past>>
WorkFind ==
  /\ wk = NoEvent /\ vd = None
  /\ \E e \in events :
       /\ events' = events \ {e}
       /\ IF InIdr(e[1])
          THEN wk' = [at |-> e[2], s |-> e[1], k |-> e[2]] /\ vd' = "work"
          ELSE UNCHANGED <<wk, vd>>
  /\ UNCHANGED <<dev, busy, pc, state, infoVars, draining, streaming, bufVars, iop, qop, posted,
                 countVars, past>>
WAt(l) == wk.at = l /\ InIdr(wk.s)

\* Faulty: the new format is not fetched.
WorkResolutionNoGet ==
  /\ WAt("resolution") /\ WGo("test") /\ NoNote
  /\ UNCHANGED <<state, infoVars, draining, bufVars, WorkRest>>
\* DECODER_RESOLUTION_CHANGED: GET_PARAMS of the output, the event to the application, and the
\* state, tested and then set.
WorkResolution ==
  /\ WAt("resolution") /\ WGo("test")
  /\ \/ Get(wk.s, "out") /\ NoNote
     \/ (Get(wk.s, "out") \/ UNCHANGED info) /\ NoteFailure(wk.s)
  /\ UNCHANGED <<state, params, draining, bufVars, WorkRest>>
WorkTest ==
  /\ WAt("test")
  /\ IF state[wk.s] = "init" THEN WGo("set") ELSE WEnd
  /\ UNCHANGED <<state, infoVars, draining, bufVars, past, WorkRest>>
WorkSet ==
  /\ WAt("set") /\ Update(wk.s, "dynamic_res_change") /\ WEnd
  /\ UNCHANGED <<infoVars, draining, bufVars, past, WorkRest>>

\* ERROR: the state, then virtio_video_handle_error clears the queues.
WorkError ==
  /\ WAt("error") /\ Update(wk.s, "error") /\ WGo(IF IsM2m THEN "in" ELSE "out")
  /\ UNCHANGED <<infoVars, draining, bufVars, past, WorkRest>>
WorkClear(q) ==
  /\ WAt(q)
  /\ \/ Cleared(wk.s, q) /\ IF q = "in" THEN WGo("out") ELSE IF IsM2m THEN WEnd ELSE WGo("pop")
     \/ /\ IF q = "in" THEN WGo("out") ELSE WEnd
        /\ UNCHANGED draining /\ NoNote
  /\ UNCHANGED <<state, infoVars, bufVars, WorkRest>>
WorkPop ==
  /\ WAt("pop")
  /\ IF pending_buf_list = <<>> THEN WEnd /\ UNCHANGED bufVars ELSE Pop /\ UNCHANGED <<wk, vd>>
  /\ UNCHANGED <<state, infoVars, draining, past, WorkRest>>
\* The stream was freed by an open that failed: what the work item does with it is undefined.
WorkStale ==
  /\ wk # NoEvent /\ ~InIdr(wk.s) /\ WEnd
  /\ UNCHANGED <<state, infoVars, draining, bufVars, past, WorkRest>>
-----------------------------------------------------------------------------
Init ==
  /\ dev \in Devs /\ busy = FALSE
  /\ pc = [s \in Streams |-> "free"] /\ state = [s \in Streams |-> "idle"]
  /\ info = [s \in Streams |-> NoInfo] /\ params = [s \in Streams |-> None]
  /\ draining = [s \in Streams |-> FALSE] /\ streaming = [s \in Streams |-> {}]
  /\ bst = [b \in Bufs |-> "none"] /\ rid = [b \in Bufs |-> None] /\ resource_idr = {}
  /\ attached = {} /\ owed = [b \in Bufs |-> 0] /\ pending_buf_list = <<>>
  /\ unsent = {} /\ early = {} /\ past = [s \in Streams |-> {}]
  /\ vd = None /\ iop = [s \in Streams |-> NoOp] /\ qop = [s \in Streams |-> NoOp]
  /\ events = {} /\ wk = NoEvent /\ opens = 0 /\ calls = 0 /\ posted = 0

Opening(s) == OpenBusy(s) \/ OpenCreate(s) \/ OpenParams(s) \/ OpenQueues(s) \/ OpenFail(s) \/ OpenClearBusy(s)
Calling(s) ==
  \/ SFmt(s) \/ SParm(s) \/ SSelection(s) \/ GFmt(s) \/ Cmd(s)
  \/ SetParams(s) \/ GetIn(s) \/ GetOut(s) \/ Test(s) \/ SetInit(s) \/ Crop(s) \/ CropGet(s)
  \/ Start(s) \/ Drain(s) \/ SetDrain(s)
Queueing(s) ==
  \/ \E b \in Bufs : StreamOf[b] = s /\ (BufInit(b) \/ QBuf(b) \/ DQBuf(b))
  \/ \E q \in Queues : StreamOn(s, q) \/ StreamOff(s, q) \/ ReqBufs(s, q)
QueueStep(s) ==
  \/ QBufQueue(s) \/ StartRefused(s) \/ StartTest(s) \/ StartRun(s)
  \/ StopClear(s) \/ StopPop(s) \/ StopWait(s) \/ StopCancel(s)
  \/ Detach(s) \/ Cleanup(s) \/ CloseFree(s)
Work ==
  \/ WorkFind \/ WorkResolution \/ WorkTest \/ WorkSet \/ WorkError
  \/ WorkClear("in") \/ WorkClear("out") \/ WorkPop \/ WorkStale
BackEnd ==
  \/ \E b \in Bufs : Answer(b) \/ AnswerEos(b)
  \/ \E s \in Streams, k \in EventKinds : Post(s, k)

Next ==
  \/ \E s \in Streams : Opening(s) \/ Calling(s) \/ Queueing(s) \/ QueueStep(s) \/ Close(s)
  \/ Work
  \/ BackEnd

Spec == Init /\ [][Next]_vars
-----------------------------------------------------------------------------
\* Types: the state is one of the enum, ids are in range, and video_dev->lock is held exactly
\* while an ioctl, a release or the work item is under way.
TypeOK ==
  /\ dev \in Devs /\ busy \in BOOLEAN
  /\ pc \in [Streams -> {"free", "id", "params", "queues", "fail", "clear_busy", "open", "closing"}]
  /\ state \in [Streams -> ToSet(Order)] /\ info \in [Streams -> [{"in", "out"} -> Format]]
  /\ params \in [Streams -> [{"in", "out"} -> Format] \cup {None}]
  /\ draining \in [Streams -> BOOLEAN] /\ streaming \in [Streams -> SUBSET Queues]
  /\ bst \in [Bufs -> {"none", "user", "prep", "active", "done"}] /\ rid \in [Bufs -> Ids \cup {None}]
  /\ resource_idr \subseteq Ids /\ attached \subseteq Bufs /\ owed \in [Bufs -> 0..MaxOwed]
  /\ ToSet(pending_buf_list) \subseteq Bufs /\ unsent \subseteq Bufs /\ early \subseteq Bufs
  /\ past \in [Streams -> SUBSET Past] /\ vd \in Streams \cup {None, "work"}
  /\ events \subseteq Streams \X EventKinds
  /\ opens \in 0..MaxOpens /\ calls \in 0..MaxCalls /\ posted \in 0..MaxEvents
  /\ \A s \in Streams : (iop[s] # NoOp \/ pc[s] = "closing") <=> vd = s
  /\ wk # NoEvent <=> vd = "work"

\* A buffer the back end has still to answer, or that pending_buf_list holds, is not freed: the
\* answer's callback and the list would use it (virtio_video_cmd_resource_queue_cb,
\* virtio_video_pending_buf_list_pop).  Unless it went back to vb2 early: after an encoder's clear
\* that failed, a start that was refused, or by the loop of the camera; or was listed and not sent.
NoStaleBuffer ==
  \A b \in Bufs : bst[b] = "none" =>
    /\ owed[b] > 0 => b \in early
    /\ b \in ToSet(pending_buf_list) => b \in early \cup unsent

\* What the driver has, the back end has to answer, so that vb2_wait_for_all_buffers ends; except a
\* buffer whose RESOURCE_QUEUE was not sent, which virtio_video_buf_queue tells nobody.
ActiveOwed == \A b \in Bufs : bst[b] = "active" => owed[b] > 0 \/ b \in unsent

\* The back end has no memory attached that vb2 has freed (virtio_video_queue_free comes first),
\* but while a release is under way, which frees the buffers before STREAM_DESTROY.
FreedDetached == \A b \in attached : bst[b] # "none" \/ pc[StreamOf[b]] = "closing"

\* resource_idr has the ids of the initialised buffers and no other, and no two share one
\* (virtio_video_resource_id_get, virtio_video_resource_id_put).
RidsExact ==
  /\ resource_idr = {rid[b] : b \in {c \in Bufs : bst[c] # "none"}}
  /\ \A b, c \in Bufs : b # c /\ bst[b] # "none" /\ bst[c] # "none" => rid[b] # rid[c]

\* The stream the work item uses is not freed under it (virtio_video_handle_event takes
\* video_dev->lock, which release holds), but for an open that fails, which takes no lock.
NoStaleUse == wk # NoEvent => InIdr(wk.s) \/ "raced" \in past[wk.s]

\* Once no ioctl and no event is under way, what an open stream holds of its formats is what the
\* back end uses, whatever the order of S_FMT, S_PARM, S_SELECTION and resolution changes; unless
\* a failed command, which the ioctls ignore, left them apart.
InfoAgrees ==
  \A s \in Streams :
    (/\ pc[s] = "open" /\ iop[s] = NoOp /\ wk.s # s /\ <<s, "resolution">> \notin events
     /\ "failed" \notin past[s])
      => \A q \in Queues : info[s][q] = params[s][q]

\* A stream in DRAIN, in which no further command is taken, has a drain to be finished: EOS is
\* still to come (virtio_video_buf_done).  Unless it came before the state was set, or a clear
\* ended the drain.
DrainAnswered ==
  \A s \in Streams :
    state[s] = "drain" => draining[s] \/ past[s] \cap {"overtaken", "cleared"} # {}

\* A camera has one user at a time, from the busy mark to its release or failed open
\* (virtio_video_set_device_busy, virtio_video_clear_device_busy).
OneCamera ==
  ~IsM2m => /\ Cardinality({s \in Streams : pc[s] # "free"}) <= 1
            /\ busy <=> \E s \in Streams : pc[s] # "free"

\* resource_idr is exact whatever command fails, and every variable has its type
\* (virtio_video_buf_init, virtio_video_buf_cleanup).
IdsExact == TypeOK /\ RidsExact

\* Freed buffers are neither used by an answer or the list, nor attached at the back end, in
\* whatever order stops, REQBUFS, release and failing commands come
\* (virtio_video_queue_free, virtio_video_queue_release_buffers).
NothingStale == NoStaleBuffer /\ FreedDetached
=============================================================================
