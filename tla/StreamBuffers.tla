---------------------------- MODULE StreamBuffers ----------------------------
(***************************************************************************)
(* The buffers of all streams of a device, and its one list of pending     *)
(* buffers: queued by ioctls, given back by the work item of the event     *)
(* queue, by a stop of their queue, or by an error event.  Sources:        *)
(* driver/virtio_video_msm_vb2.c, virtio_video_device.c,                   *)
(* virtio_video_vq.c, virtio_video_msm_vq.c, virtio_video_msm_v4l2.c.      *)
(*                                                                         *)
(* stream->vq_mutex admits one ioctl of a stream at a time to its buffers; *)
(* pending_buf_list_lock protects each walk over the list and nothing      *)
(* more.  A step that touches freed memory, or a list that is linked wrong,*)
(* is undefined: the model ends where the next step could be one.  It also *)
(* ends when an event has found a buffer that is not its own: past that,   *)
(* list and buffers of both streams disagree, and nothing is promised.     *)
(***************************************************************************)
EXTENDS Integers, Sequences, SequencesExt, FiniteSets

CONSTANTS
  Bufs,       \* vb2 buffers, each a struct virtio_video_buffer
  Queues,     \* vb2 queues
  QueueOf,    \* the queue of each buffer
  Streams,    \* open files
  OwnerOf,    \* the stream of each queue
  MetaOf,     \* the meta queue of each data queue
  Ids,        \* export ids of HAB, of all streams
  MaxQueued,  \* bound: calls of msm_vidc_buf_queue
  MaxErrors,  \* bound: error events
  None

DataQueues == DOMAIN MetaOf
MetaQueues == Queues \ DataQueues
StreamOf == [b \in Bufs |-> OwnerOf[QueueOf[b]]]
BufsOf(q) == {b \in Bufs : QueueOf[b] = q}

\* EBD or FBD of a buffer, or an error of a stream.
Event ==
  [stream : Streams, buf : Bufs, id : Ids] \cup [stream : Streams, buf : {None}, id : {None}]

ASSUME StreamBuffersAssumption ==
  /\ QueueOf \in [Bufs -> Queues]
  /\ OwnerOf \in [Queues -> Streams]
  /\ DataQueues \subseteq Queues
  /\ \A q \in DataQueues : MetaOf[q] \in MetaQueues /\ OwnerOf[MetaOf[q]] = OwnerOf[q]
  /\ MaxQueued \in Nat /\ MaxErrors \in Nat
  /\ None \notin Bufs \cup Ids \cup Queues \cup Event

VARIABLES
  st,        \* vb->state of each buffer; "done" is DONE or ERROR
  rid,       \* virtio_vb->resource_id, as it was last set
  eid,       \* the export id of each buffer in the export cache, or None
  pending,   \* vvd->pending_buf_list
  on,        \* queues with start_streaming_called
  error,     \* streams with STREAM_STATE_ERROR
  us,        \* where the ioctl of each stream is
  ub,        \* the buffer it queues
  uq,        \* the queue it starts or stops
  bk,        \* buffers that the back end uses, each with its export id
  events,    \* events on their way, oldest first
  wk,        \* where virtio_video_handle_event is
  wev,       \* the event it handles
  wb,        \* virtio_vb, the buffer it found
  queued,    \* calls of msm_vidc_buf_queue so far
  errors,    \* error events so far
  failed,    \* history: streams of which a command failed that left the state as it was (-ENOMEM)
  twice,     \* history: buffers of which vb2_buffer_done found that they were not active
  relinked,  \* history: buffers that joined the list a second time
  wrong      \* history: <<s, t>>, an event of s took a buffer of t that was not its own

usVars == <<us, ub, uq>>
wkVars == <<wk, wev, wb>>
histVars == <<queued, errors, failed, twice, relinked, wrong>>
vars == <<st, rid, eid, pending, on, error, usVars, bk, events, wkVars, histVars>>

\* A buffer whose memory, or whose stream's, is freed.
Gone(b) == st[b] = "freed" \/ us[StreamOf[b]] = "closed"

\* What the next step does is given by the code, and no event was mistaken.
Defined ==
  /\ wrong = {}
  /\ relinked = {}
  /\ \A b \in ToSet(pending) : ~Gone(b)
  /\ wb # None => ~Gone(wb)

\* vb2_buffer_done for the buffers bs: it takes active ones only.
BufferDone(bs) ==
  /\ st' = [b \in Bufs |-> IF b \in bs /\ st[b] = "active" THEN "done" ELSE st[b]]
  /\ twice' = twice \cup {b \in bs : st[b] # "active"}

\* list_for_each_entry_safe: the list without the buffers bs.
Without(list, bs) ==
  LET walked[n \in 0..Len(list)] ==
        IF n = 0 THEN <<>>
        ELSE IF list[n] \in bs THEN walked[n - 1] ELSE Append(walked[n - 1], list[n])
  IN  walked[Len(list)]

\* virtio_video_queue_release_buffers for the queues qs, in one step: what the others do between
\* two of the walks they could do before or after.  The test `state & VB2_BUF_STATE_ACTIVE' is
\* true of VB2_BUF_STATE_DONE and _ERROR too.
Releasable(qs) == {b \in ToSet(pending) : QueueOf[b] \in qs /\ st[b] \in {"active", "done"}}
Release(qs) ==
  /\ pending' = Without(pending, Releasable(qs))
  /\ BufferDone(Releasable(qs))

\* The first pending buffer with this resource id.
With(id) == {i \in 1..Len(pending) : rid[pending[i]] = id}
First(id) == CHOOSE i \in With(id) : \A j \in With(id) : i <= j

\* Event e finds buffer b by its id.
Finds(e, b) == wrong' = wrong \cup (IF b = e.buf THEN {} ELSE {<<e.stream, StreamOf[b]>>})

\* An ioctl of stream s goes on, or returns.
Go(s, label) == us' = [us EXCEPT ![s] = label]
\* It has dealt with its buffer: vb2_start_streaming goes on with the next.
NextBuffer(s) ==
  /\ Go(s, IF uq[s] = None THEN "idle" ELSE "enqueue")
  /\ ub' = [ub EXCEPT ![s] = None]
  /\ UNCHANGED uq
Return(s) ==
  /\ Go(s, "idle")
  /\ uq' = [uq EXCEPT ![s] = None]
  /\ UNCHANGED ub

\* A command of stream s that fails: virtio_video_v4l2_to_hab.
CommandFails(s) ==
  \/ error' = error \cup {s} /\ UNCHANGED failed
  \/ failed' = failed \cup {s} /\ UNCHANGED error
-----------------------------------------------------------------------------
(* __enqueue_in_driver makes a buffer active and calls msm_vidc_buf_queue.  *)

\* In the error state, or without an export id, the buffer goes back at once.
Refuse(s, b) ==
  /\ st' = [st EXCEPT ![b] = "done"]
  /\ UNCHANGED <<rid, eid, us, ub>>

\* An id that no buffer is exported under.
FreeIds == {id \in Ids : \A b \in Bufs : eid[b] # id}

\* msm_buf_get_export_id, and resource_id.
Accept(s, b) ==
  /\ s \notin error
  /\ st' = [st EXCEPT ![b] = "active"]
  /\ \E id \in IF eid[b] = None THEN FreeIds ELSE {eid[b]} :
       /\ eid' = [eid EXCEPT ![b] = id]
       /\ rid' = [rid EXCEPT ![b] = id]
  /\ ub' = [ub EXCEPT ![s] = b]
  /\ Go(s, "add")

Enqueue(s, b) ==
  /\ queued < MaxQueued
  /\ queued' = queued + 1
  /\ Refuse(s, b) \/ Accept(s, b)
  /\ UNCHANGED <<pending, on, error, uq, bk, events, wkVars, errors, failed, twice, relinked, wrong>>

\* msm_v4l2_qbuf: in the error state it returns 0 and does nothing, unless the error comes
\* after its test.
Qbuf(b) ==
  /\ us[StreamOf[b]] = "idle"
  /\ st[b] = "dequeued"
  /\ QueueOf[b] \in on
  /\ Enqueue(StreamOf[b], b)

\* Before its queue streams, the buffer waits in the queue.
QbufEarly(b) ==
  /\ us[StreamOf[b]] = "idle" /\ StreamOf[b] \notin error
  /\ st[b] = "dequeued"
  /\ QueueOf[b] \notin on
  /\ st' = [st EXCEPT ![b] = "queued"]
  /\ UNCHANGED <<rid, eid, pending, on, error, usVars, bk, events, wkVars, histVars>>

\* msm_v4l2_dqbuf.
Dqbuf(b) ==
  /\ us[StreamOf[b]] = "idle"
  /\ QueueOf[b] \in on
  /\ st[b] = "done"
  /\ st' = [st EXCEPT ![b] = "dequeued"]
  /\ UNCHANGED <<rid, eid, pending, on, error, usVars, bk, events, wkVars, histVars>>
-----------------------------------------------------------------------------
(* The rest of msm_vidc_buf_queue.                                         *)

\* virtio_video_pending_buf_list_add.
QueueAdd(s) ==
  /\ us[s] = "add"
  /\ IF ub[s] \in ToSet(pending)
       THEN relinked' = relinked \cup {ub[s]} /\ UNCHANGED pending
       ELSE pending' = Append(pending, ub[s]) /\ UNCHANGED relinked
  /\ Go(s, "send")
  /\ UNCHANGED <<st, rid, eid, on, error, ub, uq, bk, events, wkVars, queued, errors, failed, twice, wrong>>

QueueSend(s) ==
  /\ us[s] = "send"
  /\ bk' = bk \cup {<<ub[s], rid[ub[s]]>>}
  /\ NextBuffer(s)
  /\ UNCHANGED <<st, rid, eid, pending, on, error, events, wkVars, histVars>>

\* QBUF is not sent: the buffer goes back, and stays on the pending list.
QueueSendFail(s) ==
  /\ us[s] = "send"
  /\ CommandFails(s)
  /\ eid' = [eid EXCEPT ![ub[s]] = None]
  /\ BufferDone({ub[s]})
  /\ NextBuffer(s)
  /\ UNCHANGED <<rid, pending, on, bk, events, wkVars, queued, errors, relinked, wrong>>
-----------------------------------------------------------------------------
(* msm_v4l2_streamon: vb2_start_streaming enqueues what is queued, then     *)
(* calls msm_vidc_start_streaming.  A queue without buffers is refused.     *)

StreamOn(q) ==
  LET s == OwnerOf[q] IN
  /\ us[s] = "idle" /\ s \notin error
  /\ q \notin on
  /\ \A b \in BufsOf(q) : st[b] # "freed"
  /\ uq' = [uq EXCEPT ![s] = q]
  /\ Go(s, "enqueue")
  /\ UNCHANGED <<st, rid, eid, pending, on, error, ub, bk, events, wkVars, histVars>>

EnqueueNext(s) ==
  /\ us[s] = "enqueue"
  /\ \E b \in BufsOf(uq[s]) : st[b] = "queued" /\ Enqueue(s, b)

EnqueuedAll(s) == us[s] = "enqueue" /\ \A b \in BufsOf(uq[s]) : st[b] # "queued"

\* An error that comes while the command is on its way does not stop it.
Start(s) ==
  /\ EnqueuedAll(s)
  /\ on' = on \cup {uq[s]}
  /\ Return(s)
  /\ UNCHANGED <<st, rid, eid, pending, error, bk, events, wkVars, histVars>>

\* vb2_start_streaming takes back what it enqueued; the pending list is as it was.
StartFail(s) ==
  /\ EnqueuedAll(s)
  /\ \/ s \in error /\ UNCHANGED <<error, failed>>
     \/ s \notin error /\ uq[s] \in DataQueues /\ CommandFails(s)
  /\ st' = [b \in Bufs |-> IF QueueOf[b] = uq[s] /\ st[b] = "active" THEN "queued" ELSE st[b]]
  /\ Return(s)
  /\ UNCHANGED <<rid, eid, pending, on, bk, events, wkVars, queued, errors, twice, relinked, wrong>>
-----------------------------------------------------------------------------
(* msm_v4l2_streamoff: __vb2_queue_cancel calls msm_vidc_stop_streaming if  *)
(* the queue streams, then takes every buffer out of it.                    *)

Cancelled(q) ==
  [b \in Bufs |-> IF QueueOf[b] = q /\ st[b] # "freed" THEN "dequeued" ELSE st[b]]

StopIdle(q) ==
  /\ us[OwnerOf[q]] = "idle"
  /\ q \notin on
  /\ st' = Cancelled(q)
  /\ UNCHANGED <<rid, eid, pending, on, error, usVars, bk, events, wkVars, histVars>>

\* A faulty stop: the buffers of a meta queue are taken back without asking the back end.
StopReleasesMeta(q) ==
  LET s == OwnerOf[q] IN
  /\ us[s] = "idle"
  /\ q \in on
  /\ uq' = [uq EXCEPT ![s] = q]
  /\ Go(s, IF s \in error \/ q \in MetaQueues THEN "release" ELSE "off")
  /\ UNCHANGED <<st, rid, eid, pending, on, error, ub, bk, events, wkVars, histVars>>

\* A faulty stop: nothing is released in the error state.
StopReleasesNothing(q) ==
  LET s == OwnerOf[q] IN
  /\ us[s] = "idle"
  /\ q \in on
  /\ uq' = [uq EXCEPT ![s] = q]
  /\ Go(s, IF s \in error \/ q \in MetaQueues THEN "wait" ELSE "off")
  /\ UNCHANGED <<st, rid, eid, pending, on, error, ub, bk, events, wkVars, histVars>>

\* By the state: release, wait at once (a meta queue), or a streamoff command.
Stop(q) ==
  LET s == OwnerOf[q] IN
  /\ us[s] = "idle"
  /\ q \in on
  /\ uq' = [uq EXCEPT ![s] = q]
  /\ Go(s, CASE s \in error -> "release" [] s \notin error /\ q \in MetaQueues -> "wait" [] OTHER -> "off")
  /\ UNCHANGED <<st, rid, eid, pending, on, error, ub, bk, events, wkVars, histVars>>

\* msm_buf_put_export_queue_type, for the queue and its meta queue.
Unexported(q) ==
  [b \in Bufs |-> IF QueueOf[b] \in {q, MetaOf[q]} THEN None ELSE eid[b]]

\* The buffers that the back end uses.
Using == {use[1] : use \in bk}

\* A faulty streamoff: the pending buffers are released also when it has succeeded.
OffReleases(s) ==
  /\ us[s] = "off"
  /\ Using \cap (BufsOf(uq[s]) \cup BufsOf(MetaOf[uq[s]])) = {}
  /\ eid' = Unexported(uq[s])
  /\ Go(s, "release")
  /\ UNCHANGED <<st, rid, pending, on, error, ub, uq, bk, events, wkVars, histVars>>

\* The back end answers when it has given up the buffers of both.
Off(s) ==
  /\ us[s] = "off"
  /\ Using \cap (BufsOf(uq[s]) \cup BufsOf(MetaOf[uq[s]])) = {}
  /\ eid' = Unexported(uq[s])
  /\ Go(s, "wait")
  /\ UNCHANGED <<st, rid, pending, on, error, ub, uq, bk, events, wkVars, histVars>>

OffFail(s) ==
  /\ us[s] = "off"
  /\ CommandFails(s)
  /\ eid' = Unexported(uq[s])
  /\ Go(s, "release")
  /\ UNCHANGED <<st, rid, pending, on, ub, uq, bk, events, wkVars, queued, errors, twice, relinked, wrong>>

StopRelease(s) ==
  /\ us[s] = "release"
  /\ Release({uq[s]} \cup (IF uq[s] \in DataQueues THEN {MetaOf[uq[s]]} ELSE {}))
  /\ Go(s, "wait")
  /\ UNCHANGED <<rid, eid, on, error, ub, uq, bk, events, wkVars, queued, errors, failed, relinked, wrong>>

\* A faulty stop: it does not wait for the buffers.
WaitNot(s) ==
  /\ us[s] = "wait"
  /\ st' = Cancelled(uq[s])
  /\ on' = on \ {uq[s]}
  /\ Return(s)
  /\ UNCHANGED <<rid, eid, pending, error, bk, events, wkVars, histVars>>

\* vb2_wait_for_all_buffers, then the rest of __vb2_queue_cancel.
Wait(s) ==
  /\ us[s] = "wait"
  /\ \A b \in BufsOf(uq[s]) : st[b] # "active"
  /\ st' = Cancelled(uq[s])
  /\ on' = on \ {uq[s]}
  /\ Return(s)
  /\ UNCHANGED <<rid, eid, pending, error, bk, events, wkVars, histVars>>
-----------------------------------------------------------------------------
\* msm_v4l2_reqbufs with a count of 0: vb2 frees the buffers.  A stream allocates the buffers
\* of a queue once.
Reqbufs0(q) ==
  /\ us[OwnerOf[q]] = "idle"
  /\ q \notin on
  /\ st' = [b \in Bufs |-> IF QueueOf[b] = q THEN "freed" ELSE st[b]]
  /\ UNCHANGED <<rid, eid, pending, on, error, usVars, bk, events, wkVars, histVars>>

\* Any other command of the stream fails; most ioctls do not wait for vq_mutex.
OtherCommandFails(s) ==
  /\ us[s] # "closed"
  /\ error' = error \cup {s}
  /\ UNCHANGED <<st, rid, eid, pending, on, usVars, bk, events, wkVars, histVars>>

\* virtio_video_device_release, the data queues stopped: v4l2_m2m_ctx_release frees their
\* buffers, the meta queues are not released.  stream_destroy may fail, then everything is
\* unexported.  A work item inside the stream would meet freed memory: that is not modelled.
Close(s) ==
  /\ us[s] = "idle"
  /\ \A q \in DataQueues : OwnerOf[q] = s => q \notin on
  /\ wk # "idle" => wev.stream # s
  /\ st' = [b \in Bufs |-> IF QueueOf[b] \in DataQueues /\ StreamOf[b] = s THEN "freed" ELSE st[b]]
  /\ eid' = [b \in Bufs |-> IF StreamOf[b] = s THEN None ELSE eid[b]]
  /\ \/ bk' = {use \in bk : StreamOf[use[1]] # s} /\ UNCHANGED <<error, failed>>
     \/ UNCHANGED bk /\ failed' = failed \cup {s} /\ UNCHANGED error
  /\ Go(s, "closed")
  /\ UNCHANGED <<rid, pending, on, ub, uq, events, wkVars, queued, errors, twice, relinked, wrong>>
-----------------------------------------------------------------------------
(* The back end.                                                           *)

\* It is done with a buffer: EBD or FBD.
BackendDone(use) ==
  /\ bk' = bk \ {use}
  /\ events' = Append(events, [stream |-> StreamOf[use[1]], buf |-> use[1], id |-> use[2]])
  /\ UNCHANGED <<st, rid, eid, pending, on, error, usVars, wkVars, histVars>>

BackendError(s) ==
  /\ errors < MaxErrors
  /\ errors' = errors + 1
  /\ us[s] # "closed"
  /\ events' = Append(events, [stream |-> s, buf |-> None, id |-> None])
  /\ UNCHANGED <<st, rid, eid, pending, on, error, usVars, bk, wkVars, queued, failed, twice, relinked, wrong>>
-----------------------------------------------------------------------------
(* virtio_video_handle_event, in the work item of the event queue.          *)

GetEvent == /\ wk = "idle" /\ events # <<>>
            /\ events' = Tail(events)

\* The stream is not in the idr any more.
HandleUnknown ==
  /\ GetEvent
  /\ us[Head(events).stream] = "closed"
  /\ UNCHANGED <<st, rid, eid, pending, on, error, usVars, bk, wkVars, histVars>>

HandleError ==
  /\ GetEvent
  /\ us[Head(events).stream] # "closed"
  /\ Head(events).buf = None
  /\ error' = error \cup {Head(events).stream}
  /\ wk' = "release"
  /\ wev' = Head(events)
  /\ UNCHANGED <<st, rid, eid, pending, on, usVars, bk, wb, histVars>>

\* virtio_video_handle_error.
HandleRelease ==
  /\ wk = "release"
  /\ Release({q \in Queues : OwnerOf[q] = wev.stream})
  /\ wk' = "idle"
  /\ wev' = None
  /\ UNCHANGED <<rid, eid, on, error, usVars, bk, events, wb, queued, errors, failed, relinked, wrong>>

\* virtio_video_handle_buf_done finds a buffer by the id, ...
HandleFound ==
  /\ GetEvent
  /\ us[Head(events).stream] # "closed"
  /\ Head(events).buf # None
  /\ With(Head(events).id) # {}
  /\ wb' = pending[First(Head(events).id)]
  /\ Finds(Head(events), wb')
  /\ wk' = "del"
  /\ wev' = Head(events)
  /\ UNCHANGED <<st, rid, eid, pending, on, error, usVars, bk, queued, errors, failed, twice, relinked>>

HandleNotFound ==
  /\ GetEvent
  /\ us[Head(events).stream] # "closed"
  /\ Head(events).buf # None
  /\ With(Head(events).id) = {}
  /\ UNCHANGED <<st, rid, eid, pending, on, error, usVars, bk, wkVars, histVars>>

\* A faulty one: the buffer stays on the list.
HandleDelNothing ==
  /\ wk = "del"
  /\ wk' = "done"
  /\ UNCHANGED <<st, rid, eid, pending, on, error, usVars, bk, events, wev, wb, histVars>>

\* ... virtio_video_pending_buf_list_del takes the first with the same id off the list, ...
HandleDel ==
  /\ wk = "del"
  /\ \/ With(rid[wb]) = {} /\ UNCHANGED <<pending, wrong>>
     \/ /\ With(rid[wb]) # {}
        /\ pending' = RemoveAt(pending, First(rid[wb]))
        /\ Finds(wev, pending[First(rid[wb])])
  /\ wk' = "done"
  /\ UNCHANGED <<st, rid, eid, on, error, usVars, bk, events, wev, wb, queued, errors, failed, twice, relinked>>

\* ... and virtio_video_buf_done gives the buffer back.
HandleDone ==
  /\ wk = "done"
  /\ BufferDone({wb})
  /\ wk' = "idle"
  /\ wev' = None
  /\ wb' = None
  /\ UNCHANGED <<rid, eid, pending, on, error, usVars, bk, events, queued, errors, failed, relinked, wrong>>
-----------------------------------------------------------------------------
Init ==
  /\ st = [b \in Bufs |-> "dequeued"]
  /\ rid = [b \in Bufs |-> None]
  /\ eid = [b \in Bufs |-> None]
  /\ pending = <<>>
  /\ on = {}
  /\ error = {}
  /\ us = [s \in Streams |-> "idle"]
  /\ ub = [s \in Streams |-> None]
  /\ uq = [s \in Streams |-> None]
  /\ bk = {}
  /\ events = <<>>
  /\ wk = "idle" /\ wev = None /\ wb = None
  /\ queued = 0 /\ errors = 0
  /\ failed = {} /\ twice = {} /\ relinked = {}
  /\ wrong = {}

Ioctl(s) ==
  \/ QueueAdd(s) \/ QueueSend(s) \/ QueueSendFail(s)
  \/ EnqueueNext(s) \/ Start(s) \/ StartFail(s)
  \/ Off(s) \/ OffFail(s) \/ StopRelease(s)
  \/ OtherCommandFails(s) \/ Close(s)

Work ==
  \/ HandleUnknown \/ HandleError \/ HandleRelease
  \/ HandleFound \/ HandleNotFound \/ HandleDel \/ HandleDone

Next ==
  /\ Defined
  /\ \/ \E b \in Bufs : Qbuf(b) \/ QbufEarly(b) \/ Dqbuf(b)
     \/ \E use \in bk : BackendDone(use)
     \/ \E q \in Range(QueueOf) : StreamOn(q) \/ Stop(q) \/ StopIdle(q) \/ Reqbufs0(q)
     \/ \E s \in Streams : Ioctl(s) \/ Wait(s) \/ BackendError(s)
     \/ Work

Spec == Init /\ [][Next]_vars

\* The work queue runs the work item, and a stop wakes up once its buffers are back.
LiveSpec ==
  /\ Spec
  /\ WF_vars(Defined /\ Work)
  /\ \A s \in Streams : WF_vars(Defined /\ (Wait(s) \/ StopRelease(s)))
-----------------------------------------------------------------------------
BuffersOK ==
  /\ st \in [Bufs -> {"dequeued", "queued", "active", "done", "freed"}]
  /\ rid \in [Bufs -> Ids \cup {None}] /\ eid \in [Bufs -> Ids \cup {None}]
  /\ pending \in Seq(Bufs)
  /\ on \subseteq Queues /\ error \subseteq Streams
  /\ bk \subseteq Bufs \X Ids
  /\ events \in Seq(Event)

IoctlsOK ==
  /\ us \in [Streams -> {"idle", "add", "send", "enqueue", "off", "release", "wait",
                         "closed"}]
  /\ ub \in [Streams -> Bufs \cup {None}] /\ uq \in [Streams -> Queues \cup {None}]
  /\ \A s \in Streams :
       /\ ub[s] # None <=> us[s] \in {"add", "send"}
       /\ ub[s] # None => StreamOf[ub[s]] = s
       /\ us[s] \in {"enqueue", "off", "release", "wait"} => uq[s] # None
       /\ us[s] = "off" => uq[s] \in DataQueues
       /\ uq[s] # None => OwnerOf[uq[s]] = s

WorkOK ==
  /\ wk \in {"idle", "release", "del", "done"}
  /\ wev \in Event \cup {None} /\ wb \in Bufs \cup {None}
  /\ wev # None <=> wk # "idle"
  /\ wb # None <=> wk \in {"del", "done"}

HistoryOK ==
  /\ queued \in Nat /\ errors \in Nat
  /\ failed \subseteq Streams /\ twice \subseteq Bufs /\ relinked \subseteq Bufs
  /\ wrong \subseteq Streams \X Streams

\* Every variable keeps its type, and an ioctl or the work item has a buffer where it needs one.
TypeOK == BuffersOK /\ IoctlsOK /\ WorkOK /\ HistoryOK

\* A stream that has met neither an error nor a failed command.
Healthy(s) == s \notin error \cup failed

\* Buffer b is with the driver: msm_vidc_buf_queue has listed it, and no event has taken it off.
WithDriver(b) ==
  /\ st[b] = "active"
  /\ ~(ub[StreamOf[b]] = b /\ us[StreamOf[b]] = "add")
  /\ ~(wk = "done" /\ wb = b)

\* The pending list, searched and changed by all streams and the work item, holds exactly the
\* buffers of a healthy stream that are with the driver, whatever the others do
\* (virtio_video_msm_vb2.c:355-359).
PendingExact ==
  wrong = {} => \A b \in Bufs : Healthy(StreamOf[b]) => (b \in ToSet(pending) <=> WithDriver(b))

\* An event takes its own buffer off the list and gives it back, although ids are used again as
\* soon as a queue stops while events with the old ids are still on their way: a mistake needs
\* a stream that is not healthy, that of the event or of the buffer taken
\* (virtio_video_vq.c:427-457, virtio_video_device.c:146-152).
RightBuffer == \A mistake \in wrong : ~Healthy(mistake[1]) \/ ~Healthy(mistake[2])

\* vb2_buffer_done is called once for each time a buffer is queued: work item, stop and error
\* path, which look at the list in turns, take a buffer twice only after an error or a failed
\* command of its stream (virtio_video_msm_vb2.c:370-372, virtio_video_device.c:1000).
GivenBackOnce == \A b \in twice : ~Healthy(StreamOf[b])

\* No buffer joins the pending list while it is on it, which would corrupt the list, unless a
\* command of its stream found no memory (virtio_video_msm_vb2.c:358).
ListedOnce == \A b \in relinked : StreamOf[b] \in failed

\* The back end never uses a buffer that the driver has given to the user
\* (virtio_video_vq.c:440-457).
UserOwnsReturned ==
  \A b \in Using : Healthy(StreamOf[b]) => st[b] = "active"

\* A buffer that is freed, or whose stream is, is neither on the pending list nor in the hands of
\* the work item; after an error or a failed command it may be, and a meta buffer also when
\* the stream is closed with its queue streaming, for a release does not stop meta queues
\* (virtio_video_device.c:1186-1201).
NothingDangles ==
  \A b \in ToSet(pending) \cup ({wb} \ {None}) :
    Gone(b) => \/ ~Healthy(StreamOf[b])
               \/ QueueOf[b] \in MetaQueues \cap on

\* A stop of a data queue ends, even in the error state, for the back end has given up its
\* buffers or the pending ones are released; it need not when a command found no memory
\* (virtio_video_msm_vb2.c:246-268).
StopEnds ==
  \A s \in Streams :
    (us[s] \in {"release", "wait"} /\ uq[s] \in DataQueues)
      ~> (us[s] = "idle" \/ s \in failed \/ ~Defined)

\* Buffers change hands as BufferOwnership says.
Owner(b) ==
  CASE b \in Using -> "backend"
    [] b \notin Using /\ st[b] = "active" -> "driver"
    [] OTHER -> "user"

Ownership ==
  INSTANCE BufferOwnership WITH
    owner <- [b \in Bufs |-> Owner(b)],
    excused <- error \cup failed

\* Every step of the buffers is one the ownership allows (virtio_video_msm_vb2.c:275-373,
\* virtio_video_vq.c:384-459).
OwnershipKept == Ownership!Spec

\* The pending list is sound: its entries are distinct and none is of freed memory, but after a
\* failed command or a close with a streaming meta queue, and what the ioctls and the work item
\* hold has its type (virtio_video_msm_vb2.c:358, virtio_video_device.c:1186-1201).
ListSound == TypeOK /\ ListedOnce /\ NothingDangles

\* Buffers are found on the shared list by whoever looks for them: those of a healthy stream are
\* on it while the driver has them, and an event takes its own (virtio_video_vq.c:427-457,
\* virtio_video_msm_vb2.c:355-359).
ListExact == PendingExact /\ RightBuffer
=============================================================================
