----------------------------- MODULE EventQueue -----------------------------
(***************************************************************************)
(* The event queue of the virtio-video front end over HAB: the kernel      *)
(* thread that receives events into event buffers, the work item that      *)
(* handles them and gives the buffers back, the thread's error path, and   *)
(* the removal of the device.  Sources: driver/virtio_video_msm_hab.c and  *)
(* driver/virtio_video_vq.c, built with VIRTIO_VIDEO_MSM.                  *)
(*                                                                         *)
(* hvq->qlock protects each list operation; every action below does at     *)
(* most one, or one that another thread cannot tell from it.               *)
(***************************************************************************)
EXTENDS Integers, Sequences

CONSTANTS
  Streams,     \* ids in vvd->stream_idr
  VqNum,       \* DEFAULT_VQ_NUM: vq_bufs of the queue, and event buffers
  MaxEvents,   \* bound: events the back end sends
  None         \* no buffer, no event

Bufs == 1..VqNum   \* vvd->evts

ASSUME EventQueueAssumption ==
  /\ VqNum \in Nat /\ VqNum >= 1     \* 512 in the source
  /\ MaxEvents \in Nat
  /\ None \notin Nat

VARIABLES
  state,       \* per stream: not in the idr, in it, in it with STREAM_STATE_ERROR
  content,     \* the event in each buffer, None after the memset
  unused,      \* hvq->unused_vq_buf_list.count
  vbuf_list,   \* hvq->vbuf_list: buffers to receive into
  resp_list,   \* hvq->resp_list: received events to handle
  broken,      \* hvq->broken
  ready,       \* vvd->eventq.ready
  closed,      \* the HAB socket is closed
  et,          \* where the event thread is
  msg,         \* the buffer it receives into
  visited,     \* streams its error path has dealt with
  wk,          \* where virtio_video_process_events is
  evt,         \* the buffer it handles
  pendingWork, \* the work item is queued
  td,          \* where virtio_video_remove is
  sent,        \* events the back end has sent
  posted,      \* history: events attached to resp_list, in order
  handled,     \* history: events given to virtio_video_handle_event, in order
  postedReady  \* history: how many of posted were posted while ready

listVars == <<unused, vbuf_list, resp_list>>
etVars   == <<et, msg, visited>>
wkVars   == <<wk, evt>>
histVars == <<sent, posted, handled, postedReady>>
vars == <<state, content, listVars, broken, ready, closed, etVars, wkVars, pendingWork, td, histVars>>

\* Event number 0 is the error event the front end makes up itself.
Event(s, n) == [stream |-> s, n |-> n]
ErrorEvents == {Event(s, 0) : s \in Streams}

Open == {s \in Streams : state[s] # "closed"}
-----------------------------------------------------------------------------
(* virtio_video_process_events and the work queue that runs it.            *)

\* The work queue never runs one work item twice at a time.
WorkStart ==
  /\ wk = "idle" /\ pendingWork
  /\ pendingWork' = FALSE
  /\ wk' = IF ready THEN "drain" ELSE "idle"
  /\ UNCHANGED <<state, content, listVars, broken, ready, closed, etVars, evt, td, histVars>>

\* A faulty virtqueue_get_buf, that does not give the vq_buf back.
WorkGetLeaks ==
  /\ wk = "drain"
  /\ resp_list # <<>>
  /\ evt' = Head(resp_list)
  /\ resp_list' = Tail(resp_list)
  /\ wk' = "handle"
  /\ UNCHANGED <<state, content, unused, vbuf_list, broken, ready, closed, etVars, pendingWork, td,
                 histVars>>

\* virtqueue_get_buf.
WorkGet ==
  /\ wk = "drain"
  /\ resp_list # <<>>
  /\ evt' = Head(resp_list)
  /\ resp_list' = Tail(resp_list)
  /\ unused' = unused + 1
  /\ wk' = "handle"
  /\ UNCHANGED <<state, content, vbuf_list, broken, ready, closed, etVars, pendingWork, td, histVars>>

\* Nothing left.
WorkEmpty ==
  /\ wk = "drain"
  /\ resp_list = <<>>
  /\ wk' = "end"
  /\ UNCHANGED <<state, content, listVars, broken, ready, closed, etVars, evt, pendingWork, td, histVars>>

\* broken, or virtqueue_enable_cb, which is always true here: the work item ends, without
\* another look at resp_list.
WorkEnd ==
  /\ wk = "end"
  /\ wk' = "idle"
  /\ UNCHANGED <<state, content, listVars, broken, ready, closed, etVars, evt, pendingWork, td, histVars>>

\* virtio_video_handle_event: an event of a stream that is not in the idr is ignored.
WorkHandle ==
  /\ wk = "handle"
  /\ handled' = Append(handled, content[evt])
  /\ LET e == content[evt] IN
       \/ e \in ErrorEvents /\ e.stream \in Open /\ state' = [state EXCEPT ![e.stream] = "error"]
       \/ ~(e \in ErrorEvents /\ e.stream \in Open) /\ UNCHANGED state
  /\ wk' = "requeue"
  /\ UNCHANGED <<content, listVars, broken, ready, closed, etVars, evt, pendingWork, td, sent, posted,
                 postedReady>>

\* virtio_video_queue_event_buffer: memset and virtqueue_add_inbuf, whose failure loses the buffer.
WorkRequeue ==
  /\ wk = "requeue"
  /\ content' = [content EXCEPT ![evt] = None]
  /\ \/ /\ ~broken /\ unused > 0
        /\ unused' = unused - 1
        /\ vbuf_list' = Append(vbuf_list, evt)
     \/ (broken \/ unused = 0) /\ UNCHANGED <<unused, vbuf_list>>
  /\ evt' = None
  /\ wk' = "drain"
  /\ UNCHANGED <<state, resp_list, broken, ready, closed, etVars, pendingWork, td, histVars>>

Worker == WorkStart \/ WorkGet \/ WorkEmpty \/ WorkEnd \/ WorkHandle \/ WorkRequeue
-----------------------------------------------------------------------------
(* virtio_video_hab_resp_handler for the eventq.                           *)

EtGoTo(label) == et' = label

\* attach_buf_to_vq_buf on vbuf_list; without a free vq_buf the buffer is lost.
AttachVbuf(b) ==
  \/ /\ unused > 0
     /\ unused' = unused - 1
     /\ vbuf_list' = Append(vbuf_list, b)
  \/ unused = 0 /\ UNCHANGED <<unused, vbuf_list>>

\* unattach_buf_from_vq_buf on vbuf_list: get_one_evt_buf.  It does not wait for a buffer,
\* for its loop needs retry > max_retry to start.
UnattachVbuf ==
  /\ vbuf_list # <<>>
  /\ vbuf_list' = Tail(vbuf_list)
  /\ unused' = unused + 1

\* A buffer, and the memset.
GetBuf ==
  /\ et = "get" /\ td # "stop"
  /\ UnattachVbuf
  /\ msg' = Head(vbuf_list)
  /\ content' = [content EXCEPT ![Head(vbuf_list)] = None]
  /\ EtGoTo("recv")
  /\ UNCHANGED <<state, resp_list, broken, ready, closed, visited, wkVars, pendingWork, td, histVars>>

\* No event buffer: -ENOENT.
GetNone ==
  /\ et = "get" /\ td # "stop"
  /\ vbuf_list = <<>>
  /\ EtGoTo("fail")
  /\ UNCHANGED <<state, content, listVars, broken, ready, closed, msg, visited, wkVars, pendingWork, td,
                 histVars>>

\* kthread_should_stop, or a receive that returns -ENODEV.
Exit ==
  /\ \/ et = "get" /\ td = "stop"
     \/ et = "recv" /\ closed
  /\ EtGoTo("exited")
  /\ UNCHANGED <<state, content, listVars, broken, ready, closed, msg, visited, wkVars, pendingWork, td,
                 histVars>>

Recv ==
  /\ et = "recv" /\ ~closed
  /\ sent < MaxEvents
  /\ sent' = sent + 1
  /\ \E s \in Streams : content' = [content EXCEPT ![msg] = Event(s, sent')]
  /\ EtGoTo("attach")
  /\ UNCHANGED <<state, listVars, broken, ready, closed, msg, visited, wkVars, pendingWork, td, posted,
                 handled, postedReady>>

\* A faulty -EINTR path, that forgets the buffer.
RecvInterruptedDrops ==
  /\ et = "recv"
  /\ msg' = None
  /\ EtGoTo("get")
  /\ UNCHANGED <<state, content, listVars, broken, ready, closed, visited, wkVars, pendingWork, td, histVars>>

\* A faulty -EINTR path, that keeps using the buffer it gave back.
RecvInterruptedKeeps ==
  /\ et = "recv"
  /\ AttachVbuf(msg)
  /\ UNCHANGED <<state, content, resp_list, broken, ready, closed, etVars, wkVars, pendingWork, td,
                 histVars>>

\* -EINTR: the buffer goes back.
RecvInterrupted ==
  /\ et = "recv"
  /\ AttachVbuf(msg)
  /\ msg' = None
  /\ EtGoTo("get")
  /\ UNCHANGED <<state, content, resp_list, broken, ready, closed, visited, wkVars, pendingWork, td, histVars>>

RecvError ==
  /\ et = "recv"
  /\ EtGoTo("fail")
  /\ UNCHANGED <<state, content, listVars, broken, ready, closed, msg, visited, wkVars, pendingWork, td,
                 histVars>>

\* e joins resp_list: the histories.
Post(e) ==
  /\ posted' = Append(posted, e)
  /\ postedReady' = IF ready THEN Len(posted') ELSE postedReady

\* A faulty attach_buf_to_vq_buf: list_add instead of list_add_tail.
AttachEventFirst ==
  /\ et = "attach"
  /\ unused > 0
  /\ resp_list' = <<msg>> \o resp_list
  /\ unused' = unused - 1
  /\ Post(content[msg])
  /\ msg' = None
  /\ EtGoTo("schedule")
  /\ UNCHANGED <<state, content, vbuf_list, broken, ready, closed, visited, wkVars, pendingWork, td,
                 sent, handled>>

\* process_msm_hab_evt_resp: attach, then virtio_video_event_cb; or -ENOENT.
AttachEvent ==
  /\ et = "attach"
  /\ unused > 0
  /\ resp_list' = Append(resp_list, msg)
  /\ unused' = unused - 1
  /\ Post(content[msg])
  /\ msg' = None
  /\ EtGoTo("schedule")
  /\ UNCHANGED <<state, content, vbuf_list, broken, ready, closed, visited, wkVars, pendingWork, td,
                 sent, handled>>

AttachFail ==
  /\ et = "attach"
  /\ unused = 0
  /\ EtGoTo("fail")
  /\ UNCHANGED <<state, content, listVars, broken, ready, closed, msg, visited, wkVars, pendingWork, td,
                 histVars>>

\* A faulty schedule_work, that does nothing while the work item runs.
ScheduleIfIdle ==
  /\ et = "schedule"
  /\ pendingWork' = (pendingWork \/ wk = "idle")
  /\ EtGoTo("get")
  /\ UNCHANGED <<state, content, listVars, broken, ready, closed, msg, visited, wkVars, td, histVars>>

\* virtio_video_event_cb.
Schedule ==
  /\ et = "schedule"
  /\ pendingWork' = TRUE
  /\ EtGoTo("get")
  /\ UNCHANGED <<state, content, listVars, broken, ready, closed, msg, visited, wkVars, td, histVars>>

\* err: broken = true, and the buffer in hand, if there is one, goes back.
Break ==
  /\ et = "fail"
  /\ broken' = TRUE
  /\ EtGoTo("reattach")
  /\ UNCHANGED <<state, content, listVars, ready, closed, msg, visited, wkVars, pendingWork, td, histVars>>

Reattach ==
  /\ et = "reattach"
  /\ \/ msg # None /\ AttachVbuf(msg)
     \/ msg = None /\ UNCHANGED <<unused, vbuf_list>>
  /\ msg' = None
  /\ EtGoTo("err")
  /\ UNCHANGED <<state, content, resp_list, broken, ready, closed, visited, wkVars, pendingWork, td, histVars>>

\* One iteration of the idr_for_each_entry loop, for stream s: an error event in a buffer of
\* vbuf_list ...
ErrorEvent(s) ==
  /\ et = "err"
  /\ s \in Open \ visited
  /\ visited' = visited \cup {s}
  /\ UnattachVbuf
  /\ msg' = Head(vbuf_list)
  /\ content' = [content EXCEPT ![Head(vbuf_list)] = Event(s, 0)]
  /\ EtGoTo("post")
  /\ UNCHANGED <<state, resp_list, broken, ready, closed, wkVars, pendingWork, td, histVars>>

\* ... that process_msm_hab_evt_resp attaches to resp_list, whatever comes of it.
PostError ==
  /\ et = "post"
  /\ \/ /\ unused > 0
        /\ resp_list' = Append(resp_list, msg)
        /\ unused' = unused - 1
        /\ Post(content[msg])
        /\ pendingWork' = TRUE
     \/ unused = 0 /\ UNCHANGED <<resp_list, unused, posted, postedReady, pendingWork>>
  /\ msg' = None
  /\ EtGoTo("err")
  /\ UNCHANGED <<state, content, vbuf_list, broken, ready, closed, visited, wkVars, td, sent, handled>>

\* The iteration that finds no event buffer.
NoErrorEvent(s) ==
  /\ et = "err"
  /\ s \in Open \ visited
  /\ visited' = visited \cup {s}
  /\ vbuf_list = <<>>
  /\ UNCHANGED <<state, content, listVars, broken, ready, closed, et, msg, wkVars, pendingWork, td, histVars>>

\* msm_hab_del_vqs called by the thread: socket closed, then kthread_stop on itself.
SelfStop ==
  /\ et = "err"
  /\ Open \subseteq visited
  /\ closed' = TRUE
  /\ EtGoTo("stuck")
  /\ UNCHANGED <<state, content, listVars, broken, ready, msg, visited, wkVars, pendingWork, td, histVars>>

EventThread ==
  \/ GetBuf \/ GetNone \/ Exit \/ Recv \/ RecvInterrupted \/ RecvError \/ AttachEvent \/ AttachFail
  \/ Schedule \/ Break \/ Reattach \/ PostError \/ SelfStop
  \/ \E s \in Streams : ErrorEvent(s) \/ NoErrorEvent(s)
-----------------------------------------------------------------------------
(* The rest of the driver.                                                 *)

\* The end of virtio_video_probe: the threads already run (virtio_device_ready).
SetReady ==
  /\ td = "probe"
  /\ ready' = TRUE
  /\ td' = "up"
  /\ UNCHANGED <<state, content, listVars, broken, closed, etVars, wkVars, pendingWork, histVars>>

\* virtio_video_stream_id_get and _put, in open and release.
OpenStream(s) ==
  /\ td = "up" /\ state[s] = "closed"
  /\ state' = [state EXCEPT ![s] = "open"]
  /\ UNCHANGED <<content, listVars, broken, ready, closed, etVars, wkVars, pendingWork, td, histVars>>

CloseStream(s) ==
  /\ state[s] # "closed"
  /\ state' = [state EXCEPT ![s] = "closed"]
  /\ UNCHANGED <<content, listVars, broken, ready, closed, etVars, wkVars, pendingWork, td, histVars>>

\* virtio_video_device_deinit.
Deinit ==
  /\ td = "up"
  /\ ready' = FALSE
  /\ td' = "free"
  /\ UNCHANGED <<state, content, listVars, broken, closed, etVars, wkVars, pendingWork, histVars>>

\* The event part of virtio_video_free_vbufs: detach until nothing is left, ...
FreeEvents ==
  /\ td = "free"
  /\ \/ vbuf_list # <<>> /\ vbuf_list' = Tail(vbuf_list) /\ UNCHANGED resp_list
     \/ vbuf_list = <<>> /\ resp_list # <<>> /\ resp_list' = Tail(resp_list) /\ UNCHANGED vbuf_list
  /\ unused' = unused + 1
  /\ UNCHANGED <<state, content, broken, ready, closed, etVars, wkVars, pendingWork, td, histVars>>

\* ... then the unused vq_bufs and vvd->evts are freed.
FreeEventsEnd ==
  /\ td = "free"
  /\ vbuf_list = <<>> /\ resp_list = <<>>
  /\ unused' = 0
  /\ td' = "del_vqs"
  /\ UNCHANGED <<state, content, vbuf_list, resp_list, broken, ready, closed, etVars, wkVars, pendingWork,
                 histVars>>

\* msm_hab_del_vqs: close the socket and kthread_stop, ...
DelVqs ==
  /\ td = "del_vqs"
  /\ closed' = TRUE
  /\ td' = "stop"
  /\ UNCHANGED <<state, content, listVars, broken, ready, etVars, wkVars, pendingWork, histVars>>

\* ... which waits for the thread to end.
Stopped ==
  /\ td = "stop" /\ et = "exited"
  /\ td' = "down"
  /\ UNCHANGED <<state, content, listVars, broken, ready, closed, etVars, wkVars, pendingWork, histVars>>

Driver ==
  \/ SetReady \/ Deinit \/ FreeEvents \/ FreeEventsEnd \/ DelVqs \/ Stopped
  \/ \E s \in Streams : OpenStream(s) \/ CloseStream(s)
-----------------------------------------------------------------------------
\* In virtio_video_probe after virtio_video_alloc_events and virtio_device_ready.
Init ==
  /\ state = [s \in Streams |-> "closed"]
  /\ content = [b \in Bufs |-> None]
  /\ unused = 0
  /\ vbuf_list = [i \in Bufs |-> i]
  /\ resp_list = <<>>
  /\ broken = FALSE
  /\ ready = FALSE
  /\ closed = FALSE
  /\ et = "get"
  /\ msg = None
  /\ visited = {}
  /\ wk = "idle"
  /\ evt = None
  /\ pendingWork = FALSE
  /\ td = "probe"
  /\ sent = 0
  /\ posted = <<>>
  /\ handled = <<>>
  /\ postedReady = 0

Next == Worker \/ EventThread \/ Driver

Spec == Init /\ [][Next]_vars
-----------------------------------------------------------------------------
Events == [stream : Streams, n : Nat]

FlagsOK ==
  /\ broken \in BOOLEAN /\ ready \in BOOLEAN /\ closed \in BOOLEAN /\ pendingWork \in BOOLEAN

\* Who receives, attaches or handles has a buffer, and whoever needs its event finds one.
ContentOK ==
  /\ et \in {"recv", "attach", "post"} => msg \in Bufs
  /\ et \in {"attach", "post"} => content[msg] \in Events
  /\ wk \in {"handle", "requeue"} => evt \in Bufs
  /\ wk = "handle" => content[evt] \in Events
  /\ \A i \in 1..Len(resp_list) : content[resp_list[i]] \in Events

VarsOK ==
  /\ state \in [Streams -> {"closed", "open", "error"}]
  /\ content \in [Bufs -> Events \cup {None}]
  /\ unused \in Nat
  /\ vbuf_list \in Seq(Bufs) /\ resp_list \in Seq(Bufs)
  /\ et \in {"get", "recv", "attach", "schedule", "fail", "reattach", "err", "post", "stuck", "exited"}
  /\ msg \in Bufs \cup {None}
  /\ visited \subseteq Streams
  /\ wk \in {"idle", "drain", "handle", "requeue", "end"}
  /\ evt \in Bufs \cup {None}
  /\ td \in {"probe", "up", "free", "del_vqs", "stop", "down"}
  /\ sent \in Nat /\ postedReady \in Nat
  /\ posted \in Seq(Events) /\ handled \in Seq(Events)

\* Every variable keeps its type: buffers in the lists are buffers of vvd->evts, and nobody
\* finds a buffer cleared by the memset of virtio_video_queue_event_buffer where it needs the
\* event.
TypeOK == FlagsOK /\ VarsOK /\ ContentOK

\* No event buffer is in two places: the event thread with its error and -EINTR paths, the
\* work item and free_vbufs move buffers between two lists in any order, and a buffer in two
\* places would be received into while its event is handled (virtio_video_msm_hab.c:101-152).
EventBufsOwnedOnce ==
  /\ \A i, j \in 1..Len(vbuf_list) : vbuf_list[i] = vbuf_list[j] => i = j
  /\ \A i, j \in 1..Len(resp_list) : resp_list[i] = resp_list[j] => i = j
  /\ \A i \in 1..Len(vbuf_list) : vbuf_list[i] \notin {msg, evt}
  /\ \A i \in 1..Len(resp_list) : resp_list[i] \notin {msg, evt}
  /\ \A i \in 1..Len(vbuf_list), j \in 1..Len(resp_list) : vbuf_list[i] # resp_list[j]
  /\ msg # None => msg # evt

\* No vq_buf is lost or made up until free_vbufs ends their life.
PoolConserved ==
  td \in {"probe", "up", "free"} => unused + Len(vbuf_list) + Len(resp_list) = VqNum

InHand(b) == IF b = None THEN 0 ELSE 1

\* While the device is there and the queue has not broken, no event buffer is lost: a vq_buf
\* is free for whoever has a buffer in hand, so attach_buf_to_vq_buf and add_inbuf succeed
\* (virtio_video_msm_hab.c:384-386, virtio_video_vq.c:373).
NoEventBufLost ==
  td \in {"probe", "up"} /\ ~broken
    => Len(vbuf_list) + Len(resp_list) + InHand(msg) + InHand(evt) = VqNum

\* The events received and on their way, oldest first: handled already, with the work item, in
\* resp_list, and with the event thread.
Handling == IF wk = "handle" THEN <<content[evt]>> ELSE <<>>
Waiting == [i \in 1..Len(resp_list) |-> content[resp_list[i]]]
Received == IF et = "attach" THEN <<content[msg]>> ELSE <<>>
InTransit == handled \o Handling \o Waiting \o Received

\* The events of q that are not made up by the front end are number 1 to n, in that order.
InOrder(q, n) ==
  LET FromBackEnd == {i \in 1..Len(q) : q[i].n > 0}
  IN  /\ {q[i].n : i \in FromBackEnd} = 1..n
      /\ \A i, j \in FromBackEnd : i < j => q[i].n < q[j].n

\* While the device is there, the events of the back end are handled in the order it sent
\* them, each once, none overwritten by the memset of a recycled buffer or dropped, in spite
\* of error events, interrupted receives and a queue that breaks (virtio_video_vq.c:152-174).
EventsInOrder == td \in {"probe", "up"} => InOrder(InTransit, sent)

\* The work queue runs its work items, and the event thread, once it has attached an event,
\* gets to schedule_work.
FairSpec == Spec /\ WF_vars(Worker) /\ WF_vars(Schedule)

\* An event that was received while the queue was ready is handled, unless the device is
\* removed: no wakeup is lost between the end of virtio_video_process_events and
\* schedule_work.  An event received before has to wait for a later one.
EventsHandled ==
  \A i \in 1..(MaxEvents + VqNum) : postedReady >= i ~> Len(handled) >= i \/ ~ready
=============================================================================
