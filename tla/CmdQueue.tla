------------------------------ MODULE CmdQueue ------------------------------
(***************************************************************************)
(* The command queue of the virtio-video front end over HAB: the threads   *)
(* that issue commands, the kernel thread that receives the answers, and   *)
(* the teardown of the queue.  Sources: driver/virtio_video_vq.c and       *)
(* driver/virtio_video_msm_hab.c, built with VIRTIO_VIDEO_MSM.             *)
(*                                                                         *)
(* A command lives in a vbuf, an object of the slab cache vvd->vbufs.  Its *)
(* address is a member of Slots and is reused once freed, as the slab does.*)
(* pending_vbuf_list is a set: list_add_tail and the assignment of the id  *)
(* are one critical section, so the order of the list is the order of vid. *)
(* vbuf_is_pending(vbuf) is s \in pending: its test entry->id == vbuf->id  *)
(* compares a field with itself, entry and vbuf being the same address.    *)
(***************************************************************************)
EXTENDS Integers, Sequences, FiniteSets

CONSTANTS
  Callers,      \* threads that issue commands (ioctl and release paths)
  Slots,        \* addresses the slab cache can hand out (bounds live vbufs)
  Keys,         \* the (stream_id, type) pairs of the commands
  SyncKeys,     \* those issued with virtio_video_queue_cmd_buffer_sync
  CallerKeys,   \* the commands each caller may issue
  VqNum,        \* DEFAULT_VQ_NUM: vq_bufs of the queue
  MaxSent,      \* bound: commands queued in a behaviour
  None          \* no caller, no slot, no key

RespThread == "resp_thread"

ASSUME CmdQueueAssumption ==
  /\ SyncKeys \subseteq Keys
  /\ CallerKeys \in [Callers -> SUBSET Keys]
  /\ VqNum \in Nat /\ VqNum >= 2     \* 512 in the source; two are enough
  /\ MaxSent \in Nat
  /\ None \notin Callers \cup Slots \cup Keys
  /\ RespThread \notin Callers \cup {None}

VARIABLES
  pc,          \* where each caller is in virtio_video_queue_cmd_buffer(_sync)
  call,        \* the command the caller issues
  vbuf,        \* the vbuf it holds a pointer to
  sending,     \* the vbuf its kick took off vbuf_list
  ret,         \* the value its current or last call returns
  live,        \* allocated vbufs
  vkey,        \* vbuf->buf: stream_id and type
  vid,         \* vbuf->id
  reclaimed,   \* vbuf->reclaimed: the completion
  resp,        \* the id of the command whose answer is in vbuf->resp_buf
  pending,     \* vvd->pending_vbuf_list
  vbufs_sent,  \* vvd->vbufs_sent
  unused,      \* hvq->unused_vq_buf_list.count
  vbuf_list,   \* hvq->vbuf_list: vq_bufs with a command to send
  resp_list,   \* hvq->resp_list: vq_bufs with an answered command
  broken,      \* hvq->broken
  ready,       \* vvd->commandq.ready
  qlock,       \* holder of vvd->commandq.qlock
  inflight,    \* commands at the back end that it may answer
  closed,      \* the HAB socket is closed
  rt,          \* where the response thread is
  rmsg,        \* the answer it received
  td,          \* where virtio_video_remove is
  evt,         \* the event thread's own msm_hab_del_vqs
  timedOut     \* history: some call returned -ETIMEDOUT

callerVars == <<pc, call, vbuf, sending, ret>>
memVars    == <<live, vkey, vid, reclaimed, resp>>
hvqVars    == <<unused, vbuf_list, resp_list>>
rtVars     == <<rt, rmsg>>
vars == <<callerVars, memVars, pending, vbufs_sent, hvqVars, broken, ready, qlock,
          inflight, closed, rtVars, td, evt, timedOut>>

NoId == -1   \* an id no command has: resp_buf not written since the memset
-----------------------------------------------------------------------------
(* The lists.  Each operator gives the whole effect on the three lists.    *)

\* attach_buf_to_vq_buf on resp_list; without a free vq_buf nothing happens.
AttachResp(s) ==
  \/ /\ unused > 0
     /\ unused' = unused - 1
     /\ resp_list' = Append(resp_list, s)
     /\ UNCHANGED vbuf_list
  \/ unused = 0 /\ UNCHANGED hvqVars

UnattachRespLeaks ==
  /\ resp_list # <<>>
  /\ resp_list' = Tail(resp_list)
  /\ UNCHANGED <<unused, vbuf_list>>

\* unattach_buf_from_vq_buf: the vq_buf of the head goes back to the unused ones.
UnattachVbuf ==
  /\ vbuf_list # <<>>
  /\ vbuf_list' = Tail(vbuf_list)
  /\ unused' = unused + 1
  /\ UNCHANGED resp_list

UnattachResp ==
  /\ resp_list # <<>>
  /\ resp_list' = Tail(resp_list)
  /\ unused' = unused + 1
  /\ UNCHANGED vbuf_list

\* A faulty free_vbuf, without the list_del.
FreeVbufStaysListed(s) == live' = live \ {s} /\ UNCHANGED pending

\* free_vbuf: list_del and kmem_cache_free.
FreeVbuf(s) == pending' = pending \ {s} /\ live' = live \ {s}

Acquire(t) == qlock = None /\ qlock' = t
LockFree   == qlock = None /\ UNCHANGED qlock   \* a whole critical section in one step

\* The caller's function returns r to its own caller.
Return(c, r) ==
  /\ pc' = [pc EXCEPT ![c] = "idle"]
  /\ call' = [call EXCEPT ![c] = None]
  /\ vbuf' = [vbuf EXCEPT ![c] = None]
  /\ sending' = [sending EXCEPT ![c] = None]
  /\ ret' = [ret EXCEPT ![c] = r]

GoTo(c, label) == pc' = [pc EXCEPT ![c] = label]
-----------------------------------------------------------------------------
(* A caller.                                                               *)

\* virtio_video_alloc_req(_resp): a fresh vbuf, memset to zero, with its header.
Alloc(c) ==
  /\ pc[c] = "idle"
  /\ td \in {"up", "free"}       \* the slab cache exists
  /\ vbufs_sent < MaxSent
  /\ \E k \in CallerKeys[c], s \in Slots \ live :
       /\ call' = [call EXCEPT ![c] = k]
       /\ vbuf' = [vbuf EXCEPT ![c] = s]
       /\ live' = live \cup {s}
       /\ vkey' = [vkey EXCEPT ![s] = k]
       /\ vid' = [vid EXCEPT ![s] = NoId]
       /\ reclaimed' = [reclaimed EXCEPT ![s] = FALSE]
       /\ resp' = [resp EXCEPT ![s] = NoId]
  /\ GoTo(c, "check")
  /\ UNCHANGED <<sending, ret, pending, vbufs_sent, hvqVars, broken, ready, qlock, inflight,
                 closed, rtVars, td, evt, timedOut>>

\* commandq.ready is tested outside the lock; on -ENODEV the vbuf is not freed.
CheckReady(c) ==
  /\ pc[c] = "check"
  /\ \/ ready /\ GoTo(c, "enqueue") /\ UNCHANGED <<call, vbuf, sending, ret>>
     \/ ~ready /\ Return(c, "ENODEV")
  /\ UNCHANGED <<memVars, pending, vbufs_sent, hvqVars, broken, ready, qlock, inflight, closed,
                 rtVars, td, evt, timedOut>>

\* msm_hab_virtqueue_add_sgs(vbuf) returning r.
AddSgs(s, r) ==
  \/ broken /\ r = "EIO" /\ UNCHANGED hvqVars
  \/ ~broken /\ unused = 0 /\ r = "ENOMEM" /\ UNCHANGED hvqVars
  \/ /\ ~broken /\ unused > 0
     /\ r = "ok"
     /\ unused' = unused - 1
     /\ vbuf_list' = Append(vbuf_list, s)
     /\ UNCHANGED resp_list

\* Under the lock: id, pending list, vq_buf.  The kick follows whatever add_sgs returned.
Enqueue(c) ==
  /\ pc[c] = "enqueue"
  /\ Acquire(c)
  /\ vid' = [vid EXCEPT ![vbuf[c]] = vbufs_sent]
  /\ vbufs_sent' = vbufs_sent + 1
  /\ pending' = pending \cup {vbuf[c]}
  /\ \E r \in {"ok", "EIO", "ENOMEM"} : AddSgs(vbuf[c], r) /\ ret' = [ret EXCEPT ![c] = r]
  /\ GoTo(c, "kick")
  /\ UNCHANGED <<call, vbuf, sending, live, vkey, reclaimed, resp, broken, ready, inflight, closed,
                 rtVars, td, evt, timedOut>>

\* A faulty kick, that does not test hvq->broken.
KickTakeBroken(c) ==
  /\ pc[c] = "kick"
  /\ UnattachVbuf
  /\ sending' = [sending EXCEPT ![c] = Head(vbuf_list)]
  /\ qlock' = None
  /\ GoTo(c, "send")
  /\ UNCHANGED <<call, vbuf, ret, memVars, pending, vbufs_sent, broken, ready, inflight, closed,
                 rtVars, td, evt, timedOut>>

\* msm_hab_virtqueue_kick up to the point where it drops the lock to send.
KickTake(c) ==
  /\ pc[c] = "kick"
  /\ ~broken
  /\ UnattachVbuf
  /\ sending' = [sending EXCEPT ![c] = Head(vbuf_list)]
  /\ qlock' = None
  /\ GoTo(c, "send")
  /\ UNCHANGED <<call, vbuf, ret, memVars, pending, vbufs_sent, broken, ready, inflight, closed,
                 rtVars, td, evt, timedOut>>

\* The kick that returns false, still under the lock: -EIO.  The vbuf stays pending.
KickFail(c) ==
  /\ pc[c] = "kick"
  /\ broken \/ vbuf_list = <<>>
  /\ qlock' = None
  /\ Return(c, "EIO")
  /\ UNCHANGED <<memVars, pending, vbufs_sent, hvqVars, broken, ready, inflight, closed, rtVars,
                 td, evt, timedOut>>

\* habmm_socket_send, without the lock, of the vbuf the kick took.
Send(c) ==
  /\ pc[c] = "send"
  /\ ~closed
  /\ inflight' = inflight \cup {[key |-> vkey[sending[c]], id |-> vid[sending[c]]]}
  /\ GoTo(c, "relock")
  /\ UNCHANGED <<call, vbuf, sending, ret, memVars, pending, vbufs_sent, hvqVars, broken, ready,
                 qlock, closed, rtVars, td, evt, timedOut>>

SendFail(c) ==
  /\ pc[c] = "send"
  /\ broken' = TRUE
  /\ ret' = [ret EXCEPT ![c] = "EIO"]
  /\ GoTo(c, "relock")
  /\ UNCHANGED <<call, vbuf, sending, memVars, pending, vbufs_sent, hvqVars, ready, qlock, inflight,
                 closed, rtVars, td, evt, timedOut>>

\* The kick takes the lock again and virtio_video_queue_cmd_buffer drops it and returns.
Relock(c) ==
  /\ pc[c] = "relock"
  /\ LockFree
  /\ \/ /\ ret[c] = "ok" /\ call[c] \in SyncKeys
        /\ GoTo(c, "wait")
        /\ UNCHANGED <<call, vbuf, sending, ret>>
     \/ /\ ret[c] # "ok" \/ call[c] \notin SyncKeys
        /\ Return(c, ret[c])
  /\ UNCHANGED <<memVars, pending, vbufs_sent, hvqVars, broken, ready, inflight, closed, rtVars, td,
                 evt, timedOut>>

\* wait_for_completion_timeout(&vbuf->reclaimed, 5 * HZ) returning with the completion ...
Completed(c) ==
  /\ pc[c] = "wait"
  /\ reclaimed[vbuf[c]]
  /\ GoTo(c, "reclaim")
  /\ UNCHANGED <<call, vbuf, sending, ret, memVars, pending, vbufs_sent, hvqVars, broken, ready,
                 qlock, inflight, closed, rtVars, td, evt, timedOut>>

\* A faulty wait, without a timeout.
TimeoutNever(c) == pc[c] = "wait" /\ FALSE /\ UNCHANGED vars

\* ... and returning 0.
Timeout(c) ==
  /\ pc[c] = "wait"
  /\ ~reclaimed[vbuf[c]]
  /\ ret' = [ret EXCEPT ![c] = "ETIMEDOUT"]
  /\ timedOut' = TRUE
  /\ GoTo(c, "reclaim")
  /\ UNCHANGED <<call, vbuf, sending, memVars, pending, vbufs_sent, hvqVars, broken, ready, qlock,
                 inflight, closed, rtVars, td, evt>>

\* A faulty end of the call, that leaves the vbuf on the pending list.
ReclaimNothing(c) ==
  /\ pc[c] = "reclaim"
  /\ LockFree
  /\ Return(c, ret[c])
  /\ UNCHANGED <<memVars, pending, vbufs_sent, hvqVars, broken, ready, inflight, closed, rtVars, td,
                 evt, timedOut>>

\* The end of virtio_video_queue_cmd_buffer_sync: free the vbuf if it is still pending.
Reclaim(c) ==
  /\ pc[c] = "reclaim"
  /\ LockFree
  /\ \/ vbuf[c] \in pending /\ FreeVbuf(vbuf[c])
     \/ vbuf[c] \notin pending /\ UNCHANGED <<pending, live>>
  /\ Return(c, ret[c])
  /\ UNCHANGED <<vkey, vid, reclaimed, resp, vbufs_sent, hvqVars, broken, ready, inflight, closed,
                 rtVars, td, evt, timedOut>>

Caller(c) ==
  \/ CheckReady(c) \/ Enqueue(c) \/ KickTake(c) \/ KickFail(c) \/ Send(c) \/ SendFail(c)
  \/ Relock(c) \/ Completed(c) \/ Timeout(c) \/ Reclaim(c)
-----------------------------------------------------------------------------
(* The response thread, virtio_video_hab_resp_handler for the commandq.    *)
(* The back end answers what it was sent in any order, at most once each.  *)

RtGoTo(label) == rt' = label

Recv ==
  /\ rt = "recv" /\ ~closed
  /\ \E m \in inflight : rmsg' = m /\ inflight' = inflight \ {m}
  /\ RtGoTo("match")
  /\ UNCHANGED <<callerVars, memVars, pending, vbufs_sent, hvqVars, broken, ready, qlock, closed, td,
                 evt, timedOut>>

\* A SESSION_ERROR answer, or a receive that fails with neither -EINTR nor -ENODEV.
RecvError ==
  /\ rt = "recv"
  /\ RtGoTo("fail")
  /\ UNCHANGED <<callerVars, memVars, pending, vbufs_sent, hvqVars, broken, ready, qlock, inflight,
                 closed, rmsg, td, evt, timedOut>>

\* -ENODEV, or kthread_should_stop: the socket was closed by msm_hab_del_vqs.
RecvClosed ==
  /\ rt = "recv" /\ closed
  /\ RtGoTo("exited")
  /\ UNCHANGED <<callerVars, memVars, pending, vbufs_sent, hvqVars, broken, ready, qlock, inflight,
                 closed, rmsg, td, evt, timedOut>>

\* A faulty search, that does not compare stream_id and type.
CandidatesAnyKey == {s \in pending : rmsg # None}

Candidates == {s \in pending : vkey[s] = rmsg.key}
IsFirst(f) == f \in Candidates /\ \A s \in Candidates : vid[f] <= vid[s]

\* process_msm_hab_cmd_resp: the first pending vbuf with the answer's stream and type.
MatchFound ==
  /\ rt = "match"
  /\ LockFree
  /\ \E f \in Slots :
       /\ IsFirst(f)
       /\ resp' = [resp EXCEPT ![f] = rmsg.id]
       /\ AttachResp(f)
  /\ RtGoTo("cmd_cb")
  /\ UNCHANGED <<callerVars, live, vkey, vid, reclaimed, pending, vbufs_sent, broken, ready,
                 inflight, closed, rmsg, td, evt, timedOut>>

MatchNone ==
  /\ rt = "match"
  /\ LockFree
  /\ Candidates = {}
  /\ RtGoTo("fail")
  /\ UNCHANGED <<callerVars, memVars, pending, vbufs_sent, hvqVars, broken, ready, inflight, closed,
                 rmsg, td, evt, timedOut>>

\* virtio_video_cmd_cb: lock, test ready, drain resp_list, unlock.
CmdCbEnter ==
  /\ rt = "cmd_cb"
  /\ \/ ready /\ Acquire(RespThread) /\ RtGoTo("drain")
     \/ ~ready /\ LockFree /\ RtGoTo("recv")
  /\ UNCHANGED <<callerVars, memVars, pending, vbufs_sent, hvqVars, broken, ready, inflight, closed,
                 rmsg, td, evt, timedOut>>

CmdCbGet ==
  /\ rt = "drain"
  /\ UnattachResp
  /\ LET s == Head(resp_list) IN
       \/ s \notin pending /\ UNCHANGED <<pending, live, reclaimed>>
       \/ /\ s \in pending /\ vkey[s] \in SyncKeys
          /\ reclaimed' = [reclaimed EXCEPT ![s] = TRUE]
          /\ UNCHANGED <<pending, live>>
       \/ /\ s \in pending /\ vkey[s] \notin SyncKeys
          /\ FreeVbuf(s)
          /\ UNCHANGED reclaimed
  /\ UNCHANGED <<callerVars, vkey, vid, resp, vbufs_sent, broken, ready, qlock, inflight, closed,
                 rtVars, td, evt, timedOut>>

CmdCbLeave ==
  /\ rt = "drain"
  /\ resp_list = <<>>
  /\ qlock' = None
  /\ RtGoTo("recv")
  /\ UNCHANGED <<callerVars, memVars, pending, vbufs_sent, hvqVars, broken, ready, inflight, closed,
                 rmsg, td, evt, timedOut>>

\* err: broken = true.
Break ==
  /\ rt = "fail"
  /\ broken' = TRUE
  /\ RtGoTo("err")
  /\ UNCHANGED <<callerVars, memVars, pending, vbufs_sent, hvqVars, ready, qlock, inflight, closed,
                 rmsg, td, evt, timedOut>>

\* One iteration of the idr_for_each_entry loop, which runs for the commandq as well:
\* get_one_evt_buf on vbuf_list, then attach to resp_list, without the qlock.
ErrorLoop ==
  /\ rt = "err"
  /\ vbuf_list # <<>>
  /\ vbuf_list' = Tail(vbuf_list)
  /\ resp_list' = Append(resp_list, Head(vbuf_list))
  /\ UNCHANGED <<callerVars, memVars, pending, vbufs_sent, unused, broken, ready, qlock, inflight,
                 closed, rtVars, td, evt, timedOut>>

\* msm_hab_del_vqs called by the thread: socket closed, then kthread_stop on itself.
SelfStop ==
  /\ rt = "err"
  /\ closed' = TRUE
  /\ RtGoTo("stuck")
  /\ UNCHANGED <<callerVars, memVars, pending, vbufs_sent, hvqVars, broken, ready, qlock, inflight,
                 rmsg, td, evt, timedOut>>

Responder ==
  \/ Recv \/ RecvError \/ RecvClosed \/ MatchFound \/ MatchNone
  \/ CmdCbEnter \/ CmdCbGet \/ CmdCbLeave \/ Break \/ ErrorLoop \/ SelfStop
-----------------------------------------------------------------------------
(* Teardown: the error path of the event thread, and virtio_video_remove.  *)

\* virtio_video_msm_hab_close on the commandq, up to its kthread_stop ...
EvtClose ==
  /\ evt = "running" /\ td # "down"
  /\ closed' = TRUE
  /\ evt' = "stop"
  /\ UNCHANGED <<callerVars, memVars, pending, vbufs_sent, hvqVars, broken, ready, qlock, inflight,
                 rtVars, td, timedOut>>

\* ... and from there: stop_cmd_resp_handler frees the vq_bufs of resp_list.
EvtStopped ==
  /\ evt = "stop" /\ rt = "exited"
  /\ resp_list' = <<>>
  /\ evt' = "stopped"
  /\ UNCHANGED <<callerVars, memVars, pending, vbufs_sent, unused, vbuf_list, broken, ready, qlock,
                 inflight, closed, rtVars, td, timedOut>>

\* virtio_video_device_deinit.
Deinit ==
  /\ td = "up"
  /\ ready' = FALSE
  /\ td' = "free"
  /\ UNCHANGED <<callerVars, memVars, pending, vbufs_sent, hvqVars, broken, qlock, inflight, closed,
                 rtVars, evt, timedOut>>

\* One iteration of virtio_video_free_vbufs: msm_hab_virtqueue_detach_unused_buf takes from
\* vbuf_list first, then from resp_list.  No lock is taken.
FreeVbufs ==
  /\ td = "free"
  /\ \E s \in Slots :
       /\ \/ UnattachVbuf /\ s = Head(vbuf_list)
          \/ vbuf_list = <<>> /\ UnattachResp /\ s = Head(resp_list)
       /\ \/ s \in pending /\ FreeVbuf(s)
          \/ s \notin pending /\ UNCHANGED <<pending, live>>
  /\ UNCHANGED <<callerVars, vkey, vid, reclaimed, resp, vbufs_sent, broken, ready, qlock, inflight,
                 closed, rtVars, td, evt, timedOut>>

\* Nothing left to detach: the unused vq_bufs are freed and the slab cache is destroyed.
FreeVbufsEnd ==
  /\ td = "free"
  /\ vbuf_list = <<>> /\ resp_list = <<>>
  /\ unused' = 0
  /\ td' = "del_vqs"
  /\ UNCHANGED <<callerVars, memVars, pending, vbufs_sent, vbuf_list, resp_list, broken, ready,
                 qlock, inflight, closed, rtVars, evt, timedOut>>

\* msm_hab_del_vqs: the commandq may already be off vdev->vqs.
DelVqs ==
  /\ td = "del_vqs"
  /\ \/ evt = "stopped" /\ td' = "down" /\ UNCHANGED closed
     \/ evt # "stopped" /\ td' = "stop" /\ closed' = TRUE
  /\ UNCHANGED <<callerVars, memVars, pending, vbufs_sent, hvqVars, broken, ready, qlock, inflight,
                 rtVars, evt, timedOut>>

Stopped ==
  /\ td = "stop" /\ rt = "exited"
  /\ resp_list' = <<>>
  /\ td' = "down"
  /\ UNCHANGED <<callerVars, memVars, pending, vbufs_sent, unused, vbuf_list, broken, ready, qlock,
                 inflight, closed, rtVars, evt, timedOut>>

Teardown == EvtClose \/ EvtStopped \/ Deinit \/ FreeVbufs \/ FreeVbufsEnd \/ DelVqs \/ Stopped
-----------------------------------------------------------------------------
\* After a successful virtio_video_probe: queues found, both ready, threads started.
Init ==
  /\ pc = [c \in Callers |-> "idle"]
  /\ call = [c \in Callers |-> None]
  /\ vbuf = [c \in Callers |-> None]
  /\ sending = [c \in Callers |-> None]
  /\ ret = [c \in Callers |-> "ok"]
  /\ live = {}
  /\ vkey = [s \in Slots |-> None]
  /\ vid = [s \in Slots |-> NoId]
  /\ reclaimed = [s \in Slots |-> FALSE]
  /\ resp = [s \in Slots |-> NoId]
  /\ pending = {}
  /\ vbufs_sent = 0
  /\ unused = VqNum
  /\ vbuf_list = <<>>
  /\ resp_list = <<>>
  /\ broken = FALSE
  /\ ready = TRUE
  /\ qlock = None
  /\ inflight = {}
  /\ closed = FALSE
  /\ rt = "recv"
  /\ rmsg = None
  /\ td = "up"
  /\ evt = "running"
  /\ timedOut = FALSE

RunningNext ==
  \/ \E c \in Callers : Alloc(c) \/ Caller(c)
  \/ Responder

Next == RunningNext \/ Teardown

Spec == Init /\ [][Next]_vars

\* The same without removal of the device and without a failure of the event thread.
RunningSpec == Init /\ [][RunningNext]_vars
-----------------------------------------------------------------------------
Answers == [key : Keys \cup {None}, id : Int]

FlagsOK ==
  /\ broken \in BOOLEAN /\ ready \in BOOLEAN /\ closed \in BOOLEAN /\ timedOut \in BOOLEAN
  /\ reclaimed \in [Slots -> BOOLEAN]

\* Every variable keeps its type: the fields of virtio_video_vbuffer and hab_virtqueue.
TypeOK ==
  /\ FlagsOK
  /\ pc \in [Callers -> {"idle", "check", "enqueue", "kick", "send", "relock", "wait", "reclaim"}]
  /\ call \in [Callers -> Keys \cup {None}]
  /\ vbuf \in [Callers -> Slots \cup {None}]
  /\ sending \in [Callers -> Slots \cup {None}]
  /\ ret \in [Callers -> {"ok", "ENODEV", "EIO", "ENOMEM", "ETIMEDOUT"}]
  /\ live \subseteq Slots
  /\ vkey \in [Slots -> Keys \cup {None}]
  /\ vid \in [Slots -> Int]
  /\ resp \in [Slots -> Int]
  /\ pending \subseteq Slots
  /\ vbufs_sent \in Nat
  /\ unused \in Nat
  /\ vbuf_list \in Seq(Slots) /\ resp_list \in Seq(Slots)
  /\ qlock \in Callers \cup {RespThread, None}
  /\ inflight \subseteq Answers
  /\ rt \in {"recv", "match", "cmd_cb", "drain", "fail", "err", "stuck", "exited"}
  /\ rmsg \in Answers \cup {None}
  /\ rt = "match" => rmsg \in Answers
  /\ td \in {"up", "free", "del_vqs", "stop", "down"}
  /\ evt \in {"running", "stop", "stopped"}
  /\ \A c \in Callers :
       /\ pc[c] # "idle" => call[c] \in Keys /\ vbuf[c] \in Slots
       /\ pc[c] = "send" => sending[c] \in Slots

\* No vq_buf is lost or made up while the lists exist: every move of a vq_buf between
\* unused_vq_buf_list, vbuf_list and resp_list by callers, the response thread, its error
\* path and free_vbufs keeps the total (virtio_video_msm_hab.c:101-152, 657-704).
VqBufsConserved ==
  td \in {"up", "free"} /\ evt # "stopped"
     => unused + Len(vbuf_list) + Len(resp_list) = VqNum

\* Until the device is removed, two vq_bufs are enough for any number of callers: no command
\* fails with -ENOMEM and no answer is dropped by attach_buf_to_vq_buf, whose result
\* process_msm_hab_cmd_resp ignores (virtio_video_msm_hab.c:287).
NoVqBufShortage ==
  td = "up" => /\ \A c \in Callers : ret[c] # "ENOMEM"
               /\ rt = "match" => unused > 0

\* The code of c still dereferences its vbuf, which no answer to it can have freed: until the
\* command is sent, and to the end of a synchronous call.
UsesVbuf(c) ==
  \/ pc[c] \in {"check", "enqueue", "kick"}
  \/ pc[c] \in {"send", "relock", "wait", "reclaim"} /\ call[c] \in SyncKeys

\* Until the device is removed, a vbuf is not used after it was freed or recycled: not by its
\* caller, although wait_for_completion_timeout and a late answer race for it, and not through
\* the pending list that the response thread searches and writes to.
NoUseAfterFree ==
  td = "up" =>
    /\ pending \subseteq live
    /\ \A c \in Callers : UsesVbuf(c) => vbuf[c] \in live /\ vkey[vbuf[c]] = call[c]
    /\ \A c, d \in Callers : c # d /\ UsesVbuf(c) /\ UsesVbuf(d) => vbuf[c] # vbuf[d]

\* As long as no call has timed out, the command a kick sends after it dropped the lock is
\* its caller's own and still allocated: no answer to an earlier command of the same key has
\* completed it, and no failed caller's vbuf_list entry is sent in its place.
SendsOwnCommand ==
  \A c \in Callers :
    pc[c] = "send" /\ ~timedOut /\ td = "up"
       => sending[c] = vbuf[c] /\ vbuf[c] \in live /\ vkey[vbuf[c]] = call[c]

\* As long as no call has timed out, a synchronous call that succeeds returns the answer to
\* its own command, although answers carry no id and are matched by stream and type only.
\* It is meant for callers that share no synchronous key.
AnswerIsOwn ==
  \A c \in Callers :
    pc[c] = "reclaim" /\ ret[c] = "ok" /\ ~timedOut /\ td = "up"
       => resp[vbuf[c]] = vid[vbuf[c]]

\* As long as no call has timed out, an answer is never copied into the buffer of a
\* synchronous call that has returned: vbuf->resp_buf is the caller's own payload.
NoWriteAfterReturn ==
  [][ \A s \in pending :
        resp'[s] # resp[s] /\ vkey[s] \in SyncKeys /\ ~timedOut
           => \E c \in Callers : vbuf[c] = s /\ UsesVbuf(c) ]_vars

\* Nothing is going on: no call, no command at the back end, no answer being processed.
Quiescent == (\A c \in Callers : pc[c] = "idle") /\ inflight = {} /\ rt = "recv"

\* A queue that works leaks nothing: when no call is in progress and the back end has
\* answered everything, the pending list is empty and every vbuf is back in the slab cache,
\* whatever calls timed out before.
NothingLeaks == ready /\ ~broken /\ Quiescent => pending = {} /\ live = {}

(* The inductive invariant behind the safety properties above.             *)

\* Who is inside a critical section of more than one step holds qlock.
LockInv ==
  /\ \A c \in Callers : pc[c] = "kick" => qlock = c
  /\ rt = "drain" => qlock = RespThread

\* A vbuf enters the pending list once, and only a synchronous caller waits for its own.
OwnInv ==
  /\ NoUseAfterFree
  /\ td = "up" => \A c \in Callers : pc[c] \in {"check", "enqueue"} => vbuf[c] \notin pending
  /\ \A c \in Callers : pc[c] \in {"wait", "reclaim"} => call[c] \in SyncKeys

\* At most one vq_buf waits to be sent and at most one holds an answer: the first belongs to
\* the caller in its kick, or is a leftover that a broken queue never sends.
PoolInv ==
  td = "up" =>
    /\ ready
    /\ unused + Len(vbuf_list) + Len(resp_list) = VqNum
    /\ Len(vbuf_list) <= 1 /\ Len(resp_list) <= 1
    /\ vbuf_list # <<>> => broken \/ \E c \in Callers : pc[c] = "kick"
    /\ rt \in {"recv", "match", "fail", "exited"} => resp_list = <<>>
    /\ rt \in {"err", "stuck"} => broken /\ Len(vbuf_list) + Len(resp_list) <= 1
    /\ \A c \in Callers : ret[c] # "ENOMEM"

\* Ticket spinlocks serve every waiter (strong fairness of a caller's steps, which also
\* covers the timer of wait_for_completion_timeout); virtio_video_cmd_cb, once it holds
\* the lock, runs to its end.
Fairness ==
  /\ \A c \in Callers : SF_vars(Caller(c))
  /\ WF_vars(CmdCbGet \/ CmdCbLeave)

FairSpec == Spec /\ Fairness

\* Every call returns, whatever the back end answers or fails to answer, with the response
\* thread alive, deadlocked in its error path or stopped, and during removal.
CallReturns == \A c \in Callers : pc[c] # "idle" ~> pc[c] = "idle"
-----------------------------------------------------------------------------
(* What a comment of the source says, and the code does not do.             *)

\* virtio_video_msm_hab.c:426: "for commandq, commands will wait until timeout; no specific
\* handling here": the error path of the response thread does not touch queued commands.
ErrorPathSparesCommands == [][rt = "err" /\ td = "up" => UNCHANGED <<vbuf_list, resp_list>>]_vars
=============================================================================
