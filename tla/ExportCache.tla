---------------------------- MODULE ExportCache ----------------------------
(***************************************************************************)
(* The export cache of one stream: buffers are exported to the back end    *)
(* when they are first queued, stay exported while the back end may use    *)
(* them, and are unexported when it has erased them, when their queue      *)
(* stops, or when the stream is released.  Source:                         *)
(* driver/virtio_video_msm_mem.c, with its callers in                      *)
(* driver/virtio_video_msm_vb2.c, virtio_video_vq.c, virtio_video_device.c.*)
(*                                                                         *)
(* Two threads use it: the ioctls of the stream, one at a time under       *)
(* stream->vq_mutex (us), and the work item of the event queue (wk).       *)
(* cache->lock protects each walk over the list and nothing more.          *)
(***************************************************************************)
EXTENDS Integers, Sequences, FiniteSets

CONSTANTS
  Bufs,        \* what get_entry_from_fd compares: inode, size, queue type
  TypeOf,      \* the queue type of each
  Ids,         \* export ids of HAB, used again once they are unexported
  MaxEntries,  \* MAX_NUM_EXPORT_CACHE_ENTRY
  MaxErased,   \* VIRTIO_VIDEO_CLEANUP_LIMIT
  MaxQueued,   \* bound: calls of msm_vidc_buf_queue
  None

PlaneTypes == {"INPUT", "OUTPUT"}
Meta(t) == IF t = "INPUT" THEN "INPUT_META" ELSE "OUTPUT_META"
Types == PlaneTypes \cup {Meta(t) : t \in PlaneTypes}

Entry == [id : Ids, in_use : BOOLEAN]

ASSUME ExportCacheAssumption ==
  /\ TypeOf \in [Bufs -> Types]
  /\ MaxEntries \in Nat /\ MaxErased \in Nat    \* 256 and 5 in the source
  /\ MaxQueued \in Nat
  /\ None \notin Ids \cup Bufs \cup Entry

VARIABLES
  exported,  \* HAB: the ids that are exported
  cache,     \* cache->export_fifo: the entry of each buffer, or None
  vb,        \* resource_id of each buffer that is with the driver (vb2 ACTIVE), or None
  bk,        \* the id by which the back end uses a buffer, or None
  events,    \* EBD and FBD events on their way, oldest first
  error,     \* STREAM_STATE_ERROR
  us,        \* where the ioctl is
  ub,        \* its buffer
  uid,       \* its export_id
  ut,        \* the type of the queue it stops
  ret,       \* its streamoff failed
  wk,        \* where the work item is: in virtio_video_handle_buf_done or _handle_error
  wid,       \* its export_id
  werased,   \* the export ids it has yet to clean up
  queued,    \* calls of msm_vidc_buf_queue so far
  raced,     \* history: the work item gave back, or cleared in_use of, a buffer queued again
  offFailed, \* history: a streamoff or a stream_destroy command failed
  leaked     \* history: an unexport failed whose entry was then freed

usVars == <<us, ub, uid, ut, ret>>
wkVars == <<wk, wid, werased>>
histVars == <<queued, raced, offFailed, leaked>>
vars == <<exported, cache, vb, bk, events, error, usVars, wkVars, histVars>>

Cached == {b \in Bufs : cache[b] # None}
EntriesOf(id) == {b \in Cached : cache[b].id = id}

\* The pending buffers that an event for this id may be about.
Pending(id) == {b \in Bufs : vb[b] = id}

\* Unexports every entry of the buffers bs and frees it, whether or not habmm_unexport worked.
UnexportAll(bs) ==
  \E failed \in SUBSET bs :
    /\ exported' = exported \ {cache[b].id : b \in bs \ failed}
    /\ leaked' = (leaked \/ failed # {})
    /\ cache' = [b \in Bufs |-> IF b \in bs THEN None ELSE cache[b]]
-----------------------------------------------------------------------------
(* msm_buf_get_export_id, called by msm_vidc_buf_queue.                     *)

GoTo(label) == us' = label

\* The ioctl returns, and its locals are gone.
Return == us' = "idle" /\ ub' = None /\ uid' = None /\ ut' = None /\ ret' = FALSE

\* A faulty lookup, that does not mark the entry.
LookupHitUnmarked(b) ==
  /\ us = "idle" /\ ~error /\ vb[b] = None
  /\ queued < MaxQueued
  /\ queued' = queued + 1
  /\ cache[b] # None
  /\ UNCHANGED cache
  /\ ub' = b
  /\ GoTo("hit")
  /\ UNCHANGED <<exported, vb, bk, events, error, uid, ut, ret, wkVars, raced, offFailed, leaked>>

\* get_entry_from_fd that finds an entry.
LookupHit(b) ==
  /\ us = "idle" /\ ~error /\ vb[b] = None
  /\ queued < MaxQueued
  /\ queued' = queued + 1
  /\ cache[b] # None
  /\ cache' = [cache EXCEPT ![b].in_use = TRUE]
  /\ ub' = b
  /\ GoTo("hit")
  /\ UNCHANGED <<exported, vb, bk, events, error, uid, ut, ret, wkVars, raced, offFailed, leaked>>

\* export_id = entry->export_id, after the lock was released.  A freed entry holds anything.
ReadId ==
  /\ us = "hit"
  /\ \E id \in IF cache[ub] = None THEN Ids ELSE {cache[ub].id} : uid' = id
  /\ GoTo("queue")
  /\ UNCHANGED <<exported, cache, vb, bk, events, error, ub, ut, ret, wkVars, histVars>>

\* It may hold no id at all, and then the buffer goes back as after a failed export.
ReadNoId ==
  /\ us = "hit"
  /\ cache[ub] = None
  /\ Return
  /\ UNCHANGED <<exported, cache, vb, bk, events, error, wkVars, histVars>>

LookupMiss(b) ==
  /\ us = "idle" /\ ~error /\ vb[b] = None
  /\ queued < MaxQueued
  /\ queued' = queued + 1
  /\ cache[b] = None
  /\ ub' = b
  /\ GoTo("export")
  /\ UNCHANGED <<exported, cache, vb, bk, events, error, uid, ut, ret, wkVars, raced, offFailed, leaked>>

\* habmm_export, in at most five attempts.
Export ==
  /\ us = "export"
  /\ \E id \in Ids \ exported : exported' = exported \cup {id} /\ uid' = id
  /\ GoTo("alloc")
  /\ UNCHANGED <<cache, vb, bk, events, error, ub, ut, ret, wkVars, histVars>>

\* Without an id the buffer goes back with VB2_BUF_STATE_ERROR.
ExportFail ==
  /\ us = "export"
  /\ Return
  /\ UNCHANGED <<exported, cache, vb, bk, events, error, wkVars, histVars>>

\* A faulty limit, off by one.
AllocCheckLate ==
  /\ us = "alloc"
  /\ Cardinality(Cached) <= MaxEntries
  /\ GoTo("add")
  /\ UNCHANGED <<exported, cache, vb, bk, events, error, ub, uid, ut, ret, wkVars, histVars>>

\* alloc_one_export_entry: the limit is tested without the lock, ...
AllocCheck ==
  /\ us = "alloc"
  /\ Cardinality(Cached) < MaxEntries
  /\ GoTo("add")
  /\ UNCHANGED <<exported, cache, vb, bk, events, error, ub, uid, ut, ret, wkVars, histVars>>

\* ... and the entry added with it.
AddEntry ==
  /\ us = "add"
  /\ cache' = [cache EXCEPT ![ub] = [id |-> uid, in_use |-> TRUE]]
  /\ GoTo("queue")
  /\ UNCHANGED <<exported, vb, bk, events, error, ub, uid, ut, ret, wkVars, histVars>>

\* A faulty error path, that does not unexport.
AllocFailKeepsId ==
  /\ us \in {"alloc", "add"}
  /\ \/ UNCHANGED <<exported, leaked>>
     \/ leaked' = TRUE /\ UNCHANGED exported
  /\ Return
  /\ UNCHANGED <<cache, vb, bk, events, error, wkVars, queued, raced, offFailed>>
\* No entry, and the id is unexported: the cache is full, or dma_buf_get or the allocation fails.
AllocFail ==
  /\ us \in {"alloc", "add"}
  /\ \/ exported' = exported \ {uid} /\ UNCHANGED leaked
     \/ leaked' = TRUE /\ UNCHANGED exported
  /\ Return
  /\ UNCHANGED <<cache, vb, bk, events, error, wkVars, queued, raced, offFailed>>
-----------------------------------------------------------------------------
(* The rest of msm_vidc_buf_queue.                                         *)

\* The QBUF command is sent.
Queue ==
  /\ us = "queue"
  /\ vb' = [vb EXCEPT ![ub] = uid]
  /\ bk' = [bk EXCEPT ![ub] = uid]
  /\ Return
  /\ UNCHANGED <<exported, cache, events, error, wkVars, histVars>>

\* It is not: an error of the stream, unless no memory was left for the command.
QueueFail ==
  /\ us = "queue"
  /\ error' \in {TRUE, error}
  /\ GoTo("put")
  /\ UNCHANGED <<exported, cache, vb, bk, events, ub, uid, ut, ret, wkVars, histVars>>

\* msm_buf_put_export_id with cleanup: unexport, without the lock, ...
PutUnexport ==
  /\ us = "put"
  /\ uid \in exported
  /\ exported' = exported \ {uid}
  /\ GoTo("free")
  /\ UNCHANGED <<cache, vb, bk, events, error, ub, uid, ut, ret, wkVars, histVars>>

\* ... which may fail: the entry stays, in use ...
PutUnexportFail ==
  /\ us = "put"
  /\ Return
  /\ UNCHANGED <<exported, cache, vb, bk, events, error, wkVars, histVars>>

\* A faulty cleanup, that leaves the entry.
PutFreeNothing ==
  /\ us = "free"
  /\ \/ EntriesOf(uid) # {} /\ UNCHANGED cache
     \/ EntriesOf(uid) = {} /\ UNCHANGED cache
  /\ Return
  /\ UNCHANGED <<exported, vb, bk, events, error, wkVars, histVars>>
\* ... then find the entry by its id and free it.
PutFree ==
  /\ us = "free"
  /\ \/ \E b \in EntriesOf(uid) : cache' = [cache EXCEPT ![b] = None]
     \/ EntriesOf(uid) = {} /\ UNCHANGED cache
  /\ Return
  /\ UNCHANGED <<exported, vb, bk, events, error, wkVars, histVars>>
-----------------------------------------------------------------------------
(* msm_vidc_stop_streaming, and the release.                                *)

\* The buffers of queue t, and of its meta queue if it has one.
OfQueue(t) == {b \in Bufs : TypeOf[b] = t \/ (t \in PlaneTypes /\ TypeOf[b] = Meta(t))}

\* virtio_video_queue_release_buffers, for these buffers.
Released(t) == [b \in Bufs |-> IF b \in OfQueue(t) THEN None ELSE vb[b]]

\* In the error state there is no streamoff and nothing is unexported.
StopInError(t) ==
  /\ us = "idle" /\ error
  /\ ut' = t
  /\ vb' = Released(t)
  /\ GoTo("wait")
  /\ UNCHANGED <<exported, cache, bk, events, error, ub, uid, ret, wkVars, histVars>>

\* A meta queue that stops only waits for its buffers.
StopMeta(t) ==
  /\ us = "idle" /\ ~error
  /\ t \notin PlaneTypes
  /\ ut' = t
  /\ GoTo("wait")
  /\ UNCHANGED <<exported, cache, vb, bk, events, error, ub, uid, ret, wkVars, histVars>>

\* The back end answers a streamoff when it has given up the buffers of the queue.
StreamOff(t) ==
  /\ us = "idle" /\ ~error
  /\ \A b \in OfQueue(t) : bk[b] = None
  /\ ut' = t
  /\ ret' = FALSE
  /\ GoTo("off")
  /\ UNCHANGED <<exported, cache, vb, bk, events, error, ub, uid, wkVars, histVars>>

\* A streamoff that times out or is not sent.
StreamOffFail(t) ==
  /\ us = "idle" /\ ~error
  /\ ut' = t
  /\ ret' = TRUE
  /\ error' = TRUE
  /\ offFailed' = TRUE
  /\ GoTo("off")
  /\ UNCHANGED <<exported, cache, vb, bk, events, ub, uid, wkVars, queued, raced, leaked>>

\* msm_buf_put_export_queue_type for the queue ...
PutQueueType ==
  /\ us = "off"
  /\ UnexportAll({b \in Cached : TypeOf[b] = ut})
  /\ GoTo("off_meta")
  /\ UNCHANGED <<vb, bk, events, error, ub, uid, ut, ret, wkVars, queued, raced, offFailed>>

\* ... and for its meta queue; if the command failed, release of the buffers.
PutMetaType ==
  /\ us = "off_meta"
  /\ UnexportAll({b \in Cached : TypeOf[b] = Meta(ut)})
  /\ vb' = IF ret THEN Released(ut) ELSE vb
  /\ GoTo("wait")
  /\ UNCHANGED <<bk, events, error, ub, uid, ut, ret, wkVars, queued, raced, offFailed>>

\* vb2_wait_for_all_buffers.
Wait ==
  /\ us = "wait"
  /\ \A b \in Bufs : TypeOf[b] = ut => vb[b] = None
  /\ Return
  /\ UNCHANGED <<exported, cache, vb, bk, events, error, wkVars, histVars>>

\* virtio_video_device_release, its queues stopped: the command that destroys the stream in
\* the back end, which may fail, then msm_export_cache_destroy.  What a work item inside the stream would do to the freed
\* memory is undefined and not modelled.
Destroy ==
  /\ us = "idle"
  /\ \A b \in Bufs : TypeOf[b] \in PlaneTypes => vb[b] = None
  /\ \/ bk' = [b \in Bufs |-> None] /\ UNCHANGED offFailed
     \/ UNCHANGED bk /\ offFailed' = TRUE
  /\ UnexportAll(Cached)
  /\ GoTo("closed")
  /\ UNCHANGED <<vb, events, error, ub, uid, ut, ret, wkVars, queued, raced>>
-----------------------------------------------------------------------------
(* The back end, and virtio_video_handle_buf_done in the work item.         *)

\* The back end is done with a buffer.  With a plane it names ids that it has erased since.
BufferDone(b) ==
  /\ us # "closed"
  /\ bk[b] # None
  /\ bk' = [bk EXCEPT ![b] = None]
  /\ \E erased \in SUBSET {id \in exported : \A c \in Bufs : bk'[c] # id} :
       /\ Cardinality(erased) <= MaxErased
       /\ TypeOf[b] \notin PlaneTypes => erased = {}
       /\ events' = Append(events, [id |-> bk[b], erased |-> erased])
  /\ UNCHANGED <<exported, cache, vb, error, usVars, wkVars, histVars>>

\* An error event puts the stream into the error state.
ErrorEvent ==
  /\ us # "closed" /\ wk = "idle"
  /\ error' = TRUE
  /\ wk' = "error"
  /\ UNCHANGED <<exported, cache, vb, bk, events, usVars, wid, werased, histVars>>

\* virtio_video_handle_error: the pending buffers of all queues are released.
HandleError ==
  /\ us # "closed" /\ wk = "error"
  /\ vb' = [b \in Bufs |-> None]
  /\ wk' = "idle"
  /\ UNCHANGED <<exported, cache, bk, events, error, usVars, wid, werased, histVars>>

\* The buffer is looked up by its id, ...
Handle ==
  /\ us # "closed" /\ wk = "idle"
  /\ events # <<>>
  /\ wid' = Head(events).id
  /\ werased' = Head(events).erased
  /\ events' = Tail(events)
  /\ wk' = "done"
  /\ UNCHANGED <<exported, cache, vb, bk, error, usVars, histVars>>

\* ... given back (virtio_video_buf_done), which lets the user queue it again, ...
GiveBack ==
  /\ us # "closed" /\ wk = "done"
  /\ \/ \E b \in Pending(wid) :
          /\ vb' = [vb EXCEPT ![b] = None]
          /\ raced' = (raced \/ bk[b] # None)
     \/ Pending(wid) = {} /\ UNCHANGED <<vb, raced>>
  /\ wk' = "put"
  /\ UNCHANGED <<exported, cache, bk, events, error, usVars, wid, werased, queued, offFailed, leaked>>

\* Buffer b is on its way to the back end, or there.
InUse(b) == vb[b] # None \/ bk[b] # None \/ (ub = b /\ us \in {"hit", "queue", "put", "free"})

\* ... and only then msm_buf_put_export_id without cleanup.
PutInUse ==
  /\ us # "closed" /\ wk = "put"
  /\ \/ \E b \in EntriesOf(wid) :
          /\ cache' = [cache EXCEPT ![b].in_use = FALSE]
          /\ raced' = (raced \/ InUse(b))
     \/ EntriesOf(wid) = {} /\ UNCHANGED <<cache, raced>>
  /\ wk' = "cleanup"
  /\ UNCHANGED <<exported, vb, bk, events, error, usVars, wid, werased, queued, offFailed, leaked>>

\* A faulty cleanup, that does not look at in_use.
CleanupInUse(id) ==
  /\ us # "closed" /\ wk = "cleanup"
  /\ id \in werased
  /\ werased' = werased \ {id}
  /\ \/ \E b \in EntriesOf(id) :
          /\ id \in exported
          /\ exported' = exported \ {id}
          /\ cache' = [cache EXCEPT ![b] = None]
     \/ UNCHANGED <<exported, cache>>
  /\ UNCHANGED <<vb, bk, events, error, usVars, wk, wid, histVars>>

\* msm_buf_cleanup_buffers, for one id: the lock is held over the unexport.
Cleanup(id) ==
  /\ us # "closed" /\ wk = "cleanup"
  /\ id \in werased
  /\ werased' = werased \ {id}
  /\ \/ \E b \in EntriesOf(id) :
          /\ ~cache[b].in_use
          /\ id \in exported
          /\ exported' = exported \ {id}
          /\ cache' = [cache EXCEPT ![b] = None]
     \/ UNCHANGED <<exported, cache>>
  /\ UNCHANGED <<vb, bk, events, error, usVars, wk, wid, histVars>>

HandleEnd ==
  /\ us # "closed" /\ wk = "cleanup"
  /\ werased = {}
  /\ wk' = "idle"
  /\ wid' = None
  /\ UNCHANGED <<exported, cache, vb, bk, events, error, usVars, werased, histVars>>
-----------------------------------------------------------------------------
\* msm_export_cache_init.
Init ==
  /\ exported = {}
  /\ cache = [b \in Bufs |-> None]
  /\ vb = [b \in Bufs |-> None]
  /\ bk = [b \in Bufs |-> None]
  /\ events = <<>>
  /\ error = FALSE
  /\ us = "idle"
  /\ ub = None
  /\ uid = None
  /\ ut = None
  /\ ret = FALSE
  /\ wk = "idle"
  /\ wid = None
  /\ werased = {}
  /\ queued = 0
  /\ raced = FALSE
  /\ offFailed = FALSE
  /\ leaked = FALSE

Ioctl ==
  \/ \E b \in Bufs : LookupHit(b) \/ LookupMiss(b)
  \/ ReadId \/ ReadNoId \/ Export \/ ExportFail \/ AllocCheck \/ AddEntry \/ AllocFail
  \/ Queue \/ QueueFail \/ PutUnexport \/ PutUnexportFail \/ PutFree
  \/ \E t \in PlaneTypes : StreamOff(t) \/ StreamOffFail(t)
  \/ \E t \in Types : StopInError(t) \/ StopMeta(t)
  \/ PutQueueType \/ PutMetaType \/ Wait \/ Destroy

Work ==
  \/ ErrorEvent \/ HandleError
  \/ Handle \/ GiveBack \/ PutInUse \/ HandleEnd
  \/ \E id \in Ids : Cleanup(id)

Next ==
  \/ Ioctl \/ Work
  \/ \E b \in Bufs : BufferDone(b)

Spec == Init /\ [][Next]_vars
-----------------------------------------------------------------------------
FlagsOK ==
  /\ error \in BOOLEAN /\ ret \in BOOLEAN
  /\ raced \in BOOLEAN /\ offFailed \in BOOLEAN /\ leaked \in BOOLEAN

VarsOK ==
  /\ exported \subseteq Ids
  /\ cache \in [Bufs -> Entry \cup {None}]
  /\ vb \in [Bufs -> Ids \cup {None}] /\ bk \in [Bufs -> Ids \cup {None}]
  /\ events \in Seq([id : Ids, erased : SUBSET Ids])
  /\ werased \subseteq Ids
  /\ queued \in Nat

LocalsOK ==
  /\ us \in {"idle", "hit", "export", "alloc", "add", "queue", "put", "free",
            "off", "off_meta", "wait", "closed"}
  /\ us \in {"hit", "export", "alloc", "add", "queue", "put", "free"} => ub \in Bufs
  /\ us \in {"alloc", "add", "queue", "put", "free"} => uid \in Ids
  /\ us \in {"off", "off_meta"} => ut \in PlaneTypes
  /\ us = "wait" => ut \in Types
  /\ wk \in {"idle", "error", "done", "put", "cleanup"}
  /\ wk \in {"done", "put", "cleanup"} => wid \in Ids

\* Every variable keeps its type, and an ioctl that queues or unexports a buffer has its id.
TypeOK == FlagsOK /\ VarsOK /\ LocalsOK

\* No two entries share an id, and the id of an entry is exported, but for the moment between
\* the unexport and the free of msm_buf_put_export_id: whatever order lookups, puts and
\* cleanups come in, no id is unexported twice and no entry hands out a dead one
\* (virtio_video_msm_mem.c:209-242).
IdsOwnedOnce ==
  /\ \A b, c \in Cached : cache[b].id = cache[c].id => b = c
  /\ \A b \in Cached : cache[b].id \in exported \/ (us = "free" /\ cache[b].id = uid)

\* Every exported id can still be unexported, unless an unexport failed on the way: it is in
\* the cache or in the hands of msm_buf_get_export_id, and nowhere once the stream is released
\* (virtio_video_msm_mem.c:161-168, 325-340).
NothingLeaks ==
  ~leaked => \A id \in exported : EntriesOf(id) # {} \/ (us \in {"alloc", "add"} /\ uid = id)

\* The limit of the cache, tested outside the lock, holds while cleanups and puts of the work
\* item run in between (virtio_video_msm_mem.c:79, 103-106).
CacheBounded == Cardinality(Cached) <= MaxEntries

\* As long as the work item has not taken a buffer queued again for the one of its event, the
\* entry that get_entry_from_fd returned, and whose id msm_vidc_buf_queue sends, is not freed
\* by a cleanup in between (virtio_video_msm_mem.c:136-140).
EntryHeld ==
  ~raced /\ us \in {"hit", "queue", "put"}
    => /\ cache[ub] # None
       /\ cache[ub].in_use
       /\ us # "hit" => cache[ub].id = uid

\* Until then, and until a streamoff or stream_destroy command fails, a buffer that the back end uses is exported under
\* the id it was queued with, although the cache is cleaned up, by other events, from ids the
\* back end erased before it got the buffer again (virtio_video_msm_mem.c:244-283).
QueuedStaysExported ==
  ~raced /\ ~offFailed
    => \A b \in Bufs : bk[b] # None => /\ bk[b] \in exported
                                      /\ cache[b] # None /\ cache[b].id = bk[b] /\ cache[b].in_use
=============================================================================
