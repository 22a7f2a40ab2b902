# virtio-video front end: TLA+ models, model checking and proofs

This directory holds TLA+ modules for the virtio-video front-end driver in `src/`, the TLC
configurations that check them on small instances, and proofs that TLAPS checks. The build
modelled is the one with `VIRTIO_VIDEO_MSM`, where the two virtqueues are emulated over HAB
sockets (`driver/virtio_video_msm_hab.c`) and answers and events arrive in kernel threads;
`HwVirt` adds `MSM_VIDC_HW_VIRT` to it, and `BaseSession` is the build without
`VIRTIO_VIDEO_MSM`, whose decoder, encoder and camera sessions are other code.

## The system

| Component | State | Operations | Works with |
|---|---|---|---|
| **Command queue** (`virtio_video_vq.c`, `virtio_video_msm_hab.c`) | `pending_vbuf_list`, the slab cache of vbufs, `vbufs_sent`, `commandq.qlock`, `commandq.ready`, the three lists of vq_bufs, `broken` | allocate and queue a command, kick (send), wait up to 5 s, receive and match an answer, complete or free the vbuf, error path, teardown | every ioctl, open and release; the back end |
| **Event queue** (same files) | `vvd->evts`, three lists of vq_bufs, `broken`, `eventq.ready`, the work item | receive an event into a buffer, schedule the work item, handle the event, recycle the buffer, error events, teardown | streams, stream buffers; the back end |
| **Stream session** (`virtio_video_msm_v4l2.c`, `virtio_video_msm_vq.c`, `virtio_video_device.c`, the MSM parts of `virtio_video_dec.c` and `_enc.c`) | `stream_idr`, `stream->state` (ERROR is sticky), `codec`, `enable_eos_event`, what open has acquired | open with its error labels, release, the V4L2 ioctls, each a synchronous command | command queue, error events |
| **Stream buffers** (`virtio_video_msm_vb2.c`, `virtio_video_device.c`, `virtio_video_vq.c`) | vb2 buffer states, `pending_buf_list` of the device | queue, start and stop streaming, buffer-done events, release on error | export cache, command queue, event queue |
| **Export cache** (`virtio_video_msm_mem.c`) | a list of exported dma-bufs per stream, `used_count`, `in_use` | get an id, put it, clean up what the back end erased, destroy | HAB export and unexport |
| **GVM session** (`virtio_video_msm_hw_virt.c`) | `gvm_stream_id`, `session_handle`, `pending_event_list` | open and close GVM, open and close a GVM session, wait for an event | command queue, event queue |
| **Probe and remove** (`virtio_video_driver.c`) | what has been set up so far, for two devices | module init and exit, reset, probe and remove, each with its ladder | both queues |
| **Decoder, encoder, camera** without MSM (`virtio_video_dec.c`, `_enc.c`, `_cam.c`) | `stream->state`, `in_info` and `out_info`, `resource_idr`, the camera's `device_busy` and pending list | formats, start, stop, drain, resolution change, buffers | command and event queue |
| **Formats, capabilities, controls** (`virtio_video_device.c`, `_caps.c`, `_helpers.c`) | parsed tables | clamp, align, enumerate | capability command |
| **Debug and headers** | none | logging, declarations | - |

What is hard in it: callers, two kernel threads, a work item and removal share lists under
three different locks, or none; answers carry no identity beyond stream and type; a call may
time out and its answer still arrive; buffers are recycled while events are in flight; the
error paths run concurrently with everything else, and stop threads that are running them.

What makes each part correct:

* command queue: an answer reaches the call it answers; a vbuf is not used after it was
  freed, nor leaked; a kick sends its own caller's command; every call returns; vq_bufs are
  conserved.
* event queue: an event is handled once, in order, with the content that was received; a
  buffer is in one place; no wakeup is lost; a failure reaches every stream.
* stream session: ERROR arrives and sticks; a stream has no error but its own; what it believes
  the back end uses is what it uses; no stream of the back end, and no memory, is left behind.
* stream buffers: a buffer given to the driver comes back exactly once; stop_streaming ends;
  nothing freed stays on `pending_buf_list`.
* export cache: an id the back end uses stays exported; an id is unexported once; the limit
  of 256 entries holds.
* GVM: an event is delivered once, in order; a waiter does not sleep on; every stream and
  session of the back end can still be closed.
* probe and remove: what was set up is undone, whichever step failed, after those who use it
  have stopped.
* sessions without MSM: vb2 never waits for a buffer nobody owes; nothing is freed while the
  back end has it; a drain in progress has an end; formats agree; one user per camera.

## Modules

| Module | Models | Checked by |
|---|---|---|
| `CmdQueue` | the command queue | `MCCmdQueue` with four configurations |
| `CmdQueueProofs` | theorems about `CmdQueue` | TLAPS |
| `EventQueue` | the event queue | `MCEventQueue` |
| `EventQueueProofs` | theorems about `EventQueue` | TLAPS |
| `ExportCache` | the export cache of one stream, with its callers | `MCExportCache` |
| `ExportCacheProofs` | theorems about `ExportCache` | TLAPS |
| `OperatorLemmas` | lemmas about ids and lists that the proofs below share | TLAPS |
| `StreamBuffers` | the buffers of all streams, the pending list of the device | `MCStreamBuffers` with two configurations |
| `StreamBuffersProofs` | theorems about `StreamBuffers`, the refinement of `BufferOwnership` among them | TLAPS |
| `BufferOwnership` | what `StreamBuffers` promises, abstractly: user, driver, back end | `StreamBuffers` implements it |
| `StreamSession` | open, release, ioctls and events of the streams of the MSM build | `MCStreamSession` |
| `StreamSessionProofs` | theorems about `StreamSession` | TLAPS |
| `BaseSession` | the decoder, encoder and camera sessions without MSM | `MCBaseSession` with two configurations |
| `BaseSessionProofs` | theorems about `BaseSession` | TLAPS |
| `DriverLoad` | module init and exit, registration, probe and remove | `MCHwVirt`, with `HwVirt` |
| `HwVirt` | the GVM calls and SSR events; extends `DriverLoad`, whose live device it uses | `MCHwVirt` |
| `HwVirtProofs` | theorems about `DriverLoad` and `HwVirt` | TLAPS |

### CmdQueue

A vbuf is an address (`Slots`) that is reused after it was freed, as the slab cache does; a
command is its key, the pair (stream id, command type) by which answers are matched. The
program counters `pc`, `rt`, `td` and `evt` follow `virtio_video_queue_cmd_buffer_sync` in
each caller, `virtio_video_hab_resp_handler` for the commandq, `virtio_video_remove`, and
the `msm_hab_del_vqs` of the event thread's error path. One action is one critical section,
or one step between two of them: `Enqueue` takes the lock, gives the vbuf its id, puts it on
the pending list and into a vq_buf (`AddSgs`); `KickTake` takes the head of `vbuf_list` and
*drops the lock*; `Send` and `SendFail` run without it; `Relock` takes it again and gives it
back. `MatchFound` is the search of `process_msm_hab_cmd_resp`, which copies the answer and
attaches the vbuf to `resp_list`; `CmdCbEnter`, `CmdCbGet`, `CmdCbLeave` are
`virtio_video_cmd_cb`. `Break`, `ErrorLoop`, `SelfStop` are the error path, whose missing
braces make the eventq's loop run here too.

The back end answers each command it was sent at most once, in any order, or never.
`Keys`, `SyncKeys` and `CallerKeys` say who may issue what. Two threads can indeed issue the
same pair: REQBUFS holds the buffer queue's lock, G_FMT the device's, and both are
GET_PARAMS of one stream.

`vbuf_is_pending` is set membership: its test of the id compares a field with itself. The
pending list is a set, for it is searched in the order of the ids.

Histories: `resp` says whose answer is in a vbuf's response buffer, and `timedOut` that some
call has returned -ETIMEDOUT. Three properties hold until then only, and say so: once a call
has timed out, its answer may come late and be taken for the answer to a retry.

### EventQueue

Event buffers are the numbers of the array `vvd->evts`. `et` follows
`virtio_video_hab_resp_handler` for the eventq, `wk` follows `virtio_video_process_events`,
`td` the end of probe and removal. The event thread takes a buffer (`GetBuf`), receives into
it, attaches it to `resp_list` and schedules the work item; the work item takes it, handles
the event, clears the buffer and puts it back; it ends (`WorkEnd`) some time after it found
`resp_list` empty (`WorkEmpty`), which is where a wakeup could be lost. The hvq's lock protects each list operation
and nothing more, so all of these interleave. `GetBuf` does not wait: the retry loop of
`get_one_evt_buf` needs `retry > max_retry` to start. The error path is `Break`, `Reattach`,
one `ErrorEvent`/`PostError` or `NoErrorEvent` for each stream in the idr, and `SelfStop`.
The histories `posted` and `handled` record what joined `resp_list` and what was handled.

### ExportCache

A buffer is what `get_entry_from_fd` compares: inode, size, queue type. It has one plane, as
in this driver's sessions, and one vb2 buffer. `us` is where the ioctl of the stream is
(`msm_vidc_buf_queue`, `msm_vidc_stop_streaming`, release: one at a time, under
`stream->vq_mutex`), `wk` where the work item is in `virtio_video_handle_buf_done` or
`virtio_video_handle_error`. Each walk over the list is one action, for it holds
`cache->lock`; what runs without it is an action of its own: `ReadId` after `LookupHit`,
`AllocCheck` before `AddEntry`, `PutUnexport` before `PutFree`. `vb` says which buffers are
pending and under which id, `bk` which the back end uses. `GiveBack` and `PutInUse` are the
end of handle_buf_done, in the order of the code: the user gets the buffer first.

HAB gives an id out again once it is unexported, and unexporting an id that is not exported
fails. The back end answers a streamoff when it has given up the buffers of the queue, and
lists as erased only ids that it does not use at that moment.

Histories: `raced` says that the work item gave back, or cleared `in_use` of, a buffer that was
queued again in the meantime, `offFailed` that a streamoff or stream_destroy command failed,
`leaked` that an unexport failed whose entry was freed all the same. `EntryHeld` and
`QueuedStaysExported` hold until `raced` (and `offFailed`) only, and say so: past that the
code does unexport buffers in use, and frees entries that a lookup has returned.

### StreamBuffers

`st` is the vb2 state of a buffer (`done` for VB2_BUF_STATE_DONE and _ERROR), `pending` is
`vvd->pending_buf_list`, which all streams share, `rid` is `resource_id` and outlives the
buffer's stay on the list, `eid` is the id under which the export cache of its stream has it.
`us`, `ub` and `uq` say where the ioctl of each stream is: `stream->vq_mutex` admits one at a
time to its buffers. `wk`, `wev`, `wb` follow `virtio_video_handle_event` in the work item.
Each walk over the list is one action, for it holds `pending_buf_list_lock`; everything
between two of them interleaves: `HandleFound`, `HandleDel` and `HandleDone` are the three
steps of a buffer-done event, `Accept`, `QueueAdd` and `QueueSend` those of
`msm_vidc_buf_queue`, `Stop`, `Off`, `StopRelease` and `Wait` those of a streamoff.

Of vb2 it takes what this code relies on: `vb2_buffer_done` ignores a buffer that is not
active (and warns: the history `twice`); streamon enqueues what was queued, then calls
`start_streaming`, and takes it back if that fails; streamoff calls `stop_streaming` only on
a queue that was started and then takes every buffer out of it; a release stops and frees
the data queues, which the m2m context knows, and not the meta queues. The values of
`enum vb2_buffer_state` are such that DONE and ERROR pass the test
`state & VB2_BUF_STATE_ACTIVE`.

The back end gives up the buffers of a queue and its meta queue before it answers a streamoff;
events about them are still on their way then, and HAB may give their ids to other buffers.

A stream is healthy until it meets an error or one of its commands fails (`error`, `failed`);
the properties hold for healthy streams, whatever the others do, and say so. For the
others the code promises less, on purpose (a release takes buffers from the back end) or
not: after a failed command a buffer stays on the list and may be freed there, listed
again, or taken by an event for another stream's. Where the next step would be undefined (the list
is linked wrong, or holds freed memory), or an event has been mistaken, `Defined` ends the model.

`BufferOwnership` is the abstract specification: a buffer goes from the user to the driver, to
the back end, and the same way back. `Owner` is the refinement mapping; `OwnershipKept` is the
abstract specification under it.

### StreamSession

`pc` is the step of a stream's open (`create`, `fields`, `reset`, `queues`, `ctrls`), of the
labels a failure goes through, or of release. `OpenQueuesFail` chooses the step of
`virtio_video_*_init_queues` that fails, and `Undone` is what its labels undo. `op` is the
ioctl of a stream: `Admitted` or `Refused` is its test of the state, `Send`, `NoMemory`,
`CommandFails` and `Answered` are `virtio_video_v4l2_to_hab`. `lock` is `video_dev->lock`,
which ioctls, release and one label of open take, and neither the work item nor
`v4l2_ctrl_handler_setup` does. A command is a message that the back end processes in order and answers
under its stream id and type; an answer that comes too late stays in `answers` for the next
call with this key, as in `CmdQueue`. `wk` is `virtio_video_handle_event`: `HandleFind` looks
the id up, `UpdateRead` and `UpdateExchange` are the loop of `virtio_video_state_update`. In
the code nothing stops a release between two of these steps; the model goes on until the work
item would use a freed stream, or one whose file handle is not set up, and `Defined` ends it there.

The history `past` says of a stream why it may be in error (a command `failed`, the back end
reported it: `hit`, an event of the former owner of its id: `misled`), that an ioctl had
`nomem`, or that open's `virtio_video_state_reset` `lost` an error. `orphans` are opens whose
stream the back end was not told to destroy: every failure after `STREAM_CREATE` is one,
for the labels of open send no `STREAM_DESTROY`.

### BaseSession

Three contexts: `iop` is the ioctl under `video_dev->lock` (`vd`), which release and here the
work item take too; `qop` is the ioctl on a stream's queues, under `vq_mutex`; and the answers
to RESOURCE_QUEUE (`Answer`, `AnswerEos`), under neither, which complete buffers and, with the
EOS flag, change the state. `info` is what the stream believes of its two formats, `params`
what the back end uses; a format is a member of `Fmts` and whether a crop was set, its numbers
are abstracted. `bst` is the vb2 state of a buffer, `rid` and `resource_idr` its id, `attached`
what the back end has mapped, `owed` how many answers the back end owes for it. The type of
the device is chosen in `Init`: decoder, encoder and camera differ in the queue that makes a
stream INIT, in the states in which a start makes it RUNNING (`Starts`), in what a failed clear
does to a stop (`StopClear`) and in the camera's pending list and busy mark.

The state is tested and set in two steps (`Test`, `SetInit`; `StartTest`, `StartRun`; `Drain`,
`SetDrain`), and another context may change it in between. `WorkStale` is the work item with a
stream that an open freed when it failed: what it does is undefined, and it does nothing.

Its histories say what the properties except: `overtaken`, that EOS came before the ioctl set
DRAIN (the stream is then stuck in DRAIN, which the code does not prevent); `cleared`, that a
clear ended the drain; `failed`, that a failed command, whose result
the ioctls ignore, left a format unlike the back end's; `raced`, that an open failed while the work item had the stream; `unsent`,
buffers whose RESOURCE_QUEUE was not sent, which nobody is told; `early`, buffers that vb2 had
back while the back end owed an answer.

### DriverLoad and HwVirt

`at` is the step of module init, of registration, of probe, or of a ladder, and its device;
`Try` is a step that acquires something or goes to its label, `Undo` one that gives it back. `held`
is what a device has: the HAB handles that its reset opens, the entries of `vdev->vqs` with
their lists, the vbufs and events, and so on. The probe's result is ignored by
`register_virtio_device`, so that init goes on with a device whose probe failed. `HwVirt`
extends it: once the decoder is there, the GVM calls run, one at a time, each command one
step that may fail; the work item adds SSR events (`WorkAdd`) and wakes the waiter
(`WorkWake`), which looks at the list without its lock (`WaitCheck`), copies the first event
(`WaitPop`) and unlinks the first one of its device (`WaitDel`). Unloading may begin whenever no call
is under way.

## What is checked

| Run | Question | Answer |
|---|---|---|
| `cmd_exclusive` | Two callers without a common synchronous key, time-outs, failed sends and receives: do commands and answers stay with their calls (`SendsOwnCommand`, `AnswerIsOwn`, `NoWriteAfterReturn`)? Are two vq_bufs enough (`NoVqBufShortage`)? | yes, the first three until a call times out |
| `cmd_shared` | Two callers with a common key, against removal and the event thread's del_vqs: is a vbuf ever used after it was freed (`NoUseAfterFree`)? Does an idle queue leak one (`NothingLeaks`)? Are vq_bufs conserved (`VqBufsConserved`)? | never, not even after time-outs; no; yes |
| `cmd_live` | Does every call return (`CallReturns`)? | yes |
| `cmd_error_path` | Are commands left alone by the error path, as its comment says? | no: the loop for the eventq runs for the commandq |
| `evt_safe` | Is each event buffer in one place (`EventBufsOwnedOnce`), are buffers and vq_bufs kept (`NoEventBufLost`, `PoolConserved`), each event handled once, in order, unharmed (`EventsInOrder`)? Is each one received while ready handled in the end (`EventsHandled`)? | yes; `EventsInOrder` until removal, `NoEventBufLost` until the queue breaks |
| `cache_safe` | Is each export id in one entry and unexported once (`IdsOwnedOnce`), is none lost (`NothingLeaks`), does the limit hold (`CacheBounded`)? Is a looked-up entry kept (`EntryHeld`), and a buffer in use exported (`QueuedStaysExported`)? | yes; the last two until the work item meets a buffer that was queued again |
| `buffers_one` | One stream, data and meta queue, errors, failing commands: do buffers change hands as they should (`OwnershipKept`, `UserOwnsReturned`)? Can the list be corrupted or hold freed memory (`ListSound`)? Does the stop of a data queue end (`StopEnds`)? | as they should; only after a failed command, or when a file is closed with a meta queue streaming; yes |
| `buffers_two` | Two streams share list and ids: is the list exact, and does an event find its own buffer (`ListExact`), is a buffer given back once (`GivenBackOnce`)? | yes, for streams that met no error |
| `session` | Two streams opened, failed, used and released against events: is the idr exact (`StreamsExact`), is a stream in ERROR if and only if it met one of its own (`ErrorsExact`), does it stay there (`ErrorSticks`), do driver and back end agree (`ParamsAgree`), what is left behind (`LeftBehind`)? | exact; one of its own or of the id's former owner, unless open resets it; yes; until an ioctl runs out of memory; controls and the memory of meta queues, the cache slab of a failed open, and the back end's stream of every failed open |
| `base_buffers` | Without MSM, one stream with its two queues: is a buffer freed while the back end or the list has it (`NothingStale`)? Does a stop wait for answers that are owed (`ActiveOwed`)? Are ids exact (`IdsExact`)? Does a drain end (`DrainAnswered`)? | only one vb2 had back early; yes, but for a buffer whose command was not sent; yes; yes, but for an EOS that overtakes the ioctl, or a clear |
| `base_streams` | Two streams of one device: does the work item ever have a freed one (`NoStaleUse`)? Do the formats agree with the back end's (`InfoAgrees`)? One user per camera (`OneCamera`)? | only after an open that failed; yes, unless a failed command left them apart; yes |
| `hw_virt` | Loading with every step failing: is everything returned (`AllReturned`)? Are the GVM's streams and sessions accounted for (`Accounted`)? Are SSR events returned once and in order (`SsrInOrder`), and does the waiter wake up (`WaitEnds`)? | yes, but for what "Known behaviours" lists |

`cmd_error_path` alone expects a violation; `PROJECT.json` lists it under `findings` with the
lines. Runs with several questions share one state space, which is built once.

Where two named parts answer one question they are checked as a conjunction (`ListSound`,
`ListExact`, `StreamsExact`, `ErrorsExact`, `LeftBehind`, `IdsExact`, `NothingStale`,
`AllReturned`, `Accounted`). `TypeOK` is part of one of them where there is one; in `CmdQueue`,
`EventQueue` and `ExportCache` it is a theorem of its own.

`AnswerIsOwn` needs `ExclusiveKeys`: with a shared key the older of two calls gets whichever
answer comes first, which the matching cannot avoid.

### Known behaviours

What the models have because the code does, and the properties except by name:

* `virtio_video_free_vbufs` takes lists and cache apart while callers and threads run, although
  its comment (`virtio_video_vq.c:225-227`) says lock safe; `kthread_stop` of the error path
  (`virtio_video_msm_hab.c:442`) is called by the thread itself and never returns; no error
  event is sent when `vbuf_list` is empty (`:330`). With shared keys a failed send leaves its
  vbuf pending, for a later answer to complete.
* Open: a failure after STREAM_CREATE sends no STREAM_DESTROY, so the back end keeps a stream
  whose id is given out again; the event of a former stream reaches the new owner of its id;
  an error that comes before `virtio_video_state_reset` is lost.
* Without MSM: S_SELECTION's crop is overwritten by the GET_PARAMS that follows it; REQBUFS(0)
  of a streaming queue detaches its buffers at the back end and then returns EBUSY; a refused
  start leaves its RESOURCE_QUEUEs owed; an encoder whose clear fails stops without waiting; the
  camera's loop over the pending list completes its head and never unlinks it, and waits for
  an answer to do so; EOS may be handled before the drain ioctl sets DRAIN.
* Loading: `find_vqs` returns 0 when a queue could not be had, and probe goes on with pointers
  nobody set (step `blind`); `del_vqs` frees no unused vq_bufs, so that those of both queues
  leak when the vbufs cannot be allocated; the HAB handles leak when `device_add` or probe
  fails before `find_vqs`; `vdec->priv` dangles after a failed probe.
* GVM: an `open_gvm` that fails after STREAM_CREATE abandons its stream; `close_gvm` does not
  reset `session_handle`, so that a later `open_gvm_session` gets -EEXIST; SSR events still
  queued at removal are not freed; two waiters would unlink and free the same event.

### Bounds

* Two callers: every race in the command path is between a caller and one other actor
  (another caller, the response thread, teardown); a third caller adds none.
* `MaxSent` commands: 3 let a call time out, be retried and get the late answer while a
  third command is queued. 2 in the run of the error path, 1 in the liveness run.
* `Slots`: 3 or 2 addresses, fewer than commands, so that addresses are reused.
* `VqNum = 2`: the smallest number for which the queue works, shown by `NoVqBufShortage`
  and its theorem; more only makes shortages rarer.
* Event queue: 2 buffers, so that the lists run empty; `MaxEvents = 2`, and the error events after
  them, so that a buffer is reused while the event before it is handled; 2 streams, so that
  the error loop runs out of buffers between two.
* Export cache: two buffers and a meta buffer, so that a queue stops while another buffer of
  it is in the cache; 3 ids, so that they run out and are used again; `MaxEntries = 2`, so
  that the cache is full; `MaxErased = 1` id in an event; `MaxQueued = 4` calls of buf_queue,
  so that one buffer is exported, erased, queued again and cleaned up.
* Stream buffers: a data buffer and a meta buffer of one stream, so that a stop finds one
  buffer with the back end while another is in the hands of the work item; two streams with
  a buffer each, so that an id passes from one to the other; `Ids` no more than the buffers, so
  that ids are used again at once; `MaxQueued` 2 or 3 calls of buf_queue, so that a buffer
  is queued again while its old event, or its old place on the list, is still there;
  `MaxErrors = 1` error event. Between two streams error events add nothing to failed
  commands, which put them into the same state, and are left out.
* Stream session: two streams, so that an id passes from one to the other while an event or an
  answer is on its way; `MaxOpens = 2`, `MaxCalls = 1` beside the `s_ctrl` of each open, and
  `MaxEvents = 1`; one codec, which a stream has or has not; of the kinds of ioctls one for
  each way they differ (`set`, `s_fmt`, `s_ctrl`, `unsubscribe`), of the events an error and an end
  of stream.
* Sessions without MSM: `base_buffers` has one stream with a buffer in each queue, all three
  types of device, `MaxOwed = 1` answer owed per buffer, one S_FMT or stop command
  beside any number of ioctls on the queues, and one error; `base_streams` has two streams without
  buffers, two formats, `MaxCalls = 2` and one event, so that a resolution change falls
  between the steps of an S_FMT and of another one.
* `hw_virt`: two device ids and `MaxEvents = 2`, so that two events of one device may wait, or
  one of each; `MaxOpens = 2`, so that a GVM is opened again.
* The slots, streams and ids are symmetric where no liveness is checked.

`CHECK_DEADLOCK FALSE` everywhere: the system stops when the bound is used up, when the
device is gone, and when a thread is stuck in its own `kthread_stop`.

### Fairness

* `CmdQueue`: strong fairness of each caller's steps. Their waits are for `qlock`, a ticket
  spinlock that serves its waiters in order, and for the completion or the timer of
  `wait_for_completion_timeout`. Weak fairness of the loop in `virtio_video_cmd_cb`, which
  holds the lock and waits for nothing. The back end, and the response thread otherwise, owe
  nothing.
* `EventQueue`: weak fairness of the work item, which the work queue runs once queued, and
  of the step from attaching an event to `schedule_work`. The event thread owes nothing else.
* `StreamBuffers`: weak fairness of the work item, and of the two last steps of a stop: the
  release, and the wait, which `vb2_buffer_done` wakes up. The back end and the user owe
  nothing.
* `HwVirt`: weak fairness of the waiter, a thread that runs when it is woken, and of the work
  item's step from adding an event to `wake_up`. Loading, GVM calls and the back end owe nothing.
* `StreamSession` and `BaseSession` state none: what would have to end there ends by an answer the back end
  owes nobody. `ActiveOwed` and `DrainAnswered` are the safety half: nobody waits for
  something that is not owed.

## What is proved

`CmdQueueProofs`, for any sets of callers, vbufs and keys and any `VqNum >= 2`:

* `TypeCorrect`: `Spec => []TypeOK`.
* `VqBufsConservedTheorem`: `Spec => []VqBufsConserved`. `TotalStep` shows that no step but
  the three that free vq_bufs changes their number, `PhaseStep` that teardown only advances.
* `NoUseAfterFreeTheorem`: `Spec => []NoUseAfterFree`. The inductive invariant is
  `TypeOK /\ LockInv /\ OwnInv`. `NoUseAfterFree` alone is not inductive: it must be known
  that a vbuf joins the pending list once, by its caller (or `Enqueue` could list a freed
  one), and that a caller in wait issues a synchronous command (or `virtio_video_cmd_cb`
  would free the vbuf it waits on).
* `NoVqBufShortageTheorem`: `Spec => []NoVqBufShortage`. The inductive invariant is
  `TypeOK /\ LockInv /\ PoolInv`: the lock held over add and kick leaves at most one vq_buf
  on `vbuf_list`, the one response thread at most one on `resp_list`, so that one of two is
  free whenever an answer is matched.
* `NothingLeaksTheorem`: `Spec => []NothingLeaks`, if no two callers issue the same asynchronous
  command (`OneAsyncCaller`). RESOURCE_QUEUE comes from vb2 with the stream's `vq_mutex` held
  (`virtio_video_dec.c:243`, `virtio_video_enc.c:317`, `virtio_video_cam.c:131`), and
  STREAM_CREATE and STREAM_DESTROY from the one open or release of a file. Nobody waits for such
  a command: its vbuf is freed with the answer that is matched to it, so `LeakInv`
  counts: of each key there are at least as many answers (at the back end, being matched, or
  found) as vbufs that await one. The invariant `WorkInv` says who has a vbuf (`HeldInv`), that a
  kick sends its own (`KickInv`) and that the command sent last is the last of its key (`LastInv`).
* `SendsOwnCommandTheorem`, `AnswerIsOwnTheorem`: `Spec => []SendsOwnCommand` and
  `Spec => []AnswerIsOwn`; `NoWriteAfterReturnTheorem`: `RunningSpec => NoWriteAfterReturn`. They hold
  if no two callers issue the same command at a time (`OneCaller`), as in the run. The invariant
  `CallInv` says of the calls, until one times out: each answer to a synchronous command has its caller
  waiting and is the only one for it (`InflightOwn`, `MatchOwn`), a synchronous command is alone
  with its key from its kick on (`OnlyOwn`), and of an asynchronous key there are no more answers
  than vbufs sent (`DueInv`): one more would free the vbuf of a caller that reuses the address.

`EventQueueProofs`, for any streams and any number of buffers:

* `EventTypeCorrect`: `Spec => []TypeOK`, and `EventOwnership`: `Spec => []EventBufsOwnedOnce`.
  The two need each other: `TypeOK` says that a buffer whose event is still needed holds an
  event, which the `memset` of a recycled buffer would refute if that buffer were also in
  `resp_list`; and a buffer in two places is excluded only where it is a buffer.
* `EventPoolTheorem`: `Spec => []PoolConserved`: every list operation of the event thread,
  the work item, the error path and `virtio_video_free_vbufs` keeps the number of vq_bufs,
  by the same step-by-step argument as in `CmdQueueProofs`.
* `EventBufsKept`: `Spec => []NoEventBufLost`. The inductive strengthening is `HandsOK`: on a
  queue that works there are as many free vq_bufs as buffers in hand, so that
  `attach_buf_to_vq_buf`, whose failure would lose a buffer, never fails.
* `EventOrderTheorem`: `Spec => []EventsInOrder`. The proof shows that the sequence `InTransit`
  (handled, with the work item, in `resp_list`, with the event thread) stays as it is or grows at
  its end, by the next event of the back end or by one the error path makes up. It needs
  `EventOwnership` (the `memset`s hit none of these buffers), `HandsOK` (a received event is
  always attached) and `ErrorPathOK` (only the end of the error path runs on a broken queue).

`ExportCacheProofs`, for any buffers, ids and limits: the types and all five invariants of the run.

* `CacheTypeCorrect`; `IdsOwnedOnceTheorem` and `NothingLeaksTheorem`, from the inductive
  `IdsInv`, which adds `FreshInv`: while msm_buf_get_export_id makes an entry, its buffer has
  none and its id is in none (or `AddEntry` would lose one or duplicate the other), and
  msm_buf_put_export_id frees under an id it has unexported.
* `EntryHeldTheorem`: `EntryHeld` is inductive with the types: a cleanup spares entries in
  use, and the only step that clears the mark of a looked-up entry sets `raced`.
* `QueuedStaysExportedTheorem`, from `IdsInv`, `EntryHeld` and `UseInv`: a buffer that an ioctl
  queues, or whose queue stops, is not with the back end, so that what the ioctl unexports
  is not in use. `UseInv` holds because a buffer leaves the driver before the back end is
  done with it only in an error of the stream or in the race that `raced` records.
* `CacheBoundedTheorem`, from `RoomInv`: who has passed the test still has room, for only the
  ioctl itself adds entries.

`StreamBuffersProofs`, for any streams, buffers, ids and bounds: the four invariants of the runs
and the refinement.

* `InvHolds`: the invariant says where each buffer of a healthy stream is. `HandsInv`: in one pair of
  hands (its ioctl, the back end, one event on its way, or the work item), and active meanwhile;
  `ListedInv`: what is listed is in somebody's hands; `OrderInv`: of two listed buffers that have
  one id, the one that is first in the list has its event first. That is why an event finds its
  own buffer although HAB gives ids out again at once, and why it cannot be proved without the
  order of `events`. The proof sorts the steps: one that is *calm* for a buffer leaves it where
  it is, the others move one buffer from one pair of hands to the next.
* `ListSoundHolds`, `UserOwnsReturnedHolds`, `ListExactHolds` and `GivenBackOnceHolds` follow.
* `OwnershipKeptHolds`: `Spec => OwnershipKept`. Initial states map to initial states, and each
  step, under `Owner`, is a step of `BufferOwnership` or a stutter.

`StreamSessionProofs`, for any streams, ids, codecs and bounds: all five properties of the run.

* `InvHolds`. Ids are given out again while commands, answers and events of their former owner are
  under way, so that an id says little. The invariant ties everything to the number of the open it
  stems from (`gen`, which the code does not have; the model reads it for its histories, and to
  tell a freed stream from the next one in its place): `IdOfGen` (what
  is of one open is under one id), `InOrder` (commands under one id are in the order of the
  opens), `CreatedOnce`, `OwnedInv` (a stream of the back end is a file's, an orphan, or its
  STREAM_DESTROY is under way), `ArriveInv` (an error is on its way, or has arrived) and
  `AgreeInv` (what the back end will believe once it has processed the commands in `toBack`).
* `StreamsExactHolds`, `ErrorsExactHolds`, `LeftBehindHolds`, `ParamsAgreeHolds`, and the action
  property `ErrorSticksHolds`.

`BaseSessionProofs`, for any streams, buffers, formats and bounds: all seven invariants of the runs.

* `InvHolds`: `LockInv` and `QopInv` say which context is where, and so which of the steps of
  another context may fall between two of its own. `OwedInv` is what makes `NothingStale` hold: an
  answer still owed for a buffer that vb2 has back is one that vb2 was given early. `InfoInv`:
  a format unlike the back end's is about to be fetched, or a command failed.
* `IdsExactHolds`, `NothingStaleHolds`, `ActiveOwedHolds`, `DrainAnsweredHolds`,
  `NoStaleUseHolds`, `InfoAgreesHolds` and `OneCameraHolds`.

`HwVirtProofs`, for any bounds: the three invariants of the run.

* `InvHolds`. `LoadInv` says what each device holds: `Settled` if nobody works on it (everything, or
  what the failed ladder leaves), `Climbing` and `Descending` at each step and each label for
  the one that is worked on, and `Order`, which of the two may have a driver. `GvmInv` and `SsrInv`
  are about the calls and the events.
* `AllReturnedHolds`, `AccountedHolds` and `SsrInOrderHolds`.

The assumptions on constants are `CmdQueueAssumption`, `EventQueueAssumption`,
`ExportCacheAssumption`, `StreamBuffersAssumption`, `BaseAssumption`, and the
`BoundsAssumption`s of `StreamSession` and `HwVirt`; TLC evaluates them. `OneAsyncCaller` and
`OneCaller` are hypotheses of four theorems of `CmdQueueProofs`, not of the model: the runs
check the same properties on instances that satisfy them.

`Without` of `StreamBuffers`, a walk over the list, is a recursive function, which the provers can
reason about; what it returns is the lemma `Walked`, by induction over the positions as a set of
naturals (`FromZero` of `OperatorLemmas`).

Model-checked only: the liveness properties `CallReturns`, `EventsHandled`, `StopEnds` and
`WaitEnds`, which are out of the prover's reach, and the run that expects a violation.

## Limits of the models

* A call that starts after the slab cache was destroyed is not modelled (it would use a null
  cache); one that started before is.
* What the stray error loop *writes* into a vbuf (the first words of its memory) is not
  modelled; that it takes it off `vbuf_list` and reports it as answered is. The loop runs
  once per open stream; while a command is queued there is one, and the model does not
  count them.
* `ErrorEvent` visits streams in any order, the idr in the order of ids.
* Events other than the error event change no state in `EventQueue`.
* `ExportCache`: the walks of `virtio_video_queue_release_buffers` for one queue after another
  are one step; the pending list itself, which is the device's, is left to `StreamBuffers`;
  what a work item inside a stream does while release frees it is undefined, and the model
  ends there.
* `StreamBuffers`: buffers have one plane and are allocated once per queue; the walks of one
  `virtio_video_handle_error`, or of one stop, are one step; ids that the back end erased are
  unexported in `ExportCache` only; a close waits until the work item has left the stream,
  which the code does not (see the hazards). The stop of a meta queue whose data queue
  streams may never end, and keeps `vq_mutex`: the back end owes it nothing, so no property
  says more.
* `StreamSession`: `virtio_video_device_poll` and `msm_v4l2_poll` are left out, they change
  nothing of the driver's; the values of controls, sizes and rates are opaque; buffers are
  `StreamBuffers`. What the work item does with a freed stream is undefined and not modelled.
* `BaseSession`: buffers are MMAP buffers and a queue starts with any number of them; a buffer
  is queued again only when fewer than `MaxOwed` answers are owed for it; a failing
  STREAM_DESTROY is left to `StreamSession`. There is one device at a time, its type
  chosen at the start.
* `DriverLoad`: `virtio_video_device_init` is one step that may fail; its inner ladder is not
  modelled. What probe does after `blind` is undefined. `HwVirt`: pausing and resuming a
  session changes no state; the parts of an answer to OPEN_GVM_SESSION that name no handle
  count as success; there is one waiter.
* Not modelled: the arithmetic of formats (clamping, alignment, `virtio_video_caps.c`'s
  parsing), logging, tags, trace points. They have no state that the rest depends on.
* The retry on -ENOSPC belongs to the plain virtio build: HAB never returns it.

## Plan

The components that keep state are modelled, and every safety property of the runs is proved. What
is left:

1. `CommandService`, an abstract command service (a call is issued once and returns once, with
   an answer or an error) that `CmdQueue` implements and `StreamSession` uses, with the
   refinement proved as that of `BufferOwnership` is.
2. What `CmdQueue` still promises with shared keys: which of two calls of one key gets which
   answer, and how many vbufs a failed send can leave pending.
3. The arithmetic of formats as functions against reference definitions, if it proves to
   matter: `virtio_video_try_fmt` aligns after it clamps.
