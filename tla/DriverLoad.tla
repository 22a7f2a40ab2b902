----------------------------- MODULE DriverLoad -----------------------------
(***************************************************************************)
(* Loading and unloading the module of the build with VIRTIO_VIDEO_MSM and *)
(* MSM_VIDC_HW_VIRT: the registration of the driver and of its two         *)
(* devices, the HAB handles that the device's reset opens, the probe with  *)
(* its ladder of error labels, remove, and the ladder of the module's own. *)
(* Every step that can fail may fail.                                      *)
(***************************************************************************)
EXTENDS Integers, FiniteSets

VARIABLES
  mode,     \* "loading", "failing" (init unwinds) or "unloading" (exit runs)
  at,       \* the step under way, and the device it is for
  driver,   \* whether the driver is registered
  held,     \* per device: what it has acquired and not returned
  bound,    \* the devices whose probe has succeeded and whose remove has not begun
  failedAt  \* history, per device: the step that failed, of those that make its registration end

loadVars == <<mode, at, driver, held, bound, failedAt>>

Devices == {"vdec", "venc"}
\* "cmd" and "evt" are a HAB handle with its thread; "cmdq" and "evtq" a queue in vdev->vqs;
\* "cmdbufs" and "evtbufs" the queue's unused_vq_buf_list.
Resources == {"dev", "cmd", "evt", "vvd", "v4l2", "cmdq", "evtq", "cmdbufs", "evtbufs",
              "vbufs", "evts", "m2m"}
Steps == {"driver", "alloc", "reset_cmd", "reset_evt", "add", "vvd", "v4l2", "find_cmd",
          "find_evt", "vbufs", "evts", "init", "undo_vbufs", "undo_vqs", "undo_v4l2",
          "undo_vvd", "probed", "live", "unregister", "deinit", "undo_driver", "blind", "gone"}

d == at.dev
Goto(step) == at' = [at EXCEPT !.step = step]

\* A step that acquires resources, where it goes on, and where it goes when it fails.
Try(step, gets, next, label) ==
  /\ mode = "loading" /\ at.step = step
  /\ \/ /\ held' = [held EXCEPT ![d] = @ \cup gets]
        /\ Goto(next)
        /\ UNCHANGED failedAt
     \/ /\ Goto(label)
        /\ failedAt' = [failedAt EXCEPT ![d] = step]
        /\ UNCHANGED held
  /\ UNCHANGED <<mode, driver, bound>>

\* A step that returns resources; label is where the ladder goes on.
Undo(step, gives, label) ==
  /\ at.step = step
  /\ held' = [held EXCEPT ![d] = @ \ gives]
  /\ Goto(label)
  /\ UNCHANGED <<mode, driver, failedAt>>

-----------------------------------------------------------------------------
(* The module's init, and the registration of a device. *)

RegisterDriver ==
  /\ mode = "loading" /\ at.step = "driver"
  /\ \/ driver' = TRUE /\ Goto("alloc")
     \/ driver' = FALSE /\ Goto("gone")
  /\ UNCHANGED <<mode, held, bound, failedAt>>

\* What init undoes when the registration of device x fails: err_vdec, or err_venc and on.
InitFails(x) ==
  /\ mode' = "failing"
  /\ at' = IF x = "vdec" THEN [step |-> "undo_driver", dev |-> x]
                         ELSE [step |-> "unregister", dev |-> "vdec"]

AllocDev ==
  /\ mode = "loading" /\ at.step = "alloc"
  /\ \/ held' = [held EXCEPT ![d] = {"dev"}] /\ Goto("reset_cmd") /\ UNCHANGED mode
     \/ InitFails(d) /\ UNCHANGED held
  /\ UNCHANGED <<driver, bound, failedAt>>

\* msm_vdev_reset ignores that a handle or its thread could not be had; the second is not tried
\* when the first fails.
ResetCmd == Try("reset_cmd", {"cmd"}, "reset_evt", "add")
ResetEvt == Try("reset_evt", {"evt"}, "add", "add")

\* device_add in register_virtio_device: on success the bus probes the driver, and what probe
\* returns is not register_virtio_device's.
DeviceAdd ==
  /\ mode = "loading" /\ at.step = "add"
  /\ \/ Goto("vvd") /\ UNCHANGED <<mode, held, failedAt>>
     \/ /\ held' = [held EXCEPT ![d] = @ \ {"dev"}]
        /\ failedAt' = [failedAt EXCEPT ![d] = "add"]
        /\ InitFails(d)
  /\ UNCHANGED <<driver, bound>>

-----------------------------------------------------------------------------
(* virtio_video_probe *)

ProbeAlloc == Try("vvd", {"vvd"}, "v4l2", "probed")
ProbeV4l2 == Try("v4l2", {"v4l2"}, "find_cmd", "undo_vvd")

\* msm_hab_find_vqs for one queue: no handle, or no memory for the list of vq_bufs, takes the
\* listed queues down again and returns 0: probe goes on with pointers that nobody set.
FindVq(step, handle, queue, next) ==
  /\ mode = "loading" /\ at.step = step
  /\ \/ /\ handle \in held[d]
        /\ held' = [held EXCEPT ![d] = @ \cup queue]
        /\ Goto(next)
        /\ UNCHANGED failedAt
     \/ /\ Goto("blind")
        /\ failedAt' = [failedAt EXCEPT ![d] = step]
        /\ held' = [held EXCEPT ![d] = IF "cmdq" \in @ THEN @ \ {"cmdq", "cmd"} ELSE @]
  /\ UNCHANGED <<mode, driver, bound>>
FindVqs == \/ FindVq("find_cmd", "cmd", {"cmdq", "cmdbufs"}, "find_evt")
           \/ FindVq("find_evt", "evt", {"evtq", "evtbufs"}, "vbufs")

AllocVbufs == Try("vbufs", {"vbufs"}, "evts", "undo_vqs")
\* Faulty: probe's label after a failed virtio_video_alloc_events skips the vbufs.
AllocEventsSkips == Try("evts", {"evts"}, "init", "undo_vqs")
\* virtio_video_alloc_events: the array, and a queue entry for each of its elements.
AllocEvents ==
  \/ Try("evts", {"evts"}, "init", "undo_vbufs")
  \/ /\ mode = "loading" /\ at.step = "evts"
     /\ held' = [held EXCEPT ![d] = @ \cup {"evts"}]
     /\ failedAt' = [failedAt EXCEPT ![d] = "evts"]
     /\ Goto("undo_vbufs")
     /\ UNCHANGED <<mode, driver, bound>>
DeviceInit == Try("init", {"m2m"}, "probed", "undo_vbufs")

\* The labels of probe, which are remove's steps too.
UndoVbufs == Undo("undo_vbufs", {"vbufs", "evts", "cmdbufs", "evtbufs"}, "undo_vqs") /\ UNCHANGED bound
\* msm_hab_del_vqs closes the handles of the queues listed in vdev->vqs.
UndoVqs ==
  /\ Undo("undo_vqs", {"cmdq", "evtq"} \cup (IF "cmdq" \in held[d] THEN {"cmd"} ELSE {})
                                       \cup (IF "evtq" \in held[d] THEN {"evt"} ELSE {}), "undo_v4l2")
  /\ UNCHANGED bound
UndoV4l2 == Undo("undo_v4l2", {"v4l2"}, "undo_vvd") /\ UNCHANGED bound
UndoVvd == Undo("undo_vvd", {"vvd"}, "probed") /\ UNCHANGED bound

\* Probe, or remove, of device d is done.
Probed ==
  /\ at.step = "probed"
  /\ CASE mode = "loading" ->
            /\ bound' = IF "m2m" \in held[d] THEN bound \cup {d} ELSE bound
            /\ at' = IF d = "vdec" THEN [step |-> "alloc", dev |-> "venc"]
                                   ELSE [step |-> "live", dev |-> d]
       [] mode = "unloading" /\ d = "vdec" ->
            at' = [step |-> "unregister", dev |-> "venc"] /\ UNCHANGED bound
       [] OTHER -> Goto("undo_driver") /\ UNCHANGED bound
  /\ UNCHANGED <<mode, driver, held, failedAt>>

-----------------------------------------------------------------------------
(* Unregistering: exit, or init after the second device could not be had. *)

Exit ==
  /\ at.step = "live"
  /\ mode' = "unloading"
  /\ at' = [step |-> "unregister", dev |-> "vdec"]
  /\ UNCHANGED <<driver, held, bound, failedAt>>

\* unregister_virtio_device calls remove when a driver is bound.
Unregister ==
  /\ at.step = "unregister"
  /\ bound' = bound \ {d}
  /\ Goto(IF d \in bound THEN "deinit" ELSE "probed")
  /\ UNCHANGED <<mode, driver, held, failedAt>>

Deinit == Undo("deinit", {"m2m"}, "undo_vbufs") /\ UNCHANGED bound

\* The driver is unregistered and the devices are freed; init frees the decoder's first.
Gone ==
  /\ at.step = "undo_driver"
  /\ driver' = FALSE
  /\ held' = [x \in Devices |-> held[x] \ {"dev"}]
  /\ Goto("gone")
  /\ UNCHANGED <<mode, bound, failedAt>>

LoadInit ==
  /\ mode = "loading" /\ at = [step |-> "driver", dev |-> "vdec"] /\ driver = FALSE
  /\ held = [x \in Devices |-> {}] /\ bound = {}
  /\ failedAt = [x \in Devices |-> "none"]

Load == \/ RegisterDriver \/ AllocDev \/ ResetCmd \/ ResetEvt \/ DeviceAdd
        \/ ProbeAlloc \/ ProbeV4l2 \/ FindVqs \/ AllocVbufs \/ AllocEvents \/ DeviceInit
        \/ UndoVbufs \/ UndoVqs \/ UndoV4l2 \/ UndoVvd \/ Probed
        \/ Unregister \/ Deinit \/ Gone

-----------------------------------------------------------------------------
LoadTypeOK ==
  /\ mode \in {"loading", "failing", "unloading"}
  /\ at \in [step : Steps, dev : Devices]
  /\ driver \in BOOLEAN
  /\ held \in [Devices -> SUBSET Resources]
  /\ bound \subseteq Devices
  /\ failedAt \in [Devices -> Steps \cup {"none"}]

\* Nobody works on device x, and no driver is bound to it.
AtRest(x) ==
  /\ x \notin bound
  /\ at.step \in {"live", "gone"} \/ (at.dev # x /\ at.step # "blind")

\* Whatever failed, a device without a driver has returned what its probe acquired, but for what
\* nothing in the code returns: the HAB handles when probe did not come to list the queues, and
\* the queue entries when the cache of vbufs could not be created (probe, del_vqs and free_vbufs).
Unwound ==
  \A x \in Devices : AtRest(x) =>
    held[x] \subseteq {"dev"}
      \cup (IF failedAt[x] \in {"add", "vvd", "v4l2"} THEN {"cmd", "evt"} ELSE {})
      \cup (IF failedAt[x] = "vbufs" THEN {"cmdbufs", "evtbufs"} ELSE {})

\* The module never goes leaving its driver registered, a device bound or a device behind, and a
\* device whose probe succeeded has then returned all it held (init's ladder, exit and remove).
NothingLeft ==
  at.step = "gone" =>
    /\ ~driver /\ bound = {}
    /\ \A x \in Devices : "dev" \notin held[x] /\ (failedAt[x] = "none" => held[x] = {})

\* Loading that fails in any step, and unloading, return what was acquired (the ladders of probe
\* and init, remove and exit).
AllReturned == Unwound /\ NothingLeft
=============================================================================
