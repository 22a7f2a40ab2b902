------------------------------- MODULE HwVirt -------------------------------
(***************************************************************************)
(* What the loaded module of DriverLoad serves: the calls that the video   *)
(* driver of a guest with its own share of the hardware makes              *)
(* (virtio_video_msm_cmd_open_gvm and its sisters, one at a time), the     *)
(* back end's side of them, and the SSR events, which the work item queues *)
(* and one waiter of that driver takes (virtio_video_queue_event_wait).    *)
(* The caller does not open what it has opened, and calls only once the    *)
(* decoder's probe has succeeded: before that vdec->priv is no device.     *)
(***************************************************************************)
EXTENDS DriverLoad, SequencesExt

CONSTANTS
  DeviceIds, \* what a SSR event may be about
  MaxOpens,  \* bound: how many open_gvm and open_gvm_session calls
  MaxEvents  \* bound: how many SSR events

ASSUME BoundsAssumption == MaxOpens \in Nat /\ MaxEvents \in Nat

VARIABLES
  api,        \* the step of the call under way
  opened,     \* whether open_gvm has returned 0 and close_gvm has not finished since
  gvmId,      \* vvd->gvm_stream_id
  idr,        \* vvd->stream_idr
  handle,     \* vvd->session_handle
  created,    \* the back end's streams
  sessions,   \* the sessions that the back end has opened
  opens, calls, \* how many calls there were
  abandoned,  \* history: streams whose open_gvm failed after STREAM_CREATE
  orphans,    \* history: streams whose STREAM_DESTROY could not be sent
  lost,       \* history: sessions whose answer came too late
  pending,    \* vvd->pending_event_list
  waking,     \* the work item has added an event and not yet called wake_up
  waiter,     \* the step of virtio_video_queue_event_wait
  taken,      \* the event it works with, when it has one
  added, got  \* history: the events added to the list, and those the waiter returned

gvmVars == <<api, opened, gvmId, idr, handle, created, sessions, opens, calls, abandoned, orphans, lost>>
ssrVars == <<pending, waking, waiter, taken, added, got>>
vars == <<loadVars, gvmVars, ssrVars>>

Serving == at.step = "live" /\ "vdec" \in bound
Ids == 1..(MaxOpens + 1)
LowestFree == CHOOSE i \in Ids \ idr : \A j \in Ids \ idr : i <= j

-----------------------------------------------------------------------------
(* open_gvm: a stream, its STREAM_CREATE, then OPEN_GVM. *)

OpenStream ==
  /\ Serving /\ api = "idle" /\ ~opened /\ opens < MaxOpens
  /\ opens' = opens + 1
  /\ gvmId' = LowestFree
  /\ idr' = idr \cup {LowestFree}
  /\ api' = "create"
  /\ UNCHANGED <<opened, handle, created, sessions, calls, abandoned, orphans, lost>>

\* Faulty: open_gvm keeps the id of a stream that could not be created.
OpenCreateKeepsId ==
  /\ api = "create"
  /\ \/ api' = "open" /\ created' = created \cup {gvmId}
     \/ api' = "idle" /\ UNCHANGED created
  /\ UNCHANGED <<idr, opened, gvmId, handle, sessions, opens, calls, abandoned, orphans, lost>>
\* STREAM_CREATE is not waited for: it fails when it cannot be queued.
OpenCreate ==
  /\ api = "create"
  /\ \/ api' = "open" /\ created' = created \cup {gvmId} /\ UNCHANGED idr
     \/ api' = "idle" /\ idr' = idr \ {gvmId} /\ UNCHANGED created
  /\ UNCHANGED <<opened, gvmId, handle, sessions, opens, calls, abandoned, orphans, lost>>

\* OPEN_GVM: without memory, or without an answer in time, the stream stays.
OpenGvm ==
  /\ api = "open"
  /\ api' = "idle"
  /\ \/ opened' = TRUE /\ UNCHANGED abandoned
     \/ abandoned' = abandoned \cup {gvmId} /\ UNCHANGED opened
  /\ UNCHANGED <<gvmId, idr, handle, created, sessions, opens, calls, orphans, lost>>

\* close_gvm goes on when CLOSE_GVM was not answered, and ends when there is no memory for it.
CloseGvm ==
  /\ Serving /\ api = "idle" /\ (opened \/ gvmId \in abandoned)
  /\ api' = "destroy"
  /\ UNCHANGED <<opened, gvmId, idr, handle, created, sessions, opens, calls, abandoned, orphans, lost>>

CloseDestroy ==
  /\ api = "destroy"
  /\ api' = "put"
  /\ \/ created' = created \ {gvmId} /\ UNCHANGED orphans
     \/ orphans' = orphans \cup {gvmId} /\ UNCHANGED created
  /\ UNCHANGED <<opened, gvmId, idr, handle, sessions, opens, calls, abandoned, lost>>

ClosePut ==
  /\ api = "put"
  /\ api' = "idle" /\ opened' = FALSE
  /\ idr' = idr \ {gvmId}
  /\ gvmId' = 0
  /\ UNCHANGED <<handle, created, sessions, opens, calls, abandoned, orphans, lost>>

\* open_gvm_session: the back end may open none, and a call that times out never learns of one.
OpenSession ==
  /\ Serving /\ api = "idle" /\ opened /\ calls < MaxOpens
  /\ handle = 0
  /\ calls' = calls + 1
  /\ \/ UNCHANGED <<handle, sessions, lost>>
     \/ sessions' = sessions \cup {calls'} /\ handle' = calls' /\ UNCHANGED lost
     \/ sessions' = sessions \cup {calls'} /\ lost' = lost \cup {calls'} /\ UNCHANGED handle
  /\ UNCHANGED <<api, opened, gvmId, idr, created, opens, abandoned, orphans>>

Gvm == \/ OpenStream \/ OpenCreate \/ OpenGvm \/ CloseGvm \/ CloseDestroy \/ ClosePut \/ OpenSession

-----------------------------------------------------------------------------
(* SSR events. *)

\* Faulty: the work item adds an event without a wake_up.
WorkAddSilent ==
  /\ Serving /\ idr # {} /\ ~waking /\ Len(added) < MaxEvents
  /\ \E dev \in DeviceIds :
       LET e == [dev |-> dev, n |-> Len(added) + 1]
       IN pending' = Append(pending, e) /\ added' = Append(added, e)
  /\ UNCHANGED <<waking, waiter, taken, got>>
\* virtio_video_handle_event: the event finds a stream and memory; otherwise it is dropped.
WorkAdd ==
  /\ Serving /\ idr # {} /\ ~waking /\ Len(added) < MaxEvents
  /\ \E dev \in DeviceIds :
       LET e == [dev |-> dev, n |-> Len(added) + 1]
       IN pending' = Append(pending, e) /\ added' = Append(added, e)
  /\ waking' = TRUE
  /\ UNCHANGED <<waiter, taken, got>>

WorkWake ==
  /\ waking
  /\ waking' = FALSE
  /\ waiter' = IF waiter = "asleep" THEN "check" ELSE waiter
  /\ UNCHANGED <<pending, taken, added, got>>

WaitCall ==
  /\ Serving /\ waiter = "idle"
  /\ waiter' = "check"
  /\ UNCHANGED <<pending, waking, taken, added, got>>

\* list_empty and wait_event, without the list's lock.
WaitCheck ==
  /\ waiter = "check"
  /\ waiter' = IF pending = <<>> THEN "asleep" ELSE "pop"
  /\ UNCHANGED <<pending, waking, taken, added, got>>

\* virtio_video_pending_event_list_pop only looks: the event stays first in the list.
WaitPop ==
  /\ waiter = "pop"
  /\ IF pending = <<>>
       THEN waiter' = "idle" /\ UNCHANGED taken
       ELSE waiter' = "del" /\ taken' = Head(pending)
  /\ UNCHANGED <<pending, waking, added, got>>

\* Faulty: the last event about the same device is unlinked.
FirstAlikeLast(e) == SelectLastInSeq(pending, LAMBDA f : f.dev = e.dev)
\* virtio_video_pending_event_list_del unlinks the first event about the same device.
FirstAlike(e) == SelectInSeq(pending, LAMBDA f : f.dev = e.dev)
WaitDel ==
  /\ waiter = "del"
  /\ waiter' = "idle"
  /\ pending' = RemoveAt(pending, FirstAlike(taken))
  /\ got' = Append(got, taken)
  /\ UNCHANGED <<waking, taken, added>>

Work == WorkAdd \/ WorkWake
Waiter == WaitCheck \/ WaitPop \/ WaitDel
Ssr == Work \/ WaitCall \/ Waiter

-----------------------------------------------------------------------------
Init ==
  /\ LoadInit
  /\ api = "idle" /\ opened = FALSE /\ gvmId = 0 /\ idr = {} /\ handle = 0
  /\ created = {} /\ sessions = {} /\ opens = 0 /\ calls = 0
  /\ abandoned = {} /\ orphans = {} /\ lost = {}
  /\ pending = <<>> /\ waking = FALSE /\ waiter = "idle"
  /\ taken = [dev |-> 0, n |-> 0] /\ added = <<>> /\ got = <<>>

\* A driver that is inside a call, or waits, holds this module; that remove does not stop the
\* work item is not modelled here.
Unload == Exit /\ api = "idle" /\ waiter = "idle" /\ ~waking

Next ==
  \/ (Load \/ Unload) /\ UNCHANGED <<gvmVars, ssrVars>>
  \/ Gvm /\ UNCHANGED <<loadVars, ssrVars>>
  \/ Ssr /\ UNCHANGED <<loadVars, gvmVars>>

\* The waiter's thread is scheduled, and the work item that added an event goes on.
Fairness ==
  /\ WF_vars(Waiter /\ UNCHANGED <<loadVars, gvmVars>>)
  /\ WF_vars(WorkWake /\ UNCHANGED <<loadVars, gvmVars>>)
Spec == Init /\ [][Next]_vars /\ Fairness

-----------------------------------------------------------------------------
TypeOK ==
  /\ LoadTypeOK
  /\ api \in {"idle", "create", "open", "destroy", "put"}
  /\ opened \in BOOLEAN
  /\ gvmId \in Ids \cup {0} /\ idr \subseteq Ids /\ created \subseteq Ids
  /\ abandoned \subseteq Ids /\ orphans \subseteq Ids
  /\ opens \in 0..MaxOpens /\ calls \in 0..MaxOpens
  /\ handle \in {0} \cup sessions /\ lost \subseteq sessions /\ sessions \subseteq 1..MaxOpens
  /\ waking \in BOOLEAN /\ waiter \in {"idle", "check", "asleep", "pop", "del"}
  /\ Len(added) <= MaxEvents

\* Through failed and repeated opens and closes, a stream stays in the idr only as the current
\* one or because its open failed, an open GVM has its stream, and the back end keeps a stream
\* whose id may be given again only when it could not be told to destroy it (open_gvm, close_gvm).
StreamsAccounted ==
  /\ idr \subseteq {gvmId} \cup abandoned
  /\ opened => gvmId \in idr
  /\ created \subseteq idr \cup orphans

\* However often the GVM is closed and opened again, the back end has no session that the driver
\* could not pause or resume, but one whose answer came too late (open_gvm_session).
SessionsNamed == sessions \subseteq {handle} \cup lost

\* The waiter returns the events in the order in which they were added, each once, although it
\* unlinks an event by its device's id and events of the same device may wait
\* (virtio_video_queue_event_wait, virtio_video_pending_event_list_del).
SsrInOrder == got \o pending = added

\* A waiter does not sleep on while an event waits, although it looks at the list without its
\* lock (virtio_video_queue_event_wait, virtio_video_handle_event).
WaitEnds == (pending # <<>> /\ waiter \in {"check", "asleep"}) ~> (waiter = "idle")

\* Streams and sessions of the back end stay within the driver's reach, with the exceptions that
\* the two parts name, and every variable has its type (open_gvm, close_gvm, open_gvm_session).
Accounted == TypeOK /\ StreamsAccounted /\ SessionsNamed
=============================================================================
