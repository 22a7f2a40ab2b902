-------------------------- MODULE EventQueueProofs --------------------------
EXTENDS EventQueue, SequenceTheorems, TLAPS

\* What virtio_video_probe leaves behind has its types.
LEMMA TypeInit == Init => TypeOK
<1> SUFFICES ASSUME Init PROVE TypeOK
  OBVIOUS
<1>1. FlagsOK
  BY Zenon DEF Init, FlagsOK
<1>2. vbuf_list \in Seq(Bufs)
  BY EventQueueAssumption DEF Init, Bufs
<1>3. ContentOK
  BY DEF Init, ContentOK
<1> QED
  BY <1>1, <1>2, <1>3, EventQueueAssumption DEF Init, TypeOK, VarsOK, Bufs

\* What Tail does to a list of buffers.
LEMMA TailElements ==
  ASSUME NEW S, NEW s \in Seq(S), s # <<>>
  PROVE  /\ Head(s) = s[1] /\ Head(s) \in S
         /\ Tail(s) \in Seq(S) /\ Len(Tail(s)) = Len(s) - 1 /\ Len(s) >= 1
         /\ \A i \in 1..Len(Tail(s)) : i + 1 \in 1..Len(s) /\ Tail(s)[i] = s[i + 1]
  OBVIOUS

\* What Append does to a list of buffers.
LEMMA AppendElements ==
  ASSUME NEW S, NEW s \in Seq(S), NEW x \in S
  PROVE  /\ Append(s, x) \in Seq(S) /\ Len(Append(s, x)) = Len(s) + 1
         /\ \A i \in 1..Len(Append(s, x)) :
              \/ i \in 1..Len(s) /\ Append(s, x)[i] = s[i]
              \/ i = Len(s) + 1 /\ Append(s, x)[i] = x
  OBVIOUS
-----------------------------------------------------------------------------
(* Who has a buffer.                                                       *)

\* unattach_buf_from_vq_buf on vbuf_list by the event thread, whose new buffer it is.
LEMMA OwnTakeVbuf ==
  ASSUME TypeOK, EventBufsOwnedOnce, UnattachVbuf, msg' = Head(vbuf_list),
         UNCHANGED <<resp_list, evt>>
  PROVE  EventBufsOwnedOnce'
<1>1. /\ Head(vbuf_list) = vbuf_list[1] /\ Len(vbuf_list) >= 1
      /\ \A i \in 1..Len(vbuf_list') : i + 1 \in 1..Len(vbuf_list) /\ vbuf_list'[i] = vbuf_list[i + 1]
      /\ Len(vbuf_list') = Len(vbuf_list) - 1
  BY TailElements DEF TypeOK, VarsOK, UnattachVbuf
<1>2. 1 \in 1..Len(vbuf_list)
  BY <1>1 DEF TypeOK, VarsOK
<1>3. \A i, j \in 1..Len(vbuf_list') : vbuf_list'[i] = vbuf_list'[j] => i = j
  BY <1>1 DEF EventBufsOwnedOnce
<1>4. \A i \in 1..Len(vbuf_list') : vbuf_list'[i] \notin {msg', evt'}
  BY <1>1, <1>2 DEF EventBufsOwnedOnce
<1>5. \A i \in 1..Len(resp_list') : resp_list'[i] \notin {msg', evt'}
  BY <1>1, <1>2 DEF EventBufsOwnedOnce
<1>6. msg' # evt'
  BY <1>1, <1>2 DEF EventBufsOwnedOnce
<1> QED
  BY <1>1, <1>3, <1>4, <1>5, <1>6 DEF EventBufsOwnedOnce

\* virtqueue_get_buf by the work item, whose new buffer it is.
LEMMA OwnTakeResp ==
  ASSUME TypeOK, EventBufsOwnedOnce, WorkGet
  PROVE  EventBufsOwnedOnce'
<1>1. /\ Head(resp_list) = resp_list[1] /\ Head(resp_list) \in Bufs /\ Len(resp_list) >= 1
      /\ \A i \in 1..Len(resp_list') : i + 1 \in 1..Len(resp_list) /\ resp_list'[i] = resp_list[i + 1]
      /\ Len(resp_list') = Len(resp_list) - 1
  BY TailElements DEF TypeOK, VarsOK, WorkGet
<1>2. 1 \in 1..Len(resp_list) /\ evt' = resp_list[1] /\ UNCHANGED <<vbuf_list, msg>>
  BY <1>1 DEF TypeOK, VarsOK, WorkGet, etVars
<1>3. \A i, j \in 1..Len(resp_list') : resp_list'[i] = resp_list'[j] => i = j
  BY <1>1 DEF EventBufsOwnedOnce
<1>4. \A i \in 1..Len(vbuf_list') : vbuf_list'[i] \notin {msg', evt'}
  BY <1>1, <1>2 DEF EventBufsOwnedOnce
<1>5. \A i \in 1..Len(resp_list') : resp_list'[i] \notin {msg', evt'}
  BY <1>1, <1>2 DEF EventBufsOwnedOnce
<1>6. msg' # evt'
  BY <1>1, <1>2 DEF EventBufsOwnedOnce
<1> QED
  BY <1>1, <1>2, <1>3, <1>4, <1>5, <1>6 DEF EventBufsOwnedOnce

\* attach_buf_to_vq_buf on vbuf_list of the buffer b in hand, given up with it.
LEMMA OwnGiveVbuf ==
  ASSUME TypeOK, EventBufsOwnedOnce, NEW b \in Bufs, AttachVbuf(b), UNCHANGED resp_list,
         \/ b = msg /\ msg' = None /\ UNCHANGED evt
         \/ b = evt /\ evt' = None /\ UNCHANGED msg
  PROVE  EventBufsOwnedOnce'
<1>0. None \notin Bufs
  BY EventQueueAssumption DEF Bufs
<1>a. /\ \A i \in 1..Len(vbuf_list) : vbuf_list[i] \in Bufs
      /\ \A i \in 1..Len(resp_list) : resp_list[i] \in Bufs
  BY DEF TypeOK, VarsOK
<1>b. msg' # None => msg' # evt'
  BY <1>0 DEF EventBufsOwnedOnce
<1>c. \A i \in 1..Len(resp_list') : resp_list'[i] \notin {msg', evt'}
  BY <1>0, <1>a DEF EventBufsOwnedOnce
<1>1. CASE UNCHANGED vbuf_list
  <2>1. \A i \in 1..Len(vbuf_list') : vbuf_list'[i] \notin {msg', evt'}
    BY <1>0, <1>a, <1>1 DEF EventBufsOwnedOnce
  <2> QED
    BY <1>1, <1>b, <1>c, <2>1 DEF EventBufsOwnedOnce
<1>2. CASE vbuf_list' = Append(vbuf_list, b)
  <2>1. /\ \A i \in 1..Len(vbuf_list') :
             \/ i \in 1..Len(vbuf_list) /\ vbuf_list'[i] = vbuf_list[i]
             \/ i = Len(vbuf_list) + 1 /\ vbuf_list'[i] = b
    BY <1>2, AppendElements DEF TypeOK, VarsOK
  <2>2. \A i \in 1..Len(vbuf_list) : vbuf_list[i] # b
    BY DEF EventBufsOwnedOnce
  <2>3. \A i, j \in 1..Len(vbuf_list') : vbuf_list'[i] = vbuf_list'[j] => i = j
    BY <2>1, <2>2 DEF EventBufsOwnedOnce
  <2>4. b \notin {msg', evt'}
    BY <1>0 DEF EventBufsOwnedOnce
  <2>5. \A i \in 1..Len(vbuf_list') : vbuf_list'[i] \notin {msg', evt'}
    BY <1>0, <1>a, <2>1, <2>4 DEF EventBufsOwnedOnce
  <2>6. \A i \in 1..Len(vbuf_list'), j \in 1..Len(resp_list') : vbuf_list'[i] # resp_list'[j]
    BY <2>1 DEF EventBufsOwnedOnce
  <2> QED
    BY <1>b, <1>c, <2>3, <2>5, <2>6 DEF EventBufsOwnedOnce
<1> QED
  BY <1>1, <1>2 DEF AttachVbuf

\* attach_buf_to_vq_buf on resp_list of the event thread's buffer.
LEMMA OwnGiveResp ==
  ASSUME TypeOK, EventBufsOwnedOnce, msg \in Bufs, msg' = None, UNCHANGED <<vbuf_list, evt>>,
         \/ resp_list' = Append(resp_list, msg)
         \/ UNCHANGED resp_list
  PROVE  EventBufsOwnedOnce'
<1>0. None \notin Bufs
  BY EventQueueAssumption DEF Bufs
<1>a. /\ \A i \in 1..Len(vbuf_list) : vbuf_list[i] \in Bufs
      /\ \A i \in 1..Len(resp_list) : resp_list[i] \in Bufs
  BY DEF TypeOK, VarsOK
<1>b. \A i \in 1..Len(vbuf_list') : vbuf_list'[i] \notin {msg', evt'}
  BY <1>0, <1>a DEF EventBufsOwnedOnce
<1>1. CASE UNCHANGED resp_list
  <2>1. \A i \in 1..Len(resp_list') : resp_list'[i] \notin {msg', evt'}
    BY <1>0, <1>a, <1>1 DEF EventBufsOwnedOnce
  <2> QED
    BY <1>1, <1>b, <2>1 DEF EventBufsOwnedOnce
<1>2. CASE resp_list' = Append(resp_list, msg)
  <2>1. /\ \A i \in 1..Len(resp_list') :
             \/ i \in 1..Len(resp_list) /\ resp_list'[i] = resp_list[i]
             \/ i = Len(resp_list) + 1 /\ resp_list'[i] = msg
    BY <1>2, AppendElements DEF TypeOK, VarsOK
  <2>2. \A i \in 1..Len(resp_list) : resp_list[i] # msg
    BY DEF EventBufsOwnedOnce
  <2>3. \A i, j \in 1..Len(resp_list') : resp_list'[i] = resp_list'[j] => i = j
    BY <2>1, <2>2 DEF EventBufsOwnedOnce
  <2>4. msg \notin {msg', evt'}
    BY <1>0 DEF EventBufsOwnedOnce
  <2>5. \A i \in 1..Len(resp_list') : resp_list'[i] \notin {msg', evt'}
    BY <1>0, <1>a, <2>1, <2>4 DEF EventBufsOwnedOnce
  <2>6. \A i \in 1..Len(vbuf_list'), j \in 1..Len(resp_list') : vbuf_list'[i] # resp_list'[j]
    BY <2>1 DEF EventBufsOwnedOnce
  <2> QED
    BY <1>b, <2>3, <2>5, <2>6 DEF EventBufsOwnedOnce
<1> QED
  BY <1>1, <1>2

\* One iteration of the event part of virtio_video_free_vbufs.
LEMMA OwnFree ==
  ASSUME TypeOK, EventBufsOwnedOnce, FreeEvents
  PROVE  EventBufsOwnedOnce'
<1>1. UNCHANGED <<msg, evt>>
  BY DEF FreeEvents, etVars, wkVars
<1>2. CASE vbuf_list # <<>> /\ vbuf_list' = Tail(vbuf_list) /\ UNCHANGED resp_list
  <2>1. /\ \A i \in 1..Len(vbuf_list') : i + 1 \in 1..Len(vbuf_list) /\ vbuf_list'[i] = vbuf_list[i + 1]
        /\ Len(vbuf_list') = Len(vbuf_list) - 1 /\ Len(vbuf_list) >= 1
    BY <1>2, TailElements DEF TypeOK, VarsOK
  <2>2. \A i, j \in 1..Len(vbuf_list') : vbuf_list'[i] = vbuf_list'[j] => i = j
    BY <2>1 DEF EventBufsOwnedOnce
  <2> QED
    BY <1>1, <1>2, <2>1, <2>2 DEF EventBufsOwnedOnce
<1>3. CASE resp_list # <<>> /\ resp_list' = Tail(resp_list) /\ UNCHANGED vbuf_list
  <2>1. /\ \A i \in 1..Len(resp_list') : i + 1 \in 1..Len(resp_list) /\ resp_list'[i] = resp_list[i + 1]
        /\ Len(resp_list') = Len(resp_list) - 1 /\ Len(resp_list) >= 1
    BY <1>3, TailElements DEF TypeOK, VarsOK
  <2>2. \A i, j \in 1..Len(resp_list') : resp_list'[i] = resp_list'[j] => i = j
    BY <2>1 DEF EventBufsOwnedOnce
  <2> QED
    BY <1>1, <1>3, <2>1, <2>2 DEF EventBufsOwnedOnce
<1> QED
  BY <1>2, <1>3 DEF FreeEvents

\* The actions that touch neither list and keep the buffers in hand.
Bystander ==
  \/ WorkStart \/ WorkEmpty \/ WorkEnd \/ WorkHandle
  \/ GetNone \/ Exit \/ Recv \/ RecvError \/ AttachFail \/ Schedule \/ Break \/ SelfStop
  \/ \E s \in Streams : NoErrorEvent(s) \/ OpenStream(s) \/ CloseStream(s)
  \/ SetReady \/ Deinit \/ DelVqs \/ Stopped

\* The steps of event thread, work item and driver, sorted by what they do to the lists.
LEMMA Steps ==
  ASSUME [Next]_vars
  PROVE  \/ UNCHANGED vars \/ Bystander \/ FreeEvents \/ FreeEventsEnd
         \/ WorkGet \/ WorkRequeue \/ GetBuf \/ RecvInterrupted \/ AttachEvent \/ Reattach \/ PostError
         \/ \E s \in Streams : ErrorEvent(s)
  BY Zenon DEF Next, Worker, EventThread, Driver, Bystander

\* Those leave both lists and both buffers in hand alone.
LEMMA BystanderKeeps == Bystander => UNCHANGED <<vbuf_list, resp_list, unused, msg, evt>>
<1> USE DEF listVars, etVars, wkVars, EtGoTo
<1>1. WorkStart \/ WorkEmpty \/ WorkEnd \/ WorkHandle => UNCHANGED <<vbuf_list, resp_list, unused, msg, evt>>
  BY Zenon DEF WorkStart, WorkEmpty, WorkEnd, WorkHandle
<1>2. GetNone \/ Exit \/ Recv \/ RecvError \/ AttachFail \/ Schedule \/ Break \/ SelfStop
        => UNCHANGED <<vbuf_list, resp_list, unused, msg, evt>>
  BY Zenon DEF GetNone, Exit, Recv, RecvError, AttachFail, Schedule, Break, SelfStop
<1>3. ASSUME NEW s \in Streams, NoErrorEvent(s) \/ OpenStream(s) \/ CloseStream(s)
      PROVE  UNCHANGED <<vbuf_list, resp_list, unused, msg, evt>>
  BY <1>3, Zenon DEF NoErrorEvent, OpenStream, CloseStream
<1>4. SetReady \/ Deinit \/ DelVqs \/ Stopped => UNCHANGED <<vbuf_list, resp_list, unused, msg, evt>>
  BY Zenon DEF SetReady, Deinit, DelVqs, Stopped
<1> QED
  BY <1>1, <1>2, <1>3, <1>4, Zenon DEF Bystander

\* virtio_video_queue_event_buffer is attach_buf_to_vq_buf, or it loses the buffer.
LEMMA RequeueAttaches ==
  ASSUME WorkRequeue
  PROVE  \/ AttachVbuf(evt)
         \/ UNCHANGED <<unused, vbuf_list>>
  BY Zenon DEF WorkRequeue, AttachVbuf

\* Every step keeps each buffer in one place.
LEMMA OwnStep == TypeOK /\ EventBufsOwnedOnce /\ [Next]_vars => EventBufsOwnedOnce'
<1> SUFFICES ASSUME TypeOK, EventBufsOwnedOnce, [Next]_vars PROVE EventBufsOwnedOnce'
  OBVIOUS
<1>0. None \notin Bufs
  BY EventQueueAssumption DEF Bufs
<1>1. CASE UNCHANGED <<vbuf_list, resp_list, msg, evt>>
  BY <1>1 DEF EventBufsOwnedOnce
<1>2. CASE UNCHANGED vars
  BY <1>1, <1>2 DEF vars, listVars, etVars, wkVars
<1>3. CASE Bystander
  BY <1>1, <1>3, BystanderKeeps
<1>4. CASE FreeEvents
  BY <1>4, OwnFree
<1>5. CASE FreeEventsEnd
  BY <1>1, <1>5 DEF FreeEventsEnd, etVars, wkVars
<1>6. CASE WorkGet
  BY <1>6, OwnTakeResp
<1>7. CASE WorkRequeue
  <2>1. evt \in Bufs /\ evt' = None /\ UNCHANGED <<resp_list, msg>>
    BY <1>7 DEF WorkRequeue, TypeOK, VarsOK, ContentOK, etVars
  <2>2. CASE AttachVbuf(evt)
    BY <2>1, <2>2, OwnGiveVbuf
  <2>3. CASE UNCHANGED vbuf_list
    <3>1. /\ \A i \in 1..Len(vbuf_list) : vbuf_list[i] \in Bufs
          /\ \A i \in 1..Len(resp_list) : resp_list[i] \in Bufs
      BY DEF TypeOK, VarsOK
    <3>2. UNCHANGED <<vbuf_list, resp_list, msg>> /\ evt' = None
      BY <2>1, <2>3
    <3> QED
      BY <1>0, <3>1, <3>2 DEF EventBufsOwnedOnce
  <2> QED
    BY <1>7, <2>2, <2>3, RequeueAttaches
<1>8. CASE GetBuf
  BY <1>8, OwnTakeVbuf DEF GetBuf, wkVars
<1>9. ASSUME NEW s \in Streams, ErrorEvent(s) PROVE EventBufsOwnedOnce'
  BY <1>9, OwnTakeVbuf DEF ErrorEvent, wkVars
<1>10. CASE RecvInterrupted
  <2>1. msg \in Bufs /\ msg' = None /\ AttachVbuf(msg) /\ UNCHANGED <<resp_list, evt>>
    BY <1>10 DEF RecvInterrupted, TypeOK, VarsOK, ContentOK, wkVars
  <2> QED
    BY <2>1, OwnGiveVbuf
<1>11. CASE Reattach
  <2>1. msg' = None /\ UNCHANGED <<resp_list, evt>>
    BY <1>11 DEF Reattach, wkVars
  <2>2. CASE msg # None /\ AttachVbuf(msg)
    BY <2>1, <2>2, OwnGiveVbuf DEF TypeOK, VarsOK
  <2>3. CASE msg = None /\ UNCHANGED <<unused, vbuf_list>>
    BY <1>1, <2>1, <2>3
  <2> QED
    BY <1>11, <2>2, <2>3, Zenon DEF Reattach
<1>12. CASE AttachEvent
  <2>1. /\ msg \in Bufs /\ msg' = None /\ UNCHANGED <<vbuf_list, evt>>
        /\ resp_list' = Append(resp_list, msg)
    BY <1>12 DEF AttachEvent, TypeOK, VarsOK, ContentOK, wkVars
  <2> QED
    BY <2>1, OwnGiveResp
<1>13. CASE PostError
  <2>1. /\ msg \in Bufs /\ msg' = None /\ UNCHANGED <<vbuf_list, evt>>
        /\ resp_list' = Append(resp_list, msg) \/ UNCHANGED resp_list
    BY <1>13 DEF PostError, TypeOK, VarsOK, ContentOK, wkVars
  <2> QED
    BY <2>1, OwnGiveResp
<1> QED
  BY <1>2, <1>3, <1>4, <1>5, <1>6, <1>7, <1>8, <1>9, <1>10, <1>11, <1>12, <1>13, Steps
-----------------------------------------------------------------------------
(* The types, which need a buffer to be in one place: what WorkRequeue and  *)
(* GetBuf clear is not what waits in resp_list.                             *)

\* The Boolean variables.
LEMMA FlagsStep == FlagsOK /\ [Next]_vars => FlagsOK'
<1> SUFFICES ASSUME FlagsOK, [Next]_vars PROVE FlagsOK'
  OBVIOUS
<1> USE DEF FlagsOK, listVars, etVars, wkVars, histVars
<1>1. CASE Worker
  BY <1>1, Zenon DEF Worker, WorkStart, WorkGet, WorkEmpty, WorkEnd, WorkHandle, WorkRequeue
<1>2. CASE EventThread
  <2>1. CASE GetBuf \/ GetNone \/ Exit \/ Recv \/ RecvInterrupted \/ RecvError
    BY <2>1, Zenon DEF GetBuf, GetNone, Exit, Recv, RecvInterrupted, RecvError
  <2>2. CASE AttachEvent \/ AttachFail \/ Schedule \/ Break \/ Reattach
    BY <2>2, Zenon DEF AttachEvent, AttachFail, Schedule, Break, Reattach
  <2>3. CASE PostError \/ SelfStop
    BY <2>3, Zenon DEF PostError, SelfStop
  <2>4. ASSUME NEW s \in Streams, ErrorEvent(s) \/ NoErrorEvent(s) PROVE FlagsOK'
    BY <2>4, Zenon DEF ErrorEvent, NoErrorEvent
  <2> QED
    BY <1>2, <2>1, <2>2, <2>3, <2>4, Zenon DEF EventThread
<1>3. CASE Driver
  <2>1. CASE SetReady \/ Deinit \/ FreeEvents \/ FreeEventsEnd \/ DelVqs \/ Stopped
    BY <2>1, Zenon DEF SetReady, Deinit, FreeEvents, FreeEventsEnd, DelVqs, Stopped
  <2>2. ASSUME NEW s \in Streams, OpenStream(s) \/ CloseStream(s) PROVE FlagsOK'
    BY <2>2, Zenon DEF OpenStream, CloseStream
  <2> QED
    BY <1>3, <2>1, <2>2, Zenon DEF Driver
<1>4. CASE UNCHANGED vars
  BY <1>4, Zenon DEF vars
<1> QED
  BY <1>1, <1>2, <1>3, <1>4, Zenon DEF Next

\* An event of a stream is an event.
LEMMA EventType == \A s \in Streams, n \in Nat : Event(s, n) \in Events
  BY DEF Event, Events

\* attach_buf_to_vq_buf keeps the pool and the list.
LEMMA AttachVbufTypes ==
  ASSUME TypeOK, NEW b \in Bufs, AttachVbuf(b)
  PROVE  unused' \in Nat /\ vbuf_list' \in Seq(Bufs)
<1>1. CASE unused > 0 /\ unused' = unused - 1 /\ vbuf_list' = Append(vbuf_list, b)
  BY <1>1, AppendElements DEF TypeOK, VarsOK
<1>2. CASE unused = 0 /\ UNCHANGED <<unused, vbuf_list>>
  BY <1>2 DEF TypeOK, VarsOK
<1> QED
  BY <1>1, <1>2, Zenon DEF AttachVbuf

\* The rest of the variables.
LEMMA VarsStep == TypeOK /\ [Next]_vars => VarsOK'
<1> SUFFICES ASSUME TypeOK, [Next]_vars PROVE VarsOK'
  OBVIOUS
<1> USE DEF TypeOK, VarsOK, listVars, etVars, wkVars, histVars, EtGoTo
<1>1. CASE Worker
  <2>1. CASE WorkStart \/ WorkEmpty \/ WorkEnd
    BY <1>1, <2>1 DEF WorkStart, WorkEmpty, WorkEnd
  <2>2. CASE WorkGet
    BY <2>2, TailElements DEF WorkGet
  <2>3. CASE WorkHandle
    BY <2>3 DEF WorkHandle, ContentOK
  <2>4. CASE WorkRequeue
    <3>1. evt \in Bufs
      BY <2>4 DEF WorkRequeue, ContentOK
    <3>2. unused' \in Nat /\ vbuf_list' \in Seq(Bufs)
      BY <2>4, <3>1, AttachVbufTypes, RequeueAttaches
    <3> QED
      BY <2>4, <3>1, <3>2 DEF WorkRequeue
  <2> QED
    BY <1>1, <2>1, <2>2, <2>3, <2>4 DEF Worker
<1>2. CASE EventThread
  <2>1. CASE GetBuf
    BY <2>1, TailElements DEF GetBuf, UnattachVbuf
  <2>2. CASE GetNone \/ Exit \/ RecvError \/ AttachFail \/ Schedule \/ Break \/ SelfStop
    BY <2>2 DEF GetNone, Exit, RecvError, AttachFail, Schedule, Break, SelfStop
  <2>3. CASE Recv
    BY <2>3, EventType DEF Recv, ContentOK
  <2>4. CASE RecvInterrupted
    <3>1. unused' \in Nat /\ vbuf_list' \in Seq(Bufs)
      BY <2>4, AttachVbufTypes DEF RecvInterrupted, ContentOK
    <3> QED
      BY <2>4, <3>1 DEF RecvInterrupted
  <2>5. CASE AttachEvent
    BY <2>5 DEF AttachEvent, Post, ContentOK
  <2>6. CASE Reattach
    <3>1. unused' \in Nat /\ vbuf_list' \in Seq(Bufs)
      <4>1. CASE msg # None /\ AttachVbuf(msg)
        BY <4>1, AttachVbufTypes
      <4>2. CASE UNCHANGED <<unused, vbuf_list>>
        BY <4>2
      <4> QED
        BY <2>6, <4>1, <4>2, Zenon DEF Reattach
    <3> QED
      BY <2>6, <3>1 DEF Reattach
  <2>7. CASE PostError
    <3>1. msg \in Bufs /\ content[msg] \in Events
      BY <2>7 DEF PostError, ContentOK
    <3>2. CASE unused > 0 /\ resp_list' = Append(resp_list, msg) /\ unused' = unused - 1 /\ Post(content[msg])
      <4>1. resp_list' \in Seq(Bufs)
        BY <3>1, <3>2, AppendElements
      <4>2. posted' \in Seq(Events) /\ postedReady' \in Nat
        BY <3>1, <3>2, AppendElements DEF Post
      <4> QED
        BY <2>7, <3>2, <4>1, <4>2 DEF PostError
    <3>3. CASE UNCHANGED <<resp_list, unused, posted, postedReady>>
      BY <2>7, <3>3 DEF PostError
    <3> QED
      BY <2>7, <3>2, <3>3, Zenon DEF PostError
  <2>8. ASSUME NEW s \in Streams, ErrorEvent(s) PROVE VarsOK'
    BY <2>8, EventType, TailElements DEF ErrorEvent, UnattachVbuf, Open
  <2>9. ASSUME NEW s \in Streams, NoErrorEvent(s) PROVE VarsOK'
    BY <2>9 DEF NoErrorEvent, Open
  <2> QED
    BY <1>2, <2>1, <2>2, <2>3, <2>4, <2>5, <2>6, <2>7, <2>8, <2>9 DEF EventThread
<1>3. CASE Driver
  <2>1. CASE SetReady \/ Deinit \/ FreeEventsEnd \/ DelVqs \/ Stopped
    BY <2>1 DEF SetReady, Deinit, FreeEventsEnd, DelVqs, Stopped
  <2>2. CASE FreeEvents
    <3>1. vbuf_list' \in Seq(Bufs) /\ resp_list' \in Seq(Bufs)
      <4>1. CASE vbuf_list # <<>> /\ vbuf_list' = Tail(vbuf_list) /\ UNCHANGED resp_list
        BY <4>1, TailElements
      <4>2. CASE resp_list # <<>> /\ resp_list' = Tail(resp_list) /\ UNCHANGED vbuf_list
        BY <4>2, TailElements
      <4> QED
        BY <2>2, <4>1, <4>2 DEF FreeEvents
    <3> QED
      BY <2>2, <3>1 DEF FreeEvents
  <2>3. ASSUME NEW s \in Streams, OpenStream(s) \/ CloseStream(s) PROVE VarsOK'
    BY <2>3 DEF OpenStream, CloseStream
  <2> QED
    BY <1>3, <2>1, <2>2, <2>3 DEF Driver
<1>4. CASE UNCHANGED vars
  BY <1>4 DEF vars
<1> QED
  BY <1>1, <1>2, <1>3, <1>4 DEF Next

\* Whoever has a buffer in hand, and every buffer of resp_list, keeps its event.
LEMMA ContentStep == TypeOK /\ EventBufsOwnedOnce /\ [Next]_vars => ContentOK'
<1> SUFFICES ASSUME TypeOK, EventBufsOwnedOnce, [Next]_vars PROVE ContentOK'
  OBVIOUS
<1> USE DEF TypeOK, VarsOK, ContentOK, listVars, etVars, wkVars, histVars, EtGoTo
<1>a. None \notin Bufs
  BY EventQueueAssumption DEF Bufs
<1>1. CASE Worker
  <2>1. CASE WorkStart \/ WorkEmpty \/ WorkEnd
    BY <2>1 DEF WorkStart, WorkEmpty, WorkEnd
  <2>2. CASE WorkGet
    BY <2>2, TailElements DEF WorkGet
  <2>3. CASE WorkHandle
    BY <2>3 DEF WorkHandle
  <2>4. CASE WorkRequeue
    <3>1. \A i \in 1..Len(resp_list) : resp_list[i] \in Bufs /\ resp_list[i] # evt
      BY DEF EventBufsOwnedOnce
    <3>2. msg \in Bufs => msg # evt
      BY <1>a DEF EventBufsOwnedOnce
    <3>3. \A b \in Bufs : b # evt => content'[b] = content[b]
      BY <2>4 DEF WorkRequeue
    <3> QED
      BY <2>4, <3>1, <3>2, <3>3 DEF WorkRequeue
  <2> QED
    BY <1>1, <2>1, <2>2, <2>3, <2>4 DEF Worker
<1>2. CASE EventThread
  <2>1. ASSUME UnattachVbuf, UNCHANGED <<resp_list, wk, evt>>,
               NEW e, content' = [content EXCEPT ![Head(vbuf_list)] = e]
        PROVE  /\ \A i \in 1..Len(resp_list') : content'[resp_list'[i]] \in Events
               /\ wk' \in {"handle", "requeue"} => evt' \in Bufs
               /\ wk' = "handle" => content'[evt'] \in Events
    <3>1. Head(vbuf_list) = vbuf_list[1] /\ 1 \in 1..Len(vbuf_list)
      BY <2>1, TailElements DEF UnattachVbuf
    <3>2. /\ \A i \in 1..Len(resp_list) : resp_list[i] \in Bufs /\ resp_list[i] # vbuf_list[1]
          /\ evt # vbuf_list[1]
      BY <3>1 DEF EventBufsOwnedOnce
    <3>3. \A b \in Bufs : b # vbuf_list[1] => content'[b] = content[b]
      BY <2>1, <3>1
    <3> QED
      BY <2>1, <3>2, <3>3
  <2>2. CASE GetBuf
    <3>1. /\ UnattachVbuf /\ UNCHANGED <<resp_list, wk, evt>> /\ et' = "recv"
          /\ msg' = Head(vbuf_list) /\ Head(vbuf_list) \in Bufs
          /\ content' = [content EXCEPT ![Head(vbuf_list)] = None]
      BY <2>2, TailElements DEF GetBuf, UnattachVbuf
    <3> QED
      BY <2>1, <3>1
  <2>3. CASE GetNone \/ Exit \/ RecvError \/ AttachFail \/ Schedule \/ Break \/ SelfStop
    BY <2>3 DEF GetNone, Exit, RecvError, AttachFail, Schedule, Break, SelfStop
  <2>4. CASE Recv
    <3>1. PICK s \in Streams : content' = [content EXCEPT ![msg] = Event(s, sent')]
      BY <2>4 DEF Recv
    <3>2. Event(s, sent') \in Events /\ msg \in Bufs
      BY <2>4, EventType DEF Recv
    <3>3. \A b \in Bufs : b # msg => content'[b] = content[b]
      BY <3>1
    <3>4. /\ \A i \in 1..Len(resp_list) : resp_list[i] \in Bufs /\ resp_list[i] # msg
          /\ msg # evt
      BY <3>2, <1>a DEF EventBufsOwnedOnce
    <3> QED
      BY <2>4, <3>1, <3>2, <3>3, <3>4 DEF Recv
  <2>5. CASE RecvInterrupted \/ Reattach
    BY <2>5 DEF RecvInterrupted, Reattach
  <2>6. CASE AttachEvent
    <3>1. /\ msg \in Bufs /\ content[msg] \in Events /\ resp_list' = Append(resp_list, msg)
          /\ et' = "schedule" /\ UNCHANGED <<content, wk, evt>>
      BY <2>6 DEF AttachEvent
    <3>2. \A i \in 1..Len(resp_list') : content'[resp_list'[i]] \in Events
      BY <3>1, AppendElements
    <3> QED
      BY <3>1, <3>2
  <2>7. CASE PostError
    <3>1. /\ msg \in Bufs /\ content[msg] \in Events
          /\ resp_list' = Append(resp_list, msg) \/ UNCHANGED resp_list
          /\ et' = "err" /\ UNCHANGED <<content, wk, evt>>
      BY <2>7 DEF PostError
    <3>2. \A i \in 1..Len(resp_list') : content'[resp_list'[i]] \in Events
      <4>1. CASE UNCHANGED resp_list
        BY <3>1, <4>1
      <4>2. CASE resp_list' = Append(resp_list, msg)
        BY <3>1, <4>2, AppendElements
      <4> QED
        BY <3>1, <4>1, <4>2
    <3> QED
      BY <3>1, <3>2
  <2>8. ASSUME NEW s \in Streams, ErrorEvent(s) PROVE ContentOK'
    <3>1. /\ UnattachVbuf /\ UNCHANGED <<resp_list, wk, evt>> /\ et' = "post"
          /\ msg' = Head(vbuf_list) /\ Head(vbuf_list) \in Bufs
          /\ content' = [content EXCEPT ![Head(vbuf_list)] = Event(s, 0)]
      BY <2>8, TailElements DEF ErrorEvent, UnattachVbuf
    <3>2. content'[msg'] \in Events
      BY <3>1, EventType
    <3> QED
      BY <2>1, <3>1, <3>2
  <2>9. ASSUME NEW s \in Streams, NoErrorEvent(s) PROVE ContentOK'
    BY <2>9 DEF NoErrorEvent
  <2> QED
    BY <1>2, <2>2, <2>3, <2>4, <2>5, <2>6, <2>7, <2>8, <2>9 DEF EventThread
<1>3. CASE Driver
  <2>1. CASE SetReady \/ Deinit \/ FreeEventsEnd \/ DelVqs \/ Stopped
    BY <2>1 DEF SetReady, Deinit, FreeEventsEnd, DelVqs, Stopped
  <2>2. CASE FreeEvents
    <3>1. UNCHANGED <<content, et, msg, wk, evt>>
      BY <2>2 DEF FreeEvents
    <3>2. \A i \in 1..Len(resp_list') : content'[resp_list'[i]] \in Events
      <4>1. CASE UNCHANGED resp_list
        BY <3>1, <4>1
      <4>2. CASE resp_list # <<>> /\ resp_list' = Tail(resp_list)
        BY <3>1, <4>2, TailElements
      <4> QED
        BY <2>2, <4>1, <4>2 DEF FreeEvents
    <3> QED
      BY <3>1, <3>2
  <2>3. ASSUME NEW s \in Streams, OpenStream(s) \/ CloseStream(s) PROVE ContentOK'
    BY <2>3 DEF OpenStream, CloseStream
  <2> QED
    BY <1>3, <2>1, <2>2, <2>3 DEF Driver
<1>4. CASE UNCHANGED vars
  BY <1>4 DEF vars
<1> QED
  BY <1>1, <1>2, <1>3, <1>4 DEF Next
-----------------------------------------------------------------------------
(* The pool.                                                               *)

\* attach_buf_to_vq_buf on vbuf_list trades a free vq_buf for an entry of the list.
LEMMA AttachVbufTrades ==
  ASSUME TypeOK, NEW b \in Bufs, AttachVbuf(b)
  PROVE  unused' + Len(vbuf_list') = unused + Len(vbuf_list)
<1>1. CASE unused > 0 /\ unused' = unused - 1 /\ vbuf_list' = Append(vbuf_list, b)
  BY <1>1, AppendElements DEF TypeOK, VarsOK
<1>2. CASE UNCHANGED <<unused, vbuf_list>>
  BY <1>2
<1> QED
  BY <1>1, <1>2, Zenon DEF AttachVbuf

\* Every step that leaves td alone keeps the number of vq_bufs.
LEMMA TotalStep ==
  ASSUME TypeOK, [Next]_vars, ~FreeEventsEnd
  PROVE  unused' + Len(vbuf_list') + Len(resp_list') = unused + Len(vbuf_list) + Len(resp_list)
<1> DEFINE Total == unused + Len(vbuf_list) + Len(resp_list)
<1> USE DEF TypeOK, VarsOK
<1>0. unused \in Nat /\ Len(vbuf_list) \in Nat /\ Len(resp_list) \in Nat
  OBVIOUS
<1>1. CASE UNCHANGED <<unused, vbuf_list, resp_list>>
  BY <1>1
<1>2. CASE UNCHANGED vars
  BY <1>1, <1>2 DEF vars, listVars
<1>3. CASE Bystander
  BY <1>1, <1>3, BystanderKeeps
<1>4. CASE FreeEvents
  <2>1. CASE vbuf_list # <<>> /\ vbuf_list' = Tail(vbuf_list) /\ UNCHANGED resp_list
    BY <1>0, <1>4, <2>1, TailElements DEF FreeEvents
  <2>2. CASE resp_list # <<>> /\ resp_list' = Tail(resp_list) /\ UNCHANGED vbuf_list
    BY <1>0, <1>4, <2>2, TailElements DEF FreeEvents
  <2> QED
    BY <1>4, <2>1, <2>2 DEF FreeEvents
<1>5. CASE WorkGet
  BY <1>0, <1>5, TailElements DEF WorkGet
<1>6. CASE WorkRequeue
  <2>1. evt \in Bufs /\ UNCHANGED resp_list
    BY <1>6 DEF WorkRequeue, ContentOK
  <2>2. CASE AttachVbuf(evt)
    BY <1>0, <2>1, <2>2, AttachVbufTrades, AttachVbufTypes
  <2> QED
    BY <1>1, <1>6, <2>1, <2>2, RequeueAttaches
<1>7. ASSUME UnattachVbuf, UNCHANGED resp_list PROVE Total' = Total
  BY <1>0, <1>7, TailElements DEF UnattachVbuf
<1>8. CASE GetBuf
  BY <1>7, <1>8 DEF GetBuf
<1>9. ASSUME NEW s \in Streams, ErrorEvent(s) PROVE Total' = Total
  BY <1>7, <1>9 DEF ErrorEvent
<1>10. CASE RecvInterrupted
  <2>1. msg \in Bufs /\ AttachVbuf(msg) /\ UNCHANGED resp_list
    BY <1>10 DEF RecvInterrupted, ContentOK
  <2> QED
    BY <1>0, <2>1, AttachVbufTrades, AttachVbufTypes
<1>11. CASE Reattach
  <2>1. UNCHANGED resp_list
    BY <1>11 DEF Reattach
  <2>2. CASE msg # None /\ AttachVbuf(msg)
    BY <1>0, <2>1, <2>2, AttachVbufTrades, AttachVbufTypes
  <2>3. CASE UNCHANGED <<unused, vbuf_list>>
    BY <1>1, <2>1, <2>3
  <2> QED
    BY <1>11, <2>2, <2>3, Zenon DEF Reattach
<1>12. ASSUME msg \in Bufs, unused > 0, resp_list' = Append(resp_list, msg), unused' = unused - 1,
              UNCHANGED vbuf_list
       PROVE  Total' = Total
  BY <1>0, <1>12, AppendElements
<1>13. CASE AttachEvent
  BY <1>12, <1>13 DEF AttachEvent, ContentOK
<1>14. CASE PostError
  <2>1. msg \in Bufs /\ UNCHANGED vbuf_list
    BY <1>14 DEF PostError, ContentOK
  <2>2. CASE UNCHANGED <<resp_list, unused>>
    BY <1>1, <2>1, <2>2
  <2> QED
    BY <1>12, <1>14, <2>1, <2>2, Zenon DEF PostError
<1> QED
  BY <1>2, <1>3, <1>4, <1>5, <1>6, <1>8, <1>9, <1>10, <1>11, <1>13, <1>14, Steps, Zenon

\* No step goes back to a phase before the end of virtio_video_free_vbufs.
LEMMA PhaseStep ==
  ASSUME TypeOK, [Next]_vars, td' \in {"probe", "up", "free"}
  PROVE  td \in {"probe", "up", "free"} /\ ~FreeEventsEnd
<1>1. CASE UNCHANGED td
  BY <1>1 DEF FreeEventsEnd
<1>2. CASE Worker
  BY <1>1, <1>2, Zenon DEF Worker, WorkStart, WorkGet, WorkEmpty, WorkEnd, WorkHandle, WorkRequeue
<1>3. CASE EventThread
  <2>1. ASSUME NEW s \in Streams, ErrorEvent(s) \/ NoErrorEvent(s) PROVE UNCHANGED td
    BY <2>1, Zenon DEF ErrorEvent, NoErrorEvent
  <2>2. CASE GetBuf \/ GetNone \/ Exit \/ Recv \/ RecvInterrupted \/ RecvError
    BY <1>1, <2>2, Zenon DEF GetBuf, GetNone, Exit, Recv, RecvInterrupted, RecvError
  <2>3. CASE AttachEvent \/ AttachFail \/ Schedule \/ Break \/ Reattach \/ PostError \/ SelfStop
    BY <1>1, <2>3, Zenon DEF AttachEvent, AttachFail, Schedule, Break, Reattach, PostError, SelfStop
  <2> QED
    BY <1>1, <1>3, <2>1, <2>2, <2>3, Zenon DEF EventThread
<1>4. CASE Driver
  BY <1>4 DEF Driver, SetReady, Deinit, FreeEvents, FreeEventsEnd, DelVqs, Stopped, OpenStream, CloseStream
<1>5. CASE UNCHANGED vars
  BY <1>1, <1>5, Zenon DEF vars
<1> QED
  BY <1>2, <1>3, <1>4, <1>5, Zenon DEF Next

\* Every step keeps the vq_bufs.
LEMMA PoolStep == TypeOK /\ PoolConserved /\ [Next]_vars => PoolConserved'
  BY TotalStep, PhaseStep DEF PoolConserved

\* A list 1, 2, ..., VqNum of buffers: virtio_video_alloc_events.
LEMMA OwnInit == Init => EventBufsOwnedOnce /\ PoolConserved
<1> SUFFICES ASSUME Init PROVE EventBufsOwnedOnce /\ PoolConserved
  OBVIOUS
<1>1. /\ Len(vbuf_list) = VqNum /\ \A i \in 1..Len(vbuf_list) : vbuf_list[i] = i /\ i # None
      /\ Len(resp_list) = 0 /\ unused = 0 /\ msg = None /\ evt = None
  BY EventQueueAssumption DEF Init, Bufs
<1> QED
  BY <1>1, EventQueueAssumption DEF EventBufsOwnedOnce, PoolConserved
-----------------------------------------------------------------------------
(* The buffers in hand: as long as the queue works, each has a free vq_buf. *)

\* The inductive strengthening of NoEventBufLost: who has no business with a buffer has none,
\* and the error path runs on a broken queue.
HandsOK ==
  /\ et \in {"get", "schedule"} => msg = None
  /\ et \in {"reattach", "err", "post", "stuck"} => broken
  /\ wk \in {"idle", "drain", "end"} => evt = None
  /\ td \in {"probe", "up"} /\ ~broken => unused = InHand(msg) + InHand(evt)

\* A probed queue has every buffer in vbuf_list.
LEMMA HandsInit == Init => HandsOK
  BY DEF Init, HandsOK, InHand

\* broken is never taken back and the device never comes back.
LEMMA NeverBack ==
  ASSUME TypeOK, [Next]_vars
  PROVE  /\ broken => broken'
         /\ td' \in {"probe", "up"} => td \in {"probe", "up"}
<1> USE DEF listVars, etVars, wkVars, histVars
<1>1. CASE UNCHANGED <<broken, td>>
  BY <1>1, Zenon
<1>2. CASE Worker
  BY <1>1, <1>2, Zenon DEF Worker, WorkStart, WorkGet, WorkEmpty, WorkEnd, WorkHandle, WorkRequeue
<1>3. CASE EventThread
  <2>1. ASSUME NEW s \in Streams, ErrorEvent(s) \/ NoErrorEvent(s) PROVE UNCHANGED <<broken, td>>
    BY <2>1, Zenon DEF ErrorEvent, NoErrorEvent
  <2>2. CASE GetBuf \/ GetNone \/ Exit \/ Recv \/ RecvInterrupted \/ RecvError
    BY <1>1, <2>2, Zenon DEF GetBuf, GetNone, Exit, Recv, RecvInterrupted, RecvError
  <2>3. CASE AttachEvent \/ AttachFail \/ Schedule \/ Reattach \/ PostError \/ SelfStop
    BY <1>1, <2>3, Zenon DEF AttachEvent, AttachFail, Schedule, Reattach, PostError, SelfStop
  <2>4. CASE Break
    BY <2>4, Zenon DEF Break
  <2> QED
    BY <1>1, <1>3, <2>1, <2>2, <2>3, <2>4, Zenon DEF EventThread
<1>4. CASE Driver
  <2>1. UNCHANGED broken
    BY <1>4, Zenon DEF Driver, SetReady, Deinit, FreeEvents, FreeEventsEnd, DelVqs, Stopped, OpenStream,
       CloseStream
  <2>2. td' \in {"probe", "up"} => td \in {"probe", "up"}
    BY <1>4 DEF Driver, SetReady, Deinit, FreeEvents, FreeEventsEnd, DelVqs, Stopped, OpenStream,
       CloseStream
  <2> QED
    BY <2>1, <2>2, Zenon
<1>5. CASE UNCHANGED vars
  BY <1>1, <1>5, Zenon DEF vars
<1> QED
  BY <1>2, <1>3, <1>4, <1>5, Zenon DEF Next

\* Whoever has a buffer finds a free vq_buf for it, and whoever gets one leaves one.
LEMMA HandsStep == TypeOK /\ HandsOK /\ [Next]_vars => HandsOK'
<1> SUFFICES ASSUME TypeOK, HandsOK, [Next]_vars PROVE HandsOK'
  OBVIOUS
<1> USE DEF TypeOK, VarsOK, ContentOK, HandsOK, InHand, listVars, etVars, wkVars, histVars, EtGoTo
<1>a. None \notin Bufs
  BY EventQueueAssumption DEF Bufs
<1>b. /\ broken => broken'
      /\ td' \in {"probe", "up"} => td \in {"probe", "up"}
  BY NeverBack
<1>1. CASE Worker
  <2>1. CASE WorkStart \/ WorkEmpty \/ WorkEnd \/ WorkHandle
    BY <2>1 DEF WorkStart, WorkEmpty, WorkEnd, WorkHandle
  <2>2. CASE WorkGet
    BY <1>a, <2>2, TailElements DEF WorkGet
  <2>3. CASE WorkRequeue
    BY <1>a, <2>3 DEF WorkRequeue
  <2> QED
    BY <1>1, <2>1, <2>2, <2>3 DEF Worker
<1>2. CASE EventThread
  <2>1. CASE GetBuf
    BY <1>a, <2>1, TailElements DEF GetBuf, UnattachVbuf
  <2>2. CASE GetNone \/ Exit \/ Recv \/ RecvError \/ AttachFail \/ Schedule
    BY <2>2 DEF GetNone, Exit, Recv, RecvError, AttachFail, Schedule
  <2>3. CASE RecvInterrupted
    BY <1>a, <2>3 DEF RecvInterrupted, AttachVbuf
  <2>4. CASE AttachEvent
    BY <1>a, <2>4 DEF AttachEvent
  <2>5. CASE Break \/ Reattach \/ PostError \/ SelfStop
    BY <2>5 DEF Break, Reattach, PostError, SelfStop
  <2>6. ASSUME NEW s \in Streams, ErrorEvent(s) \/ NoErrorEvent(s) PROVE HandsOK'
    BY <2>6 DEF ErrorEvent, NoErrorEvent
  <2> QED
    BY <1>2, <2>1, <2>2, <2>3, <2>4, <2>5, <2>6 DEF EventThread
<1>3. CASE Driver
  BY <1>b, <1>3 DEF Driver, SetReady, Deinit, FreeEvents, FreeEventsEnd, DelVqs, Stopped, OpenStream,
     CloseStream
<1>4. CASE UNCHANGED vars
  BY <1>4 DEF vars
<1> QED
  BY <1>1, <1>2, <1>3, <1>4 DEF Next

\* With as many free vq_bufs as buffers in hand, the rest of the buffers are in the lists.
LEMMA HandsSuffice == TypeOK /\ PoolConserved /\ HandsOK => NoEventBufLost
  BY EventQueueAssumption DEF TypeOK, VarsOK, PoolConserved, HandsOK, NoEventBufLost, InHand
-----------------------------------------------------------------------------
(* The order of the events: from the event thread to the work item through  *)
(* resp_list, the sequence of the events on their way only grows at its end. *)

\* A sequence with one element.
LEMMA OneElement == ASSUME NEW S, NEW e \in S PROVE <<e>> \in Seq(S)
  OBVIOUS

\* Sequences of the same length with the same elements are the same.
LEMMA SequencesEqual ==
  ASSUME NEW S, NEW s \in Seq(S), NEW t \in Seq(S), Len(s) = Len(t),
         \A i \in 1..Len(s) : s[i] = t[i]
  PROVE  s = t
<1>1. /\ s \in [1..Len(s) -> S] /\ t \in [1..Len(s) -> S]
  BY LenProperties
<1> QED
  BY <1>1

\* The events f[x] of the elements x of a sequence, in the same order.
LEMMA EventsAlong ==
  ASSUME NEW S, NEW s \in Seq(S), NEW E, NEW f, \A i \in 1..Len(s) : f[s[i]] \in E
  PROVE  LET es == [i \in 1..Len(s) |-> f[s[i]]]
         IN  es \in Seq(E) /\ Len(es) = Len(s)
<1> DEFINE es == [i \in 1..Len(s) |-> f[s[i]]]
<1>1. Len(s) \in Nat
  OBVIOUS
<1>2. es \in [1..Len(s) -> E]
  OBVIOUS
<1>3. es \in Seq(E)
  BY <1>1, <1>2, SeqDef
<1>4. DOMAIN es = 1..Len(s)
  OBVIOUS
<1>5. DOMAIN es = 1..Len(es) /\ Len(es) \in Nat
  BY <1>3, LenProperties
<1>6. Len(es) = Len(s)
  BY <1>1, <1>4, <1>5
<1> QED
  BY <1>3, <1>6

\* The events in the buffers of resp_list are a sequence of events.
LEMMA WaitingType == TypeOK => Waiting \in Seq(Events) /\ Len(Waiting) = Len(resp_list)
  BY EventsAlong DEF TypeOK, VarsOK, ContentOK, Waiting

\* So are the events of each place and all of them together.
LEMMA TransitType ==
  ASSUME TypeOK
  PROVE  /\ handled \in Seq(Events) /\ Handling \in Seq(Events)
         /\ Waiting \in Seq(Events) /\ Received \in Seq(Events)
         /\ handled \o Handling \in Seq(Events)
         /\ handled \o Handling \o Waiting \in Seq(Events)
         /\ InTransit \in Seq(Events)
<1>1. handled \in Seq(Events) /\ Waiting \in Seq(Events)
  BY WaitingType DEF TypeOK, VarsOK
<1>2. Handling \in Seq(Events)
  <2>1. CASE wk = "handle"
    BY <2>1, OneElement DEF TypeOK, ContentOK, Handling
  <2> QED
    BY <2>1, EmptySeq DEF Handling
<1>3. Received \in Seq(Events)
  <2>1. CASE et = "attach"
    BY <2>1, OneElement DEF TypeOK, ContentOK, Received
  <2> QED
    BY <2>1, EmptySeq DEF Received
<1>4. handled \o Handling \in Seq(Events)
  BY <1>1, <1>2, ConcatProperties
<1>5. handled \o Handling \o Waiting \in Seq(Events)
  BY <1>1, <1>4, ConcatProperties
<1>6. InTransit \in Seq(Events)
  BY <1>3, <1>5, ConcatProperties DEF InTransit
<1> QED
  BY <1>1, <1>2, <1>3, <1>4, <1>5, <1>6

\* A buffer that is not in resp_list is of no concern to the events that wait there.
LEMMA WaitingElsewhere ==
  ASSUME TypeOK, UNCHANGED resp_list, NEW b,
         \A i \in 1..Len(resp_list) : resp_list[i] # b,
         \A c \in Bufs : c # b => content'[c] = content[c]
  PROVE  Waiting' = Waiting
<1>1. \A i \in 1..Len(resp_list) : content'[resp_list[i]] = content[resp_list[i]]
  BY DEF TypeOK, VarsOK
<1> QED
  BY <1>1 DEF Waiting

\* An event joins those that wait when its buffer joins resp_list.
LEMMA WaitingGrows ==
  ASSUME TypeOK, TypeOK', UNCHANGED content, msg \in Bufs, content[msg] \in Events,
         resp_list' = Append(resp_list, msg)
  PROVE  Waiting' = Append(Waiting, content[msg])
<1>1. Waiting' \in Seq(Events) /\ Len(Waiting') = Len(resp_list')
  BY EventsAlong DEF TypeOK, VarsOK, ContentOK, Waiting
<1>2. Waiting \in Seq(Events) /\ Len(Waiting) = Len(resp_list)
  BY WaitingType
<1>3. \A i \in 1..Len(resp_list) : Waiting[i] = content[resp_list[i]]
  BY DEF Waiting
<1>4. \A i \in 1..Len(resp_list') : Waiting'[i] = content[resp_list'[i]]
  BY DEF Waiting
<1>5. Len(resp_list') = Len(resp_list) + 1 /\ Len(resp_list) \in Nat
  BY AppendElements DEF TypeOK, VarsOK
<1>6. /\ Append(Waiting, content[msg]) \in Seq(Events)
      /\ Len(Append(Waiting, content[msg])) = Len(Waiting')
  BY <1>1, <1>2, <1>5, AppendElements
<1>7. ASSUME NEW i \in 1..Len(Waiting') PROVE Waiting'[i] = Append(Waiting, content[msg])[i]
  <2>1. CASE i \in 1..Len(resp_list)
    <3>1. resp_list'[i] = resp_list[i]
      BY <2>1 DEF TypeOK, VarsOK
    <3>2. Append(Waiting, content[msg])[i] = Waiting[i]
      BY <1>2, <2>1
    <3> QED
      BY <1>1, <1>3, <1>4, <2>1, <3>1, <3>2
  <2>2. CASE i = Len(resp_list) + 1
    <3>1. resp_list'[i] = msg
      BY <2>2 DEF TypeOK, VarsOK
    <3>2. Append(Waiting, content[msg])[i] = content[msg]
      BY <1>2, <2>2
    <3> QED
      BY <1>1, <1>4, <3>1, <3>2
  <2>3. i \in 1..(Len(resp_list) + 1)
    BY <1>1, <1>5
  <2>4. Len(resp_list) \in Nat
    BY <1>5
  <2>5. i \in 1..Len(resp_list) \/ i = Len(resp_list) + 1
    BY <2>3, <2>4
  <2> QED
    BY <2>1, <2>2, <2>5
<1> QED
  BY <1>1, <1>6, <1>7, SequencesEqual

\* virtqueue_get_buf takes the event that waited longest.
LEMMA WaitingShrinks ==
  ASSUME TypeOK, UNCHANGED content, resp_list # <<>>, resp_list' = Tail(resp_list), TypeOK'
  PROVE  Waiting = <<content[Head(resp_list)]>> \o Waiting'
<1>1. Waiting' \in Seq(Events) /\ Len(Waiting') = Len(resp_list')
  BY EventsAlong DEF TypeOK, VarsOK, ContentOK, Waiting
<1>2. Waiting \in Seq(Events) /\ Len(Waiting) = Len(resp_list)
  BY WaitingType
<1>3. \A i \in 1..Len(resp_list) : Waiting[i] = content[resp_list[i]]
  BY DEF Waiting
<1>4. \A i \in 1..Len(resp_list') : Waiting'[i] = content[resp_list'[i]]
  BY DEF Waiting
<1>5. /\ Head(resp_list) = resp_list[1] /\ Len(resp_list') = Len(resp_list) - 1 /\ Len(resp_list) >= 1
      /\ Len(resp_list) \in Nat
      /\ \A i \in 1..Len(resp_list') : resp_list'[i] = resp_list[i + 1]
  BY TailElements DEF TypeOK, VarsOK
<1>6. content[Head(resp_list)] \in Events
  BY <1>5 DEF TypeOK, ContentOK
<1> DEFINE one == <<content[Head(resp_list)]>>
<1>7. one \in Seq(Events) /\ Len(one) = 1 /\ one[1] = content[Head(resp_list)]
  BY <1>6
<1> HIDE DEF one
<1>8. /\ one \o Waiting' \in Seq(Events) /\ Len(one \o Waiting') = Len(one) + Len(Waiting')
      /\ \A i \in 1..Len(one) + Len(Waiting') :
           (one \o Waiting')[i] = IF i <= Len(one) THEN one[i] ELSE Waiting'[i - Len(one)]
  BY <1>1, <1>7, ConcatProperties
<1>9. Len(one \o Waiting') = Len(Waiting)
  BY <1>1, <1>2, <1>5, <1>7, <1>8
<1>10. ASSUME NEW i \in 1..Len(Waiting) PROVE Waiting[i] = (one \o Waiting')[i]
  <2>1. CASE i = 1
    BY <1>1, <1>2, <1>3, <1>5, <1>7, <1>8, <2>1
  <2>2. CASE i # 1
    <3>1. i - 1 \in 1..Len(resp_list') /\ (i - 1) + 1 = i
      BY <1>2, <1>5, <2>2
    <3>2. Waiting'[i - 1] = content[resp_list[i]]
      BY <1>4, <1>5, <3>1
    <3> QED
      BY <1>1, <1>2, <1>3, <1>5, <1>7, <1>8, <2>2, <3>2
  <2> QED
    BY <2>1, <2>2
<1>11. Waiting = one \o Waiting'
  BY <1>2, <1>8, <1>9, <1>10, SequencesEqual
<1> QED
  BY <1>11 DEF one

\* What the sequence of all of them looks like when one event moves on: from resp_list to the
\* work item, ...
LEMMA ShiftToHandling ==
  ASSUME NEW S, NEW h \in Seq(S), NEW e \in S, NEW w \in Seq(S), NEW r \in Seq(S)
  PROVE  h \o <<>> \o (<<e>> \o w) \o r = h \o <<e>> \o w \o r
<1>1. <<e>> \in Seq(S)
  BY OneElement
<1>2. h \o <<>> = h
  BY ConcatEmptySeq
<1>3. h \o (<<e>> \o w) = h \o <<e>> \o w
  BY <1>1, ConcatAssociative
<1> QED
  BY <1>2, <1>3

\* ... from there to those handled, ...
LEMMA ShiftToHandled ==
  ASSUME NEW S, NEW h \in Seq(S), NEW e \in S
  PROVE  Append(h, e) \o <<>> = h \o <<e>>
<1>1. Append(h, e) \in Seq(S) /\ Append(h, e) = h \o <<e>>
  BY AppendElements, AppendIsConcat
<1> QED
  BY <1>1, ConcatEmptySeq

\* ... and from the event thread to resp_list, ...
LEMMA ShiftToWaiting ==
  ASSUME NEW S, NEW h \in Seq(S), NEW e \in S, NEW w \in Seq(S)
  PROVE  h \o Append(w, e) \o <<>> = h \o w \o <<e>>
<1>1. Append(w, e) \in Seq(S) /\ Append(w, e) = w \o <<e>> /\ <<e>> \in Seq(S)
  BY AppendElements, AppendIsConcat, OneElement
<1>2. h \o Append(w, e) \in Seq(S)
  BY <1>1, ConcatProperties
<1>3. h \o Append(w, e) \o <<>> = h \o Append(w, e)
  BY <1>2, ConcatEmptySeq
<1>4. h \o (w \o <<e>>) = h \o w \o <<e>>
  BY <1>1, ConcatAssociative
<1> QED
  BY <1>1, <1>3, <1>4

\* ... where, as in the event thread, it is the last.
LEMMA JoinsLast ==
  ASSUME NEW S, NEW h \in Seq(S), NEW e \in S, NEW w \in Seq(S)
  PROVE  /\ h \o w \o <<e>> = Append(h \o w \o <<>>, e)
         /\ h \o Append(w, e) \o <<>> = Append(h \o w \o <<>>, e)
<1>1. h \o w \in Seq(S)
  BY ConcatProperties
<1>2. h \o w \o <<>> = h \o w
  BY <1>1, ConcatEmptySeq
<1>3. Append(h \o w, e) = h \o w \o <<e>>
  BY <1>1, AppendIsConcat
<1> QED
  BY <1>2, <1>3, ShiftToWaiting

\* An error event, which has no number, leaves the events of the back end in order.
LEMMA ErrorEventInOrder ==
  ASSUME NEW q \in Seq(Events), NEW n \in Nat, InOrder(q, n), NEW e \in Events, e.n = 0
  PROVE  InOrder(Append(q, e), n)
<1> DEFINE p == Append(q, e)
           P == {i \in 1..Len(p) : p[i].n > 0}
           Q == {i \in 1..Len(q) : q[i].n > 0}
<1>1. Len(p) = Len(q) + 1 /\ Len(q) \in Nat
  BY AppendElements
<1>2. \A i \in 1..Len(q) : p[i] = q[i]
  OBVIOUS
<1>3. p[Len(q) + 1] = e
  OBVIOUS
<1> HIDE DEF p
<1>4. P = Q /\ \A i \in P : p[i] = q[i]
  <2>1. \A i \in 1..Len(p) : i \in 1..Len(q) \/ i = Len(q) + 1
    BY <1>1
  <2>2. \A i \in 1..Len(q) : i \in 1..Len(p)
    BY <1>1
  <2>3. ~(p[Len(q) + 1].n > 0)
    BY <1>3
  <2> QED
    BY <1>2, <2>1, <2>2, <2>3
<1>5. {q[i].n : i \in Q} = 1..n /\ \A i, j \in Q : i < j => q[i].n < q[j].n
  BY DEF InOrder
<1>6. {p[i].n : i \in P} = {q[i].n : i \in Q}
  BY <1>4
<1> HIDE DEF P, Q
<1>7. {p[i].n : i \in P} = 1..n /\ \A i, j \in P : i < j => p[i].n < p[j].n
  BY <1>4, <1>5, <1>6
<1> QED
  BY <1>7 DEF InOrder, P, p

\* The next event of the back end is in order.
LEMMA NextEventInOrder ==
  ASSUME NEW q \in Seq(Events), NEW n \in Nat, InOrder(q, n), NEW e \in Events, e.n = n + 1
  PROVE  InOrder(Append(q, e), n + 1)
<1> DEFINE p == Append(q, e)
           P == {i \in 1..Len(p) : p[i].n > 0}
           Q == {i \in 1..Len(q) : q[i].n > 0}
           last == Len(q) + 1
<1>1. Len(p) = Len(q) + 1 /\ Len(q) \in Nat
  BY AppendElements
<1>2. \A i \in 1..Len(q) : p[i] = q[i]
  OBVIOUS
<1>3. p[last] = e
  OBVIOUS
<1> HIDE DEF p
<1>4. P = Q \cup {last} /\ last \notin Q /\ \A i \in Q : i < last /\ p[i] = q[i]
  <2>1. \A i \in 1..Len(p) : i \in 1..Len(q) \/ i = last
    BY <1>1
  <2>2. \A i \in 1..Len(q) : i \in 1..Len(p) /\ i < last
    BY <1>1
  <2>3. p[last].n > 0 /\ last \in 1..Len(p)
    BY <1>1, <1>3
  <2>4. P \subseteq Q \cup {last}
    BY <1>2, <2>1
  <2>5. Q \subseteq P /\ last \in P
    BY <1>2, <2>2, <2>3
  <2>6. last \notin Q
    BY <1>1
  <2>7. \A i \in Q : i < last /\ p[i] = q[i]
    BY <1>2, <2>2
  <2> HIDE DEF P, Q, last
  <2> QED
    BY <2>4, <2>5, <2>6, <2>7
<1>5. {q[i].n : i \in Q} = 1..n /\ \A i, j \in Q : i < j => q[i].n < q[j].n
  BY DEF InOrder
<1>6. {p[i].n : i \in P} = {q[i].n : i \in Q} \cup {n + 1}
  <2> HIDE DEF P, Q, last
  <2>1. p[last].n = n + 1
    BY <1>3
  <2>2. \A i \in Q : p[i].n = q[i].n
    BY <1>4
  <2> QED
    BY <1>4, <2>1, <2>2
<1>7. Q \subseteq Nat
  OBVIOUS
<1>8. last \in Nat
  BY <1>1
<1> HIDE DEF P, Q, last
<1>9. 1..n \cup {n + 1} = 1..(n + 1)
  OBVIOUS
<1>10. {p[i].n : i \in P} = 1..(n + 1)
  BY <1>5, <1>6, <1>9
<1>11. \A i \in Q : q[i].n \in 1..n
  BY <1>5
<1>12. ASSUME NEW i \in P, NEW j \in P, i < j PROVE p[i].n < p[j].n
  <2>1. CASE j = last
    <3>1. i \in Q
      BY <1>4, <1>8, <1>12, <2>1
    <3>2. p[i].n \in 1..n
      BY <1>4, <1>11, <3>1
    <3> QED
      BY <1>3, <2>1, <3>2
  <2>2. CASE j # last
    <3>1. j \in Q /\ j < last
      BY <1>4, <2>2
    <3>2. i \in Q
      BY <1>4, <1>7, <1>8, <1>12, <3>1
    <3> QED
      BY <1>4, <1>5, <1>12, <3>1, <3>2
  <2> QED
    BY <2>1, <2>2
<1> QED
  BY <1>10, <1>12 DEF InOrder, P, p

\* The inductive strengthening of EventsInOrder: only the end of the error path runs on a
\* broken queue, and the event it makes up has no number.
ErrorPathOK ==
  /\ broken => et \in {"reattach", "err", "post", "stuck"}
  /\ et = "post" => content[msg].n = 0

\* The thread breaks the queue once, on its way out, and nobody else touches its buffer.
LEMMA ErrorPathStep == TypeOK /\ EventBufsOwnedOnce /\ ErrorPathOK /\ [Next]_vars => ErrorPathOK'
<1> SUFFICES ASSUME TypeOK, EventBufsOwnedOnce, ErrorPathOK, [Next]_vars PROVE ErrorPathOK'
  OBVIOUS
<1> USE DEF ErrorPathOK, listVars, etVars, wkVars, histVars, EtGoTo
<1>a. broken \in BOOLEAN
  BY Zenon DEF TypeOK, FlagsOK
<1>1. CASE Worker
  <2>1. CASE WorkStart \/ WorkGet \/ WorkEmpty \/ WorkEnd \/ WorkHandle
    BY <2>1 DEF WorkStart, WorkGet, WorkEmpty, WorkEnd, WorkHandle
  <2>2. CASE WorkRequeue
    <3>1. et = "post" => msg \in Bufs /\ msg # None /\ msg # evt
      BY EventQueueAssumption DEF EventBufsOwnedOnce, TypeOK, ContentOK, Bufs
    <3>2. et = "post" => content'[msg] = content[msg]
      BY <2>2, <3>1 DEF WorkRequeue, TypeOK, VarsOK
    <3> QED
      BY <2>2, <3>2 DEF WorkRequeue
  <2> QED
    BY <1>1, <2>1, <2>2 DEF Worker
<1>2. CASE EventThread
  <2>1. CASE GetBuf \/ GetNone \/ Exit \/ Recv \/ RecvInterrupted \/ RecvError
    BY <2>1 DEF GetBuf, GetNone, Exit, Recv, RecvInterrupted, RecvError
  <2>2. CASE AttachEvent \/ AttachFail \/ Schedule \/ Break \/ Reattach \/ PostError \/ SelfStop
    BY <2>2 DEF AttachEvent, AttachFail, Schedule, Break, Reattach, PostError, SelfStop
  <2>3. ASSUME NEW s \in Streams, ErrorEvent(s) PROVE ErrorPathOK'
    <3>1. msg' = Head(vbuf_list) /\ Head(vbuf_list) \in Bufs
      BY <2>3, TailElements DEF ErrorEvent, UnattachVbuf, TypeOK, VarsOK
    <3>2. content'[msg'] = Event(s, 0)
      BY <2>3, <3>1 DEF ErrorEvent, TypeOK, VarsOK
    <3>3. content'[msg'].n = 0
      BY <3>2 DEF Event
    <3> QED
      BY <2>3, <3>3 DEF ErrorEvent
  <2>4. ASSUME NEW s \in Streams, NoErrorEvent(s) PROVE ErrorPathOK'
    BY <2>4 DEF NoErrorEvent
  <2> QED
    BY <1>2, <2>1, <2>2, <2>3, <2>4 DEF EventThread
<1>3. CASE Driver
  BY <1>3 DEF Driver, SetReady, Deinit, FreeEvents, FreeEventsEnd, DelVqs, Stopped, OpenStream, CloseStream
<1>4. CASE UNCHANGED vars
  BY <1>4 DEF vars
<1> QED
  BY <1>1, <1>2, <1>3, <1>4 DEF Next

\* What a step does to the events on their way: nothing, or one more comes last, the next of the
\* back end or one that the error path made up.
TransitKept == UNCHANGED <<InTransit, sent>>
TransitGrows ==
  \E e \in Events :
    /\ InTransit' = Append(InTransit, e)
    /\ \/ e.n = 0 /\ UNCHANGED sent
       \/ e.n = sent + 1 /\ sent' = sent + 1

\* The places stay as they are.
LEMMA SamePlaces ==
  ASSUME UNCHANGED <<handled, sent>>, Handling' = Handling, Waiting' = Waiting, Received' = Received
  PROVE  TransitKept
  BY DEF TransitKept, InTransit

\* The work item: what it takes from resp_list is what it handles next.
LEMMA WorkerTransit ==
  ASSUME TypeOK, TypeOK', EventBufsOwnedOnce, Worker
  PROVE  TransitKept
<1> USE DEF listVars, etVars, wkVars, histVars
<1>1. CASE WorkStart \/ WorkEmpty \/ WorkEnd
  <2>1. UNCHANGED <<handled, sent, content, resp_list, msg, et>>
        /\ wk # "handle" /\ wk' # "handle"
    BY <1>1 DEF WorkStart, WorkEmpty, WorkEnd
  <2> QED
    BY <2>1, SamePlaces DEF Handling, Waiting, Received
<1>2. CASE WorkGet
  <2>1. /\ UNCHANGED <<handled, sent, content, msg, et>> /\ wk = "drain" /\ wk' = "handle"
        /\ resp_list # <<>> /\ resp_list' = Tail(resp_list) /\ evt' = Head(resp_list)
    BY <1>2 DEF WorkGet
  <2>2. Handling = <<>> /\ Handling' = <<content[Head(resp_list)]>> /\ Received' = Received
    BY <2>1 DEF Handling, Received
  <2>3. Waiting = <<content[Head(resp_list)]>> \o Waiting'
    BY <2>1, WaitingShrinks
  <2>4. content[Head(resp_list)] \in Events /\ Waiting' \in Seq(Events)
    <3>1. Head(resp_list) = resp_list[1] /\ 1 \in 1..Len(resp_list)
      BY <2>1, TailElements DEF TypeOK, VarsOK
    <3>2. Waiting' \in Seq(Events)
      BY EventsAlong DEF TypeOK, VarsOK, ContentOK, Waiting
    <3> QED
      BY <3>1, <3>2 DEF TypeOK, ContentOK
  <2>5. handled \in Seq(Events) /\ Received \in Seq(Events)
    BY TransitType
  <2>6. handled \o <<>> \o Waiting \o Received
          = handled \o <<content[Head(resp_list)]>> \o Waiting' \o Received
    BY <2>3, <2>4, <2>5, ShiftToHandling
  <2> QED
    BY <2>1, <2>2, <2>6 DEF TransitKept, InTransit
<1>3. CASE WorkHandle
  <2>1. /\ UNCHANGED <<sent, content, resp_list, msg, et>> /\ wk = "handle" /\ wk' = "requeue"
        /\ handled' = Append(handled, content[evt])
    BY <1>3 DEF WorkHandle
  <2>2. /\ Handling = <<content[evt]>> /\ Handling' = <<>>
        /\ Waiting' = Waiting /\ Received' = Received
    BY <2>1 DEF Handling, Waiting, Received
  <2>3. handled \in Seq(Events) /\ content[evt] \in Events
    BY <2>1, TransitType DEF TypeOK, ContentOK
  <2>4. handled' \o <<>> = handled \o <<content[evt]>>
    BY <2>1, <2>3, ShiftToHandled
  <2> QED
    BY <2>1, <2>2, <2>4 DEF TransitKept, InTransit
<1>4. CASE WorkRequeue
  <2>1. /\ UNCHANGED <<handled, sent, resp_list, msg, et>> /\ wk = "requeue" /\ wk' = "drain"
        /\ content' = [content EXCEPT ![evt] = None] /\ evt \in Bufs
    BY <1>4 DEF WorkRequeue, TypeOK, ContentOK
  <2>2. \A c \in Bufs : c # evt => content'[c] = content[c]
    BY <2>1 DEF TypeOK, VarsOK
  <2>3. Waiting' = Waiting
    BY <2>1, <2>2, WaitingElsewhere DEF EventBufsOwnedOnce
  <2>4. et = "attach" => content'[msg] = content[msg]
    BY <2>2, EventQueueAssumption DEF EventBufsOwnedOnce, TypeOK, ContentOK, Bufs
  <2>5. Handling' = Handling /\ Received' = Received
    BY <2>1, <2>4 DEF Handling, Received
  <2> QED
    BY <2>1, <2>3, <2>5, SamePlaces
<1> QED
  BY <1>1, <1>2, <1>3, <1>4 DEF Worker

\* The event thread: what it receives comes last, and so does an error event.  It never fails to
\* attach what it received while the device is there, for it has a free vq_buf.
LEMMA EventThreadTransit ==
  ASSUME TypeOK, TypeOK', EventBufsOwnedOnce, HandsOK, ErrorPathOK, td \in {"probe", "up"}, EventThread
  PROVE  TransitKept \/ TransitGrows
<1> USE DEF listVars, etVars, wkVars, histVars, EtGoTo
<1>a. /\ handled \o Handling \in Seq(Events) /\ Waiting \in Seq(Events)
      /\ InTransit = handled \o Handling \o Waiting \o Received
  BY TransitType DEF InTransit
<1>b. \A b \in Bufs : (wk = "handle" /\ b # evt /\ (\A c \in Bufs : c # b => content'[c] = content[c]))
        => content'[evt] = content[evt]
  BY DEF TypeOK, ContentOK
<1>1. CASE GetNone \/ Exit \/ RecvInterrupted \/ RecvError \/ Schedule \/ Break \/ Reattach \/ SelfStop
  <2>1. /\ UNCHANGED <<handled, sent, content, resp_list, wk, evt>>
        /\ et # "attach" /\ et' # "attach"
    BY <1>1 DEF GetNone, Exit, RecvInterrupted, RecvError, Schedule, Break, Reattach, SelfStop
  <2> QED
    BY <2>1, SamePlaces DEF Handling, Waiting, Received
<1>2. ASSUME NEW s \in Streams, NoErrorEvent(s) PROVE TransitKept
  <2>1. /\ UNCHANGED <<handled, sent, content, resp_list, wk, evt, et, msg>>
    BY <1>2 DEF NoErrorEvent
  <2> QED
    BY <2>1, SamePlaces DEF Handling, Waiting, Received
<1>3. ASSUME UnattachVbuf, UNCHANGED <<handled, sent, resp_list, wk, evt>>, et # "attach", et' # "attach",
             NEW e, content' = [content EXCEPT ![Head(vbuf_list)] = e]
      PROVE  TransitKept
  <2>1. Head(vbuf_list) = vbuf_list[1] /\ 1 \in 1..Len(vbuf_list) /\ Head(vbuf_list) \in Bufs
    BY <1>3, TailElements DEF UnattachVbuf, TypeOK, VarsOK
  <2>2. /\ \A i \in 1..Len(resp_list) : resp_list[i] # Head(vbuf_list)
        /\ Head(vbuf_list) # evt
    BY <2>1 DEF EventBufsOwnedOnce
  <2>3. \A c \in Bufs : c # Head(vbuf_list) => content'[c] = content[c]
    BY <1>3 DEF TypeOK, VarsOK
  <2>4. Waiting' = Waiting
    BY <1>3, <2>2, <2>3, WaitingElsewhere
  <2>5. wk = "handle" => content'[evt] = content[evt]
    BY <1>b, <2>1, <2>2, <2>3
  <2>6. Handling' = Handling /\ Received' = Received
    BY <1>3, <2>5 DEF Handling, Received
  <2> QED
    BY <1>3, <2>4, <2>6, SamePlaces
<1>4. CASE GetBuf
  <2>1. /\ UnattachVbuf /\ UNCHANGED <<handled, sent, resp_list, wk, evt>> /\ et = "get" /\ et' = "recv"
        /\ content' = [content EXCEPT ![Head(vbuf_list)] = None]
    BY <1>4 DEF GetBuf
  <2> QED
    BY <1>3, <2>1
<1>5. ASSUME NEW s \in Streams, ErrorEvent(s) PROVE TransitKept
  <2>1. /\ UnattachVbuf /\ UNCHANGED <<handled, sent, resp_list, wk, evt>> /\ et = "err" /\ et' = "post"
        /\ content' = [content EXCEPT ![Head(vbuf_list)] = Event(s, 0)]
    BY <1>5 DEF ErrorEvent
  <2> QED
    BY <1>3, <2>1
<1>6. CASE Recv
  <2>1. PICK s \in Streams : content' = [content EXCEPT ![msg] = Event(s, sent + 1)]
    BY <1>6 DEF Recv
  <2>2. /\ UNCHANGED <<handled, resp_list, wk, evt, msg>> /\ et = "recv" /\ et' = "attach"
        /\ sent' = sent + 1 /\ msg \in Bufs
    BY <1>6 DEF Recv, TypeOK, ContentOK
  <2>3. msg # evt /\ \A i \in 1..Len(resp_list) : resp_list[i] # msg
    BY <2>2, EventQueueAssumption DEF EventBufsOwnedOnce, Bufs
  <2>4. /\ \A c \in Bufs : c # msg => content'[c] = content[c]
        /\ content'[msg] = Event(s, sent + 1)
    BY <2>1, <2>2 DEF TypeOK, VarsOK
  <2>5. Waiting' = Waiting
    BY <2>2, <2>3, <2>4, WaitingElsewhere
  <2>6. wk = "handle" => content'[evt] = content[evt]
    BY <1>b, <2>2, <2>3, <2>4
  <2>7. /\ Handling' = Handling
        /\ Received = <<>> /\ Received' = <<Event(s, sent + 1)>>
    BY <2>2, <2>4, <2>6 DEF Handling, Received
  <2>8. Event(s, sent + 1) \in Events /\ Event(s, sent + 1).n = sent + 1
    BY DEF TypeOK, VarsOK, Event, Events
  <2>9. InTransit' = Append(InTransit, Event(s, sent + 1))
    <3>1. InTransit' = (handled \o Handling) \o Waiting \o <<Event(s, sent + 1)>>
      BY <2>2, <2>5, <2>7 DEF InTransit
    <3>2. InTransit = (handled \o Handling) \o Waiting \o <<>>
      BY <1>a, <2>7
    <3>3. (handled \o Handling) \o Waiting \o <<Event(s, sent + 1)>>
            = Append((handled \o Handling) \o Waiting \o <<>>, Event(s, sent + 1))
      BY <1>a, <2>8, JoinsLast
    <3> QED
      BY <3>1, <3>2, <3>3
  <2> QED
    BY <2>2, <2>8, <2>9 DEF TransitGrows
<1>7. ASSUME UNCHANGED <<handled, sent, content, wk, evt>>, msg \in Bufs, content[msg] \in Events,
             resp_list' = Append(resp_list, msg), et' # "attach"
      PROVE  /\ Handling' = Handling /\ Received' = <<>> /\ Waiting' = Append(Waiting, content[msg])
             /\ InTransit' = (handled \o Handling) \o Append(Waiting, content[msg]) \o <<>>
  <2>1. Waiting' = Append(Waiting, content[msg])
    BY <1>7, WaitingGrows
  <2>2. Handling' = Handling /\ Received' = <<>>
    BY <1>7 DEF Handling, Received
  <2> QED
    BY <1>7, <2>1, <2>2 DEF InTransit
<1>8. CASE AttachEvent
  <2>1. /\ UNCHANGED <<handled, sent, content, wk, evt>> /\ et = "attach" /\ et' = "schedule"
        /\ resp_list' = Append(resp_list, msg) /\ msg \in Bufs /\ content[msg] \in Events
    BY <1>8 DEF AttachEvent, Post, TypeOK, ContentOK
  <2>2. InTransit' = (handled \o Handling) \o Append(Waiting, content[msg]) \o <<>>
    BY <1>7, <2>1
  <2>3. InTransit = (handled \o Handling) \o Waiting \o <<content[msg]>>
    BY <1>a, <2>1 DEF Received
  <2>4. InTransit' = InTransit
    BY <1>a, <2>1, <2>2, <2>3, ShiftToWaiting
  <2> QED
    BY <2>1, <2>4 DEF TransitKept
<1>9. CASE AttachFail
  <2>1. et = "attach" /\ unused = 0 /\ msg \in Bufs
    BY <1>9 DEF AttachFail, TypeOK, ContentOK
  <2>2. ~broken
    BY <2>1 DEF ErrorPathOK
  <2>3. unused = InHand(msg) + InHand(evt)
    BY <2>2 DEF HandsOK
  <2> QED
    BY <2>1, <2>3, EventQueueAssumption DEF InHand, Bufs
<1>10. CASE PostError
  <2>1. /\ UNCHANGED <<handled, sent, content, wk, evt>> /\ et = "post" /\ et' = "err"
        /\ msg \in Bufs /\ content[msg] \in Events /\ content[msg].n = 0
        /\ resp_list' = Append(resp_list, msg) \/ UNCHANGED resp_list
    BY <1>10 DEF PostError, Post, TypeOK, ContentOK, ErrorPathOK
  <2>2. CASE resp_list' = Append(resp_list, msg)
    <3>1. InTransit' = (handled \o Handling) \o Append(Waiting, content[msg]) \o <<>>
      BY <1>7, <2>1, <2>2
    <3>2. InTransit = (handled \o Handling) \o Waiting \o <<>>
      BY <1>a, <2>1 DEF Received
    <3>3. InTransit' = Append(InTransit, content[msg])
      BY <1>a, <2>1, <3>1, <3>2, JoinsLast
    <3>4. /\ content[msg] \in Events /\ InTransit' = Append(InTransit, content[msg])
          /\ content[msg].n = 0 /\ UNCHANGED sent
      BY <2>1, <3>3
    <3> QED
      BY <3>4, Zenon DEF TransitGrows
  <2>3. CASE UNCHANGED resp_list
    BY <2>1, <2>3, SamePlaces DEF Handling, Waiting, Received
  <2> QED
    BY <2>1, <2>2, <2>3
<1> QED
  BY <1>1, <1>2, <1>4, <1>5, <1>6, <1>8, <1>9, <1>10 DEF EventThread

\* The rest of the driver leaves the events alone while the device is there.
LEMMA DriverTransit ==
  ASSUME Driver, td \in {"probe", "up"}
  PROVE  TransitKept
<1>1. UNCHANGED <<handled, sent, content, resp_list, wk, evt, et, msg>>
  BY DEF Driver, SetReady, Deinit, FreeEvents, FreeEventsEnd, DelVqs, Stopped, OpenStream, CloseStream,
     listVars, etVars, wkVars, histVars
<1> QED
  BY <1>1, SamePlaces DEF Handling, Waiting, Received

\* So the events stay in order.
LEMMA OrderStep ==
  ASSUME TypeOK, TypeOK', EventBufsOwnedOnce, HandsOK, ErrorPathOK, EventsInOrder, [Next]_vars
  PROVE  EventsInOrder'
<1> SUFFICES ASSUME td' \in {"probe", "up"} PROVE InOrder(InTransit', sent')
  BY DEF EventsInOrder
<1>1. td \in {"probe", "up"} /\ InOrder(InTransit, sent)
  BY NeverBack DEF EventsInOrder
<1>2. TransitKept \/ TransitGrows
  <2>1. CASE UNCHANGED vars
    <3>1. UNCHANGED <<handled, sent, content, resp_list, wk, evt, et, msg>>
      BY <2>1 DEF vars, listVars, etVars, wkVars, histVars
    <3> QED
      BY <3>1, SamePlaces DEF Handling, Waiting, Received
  <2> QED
    BY <1>1, <2>1, WorkerTransit, EventThreadTransit, DriverTransit, Zenon DEF Next
<1>3. InTransit \in Seq(Events) /\ sent \in Nat
  BY TransitType DEF TypeOK, VarsOK
<1>4. CASE TransitKept
  BY <1>1, <1>4 DEF TransitKept
<1>5. CASE TransitGrows
  <2>1. PICK e \in Events :
          /\ InTransit' = Append(InTransit, e)
          /\ \/ e.n = 0 /\ UNCHANGED sent
             \/ e.n = sent + 1 /\ sent' = sent + 1
    BY <1>5 DEF TransitGrows
  <2>2. CASE e.n = 0 /\ UNCHANGED sent
    BY <1>1, <1>3, <2>1, <2>2, ErrorEventInOrder
  <2>3. CASE e.n = sent + 1 /\ sent' = sent + 1
    BY <1>1, <1>3, <2>1, <2>3, NextEventInOrder
  <2> QED
    BY <2>1, <2>2, <2>3
<1> QED
  BY <1>2, <1>4, <1>5

\* Nothing is on its way when the device is probed.
LEMMA OrderInit == Init => ErrorPathOK /\ EventsInOrder
<1> SUFFICES ASSUME Init PROVE ErrorPathOK /\ EventsInOrder
  OBVIOUS
<1>1. ErrorPathOK
  BY DEF Init, ErrorPathOK
<1>2. TypeOK
  BY TypeInit
<1>3. handled = <<>> /\ Handling = <<>> /\ Received = <<>> /\ Len(Waiting) = 0 /\ sent = 0
  BY <1>2, WaitingType DEF Init, Handling, Received
<1>4. Waiting = <<>>
  BY <1>2, <1>3, TransitType, EmptySeq
<1>5. InTransit = <<>>
  BY <1>3, <1>4, EmptySeq, ConcatEmptySeq DEF InTransit
<1>6. InOrder(<<>>, 0)
  BY DEF InOrder
<1> QED
  BY <1>1, <1>3, <1>5, <1>6 DEF EventsInOrder
-----------------------------------------------------------------------------
\* Every variable keeps its type, and whoever receives, waits for or handles an event has a
\* buffer with it: the memset of a recycled buffer never hits one that is in use.
THEOREM EventTypeCorrect == Spec => []TypeOK
<1>1. Init => TypeOK /\ EventBufsOwnedOnce
  BY TypeInit, OwnInit
<1>2. TypeOK /\ EventBufsOwnedOnce /\ [Next]_vars => (TypeOK /\ EventBufsOwnedOnce)'
  BY FlagsStep, VarsStep, ContentStep, OwnStep, Zenon DEF TypeOK
<1> QED
  BY <1>1, <1>2, PTL DEF Spec

\* No event buffer is ever in two places, for every number of buffers and streams.
THEOREM EventOwnership == Spec => []EventBufsOwnedOnce
<1>1. Init => TypeOK /\ EventBufsOwnedOnce
  BY TypeInit, OwnInit
<1>2. TypeOK /\ EventBufsOwnedOnce /\ [Next]_vars => EventBufsOwnedOnce'
  BY OwnStep
<1> QED
  BY <1>1, <1>2, EventTypeCorrect, PTL DEF Spec

\* No vq_buf of the event queue is lost or made up before its life ends.
THEOREM EventPoolTheorem == Spec => []PoolConserved
<1>1. Init => PoolConserved
  BY OwnInit
<1>2. TypeOK /\ PoolConserved /\ [Next]_vars => PoolConserved'
  BY PoolStep
<1> QED
  BY <1>1, <1>2, EventTypeCorrect, PTL DEF Spec

\* While the device is there and its queue has not broken, attach_buf_to_vq_buf never fails on
\* the event queue and no event buffer is lost, for every number of buffers.
THEOREM EventBufsKept == Spec => []NoEventBufLost
<1>1. Init => HandsOK
  BY HandsInit
<1>2. TypeOK /\ HandsOK /\ [Next]_vars => HandsOK'
  BY HandsStep
<1> QED
  BY <1>1, <1>2, HandsSuffice, EventTypeCorrect, EventPoolTheorem, PTL DEF Spec
\* While the device is there, every event of the back end is on its way or handled, each once and
\* in the order they were sent, for every number of buffers, streams and events: the recycled
\* buffers, the error path's own events and a broken queue do not disturb them.
THEOREM EventOrderTheorem == Spec => []EventsInOrder
<1>1. Init => HandsOK /\ ErrorPathOK /\ EventsInOrder
  BY HandsInit, OrderInit
<1>2. TypeOK /\ HandsOK /\ [Next]_vars => HandsOK'
  BY HandsStep
<1>3. TypeOK /\ EventBufsOwnedOnce /\ ErrorPathOK /\ [Next]_vars => ErrorPathOK'
  BY ErrorPathStep
<1>4. TypeOK /\ TypeOK' /\ EventBufsOwnedOnce /\ HandsOK /\ ErrorPathOK /\ EventsInOrder /\ [Next]_vars
        => EventsInOrder'
  BY OrderStep
<1> QED
  BY <1>1, <1>2, <1>3, <1>4, EventTypeCorrect, EventOwnership, PTL DEF Spec
=============================================================================
