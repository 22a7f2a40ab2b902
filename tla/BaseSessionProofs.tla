------------------------- MODULE BaseSessionProofs -------------------------
(***************************************************************************)
(* Theorems about BaseSession, for any streams, buffers, formats and       *)
(* bounds.  The invariant has a part for each promise, and a part that     *)
(* says where the ioctls and the work item can be.                         *)
(***************************************************************************)
EXTENDS BaseSession, OperatorLemmas

Names == {"in", "out"}
Call == [at : {"none", "set", "get_in", "get_out", "test", "init", "crop", "get", "start", "stop", "drain"},
         kind : {"s_fmt", "s_parm", "s_selection", "start", "stop", None},
         q : Names \cup {None}, v : Fmts \cup {None}]
QueueCall == [at : {"none", "queue", "start", "run", "clear", "pop", "wait", "cancel", "detach", "cleanup",
                    "destroy"},
              kind : {"qbuf", "streamon", "streamoff", "reqbufs", "release", None},
              q : Names \cup {None}, v : Bufs \cup {None}]
Handling == [at : {"none", "resolution", "test", "set", "error", "in", "out", "pop"},
             s : Streams \cup {None}, k : EventKinds \cup {None}]

StreamTypes ==
  /\ dev \in Devs /\ busy \in BOOLEAN
  /\ pc \in [Streams -> {"free", "id", "params", "queues", "fail", "clear_busy", "open", "closing"}]
  /\ state \in [Streams -> ToSet(Order)] /\ past \in [Streams -> SUBSET Past]
  /\ draining \in [Streams -> BOOLEAN] /\ streaming \in [Streams -> SUBSET Queues]
  /\ opens \in 0..MaxOpens /\ calls \in 0..MaxCalls /\ posted \in 0..MaxEvents
FormatTypes ==
  /\ info \in [Streams -> [Names -> Format]]
  /\ params \in [Streams -> [Names -> Format] \cup {None}]
BufTypes ==
  /\ bst \in [Bufs -> {"none", "user", "prep", "active", "done"}] /\ rid \in [Bufs -> Ids \cup {None}]
  /\ resource_idr \subseteq Ids /\ attached \subseteq Bufs /\ owed \in [Bufs -> 0..MaxOwed]
  /\ unsent \subseteq Bufs /\ early \subseteq Bufs
CallTypes ==
  /\ vd \in Streams \cup {None, "work"}
  /\ iop \in [Streams -> Call] /\ qop \in [Streams -> QueueCall]
  /\ wk \in Handling /\ events \subseteq Streams \X EventKinds
TypeInv == StreamTypes /\ FormatTypes /\ BufTypes /\ CallTypes

\* Where an ioctl is: under video_dev->lock only of an open stream, with a queue that exists.
IopInv ==
  \A s \in Streams :
    /\ iop[s] = NoOp \/ (iop[s].at # "none" /\ iop[s].q \in Queues /\ pc[s] = "open")
    /\ iop[s].at \in {"crop", "get"} => iop[s].q = IF dev = "enc" THEN "in" ELSE "out"
\* Under vq_mutex: of an open stream, or the release that closes it.
QopInv ==
  \A s \in Streams :
    /\ \/ qop[s] = NoOp /\ pc[s] # "closing"
       \/ /\ qop[s].at # "none" /\ qop[s].q \in Queues
          /\ pc[s] = IF qop[s].kind = "release" THEN "closing" ELSE "open"
    /\ qop[s].at = "queue" => /\ qop[s].v \in BufsOf(s, qop[s].q) /\ bst[qop[s].v] = "user"
    /\ qop[s].at \in {"queue", "start", "run"} => qop[s].kind # "release"
    /\ qop[s].at = "detach" => qop[s].kind = "reqbufs"
    /\ qop[s].at = "cleanup" => qop[s].kind \in {"reqbufs", "release"} /\ qop[s].q \notin streaming[s]
    /\ qop[s].at = "destroy" => qop[s].kind = "release"
\* Who holds video_dev->lock, and for which stream the work item is.
LockInv ==
  /\ \A s \in Streams : (iop[s] # NoOp \/ pc[s] = "closing") <=> vd = s
  /\ wk # NoEvent <=> vd = "work"
  /\ wk = NoEvent \/ (wk.at # "none" /\ wk.s \in Streams)
StaleInv ==
  wk # NoEvent => \/ InIdr(wk.s)
                  \/ pc[wk.s] = "clear_busy" /\ "raced" \in past[wk.s]
CameraInv ==
  ~IsM2m => /\ \A s, t \in Streams : pc[s] # "free" /\ pc[t] # "free" => s = t
            /\ busy <=> \E s \in Streams : pc[s] # "free"
\* The back end knows a stream from its STREAM_CREATE to the end of its release.
KnownInv == \A s \in Streams : pc[s] \in {"params", "queues", "open", "closing"} => params[s] # None

\* Only an initialised buffer has an id.
RidInv == RidsExact /\ \A b \in Bufs : (bst[b] = "none") <=> (rid[b] = None)

\* A drain that is asked for is to be answered, until the answer comes or a clear ends it.
DrainInv ==
  \A s \in Streams :
    /\ state[s] = "drain" \/ iop[s].at = "drain" => draining[s] \/ past[s] \cap {"overtaken", "cleared"} # {}
    /\ iop[s].at = "stop" => state[s] # "drain"
    /\ state[s] = "drain" => pc[s] \in {"open", "closing"}

\* What the back end has still to answer of a buffer that vb2 has back is an early return.
OwedInv ==
  \A b \in Bufs :
    /\ bst[b] # "active" /\ owed[b] > 0 => b \in early
    /\ bst[b] = "active" /\ (owed[b] > 1 \/ (b \in unsent /\ owed[b] > 0)) => b \in early
\* vb2 calls the driver with buffers only of a queue that streams, or that is being started.
ActiveInv ==
  /\ \A b \in Bufs : bst[b] = "active" =>
       LET o == qop[StreamOf[b]] IN
       QueueOf[b] \in streaming[StreamOf[b]] \/ (o.at \in {"start", "run"} /\ o.q = QueueOf[b])
  /\ \A s \in Streams : qop[s].at = "cancel" =>
       \A b \in BufsOf(s, qop[s].q) : bst[b] = "active" => dev = "enc" /\ (owed[b] > 0 => b \in early)
\* The list of a camera's buffers: each at most once, and one that vb2 has back only for a reason.
ListInv ==
  /\ pending_buf_list \in Seq(Bufs) /\ (IsM2m => pending_buf_list = <<>>)
  /\ \A i, j \in DOMAIN pending_buf_list : pending_buf_list[i] = pending_buf_list[j] => i = j
  /\ \A b \in ToSet(pending_buf_list) : bst[b] # "active" => b \in early \cup unsent
\* REQBUFS frees a queue only after the back end has detached its buffers.
DetachInv ==
  /\ FreedDetached
  /\ \A s \in Streams :
       qop[s].at = "cleanup" /\ qop[s].kind = "reqbufs" => BufsOf(s, qop[s].q) \cap attached = {}

\* What a stream holds of a format is the back end's, or is on its way, or a command failed.
Fetching(s, q) ==
  \/ iop[s].at = "get_in" \/ (iop[s].at = "get" /\ iop[s].q = q)
  \/ q = "out" /\ \/ iop[s].at = "get_out" \/ <<s, "resolution">> \in events
                  \/ wk.s = s /\ wk.at = "resolution"
InfoInv ==
  \A s \in Streams : pc[s] \in {"queues", "open"} /\ "failed" \notin past[s] =>
    \A q \in Queues : info[s][q] = params[s][q] \/ Fetching(s, q)

Inv ==
  /\ TypeInv /\ IopInv /\ QopInv /\ LockInv /\ StaleInv /\ CameraInv /\ KnownInv /\ RidInv /\ DrainInv
  /\ ActiveOwed /\ OwedInv /\ ActiveInv /\ ListInv /\ DetachInv /\ InfoInv
-----------------------------------------------------------------------------
(* The initial states, and what a step leaves alone. *)

\* The states of a stream.
LEMMA States ==
  ToSet(Order) = {"idle", "init", "dynamic_res_change", "running", "drain", "stopped", "reset", "error"}
<1>1. DOMAIN Order = 1..8
  BY DEF Order
<1> QED
  BY <1>1 DEF Order, ToSet

\* Nothing is open and nothing is owed at first.
LEMMA InvInit == Init => Inv
<1> SUFFICES ASSUME Init PROVE Inv
  OBVIOUS
<1>1. IsFiniteSet(Bufs) /\ Cardinality(Bufs) \in Nat /\ None \notin Streams /\ None # "work"
  BY BaseAssumption, FS_CardinalityType
<1>2. TypeInv
  <2>1. StreamTypes
    <3>1. pc \in [Streams -> {"free", "id", "params", "queues", "fail", "clear_busy", "open", "closing"}]
      BY DEF Init
    <3>2. state \in [Streams -> ToSet(Order)]
      BY States DEF Init
    <3>3. past \in [Streams -> SUBSET Past] /\ draining \in [Streams -> BOOLEAN] /\ streaming \in [Streams -> SUBSET Queues]
      BY DEF Init
    <3>4. opens \in 0..MaxOpens /\ calls \in 0..MaxCalls /\ posted \in 0..MaxEvents
      BY BaseAssumption DEF Init
    <3>5. dev \in Devs /\ busy \in BOOLEAN
      BY DEF Init
    <3> QED
      BY <3>1, <3>2, <3>3, <3>4, <3>5 DEF StreamTypes
  <2>2. FormatTypes
    BY DEF Init, FormatTypes, NoInfo, Format, Names
  <2>3. BufTypes
    BY BaseAssumption DEF Init, BufTypes
  <2>4. CallTypes
    BY DEF Init, CallTypes, Call, QueueCall, Handling, NoOp, NoEvent
  <2> QED
    BY <2>1, <2>2, <2>3, <2>4 DEF TypeInv
<1>3. IopInv /\ QopInv /\ LockInv
  BY <1>1 DEF Init, IopInv, QopInv, LockInv, NoOp, NoEvent
<1>4. StaleInv /\ CameraInv /\ KnownInv
  BY DEF Init, StaleInv, CameraInv, KnownInv, NoEvent
<1>5. RidInv
  BY DEF Init, RidInv, RidsExact
<1>6. DrainInv /\ ActiveOwed /\ OwedInv
  BY DEF Init, DrainInv, ActiveOwed, OwedInv, NoOp
<1>7. ActiveInv /\ ListInv /\ DetachInv
  BY DEF Init, ActiveInv, ListInv, DetachInv, FreedDetached, NoOp, ToSet
<1>8. InfoInv
  BY DEF Init, InfoInv
<1> QED
  BY <1>2, <1>3, <1>4, <1>5, <1>6, <1>7, <1>8 DEF Inv

\* An open leaves the buffers, the ioctls and the work item alone.
LEMMA OpeningFrame ==
  ASSUME TypeInv, NEW s \in Streams, Opening(s)
  PROVE  /\ UNCHANGED <<dev, bst, rid, resource_idr, attached, owed, pending_buf_list, unsent, early,
                        vd, iop, qop, streaming, events, wk, posted, calls>>
         /\ \A t \in Streams : t # s =>
              pc'[t] = pc[t] /\ past'[t] = past[t] /\ state'[t] = state[t] /\ draining'[t] = draining[t]
              /\ info'[t] = info[t] /\ params'[t] = params[t]
<1> USE DEF TypeInv, StreamTypes, FormatTypes, bufVars, infoVars, evVars, countVars, GoTo, Free, Note
<1>1. CASE OpenBusy(s) \/ OpenCreate(s)
  BY <1>1 DEF OpenBusy, OpenCreate
<1>2. CASE OpenParams(s) \/ OpenQueues(s)
  BY <1>2 DEF OpenParams, OpenQueues
<1>3. CASE OpenFail(s) \/ OpenClearBusy(s)
  BY <1>3 DEF OpenFail, OpenClearBusy
<1> QED
  BY <1>1, <1>2, <1>3 DEF Opening

\* An ioctl under video_dev->lock leaves the buffers and the opens alone.
LEMMA CallingFrame ==
  ASSUME TypeInv, NEW s \in Streams, Calling(s)
  PROVE  /\ UNCHANGED <<dev, busy, pc, streaming, bst, rid, resource_idr, attached, owed,
                        pending_buf_list, unsent, early, qop, events, wk, posted, opens>>
         /\ \A t \in Streams : t # s =>
              past'[t] = past[t] /\ state'[t] = state[t] /\ draining'[t] = draining[t]
              /\ info'[t] = info[t] /\ params'[t] = params[t] /\ iop'[t] = iop[t]
<1> USE DEF TypeInv, StreamTypes, FormatTypes, CallTypes, bufVars, infoVars, evVars, countVars, Rest,
            Note, NoNote, NoteFailure, IGo, IEnd, Update
<1>1. CASE SFmt(s) \/ SParm(s) \/ SSelection(s) \/ GFmt(s) \/ Cmd(s)
  BY <1>1 DEF SFmt, SParm, SSelection, GFmt, Cmd, Enter
<1>2. CASE SetParams(s)
  BY <1>2 DEF SetParams, Setting
<1>3. CASE GetIn(s) \/ GetOut(s)
  BY <1>3 DEF GetIn, GetOut, GetParams, Get
<1>4. CASE Test(s) \/ SetInit(s) \/ Start(s) \/ Drain(s) \/ SetDrain(s)
  BY <1>4 DEF Test, SetInit, Start, Drain, SetDrain
<1>5. CASE Crop(s)
  BY <1>5 DEF Crop, Setting
<1>6. CASE CropGet(s)
  BY <1>6 DEF CropGet, Get
<1> QED
  BY <1>1, <1>2, <1>3, <1>4, <1>5, <1>6 DEF Calling

\* A queue ioctl leaves the formats, the lock, the work item and other streams alone.
LEMMA QueueFrame ==
  ASSUME TypeInv, NEW s \in Streams, Queueing(s) \/ (QueueStep(s) /\ ~CloseFree(s))
  PROVE  /\ UNCHANGED <<dev, busy, pc, info, params, vd, iop, events, wk, posted, opens, calls>>
         /\ \A t \in Streams : t # s =>
              past'[t] = past[t] /\ state'[t] = state[t] /\ draining'[t] = draining[t]
              /\ streaming'[t] = streaming[t] /\ qop'[t] = qop[t]
<1> USE DEF TypeInv, StreamTypes, CallTypes, QRest, infoVars, evVars, countVars, bufVars,
            QGo, QEnd, QBegin, Note, NoNote, Update
<1>1. CASE \E b \in Bufs : StreamOf[b] = s /\ (BufInit(b) \/ QBuf(b) \/ DQBuf(b))
  BY <1>1 DEF BufInit, QBuf, DQBuf
<1>2. CASE \E q \in Queues : StreamOn(s, q) \/ StreamOff(s, q) \/ ReqBufs(s, q)
  BY <1>2 DEF StreamOn, StreamOff, ReqBufs
<1>3. CASE QBufQueue(s) \/ StartRefused(s) \/ StartTest(s) \/ StartRun(s)
  BY <1>3 DEF QBufQueue, StartRefused, StartTest, StartRun, On
<1>4. CASE StopClear(s) \/ StopPop(s) \/ StopWait(s) \/ StopCancel(s)
  BY <1>4 DEF StopClear, StopPop, StopWait, StopCancel, Cleared
<1>5. CASE Detach(s) \/ Cleanup(s)
  BY <1>5 DEF Detach, Cleanup
<1> QED
  BY <1>1, <1>2, <1>3, <1>4, <1>5 DEF Queueing, QueueStep

\* The work item leaves opens, ioctls and the back end's formats alone.
LEMMA WorkFrame ==
  ASSUME Work
  PROVE  UNCHANGED <<dev, busy, pc, params, streaming, rid, resource_idr, attached, owed,
                     pending_buf_list, unsent, iop, qop, posted, opens, calls>>
<1> USE DEF WorkRest, infoVars, evVars, countVars, bufVars
<1>1. CASE WorkFind \/ WorkStale
  BY <1>1 DEF WorkFind, WorkStale
<1>2. CASE WorkResolution
  BY <1>2 DEF WorkResolution
<1>3. CASE WorkTest \/ WorkSet \/ WorkError
  BY <1>3 DEF WorkTest, WorkSet, WorkError
<1>4. CASE WorkClear("in") \/ WorkClear("out") \/ WorkPop
  BY <1>4 DEF WorkClear, WorkPop, Pop
<1> QED
  BY <1>1, <1>2, <1>3, <1>4 DEF Work

\* The back end answers, or sends an event.
LEMMA BackEndFrame ==
  ASSUME BackEnd
  PROVE  UNCHANGED <<dev, busy, pc, info, streaming, rid, resource_idr, attached, unsent, vd, iop, qop,
                     wk, opens, calls>>
BY DEF BackEnd, Answer, AnswerEos, BufDone, Post, infoVars, evVars, countVars, bufVars

\* The kinds of steps the proofs split on.
LEMMA Steps ==
  ASSUME [Next]_vars
  PROVE  \/ \E s \in Streams : \/ Opening(s) \/ Calling(s) \/ Close(s) \/ CloseFree(s)
                               \/ Queueing(s) \/ (QueueStep(s) /\ ~CloseFree(s))
         \/ Work \/ BackEnd \/ UNCHANGED vars
BY DEF Next, QueueStep

-----------------------------------------------------------------------------
(* Ids. *)

\* While a buffer has no id, idr_alloc finds one: fewer are used than there are buffers.
LEMMA FreeId ==
  ASSUME BufTypes, RidInv, NEW b \in Bufs, bst[b] = "none"
  PROVE  /\ LowestFree \in Ids \ resource_idr
         /\ LowestFree # None
<1>1. IsFiniteSet(Bufs) /\ Cardinality(Bufs) \in Nat /\ None \notin Ids
  BY BaseAssumption, FS_CardinalityType DEF Ids
<1>2. Ids \ resource_idr # {}
  <2> SUFFICES ASSUME Ids \subseteq resource_idr PROVE FALSE
    OBVIOUS
  <2> DEFINE f == [i \in Ids |-> CHOOSE c \in Bufs \ {b} : rid[c] = i]
  <2>1. \A i \in Ids : f[i] \in Bufs \ {b} /\ rid[f[i]] = i
    <3> TAKE i \in Ids
    <3>1. \E c \in Bufs \ {b} : rid[c] = i
      BY DEF RidInv, RidsExact
    <3> QED
      BY <3>1
  <2>2. f \in [Ids -> Bufs \ {b}]
    BY <2>1
  <2>3. IsFiniteSet(Bufs \ {b}) /\ Cardinality(Bufs \ {b}) = Cardinality(Bufs) - 1
    BY <1>1, FS_RemoveElement
  <2>4. IsFiniteSet(Ids) /\ Cardinality(Ids) = Cardinality(Bufs)
    <3>1. Cardinality(Ids) = IF 1 > Cardinality(Bufs) THEN 0 ELSE Cardinality(Bufs) - 1 + 1
      BY <1>1, FS_Interval DEF Ids
    <3> QED
      BY <1>1, <3>1, FS_Interval DEF Ids
  <2> HIDE DEF f
  <2>5. \E i, j \in Ids : i # j /\ f[i] = f[j]
    <3>1. Cardinality(Bufs \ {b}) < Cardinality(Ids)
      BY <1>1, <2>3, <2>4
    <3> QED
      BY <2>2, <2>3, <2>4, <3>1, FS_PigeonHole
  <2> QED
    BY <2>1, <2>5
<1>3. \E i \in Ids \ resource_idr : \A j \in Ids \ resource_idr : i <= j
  <2>1. Ids \ resource_idr \in SUBSET Nat
    BY <1>1 DEF Ids
  <2> QED
    BY <1>2, <2>1, LowestExists, Zenon
<1> QED
  BY <1>1, <1>3 DEF LowestFree

\* The ids in use stay those of the initialised buffers.
LEMMA RidStep ==
  ASSUME TypeInv, QopInv, RidInv, [Next]_vars
  PROVE  RidInv'
<1> DEFINE Same == UNCHANGED <<rid, resource_idr>> /\ \A b \in Bufs : (bst'[b] = "none") <=> (bst[b] = "none")
<1>1. ASSUME Same PROVE RidInv'
  <2>1. {c \in Bufs : bst'[c] # "none"} = {c \in Bufs : bst[c] # "none"}
    BY <1>1
  <2> QED
    BY <1>1, <2>1 DEF RidInv, RidsExact
<1>2. ASSUME NEW s \in Streams, Opening(s) \/ Calling(s) \/ Close(s) \/ CloseFree(s) PROVE Same
  BY <1>2, OpeningFrame, CallingFrame DEF Close, CloseFree, bufVars
<1>3. ASSUME NEW b \in Bufs, BufInit(b) PROVE RidInv'
  <2>1. CASE UNCHANGED <<bst, rid, resource_idr>>
    BY <2>1, <1>1
  <2>2. CASE /\ bst' = [bst EXCEPT ![b] = "user"] /\ rid' = [rid EXCEPT ![b] = LowestFree]
             /\ resource_idr' = resource_idr \cup {LowestFree}
    <3>1. bst[b] = "none"
      BY <1>3 DEF BufInit
    <3>2. LowestFree \in Ids \ resource_idr /\ LowestFree # None
      BY <3>1, FreeId DEF TypeInv
    <3> HIDE DEF LowestFree
    <3>3. {c \in Bufs : bst'[c] # "none"} = {c \in Bufs : bst[c] # "none"} \cup {b}
      BY <2>2 DEF TypeInv, BufTypes
    <3>4. rid'[b] = LowestFree /\ \A c \in Bufs \ {b} : rid'[c] = rid[c] /\ bst'[c] = bst[c]
      BY <2>2 DEF TypeInv, BufTypes
    <3>5. resource_idr' = {rid'[c] : c \in {a \in Bufs : bst'[a] # "none"}}
      BY <2>2, <3>1, <3>3, <3>4 DEF RidInv, RidsExact
    <3>6. \A c \in Bufs : bst[c] # "none" => rid[c] # LowestFree
      BY <3>2 DEF RidInv, RidsExact
    <3>7. bst'[b] = "user"
      BY <2>2 DEF TypeInv, BufTypes
    <3>8. \A a, c \in Bufs : a # c /\ bst'[a] # "none" /\ bst'[c] # "none" => rid'[a] # rid'[c]
      BY <3>4, <3>6, <3>7 DEF RidInv, RidsExact
    <3>9. \A c \in Bufs : (bst'[c] = "none") <=> (rid'[c] = None)
      BY <3>2, <3>4, <3>7 DEF RidInv
    <3> QED
      BY <3>5, <3>8, <3>9 DEF RidInv, RidsExact
  <2> QED
    BY <1>3, <2>1, <2>2 DEF BufInit
<1>4. ASSUME NEW s \in Streams, Cleanup(s) PROVE RidInv'
  <2> DEFINE B == BufsOf(s, qop[s].q)
  <2>1. /\ \A c \in Bufs : bst'[c] = IF c \in B THEN "none" ELSE bst[c]
        /\ \A c \in Bufs : rid'[c] = IF c \in B THEN None ELSE rid[c]
        /\ resource_idr' = resource_idr \ {rid[c] : c \in B} /\ B \subseteq Bufs
    BY <1>4 DEF Cleanup, BufsOf
  <2> HIDE DEF B
  <2>2. \A a \in B, c \in Bufs \ B : bst[c] # "none" => rid[c] # rid[a]
    BY <2>1 DEF RidInv, RidsExact
  <2>3. \A i : i \in resource_idr' <=> \E c \in Bufs \ B : bst[c] # "none" /\ i = rid[c]
    BY <2>1, <2>2 DEF RidInv, RidsExact
  <2>4. resource_idr' = {rid'[c] : c \in {a \in Bufs : bst'[a] # "none"}}
    BY <2>1, <2>3
  <2>5. \A a, c \in Bufs : a # c /\ bst'[a] # "none" /\ bst'[c] # "none" => rid'[a] # rid'[c]
    BY <2>1 DEF RidInv, RidsExact
  <2>6. \A c \in Bufs : (bst'[c] = "none") <=> (rid'[c] = None)
    BY <2>1 DEF RidInv
  <2> QED
    BY <2>4, <2>5, <2>6 DEF RidInv, RidsExact
<1>5. ASSUME NEW b \in Bufs, QBuf(b) \/ DQBuf(b) PROVE Same
  BY <1>5 DEF QBuf, DQBuf, bufVars, TypeInv, BufTypes
<1>6. ASSUME NEW s \in Streams, NEW q \in Queues, StreamOn(s, q) \/ StreamOff(s, q) \/ ReqBufs(s, q) PROVE Same
  BY <1>6 DEF StreamOn, StreamOff, ReqBufs, bufVars, TypeInv, BufTypes, Enqueue, BufsOf
<1>7. ASSUME NEW s \in Streams, QBufQueue(s) \/ StartRefused(s) \/ StartTest(s) \/ StartRun(s) PROVE Same
  <2>1. QAt(s, "queue") => qop[s].v \in Bufs /\ bst[qop[s].v] = "user"
    BY DEF QopInv, QAt, BufsOf
  <2>2. CASE QBufQueue(s)
    BY <2>1, <2>2 DEF QBufQueue, Enqueue, TypeInv, BufTypes
  <2>3. CASE StartRefused(s)
    BY <2>3 DEF StartRefused, TypeInv, BufTypes, BufsOf
  <2> QED
    BY <1>7, <2>2, <2>3 DEF StartTest, StartRun, bufVars
<1>8. ASSUME NEW s \in Streams, StopClear(s) \/ StopWait(s) \/ StopCancel(s) \/ Detach(s) PROVE Same
  BY <1>8 DEF StopClear, StopWait, StopCancel, Detach, bufVars, TypeInv, BufTypes, BufsOf
<1>9. ASSUME Pop PROVE Same
  BY <1>9 DEF Pop, TypeInv, BufTypes
<1>10. ASSUME NEW s \in Streams, StopPop(s) PROVE Same
  BY <1>9, <1>10 DEF StopPop, bufVars
<1>11. ASSUME Work PROVE Same
  <2>1. CASE WorkPop
    BY <1>9, <2>1 DEF WorkPop, bufVars
  <2> QED
    BY <1>11, <2>1 DEF Work, WorkFind, WorkResolution, WorkTest, WorkSet, WorkError, WorkClear, WorkStale, bufVars
<1>12. ASSUME BackEnd PROVE Same
  BY <1>12 DEF BackEnd, Answer, AnswerEos, BufDone, Post, bufVars, TypeInv, BufTypes
<1>13. CASE UNCHANGED vars
  BY <1>13, <1>1 DEF vars, bufVars
<1> HIDE DEF Same
<1> QED
  BY <1>1, <1>2, <1>3, <1>4, <1>5, <1>6, <1>7, <1>8, <1>10, <1>11, <1>12, <1>13 DEF Next, Queueing, QueueStep

-----------------------------------------------------------------------------
(* Streams, the camera and the locks. *)

\* A camera keeps its one user.
LEMMA CameraStep ==
  ASSUME TypeInv, QopInv, CameraInv, [Next]_vars
  PROVE  CameraInv'
<1> USE DEF TypeInv, StreamTypes, CameraInv, IsM2m, GoTo
<1>1. ASSUME NEW s \in Streams, Opening(s) PROVE CameraInv'
  <2>1. CASE OpenBusy(s)
    BY <2>1 DEF OpenBusy
  <2>2. CASE OpenCreate(s) \/ OpenParams(s) \/ OpenQueues(s) \/ OpenFail(s)
    BY <2>2 DEF OpenCreate, OpenParams, OpenQueues, OpenFail
  <2>3. CASE OpenClearBusy(s)
    BY <2>3 DEF OpenClearBusy
  <2> QED
    BY <1>1, <2>1, <2>2, <2>3 DEF Opening
<1>2. ASSUME NEW s \in Streams, Close(s) PROVE CameraInv'
  BY <1>2 DEF Close, QBegin
<1>3. ASSUME NEW s \in Streams, CloseFree(s) PROVE CameraInv'
  <2>1. pc[s] # "free"
    BY <1>3 DEF CloseFree, QAt, QopInv, NoOp
  <2> QED
    BY <1>3, <2>1 DEF CloseFree
<1>4. ASSUME UNCHANGED <<dev, busy, pc>> PROVE CameraInv'
  BY <1>4
<1>5. CASE UNCHANGED vars
  BY <1>4, <1>5 DEF vars
<1> HIDE DEF TypeInv, StreamTypes, CameraInv, IsM2m, GoTo
<1> QED
  BY Steps, CallingFrame, QueueFrame, WorkFrame, BackEndFrame, <1>1, <1>2, <1>3, <1>4, <1>5

\* A format is set: the other queue of an encoder or a camera keeps its own.
LEMMA BackEndTakes ==
  ASSUME TypeInv, NEW s \in Streams, params[s] # None, NEW q \in Names, NEW f \in Fmts \cup {None}, Setting(s, q, f)
  PROVE  /\ params' \in [Streams -> [Names -> Format] \cup {None}]
         /\ params'[s] # None
         /\ \A t \in Streams : t # s => params'[t] = params[t]
         /\ q = "out" => params'[s]["in"] = params[s]["in"]
         /\ q = "in" /\ dev # "dec" => params'[s]["out"] = params[s]["out"]
<1>1. PICK g \in Fmts :
        params' = [params EXCEPT ![s][q].fmt = f,
                                 ![s]["out"].fmt = IF dev = "dec" THEN g ELSE IF q = "out" THEN f ELSE @]
  BY DEF Setting
<1>2. params[s] \in [Names -> Format]
  BY DEF TypeInv, FormatTypes
<1> DEFINE p == [params[s] EXCEPT ![q].fmt = f]
           r == [p EXCEPT !["out"].fmt = IF dev = "dec" THEN g ELSE IF q = "out" THEN f ELSE @]
<1>3. p \in [Names -> Format] /\ \A n \in Names : n # q => p[n] = params[s][n]
  BY <1>2 DEF Format
<1>4. p[q].fmt = f
  BY <1>2 DEF Format
<1> HIDE DEF p
<1>5. r \in [Names -> Format] /\ r["in"] = p["in"]
  BY <1>3 DEF Format, Names
<1>6. dev # "dec" => r["out"] = p["out"]
  <2>1. p["out"] \in Format
    BY <1>3 DEF Names
  <2>2. dev # "dec" /\ q = "out" => r["out"] = p["out"]
    BY <1>3, <1>4, <2>1 DEF Format, Names
  <2>3. dev # "dec" /\ q = "in" => r["out"] = p["out"]
    BY <1>3, <2>1 DEF Format, Names
  <2> QED
    BY <2>2, <2>3 DEF Names
<1>7. params' = [params EXCEPT ![s] = r]
  BY <1>1 DEF p, TypeInv, FormatTypes
<1> HIDE DEF r
<1>8. None \notin [Names -> Format]
  BY BaseAssumption DEF Names
<1> QED
  BY <1>3, <1>5, <1>6, <1>7, <1>8 DEF TypeInv, FormatTypes, Names

\* What GET_PARAMS brings is a format.
LEMMA GetTypes ==
  ASSUME TypeInv, NEW s \in Streams, NEW q \in Names, Get(s, q) \/ UNCHANGED info
  PROVE  info' \in [Streams -> [Names -> Format]]
<1>1. CASE Get(s, q)
  <2>1. params[s] \in [Names -> Format]
    BY <1>1 DEF Get, TypeInv, FormatTypes
  <2> QED
    BY <1>1, <2>1 DEF Get, TypeInv, FormatTypes
<1> QED
  BY <1>1 DEF TypeInv, FormatTypes

\* The formats stay formats, and the back end goes on knowing a stream until its release is over.
LEMMA FormatStep ==
  ASSUME TypeInv, IopInv, QopInv, LockInv, KnownInv, [Next]_vars
  PROVE  FormatTypes' /\ KnownInv'
<1> DEFINE Goal == FormatTypes' /\ KnownInv'
<1>0. None \notin [Names -> Format] /\ Names = {"in", "out"} /\ Queues \subseteq Names
  BY BaseAssumption DEF Names, Queues
<1>1. ASSUME NEW s \in Streams, Opening(s) PROVE Goal
  <2>1. CASE OpenBusy(s) \/ OpenQueues(s) \/ OpenClearBusy(s)
    BY <2>1 DEF OpenBusy, OpenQueues, OpenClearBusy, TypeInv, FormatTypes, StreamTypes, KnownInv, GoTo, infoVars
  <2>2. CASE OpenCreate(s)
    <3>1. ASSUME NEW f \in [{"in", "out"} -> Fmts],
                 params' = [params EXCEPT ![s] = [q \in {"in", "out"} |-> [fmt |-> f[q], crop |-> FALSE]]]
          PROVE  FormatTypes'
      <4>1. [q \in {"in", "out"} |-> [fmt |-> f[q], crop |-> FALSE]] \in [Names -> Format]
        BY <1>0 DEF Format
      <4> QED
        BY <2>2, <3>1, <4>1 DEF OpenCreate, TypeInv, FormatTypes
    <3>2. ASSUME UNCHANGED params, GoTo(s, "fail") PROVE KnownInv'
      BY <2>2, <3>2 DEF TypeInv, StreamTypes, KnownInv, GoTo
    <3>3. ASSUME NEW f \in [{"in", "out"} -> Fmts],
                 params' = [params EXCEPT ![s] = [q \in {"in", "out"} |-> [fmt |-> f[q], crop |-> FALSE]]],
                 GoTo(s, "params")
          PROVE  KnownInv'
      <4>1. [q \in {"in", "out"} |-> [fmt |-> f[q], crop |-> FALSE]] \in [Names -> Format]
        BY <1>0 DEF Format
      <4>2. params'[s] # None
        BY <1>0, <3>3, <4>1 DEF TypeInv, FormatTypes
      <4> QED
        BY <3>3, <4>2 DEF TypeInv, StreamTypes, FormatTypes, KnownInv, GoTo
    <3>4. UNCHANGED params => FormatTypes'
      BY <2>2 DEF OpenCreate, TypeInv, FormatTypes
    <3> QED
      BY <2>2, <3>1, <3>2, <3>3, <3>4 DEF OpenCreate
  <2>3. CASE OpenParams(s)
    <3>1. params[s] \in [Names -> Format]
      BY <2>3, <1>0 DEF OpenParams, KnownInv, TypeInv, FormatTypes
    <3>2. FormatTypes'
      BY <1>0, <2>3, <3>1 DEF OpenParams, TypeInv, FormatTypes
    <3>3. KnownInv'
      BY <2>3 DEF OpenParams, TypeInv, StreamTypes, KnownInv, GoTo
    <3> QED
      BY <3>2, <3>3
  <2>4. CASE OpenFail(s)
    <3>1. FormatTypes'
      BY <1>0, <2>4 DEF OpenFail, Free, TypeInv, FormatTypes, NoInfo, Format
    <3>2. KnownInv'
      BY <2>4 DEF OpenFail, TypeInv, StreamTypes, KnownInv, GoTo
    <3> QED
      BY <3>1, <3>2
  <2> QED
    BY <1>1, <2>1, <2>2, <2>3, <2>4 DEF Opening
<1>2. ASSUME NEW s \in Streams, Calling(s) PROVE Goal
  <2>0. UNCHANGED pc
    BY <1>2, CallingFrame
  <2>1. iop[s].at # "none" => params[s] # None /\ iop[s].q \in Names /\ iop[s].v \in Fmts \cup {None}
    <3>1. iop[s] \in Call
      BY DEF TypeInv, CallTypes
    <3>2. iop[s].at # "none" => pc[s] = "open" /\ iop[s].q \in Queues
      BY DEF IopInv, NoOp
    <3> QED
      BY <1>0, <3>1, <3>2 DEF KnownInv, Call
  <2>2. CASE \/ SFmt(s) \/ SParm(s) \/ SSelection(s) \/ GFmt(s) \/ Cmd(s) \/ Test(s) \/ SetInit(s) \/ Start(s)
             \/ Drain(s) \/ SetDrain(s)
    <3>1. UNCHANGED <<info, params>>
      BY <2>2 DEF SFmt, SParm, SSelection, GFmt, Cmd, Enter, Test, SetInit, Start, Drain, SetDrain, infoVars
    <3> QED
      BY <2>0, <3>1 DEF TypeInv, FormatTypes, KnownInv
  <2>3. CASE SetParams(s)
    <3>1. UNCHANGED info
      BY <2>3 DEF SetParams
    <3>2. CASE Setting(s, iop[s].q, iop[s].v)
      <4>1. /\ params' \in [Streams -> [Names -> Format] \cup {None}] /\ params'[s] # None
            /\ \A t \in Streams : t # s => params'[t] = params[t]
        BY <2>1, <2>3, <3>2, BackEndTakes DEF SetParams, IAt
      <4> QED
        BY <2>0, <3>1, <4>1 DEF TypeInv, FormatTypes, KnownInv
    <3>3. CASE UNCHANGED params
      BY <2>0, <3>1, <3>3 DEF TypeInv, FormatTypes, KnownInv
    <3> QED
      BY <2>3, <3>2, <3>3 DEF SetParams
  <2>4. CASE GetIn(s) \/ GetOut(s)
    <3>1. UNCHANGED params
      BY <2>4 DEF GetIn, GetOut
    <3>2. Get(s, "in") \/ Get(s, "out") \/ UNCHANGED info
      BY <2>4 DEF GetIn, GetOut, GetParams
    <3>3. info' \in [Streams -> [Names -> Format]]
      BY <1>0, <3>2, GetTypes
    <3> QED
      BY <2>0, <3>1, <3>3 DEF TypeInv, FormatTypes, KnownInv
  <2>5. CASE Crop(s)
    <3> DEFINE q == iop[s].q
    <3>1. q \in Names /\ params[s] # None
      BY <2>1, <2>5 DEF Crop, IAt
    <3>2. info[s][q] \in Format
      BY <3>1 DEF TypeInv, FormatTypes
    <3>3. info' \in [Streams -> [Names -> Format]]
      BY <2>5, <3>1, <3>2 DEF Crop, TypeInv, FormatTypes, Format
    <3>4. info[s][q].fmt \in Fmts \cup {None}
      BY <3>2 DEF Format
    <3>5. CASE Setting(s, q, info[s][q].fmt)
      <4>1. /\ params' \in [Streams -> [Names -> Format] \cup {None}] /\ params'[s] # None
            /\ \A t \in Streams : t # s => params'[t] = params[t]
        BY <3>1, <3>4, <3>5, BackEndTakes
      <4> QED
        BY <2>0, <3>3, <4>1 DEF TypeInv, FormatTypes, KnownInv
    <3>6. CASE UNCHANGED params
      BY <2>0, <3>3, <3>6 DEF TypeInv, FormatTypes, KnownInv
    <3> QED
      BY <2>5, <3>5, <3>6 DEF Crop
  <2>6. CASE CropGet(s)
    <3>1. UNCHANGED params
      BY <2>6 DEF CropGet
    <3>2. Get(s, iop[s].q) \/ UNCHANGED info
      BY <2>6 DEF CropGet
    <3>3. info' \in [Streams -> [Names -> Format]]
      BY <2>1, <2>6, <3>2, GetTypes DEF CropGet, IAt
    <3> QED
      BY <2>0, <3>1, <3>3 DEF TypeInv, FormatTypes, KnownInv
  <2> QED
    BY <1>2, <2>2, <2>3, <2>4, <2>5, <2>6 DEF Calling
<1>3. ASSUME NEW s \in Streams, Close(s) PROVE Goal
  BY <1>3 DEF Close, QBegin, infoVars, TypeInv, FormatTypes, StreamTypes, KnownInv, GoTo
<1>4. ASSUME NEW s \in Streams, CloseFree(s) PROVE Goal
  <2>1. FormatTypes'
    BY <1>0, <1>4 DEF CloseFree, Free, TypeInv, FormatTypes, NoInfo, Format
  <2>2. KnownInv'
    BY <1>4 DEF CloseFree, TypeInv, FormatTypes, StreamTypes, KnownInv, GoTo
  <2> QED
    BY <2>1, <2>2
<1>5. ASSUME UNCHANGED <<pc, info, params>> PROVE Goal
  BY <1>5 DEF TypeInv, FormatTypes, KnownInv
<1>6. ASSUME Work PROVE Goal
  <2>0. UNCHANGED <<pc, params>>
    BY <1>6, WorkFrame
  <2>1. CASE WorkResolution
    <3>1. wk.s \in Streams
      BY <2>1 DEF WorkResolution, WAt, LockInv, NoEvent
    <3>2. Get(wk.s, "out") \/ UNCHANGED info
      BY <2>1 DEF WorkResolution
    <3>3. info' \in [Streams -> [Names -> Format]]
      BY <1>0, <3>1, <3>2, GetTypes
    <3> QED
      BY <2>0, <3>3 DEF TypeInv, FormatTypes, KnownInv
  <2>2. CASE UNCHANGED info
    BY <2>0, <2>2, <1>5
  <2> QED
    BY <1>6, <2>1, <2>2
       DEF Work, WorkFind, WorkTest, WorkSet, WorkError, WorkClear, WorkPop, WorkStale, infoVars
<1>7. ASSUME BackEnd PROVE Goal
  <2>1. UNCHANGED <<pc, info>>
    BY <1>7, BackEndFrame
  <2>2. ASSUME NEW s \in Streams, NEW k \in EventKinds, Post(s, k) PROVE Goal
    <3>1. CASE UNCHANGED params
      BY <2>1, <3>1, <1>5
    <3>2. ASSUME NEW f \in Fmts, params' = [params EXCEPT ![s]["out"].fmt = f] PROVE Goal
      <4>1. params[s] # None /\ params[s] \in [Names -> Format]
        BY <2>2 DEF Post, TypeInv, FormatTypes
      <4> DEFINE r == [params[s] EXCEPT !["out"].fmt = f]
      <4>2. r \in [Names -> Format]
        BY <4>1 DEF Format
      <4>3. params' = [params EXCEPT ![s] = r]
        BY <3>2
      <4> HIDE DEF r
      <4> QED
        BY <1>0, <2>1, <4>2, <4>3 DEF TypeInv, FormatTypes, KnownInv
    <3> QED
      BY <2>2, <3>1, <3>2 DEF Post
  <2>3. ASSUME NEW b \in Bufs, Answer(b) \/ AnswerEos(b) PROVE UNCHANGED params
    BY <2>3 DEF Answer, AnswerEos, BufDone, infoVars
  <2> QED
    BY <1>7, <2>1, <2>2, <2>3, <1>5 DEF BackEnd
<1>8. ASSUME UNCHANGED vars PROVE Goal
  BY <1>8, <1>5 DEF vars, infoVars
<1>9. ASSUME NEW s \in Streams, Queueing(s) \/ (QueueStep(s) /\ ~CloseFree(s)) PROVE Goal
  BY <1>9, <1>5, QueueFrame
<1> HIDE DEF Goal
<1>10. Goal
  BY Steps, <1>1, <1>2, <1>3, <1>4, <1>6, <1>7, <1>8, <1>9
<1> QED
  BY <1>10 DEF Goal

\* An ioctl begins.
LEMMA Entered ==
  ASSUME TypeInv, NEW s \in Streams, NEW kind, NEW at, NEW q, NEW v, Enter(s, kind, at, q, v)
  PROVE  /\ iop'[s] = [at |-> at, kind |-> kind, q |-> q, v |-> v] /\ kind \in Kinds /\ q \in Queues
         /\ pc[s] = "open" /\ vd = None /\ vd' = s
         /\ UNCHANGED <<state, draining, past, info, params>>
BY DEF Enter, TypeInv, CallTypes, infoVars

\* An ioctl has video_dev->lock of an open stream, from its entry to its end.
LEMMA IopStep ==
  ASSUME TypeInv, IopInv, QopInv, LockInv, [Next]_vars
  PROVE  IopInv'
<1>0. \A s \in Streams : vd = None => iop[s] = NoOp
  BY BaseAssumption DEF LockInv
<1>1. ASSUME NEW s \in Streams, Opening(s) PROVE IopInv'
  <2>1. UNCHANGED <<dev, iop>> /\ \A t \in Streams : t # s => pc'[t] = pc[t]
    BY <1>1, OpeningFrame
  <2>2. pc[s] # "open"
    BY <1>1 DEF Opening, OpenBusy, OpenCreate, OpenParams, OpenQueues, OpenFail, OpenClearBusy
  <2> QED
    BY <2>1, <2>2 DEF IopInv, Queues, IsM2m
<1>2. ASSUME NEW s \in Streams, Calling(s) PROVE IopInv'
  <2>1. /\ UNCHANGED <<dev, pc>>
        /\ \A t \in Streams : t # s => iop'[t] = iop[t]
    BY <1>2, CallingFrame
  <2>2. iop[s].at # "none" => iop[s].q \in Queues /\ pc[s] = "open"
    BY DEF IopInv, NoOp
  <2> DEFINE Good == /\ iop'[s] = NoOp \/ (iop'[s].at # "none" /\ iop'[s].q \in Queues /\ pc[s] = "open")
                     /\ iop'[s].at \in {"crop", "get"} => iop'[s].q = IF dev = "enc" THEN "in" ELSE "out"
  <2>3. ASSUME SFmt(s) \/ SParm(s) \/ SSelection(s) \/ GFmt(s) \/ Cmd(s) PROVE Good
    <3>1. ASSUME NEW at \in {"set", "test", "start", "stop", "crop"}, NEW k, NEW q, NEW v, Enter(s, k, at, q, v),
                 at = "crop" => q = IF dev = "enc" THEN "in" ELSE "out"
          PROVE  Good
      <4>1. iop'[s] = [at |-> at, kind |-> k, q |-> q, v |-> v] /\ q \in Queues /\ pc[s] = "open"
        BY <3>1, Entered
      <4>2. iop'[s].at = at /\ iop'[s].q = q
        BY <4>1
      <4> QED
        BY <3>1, <4>1, <4>2
    <3> HIDE DEF Good
    <3>2. SFmt(s) => Good
      BY <3>1 DEF SFmt
    <3>3. SParm(s) => Good
      BY <3>1 DEF SParm
    <3>4. SSelection(s) => Good
      BY <3>1 DEF SSelection
    <3>5. GFmt(s) => Good
      BY <3>1 DEF GFmt
    <3>6. Cmd(s) => Good
      BY <3>1 DEF Cmd
    <3> QED
      BY <2>3, <3>2, <3>3, <3>4, <3>5, <3>6
  <2>4. ASSUME NEW l \in {"get_in", "get_out", "test", "init", "get", "drain"}, IGo(s, l), iop[s].at # "none",
               l = "get" => iop[s].at = "crop"
        PROVE  Good
    <3>1. iop'[s].at = l /\ iop'[s].q = iop[s].q
      BY <2>4 DEF IGo, TypeInv, CallTypes, Call
    <3> QED
      BY <2>2, <2>4, <3>1 DEF IopInv
  <2>5. ASSUME IEnd(s) PROVE Good
    BY <2>5 DEF IEnd, TypeInv, CallTypes, NoOp
  <2> HIDE DEF Good
  <2>6. ASSUME SetParams(s) \/ GetIn(s) \/ GetOut(s) PROVE Good
    BY <2>4, <2>6 DEF SetParams, GetIn, GetOut, GetParams, IAt
  <2>7. ASSUME Test(s) \/ SetInit(s) \/ Crop(s) \/ CropGet(s) PROVE Good
    BY <2>4, <2>5, <2>7 DEF Test, SetInit, Crop, CropGet, IAt
  <2>8. ASSUME Start(s) \/ Drain(s) \/ SetDrain(s) PROVE Good
    BY <2>4, <2>5, <2>8 DEF Start, Drain, SetDrain, IAt
  <2>9. Good
    BY <1>2, <2>3, <2>6, <2>7, <2>8 DEF Calling
  <2> QED
    BY <2>1, <2>9 DEF Good, IopInv, Queues, IsM2m
<1>3. ASSUME NEW s \in Streams, Close(s) PROVE IopInv'
  <2>1. UNCHANGED <<dev, iop>> /\ \A t \in Streams : iop[t] = NoOp
    BY <1>0, <1>3 DEF Close
  <2> QED
    BY <2>1 DEF IopInv, NoOp
<1>4. ASSUME NEW s \in Streams, CloseFree(s) PROVE IopInv'
  <2>1. pc[s] = "closing"
    BY <1>4 DEF CloseFree, QAt, QopInv, NoOp
  <2>2. UNCHANGED <<dev, iop>> /\ \A t \in Streams : t # s => pc'[t] = pc[t]
    BY <1>4 DEF CloseFree, GoTo, TypeInv, StreamTypes
  <2> QED
    BY <2>1, <2>2 DEF IopInv, Queues, IsM2m
<1>5. ASSUME UNCHANGED <<dev, pc, iop>> PROVE IopInv'
  BY <1>5 DEF IopInv, Queues, IsM2m
<1>6. ASSUME NEW s \in Streams, Queueing(s) \/ (QueueStep(s) /\ ~CloseFree(s)) PROVE IopInv'
  BY <1>6, <1>5, QueueFrame
<1>7. ASSUME Work \/ BackEnd PROVE IopInv'
  BY <1>7, <1>5, WorkFrame, BackEndFrame
<1>8. CASE UNCHANGED vars
  BY <1>8, <1>5 DEF vars
<1> QED
  BY Steps, <1>1, <1>2, <1>3, <1>4, <1>6, <1>7, <1>8

\* What an ioctl does to video_dev->lock.
LEMMA CallingLock ==
  ASSUME TypeInv, LockInv, NEW s \in Streams, Calling(s)
  PROVE  \/ vd = None /\ vd' = s /\ iop'[s] # NoOp /\ pc[s] = "open"
         \/ vd = s /\ vd' = s /\ iop[s] # NoOp /\ iop'[s] # NoOp
         \/ vd = s /\ vd' = None /\ iop[s] # NoOp /\ iop'[s] = NoOp
<1> DEFINE Goal == \/ vd = None /\ vd' = s /\ iop'[s] # NoOp /\ pc[s] = "open"
                   \/ vd = s /\ vd' = s /\ iop[s] # NoOp /\ iop'[s] # NoOp
                   \/ vd = s /\ vd' = None /\ iop[s] # NoOp /\ iop'[s] = NoOp
<1>1. ASSUME NEW l \in {"get_in", "get_out", "test", "init", "get", "drain"}, IGo(s, l), iop[s].at # "none"
      PROVE  Goal
  <2>1. iop'[s].at = l /\ vd' = vd /\ iop[s] # NoOp
    BY <1>1 DEF IGo, TypeInv, CallTypes, Call, NoOp
  <2> QED
    BY <2>1 DEF LockInv, NoOp
<1>2. ASSUME IEnd(s), iop[s].at # "none" PROVE Goal
  BY <1>2 DEF IEnd, TypeInv, CallTypes, NoOp, LockInv
<1>3. ASSUME NEW at \in {"set", "test", "start", "stop", "crop"}, NEW k, NEW q, NEW v, Enter(s, k, at, q, v)
      PROVE  Goal
  <2>1. iop'[s] = [at |-> at, kind |-> k, q |-> q, v |-> v] /\ vd = None /\ vd' = s /\ pc[s] = "open"
    BY <1>3, Entered
  <2>2. iop'[s].at # "none"
    BY <2>1
  <2>3. iop'[s] # NoOp
    BY <2>2 DEF NoOp
  <2> QED
    BY <2>1, <2>3
<1> HIDE DEF Goal
<1>4. ASSUME SFmt(s) \/ SParm(s) \/ SSelection(s) \/ GFmt(s) PROVE Goal
  BY <1>3, <1>4 DEF SFmt, SParm, SSelection, GFmt
<1>5. ASSUME Cmd(s) PROVE Goal
  BY <1>3, <1>5 DEF Cmd
<1>6. ASSUME SetParams(s) \/ GetIn(s) \/ GetOut(s) PROVE Goal
  BY <1>1, <1>6 DEF SetParams, GetIn, GetOut, GetParams, IAt
<1>7. ASSUME Test(s) \/ SetInit(s) \/ Crop(s) \/ CropGet(s) PROVE Goal
  BY <1>1, <1>2, <1>7 DEF Test, SetInit, Crop, CropGet, IAt
<1>8. ASSUME Start(s) \/ Drain(s) \/ SetDrain(s) PROVE Goal
  BY <1>1, <1>2, <1>8 DEF Start, Drain, SetDrain, IAt
<1> QED
  BY <1>4, <1>5, <1>6, <1>7, <1>8 DEF Calling, Goal

\* What the work item does to it: it takes it for a stream in the idr, and keeps it to its end.
LEMMA WorkLock ==
  ASSUME TypeInv, LockInv, Work
  PROVE  \/ UNCHANGED <<wk, vd>>
         \/ wk = NoEvent /\ vd = None /\ vd' = "work" /\ wk'.s \in Streams /\ InIdr(wk'.s) /\ wk'.at \in EventKinds
         \/ vd = "work" /\ wk # NoEvent /\ vd' = "work" /\ wk'.s = wk.s /\ wk'.at \notin {"none", "resolution", "error"}
         \/ vd = "work" /\ wk # NoEvent /\ vd' = None /\ wk' = NoEvent
<1> DEFINE Goal ==
      \/ UNCHANGED <<wk, vd>>
      \/ wk = NoEvent /\ vd = None /\ vd' = "work" /\ wk'.s \in Streams /\ InIdr(wk'.s) /\ wk'.at \in EventKinds
      \/ vd = "work" /\ wk # NoEvent /\ vd' = "work" /\ wk'.s = wk.s /\ wk'.at \notin {"none", "resolution", "error"}
      \/ vd = "work" /\ wk # NoEvent /\ vd' = None /\ wk' = NoEvent
<1>0. wk # NoEvent => vd = "work"
  BY DEF LockInv
<1>1. ASSUME NEW l \in {"test", "set", "in", "out", "pop"}, WGo(l), wk # NoEvent PROVE Goal
  <2>1. wk'.at = l /\ wk'.s = wk.s /\ vd' = vd
    BY <1>1 DEF WGo, TypeInv, CallTypes, Handling
  <2>2. l \notin {"none", "resolution", "error"}
    OBVIOUS
  <2> QED
    BY <1>0, <1>1, <2>1, <2>2
<1>2. ASSUME WEnd, wk # NoEvent PROVE Goal
  BY <1>2 DEF WEnd, LockInv
<1>3. ASSUME WorkFind PROVE Goal
  <2>1. PICK e \in events : IF InIdr(e[1])
          THEN wk' = [at |-> e[2], s |-> e[1], k |-> e[2]] /\ vd' = "work"
          ELSE UNCHANGED <<wk, vd>>
    BY <1>3 DEF WorkFind
  <2>2. e[1] \in Streams /\ e[2] \in EventKinds
    BY DEF TypeInv, CallTypes
  <2>3. wk = NoEvent /\ vd = None
    BY <1>3 DEF WorkFind
  <2>4. CASE InIdr(e[1])
    <3>1. wk' = [at |-> e[2], s |-> e[1], k |-> e[2]] /\ vd' = "work"
      BY <2>1, <2>4
    <3>2. wk'.s = e[1] /\ wk'.at = e[2]
      BY <3>1
    <3> QED
      BY <2>2, <2>3, <2>4, <3>1, <3>2
  <2>5. CASE ~InIdr(e[1])
    BY <2>1, <2>5
  <2> QED
    BY <2>4, <2>5
<1>4. \A l : l # "none" /\ WAt(l) => wk # NoEvent
  BY DEF WAt, NoEvent
<1> HIDE DEF Goal
<1>5. ASSUME WorkResolution PROVE Goal
  BY <1>1, <1>4, <1>5 DEF WorkResolution
<1>6. ASSUME WorkTest PROVE Goal
  BY <1>1, <1>2, <1>4, <1>6 DEF WorkTest
<1>7. ASSUME WorkSet PROVE Goal
  BY <1>2, <1>4, <1>7 DEF WorkSet
<1>8. ASSUME WorkError PROVE Goal
  BY <1>1, <1>4, <1>8 DEF WorkError
<1>9. ASSUME WorkClear("in") \/ WorkClear("out") PROVE Goal
  BY <1>1, <1>2, <1>4, <1>9 DEF WorkClear
<1>10. ASSUME WorkPop PROVE Goal
  <2>1. WEnd \/ UNCHANGED <<wk, vd>>
    BY <1>10 DEF WorkPop
  <2>3. UNCHANGED <<wk, vd>> => Goal
    BY DEF Goal
  <2>2. wk # NoEvent
    BY <1>4, <1>10 DEF WorkPop
  <2> QED
    BY <1>2, <2>1, <2>2, <2>3
<1>11. ASSUME WorkStale PROVE Goal
  BY <1>2, <1>11 DEF WorkStale
<1> QED
  BY <1>3, <1>5, <1>6, <1>7, <1>8, <1>9, <1>10, <1>11 DEF Work, Goal

\* video_dev->lock has one holder, and none when nothing is under way.
LEMMA LockStep ==
  ASSUME TypeInv, IopInv, QopInv, LockInv, [Next]_vars
  PROVE  LockInv'
<1>0. None \notin Streams /\ "work" \notin Streams /\ None # "work"
  BY BaseAssumption
<1>1. ASSUME NEW s \in Streams, Opening(s) PROVE LockInv'
  <2>1. UNCHANGED <<vd, iop, wk>> /\ \A t \in Streams : t # s => pc'[t] = pc[t]
    BY <1>1, OpeningFrame
  <2>2. pc[s] # "closing" /\ pc'[s] # "closing"
    BY <1>1 DEF Opening, OpenBusy, OpenCreate, OpenParams, OpenQueues, OpenFail, OpenClearBusy, GoTo,
                TypeInv, StreamTypes
  <2> QED
    BY <2>1, <2>2 DEF LockInv
<1>2. ASSUME NEW s \in Streams, Calling(s) PROVE LockInv'
  <2>1. UNCHANGED <<pc, wk>> /\ \A t \in Streams : t # s => iop'[t] = iop[t]
    BY <1>2, CallingFrame
  <2>2. iop[s] # NoOp => pc[s] = "open"
    BY DEF IopInv
  <2> QED
    BY <1>0, <1>2, <2>1, <2>2, CallingLock DEF LockInv
<1>3. ASSUME NEW s \in Streams, Close(s) PROVE LockInv'
  <2>1. UNCHANGED <<iop, wk>> /\ \A t \in Streams : pc'[t] = IF t = s THEN "closing" ELSE pc[t]
    BY <1>3 DEF Close, GoTo, evVars, TypeInv, StreamTypes
  <2> QED
    BY <1>0, <1>3, <2>1 DEF LockInv, Close
<1>4. ASSUME NEW s \in Streams, CloseFree(s) PROVE LockInv'
  <2>1. pc[s] = "closing"
    BY <1>4 DEF CloseFree, QAt, QopInv, NoOp
  <2>2. UNCHANGED <<iop, wk>> /\ \A t \in Streams : pc'[t] = IF t = s THEN "free" ELSE pc[t]
    BY <1>4 DEF CloseFree, GoTo, evVars, TypeInv, StreamTypes
  <2>3. iop[s] = NoOp
    BY <2>1 DEF IopInv
  <2>4. vd = s /\ vd' = None
    BY <1>4, <2>1 DEF CloseFree, LockInv
  <2> QED
    BY <1>0, <2>1, <2>2, <2>3, <2>4 DEF LockInv
<1>5. ASSUME UNCHANGED <<pc, vd, iop, wk>> PROVE LockInv'
  BY <1>5 DEF LockInv
<1>6. ASSUME NEW s \in Streams, Queueing(s) \/ (QueueStep(s) /\ ~CloseFree(s)) PROVE LockInv'
  BY <1>6, <1>5, QueueFrame
<1>7. ASSUME Work PROVE LockInv'
  <2>1. UNCHANGED <<pc, iop>>
    BY <1>7, WorkFrame
  <2>2. "none" \notin EventKinds
    BY BaseAssumption
  <2>3. CASE UNCHANGED <<wk, vd>>
    BY <2>1, <2>3, <1>5
  <2>4. CASE wk = NoEvent /\ vd = None /\ vd' = "work" /\ wk'.s \in Streams /\ wk'.at \in EventKinds
    BY <1>0, <2>1, <2>2, <2>4 DEF LockInv, NoEvent
  <2>5. CASE vd = "work" /\ wk # NoEvent /\ vd' = "work" /\ wk'.s = wk.s /\ wk'.at # "none"
    BY <1>0, <2>1, <2>5 DEF LockInv, NoEvent
  <2>6. CASE vd = "work" /\ wk # NoEvent /\ vd' = None /\ wk' = NoEvent
    BY <1>0, <2>1, <2>6 DEF LockInv, NoEvent
  <2> QED
    BY <1>7, <2>3, <2>4, <2>5, <2>6, WorkLock
<1>8. ASSUME BackEnd PROVE LockInv'
  BY <1>8, <1>5, BackEndFrame
<1>9. CASE UNCHANGED vars
  BY <1>9, <1>5 DEF vars, evVars
<1> QED
  BY Steps, <1>1, <1>2, <1>3, <1>4, <1>6, <1>7, <1>8, <1>9

\* The stream of the work item stays in the idr, or its open failed meanwhile.
LEMMA StaleStep ==
  ASSUME TypeInv, QopInv, LockInv, StaleInv, [Next]_vars
  PROVE  StaleInv'
<1>0. None \notin Streams /\ "work" \notin Streams /\ None # "work"
  BY BaseAssumption
<1>1. ASSUME NEW s \in Streams, Opening(s) PROVE StaleInv'
  <2>1. UNCHANGED <<vd, wk>> /\ \A t \in Streams : t # s => pc'[t] = pc[t] /\ past'[t] = past[t]
    BY <1>1, OpeningFrame
  <2>2. CASE wk = NoEvent \/ wk.s # s
    BY <2>1, <2>2 DEF StaleInv, LockInv, InIdr
  <2>3. CASE wk # NoEvent /\ wk.s = s
    <3>1. vd # None
      BY <1>0, <2>3 DEF LockInv
    <3>2. ~OpenBusy(s) /\ ~OpenClearBusy(s) /\ ~OpenCreate(s)
      BY <2>3, <3>1 DEF OpenBusy, OpenClearBusy, OpenCreate, StaleInv, InIdr
    <3>3. OpenParams(s) \/ OpenQueues(s) => pc'[s] \in {"queues", "open", "fail"}
      BY DEF OpenParams, OpenQueues, GoTo, TypeInv, StreamTypes
    <3>4. OpenFail(s) => pc'[s] = "clear_busy" /\ "raced" \in past'[s]
      BY <2>3 DEF OpenFail, GoTo, Note, TypeInv, StreamTypes
    <3> QED
      BY <1>1, <2>1, <2>3, <3>2, <3>3, <3>4 DEF Opening, StaleInv, InIdr
  <2> QED
    BY <2>2, <2>3
<1>2. ASSUME UNCHANGED <<pc, wk>>, \A s \in Streams : "raced" \in past[s] => "raced" \in past'[s] PROVE StaleInv'
  BY <1>2 DEF StaleInv, LockInv, InIdr
<1>3. ASSUME NEW s \in Streams, Calling(s) PROVE StaleInv'
  <2>1. wk = NoEvent /\ UNCHANGED wk
    BY <1>0, <1>3, CallingFrame, CallingLock DEF LockInv
  <2> QED
    BY <2>1 DEF StaleInv
<1>4. ASSUME NEW s \in Streams, Close(s) \/ CloseFree(s) PROVE StaleInv'
  <2>1. CloseFree(s) => pc[s] = "closing"
    BY DEF CloseFree, QAt, QopInv, NoOp
  <2>2. vd = None \/ vd = s
    BY <1>4, <2>1 DEF Close, LockInv
  <2>3. wk = NoEvent /\ UNCHANGED wk
    BY <1>0, <1>4, <2>2 DEF Close, CloseFree, evVars, LockInv
  <2> QED
    BY <2>3 DEF StaleInv
<1>5. \A t \in Streams : \A h : Note(t, h) => \A s \in Streams : "raced" \in past[s] => "raced" \in past'[s]
  BY DEF Note, TypeInv, StreamTypes
<1>6. ASSUME NEW s \in Streams, Queueing(s) \/ (QueueStep(s) /\ ~CloseFree(s)) PROVE StaleInv'
  <2>1. UNCHANGED <<pc, wk>>
    BY <1>6, QueueFrame
  <2>2. UNCHANGED past \/ \E h : Note(s, h)
    BY <1>6 DEF Queueing, QueueStep, BufInit, QBuf, DQBuf, StreamOn, StreamOff, ReqBufs, QBufQueue, NoNote,
         StartRefused, StartTest, StartRun, StopClear, StopPop, StopWait, StopCancel, Detach, Cleanup, Cleared
  <2> QED
    BY <1>2, <1>5, <2>1, <2>2
<1>7. ASSUME Work PROVE StaleInv'
  <2>1. UNCHANGED pc
    BY <1>7, WorkFrame
  <2>2. UNCHANGED past \/ \E h : wk # NoEvent /\ Note(wk.s, h)
    BY <1>7 DEF Work, WorkFind, WorkResolution, WorkTest, WorkSet, WorkError, WorkClear, WorkPop, WorkStale,
         Cleared, NoNote, NoteFailure, WAt, NoEvent
  <2>3. \A s \in Streams : "raced" \in past[s] => "raced" \in past'[s]
    BY <1>5, <2>2 DEF LockInv
  <2>4. CASE UNCHANGED <<wk, vd>>
    BY <1>2, <2>1, <2>3, <2>4
  <2>5. CASE InIdr(wk'.s)
    BY <2>1, <2>5 DEF StaleInv, InIdr
  <2>6. CASE wk # NoEvent /\ wk'.s = wk.s
    BY <2>1, <2>3, <2>6 DEF StaleInv, InIdr, LockInv
  <2>7. CASE wk' = NoEvent
    BY <2>7 DEF StaleInv, NoEvent
  <2> QED
    BY <1>7, <2>4, <2>5, <2>6, <2>7, WorkLock
<1>8. ASSUME BackEnd PROVE StaleInv'
  <2>1. UNCHANGED past \/ \E t \in Streams : \E h : Note(t, h)
    BY <1>8, BaseAssumption DEF BackEnd, Answer, AnswerEos, Post
  <2> QED
    BY <1>8, <1>2, <1>5, <2>1, BackEndFrame
<1>9. CASE UNCHANGED vars
  BY <1>9, <1>2 DEF vars, evVars
<1> QED
  BY Steps, <1>1, <1>3, <1>4, <1>6, <1>7, <1>8, <1>9

\* A drain that is asked for is answered, overtaken or cleared.
LEMMA DrainStep ==
  ASSUME TypeInv, IopInv, QopInv, LockInv, DrainInv, [Next]_vars
  PROVE  DrainInv'
<1> DEFINE Over(t) == past[t] \cap {"overtaken", "cleared"} # {}
           Good(t) == /\ state[t] = "drain" \/ iop[t].at = "drain" => draining[t] \/ Over(t)
                      /\ iop[t].at = "stop" => state[t] # "drain"
                      /\ state[t] = "drain" => pc[t] \in {"open", "closing"}
           Same(t) == /\ pc'[t] = pc[t] /\ past'[t] = past[t] /\ state'[t] = state[t] /\ iop'[t] = iop[t]
                      /\ draining'[t] = draining[t]
<1>1. \A t \in Streams : Good(t)
  BY DEF DrainInv
<1>2. \A t \in Streams : Same(t) => Good(t)'
  BY <1>1
<1>3. (\A t \in Streams : Good(t)') => DrainInv'
  BY DEF DrainInv
<1>4. \A t \in Streams : pc[t] # "open" => iop[t] = NoOp
  BY DEF IopInv
<1>5. ASSUME NEW s \in Streams, Opening(s) PROVE \A t \in Streams : Good(t)'
  <2>1. UNCHANGED iop /\ \A t \in Streams : t # s =>
          pc'[t] = pc[t] /\ past'[t] = past[t] /\ state'[t] = state[t] /\ draining'[t] = draining[t]
    BY <1>5, OpeningFrame
  <2>2. pc[s] \notin {"open", "closing"}
    BY <1>5 DEF Opening, OpenBusy, OpenCreate, OpenParams, OpenQueues, OpenFail, OpenClearBusy
  <2>3. state'[s] = state[s] \/ state'[s] = "idle"
    BY <1>5 DEF Opening, OpenBusy, OpenCreate, OpenParams, OpenQueues, OpenFail, OpenClearBusy, Free,
                TypeInv, StreamTypes
  <2>4. state'[s] # "drain" /\ iop'[s] = NoOp
    BY <1>1, <1>4, <2>1, <2>2, <2>3
  <2>5. Good(s)'
    BY <2>4 DEF NoOp
  <2>6. \A t \in Streams : t # s => Good(t)'
    BY <1>2, <2>1
  <2> QED
    BY <2>5, <2>6
<1>6. ASSUME NEW s \in Streams, Close(s) \/ CloseFree(s) PROVE \A t \in Streams : Good(t)'
  <2>1. /\ UNCHANGED <<iop, past>>
        /\ \A t \in Streams : t # s => pc'[t] = pc[t] /\ state'[t] = state[t] /\ draining'[t] = draining[t]
    BY <1>6 DEF Close, CloseFree, GoTo, Free, NoNote, TypeInv, StreamTypes
  <2>2. Close(s) => pc'[s] = "closing" /\ state'[s] = state[s] /\ draining'[s] = draining[s]
    BY DEF Close, GoTo, TypeInv, StreamTypes
  <2>3. CloseFree(s) => pc[s] = "closing" /\ state'[s] = "idle"
    BY DEF CloseFree, Free, TypeInv, StreamTypes, QAt, QopInv, NoOp
  <2>4. Good(s)'
    <3>1. CloseFree(s) => iop'[s] = NoOp
      BY <1>4, <2>1, <2>3
    <3> QED
      BY <1>1, <1>6, <2>1, <2>2, <2>3, <3>1 DEF NoOp
  <2>5. \A t \in Streams : t # s => Good(t)'
    BY <1>2, <2>1
  <2> QED
    BY <2>4, <2>5
<1>7. ASSUME UNCHANGED <<pc, iop>>,
             \A t \in Streams : (state'[t] = state[t] \/ state'[t] # "drain")
                                /\ (draining[t] \/ Over(t) => draining'[t] \/ Over(t)')
      PROVE  \A t \in Streams : Good(t)'
  BY <1>1, <1>7
<1>8. ASSUME NEW s \in Streams, NEW h, Note(s, h)
      PROVE  \A t \in Streams : (Over(t) => Over(t)') /\ (h \cap {"overtaken", "cleared"} # {} => Over(s)')
  BY <1>8 DEF Note, TypeInv, StreamTypes
<1>9. ASSUME NEW s \in Streams, NEW new \in {"init", "running", "stopped", "reset", "error", "dynamic_res_change"},
             Update(s, new)
      PROVE  \A t \in Streams : state'[t] = state[t] \/ state'[t] # "drain"
  BY <1>9 DEF Update, TypeInv, StreamTypes
<1>10. ASSUME NEW s \in Streams, NEW q, Cleared(s, q)
       PROVE  \A t \in Streams : draining[t] \/ Over(t) => draining'[t] \/ Over(t)'
  <2>1. CASE UNCHANGED draining /\ NoNote
    BY <2>1 DEF NoNote
  <2>2. CASE draining' = [draining EXCEPT ![s] = FALSE] /\ Note(s, {"cleared"})
    <3>1. \A t \in Streams : t # s => draining'[t] = draining[t]
      BY <2>2
    <3> QED
      BY <1>8, <2>2, <3>1
  <2> QED
    BY <1>10, <2>1, <2>2 DEF Cleared
<1>11. ASSUME NEW s \in Streams, Queueing(s) \/ (QueueStep(s) /\ ~CloseFree(s))
       PROVE  \A t \in Streams : Good(t)'
  <2>1. UNCHANGED <<pc, iop>>
    BY <1>11, QueueFrame
  <2>2. \/ UNCHANGED <<state, draining, past>>
        \/ UNCHANGED <<draining, past>> /\ \E new \in {"running", "stopped", "reset"} : Update(s, new)
        \/ UNCHANGED state /\ (Cleared(s, qop[s].q) \/ (UNCHANGED draining /\ NoNote))
    BY <1>11 DEF Queueing, QueueStep, BufInit, QBuf, DQBuf, StreamOn, StreamOff, ReqBufs, QBufQueue, NoNote,
         StartRefused, StartTest, StartRun, StopClear, StopPop, StopWait, StopCancel, Detach, Cleanup
  <2>3. CASE UNCHANGED <<state, draining, past>>
    BY <1>7, <2>1, <2>3
  <2>4. CASE UNCHANGED <<draining, past>> /\ \E new \in {"running", "stopped", "reset"} : Update(s, new)
    BY <1>7, <1>9, <2>1, <2>4
  <2>5. CASE UNCHANGED state /\ (Cleared(s, qop[s].q) \/ (UNCHANGED draining /\ NoNote))
    BY <1>7, <1>10, <2>1, <2>5 DEF NoNote
  <2> QED
    BY <2>2, <2>3, <2>4, <2>5
<1>12. ASSUME Work PROVE \A t \in Streams : Good(t)'
  <2>1. UNCHANGED <<pc, iop>>
    BY <1>12, WorkFrame
  <2>2. wk # NoEvent => wk.s \in Streams
    BY DEF LockInv
  <2>3. CASE WorkFind \/ WorkTest \/ WorkPop \/ WorkStale
    BY <1>7, <2>1, <2>3 DEF WorkFind, WorkTest, WorkPop, WorkStale
  <2>4. CASE WorkResolution
    <3>1. UNCHANGED <<state, draining>> /\ wk.s \in Streams /\ \E h : Note(wk.s, h) \/ UNCHANGED past
      BY <2>2, <2>4 DEF WorkResolution, NoteFailure, NoNote, WAt, NoEvent
    <3> QED
      BY <1>7, <1>8, <2>1, <3>1
  <2>5. CASE WorkSet \/ WorkError
    <3>1. UNCHANGED <<draining, past>> /\ wk.s \in Streams /\ \E new \in {"error", "dynamic_res_change"} : Update(wk.s, new)
      BY <2>2, <2>5 DEF WorkSet, WorkError, WAt, NoEvent
    <3> QED
      BY <1>7, <1>9, <2>1, <3>1
  <2>6. ASSUME NEW q \in {"in", "out"}, WorkClear(q) PROVE \A t \in Streams : Good(t)'
    <3>1. UNCHANGED state /\ wk.s \in Streams /\ (Cleared(wk.s, q) \/ (UNCHANGED draining /\ NoNote))
      BY <2>2, <2>6 DEF WorkClear, WAt, NoEvent
    <3> QED
      BY <1>7, <1>10, <2>1, <3>1 DEF NoNote
  <2> QED
    BY <1>12, <2>3, <2>4, <2>5, <2>6 DEF Work
<1>13. ASSUME BackEnd PROVE \A t \in Streams : Good(t)'
  <2>1. UNCHANGED <<pc, iop>>
    BY <1>13, BackEndFrame
  <2>2. ASSUME NEW b \in Bufs, AnswerEos(b) PROVE \A t \in Streams : Good(t)'
    <3> DEFINE s == StreamOf[b]
    <3>1. s \in Streams
      BY BaseAssumption
    <3>2. \A t \in Streams : t # s => Same(t)
      BY <2>1, <2>2, <3>1 DEF AnswerEos, Update, Note, TypeInv, StreamTypes
    <3>3. state'[s] # "drain"
      BY <2>2, <3>1 DEF AnswerEos, Update, IsError, TypeInv, StreamTypes
    <3>4. iop[s].at = "drain" => Over(s)'
      BY <1>8, <2>2, <3>1 DEF AnswerEos, IAt
    <3>5. Good(s)'
      BY <1>1, <2>1, <3>1, <3>3, <3>4
    <3> QED
      BY <1>2, <3>2, <3>5
  <2>3. ASSUME UNCHANGED <<state, draining, past>> PROVE \A t \in Streams : Good(t)'
    BY <1>7, <2>1, <2>3
  <2> QED
    BY <1>13, <2>2, <2>3 DEF BackEnd, Answer, Post
<1>14. ASSUME NEW s \in Streams, Calling(s) PROVE \A t \in Streams : Good(t)'
  <2>1. /\ UNCHANGED pc
        /\ \A t \in Streams : t # s =>
             past'[t] = past[t] /\ state'[t] = state[t] /\ draining'[t] = draining[t] /\ iop'[t] = iop[t]
    BY <1>14, CallingFrame
  <2>2. \A t \in Streams : t # s => Good(t)'
    BY <1>2, <2>1
  <2>3. \A l : IGo(s, l) => iop'[s].at = l
    BY DEF IGo, TypeInv, CallTypes, Call
  <2>4. IEnd(s) => iop'[s].at = "none"
    BY DEF IEnd, TypeInv, CallTypes, NoOp
  <2>5. ASSUME NEW at \in {"set", "test", "start", "stop", "crop"}, NEW k, NEW q, NEW v, Enter(s, k, at, q, v),
               at = "stop" => state[s] # "drain"
        PROVE  Good(s)'
    <3>1. iop'[s] = [at |-> at, kind |-> k, q |-> q, v |-> v] /\ UNCHANGED <<state, draining, past>>
      BY <2>5, Entered
    <3>2. iop'[s].at = at
      BY <3>1
    <3> QED
      BY <1>1, <2>1, <2>5, <3>1, <3>2
  <2>6. ASSUME iop'[s].at \notin {"drain", "stop"}, state'[s] # "drain" \/
               (state'[s] = state[s] /\ draining'[s] = draining[s] /\ (Over(s) => Over(s)'))
        PROVE  Good(s)'
    BY <1>1, <2>1, <2>6
  <2>7. ASSUME NoNote \/ \E h : Note(s, h) PROVE Over(s) => Over(s)'
    BY <1>8, <2>7 DEF NoNote
  <2> HIDE DEF Good, Over
  <2>8. ASSUME SFmt(s) \/ SParm(s) \/ SSelection(s) \/ GFmt(s) PROVE Good(s)'
    BY <2>5, <2>8 DEF SFmt, SParm, SSelection, GFmt
  <2>9. ASSUME Cmd(s) PROVE Good(s)'
    BY <2>5, <2>9 DEF Cmd
  <2>10. ASSUME SetParams(s) \/ GetIn(s) \/ GetOut(s) PROVE Good(s)'
    <3>1. UNCHANGED <<state, draining>> /\ (NoNote \/ \E h : Note(s, h))
      BY <2>10 DEF SetParams, GetIn, GetOut, GetParams, NoteFailure
    <3>2. \E l \in {"get_in", "get_out", "test"} : IGo(s, l)
      BY <2>10 DEF SetParams, GetIn, GetOut, GetParams
    <3> QED
      BY <2>3, <2>6, <2>7, <3>1, <3>2
  <2>11. ASSUME Crop(s) \/ CropGet(s) PROVE Good(s)'
    <3>1. UNCHANGED <<state, draining>> /\ (NoNote \/ \E h : Note(s, h))
      BY <2>11 DEF Crop, CropGet, NoteFailure
    <3>2. IGo(s, "get") \/ IEnd(s)
      BY <2>11 DEF Crop, CropGet
    <3> QED
      BY <2>3, <2>4, <2>6, <2>7, <3>1, <3>2
  <2>12. ASSUME Test(s) PROVE Good(s)'
    <3>1. UNCHANGED <<state, draining, past>> /\ (IGo(s, "init") \/ IEnd(s))
      BY <2>12 DEF Test
    <3> QED
      BY <2>3, <2>4, <2>6, <2>7, <3>1 DEF NoNote
  <2>13. ASSUME SetInit(s) \/ Start(s) PROVE Good(s)'
    <3>1. UNCHANGED <<draining, past>> /\ IEnd(s) /\ (UNCHANGED state \/ Update(s, "init") \/ Update(s, "running"))
      BY <2>13 DEF SetInit, Start
    <3>2. state'[s] = state[s] \/ state'[s] # "drain"
      BY <1>9, <3>1
    <3> QED
      BY <2>4, <2>6, <2>7, <3>1, <3>2 DEF NoNote
  <2>14. ASSUME Drain(s) PROVE Good(s)'
    <3>1. state'[s] # "drain"
      BY <1>1, <2>14 DEF Drain, IAt, Good
    <3>2. CASE IEnd(s)
      BY <2>4, <2>6, <3>1, <3>2
    <3>3. CASE draining' = [draining EXCEPT ![s] = TRUE] /\ IGo(s, "drain")
      <4>1. draining'[s] /\ iop'[s].at = "drain"
        BY <2>3, <3>3 DEF TypeInv, StreamTypes
      <4> QED
        BY <3>1, <4>1 DEF Good
    <3> QED
      BY <2>14, <3>2, <3>3 DEF Drain
  <2>15. ASSUME SetDrain(s) PROVE Good(s)'
    <3>1. UNCHANGED <<draining, past>> /\ IEnd(s) /\ iop[s].at = "drain"
      BY <2>15 DEF SetDrain, IAt
    <3>2. pc[s] = "open"
      BY <3>1 DEF IopInv, NoOp
    <3>3. draining[s] \/ Over(s)
      BY <1>1, <3>1 DEF Good
    <3>4. Over(s) => Over(s)'
      BY <2>7, <3>1 DEF NoNote
    <3> QED
      BY <2>1, <2>4, <3>1, <3>2, <3>3, <3>4 DEF Good
  <2> QED
    BY <1>14, <2>2, <2>8, <2>9, <2>10, <2>11, <2>12, <2>13, <2>14, <2>15 DEF Calling
<1>15. ASSUME UNCHANGED vars PROVE \A t \in Streams : Good(t)'
  BY <1>7, <1>15 DEF vars
<1> HIDE DEF Good
<1> QED
  BY Steps, <1>3, <1>5, <1>6, <1>11, <1>12, <1>13, <1>14, <1>15

-----------------------------------------------------------------------------
(* Buffers. *)

\* An answer takes one buffer off the list.
LEMMA AnswerEffect ==
  ASSUME TypeInv, ListInv, NEW b \in Bufs, BufDone(b)
  PROVE  /\ owed[b] > 0 /\ owed'[b] = owed[b] - 1 /\ \A c \in Bufs : c # b => owed'[c] = owed[c] /\ bst'[c] = bst[c]
         /\ bst'[b] = IF bst[b] = "active" THEN "done" ELSE bst[b]
         /\ early' = IF owed[b] = 1 THEN early \ {b} ELSE early
         /\ pending_buf_list' \in Seq(Bufs) /\ ToSet(pending_buf_list') = ToSet(pending_buf_list) \ {b}
         /\ \A i, j \in DOMAIN pending_buf_list' : pending_buf_list'[i] = pending_buf_list'[j] => i = j
         /\ pending_buf_list = <<>> => pending_buf_list' = <<>>
<1>1. pending_buf_list' = RemoveFirst(pending_buf_list, b)
  BY DEF BufDone
<1>2. /\ pending_buf_list' \in Seq(Bufs) /\ ToSet(pending_buf_list') = ToSet(pending_buf_list) \ {b}
      /\ \A i, j \in DOMAIN pending_buf_list' : pending_buf_list'[i] = pending_buf_list'[j] => i = j
  BY <1>1, Unlisted DEF ListInv
<1>3. pending_buf_list = <<>> => pending_buf_list' = <<>>
  <2>1. ToSet(<<>>) = {}
    BY DEF ToSet
  <2>2. ToSet(pending_buf_list') = {} => pending_buf_list' = <<>>
    BY <1>2 DEF ToSet
  <2> QED
    BY <1>2, <2>1, <2>2
<1> QED
  BY <1>2, <1>3 DEF BufDone, TypeInv, BufTypes

\* What buf_queue does with some buffers that vb2 has.
LEMMA Enqueued ==
  ASSUME TypeInv, ListInv, NEW B \in SUBSET Bufs, Enqueue(B)
  PROVE  /\ \A c \in Bufs : bst'[c] = IF c \in B THEN "active" ELSE bst[c]
         /\ \A c \in B : c \notin ToSet(pending_buf_list) /\ owed[c] < MaxOwed
         /\ \E lost \in SUBSET B :
              /\ \A c \in Bufs : owed'[c] = IF c \in B \ lost THEN owed[c] + 1 ELSE owed[c]
              /\ unsent' = (unsent \ B) \cup lost
         /\ owed' \in [Bufs -> 0..MaxOwed] /\ bst' \in [Bufs -> {"none", "user", "prep", "active", "done"}]
         /\ unsent' \subseteq Bufs
         /\ pending_buf_list' \in Seq(Bufs)
         /\ ToSet(pending_buf_list') \subseteq ToSet(pending_buf_list) \cup B
         /\ ToSet(pending_buf_list) \subseteq ToSet(pending_buf_list')
         /\ \A i, j \in DOMAIN pending_buf_list' : pending_buf_list'[i] = pending_buf_list'[j] => i = j
         /\ IsM2m => pending_buf_list' = <<>>
<1>1. \A c \in B : c \notin ToSet(pending_buf_list) /\ owed[c] < MaxOwed
  BY DEF Enqueue
<1>2. /\ pending_buf_list' \in Seq(Bufs)
      /\ ToSet(pending_buf_list') \subseteq ToSet(pending_buf_list) \cup B
      /\ ToSet(pending_buf_list) \subseteq ToSet(pending_buf_list')
      /\ \A i, j \in DOMAIN pending_buf_list' : pending_buf_list'[i] = pending_buf_list'[j] => i = j
      /\ IsM2m => pending_buf_list' = <<>>
  <2>1. CASE IsM2m
    BY <2>1 DEF Enqueue, ListInv
  <2>2. CASE ~IsM2m
    <3> DEFINE t == SetToSeq(B)
    <3>1. IsFiniteSet(B)
      BY BaseAssumption, FS_Subset
    <3>2. t \in Seq(B) /\ ToSet(t) = B /\ \A i, j \in DOMAIN t : t[i] = t[j] => i = j
      BY <3>1, Listed
    <3> HIDE DEF t
    <3>3. t \in Seq(Bufs)
      BY <3>2
    <3>4. pending_buf_list' = pending_buf_list \o t
      BY <2>2 DEF Enqueue, t
    <3>5. ToSet(pending_buf_list) \cap ToSet(t) = {}
      BY <1>1, <3>2
    <3>6. /\ pending_buf_list' \in Seq(Bufs) /\ ToSet(pending_buf_list') = ToSet(pending_buf_list) \cup ToSet(t)
          /\ \A i, j \in DOMAIN pending_buf_list' : pending_buf_list'[i] = pending_buf_list'[j] => i = j
      BY <3>2, <3>3, <3>4, <3>5, Joined DEF ListInv
    <3> QED
      BY <2>2, <3>2, <3>6
  <2> QED
    BY <2>1, <2>2
<1>3. PICK lost \in SUBSET B :
       /\ owed' = [b \in Bufs |-> IF b \in B \ lost THEN owed[b] + 1 ELSE owed[b]]
       /\ unsent' = (unsent \ B) \cup lost
  BY DEF Enqueue
<1>4. \A c \in Bufs : owed'[c] = IF c \in B \ lost THEN owed[c] + 1 ELSE owed[c]
  BY <1>3
<1>5. owed' \in [Bufs -> 0..MaxOwed]
  <2>1. \A c \in B : owed[c] + 1 \in 0..MaxOwed
    BY <1>1, BaseAssumption DEF TypeInv, BufTypes
  <2> QED
    BY <1>3, <2>1 DEF TypeInv, BufTypes
<1>6. /\ bst' \in [Bufs -> {"none", "user", "prep", "active", "done"}]
      /\ \A c \in Bufs : bst'[c] = IF c \in B THEN "active" ELSE bst[c]
  BY DEF Enqueue, TypeInv, BufTypes
<1>7. unsent' \subseteq Bufs
  BY <1>3 DEF TypeInv, BufTypes
<1> QED
  BY <1>1, <1>2, <1>3, <1>4, <1>5, <1>6, <1>7

\* The buffers a step queues are ones vb2 has, of a queue that streams or is about to.
LEMMA Queued ==
  ASSUME TypeInv, QopInv, NEW s \in Streams
  PROVE  /\ \A q \in Queues : StreamOn(s, q) =>
              LET B == {b \in BufsOf(s, q) : bst[b] = "prep"} IN Enqueue(B) /\ B \in SUBSET Bufs
         /\ QBufQueue(s) => /\ qop[s].v \in BufsOf(s, qop[s].q) /\ bst[qop[s].v] = "user"
                            /\ qop[s].q \in streaming[s] => Enqueue({qop[s].v})
BY DEF StreamOn, QBufQueue, QopInv, QAt, BufsOf

-----------------------------------------------------------------------------
(* Types. *)

\* Updates and notes keep the types of states and histories.
LEMMA UpdateTypes ==
  ASSUME TypeInv, NEW s \in Streams
  PROVE  /\ \A new \in ToSet(Order) : Update(s, new) => state' \in [Streams -> ToSet(Order)]
         /\ \A h \in SUBSET Past : Note(s, h) => past' \in [Streams -> SUBSET Past]
         /\ NoteFailure(s) => past' \in [Streams -> SUBSET Past]
         /\ NoNote => past' \in [Streams -> SUBSET Past]
<1>1. \A new \in ToSet(Order) : Update(s, new) => state' \in [Streams -> ToSet(Order)]
  BY DEF Update, TypeInv, StreamTypes
<1>2. \A h \in SUBSET Past : Note(s, h) => past' \in [Streams -> SUBSET Past]
  BY DEF Note, TypeInv, StreamTypes
<1>3. {} \in SUBSET Past /\ {"failed"} \in SUBSET Past
  BY DEF Past
<1> QED
  BY <1>1, <1>2, <1>3 DEF NoteFailure, NoNote, TypeInv, StreamTypes

\* The streams' own variables keep their types.
LEMMA StreamTypeStep ==
  ASSUME TypeInv, QopInv, LockInv, [Next]_vars
  PROVE  StreamTypes'
<1> DEFINE Counts == opens' \in 0..MaxOpens /\ calls' \in 0..MaxCalls /\ posted' \in 0..MaxEvents
<1>0. /\ {"idle", "init", "running", "drain", "stopped", "reset", "error", "dynamic_res_change"} \subseteq ToSet(Order)
      /\ {{}, {"failed"}, {"raced"}, {"cleared"}, {"overtaken"}} \subseteq SUBSET Past
  BY States DEF Past
<1>1. UNCHANGED <<opens, calls, posted>> => Counts
  BY DEF TypeInv, StreamTypes
<1>2. ASSUME NEW s \in Streams, Opening(s) PROVE StreamTypes'
  <2>0. UNCHANGED <<dev, streaming, calls, posted>>
    BY <1>2, OpeningFrame
  <2>1. /\ busy' \in BOOLEAN
        /\ pc' \in [Streams -> {"free", "id", "params", "queues", "fail", "clear_busy", "open", "closing"}]
        /\ draining' \in [Streams -> BOOLEAN]
    BY <1>2 DEF Opening, OpenBusy, OpenCreate, OpenParams, OpenQueues, OpenFail, OpenClearBusy, Free, GoTo,
                IsM2m, TypeInv, StreamTypes
  <2>2. state' \in [Streams -> ToSet(Order)]
    BY <1>0, <1>2 DEF Opening, OpenBusy, OpenCreate, OpenParams, OpenQueues, OpenFail, OpenClearBusy, Free,
                TypeInv, StreamTypes
  <2>3. past' \in [Streams -> SUBSET Past]
    <3>1. UNCHANGED past \/ past' = [past EXCEPT ![s] = {}] \/ \E h \in SUBSET Past : Note(s, h)
      BY <1>0, <1>2 DEF Opening, OpenBusy, OpenCreate, OpenParams, OpenQueues, OpenFail, OpenClearBusy
    <3> QED
      BY <1>0, <3>1, UpdateTypes DEF TypeInv, StreamTypes
  <2>4. opens' \in 0..MaxOpens
    BY <1>2, BaseAssumption DEF Opening, OpenBusy, OpenCreate, OpenParams, OpenQueues, OpenFail, OpenClearBusy,
       countVars, TypeInv, StreamTypes
  <2> QED
    BY <2>0, <2>1, <2>2, <2>3, <2>4 DEF TypeInv, StreamTypes, Queues, IsM2m
<1>3. ASSUME NEW s \in Streams, Calling(s) PROVE StreamTypes'
  <2>0. UNCHANGED <<dev, busy, pc, streaming, posted, opens>>
    BY <1>3, CallingFrame
  <2>1. calls' \in 0..MaxCalls
    BY <1>3, BaseAssumption DEF Calling, SFmt, SParm, SSelection, GFmt, Cmd, Enter, SetParams, GetIn, GetOut,
       Test, SetInit, Crop, CropGet, Start, Drain, SetDrain, Rest, countVars, TypeInv, StreamTypes
  <2>2. state' \in [Streams -> ToSet(Order)]
    <3>1. UNCHANGED state \/ \E new \in {"init", "running", "drain"} : Update(s, new)
      BY <1>3 DEF Calling, SFmt, SParm, SSelection, GFmt, Cmd, Enter, SetParams, GetIn, GetOut,
         Test, SetInit, Crop, CropGet, Start, Drain, SetDrain
    <3> QED
      BY <1>0, <3>1, UpdateTypes DEF TypeInv, StreamTypes
  <2>3. draining' \in [Streams -> BOOLEAN]
    BY <1>3 DEF Calling, SFmt, SParm, SSelection, GFmt, Cmd, Enter, SetParams, GetIn, GetOut,
         Test, SetInit, Crop, CropGet, Start, Drain, SetDrain, TypeInv, StreamTypes
  <2>4. past' \in [Streams -> SUBSET Past]
    <3>1. UNCHANGED past \/ NoNote \/ NoteFailure(s) \/ past' = [past EXCEPT ![s] = @ \ {"overtaken", "cleared"}]
      BY <1>3 DEF Calling, SFmt, SParm, SSelection, GFmt, Cmd, Enter, SetParams, GetIn, GetOut, GetParams,
         Test, SetInit, Crop, CropGet, Start, Drain, SetDrain
    <3> QED
      BY <3>1, UpdateTypes DEF TypeInv, StreamTypes
  <2> QED
    BY <2>0, <2>1, <2>2, <2>3, <2>4 DEF TypeInv, StreamTypes, Queues, IsM2m
<1>4. ASSUME NEW s \in Streams, Close(s) \/ CloseFree(s) PROVE StreamTypes'
  <2>1. UNCHANGED <<dev, streaming, past, opens, calls, posted>>
    BY <1>4 DEF Close, CloseFree, NoNote, evVars, countVars
  <2>2. /\ busy' \in BOOLEAN
        /\ pc' \in [Streams -> {"free", "id", "params", "queues", "fail", "clear_busy", "open", "closing"}]
        /\ draining' \in [Streams -> BOOLEAN]
    BY <1>4 DEF Close, CloseFree, Free, GoTo, TypeInv, StreamTypes
  <2>3. state' \in [Streams -> ToSet(Order)]
    BY <1>0, <1>4 DEF Close, CloseFree, Free, TypeInv, StreamTypes
  <2> QED
    BY <2>1, <2>2, <2>3 DEF TypeInv, StreamTypes, Queues, IsM2m
<1>5. ASSUME NEW s \in Streams, NEW q, Cleared(s, q)
      PROVE  draining' \in [Streams -> BOOLEAN] /\ past' \in [Streams -> SUBSET Past]
  BY <1>0, <1>5, UpdateTypes DEF Cleared, TypeInv, StreamTypes
<1>6. ASSUME NEW s \in Streams, Queueing(s) \/ (QueueStep(s) /\ ~CloseFree(s)) PROVE StreamTypes'
  <2>0. UNCHANGED <<dev, busy, pc, posted, opens, calls>>
    BY <1>6, QueueFrame
  <2>1. state' \in [Streams -> ToSet(Order)]
    <3>1. UNCHANGED state \/ \E new \in {"running", "stopped", "reset"} : Update(s, new)
      BY <1>6 DEF Queueing, QueueStep, BufInit, QBuf, DQBuf, StreamOn, StreamOff, ReqBufs, QBufQueue,
         StartRefused, StartTest, StartRun, StopClear, StopPop, StopWait, StopCancel, Detach, Cleanup
    <3> QED
      BY <1>0, <3>1, UpdateTypes DEF TypeInv, StreamTypes
  <2>2. draining' \in [Streams -> BOOLEAN] /\ past' \in [Streams -> SUBSET Past]
    <3>1. UNCHANGED <<draining, past>> \/ Cleared(s, qop[s].q)
      BY <1>6 DEF Queueing, QueueStep, BufInit, QBuf, DQBuf, StreamOn, StreamOff, ReqBufs, QBufQueue, NoNote,
         StartRefused, StartTest, StartRun, StopClear, StopPop, StopWait, StopCancel, Detach, Cleanup
    <3> QED
      BY <1>5, <3>1 DEF TypeInv, StreamTypes
  <2>3. streaming' \in [Streams -> SUBSET Queues]
    <3>0. \A l : l # "none" /\ QAt(s, l) => qop[s] # NoOp
      BY DEF QAt, NoOp
    <3>1. UNCHANGED streaming \/ (On(s) /\ qop[s] # NoOp) \/ streaming' = [streaming EXCEPT ![s] = @ \ {qop[s].q}]
      BY <1>6, <3>0 DEF Queueing, QueueStep, BufInit, QBuf, DQBuf, StreamOn, StreamOff, ReqBufs, QBufQueue,
         StartRefused, StartTest, StartRun, StopClear, StopPop, StopWait, StopCancel, Detach, Cleanup
    <3>2. qop[s] # NoOp => qop[s].q \in Queues
      BY DEF QopInv
    <3> QED
      BY <3>1, <3>2 DEF On, TypeInv, StreamTypes
  <2> QED
    BY <2>0, <2>1, <2>2, <2>3 DEF TypeInv, StreamTypes, Queues, IsM2m
<1>7. ASSUME Work PROVE StreamTypes'
  <2>0. UNCHANGED <<dev, busy, pc, streaming, posted, opens, calls>>
    BY <1>7, WorkFrame
  <2>1. wk # NoEvent => wk.s \in Streams
    BY DEF LockInv
  <2>2. state' \in [Streams -> ToSet(Order)]
    <3>1. UNCHANGED state \/ \E new \in {"error", "dynamic_res_change"} : Update(wk.s, new) /\ wk # NoEvent
      BY <1>7 DEF Work, WorkFind, WorkResolution, WorkTest, WorkSet, WorkError, WorkClear, WorkPop, WorkStale, WAt, NoEvent
    <3> QED
      BY <1>0, <2>1, <3>1, UpdateTypes DEF TypeInv, StreamTypes
  <2>3. draining' \in [Streams -> BOOLEAN] /\ past' \in [Streams -> SUBSET Past]
    <3>1. \/ UNCHANGED <<draining, past>> \/ (wk # NoEvent /\ UNCHANGED draining /\ NoteFailure(wk.s))
          \/ \E q \in Names : wk # NoEvent /\ Cleared(wk.s, q)
      BY <1>7 DEF Work, WorkFind, WorkResolution, WorkTest, WorkSet, WorkError, WorkClear, WorkPop, WorkStale,
         NoNote, WAt, NoEvent, Names
    <3> QED
      BY <1>5, <2>1, <3>1, UpdateTypes DEF TypeInv, StreamTypes
  <2> QED
    BY <2>0, <2>2, <2>3 DEF TypeInv, StreamTypes, Queues, IsM2m
<1>8. ASSUME BackEnd PROVE StreamTypes'
  <2>0. UNCHANGED <<dev, busy, pc, streaming, opens, calls>>
    BY <1>8, BackEndFrame
  <2>1. ASSUME NEW b \in Bufs, AnswerEos(b) PROVE StreamTypes'
    <3>1. StreamOf[b] \in Streams
      BY BaseAssumption
    <3>2. state' \in [Streams -> ToSet(Order)]
      BY <1>0, <2>1, <3>1, UpdateTypes DEF AnswerEos
    <3>3. past' \in [Streams -> SUBSET Past]
      <4>1. \E h \in SUBSET Past : Note(StreamOf[b], h)
        BY <1>0, <2>1 DEF AnswerEos
      <4> QED
        BY <3>1, <4>1, UpdateTypes
    <3>4. draining' \in [Streams -> BOOLEAN] /\ UNCHANGED posted
      BY <2>1 DEF AnswerEos, BufDone, evVars, TypeInv, StreamTypes
    <3> QED
      BY <2>0, <3>2, <3>3, <3>4 DEF TypeInv, StreamTypes, Queues, IsM2m
  <2>2. ASSUME NEW b \in Bufs, Answer(b) PROVE StreamTypes'
    BY <2>0, <2>2 DEF Answer, BufDone, evVars, TypeInv, StreamTypes, Queues, IsM2m
  <2>3. ASSUME NEW s \in Streams, NEW k \in EventKinds, Post(s, k) PROVE StreamTypes'
    <3>1. posted' \in 0..MaxEvents
      BY <2>3, BaseAssumption DEF Post, TypeInv, StreamTypes
    <3> QED
      BY <2>0, <2>3, <3>1 DEF Post, TypeInv, StreamTypes, Queues, IsM2m
  <2> QED
    BY <1>8, <2>1, <2>2, <2>3 DEF BackEnd
<1>9. CASE UNCHANGED vars
  BY <1>9 DEF vars, evVars, countVars, TypeInv, StreamTypes, Queues, IsM2m
<1> QED
  BY Steps, <1>2, <1>3, <1>4, <1>6, <1>7, <1>8, <1>9

\* The buffers' variables keep their types: no id is out of range, and no more answers are owed
\* than the bound.
LEMMA BufTypeStep ==
  ASSUME TypeInv, QopInv, RidInv, ListInv, [Next]_vars
  PROVE  BufTypes'
<1> DEFINE Bst == bst' \in [Bufs -> {"none", "user", "prep", "active", "done"}]
           Rid == rid' \in [Bufs -> Ids \cup {None}] /\ resource_idr' \subseteq Ids
           Owed == owed' \in [Bufs -> 0..MaxOwed]
           Sets == attached' \subseteq Bufs /\ unsent' \subseteq Bufs /\ early' \subseteq Bufs
<1>1. Bst /\ Rid /\ Owed /\ Sets => BufTypes'
  BY DEF BufTypes, Ids
<1>2. /\ UNCHANGED bst => Bst
      /\ UNCHANGED <<rid, resource_idr>> => Rid
      /\ UNCHANGED owed => Owed
      /\ UNCHANGED <<attached, unsent, early>> => Sets
  BY DEF TypeInv, BufTypes
<1>3. UNCHANGED <<bst, rid, resource_idr, owed, attached, unsent, early>> => BufTypes'
  BY <1>1, <1>2
<1>4. ASSUME NEW s \in Streams, Opening(s) \/ Calling(s) \/ Close(s) PROVE BufTypes'
  BY <1>3, <1>4, OpeningFrame, CallingFrame DEF Close, bufVars
<1>5. ASSUME NEW s \in Streams, CloseFree(s) PROVE BufTypes'
  BY <1>5 DEF CloseFree, TypeInv, BufTypes, Ids
<1>6. ASSUME NEW b \in Bufs, BufInit(b) PROVE BufTypes'
  <2>1. LowestFree \in Ids
    BY <1>6, FreeId DEF BufInit, TypeInv
  <2> HIDE DEF LowestFree
  <2>2. Bst
    BY <1>6 DEF BufInit, TypeInv, BufTypes
  <2>3. Rid
    BY <1>6, <2>1 DEF BufInit, TypeInv, BufTypes
  <2>4. Owed /\ Sets
    BY <1>6 DEF BufInit, TypeInv, BufTypes
  <2> QED
    BY <1>1, <2>2, <2>3, <2>4
<1>7. ASSUME NEW b \in Bufs, QBuf(b) \/ DQBuf(b) PROVE BufTypes'
  BY <1>7 DEF QBuf, DQBuf, bufVars, TypeInv, BufTypes, Ids
<1>8. ASSUME NEW B \in SUBSET Bufs, Enqueue(B), UNCHANGED <<rid, resource_idr, attached, early>> PROVE BufTypes'
  BY <1>1, <1>8, Enqueued DEF TypeInv, BufTypes
<1>9. ASSUME NEW s \in Streams, NEW q \in Queues, StreamOn(s, q) \/ StreamOff(s, q) \/ ReqBufs(s, q) PROVE BufTypes'
  BY <1>3, <1>8, <1>9, Queued DEF StreamOn, StreamOff, ReqBufs, bufVars
<1>10. ASSUME NEW s \in Streams, QBufQueue(s) PROVE BufTypes'
  <2>1. qop[s].v \in Bufs
    BY <1>10, Queued DEF BufsOf
  <2>2. CASE Enqueue({qop[s].v})
    BY <1>8, <1>10, <2>1, <2>2 DEF QBufQueue
  <2>3. CASE bst' = [bst EXCEPT ![qop[s].v] = "prep"] /\ UNCHANGED <<owed, pending_buf_list, unsent>>
    <3>1. Bst
      BY <2>1, <2>3 DEF TypeInv, BufTypes
    <3> QED
      BY <1>1, <1>2, <1>10, <2>3, <3>1 DEF QBufQueue
  <2> QED
    BY <1>10, <2>2, <2>3 DEF QBufQueue
<1>11. ASSUME NEW s \in Streams, StartRefused(s) \/ StartTest(s) \/ StartRun(s) PROVE BufTypes'
  BY <1>11 DEF StartRefused, StartTest, StartRun, bufVars, TypeInv, BufTypes, BufsOf, Ids
<1>12. ASSUME Pop, pending_buf_list # <<>> PROVE BufTypes'
  <2>1. Head(pending_buf_list) \in Bufs
    BY <1>12, Taken DEF ListInv
  <2> QED
    BY <1>12, <2>1 DEF Pop, TypeInv, BufTypes, Ids
<1>13. ASSUME NEW s \in Streams, StopClear(s) \/ StopPop(s) \/ StopWait(s) PROVE BufTypes'
  <2>1. CASE StopClear(s)
    BY <2>1 DEF StopClear, TypeInv, BufTypes, BufsOf, Ids
  <2>2. CASE StopPop(s)
    BY <1>3, <1>12, <2>2 DEF StopPop, bufVars
  <2>3. CASE StopWait(s)
    BY <1>3, <2>3 DEF StopWait, bufVars
  <2> QED
    BY <1>13, <2>1, <2>2, <2>3
<1>14. ASSUME NEW s \in Streams, StopCancel(s) \/ Detach(s) PROVE BufTypes'
  BY <1>14 DEF StopCancel, Detach, TypeInv, BufTypes, BufsOf, Ids
<1>15. ASSUME NEW s \in Streams, Cleanup(s) PROVE BufTypes'
  <2>1. Bst /\ Owed /\ Sets
    BY <1>15 DEF Cleanup, TypeInv, BufTypes
  <2>2. Rid
    BY <1>15 DEF Cleanup, TypeInv, BufTypes
  <2> QED
    BY <1>1, <2>1, <2>2
<1>16. ASSUME Work PROVE BufTypes'
  <2>1. CASE WorkPop
    BY <1>3, <1>12, <2>1 DEF WorkPop, bufVars
  <2>2. CASE UNCHANGED bufVars
    BY <1>3, <2>2 DEF bufVars
  <2> QED
    BY <1>16, <2>1, <2>2 DEF Work, WorkFind, WorkResolution, WorkTest, WorkSet, WorkError, WorkClear, WorkStale
<1>17. ASSUME BackEnd PROVE BufTypes'
  <2>1. ASSUME NEW b \in Bufs, BufDone(b) PROVE BufTypes'
    <3>1. Bst /\ Rid /\ Sets
      BY <2>1 DEF BufDone, TypeInv, BufTypes
    <3>2. owed[b] - 1 \in 0..MaxOwed
      BY <2>1, BaseAssumption DEF BufDone, TypeInv, BufTypes
    <3>3. Owed
      BY <2>1, <3>2 DEF BufDone, TypeInv, BufTypes
    <3> QED
      BY <1>1, <3>1, <3>3
  <2> QED
    BY <1>3, <1>17, <2>1 DEF BackEnd, Answer, AnswerEos, Post, bufVars
<1>18. CASE UNCHANGED vars
  BY <1>3, <1>18 DEF vars, bufVars
<1> QED
  BY Steps, <1>4, <1>5, <1>6, <1>7, <1>9, <1>10, <1>11, <1>13, <1>14, <1>15, <1>16, <1>17, <1>18
     DEF Queueing, QueueStep

\* The calls under way keep their types.
LEMMA CallTypeStep ==
  ASSUME TypeInv, IopInv, QopInv, LockInv, [Next]_vars
  PROVE  CallTypes'
<1> DEFINE Vd == vd' \in Streams \cup {None, "work"}
           Iop == iop' \in [Streams -> Call]
           Qop == qop' \in [Streams -> QueueCall]
           Events == events' \subseteq Streams \X EventKinds
           Wk == wk' \in Handling
<1>1. Vd /\ Iop /\ Qop /\ Wk /\ Events => CallTypes'
  BY DEF CallTypes
<1>2. /\ UNCHANGED vd => Vd
      /\ UNCHANGED iop => Iop
      /\ UNCHANGED qop => Qop
      /\ UNCHANGED events => Events
      /\ UNCHANGED wk => Wk
  BY DEF TypeInv, CallTypes
<1>3. NoOp \in Call /\ NoOp \in QueueCall /\ NoEvent \in Handling
  BY DEF NoOp, NoEvent, Call, QueueCall, Handling
<1>0. Queues \subseteq Names
  BY DEF Queues, Names
<1>4. ASSUME NEW s \in Streams, Opening(s) PROVE CallTypes'
  BY <1>1, <1>2, <1>4, OpeningFrame
<1>5. ASSUME NEW s \in Streams, Calling(s) PROVE CallTypes'
  <2>0. UNCHANGED <<qop, events, wk>>
    BY <1>5, CallingFrame
  <2>1. Vd
    BY <1>5, CallingLock
  <2>2. ASSUME NEW at \in {"set", "test", "start", "stop", "crop"},
               NEW k \in {"s_fmt", "s_parm", "s_selection", "start", "stop"},
               NEW q \in Queues, NEW v \in Fmts \cup {None}, Enter(s, k, at, q, v)
        PROVE  Iop
    <3>1. [at |-> at, kind |-> k, q |-> q, v |-> v] \in Call
      BY <1>0 DEF Call
    <3> QED
      BY <2>2, <3>1 DEF Enter, TypeInv, CallTypes
  <2>3. ASSUME NEW l \in {"get_in", "get_out", "test", "init", "get", "drain"}, IGo(s, l) PROVE Iop
    BY <2>3 DEF IGo, TypeInv, CallTypes, Call
  <2>4. ASSUME IEnd(s) PROVE Iop
    BY <1>3, <2>4 DEF IEnd, TypeInv, CallTypes
  <2> HIDE DEF Iop
  <2>5. ASSUME SFmt(s) \/ SParm(s) \/ SSelection(s) PROVE Iop
    <3>1. dev = "enc" => "in" \in Queues
      BY DEF Queues, IsM2m
    <3> QED
      BY <2>2, <2>5, <3>1 DEF SFmt, SParm, SSelection
  <2>6. ASSUME GFmt(s) \/ Cmd(s) PROVE Iop
    <3>1. "out" \in Queues
      BY DEF Queues
    <3> QED
      BY <2>2, <2>6, <3>1 DEF GFmt, Cmd
  <2>7. ASSUME SetParams(s) \/ GetIn(s) \/ GetOut(s) PROVE Iop
    BY <2>3, <2>7 DEF SetParams, GetIn, GetOut, GetParams
  <2>8. ASSUME Test(s) \/ SetInit(s) \/ Crop(s) \/ CropGet(s) PROVE Iop
    BY <2>3, <2>4, <2>8 DEF Test, SetInit, Crop, CropGet
  <2>9. ASSUME Start(s) \/ Drain(s) \/ SetDrain(s) PROVE Iop
    BY <2>3, <2>4, <2>9 DEF Start, Drain, SetDrain
  <2>10. Iop
    BY <1>5, <2>5, <2>6, <2>7, <2>8, <2>9 DEF Calling
  <2> QED
    BY <1>1, <1>2, <2>0, <2>1, <2>10
<1>6. ASSUME NEW s \in Streams, NEW k \in {"qbuf", "streamon", "streamoff", "reqbufs", "release"},
             NEW l \in {"queue", "start", "clear", "cancel", "detach", "cleanup"}, NEW q \in Names,
             NEW v \in Bufs \cup {None}, QBegin(s, k, l, q, v)
      PROVE  Qop
  <2>1. [at |-> l, kind |-> k, q |-> q, v |-> v] \in QueueCall
    BY DEF QueueCall
  <2> QED
    BY <1>6, <2>1 DEF QBegin, TypeInv, CallTypes
<1>7. ASSUME NEW s \in Streams, NEW l \in {"run", "pop", "wait", "cancel", "cleanup", "destroy"}, QGo(s, l) PROVE Qop
  BY <1>7 DEF QGo, TypeInv, CallTypes, QueueCall
<1>8. ASSUME NEW s \in Streams, QEnd(s) PROVE Qop
  BY <1>3, <1>8 DEF QEnd, TypeInv, CallTypes
<1>9. ASSUME NEW s \in Streams, Close(s) PROVE CallTypes'
  <2>1. Qop
    BY <1>6, <1>9 DEF Close, Names
  <2> QED
    BY <1>1, <1>2, <1>9, <2>1 DEF Close, evVars
<1>10. ASSUME NEW s \in Streams, CloseFree(s) PROVE CallTypes'
  <2>1. Qop
    BY <1>8, <1>10 DEF CloseFree
  <2> QED
    BY <1>1, <1>2, <1>10, <2>1 DEF CloseFree, evVars
<1>11. ASSUME NEW s \in Streams, Queueing(s) PROVE CallTypes'
  <2>1. UNCHANGED <<vd, iop, events, wk>>
    BY <1>11, QueueFrame
  <2>2. ASSUME NEW b \in Bufs, StreamOf[b] = s, BufInit(b) \/ QBuf(b) \/ DQBuf(b) PROVE Qop
    <3>1. QueueOf[b] \in Names
      BY BaseAssumption DEF Names
    <3> QED
      BY <1>2, <1>6, <2>2, <3>1 DEF BufInit, QBuf, DQBuf
  <2>3. ASSUME NEW q \in Queues, StreamOn(s, q) \/ StreamOff(s, q) \/ ReqBufs(s, q) PROVE Qop
    BY <1>0, <1>6, <2>3 DEF StreamOn, StreamOff, ReqBufs
  <2> QED
    BY <1>1, <1>2, <1>11, <2>1, <2>2, <2>3 DEF Queueing
<1>12. ASSUME NEW s \in Streams, QueueStep(s), ~CloseFree(s) PROVE CallTypes'
  <2>1. UNCHANGED <<vd, iop, events, wk>>
    BY <1>12, QueueFrame
  <2>2. ASSUME Cleanup(s) PROVE Qop
    <3>1. CASE qop' = [qop EXCEPT ![s].q = "in", ![s].at = IF "in" \in streaming[s] THEN "clear" ELSE "cleanup"]
      <4> DEFINE l == IF "in" \in streaming[s] THEN "clear" ELSE "cleanup"
                 o == [[qop[s] EXCEPT !.q = "in"] EXCEPT !.at = l]
      <4>1. l \in {"clear", "cleanup"}
        OBVIOUS
      <4> HIDE DEF l
      <4>2. qop[s] \in QueueCall
        BY DEF TypeInv, CallTypes
      <4>3. o \in QueueCall
        BY <4>1, <4>2 DEF QueueCall, Names
      <4>4. qop' = [qop EXCEPT ![s] = o]
        BY <3>1 DEF l, TypeInv, CallTypes
      <4> HIDE DEF o
      <4> QED
        BY <4>3, <4>4 DEF TypeInv, CallTypes
    <3>2. QEnd(s) \/ QGo(s, "destroy") \/
          qop' = [qop EXCEPT ![s].q = "in", ![s].at = IF "in" \in streaming[s] THEN "clear" ELSE "cleanup"]
      BY <2>2 DEF Cleanup
    <3> QED
      BY <1>7, <1>8, <3>1, <3>2
  <2> HIDE DEF Qop
  <2>3. ASSUME QBufQueue(s) \/ StartRefused(s) \/ StartTest(s) \/ StartRun(s) PROVE Qop
    BY <1>7, <1>8, <2>3 DEF QBufQueue, StartRefused, StartTest, StartRun, On
  <2>4. ASSUME StopClear(s) \/ StopPop(s) \/ StopWait(s) PROVE Qop
    BY <1>2, <1>7, <2>4 DEF StopClear, StopPop, StopWait
  <2>5. ASSUME StopCancel(s) \/ Detach(s) PROVE Qop
    BY <1>7, <1>8, <2>5 DEF StopCancel, Detach
  <2> QED
    BY <1>1, <1>2, <1>12, <2>1, <2>2, <2>3, <2>4, <2>5 DEF QueueStep
<1>13. ASSUME Work PROVE CallTypes'
  <2>1. UNCHANGED <<iop, qop>>
    BY <1>13, WorkFrame
  <2>2. Events
    BY <1>13 DEF Work, WorkFind, WorkResolution, WorkTest, WorkSet, WorkError, WorkClear, WorkPop, WorkStale,
       WorkRest, TypeInv, CallTypes
  <2>3. Vd
    BY <1>13, WorkLock DEF TypeInv, CallTypes
  <2>4. ASSUME NEW l \in {"test", "set", "in", "out", "pop"}, WGo(l) PROVE Wk
    BY <2>4 DEF WGo, TypeInv, CallTypes, Handling
  <2>5. ASSUME WEnd PROVE Wk
    BY <1>3, <2>5 DEF WEnd
  <2>6. ASSUME WorkFind PROVE Wk
    <3>1. PICK e \in events : wk' = [at |-> e[2], s |-> e[1], k |-> e[2]] \/ UNCHANGED wk
      BY <2>6 DEF WorkFind
    <3>2. e[1] \in Streams /\ e[2] \in EventKinds /\ e[2] \in {"error", "resolution"}
      BY BaseAssumption DEF TypeInv, CallTypes
    <3>3. [at |-> e[2], s |-> e[1], k |-> e[2]] \in Handling
      BY <3>2 DEF Handling
    <3> QED
      BY <1>2, <3>1, <3>3
  <2> HIDE DEF Wk
  <2>7. ASSUME WorkResolution \/ WorkTest \/ WorkSet \/ WorkError PROVE Wk
    BY <2>4, <2>5, <2>7 DEF WorkResolution, WorkTest, WorkSet, WorkError
  <2>8. ASSUME WorkClear("in") \/ WorkClear("out") \/ WorkStale PROVE Wk
    BY <2>4, <2>5, <2>8 DEF WorkClear, WorkStale
  <2>9. ASSUME WorkPop PROVE Wk
    BY <1>2, <2>5, <2>9 DEF WorkPop
  <2> QED
    BY <1>1, <1>2, <1>13, <2>1, <2>2, <2>3, <2>6, <2>7, <2>8, <2>9 DEF Work
<1>14. ASSUME BackEnd PROVE CallTypes'
  <2>1. UNCHANGED <<vd, iop, qop, wk>>
    BY <1>14, BackEndFrame
  <2>2. Events
    <3>1. UNCHANGED events \/ \E s \in Streams, k \in EventKinds : events' = events \cup {<<s, k>>}
      BY <1>14 DEF BackEnd, Answer, AnswerEos, BufDone, Post, evVars
    <3> QED
      BY <3>1 DEF TypeInv, CallTypes
  <2> QED
    BY <1>1, <1>2, <2>1, <2>2
<1>15. CASE UNCHANGED vars
  BY <1>1, <1>2, <1>15 DEF vars, evVars
<1> QED
  BY Steps, <1>4, <1>5, <1>9, <1>10, <1>11, <1>12, <1>13, <1>14, <1>15

-----------------------------------------------------------------------------
(* Queue ioctls. *)

\* A step for one stream does not touch the buffers of another but to complete active ones.
LEMMA OtherBuffers ==
  ASSUME TypeInv, QopInv, ListInv, NEW s \in Streams, Queueing(s) \/ (QueueStep(s) /\ ~CloseFree(s)),
         NEW c \in Bufs, StreamOf[c] # s, bst[c] # "active"
  PROVE  bst'[c] = bst[c]
<1>1. CASE \E b \in Bufs : StreamOf[b] = s /\ (BufInit(b) \/ QBuf(b) \/ DQBuf(b))
  BY <1>1 DEF BufInit, QBuf, DQBuf, bufVars, TypeInv, BufTypes
<1>2. CASE \E q \in Queues : StreamOn(s, q) \/ StreamOff(s, q) \/ ReqBufs(s, q)
  BY <1>2, Queued, Enqueued DEF StreamOn, StreamOff, ReqBufs, bufVars, BufsOf
<1>3. CASE QBufQueue(s)
  <2>1. qop[s].v \in Bufs /\ c # qop[s].v
    BY <1>3, Queued DEF BufsOf
  <2>2. CASE Enqueue({qop[s].v})
    BY <2>1, <2>2, Enqueued
  <2>3. CASE bst' = [bst EXCEPT ![qop[s].v] = "prep"]
    BY <2>1, <2>3 DEF TypeInv, BufTypes
  <2> QED
    BY <1>3, <2>2, <2>3 DEF QBufQueue
<1>4. CASE StartRefused(s) \/ StartTest(s) \/ StartRun(s)
  BY <1>4 DEF StartRefused, StartTest, StartRun, bufVars, TypeInv, BufTypes, BufsOf
<1>5. CASE StopClear(s) \/ StopPop(s) \/ StopWait(s) \/ StopCancel(s)
  BY <1>5 DEF StopClear, StopPop, Pop, StopWait, StopCancel, bufVars, TypeInv, BufTypes, BufsOf
<1>6. CASE Detach(s) \/ Cleanup(s)
  BY <1>6 DEF Detach, Cleanup, TypeInv, BufTypes, BufsOf
<1> QED
  BY <1>1, <1>2, <1>3, <1>4, <1>5, <1>6 DEF Queueing, QueueStep

\* A queue ioctl runs on an open stream, a release on a stream that is closing.
LEMMA QopStep ==
  ASSUME TypeInv, IopInv, QopInv, LockInv, ListInv, [Next]_vars
  PROVE  QopInv'
<1> DEFINE Where(t) == \/ qop[t] = NoOp /\ pc[t] # "closing"
                       \/ /\ qop[t].at # "none" /\ qop[t].q \in Queues
                          /\ pc[t] = IF qop[t].kind = "release" THEN "closing" ELSE "open"
           Asks(t) == qop[t].at = "queue" => qop[t].v \in BufsOf(t, qop[t].q) /\ bst[qop[t].v] = "user"
           Frees(t) == /\ qop[t].at \in {"queue", "start", "run"} => qop[t].kind # "release"
                       /\ qop[t].at = "detach" => qop[t].kind = "reqbufs"
                       /\ qop[t].at = "cleanup" => qop[t].kind \in {"reqbufs", "release"} /\ qop[t].q \notin streaming[t]
                       /\ qop[t].at = "destroy" => qop[t].kind = "release"
           Good(t) == Where(t) /\ Asks(t) /\ Frees(t)
<1>1. \A t \in Streams : Good(t)
  BY DEF QopInv
<1>2. (\A t \in Streams : Good(t)') => QopInv'
  BY DEF QopInv
<1>3. ASSUME NEW t \in Streams, UNCHANGED dev, qop'[t] = qop[t], pc'[t] = pc[t], streaming'[t] = streaming[t],
             \A b \in Bufs : StreamOf[b] = t /\ bst[b] # "active" => bst'[b] = bst[b]
      PROVE  Good(t)'
  BY <1>1, <1>3 DEF Queues, IsM2m, BufsOf
<1>4. ASSUME NEW t \in Streams, qop'[t] = NoOp, pc'[t] # "closing" PROVE Good(t)'
  BY <1>4 DEF NoOp
<1>5. ASSUME NEW s \in Streams, Opening(s) PROVE \A t \in Streams : Good(t)'
  <2>1. UNCHANGED <<dev, bst, streaming, qop>> /\ \A t \in Streams : t # s => pc'[t] = pc[t]
    BY <1>5, OpeningFrame
  <2>2. pc[s] \notin {"open", "closing"} /\ pc'[s] # "closing"
    BY <1>5 DEF Opening, OpenBusy, OpenCreate, OpenParams, OpenQueues, OpenFail, OpenClearBusy, GoTo,
                TypeInv, StreamTypes
  <2>3. qop[s] = NoOp
    BY <1>1, <2>2
  <2>4. \A t \in Streams : t # s => Good(t)'
    BY <1>3, <2>1
  <2> QED
    BY <1>4, <2>1, <2>2, <2>3, <2>4
<1>6. ASSUME UNCHANGED <<dev, qop, pc, streaming>>, \A b \in Bufs : bst[b] # "active" => bst'[b] = bst[b]
      PROVE  \A t \in Streams : Good(t)'
  BY <1>3, <1>6
<1>7. ASSUME NEW s \in Streams, Close(s) PROVE \A t \in Streams : Good(t)'
  <2>1. /\ UNCHANGED <<dev, bst, streaming>> /\ \A t \in Streams : t # s => pc'[t] = pc[t] /\ qop'[t] = qop[t]
    BY <1>7 DEF Close, QBegin, GoTo, bufVars, TypeInv, StreamTypes, CallTypes
  <2>2. pc'[s] = "closing"
    BY <1>7 DEF Close, GoTo, TypeInv, StreamTypes
  <2>3. qop'[s] = [at |-> IF "out" \in streaming[s] THEN "clear" ELSE "cleanup", kind |-> "release", q |-> "out", v |-> None]
    BY <1>7 DEF Close, QBegin, TypeInv, CallTypes
  <2>4. Good(s)'
    <3>1. /\ qop'[s].at = IF "out" \in streaming[s] THEN "clear" ELSE "cleanup"
          /\ qop'[s].kind = "release" /\ qop'[s].q = "out"
      BY <2>3
    <3>2. "out" \in Queues'
      BY DEF Queues
    <3> QED
      BY <2>1, <2>2, <3>1, <3>2
  <2>5. \A t \in Streams : t # s => Good(t)'
    BY <1>3, <2>1
  <2> QED
    BY <2>4, <2>5
<1>8. ASSUME NEW s \in Streams, CloseFree(s) PROVE \A t \in Streams : Good(t)'
  <2>1. /\ UNCHANGED <<dev, bst, streaming>> /\ \A t \in Streams : t # s => pc'[t] = pc[t] /\ qop'[t] = qop[t]
    BY <1>8 DEF CloseFree, QEnd, GoTo, TypeInv, StreamTypes, CallTypes
  <2>2. pc'[s] = "free" /\ qop'[s] = NoOp
    BY <1>8 DEF CloseFree, QEnd, GoTo, TypeInv, StreamTypes, CallTypes
  <2>3. \A t \in Streams : t # s => Good(t)'
    BY <1>3, <2>1
  <2> QED
    BY <1>4, <2>2, <2>3
<1>9. ASSUME NEW s \in Streams, Queueing(s) \/ (QueueStep(s) /\ ~CloseFree(s)) PROVE \A t \in Streams : Good(t)'
  <2>1. /\ UNCHANGED <<dev, pc>>
        /\ \A t \in Streams : t # s => streaming'[t] = streaming[t] /\ qop'[t] = qop[t]
    BY <1>9, QueueFrame
  <2>2. \A t \in Streams : t # s => Good(t)'
    BY <1>3, <1>9, <2>1, OtherBuffers
  <2>3. ASSUME QEnd(s), pc[s] # "closing" PROVE Good(s)'
    BY <1>4, <2>1, <2>3 DEF QEnd, TypeInv, CallTypes
  <2>4. ASSUME NEW l \in {"run", "pop", "wait", "cancel"}, QGo(s, l), qop[s] # NoOp,
               l = "run" => qop[s].at = "start"
        PROVE  Good(s)'
    <3>1. qop'[s].at = l /\ qop'[s].q = qop[s].q /\ qop'[s].kind = qop[s].kind
      BY <2>4 DEF QGo, TypeInv, CallTypes, QueueCall
    <3>2. qop'[s].q \in Queues'
      BY <1>1, <2>1, <2>4, <3>1 DEF Queues, IsM2m
    <3> QED
      BY <1>1, <2>1, <2>4, <3>1, <3>2
  <2>5. ASSUME NEW k \in {"qbuf", "streamon", "streamoff", "reqbufs"}, NEW l, NEW q, NEW v, QBegin(s, k, l, q, v)
        PROVE  /\ qop'[s].at = l /\ qop'[s].kind = k /\ qop'[s].q = q /\ qop'[s].v = v
               /\ l # "none" => Where(s)'
    <3>1. qop'[s] = [at |-> l, kind |-> k, q |-> q, v |-> v] /\ pc[s] = "open" /\ q \in Queues
      BY <2>5 DEF QBegin, TypeInv, CallTypes
    <3>2. qop'[s].at = l /\ qop'[s].kind = k /\ qop'[s].q = q /\ qop'[s].v = v
      BY <3>1
    <3>3. q \in Queues'
      BY <2>1, <3>1 DEF Queues, IsM2m
    <3> QED
      BY <2>1, <3>1, <3>2, <3>3
  <2>6. \A l : l # "none" /\ QAt(s, l) => qop[s] # NoOp
    BY DEF QAt, NoOp
  <2> HIDE DEF Where, Asks, Frees
  <2>7. ASSUME NEW b \in Bufs, StreamOf[b] = s, BufInit(b) \/ QBuf(b) \/ DQBuf(b) PROVE Good(s)'
    <3>1. CASE BufInit(b) \/ DQBuf(b)
      <4>1. qop'[s] = NoOp /\ pc'[s] # "closing"
        BY <2>1, <2>7, <3>1 DEF BufInit, DQBuf
      <4> QED
        BY <1>4, <4>1
    <3>2. CASE QBuf(b)
      <4>1. QBegin(s, "qbuf", "queue", QueueOf[b], b) /\ bst' = bst /\ bst[b] = "user"
        BY <2>7, <3>2 DEF QBuf, bufVars
      <4>2. /\ Where(s)' /\ qop'[s].at = "queue" /\ qop'[s].kind = "qbuf" /\ qop'[s].q = QueueOf[b]
            /\ qop'[s].v = b
        BY <2>5, <4>1
      <4>3. Asks(s)'
        BY <2>7, <4>1, <4>2 DEF Asks, BufsOf
      <4>4. Frees(s)'
        BY <4>2 DEF Frees
      <4> QED
        BY <4>2, <4>3, <4>4
    <3> QED
      BY <2>7, <3>1, <3>2
  <2>8. ASSUME NEW q \in Queues, StreamOn(s, q) \/ StreamOff(s, q) \/ ReqBufs(s, q) PROVE Good(s)'
    <3>1. \E k \in {"streamon", "streamoff", "reqbufs"}, l \in {"start", "clear", "cancel", "detach"} :
            QBegin(s, k, l, q, None) /\ (l = "detach" => k = "reqbufs")
      BY <2>8 DEF StreamOn, StreamOff, ReqBufs
    <3>2. PICK k \in {"streamon", "streamoff", "reqbufs"}, l \in {"start", "clear", "cancel", "detach"} :
            QBegin(s, k, l, q, None) /\ (l = "detach" => k = "reqbufs")
      BY <3>1
    <3>3. Where(s)' /\ qop'[s].at = l /\ qop'[s].kind = k
      BY <2>5, <3>2
    <3> QED
      BY <3>2, <3>3 DEF Asks, Frees
  <2>9. ASSUME QBufQueue(s) \/ StartRefused(s) \/ StartRun(s) \/ StartTest(s) PROVE Good(s)'
    <3>1. QAt(s, "queue") \/ QAt(s, "start") \/ QAt(s, "run")
      BY <2>9 DEF QBufQueue, StartRefused, StartRun, StartTest
    <3>2. qop[s] # NoOp
      BY <2>6, <3>1
    <3>3. QEnd(s) \/ (QGo(s, "run") /\ qop[s].at = "start")
      BY <2>9 DEF QBufQueue, StartRefused, StartRun, StartTest, On, QAt
    <3>4. pc[s] # "closing"
      <4>1. qop[s].kind # "release"
        BY <1>1, <3>1 DEF Frees, QAt
      <4> QED
        BY <1>1, <3>2, <4>1 DEF Where
    <3> QED
      BY <2>3, <2>4, <3>2, <3>3, <3>4
  <2>10. ASSUME StopClear(s) \/ StopPop(s) \/ StopWait(s) PROVE Good(s)'
    <3>1. QAt(s, "clear") \/ QAt(s, "pop") \/ QAt(s, "wait")
      BY <2>10 DEF StopClear, StopPop, StopWait
    <3>2. qop[s] # NoOp
      BY <2>6, <3>1
    <3>3. (\E l \in {"pop", "wait", "cancel"} : QGo(s, l)) \/ UNCHANGED <<qop, streaming>>
      BY <2>10 DEF StopClear, StopPop, StopWait
    <3>4. CASE UNCHANGED <<qop, streaming>>
      <4>1. qop[s].at # "queue"
        BY <3>1 DEF QAt
      <4>2. Where(s)'
        BY <1>1, <2>1, <3>4 DEF Where, Queues, IsM2m
      <4>3. Frees(s)'
        BY <1>1, <3>4 DEF Frees
      <4> QED
        BY <3>4, <4>1, <4>2, <4>3 DEF Asks
    <3> QED
      BY <2>4, <3>2, <3>3, <3>4
  <2>11. ASSUME NEW l \in {"cleanup", "destroy"}, QGo(s, l), qop[s] # NoOp, qop[s].kind \in {"reqbufs", "release"},
                l = "cleanup" => qop[s].q \notin streaming'[s], l = "destroy" => qop[s].kind = "release"
         PROVE  Good(s)'
    <3>1. qop'[s].at = l /\ qop'[s].q = qop[s].q /\ qop'[s].kind = qop[s].kind
      BY <2>11 DEF QGo, TypeInv, CallTypes, QueueCall
    <3>2. Where(s)'
      BY <1>1, <2>1, <2>11, <3>1 DEF Where, Queues, IsM2m
    <3> QED
      BY <2>11, <3>1, <3>2 DEF Asks, Frees
  <2>12. ASSUME StopCancel(s) PROVE Good(s)'
    <3>1. qop[s] # NoOp
      BY <2>6, <2>12 DEF StopCancel
    <3>2. qop[s].q \notin streaming'[s]
      BY <2>12 DEF StopCancel, TypeInv, StreamTypes
    <3>3. qop[s].kind # "release" => pc[s] # "closing"
      BY <1>1, <3>1 DEF Where
    <3> QED
      BY <2>3, <2>11, <2>12, <3>1, <3>2, <3>3 DEF StopCancel
  <2>13. ASSUME Detach(s) PROVE Good(s)'
    <3>1. qop[s] # NoOp /\ qop[s].kind = "reqbufs" /\ UNCHANGED streaming
      BY <1>1, <2>6, <2>13 DEF Detach, QAt, Frees
    <3>2. pc[s] # "closing"
      BY <1>1, <3>1 DEF Where
    <3> QED
      BY <2>3, <2>11, <2>13, <3>1, <3>2 DEF Detach
  <2>14. ASSUME Cleanup(s) PROVE Good(s)'
    <3>1. qop[s] # NoOp /\ qop[s].kind \in {"reqbufs", "release"} /\ UNCHANGED streaming
      BY <1>1, <2>6, <2>14 DEF Cleanup, QAt, Frees
    <3>2. qop[s].kind # "release" => pc[s] # "closing"
      BY <1>1, <3>1 DEF Where
    <3>3. CASE qop[s].kind = "release" /\ IsM2m /\
               qop' = [qop EXCEPT ![s].q = "in", ![s].at = IF "in" \in streaming[s] THEN "clear" ELSE "cleanup"]
      <4> DEFINE l == IF "in" \in streaming[s] THEN "clear" ELSE "cleanup"
      <4>1. l \in {"clear", "cleanup"} /\ (l = "cleanup" => "in" \notin streaming'[s])
        BY <3>1
      <4>2. qop' = [qop EXCEPT ![s].q = "in", ![s].at = l]
        BY <3>3
      <4> HIDE DEF l
      <4>3. qop'[s].at = l /\ qop'[s].q = "in" /\ qop'[s].kind = "release"
        BY <3>3, <4>2 DEF TypeInv, CallTypes, QueueCall
      <4>4. "in" \in Queues'
        BY <2>1, <3>3 DEF Queues, IsM2m
      <4>5. Where(s)'
        BY <1>1, <2>1, <3>1, <3>3, <4>1, <4>3, <4>4 DEF Where
      <4> QED
        BY <4>1, <4>3, <4>5 DEF Asks, Frees
    <3>4. CASE qop[s].kind = "reqbufs" /\ QEnd(s)
      BY <2>3, <3>2, <3>4
    <3>5. CASE qop[s].kind = "release" /\ QGo(s, "destroy")
      BY <2>11, <3>1, <3>5
    <3> QED
      BY <2>14, <3>1, <3>3, <3>4, <3>5 DEF Cleanup
  <2>15. Good(s)'
    BY <1>9, <2>7, <2>8, <2>9, <2>10, <2>12, <2>13, <2>14 DEF Queueing, QueueStep
  <2> QED
    BY <2>2, <2>15
<1>10. ASSUME Work PROVE \A t \in Streams : Good(t)'
  <2>1. \A b \in Bufs : bst[b] # "active" => bst'[b] = bst[b]
    BY <1>10 DEF Work, WorkFind, WorkResolution, WorkTest, WorkSet, WorkError, WorkClear, WorkPop, WorkStale, Pop,
       bufVars, TypeInv, BufTypes
  <2> QED
    BY <1>6, <1>10, <2>1, WorkFrame
<1>11. ASSUME BackEnd PROVE \A t \in Streams : Good(t)'
  <2>1. \A b \in Bufs : bst[b] # "active" => bst'[b] = bst[b]
    BY <1>11 DEF BackEnd, Answer, AnswerEos, BufDone, Post, bufVars, TypeInv, BufTypes
  <2> QED
    BY <1>6, <1>11, <2>1, BackEndFrame
<1>12. ASSUME NEW s \in Streams, Calling(s) PROVE \A t \in Streams : Good(t)'
  BY <1>6, <1>12, CallingFrame
<1>13. ASSUME UNCHANGED vars PROVE \A t \in Streams : Good(t)'
  BY <1>6, <1>13 DEF vars, bufVars
<1> HIDE DEF Good
<1> QED
  BY Steps, <1>2, <1>5, <1>7, <1>8, <1>9, <1>10, <1>11, <1>12, <1>13

-----------------------------------------------------------------------------
(* What is owed, and what is listed. *)

\* When vb2 frees the buffers of a queue, the driver has none of them.
LEMMA NoneActive ==
  ASSUME TypeInv, QopInv, ActiveInv, NEW s \in Streams
  PROVE  /\ qop[s].at = "cleanup" => \A b \in BufsOf(s, qop[s].q) : bst[b] # "active"
         /\ \A q \in Queues : qop[s] = NoOp /\ q \notin streaming[s] => \A b \in BufsOf(s, q) : bst[b] # "active"
BY DEF QopInv, ActiveInv, BufsOf, NoOp

\* Every active buffer is owed or was not sent, and every owed one that is not active went back early.
LEMMA OwedStep ==
  ASSUME TypeInv, QopInv, ListInv, ActiveInv, ActiveOwed, OwedInv, [Next]_vars
  PROVE  ActiveOwed' /\ OwedInv'
<1> DEFINE Good(c) == /\ bst[c] = "active" => owed[c] > 0 \/ c \in unsent
                      /\ bst[c] # "active" /\ owed[c] > 0 => c \in early
                      /\ bst[c] = "active" /\ (owed[c] > 1 \/ (c \in unsent /\ owed[c] > 0)) => c \in early
           Goal == \A c \in Bufs : Good(c)'
<1>0. \A c \in Bufs : owed[c] \in Nat
  BY BaseAssumption DEF TypeInv, BufTypes
<1>1. \A c \in Bufs : Good(c)
  BY DEF ActiveOwed, OwedInv
<1>2. Goal => ActiveOwed' /\ OwedInv'
  BY DEF ActiveOwed, OwedInv
<1>3. ASSUME UNCHANGED <<owed, unsent, early>>, \A c \in Bufs : (bst'[c] = "active") <=> (bst[c] = "active") PROVE Goal
  BY <1>1, <1>3
<1>4. ASSUME NEW s \in Streams, Opening(s) \/ Calling(s) \/ Close(s) \/ CloseFree(s) PROVE Goal
  BY <1>3, <1>4, OpeningFrame, CallingFrame DEF Close, CloseFree, bufVars
<1>5. ASSUME NEW b \in Bufs, BufInit(b) \/ QBuf(b) \/ DQBuf(b) PROVE Goal
  BY <1>3, <1>5 DEF BufInit, QBuf, DQBuf, bufVars, TypeInv, BufTypes
<1>6. ASSUME NEW B \in SUBSET Bufs, Enqueue(B), \A c \in B : bst[c] # "active", UNCHANGED early PROVE Goal
  <2>1. PICK lost \in SUBSET B :
              /\ \A c \in Bufs : owed'[c] = IF c \in B \ lost THEN owed[c] + 1 ELSE owed[c]
              /\ unsent' = (unsent \ B) \cup lost
    BY <1>6, Enqueued
  <2>2. \A c \in Bufs : bst'[c] = IF c \in B THEN "active" ELSE bst[c]
    BY <1>6, Enqueued
  <2> TAKE c \in Bufs
  <2>3. CASE c \notin B
    BY <1>1, <1>6, <2>1, <2>2, <2>3
  <2>4. CASE c \in B
    BY <1>0, <1>1, <1>6, <2>1, <2>2, <2>4
  <2> QED
    BY <2>3, <2>4
<1>7. ASSUME NEW s \in Streams, NEW q \in Queues, StreamOn(s, q) \/ StreamOff(s, q) \/ ReqBufs(s, q) PROVE Goal
  <2>1. CASE StreamOn(s, q)
    <3> DEFINE B == {b \in BufsOf(s, q) : bst[b] = "prep"}
    <3>1. Enqueue(B) /\ B \in SUBSET Bufs /\ UNCHANGED early /\ \A c \in B : bst[c] # "active"
      BY <2>1, Queued DEF StreamOn
    <3> HIDE DEF B
    <3> QED
      BY <1>6, <3>1
  <2>2. CASE StreamOff(s, q) \/ ReqBufs(s, q)
    BY <1>3, <2>2 DEF StreamOff, ReqBufs, bufVars
  <2> QED
    BY <1>7, <2>1, <2>2
<1>8. ASSUME NEW s \in Streams, QBufQueue(s) PROVE Goal
  <2>1. qop[s].v \in Bufs /\ bst[qop[s].v] = "user" /\ UNCHANGED early
    BY <1>8, Queued DEF BufsOf, QBufQueue
  <2>2. CASE Enqueue({qop[s].v})
    BY <1>6, <2>1, <2>2
  <2>3. CASE bst' = [bst EXCEPT ![qop[s].v] = "prep"] /\ UNCHANGED <<owed, pending_buf_list, unsent>>
    BY <1>3, <2>1, <2>3 DEF TypeInv, BufTypes
  <2> QED
    BY <1>8, <2>2, <2>3 DEF QBufQueue
<1>9. ASSUME NEW s \in Streams, StartRefused(s) PROVE Goal
  <2> DEFINE B == {b \in BufsOf(s, qop[s].q) : bst[b] = "active"}
  <2>1. /\ \A c \in Bufs : bst'[c] = IF c \in B THEN "prep" ELSE bst[c]
        /\ early' = early \cup {b \in B : owed[b] > 0} /\ UNCHANGED owed
        /\ unsent' = unsent \ (B \ ToSet(pending_buf_list))
        /\ \A c \in B : bst[c] = "active"
    BY <1>9 DEF StartRefused
  <2> HIDE DEF B
  <2> QED
    BY <1>1, <2>1
<1>10. ASSUME NEW s \in Streams, StartTest(s) \/ StartRun(s) \/ StopWait(s) \/ Detach(s) PROVE Goal
  BY <1>3, <1>10 DEF StartTest, StartRun, StopWait, Detach, bufVars
<1>11. ASSUME Pop, pending_buf_list # <<>> PROVE Goal
  <2> DEFINE b == Head(pending_buf_list)
  <2>1. b \in Bufs
    BY <1>11, Taken DEF ListInv
  <2>2. /\ \A c \in Bufs : bst'[c] = IF c = b /\ bst[b] = "active" THEN "done" ELSE bst[c]
        /\ early' = IF bst[b] = "active" THEN early \cup {b} ELSE early
        /\ UNCHANGED <<owed, unsent>>
    BY <1>11, <2>1 DEF Pop, TypeInv, BufTypes
  <2> HIDE DEF b
  <2> QED
    BY <1>1, <2>1, <2>2
<1>12. ASSUME NEW s \in Streams, StopClear(s) \/ StopPop(s) PROVE Goal
  <2>1. CASE StopPop(s)
    BY <1>3, <1>11, <2>1 DEF StopPop, bufVars
  <2>2. CASE StopClear(s)
    <3>1. UNCHANGED <<bst, owed, unsent>> /\ early \subseteq early'
      BY <2>2 DEF StopClear
    <3> QED
      BY <1>1, <3>1
  <2> QED
    BY <1>12, <2>1, <2>2
<1>13. ASSUME NEW s \in Streams, StopCancel(s) PROVE Goal
  <2> DEFINE B == BufsOf(s, qop[s].q)
  <2>1. /\ \A c \in Bufs : bst'[c] = IF c \in B /\ bst[c] # "none" THEN "user" ELSE bst[c]
        /\ unsent' = unsent \ (B \ ToSet(pending_buf_list)) /\ UNCHANGED <<owed, early>>
    BY <1>13 DEF StopCancel
  <2>2. \A c \in B : bst[c] = "active" /\ owed[c] > 0 => c \in early
    BY <1>13 DEF StopCancel, QAt, ActiveInv
  <2> HIDE DEF B
  <2> QED
    BY <1>1, <2>1, <2>2
<1>14. ASSUME NEW s \in Streams, Cleanup(s) PROVE Goal
  <2>1. /\ \A c \in Bufs : (bst'[c] = "active") <=> (bst[c] = "active")
    BY <1>14, NoneActive DEF Cleanup, QAt
  <2> QED
    BY <1>3, <1>14, <2>1 DEF Cleanup
<1>15. ASSUME NEW b \in Bufs, BufDone(b) PROVE Goal
  <2>1. UNCHANGED unsent
    BY <1>15 DEF BufDone
  <2> TAKE c \in Bufs
  <2>2. CASE c # b
    BY <1>1, <1>15, <2>1, <2>2, AnswerEffect
  <2>3. CASE c = b
    BY <1>0, <1>1, <1>15, <2>1, <2>3, AnswerEffect
  <2> QED
    BY <2>2, <2>3
<1> HIDE DEF Goal
<1>16. ASSUME Work PROVE Goal
  <2>1. CASE UNCHANGED bufVars
    BY <1>3, <2>1 DEF bufVars
  <2>2. CASE WorkPop
    BY <1>11, <2>1, <2>2 DEF WorkPop
  <2> QED
    BY <1>16, <2>1, <2>2 DEF Work, WorkFind, WorkResolution, WorkTest, WorkSet, WorkError, WorkClear, WorkStale
<1>17. ASSUME BackEnd PROVE Goal
  BY <1>3, <1>15, <1>17 DEF BackEnd, Answer, AnswerEos, Post, bufVars
<1>18. ASSUME UNCHANGED vars PROVE Goal
  BY <1>3, <1>18 DEF vars, bufVars
<1> QED
  BY Steps, <1>2, <1>4, <1>5, <1>7, <1>8, <1>9, <1>10, <1>12, <1>13, <1>14, <1>16, <1>17, <1>18
     DEF Queueing, QueueStep

\* The driver has buffers only of a queue that streams or is being started, and at the end of a stop
\* none, but for an encoder whose clear failed.
LEMMA ActiveStep ==
  ASSUME TypeInv, QopInv, ListInv, ActiveInv, [Next]_vars
  PROVE  ActiveInv'
<1> DEFINE On_(c) == \/ QueueOf[c] \in streaming[StreamOf[c]]
                     \/ qop[StreamOf[c]].at \in {"start", "run"} /\ qop[StreamOf[c]].q = QueueOf[c]
           Act(c) == bst[c] = "active" => On_(c)
           Stop(c) == LET o == qop[StreamOf[c]] IN
                      o.at = "cancel" /\ QueueOf[c] = o.q /\ bst[c] = "active" => dev = "enc" /\ (owed[c] > 0 => c \in early)
           Good(c) == Act(c) /\ Stop(c)
           Goal == \A c \in Bufs : Good(c)'
           Less(c) == /\ bst'[c] = "active" => bst[c] = "active"
                      /\ (owed'[c] = owed[c] /\ (c \in early => c \in early')) \/ bst'[c] # "active"
<1>0. \A c \in Bufs : StreamOf[c] \in Streams /\ QueueOf[c] \in Names
  BY BaseAssumption DEF Names
<1>1. \A c \in Bufs : Good(c)
  BY <1>0 DEF ActiveInv, BufsOf
<1>2. Goal => ActiveInv'
  BY DEF ActiveInv, BufsOf
<1>3. ASSUME NEW c \in Bufs, UNCHANGED dev, qop'[StreamOf[c]] = qop[StreamOf[c]],
             streaming'[StreamOf[c]] = streaming[StreamOf[c]], Less(c)
      PROVE  Good(c)'
  BY <1>1, <1>3
<1>4. ASSUME UNCHANGED <<dev, qop, streaming>>, \A c \in Bufs : Less(c) PROVE Goal
  BY <1>3, <1>4
<1>5. UNCHANGED bufVars => \A c \in Bufs : Less(c)
  BY DEF bufVars
<1> HIDE DEF Less
<1>6. ASSUME NEW s \in Streams, Opening(s) \/ Calling(s) PROVE Goal
  BY <1>4, <1>5, <1>6, OpeningFrame, CallingFrame DEF bufVars
<1>7. ASSUME NEW s \in Streams, Close(s) \/ CloseFree(s) PROVE Goal
  <2>1. /\ UNCHANGED <<dev, streaming, bst, owed, early>> /\ \A t \in Streams : t # s => qop'[t] = qop[t]
    BY <1>7 DEF Close, CloseFree, QBegin, QEnd, bufVars, TypeInv, CallTypes
  <2>2. qop'[s].at \in {"clear", "cleanup", "none"}
    <3>1. Close(s) => \E at \in {"clear", "cleanup"} : qop'[s] = [at |-> at, kind |-> "release", q |-> "out", v |-> None]
      BY DEF Close, QBegin, TypeInv, CallTypes
    <3>2. CloseFree(s) => qop'[s] = NoOp
      BY DEF CloseFree, QEnd, TypeInv, CallTypes
    <3> QED
      BY <1>7, <3>1, <3>2 DEF NoOp
  <2>3. qop[s].at \in {"none", "destroy"}
    BY <1>7 DEF Close, QBegin, CloseFree, QAt, NoOp
  <2> TAKE c \in Bufs
  <2>4. CASE StreamOf[c] # s
    BY <1>0, <1>3, <2>1, <2>4 DEF Less
  <2>5. CASE StreamOf[c] = s
    BY <1>1, <2>1, <2>2, <2>3, <2>5
  <2> QED
    BY <2>4, <2>5
<1>8. ASSUME NEW s \in Streams, Queueing(s) \/ (QueueStep(s) /\ ~CloseFree(s)) PROVE Goal
  <2>1. UNCHANGED dev /\ \A t \in Streams : t # s => streaming'[t] = streaming[t] /\ qop'[t] = qop[t]
    BY <1>8, QueueFrame
  <2>2. ASSUME NEW c \in Bufs, StreamOf[c] # s, owed'[c] = owed[c], c \in early => c \in early' PROVE Good(c)'
    <3>1. bst'[c] = "active" => bst[c] = "active"
      BY <1>8, <2>2, OtherBuffers
    <3> QED
      BY <1>0, <1>3, <2>1, <2>2, <3>1 DEF Less
  <2>3. \A l : QGo(s, l) => qop'[s].at = l /\ qop'[s].q = qop[s].q
    BY DEF QGo, TypeInv, CallTypes, QueueCall
  <2>4. QEnd(s) => qop'[s].at = "none"
    BY DEF QEnd, TypeInv, CallTypes, NoOp
  <2>5. \A k, l, q, v : QBegin(s, k, l, q, v) => qop'[s].at = l /\ qop'[s].q = q /\ qop[s] = NoOp
    <3> TAKE k, l, q, v
    <3> HAVE QBegin(s, k, l, q, v)
    <3>1. qop'[s] = [at |-> l, kind |-> k, q |-> q, v |-> v] /\ qop[s] = NoOp
      BY DEF QBegin, TypeInv, CallTypes
    <3> QED
      BY <3>1
  <2> HIDE DEF Good
  <2>6. ASSUME NEW b \in Bufs, StreamOf[b] = s, BufInit(b) \/ DQBuf(b) PROVE Goal
    <3>1. UNCHANGED <<streaming, qop, owed, early>> /\ \A c \in Bufs : bst'[c] = "active" => bst[c] = "active"
      BY <2>6 DEF BufInit, DQBuf, TypeInv, BufTypes
    <3> QED
      BY <1>4, <2>1, <3>1 DEF Less
  <2>7. ASSUME NEW b \in Bufs, StreamOf[b] = s, QBuf(b) PROVE Goal
    <3>1. UNCHANGED <<streaming, bst, owed, early>> /\ qop'[s].at = "queue" /\ qop[s].at = "none"
      BY <2>5, <2>7 DEF QBuf, bufVars, NoOp
    <3>2. ASSUME NEW c \in Bufs, StreamOf[c] = s PROVE Good(c)'
      BY <1>1, <3>1, <3>2 DEF Good
    <3> QED
      BY <2>2, <3>1, <3>2
  <2>8. ASSUME NEW q \in Queues, StreamOn(s, q) PROVE Goal
    <3> DEFINE B == {b \in BufsOf(s, q) : bst[b] = "prep"}
    <3>1. Enqueue(B) /\ B \in SUBSET Bufs /\ UNCHANGED <<streaming, early>> /\ \A c \in B : StreamOf[c] = s /\ QueueOf[c] = q
      BY <2>8, Queued DEF StreamOn, BufsOf
    <3>2. qop'[s].at = "start" /\ qop'[s].q = q /\ qop[s].at = "none"
      BY <2>5, <2>8 DEF StreamOn, NoOp
    <3> HIDE DEF B
    <3>3. \A c \in Bufs : /\ bst'[c] = IF c \in B THEN "active" ELSE bst[c]
                          /\ c \notin B => owed'[c] = owed[c]
      BY <3>1, Enqueued
    <3>4. ASSUME NEW c \in Bufs, StreamOf[c] = s PROVE Good(c)'
      BY <1>1, <3>1, <3>2, <3>3, <3>4 DEF Good
    <3> QED
      BY <2>2, <3>1, <3>3, <3>4
  <2>9. ASSUME NEW q \in Queues, StreamOff(s, q) \/ ReqBufs(s, q) PROVE Goal
    <3>1. UNCHANGED <<streaming, bst, owed, early>> /\ qop[s] = NoOp /\ qop'[s].q = q
      BY <2>5, <2>9 DEF StreamOff, ReqBufs, bufVars
    <3>2. qop'[s].at \in {"clear", "cancel", "detach"} /\ (qop'[s].at = "cancel" => q \notin streaming[s])
      BY <2>5, <2>9 DEF StreamOff, ReqBufs
    <3>3. q \notin streaming[s] => \A b \in BufsOf(s, q) : bst[b] # "active"
      BY <3>1, NoneActive
    <3>4. ASSUME NEW c \in Bufs, StreamOf[c] = s PROVE Good(c)'
      <4>1. qop[s].at = "none"
        BY <3>1 DEF NoOp
      <4> QED
        BY <1>1, <3>1, <3>2, <3>3, <3>4, <4>1 DEF Good, BufsOf
    <3> QED
      BY <2>2, <3>1, <3>4
  <2>10. ASSUME QBufQueue(s) PROVE Goal
    <3> DEFINE b == qop[s].v
    <3>1. /\ b \in Bufs /\ StreamOf[b] = s /\ QueueOf[b] = qop[s].q /\ UNCHANGED <<streaming, early>>
          /\ qop[s].at = "queue" /\ qop'[s].at = "none"
      BY <2>4, <2>10, Queued DEF BufsOf, QBufQueue, QAt
    <3>2. CASE qop[s].q \in streaming[s] /\ Enqueue({b})
      <4> HIDE DEF b
      <4>1. \A c \in Bufs : /\ bst'[c] = IF c = b THEN "active" ELSE bst[c]
                            /\ c # b => owed'[c] = owed[c]
        BY <3>1, <3>2, Enqueued
      <4>2. ASSUME NEW c \in Bufs, StreamOf[c] = s PROVE Good(c)'
        BY <1>1, <3>1, <3>2, <4>1, <4>2 DEF Good
      <4> QED
        BY <2>2, <3>1, <4>1, <4>2
    <3>3. CASE bst' = [bst EXCEPT ![b] = "prep"] /\ UNCHANGED <<owed, pending_buf_list, unsent>>
      <4>1. \A c \in Bufs : bst'[c] = "active" => bst[c] = "active"
        BY <3>1, <3>3 DEF TypeInv, BufTypes
      <4>2. ASSUME NEW c \in Bufs, StreamOf[c] = s PROVE Good(c)'
        BY <1>1, <3>1, <4>1, <4>2 DEF Good
      <4> QED
        BY <2>2, <3>1, <3>3, <4>2
    <3> QED
      BY <2>10, <3>2, <3>3 DEF QBufQueue
  <2>11. ASSUME StartRefused(s) PROVE Goal
    <3>1. /\ \A c \in Bufs : bst'[c] = IF StreamOf[c] = s /\ QueueOf[c] = qop[s].q /\ bst[c] = "active" THEN "prep" ELSE bst[c]
          /\ UNCHANGED <<streaming, owed>> /\ early \subseteq early' /\ qop'[s].at = "none"
      BY <2>4, <2>11 DEF StartRefused, BufsOf
    <3>2. ASSUME NEW c \in Bufs, StreamOf[c] = s PROVE Good(c)'
      BY <1>1, <3>1, <3>2 DEF Good
    <3> QED
      BY <2>2, <3>1, <3>2
  <2>12. ASSUME StartTest(s) \/ StartRun(s) PROVE Goal
    <3>1. /\ UNCHANGED <<bst, owed, early>>
          /\ \/ UNCHANGED streaming /\ qop'[s].at = "run" /\ qop'[s].q = qop[s].q
             \/ streaming'[s] = streaming[s] \cup {qop[s].q} /\ qop'[s].at = "none"
          /\ qop[s].at \in {"start", "run"}
      BY <2>3, <2>4, <2>12 DEF StartTest, StartRun, On, QAt, bufVars, TypeInv, StreamTypes
    <3>2. ASSUME NEW c \in Bufs, StreamOf[c] = s PROVE Good(c)'
      BY <1>1, <3>1, <3>2 DEF Good
    <3> QED
      BY <2>2, <3>1, <3>2
  <2>13. ASSUME StopClear(s) PROVE Goal
    <3>1. /\ UNCHANGED <<bst, owed, streaming>> /\ early \subseteq early' /\ qop'[s].q = qop[s].q
          /\ qop[s].at = "clear" /\ qop'[s].at \in {"wait", "pop", "cancel"}
          /\ qop'[s].at = "cancel" => dev = "enc" /\ early' = early \cup {b \in BufsOf(s, qop[s].q) : owed[b] > 0}
      BY <2>3, <2>13 DEF StopClear, QAt
    <3>2. ASSUME NEW c \in Bufs, StreamOf[c] = s PROVE Good(c)'
      BY <1>1, <2>1, <3>1, <3>2 DEF Good, BufsOf
    <3> QED
      BY <2>2, <3>1, <3>2
  <2>14. ASSUME StopPop(s) PROVE Goal
    <3>1. UNCHANGED <<owed, streaming>> /\ early \subseteq early' /\ qop'[s].q = qop[s].q /\ qop[s].at = "pop"
          /\ qop'[s].at \in {"pop", "wait"}
      BY <2>3, <2>14 DEF StopPop, Pop, QAt, bufVars
    <3>2. \A c \in Bufs : bst'[c] = "active" => bst[c] = "active"
      BY <2>14 DEF StopPop, Pop, bufVars, TypeInv, BufTypes
    <3>3. ASSUME NEW c \in Bufs, StreamOf[c] = s PROVE Good(c)'
      BY <1>1, <3>1, <3>2, <3>3 DEF Good
    <3> QED
      BY <2>2, <3>1, <3>3
  <2>15. ASSUME StopWait(s) PROVE Goal
    <3>1. /\ UNCHANGED <<bst, owed, early, streaming>> /\ qop'[s].q = qop[s].q /\ qop[s].at = "wait" /\ qop'[s].at = "cancel"
          /\ \A b \in BufsOf(s, qop[s].q) : bst[b] # "active"
      BY <2>3, <2>15 DEF StopWait, QAt, bufVars
    <3>2. ASSUME NEW c \in Bufs, StreamOf[c] = s PROVE Good(c)'
      BY <1>1, <3>1, <3>2 DEF Good, BufsOf
    <3> QED
      BY <2>2, <3>1, <3>2
  <2>16. ASSUME StopCancel(s) PROVE Goal
    <3>1. /\ \A c \in Bufs : bst'[c] = IF StreamOf[c] = s /\ QueueOf[c] = qop[s].q /\ bst[c] # "none" THEN "user" ELSE bst[c]
          /\ UNCHANGED <<owed, early>> /\ streaming'[s] = streaming[s] \ {qop[s].q}
          /\ qop[s].at = "cancel" /\ qop'[s].at \in {"none", "cleanup"}
      BY <2>3, <2>4, <2>16 DEF StopCancel, BufsOf, QAt, TypeInv, StreamTypes
    <3>2. ASSUME NEW c \in Bufs, StreamOf[c] = s PROVE Good(c)'
      BY <1>1, <3>1, <3>2 DEF Good
    <3> QED
      BY <2>2, <3>1, <3>2
  <2>17. ASSUME Detach(s) \/ Cleanup(s) PROVE Goal
    <3>1. UNCHANGED <<owed, early, streaming>> /\ qop[s].at \in {"detach", "cleanup"}
      BY <2>17 DEF Detach, Cleanup, QAt
    <3>2. qop'[s].at \in {"none", "cleanup", "destroy", "clear"}
      <4>1. CASE Detach(s)
        BY <2>3, <2>4, <4>1 DEF Detach
      <4>2. CASE qop' = [qop EXCEPT ![s].q = "in", ![s].at = IF "in" \in streaming[s] THEN "clear" ELSE "cleanup"]
        BY <4>2 DEF TypeInv, CallTypes, QueueCall
      <4>3. Cleanup(s) => \/ QEnd(s) \/ QGo(s, "destroy")
                          \/ qop' = [qop EXCEPT ![s].q = "in", ![s].at = IF "in" \in streaming[s] THEN "clear" ELSE "cleanup"]
        BY DEF Cleanup
      <4> QED
        BY <2>3, <2>4, <2>17, <4>1, <4>2, <4>3
    <3>3. \A c \in Bufs : bst'[c] = "active" => bst[c] = "active"
      BY <2>17 DEF Detach, Cleanup
    <3>4. ASSUME NEW c \in Bufs, StreamOf[c] = s PROVE Good(c)'
      BY <1>1, <3>1, <3>2, <3>3, <3>4 DEF Good
    <3> QED
      BY <2>2, <3>1, <3>4
  <2> HIDE DEF Goal
  <2> QED
    BY <1>8, <2>6, <2>7, <2>8, <2>9, <2>10, <2>11, <2>12, <2>13, <2>14, <2>15, <2>16, <2>17 DEF Queueing, QueueStep
<1>9. ASSUME Work PROVE Goal
  <2>1. CASE UNCHANGED bufVars
    BY <1>4, <1>5, <1>9, <2>1, WorkFrame
  <2>2. CASE Pop
    <3>1. UNCHANGED owed /\ early \subseteq early' /\ \A c \in Bufs : bst'[c] = "active" => bst[c] = "active"
      BY <2>2 DEF Pop, TypeInv, BufTypes
    <3> QED
      BY <1>4, <1>9, <3>1, WorkFrame DEF Less
  <2> QED
    BY <1>9, <2>1, <2>2 DEF Work, WorkFind, WorkResolution, WorkTest, WorkSet, WorkError, WorkClear, WorkPop, WorkStale
<1>10. ASSUME BackEnd PROVE Goal
  <2>1. CASE UNCHANGED bufVars
    BY <1>4, <1>5, <1>10, <2>1, BackEndFrame
  <2>2. ASSUME NEW b \in Bufs, BufDone(b) PROVE \A c \in Bufs : Less(c)
    BY <2>2, AnswerEffect DEF Less
  <2> QED
    BY <1>4, <1>10, <2>1, <2>2, BackEndFrame DEF BackEnd, Answer, AnswerEos, Post
<1>11. ASSUME UNCHANGED vars PROVE Goal
  BY <1>4, <1>5, <1>11 DEF vars
<1> HIDE DEF Goal
<1> QED
  BY Steps, <1>2, <1>6, <1>7, <1>8, <1>9, <1>10, <1>11

\* The camera's list stays without repetition, and keeps nothing vb2 has back but for a reason.
LEMMA ListStep ==
  ASSUME TypeInv, QopInv, ListInv, ActiveInv, ActiveOwed, [Next]_vars
  PROVE  ListInv'
<1> DEFINE Kept(c) == bst[c] # "active" => c \in early \cup unsent
<1>0. \A c \in Bufs : owed[c] \in Nat
  BY BaseAssumption DEF TypeInv, BufTypes
<1>1. \A c \in ToSet(pending_buf_list) : c \in Bufs /\ Kept(c)
  BY DEF ListInv, ToSet
<1>2. ASSUME UNCHANGED <<dev, pending_buf_list>>, \A c \in ToSet(pending_buf_list) : Kept(c)' PROVE ListInv'
  BY <1>2 DEF ListInv, IsM2m
<1>3. ASSUME UNCHANGED <<dev, pending_buf_list>>, early \subseteq early', unsent \subseteq unsent',
             \A c \in Bufs : bst[c] = "active" => bst'[c] = "active"
      PROVE  ListInv'
  BY <1>1, <1>2, <1>3
<1>4. ASSUME NEW s \in Streams, Opening(s) \/ Calling(s) \/ Close(s) \/ CloseFree(s) PROVE ListInv'
  BY <1>3, <1>4, OpeningFrame, CallingFrame DEF Close, CloseFree, bufVars
<1>5. ASSUME NEW b \in Bufs, BufInit(b) \/ QBuf(b) \/ DQBuf(b) PROVE ListInv'
  BY <1>3, <1>5 DEF BufInit, QBuf, DQBuf, bufVars, TypeInv, BufTypes, QRest
<1>6. ASSUME NEW B \in SUBSET Bufs, Enqueue(B), UNCHANGED <<dev, early>> PROVE ListInv'
  <2>1. PICK lost \in SUBSET B : unsent' = (unsent \ B) \cup lost
    BY <1>6, Enqueued
  <2>2. \A c \in Bufs : bst'[c] = IF c \in B THEN "active" ELSE bst[c]
    BY <1>6, Enqueued
  <2>3. /\ pending_buf_list' \in Seq(Bufs)
        /\ ToSet(pending_buf_list') \subseteq ToSet(pending_buf_list) \cup B
        /\ \A i, j \in DOMAIN pending_buf_list' : pending_buf_list'[i] = pending_buf_list'[j] => i = j
        /\ IsM2m => pending_buf_list' = <<>>
    BY <1>6, Enqueued
  <2>4. \A c \in ToSet(pending_buf_list') : Kept(c)'
    BY <1>1, <1>6, <2>1, <2>2, <2>3
  <2> QED
    BY <1>6, <2>3, <2>4 DEF ListInv, IsM2m
<1>7. ASSUME NEW s \in Streams, NEW q \in Queues, StreamOn(s, q) \/ StreamOff(s, q) \/ ReqBufs(s, q) PROVE ListInv'
  <2>1. CASE StreamOn(s, q)
    <3> DEFINE B == {b \in BufsOf(s, q) : bst[b] = "prep"}
    <3>1. Enqueue(B) /\ B \in SUBSET Bufs /\ UNCHANGED <<dev, early>>
      BY <2>1, Queued DEF StreamOn, QRest
    <3> HIDE DEF B
    <3> QED
      BY <1>6, <3>1
  <2>2. CASE StreamOff(s, q) \/ ReqBufs(s, q)
    BY <1>3, <2>2 DEF StreamOff, ReqBufs, bufVars, QRest
  <2> QED
    BY <1>7, <2>1, <2>2
<1>8. ASSUME NEW s \in Streams, QBufQueue(s) PROVE ListInv'
  <2>1. qop[s].v \in Bufs /\ bst[qop[s].v] = "user" /\ UNCHANGED <<dev, early>>
    BY <1>8, Queued DEF BufsOf, QBufQueue, QRest
  <2>2. CASE Enqueue({qop[s].v})
    BY <1>6, <2>1, <2>2
  <2>3. CASE bst' = [bst EXCEPT ![qop[s].v] = "prep"] /\ UNCHANGED <<owed, pending_buf_list, unsent>>
    BY <1>3, <2>1, <2>3 DEF TypeInv, BufTypes
  <2> QED
    BY <1>8, <2>2, <2>3 DEF QBufQueue
<1>9. ASSUME NEW s \in Streams, StartRefused(s) PROVE ListInv'
  <2> DEFINE B == {b \in BufsOf(s, qop[s].q) : bst[b] = "active"}
  <2>1. /\ \A c \in Bufs : bst'[c] = IF c \in B THEN "prep" ELSE bst[c]
        /\ early' = early \cup {b \in B : owed[b] > 0}
        /\ unsent' = unsent \ (B \ ToSet(pending_buf_list))
        /\ \A c \in B : bst[c] = "active"
        /\ \A c \in Bufs : bst'[c] # "active" /\ bst[c] = "active" => c \in B
        /\ UNCHANGED <<dev, pending_buf_list>>
    BY <1>9 DEF StartRefused, QRest
  <2>2. \A c \in B : owed[c] > 0 \/ c \in unsent
    BY <2>1 DEF ActiveOwed, BufsOf
  <2> HIDE DEF B
  <2> QED
    BY <1>1, <1>2, <2>1, <2>2
<1>10. ASSUME NEW s \in Streams, StartTest(s) \/ StartRun(s) \/ StopWait(s) \/ Detach(s) PROVE ListInv'
  BY <1>3, <1>10 DEF StartTest, StartRun, StopWait, Detach, bufVars, QRest
<1>11. ASSUME Pop, pending_buf_list # <<>>, UNCHANGED dev PROVE ListInv'
  <2> DEFINE b == Head(pending_buf_list)
  <2>1. b \in Bufs
    BY <1>11, Taken DEF ListInv
  <2>2. /\ \A c \in Bufs : bst'[c] = IF c = b /\ bst[b] = "active" THEN "done" ELSE bst[c]
        /\ early' = IF bst[b] = "active" THEN early \cup {b} ELSE early
        /\ UNCHANGED <<pending_buf_list, unsent>>
    BY <1>11, <2>1 DEF Pop, TypeInv, BufTypes
  <2> HIDE DEF b
  <2> QED
    BY <1>1, <1>2, <1>11, <2>1, <2>2
<1>12. ASSUME NEW s \in Streams, StopClear(s) \/ StopPop(s) PROVE ListInv'
  <2>1. CASE StopPop(s)
    BY <1>3, <1>11, <2>1 DEF StopPop, bufVars, QRest
  <2>2. CASE StopClear(s)
    BY <1>3, <2>2 DEF StopClear, QRest
  <2> QED
    BY <1>12, <2>1, <2>2
<1>13. ASSUME NEW s \in Streams, StopCancel(s) PROVE ListInv'
  <2> DEFINE B == BufsOf(s, qop[s].q)
  <2>1. /\ \A c \in Bufs : bst'[c] = IF c \in B /\ bst[c] # "none" THEN "user" ELSE bst[c]
        /\ unsent' = unsent \ (B \ ToSet(pending_buf_list)) /\ UNCHANGED <<dev, pending_buf_list, early>>
    BY <1>13 DEF StopCancel, QRest
  <2>2. \A c \in B : bst[c] = "active" => dev = "enc"
    BY <1>13 DEF StopCancel, QAt, ActiveInv
  <2>3. dev = "enc" => ToSet(pending_buf_list) = {}
    BY DEF ListInv, IsM2m, ToSet
  <2> HIDE DEF B
  <2> QED
    BY <1>1, <1>2, <2>1, <2>2, <2>3
<1>14. ASSUME NEW s \in Streams, Cleanup(s) PROVE ListInv'
  <2>1. \A c \in Bufs : bst[c] = "active" => bst'[c] = "active"
    BY <1>14, NoneActive DEF Cleanup, QAt
  <2> QED
    BY <1>3, <1>14, <2>1 DEF Cleanup, QRest
<1>15. ASSUME NEW b \in Bufs, BufDone(b) PROVE ListInv'
  <2>1. UNCHANGED <<dev, unsent>> /\ (early' = early \/ early' = early \ {b})
    BY <1>15 DEF BufDone
  <2>2. /\ pending_buf_list' \in Seq(Bufs) /\ ToSet(pending_buf_list') = ToSet(pending_buf_list) \ {b}
        /\ \A i, j \in DOMAIN pending_buf_list' : pending_buf_list'[i] = pending_buf_list'[j] => i = j
        /\ pending_buf_list = <<>> => pending_buf_list' = <<>>
        /\ \A c \in Bufs : c # b => bst'[c] = bst[c]
    BY <1>15, AnswerEffect
  <2>3. \A c \in ToSet(pending_buf_list') : Kept(c)'
    BY <1>1, <2>1, <2>2
  <2> QED
    BY <2>1, <2>2, <2>3 DEF ListInv, IsM2m
<1>16. ASSUME Work PROVE ListInv'
  <2>1. CASE UNCHANGED bufVars
    BY <1>3, <1>16, <2>1, WorkFrame DEF bufVars
  <2>2. CASE WorkPop
    BY <1>11, <1>16, <2>1, <2>2, WorkFrame DEF WorkPop
  <2> QED
    BY <1>16, <2>1, <2>2 DEF Work, WorkFind, WorkResolution, WorkTest, WorkSet, WorkError, WorkClear, WorkStale
<1>17. ASSUME BackEnd PROVE ListInv'
  BY <1>3, <1>15, <1>17 DEF BackEnd, Answer, AnswerEos, Post, bufVars
<1>18. ASSUME UNCHANGED vars PROVE ListInv'
  BY <1>3, <1>18 DEF vars, bufVars
<1> HIDE DEF Kept
<1> QED
  BY Steps, <1>4, <1>5, <1>7, <1>8, <1>9, <1>10, <1>12, <1>13, <1>14, <1>16, <1>17, <1>18
     DEF Queueing, QueueStep

\* REQBUFS and release free what the back end has detached, or destroys with the stream.
LEMMA DetachStep ==
  ASSUME TypeInv, QopInv, ActiveInv, DetachInv, [Next]_vars
  PROVE  DetachInv'
<1> DEFINE Gone(c) == c \in attached => bst[c] # "none" \/ pc[StreamOf[c]] = "closing"
           Clean(c) == LET o == qop[StreamOf[c]] IN
                       o.at = "cleanup" /\ o.kind = "reqbufs" /\ QueueOf[c] = o.q => c \notin attached
           Good(c) == Gone(c) /\ Clean(c)
           Goal == \A c \in Bufs : Good(c)'
<1>0. \A c \in Bufs : StreamOf[c] \in Streams
  BY BaseAssumption
<1>1. \A c \in Bufs : Good(c)
  BY <1>0 DEF DetachInv, FreedDetached, BufsOf
<1>2. ASSUME Goal, attached' \subseteq Bufs PROVE DetachInv'
  BY <1>2 DEF DetachInv, FreedDetached, BufsOf
<1>3. attached \subseteq Bufs
  BY DEF TypeInv, BufTypes
<1>4. ASSUME NEW c \in Bufs, pc[StreamOf[c]] = "closing" => pc'[StreamOf[c]] = "closing",
             c \in attached' => c \in attached, bst'[c] = "none" => bst[c] = "none",
             qop'[StreamOf[c]] = qop[StreamOf[c]] \/ qop'[StreamOf[c]].at # "cleanup" \/ qop'[StreamOf[c]].kind # "reqbufs"
      PROVE  Good(c)'
  BY <1>1, <1>4
<1> HIDE DEF Good
<1>5. ASSUME UNCHANGED <<pc, attached, qop>>, \A c \in Bufs : bst'[c] = "none" => bst[c] = "none" PROVE DetachInv'
  BY <1>2, <1>3, <1>4, <1>5
<1>6. ASSUME NEW s \in Streams, Opening(s) \/ Calling(s) PROVE DetachInv'
  <2>1. UNCHANGED <<bst, attached, qop>> /\ \A t \in Streams : pc[t] = "closing" => pc'[t] = "closing"
    <3>1. CASE Opening(s)
      <4>1. pc[s] # "closing"
        BY <3>1 DEF Opening, OpenBusy, OpenCreate, OpenParams, OpenQueues, OpenFail, OpenClearBusy
      <4> QED
        BY <3>1, <4>1, OpeningFrame
    <3>2. CASE Calling(s)
      BY <3>2, CallingFrame
    <3> QED
      BY <1>6, <3>1, <3>2
  <2> QED
    BY <1>0, <1>2, <1>3, <1>4, <2>1
<1>7. ASSUME NEW s \in Streams, Close(s) PROVE DetachInv'
  <2>1. /\ UNCHANGED <<bst, attached>> /\ \A t \in Streams : t # s => qop'[t] = qop[t] /\ pc'[t] = pc[t]
        /\ pc'[s] = "closing" /\ qop'[s].kind = "release"
    BY <1>7 DEF Close, QBegin, GoTo, bufVars, TypeInv, CallTypes, StreamTypes
  <2> QED
    BY <1>0, <1>2, <1>3, <1>4, <2>1
<1>8. ASSUME NEW s \in Streams, CloseFree(s) PROVE DetachInv'
  <2>1. /\ UNCHANGED bst /\ \A t \in Streams : t # s => qop'[t] = qop[t] /\ pc'[t] = pc[t]
        /\ qop'[s].at = "none" /\ attached' = {b \in attached : StreamOf[b] # s}
    BY <1>8 DEF CloseFree, QEnd, NoOp, GoTo, TypeInv, CallTypes, StreamTypes
  <2>2. ASSUME NEW c \in Bufs PROVE Good(c)'
    <3>1. CASE StreamOf[c] # s
      BY <1>0, <1>4, <2>1, <3>1
    <3>2. CASE StreamOf[c] = s
      BY <2>1, <3>2 DEF Good
    <3> QED
      BY <3>1, <3>2
  <2> QED
    BY <1>2, <1>3, <2>1, <2>2
<1>9. ASSUME NEW s \in Streams, Queueing(s) \/ (QueueStep(s) /\ ~CloseFree(s)) PROVE DetachInv'
  <2>1. UNCHANGED pc /\ \A t \in Streams : t # s => qop'[t] = qop[t]
    BY <1>9, QueueFrame
  <2>2. ASSUME attached' \subseteq attached, \A c \in Bufs : bst'[c] = "none" => bst[c] = "none",
               qop'[s] = qop[s] \/ qop'[s].at # "cleanup" \/ qop'[s].kind # "reqbufs"
        PROVE  DetachInv'
    BY <1>0, <1>2, <1>3, <1>4, <2>1, <2>2
  <2>3. \A l : QGo(s, l) => qop'[s].at = l /\ qop'[s].kind = qop[s].kind /\ qop'[s].q = qop[s].q
    BY DEF QGo, TypeInv, CallTypes, QueueCall
  <2>4. QEnd(s) => qop'[s].at = "none"
    BY DEF QEnd, NoOp, TypeInv, CallTypes
  <2>5. \A k, l, q, v : QBegin(s, k, l, q, v) => qop'[s].at = l
    BY DEF QBegin, TypeInv, CallTypes
  <2>6. ASSUME NEW b \in Bufs, StreamOf[b] = s, BufInit(b) PROVE DetachInv'
    <3>1. /\ UNCHANGED qop /\ qop[s] = NoOp
          /\ UNCHANGED <<bst, attached>> \/ (bst' = [bst EXCEPT ![b] = "user"] /\ attached' = attached \cup {b})
      BY <2>6 DEF BufInit
    <3>2. \A c \in Bufs : bst'[c] = "none" => bst[c] = "none"
      BY <3>1 DEF TypeInv, BufTypes
    <3>3. ASSUME UNCHANGED <<bst, attached>> PROVE DetachInv'
      BY <2>2, <3>1, <3>2, <3>3
    <3>4. ASSUME bst' = [bst EXCEPT ![b] = "user"], attached' = attached \cup {b} PROVE DetachInv'
      <4>1. ASSUME NEW c \in Bufs, c # b PROVE Good(c)'
        BY <1>0, <1>4, <2>1, <3>1, <3>2, <3>4, <4>1
      <4>2. Good(b)'
        BY <2>6, <3>1, <3>4 DEF Good, NoOp, TypeInv, BufTypes
      <4> QED
        BY <1>2, <1>3, <3>4, <4>1, <4>2
    <3> QED
      BY <3>1, <3>3, <3>4
  <2>7. ASSUME NEW b \in Bufs, StreamOf[b] = s, QBuf(b) \/ DQBuf(b) PROVE DetachInv'
    <3>1. CASE QBuf(b)
      BY <2>2, <2>5, <2>7, <3>1 DEF QBuf, bufVars
    <3>2. CASE DQBuf(b)
      BY <2>2, <3>2 DEF DQBuf, TypeInv, BufTypes
    <3> QED
      BY <2>7, <3>1, <3>2
  <2>8. ASSUME NEW q \in Queues, StreamOn(s, q) \/ StreamOff(s, q) \/ ReqBufs(s, q) PROVE DetachInv'
    <3>1. qop'[s].at # "cleanup" /\ UNCHANGED attached
      BY <2>5, <2>8 DEF StreamOn, StreamOff, ReqBufs, bufVars
    <3>2. \A c \in Bufs : bst'[c] = "none" => bst[c] = "none"
      BY <2>8 DEF StreamOn, StreamOff, ReqBufs, bufVars, Enqueue
    <3> QED
      BY <2>2, <3>1, <3>2
  <2>9. ASSUME QBufQueue(s) \/ StartRefused(s) \/ StartTest(s) \/ StartRun(s) PROVE DetachInv'
    <3>1. qop'[s].at # "cleanup" /\ UNCHANGED attached
      BY <2>3, <2>4, <2>9 DEF QBufQueue, StartRefused, StartTest, StartRun, On, bufVars
    <3>2. \A c \in Bufs : bst'[c] = "none" => bst[c] = "none"
      BY <2>9 DEF QBufQueue, StartRefused, StartTest, StartRun, bufVars, Enqueue, TypeInv, BufTypes
    <3> QED
      BY <2>2, <3>1, <3>2
  <2>10. ASSUME StopClear(s) \/ StopPop(s) \/ StopWait(s) PROVE DetachInv'
    <3>1. (qop'[s].at # "cleanup" \/ qop'[s] = qop[s]) /\ UNCHANGED attached
      BY <2>3, <2>10 DEF StopClear, StopPop, StopWait, Pop, bufVars
    <3>2. \A c \in Bufs : bst'[c] = "none" => bst[c] = "none"
      BY <2>10 DEF StopClear, StopPop, StopWait, Pop, bufVars, TypeInv, BufTypes
    <3> QED
      BY <2>2, <3>1, <3>2
  <2>11. ASSUME StopCancel(s) PROVE DetachInv'
    BY <2>2, <2>3, <2>4, <2>11 DEF StopCancel
  <2>12. ASSUME Detach(s) PROVE DetachInv'
    <3>1. UNCHANGED bst /\ attached' \subseteq attached
      BY <2>12 DEF Detach
    <3>2. ASSUME attached' = attached \ BufsOf(s, qop[s].q), QGo(s, "cleanup") PROVE DetachInv'
      <4>1. ASSUME NEW c \in Bufs, StreamOf[c] = s PROVE Good(c)'
        <5>1. Gone(c)'
          BY <1>1, <2>1, <3>1 DEF Good
        <5>2. Clean(c)'
          BY <2>3, <3>2, <4>1 DEF BufsOf
        <5> QED
          BY <5>1, <5>2 DEF Good
      <4>2. ASSUME NEW c \in Bufs, StreamOf[c] # s PROVE Good(c)'
        BY <1>0, <1>4, <2>1, <3>1, <4>2
      <4> QED
        BY <1>2, <1>3, <3>1, <4>1, <4>2
    <3>3. ASSUME QEnd(s) PROVE DetachInv'
      BY <2>2, <2>4, <3>1, <3>3
    <3> QED
      BY <2>12, <3>2, <3>3 DEF Detach
  <2>13. ASSUME Cleanup(s) PROVE DetachInv'
    <3>1. /\ \A c \in Bufs : bst'[c] = "none" => bst[c] = "none" \/ (StreamOf[c] = s /\ QueueOf[c] = qop[s].q)
          /\ UNCHANGED attached /\ qop[s].at = "cleanup"
      BY <2>13 DEF Cleanup, BufsOf, QAt
    <3>2. qop[s].kind = "reqbufs" \/ (qop[s].kind = "release" /\ pc[s] = "closing")
      BY <3>1 DEF QopInv, NoOp
    <3>3. qop'[s].at # "cleanup" \/ qop'[s].kind # "reqbufs"
      <4>1. \A l : qop' = [qop EXCEPT ![s].q = "in", ![s].at = l] => qop'[s].kind = qop[s].kind
        BY DEF TypeInv, CallTypes, QueueCall
      <4> QED
        BY <2>3, <2>4, <2>13, <4>1 DEF Cleanup
    <3>4. ASSUME NEW c \in Bufs, StreamOf[c] = s PROVE Good(c)'
      BY <1>1, <2>1, <3>1, <3>2, <3>3, <3>4 DEF Good
    <3>5. ASSUME NEW c \in Bufs, StreamOf[c] # s PROVE Good(c)'
      BY <1>0, <1>4, <2>1, <3>1, <3>5
    <3> QED
      BY <1>2, <1>3, <3>1, <3>4, <3>5
  <2> QED
    BY <1>9, <2>6, <2>7, <2>8, <2>9, <2>10, <2>11, <2>12, <2>13 DEF Queueing, QueueStep
<1>10. ASSUME Work PROVE DetachInv'
  <2>1. \A c \in Bufs : bst'[c] = "none" => bst[c] = "none"
    BY <1>10 DEF Work, WorkFind, WorkResolution, WorkTest, WorkSet, WorkError, WorkClear, WorkPop, WorkStale, Pop,
       bufVars, TypeInv, BufTypes
  <2> QED
    BY <1>5, <1>10, <2>1, WorkFrame
<1>11. ASSUME BackEnd PROVE DetachInv'
  <2>1. \A c \in Bufs : bst'[c] = "none" => bst[c] = "none"
    BY <1>11 DEF BackEnd, Answer, AnswerEos, BufDone, Post, bufVars, TypeInv, BufTypes
  <2> QED
    BY <1>5, <1>11, <2>1, BackEndFrame
<1>12. ASSUME UNCHANGED vars PROVE DetachInv'
  BY <1>5, <1>12 DEF vars, bufVars
<1> HIDE DEF Goal, Gone, Clean
<1> QED
  BY Steps, <1>6, <1>7, <1>8, <1>9, <1>10, <1>11, <1>12

-----------------------------------------------------------------------------
(* Formats. *)

\* A command that fails is noted, unless the formats agree all the same.
LEMMA FailureNoted ==
  ASSUME TypeInv, KnownInv, NEW s \in Streams, pc[s] \in {"queues", "open"}, NoteFailure(s)
  PROVE  "failed" \in past'[s] \/ \A q \in Queues : info'[s][q] = params[s][q]
<1>1. params[s] # None
  BY DEF KnownInv
<1> QED
  BY <1>1 DEF NoteFailure, Note, TypeInv, StreamTypes

\* What is noted is not forgotten before the next STREAM_CREATE.
LEMMA StillFailed ==
  ASSUME TypeInv, NEW s \in Streams,
         NoNote \/ NoteFailure(s) \/ (\E h \in SUBSET Past : Note(s, h)) \/ UNCHANGED past
         \/ past' = [past EXCEPT ![s] = @ \ {"overtaken", "cleared"}]
  PROVE  \A t \in Streams : "failed" \in past[t] => "failed" \in past'[t]
BY DEF NoNote, NoteFailure, Note, TypeInv, StreamTypes

\* What GET_PARAMS does to the formats of a queue.
LEMMA GetEffect ==
  ASSUME TypeInv, NEW s \in Streams, NEW q \in Names, Get(s, q)
  PROVE  /\ info'[s][q] = params[s][q]
         /\ \A p \in Names : p # q => info'[s][p] = info[s][p]
         /\ \A t \in Streams : t # s => info'[t] = info[t]
BY DEF Get, TypeInv, FormatTypes

\* What a stream holds of a format is the back end's, is on its way, or a command failed.
LEMMA InfoStep ==
  ASSUME TypeInv, IopInv, LockInv, KnownInv, InfoInv, [Next]_vars
  PROVE  InfoInv'
<1> DEFINE Good(t) ==
             pc[t] \in {"queues", "open"} /\ "failed" \notin past[t] =>
               \A q \in Queues : info[t][q] = params[t][q] \/ Fetching(t, q)
<1>0. Queues \subseteq Names /\ \A t \in Streams : vd = None => iop[t] = NoOp
  BY BaseAssumption DEF Queues, Names, LockInv
<1>1. \A t \in Streams : Good(t)
  BY DEF InfoInv
<1>2. ASSUME \A t \in Streams : Good(t)' PROVE InfoInv'
  BY <1>2 DEF InfoInv
<1>3. ASSUME NEW t \in Streams, UNCHANGED dev, info'[t] = info[t], params'[t] = params[t],
             pc'[t] \in {"queues", "open"} => pc[t] \in {"queues", "open"},
             "failed" \in past[t] => "failed" \in past'[t],
             \A q \in Queues : Fetching(t, q) => Fetching(t, q)'
      PROVE  Good(t)'
  <2>1. Queues' = Queues
    BY <1>3 DEF Queues, IsM2m
  <2> QED
    BY <1>1, <1>3, <2>1
<1>4. ASSUME NEW t \in Streams, pc'[t] \notin {"queues", "open"} PROVE Good(t)'
  BY <1>4
<1>5. ASSUME NEW t \in Streams, iop'[t] = iop[t], UNCHANGED <<events, wk>>
      PROVE  \A q \in Queues : Fetching(t, q) => Fetching(t, q)'
  BY <1>5 DEF Fetching
<1>6. ASSUME NEW t \in Streams, iop[t].at \notin {"get_in", "get_out", "get"}, UNCHANGED <<events, wk>>
      PROVE  \A q \in Queues : Fetching(t, q) => Fetching(t, q)'
  BY <1>6 DEF Fetching
<1> HIDE DEF Good
<1>7. ASSUME NEW s \in Streams, Opening(s) PROVE InfoInv'
  <2>1. /\ UNCHANGED <<dev, iop, events, wk>>
        /\ \A t \in Streams : t # s => pc'[t] = pc[t] /\ past'[t] = past[t] /\ info'[t] = info[t] /\ params'[t] = params[t]
    BY <1>7, OpeningFrame
  <2>2. ASSUME NEW t \in Streams, t # s PROVE Good(t)'
    BY <1>3, <1>5, <2>1, <2>2
  <2>3. Good(s)'
    <3>1. CASE OpenBusy(s) \/ OpenCreate(s) \/ OpenFail(s) \/ OpenClearBusy(s)
      <4>1. pc'[s] \notin {"queues", "open"}
        BY <3>1 DEF OpenBusy, OpenCreate, OpenFail, OpenClearBusy, GoTo, TypeInv, StreamTypes
      <4> QED
        BY <1>4, <4>1
    <3>2. CASE OpenParams(s)
      <4>1. CASE pc'[s] = "fail"
        BY <1>4, <4>1
      <4>2. CASE info' = [info EXCEPT ![s] = [q \in {"in", "out"} |-> IF q \in Queues THEN params[s][q] ELSE @[q]]]
        <5>1. \A q \in Queues : info'[s][q] = params'[s][q]
          BY <1>0, <3>2, <4>2 DEF OpenParams, TypeInv, FormatTypes, Names
        <5>2. Queues' = Queues
          BY <2>1 DEF Queues, IsM2m
        <5> QED
          BY <5>1, <5>2 DEF Good
      <4> QED
        BY <3>2, <4>1, <4>2 DEF OpenParams, GoTo, TypeInv, StreamTypes
    <3>3. CASE OpenQueues(s)
      BY <1>3, <1>5, <2>1, <3>3 DEF OpenQueues, infoVars
    <3> QED
      BY <1>7, <3>1, <3>2, <3>3 DEF Opening
  <2> QED
    BY <1>2, <2>2, <2>3
<1>8. ASSUME NEW s \in Streams, Calling(s) PROVE InfoInv'
  <2>1. /\ UNCHANGED <<dev, pc, events, wk>>
        /\ \A t \in Streams : t # s => past'[t] = past[t] /\ info'[t] = info[t] /\ params'[t] = params[t] /\ iop'[t] = iop[t]
    BY <1>8, CallingFrame
  <2>2. ASSUME NEW t \in Streams, t # s PROVE Good(t)'
    BY <1>3, <1>5, <2>1, <2>2
  <2>3. Queues' = Queues
    BY <2>1 DEF Queues, IsM2m
  <2>4. \A l : IGo(s, l) => iop'[s].at = l /\ iop'[s].q = iop[s].q
    BY DEF IGo, TypeInv, CallTypes, Call
  <2>5. iop[s].at # "none" => pc[s] = "open" /\ iop[s].q \in Queues /\ params[s] # None
    BY DEF IopInv, NoOp, KnownInv
  <2>6. ASSUME info' = info, params' = params, iop[s].at \notin {"get_in", "get_out", "get"},
               "failed" \in past[s] => "failed" \in past'[s]
        PROVE  Good(s)'
    BY <1>3, <1>6, <2>1, <2>6
  <2>7. ASSUME iop[s].at # "none", UNCHANGED params, NoteFailure(s) PROVE Good(s)'
    <3>1. "failed" \in past'[s] \/ \A q \in Queues : info'[s][q] = params[s][q]
      BY <2>5, <2>7, FailureNoted
    <3> QED
      BY <2>3, <2>7, <3>1 DEF Good
  <2>8. ASSUME SFmt(s) \/ SParm(s) \/ SSelection(s) \/ GFmt(s) \/ Cmd(s) PROVE Good(s)'
    <3>1. vd = None /\ info' = info /\ params' = params /\ past' = past
      BY <2>8 DEF SFmt, SParm, SSelection, GFmt, Cmd, Enter, infoVars
    <3>2. iop[s].at = "none"
      BY <1>0, <3>1 DEF NoOp
    <3> QED
      BY <2>6, <3>1, <3>2
  <2>9. ASSUME SetParams(s) PROVE Good(s)'
    <3>1. iop'[s].at = IF IsM2m THEN "get_in" ELSE "get_out"
      BY <2>4, <2>9 DEF SetParams
    <3>2. \A q \in Queues : Fetching(s, q)'
      BY <3>1 DEF Fetching, Queues
    <3> QED
      BY <2>3, <3>2 DEF Good
  <2>10. ASSUME GetIn(s) PROVE Good(s)'
    <3>1. IAt(s, "get_in") /\ UNCHANGED params
      BY <2>10 DEF GetIn
    <3>2. CASE Get(s, "in") /\ IGo(s, "get_out")
      <4>1. info'[s]["in"] = params'[s]["in"]
        BY <3>1, <3>2, GetEffect DEF Names
      <4>2. Fetching(s, "out")'
        BY <2>4, <3>2 DEF Fetching
      <4> QED
        BY <1>0, <2>3, <4>1, <4>2 DEF Good, Names
    <3>3. CASE NoteFailure(s)
      BY <2>7, <3>1, <3>3 DEF IAt
    <3> QED
      BY <2>10, <3>2, <3>3 DEF GetIn, GetParams
  <2>11. ASSUME GetOut(s) PROVE Good(s)'
    <3>1. IAt(s, "get_out") /\ UNCHANGED params
      BY <2>11 DEF GetOut
    <3>2. CASE Get(s, "out") /\ NoNote
      <4>1. info'[s]["out"] = params'[s]["out"] /\ info'[s]["in"] = info[s]["in"]
        BY <3>1, <3>2, GetEffect DEF Names
      <4>2. ~Fetching(s, "in")
        BY <3>1 DEF IAt, Fetching
      <4>3. "failed" \in past[s] => "failed" \in past'[s]
        BY <3>2, StillFailed
      <4> QED
        BY <1>0, <1>1, <2>1, <2>3, <3>1, <4>1, <4>2, <4>3 DEF Good, Names
    <3>3. CASE NoteFailure(s)
      BY <2>7, <3>1, <3>3 DEF IAt
    <3> QED
      BY <2>11, <3>2, <3>3 DEF GetOut, GetParams
  <2>12. ASSUME Test(s) \/ SetInit(s) \/ Start(s) \/ Drain(s) \/ SetDrain(s) PROVE Good(s)'
    <3>1. info' = info /\ params' = params /\ iop[s].at \notin {"get_in", "get_out", "get"}
      BY <2>12 DEF Test, SetInit, Start, Drain, SetDrain, infoVars, IAt
    <3>2. UNCHANGED past \/ past' = [past EXCEPT ![s] = @ \ {"overtaken", "cleared"}]
      BY <2>12 DEF Test, SetInit, Start, Drain, SetDrain
    <3>3. "failed" \in past[s] => "failed" \in past'[s]
      BY <3>2, StillFailed
    <3> QED
      BY <2>6, <3>1, <3>3
  <2>13. ASSUME Crop(s) PROVE Good(s)'
    <3> PICK q : q = iop[s].q
      OBVIOUS
    <3>1. IAt(s, "crop") /\ info' = [info EXCEPT ![s][q].crop = TRUE]
      BY <2>13 DEF Crop
    <3>2. q \in Names /\ q \in Queues /\ params[s] # None /\ q = IF dev = "enc" THEN "in" ELSE "out"
      BY <1>0, <2>5, <3>1 DEF IAt, IopInv
    <3>3. \A p \in Names : p # q => info'[s][p] = info[s][p]
      BY <3>1, <3>2 DEF TypeInv, FormatTypes
    <3>4. CASE Setting(s, q, info[s][q].fmt) /\ IGo(s, "get") /\ NoNote
      <4>1. info[s][q].fmt \in Fmts \cup {None}
        BY <3>2 DEF TypeInv, FormatTypes, Format
      <4>2. \A p \in Names : p # q => params'[s][p] = params[s][p]
        BY <3>2, <3>4, <4>1, BackEndTakes DEF Names
      <4>3. Fetching(s, q)'
        BY <2>4, <3>4 DEF Fetching
      <4>4. \A p \in Names : Fetching(s, p) => Fetching(s, p)'
        BY <2>1, <3>1 DEF Fetching, IAt
      <4>5. "failed" \in past[s] => "failed" \in past'[s]
        BY <3>4, StillFailed
      <4> QED
        BY <1>0, <1>1, <2>1, <2>3, <3>3, <4>2, <4>3, <4>4, <4>5 DEF Good
    <3>5. CASE UNCHANGED params /\ NoteFailure(s)
      BY <2>7, <3>1, <3>5 DEF IAt
    <3> QED
      BY <2>13, <3>4, <3>5 DEF Crop
  <2>14. ASSUME CropGet(s) PROVE Good(s)'
    <3> DEFINE q == iop[s].q
    <3>1. IAt(s, "get") /\ UNCHANGED params
      BY <2>14 DEF CropGet
    <3>2. q \in Names
      BY <1>0, <2>5, <3>1 DEF IAt
    <3>3. CASE Get(s, q) /\ NoNote
      <4>1. info'[s][q] = params'[s][q] /\ \A p \in Names : p # q => info'[s][p] = info[s][p]
        BY <3>1, <3>2, <3>3, GetEffect
      <4>2. \A p \in Names : p # q /\ Fetching(s, p) => Fetching(s, p)'
        BY <2>1, <3>1 DEF Fetching, IAt
      <4>3. "failed" \in past[s] => "failed" \in past'[s]
        BY <3>3, StillFailed
      <4> HIDE DEF q
      <4> QED
        BY <1>0, <1>1, <2>1, <2>3, <3>1, <4>1, <4>2, <4>3 DEF Good
    <3>4. CASE NoteFailure(s)
      BY <2>7, <3>1, <3>4 DEF IAt
    <3> QED
      BY <2>14, <3>3, <3>4 DEF CropGet
  <2>15. Good(s)'
    BY <1>8, <2>8, <2>9, <2>10, <2>11, <2>12, <2>13, <2>14 DEF Calling
  <2> QED
    BY <1>2, <2>2, <2>15
<1>9. ASSUME NEW s \in Streams, Close(s) \/ CloseFree(s) PROVE InfoInv'
  <2>1. /\ UNCHANGED <<dev, iop, events, wk, past>> /\ pc'[s] \notin {"queues", "open"}
        /\ \A t \in Streams : t # s => pc'[t] = pc[t] /\ info'[t] = info[t] /\ params'[t] = params[t]
    BY <1>9 DEF Close, CloseFree, GoTo, Free, NoNote, infoVars, evVars, TypeInv, StreamTypes, FormatTypes
  <2> QED
    BY <1>2, <1>3, <1>4, <1>5, <2>1
<1>10. ASSUME NEW s \in Streams, Queueing(s) \/ (QueueStep(s) /\ ~CloseFree(s)) PROVE InfoInv'
  <2>1. UNCHANGED <<dev, pc, info, params, iop, events, wk>> /\ \A t \in Streams : t # s => past'[t] = past[t]
    BY <1>10, QueueFrame
  <2>2. UNCHANGED past \/ \E h \in SUBSET Past : Note(s, h)
    <3>1. StopClear(s) => UNCHANGED past \/ \E h \in SUBSET Past : Note(s, h)
      BY DEF StopClear, Cleared, NoNote, Past
    <3> QED
      BY <1>10, <3>1 DEF Queueing, QueueStep, BufInit, QBuf, DQBuf, StreamOn, StreamOff, ReqBufs, QBufQueue,
         StartRefused, StartTest, StartRun, StopPop, StopWait, StopCancel, Detach, Cleanup
  <2>3. \A t \in Streams : "failed" \in past[t] => "failed" \in past'[t]
    BY <2>2, StillFailed
  <2> QED
    BY <1>2, <1>3, <1>5, <2>1, <2>3
<1>11. ASSUME Work PROVE InfoInv'
  <2>1. UNCHANGED <<dev, pc, params, iop>>
    BY <1>11, WorkFrame
  <2>2. CASE WorkFind
    <3>1. PICK e \in events : /\ events' = events \ {e}
                              /\ IF InIdr(e[1])
                                 THEN wk' = [at |-> e[2], s |-> e[1], k |-> e[2]]
                                 ELSE UNCHANGED wk
      BY <2>2 DEF WorkFind
    <3>2. e \in Streams \X EventKinds /\ e = <<e[1], e[2]>>
      BY DEF TypeInv, CallTypes
    <3>3. wk.at = "none"
      BY <2>2 DEF WorkFind, NoEvent
    <3>4. UNCHANGED <<info, past>>
      BY <2>2 DEF WorkFind, infoVars
    <3>5. ASSUME NEW t \in Streams, InIdr(t) PROVE \A q \in Queues : Fetching(t, q) => Fetching(t, q)'
      BY <2>1, <3>1, <3>2, <3>3, <3>5 DEF Fetching
    <3>6. ASSUME NEW t \in Streams, ~InIdr(t) PROVE Good(t)'
      BY <1>4, <2>1, <3>6 DEF InIdr
    <3> QED
      BY <1>2, <1>3, <2>1, <3>4, <3>5, <3>6
  <2>3. CASE WorkResolution
    <3>1. wk.at = "resolution" /\ InIdr(wk.s) /\ wk'.at = "test" /\ UNCHANGED events
      BY <2>3 DEF WorkResolution, WAt, WGo, WorkRest, TypeInv, CallTypes, Handling
    <3>2. PICK s \in Streams : s = wk.s
      BY <3>1 DEF LockInv, NoEvent
    <3>3. \A q \in Queues, t \in Streams : (q # "out" \/ t # s) /\ Fetching(t, q) => Fetching(t, q)'
      BY <2>1, <3>1, <3>2 DEF Fetching
    <3>4. ASSUME NEW t \in Streams, t # s PROVE Good(t)'
      <4>1. info'[t] = info[t] /\ past'[t] = past[t]
        BY <2>3, <3>2, <3>4 DEF WorkResolution, Get, NoNote, NoteFailure, Note, TypeInv, FormatTypes, StreamTypes
      <4> QED
        BY <1>3, <2>1, <3>3, <3>4, <4>1
    <3>5. Good(s)'
      <4>1. CASE Get(s, "out") /\ NoNote
        <5>1. info'[s]["out"] = params'[s]["out"] /\ info'[s]["in"] = info[s]["in"]
          BY <2>1, <3>2, <4>1, GetEffect DEF Names
        <5>2. "failed" \in past[s] => "failed" \in past'[s]
          BY <3>2, <4>1, StillFailed
        <5>3. Queues' = Queues
          BY <2>1 DEF Queues, IsM2m
        <5> QED
          BY <1>0, <1>1, <2>1, <3>2, <3>3, <5>1, <5>2, <5>3 DEF Good, Names
      <4>2. CASE NoteFailure(s)
        <5>1. CASE pc[s] \in {"queues", "open"}
          <6>1. "failed" \in past'[s] \/ \A q \in Queues : info'[s][q] = params[s][q]
            BY <3>2, <4>2, <5>1, FailureNoted
          <6> QED
            BY <2>1, <6>1 DEF Good, Queues, IsM2m
        <5>2. CASE pc[s] \notin {"queues", "open"}
          BY <1>4, <2>1, <3>2, <5>2
        <5> QED
          BY <5>1, <5>2
      <4> QED
        BY <2>3, <3>2, <4>1, <4>2 DEF WorkResolution
    <3> QED
      BY <1>2, <3>4, <3>5
  <2>4. ASSUME UNCHANGED <<info, events>>, wk.at # "resolution" \/ ~InIdr(wk.s),
               \A t \in Streams : "failed" \in past[t] => "failed" \in past'[t]
        PROVE  InfoInv'
    <3>1. ASSUME NEW t \in Streams, ~(wk.s = t /\ wk.at = "resolution") PROVE Good(t)'
      <4>1. \A q \in Queues : Fetching(t, q) => Fetching(t, q)'
        BY <2>1, <2>4, <3>1 DEF Fetching
      <4> QED
        BY <1>3, <2>1, <2>4, <4>1
    <3>2. ASSUME NEW t \in Streams, wk.s = t, wk.at = "resolution" PROVE Good(t)'
      BY <1>4, <2>1, <2>4, <3>2 DEF InIdr
    <3> QED
      BY <1>2, <3>1, <3>2
  <2>5. CASE WorkTest \/ WorkSet \/ WorkError \/ WorkPop
    <3>1. UNCHANGED <<info, events, past>> /\ wk.at # "resolution"
      BY <2>5 DEF WorkTest, WorkSet, WorkError, WorkPop, WAt, infoVars, WorkRest
    <3> QED
      BY <2>4, <3>1
  <2>6. ASSUME NEW q \in {"in", "out"}, WorkClear(q) PROVE InfoInv'
    <3>1. UNCHANGED <<info, events>> /\ wk.at = q
      BY <2>6 DEF WorkClear, WAt, infoVars, WorkRest
    <3>2. UNCHANGED past \/ \E h \in SUBSET Past : Note(wk.s, h)
      BY <2>6 DEF WorkClear, Cleared, NoNote, Past
    <3>3. wk.s \in Streams
      BY <3>1 DEF LockInv, NoEvent
    <3>4. \A t \in Streams : "failed" \in past[t] => "failed" \in past'[t]
      BY <3>2, <3>3, StillFailed
    <3> QED
      BY <2>4, <3>1, <3>4
  <2>7. CASE WorkStale
    BY <2>4, <2>7 DEF WorkStale, infoVars, WorkRest
  <2> QED
    BY <1>11, <2>2, <2>3, <2>5, <2>6, <2>7 DEF Work
<1>12. ASSUME BackEnd PROVE InfoInv'
  <2>1. UNCHANGED <<dev, pc, info, iop, wk>>
    BY <1>12, BackEndFrame
  <2>2. ASSUME NEW b \in Bufs, Answer(b) \/ AnswerEos(b) PROVE InfoInv'
    <3>1. UNCHANGED <<params, events>> /\ (UNCHANGED past \/ \E h \in SUBSET Past : Note(StreamOf[b], h))
      BY <2>2 DEF Answer, AnswerEos, BufDone, infoVars, evVars, Past
    <3>2. \A t \in Streams : "failed" \in past[t] => "failed" \in past'[t]
      BY <3>1, StillFailed, BaseAssumption
    <3> QED
      BY <1>2, <1>3, <1>5, <2>1, <3>1, <3>2
  <2>3. ASSUME NEW s \in Streams, NEW k \in EventKinds, Post(s, k) PROVE InfoInv'
    <3>1. events' = events \cup {<<s, k>>} /\ UNCHANGED past /\ params[s] # None
      BY <2>3 DEF Post
    <3>2. \A t \in Streams, q \in Queues : Fetching(t, q) => Fetching(t, q)'
      BY <2>1, <3>1 DEF Fetching
    <3>3. \A t \in Streams : t # s => params'[t] = params[t]
      BY <2>3 DEF Post, TypeInv, FormatTypes
    <3>4. ASSUME NEW t \in Streams, t # s PROVE Good(t)'
      BY <1>3, <2>1, <3>1, <3>2, <3>3, <3>4
    <3>5. Good(s)'
      <4>1. CASE k = "resolution"
        <5>1. PICK f \in Fmts : params' = [params EXCEPT ![s]["out"].fmt = f]
          BY <2>3, <4>1 DEF Post
        <5>2. params[s] \in [Names -> Format]
          BY <3>1 DEF TypeInv, FormatTypes
        <5>3. params'[s]["in"] = params[s]["in"]
          BY <5>1, <5>2 DEF Names, TypeInv, FormatTypes
        <5>4. Fetching(s, "out")'
          BY <3>1, <4>1 DEF Fetching
        <5>5. Queues' = Queues
          BY <2>1 DEF Queues, IsM2m
        <5> QED
          BY <1>0, <1>1, <2>1, <3>1, <3>2, <5>3, <5>4, <5>5 DEF Good, Names
      <4>2. CASE k # "resolution"
        <5>1. UNCHANGED params
          BY <2>3, <4>2 DEF Post
        <5> QED
          BY <1>3, <2>1, <3>1, <3>2, <5>1
      <4> QED
        BY <4>1, <4>2
    <3> QED
      BY <1>2, <3>4, <3>5
  <2> QED
    BY <1>12, <2>2, <2>3 DEF BackEnd
<1>13. ASSUME UNCHANGED vars PROVE InfoInv'
  BY <1>2, <1>3, <1>5, <1>13 DEF vars, infoVars, evVars
<1> QED
  BY Steps, <1>7, <1>8, <1>9, <1>10, <1>11, <1>12, <1>13

-----------------------------------------------------------------------------
(* The theorems. *)

\* Every step keeps every part of the invariant.
LEMMA InvStep == Inv /\ [Next]_vars => Inv'
<1> SUFFICES ASSUME Inv, [Next]_vars PROVE Inv'
  OBVIOUS
<1> USE DEF Inv
<1>1. TypeInv'
  <2>1. StreamTypes'
    BY StreamTypeStep
  <2>2. FormatTypes' /\ KnownInv'
    BY FormatStep
  <2>3. BufTypes'
    BY BufTypeStep
  <2>4. CallTypes'
    BY CallTypeStep
  <2> QED
    BY <2>1, <2>2, <2>3, <2>4 DEF TypeInv
<1>2. IopInv' /\ KnownInv'
  BY IopStep, FormatStep
<1>3. QopInv'
  BY QopStep
<1>4. LockInv'
  BY LockStep
<1>5. StaleInv'
  BY StaleStep
<1>6. CameraInv'
  BY CameraStep
<1>7. RidInv'
  BY RidStep
<1>8. DrainInv'
  BY DrainStep
<1>9. ActiveOwed' /\ OwedInv'
  BY OwedStep
<1>10. ActiveInv'
  BY ActiveStep
<1>11. ListInv'
  BY ListStep
<1>12. DetachInv'
  BY DetachStep
<1>13. InfoInv'
  BY InfoStep
<1> HIDE DEF Inv
<1> QED
  BY <1>1, <1>2, <1>3, <1>4, <1>5, <1>6, <1>7, <1>8, <1>9, <1>10, <1>11, <1>12, <1>13 DEF Inv

\* The invariant holds in every state the sessions of this build reach.
THEOREM InvHolds == Spec => []Inv
BY InvInit, InvStep, PTL DEF Spec

\* The ids in resource_idr are those of the initialised buffers, one each, whichever command fails,
\* and every variable has its type (virtio_video_buf_init, virtio_video_buf_cleanup).
THEOREM IdsExactHolds == Spec => []IdsExact
<1>1. Inv => IdsExact
  <2> SUFFICES ASSUME Inv PROVE IdsExact
    OBVIOUS
  <2>1. StreamTypes /\ FormatTypes /\ BufTypes /\ CallTypes /\ LockInv /\ RidsExact
    BY DEF Inv, TypeInv, RidInv
  <2>2. ToSet(pending_buf_list) \subseteq Bufs
    BY DEF Inv, ListInv, ToSet
  <2>3. /\ dev \in Devs /\ busy \in BOOLEAN
        /\ pc \in [Streams -> {"free", "id", "params", "queues", "fail", "clear_busy", "open", "closing"}]
        /\ state \in [Streams -> ToSet(Order)] /\ past \in [Streams -> SUBSET Past]
        /\ draining \in [Streams -> BOOLEAN] /\ streaming \in [Streams -> SUBSET Queues]
        /\ opens \in 0..MaxOpens /\ calls \in 0..MaxCalls /\ posted \in 0..MaxEvents
    BY <2>1 DEF StreamTypes
  <2>4. info \in [Streams -> [{"in", "out"} -> Format]] /\ params \in [Streams -> [{"in", "out"} -> Format] \cup {None}]
    BY <2>1 DEF FormatTypes, Names
  <2>5. TypeOK
    BY <2>1, <2>2, <2>3, <2>4, Zenon DEF TypeOK, BufTypes, CallTypes, LockInv
  <2> QED
    BY <2>1, <2>5 DEF IdsExact
<1> QED
  BY <1>1, InvHolds, PTL

\* No answer and no list entry is for a buffer vb2 has freed, and no freed buffer stays attached at
\* the back end, in whatever order stops, REQBUFS, release and failing commands come
\* (virtio_video_queue_free, virtio_video_queue_release_buffers).
THEOREM NothingStaleHolds == Spec => []NothingStale
<1>1. Inv => NothingStale
  BY DEF Inv, OwedInv, ListInv, DetachInv, NothingStale, NoStaleBuffer
<1> QED
  BY <1>1, InvHolds, PTL

\* What the driver has, the back end has to answer, unless its RESOURCE_QUEUE was not sent, so that
\* vb2_wait_for_all_buffers ends.
THEOREM ActiveOwedHolds == Spec => []ActiveOwed
<1>1. Inv => ActiveOwed
  BY DEF Inv
<1> QED
  BY <1>1, InvHolds, PTL

\* A stream in DRAIN has an EOS to come, or it came before the state was set, or a clear ended the
\* drain (virtio_video_buf_done, virtio_video_decoder_cmd).
THEOREM DrainAnsweredHolds == Spec => []DrainAnswered
<1>1. Inv => DrainAnswered
  BY DEF Inv, DrainInv, DrainAnswered
<1> QED
  BY <1>1, InvHolds, PTL

\* The stream the work item uses is in stream_idr, unless an open failed meanwhile
\* (virtio_video_handle_event, which holds video_dev->lock).
THEOREM NoStaleUseHolds == Spec => []NoStaleUse
<1>1. Inv => NoStaleUse
  BY DEF Inv, StaleInv, NoStaleUse
<1> QED
  BY <1>1, InvHolds, PTL

\* When nothing is under way on an open stream, its formats are the back end's, unless a command
\* failed (virtio_video_s_fmt, virtio_video_s_selection, virtio_video_handle_event).
THEOREM InfoAgreesHolds == Spec => []InfoAgrees
<1>1. Inv => InfoAgrees
  BY DEF Inv, InfoInv, InfoAgrees, Fetching, NoOp
<1> QED
  BY <1>1, InvHolds, PTL

\* A camera has one user at a time (virtio_video_set_device_busy, virtio_video_clear_device_busy).
THEOREM OneCameraHolds == Spec => []OneCamera
<1>1. Inv => OneCamera
  <2> SUFFICES ASSUME Inv, ~IsM2m PROVE Cardinality({s \in Streams : pc[s] # "free"}) <= 1
    BY DEF Inv, CameraInv, OneCamera
  <2> DEFINE Users == {s \in Streams : pc[s] # "free"}
  <2>1. \A s, t \in Users : s = t
    BY DEF Inv, CameraInv
  <2> HIDE DEF Users
  <2>2. CASE Users = {}
    BY <2>2, FS_EmptySet DEF Users
  <2>3. ASSUME NEW s \in Users PROVE Cardinality(Users) <= 1
    <3>1. Users = {s}
      BY <2>1, <2>3
    <3>2. Cardinality(Users) = 1
      BY <3>1, FS_Singleton
    <3> QED
      BY <3>2
  <2> QED
    BY <2>2, <2>3 DEF Users
<1> QED
  BY <1>1, InvHolds, PTL
=============================================================================
