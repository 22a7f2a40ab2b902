------------------------- MODULE StreamSessionProofs -------------------------
(* Theorems about StreamSession, for any streams, codecs, kinds and bounds. *)
EXTENDS StreamSession, FiniteSetTheorems, OperatorLemmas

-----------------------------------------------------------------------------
(* Types. *)

Types == {"GET_PARAMS", "SET_PARAMS", "SET_CONTROL", "STREAM_START"}
Ioctls == Kinds \cup {"s_ctrl"}
Cmd == [id : Ids, kind : Ioctls \cup {"create", "destroy"}, gen : 1..MaxOpens,
        val : Codecs \cup BOOLEAN \cup {None}]
Evt == [id : Ids, kind : EventKinds, gen : 1..MaxOpens]
BackStream == [gen : 1..MaxOpens, codec : Codecs \cup {None}, eos : BOOLEAN]
Op == [at : {"none", "check", "send", "wait"}, kind : Ioctls \cup {None},
       val : Codecs \cup BOOLEAN \cup {None}]
Parts == {"fh", "ctx", "slab", "ctrls"} \cup Memory
Places == {"free", "open"} \cup StepsOfOpen \cup StepsOfClose

\* A value goes with its kind: a codec with s_fmt, a truth value with s_ctrl.
Fits(kind, val) ==
  /\ kind = "s_fmt" => val \in Codecs
  /\ kind = "s_ctrl" => val \in BOOLEAN

StreamTypeOK ==
  /\ pc \in [Streams -> Places]
  /\ state \in [Streams -> {"idle", "stopped", "error"}]
  /\ held \in [Streams -> SUBSET Parts]
  /\ past \in [Streams -> SUBSET Past] /\ orphans \subseteq 1..MaxOpens
  /\ lock \in Streams \cup {None}

IdTypeOK ==
  /\ gen \in [Streams -> 0..MaxOpens] /\ nid \in [Streams -> Ids \cup {None}]
  /\ idr \in [Ids -> Streams \cup {None}]
  /\ opens \in 0..MaxOpens

ValueTypeOK ==
  /\ codec \in [Streams -> Codecs \cup {None}] /\ eos \in [Streams -> BOOLEAN]
  /\ op \in [Streams -> Op]
  /\ \A s \in Streams : IF op[s].at = "none" THEN op[s] = NoOp
       ELSE op[s].kind \in Ioctls /\ Fits(op[s].kind, op[s].val) /\ pc[s] = "open"

BackTypeOK ==
  /\ toBack \in Seq(Cmd) /\ \A n \in DOMAIN toBack : Fits(toBack[n].kind, toBack[n].val)
  /\ answers \subseteq Ids \X Types /\ collided \in BOOLEAN
  /\ back \in [Ids -> BackStream \cup {None}]

EventTypeOK == events \in Seq(Evt) /\ wk \in Handled \cup {None}

TypeInv == StreamTypeOK /\ IdTypeOK /\ ValueTypeOK /\ BackTypeOK /\ EventTypeOK

-----------------------------------------------------------------------------
(* The invariants. *)

\* An id that is given is given to one stream.
IdsInv ==
  /\ \A s \in Streams : pc[s] # "free" => nid[s] \in Ids
  /\ IdrExact

\* Opens are numbered upwards: nothing is of a later open, and no two streams are of one.
GensInv ==
  /\ \A s \in Streams : pc[s] = "free" <=> gen[s] = 0
  /\ \A s \in Streams : gen[s] <= opens
  /\ \A s, t \in Streams : gen[s] = gen[t] /\ gen[s] # 0 => s = t
  /\ \A n \in DOMAIN toBack : toBack[n].gen <= opens
  /\ \A i \in Ids : back[i] # None => back[i].gen <= opens
  /\ \A n \in DOMAIN events : events[n].gen <= opens
  /\ wk # None => wk.gen \in 1..opens

\* Whatever is of one open is under one id.
IdOfGen ==
  /\ \A s \in Streams, n \in DOMAIN toBack : toBack[n].gen = gen[s] => toBack[n].id = nid[s]
  /\ \A s \in Streams, i \in Ids : back[i] # None /\ back[i].gen = gen[s] => i = nid[s]
  /\ \A s \in Streams, n \in DOMAIN events : events[n].gen = gen[s] => events[n].id = nid[s]
  /\ \A i \in Ids, n \in DOMAIN toBack :
       back[i] # None /\ back[i].gen = toBack[n].gen => i = toBack[n].id
  /\ \A m, n \in DOMAIN toBack : toBack[m].gen = toBack[n].gen => toBack[m].id = toBack[n].id

\* The commands under one id come in the order of the opens that gave it.
InOrder ==
  /\ \A m, n \in DOMAIN toBack :
       m < n /\ toBack[m].id = toBack[n].id => toBack[m].gen <= toBack[n].gen
  /\ \A n \in DOMAIN toBack :
       back[toBack[n].id] # None => back[toBack[n].id].gen <= toBack[n].gen
  /\ \A s \in Streams : InIdr(s) =>
       /\ \A n \in DOMAIN toBack : toBack[n].id = nid[s] => toBack[n].gen <= gen[s]
       /\ back[nid[s]] # None => back[nid[s]].gen <= gen[s]

\* A stream is created once, before all else.
CreatedOnce ==
  /\ \A m, n \in DOMAIN toBack :
       m < n /\ toBack[m].gen = toBack[n].gen => toBack[n].kind # "create"
  /\ \A n \in DOMAIN toBack :
       back[toBack[n].id] # None /\ back[toBack[n].id].gen = toBack[n].gen => toBack[n].kind # "create"
  /\ \A s \in Streams : pc[s] = "create" =>
       /\ \A n \in DOMAIN toBack : toBack[n].gen # gen[s]
       /\ back[nid[s]] # None => back[nid[s]].gen # gen[s]

\* Someone is to destroy the stream of open g, or is known not to.
Owners == {"fields", "reset", "queues", "ctrls", "open", "closing", "destroy"}
Owned(g) == g \in orphans \/ \E s \in Streams : gen[s] = g /\ pc[s] \in Owners
Destroys(n, g) == toBack[n].kind = "destroy" /\ toBack[n].gen = g

\* The back end's streams are owned, or will be destroyed; those it is told to create, too.
OwnedInv ==
  /\ \A i \in Ids : back[i] # None =>
       Owned(back[i].gen) \/ \E n \in DOMAIN toBack : Destroys(n, back[i].gen)
  /\ \A n \in DOMAIN toBack : toBack[n].kind = "create" =>
       Owned(toBack[n].gen) \/ \E m \in DOMAIN toBack : n < m /\ Destroys(m, toBack[n].gen)
  /\ collided => orphans # {}

\* What a stream has acquired, at each step of its open, its failure and its release.
HeldInv ==
  \A s \in Streams :
    /\ pc[s] \in {"free", "create", "create_failed", "fields", "reset"} => held[s] = {}
    /\ pc[s] = "queues" => held[s] = {"fh"}
    /\ pc[s] = "ctrls" => held[s] = {"fh", "ctx", "slab"} \cup Memory
    /\ pc[s] \in {"open", "closing", "fail_ctrls"} => held[s] = Parts
    /\ pc[s] \in {"destroy", "put"} => held[s] = {"slab", "ctrls"} \cup Memory
    /\ pc[s] = "kfree" => held[s] = {"ctrls"} \cup Memory
    /\ pc[s] \in {"fail_put", "fail_free"} => held[s] \in {{}, Memory \cup {"ctrls", "slab"}}

\* An error event that was posted is noted, as long as its stream is the same.
CauseInv ==
  /\ OnlyOwnErrors
  /\ \A s \in Streams, n \in DOMAIN events :
       events[n].kind = "error" /\ events[n].gen = gen[s] => "hit" \in past[s]
  /\ wk # None => (wk.kind = "error" /\ wk.gen = gen[wk.stream] =>
                     past[wk.stream] \cap {"hit", "misled"} # {})
  /\ wk # None => (wk.at = "exchange" => wk.prev # "error")
  /\ wk # None => (wk.at \in {"update", "exchange"} => wk.kind # "resolution")

\* An error event of stream s is on its way, or being handled.
Coming(s) ==
  \/ \E n \in DOMAIN events : events[n].kind = "error" /\ events[n].gen = gen[s]
  \/ /\ wk # None /\ wk.stream = s /\ wk.kind = "error" /\ wk.gen = gen[s]
     /\ wk.at \in {"update", "exchange"}

ArriveInv ==
  \A s \in Streams :
    "hit" \in past[s] /\ "lost" \notin past[s] /\ InIdr(s) => state[s] = "error" \/ Coming(s)

\* enable_eos_event is what an s_ctrl under way has set it to, and a new stream is cleared.
EosInv ==
  /\ \A s \in Streams : op[s].at \in {"send", "wait"} /\ op[s].kind = "s_ctrl" => eos[s] = op[s].val
  /\ \A s \in Streams : pc[s] = "free" =>
       codec[s] = None /\ eos[s] = FALSE /\ past[s] = {} /\ state[s] = "idle"

\* What the back end uses once the commands on their way are done is what the stream believes,
\* or what the ioctl under way is about to make it believe.
Of(s, n, kind) == toBack[n].gen = gen[s] /\ toBack[n].kind = kind
LastOf(s, n, kind) == Of(s, n, kind) /\ \A m \in DOMAIN toBack : n < m => ~Of(s, m, kind)
Waits(s, kind) == op[s].at = "wait" /\ op[s].kind = kind
Sound(s) == state[s] # "error" /\ "lost" \notin past[s] /\ InIdr(s)
CodecSoon(s) == IF Waits(s, "s_fmt") THEN op[s].val ELSE codec[s]
Unsent(s) == "nomem" \in past[s] \/ (op[s].at = "send" /\ op[s].kind = "s_ctrl")

NoneOf(s, kind) == \A n \in DOMAIN toBack : ~Of(s, n, kind)
Opening(s) == pc[s] \in {"create", "fields", "reset", "queues", "ctrls"}

Agree(s) ==
  /\ \A n \in DOMAIN toBack : LastOf(s, n, "s_fmt") => toBack[n].val = CodecSoon(s)
  /\ \A n \in DOMAIN toBack : LastOf(s, n, "s_ctrl") => Unsent(s) \/ toBack[n].val = eos[s]
  /\ back[nid[s]] # None /\ back[nid[s]].gen = gen[s] =>
       /\ NoneOf(s, "s_fmt") => back[nid[s]].codec = CodecSoon(s)
       /\ NoneOf(s, "s_ctrl") => Unsent(s) \/ back[nid[s]].eos = eos[s]
  /\ Opening(s) \/ (\E n \in DOMAIN toBack : Of(s, n, "create")) =>
       /\ NoneOf(s, "s_fmt") => CodecSoon(s) = None
       /\ NoneOf(s, "s_ctrl") => Unsent(s) \/ eos[s] = FALSE
  /\ Opening(s) => NoneOf(s, "s_fmt") /\ NoneOf(s, "s_ctrl")

AgreeInv == \A s \in Streams : Sound(s) => Agree(s)

Inv ==
  /\ TypeInv
  /\ IdsInv /\ GensInv /\ IdOfGen /\ InOrder /\ CreatedOnce /\ OwnedInv
  /\ HeldInv /\ CauseInv /\ ArriveInv /\ EosInv /\ AgreeInv

-----------------------------------------------------------------------------
(* Lemmas about types. *)

\* The parts of a command, an event, and what the work item handles.
LEMMA CmdParts ==
  ASSUME BackTypeOK
  PROVE  \A n \in DOMAIN toBack :
           /\ toBack[n] \in Cmd
           /\ toBack[n].id \in Ids /\ toBack[n].gen \in 1..MaxOpens /\ toBack[n].gen # 0
           /\ toBack[n].kind \in Ioctls \cup {"create", "destroy"}
<1>1. toBack \in Seq(Cmd)
  BY DEF BackTypeOK
<1>2. \A n \in DOMAIN toBack : toBack[n] \in Cmd
  BY <1>1
<1> QED
  BY <1>2, BoundsAssumption DEF Cmd

\* Likewise an event's.
LEMMA EvtParts ==
  ASSUME EventTypeOK
  PROVE  \A n \in DOMAIN events :
           /\ events[n] \in Evt
           /\ events[n].id \in Ids /\ events[n].gen \in 1..MaxOpens /\ events[n].gen # 0
           /\ events[n].kind \in EventKinds
<1>1. \A n \in DOMAIN events : events[n] \in Evt
  BY DEF EventTypeOK
<1> QED
  BY <1>1, BoundsAssumption DEF Evt

\* And those of the event being handled.
LEMMA HandledParts ==
  ASSUME EventTypeOK, wk # None
  PROVE  /\ wk \in Handled /\ wk.stream \in Streams /\ wk.gen \in 0..MaxOpens
         /\ wk.kind \in EventKinds /\ wk.at \in {"update", "exchange", "act"}
BY DEF EventTypeOK, Handled

\* What an ioctl's step, or the work item's, makes of its record.
LEMMA OpTyped ==
  ASSUME ValueTypeOK, NEW s \in Streams
  PROVE  /\ op[s] \in Op
         /\ \A l \in {"send", "wait"} : [op[s] EXCEPT !.at = l] \in Op
<1>1. op[s] \in Op
  BY DEF ValueTypeOK
<1> QED
  BY <1>1 DEF Op

\* That no ioctl is under way is an Op as well.
LEMMA NoOpTyped == NoOp \in Op
BY DEF NoOp, Op

-----------------------------------------------------------------------------
(* Types are kept. *)

StreamSteps(s) ==
  OpenAlloc(s) \/ OpenStep(s) \/ Close(s) \/ TakeLock(s) \/ CloseStep(s) \/ Ioctl(s) \/ IoctlStep(s)

\* The places, states and parts of streams keep their types.
LEMMA StreamTypeStep == Inv /\ [Next]_vars => StreamTypeOK'
<1> SUFFICES ASSUME Inv, [Next]_vars PROVE StreamTypeOK'
  OBVIOUS
<1> USE DEF Inv, TypeInv, StreamTypeOK, streamVars, backVars, evVars, histVars
<1>0. \A s \in Streams : gen[s] \in 0..MaxOpens /\ (pc[s] # "free" => gen[s] \in 1..MaxOpens)
  BY BoundsAssumption DEF GensInv, IdTypeOK
<1>1. ASSUME NEW s \in Streams, OpenAlloc(s) \/ OpenCreate(s) \/ OpenFields(s) \/ OpenReset(s) PROVE StreamTypeOK'
  <2>1. CASE OpenAlloc(s) \/ OpenCreate(s) \/ OpenFields(s)
    BY <2>1 DEF OpenAlloc, OpenCreate, OpenFields, GoTo, Places, StepsOfOpen
  <2>2. CASE OpenReset(s)
    <3>1. past' \in [Streams -> SUBSET Past]
      BY <2>2 DEF OpenReset, Note, Past
    <3> QED
      BY <2>2, <3>1 DEF OpenReset, GoTo, Places, StepsOfOpen, Parts
  <2> QED
    BY <1>1, <2>1, <2>2
<1>2. ASSUME NEW s \in Streams, OpenQueues(s) \/ OpenQueuesFail(s) PROVE StreamTypeOK'
  BY <1>0, <1>2 DEF OpenQueues, OpenQueuesFail, GoTo, Places, StepsOfOpen, Parts, SetUp
<1>3. ASSUME NEW s \in Streams, OpenCtrls(s) \/ OpenCtrlsFail(s) \/ FailCtx(s) PROVE StreamTypeOK'
  <2>1. pc' \in [Streams -> Places] /\ held' \in [Streams -> SUBSET Parts]
    BY <1>3 DEF OpenCtrls, OpenCtrlsFail, FailCtx, GoTo, Places, StepsOfOpen, Parts
  <2> QED
    BY <1>0, <1>3, <2>1 DEF OpenCtrls, OpenCtrlsFail, FailCtx
<1>4. ASSUME NEW s \in Streams, FailPut(s) \/ FailFree(s) \/ Close(s) PROVE StreamTypeOK'
  BY <1>4 DEF FailPut, FailFree, Close, Free, GoTo, Places, StepsOfOpen, StepsOfClose
<1>5. ASSUME NEW s \in Streams, CloseLocked(s) \/ CloseStep(s) PROVE StreamTypeOK'
  BY <1>0, <1>5 DEF CloseLocked, CloseStep, CloseDestroy, ClosePut, CloseFree, Free, GoTo, Places, StepsOfClose
<1>6. ASSUME NEW s \in Streams, Ioctl(s) PROVE StreamTypeOK'
  BY <1>6 DEF Ioctl, Plain, SFmt, SCtrl, Unsubscribe, EnterIoctl
<1>7. ASSUME NEW s \in Streams, IoctlStep(s) PROVE StreamTypeOK'
  <2>1. CASE Refused(s) \/ Admitted(s) \/ Send(s) \/ Answered(s)
    BY <2>1 DEF Refused, Admitted, Send, Answered, EndOp
  <2>2. CASE NoMemory(s) \/ CommandFails(s)
    <3>1. past' \in [Streams -> SUBSET Past]
      BY <2>2 DEF NoMemory, CommandFails, Note, Past
    <3> QED
      BY <2>2, <3>1 DEF NoMemory, CommandFails, EndOp
  <2> QED
    BY <1>7, <2>1, <2>2 DEF IoctlStep
<1>8. CASE BackProcess
  BY <1>8 DEF BackProcess
<1>9. ASSUME NEW i \in Ids, NEW k \in EventKinds, BackEvent(i, k) PROVE StreamTypeOK'
  BY <1>9 DEF BackEvent, Past
<1>10. CASE HandleFind \/ UpdateRead \/ HandleAct
  BY <1>10 DEF HandleFind, UpdateRead, HandleAct, Note, Past
<1>11. CASE UpdateExchange
  <2>1. wk.stream \in Streams
    BY <1>11, HandledParts DEF UpdateExchange
  <2> QED
    BY <1>11, <2>1 DEF UpdateExchange, NewState
<1>12. CASE UNCHANGED vars
  BY <1>12 DEF vars
<1> QED
  BY <1>1, <1>2, <1>3, <1>4, <1>5, <1>6, <1>7, <1>8, <1>9, <1>10, <1>11, <1>12
     DEF Next, Work, OpenStep, TakeLock

-----------------------------------------------------------------------------
(* Ids. *)

\* While a stream is not open, an id is free: no more ids are given than there are other streams.
LEMMA FreeIdExists ==
  ASSUME IdTypeOK, IdsInv, NEW s \in Streams, pc[s] = "free"
  PROVE  FreeIds # {}
<1> SUFFICES ASSUME FreeIds = {} PROVE FALSE
  OBVIOUS
<1>1. \A i \in Ids : idr[i] \in Streams \ {s} /\ nid[idr[i]] = i
  BY DEF FreeIds, IdTypeOK, IdsInv, IdrExact, InIdr
<1> DEFINE T == Streams \ {s}
<1>2. IsFiniteSet(T) /\ Cardinality(T) = Cardinality(Streams) - 1
  BY FS_RemoveElement, BoundsAssumption
<1>3. Cardinality(Streams) \in Nat
  BY FS_CardinalityType, BoundsAssumption
<1>4. IsFiniteSet(Ids) /\ Cardinality(Ids) = Cardinality(Streams)
  BY <1>3, FS_Interval DEF Ids
<1>5. idr \in [Ids -> T]
  BY <1>1 DEF IdTypeOK
<1>6. \E i, j \in Ids : i # j /\ idr[i] = idr[j]
  BY <1>2, <1>3, <1>4, <1>5, FS_PigeonHole
<1> QED
  BY <1>1, <1>6

\* So virtio_video_stream_id_get finds one.
LEMMA LowestFreeFree ==
  ASSUME IdTypeOK, IdsInv, NEW s \in Streams, pc[s] = "free"
  PROVE  LowestFree \in Ids /\ idr[LowestFree] = None
<1>1. FreeIds \in SUBSET Nat /\ FreeIds # {}
  BY FreeIdExists DEF FreeIds, Ids
<1>2. \E i \in FreeIds : \A j \in FreeIds : i <= j
  BY <1>1, LowestExists
<1>3. LowestFree \in FreeIds
  BY <1>2 DEF LowestFree
<1> QED
  BY <1>3 DEF FreeIds

\* What an open that begins changes.
LEMMA OpenAllocIds ==
  ASSUME Inv, NEW s \in Streams, OpenAlloc(s)
  PROVE  \E i \in Ids :
           /\ idr[i] = None
           /\ idr' = [idr EXCEPT ![i] = s] /\ nid' = [nid EXCEPT ![s] = i]
           /\ gen' = [gen EXCEPT ![s] = opens + 1] /\ opens' = opens + 1 /\ opens' \in 1..MaxOpens
           /\ pc[s] = "free" /\ pc' = [pc EXCEPT ![s] = "create"]
<1>1. LowestFree \in Ids /\ idr[LowestFree] = None
  BY LowestFreeFree DEF OpenAlloc, Inv, TypeInv
<1>2. /\ idr' = [idr EXCEPT ![LowestFree] = s] /\ nid' = [nid EXCEPT ![s] = LowestFree]
      /\ gen' = [gen EXCEPT ![s] = opens + 1] /\ opens' = opens + 1 /\ opens < MaxOpens
      /\ pc[s] = "free" /\ pc' = [pc EXCEPT ![s] = "create"]
  BY DEF OpenAlloc, IdGet, GoTo
<1>3. opens' \in 1..MaxOpens
  BY <1>2, BoundsAssumption DEF Inv, TypeInv, IdTypeOK
<1> QED
  BY <1>1, <1>2, <1>3

\* A step of an open, its failure or a release that leaves the ids alone.
Moves(s) ==
  /\ pc[s] # "free" /\ \E l \in Places \ {"free", "create"} : pc' = [pc EXCEPT ![s] = l]
  /\ InIdr(s) /\ InIdr(s)'
  /\ UNCHANGED <<gen, nid, idr, opens>>
Puts(s) ==
  /\ InIdr(s) /\ idr' = [idr EXCEPT ![nid[s]] = None]
  /\ \E l \in {"fail_free", "kfree"} : pc' = [pc EXCEPT ![s] = l]
  /\ UNCHANGED <<gen, nid, opens>>
Frees(s) ==
  /\ pc[s] \in {"fail_free", "kfree"} /\ pc' = [pc EXCEPT ![s] = "free"]
  /\ gen' = [gen EXCEPT ![s] = 0] /\ nid' = [nid EXCEPT ![s] = None]
  /\ past' = [past EXCEPT ![s] = {}]
  /\ UNCHANGED <<idr, opens>>

\* Every step gives an id, moves on, puts the id, frees the stream, or changes none of these.
LEMMA IdSteps ==
  ASSUME Inv, [Next]_vars
  PROVE  \/ \E s \in Streams : OpenAlloc(s) \/ Moves(s) \/ Puts(s) \/ Frees(s)
         \/ UNCHANGED <<pc, gen, nid, idr, opens>>
<1> USE DEF streamVars, backVars, evVars, histVars
<1>0. pc \in [Streams -> Places]
  BY DEF Inv, TypeInv, StreamTypeOK
<1>1. ASSUME NEW s \in Streams, OpenCreate(s) \/ OpenFields(s) \/ OpenReset(s) \/ OpenQueues(s) \/ OpenQueuesFail(s)
      PROVE  Moves(s)
  BY <1>0, <1>1 DEF OpenCreate, OpenFields, OpenReset, OpenQueues, OpenQueuesFail, GoTo, Moves, InIdr, Places, StepsOfOpen
<1>2. ASSUME NEW s \in Streams, OpenCtrls(s) \/ OpenCtrlsFail(s) \/ FailCtx(s) PROVE Moves(s)
  BY <1>0, <1>2 DEF OpenCtrls, OpenCtrlsFail, FailCtx, GoTo, Moves, InIdr, Places, StepsOfOpen
<1>3. ASSUME NEW s \in Streams, Close(s) \/ CloseLocked(s) \/ CloseDestroy(s) PROVE Moves(s)
  BY <1>0, <1>3 DEF Close, CloseLocked, CloseDestroy, GoTo, Moves, InIdr, Places, StepsOfClose
<1>4. ASSUME NEW s \in Streams, FailPut(s) \/ ClosePut(s) PROVE Puts(s)
  BY <1>0, <1>4 DEF FailPut, ClosePut, IdPut, GoTo, Puts, InIdr
<1>5. ASSUME NEW s \in Streams, FailFree(s) \/ CloseFree(s) PROVE Frees(s)
  BY <1>5 DEF FailFree, CloseFree, Free, GoTo, Frees
<1>6. ASSUME NEW s \in Streams, Ioctl(s) \/ IoctlStep(s) PROVE UNCHANGED <<pc, gen, nid, idr, opens>>
  BY <1>6 DEF Ioctl, Plain, SFmt, SCtrl, Unsubscribe, EnterIoctl, IoctlStep, Refused, Admitted, NoMemory,
              Send, CommandFails, Answered
<1>7. CASE BackProcess \/ \E i \in Ids, k \in EventKinds : BackEvent(i, k)
  BY <1>7 DEF BackProcess, BackEvent
<1>8. CASE Work
  BY <1>8 DEF Work, HandleFind, UpdateRead, UpdateExchange, HandleAct
<1>9. CASE UNCHANGED vars
  BY <1>9 DEF vars
<1> QED
  BY <1>1, <1>2, <1>3, <1>4, <1>5, <1>6, <1>7, <1>8, <1>9 DEF Next, OpenStep, CloseStep, TakeLock

\* Ids and the numbers of opens keep their types, and every id its stream.
LEMMA IdsStep == Inv /\ [Next]_vars => IdTypeOK' /\ IdsInv'
<1> SUFFICES ASSUME Inv, [Next]_vars PROVE IdTypeOK' /\ IdsInv'
  OBVIOUS
<1>0. TypeInv /\ StreamTypeOK /\ IdTypeOK /\ IdsInv /\ GensInv
  BY DEF Inv, TypeInv
<1> USE DEF IdTypeOK, IdsInv, IdrExact, InIdr
<1>1. ASSUME NEW s \in Streams, OpenAlloc(s) PROVE IdTypeOK' /\ IdsInv'
  <2>1. PICK i \in Ids :
           /\ idr[i] = None
           /\ idr' = [idr EXCEPT ![i] = s] /\ nid' = [nid EXCEPT ![s] = i]
           /\ gen' = [gen EXCEPT ![s] = opens + 1] /\ opens' = opens + 1 /\ opens' \in 1..MaxOpens
           /\ pc[s] = "free" /\ pc' = [pc EXCEPT ![s] = "create"]
    BY <1>1, OpenAllocIds
  <2>2. IdTypeOK'
    BY <1>0, <2>1, BoundsAssumption
  <2>3. IdsInv'
    BY <1>0, <2>1, BoundsAssumption DEF StreamTypeOK
  <2> QED
    BY <2>2, <2>3
<1>2. ASSUME NEW s \in Streams, Moves(s) PROVE IdTypeOK' /\ IdsInv'
  BY <1>0, <1>2 DEF Moves, StreamTypeOK
<1>3. ASSUME NEW s \in Streams, Puts(s) PROVE IdTypeOK' /\ IdsInv'
  BY <1>0, <1>3, BoundsAssumption DEF Puts, StreamTypeOK
<1>4. ASSUME NEW s \in Streams, Frees(s) PROVE IdTypeOK' /\ IdsInv'
  BY <1>0, <1>4, BoundsAssumption DEF Frees, StreamTypeOK
<1>5. CASE UNCHANGED <<pc, gen, nid, idr, opens>>
  BY <1>0, <1>5
<1> QED
  BY <1>1, <1>2, <1>3, <1>4, <1>5, IdSteps

-----------------------------------------------------------------------------
(* Commands and events. *)

\* A command of stream s leaves, stream_create first and once.
Sends(s) ==
  /\ pc[s] \in {"create", "open", "destroy"} /\ InIdr(s)
  /\ \E k \in Ioctls \cup {"create", "destroy"}, v \in Codecs \cup BOOLEAN \cup {None} :
       /\ toBack' = Append(toBack, Command(s, k, v))
       /\ Command(s, k, v) \in Cmd /\ Fits(k, v)
       /\ k = "create" <=> pc[s] = "create"
       /\ k = "destroy" <=> pc[s] = "destroy"
       /\ k = "create" => pc' = [pc EXCEPT ![s] = "fields"]
       /\ k = "destroy" => pc' = [pc EXCEPT ![s] = "put"]
       /\ k \in Ioctls => Send(s) /\ op[s].at = "send" /\ op[s].kind = k /\ op[s].val = v /\ pc' = pc
  /\ UNCHANGED <<back, gen, nid, idr, opens, orphans, collided, events, answers>>

\* The kinds of ioctls are not those of open and release.
LEMMA IoctlKinds == Ioctls \cap {"create", "destroy"} = {}
BY BoundsAssumption DEF Ioctls

\* A command is typed as long as its stream has its id.
LEMMA CommandTyped ==
  ASSUME Inv, NEW s \in Streams, InIdr(s), NEW k \in Ioctls \cup {"create", "destroy"},
         NEW v \in Codecs \cup BOOLEAN \cup {None}
  PROVE  Command(s, k, v) \in Cmd /\ Command(s, k, v).id = nid[s] /\ Command(s, k, v).gen = gen[s]
                                  /\ Command(s, k, v).kind = k /\ Command(s, k, v).val = v
<1>1. nid[s] \in Ids
  BY DEF Inv, IdsInv, InIdr
<1>2. gen[s] \in 1..MaxOpens
  BY BoundsAssumption DEF Inv, GensInv, TypeInv, IdTypeOK, InIdr
<1> QED
  BY <1>1, <1>2 DEF Command, Cmd

\* Whoever sends a command does it this way: an open, with stream_create.
LEMMA OpenCreateSends ==
  ASSUME Inv, NEW s \in Streams, OpenCreate(s), toBack' # toBack
  PROVE  Sends(s)
<1>1. pc[s] = "create" /\ InIdr(s) /\ pc' = [pc EXCEPT ![s] = "fields"]
      /\ toBack' = Append(toBack, Command(s, "create", None))
      /\ UNCHANGED <<back, gen, nid, idr, opens, orphans, collided, events, answers>>
  BY DEF OpenCreate, CreateCmd, GoTo, InIdr, histVars, evVars
<1>2. Command(s, "create", None) \in Cmd /\ Fits("create", None)
  BY <1>1, CommandTyped DEF Fits
<1> QED
  BY <1>1, <1>2, IoctlKinds DEF Sends

\* Release, with stream_destroy.
LEMMA CloseDestroySends ==
  ASSUME Inv, NEW s \in Streams, CloseDestroy(s), toBack' # toBack
  PROVE  Sends(s)
<1>1. pc[s] = "destroy" /\ InIdr(s) /\ pc' = [pc EXCEPT ![s] = "put"]
      /\ toBack' = Append(toBack, Command(s, "destroy", None))
      /\ UNCHANGED <<back, gen, nid, idr, opens, orphans, collided, events, answers>>
  BY DEF CloseDestroy, DestroyCmd, GoTo, InIdr, evVars
<1>2. Command(s, "destroy", None) \in Cmd /\ Fits("destroy", None)
  BY <1>1, CommandTyped DEF Fits
<1> QED
  BY <1>1, <1>2, IoctlKinds DEF Sends

\* An ioctl, with its own.
LEMMA SendSends ==
  ASSUME Inv, NEW s \in Streams, Send(s)
  PROVE  Sends(s)
<1>1. op[s] \in Op /\ op[s].at = "send" /\ op[s].kind \in Ioctls /\ Fits(op[s].kind, op[s].val) /\ pc[s] = "open"
  BY OpTyped DEF Send, OpAt, Inv, TypeInv, ValueTypeOK
<1>2. op[s].val \in Codecs \cup BOOLEAN \cup {None}
  BY <1>1 DEF Op
<1>3. InIdr(s) /\ toBack' = Append(toBack, Command(s, op[s].kind, op[s].val)) /\ pc' = pc
      /\ UNCHANGED <<back, gen, nid, idr, opens, orphans, collided, events, answers>>
  BY <1>1 DEF Send, InIdr, histVars, evVars
<1>4. Command(s, op[s].kind, op[s].val) \in Cmd
  BY <1>1, <1>2, <1>3, CommandTyped
<1> QED
  BY <1>1, <1>2, <1>3, <1>4, IoctlKinds DEF Sends

\* Every step sends a command, has the back end process one, or does neither.
LEMMA BackSteps ==
  ASSUME Inv, [Next]_vars
  PROVE  \/ \E s \in Streams : Sends(s)
         \/ BackProcess
         \/ UNCHANGED <<toBack, back>>
<1> USE DEF streamVars, backVars, evVars, histVars
<1>1. ASSUME NEW s \in Streams, OpenCreate(s) PROVE Sends(s) \/ UNCHANGED <<toBack, back>>
  BY <1>1, OpenCreateSends DEF OpenCreate
<1>2. ASSUME NEW s \in Streams, CloseDestroy(s) PROVE Sends(s) \/ UNCHANGED <<toBack, back>>
  BY <1>2, CloseDestroySends DEF CloseDestroy
<1>3. ASSUME NEW s \in Streams, OpenAlloc(s) \/ OpenFields(s) \/ OpenReset(s) \/ OpenQueues(s) \/ OpenQueuesFail(s)
                                 \/ OpenCtrls(s) \/ OpenCtrlsFail(s) \/ FailCtx(s) \/ FailPut(s) \/ FailFree(s)
      PROVE  UNCHANGED <<toBack, back>>
  BY <1>3 DEF OpenAlloc, OpenFields, OpenReset, OpenQueues, OpenQueuesFail, OpenCtrls, OpenCtrlsFail, FailCtx,
              FailPut, FailFree, Free
<1>4. ASSUME NEW s \in Streams, Close(s) \/ CloseLocked(s) \/ ClosePut(s) \/ CloseFree(s)
      PROVE  UNCHANGED <<toBack, back>>
  BY <1>4 DEF Close, CloseLocked, ClosePut, CloseFree, Free
<1>5. ASSUME NEW s \in Streams, Ioctl(s) PROVE UNCHANGED <<toBack, back>>
  BY <1>5 DEF Ioctl, Plain, SFmt, SCtrl, Unsubscribe, EnterIoctl
<1>6. ASSUME NEW s \in Streams, IoctlStep(s) PROVE Sends(s) \/ UNCHANGED <<toBack, back>>
  BY <1>6, SendSends DEF IoctlStep, Refused, Admitted, NoMemory, CommandFails, Answered
<1>7. ASSUME NEW i \in Ids, NEW k \in EventKinds, BackEvent(i, k) PROVE UNCHANGED <<toBack, back>>
  BY <1>7 DEF BackEvent
<1>8. CASE Work
  BY <1>8 DEF Work, HandleFind, UpdateRead, UpdateExchange, HandleAct
<1>9. CASE UNCHANGED vars
  BY <1>9 DEF vars
<1> QED
  BY <1>1, <1>2, <1>3, <1>4, <1>5, <1>6, <1>7, <1>8, <1>9 DEF Next, OpenStep, CloseStep, TakeLock

\* What the back end makes of the first command: its streams change at that command's id only,
\* a stream is put where there is none, and keeps its number.
LEMMA Processed ==
  ASSUME Inv, BackProcess
  PROVE  LET c == Head(toBack) IN
         /\ toBack # <<>> /\ toBack' = Tail(toBack)
         /\ c \in Cmd /\ Fits(c.kind, c.val) /\ c.id \in Ids /\ c.gen \in 1..MaxOpens /\ c = toBack[1] /\ 1 \in DOMAIN toBack
         /\ back' \in [Ids -> BackStream \cup {None}]
         /\ \A i \in Ids : i # c.id => back'[i] = back[i]
         /\ c.kind = "create" /\ back[c.id] = None =>
              back'[c.id] = [gen |-> c.gen, codec |-> None, eos |-> FALSE]
         /\ c.kind = "create" /\ back[c.id] # None => back' = back
         /\ c.kind = "destroy" => back'[c.id] = None
         /\ c.kind \in Ioctls /\ back[c.id] = None => back' = back
         /\ c.kind \in Ioctls /\ back[c.id] # None =>
              back'[c.id] = CASE c.kind = "s_fmt" -> [back[c.id] EXCEPT !.codec = c.val]
                              [] c.kind = "s_ctrl" -> [back[c.id] EXCEPT !.eos = c.val]
                              [] OTHER -> back[c.id]
         /\ collided' = (collided \/ (c.kind = "create" /\ back[c.id] # None))
         /\ answers' \subseteq answers \cup (Ids \X Types)
<1> DEFINE c == Head(toBack)
<1>1. toBack # <<>> /\ toBack' = Tail(toBack) /\ Reply(c)
  BY DEF BackProcess
<1>2. toBack \in Seq(Cmd) /\ back \in [Ids -> BackStream \cup {None}] /\ collided \in BOOLEAN
  BY DEF Inv, TypeInv, BackTypeOK
<1>3. c \in Cmd /\ c = toBack[1] /\ 1 \in DOMAIN toBack
  BY <1>1, <1>2, Taken
<1>4. Fits(c.kind, c.val)
  BY <1>3 DEF Inv, TypeInv, BackTypeOK
<1>5. c.id \in Ids /\ c.gen \in 1..MaxOpens /\ c.kind \in Ioctls \cup {"create", "destroy"}
  BY <1>3 DEF Cmd
<1> HIDE DEF c
<1>6. CASE c.kind = "create"
  <2>1. [gen |-> c.gen, codec |-> None, eos |-> FALSE] \in BackStream
    BY <1>5 DEF BackStream
  <2>2. /\ back' = IF back[c.id] = None
                    THEN [back EXCEPT ![c.id] = [gen |-> c.gen, codec |-> None, eos |-> FALSE]]
                    ELSE back
        /\ collided' = (collided \/ back[c.id] # None) /\ answers' = answers
    BY <1>1, <1>6 DEF Reply
  <2> QED
    BY <1>1, <1>2, <1>3, <1>4, <1>5, <1>6, <2>1, <2>2, IoctlKinds DEF c
<1>7. CASE c.kind = "destroy"
  <2>1. back' = [back EXCEPT ![c.id] = None] /\ UNCHANGED <<answers, collided>>
    BY <1>1, <1>7 DEF Reply
  <2> QED
    BY <1>1, <1>2, <1>3, <1>4, <1>5, <1>7, <2>1, IoctlKinds DEF c
<1>8. CASE c.kind \in Ioctls
  <2>1. /\ back' = IF back[c.id] = None THEN back
                    ELSE CASE c.kind = "s_fmt" -> [back EXCEPT ![c.id].codec = c.val]
                           [] c.kind = "s_ctrl" -> [back EXCEPT ![c.id].eos = c.val]
                           [] OTHER -> back
        /\ answers' = answers \cup {<<c.id, CmdType(c.kind)>>}
        /\ UNCHANGED collided
    BY <1>1, <1>8, IoctlKinds DEF Reply
  <2>2. CmdType(c.kind) \in Types
    BY <1>8, BoundsAssumption DEF CmdType, Types, Ioctls
  <2>3. back[c.id] # None =>
          /\ c.kind = "s_fmt" => [back[c.id] EXCEPT !.codec = c.val] \in BackStream
          /\ c.kind = "s_ctrl" => [back[c.id] EXCEPT !.eos = c.val] \in BackStream
    BY <1>2, <1>4, <1>5 DEF BackStream, Fits
  <2> QED
    BY <1>1, <1>2, <1>3, <1>4, <1>5, <1>8, <2>1, <2>2, <2>3, IoctlKinds DEF c
<1> QED
  BY <1>5, <1>6, <1>7, <1>8

\* Events leave the back end at the end, and reach the work item from the head.
LEMMA EventSteps ==
  ASSUME Inv, [Next]_vars
  PROVE  \/ \E i \in Ids, k \in EventKinds : BackEvent(i, k)
         \/ HandleFind
         \/ (UpdateRead \/ UpdateExchange \/ HandleAct) /\ UNCHANGED events
         \/ UNCHANGED <<events, wk>>
<1> USE DEF streamVars, backVars, evVars, histVars
<1>1. ASSUME NEW s \in Streams, OpenAlloc(s) \/ OpenCreate(s) \/ OpenFields(s) \/ OpenReset(s) \/ OpenQueues(s) \/ OpenQueuesFail(s)
                                 \/ OpenCtrls(s) \/ OpenCtrlsFail(s) \/ FailCtx(s) \/ FailPut(s) \/ FailFree(s)
      PROVE  UNCHANGED <<events, wk>>
  BY <1>1 DEF OpenAlloc, OpenCreate, OpenFields, OpenReset, OpenQueues, OpenQueuesFail, OpenCtrls, OpenCtrlsFail, FailCtx,
              FailPut, FailFree, Free
<1>2. ASSUME NEW s \in Streams, Close(s) \/ CloseLocked(s) \/ CloseStep(s) PROVE  UNCHANGED <<events, wk>>
  BY <1>2 DEF Close, CloseLocked, CloseStep, CloseDestroy, ClosePut, CloseFree, Free
<1>3. ASSUME NEW s \in Streams, Ioctl(s) \/ IoctlStep(s) PROVE UNCHANGED <<events, wk>>
  BY <1>3 DEF Ioctl, Plain, SFmt, SCtrl, Unsubscribe, EnterIoctl, IoctlStep, Refused, Admitted, NoMemory, Send, CommandFails, Answered
<1>4. CASE BackProcess \/ UNCHANGED vars
  BY <1>4 DEF BackProcess, vars
<1>5. CASE Work
  BY <1>5 DEF Work, UpdateRead, UpdateExchange, HandleAct
<1> QED
  BY <1>1, <1>2, <1>3, <1>4, <1>5 DEF Next, OpenStep, TakeLock

\* Only the back end adds answers, and knows of collisions.
LEMMA CollidedSteps ==
  ASSUME [Next]_vars
  PROVE  BackProcess \/ (answers' \subseteq answers /\ collided' = collided)
<1> USE DEF streamVars, backVars, evVars, histVars
<1>1. ASSUME NEW s \in Streams, OpenAlloc(s) \/ OpenCreate(s) \/ OpenFields(s) \/ OpenReset(s) \/ OpenQueues(s)
             \/ OpenQueuesFail(s) \/ OpenCtrls(s) \/ OpenCtrlsFail(s) \/ FailCtx(s) \/ FailPut(s) \/ FailFree(s)
      PROVE  answers' \subseteq answers /\ collided' = collided
  BY <1>1 DEF OpenAlloc, OpenCreate, OpenFields, OpenReset, OpenQueues, OpenQueuesFail, OpenCtrls, OpenCtrlsFail, FailCtx,
              FailPut, FailFree, Free
<1>2. ASSUME NEW s \in Streams, Close(s) \/ CloseLocked(s) \/ CloseStep(s)
      PROVE  answers' \subseteq answers /\ collided' = collided
  BY <1>2 DEF Close, CloseLocked, CloseStep, CloseDestroy, ClosePut, CloseFree, Free
<1>3. ASSUME NEW s \in Streams, Ioctl(s) \/ IoctlStep(s) PROVE answers' \subseteq answers /\ collided' = collided
  BY <1>3 DEF Ioctl, Plain, SFmt, SCtrl, Unsubscribe, EnterIoctl, IoctlStep, Refused, Admitted, NoMemory, Send,
              CommandFails, Answered
<1>4. CASE UNCHANGED vars
  BY <1>4 DEF vars
<1>5. CASE Work \/ \E i \in Ids, k \in EventKinds : BackEvent(i, k)
  BY <1>5 DEF Work, HandleFind, UpdateRead, UpdateExchange, HandleAct, BackEvent
<1> QED
  BY <1>1, <1>2, <1>3, <1>4, <1>5 DEF Next, OpenStep, TakeLock

\* Commands, answers and the back end's streams keep their types.
LEMMA BackTypeStep == Inv /\ [Next]_vars => BackTypeOK'
<1> SUFFICES ASSUME Inv, [Next]_vars PROVE BackTypeOK'
  OBVIOUS
<1>0. BackTypeOK
  BY DEF Inv, TypeInv
<1>1. ASSUME NEW s \in Streams, Sends(s) PROVE BackTypeOK'
  <2>1. PICK c \in Cmd : toBack' = Append(toBack, c) /\ Fits(c.kind, c.val)
    BY <1>1, CommandTyped DEF Sends
  <2>2. toBack' \in Seq(Cmd) /\ \A n \in DOMAIN toBack' : Fits(toBack'[n].kind, toBack'[n].val)
    BY <1>0, <2>1 DEF BackTypeOK
  <2> QED
    BY <1>0, <1>1, <2>2 DEF Sends, BackTypeOK
<1>2. CASE BackProcess
  <2>1. /\ toBack # <<>> /\ toBack' = Tail(toBack) /\ back' \in [Ids -> BackStream \cup {None}]
        /\ answers' \subseteq answers \cup (Ids \X Types) /\ collided' \in BOOLEAN
    BY <1>0, <1>2, Processed DEF BackTypeOK
  <2>2. toBack' \in Seq(Cmd) /\ \A n \in DOMAIN toBack' : Fits(toBack'[n].kind, toBack'[n].val)
    BY <1>0, <2>1 DEF BackTypeOK
  <2> QED
    BY <1>0, <2>1, <2>2 DEF BackTypeOK
<1>3. ASSUME UNCHANGED <<toBack, back>>, answers' \subseteq answers, collided' = collided PROVE BackTypeOK'
  BY <1>0, <1>3 DEF BackTypeOK
<1>4. (\E s \in Streams : Sends(s)) \/ BackProcess \/ (answers' \subseteq answers /\ collided' = collided)
  BY CollidedSteps
<1> QED
  BY <1>1, <1>2, <1>3, <1>4, BackSteps

\* Events, and what the work item handles, keep their types.
LEMMA EventTypeStep == Inv /\ [Next]_vars => EventTypeOK'
<1> SUFFICES ASSUME Inv, [Next]_vars PROVE EventTypeOK'
  OBVIOUS
<1>0. EventTypeOK /\ BackTypeOK /\ IdTypeOK /\ StreamTypeOK
  BY DEF Inv, TypeInv
<1>1. ASSUME NEW i \in Ids, NEW k \in EventKinds, BackEvent(i, k) PROVE EventTypeOK'
  <2>1. [id |-> i, kind |-> k, gen |-> back[i].gen] \in Evt
    BY <1>0, <1>1 DEF BackEvent, BackTypeOK, BackStream, Evt
  <2> QED
    BY <1>0, <1>1, <2>1 DEF EventTypeOK, BackEvent
<1>2. CASE HandleFind
  <2>1. Head(events) \in Evt /\ events' \in Seq(Evt)
    BY <1>0, <1>2 DEF HandleFind, EventTypeOK
  <2>2. wk' \in Handled \cup {None}
    BY <1>0, <1>2, <2>1 DEF HandleFind, Handled, Evt, IdTypeOK
  <2> QED
    BY <2>1, <2>2 DEF EventTypeOK
<1>3. CASE UpdateRead /\ UNCHANGED events
  BY <1>0, <1>3, HandledParts DEF UpdateRead, EventTypeOK, Handled, StreamTypeOK
<1>4. CASE UpdateExchange /\ UNCHANGED events
  BY <1>0, <1>4 DEF UpdateExchange, EventTypeOK, Handled
<1>5. CASE HandleAct /\ UNCHANGED events
  BY <1>0, <1>5 DEF HandleAct, EventTypeOK
<1>6. CASE UNCHANGED <<events, wk>>
  BY <1>0, <1>6 DEF EventTypeOK
<1> QED
  BY <1>1, <1>2, <1>3, <1>4, <1>5, <1>6, EventSteps

\* What streams believe, and their ioctls, keep their types.
LEMMA ValueTypeStep == Inv /\ [Next]_vars => ValueTypeOK'
<1> SUFFICES ASSUME Inv, [Next]_vars PROVE ValueTypeOK'
  OBVIOUS
<1>0. ValueTypeOK /\ pc \in [Streams -> Places]
  BY DEF Inv, TypeInv, StreamTypeOK
<1> USE <1>0, NoOpTyped DEF ValueTypeOK, streamVars, backVars, evVars, histVars
<1>1. ASSUME NEW s \in Streams, OpenAlloc(s) \/ OpenCreate(s) \/ OpenFields(s) \/ OpenReset(s) \/ OpenQueues(s)
             \/ OpenQueuesFail(s) \/ OpenCtrlsFail(s) \/ FailCtx(s) \/ FailPut(s)
      PROVE  ValueTypeOK'
  <2>1. UNCHANGED <<codec, eos, op>> /\ pc[s] # "open" /\ \E l \in Places : pc' = [pc EXCEPT ![s] = l]
    BY <1>1 DEF OpenAlloc, OpenCreate, OpenFields, OpenReset, OpenQueues, OpenQueuesFail, OpenCtrlsFail, FailCtx,
                FailPut, GoTo, Places, StepsOfOpen
  <2> QED
    BY <2>1
<1>2. ASSUME NEW s \in Streams, OpenCtrls(s) PROVE ValueTypeOK'
  <2>1. [at |-> "check", kind |-> "s_ctrl", val |-> TRUE] \in Op
    BY DEF Op, Ioctls
  <2> QED
    BY <1>2, <2>1 DEF OpenCtrls, GoTo, Fits, Ioctls
<1>3. ASSUME NEW s \in Streams, Close(s) PROVE ValueTypeOK'
  BY <1>3 DEF Close, GoTo, NoOp
<1>4. ASSUME NEW s \in Streams, CloseLocked(s) \/ CloseDestroy(s) \/ ClosePut(s) PROVE ValueTypeOK'
  <2>1. UNCHANGED <<codec, eos, op>> /\ pc[s] # "open" /\ \E l \in Places : pc' = [pc EXCEPT ![s] = l]
    BY <1>4 DEF CloseLocked, CloseDestroy, ClosePut, GoTo, Places, StepsOfClose
  <2> QED
    BY <2>1
<1>5. ASSUME NEW s \in Streams, CloseFree(s) \/ FailFree(s) PROVE ValueTypeOK'
  BY <1>5 DEF CloseFree, FailFree, Free, GoTo
<1>6. ASSUME NEW s \in Streams, Ioctl(s) PROVE ValueTypeOK'
  <2>1. PICK k \in Kinds, v \in Codecs \cup BOOLEAN \cup {None} : EnterIoctl(s, k, v) /\ Fits(k, v)
    BY <1>6 DEF Ioctl, Plain, SFmt, SCtrl, Unsubscribe, EnterIoctl, Query, Params, CodecCommand, Fits
  <2>2. [at |-> "check", kind |-> k, val |-> v] \in Op
    BY DEF Op, Ioctls
  <2> QED
    BY <2>1, <2>2 DEF EnterIoctl, Ioctls
<1>7. ASSUME NEW s \in Streams, Refused(s) \/ NoMemory(s) \/ CommandFails(s) PROVE ValueTypeOK'
  BY <1>7 DEF Refused, NoMemory, CommandFails, EndOp, NoOp
<1>8. ASSUME NEW s \in Streams, Admitted(s) PROVE ValueTypeOK'
  <2>1. op[s] \in Op /\ [op[s] EXCEPT !.at = "send"] \in Op
    BY OpTyped
  <2>2. op[s].kind \in Ioctls /\ Fits(op[s].kind, op[s].val) /\ pc[s] = "open"
    BY <1>8 DEF Admitted, OpAt
  <2> HIDE DEF Op
  <2>3. [op[s] EXCEPT !.at = "send"].at = "send" /\ [op[s] EXCEPT !.at = "send"].kind = op[s].kind
           /\ [op[s] EXCEPT !.at = "send"].val = op[s].val
    BY <2>1 DEF Op
  <2>4. op' = [op EXCEPT ![s] = [op[s] EXCEPT !.at = "send"]] /\ UNCHANGED <<pc, codec>>
    BY <1>8 DEF Admitted, GoOn
  <2>5. eos' \in [Streams -> BOOLEAN]
    BY <1>8, <2>2 DEF Admitted, Fits
  <2> QED
    BY <2>1, <2>2, <2>3, <2>4, <2>5
<1>9. ASSUME NEW s \in Streams, Send(s) PROVE ValueTypeOK'
  <2>1. op[s] \in Op /\ [op[s] EXCEPT !.at = "wait"] \in Op
    BY OpTyped
  <2>2. op[s].kind \in Ioctls /\ Fits(op[s].kind, op[s].val) /\ pc[s] = "open"
    BY <1>9 DEF Send, OpAt
  <2>3. [op[s] EXCEPT !.at = "wait"].at = "wait" /\ [op[s] EXCEPT !.at = "wait"].kind = op[s].kind
           /\ [op[s] EXCEPT !.at = "wait"].val = op[s].val
    BY <2>1 DEF Op
  <2>4. op' = [op EXCEPT ![s] = [op[s] EXCEPT !.at = "wait"]] /\ UNCHANGED <<pc, codec, eos>>
    BY <1>9 DEF Send, GoOn
  <2> QED
    BY <2>1, <2>2, <2>3, <2>4
<1>10. ASSUME NEW s \in Streams, Answered(s) PROVE ValueTypeOK'
  <2>1. op[s].at # "none"
    BY <1>10 DEF Answered, OpAt
  <2>2. codec' \in [Streams -> Codecs \cup {None}]
    BY <1>10, <2>1 DEF Answered, Fits
  <2> QED
    BY <1>10, <2>2 DEF Answered, EndOp, NoOp
<1>11. CASE UNCHANGED <<pc, codec, eos, op>>
  BY <1>11
<1>12. CASE BackProcess \/ Work \/ UNCHANGED vars \/ \E i \in Ids, k \in EventKinds : BackEvent(i, k)
  <2>1. UNCHANGED <<pc, codec, eos, op>>
    BY <1>12 DEF BackProcess, Work, HandleFind, UpdateRead, UpdateExchange, HandleAct, BackEvent, vars
  <2> QED
    BY <1>11, <2>1
<1> QED
  BY <1>1, <1>2, <1>3, <1>4, <1>5, <1>6, <1>7, <1>8, <1>9, <1>10, <1>12
     DEF Next, OpenStep, CloseStep, TakeLock, IoctlStep

-----------------------------------------------------------------------------
(* Opens, ids and the order of commands. *)

\* The number of opens never falls, and what a stream has from an earlier open it had before.
LEMMA OldGens ==
  ASSUME Inv, [Next]_vars
  PROVE  /\ opens \in Nat /\ opens' \in Nat /\ opens <= opens'
         /\ \A s \in Streams : \A g \in 1..opens :
              gen'[s] = g => gen[s] = g /\ nid'[s] = nid[s] /\ pc[s] # "free"
<1>0. opens \in Nat /\ gen \in [Streams -> 0..MaxOpens] /\ nid \in [Streams -> Ids \cup {None}]
      /\ (\A s \in Streams : gen[s] \in Nat) /\ (\A s \in Streams : pc[s] = "free" <=> gen[s] = 0)
  BY BoundsAssumption DEF Inv, TypeInv, IdTypeOK, GensInv
<1>1. ASSUME NEW s \in Streams, OpenAlloc(s)
      PROVE  gen' = [gen EXCEPT ![s] = opens + 1] /\ opens' = opens + 1 /\ \E i \in Ids : nid' = [nid EXCEPT ![s] = i]
  BY <1>1, OpenAllocIds
<1>2. ASSUME NEW s \in Streams, Moves(s) \/ Puts(s) PROVE UNCHANGED <<gen, nid, opens>>
  BY <1>2 DEF Moves, Puts
<1>3. ASSUME NEW s \in Streams, Frees(s)
      PROVE  gen' = [gen EXCEPT ![s] = 0] /\ nid' = [nid EXCEPT ![s] = None] /\ opens' = opens
  BY <1>3 DEF Frees
<1> QED
  BY <1>0, <1>1, <1>2, <1>3, IdSteps

\* The commands after one was sent.
LEMMA Sent ==
  ASSUME Inv, NEW s \in Streams, Sends(s)
  PROVE  \E N \in Nat \ {0} :
           /\ N \in DOMAIN toBack' /\ N \notin DOMAIN toBack
           /\ toBack'[N].gen = gen[s] /\ toBack'[N].id = nid[s]
           /\ toBack'[N].kind = "create" <=> pc[s] = "create"
           /\ toBack'[N].kind = "destroy" <=> pc[s] = "destroy"
           /\ toBack'[N].kind = "create" => pc' = [pc EXCEPT ![s] = "fields"]
           /\ toBack'[N].kind = "destroy" => pc' = [pc EXCEPT ![s] = "put"]
           /\ toBack'[N].kind \in Ioctls => Send(s) /\
                op[s].at = "send" /\ op[s].kind = toBack'[N].kind /\ op[s].val = toBack'[N].val /\ pc' = pc
           /\ toBack'[N].kind \in Ioctls \cup {"create", "destroy"}
           /\ \A n \in DOMAIN toBack : n \in DOMAIN toBack' /\ toBack'[n] = toBack[n] /\ n < N
           /\ \A n \in DOMAIN toBack' : n \in Nat /\ (n = N \/ n \in DOMAIN toBack)
<1>1. PICK k \in Ioctls \cup {"create", "destroy"}, v \in Codecs \cup BOOLEAN \cup {None} :
       /\ toBack' = Append(toBack, Command(s, k, v))
       /\ Command(s, k, v) \in Cmd /\ Fits(k, v)
       /\ k = "create" <=> pc[s] = "create"
       /\ k = "destroy" <=> pc[s] = "destroy"
       /\ k = "create" => pc' = [pc EXCEPT ![s] = "fields"]
       /\ k = "destroy" => pc' = [pc EXCEPT ![s] = "put"]
       /\ k \in Ioctls => Send(s) /\ op[s].at = "send" /\ op[s].kind = k /\ op[s].val = v /\ pc' = pc
  BY DEF Sends
<1>2. InIdr(s)
  BY DEF Sends
<1>3. toBack \in Seq(Cmd)
  BY DEF Inv, TypeInv, BackTypeOK
<1>4. Command(s, k, v).id = nid[s] /\ Command(s, k, v).gen = gen[s] /\ Command(s, k, v).kind = k /\ Command(s, k, v).val = v
  BY <1>2, CommandTyped
<1> DEFINE N == Len(toBack) + 1
<1>5. /\ N \in Nat \ {0} /\ N \in DOMAIN toBack' /\ N \notin DOMAIN toBack /\ toBack'[N] = Command(s, k, v)
      /\ \A n \in DOMAIN toBack : n \in DOMAIN toBack' /\ toBack'[n] = toBack[n] /\ n < N
      /\ \A n \in DOMAIN toBack' : n \in Nat /\ (n = N \/ n \in DOMAIN toBack)
  BY <1>1, <1>3
<1> HIDE DEF N
<1> QED
  BY <1>1, <1>4, <1>5

\* The commands after the first was processed.
LEMMA Left ==
  ASSUME Inv, BackProcess
  PROVE  /\ 1 \in DOMAIN toBack /\ Head(toBack) = toBack[1]
         /\ \A n \in DOMAIN toBack' : n \in Nat /\ n + 1 \in DOMAIN toBack /\ toBack'[n] = toBack[n + 1] /\ 1 < n + 1
         /\ \A n \in DOMAIN toBack : n \in Nat /\ (n = 1 \/ (n - 1 \in DOMAIN toBack' /\ toBack'[n - 1] = toBack[n]))
<1>1. toBack \in Seq(Cmd) /\ toBack # <<>> /\ toBack' = Tail(toBack)
  BY DEF Inv, TypeInv, BackTypeOK, BackProcess
<1> QED
  BY <1>1, Taken

\* Of which open a stream of the back end is after that.
LEMMA BackGens ==
  ASSUME Inv, BackProcess, NEW i \in Ids, back'[i] # None
  PROVE  \/ back[i] # None /\ back'[i].gen = back[i].gen
         \/ /\ i = Head(toBack).id /\ back'[i].gen = Head(toBack).gen /\ Head(toBack).kind = "create"
            /\ back[i] = None /\ back'[i] = [gen |-> Head(toBack).gen, codec |-> None, eos |-> FALSE]
<1> DEFINE c == Head(toBack)
<1>1. /\ c.id \in Ids /\ c.gen \in 1..MaxOpens /\ c.kind \in Ioctls \cup {"create", "destroy"}
      /\ \A j \in Ids : j # c.id => back'[j] = back[j]
      /\ c.kind = "create" /\ back[c.id] = None =>
           back'[c.id] = [gen |-> c.gen, codec |-> None, eos |-> FALSE]
      /\ c.kind = "create" /\ back[c.id] # None => back' = back
      /\ c.kind = "destroy" => back'[c.id] = None
      /\ c.kind \in Ioctls /\ back[c.id] = None => back' = back
      /\ c.kind \in Ioctls /\ back[c.id] # None =>
              back'[c.id] = CASE c.kind = "s_fmt" -> [back[c.id] EXCEPT !.codec = c.val]
                              [] c.kind = "s_ctrl" -> [back[c.id] EXCEPT !.eos = c.val]
                              [] OTHER -> back[c.id]
  BY Processed DEF Cmd
<1>2. back[i] # None => back[i] \in BackStream
  BY DEF Inv, TypeInv, BackTypeOK
<1> HIDE DEF c
<1>3. CASE i # c.id
  BY <1>1, <1>3
<1>4. CASE i = c.id /\ c.kind = "create"
  BY <1>1, <1>4 DEF c
<1>5. CASE i = c.id /\ c.kind \in Ioctls
  <2>1. back[i] # None
    BY <1>1, <1>5
  <2>2. back'[i].gen = back[i].gen
    BY <1>1, <1>2, <1>5, <2>1 DEF BackStream
  <2> QED
    BY <2>1, <2>2
<1> QED
  BY <1>1, <1>3, <1>4, <1>5

\* Opens stay numbered upwards.
LEMMA GensStep == Inv /\ [Next]_vars => GensInv'
<1> SUFFICES ASSUME Inv, [Next]_vars PROVE GensInv'
  OBVIOUS
<1>0. /\ GensInv /\ gen \in [Streams -> 0..MaxOpens] /\ pc \in [Streams -> Places]
      /\ opens \in Nat /\ opens' \in Nat /\ opens <= opens' /\ \A s \in Streams : gen[s] \in Nat
  BY OldGens, BoundsAssumption DEF Inv, TypeInv, IdTypeOK, StreamTypeOK
<1>1. /\ \A s \in Streams : (pc[s] = "free" <=> gen[s] = 0)'
      /\ \A s \in Streams : gen'[s] <= opens'
      /\ \A s, t \in Streams : gen'[s] = gen'[t] /\ gen'[s] # 0 => s = t
  <2>1. ASSUME NEW s \in Streams, OpenAlloc(s)
        PROVE  gen' = [gen EXCEPT ![s] = opens + 1] /\ opens' = opens + 1 /\ pc' = [pc EXCEPT ![s] = "create"]
    BY <2>1, OpenAllocIds
  <2>2. ASSUME NEW s \in Streams, Moves(s) \/ Puts(s)
        PROVE  UNCHANGED <<gen, opens>> /\ pc[s] # "free" /\ \E l \in Places \ {"free"} : pc' = [pc EXCEPT ![s] = l]
    BY <2>2 DEF Moves, Puts, InIdr, Places, StepsOfOpen, StepsOfClose
  <2>3. ASSUME NEW s \in Streams, Frees(s)
        PROVE  gen' = [gen EXCEPT ![s] = 0] /\ opens' = opens /\ pc' = [pc EXCEPT ![s] = "free"]
    BY <2>3 DEF Frees
  <2>4. CASE \E s \in Streams : OpenAlloc(s)
    BY <1>0, <2>1, <2>4 DEF GensInv
  <2>5. CASE \E s \in Streams : Moves(s) \/ Puts(s)
    BY <1>0, <2>2, <2>5 DEF GensInv
  <2>6. CASE \E s \in Streams : Frees(s)
    BY <1>0, <2>3, <2>6 DEF GensInv
  <2>7. CASE UNCHANGED <<pc, gen, nid, idr, opens>>
    BY <1>0, <2>7 DEF GensInv
  <2> QED
    BY <2>4, <2>5, <2>6, <2>7, IdSteps
<1>2. /\ \A n \in DOMAIN toBack' : toBack'[n].gen <= opens
      /\ \A i \in Ids : back'[i] # None => back'[i].gen <= opens
  <2>1. ASSUME NEW s \in Streams, Sends(s) PROVE <1>2!1 /\ <1>2!2
    <3>1. back' = back
      BY <2>1 DEF Sends
    <3> QED
      BY <1>0, <2>1, <3>1, Sent DEF GensInv
  <2>2. CASE BackProcess
    <3>1. Head(toBack).gen <= opens /\ <1>2!1
      BY <1>0, <2>2, Left DEF GensInv
    <3>2. <1>2!2
      BY <1>0, <2>2, <3>1, BackGens DEF GensInv
    <3> QED
      BY <3>1, <3>2
  <2>3. CASE UNCHANGED <<toBack, back>>
    BY <1>0, <2>3 DEF GensInv
  <2> QED
    BY <2>1, <2>2, <2>3, BackSteps
<1>3. (\A n \in DOMAIN events' : events'[n].gen <= opens) /\ (wk' # None => wk'.gen \in 1..opens)
  <2>0. events \in Seq(Evt) /\ EventTypeOK
    BY DEF Inv, TypeInv, EventTypeOK
  <2>1. ASSUME NEW i \in Ids, NEW k \in EventKinds, BackEvent(i, k) PROVE <1>3
    <3>1. /\ back[i] # None /\ wk' = wk
          /\ events' = Append(events, [id |-> i, kind |-> k, gen |-> back[i].gen])
      BY <2>1 DEF BackEvent
    <3> QED
      BY <1>0, <2>0, <3>1 DEF GensInv
  <2>2. CASE HandleFind
    <3>1. Head(events) \in Evt /\ events # <<>> /\ events' = Tail(events)
      BY <2>0, <2>2 DEF HandleFind
    <3>2. \A n \in DOMAIN events' : events'[n].gen <= opens
      BY <1>0, <2>0, <3>1 DEF GensInv
    <3>3. wk' = wk \/ (idr[Head(events).id] \in Streams /\ idr[Head(events).id] # None /\ wk'.gen = gen[idr[Head(events).id]])
      BY <2>2, <3>1 DEF HandleFind, Evt, Inv, TypeInv, IdTypeOK
    <3>4. idr[Head(events).id] # None => pc[idr[Head(events).id]] # "free"
      BY <3>1 DEF Inv, IdsInv, IdrExact, InIdr, Evt
    <3> QED
      BY <1>0, <3>2, <3>3, <3>4 DEF GensInv
  <2>3. CASE (UpdateRead \/ UpdateExchange \/ HandleAct) /\ UNCHANGED events
    <3>1. wk' # None => wk'.gen = wk.gen /\ wk # None
      BY <2>0, <2>3, HandledParts DEF UpdateRead, UpdateExchange, HandleAct, Handled
    <3> QED
      BY <1>0, <2>3, <3>1 DEF GensInv
  <2>4. CASE UNCHANGED <<events, wk>>
    BY <1>0, <2>4 DEF GensInv
  <2> QED
    BY <2>1, <2>2, <2>3, <2>4, EventSteps
<1>4. /\ \A n \in DOMAIN toBack' : toBack'[n].gen \in Nat
      /\ \A i \in Ids : back'[i] # None => back'[i].gen \in Nat
      /\ \A n \in DOMAIN events' : events'[n].gen \in Nat
  <2>1. BackTypeOK' /\ EventTypeOK'
    BY BackTypeStep, EventTypeStep
  <2>2. toBack' \in Seq(Cmd) /\ events' \in Seq(Evt) /\ back' \in [Ids -> BackStream \cup {None}]
    BY <2>1 DEF BackTypeOK, EventTypeOK
  <2>3. /\ \A n \in DOMAIN toBack' : toBack'[n] \in Cmd
        /\ \A i \in Ids : back'[i] # None => back'[i] \in BackStream
        /\ \A n \in DOMAIN events' : events'[n] \in Evt
    BY <2>2
  <2> QED
    BY <2>3, BoundsAssumption DEF Cmd, Evt, BackStream
<1> QED
  BY <1>0, <1>1, <1>2, <1>3, <1>4 DEF GensInv

\* Whatever is of one open stays under one id.
LEMMA IdOfGenStep == Inv /\ [Next]_vars => IdOfGen'
<1> SUFFICES ASSUME Inv, [Next]_vars PROVE IdOfGen'
  OBVIOUS
<1>0. /\ IdOfGen /\ GensInv /\ opens \in Nat /\ toBack \in Seq(Cmd) /\ events \in Seq(Evt)
      /\ \A s \in Streams : gen[s] \in Nat
  BY OldGens, BoundsAssumption DEF Inv, TypeInv, IdTypeOK, BackTypeOK, EventTypeOK
<1>1. /\ \A n \in DOMAIN toBack : toBack[n].gen \in 1..opens
      /\ \A i \in Ids : back[i] # None => back[i].gen \in 1..opens
      /\ \A n \in DOMAIN events : events[n].gen \in 1..opens
  BY <1>0, CmdParts, EvtParts, BoundsAssumption DEF GensInv, Inv, TypeInv, BackTypeOK, BackStream
<1>2. \A s \in Streams : \A g \in 1..opens : gen'[s] = g => gen[s] = g /\ nid'[s] = nid[s]
  BY OldGens
<1>3. ASSUME NEW s \in Streams, Sends(s)
      PROVE  /\ \A t \in Streams, n \in DOMAIN toBack' : toBack'[n].gen = gen'[t] => toBack'[n].id = nid'[t]
             /\ \A t \in Streams, i \in Ids : back'[i] # None /\ back'[i].gen = gen'[t] => i = nid'[t]
             /\ \A i \in Ids, n \in DOMAIN toBack' :
                  back'[i] # None /\ back'[i].gen = toBack'[n].gen => i = toBack'[n].id
             /\ \A m, n \in DOMAIN toBack' : toBack'[m].gen = toBack'[n].gen => toBack'[m].id = toBack'[n].id
  <2>1. UNCHANGED <<gen, nid, back>> /\ gen[s] # 0
    BY <1>0, <1>3 DEF Sends, GensInv, InIdr
  <2>2. PICK N \in DOMAIN toBack' :
          /\ toBack'[N].gen = gen[s] /\ toBack'[N].id = nid[s]
          /\ \A n \in DOMAIN toBack : n \in DOMAIN toBack' /\ toBack'[n] = toBack[n] /\ n < N
          /\ \A n \in DOMAIN toBack' : n = N \/ n \in DOMAIN toBack
    BY <1>3, Sent
  <2> QED
    BY <1>0, <2>1, <2>2 DEF IdOfGen, GensInv
<1>4. ASSUME BackProcess
      PROVE  /\ \A t \in Streams, n \in DOMAIN toBack' : toBack'[n].gen = gen'[t] => toBack'[n].id = nid'[t]
             /\ \A t \in Streams, i \in Ids : back'[i] # None /\ back'[i].gen = gen'[t] => i = nid'[t]
             /\ \A i \in Ids, n \in DOMAIN toBack' :
                  back'[i] # None /\ back'[i].gen = toBack'[n].gen => i = toBack'[n].id
             /\ \A m, n \in DOMAIN toBack' : toBack'[m].gen = toBack'[n].gen => toBack'[m].id = toBack'[n].id
  <2>1. UNCHANGED <<gen, nid>>
    BY <1>4 DEF BackProcess, streamVars
  <2>2. \A n \in DOMAIN toBack' : n + 1 \in DOMAIN toBack /\ toBack'[n] = toBack[n + 1]
    BY <1>4, Left
  <2>3. \A i \in Ids : back'[i] # None =>
          \/ back[i] # None /\ back'[i].gen = back[i].gen
          \/ i = toBack[1].id /\ back'[i].gen = toBack[1].gen
    BY <1>4, Left, BackGens
  <2>4. 1 \in DOMAIN toBack
    BY <1>4, Left
  <2> QED
    BY <1>0, <2>1, <2>2, <2>3, <2>4 DEF IdOfGen
<1>5. ASSUME UNCHANGED <<toBack, back>>
      PROVE  /\ \A t \in Streams, n \in DOMAIN toBack' : toBack'[n].gen = gen'[t] => toBack'[n].id = nid'[t]
             /\ \A t \in Streams, i \in Ids : back'[i] # None /\ back'[i].gen = gen'[t] => i = nid'[t]
             /\ \A i \in Ids, n \in DOMAIN toBack' :
                  back'[i] # None /\ back'[i].gen = toBack'[n].gen => i = toBack'[n].id
             /\ \A m, n \in DOMAIN toBack' : toBack'[m].gen = toBack'[n].gen => toBack'[m].id = toBack'[n].id
  BY <1>0, <1>1, <1>2, <1>5 DEF IdOfGen
<1>6. \A s \in Streams, n \in DOMAIN events' : events'[n].gen = gen'[s] => events'[n].id = nid'[s]
  <2>1. ASSUME NEW i \in Ids, NEW k \in EventKinds, BackEvent(i, k) PROVE <1>6
    <3>1. /\ UNCHANGED <<gen, nid>> /\ back[i] # None
          /\ events' = Append(events, [id |-> i, kind |-> k, gen |-> back[i].gen])
      BY <2>1 DEF BackEvent, streamVars
    <3> QED
      BY <1>0, <3>1 DEF IdOfGen
  <2>2. CASE HandleFind
    <3>1. events # <<>> /\ events' = Tail(events) /\ UNCHANGED <<gen, nid>>
      BY <2>2 DEF HandleFind, streamVars
    <3> QED
      BY <1>0, <3>1 DEF IdOfGen
  <2>3. CASE UNCHANGED events
    BY <1>0, <1>1, <1>2, <2>3 DEF IdOfGen
  <2> QED
    BY <2>1, <2>2, <2>3, EventSteps
<1> QED
  BY <1>3, <1>4, <1>5, <1>6, BackSteps DEF IdOfGen

\* Commands under one id stay in the order of its opens.
LEMMA InOrderStep == Inv /\ [Next]_vars => InOrder'
<1> SUFFICES ASSUME Inv, [Next]_vars PROVE InOrder'
  OBVIOUS
<1>0. /\ InOrder /\ GensInv /\ IdsInv /\ opens \in Nat /\ toBack \in Seq(Cmd) /\ pc \in [Streams -> Places]
      /\ IdTypeOK
      /\ \A s \in Streams : gen[s] \in Nat
      /\ \A n \in DOMAIN toBack : toBack[n].gen \in Nat /\ toBack[n].gen <= opens /\ toBack[n].id \in Ids
      /\ \A i \in Ids : back[i] # None => back[i].gen \in Nat /\ back[i].gen <= opens
  BY OldGens, CmdParts, BoundsAssumption DEF Inv, TypeInv, IdTypeOK, BackTypeOK, BackStream, GensInv, StreamTypeOK
<1>1. ASSUME NEW s \in Streams, Sends(s) PROVE InOrder'
  <2>1. UNCHANGED <<gen, nid, back>> /\ InIdr(s) /\ \A t \in Streams : InIdr(t)' => InIdr(t)
    <3>1. \/ pc[s] = "create" /\ pc' = [pc EXCEPT ![s] = "fields"]
          \/ pc[s] = "destroy" /\ pc' = [pc EXCEPT ![s] = "put"]
          \/ pc' = pc
      BY <1>1 DEF Sends
    <3> QED
      BY <1>0, <1>1, <3>1 DEF Sends, InIdr
  <2>2. PICK N \in Nat :
          /\ N \in DOMAIN toBack'
          /\ toBack'[N].gen = gen[s] /\ toBack'[N].id = nid[s]
          /\ \A n \in DOMAIN toBack : n \in DOMAIN toBack' /\ toBack'[n] = toBack[n] /\ n < N
          /\ \A n \in DOMAIN toBack' : n \in Nat /\ (n = N \/ n \in DOMAIN toBack)
    BY <1>1, Sent
  <2>3. \A t \in Streams : InIdr(t) /\ nid[t] = nid[s] => t = s
    BY <1>0, <2>1 DEF IdsInv, IdrExact
  <2>4. \A m, n \in DOMAIN toBack' :
          m < n /\ toBack'[m].id = toBack'[n].id => toBack'[m].gen <= toBack'[n].gen
    BY <1>0, <2>1, <2>2 DEF InOrder
  <2>5. \A n \in DOMAIN toBack' : back'[toBack'[n].id] # None => back'[toBack'[n].id].gen <= toBack'[n].gen
    BY <1>0, <2>1, <2>2 DEF InOrder
  <2>6. \A t \in Streams : InIdr(t)' =>
          /\ \A n \in DOMAIN toBack' : toBack'[n].id = nid'[t] => toBack'[n].gen <= gen'[t]
          /\ back'[nid'[t]] # None => back'[nid'[t]].gen <= gen'[t]
    <3> SUFFICES ASSUME NEW t \in Streams, InIdr(t)'
                 PROVE  /\ \A n \in DOMAIN toBack' : toBack'[n].id = nid[t] => toBack'[n].gen <= gen[t]
                        /\ back[nid[t]] # None => back[nid[t]].gen <= gen[t]
      BY <2>1
    <3>1. InIdr(t)
      BY <2>1
    <3>2. back[nid[t]] # None => back[nid[t]].gen <= gen[t]
      BY <3>1, <1>0 DEF InOrder
    <3>3. \A n \in DOMAIN toBack : toBack[n].id = nid[t] => toBack[n].gen <= gen[t]
      BY <3>1, <1>0 DEF InOrder
    <3>4. toBack'[N].id = nid[t] => toBack'[N].gen <= gen[t]
      BY <3>1, <1>0, <2>2, <2>3
    <3> QED
      BY <3>2, <3>3, <3>4, <2>2
  <2> QED
    BY <2>4, <2>5, <2>6 DEF InOrder
<1>2. CASE BackProcess
  <2>1. UNCHANGED <<gen, nid, pc>>
    BY <1>2 DEF BackProcess, streamVars
  <2>2. \A n \in DOMAIN toBack' : n \in Nat /\ n + 1 \in DOMAIN toBack /\ toBack'[n] = toBack[n + 1] /\ 1 < n + 1
    BY <1>2, Left
  <2>3. \A i \in Ids : back'[i] # None =>
          \/ back[i] # None /\ back'[i].gen = back[i].gen
          \/ i = toBack[1].id /\ back'[i].gen = toBack[1].gen
    BY <1>2, Left, BackGens
  <2>4. 1 \in DOMAIN toBack
    BY <1>2, Left
  <2>5. \A m, n \in DOMAIN toBack' :
          m < n /\ toBack'[m].id = toBack'[n].id => toBack'[m].gen <= toBack'[n].gen
    BY <1>0, <2>2 DEF InOrder
  <2>6. \A n \in DOMAIN toBack' : back'[toBack'[n].id] # None => back'[toBack'[n].id].gen <= toBack'[n].gen
    BY <1>0, <2>2, <2>3, <2>4 DEF InOrder
  <2>7. \A t \in Streams : InIdr(t)' =>
          /\ \A n \in DOMAIN toBack' : toBack'[n].id = nid'[t] => toBack'[n].gen <= gen'[t]
          /\ back'[nid'[t]] # None => back'[nid'[t]].gen <= gen'[t]
    <3>1. \A t \in Streams : InIdr(t) => nid[t] \in Ids
      BY <1>0 DEF IdsInv, InIdr
    <3> QED
      BY <1>0, <2>1, <2>2, <2>3, <2>4, <3>1 DEF InOrder, InIdr
  <2> QED
    BY <2>5, <2>6, <2>7 DEF InOrder
<1>3. CASE UNCHANGED <<toBack, back>>
  <2>1. \A t \in Streams : InIdr(t)' =>
          \/ InIdr(t) /\ nid'[t] = nid[t] /\ gen'[t] = gen[t]
          \/ nid'[t] \in Ids /\ gen'[t] = opens + 1
    <3>1. ASSUME NEW s \in Streams, OpenAlloc(s)
          PROVE  gen' = [gen EXCEPT ![s] = opens + 1] /\ (\E i \in Ids : nid' = [nid EXCEPT ![s] = i])
                 /\ pc' = [pc EXCEPT ![s] = "create"]
      BY <3>1, OpenAllocIds
    <3>2. CASE \E s \in Streams : OpenAlloc(s)
      BY <1>0, <3>1, <3>2 DEF IdTypeOK, InIdr
    <3>3. CASE \E s \in Streams : Moves(s)
      BY <1>0, <3>3 DEF IdTypeOK, InIdr, Moves
    <3>4. CASE \E s \in Streams : Puts(s) \/ Frees(s)
      BY <1>0, <3>4 DEF IdTypeOK, InIdr, Puts, Frees
    <3>5. CASE UNCHANGED <<pc, gen, nid, idr, opens>>
      BY <3>5 DEF InIdr
    <3> QED
      BY <3>2, <3>3, <3>4, <3>5, IdSteps
  <2> QED
    BY <1>0, <1>3, <2>1 DEF InOrder
<1> QED
  BY <1>1, <1>2, <1>3, BackSteps

\* A stream is created once, before all else that the back end hears of it.
LEMMA CreatedOnceStep == Inv /\ [Next]_vars => CreatedOnce'
<1> SUFFICES ASSUME Inv, [Next]_vars PROVE CreatedOnce'
  OBVIOUS
<1>0. /\ CreatedOnce /\ GensInv /\ IdOfGen /\ opens \in Nat /\ pc \in [Streams -> Places]
      /\ IdTypeOK
      /\ \A s \in Streams : gen[s] \in Nat
      /\ \A n \in DOMAIN toBack : toBack[n].gen \in Nat /\ toBack[n].gen <= opens /\ toBack[n].id \in Ids
      /\ \A i \in Ids : back[i] # None => back[i].gen \in Nat /\ back[i].gen <= opens
  BY OldGens, CmdParts, BoundsAssumption DEF Inv, TypeInv, IdTypeOK, BackTypeOK, BackStream, GensInv, StreamTypeOK
<1>1. ASSUME NEW s \in Streams, Sends(s) PROVE CreatedOnce'
  <2>1. UNCHANGED <<gen, nid, back>> /\ gen[s] # 0 /\ nid[s] \in Ids
    BY <1>0, <1>1 DEF Sends, GensInv, InIdr, Inv, IdsInv
  <2>2. PICK N \in Nat :
          /\ N \in DOMAIN toBack'
          /\ toBack'[N].gen = gen[s] /\ toBack'[N].id = nid[s]
          /\ toBack'[N].kind = "create" => pc[s] = "create"
          /\ \A n \in DOMAIN toBack : n \in DOMAIN toBack' /\ toBack'[n] = toBack[n] /\ n < N
          /\ \A n \in DOMAIN toBack' : n \in Nat /\ (n = N \/ n \in DOMAIN toBack)
    BY <1>1, Sent
  <2>3. \A t \in Streams : pc'[t] = "create" => pc[t] = "create" /\ t # s
    <3>1. \/ pc[s] = "create" /\ pc' = [pc EXCEPT ![s] = "fields"]
          \/ pc[s] = "destroy" /\ pc' = [pc EXCEPT ![s] = "put"]
          \/ pc' = pc /\ pc[s] # "create"
      <4>1. PICK M \in DOMAIN toBack' :
              /\ toBack'[M].kind = "create" <=> pc[s] = "create"
              /\ toBack'[M].kind = "destroy" <=> pc[s] = "destroy"
              /\ toBack'[M].kind = "create" => pc' = [pc EXCEPT ![s] = "fields"]
              /\ toBack'[M].kind = "destroy" => pc' = [pc EXCEPT ![s] = "put"]
              /\ toBack'[M].kind \in Ioctls => pc' = pc
              /\ toBack'[M].kind \in Ioctls \cup {"create", "destroy"}
        BY <1>1, Sent
      <4> QED
        BY <4>1, IoctlKinds
    <3> QED
      BY <1>0, <3>1
  <2>4. \A m, n \in DOMAIN toBack' :
          m < n /\ toBack'[m].gen = toBack'[n].gen => toBack'[n].kind # "create"
    BY <1>0, <2>1, <2>2 DEF CreatedOnce
  <2>5. \A n \in DOMAIN toBack' :
          back'[toBack'[n].id] # None /\ back'[toBack'[n].id].gen = toBack'[n].gen => toBack'[n].kind # "create"
    BY <1>0, <2>1, <2>2 DEF CreatedOnce
  <2>6. \A t \in Streams : pc'[t] = "create" =>
          /\ \A n \in DOMAIN toBack' : toBack'[n].gen # gen'[t]
          /\ back'[nid'[t]] # None => back'[nid'[t]].gen # gen'[t]
    BY <1>0, <2>1, <2>2, <2>3 DEF CreatedOnce, GensInv
  <2> QED
    BY <2>4, <2>5, <2>6 DEF CreatedOnce
<1>2. CASE BackProcess
  <2>1. UNCHANGED <<gen, nid, pc>>
    BY <1>2 DEF BackProcess, streamVars
  <2>2. \A n \in DOMAIN toBack' : n \in Nat /\ n + 1 \in DOMAIN toBack /\ toBack'[n] = toBack[n + 1] /\ 1 < n + 1
    BY <1>2, Left
  <2>3. \A i \in Ids : back'[i] # None =>
          \/ back[i] # None /\ back'[i].gen = back[i].gen
          \/ i = toBack[1].id /\ back'[i].gen = toBack[1].gen
    BY <1>2, Left, BackGens
  <2>4. 1 \in DOMAIN toBack
    BY <1>2, Left
  <2>5. \A m, n \in DOMAIN toBack' :
          m < n /\ toBack'[m].gen = toBack'[n].gen => toBack'[n].kind # "create"
    BY <1>0, <2>2 DEF CreatedOnce
  <2>6. \A n \in DOMAIN toBack' :
          back'[toBack'[n].id] # None /\ back'[toBack'[n].id].gen = toBack'[n].gen => toBack'[n].kind # "create"
    BY <1>0, <2>2, <2>3, <2>4 DEF CreatedOnce
  <2>7. \A t \in Streams : pc'[t] = "create" =>
          /\ \A n \in DOMAIN toBack' : toBack'[n].gen # gen'[t]
          /\ back'[nid'[t]] # None => back'[nid'[t]].gen # gen'[t]
    <3>1. \A t \in Streams : pc[t] = "create" => nid[t] \in Ids
      BY DEF Inv, IdsInv
    <3> QED
      BY <1>0, <2>1, <2>2, <2>3, <2>4, <3>1 DEF CreatedOnce
  <2> QED
    BY <2>5, <2>6, <2>7 DEF CreatedOnce
<1>3. CASE UNCHANGED <<toBack, back>>
  <2>1. \A t \in Streams : pc'[t] = "create" =>
          \/ pc[t] = "create" /\ nid'[t] = nid[t] /\ gen'[t] = gen[t]
          \/ nid'[t] \in Ids /\ gen'[t] = opens + 1
    <3>1. ASSUME NEW s \in Streams, OpenAlloc(s)
          PROVE  gen' = [gen EXCEPT ![s] = opens + 1] /\ (\E i \in Ids : nid' = [nid EXCEPT ![s] = i])
                 /\ pc' = [pc EXCEPT ![s] = "create"]
      BY <3>1, OpenAllocIds
    <3>2. CASE \E s \in Streams : OpenAlloc(s)
      BY <1>0, <3>1, <3>2 DEF IdTypeOK
    <3>3. CASE \E s \in Streams : Moves(s)
      BY <1>0, <3>3 DEF IdTypeOK, Moves
    <3>4. CASE \E s \in Streams : Puts(s) \/ Frees(s)
      BY <1>0, <3>4 DEF IdTypeOK, Puts, Frees
    <3>5. CASE UNCHANGED <<pc, gen, nid, idr, opens>>
      BY <3>5
    <3> QED
      BY <3>2, <3>3, <3>4, <3>5, IdSteps
  <2> QED
    BY <1>0, <1>3, <2>1 DEF CreatedOnce
<1> QED
  BY <1>1, <1>2, <1>3, BackSteps

-----------------------------------------------------------------------------
(* What is left behind. *)

\* An open that the back end knows of stays someone's to destroy until that is known not to
\* happen, or its destroy command is sent.
LEMMA OwnedKept ==
  ASSUME Inv, [Next]_vars
  PROVE  /\ orphans \subseteq orphans'
         /\ \A g : Owned(g) /\ g # 0 => Owned(g)' \/ \E s \in Streams : Sends(s) /\ pc[s] = "destroy" /\ gen[s] = g
<1> USE DEF streamVars, backVars, evVars, histVars
<1>0. pc \in [Streams -> Places] /\ gen \in [Streams -> 0..MaxOpens]
  BY DEF Inv, TypeInv, StreamTypeOK, IdTypeOK
<1> DEFINE Kept == /\ orphans \subseteq orphans'
                   /\ \A g : Owned(g) /\ g # 0 => Owned(g)' \/ \E s \in Streams : Sends(s) /\ pc[s] = "destroy" /\ gen[s] = g
<1>a. ASSUME NEW s \in Streams, orphans \subseteq orphans', \E l \in Places : pc' = [pc EXCEPT ![s] = l],
             \/ gen' = gen
             \/ \E g \in 0..MaxOpens : gen' = [gen EXCEPT ![s] = g],
             \/ pc[s] \notin Owners
             \/ gen' = gen /\ pc'[s] \in Owners
             \/ gen[s] \in orphans'
             \/ pc[s] = "destroy" /\ Sends(s)
      PROVE  Kept
  BY <1>0, <1>a DEF Owned
<1>b. ASSUME UNCHANGED <<pc, gen, orphans>> PROVE Kept
  BY <1>0, <1>b DEF Owned
<1> HIDE DEF Kept
<1>1. ASSUME NEW s \in Streams, OpenAlloc(s) PROVE Kept
  <2>1. /\ gen' = [gen EXCEPT ![s] = opens + 1] /\ opens' = opens + 1 /\ opens' \in 1..MaxOpens
        /\ pc[s] = "free" /\ pc' = [pc EXCEPT ![s] = "create"]
    BY <1>1, OpenAllocIds
  <2>2. orphans' = orphans /\ "create" \in Places /\ pc[s] \notin Owners /\ opens + 1 \in 0..MaxOpens
    BY <1>1, <2>1 DEF OpenAlloc, Places, StepsOfOpen, Owners
  <2> QED
    BY <2>1, <2>2, <1>a
<1>2. ASSUME NEW s \in Streams, OpenCreate(s) \/ OpenFields(s) \/ OpenReset(s) \/ OpenQueues(s) \/ OpenCtrls(s) \/ FailCtx(s) PROVE Kept
  <2>1. gen' = gen /\ orphans' = orphans /\ (pc[s] \notin Owners \/ pc'[s] \in Owners) /\ \E l \in Places : pc' = [pc EXCEPT ![s] = l]
    BY <1>0, <1>2 DEF OpenCreate, OpenFields, OpenReset, OpenQueues, OpenCtrls, FailCtx, GoTo, Places, StepsOfOpen, Owners
  <2> QED
    BY <2>1, <1>a
<1>3. ASSUME NEW s \in Streams, OpenQueuesFail(s) \/ OpenCtrlsFail(s) PROVE Kept
  <2>1. gen' = gen /\ orphans' = orphans \cup {gen[s]} /\ \E l \in Places : pc' = [pc EXCEPT ![s] = l]
    BY <1>3 DEF OpenQueuesFail, OpenCtrlsFail, GoTo, Places, StepsOfOpen
  <2> QED
    BY <2>1, <1>a
<1>4. ASSUME NEW s \in Streams, FailPut(s) \/ FailFree(s) \/ ClosePut(s) \/ CloseFree(s) PROVE Kept
  <2>1. (gen' = gen \/ gen' = [gen EXCEPT ![s] = 0]) /\ orphans' = orphans /\ pc[s] \notin Owners /\ \E l \in Places : pc' = [pc EXCEPT ![s] = l]
    BY <1>4 DEF FailPut, FailFree, ClosePut, CloseFree, Free, GoTo, Places, StepsOfOpen, StepsOfClose, Owners
  <2>2. 0 \in 0..MaxOpens
    BY BoundsAssumption
  <2> QED
    BY <2>1, <2>2, <1>a
<1>5. ASSUME NEW s \in Streams, Close(s) \/ CloseLocked(s) PROVE Kept
  <2>1. gen' = gen /\ orphans' = orphans /\ pc'[s] \in Owners /\ \E l \in Places : pc' = [pc EXCEPT ![s] = l]
    BY <1>0, <1>5 DEF Close, CloseLocked, GoTo, Places, StepsOfClose, Owners
  <2> QED
    BY <2>1, <1>a
<1>6. ASSUME NEW s \in Streams, CloseDestroy(s) PROVE Kept
  <2>1. gen' = gen /\ pc[s] = "destroy" /\ \E l \in Places : pc' = [pc EXCEPT ![s] = l]
    BY <1>6 DEF CloseDestroy, GoTo, Places, StepsOfClose
  <2>2. \/ orphans' = orphans /\ Sends(s)
        \/ orphans' = orphans \cup {gen[s]}
    <3>1. CASE toBack' # toBack
      BY <1>6, <3>1, CloseDestroySends DEF CloseDestroy
    <3>2. CASE toBack' = toBack
      <4>1. toBack' # Append(toBack, Command(s, "destroy", None))
        BY <3>2 DEF Inv, TypeInv, BackTypeOK
      <4> QED
        BY <1>6, <4>1 DEF CloseDestroy, DestroyCmd
    <3> QED
      BY <3>1, <3>2
  <2> QED
    BY <2>1, <2>2, <1>a
<1>7. ASSUME NEW s \in Streams, Ioctl(s) \/ IoctlStep(s) PROVE Kept
  <2>1. UNCHANGED <<pc, gen, orphans>>
    BY <1>7 DEF Ioctl, Plain, SFmt, SCtrl, Unsubscribe, EnterIoctl, IoctlStep, Refused, Admitted, NoMemory, Send,
                CommandFails, Answered
  <2> QED
    BY <2>1, <1>b
<1>8. ASSUME BackProcess \/ Work \/ UNCHANGED vars \/ \E i \in Ids, k \in EventKinds : BackEvent(i, k) PROVE Kept
  <2>1. UNCHANGED <<pc, gen, orphans>>
    BY <1>8 DEF BackProcess, Work, HandleFind, UpdateRead, UpdateExchange, HandleAct, BackEvent, vars, Note
  <2> QED
    BY <2>1, <1>b
<1>9. Kept
  BY <1>1, <1>2, <1>3, <1>4, <1>5, <1>6, <1>7, <1>8 DEF Next, OpenStep, CloseStep, TakeLock
<1> QED
  BY <1>9 DEF Kept

\* An id is created twice only where an orphan has it: its stream's opens come in order, so that
\* whoever is to destroy the earlier stream would have done so first.
LEMMA CollidesWithOrphan ==
  ASSUME Inv, BackProcess, Head(toBack).kind = "create", back[Head(toBack).id] # None
  PROVE  back[Head(toBack).id].gen \in orphans
<1>0. /\ OwnedInv /\ InOrder /\ CreatedOnce /\ IdOfGen
      /\ 1 \in DOMAIN toBack /\ Head(toBack) = toBack[1] /\ toBack[1].id \in Ids
      /\ \A n \in DOMAIN toBack : n \in Nat /\ (n # 1 => 1 < n)
  BY Left, CmdParts DEF Inv, TypeInv, BackTypeOK
<1> DEFINE i == toBack[1].id
<1>1. back[i].gen \in Nat /\ toBack[1].gen \in Nat
  BY <1>0, CmdParts, BoundsAssumption DEF Inv, TypeInv, BackTypeOK, BackStream
<1>2. back[i].gen < toBack[1].gen
  BY <1>0, <1>1 DEF InOrder, CreatedOnce
<1>3. ~ \E s \in Streams : gen[s] = back[i].gen /\ pc[s] \in Owners
  <2> SUFFICES ASSUME NEW s \in Streams, gen[s] = back[i].gen, pc[s] \in Owners PROVE FALSE
    OBVIOUS
  <2>1. i = nid[s] /\ InIdr(s)
    BY <1>0 DEF IdOfGen, InIdr, Owners
  <2>2. toBack[1].gen <= gen[s]
    BY <1>0, <2>1 DEF InOrder
  <2> QED
    BY <1>1, <1>2, <2>2
<1>4. ~ \E n \in DOMAIN toBack : Destroys(n, back[i].gen)
  <2> SUFFICES ASSUME NEW n \in DOMAIN toBack, Destroys(n, back[i].gen) PROVE FALSE
    OBVIOUS
  <2>1. toBack[n].id = i /\ toBack[n].gen = back[i].gen /\ n # 1
    BY <1>0 DEF IdOfGen, Destroys
  <2>2. toBack[1].gen <= toBack[n].gen
    BY <1>0, <2>1 DEF InOrder
  <2> QED
    BY <1>1, <1>2, <2>1, <2>2
<1> QED
  BY <1>0, <1>3, <1>4 DEF OwnedInv, Owned

\* The back end's streams stay owned.
LEMMA OwnedStep == Inv /\ [Next]_vars => OwnedInv'
<1> SUFFICES ASSUME Inv, [Next]_vars PROVE OwnedInv'
  OBVIOUS
<1>0. /\ OwnedInv /\ IdOfGen /\ orphans \subseteq orphans'
      /\ \A g : Owned(g) /\ g # 0 => Owned(g)' \/ \E s \in Streams : Sends(s) /\ pc[s] = "destroy" /\ gen[s] = g
      /\ \A n \in DOMAIN toBack : toBack[n].gen # 0
      /\ \A i \in Ids : back[i] # None => back[i].gen # 0
  <2>1. \A i \in Ids : back[i] # None => back[i] \in BackStream
    BY DEF Inv, TypeInv, BackTypeOK
  <2>2. \A i \in Ids : back[i] # None => back[i].gen # 0
    BY <2>1, BoundsAssumption DEF BackStream
  <2>3. \A n \in DOMAIN toBack : toBack[n].gen # 0
    BY CmdParts DEF Inv, TypeInv
  <2> QED
    BY <2>2, <2>3, OwnedKept DEF Inv
<1>1. ASSUME NEW s \in Streams, Sends(s) PROVE OwnedInv'
  <2>1. UNCHANGED <<back, gen, collided, orphans>> /\ pc \in [Streams -> Places]
    BY <1>1 DEF Sends, Inv, TypeInv, StreamTypeOK
  <2>2. PICK N \in Nat :
          /\ N \in DOMAIN toBack'
          /\ toBack'[N].gen = gen[s]
          /\ toBack'[N].kind = "create" => pc' = [pc EXCEPT ![s] = "fields"]
          /\ toBack'[N].kind = "destroy" <=> pc[s] = "destroy"
          /\ \A n \in DOMAIN toBack : n \in DOMAIN toBack' /\ toBack'[n] = toBack[n] /\ n < N
          /\ \A n \in DOMAIN toBack' : n \in Nat /\ (n = N \/ n \in DOMAIN toBack)
    BY <1>1, Sent
  <2>3. \A g : Owned(g) /\ g # 0 => Owned(g)' \/ (toBack'[N].kind = "destroy" /\ toBack'[N].gen = g)
    <3>1. ASSUME NEW t \in Streams, Sends(t), pc[t] = "destroy"
          PROVE  toBack'[N].kind = "destroy" /\ toBack'[N].gen = gen[t]
      <4>1. PICK M \in Nat :
              /\ M \in DOMAIN toBack' /\ M \notin DOMAIN toBack
              /\ toBack'[M].gen = gen[t] /\ (toBack'[M].kind = "destroy" <=> pc[t] = "destroy")
        BY <3>1, Sent
      <4>2. M = N
        BY <4>1, <2>2
      <4> QED
        BY <3>1, <4>1, <4>2
    <3> QED
      BY <1>0, <3>1
  <2>4. toBack'[N].kind = "create" => Owned(gen[s])'
    BY <2>1, <2>2 DEF Owned, Owners
  <2>5. \A i \in Ids : back'[i] # None =>
           Owned(back[i].gen)' \/ \E n \in DOMAIN toBack' : Destroys(n, back[i].gen)'
    BY <1>0, <2>1, <2>2, <2>3 DEF OwnedInv, Destroys
  <2>6. \A n \in DOMAIN toBack' : toBack'[n].kind = "create" =>
           Owned(toBack[n].gen)' \/ \E m \in DOMAIN toBack' : n < m /\ Destroys(m, toBack[n].gen)'
    BY <1>0, <2>1, <2>2, <2>3, <2>4 DEF OwnedInv, Destroys
  <2>7. collided' => orphans' # {}
    BY <1>0, <2>1 DEF OwnedInv
  <2> QED
    BY <2>5, <2>6, <2>7 DEF OwnedInv
<1>2. CASE BackProcess
  <2>1. UNCHANGED <<gen, pc, orphans>>
    BY <1>2 DEF BackProcess, streamVars
  <2>2. /\ \A n \in DOMAIN toBack' : n \in Nat /\ n + 1 \in DOMAIN toBack /\ toBack'[n] = toBack[n + 1] /\ 1 < n + 1
        /\ \A n \in DOMAIN toBack : n \in Nat /\ (n = 1 \/ (n - 1 \in DOMAIN toBack' /\ toBack'[n - 1] = toBack[n]))
        /\ 1 \in DOMAIN toBack /\ Head(toBack) = toBack[1]
    BY <1>2, Left
  <2>3. \A i \in Ids : back'[i] # None =>
          \/ back[i] # None /\ back'[i].gen = back[i].gen
          \/ i = toBack[1].id /\ back'[i].gen = toBack[1].gen /\ toBack[1].kind = "create"
    BY <1>2, <2>2, BackGens
  <2>4. toBack[1].kind = "destroy" => back'[toBack[1].id] = None
    BY <1>2, <2>2, Processed
  <2>5. \A g : Owned(g)' <=> Owned(g)
    BY <2>1 DEF Owned
  <2>6. \A i \in Ids : back'[i] # None =>
           Owned(back[i].gen)' \/ \E n \in DOMAIN toBack' : Destroys(n, back[i].gen)'
    <3> SUFFICES ASSUME NEW i \in Ids, back'[i] # None, ~ Owned(back'[i].gen)
                 PROVE  \E n \in DOMAIN toBack' : Destroys(n, back[i].gen)'
      BY <2>5
    <3>1. PICK n \in DOMAIN toBack : Destroys(n, back'[i].gen) /\ n # 1
      <4>1. CASE back[i] # None /\ back'[i].gen = back[i].gen
        <5>1. PICK n \in DOMAIN toBack : Destroys(n, back[i].gen)
          BY <1>0, <4>1 DEF OwnedInv
        <5>2. toBack[n].id = i
          BY <1>0, <4>1, <5>1 DEF IdOfGen, Destroys
        <5> QED
          BY <2>4, <4>1, <5>1, <5>2 DEF Destroys
      <4>2. CASE i = toBack[1].id /\ back'[i].gen = toBack[1].gen /\ toBack[1].kind = "create"
        BY <1>0, <2>2, <4>2 DEF OwnedInv
      <4> QED
        BY <2>3, <4>1, <4>2
    <3>2. n - 1 \in DOMAIN toBack' /\ toBack'[n - 1] = toBack[n]
      BY <2>2, <3>1
    <3> QED
      BY <3>1, <3>2 DEF Destroys
  <2>7. \A n \in DOMAIN toBack' : toBack'[n].kind = "create" =>
           Owned(toBack[n].gen)' \/ \E m \in DOMAIN toBack' : n < m /\ Destroys(m, toBack[n].gen)'
    <3> SUFFICES ASSUME NEW n \in DOMAIN toBack', toBack'[n].kind = "create", ~ Owned(toBack'[n].gen)
                 PROVE  \E m \in DOMAIN toBack' : n < m /\ Destroys(m, toBack[n].gen)'
      BY <2>5
    <3>1. n \in Nat /\ n + 1 \in DOMAIN toBack /\ toBack'[n] = toBack[n + 1]
      BY <2>2
    <3>2. PICK m \in DOMAIN toBack : n + 1 < m /\ Destroys(m, toBack[n + 1].gen)
      BY <1>0, <3>1 DEF OwnedInv
    <3>3. m - 1 \in DOMAIN toBack' /\ toBack'[m - 1] = toBack[m] /\ n < m - 1
      BY <2>2, <3>1, <3>2
    <3> QED
      BY <3>1, <3>2, <3>3 DEF Destroys
  <2>8. collided' => orphans' # {}
    <3>1. collided' = (collided \/ (Head(toBack).kind = "create" /\ back[Head(toBack).id] # None))
      BY <1>2, Processed
    <3> QED
      BY <1>0, <1>2, <2>1, <3>1, CollidesWithOrphan DEF OwnedInv
  <2> QED
    BY <2>6, <2>7, <2>8 DEF OwnedInv
<1>3. CASE UNCHANGED <<toBack, back>> /\ ~ \E s \in Streams : Sends(s)
  <2>1. collided' = collided
    <3>1. toBack \in Seq(Cmd)
      BY DEF Inv, TypeInv, BackTypeOK
    <3>2. ~ BackProcess
      <4>1. ASSUME BackProcess PROVE FALSE
        <5>1. Len(Tail(toBack)) # Len(toBack)
          BY <3>1, <4>1 DEF BackProcess
        <5> QED
          BY <1>3, <4>1, <5>1 DEF BackProcess
      <4> QED
        BY <4>1
    <3> QED
      BY <1>3, <3>2, CollidedSteps
  <2> QED
    BY <1>0, <1>3, <2>1 DEF OwnedInv, Destroys
<1> QED
  BY <1>1, <1>2, <1>3, BackSteps

\* What init_queues has set up when its step k fails, its labels undo.
LEMMA QueuesUndone == \A k \in DOMAIN QueueSteps : SetUp(k - 1) \ Undone(k) = {}
<1>1. DOMAIN QueueSteps = 1..6
  BY DEF QueueSteps
<1>2. \A j \in 1..6 : QueueSteps[j] \in Memory => (j = 3 /\ QueueSteps[j] = "in_meta") \/ (j = 5 /\ QueueSteps[j] = "out_meta")
  BY DEF QueueSteps, Memory
<1> SUFFICES ASSUME NEW k \in 1..6, NEW x \in SetUp(k - 1) PROVE x \in Undone(k)
  BY <1>1
<1>3. PICK j \in 1..(k - 1) : x = QueueSteps[j] /\ x \in Memory
  BY DEF SetUp
<1>4. j \in 1..6 /\ j < k
  BY <1>3
<1> QED
  BY <1>2, <1>3, <1>4 DEF Undone

\* When it does not fail, it has set up both meta queues.
LEMMA QueuesSetUp == SetUp(Len(QueueSteps)) = Memory
<1>1. Len(QueueSteps) = 6 /\ QueueSteps[3] = "in_meta" /\ QueueSteps[5] = "out_meta"
  BY DEF QueueSteps
<1>2. SetUp(6) \subseteq Memory
  BY DEF SetUp
<1>3. "in_meta" \in SetUp(6) /\ "out_meta" \in SetUp(6)
  BY <1>1 DEF SetUp, Memory
<1> QED
  BY <1>1, <1>2, <1>3 DEF Memory

\* What a stream holds follows its place.
LEMMA HeldStep == Inv /\ [Next]_vars => HeldInv'
<1> SUFFICES ASSUME Inv, [Next]_vars PROVE HeldInv'
  OBVIOUS
<1> USE DEF streamVars, backVars, evVars, histVars
<1>0. HeldInv /\ pc \in [Streams -> Places] /\ held \in [Streams -> SUBSET Parts]
  BY DEF Inv, TypeInv, StreamTypeOK
<1>1. ASSUME NEW s \in Streams, OpenAlloc(s) \/ OpenCreate(s) \/ OpenFields(s) \/ OpenReset(s) PROVE HeldInv'
  BY <1>0, <1>1 DEF HeldInv, OpenAlloc, OpenCreate, OpenFields, OpenReset, GoTo
<1>2. ASSUME NEW s \in Streams, OpenQueues(s) PROVE HeldInv'
  BY <1>0, <1>2, QueuesSetUp DEF HeldInv, OpenQueues, GoTo
<1>3. ASSUME NEW s \in Streams, OpenQueuesFail(s) PROVE HeldInv'
  <2>1. held[s] = {"fh"} /\ held' = [held EXCEPT ![s] = {}] /\ pc' = [pc EXCEPT ![s] = "fail_put"]
    <3>1. PICK k \in DOMAIN QueueSteps : held' = [held EXCEPT ![s] = (held[s] \ {"fh"}) \cup (SetUp(k - 1) \ Undone(k))]
      BY <1>3 DEF OpenQueuesFail
    <3>2. held[s] = {"fh"} /\ SetUp(k - 1) \ Undone(k) = {}
      BY <1>0, <1>3, QueuesUndone DEF OpenQueuesFail, HeldInv
    <3>3. (held[s] \ {"fh"}) \cup (SetUp(k - 1) \ Undone(k)) = {}
      BY <3>2
    <3> QED
      BY <1>3, <3>1, <3>2, <3>3 DEF OpenQueuesFail, GoTo
  <2> QED
    BY <1>0, <2>1 DEF HeldInv
<1>4. ASSUME NEW s \in Streams, OpenCtrls(s) \/ OpenCtrlsFail(s) PROVE HeldInv'
  BY <1>0, <1>4 DEF HeldInv, OpenCtrls, OpenCtrlsFail, GoTo, Parts
<1>5. ASSUME NEW s \in Streams, FailCtx(s) \/ FailPut(s) PROVE HeldInv'
  BY <1>0, <1>5 DEF HeldInv, FailCtx, FailPut, GoTo, Parts, Memory
<1>6. ASSUME NEW s \in Streams, FailFree(s) \/ CloseFree(s) PROVE HeldInv'
  BY <1>0, <1>6 DEF HeldInv, FailFree, CloseFree, Free, GoTo
<1>7. ASSUME NEW s \in Streams, Close(s) \/ CloseLocked(s) PROVE HeldInv'
  BY <1>0, <1>7 DEF HeldInv, Close, CloseLocked, GoTo, Parts, Memory
<1>8. ASSUME NEW s \in Streams, CloseDestroy(s) \/ ClosePut(s) PROVE HeldInv'
  BY <1>0, <1>8 DEF HeldInv, CloseDestroy, ClosePut, GoTo, Memory
<1>9. CASE UNCHANGED <<pc, held>>
  BY <1>0, <1>9 DEF HeldInv
<1>10. ASSUME NEW s \in Streams, Ioctl(s) \/ IoctlStep(s) PROVE UNCHANGED <<pc, held>>
  BY <1>10 DEF Ioctl, Plain, SFmt, SCtrl, Unsubscribe, EnterIoctl, IoctlStep, Refused, Admitted, NoMemory, Send,
               CommandFails, Answered
<1>11. CASE BackProcess \/ Work \/ UNCHANGED vars \/ \E i \in Ids, k \in EventKinds : BackEvent(i, k)
  <2>1. UNCHANGED <<pc, held>>
    BY <1>11 DEF BackProcess, Work, HandleFind, UpdateRead, UpdateExchange, HandleAct, BackEvent, vars
  <2> QED
    BY <1>9, <2>1
<1> QED
  BY <1>1, <1>2, <1>3, <1>4, <1>5, <1>6, <1>7, <1>8, <1>9, <1>10, <1>11 DEF Next, OpenStep, CloseStep, TakeLock

-----------------------------------------------------------------------------
(* Errors. *)

\* Where the state of a stream comes from: it is reset by its open, which notes an error that is
\* lost, or with its memory; it becomes ERROR when a command fails; the work item updates it.
LEMMA StateSteps ==
  ASSUME Inv, [Next]_vars, NEW s \in Streams
  PROVE  \/ Frees(s) /\ state'[s] = "idle"
         \/ pc[s] = "reset" /\ state'[s] = "idle" /\ past[s] \subseteq past'[s] /\ (state[s] = "error" => "lost" \in past'[s])
         \/ CommandFails(s) /\ state'[s] = "error" /\ past'[s] = past[s] \cup {"failed"}
         \/ UpdateExchange
         \/ state'[s] = state[s] /\ past[s] \subseteq past'[s]
<1> USE DEF streamVars, backVars, evVars, histVars
<1>0. state \in [Streams -> {"idle", "stopped", "error"}] /\ past \in [Streams -> SUBSET Past]
  BY DEF Inv, TypeInv, StreamTypeOK
<1> DEFINE Same == state'[s] = state[s] /\ past[s] \subseteq past'[s]
<1>1. ASSUME NEW t \in Streams, OpenAlloc(t) \/ OpenCreate(t) \/ OpenFields(t) \/ OpenQueues(t) \/ OpenQueuesFail(t)
             \/ OpenCtrls(t) \/ OpenCtrlsFail(t) \/ FailCtx(t) \/ FailPut(t)
      PROVE Same
  BY <1>1 DEF OpenAlloc, OpenCreate, OpenFields, OpenQueues, OpenQueuesFail, OpenCtrls, OpenCtrlsFail, FailCtx, FailPut
<1>2. ASSUME NEW t \in Streams, OpenReset(t)
      PROVE  \/ pc[s] = "reset" /\ state'[s] = "idle" /\ past[s] \subseteq past'[s] /\ (state[s] = "error" => "lost" \in past'[s])
             \/ Same
  BY <1>0, <1>2 DEF OpenReset, Note
<1>3. ASSUME NEW t \in Streams, FailFree(t) \/ CloseFree(t) PROVE (Frees(s) /\ state'[s] = "idle") \/ Same
  <2>1. Frees(t) /\ state' = [state EXCEPT ![t] = "idle"]
    BY <1>3 DEF FailFree, CloseFree, Free, GoTo, Frees
  <2> QED
    BY <1>0, <2>1 DEF Frees
<1>4. ASSUME NEW t \in Streams, Close(t) \/ CloseLocked(t) \/ CloseDestroy(t) \/ ClosePut(t) PROVE Same
  BY <1>4 DEF Close, CloseLocked, CloseDestroy, ClosePut
<1>5. ASSUME NEW t \in Streams, Ioctl(t) \/ Refused(t) \/ Admitted(t) \/ NoMemory(t) \/ Send(t) \/ Answered(t) PROVE Same
  BY <1>0, <1>5 DEF Ioctl, Plain, SFmt, SCtrl, Unsubscribe, EnterIoctl, Refused, Admitted, NoMemory, Send, Answered, Note
<1>6. ASSUME NEW t \in Streams, CommandFails(t)
      PROVE  (CommandFails(s) /\ state'[s] = "error" /\ past'[s] = past[s] \cup {"failed"}) \/ Same
  <2>1. state' = [state EXCEPT ![t] = "error"] /\ past' = [past EXCEPT ![t] = past[t] \cup {"failed"}]
    BY <1>6 DEF CommandFails, Note
  <2> QED
    BY <1>0, <1>6, <2>1
<1>7. CASE BackProcess \/ UNCHANGED vars \/ HandleFind \/ UpdateRead \/ HandleAct
  <2>1. Same
    BY <1>0, <1>7 DEF BackProcess, vars, HandleFind, UpdateRead, HandleAct, Note
  <2> QED
    BY <2>1
<1>8. ASSUME NEW i \in Ids, NEW k \in EventKinds, BackEvent(i, k) PROVE Same
  BY <1>0, <1>8 DEF BackEvent
<1> HIDE DEF Same
<1>9. \/ Frees(s) /\ state'[s] = "idle"
      \/ pc[s] = "reset" /\ state'[s] = "idle" /\ past[s] \subseteq past'[s] /\ (state[s] = "error" => "lost" \in past'[s])
      \/ CommandFails(s) /\ state'[s] = "error" /\ past'[s] = past[s] \cup {"failed"}
      \/ UpdateExchange
      \/ Same
  BY <1>1, <1>2, <1>3, <1>4, <1>5, <1>6, <1>7, <1>8 DEF Next, OpenStep, CloseStep, TakeLock, IoctlStep, Work, Same
<1> QED
  BY <1>9 DEF Same

\* A stream is only noted to be hit by an error event that the back end posts about it.
LEMMA HitSteps ==
  ASSUME Inv, [Next]_vars, NEW s \in Streams, "hit" \in past'[s], "hit" \notin past[s]
  PROVE  \E i \in Ids : BackEvent(i, "error") /\ "error" \in EventKinds /\ gen[s] = back[i].gen
<1> USE DEF streamVars, backVars, evVars, histVars
<1>0. past \in [Streams -> SUBSET Past]
  BY DEF Inv, TypeInv, StreamTypeOK
<1>1. ASSUME NEW t \in Streams, OpenAlloc(t) \/ OpenCreate(t) \/ OpenFields(t) \/ OpenReset(t) \/ OpenQueues(t) \/ OpenQueuesFail(t)
             \/ OpenCtrls(t) \/ OpenCtrlsFail(t) \/ FailCtx(t) \/ FailPut(t) \/ FailFree(t)
      PROVE FALSE
  BY <1>0, <1>1 DEF OpenAlloc, OpenCreate, OpenFields, OpenReset, OpenQueues, OpenQueuesFail, OpenCtrls, OpenCtrlsFail,
                    FailCtx, FailPut, FailFree, Free, Note
<1>2. ASSUME NEW t \in Streams, Close(t) \/ CloseLocked(t) \/ CloseStep(t) PROVE FALSE
  BY <1>0, <1>2 DEF Close, CloseLocked, CloseStep, CloseDestroy, ClosePut, CloseFree, Free
<1>3. ASSUME NEW t \in Streams, Ioctl(t) \/ IoctlStep(t) PROVE FALSE
  BY <1>0, <1>3 DEF Ioctl, Plain, SFmt, SCtrl, Unsubscribe, EnterIoctl, IoctlStep, Refused, Admitted, NoMemory, Send,
                    CommandFails, Answered, Note
<1>4. ASSUME BackProcess \/ UNCHANGED vars \/ Work PROVE FALSE
  BY <1>0, <1>4 DEF BackProcess, vars, Work, HandleFind, UpdateRead, UpdateExchange, HandleAct, Note
<1>5. PICK i \in Ids, k \in EventKinds : BackEvent(i, k)
  BY <1>1, <1>2, <1>3, <1>4 DEF Next, OpenStep, TakeLock
<1>6. k = "error" /\ gen[s] = back[i].gen
  BY <1>0, <1>5 DEF BackEvent
<1> QED
  BY <1>5, <1>6

\* A stream that is not free after a step has begun its open in it, or is the stream it was.
LEMMA SameStream ==
  ASSUME Inv, [Next]_vars, NEW s \in Streams, pc'[s] # "free"
  PROVE  \/ OpenAlloc(s) /\ pc[s] = "free" /\ InIdr(s)'
         \/ pc[s] # "free" /\ gen'[s] = gen[s] /\ nid'[s] = nid[s] /\ gen[s] \in 1..opens /\ (InIdr(s)' => InIdr(s))
<1>0. pc \in [Streams -> Places] /\ gen \in [Streams -> 0..MaxOpens] /\ nid \in [Streams -> Ids \cup {None}]
      /\ \A t \in Streams : pc[t] # "free" => gen[t] \in 1..opens
  BY BoundsAssumption DEF Inv, TypeInv, StreamTypeOK, IdTypeOK, GensInv
<1>1. CASE \E t \in Streams : OpenAlloc(t)
  <2>1. PICK t \in Streams : OpenAlloc(t)
    BY <1>1
  <2>2. /\ gen' = [gen EXCEPT ![t] = opens + 1] /\ (\E i \in Ids : nid' = [nid EXCEPT ![t] = i])
        /\ pc[t] = "free" /\ pc' = [pc EXCEPT ![t] = "create"]
    BY <2>1, OpenAllocIds
  <2>3. CASE t = s
    BY <1>0, <2>1, <2>2, <2>3 DEF InIdr
  <2>4. CASE t # s
    BY <1>0, <2>2, <2>4 DEF InIdr
  <2> QED
    BY <2>3, <2>4
<1>2. CASE \E t \in Streams : Moves(t)
  BY <1>0, <1>2 DEF Moves, InIdr
<1>3. CASE \E t \in Streams : Puts(t)
  BY <1>0, <1>3 DEF Puts, InIdr
<1>4. CASE \E t \in Streams : Frees(t)
  BY <1>0, <1>4 DEF Frees, InIdr
<1>5. CASE UNCHANGED <<pc, gen, nid, idr, opens>>
  BY <1>0, <1>5 DEF InIdr
<1> QED
  BY <1>1, <1>2, <1>3, <1>4, <1>5, IdSteps

\* What has happened to a stream is remembered as long as the stream is.
LEMMA PastKept ==
  ASSUME Inv, [Next]_vars, NEW s \in Streams, pc'[s] # "free"
  PROVE  past[s] \subseteq past'[s]
<1>0. past \in [Streams -> SUBSET Past] /\ pc \in [Streams -> Places]
  BY DEF Inv, TypeInv, StreamTypeOK
<1>1. ~ Frees(s)
  BY <1>0 DEF Frees
<1>2. UpdateExchange => past' = past
  BY DEF UpdateExchange, histVars
<1> QED
  BY <1>1, <1>2, StateSteps

\* What the work item finds in the idr.
LEMMA Found ==
  ASSUME Inv, HandleFind
  PROVE  LET e == Head(events)
             s == idr[e.id] IN
         /\ events # <<>> /\ events' = Tail(events) /\ wk = None /\ e \in Evt /\ e = events[1] /\ 1 \in DOMAIN events
         /\ UNCHANGED <<state, pc, gen, nid, idr, opens>>
         /\ \/ s = None /\ wk' = None /\ past' = past
            \/ /\ s \in Streams /\ InIdr(s) /\ nid[s] = e.id
               /\ wk' = [stream |-> s, kind |-> e.kind, gen |-> gen[s], prev |-> None,
                         at |-> IF e.kind = "resolution" THEN "act" ELSE "update"]
               /\ e.gen # gen[s] => "misled" \in past'[s]
               /\ e.gen = gen[s] => past' = past
<1> DEFINE e == Head(events)
           s == idr[e.id]
<1>1. events \in Seq(Evt) /\ events # <<>> /\ events' = Tail(events) /\ wk = None
  BY DEF Inv, TypeInv, EventTypeOK, HandleFind
<1>2. e \in Evt /\ e = events[1] /\ 1 \in DOMAIN events
  BY <1>1
<1>3. UNCHANGED <<state, pc, gen, nid, idr, opens>>
  BY DEF HandleFind, streamVars
<1>4. e.id \in Ids
  BY <1>2 DEF Evt
<1> HIDE DEF e
<1>5. s \in Streams \cup {None} /\ (s # None => InIdr(s) /\ nid[s] = e.id)
  BY <1>4 DEF Inv, TypeInv, IdTypeOK, IdsInv, IdrExact
<1>6. IF s = None THEN UNCHANGED <<wk, past>>
      ELSE /\ wk' = [stream |-> s, kind |-> e.kind, gen |-> gen[s], prev |-> None,
                     at |-> IF e.kind = "resolution" THEN "act" ELSE "update"]
           /\ IF e.gen # gen[s] THEN Note(s, "misled") ELSE UNCHANGED past
  BY DEF HandleFind, e
<1>7. Note(s, "misled") /\ s \in Streams => "misled" \in past'[s]
  BY DEF Note, Inv, TypeInv, StreamTypeOK
<1> QED
  BY <1>1, <1>2, <1>3, <1>5, <1>6, <1>7 DEF e

\* Every error keeps its cause.
LEMMA CauseStep == Inv /\ [Next]_vars => CauseInv'
<1> SUFFICES ASSUME Inv, [Next]_vars PROVE CauseInv'
  OBVIOUS
<1>0. /\ CauseInv /\ EosInv /\ pc \in [Streams -> Places] /\ state \in [Streams -> {"idle", "stopped", "error"}]
      /\ past \in [Streams -> SUBSET Past] /\ EventTypeOK /\ events \in Seq(Evt)
      /\ \A s \in Streams : gen[s] \in Nat
  BY BoundsAssumption DEF Inv, TypeInv, StreamTypeOK, EventTypeOK, IdTypeOK
<1>d. [Next]_vars => Defined \/ UNCHANGED vars
  BY DEF Next
<1>x. ASSUME UpdateExchange
      PROVE  /\ wk # None /\ wk.stream \in Streams /\ wk.at = "exchange" /\ UNCHANGED <<past, pc, gen>>
             /\ wk \in Handled /\ wk.prev # "error"
             /\ \/ state[wk.stream] = wk.prev /\ state' = [state EXCEPT ![wk.stream] = NewState]
                   /\ wk' = [wk EXCEPT !.at = "act", !.prev = None]
                \/ state' = state /\ wk' = [wk EXCEPT !.at = "update", !.prev = None] /\ state[wk.stream] # wk.prev
  BY <1>x, <1>0, HandledParts DEF UpdateExchange, histVars, CauseInv
<1>1. \A s \in Live' : state'[s] = "error" => past'[s] \cap {"failed", "hit", "misled"} # {}
  <2> SUFFICES ASSUME NEW s \in Streams, pc'[s] # "free", state'[s] = "error"
               PROVE  past'[s] \cap {"failed", "hit", "misled"} # {}
    BY DEF Live
  <2>1. past[s] \subseteq past'[s]
    BY PastKept
  <2>2. state[s] = "error" => past'[s] \cap {"failed", "hit", "misled"} # {}
    BY <1>0, <2>1 DEF CauseInv, OnlyOwnErrors, EosInv, Live
  <2>3. CASE state[s] # "error"
    <3>1. CASE CommandFails(s) /\ state'[s] = "error" /\ past'[s] = past[s] \cup {"failed"}
      BY <3>1
    <3>2. CASE UpdateExchange
      <4>1. s = wk.stream /\ wk.kind = "error" /\ wk # None
        BY <1>0, <1>x, <2>3, <3>2 DEF NewState
      <4>2. wk.gen = gen[wk.stream]
        BY <1>d, <2>3, <3>2, <4>1 DEF Defined, vars, streamVars
      <4>3. past[wk.stream] \cap {"hit", "misled"} # {}
        BY <1>0, <4>1, <4>2 DEF CauseInv
      <4> QED
        BY <2>1, <4>1, <4>3
    <3> QED
      BY <2>3, <3>1, <3>2, StateSteps
  <2> QED
    BY <2>2, <2>3
<1>2. \A s \in Streams, n \in DOMAIN events' :
        events'[n].kind = "error" /\ events'[n].gen = gen'[s] => "hit" \in past'[s]
  <2>0. ASSUME NEW s \in Streams, NEW n \in DOMAIN events, events[n].kind = "error", events[n].gen = gen'[s]
        PROVE  "hit" \in past'[s]
    <3>1. events[n].gen \in 1..opens
      BY EvtParts, BoundsAssumption DEF Inv, TypeInv, GensInv, IdTypeOK
    <3>2. gen[s] = events[n].gen
      BY <2>0, <3>1, OldGens
    <3>3. "hit" \in past[s] /\ gen'[s] # 0
      BY <1>0, <2>0, <3>1, <3>2 DEF CauseInv
    <3>4. pc'[s] # "free"
      BY <3>3, GensStep DEF GensInv
    <3> QED
      BY <3>3, <3>4, PastKept
  <2>1. ASSUME NEW i \in Ids, NEW k \in EventKinds, BackEvent(i, k) PROVE <1>2
    <3>1. /\ UNCHANGED gen /\ back[i] # None
          /\ events' = Append(events, [id |-> i, kind |-> k, gen |-> back[i].gen])
          /\ \A s \in Streams : k = "error" /\ gen[s] = back[i].gen => "hit" \in past'[s]
      BY <2>1 DEF BackEvent, streamVars
    <3>2. ASSUME NEW s \in Streams, NEW n \in DOMAIN events', events'[n].kind = "error", events'[n].gen = gen'[s]
          PROVE  "hit" \in past'[s]
      <4>1. CASE n \in DOMAIN events
        BY <1>0, <2>0, <3>1, <3>2, <4>1
      <4>2. CASE n \notin DOMAIN events
        <5>1. events'[n] = [id |-> i, kind |-> k, gen |-> back[i].gen]
          BY <1>0, <3>1, <4>2
        <5> QED
          BY <3>1, <3>2, <5>1
      <4> QED
        BY <4>1, <4>2
    <3> QED
      BY <3>2
  <2>2. CASE HandleFind
    <3>1. events # <<>> /\ events' = Tail(events)
      BY <2>2 DEF HandleFind
    <3>2. \A n \in DOMAIN events' : n + 1 \in DOMAIN events /\ events'[n] = events[n + 1]
      BY <1>0, <3>1
    <3> QED
      BY <2>0, <3>2
  <2>3. CASE UNCHANGED events
    BY <2>0, <2>3
  <2> QED
    BY <2>1, <2>2, <2>3, EventSteps
<1>3. wk' # None =>
        /\ wk'.kind = "error" /\ wk'.gen = gen'[wk'.stream] => past'[wk'.stream] \cap {"hit", "misled"} # {}
        /\ wk'.at = "exchange" => wk'.prev # "error"
        /\ wk'.at \in {"update", "exchange"} => wk'.kind # "resolution"
  <2>0. ASSUME wk # None, wk.kind = "error", wk.gen = gen'[wk.stream]
        PROVE  past'[wk.stream] \cap {"hit", "misled"} # {}
    <3>1. wk.gen \in 1..opens /\ wk.stream \in Streams
      BY <1>0, <2>0, HandledParts DEF Inv, GensInv
    <3>2. gen[wk.stream] = wk.gen /\ gen'[wk.stream] # 0
      BY <2>0, <3>1, OldGens
    <3>3. pc'[wk.stream] # "free"
      BY <3>1, <3>2, GensStep DEF GensInv
    <3>4. past[wk.stream] \cap {"hit", "misled"} # {}
      BY <1>0, <2>0, <3>2 DEF CauseInv
    <3> QED
      BY <3>1, <3>3, <3>4, PastKept
  <2>1. CASE UNCHANGED wk
    BY <1>0, <2>0, <2>1 DEF CauseInv
  <2>2. CASE HandleFind
    <3>1. ASSUME wk' # None, wk'.kind = "error", wk'.gen = gen'[wk'.stream] PROVE past'[wk'.stream] \cap {"hit", "misled"} # {}
      BY <1>0, <2>2, <3>1, Found DEF CauseInv
    <3>2. wk' # None => wk'.at # "exchange" /\ (wk'.at = "update" => wk'.kind # "resolution")
      BY <2>2, Found
    <3> QED
      BY <3>1, <3>2
  <2>3. CASE UpdateRead
    <3>1. wk # None /\ wk.at = "update" /\ wk \in Handled /\ UNCHANGED <<past, gen>>
      BY <1>0, <2>3, HandledParts DEF UpdateRead, histVars, streamVars
    <3>2. \/ wk' = [wk EXCEPT !.at = "act"]
          \/ wk' = [wk EXCEPT !.at = "exchange", !.prev = state[wk.stream]] /\ state[wk.stream] # "error"
      BY <2>3 DEF UpdateRead
    <3>3. wk'.stream = wk.stream /\ wk'.kind = wk.kind /\ wk'.gen = wk.gen /\ (wk'.at = "exchange" => wk'.prev # "error")
      BY <3>1, <3>2 DEF Handled
    <3> QED
      BY <1>0, <3>1, <3>3 DEF CauseInv
  <2>4. CASE UpdateExchange
    <3>1. wk'.stream = wk.stream /\ wk'.kind = wk.kind /\ wk'.gen = wk.gen /\ wk'.at # "exchange"
      BY <1>x, <2>4 DEF Handled
    <3> QED
      BY <1>0, <1>x, <2>4, <3>1 DEF CauseInv
  <2>5. CASE HandleAct
    BY <2>5 DEF HandleAct
  <2> QED
    BY <2>1, <2>2, <2>3, <2>4, <2>5, EventSteps DEF BackEvent
<1> QED
  BY <1>1, <1>2, <1>3 DEF CauseInv, OnlyOwnErrors

\* An error that is reported stays on its way until it has arrived.
LEMMA ArriveStep == Inv /\ [Next]_vars => ArriveInv'
<1> SUFFICES ASSUME Inv, [Next]_vars, NEW s \in Streams,
                    "hit" \in past'[s], "lost" \notin past'[s], InIdr(s)', state'[s] # "error"
             PROVE  Coming(s)'
  BY DEF ArriveInv
<1>0. /\ CauseInv /\ EosInv /\ ArriveInv /\ pc \in [Streams -> Places]
      /\ state \in [Streams -> {"idle", "stopped", "error"}]
      /\ past \in [Streams -> SUBSET Past] /\ EventTypeOK /\ events \in Seq(Evt)
  BY DEF Inv, TypeInv, StreamTypeOK, EventTypeOK
<1>1. pc'[s] # "free" /\ past[s] \subseteq past'[s]
  BY PastKept DEF InIdr
<1>2. CASE "hit" \notin past[s]
  <2>1. PICK i \in Ids : BackEvent(i, "error") /\ gen[s] = back[i].gen
    BY <1>2, HitSteps
  <2>2. gen' = gen /\ events' = Append(events, [id |-> i, kind |-> "error", gen |-> back[i].gen])
    BY <2>1 DEF BackEvent, streamVars
  <2>3. \E n \in DOMAIN events' : events'[n] = [id |-> i, kind |-> "error", gen |-> back[i].gen]
    <3>1. Len(events) + 1 \in DOMAIN events' /\ events'[Len(events) + 1] = [id |-> i, kind |-> "error", gen |-> back[i].gen]
      BY <1>0, <2>2
    <3> QED
      BY <3>1
  <2> QED
    BY <2>1, <2>2, <2>3 DEF Coming
<1>3. CASE "hit" \in past[s]
  <2>1. pc[s] # "free" /\ gen'[s] = gen[s] /\ nid'[s] = nid[s] /\ InIdr(s)
    BY <1>0, <1>1, <1>3, SameStream DEF EosInv
  <2>2. state[s] = "error" \/ Coming(s)
    BY <1>0, <1>1, <1>3, <2>1 DEF ArriveInv
  <2>3. state[s] # "error"
    <3>1. ASSUME state[s] = "error" PROVE FALSE
      <4>1. ~ Frees(s)
        BY <1>0, <1>1 DEF Frees
      <4>2. UpdateExchange => state'[s] = "error"
        BY <1>0, <3>1, HandledParts DEF UpdateExchange, CauseInv
      <4> QED
        BY <3>1, <4>1, <4>2, StateSteps
    <3> QED
      BY <3>1
  <2>4. ASSUME UNCHANGED <<events, wk>> PROVE Coming(s)'
    BY <2>1, <2>2, <2>3, <2>4 DEF Coming
  <2>5. ASSUME NEW i \in Ids, NEW k \in EventKinds, BackEvent(i, k) PROVE Coming(s)'
    <3>1. events' = Append(events, [id |-> i, kind |-> k, gen |-> back[i].gen]) /\ wk' = wk
      BY <2>5 DEF BackEvent
    <3>2. \A n \in DOMAIN events : n \in DOMAIN events' /\ events'[n] = events[n]
      BY <1>0, <3>1
    <3> QED
      BY <2>1, <2>2, <2>3, <3>1, <3>2 DEF Coming
  <2>6. ASSUME HandleFind PROVE Coming(s)'
    <3>1. PICK n \in DOMAIN events : events[n].kind = "error" /\ events[n].gen = gen[s]
      BY <2>2, <2>3, <2>6 DEF Coming, HandleFind
    <3>2. CASE n = 1
      <4>1. Head(events).id = nid[s] /\ Head(events) = events[1]
        BY <2>6, <3>1, <3>2, Found DEF Inv, IdOfGen
      <4>2. idr[nid[s]] = s /\ s # None
        BY <2>1, BoundsAssumption DEF Inv, IdsInv, IdrExact
      <4>3. wk' = [stream |-> s, kind |-> "error", gen |-> gen[s], prev |-> None, at |-> "update"]
        BY <2>6, <3>1, <3>2, <4>1, <4>2, Found
      <4>4. wk' # None
        <5>1. wk' \in Handled
          BY <4>3, <3>1, EvtParts, BoundsAssumption DEF Handled, Inv, TypeInv, IdTypeOK
        <5> QED
          BY <5>1, BoundsAssumption
      <4> QED
        BY <2>1, <4>3, <4>4 DEF Coming
    <3>3. CASE n # 1
      <4>1. events' = Tail(events) /\ events # <<>>
        BY <2>6 DEF HandleFind
      <4>2. n - 1 \in DOMAIN events' /\ events'[n - 1] = events[n]
        BY <1>0, <3>3, <4>1
      <4> QED
        BY <2>1, <3>1, <4>2 DEF Coming
    <3> QED
      BY <3>2, <3>3
  <2>7. ASSUME (\E n \in DOMAIN events : events[n].kind = "error" /\ events[n].gen = gen[s]), UNCHANGED events PROVE Coming(s)'
    BY <2>1, <2>7 DEF Coming
  <2>8. ASSUME wk # None, wk.stream = s, wk.kind = "error", wk.gen = gen[s], wk.at \in {"update", "exchange"},
               UpdateRead \/ UpdateExchange \/ HandleAct
        PROVE  Coming(s)'
    <3>0. wk \in Handled
      BY <1>0, <2>8, HandledParts
    <3>1. UpdateRead \/ UpdateExchange
      BY <2>8 DEF HandleAct
    <3>2. CASE UpdateRead
      <4>1. wk' = [wk EXCEPT !.at = "exchange", !.prev = state[wk.stream]]
        BY <2>3, <2>8, <3>2 DEF UpdateRead
      <4>2. wk'.stream = s /\ wk'.kind = "error" /\ wk'.gen = gen[s] /\ wk'.at = "exchange"
        BY <2>8, <3>0, <4>1 DEF Handled
      <4>3. wk' \in Handled
        BY <1>0, <2>8, <3>0, <4>1 DEF Handled
      <4>4. wk' # None
        BY <4>3, BoundsAssumption
      <4> QED
        BY <2>1, <4>2, <4>4 DEF Coming
    <3>3. CASE UpdateExchange
      <4>1. state[s] # wk.prev
        BY <1>0, <2>8, <3>3 DEF UpdateExchange, NewState
      <4>2. wk' = [wk EXCEPT !.at = "update", !.prev = None]
        BY <2>8, <3>3, <4>1 DEF UpdateExchange
      <4> QED
        BY <2>1, <2>8, <3>0, <4>2, EventTypeStep, BoundsAssumption DEF Coming, EventTypeOK, Handled
    <3> QED
      BY <3>1, <3>2, <3>3
  <2> QED
    BY <2>2, <2>3, <2>4, <2>5, <2>6, <2>7, <2>8, EventSteps DEF Coming
<1> QED
  BY <1>2, <1>3

-----------------------------------------------------------------------------
(* What a stream believes. *)

\* A new stream is cleared, and an s_ctrl under way has set enable_eos_event.
LEMMA EosStep == Inv /\ [Next]_vars => EosInv'
<1> SUFFICES ASSUME Inv, [Next]_vars PROVE EosInv'
  OBVIOUS
<1> USE DEF streamVars, backVars, evVars, histVars
<1>0. /\ EosInv /\ pc \in [Streams -> Places] /\ state \in [Streams -> {"idle", "stopped", "error"}]
      /\ past \in [Streams -> SUBSET Past] /\ codec \in [Streams -> Codecs \cup {None}] /\ eos \in [Streams -> BOOLEAN]
      /\ op \in [Streams -> Op] /\ \A s \in Streams : op[s].at # "none" => pc[s] = "open"
  BY DEF Inv, TypeInv, StreamTypeOK, ValueTypeOK
<1>1. ASSUME NEW s \in Streams, OpenAlloc(s) \/ OpenCreate(s) \/ OpenFields(s) \/ OpenQueues(s) \/ OpenQueuesFail(s)
             \/ OpenCtrlsFail(s) \/ FailCtx(s) \/ FailPut(s)
      PROVE  EosInv'
  <2>1. UNCHANGED <<codec, eos, op, past, state>> /\ \E l \in Places \ {"free"} : pc' = [pc EXCEPT ![s] = l]
    BY <1>1 DEF OpenAlloc, OpenCreate, OpenFields, OpenQueues, OpenQueuesFail, OpenCtrlsFail, FailCtx, FailPut, GoTo,
                Places, StepsOfOpen
  <2> QED
    BY <1>0, <2>1 DEF EosInv
<1>2. ASSUME NEW s \in Streams, OpenReset(s) PROVE EosInv'
  <2>1. UNCHANGED <<codec, eos, op>> /\ pc' = [pc EXCEPT ![s] = "queues"]
        /\ \A t \in Streams : t # s => state'[t] = state[t] /\ past'[t] = past[t]
    BY <1>0, <1>2 DEF OpenReset, GoTo, Note
  <2> QED
    BY <1>0, <2>1 DEF EosInv
<1>3. ASSUME NEW s \in Streams, OpenCtrls(s) PROVE EosInv'
  BY <1>0, <1>3 DEF OpenCtrls, GoTo, EosInv
<1>4. ASSUME NEW s \in Streams, FailFree(s) \/ CloseFree(s) PROVE EosInv'
  BY <1>0, <1>4 DEF FailFree, CloseFree, Free, GoTo, EosInv
<1>5. ASSUME NEW s \in Streams, Close(s) \/ CloseLocked(s) \/ CloseDestroy(s) \/ ClosePut(s) PROVE EosInv'
  <2>1. UNCHANGED <<codec, eos, op, past, state>> /\ \E l \in Places \ {"free"} : pc' = [pc EXCEPT ![s] = l]
    BY <1>5 DEF Close, CloseLocked, CloseDestroy, ClosePut, GoTo, Places, StepsOfClose
  <2> QED
    BY <1>0, <2>1 DEF EosInv
<1>6. ASSUME NEW s \in Streams, Ioctl(s) PROVE EosInv'
  <2>1. PICK k, v : EnterIoctl(s, k, v)
    BY <1>6 DEF Ioctl, Plain, SFmt, SCtrl, Unsubscribe
  <2> QED
    BY <1>0, <2>1 DEF EnterIoctl, EosInv
<1>7. ASSUME NEW s \in Streams, Refused(s) \/ NoMemory(s) \/ CommandFails(s) PROVE EosInv'
  <2>1. /\ op' = [op EXCEPT ![s] = NoOp] /\ UNCHANGED <<pc, codec, eos>> /\ pc[s] # "free"
        /\ \A t \in Streams : t # s => state'[t] = state[t] /\ past'[t] = past[t]
    BY <1>0, <1>7 DEF Refused, NoMemory, CommandFails, EndOp, OpAt, Note
  <2> QED
    BY <1>0, <2>1 DEF EosInv, NoOp
<1>8. ASSUME NEW s \in Streams, Admitted(s) PROVE EosInv'
  <2>1. op[s] \in Op /\ op[s].kind \in Ioctls /\ Fits(op[s].kind, op[s].val) /\ pc[s] = "open"
    BY <1>8 DEF Admitted, OpAt, Inv, TypeInv, ValueTypeOK
  <2>2. [op[s] EXCEPT !.at = "send"].kind = op[s].kind /\ [op[s] EXCEPT !.at = "send"].val = op[s].val
    BY <2>1 DEF Op
  <2>3. /\ op' = [op EXCEPT ![s] = [op[s] EXCEPT !.at = "send"]] /\ UNCHANGED <<pc, codec, past, state>>
        /\ eos' = IF op[s].kind = "s_ctrl" THEN [eos EXCEPT ![s] = op[s].val] ELSE eos
    BY <1>8 DEF Admitted, GoOn
  <2> QED
    BY <1>0, <2>1, <2>2, <2>3 DEF EosInv
<1>9. ASSUME NEW s \in Streams, Send(s) PROVE EosInv'
  <2>1. op[s] \in Op /\ op[s].at = "send" /\ pc[s] = "open"
    BY <1>0, <1>9 DEF Send, OpAt
  <2>2. [op[s] EXCEPT !.at = "wait"].kind = op[s].kind /\ [op[s] EXCEPT !.at = "wait"].val = op[s].val
    BY <2>1 DEF Op
  <2>3. op' = [op EXCEPT ![s] = [op[s] EXCEPT !.at = "wait"]] /\ UNCHANGED <<pc, codec, eos, past, state>>
    BY <1>9 DEF Send, GoOn
  <2> QED
    BY <1>0, <2>1, <2>2, <2>3 DEF EosInv
<1>10. ASSUME NEW s \in Streams, Answered(s) PROVE EosInv'
  <2>1. /\ op' = [op EXCEPT ![s] = NoOp] /\ UNCHANGED <<pc, eos, past, state>> /\ pc[s] = "open"
        /\ \A t \in Streams : t # s => codec'[t] = codec[t]
    BY <1>0, <1>10 DEF Answered, EndOp, OpAt
  <2> QED
    BY <1>0, <2>1 DEF EosInv, NoOp
<1>11. CASE BackProcess \/ UpdateRead \/ HandleAct \/ UNCHANGED vars
  <2>1. UNCHANGED <<codec, eos, op, past, state, pc>>
    BY <1>11 DEF BackProcess, UpdateRead, HandleAct, vars
  <2> QED
    BY <1>0, <2>1 DEF EosInv
<1>12. ASSUME NEW i \in Ids, NEW k \in EventKinds, BackEvent(i, k) PROVE EosInv'
  <2>1. back[i] # None => back[i].gen # 0
    BY BoundsAssumption DEF Inv, TypeInv, BackTypeOK, BackStream
  <2>2. \A s \in Streams : pc[s] = "free" => gen[s] = 0
    BY DEF Inv, GensInv
  <2>3. UNCHANGED <<codec, eos, op, state, pc>> /\ \A s \in Streams : pc[s] = "free" => past'[s] = past[s]
    BY <1>12, <2>1, <2>2 DEF BackEvent
  <2> QED
    BY <1>0, <2>3 DEF EosInv
<1>13. CASE HandleFind
  <2>1. UNCHANGED <<codec, eos, op, state, pc>>
    BY <1>13 DEF HandleFind
  <2>2. \A s \in Streams : pc[s] = "free" => past'[s] = past[s]
    <3>1. Head(events) \in Evt
      BY <1>13, Found
    <3>2. idr[Head(events).id] # None => idr[Head(events).id] \in Streams /\ pc[idr[Head(events).id]] # "free"
      BY <3>1 DEF Evt, Inv, TypeInv, IdTypeOK, IdsInv, IdrExact, InIdr
    <3> QED
      BY <1>0, <1>13, <3>2 DEF HandleFind, Note
  <2> QED
    BY <1>0, <2>1, <2>2 DEF EosInv
<1>14. CASE UpdateExchange
  <2>1. UNCHANGED <<codec, eos, op, past, pc>>
    BY <1>14 DEF UpdateExchange
  <2>2. \A s \in Streams : pc[s] = "free" => state'[s] = state[s]
    <3>1. Defined \/ UNCHANGED vars
      BY DEF Next
    <3>2. wk.stream \in Live \/ UNCHANGED vars
      BY <1>14, <3>1 DEF Defined, UpdateExchange
    <3> QED
      BY <1>0, <1>14, <3>2 DEF UpdateExchange, Live, vars
  <2> QED
    BY <1>0, <2>1, <2>2 DEF EosInv
<1> QED
  BY <1>1, <1>2, <1>3, <1>4, <1>5, <1>6, <1>7, <1>8, <1>9, <1>10, <1>11, <1>12, <1>13, <1>14
     DEF Next, OpenStep, CloseStep, TakeLock, IoctlStep, Work

\* An error that is not lost stays with the stream.
LEMMA ErrorStays ==
  ASSUME Inv, [Next]_vars, NEW s \in Streams, state[s] = "error", pc'[s] # "free", "lost" \notin past'[s]
  PROVE  state'[s] = "error"
<1>0. /\ CauseInv /\ pc \in [Streams -> Places] /\ state \in [Streams -> {"idle", "stopped", "error"}] /\ EventTypeOK
  BY DEF Inv, TypeInv, StreamTypeOK
<1>1. ~ Frees(s)
  BY <1>0 DEF Frees
<1>2. UpdateExchange => state'[s] = "error"
  BY <1>0, HandledParts DEF UpdateExchange, CauseInv
<1> QED
  BY <1>1, <1>2, StateSteps

\* What stream s believes, and is about to believe, stays, or an s_ctrl of it is not sent yet.
Believes(s) ==
  /\ CodecSoon(s)' = CodecSoon(s)
  /\ Unsent(s)' \/ (eos'[s] = eos[s] /\ ~Unsent(s))
  /\ Opening(s)' => Opening(s)

\* Only the sending of an ioctl's command changes that.
LEMMA BelieveSteps ==
  ASSUME Inv, [Next]_vars, NEW s \in Streams, pc[s] # "free", pc'[s] # "free", state'[s] # "error"
  PROVE  Send(s) \/ Believes(s)
<1> USE DEF streamVars, backVars, evVars, histVars
<1>0. /\ EosInv /\ pc \in [Streams -> Places] /\ state \in [Streams -> {"idle", "stopped", "error"}]
      /\ past \in [Streams -> SUBSET Past] /\ codec \in [Streams -> Codecs \cup {None}] /\ eos \in [Streams -> BOOLEAN]
      /\ op \in [Streams -> Op] /\ \A t \in Streams : op[t].at # "none" => pc[t] = "open"
      /\ \A t \in Streams : op[t].at = "none" => op[t] = NoOp
      /\ past[s] \subseteq past'[s]
  BY PastKept DEF Inv, TypeInv, StreamTypeOK, ValueTypeOK
<1>a. ASSUME codec'[s] = codec[s], eos'[s] = eos[s], op'[s] = op[s], Opening(s)' => Opening(s) PROVE Believes(s)
  BY <1>0, <1>a DEF Believes, CodecSoon, Waits, Unsent
<1>b. ASSUME codec'[s] = codec[s], eos'[s] = eos[s], op[s].at \in {"none", "check"}, op'[s].at \in {"none", "check"},
             Opening(s)' => Opening(s)
      PROVE Believes(s)
  BY <1>0, <1>b DEF Believes, CodecSoon, Waits, Unsent
<1>1. ASSUME NEW t \in Streams, OpenAlloc(t) \/ OpenCreate(t) \/ OpenFields(t) \/ OpenReset(t) \/ OpenQueues(t)
             \/ OpenQueuesFail(t) \/ OpenCtrlsFail(t) \/ FailCtx(t) \/ FailPut(t)
      PROVE  Believes(s)
  <2>1. UNCHANGED <<codec, eos, op>> /\ (pc[t] = "free" \/ Opening(t) \/ ~Opening(t)') /\ \E l \in Places : pc' = [pc EXCEPT ![t] = l]
    BY <1>0, <1>1 DEF OpenAlloc, OpenCreate, OpenFields, OpenReset, OpenQueues, OpenQueuesFail, OpenCtrlsFail, FailCtx, FailPut,
                GoTo, Opening, Places, StepsOfOpen
  <2> QED
    BY <1>0, <1>a, <2>1 DEF Opening
<1>2. ASSUME NEW t \in Streams, OpenCtrls(t) PROVE Believes(s)
  <2>1. /\ UNCHANGED <<codec, eos>> /\ pc' = [pc EXCEPT ![t] = "open"] /\ pc[t] = "ctrls"
        /\ op' = [op EXCEPT ![t] = [at |-> "check", kind |-> "s_ctrl", val |-> TRUE]]
    BY <1>2 DEF OpenCtrls, GoTo
  <2>2. CASE t = s
    <3>1. op[s].at = "none" /\ op'[s].at = "check"
      BY <1>0, <2>1, <2>2 DEF Op
    <3> QED
      BY <1>0, <1>b, <2>1, <2>2, <3>1 DEF Opening
  <2>3. CASE t # s
    BY <1>0, <1>a, <2>1, <2>3 DEF Opening
  <2> QED
    BY <2>2, <2>3
<1>3. ASSUME NEW t \in Streams, FailFree(t) \/ CloseFree(t) PROVE Believes(s)
  <2>1. pc' = [pc EXCEPT ![t] = "free"] /\ codec' = [codec EXCEPT ![t] = None] /\ eos' = [eos EXCEPT ![t] = FALSE] /\ op' = op
    BY <1>3 DEF FailFree, CloseFree, Free, GoTo
  <2>2. t # s
    BY <1>0, <2>1
  <2> QED
    BY <1>0, <1>a, <2>1, <2>2 DEF Opening
<1>4. ASSUME NEW t \in Streams, Close(t) \/ CloseLocked(t) \/ CloseDestroy(t) \/ ClosePut(t) PROVE Believes(s)
  <2>1. UNCHANGED <<codec, eos, op>> /\ \E l \in StepsOfClose : pc' = [pc EXCEPT ![t] = l]
    BY <1>4 DEF Close, CloseLocked, CloseDestroy, ClosePut, GoTo, StepsOfClose
  <2> QED
    BY <1>0, <1>a, <2>1 DEF Opening, StepsOfClose
<1>5. ASSUME NEW t \in Streams, Ioctl(t) PROVE Believes(s)
  <2>1. PICK k, v : EnterIoctl(t, k, v)
    BY <1>5 DEF Ioctl, Plain, SFmt, SCtrl, Unsubscribe
  <2>2. /\ UNCHANGED <<codec, eos, pc>> /\ op[t] = NoOp
        /\ op' = [op EXCEPT ![t] = [at |-> "check", kind |-> k, val |-> v]]
    BY <2>1 DEF EnterIoctl
  <2>3. CASE t = s
    <3>1. op[s].at = "none" /\ op'[s].at = "check"
      BY <1>0, <2>2, <2>3 DEF NoOp
    <3> QED
      BY <1>b, <2>2, <3>1 DEF Opening
  <2>4. CASE t # s
    BY <1>0, <1>a, <2>2, <2>4 DEF Opening
  <2> QED
    BY <2>3, <2>4
<1>6. ASSUME NEW t \in Streams, IoctlStep(t), t # s PROVE Believes(s)
  <2>1. pc' = pc /\ codec'[s] = codec[s] /\ eos'[s] = eos[s] /\ op'[s] = op[s]
    BY <1>0, <1>6 DEF IoctlStep, Refused, Admitted, NoMemory, Send, CommandFails, Answered, EndOp, GoOn
  <2> QED
    BY <1>a, <2>1 DEF Opening
<1>7. CASE Refused(s)
  <2>1. UNCHANGED <<codec, eos, pc>> /\ op' = [op EXCEPT ![s] = NoOp] /\ op[s].at = "check"
    BY <1>7 DEF Refused, EndOp, OpAt
  <2>2. op'[s].at = "none"
    BY <1>0, <2>1 DEF NoOp
  <2> QED
    BY <1>b, <2>1, <2>2 DEF Opening
<1>8. CASE Admitted(s)
  <2>1. op[s] \in Op /\ op[s].at = "check"
    BY <1>0, <1>8 DEF Admitted, OpAt
  <2>2. /\ op' = [op EXCEPT ![s] = [op[s] EXCEPT !.at = "send"]] /\ UNCHANGED <<pc, codec>>
        /\ eos' = IF op[s].kind = "s_ctrl" THEN [eos EXCEPT ![s] = op[s].val] ELSE eos
    BY <1>8 DEF Admitted, GoOn
  <2>3. op'[s].at = "send" /\ op'[s].kind = op[s].kind
    BY <1>0, <2>1, <2>2 DEF Op
  <2> QED
    BY <1>0, <2>1, <2>2, <2>3 DEF Believes, CodecSoon, Waits, Unsent, Opening
<1>9. CASE NoMemory(s)
  <2>1. /\ op' = [op EXCEPT ![s] = NoOp] /\ UNCHANGED <<pc, codec>> /\ op[s].at = "send"
        /\ "nomem" \in past'[s]
    BY <1>0, <1>9 DEF NoMemory, EndOp, OpAt, Note
  <2>2. op'[s].at = "none"
    BY <1>0, <2>1 DEF NoOp
  <2> QED
    BY <1>0, <2>1, <2>2 DEF Believes, CodecSoon, Waits, Unsent, Opening
<1>10. ~ CommandFails(s)
  BY <1>0 DEF CommandFails
<1>11. CASE Answered(s)
  <2>1. /\ op' = [op EXCEPT ![s] = NoOp] /\ UNCHANGED <<pc, eos>> /\ op[s].at = "wait"
        /\ codec' = IF op[s].kind = "s_fmt" THEN [codec EXCEPT ![s] = op[s].val] ELSE codec
    BY <1>0, <1>11 DEF Answered, EndOp, OpAt
  <2>2. op'[s].at = "none"
    BY <1>0, <2>1 DEF NoOp
  <2> QED
    BY <1>0, <2>1, <2>2 DEF Believes, CodecSoon, Waits, Unsent, Opening
<1>12. CASE BackProcess \/ Work \/ UNCHANGED vars \/ \E i \in Ids, k \in EventKinds : BackEvent(i, k)
  <2>1. UNCHANGED <<codec, eos, op, pc>>
    BY <1>12 DEF BackProcess, Work, HandleFind, UpdateRead, UpdateExchange, HandleAct, BackEvent, vars
  <2> QED
    BY <1>a, <2>1 DEF Opening
<1>13. ASSUME NEW t \in Streams, IoctlStep(t) PROVE Send(s) \/ Believes(s)
  BY <1>6, <1>7, <1>8, <1>9, <1>10, <1>11, <1>13 DEF IoctlStep
<1> QED
  BY <1>1, <1>2, <1>3, <1>4, <1>5, <1>12, <1>13 DEF Next, OpenStep, CloseStep, TakeLock

\* A stream that believes what it did agrees with the back end, whoever else sends commands.
LEMMA AgreeKept ==
  ASSUME NEW s \in Streams, Agree(s), Believes(s), back' = back, gen'[s] = gen[s], nid'[s] = nid[s],
         \A n \in DOMAIN toBack : n \in DOMAIN toBack' /\ toBack'[n] = toBack[n],
         \A n \in DOMAIN toBack' :
           \/ n \in DOMAIN toBack
           \/ /\ ~Of(s, n, "s_fmt")' /\ ~Of(s, n, "s_ctrl")'
              /\ Of(s, n, "create")' => Opening(s)
  PROVE  Agree(s)'
<1>1. \A n \in DOMAIN toBack : \A k : Of(s, n, k)' <=> Of(s, n, k)
  BY DEF Of
<1>2. \A n \in DOMAIN toBack' : \A k \in {"s_fmt", "s_ctrl"} : LastOf(s, n, k)' => n \in DOMAIN toBack /\ LastOf(s, n, k)
  BY <1>1 DEF LastOf
<1>3. \A k \in {"s_fmt", "s_ctrl"} : NoneOf(s, k)' <=> NoneOf(s, k)
  BY <1>1 DEF NoneOf
<1>4. (\E n \in DOMAIN toBack' : Of(s, n, "create")') => Opening(s) \/ \E n \in DOMAIN toBack : Of(s, n, "create")
  BY <1>1
<1>5. CodecSoon(s)' = CodecSoon(s) /\ (Unsent(s)' \/ (eos'[s] = eos[s] /\ ~Unsent(s))) /\ (Opening(s)' => Opening(s))
  BY DEF Believes
<1>6. \A n \in DOMAIN toBack' : LastOf(s, n, "s_fmt")' => toBack'[n].val = CodecSoon(s)'
  BY <1>2, <1>5 DEF Agree
<1>7. \A n \in DOMAIN toBack' : LastOf(s, n, "s_ctrl")' => Unsent(s)' \/ toBack'[n].val = eos'[s]
  BY <1>2, <1>5 DEF Agree
<1>8. back'[nid'[s]] # None /\ back'[nid'[s]].gen = gen'[s] =>
        /\ NoneOf(s, "s_fmt")' => back'[nid'[s]].codec = CodecSoon(s)'
        /\ NoneOf(s, "s_ctrl")' => Unsent(s)' \/ back'[nid'[s]].eos = eos'[s]
  BY <1>3, <1>5 DEF Agree
<1>9. Opening(s)' \/ (\E n \in DOMAIN toBack' : Of(s, n, "create")') =>
        /\ NoneOf(s, "s_fmt")' => CodecSoon(s)' = None
        /\ NoneOf(s, "s_ctrl")' => Unsent(s)' \/ eos'[s] = FALSE
  BY <1>3, <1>4, <1>5 DEF Agree
<1>10. Opening(s)' => NoneOf(s, "s_fmt")' /\ NoneOf(s, "s_ctrl")'
  BY <1>3, <1>5 DEF Agree
<1> QED
  BY <1>6, <1>7, <1>8, <1>9, <1>10 DEF Agree

\* An ioctl's command tells the back end what the stream is about to believe.
LEMMA AgreeSend ==
  ASSUME Inv, NEW s \in Streams, Agree(s), Send(s)
  PROVE  Agree(s)'
<1>1. Sends(s)
  BY SendSends
<1>2. op[s] \in Op /\ op[s].at = "send" /\ pc[s] = "open" /\ op \in [Streams -> Op]
  BY DEF Send, OpAt, Inv, TypeInv, ValueTypeOK
<1>3. /\ op'[s].at = "wait" /\ op'[s].kind = op[s].kind /\ op'[s].val = op[s].val
      /\ UNCHANGED <<pc, codec, eos, past, gen, nid, back>>
  <2>1. op' = [op EXCEPT ![s] = [op[s] EXCEPT !.at = "wait"]] /\ UNCHANGED <<pc, codec, eos, past, gen, nid, back>>
    BY DEF Send, GoOn, histVars
  <2> QED
    BY <1>2, <2>1 DEF Op
<1>4. PICK N \in Nat :
        /\ N \in DOMAIN toBack'
        /\ toBack'[N].gen = gen[s] /\ toBack'[N].kind # "create"
        /\ toBack'[N].kind = op[s].kind /\ toBack'[N].val = op[s].val
        /\ \A n \in DOMAIN toBack : n \in DOMAIN toBack' /\ toBack'[n] = toBack[n] /\ n < N
        /\ \A n \in DOMAIN toBack' : n \in Nat /\ (n = N \/ n \in DOMAIN toBack)
  <2>1. PICK N \in Nat :
           /\ N \in DOMAIN toBack'
           /\ toBack'[N].gen = gen[s]
           /\ toBack'[N].kind = "create" <=> pc[s] = "create"
           /\ toBack'[N].kind = "destroy" <=> pc[s] = "destroy"
           /\ toBack'[N].kind \in Ioctls => op[s].kind = toBack'[N].kind /\ op[s].val = toBack'[N].val
           /\ toBack'[N].kind \in Ioctls \cup {"create", "destroy"}
           /\ \A n \in DOMAIN toBack : n \in DOMAIN toBack' /\ toBack'[n] = toBack[n] /\ n < N
           /\ \A n \in DOMAIN toBack' : n \in Nat /\ (n = N \/ n \in DOMAIN toBack)
    BY <1>1, Sent
  <2> QED
    BY <1>2, <2>1
<1>5. \A n \in DOMAIN toBack : \A k : Of(s, n, k)' <=> Of(s, n, k)
  BY <1>3, <1>4 DEF Of
<1>6. \A k : Of(s, N, k)' <=> k = op[s].kind
  BY <1>3, <1>4 DEF Of
<1>7. \A k : NoneOf(s, k)' => NoneOf(s, k) /\ k # op[s].kind
  BY <1>4, <1>5, <1>6 DEF NoneOf
<1>8. \A n \in DOMAIN toBack' : \A k : LastOf(s, n, k)' =>
        \/ n = N /\ k = op[s].kind
        \/ n \in DOMAIN toBack /\ LastOf(s, n, k) /\ k # op[s].kind
  BY <1>4, <1>5, <1>6 DEF LastOf
<1>9. CodecSoon(s)' = IF op[s].kind = "s_fmt" THEN op[s].val ELSE CodecSoon(s)
  BY <1>2, <1>3 DEF CodecSoon, Waits
<1>10. op[s].kind # "s_ctrl" => (Unsent(s)' <=> Unsent(s))
  BY <1>2, <1>3 DEF Unsent
<1>11. op[s].kind = "s_ctrl" => eos[s] = op[s].val
  BY <1>2 DEF Inv, EosInv
<1>12. ~Opening(s)' /\ ((\E n \in DOMAIN toBack' : Of(s, n, "create")') => \E n \in DOMAIN toBack : Of(s, n, "create"))
  <2>1. ~Opening(s)'
    BY <1>2, <1>3 DEF Opening
  <2>2. ~Of(s, N, "create")'
    BY <1>4 DEF Of
  <2> QED
    BY <1>4, <1>5, <2>1, <2>2
<1>13. \A n \in DOMAIN toBack' : LastOf(s, n, "s_fmt")' => toBack'[n].val = CodecSoon(s)'
  BY <1>4, <1>8, <1>9 DEF Agree
<1>14. \A n \in DOMAIN toBack' : LastOf(s, n, "s_ctrl")' => Unsent(s)' \/ toBack'[n].val = eos'[s]
  BY <1>3, <1>4, <1>8, <1>10, <1>11 DEF Agree
<1>15. back'[nid'[s]] # None /\ back'[nid'[s]].gen = gen'[s] =>
        /\ NoneOf(s, "s_fmt")' => back'[nid'[s]].codec = CodecSoon(s)'
        /\ NoneOf(s, "s_ctrl")' => Unsent(s)' \/ back'[nid'[s]].eos = eos'[s]
  BY <1>3, <1>7, <1>9, <1>10 DEF Agree
<1>16. (\E n \in DOMAIN toBack' : Of(s, n, "create")') =>
        /\ NoneOf(s, "s_fmt")' => CodecSoon(s)' = None
        /\ NoneOf(s, "s_ctrl")' => Unsent(s)' \/ eos'[s] = FALSE
  BY <1>3, <1>7, <1>9, <1>10, <1>12 DEF Agree
<1> QED
  BY <1>12, <1>13, <1>14, <1>15, <1>16 DEF Agree

\* The back end does what it was told, and a command reaches the stream that it was sent for.
LEMMA AgreeProcess ==
  ASSUME Inv, NEW s \in Streams, InIdr(s), Agree(s), BackProcess
  PROVE  Agree(s)'
<1>1. UNCHANGED <<pc, gen, nid, codec, eos, op, past>>
  BY DEF BackProcess, streamVars
<1> DEFINE c == toBack[1]
           i == nid[s]
<1>2. /\ \A n \in DOMAIN toBack' : n \in Nat /\ n + 1 \in DOMAIN toBack /\ toBack'[n] = toBack[n + 1] /\ 1 < n + 1
      /\ \A n \in DOMAIN toBack : n \in Nat /\ (n = 1 \/ (n - 1 \in DOMAIN toBack' /\ toBack'[n - 1] = toBack[n]))
      /\ 1 \in DOMAIN toBack /\ Head(toBack) = c
  BY Left
<1>3. i \in Ids /\ c.id \in Ids /\ c.gen \in Nat /\ gen[s] \in Nat /\ c.kind \in Ioctls \cup {"create", "destroy"}
      /\ (back[i] # None => back[i].gen \in Nat /\ back[i] \in BackStream)
  <2>1. i \in Ids /\ gen[s] \in Nat
    BY BoundsAssumption DEF Inv, TypeInv, IdTypeOK, IdsInv, InIdr
  <2>2. back[i] # None => back[i] \in BackStream
    BY <2>1 DEF Inv, TypeInv, BackTypeOK
  <2> QED
    BY <1>2, <2>1, <2>2, CmdParts, BoundsAssumption DEF Inv, TypeInv, BackStream
<1>5. CodecSoon(s)' = CodecSoon(s) /\ (Unsent(s)' <=> Unsent(s)) /\ (Opening(s)' <=> Opening(s))
  BY <1>1 DEF CodecSoon, Waits, Unsent, Opening
<1>6. \A n \in DOMAIN toBack' : \A k : Of(s, n, k)' <=> Of(s, n + 1, k)
  BY <1>1, <1>2 DEF Of
<1>7. \A k : NoneOf(s, k)' => \A n \in DOMAIN toBack : Of(s, n, k) => n = 1
  <2> SUFFICES ASSUME NEW k, NoneOf(s, k)', NEW n \in DOMAIN toBack, Of(s, n, k), n # 1 PROVE FALSE
    OBVIOUS
  <2>1. n - 1 \in DOMAIN toBack' /\ toBack'[n - 1] = toBack[n]
    BY <1>2
  <2>2. Of(s, n - 1, k)'
    BY <1>1, <2>1 DEF Of
  <2> QED
    BY <2>1, <2>2 DEF NoneOf
<1>8. \A n \in DOMAIN toBack' : \A k : LastOf(s, n, k)' => LastOf(s, n + 1, k) /\ n + 1 \in DOMAIN toBack
  <2> SUFFICES ASSUME NEW n \in DOMAIN toBack', NEW k, LastOf(s, n, k)' PROVE LastOf(s, n + 1, k)
    BY <1>2
  <2>1. Of(s, n + 1, k)
    BY <1>6 DEF LastOf
  <2>2. ASSUME NEW m \in DOMAIN toBack, n + 1 < m, Of(s, m, k) PROVE FALSE
    <3>1. m # 1 /\ n \in Nat /\ m \in Nat
      BY <1>2, <2>2
    <3>2. m - 1 \in DOMAIN toBack' /\ toBack'[m - 1] = toBack[m] /\ n < m - 1
      BY <1>2, <2>2, <3>1
    <3>3. Of(s, m - 1, k)'
      BY <1>1, <2>2, <3>2 DEF Of
    <3> QED
      BY <3>2, <3>3 DEF LastOf
  <2> QED
    BY <2>1, <2>2 DEF LastOf
<1>9. \A k : NoneOf(s, k)' /\ ~Of(s, 1, k) => NoneOf(s, k)
  BY <1>7 DEF NoneOf
<1>10. \A k : NoneOf(s, k)' /\ Of(s, 1, k) => LastOf(s, 1, k)
  BY <1>2, <1>7 DEF LastOf
<1>11. \A n \in DOMAIN toBack' : LastOf(s, n, "s_fmt")' => toBack'[n].val = CodecSoon(s)'
  BY <1>2, <1>5, <1>8 DEF Agree
<1>12. \A n \in DOMAIN toBack' : LastOf(s, n, "s_ctrl")' => Unsent(s)' \/ toBack'[n].val = eos'[s]
  BY <1>1, <1>2, <1>5, <1>8 DEF Agree
<1>13. ASSUME back'[i] # None, back'[i].gen = gen[s]
       PROVE  /\ NoneOf(s, "s_fmt")' => back'[i].codec = CodecSoon(s)
              /\ NoneOf(s, "s_ctrl")' => Unsent(s) \/ back'[i].eos = eos[s]
  <2>1. CASE back[i] = None
    <3>1. /\ i = c.id /\ c.gen = gen[s] /\ c.kind = "create"
          /\ back'[i] = [gen |-> c.gen, codec |-> None, eos |-> FALSE]
      <4>1. /\ i = Head(toBack).id /\ back'[i].gen = Head(toBack).gen /\ Head(toBack).kind = "create"
            /\ back'[i] = [gen |-> Head(toBack).gen, codec |-> None, eos |-> FALSE]
        <5> HIDE DEF i
        <5> QED
          BY <1>3, <1>13, <2>1, BackGens
      <4> QED
        BY <1>2, <1>13, <4>1
    <3>2. Of(s, 1, "create") /\ ~Of(s, 1, "s_fmt") /\ ~Of(s, 1, "s_ctrl")
      BY <3>1 DEF Of
    <3>3. back'[i].codec = None /\ back'[i].eos = FALSE
      BY <3>1
    <3> QED
      BY <1>2, <1>9, <3>2, <3>3 DEF Agree
  <2>2. CASE back[i] # None
    <3>0. back[i].gen = gen[s]
      BY <1>2, <1>3, <1>13, <2>2, BackGens
    <3>a. /\ NoneOf(s, "s_fmt") => back[i].codec = CodecSoon(s)
          /\ NoneOf(s, "s_ctrl") => Unsent(s) \/ back[i].eos = eos[s]
      BY <2>2, <3>0 DEF Agree
    <3>1. CASE c.id # i
      <4>1. back'[i] = back[i]
        BY <1>2, <1>3, <3>1, Processed
      <4>2. c.gen # gen[s]
        BY <1>2, <3>1 DEF Inv, IdOfGen
      <4>3. ~Of(s, 1, "s_fmt") /\ ~Of(s, 1, "s_ctrl")
        BY <4>2 DEF Of
      <4> QED
        BY <1>9, <3>a, <4>1, <4>3
    <3>2. CASE c.id = i
      <4>1. c.gen = gen[s]
        BY <1>2, <1>3, <2>2, <3>0, <3>2 DEF Inv, InOrder
      <4>2. \A k : Of(s, 1, k) <=> c.kind = k
        BY <4>1 DEF Of
      <4>3. /\ c.kind = "create" => back' = back
            /\ c.kind # "destroy"
            /\ c.kind \in Ioctls =>
                 back'[i] = CASE c.kind = "s_fmt" -> [back[i] EXCEPT !.codec = c.val]
                              [] c.kind = "s_ctrl" -> [back[i] EXCEPT !.eos = c.val]
                              [] OTHER -> back[i]
        BY <1>2, <1>13, <2>2, <3>2, Processed
      <4>4. CASE c.kind = "s_fmt"
        <5>1. back'[i].codec = c.val /\ back'[i].eos = back[i].eos
          BY <1>3, <2>2, <4>3, <4>4, IoctlKinds DEF BackStream
        <5>2. NoneOf(s, "s_fmt")' => c.val = CodecSoon(s)
          BY <1>2, <1>10, <4>2, <4>4 DEF Agree
        <5>3. ~Of(s, 1, "s_ctrl")
          BY <4>2, <4>4
        <5> QED
          BY <1>9, <3>a, <5>1, <5>2, <5>3
      <4>5. CASE c.kind = "s_ctrl"
        <5>1. back'[i].eos = c.val /\ back'[i].codec = back[i].codec
          BY <1>3, <2>2, <4>3, <4>5, IoctlKinds DEF BackStream
        <5>2. NoneOf(s, "s_ctrl")' => Unsent(s) \/ c.val = eos[s]
          BY <1>2, <1>10, <4>2, <4>5 DEF Agree
        <5>3. ~Of(s, 1, "s_fmt")
          BY <4>2, <4>5
        <5> QED
          BY <1>9, <3>a, <5>1, <5>2, <5>3
      <4>6. CASE c.kind \notin {"s_fmt", "s_ctrl"}
        <5>1. back'[i] = back[i]
          BY <1>3, <4>3, <4>6
        <5>2. ~Of(s, 1, "s_fmt") /\ ~Of(s, 1, "s_ctrl")
          BY <4>2, <4>6
        <5> QED
          BY <1>9, <3>a, <5>1, <5>2
      <4> QED
        BY <4>4, <4>5, <4>6
    <3> QED
      BY <3>1, <3>2
  <2> QED
    BY <2>1, <2>2
<1>14. ASSUME Opening(s) \/ \E n \in DOMAIN toBack' : Of(s, n, "create")'
       PROVE  /\ Opening(s) \/ \E n \in DOMAIN toBack : Of(s, n, "create")
              /\ ~Of(s, 1, "s_fmt") /\ ~Of(s, 1, "s_ctrl")
  <2>1. CASE Opening(s)
    BY <1>2, <2>1 DEF Agree, NoneOf
  <2>2. CASE \E n \in DOMAIN toBack' : Of(s, n, "create")'
    <3>1. PICK n \in DOMAIN toBack' : Of(s, n, "create")'
      BY <2>2
    <3>2. n + 1 \in DOMAIN toBack /\ 1 < n + 1 /\ Of(s, n + 1, "create")
      BY <1>2, <1>6, <3>1
    <3>3. c.gen # gen[s]
      BY <1>2, <3>2 DEF Inv, CreatedOnce, Of
    <3> QED
      BY <3>2, <3>3 DEF Of
  <2> QED
    BY <1>14, <2>1, <2>2
<1>15. Opening(s)' \/ (\E n \in DOMAIN toBack' : Of(s, n, "create")') =>
        /\ NoneOf(s, "s_fmt")' => CodecSoon(s)' = None
        /\ NoneOf(s, "s_ctrl")' => Unsent(s)' \/ eos'[s] = FALSE
  BY <1>1, <1>5, <1>9, <1>14 DEF Agree
<1>16. Opening(s)' => NoneOf(s, "s_fmt")' /\ NoneOf(s, "s_ctrl")'
  BY <1>2, <1>5, <1>6 DEF Agree, NoneOf
<1> QED
  BY <1>1, <1>5, <1>11, <1>12, <1>13, <1>15, <1>16 DEF Agree

\* What a stream believes is what the back end uses once it has done all it was told.
LEMMA AgreeStep == Inv /\ [Next]_vars => AgreeInv'
<1> SUFFICES ASSUME Inv, [Next]_vars, NEW s \in Streams, Sound(s)' PROVE Agree(s)'
  BY DEF AgreeInv
<1>0. pc'[s] # "free" /\ state'[s] # "error" /\ "lost" \notin past'[s] /\ InIdr(s)'
  BY DEF Sound, InIdr
<1>1. CASE OpenAlloc(s) /\ pc[s] = "free"
  <2>1. /\ gen' = [gen EXCEPT ![s] = opens + 1] /\ pc' = [pc EXCEPT ![s] = "create"]
        /\ UNCHANGED <<codec, eos, op, toBack, back>> /\ \E i \in Ids : nid' = [nid EXCEPT ![s] = i]
    BY <1>1, OpenAllocIds DEF OpenAlloc, backVars
  <2>2. codec[s] = None /\ eos[s] = FALSE /\ op[s].at = "none"
    BY <1>1 DEF Inv, EosInv, TypeInv, ValueTypeOK, Op
  <2>3. gen'[s] = opens + 1 /\ nid'[s] \in Ids /\ opens \in Nat
    BY <2>1, BoundsAssumption DEF Inv, TypeInv, IdTypeOK
  <2>4. \A n \in DOMAIN toBack' : toBack'[n].gen # gen'[s]
    BY <2>1, <2>3, CmdParts, BoundsAssumption DEF Inv, TypeInv, GensInv
  <2>5. back'[nid'[s]] # None => back'[nid'[s]].gen # gen'[s]
    BY <2>1, <2>3, BoundsAssumption DEF Inv, TypeInv, GensInv, BackTypeOK, BackStream
  <2>6. CodecSoon(s)' = None /\ eos'[s] = FALSE
    BY <2>1, <2>2 DEF CodecSoon, Waits
  <2>7. \A n \in DOMAIN toBack' : \A k : ~Of(s, n, k)'
    BY <2>4 DEF Of
  <2> QED
    BY <2>5, <2>6, <2>7 DEF Agree, LastOf, NoneOf
<1>2. CASE pc[s] # "free" /\ gen'[s] = gen[s] /\ nid'[s] = nid[s] /\ gen[s] \in 1..opens /\ InIdr(s)
  <2>1. Agree(s)
    <3>1. past[s] \subseteq past'[s] /\ state[s] # "error"
      BY <1>0, PastKept, ErrorStays
    <3> QED
      BY <1>0, <1>2, <3>1 DEF Inv, AgreeInv, Sound
  <2>2. CASE Send(s)
    BY <2>1, <2>2, AgreeSend
  <2>3. CASE BackProcess
    BY <1>2, <2>1, <2>3, AgreeProcess
  <2>4. CASE Believes(s) /\ UNCHANGED <<toBack, back>>
    BY <1>2, <2>1, <2>4, AgreeKept
  <2>5. ASSUME NEW t \in Streams, Sends(t), Believes(s), ~Send(s) PROVE Agree(s)'
    <3>1. back' = back /\ gen' = gen /\ gen[t] # 0
      BY <2>5, BoundsAssumption DEF Sends, Inv, GensInv, InIdr
    <3>2. PICK N \in Nat :
           /\ N \in DOMAIN toBack'
           /\ toBack'[N].gen = gen[t]
           /\ toBack'[N].kind = "create" <=> pc[t] = "create"
           /\ toBack'[N].kind \in Ioctls => Send(t)
           /\ toBack'[N].kind \in Ioctls \cup {"create", "destroy"}
           /\ \A n \in DOMAIN toBack : n \in DOMAIN toBack' /\ toBack'[n] = toBack[n]
           /\ \A n \in DOMAIN toBack' : n = N \/ n \in DOMAIN toBack
      BY <2>5, Sent
    <3>3. t # s => toBack'[N].gen # gen[s]
      BY <3>1, <3>2 DEF Inv, GensInv
    <3>4. t = s => toBack'[N].kind # "s_ctrl" /\ toBack'[N].kind # "s_fmt"
      <4>1. t = s => toBack'[N].kind \in {"create", "destroy"}
        BY <2>5, <3>2
      <4> QED
        BY <4>1
    <3>5. ~Of(s, N, "s_fmt")' /\ ~Of(s, N, "s_ctrl")' /\ (Of(s, N, "create")' => Opening(s))
      BY <3>1, <3>2, <3>3, <3>4 DEF Of, Opening
    <3> QED
      BY <1>2, <2>1, <2>5, <3>1, <3>2, <3>5, AgreeKept
  <2> QED
    BY <1>0, <1>2, <2>2, <2>3, <2>4, <2>5, BelieveSteps, BackSteps
<1> QED
  BY <1>0, <1>1, <1>2, SameStream

-----------------------------------------------------------------------------
(* The theorems. *)

\* The invariant holds when nothing is open.
LEMMA InvInit == Init => Inv
<1> SUFFICES ASSUME Init PROVE Inv
  OBVIOUS
<1>1. /\ toBack = <<>> /\ events = <<>> /\ wk = None /\ \A i \in Ids : back[i] = None
      /\ \A s \in Streams : pc[s] = "free" /\ gen[s] = 0 /\ nid[s] = None /\ codec[s] = None /\ eos[s] = FALSE
           /\ op[s] = NoOp /\ past[s] = {} /\ state[s] = "idle" /\ held[s] = {}
      /\ opens = 0 /\ orphans = {} /\ collided = FALSE /\ answers = {}
  BY DEF Init
<1>2. StreamTypeOK /\ IdTypeOK
  BY BoundsAssumption DEF Init, StreamTypeOK, IdTypeOK, Places
<1>3. ValueTypeOK
  BY <1>1, NoOpTyped DEF Init, ValueTypeOK, NoOp
<1>4. BackTypeOK /\ EventTypeOK
  <2>1. toBack \in Seq(Cmd) /\ events \in Seq(Evt) /\ DOMAIN toBack = {}
    BY <1>1
  <2>2. back \in [Ids -> BackStream \cup {None}]
    BY DEF Init
  <2> QED
    BY <1>1, <2>1, <2>2 DEF BackTypeOK, EventTypeOK
<1>5. IdsInv /\ GensInv
  BY <1>1 DEF Init, IdsInv, IdrExact, GensInv, InIdr
<1>6. IdOfGen /\ InOrder /\ CreatedOnce
  BY <1>1 DEF IdOfGen, InOrder, CreatedOnce, InIdr
<1>7. OwnedInv /\ HeldInv
  BY <1>1 DEF OwnedInv, HeldInv
<1>8. CauseInv /\ ArriveInv /\ EosInv
  BY <1>1 DEF CauseInv, OnlyOwnErrors, ArriveInv, EosInv, NoOp, Live
<1>9. AgreeInv
  BY <1>1 DEF AgreeInv, Sound, InIdr
<1> QED
  BY <1>2, <1>3, <1>4, <1>5, <1>6, <1>7, <1>8, <1>9 DEF Inv, TypeInv

\* Every step keeps it.
LEMMA InvStep == Inv /\ [Next]_vars => Inv'
<1> SUFFICES ASSUME Inv, [Next]_vars PROVE Inv'
  OBVIOUS
<1>1. TypeInv'
  BY StreamTypeStep, IdsStep, ValueTypeStep, BackTypeStep, EventTypeStep DEF TypeInv
<1>2. IdsInv' /\ GensInv' /\ IdOfGen' /\ InOrder' /\ CreatedOnce' /\ OwnedInv'
  BY IdsStep, GensStep, IdOfGenStep, InOrderStep, CreatedOnceStep, OwnedStep
<1>3. HeldInv' /\ CauseInv' /\ ArriveInv' /\ EosInv' /\ AgreeInv'
  BY HeldStep, CauseStep, ArriveStep, EosStep, AgreeStep
<1> QED
  BY <1>1, <1>2, <1>3 DEF Inv

\* The inductive invariant: ids, the order of opens and commands, who is to destroy what, where
\* errors come from and what is believed.
THEOREM InvHolds == Spec => []Inv
BY InvInit, InvStep, PTL DEF Spec

\* The idr holds exactly the streams that open has put there and release has not removed, however
\* an open fails (virtio_video_stream_id_get, virtio_video_stream_id_put).
THEOREM StreamsExactHolds == Spec => []StreamsExact
<1>1. Inv => StreamsExact
  <2> SUFFICES ASSUME Inv PROVE TypeOK /\ IdrExact
    BY DEF StreamsExact
  <2>1. IdrExact
    BY DEF Inv, IdsInv
  <2>2. /\ pc \in [Streams -> {"free", "open"} \cup StepsOfOpen \cup StepsOfClose]
        /\ state \in [Streams -> {"idle", "stopped", "error"}]
        /\ \A s \in Streams : held[s] \subseteq {"fh", "ctx", "slab", "ctrls"} \cup Memory
        /\ past \in [Streams -> SUBSET Past] /\ orphans \subseteq 1..MaxOpens /\ lock \in Streams \cup {None}
    BY DEF Inv, TypeInv, StreamTypeOK, Places, Parts
  <2>3. /\ gen \in [Streams -> 0..MaxOpens] /\ nid \in [Streams -> Ids \cup {None}]
        /\ idr \in [Ids -> Streams \cup {None}]
    BY DEF Inv, TypeInv, IdTypeOK
  <2>4. /\ codec \in [Streams -> Codecs \cup {None}] /\ eos \in [Streams -> BOOLEAN]
        /\ \A s \in Streams : op[s] = NoOp \/ (op[s].at \in {"check", "send", "wait"} /\ op[s].kind \in Kinds \cup {"s_ctrl"})
    BY DEF Inv, TypeInv, ValueTypeOK, Op, Ioctls
  <2>5. /\ \A i \in Ids : back[i] = None \/ back[i].gen \in 1..MaxOpens
        /\ answers \subseteq Ids \X {"GET_PARAMS", "SET_PARAMS", "SET_CONTROL", "STREAM_START"}
    BY DEF Inv, TypeInv, BackTypeOK, BackStream, Types
  <2>6. wk \in Handled \cup {None}
    BY DEF Inv, TypeInv, EventTypeOK
  <2> QED
    BY <2>1, <2>2, <2>3, <2>4, <2>5, <2>6 DEF TypeOK
<1> QED
  BY <1>1, InvHolds, PTL

\* A stream is in ERROR if it met one of its own, or an event of its id's former owner, and only
\* then (virtio_video_handle_event, virtio_video_v4l2_to_hab).
THEOREM ErrorsExactHolds == Spec => []ErrorsExact
<1>1. Inv => ErrorsExact
  BY DEF Inv, CauseInv, ArriveInv, Coming, ErrorsExact, ErrorArrives
<1> QED
  BY <1>1, InvHolds, PTL

\* What opens, failures and releases leave behind in memory and at the back end is only what the
\* code is known to leave (virtio_video_device_open, virtio_video_device_release).
THEOREM LeftBehindHolds == Spec => []LeftBehind
<1>1. Inv => LeftBehind
  <2> SUFFICES ASSUME Inv PROVE LeaksOnly /\ NoOrphans
    BY DEF LeftBehind
  <2>1. LeaksOnly
    BY DEF Inv, HeldInv, LeaksOnly
  <2>2. NoOrphans
    BY DEF Inv, OwnedInv, Owned, Owners, Destroys, NoOrphans
  <2> QED
    BY <2>1, <2>2
<1> QED
  BY <1>1, InvHolds, PTL

\* What a stream without an error believes the back end uses is what it uses, once no command is
\* under way (msm_v4l2_s_fmt, msm_v4l2_op_s_ctrl).
THEOREM ParamsAgreeHolds == Spec => []ParamsAgree
<1>1. Inv => ParamsAgree
  <2> SUFFICES ASSUME Inv, NEW s \in Streams,
                      pc[s] = "open", Quiet(s), state[s] # "error", "lost" \notin past[s],
                      back[nid[s]] # None, back[nid[s]].gen = gen[s]
               PROVE  codec[s] = back[nid[s]].codec /\ (eos[s] = back[nid[s]].eos \/ "nomem" \in past[s])
    BY DEF ParamsAgree
  <2>1. Agree(s)
    BY DEF Inv, AgreeInv, Sound, InIdr
  <2>2. op[s].at = "none" /\ \A n \in DOMAIN toBack : toBack[n].gen # gen[s]
    BY DEF Quiet, NoOp
  <2>3. NoneOf(s, "s_fmt") /\ NoneOf(s, "s_ctrl")
    BY <2>2 DEF NoneOf, Of
  <2>4. CodecSoon(s) = codec[s] /\ (Unsent(s) => "nomem" \in past[s])
    BY <2>2 DEF CodecSoon, Waits, Unsent
  <2> QED
    BY <2>1, <2>3, <2>4 DEF Agree
<1> QED
  BY <1>1, InvHolds, PTL

\* The compare and exchange of virtio_video_state_update keeps a late end of stream from hiding an
\* error: only virtio_video_state_reset in open, or the end of the stream, takes one away.
THEOREM ErrorSticksHolds == Spec => ErrorSticks
<1>1. Inv /\ [Next]_vars =>
        [\A s \in Streams : state[s] = "error" => state'[s] = "error" \/ pc[s] = "reset" \/ pc'[s] = "free"]_vars
  <2> SUFFICES ASSUME Inv, [Next]_vars, NEW s \in Streams, state[s] = "error", pc[s] # "reset"
               PROVE  state'[s] = "error" \/ pc'[s] = "free"
    OBVIOUS
  <2>0. CauseInv /\ pc \in [Streams -> Places] /\ state \in [Streams -> {"idle", "stopped", "error"}]
    BY DEF Inv, TypeInv, StreamTypeOK
  <2>1. Frees(s) => pc'[s] = "free"
    BY <2>0 DEF Frees
  <2>2. UpdateExchange => state'[s] = "error"
    BY <2>0, HandledParts DEF UpdateExchange, CauseInv, Inv, TypeInv
  <2> QED
    BY <2>1, <2>2, StateSteps
<1> QED
  BY <1>1, InvHolds, PTL DEF Spec, ErrorSticks
=============================================================================
