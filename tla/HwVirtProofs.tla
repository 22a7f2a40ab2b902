---------------------------- MODULE HwVirtProofs ----------------------------
(* Theorems about DriverLoad and HwVirt, for any bounds and any device ids. *)
EXTENDS HwVirt, OperatorLemmas

-----------------------------------------------------------------------------
(* Loading and unloading. *)

\* What nothing in the code returns after the step that failed for device x.
Leftover(x) ==
  (IF failedAt[x] \in {"add", "vvd", "v4l2"} THEN {"cmd", "evt"} ELSE {})
    \cup (IF failedAt[x] = "vbufs" THEN {"cmdbufs", "evtbufs"} ELSE {})

\* Nobody works on device x: it has a driver and all that goes with it, or has returned it all.
Settled(x) ==
  IF x \in bound THEN held[x] = Resources /\ failedAt[x] = "none"
                 ELSE held[x] \subseteq {"dev"} \cup Leftover(x)

\* The steps at which nobody is in the middle of the registration or the removal of device d.
Still == {"driver", "live", "unregister", "undo_driver", "gone"}

\* What the device that is being registered has come to hold, at each step of it.
Climbing ==
  LET h == held[d] \ {"cmd", "evt"}
      both == {"cmd", "evt"} \subseteq held[d]
      all == {"dev", "vvd", "v4l2", "cmdq", "cmdbufs"} IN
  /\ at.step \in {"driver", "alloc"} => held[d] = {} /\ failedAt[d] = "none"
  /\ at.step = "reset_cmd" => held[d] = {"dev"} /\ failedAt[d] = "none"
  /\ at.step = "reset_evt" => held[d] = {"dev", "cmd"} /\ failedAt[d] = "none"
  /\ at.step \in {"add", "vvd"} => h = {"dev"}
  /\ at.step = "v4l2" => h = {"dev", "vvd"}
  /\ at.step = "find_cmd" => h = {"dev", "vvd", "v4l2"}
  /\ at.step = "find_evt" => h = all /\ "cmd" \in held[d]
  /\ at.step \in {"vbufs", "evts", "init"} => both
  /\ at.step = "vbufs" => h = all \cup {"evtq", "evtbufs"}
  /\ at.step = "evts" => h = all \cup {"evtq", "evtbufs", "vbufs"}
  /\ at.step = "init" => h = all \cup {"evtq", "evtbufs", "vbufs", "evts"}
  /\ at.step \in {"add", "vvd", "v4l2", "find_cmd", "find_evt", "vbufs", "evts", "init"} =>
       (both => failedAt[d] = "none")

\* What a device that a ladder takes down still holds, at each label.
Descending ==
  LET queues == {"cmdq", "evtq"} IN
  /\ at.step = "deinit" => held[d] = Resources /\ failedAt[d] = "none"
  /\ at.step = "undo_vbufs" =>
       /\ queues \subseteq held[d] /\ held[d] \subseteq Resources \ {"m2m"}
  /\ at.step = "undo_vqs" =>
       /\ queues \subseteq held[d]
       /\ held[d] \subseteq {"dev", "vvd", "v4l2", "cmd", "evt"} \cup queues \cup Leftover(d)
  /\ at.step = "undo_v4l2" => held[d] \subseteq {"dev", "vvd", "v4l2"} \cup Leftover(d)
  /\ at.step = "undo_vvd" => held[d] \subseteq {"dev", "vvd"} \cup Leftover(d)
  /\ at.step = "probed" =>
       IF "m2m" \in held[d] THEN mode = "loading" /\ held[d] = Resources /\ failedAt[d] = "none"
                            ELSE held[d] \subseteq {"dev"} \cup Leftover(d)

\* How far the module's own ladder is: which devices may have a driver.
Order == 
  /\ mode = "loading" /\ at.step \notin {"live", "gone"} =>
       IF d = "vdec" THEN bound = {} /\ held["venc"] = {} /\ failedAt["venc"] = "none"
                     ELSE "venc" \notin bound
  /\ mode = "failing" => d = "vdec" /\ "venc" \notin bound
  /\ mode = "unloading" /\ d = "venc" => "vdec" \notin bound
  /\ at.step \notin {"live", "unregister"} => d \notin bound
  /\ at.step \in {"undo_driver", "gone"} => bound = {}
  /\ at.step = "driver" => d = "vdec"
  /\ at.step = "gone" => ~driver /\ \A x \in Devices : "dev" \notin held[x]

\* The invariant: each device is settled, but for the one that is worked on.
LoadInv ==
  /\ LoadTypeOK
  /\ \A x \in Devices : x # d \/ at.step \in Still => Settled(x)
  /\ Climbing /\ Descending /\ Order

\* Nothing is held before the module is loaded.
LEMMA LoadInvInit == LoadInit => LoadInv
<1> SUFFICES ASSUME LoadInit PROVE LoadInv
  OBVIOUS
<1> USE DEF LoadInit, d, Devices
<1>1. LoadTypeOK
  BY DEF LoadTypeOK, Steps
<1>2. \A x \in Devices : Settled(x)
  BY DEF Settled
<1>3. Climbing /\ Descending
  BY DEF Climbing, Descending
<1>4. Order
  BY DEF Order
<1> QED
  BY <1>1, <1>2, <1>3, <1>4 DEF LoadInv

\* What a reader is told of the ladders follows from the invariant.
LEMMA LoadInvReturned == LoadInv => AllReturned
<1> SUFFICES ASSUME LoadInv PROVE AllReturned
  OBVIOUS
<1>1. Unwound
  BY DEF LoadInv, Unwound, AtRest, Settled, Leftover, Still, d
<1>2. NothingLeft
  BY DEF LoadInv, LoadTypeOK, NothingLeft, Settled, Leftover, Still, Order, Resources
<1> QED
  BY <1>1, <1>2 DEF AllReturned

\* The steps that register the driver and the devices keep the invariant.
LEMMA RegisterStep == LoadInv /\ (RegisterDriver \/ AllocDev \/ DeviceAdd) => LoadInv'
<1> SUFFICES ASSUME LoadInv, RegisterDriver \/ AllocDev \/ DeviceAdd PROVE LoadInv'
  OBVIOUS
<1> USE DEF LoadInv, LoadTypeOK, RegisterDriver, AllocDev, DeviceAdd, InitFails, Goto, d
<1>1. LoadTypeOK'
  <2>1. CASE RegisterDriver
    BY <2>1 DEF Steps
  <2>2. CASE AllocDev
    <3>1. at' \in [step : Steps, dev : Devices]
      BY <2>2 DEF Steps, Devices
    <3>2. held' \in [Devices -> SUBSET Resources]
      BY <2>2 DEF Resources
    <3> QED
      BY <2>2, <3>1, <3>2
  <2>3. CASE DeviceAdd
    <3>1. at' \in [step : Steps, dev : Devices]
      BY <2>3 DEF Steps, Devices
    <3>2. failedAt' \in [Devices -> Steps \cup {"none"}]
      BY <2>3 DEF Steps
    <3> QED
      BY <2>3, <3>1, <3>2
  <2> QED
    BY <2>1, <2>2, <2>3
<1>2. \A x \in Devices : x # d' \/ at'.step \in Still => Settled(x)'
  BY DEF Settled, Leftover, Still, Order, Climbing, Descending, Devices
<1>3. Climbing'
  <2>1. CASE RegisterDriver
    BY <2>1 DEF Climbing, Order, Devices
  <2>2. CASE AllocDev
    BY <2>2 DEF Climbing, Devices
  <2>3. CASE DeviceAdd
    BY <2>3 DEF Climbing, Devices
  <2> QED
    BY <2>1, <2>2, <2>3
<1>4. Descending'
  BY DEF Climbing, Descending, Settled, Leftover, Still, Resources
<1>5. Order'
  <2>1. CASE RegisterDriver
    BY <2>1 DEF Order, Climbing, Devices
  <2>2. CASE AllocDev
    BY <2>2 DEF Order, Devices
  <2>3. CASE DeviceAdd
    BY <2>3 DEF Order, Devices
  <2> QED
    BY <2>1, <2>2, <2>3
<1> QED
  BY <1>1, <1>2, <1>3, <1>4, <1>5 DEF LoadInv

\* Opening the HAB handles, and the first steps of probe, keep the invariant.
LEMMA ResetStep == LoadInv /\ (ResetCmd \/ ResetEvt \/ ProbeAlloc \/ ProbeV4l2) => LoadInv'
<1> SUFFICES ASSUME LoadInv, ResetCmd \/ ResetEvt \/ ProbeAlloc \/ ProbeV4l2 PROVE LoadInv'
  OBVIOUS
<1> USE DEF LoadInv, LoadTypeOK, ResetCmd, ResetEvt, ProbeAlloc, ProbeV4l2, Try, Goto, d
<1>1. LoadTypeOK'
  BY DEF Steps, Resources, Devices
<1>2. \A x \in Devices : x # d' \/ at'.step \in Still => Settled(x)'
  BY DEF Settled, Leftover, Still, Order, Climbing, Descending, Devices
<1>3. Climbing'
  BY DEF Climbing, Order, Devices
<1>4. Descending'
  BY DEF Climbing, Descending, Settled, Leftover, Still, Resources
<1>5. Order'
  BY DEF Order, Climbing, Descending, Devices
<1> QED
  BY <1>1, <1>2, <1>3, <1>4, <1>5 DEF LoadInv

\* Listing the queues keeps the invariant, the blind end included.
LEMMA FindStep == LoadInv /\ (FindVqs) => LoadInv'
<1> SUFFICES ASSUME LoadInv, FindVqs PROVE LoadInv'
  OBVIOUS
<1> USE DEF LoadInv, LoadTypeOK, FindVqs, FindVq, Goto, d
<1>1. LoadTypeOK'
  BY DEF Steps, Resources, Devices
<1>2. \A x \in Devices : x # d' \/ at'.step \in Still => Settled(x)'
  BY DEF Settled, Leftover, Still, Order, Climbing, Descending, Devices
<1>3. Climbing'
  BY DEF Climbing, Order, Devices
<1>4. Descending'
  BY DEF Climbing, Descending, Settled, Leftover, Still, Resources
<1>5. Order'
  BY DEF Order, Climbing, Descending, Devices
<1> QED
  BY <1>1, <1>2, <1>3, <1>4, <1>5 DEF LoadInv

\* The last steps of probe keep the invariant.
LEMMA AllocStep == LoadInv /\ (AllocVbufs \/ AllocEvents \/ DeviceInit) => LoadInv'
<1> SUFFICES ASSUME LoadInv, AllocVbufs \/ AllocEvents \/ DeviceInit PROVE LoadInv'
  OBVIOUS
<1> USE DEF LoadInv, LoadTypeOK, AllocVbufs, AllocEvents, DeviceInit, Try, Goto, d
<1>1. LoadTypeOK'
  BY DEF Steps, Resources, Devices
<1>2. \A x \in Devices : x # d' \/ at'.step \in Still => Settled(x)'
  BY DEF Settled, Leftover, Still, Order, Climbing, Descending, Devices
<1>3. Climbing'
  BY DEF Climbing, Order, Devices
<1>4. Descending'
  BY DEF Climbing, Descending, Settled, Leftover, Still, Resources
<1>5. Order'
  BY DEF Order, Climbing, Descending, Devices
<1> QED
  BY <1>1, <1>2, <1>3, <1>4, <1>5 DEF LoadInv

\* The labels of the ladder keep the invariant.
LEMMA UndoStep == LoadInv /\ (UndoVbufs \/ UndoVqs \/ UndoV4l2 \/ UndoVvd \/ Deinit) => LoadInv'
<1> SUFFICES ASSUME LoadInv, UndoVbufs \/ UndoVqs \/ UndoV4l2 \/ UndoVvd \/ Deinit PROVE LoadInv'
  OBVIOUS
<1> USE DEF LoadInv, LoadTypeOK, UndoVbufs, UndoVqs, UndoV4l2, UndoVvd, Deinit, Undo, Goto, d
<1>1. LoadTypeOK'
  BY DEF Steps, Resources, Devices
<1>2. \A x \in Devices : x # d' \/ at'.step \in Still => Settled(x)'
  BY DEF Settled, Leftover, Still, Order, Climbing, Descending, Devices
<1>3. Climbing'
  BY DEF Climbing, Order, Devices
<1>4. Descending'
  BY DEF Climbing, Descending, Settled, Leftover, Still, Resources
<1>5. Order'
  BY DEF Order, Climbing, Descending, Devices
<1> QED
  BY <1>1, <1>2, <1>3, <1>4, <1>5 DEF LoadInv

\* The end of a probe or a remove keeps the invariant.
LEMMA ProbedStep == LoadInv /\ (Probed) => LoadInv'
<1> SUFFICES ASSUME LoadInv, Probed PROVE LoadInv'
  OBVIOUS
<1> USE DEF LoadInv, LoadTypeOK, Probed, Goto, d
<1>1. LoadTypeOK'
  BY DEF Steps, Resources, Devices
<1>2. \A x \in Devices : x # d' \/ at'.step \in Still => Settled(x)'
  BY DEF Settled, Leftover, Still, Order, Climbing, Descending, Devices
<1>3. Climbing'
  BY DEF Climbing, Order, Devices
<1>4. Descending'
  BY DEF Climbing, Descending, Settled, Leftover, Still, Resources
<1>5. Order'
  BY DEF Order, Climbing, Descending, Devices
<1> QED
  BY <1>1, <1>2, <1>3, <1>4, <1>5 DEF LoadInv

\* Unloading, and what init undoes after a failure, keep the invariant.
LEMMA LeaveStep == LoadInv /\ (Exit \/ Unregister \/ Gone) => LoadInv'
<1> SUFFICES ASSUME LoadInv, Exit \/ Unregister \/ Gone PROVE LoadInv'
  OBVIOUS
<1> USE DEF LoadInv, LoadTypeOK, Exit, Unregister, Gone, Goto, d
<1>1. LoadTypeOK'
  <2>1. at' \in [step : Steps, dev : Devices]
    BY DEF Steps, Devices
  <2>2. held' \in [Devices -> SUBSET Resources]
    BY DEF Resources
  <2> QED
    BY <2>1, <2>2
<1>2. \A x \in Devices : x # d' \/ at'.step \in Still => Settled(x)'
  BY DEF Settled, Leftover, Still, Order, Climbing, Descending, Devices
<1>3. Climbing'
  BY DEF Climbing, Order, Devices
<1>4. Descending'
  BY DEF Climbing, Descending, Settled, Leftover, Still, Resources
<1>5. Order'
  BY DEF Order, Climbing, Descending, Devices
<1> QED
  BY <1>1, <1>2, <1>3, <1>4, <1>5 DEF LoadInv

\* The invariant is kept by every step of loading, and so is what else the steps leave alone.
LEMMA LoadStep == LoadInv /\ (Load \/ Exit \/ UNCHANGED loadVars) => LoadInv'
<1> SUFFICES ASSUME LoadInv, Load \/ Exit \/ UNCHANGED loadVars PROVE LoadInv'
  OBVIOUS
<1>1. CASE UNCHANGED loadVars
  BY <1>1 DEF loadVars, LoadInv, LoadTypeOK, Settled, Leftover, Climbing, Descending, Order, d
<1> QED
  BY <1>1, RegisterStep, ResetStep, FindStep, AllocStep, UndoStep, ProbedStep, LeaveStep DEF Load

-----------------------------------------------------------------------------
(* The calls of a guest. *)

\* The id that open_gvm gets is free, and no higher than the number of opens.
LEMMA LowestFreeFree ==
  ASSUME NEW n \in Nat, n < MaxOpens + 1, MaxOpens \in Nat, idr \subseteq 1..n
  PROVE  LowestFree \in (1..(n + 1)) \ idr
<1>1. n + 1 \in Ids \ idr
  BY DEF Ids
<1>2. \E i \in Ids \ idr : \A j \in Ids \ idr : i <= j
  <2>1. Ids \ idr \in SUBSET Nat /\ Ids \ idr # {}
    BY <1>1 DEF Ids
  <2> QED
    BY <2>1, LowestExists
<1>3. LowestFree \in Ids \ idr /\ \A j \in Ids \ idr : LowestFree <= j
  BY <1>2 DEF LowestFree
<1> QED
  BY <1>1, <1>3 DEF Ids

\* Ids are given from below: what is in use, or was, is no higher than the number of opens.
IdsBelow ==
  /\ idr \subseteq 1..opens
  /\ gvmId \in 0..opens /\ (api # "idle" => gvmId # 0)
  /\ sessions \subseteq 1..calls

\* A stream that is being opened is in the idr; the back end has not got it before STREAM_CREATE
\* nor keeps it after STREAM_DESTROY, unless it is known to.
CallHasStream ==
  /\ api \in {"create", "open"} => gvmId \in idr /\ ~opened
  /\ api \in {"create", "put"} => gvmId \notin created \/ gvmId \in orphans
  /\ api = "idle" /\ ~opened /\ gvmId \in idr => gvmId \in abandoned

\* The types without those of the events.
GvmTypeOK ==
  /\ api \in {"idle", "create", "open", "destroy", "put"}
  /\ opened \in BOOLEAN
  /\ created \subseteq Ids /\ abandoned \subseteq Ids /\ orphans \subseteq Ids
  /\ opens \in 0..MaxOpens /\ calls \in 0..MaxOpens
  /\ handle \in {0} \cup sessions /\ lost \subseteq sessions

\* The invariant of the calls.
GvmInv == GvmTypeOK /\ IdsBelow /\ CallHasStream /\ StreamsAccounted /\ SessionsNamed

\* A step of open_gvm, close_gvm or open_gvm_session keeps it.
LEMMA GvmStep == GvmInv /\ (Gvm \/ UNCHANGED gvmVars) => GvmInv'
<1> SUFFICES ASSUME GvmInv, Gvm \/ UNCHANGED gvmVars PROVE GvmInv'
  OBVIOUS
<1> USE DEF GvmInv
<1>0. /\ idr \subseteq Ids /\ 0 \notin Ids /\ 0 \notin sessions
      /\ 1..opens \subseteq Ids /\ 1..(opens + 1) \subseteq Ids
      /\ api # "idle" => gvmId \in Ids
      /\ calls \in Nat /\ opens \in Nat /\ MaxOpens \in Nat
  BY BoundsAssumption DEF IdsBelow, GvmTypeOK, Ids
<1>1. CASE OpenStream
  <2>1. /\ opens' = opens + 1 /\ gvmId' = LowestFree /\ idr' = idr \cup {LowestFree}
        /\ api = "idle" /\ api' = "create" /\ ~opened /\ opens < MaxOpens
        /\ UNCHANGED <<opened, handle, created, sessions, calls, abandoned, orphans, lost>>
    BY <1>1 DEF OpenStream
  <2>2. LowestFree \in (1..(opens + 1)) \ idr
    BY <2>1, LowestFreeFree, BoundsAssumption DEF GvmTypeOK, IdsBelow
  <2> HIDE DEF LowestFree
  <2>3. GvmTypeOK'
    BY <1>0, <2>1, <2>2 DEF GvmTypeOK
  <2>4. IdsBelow'
    BY <1>0, <2>1, <2>2 DEF IdsBelow
  <2>5. CallHasStream' /\ StreamsAccounted' /\ SessionsNamed'
    BY <2>1, <2>2 DEF CallHasStream, StreamsAccounted, SessionsNamed
  <2> QED
    BY <2>3, <2>4, <2>5
<1>2. CASE OpenCreate
  <2> USE <1>2 DEF OpenCreate
  <2>1. GvmTypeOK'
    BY <1>0 DEF GvmTypeOK
  <2>2. IdsBelow'
    BY <1>0 DEF GvmTypeOK, IdsBelow, StreamsAccounted
  <2>3. CallHasStream' /\ StreamsAccounted'
    BY DEF CallHasStream, StreamsAccounted, IdsBelow
  <2>4. SessionsNamed'
    BY DEF SessionsNamed
  <2> QED
    BY <2>1, <2>2, <2>3, <2>4
<1>3. CASE OpenGvm
  <2> USE <1>3 DEF OpenGvm
  <2>1. GvmTypeOK'
    BY <1>0 DEF GvmTypeOK
  <2>2. IdsBelow'
    BY <1>0 DEF GvmTypeOK, IdsBelow, StreamsAccounted
  <2>3. CallHasStream' /\ StreamsAccounted'
    BY DEF CallHasStream, StreamsAccounted, IdsBelow
  <2>4. SessionsNamed'
    BY DEF SessionsNamed
  <2> QED
    BY <2>1, <2>2, <2>3, <2>4
<1>4. CASE CloseGvm
  <2> USE <1>4 DEF CloseGvm
  <2>1. GvmTypeOK'
    BY <1>0 DEF GvmTypeOK
  <2>2. IdsBelow'
    BY <1>0 DEF GvmTypeOK, IdsBelow, StreamsAccounted
  <2>3. CallHasStream' /\ StreamsAccounted'
    BY DEF CallHasStream, StreamsAccounted, IdsBelow
  <2>4. SessionsNamed'
    BY DEF SessionsNamed
  <2> QED
    BY <2>1, <2>2, <2>3, <2>4
<1>5. CASE CloseDestroy
  <2> USE <1>5 DEF CloseDestroy
  <2>1. GvmTypeOK'
    BY <1>0 DEF GvmTypeOK
  <2>2. IdsBelow'
    BY <1>0 DEF GvmTypeOK, IdsBelow, StreamsAccounted
  <2>3. CallHasStream' /\ StreamsAccounted'
    BY DEF CallHasStream, StreamsAccounted, IdsBelow
  <2>4. SessionsNamed'
    BY DEF SessionsNamed
  <2> QED
    BY <2>1, <2>2, <2>3, <2>4
<1>6. CASE ClosePut
  <2> USE <1>6 DEF ClosePut
  <2>1. GvmTypeOK'
    BY <1>0 DEF GvmTypeOK
  <2>2. IdsBelow'
    BY <1>0 DEF GvmTypeOK, IdsBelow, StreamsAccounted
  <2>3. CallHasStream' /\ StreamsAccounted'
    BY DEF CallHasStream, StreamsAccounted, IdsBelow
  <2>4. SessionsNamed'
    BY DEF SessionsNamed
  <2> QED
    BY <2>1, <2>2, <2>3, <2>4
<1>7. CASE OpenSession
  <2>1. /\ handle = 0 /\ calls' = calls + 1 /\ calls < MaxOpens
        /\ UNCHANGED <<api, opened, gvmId, idr, created, opens, abandoned, orphans>>
    BY <1>7 DEF OpenSession
  <2>2. \/ UNCHANGED <<handle, sessions, lost>>
        \/ sessions' = sessions \cup {calls'} /\ handle' = calls' /\ UNCHANGED lost
        \/ sessions' = sessions \cup {calls'} /\ lost' = lost \cup {calls'} /\ UNCHANGED handle
    BY <1>7 DEF OpenSession
  <2>3. calls' \in 1..MaxOpens
    BY <2>1, BoundsAssumption DEF GvmTypeOK
  <2>4. GvmTypeOK'
    BY <2>1, <2>2, <2>3 DEF GvmTypeOK
  <2>5. IdsBelow'
    <3>1. 1..calls \subseteq 1..calls' /\ calls' \in 1..calls'
      BY <1>0, <2>1
    <3>2. sessions' \subseteq 1..calls'
      BY <2>2, <3>1 DEF IdsBelow
    <3> QED
      BY <2>1, <3>2 DEF IdsBelow
  <2>6. CallHasStream' /\ StreamsAccounted'
    BY <2>1 DEF CallHasStream, StreamsAccounted
  <2>7. SessionsNamed'
    BY <1>0, <2>1, <2>2 DEF SessionsNamed
  <2> QED
    BY <2>4, <2>5, <2>6, <2>7
<1>8. CASE UNCHANGED gvmVars
  BY <1>8 DEF gvmVars, GvmTypeOK, IdsBelow, CallHasStream, StreamsAccounted, SessionsNamed
<1> QED
  BY <1>1, <1>2, <1>3, <1>4, <1>5, <1>6, <1>7, <1>8 DEF Gvm

-----------------------------------------------------------------------------
(* SSR events. *)

Event == [dev : DeviceIds, n : Nat]

\* The types of the events and their bound.
SsrTypeOK ==
  /\ pending \in Seq(Event) /\ added \in Seq(Event) /\ got \in Seq(Event)
  /\ waking \in BOOLEAN /\ waiter \in {"idle", "check", "asleep", "pop", "del"}
  /\ Len(added) <= MaxEvents

\* The waiter is about to unlink the event it has looked at: it is still the first one.
TakenFirst == waiter = "del" => pending # <<>> /\ taken = Head(pending)

SsrInv == SsrTypeOK /\ TakenFirst /\ SsrInOrder

\* Of a list whose first event is e, the first event about e's device is the first.
LEMMA FirstAlikeHead ==
  ASSUME pending \in Seq(Event), pending # <<>>
  PROVE  FirstAlike(Head(pending)) = 1
<1> DEFINE I == {i \in 1..Len(pending) : pending[i].dev = Head(pending).dev}
<1>1. 1 \in I /\ \A i \in I : 1 <= i
  OBVIOUS
<1>2. \A m \in I : (\A i \in I : m <= i) => m = 1
  BY <1>1
<1>3. Min(I) = 1
  BY <1>1, <1>2 DEF Min
<1>4. FirstAlike(Head(pending)) = IF I # {} THEN Min(I) ELSE 0
  BY DEF FirstAlike, SelectInSeq
<1> QED
  BY <1>1, <1>3, <1>4

\* Without its first element a list is its tail.
LEMMA RemoveAtFirst ==
  ASSUME NEW S, NEW seq \in Seq(S), seq # <<>>
  PROVE  RemoveAt(seq, 1) = Tail(seq)
<1>1. Tail(seq) = SubSeq(seq, 2, Len(seq)) /\ Tail(seq) \in Seq(S)
  BY TailIsSubSeq, HeadTailProperties
<1>2. SubSeq(seq, 1, 0) = <<>>
  BY SubSeqEmpty
<1>3. <<>> \o Tail(seq) = Tail(seq)
  BY <1>1, ConcatEmptySeq
<1> QED
  BY <1>1, <1>2, <1>3 DEF RemoveAt

\* A step of the work item or of the waiter keeps the order.
LEMMA SsrStep == SsrInv /\ (Ssr \/ UNCHANGED ssrVars) => SsrInv'
<1> SUFFICES ASSUME SsrInv, Ssr \/ UNCHANGED ssrVars PROVE SsrInv'
  OBVIOUS
<1> USE DEF SsrInv, SsrTypeOK, TakenFirst, SsrInOrder
<1>1. CASE WorkAdd
  <2>1. PICK dev \in DeviceIds :
          /\ pending' = Append(pending, [dev |-> dev, n |-> Len(added) + 1])
          /\ added' = Append(added, [dev |-> dev, n |-> Len(added) + 1])
    BY <1>1 DEF WorkAdd
  <2> DEFINE e == [dev |-> dev, n |-> Len(added) + 1]
  <2>2. e \in Event
    BY DEF Event
  <2>3. /\ pending' = Append(pending, e) /\ added' = Append(added, e)
        /\ UNCHANGED <<waiter, taken, got>> /\ waking' = TRUE
        /\ Len(added) < MaxEvents
    BY <1>1, <2>1 DEF WorkAdd
  <2> HIDE DEF e
  <2>4. SsrTypeOK'
    BY <2>2, <2>3, BoundsAssumption
  <2>5. TakenFirst'
    BY <2>2, <2>3, HeadTailAppend, AppendProperties
  <2>6. SsrInOrder'
    <3>1. got \o Append(pending, e) = Append(got \o pending, e)
      <4>1. pending \in Seq(Event) /\ got \in Seq(Event)
        OBVIOUS
      <4> HIDE DEF SsrInv, SsrTypeOK, TakenFirst, SsrInOrder
      <4> QED
        BY <2>2, <4>1, AppendToSecond
    <3> QED
      BY <2>3, <3>1
  <2> QED
    BY <2>4, <2>5, <2>6
<1>2. CASE WorkWake \/ WaitCall \/ WaitCheck
  BY <1>2 DEF WorkWake, WaitCall, WaitCheck
<1>3. CASE WaitPop
  BY <1>3 DEF WaitPop
<1>4. CASE WaitDel
  <2>1. /\ pending' = Tail(pending) /\ got' = Append(got, Head(pending))
        /\ waiter' = "idle" /\ UNCHANGED <<waking, taken, added>> /\ pending # <<>>
    <3>1. waiter = "del" /\ pending # <<>> /\ taken = Head(pending)
      BY <1>4 DEF WaitDel
    <3>2. FirstAlike(taken) = 1
      BY <3>1, FirstAlikeHead
    <3> QED
      BY <1>4, <3>1, <3>2, RemoveAtFirst DEF WaitDel
  <2>2. Head(pending) \in Event /\ Tail(pending) \in Seq(Event)
    BY <2>1, HeadTailProperties
  <2>3. SsrTypeOK' /\ TakenFirst'
    BY <2>1, <2>2, AppendProperties
  <2>4. SsrInOrder'
    BY <2>1, MoveHead
  <2> QED
    BY <2>3, <2>4
<1>5. CASE UNCHANGED ssrVars
  BY <1>5 DEF ssrVars
<1> QED
  BY <1>1, <1>2, <1>3, <1>4, <1>5 DEF Ssr, Work, Waiter

-----------------------------------------------------------------------------
(* The module as a whole. *)

Inv == LoadInv /\ GvmInv /\ SsrInv

\* The loaded module begins with no call, no stream and no event.
LEMMA InvInit == Init => Inv
<1> SUFFICES ASSUME Init PROVE Inv
  OBVIOUS
<1>1. LoadInv
  BY LoadInvInit DEF Init
<1>2. GvmTypeOK /\ IdsBelow
  <2>1. 0 \in 0..MaxOpens
    BY BoundsAssumption
  <2>2. GvmTypeOK
    BY <2>1 DEF Init, GvmTypeOK
  <2>3. IdsBelow
    BY DEF Init, IdsBelow
  <2> QED
    BY <2>2, <2>3
<1>3. CallHasStream /\ StreamsAccounted /\ SessionsNamed
  BY DEF Init, CallHasStream, StreamsAccounted, SessionsNamed
<1>4. SsrTypeOK
  <2>1. <<>> \in Seq(Event) /\ Len(<<>>) <= MaxEvents
    BY BoundsAssumption
  <2> QED
    BY <2>1, Zenon DEF Init, SsrTypeOK
<1>5. TakenFirst /\ SsrInOrder
  <2>1. <<>> \in Seq(Event)
    OBVIOUS
  <2>2. <<>> \o <<>> = <<>>
    BY <2>1, ConcatEmptySeq
  <2> QED
    BY <2>2 DEF Init, TakenFirst, SsrInOrder
<1> QED
  BY <1>1, <1>2, <1>3, <1>4, <1>5 DEF Inv, GvmInv, SsrInv

\* Every step keeps the invariants of the three parts, which share no variable.
LEMMA InvStep == Inv /\ [Next]_vars => Inv'
BY LoadStep, GvmStep, SsrStep DEF Inv, Next, Unload, vars, loadVars, gvmVars, ssrVars

\* The invariant holds in every state.
THEOREM InvHolds == Spec => []Inv
BY InvInit, InvStep, PTL DEF Spec

\* Whatever step of loading fails, and whenever the module is unloaded, what was acquired is
\* returned, but for what nothing in the code returns (the ladders of probe and init, and remove).
THEOREM AllReturnedHolds == Spec => []AllReturned
<1>1. Inv => AllReturned
  BY LoadInvReturned DEF Inv
<1> QED
  BY <1>1, InvHolds, PTL

\* However often open_gvm, close_gvm and open_gvm_session are called and fail, the streams of the
\* idr and of the back end, and its sessions, stay accounted for.
THEOREM AccountedHolds == Spec => []Accounted
<1>1. Inv => Accounted
  <2> SUFFICES ASSUME Inv PROVE TypeOK
    BY DEF Inv, GvmInv, Accounted
  <2>1. gvmId \in Ids \cup {0} /\ idr \subseteq Ids /\ sessions \subseteq 1..MaxOpens
    BY BoundsAssumption DEF Inv, GvmInv, GvmTypeOK, IdsBelow, Ids
  <2> QED
    BY <2>1 DEF Inv, LoadInv, GvmInv, GvmTypeOK, SsrInv, SsrTypeOK, TypeOK
<1> QED
  BY <1>1, InvHolds, PTL

\* The waiter returns the SSR events in the order in which the work item queued them, each once,
\* although it unlinks the first one of its device and not the one it looked at.
THEOREM SsrInOrderHolds == Spec => []SsrInOrder
<1>1. Inv => SsrInOrder
  BY DEF Inv, SsrInv
<1> QED
  BY <1>1, InvHolds, PTL
=============================================================================
