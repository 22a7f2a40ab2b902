------------------------- MODULE ExportCacheProofs -------------------------
(* Theorems about ExportCache, for any buffers, ids and limits. *)
EXTENDS ExportCache, FiniteSetTheorems, TLAPS

\* An empty cache has its types.
LEMMA TypeInit == Init => TypeOK
<1> SUFFICES ASSUME Init PROVE TypeOK
  OBVIOUS
<1>1. FlagsOK
  BY Zenon DEF Init, FlagsOK
<1>2. VarsOK
  BY DEF Init, VarsOK
<1>3. LocalsOK
  BY DEF Init, LocalsOK
<1> QED
  BY <1>1, <1>2, <1>3 DEF TypeOK

\* The flags are Boolean.
LEMMA FlagsStep == FlagsOK /\ [Next]_vars => FlagsOK'
<1> SUFFICES ASSUME FlagsOK, [Next]_vars PROVE FlagsOK'
  OBVIOUS
<1> USE DEF FlagsOK, usVars, wkVars, histVars, Return, GoTo
<1>1. ASSUME NEW b \in Bufs, LookupHit(b) \/ LookupMiss(b) PROVE FlagsOK'
  BY <1>1, Zenon DEF LookupHit, LookupMiss
<1>2. CASE ReadId \/ ReadNoId \/ Export \/ ExportFail \/ AllocCheck \/ AddEntry
  BY <1>2, Zenon DEF ReadId, ReadNoId, Export, ExportFail, AllocCheck, AddEntry
<1>3. CASE AllocFail \/ Queue \/ QueueFail \/ PutUnexport \/ PutUnexportFail \/ PutFree
  BY <1>3, Zenon DEF AllocFail, Queue, QueueFail, PutUnexport, PutUnexportFail, PutFree
<1>4. ASSUME NEW t, StopInError(t) \/ StopMeta(t) \/ StreamOff(t) \/ StreamOffFail(t) PROVE FlagsOK'
  BY <1>4, Zenon DEF StopInError, StopMeta, StreamOff, StreamOffFail
<1>5. CASE PutQueueType \/ PutMetaType \/ Wait \/ Destroy
  BY <1>5, Zenon DEF PutQueueType, PutMetaType, Wait, Destroy, UnexportAll
<1>6. CASE Work
  BY <1>6, Zenon DEF Work, ErrorEvent, HandleError, Handle, GiveBack, PutInUse, HandleEnd, Cleanup
<1>7. ASSUME NEW b \in Bufs, BufferDone(b) PROVE FlagsOK'
  BY <1>7, Zenon DEF BufferDone
<1>8. CASE UNCHANGED vars
  BY <1>8, Zenon DEF vars
<1> QED
  BY <1>1, <1>2, <1>3, <1>4, <1>5, <1>6, <1>7, <1>8, Zenon DEF Next, Ioctl

\* What Handle takes from the events on their way.
LEMMA EventTyped ==
  ASSUME VarsOK, events # <<>>
  PROVE  /\ Head(events) \in [id : Ids, erased : SUBSET Ids]
         /\ Tail(events) \in Seq([id : Ids, erased : SUBSET Ids])
<1> DEFINE Event == [id : Ids, erased : SUBSET Ids]
<1>1. events \in Seq(Event)
  BY DEF VarsOK
<1> HIDE DEF Event
<1>2. Head(events) \in Event /\ Tail(events) \in Seq(Event)
  BY <1>1
<1> QED
  BY <1>2 DEF Event

\* What setting and clearing in_use does to an entry.
LEMMA MarkTyped ==
  ASSUME NEW b \in Cached, VarsOK
  PROVE  /\ cache[b] \in Entry
         /\ \A flag \in BOOLEAN : [cache[b] EXCEPT !.in_use = flag] \in Entry
<1>1. cache[b] \in Entry
  BY DEF Cached, VarsOK
<1> QED
  BY <1>1 DEF Entry

\* Ids, entries and events keep their types.
LEMMA VarsStep == TypeOK /\ [Next]_vars => VarsOK'
<1> SUFFICES ASSUME TypeOK, [Next]_vars PROVE VarsOK'
  OBVIOUS
<1> USE DEF TypeOK, VarsOK, LocalsOK, usVars, wkVars, histVars, Return, GoTo
<1>1. ASSUME NEW b \in Bufs, LookupHit(b) \/ LookupMiss(b) PROVE VarsOK'
  <2>1. CASE LookupHit(b)
    <3>1. [cache[b] EXCEPT !.in_use = TRUE] \in Entry
      BY <2>1, MarkTyped DEF LookupHit, Cached
    <3> QED
      BY <2>1, <3>1 DEF LookupHit
  <2>2. CASE LookupMiss(b)
    BY <2>2 DEF LookupMiss
  <2> QED
    BY <1>1, <2>1, <2>2
<1>2. CASE ReadId \/ ReadNoId \/ Export \/ ExportFail \/ AllocCheck \/ AddEntry
  <2>1. CASE AddEntry
    <3>1. [id |-> uid, in_use |-> TRUE] \in Entry
      BY <2>1 DEF AddEntry, Entry
    <3> QED
      BY <2>1, <3>1 DEF AddEntry
  <2>2. CASE ReadId \/ ReadNoId \/ Export \/ ExportFail \/ AllocCheck
    BY <2>2 DEF ReadId, ReadNoId, Export, ExportFail, AllocCheck
  <2> QED
    BY <1>2, <2>1, <2>2
<1>3. CASE AllocFail \/ Queue \/ QueueFail \/ PutUnexport \/ PutUnexportFail \/ PutFree
  BY <1>3 DEF AllocFail, Queue, QueueFail, PutUnexport, PutUnexportFail, PutFree
<1>4. ASSUME NEW t, StopInError(t) \/ StopMeta(t) \/ StreamOff(t) \/ StreamOffFail(t) PROVE VarsOK'
  BY <1>4 DEF StopInError, StopMeta, StreamOff, StreamOffFail, Released
<1>5. CASE PutQueueType \/ PutMetaType \/ Wait \/ Destroy
  BY <1>5 DEF PutQueueType, PutMetaType, Wait, Destroy, UnexportAll, Released
<1>6. CASE Work
  <2>1. CASE ErrorEvent \/ HandleError \/ GiveBack \/ HandleEnd
    BY <2>1 DEF ErrorEvent, HandleError, GiveBack, HandleEnd
  <2>4. CASE PutInUse
    <3>1. ASSUME NEW b \in EntriesOf(wid) PROVE [cache[b] EXCEPT !.in_use = FALSE] \in Entry
      BY <3>1, MarkTyped DEF EntriesOf
    <3> QED
      BY <2>4, <3>1 DEF PutInUse, EntriesOf, Cached
  <2>2. CASE Handle
    BY <2>2, EventTyped DEF Handle
  <2>3. ASSUME NEW id \in Ids, Cleanup(id) PROVE VarsOK'
    BY <2>3 DEF Cleanup
  <2> QED
    BY <1>6, <2>1, <2>2, <2>3, <2>4 DEF Work
<1>7. ASSUME NEW b \in Bufs, BufferDone(b) PROVE VarsOK'
  BY <1>7 DEF BufferDone
<1>8. CASE UNCHANGED vars
  BY <1>8 DEF vars
<1> QED
  BY <1>1, <1>2, <1>3, <1>4, <1>5, <1>6, <1>7, <1>8, Zenon DEF Next, Ioctl

\* Whoever needs a buffer, an id or a queue has one.
LEMMA LocalsStep == TypeOK /\ [Next]_vars => LocalsOK'
<1> SUFFICES ASSUME TypeOK, [Next]_vars PROVE LocalsOK'
  OBVIOUS
<1> USE DEF TypeOK, LocalsOK, usVars, wkVars, histVars, Return, GoTo
<1>1. ASSUME NEW b \in Bufs, LookupHit(b) \/ LookupMiss(b) PROVE LocalsOK'
  BY <1>1 DEF LookupHit, LookupMiss
<1>2. CASE ReadId \/ ReadNoId \/ Export \/ ExportFail \/ AllocCheck \/ AddEntry
  <2>1. CASE ReadId
    BY <2>1 DEF ReadId, VarsOK, Entry
  <2>2. CASE Export
    BY <2>2 DEF Export
  <2>3. CASE ReadNoId \/ ExportFail \/ AllocCheck \/ AddEntry
    BY <2>3 DEF ReadNoId, ExportFail, AllocCheck, AddEntry
  <2> QED
    BY <1>2, <2>1, <2>2, <2>3
<1>3. CASE AllocFail \/ Queue \/ QueueFail \/ PutUnexport \/ PutUnexportFail \/ PutFree
  BY <1>3 DEF AllocFail, Queue, QueueFail, PutUnexport, PutUnexportFail, PutFree
<1>4. ASSUME NEW t \in PlaneTypes, StreamOff(t) \/ StreamOffFail(t) PROVE LocalsOK'
  BY <1>4 DEF StreamOff, StreamOffFail
<1>5. ASSUME NEW t \in Types, StopInError(t) \/ StopMeta(t) PROVE LocalsOK'
  BY <1>5 DEF StopInError, StopMeta
<1>6. CASE PutQueueType \/ PutMetaType \/ Wait \/ Destroy
  BY <1>6 DEF PutQueueType, PutMetaType, Wait, Destroy, Types
<1>7. CASE Work
  <2>1. CASE ErrorEvent \/ HandleError \/ GiveBack \/ PutInUse \/ HandleEnd
    BY <2>1 DEF ErrorEvent, HandleError, GiveBack, PutInUse, HandleEnd
  <2>2. CASE Handle
    <3>1. wid' \in Ids /\ wk' = "done"
      BY <2>2, EventTyped DEF Handle
    <3> QED
      BY <2>2, <3>1 DEF Handle
  <2>3. ASSUME NEW id \in Ids, Cleanup(id) PROVE LocalsOK'
    BY <2>3 DEF Cleanup
  <2> QED
    BY <1>7, <2>1, <2>2, <2>3 DEF Work
<1>8. ASSUME NEW b \in Bufs, BufferDone(b) PROVE LocalsOK'
  BY <1>8 DEF BufferDone
<1>9. CASE UNCHANGED vars
  BY <1>9 DEF vars
<1> QED
  BY <1>1, <1>2, <1>3, <1>4, <1>5, <1>6, <1>7, <1>8, <1>9, Zenon DEF Next, Ioctl

\* Every variable keeps its type, and an ioctl that queues or unexports a buffer has its id.
THEOREM CacheTypeCorrect == Spec => []TypeOK
<1>1. TypeOK /\ [Next]_vars => TypeOK'
  BY FlagsStep, VarsStep, LocalsStep, Zenon DEF TypeOK
<1> QED
  BY <1>1, TypeInit, PTL DEF Spec
-----------------------------------------------------------------------------
(* Which id belongs to which entry.                                        *)

\* The inductive strengthening: msm_buf_get_export_id exports for a buffer without an entry, and
\* its new id is in no entry; msm_buf_put_export_id has unexported the id it is about to free.
FreshInv ==
  /\ us \in {"export", "alloc", "add"} => cache[ub] = None
  /\ us \in {"alloc", "add"} => uid \in exported /\ EntriesOf(uid) = {}
  /\ us = "free" => uid \notin exported

IdsInv == IdsOwnedOnce /\ FreshInv /\ NothingLeaks

\* Steps that only set or clear in_use, or leave the cache alone.
SameIds ==
  /\ Cached' = Cached
  /\ \A b \in Cached : cache'[b].id = cache[b].id

\* A new id is exported and in no entry, an empty cache has none.
LEMMA IdsInit == Init => IdsInv
  BY DEF Init, IdsInv, IdsOwnedOnce, FreshInv, NothingLeaks, Cached, EntriesOf

\* Marking an entry keeps its id.
LEMMA MarkSameIds ==
  ASSUME VarsOK, NEW b \in Cached, NEW flag \in BOOLEAN, cache' = [cache EXCEPT ![b].in_use = flag]
  PROVE  SameIds
<1>1. cache[b] \in Entry /\ [cache[b] EXCEPT !.in_use = flag] \in Entry /\ None \notin Entry
  BY MarkTyped, ExportCacheAssumption
<1>2. [cache[b] EXCEPT !.in_use = flag].id = cache[b].id
  BY <1>1 DEF Entry
<1>3. \A c \in Bufs : cache'[c] = IF c = b THEN [cache[b] EXCEPT !.in_use = flag] ELSE cache[c]
  BY DEF VarsOK
<1>4. [cache[b] EXCEPT !.in_use = flag] # None
  BY <1>1
<1> QED
  BY <1>2, <1>3, <1>4 DEF SameIds, Cached

\* The same entries have the same ids.
LEMMA SameIdsEntries ==
  ASSUME SameIds
  PROVE  \A id : EntriesOf(id)' = EntriesOf(id)
  BY DEF SameIds, EntriesOf

\* A step that keeps ids and exports keeps the invariant, if the ioctl stays out of what the
\* invariant says of it.
LEMMA IdsKept ==
  ASSUME LocalsOK, IdsInv, SameIds, UNCHANGED <<exported, leaked>>,
         \/ UNCHANGED <<us, ub, uid>>
         \/ us \notin {"alloc", "add", "free"} /\ us' \notin {"export", "alloc", "add", "free"}
  PROVE  IdsInv'
<1>1. \A id : EntriesOf(id)' = EntriesOf(id)
  BY SameIdsEntries
<1>2. FreshInv'
  BY <1>1 DEF LocalsOK, IdsInv, FreshInv, SameIds, Cached
<1>3. IdsOwnedOnce'
  BY DEF IdsInv, IdsOwnedOnce, SameIds
<1>4. NothingLeaks'
  BY <1>1 DEF IdsInv, NothingLeaks
<1> QED
  BY <1>2, <1>3, <1>4 DEF IdsInv

\* Unexporting and freeing the entries of some buffers.
LEMMA IdsUnexportAll ==
  ASSUME TypeOK, IdsInv, NEW bs \in SUBSET Cached, UnexportAll(bs),
         us \notin {"alloc", "add", "free"}, us' \notin {"export", "alloc", "add", "free"}
  PROVE  IdsInv'
<1> PICK failed \in SUBSET bs :
      /\ exported' = exported \ {cache[b].id : b \in bs \ failed}
      /\ leaked' = (leaked \/ failed # {})
      /\ cache' = [b \in Bufs |-> IF b \in bs THEN None ELSE cache[b]]
  BY DEF UnexportAll
<1>1. Cached' = Cached \ bs /\ \A b \in Cached' : cache'[b] = cache[b]
  BY DEF Cached
<1>2. FreshInv'
  BY DEF FreshInv
<1>3. \A b \in Cached' : cache[b].id \in exported'
  BY <1>1 DEF IdsInv, IdsOwnedOnce
<1>4. IdsOwnedOnce'
  BY <1>1, <1>3 DEF IdsInv, IdsOwnedOnce
<1>5. ASSUME ~leaked', NEW id \in exported' PROVE EntriesOf(id)' # {}
  <2>1. ~leaked /\ failed = {} /\ id \in exported
    BY <1>5
  <2>2. PICK c \in Cached : cache[c].id = id
    BY <2>1 DEF IdsInv, NothingLeaks, EntriesOf
  <2>3. c \notin bs
    BY <2>1, <2>2, <1>5
  <2> QED
    BY <1>1, <2>2, <2>3 DEF EntriesOf
<1>6. NothingLeaks'
  BY <1>5 DEF NothingLeaks
<1> QED
  BY <1>2, <1>4, <1>6 DEF IdsInv

\* Every step keeps each id in one place.
LEMMA IdsStep == TypeOK /\ IdsInv /\ [Next]_vars => IdsInv'
<1> SUFFICES ASSUME TypeOK, IdsInv, [Next]_vars PROVE IdsInv'
  OBVIOUS
<1> USE DEF usVars, wkVars, histVars, Return, GoTo
<1>a. VarsOK /\ LocalsOK
  BY DEF TypeOK
<1>b. UNCHANGED cache => SameIds
  BY DEF SameIds, Cached
<1>c. None \notin Entry
  BY ExportCacheAssumption
<1>1. ASSUME NEW b \in Bufs, LookupHit(b) PROVE IdsInv'
  <2>1. SameIds
    BY <1>a, <1>1, MarkSameIds DEF LookupHit, Cached
  <2> QED
    BY <1>a, <1>1, <2>1, IdsKept DEF LookupHit
<1>2. ASSUME NEW b \in Bufs, LookupMiss(b) PROVE IdsInv'
  BY <1>2 DEF LookupMiss, IdsInv, IdsOwnedOnce, FreshInv, NothingLeaks, Cached, EntriesOf
<1>3. CASE ReadId \/ ReadNoId \/ ExportFail \/ Queue \/ QueueFail \/ PutUnexportFail
  <2>1. UNCHANGED <<cache, exported, leaked>> /\ us \notin {"alloc", "add", "free"}
        /\ us' \notin {"export", "alloc", "add", "free"}
    BY <1>3 DEF ReadId, ReadNoId, ExportFail, Queue, QueueFail, PutUnexportFail
  <2> QED
    BY <1>a, <1>b, <2>1, IdsKept
<1>4. CASE Export
  <2>1. uid' \notin exported /\ exported' = exported \cup {uid'} /\ UNCHANGED <<cache, ub, leaked>>
        /\ us = "export" /\ us' = "alloc"
    BY <1>4 DEF Export
  <2>2. IdsOwnedOnce'
    BY <2>1 DEF IdsInv, IdsOwnedOnce, Cached
  <2>3. EntriesOf(uid)' = {}
    BY <2>1 DEF IdsInv, IdsOwnedOnce, EntriesOf, Cached
  <2>4. NothingLeaks'
    BY <2>1 DEF IdsInv, NothingLeaks, EntriesOf, Cached
  <2> QED
    BY <2>1, <2>2, <2>3, <2>4 DEF IdsInv, FreshInv
<1>5. CASE AllocCheck
  BY <1>5 DEF AllocCheck, IdsInv, IdsOwnedOnce, FreshInv, NothingLeaks, EntriesOf, Cached
<1>6. CASE AddEntry
  <2>1. uid \in Ids /\ ub \in Bufs /\ us = "add" /\ us' = "queue" /\ UNCHANGED <<exported, leaked>>
    BY <1>6, <1>a DEF AddEntry, LocalsOK
  <2>2. [id |-> uid, in_use |-> TRUE] # None
    <3>1. [id |-> uid, in_use |-> TRUE] \in Entry
      BY <2>1 DEF Entry
    <3> QED
      BY <1>c, <3>1
  <2>3. \A b \in Bufs : cache'[b] = IF b = ub THEN [id |-> uid, in_use |-> TRUE] ELSE cache[b]
    BY <1>6, <1>a, <2>1 DEF AddEntry, VarsOK
  <2>4. Cached' = Cached \cup {ub} /\ ub \notin Cached
    BY <2>1, <2>2, <2>3 DEF Cached, IdsInv, FreshInv
  <2>5. \A b \in Cached : cache'[b] = cache[b] /\ cache[b].id # uid
    BY <2>1, <2>3, <2>4 DEF IdsInv, FreshInv, EntriesOf, Cached
  <2>6. cache'[ub].id = uid /\ uid \in exported
    BY <2>1, <2>3 DEF IdsInv, FreshInv
  <2>7. IdsOwnedOnce'
    BY <2>1, <2>4, <2>5, <2>6 DEF IdsInv, IdsOwnedOnce
  <2>8. NothingLeaks'
    BY <2>1, <2>4, <2>5, <2>6 DEF IdsInv, NothingLeaks, EntriesOf
  <2> QED
    BY <2>1, <2>7, <2>8 DEF IdsInv, FreshInv
<1>7. CASE AllocFail
  <2>1. us \in {"alloc", "add"} /\ us' = "idle" /\ UNCHANGED cache
    BY <1>7 DEF AllocFail
  <2>2. exported \ {uid} \subseteq exported' /\ exported' \subseteq exported
    BY <1>7 DEF AllocFail
  <2>3. IdsOwnedOnce'
    BY <2>1, <2>2 DEF IdsInv, IdsOwnedOnce, FreshInv, EntriesOf, Cached
  <2>4. NothingLeaks'
    BY <1>7, <2>1 DEF AllocFail, IdsInv, NothingLeaks, EntriesOf, Cached
  <2> QED
    BY <2>1, <2>3, <2>4 DEF IdsInv, FreshInv
<1>8. CASE PutUnexport
  <2>1. us = "put" /\ us' = "free" /\ UNCHANGED <<cache, uid, leaked>> /\ exported' = exported \ {uid}
    BY <1>8 DEF PutUnexport
  <2> QED
    BY <2>1 DEF IdsInv, IdsOwnedOnce, FreshInv, NothingLeaks, EntriesOf, Cached
<1>9. CASE PutFree
  <2>1. us = "free" /\ us' = "idle" /\ UNCHANGED <<exported, leaked>>
    BY <1>9 DEF PutFree
  <2>2. CASE EntriesOf(uid) = {} /\ UNCHANGED cache
    BY <2>1, <2>2 DEF IdsInv, IdsOwnedOnce, FreshInv, NothingLeaks, EntriesOf, Cached
  <2>3. ASSUME NEW b \in EntriesOf(uid), cache' = [cache EXCEPT ![b] = None] PROVE IdsInv'
    <3>1. Cached' = Cached \ {b} /\ \A c \in Cached' : cache'[c] = cache[c]
      BY <1>a, <2>3 DEF Cached, EntriesOf, VarsOK
    <3>2. \A c \in Cached' : cache[c].id # uid
      BY <3>1, <2>3 DEF IdsInv, IdsOwnedOnce, EntriesOf
    <3>3. IdsOwnedOnce'
      BY <2>1, <3>1, <3>2 DEF IdsInv, IdsOwnedOnce
    <3>4. \A id \in exported : id # uid
      BY <2>1 DEF IdsInv, FreshInv
    <3>5. NothingLeaks'
      BY <2>1, <2>3, <3>1, <3>4 DEF IdsInv, NothingLeaks, EntriesOf
    <3> QED
      BY <2>1, <3>3, <3>5 DEF IdsInv, FreshInv
  <2> QED
    BY <1>9, <2>2, <2>3 DEF PutFree
<1>10. ASSUME NEW t, StopInError(t) \/ StopMeta(t) \/ StreamOff(t) \/ StreamOffFail(t) \/ Wait PROVE IdsInv'
  <2>1. UNCHANGED <<cache, exported, leaked>> /\ us \notin {"alloc", "add", "free"}
        /\ us' \notin {"export", "alloc", "add", "free"}
    BY <1>10 DEF StopInError, StopMeta, StreamOff, StreamOffFail, Wait
  <2> QED
    BY <1>a, <1>b, <2>1, IdsKept
<1>11. CASE PutQueueType \/ PutMetaType \/ Destroy
  <2>1. us \notin {"alloc", "add", "free"} /\ us' \notin {"export", "alloc", "add", "free"}
    BY <1>11 DEF PutQueueType, PutMetaType, Destroy
  <2>2. PICK bs \in SUBSET Cached : UnexportAll(bs)
    BY <1>11 DEF PutQueueType, PutMetaType, Destroy
  <2> QED
    BY <2>1, <2>2, IdsUnexportAll
<1>12. CASE ErrorEvent \/ HandleError \/ Handle \/ GiveBack \/ HandleEnd
  <2>1. UNCHANGED <<cache, exported, leaked, us, ub, uid>>
    BY <1>12 DEF ErrorEvent, HandleError, Handle, GiveBack, HandleEnd
  <2> QED
    BY <1>a, <1>b, <2>1, IdsKept
<1>13. CASE PutInUse
  <2>1. UNCHANGED <<exported, leaked, us, ub, uid>>
    BY <1>13 DEF PutInUse
  <2>2. SameIds
    BY <1>13, <1>a, <1>b, MarkSameIds DEF PutInUse, EntriesOf
  <2> QED
    BY <1>a, <2>1, <2>2, IdsKept
<1>14. ASSUME NEW id \in Ids, Cleanup(id) PROVE IdsInv'
  <2>1. UNCHANGED <<leaked, us, ub, uid>>
    BY <1>14 DEF Cleanup
  <2>2. CASE UNCHANGED <<cache, exported>>
    BY <1>a, <1>b, <2>1, <2>2, IdsKept
  <2>3. ASSUME NEW b \in EntriesOf(id), id \in exported, exported' = exported \ {id},
               cache' = [cache EXCEPT ![b] = None]
        PROVE  IdsInv'
    <3>1. Cached' = Cached \ {b} /\ \A c \in Cached' : cache'[c] = cache[c]
      BY <1>a, <2>3 DEF Cached, EntriesOf, VarsOK
    <3>2. \A c \in Cached' : cache[c].id # id
      BY <3>1, <2>3 DEF IdsInv, IdsOwnedOnce, EntriesOf
    <3>3. IdsOwnedOnce'
      BY <2>1, <2>3, <3>1, <3>2 DEF IdsInv, IdsOwnedOnce
    <3>4. NothingLeaks'
      BY <2>1, <2>3, <3>1 DEF IdsInv, NothingLeaks, EntriesOf
    <3>5. us \in {"alloc", "add"} => uid # id
      BY <2>3 DEF IdsInv, FreshInv
    <3>6. us \in {"export", "alloc", "add"} => cache'[ub] = None
      BY <1>a, <2>3 DEF IdsInv, FreshInv, LocalsOK, VarsOK, EntriesOf, Cached
    <3>7. us \in {"alloc", "add"} => uid \in exported' /\ EntriesOf(uid)' = {}
      BY <2>1, <2>3, <3>1, <3>5 DEF IdsInv, FreshInv, EntriesOf
    <3> QED
      BY <2>1, <2>3, <3>3, <3>4, <3>6, <3>7 DEF IdsInv, FreshInv
  <2> QED
    BY <1>14, <2>2, <2>3 DEF Cleanup
<1>15. ASSUME NEW b \in Bufs, BufferDone(b) PROVE IdsInv'
  BY <1>a, <1>b, <1>15, IdsKept DEF BufferDone
<1>16. CASE UNCHANGED vars
  BY <1>a, <1>b, <1>16, IdsKept DEF vars
<1> QED
  BY <1>1, <1>2, <1>3, <1>4, <1>5, <1>6, <1>7, <1>8, <1>9, <1>10, <1>11, <1>12, <1>13, <1>14, <1>15,
     <1>16, Zenon DEF Next, Ioctl, Work

\* No id is in two entries, and no entry hands out an id that is not exported, in whatever order
\* lookups, puts, cleanups and stops come.
THEOREM IdsOwnedOnceTheorem == Spec => []IdsOwnedOnce
<1>1. IdsInv => IdsOwnedOnce
  BY DEF IdsInv
<1> QED
  BY <1>1, IdsInit, IdsStep, CacheTypeCorrect, PTL DEF Spec

\* An exported id is never out of reach of an unexport, unless one has failed.
THEOREM NothingLeaksTheorem == Spec => []NothingLeaks
<1>1. IdsInv => NothingLeaks
  BY DEF IdsInv
<1> QED
  BY <1>1, IdsInit, IdsStep, CacheTypeCorrect, PTL DEF Spec
-----------------------------------------------------------------------------
(* What is in use stays exported.                                          *)

\* The entry of the buffer that an ioctl is queueing is not touched by a step that leaves the
\* entry, the ioctl and the history alone.
LEMMA HeldKept ==
  ASSUME EntryHeld, UNCHANGED <<us, ub, uid>>, raced' = raced, cache'[ub] = cache[ub]
  PROVE  EntryHeld'
  BY DEF EntryHeld

\* msm_buf_cleanup_buffers and msm_buf_put_export_id spare the entry, or are told apart by raced.
LEMMA HeldStep == TypeOK /\ EntryHeld /\ [Next]_vars => EntryHeld'
<1> SUFFICES ASSUME TypeOK, EntryHeld, [Next]_vars PROVE EntryHeld'
  OBVIOUS
<1> USE DEF usVars, wkVars, histVars, Return, GoTo
<1>a. VarsOK /\ LocalsOK
  BY DEF TypeOK
<1>c. None \notin Entry
  BY ExportCacheAssumption
<1>1. ASSUME us' \notin {"hit", "queue", "put"} PROVE EntryHeld'
  BY <1>1 DEF EntryHeld
<1>2. ASSUME NEW b \in Bufs, LookupHit(b) PROVE EntryHeld'
  <2>1. cache'[b] = [cache[b] EXCEPT !.in_use = TRUE] /\ us' = "hit" /\ ub' = b
    BY <1>2, <1>a DEF LookupHit, VarsOK
  <2>2. cache[b] \in Entry /\ [cache[b] EXCEPT !.in_use = TRUE] \in Entry
    BY <1>2, <1>a, MarkTyped DEF LookupHit, Cached
  <2>3. [cache[b] EXCEPT !.in_use = TRUE].in_use
    BY <2>2 DEF Entry
  <2>4. cache'[b] # None
    BY <1>c, <2>1, <2>2
  <2> QED
    BY <2>1, <2>3, <2>4 DEF EntryHeld
<1>3. ASSUME NEW b \in Bufs, LookupMiss(b) PROVE EntryHeld'
  BY <1>1, <1>3 DEF LookupMiss
<1>4. CASE ReadNoId \/ Export \/ ExportFail \/ AllocCheck \/ AllocFail \/ Queue \/ PutUnexport
           \/ PutUnexportFail \/ PutFree
  BY <1>1, <1>4 DEF ReadNoId, Export, ExportFail, AllocCheck, AllocFail, Queue, PutUnexport,
     PutUnexportFail, PutFree
<1>5. CASE ReadId
  BY <1>5 DEF ReadId, EntryHeld
<1>6. CASE AddEntry
  <2>1. cache'[ub] = [id |-> uid, in_use |-> TRUE] /\ UNCHANGED <<ub, uid>>
    BY <1>6, <1>a DEF AddEntry, VarsOK, LocalsOK
  <2>2. [id |-> uid, in_use |-> TRUE] \in Entry
    BY <1>6, <1>a DEF AddEntry, LocalsOK, Entry
  <2>3. cache'[ub] # None
    BY <1>c, <2>1, <2>2
  <2> QED
    BY <2>1, <2>3 DEF EntryHeld
<1>7. CASE QueueFail
  BY <1>7 DEF QueueFail, EntryHeld
<1>8. ASSUME NEW t, StopInError(t) \/ StopMeta(t) \/ StreamOff(t) \/ StreamOffFail(t) PROVE EntryHeld'
  BY <1>1, <1>8 DEF StopInError, StopMeta, StreamOff, StreamOffFail
<1>9. CASE PutQueueType \/ PutMetaType \/ Wait \/ Destroy
  BY <1>1, <1>9 DEF PutQueueType, PutMetaType, Wait, Destroy
<1>10. CASE ErrorEvent \/ HandleError \/ Handle \/ HandleEnd
  BY <1>10, HeldKept DEF ErrorEvent, HandleError, Handle, HandleEnd
<1>11. CASE GiveBack
  <2>1. UNCHANGED <<us, ub, uid, cache>>
    BY <1>11 DEF GiveBack
  <2>2. raced => raced'
    BY <1>11, Zenon DEF GiveBack
  <2> QED
    BY <2>1, <2>2 DEF EntryHeld
<1>12. CASE PutInUse
  <2>1. UNCHANGED <<us, ub, uid>>
    BY <1>12 DEF PutInUse
  <2>2. CASE UNCHANGED <<cache, raced>>
    BY <2>1, <2>2, HeldKept
  <2>3. ASSUME NEW b \in EntriesOf(wid), cache' = [cache EXCEPT ![b].in_use = FALSE],
               raced' = (raced \/ InUse(b))
        PROVE  EntryHeld'
    <3>1. CASE b = ub /\ us \in {"hit", "queue", "put"}
      BY <2>1, <2>3, <3>1 DEF EntryHeld, InUse
    <3>2. CASE b # ub
      <4>1. us \in {"hit", "queue", "put"} => cache'[ub] = cache[ub]
        BY <1>a, <2>3, <3>2 DEF VarsOK, LocalsOK
      <4>2. raced => raced'
        BY <2>3, Zenon
      <4> QED
        BY <2>1, <4>1, <4>2 DEF EntryHeld
    <3> QED
      BY <1>1, <2>1, <3>1, <3>2
  <2> QED
    BY <1>12, <2>2, <2>3 DEF PutInUse
<1>13. ASSUME NEW id \in Ids, Cleanup(id) PROVE EntryHeld'
  <2>1. UNCHANGED <<us, ub, uid, raced>>
    BY <1>13 DEF Cleanup
  <2>2. CASE UNCHANGED cache
    BY <2>1, <2>2, HeldKept
  <2>3. ASSUME NEW b \in EntriesOf(id), ~cache[b].in_use, cache' = [cache EXCEPT ![b] = None]
        PROVE  EntryHeld'
    <3>1. ~raced /\ us \in {"hit", "queue", "put"} => cache'[ub] = cache[ub]
      BY <1>a, <2>3 DEF EntryHeld, VarsOK, LocalsOK
    <3> QED
      BY <2>1, <3>1 DEF EntryHeld
  <2> QED
    BY <1>13, <2>2, <2>3 DEF Cleanup
<1>14. ASSUME NEW b \in Bufs, BufferDone(b) PROVE EntryHeld'
  BY <1>14, HeldKept DEF BufferDone
<1>15. CASE UNCHANGED vars
  BY <1>15, HeldKept DEF vars
<1> QED
  BY <1>2, <1>3, <1>4, <1>5, <1>6, <1>7, <1>8, <1>9, <1>10, <1>11, <1>12, <1>13, <1>14, <1>15,
     Zenon DEF Next, Ioctl, Work

\* The entry that get_entry_from_fd returned is there, marked and with the id that is sent, until
\* the work item takes a buffer queued again for the one of its event.
THEOREM EntryHeldTheorem == Spec => []EntryHeld
<1>1. Init => EntryHeld
  BY DEF Init, EntryHeld
<1> QED
  BY <1>1, HeldStep, CacheTypeCorrect, PTL DEF Spec
-----------------------------------------------------------------------------
(* A buffer in use is exported.                                            *)

Quiet == ~raced /\ ~offFailed

\* The inductive strengthening: a buffer that is not with the driver is not with the back end,
\* unless the stream has failed; so neither is one being queued, nor one of a queue that stops.
UseInv ==
  /\ wk = "error" => error
  /\ us \in {"off", "off_meta"} /\ ret => offFailed
  /\ Quiet /\ ~error => \A b \in Bufs : vb[b] = None => bk[b] = None
  /\ Quiet /\ us \in {"hit", "export", "alloc", "add", "queue", "put", "free"} => bk[ub] = None
  /\ Quiet /\ us \in {"off", "off_meta"} => \A b \in OfQueue(ut) : bk[b] = None

\* A buffer in use and its entry.
Backed(b) ==
  /\ bk[b] \in exported
  /\ b \in Cached /\ cache[b].id = bk[b] /\ cache[b].in_use

\* QueuedStaysExported, in these terms.
LEMMA QueuedBacked == QueuedStaysExported <=> (Quiet => \A b \in Bufs : bk[b] # None => Backed(b))
  BY DEF QueuedStaysExported, Quiet, Backed, Cached

\* No step makes the stream quiet again, or takes back an error.
LEMMA NeverQuietAgain ==
  ASSUME TypeOK, [Next]_vars
  PROVE  (Quiet' => Quiet) /\ (error => error')
<1> USE DEF Quiet, usVars, wkVars, histVars, Return, GoTo
<1>1. ASSUME NEW b \in Bufs, LookupHit(b) \/ LookupMiss(b) PROVE (Quiet' => Quiet) /\ (error => error')
  BY <1>1 DEF LookupHit, LookupMiss
<1>2. CASE ReadId \/ ReadNoId \/ Export \/ ExportFail \/ AllocCheck \/ AddEntry
  BY <1>2 DEF ReadId, ReadNoId, Export, ExportFail, AllocCheck, AddEntry
<1>3. CASE AllocFail \/ Queue \/ PutUnexport \/ PutUnexportFail \/ PutFree
  BY <1>3 DEF AllocFail, Queue, PutUnexport, PutUnexportFail, PutFree
<1>4. CASE QueueFail
  <2>1. UNCHANGED <<raced, offFailed>>
    BY <1>4 DEF QueueFail
  <2>2. error' = TRUE \/ error' = error
    BY <1>4 DEF QueueFail
  <2> QED
    BY <2>1, <2>2
<1>5. ASSUME NEW t, StopInError(t) \/ StopMeta(t) \/ StreamOff(t) \/ StreamOffFail(t)
      PROVE  (Quiet' => Quiet) /\ (error => error')
  BY <1>5 DEF StopInError, StopMeta, StreamOff, StreamOffFail
<1>6. CASE PutQueueType \/ PutMetaType \/ Wait \/ Destroy
  BY <1>6 DEF PutQueueType, PutMetaType, Wait, Destroy
<1>7. CASE Work
  <2>1. CASE ErrorEvent \/ HandleError \/ Handle \/ HandleEnd
    BY <2>1 DEF ErrorEvent, HandleError, Handle, HandleEnd
  <2>2. CASE GiveBack \/ PutInUse
    <3>1. UNCHANGED <<error, offFailed>>
      BY <2>2 DEF GiveBack, PutInUse
    <3>2. raced => raced'
      BY <2>2, Zenon DEF GiveBack, PutInUse
    <3> QED
      BY <3>1, <3>2
  <2>3. ASSUME NEW id \in Ids, Cleanup(id) PROVE (Quiet' => Quiet) /\ (error => error')
    BY <2>3 DEF Cleanup
  <2> QED
    BY <1>7, <2>1, <2>2, <2>3, Zenon DEF Work
<1>8. ASSUME NEW b \in Bufs, BufferDone(b) PROVE (Quiet' => Quiet) /\ (error => error')
  BY <1>8 DEF BufferDone
<1>9. CASE UNCHANGED vars
  BY <1>9 DEF vars
<1> QED
  BY <1>1, <1>2, <1>3, <1>4, <1>5, <1>6, <1>7, <1>8, <1>9, Zenon DEF Next, Ioctl

\* Every step keeps the buffers that the ioctl is at work on away from the back end.
LEMMA UseStep == TypeOK /\ UseInv /\ [Next]_vars => UseInv'
<1> SUFFICES ASSUME TypeOK, UseInv, [Next]_vars PROVE UseInv'
  OBVIOUS
<1> USE DEF UseInv, usVars, wkVars, histVars, Return, GoTo
<1>a. VarsOK /\ LocalsOK
  BY DEF TypeOK
<1>b. (Quiet' => Quiet) /\ (error => error')
  BY NeverQuietAgain
<1>1. ASSUME NEW b \in Bufs, LookupHit(b) \/ LookupMiss(b) PROVE UseInv'
  BY <1>1, <1>b DEF LookupHit, LookupMiss, Quiet
<1>2. CASE ReadId \/ ReadNoId \/ Export \/ ExportFail \/ AllocCheck \/ AddEntry
  BY <1>2, <1>b DEF ReadId, ReadNoId, Export, ExportFail, AllocCheck, AddEntry, Quiet
<1>3. CASE AllocFail \/ PutUnexport \/ PutUnexportFail \/ PutFree
  BY <1>3, <1>b DEF AllocFail, PutUnexport, PutUnexportFail, PutFree, Quiet
<1>4. CASE QueueFail
  BY <1>4, <1>b DEF QueueFail, Quiet
<1>5. CASE Queue
  <2>1. ub \in Bufs /\ uid \in Ids /\ uid # None
    BY <1>5, <1>a, ExportCacheAssumption DEF Queue, LocalsOK
  <2>2. \A b \in Bufs : vb'[b] = None => vb[b] = None /\ bk'[b] = bk[b]
    BY <1>5, <1>a, <2>1 DEF Queue, VarsOK
  <2> QED
    BY <1>5, <1>b, <2>2 DEF Queue, Quiet
<1>6. ASSUME NEW t, StopInError(t) \/ StopMeta(t) PROVE UseInv'
  BY <1>6, <1>b DEF StopInError, StopMeta, Quiet
<1>7. ASSUME NEW t, StreamOff(t) \/ StreamOffFail(t) PROVE UseInv'
  BY <1>7, <1>b DEF StreamOff, StreamOffFail, Quiet, OfQueue
<1>8. CASE PutQueueType
  BY <1>8, <1>b DEF PutQueueType, Quiet, OfQueue
<1>9. CASE PutMetaType
  <2>1. /\ UNCHANGED <<bk, error, wk, offFailed, raced>>
        /\ us = "off_meta" /\ us' = "wait"
    BY <1>9 DEF PutMetaType
  <2>2. ~offFailed => UNCHANGED vb
    BY <1>9, Zenon DEF PutMetaType
  <2> QED
    BY <1>b, <2>1, <2>2 DEF Quiet
<1>10. CASE Wait
  BY <1>10, <1>b DEF Wait, Quiet
<1>11. CASE Destroy
  <2>1. Quiet' => \A b \in Bufs : bk'[b] = None
    BY <1>11 DEF Destroy, Quiet
  <2>2. us' = "closed" /\ UNCHANGED <<wk, error>>
    BY <1>11 DEF Destroy
  <2> QED
    BY <2>1, <2>2
<1>12. CASE ErrorEvent \/ HandleError \/ Handle \/ HandleEnd
  BY <1>12, <1>b DEF ErrorEvent, HandleError, Handle, HandleEnd, Quiet, OfQueue
<1>13. CASE GiveBack
  <2>1. UNCHANGED <<bk, error, us, ub, ut, ret, offFailed>> /\ wk' = "put"
    BY <1>13 DEF GiveBack
  <2>2. Quiet' => \A b \in Bufs : vb'[b] = None => vb[b] = None \/ bk[b] = None
    BY <1>13, <1>a DEF GiveBack, VarsOK, Quiet, Pending
  <2> QED
    BY <1>b, <2>1, <2>2 DEF OfQueue
<1>14. CASE PutInUse
  <2>1. UNCHANGED <<vb, bk, error, us, ub, ut, ret, offFailed>> /\ wk' = "cleanup"
    BY <1>14 DEF PutInUse
  <2> QED
    BY <1>b, <2>1 DEF OfQueue
<1>15. ASSUME NEW id \in Ids, Cleanup(id) PROVE UseInv'
  BY <1>15, <1>b DEF Cleanup, Quiet, OfQueue
<1>16. ASSUME NEW b \in Bufs, BufferDone(b) PROVE UseInv'
  <2>1. UNCHANGED <<vb, error, us, ub, ut, ret, wk, offFailed, raced>>
    BY <1>16 DEF BufferDone
  <2>2. \A c : bk[c] = None => bk'[c] = None
    BY <1>16, <1>a DEF BufferDone, VarsOK
  <2> QED
    BY <1>b, <2>1, <2>2 DEF OfQueue
<1>17. CASE UNCHANGED vars
  BY <1>17, <1>b DEF vars, Quiet, OfQueue
<1> QED
  BY <1>1, <1>2, <1>3, <1>4, <1>5, <1>6, <1>7, <1>8, <1>9, <1>10, <1>11, <1>12, <1>13, <1>14, <1>15,
     <1>16, <1>17, Zenon DEF Next, Ioctl, Work

\* A step that leaves the exports, the entry and the use of buffer b alone.
LEMMA BackedKept ==
  ASSUME NEW b \in Bufs, Backed(b), bk'[b] = bk[b], cache'[b] = cache[b],
         exported' = exported \/ \E id : exported' = exported \ {id} /\ id # bk[b]
  PROVE  Backed(b)'
  BY DEF Backed, Cached

\* Unexporting the entries of buffers that are not in use.
LEMMA BackedUnexportAll ==
  ASSUME IdsOwnedOnce, NEW bs \in SUBSET Cached, UnexportAll(bs), UNCHANGED bk,
         NEW b \in Bufs \ bs, Backed(b)
  PROVE  Backed(b)'
<1>1. cache'[b] = cache[b]
  BY DEF UnexportAll
<1>2. \A c \in bs : cache[c].id # bk[b]
  BY DEF Backed, IdsOwnedOnce
<1>3. bk[b] \in exported'
  BY <1>2 DEF UnexportAll, Backed
<1> QED
  BY <1>1, <1>3 DEF Backed, Cached

\* Every step, from a quiet stream to a quiet stream, leaves the buffers in use exported.
LEMMA BackedStep ==
  ASSUME TypeOK, IdsInv, EntryHeld, UseInv, [Next]_vars, Quiet', Quiet,
         \A b \in Bufs : bk[b] # None => Backed(b)
  PROVE  \A b \in Bufs : bk'[b] # None => Backed(b)'
<1> SUFFICES ASSUME NEW b \in Bufs, bk'[b] # None PROVE Backed(b)'
  OBVIOUS
<1> USE DEF usVars, wkVars, histVars, Return, GoTo
<1>a. VarsOK /\ LocalsOK
  BY DEF TypeOK
<1>b. ASSUME UNCHANGED <<exported, cache, bk>> PROVE Backed(b)'
  BY <1>b DEF Backed, Cached
<1>c. IdsOwnedOnce /\ FreshInv
  BY DEF IdsInv
<1>1. ASSUME NEW c \in Bufs, LookupHit(c) PROVE Backed(b)'
  <2>1. Backed(b) /\ UNCHANGED <<bk, exported>>
    BY <1>1 DEF LookupHit
  <2>2. CASE b # c
    BY <1>1, <1>a, <2>1, <2>2, BackedKept DEF LookupHit, VarsOK
  <2>3. CASE b = c
    BY <1>1, <2>1, <2>3 DEF LookupHit, UseInv, Quiet
  <2> QED
    BY <2>2, <2>3
<1>2. ASSUME NEW c \in Bufs, LookupMiss(c) PROVE Backed(b)'
  BY <1>2, <1>b DEF LookupMiss
<1>3. CASE ReadId \/ ReadNoId \/ ExportFail \/ AllocCheck \/ QueueFail \/ PutUnexportFail
  BY <1>3, <1>b DEF ReadId, ReadNoId, ExportFail, AllocCheck, QueueFail, PutUnexportFail
<1>4. CASE Export
  BY <1>4 DEF Export, Backed, Cached
<1>5. CASE AddEntry
  <2>1. b # ub /\ Backed(b) /\ UNCHANGED <<bk, exported>>
    BY <1>5 DEF AddEntry, UseInv
  <2> QED
    BY <1>5, <1>a, <2>1, BackedKept DEF AddEntry, VarsOK
<1>6. CASE AllocFail
  <2>1. Backed(b) /\ UNCHANGED <<bk, cache>>
    BY <1>6 DEF AllocFail
  <2>2. bk[b] # uid
    BY <1>6, <1>c, <2>1 DEF AllocFail, FreshInv, EntriesOf, Backed
  <2> QED
    BY <1>6, <2>1, <2>2, BackedKept DEF AllocFail
<1>7. CASE Queue
  <2>1. CASE b # ub
    BY <1>7, <1>a, <2>1, BackedKept DEF Queue, VarsOK
  <2>2. CASE b = ub
    <3>1. bk'[b] = uid /\ us = "queue" /\ UNCHANGED <<cache, exported>>
      BY <1>7, <1>a, <2>2 DEF Queue, VarsOK
    <3>2. b \in Cached /\ cache[b].id = uid /\ cache[b].in_use
      BY <2>2, <3>1 DEF EntryHeld, Quiet, Cached
    <3>3. uid \in exported
      BY <1>c, <3>1, <3>2 DEF IdsOwnedOnce
    <3> QED
      BY <3>1, <3>2, <3>3 DEF Backed, Cached
  <2> QED
    BY <2>1, <2>2
<1>8. CASE PutUnexport
  <2>1. Backed(b) /\ UNCHANGED <<bk, cache>> /\ exported' = exported \ {uid} /\ us = "put"
    BY <1>8 DEF PutUnexport
  <2>2. b # ub
    BY <1>8, <2>1 DEF PutUnexport, UseInv
  <2>3. ub \in Cached /\ cache[ub].id = uid
    BY <1>a, <2>1 DEF EntryHeld, Quiet, Cached, LocalsOK
  <2>4. bk[b] # uid
    BY <1>c, <2>1, <2>2, <2>3 DEF IdsOwnedOnce, Backed
  <2> QED
    BY <2>1, <2>4, BackedKept
<1>9. CASE PutFree
  <2>1. Backed(b) /\ UNCHANGED <<bk, exported>> /\ uid \notin exported
    BY <1>9, <1>c DEF PutFree, FreshInv
  <2>2. b \notin EntriesOf(uid)
    BY <2>1 DEF Backed, EntriesOf
  <2>3. cache'[b] = cache[b]
    BY <1>9, <1>a, <2>2 DEF PutFree, VarsOK
  <2> QED
    BY <2>1, <2>3, BackedKept
<1>10. ASSUME NEW t, StopInError(t) \/ StopMeta(t) \/ StreamOff(t) \/ StreamOffFail(t) \/ Wait
       PROVE  Backed(b)'
  BY <1>10, <1>b DEF StopInError, StopMeta, StreamOff, StreamOffFail, Wait
<1>11. CASE PutQueueType
  <2> DEFINE bs == {c \in Cached : TypeOf[c] = ut}
  <2>1. UnexportAll(bs) /\ UNCHANGED bk /\ us = "off"
    BY <1>11 DEF PutQueueType
  <2>2. b \notin bs
    BY <2>1 DEF UseInv, OfQueue
  <2> QED
    BY <1>c, <2>1, <2>2, BackedUnexportAll
<1>12. CASE PutMetaType
  <2> DEFINE bs == {c \in Cached : TypeOf[c] = Meta(ut)}
  <2>1. UnexportAll(bs) /\ UNCHANGED bk /\ us = "off_meta" /\ ut \in PlaneTypes
    BY <1>12, <1>a DEF PutMetaType, LocalsOK
  <2>2. b \notin bs
    BY <2>1 DEF UseInv, OfQueue
  <2> QED
    BY <1>c, <2>1, <2>2, BackedUnexportAll
<1>13. CASE Destroy
  BY <1>13 DEF Destroy, Quiet
<1>14. CASE ErrorEvent \/ HandleError \/ Handle \/ GiveBack \/ HandleEnd
  BY <1>14, <1>b DEF ErrorEvent, HandleError, Handle, GiveBack, HandleEnd
<1>15. CASE PutInUse
  <2>1. Backed(b) /\ UNCHANGED <<bk, exported>>
    BY <1>15 DEF PutInUse
  <2>2. CASE UNCHANGED cache
    BY <1>b, <2>1, <2>2
  <2>3. ASSUME NEW c \in EntriesOf(wid), cache' = [cache EXCEPT ![c].in_use = FALSE],
               raced' = (raced \/ InUse(c))
        PROVE  Backed(b)'
    <3>1. b # c
      BY <2>1, <2>3 DEF InUse, Quiet
    <3> QED
      BY <1>a, <2>1, <2>3, <3>1, BackedKept DEF VarsOK
  <2> QED
    BY <1>15, <2>2, <2>3 DEF PutInUse
<1>16. ASSUME NEW id \in Ids, Cleanup(id) PROVE Backed(b)'
  <2>1. Backed(b) /\ UNCHANGED bk
    BY <1>16 DEF Cleanup
  <2>2. CASE UNCHANGED <<exported, cache>>
    BY <1>b, <2>1, <2>2
  <2>3. ASSUME NEW c \in EntriesOf(id), ~cache[c].in_use, exported' = exported \ {id},
               cache' = [cache EXCEPT ![c] = None]
        PROVE  Backed(b)'
    <3>1. b # c
      BY <2>1, <2>3 DEF Backed
    <3>2. id # bk[b]
      BY <1>c, <2>1, <2>3, <3>1 DEF IdsOwnedOnce, EntriesOf, Backed
    <3> QED
      BY <1>a, <2>1, <2>3, <3>1, <3>2, BackedKept DEF VarsOK
  <2> QED
    BY <1>16, <2>2, <2>3 DEF Cleanup
<1>17. ASSUME NEW c \in Bufs, BufferDone(c) PROVE Backed(b)'
  <2>1. b # c /\ bk'[b] = bk[b] /\ UNCHANGED <<exported, cache>>
    BY <1>17, <1>a DEF BufferDone, VarsOK
  <2> QED
    BY <2>1, BackedKept
<1>18. CASE UNCHANGED vars
  BY <1>18, <1>b DEF vars
<1> QED
  BY <1>1, <1>2, <1>3, <1>4, <1>5, <1>6, <1>7, <1>8, <1>9, <1>10, <1>11, <1>12, <1>13, <1>14, <1>15,
     <1>16, <1>17, <1>18, Zenon DEF Next, Ioctl, Work

\* A buffer that the back end uses is exported, with its entry marked, until the work item takes a
\* buffer queued again for the one of its event, or a streamoff fails.
THEOREM QueuedStaysExportedTheorem == Spec => []QueuedStaysExported
<1>1. Init => IdsInv /\ UseInv /\ QueuedStaysExported
  BY IdsInit DEF Init, UseInv, QueuedStaysExported
<1>2. TypeOK /\ IdsInv /\ EntryHeld /\ UseInv /\ QueuedStaysExported /\ [Next]_vars
        => QueuedStaysExported'
  <2> SUFFICES ASSUME TypeOK, IdsInv, EntryHeld, UseInv, QueuedStaysExported, [Next]_vars, Quiet'
               PROVE  \A b \in Bufs : bk'[b] # None => Backed(b)'
    BY DEF QueuedStaysExported, Quiet, Backed, Cached
  <2>1. Quiet
    BY NeverQuietAgain
  <2>2. \A b \in Bufs : bk[b] # None => Backed(b)
    BY <2>1, QueuedBacked
  <2> QED
    BY <2>1, <2>2, BackedStep
<1> QED
  BY <1>1, <1>2, IdsStep, UseStep, CacheTypeCorrect, EntryHeldTheorem, PTL DEF Spec
-----------------------------------------------------------------------------
(* The limit of the cache.                                                 *)

\* The inductive strengthening: an ioctl that has passed the test still has room.
RoomInv ==
  /\ IsFiniteSet(Cached)
  /\ Cardinality(Cached) <= MaxEntries
  /\ us = "add" => Cardinality(Cached) < MaxEntries

\* Entries that go away make room.
LEMMA RoomKept ==
  ASSUME RoomInv, Cached' \subseteq Cached, us' = "add" => us = "add"
  PROVE  RoomInv'
<1>1. IsFiniteSet(Cached') /\ Cardinality(Cached') <= Cardinality(Cached)
  BY FS_Subset DEF RoomInv
<1>2. Cardinality(Cached) \in Nat /\ Cardinality(Cached') \in Nat
  BY <1>1, FS_CardinalityType DEF RoomInv
<1> QED
  BY <1>1, <1>2, ExportCacheAssumption DEF RoomInv

\* Only alloc_one_export_entry takes room, and only after it tested the limit.
LEMMA RoomStep == TypeOK /\ RoomInv /\ [Next]_vars => RoomInv'
<1> SUFFICES ASSUME TypeOK, RoomInv, [Next]_vars PROVE RoomInv'
  OBVIOUS
<1> USE DEF usVars, wkVars, histVars, Return, GoTo
<1>a. VarsOK /\ LocalsOK
  BY DEF TypeOK
<1>b. ASSUME UNCHANGED cache, us' # "add" \/ us' = us PROVE RoomInv'
  BY <1>b, RoomKept DEF Cached
<1>c. ASSUME SameIds, us' # "add" \/ us' = us PROVE RoomInv'
  BY <1>c, RoomKept DEF SameIds
<1>d. ASSUME NEW b \in Cached, cache' = [cache EXCEPT ![b] = None], us' # "add" \/ us' = us PROVE RoomInv'
  BY <1>a, <1>d, RoomKept DEF Cached, VarsOK
<1>1. ASSUME NEW b \in Bufs, LookupHit(b) PROVE RoomInv'
  BY <1>a, <1>1, <1>c, MarkSameIds DEF LookupHit, Cached
<1>2. ASSUME NEW b \in Bufs, LookupMiss(b) PROVE RoomInv'
  BY <1>b, <1>2 DEF LookupMiss
<1>3. CASE ReadId \/ ReadNoId \/ Export \/ ExportFail \/ AllocFail
  BY <1>b, <1>3 DEF ReadId, ReadNoId, Export, ExportFail, AllocFail
<1>4. CASE Queue \/ QueueFail \/ PutUnexport \/ PutUnexportFail
  BY <1>b, <1>4 DEF Queue, QueueFail, PutUnexport, PutUnexportFail
<1>5. CASE AllocCheck
  BY <1>5 DEF AllocCheck, RoomInv, Cached
<1>6. CASE AddEntry
  <2>1. ub \in Bufs /\ us = "add" /\ us' = "queue"
    BY <1>6, <1>a DEF AddEntry, LocalsOK
  <2>2. Cached' \subseteq Cached \cup {ub}
    BY <1>6, <1>a DEF AddEntry, Cached, VarsOK
  <2>3. /\ IsFiniteSet(Cached \cup {ub})
        /\ Cardinality(Cached \cup {ub}) <= Cardinality(Cached) + 1
        /\ Cardinality(Cached) \in Nat
    BY FS_AddElement, FS_CardinalityType DEF RoomInv
  <2>4. IsFiniteSet(Cached') /\ Cardinality(Cached') <= Cardinality(Cached \cup {ub})
    BY <2>2, <2>3, FS_Subset
  <2>5. Cardinality(Cached') \in Nat /\ Cardinality(Cached \cup {ub}) \in Nat
    BY <2>3, <2>4, FS_CardinalityType
  <2> QED
    BY <2>1, <2>3, <2>4, <2>5, ExportCacheAssumption DEF RoomInv
<1>7. CASE PutFree
  BY <1>b, <1>d, <1>7 DEF PutFree, EntriesOf
<1>8. ASSUME NEW t, StopInError(t) \/ StopMeta(t) \/ StreamOff(t) \/ StreamOffFail(t) \/ Wait PROVE RoomInv'
  BY <1>b, <1>8 DEF StopInError, StopMeta, StreamOff, StreamOffFail, Wait
<1>9. CASE PutQueueType \/ PutMetaType \/ Destroy
  <2>1. us' # "add"
    BY <1>9 DEF PutQueueType, PutMetaType, Destroy
  <2>2. PICK bs \in SUBSET Cached : UnexportAll(bs)
    BY <1>9 DEF PutQueueType, PutMetaType, Destroy
  <2>3. Cached' \subseteq Cached
    BY <2>2 DEF UnexportAll, Cached
  <2> QED
    BY <2>1, <2>3, RoomKept
<1>10. CASE ErrorEvent \/ HandleError \/ Handle \/ GiveBack \/ HandleEnd
  BY <1>b, <1>10 DEF ErrorEvent, HandleError, Handle, GiveBack, HandleEnd
<1>11. CASE PutInUse
  BY <1>a, <1>b, <1>c, <1>11, MarkSameIds DEF PutInUse, EntriesOf
<1>12. ASSUME NEW id \in Ids, Cleanup(id) PROVE RoomInv'
  BY <1>b, <1>d, <1>12 DEF Cleanup, EntriesOf
<1>13. ASSUME NEW b \in Bufs, BufferDone(b) PROVE RoomInv'
  BY <1>b, <1>13 DEF BufferDone
<1>14. CASE UNCHANGED vars
  BY <1>b, <1>14 DEF vars
<1> QED
  BY <1>1, <1>2, <1>3, <1>4, <1>5, <1>6, <1>7, <1>8, <1>9, <1>10, <1>11, <1>12, <1>13, <1>14,
     Zenon DEF Next, Ioctl, Work

\* The limit holds although it is tested outside the lock.
THEOREM CacheBoundedTheorem == Spec => []CacheBounded
<1>1. Init => RoomInv
  <2> SUFFICES ASSUME Init PROVE RoomInv
    OBVIOUS
  <2>1. Cached = {} /\ us = "idle"
    BY DEF Init, Cached
  <2> QED
    BY <2>1, FS_EmptySet, ExportCacheAssumption DEF RoomInv
<1>2. RoomInv => CacheBounded
  BY DEF RoomInv, CacheBounded
<1> QED
  BY <1>1, <1>2, RoomStep, CacheTypeCorrect, PTL DEF Spec
=============================================================================
