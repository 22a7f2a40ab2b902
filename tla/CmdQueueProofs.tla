--------------------------- MODULE CmdQueueProofs ---------------------------
EXTENDS CmdQueue, SequenceTheorems, FiniteSetTheorems, TLAPS

\* What virtio_video_probe leaves behind has its types.
LEMMA TypeInit == Init => TypeOK
<1> SUFFICES ASSUME Init PROVE TypeOK
  OBVIOUS
<1>1. FlagsOK
  BY Zenon DEF Init, FlagsOK
<1> QED
  BY <1>1, CmdQueueAssumption DEF Init, TypeOK, NoId

\* Every step keeps the flags and the completions Boolean.
LEMMA FlagsStep == FlagsOK /\ [Next]_vars => FlagsOK'
<1> SUFFICES ASSUME FlagsOK, [Next]_vars PROVE FlagsOK'
  OBVIOUS
<1> USE DEF FlagsOK, vars, callerVars, memVars, hvqVars, rtVars
<1>1. ASSUME NEW c \in Callers, Alloc(c) PROVE FlagsOK'
  BY <1>1, Zenon DEF Alloc, GoTo
<1>2. ASSUME NEW c \in Callers, CheckReady(c) PROVE FlagsOK'
  BY <1>2, Zenon DEF CheckReady, GoTo, Return
<1>3. ASSUME NEW c \in Callers, Enqueue(c) PROVE FlagsOK'
  BY <1>3, Zenon DEF Enqueue, GoTo, Acquire, AddSgs
<1>4. ASSUME NEW c \in Callers, KickTake(c) PROVE FlagsOK'
  BY <1>4, Zenon DEF KickTake, GoTo, UnattachVbuf
<1>5. ASSUME NEW c \in Callers, KickFail(c) PROVE FlagsOK'
  BY <1>5, Zenon DEF KickFail, Return
<1>6. ASSUME NEW c \in Callers, Send(c) PROVE FlagsOK'
  BY <1>6, Zenon DEF Send, GoTo
<1>7. ASSUME NEW c \in Callers, SendFail(c) PROVE FlagsOK'
  BY <1>7, Zenon DEF SendFail, GoTo
<1>8. ASSUME NEW c \in Callers, Relock(c) PROVE FlagsOK'
  BY <1>8, Zenon DEF Relock, GoTo, LockFree, Return
<1>9. ASSUME NEW c \in Callers, Completed(c) PROVE FlagsOK'
  BY <1>9, Zenon DEF Completed, GoTo
<1>10. ASSUME NEW c \in Callers, Timeout(c) PROVE FlagsOK'
  BY <1>10, Zenon DEF Timeout, GoTo
<1>11. ASSUME NEW c \in Callers, Reclaim(c) PROVE FlagsOK'
  BY <1>11, Zenon DEF Reclaim, LockFree, FreeVbuf, Return
<1>12. CASE Recv
  BY <1>12, Zenon DEF Recv, RtGoTo
<1>13. CASE RecvError
  BY <1>13, Zenon DEF RecvError, RtGoTo
<1>14. CASE RecvClosed
  BY <1>14, Zenon DEF RecvClosed, RtGoTo
<1>15. CASE MatchFound
  BY <1>15, Zenon DEF MatchFound, LockFree, AttachResp, RtGoTo, IsFirst, Candidates
<1>16. CASE MatchNone
  BY <1>16, Zenon DEF MatchNone, LockFree, RtGoTo
<1>17. CASE CmdCbEnter
  BY <1>17, Zenon DEF CmdCbEnter, LockFree, Acquire, RtGoTo
<1>18. CASE CmdCbGet
  BY <1>18, Zenon DEF CmdCbGet, UnattachResp, FreeVbuf
<1>19. CASE CmdCbLeave
  BY <1>19, Zenon DEF CmdCbLeave, RtGoTo
<1>20. CASE Break
  BY <1>20, Zenon DEF Break, RtGoTo
<1>21. CASE ErrorLoop
  BY <1>21, Zenon DEF ErrorLoop
<1>22. CASE SelfStop
  BY <1>22, Zenon DEF SelfStop, RtGoTo
<1>23. CASE EvtClose
  BY <1>23, Zenon DEF EvtClose
<1>24. CASE EvtStopped
  BY <1>24, Zenon DEF EvtStopped
<1>25. CASE Deinit
  BY <1>25, Zenon DEF Deinit
<1>26. CASE FreeVbufs
  BY <1>26, Zenon DEF FreeVbufs, UnattachVbuf, UnattachResp, FreeVbuf
<1>27. CASE FreeVbufsEnd
  BY <1>27, Zenon DEF FreeVbufsEnd
<1>28. CASE DelVqs
  BY <1>28, Zenon DEF DelVqs
<1>29. CASE Stopped
  BY <1>29, Zenon DEF Stopped
<1>30. CASE UNCHANGED vars
  BY <1>30, Zenon
<1> QED
  BY <1>1, <1>2, <1>3, <1>4, <1>5, <1>6, <1>7, <1>8, <1>9, <1>10, <1>11, <1>12, <1>13, <1>14, <1>15, <1>16, <1>17, <1>18, <1>19, <1>20, <1>21, <1>22, <1>23, <1>24, <1>25, <1>26, <1>27, <1>28, <1>29, <1>30 DEF Next, RunningNext, Caller, Responder, Teardown

(* What the list operations do to the types of the lists.                  *)

Lists == unused \in Nat /\ vbuf_list \in Seq(Slots) /\ resp_list \in Seq(Slots)

\* unattach_buf_from_vq_buf keeps the types of the lists.
LEMMA UnattachTypes == Lists /\ (UnattachVbuf \/ UnattachResp) => Lists'
<1>1. Lists /\ UnattachVbuf => Lists'
  BY DEF Lists, UnattachVbuf
<1>2. Lists /\ UnattachResp => Lists'
  BY DEF Lists, UnattachResp
<1> QED
  BY <1>1, <1>2

\* attach_buf_to_vq_buf on resp_list keeps the types of the lists.
LEMMA AttachTypes == ASSUME NEW s \in Slots, Lists, AttachResp(s) PROVE Lists'
<1>1. CASE UNCHANGED hvqVars
  BY <1>1 DEF Lists, hvqVars
<1>2. CASE /\ unused > 0
           /\ unused' = unused - 1
           /\ resp_list' = Append(resp_list, s)
           /\ UNCHANGED vbuf_list
  BY <1>2 DEF Lists
<1> QED
  BY <1>1, <1>2, Zenon DEF AttachResp

\* msm_hab_virtqueue_add_sgs keeps the types of the lists.
LEMMA AddSgsTypes == ASSUME NEW s \in Slots, NEW r, Lists, AddSgs(s, r) PROVE Lists'
<1>1. CASE UNCHANGED hvqVars
  BY <1>1 DEF Lists, hvqVars
<1>2. CASE /\ unused > 0
           /\ unused' = unused - 1
           /\ vbuf_list' = Append(vbuf_list, s)
           /\ UNCHANGED resp_list
  BY <1>2 DEF Lists
<1> QED
  BY <1>1, <1>2, Zenon DEF AddSgs

\* Every step of callers, response thread and teardown keeps the types.
LEMMA TypeStep == TypeOK /\ [Next]_vars => TypeOK'
<1>a. FlagsOK /\ [Next]_vars => FlagsOK'
  BY FlagsStep
<1> SUFFICES ASSUME TypeOK, [Next]_vars PROVE TypeOK'
  OBVIOUS
<1> USE CmdQueueAssumption DEF TypeOK, Answers, NoId, vars, callerVars, memVars, hvqVars, rtVars
<1>1. ASSUME NEW c \in Callers, Alloc(c) PROVE TypeOK'
  BY <1>1, <1>a DEF Alloc, GoTo
<1>2. ASSUME NEW c \in Callers, CheckReady(c) PROVE TypeOK'
  <2>1. CASE GoTo(c, "enqueue") /\ UNCHANGED <<call, vbuf, sending, ret>>
    BY <1>2, <2>1, <1>a DEF CheckReady, GoTo
  <2>2. CASE Return(c, "ENODEV")
    BY <1>2, <2>2, <1>a DEF CheckReady, Return
  <2> QED
    BY <1>2, <2>1, <2>2, Zenon DEF CheckReady
<1>3. ASSUME NEW c \in Callers, Enqueue(c) PROVE TypeOK'
  <2>1. vbuf[c] \in Slots
    BY <1>3 DEF Enqueue
  <2>2. PICK r \in {"ok", "EIO", "ENOMEM"} : AddSgs(vbuf[c], r) /\ ret' = [ret EXCEPT ![c] = r]
    BY <1>3, Zenon DEF Enqueue
  <2>3. unused' \in Nat /\ vbuf_list' \in Seq(Slots) /\ resp_list' \in Seq(Slots)
    BY <2>1, <2>2, AddSgsTypes, Zenon DEF Lists
  <2>4. ret' \in [Callers -> {"ok", "ENODEV", "EIO", "ENOMEM", "ETIMEDOUT"}]
    BY <2>2
  <2> QED
    BY <1>3, <2>1, <2>3, <2>4, <1>a DEF Enqueue, GoTo, Acquire
<1>4. ASSUME NEW c \in Callers, KickTake(c) PROVE TypeOK'
  BY <1>4, <1>a DEF KickTake, GoTo, UnattachVbuf
<1>5. ASSUME NEW c \in Callers, KickFail(c) PROVE TypeOK'
  BY <1>5, <1>a DEF KickFail, Return
<1>6. ASSUME NEW c \in Callers, Send(c) PROVE TypeOK'
  BY <1>6, <1>a DEF Send, GoTo
<1>7. ASSUME NEW c \in Callers, SendFail(c) PROVE TypeOK'
  BY <1>7, <1>a DEF SendFail, GoTo
<1>8. ASSUME NEW c \in Callers, Relock(c) PROVE TypeOK'
  <2>1. CASE GoTo(c, "wait") /\ UNCHANGED <<call, vbuf, sending, ret>>
    BY <1>8, <2>1, <1>a DEF Relock, GoTo, LockFree
  <2>2. CASE Return(c, ret[c])
    BY <1>8, <2>2, <1>a DEF Relock, Return, LockFree
  <2> QED
    BY <1>8, <2>1, <2>2, Zenon DEF Relock
<1>9. ASSUME NEW c \in Callers, Completed(c) PROVE TypeOK'
  BY <1>9, <1>a DEF Completed, GoTo
<1>10. ASSUME NEW c \in Callers, Timeout(c) PROVE TypeOK'
  BY <1>10, <1>a DEF Timeout, GoTo
<1>11. ASSUME NEW c \in Callers, Reclaim(c) PROVE TypeOK'
  BY <1>11, <1>a DEF Reclaim, LockFree, FreeVbuf, Return
<1>12. CASE Recv
  BY <1>12, <1>a DEF Recv, RtGoTo
<1>13. CASE RecvError
  BY <1>13, <1>a DEF RecvError, RtGoTo
<1>14. CASE RecvClosed
  BY <1>14, <1>a DEF RecvClosed, RtGoTo
<1>15. CASE MatchFound
  <2>1. PICK f \in Slots : resp' = [resp EXCEPT ![f] = rmsg.id] /\ AttachResp(f)
    BY <1>15, Zenon DEF MatchFound
  <2>2. unused' \in Nat /\ vbuf_list' \in Seq(Slots) /\ resp_list' \in Seq(Slots)
    BY <2>1, AttachTypes, Zenon DEF Lists
  <2>3. resp' \in [Slots -> Int]
    BY <1>15, <2>1 DEF MatchFound
  <2> QED
    BY <1>15, <2>2, <2>3, <1>a DEF MatchFound, LockFree, RtGoTo
<1>16. CASE MatchNone
  BY <1>16, <1>a DEF MatchNone, LockFree, RtGoTo
<1>17. CASE CmdCbEnter
  BY <1>17, <1>a DEF CmdCbEnter, LockFree, Acquire, RtGoTo
<1>18. CASE CmdCbGet
  BY <1>18, <1>a DEF CmdCbGet, UnattachResp, FreeVbuf
<1>19. CASE CmdCbLeave
  BY <1>19, <1>a DEF CmdCbLeave, RtGoTo
<1>20. CASE Break
  BY <1>20, <1>a DEF Break, RtGoTo
<1>21. CASE ErrorLoop
  BY <1>21, <1>a DEF ErrorLoop
<1>22. CASE SelfStop
  BY <1>22, <1>a DEF SelfStop, RtGoTo
<1>23. CASE EvtClose
  BY <1>23, <1>a DEF EvtClose
<1>24. CASE EvtStopped
  BY <1>24, <1>a DEF EvtStopped
<1>25. CASE Deinit
  BY <1>25, <1>a DEF Deinit
<1>26. CASE FreeVbufs
  <2>1. UnattachVbuf \/ UnattachResp
    BY <1>26, Zenon DEF FreeVbufs
  <2>2. unused' \in Nat /\ vbuf_list' \in Seq(Slots) /\ resp_list' \in Seq(Slots)
    BY <2>1, UnattachTypes, Zenon DEF Lists
  <2>3. pending' \subseteq Slots /\ live' \subseteq Slots
    BY <1>26 DEF FreeVbufs, FreeVbuf
  <2> QED
    BY <1>26, <2>2, <2>3, <1>a DEF FreeVbufs
<1>27. CASE FreeVbufsEnd
  BY <1>27, <1>a DEF FreeVbufsEnd
<1>28. CASE DelVqs
  BY <1>28, <1>a DEF DelVqs
<1>29. CASE Stopped
  BY <1>29, <1>a DEF Stopped
<1>30. CASE UNCHANGED vars
  BY <1>30, <1>a
<1> QED
  BY <1>1, <1>2, <1>3, <1>4, <1>5, <1>6, <1>7, <1>8, <1>9, <1>10, <1>11, <1>12, <1>13, <1>14, <1>15, <1>16, <1>17, <1>18, <1>19, <1>20, <1>21, <1>22, <1>23, <1>24, <1>25, <1>26, <1>27, <1>28, <1>29, <1>30 DEF Next, RunningNext, Caller, Responder, Teardown

\* Every variable of the command queue keeps its type, for any number of callers, vbufs and
\* vq_bufs.
THEOREM TypeCorrect == Spec => []TypeOK
<1> QED
  BY TypeInit, TypeStep, PTL DEF Spec
-----------------------------------------------------------------------------
(* The vq_bufs.                                                            *)

Total == unused + Len(vbuf_list) + Len(resp_list)

\* TypeOK covers the lists.
LEMMA ListsTyped == TypeOK => Lists
  BY DEF TypeOK, Lists

\* unattach_buf_from_vq_buf moves a vq_buf and keeps their number.
LEMMA UnattachTotal == Lists /\ (UnattachVbuf \/ UnattachResp) => Total' = Total
<1>1. Lists /\ UnattachVbuf => Total' = Total
  BY DEF Lists, UnattachVbuf, Total
<1>2. Lists /\ UnattachResp => Total' = Total
  BY DEF Lists, UnattachResp, Total
<1> QED
  BY <1>1, <1>2

\* attach_buf_to_vq_buf moves a vq_buf and keeps their number.
LEMMA AttachTotal == ASSUME NEW s \in Slots, Lists, AttachResp(s) PROVE Total' = Total
<1>1. CASE UNCHANGED hvqVars
  BY <1>1 DEF Total, hvqVars
<1>2. CASE /\ unused > 0
           /\ unused' = unused - 1
           /\ resp_list' = Append(resp_list, s)
           /\ UNCHANGED vbuf_list
  BY <1>2 DEF Lists, Total
<1> QED
  BY <1>1, <1>2, Zenon DEF AttachResp

\* msm_hab_virtqueue_add_sgs moves a vq_buf, if it does anything.
LEMMA AddSgsTotal == ASSUME NEW s \in Slots, NEW r, Lists, AddSgs(s, r) PROVE Total' = Total
<1>1. CASE UNCHANGED hvqVars
  BY <1>1 DEF Total, hvqVars
<1>2. CASE /\ unused > 0
           /\ unused' = unused - 1
           /\ vbuf_list' = Append(vbuf_list, s)
           /\ UNCHANGED resp_list
  BY <1>2 DEF Lists, Total
<1> QED
  BY <1>1, <1>2, Zenon DEF AddSgs

\* The stray loop of the error path moves a vq_buf from one list to the other.
LEMMA ErrorLoopTotal == TypeOK /\ ErrorLoop => Total' = Total
<1> SUFFICES ASSUME TypeOK, ErrorLoop PROVE Total' = Total
  OBVIOUS
<1>1. Head(vbuf_list) \in Slots /\ Len(Tail(vbuf_list)) = Len(vbuf_list) - 1
  BY DEF TypeOK, ErrorLoop
<1> QED
  BY <1>1 DEF TypeOK, ErrorLoop, Total

\* What a step does to the number of vq_bufs on the lists, unless it ends their life.
LEMMA TotalStep ==
  ASSUME TypeOK, [Next]_vars
  PROVE  Total' = Total \/ EvtStopped \/ FreeVbufsEnd \/ Stopped
<1> USE DEF callerVars, memVars, hvqVars, rtVars
<1>0. Lists
  BY ListsTyped
<1>1. CASE UNCHANGED hvqVars
  BY <1>1 DEF Total
<1>2. ASSUME NEW c \in Callers, Enqueue(c) PROVE Total' = Total
  <2>1. vbuf[c] \in Slots
    BY <1>2 DEF Enqueue, TypeOK
  <2>2. PICK r \in {"ok", "EIO", "ENOMEM"} : AddSgs(vbuf[c], r)
    BY <1>2, Zenon DEF Enqueue
  <2> QED
    BY <1>0, <2>1, <2>2, AddSgsTotal, Zenon
<1>3. ASSUME NEW c \in Callers, KickTake(c) PROVE Total' = Total
  BY <1>0, <1>3, UnattachTotal, Zenon DEF KickTake
<1>4. CASE MatchFound
  <2>1. PICK f \in Slots : AttachResp(f)
    BY <1>4, Zenon DEF MatchFound
  <2> QED
    BY <1>0, <2>1, AttachTotal, Zenon
<1>5. CASE CmdCbGet
  BY <1>0, <1>5, UnattachTotal, Zenon DEF CmdCbGet
<1>6. CASE ErrorLoop
  BY <1>6, ErrorLoopTotal, Zenon
<1>7. CASE FreeVbufs
  BY <1>0, <1>7, UnattachTotal, Zenon DEF FreeVbufs
<1>8. ASSUME NEW c \in Callers,
             Alloc(c) \/ CheckReady(c) \/ KickFail(c) \/ Send(c) \/ SendFail(c) \/ Relock(c)
               \/ Completed(c) \/ Timeout(c) \/ Reclaim(c)
      PROVE  UNCHANGED hvqVars
  BY <1>8, Zenon DEF Alloc, CheckReady, KickFail, Send, SendFail, Relock, Completed, Timeout, Reclaim
<1>9. CASE Recv \/ RecvError \/ RecvClosed \/ MatchNone \/ CmdCbEnter \/ CmdCbLeave \/ Break \/ SelfStop
  <2>1. UNCHANGED hvqVars
    BY <1>9, Zenon DEF Recv, RecvError, RecvClosed, MatchNone, CmdCbEnter, CmdCbLeave, Break, SelfStop
  <2> QED
    BY <1>1, <2>1
<1>10. CASE EvtClose \/ Deinit \/ DelVqs
  <2>1. UNCHANGED hvqVars
    BY <1>10, Zenon DEF EvtClose, Deinit, DelVqs
  <2> QED
    BY <1>1, <2>1
<1>11. CASE UNCHANGED vars
  BY <1>1, <1>11 DEF vars
<1> QED
  BY <1>1, <1>2, <1>3, <1>4, <1>5, <1>6, <1>7, <1>8, <1>9, <1>10, <1>11, Zenon
     DEF Next, RunningNext, Caller, Responder, Teardown

\* Removal and the event thread's del_vqs only move forward.
LEMMA PhaseStep ==
  ASSUME TypeOK, [Next]_vars
  PROVE  /\ td' \in {"up", "free"} => td \in {"up", "free"}
         /\ td' = "up" => td = "up"
         /\ evt' # "stopped" => evt # "stopped"
<1> USE DEF vars, callerVars, memVars, hvqVars, rtVars
<1>1. CASE UNCHANGED <<td, evt>>
  BY <1>1
<1>2. ASSUME NEW c \in Callers, Alloc(c) \/ Caller(c) PROVE UNCHANGED <<td, evt>>
  BY <1>2, Zenon DEF Caller, Alloc, CheckReady, Enqueue, KickTake, KickFail, Send, SendFail, Relock,
     Completed, Timeout, Reclaim
<1>3. CASE Responder
  <2>1. UNCHANGED <<td, evt>>
    BY <1>3, Zenon DEF Responder, Recv, RecvError, RecvClosed, MatchFound, MatchNone, CmdCbEnter,
       CmdCbGet, CmdCbLeave, Break, ErrorLoop, SelfStop
  <2> QED
    BY <1>1, <2>1
<1>4. CASE Teardown
  <2>1. CASE EvtClose \/ EvtStopped
    BY <2>1 DEF EvtClose, EvtStopped
  <2>2. CASE Deinit \/ FreeVbufsEnd \/ Stopped
    BY <2>2 DEF Deinit, FreeVbufsEnd, Stopped
  <2>3. CASE FreeVbufs
    BY <1>1, <2>3, Zenon DEF FreeVbufs
  <2>4. CASE DelVqs
    BY <2>4 DEF DelVqs
  <2> QED
    BY <1>4, <2>1, <2>2, <2>3, <2>4 DEF Teardown
<1> QED
  BY <1>1, <1>2, <1>3, <1>4, Zenon DEF Next, RunningNext

\* vq_bufs are neither lost nor made up, for any number of callers and whatever the order of
\* their steps with those of the response thread, its error path and virtio_video_free_vbufs.
THEOREM VqBufsConservedTheorem == Spec => []VqBufsConserved
<1>1. Init => VqBufsConserved
  BY CmdQueueAssumption DEF Init, VqBufsConserved
<1>2. TypeOK /\ VqBufsConserved /\ [Next]_vars => VqBufsConserved'
  <2> SUFFICES ASSUME TypeOK, VqBufsConserved, [Next]_vars,
                      td' \in {"up", "free"}, evt' # "stopped"
               PROVE  Total' = VqNum
    BY Zenon DEF VqBufsConserved, Total
  <2>1. Total = VqNum
    BY PhaseStep, Zenon DEF VqBufsConserved, Total
  <2>2. ~EvtStopped /\ ~FreeVbufsEnd /\ ~Stopped
    BY DEF EvtStopped, FreeVbufsEnd, Stopped
  <2> QED
    BY <2>1, <2>2, TotalStep, Zenon
<1> QED
  BY <1>1, <1>2, TypeCorrect, PTL DEF Spec
-----------------------------------------------------------------------------
(* The lock and the vbufs.                                                 *)

\* Every step keeps qlock with whoever is in a critical section.
LEMMA LockStep == TypeOK /\ LockInv /\ [Next]_vars => LockInv'
<1> SUFFICES ASSUME TypeOK, LockInv, [Next]_vars PROVE LockInv'
  OBVIOUS
<1> USE CmdQueueAssumption DEF TypeOK, LockInv, vars, callerVars, memVars, hvqVars, rtVars
<1>1. ASSUME NEW c \in Callers, Alloc(c) PROVE LockInv'
  BY <1>1 DEF Alloc, GoTo
<1>2. ASSUME NEW c \in Callers, CheckReady(c) PROVE LockInv'
  BY <1>2 DEF CheckReady, GoTo, Return
<1>3. ASSUME NEW c \in Callers, Enqueue(c) PROVE LockInv'
  BY <1>3 DEF Enqueue, GoTo, Acquire, AddSgs
<1>4. ASSUME NEW c \in Callers, KickTake(c) PROVE LockInv'
  BY <1>4 DEF KickTake, GoTo, UnattachVbuf
<1>5. ASSUME NEW c \in Callers, KickFail(c) PROVE LockInv'
  BY <1>5 DEF KickFail, Return
<1>6. ASSUME NEW c \in Callers, Send(c) PROVE LockInv'
  BY <1>6 DEF Send, GoTo
<1>7. ASSUME NEW c \in Callers, SendFail(c) PROVE LockInv'
  BY <1>7 DEF SendFail, GoTo
<1>8. ASSUME NEW c \in Callers, Relock(c) PROVE LockInv'
  BY <1>8 DEF Relock, GoTo, LockFree, Return
<1>9. ASSUME NEW c \in Callers, Completed(c) PROVE LockInv'
  BY <1>9 DEF Completed, GoTo
<1>10. ASSUME NEW c \in Callers, Timeout(c) PROVE LockInv'
  BY <1>10 DEF Timeout, GoTo
<1>11. ASSUME NEW c \in Callers, Reclaim(c) PROVE LockInv'
  BY <1>11 DEF Reclaim, LockFree, FreeVbuf, Return
<1>12. CASE Recv
  BY <1>12 DEF Recv, RtGoTo
<1>13. CASE RecvError
  BY <1>13 DEF RecvError, RtGoTo
<1>14. CASE RecvClosed
  BY <1>14 DEF RecvClosed, RtGoTo
<1>15. CASE MatchFound
  BY <1>15 DEF MatchFound, LockFree, AttachResp, RtGoTo, IsFirst, Candidates
<1>16. CASE MatchNone
  BY <1>16 DEF MatchNone, LockFree, RtGoTo
<1>17. CASE CmdCbEnter
  BY <1>17 DEF CmdCbEnter, LockFree, Acquire, RtGoTo
<1>18. CASE CmdCbGet
  BY <1>18 DEF CmdCbGet, UnattachResp, FreeVbuf
<1>19. CASE CmdCbLeave
  BY <1>19 DEF CmdCbLeave, RtGoTo
<1>20. CASE Break
  BY <1>20 DEF Break, RtGoTo
<1>21. CASE ErrorLoop
  BY <1>21 DEF ErrorLoop
<1>22. CASE SelfStop
  BY <1>22 DEF SelfStop, RtGoTo
<1>23. CASE EvtClose
  BY <1>23 DEF EvtClose
<1>24. CASE EvtStopped
  BY <1>24 DEF EvtStopped
<1>25. CASE Deinit
  BY <1>25 DEF Deinit
<1>26. CASE FreeVbufs
  BY <1>26 DEF FreeVbufs, UnattachVbuf, UnattachResp, FreeVbuf
<1>27. CASE FreeVbufsEnd
  BY <1>27 DEF FreeVbufsEnd
<1>28. CASE DelVqs
  BY <1>28 DEF DelVqs
<1>29. CASE Stopped
  BY <1>29 DEF Stopped
<1>30. CASE UNCHANGED vars
  BY <1>30
<1> QED
  BY <1>1, <1>2, <1>3, <1>4, <1>5, <1>6, <1>7, <1>8, <1>9, <1>10, <1>11, <1>12, <1>13, <1>14, <1>15, <1>16, <1>17, <1>18, <1>19, <1>20, <1>21, <1>22, <1>23, <1>24, <1>25, <1>26, <1>27, <1>28, <1>29, <1>30 DEF Next, RunningNext, Caller, Responder, Teardown

\* Every step keeps each vbuf with its one user, until removal starts.
LEMMA OwnStep == TypeOK /\ LockInv /\ OwnInv /\ [Next]_vars => OwnInv'
<1> SUFFICES ASSUME TypeOK, LockInv, OwnInv, [Next]_vars PROVE OwnInv'
  OBVIOUS
<1> USE CmdQueueAssumption DEF TypeOK, LockInv, OwnInv, NoUseAfterFree, UsesVbuf, vars, callerVars,
      memVars, hvqVars, rtVars
<1>1. ASSUME NEW c \in Callers, Alloc(c) PROVE OwnInv'
  BY <1>1 DEF Alloc, GoTo
<1>2. ASSUME NEW c \in Callers, CheckReady(c) PROVE OwnInv'
  <2>1. CASE GoTo(c, "enqueue") /\ UNCHANGED <<call, vbuf, sending, ret>>
    BY <1>2, <2>1 DEF CheckReady, GoTo
  <2>2. CASE Return(c, "ENODEV")
    BY <1>2, <2>2 DEF CheckReady, Return
  <2> QED
    BY <1>2, <2>1, <2>2, Zenon DEF CheckReady
<1>3. ASSUME NEW c \in Callers, Enqueue(c) PROVE OwnInv'
  BY <1>3 DEF Enqueue, GoTo, Acquire, AddSgs
<1>4. ASSUME NEW c \in Callers, KickTake(c) PROVE OwnInv'
  BY <1>4 DEF KickTake, GoTo, UnattachVbuf
<1>5. ASSUME NEW c \in Callers, KickFail(c) PROVE OwnInv'
  BY <1>5 DEF KickFail, Return
<1>6. ASSUME NEW c \in Callers, Send(c) PROVE OwnInv'
  BY <1>6 DEF Send, GoTo
<1>7. ASSUME NEW c \in Callers, SendFail(c) PROVE OwnInv'
  BY <1>7 DEF SendFail, GoTo
<1>8. ASSUME NEW c \in Callers, Relock(c) PROVE OwnInv'
  <2>1. CASE call[c] \in SyncKeys /\ GoTo(c, "wait") /\ UNCHANGED <<call, vbuf, sending, ret>>
    BY <1>8, <2>1 DEF Relock, GoTo, LockFree
  <2>2. CASE Return(c, ret[c])
    BY <1>8, <2>2 DEF Relock, Return, LockFree
  <2> QED
    BY <1>8, <2>1, <2>2, Zenon DEF Relock
<1>9. ASSUME NEW c \in Callers, Completed(c) PROVE OwnInv'
  BY <1>9 DEF Completed, GoTo
<1>10. ASSUME NEW c \in Callers, Timeout(c) PROVE OwnInv'
  BY <1>10 DEF Timeout, GoTo
<1>11. ASSUME NEW c \in Callers, Reclaim(c) PROVE OwnInv'
  BY <1>11 DEF Reclaim, LockFree, FreeVbuf, Return
<1>12. CASE Recv
  BY <1>12 DEF Recv, RtGoTo
<1>13. CASE RecvError
  BY <1>13 DEF RecvError, RtGoTo
<1>14. CASE RecvClosed
  BY <1>14 DEF RecvClosed, RtGoTo
<1>15. CASE MatchFound
  BY <1>15 DEF MatchFound, LockFree, AttachResp, RtGoTo, IsFirst, Candidates
<1>16. CASE MatchNone
  BY <1>16 DEF MatchNone, LockFree, RtGoTo
<1>17. CASE CmdCbEnter
  BY <1>17 DEF CmdCbEnter, LockFree, Acquire, RtGoTo
<1>18. CASE CmdCbGet
  BY <1>18 DEF CmdCbGet, UnattachResp, FreeVbuf
<1>19. CASE CmdCbLeave
  BY <1>19 DEF CmdCbLeave, RtGoTo
<1>20. CASE Break
  BY <1>20 DEF Break, RtGoTo
<1>21. CASE ErrorLoop
  BY <1>21 DEF ErrorLoop
<1>22. CASE SelfStop
  BY <1>22 DEF SelfStop, RtGoTo
<1>23. CASE EvtClose
  BY <1>23 DEF EvtClose
<1>24. CASE EvtStopped
  BY <1>24 DEF EvtStopped
<1>25. CASE Deinit
  BY <1>25 DEF Deinit
<1>26. CASE FreeVbufs
  BY <1>26 DEF FreeVbufs, UnattachVbuf, UnattachResp, FreeVbuf
<1>27. CASE FreeVbufsEnd
  BY <1>27 DEF FreeVbufsEnd
<1>28. CASE DelVqs
  BY <1>28 DEF DelVqs
<1>29. CASE Stopped
  BY <1>29 DEF Stopped
<1>30. CASE UNCHANGED vars
  BY <1>30
<1> QED
  BY <1>1, <1>2, <1>3, <1>4, <1>5, <1>6, <1>7, <1>8, <1>9, <1>10, <1>11, <1>12, <1>13, <1>14, <1>15, <1>16, <1>17, <1>18, <1>19, <1>20, <1>21, <1>22, <1>23, <1>24, <1>25, <1>26, <1>27, <1>28, <1>29, <1>30 DEF Next, RunningNext, Caller, Responder, Teardown

\* A vbuf is not used after free by its caller or through the pending list while the device is
\* there: the race of a 5 s timeout with a late answer is harmless to the memory of every
\* synchronous caller, for any number of them.
THEOREM NoUseAfterFreeTheorem == Spec => []NoUseAfterFree
<1>1. Init => LockInv /\ OwnInv
  BY CmdQueueAssumption DEF Init, LockInv, OwnInv, NoUseAfterFree, UsesVbuf
<1>2. TypeOK /\ LockInv /\ OwnInv /\ [Next]_vars => LockInv' /\ OwnInv'
  BY LockStep, OwnStep
<1>3. OwnInv => NoUseAfterFree
  BY DEF OwnInv
<1> QED
  BY <1>1, <1>2, <1>3, TypeCorrect, PTL DEF Spec
-----------------------------------------------------------------------------
(* The size of the pool.                                                   *)

\* Taking the head of a list of at most one entry empties it.
LEMMA TailOfOne ==
  ASSUME NEW S, NEW s \in Seq(S), s # <<>>, Len(s) <= 1
  PROVE  Len(s) = 1 /\ Tail(s) = <<>>
<1>1. Len(s) \in Nat \ {0}
  BY EmptySeq, Zenon
<1>2. Tail(s) \in Seq(S) /\ Len(Tail(s)) = Len(s) - 1
  BY HeadTailProperties, Zenon
<1>3. Len(Tail(s)) = 0
  BY <1>1, <1>2
<1>4. Tail(s) = <<>>
  <2>1. Tail(s) # <<>> => Len(Tail(s)) \in Nat \ {0}
    BY <1>2, EmptySeq, Zenon
  <2> QED
    BY <1>3, <2>1
<1>5. Len(s) = 1
  BY <1>1
<1> QED
  BY <1>4, <1>5, Zenon

\* Every step keeps vbuf_list and resp_list at one entry or less, until removal starts.
LEMMA PoolStep == TypeOK /\ LockInv /\ PoolInv /\ [Next]_vars => PoolInv'
<1> SUFFICES ASSUME TypeOK, LockInv, PoolInv, [Next]_vars PROVE PoolInv'
  OBVIOUS
<1> USE CmdQueueAssumption DEF TypeOK, LockInv, PoolInv, vars, callerVars, memVars, hvqVars, rtVars
<1>1. ASSUME NEW c \in Callers, Alloc(c) PROVE PoolInv'
  BY <1>1 DEF Alloc, GoTo
<1>2. ASSUME NEW c \in Callers, CheckReady(c) PROVE PoolInv'
  BY <1>2 DEF CheckReady, GoTo, Return
<1>3. ASSUME NEW c \in Callers, Enqueue(c) PROVE PoolInv'
  BY <1>3 DEF Enqueue, GoTo, Acquire, AddSgs
<1>4. ASSUME NEW c \in Callers, KickTake(c) PROVE PoolInv'
  <2> SUFFICES ASSUME td = "up" PROVE PoolInv'
    BY <1>4 DEF KickTake
  <2>1. vbuf_list \in Seq(Slots) /\ vbuf_list # <<>> /\ Len(vbuf_list) <= 1
    BY <1>4 DEF KickTake, UnattachVbuf
  <2>2. Len(vbuf_list) = 1 /\ Tail(vbuf_list) = <<>>
    BY <2>1, TailOfOne, Zenon
  <2>3. vbuf_list' = <<>> /\ unused' = unused + 1 /\ resp_list' = resp_list
    BY <1>4, <2>2 DEF KickTake, UnattachVbuf
  <2> QED
    BY <1>4, <2>2, <2>3 DEF KickTake, GoTo
<1>5. ASSUME NEW c \in Callers, KickFail(c) PROVE PoolInv'
  BY <1>5 DEF KickFail, Return
<1>6. ASSUME NEW c \in Callers, Send(c) PROVE PoolInv'
  BY <1>6 DEF Send, GoTo
<1>7. ASSUME NEW c \in Callers, SendFail(c) PROVE PoolInv'
  BY <1>7 DEF SendFail, GoTo
<1>8. ASSUME NEW c \in Callers, Relock(c) PROVE PoolInv'
  BY <1>8 DEF Relock, GoTo, LockFree, Return
<1>9. ASSUME NEW c \in Callers, Completed(c) PROVE PoolInv'
  BY <1>9 DEF Completed, GoTo
<1>10. ASSUME NEW c \in Callers, Timeout(c) PROVE PoolInv'
  BY <1>10 DEF Timeout, GoTo
<1>11. ASSUME NEW c \in Callers, Reclaim(c) PROVE PoolInv'
  BY <1>11 DEF Reclaim, LockFree, FreeVbuf, Return
<1>12. CASE Recv
  BY <1>12 DEF Recv, RtGoTo
<1>13. CASE RecvError
  BY <1>13 DEF RecvError, RtGoTo
<1>14. CASE RecvClosed
  BY <1>14 DEF RecvClosed, RtGoTo
<1>15. CASE MatchFound
  <2> SUFFICES ASSUME td = "up" PROVE PoolInv'
    BY <1>15 DEF MatchFound
  <2>1. resp_list = <<>> /\ Len(resp_list) = 0 /\ unused > 0
    BY <1>15 DEF MatchFound
  <2>2. PICK f \in Slots : AttachResp(f)
    BY <1>15, Zenon DEF MatchFound
  <2>3. /\ unused' = unused - 1 /\ Len(resp_list') = 1
        /\ vbuf_list' = vbuf_list
    BY <2>1, <2>2 DEF AttachResp
  <2> QED
    BY <1>15, <2>1, <2>3 DEF MatchFound, LockFree, RtGoTo
<1>16. CASE MatchNone
  BY <1>16 DEF MatchNone, LockFree, RtGoTo
<1>17. CASE CmdCbEnter
  BY <1>17 DEF CmdCbEnter, LockFree, Acquire, RtGoTo
<1>18. CASE CmdCbGet
  BY <1>18 DEF CmdCbGet, UnattachResp, FreeVbuf
<1>19. CASE CmdCbLeave
  BY <1>19 DEF CmdCbLeave, RtGoTo
<1>20. CASE Break
  BY <1>20 DEF Break, RtGoTo
<1>21. CASE ErrorLoop
  BY <1>21 DEF ErrorLoop
<1>22. CASE SelfStop
  BY <1>22 DEF SelfStop, RtGoTo
<1>23. CASE EvtClose
  BY <1>23 DEF EvtClose
<1>24. CASE EvtStopped
  BY <1>24 DEF EvtStopped
<1>25. CASE Deinit
  BY <1>25 DEF Deinit
<1>26. CASE FreeVbufs
  BY <1>26 DEF FreeVbufs, UnattachVbuf, UnattachResp, FreeVbuf
<1>27. CASE FreeVbufsEnd
  BY <1>27 DEF FreeVbufsEnd
<1>28. CASE DelVqs
  BY <1>28 DEF DelVqs
<1>29. CASE Stopped
  BY <1>29 DEF Stopped
<1>30. CASE UNCHANGED vars
  BY <1>30
<1> QED
  BY <1>1, <1>2, <1>3, <1>4, <1>5, <1>6, <1>7, <1>8, <1>9, <1>10, <1>11, <1>12, <1>13, <1>14, <1>15, <1>16, <1>17, <1>18, <1>19, <1>20, <1>21, <1>22, <1>23, <1>24, <1>25, <1>26, <1>27, <1>28, <1>29, <1>30 DEF Next, RunningNext, Caller, Responder, Teardown

\* Two vq_bufs serve any number of callers until the device is removed: no command fails for
\* want of one, and no answer is dropped for it.
THEOREM NoVqBufShortageTheorem == Spec => []NoVqBufShortage
<1>1. Init => LockInv /\ PoolInv
  BY CmdQueueAssumption DEF Init, LockInv, PoolInv
<1>2. TypeOK /\ LockInv /\ PoolInv /\ [Next]_vars => LockInv' /\ PoolInv'
  BY LockStep, PoolStep
<1>3. TypeOK /\ PoolInv => NoVqBufShortage
  BY CmdQueueAssumption DEF TypeOK, PoolInv, NoVqBufShortage
<1> QED
  BY <1>1, <1>2, <1>3, TypeCorrect, PTL DEF Spec
-----------------------------------------------------------------------------
(* Who may issue what.                                                     *)

\* The commands that nobody waits for have one issuer at a time: vb2 queues a buffer of a stream
\* (RESOURCE_QUEUE) with its vq_mutex held (virtio_video_dec.c:243, virtio_video_enc.c:317,
\* virtio_video_cam.c:131), and a stream is created and destroyed by its one open and release.
OneAsyncCaller ==
  \A c, d \in Callers : c # d => CallerKeys[c] \cap CallerKeys[d] \subseteq SyncKeys

\* No two callers issue the same command of the same stream at a time.
OneCaller == \A c, d \in Callers : c # d => CallerKeys[c] \cap CallerKeys[d] = {}

(* The invariants behind the properties of whole calls.                    *)

Sendable == {"kick", "send"}
Queued == {"kick", "send", "relock", "wait", "reclaim"}
Serving == rt \in {"recv", "match", "cmd_cb", "drain"}

\* s is the vbuf of a command that its caller has not sent yet.
Unsent(s) == \E c \in Callers : vbuf[c] = s /\ pc[c] \in Sendable /\ call[c] = vkey[s]
\* The pending vbufs of commands k that were sent, or given up.
Awaiting(k) == {s \in pending : vkey[s] = k /\ ~Unsent(s)}
\* The answer being processed, and the vbuf it was found for.
Matching(k) == IF rt = "match" /\ rmsg.key = k THEN 1 ELSE 0

\* A caller's kick sends its own vbuf, and callers issue their own commands.
KickInv ==
  /\ \A c \in Callers : pc[c] # "idle" => call[c] \in CallerKeys[c]
  /\ ready <=> td = "up"
  /\ td = "up" => \A c \in Callers :
       /\ pc[c] = "kick" /\ ~broken => vbuf_list = <<vbuf[c]>> /\ ret[c] = "ok"
       /\ pc[c] = "send" => sending[c] = vbuf[c] /\ ret[c] = "ok"
       /\ pc[c] = "relock" => ret[c] = "ok" \/ broken

\* Ids are given upwards, and an allocated vbuf holds a command.
IdInv ==
  /\ \A s \in live : vkey[s] \in Keys
  /\ \A m \in inflight : m.id < vbufs_sent
  /\ \A s \in Slots : vid[s] < vbufs_sent

\* An asynchronous command that is not sent yet is the last of its key.
LastInv ==
  td = "up" => \A c \in Callers, s \in pending :
    /\ pc[c] \in Sendable /\ call[c] \notin SyncKeys
    /\ vbuf[c] \in pending /\ vkey[vbuf[c]] = call[c]
    /\ vkey[s] = call[c] /\ s # vbuf[c]
    => vid[s] < vid[vbuf[c]]

\* An allocated vbuf is pending or in the hands of its caller; a pending one of a synchronous
\* command is its caller's, while the queue works.
HeldInv ==
  td = "up" =>
    /\ \A s \in live : s \in pending \/ \E c \in Callers : vbuf[c] = s /\ pc[c] \in {"check", "enqueue"}
    /\ ~broken => \A s \in pending : vkey[s] \in SyncKeys =>
         \E c \in Callers : vbuf[c] = s /\ call[c] \in SyncKeys /\ pc[c] \in Queued

\* The messages at the back end that answer a vbuf of key k, but for one sent too early.
Rest(k) == {m \in inflight : m.key = k /\ \A s \in pending : vkey[s] = k /\ Unsent(s) => vid[s] # m.id}
Found(k) == IF resp_list # <<>> /\ Head(resp_list) \in Awaiting(k) THEN 1 ELSE 0

\* While the queue works, there are answers for all vbufs that nobody waits for.
LeakInv ==
  td = "up" /\ ~broken /\ Serving =>
    \A k \in Keys \ SyncKeys : Cardinality(Awaiting(k)) <= Cardinality(Rest(k)) + Matching(k) + Found(k)

(* The invariants of the calls while none has timed out.                   *)

Sent(k) == {m \in inflight : m.key = k}
Head1(k) == IF resp_list # <<>> /\ vkey[Head(resp_list)] = k THEN 1 ELSE 0

\* Caller c has sent its command and waits for the answer ...
Waits(c) == call[c] \in SyncKeys /\ pc[c] \in {"relock", "wait"} /\ ret[c] = "ok" /\ ~reclaimed[vbuf[c]]
\* ... and the command has this key and id.
Waiting(c, k, i) == Waits(c) /\ call[c] = k /\ vid[vbuf[c]] = i

\* The vbuf of a command that is not sent yet is still on the pending list.
UnsentOwn == \A c \in Callers : pc[c] \in Sendable => vbuf[c] \in pending /\ vkey[vbuf[c]] = call[c]

\* The vbuf found for an answer is allocated; one that nobody waits for was sent and is pending.
HeadOwn ==
  Serving /\ resp_list # <<>> =>
    LET s == Head(resp_list) IN
      /\ s \in live
      /\ vkey[s] \notin SyncKeys => s \in pending /\ ~Unsent(s)
      /\ vkey[s] \in SyncKeys => \E c \in Callers : vbuf[c] = s /\ Waiting(c, vkey[s], resp[s])

\* There are no more answers than vbufs of commands that were sent.
Due(k) == Cardinality(Sent(k)) + Matching(k) + Head1(k) <= Cardinality(Awaiting(k))
DueInv == Serving => \A k \in Keys \ SyncKeys : Due(k)

\* The answer to a synchronous command has its caller waiting, and is the only one for it.
InflightOwn ==
  \A m \in inflight : m.key \in SyncKeys =>
    /\ \E c \in Callers :
         Waiting(c, m.key, m.id) /\ (Serving /\ resp_list # <<>> => Head(resp_list) # vbuf[c])
    /\ Matching(m.key) = 0

MatchOwn == rt = "match" /\ rmsg.key \in SyncKeys => \E c \in Callers : Waiting(c, rmsg.key, rmsg.id)

\* A completion means that the caller's own answer is in its vbuf.
CompletedOwn ==
  \A c \in Callers : call[c] \in SyncKeys =>
    /\ pc[c] \in {"check", "enqueue", "kick", "send"} => ~reclaimed[vbuf[c]]
    /\ pc[c] # "idle" /\ reclaimed[vbuf[c]] => resp[vbuf[c]] = vid[vbuf[c]]
    /\ pc[c] = "reclaim" /\ ret[c] = "ok" => reclaimed[vbuf[c]]

\* From its kick on, a synchronous command is the only one of its key.
OnlyOwn ==
  \A c \in Callers : call[c] \in SyncKeys /\ pc[c] \in {"send", "relock", "wait", "reclaim"} =>
    \A s \in pending : vkey[s] = call[c] => s = vbuf[c]

OwnCalls == UnsentOwn /\ HeadOwn /\ DueInv /\ InflightOwn /\ MatchOwn /\ CompletedOwn /\ OnlyOwn
CallInv == td = "up" /\ ~timedOut => OwnCalls

-----------------------------------------------------------------------------
(* Kicks, ids and hands.                                                   *)

\* A step of one caller leaves the others where they are.
LEMMA OthersStay ==
  ASSUME TypeOK, NEW c \in Callers, Alloc(c) \/ Caller(c), NEW e \in Callers, e # c
  PROVE  pc'[e] = pc[e] /\ call'[e] = call[e] /\ vbuf'[e] = vbuf[e] /\ sending'[e] = sending[e] /\ ret'[e] = ret[e]
<1> USE DEF TypeOK, callerVars, GoTo, Return
<1>1. CASE Alloc(c) \/ CheckReady(c) \/ Enqueue(c) \/ KickTake(c) \/ KickFail(c)
  BY <1>1 DEF Alloc, CheckReady, Enqueue, KickTake, KickFail
<1>2. CASE Send(c) \/ SendFail(c) \/ Relock(c) \/ Completed(c) \/ Timeout(c) \/ Reclaim(c)
  BY <1>2 DEF Send, SendFail, Relock, Completed, Timeout, Reclaim
<1> QED
  BY <1>1, <1>2 DEF Caller

\* Every step keeps a kick to its own vbuf.
LEMMA KickStep == TypeOK /\ LockInv /\ PoolInv /\ KickInv /\ [Next]_vars => KickInv'
<1> SUFFICES ASSUME TypeOK, LockInv, PoolInv, KickInv, [Next]_vars PROVE KickInv'
  OBVIOUS
<1> USE CmdQueueAssumption DEF TypeOK, KickInv, vars, callerVars, memVars, hvqVars, rtVars
<1>1. ASSUME NEW c \in Callers, Alloc(c) PROVE KickInv'
  BY <1>1 DEF Alloc, GoTo
<1>2. ASSUME NEW c \in Callers, CheckReady(c) PROVE KickInv'
  BY <1>2 DEF CheckReady, GoTo, Return
<1>3. ASSUME NEW c \in Callers, Enqueue(c) PROVE KickInv'
  <2>1. PICK r \in {"ok", "EIO", "ENOMEM"} : AddSgs(vbuf[c], r) /\ ret' = [ret EXCEPT ![c] = r]
    BY <1>3, Zenon DEF Enqueue
  <2>2. /\ pc[c] = "enqueue" /\ pc' = [pc EXCEPT ![c] = "kick"] /\ qlock = None
        /\ UNCHANGED <<call, vbuf, sending, ready, td, broken>>
    BY <1>3 DEF Enqueue, GoTo, Acquire
  <2>3. \A e \in Callers : pc[e] # "kick"
    BY <2>2 DEF LockInv
  <2>4. td = "up" /\ ~broken => vbuf_list = <<>> /\ unused > 0
    BY <2>3 DEF PoolInv
  <2>5. td = "up" /\ ~broken => vbuf_list' = <<vbuf[c]>> /\ r = "ok"
    BY <2>1, <2>4 DEF AddSgs
  <2> QED
    BY <2>1, <2>2, <2>3, <2>5
<1>4. ASSUME NEW c \in Callers, KickTake(c) PROVE KickInv'
  <2>1. /\ pc[c] = "kick" /\ ~broken /\ pc' = [pc EXCEPT ![c] = "send"]
        /\ sending' = [sending EXCEPT ![c] = Head(vbuf_list)]
        /\ UNCHANGED <<call, vbuf, ret, ready, td, broken>>
    BY <1>4 DEF KickTake, GoTo
  <2>2. \A e \in Callers \ {c} : pc[e] # "kick"
    BY <2>1 DEF LockInv
  <2>3. td = "up" => Head(vbuf_list) = vbuf[c] /\ ret[c] = "ok"
    BY <2>1
  <2> QED
    BY <2>1, <2>2, <2>3
<1>5. ASSUME NEW c \in Callers, KickFail(c) PROVE KickInv'
  BY <1>5 DEF KickFail, Return
<1>6. ASSUME NEW c \in Callers, Send(c) PROVE KickInv'
  BY <1>6 DEF Send, GoTo
<1>7. ASSUME NEW c \in Callers, SendFail(c) PROVE KickInv'
  BY <1>7 DEF SendFail, GoTo
<1>8. ASSUME NEW c \in Callers, Relock(c) PROVE KickInv'
  BY <1>8 DEF Relock, GoTo, LockFree, Return
<1>9. ASSUME NEW c \in Callers, Completed(c) PROVE KickInv'
  BY <1>9 DEF Completed, GoTo
<1>10. ASSUME NEW c \in Callers, Timeout(c) PROVE KickInv'
  BY <1>10 DEF Timeout, GoTo
<1>11. ASSUME NEW c \in Callers, Reclaim(c) PROVE KickInv'
  BY <1>11 DEF Reclaim, LockFree, FreeVbuf, Return
<1>12. CASE Recv
  BY <1>12 DEF Recv, RtGoTo
<1>13. CASE RecvError
  BY <1>13 DEF RecvError, RtGoTo
<1>14. CASE RecvClosed
  BY <1>14 DEF RecvClosed, RtGoTo
<1>15. CASE MatchFound
  BY <1>15 DEF MatchFound, LockFree, AttachResp, RtGoTo, IsFirst, Candidates
<1>16. CASE MatchNone
  BY <1>16 DEF MatchNone, LockFree, RtGoTo
<1>17. CASE CmdCbEnter
  BY <1>17 DEF CmdCbEnter, LockFree, Acquire, RtGoTo
<1>18. CASE CmdCbGet
  BY <1>18 DEF CmdCbGet, UnattachResp, FreeVbuf
<1>19. CASE CmdCbLeave
  BY <1>19 DEF CmdCbLeave, RtGoTo
<1>20. CASE Break
  BY <1>20 DEF Break, RtGoTo
<1>21. CASE ErrorLoop
  <2>1. td = "up" => broken
    BY <1>21 DEF ErrorLoop, PoolInv
  <2> QED
    BY <1>21, <2>1 DEF ErrorLoop
<1>22. CASE SelfStop
  BY <1>22 DEF SelfStop, RtGoTo
<1>23. CASE EvtClose
  BY <1>23 DEF EvtClose
<1>24. CASE EvtStopped
  BY <1>24 DEF EvtStopped
<1>25. CASE Deinit
  BY <1>25 DEF Deinit
<1>26. CASE FreeVbufs
  BY <1>26 DEF FreeVbufs, UnattachVbuf, UnattachResp, FreeVbuf
<1>27. CASE FreeVbufsEnd
  BY <1>27 DEF FreeVbufsEnd
<1>28. CASE DelVqs
  BY <1>28 DEF DelVqs
<1>29. CASE Stopped
  BY <1>29 DEF Stopped
<1>30. CASE UNCHANGED vars
  BY <1>30
<1> QED
  BY <1>1, <1>2, <1>3, <1>4, <1>5, <1>6, <1>7, <1>8, <1>9, <1>10, <1>11, <1>12, <1>13, <1>14, <1>15,
     <1>16, <1>17, <1>18, <1>19, <1>20, <1>21, <1>22, <1>23, <1>24, <1>25, <1>26, <1>27, <1>28, <1>29, <1>30
     DEF Next, RunningNext, Caller, Responder, Teardown

\* A caller that goes on with its vbuf keeps it.
LEMMA MoveKeeps ==
  ASSUME HeldInv, NEW c \in Callers,
         pc[c] \in {"kick", "send", "relock", "wait"}, pc'[c] \in {"send", "relock", "wait", "reclaim"},
         UNCHANGED <<vbuf, call, live, pending, vkey, td>>, broken => broken',
         \A e \in Callers : e # c => pc'[e] = pc[e]
  PROVE  HeldInv'
  BY DEF HeldInv, Queued

\* Every step keeps allocated vbufs pending or in hand.
LEMMA HeldStep == TypeOK /\ LockInv /\ PoolInv /\ OwnInv /\ KickInv /\ HeldInv /\ [Next]_vars => HeldInv'
<1> SUFFICES ASSUME TypeOK, LockInv, PoolInv, OwnInv, KickInv, HeldInv, [Next]_vars PROVE HeldInv'
  OBVIOUS
<1> USE CmdQueueAssumption DEF vars, callerVars, memVars, hvqVars, rtVars
<1>1. ASSUME NEW c \in Callers, Alloc(c) PROVE HeldInv'
  <2>1. \A e \in Callers : e # c => pc'[e] = pc[e] /\ vbuf'[e] = vbuf[e] /\ call'[e] = call[e]
    BY <1>1, OthersStay DEF Caller
  <2>2. PICK s \in Slots \ live :
          /\ vbuf' = [vbuf EXCEPT ![c] = s] /\ live' = live \cup {s}
          /\ \A t \in Slots : t # s => vkey'[t] = vkey[t]
    BY <1>1 DEF Alloc, TypeOK
  <2>3. pc[c] = "idle" /\ pc'[c] = "check" /\ vbuf'[c] = s /\ UNCHANGED <<pending, td, broken>>
    BY <1>1, <2>2 DEF Alloc, GoTo, TypeOK
  <2>4. td = "up" => \A t \in pending : t # s
    BY <2>2 DEF OwnInv, NoUseAfterFree
  <2>5. CASE td = "up"
    <3>1. ASSUME NEW t \in live' PROVE t \in pending' \/ \E e \in Callers : vbuf'[e] = t /\ pc'[e] \in {"check", "enqueue"}
      <4>1. CASE t = s
        BY <4>1, <2>3
      <4>2. CASE t \in pending
        BY <4>2, <2>3
      <4>3. CASE \E e \in Callers : vbuf[e] = t /\ pc[e] \in {"check", "enqueue"}
        <5>1. PICK e \in Callers : vbuf[e] = t /\ pc[e] \in {"check", "enqueue"}
          BY <4>3
        <5> QED
          BY <5>1, <2>1, <2>3
      <4> QED
        BY <4>1, <4>2, <4>3, <2>2, <2>5, <3>1 DEF HeldInv
    <3>2. ASSUME ~broken', NEW t \in pending', vkey'[t] \in SyncKeys
          PROVE  \E e \in Callers : vbuf'[e] = t /\ call'[e] \in SyncKeys /\ pc'[e] \in Queued
      <4>1. t \in pending /\ vkey[t] \in SyncKeys /\ ~broken
        BY <3>2, <2>2, <2>3, <2>4, <2>5 DEF TypeOK
      <4>2. PICK e \in Callers : vbuf[e] = t /\ call[e] \in SyncKeys /\ pc[e] \in Queued
        BY <4>1, <2>5 DEF HeldInv
      <4> QED
        BY <4>2, <2>1, <2>3 DEF Queued
    <3> QED
      BY <3>1, <3>2 DEF HeldInv
  <2> QED
    BY <2>5, <2>3 DEF HeldInv
<1>2. ASSUME NEW c \in Callers, CheckReady(c) PROVE HeldInv'
  <2>1. \A e \in Callers : e # c => pc'[e] = pc[e] /\ vbuf'[e] = vbuf[e] /\ call'[e] = call[e]
    BY <1>2, OthersStay DEF Caller
  <2>2. /\ pc[c] = "check" /\ (td = "up" => pc'[c] = "enqueue" /\ vbuf'[c] = vbuf[c])
        /\ UNCHANGED <<live, pending, vkey, td, broken>>
    BY <1>2 DEF CheckReady, GoTo, Return, KickInv, TypeOK
  <2> QED
    BY <2>1, <2>2 DEF HeldInv, Queued
<1>3. ASSUME NEW c \in Callers, Enqueue(c) PROVE HeldInv'
  BY <1>3 DEF Enqueue, GoTo, Acquire, AddSgs, TypeOK, KickInv, OwnInv, NoUseAfterFree, UsesVbuf, HeldInv, Queued
<1>4. ASSUME NEW c \in Callers, KickTake(c) PROVE HeldInv'
  <2>1. \A e \in Callers : e # c => pc'[e] = pc[e] /\ vbuf'[e] = vbuf[e] /\ call'[e] = call[e]
    BY <1>4, OthersStay DEF Caller
  <2>2. /\ pc[c] \in {"kick", "send", "relock", "wait"} /\ pc'[c] \in {"send", "relock", "wait", "reclaim"}
        /\ UNCHANGED <<vbuf, call, live, pending, vkey, td>> /\ (broken => broken')
    BY <1>4 DEF KickTake, GoTo, TypeOK
  <2> QED
    BY <2>1, <2>2, MoveKeeps
<1>5. ASSUME NEW c \in Callers, KickFail(c) PROVE HeldInv'
  <2>1. \A e \in Callers : e # c => pc'[e] = pc[e] /\ vbuf'[e] = vbuf[e] /\ call'[e] = call[e]
    BY <1>5, OthersStay DEF Caller
  <2>2. pc[c] = "kick" /\ (td = "up" => broken) /\ UNCHANGED <<live, pending, vkey, td, broken>>
    BY <1>5 DEF KickFail, KickInv
  <2> QED
    BY <2>1, <2>2 DEF HeldInv, Queued
<1>6. ASSUME NEW c \in Callers, Send(c) PROVE HeldInv'
  <2>1. \A e \in Callers : e # c => pc'[e] = pc[e] /\ vbuf'[e] = vbuf[e] /\ call'[e] = call[e]
    BY <1>6, OthersStay DEF Caller
  <2>2. /\ pc[c] \in {"kick", "send", "relock", "wait"} /\ pc'[c] \in {"send", "relock", "wait", "reclaim"}
        /\ UNCHANGED <<vbuf, call, live, pending, vkey, td>> /\ (broken => broken')
    BY <1>6 DEF Send, GoTo, TypeOK
  <2> QED
    BY <2>1, <2>2, MoveKeeps
<1>7. ASSUME NEW c \in Callers, SendFail(c) PROVE HeldInv'
  <2>1. \A e \in Callers : e # c => pc'[e] = pc[e] /\ vbuf'[e] = vbuf[e] /\ call'[e] = call[e]
    BY <1>7, OthersStay DEF Caller
  <2>2. /\ pc[c] \in {"kick", "send", "relock", "wait"} /\ pc'[c] \in {"send", "relock", "wait", "reclaim"}
        /\ UNCHANGED <<vbuf, call, live, pending, vkey, td>> /\ (broken => broken')
    BY <1>7 DEF SendFail, GoTo, TypeOK
  <2> QED
    BY <2>1, <2>2, MoveKeeps
<1>8. ASSUME NEW c \in Callers, Relock(c) PROVE HeldInv'
  <2>1. \A e \in Callers : e # c => pc'[e] = pc[e] /\ vbuf'[e] = vbuf[e] /\ call'[e] = call[e]
    BY <1>8, OthersStay DEF Caller
  <2>2. pc[c] = "relock" /\ UNCHANGED <<live, pending, vkey, td, broken>>
    BY <1>8 DEF Relock
  <2>3. CASE call[c] \in SyncKeys /\ GoTo(c, "wait") /\ UNCHANGED <<call, vbuf, sending, ret>>
    <3>1. pc'[c] = "wait" /\ UNCHANGED <<vbuf, call>>
      BY <2>3 DEF GoTo, TypeOK
    <3> QED
      BY <2>1, <2>2, <3>1, MoveKeeps
  <2>4. CASE ret[c] # "ok" \/ call[c] \notin SyncKeys
    <3>1. td = "up" /\ ~broken => call[c] \notin SyncKeys
      BY <2>2, <2>4 DEF KickInv
    <3> QED
      BY <2>1, <2>2, <3>1 DEF HeldInv, Queued
  <2> QED
    BY <1>8, <2>3, <2>4, Zenon DEF Relock
<1>9. ASSUME NEW c \in Callers, Completed(c) PROVE HeldInv'
  <2>1. \A e \in Callers : e # c => pc'[e] = pc[e] /\ vbuf'[e] = vbuf[e] /\ call'[e] = call[e]
    BY <1>9, OthersStay DEF Caller
  <2>2. /\ pc[c] \in {"kick", "send", "relock", "wait"} /\ pc'[c] \in {"send", "relock", "wait", "reclaim"}
        /\ UNCHANGED <<vbuf, call, live, pending, vkey, td>> /\ (broken => broken')
    BY <1>9 DEF Completed, GoTo, TypeOK
  <2> QED
    BY <2>1, <2>2, MoveKeeps
<1>10. ASSUME NEW c \in Callers, Timeout(c) PROVE HeldInv'
  <2>1. \A e \in Callers : e # c => pc'[e] = pc[e] /\ vbuf'[e] = vbuf[e] /\ call'[e] = call[e]
    BY <1>10, OthersStay DEF Caller
  <2>2. /\ pc[c] \in {"kick", "send", "relock", "wait"} /\ pc'[c] \in {"send", "relock", "wait", "reclaim"}
        /\ UNCHANGED <<vbuf, call, live, pending, vkey, td>> /\ (broken => broken')
    BY <1>10 DEF Timeout, GoTo, TypeOK
  <2> QED
    BY <2>1, <2>2, MoveKeeps
<1>11. ASSUME NEW c \in Callers, Reclaim(c) PROVE HeldInv'
  <2>1. \A e \in Callers : e # c => pc'[e] = pc[e] /\ vbuf'[e] = vbuf[e] /\ call'[e] = call[e]
    BY <1>11, OthersStay DEF Caller
  <2>2. /\ pc[c] = "reclaim" /\ UNCHANGED <<vkey, td, broken>>
        /\ pending' = pending \ {vbuf[c]} /\ (live' = live \/ live' = live \ {vbuf[c]})
        /\ (vbuf[c] \in pending => live' = live \ {vbuf[c]})
    BY <1>11 DEF Reclaim, FreeVbuf
  <2> QED
    BY <2>1, <2>2 DEF HeldInv, Queued
<1>12. CASE Recv
  BY <1>12 DEF Recv, RtGoTo, TypeOK, KickInv, OwnInv, NoUseAfterFree, UsesVbuf, HeldInv, Queued
<1>13. CASE RecvError
  BY <1>13 DEF RecvError, RtGoTo, TypeOK, KickInv, OwnInv, NoUseAfterFree, UsesVbuf, HeldInv, Queued
<1>14. CASE RecvClosed
  BY <1>14 DEF RecvClosed, RtGoTo, TypeOK, KickInv, OwnInv, NoUseAfterFree, UsesVbuf, HeldInv, Queued
<1>15. CASE MatchFound
  BY <1>15 DEF MatchFound, LockFree, AttachResp, RtGoTo, IsFirst, Candidates, TypeOK, KickInv, OwnInv, NoUseAfterFree, UsesVbuf, HeldInv, Queued
<1>16. CASE MatchNone
  BY <1>16 DEF MatchNone, LockFree, RtGoTo, TypeOK, KickInv, OwnInv, NoUseAfterFree, UsesVbuf, HeldInv, Queued
<1>17. CASE CmdCbEnter
  BY <1>17 DEF CmdCbEnter, LockFree, Acquire, RtGoTo, TypeOK, KickInv, OwnInv, NoUseAfterFree, UsesVbuf, HeldInv, Queued
<1>18. CASE CmdCbGet
  BY <1>18 DEF CmdCbGet, UnattachResp, FreeVbuf, TypeOK, KickInv, OwnInv, NoUseAfterFree, UsesVbuf, HeldInv, Queued
<1>19. CASE CmdCbLeave
  BY <1>19 DEF CmdCbLeave, RtGoTo, TypeOK, KickInv, OwnInv, NoUseAfterFree, UsesVbuf, HeldInv, Queued
<1>20. CASE Break
  BY <1>20 DEF Break, RtGoTo, TypeOK, KickInv, OwnInv, NoUseAfterFree, UsesVbuf, HeldInv, Queued
<1>21. CASE ErrorLoop
  BY <1>21 DEF ErrorLoop, TypeOK, KickInv, OwnInv, NoUseAfterFree, UsesVbuf, HeldInv, Queued
<1>22. CASE SelfStop
  BY <1>22 DEF SelfStop, RtGoTo, TypeOK, KickInv, OwnInv, NoUseAfterFree, UsesVbuf, HeldInv, Queued
<1>23. CASE EvtClose
  BY <1>23 DEF EvtClose, TypeOK, KickInv, OwnInv, NoUseAfterFree, UsesVbuf, HeldInv, Queued
<1>24. CASE EvtStopped
  BY <1>24 DEF EvtStopped, TypeOK, KickInv, OwnInv, NoUseAfterFree, UsesVbuf, HeldInv, Queued
<1>25. CASE Deinit
  BY <1>25 DEF Deinit, TypeOK, KickInv, OwnInv, NoUseAfterFree, UsesVbuf, HeldInv, Queued
<1>26. CASE FreeVbufs
  BY <1>26 DEF FreeVbufs, UnattachVbuf, UnattachResp, FreeVbuf, TypeOK, KickInv, OwnInv, NoUseAfterFree, UsesVbuf, HeldInv, Queued
<1>27. CASE FreeVbufsEnd
  BY <1>27 DEF FreeVbufsEnd, TypeOK, KickInv, OwnInv, NoUseAfterFree, UsesVbuf, HeldInv, Queued
<1>28. CASE DelVqs
  BY <1>28 DEF DelVqs, TypeOK, KickInv, OwnInv, NoUseAfterFree, UsesVbuf, HeldInv, Queued
<1>29. CASE Stopped
  BY <1>29 DEF Stopped, TypeOK, KickInv, OwnInv, NoUseAfterFree, UsesVbuf, HeldInv, Queued
<1>30. CASE UNCHANGED vars
  BY <1>30 DEF TypeOK, KickInv, OwnInv, NoUseAfterFree, UsesVbuf, HeldInv, Queued
<1> QED
  BY <1>1, <1>2, <1>3, <1>4, <1>5, <1>6, <1>7, <1>8, <1>9, <1>10, <1>11, <1>12, <1>13, <1>14, <1>15,
     <1>16, <1>17, <1>18, <1>19, <1>20, <1>21, <1>22, <1>23, <1>24, <1>25, <1>26, <1>27, <1>28, <1>29, <1>30
     DEF Next, RunningNext, Caller, Responder, Teardown
\* Few vbufs are pending and few commands are at the back end.
FiniteInv == IsFiniteSet(pending) /\ IsFiniteSet(inflight)

\* A step adds at most one vbuf to the pending list, and one command to those at the back end.
LEMMA OneMore ==
  ASSUME [Next]_vars
  PROVE  /\ pending' \subseteq pending \/ \E s : pending' = pending \cup {s}
         /\ inflight' \subseteq inflight \/ \E m : inflight' = inflight \cup {m}
<1> USE DEF vars, callerVars, memVars, hvqVars, rtVars
<1>1. ASSUME NEW c \in Callers, Enqueue(c) PROVE pending' = pending \cup {vbuf[c]} /\ inflight' = inflight
  BY <1>1 DEF Enqueue
<1>2. ASSUME NEW c \in Callers, Send(c) PROVE pending' = pending /\ \E m : inflight' = inflight \cup {m}
  BY <1>2 DEF Send
<1>3. ASSUME NEW c \in Callers, Reclaim(c) PROVE pending' \subseteq pending /\ inflight' = inflight
  BY <1>3 DEF Reclaim, FreeVbuf
<1>4. ASSUME NEW c \in Callers,
             Alloc(c) \/ CheckReady(c) \/ KickTake(c) \/ KickFail(c) \/ SendFail(c) \/ Relock(c)
               \/ Completed(c) \/ Timeout(c)
      PROVE  pending' = pending /\ inflight' = inflight
  BY <1>4 DEF Alloc, CheckReady, KickTake, KickFail, SendFail, Relock, Completed, Timeout
<1>5. CmdCbGet \/ FreeVbufs => pending' \subseteq pending /\ inflight' = inflight
  BY DEF CmdCbGet, FreeVbufs, FreeVbuf
<1>6. Recv => pending' = pending /\ inflight' \subseteq inflight
  BY DEF Recv
<1>7. RecvError \/ RecvClosed \/ MatchFound \/ MatchNone \/ CmdCbEnter \/ CmdCbLeave \/ Break \/ ErrorLoop
        \/ SelfStop => pending' = pending /\ inflight' = inflight
  BY DEF RecvError, RecvClosed, MatchFound, MatchNone, CmdCbEnter, CmdCbLeave, Break, ErrorLoop, SelfStop
<1>8. EvtClose \/ EvtStopped \/ Deinit \/ FreeVbufsEnd \/ DelVqs \/ Stopped
        => pending' = pending /\ inflight' = inflight
  BY DEF EvtClose, EvtStopped, Deinit, FreeVbufsEnd, DelVqs, Stopped
<1>9. UNCHANGED vars => pending' = pending /\ inflight' = inflight
  OBVIOUS
<1> QED
  BY <1>1, <1>2, <1>3, <1>4, <1>5, <1>6, <1>7, <1>8, <1>9
     DEF Next, RunningNext, Caller, Responder, Teardown

\* Both stay finite.
LEMMA FiniteStep == FiniteInv /\ [Next]_vars => FiniteInv'
<1> SUFFICES ASSUME FiniteInv, [Next]_vars PROVE FiniteInv'
  OBVIOUS
<1>1. IsFiniteSet(pending')
  BY OneMore, FS_AddElement, FS_Subset DEF FiniteInv
<1>2. IsFiniteSet(inflight')
  BY OneMore, FS_AddElement, FS_Subset DEF FiniteInv
<1> QED
  BY <1>1, <1>2 DEF FiniteInv

\* Every step gives ids upwards.
LEMMA IdStep == TypeOK /\ IdInv /\ [Next]_vars => IdInv'
<1> SUFFICES ASSUME TypeOK, IdInv, [Next]_vars PROVE IdInv'
  OBVIOUS
<1> USE CmdQueueAssumption DEF IdInv, TypeOK, Answers, NoId, vars, callerVars, memVars, hvqVars, rtVars
<1>1. ASSUME NEW c \in Callers, Alloc(c) PROVE IdInv'
  BY <1>1 DEF Alloc, GoTo
<1>2. ASSUME NEW c \in Callers, CheckReady(c) PROVE IdInv'
  BY <1>2 DEF CheckReady, GoTo, Return
<1>3. ASSUME NEW c \in Callers, Enqueue(c) PROVE IdInv'
  BY <1>3 DEF Enqueue, GoTo, Acquire, AddSgs
<1>4. ASSUME NEW c \in Callers, KickTake(c) PROVE IdInv'
  BY <1>4 DEF KickTake, GoTo, UnattachVbuf
<1>5. ASSUME NEW c \in Callers, KickFail(c) PROVE IdInv'
  BY <1>5 DEF KickFail, Return
<1>6. ASSUME NEW c \in Callers, Send(c) PROVE IdInv'
  BY <1>6 DEF Send, GoTo
<1>7. ASSUME NEW c \in Callers, SendFail(c) PROVE IdInv'
  BY <1>7 DEF SendFail, GoTo
<1>8. ASSUME NEW c \in Callers, Relock(c) PROVE IdInv'
  BY <1>8 DEF Relock, GoTo, LockFree, Return
<1>9. ASSUME NEW c \in Callers, Completed(c) PROVE IdInv'
  BY <1>9 DEF Completed, GoTo
<1>10. ASSUME NEW c \in Callers, Timeout(c) PROVE IdInv'
  BY <1>10 DEF Timeout, GoTo
<1>11. ASSUME NEW c \in Callers, Reclaim(c) PROVE IdInv'
  BY <1>11 DEF Reclaim, LockFree, FreeVbuf, Return
<1>12. CASE Recv
  BY <1>12 DEF Recv, RtGoTo
<1>13. CASE RecvError
  BY <1>13 DEF RecvError, RtGoTo
<1>14. CASE RecvClosed
  BY <1>14 DEF RecvClosed, RtGoTo
<1>15. CASE MatchFound
  BY <1>15 DEF MatchFound, LockFree, AttachResp, RtGoTo, IsFirst, Candidates
<1>16. CASE MatchNone
  BY <1>16 DEF MatchNone, LockFree, RtGoTo
<1>17. CASE CmdCbEnter
  BY <1>17 DEF CmdCbEnter, LockFree, Acquire, RtGoTo
<1>18. CASE CmdCbGet
  BY <1>18 DEF CmdCbGet, UnattachResp, FreeVbuf
<1>19. CASE CmdCbLeave
  BY <1>19 DEF CmdCbLeave, RtGoTo
<1>20. CASE Break
  BY <1>20 DEF Break, RtGoTo
<1>21. CASE ErrorLoop
  BY <1>21 DEF ErrorLoop
<1>22. CASE SelfStop
  BY <1>22 DEF SelfStop, RtGoTo
<1>23. CASE EvtClose
  BY <1>23 DEF EvtClose
<1>24. CASE EvtStopped
  BY <1>24 DEF EvtStopped
<1>25. CASE Deinit
  BY <1>25 DEF Deinit
<1>26. CASE FreeVbufs
  BY <1>26 DEF FreeVbufs, UnattachVbuf, UnattachResp, FreeVbuf
<1>27. CASE FreeVbufsEnd
  BY <1>27 DEF FreeVbufsEnd
<1>28. CASE DelVqs
  BY <1>28 DEF DelVqs
<1>29. CASE Stopped
  BY <1>29 DEF Stopped
<1>30. CASE UNCHANGED vars
  BY <1>30
<1> QED
  BY <1>1, <1>2, <1>3, <1>4, <1>5, <1>6, <1>7, <1>8, <1>9, <1>10, <1>11, <1>12, <1>13, <1>14, <1>15,
     <1>16, <1>17, <1>18, <1>19, <1>20, <1>21, <1>22, <1>23, <1>24, <1>25, <1>26, <1>27, <1>28, <1>29, <1>30
     DEF Next, RunningNext, Caller, Responder, Teardown

\* Every step keeps the unsent command of a key behind the others.
LEMMA LastStep == TypeOK /\ IdInv /\ OwnInv /\ KickInv /\ OneAsyncCaller /\ LastInv /\ [Next]_vars => LastInv'
<1> SUFFICES ASSUME TypeOK, IdInv, OwnInv, KickInv, OneAsyncCaller, LastInv, [Next]_vars PROVE LastInv'
  OBVIOUS
<1> USE CmdQueueAssumption DEF TypeOK, LastInv, Sendable, vars, callerVars, memVars, hvqVars, rtVars
<1>1. ASSUME NEW c \in Callers, Alloc(c) PROVE LastInv'
  BY <1>1 DEF Alloc, GoTo, OwnInv, NoUseAfterFree, UsesVbuf
<1>2. ASSUME NEW c \in Callers, CheckReady(c) PROVE LastInv'
  <2>1. \A e \in Callers : e # c => pc'[e] = pc[e] /\ vbuf'[e] = vbuf[e] /\ call'[e] = call[e]
    BY <1>2, OthersStay DEF Caller
  <2>2. pc'[c] \notin Sendable /\ UNCHANGED <<pending, vkey, vid, td>>
    BY <1>2 DEF CheckReady, GoTo, Return
  <2> QED
    BY <2>1, <2>2
<1>3. ASSUME NEW c \in Callers, Enqueue(c) PROVE LastInv'
  <2>1. /\ pc[c] = "enqueue" /\ pc' = [pc EXCEPT ![c] = "kick"] /\ UNCHANGED <<call, vbuf, vkey, td>>
        /\ vid' = [vid EXCEPT ![vbuf[c]] = vbufs_sent] /\ pending' = pending \cup {vbuf[c]}
    BY <1>3 DEF Enqueue, GoTo
  <2>2. ASSUME td = "up", NEW e \in Callers, e # c, call[e] = call[c], call[e] \notin SyncKeys, pc[e] # "idle"
        PROVE  FALSE
    <3>1. call[e] \in CallerKeys[e] \cap CallerKeys[c]
      BY <2>1, <2>2 DEF KickInv
    <3> QED
      BY <2>2, <3>1 DEF OneAsyncCaller
  <2>3. td = "up" => vkey[vbuf[c]] = call[c] /\ vbuf[c] \in Slots
    BY <2>1 DEF OwnInv, NoUseAfterFree, UsesVbuf
  <2>4. \A s \in Slots : vid[s] < vbufs_sent
    BY DEF IdInv
  <2> SUFFICES ASSUME td = "up", NEW e \in Callers, NEW s \in pending',
                      pc'[e] \in Sendable, call[e] \notin SyncKeys,
                      vbuf[e] \in pending', vkey[vbuf[e]] = call[e], vkey[s] = call[e], s # vbuf[e]
               PROVE  vid'[s] < vid'[vbuf[e]]
    BY <2>1
  <2>5. CASE e = c
    BY <2>1, <2>3, <2>4, <2>5
  <2>6. CASE e # c
    <3>1. pc[e] \in Sendable /\ s # vbuf[c] /\ vbuf[e] # vbuf[c]
      BY <2>1, <2>2, <2>3, <2>6
    <3> QED
      BY <2>1, <2>6, <3>1
  <2> QED
    BY <2>5, <2>6
<1>4. ASSUME NEW c \in Callers, KickTake(c) PROVE LastInv'
  BY <1>4 DEF KickTake, GoTo, UnattachVbuf, OwnInv, NoUseAfterFree, UsesVbuf
<1>5. ASSUME NEW c \in Callers, KickFail(c) PROVE LastInv'
  BY <1>5 DEF KickFail, Return, OwnInv, NoUseAfterFree, UsesVbuf
<1>6. ASSUME NEW c \in Callers, Send(c) PROVE LastInv'
  BY <1>6 DEF Send, GoTo, OwnInv, NoUseAfterFree, UsesVbuf
<1>7. ASSUME NEW c \in Callers, SendFail(c) PROVE LastInv'
  BY <1>7 DEF SendFail, GoTo, OwnInv, NoUseAfterFree, UsesVbuf
<1>8. ASSUME NEW c \in Callers, Relock(c) PROVE LastInv'
  <2>1. \A e \in Callers : e # c => pc'[e] = pc[e] /\ vbuf'[e] = vbuf[e] /\ call'[e] = call[e]
    BY <1>8, OthersStay DEF Caller
  <2>2. pc'[c] \notin Sendable /\ UNCHANGED <<pending, vkey, vid, td>>
    BY <1>8 DEF Relock, GoTo, Return
  <2> QED
    BY <2>1, <2>2
<1>9. ASSUME NEW c \in Callers, Completed(c) PROVE LastInv'
  BY <1>9 DEF Completed, GoTo, OwnInv, NoUseAfterFree, UsesVbuf
<1>10. ASSUME NEW c \in Callers, Timeout(c) PROVE LastInv'
  BY <1>10 DEF Timeout, GoTo, OwnInv, NoUseAfterFree, UsesVbuf
<1>11. ASSUME NEW c \in Callers, Reclaim(c) PROVE LastInv'
  BY <1>11 DEF Reclaim, LockFree, FreeVbuf, Return, OwnInv, NoUseAfterFree, UsesVbuf
<1>12. CASE Recv
  BY <1>12 DEF Recv, RtGoTo, OwnInv, NoUseAfterFree, UsesVbuf
<1>13. CASE RecvError
  BY <1>13 DEF RecvError, RtGoTo, OwnInv, NoUseAfterFree, UsesVbuf
<1>14. CASE RecvClosed
  BY <1>14 DEF RecvClosed, RtGoTo, OwnInv, NoUseAfterFree, UsesVbuf
<1>15. CASE MatchFound
  BY <1>15 DEF MatchFound, LockFree, AttachResp, RtGoTo, IsFirst, Candidates, OwnInv, NoUseAfterFree, UsesVbuf
<1>16. CASE MatchNone
  BY <1>16 DEF MatchNone, LockFree, RtGoTo, OwnInv, NoUseAfterFree, UsesVbuf
<1>17. CASE CmdCbEnter
  BY <1>17 DEF CmdCbEnter, LockFree, Acquire, RtGoTo, OwnInv, NoUseAfterFree, UsesVbuf
<1>18. CASE CmdCbGet
  BY <1>18 DEF CmdCbGet, UnattachResp, FreeVbuf, OwnInv, NoUseAfterFree, UsesVbuf
<1>19. CASE CmdCbLeave
  BY <1>19 DEF CmdCbLeave, RtGoTo, OwnInv, NoUseAfterFree, UsesVbuf
<1>20. CASE Break
  BY <1>20 DEF Break, RtGoTo, OwnInv, NoUseAfterFree, UsesVbuf
<1>21. CASE ErrorLoop
  BY <1>21 DEF ErrorLoop, OwnInv, NoUseAfterFree, UsesVbuf
<1>22. CASE SelfStop
  BY <1>22 DEF SelfStop, RtGoTo, OwnInv, NoUseAfterFree, UsesVbuf
<1>23. CASE EvtClose
  BY <1>23 DEF EvtClose, OwnInv, NoUseAfterFree, UsesVbuf
<1>24. CASE EvtStopped
  BY <1>24 DEF EvtStopped, OwnInv, NoUseAfterFree, UsesVbuf
<1>25. CASE Deinit
  BY <1>25 DEF Deinit, OwnInv, NoUseAfterFree, UsesVbuf
<1>26. CASE FreeVbufs
  BY <1>26 DEF FreeVbufs, UnattachVbuf, UnattachResp, FreeVbuf, OwnInv, NoUseAfterFree, UsesVbuf
<1>27. CASE FreeVbufsEnd
  BY <1>27 DEF FreeVbufsEnd, OwnInv, NoUseAfterFree, UsesVbuf
<1>28. CASE DelVqs
  BY <1>28 DEF DelVqs, OwnInv, NoUseAfterFree, UsesVbuf
<1>29. CASE Stopped
  BY <1>29 DEF Stopped, OwnInv, NoUseAfterFree, UsesVbuf
<1>30. CASE UNCHANGED vars
  BY <1>30 DEF OwnInv, NoUseAfterFree, UsesVbuf
<1> QED
  BY <1>1, <1>2, <1>3, <1>4, <1>5, <1>6, <1>7, <1>8, <1>9, <1>10, <1>11, <1>12, <1>13, <1>14, <1>15,
     <1>16, <1>17, <1>18, <1>19, <1>20, <1>21, <1>22, <1>23, <1>24, <1>25, <1>26, <1>27, <1>28, <1>29, <1>30
     DEF Next, RunningNext, Caller, Responder, Teardown
-----------------------------------------------------------------------------
(* Nothing leaks.                                                          *)

WorkInv == TypeOK /\ LockInv /\ PoolInv /\ OwnInv /\ KickInv /\ HeldInv /\ FiniteInv /\ IdInv /\ LastInv

\* There are answers for all vbufs of key k.
Enough(k) == Cardinality(Awaiting(k)) <= Cardinality(Rest(k)) + Matching(k) + Found(k)

\* The sets that are counted are finite.
LEMMA CountsFinite ==
  ASSUME FiniteInv, NEW k
  PROVE  /\ IsFiniteSet(Awaiting(k)) /\ Cardinality(Awaiting(k)) \in Nat
         /\ IsFiniteSet(Rest(k)) /\ Cardinality(Rest(k)) \in Nat
         /\ IsFiniteSet(Sent(k)) /\ Cardinality(Sent(k)) \in Nat
<1>1. Awaiting(k) \subseteq pending /\ Rest(k) \subseteq inflight /\ Sent(k) \subseteq inflight
  BY DEF Awaiting, Rest, Sent
<1>2. IsFiniteSet(Awaiting(k)) /\ IsFiniteSet(Rest(k)) /\ IsFiniteSet(Sent(k))
  BY <1>1, FS_Subset DEF FiniteInv
<1> QED
  BY <1>2, FS_CardinalityType

\* With as many vbufs and no fewer answers, there are still enough.
LEMMA EnoughKept ==
  ASSUME FiniteInv, FiniteInv', NEW k, Enough(k),
         Awaiting(k)' = Awaiting(k), Rest(k) \subseteq Rest(k)',
         Matching(k) + Found(k) <= Matching(k)' + Found(k)'
  PROVE  Enough(k)'
<1>1. Cardinality(Rest(k)) \in Nat /\ Cardinality(Awaiting(k)) \in Nat
  BY CountsFinite
<1>2. IsFiniteSet(Rest(k)') /\ Cardinality(Rest(k)') \in Nat
  <2>1. Rest(k)' \subseteq inflight'
    BY DEF Rest
  <2>2. IsFiniteSet(Rest(k)')
    BY <2>1, FS_Subset DEF FiniteInv
  <2> QED
    BY <2>2, FS_CardinalityType
<1>3. Cardinality(Rest(k)) <= Cardinality(Rest(k)')
  BY <1>2, FS_Subset
<1>4. Matching(k) \in {0, 1} /\ Found(k) \in {0, 1} /\ Matching(k)' \in {0, 1} /\ Found(k)' \in {0, 1}
  BY DEF Matching, Found
<1>5. Cardinality(Awaiting(k)') = Cardinality(Awaiting(k))
  BY Zenon
<1> QED
  BY <1>1, <1>2, <1>3, <1>4, <1>5 DEF Enough

\* What the callers' steps between enqueue and send do not touch.
SameHands ==
  /\ UNCHANGED <<pending, vkey, vid>>
  /\ \A e \in Callers :
       /\ pc'[e] \in Sendable <=> pc[e] \in Sendable
       /\ pc[e] \in Sendable => vbuf'[e] = vbuf[e] /\ call'[e] = call[e]

\* Then the same vbufs are unsent.
LEMMA SameSets ==
  ASSUME SameHands, NEW k
  PROVE  /\ Awaiting(k)' = Awaiting(k)
         /\ UNCHANGED inflight => Rest(k)' = Rest(k)
<1>1. \A s : Unsent(s)' <=> Unsent(s)
  BY DEF SameHands, Unsent
<1>2. pending' = pending /\ vkey' = vkey /\ vid' = vid
  BY DEF SameHands
<1>3. \A s : s \in Awaiting(k)' <=> s \in Awaiting(k)
  BY <1>1, <1>2 DEF Awaiting
<1>4. ASSUME inflight' = inflight PROVE \A m : m \in Rest(k)' <=> m \in Rest(k)
  BY <1>1, <1>2, <1>4 DEF Rest
<1> QED
  BY <1>3, <1>4

\* The steps that change neither what is counted nor what is found.
LEMMA QuietSteps ==
  ASSUME TypeOK, KickInv, td = "up",
         \/ \E c \in Callers : CheckReady(c) \/ KickTake(c) \/ Relock(c) \/ Completed(c) \/ Timeout(c)
         \/ CmdCbEnter \/ CmdCbLeave \/ EvtClose \/ UNCHANGED vars
  PROVE  /\ SameHands /\ UNCHANGED <<inflight, resp_list, rmsg>>
         /\ rt' = rt \/ (rt # "match" /\ rt' # "match")
<1> USE DEF vars, callerVars, memVars, hvqVars, rtVars
<1>1. ASSUME NEW c \in Callers, CheckReady(c) \/ KickTake(c) \/ Relock(c) \/ Completed(c) \/ Timeout(c)
      PROVE  SameHands /\ UNCHANGED <<inflight, resp_list, rmsg, rt>>
  <2>1. \A e \in Callers : e # c => pc'[e] = pc[e] /\ vbuf'[e] = vbuf[e] /\ call'[e] = call[e]
    BY <1>1, OthersStay DEF Caller
  <2>2. UNCHANGED <<pending, vkey, vid, inflight, resp_list, rmsg, rt>>
    BY <1>1 DEF CheckReady, KickTake, UnattachVbuf, Relock, Completed, Timeout
  <2>3. CASE CheckReady(c) \/ Relock(c) \/ Completed(c) \/ Timeout(c)
    <3>1. pc[c] \notin Sendable /\ pc'[c] \notin Sendable
      BY <2>3 DEF CheckReady, Relock, Completed, Timeout, GoTo, Return, Sendable, TypeOK
    <3> QED
      BY <2>1, <2>2, <3>1 DEF SameHands
  <2>4. CASE KickTake(c)
    <3>1. pc[c] \in Sendable /\ pc'[c] \in Sendable /\ UNCHANGED <<vbuf, call>>
      BY <2>4 DEF KickTake, GoTo, Sendable, TypeOK
    <3> QED
      BY <2>1, <2>2, <3>1 DEF SameHands
  <2> QED
    BY <1>1, <2>2, <2>3, <2>4
<1>2. CASE CmdCbEnter \/ CmdCbLeave \/ EvtClose \/ UNCHANGED vars
  BY <1>2 DEF CmdCbEnter, CmdCbLeave, EvtClose, RtGoTo, SameHands
<1> QED
  BY <1>1, <1>2
\* The lists of the vq_bufs hold at most one answered vbuf, and none between two answers.
LEMMA OneAnswered ==
  ASSUME TypeOK, PoolInv, td = "up"
  PROVE  /\ rt \in {"recv", "match"} => resp_list = <<>>
         /\ resp_list # <<>> => Head(resp_list) \in Slots /\ Tail(resp_list) = <<>>
<1>1. resp_list # <<>> => Tail(resp_list) = <<>>
  BY TailOfOne DEF TypeOK, PoolInv
<1> QED
  BY <1>1 DEF TypeOK, PoolInv

\* A new call, a new pending vbuf and the end of a synchronous call.
LEMMA EnoughCaller ==
  ASSUME WorkInv, FiniteInv', td = "up", NEW k \in Keys \ SyncKeys, Enough(k),
         NEW c \in Callers, Alloc(c) \/ Enqueue(c) \/ Reclaim(c)
  PROVE  Enough(k)'
<1> USE DEF callerVars, memVars, hvqVars, rtVars
<1>0. TypeOK /\ OwnInv /\ IdInv
  BY DEF WorkInv
<1>1. \A e \in Callers : e # c => pc'[e] = pc[e] /\ vbuf'[e] = vbuf[e] /\ call'[e] = call[e]
  BY <1>0, OthersStay DEF Caller
<1>2. UNCHANGED <<inflight, rt, rmsg, resp_list>>
  BY <1>0 DEF Alloc, Enqueue, Reclaim, AddSgs
<1>3. pending \subseteq live /\ pending \subseteq Slots
  BY <1>0 DEF OwnInv, NoUseAfterFree, TypeOK
<1>4. Awaiting(k)' = Awaiting(k) /\ Rest(k) \subseteq Rest(k)'
  <2>1. CASE Alloc(c)
    <3>1. \A s \in pending : vkey'[s] = vkey[s] /\ vid'[s] = vid[s]
      BY <2>1, <1>0, <1>3 DEF Alloc, TypeOK
    <3>2. pending' = pending /\ pc[c] \notin Sendable /\ pc'[c] \notin Sendable
      BY <2>1, <1>0 DEF Alloc, GoTo, Sendable, TypeOK
    <3>3. \A s \in pending : Unsent(s)' <=> Unsent(s)
      BY <1>1, <3>1, <3>2 DEF Unsent
    <3> QED
      BY <1>2, <3>1, <3>2, <3>3 DEF Awaiting, Rest
  <2>2. CASE Enqueue(c)
    <3>1. /\ pc[c] = "enqueue" /\ pc'[c] = "kick" /\ pending' = pending \cup {vbuf[c]}
          /\ UNCHANGED <<call, vbuf, vkey>> /\ vbuf[c] \in Slots /\ vbuf[c] \notin pending
          /\ vid'[vbuf[c]] = vbufs_sent /\ \A s \in Slots : s # vbuf[c] => vid'[s] = vid[s]
      BY <2>2, <1>0 DEF Enqueue, GoTo, TypeOK, OwnInv
    <3>2. \A s \in pending : Unsent(s)' <=> Unsent(s)
      BY <1>1, <3>1 DEF Unsent, Sendable
    <3>3. Unsent(vbuf[c])'
      BY <1>0, <3>1 DEF Unsent, Sendable, OwnInv, NoUseAfterFree, UsesVbuf
    <3>4. \A m \in inflight : m.id # vbufs_sent
      BY <1>0 DEF IdInv, TypeOK, Answers
    <3>5. Awaiting(k)' = Awaiting(k)
      BY <3>1, <3>2, <3>3 DEF Awaiting
    <3>6. Rest(k) \subseteq Rest(k)'
      BY <1>2, <1>3, <3>1, <3>2, <3>4 DEF Rest
    <3> QED
      BY <3>5, <3>6
  <2>3. CASE Reclaim(c)
    <3>1. /\ pc[c] = "reclaim" /\ pc'[c] = "idle" /\ pending' = pending \ {vbuf[c]} /\ UNCHANGED <<vkey, vid>>
      BY <2>3, <1>0 DEF Reclaim, Return, FreeVbuf, TypeOK
    <3>2. vkey[vbuf[c]] \in SyncKeys
      BY <1>0, <3>1 DEF OwnInv, NoUseAfterFree, UsesVbuf
    <3>3. \A s : Unsent(s)' <=> Unsent(s)
      BY <1>1, <3>1 DEF Unsent, Sendable
    <3> QED
      BY <1>2, <3>1, <3>2, <3>3 DEF Awaiting, Rest
  <2> QED
    BY <2>1, <2>2, <2>3
<1>5. Matching(k)' = Matching(k) /\ Found(k)' = Found(k)
  BY <1>2, <1>4 DEF Matching, Found
<1>6. Matching(k) \in Int /\ Found(k) \in Int
  BY DEF Matching, Found
<1> QED
  BY <1>0, <1>4, <1>5, <1>6, EnoughKept DEF WorkInv

\* Commands that nobody waits for are issued by one caller at a time.
LEMMA OneIssuer ==
  ASSUME OneAsyncCaller, KickInv, NEW c \in Callers, NEW e \in Callers, e # c,
         pc[c] # "idle", pc[e] # "idle", call[e] = call[c], call[c] \notin SyncKeys
  PROVE  FALSE
<1>1. call[c] \in CallerKeys[e] \cap CallerKeys[c]
  BY DEF KickInv
<1> QED
  BY <1>1 DEF OneAsyncCaller

\* A command that reaches the back end brings the answer for its vbuf with it.
LEMMA EnoughSend ==
  ASSUME OneAsyncCaller, WorkInv, FiniteInv', td = "up", NEW k \in Keys \ SyncKeys, Enough(k),
         NEW c \in Callers, Send(c)
  PROVE  Enough(k)'
<1> USE DEF callerVars, memVars, hvqVars, rtVars
<1>0. TypeOK /\ OwnInv /\ KickInv /\ FiniteInv
  BY DEF WorkInv
<1> DEFINE b == vbuf[c]
           m == [key |-> vkey[b], id |-> vid[b]]
<1>1. /\ \A e \in Callers : e # c => pc'[e] = pc[e]
      /\ UNCHANGED <<vbuf, call, pending, vkey, vid, resp_list, rt, rmsg>>
  BY <1>0, OthersStay DEF Caller, Send
<1>2. pc[c] = "send" /\ pc'[c] = "relock" /\ inflight' = inflight \cup {m}
  BY <1>0 DEF Send, GoTo, TypeOK, KickInv
<1>3. \A s \in pending : vkey[s] = k =>
        (Unsent(s)' <=> Unsent(s) /\ ~(s = b /\ call[c] = k))
  <2> SUFFICES ASSUME NEW s \in pending, vkey[s] = k
               PROVE  Unsent(s)' <=> Unsent(s) /\ ~(s = b /\ call[c] = k)
    OBVIOUS
  <2>1. ASSUME Unsent(s)' PROVE Unsent(s) /\ ~(s = b /\ call[c] = k)
    <3>1. PICK e \in Callers : vbuf[e] = s /\ pc'[e] \in Sendable /\ call[e] = k
      BY <2>1, <1>1 DEF Unsent
    <3>2. e # c /\ pc[e] \in Sendable
      BY <3>1, <1>1, <1>2 DEF Sendable
    <3>3. call[c] # k
      BY <3>1, <3>2, <1>0, <1>2, OneIssuer DEF Sendable
    <3> QED
      BY <3>1, <3>2, <3>3 DEF Unsent
  <2>2. ASSUME Unsent(s), ~(s = b /\ call[c] = k) PROVE Unsent(s)'
    <3>1. PICK e \in Callers : vbuf[e] = s /\ pc[e] \in Sendable /\ call[e] = k
      BY <2>2 DEF Unsent
    <3>2. e # c
      BY <3>1, <2>2
    <3> QED
      BY <3>1, <3>2, <1>1 DEF Unsent
  <2> QED
    BY <2>1, <2>2
<1>4. Matching(k)' = Matching(k)
  BY <1>1 DEF Matching
<1>5. Matching(k) \in {0, 1} /\ Found(k) \in {0, 1} /\ Found(k)' \in {0, 1}
  BY DEF Matching, Found
<1>6. Awaiting(k) \subseteq Awaiting(k)'
  BY <1>1, <1>3 DEF Awaiting
<1>7. Found(k) <= Found(k)'
  BY <1>1, <1>6 DEF Found
<1>8. CASE b \in pending /\ vkey[b] = k /\ call[c] = k
  <2>1. Unsent(b) /\ b \notin Awaiting(k)
    BY <1>2, <1>8 DEF Unsent, Sendable, Awaiting
  <2>2. Awaiting(k)' = Awaiting(k) \cup {b}
    BY <1>1, <1>3, <1>8 DEF Awaiting
  <2>3. Cardinality(Awaiting(k)') = Cardinality(Awaiting(k)) + 1
    BY <2>1, <2>2, <1>0, CountsFinite, FS_AddElement
  <2>4. m \notin Rest(k)
    BY <2>1, <1>8 DEF Rest
  <2>5. \A s \in pending : vkey[s] = k => ~Unsent(s)'
    <3> SUFFICES ASSUME NEW s \in pending, vkey[s] = k, Unsent(s)' PROVE FALSE
      OBVIOUS
    <3>1. PICK e \in Callers : vbuf[e] = s /\ pc'[e] \in Sendable /\ call[e] = k
      BY <1>1 DEF Unsent
    <3>2. e # c /\ pc[e] # "idle"
      BY <3>1, <1>1, <1>2 DEF Sendable
    <3> QED
      BY <3>1, <3>2, <1>0, <1>2, <1>8, OneIssuer
  <2>6. Rest(k)' = {x \in inflight' : x.key = k}
    BY <2>5, <1>1 DEF Rest
  <2>7. Rest(k) \cup {m} \subseteq Rest(k)'
    BY <2>6, <1>2, <1>8 DEF Rest
  <2>8. /\ IsFiniteSet(Rest(k)) /\ Cardinality(Rest(k)) \in Nat
        /\ Cardinality(Awaiting(k)) \in Nat
    BY <1>0, CountsFinite
  <2>9. Cardinality(Rest(k) \cup {m}) = Cardinality(Rest(k)) + 1
    BY <2>4, <2>8, FS_AddElement
  <2>10. IsFiniteSet(Rest(k)') /\ Cardinality(Rest(k)') \in Nat
    <3>1. Rest(k)' \subseteq inflight'
      BY DEF Rest
    <3>2. IsFiniteSet(Rest(k)')
      BY <3>1, FS_Subset DEF FiniteInv
    <3> QED
      BY <3>2, FS_CardinalityType
  <2>11. Cardinality(Rest(k) \cup {m}) <= Cardinality(Rest(k)')
    BY <2>7, <2>10, FS_Subset
  <2> QED
    BY <1>4, <1>5, <1>7, <2>3, <2>8, <2>9, <2>10, <2>11 DEF Enough
<1>9. CASE ~(b \in pending /\ vkey[b] = k /\ call[c] = k)
  <2>1. \A s \in pending : vkey[s] = k => (Unsent(s)' <=> Unsent(s))
    BY <1>3, <1>9
  <2>2. Awaiting(k)' = Awaiting(k)
    BY <2>1, <1>1 DEF Awaiting
  <2>3. Rest(k) \subseteq Rest(k)'
    BY <2>1, <1>1, <1>2 DEF Rest
  <2>4. Matching(k) + Found(k) <= Matching(k)' + Found(k)'
    BY <1>4, <1>5, <1>7
  <2> QED
    BY <1>0, <2>2, <2>3, <2>4, EnoughKept
<1> QED
  BY <1>8, <1>9

\* An answer leaves the back end for the response thread.
LEMMA EnoughRecv ==
  ASSUME WorkInv, FiniteInv', td = "up", NEW k \in Keys \ SyncKeys, Enough(k), Recv
  PROVE  Enough(k)'
<1> USE DEF callerVars, memVars, hvqVars, rtVars
<1>0. TypeOK /\ PoolInv /\ FiniteInv
  BY DEF WorkInv
<1>1. PICK m \in inflight : rmsg' = m /\ inflight' = inflight \ {m}
  BY DEF Recv
<1>2. SameHands /\ rt = "recv" /\ rt' = "match" /\ resp_list' = resp_list /\ resp_list = <<>>
  BY <1>0, OneAnswered DEF Recv, RtGoTo, SameHands
<1>3. Awaiting(k)' = Awaiting(k)
  BY <1>2, SameSets
<1>4. Rest(k)' = Rest(k) \ {m}
  <2>1. \A s : Unsent(s)' <=> Unsent(s)
    BY <1>2 DEF SameHands, Unsent
  <2> QED
    BY <2>1, <1>1, <1>2 DEF SameHands, Rest
<1>5. Matching(k) = 0 /\ Found(k) = 0 /\ Found(k)' = 0
  BY <1>2 DEF Matching, Found
<1>6. IsFiniteSet(Rest(k)) /\ Cardinality(Rest(k)) \in Nat /\ Cardinality(Awaiting(k)) \in Nat
  BY <1>0, CountsFinite
<1>7. CASE m.key = k
  <2>1. Matching(k)' = 1
    BY <1>1, <1>2, <1>7 DEF Matching
  <2>2. IsFiniteSet(Rest(k)') /\ Cardinality(Rest(k)') \in Nat /\ Cardinality(Rest(k)) <= Cardinality(Rest(k)') + 1
    <3>1. CASE m \in Rest(k)
      <4>1. IsFiniteSet(Rest(k) \ {m}) /\ Cardinality(Rest(k) \ {m}) = Cardinality(Rest(k)) - 1
        BY <1>6, <3>1, FS_RemoveElement
      <4>2. Cardinality(Rest(k) \ {m}) \in Nat
        BY <4>1, FS_CardinalityType
      <4> QED
        BY <1>4, <1>6, <4>1, <4>2
    <3>2. CASE m \notin Rest(k)
      <4>1. Rest(k)' = Rest(k)
        BY <3>2, <1>4
      <4> QED
        BY <4>1, <1>6
    <3> QED
      BY <3>1, <3>2
  <2>3. Cardinality(Awaiting(k)') = Cardinality(Awaiting(k))
    BY <1>3, Zenon
  <2> QED
    BY <1>5, <1>6, <2>1, <2>2, <2>3 DEF Enough
<1>8. CASE m.key # k
  <2>1. Rest(k)' = Rest(k)
    BY <1>4, <1>8 DEF Rest
  <2>2. Matching(k)' = 0
    BY <1>1, <1>2, <1>8 DEF Matching
  <2>3. Matching(k) + Found(k) <= Matching(k)' + Found(k)'
    BY <1>5, <2>2
  <2> QED
    BY <1>0, <1>3, <2>1, <2>3, EnoughKept
<1> QED
  BY <1>7, <1>8

\* The answer goes to a vbuf that is not waiting to be sent, if there is one.
LEMMA EnoughMatch ==
  ASSUME WorkInv, FiniteInv', td = "up", NEW k \in Keys \ SyncKeys, Enough(k), MatchFound
  PROVE  Enough(k)'
<1> USE DEF callerVars, memVars, hvqVars, rtVars
<1>0. TypeOK /\ PoolInv /\ FiniteInv /\ LastInv
  BY DEF WorkInv
<1>1. PICK f \in Slots : IsFirst(f) /\ AttachResp(f)
  BY DEF MatchFound
<1>2. SameHands /\ UNCHANGED inflight /\ rt = "match" /\ rt' = "cmd_cb"
  BY DEF MatchFound, RtGoTo, SameHands
<1>3. Awaiting(k)' = Awaiting(k) /\ Rest(k)' = Rest(k)
  BY <1>2, SameSets
<1>4. resp_list = <<>> /\ Len(vbuf_list) <= 1 /\ unused + Len(vbuf_list) + Len(resp_list) = VqNum
  BY <1>0, <1>2 DEF PoolInv
<1>5. unused > 0
  BY <1>0, <1>4, CmdQueueAssumption DEF TypeOK
<1>6. resp_list' = Append(resp_list, f)
  BY <1>1, <1>5 DEF AttachResp
<1>7. resp_list' # <<>> /\ Head(resp_list') = f
  BY <1>4, <1>6
<1>8. Matching(k)' = 0 /\ Found(k) = 0 /\ Found(k)' \in {0, 1} /\ Matching(k) \in {0, 1}
  BY <1>2, <1>4 DEF Matching, Found
<1>9. CASE rmsg.key = k /\ Awaiting(k) # {}
  <2>1. PICK a : a \in Awaiting(k)
    BY <1>9
  <2>2. a \in pending /\ vkey[a] = k /\ ~Unsent(a) /\ f \in pending /\ vkey[f] = k /\ vid[f] <= vid[a]
    BY <1>1, <1>9, <2>1 DEF Awaiting, IsFirst, Candidates
  <2>3. ~Unsent(f)
    <3> SUFFICES ASSUME Unsent(f) PROVE FALSE
      OBVIOUS
    <3>1. PICK c \in Callers : vbuf[c] = f /\ pc[c] \in Sendable /\ call[c] = k
      BY <2>2 DEF Unsent
    <3>2. a # f
      BY <2>2
    <3>3. vid[a] < vid[f]
      BY <1>0, <2>2, <3>1, <3>2 DEF LastInv
    <3> QED
      BY <1>0, <2>2, <3>3 DEF TypeOK
  <2>4. f \in Awaiting(k)'
    BY <1>3, <2>2, <2>3 DEF Awaiting
  <2>5. Found(k)' = 1
    BY <1>7, <2>4 DEF Found
  <2>6. Matching(k) + Found(k) <= Matching(k)' + Found(k)'
    BY <1>8, <2>5
  <2> QED
    BY <1>0, <1>3, <2>6, EnoughKept
<1>10. CASE rmsg.key # k
  <2>1. Matching(k) + Found(k) <= Matching(k)' + Found(k)'
    BY <1>8, <1>10 DEF Matching
  <2> QED
    BY <1>0, <1>3, <2>1, EnoughKept
<1>11. CASE Awaiting(k) = {}
  <2>1. Cardinality(Awaiting(k)') = 0
    BY <1>3, <1>11, FS_EmptySet
  <2>2. Cardinality(Rest(k)') \in Nat
    BY <1>0, <1>3, CountsFinite
  <2> QED
    BY <1>8, <2>1, <2>2 DEF Enough
<1> QED
  BY <1>9, <1>10, <1>11

\* The vbuf found is freed: one vbuf and one answer less.
LEMMA EnoughGet ==
  ASSUME WorkInv, FiniteInv', td = "up", NEW k \in Keys \ SyncKeys, Enough(k), CmdCbGet
  PROVE  Enough(k)'
<1> USE DEF callerVars, memVars, hvqVars, rtVars
<1>0. TypeOK /\ PoolInv /\ FiniteInv
  BY DEF WorkInv
<1> DEFINE s == Head(resp_list)
<1>1. /\ rt = "drain" /\ rt' = "drain" /\ resp_list # <<>> /\ resp_list' = <<>>
      /\ UNCHANGED <<pc, call, vbuf, vkey, vid, inflight>>
  BY <1>0, OneAnswered DEF CmdCbGet, UnattachResp
<1>2. pending' = IF s \in pending /\ vkey[s] \notin SyncKeys THEN pending \ {s} ELSE pending
  BY DEF CmdCbGet, FreeVbuf
<1>3. \A t : Unsent(t)' <=> Unsent(t)
  BY <1>1 DEF Unsent
<1>4. Awaiting(k)' = Awaiting(k) \ {s}
  BY <1>1, <1>2, <1>3 DEF Awaiting
<1>5. Rest(k) \subseteq Rest(k)'
  BY <1>1, <1>2, <1>3 DEF Rest
<1>6. Matching(k) = 0 /\ Matching(k)' = 0 /\ Found(k)' = 0
  BY <1>1 DEF Matching, Found
<1>7. CASE s \in Awaiting(k)
  <2>1. Found(k) = 1
    BY <1>1, <1>7 DEF Found
  <2>2. IsFiniteSet(Awaiting(k)) /\ Cardinality(Awaiting(k)) \in Nat /\ Cardinality(Rest(k)) \in Nat
    BY <1>0, CountsFinite
  <2>3. Cardinality(Awaiting(k)') = Cardinality(Awaiting(k)) - 1
    BY <1>4, <1>7, <2>2, FS_RemoveElement
  <2>4. IsFiniteSet(Rest(k)') /\ Cardinality(Rest(k)') \in Nat
    <3>1. Rest(k)' \subseteq inflight'
      BY DEF Rest
    <3>2. IsFiniteSet(Rest(k)')
      BY <3>1, FS_Subset DEF FiniteInv
    <3> QED
      BY <3>2, FS_CardinalityType
  <2>5. Cardinality(Rest(k)) <= Cardinality(Rest(k)')
    BY <1>5, <2>4, FS_Subset
  <2> QED
    BY <1>6, <2>1, <2>2, <2>3, <2>4, <2>5 DEF Enough
<1>8. CASE s \notin Awaiting(k)
  <2>1. Awaiting(k)' = Awaiting(k)
    BY <1>4, <1>8
  <2>2. Found(k) = 0
    BY <1>8 DEF Found
  <2>3. Matching(k) + Found(k) <= Matching(k)' + Found(k)'
    BY <1>6, <2>2
  <2> QED
    BY <1>0, <1>5, <2>1, <2>3, EnoughKept
<1> QED
  BY <1>7, <1>8

\* No step mends a broken queue, and the response thread does not come back from its error path.
LEMMA ServingBack ==
  ASSUME [Next]_vars, ~broken', Serving', TypeOK
  PROVE  ~broken /\ Serving
<1> USE DEF vars, callerVars, memVars, hvqVars, rtVars, Serving
<1>1. ASSUME NEW c \in Callers, Alloc(c) \/ Caller(c) PROVE rt' = rt /\ (broken => broken')
  BY <1>1 DEF Caller, Alloc, CheckReady, Enqueue, KickTake, KickFail, Send, SendFail, Relock,
     Completed, Timeout, Reclaim
<1>2. CASE Responder
  BY <1>2 DEF Responder, Recv, RecvError, RecvClosed, MatchFound, MatchNone, CmdCbEnter,
     CmdCbGet, CmdCbLeave, Break, ErrorLoop, SelfStop, RtGoTo
<1>3. CASE Teardown \/ UNCHANGED vars
  BY <1>3 DEF Teardown, EvtClose, EvtStopped, Deinit, FreeVbufs, FreeVbufsEnd, DelVqs, Stopped
<1> QED
  BY <1>1, <1>2, <1>3 DEF Next, RunningNext

\* Every step keeps enough answers for the vbufs that nobody waits for.
LEMMA LeakStep == WorkInv /\ FiniteInv' /\ OneAsyncCaller /\ LeakInv /\ [Next]_vars => LeakInv'
<1> SUFFICES ASSUME WorkInv, FiniteInv', OneAsyncCaller, LeakInv, [Next]_vars,
                    td' = "up", ~broken', Serving', NEW k \in Keys \ SyncKeys
             PROVE  Enough(k)'
  BY DEF LeakInv, Enough
<1>0. TypeOK /\ PoolInv /\ KickInv /\ FiniteInv
  BY DEF WorkInv
<1>u. td = "up" /\ ~broken /\ Serving
  BY <1>0, PhaseStep, ServingBack
<1>e. Enough(k)
  BY <1>u DEF LeakInv, Enough
<1>q. CASE \/ \E c \in Callers : CheckReady(c) \/ KickTake(c) \/ Relock(c) \/ Completed(c) \/ Timeout(c)
           \/ CmdCbEnter \/ CmdCbLeave \/ EvtClose \/ UNCHANGED vars
  <2>1. SameHands /\ UNCHANGED <<inflight, resp_list, rmsg>> /\ (rt' = rt \/ (rt # "match" /\ rt' # "match"))
    BY <1>0, <1>u, <1>q, QuietSteps
  <2>2. Awaiting(k)' = Awaiting(k) /\ Rest(k)' = Rest(k)
    BY <2>1, SameSets
  <2>3. Matching(k)' = Matching(k) /\ Found(k)' = Found(k)
    BY <2>1, <2>2 DEF Matching, Found
  <2>4. Matching(k) \in Int /\ Found(k) \in Int
    BY DEF Matching, Found
  <2> QED
    BY <1>0, <1>e, <2>2, <2>3, <2>4, EnoughKept
<1>1. ASSUME NEW c \in Callers, Alloc(c) \/ Enqueue(c) \/ Reclaim(c) PROVE Enough(k)'
  BY <1>1, <1>u, <1>e, EnoughCaller
<1>2. ASSUME NEW c \in Callers, Send(c) PROVE Enough(k)'
  BY <1>2, <1>u, <1>e, EnoughSend
<1>3. CASE Recv
  BY <1>3, <1>u, <1>e, EnoughRecv
<1>4. CASE MatchFound
  BY <1>4, <1>u, <1>e, EnoughMatch
<1>5. CASE CmdCbGet
  BY <1>5, <1>u, <1>e, EnoughGet
<1>6. ASSUME NEW c \in Callers, KickFail(c) \/ SendFail(c) PROVE FALSE
  <2>1. CASE KickFail(c)
    <3>1. pc[c] = "kick" /\ vbuf_list = <<>>
      BY <2>1, <1>u DEF KickFail
    <3>2. vbuf_list = <<vbuf[c]>>
      BY <3>1, <1>0, <1>u DEF KickInv
    <3> QED
      BY <3>1, <3>2
  <2>2. CASE SendFail(c)
    <3>1. broken'
      BY <2>2 DEF SendFail
    <3> QED
      BY <3>1
  <2> QED
    BY <1>6, <2>1, <2>2
<1>7. CASE RecvError \/ RecvClosed \/ MatchNone \/ Break \/ ErrorLoop \/ SelfStop \/ EvtStopped
  BY <1>7, <1>u DEF RecvError, RecvClosed, MatchNone, Break, ErrorLoop, SelfStop, EvtStopped, RtGoTo,
     Serving, rtVars
<1>8. CASE Deinit \/ FreeVbufs \/ FreeVbufsEnd \/ DelVqs \/ Stopped
  BY <1>8, <1>u DEF Deinit, FreeVbufs, FreeVbufsEnd, DelVqs, Stopped
<1> QED
  BY <1>q, <1>1, <1>2, <1>3, <1>4, <1>5, <1>6, <1>7, <1>8
     DEF Next, RunningNext, Caller, Responder, Teardown

\* The invariants hold after virtio_video_probe.
LEMMA WorkInit == Init => WorkInv /\ LeakInv
<1> SUFFICES ASSUME Init PROVE WorkInv /\ LeakInv
  OBVIOUS
<1>1. TypeOK
  BY TypeInit
<1>2. LockInv /\ OwnInv /\ PoolInv
  BY CmdQueueAssumption DEF Init, LockInv, OwnInv, NoUseAfterFree, UsesVbuf, PoolInv
<1>3. KickInv /\ HeldInv /\ LastInv /\ IdInv
  BY DEF Init, KickInv, HeldInv, LastInv, IdInv, NoId, Sendable
<1>4. FiniteInv
  BY FS_EmptySet DEF Init, FiniteInv
<1>5. LeakInv
  <2> SUFFICES ASSUME NEW k \in Keys \ SyncKeys
               PROVE  Cardinality(Awaiting(k)) <= Cardinality(Rest(k)) + Matching(k) + Found(k)
    BY DEF LeakInv
  <2>1. Awaiting(k) = {}
    BY DEF Init, Awaiting
  <2>2. Cardinality(Awaiting(k)) = 0
    BY <2>1, FS_EmptySet
  <2>3. Cardinality(Rest(k)) \in Nat
    BY <1>4, CountsFinite
  <2>4. Matching(k) \in {0, 1} /\ Found(k) \in {0, 1}
    BY DEF Matching, Found
  <2> QED
    BY <2>2, <2>3, <2>4
<1> QED
  BY <1>1, <1>2, <1>3, <1>4, <1>5 DEF WorkInv

\* Every step keeps the invariants.
LEMMA WorkStep == OneAsyncCaller /\ WorkInv /\ [Next]_vars => WorkInv'
  BY TypeStep, LockStep, PoolStep, OwnStep, KickStep, HeldStep, FiniteStep, IdStep, LastStep DEF WorkInv

\* When the back end has answered everything, the answers have emptied the pending list.
LEMMA QuiescentClean == WorkInv /\ LeakInv => NothingLeaks
<1> SUFFICES ASSUME WorkInv, LeakInv, ready, ~broken, Quiescent PROVE pending = {} /\ live = {}
  BY DEF NothingLeaks
<1>0. TypeOK /\ PoolInv /\ OwnInv /\ HeldInv /\ IdInv /\ FiniteInv
  BY DEF WorkInv
<1>1. td = "up"
  BY DEF WorkInv, KickInv
<1>2. (\A c \in Callers : pc[c] = "idle") /\ inflight = {} /\ rt = "recv" /\ resp_list = <<>>
  BY <1>0, <1>1, OneAnswered DEF Quiescent
<1>3. ASSUME NEW s \in pending PROVE FALSE
  <2>1. vkey[s] \in Keys
    BY <1>0, <1>1, <1>3 DEF OwnInv, NoUseAfterFree, IdInv
  <2>2. CASE vkey[s] \in SyncKeys
    BY <1>0, <1>1, <1>2, <1>3, <2>2 DEF HeldInv, Queued
  <2>3. CASE vkey[s] \notin SyncKeys
    <3> DEFINE k == vkey[s]
    <3>1. Cardinality(Awaiting(k)) <= Cardinality(Rest(k)) + Matching(k) + Found(k)
      BY <1>1, <1>2, <2>1, <2>3 DEF LeakInv, Serving
    <3>2. Matching(k) = 0 /\ Found(k) = 0
      BY <1>2 DEF Matching, Found
    <3>3. Rest(k) = {}
      BY <1>2 DEF Rest
    <3>4. Cardinality(Rest(k)) = 0
      BY <3>3, FS_EmptySet
    <3>5. IsFiniteSet(Awaiting(k)) /\ Cardinality(Awaiting(k)) \in Nat
      BY <1>0, CountsFinite
    <3>6. Cardinality(Awaiting(k)) = 0
      BY <3>1, <3>2, <3>4, <3>5
    <3>7. Awaiting(k) = {}
      BY <3>5, <3>6, FS_EmptySet
    <3>8. s \in Awaiting(k)
      BY <1>2, <1>3 DEF Awaiting, Unsent, Sendable
    <3> QED
      BY <3>7, <3>8
  <2> QED
    BY <2>2, <2>3
<1>4. ASSUME NEW s \in live PROVE FALSE
  BY <1>0, <1>1, <1>2, <1>3, <1>4 DEF HeldInv
<1> QED
  BY <1>3, <1>4

\* A queue that works leaks nothing, for any number of callers and whatever calls timed out: when
\* no call is in progress and the back end has answered everything, no vbuf is pending or
\* allocated.  It needs that RESOURCE_QUEUE has one issuer at a time for each stream.
THEOREM NothingLeaksTheorem == ASSUME OneAsyncCaller PROVE Spec => []NothingLeaks
<1>1. Init => WorkInv /\ LeakInv
  BY WorkInit
<1>2. WorkInv /\ LeakInv /\ [Next]_vars => WorkInv' /\ LeakInv'
  <2>1. WorkInv /\ [Next]_vars => WorkInv'
    BY WorkStep
  <2>2. WorkInv' => FiniteInv'
    BY DEF WorkInv
  <2> QED
    BY <2>1, <2>2, LeakStep
<1>3. WorkInv /\ LeakInv => NothingLeaks
  BY QuiescentClean
<1> QED
  BY <1>1, <1>2, <1>3, PTL DEF Spec
-----------------------------------------------------------------------------
(* The calls while none has timed out.                                     *)

\* What a step leaves to a caller that waits.
Keeps(d) == Waits(d)' /\ vbuf'[d] = vbuf[d] /\ call'[d] = call[d] /\ vid'[vbuf[d]] = vid[vbuf[d]]

\* An allocated vbuf keeps its command, and its answer unless another one is matched to it.
LEMMA MemoryKept ==
  ASSUME TypeOK, [Next]_vars, NEW s \in live
  PROVE  /\ vkey'[s] = vkey[s]
         /\ MatchFound \/ resp'[s] = resp[s]
<1> USE DEF callerVars, memVars, hvqVars, rtVars
<1>1. ASSUME NEW c \in Callers, Alloc(c) PROVE vkey'[s] = vkey[s] /\ resp'[s] = resp[s]
  BY <1>1 DEF Alloc, TypeOK
<1>2. ASSUME NEW c \in Callers, Caller(c) PROVE vkey'[s] = vkey[s] /\ resp'[s] = resp[s]
  BY <1>2 DEF Caller, CheckReady, Enqueue, KickTake, KickFail, Send, SendFail, Relock, Completed, Timeout, Reclaim
<1>3. CASE Responder
  BY <1>3 DEF Responder, Recv, RecvError, RecvClosed, MatchFound, MatchNone, CmdCbEnter,
     CmdCbGet, CmdCbLeave, Break, ErrorLoop, SelfStop
<1>4. CASE Teardown \/ UNCHANGED vars
  BY <1>4 DEF Teardown, EvtClose, EvtStopped, Deinit, FreeVbufs, FreeVbufsEnd, DelVqs, Stopped, vars
<1> QED
  BY <1>1, <1>2, <1>3, <1>4 DEF Next, RunningNext

\* The steps that move no answer.
LEMMA AnswersStay ==
  ASSUME TypeOK, [Next]_vars, td = "up", td' = "up", ~Recv, ~MatchFound, ~CmdCbGet, \A c \in Callers : ~Send(c)
  PROVE  /\ inflight' = inflight
         /\ Serving' => Serving /\ resp_list' = resp_list
         /\ rt' = "match" => rt = "match" /\ rmsg' = rmsg
<1> USE DEF callerVars, memVars, hvqVars, rtVars, Serving
<1>1. ASSUME NEW c \in Callers, Alloc(c) \/ Caller(c) PROVE UNCHANGED <<inflight, resp_list, rt, rmsg>>
  BY <1>1 DEF Caller, Alloc, CheckReady, Enqueue, AddSgs, KickTake, UnattachVbuf, KickFail, SendFail, Relock,
     Completed, Timeout, Reclaim
<1>2. CASE Responder
  BY <1>2 DEF Responder, RecvError, RecvClosed, MatchNone, CmdCbEnter, CmdCbLeave, Break, ErrorLoop,
     SelfStop, RtGoTo
<1>3. CASE EvtClose \/ EvtStopped \/ UNCHANGED vars
  BY <1>3 DEF EvtClose, EvtStopped, vars
<1>4. CASE Deinit \/ FreeVbufs \/ FreeVbufsEnd \/ DelVqs \/ Stopped
  BY <1>4 DEF Deinit, FreeVbufs, FreeVbufsEnd, DelVqs, Stopped
<1> QED
  BY <1>1, <1>2, <1>3, <1>4 DEF Next, RunningNext, Teardown

\* A caller that waits goes on waiting, until its own vbuf is completed.
LEMMA WaitsKept ==
  ASSUME OneCaller, WorkInv, OwnCalls, [Next]_vars, td = "up", td' = "up", ~timedOut, ~timedOut',
         NEW d \in Callers, Waits(d), CmdCbGet => Head(resp_list) # vbuf[d]
  PROVE  Keeps(d)
<1>0. TypeOK /\ LockInv /\ PoolInv /\ OwnInv /\ KickInv /\ HeldInv /\ IdInv
  BY DEF WorkInv
<1>l. pending \subseteq live /\ \A s \in live : s \in Slots /\ vkey[s] \in Keys
  BY <1>0 DEF OwnInv, NoUseAfterFree, IdInv, TypeOK
<1>u. \A c, e \in Callers : UsesVbuf(c) /\ UsesVbuf(e) /\ vbuf[c] = vbuf[e] => c = e
  BY <1>0 DEF OwnInv, NoUseAfterFree
<1>v. \A c \in Callers : UsesVbuf(c) => vbuf[c] \in live /\ vkey[vbuf[c]] = call[c]
  BY <1>0 DEF OwnInv, NoUseAfterFree
<1>k. \A c, e \in Callers : pc[c] # "idle" /\ pc[e] # "idle" /\ call[c] = call[e] => c = e
  BY <1>0 DEF KickInv, OneCaller
<1>d. Waits(d) /\ UsesVbuf(d)
  BY DEF Waits, UsesVbuf
<1> USE DEF callerVars, memVars, hvqVars, rtVars
<1>1. ASSUME NEW c \in Callers, Alloc(c) PROVE Keeps(d)
  <2> SUFFICES ASSUME c # d PROVE Keeps(d)
    BY <1>1, <1>d, <1>0 DEF Alloc, Waits
  <2>1. \A e \in Callers : e # c => pc'[e] = pc[e] /\ vbuf'[e] = vbuf[e] /\ call'[e] = call[e] /\ ret'[e] = ret[e]
    BY <1>1, <1>0, OthersStay DEF Caller
  <2>2. vid'[vbuf[d]] = vid[vbuf[d]] /\ reclaimed'[vbuf[d]] = reclaimed[vbuf[d]]
    <3>1. PICK s \in Slots \ live :
            vid' = [vid EXCEPT ![s] = NoId] /\ reclaimed' = [reclaimed EXCEPT ![s] = FALSE]
      BY <1>1 DEF Alloc
    <3>2. vbuf[d] # s /\ vbuf[d] \in Slots
      BY <3>1, <1>d, <1>v, <1>l
    <3> QED
      BY <3>1, <3>2, <1>0 DEF TypeOK, FlagsOK
  <2> QED
    BY <2>1, <2>2, <1>d DEF Keeps, Waits
<1>2. ASSUME NEW c \in Callers, CheckReady(c) PROVE Keeps(d)
  <2> SUFFICES ASSUME c # d PROVE Keeps(d)
    BY <1>2, <1>d, <1>0 DEF CheckReady, Waits
  <2>1. \A e \in Callers : e # c => pc'[e] = pc[e] /\ vbuf'[e] = vbuf[e] /\ call'[e] = call[e] /\ ret'[e] = ret[e]
    BY <1>2, <1>0, OthersStay DEF Caller
  <2>2. vid'[vbuf[d]] = vid[vbuf[d]] /\ reclaimed'[vbuf[d]] = reclaimed[vbuf[d]]
    BY <1>2, <1>0, <1>d, <1>u, <1>v DEF CheckReady, TypeOK, UsesVbuf
  <2> QED
    BY <2>1, <2>2, <1>d DEF Keeps, Waits
<1>3. ASSUME NEW c \in Callers, Enqueue(c) PROVE Keeps(d)
  <2> SUFFICES ASSUME c # d PROVE Keeps(d)
    BY <1>3, <1>d, <1>0 DEF Enqueue, Waits
  <2>1. \A e \in Callers : e # c => pc'[e] = pc[e] /\ vbuf'[e] = vbuf[e] /\ call'[e] = call[e] /\ ret'[e] = ret[e]
    BY <1>3, <1>0, OthersStay DEF Caller
  <2>2. vid'[vbuf[d]] = vid[vbuf[d]] /\ reclaimed'[vbuf[d]] = reclaimed[vbuf[d]]
    BY <1>3, <1>0, <1>d, <1>u, <1>v DEF Enqueue, TypeOK, UsesVbuf
  <2> QED
    BY <2>1, <2>2, <1>d DEF Keeps, Waits
<1>4. ASSUME NEW c \in Callers, KickTake(c) PROVE Keeps(d)
  <2> SUFFICES ASSUME c # d PROVE Keeps(d)
    BY <1>4, <1>d, <1>0 DEF KickTake, Waits
  <2>1. \A e \in Callers : e # c => pc'[e] = pc[e] /\ vbuf'[e] = vbuf[e] /\ call'[e] = call[e] /\ ret'[e] = ret[e]
    BY <1>4, <1>0, OthersStay DEF Caller
  <2>2. vid'[vbuf[d]] = vid[vbuf[d]] /\ reclaimed'[vbuf[d]] = reclaimed[vbuf[d]]
    BY <1>4, <1>0, <1>d, <1>u, <1>v DEF KickTake, TypeOK, UsesVbuf
  <2> QED
    BY <2>1, <2>2, <1>d DEF Keeps, Waits
<1>5. ASSUME NEW c \in Callers, KickFail(c) PROVE Keeps(d)
  <2> SUFFICES ASSUME c # d PROVE Keeps(d)
    BY <1>5, <1>d, <1>0 DEF KickFail, Waits
  <2>1. \A e \in Callers : e # c => pc'[e] = pc[e] /\ vbuf'[e] = vbuf[e] /\ call'[e] = call[e] /\ ret'[e] = ret[e]
    BY <1>5, <1>0, OthersStay DEF Caller
  <2>2. vid'[vbuf[d]] = vid[vbuf[d]] /\ reclaimed'[vbuf[d]] = reclaimed[vbuf[d]]
    BY <1>5, <1>0, <1>d, <1>u, <1>v DEF KickFail, TypeOK, UsesVbuf
  <2> QED
    BY <2>1, <2>2, <1>d DEF Keeps, Waits
<1>6. ASSUME NEW c \in Callers, Send(c) PROVE Keeps(d)
  <2> SUFFICES ASSUME c # d PROVE Keeps(d)
    BY <1>6, <1>d, <1>0 DEF Send, Waits
  <2>1. \A e \in Callers : e # c => pc'[e] = pc[e] /\ vbuf'[e] = vbuf[e] /\ call'[e] = call[e] /\ ret'[e] = ret[e]
    BY <1>6, <1>0, OthersStay DEF Caller
  <2>2. vid'[vbuf[d]] = vid[vbuf[d]] /\ reclaimed'[vbuf[d]] = reclaimed[vbuf[d]]
    BY <1>6, <1>0, <1>d, <1>u, <1>v DEF Send, TypeOK, UsesVbuf
  <2> QED
    BY <2>1, <2>2, <1>d DEF Keeps, Waits
<1>7. ASSUME NEW c \in Callers, SendFail(c) PROVE Keeps(d)
  <2> SUFFICES ASSUME c # d PROVE Keeps(d)
    BY <1>7, <1>d, <1>0 DEF SendFail, Waits
  <2>1. \A e \in Callers : e # c => pc'[e] = pc[e] /\ vbuf'[e] = vbuf[e] /\ call'[e] = call[e] /\ ret'[e] = ret[e]
    BY <1>7, <1>0, OthersStay DEF Caller
  <2>2. vid'[vbuf[d]] = vid[vbuf[d]] /\ reclaimed'[vbuf[d]] = reclaimed[vbuf[d]]
    BY <1>7, <1>0, <1>d, <1>u, <1>v DEF SendFail, TypeOK, UsesVbuf
  <2> QED
    BY <2>1, <2>2, <1>d DEF Keeps, Waits
<1>8. ASSUME NEW c \in Callers, Relock(c) PROVE Keeps(d)
  <2>1. \A e \in Callers : e # c => pc'[e] = pc[e] /\ vbuf'[e] = vbuf[e] /\ call'[e] = call[e] /\ ret'[e] = ret[e]
    BY <1>8, <1>0, OthersStay DEF Caller
  <2>2. UNCHANGED <<vid, reclaimed>>
    BY <1>8 DEF Relock
  <2>3. c = d => pc'[d] = "wait" /\ UNCHANGED <<call, vbuf, ret>>
    BY <1>8, <1>0, <1>d DEF Relock, GoTo, Waits, TypeOK
  <2> QED
    BY <2>1, <2>2, <2>3, <1>d DEF Keeps, Waits
<1>9. ASSUME NEW c \in Callers, Completed(c) PROVE Keeps(d)
  <2> SUFFICES ASSUME c # d PROVE Keeps(d)
    BY <1>9, <1>d, <1>0 DEF Completed, Waits
  <2>1. \A e \in Callers : e # c => pc'[e] = pc[e] /\ vbuf'[e] = vbuf[e] /\ call'[e] = call[e] /\ ret'[e] = ret[e]
    BY <1>9, <1>0, OthersStay DEF Caller
  <2>2. vid'[vbuf[d]] = vid[vbuf[d]] /\ reclaimed'[vbuf[d]] = reclaimed[vbuf[d]]
    BY <1>9, <1>0, <1>d, <1>u, <1>v DEF Completed, TypeOK, UsesVbuf
  <2> QED
    BY <2>1, <2>2, <1>d DEF Keeps, Waits
<1>10. ASSUME NEW c \in Callers, Timeout(c) PROVE Keeps(d)
  <2> SUFFICES ASSUME c # d PROVE Keeps(d)
    BY <1>10, <1>d, <1>0 DEF Timeout, Waits
  <2>1. \A e \in Callers : e # c => pc'[e] = pc[e] /\ vbuf'[e] = vbuf[e] /\ call'[e] = call[e] /\ ret'[e] = ret[e]
    BY <1>10, <1>0, OthersStay DEF Caller
  <2>2. vid'[vbuf[d]] = vid[vbuf[d]] /\ reclaimed'[vbuf[d]] = reclaimed[vbuf[d]]
    BY <1>10, <1>0, <1>d, <1>u, <1>v DEF Timeout, TypeOK, UsesVbuf
  <2> QED
    BY <2>1, <2>2, <1>d DEF Keeps, Waits
<1>11. ASSUME NEW c \in Callers, Reclaim(c) PROVE Keeps(d)
  <2> SUFFICES ASSUME c # d PROVE Keeps(d)
    BY <1>11, <1>d, <1>0 DEF Reclaim, Waits
  <2>1. \A e \in Callers : e # c => pc'[e] = pc[e] /\ vbuf'[e] = vbuf[e] /\ call'[e] = call[e] /\ ret'[e] = ret[e]
    BY <1>11, <1>0, OthersStay DEF Caller
  <2>2. vid'[vbuf[d]] = vid[vbuf[d]] /\ reclaimed'[vbuf[d]] = reclaimed[vbuf[d]]
    BY <1>11, <1>0, <1>d, <1>u, <1>v DEF Reclaim, TypeOK, UsesVbuf
  <2> QED
    BY <2>1, <2>2, <1>d DEF Keeps, Waits
<1>12. CASE Recv
  BY <1>12, <1>d DEF Recv, RtGoTo, Keeps, Waits
<1>13. CASE RecvError
  BY <1>13, <1>d DEF RecvError, RtGoTo, Keeps, Waits
<1>14. CASE RecvClosed
  BY <1>14, <1>d DEF RecvClosed, RtGoTo, Keeps, Waits
<1>15. CASE MatchFound
  BY <1>15, <1>d DEF MatchFound, LockFree, AttachResp, RtGoTo, IsFirst, Candidates, Keeps, Waits
<1>16. CASE MatchNone
  BY <1>16, <1>d DEF MatchNone, LockFree, RtGoTo, Keeps, Waits
<1>17. CASE CmdCbEnter
  BY <1>17, <1>d DEF CmdCbEnter, LockFree, Acquire, RtGoTo, Keeps, Waits
<1>18. CASE CmdCbGet
  <2>1. UNCHANGED <<pc, call, vbuf, ret, vid>> /\ Head(resp_list) # vbuf[d] /\ vbuf[d] \in Slots
    BY <1>18, <1>d, <1>v, <1>l DEF CmdCbGet, UsesVbuf
  <2>2. reclaimed'[vbuf[d]] = reclaimed[vbuf[d]]
    BY <1>18, <2>1, <1>0 DEF CmdCbGet, TypeOK, FlagsOK
  <2> QED
    BY <2>1, <2>2, <1>d DEF Keeps, Waits
<1>19. CASE CmdCbLeave
  BY <1>19, <1>d DEF CmdCbLeave, RtGoTo, Keeps, Waits
<1>20. CASE Break
  BY <1>20, <1>d DEF Break, RtGoTo, Keeps, Waits
<1>21. CASE ErrorLoop
  BY <1>21, <1>d DEF ErrorLoop, Keeps, Waits
<1>22. CASE SelfStop
  BY <1>22, <1>d DEF SelfStop, RtGoTo, Keeps, Waits
<1>23. CASE EvtClose
  BY <1>23, <1>d DEF EvtClose, Keeps, Waits
<1>24. CASE EvtStopped
  BY <1>24, <1>d DEF EvtStopped, Keeps, Waits
<1>25. CASE Deinit
  BY <1>25, <1>d DEF Deinit, Keeps, Waits
<1>26. CASE FreeVbufs
  BY <1>26, <1>d DEF FreeVbufs, UnattachVbuf, UnattachResp, FreeVbuf, Keeps, Waits
<1>27. CASE FreeVbufsEnd
  BY <1>27, <1>d DEF FreeVbufsEnd, Keeps, Waits
<1>28. CASE DelVqs
  BY <1>28, <1>d DEF DelVqs, Keeps, Waits
<1>29. CASE Stopped
  BY <1>29, <1>d DEF Stopped, Keeps, Waits
<1>30. CASE UNCHANGED vars
  BY <1>30, <1>d DEF vars, callerVars, memVars, hvqVars, rtVars, Keeps, Waits
<1> QED
  BY <1>1, <1>2, <1>3, <1>4, <1>5, <1>6, <1>7, <1>8, <1>9, <1>10, <1>11, <1>12, <1>13, <1>14, <1>15,
     <1>16, <1>17, <1>18, <1>19, <1>20, <1>21, <1>22, <1>23, <1>24, <1>25, <1>26, <1>27, <1>28, <1>29, <1>30
     DEF Next, RunningNext, Caller, Responder, Teardown

\* An unsent command stays on the pending list: an answer never frees it.
LEMMA UnsentOwnStep ==
  ASSUME OneCaller, WorkInv, OwnCalls, [Next]_vars, td = "up", td' = "up", ~timedOut, ~timedOut'
  PROVE  UnsentOwn'
<1>0. TypeOK /\ LockInv /\ PoolInv /\ OwnInv /\ KickInv /\ HeldInv /\ IdInv
  BY DEF WorkInv
<1>l. pending \subseteq live /\ \A s \in live : s \in Slots /\ vkey[s] \in Keys
  BY <1>0 DEF OwnInv, NoUseAfterFree, IdInv, TypeOK
<1>u. \A c, d \in Callers : UsesVbuf(c) /\ UsesVbuf(d) /\ vbuf[c] = vbuf[d] => c = d
  BY <1>0 DEF OwnInv, NoUseAfterFree
<1>v. \A c \in Callers : UsesVbuf(c) => vbuf[c] \in live /\ vkey[vbuf[c]] = call[c]
  BY <1>0 DEF OwnInv, NoUseAfterFree
<1>k. \A c, d \in Callers : pc[c] # "idle" /\ pc[d] # "idle" /\ call[c] = call[d] => c = d
  BY <1>0 DEF KickInv, OneCaller
<1> USE DEF callerVars, memVars, hvqVars, rtVars
<1>1. ASSUME NEW c \in Callers, Alloc(c) PROVE UnsentOwn'
  BY <1>1, <1>0, <1>l, <1>u, <1>k DEF Alloc, GoTo, TypeOK, UnsentOwn, OwnCalls, HeadOwn, Unsent, Sendable, Serving, KickInv, OwnInv, UsesVbuf
<1>2. ASSUME NEW c \in Callers, CheckReady(c) PROVE UnsentOwn'
  BY <1>2, <1>0, <1>l, <1>u, <1>k DEF CheckReady, GoTo, Return, TypeOK, UnsentOwn, OwnCalls, HeadOwn, Unsent, Sendable, Serving, KickInv, OwnInv, UsesVbuf
<1>3. ASSUME NEW c \in Callers, Enqueue(c) PROVE UnsentOwn'
  <2>1. \A e \in Callers : e # c => pc'[e] = pc[e] /\ vbuf'[e] = vbuf[e] /\ call'[e] = call[e] /\ ret'[e] = ret[e]
    BY <1>3, <1>0, OthersStay DEF Caller
  <2>2. /\ pc[c] = "enqueue" /\ pending' = pending \cup {vbuf[c]} /\ UNCHANGED <<call, vbuf, vkey>>
        /\ vkey[vbuf[c]] = call[c]
    BY <1>3, <1>v DEF Enqueue, UsesVbuf
  <2> QED
    BY <2>1, <2>2 DEF UnsentOwn, OwnCalls
<1>4. ASSUME NEW c \in Callers, KickTake(c) PROVE UnsentOwn'
  BY <1>4, <1>0, <1>l, <1>u, <1>k DEF KickTake, GoTo, UnattachVbuf, TypeOK, UnsentOwn, OwnCalls, HeadOwn, Unsent, Sendable, Serving, KickInv, OwnInv, UsesVbuf
<1>5. ASSUME NEW c \in Callers, KickFail(c) PROVE UnsentOwn'
  BY <1>5, <1>0, <1>l, <1>u, <1>k DEF KickFail, Return, TypeOK, UnsentOwn, OwnCalls, HeadOwn, Unsent, Sendable, Serving, KickInv, OwnInv, UsesVbuf
<1>6. ASSUME NEW c \in Callers, Send(c) PROVE UnsentOwn'
  BY <1>6, <1>0, <1>l, <1>u, <1>k DEF Send, GoTo, TypeOK, UnsentOwn, OwnCalls, HeadOwn, Unsent, Sendable, Serving, KickInv, OwnInv, UsesVbuf
<1>7. ASSUME NEW c \in Callers, SendFail(c) PROVE UnsentOwn'
  BY <1>7, <1>0, <1>l, <1>u, <1>k DEF SendFail, GoTo, TypeOK, UnsentOwn, OwnCalls, HeadOwn, Unsent, Sendable, Serving, KickInv, OwnInv, UsesVbuf
<1>8. ASSUME NEW c \in Callers, Relock(c) PROVE UnsentOwn'
  BY <1>8, <1>0, <1>l, <1>u, <1>k DEF Relock, GoTo, LockFree, Return, TypeOK, UnsentOwn, OwnCalls, HeadOwn, Unsent, Sendable, Serving, KickInv, OwnInv, UsesVbuf
<1>9. ASSUME NEW c \in Callers, Completed(c) PROVE UnsentOwn'
  BY <1>9, <1>0, <1>l, <1>u, <1>k DEF Completed, GoTo, TypeOK, UnsentOwn, OwnCalls, HeadOwn, Unsent, Sendable, Serving, KickInv, OwnInv, UsesVbuf
<1>10. ASSUME NEW c \in Callers, Timeout(c) PROVE UnsentOwn'
  BY <1>10, <1>0, <1>l, <1>u, <1>k DEF Timeout, GoTo, TypeOK, UnsentOwn, OwnCalls, HeadOwn, Unsent, Sendable, Serving, KickInv, OwnInv, UsesVbuf
<1>11. ASSUME NEW c \in Callers, Reclaim(c) PROVE UnsentOwn'
  <2>1. \A e \in Callers : e # c => pc'[e] = pc[e] /\ vbuf'[e] = vbuf[e] /\ call'[e] = call[e] /\ ret'[e] = ret[e]
    BY <1>11, <1>0, OthersStay DEF Caller
  <2>2. /\ pc[c] = "reclaim" /\ pc'[c] = "idle" /\ pending' = pending \ {vbuf[c]} /\ UNCHANGED vkey
        /\ call[c] \in SyncKeys /\ UsesVbuf(c)
    BY <1>11, <1>0 DEF Reclaim, FreeVbuf, Return, TypeOK, OwnInv, UsesVbuf
  <2>3. ASSUME NEW e \in Callers, pc[e] \in Sendable PROVE vbuf[e] # vbuf[c]
    <3> SUFFICES ASSUME vbuf[e] = vbuf[c] PROVE FALSE
      OBVIOUS
    <3>1. call[e] = call[c]
      BY <2>2, <2>3, <1>v DEF UnsentOwn, OwnCalls
    <3> QED
      BY <3>1, <2>2, <2>3, <1>k DEF Sendable
  <2> QED
    BY <2>1, <2>2, <2>3 DEF UnsentOwn, OwnCalls, Sendable
<1>12. CASE Recv
  BY <1>12, <1>0, <1>l, <1>u, <1>k DEF Recv, RtGoTo, TypeOK, UnsentOwn, OwnCalls, HeadOwn, Unsent, Sendable, Serving, KickInv, OwnInv, UsesVbuf
<1>13. CASE RecvError
  BY <1>13, <1>0, <1>l, <1>u, <1>k DEF RecvError, RtGoTo, TypeOK, UnsentOwn, OwnCalls, HeadOwn, Unsent, Sendable, Serving, KickInv, OwnInv, UsesVbuf
<1>14. CASE RecvClosed
  BY <1>14, <1>0, <1>l, <1>u, <1>k DEF RecvClosed, RtGoTo, TypeOK, UnsentOwn, OwnCalls, HeadOwn, Unsent, Sendable, Serving, KickInv, OwnInv, UsesVbuf
<1>15. CASE MatchFound
  BY <1>15, <1>0, <1>l, <1>u, <1>k DEF MatchFound, LockFree, AttachResp, RtGoTo, IsFirst, Candidates, TypeOK, UnsentOwn, OwnCalls, HeadOwn, Unsent, Sendable, Serving, KickInv, OwnInv, UsesVbuf
<1>16. CASE MatchNone
  BY <1>16, <1>0, <1>l, <1>u, <1>k DEF MatchNone, LockFree, RtGoTo, TypeOK, UnsentOwn, OwnCalls, HeadOwn, Unsent, Sendable, Serving, KickInv, OwnInv, UsesVbuf
<1>17. CASE CmdCbEnter
  BY <1>17, <1>0, <1>l, <1>u, <1>k DEF CmdCbEnter, LockFree, Acquire, RtGoTo, TypeOK, UnsentOwn, OwnCalls, HeadOwn, Unsent, Sendable, Serving, KickInv, OwnInv, UsesVbuf
<1>18. CASE CmdCbGet
  BY <1>18, <1>0, <1>l, <1>u, <1>k DEF CmdCbGet, UnattachResp, FreeVbuf, TypeOK, UnsentOwn, OwnCalls, HeadOwn, Unsent, Sendable, Serving, KickInv, OwnInv, UsesVbuf
<1>19. CASE CmdCbLeave
  BY <1>19, <1>0, <1>l, <1>u, <1>k DEF CmdCbLeave, RtGoTo, TypeOK, UnsentOwn, OwnCalls, HeadOwn, Unsent, Sendable, Serving, KickInv, OwnInv, UsesVbuf
<1>20. CASE Break
  BY <1>20, <1>0, <1>l, <1>u, <1>k DEF Break, RtGoTo, TypeOK, UnsentOwn, OwnCalls, HeadOwn, Unsent, Sendable, Serving, KickInv, OwnInv, UsesVbuf
<1>21. CASE ErrorLoop
  BY <1>21, <1>0, <1>l, <1>u, <1>k DEF ErrorLoop, TypeOK, UnsentOwn, OwnCalls, HeadOwn, Unsent, Sendable, Serving, KickInv, OwnInv, UsesVbuf
<1>22. CASE SelfStop
  BY <1>22, <1>0, <1>l, <1>u, <1>k DEF SelfStop, RtGoTo, TypeOK, UnsentOwn, OwnCalls, HeadOwn, Unsent, Sendable, Serving, KickInv, OwnInv, UsesVbuf
<1>23. CASE EvtClose
  BY <1>23, <1>0, <1>l, <1>u, <1>k DEF EvtClose, TypeOK, UnsentOwn, OwnCalls, HeadOwn, Unsent, Sendable, Serving, KickInv, OwnInv, UsesVbuf
<1>24. CASE EvtStopped
  BY <1>24, <1>0, <1>l, <1>u, <1>k DEF EvtStopped, TypeOK, UnsentOwn, OwnCalls, HeadOwn, Unsent, Sendable, Serving, KickInv, OwnInv, UsesVbuf
<1>25. CASE Deinit
  BY <1>25, <1>0, <1>l, <1>u, <1>k DEF Deinit, TypeOK, UnsentOwn, OwnCalls, HeadOwn, Unsent, Sendable, Serving, KickInv, OwnInv, UsesVbuf
<1>26. CASE FreeVbufs
  BY <1>26, <1>0, <1>l, <1>u, <1>k DEF FreeVbufs, UnattachVbuf, UnattachResp, FreeVbuf, TypeOK, UnsentOwn, OwnCalls, HeadOwn, Unsent, Sendable, Serving, KickInv, OwnInv, UsesVbuf
<1>27. CASE FreeVbufsEnd
  BY <1>27, <1>0, <1>l, <1>u, <1>k DEF FreeVbufsEnd, TypeOK, UnsentOwn, OwnCalls, HeadOwn, Unsent, Sendable, Serving, KickInv, OwnInv, UsesVbuf
<1>28. CASE DelVqs
  BY <1>28, <1>0, <1>l, <1>u, <1>k DEF DelVqs, TypeOK, UnsentOwn, OwnCalls, HeadOwn, Unsent, Sendable, Serving, KickInv, OwnInv, UsesVbuf
<1>29. CASE Stopped
  BY <1>29, <1>0, <1>l, <1>u, <1>k DEF Stopped, TypeOK, UnsentOwn, OwnCalls, HeadOwn, Unsent, Sendable, Serving, KickInv, OwnInv, UsesVbuf
<1>30. CASE UNCHANGED vars
  BY <1>30, <1>0, <1>l, <1>u, <1>k DEF vars, callerVars, memVars, hvqVars, rtVars, TypeOK, UnsentOwn, OwnCalls, HeadOwn, Unsent, Sendable, Serving, KickInv, OwnInv, UsesVbuf
<1> QED
  BY <1>1, <1>2, <1>3, <1>4, <1>5, <1>6, <1>7, <1>8, <1>9, <1>10, <1>11, <1>12, <1>13, <1>14, <1>15,
     <1>16, <1>17, <1>18, <1>19, <1>20, <1>21, <1>22, <1>23, <1>24, <1>25, <1>26, <1>27, <1>28, <1>29, <1>30
     DEF Next, RunningNext, Caller, Responder, Teardown

\* Synchronous commands stay the only ones of their keys.
LEMMA OnlyOwnStep ==
  ASSUME OneCaller, WorkInv, OwnCalls, [Next]_vars, td = "up", td' = "up", ~timedOut, ~timedOut'
  PROVE  OnlyOwn'
<1>0. TypeOK /\ LockInv /\ PoolInv /\ OwnInv /\ KickInv /\ HeldInv /\ IdInv
  BY DEF WorkInv
<1>l. pending \subseteq live /\ \A s \in live : s \in Slots /\ vkey[s] \in Keys
  BY <1>0 DEF OwnInv, NoUseAfterFree, IdInv, TypeOK
<1>u. \A c, d \in Callers : UsesVbuf(c) /\ UsesVbuf(d) /\ vbuf[c] = vbuf[d] => c = d
  BY <1>0 DEF OwnInv, NoUseAfterFree
<1>v. \A c \in Callers : UsesVbuf(c) => vbuf[c] \in live /\ vkey[vbuf[c]] = call[c]
  BY <1>0 DEF OwnInv, NoUseAfterFree
<1>k. \A c, d \in Callers : pc[c] # "idle" /\ pc[d] # "idle" /\ call[c] = call[d] => c = d
  BY <1>0 DEF KickInv, OneCaller
<1> USE DEF callerVars, memVars, hvqVars, rtVars
<1>1. ASSUME NEW c \in Callers, Alloc(c) PROVE OnlyOwn'
  BY <1>1, <1>0, <1>l, <1>u, <1>k DEF Alloc, GoTo, TypeOK, OnlyOwn, OwnCalls, KickInv, OwnInv, UsesVbuf, HeldInv, Queued
<1>2. ASSUME NEW c \in Callers, CheckReady(c) PROVE OnlyOwn'
  <2>1. \A e \in Callers : e # c => pc'[e] = pc[e] /\ vbuf'[e] = vbuf[e] /\ call'[e] = call[e] /\ ret'[e] = ret[e]
    BY <1>2, <1>0, OthersStay DEF Caller
  <2>2. pc'[c] \in {"enqueue", "idle"} /\ UNCHANGED <<pending, vkey>>
    BY <1>2, <1>0 DEF CheckReady, GoTo, Return, TypeOK
  <2> QED
    BY <2>1, <2>2 DEF OnlyOwn, OwnCalls
<1>3. ASSUME NEW c \in Callers, Enqueue(c) PROVE OnlyOwn'
  <2>1. \A e \in Callers : e # c => pc'[e] = pc[e] /\ vbuf'[e] = vbuf[e] /\ call'[e] = call[e] /\ ret'[e] = ret[e]
    BY <1>3, <1>0, OthersStay DEF Caller
  <2>2. /\ pc[c] = "enqueue" /\ pc'[c] = "kick" /\ pending' = pending \cup {vbuf[c]} /\ UNCHANGED <<call, vbuf, vkey>>
        /\ vkey[vbuf[c]] = call[c]
    BY <1>3, <1>0, <1>v DEF Enqueue, GoTo, TypeOK, UsesVbuf
  <2> QED
    BY <2>1, <2>2, <1>k DEF OnlyOwn, OwnCalls
<1>4. ASSUME NEW c \in Callers, KickTake(c) PROVE OnlyOwn'
  <2>1. \A e \in Callers : e # c => pc'[e] = pc[e] /\ vbuf'[e] = vbuf[e] /\ call'[e] = call[e] /\ ret'[e] = ret[e]
    BY <1>4, <1>0, OthersStay DEF Caller
  <2>2. /\ pc[c] = "kick" /\ ~broken /\ UNCHANGED <<call, vbuf, vkey, pending>>
    BY <1>4 DEF KickTake
  <2>3. ASSUME call[c] \in SyncKeys, NEW s \in pending, vkey[s] = call[c] PROVE s = vbuf[c]
    <3>1. PICK e \in Callers : vbuf[e] = s /\ call[e] \in SyncKeys /\ pc[e] \in Queued
      BY <2>2, <2>3, <1>0 DEF HeldInv
    <3>2. vkey[vbuf[e]] = call[e] /\ pc[e] # "idle"
      BY <3>1, <1>v DEF UsesVbuf, Queued
    <3> QED
      BY <3>1, <3>2, <2>2, <2>3, <1>k
  <2> QED
    BY <2>1, <2>2, <2>3 DEF OnlyOwn, OwnCalls
<1>5. ASSUME NEW c \in Callers, KickFail(c) PROVE OnlyOwn'
  BY <1>5, <1>0, <1>l, <1>u, <1>k DEF KickFail, Return, TypeOK, OnlyOwn, OwnCalls, KickInv, OwnInv, UsesVbuf, HeldInv, Queued
<1>6. ASSUME NEW c \in Callers, Send(c) PROVE OnlyOwn'
  BY <1>6, <1>0, <1>l, <1>u, <1>k DEF Send, GoTo, TypeOK, OnlyOwn, OwnCalls, KickInv, OwnInv, UsesVbuf, HeldInv, Queued
<1>7. ASSUME NEW c \in Callers, SendFail(c) PROVE OnlyOwn'
  BY <1>7, <1>0, <1>l, <1>u, <1>k DEF SendFail, GoTo, TypeOK, OnlyOwn, OwnCalls, KickInv, OwnInv, UsesVbuf, HeldInv, Queued
<1>8. ASSUME NEW c \in Callers, Relock(c) PROVE OnlyOwn'
  <2>1. \A e \in Callers : e # c => pc'[e] = pc[e] /\ vbuf'[e] = vbuf[e] /\ call'[e] = call[e] /\ ret'[e] = ret[e]
    BY <1>8, <1>0, OthersStay DEF Caller
  <2>2. pc[c] = "relock" /\ UNCHANGED <<pending, vkey>>
    BY <1>8 DEF Relock
  <2>3. CASE UNCHANGED <<call, vbuf>>
    BY <2>1, <2>2, <2>3 DEF OnlyOwn, OwnCalls
  <2>4. CASE Return(c, ret[c])
    <3>1. pc'[c] = "idle"
      BY <2>4, <1>0 DEF Return, TypeOK
    <3> QED
      BY <2>1, <2>2, <3>1 DEF OnlyOwn, OwnCalls
  <2> QED
    BY <1>8, <2>3, <2>4 DEF Relock
<1>9. ASSUME NEW c \in Callers, Completed(c) PROVE OnlyOwn'
  BY <1>9, <1>0, <1>l, <1>u, <1>k DEF Completed, GoTo, TypeOK, OnlyOwn, OwnCalls, KickInv, OwnInv, UsesVbuf, HeldInv, Queued
<1>10. ASSUME NEW c \in Callers, Timeout(c) PROVE OnlyOwn'
  BY <1>10, <1>0, <1>l, <1>u, <1>k DEF Timeout, GoTo, TypeOK, OnlyOwn, OwnCalls, KickInv, OwnInv, UsesVbuf, HeldInv, Queued
<1>11. ASSUME NEW c \in Callers, Reclaim(c) PROVE OnlyOwn'
  BY <1>11, <1>0, <1>l, <1>u, <1>k DEF Reclaim, LockFree, FreeVbuf, Return, TypeOK, OnlyOwn, OwnCalls, KickInv, OwnInv, UsesVbuf, HeldInv, Queued
<1>12. CASE Recv
  BY <1>12, <1>0, <1>l, <1>u, <1>k DEF Recv, RtGoTo, TypeOK, OnlyOwn, OwnCalls, KickInv, OwnInv, UsesVbuf, HeldInv, Queued
<1>13. CASE RecvError
  BY <1>13, <1>0, <1>l, <1>u, <1>k DEF RecvError, RtGoTo, TypeOK, OnlyOwn, OwnCalls, KickInv, OwnInv, UsesVbuf, HeldInv, Queued
<1>14. CASE RecvClosed
  BY <1>14, <1>0, <1>l, <1>u, <1>k DEF RecvClosed, RtGoTo, TypeOK, OnlyOwn, OwnCalls, KickInv, OwnInv, UsesVbuf, HeldInv, Queued
<1>15. CASE MatchFound
  BY <1>15, <1>0, <1>l, <1>u, <1>k DEF MatchFound, LockFree, AttachResp, RtGoTo, IsFirst, Candidates, TypeOK, OnlyOwn, OwnCalls, KickInv, OwnInv, UsesVbuf, HeldInv, Queued
<1>16. CASE MatchNone
  BY <1>16, <1>0, <1>l, <1>u, <1>k DEF MatchNone, LockFree, RtGoTo, TypeOK, OnlyOwn, OwnCalls, KickInv, OwnInv, UsesVbuf, HeldInv, Queued
<1>17. CASE CmdCbEnter
  BY <1>17, <1>0, <1>l, <1>u, <1>k DEF CmdCbEnter, LockFree, Acquire, RtGoTo, TypeOK, OnlyOwn, OwnCalls, KickInv, OwnInv, UsesVbuf, HeldInv, Queued
<1>18. CASE CmdCbGet
  BY <1>18, <1>0, <1>l, <1>u, <1>k DEF CmdCbGet, UnattachResp, FreeVbuf, TypeOK, OnlyOwn, OwnCalls, KickInv, OwnInv, UsesVbuf, HeldInv, Queued
<1>19. CASE CmdCbLeave
  BY <1>19, <1>0, <1>l, <1>u, <1>k DEF CmdCbLeave, RtGoTo, TypeOK, OnlyOwn, OwnCalls, KickInv, OwnInv, UsesVbuf, HeldInv, Queued
<1>20. CASE Break
  BY <1>20, <1>0, <1>l, <1>u, <1>k DEF Break, RtGoTo, TypeOK, OnlyOwn, OwnCalls, KickInv, OwnInv, UsesVbuf, HeldInv, Queued
<1>21. CASE ErrorLoop
  BY <1>21, <1>0, <1>l, <1>u, <1>k DEF ErrorLoop, TypeOK, OnlyOwn, OwnCalls, KickInv, OwnInv, UsesVbuf, HeldInv, Queued
<1>22. CASE SelfStop
  BY <1>22, <1>0, <1>l, <1>u, <1>k DEF SelfStop, RtGoTo, TypeOK, OnlyOwn, OwnCalls, KickInv, OwnInv, UsesVbuf, HeldInv, Queued
<1>23. CASE EvtClose
  BY <1>23, <1>0, <1>l, <1>u, <1>k DEF EvtClose, TypeOK, OnlyOwn, OwnCalls, KickInv, OwnInv, UsesVbuf, HeldInv, Queued
<1>24. CASE EvtStopped
  BY <1>24, <1>0, <1>l, <1>u, <1>k DEF EvtStopped, TypeOK, OnlyOwn, OwnCalls, KickInv, OwnInv, UsesVbuf, HeldInv, Queued
<1>25. CASE Deinit
  BY <1>25, <1>0, <1>l, <1>u, <1>k DEF Deinit, TypeOK, OnlyOwn, OwnCalls, KickInv, OwnInv, UsesVbuf, HeldInv, Queued
<1>26. CASE FreeVbufs
  BY <1>26, <1>0, <1>l, <1>u, <1>k DEF FreeVbufs, UnattachVbuf, UnattachResp, FreeVbuf, TypeOK, OnlyOwn, OwnCalls, KickInv, OwnInv, UsesVbuf, HeldInv, Queued
<1>27. CASE FreeVbufsEnd
  BY <1>27, <1>0, <1>l, <1>u, <1>k DEF FreeVbufsEnd, TypeOK, OnlyOwn, OwnCalls, KickInv, OwnInv, UsesVbuf, HeldInv, Queued
<1>28. CASE DelVqs
  BY <1>28, <1>0, <1>l, <1>u, <1>k DEF DelVqs, TypeOK, OnlyOwn, OwnCalls, KickInv, OwnInv, UsesVbuf, HeldInv, Queued
<1>29. CASE Stopped
  BY <1>29, <1>0, <1>l, <1>u, <1>k DEF Stopped, TypeOK, OnlyOwn, OwnCalls, KickInv, OwnInv, UsesVbuf, HeldInv, Queued
<1>30. CASE UNCHANGED vars
  BY <1>30, <1>0, <1>l, <1>u, <1>k DEF vars, callerVars, memVars, hvqVars, rtVars, TypeOK, OnlyOwn, OwnCalls, KickInv, OwnInv, UsesVbuf, HeldInv, Queued
<1> QED
  BY <1>1, <1>2, <1>3, <1>4, <1>5, <1>6, <1>7, <1>8, <1>9, <1>10, <1>11, <1>12, <1>13, <1>14, <1>15,
     <1>16, <1>17, <1>18, <1>19, <1>20, <1>21, <1>22, <1>23, <1>24, <1>25, <1>26, <1>27, <1>28, <1>29, <1>30
     DEF Next, RunningNext, Caller, Responder, Teardown

\* The answer being matched keeps its caller.
LEMMA MatchOwnStep ==
  ASSUME OneCaller, WorkInv, OwnCalls, [Next]_vars, td = "up", td' = "up", ~timedOut, ~timedOut'
  PROVE  MatchOwn'
<1>0. TypeOK
  BY DEF WorkInv
<1> SUFFICES ASSUME rt' = "match", rmsg'.key \in SyncKeys
             PROVE  \E c \in Callers : Waiting(c, rmsg.key, rmsg.id)'
  BY DEF MatchOwn
<1>1. CASE Recv
  <2>1. rmsg' \in inflight
    BY <1>1 DEF Recv
  <2>2. PICK c \in Callers : Waiting(c, rmsg'.key, rmsg'.id)
    BY <2>1 DEF InflightOwn, OwnCalls
  <2>3. UNCHANGED <<call, pc, ret, vid, reclaimed, vbuf>>
    BY <1>1 DEF Recv, callerVars, memVars
  <2>4. Waiting(c, rmsg.key, rmsg.id)'
    BY <2>2, <2>3 DEF Waiting, Waits
  <2> QED
    BY <2>4
<1>2. CASE ~Recv
  <2>1. ~MatchFound /\ ~CmdCbGet
    BY DEF MatchFound, CmdCbGet, RtGoTo, rtVars
  <2>2. rt = "match" /\ rmsg' = rmsg
    <3>1. ASSUME NEW c \in Callers, Send(c) PROVE rt = "match" /\ rmsg' = rmsg
      BY <3>1 DEF Send, rtVars
    <3> QED
      BY <3>1, <2>1, <1>0, <1>2, AnswersStay
  <2>3. PICK c \in Callers : Waiting(c, rmsg.key, rmsg.id)
    BY <2>2 DEF MatchOwn, OwnCalls
  <2>4. Keeps(c)
    BY <2>1, <2>3, WaitsKept DEF Waiting
  <2>5. Waiting(c, rmsg.key, rmsg.id)'
    BY <2>2, <2>3, <2>4 DEF Keeps, Waiting
  <2> QED
    BY <2>5
<1> QED
  BY <1>1, <1>2

\* An answer that is matched is the only one on resp_list.
LEMMA OneAttached ==
  ASSUME TypeOK, PoolInv, td = "up", MatchFound, NEW f \in Slots, AttachResp(f)
  PROVE  resp_list' = <<f>>
<1>1. resp_list = <<>> /\ Len(vbuf_list) <= 1 /\ unused + Len(vbuf_list) + Len(resp_list) = VqNum
  BY DEF PoolInv, MatchFound
<1>2. unused > 0
  BY <1>1, CmdQueueAssumption DEF TypeOK
<1> QED
  BY <1>1, <1>2 DEF AttachResp, hvqVars

\* An answer is matched to the vbuf of the caller that waits for it.
LEMMA MatchedOwn ==
  ASSUME OneCaller, WorkInv, OwnCalls, td = "up", MatchFound, rmsg.key \in SyncKeys
  PROVE  \E c \in Callers :
           /\ Waiting(c, rmsg.key, rmsg.id)
           /\ resp_list' = <<vbuf[c]>> /\ resp' = [resp EXCEPT ![vbuf[c]] = rmsg.id] /\ vbuf[c] \in pending
<1>0. TypeOK /\ PoolInv /\ OwnInv
  BY DEF WorkInv
<1>1. PICK f \in Slots : IsFirst(f) /\ AttachResp(f) /\ resp' = [resp EXCEPT ![f] = rmsg.id]
  BY DEF MatchFound
<1>2. PICK c \in Callers : Waiting(c, rmsg.key, rmsg.id)
  BY DEF MatchOwn, OwnCalls, MatchFound
<1>3. f = vbuf[c] /\ f \in pending
  BY <1>1, <1>2 DEF IsFirst, Candidates, OnlyOwn, OwnCalls, Waiting, Waits
<1>4. resp_list' = <<f>>
  BY <1>0, <1>1, OneAttached
<1> QED
  BY <1>1, <1>2, <1>3, <1>4

\* A completion stays true to the answer.
LEMMA CompletedOwnStep ==
  ASSUME OneCaller, WorkInv, OwnCalls, [Next]_vars, td = "up", td' = "up", ~timedOut, ~timedOut'
  PROVE  CompletedOwn'
<1>0. TypeOK /\ LockInv /\ PoolInv /\ OwnInv /\ KickInv /\ HeldInv /\ IdInv
  BY DEF WorkInv
<1>l. pending \subseteq live /\ \A s \in live : s \in Slots /\ vkey[s] \in Keys
  BY <1>0 DEF OwnInv, NoUseAfterFree, IdInv, TypeOK
<1>u. \A c, d \in Callers : UsesVbuf(c) /\ UsesVbuf(d) /\ vbuf[c] = vbuf[d] => c = d
  BY <1>0 DEF OwnInv, NoUseAfterFree
<1>v. \A c \in Callers : UsesVbuf(c) => vbuf[c] \in live /\ vkey[vbuf[c]] = call[c]
  BY <1>0 DEF OwnInv, NoUseAfterFree
<1>k. \A c, d \in Callers : pc[c] # "idle" /\ pc[d] # "idle" /\ call[c] = call[d] => c = d
  BY <1>0 DEF KickInv, OneCaller
<1> USE DEF callerVars, memVars, hvqVars, rtVars
<1>1. ASSUME NEW c \in Callers, Alloc(c) PROVE CompletedOwn'
  <2>1. \A e \in Callers : e # c => pc'[e] = pc[e] /\ vbuf'[e] = vbuf[e] /\ call'[e] = call[e] /\ ret'[e] = ret[e]
    BY <1>1, <1>0, OthersStay DEF Caller
  <2>2. PICK s \in Slots \ live :
          /\ vbuf' = [vbuf EXCEPT ![c] = s] /\ reclaimed' = [reclaimed EXCEPT ![s] = FALSE]
          /\ vid' = [vid EXCEPT ![s] = NoId] /\ resp' = [resp EXCEPT ![s] = NoId]
    BY <1>1 DEF Alloc
  <2>3. pc'[c] = "check" /\ vbuf'[c] = s /\ ~reclaimed'[s]
    BY <1>1, <2>2, <1>0 DEF Alloc, GoTo, TypeOK, FlagsOK
  <2>4. ASSUME NEW e \in Callers, e # c, pc[e] # "idle", call[e] \in SyncKeys
        PROVE  /\ reclaimed'[vbuf[e]] = reclaimed[vbuf[e]] /\ vid'[vbuf[e]] = vid[vbuf[e]]
               /\ resp'[vbuf[e]] = resp[vbuf[e]]
    <3>1. UsesVbuf(e)
      BY <2>4, <1>0 DEF UsesVbuf, TypeOK
    <3>2. vbuf[e] # s /\ vbuf[e] \in Slots
      BY <3>1, <2>2, <1>l, <1>v
    <3> QED
      BY <3>2, <2>2, <1>0 DEF TypeOK, FlagsOK
  <2> SUFFICES ASSUME NEW e \in Callers, call'[e] \in SyncKeys
               PROVE  /\ pc'[e] \in {"check", "enqueue", "kick", "send"} => ~reclaimed'[vbuf'[e]]
                      /\ pc'[e] # "idle" /\ reclaimed'[vbuf'[e]] => resp'[vbuf'[e]] = vid'[vbuf'[e]]
                      /\ pc'[e] = "reclaim" /\ ret'[e] = "ok" => reclaimed'[vbuf'[e]]
    BY DEF CompletedOwn
  <2>5. CASE e = c
    BY <2>3, <2>5
  <2>6. CASE e # c
    BY <2>1, <2>4, <2>6 DEF CompletedOwn, OwnCalls
  <2> QED
    BY <2>5, <2>6
<1>2. ASSUME NEW c \in Callers, CheckReady(c) PROVE CompletedOwn'
  BY <1>2, <1>0, <1>l, <1>u, <1>v, <1>k DEF CheckReady, GoTo, Return, TypeOK, CompletedOwn, MatchOwn, HeadOwn, Serving, OnlyOwn, Waiting, Waits, OwnCalls, UsesVbuf
<1>3. ASSUME NEW c \in Callers, Enqueue(c) PROVE CompletedOwn'
  BY <1>3, <1>0, <1>l, <1>u, <1>v, <1>k DEF Enqueue, GoTo, Acquire, AddSgs, TypeOK, CompletedOwn, MatchOwn, HeadOwn, Serving, OnlyOwn, Waiting, Waits, OwnCalls, UsesVbuf
<1>4. ASSUME NEW c \in Callers, KickTake(c) PROVE CompletedOwn'
  BY <1>4, <1>0, <1>l, <1>u, <1>v, <1>k DEF KickTake, GoTo, UnattachVbuf, TypeOK, CompletedOwn, MatchOwn, HeadOwn, Serving, OnlyOwn, Waiting, Waits, OwnCalls, UsesVbuf
<1>5. ASSUME NEW c \in Callers, KickFail(c) PROVE CompletedOwn'
  BY <1>5, <1>0, <1>l, <1>u, <1>v, <1>k DEF KickFail, Return, TypeOK, CompletedOwn, MatchOwn, HeadOwn, Serving, OnlyOwn, Waiting, Waits, OwnCalls, UsesVbuf
<1>6. ASSUME NEW c \in Callers, Send(c) PROVE CompletedOwn'
  BY <1>6, <1>0, <1>l, <1>u, <1>v, <1>k DEF Send, GoTo, TypeOK, CompletedOwn, MatchOwn, HeadOwn, Serving, OnlyOwn, Waiting, Waits, OwnCalls, UsesVbuf
<1>7. ASSUME NEW c \in Callers, SendFail(c) PROVE CompletedOwn'
  BY <1>7, <1>0, <1>l, <1>u, <1>v, <1>k DEF SendFail, GoTo, TypeOK, CompletedOwn, MatchOwn, HeadOwn, Serving, OnlyOwn, Waiting, Waits, OwnCalls, UsesVbuf
<1>8. ASSUME NEW c \in Callers, Relock(c) PROVE CompletedOwn'
  BY <1>8, <1>0, <1>l, <1>u, <1>v, <1>k DEF Relock, GoTo, LockFree, Return, TypeOK, CompletedOwn, MatchOwn, HeadOwn, Serving, OnlyOwn, Waiting, Waits, OwnCalls, UsesVbuf
<1>9. ASSUME NEW c \in Callers, Completed(c) PROVE CompletedOwn'
  BY <1>9, <1>0, <1>l, <1>u, <1>v, <1>k DEF Completed, GoTo, TypeOK, CompletedOwn, MatchOwn, HeadOwn, Serving, OnlyOwn, Waiting, Waits, OwnCalls, UsesVbuf
<1>10. ASSUME NEW c \in Callers, Timeout(c) PROVE CompletedOwn'
  BY <1>10, <1>0, <1>l, <1>u, <1>v, <1>k DEF Timeout, GoTo, TypeOK, CompletedOwn, MatchOwn, HeadOwn, Serving, OnlyOwn, Waiting, Waits, OwnCalls, UsesVbuf
<1>11. ASSUME NEW c \in Callers, Reclaim(c) PROVE CompletedOwn'
  BY <1>11, <1>0, <1>l, <1>u, <1>v, <1>k DEF Reclaim, LockFree, FreeVbuf, Return, TypeOK, CompletedOwn, MatchOwn, HeadOwn, Serving, OnlyOwn, Waiting, Waits, OwnCalls, UsesVbuf
<1>12. CASE Recv
  BY <1>12, <1>0, <1>l, <1>u, <1>v, <1>k DEF Recv, RtGoTo, TypeOK, CompletedOwn, MatchOwn, HeadOwn, Serving, OnlyOwn, Waiting, Waits, OwnCalls, UsesVbuf
<1>13. CASE RecvError
  BY <1>13, <1>0, <1>l, <1>u, <1>v, <1>k DEF RecvError, RtGoTo, TypeOK, CompletedOwn, MatchOwn, HeadOwn, Serving, OnlyOwn, Waiting, Waits, OwnCalls, UsesVbuf
<1>14. CASE RecvClosed
  BY <1>14, <1>0, <1>l, <1>u, <1>v, <1>k DEF RecvClosed, RtGoTo, TypeOK, CompletedOwn, MatchOwn, HeadOwn, Serving, OnlyOwn, Waiting, Waits, OwnCalls, UsesVbuf
<1>15. CASE MatchFound
  <2>1. UNCHANGED <<pc, call, vbuf, ret, reclaimed, vid, vkey>>
    BY <1>15 DEF MatchFound
  <2>2. ASSUME NEW e \in Callers, pc[e] # "idle", call[e] \in SyncKeys, reclaimed[vbuf[e]]
        PROVE  resp'[vbuf[e]] = resp[vbuf[e]]
    <3>1. UsesVbuf(e) /\ vkey[vbuf[e]] = call[e]
      BY <2>2, <1>0, <1>v DEF UsesVbuf, TypeOK
    <3>2. CASE rmsg.key \in SyncKeys
      <4>1. PICK c \in Callers : Waits(c) /\ resp' = [resp EXCEPT ![vbuf[c]] = rmsg.id]
        BY <1>15, <3>2, MatchedOwn DEF Waiting
      <4>2. vbuf[c] # vbuf[e]
        BY <4>1, <2>2 DEF Waits
      <4> QED
        BY <4>1, <4>2, <1>0, <3>1, <1>v, <1>l DEF TypeOK
    <3>3. CASE rmsg.key \notin SyncKeys
      <4>1. PICK f \in Slots : IsFirst(f) /\ resp' = [resp EXCEPT ![f] = rmsg.id]
        BY <1>15 DEF MatchFound
      <4>2. f # vbuf[e]
        BY <4>1, <3>1, <3>3, <2>2 DEF IsFirst, Candidates
      <4> QED
        BY <4>1, <4>2, <1>0, <3>1, <1>v, <1>l DEF TypeOK
    <3> QED
      BY <3>2, <3>3
  <2> QED
    BY <2>1, <2>2 DEF CompletedOwn, OwnCalls
<1>16. CASE MatchNone
  BY <1>16, <1>0, <1>l, <1>u, <1>v, <1>k DEF MatchNone, LockFree, RtGoTo, TypeOK, CompletedOwn, MatchOwn, HeadOwn, Serving, OnlyOwn, Waiting, Waits, OwnCalls, UsesVbuf
<1>17. CASE CmdCbEnter
  BY <1>17, <1>0, <1>l, <1>u, <1>v, <1>k DEF CmdCbEnter, LockFree, Acquire, RtGoTo, TypeOK, CompletedOwn, MatchOwn, HeadOwn, Serving, OnlyOwn, Waiting, Waits, OwnCalls, UsesVbuf
<1>18. CASE CmdCbGet
  <2> DEFINE s == Head(resp_list)
  <2>1. UNCHANGED <<pc, call, vbuf, ret, vid, vkey, resp>> /\ resp_list # <<>> /\ Serving
    BY <1>18 DEF CmdCbGet, UnattachResp, Serving
  <2>2. CASE reclaimed' = reclaimed
    BY <2>1, <2>2 DEF CompletedOwn, OwnCalls
  <2>3. CASE vkey[s] \in SyncKeys /\ reclaimed' = [reclaimed EXCEPT ![s] = TRUE]
    <3>1. PICK c \in Callers : vbuf[c] = s /\ Waiting(c, vkey[s], resp[s])
      BY <2>1, <2>3 DEF HeadOwn, OwnCalls
    <3>2. ASSUME NEW e \in Callers, pc[e] # "idle", call[e] \in SyncKeys, vbuf[e] = s
          PROVE  e = c
      BY <3>1, <3>2, <1>0, <1>u DEF UsesVbuf, Waiting, Waits, TypeOK
    <3>3. \A x \in Slots : reclaimed'[x] = IF x = s THEN TRUE ELSE reclaimed[x]
      BY <2>3, <1>0 DEF TypeOK, FlagsOK
    <3> SUFFICES ASSUME NEW e \in Callers, call[e] \in SyncKeys, pc[e] # "idle"
                 PROVE  /\ pc[e] \in {"check", "enqueue", "kick", "send"} => ~reclaimed'[vbuf[e]]
                        /\ reclaimed'[vbuf[e]] => resp[vbuf[e]] = vid[vbuf[e]]
                        /\ pc[e] = "reclaim" /\ ret[e] = "ok" => reclaimed'[vbuf[e]]
      BY <2>1 DEF CompletedOwn
    <3>4. vbuf[e] \in Slots
      BY <1>0 DEF TypeOK
    <3>5. CASE vbuf[e] = s
      BY <3>1, <3>2, <3>3, <3>4, <3>5 DEF Waiting, Waits
    <3>6. CASE vbuf[e] # s
      BY <3>3, <3>4, <3>6 DEF CompletedOwn, OwnCalls
    <3> QED
      BY <3>5, <3>6
  <2> QED
    BY <1>18, <2>2, <2>3 DEF CmdCbGet
<1>19. CASE CmdCbLeave
  BY <1>19, <1>0, <1>l, <1>u, <1>v, <1>k DEF CmdCbLeave, RtGoTo, TypeOK, CompletedOwn, MatchOwn, HeadOwn, Serving, OnlyOwn, Waiting, Waits, OwnCalls, UsesVbuf
<1>20. CASE Break
  BY <1>20, <1>0, <1>l, <1>u, <1>v, <1>k DEF Break, RtGoTo, TypeOK, CompletedOwn, MatchOwn, HeadOwn, Serving, OnlyOwn, Waiting, Waits, OwnCalls, UsesVbuf
<1>21. CASE ErrorLoop
  BY <1>21, <1>0, <1>l, <1>u, <1>v, <1>k DEF ErrorLoop, TypeOK, CompletedOwn, MatchOwn, HeadOwn, Serving, OnlyOwn, Waiting, Waits, OwnCalls, UsesVbuf
<1>22. CASE SelfStop
  BY <1>22, <1>0, <1>l, <1>u, <1>v, <1>k DEF SelfStop, RtGoTo, TypeOK, CompletedOwn, MatchOwn, HeadOwn, Serving, OnlyOwn, Waiting, Waits, OwnCalls, UsesVbuf
<1>23. CASE EvtClose
  BY <1>23, <1>0, <1>l, <1>u, <1>v, <1>k DEF EvtClose, TypeOK, CompletedOwn, MatchOwn, HeadOwn, Serving, OnlyOwn, Waiting, Waits, OwnCalls, UsesVbuf
<1>24. CASE EvtStopped
  BY <1>24, <1>0, <1>l, <1>u, <1>v, <1>k DEF EvtStopped, TypeOK, CompletedOwn, MatchOwn, HeadOwn, Serving, OnlyOwn, Waiting, Waits, OwnCalls, UsesVbuf
<1>25. CASE Deinit
  BY <1>25, <1>0, <1>l, <1>u, <1>v, <1>k DEF Deinit, TypeOK, CompletedOwn, MatchOwn, HeadOwn, Serving, OnlyOwn, Waiting, Waits, OwnCalls, UsesVbuf
<1>26. CASE FreeVbufs
  BY <1>26, <1>0, <1>l, <1>u, <1>v, <1>k DEF FreeVbufs, UnattachVbuf, UnattachResp, FreeVbuf, TypeOK, CompletedOwn, MatchOwn, HeadOwn, Serving, OnlyOwn, Waiting, Waits, OwnCalls, UsesVbuf
<1>27. CASE FreeVbufsEnd
  BY <1>27, <1>0, <1>l, <1>u, <1>v, <1>k DEF FreeVbufsEnd, TypeOK, CompletedOwn, MatchOwn, HeadOwn, Serving, OnlyOwn, Waiting, Waits, OwnCalls, UsesVbuf
<1>28. CASE DelVqs
  BY <1>28, <1>0, <1>l, <1>u, <1>v, <1>k DEF DelVqs, TypeOK, CompletedOwn, MatchOwn, HeadOwn, Serving, OnlyOwn, Waiting, Waits, OwnCalls, UsesVbuf
<1>29. CASE Stopped
  BY <1>29, <1>0, <1>l, <1>u, <1>v, <1>k DEF Stopped, TypeOK, CompletedOwn, MatchOwn, HeadOwn, Serving, OnlyOwn, Waiting, Waits, OwnCalls, UsesVbuf
<1>30. CASE UNCHANGED vars
  BY <1>30, <1>0, <1>l, <1>u, <1>v, <1>k DEF vars, callerVars, memVars, hvqVars, rtVars, TypeOK, CompletedOwn, MatchOwn, HeadOwn, Serving, OnlyOwn, Waiting, Waits, OwnCalls, UsesVbuf
<1> QED
  BY <1>1, <1>2, <1>3, <1>4, <1>5, <1>6, <1>7, <1>8, <1>9, <1>10, <1>11, <1>12, <1>13, <1>14, <1>15,
     <1>16, <1>17, <1>18, <1>19, <1>20, <1>21, <1>22, <1>23, <1>24, <1>25, <1>26, <1>27, <1>28, <1>29, <1>30
     DEF Next, RunningNext, Caller, Responder, Teardown

\* Until they are freed, the vbufs of commands that were sent stay so.
LEMMA AwaitingGrows ==
  ASSUME OneCaller, WorkInv, OwnCalls, [Next]_vars, td = "up", td' = "up", ~timedOut, ~timedOut',
         ~CmdCbGet, NEW k \in Keys \ SyncKeys
  PROVE  Awaiting(k) \subseteq Awaiting(k)'
<1>0. TypeOK /\ LockInv /\ PoolInv /\ OwnInv /\ KickInv /\ HeldInv /\ IdInv
  BY DEF WorkInv
<1>l. pending \subseteq live /\ \A s \in live : s \in Slots /\ vkey[s] \in Keys
  BY <1>0 DEF OwnInv, NoUseAfterFree, IdInv, TypeOK
<1>u. \A c, d \in Callers : UsesVbuf(c) /\ UsesVbuf(d) /\ vbuf[c] = vbuf[d] => c = d
  BY <1>0 DEF OwnInv, NoUseAfterFree
<1>v. \A c \in Callers : UsesVbuf(c) => vbuf[c] \in live /\ vkey[vbuf[c]] = call[c]
  BY <1>0 DEF OwnInv, NoUseAfterFree
<1>k. \A c, d \in Callers : pc[c] # "idle" /\ pc[d] # "idle" /\ call[c] = call[d] => c = d
  BY <1>0 DEF KickInv, OneCaller
<1> USE DEF callerVars, memVars, hvqVars, rtVars
<1> SUFFICES ASSUME NEW s \in pending, vkey[s] = k, ~Unsent(s)
             PROVE  s \in pending' /\ vkey'[s] = k /\ ~Unsent(s)'
  BY DEF Awaiting
<1>1. vkey'[s] = k
  BY <1>0, <1>l, MemoryKept
<1>2. ASSUME UNCHANGED callerVars PROVE ~Unsent(s)'
  BY <1>1, <1>2 DEF Unsent
<1>3. ASSUME NEW c \in Callers, Alloc(c) \/ Caller(c) PROVE s \in pending' /\ ~Unsent(s)'
  <2>1. \A e \in Callers : e # c => pc'[e] = pc[e] /\ vbuf'[e] = vbuf[e] /\ call'[e] = call[e]
    BY <1>3, <1>0, OthersStay
  <2>2. \A e \in Callers : e # c => ~(vbuf'[e] = s /\ pc'[e] \in Sendable /\ call'[e] = k)
    BY <2>1 DEF Unsent
  <2>3. CASE Alloc(c) \/ CheckReady(c) \/ KickFail(c) \/ Send(c) \/ SendFail(c)
    <3>1. pending' = pending /\ pc'[c] \notin Sendable
      BY <2>3, <1>0 DEF Alloc, CheckReady, KickFail, Send, SendFail, GoTo, Return, Sendable, TypeOK
    <3> QED
      BY <3>1, <2>2, <1>1 DEF Unsent
  <2>4. CASE Relock(c) \/ Completed(c) \/ Timeout(c)
    <3>1. pending' = pending /\ pc'[c] \notin Sendable
      BY <2>4, <1>0 DEF Relock, Completed, Timeout, GoTo, Return, Sendable, TypeOK
    <3> QED
      BY <3>1, <2>2, <1>1 DEF Unsent
  <2>5. CASE Enqueue(c)
    <3>1. pc[c] = "enqueue" /\ pending' = pending \cup {vbuf[c]} /\ UNCHANGED vbuf
      BY <2>5 DEF Enqueue
    <3>2. vbuf'[c] # s
      BY <3>1, <1>0 DEF OwnInv
    <3> QED
      BY <3>1, <3>2, <2>2, <1>1 DEF Unsent
  <2>6. CASE KickTake(c)
    <3>1. pc[c] \in Sendable /\ UNCHANGED <<pending, vbuf, call>>
      BY <2>6 DEF KickTake, Sendable
    <3> QED
      BY <3>1, <2>2, <1>1 DEF Unsent
  <2>7. CASE Reclaim(c)
    <3>1. /\ pc[c] = "reclaim" /\ pending' = pending \ {vbuf[c]} /\ pc'[c] \notin Sendable
      BY <2>7, <1>0 DEF Reclaim, FreeVbuf, Return, Sendable, TypeOK
    <3>2. vkey[vbuf[c]] \in SyncKeys
      BY <3>1, <1>0, <1>v DEF OwnInv, UsesVbuf
    <3> QED
      BY <3>1, <3>2, <2>2, <1>1 DEF Unsent
  <2> QED
    BY <1>3, <2>3, <2>4, <2>5, <2>6, <2>7 DEF Caller
<1>4. CASE Responder
  <2>1. UNCHANGED callerVars /\ pending' = pending
    BY <1>4 DEF Responder, Recv, RecvError, RecvClosed, MatchFound, MatchNone, CmdCbEnter,
       CmdCbLeave, Break, ErrorLoop, SelfStop
  <2> QED
    BY <2>1, <1>1, <1>2
<1>5. CASE EvtClose \/ EvtStopped \/ UNCHANGED vars
  <2>1. UNCHANGED callerVars /\ pending' = pending
    BY <1>5 DEF EvtClose, EvtStopped, vars
  <2> QED
    BY <2>1, <1>1, <1>2
<1>6. CASE Deinit \/ FreeVbufs \/ FreeVbufsEnd \/ DelVqs \/ Stopped
  BY <1>6 DEF Deinit, FreeVbufs, FreeVbufsEnd, DelVqs, Stopped
<1> QED
  BY <1>1, <1>3, <1>4, <1>5, <1>6 DEF Next, RunningNext, Teardown

\* An answer that nobody waits for is matched to a command that was sent.
LEMMA MatchedSent ==
  ASSUME WorkInv, OwnCalls, td = "up", rt = "match", rmsg.key \notin SyncKeys, NEW f \in Slots, IsFirst(f)
  PROVE  f \in Awaiting(rmsg.key) /\ rmsg.key \in Keys
<1>0. TypeOK /\ OwnInv /\ IdInv /\ LastInv /\ FiniteInv
  BY DEF WorkInv
<1> DEFINE k == rmsg.key
<1>1. f \in pending /\ vkey[f] = k /\ \A s \in pending : vkey[s] = k => vid[f] <= vid[s]
  BY DEF IsFirst, Candidates
<1>2. k \in Keys
  BY <1>0, <1>1 DEF OwnInv, NoUseAfterFree, IdInv
<1>3. Due(k)
  BY <1>2 DEF OwnCalls, DueInv, Serving
<1>4. Matching(k) = 1 /\ Head1(k) \in {0, 1}
  BY DEF Matching, Head1
<1>5. Cardinality(Sent(k)) \in Nat /\ Cardinality(Awaiting(k)) \in Nat
  BY <1>0, CountsFinite
<1>6. Awaiting(k) # {}
  <2>1. Cardinality(Awaiting(k)) # 0
    BY <1>3, <1>4, <1>5 DEF Due
  <2> QED
    BY <2>1, FS_EmptySet
<1>7. PICK a : a \in Awaiting(k)
  BY <1>6
<1>8. a \in pending /\ vkey[a] = k /\ ~Unsent(a)
  BY <1>7 DEF Awaiting
<1>9. ~Unsent(f)
  <2> SUFFICES ASSUME Unsent(f) PROVE FALSE
    OBVIOUS
  <2>1. PICK c \in Callers : vbuf[c] = f /\ pc[c] \in Sendable /\ call[c] = k
    BY <1>1 DEF Unsent
  <2>2. a # f
    BY <1>8
  <2>3. vid[a] < vid[f]
    BY <1>0, <1>1, <1>8, <2>1, <2>2 DEF LastInv
  <2>4. vid[f] <= vid[a] /\ vid[a] \in Int /\ vid[f] \in Int
    BY <1>0, <1>1, <1>8 DEF TypeOK
  <2> QED
    BY <2>3, <2>4
<1> QED
  BY <1>1, <1>2, <1>9 DEF Awaiting

\* Only an answer and the end of a synchronous call free a vbuf of a device that is there.
LEMMA LiveStays ==
  ASSUME [Next]_vars, td = "up", td' = "up", ~CmdCbGet, NEW s \in live
  PROVE  s \in live' \/ \E c \in Callers : Reclaim(c)
<1> USE DEF callerVars, memVars, hvqVars, rtVars
<1>1. ASSUME NEW c \in Callers, Alloc(c) \/ Caller(c), ~Reclaim(c) PROVE s \in live'
  BY <1>1 DEF Caller, Alloc, CheckReady, Enqueue, KickTake, KickFail, Send, SendFail, Relock, Completed, Timeout
<1>2. CASE Responder
  BY <1>2 DEF Responder, Recv, RecvError, RecvClosed, MatchFound, MatchNone, CmdCbEnter,
     CmdCbLeave, Break, ErrorLoop, SelfStop
<1>3. CASE EvtClose \/ EvtStopped \/ UNCHANGED vars
  BY <1>3 DEF EvtClose, EvtStopped, vars
<1>4. CASE Deinit \/ FreeVbufs \/ FreeVbufsEnd \/ DelVqs \/ Stopped
  BY <1>4 DEF Deinit, FreeVbufs, FreeVbufsEnd, DelVqs, Stopped
<1> QED
  BY <1>1, <1>2, <1>3, <1>4 DEF Next, RunningNext, Teardown

\* The vbuf on resp_list stays the one the answer is for.
LEMMA HeadOwnStep ==
  ASSUME OneCaller, WorkInv, OwnCalls, [Next]_vars, td = "up", td' = "up", ~timedOut, ~timedOut'
  PROVE  HeadOwn'
<1>0. TypeOK /\ LockInv /\ PoolInv /\ OwnInv /\ KickInv /\ HeldInv /\ IdInv
  BY DEF WorkInv
<1>l. pending \subseteq live /\ \A s \in live : s \in Slots /\ vkey[s] \in Keys
  BY <1>0 DEF OwnInv, NoUseAfterFree, IdInv, TypeOK
<1>u. \A c, d \in Callers : UsesVbuf(c) /\ UsesVbuf(d) /\ vbuf[c] = vbuf[d] => c = d
  BY <1>0 DEF OwnInv, NoUseAfterFree
<1>v. \A c \in Callers : UsesVbuf(c) => vbuf[c] \in live /\ vkey[vbuf[c]] = call[c]
  BY <1>0 DEF OwnInv, NoUseAfterFree
<1>k. \A c, d \in Callers : pc[c] # "idle" /\ pc[d] # "idle" /\ call[c] = call[d] => c = d
  BY <1>0 DEF KickInv, OneCaller
<1> USE DEF callerVars, memVars, hvqVars, rtVars
<1> SUFFICES ASSUME Serving', resp_list' # <<>>
             PROVE  /\ Head(resp_list') \in live'
                    /\ vkey'[Head(resp_list')] \notin SyncKeys =>
                         Head(resp_list') \in pending' /\ ~Unsent(Head(resp_list))'
                    /\ vkey'[Head(resp_list')] \in SyncKeys =>
                         \E c \in Callers : vbuf'[c] = Head(resp_list')
                            /\ Waiting(c, vkey[Head(resp_list)], resp[Head(resp_list)])'
  BY DEF HeadOwn
<1>1. CASE MatchFound
  <2>1. PICK f \in Slots : IsFirst(f) /\ AttachResp(f) /\ resp' = [resp EXCEPT ![f] = rmsg.id]
    BY <1>1 DEF MatchFound
  <2>2. Head(resp_list') = f
    BY <2>1, <1>0, <1>1, OneAttached
  <2>3. UNCHANGED <<pc, call, vbuf, ret, live, pending, vkey, vid, reclaimed>> /\ f \in pending /\ vkey[f] = rmsg.key
    BY <1>1, <2>1 DEF MatchFound, IsFirst, Candidates
  <2>4. CASE rmsg.key \notin SyncKeys
    <3>1. f \in Awaiting(rmsg.key)
      BY <1>1, <2>1, <2>4, MatchedSent DEF MatchFound
    <3>2. ~Unsent(f)
      BY <3>1 DEF Awaiting
    <3>3. ~Unsent(Head(resp_list))'
      BY <3>2, <2>2, <2>3 DEF Unsent
    <3> QED
      BY <3>3, <2>2, <2>3, <2>4, <1>l
  <2>5. CASE rmsg.key \in SyncKeys
    <3>1. PICK c \in Callers :
            /\ Waiting(c, rmsg.key, rmsg.id)
            /\ resp_list' = <<vbuf[c]>> /\ resp' = [resp EXCEPT ![vbuf[c]] = rmsg.id] /\ vbuf[c] \in pending
      BY <1>1, <2>5, MatchedOwn
    <3>2. vbuf[c] = f
      BY <3>1, <2>2
    <3>3. resp'[f] = rmsg.id
      BY <3>1, <3>2, <1>0 DEF TypeOK
    <3>4. Waiting(c, vkey[Head(resp_list)], resp[Head(resp_list)])'
      BY <2>2, <2>3, <3>1, <3>2, <3>3 DEF Waiting, Waits
    <3> QED
      BY <2>2, <2>3, <2>5, <3>2, <3>4, <1>l
  <2> QED
    BY <2>4, <2>5
<1>2. CASE CmdCbGet
  <2>1. resp_list' = <<>>
    BY <1>2, <1>0, OneAnswered DEF CmdCbGet, UnattachResp
  <2> QED
    BY <2>1
<1>3. CASE ~MatchFound /\ ~CmdCbGet
  <2>1. Serving /\ resp_list' = resp_list
    <3>1. ASSUME NEW c \in Callers, Send(c) PROVE Serving /\ resp_list' = resp_list
      BY <3>1 DEF Send, Serving
    <3>2. ASSUME Recv PROVE Serving /\ resp_list' = resp_list
      BY <3>2 DEF Recv, Serving
    <3> QED
      BY <3>1, <3>2, <1>0, <1>3, AnswersStay
  <2>2. PICK s \in Slots : s = Head(resp_list) /\ s \in live
    BY <2>1, <1>l DEF OwnCalls, HeadOwn
  <2>3. Head(resp_list') = s
    BY <2>1, <2>2
  <2>4. vkey'[s] = vkey[s] /\ resp'[s] = resp[s]
    BY <2>2, <1>0, <1>3, MemoryKept
  <2>5. CASE vkey[s] \notin SyncKeys
    <3>1. s \in Awaiting(vkey[s])
      BY <2>1, <2>2, <2>5 DEF OwnCalls, HeadOwn, Awaiting
    <3>2. PICK k \in Keys \ SyncKeys : k = vkey[s]
      BY <2>2, <2>5, <1>l
    <3>3. s \in Awaiting(k)'
      BY <3>1, <3>2, <1>3, AwaitingGrows
    <3>4. s \in pending' /\ ~Unsent(s)'
      BY <3>3 DEF Awaiting
    <3>5. ~Unsent(Head(resp_list))'
      BY <3>4, <2>3 DEF Unsent
    <3>6. s \in live'
      <4>1. ASSUME NEW c \in Callers, Reclaim(c) PROVE s \in live'
        <5>1. live' = live \/ live' = live \ {vbuf[c]}
          BY <4>1 DEF Reclaim, FreeVbuf
        <5>2. vkey[vbuf[c]] \in SyncKeys
          BY <4>1, <1>0, <1>v DEF Reclaim, OwnInv, UsesVbuf
        <5> QED
          BY <5>1, <5>2, <2>2, <2>5
      <4> QED
        BY <4>1, <2>2, <1>3, LiveStays
    <3> QED
      BY <3>4, <3>5, <3>6, <2>3, <2>4, <2>5
  <2>6. CASE vkey[s] \in SyncKeys
    <3>1. PICK c \in Callers : vbuf[c] = s /\ Waiting(c, vkey[s], resp[s])
      BY <2>1, <2>2, <2>6 DEF OwnCalls, HeadOwn
    <3>2. Keeps(c)
      BY <3>1, <1>3, WaitsKept DEF Waiting
    <3>3. Waiting(c, vkey[Head(resp_list)], resp[Head(resp_list)])' /\ vbuf'[c] = s
      BY <2>3, <2>4, <3>1, <3>2 DEF Keeps, Waiting
    <3>4. s \in live'
      <4>1. ASSUME NEW e \in Callers, Reclaim(e) PROVE s \in live'
        <5>1. (live' = live \/ live' = live \ {vbuf[e]}) /\ pc[e] = "reclaim"
          BY <4>1 DEF Reclaim, FreeVbuf
        <5>2. UsesVbuf(e) /\ UsesVbuf(c) /\ e # c
          BY <5>1, <3>1, <1>0 DEF OwnInv, UsesVbuf, Waiting, Waits
        <5> QED
          BY <5>1, <5>2, <3>1, <2>2, <1>u
      <4> QED
        BY <4>1, <2>2, <1>3, LiveStays
    <3> QED
      BY <3>3, <3>4, <2>3, <2>4, <2>6
  <2> QED
    BY <2>5, <2>6
<1> QED
  BY <1>1, <1>2, <1>3

\* Only a send adds to the commands at the back end.
LEMMA SentOnce ==
  ASSUME TypeOK, [Next]_vars, td = "up", td' = "up", NEW m \in inflight', m \notin inflight
  PROVE  \E c \in Callers : Send(c)
<1> SUFFICES ASSUME \A c \in Callers : ~Send(c) PROVE FALSE
  OBVIOUS
<1>1. ~Recv /\ ~MatchFound /\ ~CmdCbGet
  BY DEF Recv, MatchFound, CmdCbGet
<1> QED
  BY <1>1, AnswersStay

\* The answers at the back end keep their callers.
LEMMA InflightOwnStep ==
  ASSUME OneCaller, WorkInv, OwnCalls, [Next]_vars, td = "up", td' = "up", ~timedOut, ~timedOut'
  PROVE  InflightOwn'
<1>0. TypeOK /\ LockInv /\ PoolInv /\ OwnInv /\ KickInv /\ HeldInv /\ IdInv
  BY DEF WorkInv
<1>l. pending \subseteq live /\ \A s \in live : s \in Slots /\ vkey[s] \in Keys
  BY <1>0 DEF OwnInv, NoUseAfterFree, IdInv, TypeOK
<1>u. \A c, d \in Callers : UsesVbuf(c) /\ UsesVbuf(d) /\ vbuf[c] = vbuf[d] => c = d
  BY <1>0 DEF OwnInv, NoUseAfterFree
<1>v. \A c \in Callers : UsesVbuf(c) => vbuf[c] \in live /\ vkey[vbuf[c]] = call[c]
  BY <1>0 DEF OwnInv, NoUseAfterFree
<1>k. \A c, d \in Callers : pc[c] # "idle" /\ pc[d] # "idle" /\ call[c] = call[d] => c = d
  BY <1>0 DEF KickInv, OneCaller
<1> USE DEF callerVars, memVars, hvqVars, rtVars
<1> SUFFICES ASSUME NEW m \in inflight', m.key \in SyncKeys
             PROVE  /\ \E c \in Callers :
                         /\ Waiting(c, m.key, m.id)'
                         /\ Serving' /\ resp_list' # <<>> => Head(resp_list') # vbuf'[c]
                    /\ Matching(m.key)' = 0
  BY DEF InflightOwn
<1>1. CASE m \in inflight
  <2>1. PICK c \in Callers :
          Waiting(c, m.key, m.id) /\ (Serving /\ resp_list # <<>> => Head(resp_list) # vbuf[c])
    BY <1>1 DEF OwnCalls, InflightOwn
  <2>2. ~(rt = "match" /\ rmsg.key = m.key)
    BY <1>1 DEF OwnCalls, InflightOwn, Matching
  <2>3. CmdCbGet => Head(resp_list) # vbuf[c]
    BY <2>1 DEF CmdCbGet, UnattachResp, Serving
  <2>4. Keeps(c)
    BY <2>1, <2>3, WaitsKept DEF Waiting
  <2>5. Waiting(c, m.key, m.id)' /\ vbuf'[c] = vbuf[c]
    BY <2>1, <2>4 DEF Keeps, Waiting
  <2>6. UsesVbuf(c)
    BY <2>1 DEF Waiting, Waits, UsesVbuf
  <2>7. ~(rt' = "match" /\ rmsg'.key = m.key)
    <3>1. CASE Recv
      <4> SUFFICES ASSUME rmsg'.key = m.key PROVE FALSE
        OBVIOUS
      <4>1. PICK n \in inflight : rmsg' = n /\ inflight' = inflight \ {n}
        BY <3>1 DEF Recv
      <4>2. PICK d \in Callers : Waiting(d, n.key, n.id)
        BY <4>1 DEF OwnCalls, InflightOwn
      <4>3. d = c
        BY <2>1, <4>1, <4>2, <1>k DEF Waiting, Waits
      <4>4. n.key = m.key /\ n.id = m.id
        BY <2>1, <4>1, <4>2, <4>3 DEF Waiting
      <4>5. n \in Answers /\ m \in Answers
        BY <4>1, <1>1, <1>0 DEF TypeOK
      <4>6. n = m
        BY <4>4, <4>5 DEF Answers
      <4> QED
        BY <4>1, <4>6
    <3>2. CASE MatchFound \/ CmdCbGet
      BY <3>2 DEF MatchFound, CmdCbGet, RtGoTo
    <3>3. ASSUME NEW e \in Callers, Send(e) PROVE rt' = rt /\ rmsg' = rmsg
      BY <3>3 DEF Send
    <3> QED
      BY <3>1, <3>2, <3>3, <2>2, <1>0, AnswersStay
  <2>8. Serving' /\ resp_list' # <<>> => Head(resp_list') # vbuf[c]
    <3>1. CASE MatchFound
      <4>1. CASE rmsg.key \in SyncKeys
        <5>1. PICK d \in Callers : Waiting(d, rmsg.key, rmsg.id) /\ resp_list' = <<vbuf[d]>>
          BY <3>1, <4>1, MatchedOwn
        <5>2. d # c
          BY <5>1, <2>1, <2>2, <3>1 DEF Waiting, MatchFound
        <5>3. vbuf[d] # vbuf[c]
          BY <5>1, <5>2, <2>6, <1>u DEF Waiting, Waits, UsesVbuf
        <5> QED
          BY <5>1, <5>3
      <4>2. CASE rmsg.key \notin SyncKeys
        <5>1. PICK f \in Slots : IsFirst(f) /\ AttachResp(f)
          BY <3>1 DEF MatchFound
        <5>2. resp_list' = <<f>>
          BY <5>1, <3>1, <1>0, OneAttached
        <5>3. vkey[f] = rmsg.key
          BY <5>1 DEF IsFirst, Candidates
        <5>4. vkey[vbuf[c]] \in SyncKeys
          BY <2>1, <2>6, <1>v DEF Waiting, Waits
        <5>5. f # vbuf[c]
          BY <5>3, <5>4, <4>2
        <5> QED
          BY <5>2, <5>5
      <4> QED
        BY <4>1, <4>2
    <3>2. CASE CmdCbGet
      BY <3>2, <1>0, OneAnswered DEF CmdCbGet, UnattachResp
    <3>3. CASE Recv
      BY <3>3, <2>1 DEF Recv, Serving
    <3>4. ASSUME NEW e \in Callers, Send(e) PROVE Serving' => Serving /\ resp_list' = resp_list
      BY <3>4 DEF Send, Serving
    <3> QED
      BY <3>1, <3>2, <3>3, <3>4, <2>1, <1>0, AnswersStay
  <2> QED
    BY <2>5, <2>7, <2>8 DEF Matching
<1>2. CASE m \notin inflight
  <2>1. PICK c \in Callers : Send(c)
    BY <1>2, <1>0, SentOnce
  <2>2. pc[c] = "send" /\ sending[c] = vbuf[c] /\ ret[c] = "ok" /\ vkey[vbuf[c]] = call[c]
    BY <2>1, <1>0 DEF Send, KickInv, UnsentOwn, OwnCalls, Sendable
  <2>3. m = [key |-> vkey[vbuf[c]], id |-> vid[vbuf[c]]]
    BY <2>1, <2>2, <1>2 DEF Send
  <2>4. m.key = call[c] /\ m.id = vid[vbuf[c]]
    BY <2>2, <2>3
  <2>5. /\ pc'[c] = "relock"
        /\ UNCHANGED <<call, vbuf, ret, vid, reclaimed, resp_list, rt, rmsg>>
    BY <2>1, <1>0 DEF Send, GoTo, TypeOK
  <2>6. ~reclaimed[vbuf[c]] /\ UsesVbuf(c)
    BY <2>2, <2>4 DEF CompletedOwn, OwnCalls, UsesVbuf
  <2>7. Waiting(c, m.key, m.id)'
    BY <2>2, <2>4, <2>5, <2>6 DEF Waiting, Waits
  <2>8. ~(rt = "match" /\ rmsg.key = m.key)
    <3> SUFFICES ASSUME rt = "match", rmsg.key = m.key PROVE FALSE
      OBVIOUS
    <3>1. PICK d \in Callers : Waiting(d, m.key, rmsg.id)
      BY DEF MatchOwn, OwnCalls
    <3>2. d = c
      BY <3>1, <2>2, <2>4, <1>k DEF Waiting, Waits
    <3> QED
      BY <3>1, <3>2, <2>2 DEF Waiting, Waits
  <2>9. Serving /\ resp_list # <<>> => Head(resp_list) # vbuf[c]
    <3> SUFFICES ASSUME Serving, resp_list # <<>>, Head(resp_list) = vbuf[c] PROVE FALSE
      OBVIOUS
    <3>1. PICK d \in Callers : vbuf[d] = vbuf[c] /\ Waits(d)
      BY <2>2, <2>4 DEF HeadOwn, OwnCalls, Waiting
    <3>2. d = c
      BY <3>1, <2>6, <1>u DEF Waits, UsesVbuf
    <3> QED
      BY <3>1, <3>2, <2>2 DEF Waits
  <2> QED
    BY <2>5, <2>7, <2>8, <2>9 DEF Matching, Serving
<1> QED
  BY <1>1, <1>2

\* A larger pending list never counts fewer vbufs.
LEMMA MoreAwaiting ==
  ASSUME FiniteInv, FiniteInv', NEW k, Awaiting(k) \subseteq Awaiting(k)'
  PROVE  /\ Cardinality(Awaiting(k)) \in Nat /\ Cardinality(Awaiting(k)') \in Nat
         /\ Cardinality(Awaiting(k)) <= Cardinality(Awaiting(k)')
<1>1. Awaiting(k)' \subseteq pending'
  BY DEF Awaiting
<1>2. IsFiniteSet(Awaiting(k)')
  BY <1>1, FS_Subset DEF FiniteInv
<1> QED
  BY <1>2, FS_CardinalityType, FS_Subset, CountsFinite

\* Every step keeps the answers of a key at the number of its commands.
LEMMA DueStep ==
  ASSUME OneCaller, WorkInv, OwnCalls, [Next]_vars, td = "up", td' = "up", ~timedOut, ~timedOut', FiniteInv'
  PROVE  DueInv'
<1>0. TypeOK /\ LockInv /\ PoolInv /\ OwnInv /\ KickInv /\ HeldInv /\ IdInv
  BY DEF WorkInv
<1>l. pending \subseteq live /\ \A s \in live : s \in Slots /\ vkey[s] \in Keys
  BY <1>0 DEF OwnInv, NoUseAfterFree, IdInv, TypeOK
<1>u. \A c, d \in Callers : UsesVbuf(c) /\ UsesVbuf(d) /\ vbuf[c] = vbuf[d] => c = d
  BY <1>0 DEF OwnInv, NoUseAfterFree
<1>v. \A c \in Callers : UsesVbuf(c) => vbuf[c] \in live /\ vkey[vbuf[c]] = call[c]
  BY <1>0 DEF OwnInv, NoUseAfterFree
<1>k. \A c, d \in Callers : pc[c] # "idle" /\ pc[d] # "idle" /\ call[c] = call[d] => c = d
  BY <1>0 DEF KickInv, OneCaller
<1> USE DEF callerVars, memVars, hvqVars, rtVars
<1> SUFFICES ASSUME Serving', NEW k \in Keys \ SyncKeys PROVE Due(k)'
  BY DEF DueInv
<1>f. FiniteInv
  BY DEF WorkInv
<1>n. Cardinality(Sent(k)) \in Nat /\ IsFiniteSet(Sent(k)) /\ Cardinality(Awaiting(k)) \in Nat /\ IsFiniteSet(Awaiting(k))
  BY <1>f, CountsFinite
<1>t. /\ Matching(k) \in {0, 1} /\ Head1(k) \in {0, 1}
      /\ Matching(k)' \in {0, 1} /\ Head1(k)' \in {0, 1}
  BY DEF Matching, Head1
<1>s. ~CmdCbGet => /\ Cardinality(Awaiting(k)') \in Nat
                   /\ Cardinality(Awaiting(k)) <= Cardinality(Awaiting(k)')
  BY <1>f, AwaitingGrows, MoreAwaiting
<1>1. CASE Recv
  <2>1. PICK m \in inflight : rmsg' = m /\ inflight' = inflight \ {m}
    BY <1>1 DEF Recv
  <2>2. rt = "recv" /\ rt' = "match" /\ resp_list = <<>> /\ resp_list' = <<>> /\ Due(k)
    BY <1>1, <1>0, OneAnswered DEF Recv, RtGoTo, OwnCalls, DueInv, Serving
  <2>3. Matching(k) = 0 /\ Head1(k) = 0 /\ Head1(k)' = 0
    BY <2>2 DEF Matching, Head1
  <2>4. Sent(k)' = Sent(k) \ {m}
    BY <2>1 DEF Sent
  <2>5. CASE m.key = k
    <3>1. m \in Sent(k)
      BY <2>1, <2>5 DEF Sent
    <3>2. Cardinality(Sent(k)') = Cardinality(Sent(k)) - 1
      BY <3>1, <2>4, <1>n, FS_RemoveElement
    <3> QED
      BY <3>2, <2>2, <2>3, <1>n, <1>t, <1>s, <1>1 DEF Due, Recv, CmdCbGet
  <2>6. CASE m.key # k
    <3>1. Sent(k)' = Sent(k)
      BY <2>4, <2>6 DEF Sent
    <3>2. Matching(k)' = 0
      BY <2>1, <2>6 DEF Matching
    <3> QED
      BY <3>1, <3>2, <2>2, <2>3, <1>n, <1>t, <1>s, <1>1 DEF Due, Recv, CmdCbGet
  <2> QED
    BY <2>5, <2>6
<1>2. CASE MatchFound
  <2>1. PICK f \in Slots : IsFirst(f) /\ AttachResp(f)
    BY <1>2 DEF MatchFound
  <2>2. resp_list' = <<f>>
    BY <2>1, <1>2, <1>0, OneAttached
  <2>3. /\ resp_list = <<>> /\ rt = "match" /\ rt' = "cmd_cb" /\ UNCHANGED <<inflight, vkey>>
        /\ vkey[f] = rmsg.key /\ Due(k)
    BY <1>2, <2>1, <1>0, OneAnswered
       DEF MatchFound, RtGoTo, IsFirst, Candidates, OwnCalls, DueInv, Serving
  <2>4. Sent(k)' = Sent(k) /\ Matching(k)' = 0 /\ Head1(k) = 0
    BY <2>3 DEF Sent, Matching, Head1
  <2>5. Head1(k)' = Matching(k)
    BY <2>2, <2>3 DEF Head1, Matching
  <2> QED
    BY <2>3, <2>4, <2>5, <1>n, <1>t, <1>s, <1>2 DEF Due, MatchFound, CmdCbGet
<1>3. CASE CmdCbGet
  <2> DEFINE s == Head(resp_list)
  <2>1. /\ rt = "drain" /\ rt' = "drain" /\ resp_list # <<>> /\ resp_list' = <<>>
        /\ UNCHANGED <<pc, call, vbuf, vkey, inflight>>
    BY <1>3, <1>0, OneAnswered DEF CmdCbGet, UnattachResp
  <2>2. pending' = IF s \in pending /\ vkey[s] \notin SyncKeys THEN pending \ {s} ELSE pending
    BY <1>3 DEF CmdCbGet, FreeVbuf
  <2>3. Awaiting(k)' = Awaiting(k) \ {s}
    BY <2>1, <2>2 DEF Awaiting, Unsent
  <2>4. Sent(k)' = Sent(k) /\ Matching(k) = 0 /\ Matching(k)' = 0 /\ Head1(k)' = 0 /\ Due(k)
    BY <2>1 DEF Sent, Matching, Head1, OwnCalls, DueInv, Serving
  <2>5. CASE s \in Awaiting(k)
    <3>1. Cardinality(Awaiting(k)') = Cardinality(Awaiting(k)) - 1
      BY <2>3, <2>5, <1>n, FS_RemoveElement
    <3>2. Head1(k) = 1
      BY <2>1, <2>5 DEF Head1, Awaiting
    <3> QED
      BY <3>1, <3>2, <2>4, <1>n DEF Due
  <2>6. CASE s \notin Awaiting(k)
    <3>1. Awaiting(k)' = Awaiting(k)
      BY <2>3, <2>6
    <3> QED
      BY <3>1, <2>4, <1>n, <1>t DEF Due
  <2> QED
    BY <2>5, <2>6
<1>4. ASSUME NEW c \in Callers, Send(c) PROVE Due(k)'
  <2> DEFINE b == vbuf[c]
             m == [key |-> vkey[b], id |-> vid[b]]
  <2>1. /\ \A e \in Callers : e # c => pc'[e] = pc[e]
        /\ UNCHANGED <<vbuf, call, pending, vkey, vid, resp_list, rt, rmsg>>
    BY <1>0, <1>4, OthersStay DEF Caller, Send
  <2>2. /\ pc[c] = "send" /\ pc'[c] = "relock" /\ inflight' = inflight \cup {m}
        /\ b \in pending /\ vkey[b] = call[c] /\ Due(k)
    BY <1>0, <1>4, <2>1 DEF Send, GoTo, TypeOK, KickInv, UnsentOwn, OwnCalls, Sendable, DueInv, Serving
  <2>3. Matching(k)' = Matching(k) /\ Head1(k)' = Head1(k)
    BY <2>1 DEF Matching, Head1
  <2>4. CASE call[c] = k
    <3>1. b \notin Awaiting(k)
      BY <2>2, <2>4 DEF Awaiting, Unsent, Sendable
    <3>2. ~Unsent(b)'
      <4> SUFFICES ASSUME Unsent(b)' PROVE FALSE
        OBVIOUS
      <4>1. PICK e \in Callers : pc'[e] \in Sendable /\ call[e] = vkey[b]
        BY <2>1 DEF Unsent
      <4>2. e # c /\ pc[e] # "idle"
        BY <4>1, <2>1, <2>2 DEF Sendable
      <4> QED
        BY <4>1, <4>2, <2>2, <1>k
    <3>3. b \in Awaiting(k)'
      BY <3>2, <2>1, <2>2, <2>4 DEF Awaiting
    <3>4. Awaiting(k) \cup {b} \subseteq Awaiting(k)'
      <4>1. ~CmdCbGet
        BY <2>1, <2>2 DEF CmdCbGet
      <4> QED
        BY <4>1, <3>3, AwaitingGrows
    <3>5. IsFiniteSet(Awaiting(k)')
      <4>1. Awaiting(k)' \subseteq pending'
        BY DEF Awaiting
      <4> QED
        BY <4>1, FS_Subset DEF FiniteInv
    <3>6. Cardinality(Awaiting(k) \cup {b}) = Cardinality(Awaiting(k)) + 1
      BY <3>1, <1>n, FS_AddElement
    <3>7. Cardinality(Awaiting(k)) + 1 <= Cardinality(Awaiting(k)') /\ Cardinality(Awaiting(k)') \in Nat
      BY <3>4, <3>5, <3>6, FS_Subset, FS_CardinalityType
    <3>8. Sent(k)' = Sent(k) \cup {m}
      BY <2>2, <2>4 DEF Sent
    <3>9. Cardinality(Sent(k)') \in Nat /\ Cardinality(Sent(k)') <= Cardinality(Sent(k)) + 1
      <4>1. CASE m \in Sent(k)
        <5>1. Sent(k)' = Sent(k)
          BY <3>8, <4>1
        <5> QED
          BY <5>1, <1>n
      <4>2. CASE m \notin Sent(k)
        <5>1. Cardinality(Sent(k) \cup {m}) = Cardinality(Sent(k)) + 1
          BY <4>2, <1>n, FS_AddElement
        <5> QED
          BY <5>1, <3>8, <1>n
      <4> QED
        BY <4>1, <4>2
    <3> QED
      BY <3>7, <3>9, <2>2, <2>3, <1>n, <1>t DEF Due
  <2>5. CASE call[c] # k
    <3>1. Sent(k)' = Sent(k)
      BY <2>2, <2>5 DEF Sent
    <3>2. ~CmdCbGet
      BY <2>1, <2>2, <1>4 DEF CmdCbGet, Send, UnattachResp
    <3> QED
      BY <3>1, <3>2, <2>2, <2>3, <1>n, <1>t, <1>s DEF Due
  <2> QED
    BY <2>4, <2>5
<1>5. CASE ~Recv /\ ~MatchFound /\ ~CmdCbGet /\ \A c \in Callers : ~Send(c)
  <2>1. /\ inflight' = inflight /\ Serving /\ resp_list' = resp_list
        /\ rt' = "match" => rt = "match" /\ rmsg' = rmsg
    BY <1>0, <1>5, AnswersStay
  <2>2. Sent(k)' = Sent(k) /\ Matching(k)' <= Matching(k)
    BY <2>1 DEF Sent, Matching
  <2>3. Head1(k)' = Head1(k)
    <3>1. resp_list # <<>> => vkey'[Head(resp_list)] = vkey[Head(resp_list)]
      <4>1. resp_list # <<>> => Head(resp_list) \in live
        BY <2>1 DEF OwnCalls, HeadOwn
      <4> QED
        BY <4>1, <1>0, MemoryKept
    <3> QED
      BY <3>1, <2>1 DEF Head1
  <2>4. Due(k)
    BY <2>1 DEF OwnCalls, DueInv
  <2> QED
    BY <2>2, <2>3, <2>4, <1>5, <1>n, <1>t, <1>s DEF Due
<1> QED
  BY <1>1, <1>2, <1>3, <1>4, <1>5

\* A call that timed out stays in the history.
LEMMA TimedOutStays == [Next]_vars /\ timedOut => timedOut'
<1> SUFFICES ASSUME [Next]_vars, timedOut PROVE timedOut'
  OBVIOUS
<1>1. ASSUME NEW c \in Callers, Alloc(c) \/ Caller(c) PROVE timedOut'
  BY <1>1 DEF Caller, Alloc, CheckReady, Enqueue, KickTake, KickFail, Send, SendFail, Relock, Completed,
     Timeout, Reclaim
<1>2. CASE Responder
  BY <1>2 DEF Responder, Recv, RecvError, RecvClosed, MatchFound, MatchNone, CmdCbEnter, CmdCbGet,
     CmdCbLeave, Break, ErrorLoop, SelfStop
<1>3. CASE Teardown \/ UNCHANGED vars
  BY <1>3 DEF Teardown, EvtClose, EvtStopped, Deinit, FreeVbufs, FreeVbufsEnd, DelVqs, Stopped, vars
<1> QED
  BY <1>1, <1>2, <1>3 DEF Next, RunningNext

\* When no command has two issuers, every step keeps the calls apart until one times out.
LEMMA CallStep == OneCaller /\ WorkInv /\ WorkInv' /\ CallInv /\ [Next]_vars => CallInv'
<1> SUFFICES ASSUME OneCaller, WorkInv, WorkInv', CallInv, [Next]_vars, td' = "up", ~timedOut'
             PROVE  OwnCalls'
  BY DEF CallInv
<1>1. td = "up" /\ ~timedOut
  BY PhaseStep, TimedOutStays DEF WorkInv
<1>2. OwnCalls
  BY <1>1 DEF CallInv
<1>3. FiniteInv'
  BY DEF WorkInv
<1>4. UnsentOwn' /\ HeadOwn'
  BY <1>1, <1>2, UnsentOwnStep, HeadOwnStep
<1>5. InflightOwn' /\ MatchOwn'
  BY <1>1, <1>2, InflightOwnStep, MatchOwnStep
<1>6. CompletedOwn' /\ OnlyOwn'
  BY <1>1, <1>2, CompletedOwnStep, OnlyOwnStep
<1>7. DueInv'
  BY <1>1, <1>2, <1>3, DueStep
<1> QED
  BY <1>4, <1>5, <1>6, <1>7 DEF OwnCalls

\* After virtio_video_probe there are no calls.
LEMMA CallInit == Init => CallInv
<1> SUFFICES ASSUME Init PROVE OwnCalls
  BY DEF CallInv
<1>1. UnsentOwn /\ HeadOwn /\ InflightOwn /\ MatchOwn /\ OnlyOwn
  BY CmdQueueAssumption DEF Init, UnsentOwn, HeadOwn, InflightOwn, MatchOwn, OnlyOwn, Sendable
<1>2. CompletedOwn
  BY DEF Init, CompletedOwn, NoId
<1>3. DueInv
  <2> SUFFICES ASSUME NEW k \in Keys \ SyncKeys PROVE Due(k)
    BY DEF DueInv
  <2>1. Sent(k) = {} /\ Awaiting(k) = {}
    BY DEF Init, Sent, Awaiting
  <2>2. Matching(k) = 0 /\ Head1(k) = 0
    BY DEF Init, Matching, Head1
  <2>3. Cardinality(Sent(k)) = 0 /\ Cardinality(Awaiting(k)) = 0
    BY <2>1, FS_EmptySet
  <2> QED
    BY <2>2, <2>3 DEF Due
<1> QED
  BY <1>1, <1>2, <1>3 DEF OwnCalls

\* Commands without a second issuer at all have no second asynchronous issuer.
LEMMA OneCallerAsync == OneCaller => OneAsyncCaller
  BY DEF OneCaller, OneAsyncCaller

\* The invariants of the calls hold in every behaviour.
LEMMA CallsApart == ASSUME OneCaller PROVE Spec => [](WorkInv /\ CallInv)
<1>1. Init => WorkInv /\ CallInv
  BY WorkInit, CallInit
<1>2. WorkInv /\ CallInv /\ [Next]_vars => WorkInv' /\ CallInv'
  BY OneCallerAsync, WorkStep, CallStep
<1> QED
  BY <1>1, <1>2, PTL DEF Spec

\* When no two callers share a command, a kick sends its caller's own command, which is still
\* allocated: until a call times out no answer to an earlier command of the same key frees it,
\* for any number of callers and commands at the back end.
THEOREM SendsOwnCommandTheorem == ASSUME OneCaller PROVE Spec => []SendsOwnCommand
<1>1. WorkInv /\ CallInv => SendsOwnCommand
  <2> SUFFICES ASSUME WorkInv, CallInv, NEW c \in Callers, pc[c] = "send", ~timedOut, td = "up"
               PROVE  sending[c] = vbuf[c] /\ vbuf[c] \in live /\ vkey[vbuf[c]] = call[c]
    BY DEF SendsOwnCommand
  <2>1. vbuf[c] \in pending /\ vkey[vbuf[c]] = call[c]
    BY DEF CallInv, OwnCalls, UnsentOwn, Sendable
  <2>2. vbuf[c] \in live
    BY <2>1 DEF WorkInv, OwnInv, NoUseAfterFree
  <2> QED
    BY <2>1, <2>2 DEF WorkInv, KickInv
<1> QED
  BY <1>1, CallsApart, PTL

\* When no two callers share a command, a synchronous call that succeeds has the answer to its own
\* command, though answers are matched by stream and type alone: until a call times out.
THEOREM AnswerIsOwnTheorem == ASSUME OneCaller PROVE Spec => []AnswerIsOwn
<1>1. WorkInv /\ CallInv => AnswerIsOwn
  BY DEF WorkInv, CallInv, OwnCalls, CompletedOwn, OwnInv, AnswerIsOwn
<1> QED
  BY <1>1, CallsApart, PTL

\* The device stays while nobody removes it.
LEMMA StaysUp == RunningSpec => Spec /\ [](td = "up")
<1>1. Init => td = "up"
  BY DEF Init
<1>2. td = "up" /\ [RunningNext]_vars => (td = "up")'
  BY DEF RunningNext, Caller, Alloc, CheckReady, Enqueue, KickTake, KickFail, Send, SendFail, Relock,
     Completed, Timeout, Reclaim, Responder, Recv, RecvError, RecvClosed, MatchFound, MatchNone,
     CmdCbEnter, CmdCbGet, CmdCbLeave, Break, ErrorLoop, SelfStop, vars
<1>3. [RunningNext]_vars => [Next]_vars
  BY DEF Next
<1> QED
  BY <1>1, <1>2, <1>3, PTL DEF RunningSpec, Spec

\* While the device is there and no call has timed out, an answer is only copied into the vbuf of
\* a synchronous call that has not returned: when no two callers share a command.
THEOREM NoWriteAfterReturnTheorem == ASSUME OneCaller PROVE RunningSpec => NoWriteAfterReturn
<1> DEFINE Kept == \A s \in pending :
             resp'[s] # resp[s] /\ vkey[s] \in SyncKeys /\ ~timedOut
                => \E c \in Callers : vbuf[c] = s /\ UsesVbuf(c)
<1>1. WorkInv /\ CallInv /\ td = "up" /\ [Next]_vars => Kept
  <2> SUFFICES ASSUME WorkInv, CallInv, td = "up", [Next]_vars, NEW s \in pending,
                      resp'[s] # resp[s], vkey[s] \in SyncKeys, ~timedOut
               PROVE  \E c \in Callers : vbuf[c] = s /\ UsesVbuf(c)
    OBVIOUS
  <2>1. TypeOK /\ s \in live /\ s \in Slots
    BY DEF WorkInv, OwnInv, NoUseAfterFree, TypeOK
  <2>2. MatchFound
    BY <2>1, MemoryKept
  <2>3. PICK f \in Slots : IsFirst(f) /\ resp' = [resp EXCEPT ![f] = rmsg.id]
    BY <2>2 DEF MatchFound
  <2>4. f = s
    BY <2>1, <2>3 DEF TypeOK
  <2>5. rmsg.key \in SyncKeys
    BY <2>3, <2>4 DEF IsFirst, Candidates
  <2>6. PICK c \in Callers : Waiting(c, rmsg.key, rmsg.id) /\ resp' = [resp EXCEPT ![vbuf[c]] = rmsg.id]
    BY <2>2, <2>5, MatchedOwn DEF CallInv
  <2>7. UsesVbuf(c)
    BY <2>6 DEF Waiting, Waits, UsesVbuf
  <2>8. vbuf[c] = s
    BY <2>1, <2>6, <2>7 DEF TypeOK, WorkInv, OwnInv, NoUseAfterFree
  <2> QED
    BY <2>7, <2>8
<1>2. [RunningNext]_vars => [Next]_vars
  BY DEF Next
<1>3. [](WorkInv /\ CallInv) /\ [](td = "up") /\ [][Next]_vars => [][Kept]_vars
  BY <1>1, PTL
<1> QED
  BY <1>3, CallsApart, StaysUp, PTL DEF Spec, NoWriteAfterReturn
=============================================================================
