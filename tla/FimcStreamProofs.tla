-------------------------- MODULE FimcStreamProofs --------------------------
(***************************************************************************)
(* Proofs about FimcStream, for any set of processes: the inductive        *)
(* invariant IInv in four layers (types, the lock, the service of the      *)
(* stream, the stale frame), the safety properties that follow from it and *)
(* the implementation of CaptureNode.                                      *)
(***************************************************************************)
EXTENDS FimcStream, TLAPS

-----------------------------------------------------------------------------
(* Facts about the operators *)

\* The table of read-modify-writes names bits of the word and labels.
LEMMA RmwType ==
    \A l \in RmwLabels : /\ Rmw[l].clear \in SUBSET Bits
                         /\ Rmw[l].set \in SUBSET Bits
                         /\ Rmw[l].next \in Labels
                         /\ l \notin Outside /\ Rmw[l].next \notin Outside
  BY DEF Outside, RmwLabels, Rmw, Clear, Set, Bits, Status, Usage, Irqs, Labels

\* The interrupt leaves a word of known bits.
LEMMA FrameFlagsType ==
    ASSUME NEW f \in SUBSET Bits
    PROVE  FrameFlags(f) \in SUBSET Bits
  BY DEF FrameFlags, Phase, Rest, Bits, Status, Usage, Irqs

-----------------------------------------------------------------------------
(* Layer 1: types *)

LEMMA InitType == Init => TypeOK
  BY DEF Init, TypeOK, Bits, Labels, SkipLimit

LEMMA StepType == TypeOK /\ LockInv /\ [Next]_vars => TypeOK'
<1> SUFFICES ASSUME TypeOK, LockInv, [Next]_vars PROVE TypeOK'
  OBVIOUS
<1> USE DEF TypeOK, Go, StopEngine
<1>1. CASE FrameEnd
  BY <1>1 DEF FrameEnd
<1>2. CASE Irq
  <2>1. CASE IrqIgnored
    BY <1>2, <2>1 DEF Irq, IrqIgnored
  <2>2. CASE IrqSkipped
    BY <1>2, <2>2 DEF Irq, IrqSkipped, SkipLimit
  <2>3. CASE IrqHandled
    BY <1>2, <2>3, FrameFlagsType DEF Irq, IrqHandled, SkipLimit, Waiters
  <2> QED BY <1>2, <2>1, <2>2, <2>3 DEF Irq
<1>3. CASE PeerOpen
  BY <1>3 DEF PeerOpen
<1>4. ASSUME NEW p \in Procs, Load(p) PROVE TypeOK'
  BY <1>4 DEF Load
<1>5. ASSUME NEW p \in Procs, Store(p) PROVE TypeOK'
  BY <1>5, RmwType DEF Store
<1>6. ASSUME NEW p \in Procs, OpenRelease(p) PROVE TypeOK'
  <2>1. CASE OpenLock(p) \/ OpenBusy(p) \/ OpenFree(p) \/ OpenTake(p)
    BY <2>1 DEF OpenLock, OpenBusy, OpenFree, OpenTake, Labels
  <2>2. CASE Release(p)
    <3>1. in_use = 1
      BY <2>2 DEF Release, LockInv, Inside, Outside
    <3> QED BY <2>2, <3>1 DEF Release, Labels
  <2> QED BY <1>6, <2>1, <2>2 DEF OpenRelease
<1>7. ASSUME NEW p \in Procs, Ioctl(p) PROVE TypeOK'
  <2>1. CASE StreamOn(p) \/ StreamOnStart(p)
    BY <2>1 DEF StreamOn, StreamOnStart, Labels, RmwLabels, SkipLimit
  <2>2. CASE StreamOff(p) \/ StreamOffStop(p) \/ StreamOffDone(p)
    BY <2>2 DEF StreamOff, StreamOffStop, StreamOffDone, Labels, RmwLabels
  <2>3. CASE OverlayOn(p) \/ OverlayOnStart(p)
    BY <2>3 DEF OverlayOn, OverlayOnStart, Labels, RmwLabels
  <2>4. CASE OverlayOff(p) \/ OverlayOffDone(p)
    BY <2>4 DEF OverlayOff, OverlayOffDone, Labels
  <2>5. CASE Restart(p) \/ RestartDone(p)
    BY <2>5 DEF Restart, RestartDone, Labels
  <2> QED BY <1>7, <2>1, <2>2, <2>3, <2>4, <2>5 DEF Ioctl
<1>8. ASSUME NEW p \in Procs, Poll(p) PROVE TypeOK'
  BY <1>8 DEF Poll, PollCall, PollHit, PollMiss, PollSleep, PollWake,
              PollTimeout, Labels, RmwLabels
<1>9. ASSUME NEW p \in Procs, Read(p) PROVE TypeOK'
  BY <1>9 DEF Read, ReadCall, ReadHit, ReadSleep, ReadWake, ReadInterrupted,
              Labels, RmwLabels
<1>10. CASE UNCHANGED vars
  BY <1>10 DEF vars
<1> QED
  BY <1>1, <1>2, <1>3, <1>4, <1>5, <1>6, <1>7, <1>8, <1>9, <1>10 DEF Next, User

LEMMA InitLock == Init => LockInv
  BY NoProcAssumption DEF Init, LockInv, Inside, Outside

LEMMA StepLock == TypeOK /\ LockInv /\ [Next]_vars => LockInv'
<1> SUFFICES ASSUME TypeOK, LockInv, [Next]_vars PROVE LockInv'
  OBVIOUS
<1> USE NoProcAssumption DEF LockInv, Inside, Outside, Go
<1>1. CASE FrameEnd \/ PeerOpen
  BY <1>1 DEF FrameEnd, PeerOpen
<1>2. CASE Irq
  BY <1>2 DEF Irq
<1>3. ASSUME NEW p \in Procs, Load(p) PROVE LockInv'
  BY <1>3 DEF Load
<1>4. ASSUME NEW p \in Procs, Store(p) PROVE LockInv'
  BY <1>4, RmwType DEF Store, TypeOK
<1>5. ASSUME NEW p \in Procs, OpenRelease(p) PROVE LockInv'
  <2>1. CASE OpenLock(p)
    BY <2>1 DEF OpenLock, TypeOK
  <2>2. CASE OpenBusy(p)
    BY <2>2 DEF OpenBusy, TypeOK
  <2>3. CASE OpenFree(p)
    BY <2>3 DEF OpenFree, TypeOK
  <2>4. CASE OpenTake(p)
    BY <2>4 DEF OpenTake, TypeOK
  <2>5. CASE Release(p)
    BY <2>5 DEF Release, TypeOK
  <2> QED BY <1>5, <2>1, <2>2, <2>3, <2>4, <2>5 DEF OpenRelease
<1>6. ASSUME NEW p \in Procs, Ioctl(p) PROVE LockInv'
  <2>1. CASE StreamOn(p) \/ StreamOnStart(p)
    BY <2>1 DEF StreamOn, StreamOnStart, TypeOK
  <2>2. CASE StreamOff(p) \/ StreamOffStop(p) \/ StreamOffDone(p)
    BY <2>2 DEF StreamOff, StreamOffStop, StreamOffDone, TypeOK
  <2>3. CASE OverlayOn(p) \/ OverlayOnStart(p)
    BY <2>3 DEF OverlayOn, OverlayOnStart, TypeOK
  <2>4. CASE OverlayOff(p) \/ OverlayOffDone(p)
    BY <2>4 DEF OverlayOff, OverlayOffDone, TypeOK
  <2>5. CASE Restart(p) \/ RestartDone(p)
    BY <2>5 DEF Restart, RestartDone, TypeOK
  <2> QED BY <1>6, <2>1, <2>2, <2>3, <2>4, <2>5 DEF Ioctl
<1>7. ASSUME NEW p \in Procs, Poll(p) PROVE LockInv'
  BY <1>7 DEF Poll, PollCall, PollHit, PollMiss, PollSleep, PollWake,
              PollTimeout, TypeOK
<1>8. ASSUME NEW p \in Procs, Read(p) PROVE LockInv'
  BY <1>8 DEF Read, ReadCall, ReadHit, ReadSleep, ReadWake, ReadInterrupted,
              TypeOK
<1>9. CASE UNCHANGED vars
  BY <1>9 DEF vars
<1> QED
  BY <1>1, <1>2, <1>3, <1>4, <1>5, <1>6, <1>7, <1>8, <1>9 DEF Next, User

-----------------------------------------------------------------------------
(* Layer 2: the service of the stream *)

\* The interrupt changes no usage bit, keeps at most one phase and clears none.
LEMMA FrameFlagsService ==
    ASSUME NEW f \in SUBSET Bits, OnePhase(f)
    PROVE  OnePhase(FrameFlags(f)) /\ SameService(FrameFlags(f), f)
  BY DEF FrameFlags, OnePhase, SameService, Phase, Rest, Bits, Status, Usage, Irqs

\* What the store that ends each read-modify-write makes of the word it loaded.
LEMMA StoreService ==
    ASSUME NEW t \in SUBSET Bits, OnePhase(t), NEW l \in RmwLabels,
           l = "on4" => Phase(t) = {},
           NEW s, s = (t \ Rmw[l].clear) \cup Rmw[l].set
    PROVE  /\ OnePhase(s)
           /\ l \in {"off1", "off2", "poll2", "poll3", "hit2", "hit3", "read2",
                      "read3"} => SameService(s, t)
           /\ l = "on2" => "CAPTURE" \in s
           /\ l = "on3" => Phase(s) = {} /\ ("CAPTURE" \in t => "CAPTURE" \in s)
           /\ l = "on4" =>
                  Phase(s) = {"IRQ_X"} /\ ("CAPTURE" \in t => "CAPTURE" \in s)
           /\ l = "off3" => s \cap Usage = {}
           /\ l = "off4" => Phase(s) = {} /\ s \cap Usage = t \cap Usage
<1> USE DEF OnePhase, SameService, Phase, Rmw, Clear, Set, Status, Usage, Irqs
<1>1. CASE l \in {"on1", "ov1", "off3"}
  BY <1>1
<1>2. CASE l \in {"on3", "off4"}
  BY <1>2
<1>3. CASE l \in {"off1", "poll2", "hit2", "read2"}
  BY <1>3
<1>4. CASE l \in {"off2", "poll3", "hit3", "read3"}
  BY <1>4
<1>5. CASE l \in {"on2", "ov2"}
  BY <1>5
<1>6. CASE l = "on4"
  BY <1>6
<1> QED BY <1>1, <1>2, <1>3, <1>4, <1>5, <1>6 DEF RmwLabels
LEMMA InitService == Init => ServiceInv
  BY DEF Init, ServiceInv, OnePhase, Phase, CopyInv, CallInv, StreamArmed,
         QuietWhenOff, Outside, Usage, Irqs

\* One process at most is inside, so the others are in no call.
LEMMA OthersOutside ==
    ASSUME TypeOK, LockInv, ServiceInv, NEW p \in Procs, pc[p] \notin Outside,
           NEW q \in Procs, q # p
    PROVE  pc[q] \in Outside /\ q \notin loaded /\ pc[q] \notin Reconfiguring
<1>1. pc[q] \in Outside
  BY DEF LockInv, Inside
<1>2. pc[q] \notin RmwLabels /\ pc[q] \notin Reconfiguring
  BY <1>1 DEF Outside, RmwLabels, Reconfiguring
<1> QED BY <1>1, <1>2 DEF ServiceInv, CopyInv

LEMMA IrqKeepsService ==
    ASSUME TypeOK, LockInv, ServiceInv, Irq PROVE ServiceInv'
<1>1. CASE flag' = flag
  BY <1>1 DEF Irq, ServiceInv, OnePhase, Phase, CopyInv, SameService, CallInv, StreamArmed,
              QuietWhenOff, Armed, Steady
<1>2. CASE IrqHandled
  <2> DEFINE g == FrameFlags(flag)
  <2>1. /\ flag' = g /\ OnePhase(g) /\ SameService(g, flag)
        /\ "CAPTURE" \in flag /\ "CAPTURE" \in g
    BY <1>2, FrameFlagsService DEF IrqHandled, TypeOK, ServiceInv, SameService, Usage
  <2> HIDE DEF g
  <2>2. Armed' <=> Armed
    BY <2>1 DEF Armed, OnePhase, SameService, ServiceInv
  <2>3. OnePhase(flag)' /\ CopyInv'
    BY <2>1 DEF Irq, ServiceInv, CopyInv, OnePhase, Phase, SameService
  <2>4. CallInv'
    BY <2>1, <2>2 DEF Irq, ServiceInv, CallInv, SameService, Phase
  <2>5. StreamArmed' /\ QuietWhenOff'
    BY <2>1, <2>2 DEF Irq, ServiceInv, StreamArmed, QuietWhenOff, Steady, Usage
  <2> QED BY <2>3, <2>4, <2>5 DEF ServiceInv
<1> QED BY <1>1, <1>2 DEF Irq, IrqIgnored, IrqSkipped
LEMMA LoadKeepsService ==
    ASSUME TypeOK, LockInv, ServiceInv, NEW p \in Procs, Load(p)
    PROVE  ServiceInv'
<1>1. CopyInv'
  BY DEF Load, TypeOK, ServiceInv, CopyInv, OnePhase, SameService
<1>2. OnePhase(flag)' /\ CallInv' /\ StreamArmed' /\ QuietWhenOff'
  BY DEF Load, ServiceInv, OnePhase, Phase, CallInv, StreamArmed, QuietWhenOff,
         Armed, Steady
<1> QED BY <1>1, <1>2 DEF ServiceInv

LEMMA StoreKeepsService ==
    ASSUME TypeOK, LockInv, ServiceInv, NEW p \in Procs, Store(p)
    PROVE  ServiceInv'
<1> DEFINE l == pc[p]
           t == tmp[p]
           s == (t \ Rmw[l].clear) \cup Rmw[l].set
           n == Rmw[l].next
<1>1. /\ l \in RmwLabels /\ p \in loaded /\ l \notin Outside
      /\ flag' = s /\ pc' = [pc EXCEPT ![p] = n] /\ loaded' = loaded \ {p}
      /\ mode' = mode
  BY RmwType DEF Store
<1>2. /\ t \in SUBSET Bits /\ OnePhase(t) /\ SameService(t, flag)
      /\ l = "on4" => Phase(t) = {}
      /\ l \in {"on3", "on4"} => "CAPTURE" \in t
      /\ l = "off4" => t \cap Usage = {}
  BY <1>1 DEF TypeOK, ServiceInv, CopyInv, CallInv, SameService, Usage
<1>3. \A q \in Procs : q # p =>
          pc'[q] \in Outside /\ q \notin loaded' /\ pc'[q] \notin Reconfiguring
  BY <1>1, OthersOutside DEF TypeOK
<1>4. pc'[p] = n
  BY <1>1 DEF TypeOK
<1>5. \/ /\ SameService(s, t)
         /\ n \notin {"on3", "on4", "on5", "off4", "off5", "off6"}
         /\ l \in Reconfiguring => n \in Reconfiguring
      \/ n \in {"on2", "ov2", "ov3"}
      \/ n = "on3" /\ "CAPTURE" \in s
      \/ n = "on4" /\ "CAPTURE" \in s /\ Phase(s) = {}
      \/ n = "on5" /\ "CAPTURE" \in s /\ Phase(s) = {"IRQ_X"}
      \/ n = "off4" /\ s \cap Usage = {}
      \/ n = "off5" /\ s \cap Usage = {} /\ Phase(s) = {}
  <2> HIDE DEF s, t
  <2>1. CASE l \in {"off1", "off2", "poll2", "poll3", "hit2", "hit3", "read2",
                    "read3"}
    <3>1. SameService(s, t)
      BY <1>1, <1>2, <2>1, StoreService DEF s
    <3> QED BY <2>1, <3>1 DEF Rmw, Clear, Set, Reconfiguring
  <2>2. CASE l \in {"on1", "ov1", "ov2"}
    BY <2>2 DEF Rmw, Clear, Set
  <2>3. CASE l \in {"on2", "on3", "on4"}
    <3>1. /\ "CAPTURE" \in s
          /\ l = "on3" => Phase(s) = {}
          /\ l = "on4" => Phase(s) = {"IRQ_X"}
      BY <1>1, <1>2, <2>3, StoreService DEF s
    <3> QED BY <2>3, <3>1 DEF Rmw, Clear, Set
  <2>4. CASE l \in {"off3", "off4"}
    <3>1. s \cap Usage = {} /\ (l = "off4" => Phase(s) = {})
      BY <1>1, <1>2, <2>4, StoreService DEF s
    <3> QED BY <2>4, <3>1 DEF Rmw, Clear, Set
  <2> QED BY <1>1, <2>1, <2>2, <2>3, <2>4 DEF RmwLabels
<1>6. OnePhase(flag)'
  <2>1. OnePhase(s)
    BY <1>1, <1>2, StoreService
  <2> QED BY <1>1, <2>1 DEF OnePhase
<1>7. CopyInv'
  BY <1>1, <1>3 DEF CopyInv
<1>8. CallInv'
  <2>1. \A q \in Procs : q # p =>
            pc'[q] \notin {"on3", "on4", "on5", "off4", "off5", "off6"}
    BY <1>3 DEF Outside
  <2> HIDE DEF s, n, l
  <2> QED BY <1>1, <1>4, <1>5, <2>1 DEF CallInv, Armed
<1>9. StreamArmed' /\ QuietWhenOff'
  <2>1. CASE n \in Reconfiguring
    BY <1>4, <2>1 DEF StreamArmed, QuietWhenOff, Steady
  <2>2. CASE n \notin Reconfiguring
    <3>1. l \notin Reconfiguring /\ SameService(s, t)
      BY <1>5, <2>2 DEF Reconfiguring
    <3>2. Steady
      BY <1>1, <3>1, OthersOutside DEF Steady
    <3> HIDE DEF s, n, l, t
    <3>3. SameService(s, flag) /\ OnePhase(s) /\ OnePhase(flag)
      BY <1>1, <1>2, <1>6, <3>1 DEF SameService, ServiceInv, OnePhase
    <3>4. Armed' <=> Armed
      BY <1>1, <3>3 DEF Armed, OnePhase, SameService, Usage
    <3> QED BY <1>1, <3>2, <3>3, <3>4
            DEF StreamArmed, QuietWhenOff, ServiceInv, SameService, Usage, Phase
  <2> QED BY <2>1, <2>2
<1> QED BY <1>6, <1>7, <1>8, <1>9 DEF ServiceInv
\* A step of a process that moves on in its call and leaves the word alone.
LEMMA MoveKeepsService ==
    ASSUME TypeOK, LockInv, ServiceInv, NEW p \in Procs, NEW to,
           pc[p] \notin RmwLabels, pc' = [pc EXCEPT ![p] = to],
           UNCHANGED <<flag, tmp, loaded>>,
           to \notin {"on3", "on4", "on5", "off4", "off5"},
           to = "off6" => pc[p] = "off5",
           \/ to \in Reconfiguring
           \/ pc[p] \notin Reconfiguring /\ mode' = mode
           \/ pc[p] = "on5" /\ mode' = "capture"
           \/ pc[p] = "off6" /\ mode' = "off"
           \/ pc[p] \notin Reconfiguring /\ mode' = "off" /\ mode = "off"
           \/ mode' \in {"preview", "halted"}
    PROVE  ServiceInv'
<1>1. pc'[p] = to /\ \A q \in Procs : q # p => pc'[q] = pc[q]
  BY DEF TypeOK
<1>2. OnePhase(flag)' /\ (Armed' <=> Armed)
  BY DEF ServiceInv, OnePhase, Phase, Armed
<1>3. CopyInv'
  BY <1>1 DEF ServiceInv, CopyInv, OnePhase, SameService, Phase
<1>4. CallInv'
  BY <1>1, <1>2 DEF ServiceInv, CallInv, Phase
<1>5. StreamArmed' /\ QuietWhenOff'
  <2>1. CASE to \in Reconfiguring
    BY <1>1, <2>1 DEF Steady, StreamArmed, QuietWhenOff
  <2>2. CASE pc[p] \notin Reconfiguring /\ to \notin Reconfiguring
    <3>1. Steady' => Steady
      BY <1>1, <2>2 DEF Steady
    <3>2. mode' = mode \/ mode' \in {"preview", "halted"}
      BY <2>2 DEF Reconfiguring
    <3> QED BY <1>2, <3>1, <3>2 DEF ServiceInv, StreamArmed, QuietWhenOff
  <2>3. CASE pc[p] = "on5" /\ mode' = "capture"
    BY <1>2, <2>3 DEF ServiceInv, CallInv, StreamArmed, QuietWhenOff
  <2>4. CASE pc[p] = "off6" /\ mode' = "off"
    BY <2>4 DEF ServiceInv, CallInv, StreamArmed, QuietWhenOff, Phase
  <2>5. CASE mode' \in {"preview", "halted"}
    BY <2>5 DEF StreamArmed, QuietWhenOff
  <2> QED BY <2>1, <2>2, <2>3, <2>4, <2>5
<1> QED BY <1>2, <1>3, <1>4, <1>5 DEF ServiceInv

LEMMA StepService == TypeOK /\ LockInv /\ ServiceInv /\ [Next]_vars => ServiceInv'
<1> SUFFICES ASSUME TypeOK, LockInv, ServiceInv, [Next]_vars PROVE ServiceInv'
  OBVIOUS
<1>1. CASE FrameEnd \/ PeerOpen \/ UNCHANGED vars
  BY <1>1 DEF FrameEnd, PeerOpen, vars, ServiceInv, OnePhase, Phase, CopyInv,
              SameService, CallInv, StreamArmed, QuietWhenOff, Armed, Steady
<1>2. CASE Irq
  BY <1>2, IrqKeepsService
<1>3. ASSUME NEW p \in Procs, Load(p) \/ Store(p) PROVE ServiceInv'
  BY <1>3, LoadKeepsService, StoreKeepsService
<1> USE DEF Go, RmwLabels, Reconfiguring
<1>4. ASSUME NEW p \in Procs, OpenRelease(p) PROVE ServiceInv'
  <2>1. CASE OpenLock(p)
    BY <2>1, MoveKeepsService DEF OpenLock
  <2>2. CASE OpenBusy(p)
    BY <2>2, MoveKeepsService DEF OpenBusy
  <2>3. CASE OpenFree(p)
    BY <2>3, MoveKeepsService DEF OpenFree
  <2>4. CASE OpenTake(p)
    BY <2>4, MoveKeepsService DEF OpenTake
  <2>5. CASE Release(p)
    BY <2>5, MoveKeepsService DEF Release
  <2> QED BY <1>4, <2>1, <2>2, <2>3, <2>4, <2>5 DEF OpenRelease
<1>5. ASSUME NEW p \in Procs, Ioctl(p) PROVE ServiceInv'
  <2>1. CASE StreamOn(p)
    BY <2>1, MoveKeepsService DEF StreamOn
  <2>2. CASE StreamOnStart(p)
    BY <2>2, MoveKeepsService DEF StreamOnStart
  <2>3. CASE StreamOff(p)
    BY <2>3, MoveKeepsService DEF StreamOff
  <2>4. CASE StreamOffStop(p)
    BY <2>4, MoveKeepsService DEF StreamOffStop
  <2>5. CASE StreamOffDone(p)
    BY <2>5, MoveKeepsService DEF StreamOffDone
  <2>6. CASE OverlayOn(p)
    BY <2>6, MoveKeepsService DEF OverlayOn
  <2>7. CASE OverlayOnStart(p)
    BY <2>7, MoveKeepsService DEF OverlayOnStart
  <2>8. CASE OverlayOff(p)
    BY <2>8, MoveKeepsService DEF OverlayOff
  <2>9. CASE OverlayOffDone(p)
    BY <2>9, MoveKeepsService DEF OverlayOffDone
  <2>10. CASE Restart(p)
    BY <2>10, MoveKeepsService DEF Restart
  <2>11. CASE RestartDone(p)
    BY <2>11, MoveKeepsService DEF RestartDone
  <2> QED BY <1>5, <2>1, <2>2, <2>3, <2>4, <2>5, <2>6, <2>7, <2>8, <2>9, <2>10,
             <2>11 DEF Ioctl
<1>6. ASSUME NEW p \in Procs, Poll(p) PROVE ServiceInv'
  <2>1. CASE PollCall(p)
    BY <2>1, MoveKeepsService DEF PollCall
  <2>2. CASE PollHit(p)
    BY <2>2, MoveKeepsService DEF PollHit
  <2>3. CASE PollMiss(p)
    BY <2>3, MoveKeepsService DEF PollMiss
  <2>4. CASE PollSleep(p)
    BY <2>4, MoveKeepsService DEF PollSleep
  <2>5. CASE PollWake(p)
    BY <2>5, MoveKeepsService DEF PollWake
  <2>6. CASE PollTimeout(p)
    BY <2>6, MoveKeepsService DEF PollTimeout
  <2> QED BY <1>6, <2>1, <2>2, <2>3, <2>4, <2>5, <2>6 DEF Poll
<1>7. ASSUME NEW p \in Procs, Read(p) PROVE ServiceInv'
  <2>1. CASE ReadCall(p)
    BY <2>1, MoveKeepsService DEF ReadCall
  <2>2. CASE ReadHit(p)
    BY <2>2, MoveKeepsService DEF ReadHit
  <2>3. CASE ReadSleep(p)
    BY <2>3, MoveKeepsService DEF ReadSleep
  <2>4. CASE ReadWake(p)
    BY <2>4, MoveKeepsService DEF ReadWake
  <2>5. CASE ReadInterrupted(p)
    BY <2>5, MoveKeepsService DEF ReadInterrupted
  <2> QED BY <1>7, <2>1, <2>2, <2>3, <2>4, <2>5 DEF Read
<1> QED
  BY <1>1, <1>2, <1>3, <1>4, <1>5, <1>6, <1>7 DEF Next, User
-----------------------------------------------------------------------------
(* Layer 3: the stale frame *)

LEMMA InitStale == Init => StaleInv
  BY DEF Init, StaleInv

\* Only the interrupt sets HANDLE_IRQ, and FSET_STOP clears it in its first store.
LEMMA StoreStale ==
    \A l \in RmwLabels :
        /\ "HANDLE_IRQ" \notin Rmw[l].set
        /\ Rmw[l].next \in {"poll3", "hit3", "read3"} =>
               "HANDLE_IRQ" \in Rmw[l].clear
  BY DEF RmwLabels, Rmw, Clear, Set, Status, Usage, Irqs

LEMMA StoreKeepsStale ==
    ASSUME TypeOK, LockInv, ServiceInv, StaleInv, NEW p \in Procs, Store(p)
    PROVE  StaleInv'
<1> SUFFICES ASSUME skip_frames < SkipLimit
             PROVE  /\ stale' = "gone" => "HANDLE_IRQ" \notin flag'
                    /\ pc'[p] \in {"poll3", "hit3", "read3"} =>
                           "HANDLE_IRQ" \notin flag'
  <2>1. skip_frames' = skip_frames /\ p \notin loaded'
    BY DEF Store
  <2>2. \A q \in Procs : q # p => pc'[q] \in Outside /\ q \notin loaded'
    BY RmwType, OthersOutside DEF Store, TypeOK
  <2> QED BY <2>1, <2>2 DEF StaleInv, Outside
<1>1. /\ pc[p] \in RmwLabels /\ p \in loaded /\ pc'[p] = Rmw[pc[p]].next
      /\ flag' = (tmp[p] \ Rmw[pc[p]].clear) \cup Rmw[pc[p]].set
  BY DEF Store, TypeOK
<1>2. ASSUME stale' = "gone" PROVE "HANDLE_IRQ" \notin flag'
  <2>1. "HANDLE_IRQ" \notin tmp[p]
    BY <1>1, <1>2 DEF Store, StaleInv
  <2> QED BY <1>1, <2>1, StoreStale
<1>3. ASSUME pc'[p] \in {"poll3", "hit3", "read3"} PROVE "HANDLE_IRQ" \notin flag'
  BY <1>1, <1>3, StoreStale
<1> QED BY <1>2, <1>3

LEMMA StepStale == IInv /\ [Next]_vars => StaleInv'
<1> SUFFICES ASSUME TypeOK, LockInv, ServiceInv, StaleInv, [Next]_vars
             PROVE  StaleInv'
  BY DEF IInv
<1>1. CASE FrameEnd \/ PeerOpen \/ UNCHANGED vars
  BY <1>1 DEF FrameEnd, PeerOpen, vars, StaleInv
<1>2. CASE Irq
  <2>1. CASE IrqIgnored \/ IrqSkipped
    BY <1>2, <2>1 DEF Irq, IrqIgnored, IrqSkipped, StaleInv, TypeOK, SkipLimit
  <2>2. CASE IrqHandled
    BY <2>2 DEF IrqHandled, StaleInv, SkipLimit
  <2> QED BY <1>2, <2>1, <2>2 DEF Irq
<1>3. ASSUME NEW p \in Procs, Load(p) PROVE StaleInv'
  BY <1>3 DEF Load, StaleInv, TypeOK
<1>4. ASSUME NEW p \in Procs, Store(p) PROVE StaleInv'
  BY <1>4, StoreKeepsStale
<1> USE DEF Go, StaleInv, TypeOK
<1>5. ASSUME NEW p \in Procs, OpenRelease(p) PROVE StaleInv'
  BY <1>5 DEF OpenRelease, OpenLock, OpenBusy, OpenFree, OpenTake, Release
<1>6. ASSUME NEW p \in Procs, Ioctl(p) PROVE StaleInv'
  <2>1. CASE StreamOn(p)
    <3>1. \A q \in Procs : pc'[q] \notin {"poll3", "hit3", "read3"}
      BY <2>1, OthersOutside DEF StreamOn, Outside
    <3> QED BY <2>1, <3>1 DEF StreamOn
  <2>2. CASE StreamOnStart(p) \/ StreamOff(p) \/ StreamOffStop(p) \/ StreamOffDone(p)
    BY <2>2 DEF StreamOnStart, StreamOff, StreamOffStop, StreamOffDone
  <2>3. CASE OverlayOn(p) \/ OverlayOnStart(p)
    BY <2>3 DEF OverlayOn, OverlayOnStart
  <2>4. CASE OverlayOff(p) \/ OverlayOffDone(p)
    BY <2>4 DEF OverlayOff, OverlayOffDone
  <2>5. CASE Restart(p) \/ RestartDone(p)
    BY <2>5 DEF Restart, RestartDone
  <2> QED BY <1>6, <2>1, <2>2, <2>3, <2>4, <2>5 DEF Ioctl
<1>7. ASSUME NEW p \in Procs, Poll(p) PROVE StaleInv'
  <2>1. CASE PollHit(p) \/ PollMiss(p) \/ PollTimeout(p)
    BY <2>1 DEF PollHit, PollMiss, PollTimeout
  <2>2. CASE PollCall(p) \/ PollSleep(p) \/ PollWake(p)
    BY <2>2 DEF PollCall, PollSleep, PollWake
  <2> QED BY <1>7, <2>1, <2>2 DEF Poll
<1>8. ASSUME NEW p \in Procs, Read(p) PROVE StaleInv'
  BY <1>8 DEF Read, ReadCall, ReadHit, ReadSleep, ReadWake, ReadInterrupted
<1> QED
  BY <1>1, <1>2, <1>3, <1>4, <1>5, <1>6, <1>7, <1>8 DEF Next, User

-----------------------------------------------------------------------------
(* The theorems *)

\* The inductive invariant holds in every state the driver reaches, whatever the
\* number of processes.
THEOREM Inductive == Spec => []IInv
<1>1. Init => IInv
  BY InitType, InitLock, InitService, InitStale DEF IInv
<1>2. IInv /\ [Next]_vars => IInv'
  BY StepType, StepLock, StepService, StepStale DEF IInv
<1> QED BY <1>1, <1>2, PTL DEF Spec

\* Every variable keeps its type; in_use never goes below 0, which is not a matter
\* of typing: s3c_fimc_release decrements it without a test.
THEOREM TypeCorrect == Spec => []TypeOK
<1>1. IInv => TypeOK
  BY DEF IInv
<1> QED BY <1>1, Inductive, PTL

\* However many processes open the node, ctrl->lock and in_use let one in at a time.
THEOREM OneUser == Spec => []ExclusiveOpen
<1>1. IInv => ExclusiveOpen
  BY DEF IInv, LockInv, ExclusiveOpen, Inside, TypeOK
<1> QED BY <1>1, Inductive, PTL

\* No interleaving of the interrupt with the unlocked updates of the flag word by
\* streamon, streamoff, poll and read disarms a stream that is on.
THEOREM ServiceFollowsCalls == Spec => []StreamArmed
<1>1. IInv => StreamArmed
  BY DEF IInv, ServiceInv
<1> QED BY <1>1, Inductive, PTL

\* After VIDIOC_STREAMOFF the word keeps no usage and no phase, whichever
\* interrupts and stores of older words came between its updates: a late frame of
\* the stopped engine is ignored.
THEOREM QuietAfterStreamOff == Spec => []QuietWhenOff
<1>1. IInv => QuietWhenOff
  BY DEF IInv, ServiceInv
<1> QED BY <1>1, Inductive, PTL

\* At most the first poll or read of a stream reports a frame from before it.
THEOREM StaleOnce == Spec => []StaleFrameOnce
<1>1. IInv => StaleFrameOnce
  BY DEF IInv, StaleInv, StaleFrameOnce
<1> QED BY <1>1, Inductive, PTL
-----------------------------------------------------------------------------
(* The driver implements CaptureNode *)

\* A step inside a call changes nobody's place but its own process's.
LEMMA OwnStep ==
    ASSUME TypeOK, LockInv, ServiceInv, NEW p \in Procs, NEW to,
           pc[p] \notin Outside, to \notin Outside, pc' = [pc EXCEPT ![p] = to]
    PROVE  /\ Inside = {p} /\ Inside' = {p}
           /\ Steady <=> pc[p] \notin Reconfiguring
           /\ Steady' <=> to \notin Reconfiguring
<1>1. pc'[p] = to /\ \A q \in Procs : q # p => pc'[q] = pc[q]
  BY DEF TypeOK
<1>2. \A q \in Procs : q # p => pc[q] \in Outside /\ pc[q] \notin Reconfiguring
  BY OthersOutside
<1>3. Inside = {p} /\ Inside' = {p}
  BY <1>1, <1>2 DEF Inside
<1>4. (Steady <=> pc[p] \notin Reconfiguring) /\ (Steady' <=> to \notin Reconfiguring)
  BY <1>1, <1>2 DEF Steady
<1> QED BY <1>3, <1>4

\* The three kinds of move of a process that leaves the word alone.
LEMMA MoveMaps ==
    ASSUME TypeOK, LockInv, ServiceInv, NEW p \in Procs, NEW to, flag' = flag,
           pc[p] \notin Outside, to \notin Outside, pc' = [pc EXCEPT ![p] = to]
    PROVE  Node!Begin(p) \/ Node!Finish(p) \/ UNCHANGED Node!nodeVars
<1>1. Armed' = Armed
  BY DEF Armed, Phase
<1>2. /\ Inside = {p} /\ Inside' = {p}
      /\ Steady <=> pc[p] \notin Reconfiguring
      /\ Steady' <=> to \notin Reconfiguring
  BY OwnStep
<1>3. CASE to \in Reconfiguring
  BY <1>1, <1>2, <1>3 DEF Node!Begin
<1>4. CASE to \notin Reconfiguring
  BY <1>1, <1>2, <1>4 DEF Node!Finish
<1> QED BY <1>3, <1>4
LEMMA IrqMaps ==
    ASSUME TypeOK, LockInv, ServiceInv, Irq PROVE UNCHANGED Node!nodeVars
<1>1. UNCHANGED <<Inside, Steady>>
  BY DEF Irq, Inside, Steady
<1>2. Armed' = Armed
  <2>1. CASE flag' = flag
    BY <2>1 DEF Armed, Phase
  <2>2. CASE IrqHandled
    <3>1. /\ OnePhase(flag') /\ SameService(flag', flag)
          /\ "CAPTURE" \in flag /\ OnePhase(flag)
      BY <2>2, FrameFlagsService DEF IrqHandled, TypeOK, ServiceInv
    <3> QED BY <3>1 DEF Armed, OnePhase, SameService, Usage
  <2> QED BY <2>1, <2>2 DEF Irq, IrqIgnored, IrqSkipped
<1> QED BY <1>1, <1>2 DEF Node!nodeVars

LEMMA StoreMaps ==
    ASSUME TypeOK, LockInv, ServiceInv, NEW p \in Procs, Store(p)
    PROVE  Node!Change(p) \/ UNCHANGED Node!nodeVars
<1> DEFINE l == pc[p]
           n == Rmw[l].next
<1>1. /\ l \in RmwLabels /\ p \in loaded /\ l \notin Outside /\ n \notin Outside
      /\ pc' = [pc EXCEPT ![p] = n]
      /\ flag' = (tmp[p] \ Rmw[l].clear) \cup Rmw[l].set
  BY RmwType DEF Store
<1>2. l \in Reconfiguring <=> n \in Reconfiguring
  BY <1>1 DEF Rmw, Clear, Set, RmwLabels, Reconfiguring
<1> HIDE DEF n
<1>3. /\ Inside = {p} /\ Inside' = {p}
      /\ Steady <=> l \notin Reconfiguring
      /\ Steady' <=> n \notin Reconfiguring
  BY <1>1, OwnStep
<1>4. CASE l \in Reconfiguring
  <2>1. Armed' \in BOOLEAN
    BY DEF Armed
  <2> QED BY <1>2, <1>3, <1>4, <2>1 DEF Node!Change
<1>5. CASE l \notin Reconfiguring
  <2>1. l \in {"poll2", "poll3", "hit2", "hit3", "read2", "read3"}
    BY <1>1, <1>5 DEF RmwLabels, Reconfiguring
  <2>2. tmp[p] \in SUBSET Bits /\ OnePhase(tmp[p]) /\ SameService(tmp[p], flag)
    BY <1>1 DEF TypeOK, ServiceInv, CopyInv
  <2>3. OnePhase(flag') /\ SameService(flag', tmp[p])
    BY <1>1, <2>1, <2>2, StoreService
  <2>4. Armed' = Armed
    BY <2>2, <2>3 DEF Armed, OnePhase, SameService, ServiceInv, Usage
  <2> QED BY <1>2, <1>3, <1>5, <2>4 DEF Node!nodeVars
<1> QED BY <1>4, <1>5

LEMMA OpenReleaseMaps ==
    ASSUME TypeOK, LockInv, ServiceInv, NEW p \in Procs, OpenRelease(p)
    PROVE  Node!Enter(p) \/ Node!Leave(p) \/ UNCHANGED Node!nodeVars
<1> USE DEF Go, Outside, Reconfiguring
<1>1. Armed' = Armed
  BY DEF OpenRelease, OpenLock, OpenBusy, OpenFree, OpenTake, Release, Armed, Phase
<1>2. Steady' = Steady
  BY DEF OpenRelease, OpenLock, OpenBusy, OpenFree, OpenTake, Release, Steady, TypeOK
<1>3. CASE OpenLock(p) \/ OpenBusy(p) \/ OpenFree(p)
  <2>1. Inside' = Inside
    BY <1>3 DEF OpenLock, OpenBusy, OpenFree, Inside, TypeOK
  <2> QED BY <1>1, <1>2, <2>1 DEF Node!nodeVars
<1>4. CASE OpenTake(p)
  <2>1. Inside = {} /\ Inside' = {p}
    BY <1>4 DEF OpenTake, LockInv, Inside, TypeOK
  <2> QED BY <1>1, <1>2, <2>1 DEF Node!Enter
<1>5. CASE Release(p)
  <2>1. /\ Inside = {p} /\ Inside' = {}
    BY <1>5, OthersOutside DEF Release, Inside, TypeOK
  <2>2. Steady
    BY <1>5, OthersOutside DEF Release, Steady, TypeOK
  <2> QED BY <1>1, <1>2, <2>1, <2>2 DEF Node!Leave
<1> QED BY <1>3, <1>4, <1>5 DEF OpenRelease

LEMMA CallMaps ==
    ASSUME TypeOK, LockInv, ServiceInv, NEW p \in Procs,
           Load(p) \/ Ioctl(p) \/ Poll(p) \/ Read(p)
    PROVE  Node!Begin(p) \/ Node!Finish(p) \/ UNCHANGED Node!nodeVars
<1> USE DEF Go, Outside
<1>1. CASE Load(p)
  BY <1>1 DEF Load, Node!nodeVars, Inside, Steady, Armed, Phase
<1>2. CASE Ioctl(p)
  BY <1>2, MoveMaps DEF Ioctl, StreamOn, StreamOnStart, StreamOff, StreamOffStop,
     StreamOffDone, OverlayOn, OverlayOnStart, OverlayOff, OverlayOffDone, Restart,
     RestartDone
<1>3. CASE Poll(p)
  BY <1>3, MoveMaps DEF Poll, PollCall, PollHit, PollMiss, PollSleep, PollWake,
     PollTimeout
<1>4. CASE Read(p)
  BY <1>4, MoveMaps DEF Read, ReadCall, ReadHit, ReadSleep, ReadWake, ReadInterrupted
<1> QED BY <1>1, <1>2, <1>3, <1>4

\* The driver implements CaptureNode: under every interleaving, one process at a
\* time has the node and only its own start and stop calls change whether the
\* interrupt serves the stream.
THEOREM ImplementsCaptureNode == Spec => ServesOneOwner
<1>1. Init => Node!Init
  BY DEF Init, Node!Init, Inside, Steady, Armed, Outside, Reconfiguring
<1>2. IInv /\ [Next]_vars => [Node!Next]_Node!nodeVars
  <2> SUFFICES ASSUME TypeOK, LockInv, ServiceInv, [Next]_vars
               PROVE  [Node!Next]_Node!nodeVars
    BY DEF IInv
  <2>1. CASE FrameEnd \/ PeerOpen \/ UNCHANGED vars
    BY <2>1 DEF FrameEnd, PeerOpen, vars, Node!nodeVars, Inside, Steady, Armed, Phase
  <2>2. CASE Irq
    BY <2>2, IrqMaps
  <2>3. ASSUME NEW p \in Procs, Store(p) PROVE [Node!Next]_Node!nodeVars
    BY <2>3, StoreMaps DEF Node!Next
  <2>4. ASSUME NEW p \in Procs, OpenRelease(p) PROVE [Node!Next]_Node!nodeVars
    BY <2>4, OpenReleaseMaps DEF Node!Next
  <2>5. ASSUME NEW p \in Procs, Load(p) \/ Ioctl(p) \/ Poll(p) \/ Read(p)
        PROVE  [Node!Next]_Node!nodeVars
    BY <2>5, CallMaps DEF Node!Next
  <2> QED BY <2>1, <2>2, <2>3, <2>4, <2>5 DEF Next, User
<1> QED BY <1>1, <1>2, Inductive, PTL DEF Spec, ServesOneOwner, Node!Spec
=============================================================================
