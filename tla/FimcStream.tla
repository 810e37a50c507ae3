------------------------------ MODULE FimcStream ------------------------------
(***************************************************************************)
(* The capture stream of one FIMC controller (s3c_fimc_core.c,             *)
(* s3c_fimc_v4l2.c, s3c_fimc_cfg.c): the flag word the driver keeps, the   *)
(* file operations that rewrite it, and the frame interrupt that rewrites  *)
(* it underneath them.                                                     *)
(*                                                                         *)
(* The S3C6410 has one core: the handler runs to its end between two       *)
(* instructions of a process.  A process updates ctrl->flag with plain     *)
(* "flag &= ~m" and "flag |= b": a load and a store the handler may come   *)
(* between, in which case the store writes the whole old word back.        *)
(***************************************************************************)
EXTENDS Naturals, FiniteSets

CONSTANTS Procs,     \* processes that open the video node
          NoProc,    \* the owner of a free mutex
          SharedIo   \* TRUE: another controller uses the same registers

ASSUME NoProcAssumption == NoProc \notin Procs
ASSUME SharedIoAssumption == SharedIo \in BOOLEAN

VARIABLES
    flag,         \* ctrl->flag: the set of its bits that are 1
    skip_frames,  \* out_frame.skip_frames, counted up to SkipLimit
    in_use,       \* ctrl->in_use
    lock,         \* ctrl->lock: its owner
    woken,        \* processes ctrl->waitq has woken and that have not run yet
    dma,          \* the engine of this path: off, on or draining (last frame)
    line,         \* the interrupt line: "raised" until the handler runs
    pc,           \* where each process is
    tmp,          \* the copy of the flag word each process has loaded
    loaded,       \* the processes between that load and its store
    mode,         \* history: the last stream operation that has returned
    stale         \* history: "gone" once FSET_STOP has run since streamon

vars == <<flag, skip_frames, in_use, lock, woken, dma, line, pc, tmp, loaded,
          mode, stale>>

Status == {"RUNNING", "STOP", "HANDLE_IRQ"}
Usage  == {"PREVIEW", "CAPTURE"}
Irqs   == {"IRQ_NORMAL", "IRQ_X", "IRQ_Y", "IRQ_LAST"}
Bits   == Status \cup Usage \cup Irqs

SkipLimit == 3

(***************************************************************************)
(* The read-modify-writes of the flag word, one label each: the group it   *)
(* clears, the bit it sets, and what the process does next.  FSET_x is two *)
(* of them, FCLR_x the first.                                              *)
(***************************************************************************)
Clear(group, next) == [clear |-> group, set |-> {}, next |-> next]
Set(bit, next)     == [clear |-> {}, set |-> {bit}, next |-> next]

Rmw ==
    [on1   |-> Clear(Usage, "on2"),    on2   |-> Set("CAPTURE", "on3"),
     on3   |-> Clear(Irqs, "on4"),     on4   |-> Set("IRQ_X", "on5"),
     off1  |-> Clear(Status, "off2"),  off2  |-> Set("STOP", "off3"),
     off3  |-> Clear(Usage, "off4"),   off4  |-> Clear(Irqs, "off5"),
     ov1   |-> Clear(Usage, "ov2"),    ov2   |-> Set("PREVIEW", "ov3"),
     poll2 |-> Clear(Status, "poll3"), poll3 |-> Set("STOP", "poll4"),
     hit2  |-> Clear(Status, "hit3"),  hit3  |-> Set("STOP", "idle"),
     read2 |-> Clear(Status, "read3"), read3 |-> Set("STOP", "idle")]

RmwLabels == {"on1", "on2", "on3", "on4", "off1", "off2", "off3", "off4",
              "ov1", "ov2", "poll2", "poll3", "hit2", "hit3", "read2", "read3"}

Labels == RmwLabels \cup
          {"closed", "open1", "open2", "idle", "on5", "off5", "off6", "ov3",
           "halt1", "restart1", "poll1", "poll4", "pollw", "read1", "readw"}

Outside == {"closed", "open1", "open2"}

\* Inside a call that changes what the interrupt does.
Reconfiguring == {"on1", "on2", "on3", "on4", "on5", "off1", "off2", "off3",
                  "off4", "off5", "off6", "ov1", "ov2", "ov3"}

Init ==
    /\ flag = {}
    /\ skip_frames = 0
    /\ in_use = 0
    /\ lock = NoProc
    /\ woken = {}
    /\ dma = "off"
    /\ line = "low"
    /\ pc = [p \in Procs |-> "closed"]
    /\ tmp = [p \in Procs |-> {}]
    /\ loaded = {}
    /\ mode = "off"
    /\ stale = "maybe"

Go(p, from, to) == pc[p] = from /\ pc' = [pc EXCEPT ![p] = to]

-----------------------------------------------------------------------------
(* The hardware and its interrupt *)

\* The engine ends a frame and raises the interrupt; a stopped engine
\* completes the frame it is in.
FrameEnd ==
    /\ dma # "off"
    /\ line' = "raised"
    /\ dma' = IF dma = "draining" THEN "off" ELSE dma
    /\ UNCHANGED <<flag, skip_frames, in_use, lock, woken, pc, tmp, loaded,
                   mode, stale>>

Phase(f) == f \cap Irqs
Rest(f)  == f \ (Status \cup Irqs)   \* after FCLR_STATUS and FCLR_IRQ

BadFrameFlags1(f) ==   \* FSET_IRQ_X without its FCLR_IRQ
    IF Phase(f) = {"IRQ_X"} THEN Rest(f) \cup {"HANDLE_IRQ", "IRQ_LAST"}
    ELSE IF Phase(f) = {"IRQ_LAST"} THEN (f \ Status) \cup {"HANDLE_IRQ", "IRQ_X"}
    ELSE f

BadFrameFlags2(f) ==   \* the last frame's case forgets to start over
    IF Phase(f) = {"IRQ_X"} THEN Rest(f) \cup {"HANDLE_IRQ", "IRQ_LAST"}
    ELSE IF Phase(f) = {"IRQ_LAST"} THEN Rest(f) \cup {"HANDLE_IRQ"}
    ELSE f

BadFrameFlags3(f) ==   \* the first frame's case does not go on to the last
    IF Phase(f) = {"IRQ_X"} THEN (f \ Status) \cup {"HANDLE_IRQ"}
    ELSE IF Phase(f) = {"IRQ_LAST"} THEN Rest(f) \cup {"HANDLE_IRQ", "IRQ_X"}
    ELSE f

\* s3c_fimc_frame_handler: what the interrupt does to the flag word once the
\* first frames have been skipped.
FrameFlags(f) ==
    IF Phase(f) = {"IRQ_NORMAL"} THEN Rest(f) \cup {"RUNNING", "IRQ_X"}
    ELSE IF Phase(f) = {"IRQ_X"} THEN Rest(f) \cup {"HANDLE_IRQ", "IRQ_LAST"}
    ELSE IF Phase(f) = {"IRQ_LAST"} THEN Rest(f) \cup {"HANDLE_IRQ", "IRQ_X"}
    ELSE f

\* S3C_FIMC_FRAME_TAKE, the one result that wakes the wait queue.
FrameTaken(f) == Phase(f) = {"IRQ_LAST"}

\* The processes on ctrl->waitq: poll_wait or prepare_to_wait has run.
Waiters == {p \in Procs : pc[p] \in {"poll1", "poll2", "poll3", "poll4",
                                      "pollw", "readw"}}

IrqIgnored ==
    /\ "CAPTURE" \notin flag
    /\ UNCHANGED <<flag, skip_frames, woken>>

IrqSkipped ==
    /\ "CAPTURE" \in flag
    /\ skip_frames + 1 < SkipLimit
    /\ skip_frames' = skip_frames + 1
    /\ UNCHANGED <<flag, woken>>

BadIrqHandled ==   \* handles the last frame that is to be skipped
    /\ "CAPTURE" \in flag
    /\ skip_frames + 2 >= SkipLimit
    /\ skip_frames' = IF skip_frames < SkipLimit THEN skip_frames + 1
                      ELSE SkipLimit
    /\ flag' = FrameFlags(flag)
    /\ woken' = IF FrameTaken(flag) THEN woken \cup Waiters ELSE woken

IrqHandled ==
    /\ "CAPTURE" \in flag
    /\ skip_frames + 1 >= SkipLimit
    /\ skip_frames' = SkipLimit
    /\ flag' = FrameFlags(flag)
    /\ woken' = IF FrameTaken(flag) THEN woken \cup Waiters ELSE woken

\* s3c_fimc_irq
Irq ==
    /\ line = "raised"
    /\ line' = "low"
    /\ IrqIgnored \/ IrqSkipped \/ IrqHandled
    /\ UNCHANGED <<in_use, lock, dma, pc, tmp, loaded, mode, stale>>

\* Opening another controller resets the registers the two share.
PeerOpen ==
    /\ SharedIo
    /\ dma # "off"
    /\ dma' = "off"
    /\ UNCHANGED <<flag, skip_frames, in_use, lock, woken, line, pc, tmp,
                   loaded, mode, stale>>

-----------------------------------------------------------------------------
(* The two halves of a read-modify-write of the flag word *)

Load(p) ==
    /\ pc[p] \in RmwLabels
    /\ p \notin loaded
    /\ tmp' = [tmp EXCEPT ![p] = flag]
    /\ loaded' = loaded \cup {p}
    /\ UNCHANGED <<flag, skip_frames, in_use, lock, woken, dma, line, pc, mode,
                   stale>>

Store(p) ==
    /\ pc[p] \in RmwLabels
    /\ p \in loaded
    /\ flag' = (tmp[p] \ Rmw[pc[p]].clear) \cup Rmw[pc[p]].set
    /\ pc' = [pc EXCEPT ![p] = Rmw[pc[p]].next]
    /\ loaded' = loaded \ {p}
    /\ tmp' = [tmp EXCEPT ![p] = {}]
    /\ stale' = IF pc[p] \in {"poll3", "hit3", "read3"} THEN "gone" ELSE stale
    /\ UNCHANGED <<skip_frames, in_use, lock, woken, dma, line, mode>>

-----------------------------------------------------------------------------
(* s3c_fimc_open and s3c_fimc_release *)

BadOpenLock(p) ==   \* open() without ctrl->lock
    /\ Go(p, "closed", "open1")
    /\ lock' = p
    /\ UNCHANGED <<flag, skip_frames, in_use, woken, dma, line, tmp, loaded,
                   mode, stale>>

OpenLock(p) ==
    /\ Go(p, "closed", "open1")
    /\ lock = NoProc
    /\ lock' = p
    /\ UNCHANGED <<flag, skip_frames, in_use, woken, dma, line, tmp, loaded,
                   mode, stale>>

BadOpenBusy(p) ==   \* the error path drops a count it has not taken
    /\ Go(p, "open1", "closed")
    /\ in_use # 0
    /\ in_use' = in_use - 1
    /\ lock' = NoProc
    /\ UNCHANGED <<flag, skip_frames, woken, dma, line, tmp, loaded, mode,
                   stale>>

OpenBusy(p) ==
    /\ Go(p, "open1", "closed")
    /\ in_use # 0
    /\ lock' = NoProc
    /\ UNCHANGED <<flag, skip_frames, in_use, woken, dma, line, tmp, loaded,
                   mode, stale>>

OpenFree(p) ==
    /\ Go(p, "open1", "open2")
    /\ in_use = 0
    /\ UNCHANGED <<flag, skip_frames, in_use, lock, woken, dma, line, tmp,
                   loaded, mode, stale>>

\* s3c_fimc_reset stops the engine; the flag word is left as the last user
\* left it.
OpenTake(p) ==
    /\ Go(p, "open2", "idle")
    /\ in_use' = in_use + 1
    /\ dma' = "off"
    /\ lock' = NoProc
    /\ mode' = IF mode = "off" THEN "off" ELSE "halted"
    /\ UNCHANGED <<flag, skip_frames, woken, line, tmp, loaded, stale>>

\* Neither the engine nor the flag word is touched.
Release(p) ==
    /\ Go(p, "idle", "closed")
    /\ lock = NoProc
    /\ in_use' = in_use - 1
    /\ UNCHANGED <<flag, skip_frames, lock, woken, dma, line, tmp, loaded,
                   mode, stale>>

-----------------------------------------------------------------------------
(* The ioctls that start and stop the engine *)

StreamOn(p) ==
    /\ Go(p, "idle", "on1")
    /\ skip_frames' = 0
    /\ stale' = "maybe"
    /\ UNCHANGED <<flag, in_use, lock, woken, dma, line, tmp, loaded, mode>>

StreamOnStart(p) ==
    /\ Go(p, "on5", "idle")
    /\ dma' = "on"
    /\ mode' = "capture"
    /\ UNCHANGED <<flag, skip_frames, in_use, lock, woken, line, tmp, loaded,
                   stale>>

BadStreamOff(p) ==   \* streamoff without FSET_STOP and FCLR_USAGE
    /\ Go(p, "idle", "off4")
    /\ UNCHANGED <<flag, skip_frames, in_use, lock, woken, dma, line, tmp,
                   loaded, mode, stale>>

StreamOff(p) ==
    /\ Go(p, "idle", "off1")
    /\ UNCHANGED <<flag, skip_frames, in_use, lock, woken, dma, line, tmp,
                   loaded, mode, stale>>

\* s3c_fimc_stop_dma up to s3c_fimc_wait_frame_end
StopEngine == dma' = IF dma = "on" THEN "draining" ELSE dma

StreamOffStop(p) ==
    /\ Go(p, "off5", "off6")
    /\ StopEngine
    /\ UNCHANGED <<flag, skip_frames, in_use, lock, woken, line, tmp, loaded,
                   mode, stale>>

\* s3c_fimc_wait_frame_end gives up after 20 jiffies, whatever the engine does.
StreamOffDone(p) ==
    /\ Go(p, "off6", "idle")
    /\ mode' = "off"
    /\ UNCHANGED <<flag, skip_frames, in_use, lock, woken, dma, line, tmp,
                   loaded, stale>>

OverlayOn(p) ==
    /\ Go(p, "idle", "ov1")
    /\ UNCHANGED <<flag, skip_frames, in_use, lock, woken, dma, line, tmp,
                   loaded, mode, stale>>

OverlayOnStart(p) ==
    /\ Go(p, "ov3", "idle")
    /\ dma' = "on"
    /\ mode' = "preview"
    /\ UNCHANGED <<flag, skip_frames, in_use, lock, woken, line, tmp, loaded,
                   stale>>

\* overlay(0) stops the engine and leaves the flag word.
OverlayOff(p) ==
    /\ Go(p, "idle", "halt1")
    /\ StopEngine
    /\ UNCHANGED <<flag, skip_frames, in_use, lock, woken, line, tmp, loaded,
                   mode, stale>>

OverlayOffDone(p) ==
    /\ Go(p, "halt1", "idle")
    /\ mode' = IF mode = "off" THEN "off" ELSE "halted"
    /\ UNCHANGED <<flag, skip_frames, in_use, lock, woken, dma, line, tmp,
                   loaded, stale>>

\* s3c_fimc_restart_dma, from s_parm and the zoom controls.
Restart(p) ==
    /\ Go(p, "idle", "restart1")
    /\ StopEngine
    /\ UNCHANGED <<flag, skip_frames, in_use, lock, woken, line, tmp, loaded,
                   mode, stale>>

RestartDone(p) ==
    /\ Go(p, "restart1", "idle")
    /\ dma' = "on"
    /\ UNCHANGED <<flag, skip_frames, in_use, lock, woken, line, tmp, loaded,
                   mode, stale>>

-----------------------------------------------------------------------------
(* poll(2) on the node: the kernel calls s3c_fimc_poll, sleeps on a zero    *)
(* mask and calls it again when woken.                                      *)

PollCall(p) ==
    /\ Go(p, "idle", "poll1")
    /\ woken' = woken \ {p}
    /\ UNCHANGED <<flag, skip_frames, in_use, lock, dma, line, tmp, loaded,
                   mode, stale>>

\* IS_IRQ_HANDLING: the mask is POLLIN; FSET_STOP follows, then the return.
PollHit(p) ==
    /\ Go(p, "poll1", "hit2")
    /\ "HANDLE_IRQ" \in flag
    /\ UNCHANGED <<flag, skip_frames, in_use, lock, woken, dma, line, tmp,
                   loaded, mode, stale>>

PollMiss(p) ==
    /\ Go(p, "poll1", "poll2")
    /\ "HANDLE_IRQ" \notin flag
    /\ UNCHANGED <<flag, skip_frames, in_use, lock, woken, dma, line, tmp,
                   loaded, mode, stale>>

PollSleep(p) ==
    /\ Go(p, "poll4", "pollw")
    /\ UNCHANGED <<flag, skip_frames, in_use, lock, woken, dma, line, tmp,
                   loaded, mode, stale>>

PollWake(p) ==
    /\ Go(p, "pollw", "poll1")
    /\ p \in woken
    /\ woken' = woken \ {p}
    /\ UNCHANGED <<flag, skip_frames, in_use, lock, dma, line, tmp, loaded,
                   mode, stale>>

\* The caller's timeout (10 s in Ov965xCamera.cpp) or a signal: s3c_fimc_poll is
\* called a last time and the call returns whatever its mask.
PollTimeout(p) ==
    /\ Go(p, "pollw", "hit2")
    /\ UNCHANGED <<flag, skip_frames, in_use, lock, woken, dma, line, tmp,
                   loaded, mode, stale>>

-----------------------------------------------------------------------------
(* s3c_fimc_read *)

ReadCall(p) ==
    /\ Go(p, "idle", "read1")
    /\ "CAPTURE" \in flag
    /\ UNCHANGED <<flag, skip_frames, in_use, lock, woken, dma, line, tmp,
                   loaded, mode, stale>>

\* wait_event_interruptible joins the queue before it tests the condition.
ReadHit(p) ==
    /\ Go(p, "read1", "read2")
    /\ "HANDLE_IRQ" \in flag
    /\ UNCHANGED <<flag, skip_frames, in_use, lock, woken, dma, line, tmp,
                   loaded, mode, stale>>

ReadSleep(p) ==
    /\ Go(p, "read1", "readw")
    /\ "HANDLE_IRQ" \notin flag
    /\ woken' = woken \ {p}
    /\ UNCHANGED <<flag, skip_frames, in_use, lock, dma, line, tmp, loaded,
                   mode, stale>>

ReadWake(p) ==
    /\ Go(p, "readw", "read1")
    /\ p \in woken
    /\ UNCHANGED <<flag, skip_frames, in_use, lock, woken, dma, line, tmp,
                   loaded, mode, stale>>

ReadInterrupted(p) ==
    /\ Go(p, "readw", "idle")
    /\ UNCHANGED <<flag, skip_frames, in_use, lock, woken, dma, line, tmp,
                   loaded, mode, stale>>

-----------------------------------------------------------------------------
OpenRelease(p) ==
    OpenLock(p) \/ OpenBusy(p) \/ OpenFree(p) \/ OpenTake(p) \/ Release(p)

Ioctl(p) ==
    \/ StreamOn(p) \/ StreamOnStart(p)
    \/ StreamOff(p) \/ StreamOffStop(p) \/ StreamOffDone(p)
    \/ OverlayOn(p) \/ OverlayOnStart(p) \/ OverlayOff(p) \/ OverlayOffDone(p)
    \/ Restart(p) \/ RestartDone(p)

Poll(p) ==
    \/ PollCall(p) \/ PollHit(p) \/ PollMiss(p)
    \/ PollSleep(p) \/ PollWake(p) \/ PollTimeout(p)

Read(p) ==
    \/ ReadCall(p) \/ ReadHit(p) \/ ReadSleep(p) \/ ReadWake(p)
    \/ ReadInterrupted(p)

User(p) == Load(p) \/ Store(p) \/ OpenRelease(p) \/ Ioctl(p) \/ Poll(p) \/ Read(p)

Next == FrameEnd \/ Irq \/ PeerOpen \/ \E p \in Procs : User(p)

Spec == Init /\ [][Next]_vars

\* A process inside the driver goes on running; it need not make a call, and
\* no timeout or signal need come.
Running(p) ==
    \/ Load(p) \/ Store(p)
    \/ OpenBusy(p) \/ OpenFree(p) \/ OpenTake(p)
    \/ StreamOnStart(p) \/ StreamOffStop(p) \/ StreamOffDone(p)
    \/ OverlayOnStart(p) \/ OverlayOffDone(p) \/ RestartDone(p)
    \/ PollHit(p) \/ PollMiss(p) \/ PollSleep(p) \/ PollWake(p)
    \/ ReadHit(p) \/ ReadSleep(p) \/ ReadWake(p)

Fairness ==
    /\ WF_vars(FrameEnd)
    /\ WF_vars(Irq)
    /\ \A p \in Procs : WF_vars(Running(p))

FairSpec == Spec /\ Fairness

-----------------------------------------------------------------------------
TypeOK ==
    /\ flag \in SUBSET Bits
    /\ skip_frames \in 0..SkipLimit
    /\ in_use \in Nat
    /\ lock \in Procs \cup {NoProc}
    /\ woken \in SUBSET Procs
    /\ dma \in {"off", "on", "draining"}
    /\ line \in {"low", "raised"}
    /\ pc \in [Procs -> Labels]
    /\ tmp \in [Procs -> SUBSET Bits]
    /\ loaded \in SUBSET Procs
    /\ mode \in {"off", "capture", "preview", "halted"}
    /\ stale \in {"maybe", "gone"}

\* The processes that have the node open, whether one of them is starting or
\* stopping the stream, and whether the interrupt serves it.
Inside == {p \in Procs : pc[p] \notin Outside}
Steady == \A p \in Procs : pc[p] \notin Reconfiguring
Armed  == "CAPTURE" \in flag /\ Phase(flag) \in {{"IRQ_X"}, {"IRQ_LAST"}}

\* One process at a time is past open(), and in_use counts it: the test and
\* the increment of s3c_fimc_open are two steps, made one by ctrl->lock.
ExclusiveOpen ==
    /\ \A p, q \in Inside : p = q
    /\ in_use = IF Inside = {} THEN 0 ELSE 1

\* A stream that VIDIOC_STREAMON has started stays armed until it is stopped:
\* CAPTURE is set and exactly one of the two interrupt phases is, although
\* poll and read write the word back with what it was before an interrupt.
\* With neither phase or with both, s3c_fimc_frame_handler takes its default
\* case for every later frame and the stream is dead.
StreamArmed == Steady /\ mode = "capture" => Armed

\* After VIDIOC_STREAMOFF no usage and no interrupt phase is left in the word,
\* whatever interrupts came between its three updates, so that a frame the
\* engine still completes is ignored.
QuietWhenOff ==
    Steady /\ mode = "off" => flag \cap (Usage \cup Irqs) = {}

\* VIDIOC_STREAMON does not clear HANDLE_IRQ, and an interrupt between the
\* updates of streamoff or of an earlier stream can leave it set: the first
\* poll or read of a stream may report a frame before the first frames have
\* been skipped.  Once FSET_STOP has run in the stream it cannot happen again.
StaleFrameOnce ==
    stale = "gone" /\ skip_frames < SkipLimit => "HANDLE_IRQ" \notin flag

Node == INSTANCE CaptureNode
            WITH inside <- Inside, changing <- ~Steady, armed <- Armed

\* The driver implements CaptureNode: no interrupt, no poll or read that writes
\* back the word it loaded before one, and no process that has been refused the
\* node starts or stops the service of a stream.
ServesOneOwner == Node!Spec

Asleep(p) == pc[p] \in {"pollw", "readw"} /\ p \notin woken

\* A process asleep in poll or read while the stream runs is given a frame: it
\* wakes and finds HANDLE_IRQ set, although only every second interrupt wakes
\* the queue.  (A wake-up that arrives while s3c_fimc_poll is still clearing the
\* status may be erased with the frame it announces: that process is not asleep
\* here, it goes round the loop once more.)
WaiterServed ==
    \A p \in Procs :
        (Asleep(p) /\ mode = "capture" /\ dma = "on")
            ~> (dma # "on" \/ pc[p] \in {"idle", "hit2", "read2"})
-----------------------------------------------------------------------------
(* The inductive invariant behind the safety properties *)

\* ctrl->lock is held exactly between the test and the end of open(), and
\* in_use is 1 while a process is inside.
LockInv ==
    /\ in_use \in {0, 1}
    /\ \A p \in Procs : pc[p] \in {"open1", "open2"} <=> lock = p
    /\ \A p \in Procs : pc[p] = "open2" => in_use = 0
    /\ \A p \in Inside : in_use = 1
    /\ \A p, q \in Inside : p = q
    /\ in_use = 1 => Inside # {}

OnePhase(f) == Phase(f) \in {{}, {"IRQ_X"}, {"IRQ_LAST"}}

\* An interrupt after the load changes neither the usage of the word nor whether
\* a phase is set, so the store of the old word does not either.
SameService(f, g) ==
    /\ f \cap Usage = g \cap Usage
    /\ (Phase(f) = {}) = (Phase(g) = {})

CopyInv == \A p \in Procs : p \in loaded =>
    /\ pc[p] \in RmwLabels
    /\ OnePhase(tmp[p])
    /\ SameService(tmp[p], flag)

\* What streamon and streamoff have established at each of their steps.
CallInv == \A p \in Procs :
    /\ pc[p] \in {"on3", "on4", "on5"} => "CAPTURE" \in flag
    /\ pc[p] = "on4" => Phase(flag) = {}
    /\ pc[p] = "on5" => Armed
    /\ pc[p] \in {"off4", "off5", "off6"} => flag \cap Usage = {}
    /\ pc[p] \in {"off5", "off6"} => Phase(flag) = {}

\* Until the first frames have been skipped only an old HANDLE_IRQ can be set.
\* FSET_STOP clears it in the first of its two updates.
StaleInv == skip_frames < SkipLimit =>
    /\ stale = "gone" => "HANDLE_IRQ" \notin flag
    /\ \A p \in Procs : p \in loaded /\ stale = "gone" => "HANDLE_IRQ" \notin tmp[p]
    /\ \A p \in Procs : pc[p] \in {"poll3", "hit3", "read3"} =>
           "HANDLE_IRQ" \notin flag /\ (p \in loaded => "HANDLE_IRQ" \notin tmp[p])

ServiceInv ==
    /\ OnePhase(flag)
    /\ CopyInv
    /\ CallInv
    /\ StreamArmed
    /\ QuietWhenOff

IInv == TypeOK /\ LockInv /\ ServiceInv /\ StaleInv
=============================================================================
