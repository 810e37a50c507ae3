------------------------------ MODULE FimcMemory ------------------------------
(***************************************************************************)
(* The output frames of the FIMC controllers (s3c_fimc_cfg.c,              *)
(* s3c_fimc_v4l2.c): the reserved memory they share, the table of frame    *)
(* addresses of each, and the addresses its engine was last given.         *)
(*                                                                         *)
(* Memory is counted in pages (s3c_fimc_get_buffer_size rounds up to one). *)
(* The pool is a bump pointer: dma_current goes up by a frame for each     *)
(* frame taken and down by a frame for each one given back, whichever it   *)
(* is.  The ioctls of one node run one at a time (the V4L2 core), except   *)
(* that one which stops the engine waits in s3c_fimc_wait_frame_end.       *)
(***************************************************************************)
EXTENDS Integers, FiniteSets

CONSTANTS
    Ctrls,        \* numbers of the controllers that use the pool
    DmaStart,     \* s3c_fimc.dma_start, in pages
    DmaTotal,     \* s3c_fimc.dma_total, in pages
    Sizes,        \* pages of a frame, for the formats clients ask for
    Counts,       \* values of b->count in VIDIOC_REQBUFS
    NrControls,   \* values of V4L2_CID_NR_FRAMES; {} when no client sets it
    NrFrames,     \* pdata->nr_frames
    LcdCtrls,     \* controllers whose client may select the LCD as output
    SharedIo,     \* TRUE: the controllers use one register block
    FrameInTime   \* TRUE: the engine ends its last frame within 20 jiffies

MAX_FRAMES == 4   \* S3C_FIMC_MAX_FRAMES
MAX_CTRLS  == 3   \* S3C_FIMC_MAX_CTRLS

ASSUME CtrlAssumption == Ctrls \subseteq 0..(MAX_CTRLS - 1)

ASSUME PoolAssumption ==
    /\ DmaStart \in Nat \ {0}
    /\ DmaTotal \in Nat
    /\ Sizes \subseteq Nat \ {0}
ASSUME CountAssumption ==
    /\ Counts \subseteq Nat
    /\ NrControls \subseteq 1..MAX_FRAMES
    /\ NrFrames \in 1..MAX_FRAMES
ASSUME FlagAssumption ==
    /\ LcdCtrls \subseteq Ctrls
    /\ SharedIo \in BOOLEAN
    /\ FrameInTime \in BOOLEAN

VARIABLES
    dma_current,  \* s3c_fimc.dma_current
    out_frame,    \* ctrl->out_frame of each controller
    open,         \* ctrl->in_use
    dma,          \* the engine of each path: off, on or draining
    regs,         \* the frame addresses in its registers
    target,       \* the pages of a frame the engine was last set up to write
    waiting       \* the call waiting in s3c_fimc_wait_frame_end, or "none"

vars == <<dma_current, out_frame, open, dma, regs, target, waiting>>

DmaEnd == DmaStart + DmaTotal
Slots  == 0..(MAX_FRAMES - 1)
NULL   == 0
NoAddr == [i \in Slots |-> NULL]

Init ==
    /\ dma_current = DmaStart
    /\ out_frame = [c \in Ctrls |->
           [nr_frames |-> NrFrames, size |-> 0, buf_size |-> 0,
            out_type |-> "DMA", addr |-> NoAddr]]
    /\ open = [c \in Ctrls |-> FALSE]
    /\ dma = [c \in Ctrls |-> "off"]
    /\ regs = [c \in Ctrls |-> NoAddr]
    /\ target = [c \in Ctrls |-> 0]
    /\ waiting = [c \in Ctrls |-> "none"]

-----------------------------------------------------------------------------
(* The allocator.  A pair <<frame, current>> is an out_frame and the pool's *)
(* dma_current.                                                             *)

\* What s3c_fimc_free_output_memory gives back for slot i.
Credit(f, i) == IF i < f.nr_frames /\ f.addr[i] # NULL THEN f.buf_size ELSE 0

FreeOutput(f, current) ==
    <<[f EXCEPT !.addr = [i \in Slots |-> IF i < f.nr_frames THEN NULL
                                          ELSE f.addr[i]],
                !.buf_size = 0],
      current - (Credit(f, 0) + Credit(f, 1) + Credit(f, 2) + Credit(f, 3))>>

BadAllocOutput1(f, current) ==   \* lets the last frame pass the end of the pool
    LET n == f.nr_frames
        s == f.size
    IN  IF s = 0 \/ (DmaEnd - current) \div s + 1 >= n
        THEN <<[f EXCEPT !.buf_size = s,
                         !.addr = [i \in Slots |-> current + (i % n) * s]],
               current + n * s>>
        ELSE FreeOutput(f, current)

BadAllocOutput2(f, current) ==   \* keeps the frames taken before a failure
    LET n == f.nr_frames
        s == f.size
        k == IF s = 0 THEN n ELSE (DmaEnd - current) \div s
    IN  <<[f EXCEPT !.buf_size = s,
                    !.addr = [i \in Slots |-> IF k >= n THEN current + (i % n) * s
                                              ELSE IF i < k THEN current + i * s
                                              ELSE NULL]],
          current + (IF k >= n THEN n ELSE k) * s>>

\* s3c_fimc_alloc_output_memory: nr_frames frames, and the slots after them
\* name the same frames again; a frame that does not fit frees what was taken.
AllocOutput(f, current) ==
    LET n    == f.nr_frames
        s    == f.size
        room == DmaEnd - current
        k    == IF s = 0 THEN n ELSE room \div s   \* frames that fit
        g    == [f EXCEPT !.buf_size = s]
    IN  IF k >= n
        THEN <<[g EXCEPT !.addr = [i \in Slots |-> current + (i % n) * s]],
               current + n * s>>
        ELSE FreeOutput([g EXCEPT !.addr =
                            [i \in Slots |-> IF i < k THEN current + i * s
                                             ELSE IF i = k THEN NULL
                                             ELSE f.addr[i]]],
                        current + k * s)

\* "if (out_type == PATH_OUT_DMA && addr[0].virt_y == NULL)" before an
\* allocation; a failure is logged and the call succeeds.
AllocIfNone(f, current) ==
    IF f.out_type = "DMA" /\ f.addr[0] = NULL
    THEN AllocOutput(f, current)
    ELSE <<f, current>>

Update(c, pair) ==
    /\ out_frame' = [out_frame EXCEPT ![c] = pair[1]]
    /\ dma_current' = pair[2]

-----------------------------------------------------------------------------
Idle(c) == open[c] /\ waiting[c] = "none"

\* s3c_fimc_open: s3c_fimc_reset clears the registers of the block, which the
\* controllers share.
Open(c) ==
    /\ ~open[c]
    /\ open' = [open EXCEPT ![c] = TRUE]
    /\ LET reset == IF SharedIo THEN Ctrls ELSE {c}
       IN  /\ dma'  = [d \in Ctrls |-> IF d \in reset THEN "off" ELSE dma[d]]
           /\ regs' = [d \in Ctrls |-> IF d \in reset THEN NoAddr ELSE regs[d]]
           /\ target' = [d \in Ctrls |-> IF d \in reset THEN 0 ELSE target[d]]
    /\ UNCHANGED <<dma_current, out_frame, waiting>>

\* s3c_fimc_release frees nothing and stops nothing.
Release(c) ==
    /\ Idle(c)
    /\ open' = [open EXCEPT ![c] = FALSE]
    /\ UNCHANGED <<dma_current, out_frame, dma, regs, target, waiting>>

\* VIDIOC_S_FMT and VIDIOC_S_FBUF: s3c_fimc_set_output_frame
SetFormat(c, s) ==
    /\ Idle(c)
    /\ Update(c, AllocIfNone([out_frame[c] EXCEPT !.size = s], dma_current))
    /\ UNCHANGED <<open, dma, regs, target, waiting>>

BadGranted(count) == IF count < 1 THEN 1 ELSE count   \* more than there are slots

Granted(count) == IF count > 2 THEN 4 ELSE IF count < 1 THEN 1 ELSE count

\* VIDIOC_REQBUFS: nr_frames is the new count before the old frames are freed.
ReqBufs(c, count) ==
    /\ Idle(c)
    /\ LET f == [out_frame[c] EXCEPT !.nr_frames = Granted(count)]
           freed == IF f.addr[0] # NULL THEN FreeOutput(f, dma_current)
                    ELSE <<f, dma_current>>
       IN  Update(c, AllocIfNone(freed[1], freed[2]))
    /\ UNCHANGED <<open, dma, regs, target, waiting>>

\* V4L2_CID_NR_FRAMES: s3c_fimc_set_nr_frames
SetNrFrames(c, nr) ==
    /\ Idle(c)
    /\ out_frame' = [out_frame EXCEPT ![c].nr_frames = IF nr = 3 THEN 2 ELSE nr]
    /\ UNCHANGED <<dma_current, open, dma, regs, target, waiting>>

\* VIDIOC_S_OUTPUT
SetOutput(c, type) ==
    /\ Idle(c)
    /\ out_frame' = [out_frame EXCEPT ![c].out_type = type]
    /\ UNCHANGED <<dma_current, open, dma, regs, target, waiting>>

\* s3c_fimc_start_dma gives the engine the frame size and, when it is to write
\* to memory, the addresses of the table.
BadStartEngine(c) ==   \* without s3c_fimc_set_output_address
    /\ dma' = [dma EXCEPT ![c] = "on"]
    /\ target' = [target EXCEPT ![c] = out_frame[c].size]
    /\ regs' = regs

StartEngine(c) ==
    /\ dma' = [dma EXCEPT ![c] = "on"]
    /\ target' = [target EXCEPT ![c] = out_frame[c].size]
    /\ regs' = IF out_frame[c].out_type = "DMA"
               THEN [regs EXCEPT ![c] = out_frame[c].addr] ELSE regs

\* VIDIOC_STREAMON and overlay(1)
Start(c) ==
    /\ Idle(c)
    /\ StartEngine(c)
    /\ UNCHANGED <<dma_current, out_frame, open, waiting>>

\* s3c_fimc_stop_dma, as far as s3c_fimc_wait_frame_end.
Stop(c, call) ==
    /\ Idle(c)
    /\ waiting' = [waiting EXCEPT ![c] = call]
    /\ dma' = [dma EXCEPT ![c] = IF @ = "on" THEN "draining" ELSE @]
    /\ UNCHANGED <<dma_current, out_frame, open, regs, target>>

\* The wait ends after 20 jiffies; no frame of a stopped engine is still being
\* written then if a frame takes less.
BadWaited(c, call) ==   \* without s3c_fimc_wait_frame_end
    /\ waiting[c] = call
    /\ waiting' = [waiting EXCEPT ![c] = "none"]

Waited(c, call) ==
    /\ waiting[c] = call
    /\ FrameInTime => dma[c] # "draining"
    /\ waiting' = [waiting EXCEPT ![c] = "none"]

\* s3c_fimc_free_output_memory and s3c_fimc_set_output_address
FreeAndForget(c) ==
    LET pair == FreeOutput(out_frame[c], dma_current)
    IN  Update(c, pair) /\ regs' = [regs EXCEPT ![c] = pair[1].addr]

StreamOff(c) == Stop(c, "streamoff")
StreamOffDone(c) ==
    /\ Waited(c, "streamoff")
    /\ FreeAndForget(c)
    /\ UNCHANGED <<open, dma, target>>

OverlayOff(c) == Stop(c, "overlay")
OverlayOffDone(c) ==
    /\ Waited(c, "overlay")
    /\ IF out_frame[c].out_type = "DMA" THEN FreeAndForget(c)
       ELSE UNCHANGED <<dma_current, out_frame, regs>>
    /\ UNCHANGED <<open, dma, target>>

\* s3c_fimc_restart_dma, from VIDIOC_S_PARM and the zoom controls.
Restart(c) == Stop(c, "restart")
RestartDone(c) ==
    /\ Waited(c, "restart")
    /\ StartEngine(c)
    /\ UNCHANGED <<dma_current, out_frame, open>>

\* The last frame of a stopped engine ends.
FrameEnd(c) ==
    /\ dma[c] = "draining"
    /\ dma' = [dma EXCEPT ![c] = "off"]
    /\ UNCHANGED <<dma_current, out_frame, open, regs, target, waiting>>

CtrlNext(c) ==
    \/ Open(c) \/ Release(c)
    \/ \E s \in Sizes : SetFormat(c, s)
    \/ \E n \in Counts : ReqBufs(c, n)
    \/ \E n \in NrControls : SetNrFrames(c, n)
    \/ SetOutput(c, "DMA")
    \/ c \in LcdCtrls /\ SetOutput(c, "LCDFIFO")
    \/ Start(c)
    \/ StreamOff(c) \/ StreamOffDone(c)
    \/ OverlayOff(c) \/ OverlayOffDone(c)
    \/ Restart(c) \/ RestartDone(c)
    \/ FrameEnd(c)

Next == \E c \in Ctrls : CtrlNext(c)

Spec == Init /\ [][Next]_vars

-----------------------------------------------------------------------------
OutFrame == [nr_frames : 1..MAX_FRAMES, size : Nat, buf_size : Nat,
             out_type : {"DMA", "LCDFIFO"}, addr : [Slots -> Nat]]

TypeOK ==
    /\ dma_current \in Nat
    /\ out_frame \in [Ctrls -> OutFrame]
    /\ open \in [Ctrls -> BOOLEAN]
    /\ dma \in [Ctrls -> {"off", "on", "draining"}]
    /\ regs \in [Ctrls -> [Slots -> Nat]]
    /\ target \in [Ctrls -> Nat]
    /\ waiting \in [Ctrls -> {"none", "streamoff", "overlay", "restart"}]

Allocated(f) == f.addr[0] # NULL

\* The pages a controller holds.
Held(f) == IF Allocated(f) THEN f.nr_frames * f.buf_size ELSE 0

\* A frame of n pages at address a is inside [lo, hi).
Within(a, n, lo, hi) == lo <= a /\ a + n <= hi

\* The pool's pointer is what the controllers hold, whoever took and gave back
\* in what order and whichever allocation failed: s3c_fimc_put_dma_region
\* subtracts the same bytes s3c_fimc_get_dma_region added.
HeldBy(c) == IF c \in Ctrls THEN Held(out_frame[c]) ELSE 0
PoolExact == dma_current = DmaStart + HeldBy(0) + HeldBy(1) + HeldBy(2)

\* Whichever controller takes frames after which and whichever allocation fails,
\* the frames of a controller lie in the reserved memory and do not overlap.
AllFramesApart ==
    \A c \in Ctrls :
        LET f == out_frame[c]
        IN  Allocated(f) =>
                /\ \A i \in Slots : Within(f.addr[i], f.buf_size, DmaStart, DmaEnd)
                /\ \A i, j \in Slots : i < j /\ j < f.nr_frames =>
                       f.addr[i] + f.buf_size <= f.addr[j]

\* Every frame of a controller lies in the part of the pool that is taken, and
\* frames of different numbers do not overlap.
FramesApart(f) ==
    Allocated(f) =>
        /\ dma_current <= DmaEnd
        /\ \A i \in Slots : Within(f.addr[i], f.buf_size, DmaStart, dma_current)
        /\ \A i, j \in Slots : i < j /\ j < f.nr_frames =>
               f.addr[i] + f.buf_size <= f.addr[j]

\* The frames a table holds, whatever number it claims: an allocation gives every
\* frame an address of its own, and the slots past the last repeat them.
FramesIn(f) == {f.addr[i] : i \in Slots} \ {NULL}

\* "@nr_frams: how many output frames used" (s3c_fimc.h:448): a controller holds as
\* many frames as nr_frames says, and these are what its next free gives back.
NrFramesUsed ==
    \A c \in Ctrls :
        Allocated(out_frame[c]) /\ out_frame[c].buf_size > 0 =>
            Cardinality(FramesIn(out_frame[c])) = out_frame[c].nr_frames
=============================================================================
