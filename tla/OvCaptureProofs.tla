--------------------------- MODULE OvCaptureProofs ---------------------------
(***************************************************************************)
(* Proofs about OvCapture, for any pool, any frame sizes the pool holds    *)
(* and any number of controllers: the engine writes only frames the driver *)
(* holds, and the camera library copies whole frames from mappings of      *)
(* them.  Two hypotheses, named in Platform, are what the platform and the *)
(* engine give; the properties are false without either.                   *)
(***************************************************************************)
EXTENDS OvCapture, FimcMemoryProofs

\* The platform data's number of frames is the one the library asks for (with
\* fewer, REQBUFS frees the frames of S_FMT as if they were MAX_BUFFERS), and a
\* stopped engine ends its last frame within the 20 jiffies STREAMOFF waits.
Platform == NrFrames = MAX_BUFFERS /\ FrameInTime

-----------------------------------------------------------------------------
(* The invariant: what the driver and the engine are at each point of the   *)
(* object's calls.                                                          *)

cam == out_frame[Cam]

\* Where the object is agrees with the node.
NodeInv ==
    /\ ov \in {"none", "ready", "fmt", "req", "mapped", "streaming", "stopping"}
    /\ open[Cam] <=> ov # "none"
    /\ waiting[Cam] = IF ov = "stopping" THEN "streamoff" ELSE "none"
    /\ ov \in {"ready", "fmt", "req", "mapped"} => dma[Cam] = "off"
    /\ ov = "streaming" => dma[Cam] = "on"
    /\ ov = "stopping" => dma[Cam] # "on"

\* The library's controller alone has frames, from the start of the pool.
AloneInv ==
    /\ cam.out_type = "DMA"
    /\ Allocated(cam) => cam.addr[0] = DmaStart
    /\ \A d \in Ctrls : d # Cam => ~Allocated(out_frame[d])

\* The frames are of the size S_FMT set, and what the engine and the library
\* were given is the table the driver holds.
SizeInv ==
    /\ ov = "fmt" => cam.size \in Sizes
    /\ ov \in {"req", "mapped", "streaming"} =>
           Allocated(cam) /\ cam.buf_size = cam.size

MappedInv ==
    ov \in {"mapped", "streaming"} =>
        m_buffers_c = cam.addr /\ length = cam.buf_size

EngineInv ==
    dma[Cam] # "off" => /\ Allocated(cam)
                        /\ regs[Cam] = cam.addr
                        /\ target[Cam] <= cam.buf_size

OvInv == NodeInv /\ AloneInv /\ SizeInv /\ MappedInv /\ EngineInv

-----------------------------------------------------------------------------
(* The allocator, when one controller uses the pool *)

\* n frames of s pages fit in the room they need.
LEMMA RoomEnough ==
    ASSUME NEW room \in Nat, NEW s \in Nat \ {0}, NEW n \in 1..MAX_FRAMES,
           n * s <= room
    PROVE  room \div s >= n
<1> DEFINE k == room \div s
<1>1. /\ k \in Nat
      /\ room < s * k + s
  BY FramesFit
<1> HIDE DEF k
<1>2. SUFFICES ASSUME k < n PROVE FALSE
  BY <1>1 DEF k, MAX_FRAMES
<1>3. k + 1 <= n
  BY <1>1, <1>2 DEF MAX_FRAMES
<1>4. s * (k + 1) <= s * n
  BY <1>1, <1>3 DEF MAX_FRAMES
<1>5. s * (k + 1) = s * k + s /\ s * n = n * s
  BY <1>1 DEF MAX_FRAMES
<1>6. s * k \in Nat /\ n * s \in Nat
  BY <1>1 DEF MAX_FRAMES
<1> QED BY <1>1, <1>4, <1>5, <1>6

\* From an empty table and an empty pool every allocation succeeds.
LEMMA AllocAll ==
    ASSUME Platform, NEW f, GoodFrame(f), ~Allocated(f), f.out_type = "DMA",
           f.size \in Sizes
    PROVE  LET g == AllocIfNone(f, DmaStart)[1]
           IN  /\ Allocated(g) /\ g.addr[0] = DmaStart
               /\ g.buf_size = f.size /\ g.size = f.size /\ g.out_type = "DMA"
<1> DEFINE n == f.nr_frames  s == f.size  room == DmaEnd - DmaStart
           addr == [i \in Slots |-> DmaStart + (i % n) * s]
           g == [f EXCEPT !.buf_size = s, !.addr = addr]
<1>1. f \in OutFrame /\ n = 4 /\ s \in Nat \ {0}
  BY PoolAssumption DEF GoodFrame, Platform, MAX_BUFFERS
<1>2. room = DmaTotal /\ room \in Nat
  BY PoolAssumption DEF DmaEnd
<1>3. n * s <= room
  BY <1>1, <1>2, PoolHoldsFrames DEF MAX_FRAMES
<1>4. room \div s >= n
  BY <1>1, <1>2, <1>3, RoomEnough DEF MAX_FRAMES
<1>5. AllocOutput(f, DmaStart) = <<g, DmaStart + n * s>>
  BY <1>1, <1>4 DEF AllocOutput
<1>6. AllocIfNone(f, DmaStart) = AllocOutput(f, DmaStart)
  BY DEF AllocIfNone, Allocated
<1>7. addr[0] = DmaStart
  <2>1. 0 \in Slots /\ 0 % n = 0
    BY <1>1 DEF Slots, MAX_FRAMES
  <2>2. addr[0] = DmaStart + 0 * s
    BY <2>1
  <2> QED BY <1>1, <2>2, PoolAssumption
<1> HIDE DEF addr
<1>8. g.addr = addr /\ g.buf_size = s /\ g.size = s /\ g.out_type = "DMA"
  BY <1>1 DEF OutFrame
<1> HIDE DEF g, s
<1>9. AllocIfNone(f, DmaStart)[1] = g
  BY <1>5, <1>6
<1> QED BY <1>7, <1>8, <1>9, PoolAssumption DEF Allocated, NULL, s

\* A free keeps what the client chose.
LEMMA FreeKeeps ==
    ASSUME NEW f \in OutFrame, NEW current
    PROVE  /\ FreeOutput(f, current)[1].size = f.size
           /\ FreeOutput(f, current)[1].out_type = f.out_type
<1> DEFINE addr == [i \in Slots |-> IF i < f.nr_frames THEN NULL ELSE f.addr[i]]
           g == [f EXCEPT !.addr = addr, !.buf_size = 0]
<1>1. FreeOutput(f, current)[1] = g
  BY DEF FreeOutput
<1> HIDE DEF addr
<1>2. g.size = f.size /\ g.out_type = f.out_type
  BY DEF OutFrame
<1> QED BY <1>1, <1>2

\* The pool's pointer is what the library's controller holds.
LEMMA PoolOfOne ==
    ASSUME IInv, AloneInv
    PROVE  /\ dma_current = DmaStart + Held(cam)
           /\ GoodFrame(cam) /\ cam \in OutFrame /\ Held(cam) \in Nat
           /\ dma_current \in Nat /\ dma_current <= DmaEnd
           /\ DmaStart \in Nat \ {0} /\ DmaEnd \in Nat
           /\ out_frame \in [Ctrls -> OutFrame]
<1>1. Cam \in {0, 1, 2} /\ Cam \in Ctrls
  BY CamAssumption, CtrlAssumption DEF MAX_CTRLS
<1>2. GoodFrame(cam) /\ Held(cam) \in Nat
  BY <1>1, PoolBounds, HeldType DEF cam, GoodFrame
<1>3. \A d \in {0, 1, 2} : HeldBy(d) = IF d = Cam THEN Held(cam) ELSE 0
  BY <1>1 DEF HeldBy, AloneInv, Held, cam
<1>4. dma_current = DmaStart + HeldBy(0) + HeldBy(1) + HeldBy(2)
  BY DEF IInv, PoolInv, PoolExact
<1>5. DmaStart \in Nat \ {0} /\ DmaEnd \in Nat
  BY PoolAssumption DEF DmaEnd
<1>6. dma_current = DmaStart + Held(cam)
  <2>1. CASE Cam = 0
    BY <1>2, <1>3, <1>4, <1>5, <2>1
  <2>2. CASE Cam = 1
    BY <1>2, <1>3, <1>4, <1>5, <2>2
  <2>3. CASE Cam = 2
    BY <1>2, <1>3, <1>4, <1>5, <2>3
  <2> QED BY <1>1, <2>1, <2>2, <2>3
<1> QED BY <1>2, <1>5, <1>6 DEF GoodFrame, IInv, TypeOK, PoolInv

-----------------------------------------------------------------------------
(* The calls that free or allocate *)

\* S_FMT leaves the old frames when there are any.
LEMMA SFmtFrames ==
    ASSUME Platform, IInv, AloneInv, NEW s \in Sizes, SetFormat(Cam, s)
    PROVE  AloneInv' /\ cam'.size = s
<1> DEFINE f == [cam EXCEPT !.size = s]
           pair == AllocIfNone(f, dma_current)
<1>0. Cam \in Ctrls /\ s \in Nat
  BY CamAssumption, PoolAssumption
<1>1. out_frame' = [out_frame EXCEPT ![Cam] = pair[1]]
  BY DEF SetFormat, Update, cam
<1>2. GoodFrame(f) /\ f.size = s /\ f.out_type = "DMA" /\ f.addr = cam.addr
  <2>1. GoodFrame(f)
    BY <1>0, PoolOfOne, Relabel
  <2>2. cam \in OutFrame /\ cam.out_type = "DMA"
    BY PoolOfOne DEF AloneInv
  <2>3. f.size = s /\ f.out_type = "DMA" /\ f.addr = cam.addr
    BY <2>2 DEF OutFrame
  <2> QED BY <2>1, <2>3
<1> HIDE DEF f
<1>3. /\ pair[1].out_type = "DMA" /\ pair[1].size = s
      /\ Allocated(pair[1]) => pair[1].addr[0] = DmaStart
  <2>1. CASE Allocated(cam)
    <3>1. pair = <<f, dma_current>>
      BY <1>2, <2>1 DEF AllocIfNone, Allocated
    <3> QED BY <1>2, <2>1, <3>1 DEF AloneInv
  <2>2. CASE ~Allocated(cam)
    <3>1. dma_current = DmaStart
      BY <2>2, PoolOfOne DEF Held
    <3>2. ~Allocated(f)
      BY <1>2, <2>2 DEF Allocated
    <3> QED BY <1>2, <3>1, <3>2, AllocAll
  <2> QED BY <2>1, <2>2
<1> HIDE DEF pair
<1>4. \A d \in Ctrls : out_frame'[d] = IF d = Cam THEN pair[1] ELSE out_frame[d]
  BY <1>1, PoolOfOne
<1> QED BY <1>0, <1>3, <1>4 DEF AloneInv, cam

\* REQBUFS gives them back and takes frames of the new size.
LEMMA ReqbufsFrames ==
    ASSUME Platform, IInv, AloneInv, cam.size \in Sizes, ReqBufs(Cam, MAX_BUFFERS)
    PROVE  AloneInv' /\ Allocated(cam)' /\ cam'.buf_size = cam'.size
<1> DEFINE freed == IF cam.addr[0] # NULL THEN FreeOutput(cam, dma_current)
                    ELSE <<cam, dma_current>>
           pair == AllocIfNone(freed[1], freed[2])
<1>1. GoodFrame(cam) /\ cam \in OutFrame /\ cam.out_type = "DMA"
  BY PoolOfOne DEF AloneInv
<1>2. [cam EXCEPT !.nr_frames = Granted(MAX_BUFFERS)] = cam
  <2>1. Granted(MAX_BUFFERS) = NrFrames
    BY DEF Granted, MAX_BUFFERS, Platform
  <2>2. [cam EXCEPT !.nr_frames = NrFrames] = cam
    BY <1>1, Relabel
  <2> HIDE DEF cam
  <2> QED BY <2>1, <2>2
<1>3. out_frame' = [out_frame EXCEPT ![Cam] = pair[1]]
  BY <1>2 DEF ReqBufs, Update, cam
<1>4. /\ GoodFrame(freed[1]) /\ ~Allocated(freed[1])
      /\ freed[1].size = cam.size /\ freed[1].out_type = "DMA"
      /\ freed[2] = DmaStart
  <2>1. CASE Allocated(cam)
    <3>1. freed = FreeOutput(cam, dma_current)
      BY <2>1 DEF Allocated
    <3>2. Moves(cam, dma_current, freed[1], freed[2])
      BY <1>1, <3>1, FreeMoves, PoolOfOne
    <3>3. ~Allocated(freed[1])
      BY <1>1, <3>1, FreeFrame
    <3>4. freed[2] = DmaStart
      BY <3>2, <3>3, PoolOfOne DEF Moves, Held
    <3>5. freed[1].size = cam.size /\ freed[1].out_type = "DMA"
      BY <1>1, <3>1, FreeKeeps
    <3> QED BY <3>2, <3>3, <3>4, <3>5 DEF Moves
  <2>2. CASE ~Allocated(cam)
    <3>1. freed = <<cam, dma_current>>
      BY <2>2 DEF Allocated
    <3>2. dma_current = DmaStart
      BY <2>2, PoolOfOne DEF Held
    <3> QED BY <1>1, <2>2, <3>1, <3>2
  <2> QED BY <2>1, <2>2
<1> HIDE DEF freed
<1>5. /\ Allocated(pair[1]) /\ pair[1].addr[0] = DmaStart
      /\ pair[1].buf_size = pair[1].size /\ pair[1].out_type = "DMA"
  BY <1>4, AllocAll
<1> HIDE DEF pair
<1>6. \A d \in Ctrls : out_frame'[d] = IF d = Cam THEN pair[1] ELSE out_frame[d]
  BY <1>3, PoolOfOne
<1> QED BY <1>5, <1>6, CamAssumption DEF AloneInv, cam

\* STREAMOFF gives them back.
LEMMA StreamoffFrames ==
    ASSUME IInv, AloneInv, FreeAndForget(Cam)
    PROVE  AloneInv' /\ ~Allocated(cam)'
<1> DEFINE g == FreeOutput(cam, dma_current)[1]
<1>1. cam \in OutFrame /\ cam.out_type = "DMA"
  BY PoolOfOne DEF AloneInv
<1>2. out_frame' = [out_frame EXCEPT ![Cam] = g]
  BY DEF FreeAndForget, Update, cam
<1>3. ~Allocated(g) /\ g.out_type = "DMA"
  BY <1>1, FreeFrame, FreeKeeps
<1> HIDE DEF g
<1>4. \A d \in Ctrls : out_frame'[d] = IF d = Cam THEN g ELSE out_frame[d]
  BY <1>2, PoolOfOne
<1> QED BY <1>3, <1>4, CamAssumption DEF AloneInv, cam

-----------------------------------------------------------------------------
(* The steps *)

LEMMA OvInitInv == OvInit => OvInv
<1> SUFFICES ASSUME OvInit PROVE OvInv
  OBVIOUS
<1>1. Cam \in Ctrls /\ NoAddr[0] = NULL
  BY CamAssumption DEF NoAddr, Slots, MAX_FRAMES
<1>2. \A d \in Ctrls : ~Allocated(out_frame[d]) /\ out_frame[d].out_type = "DMA"
  BY <1>1 DEF OvInit, Init, Allocated
<1>3. AloneInv
  BY <1>1, <1>2 DEF AloneInv, cam
<1>4. NodeInv /\ SizeInv /\ MappedInv /\ EngineInv
  BY <1>1 DEF OvInit, Init, NodeInv, SizeInv, MappedInv, EngineInv
<1> QED BY <1>3, <1>4 DEF OvInv

\* Every step of the composition is a step of the node or leaves it alone.
LEMMA OvStepMemory ==
    ASSUME Platform, IInv, OvNext PROVE IInv'
<1>1. Cam \in Ctrls /\ Granted(MAX_BUFFERS) = NrFrames
  BY CamAssumption DEF Granted, MAX_BUFFERS, Platform
<1>2. CASE Reqbufs
  BY <1>1, <1>2, ReqBufsInv DEF Reqbufs
<1>3. CASE QuerybufMmap
  BY <1>3, StillInv DEF QuerybufMmap
<1>4. ASSUME OtherCall(Cam) PROVE IInv'
  BY <1>1, <1>4, OtherCallInv
<1>5. CASE Construct \/ SFmt \/ Streamon \/ Destroy
  BY <1>4, <1>5 DEF Construct, SFmt, Streamon, Destroy, OtherCall
<1>6. CASE Streamoff \/ StreamoffDone \/ EngineStep
  BY <1>4, <1>6 DEF Streamoff, StreamoffDone, EngineStep, OtherCall
<1> QED BY <1>2, <1>3, <1>5, <1>6 DEF OvNext

LEMMA OvStepInv == Platform /\ IInv /\ OvInv /\ [OvNext]_allVars => OvInv'
<1> SUFFICES ASSUME Platform, IInv, OvInv, [OvNext]_allVars PROVE OvInv'
  OBVIOUS
<1>1. /\ Cam \in Ctrls /\ cam \in OutFrame
      /\ NodeInv /\ AloneInv /\ SizeInv /\ MappedInv /\ EngineInv
  BY CamAssumption, PoolOfOne DEF OvInv
<1>2. /\ open \in [Ctrls -> BOOLEAN]
      /\ dma \in [Ctrls -> {"off", "on", "draining"}]
      /\ regs \in [Ctrls -> [Slots -> Nat]]
      /\ target \in [Ctrls -> Nat]
      /\ waiting \in [Ctrls -> {"none", "streamoff", "overlay", "restart"}]
  BY DEF IInv, TypeOK
<1>3. ASSUME out_frame' = out_frame PROVE AloneInv' /\ cam' = cam
  BY <1>1, <1>3 DEF AloneInv, cam
<1>4. CASE UNCHANGED allVars
  <2> USE DEF NodeInv, SizeInv, MappedInv, EngineInv, OvInv
  <2> QED BY <1>1, <1>3, <1>4 DEF allVars, vars, ovVars
<1>5. CASE Construct
  <2>1. out_frame' = out_frame /\ ov' = "ready" /\ waiting' = waiting
        /\ ov = "none"
    BY <1>5 DEF Construct, At, Open
  <2>2. open'[Cam] = TRUE /\ dma'[Cam] = "off"
    BY <1>1, <1>2, <1>5 DEF Construct, Open
  <2>3. NodeInv'
    BY <1>1, <2>1, <2>2 DEF NodeInv
  <2>4. SizeInv' /\ MappedInv' /\ EngineInv'
    BY <2>1, <2>2 DEF SizeInv, MappedInv, EngineInv
  <2> QED BY <1>3, <2>1, <2>3, <2>4 DEF OvInv
<1>6. CASE SFmt
  <2>1. /\ ov' = "fmt" /\ ov = "ready"
        /\ UNCHANGED <<open, dma, regs, target, waiting>>
    BY <1>6 DEF SFmt, At, SetFormat
  <2>2. AloneInv' /\ cam'.size \in Sizes
    BY <1>1, <1>6, SFmtFrames DEF SFmt
  <2>3. NodeInv'
    BY <1>1, <2>1 DEF NodeInv
  <2>4. SizeInv' /\ MappedInv' /\ EngineInv'
    BY <1>1, <2>1, <2>2 DEF SizeInv, MappedInv, EngineInv, NodeInv
  <2> QED BY <2>2, <2>3, <2>4 DEF OvInv
<1>7. CASE Reqbufs
  <2>1. /\ ov' = "req" /\ ov = "fmt"
        /\ UNCHANGED <<open, dma, regs, target, waiting>>
    BY <1>7 DEF Reqbufs, At, ReqBufs
  <2>2. AloneInv' /\ Allocated(cam)' /\ cam'.buf_size = cam'.size
    BY <1>1, <1>7, <2>1, ReqbufsFrames DEF Reqbufs, SizeInv
  <2>3. NodeInv'
    BY <1>1, <2>1 DEF NodeInv
  <2>4. SizeInv' /\ MappedInv' /\ EngineInv'
    BY <1>1, <2>1, <2>2 DEF SizeInv, MappedInv, EngineInv, NodeInv
  <2> QED BY <2>2, <2>3, <2>4 DEF OvInv
<1>8. CASE QuerybufMmap
  <2>1. /\ ov' = "mapped" /\ ov = "req" /\ UNCHANGED vars
        /\ m_buffers_c' = cam.addr /\ length' = cam.buf_size
    BY <1>8 DEF QuerybufMmap, At, cam
  <2>2. AloneInv' /\ cam' = cam
    BY <1>3, <2>1 DEF vars
  <2>3. NodeInv'
    BY <1>1, <2>1 DEF NodeInv, vars
  <2>4. SizeInv' /\ MappedInv' /\ EngineInv'
    BY <1>1, <2>1, <2>2 DEF SizeInv, MappedInv, EngineInv, vars
  <2> QED BY <2>2, <2>3, <2>4 DEF OvInv
<1>9. CASE Streamon
  <2>1. /\ ov' = "streaming" /\ ov = "mapped"
        /\ UNCHANGED <<out_frame, open, waiting, m_buffers_c, length>>
    BY <1>9 DEF Streamon, At, Start
  <2>2. AloneInv' /\ cam' = cam
    BY <1>3, <2>1
  <2>3. dma'[Cam] = "on" /\ target'[Cam] = cam.size /\ regs'[Cam] = cam.addr
    BY <1>1, <1>2, <1>9 DEF Streamon, Start, StartEngine, cam, AloneInv
  <2>4. NodeInv'
    BY <1>1, <2>1, <2>3 DEF NodeInv
  <2>5. Allocated(cam) /\ cam.buf_size = cam.size /\ cam.size \in Nat
    BY <1>1, <2>1 DEF SizeInv, OutFrame
  <2>6. SizeInv' /\ MappedInv' /\ EngineInv'
    BY <1>1, <2>1, <2>2, <2>3, <2>5 DEF SizeInv, MappedInv, EngineInv
  <2> QED BY <2>2, <2>4, <2>6 DEF OvInv
<1>10. CASE Streamoff
  <2>1. /\ ov' = "stopping" /\ ov \in {"ready", "streaming"}
        /\ UNCHANGED <<out_frame, open, regs, target>>
    BY <1>10 DEF Streamoff, StreamOff, Stop
  <2>2. AloneInv' /\ cam' = cam
    BY <1>3, <2>1
  <2>3. /\ waiting'[Cam] = "streamoff"
        /\ dma'[Cam] = IF dma[Cam] = "on" THEN "draining" ELSE dma[Cam]
    BY <1>1, <1>2, <1>10 DEF Streamoff, StreamOff, Stop
  <2>4. NodeInv'
    BY <1>1, <2>1, <2>3 DEF NodeInv
  <2>5. SizeInv' /\ MappedInv' /\ EngineInv'
    BY <1>1, <2>1, <2>2, <2>3 DEF SizeInv, MappedInv, EngineInv
  <2> QED BY <2>2, <2>4, <2>5 DEF OvInv
<1>11. CASE StreamoffDone
  <2>1. /\ ov' = "ready" /\ ov = "stopping" /\ UNCHANGED <<open, dma, target>>
    BY <1>11 DEF StreamoffDone, At, StreamOffDone
  <2>2. AloneInv'
    BY <1>1, <1>11, StreamoffFrames DEF StreamoffDone, StreamOffDone
  <2>3. waiting'[Cam] = "none" /\ dma[Cam] # "draining"
    BY <1>1, <1>2, <1>11 DEF StreamoffDone, StreamOffDone, Waited, Platform
  <2>4. dma'[Cam] = "off"
    BY <1>1, <1>2, <2>1, <2>3 DEF NodeInv
  <2>5. NodeInv'
    BY <1>1, <2>1, <2>3, <2>4 DEF NodeInv
  <2>6. SizeInv' /\ MappedInv' /\ EngineInv'
    BY <2>1, <2>4 DEF SizeInv, MappedInv, EngineInv
  <2> QED BY <2>2, <2>5, <2>6 DEF OvInv
<1>12. CASE Destroy
  <2>1. /\ ov' = "none" /\ open'[Cam] = FALSE /\ waiting[Cam] = "none"
        /\ UNCHANGED <<out_frame, dma, regs, target, waiting>>
    BY <1>1, <1>2, <1>12 DEF Destroy, Release, Idle
  <2>2. AloneInv' /\ cam' = cam
    BY <1>3, <2>1
  <2>3. NodeInv'
    BY <1>1, <2>1 DEF NodeInv
  <2>4. SizeInv' /\ MappedInv' /\ EngineInv'
    BY <1>1, <2>1, <2>2 DEF SizeInv, MappedInv, EngineInv
  <2> QED BY <2>2, <2>3, <2>4 DEF OvInv
<1>13. CASE EngineStep
  <2>1. /\ dma[Cam] = "draining" /\ dma'[Cam] = "off"
        /\ UNCHANGED <<out_frame, open, regs, target, waiting, ov, m_buffers_c,
                       length>>
    BY <1>1, <1>2, <1>13 DEF EngineStep, FrameEnd, ovVars
  <2>2. AloneInv' /\ cam' = cam
    BY <1>3, <2>1
  <2>3. NodeInv'
    BY <1>1, <2>1 DEF NodeInv
  <2>4. SizeInv' /\ MappedInv' /\ EngineInv'
    BY <1>1, <2>1, <2>2 DEF SizeInv, MappedInv, EngineInv
  <2> QED BY <2>2, <2>3, <2>4 DEF OvInv
<1> QED BY <1>4, <1>5, <1>6, <1>7, <1>8, <1>9, <1>10, <1>11, <1>12, <1>13
        DEF OvNext

\* A full table: the frames fill the part of the pool that is taken.
LEMMA CamFrames ==
    ASSUME IInv, AloneInv, Allocated(cam)
    PROVE  FramesApart(cam) /\ \A i \in Slots : cam.addr[i] # NULL
<1> DEFINE n == cam.nr_frames  s == cam.buf_size
<1>1. /\ GoodFrame(cam) /\ n \in 1..MAX_FRAMES /\ s \in Nat
      /\ dma_current = DmaStart + n * s /\ dma_current <= DmaEnd
      /\ DmaStart \in Nat \ {0}
  BY PoolOfOne DEF OutFrame, Held
<1>2. \A i \in Slots : cam.addr[i] = DmaStart + (i % n) * s
  BY <1>1 DEF GoodFrame, Filled, AloneInv
<1>3. n * s \in Nat
  BY <1>1, Times
<1> HIDE DEF n, s
<1>4. ASSUME NEW i \in Slots
      PROVE  /\ Within(cam.addr[i], s, DmaStart, dma_current)
             /\ cam.addr[i] # NULL
  <2>1. i % n \in 0..(n - 1)
    BY <1>1, SlotFrame
  <2>2. (i % n) * s \in Nat /\ (i % n) * s + s <= n * s
    BY <1>1, <2>1 DEF MAX_FRAMES
  <2> QED BY <1>1, <1>2, <1>3, <2>2 DEF Within, NULL
<1>5. ASSUME NEW i \in Slots, NEW j \in Slots, i < j, j < n
      PROVE  cam.addr[i] + s <= cam.addr[j]
  <2>1. i % n = i /\ j % n = j /\ i \in 0..3 /\ j \in 0..3
    <3>1. i < n
      BY <1>1, <1>5 DEF Slots, MAX_FRAMES
    <3> QED BY <1>1, <1>5, <3>1, SlotFrame
  <2>2. i * s + s <= j * s /\ i * s \in Nat /\ j * s \in Nat
    BY <1>1, <1>5, <2>1
  <2>3. cam.addr[i] = DmaStart + i * s /\ cam.addr[j] = DmaStart + j * s
    BY <1>2, <2>1
  <2> QED BY <1>1, <2>2, <2>3
<1> QED BY <1>1, <1>4, <1>5 DEF FramesApart, n, s

-----------------------------------------------------------------------------
(* The theorems *)

\* The invariant holds in every reachable state.
THEOREM OvInductive ==
    ASSUME Platform PROVE OvSpec => [](IInv /\ OvInv)
<1>1. OvInit => IInv /\ OvInv
  BY InitInv, OvInitInv DEF OvInit
<1>2. IInv /\ OvInv /\ [OvNext]_allVars => IInv' /\ OvInv'
  <2>1. IInv /\ UNCHANGED allVars => IInv'
    BY StillInv DEF allVars
  <2> QED BY <2>1, OvStepMemory, OvStepInv
<1> QED BY <1>1, <1>2, PTL DEF OvSpec

\* The engine writes only frames the driver holds, and its frame fits them,
\* whatever sizes the previews have and wherever the process dies.
THEOREM EngineConfined ==
    ASSUME Platform PROVE OvSpec => []EngineInOwnFrames
<1>1. IInv /\ OvInv => EngineInOwnFrames
  BY CamFrames DEF OvInv, EngineInv, EngineInOwnFrames, cam
<1> QED BY <1>1, OvInductive, PTL

\* Every buffer index DQBUF may return names a mapping of a frame the engine
\* writes, as long as the library's copy of it.
THEOREM GrabsWholeFrames ==
    ASSUME Platform PROVE OvSpec => []GrabReadsFrame
<1>1. IInv /\ OvInv => GrabReadsFrame
  <2> SUFFICES ASSUME IInv, OvInv, ov = "streaming",
                      NEW i \in Slots
               PROVE  /\ m_buffers_c[i] = regs[Cam][i]
                      /\ m_buffers_c[i] # NULL
                      /\ target[Cam] <= length
    BY DEF GrabReadsFrame
  <2>1. dma[Cam] = "on"
    BY DEF OvInv, NodeInv
  <2>2. Allocated(cam) /\ regs[Cam] = cam.addr /\ target[Cam] <= cam.buf_size
    BY <2>1 DEF OvInv, EngineInv
  <2>3. m_buffers_c = cam.addr /\ length = cam.buf_size
    BY DEF OvInv, MappedInv
  <2>4. cam.addr[i] # NULL
    BY <2>2, CamFrames DEF OvInv
  <2> QED BY <2>2, <2>3, <2>4
<1> QED BY <1>1, OvInductive, PTL
===============================================================================
