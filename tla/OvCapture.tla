------------------------------ MODULE OvCapture ------------------------------
(***************************************************************************)
(* The Ov965xCamera object (Ov965xCamera.cpp) driving the FIMC node: the   *)
(* composition of FimcMemory with the client the system has.  The object   *)
(* opens the node in its constructor, sets a format, asks for MAX_BUFFERS  *)
(* buffers, maps them and streams each time the preview starts, copies     *)
(* frames out of the mappings, and closes the node in its destructor or    *)
(* when its process dies, at any point between two calls.                  *)
(***************************************************************************)
EXTENDS FimcMemory

CONSTANT Cam        \* the controller behind /dev/video0

ASSUME CamAssumption == Cam \in Ctrls
\* The reserved memory is large enough for the largest preview.
ASSUME PoolHoldsFrames == \A s \in Sizes : MAX_FRAMES * s <= DmaTotal

VARIABLES
    ov,             \* where the object is in its calls
    m_buffers_c,    \* the start of each mapping it made
    length          \* the pages of each mapping

ovVars == <<ov, m_buffers_c, length>>
allVars == <<vars, ovVars>>

MAX_BUFFERS == 4

OvInit ==
    /\ Init
    /\ ov = "none"
    /\ m_buffers_c = NoAddr
    /\ length = 0

At(from, to) == ov = from /\ ov' = to

\* The constructor: open("/dev/video0").
Construct ==
    /\ At("none", "ready")
    /\ Open(Cam)
    /\ UNCHANGED <<m_buffers_c, length>>

\* startPreview: VIDIOC_S_FMT with the preview size ...
SFmt ==
    /\ At("ready", "fmt")
    /\ \E s \in Sizes : SetFormat(Cam, s)
    /\ UNCHANGED <<m_buffers_c, length>>

\* ... VIDIOC_REQBUFS, which reports success whatever was allocated ...
Reqbufs ==
    /\ At("fmt", "req")
    /\ ReqBufs(Cam, MAX_BUFFERS)
    /\ UNCHANGED <<m_buffers_c, length>>

\* ... VIDIOC_QUERYBUF and mmap of each buffer, qbuf being empty ...
QuerybufMmap ==
    /\ At("req", "mapped")
    /\ Idle(Cam)
    /\ m_buffers_c' = out_frame[Cam].addr
    /\ length' = out_frame[Cam].buf_size
    /\ UNCHANGED vars

\* ... and VIDIOC_STREAMON.
Streamon ==
    /\ At("mapped", "streaming")
    /\ Start(Cam)
    /\ UNCHANGED <<m_buffers_c, length>>

\* stopPreview, called when no preview runs too.
Streamoff ==
    /\ ov \in {"ready", "streaming"}
    /\ ov' = "stopping"
    /\ StreamOff(Cam)
    /\ UNCHANGED <<m_buffers_c, length>>

StreamoffDone ==
    /\ At("stopping", "ready")
    /\ StreamOffDone(Cam)
    /\ UNCHANGED <<m_buffers_c, length>>

\* The destructor, or the death of the process: the kernel closes the node.
Destroy ==
    /\ ov # "none"
    /\ ov' = "none"
    /\ Release(Cam)
    /\ UNCHANGED <<m_buffers_c, length>>

EngineStep == FrameEnd(Cam) /\ UNCHANGED ovVars

OvNext ==
    \/ Construct \/ SFmt \/ Reqbufs \/ QuerybufMmap \/ Streamon
    \/ Streamoff \/ StreamoffDone \/ Destroy \/ EngineStep

OvSpec == OvInit /\ [][OvNext]_allVars

-----------------------------------------------------------------------------
\* The engine writes only frames the driver holds, and its frame fits them: from
\* STREAMON to the end of the last frame, through STREAMOFF, which frees them,
\* and through the death of the process, after which nothing stops the engine
\* until the node is opened again.
EngineInOwnFrames ==
    dma[Cam] # "off" =>
        /\ Allocated(out_frame[Cam])
        /\ regs[Cam] = out_frame[Cam].addr
        /\ target[Cam] <= out_frame[Cam].buf_size
        /\ FramesApart(out_frame[Cam])

\* Whichever buffer index VIDIOC_DQBUF returns (the hardware's frame count, never
\* compared with nr_frames), getNextFrameAsRgb565 copies a whole frame from a
\* mapping of the very frame the engine wrote.
GrabReadsFrame ==
    ov = "streaming" =>
        \A i \in Slots : /\ m_buffers_c[i] = regs[Cam][i]
                         /\ m_buffers_c[i] # NULL
                         /\ target[Cam] <= length
=============================================================================
