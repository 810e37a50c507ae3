CONSTANTS
    Ctrls = {0}
    Cam = 0
    DmaStart = 1
    DmaTotal = 12
    Sizes = {1, 2, 3}
    Counts = {4}
    NrControls = {}
    NrFrames = 4
    LcdCtrls = {}
    SharedIo = TRUE
    FrameInTime = TRUE
SPECIFICATION OvSpec
INVARIANTS EngineInOwnFrames GrabReadsFrame
