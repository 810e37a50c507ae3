CONSTANTS
    Ctrls = {0, 1}
    DmaStart = 1
    DmaTotal = 11
    Sizes = {1, 2}
    Counts = {5}
    NrControls = {4}
    NrFrames = 4
    LcdCtrls = {0}
    SharedIo = TRUE
    FrameInTime = TRUE
SPECIFICATION Spec
INVARIANTS TypeOK PoolExact AllFramesApart
