CONSTANTS
    Ctrls = {0}
    DmaStart = 1
    DmaTotal = 9
    Sizes = {1, 2}
    Counts = {4}
    NrControls = {3}
    NrFrames = 4
    LcdCtrls = {0}
    SharedIo = TRUE
    FrameInTime = TRUE
SPECIFICATION Spec
INVARIANTS NrFramesUsed
