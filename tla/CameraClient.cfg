CONSTANTS
    Shots = {s1}
    Sizes = {320, 640}
    Size0 = 640
SPECIFICATION FairSpec
INVARIANTS TypeOK PostsToOwnHeap PreviewEndedAtTeardown
PROPERTIES KeepsContract StopReturns HardwareReleased
