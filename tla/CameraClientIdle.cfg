CONSTANTS
    Shots = {s1}
    Sizes = {640}
    Size0 = 640
SPECIFICATION Spec
INVARIANT IdleAtTeardown
