CONSTANTS
    Procs = {p1, p2}
    NoProc = NoProc
    SharedIo = TRUE
SPECIFICATION FairSpec
INVARIANTS TypeOK ExclusiveOpen StreamArmed QuietWhenOff StaleFrameOnce
PROPERTIES ServesOneOwner WaiterServed
