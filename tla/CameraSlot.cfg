CONSTANTS
    Apps = {a1, a2}
    Objs = {o1, o2}
    Hal = Hal
    Nobody = Nobody
    NoObj = NoObj
SYMMETRY SlotSymmetry
SPECIFICATION Spec
INVARIANTS TypeOK OneHardware SlotFollowsHardware LocksOrdered SoundsCounted
PROPERTIES OwnerTearsDown
