CONSTANTS
    Apps = {a1, a2}
    Objs = {o1}
    Hal = Hal
    Nobody = Nobody
    NoObj = NoObj
SPECIFICATION FairSpec
PROPERTIES CameraFreed
