CONSTANTS
    LineLength = 640
    Envs <- Clients
SPECIFICATION Spec
INVARIANTS TypeOK ZoomConserved ScalerInRange CaptureFollowsPaths QuietAfterStop
    SourceAgrees BurstsTile InputPlanesFit
PROPERTIES ZoomKeepsPicture
