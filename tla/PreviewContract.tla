---------------------------- MODULE PreviewContract ----------------------------
(***************************************************************************)
(* What the preview of a camera client promises its application            *)
(* (CameraService::Client::startPreview and stopPreview): a frame is taken *)
(* up for display only while the preview is on, and none is being shown    *)
(* when the preview is off again.                                          *)
(***************************************************************************)
VARIABLES preview,  \* "off", "on" or "stopping"
          frame     \* "none", or "shown" while one is shown or delivered

contractVars == <<preview, frame>>

Init == preview = "off" /\ frame = "none"

Start == preview = "off" /\ preview' = "on" /\ frame = "none" /\ UNCHANGED frame

Show == preview = "on" /\ frame = "none" /\ frame' = "shown" /\ UNCHANGED preview

Shown == frame = "shown" /\ frame' = "none" /\ UNCHANGED preview

\* From here on no further frame is taken up.
Stop == preview = "on" /\ preview' = "stopping" /\ UNCHANGED frame

\* The call that stops the preview waits for the last frame.
Stopped ==
    /\ preview = "stopping" /\ preview' = "off"
    /\ frame = "none" /\ UNCHANGED frame

\* The process of the service is started again.
Restart == preview' = "off" /\ frame' = "none"

Next == Start \/ Show \/ Shown \/ Stop \/ Stopped \/ Restart

Spec == Init /\ [][Next]_contractVars
=============================================================================
