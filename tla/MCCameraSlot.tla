----------------------------- MODULE MCCameraSlot -----------------------------
\* CameraSlot for TLC: applications are alike, and so are client objects.
EXTENDS CameraSlot, TLC

SlotSymmetry == Permutations(Apps) \cup Permutations(Objs)
=============================================================================
