--------------------------- MODULE MCCameraPhoto ---------------------------
EXTENDS CameraPhoto, TLC

\* Slots are interchangeable: the code takes any free one.
SlotSymmetry == Permutations(Slots)
=============================================================================
