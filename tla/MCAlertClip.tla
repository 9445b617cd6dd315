------------------------------ MODULE MCAlertClip ------------------------------
EXTENDS AlertClip, TLC
=============================================================================
