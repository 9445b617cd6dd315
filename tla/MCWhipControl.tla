---------------------------- MODULE MCWhipControl ----------------------------
EXTENDS WhipControlInv
=============================================================================
