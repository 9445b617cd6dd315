--------------------------- MODULE MCVoiceControl ---------------------------
EXTENDS VoiceControlInv, VoiceRefinement
=============================================================================
