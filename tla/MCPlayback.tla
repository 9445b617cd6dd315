------------------------------ MODULE MCPlayback ------------------------------
EXTENDS Playback, TLC

\* A reply in the first session fills every buffer; a packet of the second is
\* enough to tell the sessions apart.
SentOnce == <<3, 1>>
=============================================================================
