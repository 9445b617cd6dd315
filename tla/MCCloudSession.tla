--------------------------- MODULE MCCloudSession ---------------------------
EXTENDS CloudSession
=============================================================================
