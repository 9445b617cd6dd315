--------------------------- MODULE MCCloudDownlink --------------------------
EXTENDS CloudDownlink
=============================================================================
