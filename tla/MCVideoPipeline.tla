-------------------------- MODULE MCVideoPipeline --------------------------
EXTENDS VideoPipeline
=============================================================================
