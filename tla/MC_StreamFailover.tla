--------------------------- MODULE MC_StreamFailover ---------------------------
\* A stream of the channel and the custom fallback behind it.
EXTENDS StreamFailover
CONSTANTS s1, fallback
=============================================================================
