-------------------------- MODULE MCBufferedTracking --------------------------
(* Small instances of BufferedTracking for TLC.                            *)
EXTENDS BufferedTracking

CONSTANTS b1, b2, b3, h1, h2
=============================================================================
