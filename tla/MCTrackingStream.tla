--------------------------- MODULE MCTrackingStream ---------------------------
(* Small instances of TrackingStream for TLC.                              *)
EXTENDS TrackingStream

CONSTANTS b1, b2, w1, w2, h1

\* Each worker process has its own consumer name.
OwnConsumer == [w \in Workers |-> w]

\* get_tracking_storage built two workers in one process: one consumer name.
SharedConsumer == [w \in Workers |-> "consumer"]
=============================================================================
