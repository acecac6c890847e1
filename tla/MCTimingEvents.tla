--------------------------- MODULE MCTimingEvents ---------------------------
(* Model values for the runs of TimingEvents.                              *)
EXTENDS TimingEvents
CONSTANTS a, b, c
=============================================================================
