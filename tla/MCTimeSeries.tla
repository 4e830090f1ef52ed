---------------------------- MODULE MCTimeSeries ----------------------------
(* A series alone, for TLC. *)
EXTENDS TimeSeries

MCReadings == {-1, 2}
=============================================================================
