--------------------------- MODULE MCCommandQueue ---------------------------
(* Small instances of CommandQueue for TLC. *)
EXTENDS CommandQueue, TLC

MCRetryInputs == {-1, 0}      \* -1 is normalised to 3
=============================================================================
