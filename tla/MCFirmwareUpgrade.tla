------------------------- MODULE MCFirmwareUpgrade -------------------------
(* Small instances of FirmwareUpgrade for TLC. *)
EXTENDS FirmwareUpgrade, TLC

MCTargets == {"running", "completed"}
MCConcurrency == {0}                  \* normalised to 1
Symmetry == Permutations(Callers) \cup Permutations(Devices)
=============================================================================
