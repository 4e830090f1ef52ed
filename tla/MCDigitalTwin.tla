--------------------------- MODULE MCDigitalTwin ---------------------------
(* Small instances of DigitalTwin for TLC. *)
EXTENDS DigitalTwin, TLC

WriterSymmetry == Permutations(Writers)
=============================================================================
