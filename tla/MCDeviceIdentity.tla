------------------------- MODULE MCDeviceIdentity --------------------------
(* Small instances of DeviceIdentity for TLC. *)
EXTENDS DeviceIdentity, TLC

OperatorSymmetry == Permutations(Operators)
=============================================================================
