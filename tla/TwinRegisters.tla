--------------------------- MODULE TwinRegisters ---------------------------
(***************************************************************************)
(* What a digital twin promises (README.md: desired and reported state are *)
(* separate; reports never overwrite the server's desired state): two      *)
(* independent registers per device, each changed only by merging a patch  *)
(* into its current content, and forgotten together.                       *)
(***************************************************************************)
CONSTANTS Devices, Props, Values, Unset

VARIABLES desired, reported

vars == <<desired, reported>>

State == [Props -> Values \cup {Unset}]
Blank == [p \in Props |-> Unset]

Merged(base, patch) == [p \in Props |-> IF patch[p] = Unset THEN base[p] ELSE patch[p]]

Init == /\ desired = [d \in Devices |-> Blank]
        /\ reported = [d \in Devices |-> Blank]

SetDesired(d, patch) ==
    /\ desired' = [desired EXCEPT ![d] = Merged(desired[d], patch)]
    /\ UNCHANGED reported

SetReported(d, patch) ==
    /\ reported' = [reported EXCEPT ![d] = Merged(reported[d], patch)]
    /\ UNCHANGED desired

Forget(d) ==
    /\ desired' = [desired EXCEPT ![d] = Blank]
    /\ reported' = [reported EXCEPT ![d] = Blank]

Next == \E d \in Devices : \/ Forget(d)
                           \/ \E patch \in State : SetDesired(d, patch) \/ SetReported(d, patch)

Spec == Init /\ [][Next]_vars
============================================================================
