----------------------------- MODULE DigitalTwin -----------------------------
(***************************************************************************)
(* The twin documents: internal/twin.  UpdateDesired is called by HTTP     *)
(* handlers, UpdateReported by HTTP handlers and by every telemetry worker *)
(* for an attribute change.  Both load the whole document, merge the patch *)
(* into their half of the copy, count the version up and save the whole    *)
(* copy in a later step; nothing excludes two updates of one device.       *)
(*                                                                         *)
(* Abstractions.  A state map is flat: a value or Unset for every property *)
(* (nested maps: see TwinMerge).  UpdatedAt is left out.  EnsureInitialized *)
(* has no caller in the program and is left out.                           *)
(***************************************************************************)
EXTENDS Naturals

CONSTANTS
    Writers,      \* concurrent calls: handlers and telemetry workers
    Devices,
    Props,        \* top-level properties of the state maps
    Values,
    Unset,        \* a property that is absent from a map
    NoDoc,        \* no document stored; also: no copy held
    Driver,       \* "memory" or "postgres"
    MaxVersion    \* BOUND: no update starts from a document this old

State == [Props -> Values \cup {Unset}]
Blank == [p \in Props |-> Unset]
Doc == [desired : State, reported : State, version : Nat]
Halves == {"desired", "reported"}

ASSUME DigitalTwinAssumption ==
    /\ Unset \notin Values
    /\ NoDoc \notin Doc
    /\ Driver \in {"memory", "postgres"}
    /\ MaxVersion \in Nat

VARIABLES
    docs,         \* the repository
    call,         \* the update each writer is about to save
    produced      \* history: the desired states UpdateDesired has computed

vars == <<docs, call, produced>>

Idle == [half |-> "none"]
Update == [half : Halves, device : Devices, base : Doc, doc : Doc]

TypeOK ==
    /\ docs \in [Devices -> Doc \cup {NoDoc}]
    /\ call \in [Writers -> {Idle} \cup Update]
    /\ produced \in [Devices -> SUBSET State]

NewDoc == [desired |-> Blank, reported |-> Blank, version |-> 0]

\* Service.Get: a device without a document has an empty one.
Get(d) == IF docs[d] = NoDoc THEN NewDoc ELSE docs[d]

Merged(base, patch) == [p \in Props |-> IF patch[p] = Unset THEN base[p] ELSE patch[p]]

Init ==
    /\ docs = [d \in Devices |-> NoDoc]
    /\ call = [w \in Writers |-> Idle]
    /\ produced = [d \in Devices |-> {Blank}]

WithDesired(doc, patch) ==
    [doc EXCEPT !.desired = Merged(@, patch), !.version = @ + 1]

\* Definitions named M_... are plausible bugs; each must break a property.
M_ReportedIntoDesired(doc, patch) ==
    [doc EXCEPT !.desired = Merged(@, patch), !.version = @ + 1]
M_ReportedFillsDesired(doc, patch) ==
    [doc EXCEPT !.desired = Merged(patch, @), !.reported = Merged(@, patch), !.version = @ + 1]

WithReported(doc, patch) ==
    [doc EXCEPT !.reported = Merged(@, patch), !.version = @ + 1]

UpdateDesired(w, d, patch) ==
    /\ call[w] = Idle
    /\ Get(d).version < MaxVersion
    /\ LET new == WithDesired(Get(d), patch)
       IN  /\ call' = [call EXCEPT ![w] = [half |-> "desired", device |-> d,
                                           base |-> Get(d), doc |-> new]]
           /\ produced' = [produced EXCEPT ![d] = @ \cup {new.desired}]
    /\ UNCHANGED docs

UpdateReported(w, d, patch) ==
    /\ call[w] = Idle
    /\ Get(d).version < MaxVersion
    /\ call' = [call EXCEPT ![w] = [half |-> "reported", device |-> d, base |-> Get(d),
                                    doc |-> WithReported(Get(d), patch)]]
    /\ UNCHANGED <<docs, produced>>

\* The whole document is overwritten, whatever is stored by now.
Save(w) ==
    /\ call[w] # Idle
    /\ docs' = [docs EXCEPT ![call[w].device] = call[w].doc]
    /\ call' = [call EXCEPT ![w] = Idle]
    /\ UNCHANGED produced

\* PostgreSQL reports an error and has stored nothing.  (An error after the
\* commit looks like Save: the answer is not part of the state.)
SaveFails(w) ==
    /\ Driver = "postgres"
    /\ call[w] # Idle
    /\ call' = [call EXCEPT ![w] = Idle]
    /\ UNCHANGED <<docs, produced>>

Delete(w, d) ==
    /\ call[w] = Idle
    /\ docs' = [docs EXCEPT ![d] = NoDoc]
    /\ UNCHANGED <<call, produced>>

Next ==
    \E w \in Writers :
        \/ Save(w)
        \/ SaveFails(w)
        \/ \E d \in Devices :
             \/ Delete(w, d)
             \/ \E patch \in State : UpdateDesired(w, d, patch) \/ UpdateReported(w, d, patch)

Spec == Init /\ [][Next]_vars

-----------------------------------------------------------------------------
(* Properties *)

\* Whatever updates overlap, a stored desired state is one that UpdateDesired
\* computed for this device (or the initial one): a report may bring an older
\* one back but never invents one.
DesiredProvenance ==
    \A d \in Devices : docs[d] # NoDoc => docs[d].desired \in produced[d]

\* A save whose document nobody changed since it was loaded changes its own
\* half only and counts the version up by one: what is lost is lost to an
\* overlap.
FreshSavesAreExact ==
    [][\A w \in Writers :
         call[w] # Idle /\ Save(w) /\ call[w].base = Get(call[w].device) =>
           LET d == call[w].device
           IN  /\ docs'[d].version = Get(d).version + 1
               /\ call[w].half = "reported" => docs'[d].desired = Get(d).desired
               /\ call[w].half = "desired" => docs'[d].reported = Get(d).reported]_vars

\* A report is merged into the reported half only: saving it leaves the
\* desired state as it is stored.
ReportsKeepDesired ==
    [][\A w \in Writers :
         call[w] # Idle /\ Save(w) /\ call[w].half = "reported" =>
           docs'[call[w].device].desired = Get(call[w].device).desired]_vars

\* Requests served one at a time implement the two registers.
Registers == INSTANCE TwinRegisters WITH
    desired <- [d \in Devices |-> Get(d).desired],
    reported <- [d \in Devices |-> Get(d).reported]
RegistersImplemented == Registers!Spec
==============================================================================
