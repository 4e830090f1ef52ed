-------------------------- MODULE DigitalTwinProofs --------------------------
(***************************************************************************)
(* Theorems about DigitalTwin for every set of writers, devices,           *)
(* properties and values.  The invariant says what an update holds: the    *)
(* document it loaded with a patch merged into its own half.               *)
(***************************************************************************)
EXTENDS DigitalTwin, TLAPS

Copy(u) == \E patch \in State :
    u.doc = IF u.half = "desired" THEN WithDesired(u.base, patch)
                                  ELSE WithReported(u.base, patch)

CopiesArePatched == \A w \in Writers : call[w] # Idle => Copy(call[w])

HeldProvenance ==
    /\ \A d \in Devices : Blank \in produced[d]
    /\ \A w \in Writers : call[w] # Idle =>
         call[w].doc.desired \in produced[call[w].device]

IInv == TypeOK /\ CopiesArePatched /\ DesiredProvenance /\ HeldProvenance

-----------------------------------------------------------------------------
LEMMA BlankIsState == Blank \in State
BY DEF Blank, State

LEMMA MergedIsState ==
    ASSUME NEW base \in State, NEW patch \in State
    PROVE  Merged(base, patch) \in State
BY DEF Merged, State

\* Each update leaves the other half alone and counts up by one.
LEMMA PatchedDoc ==
    ASSUME NEW doc \in Doc, NEW patch \in State
    PROVE  /\ WithDesired(doc, patch) \in Doc
           /\ WithDesired(doc, patch).reported = doc.reported
           /\ WithDesired(doc, patch).desired = Merged(doc.desired, patch)
           /\ WithDesired(doc, patch).version = doc.version + 1
           /\ WithReported(doc, patch) \in Doc
           /\ WithReported(doc, patch).desired = doc.desired
           /\ WithReported(doc, patch).reported = Merged(doc.reported, patch)
           /\ WithReported(doc, patch).version = doc.version + 1
<1>1. doc.desired \in State /\ doc.reported \in State /\ doc.version + 1 \in Nat
  BY DEF Doc
<1>2. Merged(doc.desired, patch) \in State /\ Merged(doc.reported, patch) \in State
  BY <1>1, MergedIsState
<1> QED BY <1>1, <1>2 DEF WithDesired, WithReported, Doc

LEMMA GetIsDoc == ASSUME TypeOK, NEW d \in Devices PROVE Get(d) \in Doc
BY BlankIsState DEF TypeOK, Get, NewDoc, Doc

LEMMA HeldUpdate ==
    ASSUME TypeOK, NEW w \in Writers, call[w] # Idle
    PROVE  /\ call[w] \in Update
           /\ call[w].half \in Halves /\ call[w].device \in Devices
           /\ call[w].base \in Doc /\ call[w].doc \in Doc
BY DEF TypeOK, Update

LEMMA InvInit == Init => IInv
BY BlankIsState DEF Init, IInv, TypeOK, CopiesArePatched, DesiredProvenance, HeldProvenance

LEMMA InvStep == IInv /\ [Next]_vars => IInv'
<1> SUFFICES ASSUME IInv, [Next]_vars PROVE IInv'
  OBVIOUS
<1> USE DEF IInv
<1>1. ASSUME NEW w \in Writers, NEW d \in Devices, NEW patch \in State,
             UpdateDesired(w, d, patch)
      PROVE  IInv'
  <2> DEFINE u == [half |-> "desired", device |-> d, base |-> Get(d),
                   doc |-> WithDesired(Get(d), patch)]
  <2>1. Get(d) \in Doc
    BY GetIsDoc
  <2>2. u \in Update /\ u.doc.desired \in State
    BY <2>1, PatchedDoc, MergedIsState DEF Update, Halves, Doc
  <2>3. /\ call' = [call EXCEPT ![w] = u] /\ docs' = docs
        /\ produced' = [produced EXCEPT ![d] = @ \cup {u.doc.desired}]
    BY <1>1 DEF UpdateDesired
  <2>4. Copy(u)
    BY DEF Copy
  <2>5. u.device = d
    OBVIOUS
  <2> HIDE DEF u
  <2>6. TypeOK'
    BY <2>2, <2>3 DEF TypeOK
  <2>7. CopiesArePatched'
    BY <2>3, <2>4 DEF TypeOK, CopiesArePatched
  <2>8. \A e \in Devices : produced[e] \subseteq produced'[e]
    BY <2>3 DEF TypeOK
  <2>9. DesiredProvenance'
    BY <2>3, <2>8 DEF DesiredProvenance
  <2>10. HeldProvenance'
    <3>1. u.doc.desired \in produced'[u.device]
      BY <2>3, <2>5 DEF TypeOK
    <3>2. \A v \in Writers : call[v] # Idle => call[v].device \in Devices
      BY HeldUpdate
    <3>3. \A v \in Writers : call'[v] = IF v = w THEN u ELSE call[v]
      BY <2>3 DEF TypeOK
    <3> QED BY <2>8, <3>1, <3>2, <3>3 DEF HeldProvenance
  <2> QED BY <2>6, <2>7, <2>9, <2>10
<1>2. ASSUME NEW w \in Writers, NEW d \in Devices, NEW patch \in State,
             UpdateReported(w, d, patch)
      PROVE  IInv'
  <2> DEFINE u == [half |-> "reported", device |-> d, base |-> Get(d),
                   doc |-> WithReported(Get(d), patch)]
  <2>1. Get(d) \in Doc
    BY GetIsDoc
  <2>2. u \in Update /\ u.doc.desired = Get(d).desired
    BY <2>1, PatchedDoc DEF Update, Halves
  <2>3. call' = [call EXCEPT ![w] = u] /\ docs' = docs /\ produced' = produced
    BY <1>2 DEF UpdateReported
  <2>4. Copy(u)
    BY DEF Copy
  <2>5. u.doc.desired \in produced[d]
    BY <2>2 DEF Get, NewDoc, DesiredProvenance, HeldProvenance
  <2>6. u.device = d
    OBVIOUS
  <2> HIDE DEF u
  <2>7. TypeOK'
    BY <2>2, <2>3 DEF TypeOK
  <2>8. CopiesArePatched' /\ HeldProvenance'
    BY <2>3, <2>4, <2>5, <2>6 DEF TypeOK, CopiesArePatched, HeldProvenance
  <2> QED BY <2>3, <2>7, <2>8 DEF DesiredProvenance
<1>3. ASSUME NEW w \in Writers, Save(w) PROVE IInv'
  <2>1. call[w].device \in Devices /\ call[w].doc \in Doc
    BY <1>3, HeldUpdate DEF Save
  <2>2. /\ docs' = [docs EXCEPT ![call[w].device] = call[w].doc]
        /\ call' = [call EXCEPT ![w] = Idle] /\ produced' = produced
        /\ call[w].doc.desired \in produced[call[w].device]
    BY <1>3 DEF Save, HeldProvenance
  <2>3. TypeOK'
    BY <2>1, <2>2 DEF TypeOK
  <2>4. DesiredProvenance'
    BY <2>1, <2>2 DEF DesiredProvenance, TypeOK
  <2> QED BY <2>2, <2>3, <2>4 DEF TypeOK, CopiesArePatched, HeldProvenance
<1>4. ASSUME NEW w \in Writers, SaveFails(w) PROVE IInv'
  BY <1>4 DEF SaveFails, TypeOK, CopiesArePatched, DesiredProvenance, HeldProvenance
<1>5. ASSUME NEW w \in Writers, NEW d \in Devices, Delete(w, d) PROVE IInv'
  BY <1>5 DEF Delete, TypeOK, CopiesArePatched, DesiredProvenance, HeldProvenance
<1>6. CASE UNCHANGED vars
  BY <1>6 DEF vars, TypeOK, CopiesArePatched, DesiredProvenance, HeldProvenance
<1> QED BY <1>1, <1>2, <1>3, <1>4, <1>5, <1>6 DEF Next

THEOREM Invariance == Spec => []IInv
BY InvInit, InvStep, PTL DEF Spec

\* A stored desired state is always one UpdateDesired computed.
THEOREM DesiredIsNeverInvented == Spec => []DesiredProvenance
BY Invariance, PTL DEF IInv

\* Only an overlap loses an update: a save over an unchanged document changes
\* its own half and the version, for any number of concurrent writers.
THEOREM FreshSaves == Spec => FreshSavesAreExact
<1>1. ASSUME IInv, NEW w \in Writers, call[w] # Idle, Save(w),
             call[w].base = Get(call[w].device)
      PROVE  LET d == call[w].device
             IN  /\ docs'[d].version = Get(d).version + 1
                 /\ call[w].half = "reported" => docs'[d].desired = Get(d).desired
                 /\ call[w].half = "desired" => docs'[d].reported = Get(d).reported
  <2>1. call[w].device \in Devices /\ call[w].base \in Doc
    BY <1>1, HeldUpdate DEF IInv
  <2>2. docs'[call[w].device] = call[w].doc
    BY <1>1, <2>1 DEF IInv, TypeOK, Save
  <2>3. PICK patch \in State :
          call[w].doc = IF call[w].half = "desired" THEN WithDesired(call[w].base, patch)
                                                    ELSE WithReported(call[w].base, patch)
    BY <1>1 DEF IInv, CopiesArePatched, Copy
  <2>4. call[w].half \in Halves
    BY <1>1, HeldUpdate DEF IInv
  <2> QED BY <1>1, <2>1, <2>2, <2>3, <2>4, PatchedDoc DEF Halves
<1>2. IInv => [\A w \in Writers :
         call[w] # Idle /\ Save(w) /\ call[w].base = Get(call[w].device) =>
           LET d == call[w].device
           IN  /\ docs'[d].version = Get(d).version + 1
               /\ call[w].half = "reported" => docs'[d].desired = Get(d).desired
               /\ call[w].half = "desired" => docs'[d].reported = Get(d).reported]_vars
  BY <1>1
<1> QED BY <1>2, Invariance, PTL DEF FreshSavesAreExact

-----------------------------------------------------------------------------
(* Requests served one at a time implement the abstract registers. *)

AbstractDesired == [d \in Devices |-> Get(d).desired]
AbstractReported == [d \in Devices |-> Get(d).reported]

\* Nobody but the writer itself changes what it has loaded.
BaseIsCurrent == \A w \in Writers : call[w] # Idle => call[w].base = Get(call[w].device)

LEMMA SerialStep ==
    ASSUME \A v, w \in Writers : v = w
    PROVE  IInv /\ BaseIsCurrent /\ [Next]_vars =>
             BaseIsCurrent' /\ [Registers!Next]_(Registers!vars)
<1> SUFFICES ASSUME IInv, BaseIsCurrent, [Next]_vars
             PROVE  BaseIsCurrent' /\ [Registers!Next]_(Registers!vars)
  OBVIOUS
<1>1. ASSUME UNCHANGED docs PROVE UNCHANGED Registers!vars
  BY <1>1 DEF Registers!vars, Get
<1>2. ASSUME NEW w \in Writers, NEW d \in Devices, NEW patch \in State,
             UpdateDesired(w, d, patch) \/ UpdateReported(w, d, patch)
      PROVE  BaseIsCurrent' /\ [Registers!Next]_(Registers!vars)
  <2>1. /\ docs' = docs
        /\ call'[w].base = Get(d) /\ call'[w].device = d
    BY <1>2 DEF UpdateDesired, UpdateReported, IInv, TypeOK
  <2>2. BaseIsCurrent'
    BY <2>1 DEF BaseIsCurrent, Get
  <2> QED BY <1>1, <2>1, <2>2
<1>3. ASSUME NEW w \in Writers, Save(w)
      PROVE  BaseIsCurrent' /\ [Registers!Next]_(Registers!vars)
  <2>0. PICK d \in Devices, u \in Update : u = call[w] /\ d = u.device
    BY <1>3, HeldUpdate DEF IInv, Save
  <2>1. /\ d \in Devices /\ u.base \in Doc /\ u.doc \in Doc /\ u.half \in Halves
        /\ u.base = Get(d)
    BY <1>3, <2>0, HeldUpdate DEF IInv, BaseIsCurrent, Save
  <2>2. PICK patch \in State :
          u.doc = IF u.half = "desired" THEN WithDesired(u.base, patch)
                                        ELSE WithReported(u.base, patch)
    BY <1>3, <2>0 DEF IInv, CopiesArePatched, Copy, Save
  <2>3. /\ docs'[d] = u.doc
        /\ \A e \in Devices : e # d => docs'[e] = docs[e]
        /\ call'[w] = Idle
    BY <1>3, <2>0, <2>1 DEF IInv, TypeOK, Save
  <2>4. u.doc # NoDoc
    BY <2>1, DigitalTwinAssumption DEF DigitalTwinAssumption
  <2>5. /\ Get(d)' = u.doc
        /\ \A e \in Devices : e # d => Get(e)' = Get(e)
    BY <2>3, <2>4 DEF Get
  <2>6. BaseIsCurrent'
    BY <2>3 DEF BaseIsCurrent
  <2>7. patch \in Registers!State
    BY DEF State, Registers!State
  <2>8. CASE u.half = "desired"
    <3>1. /\ u.doc.desired = Merged(Get(d).desired, patch)
          /\ u.doc.reported = Get(d).reported
      BY <2>1, <2>2, <2>8, PatchedDoc
    <3>2. /\ AbstractDesired' = [AbstractDesired EXCEPT ![d] = Merged(AbstractDesired[d], patch)]
          /\ AbstractReported' = AbstractReported
      BY <2>1, <2>5, <3>1 DEF AbstractDesired, AbstractReported
    <3>3. Registers!SetDesired(d, patch)
      BY <3>2 DEF Registers!SetDesired, Registers!Merged, Merged, AbstractDesired, AbstractReported
    <3> QED BY <2>1, <2>6, <2>7, <3>3 DEF Registers!Next
  <2>9. CASE u.half = "reported"
    <3>1. /\ u.doc.reported = Merged(Get(d).reported, patch)
          /\ u.doc.desired = Get(d).desired
      BY <2>1, <2>2, <2>9, PatchedDoc
    <3>2. /\ AbstractReported' = [AbstractReported EXCEPT ![d] = Merged(AbstractReported[d], patch)]
          /\ AbstractDesired' = AbstractDesired
      BY <2>1, <2>5, <3>1 DEF AbstractDesired, AbstractReported
    <3>3. Registers!SetReported(d, patch)
      BY <3>2 DEF Registers!SetReported, Registers!Merged, Merged, AbstractDesired, AbstractReported
    <3> QED BY <2>1, <2>6, <2>7, <3>3 DEF Registers!Next
  <2> QED BY <2>1, <2>8, <2>9 DEF Halves
<1>4. ASSUME NEW w \in Writers, SaveFails(w)
      PROVE  BaseIsCurrent' /\ [Registers!Next]_(Registers!vars)
  <2>1. docs' = docs /\ call'[w] = Idle
    BY <1>4 DEF SaveFails, IInv, TypeOK
  <2> QED BY <1>1, <2>1 DEF BaseIsCurrent
<1>5. ASSUME NEW w \in Writers, NEW d \in Devices, Delete(w, d)
      PROVE  BaseIsCurrent' /\ [Registers!Next]_(Registers!vars)
  <2>1. /\ call' = call /\ call[w] = Idle
        /\ docs' = [docs EXCEPT ![d] = NoDoc]
    BY <1>5 DEF Delete
  <2>2. /\ Get(d)' = NewDoc
        /\ \A e \in Devices : e # d => Get(e)' = Get(e)
    BY <2>1 DEF Get, IInv, TypeOK
  <2>3. /\ AbstractDesired' = [AbstractDesired EXCEPT ![d] = Blank]
        /\ AbstractReported' = [AbstractReported EXCEPT ![d] = Blank]
    <3>1. NewDoc.desired = Blank /\ NewDoc.reported = Blank
      BY DEF NewDoc
    <3> QED BY <2>2, <3>1 DEF AbstractDesired, AbstractReported
  <2>4. Registers!Forget(d)
    BY <2>3 DEF Registers!Forget, Registers!Blank, Blank, AbstractDesired, AbstractReported
  <2> QED BY <2>1, <2>4 DEF BaseIsCurrent, Registers!Next
<1>6. CASE UNCHANGED vars
  BY <1>1, <1>6 DEF vars, BaseIsCurrent, Get
<1> QED BY <1>2, <1>3, <1>4, <1>5, <1>6 DEF Next

\* With one writer every step of the service is a step of the two registers,
\* or none: the two halves are independent when nothing overlaps.
THEOREM SerialImplementsRegisters ==
    ASSUME \A v, w \in Writers : v = w
    PROVE  Spec => RegistersImplemented
<1>1. Init => Registers!Init /\ BaseIsCurrent
  BY DEF Init, Registers!Init, BaseIsCurrent, Get, NewDoc, Blank, Registers!Blank
<1>2. IInv /\ BaseIsCurrent /\ [Next]_vars =>
        BaseIsCurrent' /\ [Registers!Next]_(Registers!vars)
  BY SerialStep
<1> QED BY <1>1, <1>2, Invariance, PTL DEF Spec, Registers!Spec, RegistersImplemented
==============================================================================
