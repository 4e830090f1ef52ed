-------------------------- MODULE RuleEngineProofs --------------------------
(***************************************************************************)
(* Theorems about RuleEngine for any number of workers, requests and       *)
(* rules.  The invariant says what an evaluation and a request may rely    *)
(* on: the cooldown a worker checked is over unless what it saw is stale,  *)
(* and a request that is alone with its rule has it as it left it.         *)
(***************************************************************************)
EXTENDS RuleEngine, SequenceTheorems, TLAPS

Past == {"compare", "stamp", "fire"}
Late == {"check"} \cup Past

Evaluated == [op : {"evaluate"}, point : Points, todo : SUBSET (RuleIds \X Rule)]
Judged == [op : {"save"} \cup Late, point : Points, todo : SUBSET (RuleIds \X Rule),
           id : RuleIds, rule : Rule, saved : BOOLEAN,
           seen : Time \cup {None}, stale : BOOLEAN, at : Time \cup {None},
           triggered : BOOLEAN]
WorkStates == {Idle} \cup Evaluated \cup Judged

AdminStates ==
    {Idle} \cup [op : {"update"}, id : RuleIds, copy : Rule, alone : BOOLEAN]
           \cup [op : {"delete"}, id : RuleIds, copy : {None}, alone : BOOLEAN]

Typed ==
    /\ now \in Time
    /\ rules \in [RuleIds -> Rule \cup {None}]
    /\ buffers \in [RuleIds -> Seq(Points)]
    /\ cooldown \in [RuleIds -> Time \cup {None}]
    /\ last \in [RuleIds -> Time \cup {None}]
    /\ work \in [Workers -> WorkStates]
    /\ admin \in [Admins -> AdminStates]

\* What comes after the save of the execution has been saved.
SavedFirst == \A w \in Workers : work[w].op \in Late => work[w].saved

\* What w saw is the rule's latest firing, and the cooldown it checked is over at
\* the time it goes by.
Over(w) ==
    /\ work[w].op = "compare" => work[w].seen = last[work[w].id]
    /\ work[w].op = "stamp" => ~Within(now, work[w].id, work[w].rule.cooldown)
    /\ work[w].op = "fire" => ~Within(work[w].at, work[w].id, work[w].rule.cooldown)

CooldownIsOver == \A w \in Workers : work[w].op \in Past /\ ~work[w].stale => Over(w)

\* A clock has been read before it is stored.
ClockIsRead == \A w \in Workers : work[w].op = "fire" => work[w].at \in Time

AloneIsAlone == \A a \in Admins, r \in RuleIds :
    a \in Holders(r) /\ admin[a].alone =>
        /\ Holders(r) = {a}
        /\ admin[a].op = "delete" => rules[r] = None

OnlyCreated ==
    /\ \A r \in RuleIds : rules[r] # None => r \in created
    /\ \A r \in RuleIds : Holders(r) # {} => r \in created

\* Nothing stored, and no copy under way, enables a silenced rule.
SilencedCopies ==
    /\ silenced \subseteq created
    /\ \A r \in RuleIds \cap silenced : \A a \in Holders(r) :
          admin[a].op = "update" => ~admin[a].copy.enabled

Requests == AloneIsAlone /\ OnlyCreated /\ SilencedCopies /\ SilencedStaysSilent
Firings == SavedFirst /\ CooldownIsOver /\ ClockIsRead /\ CooldownIsKept

IInv == Typed /\ Requests /\ Firings

-----------------------------------------------------------------------------
LEMMA IdleStates == Idle \in WorkStates /\ Idle \in AdminStates
BY DEF WorkStates, AdminStates

LEMMA HeldWork ==
    ASSUME Typed, NEW w \in Workers
    PROVE  /\ work[w].op \in {"idle", "evaluate", "save"} \cup Late
           /\ work[w].op = "evaluate" => work[w] \in Evaluated
           /\ work[w].op \in {"save"} \cup Late => work[w] \in Judged
           /\ work[w].op = "idle" <=> work[w] = Idle
<1>1. work[w] \in WorkStates
  BY DEF Typed
<1> QED BY <1>1 DEF WorkStates, Evaluated, Judged, Idle, Late, Past

LEMMA HeldAdmin ==
    ASSUME Typed, NEW a \in Admins
    PROVE  /\ admin[a].op \in {"idle", "update", "delete"}
           /\ admin[a].op = "idle" <=> admin[a] = Idle
           /\ admin[a] # Idle => admin[a].id \in RuleIds /\ admin[a].alone \in BOOLEAN
           /\ admin[a].op = "update" => admin[a].copy \in Rule
<1>1. admin[a] \in AdminStates
  BY DEF Typed
<1> QED BY <1>1 DEF AdminStates, Idle

LEMMA PatchedRule ==
    ASSUME NEW rule \in Rule, NEW patch \in Patch
    PROVE  /\ Patched(rule, patch) \in Rule
           /\ Patched(rule, patch).enabled =>
                patch.enabled = TRUE \/ (patch.enabled = None /\ rule.enabled)
BY RuleAssumption DEF RuleAssumption, Patched, Patch, Rule

\* The end of a sequence from its i-th element on.
LEMMA Suffix ==
    ASSUME NEW S, NEW s \in Seq(S), NEW i \in 1 .. Len(s) + 1
    PROVE  /\ SubSeq(s, i, Len(s)) \in Seq(S)
           /\ Len(SubSeq(s, i, Len(s))) = Len(s) - i + 1
           /\ \A k \in 1 .. Len(s) - i + 1 : SubSeq(s, i, Len(s))[k] = s[i + k - 1]
BY SubSeqProperties

LEMMA KeptPoints ==
    ASSUME NEW buffer \in Seq(Points), NEW point \in Points,
           NEW kept \in Kept(Append(buffer, point))
    PROVE  /\ kept \in Seq(Points)
           /\ Capped(kept) \in Seq(Points)
<1>1. Append(buffer, point) \in Seq(Points)
  OBVIOUS
<1>2. kept \in Seq(Points)
  <2>1. PICK i \in 0 .. Len(Append(buffer, point)) :
          kept = SubSeq(Append(buffer, point), i + 1, Len(Append(buffer, point)))
    BY DEF Kept
  <2>2. i + 1 \in 1 .. Len(Append(buffer, point)) + 1
    BY <1>1
  <2> QED BY <1>1, <2>1, <2>2, Suffix
<1>3. CASE Len(kept) <= BufferLimit
  BY <1>2, <1>3 DEF Capped
<1>4. CASE ~(Len(kept) <= BufferLimit)
  <2> DEFINE first == Len(kept) - BufferLimit + 1
  <2>1. BufferLimit \in Nat \ {0} /\ Len(kept) \in Nat
    BY <1>2, RuleAssumption DEF RuleAssumption
  <2>2. first \in 1 .. Len(kept) + 1
    BY <1>4, <2>1
  <2>3. Capped(kept) = SubSeq(kept, first, Len(kept))
    BY <1>4 DEF Capped
  <2> HIDE DEF first
  <2> QED BY <1>2, <2>2, <2>3, Suffix
<1> QED BY <1>2, <1>3, <1>4

-----------------------------------------------------------------------------
(* Types *)

LEMMA TypedBegin ==
    ASSUME Typed, NEW a \in Admins, NEW op, NEW r \in RuleIds, NEW copy,
           (op = "update" /\ copy \in Rule) \/ (op = "delete" /\ copy = None),
           Begin(a, op, r, copy)
    PROVE  /\ admin' \in [Admins -> AdminStates]
           /\ admin'[a] = [op |-> op, id |-> r, copy |-> copy, alone |-> Holders(r) = {}]
           /\ \A b \in Admins \ {a} :
                admin'[b] = IF b \in Holders(r) THEN [admin[b] EXCEPT !.alone = FALSE] ELSE admin[b]
<1>1. [op |-> op, id |-> r, copy |-> copy, alone |-> Holders(r) = {}] \in AdminStates
  BY DEF AdminStates
<1>2. ASSUME NEW b \in Admins, b \in Holders(r)
      PROVE  [admin[b] EXCEPT !.alone = FALSE] \in AdminStates
  <2>1. admin[b] \in AdminStates \ {Idle}
    BY <1>2 DEF Typed, Holders
  <2> QED BY <2>1 DEF AdminStates
<1>3. \A b \in Admins : admin[b] \in AdminStates
  BY DEF Typed
<1> QED BY <1>1, <1>2, <1>3 DEF Begin

LEMMA TypedProceed ==
    ASSUME Typed, NEW w \in Workers, NEW state \in WorkStates, Proceed(w, state)
    PROVE  /\ work' \in [Workers -> WorkStates]
           /\ work'[w] = state
           /\ \A v \in Workers \ {w} : work'[v] = work[v]
BY DEF Typed, Proceed

LEMMA TypedChange ==
    ASSUME Typed, NEW a \in Admins, Change(a)
    PROVE  Typed'
<1>1. ASSUME NEW r \in RuleIds, NEW rule \in Rule, CreateRule(a, r, rule) PROVE Typed'
  BY <1>1 DEF CreateRule, engine, histories, Typed
<1>2. ASSUME NEW r \in RuleIds, NEW patch \in Patch, UpdateLoad(a, r, patch) PROVE Typed'
  <2>1. rules[r] \in Rule
    BY <1>2 DEF UpdateLoad, Typed
  <2>2. admin' \in [Admins -> AdminStates]
    BY <1>2, <2>1, PatchedRule, TypedBegin DEF UpdateLoad
  <2> QED BY <1>2, <2>2 DEF UpdateLoad, engine, histories, Typed
<1>3. ASSUME NEW r \in RuleIds, DeleteRow(a, r) PROVE Typed'
  <2>1. admin' \in [Admins -> AdminStates]
    BY <1>3, TypedBegin DEF DeleteRow
  <2> QED BY <1>3, <2>1 DEF DeleteRow, engine, histories, Typed
<1>4. ASSUME NEW r \in RuleIds, DeleteRowFails(a, r) PROVE Typed'
  BY <1>4 DEF DeleteRowFails, engine, histories, Typed
<1>5. CASE Refused(a)
  BY <1>5 DEF Refused, vars, engine, histories, Typed
<1>6. CASE UpdateSave(a) \/ UpdateSaveFails(a)
  <2>1. admin[a].id \in RuleIds /\ admin[a].copy \in Rule
    BY <1>6, HeldAdmin DEF UpdateSave, UpdateSaveFails
  <2>2. rules' \in [RuleIds -> Rule \cup {None}]
    BY <1>6, <2>1 DEF UpdateSave, UpdateSaveFails, Typed
  <2>3. admin' \in [Admins -> AdminStates]
    BY <1>6, IdleStates DEF UpdateSave, UpdateSaveFails, EndRequest, Typed
  <2> QED BY <1>6, <2>2, <2>3 DEF UpdateSave, UpdateSaveFails, engine, histories, Typed
<1>7. CASE DeleteState(a)
  <2>1. admin' \in [Admins -> AdminStates]
    BY <1>7, IdleStates DEF DeleteState, EndRequest, Typed
  <2>2. admin[a].id \in RuleIds
    BY <1>7, HeldAdmin DEF DeleteState
  <2>3. << >> \in Seq(Points)
    OBVIOUS
  <2>4. /\ buffers' \in [RuleIds -> Seq(Points)]
        /\ cooldown' \in [RuleIds -> Time \cup {None}]
        /\ last' = last
    BY <1>7, <2>2, <2>3 DEF DeleteState, Typed, histories
  <2>5. UNCHANGED <<now, rules, work>>
    BY <1>7 DEF DeleteState
  <2> QED BY <2>1, <2>4, <2>5 DEF Typed
<1> QED BY <1>1, <1>2, <1>3, <1>4, <1>5, <1>6, <1>7 DEF Change

LEMMA EvaluationTyped ==
    ASSUME NEW point \in Points, NEW todo \in SUBSET (RuleIds \X Rule)
    PROVE  Evaluation(point, todo) \in {Idle} \cup Evaluated
BY DEF Evaluation, Evaluated

LEMMA TriggeredIsBoolean ==
    ASSUME NEW inputs \in Seq(Points), Len(inputs) \in Nat \ {0}, NEW kind \in Aggregates
    PROVE  Triggered(inputs, kind) \in BOOLEAN
<1> DEFINE highs == Cardinality({i \in DOMAIN inputs : inputs[i].high})
<1>1. CASE kind = "avg"
  <2>1. Triggered(inputs, kind) = (2 * highs > Len(inputs))
    BY <1>1 DEF Triggered
  <2> QED BY <2>1
<1>2. CASE kind = "min"
  <2>1. Triggered(inputs, kind) = (highs = Len(inputs))
    BY <1>2 DEF Triggered
  <2> QED BY <2>1
<1>3. CASE kind = "max" \/ kind = "sum"
  <2>1. Triggered(inputs, kind) = (highs > 0)
    BY <1>3 DEF Triggered
  <2> QED BY <2>1
<1>4. CASE kind = "count"
  <2>1. Triggered(inputs, kind) = TRUE
    BY <1>4 DEF Triggered
  <2> QED BY <2>1
<1>5. CASE kind = "last"
  <2>1. Triggered(inputs, kind) = inputs[Len(inputs)].high
    BY <1>5 DEF Triggered
  <2>2. inputs[Len(inputs)] \in Points
    OBVIOUS
  <2>3. inputs[Len(inputs)].high \in BOOLEAN
    BY <2>2 DEF Points
  <2> QED BY <2>1, <2>3
<1> QED BY <1>1, <1>2, <1>3, <1>4, <1>5 DEF Aggregates

\* A firing leaves the worker at the rest of its listing, and the others that fire
\* the rule stale.
LEMMA FireDoes ==
    ASSUME Typed, NEW w \in Workers, Fire(w)
    PROVE  /\ work[w] \in Judged /\ work[w].op = "fire" /\ work[w].id \in RuleIds
           /\ work' \in [Workers -> WorkStates]
           /\ work'[w].op \in {"idle", "evaluate"}
           /\ \A v \in Workers \ {w} :
                work'[v] = IF v \in Firing(work[w].id) THEN [work[v] EXCEPT !.stale = TRUE]
                           ELSE work[v]
<1>1. work[w] \in Judged /\ work[w].op = "fire" /\ work[w].id \in RuleIds
  BY HeldWork DEF Fire, Judged, Late, Past
<1> DEFINE rest == Evaluation(work[w].point, work[w].todo)
<1>2. rest \in {Idle} \cup Evaluated
  BY <1>1, EvaluationTyped DEF Judged
<1>3. rest \in WorkStates /\ rest.op \in {"idle", "evaluate"}
  BY <1>2 DEF WorkStates, Evaluated, Idle
<1>4. work' = [v \in Workers |-> IF v = w THEN rest
                                  ELSE IF v \in Firing(work[w].id) THEN [work[v] EXCEPT !.stale = TRUE]
                                  ELSE work[v]]
  BY DEF Fire
<1>5. ASSUME NEW v \in Workers
      PROVE  /\ work[v] \in WorkStates
             /\ v \in Firing(work[w].id) => [work[v] EXCEPT !.stale = TRUE] \in WorkStates
  <2>1. v \in Firing(work[w].id) => work[v] \in Judged
    BY HeldWork DEF Firing, Late, Past
  <2>2. work[v] \in Judged => [work[v] EXCEPT !.stale = TRUE] \in Judged
    BY DEF Judged
  <2> QED BY <2>1, <2>2 DEF Typed, WorkStates
<1> HIDE DEF rest
<1> QED BY <1>1, <1>3, <1>4, <1>5

\* The steps of a worker, each with the state it leaves the worker in.
LEMMA WorkerStates ==
    ASSUME Typed, NEW w \in Workers, HandleTelemetry(w)
    PROVE  /\ Typed'
           /\ work[w].op \in {"idle", "evaluate", "save"} =>
                /\ \A v \in Workers \ {w} : work'[v] = work[v]
                /\ work'[w].op \in {"idle", "evaluate", "save"} \/ SaveExecution(w)
<1>1. ASSUME NEW at \in Time, NEW high \in BOOLEAN, List(w, at, high)
      PROVE  Typed' /\ (\A v \in Workers \ {w} : work'[v] = work[v])
             /\ work'[w].op \in {"idle", "evaluate", "save"}
  <2> DEFINE state == Evaluation([at |-> at, high |-> high], {<<r, rules[r]>> : r \in Listed})
  <2>1. {<<r, rules[r]>> : r \in Listed} \in SUBSET (RuleIds \X Rule)
    BY DEF Listed, Typed
  <2>2. [at |-> at, high |-> high] \in Points
    BY DEF Points
  <2>3. state \in {Idle} \cup Evaluated
    BY <2>1, <2>2, EvaluationTyped
  <2>4. Proceed(w, state)
    BY <1>1 DEF List
  <2> HIDE DEF state
  <2> QED BY <1>1, <2>3, <2>4, TypedProceed
       DEF List, Typed, engine, histories, WorkStates, Evaluated, Idle
<1>2. ASSUME NEW entry, Buffer(w, entry)
      PROVE  Typed' /\ (\A v \in Workers \ {w} : work'[v] = work[v])
             /\ work'[w].op \in {"idle", "evaluate", "save"}
  <2>1. work[w] \in Evaluated /\ entry \in work[w].todo
    BY <1>2, HeldWork DEF Buffer
  <2>2. /\ entry[1] \in RuleIds /\ entry[2] \in Rule
        /\ work[w].point \in Points
        /\ work[w].todo \ {entry} \in SUBSET (RuleIds \X Rule)
    BY <2>1 DEF Evaluated
  <2>3. PICK kept \in Kept(Append(buffers[entry[1]], work[w].point)) :
          /\ buffers' = [buffers EXCEPT ![entry[1]] = Capped(kept)]
          /\ Proceed(w,
               IF Len(Capped(kept)) < entry[2].minSamples
               THEN Evaluation(work[w].point, work[w].todo \ {entry})
               ELSE IF entry[2].kind \notin Aggregates THEN Idle
               ELSE [op |-> "save", point |-> work[w].point, todo |-> work[w].todo \ {entry},
                     id |-> entry[1], rule |-> entry[2], saved |-> FALSE,
                     seen |-> None, stale |-> FALSE, at |-> None,
                     triggered |-> Triggered(Capped(kept), entry[2].kind)])
    BY <1>2 DEF Buffer
  <2>4. buffers' \in [RuleIds -> Seq(Points)]
    BY <2>2, <2>3, KeptPoints DEF Typed
  <2>5. ~(Len(Capped(kept)) < entry[2].minSamples) /\ entry[2].kind \in Aggregates =>
          Triggered(Capped(kept), entry[2].kind) \in BOOLEAN
    <3>1. Capped(kept) \in Seq(Points)
      BY <2>2, KeptPoints DEF Typed
    <3>2. ~(Len(Capped(kept)) < entry[2].minSamples) => Len(Capped(kept)) \in Nat \ {0}
      BY <2>2, <3>1, RuleAssumption DEF RuleAssumption, Rule
    <3> QED BY <3>1, <3>2, TriggeredIsBoolean
  <2>6. PICK state \in {Idle} \cup Evaluated \cup {s \in Judged : s.op = "save"} : Proceed(w, state)
    <3>1. CASE Len(Capped(kept)) < entry[2].minSamples
      BY <2>2, <2>3, <3>1, EvaluationTyped
    <3>2. CASE ~(Len(Capped(kept)) < entry[2].minSamples) /\ entry[2].kind \notin Aggregates
      BY <2>3, <3>2
    <3>3. CASE ~(Len(Capped(kept)) < entry[2].minSamples) /\ entry[2].kind \in Aggregates
      BY <2>2, <2>3, <2>5, <3>3 DEF Judged
    <3> QED BY <3>1, <3>2, <3>3
  <2>7. state \in WorkStates /\ state.op \in {"idle", "evaluate", "save"}
    BY <2>6 DEF WorkStates, Evaluated, Idle
  <2> QED BY <1>2, <2>4, <2>6, <2>7, TypedProceed DEF Buffer, Typed, histories
<1>3. ASSUME NEW state \in WorkStates, Proceed(w, state)
      PROVE  /\ work' \in [Workers -> WorkStates]
             /\ work'[w] = state
             /\ \A v \in Workers \ {w} : work'[v] = work[v]
  BY <1>3, TypedProceed
<1>4. ASSUME work[w] \in Judged, NextRule(w)
      PROVE  /\ work' \in [Workers -> WorkStates]
             /\ work'[w].op \in {"idle", "evaluate"}
             /\ \A v \in Workers \ {w} : work'[v] = work[v]
  <2> DEFINE state == Evaluation(work[w].point, work[w].todo)
  <2>1. state \in {Idle} \cup Evaluated
    BY <1>4, EvaluationTyped DEF Judged
  <2>2. Proceed(w, state)
    BY <1>4 DEF NextRule
  <2> HIDE DEF state
  <2> QED BY <2>1, <2>2, TypedProceed DEF WorkStates, Evaluated, Idle
<1>5. CASE SaveExecution(w)
  <2>1. work[w] \in Judged /\ [work[w] EXCEPT !.op = "check", !.saved = TRUE] \in WorkStates
    BY <1>5, HeldWork DEF SaveExecution, Judged, Late, Past, WorkStates
  <2>2. work' \in [Workers -> WorkStates] /\ \A v \in Workers \ {w} : work'[v] = work[v]
    BY <1>5, <2>1, <1>3, <1>4 DEF SaveExecution
  <2> QED BY <1>5, <2>2 DEF SaveExecution, Typed, engine, histories
<1>6. CASE SaveExecutionFails(w)
  BY <1>6, <1>3, IdleStates DEF SaveExecutionFails, Typed, engine, histories, Idle
<1>7. CASE ReadCooldown(w)
  <2>1. work[w] \in Judged /\ work[w].id \in RuleIds /\ work[w].op = "check"
    BY <1>7, HeldWork DEF ReadCooldown, Judged, Late, Past
  <2>2. \A op \in {"stamp", "compare"}, stale \in BOOLEAN, seen \in Time \cup {None} :
          [work[w] EXCEPT !.op = op, !.seen = seen, !.stale = stale] \in WorkStates
    BY <2>1 DEF Judged, Late, Past, WorkStates
  <2>3. cooldown[work[w].id] \in Time \cup {None}
    BY <2>1 DEF Typed
  <2>4. PICK state \in WorkStates : Proceed(w, state)
    BY <1>7, <2>2, <2>3 DEF ReadCooldown
  <2> QED BY <1>7, <2>1, <2>4, <1>3 DEF ReadCooldown, Typed, engine, histories
<1>8. CASE CheckCooldown(w)
  <2>1. work[w] \in Judged /\ [work[w] EXCEPT !.op = "stamp", !.seen = None] \in WorkStates
    BY <1>8, HeldWork DEF CheckCooldown, Judged, Late, Past, WorkStates
  <2>2. work' \in [Workers -> WorkStates] /\ \A v \in Workers \ {w} : work'[v] = work[v]
    BY <1>8, <2>1, <1>3, <1>4 DEF CheckCooldown
  <2> QED BY <1>8, <2>2 DEF CheckCooldown, Typed, engine, histories
<1>9. CASE ReadClock(w)
  <2>0. work[w] \in Judged /\ now \in Time
    BY <1>9, HeldWork DEF ReadClock, Late, Past, Typed
  <2>1. [work[w] EXCEPT !.op = "fire", !.at = now] \in WorkStates
    BY <2>0 DEF Judged, Late, Past, WorkStates
  <2>2. work' \in [Workers -> WorkStates] /\ \A v \in Workers \ {w} : work'[v] = work[v]
    BY <1>9, <2>1, <1>3 DEF ReadClock
  <2> QED BY <1>9, <2>2 DEF ReadClock, Typed, engine, histories
<1>10. CASE Fire(w)
  <2>1. work[w].id \in RuleIds /\ work[w].at \in Time \cup {None}
    BY <1>10, FireDoes DEF Judged
  <2>2. /\ cooldown' \in [RuleIds -> Time \cup {None}]
        /\ last' \in [RuleIds -> Time \cup {None}]
    BY <1>10, <2>1 DEF Fire, Typed
  <2>3. UNCHANGED <<now, rules, buffers, admin>>
    BY <1>10 DEF Fire
  <2> QED BY <1>10, <2>2, <2>3, FireDoes DEF Typed
<1> QED BY <1>1, <1>2, <1>5, <1>6, <1>7, <1>8, <1>9, <1>10 DEF HandleTelemetry

-----------------------------------------------------------------------------
(* Requests *)

\* A step of a worker, and the clock, leave the requests alone.
LEMMA RequestsQuiet ==
    ASSUME Requests, UNCHANGED <<rules, admin, created, silenced>>
    PROVE  Requests'
BY DEF Requests, AloneIsAlone, OnlyCreated, SilencedCopies, SilencedStaysSilent, Holders, Listed

\* A request begins: the others for its rule are not alone any more.
LEMMA RequestBegins ==
    ASSUME Typed, Requests, NEW a \in Admins, admin[a] = Idle,
           NEW op, NEW r \in RuleIds, r \in created, NEW copy,
           (op = "update" /\ copy \in Rule) \/ (op = "delete" /\ copy = None),
           Begin(a, op, r, copy),
           rules' = IF op = "delete" THEN [rules EXCEPT ![r] = None] ELSE rules,
           created' = created, silenced' \subseteq silenced,
           op = "update" /\ copy.enabled => r \notin silenced'
    PROVE  Requests'
<1>1. /\ admin'[a] = [op |-> op, id |-> r, copy |-> copy, alone |-> Holders(r) = {}]
      /\ \A b \in Admins \ {a} :
           admin'[b] = IF b \in Holders(r) THEN [admin[b] EXCEPT !.alone = FALSE] ELSE admin[b]
  BY TypedBegin
<1>2. /\ admin'[a] # Idle
      /\ admin'[a].id = r
      /\ admin'[a].op = op
      /\ admin'[a].copy = copy
      /\ admin'[a].alone = (Holders(r) = {})
  BY <1>1 DEF Idle
<1>3. ASSUME NEW b \in Holders(r)
      PROVE  /\ admin'[b] # Idle
             /\ admin'[b].id = r
             /\ admin'[b].op = admin[b].op
             /\ admin'[b].copy = admin[b].copy
             /\ admin'[b].alone = FALSE
  <2>1. b \in Admins \ {a} /\ admin[b] # Idle /\ admin[b].id = r
    BY DEF Holders
  <2>2. admin'[b] = [admin[b] EXCEPT !.alone = FALSE]
    BY <1>1, <2>1
  <2>3. admin[b] \in AdminStates \ {Idle}
    BY <2>1 DEF Typed
  <2> QED BY <2>1, <2>2, <2>3 DEF AdminStates, Idle
<1>4. \A b \in Admins \ (Holders(r) \cup {a}) : admin'[b] = admin[b]
  BY <1>1
<1>5. a \notin Holders(r) /\ Holders(r) \subseteq Admins
  BY DEF Holders
<1>6. Holders(r)' = Holders(r) \cup {a}
  BY <1>2, <1>3, <1>4, <1>5 DEF Holders
<1>7. ASSUME NEW q \in RuleIds, q # r
      PROVE  /\ Holders(q)' = Holders(q)
             /\ \A b \in Holders(q) : b \in Admins /\ admin'[b] = admin[b]
  <2>1. \A b \in Holders(q) : b \in Admins \ (Holders(r) \cup {a})
    BY <1>7 DEF Holders
  <2>2. \A b \in Holders(q) : b \in Holders(q)'
    BY <1>4, <2>1 DEF Holders
  <2>3. \A b \in Holders(q)' : b \in Admins \ (Holders(r) \cup {a})
    BY <1>2, <1>3, <1>7 DEF Holders
  <2>4. \A b \in Holders(q)' : b \in Holders(q)
    BY <1>4, <2>3 DEF Holders
  <2> QED BY <1>4, <2>1, <2>2, <2>4
<1>8. /\ \A q \in RuleIds : rules'[q] \in {rules[q], None}
      /\ op = "delete" => rules'[r] = None
      /\ \A q \in RuleIds \ {r} : rules'[q] = rules[q]
  BY DEF Typed
<1>9. AloneIsAlone'
  <2> SUFFICES ASSUME NEW b \in Admins, NEW q \in RuleIds, b \in Holders(q)', admin'[b].alone
               PROVE  Holders(q)' = {b} /\ (admin'[b].op = "delete" => rules'[q] = None)
    BY DEF AloneIsAlone
  <2>1. CASE q = r
    <3>1. b = a /\ Holders(r) = {}
      BY <1>2, <1>3, <1>6, <2>1
    <3> QED BY <1>2, <1>6, <1>8, <2>1, <3>1
  <2>2. CASE q # r
    <3>1. Holders(q)' = Holders(q) /\ b \in Holders(q) /\ admin'[b] = admin[b] /\ rules'[q] = rules[q]
      BY <1>7, <1>8, <2>2
    <3> QED BY <3>1 DEF Requests, AloneIsAlone
  <2> QED BY <2>1, <2>2
<1>10. OnlyCreated'
  <2>1. \A q \in RuleIds : rules'[q] # None => q \in created'
    BY <1>8 DEF Requests, OnlyCreated
  <2>2. \A q \in RuleIds : Holders(q)' # {} => q \in created'
    BY <1>7 DEF Requests, OnlyCreated
  <2> QED BY <2>1, <2>2 DEF OnlyCreated
<1>11. SilencedCopies'
  <2>1. ASSUME NEW q \in RuleIds, q \in silenced', NEW b \in Holders(q)', admin'[b].op = "update"
        PROVE  ~admin'[b].copy.enabled
    <3>1. CASE q # r
      <4>1. b \in Holders(q) /\ admin'[b] = admin[b] /\ q \in RuleIds \cap silenced
        BY <1>7, <2>1, <3>1
      <4> QED BY <2>1, <4>1 DEF Requests, SilencedCopies
    <3>2. CASE q = r /\ b = a
      BY <1>2, <2>1, <3>2
    <3>3. CASE q = r /\ b # a
      <4>1. b \in Holders(r) /\ r \in RuleIds \cap silenced
        BY <1>6, <2>1, <3>3
      <4>2. admin[b].op = "update" /\ admin'[b].copy = admin[b].copy
        BY <1>3, <2>1, <4>1
      <4> QED BY <4>1, <4>2 DEF Requests, SilencedCopies
    <3> QED BY <3>1, <3>2, <3>3
  <2>2. silenced' \subseteq created'
    BY DEF Requests, SilencedCopies
  <2> QED BY <2>1, <2>2 DEF SilencedCopies
<1>12. SilencedStaysSilent'
  BY <1>8 DEF Requests, SilencedStaysSilent, Listed
<1> QED BY <1>9, <1>10, <1>11, <1>12 DEF Requests

\* A request for r ends, and stores its copy or not.
LEMMA RequestEnds ==
    ASSUME Typed, Requests, NEW a \in Admins, NEW r \in RuleIds, a \in Holders(r),
           EndRequest(a),
           rules' = rules \/ (admin[a].op = "update"
                               /\ rules' = [rules EXCEPT ![r] = admin[a].copy]),
           created' = created,
           \/ silenced' = silenced
           \/ /\ silenced' = silenced \cup {r}
              /\ admin[a].alone
              /\ \/ admin[a].op = "delete"
                 \/ ~admin[a].copy.enabled /\ rules' = [rules EXCEPT ![r] = admin[a].copy]
    PROVE  Requests'
<1>1. admin'[a] = Idle /\ \A b \in Admins \ {a} : admin'[b] = admin[b]
  BY DEF EndRequest, Typed
<1>2. r \in created
  BY DEF Requests, OnlyCreated
<1>3. ASSUME NEW q \in RuleIds
      PROVE  /\ Holders(q)' = Holders(q) \ {a}
             /\ \A b \in Holders(q)' : b \in Holders(q) /\ b # a /\ admin'[b] = admin[b]
  <2>1. \A b \in Holders(q) \ {a} : b \in Holders(q)'
    BY <1>1 DEF Holders
  <2>2. \A b \in Holders(q)' : b \in Holders(q) /\ b # a /\ admin'[b] = admin[b]
    BY <1>1 DEF Holders
  <2> QED BY <2>1, <2>2
<1>4. \A q \in RuleIds \ {r} : rules'[q] = rules[q] /\ a \notin Holders(q)
  BY DEF Typed, Holders
<1>5. rules'[r] = rules[r] \/ (admin[a].op = "update" /\ rules'[r] = admin[a].copy)
  BY DEF Typed
<1>6. admin[a].alone => Holders(r)' = {}
  BY <1>3 DEF Requests, AloneIsAlone, Holders
<1>7. AloneIsAlone'
  <2> SUFFICES ASSUME NEW b \in Admins, NEW q \in RuleIds, b \in Holders(q)', admin'[b].alone
               PROVE  Holders(q)' = {b} /\ (admin'[b].op = "delete" => rules'[q] = None)
    BY DEF AloneIsAlone
  <2>1. /\ b \in Holders(q) /\ b # a /\ admin'[b] = admin[b]
        /\ Holders(q)' = Holders(q) \ {a}
    BY <1>3
  <2>2. Holders(q) = {b} /\ (admin[b].op = "delete" => rules[q] = None)
    BY <2>1 DEF Requests, AloneIsAlone
  <2>3. q # r
    BY <2>1, <2>2
  <2> QED BY <1>4, <2>1, <2>2, <2>3
<1>8. OnlyCreated'
  <2>1. \A q \in RuleIds : rules'[q] # None => q \in created'
    BY <1>2, <1>4 DEF Requests, OnlyCreated
  <2>2. \A q \in RuleIds : Holders(q)' # {} => q \in created'
    BY <1>3 DEF Requests, OnlyCreated
  <2> QED BY <2>1, <2>2 DEF OnlyCreated
<1>9. SilencedCopies'
  <2>1. silenced' \subseteq created'
    BY <1>2 DEF Requests, SilencedCopies
  <2>2. ASSUME NEW q \in RuleIds, q \in silenced', NEW b \in Holders(q)', admin'[b].op = "update"
        PROVE  ~admin'[b].copy.enabled
    <3>1. b \in Holders(q) /\ b # a /\ admin'[b] = admin[b]
      BY <1>3
    <3>2. q \in RuleIds \cap silenced
      BY <1>6, <2>2
    <3> QED BY <2>2, <3>1, <3>2 DEF Requests, SilencedCopies
  <2> QED BY <2>1, <2>2 DEF SilencedCopies
<1>10. SilencedStaysSilent'
  <2> SUFFICES ASSUME NEW q \in RuleIds, q \in silenced', rules'[q] # None, rules'[q].enabled
               PROVE  FALSE
    BY DEF SilencedStaysSilent, Listed
  <2>1. CASE q # r
    <3>1. q \in silenced /\ rules'[q] = rules[q]
      BY <1>4, <2>1
    <3> QED BY <3>1 DEF Requests, SilencedStaysSilent, Listed
  <2>2. CASE q = r /\ q \in silenced
    <3>1. ~(rules[r] # None /\ rules[r].enabled)
      BY <2>2 DEF Requests, SilencedStaysSilent, Listed
    <3>2. admin[a].op = "update" => ~admin[a].copy.enabled
      BY <2>2 DEF Requests, SilencedCopies
    <3> QED BY <1>5, <2>2, <3>1, <3>2
  <2>3. CASE q = r /\ q \notin silenced
    <3>1. /\ admin[a].alone
          /\ \/ admin[a].op = "delete"
             \/ ~admin[a].copy.enabled /\ rules' = [rules EXCEPT ![r] = admin[a].copy]
      BY <2>3
    <3>2. CASE admin[a].op = "delete"
      BY <1>5, <2>3, <3>1, <3>2 DEF Requests, AloneIsAlone
    <3>3. CASE ~admin[a].copy.enabled /\ rules' = [rules EXCEPT ![r] = admin[a].copy]
      BY <2>3, <3>3 DEF Typed
    <3> QED BY <3>1, <3>2, <3>3
  <2> QED BY <2>1, <2>2, <2>3
<1> QED BY <1>7, <1>8, <1>9, <1>10 DEF Requests

LEMMA RequestsChange ==
    ASSUME Typed, Requests, NEW a \in Admins, Change(a)
    PROVE  Requests'
<1>1. ASSUME NEW r \in RuleIds, NEW rule \in Rule, CreateRule(a, r, rule)
      PROVE  Requests'
  <2>1. /\ created' = created \cup {r}
        /\ r \notin created
        /\ UNCHANGED <<admin, silenced>>
        /\ \A q \in RuleIds \ {r} : rules'[q] = rules[q]
    BY <1>1 DEF CreateRule, Typed
  <2>2. \A q \in RuleIds : Holders(q)' = Holders(q)
    BY <2>1 DEF Holders
  <2>3. Holders(r) = {} /\ r \notin silenced
    BY <2>1 DEF Requests, OnlyCreated, SilencedCopies
  <2>4. AloneIsAlone'
    <3> SUFFICES ASSUME NEW b \in Admins, NEW q \in RuleIds, b \in Holders(q), admin[b].alone
                 PROVE  Holders(q) = {b} /\ (admin[b].op = "delete" => rules'[q] = None)
      BY <2>1, <2>2 DEF AloneIsAlone
    <3>1. q # r
      BY <2>3
    <3> QED BY <2>1, <3>1 DEF Requests, AloneIsAlone
  <2>5. OnlyCreated'
    BY <2>1, <2>2 DEF Requests, OnlyCreated
  <2>6. SilencedCopies'
    BY <2>1, <2>2 DEF Requests, SilencedCopies
  <2>7. SilencedStaysSilent'
    BY <2>1, <2>3 DEF Requests, SilencedStaysSilent, Listed
  <2> QED BY <2>4, <2>5, <2>6, <2>7 DEF Requests
<1>2. ASSUME NEW r \in RuleIds, NEW patch \in Patch, UpdateLoad(a, r, patch)
      PROVE  Requests'
  <2>1. rules[r] \in Rule /\ r \in created
    BY <1>2 DEF UpdateLoad, Typed, Requests, OnlyCreated
  <2> PICK copy : copy = Patched(rules[r], patch)
    OBVIOUS
  <2>2. copy \in Rule /\ (copy.enabled => patch.enabled = TRUE \/ rules[r].enabled)
    BY <2>1, PatchedRule
  <2>3. /\ admin[a] = Idle
        /\ rules[r] # None
        /\ Begin(a, "update", r, copy)
        /\ rules' = rules /\ created' = created
        /\ silenced' = IF patch.enabled = TRUE THEN silenced \ {r} ELSE silenced
    BY <1>2 DEF UpdateLoad
  <2>4. copy.enabled => r \notin silenced'
    BY <2>2, <2>3 DEF Requests, SilencedStaysSilent, Listed
  <2>5. silenced' \subseteq silenced
    BY <2>3
  <2> QED BY <2>1, <2>2, <2>3, <2>4, <2>5, RequestBegins
<1>3. ASSUME NEW r \in RuleIds, DeleteRow(a, r)
      PROVE  Requests'
  BY <1>3, RequestBegins DEF DeleteRow
<1>4. ASSUME NEW r \in RuleIds, DeleteRowFails(a, r)
      PROVE  Requests'
  <2>1. /\ UNCHANGED <<admin, created, silenced>>
        /\ \A q \in RuleIds : rules'[q] \in {rules[q], None}
    BY <1>4 DEF DeleteRowFails, Typed
  <2> QED BY <2>1 DEF Requests, AloneIsAlone, OnlyCreated, SilencedCopies,
                      SilencedStaysSilent, Holders, Listed
<1>5. CASE Refused(a)
  BY <1>5, RequestsQuiet DEF Refused, vars
<1>6. CASE UpdateSave(a) \/ DeleteState(a) \/ UpdateSaveFails(a)
  <2> PICK r \in RuleIds : r = admin[a].id
    BY <1>6, HeldAdmin DEF UpdateSave, DeleteState, UpdateSaveFails
  <2>1. a \in Holders(r) /\ EndRequest(a) /\ created' = created
    BY <1>6 DEF UpdateSave, DeleteState, UpdateSaveFails, Holders, Idle
  <2>2. \/ admin[a].op = "update" /\ rules' = [rules EXCEPT ![r] = admin[a].copy]
        \/ rules' = rules
    BY <1>6 DEF UpdateSave, DeleteState, UpdateSaveFails
  <2>3. \/ silenced' = silenced
        \/ /\ silenced' = silenced \cup {r}
           /\ admin[a].alone
           /\ \/ admin[a].op = "delete"
              \/ ~admin[a].copy.enabled /\ rules' = [rules EXCEPT ![r] = admin[a].copy]
    BY <1>6 DEF UpdateSave, DeleteState, UpdateSaveFails
  <2> QED BY <2>1, <2>2, <2>3, RequestEnds
<1> QED BY <1>1, <1>2, <1>3, <1>4, <1>5, <1>6 DEF Change

-----------------------------------------------------------------------------
(* Firings *)

LEMMA FiringsMeans ==
    ASSUME NEW r, NEW w \in Firing(r)
    PROVE  w \in Workers /\ work[w].op \in Past /\ work[w].id = r
BY DEF Firing, Past

\* A late worker holds its rule, and what it has seen and read are times.
LEMMA FiringTypes ==
    ASSUME Typed, NEW w \in Workers, work[w].op \in Late
    PROVE  /\ work[w] \in Judged
           /\ work[w].id \in RuleIds
           /\ work[w].stale \in BOOLEAN
           /\ work[w].rule.cooldown \in Nat
           /\ now \in Int
           /\ last[work[w].id] # None => last[work[w].id] \in Int
           /\ work[w].at # None => work[w].at \in Int
<1>1. work[w] \in Judged
  BY HeldWork
<1>2. work[w].rule \in Rule /\ work[w].at \in Time \cup {None} /\ work[w].id \in RuleIds
      /\ work[w].stale \in BOOLEAN
  BY <1>1 DEF Judged
<1>3. work[w].rule.cooldown \in Nat
  BY <1>2, RuleAssumption DEF Rule, RuleAssumption
<1> QED BY <1>1, <1>2, <1>3, RuleAssumption DEF Typed, Time, RuleAssumption

\* A step that begins no firing and ends none.
LEMMA FiringsQuiet ==
    ASSUME Typed, Firings, last' = last, early' = early, now' \in Int, now' >= now,
           \A w \in Workers : \/ work'[w] = work[w]
                              \/ work'[w].op \in {"idle", "evaluate", "save"}
                              \/ work'[w].op = "check" /\ work'[w].saved
    PROVE  Firings'
<1>1. SavedFirst'
  BY DEF Firings, SavedFirst, Late, Past
<1>2. CooldownIsOver'
  <2> SUFFICES ASSUME NEW w \in Workers, work'[w].op \in Past, ~work'[w].stale
               PROVE  Over(w)'
    BY DEF CooldownIsOver
  <2>1. work'[w] = work[w] /\ Over(w)
    BY DEF Past, Firings, CooldownIsOver
  <2>2. /\ work[w].rule.cooldown \in Nat /\ now \in Int
        /\ last[work[w].id] # None => last[work[w].id] \in Int
    BY <2>1, FiringTypes DEF Past, Late
  <2> QED BY <2>1, <2>2 DEF Over, Within
<1>3. ClockIsRead'
  BY DEF Firings, ClockIsRead
<1>4. CooldownIsKept'
  BY DEF Firings, CooldownIsKept
<1> QED BY <1>1, <1>2, <1>3, <1>4 DEF Firings

\* A step of one worker that begins its firing or goes on with it.
LEMMA FiringsOwn ==
    ASSUME Typed, Firings, NEW w \in Workers,
           UNCHANGED <<now, last, early>>,
           \A v \in Workers \ {w} : work'[v] = work[v],
           work'[w].saved,
           work'[w].op = "fire" => work'[w].at \in Time,
           work'[w].op \in Past /\ ~work'[w].stale => Over(w)'
    PROVE  Firings'
<1>1. SavedFirst'
  BY DEF Firings, SavedFirst
<1>2. CooldownIsOver'
  <2> SUFFICES ASSUME NEW v \in Workers, v # w, work'[v].op \in Past, ~work'[v].stale
               PROVE  Over(v)'
    BY DEF CooldownIsOver
  <2>1. work'[v] = work[v] /\ Over(v)
    BY DEF Firings, CooldownIsOver
  <2> QED BY <2>1 DEF Over, Within
<1>3. ClockIsRead'
  BY DEF Firings, ClockIsRead
<1>4. CooldownIsKept'
  BY DEF Firings, CooldownIsKept
<1> QED BY <1>1, <1>2, <1>3, <1>4 DEF Firings

\* What is not stale is the rule's latest firing.
LEMMA FiringsSee ==
    ASSUME Typed, Firings, NEW w \in Workers, ReadCooldown(w)
    PROVE  Firings'
<1>1. work[w] \in Judged /\ work[w].op = "check" /\ work[w].saved
  BY HeldWork DEF ReadCooldown, Late, Judged, Firings, SavedFirst
<1> DEFINE r == work[w].id
<1>2. /\ work'[w].op = IF cooldown[r] = None THEN "stamp" ELSE "compare"
      /\ work'[w].seen = cooldown[r] /\ (work'[w].stale <=> cooldown[r] # last[r])
      /\ work'[w].id = r /\ work'[w].saved
      /\ \A v \in Workers \ {w} : work'[v] = work[v]
  BY <1>1 DEF ReadCooldown, Proceed, Judged, Typed
<1>3. UNCHANGED <<now, last, early>>
  BY DEF ReadCooldown, histories
<1>4. ~work'[w].stale => Over(w)'
  BY <1>2, <1>3 DEF Over, Within
<1> QED BY <1>2, <1>3, <1>4, FiringsOwn

\* The clock is compared with what was seen.
LEMMA FiringsCheck ==
    ASSUME Typed, Firings, NEW w \in Workers, CheckCooldown(w)
    PROVE  Firings'
<1>1. work[w] \in Judged /\ work[w].op = "compare" /\ work[w].saved
  BY HeldWork DEF CheckCooldown, Late, Judged, Firings, SavedFirst
<1>2. UNCHANGED <<now, last, early>>
  BY DEF CheckCooldown, histories
<1>3. CASE now < work[w].seen + work[w].rule.cooldown
  <2>1. work'[w] = Evaluation(work[w].point, work[w].todo)
        /\ \A v \in Workers \ {w} : work'[v] = work[v]
    BY <1>3 DEF CheckCooldown, NextRule, Proceed, Typed
  <2>2. work'[w].op \in {"idle", "evaluate"}
    BY <2>1 DEF Evaluation, Idle
  <2>3. now' \in Int /\ now' >= now
    BY <1>2, RuleAssumption DEF RuleAssumption, Typed, Time
  <2> QED BY <1>2, <2>1, <2>2, <2>3, FiringsQuiet
<1>4. CASE ~(now < work[w].seen + work[w].rule.cooldown)
  <2>0. work' = [work EXCEPT ![w] = [work[w] EXCEPT !.op = "stamp", !.seen = None]]
    BY <1>4 DEF CheckCooldown, Proceed
  <2>1. /\ work'[w].op = "stamp" /\ work'[w].id = work[w].id /\ work'[w].saved
        /\ work'[w].rule = work[w].rule /\ work'[w].stale = work[w].stale
        /\ \A v \in Workers \ {w} : work'[v] = work[v]
    BY <1>1, <2>0 DEF Judged, Typed
  <2>2. ~work'[w].stale => Over(w)'
    <3>1. ~work[w].stale => work[w].seen = last[work[w].id]
      BY <1>1 DEF Firings, CooldownIsOver, Over, Past
    <3> QED BY <1>2, <1>4, <2>1, <3>1 DEF Over, Within
  <2> QED BY <1>2, <2>1, <2>2, FiringsOwn
<1> QED BY <1>3, <1>4

LEMMA FiringsRead ==
    ASSUME Typed, Firings, NEW w \in Workers, ReadClock(w)
    PROVE  Firings'
<1>1. work[w] \in Judged /\ work[w].op = "stamp" /\ work[w].saved
  BY HeldWork DEF ReadClock, Late, Firings, SavedFirst
<1>2. /\ work'[w].op = "fire" /\ work'[w].id = work[w].id /\ work'[w].saved
      /\ work'[w].rule = work[w].rule /\ work'[w].at = now /\ work'[w].stale = work[w].stale
      /\ \A v \in Workers \ {w} : work'[v] = work[v]
  BY <1>1 DEF ReadClock, Proceed, Judged, Typed
<1>3. UNCHANGED <<now, last, early>>
  BY DEF ReadClock, histories
<1>4. ~work'[w].stale => Over(w)'
  <2>1. ~work[w].stale => ~Within(now, work[w].id, work[w].rule.cooldown)
    BY <1>1 DEF Firings, CooldownIsOver, Over, Past
  <2> QED BY <1>2, <1>3, <2>1 DEF Over, Within
<1>5. work'[w].at \in Time
  BY <1>2 DEF Typed
<1> QED BY <1>2, <1>3, <1>4, <1>5, FiringsOwn

\* A firing makes the others of its rule stale, and comes too soon only if it is.
LEMMA FiringsFire ==
    ASSUME Typed, Firings, NEW w \in Workers, Fire(w)
    PROVE  Firings'
<1> DEFINE r == work[w].id
<1>1. /\ work[w] \in Judged /\ work[w].op = "fire" /\ r \in RuleIds
      /\ work'[w].op \in {"idle", "evaluate"}
      /\ \A v \in Workers \ {w} :
           work'[v] = IF v \in Firing(r) THEN [work[v] EXCEPT !.stale = TRUE] ELSE work[v]
  BY FireDoes
<1>2. /\ now' = now
      /\ \A q \in RuleIds \ {r} : last'[q] = last[q]
      /\ early' = IF Within(work[w].at, r, work[w].rule.cooldown)
                  THEN early \cup {[id |-> r, stale |-> work[w].stale]} ELSE early
  BY <1>1 DEF Fire, Typed
<1>3. ASSUME NEW v \in Workers, v # w
      PROVE  \/ work'[v] = work[v] /\ v \notin Firing(r)
             \/ /\ work'[v].stale
                /\ work'[v].op = work[v].op
                /\ work'[v].saved = work[v].saved
                /\ work'[v].at = work[v].at
  <2>1. CASE v \in Firing(r)
    <3>1. work[v] \in Judged
      BY <2>1, FiringsMeans, HeldWork DEF Past, Late
    <3> QED BY <1>1, <1>3, <2>1, <3>1 DEF Judged
  <2> QED BY <1>1, <1>3, <2>1
<1>4. SavedFirst'
  BY <1>1, <1>3 DEF Firings, SavedFirst, Late, Past
<1>5. CooldownIsOver'
  <2> SUFFICES ASSUME NEW v \in Workers, work'[v].op \in Past, ~work'[v].stale
               PROVE  Over(v)'
    BY DEF CooldownIsOver
  <2>1. v # w
    BY <1>1 DEF Past
  <2>2. work'[v] = work[v] /\ v \notin Firing(r)
    BY <1>3, <2>1
  <2>3. work[v].id \in RuleIds \ {r}
    BY <2>2, FiringTypes DEF Firing, Past, Late
  <2>4. Over(v) /\ last'[work[v].id] = last[work[v].id]
    BY <1>2, <2>2, <2>3 DEF Firings, CooldownIsOver
  <2> QED BY <1>2, <2>2, <2>4 DEF Over, Within
<1>6. ClockIsRead'
  BY <1>1, <1>3 DEF Firings, ClockIsRead
<1>7. CooldownIsKept'
  <2>1. Within(work[w].at, r, work[w].rule.cooldown) => work[w].stale
    BY <1>1 DEF Firings, CooldownIsOver, Over, Past
  <2> QED BY <1>2, <2>1 DEF Firings, CooldownIsKept
<1> QED BY <1>4, <1>5, <1>6, <1>7 DEF Firings

LEMMA FiringsWorker ==
    ASSUME Typed, Firings, NEW w \in Workers, HandleTelemetry(w)
    PROVE  Firings'
<1>1. CASE ReadCooldown(w) \/ CheckCooldown(w) \/ ReadClock(w) \/ Fire(w)
  BY <1>1, FiringsSee, FiringsCheck, FiringsRead, FiringsFire
<1>2. CASE SaveExecution(w)
  <2>1. work[w] \in Judged
    BY <1>2, HeldWork DEF SaveExecution
  <2>2. \/ work'[w].op \in {"idle", "evaluate"}
        \/ work'[w].op = "check" /\ work'[w].saved
    <3>1. CASE work[w].triggered
      <4>1. work'[w] = [work[w] EXCEPT !.op = "check", !.saved = TRUE]
        BY <1>2, <3>1 DEF SaveExecution, Proceed, Typed
      <4> QED BY <2>1, <4>1 DEF Judged
    <3>2. CASE ~work[w].triggered
      <4>1. work'[w] = Evaluation(work[w].point, work[w].todo)
        BY <1>2, <3>2 DEF SaveExecution, NextRule, Proceed, Typed
      <4> QED BY <4>1 DEF Evaluation, Idle
    <3> QED BY <3>1, <3>2
  <2>3. \A v \in Workers \ {w} : work'[v] = work[v]
    BY <1>2 DEF SaveExecution, NextRule, Proceed, Typed
  <2>4. UNCHANGED <<now, last, early>> /\ now' \in Int /\ now' >= now
    BY <1>2, RuleAssumption DEF SaveExecution, histories, RuleAssumption, Typed, Time
  <2> QED BY <2>2, <2>3, <2>4, FiringsQuiet
<1>3. CASE /\ \/ \E at \in Time, high \in BOOLEAN : List(w, at, high)
              \/ work[w] # Idle /\ \E entry \in work[w].todo : Buffer(w, entry)
              \/ SaveExecutionFails(w)
           /\ ~SaveExecution(w)
  <2>1. UNCHANGED <<now, last, early>>
    BY <1>3 DEF List, Buffer, SaveExecutionFails, histories
  <2>2. now' \in Int /\ now' >= now
    BY <2>1, RuleAssumption DEF RuleAssumption, Typed, Time
  <2>3. work[w].op \in {"idle", "evaluate", "save"}
    <3>1. ASSUME NEW at, NEW high, List(w, at, high) PROVE work[w].op = "idle"
      BY <3>1 DEF List, Idle
    <3>2. ASSUME NEW entry, Buffer(w, entry) PROVE work[w].op = "evaluate"
      BY <3>2 DEF Buffer
    <3>3. CASE SaveExecutionFails(w)
      BY <3>3 DEF SaveExecutionFails
    <3> QED BY <1>3, <3>1, <3>2, <3>3
  <2> QED BY <1>3, <2>1, <2>2, <2>3, WorkerStates, FiringsQuiet
<1> QED BY <1>1, <1>2, <1>3 DEF HandleTelemetry

LEMMA FiringsChange ==
    ASSUME Typed, Firings, NEW a \in Admins, Change(a)
    PROVE  Firings'
<1>1. UNCHANGED <<now, work, last, early>>
  BY DEF Change, CreateRule, UpdateLoad, DeleteRow, DeleteRowFails, Refused,
     UpdateSave, DeleteState, UpdateSaveFails, histories, vars
<1>2. now' \in Int /\ now' >= now
  BY <1>1, RuleAssumption DEF RuleAssumption, Typed, Time
<1> QED BY <1>1, <1>2, FiringsQuiet

-----------------------------------------------------------------------------
(* The invariant *)

LEMMA InvInit == Init => IInv
<1> SUFFICES ASSUME Init PROVE IInv
  OBVIOUS
<1>1. Typed
  <2>1. << >> \in Seq(Points)
    OBVIOUS
  <2>2. now \in Time
    BY RuleAssumption DEF Init, Time, RuleAssumption
  <2> QED BY <2>1, <2>2, IdleStates DEF Init, Typed
<1>2. Requests
  BY DEF Init, Requests, AloneIsAlone, OnlyCreated, SilencedCopies, SilencedStaysSilent,
         Holders, Listed
<1>3. Firings
  BY DEF Init, Firings, SavedFirst, CooldownIsOver, ClockIsRead, CooldownIsKept,
         Late, Past, Idle
<1> QED BY <1>1, <1>2, <1>3 DEF IInv

LEMMA InvStep == IInv /\ [Next]_vars => IInv'
<1> SUFFICES ASSUME IInv, [Next]_vars PROVE IInv'
  OBVIOUS
<1> USE DEF IInv
<1>1. CASE Tick
  <2>1. UNCHANGED <<rules, buffers, cooldown, work, admin, created, last, early, silenced>>
    BY <1>1 DEF Tick, engine, histories
  <2>2. now' \in Time /\ now' \in Int /\ now' >= now
    BY <1>1, RuleAssumption DEF Tick, Typed, Time, RuleAssumption
  <2>3. Typed'
    BY <2>1, <2>2 DEF Typed
  <2>4. Requests'
    BY <2>1, RequestsQuiet
  <2>5. Firings'
    BY <2>1, <2>2, <2>3, FiringsQuiet
  <2> QED BY <2>3, <2>4, <2>5
<1>2. ASSUME NEW a \in Admins, Change(a) PROVE IInv'
  BY <1>2, TypedChange, RequestsChange, FiringsChange
<1>3. ASSUME NEW w \in Workers, HandleTelemetry(w) PROVE IInv'
  <2>1. UNCHANGED <<rules, admin, created, silenced>>
    BY <1>3 DEF HandleTelemetry, List, Buffer, SaveExecution, SaveExecutionFails,
                ReadCooldown, CheckCooldown, ReadClock, Fire
  <2> QED BY <1>3, <2>1, WorkerStates, RequestsQuiet, FiringsWorker
<1>4. CASE UNCHANGED vars
  <2>1. UNCHANGED <<now, rules, buffers, cooldown, work, admin, created, last, early, silenced>>
    BY <1>4 DEF vars, engine, histories
  <2> QED BY <2>1 DEF Typed, Requests, AloneIsAlone, OnlyCreated, SilencedCopies,
       SilencedStaysSilent, Holders, Listed, Firings, SavedFirst, CooldownIsOver, Over,
       Within, ClockIsRead, CooldownIsKept
<1> QED BY <1>1, <1>2, <1>3, <1>4 DEF Next

-----------------------------------------------------------------------------
(* What the engine promises *)

\* The invariant holds in every state the engine and the requests reach.
THEOREM Invariance == Spec => []IInv
BY InvInit, InvStep, PTL DEF Spec

\* A firing within the cooldown of an earlier one went by an entry that was not, or no
\* longer, the rule's latest firing (the unlocked check and set of evaluateRule).
THEOREM Cooled == Spec => []CooldownIsKept
<1>1. IInv => CooldownIsKept
  BY DEF IInv, Firings
<1> QED BY <1>1, Invariance, PTL

\* No worker runs actions whose execution has not been saved (evaluateRule).
THEOREM Recorded == Spec => []ActionsAreRecorded
<1>1. IInv => ActionsAreRecorded
  BY DEF IInv, Firings, SavedFirst, Late, Past, ActionsAreRecorded
<1> QED BY <1>1, Invariance, PTL

\* A rule disabled or deleted undisturbed is not listed until a patch enables
\* it (UpdateRule, DeleteRule, HandleTelemetry).
THEOREM Silent == Spec => []SilencedStaysSilent
<1>1. IInv => SilencedStaysSilent
  BY DEF IInv, Requests
<1> QED BY <1>1, Invariance, PTL

-----------------------------------------------------------------------------
(* The window *)

\* What a buffer holds after a point: the end of what it held and the point,
\* from a fresh point or a later one on.
LEMMA HeldPoints ==
    ASSUME NEW all \in Seq(Points), NEW kept \in Kept(all)
    PROVE  LET held == Capped(kept)
               gone == Len(all) - Len(held)
           IN  /\ held \in Seq(Points)
               /\ gone \in 0 .. Len(all)
               /\ \A k \in 1 .. Len(held) : held[k] = all[gone + k]
               /\ Len(held) > 0 => \E i \in 1 .. gone + 1 : i \in 1 .. Len(all) /\ Fresh(all[i])
<1> DEFINE held == Capped(kept)
           n == Len(all)
<1>1. PICK i \in 0 .. n : /\ kept = SubSeq(all, i + 1, n)
                          /\ i < n => Fresh(all[i + 1])
  BY DEF Kept
<1>2. /\ kept \in Seq(Points)
      /\ Len(kept) = n - i
      /\ \A k \in 1 .. n - i : kept[k] = all[i + k]
  <2>1. i + 1 \in 1 .. n + 1 /\ n \in Nat
    OBVIOUS
  <2>2. /\ SubSeq(all, i + 1, n) \in Seq(Points)
        /\ Len(SubSeq(all, i + 1, n)) = n - (i + 1) + 1
        /\ \A k \in 1 .. n - (i + 1) + 1 : SubSeq(all, i + 1, n)[k] = all[(i + 1) + k - 1]
    BY <2>1, Suffix
  <2>3. \A k \in 1 .. n - i : k \in 1 .. n - (i + 1) + 1 /\ (i + 1) + k - 1 = i + k
    BY <2>1
  <2> QED BY <1>1, <2>1, <2>2, <2>3
<1>3. PICK j \in 0 .. Len(kept) :
        /\ held \in Seq(Points)
        /\ Len(held) = Len(kept) - j
        /\ \A k \in 1 .. Len(held) : held[k] = kept[j + k]
  <2>1. CASE Len(kept) <= BufferLimit
    <3>1. held = kept
      BY <2>1 DEF Capped
    <3> HIDE DEF held
    <3>2. 0 \in 0 .. Len(kept) /\ Len(held) = Len(kept) - 0 /\ held \in Seq(Points)
      BY <1>2, <3>1
    <3>3. \A k \in 1 .. Len(held) : held[k] = kept[0 + k]
      BY <3>1
    <3> WITNESS 0 \in 0 .. Len(kept)
    <3> QED BY <3>2, <3>3
  <2>2. CASE ~(Len(kept) <= BufferLimit)
    <3> DEFINE m == Len(kept)
               j == m - BufferLimit
    <3>1. BufferLimit \in Nat \ {0} /\ m \in Nat /\ j \in 0 .. m /\ j + 1 \in 1 .. m + 1
      BY <1>2, <2>2, RuleAssumption DEF RuleAssumption
    <3>2. held = SubSeq(kept, j + 1, m)
      BY <2>2 DEF Capped
    <3> HIDE DEF j, m, held
    <3>3. m = Len(kept)
      BY DEF m
    <3>4. /\ held \in Seq(Points)
          /\ Len(held) = m - (j + 1) + 1
          /\ \A k \in 1 .. m - (j + 1) + 1 : held[k] = kept[(j + 1) + k - 1]
      BY <1>2, <3>1, <3>2, <3>3, Suffix
    <3>5. m - (j + 1) + 1 = m - j /\ \A k \in 1 .. m - j : (j + 1) + k - 1 = j + k
      BY <3>1
    <3>6. Len(held) = m - j /\ \A k \in 1 .. Len(held) : held[k] = kept[j + k]
      BY <3>1, <3>4, <3>5
    <3> QED BY <3>1, <3>3, <3>4, <3>6
  <2> QED BY <2>1, <2>2
<1> HIDE DEF held
<1>4. n \in Nat /\ Len(held) = n - i - j /\ n - Len(held) = i + j /\ i + j \in 0 .. n
  BY <1>2, <1>3
<1>5. ASSUME NEW k \in 1 .. Len(held) PROVE held[k] = all[(n - Len(held)) + k]
  <2>1. held[k] = kept[j + k]
    BY <1>3
  <2>2. j + k \in 1 .. n - i /\ i + (j + k) = (n - Len(held)) + k
    BY <1>2, <1>4
  <2> QED BY <1>2, <2>1, <2>2
<1>6. Len(held) > 0 =>
        i + 1 \in 1 .. (n - Len(held)) + 1 /\ i + 1 \in 1 .. n /\ Fresh(all[i + 1])
  BY <1>1, <1>4
<1> QED BY <1>3, <1>4, <1>5, <1>6 DEF held

\* One point evaluated, in time order, leaves fresh points only.
LEMMA FreshPoints ==
    ASSUME now \in Time, NEW buffer \in Seq(Points), NEW point \in Points,
           NEW kept \in Kept(Append(buffer, point)), Capped(kept) # << >>,
           InTimeOrder(Append(buffer, Capped(kept)[Len(Capped(kept))]))
    PROVE  \A k \in DOMAIN Capped(kept) : Fresh(Capped(kept)[k])
<1> DEFINE all == Append(buffer, point)
           held == Capped(kept)
           n == Len(all)
           gone == n - Len(held)
<1>1. all \in Seq(Points) /\ n \in Nat \ {0} /\ all[n] = point
  OBVIOUS
<1>2. /\ held \in Seq(Points)
      /\ gone \in 0 .. n
      /\ \A k \in 1 .. Len(held) : held[k] = all[gone + k]
      /\ Len(held) > 0 => \E i \in 1 .. gone + 1 : i \in 1 .. n /\ Fresh(all[i])
  BY <1>1, HeldPoints
<1> HIDE DEF all, held, n, gone
<1>3. Len(held) \in Nat \ {0} /\ held # << >> /\ gone = n - Len(held)
  BY <1>2 DEF held, gone
<1>4. held[Len(held)] = point
  BY <1>1, <1>2, <1>3
<1>5. InTimeOrder(all)
  BY <1>4 DEF all, held
<1>6. PICK i \in 1 .. gone + 1 : i \in 1 .. n /\ Fresh(all[i])
  BY <1>2, <1>3
<1>7. ASSUME NEW k \in 1 .. Len(held) PROVE Fresh(held[k])
  <2>1. held[k] = all[gone + k] /\ gone + k \in 1 .. n /\ i <= gone + k
    BY <1>1, <1>2, <1>3, <1>6
  <2>2. \A x \in Points : x.at \in Int
    BY RuleAssumption DEF Points, Time, RuleAssumption
  <2>3. all[i] \in Points /\ all[gone + k] \in Points
    BY <1>1, <1>6, <2>1 DEF n
  <2>4. all[i].at \in Int /\ all[gone + k].at \in Int
    BY <2>2, <2>3
  <2>5. all[i].at <= all[gone + k].at
    <3>1. CASE i = gone + k
      BY <2>4, <3>1
    <3>2. CASE i < gone + k
      BY <1>1, <1>5, <1>6, <2>1, <3>2 DEF InTimeOrder, n
    <3> QED BY <1>1, <1>3, <1>6, <2>1, <3>1, <3>2
  <2>6. now - Window \in Int
    BY RuleAssumption DEF Time, RuleAssumption
  <2> QED BY <1>6, <2>1, <2>4, <2>5, <2>6 DEF Fresh
<1>8. DOMAIN held = 1 .. Len(held)
  BY <1>2
<1> QED BY <1>7, <1>8 DEF held

WindowKept ==
    \A r \in RuleIds :
        LET held == buffers'[r]
        IN  held \notin {buffers[r], << >>} /\ InTimeOrder(Append(buffers[r], held[Len(held)]))
            => \A i \in DOMAIN held : Fresh(held[i])

LEMMA WindowStep == Typed /\ [Next]_vars => WindowKept
<1> SUFFICES ASSUME Typed, [Next]_vars, NEW r \in RuleIds,
                    buffers'[r] \notin {buffers[r], << >>},
                    InTimeOrder(Append(buffers[r], buffers'[r][Len(buffers'[r])]))
             PROVE  \A i \in DOMAIN buffers'[r] : Fresh(buffers'[r][i])
  BY DEF WindowKept
<1>0. PICK w \in Workers : \E entry \in work[w].todo : Buffer(w, entry)
  <2>1. CASE Tick \/ UNCHANGED vars
    BY <2>1 DEF Tick, vars, engine
  <2>2. CASE \E a \in Admins : Change(a)
    BY <2>2 DEF Change, CreateRule, UpdateLoad, DeleteRow, DeleteRowFails, Refused,
       UpdateSave, DeleteState, UpdateSaveFails, engine, vars, Typed
  <2>3. ASSUME NEW w \in Workers, HandleTelemetry(w)
        PROVE  \E entry \in work[w].todo : Buffer(w, entry)
    BY <2>3 DEF HandleTelemetry, List, SaveExecution, SaveExecutionFails, ReadCooldown,
       CheckCooldown, ReadClock, Fire, engine
  <2> QED BY <2>1, <2>2, <2>3 DEF Next
<1>1. PICK entry \in work[w].todo : Buffer(w, entry)
  BY <1>0
<1>2. /\ work[w] \in Evaluated
      /\ entry[1] \in RuleIds
      /\ work[w].point \in Points
  BY <1>1, HeldWork DEF Buffer, Evaluated
<1>3. PICK kept \in Kept(Append(buffers[entry[1]], work[w].point)) :
        buffers' = [buffers EXCEPT ![entry[1]] = Capped(kept)]
  BY <1>1 DEF Buffer
<1>4. entry[1] = r /\ buffers'[r] = Capped(kept)
  BY <1>2, <1>3 DEF Typed
<1>5. now \in Time /\ buffers[r] \in Seq(Points) /\ kept \in Kept(Append(buffers[r], work[w].point))
  BY <1>3, <1>4 DEF Typed
<1> QED BY <1>2, <1>4, <1>5, FreshPoints

\* What a rule aggregates lies in its window as long as its points come in time
\* order (prunePoints, and the cap after it).
THEOREM InWindow == Spec => WindowIsKept
<1>1. IInv /\ [Next]_vars =>
        [\A r \in RuleIds :
          LET held == buffers'[r]
          IN  /\ held \notin {buffers[r], << >>}
              /\ InTimeOrder(Append(buffers[r], held[Len(held)]))
              => \A i \in DOMAIN held : Fresh(held[i])]_vars
  BY WindowStep DEF IInv, WindowKept
<1> QED BY <1>1, Invariance, PTL DEF Spec, WindowIsKept
=============================================================================
